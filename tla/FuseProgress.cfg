SPECIFICATION FairMCSpec
CONSTANTS
  s1 = s1
  s2 = s2
  s3 = s3
  b1 = b1
  b2 = b2
  b3 = b3
  n1 = n1
  d1 = d1
  d2 = d2
  f1 = f1
  f2 = f2
  NoReq = NoReq
  Sync = {s1,s2}
  Background = {b1,b2}
  NotifyReply = {}
  Forced = {}
  Raw = {}
  NoFail = {s1,s2}
  Thread = {d1}
  Forget = {}
  MaxBackground = 1
  CongestionThreshold = 1
  ForgetBatch = 2
  RequestBatch = 1
  UniqueMax = 20
  UintMax = 100
  StartCtr = 0
  RetryLimit = 2
  Scenarios = {{s1,b1},{b1,b2},{s1,s2}}
PROPERTIES
  ImplementsService
  CallersGetAway
  EveryoneServed
