SPECIFICATION MCSpec
CONSTANTS
  s1 = s1
  s2 = s2
  s3 = s3
  b1 = b1
  b2 = b2
  b3 = b3
  n1 = n1
  d1 = d1
  d2 = d2
  f1 = f1
  f2 = f2
  NoReq = NoReq
  Sync = {s1,s2,s3}
  Background = {b1,b2,b3}
  NotifyReply = {n1}
  Forced = {s2}
  Raw = {b3}
  NoFail = {s2,s3}
  Thread = {d1,d2}
  Forget = {f1,f2}
  MaxBackground = 2
  CongestionThreshold = 1
  ForgetBatch = 2
  RequestBatch = 1
  UniqueMax = 20
  UintMax = 100
  StartCtr = 20
  RetryLimit = 2
  Scenarios = {{s1},{s2,s3},{b1,b2,b3},{b1,b2,n1},{s1,b1}}
CONSTRAINT Within
SYMMETRY ThreadSymmetry
INVARIANTS
  TypeOK
  ListsMatchState
  RefsHeld
  CopyKeepsBuffers
  CountersExact
  BackgroundLimits
  AnswersFindTheirRequest
  InterruptPassedOn
  NoLostWakeup
PROPERTIES
  ResultFinal
