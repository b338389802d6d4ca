-------------------------- MODULE FuseRequestProofs --------------------------
(***************************************************************************)
(* Theorems about the requests of the FUSE connection of FuseDev, from the *)
(* inductive invariant Inv of FuseDevProofs: references, buffers, sleeps   *)
(* and results, the refinement of FuseService, the ids of requests and     *)
(* interrupts, and the counters of the connection.                         *)
(***************************************************************************)
EXTENDS FuseDevProofs

-----------------------------------------------------------------------------
(***************************************************************************)
(* Theorems.                                                               *)
(***************************************************************************)
\* Whoever may still touch a request is on the device, or is its caller.
LEMMA DeviceIs ==
  ASSUME Inv, NEW r \in Requests
  PROVE  DeviceHolds(r) <=> OnDevice(r)
<1>1. PerRequest(r) BY DEF Inv
<1>2. Busy(r) = {} <=> Worker(r).pc = "idle"
  <2>1. ASSUME Busy(r) # {} PROVE Worker(r).pc # "idle" BY <2>1, NoWorker
  <2> QED BY <2>1, NoWorker
<1>3. Aborter(r) = "end" <=> AbortEnding(r) BY DEF Aborter, AbortEnding
<1> QED BY <1>1, <1>2, <1>3 DEF PerRequest, Placed, DeviceHolds, OnDevice

LEMMA StolenOnce ==
  ASSUME Inv
  PROVE  Cardinality({r \in Requests : fc.req[r].stolen}) = One(~ fc.reserved)
<1> DEFINE S == {r \in Requests : fc.req[r].stolen}
<1>1. \A r, s \in S : r = s BY DEF Inv, Shared
<1>2. fc.reserved <=> S = {} BY DEF Inv, Shared
<1> HIDE DEF S
<1>3. CASE S = {}
  <2>1. Cardinality(S) = 0 BY <1>3, FS_EmptySet
  <2> QED BY <1>2, <1>3, <2>1 DEF One, S
<1>4. CASE S # {}
  <2>1. PICK r \in S : TRUE BY <1>4
  <2>2. S = {r} BY <1>1, <2>1
  <2>3. Cardinality(S) = 1 BY <2>2, FS_Singleton
  <2> QED BY <1>2, <1>4, <2>3 DEF One, S
<1> QED BY <1>3, <1>4

LEMMA InvRefs == Inv => RefsHeld
<1> SUFFICES ASSUME Inv PROVE RefsHeld OBVIOUS
<1>1. ASSUME NEW r \in Requests
      PROVE  /\ fc.req[r].count = One(CallerHolds(r)) + One(DeviceHolds(r))
                                   + One(abort.pc = "io_end" /\ abort.req = r)
             /\ \A d, e \in Busy(r) : d = e
             /\ AbortEnding(r) => Busy(r) = {}
  <2>1. PerRequest(r) BY DEF Inv
  <2>2. Aborter(r) = "io" <=> abort.pc = "io_end" /\ abort.req = r BY DEF Aborter
  <2>3. fc.req[r].count = One(CallerHolds(r)) + One(DeviceHolds(r))
                           + One(abort.pc = "io_end" /\ abort.req = r)
    BY <2>1, <2>2, DeviceIs DEF PerRequest, Held, One
  <2>4. AbortEnding(r) => Aborter(r) = "end" BY DEF Aborter, AbortEnding
  <2>5. AbortEnding(r) => Busy(r) = {} BY <2>1, <2>4, NoWorker DEF PerRequest, Taken
  <2> QED BY <2>1, <2>3, <2>5 DEF PerRequest, OneWorker
<1>2. ASSUME NEW r \in Requests \ Sync
      PROVE  /\ fc.req[r].ended <= 1
             /\ task[r] = "sent" /\ fc.req[r].count = 0 => fc.req[r].ended = 1
  <2>1. PerRequest(r) /\ fc.req[r] \in Req BY ConnFields DEF Inv, TypeInv, TypeOK
  <2>2. fc.req[r].ended \in Nat BY <2>1 DEF Req
  <2>3. Owing(r) \in Nat BY DEF Owing, One
  <2>4. fc.req[r].ended <= 1
    <3>1. CASE task[r] = "leaked" BY <3>1, <2>1 DEF PerRequest, Callback
    <3>2. CASE task[r] # "leaked"
      <4>1. fc.req[r].ended + Owing(r) = 1 BY <3>2, <2>1 DEF PerRequest, Callback
      <4> QED BY <4>1, <2>2, <2>3
    <3> QED BY <3>1, <3>2
  <2>5. ASSUME task[r] = "sent", fc.req[r].count = 0 PROVE fc.req[r].ended = 1
    <3>1. ~ OnDevice(r) /\ Aborter(r) # "io" BY <2>1, <2>5 DEF PerRequest, Held, One
    <3>2. Worker(r).pc = "idle" /\ Aborter(r) # "end" BY <3>1 DEF OnDevice
    <3>3. ~ Worker(r).end BY <2>1, <3>2 DEF PerRequest, Worked
    <3>4. fc.req[r].state = "FINISHED"
      <4>1. fc.req[r].state # "INIT" \/ fc.req[r].background
        BY <2>1, <2>5 DEF PerRequest, Called
      <4>2. fc.req[r].state # "PENDING" \/ fc.req[r].error # "EINTR"
        BY <2>1, <2>5 DEF PerRequest, Told
      <4>3. fc.req[r].state \in State BY <2>1 DEF Req
      <4> QED BY <3>1, <4>1, <4>2, <4>3 DEF OnDevice, State
    <3>5. ~ fc.req[r].end BY <2>1, <3>4 DEF PerRequest, Callback
    <3>6. Owing(r) = 0 BY <2>5, <3>1, <3>2, <3>3, <3>5 DEF Owing, One
    <3>7. fc.req[r].ended + Owing(r) = 1 BY <2>1, <2>5 DEF PerRequest, Callback
    <3> QED BY <3>6, <3>7, <2>2
  <2> QED BY <2>4, <2>5
<1> QED BY <1>1, <1>2, StolenOnce DEF RefsHeld

\* The reference count of a request is the number of parties that may still
\* touch it, whatever callers, daemon threads, signals and an abort do in which
\* order: fuse_put_request frees it when the last one is done, and not before.
\* One thread at most works on it, and the end callback of a request nobody
\* waits for is called exactly once.
THEOREM References == Spec => []RefsHeld
BY Requests_Inv, InvRefs, PTL

LEMMA InvCopy == Inv => CopyKeepsBuffers
<1> SUFFICES ASSUME Inv, NEW r \in Requests, fc.req[r].locked
             PROVE  /\ \E d \in Busy(r) : thread[d].phase \in {"locked", "failed"}
                    /\ r \in Sync => task[r] \in Waits
                    /\ fc.req[r].ended = 0
  BY DEF CopyKeepsBuffers, Waits
<1>1. PerRequest(r) BY DEF Inv
<1>2. Worker(r).pc \in {"read", "write"} /\ Worker(r).phase \in {"locked", "failed"}
  BY <1>1 DEF PerRequest, Worked
<1>3. PICK d \in Busy(r) : TRUE BY <1>2, NoWorker
<1>4. Worker(r) = thread[d] BY <1>1, <1>3, WorkerIs DEF PerRequest
<1>5. fc.req[r].state \in {"READING", "WRITING"} \/ fc.req[r].aborted
  BY <1>1, <1>2 DEF PerRequest, Worked
<1>6. fc.req[r].state # "INIT" /\ (fc.req[r].state = "PENDING" => fc.req[r].error # "EINTR")
  BY <1>1, <1>5 DEF PerRequest, Told
<1>7. task[r] \notin Before \cup {"leaked", "returned", "done"}
  BY <1>1, <1>6 DEF PerRequest, Called
<1>8. r \in Sync => task[r] \in Waits BY <1>1, <1>7 DEF PerRequest, Called
<1>9. fc.req[r].ended = 0 BY <1>1, <1>7 DEF PerRequest, Callback
<1> QED BY <1>2, <1>3, <1>4, <1>8, <1>9

\* While a thread copies to or from the buffers of a request, the caller that
\* owns them is still waiting and the callback that releases them has not run:
\* neither a signal nor an abort lets them go.
THEOREM Buffers == Spec => []CopyKeepsBuffers
BY Requests_Inv, InvCopy, PTL

LEMMA InvInterrupt == Inv => InterruptPassedOn
BY DEF Inv, PerRequest, Sleeps, InterruptPassedOn

\* An interrupt that comes while its request is read by the daemon is queued
\* for the daemon, or was read by it, once the request is sent.
THEOREM Interrupts == Spec => []InterruptPassedOn
BY Requests_Inv, InvInterrupt, PTL

LEMMA InvWakeup == Inv => NoLostWakeup
<1> SUFFICES ASSUME Inv, NEW r \in Requests
             PROVE  /\ r \in fc.blocked_waitq => fc.blocked \/ abort.pc \notin {"no", "done"}
                    /\ task[r] \in Waits /\ fc.req[r].asleep /\ Ended(r) =>
                         Busy(r) # {} \/ AbortEnding(r)
                    /\ abort.pc = "io_end" /\ abort.req = r /\ fc.req[r].asleep => Busy(r) # {}
  BY DEF NoLostWakeup
<1>1. PerRequest(r) BY DEF Inv
<1>2. fc.blocked_waitq # {} => fc.blocked \/ abort.pc \notin {"no", "done"}
  BY DEF Inv, Shared
<1>3. Worker(r).pc # "idle" => Busy(r) # {} BY NoWorker
<1>4. Aborter(r) = "end" <=> AbortEnding(r) BY DEF Aborter, AbortEnding
<1>5. abort.pc = "io_end" /\ abort.req = r => Aborter(r) = "io" BY DEF Aborter
<1>6. Aborter(r) = "io" => fc.req[r].state = "FINISHED" /\ task[r] = "sent"
  BY <1>1 DEF PerRequest, Taken
<1>7. task[r] = "sent" => r \notin Sync
  BY <1>1 DEF PerRequest, Called, Before, Waits
<1>8. fc.req[r].asleep /\ fc.req[r].state = "FINISHED" =>
        Worker(r).pc # "idle" \/ (r \in Sync /\ Aborter(r) = "end")
  BY <1>1 DEF PerRequest, Sleeps
<1> QED BY <1>2, <1>3, <1>4, <1>5, <1>6, <1>7, <1>8 DEF Ended

\* Whoever sleeps on the connection or on a request has something to wait for or
\* somebody who is about to wake it up.
THEOREM Wakeups == Spec => []NoLostWakeup
BY Requests_Inv, InvWakeup, PTL

\* Once a request is finished its error never changes: neither the end of its
\* copy nor an abort touches what its caller was told.
THEOREM Results == Spec => ResultFinal
<1>1. Inv /\ [Next]_vars =>
        [\A r \in Requests : Ended(r) =>
           Ended(r)' /\ (fc.req[r].error)' = fc.req[r].error]_vars
  BY InvStep DEF Result, Final
<1> QED BY Requests_Inv, <1>1, PTL DEF Spec, ResultFinal

-----------------------------------------------------------------------------
(***************************************************************************)
(* The service.                                                            *)
(***************************************************************************)
StatusMap == [r \in Requests |-> Status(r)]

OutcomeMap == [r \in Requests |-> IF Over(r) THEN fc.req[r].error ELSE "none"]

LEMMA OneGoes ==
  ASSUME NEW r \in Requests, \A s \in Requests \ {r} : Stays(s)
  PROVE  /\ StatusMap' = [StatusMap EXCEPT ![r] = Status(r)']
         /\ OutcomeMap' = [OutcomeMap EXCEPT ![r] = Outcome(r)']
BY DEF StatusMap, OutcomeMap, Stays, Outcome

LEMMA ServiceStep ==
  ASSUME Inv, Serves
  PROVE  [Service!Next]_(Service!vars)
<1>0. fc.connected \in BOOLEAN BY DEF Inv, TypeInv, TypeOK, Conn
<1>1. CASE (fc.connected)' \in {fc.connected, FALSE} /\ \A s \in Requests : Stays(s)
  <2>1. StatusMap' = StatusMap /\ OutcomeMap' = OutcomeMap
    BY <1>1 DEF StatusMap, OutcomeMap, Stays, Outcome
  <2>2. CASE (fc.connected)' = fc.connected
    BY <2>1, <2>2 DEF Service!vars, StatusMap, OutcomeMap
  <2>3. CASE (fc.connected)' = FALSE /\ fc.connected
    <3>1. Service!Close BY <2>1, <2>3 DEF Service!Close, StatusMap, OutcomeMap
    <3> QED BY <3>1 DEF Service!Next
  <2> QED BY <1>0, <1>1, <2>2, <2>3
<1>2. ASSUME (fc.connected)' = fc.connected,
             NEW r \in Requests, Turns(r), \A s \in Requests \ {r} : Stays(s)
      PROVE  [Service!Next]_(Service!vars)
  <2>1. /\ StatusMap' = [StatusMap EXCEPT ![r] = Status(r)']
        /\ OutcomeMap' = [OutcomeMap EXCEPT ![r] = Outcome(r)']
    BY <1>2, OneGoes
  <2>2. StatusMap[r] = Status(r) /\ OutcomeMap[r] = Outcome(r)
    BY DEF StatusMap, OutcomeMap, Outcome
  <2>3. Outcome(r)' = Outcome(r) => OutcomeMap' = OutcomeMap
    BY <2>1, <2>2 DEF OutcomeMap
  <2>4. CASE Stays(r)
    <3>1. StatusMap' = StatusMap BY <2>1, <2>2, <2>4 DEF Stays, StatusMap
    <3> QED BY <1>2, <2>3, <2>4, <3>1 DEF Stays, Service!vars, StatusMap, OutcomeMap
  <2>5. ASSUME NEW from, NEW to, fc.connected, Goes(r, from, to), Outcome(r)' = Outcome(r)
        PROVE  Service!Advance(r, from, to)
    BY <1>2, <2>1, <2>2, <2>3, <2>5 DEF Goes, Service!Advance, StatusMap, OutcomeMap
  <2>6. ASSUME NEW why, Status(r)' = "over", Outcome(r)' = why
        PROVE  Service!Finish(r, why)
    BY <1>2, <2>1, <2>6 DEF Service!Finish, StatusMap, OutcomeMap
  <2>7. StatusMap[r] = Status(r) /\ StatusMap = [s \in Requests |-> Status(s)]
    BY DEF StatusMap
  <2> SUFFICES ASSUME ~ Stays(r) PROVE Service!Next
    BY <2>4
  <2>8. CASE fc.connected /\ Goes(r, "new", "queued") /\ Outcome(r)' = Outcome(r)
    <3>1. Service!Submit(r) BY <2>5, <2>8 DEF Service!Submit
    <3> QED BY <3>1 DEF Service!Next
  <2>9. CASE fc.connected /\ Goes(r, "queued", "taken") /\ Outcome(r)' = Outcome(r)
    <3>1. Service!Take(r) BY <2>5, <2>9 DEF Service!Take
    <3> QED BY <3>1 DEF Service!Next
  <2>10. CASE ~ fc.connected /\ Goes(r, "new", "over") /\ Outcome(r)' = "ENOTCONN"
    <3>1. Service!Refuse(r) BY <2>6, <2>7, <2>10 DEF Goes, Service!Refuse
    <3> QED BY <3>1 DEF Service!Next
  <2>11. CASE Goes(r, "queued", "over") /\ Outcome(r)' = "EINTR"
    <3>1. Service!Withdraw(r) BY <2>6, <2>7, <2>11 DEF Goes, Service!Withdraw
    <3> QED BY <3>1 DEF Service!Next
  <2>12. CASE Goes(r, "taken", "over") /\ r \notin NotifyReply /\ Outcome(r)' = "REPLY"
    <3>1. Service!Answer(r) BY <2>6, <2>7, <2>12 DEF Goes, Service!Answer
    <3> QED BY <3>1 DEF Service!Next
  <2>13. CASE Goes(r, "taken", "over") /\ r \in NotifyReply /\ Outcome(r)' = "none"
    <3>1. Service!Consume(r) BY <2>6, <2>7, <2>13 DEF Goes, Service!Consume
    <3> QED BY <3>1 DEF Service!Next
  <2>14. CASE (Goes(r, "queued", "over") \/ Goes(r, "taken", "over")) /\ Outcome(r)' = "EIO"
    <3>1. Service!Fail(r) BY <2>6, <2>7, <2>14 DEF Goes, Service!Fail
    <3> QED BY <3>1 DEF Service!Next
  <2>15. CASE /\ ~ fc.connected /\ (Goes(r, "queued", "over") \/ Goes(r, "taken", "over"))
              /\ Outcome(r)' = "ECONNABORTED"
    <3>1. Service!EndByAbort(r) BY <2>6, <2>7, <2>15 DEF Goes, Service!EndByAbort
    <3> QED BY <3>1 DEF Service!Next
  <2> QED BY <1>2, <2>8, <2>9, <2>10, <2>11, <2>12, <2>13, <2>14, <2>15 DEF Turns
<1> QED BY <1>1, <1>2 DEF Serves

LEMMA ServiceInit ==
  ASSUME Init
  PROVE  Service!Init
<1>1. fc.connected = TRUE BY DEF Init
<1>2. ASSUME NEW r \in Requests PROVE Status(r) = "new" /\ ~ Over(r)
  <2>1. fc.req[r] = NewReq(r) /\ fc.bg_queue = <<>> BY DEF Init
  <2>2. fc.req[r].state = "INIT" /\ fc.req[r].error = "none" BY <2>1 DEF NewReq
  <2>3. ~ Over(r) BY <2>2 DEF Over, Ended
  <2>4. ~ Member(fc.bg_queue, r) BY <2>1 DEF Member
  <2> QED BY <2>2, <2>3, <2>4 DEF Status
<1> QED BY <1>1, <1>2 DEF Service!Init

\* The connection implements the service of FuseService: every request is taken
\* by the daemon at most once and is over once, with the daemon's answer or with
\* an error that its history allows.  Queues, locked copies, reference counts and
\* the steps of the abort are stutters of it, or one of its steps.
THEOREM Implements == Spec => ImplementsService
<1>1. Inv /\ [Next]_vars => [Service!Next]_(Service!vars)
  BY InvStep, ServiceStep DEF Result
<1>2. Init => Service!Init BY ServiceInit
<1> QED BY Requests_Inv, <1>1, <1>2, PTL DEF Spec, ImplementsService, Service!Spec

-----------------------------------------------------------------------------
(***************************************************************************)
(* Interrupts and ids: a request waits at most once on fc->interrupts,     *)
(* only while the daemon has it, and a message is answered for the request *)
(* it is about.                                                            *)
(*                                                                         *)
(* Both need ids that are not given again while they are in use.  The code *)
(* relies on 64 bits for that; here it is a hypothesis on the steps.       *)
(***************************************************************************)
\* The id of request r, or the id of its interrupt.
IdOf(r, intr) == IF intr THEN fc.req[r].intr_unique ELSE fc.req[r].unique

\* An id that a step gives is that of no message the daemon has still to answer, and no
\* other request has it.
IdsFresh ==
  \A r \in Requests, i \in BOOLEAN :
    IdOf(r, i)' # IdOf(r, i) =>
      /\ \A m \in inbox : m.unique # IdOf(r, i)'
      /\ \A s \in Requests, j \in BOOLEAN :
           IdOf(s, j)' = IdOf(r, i)' => s = r /\ j = i

-----------------------------------------------------------------------------
(***************************************************************************)
(* The invariant.                                                          *)
(***************************************************************************)
IdsApart ==
  \A r, s \in Requests, i, j \in BOOLEAN :
    IdOf(r, i) # 0 /\ IdOf(r, i) = IdOf(s, j) => r = s /\ i = j

\* What the daemon has still to answer has an id of its own.
MessagesApart ==
  /\ \A m \in inbox : m.unique # 0
  /\ \A m \in inbox, r \in Requests, i \in BOOLEAN :
       m.unique = IdOf(r, i) => m.req = r /\ m.intr = i
  /\ \A m, n \in inbox : m.unique = n.unique => m = n

Early == {"INIT", "PENDING", "READING"}

\* A request the daemon will answer has its id before it is read.
Numbered ==
  \A r \in Requests \ NotifyReply :
    fc.req[r].state \in {"PENDING", "READING"} => fc.req[r].unique # 0

\* The caller has been interrupted, or it does not wait for the answer any more.
Late == {"wait_kill", "wait_forced", "wait_unlock", "returned", "done"}

Writing(r) == \E d \in Thread : thread[d].pc = "write" /\ thread[d].req = r

\* A queued interrupt is for a request the daemon has, and is not also on its way: it
\* was not read since, or it was answered.
Asked(r) ==
  LET q == fc.req[r]
  IN  /\ Member(fc.interrupts, r) =>
           /\ q.interrupted /\ (r \in fc.processing \/ Writing(r))
           /\ \A m \in inbox : m.unique # q.intr_unique
      /\ q.intr_unique # 0 => q.interrupted /\ q.state \notin Early
      /\ q.interrupted => task[r] \in Late

Ids ==
  /\ IdsApart /\ MessagesApart /\ Numbered
  /\ NoDuplicate(fc.interrupts) /\ \A r \in Requests : Asked(r)

-----------------------------------------------------------------------------
(***************************************************************************)
(* Steps that queue no interrupt and give the daemon no message.           *)
(***************************************************************************)
\* What such a step leaves of request s.
Carried(c, d, s) ==
  LET p == c.req[s]
      q == d.req[s]
  IN  /\ q.interrupted = p.interrupted /\ q.intr_unique = p.intr_unique
      /\ q.state \in Early => p.state \in Early
      /\ q.state \in {"PENDING", "READING"} /\ q.unique = 0 /\ s \notin NotifyReply =>
           p.state \in {"PENDING", "READING"} /\ p.unique = 0
      /\ Member(d.interrupts, s) =>
           /\ Member(c.interrupts, s)
           /\ s \in c.processing => s \in d.processing \/ q.state = "WRITING"

Onward ==
  /\ NoDuplicate(fc.interrupts) => NoDuplicate(fc'.interrupts)
  /\ \A s \in Requests :
       /\ Carried(fc, fc', s)
       /\ task[s] \in Late => task'[s] \in Late
       /\ Member(fc'.interrupts, s) /\ Writing(s) => Writing(s)'
  /\ inbox' \subseteq inbox

LEMMA WritingIs ==
  ASSUME Inv, NEW r \in Requests
  PROVE  /\ fc.req[r].state = "WRITING" => Writing(r)
         /\ Writing(r) => fc.req[r].state = "WRITING" \/ (fc.req[r].aborted /\ Busy(r) # {})
<1>1. PerRequest(r) /\ OneWorker(r) /\ Worked(r)
  BY DEF Inv, PerRequest
<1>2. ASSUME fc.req[r].state = "WRITING" PROVE Writing(r)
  <2>1. Worker(r).pc = "write" BY <1>1, <1>2 DEF Worked
  <2>2. Busy(r) # {} BY <2>1, NoWorker
  <2>3. PICK d \in Busy(r) : TRUE BY <2>2
  <2>4. Worker(r) = thread[d] BY <1>1, WorkerIs
  <2> QED BY <2>1, <2>3, <2>4 DEF Busy, Writing
<1>3. ASSUME Writing(r)
      PROVE  fc.req[r].state = "WRITING" \/ (fc.req[r].aborted /\ Busy(r) # {})
  <2>1. PICK d \in Thread : thread[d].pc = "write" /\ thread[d].req = r
    BY <1>3 DEF Writing
  <2>2. d \in Busy(r) BY <2>1 DEF Busy
  <2>3. Worker(r) = thread[d] BY <1>1, <2>2, WorkerIs
  <2> QED BY <1>1, <2>1, <2>2, <2>3 DEF Worked
<1> QED BY <1>2, <1>3

Writers == \A r \in Requests : fc.req[r].state = "WRITING" => Writing(r)

LEMMA WritersAre == Inv => Writers
BY WritingIs DEF Writers

\* An id that changes is fresh, one that stays was apart.
LEMMA ApartKept ==
  ASSUME IdsApart, MessagesApart, IdsFresh
  PROVE  /\ IdsApart'
         /\ \A m \in inbox, r \in Requests, i \in BOOLEAN :
              m.unique = IdOf(r, i)' => m.req = r /\ m.intr = i
<1>1. ASSUME NEW r \in Requests, NEW s \in Requests, NEW i \in BOOLEAN, NEW j \in BOOLEAN,
             IdOf(r, i)' # 0, IdOf(r, i)' = IdOf(s, j)'
      PROVE  r = s /\ i = j
  <2>1. CASE IdOf(r, i)' # IdOf(r, i) BY <1>1, <2>1 DEF IdsFresh
  <2>2. CASE IdOf(s, j)' # IdOf(s, j) BY <1>1, <2>2 DEF IdsFresh
  <2>3. CASE IdOf(r, i)' = IdOf(r, i) /\ IdOf(s, j)' = IdOf(s, j)
    BY <1>1, <2>3 DEF IdsApart
  <2> QED BY <2>1, <2>2, <2>3
<1>2. ASSUME NEW m \in inbox, NEW r \in Requests, NEW i \in BOOLEAN, m.unique = IdOf(r, i)'
      PROVE  m.req = r /\ m.intr = i
  <2>1. IdOf(r, i)' = IdOf(r, i) BY <1>2 DEF IdsFresh
  <2> QED BY <2>1, <1>2 DEF MessagesApart
<1> QED BY <1>1, <1>2 DEF IdsApart

LEMMA OnwardKeeps ==
  ASSUME Inv', Ids, IdsFresh, Onward
  PROVE  Ids'
<1>1. IdsApart' BY ApartKept DEF Ids
<1>2. MessagesApart'
  <2>1. inbox' \subseteq inbox BY DEF Onward
  <2>2. \A m \in inbox, r \in Requests, i \in BOOLEAN :
              m.unique = IdOf(r, i)' => m.req = r /\ m.intr = i
    BY ApartKept DEF Ids
  <2>3. /\ \A m \in inbox' : m.unique # 0
        /\ \A m, n \in inbox' : m.unique = n.unique => m = n
    BY <2>1 DEF Ids, MessagesApart
  <2> QED BY <2>1, <2>2, <2>3 DEF MessagesApart
<1>3. Numbered'
  <2>1. ASSUME NEW r \in Requests \ NotifyReply, fc'.req[r].state \in {"PENDING", "READING"}
        PROVE  fc'.req[r].unique # 0
    <3>1. Carried(fc, fc', r) BY DEF Onward
    <3> QED BY <3>1, <2>1 DEF Carried, Ids, Numbered
  <2> QED BY <2>1 DEF Numbered
<1>4. NoDuplicate(fc'.interrupts) BY DEF Ids, Onward
<1>5. ASSUME NEW r \in Requests PROVE Asked(r)'
  <2>1. /\ Carried(fc, fc', r) /\ (task[r] \in Late => task'[r] \in Late)
        /\ inbox' \subseteq inbox
        /\ (Member(fc'.interrupts, r) /\ Writing(r) => Writing(r)')
    BY DEF Onward
  <2>2. Asked(r) BY DEF Ids
  <2>3. fc'.req[r].state = "WRITING" => Writing(r)'
    <3>1. Writers' BY WritersAre, PTL
    <3> QED BY <3>1 DEF Writers
  <2>4. ASSUME Member(fc'.interrupts, r)
        PROVE  /\ fc'.req[r].interrupted /\ (r \in fc'.processing \/ Writing(r)')
               /\ \A m \in inbox' : m.unique # fc'.req[r].intr_unique
    BY <2>1, <2>2, <2>3, <2>4 DEF Carried, Asked
  <2>5. fc'.req[r].intr_unique # 0 => fc'.req[r].interrupted /\ fc'.req[r].state \notin Early
    BY <2>1, <2>2 DEF Carried, Asked
  <2>6. fc'.req[r].interrupted => task'[r] \in Late
    BY <2>1, <2>2 DEF Carried, Asked
  <2> QED BY <2>4, <2>5, <2>6 DEF Asked
<1> QED BY <1>1, <1>2, <1>3, <1>4, <1>5 DEF Ids

-----------------------------------------------------------------------------
(***************************************************************************)
(* What is enough for a step to be one of them.                            *)
(***************************************************************************)
LEMMA LeftCarried ==
  ASSUME Inv, NEW s \in Requests, Left(fc, fc', s)
  PROVE  Carried(fc, fc', s)
<1>1. CASE Same(fc, fc', s) BY <1>1 DEF Same, Carried
<1>2. CASE Released(fc, fc', s)
  <2>1. fc.req[s].state = "INIT" BY <1>2 DEF Inv, PerRequest, Placed, Released
  <2> QED BY <2>1, <1>2 DEF Released, SameFields, Carried, Early
<1> QED BY <1>1, <1>2 DEF Left

LEMMA StepOnward ==
  ASSUME Inv, NEW r \in Requests, \A s \in Requests : s # r => Left(fc, fc', s),
         Carried(fc, fc', r),
         fc'.interrupts = fc.interrupts \/ fc'.interrupts = Del(fc.interrupts, r),
         \A s \in Requests : task[s] \in Late => task'[s] \in Late,
         \A s \in Requests : Member(fc'.interrupts, s) /\ Writing(s) => Writing(s)',
         inbox' \subseteq inbox
  PROVE  Onward
<1>1. fc.interrupts \in Seq(Requests) BY DEF Inv, TypeInv, TypeOK, Conn
<1>2. NoDuplicate(fc.interrupts) => NoDuplicate(fc'.interrupts) BY <1>1, DelGone
<1>3. ASSUME NEW s \in Requests PROVE Carried(fc, fc', s)
  <2>1. CASE s = r BY <2>1
  <2>2. CASE s # r BY <2>2, LeftCarried
  <2> QED BY <2>1, <2>2
<1> QED BY <1>2, <1>3 DEF Onward

\* Ids, state and interruption of a request are what they were.
SameIds(p, q) ==
  /\ q.state = p.state /\ q.interrupted = p.interrupted
  /\ q.unique = p.unique /\ q.intr_unique = p.intr_unique

Minor(c, d) == SameLists(c, d) /\ \A s \in Requests : SameIds(c.req[s], d.req[s])

LEMMA MinorOnward ==
  ASSUME Minor(fc, fc'),
         \A s \in Requests : task[s] \in Late => task'[s] \in Late,
         \A s \in Requests : Writing(s) => Writing(s)',
         inbox' \subseteq inbox
  PROVE  Onward
<1>1. \A s \in Requests : Carried(fc, fc', s) BY DEF Minor, SameLists, SameIds, Carried
<1>2. fc'.interrupts = fc.interrupts BY DEF Minor, SameLists
<1> QED BY <1>1, <1>2 DEF Onward

\* A request on which a step only takes notes: who holds it, who waits for it, what it
\* ends with.
LEMMA MinorRewrite ==
  ASSUME NEW c \in Conn, NEW r \in Requests, NEW q \in Req, SameIds(c.req[r], q)
  PROVE  Minor(c, [c EXCEPT !.req[r] = q])
<1> DEFINE d == [c EXCEPT !.req[r] = q]
<1>1. d.req = [c.req EXCEPT ![r] = q] /\ SameLists(c, d) BY DEF Conn, SameLists
<1>2. c.req \in [Requests -> Req] BY DEF Conn
<1>3. ASSUME NEW s \in Requests PROVE SameIds(c.req[s], d.req[s])
  <2>1. CASE s = r BY <2>1, <1>1, <1>2
  <2>2. CASE s # r
    <3>1. d.req[s] = c.req[s] BY <2>2, <1>1, <1>2
    <3> QED BY <3>1 DEF SameIds
  <2> QED BY <2>1, <2>2
<1> QED BY <1>1, <1>3 DEF Minor

LEMMA WritingRests ==
  ASSUME NEW s, \A d \in Thread : thread[d].pc = "write" => thread'[d] = thread[d]
  PROVE  Writing(s) => Writing(s)'
BY DEF Writing

LEMMA WritingLeave ==
  ASSUME TypeOK, NEW r, thread' = Leave(r), NEW s
  PROVE  Writing(s) => Writing(s)'
<1>1. \A d \in Thread : thread[d].pc = "write" => thread'[d] = thread[d] BY DEF Leave
<1> QED BY <1>1, WritingRests

LEMMA WritingMoves ==
  ASSUME TypeOK, NEW d \in Thread, NEW t, thread' = [thread EXCEPT ![d] = t], NEW s,
         thread[d].pc = "write" /\ thread[d].req = s => t.pc = "write" /\ t.req = s
  PROVE  Writing(s) => Writing(s)'
<1>1. \A e \in Thread : thread'[e] = IF e = d THEN t ELSE thread[e] BY DEF TypeOK
<1> QED BY <1>1 DEF Writing

\* A caller that has been interrupted goes on to where an interrupted one may be.
LEMMA LateStays ==
  ASSUME TypeOK, NEW r \in Requests, NEW pc, Goto(r, pc), task[r] \in Late => pc \in Late
  PROVE  \A s \in Requests : task[s] \in Late => task'[s] \in Late
BY GotoAlone

\* The caller of r takes notes.
LEMMA CallerOnward ==
  ASSUME Inv, NEW r \in Requests, Minor(fc, fc'),
         task' = task \/ \E pc : Goto(r, pc) /\ (task[r] \in Late => pc \in Late),
         thread' = thread \/ thread' = Leave(r), UNCHANGED inbox
  PROVE  Onward
<1>1. TypeOK BY DEF Inv, TypeInv
<1>2. \A s \in Requests : task[s] \in Late => task'[s] \in Late BY <1>1, LateStays
<1>3. \A s \in Requests : Writing(s) => Writing(s)'
  <2>1. CASE thread' = thread BY <2>1, WritingRests
  <2>2. CASE thread' = Leave(r) BY <2>2, <1>1, WritingLeave
  <2> QED BY <2>1, <2>2
<1> QED BY <1>2, <1>3, MinorOnward

-----------------------------------------------------------------------------
(***************************************************************************)
(* The steps of the callers.                                               *)
(***************************************************************************)
LEMMA InvTypes ==
  ASSUME Inv
  PROVE  /\ TypeOK /\ fc \in Conn /\ Good(fc) /\ fc.req \in [Requests -> Req]
         /\ fc.reqctr \in 0 .. UniqueMax
BY InvGood DEF Inv, TypeInv, TypeOK, Conn

LEMMA MinorSame ==
  ASSUME NEW c, NEW d, SameLists(c, d), d.req = c.req
  PROVE  Minor(c, d)
BY DEF Minor, SameIds

LEMMA MinorOne ==
  ASSUME NEW c, NEW d, SameLists(c, d), NEW r,
         SameIds(c.req[r], d.req[r]), \A s \in Requests : s # r => d.req[s] = c.req[s]
  PROVE  Minor(c, d)
BY DEF Minor, SameIds

LEMMA GetOnward ==
  ASSUME Inv, NEW r \in Requests,
         \/ GetReq(r) \/ GetReqSleep(r) \/ GetReqKilled(r) \/ GetReqRefused(r)
         \/ GetReqNoMemory(r) \/ Signal(r)
  PROVE  Onward
<1>1. fc \in Conn BY InvTypes
<1>2. Minor(fc, fc')
  <2>1. SameLists(fc, fc') /\ fc'.req = fc.req
    BY <1>1 DEF GetReq, StartGet, GetReqSleep, GetReqKilled, GetReqRefused, GetReqFail,
                GetReqNoMemory, Signal, SameLists, Conn
  <2> QED BY <2>1, MinorSame
<1>3. task' = task \/ \E pc : Goto(r, pc) /\ (task[r] \in Late => pc \in Late)
  BY DEF GetReq, StartGet, GetReqSleep, GetReqKilled, GetReqRefused, GetReqFail,
         GetReqNoMemory, Signal, LetIn, Late
<1>4. (thread' = thread \/ thread' = Leave(r)) /\ UNCHANGED inbox
  BY DEF GetReq, StartGet, GetReqSleep, GetReqKilled, GetReqRefused, GetReqFail,
         GetReqNoMemory, Signal
<1> QED BY <1>2, <1>3, <1>4, CallerOnward

LEMMA OnlyMinor ==
  ASSUME NEW c, NEW d, NEW r, OnlyReq(c, d, r), SameIds(c.req[r], d.req[r])
  PROVE  Minor(c, d)
BY DEF OnlyReq, Minor, SameIds

LEMMA AllocOnward ==
  ASSUME Inv, NEW r \in Requests,
         GetReqDone(r) \/ RequestAlloc(r) \/ get_reserved_req(r) \/ put_reserved_req(r)
  PROVE  Onward
<1>1. fc \in Conn /\ fc.req[r] \in Req BY InvTypes
<1>2. Minor(fc, fc')
  <2>1. ASSUME NEW b, fuse_request_alloc(r, b) PROVE Minor(fc, fc')
    <3>1. OnlyReq(fc, fc', r) BY <1>1, <2>1 DEF fuse_request_alloc, Conn, OnlyReq, SameLists
    <3>2. fc'.req[r] = [fc.req[r] EXCEPT !.count = 1, !.waiting = b]
      BY <1>1, <2>1 DEF fuse_request_alloc, Conn
    <3>3. SameIds(fc.req[r], fc'.req[r]) BY <1>1, <3>2 DEF SameIds, Req
    <3> QED BY <3>1, <3>3, OnlyMinor
  <2>2. CASE get_reserved_req(r)
    <3>1. OnlyReq(fc, fc', r) BY <1>1, <2>2 DEF get_reserved_req, Conn, OnlyReq, SameLists
    <3>2. fc'.req[r] = [fc.req[r] EXCEPT !.stolen = TRUE, !.count = 1, !.waiting = TRUE]
      BY <1>1, <2>2 DEF get_reserved_req, Conn
    <3>3. SameIds(fc.req[r], fc'.req[r]) BY <1>1, <3>2 DEF SameIds, Req
    <3> QED BY <3>1, <3>3, OnlyMinor
  <2>3. CASE put_reserved_req(r)
    <3>1. OnlyReq(fc, fc', r) BY <1>1, <2>3 DEF put_reserved_req, Conn, OnlyReq, SameLists
    <3>2. fc'.req[r] = [fc.req[r] EXCEPT !.stolen = FALSE]
      BY <1>1, <2>3 DEF put_reserved_req, Conn
    <3>3. SameIds(fc.req[r], fc'.req[r]) BY <1>1, <3>2 DEF SameIds, Req
    <3> QED BY <3>1, <3>3, OnlyMinor
  <2> QED BY <2>1, <2>2, <2>3 DEF GetReqDone, RequestAlloc
<1>3. task' = task \/ \E pc : Goto(r, pc) /\ (task[r] \in Late => pc \in Late)
  BY DEF GetReqDone, LetIn, RequestAlloc, get_reserved_req, put_reserved_req, Late
<1>4. UNCHANGED <<thread, inbox>>
  BY DEF GetReqDone, RequestAlloc, get_reserved_req, put_reserved_req
<1> QED BY <1>2, <1>3, <1>4, CallerOnward

\* What a request ends with, and who holds it or sleeps on it.
LEMMA EndTailMinor ==
  ASSUME NEW c, Good(c), NEW r \in Requests, NEW end \in BOOLEAN
  PROVE  Minor(c, EndTail(c, r, end)) /\ Minor(c, fuse_put_request(c, r))
<1>1. Minor(c, EndTail(c, r, end))
  <2> DEFINE d == EndTail(c, r, end)
  <2>1. /\ SameIds(c.req[r], d.req[r]) /\ SameLists(c, d)
        /\ \A s \in Requests : s # r => Same(c, d, s)
    BY EndTailEffect DEF SameIds, SameLists
  <2> HIDE DEF d
  <2>2. \A s \in Requests : s # r => d.req[s] = c.req[s] BY <2>1 DEF Same
  <2>3. Minor(c, d) BY <2>1, <2>2, MinorOne
  <2> QED BY <2>3 DEF d
<1>2. Minor(c, fuse_put_request(c, r))
  <2> DEFINE d == fuse_put_request(c, r)
  <2>1. /\ d.req[r] = [c.req[r] EXCEPT !.count = @ - 1] /\ SameLists(c, d)
        /\ \A s \in Requests : s # r => Same(c, d, s)
    BY PutEffect DEF SameLists
  <2> HIDE DEF d
  <2>2. c.req[r] \in Req BY DEF Good, Conn
  <2>3. SameIds(c.req[r], d.req[r]) BY <2>1, <2>2 DEF SameIds, Req
  <2>4. \A s \in Requests : s # r => d.req[s] = c.req[s] BY <2>1 DEF Same
  <2>5. Minor(c, d) BY <2>1, <2>3, <2>4, MinorOne
  <2> QED BY <2>5 DEF d
<1> QED BY <1>1, <1>2

LEMMA NoteOnward ==
  ASSUME Inv, NEW r \in Requests,
         RequestSendRefused(r) \/ WakeUnlock(r) \/ PutRequest(r) \/ SendBackgroundEnd(r)
  PROVE  Onward
<1>1. fc \in Conn /\ fc.req[r] \in Req /\ Good(fc) BY InvTypes
<1>2. Minor(fc, fc')
  <2>1. CASE RequestSendRefused(r)
    <3> DEFINE q == [fc.req[r] EXCEPT !.error = "ENOTCONN"]
    <3>1. fc' = [fc EXCEPT !.req[r] = q] BY <2>1 DEF RequestSendRefused
    <3>2. q \in Req /\ SameIds(fc.req[r], q) BY <1>1, Errors DEF Req, SameIds
    <3> HIDE DEF q
    <3> QED BY <1>1, <3>1, <3>2, MinorRewrite
  <2>2. CASE WakeUnlock(r) BY <2>2, MinorSame DEF WakeUnlock, SameLists
  <2>3. CASE PutRequest(r)
    <3>1. fc' = fuse_put_request(fc, r) BY <2>3 DEF PutRequest
    <3> QED BY <1>1, <3>1, EndTailMinor
  <2>4. CASE SendBackgroundEnd(r)
    <3>1. PICK end \in BOOLEAN : end = TRUE OBVIOUS
    <3>2. fc' = EndTail(fc, r, end) BY <2>4, <3>1, Zenon DEF SendBackgroundEnd
    <3> QED BY <1>1, <3>2, EndTailMinor
  <2> QED BY <2>1, <2>2, <2>3, <2>4
<1>3. task' = task \/ \E pc : Goto(r, pc) /\ (task[r] \in Late => pc \in Late)
  BY DEF RequestSendRefused, WakeUnlock, PutRequest, SendBackgroundEnd, Late
<1>4. UNCHANGED <<thread, inbox>>
  BY DEF RequestSendRefused, WakeUnlock, PutRequest, SendBackgroundEnd
<1> QED BY <1>2, <1>3, <1>4, CallerOnward

LEMMA LeaveWaitOnward ==
  ASSUME Inv, NEW r \in Requests, LeaveWait(r) \/ WaitOut(r), UNCHANGED <<thread, inbox>>
  PROVE  Onward
<1> DEFINE p == fc.req[r]
           copying == p.aborted /\ p.locked
<1>1. fc \in Conn /\ p \in Req BY InvTypes
<1>2. ASSUME NEW b \in BOOLEAN, fc' = [fc EXCEPT !.req[r] = [p EXCEPT !.asleep = b]]
      PROVE  Minor(fc, fc')
  <2> DEFINE q == [p EXCEPT !.asleep = b]
  <2>1. q \in Req /\ SameIds(p, q) BY <1>1 DEF Req, SameIds
  <2> HIDE DEF q
  <2> QED BY <1>1, <1>2, <2>1, MinorRewrite DEF q
<1>3. Minor(fc, fc')
  <2>1. CASE LeaveWait(r)
    <3>1. fc' = [fc EXCEPT !.req[r] = [p EXCEPT !.asleep = copying]] BY <2>1 DEF LeaveWait
    <3>2. copying \in BOOLEAN BY Zenon
    <3>3. PICK b \in BOOLEAN : b = copying BY <3>2, Zenon
    <3>4. fc' = [fc EXCEPT !.req[r] = [p EXCEPT !.asleep = b]] BY <3>1, <3>3, Zenon
    <3> QED BY <3>4, <1>2
  <2>2. CASE WaitOut(r)
    <3>1. fc' = [fc EXCEPT !.req[r] = [p EXCEPT !.asleep = TRUE]] BY <2>2 DEF WaitOut
    <3> QED BY <3>1, <1>2
  <2> QED BY <2>1, <2>2
<1>4. \E pc : Goto(r, pc) /\ (task[r] \in Late => pc \in Late)
  BY DEF LeaveWait, WaitOut, Late
<1> QED BY <1>3, <1>4, CallerOnward

\* The caller of r sends it, takes it back, or ends it.
LEMMA CallerMoves ==
  ASSUME Inv, NEW r \in Requests, \A s \in Requests : s # r => Left(fc, fc', s),
         Carried(fc, fc', r),
         fc'.interrupts = fc.interrupts \/ fc'.interrupts = Del(fc.interrupts, r),
         \E pc : Goto(r, pc) /\ (task[r] \in Late => pc \in Late),
         thread' = thread \/ thread' = Leave(r), UNCHANGED inbox
  PROVE  Onward
<1>1. TypeOK BY DEF Inv, TypeInv
<1>2. \A s \in Requests : task[s] \in Late => task'[s] \in Late BY <1>1, LateStays
<1>3. \A s \in Requests : Writing(s) => Writing(s)'
  <2>1. CASE thread' = thread BY <2>1, WritingRests
  <2>2. CASE thread' = Leave(r) BY <2>2, <1>1, WritingLeave
  <2> QED BY <2>1, <2>2
<1>4. inbox' \subseteq inbox OBVIOUS
<1> QED BY <1>2, <1>3, <1>4, StepOnward

LEMMA RequestSendOnward ==
  ASSUME Inv, NEW r \in Requests, RequestSend(r)
  PROVE  Onward
<1> DEFINE u == fuse_get_unique(fc.reqctr, 1)
           c == [fc EXCEPT !.reqctr = u, !.req[r].unique = u]
           d == queue_request(c, r)
           n == d.req[r].count + 1
           q == [d.req[r] EXCEPT !.count = n, !.asleep = TRUE]
<1>1. /\ fc \in Conn /\ fc.req[r] \in Req /\ Good(fc) /\ task[r] = "ready"
  BY InvTypes DEF RequestSend
<1>2. u \in 0 .. UniqueMax /\ u # 0
  <2>1. u \in 1 .. UniqueMax BY InvTypes, UniqueType
  <2> QED BY <2>1, BoundAssumption
<1> HIDE DEF u
<1>3. /\ c \in Conn /\ SameLists(fc, c)
      /\ c.connected = fc.connected /\ c.reserved = fc.reserved
      /\ c.blocked = fc.blocked /\ c.blocked_waitq = fc.blocked_waitq
      /\ \A s \in Requests : s # r => c.req[s] = fc.req[s]
      /\ c.req[r] = [fc.req[r] EXCEPT !.unique = u] /\ c.req[r] \in Req
  <2>1. [fc.req[r] EXCEPT !.unique = u] \in Req BY <1>1, <1>2 DEF Req
  <2>2. c = [fc EXCEPT !.reqctr = u, !.req[r] = [fc.req[r] EXCEPT !.unique = u]] OBVIOUS
  <2>3. c \in Conn BY <2>1, <2>2, <1>1, <1>2 DEF Conn
  <2>4. c.req[r] = [fc.req[r] EXCEPT !.unique = u] BY <2>2, <1>1 DEF Conn
  <2>5. c.req = [fc.req EXCEPT ![r] = [fc.req[r] EXCEPT !.unique = u]]
    BY <1>1, <2>2 DEF Conn
  <2>6. SameLists(fc, c) BY <1>1, <2>2 DEF Conn, SameLists
  <2>7. /\ c.connected = fc.connected /\ c.reserved = fc.reserved
        /\ c.blocked = fc.blocked /\ c.blocked_waitq = fc.blocked_waitq
    BY <1>1, <2>2 DEF Conn
  <2>8. \A s \in Requests : s # r => c.req[s] = fc.req[s] BY <1>1, <2>5
  <2> HIDE DEF c
  <2> QED BY <2>1, <2>3, <2>4, <2>6, <2>7, <2>8
<1>4. fc' = [d EXCEPT !.req[r].count = @ + 1, !.req[r].asleep = TRUE] BY DEF RequestSend, u
<1> HIDE DEF c
<1>5. Good(c) /\ \A s \in Requests : s # r => Same(fc, c, s)
  BY <1>1, <1>3 DEF Good, Same, SameLists
<1>6. /\ c.req[r].state = "INIT" /\ c.req[r].interrupted = fc.req[r].interrupted
      /\ c.req[r].intr_unique = fc.req[r].intr_unique /\ c.req[r].unique = u
      /\ fc.req[r].state = "INIT"
  BY <1>1, <1>3, Unsent DEF Before, Req
<1>7. d.req[r].unique = u /\ d.req[r] \in Req
  <2>1. d.req[r] = [c.req[r] EXCEPT !.state = "PENDING", !.waiting = TRUE]
    BY <1>3 DEF queue_request, Conn
  <2> QED BY <2>1, <1>3, <1>6 DEF Req, State
<1>8. /\ Good(d) /\ \A s \in Requests : s # r => Same(c, d, s)
      /\ d.processing = c.processing /\ d.interrupts = c.interrupts
      /\ SameFields(c.req[r], d.req[r])
  BY <1>1, <1>3, <1>5, Unsent, QueueRequestEffect DEF Before, SameLists
<1> HIDE DEF d
<1>9. fc' = [d EXCEPT !.req[r] = q] BY <1>4
<1>10. q \in Req BY <1>7, ReqCountAsleep, ReqCount
<1>11. /\ fc'.req[r] = q /\ fc'.processing = d.processing /\ fc'.interrupts = d.interrupts
       /\ \A s \in Requests : s # r => Same(d, fc', s)
  BY <1>8, <1>9, <1>10, ReqEffect
<1>12. \A s \in Requests : s # r => Left(fc, fc', s) BY <1>5, <1>8, <1>11 DEF Left, Same
<1>13. /\ q.interrupted = fc.req[r].interrupted /\ q.intr_unique = fc.req[r].intr_unique
       /\ q.unique = u
  BY <1>6, <1>7, <1>8 DEF SameFields, Req
<1> HIDE DEF q
<1>14. fc'.interrupts = fc.interrupts /\ fc'.processing = fc.processing
  BY <1>3, <1>8, <1>11 DEF SameLists
<1>15. Carried(fc, fc', r)
  BY <1>2, <1>6, <1>11, <1>13, <1>14 DEF Carried, Early
<1>16. \E pc : Goto(r, pc) /\ (task[r] \in Late => pc \in Late)
  BY <1>1 DEF RequestSend, Late
<1>17. UNCHANGED <<thread, inbox>> BY DEF RequestSend
<1> QED BY <1>12, <1>14, <1>15, <1>16, <1>17, CallerMoves

LEMMA BailOutOnward ==
  ASSUME Inv, NEW r \in Requests, fc.req[r].state = "PENDING", BailOut(r),
         UNCHANGED <<thread, inbox>>
  PROVE  Onward
<1> DEFINE p == fc.req[r]
           e == list_del(fc, r)
           n == e.req[r].count - 1
           q == [e.req[r] EXCEPT !.count = n, !.asleep = FALSE, !.error = "EINTR"]
           d == [list_del(fc, r) EXCEPT !.req[r] = q]
<1>1. fc \in Conn /\ p \in Req /\ Good(fc) BY InvTypes
<1>2. e.req = fc.req BY <1>1, ListDelFields
<1>3. fc' = [e EXCEPT !.req[r].count = @ - 1, !.req[r].asleep = FALSE,
                      !.req[r].error = "EINTR"]
  BY DEF BailOut
<1>4. q \in Req BY <1>1, <1>2, ReqCount, Errors, ReqCountError
<1>5. /\ d.req[r] = q /\ d.interrupts = fc.interrupts
      /\ \A s \in Requests : s # r => Same(fc, d, s)
  BY <1>1, <1>4, TakenOffEffect
<1>6. d = [e EXCEPT !.req[r] = q] OBVIOUS
<1>7. SameIds(p, q) BY <1>1, <1>2 DEF SameIds, Req
<1> HIDE DEF d, e
<1>8. fc' = d BY <1>3, <1>6
<1> HIDE DEF q, n
<1>9. r \notin fc.processing BY DEF Inv, PerRequest, Placed
<1>10. Carried(fc, fc', r) BY <1>5, <1>7, <1>8, <1>9 DEF SameIds, Carried
<1>11. fc'.interrupts = fc.interrupts /\ \A s \in Requests : s # r => Left(fc, fc', s)
  BY <1>5, <1>8 DEF Left
<1>12. \E pc : Goto(r, pc) /\ (task[r] \in Late => pc \in Late) BY DEF BailOut, Late
<1> QED BY <1>10, <1>11, <1>12, CallerMoves

LEMMA WakeOnward ==
  ASSUME Inv, NEW r \in Requests, WakeKill(r) \/ WakeForced(r)
  PROVE  Onward
<1>1. UNCHANGED <<thread, inbox>> BY DEF WakeKill, WakeForced
<1>2. \/ LeaveWait(r) \/ WaitOut(r)
      \/ fc.req[r].state = "PENDING" /\ BailOut(r)
  BY DEF WakeKill, WakeForced
<1> QED BY <1>1, <1>2, LeaveWaitOnward, BailOutOnward

LEMMA SendBackgroundOnward ==
  ASSUME Inv, NEW r \in Requests, SendBackground(r)
  PROVE  Onward
<1> DEFINE p == fc.req[r]
           d == fuse_request_send_nowait_locked(fc, r)
           q == d.req[r]
<1>1. /\ Good(fc) /\ task[r] = "ready" /\ fc' = d /\ Goto(r, "sent")
      /\ UNCHANGED <<thread, inbox>>
  BY InvTypes DEF SendBackground
<1>2. p.state = "INIT" /\ Off(fc, r) BY <1>1, Unsent DEF Before, Off
<1>3. /\ q.interrupted = p.interrupted /\ q.intr_unique = p.intr_unique
      /\ q.state = p.state \/ (q.state = "PENDING" /\ q.unique # 0)
      /\ d.interrupts = fc.interrupts
      /\ \A s \in Requests : s # r => Left(fc, d, s)
  BY <1>1, <1>2, SendNowaitEffect
<1> HIDE DEF d
<1>4. Carried(fc, fc', r) BY <1>1, <1>2, <1>3 DEF Carried, Early, Off
<1>5. \E pc : Goto(r, pc) /\ (task[r] \in Late => pc \in Late) BY <1>1 DEF Late
<1> QED BY <1>1, <1>3, <1>4, <1>5, CallerMoves

\* The end of a request: nothing is left of its interrupts.
LEMMA RequestEndCarried ==
  ASSUME Inv, NoDuplicate(fc.interrupts), NEW r \in Requests, NEW c, Good(c),
         \A s \in Requests : s # r => Same(fc, c, s), c.interrupts = fc.interrupts,
         c.req[r].interrupted = fc.req[r].interrupted,
         c.req[r].intr_unique = fc.req[r].intr_unique,
         fc' = request_end(c, r)
  PROVE  /\ \A s \in Requests : s # r => Left(fc, fc', s)
         /\ Carried(fc, fc', r)
         /\ fc'.interrupts = Del(fc.interrupts, r) /\ ~ Member(fc'.interrupts, r)
<1> DEFINE d == request_end(c, r)
<1>1. /\ \A s \in Requests : s # r => Left(c, d, s)
      /\ d.req[r] = [c.req[r] EXCEPT !.state = "FINISHED", !.end = FALSE]
      /\ d.interrupts = Del(c.interrupts, r)
  BY RequestEndEffect
<1> HIDE DEF d
<1>2. fc' = d BY DEF d
<1>3. \A s \in Requests : s # r => Left(fc, fc', s) BY <1>1, <1>2, SameTrans
<1>4. c.req[r] \in Req BY DEF Good, Conn
<1>5. /\ fc'.req[r].state = "FINISHED"
      /\ fc'.req[r].interrupted = c.req[r].interrupted
      /\ fc'.req[r].intr_unique = c.req[r].intr_unique
  BY <1>1, <1>2, <1>4 DEF Req
<1>6. fc.interrupts \in Seq(Requests) BY DEF Inv, TypeInv, TypeOK, Conn
<1>7. fc'.interrupts = Del(fc.interrupts, r) /\ ~ Member(fc'.interrupts, r)
  BY <1>1, <1>2, <1>6, DelGone
<1>8. Carried(fc, fc', r) BY <1>5, <1>7 DEF Carried, Early
<1> QED BY <1>3, <1>7, <1>8

LEMMA SendBackgroundRefusedOnward ==
  ASSUME Inv, Ids, NEW r \in Requests, SendBackgroundRefused(r)
  PROVE  Onward
<1> DEFINE p == fc.req[r]
           x == [p EXCEPT !.error = "ENOTCONN"]
           c == [fc EXCEPT !.req[r] = x]
<1>1. p \in Req /\ Good(fc) BY InvTypes
<1>2. /\ task[r] = "ready" /\ Goto(r, "end") /\ UNCHANGED <<thread, inbox>>
      /\ fc' = request_end(c, r)
  BY DEF SendBackgroundRefused
<1>3. x \in Req /\ x.interrupted = p.interrupted /\ x.intr_unique = p.intr_unique
  BY <1>1, Errors DEF Req
<1> HIDE DEF x
<1>4. /\ Good(c) /\ c.req[r] = x /\ c.interrupts = fc.interrupts
      /\ \A s \in Requests : s # r => Same(fc, c, s)
  BY <1>1, <1>3, ReqEffect
<1> HIDE DEF c
<1>5. /\ \A s \in Requests : s # r => Left(fc, fc', s)
      /\ Carried(fc, fc', r) /\ fc'.interrupts = Del(fc.interrupts, r)
  BY <1>2, <1>3, <1>4, RequestEndCarried DEF Ids
<1>6. \E pc : Goto(r, pc) /\ (task[r] \in Late => pc \in Late) BY <1>2 DEF Late
<1> QED BY <1>2, <1>5, <1>6, CallerMoves

LEMMA SendNotifyReplyOnward ==
  ASSUME Inv, NEW r \in Requests, SendNotifyReply(r)
  PROVE  Onward
<1> DEFINE p == fc.req[r]
<1>1. fc \in Conn /\ p \in Req /\ Good(fc) BY InvTypes
<1>2. task[r] = "ready" /\ r \in NotifyReply /\ thread' = Leave(r) /\ UNCHANGED inbox
  BY DEF SendNotifyReply
<1>3. \E pc : Goto(r, pc) /\ (task[r] \in Late => pc \in Late)
  BY <1>2 DEF SendNotifyReply, Late
<1>4. CASE fc.connected
  <2> DEFINE d == queue_request(fc, r)
  <2>1. fc' = d BY <1>4 DEF SendNotifyReply
  <2>2. p.state = "INIT" /\ Off(fc, r) BY <1>2, Unsent DEF Before, Off
  <2>3. /\ \A s \in Requests : s # r => Same(fc, d, s)
        /\ d.processing = fc.processing /\ d.interrupts = fc.interrupts
        /\ SameFields(p, d.req[r])
    BY <1>1, <2>2, QueueRequestEffect DEF Off
  <2> HIDE DEF d
  <2>4. Carried(fc, fc', r) BY <1>2, <2>1, <2>2, <2>3 DEF Carried, SameFields, Early
  <2> QED BY <1>2, <1>3, <2>1, <2>3, <2>4, CallerMoves DEF Left
<1>5. CASE ~ fc.connected
  <2> DEFINE q == [p EXCEPT !.ended = @ + 1]
  <2>1. fc' = [fc EXCEPT !.req[r] = q] BY <1>5 DEF SendNotifyReply
  <2>2. q \in Req /\ SameIds(p, q) BY <1>1 DEF Req, SameIds
  <2> HIDE DEF q
  <2>3. Minor(fc, fc') BY <1>1, <2>1, <2>2, MinorRewrite
  <2> QED BY <1>2, <1>3, <2>3, CallerOnward
<1> QED BY <1>4, <1>5

\* A signal: the interrupt is queued if the daemon has the request, else it will be when
\* the daemon gets it.
LEMMA InterruptedIds ==
  ASSUME Inv, Inv', Ids, IdsFresh, NEW r \in Requests, task[r] = "wait_intr",
         fc' = Interrupted(fc, r), NEW pc \in {"wait_forced", "wait_kill"}, Goto(r, pc),
         UNCHANGED <<thread, inbox>>
  PROVE  Ids'
<1> DEFINE p == fc.req[r]
           d == Interrupted(fc, r)
<1>1. Good(fc) /\ p \in Req /\ TypeOK BY InvTypes
<1>2. Asked(r) /\ task[r] \notin Late BY DEF Ids, Late
<1>3. ~ p.interrupted /\ ~ Member(fc.interrupts, r) /\ p.intr_unique = 0
  BY <1>2 DEF Asked
<1>4. /\ d.req[r] = [p EXCEPT !.interrupted = TRUE, !.asleep = TRUE]
      /\ d.processing = fc.processing
      /\ d.interrupts = IF p.state = "SENT" THEN Append(fc.interrupts, r)
                                            ELSE fc.interrupts
      /\ \A s \in Requests : s # r => Same(fc, d, s)
  BY <1>1, InterruptedEffect
<1> HIDE DEF d
<1>5. fc' = d BY DEF d
<1>6. /\ fc'.req[r].interrupted /\ fc'.req[r].state = p.state
      /\ fc'.req[r].unique = p.unique /\ fc'.req[r].intr_unique = 0
  <2>1. fc'.req[r] = [p EXCEPT !.interrupted = TRUE, !.asleep = TRUE] BY <1>4, <1>5
  <2> HIDE DEF p
  <2> QED BY <1>1, <1>3, <2>1 DEF Req
<1>7. fc.interrupts \in Seq(Requests) BY <1>1 DEF Good, Conn
<1>8. task'[r] \in Late /\ \A s \in Requests : s # r => task'[s] = task[s]
  BY <1>1, GotoAlone DEF Late
<1>9. \A s \in Requests : Writing(s)' <=> Writing(s) BY DEF Writing
<1>10. IdsApart' /\ MessagesApart' BY ApartKept DEF Ids, MessagesApart
<1>11. Numbered'
  <2>1. ASSUME NEW s \in Requests \ NotifyReply, fc'.req[s].state \in {"PENDING", "READING"}
        PROVE  fc'.req[s].unique # 0
    BY <1>4, <1>5, <1>6, <2>1 DEF Same, Ids, Numbered
  <2> QED BY <2>1 DEF Numbered
<1>12. NoDuplicate(fc'.interrupts)
  BY <1>3, <1>4, <1>5, <1>7, AppendMember DEF Ids
<1>13. Asked(r)'
  <2>1. Member(fc'.interrupts, r) => r \in fc'.processing
    <3>1. p.state = "SENT" => r \in fc.processing BY DEF Inv, PerRequest, Placed
    <3> QED BY <1>3, <1>4, <1>5, <3>1
  <2>2. \A m \in inbox' : m.unique # 0 BY <1>10 DEF MessagesApart
  <2> QED BY <1>6, <1>8, <2>1, <2>2 DEF Asked
<1>14. ASSUME NEW s \in Requests, s # r PROVE Asked(s)'
  <2>1. Asked(s) BY DEF Ids
  <2>2. Same(fc, fc', s) /\ task'[s] = task[s] /\ (Writing(s)' <=> Writing(s))
    BY <1>4, <1>5, <1>8, <1>9, <1>14
  <2> QED BY <2>1, <2>2 DEF Asked, Same
<1> QED BY <1>10, <1>11, <1>12, <1>13, <1>14 DEF Ids

LEMMA WakeIntrIds ==
  ASSUME Inv, Inv', Ids, IdsFresh, NEW r \in Requests, WakeIntr(r)
  PROVE  Ids'
<1>1. task[r] = "wait_intr" /\ UNCHANGED <<thread, inbox>> BY DEF WakeIntr
<1>2. CASE Ended(r)
  <2>1. LeaveWait(r) BY <1>2 DEF WakeIntr
  <2> QED BY <1>1, <2>1, LeaveWaitOnward, OnwardKeeps
<1>3. CASE ~ Ended(r)
  <2>1. fc' = Interrupted(fc, r) /\ \E pc \in {"wait_forced", "wait_kill"} : Goto(r, pc)
    BY <1>3 DEF WakeIntr
  <2> QED BY <1>1, <2>1, InterruptedIds
<1> QED BY <1>2, <1>3

LEMMA CallerIds ==
  ASSUME Inv, Inv', Ids, IdsFresh, NEW r \in Requests, Caller(r)
  PROVE  Ids'
<1>1. CASE WakeIntr(r) BY <1>1, WakeIntrIds
<1>2. CASE ~ WakeIntr(r)
  <2>1. Onward
    BY <1>2, GetOnward, AllocOnward, NoteOnward, RequestSendOnward, WakeOnward,
       SendBackgroundOnward, SendBackgroundRefusedOnward, SendNotifyReplyOnward
       DEF Caller
  <2> QED BY <2>1, OnwardKeeps
<1> QED BY <1>1, <1>2

-----------------------------------------------------------------------------
(***************************************************************************)
(* The steps of the daemon.                                                *)
(***************************************************************************)
LEMMA CopyOnward ==
  ASSUME Inv, NEW d \in Thread,
         lock_request(d) \/ unlock_request(d) \/ CopyFail(d) \/ WrongLength(d)
  PROVE  Onward
<1> DEFINE r == thread[d].req
<1>1. thread[d].pc \in {"read", "write"} /\ UNCHANGED <<task, inbox>>
  BY DEF lock_request, unlock_request, CopyFail, WrongLength, Copying
<1>2. r \in Requests /\ fc \in Conn BY <1>1, AtWork
<1>3. Minor(fc, fc')
  <2>1. ASSUME UNCHANGED fc PROVE Minor(fc, fc')
    BY <2>1, MinorSame DEF SameLists
  <2>2. ASSUME NEW b \in BOOLEAN,
               fc' = [fc EXCEPT !.req[r].locked = b]
               \/ (~ b /\ fc' = wake_up([fc EXCEPT !.req[r].locked = b], r))
        PROVE  Minor(fc, fc')
    <3> HIDE DEF r
    <3>1. OnlyReq(fc, fc', r) /\ SameIds(fc.req[r], fc'.req[r])
      BY <1>2, <2>2, LockedEffect DEF SameIds
    <3> QED BY <3>1, OnlyMinor
  <2>3. CASE lock_request(d)
    <3>1. UNCHANGED fc \/ fc' = [fc EXCEPT !.req[r].locked = TRUE]
      BY <2>3 DEF lock_request
    <3> HIDE DEF r
    <3> QED BY <3>1, <2>1, <2>2
  <2>4. CASE unlock_request(d)
    <3>1. \/ fc' = [fc EXCEPT !.req[r].locked = FALSE]
          \/ fc' = wake_up([fc EXCEPT !.req[r].locked = FALSE], r)
      BY <2>4 DEF unlock_request
    <3> HIDE DEF r
    <3> QED BY <3>1, <2>2
  <2>5. CASE CopyFail(d) \/ WrongLength(d) BY <2>5, <2>1 DEF CopyFail, WrongLength
  <2> QED BY <2>3, <2>4, <2>5
<1>4. \E phase : Phase(d, phase)
  BY DEF lock_request, unlock_request, CopyFail, WrongLength
<1>5. \A s \in Requests : Writing(s) => Writing(s)'
  <2>1. PICK phase : thread' = [thread EXCEPT ![d] = [thread[d] EXCEPT !.phase = phase]]
    BY <1>4 DEF Phase
  <2>2. TypeOK /\ thread[d] \in ThreadState BY InvTypes DEF TypeOK
  <2>3. [thread[d] EXCEPT !.phase = phase].pc = thread[d].pc
        /\ [thread[d] EXCEPT !.phase = phase].req = thread[d].req
    BY <2>2 DEF ThreadState
  <2> QED BY <2>1, <2>2, <2>3, WritingMoves
<1> QED BY <1>1, <1>3, <1>5, MinorOnward

\* A thread that writes no answer goes anywhere.
LEMMA IdleWriting ==
  ASSUME Inv, NEW d \in Thread, thread[d].pc # "write", NEW t,
         thread' = [thread EXCEPT ![d] = t]
  PROVE  \A s \in Requests : Writing(s) => Writing(s)'
BY InvTypes, WritingMoves

LEMMA ThreadEndOnward ==
  ASSUME Inv, NEW d \in Thread, ThreadEnd(d)
  PROVE  Onward
<1> DEFINE r == thread[d].req
<1>1. thread[d].pc = "end" /\ UNCHANGED <<task, inbox>> BY DEF ThreadEnd
<1>2. r \in Requests /\ Good(fc) BY <1>1, AtWork
<1>3. PICK end \in BOOLEAN : end = thread[d].end
  BY InvTypes DEF TypeOK, ThreadState
<1>4. fc' = EndTail(fc, r, end) BY <1>3 DEF ThreadEnd
<1>5. Minor(fc, fc') BY <1>2, <1>4, EndTailMinor
<1>6. \A s \in Requests : Writing(s) => Writing(s)'
  BY <1>1, IdleWriting DEF ThreadEnd
<1> QED BY <1>1, <1>5, <1>6, MinorOnward

\* Steps that leave the requests alone.
LEMMA QuietOnward ==
  ASSUME SameLists(fc, fc'), fc'.req = fc.req, UNCHANGED <<task, thread>>,
         inbox' \subseteq inbox
  PROVE  Onward
<1>1. Minor(fc, fc') BY MinorSame
<1>2. \A s \in Requests : Writing(s) => Writing(s)' BY WritingRests
<1> QED BY <1>1, <1>2, MinorOnward

LEMMA ForgetOnward ==
  ASSUME Inv, (\E d \in Thread : ReadForget(d)) \/ \E f \in Forget : QueueForget(f)
  PROVE  Onward
<1>1. fc \in Conn BY InvTypes
<1>2. CASE \E d \in Thread : ReadForget(d)
  <2>1. PICK n : fuse_read_forget(n) BY <1>2 DEF ReadForget
  <2>2. SameLists(fc, fc') /\ fc'.req = fc.req
    BY <1>1, <2>1 DEF fuse_read_forget, dequeue_forget, SameLists, Conn
  <2>3. UNCHANGED <<task, thread, inbox>> BY <1>2 DEF ReadForget
  <2> QED BY <2>2, <2>3, QuietOnward
<1>3. CASE \E f \in Forget : QueueForget(f)
  <2>1. SameLists(fc, fc') /\ fc'.req = fc.req /\ UNCHANGED <<task, thread, inbox>>
    BY <1>1, <1>3 DEF QueueForget, SameLists, Conn
  <2> QED BY <2>1, QuietOnward
<1> QED BY <1>2, <1>3

LEMMA NoEntryOnward ==
  ASSUME NEW d, NEW m, WriteNoEntry(d, m)
  PROVE  Onward
BY QuietOnward DEF WriteNoEntry, Writer, SameLists

\* A thread takes a request in its hands, or gives it back.
LEMMA DaemonMoves ==
  ASSUME Inv, NEW r \in Requests, \A s \in Requests : s # r => Left(fc, fc', s),
         Carried(fc, fc', r),
         fc'.interrupts = fc.interrupts \/ fc'.interrupts = Del(fc.interrupts, r),
         UNCHANGED task,
         NEW d \in Thread, NEW t, thread' = [thread EXCEPT ![d] = t],
         thread[d].pc = "write" => thread[d].req = r /\ ~ Member(fc'.interrupts, r),
         inbox' \subseteq inbox
  PROVE  Onward
<1>1. ASSUME NEW s \in Requests, Member(fc'.interrupts, s), Writing(s) PROVE Writing(s)'
  <2>1. ~ (thread[d].pc = "write" /\ thread[d].req = s) BY <1>1
  <2> QED BY <1>1, <2>1, InvTypes, WritingMoves
<1> QED BY <1>1, StepOnward

LEMMA PendingFirst ==
  ASSUME Inv, fc.pending # <<>>
  PROVE  LET r == Head(fc.pending)
         IN  /\ r \in Requests /\ r \notin fc.processing /\ fc.req[r].state = "PENDING"
             /\ TypeInv /\ Good(fc)
             /\ \A q : q = [fc.req[r] EXCEPT !.state = "READING"] =>
                  q.unique = fc.req[r].unique /\ q.interrupted = fc.req[r].interrupted
                  /\ q.intr_unique = fc.req[r].intr_unique /\ q.state = "READING"
<1> DEFINE r == Head(fc.pending)
<1>1. TypeInv /\ Good(fc) BY InvTypes DEF Inv
<1>2. r \in Requests /\ Member(fc.pending, r) BY <1>1, TakeRequestEffect
<1>3. fc.req[r].state = "PENDING" /\ r \notin fc.processing
  BY <1>2 DEF Inv, PerRequest, Placed
<1>4. fc.req[r] \in Req BY <1>2, InvTypes
<1> QED BY <1>1, <1>2, <1>3, <1>4 DEF Req

LEMMA ReadRequestOnward ==
  ASSUME Inv, NEW d \in Thread, ReadRequest(d)
  PROVE  Onward
<1> DEFINE r == Head(fc.pending)
           q == fc'.req[r]
<1>1. /\ fc' = TakeRequest /\ fc.pending # <<>> /\ thread[d].pc = "idle"
      /\ UNCHANGED <<task, inbox>> /\ \E t : thread' = [thread EXCEPT ![d] = t]
  BY DEF ReadRequest, ReadyToRead, Reader, Move
<1>2. /\ r \in Requests /\ r \notin fc.processing /\ fc.req[r].state = "PENDING"
      /\ TypeInv /\ Good(fc)
  BY <1>1, PendingFirst
<1>3. /\ q = [fc.req[r] EXCEPT !.state = "READING"] /\ fc'.interrupts = fc.interrupts
      /\ \A s \in Requests : s # r => Same(fc, fc', s)
  BY <1>1, <1>2, TakeRequestEffect
<1>4. /\ q.unique = fc.req[r].unique /\ q.interrupted = fc.req[r].interrupted
      /\ q.intr_unique = fc.req[r].intr_unique /\ q.state = "READING"
  BY <1>1, <1>3, PendingFirst
<1>5. Carried(fc, fc', r) BY <1>2, <1>3, <1>4 DEF Carried, Early
<1> HIDE DEF r
<1> QED BY <1>1, <1>2, <1>3, <1>5, DaemonMoves DEF Left

\* A thread ends the request it works on.
LEMMA EndByOnward ==
  ASSUME Inv, Ids, NEW d \in Thread, NEW r \in Requests, NEW c, Good(c),
         \A s \in Requests : s # r => Same(fc, c, s), c.interrupts = fc.interrupts,
         c.req[r].interrupted = fc.req[r].interrupted,
         c.req[r].intr_unique = fc.req[r].intr_unique,
         EndBy(d, c, r), thread[d].pc = "write" => thread[d].req = r, UNCHANGED <<task, inbox>>
  PROVE  Onward
<1>1. fc' = request_end(c, r) /\ \E t : thread' = [thread EXCEPT ![d] = t] BY DEF EndBy
<1>2. /\ \A s \in Requests : s # r => Left(fc, fc', s)
      /\ Carried(fc, fc', r)
      /\ fc'.interrupts = Del(fc.interrupts, r) /\ ~ Member(fc'.interrupts, r)
  BY <1>1, RequestEndCarried DEF Ids
<1> QED BY <1>1, <1>2, DaemonMoves

\* The copy is over: the lock of the request is dropped, and its error stored.
LEMMA UnlockedEffect ==
  ASSUME Inv, NEW r \in Requests, NEW w \in Error
  PROVE  LET c == [fc EXCEPT !.req[r] = [fc.req[r] EXCEPT !.locked = FALSE, !.error = w]]
         IN  /\ Good(c) /\ c.interrupts = fc.interrupts
             /\ c.req[r].interrupted = fc.req[r].interrupted
             /\ c.req[r].intr_unique = fc.req[r].intr_unique
             /\ \A s \in Requests : s # r => Same(fc, c, s)
<1> DEFINE p == fc.req[r]
           x == [p EXCEPT !.locked = FALSE, !.error = w]
           c == [fc EXCEPT !.req[r] = x]
<1>1. p \in Req /\ Good(fc) BY InvTypes
<1>2. x \in Req /\ x.interrupted = p.interrupted /\ x.intr_unique = p.intr_unique
  BY <1>1 DEF Req
<1> HIDE DEF x
<1>3. /\ Good(c) /\ c.req[r] = x /\ c.interrupts = fc.interrupts
      /\ \A s \in Requests : s # r => Same(fc, c, s)
  BY <1>1, <1>2, ReqEffect
<1> HIDE DEF c
<1>4. /\ Good(c) /\ c.interrupts = fc.interrupts
      /\ c.req[r].interrupted = fc.req[r].interrupted
      /\ c.req[r].intr_unique = fc.req[r].intr_unique
      /\ \A s \in Requests : s # r => Same(fc, c, s)
  BY <1>2, <1>3
<1> QED BY <1>4 DEF c, x

LEMMA CopyOverOnward ==
  ASSUME Inv, Ids, NEW d \in Thread, NEW r \in Requests, thread[d].pc \in {"read", "write"},
         r = thread[d].req, NEW bad,
         EndBy(d, IF bad THEN [[fc EXCEPT !.req[r].locked = FALSE]
                                 EXCEPT !.req[r].error = "EIO"]
                  ELSE [fc EXCEPT !.req[r].locked = FALSE], r),
         UNCHANGED <<task, inbox>>
  PROVE  Onward
<1> DEFINE w == IF bad THEN "EIO" ELSE fc.req[r].error
           c == [fc EXCEPT !.req[r] = [fc.req[r] EXCEPT !.locked = FALSE, !.error = w]]
<1>1. EndBy(d, c, r) BY EndByError
<1>2. fc.req[r] \in Req BY InvTypes
<1>3. w \in Error BY <1>2, Errors DEF Req
<1> HIDE DEF w
<1>4. /\ Good(c) /\ c.interrupts = fc.interrupts
      /\ c.req[r].interrupted = fc.req[r].interrupted
      /\ c.req[r].intr_unique = fc.req[r].intr_unique
      /\ \A s \in Requests : s # r => Same(fc, c, s)
  BY <1>3, UnlockedEffect
<1> HIDE DEF c
<1> QED BY <1>1, <1>4, EndByOnward

LEMMA WriteFinishOnward ==
  ASSUME Inv, Ids, NEW d \in Thread, WriteFinish(d)
  PROVE  Onward
<1> DEFINE r == thread[d].req
           c == [fc EXCEPT !.req[r].locked = FALSE]
<1>1. thread[d].pc = "write" /\ UNCHANGED <<task, inbox>> BY DEF WriteFinish, CopyOver
<1>2. r \in Requests BY <1>1, AtWork
<1>3. \E bad : EndBy(d, IF bad THEN [c EXCEPT !.req[r].error = "EIO"] ELSE c, r)
  BY DEF WriteFinish
<1> HIDE DEF r
<1>4. r = thread[d].req BY DEF r
<1> QED BY <1>1, <1>2, <1>3, <1>4, CopyOverOnward

LEMMA ReadTooLargeOnward ==
  ASSUME Inv, Ids, NEW d \in Thread, ReadTooLarge(d)
  PROVE  Onward
<1> DEFINE h == Head(fc.pending)
           e == TakeRequest
           x == [e.req[h] EXCEPT !.error = "EIO"]
           c == [e EXCEPT !.req[h] = x]
<1>1. fc.pending # <<>> /\ thread[d].pc = "idle" /\ UNCHANGED <<task, inbox>>
  BY DEF ReadTooLarge, ReadyToRead, Reader
<1>2. EndBy(d, c, h)
  <2>1. EndBy(d, [TakeRequest EXCEPT !.req[h].error = "EIO"], h) BY DEF ReadTooLarge
  <2> QED BY <2>1
<1>3. TypeInv /\ Good(fc) /\ h \in Requests BY <1>1, PendingFirst
<1>4. /\ Good(e) /\ e.req[h] = [fc.req[h] EXCEPT !.state = "READING"]
      /\ e.interrupts = fc.interrupts /\ \A s \in Requests : s # h => Same(fc, e, s)
  BY <1>1, <1>3, TakeRequestEffect
<1>5. /\ e.req[h].interrupted = fc.req[h].interrupted
      /\ e.req[h].intr_unique = fc.req[h].intr_unique
  BY <1>1, <1>4, PendingFirst
<1> HIDE DEF e, h
<1>6. e.req[h] \in Req BY <1>3, <1>4 DEF Good, Conn
<1>7. /\ x \in Req /\ x.interrupted = e.req[h].interrupted
      /\ x.intr_unique = e.req[h].intr_unique
  BY <1>6, Errors DEF Req
<1> HIDE DEF x
<1>8. /\ Good(c) /\ c.req[h] = x /\ c.interrupts = e.interrupts
      /\ \A s \in Requests : s # h => Same(e, c, s)
  BY <1>3, <1>4, <1>7, ReqEffect
<1> HIDE DEF c
<1>9. \A s \in Requests : s # h => Same(fc, c, s) BY <1>4, <1>8 DEF Same
<1> QED BY <1>1, <1>2, <1>3, <1>4, <1>5, <1>7, <1>8, <1>9, EndByOnward

LEMMA WriteReplyOnward ==
  ASSUME Inv, NEW d \in Thread, NEW m, WriteReply(d, m)
  PROVE  Onward
<1>1. PICK r \in Requests : /\ Found(d, m, r) /\ fc' = Replied(fc, r)
                            /\ Move(d, "write", r, "locked")
  BY DEF WriteReply
<1> DEFINE p == fc.req[r]
           q == fc'.req[r]
<1>2. /\ thread[d].pc = "idle" /\ UNCHANGED task /\ inbox' \subseteq inbox
      /\ \E t : thread' = [thread EXCEPT ![d] = t] /\ r \in fc.processing
  BY <1>1 DEF Found, Writer, Move, request_find
<1>3. Good(fc) /\ p \in Req BY InvTypes
<1>4. /\ q = [p EXCEPT !.state = "WRITING", !.error = "REPLY", !.locked = TRUE]
      /\ fc'.interrupts = fc.interrupts
      /\ \A s \in Requests : s # r => Same(fc, fc', s)
  BY <1>1, <1>3, RepliedEffect
<1>5. /\ q.state = "WRITING" /\ q.interrupted = p.interrupted
      /\ q.intr_unique = p.intr_unique
  BY <1>3, <1>4 DEF Req
<1>6. Carried(fc, fc', r) BY <1>4, <1>5 DEF Carried, Early
<1> QED BY <1>2, <1>4, <1>6, DaemonMoves DEF Left

LEMMA RetrieveOnward ==
  ASSUME Inv, NEW d \in Thread, NEW r \in NotifyReply, Retrieve(d, r)
  PROVE  Onward
<1>1. r \in Requests /\ fc \in Conn /\ TypeOK BY InvTypes DEF Requests
<1>2. /\ StartGet(r) /\ thread[d].pc = "idle" /\ Goto(r, "get_wait") /\ UNCHANGED inbox
      /\ task[r] = "start" /\ \E t : thread' = [thread EXCEPT ![d] = t]
  BY DEF Retrieve, StartGet, Move
<1>3. SameLists(fc, fc') /\ fc'.req = fc.req
  BY <1>1, <1>2 DEF StartGet, SameLists, Conn
<1>4. \A s \in Requests : task[s] \in Late => task'[s] \in Late
  BY <1>1, <1>2, LateStays DEF Late
<1>5. \A s \in Requests : Writing(s) => Writing(s)' BY <1>2, IdleWriting
<1> QED BY <1>2, <1>3, <1>4, <1>5, MinorSame, MinorOnward

-----------------------------------------------------------------------------
(***************************************************************************)
(* Steps that give the daemon a message, or queue an interrupt again.      *)
(***************************************************************************)
\* The message that is added names one id of one request.
LEMMA MessageAdded ==
  ASSUME Inv, Ids, IdsFresh, NEW r \in Requests, NEW i \in BOOLEAN, IdOf(r, i)' # 0,
         inbox' \subseteq inbox \cup {[req |-> r, unique |-> IdOf(r, i)', intr |-> i]}
  PROVE  IdsApart' /\ MessagesApart'
<1> DEFINE n == [req |-> r, unique |-> IdOf(r, i)', intr |-> i]
<1>1. /\ IdsApart'
      /\ \A m \in inbox, s \in Requests, j \in BOOLEAN :
           m.unique = IdOf(s, j)' => m.req = s /\ m.intr = j
  BY ApartKept DEF Ids
<1>2. n.req = r /\ n.unique = IdOf(r, i)' /\ n.intr = i OBVIOUS
<1>3. \A m \in inbox' : m \in inbox \/ m = n OBVIOUS
<1>4. \A m \in inbox : m.unique = n.unique => m = n
  <2>1. ASSUME NEW m \in inbox, m.unique = n.unique PROVE m = n
    <3>1. m.req = r /\ m.intr = i BY <1>1, <1>2, <2>1
    <3>2. m \in Message BY InvTypes DEF TypeOK
    <3>3. m = [req |-> m.req, unique |-> m.unique, intr |-> m.intr] BY <3>2 DEF Message
    <3> QED BY <3>1, <3>3, <2>1, <1>2
  <2> QED BY <2>1
<1> HIDE DEF n
<1>5. \A m \in inbox' : m.unique # 0 BY <1>2, <1>3 DEF Ids, MessagesApart
<1>6. \A m \in inbox', s \in Requests, j \in BOOLEAN :
        m.unique = IdOf(s, j)' => m.req = s /\ m.intr = j
  <2>1. ASSUME NEW m \in inbox', NEW s \in Requests, NEW j \in BOOLEAN,
               m.unique = IdOf(s, j)'
        PROVE  m.req = s /\ m.intr = j
    <3>1. CASE m \in inbox BY <3>1, <2>1, <1>1
    <3>2. CASE m = n BY <3>2, <2>1, <1>1, <1>2 DEF IdsApart
    <3> QED BY <3>1, <3>2, <1>3
  <2> QED BY <2>1
<1>7. \A l, m \in inbox' : l.unique = m.unique => l = m
  BY <1>3, <1>4 DEF Ids, MessagesApart
<1> QED BY <1>1, <1>5, <1>6, <1>7 DEF MessagesApart

\* The other requests see none of it.
LEMMA OthersIds ==
  ASSUME Ids, NEW r \in Requests,
         \A s \in Requests : s # r =>
           Same(fc, fc', s) /\ task'[s] = task[s] /\ (Writing(s) => Writing(s)'),
         IdsApart', MessagesApart',
         \A m \in inbox' : m \notin inbox => \E i \in BOOLEAN : m.unique = IdOf(r, i)',
         fc'.req[r].state \in {"PENDING", "READING"} =>
           r \in NotifyReply \/ fc'.req[r].unique # 0,
         NoDuplicate(fc'.interrupts), Asked(r)'
  PROVE  Ids'
<1>1. Numbered'
  <2>1. ASSUME NEW s \in Requests \ NotifyReply, fc'.req[s].state \in {"PENDING", "READING"}
        PROVE  fc'.req[s].unique # 0
    <3>1. CASE s = r BY <3>1, <2>1
    <3>2. CASE s # r BY <3>2, <2>1 DEF Same, Ids, Numbered
    <3> QED BY <3>1, <3>2
  <2> QED BY <2>1 DEF Numbered
<1>2. ASSUME NEW s \in Requests, s # r PROVE Asked(s)'
  <2>1. Asked(s) BY DEF Ids
  <2>2. Same(fc, fc', s) /\ task'[s] = task[s] /\ (Writing(s) => Writing(s)') BY <1>2
  <2>3. ASSUME NEW m \in inbox', m \notin inbox PROVE m.unique # fc'.req[s].intr_unique
    <3>1. PICK i \in BOOLEAN : m.unique = IdOf(r, i)' BY <2>3
    <3>2. IdOf(s, TRUE)' = fc'.req[s].intr_unique BY DEF IdOf
    <3>3. m.unique # 0 BY DEF MessagesApart
    <3> QED BY <1>2, <3>1, <3>2, <3>3 DEF IdsApart
  <2> QED BY <2>1, <2>2, <2>3 DEF Asked, Same
<1>3. \A s \in Requests : Asked(s)' BY <1>2
<1> QED BY <1>1, <1>3 DEF Ids

\* The daemon reads an interrupt.
LEMMA InterruptReadIds ==
  ASSUME Inv, Ids, IdsFresh, NEW r \in Requests, r = Head(fc.interrupts),
         fc.interrupts # <<>>, NEW u \in 0 .. UniqueMax, u # 0,
         fc' = [fc EXCEPT !.interrupts = Tail(@), !.reqctr = u,
                          !.req[r] = [fc.req[r] EXCEPT !.intr_unique = u]],
         inbox' \subseteq inbox \cup {[req |-> r, unique |-> u, intr |-> TRUE]},
         UNCHANGED <<task, thread>>
  PROVE  Ids'
<1> DEFINE p == fc.req[r]
           q == [p EXCEPT !.intr_unique = u]
           n == [req |-> r, unique |-> u, intr |-> TRUE]
<1>1. Good(fc) /\ p \in Req BY InvTypes
<1>2. /\ fc'.req[r] = q
      /\ fc'.processing = fc.processing /\ fc'.interrupts = Tail(fc.interrupts)
      /\ \A s \in Requests : s # r => Same(fc, fc', s)
  <2>1. q = WithUnique(fc.req[r], u) BY DEF WithUnique
  <2>2. PICK e : e = fc' OBVIOUS
  <2>3. e = InterruptRead(fc, r, u) BY <2>2 DEF InterruptRead, WithUnique
  <2> HIDE DEF q
  <2>4. /\ e.req[r] = q /\ e.processing = fc.processing /\ e.interrupts = Tail(fc.interrupts)
        /\ \A s \in Requests : s # r => Same(fc, e, s)
    BY <1>1, <2>1, <2>3, ReadInterruptEffect
  <2> QED BY <2>2, <2>4
<1>3. fc.interrupts \in Seq(Requests) BY <1>1 DEF Good, Conn
<1>4. /\ Member(fc.interrupts, r) /\ NoDuplicate(Tail(fc.interrupts))
      /\ ~ Member(Tail(fc.interrupts), r)
  BY <1>3, TailMember DEF Ids
<1>5. /\ q.state = p.state /\ q.interrupted = p.interrupted /\ q.unique = p.unique
      /\ q.intr_unique = u
  BY <1>1 DEF Req
<1> HIDE DEF q
<1>6. IdOf(r, TRUE)' = u BY <1>2, <1>5 DEF IdOf
<1>7. IdsApart' /\ MessagesApart' BY <1>6, MessageAdded
<1>8. p.interrupted /\ p.state \notin Early /\ task[r] \in Late
  <2>1. Asked(r) BY DEF Ids
  <2>2. p.interrupted /\ (r \in fc.processing \/ Writing(r)) BY <2>1, <1>4 DEF Asked
  <2>3. r \in fc.processing => p.state = "SENT" BY DEF Inv, PerRequest, Placed
  <2>4. Writing(r) => p.state = "WRITING" \/ p.aborted BY WritingIs
  <2>5. p.aborted => p.state = "FINISHED" BY DEF Inv, PerRequest, Told
  <2> QED BY <2>1, <2>2, <2>3, <2>4, <2>5 DEF Asked, Early
<1> HIDE DEF p
<1>9. /\ fc'.req[r].interrupted /\ fc'.req[r].state \notin Early /\ task'[r] \in Late
      /\ ~ Member(fc'.interrupts, r)
  BY <1>2, <1>4, <1>5, <1>8
<1>10. Asked(r)' BY <1>9 DEF Asked
<1>11. \A m \in inbox' : m \notin inbox => \E i \in BOOLEAN : m.unique = IdOf(r, i)'
  <2>1. \A m \in inbox' : m \notin inbox => m.unique = u OBVIOUS
  <2> QED BY <2>1, <1>6
<1>12. \A s \in Requests : Writing(s) => Writing(s)' BY WritingRests
<1>13. fc'.req[r].state \notin {"PENDING", "READING"} BY <1>9 DEF Early
<1>14. NoDuplicate(fc'.interrupts) BY <1>2, <1>4
<1>15. \A s \in Requests : s # r =>
         Same(fc, fc', s) /\ task'[s] = task[s] /\ (Writing(s) => Writing(s)')
  BY <1>2, <1>12
<1> QED BY <1>7, <1>10, <1>11, <1>13, <1>14, <1>15, OthersIds

LEMMA ReadInterruptIds ==
  ASSUME Inv, Ids, IdsFresh, NEW d \in Thread, ReadInterrupt(d)
  PROVE  Ids'
<1> DEFINE h == Head(fc.interrupts)
           v == fuse_get_unique(fc.reqctr, 1)
<1>1. /\ fc.interrupts # <<>> /\ UNCHANGED <<task, thread>>
      /\ fc' = [fc EXCEPT !.interrupts = Tail(@), !.reqctr = v, !.req[h].intr_unique = v]
      /\ inbox' \subseteq inbox \cup {[req |-> h, unique |-> v, intr |-> TRUE]}
  BY DEF ReadInterrupt
<1>2. v \in 0 .. UniqueMax /\ v # 0
  <2>1. v \in 1 .. UniqueMax BY InvTypes, UniqueType
  <2> QED BY <2>1, BoundAssumption
<1>3. h \in Requests
  <2>1. fc.interrupts \in Seq(Requests) BY InvTypes DEF Conn
  <2> QED BY <1>1, <2>1, TailMember
<1>4. PICK r \in Requests, u \in 0 .. UniqueMax : r = h /\ u = v BY <1>2, <1>3
<1>5. fc' = [fc EXCEPT !.interrupts = Tail(@), !.reqctr = u,
                       !.req[r] = [fc.req[r] EXCEPT !.intr_unique = u]]
  BY <1>1, <1>4
<1>6. inbox' \subseteq inbox \cup {[req |-> r, unique |-> u, intr |-> TRUE]}
  BY <1>1, <1>4
<1> QED BY <1>1, <1>2, <1>4, <1>5, <1>6, InterruptReadIds

\* The daemon wants the interrupt again: it had it, so it waits no more.
LEMMA WriteInterruptReplyIds ==
  ASSUME Inv, Inv', Ids, IdsFresh, NEW d \in Thread, NEW m \in inbox,
         WriteInterruptReply(d, m)
  PROVE  Ids'
<1>1. Good(fc) /\ fc \in Conn BY InvTypes
<1>2. /\ UNCHANGED <<task, thread>> /\ inbox' = inbox \ {m}
  BY DEF WriteInterruptReply, Found, Writer
<1>3. PICK r \in Requests :
        /\ r \in fc.processing /\ fc.req[r].intr_unique = m.unique
        /\ \/ fc' = [fc EXCEPT !.no_interrupt = TRUE]
           \/ fc' = queue_interrupt(fc, r)
           \/ UNCHANGED fc
  BY DEF WriteInterruptReply, Found, request_find
<1>4. CASE fc' = [fc EXCEPT !.no_interrupt = TRUE] \/ UNCHANGED fc
  <2>1. SameLists(fc, fc') /\ fc'.req = fc.req BY <1>1, <1>4 DEF Conn, SameLists
  <2>2. Onward BY <1>2, <2>1, QuietOnward
  <2> QED BY <2>2, OnwardKeeps
<1>5. CASE fc' = queue_interrupt(fc, r)
  <2> DEFINE e == queue_interrupt(fc, r)
             q == fc.req[r]
  <2>1. /\ e.req = fc.req /\ e.processing = fc.processing
        /\ e.interrupts = Append(fc.interrupts, r)
        /\ \A s \in Requests : s # r => Same(fc, e, s)
    BY <1>1, QueueInterruptEffect
  <2> HIDE DEF e
  <2>2. fc' = e BY <1>5 DEF e
  <2>3. Asked(r) /\ m.unique # 0 BY DEF Ids, MessagesApart
  <2>4. ~ Member(fc.interrupts, r) /\ q.intr_unique # 0 BY <1>3, <2>3 DEF Asked
  <2>5. q.interrupted /\ q.state \notin Early /\ task[r] \in Late BY <2>3, <2>4 DEF Asked
  <2>6. fc.interrupts \in Seq(Requests) BY <1>1 DEF Conn
  <2>7. NoDuplicate(fc'.interrupts)
    <3>1. r \in Requests BY <1>3
    <3>2. NoDuplicate(fc.interrupts) BY DEF Ids
    <3>3. NoDuplicate(Append(fc.interrupts, r))
      BY <2>4, <2>6, <3>1, <3>2, AppendMember
    <3> QED BY <2>1, <2>2, <3>3
  <2>8. IdsApart' /\ MessagesApart'
    <3>1. \A s \in Requests, i \in BOOLEAN : IdOf(s, i)' = IdOf(s, i) BY <2>1, <2>2 DEF IdOf
    <3>2. IdsApart' BY <3>1 DEF Ids, IdsApart
    <3>3. MessagesApart' BY <1>2, <3>1 DEF Ids, MessagesApart
    <3> QED BY <3>2, <3>3
  <2>9. Asked(r)'
    <3>1. \A l \in inbox' : l.unique # q.intr_unique
      BY <1>2, <1>3 DEF Ids, MessagesApart
    <3> QED BY <1>2, <1>3, <2>1, <2>2, <2>5, <3>1 DEF Asked
  <2>10. \A s \in Requests : Writing(s) => Writing(s)' BY <1>2, WritingRests
  <2>11. fc'.req[r].state \notin {"PENDING", "READING"} BY <2>1, <2>2, <2>5 DEF Early
  <2>12. \A l \in inbox' : l \in inbox BY <1>2
  <2> QED BY <1>2, <2>1, <2>2, <2>7, <2>8, <2>9, <2>10, <2>11, <2>12, OthersIds
<1> QED BY <1>3, <1>4, <1>5

\* The daemon has read a request.
LEMMA DeliverIds ==
  ASSUME Inv, Ids, IdsFresh, NEW d \in Thread, NEW r \in Requests, thread[d].pc = "read",
         thread[d].req = r, ~ fc.req[r].aborted, r \notin NotifyReply,
         fc' = Delivered([fc EXCEPT !.req[r].locked = FALSE], r),
         thread' = [thread EXCEPT ![d] = Idle], UNCHANGED task,
         inbox' = inbox \cup {[req |-> r, unique |-> fc.req[r].unique, intr |-> FALSE]}
  PROVE  Ids'
<1> DEFINE p == fc.req[r]
           x == [p EXCEPT !.locked = FALSE]
           c == [fc EXCEPT !.req[r] = x]
           e == Delivered(c, r)
           q == fc'.req[r]
<1>1. PerRequest(r) /\ p \in Req /\ Good(fc) /\ Worker(r) = thread[d] BY AtWork
<1>2. p.state = "READING" BY <1>1 DEF PerRequest, Worked
<1>3. /\ x \in Req /\ x.state = p.state /\ x.interrupted = p.interrupted
      /\ x.unique = p.unique /\ x.intr_unique = p.intr_unique
  BY <1>1 DEF Req
<1>4. fc' = e OBVIOUS
<1> HIDE DEF x
<1>5. /\ Good(c) /\ c.req[r] = x /\ c.interrupts = fc.interrupts
      /\ \A s \in Requests : s # r => Same(fc, c, s)
  BY <1>1, <1>3, ReqEffect
<1> HIDE DEF c
<1>6. /\ e.req[r] = [x EXCEPT !.state = "SENT"] /\ r \in e.processing
      /\ e.interrupts = IF x.interrupted THEN Append(c.interrupts, r) ELSE c.interrupts
      /\ \A s \in Requests : s # r => Same(c, e, s)
  BY <1>5, DeliveredEffect
<1> HIDE DEF e
<1>7. /\ q.state = "SENT" /\ q.interrupted = p.interrupted /\ q.unique = p.unique
      /\ q.intr_unique = p.intr_unique
  BY <1>3, <1>4, <1>6 DEF Req
<1>8. \A s \in Requests : s # r => Same(fc, fc', s) BY <1>4, <1>5, <1>6 DEF Same
<1>9. Asked(r) /\ p.unique # 0 BY <1>2 DEF Ids, Numbered
<1>10. p.intr_unique = 0 /\ ~ Member(fc.interrupts, r)
  <2>1. r \notin fc.processing BY <1>1, <1>2 DEF PerRequest, Placed
  <2>2. ~ Writing(r) BY <1>2, WritingIs
  <2> QED BY <2>1, <2>2, <1>2, <1>9 DEF Asked, Early
<1>11. fc.interrupts \in Seq(Requests) BY <1>1 DEF Good, Conn
<1>12. /\ NoDuplicate(fc'.interrupts)
       /\ Member(fc'.interrupts, r) => p.interrupted
  BY <1>3, <1>4, <1>5, <1>6, <1>10, <1>11, AppendMember DEF Ids
<1>13. IdOf(r, FALSE)' = p.unique BY <1>7 DEF IdOf
<1>14. IdsApart' /\ MessagesApart' BY <1>9, <1>13, MessageAdded
<1>15. Asked(r)'
  <2>1. \A m \in inbox' : m.unique # 0 BY <1>14 DEF MessagesApart
  <2>2. r \in fc'.processing BY <1>4, <1>6
  <2> QED BY <1>7, <1>9, <1>10, <1>12, <2>1, <2>2 DEF Asked
<1>16. \A s \in Requests : Writing(s) => Writing(s)' BY IdleWriting
<1>17. \A m \in inbox' : m \notin inbox => \E i \in BOOLEAN : m.unique = IdOf(r, i)'
  <2>1. \A m \in inbox' : m \notin inbox => m.unique = p.unique OBVIOUS
  <2> QED BY <2>1, <1>13
<1> HIDE DEF p, q
<1>18. fc'.req[r].state \notin {"PENDING", "READING"} BY <1>7 DEF q
<1> QED BY <1>8, <1>12, <1>14, <1>15, <1>16, <1>17, <1>18, OthersIds

LEMMA ReadFinishIds ==
  ASSUME Inv, Inv', Ids, IdsFresh, NEW d \in Thread, ReadFinish(d)
  PROVE  Ids'
<1> DEFINE r == thread[d].req
           p == fc.req[r]
           failed == thread[d].phase = "failed"
           bad == failed /\ ~ p.aborted
           c == [fc EXCEPT !.req[r].locked = FALSE]
<1>1. thread[d].pc = "read" /\ UNCHANGED task BY DEF ReadFinish, CopyOver
<1>2. r \in Requests /\ p \in Req /\ fc \in Conn BY <1>1, AtWork
<1>3. c.req[r].aborted = p.aborted BY <1>2 DEF Conn, Req
<1>4. CASE p.aborted \/ failed \/ r \in NotifyReply
  <2>1. EndBy(d, IF bad THEN [c EXCEPT !.req[r].error = "EIO"] ELSE c, r) /\ UNCHANGED inbox
    BY <1>3, <1>4 DEF ReadFinish
  <2> HIDE DEF r
  <2>2. r = thread[d].req BY DEF r
  <2>3. Onward BY <1>1, <1>2, <2>1, <2>2, CopyOverOnward
  <2> QED BY <2>3, OnwardKeeps
<1>5. CASE ~ (p.aborted \/ failed \/ r \in NotifyReply)
  <2>1. /\ fc' = Delivered(c, r) /\ thread' = [thread EXCEPT ![d] = Idle]
        /\ inbox' = inbox \cup {[req |-> r, unique |-> fc.req[r].unique, intr |-> FALSE]}
    BY <1>3, <1>5 DEF ReadFinish
  <2> HIDE DEF r
  <2>2. r = thread[d].req BY DEF r
  <2> QED BY <1>1, <1>2, <1>5, <2>1, <2>2, DeliverIds
<1> QED BY <1>4, <1>5

LEMMA DaemonIds ==
  ASSUME Inv, Inv', Ids, IdsFresh, NEW d \in Thread, Daemon(d)
  PROVE  Ids'
<1>1. CASE Inside(d)
  <2>1. CASE ReadFinish(d) BY <2>1, ReadFinishIds
  <2>2. CASE ~ ReadFinish(d)
    <3>1. Onward
      BY <1>1, <2>2, CopyOnward, WriteFinishOnward, ThreadEndOnward DEF Inside
    <3> QED BY <3>1, OnwardKeeps
  <2> QED BY <2>1, <2>2
<1>2. CASE Read(d)
  <2>1. CASE ReadInterrupt(d) BY <2>1, ReadInterruptIds
  <2>2. CASE ~ ReadInterrupt(d)
    <3>1. Onward
      BY <1>2, <2>2, ForgetOnward, ReadRequestOnward, ReadTooLargeOnward DEF Read
    <3> QED BY <3>1, OnwardKeeps
  <2> QED BY <2>1, <2>2
<1>3. ASSUME NEW m \in inbox, Write(d, m) PROVE Ids'
  <2>1. CASE WriteInterruptReply(d, m) BY <2>1, WriteInterruptReplyIds
  <2>2. CASE ~ WriteInterruptReply(d, m)
    <3>1. Onward BY <1>3, <2>2, NoEntryOnward, WriteReplyOnward DEF Write
    <3> QED BY <3>1, OnwardKeeps
  <2> QED BY <2>1, <2>2
<1>4. ASSUME NEW r \in NotifyReply, Retrieve(d, r) PROVE Ids'
  <2>1. Onward BY <1>4, RetrieveOnward
  <2> QED BY <2>1, OnwardKeeps
<1> QED BY <1>1, <1>2, <1>3, <1>4 DEF Daemon

-----------------------------------------------------------------------------
(***************************************************************************)
(* The steps of the abort.                                                 *)
(***************************************************************************)
LEMMA AbortRestsOnward ==
  ASSUME Minor(fc, fc'), UNCHANGED <<task, thread, inbox>>
  PROVE  Onward
<1>1. \A s \in Requests : Writing(s) => Writing(s)' BY WritingRests
<1> QED BY <1>1, MinorOnward

LEMMA AbortTakes ==
  ASSUME Inv, NEW r \in Requests, \A s \in Requests : s # r => Left(fc, fc', s),
         Carried(fc, fc', r),
         fc'.interrupts = fc.interrupts \/ fc'.interrupts = Del(fc.interrupts, r),
         UNCHANGED <<task, thread, inbox>>
  PROVE  Onward
<1>1. \A s \in Requests : Writing(s) => Writing(s)' BY WritingRests
<1> QED BY <1>1, StepOnward

LEMMA AbortQuietOnward ==
  ASSUME Inv, AbortStart \/ AbortDone
  PROVE  Onward
<1>1. fc \in Conn BY InvTypes
<1>2. SameLists(fc, fc') /\ fc'.req = fc.req
  <2>1. CASE AbortStart BY <1>1, <2>1 DEF AbortStart, SameLists, Conn
  <2>2. CASE AbortDone BY <1>1, <2>2 DEF AbortDone, SameLists, Conn
  <2> QED BY <2>1, <2>2
<1>3. UNCHANGED <<task, thread, inbox>> BY DEF AbortStart, AbortDone
<1> QED BY <1>2, <1>3, QuietOnward

LEMMA AbortIoOnward ==
  ASSUME Inv, NEW r \in Requests, AbortIo(r)
  PROVE  Onward
<1> DEFINE p == fc.req[r]
           q == fc'.req[r]
           h == p.end
           e == IF h THEN AbortedHeld(r) ELSE Aborted(r)
<1>1. p \in Req BY InvTypes
<1>2. h \in BOOLEAN BY <1>1 DEF Req
<1>3. fc' = e /\ r \in fc.io /\ UNCHANGED <<task, thread, inbox>> BY DEF AbortIo
<1>4. /\ e.interrupts = fc.interrupts /\ \A s \in Requests : s # r => Same(fc, e, s)
      /\ e.req[r].state = "FINISHED" /\ e.req[r].interrupted = p.interrupted
      /\ e.req[r].intr_unique = p.intr_unique
  BY <1>2, AbortedEffect
<1> HIDE DEF e
<1>5. r \notin fc.processing BY <1>3 DEF Inv, PerRequest, Placed
<1>6. Carried(fc, fc', r) BY <1>3, <1>4, <1>5 DEF Carried, Early
<1> QED BY <1>3, <1>4, <1>6, AbortTakes DEF Left

LEMMA AbortIoEndOnward ==
  ASSUME Inv, AbortIoEnd
  PROVE  Onward
<1>1. /\ abort.pc = "io_end" /\ abort \in AbortState /\ Good(fc)
      /\ UNCHANGED <<task, thread, inbox>>
  BY InvTypes DEF AbortIoEnd, TypeOK
<1>2. abort.req \in Requests BY <1>1 DEF Inv, TypeInv, AbortHolds
<1>3. ASSUME NEW r \in Requests, r = abort.req PROVE Minor(fc, fc')
  <2> DEFINE p == fc.req[r]
             x == [p EXCEPT !.ended = @ + 1]
             c == [fc EXCEPT !.req[r] = x]
             e == fuse_put_request(c, r)
  <2>1. p \in Req /\ fc \in Conn BY InvTypes
  <2>2. fc' = e BY <1>3 DEF AbortIoEnd
  <2>3. x \in Req /\ SameIds(p, x) BY <2>1 DEF Req, SameIds
  <2> HIDE DEF x
  <2>4. Good(c) /\ Minor(fc, c) BY <1>1, <2>1, <2>3, ReqEffect, MinorRewrite
  <2> HIDE DEF c
  <2>5. Minor(c, e) BY <2>4, EndTailMinor
  <2> HIDE DEF e
  <2> QED BY <2>2, <2>4, <2>5 DEF Minor, SameLists, SameIds
<1>4. Minor(fc, fc') BY <1>2, <1>3
<1> QED BY <1>1, <1>4, AbortRestsOnward

LEMMA AbortQueuedOnward ==
  ASSUME Inv, AbortQueued
  PROVE  Onward
<1> DEFINE c == [fc EXCEPT !.max_background = UintMax]
           e == flush_bg_queue(c)
<1>1. fc \in Conn /\ Good(fc) BY InvTypes
<1>2. fc' = e /\ UNCHANGED <<task, thread, inbox>> BY DEF AbortQueued
<1>3. /\ c.req = fc.req
      /\ c.pending = fc.pending /\ c.bg_queue = fc.bg_queue /\ c.io = fc.io
      /\ c.processing = fc.processing /\ c.interrupts = fc.interrupts
      /\ c.connected = fc.connected /\ c.reserved = fc.reserved
      /\ c.blocked = fc.blocked /\ c.blocked_waitq = fc.blocked_waitq /\ c \in Conn
  BY <1>1 DEF Conn
<1> HIDE DEF c
<1>4. Good(c) /\ \A s \in Requests : Same(fc, c, s) BY <1>1, <1>3, QuietEffect
<1>5. e.interrupts = c.interrupts /\ \A s \in Requests : Left(c, e, s)
  BY <1>4, FlushEffect
<1> HIDE DEF e
<1>6. \A s \in Requests : Left(fc, fc', s) BY <1>2, <1>4, <1>5, SameTrans
<1>7. \A s \in Requests : Carried(fc, fc', s) BY <1>6, LeftCarried
<1>8. \A s \in Requests : Writing(s) => Writing(s)' BY <1>2, WritingRests
<1> QED BY <1>2, <1>3, <1>5, <1>7, <1>8 DEF Onward

LEMMA AbortEndOnward ==
  ASSUME Inv, Ids, NEW r \in Requests, NEW next, AbortEnd(r, next)
  PROVE  Onward
<1> DEFINE p == fc.req[r]
           x == [p EXCEPT !.error = "ECONNABORTED"]
           c == [fc EXCEPT !.req[r] = x]
<1>1. p \in Req /\ Good(fc) BY InvTypes
<1>2. "ECONNABORTED" \in Error BY DEF Error
<1>3. x \in Req /\ x.interrupted = p.interrupted /\ x.intr_unique = p.intr_unique
  BY <1>1, <1>2 DEF Req
<1>4. fc' = request_end(c, r) /\ UNCHANGED <<task, thread, inbox>>
  <2>1. [fc EXCEPT !.req[r].error = "ECONNABORTED"] = c OBVIOUS
  <2> HIDE DEF c
  <2> QED BY <2>1 DEF AbortEnd
<1> HIDE DEF x
<1>5. /\ Good(c) /\ c.req[r] = x /\ c.interrupts = fc.interrupts
      /\ \A s \in Requests : s # r => Same(fc, c, s)
  BY <1>1, <1>3, ReqEffect
<1> HIDE DEF c
<1>6. /\ \A s \in Requests : s # r => Left(fc, fc', s)
      /\ Carried(fc, fc', r) /\ fc'.interrupts = Del(fc.interrupts, r)
  BY <1>3, <1>4, <1>5, RequestEndCarried DEF Ids
<1> QED BY <1>4, <1>6, AbortTakes

LEMMA AbortListOnward ==
  ASSUME Inv, Ids, AbortPending \/ AbortProcessing
  PROVE  Onward
<1>1. fc.pending \in Seq(Requests) /\ fc.processing \subseteq Requests
  BY InvTypes DEF Conn
<1>2. CASE AbortPending
  <2>1. fc.pending # <<>> /\ AbortEnd(Head(fc.pending), "end_pending")
    BY <1>2 DEF AbortPending
  <2>2. Head(fc.pending) \in Requests BY <1>1, <2>1, TailMember
  <2> QED BY <2>1, <2>2, AbortEndOnward
<1>3. CASE AbortProcessing
  <2>1. \E r \in Requests : AbortEnd(r, "end_processing")
    BY <1>1, <1>3 DEF AbortProcessing
  <2> QED BY <2>1, AbortEndOnward
<1> QED BY <1>2, <1>3

LEMMA AbortTailOnward ==
  ASSUME Inv,
         AbortTail("end_pending", "pending") \/ AbortTail("end_processing", "processing")
  PROVE  Onward
<1>1. /\ abort.pc \in {"end_pending", "end_processing"}
      /\ fc' = EndTail(fc, abort.req, abort.end) /\ UNCHANGED <<task, thread, inbox>>
  BY DEF AbortTail
<1>2. abort \in AbortState /\ Good(fc) BY InvTypes DEF TypeOK
<1>3. abort.req \in Requests /\ abort.end \in BOOLEAN
  BY <1>1, <1>2 DEF Inv, TypeInv, AbortHolds, AbortState
<1>4. Minor(fc, fc') BY <1>1, <1>2, <1>3, EndTailMinor
<1> QED BY <1>1, <1>4, AbortRestsOnward

LEMMA AbortIds ==
  ASSUME Inv, Inv', Ids, IdsFresh, Abort
  PROVE  Ids'
<1>1. Onward
  BY AbortQuietOnward, AbortIoOnward, AbortIoEndOnward, AbortQueuedOnward,
     AbortListOnward, AbortTailOnward DEF Abort, AbortStep
<1> QED BY <1>1, OnwardKeeps

-----------------------------------------------------------------------------
(***************************************************************************)
(* The invariant holds, and with it the two properties.                    *)
(***************************************************************************)
LEMMA IdsInit == Init => Ids
<1> SUFFICES ASSUME Init PROVE Ids OBVIOUS
<1>1. fc.interrupts = <<>> /\ inbox = {} BY DEF Init
<1>2. \A r \in Requests :
        /\ fc.req[r].state = "INIT" /\ ~ fc.req[r].interrupted
        /\ fc.req[r].unique = 0 /\ fc.req[r].intr_unique = 0
  <2>1. fc.req = [r \in Requests |-> NewReq(r)] BY DEF Init
  <2>2. ASSUME NEW r \in Requests
        PROVE  /\ fc.req[r].state = "INIT" /\ ~ fc.req[r].interrupted
               /\ fc.req[r].unique = 0 /\ fc.req[r].intr_unique = 0
    <3>1. fc.req[r] = NewReq(r) BY <2>1
    <3> QED BY <3>1 DEF NewReq
  <2> QED BY <2>2
<1>3. \A r \in Requests, i \in BOOLEAN : IdOf(r, i) = 0 BY <1>2 DEF IdOf
<1>4. IdsApart /\ MessagesApart BY <1>1, <1>3 DEF IdsApart, MessagesApart
<1>5. Numbered BY <1>2 DEF Numbered
<1>6. NoDuplicate(fc.interrupts) /\ \A r : ~ Member(fc.interrupts, r)
  BY <1>1 DEF NoDuplicate, Member
<1>7. \A r \in Requests : Asked(r) BY <1>2, <1>6 DEF Asked
<1> QED BY <1>4, <1>5, <1>6, <1>7 DEF Ids

LEMMA IdsRest == Inv /\ Inv' /\ Ids /\ UNCHANGED vars => Ids'
BY DEF vars, Ids, IdsApart, MessagesApart, Numbered, Asked, Writing, IdOf

LEMMA IdsStep == Inv /\ Inv' /\ Ids /\ [Next]_vars /\ [IdsFresh]_vars => Ids'
<1> SUFFICES ASSUME Inv, Inv', Ids, [Next]_vars, [IdsFresh]_vars PROVE Ids' OBVIOUS
<1>1. CASE UNCHANGED vars BY <1>1, IdsRest
<1>2. CASE ~ UNCHANGED vars
  <2>1. IdsFresh /\ Next BY <1>2
  <2>2. CASE \E f \in Forget : QueueForget(f) BY <2>1, <2>2, ForgetOnward, OnwardKeeps
  <2>3. CASE Quiet BY <1>2, <2>3 DEF Quiet
  <2> QED BY <2>1, <2>2, <2>3, CallerIds, DaemonIds, AbortIds DEF Next
<1> QED BY <1>1, <1>2

LEMMA IdsLists == Inv /\ Ids => ListsMatchState
<1> SUFFICES ASSUME Inv, Ids PROVE ListsMatchState OBVIOUS
<1>1. NoDuplicate(fc.pending) /\ NoDuplicate(fc.bg_queue) /\ NoDuplicate(fc.interrupts)
  BY DEF Inv, Shared, Ids
<1>2. ASSUME NEW r \in Requests
      PROVE  LET q == fc.req[r]
             IN  /\ Member(fc.pending, r) <=> q.state = "PENDING" /\ ~ Withdrawn(r)
                 /\ Member(fc.bg_queue, r) => q.state = "INIT" /\ q.background
                 /\ r \in fc.io <=> q.state \in {"READING", "WRITING"}
                 /\ r \in fc.processing <=> q.state = "SENT"
                 /\ Member(fc.interrupts, r) =>
                      q.state \in {"SENT", "WRITING"} \/ (q.aborted /\ Busy(r) # {})
                 /\ q.aborted => q.state = "FINISHED"
  <2>1. Placed(r) /\ Told(r) BY DEF Inv, PerRequest
  <2>2. Asked(r) BY DEF Ids
  <2>3. Writing(r) => fc.req[r].state = "WRITING" \/ (fc.req[r].aborted /\ Busy(r) # {})
    BY WritingIs
  <2> QED BY <2>1, <2>2, <2>3 DEF Placed, Told, Asked, Withdrawn
<1> QED BY <1>1, <1>2 DEF ListsMatchState

LEMMA IdsAnswers == Inv /\ Ids => AnswersFindTheirRequest
<1> SUFFICES ASSUME Inv, Ids PROVE AnswersFindTheirRequest OBVIOUS
<1>1. ASSUME NEW m \in inbox, NEW r \in request_find(m.unique)
      PROVE  r = m.req /\ (m.intr <=> fc.req[r].intr_unique = m.unique)
  <2>a. fc.processing \subseteq Requests BY InvTypes, ConnFields
  <2>1. r \in Requests /\ m.unique \in {fc.req[r].unique, fc.req[r].intr_unique}
    BY <1>1, <2>a DEF request_find
  <2>2. m.intr \in BOOLEAN BY InvTypes DEF TypeOK, Message
  <2>3. IdOf(r, TRUE) = fc.req[r].intr_unique /\ IdOf(r, FALSE) = fc.req[r].unique
    BY DEF IdOf
  <2>4. /\ m.unique = fc.req[r].intr_unique => m.req = r /\ m.intr = TRUE
        /\ m.unique = fc.req[r].unique => m.req = r /\ m.intr = FALSE
    <3>1. MessagesApart BY DEF Ids
    <3>2. \A i \in BOOLEAN : m.unique = IdOf(r, i) => m.req = r /\ m.intr = i
      BY <1>1, <2>1, <3>1 DEF MessagesApart
    <3> QED BY <2>3, <3>2
  <2> QED BY <2>1, <2>2, <2>4
<1> QED BY <1>1 DEF AnswersFindTheirRequest

LEMMA IdsAlways == Spec /\ [][IdsFresh]_vars => [](Inv /\ Ids)
<1>1. Inv /\ [Next]_vars => Inv' BY InvStep DEF Result
<1> QED BY <1>1, InvInit, IdsInit, IdsStep, PTL DEF Spec

\* Whatever the daemon, the callers and the abort do in which order, every request is on
\* the list its state names and on no other, and an interrupt waits at most once, for a
\* request the daemon has or whose answer it is being copied.  For ids that do not return
\* while they are in use, which is what 64 bits are for.
THEOREM Lists == Spec /\ [][IdsFresh]_vars => []ListsMatchState
BY IdsAlways, IdsLists, PTL

\* A late answer of the daemon, and its answer to an interrupt, find the request they are
\* about or none: fuse_dev_do_write never ends another request with them.
THEOREM Answers == Spec /\ [][IdsFresh]_vars => []AnswersFindTheirRequest
BY IdsAlways, IdsAnswers, PTL

-----------------------------------------------------------------------------
(***************************************************************************)
(* The hypothesis on ids follows from the counter: an id comes back only   *)
(* when fc->reqctr has come round.                                         *)
(***************************************************************************)
\* The counter has numbers left for everything that is queued, and one more.
FarFromEnd == fc.reqctr + Len(fc.bg_queue) < UniqueMax

\* The id of request s, or of its interrupt, in connection c.
IdIn(c, s, i) == IF i THEN c.req[s].intr_unique ELSE c.req[s].unique

\* No id is given.
SameNumbers(c, d) ==
  /\ d.reqctr = c.reqctr
  /\ \A s \in Requests : /\ d.req[s].unique = c.req[s].unique
                         /\ d.req[s].intr_unique = c.req[s].intr_unique

\* The ids given from c to d are new numbers of the counter, and each is given once.
Given(c, d) ==
  /\ c.reqctr <= d.reqctr
  /\ \A s \in Requests, i \in BOOLEAN :
       IdIn(d, s, i) # IdIn(c, s, i) => IdIn(d, s, i) \in c.reqctr + 1 .. d.reqctr
  /\ \A s, t \in Requests, i, j \in BOOLEAN :
       /\ IdIn(d, s, i) # IdIn(c, s, i) /\ IdIn(d, t, j) # IdIn(c, t, j)
       /\ IdIn(d, s, i) = IdIn(d, t, j)
       => s = t /\ i = j

LEMMA SameGiven ==
  ASSUME NEW c \in Conn, NEW d, SameNumbers(c, d) PROVE Given(c, d)
<1>1. c.reqctr \in Int BY ConnFields
<1>2. \A s \in Requests, i \in BOOLEAN : IdIn(d, s, i) = IdIn(c, s, i)
  BY DEF SameNumbers, IdIn
<1>3. d.reqctr = c.reqctr BY DEF SameNumbers
<1> QED BY <1>1, <1>2, <1>3 DEF Given

LEMMA SameThenGiven ==
  ASSUME NEW c, NEW e, NEW d, SameNumbers(c, e), Given(e, d) PROVE Given(c, d)
<1>2. \A s \in Requests, i \in BOOLEAN : IdIn(e, s, i) = IdIn(c, s, i)
  BY DEF SameNumbers, IdIn
<1>3. e.reqctr = c.reqctr BY DEF SameNumbers
<1> QED BY <1>2, <1>3 DEF Given

LEMMA SameNumbersTrans ==
  ASSUME NEW c, NEW d, NEW e, SameNumbers(c, d), SameNumbers(d, e)
  PROVE  SameNumbers(c, e)
BY DEF SameNumbers

LEMMA NextId ==
  ASSUME NEW c \in Conn, NEW k \in Nat \ {0}, c.reqctr + k <= UniqueMax
  PROVE  fuse_get_unique(c.reqctr, k) = c.reqctr + k
<1>1. c.reqctr \in Nat /\ UniqueMax \in Nat \ {0} BY ConnFields, BoundAssumption
<1> DEFINE x == c.reqctr + k - 1
<1>2. x \in Nat /\ x < UniqueMax BY <1>1
<1> HIDE DEF x
<1>3. x % UniqueMax = x BY <1>1, <1>2
<1>4. (c.reqctr + k - 1) % UniqueMax = c.reqctr + k - 1 BY <1>3 DEF x
<1> QED BY <1>1, <1>4 DEF fuse_get_unique

LEMMA FlushGiven ==
  ASSUME NEW c \in Conn, c.reqctr + Len(c.bg_queue) <= UniqueMax
  PROVE  Given(c, flush_bg_queue(c))
<1> DEFINE n == Moved(c)
           moved == SubSeq(c.bg_queue, 1, n)
           d == flush_bg_queue(c)
           At(r) == CHOOSE i \in 1 .. n : moved[i] = r
<1>1. n \in Nat /\ n <= Len(c.bg_queue) /\ Len(c.bg_queue) \in Nat /\ c.reqctr \in Nat
      /\ c.req \in [Requests -> Req] /\ c.bg_queue \in Seq(Requests) /\ UniqueMax \in Nat
  BY MovedType, ConnFields, BoundAssumption, LenProperties
<1>2. d.reqctr = c.reqctr + n
  <2>1. d.reqctr = IF n = 0 THEN c.reqctr ELSE fuse_get_unique(c.reqctr, n)
    BY DEF flush_bg_queue, Moved, Conn
  <2> QED BY <1>1, <2>1, NextId
<1>3. ASSUME NEW s \in Requests
      PROVE  /\ d.req[s].intr_unique = c.req[s].intr_unique
             /\ \/ d.req[s].unique = c.req[s].unique
                \/ \E k \in 1 .. n : moved[k] = s /\ d.req[s].unique = c.reqctr + k
  <2>1. d.req[s] = IF Member(moved, s)
                   THEN [c.req[s] EXCEPT !.state = "PENDING", !.waiting = TRUE,
                                  !.unique = fuse_get_unique(c.reqctr, At(s))]
                   ELSE c.req[s]
    BY DEF flush_bg_queue, Moved, Conn
  <2>2. c.req[s] \in Req BY <1>1
  <2>3. CASE ~ Member(moved, s) BY <2>1, <2>3
  <2>4. CASE Member(moved, s)
    <3>1. DOMAIN moved = 1 .. n BY <1>1
    <3>2. At(s) \in 1 .. n /\ moved[At(s)] = s BY <3>1, <2>4 DEF Member
    <3> HIDE DEF At, moved, d, n
    <3>3. fuse_get_unique(c.reqctr, At(s)) = c.reqctr + At(s)
      <4>1. At(s) \in Nat \ {0} /\ c.reqctr + At(s) <= UniqueMax BY <1>1, <3>2
      <4> QED BY <4>1, NextId
    <3>4. d.req[s].unique = fuse_get_unique(c.reqctr, At(s)) BY <2>1, <2>2, <2>4 DEF Req
    <3>5. d.req[s].intr_unique = c.req[s].intr_unique BY <2>1, <2>2, <2>4 DEF Req
    <3> QED BY <3>2, <3>3, <3>4, <3>5
  <2> QED BY <2>3, <2>4
<1> HIDE DEF moved, d, n
<1>4. \A s \in Requests, i \in BOOLEAN : IdIn(d, s, i) # IdIn(c, s, i) =>
        i = FALSE /\ \E k \in 1 .. n : moved[k] = s /\ IdIn(d, s, i) = c.reqctr + k
  BY <1>3 DEF IdIn
<1>5. \A s \in Requests, i \in BOOLEAN :
       IdIn(d, s, i) # IdIn(c, s, i) => IdIn(d, s, i) \in c.reqctr + 1 .. d.reqctr
  BY <1>1, <1>2, <1>4
<1>6. ASSUME NEW s \in Requests, NEW t \in Requests, NEW i \in BOOLEAN, NEW j \in BOOLEAN,
             IdIn(d, s, i) # IdIn(c, s, i), IdIn(d, t, j) # IdIn(c, t, j),
             IdIn(d, s, i) = IdIn(d, t, j)
      PROVE  s = t /\ i = j
  <2>1. PICK k \in 1 .. n : moved[k] = s /\ IdIn(d, s, i) = c.reqctr + k BY <1>4, <1>6
  <2>2. PICK l \in 1 .. n : moved[l] = t /\ IdIn(d, t, j) = c.reqctr + l BY <1>4, <1>6
  <2>3. k = l
    <3>1. c.reqctr + k = c.reqctr + l BY <1>6, <2>1, <2>2
    <3>2. c.reqctr \in Int /\ k \in Int /\ l \in Int BY <1>1
    <3> QED BY <3>1, <3>2
  <2> QED BY <1>4, <1>6, <2>1, <2>2, <2>3
<1>7. c.reqctr <= d.reqctr BY <1>1, <1>2
<1>8. Given(c, d) BY <1>5, <1>6, <1>7 DEF Given
<1> QED BY <1>8 DEF d

\* Enough of the type of a connection to update it in the fields an action assigns.
LEMMA ConnDomains ==
  ASSUME NEW c \in Conn
  PROVE  /\ {"reqctr", "req", "pending", "bg_queue", "io", "processing", "interrupts"}
                \subseteq DOMAIN c
         /\ DOMAIN c.req = Requests
         /\ \A s \in Requests : {"unique", "intr_unique"} \subseteq DOMAIN c.req[s]
<1>1. {"reqctr", "req", "pending", "bg_queue", "io", "processing", "interrupts"}
        \subseteq DOMAIN c
  BY DEF Conn
<1>2. c.req \in [Requests -> Req] BY ConnFields
<1>3. \A s \in Requests : {"unique", "intr_unique"} \subseteq DOMAIN c.req[s]
  BY <1>2 DEF Req
<1> QED BY <1>1, <1>2, <1>3

LEMMA OperatorNumbers ==
  ASSUME NEW c \in Conn, NEW r \in Requests, NEW end \in BOOLEAN
  PROVE  /\ SameNumbers(c, queue_interrupt(c, r)) /\ SameNumbers(c, queue_request(c, r))
         /\ SameNumbers(c, fuse_put_request(c, r)) /\ SameNumbers(c, EndTail(c, r, end))
         /\ SameNumbers(c, Interrupted(c, r)) /\ SameNumbers(c, Replied(c, r))
         /\ SameNumbers(c, Unlisted(c, r)) /\ SameNumbers(c, Discharged(c, r))
         /\ SameNumbers(c, wake_up(c, r)) /\ SameNumbers(c, Delivered(c, r))
<1>1. SameNumbers(c, queue_interrupt(c, r))
  BY ConnDomains DEF SameNumbers, queue_interrupt
<1>2. SameNumbers(c, queue_request(c, r))
  BY ConnDomains DEF SameNumbers, queue_request
<1>3. SameNumbers(c, fuse_put_request(c, r))
  BY ConnDomains DEF SameNumbers, fuse_put_request
<1>4. SameNumbers(c, EndTail(c, r, end))
  BY ConnDomains DEF SameNumbers, EndTail, fuse_put_request, wake_up
<1>5. SameNumbers(c, Interrupted(c, r))
  BY ConnDomains DEF SameNumbers, queue_interrupt, Interrupted
<1>6. SameNumbers(c, Replied(c, r))
  BY ConnDomains DEF SameNumbers, Replied, list_del
<1>7. SameNumbers(c, Unlisted(c, r))
  BY ConnDomains DEF SameNumbers, Unlisted, list_del
<1>8. SameNumbers(c, Discharged(c, r))
  BY ConnDomains DEF SameNumbers, Discharged, Unlisted, list_del
<1>9. SameNumbers(c, wake_up(c, r))
  BY ConnDomains DEF SameNumbers, wake_up
<1>10. SameNumbers(c, Delivered(c, r))
  BY ConnDomains DEF SameNumbers, queue_interrupt, Delivered, list_del
<1> QED BY <1>1, <1>2, <1>3, <1>4, <1>5, <1>6, <1>7, <1>8, <1>9, <1>10

\* Room for what is queued.
Room(c) == c.reqctr + Len(c.bg_queue) <= UniqueMax

LEMMA DelShorter ==
  ASSUME NEW S, NEW s \in Seq(S), NEW r PROVE Len(Del(s, r)) <= Len(s)
<1>1. CASE ~ Member(s, r) BY <1>1, LenProperties DEF Del
<1>2. CASE Member(s, r)
  <2>1. Len(Del(s, r)) = Len(s) - 1 BY <1>2, DelElements
  <2> QED BY <2>1, LenProperties
<1> QED BY <1>1, <1>2

LEMMA RequestEndGiven ==
  ASSUME NEW c \in Conn, NEW r \in Requests, Room(c)
  PROVE  Given(c, request_end(c, r))
<1> DEFINE e == Discharged(c, r)
<1>1. SameNumbers(c, e) /\ SameNumbers(c, Unlisted(c, r)) BY OperatorNumbers
<1>2. CASE ~ c.req[r].background BY <1>1, <1>2, RequestEndCases, SameGiven
<1>3. CASE c.req[r].background
  <2>1. e \in Conn BY DischargedType
  <2>2. e.reqctr = c.reqctr BY <1>1 DEF SameNumbers
  <2>3. e.bg_queue = Del(c.bg_queue, r)
    BY DEF Discharged, Unlisted, list_del, Conn
  <2>4. Len(e.bg_queue) <= Len(c.bg_queue) BY <2>3, ConnFields, DelShorter
  <2> HIDE DEF e
  <2>5. c.reqctr + Len(e.bg_queue) <= UniqueMax
    <3>1. c.reqctr \in Int /\ Len(c.bg_queue) \in Int /\ Len(e.bg_queue) \in Int
          /\ UniqueMax \in Int
      BY <2>1, ConnFields, LenProperties, BoundAssumption
    <3> QED BY <2>4, <3>1 DEF Room
  <2>6. Given(e, flush_bg_queue(e)) BY <2>1, <2>2, <2>5, FlushGiven
  <2>7. Given(c, flush_bg_queue(e)) BY <1>1, <2>6, SameThenGiven DEF e
  <2> QED BY <1>3, <2>7, RequestEndCases DEF e
<1> QED BY <1>2, <1>3

\* The record of request r is updated in other fields, then the request ends.
LEMMA EndGiven ==
  ASSUME NEW c \in Conn, NEW e \in Conn, NEW r \in Requests, Room(c),
         SameNumbers(c, e), Len(e.bg_queue) <= Len(c.bg_queue)
  PROVE  Given(c, request_end(e, r))
<1>1. /\ c.reqctr \in Int /\ Len(c.bg_queue) \in Int /\ Len(e.bg_queue) \in Int
      /\ UniqueMax \in Int
  BY ConnFields, LenProperties, BoundAssumption
<1>2. e.reqctr = c.reqctr BY DEF SameNumbers
<1>3. Room(e) BY <1>1, <1>2 DEF Room
<1> QED BY <1>3, RequestEndGiven, SameThenGiven

LEMMA AsleepNumbers ==
  ASSUME NEW c \in Conn, NEW r \in Requests, NEW b
  PROVE  SameNumbers(c, [c EXCEPT !.req[r].asleep = b])
<1>1. c.req \in [Requests -> Req] BY ConnFields
<1> QED BY <1>1, ConnDomains DEF SameNumbers

LEMMA CallerGiven ==
  ASSUME TypeInv, NEW r \in Requests, Caller(r), FarFromEnd
  PROVE  Given(fc, fc') /\ inbox' = inbox
<1>0. fc \in Conn /\ fc.req \in [Requests -> Req] /\ fc.req[r] \in Req
  BY ConnFields DEF TypeInv, TypeOK
<1>1. SUFFICES Given(fc, fc')
  BY DEF Caller, GetReq, StartGet, GetReqSleep, GetReqKilled, GetReqRefused, GetReqFail,
         GetReqDone, RequestAlloc, GetReqNoMemory, get_reserved_req, put_reserved_req,
         RequestSend, RequestSendRefused, WakeIntr, WakeKill, WakeForced, WakeUnlock,
         PutRequest, SendBackground, SendBackgroundRefused, SendBackgroundEnd,
         SendNotifyReply, Signal
<1>a. /\ fc.reqctr \in Int /\ Len(fc.bg_queue) \in Nat /\ UniqueMax \in Int
       /\ Room(fc)
  BY <1>0, ConnFields, LenProperties, BoundAssumption DEF FarFromEnd, Room
<1>2. ASSUME \/ GetReq(r) \/ GetReqSleep(r) \/ GetReqKilled(r) \/ GetReqRefused(r)
             \/ GetReqNoMemory(r)
      PROVE  SameNumbers(fc, fc')
  BY <1>0, <1>2, ConnDomains DEF GetReq, StartGet, GetReqSleep, GetReqKilled, GetReqRefused,
                                 GetReqFail, GetReqNoMemory, SameNumbers
<1>3. ASSUME \/ GetReqDone(r) \/ RequestAlloc(r) \/ get_reserved_req(r)
             \/ put_reserved_req(r)
      PROVE  SameNumbers(fc, fc')
  <2>1. CASE \E b \in BOOLEAN : fuse_request_alloc(r, b)
    BY <1>0, <2>1, ConnDomains DEF fuse_request_alloc, SameNumbers
  <2>2. CASE get_reserved_req(r) BY <1>0, <2>2, ConnDomains DEF get_reserved_req, SameNumbers
  <2>3. CASE put_reserved_req(r) BY <1>0, <2>3, ConnDomains DEF put_reserved_req, SameNumbers
  <2> QED BY <1>3, <2>1, <2>2, <2>3 DEF GetReqDone, RequestAlloc
<1>4. ASSUME RequestSend(r) PROVE Given(fc, fc')
  <2> DEFINE u == fuse_get_unique(fc.reqctr, 1)
             e == [fc EXCEPT !.reqctr = u, !.req[r].unique = u]
  <2>1. u = fc.reqctr + 1
    <3>1. fc.reqctr \in Int /\ Len(fc.bg_queue) \in Nat /\ UniqueMax \in Int
      BY <1>0, ConnFields, LenProperties, BoundAssumption
    <3>2. fc.reqctr + 1 <= UniqueMax BY <3>1 DEF FarFromEnd
    <3> QED BY <1>0, <3>2, NextId
  <2>2. fc' = [queue_request(e, r) EXCEPT !.req[r].count = @ + 1, !.req[r].asleep = TRUE]
    BY <1>4 DEF RequestSend
  <2> HIDE DEF u
  <2>3. u \in 0 .. UniqueMax
    <3>1. fc.reqctr \in 0 .. UniqueMax BY <1>0, ConnFields
    <3>2. u \in 1 .. UniqueMax BY <3>1, UniqueType DEF u
    <3> QED BY <3>2
  <2>4. PICK q : q = [fc.req[r] EXCEPT !.unique = u] OBVIOUS
  <2>5. q \in Req /\ q.unique = u /\ q.intr_unique = fc.req[r].intr_unique
    BY <1>0, <2>3, <2>4 DEF Req
  <2>6. e = [fc EXCEPT !.reqctr = u, !.req[r] = q] BY <2>4
  <2>7. e \in Conn /\ e.reqctr = u /\ e.req = [fc.req EXCEPT ![r] = q]
    <3>1. PICK c : c = [fc EXCEPT !.reqctr = u] OBVIOUS
    <3>2. c \in Conn /\ c.reqctr = u /\ c.req = fc.req BY <1>0, <2>3, <3>1 DEF Conn
    <3>3. e = [c EXCEPT !.req[r] = q] BY <2>6, <3>1
    <3> HIDE DEF e
    <3>4. e \in Conn BY <2>5, <3>2, <3>3, ConnReq
    <3>5. e.reqctr = c.reqctr /\ e.req = [c.req EXCEPT ![r] = q]
      BY <3>2, <3>3 DEF Conn
    <3> QED BY <3>2, <3>4, <3>5
  <2> HIDE DEF e
  <2>8. PICK c : c = queue_request(e, r) OBVIOUS
  <2>9. c \in Conn /\ SameNumbers(e, c)
    BY <2>7, <2>8, QueueRequestType, OperatorNumbers
  <2>10. fc' = [c EXCEPT !.req[r].count = @ + 1, !.req[r].asleep = TRUE] BY <2>2, <2>8
  <2>11. c.req \in [Requests -> Req] BY <2>9, ConnFields
  <2>12. SameNumbers(c, fc') BY <2>9, <2>10, <2>11, ConnDomains DEF SameNumbers
  <2>13. SameNumbers(e, fc') BY <2>9, <2>12, SameNumbersTrans
  <2>14. /\ fc'.reqctr = u /\ fc'.req[r].unique = u
        /\ fc'.req[r].intr_unique = fc.req[r].intr_unique
        /\ \A s \in Requests : s # r =>
             /\ fc'.req[s].unique = fc.req[s].unique
             /\ fc'.req[s].intr_unique = fc.req[s].intr_unique
    BY <1>0, <2>5, <2>7, <2>13 DEF SameNumbers
  <2>15. \A s \in Requests, i \in BOOLEAN : IdIn(fc', s, i) # IdIn(fc, s, i) =>
          s = r /\ i = FALSE /\ IdIn(fc', s, i) = u
    BY <2>14 DEF IdIn
  <2>16. fc.reqctr \in Int BY <1>0, ConnFields
  <2> QED BY <2>1, <2>14, <2>15, <2>16 DEF Given
<1>5. ASSUME RequestSendRefused(r) \/ WakeKill(r) \/ WakeForced(r) \/ WakeUnlock(r)
      PROVE  SameNumbers(fc, fc')
  <2>1. CASE LeaveWait(r) BY <1>0, <2>1, AsleepNumbers DEF LeaveWait
  <2>2. CASE BailOut(r)
    <3>1. PICK c : c = list_del(fc, r) OBVIOUS
    <3>2. c \in Conn BY <1>0, <3>1, ListDelType
    <3>3. SameNumbers(fc, c) BY <1>0, <3>1, ConnDomains DEF list_del, SameNumbers
    <3>4. fc' = [c EXCEPT !.req[r].count = @ - 1, !.req[r].asleep = FALSE,
                          !.req[r].error = "EINTR"]
      BY <2>2, <3>1 DEF BailOut
    <3>5. SameNumbers(c, fc') BY <3>2, <3>4, ConnDomains DEF SameNumbers
    <3> QED BY <3>3, <3>5, SameNumbersTrans
  <2>3. CASE WaitOut(r) BY <1>0, <2>3, AsleepNumbers DEF WaitOut
  <2>4. CASE fc' = [fc EXCEPT !.req[r].error = "ENOTCONN"]
    BY <1>0, <2>4, ConnDomains DEF SameNumbers
  <2>5. CASE UNCHANGED fc BY <2>5 DEF SameNumbers
  <2> QED BY <1>5, <2>1, <2>2, <2>3, <2>4, <2>5
          DEF RequestSendRefused, WakeKill, WakeForced, WakeUnlock
<1>6. ASSUME WakeIntr(r) PROVE SameNumbers(fc, fc')
  <2>1. CASE fc' = Interrupted(fc, r) BY <1>0, <2>1, OperatorNumbers
  <2>2. CASE LeaveWait(r) BY <1>0, <2>2, AsleepNumbers DEF LeaveWait
  <2> QED BY <1>6, <2>1, <2>2 DEF WakeIntr
<1>7. ASSUME PutRequest(r) \/ SendBackgroundEnd(r) PROVE SameNumbers(fc, fc')
  BY <1>0, <1>7, OperatorNumbers DEF PutRequest, SendBackgroundEnd
<1>8. ASSUME SendBackground(r) PROVE Given(fc, fc')
  <2> DEFINE n == fc.num_background + 1
             q == [fc.req[r] EXCEPT !.background = TRUE]
             bl == IF n = fc.max_background THEN TRUE ELSE fc.blocked
             cg == IF n = CongestionThreshold THEN TRUE ELSE fc.congested
             b == Append(fc.bg_queue, r)
             e == [fc EXCEPT !.req[r] = q, !.num_background = n, !.blocked = bl,
                             !.congested = cg, !.bg_queue = b]
  <2>1. q \in Req /\ q.unique = fc.req[r].unique /\ q.intr_unique = fc.req[r].intr_unique
    BY <1>0 DEF Req
  <2>2. n \in Int /\ b \in Seq(Requests) BY <1>0, ConnFields
  <2>3. bl \in BOOLEAN /\ cg \in BOOLEAN BY <1>0, ConnFields, Zenon
  <2>4. fc' = flush_bg_queue(e)
    BY <1>8 DEF SendBackground, fuse_request_send_nowait_locked
  <2>5. Len(b) = Len(fc.bg_queue) + 1 BY <1>0, ConnFields, LenProperties
  <2> HIDE DEF n, q, bl, cg, b
  <2>6. e \in Conn BY <1>0, <2>1, <2>2, <2>3 DEF Conn
  <2>7. SameNumbers(fc, e) /\ e.bg_queue = b BY <1>0, <2>1, ConnDomains DEF SameNumbers
  <2> HIDE DEF e
  <2>8. e.reqctr + Len(e.bg_queue) <= UniqueMax
    <3>1. e.reqctr = fc.reqctr BY <2>7 DEF SameNumbers
    <3> QED BY <1>a, <2>5, <2>7, <3>1 DEF FarFromEnd
  <2> QED BY <2>4, <2>6, <2>7, <2>8, FlushGiven, SameThenGiven
<1>9. ASSUME SendBackgroundRefused(r) PROVE Given(fc, fc')
  <2> DEFINE e == [fc EXCEPT !.req[r].error = "ENOTCONN"]
  <2>1. SameNumbers(fc, e) /\ e.bg_queue = fc.bg_queue
    BY <1>0, ConnDomains DEF SameNumbers
  <2>2. e \in Conn /\ Len(e.bg_queue) <= Len(fc.bg_queue)
    BY <1>0, <1>a, <2>1, ErrorUpdate, Errors
  <2>3. fc' = request_end(e, r) BY <1>9 DEF SendBackgroundRefused
  <2> QED BY <1>0, <1>a, <2>1, <2>2, <2>3, EndGiven
<1>10. ASSUME SendNotifyReply(r) PROVE SameNumbers(fc, fc')
  <2>1. CASE fc' = queue_request(fc, r) BY <1>0, <2>1, OperatorNumbers
  <2>2. CASE fc' = [fc EXCEPT !.req[r].ended = @ + 1]
    BY <1>0, <2>2, ConnDomains DEF SameNumbers
  <2> QED BY <1>10, <2>1, <2>2 DEF SendNotifyReply
<1>11. ASSUME Signal(r) PROVE SameNumbers(fc, fc') BY <1>11 DEF Signal, SameNumbers
<1> QED
  BY <1>0, <1>2, <1>3, <1>4, <1>5, <1>6, <1>7, <1>8, <1>9, <1>10, <1>11, SameGiven DEF Caller

\* What the daemon is given has an id that was given.
NewMessages ==
  \A m \in inbox' :
    m \in inbox \/ \E r \in Requests, i \in BOOLEAN : m.unique = IdOf(r, i)'

LEMMA RoomLeft ==
  ASSUME Inv, FarFromEnd
  PROVE  Room(fc) /\ fc.reqctr \in Int /\ fc.reqctr + 1 <= UniqueMax
<1>1. fc.reqctr \in Int /\ Len(fc.bg_queue) \in Nat /\ UniqueMax \in Int
  BY InvTypes, ConnFields, LenProperties, BoundAssumption
<1> QED BY <1>1 DEF FarFromEnd, Room

LEMMA ReadInterruptGiven ==
  ASSUME Inv, NEW d \in Thread, ReadInterrupt(d), FarFromEnd
  PROVE  Given(fc, fc') /\ NewMessages
<1> DEFINE u == fuse_get_unique(fc.reqctr, 1)
<1>1. PICK r : r = Head(fc.interrupts) OBVIOUS
<1>2. fc \in Conn /\ fc.req \in [Requests -> Req] BY InvTypes
<1>3. r \in Requests BY <1>1, <1>2, ConnFields, TailMember DEF ReadInterrupt
<1>4. fc' = [fc EXCEPT !.interrupts = Tail(@), !.reqctr = u, !.req[r].intr_unique = u]
  BY <1>1 DEF ReadInterrupt
<1>5. \A m \in inbox' : m \in inbox \/ m.unique = u BY DEF ReadInterrupt
<1>6. u = fc.reqctr + 1 BY <1>2, RoomLeft, NextId
<1> HIDE DEF u
<1>7. /\ fc'.reqctr = u /\ fc'.req[r].intr_unique = u
      /\ fc'.req[r].unique = fc.req[r].unique
      /\ \A s \in Requests : s # r => fc'.req[s] = fc.req[s]
  BY <1>2, <1>3, <1>4 DEF Conn, Req
<1>8. \A s \in Requests, i \in BOOLEAN : IdIn(fc', s, i) # IdIn(fc, s, i) =>
        s = r /\ i = TRUE /\ IdIn(fc', s, i) = u
  BY <1>7 DEF IdIn
<1>9. Given(fc, fc') BY <1>6, <1>7, <1>8, RoomLeft DEF Given
<1>10. IdOf(r, TRUE)' = u BY <1>7 DEF IdOf
<1> QED BY <1>3, <1>5, <1>9, <1>10 DEF NewMessages

LEMMA ReadForgetGiven ==
  ASSUME Inv, NEW d \in Thread, ReadForget(d), FarFromEnd
  PROVE  Given(fc, fc')
<1> DEFINE u == fuse_get_unique(fc.reqctr, 1)
<1>1. fc \in Conn BY InvTypes
<1>2. fc'.reqctr = u /\ fc'.req = fc.req
  BY <1>1 DEF ReadForget, fuse_read_forget, dequeue_forget, Conn
<1>3. u = fc.reqctr + 1 BY <1>1, RoomLeft, NextId
<1> HIDE DEF u
<1>4. \A s \in Requests, i \in BOOLEAN : IdIn(fc', s, i) = IdIn(fc, s, i)
  BY <1>2 DEF IdIn
<1> QED BY <1>2, <1>3, <1>4, RoomLeft DEF Given

LEMMA TakeRequestNumbers ==
  ASSUME Inv, fc.pending # <<>>, NEW r, r = Head(fc.pending)
  PROVE  /\ r \in Requests /\ TakeRequest \in Conn /\ SameNumbers(fc, TakeRequest)
         /\ Len(TakeRequest.bg_queue) <= Len(fc.bg_queue)
<1>1. fc \in Conn /\ fc.req \in [Requests -> Req] BY InvTypes
<1>2. TypeInv /\ Good(fc) BY InvTypes DEF Inv
<1>3. r \in Requests /\ TakeRequest \in Conn BY <1>2, TakeRequestEffect DEF Good
<1>4. /\ TakeRequest.bg_queue = Del(fc.bg_queue, r)
      /\ SameNumbers(fc, TakeRequest)
  <2>1. TakeRequest = [list_del(fc, r) EXCEPT !.io = @ \cup {r}, !.req[r].state = "READING",
                                             !.forget_batch = NextBatch]
    BY DEF TakeRequest
  <2>2. PICK e : e = list_del(fc, r) OBVIOUS
  <2>3. e \in Conn /\ e.req = fc.req /\ e.bg_queue = Del(fc.bg_queue, r)
    BY <1>1, <1>3, <2>2, ListDelFields
  <2>4. e.reqctr = fc.reqctr BY <1>1, <2>2 DEF list_del, Conn
  <2>5. PICK n : n = NextBatch OBVIOUS
  <2>6. TakeRequest = [e EXCEPT !.io = @ \cup {r}, !.req[r].state = "READING",
                                !.forget_batch = n]
    BY <2>1, <2>2, <2>5
  <2>7. PICK q : q = [fc.req[r] EXCEPT !.state = "READING"] OBVIOUS
  <2>8. q.unique = fc.req[r].unique /\ q.intr_unique = fc.req[r].intr_unique
    BY <1>1, <1>3, <2>7 DEF Req
  <2>9. TakeRequest = [e EXCEPT !.io = @ \cup {r}, !.req[r] = q, !.forget_batch = n]
    BY <2>3, <2>6, <2>7
  <2>10. /\ TakeRequest.reqctr = e.reqctr /\ TakeRequest.bg_queue = e.bg_queue
         /\ TakeRequest.req = [e.req EXCEPT ![r] = q]
    BY <2>3, <2>9 DEF Conn
  <2> QED BY <1>1, <1>3, <2>3, <2>4, <2>8, <2>10 DEF SameNumbers
<1>5. Len(Del(fc.bg_queue, r)) <= Len(fc.bg_queue) BY <1>1, ConnFields, DelShorter
<1> QED BY <1>3, <1>4, <1>5

LEMMA ReadTakesGiven ==
  ASSUME Inv, NEW d \in Thread, ReadRequest(d) \/ ReadTooLarge(d), FarFromEnd
  PROVE  Given(fc, fc')
<1>1. fc.pending # <<>> BY DEF ReadRequest, ReadTooLarge, ReadyToRead
<1>2. PICK r : r = Head(fc.pending) OBVIOUS
<1> DEFINE t == TakeRequest
<1>3. fc \in Conn /\ Room(fc) BY InvTypes, RoomLeft
<1>4. /\ r \in Requests /\ t \in Conn /\ SameNumbers(fc, t)
      /\ Len(t.bg_queue) <= Len(fc.bg_queue)
  BY <1>1, <1>2, TakeRequestNumbers
<1>5. CASE ReadRequest(d)
  <2>1. fc' = t BY <1>5 DEF ReadRequest
  <2> QED BY <1>3, <1>4, <2>1, SameGiven
<1>6. CASE ReadTooLarge(d)
  <2> DEFINE e == [t EXCEPT !.req[r].error = "EIO"]
  <2>1. fc' = request_end(e, r) BY <1>2, <1>6 DEF ReadTooLarge, EndBy
  <2> HIDE DEF t
  <2>2. t.req \in [Requests -> Req] BY <1>4, ConnFields
  <2>3. e \in Conn BY <1>4, ErrorUpdate, Errors
  <2>4. e.bg_queue = t.bg_queue /\ SameNumbers(t, e)
    BY <1>4, <2>2, ConnDomains DEF SameNumbers
  <2>5. SameNumbers(fc, e) BY <1>4, <2>4 DEF SameNumbers
  <2> QED BY <1>3, <1>4, <2>1, <2>3, <2>4, <2>5, EndGiven
<1> QED BY <1>5, <1>6

LEMMA LockNumbers ==
  ASSUME NEW c \in Conn, NEW r \in Requests, NEW b \in BOOLEAN
  PROVE  /\ [c EXCEPT !.req[r].locked = b] \in Conn
         /\ SameNumbers(c, [c EXCEPT !.req[r].locked = b])
         /\ [c EXCEPT !.req[r].locked = b].bg_queue = c.bg_queue
<1>1. c.req \in [Requests -> Req] BY ConnFields
<1>2. /\ SameNumbers(c, [c EXCEPT !.req[r].locked = b])
      /\ [c EXCEPT !.req[r].locked = b].bg_queue = c.bg_queue
  BY <1>1, ConnDomains DEF SameNumbers
<1> QED BY <1>2, LockedUpdate

LEMMA ErrorNumbers ==
  ASSUME NEW c \in Conn, NEW r \in Requests, NEW w \in Error
  PROVE  /\ [c EXCEPT !.req[r].error = w] \in Conn
         /\ SameNumbers(c, [c EXCEPT !.req[r].error = w])
         /\ [c EXCEPT !.req[r].error = w].bg_queue = c.bg_queue
<1>1. c.req \in [Requests -> Req] BY ConnFields
<1>2. /\ SameNumbers(c, [c EXCEPT !.req[r].error = w])
      /\ [c EXCEPT !.req[r].error = w].bg_queue = c.bg_queue
  BY <1>1, ConnDomains DEF SameNumbers
<1> QED BY <1>2, ErrorUpdate

LEMMA CopyGiven ==
  ASSUME Inv, NEW d \in Thread,
         lock_request(d) \/ unlock_request(d) \/ CopyFail(d) \/ WrongLength(d) \/ ThreadEnd(d)
  PROVE  SameNumbers(fc, fc') /\ inbox' = inbox
<1>1. fc \in Conn /\ TypeInv BY InvTypes DEF Inv
<1>2. PICK r : r = thread[d].req OBVIOUS
<1>3. CASE CopyFail(d) \/ WrongLength(d) BY <1>3 DEF CopyFail, WrongLength, SameNumbers
<1>4. CASE lock_request(d)
  <2>1. r \in Requests BY <1>1, <1>2, <1>4, ThreadRequest DEF lock_request, Copying
  <2>2. fc' = fc \/ fc' = [fc EXCEPT !.req[r].locked = TRUE]
    BY <1>2, <1>4 DEF lock_request
  <2>3. SameNumbers(fc, fc) BY DEF SameNumbers
  <2> QED BY <1>1, <1>4, <2>1, <2>2, <2>3, LockNumbers DEF lock_request
<1>5. CASE unlock_request(d)
  <2>1. r \in Requests BY <1>1, <1>2, <1>5, ThreadRequest DEF unlock_request, Copying
  <2>2. PICK c : c = [fc EXCEPT !.req[r].locked = FALSE] OBVIOUS
  <2>3. fc' = wake_up(c, r) \/ fc' = c BY <1>2, <1>5, <2>2 DEF unlock_request
  <2>4. c \in Conn /\ SameNumbers(fc, c) BY <1>1, <2>1, <2>2, LockNumbers
  <2>5. SameNumbers(c, wake_up(c, r)) BY <2>1, <2>4, OperatorNumbers
  <2> QED BY <1>5, <2>3, <2>4, <2>5, SameNumbersTrans DEF unlock_request
<1>6. CASE ThreadEnd(d)
  <2>1. r \in Requests /\ thread[d].end \in BOOLEAN
    BY <1>1, <1>2, <1>6, ThreadRequest DEF ThreadEnd
  <2>2. fc' = EndTail(fc, r, thread[d].end) BY <1>2, <1>6 DEF ThreadEnd
  <2> QED BY <1>1, <1>6, <2>1, <2>2, OperatorNumbers DEF ThreadEnd
<1> QED BY <1>3, <1>4, <1>5, <1>6

LEMMA FinishGiven ==
  ASSUME Inv, NEW d \in Thread, ReadFinish(d) \/ WriteFinish(d), FarFromEnd
  PROVE  Given(fc, fc') /\ NewMessages
<1>1. fc \in Conn /\ TypeInv /\ Room(fc) BY InvTypes, RoomLeft DEF Inv
<1>2. PICK r : r = thread[d].req OBVIOUS
<1>3. r \in Requests
  BY <1>1, <1>2, ThreadRequest DEF ReadFinish, WriteFinish, CopyOver
<1>4. PICK c : c = [fc EXCEPT !.req[r].locked = FALSE] OBVIOUS
<1>5. PICK e : e = [c EXCEPT !.req[r].error = "EIO"] OBVIOUS
<1>6. c \in Conn /\ SameNumbers(fc, c) /\ c.bg_queue = fc.bg_queue
  BY <1>1, <1>3, <1>4, LockNumbers
<1>7. e \in Conn /\ SameNumbers(fc, e) /\ e.bg_queue = fc.bg_queue
  BY <1>3, <1>5, <1>6, ErrorNumbers, Errors, SameNumbersTrans
<1>8. Len(fc.bg_queue) <= Len(fc.bg_queue) BY <1>1, ConnFields, LenProperties
<1>9. \/ (fc' = request_end(c, r) \/ fc' = request_end(e, r)) /\ inbox' = inbox
      \/ /\ fc' = Delivered(c, r)
         /\ inbox' = inbox \cup {[req |-> r, unique |-> fc.req[r].unique, intr |-> FALSE]}
  BY <1>2, <1>4, <1>5 DEF ReadFinish, WriteFinish, EndBy
<1>10. CASE (fc' = request_end(c, r) \/ fc' = request_end(e, r)) /\ inbox' = inbox
  <2>1. Given(fc, request_end(c, r)) BY <1>1, <1>3, <1>6, <1>8, EndGiven
  <2>2. Given(fc, request_end(e, r)) BY <1>1, <1>3, <1>7, <1>8, EndGiven
  <2> QED BY <1>10, <2>1, <2>2 DEF NewMessages
<1>11. CASE /\ fc' = Delivered(c, r)
            /\ inbox' = inbox \cup
                 {[req |-> r, unique |-> fc.req[r].unique, intr |-> FALSE]}
  <2>1. SameNumbers(fc, fc')
    BY <1>3, <1>6, <1>11, OperatorNumbers, SameNumbersTrans
  <2>2. IdOf(r, FALSE)' = fc.req[r].unique BY <1>3, <2>1 DEF SameNumbers, IdOf
  <2>3. \A m \in inbox' : m \in inbox \/ m.unique = fc.req[r].unique BY <1>11
  <2>4. NewMessages BY <1>3, <2>2, <2>3 DEF NewMessages
  <2> QED BY <1>1, <2>1, <2>4, SameGiven
<1> QED BY <1>9, <1>10, <1>11

LEMMA WriteNumbers ==
  ASSUME Inv, NEW d \in Thread, NEW m, Write(d, m)
  PROVE  SameNumbers(fc, fc') /\ inbox' \subseteq inbox
<1>1. fc \in Conn BY InvTypes
<1>2. SameNumbers(fc, fc) BY DEF SameNumbers
<1>3. CASE WriteNoEntry(d, m) BY <1>2, <1>3 DEF WriteNoEntry, Writer
<1>4. CASE WriteInterruptReply(d, m)
  <2>1. PICK r \in Requests :
          /\ \/ fc' = [fc EXCEPT !.no_interrupt = TRUE]
             \/ fc' = queue_interrupt(fc, r)
             \/ fc' = fc
          /\ inbox' \subseteq inbox
    BY <1>4 DEF WriteInterruptReply, Found, Writer
  <2>2. SameNumbers(fc, [fc EXCEPT !.no_interrupt = TRUE])
    BY <1>1, ConnDomains DEF SameNumbers
  <2> QED BY <1>1, <1>2, <2>1, <2>2, OperatorNumbers
<1>5. CASE WriteReply(d, m)
  <2>1. PICK r \in Requests : fc' = Replied(fc, r) /\ inbox' \subseteq inbox
    BY <1>5 DEF WriteReply, Found, Writer
  <2> QED BY <1>1, <2>1, OperatorNumbers
<1> QED BY <1>3, <1>4, <1>5 DEF Write

LEMMA DaemonGiven ==
  ASSUME Inv, NEW d \in Thread, Daemon(d), FarFromEnd
  PROVE  Given(fc, fc') /\ NewMessages
<1>1. fc \in Conn BY InvTypes
<1>2. ASSUME NEW m \in inbox, Write(d, m) PROVE Given(fc, fc') /\ NewMessages
  BY <1>1, <1>2, WriteNumbers, SameGiven DEF NewMessages
<1>3. ASSUME NEW r \in NotifyReply, Retrieve(d, r) PROVE Given(fc, fc') /\ NewMessages
  <2>1. SameNumbers(fc, fc') BY <1>1, <1>3, ConnDomains DEF Retrieve, StartGet, SameNumbers
  <2> QED BY <1>1, <1>3, <2>1, SameGiven DEF Retrieve, StartGet, NewMessages
<1>4. CASE Inside(d)
  <2>1. CASE SameNumbers(fc, fc') /\ inbox' = inbox
    BY <1>1, <2>1, SameGiven DEF NewMessages
  <2> QED BY <1>4, <2>1, CopyGiven, FinishGiven DEF Inside
<1>5. CASE Read(d)
  <2>1. CASE ReadInterrupt(d) BY <2>1, ReadInterruptGiven
  <2>2. CASE ReadForget(d) \/ ReadRequest(d) \/ ReadTooLarge(d)
    <3>1. NewMessages
      BY <2>2 DEF ReadForget, ReadRequest, ReadTooLarge, ReadyToRead, NewMessages
    <3> QED BY <2>2, <3>1, ReadForgetGiven, ReadTakesGiven
  <2> QED BY <1>5, <2>1, <2>2 DEF Read
<1> QED BY <1>2, <1>3, <1>4, <1>5 DEF Daemon

LEMMA AbortedNumbers ==
  ASSUME NEW c \in Conn, NEW r \in Requests, NEW n, NEW b
  PROVE  /\ SameNumbers(c, [c EXCEPT !.req[r].aborted = TRUE,
                                     !.req[r].error = "ECONNABORTED",
                                     !.req[r].state = "FINISHED", !.req[r].asleep = FALSE])
         /\ SameNumbers(c, [c EXCEPT !.req[r].end = FALSE, !.req[r].count = n,
                                     !.req[r].asleep = b])
<1>1. c.req \in [Requests -> Req] BY ConnFields
<1>2. PICK f : f = c.req OBVIOUS
<1> DEFINE p == [f[r] EXCEPT !.aborted = TRUE, !.error = "ECONNABORTED",
                             !.state = "FINISHED", !.asleep = FALSE]
           q == [f[r] EXCEPT !.end = FALSE, !.count = n, !.asleep = b]
<1>3. [c EXCEPT !.req[r].aborted = TRUE, !.req[r].error = "ECONNABORTED",
                !.req[r].state = "FINISHED", !.req[r].asleep = FALSE]
        = [c EXCEPT !.req[r] = p]
  BY <1>2, ZenonT(40)
<1>4. [c EXCEPT !.req[r].end = FALSE, !.req[r].count = n, !.req[r].asleep = b]
        = [c EXCEPT !.req[r] = q]
  BY <1>2, ZenonT(40)
<1>5. p.unique = f[r].unique /\ p.intr_unique = f[r].intr_unique BY <1>1, <1>2 DEF Req
<1>6. q.unique = f[r].unique /\ q.intr_unique = f[r].intr_unique BY <1>1, <1>2 DEF Req
<1> HIDE DEF p, q
<1>7. SameNumbers(c, [c EXCEPT !.req[r] = p]) BY <1>1, <1>2, <1>5, ConnDomains DEF SameNumbers
<1>8. SameNumbers(c, [c EXCEPT !.req[r] = q]) BY <1>1, <1>2, <1>6, ConnDomains DEF SameNumbers
<1> QED BY <1>3, <1>4, <1>7, <1>8

LEMMA AbortIoNumbers ==
  ASSUME Inv, NEW r \in Requests, AbortIo(r)
  PROVE  SameNumbers(fc, fc') /\ inbox' = inbox
<1>1. fc \in Conn /\ TypeInv BY InvTypes DEF Inv
<1>2. PICK c : c = list_del(fc, r) OBVIOUS
<1>3. c \in Conn /\ c.req = fc.req /\ c.reqctr = fc.reqctr
  <2>1. c \in Conn /\ c.req = fc.req BY <1>1, <1>2, ListDelFields
  <2>2. c.reqctr = fc.reqctr BY <1>1, <1>2 DEF list_del, Conn
  <2> QED BY <2>1, <2>2
<1>4. SameNumbers(fc, c) BY <1>3 DEF SameNumbers
<1>5. PICK a : a = Aborted(r) OBVIOUS
<1>6. a \in Conn BY <1>1, <1>5, AbortedType
<1>7. SameNumbers(c, a) BY <1>2, <1>3, <1>5, AbortedNumbers DEF Aborted
<1>8. SameNumbers(a, AbortedHeld(r)) BY <1>5, <1>6, AbortedNumbers DEF AbortedHeld
<1> QED BY <1>4, <1>5, <1>7, <1>8, SameNumbersTrans DEF AbortIo

LEMMA AbortGiven ==
  ASSUME Inv, Abort, FarFromEnd
  PROVE  Given(fc, fc') /\ NewMessages
<1>1. fc \in Conn /\ fc.req \in [Requests -> Req] /\ TypeInv /\ Room(fc)
  BY InvTypes, RoomLeft DEF Inv
<1>2. CASE SameNumbers(fc, fc') /\ inbox' = inbox
  BY <1>1, <1>2, SameGiven DEF NewMessages
<1>3. CASE AbortStart \/ AbortDone
  <2>1. SameNumbers(fc, fc') BY <1>1, <1>3, ConnDomains DEF AbortStart, AbortDone, SameNumbers
  <2> QED BY <1>2, <1>3, <2>1 DEF AbortStart, AbortDone
<1>4. CASE AbortIoEnd
  <2>1. PICK r : r = abort.req OBVIOUS
  <2>2. r \in Requests BY <1>1, <1>4, <2>1 DEF AbortIoEnd, TypeInv, AbortHolds
  <2>3. PICK c : c = [fc EXCEPT !.req[r].ended = @ + 1] OBVIOUS
  <2>4. fc' = fuse_put_request(c, r) BY <1>4, <2>1, <2>3 DEF AbortIoEnd
  <2>5. PICK q : q = [fc.req[r] EXCEPT !.ended = @ + 1] OBVIOUS
  <2>6. q \in Req /\ q.unique = fc.req[r].unique /\ q.intr_unique = fc.req[r].intr_unique
    BY <1>1, <2>2, <2>5 DEF Req
  <2>7. c = [fc EXCEPT !.req[r] = q] BY <2>3, <2>5
  <2>8. c \in Conn BY <1>1, <2>2, <2>6, <2>7, ConnReq
  <2>9. SameNumbers(fc, c) BY <1>1, <2>2, <2>6, <2>7, ConnDomains DEF SameNumbers
  <2> QED BY <1>2, <1>4, <2>2, <2>4, <2>8, <2>9, OperatorNumbers, SameNumbersTrans
          DEF AbortIoEnd
<1>5. CASE AbortQueued
  <2>1. PICK c : c = [fc EXCEPT !.max_background = UintMax] OBVIOUS
  <2>2. /\ c \in Conn /\ SameNumbers(fc, c) /\ c.reqctr = fc.reqctr
        /\ c.bg_queue = fc.bg_queue
    <3>1. c \in Conn BY <1>1, <2>1 DEF Conn
    <3> QED BY <1>1, <2>1, <3>1, ConnDomains DEF SameNumbers
  <2>3. c.reqctr + Len(c.bg_queue) <= UniqueMax BY <1>1, <2>2 DEF Room
  <2>4. fc' = flush_bg_queue(c) /\ inbox' = inbox BY <1>5, <2>1 DEF AbortQueued
  <2> QED BY <2>2, <2>3, <2>4, FlushGiven, SameThenGiven DEF NewMessages
<1>6. ASSUME NEW r \in Requests, NEW next, AbortEnd(r, next)
      PROVE  Given(fc, fc') /\ NewMessages
  <2>1. PICK e : e = [fc EXCEPT !.req[r].error = "ECONNABORTED"] OBVIOUS
  <2>2. fc' = request_end(e, r) /\ inbox' = inbox BY <1>6, <2>1 DEF AbortEnd
  <2>3. e \in Conn /\ SameNumbers(fc, e) /\ e.bg_queue = fc.bg_queue
    BY <1>1, <2>1, ErrorNumbers, Errors
  <2>4. Len(e.bg_queue) <= Len(fc.bg_queue) BY <1>1, <2>3, ConnFields, LenProperties
  <2> QED BY <1>1, <2>2, <2>3, <2>4, EndGiven DEF NewMessages
<1>7. CASE AbortPending \/ AbortProcessing
  <2>1. fc.pending # <<>> => Head(fc.pending) \in Requests BY <1>1, ConnFields
  <2>2. fc.processing \subseteq Requests BY <1>1, ConnFields
  <2> QED BY <1>6, <1>7, <2>1, <2>2 DEF AbortPending, AbortProcessing
<1>8. ASSUME NEW r \in Requests, AbortIo(r) PROVE Given(fc, fc') /\ NewMessages
  BY <1>2, <1>8, AbortIoNumbers
<1>9. ASSUME AbortTail("end_pending", "pending") \/ AbortTail("end_processing", "processing")
      PROVE  Given(fc, fc') /\ NewMessages
  <2>1. abort.req \in Requests /\ abort.end \in BOOLEAN
    BY <1>1, <1>9 DEF AbortTail, TypeInv, TypeOK, AbortHolds, AbortState
  <2>2. SameNumbers(fc, fc') /\ inbox' = inbox
    BY <1>1, <1>9, <2>1, OperatorNumbers DEF AbortTail
  <2> QED BY <1>2, <2>2
<1> QED BY <1>3, <1>4, <1>5, <1>7, <1>8, <1>9 DEF Abort, AbortStep

LEMMA NextGiven ==
  ASSUME Inv, FarFromEnd, Next
  PROVE  Given(fc, fc') /\ NewMessages
<1>1. fc \in Conn /\ TypeInv BY InvTypes DEF Inv
<1>2. CASE Abort BY <1>2, AbortGiven
<1>3. ASSUME Quiet \/ \E f \in Forget : QueueForget(f)
      PROVE  Given(fc, fc') /\ NewMessages
  <2>1. SameNumbers(fc, fc')
    BY <1>1, <1>3, ConnDomains DEF Quiet, QueueForget, vars, SameNumbers
  <2> QED BY <1>1, <1>3, <2>1, SameGiven DEF Quiet, QueueForget, vars, NewMessages
<1>4. ASSUME NEW r \in Requests, Caller(r) PROVE Given(fc, fc') /\ NewMessages
  BY <1>1, <1>4, CallerGiven DEF NewMessages
<1>5. ASSUME NEW d \in Thread, Daemon(d) PROVE Given(fc, fc') /\ NewMessages
  BY <1>5, DaemonGiven
<1> QED BY <1>2, <1>3, <1>4, <1>5 DEF Next

\* Every id was given by the counter.
Below ==
  /\ \A r \in Requests, i \in BOOLEAN : IdOf(r, i) <= fc.reqctr
  /\ \A m \in inbox : m.unique <= fc.reqctr

LEMMA IdTypes ==
  ASSUME Inv
  PROVE  /\ fc.reqctr \in Int /\ \A r \in Requests, i \in BOOLEAN : IdOf(r, i) \in Int
         /\ \A m \in inbox : m.unique \in Int
<1>1. fc.reqctr \in Int /\ fc.req \in [Requests -> Req] BY InvTypes
<1>2. \A r \in Requests, i \in BOOLEAN : IdOf(r, i) \in Int BY <1>1 DEF IdOf, Req
<1>3. \A m \in inbox : m.unique \in Int BY InvTypes DEF TypeOK, Message
<1> QED BY <1>1, <1>2, <1>3

LEMMA BelowInit == Init => Below
<1> SUFFICES ASSUME Init PROVE Below OBVIOUS
<1>1. StartCtr \in Nat BY BoundAssumption
<1>2. inbox = {} /\ fc.reqctr = StartCtr /\ fc.req = [r \in Requests |-> NewReq(r)]
  BY DEF Init
<1>3. \A r \in Requests, i \in BOOLEAN : IdOf(r, i) = 0 BY <1>2 DEF IdOf, NewReq
<1> QED BY <1>1, <1>2, <1>3 DEF Below

LEMMA IdIs ==
  /\ \A r, i : IdOf(r, i) = IdIn(fc, r, i)
  /\ \A r, i : IdOf(r, i)' = IdIn(fc', r, i)
BY DEF IdOf, IdIn

LEMMA IdTypesThen ==
  ASSUME Inv'
  PROVE  /\ fc'.reqctr \in Int
         /\ \A r \in Requests, i \in BOOLEAN : IdIn(fc', r, i) \in Int
<1>1. TypeOK' BY DEF Inv, TypeInv
<1>2. fc' \in Conn BY <1>1 DEF TypeOK
<1>3. fc'.reqctr \in Int /\ fc'.req \in [Requests -> Req] BY <1>2, ConnFields
<1> QED BY <1>3 DEF IdIn, Req

LEMMA BelowStep ==
  ASSUME Inv, Inv', Below, Given(fc, fc'), NewMessages
  PROVE  Below' /\ IdsFresh
<1> DEFINE C == fc.reqctr
           D == fc'.reqctr
           New(r, i) == IdIn(fc', r, i)
           Old(r, i) == IdIn(fc, r, i)
<1>1. /\ C \in Int /\ D \in Int /\ C <= D
      /\ \A r \in Requests, i \in BOOLEAN : Old(r, i) \in Int /\ New(r, i) \in Int
      /\ \A m \in inbox : m.unique \in Int
  BY IdTypes, IdTypesThen, IdIs DEF Given
<1>2. \A r \in Requests, i \in BOOLEAN : Old(r, i) <= C BY IdIs DEF Below
<1>3. \A m \in inbox : m.unique <= C BY DEF Below
<1>4. \A r \in Requests, i \in BOOLEAN : New(r, i) # Old(r, i) => New(r, i) \in C + 1 .. D
  BY DEF Given
<1>5. \A r, s \in Requests, i, j \in BOOLEAN :
        New(r, i) # Old(r, i) /\ New(s, j) # Old(s, j) /\ New(r, i) = New(s, j)
        => r = s /\ i = j
  BY DEF Given
<1>6. \A m \in inbox' : m \in inbox \/ \E r \in Requests, i \in BOOLEAN : m.unique = New(r, i)
  BY IdIs DEF NewMessages
<1> HIDE DEF C, D, New, Old
<1>7. \A r \in Requests, i \in BOOLEAN : New(r, i) <= D BY <1>1, <1>2, <1>4
<1>8. \A m \in inbox' : m.unique <= D BY <1>1, <1>3, <1>6, <1>7
<1>9. Below' BY <1>7, <1>8, IdIs DEF Below, New, D
<1>10. ASSUME NEW r \in Requests, NEW i \in BOOLEAN, New(r, i) # Old(r, i)
       PROVE  /\ \A m \in inbox : m.unique # New(r, i)
              /\ \A s \in Requests, j \in BOOLEAN : New(s, j) = New(r, i) => s = r /\ j = i
  <2>1. New(r, i) > C BY <1>1, <1>4, <1>10
  <2>2. \A m \in inbox : m.unique # New(r, i) BY <1>1, <1>3, <2>1
  <2>3. \A s \in Requests, j \in BOOLEAN : New(s, j) = New(r, i) => New(s, j) # Old(s, j)
    BY <1>1, <1>2, <2>1
  <2> QED BY <1>5, <1>10, <2>2, <2>3
<1>11. IdsFresh BY <1>10, IdIs DEF IdsFresh, New, Old
<1> QED BY <1>9, <1>11

LEMMA BelowRest == Below /\ UNCHANGED vars => Below'
BY DEF vars, Below, IdOf

\* fuse_get_unique gives no id twice before its counter comes round: as long as there are
\* numbers left for what is queued, IdsFresh, the hypothesis of Lists and Answers, holds.
THEOREM FreshIds == Spec /\ []FarFromEnd => [][IdsFresh]_vars
<1>1. Inv /\ [Next]_vars => Inv' BY InvStep DEF Result
<1>2. Inv /\ Inv' /\ Below /\ FarFromEnd /\ [Next]_vars => Below' /\ [IdsFresh]_vars
  BY NextGiven, BelowStep, BelowRest
<1> QED BY <1>1, <1>2, InvInit, BelowInit, PTL DEF Spec

\* What Lists and Answers say, of a connection whose counter has not come round: nobody
\* else's request is found by an answer, however late, before 2^64 ids were given.
THEOREM FirstRound ==
  Spec /\ []FarFromEnd => []ListsMatchState /\ []AnswersFindTheirRequest
BY FreshIds, Lists, Answers, PTL

-----------------------------------------------------------------------------
(***************************************************************************)
(* The counters.  What each of them counts is a finite set of requests,    *)
(* whether or not the requests ever made are; a step changes it by the     *)
(* request it works on, flush_bg_queue by the ones it releases.            *)
(***************************************************************************)
\* Requests whose caller waits for one, and requests a thread copies.
Getting == {s \in Requests : task[s] \in {"get_wait", "get_reserved"}}
Copied ==
  {s \in Requests : \E d \in Thread : thread[d].pc \in {"read", "write"} /\ thread[d].req = s}

ChargedIn(c, W) ==
  {s \in Requests : c.req[s].background /\ (c.req[s].state = "FINISHED" => s \in W)}
CountedIn(c, G) ==
  {s \in Requests : s \in G \/ (c.req[s].waiting /\ c.req[s].count > 0)}

\* What the counters of connection c say, with W copied and G getting a request.
Tallied(c, W, G) ==
  /\ IsFiniteSet(ChargedIn(c, W)) /\ c.num_background = Cardinality(ChargedIn(c, W))
  /\ IsFiniteSet(CountedIn(c, G)) /\ c.num_waiting = Cardinality(CountedIn(c, G))
  /\ c.active_background + Len(c.bg_queue) = c.num_background
  /\ c.forget_batch \in (1 - RequestBatch) .. ForgetBatch

Balance == Tallied(fc, Copied, Getting)

LEMMA ChargedIs == Charged = ChargedIn(fc, Copied)
<1>1. ASSUME NEW s \in Requests
      PROVE  s \in Copied <=> \E d \in Busy(s) : thread[d].pc # "end"
  BY DEF Copied, Busy
<1> QED BY <1>1 DEF Charged, ChargedIn, Ended

LEMMA BalanceCounts == TypeOK /\ Balance => CountersExact
<1> SUFFICES ASSUME TypeOK, Balance PROVE CountersExact OBVIOUS
<1>1. fc \in Conn BY DEF TypeOK
<1>2. /\ fc.active_background \in Int /\ fc.num_background \in Int
      /\ Len(fc.bg_queue) \in Int
  BY <1>1, ConnFields, LenProperties
<1>3. fc.active_background = fc.num_background - Len(fc.bg_queue)
  BY <1>2 DEF Balance, Tallied
<1>4. CountedIn(fc, Getting) =
        {r \in Requests : task[r] \in {"get_wait", "get_reserved"}
                            \/ (fc.req[r].waiting /\ fc.req[r].count > 0)}
  BY DEF CountedIn, Getting
<1> QED BY <1>3, <1>4, ChargedIs DEF Balance, Tallied, CountersExact

\* A finite set that differs in one element, and what is counted of it.
LEMMA OneApart ==
  ASSUME NEW A, NEW B, NEW r, IsFiniteSet(A), B \ {r} = A \ {r},
         NEW n, n = Cardinality(A) + One(r \in B) - One(r \in A)
  PROVE  IsFiniteSet(B) /\ n = Cardinality(B)
<1>1. Cardinality(A) \in Nat BY FS_CardinalityType
<1>2. CASE r \in A /\ r \in B
  <2>1. B = A BY <1>2
  <2> QED BY <1>1, <1>2, <2>1 DEF One
<1>3. CASE r \notin A /\ r \notin B
  <2>1. B = A BY <1>3
  <2> QED BY <1>1, <1>3, <2>1 DEF One
<1>4. CASE r \notin A /\ r \in B
  <2>1. B = A \cup {r} BY <1>4
  <2>2. IsFiniteSet(B) /\ Cardinality(B) = Cardinality(A) + 1
    BY <1>4, <2>1, FS_AddElement
  <2> QED BY <1>1, <1>4, <2>2 DEF One
<1>5. CASE r \in A /\ r \notin B
  <2>1. B = A \ {r} BY <1>5
  <2>2. IsFiniteSet(B) /\ Cardinality(B) = Cardinality(A) - 1
    BY <1>5, <2>1, FS_RemoveElement
  <2> QED BY <1>1, <1>5, <2>2 DEF One
<1> QED BY <1>2, <1>3, <1>4, <1>5

\* Nothing changes for other requests than r.
Elsewhere(c, d, W, V, G, H, r) ==
  /\ V \ {r} = W \ {r} /\ H \ {r} = G \ {r}
  /\ \A s \in Requests : s # r => d.req[s] = c.req[s]

\* The counters change by what r adds to them.
Accounted(c, d, W, V, G, H, r) ==
  /\ d.num_background =
       c.num_background + One(r \in ChargedIn(d, V)) - One(r \in ChargedIn(c, W))
  /\ d.num_waiting =
       c.num_waiting + One(r \in CountedIn(d, H)) - One(r \in CountedIn(c, G))
  /\ d.active_background + Len(d.bg_queue) = d.num_background
  /\ d.forget_batch \in (1 - RequestBatch) .. ForgetBatch

LEMMA TalliedOne ==
  ASSUME NEW c, NEW d, NEW W, NEW V, NEW G, NEW H, NEW r, Tallied(c, W, G),
         Elsewhere(c, d, W, V, G, H, r), Accounted(c, d, W, V, G, H, r)
  PROVE  Tallied(d, V, H)
<1>0. /\ V \ {r} = W \ {r} /\ H \ {r} = G \ {r}
      /\ \A s \in Requests : s # r => d.req[s] = c.req[s]
  BY DEF Elsewhere
<1>1. \A s : s # r => (s \in V <=> s \in W) /\ (s \in H <=> s \in G) BY <1>0, Zenon
<1>2. ChargedIn(d, V) \ {r} = ChargedIn(c, W) \ {r} BY <1>0, <1>1 DEF ChargedIn
<1>3. CountedIn(d, H) \ {r} = CountedIn(c, G) \ {r} BY <1>0, <1>1 DEF CountedIn
<1>4. IsFiniteSet(ChargedIn(c, W)) /\ IsFiniteSet(CountedIn(c, G)) BY DEF Tallied
<1>5. d.num_background =
        Cardinality(ChargedIn(c, W)) + One(r \in ChargedIn(d, V)) - One(r \in ChargedIn(c, W))
  BY DEF Tallied, Accounted
<1>6. d.num_waiting =
        Cardinality(CountedIn(c, G)) + One(r \in CountedIn(d, H)) - One(r \in CountedIn(c, G))
  BY DEF Tallied, Accounted
<1>7. IsFiniteSet(ChargedIn(d, V)) /\ d.num_background = Cardinality(ChargedIn(d, V))
  BY <1>2, <1>4, <1>5, OneApart
<1>8. IsFiniteSet(CountedIn(d, H)) /\ d.num_waiting = Cardinality(CountedIn(d, H))
  BY <1>3, <1>4, <1>6, OneApart
<1> QED BY <1>7, <1>8 DEF Tallied, Accounted

\* No counter moves.
SameTally(c, d) ==
  /\ d.num_background = c.num_background /\ d.active_background = c.active_background
  /\ d.num_waiting = c.num_waiting /\ d.forget_batch = c.forget_batch
  /\ Len(d.bg_queue) = Len(c.bg_queue)

LEMMA SameTallyTrans ==
  ASSUME NEW c, NEW d, NEW e, SameTally(c, d), SameTally(d, e)
  PROVE  SameTally(c, e)
BY DEF SameTally

LEMMA TalliedSame ==
  ASSUME NEW c \in Conn, NEW d, NEW W, NEW V, NEW G, NEW H, NEW r, Tallied(c, W, G),
         Elsewhere(c, d, W, V, G, H, r), SameTally(c, d),
         r \in ChargedIn(d, V) <=> r \in ChargedIn(c, W),
         r \in CountedIn(d, H) <=> r \in CountedIn(c, G)
  PROVE  Tallied(d, V, H)
<1>1. c.num_background \in Int /\ c.num_waiting \in Int BY ConnFields
<1>2. /\ d.num_background = c.num_background /\ d.num_waiting = c.num_waiting
      /\ d.active_background + Len(d.bg_queue) = d.num_background
      /\ d.forget_batch \in (1 - RequestBatch) .. ForgetBatch
  BY DEF SameTally, Tallied
<1>3. /\ One(r \in ChargedIn(d, V)) = One(r \in ChargedIn(c, W))
      /\ One(r \in ChargedIn(c, W)) \in Int
  <2>1. CASE r \in ChargedIn(c, W) BY <2>1 DEF One
  <2>2. CASE r \notin ChargedIn(c, W) BY <2>2 DEF One
  <2> QED BY <2>1, <2>2
<1>4. /\ One(r \in CountedIn(d, H)) = One(r \in CountedIn(c, G))
      /\ One(r \in CountedIn(c, G)) \in Int
  <2>1. CASE r \in CountedIn(c, G) BY <2>1 DEF One
  <2>2. CASE r \notin CountedIn(c, G) BY <2>2 DEF One
  <2> QED BY <2>1, <2>2
<1>5. d.num_background =
        c.num_background + One(r \in ChargedIn(d, V)) - One(r \in ChargedIn(c, W))
  BY <1>1, <1>2, <1>3
<1>6. d.num_waiting =
        c.num_waiting + One(r \in CountedIn(d, H)) - One(r \in CountedIn(c, G))
  BY <1>1, <1>2, <1>4
<1>7. Accounted(c, d, W, V, G, H, r) BY <1>2, <1>5, <1>6 DEF Accounted
<1> QED BY <1>7, TalliedOne

LEMMA TalliedRest ==
  ASSUME NEW c, NEW d, NEW W, NEW G, Tallied(c, W, G), SameTally(c, d),
         \A s \in Requests : d.req[s] = c.req[s]
  PROVE  Tallied(d, W, G)
<1>1. ChargedIn(d, W) = ChargedIn(c, W) /\ CountedIn(d, G) = CountedIn(c, G)
  BY DEF ChargedIn, CountedIn
<1> QED BY <1>1 DEF Tallied, SameTally

\* flush_bg_queue releases requests that nobody counted before, or that were counted.
LEMMA FlushTally ==
  ASSUME NEW c, Good(c), NEW W, NEW G, Tallied(c, W, G),
         \A s \in Requests : Member(c.bg_queue, s) =>
           s \notin G /\ c.req[s].count > 0 /\ c.req[s].state # "FINISHED"
  PROVE  Tallied(flush_bg_queue(c), W, G)
<1> DEFINE d == flush_bg_queue(c)
           n == Moved(c)
           moved == SubSeq(c.bg_queue, 1, n)
           uncounted == {i \in 1 .. n : ~ c.req[moved[i]].waiting}
           New == {s \in Requests : Member(moved, s) /\ ~ c.req[s].waiting}
           f == [i \in uncounted |-> moved[i]]
<1>1. /\ c \in Conn /\ d \in Conn /\ c.req \in [Requests -> Req]
      /\ n \in Nat /\ n <= Len(c.bg_queue) /\ Len(c.bg_queue) \in Nat
      /\ c.bg_queue \in Seq(Requests) /\ NoDuplicate(c.bg_queue)
      /\ c.num_background \in Int /\ c.active_background \in Int /\ c.num_waiting \in Int
  <2>1. c \in Conn /\ NoDuplicate(c.bg_queue) BY DEF Good
  <2>2. d \in Conn BY <2>1, FlushType
  <2>3. n \in 0 .. Len(c.bg_queue) BY <2>1, MovedType
  <2>4. /\ c.req \in [Requests -> Req] /\ c.bg_queue \in Seq(Requests)
        /\ c.num_background \in Int /\ c.active_background \in Int /\ c.num_waiting \in Int
    BY <2>1, ConnFields
  <2> HIDE DEF d, n
  <2>5. Len(c.bg_queue) \in Nat BY <2>4, LenProperties
  <2> QED BY <2>1, <2>2, <2>3, <2>4, <2>5
<1>2. /\ d.num_background = c.num_background /\ d.forget_batch = c.forget_batch
      /\ d.active_background = c.active_background + n
      /\ d.bg_queue = SubSeq(c.bg_queue, n + 1, Len(c.bg_queue))
      /\ d.num_waiting = c.num_waiting + Cardinality(uncounted)
  <2>1. c \in Conn BY <1>1
  <2>2. /\ d.num_background = c.num_background /\ d.forget_batch = c.forget_batch
        /\ d.active_background = c.active_background + n
    BY <2>1 DEF flush_bg_queue, Moved, Conn
  <2>3. d.bg_queue = SubSeq(c.bg_queue, n + 1, Len(c.bg_queue))
    BY <2>1 DEF flush_bg_queue, Moved, Conn
  <2>4. d.num_waiting = c.num_waiting + Cardinality(uncounted)
    BY <2>1 DEF flush_bg_queue, Moved, Conn
  <2> QED BY <2>2, <2>3, <2>4
<1>3. Len(d.bg_queue) = Len(c.bg_queue) - n
  <2>1. n + 1 \in 1 .. Len(c.bg_queue) + 1 BY <1>1
  <2> HIDE DEF n, d
  <2> QED BY <1>1, <1>2, <2>1, SubSeqProperties
<1>4. /\ moved \in Seq(Requests) /\ Len(moved) = n /\ DOMAIN moved = 1 .. n
      /\ \A i \in 1 .. n : moved[i] = c.bg_queue[i]
  <2> HIDE DEF n
  <2> QED BY <1>1, SubSeqProperties
<1>5. \A s : Member(moved, s) => s \in Requests /\ Member(c.bg_queue, s)
  <2>1. DOMAIN c.bg_queue = 1 .. Len(c.bg_queue) BY <1>1
  <2> HIDE DEF n, moved
  <2> QED BY <1>1, <1>4, <2>1 DEF Member
<1>6. \A i, j \in 1 .. n : moved[i] = moved[j] => i = j
  <2>1. DOMAIN c.bg_queue = 1 .. Len(c.bg_queue) BY <1>1
  <2> HIDE DEF n, moved
  <2>2. \A i, j \in DOMAIN c.bg_queue : c.bg_queue[i] = c.bg_queue[j] => i = j
    BY <1>1 DEF NoDuplicate
  <2>3. \A i \in 1 .. n : i \in DOMAIN c.bg_queue /\ moved[i] = c.bg_queue[i]
    BY <1>1, <1>4, <2>1
  <2> QED BY <2>2, <2>3
<1>a. ASSUME NEW s \in Requests
      PROVE  d.req[s] = IF Member(moved, s)
                        THEN [c.req[s] EXCEPT !.state = "PENDING", !.waiting = TRUE,
                                !.unique = fuse_get_unique(c.reqctr,
                                             CHOOSE i \in 1 .. n : moved[i] = s)]
                        ELSE c.req[s]
  <2>1. c \in Conn BY <1>1
  <2> QED BY <2>1 DEF flush_bg_queue, Moved, Conn
<1>7. \A s \in Requests : ~ Member(moved, s) => d.req[s] = c.req[s]
  <2> HIDE DEF d, n, moved
  <2> QED BY <1>a
<1>8. ASSUME NEW s \in Requests, Member(moved, s)
      PROVE  /\ d.req[s].background = c.req[s].background
             /\ d.req[s].state # "FINISHED" /\ c.req[s].state # "FINISHED"
             /\ d.req[s].waiting /\ d.req[s].count = c.req[s].count /\ c.req[s].count > 0
             /\ s \notin G
  <2>1. c.req[s].count > 0 /\ c.req[s].state # "FINISHED" /\ s \notin G BY <1>5, <1>8
  <2>2. d.req[s] = [c.req[s] EXCEPT !.state = "PENDING", !.waiting = TRUE,
                      !.unique = fuse_get_unique(c.reqctr,
                                        CHOOSE i \in 1 .. n : moved[i] = s)]
    BY <1>a, <1>8
  <2>3. c.req[s] \in Req BY <1>1
  <2> HIDE DEF d, n, moved
  <2>4. /\ d.req[s].background = c.req[s].background /\ d.req[s].state = "PENDING"
        /\ d.req[s].waiting /\ d.req[s].count = c.req[s].count
    BY <2>2, <2>3 DEF Req
  <2> QED BY <2>1, <2>4
<1>9. IsFiniteSet(New) /\ Cardinality(New) = Cardinality(uncounted)
  <2>1. IsFiniteSet(uncounted)
    <3>1. uncounted \in SUBSET (1 .. n) OBVIOUS
    <3>2. IsFiniteSet(1 .. n) BY <1>1, FS_Interval
    <3> QED BY <3>1, <3>2, FS_Subset
  <2> HIDE DEF moved, n
  <2>2. f \in [uncounted -> New]
    <3>1. \A i \in uncounted : moved[i] \in New BY <1>4, <1>5 DEF Member
    <3> QED BY <3>1
  <2>3. \A i, j \in uncounted : f[i] = f[j] => i = j BY <1>6
  <2>4. \A s \in New : \E i \in uncounted : f[i] = s
    <3>1. \A s \in New : \E i \in 1 .. n : moved[i] = s BY <1>4 DEF Member
    <3> QED BY <3>1
  <2> HIDE DEF f, uncounted, New
  <2>5. f \in Bijection(uncounted, New)
    BY <2>2, <2>3, <2>4 DEF Bijection, Injection, Surjection, IsInjective
  <2>6. ExistsBijection(uncounted, New) BY <2>5 DEF ExistsBijection
  <2> QED BY <2>1, <2>6, FS_Bijection
<1> HIDE DEF d, n, moved, uncounted
<1>10. ChargedIn(d, W) = ChargedIn(c, W)
  <2>1. \A s \in Requests : s \in ChargedIn(d, W) <=> s \in ChargedIn(c, W)
    BY <1>7, <1>8 DEF ChargedIn
  <2> QED BY <2>1 DEF ChargedIn
<1>11. CountedIn(d, G) = CountedIn(c, G) \cup New
  <2>1. ASSUME NEW s \in Requests
        PROVE  s \in CountedIn(d, G) <=> s \in CountedIn(c, G) \/ s \in New
    BY <1>7, <1>8 DEF CountedIn
  <2> QED BY <2>1 DEF CountedIn
<1>12. CountedIn(c, G) \cap New = {}
  BY <1>8 DEF CountedIn
<1> HIDE DEF New
<1>13. /\ IsFiniteSet(CountedIn(d, G))
       /\ Cardinality(CountedIn(d, G)) = Cardinality(CountedIn(c, G)) + Cardinality(uncounted)
  <2>1. IsFiniteSet(CountedIn(c, G)) BY DEF Tallied
  <2>2. Cardinality(CountedIn(c, G)) \in Nat /\ Cardinality(New) \in Nat
    BY <1>9, <2>1, FS_CardinalityType
  <2>3. Cardinality(CountedIn(c, G) \cap New) = 0 BY <1>12, FS_EmptySet
  <2>4. /\ IsFiniteSet(CountedIn(c, G) \cup New)
        /\ Cardinality(CountedIn(c, G) \cup New) =
             Cardinality(CountedIn(c, G)) + Cardinality(New)
               - Cardinality(CountedIn(c, G) \cap New)
    BY <1>9, <2>1, FS_Union
  <2> QED BY <1>9, <1>11, <2>2, <2>3, <2>4
<1>14. d.active_background + Len(d.bg_queue) = d.num_background
  <2>1. c.active_background + Len(c.bg_queue) = c.num_background BY DEF Tallied
  <2> QED BY <1>1, <1>2, <1>3, <2>1
<1>15. Tallied(d, W, G) BY <1>2, <1>10, <1>13, <1>14 DEF Tallied
<1> QED BY <1>15 DEF d

-----------------------------------------------------------------------------
(***************************************************************************)
(* What the operators on a connection do to its counters.                  *)
(***************************************************************************)
LEMMA TallyDomains ==
  ASSUME NEW c \in Conn
  PROVE  /\ {"num_background", "active_background", "num_waiting", "forget_batch",
             "bg_queue", "req"} \subseteq DOMAIN c
         /\ DOMAIN c.req = Requests
<1>1. c.req \in [Requests -> Req] BY ConnFields
<1> QED BY <1>1 DEF Conn

LEMMA DelAbsent == ASSUME NEW s, NEW r, ~ Member(s, r) PROVE Del(s, r) = s
BY DEF Del

LEMMA ListDelTally ==
  ASSUME NEW c \in Conn, NEW r \in Requests, ~ Member(c.bg_queue, r)
  PROVE  SameTally(c, list_del(c, r))
<1>1. Del(c.bg_queue, r) = c.bg_queue BY DelAbsent
<1> QED BY <1>1, TallyDomains DEF SameTally, list_del

\* No record of a request is a counter.
LEMMA RecordTally ==
  ASSUME NEW c \in Conn, NEW f
  PROVE  SameTally(c, [c EXCEPT !.req = f])
BY TallyDomains DEF SameTally

LEMMA OperatorTally ==
  ASSUME NEW c \in Conn, NEW r \in Requests
  PROVE  /\ SameTally(c, queue_interrupt(c, r)) /\ SameTally(c, wake_up(c, r))
         /\ SameTally(c, Interrupted(c, r))
         /\ ~ Member(c.bg_queue, r) =>
              SameTally(c, Replied(c, r)) /\ SameTally(c, Delivered(c, r))
                /\ SameTally(c, Unlisted(c, r))
<1>1. SameTally(c, queue_interrupt(c, r)) BY TallyDomains DEF SameTally, queue_interrupt
<1>2. SameTally(c, wake_up(c, r)) BY TallyDomains DEF SameTally, wake_up
<1>3. SameTally(c, Interrupted(c, r))
  BY TallyDomains DEF SameTally, queue_interrupt, Interrupted
<1>4. ASSUME ~ Member(c.bg_queue, r)
      PROVE  /\ SameTally(c, Replied(c, r)) /\ SameTally(c, Delivered(c, r))
             /\ SameTally(c, Unlisted(c, r))
  <2>1. PICK e : e = list_del(c, r) OBVIOUS
  <2>2. e \in Conn /\ SameTally(c, e) BY <1>4, <2>1, ListDelType, ListDelTally
  <2>3. SameTally(e, Replied(c, r)) BY <2>1, <2>2, TallyDomains DEF SameTally, Replied
  <2>4. SameTally(e, Delivered(c, r))
    BY <2>1, <2>2, TallyDomains DEF SameTally, Delivered, queue_interrupt
  <2>5. SameTally(e, Unlisted(c, r)) BY <2>1, <2>2, TallyDomains DEF SameTally, Unlisted
  <2> QED BY <2>2, <2>3, <2>4, <2>5, SameTallyTrans
<1> QED BY <1>1, <1>2, <1>3, <1>4

LEMMA QueueRequestTally ==
  ASSUME NEW c \in Conn, NEW r \in Requests, NEW d, d = queue_request(c, r)
  PROVE  /\ d.num_background = c.num_background
         /\ d.active_background = c.active_background
         /\ d.forget_batch = c.forget_batch /\ d.bg_queue = c.bg_queue
         /\ d.num_waiting = IF c.req[r].waiting THEN c.num_waiting ELSE c.num_waiting + 1
BY TallyDomains DEF queue_request

LEMMA PutTally ==
  ASSUME NEW c \in Conn, NEW r \in Requests, NEW d, d = fuse_put_request(c, r)
  PROVE  /\ d.num_background = c.num_background
         /\ d.active_background = c.active_background
         /\ d.forget_batch = c.forget_batch /\ d.bg_queue = c.bg_queue
         /\ d.num_waiting = IF c.req[r].count = 1 /\ c.req[r].waiting
                            THEN c.num_waiting - 1 ELSE c.num_waiting
         /\ d.req[r].waiting = c.req[r].waiting
BY TallyDomains, ConnFields DEF fuse_put_request, Req

LEMMA EndTailTally ==
  ASSUME NEW c \in Conn, NEW r \in Requests, NEW end \in BOOLEAN, NEW d, d = EndTail(c, r, end)
  PROVE  /\ d.num_background = c.num_background
         /\ d.active_background = c.active_background
         /\ d.forget_batch = c.forget_batch /\ d.bg_queue = c.bg_queue
         /\ d.num_waiting = IF c.req[r].count = 1 /\ c.req[r].waiting
                            THEN c.num_waiting - 1 ELSE c.num_waiting
         /\ d.req[r].waiting = c.req[r].waiting
<1> DEFINE x == [c.req[r] EXCEPT !.asleep = FALSE]
           w == wake_up(c, r)
           y == [w.req[r] EXCEPT !.ended = IF end THEN @ + 1 ELSE @]
           e == [w EXCEPT !.req[r] = y]
<1>1. d = fuse_put_request(e, r) BY DEF EndTail
<1>2. c.req \in [Requests -> Req] /\ c.req[r] \in Req BY ConnFields
<1>3. w = [c EXCEPT !.req[r] = x] BY DEF wake_up
<1>4. x \in Req /\ x.count = c.req[r].count /\ x.waiting = c.req[r].waiting
  BY <1>2 DEF Req
<1> HIDE DEF w, x
<1>5. w \in Conn BY <1>3, <1>4, ConnReq
<1>6. SameTally(c, w) /\ w.bg_queue = c.bg_queue /\ w.req[r] = x
  BY <1>2, <1>3, TallyDomains DEF SameTally
<1>7. y \in Req /\ y.count = x.count /\ y.waiting = x.waiting BY <1>4, <1>6 DEF Req
<1>8. e \in Conn BY <1>5, <1>7, ConnReq
<1> HIDE DEF y
<1>9. SameTally(w, e) /\ e.bg_queue = w.bg_queue /\ e.req[r] = y
  BY <1>5, TallyDomains DEF SameTally
<1> HIDE DEF e
<1>10. /\ d.num_background = e.num_background
       /\ d.active_background = e.active_background
       /\ d.forget_batch = e.forget_batch /\ d.bg_queue = e.bg_queue
       /\ d.num_waiting = IF e.req[r].count = 1 /\ e.req[r].waiting
                          THEN e.num_waiting - 1 ELSE e.num_waiting
       /\ d.req[r].waiting = e.req[r].waiting
  BY <1>1, <1>8, PutTally
<1> QED BY <1>4, <1>6, <1>7, <1>9, <1>10 DEF SameTally

-----------------------------------------------------------------------------
(***************************************************************************)
(* Callers.                                                                *)
(***************************************************************************)
LEMMA GettingMoves ==
  ASSUME TypeOK, NEW r \in Requests, NEW pc, Goto(r, pc)
  PROVE  /\ Getting' \ {r} = Getting \ {r}
         /\ r \in Getting' <=> pc \in {"get_wait", "get_reserved"}
         /\ r \in Getting <=> task[r] \in {"get_wait", "get_reserved"}
BY GotoAlone DEF Getting

LEMMA CopiedLeave ==
  ASSUME TypeOK, NEW r, thread' = Leave(r)
  PROVE  Copied' = Copied
<1>1. \A d \in Thread : thread'[d] = IF thread[d].pc = "retrieve" /\ thread[d].req = r
                                     THEN Idle ELSE thread[d]
  BY DEF Leave
<1>2. \A d \in Thread :
        \/ thread'[d] = thread[d]
        \/ thread[d].pc \notin {"read", "write"} /\ thread'[d].pc \notin {"read", "write"}
  BY <1>1 DEF Idle
<1>3. \A s \in Requests : s \in Copied' <=> s \in Copied BY <1>2 DEF Copied
<1> QED BY <1>3 DEF Copied

LEMMA CopiedIs ==
  ASSUME Inv, NEW r \in Requests
  PROVE  r \in Copied <=> Worker(r).pc \in {"read", "write"}
<1>1. OneWorker(r) BY DEF Inv, PerRequest
<1>2. CASE Busy(r) = {}
  <2>1. Worker(r).pc = "idle" BY <1>2, NoWorker
  <2>2. r \notin Copied BY <1>2 DEF Copied, Busy
  <2> QED BY <2>1, <2>2
<1>3. CASE Busy(r) # {}
  <2>1. PICK d \in Busy(r) : TRUE BY <1>3
  <2>2. Worker(r) = thread[d] /\ Busy(r) = {d} BY <1>1, WorkerIs
  <2>3. r \in Copied <=> \E e \in Busy(r) : thread[e].pc \in {"read", "write"}
    BY DEF Copied, Busy
  <2> QED BY <2>2, <2>3
<1> QED BY <1>2, <1>3

LEMMA BalanceInt ==
  ASSUME Inv, Balance
  PROVE  /\ fc.num_background \in Int /\ fc.active_background \in Int
         /\ fc.num_waiting \in Int /\ fc.forget_batch \in Int /\ Len(fc.bg_queue) \in Int
         /\ fc.active_background + Len(fc.bg_queue) = fc.num_background
         /\ fc.forget_batch \in (1 - RequestBatch) .. ForgetBatch
<1>1. fc \in Conn BY InvTypes
<1> QED BY <1>1, ConnFields, LenProperties DEF Balance, Tallied

\* The record of r changes, no other one.
OtherRecords(c, d, r) == \A s \in Requests : s # r => d.req[s] = c.req[s]

\* The caller of r moves; the threads go on with what they copy.
CallerGoes(r) ==
  /\ task' = task \/ \E pc : Goto(r, pc)
  /\ thread' = thread \/ thread' = Leave(r)

LEMMA CallerElsewhere ==
  ASSUME Inv, NEW r \in Requests, CallerGoes(r), OtherRecords(fc, fc', r)
  PROVE  Copied' = Copied /\ Elsewhere(fc, fc', Copied, Copied', Getting, Getting', r)
<1>1. TypeOK BY InvTypes
<1>2. Copied' = Copied
  <2>1. CASE thread' = thread BY <2>1 DEF Copied
  <2>2. CASE thread' = Leave(r) BY <1>1, <2>2, CopiedLeave
  <2> QED BY <2>1, <2>2 DEF CallerGoes
<1>3. Getting' \ {r} = Getting \ {r}
  <2>1. CASE task' = task BY <2>1 DEF Getting
  <2>2. CASE \E pc : Goto(r, pc) BY <1>1, <2>2, GettingMoves
  <2> QED BY <2>1, <2>2 DEF CallerGoes
<1> QED BY <1>2, <1>3 DEF Elsewhere, OtherRecords

LEMMA CallerAccounts ==
  ASSUME Inv, Balance, NEW r \in Requests, CallerGoes(r), OtherRecords(fc, fc', r),
         Accounted(fc, fc', Copied, Copied, Getting, Getting', r)
  PROVE  Balance'
<1>1. Copied' = Copied /\ Elsewhere(fc, fc', Copied, Copied', Getting, Getting', r)
  BY CallerElsewhere
<1>2. Tallied(fc', Copied', Getting') BY <1>1, TalliedOne DEF Balance
<1> QED BY <1>2 DEF Balance

LEMMA CallerSame ==
  ASSUME Inv, Balance, NEW r \in Requests, CallerGoes(r), OtherRecords(fc, fc', r),
         SameTally(fc, fc'),
         r \in ChargedIn(fc', Copied) <=> r \in ChargedIn(fc, Copied),
         r \in CountedIn(fc', Getting') <=> r \in CountedIn(fc, Getting)
  PROVE  Balance'
<1>1. Copied' = Copied /\ Elsewhere(fc, fc', Copied, Copied', Getting, Getting', r)
  BY CallerElsewhere
<1>2. fc \in Conn BY InvTypes
<1>3. Tallied(fc', Copied', Getting') BY <1>1, <1>2, TalliedSame DEF Balance
<1> QED BY <1>3 DEF Balance

\* What r adds to the counters stays the same with its record or its caller's place.
SameShare(p, q) ==
  /\ q.background = p.background /\ (q.background => (q.state = "FINISHED" <=> p.state = "FINISHED"))
  /\ q.waiting = p.waiting /\ (q.count > 0 <=> p.count > 0)

NotGetting(r, pc) ==
  task[r] \notin {"get_wait", "get_reserved"} /\ pc \notin {"get_wait", "get_reserved"}

LEMMA CallerShares ==
  ASSUME Inv, Balance, NEW r \in Requests, OtherRecords(fc, fc', r),
         SameTally(fc, fc'), SameShare(fc.req[r], fc'.req[r]),
         task' = task \/ \E pc : Goto(r, pc) /\ NotGetting(r, pc),
         thread' = thread \/ thread' = Leave(r)
  PROVE  Balance'
<1>1. CallerGoes(r) BY DEF CallerGoes
<1>2. r \in ChargedIn(fc', Copied) <=> r \in ChargedIn(fc, Copied)
  BY DEF ChargedIn, SameShare
<1>3. r \in Getting' <=> r \in Getting
  <2>1. CASE task' = task BY <2>1 DEF Getting
  <2>2. ASSUME NEW pc, Goto(r, pc), NotGetting(r, pc) PROVE r \in Getting' <=> r \in Getting
    BY <2>2, InvTypes, GettingMoves DEF NotGetting
  <2> QED BY <2>1, <2>2
<1>4. r \in CountedIn(fc', Getting') <=> r \in CountedIn(fc, Getting)
  BY <1>3 DEF CountedIn, SameShare
<1> QED BY <1>1, <1>2, <1>4, CallerSame

LEMMA RecordChange ==
  ASSUME NEW c \in Conn, NEW r \in Requests, NEW q, NEW d, d = [c EXCEPT !.req[r] = q]
  PROVE  SameTally(c, d) /\ OtherRecords(c, d, r) /\ d.req[r] = q
BY TallyDomains DEF SameTally, OtherRecords

LEMMA SetTally ==
  ASSUME NEW c \in Conn, NEW r \in Requests, NEW q \in Req
  PROVE  /\ SameTally(c, SetRequest(c, r, q)) /\ SetRequest(c, r, q).req[r] = q
         /\ SetRequest(c, r, q) \in Conn
BY RecordChange, ConnReq DEF SetRequest

LEMMA SameOthers ==
  ASSUME NEW c, NEW d, NEW r, \A s \in Requests : s # r => Same(c, d, s)
  PROVE  OtherRecords(c, d, r)
BY DEF Same, OtherRecords

\* Before it is sent a request has at most the reference of its caller.
LEMMA UnsentCount ==
  ASSUME Inv, NEW r \in Requests, task[r] \in Before
  PROVE  /\ fc.req[r].count = One(task[r] = "ready")
         /\ ~ fc.req[r].background /\ fc.req[r].state = "INIT"
         /\ ~ Member(fc.bg_queue, r) /\ r \notin ChargedIn(fc, Copied)
         /\ fc \in Conn /\ fc.req[r] \in Req /\ fc.req \in [Requests -> Req]
<1>1. /\ fc.req[r].state = "INIT" /\ ~ fc.req[r].background /\ fc.req[r].error = "none"
      /\ Worker(r).pc = "idle" /\ Aborter(r) = "no" /\ ~ Member(fc.bg_queue, r)
  BY Unsent
<1>2. ~ OnDevice(r) BY <1>1 DEF OnDevice
<1>3. CallerHolds(r) <=> task[r] = "ready" BY DEF CallerHolds, Before
<1>4. fc.req[r].count = One(CallerHolds(r)) + One(OnDevice(r)) + One(Aborter(r) = "io")
  BY DEF Inv, PerRequest, Held
<1>5. One(OnDevice(r)) = 0 /\ One(Aborter(r) = "io") = 0 BY <1>1, <1>2 DEF One
<1>6. One(CallerHolds(r)) = One(task[r] = "ready") /\ One(task[r] = "ready") \in Int
  <2>1. CASE task[r] = "ready" BY <1>3, <2>1 DEF One
  <2>2. CASE task[r] # "ready" BY <1>3, <2>2 DEF One
  <2> QED BY <2>1, <2>2
<1>7. fc \in Conn /\ fc.req \in [Requests -> Req] BY InvTypes
<1> QED BY <1>1, <1>4, <1>5, <1>6, <1>7 DEF ChargedIn

LEMMA StartGetTally ==
  ASSUME Inv, Balance, NEW r \in Requests, StartGet(r), Copied' = Copied
  PROVE  Balance'
<1>1. /\ fc.req[r].count = 0 /\ ~ fc.req[r].background /\ fc \in Conn
  BY UnsentCount DEF StartGet, Before, One
<1>2. /\ fc'.num_waiting = fc.num_waiting + 1 /\ fc'.req = fc.req
      /\ fc'.num_background = fc.num_background
      /\ fc'.active_background = fc.active_background
      /\ fc'.forget_batch = fc.forget_batch /\ fc'.bg_queue = fc.bg_queue
  BY <1>1, TallyDomains DEF StartGet
<1>3. Elsewhere(fc, fc', Copied, Copied, Getting, Getting', r)
  BY <1>2, InvTypes, GettingMoves DEF StartGet, Elsewhere
<1>4. r \in Getting' /\ r \notin Getting BY InvTypes, GettingMoves DEF StartGet
<1>5. r \in CountedIn(fc', Getting') /\ r \notin CountedIn(fc, Getting)
  BY <1>1, <1>4 DEF CountedIn
<1>6. r \notin ChargedIn(fc', Copied) /\ r \notin ChargedIn(fc, Copied)
  BY <1>1, <1>2 DEF ChargedIn
<1>7. Accounted(fc, fc', Copied, Copied, Getting, Getting', r)
  BY <1>2, <1>5, <1>6, BalanceInt DEF Accounted, One
<1>8. Tallied(fc', Copied, Getting') BY <1>3, <1>7, TalliedOne DEF Balance
<1> QED BY <1>8 DEF Balance

LEMMA GetReqFailTally ==
  ASSUME Inv, Balance, NEW r \in Requests, task[r] = "get_wait", GetReqFail(r)
  PROVE  Balance'
<1>1. /\ fc.req[r].count = 0 /\ ~ fc.req[r].background /\ fc \in Conn
  BY UnsentCount DEF Before, One
<1>2. /\ fc'.num_waiting = fc.num_waiting - 1 /\ fc'.req = fc.req
      /\ fc'.num_background = fc.num_background
      /\ fc'.active_background = fc.active_background
      /\ fc'.forget_batch = fc.forget_batch /\ fc'.bg_queue = fc.bg_queue
  BY <1>1, TallyDomains DEF GetReqFail
<1>3. CallerGoes(r) /\ OtherRecords(fc, fc', r)
  BY <1>2 DEF GetReqFail, CallerGoes, OtherRecords
<1>4. r \notin Getting' /\ r \in Getting BY InvTypes, GettingMoves DEF GetReqFail
<1>5. r \notin CountedIn(fc', Getting') /\ r \in CountedIn(fc, Getting)
  BY <1>1, <1>2, <1>4 DEF CountedIn
<1>6. r \notin ChargedIn(fc', Copied) /\ r \notin ChargedIn(fc, Copied)
  BY <1>1, <1>2 DEF ChargedIn
<1>7. Accounted(fc, fc', Copied, Copied, Getting, Getting', r)
  BY <1>2, <1>5, <1>6, BalanceInt DEF Accounted, One
<1> QED BY <1>3, <1>7, CallerAccounts

\* Nothing but wait queues, forgets, interrupts and flags of the connection changes.
LEMMA CountersRest ==
  ASSUME Inv, Balance, SameTally(fc, fc'), fc'.req = fc.req,
         UNCHANGED task, Copied' = Copied
  PROVE  Balance'
<1>1. Getting' = Getting BY DEF Getting
<1>2. Tallied(fc', Copied, Getting) BY TalliedRest DEF Balance
<1> QED BY <1>1, <1>2 DEF Balance

LEMMA GetTally ==
  ASSUME Inv, Balance, NEW r \in Requests,
         \/ GetReq(r) \/ GetReqSleep(r) \/ GetReqKilled(r) \/ GetReqRefused(r)
         \/ GetReqNoMemory(r) \/ Signal(r)
  PROVE  Balance'
<1>0. fc \in Conn BY InvTypes
<1>1. CASE GetReq(r)
  <2>1. StartGet(r) /\ Copied' = Copied BY <1>1 DEF GetReq, Copied
  <2> QED BY <2>1, StartGetTally
<1>2. CASE GetReqKilled(r) \/ GetReqRefused(r)
  BY <1>2, GetReqFailTally DEF GetReqKilled, GetReqRefused, LetIn
<1>3. CASE GetReqSleep(r) \/ Signal(r)
  <2>1. SameTally(fc, fc') /\ fc'.req = fc.req
    BY <1>0, <1>3, TallyDomains DEF GetReqSleep, Signal, SameTally
  <2>2. UNCHANGED task /\ Copied' = Copied BY <1>3 DEF GetReqSleep, Signal, Copied
  <2> QED BY <2>1, <2>2, CountersRest
<1>4. CASE GetReqNoMemory(r)
  <2>1. SameTally(fc, fc') /\ OtherRecords(fc, fc', r) /\ CallerGoes(r)
    BY <1>4 DEF GetReqNoMemory, SameTally, OtherRecords, CallerGoes
  <2>2. r \in Getting' /\ r \in Getting
    BY <1>4, InvTypes, GettingMoves DEF GetReqNoMemory, LetIn
  <2>3. r \in ChargedIn(fc', Copied) <=> r \in ChargedIn(fc, Copied)
    BY <1>4 DEF GetReqNoMemory
  <2>4. r \in CountedIn(fc', Getting') /\ r \in CountedIn(fc, Getting)
    BY <2>2 DEF CountedIn
  <2> QED BY <2>1, <2>3, <2>4, CallerSame
<1> QED BY <1>1, <1>2, <1>3, <1>4

\* The caller gets its request: what counted the caller counts the request.
LEMMA AllocatedTally ==
  ASSUME Inv, Balance, NEW r \in Requests, task[r] \in {"start", "get_wait", "get_reserved"},
         Goto(r, "ready"), UNCHANGED thread, SameTally(fc, fc'), OtherRecords(fc, fc', r),
         fc'.req[r].background = fc.req[r].background, fc'.req[r].count = 1,
         fc'.req[r].waiting <=> task[r] # "start"
  PROVE  Balance'
<1>1. fc.req[r].count = 0 /\ ~ fc.req[r].background BY UnsentCount DEF Before, One
<1>2. CallerGoes(r) BY DEF CallerGoes
<1>3. r \notin Getting' /\ (r \in Getting <=> task[r] # "start") BY InvTypes, GettingMoves
<1>4. r \in CountedIn(fc', Getting') <=> r \in CountedIn(fc, Getting)
  BY <1>1, <1>3 DEF CountedIn
<1>5. r \in ChargedIn(fc', Copied) <=> r \in ChargedIn(fc, Copied) BY <1>1 DEF ChargedIn
<1> QED BY <1>2, <1>4, <1>5, CallerSame

LEMMA AllocTally ==
  ASSUME Inv, Balance, NEW r \in Requests,
         GetReqDone(r) \/ RequestAlloc(r) \/ get_reserved_req(r) \/ put_reserved_req(r)
  PROVE  Balance'
<1>0. fc \in Conn /\ fc.req \in [Requests -> Req] /\ fc.req[r] \in Req BY InvTypes
<1>1. ASSUME NEW b \in BOOLEAN, fuse_request_alloc(r, b), Goto(r, "ready"), UNCHANGED thread,
             task[r] \in {"start", "get_wait", "get_reserved"}, b <=> task[r] # "start"
      PROVE  Balance'
  <2>1. PICK q : q = [fc.req[r] EXCEPT !.count = 1, !.waiting = b] OBVIOUS
  <2>2. q.background = fc.req[r].background /\ q.count = 1 /\ q.waiting = b
    BY <1>0, <2>1 DEF Req
  <2>3. fc' = [fc EXCEPT !.req[r] = q] BY <1>1, <2>1, ZenonT(30) DEF fuse_request_alloc
  <2>4. SameTally(fc, fc') /\ OtherRecords(fc, fc', r) /\ fc'.req[r] = q
    BY <1>0, <2>3, RecordChange
  <2> QED BY <1>1, <2>2, <2>4, AllocatedTally
<1>2. CASE GetReqDone(r) BY <1>1, <1>2 DEF GetReqDone, LetIn
<1>3. CASE RequestAlloc(r) BY <1>1, <1>3 DEF RequestAlloc
<1>4. CASE get_reserved_req(r)
  <2>1. PICK q : q = [fc.req[r] EXCEPT !.stolen = TRUE, !.count = 1, !.waiting = TRUE] OBVIOUS
  <2>2. q.background = fc.req[r].background /\ q.count = 1 /\ q.waiting
    BY <1>0, <2>1 DEF Req
  <2>3. fc' = [fc EXCEPT !.reserved = FALSE, !.req[r] = q]
    BY <1>4, <2>1, ZenonT(30) DEF get_reserved_req
  <2>4. SameTally(fc, fc') /\ OtherRecords(fc, fc', r) /\ fc'.req[r] = q
    BY <1>0, <2>3, TallyDomains DEF SameTally, OtherRecords
  <2> QED BY <1>4, <2>2, <2>4, AllocatedTally DEF get_reserved_req
<1>5. CASE put_reserved_req(r)
  <2>1. PICK q : q = [fc.req[r] EXCEPT !.stolen = FALSE] OBVIOUS
  <2>2. SameShare(fc.req[r], q) BY <1>0, <2>1 DEF Req, SameShare
  <2>3. fc' = [fc EXCEPT !.reserved = TRUE, !.req[r] = q] BY <1>5, <2>1 DEF put_reserved_req
  <2>4. SameTally(fc, fc') /\ OtherRecords(fc, fc', r) /\ fc'.req[r] = q
    BY <1>0, <2>3, TallyDomains DEF SameTally, OtherRecords
  <2> QED BY <1>5, <2>2, <2>4, CallerShares DEF put_reserved_req
<1> QED BY <1>2, <1>3, <1>4, <1>5

\* A reference is dropped, by whom it belonged to.
Dropped(c, d, r) ==
  /\ d.num_background = c.num_background /\ d.active_background = c.active_background
  /\ d.forget_batch = c.forget_batch /\ d.bg_queue = c.bg_queue
  /\ d.num_waiting = IF c.req[r].count = 1 /\ c.req[r].waiting
                     THEN c.num_waiting - 1 ELSE c.num_waiting
  /\ d.req[r].waiting = c.req[r].waiting
  /\ d.req[r].background = c.req[r].background /\ d.req[r].state = c.req[r].state
  /\ d.req[r].count = c.req[r].count - 1 /\ c.req[r].count >= 1

LEMMA DroppedTally ==
  ASSUME NEW c \in Conn, NEW d, NEW W, NEW V, NEW G, NEW H, NEW r \in Requests,
         Tallied(c, W, G), Elsewhere(c, d, W, V, G, H, r), Dropped(c, d, r),
         r \notin G, r \notin H, r \in V <=> r \in W
  PROVE  Tallied(d, V, H)
<1>1. /\ c.num_background \in Int /\ c.num_waiting \in Int /\ c.req[r].count \in Int
      /\ c.active_background \in Int /\ Len(c.bg_queue) \in Int
  BY ConnFields, ReqCount, LenProperties
<1>2. r \in ChargedIn(d, V) <=> r \in ChargedIn(c, W) BY DEF ChargedIn, Dropped
<1>3. d.num_background =
        c.num_background + One(r \in ChargedIn(d, V)) - One(r \in ChargedIn(c, W))
  <2>1. CASE r \in ChargedIn(c, W) BY <1>1, <1>2, <2>1 DEF One, Dropped
  <2>2. CASE r \notin ChargedIn(c, W) BY <1>1, <1>2, <2>2 DEF One, Dropped
  <2> QED BY <2>1, <2>2
<1>4. r \in CountedIn(d, H) <=> c.req[r].waiting /\ c.req[r].count > 1
  BY <1>1 DEF CountedIn, Dropped
<1>5. r \in CountedIn(c, G) <=> c.req[r].waiting BY <1>1 DEF CountedIn, Dropped
<1>6. d.num_waiting =
        c.num_waiting + One(r \in CountedIn(d, H)) - One(r \in CountedIn(c, G))
  <2>1. CASE c.req[r].waiting /\ c.req[r].count = 1
    BY <1>1, <1>4, <1>5, <2>1 DEF One, Dropped
  <2>2. CASE c.req[r].waiting /\ c.req[r].count > 1
    BY <1>1, <1>4, <1>5, <2>2 DEF One, Dropped
  <2>3. CASE ~ c.req[r].waiting BY <1>1, <1>4, <1>5, <2>3 DEF One, Dropped
  <2> QED BY <1>1, <2>1, <2>2, <2>3 DEF Dropped
<1>7. d.active_background + Len(d.bg_queue) = d.num_background
  BY DEF Dropped, Tallied
<1>8. d.forget_batch \in (1 - RequestBatch) .. ForgetBatch BY DEF Dropped, Tallied
<1> QED BY <1>3, <1>6, <1>7, <1>8, TalliedOne DEF Accounted

\* Who has a reference is counted in it.
LEMMA HeldCount ==
  ASSUME Inv, NEW r \in Requests
  PROVE  /\ fc.req[r].count \in Int /\ fc.req[r].count >= 0
         /\ CallerHolds(r) \/ OnDevice(r) \/ Aborter(r) = "io" => fc.req[r].count >= 1
         /\ CallerHolds(r) /\ OnDevice(r) => fc.req[r].count >= 2
<1>1. fc.req[r].count = One(CallerHolds(r)) + One(OnDevice(r)) + One(Aborter(r) = "io")
  BY DEF Inv, PerRequest, Held
<1>2. /\ One(CallerHolds(r)) \in {0, 1} /\ (CallerHolds(r) => One(CallerHolds(r)) = 1)
      /\ One(OnDevice(r)) \in {0, 1} /\ (OnDevice(r) => One(OnDevice(r)) = 1)
      /\ One(Aborter(r) = "io") \in {0, 1}
      /\ (Aborter(r) = "io" => One(Aborter(r) = "io") = 1)
  BY DEF One
<1> QED BY <1>1, <1>2

\* The requests that wait in bg_queue.
LEMMA QueuedBackground ==
  ASSUME Inv, NEW s \in Requests, Member(fc.bg_queue, s)
  PROVE  /\ fc.req[s].state = "INIT" /\ fc.req[s].background /\ s \notin Getting
         /\ fc.req[s].count > 0
<1>1. PerRequest(s) BY DEF Inv
<1>2. fc.req[s].state = "INIT" /\ fc.req[s].background BY <1>1 DEF PerRequest, Placed
<1>3. s \notin Getting BY <1>1, <1>2 DEF Getting, PerRequest, Called, Before
<1>4. OnDevice(s) BY <1>2 DEF OnDevice
<1> QED BY <1>2, <1>3, <1>4, HeldCount

\* A caller drops its reference and leaves.
LEMMA CallerDrops ==
  ASSUME Inv, Balance, NEW r \in Requests, NEW pc, Goto(r, pc), NotGetting(r, pc),
         UNCHANGED thread, OtherRecords(fc, fc', r), Dropped(fc, fc', r)
  PROVE  Balance'
<1>1. CallerGoes(r) BY DEF CallerGoes
<1>2. Copied' = Copied /\ Elsewhere(fc, fc', Copied, Copied', Getting, Getting', r)
  BY <1>1, CallerElsewhere
<1>3. r \notin Getting /\ r \notin Getting' BY InvTypes, GettingMoves DEF NotGetting
<1>4. fc \in Conn BY InvTypes
<1>5. Tallied(fc', Copied', Getting') BY <1>2, <1>3, <1>4, DroppedTally DEF Balance
<1> QED BY <1>5 DEF Balance

LEMMA PutRequestTally ==
  ASSUME Inv, Balance, NEW r \in Requests, PutRequest(r) \/ SendBackgroundEnd(r)
  PROVE  Balance'
<1>1. fc \in Conn /\ Good(fc) /\ fc.req[r] \in Req /\ PerRequest(r) BY InvTypes DEF Inv
<1>2. CASE PutRequest(r)
  <2>1. /\ task[r] = "returned" /\ Goto(r, "done") /\ fc' = fuse_put_request(fc, r)
        /\ UNCHANGED thread
    BY <1>2 DEF PutRequest
  <2>2. CallerHolds(r) BY <1>1, <2>1 DEF PerRequest, Called, CallerHolds, Before
  <2>3. fc.req[r].count >= 1 BY <2>2, HeldCount
  <2>4. /\ fc'.req[r] = [fc.req[r] EXCEPT !.count = @ - 1]
        /\ \A s \in Requests : s # r => Same(fc, fc', s)
    BY <1>1, <2>1, PutEffect
  <2>5. Dropped(fc, fc', r) BY <1>1, <2>1, <2>3, <2>4, PutTally DEF Dropped, Req
  <2> QED BY <2>1, <2>4, <2>5, SameOthers, CallerDrops DEF NotGetting
<1>3. CASE SendBackgroundEnd(r)
  <2>1. PICK end \in BOOLEAN : end = TRUE OBVIOUS
  <2>2. /\ task[r] = "end" /\ Goto(r, "sent") /\ fc' = EndTail(fc, r, end)
        /\ UNCHANGED thread
    BY <1>3, <2>1, Zenon DEF SendBackgroundEnd
  <2>3. CallerHolds(r) BY <1>1, <2>2 DEF PerRequest, Called, CallerHolds, Before, Waits
  <2>4. fc.req[r].count >= 1 BY <2>3, HeldCount
  <2>5. /\ fc'.req[r].state = fc.req[r].state
        /\ fc'.req[r].background = fc.req[r].background
        /\ fc'.req[r].count = fc.req[r].count - 1
        /\ \A s \in Requests : s # r => Same(fc, fc', s)
    BY <1>1, <2>2, EndTailEffect
  <2>6. Dropped(fc, fc', r) BY <1>1, <2>2, <2>4, <2>5, EndTailTally DEF Dropped
  <2> QED BY <2>2, <2>5, <2>6, SameOthers, CallerDrops DEF NotGetting
<1> QED BY <1>2, <1>3

SleepSet(r, b) == fc' = [fc EXCEPT !.req[r].asleep = b]

LEMMA AsleepTally ==
  ASSUME Inv, Balance, NEW r \in Requests, NEW b, SleepSet(r, b),
         \E pc : Goto(r, pc) /\ NotGetting(r, pc), thread' = thread
  PROVE  Balance'
<1>0. fc \in Conn /\ fc.req \in [Requests -> Req] /\ fc.req[r] \in Req BY InvTypes
<1>1. PICK q : q = [fc.req[r] EXCEPT !.asleep = b] OBVIOUS
<1>2. fc' = [fc EXCEPT !.req[r] = q] BY <1>1 DEF SleepSet
<1>3. SameShare(fc.req[r], q) BY <1>0, <1>1 DEF SameShare, Req
<1>4. SameTally(fc, fc') /\ OtherRecords(fc, fc', r) /\ fc'.req[r] = q
  BY <1>0, <1>2, RecordChange
<1> QED BY <1>3, <1>4, CallerShares

LEMMA RefusedWaitTally ==
  ASSUME Inv, Balance, NEW r \in Requests,
         \/ RequestSendRefused(r) \/ WakeIntr(r) \/ WakeForced(r) \/ WakeUnlock(r)
         \/ WakeKill(r) /\ ~ BailOut(r)
  PROVE  Balance'
<1>0. /\ fc \in Conn /\ Good(fc) /\ fc.req \in [Requests -> Req] /\ fc.req[r] \in Req
  BY InvTypes
<1>1. /\ \E pc : Goto(r, pc) /\ NotGetting(r, pc)
      /\ thread' = thread
  BY DEF RequestSendRefused, WakeIntr, WakeForced, WakeUnlock, WakeKill, LeaveWait, WaitOut,
         NotGetting
<1>2. ASSUME NEW b, fc' = [fc EXCEPT !.req[r].asleep = b] PROVE Balance'
  BY <1>1, <1>2, AsleepTally DEF SleepSet
<1>3. CASE LeaveWait(r) BY <1>2, <1>3 DEF LeaveWait
<1>4. CASE WaitOut(r) BY <1>2, <1>4 DEF WaitOut
<1>5. CASE fc' = [fc EXCEPT !.req[r].error = "ENOTCONN"]
  <2>1. PICK q : q = [fc.req[r] EXCEPT !.error = "ENOTCONN"] OBVIOUS
  <2>2. fc' = [fc EXCEPT !.req[r] = q] BY <1>5, <2>1
  <2>3. SameShare(fc.req[r], q) BY <1>0, <2>1 DEF SameShare, Req
  <2>4. SameTally(fc, fc') /\ OtherRecords(fc, fc', r) /\ fc'.req[r] = q
    BY <1>0, <2>2, RecordChange
  <2> QED BY <1>1, <2>3, <2>4, CallerShares
<1>6. CASE fc' = Interrupted(fc, r)
  <2>1. /\ fc'.req[r] = [fc.req[r] EXCEPT !.interrupted = TRUE, !.asleep = TRUE]
        /\ \A s \in Requests : s # r => Same(fc, fc', s)
    BY <1>0, <1>6, InterruptedEffect
  <2>2. SameShare(fc.req[r], fc'.req[r]) BY <1>0, <2>1 DEF SameShare, Req
  <2>3. SameTally(fc, fc') BY <1>0, <1>6, OperatorTally
  <2> QED BY <1>1, <2>1, <2>2, <2>3, SameOthers, CallerShares
<1>7. CASE UNCHANGED fc
  <2>1. SameTally(fc, fc') /\ OtherRecords(fc, fc', r) /\ SameShare(fc.req[r], fc'.req[r])
    BY <1>7 DEF SameTally, OtherRecords, SameShare
  <2> QED BY <1>1, <2>1, CallerShares
<1> QED BY <1>3, <1>4, <1>5, <1>6, <1>7
        DEF RequestSendRefused, WakeIntr, WakeForced, WakeUnlock, WakeKill

LEMMA BailOutTally ==
  ASSUME Inv, Balance, NEW r \in Requests, WakeKill(r), BailOut(r)
  PROVE  Balance'
<1>0. /\ fc \in Conn /\ Good(fc) /\ fc.req[r] \in Req /\ PerRequest(r)
  BY InvTypes DEF Inv
<1>1. task[r] = "wait_kill" /\ UNCHANGED thread /\ Goto(r, "returned")
  BY DEF WakeKill, BailOut
<1>2. fc.req[r].state # "INIT" /\ r \in Sync BY <1>1, WaitingFacts DEF Waits
<1>3. CASE fc.req[r].state # "PENDING" \/ fc.req[r].error = "EINTR"
  <2>1. fc.req[r].error # "EINTR" BY <1>0, <1>1, <1>2 DEF PerRequest, Told
  <2>2. fc.req[r].state # "PENDING" BY <1>3, <2>1
  <2>3. LeaveWait(r) \/ WaitOut(r) BY <2>2 DEF WakeKill, Ended
  <2>4. PICK b : fc' = [fc EXCEPT !.req[r].asleep = b] BY <2>3 DEF LeaveWait, WaitOut
  <2> QED BY <1>1, <2>4, AsleepTally DEF NotGetting, SleepSet
<1>4. CASE fc.req[r].state = "PENDING" /\ fc.req[r].error # "EINTR"
  <2>1. CallerHolds(r) /\ OnDevice(r) BY <1>1, <1>2, <1>4 DEF CallerHolds, OnDevice
  <2>2. fc.req[r].count \in Int /\ fc.req[r].count >= 2 BY <2>1, HeldCount
  <2>3. ~ Member(fc.bg_queue, r) BY <1>0, <1>4 DEF PerRequest, Placed
  <2>4. PICK e : e = list_del(fc, r) OBVIOUS
  <2>5. e \in Conn /\ SameTally(fc, e) /\ e.req = fc.req
    BY <1>0, <2>3, <2>4, ListDelFields, ListDelTally
  <2>6. PICK q : q = [e.req[r] EXCEPT !.count = @ - 1, !.asleep = FALSE, !.error = "EINTR"]
    OBVIOUS
  <2>7. fc' = [e EXCEPT !.req[r] = q] BY <2>4, <2>6, ZenonT(30) DEF BailOut
  <2>8. SameTally(e, fc') /\ OtherRecords(e, fc', r) /\ fc'.req[r] = q
    BY <2>5, <2>7, RecordChange
  <2>9. SameTally(fc, fc') BY <2>5, <2>8, SameTallyTrans
  <2>10. OtherRecords(fc, fc', r) BY <2>5, <2>8 DEF OtherRecords
  <2>11. SameShare(fc.req[r], fc'.req[r])
    BY <1>0, <2>2, <2>5, <2>6, <2>8 DEF SameShare, Req
  <2> QED BY <1>1, <2>9, <2>10, <2>11, CallerShares DEF NotGetting
<1> QED BY <1>3, <1>4

\* A request that becomes pending: counted from now on, never charged.
Queued(c, d, r) ==
  /\ d.num_background = c.num_background /\ d.active_background = c.active_background
  /\ d.forget_batch = c.forget_batch /\ d.bg_queue = c.bg_queue
  /\ d.num_waiting = IF c.req[r].waiting THEN c.num_waiting ELSE c.num_waiting + 1
  /\ d.req[r].waiting /\ d.req[r].count > 0 /\ ~ d.req[r].background

LEMMA CallerQueues ==
  ASSUME Inv, Balance, NEW r \in Requests, task[r] = "ready", NEW pc, Goto(r, pc),
         NotGetting(r, pc), thread' = thread \/ thread' = Leave(r),
         OtherRecords(fc, fc', r), Queued(fc, fc', r)
  PROVE  Balance'
<1>1. fc.req[r].count = 1 /\ r \notin ChargedIn(fc, Copied)
  BY UnsentCount DEF Before, One
<1>2. r \notin Getting' /\ r \notin Getting BY InvTypes, GettingMoves DEF NotGetting
<1>3. r \in CountedIn(fc', Getting') /\ r \notin ChargedIn(fc', Copied)
  BY DEF CountedIn, ChargedIn, Queued
<1>4. r \in CountedIn(fc, Getting) <=> fc.req[r].waiting
  BY <1>1, <1>2 DEF CountedIn
<1>5. /\ fc'.num_waiting =
           fc.num_waiting + One(r \in CountedIn(fc', Getting')) - One(r \in CountedIn(fc, Getting))
      /\ fc'.num_background =
           fc.num_background + One(r \in ChargedIn(fc', Copied)) - One(r \in ChargedIn(fc, Copied))
  BY <1>1, <1>3, <1>4, BalanceInt DEF Queued, One
<1>6. Accounted(fc, fc', Copied, Copied, Getting, Getting', r)
  BY <1>5, BalanceInt DEF Accounted, Queued
<1> QED BY <1>6, CallerAccounts DEF CallerGoes

LEMMA RequestSendTally ==
  ASSUME Inv, Balance, NEW r \in Requests, RequestSend(r)
  PROVE  Balance'
<1>0. /\ fc \in Conn /\ fc.req \in [Requests -> Req] /\ fc.req[r] \in Req
      /\ fc.reqctr \in 0 .. UniqueMax /\ Good(fc)
  BY InvTypes
<1> DEFINE u == fuse_get_unique(fc.reqctr, 1)
           c == [fc EXCEPT !.reqctr = u, !.req[r].unique = u]
<1>1. /\ task[r] = "ready"
      /\ fc' = [queue_request(c, r) EXCEPT !.req[r].count = @ + 1, !.req[r].asleep = TRUE]
  BY DEF RequestSend
<1>2. u \in 0 .. UniqueMax
  <2>1. u \in 1 .. UniqueMax BY <1>0, UniqueType
  <2> QED BY <2>1, BoundAssumption
<1> HIDE DEF u
<1>3. /\ c \in Conn /\ SameTally(fc, c) /\ OtherRecords(fc, c, r)
      /\ c.bg_queue = fc.bg_queue
      /\ c.req[r].waiting = fc.req[r].waiting /\ c.req[r].count = fc.req[r].count
      /\ c.req[r].background = fc.req[r].background
  <2>1. PICK q : q = [fc.req[r] EXCEPT !.unique = u] OBVIOUS
  <2>2. /\ q \in Req /\ q.waiting = fc.req[r].waiting /\ q.count = fc.req[r].count
        /\ q.background = fc.req[r].background
    BY <1>0, <1>2, <2>1 DEF Req
  <2>3. PICK e : e = [fc EXCEPT !.reqctr = u] OBVIOUS
  <2>4. e \in Conn /\ e.req = fc.req /\ SameTally(fc, e) /\ e.bg_queue = fc.bg_queue
    BY <1>0, <1>2, <2>3 DEF Conn, SameTally
  <2>5. c = [e EXCEPT !.req[r] = q] BY <2>1, <2>3
  <2> HIDE DEF c
  <2>6. c \in Conn BY <2>2, <2>4, <2>5, ConnReq
  <2>7. SameTally(e, c) /\ OtherRecords(e, c, r) /\ c.req[r] = q
    BY <2>4, <2>5, TallyDomains DEF SameTally, OtherRecords
  <2>8. c.bg_queue = e.bg_queue BY <2>4, <2>5, TallyDomains
  <2> QED BY <2>2, <2>4, <2>6, <2>7, <2>8, SameTallyTrans DEF OtherRecords
<1> HIDE DEF c
<1>4. PICK d : d = queue_request(c, r) OBVIOUS
<1>5. d \in Conn BY <1>3, <1>4, QueueRequestType
<1>6. /\ d.req[r].waiting /\ d.req[r].count = fc.req[r].count
      /\ d.req[r].background = fc.req[r].background
      /\ d.req[r] \in Req /\ OtherRecords(c, d, r)
  <2>1. c.req \in [Requests -> Req] BY <1>3, ConnFields
  <2>2. d.req = [c.req EXCEPT ![r] = [c.req[r] EXCEPT !.state = "PENDING", !.waiting = TRUE]]
    BY <1>3, <1>4, TallyDomains DEF queue_request
  <2>3. d.req[r] = [c.req[r] EXCEPT !.state = "PENDING", !.waiting = TRUE] BY <2>1, <2>2
  <2>4. c.req[r] \in Req BY <2>1
  <2>5. d.req[r] \in Req BY <1>5, ConnFields
  <2> QED BY <1>3, <2>1, <2>2, <2>3, <2>4, <2>5 DEF OtherRecords, Req
<1>7. PICK q : q = [d.req[r] EXCEPT !.count = @ + 1, !.asleep = TRUE] OBVIOUS
<1>8. fc' = [d EXCEPT !.req[r] = q] BY <1>1, <1>4, <1>7
<1>9. SameTally(d, fc') /\ OtherRecords(d, fc', r) /\ fc'.req[r] = q
  BY <1>5, <1>8, TallyDomains DEF SameTally, OtherRecords
<1>a. fc'.bg_queue = d.bg_queue BY <1>5, <1>8, TallyDomains
<1>10. fc.req[r].count = 1 /\ ~ fc.req[r].background BY <1>1, UnsentCount DEF Before, One
<1>11. q.waiting /\ q.count > 0 /\ ~ q.background
  BY <1>6, <1>7, <1>10 DEF Req
<1>12. Queued(fc, fc', r)
  BY <1>3, <1>4, <1>9, <1>11, <1>a, QueueRequestTally DEF Queued, SameTally
<1>13. OtherRecords(fc, fc', r) BY <1>3, <1>6, <1>9 DEF OtherRecords
<1>14. \E pc : Goto(r, pc) /\ NotGetting(r, pc)
  <2> DEFINE pc == IF ~ fc.no_interrupt THEN "wait_intr"
                   ELSE IF r \in Forced THEN "wait_forced" ELSE "wait_kill"
  <2>1. Goto(r, pc) BY DEF RequestSend
  <2>2. NotGetting(r, pc) BY <1>1 DEF NotGetting
  <2> QED BY <2>1, <2>2
<1>15. UNCHANGED thread BY DEF RequestSend
<1> QED BY <1>1, <1>12, <1>13, <1>14, <1>15, CallerQueues

LEMMA SendNotifyReplyTally ==
  ASSUME Inv, Balance, NEW r \in Requests, SendNotifyReply(r)
  PROVE  Balance'
<1>0. fc \in Conn /\ fc.req \in [Requests -> Req] /\ fc.req[r] \in Req /\ Good(fc)
  BY InvTypes
<1>1. task[r] = "ready" /\ thread' = Leave(r) BY DEF SendNotifyReply
<1>2. CASE fc.connected
  <2>1. fc' = queue_request(fc, r) /\ Goto(r, "sent") BY <1>2 DEF SendNotifyReply
  <2>2. fc.req[r].count = 1 /\ ~ fc.req[r].background /\ ~ Member(fc.bg_queue, r)
        /\ ~ Member(fc.pending, r)
    BY <1>1, UnsentCount, Unsent DEF Before, One
  <2>3. /\ fc'.req[r].waiting /\ SameFields(fc.req[r], fc'.req[r])
        /\ \A s \in Requests : s # r => Same(fc, fc', s)
    BY <1>0, <2>1, <2>2, QueueRequestEffect
  <2>4. Queued(fc, fc', r)
    BY <1>0, <2>1, <2>2, <2>3, QueueRequestTally DEF Queued, SameFields
  <2>5. OtherRecords(fc, fc', r) BY <2>3, SameOthers
  <2> QED BY <1>1, <2>1, <2>4, <2>5, CallerQueues DEF NotGetting
<1>3. CASE ~ fc.connected
  <2>1. PICK q : q = [fc.req[r] EXCEPT !.ended = @ + 1] OBVIOUS
  <2>2. fc' = [fc EXCEPT !.req[r] = q] /\ Goto(r, "leaked")
    BY <1>3, <2>1 DEF SendNotifyReply
  <2>3. SameShare(fc.req[r], q) BY <1>0, <2>1 DEF SameShare, Req
  <2>4. SameTally(fc, fc') /\ OtherRecords(fc, fc', r) /\ fc'.req[r] = q
    BY <1>0, <2>2, RecordChange
  <2> QED BY <1>1, <2>2, <2>3, <2>4, CallerShares DEF NotGetting
<1> QED BY <1>2, <1>3

LEMMA SendBackgroundTally ==
  ASSUME Inv, Balance, NEW r \in Requests, SendBackground(r)
  PROVE  Balance'
<1> DEFINE n == fc.num_background + 1
           q == [fc.req[r] EXCEPT !.background = TRUE]
           bl == IF n = fc.max_background THEN TRUE ELSE fc.blocked
           cg == IF n = CongestionThreshold THEN TRUE ELSE fc.congested
           b == Append(fc.bg_queue, r)
           e == [fc EXCEPT !.req[r] = q, !.num_background = n, !.blocked = bl,
                           !.congested = cg, !.bg_queue = b]
<1>0. fc \in Conn /\ Good(fc) /\ TypeOK /\ fc.req \in [Requests -> Req] /\ fc.req[r] \in Req
  BY InvTypes
<1>1. task[r] = "ready" /\ Goto(r, "sent") /\ UNCHANGED thread BY DEF SendBackground
<1>2. fc' = flush_bg_queue(e) BY DEF SendBackground, fuse_request_send_nowait_locked
<1>3. /\ fc.req[r].count = 1 /\ fc.req[r].state = "INIT" /\ ~ Member(fc.bg_queue, r)
      /\ ~ Member(fc.pending, r) /\ r \notin ChargedIn(fc, Copied) /\ r \notin Getting
  BY <1>1, UnsentCount, Unsent DEF Before, One, Getting
<1>4. /\ q \in Req /\ q.background /\ q.state = fc.req[r].state
      /\ q.count = fc.req[r].count /\ q.waiting = fc.req[r].waiting
  BY <1>0 DEF Req
<1>5. n \in Int /\ b \in Seq(Requests) BY <1>0, ConnFields
<1>6. bl \in BOOLEAN /\ cg \in BOOLEAN BY <1>0, ConnFields, Zenon
<1>7. Len(b) = Len(fc.bg_queue) + 1 BY <1>0, ConnFields, LenProperties
<1>8. fc.bg_queue \in Seq(Requests) BY <1>0, ConnFields
<1>9. NoDuplicate(b) /\ \A s : Member(b, s) <=> Member(fc.bg_queue, s) \/ s = r
  BY <1>0, <1>3, <1>8, AppendMember DEF Good
<1>10. n = fc.num_background + 1 OBVIOUS
<1> HIDE DEF n, q, bl, cg, b
<1>11. e \in Conn BY <1>0, <1>4, <1>5, <1>6 DEF Conn
<1>12. /\ e.num_background = n /\ e.active_background = fc.active_background
       /\ e.num_waiting = fc.num_waiting /\ e.forget_batch = fc.forget_batch
       /\ e.bg_queue = b /\ e.pending = fc.pending
       /\ e.req[r] = q /\ OtherRecords(fc, e, r)
  BY <1>0, <1>4 DEF Conn, OtherRecords
<1> HIDE DEF e
<1>13. Good(e) BY <1>0, <1>3, <1>9, <1>11, <1>12 DEF Good
<1>14. r \in ChargedIn(e, Copied) BY <1>3, <1>4, <1>12 DEF ChargedIn
<1>15. r \in CountedIn(e, Getting) <=> r \in CountedIn(fc, Getting)
  BY <1>4, <1>12 DEF CountedIn
<1>16. One(r \in CountedIn(e, Getting)) = One(r \in CountedIn(fc, Getting))
       /\ One(r \in CountedIn(fc, Getting)) \in Int
  <2>1. CASE r \in CountedIn(fc, Getting) BY <1>15, <2>1 DEF One
  <2>2. CASE r \notin CountedIn(fc, Getting) BY <1>15, <2>2 DEF One
  <2> QED BY <2>1, <2>2
<1>17. One(r \in ChargedIn(e, Copied)) = 1 /\ One(r \in ChargedIn(fc, Copied)) = 0
  BY <1>3, <1>14 DEF One
<1>18. Accounted(fc, e, Copied, Copied, Getting, Getting, r)
  <2>1. e.num_background = fc.num_background + One(r \in ChargedIn(e, Copied))
                             - One(r \in ChargedIn(fc, Copied))
    BY <1>10, <1>12, <1>17, BalanceInt
  <2>2. e.num_waiting = fc.num_waiting + One(r \in CountedIn(e, Getting))
                          - One(r \in CountedIn(fc, Getting))
    BY <1>12, <1>16, BalanceInt
  <2>3. e.active_background + Len(e.bg_queue) = e.num_background
    BY <1>7, <1>10, <1>12, BalanceInt
  <2> QED BY <1>12, <2>1, <2>2, <2>3, BalanceInt DEF Accounted
<1>19. Elsewhere(fc, e, Copied, Copied, Getting, Getting, r)
  BY <1>12 DEF Elsewhere, OtherRecords
<1>20. Tallied(e, Copied, Getting) BY <1>18, <1>19, TalliedOne DEF Balance
<1>21. ASSUME NEW s \in Requests, Member(e.bg_queue, s)
       PROVE  s \notin Getting /\ e.req[s].count > 0 /\ e.req[s].state # "FINISHED"
  <2>1. CASE s = r BY <1>3, <1>4, <1>12, <2>1
  <2>2. CASE s # r
    <3>1. Member(fc.bg_queue, s) BY <1>9, <1>12, <1>21, <2>2
    <3>2. e.req[s] = fc.req[s] BY <1>12, <2>2 DEF OtherRecords
    <3> QED BY <3>1, <3>2, QueuedBackground
  <2> QED BY <2>1, <2>2
<1>22. Tallied(fc', Copied, Getting) BY <1>2, <1>13, <1>20, <1>21, FlushTally
<1>23. Copied' = Copied BY <1>1 DEF Copied
<1>24. Getting' = Getting
  <2>1. Getting' \ {r} = Getting \ {r} /\ r \notin Getting'
    BY <1>0, <1>1, GettingMoves
  <2> QED BY <1>3, <2>1
<1> QED BY <1>22, <1>23, <1>24 DEF Balance

LEMMA SendRefusedTally ==
  ASSUME Inv, Balance, NEW r \in Requests, SendBackgroundRefused(r)
  PROVE  Balance'
<1>0. fc \in Conn /\ Good(fc) /\ fc.req \in [Requests -> Req] /\ fc.req[r] \in Req
  BY InvTypes
<1>1. task[r] = "ready" /\ Goto(r, "end") /\ UNCHANGED thread BY DEF SendBackgroundRefused
<1>2. ~ fc.req[r].background /\ ~ Member(fc.bg_queue, r) BY <1>1, UnsentCount DEF Before
<1>3. PICK x : x = [fc.req[r] EXCEPT !.error = "ENOTCONN"] OBVIOUS
<1>4. /\ x \in Req /\ ~ x.background /\ x.waiting = fc.req[r].waiting
      /\ x.count = fc.req[r].count
  BY <1>0, <1>2, <1>3, Errors DEF Req
<1>5. PICK e : e = [fc EXCEPT !.req[r] = x] OBVIOUS
<1>6. fc' = request_end(e, r) BY <1>3, <1>5 DEF SendBackgroundRefused
<1>7. /\ Good(e) /\ e.bg_queue = fc.bg_queue /\ e.req[r] = x
      /\ \A s \in Requests : s # r => Same(fc, e, s)
  BY <1>0, <1>4, <1>5, ReqEffect
<1>8. e \in Conn BY <1>7 DEF Good
<1>9. fc' = Unlisted(e, r) BY <1>4, <1>6, <1>7, <1>8, RequestEndCases
<1>10. /\ fc'.req[r] = [x EXCEPT !.state = "FINISHED", !.end = FALSE]
       /\ \A s \in Requests : s # r => Same(e, fc', s)
  BY <1>7, <1>9, UnlistedEffect
<1>11. SameTally(fc, e) BY <1>0, <1>5, RecordChange
<1>12. SameTally(e, fc') BY <1>2, <1>7, <1>8, <1>9, OperatorTally
<1>13. SameTally(fc, fc') BY <1>11, <1>12, SameTallyTrans
<1>14. OtherRecords(fc, fc', r) BY <1>7, <1>10 DEF OtherRecords, Same
<1>15. SameShare(fc.req[r], fc'.req[r])
  <2>1. /\ ~ fc'.req[r].background /\ fc'.req[r].waiting = x.waiting
        /\ fc'.req[r].count = x.count
    BY <1>4, <1>10 DEF Req
  <2>2. fc'.req[r].background = fc.req[r].background
    <3>1. fc'.req[r].background = x.background /\ x.background = fc.req[r].background
      BY <1>0, <1>3, <1>4, <1>10 DEF Req
    <3> QED BY <3>1
  <2> QED BY <1>4, <2>1, <2>2 DEF SameShare
<1> QED BY <1>1, <1>13, <1>14, <1>15, CallerShares DEF NotGetting

\* Every step of a caller.
LEMMA CallerTally ==
  ASSUME Inv, Balance, NEW r \in Requests, Caller(r)
  PROVE  Balance'
BY GetTally, AllocTally, RequestSendTally, RefusedWaitTally, BailOutTally, PutRequestTally,
   SendBackgroundTally, SendRefusedTally, SendNotifyReplyTally DEF Caller

-----------------------------------------------------------------------------
\* A request whose share in the counters does not change.
LEMMA TallyShares ==
  ASSUME NEW c \in Conn, NEW d, NEW W, NEW G, NEW r \in Requests, Tallied(c, W, G),
         SameTally(c, d), OtherRecords(c, d, r), SameShare(c.req[r], d.req[r])
  PROVE  Tallied(d, W, G)
<1>1. r \in ChargedIn(d, W) <=> r \in ChargedIn(c, W) BY DEF ChargedIn, SameShare
<1>2. r \in CountedIn(d, G) <=> r \in CountedIn(c, G) BY DEF CountedIn, SameShare
<1>3. Elsewhere(c, d, W, W, G, G, r) BY DEF Elsewhere, OtherRecords
<1> QED BY <1>1, <1>2, <1>3, TalliedSame

LEMMA DischargedTally ==
  ASSUME NEW c \in Conn, NEW r \in Requests, ~ Member(c.bg_queue, r)
  PROVE  /\ Discharged(c, r).num_background = c.num_background - 1
         /\ Discharged(c, r).active_background = c.active_background - 1
         /\ Discharged(c, r).num_waiting = c.num_waiting
         /\ Discharged(c, r).forget_batch = c.forget_batch
         /\ Len(Discharged(c, r).bg_queue) = Len(c.bg_queue)
         /\ Discharged(c, r).bg_queue = Unlisted(c, r).bg_queue
<1>1. PICK u : u = Unlisted(c, r) OBVIOUS
<1>2. u \in Conn /\ SameTally(c, u) BY <1>1, UnlistedType, OperatorTally
<1>3. {"num_background", "active_background", "num_waiting", "forget_batch",
       "bg_queue", "req"} \subseteq DOMAIN u
  BY <1>2, TallyDomains
<1> DEFINE d == Discharged(c, r)
<1>4. /\ d.num_background = u.num_background - 1
      /\ d.active_background = u.active_background - 1
      /\ d.num_waiting = u.num_waiting /\ d.forget_batch = u.forget_batch
      /\ d.bg_queue = u.bg_queue
  BY <1>1, <1>3 DEF Discharged
<1> QED BY <1>1, <1>2, <1>4 DEF SameTally

LEMMA RequestEndTally ==
  ASSUME NEW c, Good(c), NEW r \in Requests, NEW W, NEW V, NEW G, Tallied(c, W, G),
         ~ Member(c.bg_queue, r), V \ {r} = W \ {r}, r \notin V,
         c.req[r].background => r \in ChargedIn(c, W),
         \A s \in Requests : Member(c.bg_queue, s) =>
           s \notin G /\ c.req[s].count > 0 /\ c.req[s].state # "FINISHED"
  PROVE  Tallied(request_end(c, r), V, G)
<1>1. c \in Conn /\ c.req \in [Requests -> Req] /\ c.req[r] \in Req
  BY ConnFields DEF Good
<1>2. /\ c.num_background \in Int /\ c.active_background \in Int /\ c.num_waiting \in Int
      /\ Len(c.bg_queue) \in Int
  BY <1>1, ConnFields, LenProperties
<1> DEFINE p == c.req[r]
           q == [p EXCEPT !.state = "FINISHED", !.end = FALSE]
<1>3. /\ q.background = p.background /\ q.waiting = p.waiting /\ q.count = p.count
      /\ q.state = "FINISHED"
  BY <1>1 DEF Req
<1> HIDE DEF q
<1>4. CASE ~ p.background
  <2>1. PICK d : d = Unlisted(c, r) OBVIOUS
  <2>2. request_end(c, r) = d BY <1>1, <1>4, <2>1, RequestEndCases
  <2>3. /\ d.req[r] = q /\ \A s \in Requests : s # r => Same(c, d, s)
    BY <2>1, UnlistedEffect DEF q
  <2>4. SameTally(c, d) BY <1>1, <2>1, OperatorTally
  <2>5. Elsewhere(c, d, W, V, G, G, r) BY <2>3 DEF Elsewhere, Same
  <2>6. r \in ChargedIn(d, V) <=> r \in ChargedIn(c, W) BY <1>3, <1>4, <2>3 DEF ChargedIn
  <2>7. r \in CountedIn(d, G) <=> r \in CountedIn(c, G) BY <1>3, <2>3 DEF CountedIn
  <2> QED BY <1>1, <2>2, <2>4, <2>5, <2>6, <2>7, TalliedSame
<1>5. CASE p.background
  <2>1. PICK d : d = Discharged(c, r) OBVIOUS
  <2>2. request_end(c, r) = flush_bg_queue(d) BY <1>1, <1>5, <2>1, RequestEndCases
  <2>3. /\ Good(d) /\ Off(d, r) /\ d.req[r] = q
        /\ \A s \in Requests : s # r => Same(c, d, s)
    BY <2>1, DischargedEffect DEF q
  <2>4. /\ d.num_background = c.num_background - 1
        /\ d.active_background = c.active_background - 1
        /\ d.num_waiting = c.num_waiting /\ d.forget_batch = c.forget_batch
        /\ Len(d.bg_queue) = Len(c.bg_queue)
    BY <1>1, <2>1, DischargedTally
  <2>5. r \in ChargedIn(c, W) BY <1>5
  <2>6. r \notin ChargedIn(d, V) BY <1>3, <2>3 DEF ChargedIn
  <2>7. r \in CountedIn(d, G) <=> r \in CountedIn(c, G) BY <1>3, <2>3 DEF CountedIn
  <2>8. d.num_waiting = c.num_waiting + One(r \in CountedIn(d, G)) - One(r \in CountedIn(c, G))
    <3>1. CASE r \in CountedIn(c, G) BY <1>2, <2>4, <2>7, <3>1 DEF One
    <3>2. CASE r \notin CountedIn(c, G) BY <1>2, <2>4, <2>7, <3>2 DEF One
    <3> QED BY <3>1, <3>2
  <2>9. d.num_background =
          c.num_background + One(r \in ChargedIn(d, V)) - One(r \in ChargedIn(c, W))
    BY <1>2, <2>4, <2>5, <2>6 DEF One
  <2>10. /\ c.active_background + Len(c.bg_queue) = c.num_background
         /\ c.forget_batch \in (1 - RequestBatch) .. ForgetBatch
    BY DEF Tallied
  <2>11. d.active_background + Len(d.bg_queue) = d.num_background
    BY <1>2, <2>4, <2>10
  <2>12. Accounted(c, d, W, V, G, G, r) BY <2>4, <2>8, <2>9, <2>10, <2>11 DEF Accounted
  <2>13. Elsewhere(c, d, W, V, G, G, r) BY <2>3 DEF Elsewhere, Same
  <2>14. Tallied(d, V, G) BY <2>12, <2>13, TalliedOne
  <2>15. ASSUME NEW s \in Requests, Member(d.bg_queue, s)
         PROVE  s \notin G /\ d.req[s].count > 0 /\ d.req[s].state # "FINISHED"
    <3>1. s # r BY <2>3, <2>15 DEF Off
    <3>2. Member(c.bg_queue, s) /\ d.req[s] = c.req[s] BY <2>3, <2>15, <3>1 DEF Same
    <3> QED BY <3>2
  <2> QED BY <2>2, <2>3, <2>14, <2>15, FlushTally
<1> QED BY <1>4, <1>5

-----------------------------------------------------------------------------
(***************************************************************************)
(* Steps of the daemon.                                                    *)
(***************************************************************************)
LEMMA GettingRests == ASSUME UNCHANGED task PROVE Getting' = Getting
BY DEF Getting

LEMMA CopiedMoves ==
  ASSUME TypeOK, NEW d \in Thread, NEW t, thread' = [thread EXCEPT ![d] = t],
         NEW r, thread[d].pc \in {"read", "write"} => thread[d].req = r,
         t.pc \in {"read", "write"} => t.req = r
  PROVE  /\ Copied' \ {r} = Copied \ {r}
         /\ Busy(r) \subseteq {d} /\ t.pc \notin {"read", "write"} => r \notin Copied'
<1>1. thread'[d] = t /\ \A e \in Thread : e # d => thread'[e] = thread[e]
  BY DEF TypeOK
<1>2. ASSUME NEW s \in Requests, s # r
      PROVE  s \in Copied' <=> s \in Copied
  <2>1. \A e \in Thread : thread'[e].pc \in {"read", "write"} /\ thread'[e].req = s
                           <=> thread[e].pc \in {"read", "write"} /\ thread[e].req = s
    BY <1>1, <1>2
  <2> QED BY <2>1 DEF Copied
<1>3. ASSUME Busy(r) \subseteq {d}, t.pc \notin {"read", "write"}
      PROVE  r \notin Copied'
  <2>1. \A e \in Thread : ~ (thread'[e].pc \in {"read", "write"} /\ thread'[e].req = r)
    BY <1>1, <1>3 DEF Busy
  <2> QED BY <2>1 DEF Copied
<1>4. Copied \subseteq Requests /\ Copied' \subseteq Requests BY DEF Copied
<1> QED BY <1>2, <1>3, <1>4

LEMMA CopiedSame ==
  ASSUME TypeOK, NEW d \in Thread, NEW t, thread' = [thread EXCEPT ![d] = t],
         \/ thread[d].pc \notin {"read", "write"} /\ t.pc \notin {"read", "write"}
         \/ t.pc = thread[d].pc /\ t.req = thread[d].req
  PROVE  Copied' = Copied
<1>1. thread'[d] = t /\ \A e \in Thread : e # d => thread'[e] = thread[e]
  BY DEF TypeOK
<1>2. ASSUME NEW s
      PROVE  \A e \in Thread : thread'[e].pc \in {"read", "write"} /\ thread'[e].req = s
                           <=> thread[e].pc \in {"read", "write"} /\ thread[e].req = s
  BY <1>1
<1> QED BY <1>2 DEF Copied

\* Nobody looks at who copies a request that is not finished.
LEMMA CopiesTally ==
  ASSUME NEW c \in Conn, NEW r \in Requests, NEW W, NEW V, NEW G, Tallied(c, W, G),
         V \ {r} = W \ {r}, c.req[r].state # "FINISHED"
  PROVE  Tallied(c, V, G)
<1>1. SameTally(c, c) BY DEF SameTally
<1>2. r \in ChargedIn(c, V) <=> r \in ChargedIn(c, W) BY DEF ChargedIn
<1>3. Elsewhere(c, c, W, V, G, G, r) BY DEF Elsewhere
<1> QED BY <1>1, <1>2, <1>3, TalliedSame

\* A thread ends a request it had in its hands, or has just taken.
LEMMA EndByTally ==
  ASSUME Inv, NEW d \in Thread, NEW r \in Requests, NEW c, Good(c),
         Tallied(c, Copied, Getting), \A s \in Requests : s # r => Same(fc, c, s),
         EndBy(d, c, r), UNCHANGED task, Busy(r) \subseteq {d},
         thread[d].pc \in {"read", "write"} => thread[d].req = r,
         ~ Member(c.bg_queue, r),
         c.req[r].background /\ c.req[r].state = "FINISHED" => r \in Copied
  PROVE  Balance'
<1> DEFINE t == [Idle EXCEPT !.pc = "end", !.req = r, !.end = fc.req[r].end]
<1>1. fc' = request_end(c, r) /\ thread' = [thread EXCEPT ![d] = t] BY DEF EndBy
<1>2. t.pc = "end" BY DEF Idle
<1> HIDE DEF t
<1>3. TypeOK BY InvTypes
<1>4. Copied' \ {r} = Copied \ {r} /\ r \notin Copied' BY <1>1, <1>2, <1>3, CopiedMoves
<1>5. c.req[r].background => r \in ChargedIn(c, Copied) BY DEF ChargedIn
<1>6. ASSUME NEW s \in Requests, Member(c.bg_queue, s)
      PROVE  s \notin Getting /\ c.req[s].count > 0 /\ c.req[s].state # "FINISHED"
  <2>1. s # r BY <1>6
  <2>2. Member(fc.bg_queue, s) /\ c.req[s] = fc.req[s] BY <1>6, <2>1 DEF Same
  <2> QED BY <2>2, QueuedBackground
<1>7. PICK V : V = Copied' OBVIOUS
<1>8. Tallied(request_end(c, r), V, Getting) BY <1>4, <1>5, <1>6, <1>7, RequestEndTally
<1>9. Getting' = Getting BY GettingRests
<1> QED BY <1>1, <1>7, <1>8, <1>9 DEF Balance

LEMMA CopyOverTally ==
  ASSUME Inv, Balance, NEW d \in Thread, NEW r \in Requests,
         thread[d].pc \in {"read", "write"}, r = thread[d].req, NEW bad,
         EndBy(d, IF bad THEN [[fc EXCEPT !.req[r].locked = FALSE]
                                 EXCEPT !.req[r].error = "EIO"]
                  ELSE [fc EXCEPT !.req[r].locked = FALSE], r),
         UNCHANGED task
  PROVE  Balance'
<1> DEFINE w == IF bad THEN "EIO" ELSE fc.req[r].error
           x == [fc.req[r] EXCEPT !.locked = FALSE, !.error = w]
           c == [fc EXCEPT !.req[r] = x]
<1>0. fc \in Conn /\ Good(fc) /\ fc.req[r] \in Req BY InvTypes
<1>1. EndBy(d, c, r) BY EndByError
<1>2. w \in Error BY <1>0, Errors DEF Req
<1> HIDE DEF w
<1>3. x \in Req /\ SameShare(fc.req[r], x) BY <1>0, <1>2 DEF Req, SameShare
<1> HIDE DEF x
<1>4. /\ Good(c) /\ c.bg_queue = fc.bg_queue /\ c.req[r] = x
      /\ \A s \in Requests : s # r => Same(fc, c, s)
  BY <1>0, <1>3, ReqEffect
<1>5. SameTally(fc, c) BY <1>0, RecordChange
<1> HIDE DEF c
<1>6. OtherRecords(fc, c, r) BY <1>4, SameOthers
<1>7. Tallied(c, Copied, Getting) BY <1>0, <1>3, <1>4, <1>5, <1>6, TallyShares DEF Balance
<1>8. Worker(r) = thread[d] /\ Busy(r) = {d} /\ PerRequest(r) /\ fc.req[r].state # "INIT"
  BY AtWork
<1>9. ~ Member(fc.bg_queue, r) BY <1>8 DEF PerRequest, Placed
<1>10. r \in Copied BY <1>8, CopiedIs
<1> QED BY <1>1, <1>4, <1>7, <1>8, <1>9, <1>10, EndByTally

LEMMA WriteFinishTally ==
  ASSUME Inv, Balance, NEW d \in Thread, WriteFinish(d)
  PROVE  Balance'
<1>1. PICK r : r = thread[d].req OBVIOUS
<1>2. thread[d].pc = "write" /\ UNCHANGED task BY DEF WriteFinish, CopyOver
<1>3. r \in Requests BY <1>1, <1>2, AtWork
<1>4. PICK bad : bad = (thread[d].phase = "failed"
                        /\ ~ [fc EXCEPT !.req[r].locked = FALSE].req[r].aborted)
  OBVIOUS
<1>5. EndBy(d, IF bad THEN [[fc EXCEPT !.req[r].locked = FALSE]
                               EXCEPT !.req[r].error = "EIO"]
               ELSE [fc EXCEPT !.req[r].locked = FALSE], r)
  BY <1>1, <1>4 DEF WriteFinish
<1> QED BY <1>1, <1>2, <1>3, <1>5, CopyOverTally

\* A request passed to the daemon, or its answer taken: it is not finished yet.
LEMMA PassedTally ==
  ASSUME Inv, Balance, NEW d \in Thread, NEW t, thread' = [thread EXCEPT ![d] = t],
         NEW r \in Requests, thread[d].pc \in {"read", "write"} => thread[d].req = r,
         t.pc \in {"read", "write"} => t.req = r, UNCHANGED task,
         SameTally(fc, fc'), OtherRecords(fc, fc', r), SameShare(fc.req[r], fc'.req[r]),
         fc' \in Conn, fc'.req[r].state # "FINISHED"
  PROVE  Balance'
<1>1. fc \in Conn /\ TypeOK BY InvTypes
<1>2. PICK e : e = fc' OBVIOUS
<1>3. Tallied(e, Copied, Getting) BY <1>1, <1>2, TallyShares DEF Balance
<1>4. PICK V : V = Copied' OBVIOUS
<1>5. V \ {r} = Copied \ {r} BY <1>1, <1>4, CopiedMoves
<1>6. Tallied(e, V, Getting) BY <1>2, <1>3, <1>5, CopiesTally
<1>7. Getting' = Getting BY GettingRests
<1> QED BY <1>2, <1>4, <1>6, <1>7 DEF Balance

LEMMA DeliverTally ==
  ASSUME Inv, Balance, NEW d \in Thread, NEW r \in Requests, thread[d].pc = "read",
         thread[d].req = r, ~ fc.req[r].aborted,
         fc' = Delivered([fc EXCEPT !.req[r].locked = FALSE], r),
         thread' = [thread EXCEPT ![d] = Idle], UNCHANGED task
  PROVE  Balance'
<1>0. fc \in Conn /\ Good(fc) /\ fc.req[r] \in Req BY InvTypes
<1>1. PICK x : x = [fc.req[r] EXCEPT !.locked = FALSE] OBVIOUS
<1>2. PICK c : c = [fc EXCEPT !.req[r] = x] OBVIOUS
<1>3. fc' = Delivered(c, r)
  <2>1. c = [fc EXCEPT !.req[r].locked = FALSE] BY <1>1, <1>2
  <2> QED BY <2>1
<1>4. x \in Req /\ SameShare(fc.req[r], x) /\ x.state = fc.req[r].state
  BY <1>0, <1>1 DEF Req, SameShare
<1>5. /\ Good(c) /\ c.bg_queue = fc.bg_queue /\ c.req[r] = x
      /\ \A s \in Requests : s # r => Same(fc, c, s)
  BY <1>0, <1>2, <1>4, ReqEffect
<1>6. c \in Conn /\ SameTally(fc, c) BY <1>0, <1>2, <1>5, RecordChange DEF Good
<1>7. PerRequest(r) /\ fc.req[r].state # "INIT" /\ Worker(r) = thread[d] BY AtWork
<1>8. ~ Member(fc.bg_queue, r) /\ fc.req[r].state = "READING"
  BY <1>7 DEF PerRequest, Placed, Worked
<1>9. SameTally(c, fc') BY <1>3, <1>5, <1>6, <1>8, OperatorTally
<1>10. /\ Good(fc') /\ fc'.req[r] = [x EXCEPT !.state = "SENT"]
       /\ \A s \in Requests : s # r => Same(c, fc', s)
  <2>1. /\ Good(Delivered(c, r)) /\ Delivered(c, r).req[r] = [c.req[r] EXCEPT !.state = "SENT"]
        /\ \A s \in Requests : s # r => Same(c, Delivered(c, r), s)
    BY <1>5, DeliveredEffect
  <2> QED BY <1>3, <1>5, <2>1
<1>11. SameShare(fc.req[r], fc'.req[r]) /\ fc'.req[r].state = "SENT"
  <2>1. PICK y : y = fc'.req[r] OBVIOUS
  <2>2. /\ y.background = x.background /\ y.waiting = x.waiting /\ y.count = x.count
        /\ y.state = "SENT"
    BY <1>4, <1>10, <2>1 DEF Req
  <2>3. x.state # "FINISHED" BY <1>4, <1>8
  <2>4. SameShare(fc.req[r], y) BY <1>4, <2>2, <2>3 DEF SameShare
  <2> QED BY <2>1, <2>2, <2>4
<1>12. OtherRecords(fc, fc', r)
  <2>1. ASSUME NEW s \in Requests, s # r PROVE fc'.req[s] = fc.req[s]
    <3>1. Same(fc, c, s) /\ Same(c, fc', s) BY <1>5, <1>10, <2>1
    <3> QED BY <3>1 DEF Same
  <2> QED BY <2>1 DEF OtherRecords
<1>13. SameTally(fc, fc') BY <1>6, <1>9, SameTallyTrans
<1>14. Idle.pc = "idle" BY DEF Idle
<1>15. fc' \in Conn BY <1>10 DEF Good
<1> QED BY <1>11, <1>12, <1>13, <1>14, <1>15, PassedTally

LEMMA ReadFinishTally ==
  ASSUME Inv, Balance, NEW d \in Thread, ReadFinish(d)
  PROVE  Balance'
<1>1. PICK r : r = thread[d].req OBVIOUS
<1>2. PICK p : p = fc.req[r] OBVIOUS
<1>3. thread[d].pc = "read" /\ UNCHANGED task BY DEF ReadFinish, CopyOver
<1>4. r \in Requests /\ p \in Req /\ fc \in Conn BY <1>1, <1>2, <1>3, AtWork
<1>5. PICK c : c = [fc EXCEPT !.req[r].locked = FALSE] OBVIOUS
<1>6. c.req[r].aborted = p.aborted BY <1>2, <1>4, <1>5 DEF Conn, Req
<1>7. PICK failed : failed = (thread[d].phase = "failed") OBVIOUS
<1>8. CASE p.aborted \/ failed \/ r \in NotifyReply
  <2>1. PICK bad : bad = (failed /\ ~ p.aborted) OBVIOUS
  <2>2. EndBy(d, IF bad THEN [c EXCEPT !.req[r].error = "EIO"] ELSE c, r)
    BY <1>1, <1>5, <1>6, <1>7, <1>8, <2>1 DEF ReadFinish
  <2> QED BY <1>1, <1>3, <1>4, <1>5, <2>2, CopyOverTally
<1>9. CASE ~ (p.aborted \/ failed \/ r \in NotifyReply)
  <2>1. fc' = Delivered(c, r) /\ thread' = [thread EXCEPT ![d] = Idle]
    BY <1>1, <1>5, <1>6, <1>7, <1>9 DEF ReadFinish
  <2> QED BY <1>1, <1>2, <1>3, <1>4, <1>5, <1>9, <2>1, DeliverTally
<1> QED BY <1>8, <1>9

LEMMA WriteReplyTally ==
  ASSUME Inv, Balance, NEW d \in Thread, NEW m \in inbox, WriteReply(d, m)
  PROVE  Balance'
<1>0. fc \in Conn /\ Good(fc) BY InvTypes
<1>1. PICK r \in Requests : /\ Found(d, m, r) /\ fc' = Replied(fc, r)
                            /\ Move(d, "write", r, "locked")
  BY DEF WriteReply
<1> DEFINE t == [Idle EXCEPT !.pc = "write", !.req = r, !.phase = "locked"]
<1>2. thread[d].pc = "idle" /\ UNCHANGED task /\ r \in fc.processing
  BY <1>1 DEF Found, Writer, request_find
<1>3. thread' = [thread EXCEPT ![d] = t] BY <1>1 DEF Move
<1>4. t.pc = "write" /\ t.req = r BY DEF Idle
<1> HIDE DEF t
<1>5. PerRequest(r) /\ fc.req[r] \in Req BY InvTypes DEF Inv
<1>6. fc.req[r].state = "SENT" /\ ~ Member(fc.bg_queue, r)
  BY <1>2, <1>5 DEF PerRequest, Placed
<1>7. SameTally(fc, fc') BY <1>0, <1>1, <1>6, OperatorTally
<1>8. /\ Good(fc')
      /\ fc'.req[r] = [fc.req[r] EXCEPT !.state = "WRITING", !.error = "REPLY", !.locked = TRUE]
      /\ \A s \in Requests : s # r => Same(fc, fc', s)
  BY <1>0, <1>1, RepliedEffect
<1>9. SameShare(fc.req[r], fc'.req[r]) /\ fc'.req[r].state = "WRITING"
  BY <1>5, <1>6, <1>8 DEF SameShare, Req
<1>10. OtherRecords(fc, fc', r) BY <1>8, SameOthers
<1>11. fc' \in Conn BY <1>8 DEF Good
<1> QED BY <1>2, <1>3, <1>4, <1>7, <1>9, <1>10, <1>11, PassedTally

\* A request taken from pending: forget_batch stays within its bounds.
LEMMA TakeTally ==
  ASSUME Inv, Balance, fc.pending # <<>>, NEW r, r = Head(fc.pending)
  PROVE  /\ r \in Requests /\ Good(TakeRequest) /\ Tallied(TakeRequest, Copied, Getting)
         /\ TakeRequest.req[r] = [fc.req[r] EXCEPT !.state = "READING"]
         /\ \A s \in Requests : s # r => Same(fc, TakeRequest, s)
         /\ ~ Member(TakeRequest.bg_queue, r) /\ fc.req[r] \in Req /\ Busy(r) = {}
<1>0. fc \in Conn /\ fc.req \in [Requests -> Req] /\ TypeInv /\ Good(fc)
  BY InvTypes DEF Inv
<1>1. /\ r \in Requests /\ Good(TakeRequest) /\ Member(fc.pending, r)
      /\ TakeRequest.req[r] = [fc.req[r] EXCEPT !.state = "READING"]
      /\ \A s \in Requests : s # r => Same(fc, TakeRequest, s)
      /\ ~ Member(TakeRequest.bg_queue, r)
  BY <1>0, TakeRequestEffect
<1>2. fc.req[r].state = "PENDING" /\ fc.req[r].error # "EINTR"
  BY <1>1 DEF Inv, PerRequest, Placed
<1>3. Busy(r) = {} /\ fc.req[r] \in Req BY <1>1, <1>2, InQueue
<1>4. ~ Member(fc.bg_queue, r) BY <1>1, <1>2 DEF Inv, PerRequest, Placed
<1>5. PICK t : t = TakeRequest OBVIOUS
<1>6. PICK n : n = NextBatch OBVIOUS
<1>7. /\ t.num_background = fc.num_background /\ t.active_background = fc.active_background
      /\ t.num_waiting = fc.num_waiting /\ t.forget_batch = n
      /\ Len(t.bg_queue) = Len(fc.bg_queue)
  <2>1. PICK e : e = list_del(fc, r) OBVIOUS
  <2>2. e \in Conn /\ SameTally(fc, e) BY <1>0, <1>1, <1>4, <2>1, ListDelType, ListDelTally
  <2>3. t = [e EXCEPT !.io = @ \cup {r}, !.req[r].state = "READING", !.forget_batch = n]
    BY <1>5, <1>6, <2>1 DEF TakeRequest
  <2>4. /\ t.num_background = e.num_background /\ t.active_background = e.active_background
        /\ t.num_waiting = e.num_waiting /\ t.forget_batch = n /\ t.bg_queue = e.bg_queue
    BY <2>2, <2>3, TallyDomains
  <2> QED BY <2>2, <2>4 DEF SameTally
<1>8. n \in (1 - RequestBatch) .. ForgetBatch
  <2>1. fc.forget_batch \in (1 - RequestBatch) .. ForgetBatch BY BalanceInt
  <2> QED BY <1>6, <2>1, BoundAssumption DEF NextBatch
<1>9. /\ t.req[r].state = "READING" /\ t.req[r].background = fc.req[r].background
      /\ t.req[r].waiting = fc.req[r].waiting /\ t.req[r].count = fc.req[r].count
  BY <1>1, <1>3, <1>5 DEF Req
<1>10. r \in ChargedIn(t, Copied) <=> r \in ChargedIn(fc, Copied)
  BY <1>2, <1>9 DEF ChargedIn
<1>11. r \in CountedIn(t, Getting) <=> r \in CountedIn(fc, Getting) BY <1>9 DEF CountedIn
<1>12. Elsewhere(fc, t, Copied, Copied, Getting, Getting, r)
  BY <1>1, <1>5 DEF Elsewhere, Same
<1>13. t.num_background =
         fc.num_background + One(r \in ChargedIn(t, Copied)) - One(r \in ChargedIn(fc, Copied))
  <2>1. CASE r \in ChargedIn(fc, Copied) BY <1>7, <1>10, <2>1, BalanceInt DEF One
  <2>2. CASE r \notin ChargedIn(fc, Copied) BY <1>7, <1>10, <2>2, BalanceInt DEF One
  <2> QED BY <2>1, <2>2
<1>14. t.num_waiting =
         fc.num_waiting + One(r \in CountedIn(t, Getting)) - One(r \in CountedIn(fc, Getting))
  <2>1. CASE r \in CountedIn(fc, Getting) BY <1>7, <1>11, <2>1, BalanceInt DEF One
  <2>2. CASE r \notin CountedIn(fc, Getting) BY <1>7, <1>11, <2>2, BalanceInt DEF One
  <2> QED BY <2>1, <2>2
<1>15. Accounted(fc, t, Copied, Copied, Getting, Getting, r)
  BY <1>7, <1>8, <1>13, <1>14, BalanceInt DEF Accounted
<1>16. Tallied(t, Copied, Getting) BY <1>12, <1>15, TalliedOne DEF Balance
<1> QED BY <1>1, <1>3, <1>5, <1>16

LEMMA ReadRequestTally ==
  ASSUME Inv, Balance, NEW d \in Thread, ReadRequest(d)
  PROVE  Balance'
<1>1. PICK r : r = Head(fc.pending) OBVIOUS
<1> DEFINE t == [Idle EXCEPT !.pc = "read", !.req = r, !.phase = "start"]
<1>2. /\ thread[d].pc = "idle" /\ fc.pending # <<>> /\ UNCHANGED task
      /\ fc' = TakeRequest /\ thread' = [thread EXCEPT ![d] = t]
  BY <1>1 DEF ReadRequest, ReadyToRead, Reader, Move
<1>3. t.pc = "read" /\ t.req = r BY DEF Idle
<1> HIDE DEF t
<1>4. /\ r \in Requests /\ fc' \in Conn /\ Tallied(fc', Copied, Getting)
      /\ fc'.req[r].state = "READING"
  <2>1. /\ r \in Requests /\ Good(TakeRequest) /\ Tallied(TakeRequest, Copied, Getting)
        /\ TakeRequest.req[r] = [fc.req[r] EXCEPT !.state = "READING"] /\ fc.req[r] \in Req
    BY <1>1, <1>2, TakeTally
  <2>2. TakeRequest.req[r].state = "READING" BY <2>1 DEF Req
  <2> QED BY <1>2, <2>1, <2>2 DEF Good
<1>5. TypeOK BY InvTypes
<1>6. PICK V : V = Copied' OBVIOUS
<1>7. V \ {r} = Copied \ {r} BY <1>2, <1>3, <1>5, <1>6, CopiedMoves
<1>8. PICK e : e = fc' OBVIOUS
<1>9. Tallied(e, V, Getting) BY <1>4, <1>7, <1>8, CopiesTally
<1>10. Getting' = Getting BY <1>2, GettingRests
<1> QED BY <1>6, <1>8, <1>9, <1>10 DEF Balance

LEMMA ReadTooLargeTally ==
  ASSUME Inv, Balance, NEW d \in Thread, ReadTooLarge(d)
  PROVE  Balance'
<1>1. PICK r : r = Head(fc.pending) OBVIOUS
<1>2. PICK e : e = TakeRequest OBVIOUS
<1>3. PICK x : x = [e.req[r] EXCEPT !.error = "EIO"] OBVIOUS
<1>4. PICK c : c = [e EXCEPT !.req[r] = x] OBVIOUS
<1>5. fc.pending # <<>> /\ thread[d].pc = "idle" /\ UNCHANGED task
  BY DEF ReadTooLarge, ReadyToRead, Reader
<1>6. EndBy(d, c, r)
  <2>1. EndBy(d, [TakeRequest EXCEPT !.req[r].error = "EIO"], r) BY <1>1 DEF ReadTooLarge
  <2>2. c = [TakeRequest EXCEPT !.req[r].error = "EIO"] BY <1>2, <1>3, <1>4
  <2> QED BY <2>1, <2>2
<1>7. /\ r \in Requests /\ Good(e) /\ Tallied(e, Copied, Getting)
      /\ e.req[r] = [fc.req[r] EXCEPT !.state = "READING"]
      /\ \A s \in Requests : s # r => Same(fc, e, s)
      /\ ~ Member(e.bg_queue, r) /\ fc.req[r] \in Req /\ Busy(r) = {}
  BY <1>1, <1>2, <1>5, TakeTally
<1>8. e \in Conn /\ e.req[r] \in Req BY <1>7, ConnFields DEF Good
<1>9. e.req[r].state = "READING" BY <1>7 DEF Req
<1>10. x \in Req /\ SameShare(e.req[r], x) /\ x.state = "READING"
  BY <1>3, <1>8, <1>9, Errors DEF Req, SameShare
<1>11. /\ Good(c) /\ c.bg_queue = e.bg_queue /\ c.req[r] = x
       /\ \A s \in Requests : s # r => Same(e, c, s)
  BY <1>4, <1>7, <1>10, ReqEffect
<1>12. SameTally(e, c) BY <1>4, <1>7, <1>8, RecordChange
<1>13. OtherRecords(e, c, r) BY <1>11, SameOthers
<1>14. Tallied(c, Copied, Getting)
  BY <1>7, <1>8, <1>10, <1>11, <1>12, <1>13, TallyShares
<1>15. \A s \in Requests : s # r => Same(fc, c, s) BY <1>7, <1>11 DEF Same
<1> QED BY <1>5, <1>6, <1>7, <1>10, <1>11, <1>14, <1>15, EndByTally

LEMMA ThreadEndTally ==
  ASSUME Inv, Balance, NEW d \in Thread, ThreadEnd(d)
  PROVE  Balance'
<1>0. fc \in Conn /\ Good(fc) /\ TypeOK BY InvTypes
<1>1. PICK r : r = thread[d].req OBVIOUS
<1>2. /\ thread[d].pc = "end" /\ thread' = [thread EXCEPT ![d] = Idle] /\ UNCHANGED task
  BY DEF ThreadEnd
<1>3. PICK end : end = thread[d].end OBVIOUS
<1>4. end \in BOOLEAN BY <1>2, <1>3, ThreadRequest DEF Inv, TypeInv
<1>5. fc' = EndTail(fc, r, end) BY <1>1, <1>3 DEF ThreadEnd
<1>6. r \in Requests /\ OnDevice(r) /\ task[r] \notin Before
  BY <1>1, <1>2, AtWork
<1>7. fc.req[r].count >= 1 BY <1>6, HeldCount
<1>8. /\ fc'.req[r].state = fc.req[r].state
      /\ fc'.req[r].background = fc.req[r].background
      /\ fc'.req[r].count = fc.req[r].count - 1
      /\ \A s \in Requests : s # r => Same(fc, fc', s)
  BY <1>0, <1>4, <1>5, <1>6, EndTailEffect
<1>9. Dropped(fc, fc', r) BY <1>0, <1>4, <1>5, <1>6, <1>7, <1>8, EndTailTally DEF Dropped
<1>10. Copied' = Copied
  <2>1. Idle.pc = "idle" BY DEF Idle
  <2> QED BY <1>0, <1>2, <2>1, CopiedSame
<1>11. Getting' = Getting BY <1>2, GettingRests
<1>12. r \notin Getting BY <1>6 DEF Getting, Before
<1>13. Elsewhere(fc, fc', Copied, Copied, Getting, Getting, r)
  BY <1>8 DEF Elsewhere, Same
<1>14. Tallied(fc', Copied, Getting)
  BY <1>0, <1>6, <1>9, <1>12, <1>13, DroppedTally DEF Balance
<1> QED BY <1>10, <1>11, <1>14 DEF Balance

\* A copy that takes or gives back the lock of its request, or fails.
LEMMA PhaseTally ==
  ASSUME Inv, Balance, NEW d \in Thread, NEW phase, Phase(d, phase), UNCHANGED task,
         NEW r \in Requests, SameTally(fc, fc'), OtherRecords(fc, fc', r),
         SameShare(fc.req[r], fc'.req[r])
  PROVE  Balance'
<1>1. fc \in Conn /\ TypeOK BY InvTypes
<1>2. Copied' = Copied
  <2>1. PICK t : t = [thread[d] EXCEPT !.phase = phase] OBVIOUS
  <2>2. thread' = [thread EXCEPT ![d] = t] BY <2>1 DEF Phase
  <2>3. thread[d] \in ThreadState BY <1>1 DEF TypeOK
  <2>4. t.pc = thread[d].pc /\ t.req = thread[d].req BY <2>1, <2>3 DEF ThreadState
  <2> QED BY <1>1, <2>2, <2>4, CopiedSame
<1>3. Tallied(fc', Copied, Getting) BY <1>1, TallyShares DEF Balance
<1>4. Getting' = Getting BY GettingRests
<1> QED BY <1>2, <1>3, <1>4 DEF Balance

LEMMA CopyTally ==
  ASSUME Inv, Balance, NEW d \in Thread,
         lock_request(d) \/ unlock_request(d) \/ CopyFail(d) \/ WrongLength(d)
  PROVE  Balance'
<1>0. fc \in Conn /\ fc.req \in [Requests -> Req] BY InvTypes
<1>1. PICK r : r = thread[d].req OBVIOUS
<1>2. thread[d].pc \in {"read", "write"} /\ UNCHANGED task
  BY DEF lock_request, unlock_request, CopyFail, WrongLength, Copying
<1>3. r \in Requests BY <1>1, <1>2, AtWork
<1>4. \E phase : Phase(d, phase)
  BY DEF lock_request, unlock_request, CopyFail, WrongLength
<1>5. SameTally(fc, fc) /\ OtherRecords(fc, fc, r) /\ SameShare(fc.req[r], fc.req[r])
  BY DEF SameTally, OtherRecords, SameShare
<1>6. CASE fc' = fc BY <1>2, <1>3, <1>4, <1>5, <1>6, PhaseTally
<1>7. ASSUME NEW b, fc' = [fc EXCEPT !.req[r].locked = b] PROVE Balance'
  <2>1. PICK x : x = [fc.req[r] EXCEPT !.locked = b] OBVIOUS
  <2>2. fc' = [fc EXCEPT !.req[r] = x] BY <1>7, <2>1
  <2>3. fc.req[r] \in Req BY <1>0, <1>3
  <2>4. SameShare(fc.req[r], x) BY <2>1, <2>3 DEF SameShare, Req
  <2>5. SameTally(fc, fc') /\ OtherRecords(fc, fc', r) /\ fc'.req[r] = x
    BY <1>0, <1>3, <2>2, RecordChange
  <2> QED BY <1>2, <1>3, <1>4, <2>4, <2>5, PhaseTally
<1>8. ASSUME fc' = wake_up([fc EXCEPT !.req[r].locked = FALSE], r) PROVE Balance'
  <2>1. PICK x : x = [fc.req[r] EXCEPT !.locked = FALSE, !.asleep = FALSE] OBVIOUS
  <2>2. fc' = [fc EXCEPT !.req[r] = x] BY <1>0, <1>3, <1>8, <2>1 DEF wake_up, Conn
  <2>3. fc.req[r] \in Req BY <1>0, <1>3
  <2>4. SameShare(fc.req[r], x) BY <2>1, <2>3 DEF SameShare, Req
  <2>5. SameTally(fc, fc') /\ OtherRecords(fc, fc', r) /\ fc'.req[r] = x
    BY <1>0, <1>3, <2>2, RecordChange
  <2> QED BY <1>2, <1>3, <1>4, <2>4, <2>5, PhaseTally
<1>9. \/ fc' = fc \/ \E b : fc' = [fc EXCEPT !.req[r].locked = b]
      \/ fc' = wake_up([fc EXCEPT !.req[r].locked = FALSE], r)
  BY <1>1 DEF lock_request, unlock_request, CopyFail, WrongLength
<1> QED BY <1>6, <1>7, <1>8, <1>9

LEMMA ReadInterruptTally ==
  ASSUME Inv, Balance, NEW d \in Thread, ReadInterrupt(d)
  PROVE  Balance'
<1>0. fc \in Conn /\ fc.req \in [Requests -> Req] BY InvTypes
<1>1. PICK r : r = Head(fc.interrupts) OBVIOUS
<1>2. PICK u : u = fuse_get_unique(fc.reqctr, 1) OBVIOUS
<1>3. r \in Requests BY <1>0, <1>1, ConnFields, TailMember DEF ReadInterrupt
<1>4. PICK q : q = [fc.req[r] EXCEPT !.intr_unique = u] OBVIOUS
<1>5. fc' = [fc EXCEPT !.interrupts = Tail(@), !.reqctr = u, !.req[r] = q]
  BY <1>1, <1>2, <1>4 DEF ReadInterrupt
<1>6. fc.req[r] \in Req BY <1>0, <1>3
<1>7. SameShare(fc.req[r], q) BY <1>4, <1>6 DEF SameShare, Req
<1>8. SameTally(fc, fc') /\ fc'.req = [fc.req EXCEPT ![r] = q]
  BY <1>0, <1>5, TallyDomains DEF SameTally
<1>9. OtherRecords(fc, fc', r) /\ fc'.req[r] = q BY <1>0, <1>3, <1>8 DEF OtherRecords
<1>10. Tallied(fc', Copied, Getting)
  BY <1>0, <1>3, <1>7, <1>8, <1>9, TallyShares DEF Balance
<1>11. UNCHANGED <<task, thread>> BY DEF ReadInterrupt
<1> QED BY <1>10, <1>11 DEF Balance, Copied, Getting

LEMMA ReadForgetTally ==
  ASSUME Inv, Balance, NEW d \in Thread, ReadForget(d)
  PROVE  Balance'
<1>0. fc \in Conn BY InvTypes
<1>1. PICK n : fuse_read_forget(n) BY DEF ReadForget
<1>2. PICK e : e = dequeue_forget(fc, n) OBVIOUS
<1>3. PICK u : u = fuse_get_unique(e.reqctr, 1) OBVIOUS
<1>4. PICK b : b = IF fc.pending = <<>> THEN e.forget_batch ELSE e.forget_batch - 1 OBVIOUS
<1>5. fc' = [e EXCEPT !.reqctr = u, !.forget_batch = b]
  BY <1>1, <1>2, <1>3, <1>4 DEF fuse_read_forget
<1>6. /\ {"num_background", "active_background", "num_waiting", "forget_batch",
          "bg_queue", "req"} \subseteq DOMAIN e
      /\ e.req = fc.req /\ SameTally(fc, e)
  BY <1>0, <1>2, TallyDomains DEF dequeue_forget, SameTally
<1>7. /\ fc'.req = fc.req /\ fc'.forget_batch = b
      /\ fc'.num_background = fc.num_background
      /\ fc'.active_background = fc.active_background
      /\ fc'.num_waiting = fc.num_waiting /\ Len(fc'.bg_queue) = Len(fc.bg_queue)
  BY <1>5, <1>6 DEF SameTally
<1>8. e.forget_batch = fc.forget_batch BY <1>6 DEF SameTally
<1>9. fc.pending = <<>> \/ fc.forget_batch > 0 BY DEF ReadForget
<1>10. fc.forget_batch \in (1 - RequestBatch) .. ForgetBatch BY BalanceInt
<1>11. b \in (1 - RequestBatch) .. ForgetBatch
  BY <1>4, <1>8, <1>9, <1>10, BoundAssumption
<1>12. ChargedIn(fc', Copied) = ChargedIn(fc, Copied) BY <1>7 DEF ChargedIn
<1>13. CountedIn(fc', Getting) = CountedIn(fc, Getting) BY <1>7 DEF CountedIn
<1>14. Tallied(fc', Copied, Getting) BY <1>7, <1>11, <1>12, <1>13 DEF Balance, Tallied
<1>15. UNCHANGED <<task, thread>> BY DEF ReadForget
<1> QED BY <1>14, <1>15 DEF Balance, Copied, Getting

LEMMA QueueForgetTally ==
  ASSUME Inv, Balance, NEW f \in Forget, QueueForget(f)
  PROVE  Balance'
<1>0. fc \in Conn BY InvTypes
<1>1. SameTally(fc, fc') /\ fc'.req = fc.req
  BY <1>0, TallyDomains DEF QueueForget, SameTally
<1>2. UNCHANGED task /\ Copied' = Copied BY DEF QueueForget, Copied
<1> QED BY <1>1, <1>2, CountersRest

LEMMA WriteTally ==
  ASSUME Inv, Balance, NEW d \in Thread, NEW m \in inbox, Write(d, m)
  PROVE  Balance'
<1>0. fc \in Conn BY InvTypes
<1>1. CASE WriteReply(d, m) BY <1>1, WriteReplyTally
<1>2. CASE WriteNoEntry(d, m) \/ WriteInterruptReply(d, m)
  <2>1. UNCHANGED <<task, thread>>
    BY <1>2 DEF WriteNoEntry, WriteInterruptReply, Found, Writer
  <2>2. Copied' = Copied BY <2>1 DEF Copied
  <2>3. \/ fc' = fc \/ fc' = [fc EXCEPT !.no_interrupt = TRUE]
        \/ \E r \in Requests : fc' = queue_interrupt(fc, r)
    BY <1>2 DEF WriteNoEntry, WriteInterruptReply
  <2>4. SameTally(fc, fc') /\ fc'.req = fc.req
    BY <1>0, <2>3, TallyDomains DEF SameTally, queue_interrupt
  <2> QED BY <2>1, <2>2, <2>4, CountersRest
<1> QED BY <1>1, <1>2 DEF Write

LEMMA RetrieveTally ==
  ASSUME Inv, Balance, NEW d \in Thread, NEW r \in NotifyReply, Retrieve(d, r)
  PROVE  Balance'
<1>1. TypeOK /\ r \in Requests BY InvTypes DEF Requests
<1>2. PICK t : t = [Idle EXCEPT !.pc = "retrieve", !.req = r, !.phase = "start"] OBVIOUS
<1>3. t.pc = "retrieve" BY <1>2 DEF Idle
<1>4. StartGet(r) /\ thread[d].pc = "idle" /\ thread' = [thread EXCEPT ![d] = t]
  BY <1>2 DEF Retrieve, Move
<1>5. Copied' = Copied BY <1>1, <1>3, <1>4, CopiedSame
<1> QED BY <1>1, <1>4, <1>5, StartGetTally

\* Every step of a daemon thread.
LEMMA DaemonTally ==
  ASSUME Inv, Balance, NEW d \in Thread, Daemon(d)
  PROVE  Balance'
<1>1. CASE Inside(d)
  BY <1>1, CopyTally, ReadFinishTally, WriteFinishTally, ThreadEndTally DEF Inside
<1>2. CASE Read(d)
  BY <1>2, ReadInterruptTally, ReadForgetTally, ReadRequestTally, ReadTooLargeTally DEF Read
<1>3. CASE \E m \in inbox : Write(d, m) BY <1>3, WriteTally
<1>4. CASE \E r \in NotifyReply : Retrieve(d, r) BY <1>4, RetrieveTally
<1> QED BY <1>1, <1>2, <1>3, <1>4 DEF Daemon

-----------------------------------------------------------------------------
(***************************************************************************)
(* Steps of the abort.                                                     *)
(***************************************************************************)
LEMMA AbortKeeps ==
  ASSUME UNCHANGED <<task, thread>>, Tallied(fc', Copied, Getting)
  PROVE  Balance'
BY DEF Balance, Copied, Getting

LEMMA AbortQuietTally ==
  ASSUME Inv, Balance, AbortStart \/ AbortDone
  PROVE  Balance'
<1>0. fc \in Conn BY InvTypes
<1>1. SameTally(fc, fc') /\ fc'.req = fc.req
  BY <1>0, TallyDomains DEF AbortStart, AbortDone, SameTally
<1>2. UNCHANGED <<task, thread>> BY DEF AbortStart, AbortDone
<1>3. Tallied(fc', Copied, Getting) BY <1>1, TalliedRest DEF Balance
<1> QED BY <1>2, <1>3, AbortKeeps

\* A request that is being copied stays charged until the copy is over.
LEMMA AbortedTally ==
  ASSUME Inv, NEW r \in Requests, ~ Member(fc.bg_queue, r)
  PROVE  /\ SameTally(fc, Aborted(r)) /\ SameTally(fc, AbortedHeld(r))
         /\ Aborted(r).req[r].waiting = fc.req[r].waiting
         /\ AbortedHeld(r).req[r].waiting = fc.req[r].waiting
<1>0. fc \in Conn /\ fc.req \in [Requests -> Req] /\ fc.req[r] \in Req BY InvTypes
<1>1. PICK p : p = fc.req[r] OBVIOUS
<1>2. PICK l : l = list_del(fc, r) OBVIOUS
<1>3. l \in Conn /\ l.req = fc.req /\ SameTally(fc, l)
  BY <1>0, <1>2, ListDelFields, ListDelTally
<1>4. PICK x : x = [p EXCEPT !.aborted = TRUE, !.error = "ECONNABORTED",
                             !.state = "FINISHED", !.asleep = FALSE]
  OBVIOUS
<1>5. x \in Req /\ x.waiting = p.waiting
  <2>1. "ECONNABORTED" \in Error /\ "FINISHED" \in State BY DEF Error, State
  <2> QED BY <1>0, <1>1, <1>4, <2>1 DEF Req
<1>6. PICK f : f = SetRequest(l, r, x) OBVIOUS
<1>7. Aborted(r) = f
  <2>1. l.req[r] = p /\ l.req \in [Requests -> Req] BY <1>0, <1>1, <1>3
  <2>2. Aborted(r) = [l EXCEPT !.req = [l.req EXCEPT ![r] =
                        [l.req[r] EXCEPT !.aborted = TRUE, !.error = "ECONNABORTED",
                           !.state = "FINISHED", !.asleep = FALSE]]]
    BY <1>2, <1>3, <2>1 DEF Aborted, Conn
  <2> QED BY <1>4, <1>6, <2>1, <2>2 DEF SetRequest
<1>8. SameTally(l, f) /\ f.req[r] = x BY <1>3, <1>5, <1>6, SetTally
<1>9. f \in Conn BY <1>3, <1>5, <1>6, SetTally
<1>10. PICK b : b = p.locked OBVIOUS
<1>11. b \in BOOLEAN BY <1>0, <1>1, <1>10 DEF Req
<1>12. PICK y : y = HeldRequest(x, b) OBVIOUS
<1>13. y.waiting = x.waiting BY <1>5, <1>12 DEF HeldRequest, Req
<1>14. AbortedHeld(r) = HeldConn(f, r, b) BY <1>1, <1>7, <1>10 DEF AbortedHeld, HeldConn
<1>15. AbortedHeld(r) = SetRequest(f, r, y)
  BY <1>8, <1>9, <1>11, <1>12, <1>14, HeldBack
<1>16. PICK g : g = SetRequest(f, r, y) OBVIOUS
<1>17. SameTally(f, g) /\ g.req[r] = y
  <2>1. y \in Req BY <1>8, <1>9, <1>11, <1>12, HeldBack
  <2> QED BY <1>9, <1>16, <2>1, SetTally
<1>18. AbortedHeld(r) = g BY <1>15, <1>16
<1>19. SameTally(fc, f) BY <1>3, <1>8, SameTallyTrans
<1>20. SameTally(fc, g) BY <1>17, <1>19, SameTallyTrans
<1> QED BY <1>1, <1>5, <1>7, <1>8, <1>13, <1>17, <1>18, <1>19, <1>20

LEMMA AbortIoTally ==
  ASSUME Inv, Balance, NEW r \in Requests, AbortIo(r)
  PROVE  Balance'
<1>0. fc \in Conn /\ fc.req[r] \in Req /\ PerRequest(r) BY InvTypes DEF Inv
<1>1. r \in fc.io /\ UNCHANGED <<task, thread>> BY DEF AbortIo
<1>2. fc.req[r].state \in {"READING", "WRITING"} /\ ~ Member(fc.bg_queue, r)
  BY <1>0, <1>1 DEF PerRequest, Placed
<1>3. r \in Copied BY <1>0, <1>2, CopiedIs DEF PerRequest, Worked
<1>4. PICK h \in BOOLEAN : h = fc.req[r].end BY <1>0 DEF Req
<1>5. PICK e : e = IF h THEN AbortedHeld(r) ELSE Aborted(r) OBVIOUS
<1>6. fc' = e BY <1>4, <1>5 DEF AbortIo
<1>7. /\ \A s \in Requests : s # r => Same(fc, e, s)
      /\ e.req[r].background = fc.req[r].background
      /\ e.req[r].count = fc.req[r].count + One(h)
  BY <1>5, AbortedEffect
<1>8. SameTally(fc, e) /\ e.req[r].waiting = fc.req[r].waiting
  BY <1>2, <1>5, AbortedTally
<1>9. e.req[r].count > 0 <=> fc.req[r].count > 0
  <2>1. OnDevice(r) BY <1>2 DEF OnDevice
  <2>2. fc.req[r].count >= 1 /\ fc.req[r].count \in Int BY <2>1, HeldCount
  <2>3. One(h) \in {0, 1} BY DEF One
  <2> QED BY <1>7, <2>2, <2>3
<1>10. r \in ChargedIn(e, Copied) <=> r \in ChargedIn(fc, Copied)
  BY <1>3, <1>7 DEF ChargedIn
<1>11. r \in CountedIn(e, Getting) <=> r \in CountedIn(fc, Getting)
  BY <1>8, <1>9 DEF CountedIn
<1>12. Elsewhere(fc, e, Copied, Copied, Getting, Getting, r)
  BY <1>7 DEF Elsewhere, Same
<1>13. Tallied(e, Copied, Getting)
  BY <1>0, <1>8, <1>10, <1>11, <1>12, TalliedSame DEF Balance
<1> QED BY <1>1, <1>6, <1>13, AbortKeeps

LEMMA AbortIoEndTally ==
  ASSUME Inv, Balance, AbortIoEnd
  PROVE  Balance'
<1>0. fc \in Conn /\ Good(fc) BY InvTypes
<1>1. PICK r : r = abort.req OBVIOUS
<1>2. abort.pc = "io_end" /\ UNCHANGED <<task, thread>> BY DEF AbortIoEnd
<1>3. r \in Requests BY <1>1, <1>2 DEF Inv, TypeInv, AbortHolds
<1>4. fc.req[r] \in Req /\ PerRequest(r) BY <1>3, InvTypes DEF Inv
<1>5. Aborter(r) = "io" BY <1>1, <1>2 DEF Aborter
<1>6. task[r] = "sent" BY <1>4, <1>5 DEF PerRequest, Taken
<1>7. fc.req[r].count >= 1 BY <1>3, <1>5, HeldCount
<1>8. PICK x : x = [fc.req[r] EXCEPT !.ended = @ + 1] OBVIOUS
<1>9. PICK c : c = [fc EXCEPT !.req[r] = x] OBVIOUS
<1>10. fc' = fuse_put_request(c, r) BY <1>1, <1>8, <1>9 DEF AbortIoEnd
<1>11. /\ x \in Req /\ x.background = fc.req[r].background /\ x.state = fc.req[r].state
       /\ x.waiting = fc.req[r].waiting /\ x.count = fc.req[r].count
  BY <1>4, <1>8 DEF Req
<1>12. /\ Good(c) /\ c.bg_queue = fc.bg_queue /\ c.req[r] = x
       /\ \A s \in Requests : s # r => Same(fc, c, s)
  BY <1>0, <1>3, <1>9, <1>11, ReqEffect
<1>13. c \in Conn /\ SameTally(fc, c) BY <1>0, <1>3, <1>9, <1>12, RecordChange DEF Good
<1>14. PICK d : d = fuse_put_request(c, r) OBVIOUS
<1>15. /\ d.req[r] = [x EXCEPT !.count = @ - 1]
       /\ \A s \in Requests : s # r => Same(c, d, s)
  <2>1. /\ fuse_put_request(c, r).req[r] = [c.req[r] EXCEPT !.count = @ - 1]
        /\ \A s \in Requests : s # r => Same(c, fuse_put_request(c, r), s)
    BY <1>3, <1>12, PutEffect
  <2> QED BY <1>12, <1>14, <2>1
<1>16. /\ d.num_background = c.num_background
       /\ d.active_background = c.active_background
       /\ d.forget_batch = c.forget_batch /\ d.bg_queue = c.bg_queue
       /\ d.num_waiting = IF c.req[r].count = 1 /\ c.req[r].waiting
                          THEN c.num_waiting - 1 ELSE c.num_waiting
       /\ d.req[r].waiting = c.req[r].waiting
  BY <1>3, <1>13, <1>14, PutTally
<1>17. /\ d.req[r].background = x.background /\ d.req[r].state = x.state
       /\ d.req[r].count = x.count - 1
  BY <1>11, <1>15 DEF Req
<1>18. Dropped(fc, d, r)
  BY <1>7, <1>11, <1>12, <1>13, <1>16, <1>17 DEF Dropped, SameTally
<1>19. Elsewhere(fc, d, Copied, Copied, Getting, Getting, r)
  BY <1>12, <1>15 DEF Elsewhere, Same
<1>20. r \notin Getting BY <1>6 DEF Getting
<1>21. Tallied(d, Copied, Getting)
  BY <1>0, <1>3, <1>18, <1>19, <1>20, DroppedTally DEF Balance
<1> QED BY <1>2, <1>10, <1>14, <1>21, AbortKeeps

LEMMA AbortQueuedTally ==
  ASSUME Inv, Balance, AbortQueued
  PROVE  Balance'
<1>0. fc \in Conn /\ Good(fc) BY InvTypes
<1>1. PICK c : c = [fc EXCEPT !.max_background = UintMax] OBVIOUS
<1>2. fc' = flush_bg_queue(c) /\ UNCHANGED <<task, thread>> BY <1>1 DEF AbortQueued
<1>3. SameTally(fc, c) /\ c.req = fc.req BY <1>0, <1>1, TallyDomains DEF SameTally
<1>4. c \in Conn /\ c.bg_queue = fc.bg_queue /\ c.pending = fc.pending
  BY <1>0, <1>1 DEF Conn
<1>5. Good(c) BY <1>0, <1>4 DEF Good
<1>6. Tallied(c, Copied, Getting) BY <1>3, TalliedRest DEF Balance
<1>7. \A s \in Requests : Member(c.bg_queue, s) =>
        s \notin Getting /\ c.req[s].count > 0 /\ c.req[s].state # "FINISHED"
  BY <1>3, <1>4, QueuedBackground
<1>8. Tallied(fc', Copied, Getting) BY <1>2, <1>5, <1>6, <1>7, FlushTally
<1> QED BY <1>2, <1>8, AbortKeeps

LEMMA AbortEndTally ==
  ASSUME Inv, Balance, NEW r \in Requests, NEW next, AbortEnd(r, next),
         fc.req[r].state = "SENT" \/ (fc.req[r].state = "PENDING" /\ fc.req[r].error # "EINTR")
  PROVE  Balance'
<1>0. fc \in Conn /\ Good(fc) BY InvTypes
<1>1. Worker(r).pc = "idle" /\ PerRequest(r) /\ fc.req[r] \in Req BY InQueue
<1>2. PICK x : x = [fc.req[r] EXCEPT !.error = "ECONNABORTED"] OBVIOUS
<1>3. PICK c : c = [fc EXCEPT !.req[r] = x] OBVIOUS
<1>4. fc' = request_end(c, r) /\ UNCHANGED <<task, thread>>
  <2>1. c = [fc EXCEPT !.req[r].error = "ECONNABORTED"] BY <1>2, <1>3
  <2> QED BY <2>1 DEF AbortEnd
<1>5. x \in Req /\ SameShare(fc.req[r], x) /\ x.state # "FINISHED"
  BY <1>1, <1>2, Errors DEF Req, SameShare
<1>6. /\ Good(c) /\ c.bg_queue = fc.bg_queue /\ c.req[r] = x
      /\ \A s \in Requests : s # r => Same(fc, c, s)
  BY <1>0, <1>3, <1>5, ReqEffect
<1>7. SameTally(fc, c) BY <1>0, <1>3, RecordChange
<1>8. OtherRecords(fc, c, r) BY <1>6, SameOthers
<1>9. Tallied(c, Copied, Getting) BY <1>0, <1>5, <1>6, <1>7, <1>8, TallyShares DEF Balance
<1>10. r \notin Copied BY <1>1, CopiedIs
<1>11. ~ Member(c.bg_queue, r) BY <1>1, <1>6 DEF PerRequest, Placed
<1>12. c.req[r].background => r \in ChargedIn(c, Copied) BY <1>5, <1>6 DEF ChargedIn
<1>13. ASSUME NEW s \in Requests, Member(c.bg_queue, s)
       PROVE  s \notin Getting /\ c.req[s].count > 0 /\ c.req[s].state # "FINISHED"
  <2>1. s # r BY <1>11, <1>13
  <2>2. Member(fc.bg_queue, s) /\ c.req[s] = fc.req[s] BY <1>6, <1>13, <2>1 DEF Same
  <2> QED BY <2>2, QueuedBackground
<1>14. Tallied(fc', Copied, Getting)
  BY <1>4, <1>6, <1>9, <1>10, <1>11, <1>12, <1>13, RequestEndTally
<1> QED BY <1>4, <1>14, AbortKeeps

LEMMA AbortListTally ==
  ASSUME Inv, Balance, AbortPending \/ AbortProcessing
  PROVE  Balance'
<1>1. fc \in Conn BY InvTypes
<1>2. CASE AbortPending
  <2>1. PICK h : h = Head(fc.pending) OBVIOUS
  <2>2. fc.pending # <<>> /\ AbortEnd(h, "end_pending") BY <1>2, <2>1 DEF AbortPending
  <2>3. h \in Requests /\ Member(fc.pending, h)
    BY <1>1, <2>1, <2>2, ConnFields, TailMember
  <2>4. fc.req[h].state = "PENDING" /\ fc.req[h].error # "EINTR"
    BY <2>3 DEF Inv, PerRequest, Placed
  <2> QED BY <2>2, <2>3, <2>4, AbortEndTally
<1>3. CASE AbortProcessing
  <2>1. PICK r \in fc.processing : AbortEnd(r, "end_processing") BY <1>3 DEF AbortProcessing
  <2>2. r \in Requests BY <1>1, ConnFields
  <2>3. fc.req[r].state = "SENT" BY <2>1, <2>2 DEF Inv, PerRequest, Placed
  <2> QED BY <2>1, <2>2, <2>3, AbortEndTally
<1> QED BY <1>2, <1>3

LEMMA AbortTailTally ==
  ASSUME Inv, Balance,
         AbortTail("end_pending", "pending") \/ AbortTail("end_processing", "processing")
  PROVE  Balance'
<1>0. fc \in Conn /\ Good(fc) /\ abort \in AbortState BY InvTypes DEF TypeOK
<1>1. PICK r : r = abort.req OBVIOUS
<1>2. PICK end : end = abort.end OBVIOUS
<1>3. /\ abort.pc \in {"end_pending", "end_processing"} /\ UNCHANGED <<task, thread>>
      /\ fc' = EndTail(fc, r, end)
  BY <1>1, <1>2 DEF AbortTail
<1>4. r \in Requests /\ end \in BOOLEAN
  BY <1>0, <1>1, <1>2, <1>3 DEF Inv, TypeInv, AbortHolds, AbortState
<1>5. Aborter(r) = "end" BY <1>1, <1>3 DEF Aborter, AbortEnding
<1>6. PerRequest(r) BY <1>4 DEF Inv
<1>7. r \notin Getting
  BY <1>5, <1>6 DEF PerRequest, Taken, Called, Getting, Before
<1>8. OnDevice(r) BY <1>5 DEF OnDevice
<1>9. fc.req[r].count >= 1 BY <1>4, <1>8, HeldCount
<1>10. /\ fc'.req[r].state = fc.req[r].state
       /\ fc'.req[r].background = fc.req[r].background
       /\ fc'.req[r].count = fc.req[r].count - 1
       /\ \A s \in Requests : s # r => Same(fc, fc', s)
  BY <1>0, <1>3, <1>4, EndTailEffect
<1>11. Dropped(fc, fc', r) BY <1>0, <1>3, <1>4, <1>9, <1>10, EndTailTally DEF Dropped
<1>12. Elsewhere(fc, fc', Copied, Copied, Getting, Getting, r)
  BY <1>10 DEF Elsewhere, Same
<1>13. Tallied(fc', Copied, Getting)
  BY <1>0, <1>4, <1>7, <1>11, <1>12, DroppedTally DEF Balance
<1> QED BY <1>3, <1>13, AbortKeeps

\* Every step of the abort.
LEMMA AbortTally ==
  ASSUME Inv, Balance, Abort
  PROVE  Balance'
BY AbortQuietTally, AbortIoTally, AbortIoEndTally, AbortQueuedTally, AbortListTally,
   AbortTailTally DEF Abort, AbortStep

-----------------------------------------------------------------------------
(***************************************************************************)
(* The counters are right in every behavior.                               *)
(***************************************************************************)
LEMMA BalanceInit == Init => Balance
<1> SUFFICES ASSUME Init PROVE Balance OBVIOUS
<1>1. /\ fc.num_background = 0 /\ fc.active_background = 0 /\ fc.num_waiting = 0
      /\ fc.forget_batch = 0 /\ fc.bg_queue = <<>>
      /\ fc.req = [r \in Requests |-> NewReq(r)]
      /\ \A r \in Requests : task[r] = "start"
  BY DEF Init
<1>2. \A r \in Requests : ~ fc.req[r].background /\ ~ fc.req[r].waiting
  BY <1>1 DEF NewReq
<1>3. ChargedIn(fc, Copied) = {} BY <1>2 DEF ChargedIn
<1>4. CountedIn(fc, Getting) = {} BY <1>1, <1>2 DEF CountedIn, Getting
<1>5. IsFiniteSet({}) /\ Cardinality({}) = 0 BY FS_EmptySet
<1>6. 0 \in (1 - RequestBatch) .. ForgetBatch BY BoundAssumption
<1>7. Len(fc.bg_queue) = 0 BY <1>1
<1> QED BY <1>1, <1>3, <1>4, <1>5, <1>6, <1>7 DEF Balance, Tallied

LEMMA BalanceStep == Inv /\ Balance /\ [Next]_vars => Balance'
<1> SUFFICES ASSUME Inv, Balance, [Next]_vars PROVE Balance' OBVIOUS
<1>1. CASE Abort BY <1>1, AbortTally
<1>2. CASE Quiet \/ UNCHANGED vars
  <2>1. UNCHANGED <<fc, task, thread>> BY <1>2 DEF Quiet, vars
  <2>2. Tallied(fc', Copied, Getting) BY <2>1 DEF Balance
  <2> QED BY <2>1, <2>2, AbortKeeps
<1>3. ASSUME NEW r \in Requests, Caller(r) PROVE Balance' BY <1>3, CallerTally
<1>4. ASSUME NEW d \in Thread, Daemon(d) PROVE Balance' BY <1>4, DaemonTally
<1>5. ASSUME NEW f \in Forget, QueueForget(f) PROVE Balance' BY <1>5, QueueForgetTally
<1> QED BY <1>1, <1>2, <1>3, <1>4, <1>5 DEF Next

\* The counters of the connection count what they say: fc->num_background the background
\* requests that have not ended, fc->num_waiting the callers and requests in the kernel,
\* fc->active_background those that have left bg_queue; fc->forget_batch stays in bounds.
THEOREM Counters == Spec => []CountersExact
<1>1. Init => Inv /\ Balance BY InvInit, BalanceInit
<1>2. Inv /\ Balance /\ [Next]_vars => (Inv /\ Balance)'
  BY InvStep, BalanceStep DEF Result
<1>3. Inv /\ Balance => CountersExact BY BalanceCounts, InvTypes
<1> QED BY <1>1, <1>2, <1>3, PTL DEF Spec

=============================================================================
