--------------------------- MODULE FuseDevProofs ---------------------------
(***************************************************************************)
(* Proofs about the FUSE connection of FuseDev, for any number of          *)
(* requests, threads and forgets.                                          *)
(***************************************************************************)
EXTENDS FuseDevProps, SequenceTheorems, FiniteSetTheorems, TLAPS

(***************************************************************************)
(* Types of the helpers.                                                   *)
(***************************************************************************)
\* Removing an element keeps the type of a sequence.
LEMMA DelType ==
  ASSUME NEW S, NEW s \in Seq(S), NEW r
  PROVE  Del(s, r) \in Seq(S)
BY DEF Del, RemoveAt, Member

\* The fields of a connection.
LEMMA ConnFields ==
  ASSUME NEW c \in Conn
  PROVE  /\ c.connected \in BOOLEAN /\ c.blocked \in BOOLEAN
         /\ c.no_interrupt \in BOOLEAN /\ c.congested \in BOOLEAN
         /\ c.num_background \in Int /\ c.active_background \in Int
         /\ c.max_background \in {MaxBackground, UintMax}
         /\ c.reqctr \in 0 .. UniqueMax /\ c.num_waiting \in Int
         /\ c.forget_batch \in Int /\ c.pending \in Seq(Requests)
         /\ c.bg_queue \in Seq(Requests) /\ c.io \in SUBSET Requests
         /\ c.processing \in SUBSET Requests /\ c.interrupts \in Seq(Requests)
         /\ c.forget_list \in Seq(Forget) /\ c.blocked_waitq \in SUBSET Requests
         /\ c.req \in [Requests -> Req] /\ c.reserved \in BOOLEAN
BY DEF Conn

\* A record updated in its queues.
LEMMA ConnLists ==
  ASSUME NEW c \in Conn, NEW p \in Seq(Requests), NEW b \in Seq(Requests),
         NEW i \in SUBSET Requests, NEW t \in SUBSET Requests
  PROVE  [c EXCEPT !.pending = p, !.bg_queue = b, !.io = i, !.processing = t] \in Conn
BY DEF Conn

LEMMA ListDelType ==
  ASSUME NEW c \in Conn, NEW r \in Requests
  PROVE  list_del(c, r) \in Conn
<1>1. Del(c.pending, r) \in Seq(Requests) /\ Del(c.bg_queue, r) \in Seq(Requests)
  BY ConnFields, DelType
<1>2. c.io \ {r} \in SUBSET Requests /\ c.processing \ {r} \in SUBSET Requests
  BY ConnFields
<1> QED BY <1>1, <1>2, ConnLists DEF list_del

\* A request record updated at one request.
LEMMA ConnReq ==
  ASSUME NEW c \in Conn, NEW r \in Requests, NEW q \in Req
  PROVE  [c EXCEPT !.req[r] = q] \in Conn
BY DEF Conn

LEMMA WakeUpType ==
  ASSUME NEW c \in Conn, NEW r \in Requests
  PROVE  wake_up(c, r) \in Conn
<1> DEFINE q == [c.req[r] EXCEPT !.asleep = FALSE]
<1>0. c.req[r] \in Req BY ConnFields
<1>1. q \in Req BY <1>0 DEF Req
<1>2. wake_up(c, r) = [c EXCEPT !.req[r] = q] BY DEF wake_up
<1> HIDE DEF q
<1>3. [c EXCEPT !.req[r] = q] \in Conn BY <1>1, ConnReq
<1> QED BY <1>2, <1>3

LEMMA QueueInterruptType ==
  ASSUME NEW c \in Conn, NEW r \in Requests
  PROVE  queue_interrupt(c, r) \in Conn
<1> DEFINE s == Append(c.interrupts, r)
<1>1. s \in Seq(Requests) BY ConnFields
<1> HIDE DEF s
<1>2. [c EXCEPT !.interrupts = s] \in Conn BY <1>1 DEF Conn
<1> QED BY <1>2 DEF queue_interrupt, s

LEMMA ConnQueued ==
  ASSUME NEW c \in Conn, NEW r \in Requests, NEW q \in Req,
         NEW p \in Seq(Requests), NEW n \in Int
  PROVE  [c EXCEPT !.pending = p, !.num_waiting = n, !.req[r] = q] \in Conn
BY DEF Conn

LEMMA QueueRequestType ==
  ASSUME NEW c \in Conn, NEW r \in Requests
  PROVE  queue_request(c, r) \in Conn
<1> DEFINE q == [c.req[r] EXCEPT !.state = "PENDING", !.waiting = TRUE]
           p == Append(c.pending, r)
           n == IF c.req[r].waiting THEN c.num_waiting ELSE c.num_waiting + 1
<1>0. c.req[r] \in Req BY ConnFields
<1>1. q \in Req BY <1>0 DEF Req, State
<1>2. p \in Seq(Requests) /\ n \in Int BY ConnFields
<1>3. queue_request(c, r) = [c EXCEPT !.pending = p, !.num_waiting = n,
                                      !.req[r].state = "PENDING", !.req[r].waiting = TRUE]
  BY DEF queue_request
<1> HIDE DEF p, n
<1>4. [c EXCEPT !.pending = p, !.num_waiting = n,
                !.req[r].state = "PENDING", !.req[r].waiting = TRUE]
      = [c EXCEPT !.pending = p, !.num_waiting = n, !.req[r] = q]
  BY ZenonT(40)
<1> HIDE DEF q
<1>5. [c EXCEPT !.pending = p, !.num_waiting = n, !.req[r] = q] \in Conn
  BY <1>1, <1>2, ConnQueued
<1> QED BY <1>3, <1>4, <1>5

LEMMA PutType ==
  ASSUME NEW c \in Conn, NEW r \in Requests
  PROVE  fuse_put_request(c, r) \in Conn
<1> DEFINE q == [c.req[r] EXCEPT !.count = @ - 1]
           n == IF c.req[r].count = 1 /\ c.req[r].waiting
                THEN c.num_waiting - 1 ELSE c.num_waiting
<1>1. c.req[r] \in Req /\ c.req[r].count - 1 \in Int BY ConnFields DEF Req
<1>2. q \in Req BY <1>1 DEF Req
<1>3. n \in Int BY ConnFields
<1>4. fuse_put_request(c, r) = [c EXCEPT !.num_waiting = n, !.req[r] = q]
  BY DEF fuse_put_request
<1> HIDE DEF q, n
<1>5. [c EXCEPT !.num_waiting = n, !.req[r] = q] \in Conn BY <1>2, <1>3 DEF Conn
<1> QED BY <1>4, <1>5

\* The id handed out is never zero and never beyond 64 bits.
LEMMA UniqueType ==
  ASSUME NEW ctr \in 0 .. UniqueMax, NEW k \in Nat \ {0}
  PROVE  fuse_get_unique(ctr, k) \in 1 .. UniqueMax
BY BoundAssumption DEF fuse_get_unique

\* How many requests flush_bg_queue moves, and what is left of the queue.
Moved(c) ==
  IF c.active_background < c.max_background
  THEN Smaller(Len(c.bg_queue), c.max_background - c.active_background) ELSE 0

LEMMA MovedType ==
  ASSUME NEW c \in Conn
  PROVE  Moved(c) \in 0 .. Len(c.bg_queue)
<1>1. Len(c.bg_queue) \in Nat BY ConnFields
<1>2. c.active_background \in Int /\ c.max_background \in Int
  BY ConnFields, BoundAssumption
<1> QED BY <1>1, <1>2 DEF Moved, Smaller

LEMMA FlushType ==
  ASSUME NEW c \in Conn
  PROVE  flush_bg_queue(c) \in Conn
<1> DEFINE n == Moved(c)
           moved == SubSeq(c.bg_queue, 1, n)
           uncounted == {i \in 1 .. n : ~ c.req[moved[i]].waiting}
           b == SubSeq(c.bg_queue, n + 1, Len(c.bg_queue))
           p == c.pending \o moved
           k == c.active_background + n
           w == c.num_waiting + Cardinality(uncounted)
           u == IF n = 0 THEN c.reqctr ELSE fuse_get_unique(c.reqctr, n)
           Taken(r) == [c.req[r] EXCEPT !.state = "PENDING", !.waiting = TRUE,
                          !.unique = fuse_get_unique(c.reqctr,
                                        CHOOSE i \in 1 .. n : moved[i] = r)]
           q == [r \in Requests |-> IF Member(moved, r) THEN Taken(r) ELSE c.req[r]]
<1>1. n \in 0 .. Len(c.bg_queue) /\ n \in Nat /\ Len(c.bg_queue) \in Nat
  BY MovedType, ConnFields
<1> HIDE DEF n
<1>2. moved \in Seq(Requests) /\ Len(moved) = n /\ b \in Seq(Requests)
  BY <1>1, ConnFields, SubSeqProperties
<1>3. p \in Seq(Requests) BY <1>2, ConnFields, ConcatProperties
<1>4. k \in Int BY <1>1, ConnFields
<1>5. w \in Int
  <2>1. uncounted \in SUBSET (1 .. n) OBVIOUS
  <2>2. IsFiniteSet(1 .. n) BY <1>1, FS_Interval
  <2> HIDE DEF uncounted
  <2>3. Cardinality(uncounted) \in Nat BY <2>1, <2>2, FS_Subset, FS_CardinalityType
  <2> QED BY <2>3, ConnFields
<1>6. u \in 0 .. UniqueMax
  <2>1. CASE n = 0 BY <2>1, ConnFields
  <2>2. CASE n # 0
    <3>1. fuse_get_unique(c.reqctr, n) \in 1 .. UniqueMax
      BY <1>1, <2>2, ConnFields, UniqueType
    <3> QED BY <3>1, <2>2, BoundAssumption
  <2> QED BY <2>1, <2>2
<1>7. ASSUME NEW r \in Requests, Member(moved, r)
      PROVE  Taken(r) \in Req
  <2> DEFINE i == CHOOSE i \in 1 .. n : moved[i] = r
  <2>1. i \in 1 .. n BY <1>1, <1>2, <1>7 DEF Member
  <2> HIDE DEF i
  <2>a. i \in Nat \ {0} BY <1>1, <2>1
  <2>b. c.reqctr \in 0 .. UniqueMax BY ConnFields
  <2>2. fuse_get_unique(c.reqctr, i) \in 0 .. UniqueMax
    BY <2>a, <2>b, UniqueType, BoundAssumption
  <2> DEFINE v == fuse_get_unique(c.reqctr, i)
  <2>3. c.req[r] \in Req BY ConnFields
  <2> HIDE DEF v
  <2>4. [c.req[r] EXCEPT !.state = "PENDING", !.waiting = TRUE, !.unique = v] \in Req
    BY <2>2, <2>3 DEF Req, State, v
  <2> QED BY <2>4 DEF v, i
<1>8. q \in [Requests -> Req] BY <1>7, ConnFields
<1>9. flush_bg_queue(c) =
        [c EXCEPT !.bg_queue = b, !.pending = p, !.active_background = k,
                  !.num_waiting = w, !.reqctr = u, !.req = q]
  BY DEF flush_bg_queue, Moved, n
<1> HIDE DEF n, moved, uncounted, b, p, k, w, u, Taken, q
<1>10. [c EXCEPT !.bg_queue = b, !.pending = p, !.active_background = k,
                 !.num_waiting = w, !.reqctr = u, !.req = q] \in Conn
  BY <1>2, <1>3, <1>4, <1>5, <1>6, <1>8 DEF Conn
<1> QED BY <1>9, <1>10

LEMMA SendBackgroundType ==
  ASSUME NEW c \in Conn, NEW r \in Requests
  PROVE  fuse_request_send_nowait_locked(c, r) \in Conn
<1> DEFINE n == c.num_background + 1
           q == [c.req[r] EXCEPT !.background = TRUE]
           bl == IF n = c.max_background THEN TRUE ELSE c.blocked
           cg == IF n = CongestionThreshold THEN TRUE ELSE c.congested
           b == Append(c.bg_queue, r)
           d == [c EXCEPT !.req[r] = q, !.num_background = n, !.blocked = bl,
                          !.congested = cg, !.bg_queue = b]
<1>1. c.req[r] \in Req BY ConnFields
<1>2. q \in Req BY <1>1 DEF Req
<1>3. n \in Int /\ b \in Seq(Requests) BY ConnFields
<1>6. bl \in BOOLEAN BY ConnFields, Zenon
<1>7. cg \in BOOLEAN BY ConnFields, Zenon
<1>4. fuse_request_send_nowait_locked(c, r) = flush_bg_queue(d)
  BY DEF fuse_request_send_nowait_locked
<1> HIDE DEF n, q, bl, cg, b
<1>5. d \in Conn BY <1>2, <1>3, <1>6, <1>7 DEF Conn
<1> HIDE DEF d
<1> QED BY <1>4, <1>5, FlushType

\* request_end before its flush, for a request that is not counted.
Unlisted(c, r) ==
  [list_del(c, r) EXCEPT !.interrupts = Del(@, r), !.req[r].state = "FINISHED",
                         !.req[r].end = FALSE]

LEMMA UnlistedType ==
  ASSUME NEW c \in Conn, NEW r \in Requests
  PROVE  Unlisted(c, r) \in Conn
<1> DEFINE d == list_del(c, r)
           i == Del(d.interrupts, r)
           q == [d.req[r] EXCEPT !.state = "FINISHED", !.end = FALSE]
<1>1. d \in Conn BY ListDelType
<1>2. Unlisted(c, r) = [d EXCEPT !.interrupts = i, !.req[r] = q] BY DEF Unlisted
<1> HIDE DEF d
<1>3. i \in Seq(Requests) BY <1>1, ConnFields, DelType
<1>4. d.req[r] \in Req BY <1>1, ConnFields
<1>5. q \in Req BY <1>4 DEF Req, State
<1> HIDE DEF i, q
<1>6. [d EXCEPT !.interrupts = i, !.req[r] = q] \in Conn BY <1>1, <1>3, <1>5 DEF Conn
<1> QED BY <1>2, <1>6

\* request_end before its flush, for a background request.
Discharged(c, r) ==
  LET full == c.num_background = c.max_background
      calm == c.num_background = CongestionThreshold /\ c.connected
  IN  [Unlisted(c, r) EXCEPT !.blocked = IF full THEN FALSE ELSE @,
                             !.blocked_waitq = IF full THEN {} ELSE @,
                             !.congested = IF calm THEN FALSE ELSE @,
                             !.num_background = @ - 1,
                             !.active_background = @ - 1]

LEMMA DischargedType ==
  ASSUME NEW c \in Conn, NEW r \in Requests
  PROVE  Discharged(c, r) \in Conn
<1> DEFINE d == Unlisted(c, r)
           full == c.num_background = c.max_background
           calm == c.num_background = CongestionThreshold /\ c.connected
           bl == IF full THEN FALSE ELSE d.blocked
           w == IF full THEN {} ELSE d.blocked_waitq
           cg == IF calm THEN FALSE ELSE d.congested
           n == d.num_background - 1
           k == d.active_background - 1
<1>1. d \in Conn BY UnlistedType
<1>2. Discharged(c, r) =
        [d EXCEPT !.blocked = bl, !.blocked_waitq = w, !.congested = cg,
                  !.num_background = n, !.active_background = k]
  BY DEF Discharged
<1> HIDE DEF d
<1>3. n \in Int /\ k \in Int /\ w \in SUBSET Requests BY <1>1, ConnFields
<1>5. bl \in BOOLEAN BY <1>1, ConnFields, Zenon
<1>6. cg \in BOOLEAN BY <1>1, ConnFields, Zenon
<1> HIDE DEF bl, w, cg, n, k
<1>4. [d EXCEPT !.blocked = bl, !.blocked_waitq = w, !.congested = cg,
                !.num_background = n, !.active_background = k] \in Conn
  BY <1>1, <1>3, <1>5, <1>6 DEF Conn
<1> QED BY <1>2, <1>4

LEMMA RequestEndCases ==
  ASSUME NEW c \in Conn, NEW r \in Requests
  PROVE  request_end(c, r) = IF c.req[r].background THEN flush_bg_queue(Discharged(c, r))
                             ELSE Unlisted(c, r)
BY DEF request_end, Discharged, Unlisted

LEMMA RequestEndType ==
  ASSUME NEW c \in Conn, NEW r \in Requests
  PROVE  request_end(c, r) \in Conn
BY RequestEndCases, UnlistedType, DischargedType, FlushType

LEMMA EndTailType ==
  ASSUME NEW c \in Conn, NEW r \in Requests, NEW end \in BOOLEAN
  PROVE  EndTail(c, r, end) \in Conn
<1> DEFINE d == wake_up(c, r)
           q == [d.req[r] EXCEPT !.ended = IF end THEN @ + 1 ELSE @]
           e == [d EXCEPT !.req[r] = q]
<1>1. d \in Conn BY WakeUpType
<1>2. EndTail(c, r, end) = fuse_put_request(e, r) BY DEF EndTail
<1> HIDE DEF d
<1>3. d.req[r] \in Req BY <1>1, ConnFields
<1>4. q \in Req BY <1>3 DEF Req
<1> HIDE DEF q
<1>5. e \in Conn BY <1>1, <1>4, ConnReq
<1> HIDE DEF e
<1> QED BY <1>2, <1>5, PutType

-----------------------------------------------------------------------------
(***************************************************************************)
(* Type correctness.  A thread or an abort that is not idle works on a     *)
(* request: this makes the type invariant inductive.                       *)
(***************************************************************************)
ThreadsHold == \A d \in Thread : thread[d].pc # "idle" => thread[d].req \in Requests

AbortHolds ==
  abort.pc \in {"io_end", "end_pending", "end_processing"} => abort.req \in Requests

TypeInv == TypeOK /\ ThreadsHold /\ AbortHolds

LEMMA TaskMove ==
  ASSUME TypeOK, NEW r \in Requests, NEW pc \in TaskPc, Goto(r, pc)
  PROVE  task' \in [Requests -> TaskPc]
BY DEF TypeOK, Goto

LEMMA IdleType == Idle \in ThreadState /\ Idle.pc = "idle"
BY DEF Idle, ThreadState

LEMMA ThreadMove ==
  ASSUME TypeInv, NEW d \in Thread, NEW t \in ThreadState,
         t.pc # "idle" => t.req \in Requests,
         thread' = [thread EXCEPT ![d] = t]
  PROVE  thread' \in [Thread -> ThreadState] /\ ThreadsHold'
BY DEF TypeInv, TypeOK, ThreadsHold

LEMMA LeaveType ==
  ASSUME TypeInv, NEW r \in Requests, thread' = Leave(r)
  PROVE  thread' \in [Thread -> ThreadState] /\ ThreadsHold'
BY IdleType DEF TypeInv, TypeOK, ThreadsHold, Leave

LEMMA MoveType ==
  ASSUME TypeInv, NEW d \in Thread, NEW r \in Requests,
         NEW pc \in {"read", "write", "retrieve"}, NEW ph \in {"start", "locked"},
         Move(d, pc, r, ph)
  PROVE  thread' \in [Thread -> ThreadState] /\ ThreadsHold'
<1> DEFINE t == [Idle EXCEPT !.pc = pc, !.req = r, !.phase = ph]
<1>1. t \in ThreadState /\ t.req \in Requests BY IdleType DEF ThreadState
<1>2. thread' = [thread EXCEPT ![d] = t] BY DEF Move
<1> HIDE DEF t
<1> QED BY <1>1, <1>2, ThreadMove

LEMMA PhaseType ==
  ASSUME TypeInv, NEW d \in Thread, NEW ph \in {"locked", "unlocked", "failed"},
         Phase(d, ph)
  PROVE  thread' \in [Thread -> ThreadState] /\ ThreadsHold'
<1> DEFINE t == [thread[d] EXCEPT !.phase = ph]
<1>0. thread[d] \in ThreadState BY DEF TypeInv, TypeOK
<1>1. t \in ThreadState /\ t.pc = thread[d].pc /\ t.req = thread[d].req
  BY <1>0 DEF ThreadState
<1>2. thread' = [thread EXCEPT ![d] = t] BY DEF Phase
<1>3. t.pc # "idle" => t.req \in Requests BY <1>1 DEF TypeInv, ThreadsHold
<1> HIDE DEF t
<1> QED BY <1>1, <1>2, <1>3, ThreadMove

LEMMA EndByType ==
  ASSUME TypeInv, NEW d \in Thread, NEW r \in Requests, NEW c \in Conn, EndBy(d, c, r)
  PROVE  /\ fc' \in Conn
         /\ thread' \in [Thread -> ThreadState] /\ ThreadsHold'
<1> DEFINE e == fc.req[r].end
           t == [Idle EXCEPT !.pc = "end", !.req = r, !.end = e]
<1>0. fc.req[r] \in Req BY ConnFields DEF TypeInv, TypeOK
<1>1. e \in BOOLEAN BY <1>0 DEF Req
<1>2. thread' = [thread EXCEPT ![d] = t] BY DEF EndBy
<1> HIDE DEF e
<1>3. t \in ThreadState /\ t.req \in Requests BY <1>1, IdleType DEF ThreadState
<1> HIDE DEF t
<1>4. thread' \in [Thread -> ThreadState] /\ ThreadsHold' BY <1>2, <1>3, ThreadMove
<1>5. fc' \in Conn BY RequestEndType DEF EndBy
<1> QED BY <1>4, <1>5

\* A request record updated at a field that several actions assign.
LEMMA LockedUpdate ==
  ASSUME NEW c \in Conn, NEW r \in Requests, NEW b \in BOOLEAN
  PROVE  [c EXCEPT !.req[r].locked = b] \in Conn
<1> DEFINE q == [c.req[r] EXCEPT !.locked = b]
<1>1. c.req[r] \in Req BY ConnFields
<1>2. q \in Req BY <1>1 DEF Req
<1>3. [c EXCEPT !.req[r].locked = b] = [c EXCEPT !.req[r] = q] OBVIOUS
<1> HIDE DEF q
<1> QED BY <1>2, <1>3, ConnReq

LEMMA AsleepUpdate ==
  ASSUME NEW c \in Conn, NEW r \in Requests, NEW b \in BOOLEAN
  PROVE  [c EXCEPT !.req[r].asleep = b] \in Conn
<1> DEFINE q == [c.req[r] EXCEPT !.asleep = b]
<1>1. c.req[r] \in Req BY ConnFields
<1>2. q \in Req BY <1>1 DEF Req
<1>3. [c EXCEPT !.req[r].asleep = b] = [c EXCEPT !.req[r] = q] OBVIOUS
<1> HIDE DEF q
<1> QED BY <1>2, <1>3, ConnReq

LEMMA ErrorUpdate ==
  ASSUME NEW c \in Conn, NEW r \in Requests, NEW e \in Error
  PROVE  [c EXCEPT !.req[r].error = e] \in Conn
<1> DEFINE q == [c.req[r] EXCEPT !.error = e]
<1>1. c.req[r] \in Req BY ConnFields
<1>2. q \in Req BY <1>1 DEF Req
<1>3. [c EXCEPT !.req[r].error = e] = [c EXCEPT !.req[r] = q] OBVIOUS
<1> HIDE DEF q
<1> QED BY <1>2, <1>3, ConnReq

\* The errors the connection itself gives.
LEMMA Errors ==
  /\ "EIO" \in Error /\ "EINTR" \in Error
  /\ "ENOTCONN" \in Error /\ "ECONNABORTED" \in Error
BY DEF Error

\* A request whose reference count changes, along with other fields.
LEMMA ReqCount ==
  ASSUME NEW q \in Req
  PROVE  q.count \in Int /\ q.count + 1 \in Int /\ q.count - 1 \in Int
BY DEF Req

LEMMA ReqCountWaiting ==
  ASSUME NEW q \in Req, NEW n \in Int, NEW b \in BOOLEAN
  PROVE  [q EXCEPT !.count = n, !.waiting = b] \in Req
BY DEF Req

LEMMA ReqCountAsleep ==
  ASSUME NEW q \in Req, NEW n \in Int, NEW b \in BOOLEAN
  PROVE  [q EXCEPT !.count = n, !.asleep = b] \in Req
BY DEF Req

LEMMA ReqCountError ==
  ASSUME NEW q \in Req, NEW n \in Int, NEW b \in BOOLEAN, NEW e \in Error
  PROVE  [q EXCEPT !.count = n, !.asleep = b, !.error = e] \in Req
BY DEF Req

\* What an action has to establish once it leaves some variables alone.
LEMMA KeepRest ==
  ASSUME TypeInv, fc' \in Conn, UNCHANGED <<sig, abort>>,
         task' \in [Requests -> TaskPc], inbox' \subseteq Message,
         thread' \in [Thread -> ThreadState] /\ ThreadsHold'
  PROVE  TypeInv'
BY DEF TypeInv, TypeOK, AbortHolds

\* The actions of a caller.
LEMMA CallerMove ==
  ASSUME TypeInv, NEW r \in Requests, NEW pc \in TaskPc, Goto(r, pc),
         fc' \in Conn, UNCHANGED <<sig, thread, abort, inbox>>
  PROVE  TypeInv'
BY TaskMove, KeepRest DEF TypeInv, TypeOK, ThreadsHold

LEMMA StartGetType ==
  ASSUME TypeInv, NEW r \in Requests, StartGet(r)
  PROVE  fc' \in Conn /\ task' \in [Requests -> TaskPc]
<1> DEFINE n == fc.num_waiting + 1
           w == IF fc.blocked THEN fc.blocked_waitq \cup {r} ELSE fc.blocked_waitq
<1>0. fc \in Conn BY DEF TypeInv, TypeOK
<1>1. n \in Int /\ w \in SUBSET Requests BY <1>0, ConnFields
<1>2. fc' = [fc EXCEPT !.num_waiting = n, !.blocked_waitq = w] BY DEF StartGet
<1> HIDE DEF n, w
<1>3. fc' \in Conn BY <1>0, <1>1, <1>2 DEF Conn
<1>4. task' \in [Requests -> TaskPc] BY TaskMove DEF StartGet, TypeInv, TaskPc
<1> QED BY <1>3, <1>4

LEMMA GetReqFailType ==
  ASSUME TypeInv, NEW r \in Requests, GetReqFail(r)
  PROVE  TypeInv'
<1> DEFINE n == fc.num_waiting - 1
           w == fc.blocked_waitq \ {r}
<1>0. fc \in Conn BY DEF TypeInv, TypeOK
<1>1. n \in Int /\ w \in SUBSET Requests BY <1>0, ConnFields
<1>2. fc' = [fc EXCEPT !.num_waiting = n, !.blocked_waitq = w] BY DEF GetReqFail
<1> HIDE DEF n, w
<1>3. fc' \in Conn BY <1>0, <1>1, <1>2 DEF Conn
<1>4. task' \in [Requests -> TaskPc] BY TaskMove DEF GetReqFail, TypeInv, TaskPc
<1>5. thread' \in [Thread -> ThreadState] /\ ThreadsHold'
  BY LeaveType DEF GetReqFail
<1>6. UNCHANGED <<sig, abort, inbox>> BY DEF GetReqFail
<1> QED BY <1>3, <1>4, <1>5, <1>6, KeepRest DEF TypeInv, TypeOK

LEMMA AllocType ==
  ASSUME TypeInv, NEW r \in Requests, NEW b \in BOOLEAN, fuse_request_alloc(r, b)
  PROVE  fc' \in Conn
<1> DEFINE q == [fc.req[r] EXCEPT !.count = 1, !.waiting = b]
<1>0. fc \in Conn /\ fc.req[r] \in Req BY ConnFields DEF TypeInv, TypeOK
<1>a. 1 \in Int OBVIOUS
<1>1. q \in Req BY <1>0, <1>a, ReqCountWaiting
<1>2. fc' = [fc EXCEPT !.req[r] = q] BY DEF fuse_request_alloc
<1> HIDE DEF q
<1> QED BY <1>0, <1>1, <1>2, ConnReq

LEMMA RequestSendType ==
  ASSUME TypeInv, NEW r \in Requests, RequestSend(r)
  PROVE  TypeInv'
<1> DEFINE u == fuse_get_unique(fc.reqctr, 1)
           p == [fc.req[r] EXCEPT !.unique = u]
           c == [fc EXCEPT !.reqctr = u, !.req[r] = p]
           d == queue_request(c, r)
           n == d.req[r].count + 1
           q == [d.req[r] EXCEPT !.count = n, !.asleep = TRUE]
           s == [fc EXCEPT !.reqctr = u, !.req[r].unique = u]
<1>0. fc \in Conn /\ fc.req[r] \in Req /\ fc.reqctr \in 0 .. UniqueMax
  BY ConnFields DEF TypeInv, TypeOK
<1>1. u \in 0 .. UniqueMax BY <1>0, UniqueType, BoundAssumption
<1>a. s = c OBVIOUS
<1>b. fc' = [queue_request(s, r) EXCEPT !.req[r].count = @ + 1,
                                         !.req[r].asleep = TRUE]
  BY DEF RequestSend
<1> HIDE DEF s, c
<1>c. fc' = [d EXCEPT !.req[r].count = @ + 1, !.req[r].asleep = TRUE]
  BY <1>a, <1>b
<1> HIDE DEF d
<1>2. fc' = [d EXCEPT !.req[r] = q] BY <1>c
<1> HIDE DEF u
<1>3. p \in Req BY <1>0, <1>1 DEF Req
<1> HIDE DEF p
<1>4. c \in Conn BY <1>0, <1>1, <1>3 DEF Conn, c
<1>5. d \in Conn BY <1>4, QueueRequestType DEF d
<1>6. d.req[r] \in Req BY <1>5, ConnFields
<1>d. n \in Int BY <1>6, ReqCount
<1> HIDE DEF n
<1>7. q \in Req BY <1>6, <1>d, ReqCountAsleep
<1> HIDE DEF q
<1>8. fc' \in Conn BY <1>2, <1>5, <1>7, ConnReq
<1> DEFINE pc == IF ~ fc.no_interrupt THEN "wait_intr"
                 ELSE IF r \in Forced THEN "wait_forced" ELSE "wait_kill"
<1>9. pc \in TaskPc /\ Goto(r, pc) BY DEF RequestSend, TaskPc
<1> HIDE DEF pc
<1> QED BY <1>8, <1>9, CallerMove DEF RequestSend

LEMMA LeaveWaitType ==
  ASSUME TypeInv, NEW r \in Requests, LeaveWait(r),
         UNCHANGED <<sig, thread, abort, inbox>>
  PROVE  TypeInv'
<1> DEFINE copying == fc.req[r].aborted /\ fc.req[r].locked
           pc == IF copying THEN "wait_unlock" ELSE "returned"
<1>0. fc \in Conn BY DEF TypeInv, TypeOK
<1>1. copying \in BOOLEAN OBVIOUS
<1>2. fc' = [fc EXCEPT !.req[r].asleep = copying] BY DEF LeaveWait
<1>3. pc \in TaskPc /\ Goto(r, pc) BY DEF LeaveWait, TaskPc
<1> HIDE DEF copying, pc
<1>4. fc' \in Conn BY <1>0, <1>1, <1>2, AsleepUpdate
<1> QED BY <1>3, <1>4, CallerMove

LEMMA InterruptedType ==
  ASSUME NEW c \in Conn, NEW r \in Requests
  PROVE  Interrupted(c, r) \in Conn
<1> DEFINE q == [c.req[r] EXCEPT !.interrupted = TRUE, !.asleep = TRUE]
           s == [c EXCEPT !.req[r].interrupted = TRUE, !.req[r].asleep = TRUE]
<1>1. c.req[r] \in Req BY ConnFields
<1>2. q \in Req BY <1>1 DEF Req
<1>3. s = [c EXCEPT !.req[r] = q] OBVIOUS
<1>4. Interrupted(c, r) = IF s.req[r].state = "SENT" THEN queue_interrupt(s, r) ELSE s
  BY DEF Interrupted
<1> HIDE DEF q, s
<1>5. s \in Conn BY <1>2, <1>3, ConnReq
<1> QED BY <1>4, <1>5, QueueInterruptType

LEMMA WakeIntrType ==
  ASSUME TypeInv, NEW r \in Requests, WakeIntr(r)
  PROVE  TypeInv'
<1>0. fc \in Conn /\ fc.req[r] \in Req BY ConnFields DEF TypeInv, TypeOK
<1>1. CASE Ended(r) BY <1>1, LeaveWaitType DEF WakeIntr
<1>2. CASE ~ Ended(r)
  <2> DEFINE pc == IF r \in Forced THEN "wait_forced" ELSE "wait_kill"
  <2>4. fc' \in Conn BY <1>0, <1>2, InterruptedType DEF WakeIntr
  <2>5. pc \in TaskPc /\ Goto(r, pc) BY <1>2 DEF WakeIntr, TaskPc
  <2> HIDE DEF pc
  <2> QED BY <2>4, <2>5, CallerMove DEF WakeIntr
<1> QED BY <1>1, <1>2

LEMMA BailOutType ==
  ASSUME TypeInv, NEW r \in Requests, BailOut(r),
         UNCHANGED <<sig, thread, abort, inbox>>
  PROVE  TypeInv'
<1> DEFINE d == list_del(fc, r)
           n == d.req[r].count - 1
           q == [d.req[r] EXCEPT !.count = n, !.asleep = FALSE, !.error = "EINTR"]
<1>1. d \in Conn BY ListDelType DEF TypeInv, TypeOK
<1>2. fc' = [d EXCEPT !.req[r] = q] BY DEF BailOut
<1> HIDE DEF d
<1>3. d.req[r] \in Req BY <1>1, ConnFields
<1>a. n \in Int BY <1>3, ReqCount
<1>b. "EINTR" \in Error BY DEF Error
<1> HIDE DEF n
<1>4. q \in Req BY <1>3, <1>a, <1>b, ReqCountError
<1> HIDE DEF q
<1>5. fc' \in Conn BY <1>1, <1>2, <1>4, ConnReq
<1> QED BY <1>5, CallerMove DEF BailOut, TaskPc

LEMMA WakeKillType ==
  ASSUME TypeInv, NEW r \in Requests, WakeKill(r)
  PROVE  TypeInv'
<1>1. CASE Ended(r) BY <1>1, LeaveWaitType DEF WakeKill
<1>2. CASE ~ Ended(r) /\ fc.req[r].state = "PENDING"
  BY <1>2, BailOutType DEF WakeKill
<1>3. CASE ~ Ended(r) /\ fc.req[r].state # "PENDING"
  <2>1. WaitOut(r) BY <1>3 DEF WakeKill
  <2>2. fc' \in Conn BY <2>1, AsleepUpdate DEF WaitOut, TypeInv, TypeOK
  <2> QED BY <2>1, <2>2, CallerMove DEF WakeKill, WaitOut, TaskPc
<1> QED BY <1>1, <1>2, <1>3

LEMMA NotifyReplyType ==
  ASSUME TypeInv, NEW r \in Requests, SendNotifyReply(r)
  PROVE  TypeInv'
<1>0. fc \in Conn /\ fc.req[r] \in Req BY ConnFields DEF TypeInv, TypeOK
<1>1. thread' \in [Thread -> ThreadState] /\ ThreadsHold'
  BY LeaveType DEF SendNotifyReply
<1>2. UNCHANGED <<sig, abort, inbox>> BY DEF SendNotifyReply
<1>3. fc' \in Conn
  <2>1. CASE fc.connected BY <1>0, <2>1, QueueRequestType DEF SendNotifyReply
  <2>2. CASE ~ fc.connected
    <3> DEFINE q == [fc.req[r] EXCEPT !.ended = @ + 1]
    <3>1. q \in Req BY <1>0 DEF Req
    <3>2. fc' = [fc EXCEPT !.req[r] = q] BY <2>2 DEF SendNotifyReply
    <3> HIDE DEF q
    <3> QED BY <1>0, <3>1, <3>2, ConnReq
  <2> QED BY <2>1, <2>2
<1>4. task' \in [Requests -> TaskPc]
  BY TaskMove DEF SendNotifyReply, TypeInv, TaskPc
<1> QED BY <1>1, <1>2, <1>3, <1>4, KeepRest DEF TypeInv, TypeOK

\* The reserved request changes hands.
LEMMA ConnReserved ==
  ASSUME NEW c \in Conn, NEW r \in Requests, NEW q \in Req, NEW b \in BOOLEAN
  PROVE  [c EXCEPT !.reserved = b, !.req[r] = q] \in Conn
BY DEF Conn

LEMMA GetReservedType ==
  ASSUME TypeInv, NEW r \in Requests, get_reserved_req(r)
  PROVE  fc' \in Conn
<1> DEFINE p == [fc.req[r] EXCEPT !.count = 1, !.waiting = TRUE]
           q == [p EXCEPT !.stolen = TRUE]
<1>0. fc \in Conn /\ fc.req[r] \in Req BY ConnFields DEF TypeInv, TypeOK
<1>a. 1 \in Int OBVIOUS
<1>b. p \in Req BY <1>0, <1>a, ReqCountWaiting
<1>c. q = [fc.req[r] EXCEPT !.stolen = TRUE, !.count = 1, !.waiting = TRUE] OBVIOUS
<1> HIDE DEF p
<1>1. q \in Req BY <1>b DEF Req
<1> HIDE DEF q
<1>2. fc' = [fc EXCEPT !.reserved = FALSE, !.req[r] = q] 
  BY <1>c DEF get_reserved_req
<1> QED BY <1>0, <1>1, <1>2, ConnReserved

LEMMA PutReservedType ==
  ASSUME TypeInv, NEW r \in Requests, put_reserved_req(r)
  PROVE  fc' \in Conn
<1> DEFINE q == [fc.req[r] EXCEPT !.stolen = FALSE]
<1>0. fc \in Conn /\ fc.req[r] \in Req BY ConnFields DEF TypeInv, TypeOK
<1>1. q \in Req BY <1>0 DEF Req
<1>2. fc' = [fc EXCEPT !.reserved = TRUE, !.req[r] = q] BY DEF put_reserved_req
<1> HIDE DEF q
<1> QED BY <1>0, <1>1, <1>2, ConnReserved

\* Every step of a caller keeps the type invariant.
LEMMA CallerType ==
  ASSUME TypeInv, NEW r \in Requests, Caller(r)
  PROVE  TypeInv'
<1>0. fc \in Conn /\ fc.req[r] \in Req BY ConnFields DEF TypeInv, TypeOK
<1>1. CASE GetReq(r)
  BY <1>1, StartGetType, KeepRest DEF GetReq, StartGet, TypeInv, TypeOK, ThreadsHold
<1>2. CASE GetReqSleep(r)
  <2> DEFINE w == fc.blocked_waitq \cup {r}
  <2>1. w \in SUBSET Requests BY <1>0, ConnFields
  <2>2. fc' = [fc EXCEPT !.blocked_waitq = w] BY <1>2 DEF GetReqSleep
  <2> HIDE DEF w
  <2>3. fc' \in Conn BY <1>0, <2>1, <2>2 DEF Conn
  <2> QED BY <1>2, <2>3, KeepRest DEF GetReqSleep, TypeInv, TypeOK, ThreadsHold
<1>3. CASE GetReqKilled(r) BY <1>3, GetReqFailType DEF GetReqKilled
<1>4. CASE GetReqRefused(r) BY <1>4, GetReqFailType DEF GetReqRefused
<1>5. CASE GetReqDone(r)
  <2>1. fc' \in Conn BY <1>5, AllocType DEF GetReqDone
  <2> QED BY <1>5, <2>1, CallerMove DEF GetReqDone, TaskPc
<1>6. CASE RequestAlloc(r)
  <2>1. fc' \in Conn BY <1>6, AllocType DEF RequestAlloc
  <2> QED BY <1>6, <2>1, CallerMove DEF RequestAlloc, TaskPc
<1>7. CASE RequestSend(r) BY <1>7, RequestSendType
<1>8. CASE RequestSendRefused(r)
  <2>1. fc' \in Conn BY <1>0, <1>8, Errors, ErrorUpdate DEF RequestSendRefused
  <2> QED BY <1>8, <2>1, CallerMove DEF RequestSendRefused, TaskPc
<1>9. CASE WakeIntr(r) BY <1>9, WakeIntrType
<1>10. CASE WakeKill(r) BY <1>10, WakeKillType
<1>11. CASE WakeForced(r) BY <1>11, LeaveWaitType DEF WakeForced
<1>12. CASE WakeUnlock(r)
  BY <1>0, <1>12, CallerMove DEF WakeUnlock, TaskPc
<1>13. CASE PutRequest(r)
  <2>1. fc' \in Conn BY <1>0, <1>13, PutType DEF PutRequest
  <2>2. task' \in [Requests -> TaskPc]
    BY <1>13, TaskMove DEF PutRequest, TypeInv, TaskPc
  <2>3. sig' \in [Requests -> {"none", "signal", "fatal"}]
    BY <1>13 DEF PutRequest, TypeInv, TypeOK
  <2>4. UNCHANGED <<thread, abort, inbox>> BY <1>13 DEF PutRequest
  <2> QED BY <2>1, <2>2, <2>3, <2>4 DEF TypeInv, TypeOK, ThreadsHold, AbortHolds
<1>14. CASE SendBackground(r)
  <2>1. fc' \in Conn BY <1>0, <1>14, SendBackgroundType DEF SendBackground
  <2> QED BY <1>14, <2>1, CallerMove DEF SendBackground, TaskPc
<1>15. CASE SendBackgroundRefused(r)
  <2> DEFINE c == [fc EXCEPT !.req[r].error = "ENOTCONN"]
  <2>1. c \in Conn BY <1>0, Errors, ErrorUpdate
  <2>2. fc' = request_end(c, r) BY <1>15 DEF SendBackgroundRefused
  <2> HIDE DEF c
  <2>3. fc' \in Conn BY <2>1, <2>2, RequestEndType
  <2> QED BY <1>15, <2>3, CallerMove DEF SendBackgroundRefused, TaskPc
<1>16. CASE SendBackgroundEnd(r)
  <2>1. fc' \in Conn BY <1>0, <1>16, EndTailType DEF SendBackgroundEnd
  <2> QED BY <1>16, <2>1, CallerMove DEF SendBackgroundEnd, TaskPc
<1>17. CASE SendNotifyReply(r) BY <1>17, NotifyReplyType
<1>18. CASE Signal(r)
  BY <1>18 DEF Signal, TypeInv, TypeOK, ThreadsHold, AbortHolds
<1>19. CASE GetReqNoMemory(r)
  BY <1>0, <1>19, CallerMove DEF GetReqNoMemory, TaskPc
<1>20. CASE get_reserved_req(r)
  <2>1. fc' \in Conn BY <1>20, GetReservedType
  <2> QED BY <1>20, <2>1, CallerMove DEF get_reserved_req, TaskPc
<1>21. CASE put_reserved_req(r)
  <2>1. fc' \in Conn BY <1>21, PutReservedType
  <2> QED BY <1>21, <2>1, KeepRest DEF put_reserved_req, TypeInv, TypeOK, ThreadsHold
<1> QED
  BY <1>1, <1>2, <1>3, <1>4, <1>5, <1>6, <1>7, <1>8, <1>9, <1>10, <1>11, <1>12,
     <1>13, <1>14, <1>15, <1>16, <1>17, <1>18, <1>19, <1>20, <1>21 DEF Caller

\* Moving a request between the lists, in a new state.
LEMMA ListedType ==
  ASSUME NEW c \in Conn, NEW r \in Requests, NEW st \in State, NEW n \in Int
  PROVE  /\ [list_del(c, r) EXCEPT !.io = @ \cup {r}, !.req[r].state = st,
                                   !.forget_batch = n] \in Conn
         /\ [list_del(c, r) EXCEPT !.processing = @ \cup {r}, !.req[r].state = st] \in Conn
<1> DEFINE d == list_del(c, r)
           q == [d.req[r] EXCEPT !.state = st]
           i == d.io \cup {r}
           t == d.processing \cup {r}
<1>1. d \in Conn BY ListDelType
<1>2. /\ [d EXCEPT !.io = @ \cup {r}, !.req[r].state = st, !.forget_batch = n]
           = [d EXCEPT !.io = i, !.req[r] = q, !.forget_batch = n]
      /\ [d EXCEPT !.processing = @ \cup {r}, !.req[r].state = st]
           = [d EXCEPT !.processing = t, !.req[r] = q]
  OBVIOUS
<1> HIDE DEF d
<1>3. d.req[r] \in Req /\ i \in SUBSET Requests /\ t \in SUBSET Requests
  BY <1>1, ConnFields
<1>4. q \in Req BY <1>3 DEF Req
<1> HIDE DEF q, i, t
<1>5. /\ [d EXCEPT !.io = i, !.req[r] = q, !.forget_batch = n] \in Conn
      /\ [d EXCEPT !.processing = t, !.req[r] = q] \in Conn
  BY <1>1, <1>3, <1>4 DEF Conn
<1> QED BY <1>2, <1>5 DEF d

LEMMA TakeRequestType ==
  ASSUME TypeInv, fc.pending # <<>>
  PROVE  TakeRequest \in Conn /\ Head(fc.pending) \in Requests
<1> DEFINE r == Head(fc.pending)
<1>0. fc \in Conn /\ fc.pending \in Seq(Requests) BY ConnFields DEF TypeInv, TypeOK
<1>1. r \in Requests BY <1>0
<1>2. NextBatch \in Int
  BY <1>0, ConnFields, BoundAssumption DEF NextBatch
<1>3. "READING" \in State BY DEF State
<1>4. TakeRequest = [list_del(fc, r) EXCEPT !.io = @ \cup {r}, !.req[r].state = "READING",
                                            !.forget_batch = NextBatch]
  BY DEF TakeRequest
<1> HIDE DEF r
<1>5. TakeRequest \in Conn BY <1>0, <1>1, <1>2, <1>3, <1>4, ListedType
<1> QED BY <1>1, <1>5 DEF r

LEMMA DeliveredType ==
  ASSUME NEW c \in Conn, NEW r \in Requests
  PROVE  Delivered(c, r) \in Conn
<1> DEFINE s == [list_del(c, r) EXCEPT !.processing = @ \cup {r}, !.req[r].state = "SENT"]
<1>0. "SENT" \in State /\ 0 \in Int BY DEF State
<1>1. s \in Conn BY <1>0, ListedType
<1>2. Delivered(c, r) = IF s.req[r].interrupted THEN queue_interrupt(s, r) ELSE s
  BY DEF Delivered
<1> HIDE DEF s
<1> QED BY <1>1, <1>2, QueueInterruptType

\* What a step of a daemon thread has to establish.
LEMMA DaemonMove ==
  ASSUME TypeInv, fc' \in Conn, UNCHANGED <<task, sig, abort>>,
         inbox' \subseteq Message,
         thread' \in [Thread -> ThreadState] /\ ThreadsHold'
  PROVE  TypeInv'
BY KeepRest DEF TypeInv, TypeOK

LEMMA ReadInterruptType ==
  ASSUME TypeInv, NEW d \in Thread, ReadInterrupt(d)
  PROVE  TypeInv'
<1> DEFINE r == Head(fc.interrupts)
           u == fuse_get_unique(fc.reqctr, 1)
           q == [fc.req[r] EXCEPT !.intr_unique = u]
           s == Tail(fc.interrupts)
           m == [req |-> r, unique |-> u, intr |-> TRUE]
<1>0. fc \in Conn /\ fc.interrupts \in Seq(Requests) /\ fc.interrupts # <<>>
  BY ConnFields DEF TypeInv, TypeOK, ReadInterrupt
<1>1. r \in Requests /\ s \in Seq(Requests) BY <1>0
<1>2. fc.req[r] \in Req /\ fc.reqctr \in 0 .. UniqueMax BY <1>0, <1>1, ConnFields
<1>3. u \in 0 .. UniqueMax BY <1>2, UniqueType, BoundAssumption
<1>4. fc' = [fc EXCEPT !.interrupts = s, !.reqctr = u, !.req[r] = q]
  BY DEF ReadInterrupt
<1>5. inbox' = inbox \cup {m} \/ inbox' = inbox BY DEF ReadInterrupt
<1>6. UNCHANGED <<task, sig, thread, abort>> BY DEF ReadInterrupt
<1> HIDE DEF r, u, s
<1>7. q \in Req BY <1>2, <1>3 DEF Req
<1> HIDE DEF q
<1>8. fc' \in Conn BY <1>0, <1>1, <1>3, <1>4, <1>7 DEF Conn
<1>9. m \in Message BY <1>1, <1>3 DEF Message
<1>10. inbox' \subseteq Message BY <1>5, <1>9 DEF TypeInv, TypeOK
<1> QED BY <1>6, <1>8, <1>10, DaemonMove DEF TypeInv, TypeOK, ThreadsHold

LEMMA ReadForgetType ==
  ASSUME TypeInv, NEW d \in Thread, ReadForget(d)
  PROVE  TypeInv'
<1>0. fc \in Conn BY DEF TypeInv, TypeOK
<1>1. PICK n \in 0 .. Len(fc.forget_list) : fuse_read_forget(n) BY DEF ReadForget
<1> DEFINE f == SubSeq(fc.forget_list, n + 1, Len(fc.forget_list))
           u == fuse_get_unique(fc.reqctr, 1)
           b == IF fc.pending = <<>> THEN fc.forget_batch ELSE fc.forget_batch - 1
           e == dequeue_forget(fc, n)
<1>2. fc.forget_list \in Seq(Forget) /\ fc.reqctr \in 0 .. UniqueMax /\ b \in Int
  BY <1>0, ConnFields
<1>3. f \in Seq(Forget) BY <1>1, <1>2, SubSeqProperties
<1>a. fc.reqctr \in 0 .. UniqueMax BY <1>0, ConnFields
<1>b. u \in 1 .. UniqueMax BY <1>a, UniqueType
<1>4. u \in 0 .. UniqueMax BY <1>b, BoundAssumption
<1>5. e = [fc EXCEPT !.forget_list = f] BY DEF dequeue_forget
<1>6. fc' = [e EXCEPT !.reqctr = fuse_get_unique(@, 1),
                      !.forget_batch = IF fc.pending = <<>> THEN @ ELSE @ - 1]
  BY <1>1 DEF fuse_read_forget
<1>7. e.reqctr = fc.reqctr /\ e.forget_batch = fc.forget_batch
  BY <1>0, <1>5 DEF Conn
<1> HIDE DEF e
<1>8. fc' = [e EXCEPT !.reqctr = u, !.forget_batch = b] BY <1>6, <1>7
<1> HIDE DEF f, u, b
<1>9. fc' \in Conn BY <1>0, <1>2, <1>3, <1>4, <1>5, <1>8 DEF Conn
<1> QED BY <1>9, DaemonMove DEF ReadForget, TypeInv, TypeOK, ThreadsHold

LEMMA ReadTypes ==
  ASSUME TypeInv, NEW d \in Thread, Read(d)
  PROVE  TypeInv'
<1>1. CASE ReadInterrupt(d) BY <1>1, ReadInterruptType
<1>2. CASE ReadForget(d) BY <1>2, ReadForgetType
<1>3. CASE ReadRequest(d)
  <2>1. fc' \in Conn /\ Head(fc.pending) \in Requests
    BY <1>3, TakeRequestType DEF ReadRequest, ReadyToRead
  <2>2. thread' \in [Thread -> ThreadState] /\ ThreadsHold'
    BY <1>3, <2>1, MoveType DEF ReadRequest
  <2> QED BY <1>3, <2>1, <2>2, DaemonMove
        DEF ReadRequest, ReadyToRead, TypeInv, TypeOK
<1>4. CASE ReadTooLarge(d)
  <2> DEFINE r == Head(fc.pending)
             t == TakeRequest
             c == [t EXCEPT !.req[r].error = "EIO"]
  <2>1. t \in Conn /\ r \in Requests
    BY <1>4, TakeRequestType DEF ReadTooLarge, ReadyToRead
  <2>2. EndBy(d, c, r) BY <1>4 DEF ReadTooLarge
  <2> HIDE DEF r, t
  <2>3. c \in Conn BY <2>1, Errors, ErrorUpdate
  <2> HIDE DEF c
  <2>4. fc' \in Conn /\ thread' \in [Thread -> ThreadState] /\ ThreadsHold'
    BY <2>1, <2>2, <2>3, EndByType
  <2> QED BY <1>4, <2>4, DaemonMove DEF ReadTooLarge, ReadyToRead, TypeInv, TypeOK
<1> QED BY <1>1, <1>2, <1>3, <1>4 DEF Read

\* The request a copying thread or one that ends a request works on.
LEMMA ThreadRequest ==
  ASSUME TypeInv, NEW d \in Thread, thread[d].pc # "idle"
  PROVE  /\ thread[d].req \in Requests /\ thread[d].end \in BOOLEAN
         /\ fc \in Conn /\ fc.req[thread[d].req] \in Req
<1>1. thread[d] \in ThreadState /\ thread[d].req \in Requests /\ fc \in Conn
  BY DEF TypeInv, TypeOK, ThreadsHold
<1>2. thread[d].end \in BOOLEAN BY <1>1 DEF ThreadState
<1> QED BY <1>1, <1>2, ConnFields

LEMMA ReadFinishType ==
  ASSUME TypeInv, NEW d \in Thread, ReadFinish(d)
  PROVE  TypeInv'
<1> DEFINE r == thread[d].req
           c == [fc EXCEPT !.req[r].locked = FALSE]
           bad == thread[d].phase = "failed"
           e == IF bad /\ ~ c.req[r].aborted THEN [c EXCEPT !.req[r].error = "EIO"] ELSE c
           m == [req |-> r, unique |-> fc.req[r].unique, intr |-> FALSE]
<1>0. thread[d].pc # "idle" /\ UNCHANGED <<task, sig, abort>>
  BY DEF ReadFinish, CopyOver
<1>1. r \in Requests /\ fc \in Conn /\ fc.req[r] \in Req BY <1>0, ThreadRequest
<1>2. \/ EndBy(d, e, r) /\ inbox' = inbox
      \/ /\ fc' = Delivered(c, r) /\ inbox' = inbox \cup {m}
         /\ thread' = [thread EXCEPT ![d] = Idle]
  BY DEF ReadFinish
<1> HIDE DEF r
<1>3. c \in Conn BY <1>1, LockedUpdate
<1>4. m \in Message BY <1>1 DEF Message, Req
<1> HIDE DEF c, m
<1>5. e \in Conn BY <1>1, <1>3, Errors, ErrorUpdate
<1> HIDE DEF e
<1>6. CASE EndBy(d, e, r) /\ inbox' = inbox
  <2>1. fc' \in Conn /\ thread' \in [Thread -> ThreadState] /\ ThreadsHold'
    BY <1>1, <1>5, <1>6, EndByType
  <2> QED BY <1>0, <1>6, <2>1, DaemonMove DEF TypeInv, TypeOK
<1>7. CASE /\ fc' = Delivered(c, r) /\ inbox' = inbox \cup {m}
           /\ thread' = [thread EXCEPT ![d] = Idle]
  <2>1. fc' \in Conn BY <1>1, <1>3, <1>7, DeliveredType
  <2>2. thread' \in [Thread -> ThreadState] /\ ThreadsHold'
    BY <1>7, IdleType, ThreadMove
  <2>3. inbox' \subseteq Message BY <1>4, <1>7 DEF TypeInv, TypeOK
  <2> QED BY <1>0, <2>1, <2>2, <2>3, DaemonMove
<1> QED BY <1>2, <1>6, <1>7

LEMMA WriteFinishType ==
  ASSUME TypeInv, NEW d \in Thread, WriteFinish(d)
  PROVE  TypeInv'
<1> DEFINE r == thread[d].req
           c == [fc EXCEPT !.req[r].locked = FALSE]
           bad == thread[d].phase = "failed" /\ ~ c.req[r].aborted
           e == IF bad THEN [c EXCEPT !.req[r].error = "EIO"] ELSE c
<1>0. thread[d].pc # "idle" /\ UNCHANGED <<task, sig, abort, inbox>>
  BY DEF WriteFinish, CopyOver
<1>1. r \in Requests /\ fc \in Conn BY <1>0, ThreadRequest
<1>2. EndBy(d, e, r) BY DEF WriteFinish
<1> HIDE DEF r
<1>3. c \in Conn BY <1>1, LockedUpdate
<1> HIDE DEF c
<1>4. e \in Conn BY <1>1, <1>3, Errors, ErrorUpdate
<1> HIDE DEF e
<1>5. fc' \in Conn /\ thread' \in [Thread -> ThreadState] /\ ThreadsHold'
  BY <1>1, <1>2, <1>4, EndByType
<1> QED BY <1>0, <1>5, DaemonMove DEF TypeInv, TypeOK

LEMMA InsideType ==
  ASSUME TypeInv, NEW d \in Thread, Inside(d)
  PROVE  TypeInv'
<1>1. CASE lock_request(d)
  <2> DEFINE r == thread[d].req
  <2>1. r \in Requests /\ fc \in Conn
    BY <1>1, ThreadRequest DEF lock_request, Copying
  <2>2. \/ fc' = fc /\ Phase(d, "failed")
        \/ fc' = [fc EXCEPT !.req[r].locked = TRUE] /\ Phase(d, "locked")
    BY <1>1 DEF lock_request
  <2> HIDE DEF r
  <2>3. fc' \in Conn BY <2>1, <2>2, LockedUpdate
  <2>4. thread' \in [Thread -> ThreadState] /\ ThreadsHold' BY <2>2, PhaseType
  <2> QED BY <1>1, <2>3, <2>4, DaemonMove DEF lock_request, TypeInv, TypeOK
<1>2. CASE unlock_request(d)
  <2> DEFINE r == thread[d].req
             c == [fc EXCEPT !.req[r].locked = FALSE]
  <2>1. r \in Requests /\ fc \in Conn
    BY <1>2, ThreadRequest DEF unlock_request, Copying
  <2>2. fc' = c \/ fc' = wake_up(c, r) BY <1>2 DEF unlock_request
  <2> HIDE DEF r
  <2>3. c \in Conn BY <2>1, LockedUpdate
  <2> HIDE DEF c
  <2>4. fc' \in Conn BY <2>1, <2>2, <2>3, WakeUpType
  <2>5. thread' \in [Thread -> ThreadState] /\ ThreadsHold'
    BY <1>2, PhaseType DEF unlock_request
  <2> QED BY <1>2, <2>4, <2>5, DaemonMove DEF unlock_request, TypeInv, TypeOK
<1>3. CASE CopyFail(d)
  <2>1. thread' \in [Thread -> ThreadState] /\ ThreadsHold'
    BY <1>3, PhaseType DEF CopyFail
  <2> QED BY <1>3, <2>1, DaemonMove DEF CopyFail, TypeInv, TypeOK
<1>4. CASE WrongLength(d)
  <2>1. thread' \in [Thread -> ThreadState] /\ ThreadsHold'
    BY <1>4, PhaseType DEF WrongLength
  <2> QED BY <1>4, <2>1, DaemonMove DEF WrongLength, TypeInv, TypeOK
<1>5. CASE ReadFinish(d) BY <1>5, ReadFinishType
<1>6. CASE WriteFinish(d) BY <1>6, WriteFinishType
<1>7. CASE ThreadEnd(d)
  <2>1. thread[d].pc # "idle" BY <1>7 DEF ThreadEnd
  <2>2. fc' \in Conn BY <1>7, <2>1, ThreadRequest, EndTailType DEF ThreadEnd
  <2>3. thread' \in [Thread -> ThreadState] /\ ThreadsHold'
    BY <1>7, IdleType, ThreadMove DEF ThreadEnd
  <2> QED BY <1>7, <2>2, <2>3, DaemonMove DEF ThreadEnd, TypeInv, TypeOK
<1> QED BY <1>1, <1>2, <1>3, <1>4, <1>5, <1>6, <1>7 DEF Inside

LEMMA RepliedType ==
  ASSUME NEW c \in Conn, NEW r \in Requests
  PROVE  Replied(c, r) \in Conn
<1> DEFINE d == list_del(c, r)
           q == [d.req[r] EXCEPT !.state = "WRITING", !.error = "REPLY", !.locked = TRUE]
           i == d.io \cup {r}
<1>1. d \in Conn BY ListDelType
<1>2. Replied(c, r) = [d EXCEPT !.io = i, !.req[r].state = "WRITING",
                                !.req[r].error = "REPLY", !.req[r].locked = TRUE]
  BY DEF Replied
<1> HIDE DEF d
<1>3. d.req[r] \in Req /\ i \in SUBSET Requests BY <1>1, ConnFields
<1> HIDE DEF i
<1>4. [d EXCEPT !.io = i, !.req[r].state = "WRITING",
                !.req[r].error = "REPLY", !.req[r].locked = TRUE]
      = [d EXCEPT !.io = i, !.req[r] = q]
  BY ZenonT(40)
<1>5. q \in Req BY <1>3 DEF Req, State, Error
<1> HIDE DEF q
<1>6. [d EXCEPT !.io = i, !.req[r] = q] \in Conn BY <1>1, <1>3, <1>5 DEF Conn
<1> QED BY <1>2, <1>4, <1>6

LEMMA WriteReplyType ==
  ASSUME TypeInv, NEW d \in Thread, NEW m \in inbox, WriteReply(d, m)
  PROVE  TypeInv'
<1>1. PICK r \in Requests :
        /\ UNCHANGED <<task, sig, abort>> /\ inbox' \subseteq inbox
        /\ fc' = Replied(fc, r) /\ Move(d, "write", r, "locked")
  BY DEF WriteReply, Found, Writer
<1>2. fc' \in Conn BY <1>1, RepliedType DEF TypeInv, TypeOK
<1>3. thread' \in [Thread -> ThreadState] /\ ThreadsHold' BY <1>1, MoveType
<1> QED BY <1>1, <1>2, <1>3, DaemonMove DEF TypeInv, TypeOK

LEMMA WriteType ==
  ASSUME TypeInv, NEW d \in Thread, NEW m \in inbox, Write(d, m)
  PROVE  TypeInv'
<1>0. fc \in Conn /\ inbox \subseteq Message BY DEF TypeInv, TypeOK
<1>1. CASE WriteNoEntry(d, m)
  BY <1>0, <1>1, DaemonMove DEF WriteNoEntry, Writer, TypeInv, TypeOK, ThreadsHold
<1>2. CASE WriteInterruptReply(d, m)
  <2>1. PICK r \in Requests :
          /\ UNCHANGED <<task, sig, abort, thread>> /\ inbox' \subseteq inbox
          /\ \/ fc' = [fc EXCEPT !.no_interrupt = TRUE]
             \/ fc' = queue_interrupt(fc, r)
             \/ fc' = fc
    BY <1>2 DEF WriteInterruptReply, Found, Writer
  <2>2. [fc EXCEPT !.no_interrupt = TRUE] \in Conn BY <1>0 DEF Conn
  <2>3. fc' \in Conn BY <1>0, <2>1, <2>2, QueueInterruptType
  <2> QED BY <1>0, <2>1, <2>3, DaemonMove DEF TypeInv, TypeOK, ThreadsHold
<1>3. CASE WriteReply(d, m) BY <1>3, WriteReplyType
<1> QED BY <1>1, <1>2, <1>3 DEF Write

LEMMA RetrieveType ==
  ASSUME TypeInv, NEW d \in Thread, NEW r \in NotifyReply, Retrieve(d, r)
  PROVE  TypeInv'
<1>0. r \in Requests BY DEF Requests
<1>1. fc' \in Conn /\ task' \in [Requests -> TaskPc]
  BY <1>0, StartGetType DEF Retrieve
<1>2. thread' \in [Thread -> ThreadState] /\ ThreadsHold'
  BY <1>0, MoveType DEF Retrieve
<1>3. UNCHANGED <<sig, abort, inbox>> BY DEF Retrieve, StartGet
<1> QED BY <1>1, <1>2, <1>3, KeepRest DEF TypeInv, TypeOK

LEMMA QueueForgetType ==
  ASSUME TypeInv, NEW f \in Forget, QueueForget(f)
  PROVE  TypeInv'
<1> DEFINE s == Append(fc.forget_list, f)
<1>0. fc \in Conn BY DEF TypeInv, TypeOK
<1>1. s \in Seq(Forget) BY <1>0, ConnFields
<1>2. fc' = [fc EXCEPT !.forget_list = s] BY DEF QueueForget
<1> HIDE DEF s
<1>3. fc' \in Conn BY <1>0, <1>1, <1>2 DEF Conn
<1> QED BY <1>3, KeepRest DEF QueueForget, TypeInv, TypeOK, ThreadsHold

\* What a step of the abort has to establish.
LEMMA AbortMove ==
  ASSUME TypeInv, fc' \in Conn, abort' \in AbortState, AbortHolds',
         UNCHANGED <<task, sig, thread, inbox>>
  PROVE  TypeInv'
BY DEF TypeInv, TypeOK, ThreadsHold

\* A request that the abort takes from io.
LEMMA AbortedType ==
  ASSUME TypeInv, NEW r \in Requests
  PROVE  Aborted(r) \in Conn
<1> DEFINE c == list_del(fc, r)
           q == [c.req[r] EXCEPT !.aborted = TRUE, !.error = "ECONNABORTED",
                                 !.state = "FINISHED", !.asleep = FALSE]
<1>1. c \in Conn BY ListDelType DEF TypeInv, TypeOK
<1>2. Aborted(r) = [c EXCEPT !.req[r].aborted = TRUE, !.req[r].error = "ECONNABORTED",
                             !.req[r].state = "FINISHED", !.req[r].asleep = FALSE]
  BY DEF Aborted
<1> HIDE DEF c
<1>3. [c EXCEPT !.req[r].aborted = TRUE, !.req[r].error = "ECONNABORTED",
                !.req[r].state = "FINISHED", !.req[r].asleep = FALSE]
      = [c EXCEPT !.req[r] = q]
  BY ZenonT(40)
<1>4. c.req[r] \in Req BY <1>1, ConnFields
<1>5. q \in Req BY <1>4 DEF Req, State, Error
<1> HIDE DEF q
<1> QED BY <1>1, <1>2, <1>3, <1>5, ConnReq

LEMMA AbortedHeldType ==
  ASSUME TypeInv, NEW r \in Requests
  PROVE  AbortedHeld(r) \in Conn
<1> DEFINE a == Aborted(r)
           b == fc.req[r].locked
           n == a.req[r].count + 1
           h == [a.req[r] EXCEPT !.count = n, !.asleep = b]
           k == [h EXCEPT !.end = FALSE]
<1>1. a \in Conn BY AbortedType
<1>2. fc.req[r] \in Req /\ a.req[r] \in Req BY <1>1, ConnFields DEF TypeInv, TypeOK
<1>3. b \in BOOLEAN BY <1>2 DEF Req
<1>4. AbortedHeld(r) = [a EXCEPT !.req[r].end = FALSE, !.req[r].count = @ + 1,
                                 !.req[r].asleep = b]
  BY DEF AbortedHeld
<1> HIDE DEF a, b
<1>5. AbortedHeld(r) = [a EXCEPT !.req[r].end = FALSE, !.req[r].count = n,
                                 !.req[r].asleep = b]
  BY <1>4
<1>6. n \in Int BY <1>2, ReqCount
<1> HIDE DEF n
<1>7. k = [a.req[r] EXCEPT !.end = FALSE, !.count = n, !.asleep = b]
  BY <1>2 DEF Req
<1> HIDE DEF k
<1>8. [a EXCEPT !.req[r].end = FALSE, !.req[r].count = n, !.req[r].asleep = b]
      = [a EXCEPT !.req[r] = [a.req[r] EXCEPT !.end = FALSE, !.count = n, !.asleep = b]]
  BY ZenonT(40)
<1>9. h \in Req BY <1>2, <1>3, <1>6, ReqCountAsleep
<1> HIDE DEF h
<1>10. k \in Req BY <1>9 DEF Req, k
<1> QED BY <1>1, <1>5, <1>7, <1>8, <1>10, ConnReq

LEMMA AbortEndType ==
  ASSUME TypeInv, NEW r \in Requests, NEW next \in {"end_pending", "end_processing"},
         AbortEnd(r, next)
  PROVE  TypeInv'
<1> DEFINE c == [fc EXCEPT !.req[r].error = "ECONNABORTED"]
           e == fc.req[r].end
<1>1. fc \in Conn /\ fc.req[r] \in Req BY ConnFields DEF TypeInv, TypeOK
<1>2. c \in Conn BY <1>1, Errors, ErrorUpdate
<1>3. e \in BOOLEAN BY <1>1 DEF Req
<1>4. fc' = request_end(c, r) /\ UNCHANGED <<task, sig, thread, inbox>>
  BY DEF AbortEnd
<1>5. abort' = [pc |-> next, req |-> r, end |-> e, lock |-> FALSE] BY DEF AbortEnd
<1> HIDE DEF c, e
<1>6. fc' \in Conn BY <1>2, <1>4, RequestEndType
<1>7. abort' \in AbortState /\ AbortHolds' BY <1>3, <1>5 DEF AbortState, AbortHolds
<1> QED BY <1>4, <1>6, <1>7, AbortMove

LEMMA AbortTailType ==
  ASSUME TypeInv, NEW pc \in {"end_pending", "end_processing"},
         NEW next \in {"pending", "processing"}, AbortTail(pc, next)
  PROVE  TypeInv'
<1>1. abort \in AbortState /\ abort.req \in Requests /\ fc \in Conn
  BY DEF TypeInv, TypeOK, AbortHolds, AbortTail
<1>2. abort.end \in BOOLEAN BY <1>1 DEF AbortState
<1>3. fc' \in Conn BY <1>1, <1>2, EndTailType DEF AbortTail
<1>4. abort' \in AbortState /\ AbortHolds'
  BY <1>1 DEF AbortTail, AbortState, AbortHolds
<1> QED BY <1>3, <1>4, AbortMove DEF AbortTail

LEMMA AbortType ==
  ASSUME TypeInv, Abort
  PROVE  TypeInv'
<1>0. fc \in Conn /\ abort \in AbortState BY DEF TypeInv, TypeOK
<1>1. CASE AbortStart
  <2>1. fc' = [fc EXCEPT !.connected = FALSE, !.blocked = FALSE]
    BY <1>1 DEF AbortStart
  <2>2. fc' \in Conn BY <1>0, <2>1 DEF Conn
  <2>3. abort' \in AbortState /\ AbortHolds'
    BY <1>0, <1>1 DEF AbortStart, AbortState, AbortHolds
  <2> QED BY <1>1, <2>2, <2>3, AbortMove DEF AbortStart
<1>2. ASSUME NEW r \in Requests, AbortIo(r) PROVE TypeInv'
  <2>1. fc' \in Conn BY <1>2, AbortedType, AbortedHeldType DEF AbortIo
  <2>2. abort' \in AbortState /\ AbortHolds'
    <3>1. CASE abort' = [pc |-> "io_end", req |-> r, end |-> TRUE, lock |-> FALSE]
      BY <3>1 DEF AbortState, AbortHolds
    <3>2. CASE abort.pc = "io" /\ abort' = [abort EXCEPT !.lock = TRUE]
      BY <1>0, <3>2 DEF AbortState, AbortHolds
    <3> QED BY <1>2, <3>1, <3>2 DEF AbortIo
  <2> QED BY <1>2, <2>1, <2>2, AbortMove DEF AbortIo
<1>3. CASE AbortIoEnd
  <2> DEFINE r == abort.req
             q == [fc.req[r] EXCEPT !.ended = @ + 1]
             c == [fc EXCEPT !.req[r] = q]
  <2>1. r \in Requests BY <1>3 DEF TypeInv, AbortHolds, AbortIoEnd
  <2>2. fc' = fuse_put_request(c, r) BY <1>3 DEF AbortIoEnd
  <2> HIDE DEF r
  <2>3. fc.req[r] \in Req BY <1>0, <2>1, ConnFields
  <2>4. q \in Req BY <2>3 DEF Req
  <2> HIDE DEF q
  <2>5. c \in Conn BY <1>0, <2>1, <2>4, ConnReq
  <2> HIDE DEF c
  <2>6. fc' \in Conn BY <2>1, <2>2, <2>5, PutType
  <2>7. abort' \in AbortState /\ AbortHolds'
    BY <1>0, <1>3 DEF AbortIoEnd, AbortState, AbortHolds
  <2> QED BY <1>3, <2>6, <2>7, AbortMove DEF AbortIoEnd
<1>4. CASE AbortQueued
  <2> DEFINE c == [fc EXCEPT !.max_background = UintMax]
  <2>1. c \in Conn BY <1>0 DEF Conn
  <2>2. fc' = flush_bg_queue(c) BY <1>4 DEF AbortQueued
  <2> HIDE DEF c
  <2>3. fc' \in Conn BY <2>1, <2>2, FlushType
  <2>4. abort' \in AbortState /\ AbortHolds'
    BY <1>0, <1>4 DEF AbortQueued, AbortState, AbortHolds
  <2> QED BY <1>4, <2>3, <2>4, AbortMove DEF AbortQueued
<1>5. CASE AbortPending
  <2>1. Head(fc.pending) \in Requests BY <1>0, <1>5, ConnFields DEF AbortPending
  <2> QED BY <1>5, <2>1, AbortEndType DEF AbortPending
<1>6. CASE AbortProcessing
  <2>1. PICK r \in fc.processing : AbortEnd(r, "end_processing")
    BY <1>6 DEF AbortProcessing
  <2>2. r \in Requests BY <1>0, ConnFields
  <2> QED BY <2>1, <2>2, AbortEndType
<1>7. CASE AbortDone
  <2>1. fc' = [fc EXCEPT !.forget_list = <<>>, !.blocked_waitq = {}]
    BY <1>7 DEF AbortDone
  <2> DEFINE s == <<>>
             w == {}
  <2>4. s \in Seq(Forget) /\ w \in SUBSET Requests OBVIOUS
  <2>5. fc' = [fc EXCEPT !.forget_list = s, !.blocked_waitq = w] BY <2>1
  <2> HIDE DEF s, w
  <2>2. fc' \in Conn BY <1>0, <2>4, <2>5 DEF Conn
  <2>3. abort' \in AbortState /\ AbortHolds'
    BY <1>0, <1>7 DEF AbortDone, AbortState, AbortHolds
  <2> QED BY <1>7, <2>2, <2>3, AbortMove DEF AbortDone
<1>8. CASE AbortTail("end_pending", "pending") BY <1>8, AbortTailType
<1>9. CASE AbortTail("end_processing", "processing") BY <1>9, AbortTailType
<1> QED
  BY <1>1, <1>2, <1>3, <1>4, <1>5, <1>6, <1>7, <1>8, <1>9 DEF Abort, AbortStep

LEMMA TypeInit == Init => TypeInv
<1> SUFFICES ASSUME Init PROVE TypeInv
  OBVIOUS
<1>1. \A r \in Requests : NewReq(r) \in Req
  BY BoundAssumption DEF NewReq, Req, State, Error
<1> DEFINE q == [r \in Requests |-> NewReq(r)]
<1>2. q \in [Requests -> Req] BY <1>1
<1> HIDE DEF q
<1>3. fc \in Conn
  BY <1>2, BoundAssumption DEF Init, Conn, q
<1>4. thread \in [Thread -> ThreadState] /\ ThreadsHold
  BY IdleType DEF Init, ThreadsHold
<1>5. abort \in AbortState /\ AbortHolds BY DEF Init, AbortState, AbortHolds
<1> QED BY <1>3, <1>4, <1>5 DEF Init, TypeInv, TypeOK, TaskPc

LEMMA TypeStep ==
  ASSUME TypeInv, [Next]_vars
  PROVE  TypeInv'
<1>1. CASE UNCHANGED vars
  BY <1>1 DEF vars, TypeInv, TypeOK, ThreadsHold, AbortHolds
<1>2. CASE Abort BY <1>2, AbortType
<1>3. CASE Quiet BY <1>1, <1>3 DEF Quiet
<1>4. ASSUME NEW r \in Requests, Caller(r) PROVE TypeInv' BY <1>4, CallerType
<1>5. ASSUME NEW d \in Thread, Daemon(d) PROVE TypeInv'
  BY <1>5, InsideType, ReadTypes, WriteType, RetrieveType DEF Daemon
<1>6. ASSUME NEW f \in Forget, QueueForget(f) PROVE TypeInv'
  BY <1>6, QueueForgetType
<1> QED BY <1>1, <1>2, <1>3, <1>4, <1>5, <1>6 DEF Next

\* Every variable keeps its type: ids stay within 64 bits whatever the counter
\* started at, every list holds requests, and a thread or an abort that is busy
\* works on a request.
THEOREM TypeCorrect == Spec => []TypeOK
<1>1. Init => TypeInv BY TypeInit
<1>2. TypeInv /\ [Next]_vars => TypeInv' BY TypeStep
<1>3. TypeInv => TypeOK BY DEF TypeInv
<1> QED BY <1>1, <1>2, <1>3, PTL DEF Spec

-----------------------------------------------------------------------------
(***************************************************************************)
(* The limits on background requests.  They are inductive once it is known *)
(* that only an abort changes max_background.  Most operators leave what   *)
(* they speak of alone, but may take a request out of bg_queue: Frame.  o   *)
(* says that no abort has begun: it closes the connection for good.        *)
(***************************************************************************)
LimitsInv(c, o) ==
  WithinLimits(c) /\ (c.connected => o /\ c.max_background = MaxBackground)

Frame(c, d) ==
  /\ d.connected = c.connected /\ d.blocked = c.blocked /\ d.congested = c.congested
  /\ d.num_background = c.num_background
  /\ d.active_background = c.active_background
  /\ d.max_background = c.max_background
  /\ c.bg_queue = <<>> => d.bg_queue = <<>>

LEMMA FrameLimits ==
  ASSUME NEW o \in BOOLEAN, NEW c, NEW d, LimitsInv(c, o), Frame(c, d)
  PROVE  LimitsInv(d, o)
BY DEF LimitsInv, WithinLimits, Frame

LEMMA FrameTrans ==
  ASSUME NEW c, NEW d, NEW e, Frame(c, d), Frame(d, e)
  PROVE  Frame(c, e)
BY DEF Frame

\* Nothing can be removed from an empty sequence.
LEMMA DelEmpty == ASSUME NEW r PROVE Del(<<>>, r) = <<>>
BY DEF Del, Member

\* A connection updated in fields the limits do not speak of.
LEMMA FrameReq ==
  ASSUME NEW c \in Conn, NEW q
  PROVE  Frame(c, [c EXCEPT !.req = q])
BY DEF Frame, Conn

LEMMA FrameError ==
  ASSUME NEW c \in Conn, NEW r, NEW e
  PROVE  Frame(c, [c EXCEPT !.req[r].error = e])
BY DEF Frame, Conn

LEMMA FrameLocked ==
  ASSUME NEW c \in Conn, NEW r, NEW b
  PROVE  Frame(c, [c EXCEPT !.req[r].locked = b])
BY DEF Frame, Conn

LEMMA FrameListDel ==
  ASSUME NEW c \in Conn, NEW r
  PROVE  Frame(c, list_del(c, r))
BY DelEmpty DEF Frame, Conn, list_del

LEMMA FrameHelpers ==
  ASSUME NEW c \in Conn, NEW r
  PROVE  /\ Frame(c, wake_up(c, r)) /\ Frame(c, queue_interrupt(c, r))
         /\ Frame(c, queue_request(c, r)) /\ Frame(c, fuse_put_request(c, r))
BY DEF Frame, Conn, wake_up, queue_interrupt, queue_request, fuse_put_request

LEMMA FrameEndTail ==
  ASSUME NEW c \in Conn, NEW r \in Requests, NEW end \in BOOLEAN
  PROVE  Frame(c, EndTail(c, r, end))
<1> DEFINE d == wake_up(c, r)
           q == [d.req[r] EXCEPT !.ended = IF end THEN @ + 1 ELSE @]
           e == [d EXCEPT !.req[r] = q]
<1>1. d \in Conn BY WakeUpType
<1>2. EndTail(c, r, end) = fuse_put_request(e, r) BY DEF EndTail
<1>3. Frame(c, d) BY FrameHelpers
<1> HIDE DEF d
<1>4. d.req[r] \in Req BY <1>1, ConnFields
<1>5. q \in Req BY <1>4 DEF Req
<1> HIDE DEF q
<1>6. e \in Conn /\ Frame(d, e) BY <1>1, <1>5, ConnReq DEF Frame, Conn
<1> HIDE DEF e
<1>7. Frame(e, fuse_put_request(e, r)) BY <1>6, FrameHelpers
<1> QED BY <1>2, <1>3, <1>6, <1>7, FrameTrans

LEMMA FrameInterrupted ==
  ASSUME NEW c \in Conn, NEW r \in Requests
  PROVE  Frame(c, Interrupted(c, r))
<1> DEFINE q == [c.req EXCEPT ![r].interrupted = TRUE, ![r].asleep = TRUE]
           s == [c EXCEPT !.req[r].interrupted = TRUE, !.req[r].asleep = TRUE]
           t == queue_interrupt(s, r)
<1>1. Interrupted(c, r) = IF s.req[r].state = "SENT" THEN t ELSE s
  BY DEF Interrupted
<1>2. s = [c EXCEPT !.req = q] OBVIOUS
<1> HIDE DEF q, t
<1>3. Frame(c, s) BY <1>2, FrameReq
<1>4. "interrupts" \in DOMAIN s /\ DOMAIN s = DOMAIN c BY DEF Conn
<1> HIDE DEF s
<1>5. Frame(s, t) BY <1>4 DEF t, queue_interrupt, Frame, Conn
<1> QED BY <1>1, <1>3, <1>5, FrameTrans

\* The flush restores the limits, whatever made room before it.
LEMMA FlushLimits ==
  ASSUME NEW o \in BOOLEAN, NEW c \in Conn, c.active_background <= c.max_background,
         c.connected => /\ o /\ c.max_background = MaxBackground
                        /\ c.blocked <=> c.num_background >= MaxBackground
                        /\ c.congested <=> c.num_background >= CongestionThreshold
  PROVE  LimitsInv(flush_bg_queue(c), o)
<1> DEFINE n == Moved(c)
           d == flush_bg_queue(c)
           b == SubSeq(c.bg_queue, n + 1, Len(c.bg_queue))
<1>1. /\ c.active_background \in Int /\ c.max_background \in Int
      /\ Len(c.bg_queue) \in Nat /\ c.bg_queue \in Seq(Requests)
  BY ConnFields, BoundAssumption
<1>2. n \in 0 .. Len(c.bg_queue) BY MovedType
<1>3. /\ c.active_background + n <= c.max_background
      /\ n < Len(c.bg_queue) => c.active_background + n = c.max_background
  BY <1>1 DEF Moved, Smaller
<1>4. /\ d.connected = c.connected /\ d.blocked = c.blocked
      /\ d.congested = c.congested /\ d.num_background = c.num_background
      /\ d.max_background = c.max_background
      /\ d.active_background = c.active_background + n /\ d.bg_queue = b
  BY DEF flush_bg_queue, Moved, Conn
<1> HIDE DEF n, d
<1>5. n = Len(c.bg_queue) => b = <<>> BY <1>1, <1>2
<1>6. b # <<>> => n < Len(c.bg_queue) BY <1>1, <1>2, <1>5
<1> QED BY <1>3, <1>4, <1>6 DEF LimitsInv, WithinLimits, d

LEMMA SendBackgroundLimits ==
  ASSUME NEW o \in BOOLEAN, NEW c \in Conn, NEW r \in Requests,
         LimitsInv(c, o), c.connected
  PROVE  LimitsInv(fuse_request_send_nowait_locked(c, r), o)
<1> DEFINE n == c.num_background + 1
           q == [c.req[r] EXCEPT !.background = TRUE]
           bl == IF n = c.max_background THEN TRUE ELSE c.blocked
           cg == IF n = CongestionThreshold THEN TRUE ELSE c.congested
           b == Append(c.bg_queue, r)
           d == [c EXCEPT !.req[r] = q, !.num_background = n, !.blocked = bl,
                          !.congested = cg, !.bg_queue = b]
<1>1. c.req[r] \in Req /\ c.num_background \in Int BY ConnFields
<1>2. q \in Req BY <1>1 DEF Req
<1>3. n \in Int /\ b \in Seq(Requests) BY ConnFields
<1>4. bl \in BOOLEAN BY ConnFields, Zenon
<1>5. cg \in BOOLEAN BY ConnFields, Zenon
<1>6. fuse_request_send_nowait_locked(c, r) = flush_bg_queue(d)
  BY DEF fuse_request_send_nowait_locked
<1>7. /\ o /\ c.max_background = MaxBackground
      /\ c.blocked <=> c.num_background >= MaxBackground
      /\ c.congested <=> c.num_background >= CongestionThreshold
      /\ c.active_background <= c.max_background
  BY DEF LimitsInv, WithinLimits
<1>8. bl <=> n >= MaxBackground BY <1>1, <1>7, BoundAssumption
<1>9. cg <=> n >= CongestionThreshold BY <1>1, <1>7, BoundAssumption
<1> HIDE DEF n, q, bl, cg, b
<1>10. d \in Conn BY <1>2, <1>3, <1>4, <1>5 DEF Conn
<1>11. /\ d.num_background = n /\ d.blocked = bl /\ d.congested = cg
       /\ d.max_background = c.max_background
       /\ d.active_background = c.active_background
  BY DEF Conn
<1> HIDE DEF d
<1>12. LimitsInv(flush_bg_queue(d), o) BY <1>7, <1>8, <1>9, <1>10, <1>11, FlushLimits
<1> QED BY <1>6, <1>12

LEMMA FrameUnlisted ==
  ASSUME NEW c \in Conn, NEW r \in Requests
  PROVE  Frame(c, Unlisted(c, r))
<1> DEFINE d == list_del(c, r)
           i == Del(d.interrupts, r)
           q == [d.req[r] EXCEPT !.state = "FINISHED", !.end = FALSE]
           e == [d EXCEPT !.interrupts = i, !.req[r] = q]
<1>1. d \in Conn /\ Frame(c, d) BY ListDelType, FrameListDel
<1>2. Unlisted(c, r) = e BY DEF Unlisted
<1> HIDE DEF d, i, q
<1>3. Frame(d, e) BY <1>1 DEF Frame, Conn
<1> HIDE DEF e
<1> QED BY <1>1, <1>2, <1>3, FrameTrans

\* A background request that ends gives its place to the next one.
LEMMA RequestEndLimits ==
  ASSUME NEW o \in BOOLEAN, NEW c \in Conn, NEW r \in Requests, LimitsInv(c, o)
  PROVE  LimitsInv(request_end(c, r), o)
<1>1. CASE ~ c.req[r].background
  BY <1>1, RequestEndCases, FrameUnlisted, FrameLimits
<1>2. CASE c.req[r].background
  <2> DEFINE d == Unlisted(c, r)
             e == Discharged(c, r)
             full == c.num_background = c.max_background
             calm == c.num_background = CongestionThreshold /\ c.connected
             bl == IF full THEN FALSE ELSE d.blocked
             w == IF full THEN {} ELSE d.blocked_waitq
             cg == IF calm THEN FALSE ELSE d.congested
             n == d.num_background - 1
             k == d.active_background - 1
  <2>1. d \in Conn /\ Frame(c, d) BY UnlistedType, FrameUnlisted
  <2>2. LimitsInv(d, o) BY <2>1, FrameLimits
  <2>3. e = [d EXCEPT !.blocked = bl, !.blocked_waitq = w, !.congested = cg,
                      !.num_background = n, !.active_background = k]
    BY DEF Discharged
  <2>4. e \in Conn BY DischargedType
  <2>5. /\ d.num_background \in Int /\ d.active_background \in Int
        /\ d.max_background \in Int
    BY <2>1, ConnFields, BoundAssumption
  <2>6. /\ d.num_background = c.num_background /\ d.connected = c.connected
        /\ d.max_background = c.max_background
    BY <2>1 DEF Frame
  <2> HIDE DEF d, e
  <2>7. k <= d.max_background BY <2>2, <2>5 DEF LimitsInv, WithinLimits
  <2>8. ASSUME d.connected
        PROVE  /\ o /\ d.max_background = MaxBackground
               /\ bl <=> n >= MaxBackground
               /\ cg <=> n >= CongestionThreshold
    BY <2>2, <2>5, <2>6, <2>8, BoundAssumption DEF LimitsInv, WithinLimits
  <2> HIDE DEF bl, w, cg, n, k
  <2>9. /\ e.connected = d.connected /\ e.max_background = d.max_background
        /\ e.blocked = bl /\ e.congested = cg /\ e.num_background = n
        /\ e.active_background = k
    BY <2>1, <2>3 DEF Conn
  <2>10. LimitsInv(flush_bg_queue(e), o)
    BY <2>4, <2>7, <2>8, <2>9, FlushLimits
  <2> QED BY <1>2, <2>10, RequestEndCases DEF e
<1> QED BY <1>1, <1>2

\* Ending a request whose error or lock has just been set.
LEMMA EndAfterFrame ==
  ASSUME NEW o \in BOOLEAN, NEW c \in Conn, NEW d \in Conn, NEW r \in Requests,
         LimitsInv(c, o), Frame(c, d)
  PROVE  LimitsInv(request_end(d, r), o)
BY FrameLimits, RequestEndLimits

\* What the steps of a caller do to the limits.
LEMMA CallerLimits ==
  ASSUME NEW o \in BOOLEAN, TypeInv, LimitsInv(fc, o), NEW r \in Requests, Caller(r)
  PROVE  LimitsInv(fc', o)
<1>0. fc \in Conn /\ fc.req[r] \in Req BY ConnFields DEF TypeInv, TypeOK
<1> DEFINE Framed == Frame(fc, fc')
<1>1. Framed => LimitsInv(fc', o) BY FrameLimits
<1>2. CASE GetReq(r)
  BY <1>0, <1>1, <1>2 DEF GetReq, StartGet, Frame, Conn
<1>3. CASE GetReqSleep(r) BY <1>0, <1>1, <1>3 DEF GetReqSleep, Frame, Conn
<1>4. CASE GetReqKilled(r) \/ GetReqRefused(r)
  BY <1>0, <1>1, <1>4 DEF GetReqKilled, GetReqRefused, GetReqFail, Frame, Conn
<1>5. CASE GetReqDone(r) \/ RequestAlloc(r)
  <2>1. \E b \in BOOLEAN : fuse_request_alloc(r, b)
    BY <1>5 DEF GetReqDone, RequestAlloc
  <2> QED BY <1>0, <1>1, <2>1 DEF fuse_request_alloc, Frame, Conn
<1>6. CASE RequestSend(r)
  <2> DEFINE u == fuse_get_unique(fc.reqctr, 1)
             p == [fc.req[r] EXCEPT !.unique = u]
             c == [fc EXCEPT !.reqctr = u, !.req[r].unique = u]
             d == queue_request(c, r)
             q == [d.req EXCEPT ![r].count = @ + 1, ![r].asleep = TRUE]
  <2>a. fc' = [queue_request(c, r) EXCEPT !.req[r].count = @ + 1,
                                           !.req[r].asleep = TRUE]
    BY <1>6 DEF RequestSend
  <2> HIDE DEF c
  <2>b. fc' = [d EXCEPT !.req[r].count = @ + 1, !.req[r].asleep = TRUE] BY <2>a
  <2> HIDE DEF d
  <2>1. fc' = [d EXCEPT !.req = q] BY <2>b
  <2>c. fc.reqctr \in 0 .. UniqueMax BY <1>0, ConnFields
  <2>d. u \in 1 .. UniqueMax BY <2>c, UniqueType
  <2>2. u \in 0 .. UniqueMax BY <2>d, BoundAssumption
  <2> HIDE DEF u
  <2>3. p \in Req BY <1>0, <2>2 DEF Req
  <2>4. c = [fc EXCEPT !.reqctr = u, !.req[r] = p] BY DEF c
  <2> HIDE DEF p
  <2>5. c \in Conn BY <1>0, <2>2, <2>3, <2>4 DEF Conn
  <2>6. Frame(fc, c) BY <1>0 DEF Frame, Conn, c
  <2>7. d \in Conn /\ Frame(c, d) BY <2>5, QueueRequestType, FrameHelpers DEF d
  <2> HIDE DEF q
  <2>8. Frame(d, fc') BY <2>1, <2>7, FrameReq
  <2> QED BY <1>1, <2>6, <2>7, <2>8, FrameTrans
<1>7. CASE RequestSendRefused(r)
  BY <1>0, <1>1, <1>7 DEF RequestSendRefused, Frame, Conn
<1>8. CASE WakeIntr(r)
  <2>1. CASE Ended(r) BY <1>0, <1>1, <1>8, <2>1 DEF WakeIntr, LeaveWait, Frame, Conn
  <2>2. CASE ~ Ended(r)
    BY <1>0, <1>1, <1>8, <2>2, FrameInterrupted DEF WakeIntr
  <2> QED BY <2>1, <2>2
<1>9. CASE WakeKill(r)
  <2>1. CASE Ended(r) BY <1>0, <1>1, <1>9, <2>1 DEF WakeKill, LeaveWait, Frame, Conn
  <2>2. CASE ~ Ended(r) /\ fc.req[r].state # "PENDING"
    BY <1>0, <1>1, <1>9, <2>2 DEF WakeKill, WaitOut, Frame, Conn
  <2>3. CASE ~ Ended(r) /\ fc.req[r].state = "PENDING"
    <3> DEFINE d == list_del(fc, r)
               q == [d.req EXCEPT ![r].count = @ - 1, ![r].asleep = FALSE,
                                  ![r].error = "EINTR"]
    <3>1. fc' = [d EXCEPT !.req = q] BY <1>9, <2>3 DEF WakeKill, BailOut
    <3>2. d \in Conn /\ Frame(fc, d) BY <1>0, ListDelType, FrameListDel
    <3> HIDE DEF d, q
    <3>3. Frame(d, fc') BY <3>1, <3>2, FrameReq
    <3> QED BY <1>1, <3>2, <3>3, FrameTrans
  <2> QED BY <2>1, <2>2, <2>3
<1>10. CASE WakeForced(r) BY <1>0, <1>1, <1>10 DEF WakeForced, LeaveWait, Frame, Conn
<1>11. CASE WakeUnlock(r) BY <1>11 DEF WakeUnlock
<1>12. CASE PutRequest(r) BY <1>0, <1>1, <1>12, FrameHelpers DEF PutRequest
<1>13. CASE SendBackground(r)
  BY <1>0, <1>13, SendBackgroundLimits DEF SendBackground
<1>14. CASE SendBackgroundRefused(r)
  <2> DEFINE c == [fc EXCEPT !.req[r].error = "ENOTCONN"]
  <2>1. c \in Conn /\ Frame(fc, c) BY <1>0, Errors, ErrorUpdate, FrameError
  <2>2. fc' = request_end(c, r) BY <1>14 DEF SendBackgroundRefused
  <2> HIDE DEF c
  <2> QED BY <1>0, <2>1, <2>2, EndAfterFrame
<1>15. CASE SendBackgroundEnd(r)
  BY <1>0, <1>1, <1>15, FrameEndTail DEF SendBackgroundEnd
<1>16. CASE SendNotifyReply(r)
  <2>1. CASE fc.connected
    BY <1>0, <1>1, <1>16, <2>1, FrameHelpers DEF SendNotifyReply
  <2>2. CASE ~ fc.connected
    BY <1>0, <1>1, <1>16, <2>2 DEF SendNotifyReply, Frame, Conn
  <2> QED BY <2>1, <2>2
<1>17. CASE Signal(r) BY <1>17 DEF Signal
<1>18. CASE GetReqNoMemory(r) BY <1>18 DEF GetReqNoMemory
<1>19. CASE get_reserved_req(r)
  BY <1>0, <1>1, <1>19 DEF get_reserved_req, Frame, Conn
<1>20. CASE put_reserved_req(r)
  BY <1>0, <1>1, <1>20 DEF put_reserved_req, Frame, Conn
<1> QED
  BY <1>2, <1>3, <1>4, <1>5, <1>6, <1>7, <1>8, <1>9, <1>10, <1>11, <1>12, <1>13,
     <1>14, <1>15, <1>16, <1>17, <1>18, <1>19, <1>20 DEF Caller

\* What the steps of a daemon thread do to the limits.
LEMMA TakeRequestLimits ==
  ASSUME TypeInv, fc.pending # <<>>
  PROVE  Frame(fc, TakeRequest)
<1> DEFINE d == list_del(fc, Head(fc.pending))
<1>1. fc \in Conn /\ fc.pending \in Seq(Requests) BY ConnFields DEF TypeInv, TypeOK
<1>2. Head(fc.pending) \in Requests BY <1>1
<1>3. d \in Conn /\ Frame(fc, d) BY <1>1, <1>2, ListDelType, FrameListDel
<1>4. TakeRequest = [d EXCEPT !.io = @ \cup {Head(fc.pending)},
                              !.req[Head(fc.pending)].state = "READING",
                              !.forget_batch = NextBatch]
  BY DEF TakeRequest
<1> HIDE DEF d
<1>5. Frame(d, TakeRequest) BY <1>3, <1>4 DEF Frame, Conn
<1> QED BY <1>3, <1>5, FrameTrans

LEMMA DeliveredLimits ==
  ASSUME NEW c \in Conn, NEW r \in Requests
  PROVE  Frame(c, Delivered(c, r))
<1> DEFINE d == list_del(c, r)
           s == [d EXCEPT !.processing = @ \cup {r}, !.req[r].state = "SENT"]
<1>0. "SENT" \in State /\ 0 \in Int BY DEF State
<1>1. s \in Conn BY <1>0, ListedType
<1>2. Delivered(c, r) = IF s.req[r].interrupted THEN queue_interrupt(s, r) ELSE s
  BY DEF Delivered
<1>3. d \in Conn /\ Frame(c, d) BY ListDelType, FrameListDel
<1> HIDE DEF d
<1>4. Frame(d, s) BY <1>3 DEF Frame, Conn
<1> HIDE DEF s
<1>5. Frame(s, queue_interrupt(s, r)) BY <1>1, FrameHelpers
<1> QED BY <1>2, <1>3, <1>4, <1>5, FrameTrans

LEMMA FrameReplied ==
  ASSUME NEW c \in Conn, NEW r \in Requests
  PROVE  Frame(c, Replied(c, r))
<1> DEFINE d == list_del(c, r)
<1>1. d \in Conn /\ Frame(c, d) BY ListDelType, FrameListDel
<1>2. Replied(c, r) = [d EXCEPT !.io = @ \cup {r}, !.req[r].state = "WRITING",
                                !.req[r].error = "REPLY", !.req[r].locked = TRUE]
  BY DEF Replied
<1> HIDE DEF d
<1>3. Frame(d, Replied(c, r)) BY <1>1, <1>2 DEF Frame, Conn
<1> QED BY <1>1, <1>3, FrameTrans

LEMMA InsideLimits ==
  ASSUME NEW o \in BOOLEAN, TypeInv, LimitsInv(fc, o), NEW d \in Thread, Inside(d)
  PROVE  LimitsInv(fc', o)
<1>0. fc \in Conn BY DEF TypeInv, TypeOK
<1>1. Frame(fc, fc') => LimitsInv(fc', o) BY FrameLimits
<1>2. CASE lock_request(d)
  BY <1>0, <1>1, <1>2 DEF lock_request, Frame, Conn
<1>3. CASE unlock_request(d)
  BY <1>0, <1>1, <1>3 DEF unlock_request, wake_up, Frame, Conn
<1>4. CASE CopyFail(d) \/ WrongLength(d) BY <1>4 DEF CopyFail, WrongLength
<1>5. CASE ReadFinish(d) \/ WriteFinish(d)
  <2> DEFINE r == thread[d].req
             c == [fc EXCEPT !.req[r].locked = FALSE]
             e == [c EXCEPT !.req[r].error = "EIO"]
  <2>1. r \in Requests
    BY <1>5, ThreadRequest DEF ReadFinish, WriteFinish, CopyOver
  <2>2. \/ EndBy(d, c, r) \/ EndBy(d, e, r) \/ fc' = Delivered(c, r)
    BY <1>5 DEF ReadFinish, WriteFinish
  <2> HIDE DEF r
  <2>3. c \in Conn /\ Frame(fc, c) BY <1>0, <2>1, LockedUpdate, FrameLocked
  <2> HIDE DEF c
  <2>4. e \in Conn /\ Frame(c, e) BY <2>1, <2>3, Errors, ErrorUpdate, FrameError
  <2> HIDE DEF e
  <2>5. Frame(fc, e) BY <2>3, <2>4, FrameTrans
  <2>6. LimitsInv(request_end(c, r), o) /\ LimitsInv(request_end(e, r), o)
    BY <1>0, <2>1, <2>3, <2>4, <2>5, EndAfterFrame
  <2>7. Frame(fc, Delivered(c, r)) BY <2>1, <2>3, DeliveredLimits, FrameTrans
  <2> QED BY <1>1, <2>2, <2>6, <2>7 DEF EndBy
<1>6. CASE ThreadEnd(d)
  <2>1. thread[d].pc # "idle" BY <1>6 DEF ThreadEnd
  <2>2. thread[d].req \in Requests /\ thread[d].end \in BOOLEAN
    BY <2>1, ThreadRequest
  <2> QED BY <1>0, <1>1, <1>6, <2>2, FrameEndTail DEF ThreadEnd
<1> QED BY <1>2, <1>3, <1>4, <1>5, <1>6 DEF Inside

LEMMA DaemonLimits ==
  ASSUME NEW o \in BOOLEAN, TypeInv, LimitsInv(fc, o), NEW d \in Thread, Daemon(d)
  PROVE  LimitsInv(fc', o)
<1>0. fc \in Conn BY DEF TypeInv, TypeOK
<1>1. Frame(fc, fc') => LimitsInv(fc', o) BY FrameLimits
<1>2. CASE Inside(d) BY <1>2, InsideLimits
<1>3. CASE ReadInterrupt(d)
  BY <1>0, <1>1, <1>3 DEF ReadInterrupt, Frame, Conn
<1>4. CASE ReadForget(d)
  BY <1>0, <1>1, <1>4 DEF ReadForget, fuse_read_forget, dequeue_forget, Frame, Conn
<1>5. CASE ReadRequest(d)
  BY <1>1, <1>5, TakeRequestLimits DEF ReadRequest, ReadyToRead
<1>6. CASE ReadTooLarge(d)
  <2> DEFINE r == Head(fc.pending)
             t == TakeRequest
             c == [t EXCEPT !.req[r].error = "EIO"]
  <2>1. t \in Conn /\ r \in Requests /\ Frame(fc, t)
    BY <1>6, TakeRequestType, TakeRequestLimits DEF ReadTooLarge, ReadyToRead
  <2>2. fc' = request_end(c, r) BY <1>6 DEF ReadTooLarge, EndBy
  <2> HIDE DEF r, t
  <2>3. c \in Conn /\ Frame(t, c) BY <2>1, Errors, ErrorUpdate, FrameError
  <2> HIDE DEF c
  <2>4. Frame(fc, c) BY <2>1, <2>3, FrameTrans
  <2> QED BY <1>0, <2>1, <2>2, <2>3, <2>4, EndAfterFrame
<1>7. ASSUME NEW m \in inbox, Write(d, m) PROVE LimitsInv(fc', o)
  <2>1. CASE WriteNoEntry(d, m) BY <2>1 DEF WriteNoEntry
  <2>2. CASE WriteInterruptReply(d, m)
    BY <1>0, <1>1, <2>2 DEF WriteInterruptReply, queue_interrupt, Frame, Conn
  <2>3. CASE WriteReply(d, m)
    <3>1. PICK r \in Requests : fc' = Replied(fc, r) BY <2>3 DEF WriteReply
    <3> QED BY <1>0, <1>1, <3>1, FrameReplied
  <2> QED BY <1>7, <2>1, <2>2, <2>3 DEF Write
<1>8. ASSUME NEW r \in NotifyReply, Retrieve(d, r) PROVE LimitsInv(fc', o)
  BY <1>0, <1>1, <1>8 DEF Retrieve, StartGet, Frame, Conn
<1> QED BY <1>2, <1>3, <1>4, <1>5, <1>6, <1>7, <1>8 DEF Daemon, Read

LEMMA AbortedLimits ==
  ASSUME TypeInv, NEW r \in Requests
  PROVE  Frame(fc, Aborted(r)) /\ Frame(fc, AbortedHeld(r))
<1> DEFINE c == list_del(fc, r)
           a == Aborted(r)
<1>1. c \in Conn /\ Frame(fc, c)
  BY ListDelType, FrameListDel DEF TypeInv, TypeOK
<1>2. a = [c EXCEPT !.req[r].aborted = TRUE, !.req[r].error = "ECONNABORTED",
                    !.req[r].state = "FINISHED", !.req[r].asleep = FALSE]
  BY DEF Aborted
<1>3. a \in Conn BY AbortedType
<1>4. AbortedHeld(r) = [a EXCEPT !.req[r].end = FALSE, !.req[r].count = @ + 1,
                                 !.req[r].asleep = fc.req[r].locked]
  BY DEF AbortedHeld
<1> HIDE DEF c, a
<1>5. Frame(c, a) BY <1>1, <1>2 DEF Frame, Conn
<1>6. Frame(a, AbortedHeld(r)) BY <1>3, <1>4 DEF Frame, Conn
<1> QED BY <1>1, <1>5, <1>6, FrameTrans DEF a

LEMMA AbortLimits ==
  ASSUME TypeInv, LimitsInv(fc, FALSE), AbortStep
  PROVE  LimitsInv(fc', FALSE)
<1> DEFINE o == FALSE
<1>o. o \in BOOLEAN OBVIOUS
<1>0. fc \in Conn BY DEF TypeInv, TypeOK
<1>1. Frame(fc, fc') => LimitsInv(fc', o) BY FrameLimits
<1>3. ASSUME NEW r \in Requests, AbortIo(r) PROVE LimitsInv(fc', o)
  BY <1>1, <1>3, AbortedLimits DEF AbortIo
<1>4. CASE AbortIoEnd
  <2> DEFINE r == abort.req
             q == [fc.req[r] EXCEPT !.ended = @ + 1]
             c == [fc EXCEPT !.req[r] = q]
  <2>1. r \in Requests BY <1>4 DEF TypeInv, AbortHolds, AbortIoEnd
  <2>2. fc' = fuse_put_request(c, r) BY <1>4 DEF AbortIoEnd
  <2> HIDE DEF r
  <2>3. fc.req[r] \in Req BY <1>0, <2>1, ConnFields
  <2>4. q \in Req BY <2>3 DEF Req
  <2> HIDE DEF q
  <2>5. c \in Conn /\ Frame(fc, c) BY <1>0, <2>1, <2>4, ConnReq DEF Frame, Conn
  <2> HIDE DEF c
  <2>6. Frame(c, fuse_put_request(c, r)) BY <2>5, FrameHelpers
  <2> QED BY <1>1, <2>2, <2>5, <2>6, FrameTrans
<1>5. CASE AbortQueued
  \* The connection is gone: max_background may be lifted.
  <2> DEFINE c == [fc EXCEPT !.max_background = UintMax]
  <2>1. fc' = flush_bg_queue(c) BY <1>5 DEF AbortQueued
  <2>2. c \in Conn /\ c.active_background = fc.active_background
        /\ c.max_background = UintMax /\ c.connected = fc.connected
    BY <1>0 DEF Conn
  <2>3. fc.active_background <= UintMax
    BY <1>0, ConnFields, BoundAssumption DEF LimitsInv, WithinLimits
  <2>4. ~ fc.connected BY DEF LimitsInv
  <2> HIDE DEF c
  <2> QED BY <2>1, <2>2, <2>3, <2>4, FlushLimits
<1>6. ASSUME NEW r \in Requests, NEW next, AbortEnd(r, next) PROVE LimitsInv(fc', o)
  <2> DEFINE c == [fc EXCEPT !.req[r].error = "ECONNABORTED"]
  <2>1. c \in Conn /\ Frame(fc, c) BY <1>0, <1>6, Errors, ErrorUpdate, FrameError
  <2>2. fc' = request_end(c, r) BY <1>6 DEF AbortEnd
  <2> HIDE DEF c
  <2> QED BY <1>0, <1>6, <2>1, <2>2, EndAfterFrame
<1>7. CASE AbortPending
  <2>1. Head(fc.pending) \in Requests BY <1>0, <1>7, ConnFields DEF AbortPending
  <2> QED BY <1>6, <1>7, <2>1 DEF AbortPending
<1>8. CASE AbortProcessing
  <2>1. PICK r \in fc.processing : AbortEnd(r, "end_processing")
    BY <1>8 DEF AbortProcessing
  <2>2. r \in Requests BY <1>0, ConnFields
  <2> QED BY <1>6, <2>1, <2>2
<1>9. CASE AbortDone BY <1>0, <1>1, <1>9 DEF AbortDone, Frame, Conn
<1>10. ASSUME NEW pc \in {"end_pending", "end_processing"}, NEW next, AbortTail(pc, next)
       PROVE LimitsInv(fc', o)
  <2>1. abort.req \in Requests /\ abort \in AbortState
    BY <1>10 DEF TypeInv, TypeOK, AbortHolds, AbortTail
  <2>2. abort.end \in BOOLEAN BY <2>1 DEF AbortState
  <2> QED BY <1>0, <1>1, <1>10, <2>1, <2>2, FrameEndTail DEF AbortTail
<1> QED
  BY <1>3, <1>4, <1>5, <1>7, <1>8, <1>9, <1>10 DEF AbortStep

\* An abort that has begun does not go back to its start.
LEMMA AbortGoesOn ==
  ASSUME TypeInv, AbortStep
  PROVE  abort.pc # "no" /\ abort'.pc # "no"
<1>0. abort \in AbortState BY DEF TypeInv, TypeOK
<1>1. CASE AbortIoEnd \/ AbortQueued \/ AbortDone
  BY <1>0, <1>1 DEF AbortIoEnd, AbortQueued, AbortDone, AbortState
<1>2. ASSUME NEW r, NEW next \in {"end_pending", "end_processing"}, AbortEnd(r, next)
      PROVE  abort'.pc # "no"
  <2>1. abort' = [pc |-> next, req |-> r, end |-> fc.req[r].end, lock |-> FALSE]
    BY <1>2 DEF AbortEnd
  <2> QED BY <2>1
<1>5. CASE AbortPending
  BY <1>2, <1>5 DEF AbortPending
<1>6. CASE AbortProcessing
  BY <1>2, <1>6 DEF AbortProcessing
<1>3. ASSUME NEW r \in Requests, AbortIo(r)
      PROVE  abort.pc # "no" /\ abort'.pc # "no"
  <2>1. abort.pc = "io" BY <1>3 DEF AbortIo
  <2>2. \/ abort' = [pc |-> "io_end", req |-> r, end |-> TRUE, lock |-> FALSE]
        \/ abort' = [abort EXCEPT !.lock = TRUE]
    BY <1>3 DEF AbortIo
  <2> QED BY <1>0, <2>1, <2>2 DEF AbortState
<1>4. CASE \/ AbortTail("end_pending", "pending")
           \/ AbortTail("end_processing", "processing")
  BY <1>0, <1>4 DEF AbortTail, AbortState
<1> QED BY <1>1, <1>3, <1>4, <1>5, <1>6 DEF AbortStep

LimitsHold == LimitsInv(fc, abort.pc = "no")

LEMMA LimitsInit == Init => LimitsHold
BY BoundAssumption DEF Init, LimitsHold, LimitsInv, WithinLimits

LEMMA LimitsStep ==
  ASSUME TypeInv, LimitsHold, [Next]_vars
  PROVE  LimitsHold'
<1> DEFINE o == abort.pc = "no"
<1>0. fc \in Conn /\ LimitsInv(fc, o) /\ o \in BOOLEAN
  BY DEF TypeInv, TypeOK, LimitsHold
<1>1. ASSUME LimitsInv(fc', o), abort' = abort PROVE LimitsHold'
  BY <1>1 DEF LimitsHold
<1>2. CASE UNCHANGED vars BY <1>2 DEF vars, LimitsHold
<1>3. CASE AbortStart
  BY <1>0, <1>3 DEF AbortStart, LimitsHold, LimitsInv, WithinLimits, Conn
<1>4. CASE AbortStep
  <2>1. abort.pc # "no" /\ abort'.pc # "no" BY <1>4, AbortGoesOn
  <2>2. LimitsInv(fc, FALSE) BY <2>1 DEF LimitsHold
  <2>3. LimitsInv(fc', FALSE) BY <1>4, <2>2, AbortLimits
  <2> QED BY <2>1, <2>3 DEF LimitsHold
<1>5. CASE Quiet BY <1>2, <1>5 DEF Quiet
<1> HIDE DEF o
<1>6. ASSUME NEW r \in Requests, Caller(r) PROVE LimitsHold'
  <2>1. LimitsInv(fc', o) BY <1>0, <1>6, CallerLimits
  <2>2. abort' = abort
    BY <1>6 DEF Caller, GetReq, StartGet, GetReqSleep, GetReqKilled, GetReqRefused,
         GetReqFail, GetReqDone, RequestAlloc, RequestSend, RequestSendRefused,
         WakeIntr, WakeKill, WakeForced, WakeUnlock, PutRequest, SendBackground,
         SendBackgroundRefused, SendBackgroundEnd, SendNotifyReply, Signal,
         GetReqNoMemory, get_reserved_req, put_reserved_req
  <2> QED BY <1>1, <2>1, <2>2
<1>7. ASSUME NEW d \in Thread, Daemon(d) PROVE LimitsHold'
  <2>1. LimitsInv(fc', o) BY <1>0, <1>7, DaemonLimits
  <2>2. abort' = abort
    BY <1>7 DEF Daemon, Inside, lock_request, unlock_request, CopyFail, WrongLength,
         ReadFinish, WriteFinish, ThreadEnd, Read, ReadInterrupt, ReadForget,
         ReadRequest, ReadTooLarge, ReadyToRead, Write, WriteNoEntry,
         WriteInterruptReply, WriteReply, Found, Writer, Retrieve, StartGet
  <2> QED BY <1>1, <2>1, <2>2
<1>8. ASSUME NEW f \in Forget, QueueForget(f) PROVE LimitsHold'
  <2>1. Frame(fc, fc') /\ abort' = abort
    BY <1>0, <1>8 DEF QueueForget, Frame, Conn
  <2> QED BY <1>0, <1>1, <2>1, FrameLimits
<1> QED
  BY <1>2, <1>3, <1>4, <1>5, <1>6, <1>7, <1>8 DEF Next, Abort

\* Whatever order requests are sent, ended, withdrawn and aborted in, no more
\* than max_background are active, none waits while there is room, and callers
\* are held back exactly while the limit is reached.
THEOREM LimitsKept == Spec => []BackgroundLimits
<1>1. Init => TypeInv /\ LimitsHold BY TypeInit, LimitsInit
<1>2. TypeInv /\ LimitsHold /\ [Next]_vars => TypeInv' /\ LimitsHold'
  BY TypeStep, LimitsStep
<1>3. LimitsHold => BackgroundLimits BY DEF LimitsHold, LimitsInv, BackgroundLimits
<1> QED BY <1>1, <1>2, <1>3, PTL DEF Spec

-----------------------------------------------------------------------------
(***************************************************************************)
(* What the operators of FuseDev that are named after C functions do to    *)
(* the lists of a connection: which requests they move, and that they      *)
(* leave every other request where it is.                                  *)
(***************************************************************************)
(***************************************************************************)
(* Sequences without duplicates.                                           *)
(***************************************************************************)
\* What is left when one element is taken out.
LEMMA DelElements ==
  ASSUME NEW S, NEW s \in Seq(S), NEW r, Member(s, r)
  PROVE  \E i \in DOMAIN s :
           /\ s[i] = r
           /\ Del(s, r) \in Seq(S) /\ Len(Del(s, r)) = Len(s) - 1
           /\ \A j \in 1 .. Len(s) - 1 :
                Del(s, r)[j] = IF j < i THEN s[j] ELSE s[j + 1]
<1> DEFINE i == CHOOSE i \in DOMAIN s : s[i] = r
           a == SubSeq(s, 1, i - 1)
           b == SubSeq(s, i + 1, Len(s))
<1>1. i \in DOMAIN s /\ s[i] = r BY DEF Member
<1>2. Del(s, r) = a \o b BY DEF Del, RemoveAt
<1> HIDE DEF i
<1>3. i \in 1 .. Len(s) /\ Len(s) \in Nat BY <1>1
<1>4. a \in Seq(S) /\ Len(a) = i - 1 /\ \A j \in 1 .. i - 1 : a[j] = s[j]
  BY <1>3, SubSeqProperties
<1>5. b \in Seq(S) /\ Len(b) = Len(s) - i /\ \A j \in 1 .. Len(s) - i : b[j] = s[j + i]
  BY <1>3, SubSeqProperties
<1> HIDE DEF a, b
<1>6. a \o b \in Seq(S) /\ Len(a \o b) = Len(s) - 1
  <2>1. a \in Seq(S) /\ b \in Seq(S) BY <1>4, <1>5
  <2>2. a \o b \in Seq(S) /\ Len(a \o b) = Len(a) + Len(b) BY <2>1, ConcatProperties
  <2> QED BY <2>2, <1>3, <1>4, <1>5
<1>7. ASSUME NEW j \in 1 .. Len(s) - 1
      PROVE  (a \o b)[j] = IF j < i THEN s[j] ELSE s[j + 1]
  <2>1. (a \o b)[j] = IF j <= Len(a) THEN a[j] ELSE b[j - Len(a)]
    BY <1>3, <1>4, <1>5, ConcatProperties
  <2>2. CASE j < i BY <2>1, <2>2, <1>3, <1>4
  <2>3. CASE ~ (j < i)
    <3>1. j - (i - 1) \in 1 .. Len(s) - i BY <2>3, <1>3
    <3>2. b[j - (i - 1)] = s[j + 1] BY <3>1, <1>3, <1>5
    <3> QED BY <2>1, <2>3, <3>2, <1>3, <1>4
  <2> QED BY <2>2, <2>3
<1> QED BY <1>1, <1>2, <1>6, <1>7

\* Taking r out leaves the others in.
LEMMA DelOthers ==
  ASSUME NEW S, NEW s \in Seq(S), NEW r, NEW x, x # r
  PROVE  Member(Del(s, r), x) <=> Member(s, x)
<1>1. CASE ~ Member(s, r) BY <1>1 DEF Del
<1>2. CASE Member(s, r)
  <2>1. PICK i \in DOMAIN s :
           /\ s[i] = r
           /\ Del(s, r) \in Seq(S) /\ Len(Del(s, r)) = Len(s) - 1
           /\ \A j \in 1 .. Len(s) - 1 :
                Del(s, r)[j] = IF j < i THEN s[j] ELSE s[j + 1]
    BY <1>2, DelElements
  <2> DEFINE t == Del(s, r)
  <2>2. Len(s) \in Nat /\ i \in 1 .. Len(s) /\ DOMAIN t = 1 .. Len(s) - 1
        /\ DOMAIN s = 1 .. Len(s)
    BY <2>1
  <2>3. \A j \in 1 .. Len(s) - 1 : t[j] = IF j < i THEN s[j] ELSE s[j + 1]
    BY <2>1
  <2> HIDE DEF t
  <2>4. ASSUME Member(t, x) PROVE Member(s, x)
    <3>1. PICK j \in 1 .. Len(s) - 1 : t[j] = x BY <2>4, <2>2 DEF Member
    <3>2. j \in DOMAIN s /\ j + 1 \in DOMAIN s BY <2>2
    <3> QED BY <3>1, <3>2, <2>3 DEF Member
  <2>5. ASSUME Member(s, x) PROVE Member(t, x)
    <3>1. PICK j \in 1 .. Len(s) : s[j] = x BY <2>5, <2>2 DEF Member
    <3>2. CASE j < i
      <4>1. j \in 1 .. Len(s) - 1 BY <3>2, <2>2
      <4>2. t[j] = x BY <4>1, <3>1, <3>2, <2>3
      <4> QED BY <4>1, <4>2, <2>2 DEF Member
    <3>3. CASE i < j
      <4>1. j - 1 \in 1 .. Len(s) - 1 /\ ~ (j - 1 < i) /\ (j - 1) + 1 = j BY <3>3, <2>2
      <4>2. t[j - 1] = x BY <4>1, <3>1, <2>3
      <4> QED BY <4>1, <4>2, <2>2 DEF Member
    <3>4. j # i BY <3>1, <2>1
    <3> QED BY <3>2, <3>3, <3>4, <2>2
  <2> QED BY <2>4, <2>5 DEF t
<1> QED BY <1>1, <1>2

\* From a list without duplicates r is gone for good.
LEMMA DelGone ==
  ASSUME NEW S, NEW s \in Seq(S), NEW r, NoDuplicate(s)
  PROVE  ~ Member(Del(s, r), r) /\ NoDuplicate(Del(s, r))
<1>1. CASE ~ Member(s, r) BY <1>1 DEF Del
<1>2. CASE Member(s, r)
  <2>1. PICK i \in DOMAIN s :
           /\ s[i] = r
           /\ Del(s, r) \in Seq(S) /\ Len(Del(s, r)) = Len(s) - 1
           /\ \A j \in 1 .. Len(s) - 1 :
                Del(s, r)[j] = IF j < i THEN s[j] ELSE s[j + 1]
    BY <1>2, DelElements
  <2> DEFINE t == Del(s, r)
             Old(j) == IF j < i THEN j ELSE j + 1
  <2>2. Len(s) \in Nat /\ i \in 1 .. Len(s) /\ DOMAIN t = 1 .. Len(s) - 1
        /\ DOMAIN s = 1 .. Len(s)
    BY <2>1
  <2>3. \A j \in 1 .. Len(s) - 1 : t[j] = s[Old(j)] /\ Old(j) \in DOMAIN s /\ Old(j) # i
    BY <2>1, <2>2
  <2>4. \A j, k \in 1 .. Len(s) - 1 : Old(j) = Old(k) => j = k BY <2>2
  <2> HIDE DEF t, Old
  <2>5. \A j \in 1 .. Len(s) - 1 : t[j] # r
    BY <2>1, <2>3, <2>2 DEF NoDuplicate
  <2>6. \A j, k \in 1 .. Len(s) - 1 : t[j] = t[k] => j = k
    BY <2>3, <2>4 DEF NoDuplicate
  <2>7. ~ Member(t, r) BY <2>5, <2>2 DEF Member
  <2>8. NoDuplicate(t) BY <2>6, <2>2 DEF NoDuplicate
  <2> QED BY <2>7, <2>8 DEF t
<1> QED BY <1>1, <1>2

\* An element added at the end.
LEMMA AppendMember ==
  ASSUME NEW S, NEW s \in Seq(S), NEW r \in S
  PROVE  /\ \A x : Member(Append(s, r), x) <=> Member(s, x) \/ x = r
         /\ NoDuplicate(s) /\ ~ Member(s, r) => NoDuplicate(Append(s, r))
<1> DEFINE t == Append(s, r)
<1>1. Len(s) \in Nat /\ DOMAIN s = 1 .. Len(s) OBVIOUS
<1>2. t \in Seq(S) /\ Len(t) = Len(s) + 1 /\ t[Len(s) + 1] = r
      /\ \A i \in 1 .. Len(s) : t[i] = s[i]
  BY AppendProperties
<1>3. DOMAIN t = 1 .. Len(s) + 1 BY <1>1, <1>2
<1> HIDE DEF t
<1>4. ASSUME NEW x PROVE Member(t, x) <=> Member(s, x) \/ x = r
  <2>1. ASSUME Member(t, x) PROVE Member(s, x) \/ x = r
    <3>1. PICK i \in 1 .. Len(s) + 1 : t[i] = x BY <2>1, <1>3 DEF Member
    <3> QED BY <3>1, <1>1, <1>2 DEF Member
  <2>2. ASSUME Member(s, x) PROVE Member(t, x)
    <3>1. PICK i \in 1 .. Len(s) : s[i] = x BY <2>2, <1>1 DEF Member
    <3>2. i \in DOMAIN t BY <1>1, <1>3
    <3> QED BY <3>1, <3>2, <1>2 DEF Member
  <2>3. ASSUME x = r PROVE Member(t, x)
    <3>1. Len(s) + 1 \in DOMAIN t BY <1>1, <1>3
    <3> QED BY <2>3, <3>1, <1>2 DEF Member
  <2> QED BY <2>1, <2>2, <2>3
<1>5. ASSUME NoDuplicate(s), ~ Member(s, r) PROVE NoDuplicate(t)
  <2>1. \A i \in 1 .. Len(s) : s[i] # r BY <1>5, <1>1 DEF Member
  <2>2. \A i, j \in 1 .. Len(s) : s[i] = s[j] => i = j BY <1>5, <1>1 DEF NoDuplicate
  <2>3. \A i, j \in 1 .. Len(s) + 1 : t[i] = t[j] => i = j BY <2>1, <2>2, <1>1, <1>2
  <2> QED BY <2>3, <1>3 DEF NoDuplicate
<1> QED BY <1>4, <1>5 DEF t

\* The first element taken off.
LEMMA TailMember ==
  ASSUME NEW S, NEW s \in Seq(S), s # <<>>
  PROVE  /\ Head(s) \in S /\ Member(s, Head(s)) /\ Tail(s) \in Seq(S)
         /\ \A x : x # Head(s) => (Member(Tail(s), x) <=> Member(s, x))
         /\ NoDuplicate(s) => NoDuplicate(Tail(s)) /\ ~ Member(Tail(s), Head(s))
<1> DEFINE t == Tail(s)
           h == Head(s)
<1>1. Len(s) \in Nat \ {0} /\ DOMAIN s = 1 .. Len(s) /\ h = s[1] /\ h \in S
  OBVIOUS
<1>2. t \in Seq(S) /\ Len(t) = Len(s) - 1 /\ \A i \in 1 .. Len(s) - 1 : t[i] = s[i + 1]
  OBVIOUS
<1>3. DOMAIN t = 1 .. Len(s) - 1 BY <1>1, <1>2
<1> HIDE DEF t, h
<1>4. Member(s, h) BY <1>1 DEF Member
<1>5. ASSUME NEW x, x # h PROVE Member(t, x) <=> Member(s, x)
  <2>1. ASSUME Member(t, x) PROVE Member(s, x)
    <3>1. PICK i \in 1 .. Len(s) - 1 : t[i] = x BY <2>1, <1>3 DEF Member
    <3>2. i + 1 \in DOMAIN s BY <1>1
    <3> QED BY <3>1, <3>2, <1>2 DEF Member
  <2>2. ASSUME Member(s, x) PROVE Member(t, x)
    <3>1. PICK i \in 1 .. Len(s) : s[i] = x BY <2>2, <1>1 DEF Member
    <3>2. i # 1 BY <3>1, <1>5, <1>1
    <3>3. i - 1 \in 1 .. Len(s) - 1 /\ (i - 1) + 1 = i BY <3>1, <3>2, <1>1
    <3>4. t[i - 1] = x BY <3>1, <3>3, <1>2
    <3> QED BY <3>3, <3>4, <1>3 DEF Member
  <2> QED BY <2>1, <2>2
<1>6. ASSUME NoDuplicate(s) PROVE NoDuplicate(t) /\ ~ Member(t, h)
  <2>1. \A i, j \in 1 .. Len(s) : s[i] = s[j] => i = j BY <1>6, <1>1 DEF NoDuplicate
  <2>2. \A i, j \in 1 .. Len(s) - 1 : t[i] = t[j] => i = j BY <2>1, <1>1, <1>2
  <2>3. \A i \in 1 .. Len(s) - 1 : t[i] # h BY <2>1, <1>1, <1>2
  <2> QED BY <2>2, <2>3, <1>3 DEF NoDuplicate, Member
<1> QED BY <1>1, <1>2, <1>4, <1>5, <1>6 DEF t, h

\* The first n elements move to the end of another sequence.
LEMMA MoveMember ==
  ASSUME NEW S, NEW s \in Seq(S), NEW t \in Seq(S), NEW n \in 0 .. Len(t),
         NoDuplicate(s), NoDuplicate(t), \A x : ~ (Member(s, x) /\ Member(t, x))
  PROVE  LET m == SubSeq(t, 1, n)
             rest == SubSeq(t, n + 1, Len(t))
         IN  /\ m \in Seq(S) /\ Len(m) = n /\ rest \in Seq(S) /\ s \o m \in Seq(S)
             /\ \A i \in 1 .. n : m[i] = t[i]
             /\ \A x : Member(s \o m, x) <=> Member(s, x) \/ Member(m, x)
             /\ \A x : Member(rest, x) <=> Member(t, x) /\ ~ Member(m, x)
             /\ \A x : Member(m, x) => Member(t, x)
             /\ NoDuplicate(s \o m) /\ NoDuplicate(rest)
<1> DEFINE m == SubSeq(t, 1, n)
           rest == SubSeq(t, n + 1, Len(t))
           u == s \o m
<1>1. /\ Len(t) \in Nat /\ DOMAIN t = 1 .. Len(t) /\ Len(s) \in Nat
      /\ DOMAIN s = 1 .. Len(s) /\ n \in Nat /\ n <= Len(t)
  OBVIOUS
<1>2. m \in Seq(S) /\ Len(m) = n /\ \A i \in 1 .. n : m[i] = t[i]
  BY <1>1, SubSeqProperties
<1>3. rest \in Seq(S) /\ Len(rest) = Len(t) - n /\ \A i \in 1 .. Len(t) - n : rest[i] = t[n + i]
  <2>1. \A i \in n + 1 .. Len(t) : t[i] \in S BY <1>1
  <2>2. n + 1 \in Int /\ Len(t) \in Int BY <1>1
  <2>3. /\ rest \in Seq(S)
        /\ Len(rest) = IF n + 1 <= Len(t) THEN Len(t) - (n + 1) + 1 ELSE 0
        /\ \A i \in 1 .. Len(t) - (n + 1) + 1 : rest[i] = t[(n + 1) + i - 1]
    BY <2>1, <2>2, SubSeqProperties
  <2>4. Len(t) - (n + 1) + 1 = Len(t) - n BY <1>1
  <2>5. \A i \in 1 .. Len(t) - n : (n + 1) + i - 1 = n + i BY <1>1
  <2> HIDE DEF rest
  <2>6. Len(rest) = Len(t) - n
    <3>1. Len(rest) = IF n + 1 <= Len(t) THEN Len(t) - (n + 1) + 1 ELSE 0 BY <2>3
    <3>2. CASE n + 1 <= Len(t) BY <3>1, <3>2, <2>4
    <3>3. CASE ~ (n + 1 <= Len(t))
      <4>1. n \in Nat /\ Len(t) \in Nat /\ n <= Len(t) BY <1>1
      <4>2. n = Len(t) BY <3>3, <4>1
      <4>3. Len(t) - n = 0 BY <4>1, <4>2
      <4>4. Len(rest) = 0 BY <3>1, <3>3
      <4> QED BY <4>3, <4>4
    <3> QED BY <3>2, <3>3
  <2>7. ASSUME NEW i \in 1 .. Len(t) - n PROVE rest[i] = t[n + i]
    <3>1. rest[i] = t[(n + 1) + i - 1] BY <2>3, <2>4
    <3>2. (n + 1) + i - 1 = n + i BY <2>5
    <3> QED BY <3>1, <3>2
  <2> QED BY <2>3, <2>6, <2>7
<1> HIDE DEF m, rest
<1>4. u \in Seq(S) /\ Len(u) = Len(s) + n
      /\ \A i \in 1 .. Len(s) + n : u[i] = IF i <= Len(s) THEN s[i] ELSE m[i - Len(s)]
  BY <1>1, <1>2, ConcatProperties
<1>5. DOMAIN m = 1 .. n /\ DOMAIN rest = 1 .. Len(t) - n /\ DOMAIN u = 1 .. Len(s) + n
  BY <1>1, <1>2, <1>3, <1>4
<1> HIDE DEF u
<1>6. ASSUME NEW x PROVE Member(u, x) <=> Member(s, x) \/ Member(m, x)
  <2>1. ASSUME Member(u, x) PROVE Member(s, x) \/ Member(m, x)
    <3>1. PICK i \in 1 .. Len(s) + n : u[i] = x BY <2>1, <1>5 DEF Member
    <3>2. CASE i <= Len(s) BY <3>1, <3>2, <1>1, <1>4 DEF Member
    <3>3. CASE ~ (i <= Len(s))
      <4>1. i - Len(s) \in DOMAIN m BY <3>3, <1>1, <1>5
      <4> QED BY <3>1, <3>3, <4>1, <1>4 DEF Member
    <3> QED BY <3>2, <3>3
  <2>2. ASSUME Member(s, x) PROVE Member(u, x)
    <3>1. PICK i \in 1 .. Len(s) : s[i] = x BY <2>2, <1>1 DEF Member
    <3>2. i \in DOMAIN u /\ i <= Len(s) BY <1>1, <1>5
    <3> QED BY <3>1, <3>2, <1>4, <1>5 DEF Member
  <2>3. ASSUME Member(m, x) PROVE Member(u, x)
    <3>1. PICK i \in 1 .. n : m[i] = x BY <2>3, <1>5 DEF Member
    <3>2. /\ Len(s) + i \in 1 .. Len(s) + n /\ ~ (Len(s) + i <= Len(s))
          /\ (Len(s) + i) - Len(s) = i
      BY <1>1
    <3>3. u[Len(s) + i] = x BY <3>1, <3>2, <1>4
    <3> QED BY <3>2, <3>3, <1>5 DEF Member
  <2> QED BY <2>1, <2>2, <2>3
<1>7. \A i, j \in 1 .. Len(t) : t[i] = t[j] => i = j BY <1>1 DEF NoDuplicate
<1>8. ASSUME NEW x, Member(m, x) PROVE Member(t, x) /\ ~ Member(rest, x)
  <2>1. PICK i \in 1 .. n : m[i] = x BY <1>8, <1>5 DEF Member
  <2>2. t[i] = x /\ i \in 1 .. Len(t) BY <2>1, <1>1, <1>2
  <2>3. ASSUME NEW j \in 1 .. Len(t) - n PROVE rest[j] # x
    <3>1. n + j \in 1 .. Len(t) /\ n + j # i BY <1>1
    <3> QED BY <3>1, <2>2, <1>3, <1>7
  <2> QED BY <2>2, <2>3, <1>1, <1>5 DEF Member
<1>9. ASSUME NEW x, Member(rest, x) PROVE Member(t, x)
  <2>1. PICK i \in 1 .. Len(t) - n : rest[i] = x BY <1>9, <1>5 DEF Member
  <2>2. n + i \in DOMAIN t BY <1>1
  <2> QED BY <2>1, <2>2, <1>3 DEF Member
<1>10. ASSUME NEW x, Member(t, x), ~ Member(m, x) PROVE Member(rest, x)
  <2>1. PICK i \in 1 .. Len(t) : t[i] = x BY <1>10, <1>1 DEF Member
  <2>2. ~ (i <= n)
    <3>1. \A k \in 1 .. n : m[k] # x BY <1>10, <1>5 DEF Member
    <3>2. i <= n => i \in 1 .. n /\ m[i] = t[i] BY <1>1, <1>2
    <3> QED BY <2>1, <3>1, <3>2
  <2>3. i - n \in 1 .. Len(t) - n /\ n + (i - n) = i BY <2>1, <2>2, <1>1
  <2>4. rest[i - n] = x BY <2>1, <2>3, <1>3
  <2> QED BY <2>3, <2>4, <1>5 DEF Member
<1>11. NoDuplicate(rest)
  <2>1. \A i, j \in 1 .. Len(t) - n : rest[i] = rest[j] => i = j BY <1>1, <1>3, <1>7
  <2> QED BY <2>1, <1>5 DEF NoDuplicate
<1>12. NoDuplicate(u)
  <2>1. SUFFICES ASSUME NEW i \in 1 .. Len(s) + n, NEW j \in 1 .. Len(s) + n,
                        u[i] = u[j], i < j
                 PROVE  FALSE
    <3>1. \A i, j \in 1 .. Len(s) + n : ~ (u[i] = u[j] /\ i < j) BY <2>1
    <3>2. \A i, j \in 1 .. Len(s) + n : u[i] = u[j] => i = j BY <3>1, <1>1
    <3> QED BY <3>2, <1>5 DEF NoDuplicate
  <2>2. CASE j <= Len(s)
    <3>1. i \in DOMAIN s /\ j \in DOMAIN s /\ u[i] = s[i] /\ u[j] = s[j]
      BY <2>1, <2>2, <1>1, <1>4
    <3>2. i = j BY <3>1, <2>1 DEF NoDuplicate
    <3> QED BY <3>2, <2>1, <1>1
  <2>3. CASE ~ (i <= Len(s))
    <3>1. /\ i - Len(s) \in 1 .. n /\ j - Len(s) \in 1 .. n /\ i - Len(s) # j - Len(s)
          /\ u[i] = m[i - Len(s)] /\ u[j] = m[j - Len(s)]
      BY <2>1, <2>3, <1>1, <1>4
    <3>2. i - Len(s) \in 1 .. Len(t) /\ j - Len(s) \in 1 .. Len(t) BY <3>1, <1>1
    <3> QED BY <3>1, <3>2, <2>1, <1>2, <1>7
  <2>4. CASE i <= Len(s) /\ ~ (j <= Len(s))
    <3>1. i \in DOMAIN s /\ u[i] = s[i] BY <2>4, <1>1, <1>4
    <3>2. j - Len(s) \in DOMAIN m /\ u[j] = m[j - Len(s)] BY <2>4, <1>1, <1>4, <1>5
    <3>3. Member(s, u[i]) /\ Member(m, u[i]) BY <3>1, <3>2, <2>1 DEF Member
    <3> QED BY <3>3, <1>8
  <2> QED BY <2>1, <2>2, <2>3, <2>4
<1>13. \A x : Member(rest, x) <=> Member(t, x) /\ ~ Member(m, x) BY <1>8, <1>9, <1>10
<1>14. \A x : Member(u, x) <=> Member(s, x) \/ Member(m, x) BY <1>6
<1>15. \A x : Member(m, x) => Member(t, x) BY <1>8
<1> QED BY <1>2, <1>3, <1>4, <1>11, <1>12, <1>13, <1>14, <1>15 DEF m, rest, u

-----------------------------------------------------------------------------
(***************************************************************************)
(* What a step does to one request: it leaves it alone, it releases it     *)
(* from bg_queue, or it takes it off every list.                           *)
(***************************************************************************)
Good(c) ==
  /\ c \in Conn
  /\ NoDuplicate(c.pending) /\ NoDuplicate(c.bg_queue)
  /\ \A r : ~ (Member(c.pending, r) /\ Member(c.bg_queue, r))

\* Request s is where it was, and what it was.
Same(c, d, s) ==
  /\ d.req[s] = c.req[s]
  /\ Member(d.pending, s) <=> Member(c.pending, s)
  /\ Member(d.bg_queue, s) <=> Member(c.bg_queue, s)
  /\ s \in d.io <=> s \in c.io
  /\ s \in d.processing <=> s \in c.processing
  /\ Member(d.interrupts, s) <=> Member(c.interrupts, s)

\* Fields of a request that flush_bg_queue leaves alone.
SameFields(p, q) ==
  /\ q.background = p.background /\ q.aborted = p.aborted /\ q.locked = p.locked
  /\ q.interrupted = p.interrupted /\ q.count = p.count
  /\ q.intr_unique = p.intr_unique /\ q.error = p.error /\ q.end = p.end
  /\ q.ended = p.ended /\ q.asleep = p.asleep /\ q.stolen = p.stolen

\* Request s went from bg_queue to pending.
Released(c, d, s) ==
  /\ Member(c.bg_queue, s) /\ ~ Member(d.bg_queue, s) /\ Member(d.pending, s)
  /\ s \in d.io <=> s \in c.io
  /\ s \in d.processing <=> s \in c.processing
  /\ Member(d.interrupts, s) <=> Member(c.interrupts, s)
  /\ d.req[s].state = "PENDING" /\ d.req[s].waiting /\ d.req[s].unique # 0
  /\ SameFields(c.req[s], d.req[s])

Left(c, d, s) == Same(c, d, s) \/ Released(c, d, s)

Off(c, r) ==
  /\ ~ Member(c.pending, r) /\ ~ Member(c.bg_queue, r)
  /\ r \notin c.io /\ r \notin c.processing

\* What the rest of the connection sees: nobody is left on blocked_waitq when
\* the connection is not blocked any more.
Calm(c, d) ==
  /\ d.connected = c.connected /\ d.reserved = c.reserved
  /\ \/ d.blocked_waitq = {}
     \/ d.blocked_waitq = c.blocked_waitq /\ (c.blocked => d.blocked)

LEMMA SameRefl == ASSUME NEW c, NEW s PROVE Same(c, c, s) /\ Left(c, c, s) /\ Calm(c, c)
BY DEF Same, Left, Calm

LEMMA SameTrans ==
  ASSUME NEW c, NEW d, NEW e, NEW s, Same(c, d, s), Left(d, e, s)
  PROVE  Left(c, e, s) /\ (Same(d, e, s) => Same(c, e, s))
BY DEF Same, Left, Released

LEMMA LeftTrans ==
  ASSUME NEW c, NEW d, NEW e, NEW s, Left(c, d, s), Same(d, e, s)
  PROVE  Left(c, e, s)
BY DEF Same, Left, Released

LEMMA CalmTrans ==
  ASSUME NEW c, NEW d, NEW e, Calm(c, d), Calm(d, e)
  PROVE  Calm(c, e)
BY DEF Calm

\* The record of one request updated.
LEMMA ReqEffect ==
  ASSUME NEW c, Good(c), NEW r \in Requests, NEW q \in Req
  PROVE  LET d == [c EXCEPT !.req[r] = q]
         IN  /\ Good(d) /\ Calm(c, d) /\ d.req[r] = q
             /\ d.pending = c.pending /\ d.bg_queue = c.bg_queue /\ d.io = c.io
             /\ d.processing = c.processing /\ d.interrupts = c.interrupts
             /\ \A s \in Requests : s # r => Same(c, d, s)
<1> DEFINE d == [c EXCEPT !.req[r] = q]
<1>1. c \in Conn BY DEF Good
<1>2. d \in Conn BY <1>1, ConnReq
<1>3. /\ d.pending = c.pending /\ d.bg_queue = c.bg_queue /\ d.io = c.io
      /\ d.processing = c.processing /\ d.interrupts = c.interrupts
      /\ d.connected = c.connected /\ d.reserved = c.reserved /\ d.blocked = c.blocked
      /\ d.blocked_waitq = c.blocked_waitq
  BY <1>1 DEF Conn
<1>4. d.req[r] = q /\ \A s \in Requests : s # r => d.req[s] = c.req[s]
  BY <1>1 DEF Conn
<1> HIDE DEF d
<1>5. \A s \in Requests : s # r => Same(c, d, s) BY <1>3, <1>4 DEF Same
<1>6. Good(d) BY <1>2, <1>3 DEF Good
<1>7. Calm(c, d) BY <1>3 DEF Calm
<1> QED BY <1>3, <1>4, <1>5, <1>6, <1>7 DEF d

\* A request taken off the lists.
LEMMA ListDelEffect ==
  ASSUME NEW c, Good(c), NEW r \in Requests
  PROVE  LET d == list_del(c, r)
         IN  /\ Good(d) /\ Calm(c, d) /\ Off(d, r) /\ d.req = c.req
             /\ d.interrupts = c.interrupts
             /\ \A s \in Requests : s # r => Same(c, d, s)
<1> DEFINE d == list_del(c, r)
<1>1. c \in Conn /\ d \in Conn BY ListDelType DEF Good
<1>2. /\ d.pending = Del(c.pending, r) /\ d.bg_queue = Del(c.bg_queue, r)
      /\ d.io = c.io \ {r} /\ d.processing = c.processing \ {r}
      /\ d.req = c.req /\ d.interrupts = c.interrupts
      /\ d.connected = c.connected /\ d.reserved = c.reserved /\ d.blocked = c.blocked
      /\ d.blocked_waitq = c.blocked_waitq
  BY <1>1 DEF Conn, list_del
<1> HIDE DEF d
<1>3. c.pending \in Seq(Requests) /\ c.bg_queue \in Seq(Requests) BY <1>1, ConnFields
<1>4. /\ NoDuplicate(d.pending) /\ ~ Member(d.pending, r)
      /\ NoDuplicate(d.bg_queue) /\ ~ Member(d.bg_queue, r)
  BY <1>2, <1>3, DelGone DEF Good
<1>5. \A s : s # r => /\ Member(d.pending, s) <=> Member(c.pending, s)
                      /\ Member(d.bg_queue, s) <=> Member(c.bg_queue, s)
  BY <1>2, <1>3, DelOthers
<1>6. Good(d) BY <1>1, <1>4, <1>5 DEF Good
<1>7. Off(d, r) BY <1>2, <1>4 DEF Off
<1>8. \A s \in Requests : s # r => Same(c, d, s) BY <1>2, <1>5 DEF Same
<1>9. Calm(c, d) BY <1>2 DEF Calm
<1> QED BY <1>2, <1>6, <1>7, <1>8, <1>9 DEF d

\* The requests flush_bg_queue finds room for are released.
LEMMA FlushEffect ==
  ASSUME NEW c, Good(c)
  PROVE  LET d == flush_bg_queue(c)
         IN  /\ Good(d) /\ Calm(c, d) /\ d.interrupts = c.interrupts
             /\ d.no_interrupt = c.no_interrupt
             /\ \A s \in Requests : Left(c, d, s)
<1> DEFINE d == flush_bg_queue(c)
           n == Moved(c)
           moved == SubSeq(c.bg_queue, 1, n)
           rest == SubSeq(c.bg_queue, n + 1, Len(c.bg_queue))
           Id(r) == fuse_get_unique(c.reqctr, CHOOSE i \in 1 .. n : moved[i] = r)
           uncounted == {i \in 1 .. n : ~ c.req[moved[i]].waiting}
           k == c.active_background + n
           w == c.num_waiting + Cardinality(uncounted)
           u == IF n = 0 THEN c.reqctr ELSE fuse_get_unique(c.reqctr, n)
           p == c.pending \o moved
           q == [r \in Requests |->
                   IF Member(moved, r)
                   THEN [c.req[r] EXCEPT !.state = "PENDING", !.waiting = TRUE, !.unique = Id(r)]
                   ELSE c.req[r]]
<1>1. c \in Conn /\ d \in Conn BY FlushType DEF Good
<1>2. /\ d.bg_queue = rest /\ d.pending = c.pending \o moved
      /\ d.io = c.io /\ d.processing = c.processing /\ d.interrupts = c.interrupts
      /\ d.no_interrupt = c.no_interrupt
      /\ d.connected = c.connected /\ d.reserved = c.reserved /\ d.blocked = c.blocked
      /\ d.blocked_waitq = c.blocked_waitq /\ d.req = q
  <2>1. d = [c EXCEPT !.bg_queue = rest, !.pending = p, !.active_background = k,
                      !.num_waiting = w, !.reqctr = u, !.req = q]
    BY DEF flush_bg_queue, Moved
  <2> HIDE DEF d, rest, p, k, w, u, q
  <2>2. /\ d.bg_queue = rest /\ d.pending = p
        /\ d.io = c.io /\ d.processing = c.processing /\ d.interrupts = c.interrupts
        /\ d.no_interrupt = c.no_interrupt
        /\ d.connected = c.connected /\ d.reserved = c.reserved /\ d.blocked = c.blocked
        /\ d.blocked_waitq = c.blocked_waitq /\ d.req = q
    BY <2>1, <1>1 DEF Conn
  <2> QED BY <2>2 DEF p
<1>3. d.req = [r \in Requests |->
                 IF Member(moved, r)
                 THEN [c.req[r] EXCEPT !.state = "PENDING", !.waiting = TRUE, !.unique = Id(r)]
                 ELSE c.req[r]]
  BY <1>2
<1>4. n \in 0 .. Len(c.bg_queue) BY <1>1, MovedType
<1>5. c.pending \in Seq(Requests) /\ c.bg_queue \in Seq(Requests)
      /\ c.req \in [Requests -> Req]
  BY <1>1, ConnFields
<1> HIDE DEF d, n
<1>6. /\ \A x : Member(c.pending \o moved, x) <=> Member(c.pending, x) \/ Member(moved, x)
      /\ \A x : Member(rest, x) <=> Member(c.bg_queue, x) /\ ~ Member(moved, x)
      /\ \A x : Member(moved, x) => Member(c.bg_queue, x)
      /\ NoDuplicate(c.pending \o moved) /\ NoDuplicate(rest)
  BY <1>4, <1>5, MoveMember DEF Good
<1>12. ASSUME NEW s, Member(moved, s) PROVE Id(s) # 0
  <2>1. \E i \in 1 .. n : moved[i] = s
    <3>1. DOMAIN moved = 1 .. n BY <1>4, <1>5
    <3> QED BY <3>1, <1>12 DEF Member
  <2> DEFINE k1 == CHOOSE i \in 1 .. n : moved[i] = s
  <2>2. k1 \in 1 .. n BY <2>1
  <2> HIDE DEF moved, k1
  <2>3. k1 \in Nat \ {0} /\ c.reqctr \in 0 .. UniqueMax BY <1>1, <1>4, <2>2 DEF Conn
  <2>4. fuse_get_unique(c.reqctr, k1) # 0 BY <2>3, UniqueType
  <2> QED BY <2>4 DEF k1
<1> HIDE DEF moved, rest, Id
<1>7. Good(d) BY <1>1, <1>2, <1>6 DEF Good
<1>8. Calm(c, d) BY <1>2 DEF Calm
<1>9. ASSUME NEW s \in Requests, ~ Member(moved, s) PROVE Same(c, d, s)
  <2>1. d.req[s] = c.req[s] BY <1>3, <1>9
  <2> QED BY <2>1, <1>9, <1>2, <1>6 DEF Same
<1>10. ASSUME NEW s \in Requests, Member(moved, s) PROVE Released(c, d, s)
  <2>1. d.req[s] = [c.req[s] EXCEPT !.state = "PENDING", !.waiting = TRUE, !.unique = Id(s)]
    BY <1>3, <1>10
  <2>2. c.req[s] \in Req BY <1>5
  <2>3. /\ d.req[s].state = "PENDING" /\ d.req[s].waiting /\ d.req[s].unique = Id(s)
        /\ SameFields(c.req[s], d.req[s])
    BY <2>1, <2>2 DEF Req, SameFields
  <2> QED BY <2>3, <1>10, <1>12, <1>2, <1>6 DEF Released
<1>11. \A s \in Requests : Left(c, d, s) BY <1>9, <1>10 DEF Left
<1> QED BY <1>2, <1>7, <1>8, <1>11 DEF d

\* One request goes from the list it is on to another, or to none.
Relisted(c, d, r) ==
  /\ d.pending = Del(c.pending, r) /\ d.bg_queue = Del(c.bg_queue, r)
  /\ d.io \ {r} = c.io \ {r} /\ d.processing \ {r} = c.processing \ {r}
  /\ \/ d.interrupts = c.interrupts
     \/ d.interrupts = Del(c.interrupts, r)
     \/ d.interrupts = Append(c.interrupts, r)
  /\ \A s \in Requests : s # r => d.req[s] = c.req[s]
  /\ d.connected = c.connected /\ d.reserved = c.reserved
  /\ d.blocked = c.blocked /\ d.blocked_waitq = c.blocked_waitq

LEMMA RelistedEffect ==
  ASSUME NEW c, Good(c), NEW d \in Conn, NEW r \in Requests, Relisted(c, d, r)
  PROVE  /\ Good(d) /\ Calm(c, d)
         /\ ~ Member(d.pending, r) /\ ~ Member(d.bg_queue, r)
         /\ \A s \in Requests : s # r => Same(c, d, s)
<1>1. c \in Conn BY DEF Good
<1>2. /\ c.pending \in Seq(Requests) /\ c.bg_queue \in Seq(Requests)
      /\ c.interrupts \in Seq(Requests)
  BY <1>1, ConnFields
<1>3. /\ NoDuplicate(d.pending) /\ ~ Member(d.pending, r)
      /\ NoDuplicate(d.bg_queue) /\ ~ Member(d.bg_queue, r)
  BY <1>2, DelGone DEF Good, Relisted
<1>4. \A s : s # r => /\ Member(d.pending, s) <=> Member(c.pending, s)
                      /\ Member(d.bg_queue, s) <=> Member(c.bg_queue, s)
  BY <1>2, DelOthers DEF Relisted
<1>5. ASSUME NEW s, s # r
      PROVE  Member(d.interrupts, s) <=> Member(c.interrupts, s)
  <2>1. Member(Del(c.interrupts, r), s) <=> Member(c.interrupts, s)
    BY <1>2, <1>5, DelOthers
  <2>2. Member(Append(c.interrupts, r), s) <=> Member(c.interrupts, s)
    BY <1>2, <1>5, AppendMember
  <2> QED BY <2>1, <2>2 DEF Relisted
<1>6. \A s : s # r => (s \in d.io <=> s \in c.io) /\ (s \in d.processing <=> s \in c.processing)
  BY DEF Relisted
<1>7. Good(d) BY <1>3, <1>4 DEF Good
<1>8. \A s \in Requests : s # r => Same(c, d, s) BY <1>4, <1>5, <1>6 DEF Same, Relisted
<1>9. Calm(c, d) BY DEF Calm, Relisted
<1> QED BY <1>3, <1>7, <1>8, <1>9

\* request_end before its flush.
LEMMA UnlistedEffect ==
  ASSUME NEW c, Good(c), NEW r \in Requests
  PROVE  LET d == Unlisted(c, r)
         IN  /\ Good(d) /\ Calm(c, d) /\ Off(d, r)
             /\ \A s \in Requests : s # r => Same(c, d, s)
             /\ d.req[r] = [c.req[r] EXCEPT !.state = "FINISHED", !.end = FALSE]
             /\ d.interrupts = Del(c.interrupts, r) /\ d.no_interrupt = c.no_interrupt
<1> DEFINE d == Unlisted(c, r)
           e == list_del(c, r)
           i == Del(e.interrupts, r)
           q == [e.req[r] EXCEPT !.state = "FINISHED", !.end = FALSE]
<1>1. c \in Conn /\ d \in Conn /\ e \in Conn BY UnlistedType, ListDelType DEF Good
<1>2. d = [e EXCEPT !.interrupts = i, !.req[r] = q] BY DEF Unlisted
<1>3. /\ e.pending = Del(c.pending, r) /\ e.bg_queue = Del(c.bg_queue, r)
      /\ e.io = c.io \ {r} /\ e.processing = c.processing \ {r}
      /\ e.req = c.req /\ e.interrupts = c.interrupts /\ e.no_interrupt = c.no_interrupt
      /\ e.connected = c.connected /\ e.reserved = c.reserved /\ e.blocked = c.blocked
      /\ e.blocked_waitq = c.blocked_waitq
  BY <1>1 DEF Conn, list_del
<1> HIDE DEF d, e, i, q
<1>4. /\ d.pending = e.pending /\ d.bg_queue = e.bg_queue
      /\ d.io = e.io /\ d.processing = e.processing
      /\ d.req[r] = q /\ d.interrupts = i /\ d.no_interrupt = e.no_interrupt
      /\ d.connected = e.connected /\ d.reserved = e.reserved /\ d.blocked = e.blocked
      /\ d.blocked_waitq = e.blocked_waitq
      /\ \A s \in Requests : s # r => d.req[s] = e.req[s]
  BY <1>1, <1>2 DEF Conn
<1>5. i = Del(c.interrupts, r)
      /\ q = [c.req[r] EXCEPT !.state = "FINISHED", !.end = FALSE]
  BY <1>3 DEF i, q
<1>6. Relisted(c, d, r) BY <1>3, <1>4, <1>5 DEF Relisted
<1>7. /\ Good(d) /\ Calm(c, d)
      /\ ~ Member(d.pending, r) /\ ~ Member(d.bg_queue, r)
      /\ \A s \in Requests : s # r => Same(c, d, s)
  BY <1>1, <1>6, RelistedEffect
<1>8. Off(d, r) BY <1>3, <1>4, <1>7 DEF Off
<1> QED BY <1>3, <1>4, <1>5, <1>7, <1>8 DEF d

LEMMA DischargedEffect ==
  ASSUME NEW c, Good(c), NEW r \in Requests
  PROVE  LET d == Discharged(c, r)
         IN  /\ Good(d) /\ Calm(c, d) /\ Off(d, r)
             /\ \A s \in Requests : s # r => Same(c, d, s)
             /\ d.req[r] = [c.req[r] EXCEPT !.state = "FINISHED", !.end = FALSE]
             /\ d.interrupts = Del(c.interrupts, r) /\ d.no_interrupt = c.no_interrupt
<1> DEFINE d == Discharged(c, r)
           e == Unlisted(c, r)
           full == c.num_background = c.max_background
           calm == c.num_background = CongestionThreshold /\ c.connected
           bl == IF full THEN FALSE ELSE e.blocked
           w == IF full THEN {} ELSE e.blocked_waitq
           cg == IF calm THEN FALSE ELSE e.congested
           n == e.num_background - 1
           k == e.active_background - 1
<1>1. d \in Conn /\ e \in Conn BY UnlistedType, DischargedType DEF Good
<1>2. d = [e EXCEPT !.blocked = bl, !.blocked_waitq = w, !.congested = cg,
                    !.num_background = n, !.active_background = k]
  BY DEF Discharged
<1>3. /\ Good(e) /\ Calm(c, e) /\ Off(e, r)
      /\ \A s \in Requests : s # r => Same(c, e, s)
      /\ e.req[r] = [c.req[r] EXCEPT !.state = "FINISHED", !.end = FALSE]
      /\ e.interrupts = Del(c.interrupts, r) /\ e.no_interrupt = c.no_interrupt
  BY UnlistedEffect
<1>4. w = {} \/ (w = e.blocked_waitq /\ bl = e.blocked) OBVIOUS
<1> HIDE DEF d, e, bl, w, cg, n, k
<1>5. /\ d.pending = e.pending /\ d.bg_queue = e.bg_queue
      /\ d.io = e.io /\ d.processing = e.processing
      /\ d.req = e.req /\ d.interrupts = e.interrupts
      /\ d.connected = e.connected /\ d.reserved = e.reserved /\ d.blocked = bl
      /\ d.blocked_waitq = w /\ d.no_interrupt = e.no_interrupt
  BY <1>1, <1>2 DEF Conn
<1>6. Good(d) BY <1>1, <1>3, <1>5 DEF Good
<1>7. \A s \in Requests : Same(e, d, s) BY <1>5 DEF Same
<1>8. Calm(e, d) BY <1>4, <1>5 DEF Calm
<1>9. Calm(c, d) BY <1>3, <1>8, CalmTrans
<1>10. \A s \in Requests : s # r => Same(c, d, s) BY <1>3, <1>5 DEF Same
<1>11. Off(d, r) BY <1>3, <1>5 DEF Off
<1> QED BY <1>3, <1>5, <1>6, <1>9, <1>10, <1>11 DEF d

\* A request ends: it is on no list, and no other is touched.
LEMMA RequestEndEffect ==
  ASSUME NEW c, Good(c), NEW r \in Requests
  PROVE  LET d == request_end(c, r)
         IN  /\ Good(d) /\ Calm(c, d) /\ Off(d, r)
             /\ \A s \in Requests : s # r => Left(c, d, s)
             /\ d.req[r] = [c.req[r] EXCEPT !.state = "FINISHED", !.end = FALSE]
             /\ d.interrupts = Del(c.interrupts, r) /\ d.no_interrupt = c.no_interrupt
<1> DEFINE d == request_end(c, r)
<1>1. CASE ~ c.req[r].background
  <2>1. d = Unlisted(c, r) BY <1>1, RequestEndCases DEF Good
  <2> DEFINE e == Unlisted(c, r)
  <2>2. /\ Good(e) /\ Calm(c, e) /\ Off(e, r)
        /\ \A s \in Requests : s # r => Same(c, e, s)
        /\ e.req[r] = [c.req[r] EXCEPT !.state = "FINISHED", !.end = FALSE]
        /\ e.interrupts = Del(c.interrupts, r) /\ e.no_interrupt = c.no_interrupt
    BY UnlistedEffect
  <2>3. d = e BY <2>1
  <2> HIDE DEF d, e
  <2>4. \A s \in Requests : s # r => Left(c, d, s) BY <2>2, <2>3 DEF Left
  <2> QED BY <2>2, <2>3, <2>4 DEF d
<1>2. CASE c.req[r].background
  <2> DEFINE e == Discharged(c, r)
  <2>1. d = flush_bg_queue(e) BY <1>2, RequestEndCases DEF Good
  <2>2. /\ Good(e) /\ Calm(c, e) /\ Off(e, r)
        /\ \A s \in Requests : s # r => Same(c, e, s)
        /\ e.req[r] = [c.req[r] EXCEPT !.state = "FINISHED", !.end = FALSE]
        /\ e.interrupts = Del(c.interrupts, r) /\ e.no_interrupt = c.no_interrupt
    BY DischargedEffect
  <2> HIDE DEF d, e
  <2>3. /\ Good(d) /\ Calm(e, d) /\ d.interrupts = e.interrupts
        /\ d.no_interrupt = e.no_interrupt /\ \A s \in Requests : Left(e, d, s)
    BY <2>1, <2>2, FlushEffect
  <2>4. Same(e, d, r) BY <2>2, <2>3 DEF Left, Released, Off
  <2>5. Off(d, r) /\ d.req[r] = e.req[r] BY <2>2, <2>4 DEF Off, Same
  <2>6. \A s \in Requests : s # r => Left(c, d, s) BY <2>2, <2>3, SameTrans
  <2>7. Calm(c, d) BY <2>2, <2>3, CalmTrans
  <2> QED BY <2>2, <2>3, <2>5, <2>6, <2>7 DEF d
<1> QED BY <1>1, <1>2

\* What queue_request does.
LEMMA QueueRequestEffect ==
  ASSUME NEW c, Good(c), NEW r \in Requests, ~ Member(c.pending, r), ~ Member(c.bg_queue, r)
  PROVE  LET d == queue_request(c, r)
         IN  /\ Good(d) /\ Calm(c, d)
             /\ \A s \in Requests : s # r => Same(c, d, s)
             /\ Member(d.pending, r) /\ d.bg_queue = c.bg_queue /\ d.io = c.io
             /\ d.processing = c.processing /\ d.interrupts = c.interrupts
             /\ d.req[r].state = "PENDING" /\ d.req[r].waiting
             /\ SameFields(c.req[r], d.req[r])
<1> DEFINE d == queue_request(c, r)
<1>1. c \in Conn /\ d \in Conn /\ c.req[r] \in Req
  BY QueueRequestType, ConnFields DEF Good
<1>2. /\ d.pending = Append(c.pending, r) /\ d.bg_queue = c.bg_queue /\ d.io = c.io
      /\ d.processing = c.processing /\ d.interrupts = c.interrupts
      /\ d.connected = c.connected /\ d.reserved = c.reserved /\ d.blocked = c.blocked
      /\ d.blocked_waitq = c.blocked_waitq
      /\ \A s \in Requests : s # r => d.req[s] = c.req[s]
  <2>1. /\ d.pending = Append(c.pending, r) /\ d.bg_queue = c.bg_queue /\ d.io = c.io
        /\ d.processing = c.processing /\ d.interrupts = c.interrupts
        /\ d.connected = c.connected /\ d.reserved = c.reserved /\ d.blocked = c.blocked
        /\ d.blocked_waitq = c.blocked_waitq
    BY <1>1 DEF Conn, queue_request
  <2>2. d.req = [c.req EXCEPT ![r].state = "PENDING", ![r].waiting = TRUE]
    BY <1>1 DEF Conn, queue_request
  <2>3. c.req \in [Requests -> Req] BY <1>1, ConnFields
  <2> HIDE DEF d
  <2>4. \A s \in Requests : s # r => d.req[s] = c.req[s] BY <2>2, <2>3
  <2> QED BY <2>1, <2>4
<1>3. /\ d.req[r].state = "PENDING" /\ d.req[r].waiting
      /\ SameFields(c.req[r], d.req[r])
  <2> DEFINE q == [c.req EXCEPT ![r].state = "PENDING", ![r].waiting = TRUE]
  <2>1. d.req = q BY <1>1 DEF Conn, queue_request
  <2>2. c.req \in [Requests -> Req] BY <1>1 DEF Conn
  <2>3. q[r] = [c.req[r] EXCEPT !.state = "PENDING", !.waiting = TRUE] BY <2>2
  <2> HIDE DEF d, q
  <2> QED BY <1>1, <2>1, <2>3 DEF Req, SameFields
<1> HIDE DEF d
<1>4. c.pending \in Seq(Requests) BY <1>1, ConnFields
<1>5. /\ \A x : Member(d.pending, x) <=> Member(c.pending, x) \/ x = r
      /\ NoDuplicate(d.pending)
  BY <1>2, <1>4, AppendMember DEF Good
<1>6. Good(d) BY <1>1, <1>2, <1>5 DEF Good
<1>7. Calm(c, d) BY <1>2 DEF Calm
<1>8. \A s \in Requests : s # r => Same(c, d, s) BY <1>2, <1>5 DEF Same
<1> QED BY <1>2, <1>3, <1>5, <1>6, <1>7, <1>8 DEF d

-----------------------------------------------------------------------------
(***************************************************************************)
(* The other operators, each for the request it works on and for the rest. *)
(***************************************************************************)
LEMMA QueueInterruptEffect ==
  ASSUME NEW c, Good(c), NEW r \in Requests
  PROVE  LET d == queue_interrupt(c, r)
         IN  /\ Good(d) /\ Calm(c, d) /\ d.req = c.req
             /\ d.pending = c.pending /\ d.bg_queue = c.bg_queue /\ d.io = c.io
             /\ d.processing = c.processing /\ d.interrupts = Append(c.interrupts, r)
             /\ Member(d.interrupts, r) /\ d.no_interrupt = c.no_interrupt
             /\ \A s \in Requests : s # r => Same(c, d, s)
<1> DEFINE d == queue_interrupt(c, r)
<1>1. c \in Conn /\ d \in Conn BY QueueInterruptType DEF Good
<1>2. /\ d.pending = c.pending /\ d.bg_queue = c.bg_queue /\ d.io = c.io
      /\ d.processing = c.processing /\ d.interrupts = Append(c.interrupts, r)
      /\ d.req = c.req /\ d.no_interrupt = c.no_interrupt
      /\ d.connected = c.connected /\ d.reserved = c.reserved /\ d.blocked = c.blocked
      /\ d.blocked_waitq = c.blocked_waitq
  BY <1>1 DEF Conn, queue_interrupt
<1> HIDE DEF d
<1>3. c.interrupts \in Seq(Requests) BY <1>1, ConnFields
<1>4. \A x : Member(d.interrupts, x) <=> Member(c.interrupts, x) \/ x = r
  BY <1>2, <1>3, AppendMember
<1>5. Good(d) /\ Calm(c, d) BY <1>1, <1>2 DEF Good, Calm
<1>6. \A s \in Requests : s # r => Same(c, d, s) BY <1>2, <1>4 DEF Same
<1> QED BY <1>2, <1>4, <1>5, <1>6 DEF d

LEMMA InterruptedEffect ==
  ASSUME NEW c, Good(c), NEW r \in Requests
  PROVE  LET d == Interrupted(c, r)
         IN  /\ Good(d) /\ Calm(c, d)
             /\ d.req[r] = [c.req[r] EXCEPT !.interrupted = TRUE, !.asleep = TRUE]
             /\ d.pending = c.pending /\ d.bg_queue = c.bg_queue /\ d.io = c.io
             /\ d.processing = c.processing
             /\ d.interrupts = IF c.req[r].state = "SENT" THEN Append(c.interrupts, r)
                                                          ELSE c.interrupts
             /\ c.req[r].state = "SENT" => Member(d.interrupts, r)
             /\ \A s \in Requests : s # r => Same(c, d, s)
<1> DEFINE d == Interrupted(c, r)
           q == [c.req[r] EXCEPT !.interrupted = TRUE, !.asleep = TRUE]
           e == [c EXCEPT !.req[r].interrupted = TRUE, !.req[r].asleep = TRUE]
<1>1. c \in Conn /\ c.req[r] \in Req BY ConnFields DEF Good
<1>2. q \in Req /\ q.state = c.req[r].state BY <1>1 DEF Req
<1>3. e = [c EXCEPT !.req[r] = q] OBVIOUS
<1>4. d = IF e.req[r].state = "SENT" THEN queue_interrupt(e, r) ELSE e BY DEF Interrupted
<1> HIDE DEF d, e
<1>5. /\ Good(e) /\ Calm(c, e) /\ e.req[r] = q
      /\ e.pending = c.pending /\ e.bg_queue = c.bg_queue /\ e.io = c.io
      /\ e.processing = c.processing /\ e.interrupts = c.interrupts
      /\ \A s \in Requests : s # r => Same(c, e, s)
  BY <1>2, <1>3, ReqEffect
<1>6. CASE c.req[r].state # "SENT" BY <1>2, <1>4, <1>5, <1>6 DEF d
<1>7. CASE c.req[r].state = "SENT"
  <2>1. d = queue_interrupt(e, r) BY <1>2, <1>4, <1>5, <1>7
  <2>2. /\ Good(d) /\ Calm(e, d) /\ d.req = e.req
        /\ d.pending = e.pending /\ d.bg_queue = e.bg_queue /\ d.io = e.io
        /\ d.processing = e.processing /\ d.interrupts = Append(e.interrupts, r)
        /\ Member(d.interrupts, r) /\ \A s \in Requests : s # r => Same(e, d, s)
    BY <2>1, <1>5, QueueInterruptEffect
  <2>3. Calm(c, d) BY <2>2, <1>5, CalmTrans
  <2>4. \A s \in Requests : s # r => Same(c, d, s) BY <2>2, <1>5 DEF Same
  <2> QED BY <2>2, <2>3, <2>4, <1>5, <1>7 DEF d
<1> QED BY <1>6, <1>7

\* The fields list_del leaves and the ones it changes.
LEMMA ListDelFields ==
  ASSUME NEW c \in Conn, NEW r \in Requests
  PROVE  LET e == list_del(c, r)
         IN  /\ e \in Conn
             /\ e.pending = Del(c.pending, r) /\ e.bg_queue = Del(c.bg_queue, r)
             /\ e.io = c.io \ {r} /\ e.processing = c.processing \ {r}
             /\ e.req = c.req /\ e.interrupts = c.interrupts
             /\ e.connected = c.connected /\ e.reserved = c.reserved
             /\ e.blocked = c.blocked /\ e.blocked_waitq = c.blocked_waitq
<1>1. list_del(c, r) \in Conn BY ListDelType
<1> QED BY <1>1 DEF Conn, list_del

\* A request taken off its list, and its record changed.
LEMMA TakenOffEffect ==
  ASSUME NEW c, Good(c), NEW r \in Requests, NEW q \in Req
  PROVE  LET d == [list_del(c, r) EXCEPT !.req[r] = q]
         IN  /\ Good(d) /\ Calm(c, d) /\ Off(d, r) /\ d.req[r] = q
             /\ d.interrupts = c.interrupts
             /\ \A s \in Requests : s # r => Same(c, d, s)
<1> DEFINE e == list_del(c, r)
           d == [e EXCEPT !.req[r] = q]
<1>1. /\ Good(e) /\ Calm(c, e) /\ Off(e, r) /\ e.req = c.req
      /\ e.interrupts = c.interrupts
      /\ \A s \in Requests : s # r => Same(c, e, s)
  BY ListDelEffect
<1> HIDE DEF e
<1>2. /\ Good(d) /\ Calm(e, d) /\ d.req[r] = q
      /\ d.pending = e.pending /\ d.bg_queue = e.bg_queue /\ d.io = e.io
      /\ d.processing = e.processing /\ d.interrupts = e.interrupts
      /\ \A s \in Requests : s # r => Same(e, d, s)
  BY <1>1, ReqEffect
<1> HIDE DEF d
<1>3. Calm(c, d) BY <1>1, <1>2, CalmTrans
<1>4. \A s \in Requests : s # r => Same(c, d, s) BY <1>1, <1>2 DEF Same
<1>5. Off(d, r) BY <1>1, <1>2 DEF Off
<1> QED BY <1>1, <1>2, <1>3, <1>4, <1>5 DEF d, e

\* A request moved to io.
LEMMA ToIoEffect ==
  ASSUME NEW c, Good(c), NEW r \in Requests, NEW q \in Req, NEW n \in Int
  PROVE  LET d == [list_del(c, r) EXCEPT !.io = @ \cup {r}, !.req[r] = q, !.forget_batch = n]
         IN  /\ Good(d) /\ Calm(c, d) /\ d.req[r] = q
             /\ ~ Member(d.pending, r) /\ ~ Member(d.bg_queue, r)
             /\ r \in d.io /\ r \notin d.processing /\ d.interrupts = c.interrupts
             /\ \A s \in Requests : s # r => Same(c, d, s)
<1> DEFINE e == list_del(c, r)
           i == e.io \cup {r}
           d == [e EXCEPT !.io = i, !.req[r] = q, !.forget_batch = n]
<1>1. c \in Conn BY DEF Good
<1>2. /\ e \in Conn
      /\ e.pending = Del(c.pending, r) /\ e.bg_queue = Del(c.bg_queue, r)
      /\ e.io = c.io \ {r} /\ e.processing = c.processing \ {r}
      /\ e.req = c.req /\ e.interrupts = c.interrupts
      /\ e.connected = c.connected /\ e.reserved = c.reserved
      /\ e.blocked = c.blocked /\ e.blocked_waitq = c.blocked_waitq
  BY <1>1, ListDelFields
<1> HIDE DEF e
<1>3. i \in SUBSET Requests BY <1>2, ConnFields
<1>4. i \ {r} = c.io \ {r} /\ r \in i BY <1>2
<1> HIDE DEF i
<1>5. d \in Conn BY <1>2, <1>3 DEF Conn
<1>6. /\ d.pending = e.pending /\ d.bg_queue = e.bg_queue /\ d.io = i
      /\ d.processing = e.processing
      /\ d.interrupts = e.interrupts /\ d.req[r] = q
      /\ \A s \in Requests : s # r => d.req[s] = e.req[s]
      /\ d.connected = e.connected /\ d.reserved = e.reserved
      /\ d.blocked = e.blocked /\ d.blocked_waitq = e.blocked_waitq
  BY <1>2 DEF Conn
<1>7. d = [list_del(c, r) EXCEPT !.io = @ \cup {r}, !.req[r] = q, !.forget_batch = n]
  BY DEF e, i
<1> HIDE DEF d
<1>8. Relisted(c, d, r) BY <1>2, <1>4, <1>6 DEF Relisted
<1>9. /\ Good(d) /\ Calm(c, d)
      /\ ~ Member(d.pending, r) /\ ~ Member(d.bg_queue, r)
      /\ \A s \in Requests : s # r => Same(c, d, s)
  BY <1>5, <1>8, RelistedEffect
<1> QED BY <1>2, <1>4, <1>6, <1>7, <1>9

\* The request at the head of pending is taken.
LEMMA TakeRequestEffect ==
  ASSUME TypeInv, Good(fc), fc.pending # <<>>
  PROVE  LET d == TakeRequest
             r == Head(fc.pending)
         IN  /\ Good(d) /\ Calm(fc, d)
             /\ d.req[r] = [fc.req[r] EXCEPT !.state = "READING"]
             /\ ~ Member(d.pending, r) /\ ~ Member(d.bg_queue, r)
             /\ r \in d.io /\ r \notin d.processing /\ d.interrupts = fc.interrupts
             /\ \A s \in Requests : s # r => Same(fc, d, s)
             /\ r \in Requests /\ Member(fc.pending, r)
<1> DEFINE d == TakeRequest
           r == Head(fc.pending)
           e == list_del(fc, r)
           n == NextBatch
           q == [e.req[r] EXCEPT !.state = "READING"]
<1>0. fc \in Conn /\ fc.pending \in Seq(Requests) BY ConnFields DEF TypeInv, TypeOK
<1>1. r \in Requests /\ Member(fc.pending, r) BY <1>0, TailMember
<1>2. n \in Int BY <1>0, ConnFields, BoundAssumption DEF NextBatch
<1>3. d = [e EXCEPT !.io = @ \cup {r}, !.req[r].state = "READING", !.forget_batch = n]
  BY DEF TakeRequest
<1> HIDE DEF n, r
<1>4. e.req = fc.req /\ fc.req[r] \in Req BY <1>0, <1>1, ListDelFields, ConnFields
<1>5. q \in Req BY <1>4 DEF Req, State
<1> HIDE DEF d
<1>6. d = [e EXCEPT !.io = @ \cup {r}, !.req[r] = q, !.forget_batch = n] BY <1>3
<1>7. q = [fc.req[r] EXCEPT !.state = "READING"] BY <1>4
<1> HIDE DEF q
<1>8. /\ Good(d) /\ Calm(fc, d) /\ d.req[r] = q
      /\ ~ Member(d.pending, r) /\ ~ Member(d.bg_queue, r)
      /\ r \in d.io /\ r \notin d.processing /\ d.interrupts = fc.interrupts
      /\ \A s \in Requests : s # r => Same(fc, d, s)
  <2> DEFINE x == [list_del(fc, r) EXCEPT !.io = @ \cup {r}, !.req[r] = q, !.forget_batch = n]
  <2>1. /\ Good(x) /\ Calm(fc, x) /\ x.req[r] = q
        /\ ~ Member(x.pending, r) /\ ~ Member(x.bg_queue, r)
        /\ r \in x.io /\ r \notin x.processing /\ x.interrupts = fc.interrupts
        /\ \A s \in Requests : s # r => Same(fc, x, s)
    BY <1>1, <1>2, <1>5, ToIoEffect
  <2>2. d = x BY <1>6
  <2> HIDE DEF x
  <2> QED BY <2>1, <2>2
<1> QED BY <1>1, <1>7, <1>8 DEF d, r

LEMMA RepliedEffect ==
  ASSUME NEW c, Good(c), NEW r \in Requests
  PROVE  LET d == Replied(c, r)
         IN  /\ Good(d) /\ Calm(c, d)
             /\ d.req[r] = [c.req[r] EXCEPT !.state = "WRITING", !.error = "REPLY",
                                            !.locked = TRUE]
             /\ ~ Member(d.pending, r) /\ ~ Member(d.bg_queue, r)
             /\ r \in d.io /\ r \notin d.processing /\ d.interrupts = c.interrupts
             /\ \A s \in Requests : s # r => Same(c, d, s)
<1> DEFINE d == Replied(c, r)
           e == list_del(c, r)
           i == e.io \cup {r}
           q == [e.req[r] EXCEPT !.state = "WRITING", !.error = "REPLY", !.locked = TRUE]
<1>1. c \in Conn BY DEF Good
<1>2. /\ e \in Conn
      /\ e.pending = Del(c.pending, r) /\ e.bg_queue = Del(c.bg_queue, r)
      /\ e.io = c.io \ {r} /\ e.processing = c.processing \ {r}
      /\ e.req = c.req /\ e.interrupts = c.interrupts
      /\ e.connected = c.connected /\ e.reserved = c.reserved
      /\ e.blocked = c.blocked /\ e.blocked_waitq = c.blocked_waitq
  BY <1>1, ListDelFields
<1>3. d = [e EXCEPT !.io = i, !.req[r].state = "WRITING",
                    !.req[r].error = "REPLY", !.req[r].locked = TRUE]
  BY DEF Replied
<1> HIDE DEF e
<1>4. i \ {r} = c.io \ {r} /\ r \in i BY <1>2
<1> HIDE DEF i
<1>a. [e EXCEPT !.io = i, !.req[r].state = "WRITING",
                !.req[r].error = "REPLY", !.req[r].locked = TRUE]
      = [e EXCEPT !.io = i, !.req[r] = q]
  BY ZenonT(40)
<1>b. d = [e EXCEPT !.io = i, !.req[r] = q] BY <1>3, <1>a
<1>5. d \in Conn BY <1>1, RepliedType
<1>c. q = [c.req[r] EXCEPT !.state = "WRITING", !.error = "REPLY", !.locked = TRUE]
  BY <1>2
<1> HIDE DEF d, q
<1>6. /\ d.pending = e.pending /\ d.bg_queue = e.bg_queue /\ d.io = i
      /\ d.processing = e.processing
      /\ d.interrupts = e.interrupts /\ d.req[r] = q
      /\ \A s \in Requests : s # r => d.req[s] = e.req[s]
      /\ d.connected = e.connected /\ d.reserved = e.reserved
      /\ d.blocked = e.blocked /\ d.blocked_waitq = e.blocked_waitq
  BY <1>2, <1>b DEF Conn
<1>8. Relisted(c, d, r) BY <1>2, <1>4, <1>6 DEF Relisted
<1>9. /\ Good(d) /\ Calm(c, d)
      /\ ~ Member(d.pending, r) /\ ~ Member(d.bg_queue, r)
      /\ \A s \in Requests : s # r => Same(c, d, s)
  BY <1>5, <1>8, RelistedEffect
<1> QED BY <1>2, <1>4, <1>6, <1>9, <1>c DEF d

\* The daemon has the request.
LEMMA DeliveredEffect ==
  ASSUME NEW c, Good(c), NEW r \in Requests
  PROVE  LET d == Delivered(c, r)
         IN  /\ Good(d) /\ Calm(c, d)
             /\ d.req[r] = [c.req[r] EXCEPT !.state = "SENT"]
             /\ ~ Member(d.pending, r) /\ ~ Member(d.bg_queue, r)
             /\ r \notin d.io /\ r \in d.processing
             /\ d.interrupts = IF c.req[r].interrupted THEN Append(c.interrupts, r)
                                                       ELSE c.interrupts
             /\ c.req[r].interrupted => Member(d.interrupts, r)
             /\ \A s \in Requests : s # r => Same(c, d, s)
<1> DEFINE d == Delivered(c, r)
           e == list_del(c, r)
           t == e.processing \cup {r}
           q == [e.req[r] EXCEPT !.state = "SENT"]
           f == [e EXCEPT !.processing = t, !.req[r].state = "SENT"]
<1>1. c \in Conn BY DEF Good
<1>2. /\ e \in Conn
      /\ e.pending = Del(c.pending, r) /\ e.bg_queue = Del(c.bg_queue, r)
      /\ e.io = c.io \ {r} /\ e.processing = c.processing \ {r}
      /\ e.req = c.req /\ e.interrupts = c.interrupts
      /\ e.connected = c.connected /\ e.reserved = c.reserved
      /\ e.blocked = c.blocked /\ e.blocked_waitq = c.blocked_waitq
  BY <1>1, ListDelFields
<1>3. d = IF f.req[r].interrupted THEN queue_interrupt(f, r) ELSE f
  BY DEF Delivered
<1> HIDE DEF e
<1>4. t \ {r} = c.processing \ {r} /\ r \in t /\ t \in SUBSET Requests
  BY <1>2, ConnFields
<1>5. e.req[r] \in Req BY <1>2, ConnFields
<1>6. q \in Req /\ q.interrupted = e.req[r].interrupted BY <1>5 DEF Req, State
<1> HIDE DEF t
<1>7. f = [e EXCEPT !.processing = t, !.req[r] = q] OBVIOUS
<1> HIDE DEF d, f
<1>8. q = [c.req[r] EXCEPT !.state = "SENT"] BY <1>2
<1> HIDE DEF q
<1>9. f \in Conn BY <1>2, <1>4, <1>6, <1>7 DEF Conn
<1>10. /\ f.pending = e.pending /\ f.bg_queue = e.bg_queue /\ f.io = e.io
       /\ f.processing = t
       /\ f.interrupts = e.interrupts /\ f.req[r] = q
       /\ \A s \in Requests : s # r => f.req[s] = e.req[s]
       /\ f.connected = e.connected /\ f.reserved = e.reserved
       /\ f.blocked = e.blocked /\ f.blocked_waitq = e.blocked_waitq
  BY <1>2, <1>7 DEF Conn
<1>11. Relisted(c, f, r) BY <1>2, <1>4, <1>10 DEF Relisted
<1>12. /\ Good(f) /\ Calm(c, f)
       /\ ~ Member(f.pending, r) /\ ~ Member(f.bg_queue, r)
       /\ \A s \in Requests : s # r => Same(c, f, s)
  BY <1>9, <1>11, RelistedEffect
<1>13. r \notin f.io /\ r \in f.processing /\ f.interrupts = c.interrupts
  BY <1>2, <1>4, <1>10
<1>14. f.req[r].interrupted = c.req[r].interrupted BY <1>2, <1>6, <1>10
<1>15. CASE ~ c.req[r].interrupted
  BY <1>3, <1>8, <1>10, <1>12, <1>13, <1>14, <1>15 DEF d
<1>16. CASE c.req[r].interrupted
  <2>1. d = queue_interrupt(f, r) BY <1>3, <1>14, <1>16
  <2>2. /\ Good(d) /\ Calm(f, d) /\ d.req = f.req
        /\ d.pending = f.pending /\ d.bg_queue = f.bg_queue /\ d.io = f.io
        /\ d.processing = f.processing /\ d.interrupts = Append(f.interrupts, r)
        /\ Member(d.interrupts, r) /\ \A s \in Requests : s # r => Same(f, d, s)
    BY <2>1, <1>12, QueueInterruptEffect
  <2>3. Calm(c, d) BY <2>2, <1>12, CalmTrans
  <2>4. \A s \in Requests : s # r => Same(c, d, s) BY <2>2, <1>12 DEF Same
  <2> QED BY <2>2, <2>3, <2>4, <1>8, <1>10, <1>12, <1>13, <1>16 DEF d
<1> QED BY <1>15, <1>16

\* A reference dropped.
LEMMA PutEffect ==
  ASSUME NEW c, Good(c), NEW r \in Requests
  PROVE  LET d == fuse_put_request(c, r)
         IN  /\ Good(d) /\ Calm(c, d)
             /\ d.req[r] = [c.req[r] EXCEPT !.count = @ - 1]
             /\ d.pending = c.pending /\ d.bg_queue = c.bg_queue /\ d.io = c.io
             /\ d.processing = c.processing /\ d.interrupts = c.interrupts
             /\ \A s \in Requests : s # r => Same(c, d, s)
<1> DEFINE d == fuse_put_request(c, r)
           q == [c.req[r] EXCEPT !.count = @ - 1]
           n == IF c.req[r].count = 1 /\ c.req[r].waiting
                THEN c.num_waiting - 1 ELSE c.num_waiting
<1>1. c \in Conn /\ d \in Conn BY PutType DEF Good
<1>2. d = [c EXCEPT !.num_waiting = n, !.req[r] = q] BY DEF fuse_put_request
<1> HIDE DEF d, n, q
<1>3. /\ d.pending = c.pending /\ d.bg_queue = c.bg_queue /\ d.io = c.io
      /\ d.processing = c.processing /\ d.interrupts = c.interrupts
      /\ d.req[r] = q /\ \A s \in Requests : s # r => d.req[s] = c.req[s]
      /\ d.connected = c.connected /\ d.reserved = c.reserved /\ d.blocked = c.blocked
      /\ d.blocked_waitq = c.blocked_waitq
  BY <1>1, <1>2 DEF Conn
<1>4. Good(d) /\ Calm(c, d) BY <1>1, <1>3 DEF Good, Calm
<1>5. \A s \in Requests : s # r => Same(c, d, s) BY <1>3 DEF Same
<1> QED BY <1>3, <1>4, <1>5 DEF d, q

\* What is left of request_end after the lock.
LEMMA EndTailEffect ==
  ASSUME NEW c, Good(c), NEW r \in Requests, NEW end \in BOOLEAN
  PROVE  LET d == EndTail(c, r, end)
             p == c.req[r]
             q == d.req[r]
         IN  /\ Good(d) /\ Calm(c, d)
             /\ q.state = p.state /\ q.background = p.background /\ q.aborted = p.aborted
             /\ q.locked = p.locked /\ q.interrupted = p.interrupted
             /\ q.count = p.count - 1 /\ q.intr_unique = p.intr_unique
             /\ q.unique = p.unique /\ q.error = p.error /\ q.end = p.end
             /\ q.ended = p.ended + One(end)
             /\ ~ q.asleep /\ q.stolen = p.stolen
             /\ d.pending = c.pending /\ d.bg_queue = c.bg_queue /\ d.io = c.io
             /\ d.processing = c.processing /\ d.interrupts = c.interrupts
             /\ \A s \in Requests : s # r => Same(c, d, s)
<1> DEFINE w == wake_up(c, r)
           p == c.req[r]
           x == [p EXCEPT !.asleep = FALSE]
           y == [w.req[r] EXCEPT !.ended = IF end THEN @ + 1 ELSE @]
           e == [w EXCEPT !.req[r] = y]
           d == EndTail(c, r, end)
           z == [e.req[r] EXCEPT !.count = @ - 1]
<1>1. c \in Conn /\ p \in Req BY ConnFields DEF Good
<1>2. w = [c EXCEPT !.req[r] = x] BY DEF wake_up
<1>3. d = fuse_put_request(e, r) BY DEF EndTail
<1>4. x \in Req BY <1>1 DEF Req
<1> HIDE DEF w, x
<1>5. /\ Good(w) /\ Calm(c, w) /\ w.req[r] = x
      /\ w.pending = c.pending /\ w.bg_queue = c.bg_queue /\ w.io = c.io
      /\ w.processing = c.processing /\ w.interrupts = c.interrupts
      /\ \A s \in Requests : s # r => Same(c, w, s)
  BY <1>2, <1>4, ReqEffect
<1>6. y \in Req BY <1>4, <1>5 DEF Req
<1> HIDE DEF y
<1>7. /\ Good(e) /\ Calm(w, e) /\ e.req[r] = y
      /\ e.pending = w.pending /\ e.bg_queue = w.bg_queue /\ e.io = w.io
      /\ e.processing = w.processing /\ e.interrupts = w.interrupts
      /\ \A s \in Requests : s # r => Same(w, e, s)
  BY <1>5, <1>6, ReqEffect
<1> HIDE DEF d, e
<1>8. /\ Good(d) /\ Calm(e, d) /\ d.req[r] = z
      /\ d.pending = e.pending /\ d.bg_queue = e.bg_queue /\ d.io = e.io
      /\ d.processing = e.processing /\ d.interrupts = e.interrupts
      /\ \A s \in Requests : s # r => Same(e, d, s)
  BY <1>3, <1>7, PutEffect
<1> DEFINE q == d.req[r]
<1>9. /\ q.state = p.state /\ q.background = p.background /\ q.aborted = p.aborted
      /\ q.locked = p.locked /\ q.interrupted = p.interrupted
      /\ q.count = p.count - 1 /\ q.intr_unique = p.intr_unique
      /\ q.unique = p.unique /\ q.error = p.error /\ q.end = p.end
      /\ q.ended = p.ended + One(end)
      /\ ~ q.asleep /\ q.stolen = p.stolen
  <2>1. /\ x.state = p.state /\ x.background = p.background /\ x.aborted = p.aborted
        /\ x.locked = p.locked /\ x.interrupted = p.interrupted
        /\ x.count = p.count /\ x.intr_unique = p.intr_unique
        /\ x.unique = p.unique /\ x.error = p.error /\ x.end = p.end
        /\ x.ended = p.ended /\ ~ x.asleep /\ x.stolen = p.stolen
    BY <1>1 DEF x, Req
  <2>2. /\ y.state = x.state /\ y.background = x.background /\ y.aborted = x.aborted
        /\ y.locked = x.locked /\ y.interrupted = x.interrupted
        /\ y.count = x.count /\ y.intr_unique = x.intr_unique
        /\ y.unique = x.unique /\ y.error = x.error /\ y.end = x.end
        /\ y.ended = x.ended + One(end) /\ y.asleep = x.asleep /\ y.stolen = x.stolen
    BY <1>4, <1>5 DEF y, Req, One
  <2>3. /\ q.state = y.state /\ q.background = y.background /\ q.aborted = y.aborted
        /\ q.locked = y.locked /\ q.interrupted = y.interrupted
        /\ q.count = y.count - 1 /\ q.intr_unique = y.intr_unique
        /\ q.unique = y.unique /\ q.error = y.error /\ q.end = y.end
        /\ q.ended = y.ended /\ q.asleep = y.asleep /\ q.stolen = y.stolen
    BY <1>6, <1>7, <1>8 DEF Req
  <2> QED BY <2>1, <2>2, <2>3
<1>10. Calm(c, d) BY <1>5, <1>7, <1>8, CalmTrans
<1>11. \A s \in Requests : s # r => Same(c, d, s) BY <1>5, <1>7, <1>8 DEF Same
<1> QED BY <1>5, <1>7, <1>8, <1>9, <1>10, <1>11 DEF d

\* A background request joins bg_queue, and may leave it at once.
LEMMA SendNowaitEffect ==
  ASSUME NEW c, Good(c), NEW r \in Requests, Off(c, r)
  PROVE  LET d == fuse_request_send_nowait_locked(c, r)
             p == c.req[r]
             q == d.req[r]
         IN  /\ Good(d) /\ Calm(c, d)
             /\ q.background /\ q.aborted = p.aborted
             /\ q.locked = p.locked /\ q.interrupted = p.interrupted
             /\ q.count = p.count /\ q.intr_unique = p.intr_unique
             /\ q.error = p.error /\ q.end = p.end /\ q.ended = p.ended
             /\ q.asleep = p.asleep /\ q.stolen = p.stolen
             /\ r \notin d.io /\ r \notin d.processing
             /\ \/ q.state = p.state /\ Member(d.bg_queue, r) /\ ~ Member(d.pending, r)
                \/ /\ q.state = "PENDING" /\ q.unique # 0
                   /\ ~ Member(d.bg_queue, r) /\ Member(d.pending, r)
             /\ d.interrupts = c.interrupts
             /\ \A s \in Requests : s # r => Left(c, d, s)
<1> DEFINE n == c.num_background + 1
           p == c.req[r]
           x == [p EXCEPT !.background = TRUE]
           bl == IF n = c.max_background THEN TRUE ELSE c.blocked
           cg == IF n = CongestionThreshold THEN TRUE ELSE c.congested
           b == Append(c.bg_queue, r)
           e == [c EXCEPT !.req[r] = x, !.num_background = n, !.blocked = bl,
                          !.congested = cg, !.bg_queue = b]
           d == fuse_request_send_nowait_locked(c, r)
<1>1. c \in Conn /\ p \in Req BY ConnFields DEF Good
<1>2. x \in Req BY <1>1 DEF Req
<1>3. n \in Int /\ b \in Seq(Requests) BY <1>1, ConnFields
<1>4. bl \in BOOLEAN BY <1>1, ConnFields, Zenon
<1>5. cg \in BOOLEAN BY <1>1, ConnFields, Zenon
<1>6. d = flush_bg_queue(e) BY DEF fuse_request_send_nowait_locked
<1>7. c.blocked => bl OBVIOUS
<1> HIDE DEF d, n, x, bl, cg, b
<1>8. e \in Conn BY <1>1, <1>2, <1>3, <1>4, <1>5 DEF Conn
<1>9. /\ e.pending = c.pending /\ e.bg_queue = b /\ e.io = c.io
      /\ e.processing = c.processing /\ e.interrupts = c.interrupts
      /\ e.req[r] = x /\ \A s \in Requests : s # r => e.req[s] = c.req[s]
      /\ e.connected = c.connected /\ e.reserved = c.reserved /\ e.blocked = bl
      /\ e.blocked_waitq = c.blocked_waitq
  BY <1>1, <1>2 DEF Conn
<1> HIDE DEF e
<1>10. c.bg_queue \in Seq(Requests) BY <1>1, ConnFields
<1>11. NoDuplicate(b) /\ \A s : Member(b, s) <=> Member(c.bg_queue, s) \/ s = r
  BY <1>10, AppendMember DEF b, Good, Off
<1>12. Good(e) BY <1>8, <1>9, <1>11 DEF Good, Off
<1>13. Calm(c, e) BY <1>7, <1>9 DEF Calm
<1>14. \A s \in Requests : s # r => Same(c, e, s) BY <1>9, <1>11 DEF Same
<1>15. /\ Good(d) /\ Calm(e, d) /\ d.interrupts = e.interrupts
       /\ \A s \in Requests : Left(e, d, s)
  BY <1>6, <1>12, FlushEffect
<1>16. Calm(c, d) BY <1>13, <1>15, CalmTrans
<1>17. \A s \in Requests : s # r => Left(c, d, s) BY <1>14, <1>15, SameTrans
<1>18. x.background /\ x.state = p.state /\ SameFields(x, [p EXCEPT !.background = TRUE])
       /\ x.aborted = p.aborted
       /\ x.locked = p.locked /\ x.interrupted = p.interrupted
       /\ x.count = p.count /\ x.intr_unique = p.intr_unique
       /\ x.error = p.error /\ x.end = p.end /\ x.ended = p.ended
       /\ x.asleep = p.asleep /\ x.stolen = p.stolen
  BY <1>1 DEF x, Req, SameFields
<1>19. Member(e.bg_queue, r) /\ ~ Member(e.pending, r) /\ r \notin e.io /\ r \notin e.processing
  BY <1>9, <1>11 DEF Off
<1> DEFINE q == d.req[r]
<1>20. /\ q.background /\ q.aborted = p.aborted
       /\ q.locked = p.locked /\ q.interrupted = p.interrupted
       /\ q.count = p.count /\ q.intr_unique = p.intr_unique
       /\ q.error = p.error /\ q.end = p.end /\ q.ended = p.ended
       /\ q.asleep = p.asleep /\ q.stolen = p.stolen
       /\ r \notin d.io /\ r \notin d.processing
       /\ \/ q.state = p.state /\ Member(d.bg_queue, r) /\ ~ Member(d.pending, r)
          \/ /\ q.state = "PENDING" /\ q.unique # 0
             /\ ~ Member(d.bg_queue, r) /\ Member(d.pending, r)
  <2>1. CASE Same(e, d, r) BY <2>1, <1>9, <1>18, <1>19 DEF Same
  <2>2. CASE Released(e, d, r) BY <2>2, <1>9, <1>18, <1>19 DEF Released, SameFields
  <2> QED BY <2>1, <2>2, <1>15 DEF Left
<1> QED BY <1>9, <1>15, <1>16, <1>17, <1>20 DEF d

WithUnique(q, u) == [q EXCEPT !.intr_unique = u]

InterruptRead(c, r, u) ==
  [c EXCEPT !.interrupts = Tail(@), !.reqctr = u, !.req[r] = WithUnique(c.req[r], u)]

\* The interrupt at the head of the queue is read: its id is the request's now.
LEMMA ReadInterruptEffect ==
  ASSUME NEW c, Good(c), c.interrupts # <<>>, NEW u \in 0 .. UniqueMax,
         NEW r, r = Head(c.interrupts), NEW q, q = WithUnique(c.req[r], u),
         NEW d, d = InterruptRead(c, r, u)
  PROVE  /\ Good(d) /\ Calm(c, d) /\ d.req[r] = q /\ r \in Requests /\ q \in Req
         /\ d.pending = c.pending /\ d.bg_queue = c.bg_queue /\ d.io = c.io
         /\ d.processing = c.processing /\ d.interrupts = Tail(c.interrupts)
         /\ \A s \in Requests : s # r => Same(c, d, s)
<1> DEFINE i == Tail(c.interrupts)
<1>1. c \in Conn /\ c.interrupts \in Seq(Requests) BY ConnFields DEF Good
<1>2. /\ r \in Requests /\ i \in Seq(Requests)
      /\ \A x : x # r => (Member(i, x) <=> Member(c.interrupts, x))
  BY <1>1, TailMember
<1>3. q \in Req
  <2>1. c.req[r] \in Req BY <1>1, <1>2, ConnFields
  <2> QED BY <2>1 DEF Req, WithUnique
<1>4. d = [c EXCEPT !.interrupts = i, !.reqctr = u, !.req[r] = q] BY DEF InterruptRead
<1> HIDE DEF i
<1>5. /\ d \in Conn
      /\ d.pending = c.pending /\ d.bg_queue = c.bg_queue /\ d.io = c.io
      /\ d.processing = c.processing /\ d.interrupts = i
      /\ d.connected = c.connected /\ d.reserved = c.reserved /\ d.blocked = c.blocked
      /\ d.blocked_waitq = c.blocked_waitq
      /\ d.req[r] = q /\ \A s \in Requests : s # r => d.req[s] = c.req[s]
  <2>1. PICK m : m = [c.req EXCEPT ![r] = q] OBVIOUS
  <2>2. d = [c EXCEPT !.interrupts = i, !.reqctr = u, !.req = m] BY <1>4, <2>1
  <2>3. c.req \in [Requests -> Req] BY <1>1, ConnFields
  <2>4. m \in [Requests -> Req] BY <1>3, <2>1, <2>3
  <2>5. /\ d \in Conn /\ d.req = m
        /\ d.pending = c.pending /\ d.bg_queue = c.bg_queue /\ d.io = c.io
        /\ d.processing = c.processing /\ d.interrupts = i
        /\ d.connected = c.connected /\ d.reserved = c.reserved /\ d.blocked = c.blocked
        /\ d.blocked_waitq = c.blocked_waitq
    BY <1>1, <1>2, <2>2, <2>4 DEF Conn
  <2>6. m[r] = q /\ \A s \in Requests : s # r => m[s] = c.req[s] BY <1>2, <2>1, <2>3
  <2> QED BY <2>5, <2>6
<1>6. Good(d) /\ Calm(c, d) BY <1>5 DEF Good, Calm
<1>7. \A s \in Requests : s # r => Same(c, d, s) BY <1>2, <1>5 DEF Same
<1> QED BY <1>2, <1>3, <1>5, <1>6, <1>7 DEF i

\* The connection where no request, no list and no wait is another.
LEMMA QuietEffect ==
  ASSUME NEW c, Good(c), NEW d \in Conn, d.req = c.req,
         d.pending = c.pending, d.bg_queue = c.bg_queue, d.io = c.io,
         d.processing = c.processing, d.interrupts = c.interrupts,
         d.connected = c.connected, d.reserved = c.reserved, d.blocked = c.blocked,
         d.blocked_waitq = c.blocked_waitq
  PROVE  Good(d) /\ Calm(c, d) /\ \A s \in Requests : Same(c, d, s)
BY DEF Good, Calm, Same

-----------------------------------------------------------------------------
(***************************************************************************)
(* The requests: where each of them is, who works on it, who holds it and  *)
(* what its caller is told.                                                *)
(*                                                                         *)
(* The inductive invariant is stated request by request, PerRequest, with  *)
(* what the whole connection shares, Shared.  An action works on one       *)
(* request and may release others from bg_queue: for those one lemma,      *)
(* KeptStep, is enough, and each action is proved for the one it works on. *)
(***************************************************************************)
\* The one thread inside the kernel that works on r, and the step of the abort
\* that does.
OneWorker(r) == \A d, e \in Busy(r) : d = e

Worker(r) == IF Busy(r) = {} THEN Idle ELSE thread[CHOOSE d \in Busy(r) : TRUE]

Aborter(r) ==
  IF abort.pc = "io_end" /\ abort.req = r THEN "io"
  ELSE IF AbortEnding(r) THEN "end" ELSE "no"

Before == {"start", "get_wait", "get_reserved", "failed", "ready"}

\* A request is on the list its state names, and on no other.
Placed(r) ==
  LET q == fc.req[r]
  IN  /\ Member(fc.pending, r) <=> q.state = "PENDING" /\ q.error # "EINTR"
      /\ Member(fc.bg_queue, r) <=> q.state = "INIT" /\ q.background
      /\ r \in fc.io <=> q.state \in {"READING", "WRITING"}
      /\ r \in fc.processing <=> q.state = "SENT"

\* The error a request may have in each of its states.
Told(r) ==
  LET q == fc.req[r]
  IN  /\ q.state = "INIT" => q.error \in {"none", "ENOTCONN"}
      /\ q.state = "PENDING" => q.error \in {"none", "EINTR"}
      /\ q.error \in {"ENOTCONN", "EINTR"} /\ q.state # "FINISHED" =>
           r \in Sync /\ task[r] \in {"returned", "done"}
      /\ q.state \in {"READING", "SENT"} => q.error = "none"
      /\ q.state = "WRITING" => q.error = "REPLY"
      /\ q.state = "FINISHED" => q.error # "EINTR"
      /\ q.state \in {"SENT", "WRITING"} => r \notin NotifyReply
      /\ q.aborted => q.state = "FINISHED"

\* What the thread that has the request in its hands does with it.
Worked(r) ==
  LET q == fc.req[r]
      w == Worker(r)
  IN  /\ w.pc = "read" => q.state = "READING" \/ q.aborted
      /\ w.pc = "write" => q.state = "WRITING" \/ q.aborted
      /\ w.pc = "end" => q.state = "FINISHED"
      /\ q.state = "READING" => w.pc = "read"
      /\ q.state = "WRITING" => w.pc = "write"
      /\ q.locked => w.pc \in {"read", "write"} /\ w.phase \in {"locked", "failed"}
      /\ w.end => w.pc = "end"

\* How far its caller is.
Called(r) ==
  LET q == fc.req[r]
      t == task[r]
  IN  /\ r \in Sync => t \in Before \cup Waits \cup {"returned", "done"}
      /\ r \notin Sync => t \in Before \cup {"end", "sent", "leaked"}
      /\ t \in Before \cup {"leaked"} => q.state = "INIT" /\ ~ q.background
      /\ t \in Waits => q.state # "INIT"
      /\ t = "wait_unlock" => q.aborted
      /\ t \in {"returned", "done"} =>
           \/ q.state = "FINISHED" /\ ~ q.locked
           \/ q.state = "INIT" /\ q.error = "ENOTCONN"
           \/ q.state = "PENDING" /\ q.error = "EINTR"
      /\ t = "end" => q.state = "FINISHED" /\ Worker(r).pc = "idle"
      /\ t = "sent" => q.state # "INIT" \/ q.background
      /\ q.background => r \in Background

\* Who may still touch it.
OnDevice(r) ==
  LET q == fc.req[r]
  IN  \/ q.state \in {"READING", "SENT", "WRITING"}
      \/ q.state = "PENDING" /\ q.error # "EINTR"
      \/ q.state = "INIT" /\ q.background
      \/ Worker(r).pc # "idle" \/ Aborter(r) = "end"

Held(r) ==
  fc.req[r].count = One(CallerHolds(r)) + One(OnDevice(r)) + One(Aborter(r) = "io")

\* Who owes the call of its end callback.
Owing(r) ==
  One(fc.req[r].end) + One(task[r] = "end") + One(Worker(r).end)
    + One(Aborter(r) = "end" /\ abort.end) + One(Aborter(r) = "io")

Callback(r) ==
  LET q == fc.req[r]
  IN  /\ r \in Sync => Owing(r) = 0 /\ q.ended = 0
      /\ r \notin Sync /\ task[r] # "leaked" => q.ended + Owing(r) = 1
      /\ task[r] = "leaked" => q.ended = 1
      /\ q.state = "FINISHED" => ~ q.end
      /\ q.ended # 0 => task[r] = "leaked" \/ (q.state = "FINISHED" /\ ~ q.locked)

\* What the abort does with it.
Taken(r) ==
  LET q == fc.req[r]
  IN  /\ Aborter(r) = "end" =>
           q.state = "FINISHED" /\ Worker(r).pc = "idle" /\ task[r] # "end"
      /\ Aborter(r) = "io" => q.state = "FINISHED" /\ q.aborted /\ task[r] = "sent"

\* Who sleeps on it, and whether the daemon will hear of an interrupt.
Sleeps(r) ==
  LET q == fc.req[r]
  IN  /\ q.asleep => r \in Sync \/ q.state = "FINISHED"
      /\ q.asleep /\ q.state = "FINISHED" =>
           Worker(r).pc # "idle" \/ (r \in Sync /\ Aborter(r) = "end")
      /\ q.interrupted /\ q.state = "SENT" =>
           Member(fc.interrupts, r) \/ q.intr_unique # 0

PerRequest(r) ==
  /\ OneWorker(r) /\ Placed(r) /\ Told(r) /\ Worked(r) /\ Called(r)
  /\ Held(r) /\ Callback(r) /\ Taken(r) /\ Sleeps(r)

\* The whole connection.
Shared ==
  /\ NoDuplicate(fc.pending) /\ NoDuplicate(fc.bg_queue)
  /\ fc.connected <=> abort.pc = "no"
  /\ fc.blocked_waitq # {} => fc.blocked \/ abort.pc \notin {"no", "done"}
  /\ \A r, s \in Requests : fc.req[r].stolen /\ fc.req[s].stolen => r = s
  /\ fc.reserved <=> \A r \in Requests : ~ fc.req[r].stolen

Inv == TypeInv /\ Shared /\ \A r \in Requests : PerRequest(r)

-----------------------------------------------------------------------------
(***************************************************************************)
(* What a step does to a request.                                          *)
(***************************************************************************)
Outcome(r) == IF Over(r) THEN fc.req[r].error ELSE "none"

\* For the service the request stays as it was.
Stays(r) == Status(r)' = Status(r) /\ Outcome(r)' = Outcome(r)

\* Or it takes one of the steps of the service.
Goes(r, from, to) == Status(r) = from /\ Status(r)' = to

Turns(r) ==
  \/ Stays(r)
  \/ fc.connected /\ Goes(r, "new", "queued") /\ Outcome(r)' = Outcome(r)
  \/ fc.connected /\ Goes(r, "queued", "taken") /\ Outcome(r)' = Outcome(r)
  \/ ~ fc.connected /\ Goes(r, "new", "over") /\ Outcome(r)' = "ENOTCONN"
  \/ Goes(r, "queued", "over") /\ Outcome(r)' = "EINTR"
  \/ Goes(r, "taken", "over") /\ r \notin NotifyReply /\ Outcome(r)' = "REPLY"
  \/ Goes(r, "taken", "over") /\ r \in NotifyReply /\ Outcome(r)' = "none"
  \/ (Goes(r, "queued", "over") \/ Goes(r, "taken", "over")) /\ Outcome(r)' = "EIO"
  \/ /\ ~ fc.connected /\ (Goes(r, "queued", "over") \/ Goes(r, "taken", "over"))
     /\ Outcome(r)' = "ECONNABORTED"

\* Its result is final.
Final(r) == Ended(r) => Ended(r)' /\ (fc.req[r].error)' = fc.req[r].error

\* A step that works on another request.
Kept(s) ==
  /\ Left(fc, fc', s) /\ task'[s] = task[s]
  /\ Worker(s)' = Worker(s) /\ OneWorker(s)'
  /\ Aborter(s)' = Aborter(s) /\ (Aborter(s) = "end" => abort'.end = abort.end)

LEMMA KeptStep ==
  ASSUME Inv, NEW s \in Requests, Kept(s)
  PROVE  PerRequest(s)' /\ Stays(s) /\ Final(s)
<1>1. PerRequest(s) BY DEF Inv
<1>2. CASE Same(fc, fc', s)
  <2>1. Placed(s)' /\ Told(s)' /\ Worked(s)' /\ Called(s)' /\ Taken(s)' /\ Sleeps(s)'
    BY <1>1, <1>2 DEF Kept, Same, PerRequest, Placed, Told, Worked, Called, Taken, Sleeps
  <2>2. Held(s)' BY <1>1, <1>2 DEF Kept, Same, PerRequest, Held, OnDevice, CallerHolds
  <2>3. Callback(s)'
    BY <1>1, <1>2 DEF Kept, Same, PerRequest, Callback, Owing
  <2>4. Stays(s) /\ Final(s)
    BY <1>2 DEF Same, Stays, Final, Status, Outcome, Over, Ended
  <2> QED BY <2>1, <2>2, <2>3, <2>4 DEF PerRequest, Kept
<1>3. CASE Released(fc, fc', s)
  <2>0. fc.req[s].state = "INIT" /\ fc.req[s].background /\ fc.req[s].error = "none"
    BY <1>1, <1>3, KindAssumption DEF PerRequest, Placed, Released, Told, Called, Requests
  <2>1. Placed(s)' /\ Told(s)'
    BY <1>1, <1>3, <2>0 DEF Kept, Released, SameFields, PerRequest, Placed, Told
  <2>2. Worked(s)' /\ Called(s)'
    BY <1>1, <1>3, <2>0 DEF Kept, Released, SameFields, PerRequest, Worked, Called
  <2>3. Taken(s)' /\ Sleeps(s)'
    BY <1>1, <1>3, <2>0 DEF Kept, Released, SameFields, PerRequest, Taken, Sleeps
  <2>4. Held(s)'
    BY <1>1, <1>3, <2>0
    DEF Kept, Released, SameFields, PerRequest, Held, OnDevice, CallerHolds
  <2>5. Callback(s)'
    BY <1>1, <1>3, <2>0 DEF Kept, Released, SameFields, PerRequest, Callback, Owing
  <2>6. Stays(s) /\ Final(s)
    BY <1>3, <2>0 DEF Released, SameFields, Stays, Final, Status, Outcome, Over, Ended
  <2> QED BY <2>1, <2>2, <2>3, <2>4, <2>5, <2>6 DEF PerRequest, Kept
<1> QED BY <1>2, <1>3 DEF Kept, Left

-----------------------------------------------------------------------------
(***************************************************************************)
(* Threads and the abort.                                                  *)
(***************************************************************************)
\* The worker is the thread that works on the request.
LEMMA WorkerIs ==
  ASSUME NEW r, OneWorker(r), NEW d \in Busy(r)
  PROVE  Worker(r) = thread[d] /\ Busy(r) = {d} /\ Worker(r).pc \in {"read", "write", "end"}
<1> DEFINE e == CHOOSE e \in Busy(r) : TRUE
<1>1. e \in Busy(r) OBVIOUS
<1>2. e = d BY <1>1 DEF OneWorker
<1>3. Worker(r) = thread[e] BY DEF Worker
<1>4. Busy(r) = {d} BY DEF OneWorker
<1>5. thread[d].pc \in {"read", "write", "end"} BY DEF Busy
<1> QED BY <1>2, <1>3, <1>4, <1>5

LEMMA NoWorker ==
  ASSUME NEW r
  PROVE  /\ Busy(r) = {} => Worker(r) = Idle /\ Worker(r).pc = "idle" /\ OneWorker(r)
         /\ Worker(r).pc = "idle" => Busy(r) = {}
<1>1. ASSUME Busy(r) = {} PROVE Worker(r) = Idle /\ Worker(r).pc = "idle" /\ OneWorker(r)
  BY <1>1, IdleType DEF Worker, OneWorker
<1>2. ASSUME Busy(r) # {} PROVE Worker(r).pc # "idle"
  <2> DEFINE e == CHOOSE e \in Busy(r) : TRUE
  <2>1. e \in Busy(r) BY <1>2
  <2>2. Worker(r) = thread[e] BY <1>2 DEF Worker
  <2> HIDE DEF e
  <2> QED BY <2>1, <2>2 DEF Busy
<1> QED BY <1>1, <1>2

LEMMA WorkerPc == ASSUME NEW r PROVE Worker(r).pc \in {"idle", "read", "write", "end"}
<1>1. CASE Busy(r) = {} BY <1>1, NoWorker
<1>2. CASE Busy(r) # {}
  <2> DEFINE e == CHOOSE e \in Busy(r) : TRUE
  <2>1. e \in Busy(r) BY <1>2
  <2>2. Worker(r) = thread[e] BY <1>2 DEF Worker
  <2> HIDE DEF e
  <2> QED BY <2>1, <2>2 DEF Busy
<1> QED BY <1>1, <1>2

\* A step that leaves every thread alone.
LEMMA ThreadsRest ==
  ASSUME UNCHANGED thread, NEW s, OneWorker(s)
  PROVE  Worker(s)' = Worker(s) /\ OneWorker(s)' /\ Busy(s)' = Busy(s)
<1>1. Busy(s)' = Busy(s) BY DEF Busy
<1> QED BY <1>1 DEF Worker, OneWorker

\* Threads that go or stay where no request is in their hands.
LEMMA ThreadsLeave ==
  ASSUME NEW s, OneWorker(s), Busy(s)' = Busy(s),
         \A d \in Busy(s) : thread'[d] = thread[d]
  PROVE  Worker(s)' = Worker(s) /\ OneWorker(s)'
<1>1. CASE Busy(s) = {} BY <1>1 DEF Worker, OneWorker
<1>2. CASE Busy(s) # {}
  <2>1. PICK d \in Busy(s) : TRUE BY <1>2
  <2>2. OneWorker(s)' BY DEF OneWorker
  <2>3. Worker(s) = thread[d] BY <2>1, WorkerIs
  <2> DEFINE e == CHOOSE e \in Busy(s)' : TRUE
  <2>4. e \in Busy(s) BY <1>2
  <2>5. e = d BY <2>1, <2>4 DEF OneWorker
  <2>6. Worker(s)' = thread'[e] BY <1>2 DEF Worker
  <2> QED BY <2>1, <2>2, <2>3, <2>5, <2>6
<1> QED BY <1>1, <1>2

LEMMA ThreadMoves ==
  ASSUME TypeOK, NEW d \in Thread, NEW t, thread' = [thread EXCEPT ![d] = t], NEW s,
         OneWorker(s)
  PROVE  /\ (d \in Busy(s))' <=> t.pc \in {"read", "write", "end"} /\ t.req = s
         /\ \A e \in Thread : e # d => thread'[e] = thread[e] /\ ((e \in Busy(s))' <=> e \in Busy(s))
         /\ thread'[d] = t
BY DEF TypeOK, Busy

\* A thread that moves on, seen from a request it has nothing to do with.
LEMMA ThreadElsewhere ==
  ASSUME TypeOK, NEW d \in Thread, NEW t, thread' = [thread EXCEPT ![d] = t], NEW s,
         OneWorker(s), d \notin Busy(s), t.pc \in {"read", "write", "end"} => t.req # s
  PROVE  Worker(s)' = Worker(s) /\ OneWorker(s)'
<1>1. Busy(s)' = Busy(s) /\ \A e \in Busy(s) : thread'[e] = thread[e]
  BY DEF TypeOK, Busy
<1> QED BY <1>1, ThreadsLeave

\* Seen from the request it works on from now on.
LEMMA ThreadWorks ==
  ASSUME TypeOK, NEW d \in Thread, NEW t, thread' = [thread EXCEPT ![d] = t], NEW r,
         Busy(r) \subseteq {d}, t.pc \in {"read", "write", "end"}, t.req = r
  PROVE  Worker(r)' = t /\ OneWorker(r)'
<1>1. Busy(r)' = {d} /\ thread'[d] = t BY DEF TypeOK, Busy
<1>2. OneWorker(r)' BY <1>1 DEF OneWorker
<1>3. (CHOOSE e \in Busy(r)' : TRUE) = d BY <1>1
<1> QED BY <1>1, <1>2, <1>3 DEF Worker

\* Seen from the request it has done with.
LEMMA ThreadDone ==
  ASSUME TypeOK, NEW d \in Thread, thread' = [thread EXCEPT ![d] = Idle], NEW r,
         Busy(r) \subseteq {d}
  PROVE  Worker(r)' = Idle /\ OneWorker(r)'
<1>1. Busy(r)' = {} BY IdleType DEF TypeOK, Busy
<1> QED BY <1>1 DEF Worker, OneWorker

\* A thread works on one request.
LEMMA WorksOnOne ==
  ASSUME NEW d \in Thread, NEW r, NEW s, d \in Busy(r), s # r
  PROVE  d \notin Busy(s)
BY DEF Busy

LEMMA AbortRests ==
  ASSUME UNCHANGED abort, NEW s
  PROVE  Aborter(s)' = Aborter(s) /\ (Aborter(s) = "end" => abort'.end = abort.end)
BY DEF Aborter, AbortEnding

-----------------------------------------------------------------------------
(***************************************************************************)
(* What every step shows.                                                  *)
(***************************************************************************)
\* Nothing happens to the service, or one request takes one of its steps.
Serves ==
  \/ (fc.connected)' \in {fc.connected, FALSE} /\ \A s \in Requests : Stays(s)
  \/ /\ (fc.connected)' = fc.connected
     /\ \E r \in Requests : Turns(r) /\ \A s \in Requests \ {r} : Stays(s)

Result == Inv' /\ Serves /\ \A s \in Requests : Final(s)

LEMMA InvGood == ASSUME Inv PROVE Good(fc)
<1>1. fc \in Conn BY DEF Inv, TypeInv, TypeOK
<1>2. ASSUME NEW r, Member(fc.pending, r), Member(fc.bg_queue, r) PROVE FALSE
  <2>1. r \in Requests BY <1>1, <1>2, ConnFields DEF Member
  <2> QED BY <2>1, <1>2 DEF Inv, PerRequest, Placed
<1> QED BY <1>1, <1>2 DEF Inv, Shared, Good

\* The counters of an abort that goes on, and of one that is not there.
AbortGoes ==
  /\ abort'.pc = "no" <=> abort.pc = "no"
  /\ abort'.pc = "done" => abort.pc = "done" \/ fc'.blocked_waitq = {}

\* A step that works on one request.
LEMMA OneRequest ==
  ASSUME Inv, TypeInv', NEW r \in Requests, Good(fc'), Calm(fc, fc'), AbortGoes,
         \A s \in Requests : s # r => Kept(s),
         PerRequest(r)', Final(r), Turns(r),
         fc'.req[r].stolen = fc.req[r].stolen
  PROVE  Result
<1>1. \A s \in Requests : s # r => PerRequest(s)' /\ Stays(s) /\ Final(s) BY KeptStep
<1>2. \A s \in Requests : fc'.req[s].stolen = fc.req[s].stolen
  BY DEF Kept, Left, Same, Released, SameFields
<1>3. Shared' BY <1>2 DEF Inv, Shared, Good, Calm, AbortGoes
<1>4. Inv' BY <1>1, <1>3 DEF Inv
<1>5. Serves BY <1>1 DEF Serves, Calm
<1> QED BY <1>1, <1>4, <1>5 DEF Result

\* A step that moves no request.
LEMMA NoRequest ==
  ASSUME Inv, TypeInv', Shared', \A s \in Requests : Kept(s),
         (fc.connected)' \in {fc.connected, FALSE}
  PROVE  Result
<1>1. \A s \in Requests : PerRequest(s)' /\ Stays(s) /\ Final(s) BY KeptStep
<1>2. Inv' BY <1>1 DEF Inv
<1>3. Serves BY <1>1 DEF Serves
<1> QED BY <1>1, <1>2, <1>3 DEF Result

-----------------------------------------------------------------------------
(***************************************************************************)
(* The actions of a caller that only change its request.                   *)
(***************************************************************************)
SameLists(c, d) ==
  /\ d.pending = c.pending /\ d.bg_queue = c.bg_queue /\ d.io = c.io
  /\ d.processing = c.processing /\ d.interrupts = c.interrupts

\* No thread that works on a request moves, nor does the abort.
OthersRest ==
  /\ UNCHANGED abort
  /\ \A s \in Requests : Busy(s)' = Busy(s) /\ \A d \in Busy(s) : thread'[d] = thread[d]

LEMMA OthersRestUnchanged == ASSUME UNCHANGED <<thread, abort>> PROVE OthersRest
BY DEF OthersRest, Busy

LEMMA LeaveRests ==
  ASSUME TypeOK, NEW r, thread' = Leave(r), UNCHANGED abort
  PROVE  OthersRest
<1>1. \A d \in Thread : thread'[d] = IF thread[d].pc = "retrieve" /\ thread[d].req = r
                                    THEN Idle ELSE thread[d]
  BY DEF Leave
<1>2. Idle.pc = "idle" BY IdleType
<1> QED BY <1>1, <1>2 DEF OthersRest, Busy

LEMMA RestKeeps ==
  ASSUME Inv, OthersRest, NEW s \in Requests
  PROVE  /\ Worker(s)' = Worker(s) /\ OneWorker(s)' /\ Aborter(s)' = Aborter(s)
         /\ abort' = abort
         /\ Left(fc, fc', s) /\ task'[s] = task[s] => Kept(s)
<1>1. OneWorker(s) BY DEF Inv, PerRequest
<1>2. Worker(s)' = Worker(s) /\ OneWorker(s)' BY <1>1, ThreadsLeave DEF OthersRest
<1>3. Aborter(s)' = Aborter(s) /\ abort' = abort BY AbortRests DEF OthersRest
<1> QED BY <1>2, <1>3 DEF Kept

\* The connection where only request r is another.
OnlyReq(c, d, r) == SameLists(c, d) /\ \A s \in Requests : s # r => d.req[s] = c.req[s]

LEMMA OnlyReqEffect ==
  ASSUME NEW c, Good(c), NEW d \in Conn, NEW r, OnlyReq(c, d, r)
  PROVE  Good(d) /\ \A s \in Requests : s # r => Left(c, d, s)
BY DEF Good, OnlyReq, SameLists, Left, Same

\* The caller of r moves, nobody else does.
CallerAlone(r) ==
  OthersRest /\ \A s \in Requests : s # r => task'[s] = task[s]

LEMMA GotoAlone ==
  ASSUME TypeOK, NEW r \in Requests, NEW pc, Goto(r, pc)
  PROVE  task'[r] = pc /\ \A s \in Requests : s # r => task'[s] = task[s]
BY DEF TypeOK, Goto

LEMMA CallerStep1 ==
  ASSUME Inv, TypeInv', NEW r \in Requests, CallerAlone(r), Good(fc'), Calm(fc, fc'),
         \A s \in Requests : s # r => Left(fc, fc', s),
         PerRequest(r)', Final(r), Turns(r), fc'.req[r].stolen = fc.req[r].stolen
  PROVE  Result
<1>1. \A s \in Requests : s # r => Kept(s) BY RestKeeps DEF CallerAlone
<1>2. AbortGoes BY DEF CallerAlone, OthersRest, AbortGoes
<1> QED BY <1>1, <1>2, OneRequest

LEMMA OnlyReqStep ==
  ASSUME Inv, TypeInv', NEW r \in Requests, CallerAlone(r), OnlyReq(fc, fc', r),
         Calm(fc, fc'),
         PerRequest(r)', Final(r), Turns(r), fc'.req[r].stolen = fc.req[r].stolen
  PROVE  Result
<1>1. Good(fc) /\ fc' \in Conn BY InvGood DEF TypeInv, TypeOK
<1>2. Good(fc') /\ \A s \in Requests : s # r => Left(fc, fc', s) BY <1>1, OnlyReqEffect
<1> QED BY <1>2, CallerStep1

\* A caller that has no request yet and gets none.
LEMMA CallerWaits ==
  ASSUME Inv, TypeInv', NEW r \in Requests, OthersRest, Shared',
         fc'.req = fc.req, SameLists(fc, fc'), fc'.connected = fc.connected,
         \/ task' = task
         \/ /\ task[r] \in Before \ {"ready"}
            /\ \E pc \in Before \ {"ready"} : Goto(r, pc)
  PROVE  Result
<1>1. \A s \in Requests : Same(fc, fc', s) /\ Left(fc, fc', s)
  BY DEF SameLists, Same, Left
<1>2. \A s \in Requests : s # r => task'[s] = task[s]
  BY GotoAlone DEF Inv, TypeInv
<1>3. \A s \in Requests : s # r => Kept(s) BY <1>1, <1>2, RestKeeps
<1>4. PerRequest(r)' /\ Stays(r) /\ Final(r)
  <2>1. CASE task' = task
    <3>1. Kept(r) BY <2>1, <1>1, RestKeeps
    <3> QED BY <3>1, KeptStep
  <2>2. CASE task' # task
    <3>1. task[r] \in Before \ {"ready"} /\ task'[r] \in Before \ {"ready"}
      BY <2>2, GotoAlone DEF Inv, TypeInv
    <3>2. PerRequest(r) BY DEF Inv
    <3>3. Worker(r)' = Worker(r) /\ OneWorker(r)' /\ Aborter(r)' = Aborter(r) /\ abort' = abort
      BY RestKeeps
    <3>4. Same(fc, fc', r) BY <1>1
    <3>5. Placed(r)' /\ Worked(r)' /\ Sleeps(r)'
      BY <3>2, <3>3, <3>4 DEF Same, PerRequest, Placed, Worked, Sleeps
    <3>6. Told(r)' /\ Taken(r)' /\ Called(r)'
      BY <3>1, <3>2, <3>3, <3>4
      DEF Same, PerRequest, Told, Called, Taken, Before, Waits
    <3>7. Held(r)'
      BY <3>1, <3>2, <3>3, <3>4 DEF Same, PerRequest, Held, OnDevice, CallerHolds, Before
    <3>8. Callback(r)'
      BY <3>1, <3>2, <3>3, <3>4 DEF Same, PerRequest, Callback, Owing, Before
    <3>9. Stays(r) /\ Final(r)
      BY <3>4 DEF Same, Stays, Final, Status, Outcome, Over, Ended
    <3> QED BY <3>3, <3>5, <3>6, <3>7, <3>8, <3>9 DEF PerRequest
  <2> QED BY <2>1, <2>2
<1>5. \A s \in Requests : PerRequest(s)' /\ Stays(s) /\ Final(s) BY <1>3, <1>4, KeptStep
<1>6. Inv' BY <1>5 DEF Inv
<1>7. Serves BY <1>5 DEF Serves
<1> QED BY <1>5, <1>6, <1>7 DEF Result

LEMMA StartGetStep ==
  ASSUME Inv, TypeInv', NEW r \in Requests, StartGet(r), OthersRest
  PROVE  Result
<1>1. fc \in Conn /\ task[r] = "start" BY DEF Inv, TypeInv, TypeOK, StartGet
<1>2. /\ fc'.req = fc.req /\ SameLists(fc, fc') /\ fc'.connected = fc.connected
      /\ fc'.reserved = fc.reserved /\ fc'.blocked = fc.blocked
      /\ fc'.blocked_waitq = IF fc.blocked THEN fc.blocked_waitq \cup {r} ELSE fc.blocked_waitq
  BY <1>1 DEF StartGet, Conn, SameLists
<1>3. Shared' BY <1>2 DEF Inv, Shared, SameLists, StartGet
<1>4. Goto(r, "get_wait") /\ "get_wait" \in Before \ {"ready"} /\ "start" \in Before \ {"ready"}
  BY DEF StartGet, Before
<1> QED BY <1>1, <1>2, <1>3, <1>4, CallerWaits

LEMMA GetReqFailStep ==
  ASSUME Inv, TypeInv', NEW r \in Requests, task[r] = "get_wait", GetReqFail(r)
  PROVE  Result
<1>1. fc \in Conn /\ TypeOK BY DEF Inv, TypeInv, TypeOK
<1>2. /\ fc'.req = fc.req /\ SameLists(fc, fc') /\ fc'.connected = fc.connected
      /\ fc'.reserved = fc.reserved /\ fc'.blocked = fc.blocked
      /\ fc'.blocked_waitq = fc.blocked_waitq \ {r}
  BY <1>1 DEF GetReqFail, Conn, SameLists
<1>3. Shared' BY <1>2 DEF Inv, Shared, SameLists, GetReqFail
<1>4. OthersRest BY <1>1, LeaveRests DEF GetReqFail
<1>5. Goto(r, "failed") /\ "failed" \in Before \ {"ready"} /\ "get_wait" \in Before \ {"ready"}
  BY DEF GetReqFail, Before
<1> QED BY <1>2, <1>3, <1>4, <1>5, CallerWaits

LEMMA GetStep ==
  ASSUME Inv, TypeInv', NEW r \in Requests,
         \/ GetReq(r) \/ GetReqSleep(r) \/ GetReqKilled(r) \/ GetReqRefused(r)
         \/ GetReqNoMemory(r) \/ Signal(r)
  PROVE  Result
<1>0. fc \in Conn /\ TypeOK BY DEF Inv, TypeInv, TypeOK
<1>1. CASE GetReq(r)
  <2>1. OthersRest BY <1>1, OthersRestUnchanged DEF GetReq, StartGet
  <2> QED BY <1>1, <2>1, StartGetStep DEF GetReq
<1>2. CASE GetReqSleep(r)
  <2>1. /\ fc'.req = fc.req /\ SameLists(fc, fc') /\ fc'.connected = fc.connected
        /\ fc'.reserved = fc.reserved /\ fc'.blocked = fc.blocked /\ fc.blocked
    BY <1>0, <1>2 DEF GetReqSleep, Conn, SameLists
  <2>2. Shared' BY <1>2, <2>1 DEF Inv, Shared, SameLists, GetReqSleep
  <2>3. OthersRest /\ task' = task BY <1>2, OthersRestUnchanged DEF GetReqSleep
  <2> QED BY <2>1, <2>2, <2>3, CallerWaits
<1>3. CASE GetReqKilled(r) BY <1>3, GetReqFailStep DEF GetReqKilled
<1>4. CASE GetReqRefused(r) BY <1>4, GetReqFailStep DEF GetReqRefused, LetIn
<1>5. CASE GetReqNoMemory(r)
  <2>1. UNCHANGED <<fc, thread, abort>> /\ Goto(r, "get_reserved") /\ task[r] = "get_wait"
    BY <1>5 DEF GetReqNoMemory, LetIn
  <2>2. Shared' BY <2>1 DEF Inv, Shared
  <2>3. OthersRest /\ SameLists(fc, fc') BY <2>1, OthersRestUnchanged DEF SameLists
  <2>4. "get_reserved" \in Before \ {"ready"} /\ "get_wait" \in Before \ {"ready"} BY DEF Before
  <2> QED BY <2>1, <2>2, <2>3, <2>4, CallerWaits
<1>6. CASE Signal(r)
  <2>1. UNCHANGED <<fc, thread, abort, task>> BY <1>6 DEF Signal
  <2>2. Shared' BY <2>1 DEF Inv, Shared
  <2>3. OthersRest /\ SameLists(fc, fc') BY <2>1, OthersRestUnchanged DEF SameLists
  <2> QED BY <2>1, <2>2, <2>3, CallerWaits
<1> QED BY <1>1, <1>2, <1>3, <1>4, <1>5, <1>6

\* A caller is given a request of its own.
Allocated(r) ==
  /\ task[r] \in {"start", "get_wait", "get_reserved"} /\ Goto(r, "ready")
  /\ UNCHANGED <<thread, abort>>
  /\ fc'.req[r].count = 1
  /\ fc'.req[r].state = fc.req[r].state /\ fc'.req[r].background = fc.req[r].background
  /\ fc'.req[r].aborted = fc.req[r].aborted /\ fc'.req[r].locked = fc.req[r].locked
  /\ fc'.req[r].interrupted = fc.req[r].interrupted
  /\ fc'.req[r].intr_unique = fc.req[r].intr_unique /\ fc'.req[r].error = fc.req[r].error
  /\ fc'.req[r].end = fc.req[r].end /\ fc'.req[r].ended = fc.req[r].ended
  /\ fc'.req[r].asleep = fc.req[r].asleep

LEMMA AllocatedRequest ==
  ASSUME Inv, NEW r \in Requests, Allocated(r), SameLists(fc, fc')
  PROVE  PerRequest(r)' /\ Final(r) /\ Turns(r)
<1>1. PerRequest(r) /\ TypeOK BY DEF Inv, TypeInv
<1>2. /\ Worker(r)' = Worker(r) /\ OneWorker(r)' /\ Aborter(r)' = Aborter(r)
      /\ abort' = abort
  BY OthersRestUnchanged, RestKeeps DEF Allocated
<1>3. task'[r] = "ready" /\ task[r] \in Before \ {"ready"}
  BY <1>1, GotoAlone DEF Allocated, Before
<1>4. Placed(r)' /\ Told(r)' /\ Worked(r)'
  BY <1>1, <1>2, <1>3 DEF Allocated, SameLists, PerRequest, Placed, Told, Worked, Before
<1>5. Called(r)' BY <1>1, <1>2, <1>3 DEF Allocated, PerRequest, Called, Before, Waits
<1>6. Callback(r)' BY <1>1, <1>2, <1>3 DEF Allocated, PerRequest, Callback, Owing, Before
<1>7. Taken(r)' /\ Sleeps(r)'
  BY <1>1, <1>2, <1>3 DEF Allocated, SameLists, PerRequest, Taken, Sleeps, Before
<1>8. Held(r)'
  <2>1. fc.req[r].state = "INIT" /\ ~ fc.req[r].background
    BY <1>1, <1>3 DEF PerRequest, Called
  <2>2. Worker(r).pc = "idle"
    BY <1>1, <2>1, WorkerPc DEF PerRequest, Worked, Told
  <2> QED BY <1>1, <1>2, <1>3, <2>1, <2>2
          DEF Allocated, PerRequest, Held, OnDevice, CallerHolds, Taken, One, Before
<1>9. Final(r) /\ Stays(r)
  BY DEF Allocated, SameLists, Stays, Final, Status, Outcome, Over, Ended
<1> QED BY <1>2, <1>4, <1>5, <1>6, <1>7, <1>8, <1>9 DEF PerRequest, Turns

LEMMA AllocStep ==
  ASSUME Inv, TypeInv', NEW r \in Requests, NEW b, Goto(r, "ready"),
         task[r] \in {"start", "get_wait"}, UNCHANGED <<thread, abort>>,
         fuse_request_alloc(r, b)
  PROVE  Result
<1>1. fc \in Conn /\ fc.req[r] \in Req /\ TypeOK BY ConnFields DEF Inv, TypeInv, TypeOK
<1>2. OnlyReq(fc, fc', r) /\ Calm(fc, fc')
  BY <1>1 DEF fuse_request_alloc, Conn, OnlyReq, SameLists, Calm
<1>3. fc'.req[r] = [fc.req[r] EXCEPT !.count = 1, !.waiting = b]
  BY <1>1 DEF fuse_request_alloc, Conn
<1>4. Allocated(r) /\ fc'.req[r].stolen = fc.req[r].stolen BY <1>1, <1>3 DEF Allocated, Req
<1>5. PerRequest(r)' /\ Final(r) /\ Turns(r) BY <1>2, <1>4, AllocatedRequest DEF OnlyReq
<1>6. CallerAlone(r) BY <1>1, OthersRestUnchanged, GotoAlone DEF CallerAlone
<1> QED BY <1>2, <1>4, <1>5, <1>6, OnlyReqStep

\* The request reserved for the file is taken and given back.
LEMMA GetReservedStep ==
  ASSUME Inv, TypeInv', NEW r \in Requests, get_reserved_req(r)
  PROVE  Result
<1>1. fc \in Conn /\ fc.req[r] \in Req /\ TypeOK BY ConnFields DEF Inv, TypeInv, TypeOK
<1>2. /\ OnlyReq(fc, fc', r) /\ fc'.connected = fc.connected /\ fc'.blocked = fc.blocked
      /\ fc'.blocked_waitq = fc.blocked_waitq /\ ~ fc'.reserved /\ fc.reserved
  BY <1>1 DEF get_reserved_req, Conn, OnlyReq, SameLists
<1>3. fc'.req[r] = [fc.req[r] EXCEPT !.stolen = TRUE, !.count = 1, !.waiting = TRUE]
  BY <1>1 DEF get_reserved_req, Conn
<1>4. Allocated(r) /\ fc'.req[r].stolen
  <2>1. task[r] = "get_reserved" /\ Goto(r, "ready") /\ UNCHANGED <<thread, abort>>
    BY DEF get_reserved_req
  <2> QED BY <2>1, <1>1, <1>3 DEF Allocated, Req
<1>5. PerRequest(r)' /\ Final(r) /\ Turns(r) BY <1>2, <1>4, AllocatedRequest DEF OnlyReq
<1>6. CallerAlone(r) BY <1>1, OthersRestUnchanged, GotoAlone DEF CallerAlone, get_reserved_req
<1>7. Good(fc') /\ \A s \in Requests : s # r => Left(fc, fc', s)
  BY <1>2, InvGood, OnlyReqEffect DEF TypeInv, TypeOK
<1>8. \A s \in Requests : s # r => Kept(s) BY <1>6, <1>7, RestKeeps DEF CallerAlone
<1>9. \A s \in Requests : s # r => PerRequest(s)' /\ Stays(s) /\ Final(s) BY <1>8, KeptStep
<1>10. \A s \in Requests : s # r => ~ fc'.req[s].stolen
  BY <1>2 DEF Inv, Shared, OnlyReq
<1>11. Shared'
  BY <1>2, <1>4, <1>7, <1>10 DEF Inv, Shared, Good, get_reserved_req
<1>12. Inv' BY <1>5, <1>9, <1>11 DEF Inv
<1>13. Serves BY <1>2, <1>5, <1>9 DEF Serves
<1> QED BY <1>5, <1>9, <1>12, <1>13 DEF Result

LEMMA PutReservedStep ==
  ASSUME Inv, TypeInv', NEW r \in Requests, put_reserved_req(r)
  PROVE  Result
<1>1. fc \in Conn /\ fc.req[r] \in Req /\ PerRequest(r)
  BY ConnFields DEF Inv, TypeInv, TypeOK
<1>2. /\ OnlyReq(fc, fc', r) /\ fc'.connected = fc.connected /\ fc'.blocked = fc.blocked
      /\ fc'.blocked_waitq = fc.blocked_waitq /\ fc'.reserved /\ fc.req[r].stolen
  BY <1>1 DEF put_reserved_req, Conn, OnlyReq, SameLists
<1>3. fc'.req[r] = [fc.req[r] EXCEPT !.stolen = FALSE]
  BY <1>1 DEF put_reserved_req, Conn
<1>4. OthersRest /\ task' = task BY OthersRestUnchanged DEF put_reserved_req
<1>5. /\ Worker(r)' = Worker(r) /\ OneWorker(r)' /\ Aborter(r)' = Aborter(r)
      /\ abort' = abort
  BY <1>4, RestKeeps
<1> DEFINE q == fc'.req[r]
<1>6. /\ q.state = fc.req[r].state /\ q.background = fc.req[r].background
      /\ q.aborted = fc.req[r].aborted /\ q.locked = fc.req[r].locked
      /\ q.interrupted = fc.req[r].interrupted /\ q.count = fc.req[r].count
      /\ q.intr_unique = fc.req[r].intr_unique /\ q.error = fc.req[r].error
      /\ q.end = fc.req[r].end /\ q.ended = fc.req[r].ended
      /\ q.asleep = fc.req[r].asleep /\ ~ q.stolen
  BY <1>1, <1>3 DEF Req
<1>7. Placed(r)' /\ Told(r)' /\ Worked(r)' /\ Called(r)'
  BY <1>1, <1>2, <1>4, <1>5, <1>6
  DEF OnlyReq, SameLists, PerRequest, Placed, Told, Worked, Called
<1>8. Taken(r)' /\ Sleeps(r)'
  BY <1>1, <1>2, <1>4, <1>5, <1>6 DEF OnlyReq, SameLists, PerRequest, Taken, Sleeps
<1>9. Held(r)' BY <1>1, <1>4, <1>5, <1>6 DEF PerRequest, Held, OnDevice, CallerHolds
<1>10. Callback(r)' BY <1>1, <1>4, <1>5, <1>6 DEF PerRequest, Callback, Owing
<1>11. Final(r) /\ Stays(r)
  BY <1>2, <1>6 DEF OnlyReq, SameLists, Stays, Final, Status, Outcome, Over, Ended
<1>12. PerRequest(r)' BY <1>5, <1>7, <1>8, <1>9, <1>10 DEF PerRequest
<1>13. Good(fc') /\ \A s \in Requests : s # r => Left(fc, fc', s)
  BY <1>2, InvGood, OnlyReqEffect DEF TypeInv, TypeOK
<1>14. \A s \in Requests : s # r => Kept(s) BY <1>4, <1>13, RestKeeps
<1>15. \A s \in Requests : s # r => PerRequest(s)' /\ Stays(s) /\ Final(s) BY <1>14, KeptStep
<1>16. \A s \in Requests : ~ fc'.req[s].stolen
  BY <1>2, <1>6 DEF Inv, Shared, OnlyReq
<1>17. Shared'
  BY <1>2, <1>13, <1>16 DEF Inv, Shared, Good, put_reserved_req
<1>18. Inv' BY <1>12, <1>15, <1>17 DEF Inv
<1>19. Serves BY <1>11, <1>15, <1>2 DEF Serves
<1> QED BY <1>11, <1>15, <1>18, <1>19 DEF Result

-----------------------------------------------------------------------------
(***************************************************************************)
(* Sending a request.                                                      *)
(***************************************************************************)
\* Before it is sent a request is idle.
LEMMA Unsent ==
  ASSUME Inv, NEW r \in Requests, task[r] \in Before
  PROVE  /\ fc.req[r].state = "INIT" /\ ~ fc.req[r].background
         /\ fc.req[r].error = "none" /\ ~ fc.req[r].aborted /\ ~ fc.req[r].locked
         /\ fc.req[r].ended = 0
         /\ ~ Member(fc.pending, r) /\ ~ Member(fc.bg_queue, r)
         /\ r \notin fc.io /\ r \notin fc.processing
         /\ Worker(r).pc = "idle" /\ ~ Worker(r).end /\ Aborter(r) = "no"
         /\ Status(r) = "new" /\ Outcome(r) = "none"
<1>1. PerRequest(r) BY DEF Inv
<1>2. fc.req[r].state = "INIT" /\ ~ fc.req[r].background
  BY <1>1 DEF PerRequest, Called
<1>3. fc.req[r].error = "none" /\ ~ fc.req[r].aborted
  BY <1>1, <1>2 DEF PerRequest, Told, Before
<1>4. Worker(r).pc = "idle" /\ ~ fc.req[r].locked /\ ~ Worker(r).end
  BY <1>1, <1>2, <1>3, WorkerPc DEF PerRequest, Worked
<1>5. Aborter(r) = "no" BY <1>1, <1>2 DEF PerRequest, Taken, Aborter
<1>6. /\ ~ Member(fc.pending, r) /\ ~ Member(fc.bg_queue, r)
      /\ r \notin fc.io /\ r \notin fc.processing
  BY <1>1, <1>2 DEF PerRequest, Placed
<1>7. Status(r) = "new" /\ Outcome(r) = "none"
  BY <1>2, <1>3, <1>6 DEF Status, Outcome, Over, Ended
<1>8. fc.req[r].ended = 0 BY <1>1, <1>2 DEF PerRequest, Callback, Before
<1> QED BY <1>2, <1>3, <1>4, <1>5, <1>6, <1>7, <1>8

LEMMA RequestSendStep ==
  ASSUME Inv, TypeInv', NEW r \in Requests, RequestSend(r)
  PROVE  Result
<1> DEFINE u == fuse_get_unique(fc.reqctr, 1)
           c == [fc EXCEPT !.reqctr = u, !.req[r].unique = u]
           d == queue_request(c, r)
           n == d.req[r].count + 1
           q == [d.req[r] EXCEPT !.count = n, !.asleep = TRUE]
<1>0. /\ fc \in Conn /\ fc.req[r] \in Req /\ TypeOK /\ Good(fc) /\ PerRequest(r)
      /\ fc.connected /\ task[r] = "ready" /\ r \in Sync
  BY InvGood, ConnFields DEF Inv, TypeInv, TypeOK, RequestSend
<1>1. u \in 0 .. UniqueMax
  <2>1. fc.reqctr \in 0 .. UniqueMax BY <1>0, ConnFields
  <2>2. u \in 1 .. UniqueMax BY <2>1, UniqueType
  <2> QED BY <2>2, BoundAssumption
<1> HIDE DEF u
<1>2. /\ c \in Conn /\ SameLists(fc, c) /\ c.connected = fc.connected
      /\ c.reserved = fc.reserved /\ c.blocked = fc.blocked
      /\ c.blocked_waitq = fc.blocked_waitq
      /\ \A s \in Requests : s # r => c.req[s] = fc.req[s]
      /\ c.req[r].state = fc.req[r].state /\ SameFields(fc.req[r], c.req[r])
  <2>1. [fc.req[r] EXCEPT !.unique = u] \in Req BY <1>0, <1>1 DEF Req
  <2>2. c = [fc EXCEPT !.reqctr = u, !.req[r] = [fc.req[r] EXCEPT !.unique = u]] OBVIOUS
  <2>3. c \in Conn BY <2>1, <2>2, <1>0, <1>1 DEF Conn
  <2>4. /\ SameLists(fc, c) /\ c.connected = fc.connected /\ c.reserved = fc.reserved
        /\ c.blocked = fc.blocked /\ c.blocked_waitq = fc.blocked_waitq
    BY <1>0 DEF Conn, SameLists
  <2>5. fc.req \in [Requests -> Req] BY <1>0, ConnFields
  <2>6. c.req = [fc.req EXCEPT ![r] = [fc.req[r] EXCEPT !.unique = u]] BY <2>2, <1>0 DEF Conn
  <2> HIDE DEF c
  <2>7. \A s \in Requests : s # r => c.req[s] = fc.req[s] BY <2>5, <2>6
  <2>8. c.req[r] = [fc.req[r] EXCEPT !.unique = u] BY <2>5, <2>6
  <2>9. c.req[r].state = fc.req[r].state /\ SameFields(fc.req[r], c.req[r])
    BY <2>8, <1>0 DEF Req, SameFields
  <2> QED BY <2>3, <2>4, <2>7, <2>9
<1>a. fc' = [queue_request(c, r) EXCEPT !.req[r].count = @ + 1, !.req[r].asleep = TRUE]
  BY DEF RequestSend, u
<1> HIDE DEF c
<1>b. fc' = [d EXCEPT !.req[r].count = @ + 1, !.req[r].asleep = TRUE] BY <1>a
<1>4. Good(c) /\ Calm(fc, c) /\ \A s \in Requests : s # r => Same(fc, c, s)
  BY <1>0, <1>2 DEF Good, Calm, Same, SameLists
<1>5. /\ Good(d) /\ Calm(c, d)
      /\ \A s \in Requests : s # r => Same(c, d, s)
      /\ Member(d.pending, r) /\ d.bg_queue = c.bg_queue /\ d.io = c.io
      /\ d.processing = c.processing /\ d.interrupts = c.interrupts
      /\ d.req[r].state = "PENDING" /\ d.req[r].waiting
      /\ SameFields(c.req[r], d.req[r])
  BY <1>0, <1>2, <1>4, Unsent, QueueRequestEffect DEF Before, SameLists
<1> HIDE DEF d
<1>3. fc' = [d EXCEPT !.req[r] = q] BY <1>b
<1>6. d.req[r] \in Req BY <1>5, ConnFields DEF Good
<1>7. q \in Req BY <1>6, ReqCount, ReqCountAsleep
<1>8. /\ fc'.req[r] = q /\ SameLists(d, fc') /\ Good(fc') /\ Calm(d, fc')
      /\ \A s \in Requests : s # r => Same(d, fc', s)
  BY <1>3, <1>5, <1>7, ReqEffect DEF SameLists
<1>9. /\ fc'.req[r].state = "PENDING" /\ fc'.req[r].count = fc.req[r].count + 1
      /\ fc'.req[r].asleep /\ fc'.req[r].background = fc.req[r].background
      /\ fc'.req[r].aborted = fc.req[r].aborted /\ fc'.req[r].locked = fc.req[r].locked
      /\ fc'.req[r].error = fc.req[r].error
      /\ fc'.req[r].end = fc.req[r].end /\ fc'.req[r].ended = fc.req[r].ended
      /\ fc'.req[r].stolen = fc.req[r].stolen
  BY <1>2, <1>5, <1>6, <1>8 DEF SameFields, Req
<1>10. /\ Member(fc'.pending, r) /\ ~ Member(fc'.bg_queue, r)
       /\ r \notin fc'.io /\ r \notin fc'.processing
  BY <1>0, <1>2, <1>5, <1>8, Unsent DEF SameLists, Before
<1>11. Calm(fc, fc') BY <1>4, <1>5, <1>8, CalmTrans
<1>12. \A s \in Requests : s # r => Left(fc, fc', s)
  BY <1>4, <1>5, <1>8 DEF Left, Same
<1>13. CallerAlone(r) /\ task'[r] \in Waits /\ task'[r] # "wait_unlock"
  <2> DEFINE pc == IF ~ fc.no_interrupt THEN "wait_intr"
                   ELSE IF r \in Forced THEN "wait_forced" ELSE "wait_kill"
  <2>1. Goto(r, pc) /\ pc \in Waits /\ pc # "wait_unlock" BY DEF RequestSend, Waits
  <2> HIDE DEF pc
  <2>2. task'[r] = pc /\ \A s \in Requests : s # r => task'[s] = task[s]
    BY <2>1, <1>0, GotoAlone
  <2>3. UNCHANGED <<thread, abort>> BY DEF RequestSend
  <2> QED BY <2>1, <2>2, <2>3, OthersRestUnchanged DEF CallerAlone
<1>14. /\ Worker(r)' = Worker(r) /\ OneWorker(r)' /\ Aborter(r)' = Aborter(r)
       /\ abort' = abort
  BY <1>13, RestKeeps DEF CallerAlone
<1> DEFINE p == fc.req[r]
<1>15. /\ p.state = "INIT" /\ ~ p.background /\ p.error = "none" /\ ~ p.aborted
       /\ ~ p.locked /\ p.ended = 0 /\ Worker(r).pc = "idle" /\ ~ Worker(r).end
       /\ Aborter(r) = "no" /\ Status(r) = "new" /\ Outcome(r) = "none"
  BY <1>0, Unsent DEF Before
<1>16. PerRequest(r)'
  <2>1. Placed(r)' BY <1>9, <1>10, <1>15 DEF Placed
  <2>2. Told(r)' BY <1>9, <1>15 DEF Told
  <2>3. Worked(r)' BY <1>9, <1>14, <1>15 DEF Worked
  <2>4. Called(r)' BY <1>0, <1>9, <1>13, <1>14, <1>15 DEF Called, Waits, Before
  <2>5. Held(r)'
    <3>1. p.count = 1
      BY <1>0, <1>15 DEF PerRequest, Held, OnDevice, CallerHolds, One
    <3>2. CallerHolds(r)' BY <1>0, <1>13 DEF CallerHolds, Waits
    <3>3. OnDevice(r)' BY <1>9, <1>15 DEF OnDevice
    <3> QED BY <3>1, <3>2, <3>3, <1>9, <1>14, <1>15 DEF Held, One
  <2>6. Callback(r)'
    BY <1>0, <1>9, <1>13, <1>14, <1>15 DEF PerRequest, Callback, Owing, Waits
  <2>7. Taken(r)' /\ Sleeps(r)' BY <1>0, <1>9, <1>14, <1>15 DEF Taken, Sleeps
  <2> QED BY <1>14, <2>1, <2>2, <2>3, <2>4, <2>5, <2>6, <2>7 DEF PerRequest
<1>17. Final(r) BY <1>15 DEF Final, Ended
<1>18. Turns(r)
  <2>1. Status(r)' = "queued" /\ Outcome(r)' = "none"
    BY <1>9, <1>15 DEF Status, Outcome, Over, Ended
  <2> QED BY <2>1, <1>0, <1>15 DEF Turns, Goes
<1> QED BY <1>8, <1>9, <1>11, <1>12, <1>13, <1>16, <1>17, <1>18, CallerStep1

\* The record of one request changes, on the lists it is on.
Rewritten(r, q) ==
  /\ fc' = [fc EXCEPT !.req[r] = q] /\ q \in Req /\ q.stolen = fc.req[r].stolen

LEMMA RewrittenEffect ==
  ASSUME Inv, NEW r \in Requests, NEW q, Rewritten(r, q)
  PROVE  /\ fc'.req[r] = q /\ OnlyReq(fc, fc', r) /\ Calm(fc, fc')
         /\ SameLists(fc, fc') /\ Good(fc')
BY InvGood, ReqEffect DEF Rewritten, OnlyReq, SameLists, Same

\* What a caller reads of its own request, the abort and the thread at work.
LEMMA CallerView ==
  ASSUME Inv, NEW r \in Requests, CallerAlone(r)
  PROVE  /\ Worker(r)' = Worker(r) /\ OneWorker(r)' /\ Aborter(r)' = Aborter(r)
         /\ abort' = abort
         /\ Worker(r).pc \in {"idle", "read", "write", "end"}
         /\ PerRequest(r) /\ fc \in Conn /\ fc.req[r] \in Req /\ TypeOK /\ Good(fc)
BY RestKeeps, WorkerPc, InvGood, ConnFields DEF CallerAlone, Inv, TypeInv, TypeOK

LEMMA SendRefusedStep ==
  ASSUME Inv, TypeInv', NEW r \in Requests, RequestSendRefused(r)
  PROVE  Result
<1> DEFINE p == fc.req[r]
           q == [p EXCEPT !.error = "ENOTCONN"]
<1>1. TypeOK /\ p \in Req BY ConnFields DEF Inv, TypeInv, TypeOK
<1>2. /\ task[r] = "ready" /\ r \in Sync /\ ~ fc.connected
      /\ Goto(r, "returned") /\ UNCHANGED <<thread, abort>>
  BY DEF RequestSendRefused
<1>3. CallerAlone(r) /\ task'[r] = "returned"
  BY <1>1, <1>2, GotoAlone, OthersRestUnchanged DEF CallerAlone
<1>4. Rewritten(r, q)
  <2>1. fc' = [fc EXCEPT !.req[r] = q] BY DEF RequestSendRefused
  <2>2. q \in Req /\ q.stolen = p.stolen BY <1>1, Errors DEF Req
  <2> QED BY <2>1, <2>2 DEF Rewritten
<1>5. fc'.req[r] = q /\ OnlyReq(fc, fc', r) /\ Calm(fc, fc') /\ SameLists(fc, fc')
  BY <1>4, RewrittenEffect
<1>6. /\ q.state = p.state /\ q.background = p.background /\ q.aborted = p.aborted
      /\ q.locked = p.locked /\ q.interrupted = p.interrupted /\ q.count = p.count
      /\ q.intr_unique = p.intr_unique /\ q.error = "ENOTCONN" /\ q.end = p.end
      /\ q.ended = p.ended /\ q.asleep = p.asleep /\ q.stolen = p.stolen
  BY <1>1 DEF Req
<1> HIDE DEF q
<1>7. /\ Worker(r)' = Worker(r) /\ OneWorker(r)' /\ Aborter(r)' = Aborter(r)
      /\ abort' = abort /\ PerRequest(r)
  BY <1>3, CallerView
<1>8. /\ p.state = "INIT" /\ ~ p.background /\ p.error = "none" /\ ~ p.aborted
      /\ ~ p.locked /\ p.ended = 0 /\ Worker(r).pc = "idle" /\ ~ Worker(r).end
      /\ Aborter(r) = "no" /\ Status(r) = "new" /\ Outcome(r) = "none"
  BY <1>2, Unsent DEF Before
<1>9. Placed(r)' /\ Told(r)' /\ Worked(r)'
  BY <1>2, <1>3, <1>5, <1>6, <1>7, <1>8 DEF SameLists, PerRequest, Placed, Told, Worked
<1>10. Called(r)' BY <1>2, <1>3, <1>5, <1>6, <1>7, <1>8 DEF PerRequest, Called, Before, Waits
<1>11. Held(r)'
  BY <1>2, <1>3, <1>5, <1>6, <1>7, <1>8 DEF PerRequest, Held, OnDevice, CallerHolds
<1>12. Callback(r)' /\ Taken(r)' /\ Sleeps(r)'
  BY <1>2, <1>3, <1>5, <1>6, <1>7, <1>8
  DEF SameLists, PerRequest, Callback, Owing, Taken, Sleeps
<1>13. PerRequest(r)' BY <1>7, <1>9, <1>10, <1>11, <1>12 DEF PerRequest
<1>14. Final(r) BY <1>8 DEF Final, Ended
<1>15. Turns(r)
  <2>0. ~ Member(fc.bg_queue, r) BY <1>2, Unsent DEF Before
  <2>1. Status(r)' = "over" /\ Outcome(r)' = "ENOTCONN"
    BY <2>0, <1>5, <1>6 DEF SameLists, Status, Outcome, Over, Ended
  <2> QED BY <2>1, <1>2, <1>8 DEF Turns, Goes
<1> QED BY <1>3, <1>5, <1>6, <1>13, <1>14, <1>15, OnlyReqStep

\* A caller in the wait for its answer.
Waiting == {"wait_intr", "wait_kill", "wait_forced"}

LEMMA WaitingFacts ==
  ASSUME Inv, NEW r \in Requests, task[r] \in Waits
  PROVE  /\ r \in Sync /\ r \notin Background /\ r \notin NotifyReply
         /\ fc.req[r].state # "INIT"
         /\ fc.req[r].error \notin {"EINTR", "ENOTCONN"} \/ fc.req[r].state = "FINISHED"
         /\ fc.req[r].ended = 0 /\ ~ fc.req[r].end
BY KindAssumption DEF Inv, PerRequest, Called, Told, Callback, Owing, Waits, Before, One

LEMMA LeaveWaitStep ==
  ASSUME Inv, TypeInv', NEW r \in Requests, task[r] \in Waiting, Ended(r),
         LeaveWait(r), UNCHANGED <<thread, abort>>
  PROVE  Result
<1> DEFINE p == fc.req[r]
           copying == p.aborted /\ p.locked
           q == [p EXCEPT !.asleep = copying]
           pc == IF copying THEN "wait_unlock" ELSE "returned"
<1>1. TypeOK /\ p \in Req BY ConnFields DEF Inv, TypeInv, TypeOK
<1>2. Goto(r, pc) BY DEF LeaveWait
<1>3. CallerAlone(r) /\ task'[r] = pc
  BY <1>1, <1>2, GotoAlone, OthersRestUnchanged DEF CallerAlone
<1>4. Rewritten(r, q)
  <2>1. fc' = [fc EXCEPT !.req[r] = q] BY DEF LeaveWait
  <2>2. copying \in BOOLEAN BY Zenon
  <2>3. PICK b \in BOOLEAN : b = copying BY <2>2, Zenon
  <2> DEFINE q1 == [p EXCEPT !.asleep = b]
  <2>4. q1 \in Req /\ q1.stolen = p.stolen BY <1>1 DEF Req
  <2>5. q1 = q BY <2>3
  <2> HIDE DEF q, q1
  <2> QED BY <2>1, <2>4, <2>5 DEF Rewritten
<1>5. fc'.req[r] = q /\ OnlyReq(fc, fc', r) /\ Calm(fc, fc') /\ SameLists(fc, fc')
  BY <1>4, RewrittenEffect
<1>6. /\ q.state = p.state /\ q.background = p.background /\ q.aborted = p.aborted
      /\ q.locked = p.locked /\ q.interrupted = p.interrupted /\ q.count = p.count
      /\ q.intr_unique = p.intr_unique /\ q.error = p.error /\ q.end = p.end
      /\ q.ended = p.ended /\ (q.asleep <=> copying) /\ q.stolen = p.stolen
  BY <1>1 DEF Req
<1> HIDE DEF q
<1>7. /\ Worker(r)' = Worker(r) /\ OneWorker(r)' /\ Aborter(r)' = Aborter(r)
      /\ abort' = abort /\ PerRequest(r)
  BY <1>3, CallerView
<1>8. r \in Sync /\ p.state = "FINISHED" /\ p.ended = 0 /\ task[r] \in Waits
  BY WaitingFacts DEF Ended, Waits, Waiting
<1>9. p.locked => p.aborted /\ Worker(r).pc \in {"read", "write"}
  BY <1>7, <1>8 DEF PerRequest, Worked
<1>10. task'[r] \in {"wait_unlock", "returned"}
       /\ (task'[r] = "wait_unlock" <=> copying)
  BY <1>3
<1> HIDE DEF pc
<1>11. Placed(r)' /\ Told(r)' /\ Worked(r)'
  BY <1>5, <1>6, <1>7, <1>8, <1>10 DEF SameLists, PerRequest, Placed, Told, Worked
<1>12. Called(r)'
  BY <1>5, <1>6, <1>7, <1>8, <1>9, <1>10 DEF PerRequest, Called, Before, Waits
<1>13. Held(r)'
  <2>1. CallerHolds(r) /\ CallerHolds(r)' BY <1>8, <1>10 DEF CallerHolds, Waits
  <2>2. OnDevice(r)' <=> OnDevice(r) BY <1>5, <1>6, <1>7 DEF OnDevice
  <2>3. fc'.req[r].count = fc.req[r].count BY <1>5, <1>6
  <2>4. Held(r) BY <1>7 DEF PerRequest
  <2> QED BY <2>1, <2>2, <2>3, <2>4, <1>7 DEF Held, One
<1>14. Callback(r)' /\ Taken(r)'
  BY <1>5, <1>6, <1>7, <1>8, <1>10 DEF PerRequest, Callback, Owing, Taken, Waits
<1>15. Sleeps(r)'
  BY <1>5, <1>6, <1>7, <1>8, <1>9 DEF PerRequest, Sleeps
<1>16. PerRequest(r)' BY <1>7, <1>11, <1>12, <1>13, <1>14, <1>15 DEF PerRequest
<1>17. Final(r) BY <1>5, <1>6 DEF Final, Ended
<1>18. Turns(r)
  BY <1>5, <1>6 DEF Turns, Stays, SameLists, Status, Outcome, Over, Ended
<1> QED BY <1>3, <1>5, <1>6, <1>16, <1>17, <1>18, OnlyReqStep

\* A signal ends the first wait: the caller goes on waiting, for less.
LEMMA InterruptedStep ==
  ASSUME Inv, TypeInv', NEW r \in Requests, task[r] = "wait_intr", ~ Ended(r),
         fc' = Interrupted(fc, r), NEW pc \in {"wait_forced", "wait_kill"}, Goto(r, pc),
         UNCHANGED <<thread, abort>>
  PROVE  Result
<1> DEFINE p == fc.req[r]
           d == Interrupted(fc, r)
           q == d.req[r]
<1>1. TypeOK /\ p \in Req /\ Good(fc) BY InvGood, ConnFields DEF Inv, TypeInv, TypeOK
<1>2. CallerAlone(r) /\ task'[r] = pc
  BY <1>1, GotoAlone, OthersRestUnchanged DEF CallerAlone
<1>3. /\ Good(d) /\ Calm(fc, d)
      /\ q = [p EXCEPT !.interrupted = TRUE, !.asleep = TRUE]
      /\ d.pending = fc.pending /\ d.bg_queue = fc.bg_queue /\ d.io = fc.io
      /\ d.processing = fc.processing
      /\ p.state = "SENT" => Member(d.interrupts, r)
      /\ \A s \in Requests : s # r => Same(fc, d, s)
  BY <1>1, InterruptedEffect
<1>4. d = fc' OBVIOUS
<1> HIDE DEF d
<1>5. /\ q.state = p.state /\ q.background = p.background /\ q.aborted = p.aborted
      /\ q.locked = p.locked /\ q.count = p.count
      /\ q.intr_unique = p.intr_unique /\ q.error = p.error /\ q.end = p.end
      /\ q.ended = p.ended /\ q.asleep /\ q.stolen = p.stolen
  BY <1>1, <1>3 DEF Req
<1>6. fc'.req[r] = q /\ q = fc'.req[r] BY <1>4
<1> HIDE DEF q
<1>7. /\ Worker(r)' = Worker(r) /\ OneWorker(r)' /\ Aborter(r)' = Aborter(r)
      /\ abort' = abort /\ PerRequest(r)
  BY <1>2, CallerView
<1>8. r \in Sync /\ p.state # "FINISHED" BY WaitingFacts DEF Ended, Waits
<1>9. /\ fc'.pending = fc.pending /\ fc'.bg_queue = fc.bg_queue /\ fc'.io = fc.io
      /\ fc'.processing = fc.processing
  BY <1>3, <1>4
<1>10. Placed(r)' BY <1>5, <1>6, <1>7, <1>9 DEF PerRequest, Placed
<1>11. Told(r)' /\ Worked(r)' BY <1>2, <1>5, <1>6, <1>7, <1>8 DEF PerRequest, Told, Worked
<1>12. Called(r)' BY <1>2, <1>5, <1>6, <1>7, <1>8 DEF PerRequest, Called, Before, Waits
<1>13. Held(r)'
  <2>1. CallerHolds(r) /\ CallerHolds(r)' BY <1>2, <1>8 DEF CallerHolds
  <2>2. OnDevice(r)' <=> OnDevice(r) BY <1>5, <1>6, <1>7 DEF OnDevice
  <2>3. fc'.req[r].count = fc.req[r].count BY <1>5, <1>6
  <2>4. Held(r) BY <1>7 DEF PerRequest
  <2> QED BY <2>1, <2>2, <2>3, <2>4, <1>7 DEF Held, One
<1>14. Callback(r)' /\ Taken(r)'
  BY <1>2, <1>5, <1>6, <1>7, <1>8 DEF PerRequest, Callback, Owing, Taken
<1>15. Sleeps(r)' BY <1>3, <1>4, <1>5, <1>6, <1>8 DEF Sleeps
<1>16. PerRequest(r)' BY <1>7, <1>10, <1>11, <1>12, <1>13, <1>14, <1>15 DEF PerRequest
<1>17. Final(r) BY <1>8 DEF Final, Ended
<1>18. Turns(r)
  BY <1>5, <1>6, <1>9 DEF Turns, Stays, Status, Outcome, Over, Ended
<1>19. /\ Good(fc') /\ Calm(fc, fc') /\ fc'.req[r].stolen = fc.req[r].stolen
       /\ \A s \in Requests : s # r => Left(fc, fc', s)
  BY <1>3, <1>4, <1>5, <1>6 DEF Left
<1> QED BY <1>2, <1>16, <1>17, <1>18, <1>19, CallerStep1

LEMMA WakeIntrStep ==
  ASSUME Inv, TypeInv', NEW r \in Requests, WakeIntr(r)
  PROVE  Result
<1>1. UNCHANGED <<thread, abort>> /\ task[r] = "wait_intr" BY DEF WakeIntr
<1>2. CASE Ended(r) BY <1>1, <1>2, LeaveWaitStep DEF WakeIntr, Waiting
<1>3. CASE ~ Ended(r)
  <2> DEFINE pc == IF r \in Forced THEN "wait_forced" ELSE "wait_kill"
  <2>1. fc' = Interrupted(fc, r) /\ Goto(r, pc) BY <1>3 DEF WakeIntr
  <2>2. pc \in {"wait_forced", "wait_kill"} OBVIOUS
  <2> HIDE DEF pc
  <2> QED BY <1>1, <1>3, <2>1, <2>2, InterruptedStep
<1> QED BY <1>2, <1>3

\* A fatal signal ends the second wait.  The daemon has the request: wait on.
LEMMA WaitOutStep ==
  ASSUME Inv, TypeInv', NEW r \in Requests, task[r] = "wait_kill", ~ Ended(r),
         WaitOut(r), UNCHANGED <<thread, abort>>
  PROVE  Result
<1> DEFINE p == fc.req[r]
           q == [p EXCEPT !.asleep = TRUE]
<1>1. TypeOK /\ p \in Req BY ConnFields DEF Inv, TypeInv, TypeOK
<1>2. CallerAlone(r) /\ task'[r] = "wait_forced"
  BY <1>1, GotoAlone, OthersRestUnchanged DEF CallerAlone, WaitOut
<1>3. Rewritten(r, q)
  <2>1. fc' = [fc EXCEPT !.req[r] = q] BY DEF WaitOut
  <2>2. q \in Req /\ q.stolen = p.stolen BY <1>1 DEF Req
  <2> QED BY <2>1, <2>2 DEF Rewritten
<1>4. fc'.req[r] = q /\ OnlyReq(fc, fc', r) /\ Calm(fc, fc') /\ SameLists(fc, fc')
  BY <1>3, RewrittenEffect
<1>5. /\ q.state = p.state /\ q.background = p.background /\ q.aborted = p.aborted
      /\ q.locked = p.locked /\ q.interrupted = p.interrupted /\ q.count = p.count
      /\ q.intr_unique = p.intr_unique /\ q.error = p.error /\ q.end = p.end
      /\ q.ended = p.ended /\ q.asleep /\ q.stolen = p.stolen
  BY <1>1 DEF Req
<1> HIDE DEF q
<1>6. /\ Worker(r)' = Worker(r) /\ OneWorker(r)' /\ Aborter(r)' = Aborter(r)
      /\ abort' = abort /\ PerRequest(r)
  BY <1>2, CallerView
<1>7. r \in Sync /\ p.state # "FINISHED" BY WaitingFacts DEF Ended, Waits
<1>8. Placed(r)' /\ Told(r)' /\ Worked(r)'
  BY <1>2, <1>4, <1>5, <1>6, <1>7 DEF SameLists, PerRequest, Placed, Told, Worked
<1>9. Called(r)' BY <1>2, <1>4, <1>5, <1>6, <1>7 DEF PerRequest, Called, Before, Waits
<1>10. Held(r)'
  <2>1. CallerHolds(r) /\ CallerHolds(r)' BY <1>2, <1>7 DEF CallerHolds
  <2> QED BY <2>1, <1>4, <1>5, <1>6 DEF PerRequest, Held, OnDevice
<1>11. Callback(r)' /\ Taken(r)' /\ Sleeps(r)'
  BY <1>2, <1>4, <1>5, <1>6, <1>7
  DEF SameLists, PerRequest, Callback, Owing, Taken, Sleeps
<1>12. PerRequest(r)' BY <1>6, <1>8, <1>9, <1>10, <1>11 DEF PerRequest
<1>13. Final(r) BY <1>7 DEF Final, Ended
<1>14. Turns(r)
  BY <1>4, <1>5 DEF Turns, Stays, SameLists, Status, Outcome, Over, Ended
<1> QED BY <1>2, <1>4, <1>5, <1>12, <1>13, <1>14, OnlyReqStep

\* The daemon has not read it: the request is withdrawn.
LEMMA BailOutStep ==
  ASSUME Inv, TypeInv', NEW r \in Requests, task[r] = "wait_kill",
         fc.req[r].state = "PENDING", BailOut(r), UNCHANGED <<thread, abort>>
  PROVE  Result
<1> DEFINE p == fc.req[r]
           e == list_del(fc, r)
           n == e.req[r].count - 1
           q == [e.req[r] EXCEPT !.count = n, !.asleep = FALSE, !.error = "EINTR"]
           d == [list_del(fc, r) EXCEPT !.req[r] = q]
<1>1. fc \in Conn /\ TypeOK /\ p \in Req /\ Good(fc)
  BY InvGood, ConnFields DEF Inv, TypeInv, TypeOK
<1>2. CallerAlone(r) /\ task'[r] = "returned"
  BY <1>1, GotoAlone, OthersRestUnchanged DEF CallerAlone, BailOut
<1>3. e.req = fc.req BY <1>1, ListDelFields
<1>4. fc' = [e EXCEPT !.req[r].count = @ - 1, !.req[r].asleep = FALSE,
                      !.req[r].error = "EINTR"]
  BY DEF BailOut
<1>5. q \in Req BY <1>1, <1>3, ReqCount, Errors, ReqCountError
<1>6. /\ Good(d) /\ Calm(fc, d) /\ Off(d, r) /\ d.req[r] = q
      /\ d.interrupts = fc.interrupts
      /\ \A s \in Requests : s # r => Same(fc, d, s)
  BY <1>1, <1>5, TakenOffEffect
<1>7. d = [e EXCEPT !.req[r] = q] OBVIOUS
<1>8. /\ q.state = p.state /\ q.background = p.background /\ q.aborted = p.aborted
      /\ q.locked = p.locked /\ q.interrupted = p.interrupted /\ q.count = p.count - 1
      /\ q.error = "EINTR" /\ q.end = p.end
      /\ q.ended = p.ended /\ ~ q.asleep /\ q.stolen = p.stolen
  BY <1>1, <1>3 DEF Req
<1> HIDE DEF d, e
<1>9. fc' = d BY <1>4, <1>7
<1> HIDE DEF q, n
<1>10. /\ Worker(r)' = Worker(r) /\ OneWorker(r)' /\ Aborter(r)' = Aborter(r)
       /\ abort' = abort /\ PerRequest(r) /\ Worker(r).pc \in {"idle", "read", "write", "end"}
  BY <1>2, CallerView
<1>11. r \in Sync BY WaitingFacts DEF Waits
<1>12. /\ p.error = "none" /\ ~ p.aborted /\ ~ p.locked
  BY <1>10 DEF PerRequest, Told, Worked
<1>13. Worker(r).pc = "idle" /\ Aborter(r) = "no"
  BY <1>10, <1>12 DEF PerRequest, Worked, Taken, Aborter
<1>14. fc'.req[r] = q /\ Off(fc', r) BY <1>6, <1>9
<1>15. Placed(r)' BY <1>8, <1>14 DEF Off, Placed
<1>16. Told(r)' /\ Worked(r)'
  BY <1>2, <1>8, <1>10, <1>11, <1>12, <1>13, <1>14 DEF PerRequest, Told, Worked
<1>17. Called(r)' BY <1>2, <1>8, <1>10, <1>11, <1>14 DEF PerRequest, Called, Before, Waits
<1>18. Held(r)'
  <2>1. CallerHolds(r) /\ CallerHolds(r)' BY <1>2, <1>11 DEF CallerHolds
  <2>2. OnDevice(r) /\ ~ OnDevice(r)'
    BY <1>8, <1>10, <1>12, <1>13, <1>14 DEF OnDevice
  <2> QED BY <2>1, <2>2, <1>8, <1>10, <1>13, <1>14 DEF PerRequest, Held, One
<1>19. Callback(r)' /\ Taken(r)' /\ Sleeps(r)'
  BY <1>2, <1>8, <1>10, <1>11, <1>13, <1>14
  DEF PerRequest, Callback, Owing, Taken, Sleeps
<1>20. PerRequest(r)' BY <1>10, <1>15, <1>16, <1>17, <1>18, <1>19 DEF PerRequest
<1>21. Final(r) BY DEF Final, Ended
<1>22. Turns(r)
  <2>1. Status(r)' = "over" /\ Outcome(r)' = "EINTR"
    BY <1>8, <1>14 DEF Status, Outcome, Over, Ended, Off
  <2>2. Status(r) = "queued" BY <1>12 DEF Status, Over, Ended
  <2> QED BY <2>1, <2>2 DEF Turns, Goes
<1>23. /\ Good(fc') /\ Calm(fc, fc') /\ fc'.req[r].stolen = fc.req[r].stolen
       /\ \A s \in Requests : s # r => Left(fc, fc', s)
  BY <1>6, <1>8, <1>9, <1>14 DEF Left
<1> QED BY <1>2, <1>20, <1>21, <1>22, <1>23, CallerStep1

LEMMA WakeStep ==
  ASSUME Inv, TypeInv', NEW r \in Requests, WakeKill(r) \/ WakeForced(r)
  PROVE  Result
<1>1. UNCHANGED <<thread, abort>> BY DEF WakeKill, WakeForced
<1>2. CASE WakeForced(r) BY <1>1, <1>2, LeaveWaitStep DEF WakeForced, Woken, Waiting
<1>3. CASE WakeKill(r) /\ Ended(r) BY <1>1, <1>3, LeaveWaitStep DEF WakeKill, Waiting
<1>4. CASE WakeKill(r) /\ ~ Ended(r)
  <2>1. task[r] = "wait_kill" BY <1>4 DEF WakeKill
  <2>2. CASE fc.req[r].state = "PENDING"
    BY <1>1, <1>4, <2>1, <2>2, BailOutStep DEF WakeKill
  <2>3. CASE fc.req[r].state # "PENDING"
    BY <1>1, <1>4, <2>1, <2>3, WaitOutStep DEF WakeKill
  <2> QED BY <2>2, <2>3
<1> QED BY <1>2, <1>3, <1>4

\* The copy that the caller waited for is over.
LEMMA WakeUnlockStep ==
  ASSUME Inv, TypeInv', NEW r \in Requests, WakeUnlock(r)
  PROVE  Result
<1> DEFINE p == fc.req[r]
<1>1. TypeOK BY DEF Inv, TypeInv
<1>2. /\ task[r] = "wait_unlock" /\ ~ p.locked /\ fc' = fc
      /\ Goto(r, "returned") /\ UNCHANGED <<thread, abort>>
  BY DEF WakeUnlock
<1>3. CallerAlone(r) /\ task'[r] = "returned"
  BY <1>1, <1>2, GotoAlone, OthersRestUnchanged DEF CallerAlone
<1>4. /\ Worker(r)' = Worker(r) /\ OneWorker(r)' /\ Aborter(r)' = Aborter(r)
      /\ abort' = abort /\ PerRequest(r)
  BY <1>3, CallerView
<1>5. r \in Sync BY <1>2, WaitingFacts DEF Waits
<1>6. p.aborted /\ p.state = "FINISHED"
  BY <1>2, <1>4 DEF PerRequest, Called, Told, Waits
<1>7. Placed(r)' /\ Told(r)' /\ Worked(r)'
  BY <1>2, <1>3, <1>4, <1>6 DEF PerRequest, Placed, Told, Worked
<1>8. Called(r)' BY <1>2, <1>3, <1>4, <1>5, <1>6 DEF PerRequest, Called, Before, Waits
<1>9. Held(r)'
  <2>1. CallerHolds(r) /\ CallerHolds(r)' BY <1>2, <1>3, <1>5 DEF CallerHolds
  <2> QED BY <2>1, <1>2, <1>4 DEF PerRequest, Held, OnDevice
<1>10. Callback(r)' /\ Taken(r)' /\ Sleeps(r)'
  BY <1>2, <1>3, <1>4, <1>5 DEF PerRequest, Callback, Owing, Taken, Sleeps
<1>11. PerRequest(r)' BY <1>4, <1>7, <1>8, <1>9, <1>10 DEF PerRequest
<1>12. Final(r) /\ Turns(r)
  BY <1>2 DEF Final, Turns, Stays, Status, Outcome, Over, Ended
<1>13. OnlyReq(fc, fc', r) /\ Calm(fc, fc') /\ fc'.req[r].stolen = p.stolen
  BY <1>2 DEF OnlyReq, SameLists, Calm
<1> QED BY <1>3, <1>11, <1>12, <1>13, OnlyReqStep

\* The caller drops its reference.
LEMMA PutRequestStep ==
  ASSUME Inv, TypeInv', NEW r \in Requests, PutRequest(r)
  PROVE  Result
<1> DEFINE p == fc.req[r]
           d == fuse_put_request(fc, r)
           q == d.req[r]
<1>1. TypeOK /\ p \in Req /\ Good(fc) BY InvGood, ConnFields DEF Inv, TypeInv, TypeOK
<1>2. /\ task[r] = "returned" /\ fc' = d /\ Goto(r, "done") /\ UNCHANGED <<thread, abort>>
  BY DEF PutRequest
<1>3. CallerAlone(r) /\ task'[r] = "done"
  BY <1>1, <1>2, GotoAlone, OthersRestUnchanged DEF CallerAlone
<1>4. /\ Good(d) /\ Calm(fc, d) /\ q = [p EXCEPT !.count = @ - 1]
      /\ d.pending = fc.pending /\ d.bg_queue = fc.bg_queue /\ d.io = fc.io
      /\ d.processing = fc.processing /\ d.interrupts = fc.interrupts
      /\ \A s \in Requests : s # r => Same(fc, d, s)
  BY <1>1, PutEffect
<1> HIDE DEF d
<1>5. /\ q.state = p.state /\ q.background = p.background /\ q.aborted = p.aborted
      /\ q.locked = p.locked /\ q.interrupted = p.interrupted /\ q.count = p.count - 1
      /\ q.intr_unique = p.intr_unique /\ q.error = p.error /\ q.end = p.end
      /\ q.ended = p.ended /\ q.asleep = p.asleep /\ q.stolen = p.stolen
  BY <1>1, <1>4 DEF Req
<1>6. fc'.req[r] = q /\ SameLists(fc, fc') BY <1>2, <1>4 DEF SameLists
<1> HIDE DEF q
<1>7. /\ Worker(r)' = Worker(r) /\ OneWorker(r)' /\ Aborter(r)' = Aborter(r)
      /\ abort' = abort /\ PerRequest(r)
  BY <1>3, CallerView
<1>8. r \in Sync BY <1>2, <1>7 DEF PerRequest, Called, Before
<1>9. Placed(r)' /\ Told(r)' /\ Worked(r)'
  BY <1>2, <1>3, <1>5, <1>6, <1>7, <1>8 DEF SameLists, PerRequest, Placed, Told, Worked
<1>10. Called(r)' BY <1>2, <1>3, <1>5, <1>6, <1>7, <1>8 DEF PerRequest, Called, Before, Waits
<1>11. Held(r)'
  <2>1. CallerHolds(r) /\ ~ CallerHolds(r)' BY <1>2, <1>3, <1>8 DEF CallerHolds
  <2>2. OnDevice(r)' <=> OnDevice(r) BY <1>5, <1>6, <1>7 DEF OnDevice
  <2>3. p.count = 1 + One(OnDevice(r)) + One(Aborter(r) = "io")
    BY <2>1, <1>7 DEF PerRequest, Held, One
  <2> QED BY <2>1, <2>2, <2>3, <1>1, <1>5, <1>6, <1>7 DEF Held, One
<1>12. Callback(r)' /\ Taken(r)' /\ Sleeps(r)'
  BY <1>2, <1>3, <1>5, <1>6, <1>7, <1>8
  DEF SameLists, PerRequest, Callback, Owing, Taken, Sleeps
<1>13. PerRequest(r)' BY <1>7, <1>9, <1>10, <1>11, <1>12 DEF PerRequest
<1>14. Final(r) /\ Turns(r)
  BY <1>5, <1>6 DEF SameLists, Final, Turns, Stays, Status, Outcome, Over, Ended
<1>15. /\ Good(fc') /\ Calm(fc, fc') /\ fc'.req[r].stolen = fc.req[r].stolen
       /\ \A s \in Requests : s # r => Left(fc, fc', s)
  BY <1>2, <1>4, <1>5, <1>6 DEF Left
<1> QED BY <1>3, <1>13, <1>14, <1>15, CallerStep1

-----------------------------------------------------------------------------
(***************************************************************************)
(* Requests without a caller that waits.                                   *)
(***************************************************************************)
LEMMA SendBackgroundStep ==
  ASSUME Inv, TypeInv', NEW r \in Requests, SendBackground(r)
  PROVE  Result
<1> DEFINE p == fc.req[r]
           d == fuse_request_send_nowait_locked(fc, r)
           q == d.req[r]
<1>1. TypeOK /\ p \in Req /\ Good(fc) BY InvGood, ConnFields DEF Inv, TypeInv, TypeOK
<1>2. /\ task[r] = "ready" /\ r \in Background /\ r \notin Sync /\ r \notin NotifyReply
      /\ fc.connected /\ fc' = d /\ Goto(r, "sent") /\ UNCHANGED <<thread, abort>>
  BY KindAssumption DEF SendBackground
<1>3. CallerAlone(r) /\ task'[r] = "sent"
  BY <1>1, <1>2, GotoAlone, OthersRestUnchanged DEF CallerAlone
<1>4. /\ p.state = "INIT" /\ ~ p.background /\ p.error = "none" /\ ~ p.aborted
      /\ ~ p.locked /\ p.ended = 0 /\ Worker(r).pc = "idle" /\ ~ Worker(r).end
      /\ Aborter(r) = "no" /\ Status(r) = "new" /\ Outcome(r) = "none" /\ Off(fc, r)
  BY <1>2, Unsent DEF Before, Off
<1>5. /\ Good(d) /\ Calm(fc, d)
      /\ q.background /\ q.aborted = p.aborted
      /\ q.locked = p.locked /\ q.interrupted = p.interrupted
      /\ q.count = p.count /\ q.intr_unique = p.intr_unique
      /\ q.error = p.error /\ q.end = p.end /\ q.ended = p.ended
      /\ q.asleep = p.asleep /\ q.stolen = p.stolen
      /\ r \notin d.io /\ r \notin d.processing
      /\ \/ q.state = p.state /\ Member(d.bg_queue, r) /\ ~ Member(d.pending, r)
         \/ q.state = "PENDING" /\ ~ Member(d.bg_queue, r) /\ Member(d.pending, r)
      /\ \A s \in Requests : s # r => Left(fc, d, s)
  BY <1>1, <1>4, SendNowaitEffect
<1> HIDE DEF d
<1>6. /\ fc'.req[r] = q /\ r \notin fc'.io /\ r \notin fc'.processing
      /\ \/ q.state = "INIT" /\ Member(fc'.bg_queue, r) /\ ~ Member(fc'.pending, r)
         \/ q.state = "PENDING" /\ ~ Member(fc'.bg_queue, r) /\ Member(fc'.pending, r)
  BY <1>2, <1>4, <1>5
<1> HIDE DEF q
<1>7. /\ Worker(r)' = Worker(r) /\ OneWorker(r)' /\ Aborter(r)' = Aborter(r)
      /\ abort' = abort /\ PerRequest(r)
  BY <1>3, CallerView
<1>8. Placed(r)' /\ Told(r)' BY <1>4, <1>5, <1>6 DEF Placed, Told
<1>9. Worked(r)' BY <1>4, <1>5, <1>6, <1>7 DEF Worked
<1>10. Called(r)' BY <1>2, <1>3, <1>5, <1>6 DEF Called, Before, Waits
<1>11. Held(r)'
  <2>1. CallerHolds(r) /\ ~ CallerHolds(r)' BY <1>2, <1>3 DEF CallerHolds
  <2>2. ~ OnDevice(r) BY <1>4 DEF OnDevice
  <2>3. OnDevice(r)' BY <1>4, <1>5, <1>6 DEF OnDevice
  <2> QED BY <2>1, <2>2, <2>3, <1>4, <1>5, <1>6, <1>7 DEF PerRequest, Held, One
<1>12. Callback(r)'
  <2>1. p.ended + Owing(r) = 1 BY <1>2, <1>7 DEF PerRequest, Callback
  <2>2. Owing(r)' = Owing(r) BY <1>2, <1>3, <1>5, <1>6, <1>7 DEF Owing
  <2> QED BY <2>1, <2>2, <1>2, <1>3, <1>4, <1>5, <1>6 DEF Callback
<1>13. Taken(r)' /\ Sleeps(r)'
  BY <1>2, <1>4, <1>5, <1>6, <1>7 DEF PerRequest, Taken, Sleeps
<1>14. PerRequest(r)' BY <1>7, <1>8, <1>9, <1>10, <1>11, <1>12, <1>13 DEF PerRequest
<1>15. Final(r) BY <1>4 DEF Final, Ended
<1>16. Turns(r)
  <2>1. Status(r)' = "queued" /\ Outcome(r)' = "none"
    BY <1>4, <1>5, <1>6 DEF Status, Outcome, Over, Ended
  <2> QED BY <2>1, <1>2, <1>4 DEF Turns, Goes
<1>17. /\ Good(fc') /\ Calm(fc, fc') /\ fc'.req[r].stolen = fc.req[r].stolen
       /\ \A s \in Requests : s # r => Left(fc, fc', s)
  BY <1>2, <1>5, <1>6
<1> QED BY <1>3, <1>14, <1>16, <1>15, <1>17, CallerStep1

LEMMA SendBackgroundRefusedStep ==
  ASSUME Inv, TypeInv', NEW r \in Requests, SendBackgroundRefused(r)
  PROVE  Result
<1> DEFINE p == fc.req[r]
           x == [p EXCEPT !.error = "ENOTCONN"]
           c == [fc EXCEPT !.req[r] = x]
           d == request_end(c, r)
           q == d.req[r]
<1>1. TypeOK /\ p \in Req /\ Good(fc) BY InvGood, ConnFields DEF Inv, TypeInv, TypeOK
<1>2. /\ task[r] = "ready" /\ r \in Background /\ r \notin Sync /\ r \notin NotifyReply
      /\ ~ fc.connected /\ Goto(r, "end") /\ UNCHANGED <<thread, abort>>
  BY KindAssumption DEF SendBackgroundRefused
<1>3. fc' = d BY DEF SendBackgroundRefused
<1>4. CallerAlone(r) /\ task'[r] = "end"
  BY <1>1, <1>2, GotoAlone, OthersRestUnchanged DEF CallerAlone
<1>5. x \in Req BY <1>1, Errors DEF Req
<1> HIDE DEF x
<1>6. /\ Good(c) /\ Calm(fc, c) /\ c.req[r] = x
      /\ \A s \in Requests : s # r => Same(fc, c, s)
  BY <1>1, <1>5, ReqEffect
<1> HIDE DEF c
<1>7. /\ Good(d) /\ Calm(c, d) /\ Off(d, r)
      /\ \A s \in Requests : s # r => Left(c, d, s)
      /\ q = [x EXCEPT !.state = "FINISHED", !.end = FALSE]
  BY <1>6, RequestEndEffect
<1> HIDE DEF d
<1>8. /\ q.state = "FINISHED" /\ q.background = p.background /\ q.aborted = p.aborted
      /\ q.locked = p.locked /\ q.interrupted = p.interrupted /\ q.count = p.count
      /\ q.intr_unique = p.intr_unique /\ q.error = "ENOTCONN" /\ ~ q.end
      /\ q.ended = p.ended /\ q.asleep = p.asleep /\ q.stolen = p.stolen
  BY <1>1, <1>7 DEF Req, x
<1>9. fc'.req[r] = q /\ Off(fc', r) BY <1>3, <1>7
<1> HIDE DEF q
<1>10. /\ p.state = "INIT" /\ ~ p.background /\ p.error = "none" /\ ~ p.aborted
       /\ ~ p.locked /\ p.ended = 0 /\ Worker(r).pc = "idle" /\ ~ Worker(r).end
       /\ Aborter(r) = "no" /\ Status(r) = "new" /\ Outcome(r) = "none"
  BY <1>2, Unsent DEF Before
<1>11. /\ Worker(r)' = Worker(r) /\ OneWorker(r)' /\ Aborter(r)' = Aborter(r)
       /\ abort' = abort /\ PerRequest(r)
  BY <1>4, CallerView
<1>12. Placed(r)' BY <1>8, <1>9 DEF Placed, Off
<1>13. Told(r)' /\ Worked(r)' BY <1>8, <1>9, <1>10, <1>11 DEF Told, Worked
<1>14. Called(r)' BY <1>2, <1>4, <1>8, <1>9, <1>10, <1>11 DEF Called, Before, Waits
<1>15. Held(r)'
  <2>1. CallerHolds(r) /\ CallerHolds(r)' BY <1>2, <1>4 DEF CallerHolds
  <2>2. ~ OnDevice(r) BY <1>10 DEF OnDevice
  <2>3. ~ OnDevice(r)' BY <1>8, <1>9, <1>10, <1>11 DEF OnDevice
  <2> QED BY <2>1, <2>2, <2>3, <1>8, <1>9, <1>10, <1>11 DEF PerRequest, Held, One
<1>16. Callback(r)'
  <2>1. p.ended + Owing(r) = 1 BY <1>2, <1>11 DEF PerRequest, Callback
  <2>2. p.end BY <2>1, <1>2, <1>10 DEF Owing, One
  <2>3. Owing(r)' = 1 BY <1>4, <1>8, <1>9, <1>10, <1>11 DEF Owing, One
  <2> QED BY <2>3, <1>2, <1>4, <1>8, <1>9, <1>10 DEF Callback
<1>17. Taken(r)' /\ Sleeps(r)'
  BY <1>2, <1>8, <1>9, <1>10, <1>11 DEF PerRequest, Taken, Sleeps
<1>18. PerRequest(r)'
  BY <1>11, <1>12, <1>13, <1>14, <1>15, <1>16, <1>17 DEF PerRequest
<1>19. Final(r) BY <1>10 DEF Final, Ended
<1>20. Turns(r)
  <2>1. Status(r)' = "over" /\ Outcome(r)' = "ENOTCONN"
    BY <1>8, <1>9 DEF Status, Outcome, Over, Ended, Off
  <2> QED BY <2>1, <1>2, <1>10 DEF Turns, Goes
<1>21. Calm(fc, fc') BY <1>3, <1>6, <1>7, CalmTrans
<1>22. \A s \in Requests : s # r => Left(fc, fc', s) BY <1>3, <1>6, <1>7, SameTrans
<1>23. Good(fc') /\ fc'.req[r].stolen = fc.req[r].stolen BY <1>3, <1>7, <1>8, <1>9
<1> QED BY <1>4, <1>18, <1>19, <1>20, <1>21, <1>22, <1>23, CallerStep1

LEMMA SendBackgroundEndStep ==
  ASSUME Inv, TypeInv', NEW r \in Requests, SendBackgroundEnd(r)
  PROVE  Result
<1>0. PICK end \in BOOLEAN : end = TRUE OBVIOUS
<1> DEFINE p == fc.req[r]
           d == EndTail(fc, r, end)
           q == d.req[r]
<1>1. TypeOK /\ p \in Req /\ Good(fc) BY InvGood, ConnFields DEF Inv, TypeInv, TypeOK
<1>2. /\ task[r] = "end" /\ fc' = d /\ Goto(r, "sent") /\ UNCHANGED <<thread, abort>>
  BY <1>0, Zenon DEF SendBackgroundEnd
<1>3. CallerAlone(r) /\ task'[r] = "sent"
  BY <1>1, <1>2, GotoAlone, OthersRestUnchanged DEF CallerAlone
<1>4. /\ Good(d) /\ Calm(fc, d)
      /\ q.state = p.state /\ q.background = p.background /\ q.aborted = p.aborted
      /\ q.locked = p.locked /\ q.interrupted = p.interrupted
      /\ q.count = p.count - 1 /\ q.intr_unique = p.intr_unique
      /\ q.error = p.error /\ q.end = p.end /\ q.ended = p.ended + 1
      /\ ~ q.asleep /\ q.stolen = p.stolen
      /\ d.pending = fc.pending /\ d.bg_queue = fc.bg_queue /\ d.io = fc.io
      /\ d.processing = fc.processing /\ d.interrupts = fc.interrupts
      /\ \A s \in Requests : s # r => Same(fc, d, s)
  <2>1. /\ Good(d) /\ Calm(fc, d)
        /\ q.state = p.state /\ q.background = p.background /\ q.aborted = p.aborted
        /\ q.locked = p.locked /\ q.interrupted = p.interrupted
        /\ q.count = p.count - 1 /\ q.intr_unique = p.intr_unique
        /\ q.error = p.error /\ q.end = p.end /\ q.ended = p.ended + One(end)
        /\ ~ q.asleep /\ q.stolen = p.stolen
        /\ d.pending = fc.pending /\ d.bg_queue = fc.bg_queue /\ d.io = fc.io
        /\ d.processing = fc.processing /\ d.interrupts = fc.interrupts
        /\ \A s \in Requests : s # r => Same(fc, d, s)
    BY <1>1, EndTailEffect
  <2>2. One(end) = 1 BY <1>0 DEF One
  <2> QED BY <2>1, <2>2
<1> HIDE DEF d
<1>5. fc'.req[r] = q /\ SameLists(fc, fc') BY <1>2, <1>4 DEF SameLists
<1> HIDE DEF q
<1>6. /\ Worker(r)' = Worker(r) /\ OneWorker(r)' /\ Aborter(r)' = Aborter(r)
      /\ abort' = abort /\ PerRequest(r)
  BY <1>3, CallerView
<1>7. /\ r \notin Sync /\ p.state = "FINISHED" /\ Worker(r).pc = "idle"
      /\ ~ Worker(r).end /\ ~ p.locked
  BY <1>2, <1>6 DEF PerRequest, Called, Worked, Before, Waits
<1>8. Aborter(r) = "no" BY <1>2, <1>6 DEF PerRequest, Taken, Aborter
<1>9. Placed(r)' /\ Told(r)' /\ Worked(r)'
  BY <1>2, <1>3, <1>4, <1>5, <1>6, <1>7 DEF SameLists, PerRequest, Placed, Told, Worked
<1>10. Called(r)' BY <1>3, <1>4, <1>5, <1>6, <1>7 DEF PerRequest, Called, Before, Waits
<1>11. Held(r)'
  <2>1. CallerHolds(r) /\ ~ CallerHolds(r)' BY <1>2, <1>3, <1>7 DEF CallerHolds
  <2>2. OnDevice(r)' <=> OnDevice(r) BY <1>4, <1>5, <1>6 DEF OnDevice
  <2>3. p.count = 1 + One(OnDevice(r)) + One(Aborter(r) = "io")
    BY <2>1, <1>6 DEF PerRequest, Held, One
  <2> QED BY <2>1, <2>2, <2>3, <1>1, <1>4, <1>5, <1>6 DEF Held, One
<1>12. Callback(r)'
  <2>1. p.ended + Owing(r) = 1 BY <1>2, <1>6, <1>7 DEF PerRequest, Callback
  <2>2. ~ p.end BY <1>6, <1>7 DEF PerRequest, Callback
  <2>3. Owing(r) = 1 BY <2>2, <1>2, <1>7, <1>8 DEF Owing, One
  <2>4. Owing(r)' = 0 BY <2>2, <1>3, <1>4, <1>5, <1>6, <1>7, <1>8 DEF Owing, One
  <2>5. p.ended \in Nat BY <1>1 DEF Req
  <2> QED BY <2>1, <2>2, <2>3, <2>4, <2>5, <1>3, <1>4, <1>5, <1>7 DEF Callback
<1>13. Taken(r)' /\ Sleeps(r)'
  BY <1>4, <1>5, <1>6, <1>7, <1>8 DEF SameLists, PerRequest, Taken, Sleeps
<1>14. PerRequest(r)' BY <1>6, <1>9, <1>10, <1>11, <1>12, <1>13 DEF PerRequest
<1>15. Final(r) /\ Turns(r)
  BY <1>4, <1>5 DEF SameLists, Final, Turns, Stays, Status, Outcome, Over, Ended
<1>16. /\ Good(fc') /\ Calm(fc, fc') /\ fc'.req[r].stolen = fc.req[r].stolen
       /\ \A s \in Requests : s # r => Left(fc, fc', s)
  BY <1>2, <1>4, <1>5 DEF Left
<1> QED BY <1>3, <1>14, <1>15, <1>16, CallerStep1

\* The writing thread sends the data of a retrieve itself.
LEMMA SendNotifyReplyStep ==
  ASSUME Inv, TypeInv', NEW r \in Requests, SendNotifyReply(r)
  PROVE  Result
<1> DEFINE p == fc.req[r]
           q == fc'.req[r]
<1>1. fc \in Conn /\ TypeOK /\ p \in Req /\ Good(fc)
  BY InvGood, ConnFields DEF Inv, TypeInv, TypeOK
<1>2. /\ task[r] = "ready" /\ r \in NotifyReply /\ r \notin Sync /\ r \notin Background
      /\ thread' = Leave(r) /\ UNCHANGED abort
  BY KindAssumption DEF SendNotifyReply
<1>3. \A pc : Goto(r, pc) => CallerAlone(r) /\ task'[r] = pc
  <2>1. OthersRest BY <1>1, <1>2, LeaveRests
  <2> QED BY <2>1, <1>1, GotoAlone DEF CallerAlone
<1>4. /\ p.state = "INIT" /\ ~ p.background /\ p.error = "none" /\ ~ p.aborted
      /\ ~ p.locked /\ p.ended = 0 /\ Worker(r).pc = "idle" /\ ~ Worker(r).end
      /\ Aborter(r) = "no" /\ Status(r) = "new" /\ Outcome(r) = "none" /\ Off(fc, r)
  BY <1>2, Unsent DEF Before, Off
<1>5. \A pc : Goto(r, pc) =>
        /\ Worker(r)' = Worker(r) /\ OneWorker(r)' /\ Aborter(r)' = Aborter(r)
        /\ abort' = abort /\ PerRequest(r)
  BY <1>3, CallerView
<1>6. CASE fc.connected
  <2> DEFINE d == queue_request(fc, r)
  <2>1. fc' = d /\ Goto(r, "sent") BY <1>6 DEF SendNotifyReply
  <2>2. /\ Good(d) /\ Calm(fc, d)
        /\ \A s \in Requests : s # r => Same(fc, d, s)
        /\ Member(d.pending, r) /\ d.bg_queue = fc.bg_queue /\ d.io = fc.io
        /\ d.processing = fc.processing /\ d.interrupts = fc.interrupts
        /\ d.req[r].state = "PENDING"
        /\ SameFields(p, d.req[r])
    BY <1>1, <1>4, QueueRequestEffect DEF Off
  <2> HIDE DEF d
  <2>3. /\ CallerAlone(r) /\ task'[r] = "sent"
        /\ Worker(r)' = Worker(r) /\ OneWorker(r)' /\ Aborter(r)' = Aborter(r)
        /\ abort' = abort /\ PerRequest(r)
    BY <2>1, <1>3, <1>5
  <2>4. /\ q.state = "PENDING" /\ q.background = p.background /\ q.aborted = p.aborted
        /\ q.locked = p.locked /\ q.interrupted = p.interrupted /\ q.count = p.count
        /\ q.intr_unique = p.intr_unique /\ q.error = p.error /\ q.end = p.end
        /\ q.ended = p.ended /\ q.asleep = p.asleep /\ q.stolen = p.stolen
    BY <2>1, <2>2 DEF SameFields
  <2>5. /\ Member(fc'.pending, r) /\ ~ Member(fc'.bg_queue, r)
        /\ r \notin fc'.io /\ r \notin fc'.processing
    BY <2>1, <2>2, <1>4 DEF Off
  <2>6. Placed(r)' /\ Told(r)' BY <1>4, <2>4, <2>5 DEF Placed, Told
  <2>7. Worked(r)' BY <1>4, <2>3, <2>4 DEF Worked
  <2>8. Called(r)' BY <1>2, <1>4, <2>3, <2>4 DEF Called, Before, Waits
  <2>9. Held(r)'
    <3>1. CallerHolds(r) /\ ~ CallerHolds(r)' BY <1>2, <2>3 DEF CallerHolds
    <3>2. ~ OnDevice(r) BY <1>4 DEF OnDevice
    <3>3. OnDevice(r)' BY <1>4, <2>4 DEF OnDevice
    <3> QED BY <3>1, <3>2, <3>3, <1>4, <2>3, <2>4 DEF PerRequest, Held, One
  <2>10. Callback(r)'
    <3>1. p.ended + Owing(r) = 1 BY <1>2, <2>3 DEF PerRequest, Callback
    <3>2. Owing(r)' = Owing(r) BY <1>2, <2>3, <2>4 DEF Owing
    <3> QED BY <3>1, <3>2, <1>2, <1>4, <2>3, <2>4 DEF Callback
  <2>11. Taken(r)' /\ Sleeps(r)'
    BY <1>2, <1>4, <2>3, <2>4 DEF PerRequest, Taken, Sleeps
  <2>12. PerRequest(r)'
    BY <2>3, <2>6, <2>7, <2>8, <2>9, <2>10, <2>11 DEF PerRequest
  <2>13. Final(r) BY <1>4 DEF Final, Ended
  <2>14. Turns(r)
    <3>1. Status(r)' = "queued" /\ Outcome(r)' = "none"
      BY <1>4, <2>4, <2>5 DEF Status, Outcome, Over, Ended
    <3> QED BY <3>1, <1>4, <1>6 DEF Turns, Goes
  <2>15. /\ Good(fc') /\ Calm(fc, fc') /\ q.stolen = p.stolen
         /\ \A s \in Requests : s # r => Left(fc, fc', s)
    BY <2>1, <2>2, <2>4 DEF Left
  <2> QED BY <2>3, <2>12, <2>13, <2>14, <2>15, CallerStep1
<1>7. CASE ~ fc.connected
  <2> DEFINE x == [p EXCEPT !.ended = @ + 1]
  <2>1. fc' = [fc EXCEPT !.req[r] = x] /\ Goto(r, "leaked") BY <1>7 DEF SendNotifyReply
  <2>2. x \in Req /\ x.stolen = p.stolen BY <1>1 DEF Req
  <2>3. /\ x.state = p.state /\ x.background = p.background /\ x.aborted = p.aborted
        /\ x.locked = p.locked /\ x.interrupted = p.interrupted /\ x.count = p.count
        /\ x.intr_unique = p.intr_unique /\ x.error = p.error /\ x.end = p.end
        /\ x.ended = p.ended + 1 /\ x.asleep = p.asleep
    BY <1>1 DEF Req
  <2> HIDE DEF x
  <2>4. Rewritten(r, x) BY <2>1, <2>2 DEF Rewritten
  <2>5. q = x /\ OnlyReq(fc, fc', r) /\ Calm(fc, fc') /\ SameLists(fc, fc')
    BY <2>4, RewrittenEffect
  <2> HIDE DEF q
  <2>6. /\ CallerAlone(r) /\ task'[r] = "leaked"
        /\ Worker(r)' = Worker(r) /\ OneWorker(r)' /\ Aborter(r)' = Aborter(r)
        /\ abort' = abort /\ PerRequest(r)
    BY <2>1, <1>3, <1>5
  <2>7. fc'.req[r] = x BY <2>5 DEF q
  <2>8. Placed(r)' /\ Told(r)'
    BY <1>4, <2>3, <2>5, <2>6, <2>7 DEF SameLists, PerRequest, Placed, Told
  <2>9. Worked(r)' BY <1>4, <2>3, <2>6, <2>7 DEF Worked
  <2>10. Called(r)' BY <1>2, <1>4, <2>3, <2>6, <2>7 DEF Called, Before, Waits
  <2>11. Held(r)'
    <3>1. CallerHolds(r) /\ CallerHolds(r)' BY <1>2, <2>6 DEF CallerHolds
    <3>2. OnDevice(r)' <=> OnDevice(r) BY <2>3, <2>6, <2>7 DEF OnDevice
    <3> QED BY <3>1, <3>2, <2>3, <2>6, <2>7, <1>4 DEF PerRequest, Held, One
  <2>12. Callback(r)' BY <1>2, <1>4, <2>3, <2>6, <2>7 DEF Callback, PerRequest
  <2>13. Taken(r)' /\ Sleeps(r)'
    BY <1>2, <1>4, <2>3, <2>6, <2>7 DEF PerRequest, Taken, Sleeps
  <2>14. PerRequest(r)'
    BY <2>6, <2>8, <2>9, <2>10, <2>11, <2>12, <2>13 DEF PerRequest
  <2>15. Final(r) /\ Turns(r)
    BY <2>3, <2>5, <2>7 DEF SameLists, Final, Turns, Stays, Status, Outcome, Over, Ended
  <2>16. fc'.req[r].stolen = fc.req[r].stolen BY <2>2, <2>7
  <2> QED BY <2>5, <2>6, <2>14, <2>15, <2>16, OnlyReqStep
<1> QED BY <1>6, <1>7

\* A daemon thread begins to retrieve, like any caller.
LEMMA RetrieveStep ==
  ASSUME Inv, TypeInv', NEW d \in Thread, NEW r \in NotifyReply, Retrieve(d, r)
  PROVE  Result
<1>1. TypeOK /\ r \in Requests BY DEF Inv, TypeInv, Requests
<1>2. StartGet(r) /\ thread[d].pc = "idle" /\ UNCHANGED abort
  BY DEF Retrieve, StartGet
<1>3. thread' = [thread EXCEPT ![d] = [Idle EXCEPT !.pc = "retrieve", !.req = r,
                                                   !.phase = "start"]]
  BY DEF Retrieve, Move
<1> DEFINE t == [Idle EXCEPT !.pc = "retrieve", !.req = r, !.phase = "start"]
<1>4. t.pc = "retrieve" BY DEF Idle
<1> HIDE DEF t
<1>5. OthersRest BY <1>1, <1>2, <1>3, <1>4 DEF t, OthersRest, TypeOK, Busy
<1> QED BY <1>1, <1>2, <1>5, StartGetStep

LEMMA CallerResult ==
  ASSUME Inv, TypeInv', NEW r \in Requests, Caller(r)
  PROVE  Result
<1>1. CASE \/ GetReq(r) \/ GetReqSleep(r) \/ GetReqKilled(r) \/ GetReqRefused(r)
           \/ GetReqNoMemory(r) \/ Signal(r)
  BY <1>1, GetStep
<1>2. CASE GetReqDone(r)
  <2>1. /\ Goto(r, "ready") /\ task[r] \in {"start", "get_wait"}
        /\ UNCHANGED <<thread, abort>> /\ fuse_request_alloc(r, TRUE)
    BY <1>2 DEF GetReqDone, LetIn
  <2> QED BY <2>1, AllocStep
<1>3. CASE RequestAlloc(r)
  <2>1. /\ Goto(r, "ready") /\ task[r] \in {"start", "get_wait"}
        /\ UNCHANGED <<thread, abort>> /\ fuse_request_alloc(r, FALSE)
    BY <1>3 DEF RequestAlloc
  <2> QED BY <2>1, AllocStep
<1>4. CASE get_reserved_req(r) BY <1>4, GetReservedStep
<1>5. CASE put_reserved_req(r) BY <1>5, PutReservedStep
<1>6. CASE RequestSend(r) BY <1>6, RequestSendStep
<1>7. CASE RequestSendRefused(r) BY <1>7, SendRefusedStep
<1>8. CASE WakeIntr(r) BY <1>8, WakeIntrStep
<1>9. CASE WakeKill(r) \/ WakeForced(r) BY <1>9, WakeStep
<1>10. CASE WakeUnlock(r) BY <1>10, WakeUnlockStep
<1>11. CASE PutRequest(r) BY <1>11, PutRequestStep
<1>12. CASE SendBackground(r) BY <1>12, SendBackgroundStep
<1>13. CASE SendBackgroundRefused(r) BY <1>13, SendBackgroundRefusedStep
<1>14. CASE SendBackgroundEnd(r) BY <1>14, SendBackgroundEndStep
<1>15. CASE SendNotifyReply(r) BY <1>15, SendNotifyReplyStep
<1> QED BY <1>1, <1>2, <1>3, <1>4, <1>5, <1>6, <1>7, <1>8, <1>9, <1>10, <1>11, <1>12,
           <1>13, <1>14, <1>15 DEF Caller

-----------------------------------------------------------------------------
(***************************************************************************)
(* The threads of the daemon.                                              *)
(***************************************************************************)
\* A thread moves from where no other request is in its hands.
Hands(d, r) == \A s \in Requests : s # r => d \notin Busy(s)

LEMMA HandsIdle == ASSUME NEW d, thread[d].pc = "idle", NEW r PROVE Hands(d, r)
BY DEF Hands, Busy

LEMMA HandsBusy == ASSUME NEW r, NEW d \in Busy(r) PROVE Hands(d, r)
BY DEF Hands, Busy

LEMMA DaemonStep ==
  ASSUME Inv, TypeInv', NEW d \in Thread, NEW t, thread' = [thread EXCEPT ![d] = t],
         NEW r \in Requests, Hands(d, r), t.pc \in {"read", "write", "end"} => t.req = r,
         UNCHANGED <<task, abort>>, Good(fc'), Calm(fc, fc'),
         \A s \in Requests : s # r => Left(fc, fc', s),
         PerRequest(r)', Final(r), Turns(r), fc'.req[r].stolen = fc.req[r].stolen
  PROVE  Result
<1>1. ASSUME NEW s \in Requests, s # r PROVE Kept(s)
  <2>1. OneWorker(s) /\ TypeOK BY DEF Inv, PerRequest, TypeInv
  <2>2. d \notin Busy(s) BY <1>1 DEF Hands
  <2>3. Worker(s)' = Worker(s) /\ OneWorker(s)' BY <2>1, <2>2, <1>1, ThreadElsewhere
  <2>4. Aborter(s)' = Aborter(s) /\ abort' = abort BY AbortRests
  <2> QED BY <1>1, <2>3, <2>4 DEF Kept
<1>2. AbortGoes BY DEF AbortGoes
<1> QED BY <1>1, <1>2, OneRequest

\* What a thread at work has in its hands.
LEMMA AtWork ==
  ASSUME Inv, NEW d \in Thread, thread[d].pc \in {"read", "write", "end"}
  PROVE  LET r == thread[d].req
         IN  /\ r \in Requests /\ d \in Busy(r) /\ Worker(r) = thread[d] /\ Busy(r) = {d}
             /\ Hands(d, r) /\ PerRequest(r) /\ Aborter(r) # "end" /\ task[r] # "end"
             /\ task[r] \notin Before \cup {"leaked"} /\ fc.req[r].state # "INIT"
             /\ fc.req[r].error # "EINTR" /\ OnDevice(r)
             /\ fc \in Conn /\ fc.req[r] \in Req /\ TypeOK /\ Good(fc)
<1> DEFINE r == thread[d].req
<1>1. r \in Requests /\ fc \in Conn /\ fc.req[r] \in Req /\ TypeOK /\ Good(fc)
  BY ThreadRequest, InvGood DEF Inv, TypeInv
<1>2. d \in Busy(r) /\ PerRequest(r) BY <1>1 DEF Busy, Inv
<1> HIDE DEF r
<1>3. Worker(r) = thread[d] /\ Busy(r) = {d} /\ Hands(d, r)
  BY <1>2, WorkerIs, HandsBusy DEF PerRequest
<1>4. Aborter(r) # "end" /\ task[r] # "end" /\ OnDevice(r)
  BY <1>2, <1>3 DEF PerRequest, Taken, Called, OnDevice
<1>5. fc.req[r].state # "INIT" /\ fc.req[r].error # "EINTR"
  BY <1>2, <1>3 DEF PerRequest, Worked, Told
<1>6. task[r] \notin Before \cup {"leaked"} BY <1>2, <1>5 DEF PerRequest, Called
<1> QED BY <1>1, <1>2, <1>3, <1>4, <1>5, <1>6 DEF r

\* A request that waits for the daemon has nobody's hands on it.
LEMMA InQueue ==
  ASSUME Inv, NEW r \in Requests,
         fc.req[r].state = "SENT" \/ (fc.req[r].state = "PENDING" /\ fc.req[r].error # "EINTR")
  PROVE  /\ Worker(r).pc = "idle" /\ Busy(r) = {} /\ ~ Worker(r).end
         /\ Aborter(r) = "no" /\ PerRequest(r)
         /\ fc.req[r].error = "none" /\ ~ fc.req[r].aborted /\ ~ fc.req[r].locked
         /\ task[r] \notin Before \cup {"leaked", "end", "returned", "done"}
         /\ fc.req[r].ended = 0 /\ OnDevice(r)
         /\ (r \in Sync => ~ fc.req[r].end) /\ (r \notin Sync => fc.req[r].end)
         /\ fc \in Conn /\ fc.req[r] \in Req /\ TypeOK /\ Good(fc)
<1>1. PerRequest(r) /\ fc \in Conn /\ fc.req[r] \in Req /\ TypeOK /\ Good(fc)
  BY InvGood, ConnFields DEF Inv, TypeInv, TypeOK
<1>2. fc.req[r].error = "none" /\ ~ fc.req[r].aborted BY <1>1 DEF PerRequest, Told
<1>3. Worker(r).pc = "idle" /\ ~ fc.req[r].locked /\ ~ Worker(r).end
  BY <1>1, <1>2, WorkerPc DEF PerRequest, Worked
<1>4. Busy(r) = {} BY <1>3, NoWorker
<1>5. Aborter(r) = "no" BY <1>1, <1>2 DEF PerRequest, Taken, Aborter
<1>6. task[r] \notin Before \cup {"leaked", "end", "returned", "done"}
  BY <1>1, <1>2 DEF PerRequest, Called
<1>7. fc.req[r].ended = 0 BY <1>1, <1>6 DEF PerRequest, Callback
<1>8. (r \in Sync => ~ fc.req[r].end) /\ (r \notin Sync => fc.req[r].end)
  BY <1>1, <1>3, <1>5, <1>6, <1>7 DEF PerRequest, Callback, Owing, One
<1> QED BY <1>1, <1>2, <1>3, <1>4, <1>5, <1>6, <1>7, <1>8 DEF OnDevice

\* An interrupt is read: the request remembers its id.
LEMMA ReadInterruptStep ==
  ASSUME Inv, TypeInv', NEW d \in Thread, ReadInterrupt(d)
  PROVE  Result
<1> DEFINE r == Head(fc.interrupts)
           p == fc.req[r]
           u == fuse_get_unique(fc.reqctr, 1)
           q == [p EXCEPT !.intr_unique = u]
           e == [fc EXCEPT !.interrupts = Tail(@), !.reqctr = u, !.req[r] = q]
<1>1. fc \in Conn /\ TypeOK /\ Good(fc) BY InvGood DEF Inv, TypeInv, TypeOK
<1>2. fc.reqctr \in 0 .. UniqueMax BY <1>1, ConnFields
<1>3. u \in 1 .. UniqueMax BY <1>2, UniqueType
<1>4. u \in 0 .. UniqueMax /\ u # 0 BY <1>3, BoundAssumption
<1>5. fc.interrupts # <<>> /\ UNCHANGED <<task, thread, abort>> BY DEF ReadInterrupt
<1>6. fc' = e BY DEF ReadInterrupt
<1> HIDE DEF u
<1>7. /\ Good(e) /\ Calm(fc, e) /\ e.req[r] = q /\ r \in Requests /\ q \in Req
      /\ e.pending = fc.pending /\ e.bg_queue = fc.bg_queue /\ e.io = fc.io
      /\ e.processing = fc.processing
      /\ \A s \in Requests : s # r => Same(fc, e, s)
  <2>1. q = WithUnique(fc.req[r], u) BY DEF WithUnique
  <2>2. e = InterruptRead(fc, r, u) BY DEF InterruptRead, WithUnique
  <2>3. r = Head(fc.interrupts) OBVIOUS
  <2> HIDE DEF r, q, e
  <2> QED BY <1>1, <1>4, <1>5, <2>1, <2>2, <2>3, ReadInterruptEffect
<1> HIDE DEF r, e
<1>8. p \in Req BY <1>1, <1>7, ConnFields
<1>9. /\ q.state = p.state /\ q.background = p.background /\ q.aborted = p.aborted
      /\ q.locked = p.locked /\ q.interrupted = p.interrupted /\ q.count = p.count
      /\ q.intr_unique # 0 /\ q.error = p.error /\ q.end = p.end
      /\ q.ended = p.ended /\ q.asleep = p.asleep /\ q.stolen = p.stolen
  BY <1>4, <1>8 DEF Req
<1> HIDE DEF q
<1>10. \E x \in Requests : x = r BY <1>7
<1>11. ASSUME NEW x \in Requests, x = r PROVE Result
  <2> DEFINE y == fc.req[x]
             z == fc'.req[x]
  <2>1. /\ z.state = y.state /\ z.background = y.background /\ z.aborted = y.aborted
        /\ z.locked = y.locked /\ z.interrupted = y.interrupted /\ z.count = y.count
        /\ z.intr_unique # 0 /\ z.error = y.error /\ z.end = y.end
        /\ z.ended = y.ended /\ z.asleep = y.asleep /\ z.stolen = y.stolen
    BY <1>6, <1>7, <1>9, <1>11
  <2>2. /\ fc'.pending = fc.pending /\ fc'.bg_queue = fc.bg_queue /\ fc'.io = fc.io
        /\ fc'.processing = fc.processing
    BY <1>6, <1>7
  <2>3. CallerAlone(x) /\ task' = task BY <1>5, OthersRestUnchanged DEF CallerAlone
  <2>4. /\ Worker(x)' = Worker(x) /\ OneWorker(x)' /\ Aborter(x)' = Aborter(x)
        /\ abort' = abort /\ PerRequest(x)
    BY <2>3, CallerView
  <2>5. Placed(x)' /\ Told(x)' /\ Worked(x)' /\ Called(x)'
    BY <2>1, <2>2, <2>3, <2>4 DEF PerRequest, Placed, Told, Worked, Called
  <2>6. Held(x)' BY <2>1, <2>3, <2>4 DEF PerRequest, Held, OnDevice, CallerHolds
  <2>7. Callback(x)' BY <2>1, <2>3, <2>4 DEF PerRequest, Callback, Owing
  <2>8. Taken(x)' /\ Sleeps(x)' BY <2>1, <2>3, <2>4 DEF PerRequest, Taken, Sleeps
  <2>9. PerRequest(x)' BY <2>4, <2>5, <2>6, <2>7, <2>8 DEF PerRequest
  <2>10. Final(x) /\ Turns(x)
    BY <2>1, <2>2 DEF Final, Turns, Stays, Status, Outcome, Over, Ended
  <2>11. /\ Good(fc') /\ Calm(fc, fc')
         /\ \A s \in Requests : s # x => Left(fc, fc', s)
    BY <1>6, <1>7, <1>11 DEF Left
  <2> QED BY <2>1, <2>3, <2>9, <2>10, <2>11, CallerStep1
<1> QED BY <1>10, <1>11

\* A step that leaves every request, every thread and the abort alone.
LEMMA QuietStep ==
  ASSUME Inv, TypeInv', UNCHANGED <<task, thread, abort>>, Good(fc'), Calm(fc, fc'),
         \A s \in Requests : Same(fc, fc', s)
  PROVE  Result
<1>1. OthersRest BY OthersRestUnchanged
<1>2. \A s \in Requests : Left(fc, fc', s) BY DEF Left
<1>3. \A s \in Requests : Kept(s) BY <1>1, <1>2, RestKeeps
<1>4. \A s \in Requests : fc'.req[s] = fc.req[s] BY DEF Same
<1>5. Shared' BY <1>4 DEF Inv, Shared, Good, Calm
<1>6. fc'.connected = fc.connected BY DEF Calm
<1> QED BY <1>3, <1>5, <1>6, NoRequest

\* Forgets are read, and nothing else.
LEMMA ReadForgetStep ==
  ASSUME Inv, TypeInv', NEW d \in Thread, ReadForget(d)
  PROVE  Result
<1>1. fc \in Conn /\ Good(fc) /\ fc' \in Conn BY InvGood DEF Inv, TypeInv, TypeOK
<1>2. PICK n \in 0 .. Len(fc.forget_list) : fuse_read_forget(n) BY DEF ReadForget
<1>3. /\ fc'.req = fc.req
      /\ fc'.pending = fc.pending /\ fc'.bg_queue = fc.bg_queue /\ fc'.io = fc.io
      /\ fc'.processing = fc.processing /\ fc'.interrupts = fc.interrupts
      /\ fc'.connected = fc.connected /\ fc'.reserved = fc.reserved
      /\ fc'.blocked = fc.blocked /\ fc'.blocked_waitq = fc.blocked_waitq
  BY <1>1, <1>2 DEF fuse_read_forget, dequeue_forget, Conn
<1>4. UNCHANGED <<task, thread, abort>> BY DEF ReadForget
<1>5. Good(fc') /\ Calm(fc, fc') /\ \A s \in Requests : Same(fc, fc', s)
  BY <1>1, <1>3, QuietEffect
<1> QED BY <1>4, <1>5, QuietStep

LEMMA QueueForgetStep ==
  ASSUME Inv, TypeInv', NEW f \in Forget, QueueForget(f)
  PROVE  Result
<1>1. fc \in Conn /\ Good(fc) /\ fc' \in Conn BY InvGood DEF Inv, TypeInv, TypeOK
<1>2. /\ fc'.req = fc.req
      /\ fc'.pending = fc.pending /\ fc'.bg_queue = fc.bg_queue /\ fc'.io = fc.io
      /\ fc'.processing = fc.processing /\ fc'.interrupts = fc.interrupts
      /\ fc'.connected = fc.connected /\ fc'.reserved = fc.reserved
      /\ fc'.blocked = fc.blocked /\ fc'.blocked_waitq = fc.blocked_waitq
  BY <1>1 DEF QueueForget, Conn
<1>3. UNCHANGED <<task, thread, abort>> BY DEF QueueForget
<1>4. Good(fc') /\ Calm(fc, fc') /\ \A s \in Requests : Same(fc, fc', s)
  BY <1>1, <1>2, QuietEffect
<1> QED BY <1>3, <1>4, QuietStep

LEMMA StutterStep ==
  ASSUME Inv, TypeInv', UNCHANGED <<fc, task, thread, abort>>
  PROVE  Result
<1>1. Good(fc') BY InvGood
<1>2. \A s \in Requests : Same(fc, fc', s) BY DEF Same
<1>3. Calm(fc, fc') BY DEF Calm
<1> QED BY <1>1, <1>2, <1>3, QuietStep

\* A request is read.
LEMMA ReadRequestStep ==
  ASSUME Inv, TypeInv', NEW d \in Thread, ReadRequest(d)
  PROVE  Result
<1> DEFINE h == Head(fc.pending)
           e == TakeRequest
           t == [Idle EXCEPT !.pc = "read", !.req = h, !.phase = "start"]
<1>1. Good(fc) /\ TypeInv /\ TypeOK BY InvGood DEF Inv, TypeInv
<1>2. /\ fc.pending # <<>> /\ fc.connected /\ thread[d].pc = "idle" /\ fc' = e
      /\ UNCHANGED <<task, abort>>
  BY DEF ReadRequest, ReadyToRead, Reader
<1>3. thread' = [thread EXCEPT ![d] = t] BY DEF ReadRequest, Move
<1>4. /\ Good(e) /\ Calm(fc, e)
      /\ e.req[h] = [fc.req[h] EXCEPT !.state = "READING"]
      /\ ~ Member(e.pending, h) /\ ~ Member(e.bg_queue, h)
      /\ h \in e.io /\ h \notin e.processing
      /\ \A s \in Requests : s # h => Same(fc, e, s)
      /\ h \in Requests /\ Member(fc.pending, h)
  BY <1>1, <1>2, TakeRequestEffect
<1>5. t.pc = "read" /\ t.req = h /\ t.phase = "start" /\ t.end = FALSE BY DEF Idle
<1> HIDE DEF t, e, h
<1>6. ASSUME NEW r \in Requests, r = h PROVE Result
  <2> DEFINE p == fc.req[r]
             q == fc'.req[r]
  <2>1. p.state = "PENDING" /\ p.error # "EINTR"
    BY <1>4, <1>6 DEF Inv, PerRequest, Placed
  <2>2. /\ Worker(r).pc = "idle" /\ Busy(r) = {} /\ ~ Worker(r).end
        /\ Aborter(r) = "no" /\ PerRequest(r)
        /\ p.error = "none" /\ ~ p.aborted /\ ~ p.locked
        /\ task[r] \notin Before \cup {"leaked", "end", "returned", "done"}
        /\ p.ended = 0 /\ OnDevice(r)
        /\ p \in Req
    BY <2>1, InQueue
  <2>3. /\ q.state = "READING" /\ q.background = p.background /\ q.aborted = p.aborted
        /\ q.locked = p.locked /\ q.interrupted = p.interrupted /\ q.count = p.count
        /\ q.intr_unique = p.intr_unique /\ q.error = p.error /\ q.end = p.end
        /\ q.ended = p.ended /\ q.asleep = p.asleep /\ q.stolen = p.stolen
    BY <2>2, <1>2, <1>4, <1>6 DEF Req
  <2>4. /\ ~ Member(fc'.pending, r) /\ ~ Member(fc'.bg_queue, r)
        /\ r \in fc'.io /\ r \notin fc'.processing
    BY <1>2, <1>4, <1>6
  <2>5. Worker(r)' = t /\ OneWorker(r)' BY <1>1, <1>3, <1>5, <1>6, <2>2, ThreadWorks
  <2>6. Aborter(r)' = "no" /\ task' = task BY <1>2, <2>2, AbortRests
  <2>7. Placed(r)' /\ Told(r)' BY <2>2, <2>3, <2>4, <2>6 DEF PerRequest, Placed, Told
  <2>8. Worked(r)' BY <1>5, <2>2, <2>3, <2>5 DEF Worked
  <2>9. Called(r)' BY <2>2, <2>3, <2>6 DEF PerRequest, Called, Before
  <2>10. Held(r)'
    <3>1. OnDevice(r)' BY <2>3 DEF OnDevice
    <3>2. CallerHolds(r)' <=> CallerHolds(r) BY <2>6 DEF CallerHolds
    <3> QED BY <3>1, <3>2, <2>2, <2>3, <2>6 DEF PerRequest, Held, One
  <2>11. Callback(r)'
    <3>1. Owing(r)' = Owing(r) BY <1>2, <1>5, <2>2, <2>3, <2>5, <2>6 DEF Owing, One
    <3> QED BY <3>1, <2>2, <2>3, <2>6 DEF PerRequest, Callback
  <2>12. Taken(r)' /\ Sleeps(r)' BY <2>2, <2>3, <2>6 DEF PerRequest, Taken, Sleeps
  <2>13. PerRequest(r)'
    BY <2>5, <2>7, <2>8, <2>9, <2>10, <2>11, <2>12 DEF PerRequest
  <2>14. Final(r) BY <2>1 DEF Final, Ended
  <2>15. Turns(r)
    <3>1. Status(r)' = "taken" /\ Outcome(r)' = "none"
      BY <2>2, <2>3, <2>4 DEF Status, Outcome, Over, Ended
    <3>2. Status(r) = "queued" /\ Outcome(r) = "none"
      BY <2>1, <2>2 DEF Status, Outcome, Over, Ended
    <3> QED BY <3>1, <3>2, <1>2 DEF Turns, Goes
  <2>16. /\ Good(fc') /\ Calm(fc, fc')
         /\ \A s \in Requests : s # r => Left(fc, fc', s)
    BY <1>2, <1>4, <1>6 DEF Left
  <2>17. Hands(d, r) BY <1>2, HandsIdle
  <2>18. t.req = r BY <1>5, <1>6
  <2> QED BY <1>2, <1>3, <2>3, <2>13, <2>14, <2>15, <2>16, <2>17, <2>18, DaemonStep
<1> QED BY <1>4, <1>6

-----------------------------------------------------------------------------
(***************************************************************************)
(* A thread ends the request it has in its hands, or the one it has just   *)
(* taken from pending.                                                     *)
(***************************************************************************)
\* Connection c, the one that request_end is called with, and the error of r in it.
Ending(c, r) ==
  LET p == fc.req[r]
      x == c.req[r]
  IN  /\ Good(c) /\ Calm(fc, c) /\ \A s \in Requests : s # r => Same(fc, c, s)
      /\ x \in Req /\ x.background = p.background /\ x.aborted = p.aborted /\ ~ x.locked
      /\ x.interrupted = p.interrupted /\ x.count = p.count
      /\ x.ended = p.ended /\ x.asleep = p.asleep /\ x.stolen = p.stolen
      /\ \/ p.state = "FINISHED" /\ x.error = p.error
         \/ p.state \in {"PENDING", "READING", "WRITING"} /\ x.error = "EIO"
         \/ p.state = "READING" /\ r \in NotifyReply /\ x.error = "none"
         \/ p.state = "WRITING" /\ x.error = "REPLY"

LEMMA EndByStep ==
  ASSUME Inv, TypeInv', NEW d \in Thread, NEW r \in Requests, NEW c, Ending(c, r),
         EndBy(d, c, r), UNCHANGED <<task, abort>>,
         \/ thread[d].pc = "idle" /\ fc.req[r].state = "PENDING" /\ fc.req[r].error # "EINTR"
         \/ thread[d].pc \in {"read", "write"} /\ thread[d].req = r
  PROVE  Result
<1> DEFINE p == fc.req[r]
           x == c.req[r]
           q == fc'.req[r]
           e == request_end(c, r)
           t == [Idle EXCEPT !.pc = "end", !.req = r, !.end = p.end]
<1>1. /\ PerRequest(r) /\ TypeOK /\ p \in Req /\ OnDevice(r) /\ Hands(d, r)
      /\ Busy(r) \subseteq {d} /\ ~ Worker(r).end /\ Aborter(r) # "end"
      /\ task[r] \notin Before \cup {"leaked", "end"} /\ p.error # "EINTR"
  <2>1. CASE thread[d].pc = "idle" /\ p.state = "PENDING" /\ p.error # "EINTR"
    BY <2>1, InQueue, HandsIdle
  <2>2. CASE thread[d].pc \in {"read", "write"} /\ thread[d].req = r
    <3>1. Worker(r) = thread[d] /\ PerRequest(r) BY <2>2, AtWork
    <3>2. ~ Worker(r).end BY <2>2, <3>1 DEF PerRequest, Worked
    <3> QED BY <2>2, <3>2, AtWork
  <2> QED BY <2>1, <2>2
<1>2. fc' = e /\ thread' = [thread EXCEPT ![d] = t] BY DEF EndBy
<1>3. t.pc = "end" /\ t.req = r /\ t.end = p.end BY DEF Idle
<1> HIDE DEF t
<1>4. /\ Good(e) /\ Calm(c, e) /\ Off(e, r)
      /\ \A s \in Requests : s # r => Left(c, e, s)
      /\ e.req[r] = [x EXCEPT !.state = "FINISHED", !.end = FALSE]
  BY RequestEndEffect DEF Ending
<1> HIDE DEF e
<1>5. /\ q.state = "FINISHED" /\ q.background = p.background /\ q.aborted = p.aborted
      /\ ~ q.locked /\ q.interrupted = p.interrupted /\ q.count = p.count
      /\ q.error = x.error /\ ~ q.end
      /\ q.ended = p.ended /\ q.asleep = p.asleep /\ q.stolen = p.stolen
  BY <1>2, <1>4 DEF Ending, Req
<1>6. Off(fc', r) BY <1>2, <1>4
<1>7. Worker(r)' = t /\ OneWorker(r)' BY <1>1, <1>2, <1>3, ThreadWorks
<1>8. Aborter(r)' = Aborter(r) /\ task' = task /\ abort' = abort BY AbortRests
<1>9. Placed(r)' BY <1>5, <1>6 DEF Off, Placed
<1>10. Told(r)' BY <1>1, <1>5 DEF Told, Ending
<1>11. Worked(r)' BY <1>3, <1>5, <1>7 DEF Worked
<1>12. Called(r)' BY <1>1, <1>5, <1>8 DEF PerRequest, Called
<1>13. Held(r)'
  <2>1. OnDevice(r)' BY <1>3, <1>7 DEF OnDevice
  <2>2. CallerHolds(r)' <=> CallerHolds(r) BY <1>8 DEF CallerHolds
  <2> QED BY <2>1, <2>2, <1>1, <1>5, <1>8 DEF PerRequest, Held, One
<1>14. Callback(r)'
  <2>1. Owing(r)' = Owing(r) BY <1>1, <1>3, <1>5, <1>7, <1>8 DEF Owing, One
  <2> QED BY <2>1, <1>1, <1>5, <1>8 DEF PerRequest, Callback
<1>15. Taken(r)' /\ Sleeps(r)' BY <1>1, <1>3, <1>5, <1>7, <1>8 DEF PerRequest, Taken, Sleeps
<1>16. PerRequest(r)'
  BY <1>7, <1>9, <1>10, <1>11, <1>12, <1>13, <1>14, <1>15 DEF PerRequest
<1>17. Final(r) BY <1>5 DEF Final, Ended, Ending
<1>18. Turns(r)
  <2>1. Status(r)' = "over" /\ Outcome(r)' = x.error
    BY <1>5, <1>6 DEF Off, Status, Outcome, Over, Ended
  <2>2. CASE p.state = "FINISHED"
    <3>1. x.error = p.error BY <2>2 DEF Ending
    <3>2. ~ Member(fc.bg_queue, r) BY <2>2, <1>1 DEF PerRequest, Placed
    <3>3. Status(r) = "over" /\ Outcome(r) = p.error
      BY <2>2, <3>2 DEF Status, Outcome, Over, Ended
    <3> QED BY <2>1, <3>1, <3>3 DEF Turns, Stays
  <2>3. CASE p.state # "FINISHED"
    <3>1. ~ Member(fc.bg_queue, r) /\ ~ Over(r)
      BY <1>1, <2>3 DEF PerRequest, Placed, Told, Ending, Over, Ended
    <3>2. Status(r) = IF p.state = "PENDING" THEN "queued" ELSE "taken"
      BY <2>3, <3>1 DEF Status, Ending
    <3>3. p.state = "WRITING" => r \notin NotifyReply BY <1>1 DEF PerRequest, Told
    <3> QED BY <2>1, <2>3, <3>2, <3>3 DEF Ending, Turns, Goes
  <2> QED BY <2>2, <2>3
<1>19. Calm(fc, fc') BY <1>2, <1>4, CalmTrans DEF Ending
<1>20. \A s \in Requests : s # r => Left(fc, fc', s) BY <1>2, <1>4, SameTrans DEF Ending
<1>21. Good(fc') BY <1>2, <1>4
<1> QED BY <1>1, <1>2, <1>3, <1>5, <1>8, <1>16, <1>17, <1>18, <1>19, <1>20, <1>21, DaemonStep

\* The record that request_end is called with.
LEMMA EndingIs ==
  ASSUME Inv, NEW r \in Requests, NEW w \in Error,
         fc.req[r].state \in {"READING", "WRITING", "FINISHED"},
         \/ fc.req[r].state = "FINISHED" /\ w = fc.req[r].error
         \/ fc.req[r].state # "FINISHED" /\ w = "EIO"
         \/ fc.req[r].state = "READING" /\ r \in NotifyReply /\ w = "none"
         \/ fc.req[r].state = "WRITING" /\ w = "REPLY"
  PROVE  Ending([fc EXCEPT !.req[r] = [fc.req[r] EXCEPT !.locked = FALSE, !.error = w]], r)
<1> DEFINE p == fc.req[r]
           x == [p EXCEPT !.locked = FALSE, !.error = w]
           c == [fc EXCEPT !.req[r] = x]
<1>1. p \in Req /\ Good(fc) BY InvGood, ConnFields DEF Inv, TypeInv, TypeOK
<1>2. x \in Req BY <1>1 DEF Req
<1>3. /\ x.background = p.background /\ x.aborted = p.aborted /\ ~ x.locked
      /\ x.interrupted = p.interrupted /\ x.count = p.count /\ x.error = w
      /\ x.ended = p.ended /\ x.asleep = p.asleep /\ x.stolen = p.stolen
  BY <1>1 DEF Req
<1> HIDE DEF x
<1>4. /\ Good(c) /\ Calm(fc, c) /\ c.req[r] = x
      /\ \A s \in Requests : s # r => Same(fc, c, s)
  BY <1>1, <1>2, ReqEffect
<1> HIDE DEF c
<1>5. Ending(c, r) BY <1>2, <1>3, <1>4 DEF Ending
<1> QED BY <1>5 DEF c, x

\* A request that does not fit into the buffer of its reader.
LEMMA ReadTooLargeStep ==
  ASSUME Inv, TypeInv', NEW d \in Thread, ReadTooLarge(d)
  PROVE  Result
<1> DEFINE h == Head(fc.pending)
           e == TakeRequest
           x == [e.req[h] EXCEPT !.error = "EIO"]
           c == [e EXCEPT !.req[h] = x]
<1>1. Good(fc) /\ TypeInv /\ fc \in Conn BY InvGood DEF Inv, TypeInv, TypeOK
<1>2. fc.pending # <<>> /\ thread[d].pc = "idle" /\ UNCHANGED <<task, abort>>
  BY DEF ReadTooLarge, ReadyToRead, Reader
<1>3. EndBy(d, [TakeRequest EXCEPT !.req[h].error = "EIO"], h) BY DEF ReadTooLarge
<1>4. EndBy(d, c, h) BY <1>3
<1>5. /\ Good(e) /\ Calm(fc, e)
      /\ e.req[h] = [fc.req[h] EXCEPT !.state = "READING"]
      /\ \A s \in Requests : s # h => Same(fc, e, s)
      /\ h \in Requests /\ Member(fc.pending, h)
  BY <1>1, <1>2, TakeRequestEffect
<1> HIDE DEF e, h
<1>6. e.req[h] \in Req BY <1>5, ConnFields DEF Good
<1>7. x \in Req BY <1>6, Errors DEF Req
<1> HIDE DEF x
<1>8. /\ Good(c) /\ Calm(e, c) /\ c.req[h] = x
      /\ \A s \in Requests : s # h => Same(e, c, s)
  BY <1>5, <1>7, ReqEffect
<1> HIDE DEF c
<1>9. fc.req[h].state = "PENDING" /\ fc.req[h].error # "EINTR"
  BY <1>5 DEF Inv, PerRequest, Placed
<1>10. fc.req[h] \in Req /\ ~ fc.req[h].locked BY <1>5, <1>9, InQueue
<1>11. Ending(c, h)
  <2>1. /\ x.background = fc.req[h].background /\ x.aborted = fc.req[h].aborted
        /\ ~ x.locked
        /\ x.interrupted = fc.req[h].interrupted /\ x.count = fc.req[h].count
        /\ x.ended = fc.req[h].ended /\ x.asleep = fc.req[h].asleep
        /\ x.stolen = fc.req[h].stolen /\ x.error = "EIO"
    BY <1>5, <1>6, <1>10 DEF x, Req
  <2>2. Calm(fc, c) BY <1>5, <1>8, CalmTrans
  <2>3. \A s \in Requests : s # h => Same(fc, c, s) BY <1>5, <1>8 DEF Same
  <2> QED BY <2>1, <2>2, <2>3, <1>7, <1>8, <1>9 DEF Ending
<1> QED BY <1>2, <1>4, <1>5, <1>9, <1>11, EndByStep

\* The error that a failed copy leaves, unless the request was aborted.
LEMMA EndByError ==
  ASSUME Inv, NEW d \in Thread, NEW r \in Requests, NEW bad,
         EndBy(d, IF bad THEN [[fc EXCEPT !.req[r].locked = FALSE]
                                 EXCEPT !.req[r].error = "EIO"]
                  ELSE [fc EXCEPT !.req[r].locked = FALSE], r)
  PROVE  EndBy(d, [fc EXCEPT !.req[r] =
                    [fc.req[r] EXCEPT !.locked = FALSE,
                                      !.error = IF bad THEN "EIO" ELSE fc.req[r].error]], r)
<1> DEFINE p == fc.req[r]
           c == [fc EXCEPT !.req[r].locked = FALSE]
<1>1. fc \in Conn /\ p \in Req BY ConnFields DEF Inv, TypeInv, TypeOK
<1>2. CASE bad
  <2>1. EndBy(d, [c EXCEPT !.req[r].error = "EIO"], r) BY <1>2
  <2>2. [c EXCEPT !.req[r].error = "EIO"]
        = [fc EXCEPT !.req[r] = [fc.req[r] EXCEPT !.locked = FALSE, !.error = "EIO"]]
    BY <1>1 DEF Conn
  <2> QED BY <1>2, <2>1, <2>2
<1>3. CASE ~ bad
  <2>1. EndBy(d, c, r) BY <1>3
  <2>2. [p EXCEPT !.locked = FALSE, !.error = p.error] = [p EXCEPT !.locked = FALSE]
    BY <1>1 DEF Req
  <2>3. [fc EXCEPT !.req[r] = [p EXCEPT !.locked = FALSE, !.error = p.error]] = c BY <2>2
  <2> QED BY <1>3, <2>1, <2>3
<1> QED BY <1>2, <1>3

\* The copy of the answer is over.
LEMMA WriteFinishStep ==
  ASSUME Inv, TypeInv', NEW d \in Thread, WriteFinish(d)
  PROVE  Result
<1> DEFINE r == thread[d].req
           p == fc.req[r]
           bad == thread[d].phase = "failed" /\ ~ p.aborted
           w == IF bad THEN "EIO" ELSE p.error
           c == [fc EXCEPT !.req[r].locked = FALSE]
           e == [fc EXCEPT !.req[r] = [fc.req[r] EXCEPT !.locked = FALSE, !.error = w]]
<1>1. thread[d].pc = "write" /\ UNCHANGED <<task, abort>> BY DEF WriteFinish, CopyOver
<1>2. r \in Requests /\ p \in Req /\ PerRequest(r) /\ Worker(r) = thread[d] /\ fc \in Conn
  BY <1>1, AtWork
<1>3. c.req[r].aborted = p.aborted BY <1>2 DEF Conn, Req
<1>4. EndBy(d, IF bad THEN [c EXCEPT !.req[r].error = "EIO"] ELSE c, r)
  BY <1>3 DEF WriteFinish
<1>5. EndBy(d, e, r) BY <1>2, <1>4, EndByError
<1>6. p.aborted => p.state = "FINISHED" BY <1>2 DEF PerRequest, Told
<1>7. ~ p.aborted => p.state = "WRITING" /\ p.error = "REPLY"
  BY <1>1, <1>2 DEF PerRequest, Worked, Told
<1>8. w \in Error BY <1>2, Errors DEF Req
<1> HIDE DEF r
<1>9. Ending(e, r)
  <2>1. p.state \in {"READING", "WRITING", "FINISHED"} BY <1>6, <1>7
  <2>2. \/ p.state = "FINISHED" /\ w = p.error
        \/ p.state # "FINISHED" /\ w = "EIO"
        \/ p.state = "WRITING" /\ w = "REPLY"
    BY <1>6, <1>7
  <2> HIDE DEF w
  <2> QED BY <1>2, <1>8, <2>1, <2>2, EndingIs
<1> HIDE DEF e
<1>10. r = thread[d].req BY DEF r
<1> QED BY <1>1, <1>2, <1>5, <1>9, <1>10, EndByStep

\* The copy of the request is over.
LEMMA DeliverStep ==
  ASSUME Inv, TypeInv', NEW d \in Thread, NEW r \in Requests, thread[d].pc = "read",
         thread[d].req = r, ~ fc.req[r].aborted, r \notin NotifyReply,
         fc' = Delivered([fc EXCEPT !.req[r].locked = FALSE], r),
         thread' = [thread EXCEPT ![d] = Idle], UNCHANGED <<task, abort>>
  PROVE  Result
<1> DEFINE p == fc.req[r]
           x == [p EXCEPT !.locked = FALSE]
           c == [fc EXCEPT !.req[r] = x]
           e == Delivered(c, r)
           q == fc'.req[r]
<1>1. /\ PerRequest(r) /\ TypeOK /\ p \in Req /\ OnDevice(r) /\ Hands(d, r)
      /\ Busy(r) = {d} /\ Worker(r) = thread[d] /\ Aborter(r) # "end" /\ Good(fc)
      /\ task[r] \notin Before \cup {"leaked", "end"}
  BY AtWork
<1>2. p.state = "READING" /\ p.error = "none" /\ ~ Worker(r).end
  BY <1>1 DEF PerRequest, Worked, Told
<1>3. /\ x \in Req /\ x.state = p.state /\ x.background = p.background
      /\ x.aborted = p.aborted /\ ~ x.locked /\ x.interrupted = p.interrupted
      /\ x.count = p.count /\ x.intr_unique = p.intr_unique /\ x.error = p.error
      /\ x.end = p.end /\ x.ended = p.ended /\ x.asleep = p.asleep /\ x.stolen = p.stolen
  BY <1>1 DEF Req
<1>4. fc' = e OBVIOUS
<1> HIDE DEF x
<1>5. /\ Good(c) /\ Calm(fc, c) /\ c.req[r] = x
      /\ \A s \in Requests : s # r => Same(fc, c, s)
  BY <1>1, <1>3, ReqEffect
<1> HIDE DEF c
<1>6. /\ Good(e) /\ Calm(c, e)
      /\ e.req[r] = [x EXCEPT !.state = "SENT"]
      /\ ~ Member(e.pending, r) /\ ~ Member(e.bg_queue, r)
      /\ r \notin e.io /\ r \in e.processing
      /\ x.interrupted => Member(e.interrupts, r)
      /\ \A s \in Requests : s # r => Same(c, e, s)
  BY <1>5, DeliveredEffect
<1> HIDE DEF e
<1>7. /\ q.state = "SENT" /\ q.background = p.background /\ q.aborted = p.aborted
      /\ ~ q.locked /\ q.interrupted = p.interrupted /\ q.count = p.count
      /\ q.intr_unique = p.intr_unique /\ q.error = p.error /\ q.end = p.end
      /\ q.ended = p.ended /\ q.asleep = p.asleep /\ q.stolen = p.stolen
  BY <1>3, <1>4, <1>6 DEF Req
<1>8. /\ ~ Member(fc'.pending, r) /\ ~ Member(fc'.bg_queue, r)
      /\ r \notin fc'.io /\ r \in fc'.processing
      /\ p.interrupted => Member(fc'.interrupts, r)
  BY <1>3, <1>4, <1>6
<1>9. Worker(r)' = Idle /\ OneWorker(r)' BY <1>1, ThreadDone
<1>10. Idle.pc = "idle" /\ Idle.end = FALSE BY DEF Idle
<1>11. Aborter(r)' = Aborter(r) /\ task' = task /\ abort' = abort BY AbortRests
<1>12. Aborter(r) = "no" BY <1>1, <1>2 DEF PerRequest, Taken, Aborter
<1>13. Placed(r)' /\ Told(r)' BY <1>1, <1>2, <1>7, <1>8 DEF Placed, Told
<1>14. Worked(r)' BY <1>7, <1>9, <1>10 DEF Worked
<1>15. Called(r)' BY <1>1, <1>2, <1>7, <1>11 DEF PerRequest, Called
<1>16. Held(r)'
  <2>1. OnDevice(r)' BY <1>7 DEF OnDevice
  <2>2. CallerHolds(r)' <=> CallerHolds(r) BY <1>11 DEF CallerHolds
  <2> QED BY <2>1, <2>2, <1>1, <1>7, <1>11 DEF PerRequest, Held, One
<1>17. Callback(r)'
  <2>1. Owing(r)' = Owing(r) BY <1>2, <1>7, <1>9, <1>10, <1>11 DEF Owing, One
  <2> QED BY <2>1, <1>1, <1>2, <1>7, <1>11 DEF PerRequest, Callback
<1>18. Taken(r)' /\ Sleeps(r)' BY <1>1, <1>2, <1>7, <1>8, <1>11, <1>12 DEF PerRequest, Taken, Sleeps
<1>19. PerRequest(r)'
  BY <1>9, <1>13, <1>14, <1>15, <1>16, <1>17, <1>18 DEF PerRequest
<1>20. Final(r) BY <1>2 DEF Final, Ended
<1>21. Turns(r)
  <2>1. ~ Member(fc.bg_queue, r) BY <1>1, <1>2 DEF PerRequest, Placed
  <2> QED BY <2>1, <1>2, <1>7, <1>8 DEF Turns, Stays, Status, Outcome, Over, Ended
<1>22. Calm(fc, fc') BY <1>4, <1>5, <1>6, CalmTrans
<1>23. \A s \in Requests : s # r => Left(fc, fc', s) BY <1>4, <1>5, <1>6 DEF Left, Same
<1>24. Good(fc') BY <1>4, <1>6
<1> QED BY <1>1, <1>7, <1>10, <1>19, <1>20, <1>21, <1>22, <1>23, <1>24, DaemonStep

LEMMA ReadFinishStep ==
  ASSUME Inv, TypeInv', NEW d \in Thread, ReadFinish(d)
  PROVE  Result
<1> DEFINE r == thread[d].req
           p == fc.req[r]
           failed == thread[d].phase = "failed"
           bad == failed /\ ~ p.aborted
           w == IF bad THEN "EIO" ELSE p.error
           c == [fc EXCEPT !.req[r].locked = FALSE]
           e == [fc EXCEPT !.req[r] = [fc.req[r] EXCEPT !.locked = FALSE, !.error = w]]
<1>1. thread[d].pc = "read" /\ UNCHANGED <<task, abort>> BY DEF ReadFinish, CopyOver
<1>2. r \in Requests /\ p \in Req /\ PerRequest(r) /\ Worker(r) = thread[d] /\ fc \in Conn
  BY <1>1, AtWork
<1>3. c.req[r].aborted = p.aborted BY <1>2 DEF Conn, Req
<1>4. CASE p.aborted \/ failed \/ r \in NotifyReply
  <2>1. EndBy(d, IF bad THEN [c EXCEPT !.req[r].error = "EIO"] ELSE c, r)
    BY <1>3, <1>4 DEF ReadFinish
  <2>2. EndBy(d, e, r) BY <2>1, <1>2, EndByError
  <2>3. p.aborted => p.state = "FINISHED" BY <1>2 DEF PerRequest, Told
  <2>4. ~ p.aborted => p.state = "READING" /\ p.error = "none"
    BY <1>1, <1>2 DEF PerRequest, Worked, Told
  <2>5. w \in Error BY <1>2, Errors DEF Req
  <2>6. Ending(e, r)
    <3>1. p.state \in {"READING", "WRITING", "FINISHED"} BY <2>3, <2>4
    <3>2. \/ p.state = "FINISHED" /\ w = p.error
          \/ p.state # "FINISHED" /\ w = "EIO"
          \/ p.state = "READING" /\ r \in NotifyReply /\ w = "none"
      BY <2>3, <2>4, <1>4
    <3> HIDE DEF w, r
    <3> QED BY <1>2, <2>5, <3>1, <3>2, EndingIs
  <2> HIDE DEF e, r
  <2>7. r = thread[d].req BY DEF r
  <2> QED BY <1>1, <1>2, <2>2, <2>6, <2>7, EndByStep
<1>5. CASE ~ (p.aborted \/ failed \/ r \in NotifyReply)
  <2>1. fc' = Delivered(c, r) /\ thread' = [thread EXCEPT ![d] = Idle]
    BY <1>3, <1>5 DEF ReadFinish
  <2> HIDE DEF r
  <2>2. r = thread[d].req BY DEF r
  <2> QED BY <1>1, <1>2, <1>5, <2>1, <2>2, DeliverStep
<1> QED BY <1>4, <1>5

\* The thread leaves request_end.
LEMMA ThreadEndStep ==
  ASSUME Inv, TypeInv', NEW d \in Thread, ThreadEnd(d)
  PROVE  Result
<1> DEFINE h == thread[d].req
           end == thread[d].end
           e == EndTail(fc, h, end)
<1>1. /\ thread[d].pc = "end" /\ fc' = e /\ thread' = [thread EXCEPT ![d] = Idle]
      /\ UNCHANGED <<task, abort>>
  BY DEF ThreadEnd
<1>2. h \in Requests /\ end \in BOOLEAN BY <1>1, ThreadRequest DEF Inv, TypeInv
<1> HIDE DEF end, e
<1>3. ASSUME NEW r \in Requests, r = h PROVE Result
  <2> DEFINE p == fc.req[r]
             q == fc'.req[r]
  <2>1. /\ PerRequest(r) /\ TypeOK /\ p \in Req /\ OnDevice(r) /\ Hands(d, r)
        /\ Busy(r) = {d} /\ Worker(r) = thread[d] /\ Aborter(r) # "end" /\ Good(fc)
        /\ task[r] \notin Before \cup {"leaked", "end"}
    BY <1>1, <1>3, AtWork
  <2>2. p.state = "FINISHED" /\ ~ p.locked /\ Worker(r).end = end
    BY <1>1, <2>1 DEF PerRequest, Worked, end
  <2>3. e = EndTail(fc, r, end) BY <1>3 DEF e
  <2>4. /\ Good(e) /\ Calm(fc, e)
        /\ e.req[r].state = p.state /\ e.req[r].background = p.background
        /\ e.req[r].aborted = p.aborted
        /\ e.req[r].locked = p.locked /\ e.req[r].interrupted = p.interrupted
        /\ e.req[r].count = p.count - 1 /\ e.req[r].intr_unique = p.intr_unique
        /\ e.req[r].error = p.error /\ e.req[r].end = p.end
        /\ e.req[r].ended = p.ended + One(end)
        /\ ~ e.req[r].asleep /\ e.req[r].stolen = p.stolen
        /\ e.pending = fc.pending /\ e.bg_queue = fc.bg_queue /\ e.io = fc.io
        /\ e.processing = fc.processing /\ e.interrupts = fc.interrupts
        /\ \A s \in Requests : s # r => Same(fc, e, s)
    BY <1>2, <2>1, <2>3, EndTailEffect
  <2>5. /\ q.state = p.state /\ q.background = p.background /\ q.aborted = p.aborted
        /\ q.locked = p.locked /\ q.interrupted = p.interrupted
        /\ q.count = p.count - 1 /\ q.intr_unique = p.intr_unique
        /\ q.error = p.error /\ q.end = p.end /\ q.ended = p.ended + One(end)
        /\ ~ q.asleep /\ q.stolen = p.stolen
    BY <1>1, <2>4
  <2>6. SameLists(fc, fc') BY <1>1, <2>4 DEF SameLists
  <2>7. Worker(r)' = Idle /\ OneWorker(r)' BY <1>1, <2>1, ThreadDone
  <2>8. Idle.pc = "idle" /\ Idle.end = FALSE BY DEF Idle
  <2>9. Aborter(r)' = Aborter(r) /\ task' = task /\ abort' = abort BY <1>1, AbortRests
  <2>10. Placed(r)' /\ Told(r)'
    BY <2>1, <2>5, <2>6, <2>9 DEF SameLists, PerRequest, Placed, Told
  <2>11. Worked(r)' BY <2>2, <2>5, <2>7, <2>8 DEF Worked
  <2>12. Called(r)' BY <2>1, <2>2, <2>5, <2>9 DEF PerRequest, Called
  <2>13. Held(r)'
    <3>1. ~ OnDevice(r)' BY <2>1, <2>2, <2>5, <2>7, <2>8, <2>9 DEF OnDevice
    <3>2. CallerHolds(r)' <=> CallerHolds(r) BY <2>9 DEF CallerHolds
    <3>3. p.count = One(CallerHolds(r)) + 1 + One(Aborter(r) = "io")
      BY <2>1 DEF PerRequest, Held, One
    <3> QED BY <3>1, <3>2, <3>3, <2>5, <2>9 DEF Held, One
  <2>14. Callback(r)'
    <3>1. Owing(r) = One(p.end) + One(end) + One(Aborter(r) = "io")
      BY <2>1, <2>2 DEF Owing, One
    <3>2. Owing(r)' = One(p.end) + One(Aborter(r) = "io")
      BY <2>1, <2>5, <2>7, <2>8, <2>9 DEF Owing, One
    <3>3. p.ended \in Nat BY <2>1 DEF Req
    <3>4. CASE r \in Sync
      <4>1. Owing(r) = 0 /\ p.ended = 0 /\ ~ p.end
        BY <3>4, <2>1, <2>2 DEF PerRequest, Callback
      <4>2. One(end) = 0 /\ One(Aborter(r) = "io") = 0 BY <3>1, <4>1 DEF One
      <4> QED BY <3>2, <3>4, <4>1, <4>2, <2>1, <2>2, <2>5, <2>9 DEF Callback, One
    <3>5. CASE r \notin Sync
      <4>1. p.ended + Owing(r) = 1 /\ ~ p.end BY <3>5, <2>1, <2>2 DEF PerRequest, Callback
      <4>2. q.ended + Owing(r)' = 1 BY <3>1, <3>2, <3>3, <4>1, <2>5 DEF One
      <4> QED BY <3>5, <4>1, <4>2, <2>1, <2>2, <2>5, <2>9 DEF Callback
    <3> QED BY <3>4, <3>5
  <2>15. Taken(r)' /\ Sleeps(r)'
    BY <2>1, <2>2, <2>5, <2>6, <2>9 DEF SameLists, PerRequest, Taken, Sleeps
  <2>16. PerRequest(r)'
    BY <2>7, <2>10, <2>11, <2>12, <2>13, <2>14, <2>15 DEF PerRequest
  <2>17. Final(r) /\ Turns(r)
    BY <2>5, <2>6 DEF SameLists, Final, Turns, Stays, Status, Outcome, Over, Ended
  <2>18. /\ Good(fc') /\ Calm(fc, fc')
         /\ \A s \in Requests : s # r => Left(fc, fc', s)
    BY <1>1, <2>4 DEF Left
  <2> QED BY <1>1, <2>1, <2>5, <2>8, <2>16, <2>17, <2>18, DaemonStep
<1> QED BY <1>2, <1>3

-----------------------------------------------------------------------------
(***************************************************************************)
(* A thread on its way through the copy.                                   *)
(***************************************************************************)
LEMMA PhaseStep ==
  ASSUME Inv, TypeInv', NEW d \in Thread, NEW r \in Requests,
         thread[d].pc \in {"read", "write"}, thread[d].req = r,
         NEW phase, Phase(d, phase), UNCHANGED <<task, abort>>,
         OnlyReq(fc, fc', r), Calm(fc, fc'),
         LET p == fc.req[r]
             q == fc'.req[r]
         IN  /\ q.state = p.state /\ q.background = p.background /\ q.aborted = p.aborted
             /\ q.interrupted = p.interrupted /\ q.count = p.count
             /\ q.intr_unique = p.intr_unique /\ q.error = p.error /\ q.end = p.end
             /\ q.ended = p.ended /\ q.stolen = p.stolen
             /\ q.locked => phase \in {"locked", "failed"} /\ (p.locked \/ ~ p.aborted)
             /\ q.asleep => p.asleep
  PROVE  Result
<1> DEFINE p == fc.req[r]
           q == fc'.req[r]
           t == [thread[d] EXCEPT !.phase = phase]
<1>1. /\ PerRequest(r) /\ TypeOK /\ OnDevice(r) /\ Hands(d, r)
      /\ Busy(r) = {d} /\ Worker(r) = thread[d] /\ Good(fc) /\ p \in Req
  BY AtWork
<1>2. thread' = [thread EXCEPT ![d] = t] BY DEF Phase
<1>3. thread[d] \in ThreadState BY <1>1 DEF TypeOK
<1>4. t.pc = thread[d].pc /\ t.req = r /\ t.end = thread[d].end /\ t.phase = phase
  BY <1>3 DEF ThreadState
<1> HIDE DEF t
<1>5. Worker(r)' = t /\ OneWorker(r)' BY <1>1, <1>2, <1>4, ThreadWorks
<1>6. Aborter(r)' = Aborter(r) /\ task' = task /\ abort' = abort BY AbortRests
<1>7. p.state \in {"READING", "WRITING"} \/ p.aborted BY <1>1 DEF PerRequest, Worked
<1>8. Placed(r)' /\ Told(r)' BY <1>1, <1>6 DEF PerRequest, Placed, Told, OnlyReq, SameLists
<1>9. Worked(r)' BY <1>1, <1>4, <1>5 DEF PerRequest, Worked
<1>10. Called(r)' BY <1>1, <1>4, <1>5, <1>6, <1>7 DEF PerRequest, Called
<1>11. Held(r)'
  BY <1>1, <1>4, <1>5, <1>6 DEF PerRequest, Held, OnDevice, CallerHolds
<1>12. Callback(r)'
  <2>1. Owing(r)' = Owing(r) BY <1>1, <1>4, <1>5, <1>6 DEF Owing
  <2> QED BY <2>1, <1>1, <1>6, <1>7 DEF PerRequest, Callback, Told
<1>13. Taken(r)' BY <1>1, <1>4, <1>5, <1>6 DEF PerRequest, Taken
<1>14. Sleeps(r)' BY <1>1, <1>4, <1>5, <1>6 DEF PerRequest, Sleeps, OnlyReq, SameLists
<1>15. PerRequest(r)'
  BY <1>5, <1>8, <1>9, <1>10, <1>11, <1>12, <1>13, <1>14 DEF PerRequest
<1>16. Final(r) BY DEF Final, Ended
<1>17. Turns(r)
  BY DEF Turns, Stays, Status, Outcome, Over, Ended, OnlyReq, SameLists
<1>18. Good(fc') /\ \A s \in Requests : s # r => Left(fc, fc', s)
  BY <1>1, OnlyReqEffect DEF TypeInv, TypeOK
<1> QED BY <1>1, <1>2, <1>4, <1>15, <1>16, <1>17, <1>18, DaemonStep

\* lock_request and unlock_request change nothing but the request.
LEMMA LockedEffect ==
  ASSUME NEW c \in Conn, NEW r \in Requests, NEW b \in BOOLEAN, NEW e,
         e = [c EXCEPT !.req[r].locked = b]
         \/ (~ b /\ e = wake_up([c EXCEPT !.req[r].locked = b], r))
  PROVE  /\ OnlyReq(c, e, r) /\ Calm(c, e)
         /\ LET p == c.req[r]
                q == e.req[r]
            IN  /\ q.state = p.state /\ q.background = p.background /\ q.aborted = p.aborted
                /\ q.interrupted = p.interrupted /\ q.count = p.count
                /\ q.intr_unique = p.intr_unique /\ q.error = p.error /\ q.end = p.end
                /\ q.ended = p.ended /\ q.stolen = p.stolen /\ q.unique = p.unique
                /\ q.locked = b /\ (q.asleep => p.asleep)
<1> DEFINE f == [c EXCEPT !.req[r].locked = b]
<1>1. c.req \in [Requests -> Req] /\ c.req[r] \in Req BY ConnFields
<1>2. /\ f.pending = c.pending /\ f.bg_queue = c.bg_queue /\ f.io = c.io
      /\ f.processing = c.processing /\ f.interrupts = c.interrupts
      /\ f.connected = c.connected /\ f.reserved = c.reserved
      /\ f.blocked = c.blocked /\ f.blocked_waitq = c.blocked_waitq
      /\ f.req = [c.req EXCEPT ![r].locked = b]
  BY DEF Conn
<1>3. f.req[r] = [c.req[r] EXCEPT !.locked = b] /\ \A s \in Requests : s # r => f.req[s] = c.req[s]
  BY <1>1, <1>2
<1>4. f.req \in [Requests -> Req] BY <1>1, <1>2 DEF Req
<1>5. CASE e = f
  BY <1>1, <1>2, <1>3, <1>5 DEF OnlyReq, SameLists, Calm, Req
<1>6. CASE ~ b /\ e = wake_up(f, r)
  <2>1. e = [c EXCEPT !.req[r].locked = b, !.req[r].asleep = FALSE] BY <1>6 DEF wake_up
  <2>2. /\ e.pending = c.pending /\ e.bg_queue = c.bg_queue /\ e.io = c.io
        /\ e.processing = c.processing /\ e.interrupts = c.interrupts
        /\ e.connected = c.connected /\ e.reserved = c.reserved
        /\ e.blocked = c.blocked /\ e.blocked_waitq = c.blocked_waitq
        /\ e.req = [c.req EXCEPT ![r].locked = b, ![r].asleep = FALSE]
    BY <2>1 DEF Conn
  <2>3. e.req[r] = [c.req[r] EXCEPT !.locked = b, !.asleep = FALSE]
        /\ \A s \in Requests : s # r => e.req[s] = c.req[s]
    BY <1>1, <2>2
  <2> QED BY <1>1, <1>6, <2>2, <2>3 DEF OnlyReq, SameLists, Calm, Req
<1> QED BY <1>5, <1>6

LEMMA CopyStep ==
  ASSUME Inv, TypeInv', NEW d \in Thread,
         lock_request(d) \/ unlock_request(d) \/ CopyFail(d) \/ WrongLength(d)
  PROVE  Result
<1> DEFINE r == thread[d].req
           p == fc.req[r]
           q == fc'.req[r]
<1>1. thread[d].pc \in {"read", "write"} /\ UNCHANGED <<task, abort>>
  BY DEF lock_request, unlock_request, CopyFail, WrongLength, Copying
<1>2. r \in Requests /\ fc \in Conn /\ p \in Req BY <1>1, AtWork
<1>3. ASSUME UNCHANGED fc, NEW phase, Phase(d, phase), phase = "failed" PROVE Result
  <2>1. OnlyReq(fc, fc', r) /\ Calm(fc, fc') BY <1>3 DEF OnlyReq, SameLists, Calm
  <2>2. q = p BY <1>3
  <2> HIDE DEF p, q
  <2>3. /\ q.state = p.state /\ q.background = p.background /\ q.aborted = p.aborted
        /\ q.interrupted = p.interrupted /\ q.count = p.count
        /\ q.intr_unique = p.intr_unique /\ q.error = p.error /\ q.end = p.end
        /\ q.ended = p.ended /\ q.stolen = p.stolen
        /\ q.locked => phase \in {"locked", "failed"} /\ (p.locked \/ ~ p.aborted)
        /\ q.asleep => p.asleep
    BY <2>2, <1>3
  <2> HIDE DEF r
  <2>4. thread[d].req = r BY DEF r
  <2> QED BY <1>1, <1>2, <1>3, <2>1, <2>3, <2>4, PhaseStep DEF p, q
<1>4. ASSUME NEW b \in BOOLEAN, NEW phase, Phase(d, phase), b => phase = "locked" /\ ~ p.aborted,
             fc' = [fc EXCEPT !.req[r].locked = b]
             \/ (~ b /\ fc' = wake_up([fc EXCEPT !.req[r].locked = b], r))
      PROVE  Result
  <2>1. /\ OnlyReq(fc, fc', r) /\ Calm(fc, fc')
        /\ q.state = p.state /\ q.background = p.background /\ q.aborted = p.aborted
        /\ q.interrupted = p.interrupted /\ q.count = p.count
        /\ q.intr_unique = p.intr_unique /\ q.error = p.error /\ q.end = p.end
        /\ q.ended = p.ended /\ q.stolen = p.stolen
        /\ q.locked = b /\ (q.asleep => p.asleep)
    <3> HIDE DEF r
    <3> QED BY <1>2, <1>4, LockedEffect
  <2> HIDE DEF r
  <2>2. thread[d].req = r BY DEF r
  <2> QED BY <1>1, <1>2, <1>4, <2>1, <2>2, PhaseStep
<1>5. CASE lock_request(d)
  <2>1. \/ UNCHANGED fc /\ Phase(d, "failed")
        \/ ~ p.aborted /\ fc' = [fc EXCEPT !.req[r].locked = TRUE] /\ Phase(d, "locked")
    BY <1>5 DEF lock_request
  <2> HIDE DEF r
  <2> QED BY <2>1, <1>3, <1>4
<1>6. CASE unlock_request(d)
  <2>1. /\ Phase(d, "unlocked")
        /\ \/ fc' = [fc EXCEPT !.req[r].locked = FALSE]
           \/ fc' = wake_up([fc EXCEPT !.req[r].locked = FALSE], r)
    BY <1>6 DEF unlock_request
  <2> HIDE DEF r
  <2> QED BY <2>1, <1>4
<1>7. CASE CopyFail(d) \/ WrongLength(d)
  <2>1. UNCHANGED fc /\ Phase(d, "failed") BY <1>7 DEF CopyFail, WrongLength
  <2> QED BY <2>1, <1>3
<1> QED BY <1>5, <1>6, <1>7

-----------------------------------------------------------------------------
(***************************************************************************)
(* Answers.                                                                *)
(***************************************************************************)
\* The answer to an interrupt.
LEMMA WriteInterruptReplyStep ==
  ASSUME Inv, TypeInv', NEW d \in Thread, NEW m \in inbox, WriteInterruptReply(d, m)
  PROVE  Result
<1>1. Good(fc) /\ fc' \in Conn /\ fc \in Conn BY InvGood DEF Inv, TypeInv, TypeOK, Good
<1>2. UNCHANGED <<task, thread, abort>>
  BY DEF WriteInterruptReply, Found, Writer
<1>3. PICK r \in Requests :
        \/ fc' = [fc EXCEPT !.no_interrupt = TRUE]
        \/ Found(d, m, r) /\ fc' = queue_interrupt(fc, r)
        \/ UNCHANGED fc
  BY DEF WriteInterruptReply
<1>4. CASE fc' = [fc EXCEPT !.no_interrupt = TRUE]
  <2>1. /\ fc'.req = fc.req
        /\ fc'.pending = fc.pending /\ fc'.bg_queue = fc.bg_queue /\ fc'.io = fc.io
        /\ fc'.processing = fc.processing /\ fc'.interrupts = fc.interrupts
        /\ fc'.connected = fc.connected /\ fc'.reserved = fc.reserved
        /\ fc'.blocked = fc.blocked /\ fc'.blocked_waitq = fc.blocked_waitq
    BY <1>1, <1>4 DEF Conn
  <2>2. Good(fc') /\ Calm(fc, fc') /\ \A s \in Requests : Same(fc, fc', s)
    BY <1>1, <2>1, QuietEffect
  <2> QED BY <1>2, <2>2, QuietStep
<1>5. CASE UNCHANGED fc BY <1>2, <1>5, StutterStep
<1>6. CASE fc' = queue_interrupt(fc, r)
  <2> DEFINE e == queue_interrupt(fc, r)
  <2>1. /\ Good(e) /\ Calm(fc, e) /\ e.req = fc.req
        /\ e.pending = fc.pending /\ e.bg_queue = fc.bg_queue /\ e.io = fc.io
        /\ e.processing = fc.processing
        /\ Member(e.interrupts, r)
        /\ \A s \in Requests : s # r => Same(fc, e, s)
    BY <1>1, QueueInterruptEffect
  <2>2. fc' = e BY <1>6
  <2> HIDE DEF e
  <2>3. CallerAlone(r) /\ task' = task BY <1>2, OthersRestUnchanged DEF CallerAlone
  <2>4. /\ Worker(r)' = Worker(r) /\ OneWorker(r)' /\ Aborter(r)' = Aborter(r)
        /\ abort' = abort /\ PerRequest(r)
    BY <2>3, CallerView
  <2>5. Placed(r)' /\ Told(r)' /\ Worked(r)' /\ Called(r)'
    BY <2>1, <2>2, <2>3, <2>4 DEF PerRequest, Placed, Told, Worked, Called
  <2>6. Held(r)' BY <2>1, <2>2, <2>3, <2>4 DEF PerRequest, Held, OnDevice, CallerHolds
  <2>7. Callback(r)' BY <2>1, <2>2, <2>3, <2>4 DEF PerRequest, Callback, Owing
  <2>8. Taken(r)' /\ Sleeps(r)' BY <2>1, <2>2, <2>3, <2>4 DEF PerRequest, Taken, Sleeps
  <2>9. PerRequest(r)' BY <2>4, <2>5, <2>6, <2>7, <2>8 DEF PerRequest
  <2>10. Final(r) /\ Turns(r)
    BY <2>1, <2>2 DEF Final, Turns, Stays, Status, Outcome, Over, Ended
  <2>11. /\ Good(fc') /\ Calm(fc, fc')
         /\ \A s \in Requests : s # r => Left(fc, fc', s)
    BY <2>1, <2>2 DEF Left
  <2> QED BY <2>1, <2>2, <2>3, <2>9, <2>10, <2>11, CallerStep1
<1> QED BY <1>3, <1>4, <1>5, <1>6

\* An answer: the request is on its way back.
LEMMA WriteReplyStep ==
  ASSUME Inv, TypeInv', NEW d \in Thread, NEW m \in inbox, WriteReply(d, m)
  PROVE  Result
<1>1. Good(fc) /\ fc \in Conn /\ TypeOK BY InvGood DEF Inv, TypeInv, TypeOK
<1>2. PICK r \in Requests : /\ Found(d, m, r) /\ fc' = Replied(fc, r)
                            /\ Move(d, "write", r, "locked")
  BY DEF WriteReply
<1> DEFINE p == fc.req[r]
           q == fc'.req[r]
           e == Replied(fc, r)
           t == [Idle EXCEPT !.pc = "write", !.req = r, !.phase = "locked"]
<1>3. /\ thread[d].pc = "idle" /\ UNCHANGED <<task, abort>> /\ r \in fc.processing
      /\ fc.connected
  BY <1>2 DEF Found, Writer, request_find
<1>4. thread' = [thread EXCEPT ![d] = t] BY <1>2 DEF Move
<1>5. t.pc = "write" /\ t.req = r /\ t.phase = "locked" /\ t.end = FALSE BY DEF Idle
<1> HIDE DEF t
<1>6. /\ Good(e) /\ Calm(fc, e)
      /\ e.req[r] = [p EXCEPT !.state = "WRITING", !.error = "REPLY", !.locked = TRUE]
      /\ ~ Member(e.pending, r) /\ ~ Member(e.bg_queue, r)
      /\ r \in e.io /\ r \notin e.processing
      /\ \A s \in Requests : s # r => Same(fc, e, s)
  BY <1>1, RepliedEffect
<1> HIDE DEF e
<1>7. fc' = e BY <1>2 DEF e
<1>8. p.state = "SENT" BY <1>3 DEF Inv, PerRequest, Placed
<1>9. /\ Worker(r).pc = "idle" /\ Busy(r) = {} /\ ~ Worker(r).end
      /\ Aborter(r) = "no" /\ PerRequest(r)
      /\ p.error = "none" /\ ~ p.aborted /\ ~ p.locked
      /\ task[r] \notin Before \cup {"leaked", "end", "returned", "done"}
      /\ p.ended = 0 /\ OnDevice(r) /\ p \in Req
  BY <1>8, InQueue
<1>10. /\ q.state = "WRITING" /\ q.background = p.background /\ q.aborted = p.aborted
       /\ q.locked /\ q.interrupted = p.interrupted /\ q.count = p.count
       /\ q.intr_unique = p.intr_unique /\ q.error = "REPLY" /\ q.end = p.end
       /\ q.ended = p.ended /\ q.asleep = p.asleep /\ q.stolen = p.stolen
  BY <1>6, <1>7, <1>9 DEF Req
<1>11. Worker(r)' = t /\ OneWorker(r)' BY <1>1, <1>4, <1>5, <1>9, ThreadWorks
<1>12. Aborter(r)' = "no" /\ task' = task BY <1>3, <1>9, AbortRests
<1>13. r \notin NotifyReply BY <1>8, <1>9 DEF PerRequest, Told
<1>14. Placed(r)' /\ Told(r)' BY <1>6, <1>7, <1>9, <1>10, <1>12, <1>13 DEF Placed, Told
<1>15. Worked(r)' BY <1>5, <1>10, <1>11 DEF Worked
<1>16. Called(r)' BY <1>9, <1>10, <1>12 DEF PerRequest, Called, Before
<1>17. Held(r)'
  <2>1. OnDevice(r)' BY <1>10 DEF OnDevice
  <2>2. CallerHolds(r)' <=> CallerHolds(r) BY <1>12 DEF CallerHolds
  <2> QED BY <2>1, <2>2, <1>9, <1>10, <1>12 DEF PerRequest, Held, One
<1>18. Callback(r)'
  <2>1. Owing(r)' = Owing(r) BY <1>3, <1>5, <1>9, <1>10, <1>11, <1>12 DEF Owing, One
  <2> QED BY <2>1, <1>9, <1>10, <1>12 DEF PerRequest, Callback
<1>19. Taken(r)' /\ Sleeps(r)' BY <1>8, <1>9, <1>10, <1>12 DEF PerRequest, Taken, Sleeps
<1>20. PerRequest(r)'
  BY <1>11, <1>14, <1>15, <1>16, <1>17, <1>18, <1>19 DEF PerRequest
<1>21. Final(r) BY <1>8 DEF Final, Ended
<1>22. Turns(r)
  <2>1. Status(r)' = "taken" /\ Outcome(r)' = "none"
    BY <1>6, <1>7, <1>10 DEF Status, Outcome, Over, Ended
  <2>2. Status(r) = "taken" /\ Outcome(r) = "none"
    BY <1>8, <1>9 DEF PerRequest, Placed, Status, Outcome, Over, Ended
  <2> QED BY <2>1, <2>2 DEF Turns, Stays
<1>23. Good(fc') /\ Calm(fc, fc') /\ \A s \in Requests : s # r => Left(fc, fc', s)
  BY <1>6, <1>7 DEF Left
<1>24. Hands(d, r) BY <1>3, HandsIdle
<1> QED BY <1>3, <1>4, <1>5, <1>10, <1>20, <1>21, <1>22, <1>23, <1>24, DaemonStep

-----------------------------------------------------------------------------
(***************************************************************************)
(* The abort of the connection.                                            *)
(***************************************************************************)
\* Where the abort works on no request.
LEMMA AborterNone ==
  ASSUME NEW s, abort.pc \notin {"io_end", "end_pending", "end_processing"} \/ abort.req # s
  PROVE  Aborter(s) = "no"
BY DEF Aborter, AbortEnding

LEMMA AbortStep1 ==
  ASSUME Inv, TypeInv', UNCHANGED <<task, thread>>, NEW r \in Requests,
         \A s \in Requests : s # r => Aborter(s) = "no" /\ Aborter(s)' = "no",
         Good(fc'), Calm(fc, fc'), AbortGoes,
         \A s \in Requests : s # r => Left(fc, fc', s),
         PerRequest(r)', Final(r), Turns(r), fc'.req[r].stolen = fc.req[r].stolen
  PROVE  Result
<1>1. ASSUME NEW s \in Requests, s # r PROVE Kept(s)
  <2>1. OneWorker(s) BY DEF Inv, PerRequest
  <2>2. Worker(s)' = Worker(s) /\ OneWorker(s)' BY <2>1, ThreadsRest
  <2> QED BY <1>1, <2>2 DEF Kept
<1> QED BY <1>1, OneRequest

LEMMA AbortQuiet ==
  ASSUME Inv, TypeInv', UNCHANGED <<task, thread>>, Shared',
         \A s \in Requests : Aborter(s) = "no" /\ Aborter(s)' = "no" /\ Left(fc, fc', s),
         fc'.connected \in {fc.connected, FALSE}
  PROVE  Result
<1>1. ASSUME NEW s \in Requests PROVE Kept(s)
  <2>1. OneWorker(s) BY DEF Inv, PerRequest
  <2>2. Worker(s)' = Worker(s) /\ OneWorker(s)' BY <2>1, ThreadsRest
  <2> QED BY <2>2 DEF Kept
<1> QED BY <1>1, NoRequest

LEMMA AbortStartStep ==
  ASSUME Inv, TypeInv', AbortStart
  PROVE  Result
<1>1. fc \in Conn /\ abort \in AbortState BY DEF Inv, TypeInv, TypeOK
<1>2. /\ abort.pc = "no" /\ abort'.pc = "io" /\ UNCHANGED <<task, thread>>
      /\ fc' = [fc EXCEPT !.connected = FALSE, !.blocked = FALSE]
  BY <1>1 DEF AbortStart, AbortState
<1>3. /\ fc'.req = fc.req
      /\ fc'.pending = fc.pending /\ fc'.bg_queue = fc.bg_queue /\ fc'.io = fc.io
      /\ fc'.processing = fc.processing /\ fc'.interrupts = fc.interrupts
      /\ fc'.connected = FALSE /\ fc'.reserved = fc.reserved
  BY <1>1, <1>2 DEF Conn
<1>4. Shared' BY <1>2, <1>3 DEF Inv, Shared
<1>5. \A s \in Requests : Left(fc, fc', s) BY <1>3 DEF Left, Same
<1>6. \A s \in Requests : Aborter(s) = "no" /\ Aborter(s)' = "no"
  BY <1>2 DEF Aborter, AbortEnding
<1> QED BY <1>2, <1>3, <1>4, <1>5, <1>6, AbortQuiet

LEMMA AbortDoneStep ==
  ASSUME Inv, TypeInv', AbortDone
  PROVE  Result
<1>1. fc \in Conn /\ abort \in AbortState BY DEF Inv, TypeInv, TypeOK
<1>2. /\ abort.pc \in {"pending", "processing"} /\ abort'.pc = "done"
      /\ UNCHANGED <<task, thread>>
      /\ fc' = [fc EXCEPT !.forget_list = <<>>, !.blocked_waitq = {}]
  BY <1>1 DEF AbortDone, AbortState
<1>3. /\ fc'.req = fc.req
      /\ fc'.pending = fc.pending /\ fc'.bg_queue = fc.bg_queue /\ fc'.io = fc.io
      /\ fc'.processing = fc.processing /\ fc'.interrupts = fc.interrupts
      /\ fc'.connected = fc.connected /\ fc'.reserved = fc.reserved
      /\ fc'.blocked_waitq = {}
  BY <1>1, <1>2 DEF Conn
<1>4. Shared' BY <1>2, <1>3 DEF Inv, Shared
<1>5. \A s \in Requests : Left(fc, fc', s) BY <1>3 DEF Left, Same
<1>6. \A s \in Requests : Aborter(s) = "no" /\ Aborter(s)' = "no"
  BY <1>2 DEF Aborter, AbortEnding
<1> QED BY <1>2, <1>3, <1>4, <1>5, <1>6, AbortQuiet

LEMMA AbortQueuedStep ==
  ASSUME Inv, TypeInv', AbortQueued
  PROVE  Result
<1> DEFINE c == [fc EXCEPT !.max_background = UintMax]
           e == flush_bg_queue(c)
<1>1. fc \in Conn /\ abort \in AbortState /\ Good(fc) BY InvGood DEF Inv, TypeInv, TypeOK
<1>2. /\ abort.pc = "io" /\ abort'.pc = "pending" /\ UNCHANGED <<task, thread>> /\ fc' = e
  BY <1>1 DEF AbortQueued, AbortState
<1>3. /\ c.req = fc.req
      /\ c.pending = fc.pending /\ c.bg_queue = fc.bg_queue /\ c.io = fc.io
      /\ c.processing = fc.processing /\ c.interrupts = fc.interrupts
      /\ c.connected = fc.connected /\ c.reserved = fc.reserved
      /\ c.blocked = fc.blocked /\ c.blocked_waitq = fc.blocked_waitq /\ c \in Conn
  BY <1>1 DEF Conn
<1> HIDE DEF c
<1>4. Good(c) /\ Calm(fc, c) /\ \A s \in Requests : Same(fc, c, s)
  BY <1>1, <1>3, QuietEffect
<1>5. Good(e) /\ Calm(c, e) /\ \A s \in Requests : Left(c, e, s) BY <1>4, FlushEffect
<1> HIDE DEF e
<1>6. Good(fc') /\ Calm(fc, fc') BY <1>2, <1>4, <1>5, CalmTrans
<1>7. \A s \in Requests : Left(fc, fc', s) BY <1>2, <1>4, <1>5, SameTrans
<1>8. \A s \in Requests : fc'.req[s].stolen = fc.req[s].stolen
  BY <1>7 DEF Left, Same, Released, SameFields
<1>9. Shared' BY <1>2, <1>6, <1>8 DEF Inv, Shared, Good, Calm
<1>10. \A s \in Requests : Aborter(s) = "no" /\ Aborter(s)' = "no"
  BY <1>2 DEF Aborter, AbortEnding
<1>11. fc'.connected = fc.connected BY <1>6 DEF Calm
<1> QED BY <1>2, <1>7, <1>9, <1>10, <1>11, AbortQuiet

\* A request whose end is held back, and the connection with it.
HeldRequest(x, b) == [x EXCEPT !.end = FALSE, !.count = @ + 1, !.asleep = b]

HeldConn(f, r, b) ==
  [f EXCEPT !.req[r].end = FALSE, !.req[r].count = @ + 1, !.req[r].asleep = b]

SetRequest(f, r, q) == [f EXCEPT !.req[r] = q]

LEMMA HeldBack ==
  ASSUME NEW f \in Conn, NEW r \in Requests, NEW b \in BOOLEAN
  PROVE  LET x == f.req[r]
             y == HeldRequest(x, b)
         IN  /\ y \in Req /\ y.state = x.state /\ y.background = x.background
             /\ y.aborted = x.aborted /\ y.locked = x.locked
             /\ y.interrupted = x.interrupted /\ y.count = x.count + 1
             /\ y.intr_unique = x.intr_unique /\ y.error = x.error
             /\ y.ended = x.ended /\ y.stolen = x.stolen /\ ~ y.end /\ y.asleep = b
             /\ HeldConn(f, r, b) = SetRequest(f, r, y)
<1> DEFINE x == f.req[r]
           y == HeldRequest(x, b)
           n == x.count + 1
<1>1. x \in Req /\ f.req \in [Requests -> Req] BY ConnFields
<1>2. n \in Int BY <1>1 DEF Req
<1>0. y = [x EXCEPT !.end = FALSE, !.count = n, !.asleep = b] BY <1>1 DEF HeldRequest
<1> HIDE DEF n
<1>3. y \in Req BY <1>0, <1>1, <1>2 DEF Req
<1>4. /\ y.state = x.state /\ y.background = x.background
      /\ y.aborted = x.aborted /\ y.locked = x.locked
      /\ y.interrupted = x.interrupted /\ y.count = n
      /\ y.intr_unique = x.intr_unique /\ y.error = x.error
      /\ y.ended = x.ended /\ y.stolen = x.stolen /\ ~ y.end /\ y.asleep = b
  BY <1>0, <1>1 DEF Req
<1>5. HeldConn(f, r, b) = SetRequest(f, r, y)
  <2> DEFINE F(q) == [f EXCEPT !.req[r] = q]
             a == [x EXCEPT !.end = FALSE]
             c == [a EXCEPT !.count = n]
  <2>1. \A q : F(q).req = [f.req EXCEPT ![r] = q] /\ F(q).req[r] = q BY <1>1 DEF Conn
  <2>2. \A q, z : [F(q) EXCEPT !.req = [F(q).req EXCEPT ![r] = z]] = F(z) BY <1>1 DEF Conn
  <2>3. [f EXCEPT !.req[r].end = FALSE] = F(a) OBVIOUS
  <2>4. ASSUME NEW q, NEW z, z = [q EXCEPT !.count = n]
        PROVE  [F(q) EXCEPT !.req[r].count = n] = F(z)
    <3>1. F(q).req[r] = q /\ [F(q) EXCEPT !.req = [F(q).req EXCEPT ![r] = z]] = F(z)
      BY <2>1, <2>2
    <3> HIDE DEF F
    <3>2. [F(q) EXCEPT !.req[r].count = n] = [F(q) EXCEPT !.req = [F(q).req EXCEPT ![r] = z]]
      BY <3>1, <2>4
    <3> QED BY <3>1, <3>2
  <2>5. ASSUME NEW q, NEW z, z = [q EXCEPT !.asleep = b]
        PROVE  [F(q) EXCEPT !.req[r].asleep = b] = F(z)
    <3>1. F(q).req[r] = q /\ [F(q) EXCEPT !.req = [F(q).req EXCEPT ![r] = z]] = F(z)
      BY <2>1, <2>2
    <3> HIDE DEF F
    <3>2. [F(q) EXCEPT !.req[r].asleep = b] = [F(q) EXCEPT !.req = [F(q).req EXCEPT ![r] = z]]
      BY <3>1, <2>5
    <3> QED BY <3>1, <3>2
  <2>6. [F(a) EXCEPT !.req[r].count = n] = F(c) BY <2>4
  <2>7. f.req[r].count + 1 = n BY DEF n
  <2>8. [F(c) EXCEPT !.req[r].asleep = b] = F([c EXCEPT !.asleep = b]) BY <2>5
  <2>9. y = [c EXCEPT !.asleep = b] BY <1>0, <1>1
  <2> HIDE DEF F, a, c
  <2>10. HeldConn(f, r, b) = F(y)
    BY <2>3, <2>6, <2>7, <2>8, <2>9 DEF HeldConn
  <2> QED BY <2>10 DEF F, SetRequest
<1> QED BY <1>3, <1>4, <1>5 DEF n

\* A request whose copy has begun: its end is left to the thread that copies,
\* its callback to the abort.
LEMMA AbortedEffect ==
  ASSUME Inv, NEW r \in Requests, NEW h \in BOOLEAN
  PROVE  LET p == fc.req[r]
             e == IF h THEN AbortedHeld(r) ELSE Aborted(r)
             q == e.req[r]
         IN  /\ Good(e) /\ Calm(fc, e) /\ Off(e, r) /\ e.interrupts = fc.interrupts
             /\ \A s \in Requests : s # r => Same(fc, e, s)
             /\ q.state = "FINISHED" /\ q.background = p.background /\ q.aborted
             /\ q.locked = p.locked /\ q.interrupted = p.interrupted
             /\ q.count = p.count + One(h) /\ q.intr_unique = p.intr_unique
             /\ q.error = "ECONNABORTED" /\ q.ended = p.ended /\ q.stolen = p.stolen
             /\ q.end => p.end /\ ~ h
             /\ q.asleep => h /\ p.locked
<1> DEFINE p == fc.req[r]
           l == list_del(fc, r)
           x == [p EXCEPT !.aborted = TRUE, !.error = "ECONNABORTED", !.state = "FINISHED",
                          !.asleep = FALSE]
           y == HeldRequest(x, p.locked)
           f == [l EXCEPT !.req[r] = x]
           g == [l EXCEPT !.req[r] = y]
<1>1. fc \in Conn /\ p \in Req /\ Good(fc) BY InvGood, ConnFields DEF Inv, TypeInv, TypeOK
<1>2. l \in Conn /\ l.req = fc.req BY <1>1, ListDelFields
<1>3. l.req \in [Requests -> Req] BY <1>2, ConnFields
<1>4. "ECONNABORTED" \in Error /\ "FINISHED" \in State BY DEF Error, State
<1>5. /\ x \in Req /\ x.state = "FINISHED" /\ x.background = p.background /\ x.aborted
      /\ x.locked = p.locked /\ x.interrupted = p.interrupted
      /\ x.count = p.count /\ x.intr_unique = p.intr_unique
      /\ x.error = "ECONNABORTED" /\ x.ended = p.ended /\ x.stolen = p.stolen
      /\ x.end = p.end /\ ~ x.asleep
  BY <1>1, <1>4 DEF Req
<1>6. p.locked \in BOOLEAN /\ p.count \in Int BY <1>1 DEF Req
<1>7. Aborted(r) = f
  <2> HIDE DEF l
  <2> QED BY <1>2, <1>3 DEF Aborted, l, Conn
<1> HIDE DEF x, l
<1>8. /\ f \in Conn /\ f.req[r] = x /\ g = [f EXCEPT !.req[r] = y]
      /\ f.req \in [Requests -> Req] /\ r \in DOMAIN f.req /\ "req" \in DOMAIN f
  BY <1>2, <1>3, <1>5 DEF Conn
<1>9. y = HeldRequest(f.req[r], p.locked) /\ AbortedHeld(r) = HeldConn(f, r, p.locked)
  BY <1>7, <1>8 DEF AbortedHeld, HeldConn
<1> HIDE DEF f, g, y
<1>a. y \in Req BY <1>6, <1>8, <1>9, HeldBack
<1>c. AbortedHeld(r) = SetRequest(f, r, y)
  BY <1>6, <1>8, <1>9, HeldBack
<1>b. /\ y.state = x.state /\ y.background = x.background
      /\ y.aborted = x.aborted /\ y.locked = x.locked
      /\ y.interrupted = x.interrupted /\ y.count = x.count + 1
      /\ y.intr_unique = x.intr_unique /\ y.error = x.error
      /\ y.ended = x.ended /\ y.stolen = x.stolen /\ ~ y.end /\ y.asleep = p.locked
  BY <1>6, <1>8, <1>9, HeldBack
<1>10. AbortedHeld(r) = g BY <1>8, <1>c DEF SetRequest
<1>11. /\ Good(f) /\ Calm(fc, f) /\ Off(f, r) /\ f.req[r] = x
       /\ f.interrupts = fc.interrupts
       /\ \A s \in Requests : s # r => Same(fc, f, s)
  BY <1>1, <1>5, TakenOffEffect DEF f, l
<1>12. /\ Good(g) /\ Calm(fc, g) /\ Off(g, r) /\ g.req[r] = y
       /\ g.interrupts = fc.interrupts
       /\ \A s \in Requests : s # r => Same(fc, g, s)
  BY <1>1, <1>a, TakenOffEffect DEF g, l
<1>13. CASE h BY <1>5, <1>6, <1>b, <1>10, <1>12, <1>13 DEF One
<1>14. CASE ~ h BY <1>5, <1>6, <1>7, <1>11, <1>14 DEF One
<1> QED BY <1>13, <1>14

LEMMA AbortIoStep ==
  ASSUME Inv, TypeInv', NEW r \in Requests, AbortIo(r)
  PROVE  Result
<1> DEFINE p == fc.req[r]
           q == fc'.req[r]
           h == p.end
           e == IF h THEN AbortedHeld(r) ELSE Aborted(r)
<1>1. fc \in Conn /\ p \in Req /\ abort \in AbortState /\ PerRequest(r)
  BY ConnFields DEF Inv, TypeInv, TypeOK
<1>2. abort.pc = "io" /\ r \in fc.io /\ UNCHANGED <<task, thread>> BY DEF AbortIo
<1>3. fc' = e BY DEF AbortIo
<1>4. IF h THEN abort'.pc = "io_end" /\ abort'.req = r ELSE abort'.pc = "io"
  BY <1>1, <1>2 DEF AbortIo, AbortState
<1>5. h \in BOOLEAN BY <1>1 DEF Req
<1>6. /\ Good(e) /\ Calm(fc, e) /\ Off(e, r)
      /\ \A s \in Requests : s # r => Same(fc, e, s)
      /\ e.req[r].state = "FINISHED" /\ e.req[r].background = p.background /\ e.req[r].aborted
      /\ e.req[r].locked = p.locked /\ e.req[r].interrupted = p.interrupted
      /\ e.req[r].count = p.count + One(h) /\ e.req[r].intr_unique = p.intr_unique
      /\ e.req[r].error = "ECONNABORTED" /\ e.req[r].ended = p.ended
      /\ e.req[r].stolen = p.stolen
      /\ (e.req[r].end => p.end /\ ~ h)
      /\ (e.req[r].asleep => h /\ p.locked)
  BY <1>5, AbortedEffect
<1> HIDE DEF e
<1>7. /\ q.state = "FINISHED" /\ q.background = p.background /\ q.aborted
      /\ q.locked = p.locked /\ q.count = p.count + One(h)
      /\ q.error = "ECONNABORTED" /\ q.ended = p.ended /\ q.stolen = p.stolen
      /\ ~ q.end /\ (q.asleep => h /\ p.locked)
  BY <1>3, <1>6
<1>8. /\ ~ Member(fc'.pending, r) /\ ~ Member(fc'.bg_queue, r)
      /\ r \notin fc'.io /\ r \notin fc'.processing
  BY <1>3, <1>6 DEF Off
<1>9. p.state \in {"READING", "WRITING"} BY <1>1, <1>2 DEF PerRequest, Placed
<1>10. Worker(r).pc \in {"read", "write"} /\ ~ Worker(r).end /\ Worker(r).pc # "idle"
  BY <1>1, <1>9 DEF PerRequest, Worked
<1>11. Worker(r)' = Worker(r) /\ OneWorker(r)' /\ task' = task
  BY <1>1, <1>2, ThreadsRest DEF PerRequest
<1>12. \A s \in Requests : Aborter(s) = "no" /\ (s # r => Aborter(s)' = "no")
  BY <1>2, <1>4 DEF Aborter, AbortEnding
<1>13. Aborter(r)' = IF h THEN "io" ELSE "no" BY <1>4 DEF Aborter, AbortEnding
<1>14. task[r] \in Waits \cup {"sent"}
  BY <1>1, <1>9, <1>10 DEF PerRequest, Called, Before, Waits
<1>15. p.ended = 0 BY <1>1, <1>9, <1>14 DEF PerRequest, Callback, Waits
<1>16. (r \in Sync => ~ h) /\ (r \notin Sync => h)
  BY <1>1, <1>10, <1>12, <1>14, <1>15 DEF PerRequest, Callback, Owing, One, Waits
<1>17. r \notin Sync => task[r] = "sent"
  BY <1>1, <1>14 DEF PerRequest, Called, Before, Waits
<1>18. Placed(r)' /\ Told(r)' BY <1>7, <1>8 DEF Placed, Told
<1>19. Worked(r)' BY <1>1, <1>7, <1>10, <1>11 DEF PerRequest, Worked
<1>20. Called(r)' BY <1>1, <1>7, <1>11, <1>14 DEF PerRequest, Called, Before, Waits
<1>21. Held(r)'
  <2>1. OnDevice(r) /\ OnDevice(r)' BY <1>9, <1>10, <1>11 DEF OnDevice
  <2>2. CallerHolds(r)' <=> CallerHolds(r) BY <1>11 DEF CallerHolds
  <2>3. p.count \in Int BY <1>1 DEF Req
  <2> QED BY <2>1, <2>2, <2>3, <1>1, <1>7, <1>12, <1>13 DEF PerRequest, Held, One
<1>22. Callback(r)'
  <2>1. Owing(r)' = One(h) BY <1>7, <1>10, <1>11, <1>13, <1>14 DEF Owing, One, Waits
  <2> QED BY <2>1, <1>7, <1>11, <1>14, <1>15, <1>16 DEF Callback, One, Waits
<1>23. Taken(r)' BY <1>7, <1>11, <1>13, <1>16, <1>17 DEF Taken
<1>24. Sleeps(r)' BY <1>7, <1>10, <1>11 DEF Sleeps
<1>25. PerRequest(r)'
  BY <1>11, <1>18, <1>19, <1>20, <1>21, <1>22, <1>23, <1>24 DEF PerRequest
<1>26. Final(r) BY <1>9 DEF Final, Ended
<1>27. Turns(r)
  <2>1. Status(r)' = "over" /\ Outcome(r)' = "ECONNABORTED"
    BY <1>7, <1>8 DEF Status, Outcome, Over, Ended
  <2>2. p.error \in {"none", "REPLY"} BY <1>1, <1>9 DEF PerRequest, Told
  <2>3. ~ Member(fc.bg_queue, r) BY <1>1, <1>9 DEF PerRequest, Placed
  <2>5. Status(r) = "taken" BY <1>9, <2>2, <2>3 DEF Status, Over, Ended
  <2>4. ~ fc.connected BY <1>2 DEF Inv, Shared
  <2> QED BY <2>1, <2>4, <2>5 DEF Turns, Goes
<1>28. Good(fc') /\ Calm(fc, fc') /\ \A s \in Requests : s # r => Left(fc, fc', s)
  BY <1>3, <1>6 DEF Left
<1>29. AbortGoes BY <1>2, <1>4 DEF AbortGoes
<1> QED BY <1>2, <1>7, <1>12, <1>25, <1>26, <1>27, <1>28, <1>29, AbortStep1

\* The copy is over: the abort calls the callback and drops its reference.
LEMMA AbortIoEndStep ==
  ASSUME Inv, TypeInv', AbortIoEnd
  PROVE  Result
<1>1. fc \in Conn /\ abort \in AbortState /\ Good(fc) /\ abort.pc = "io_end"
  BY InvGood DEF Inv, TypeInv, TypeOK, AbortIoEnd
<1>2. abort.req \in Requests BY <1>1 DEF Inv, TypeInv, AbortHolds
<1>3. ASSUME NEW r \in Requests, r = abort.req PROVE Result
  <2> DEFINE p == fc.req[r]
             q == fc'.req[r]
             x == [p EXCEPT !.ended = @ + 1]
             c == [fc EXCEPT !.req[r] = x]
             e == fuse_put_request(c, r)
  <2>1. p \in Req /\ PerRequest(r) BY <1>1, ConnFields DEF Inv
  <2>2. /\ abort'.pc = "io" /\ ~ p.locked /\ ~ p.asleep /\ UNCHANGED <<task, thread>>
        /\ fc' = e
    BY <1>1, <1>3 DEF AbortIoEnd, AbortState
  <2>3. /\ x \in Req /\ x.state = p.state /\ x.background = p.background
        /\ x.aborted = p.aborted /\ x.locked = p.locked /\ x.interrupted = p.interrupted
        /\ x.count = p.count /\ x.intr_unique = p.intr_unique /\ x.error = p.error
        /\ x.end = p.end /\ x.ended = p.ended + 1 /\ x.asleep = p.asleep
        /\ x.stolen = p.stolen
    BY <2>1 DEF Req
  <2> HIDE DEF x
  <2>4. /\ Good(c) /\ Calm(fc, c) /\ c.req[r] = x
        /\ c.pending = fc.pending /\ c.bg_queue = fc.bg_queue /\ c.io = fc.io
        /\ c.processing = fc.processing /\ c.interrupts = fc.interrupts
        /\ \A s \in Requests : s # r => Same(fc, c, s)
    BY <1>1, <2>3, ReqEffect
  <2> HIDE DEF c
  <2>5. /\ Good(e) /\ Calm(c, e)
        /\ e.req[r] = [x EXCEPT !.count = @ - 1]
        /\ e.pending = c.pending /\ e.bg_queue = c.bg_queue /\ e.io = c.io
        /\ e.processing = c.processing /\ e.interrupts = c.interrupts
        /\ \A s \in Requests : s # r => Same(c, e, s)
    BY <2>4, PutEffect
  <2> HIDE DEF e
  <2>6. /\ q.state = p.state /\ q.background = p.background /\ q.aborted = p.aborted
        /\ q.locked = p.locked /\ q.interrupted = p.interrupted /\ q.count = p.count - 1
        /\ q.intr_unique = p.intr_unique /\ q.error = p.error /\ q.end = p.end
        /\ q.ended = p.ended + 1 /\ q.asleep = p.asleep /\ q.stolen = p.stolen
    BY <2>2, <2>3, <2>5 DEF Req
  <2>7. SameLists(fc, fc') BY <2>2, <2>4, <2>5 DEF SameLists
  <2>8. Aborter(r) = "io" BY <1>1, <1>3 DEF Aborter
  <2>9. \A s \in Requests : s # r => Aborter(s) = "no"
    BY <1>1, <1>3 DEF Aborter, AbortEnding
  <2>10. \A s \in Requests : Aborter(s)' = "no" BY <2>2 DEF Aborter, AbortEnding
  <2>11. Worker(r)' = Worker(r) /\ OneWorker(r)' /\ task' = task
    BY <2>1, <2>2, ThreadsRest DEF PerRequest
  <2>12. p.state = "FINISHED" /\ p.aborted /\ task[r] = "sent" /\ ~ p.end
    BY <2>1, <2>8 DEF PerRequest, Taken, Callback
  <2>13. r \notin Sync BY <2>1, <2>12 DEF PerRequest, Called, Before, Waits
  <2>14. Placed(r)' /\ Told(r)' /\ Worked(r)' /\ Called(r)'
    BY <2>1, <2>6, <2>7, <2>11 DEF SameLists, PerRequest, Placed, Told, Worked, Called
  <2>15. p.count \in Int /\ p.ended \in Nat BY <2>1 DEF Req
  <2>16. Held(r)'
    <3>1. OnDevice(r)' <=> OnDevice(r) BY <2>6, <2>8, <2>10, <2>11 DEF OnDevice
    <3>2. CallerHolds(r)' <=> CallerHolds(r) BY <2>11 DEF CallerHolds
    <3> QED BY <3>1, <3>2, <2>1, <2>6, <2>8, <2>10, <2>15 DEF PerRequest, Held, One
  <2>17. Callback(r)'
    <3>1. p.ended + Owing(r) = 1 BY <2>1, <2>12, <2>13 DEF PerRequest, Callback
    <3>2. Owing(r) = One(Worker(r).end) + 1 BY <2>8, <2>12 DEF Owing, One
    <3>3. Owing(r)' = One(Worker(r).end) BY <2>6, <2>10, <2>11, <2>12 DEF Owing, One
    <3>4. One(Worker(r).end) \in {0, 1} BY DEF One
    <3>5. p.ended + 1 + Owing(r)' = 1 BY <3>1, <3>2, <3>3, <3>4, <2>15
    <3> QED BY <3>5, <2>2, <2>6, <2>11, <2>12, <2>13 DEF Callback
  <2>18. Taken(r)' /\ Sleeps(r)' BY <2>2, <2>6, <2>10, <2>12 DEF Taken, Sleeps
  <2>19. PerRequest(r)' BY <2>11, <2>14, <2>16, <2>17, <2>18 DEF PerRequest
  <2>20. Final(r) /\ Turns(r)
    BY <2>6, <2>7 DEF SameLists, Final, Turns, Stays, Status, Outcome, Over, Ended
  <2>21. Good(fc') /\ Calm(fc, fc') BY <2>2, <2>4, <2>5, CalmTrans
  <2>22. \A s \in Requests : s # r => Left(fc, fc', s) BY <2>2, <2>4, <2>5 DEF Left, Same
  <2>23. AbortGoes BY <1>1, <2>2 DEF AbortGoes
  <2> QED BY <2>2, <2>6, <2>9, <2>10, <2>19, <2>20, <2>21, <2>22, <2>23, AbortStep1
<1> QED BY <1>2, <1>3

\* A request is ended from its list.
LEMMA AbortEndStep ==
  ASSUME Inv, TypeInv', NEW r \in Requests, NEW next \in {"end_pending", "end_processing"},
         AbortEnd(r, next), abort.pc \in {"pending", "processing"},
         fc.req[r].state = "SENT" \/ (fc.req[r].state = "PENDING" /\ fc.req[r].error # "EINTR")
  PROVE  Result
<1> DEFINE p == fc.req[r]
           q == fc'.req[r]
           x == [p EXCEPT !.error = "ECONNABORTED"]
           c == [fc EXCEPT !.req[r] = x]
           e == request_end(c, r)
<1>1. /\ Worker(r).pc = "idle" /\ Busy(r) = {} /\ ~ Worker(r).end
      /\ Aborter(r) = "no" /\ PerRequest(r)
      /\ p.error = "none" /\ ~ p.aborted /\ ~ p.locked
      /\ task[r] \notin Before \cup {"leaked", "end", "returned", "done"}
      /\ p.ended = 0 /\ OnDevice(r)
      /\ (r \in Sync => ~ p.end) /\ (r \notin Sync => p.end)
      /\ fc \in Conn /\ p \in Req /\ Good(fc)
  BY InQueue
<1>2. "ECONNABORTED" \in Error BY DEF Error
<1>3. /\ x \in Req /\ x.background = p.background
      /\ x.aborted = p.aborted /\ x.locked = p.locked /\ x.interrupted = p.interrupted
      /\ x.count = p.count /\ x.intr_unique = p.intr_unique /\ x.error = "ECONNABORTED"
      /\ x.ended = p.ended /\ x.asleep = p.asleep /\ x.stolen = p.stolen
  BY <1>1, <1>2 DEF Req
<1>4. /\ fc' = e /\ abort'.pc = next /\ abort'.req = r /\ abort'.end = p.end
      /\ UNCHANGED <<task, thread>>
  <2>1. fc.req[r] \in Req /\ r \in DOMAIN fc.req /\ "req" \in DOMAIN fc BY <1>1 DEF Conn
  <2>2. [fc EXCEPT !.req[r].error = "ECONNABORTED"] = c OBVIOUS
  <2> HIDE DEF c
  <2> QED BY <2>2 DEF AbortEnd
<1> HIDE DEF x
<1>5. /\ Good(c) /\ Calm(fc, c) /\ c.req[r] = x
      /\ \A s \in Requests : s # r => Same(fc, c, s)
  BY <1>1, <1>3, ReqEffect
<1> HIDE DEF c
<1>6. /\ Good(e) /\ Calm(c, e) /\ Off(e, r)
      /\ \A s \in Requests : s # r => Left(c, e, s)
      /\ e.req[r] = [x EXCEPT !.state = "FINISHED", !.end = FALSE]
  BY <1>5, RequestEndEffect
<1> HIDE DEF e
<1>7. /\ q.state = "FINISHED" /\ q.background = p.background /\ ~ q.aborted
      /\ ~ q.locked /\ q.count = p.count /\ q.error = "ECONNABORTED" /\ ~ q.end
      /\ q.ended = 0 /\ q.asleep = p.asleep /\ q.stolen = p.stolen
  BY <1>1, <1>3, <1>4, <1>6 DEF Req
<1>8. /\ ~ Member(fc'.pending, r) /\ ~ Member(fc'.bg_queue, r)
      /\ r \notin fc'.io /\ r \notin fc'.processing
  BY <1>4, <1>6 DEF Off
<1>9. Worker(r)' = Worker(r) /\ OneWorker(r)' /\ task' = task
  BY <1>1, <1>4, ThreadsRest DEF PerRequest
<1>10. Aborter(r)' = "end" BY <1>4 DEF Aborter, AbortEnding
<1>11. \A s \in Requests : s # r => Aborter(s) = "no" /\ Aborter(s)' = "no"
  BY <1>4 DEF Aborter, AbortEnding
<1>12. p.end \in BOOLEAN BY <1>1 DEF Req
<1>13. Placed(r)' /\ Told(r)' BY <1>7, <1>8 DEF Placed, Told
<1>14. Worked(r)' BY <1>1, <1>7, <1>9 DEF Worked
<1>15. Called(r)' BY <1>1, <1>7, <1>9 DEF PerRequest, Called, Before
<1>16. Held(r)'
  <2>1. OnDevice(r)' BY <1>10 DEF OnDevice
  <2>2. CallerHolds(r)' <=> CallerHolds(r) BY <1>9 DEF CallerHolds
  <2> QED BY <2>1, <2>2, <1>1, <1>7, <1>10 DEF PerRequest, Held, One
<1>17. Callback(r)'
  <2>1. Owing(r)' = One(p.end) BY <1>1, <1>4, <1>7, <1>9, <1>10 DEF Owing, One
  <2> QED BY <2>1, <1>1, <1>7, <1>9 DEF Callback, One
<1>18. Taken(r)' BY <1>1, <1>7, <1>9, <1>10 DEF Taken
<1>19. Sleeps(r)'
  <2>1. p.asleep => r \in Sync \/ p.state = "FINISHED" BY <1>1 DEF PerRequest, Sleeps
  <2> QED BY <2>1, <1>7, <1>10 DEF Sleeps
<1>20. PerRequest(r)'
  BY <1>9, <1>13, <1>14, <1>15, <1>16, <1>17, <1>18, <1>19 DEF PerRequest
<1>21. Final(r) BY DEF Final, Ended
<1>22. Turns(r)
  <2>1. Status(r)' = "over" /\ Outcome(r)' = "ECONNABORTED"
    BY <1>7, <1>8 DEF Status, Outcome, Over, Ended
  <2>2. ~ Member(fc.bg_queue, r) BY <1>1 DEF PerRequest, Placed
  <2>3. Status(r) \in {"taken", "queued"} BY <1>1, <2>2 DEF Status, Over, Ended
  <2>4. ~ fc.connected BY DEF Inv, Shared
  <2> QED BY <2>1, <2>3, <2>4 DEF Turns, Goes
<1>23. Good(fc') /\ Calm(fc, fc') BY <1>4, <1>5, <1>6, CalmTrans
<1>24. \A s \in Requests : s # r => Left(fc, fc', s) BY <1>4, <1>5, <1>6, SameTrans
<1>25. AbortGoes BY <1>4 DEF AbortGoes
<1> QED BY <1>4, <1>7, <1>11, <1>20, <1>21, <1>22, <1>23, <1>24, <1>25, AbortStep1

LEMMA AbortListStep ==
  ASSUME Inv, TypeInv', AbortPending \/ AbortProcessing
  PROVE  Result
<1>1. Good(fc) /\ fc \in Conn BY InvGood DEF Inv, TypeInv, TypeOK
<1>2. CASE AbortPending
  <2> DEFINE h == Head(fc.pending)
  <2>1. abort.pc = "pending" /\ fc.pending # <<>> /\ AbortEnd(h, "end_pending")
    BY <1>2 DEF AbortPending
  <2>2. h \in Requests /\ Member(fc.pending, h)
    BY <1>1, <2>1, ConnFields, TailMember
  <2> HIDE DEF h
  <2>3. fc.req[h].state = "PENDING" /\ fc.req[h].error # "EINTR"
    BY <2>2 DEF Inv, PerRequest, Placed
  <2> QED BY <2>1, <2>2, <2>3, AbortEndStep
<1>3. CASE AbortProcessing
  <2>1. PICK r \in fc.processing : AbortEnd(r, "end_processing") BY <1>3 DEF AbortProcessing
  <2>2. r \in Requests BY <1>1, ConnFields
  <2>3. fc.req[r].state = "SENT" BY <2>1, <2>2 DEF Inv, PerRequest, Placed
  <2>4. abort.pc \in {"pending", "processing"} BY <1>3 DEF AbortProcessing
  <2> QED BY <2>1, <2>2, <2>3, <2>4, AbortEndStep
<1> QED BY <1>2, <1>3

\* The rest of request_end for a request the abort has ended.
LEMMA AbortTailStep ==
  ASSUME Inv, TypeInv',
         AbortTail("end_pending", "pending") \/ AbortTail("end_processing", "processing")
  PROVE  Result
<1>1. fc \in Conn /\ abort \in AbortState /\ Good(fc) BY InvGood DEF Inv, TypeInv, TypeOK
<1>2. /\ abort.pc \in {"end_pending", "end_processing"}
      /\ abort'.pc \in {"pending", "processing"} /\ UNCHANGED <<task, thread>>
      /\ fc' = EndTail(fc, abort.req, abort.end)
  BY <1>1 DEF AbortTail, AbortState
<1>3. abort.req \in Requests /\ abort.end \in BOOLEAN
  BY <1>1, <1>2 DEF Inv, TypeInv, AbortHolds, AbortState
<1>4. ASSUME NEW r \in Requests, r = abort.req, NEW end \in BOOLEAN, end = abort.end
      PROVE  Result
  <2> DEFINE p == fc.req[r]
             q == fc'.req[r]
             e == EndTail(fc, r, end)
  <2>1. p \in Req /\ PerRequest(r) BY <1>1, ConnFields DEF Inv
  <2>2. fc' = e BY <1>2, <1>4
  <2>3. /\ Good(e) /\ Calm(fc, e)
        /\ e.req[r].state = p.state /\ e.req[r].background = p.background
        /\ e.req[r].aborted = p.aborted
        /\ e.req[r].locked = p.locked /\ e.req[r].interrupted = p.interrupted
        /\ e.req[r].count = p.count - 1 /\ e.req[r].intr_unique = p.intr_unique
        /\ e.req[r].error = p.error /\ e.req[r].end = p.end
        /\ e.req[r].ended = p.ended + One(end)
        /\ ~ e.req[r].asleep /\ e.req[r].stolen = p.stolen
        /\ e.pending = fc.pending /\ e.bg_queue = fc.bg_queue /\ e.io = fc.io
        /\ e.processing = fc.processing /\ e.interrupts = fc.interrupts
        /\ \A s \in Requests : s # r => Same(fc, e, s)
    BY <1>1, EndTailEffect
  <2> HIDE DEF e
  <2>4. /\ q.state = p.state /\ q.background = p.background /\ q.aborted = p.aborted
        /\ q.locked = p.locked /\ q.interrupted = p.interrupted /\ q.count = p.count - 1
        /\ q.intr_unique = p.intr_unique /\ q.error = p.error /\ q.end = p.end
        /\ q.ended = p.ended + One(end) /\ ~ q.asleep /\ q.stolen = p.stolen
    BY <2>2, <2>3
  <2>5. SameLists(fc, fc') BY <2>2, <2>3 DEF SameLists
  <2>6. Aborter(r) = "end" BY <1>2, <1>4 DEF Aborter, AbortEnding
  <2>7. \A s \in Requests : s # r => Aborter(s) = "no"
    BY <1>2, <1>4 DEF Aborter, AbortEnding
  <2>8. \A s \in Requests : Aborter(s)' = "no" BY <1>2 DEF Aborter, AbortEnding
  <2>9. Worker(r)' = Worker(r) /\ OneWorker(r)' /\ task' = task
    BY <1>2, <2>1, ThreadsRest DEF PerRequest
  <2>10. p.state = "FINISHED" /\ Worker(r).pc = "idle" /\ task[r] # "end" /\ ~ p.end
    BY <2>1, <2>6 DEF PerRequest, Taken, Callback
  <2>11. ~ p.locked /\ ~ Worker(r).end BY <2>1, <2>10 DEF PerRequest, Worked
  <2>12. Placed(r)' /\ Told(r)' /\ Worked(r)' /\ Called(r)'
    BY <2>1, <2>4, <2>5, <2>9 DEF SameLists, PerRequest, Placed, Told, Worked, Called
  <2>13. p.count \in Int /\ p.ended \in Nat BY <2>1 DEF Req
  <2>14. Held(r)'
    <3>1. OnDevice(r) /\ ~ OnDevice(r)' BY <2>4, <2>6, <2>8, <2>9, <2>10 DEF OnDevice
    <3>2. CallerHolds(r)' <=> CallerHolds(r) BY <2>9 DEF CallerHolds
    <3> QED BY <3>1, <3>2, <2>1, <2>4, <2>6, <2>8, <2>13 DEF PerRequest, Held, One
  <2>15. Callback(r)'
    <3>1. Owing(r) = One(end) BY <1>4, <2>6, <2>10, <2>11 DEF Owing, One
    <3>2. Owing(r)' = 0 BY <2>4, <2>8, <2>9, <2>10, <2>11 DEF Owing, One
    <3>3. task[r] # "leaked" BY <2>1, <2>10 DEF PerRequest, Called
    <3>4. r \in Sync => One(end) = 0 /\ p.ended = 0 BY <3>1, <2>1 DEF PerRequest, Callback
    <3>5. r \notin Sync => p.ended + One(end) = 1 BY <3>1, <3>3, <2>1 DEF PerRequest, Callback
    <3> QED BY <3>2, <3>3, <3>4, <3>5, <2>4, <2>9, <2>10, <2>11 DEF Callback
  <2>16. Taken(r)' /\ Sleeps(r)' BY <2>4, <2>8, <2>10 DEF Taken, Sleeps
  <2>17. PerRequest(r)' BY <2>9, <2>12, <2>14, <2>15, <2>16 DEF PerRequest
  <2>18. Final(r) /\ Turns(r)
    BY <2>4, <2>5 DEF SameLists, Final, Turns, Stays, Status, Outcome, Over, Ended
  <2>19. /\ Good(fc') /\ Calm(fc, fc')
         /\ \A s \in Requests : s # r => Left(fc, fc', s)
    BY <2>2, <2>3 DEF Left
  <2>20. AbortGoes BY <1>2 DEF AbortGoes
  <2> QED BY <1>2, <2>4, <2>7, <2>8, <2>17, <2>18, <2>19, <2>20, AbortStep1
<1> QED BY <1>3, <1>4

-----------------------------------------------------------------------------
(***************************************************************************)
(* Every step.                                                             *)
(***************************************************************************)
LEMMA DaemonResult ==
  ASSUME Inv, TypeInv', NEW d \in Thread, Daemon(d)
  PROVE  Result
<1>1. CASE Inside(d)
  BY <1>1, CopyStep, ReadFinishStep, WriteFinishStep, ThreadEndStep DEF Inside
<1>2. CASE Read(d)
  BY <1>2, ReadInterruptStep, ReadForgetStep, ReadRequestStep, ReadTooLargeStep DEF Read
<1>3. ASSUME NEW m \in inbox, Write(d, m) PROVE Result
  <2>1. CASE WriteNoEntry(d, m)
    <3>1. UNCHANGED <<fc, task, thread, abort>> BY <2>1 DEF WriteNoEntry, Writer
    <3> QED BY <3>1, StutterStep
  <2> QED BY <1>3, <2>1, WriteInterruptReplyStep, WriteReplyStep DEF Write
<1>4. CASE \E r \in NotifyReply : Retrieve(d, r)
  BY <1>4, RetrieveStep
<1> QED BY <1>1, <1>2, <1>3, <1>4 DEF Daemon

LEMMA AbortResult ==
  ASSUME Inv, TypeInv', Abort
  PROVE  Result
BY AbortStartStep, AbortIoStep, AbortIoEndStep, AbortQueuedStep, AbortListStep,
   AbortTailStep, AbortDoneStep DEF Abort, AbortStep

LEMMA InvInit == Init => Inv
<1> SUFFICES ASSUME Init PROVE Inv OBVIOUS
<1>1. TypeInv BY TypeInit
<1>2. Shared
  BY DEF Init, Shared, NoDuplicate, NewReq
<1>3. ASSUME NEW r \in Requests PROVE PerRequest(r)
  <2>1. fc.req[r] = NewReq(r) /\ task[r] = "start" BY DEF Init
  <2>2. /\ fc.pending = <<>> /\ fc.bg_queue = <<>> /\ fc.io = {} /\ fc.processing = {}
        /\ abort.pc = "no" /\ \A d \in Thread : thread[d] = Idle
    BY DEF Init
  <2>3. Busy(r) = {} BY <2>2, IdleType DEF Busy
  <2>4. Worker(r) = Idle /\ Worker(r).pc = "idle" /\ OneWorker(r) /\ ~ Idle.end
    BY <2>3, NoWorker DEF Idle
  <2>5. Aborter(r) = "no" BY <2>2 DEF Aborter, AbortEnding
  <2>6. Placed(r) /\ Told(r) BY <2>1, <2>2 DEF Placed, Told, NewReq, Member
  <2>7. Worked(r) /\ Called(r) BY <2>1, <2>4 DEF Worked, Called, NewReq, Before, Waits
  <2>8. Held(r)
    BY <2>1, <2>4, <2>5 DEF Held, OnDevice, CallerHolds, NewReq, One
  <2>9. Callback(r)
    <3>0. PICK b \in BOOLEAN : b = (r \notin Sync) BY Zenon
    <3>4. fc.req[r].end = b BY <2>1, <3>0 DEF NewReq
    <3>1. fc.req[r].end <=> r \notin Sync BY <3>0, <3>4
    <3>2. fc.req[r].ended = 0 /\ fc.req[r].state = "INIT" BY <2>1 DEF NewReq
    <3>3. Owing(r) = IF r \in Sync THEN 0 ELSE 1
      BY <2>1, <2>4, <2>5, <3>1 DEF Owing, One
    <3> QED BY <2>1, <3>2, <3>3 DEF Callback
  <2>10. Taken(r) /\ Sleeps(r) BY <2>1, <2>5 DEF Taken, Sleeps, NewReq
  <2> QED BY <2>4, <2>6, <2>7, <2>8, <2>9, <2>10 DEF PerRequest
<1> QED BY <1>1, <1>2, <1>3 DEF Inv

LEMMA InvStep == Inv /\ [Next]_vars => Result
<1> SUFFICES ASSUME Inv, [Next]_vars PROVE Result OBVIOUS
<1>1. TypeInv' BY TypeStep DEF Inv
<1>2. CASE UNCHANGED vars
  <2>1. UNCHANGED <<fc, task, thread, abort>> BY <1>2 DEF vars
  <2> QED BY <1>1, <2>1, StutterStep
<1>3. CASE Abort BY <1>1, <1>3, AbortResult
<1>4. CASE \E r \in Requests : Caller(r) BY <1>1, <1>4, CallerResult
<1>5. CASE \E d \in Thread : Daemon(d) BY <1>1, <1>5, DaemonResult
<1>6. CASE \E f \in Forget : QueueForget(f) BY <1>1, <1>6, QueueForgetStep
<1> QED BY <1>2, <1>3, <1>4, <1>5, <1>6 DEF Next, Quiet

\* The invariant holds, and every step shows what Result says.
THEOREM Requests_Inv == Spec => []Inv
<1>1. Inv /\ [Next]_vars => Inv' BY InvStep DEF Result
<1> QED BY InvInit, <1>1, PTL DEF Spec

=============================================================================
