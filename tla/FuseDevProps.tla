---------------------------- MODULE FuseDevProps ----------------------------
(***************************************************************************)
(* What the FUSE connection of FuseDev promises: safety, the abstract      *)
(* service it implements, and progress under fairness.                     *)
(***************************************************************************)
EXTENDS FuseDev

-----------------------------------------------------------------------------
(***************************************************************************)
(* Safety.                                                                 *)
(***************************************************************************)
\* The threads that still work on r outside the lock or are about to end it.
Busy(r) == {d \in Thread : thread[d].pc \in {"read", "write", "end"} /\ thread[d].req = r}

NoDuplicate(s) == \A i, j \in DOMAIN s : s[i] = s[j] => i = j

\* The caller took the request back while it was pending.
Withdrawn(r) == fc.req[r].error = "EINTR"

\* Every request is on the list its state names and on no other, whatever the
\* daemon, the caller and the abort did to it in which order: list_del and
\* list_move never work on a list the request is not on, request_find meets no
\* aborted request, and an interrupt waits only for a request the daemon has (an
\* abort may overtake it while the answer is being copied).
ListsMatchState ==
  /\ NoDuplicate(fc.pending) /\ NoDuplicate(fc.bg_queue)
  /\ NoDuplicate(fc.interrupts)
  /\ \A r \in Requests :
       LET q == fc.req[r]
       IN  /\ Member(fc.pending, r) <=> q.state = "PENDING" /\ ~ Withdrawn(r)
           /\ Member(fc.bg_queue, r) => q.state = "INIT" /\ q.background
           /\ r \in fc.io <=> q.state \in {"READING", "WRITING"}
           /\ r \in fc.processing <=> q.state = "SENT"
           /\ Member(fc.interrupts, r) =>
                q.state \in {"SENT", "WRITING"} \/ (q.aborted /\ Busy(r) # {})
           /\ q.aborted => q.state = "FINISHED"

AbortEnding(r) == abort.pc \in {"end_pending", "end_processing"} /\ abort.req = r

DeviceHolds(r) ==
  \/ Member(fc.pending, r) \/ Member(fc.bg_queue, r)
  \/ r \in fc.io \cup fc.processing \/ Busy(r) # {} \/ AbortEnding(r)

CallerHolds(r) ==
  \/ r \in Sync /\ task[r] \in {"ready", "wait_intr", "wait_kill", "wait_forced",
                                "wait_unlock", "returned"}
  \/ r \notin Sync /\ task[r] \in {"ready", "end", "leaked"}

\* The reference count is the number of parties that may still touch the
\* request: none uses it after it was freed, none forgets it, and one thread at
\* most works on it.  The end callback of a request without caller runs at most
\* once, and has run once nobody holds the request any more.  (A reply for a
\* retrieve that found the connection gone is never put: task "leaked".)  The
\* reserved request of a file is there or lent to one caller, who returns it.
RefsHeld ==
  /\ \A r \in Requests :
       /\ fc.req[r].count = One(CallerHolds(r)) + One(DeviceHolds(r))
                            + One(abort.pc = "io_end" /\ abort.req = r)
       /\ \A d, e \in Busy(r) : d = e
       /\ AbortEnding(r) => Busy(r) = {}
  /\ \A r \in Requests \ Sync :
       /\ fc.req[r].ended <= 1
       /\ task[r] = "sent" /\ fc.req[r].count = 0 => fc.req[r].ended = 1
  /\ Cardinality({r \in Requests : fc.req[r].stolen}) = One(~ fc.reserved)

\* While a daemon thread copies to or from the buffers of a request, its caller
\* has not returned from fuse_request_send and its end callback has not run:
\* the buffers are still there.  Abort and signals included.
CopyKeepsBuffers ==
  \A r \in Requests : fc.req[r].locked =>
    /\ \E d \in Busy(r) : thread[d].phase \in {"locked", "failed"}
    /\ r \in Sync => task[r] \in {"wait_intr", "wait_kill", "wait_forced", "wait_unlock"}
    /\ fc.req[r].ended = 0

\* Background requests that request_end has not reached yet: an aborted one is
\* finished before the thread that copies it ends it.
Charged ==
  {r \in Requests : fc.req[r].background /\
     (~ Ended(r) \/ \E d \in Busy(r) : thread[d].pc # "end")}

\* Every counter says what it counts.  Background requests are counted exactly
\* once while they are on their way, and as active from the moment they leave
\* bg_queue: whether they are answered, refused, aborted while copied, or ended
\* from a queue.  num_waiting counts the callers that wait for a request and the
\* requests in use: every path that fails gives its share back exactly once.
\* forget_batch turns within its limits: at most ForgetBatch forgets in a row
\* while requests wait, at most RequestBatch requests while forgets wait.
CountersExact ==
  /\ fc.num_background = Cardinality(Charged)
  /\ fc.active_background = fc.num_background - Len(fc.bg_queue)
  /\ fc.num_waiting = Cardinality({r \in Requests :
       task[r] \in {"get_wait", "get_reserved"} \/ (fc.req[r].waiting /\ fc.req[r].count > 0)})
  /\ fc.forget_batch \in (1 - RequestBatch) .. ForgetBatch

\* No more than max_background requests are active; requests wait in bg_queue
\* only when that many are; callers are held back and the device is congested
\* exactly at the two thresholds, so that the requests that end cannot leave a
\* connection blocked with room in it.
WithinLimits(c) ==
  /\ c.active_background <= c.max_background
  /\ c.bg_queue # <<>> => c.active_background = c.max_background
  /\ c.connected => /\ c.blocked <=> c.num_background >= MaxBackground
                    /\ c.congested <=> c.num_background >= CongestionThreshold

BackgroundLimits == WithinLimits(fc)

\* A message the daemon answers late, or an interrupt it answers, never finds
\* another request than the one it was about.
AnswersFindTheirRequest ==
  \A m \in inbox : \A r \in request_find(m.unique) :
    r = m.req /\ (m.intr <=> fc.req[r].intr_unique = m.unique)

\* A signal that comes while the request is on its way to the daemon is not
\* forgotten: once the daemon has it the interrupt waits for it or was read.
InterruptPassedOn ==
  \A r \in Requests : fc.req[r].interrupted /\ fc.req[r].state = "SENT" =>
    Member(fc.interrupts, r) \/ fc.req[r].intr_unique # 0

Waits == {"wait_intr", "wait_kill", "wait_forced", "wait_unlock"}

\* Whoever sleeps has something to wait for or somebody who will wake it up.
NoLostWakeup ==
  \A r \in Requests :
    /\ r \in fc.blocked_waitq => fc.blocked \/ abort.pc \notin {"no", "done"}
    /\ task[r] \in Waits /\ fc.req[r].asleep /\ Ended(r) =>
         Busy(r) # {} \/ AbortEnding(r)
    /\ abort.pc = "io_end" /\ abort.req = r /\ fc.req[r].asleep => Busy(r) # {}

\* What a caller was told stays: once a request is finished its error never
\* changes, however late the copy of its answer ends.
ResultFinal ==
  [][\A r \in Requests : Ended(r) =>
       Ended(r)' /\ (fc.req[r].error)' = fc.req[r].error]_vars

-----------------------------------------------------------------------------
(***************************************************************************)
(* The service the connection provides, see FuseService.                   *)
(***************************************************************************)
Over(r) == Ended(r) \/ fc.req[r].error \in {"EINTR", "ENOTCONN"}

Status(r) ==
  CASE Over(r) -> "over"
    [] ~ Over(r) /\ fc.req[r].state \in {"READING", "SENT", "WRITING"} -> "taken"
    [] fc.req[r].state = "PENDING" /\ ~ Over(r) -> "queued"
    [] Member(fc.bg_queue, r) -> "queued"
    [] OTHER -> "new"

Service ==
  INSTANCE FuseService WITH
    Silent  <- NotifyReply,
    open    <- fc.connected,
    status  <- [r \in Requests |-> Status(r)],
    outcome <- [r \in Requests |-> IF Over(r) THEN fc.req[r].error ELSE "none"]

\* Queues, copies, locks, reference counts and the steps of the abort are a way
\* to implement the service: every request goes through it once and gets the
\* outcome its history allows.
ImplementsService == Service!Spec

-----------------------------------------------------------------------------
(***************************************************************************)
(* Fairness.  A thread inside the kernel gets on: the scheduler runs it    *)
(* once it is woken or the lock is free, and a copy ends.  Nothing is      *)
(* assumed of signals, of new requests or of the start of an abort.        *)
(***************************************************************************)
CallerStep(r) ==
  \/ GetReqSleep(r) \/ GetReqKilled(r) \/ GetReqRefused(r) \/ GetReqDone(r)
  \/ WakeIntr(r) \/ WakeKill(r) \/ WakeForced(r) \/ WakeUnlock(r)
  \/ SendBackgroundEnd(r)
  \/ GetReqNoMemory(r) \/ get_reserved_req(r) \/ put_reserved_req(r)
  \/ r \in NoFail /\ (RequestSend(r) \/ RequestSendRefused(r) \/ PutRequest(r))

KernelFairness ==
  /\ \A r \in Requests : WF_vars(CallerStep(r))
  /\ \A d \in Thread : /\ WF_vars(lock_request(d))
                       /\ WF_vars(ReadFinish(d) \/ WriteFinish(d))
                       /\ WF_vars(ThreadEnd(d))
  /\ WF_vars(AbortStep)

\* A daemon that keeps reading and answers the requests it was given.
DaemonFairness ==
  /\ \A d \in Thread : WF_vars(Read(d))
  /\ WF_vars(\E d \in Thread, m \in inbox : ~ m.intr /\ Write(d, m))

FairSpec == Spec /\ KernelFairness

\* The kernel owes the caller of r a request, an answer, or the end of its request.
Owed(r) ==
  \/ task[r] \in {"get_wait", "get_reserved"} \cup Waits
  \/ task[r] = "sent" /\ fc.req[r].count > 0

\* No caller depends on the daemon's good will.  Once an abort has begun, every
\* caller gets what it waits for and every request without caller is ended; a
\* fatal signal frees the caller of a request the daemon has not read.
CallersGetAway ==
  \A r \in Requests :
    /\ (abort.pc # "no" /\ Owed(r)) ~> ~ Owed(r)
    /\ r \in Sync \ Forced =>
         ((task[r] \in {"wait_intr", "wait_kill"} /\ sig[r] = "fatal") ~>
            (\/ task[r] \in {"returned", "done"}
             \/ fc.req[r].state \in {"READING", "SENT", "WRITING"}))

\* A daemon that serves its requests releases every caller: also the ones held
\* back by max_background or waiting for the reserved request of their file, and
\* the background requests queued behind it.
EveryoneServed == DaemonFairness => \A r \in Requests : Owed(r) ~> ~ Owed(r)

=============================================================================
