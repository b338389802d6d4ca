------------------------------ MODULE FuseDev ------------------------------
(***************************************************************************)
(* The kernel side of one FUSE connection: requests queued by filesystem   *)
(* callers, handed to the threads of a userspace daemon that read and      *)
(* write the device, and ended by an answer, an error, a signal or an      *)
(* abort of the connection.                                                *)
(*                                                                         *)
(* One critical section under fc->lock is one atomic action.  The abort    *)
(* keeps the lock over several steps of its loops: abort.lock says that it *)
(* does, and every action that takes the lock is disabled meanwhile.  The  *)
(* operators named after C functions map the state of the connection to    *)
(* the state the function leaves.                                          *)
(*                                                                         *)
(* An operator whose name ends in _Bug is a mutation of the one after it:  *)
(* a slip that a property has to notice.  No specification uses it.        *)
(***************************************************************************)
EXTENDS Integers, FiniteSets, SequencesExt

CONSTANTS
  Sync,                \* Requests of a caller that waits for the answer.
  Background,          \* Requests sent without waiting (they have an end callback).
  NotifyReply,         \* Replies to FUSE_NOTIFY_RETRIEVE: sent, never answered.
  Forced,              \* Requests of Sync with req->force: no signal ends them.
  Raw,                 \* Requests of Background from fuse_request_alloc.
  NoFail,              \* Requests of Sync from fuse_get_req_nofail, for one open file.
  Thread,              \* Daemon threads that read and write the device.
  Forget,              \* Forget messages of the filesystem.
  MaxBackground,       \* fc->max_background while the connection lives.
  CongestionThreshold, \* fc->congestion_threshold.
  ForgetBatch,         \* Forgets read in a row while requests wait (16).
  RequestBatch,        \* Requests read in a row while forgets wait (8).
  UniqueMax,           \* The largest request id (2^64 - 1).
  UintMax,             \* UINT_MAX, the max_background of an aborted connection.
  StartCtr,            \* fc->reqctr when the run starts.
  RetryLimit,          \* Bound on the ids given for steps that could repeat forever.
  NoReq

Requests == Sync \cup Background \cup NotifyReply

ASSUME KindAssumption ==
  /\ Sync \cap Background = {} /\ Sync \cap NotifyReply = {}
  /\ Background \cap NotifyReply = {}
  /\ Forced \subseteq Sync /\ NoFail \subseteq Sync /\ Raw \subseteq Background
  /\ NoReq \notin Requests

ASSUME BoundAssumption ==
  /\ MaxBackground \in Nat \ {0} /\ CongestionThreshold \in Nat \ {0}
  /\ UintMax \in Nat /\ MaxBackground < UintMax
  /\ ForgetBatch \in Nat /\ RequestBatch \in Nat \ {0}
  /\ UniqueMax \in Nat \ {0} /\ StartCtr \in 0 .. UniqueMax /\ RetryLimit \in Nat

VARIABLES
  fc,      \* struct fuse_conn and the requests it reaches, see Conn.
  task,    \* task[r]: where the caller that owns request r stands.
  sig,     \* sig[r]: the signal pending for that caller.
  thread,  \* thread[d]: what daemon thread d does inside the kernel.
  abort,   \* The thread inside fuse_abort_conn.
  inbox    \* Messages the daemon has read and not answered.

vars == <<fc, task, sig, thread, abort, inbox>>

(***************************************************************************)
(* Types.                                                                  *)
(***************************************************************************)
State == {"INIT", "PENDING", "READING", "SENT", "WRITING", "FINISHED"}

Error == {"none", "REPLY", "ENOTCONN", "EINTR", "EIO", "ECONNABORTED"}

\* struct fuse_req.  end: the callback is armed; ended: how often it was
\* called; asleep: somebody sleeps on req->waitq; stolen: it is the reserved
\* request of the file (req->stolen_file).
Req == [state : State, background : BOOLEAN, aborted : BOOLEAN, locked : BOOLEAN,
        interrupted : BOOLEAN, waiting : BOOLEAN, count : Int,
        unique : 0 .. UniqueMax, intr_unique : 0 .. UniqueMax,
        error : Error, end : BOOLEAN, ended : Nat, asleep : BOOLEAN,
        stolen : BOOLEAN]

\* struct fuse_conn.  io and processing are sets: nothing observes their order.
\* reserved: the reserved request of the file is there (ff->reserved_req).
Conn == [connected : BOOLEAN, blocked : BOOLEAN, no_interrupt : BOOLEAN,
         congested : BOOLEAN, num_background : Int, active_background : Int,
         max_background : {MaxBackground, UintMax}, reqctr : 0 .. UniqueMax,
         num_waiting : Int, forget_batch : Int,
         pending : Seq(Requests), bg_queue : Seq(Requests), io : SUBSET Requests,
         processing : SUBSET Requests, interrupts : Seq(Requests),
         forget_list : Seq(Forget), blocked_waitq : SUBSET Requests,
         reserved : BOOLEAN,
         req : [Requests -> Req]]

TaskPc == {"start", "get_wait", "get_reserved", "ready", "wait_intr", "wait_kill", "wait_forced",
           "wait_unlock", "returned", "end", "sent", "leaked", "done", "failed"}

ThreadState == [pc : {"idle", "read", "write", "end", "retrieve"},
                req : Requests \cup {NoReq},
                phase : {"start", "locked", "unlocked", "failed"},
                end : BOOLEAN]

AbortState == [pc : {"no", "io", "io_end", "pending", "end_pending",
                     "processing", "end_processing", "done"},
               req : Requests \cup {NoReq}, end : BOOLEAN, lock : BOOLEAN]

Message == [req : Requests, unique : 0 .. UniqueMax, intr : BOOLEAN]

TypeOK ==
  /\ fc \in Conn
  /\ task \in [Requests -> TaskPc]
  /\ sig \in [Requests -> {"none", "signal", "fatal"}]
  /\ thread \in [Thread -> ThreadState]
  /\ abort \in AbortState
  /\ inbox \subseteq Message

(***************************************************************************)
(* Helpers on the connection.                                              *)
(***************************************************************************)
Member(s, r) == \E i \in DOMAIN s : s[i] = r

Del(s, r) ==
  IF Member(s, r) THEN RemoveAt(s, CHOOSE i \in DOMAIN s : s[i] = r) ELSE s

One(b) == IF b THEN 1 ELSE 0

Smaller(a, b) == IF a < b THEN a ELSE b

fuse_get_unique_NoWrap_Bug(ctr, k) == ctr + k

\* The k-th id after ctr: 64-bit, and zero is special.
fuse_get_unique(ctr, k) == ((ctr + k - 1) % UniqueMax) + 1

\* Not in the code: the bound on steps that could repeat forever.
MayRepeat == (fc.reqctr - StartCtr) % UniqueMax < RetryLimit

list_del(c, r) ==
  [c EXCEPT !.pending = Del(@, r), !.bg_queue = Del(@, r),
            !.io = @ \ {r}, !.processing = @ \ {r}]

wake_up(c, r) == [c EXCEPT !.req[r].asleep = FALSE]

queue_interrupt(c, r) == [c EXCEPT !.interrupts = Append(@, r)]

queue_request(c, r) ==
  [c EXCEPT !.pending = Append(@, r),
            !.num_waiting = IF c.req[r].waiting THEN @ ELSE @ + 1,
            !.req[r].state = "PENDING",
            !.req[r].waiting = TRUE]

\* The while loop in closed form: the first n of bg_queue become pending.
flush_bg_queue(c) ==
  LET n == IF c.active_background < c.max_background
           THEN Smaller(Len(c.bg_queue), c.max_background - c.active_background)
           ELSE 0
      moved == SubSeq(c.bg_queue, 1, n)
      uncounted == {i \in 1 .. n : ~ c.req[moved[i]].waiting}
  IN  [c EXCEPT !.bg_queue = SubSeq(@, n + 1, Len(@)),
                !.pending = @ \o moved,
                !.active_background = @ + n,
                !.num_waiting = @ + Cardinality(uncounted),
                !.reqctr = IF n = 0 THEN @ ELSE fuse_get_unique(@, n),
                !.req = [r \in Requests |->
                   IF Member(moved, r)
                   THEN [c.req[r] EXCEPT !.state = "PENDING", !.waiting = TRUE,
                          !.unique = fuse_get_unique(c.reqctr,
                                        CHOOSE i \in 1 .. n : moved[i] = r)]
                   ELSE c.req[r]]]

fuse_request_send_nowait_locked(c, r) ==
  LET n == c.num_background + 1
  IN  flush_bg_queue(
        [c EXCEPT !.req[r].background = TRUE,
                  !.num_background = n,
                  !.blocked = IF n = c.max_background THEN TRUE ELSE @,
                  !.congested = IF n = CongestionThreshold THEN TRUE ELSE @,
                  !.bg_queue = Append(@, r)])

fuse_put_request(c, r) ==
  [c EXCEPT !.req[r].count = @ - 1,
            !.num_waiting = IF c.req[r].count = 1 /\ c.req[r].waiting
                            THEN @ - 1 ELSE @]

request_end_NoFlush_Bug(c, r) ==
  LET b == c.req[r].background
      full == b /\ c.num_background = c.max_background
      calm == b /\ c.num_background = CongestionThreshold /\ c.connected
  IN  [list_del(c, r) EXCEPT !.interrupts = Del(@, r),
         !.req[r].state = "FINISHED", !.req[r].end = FALSE,
         !.blocked = IF full THEN FALSE ELSE @,
         !.blocked_waitq = IF full THEN {} ELSE @,
         !.congested = IF calm THEN FALSE ELSE @,
         !.num_background = IF b THEN @ - 1 ELSE @,
         !.active_background = IF b THEN @ - 1 ELSE @]

request_end_NoWakeup_Bug(c, r) ==
  LET d == [list_del(c, r) EXCEPT !.interrupts = Del(@, r),
              !.req[r].state = "FINISHED", !.req[r].end = FALSE]
  IN  IF ~ c.req[r].background THEN d
      ELSE flush_bg_queue(
             [d EXCEPT !.blocked = IF c.num_background = c.max_background
                                   THEN FALSE ELSE @,
                       !.num_background = @ - 1, !.active_background = @ - 1])

\* request_end up to spin_unlock.  Its caller keeps req[r].end for EndTail.
request_end(c, r) ==
  LET d == [list_del(c, r) EXCEPT !.interrupts = Del(@, r),
                                  !.req[r].state = "FINISHED",
                                  !.req[r].end = FALSE]
      full == c.num_background = c.max_background
      calm == c.num_background = CongestionThreshold /\ c.connected
  IN  IF ~ c.req[r].background THEN d
      ELSE flush_bg_queue(
             [d EXCEPT !.blocked = IF full THEN FALSE ELSE @,
                       !.blocked_waitq = IF full THEN {} ELSE @,
                       !.congested = IF calm THEN FALSE ELSE @,
                       !.num_background = @ - 1,
                       !.active_background = @ - 1])

\* request_end after spin_unlock.
EndTail(c, r, end) ==
  fuse_put_request(
    [wake_up(c, r) EXCEPT !.req[r].ended = IF end THEN @ + 1 ELSE @], r)

-----------------------------------------------------------------------------
(***************************************************************************)
(* Initial state: the connection after the INIT exchange, nothing sent.    *)
(***************************************************************************)
NewReq(r) ==
  [state |-> "INIT", background |-> FALSE, aborted |-> FALSE, locked |-> FALSE,
   interrupted |-> FALSE, waiting |-> FALSE, count |-> 0, unique |-> 0,
   intr_unique |-> 0, error |-> "none", end |-> r \notin Sync, ended |-> 0,
   asleep |-> FALSE, stolen |-> FALSE]

Idle == [pc |-> "idle", req |-> NoReq, phase |-> "start", end |-> FALSE]

Init ==
  /\ fc = [connected |-> TRUE, blocked |-> FALSE, no_interrupt |-> FALSE,
           congested |-> FALSE, num_background |-> 0, active_background |-> 0,
           max_background |-> MaxBackground, reqctr |-> StartCtr,
           num_waiting |-> 0, forget_batch |-> 0,
           pending |-> <<>>, bg_queue |-> <<>>, io |-> {}, processing |-> {},
           interrupts |-> <<>>, forget_list |-> <<>>, blocked_waitq |-> {}, reserved |-> TRUE,
           req |-> [r \in Requests |-> NewReq(r)]]
  /\ task = [r \in Requests |-> "start"]
  /\ sig = [r \in Requests |-> "none"]
  /\ thread = [d \in Thread |-> Idle]
  /\ abort = [pc |-> "no", req |-> NoReq, end |-> FALSE, lock |-> FALSE]
  /\ inbox = {}

LockFree == ~ abort.lock

Goto(r, pc) == task' = [task EXCEPT ![r] = pc]

-----------------------------------------------------------------------------
(***************************************************************************)
(* fuse_get_req and fuse_get_req_nofail: wait until the connection is not  *)
(* blocked, then allocate.                                                 *)
(***************************************************************************)
StartGet(r) ==
  /\ task[r] = "start"
  /\ fc' = [fc EXCEPT !.num_waiting = @ + 1,
                      !.blocked_waitq = IF fc.blocked THEN @ \cup {r} ELSE @]
  /\ Goto(r, "get_wait")
  /\ UNCHANGED <<sig, abort, inbox>>

GetReq(r) == r \notin Raw \cup NotifyReply /\ StartGet(r) /\ UNCHANGED thread

\* Woken up, but the connection is blocked again: back to sleep.
GetReqSleep(r) ==
  /\ task[r] = "get_wait" /\ r \notin fc.blocked_waitq /\ fc.blocked
  /\ fc' = [fc EXCEPT !.blocked_waitq = @ \cup {r}]
  /\ UNCHANGED <<task, sig, thread, abort, inbox>>

\* A daemon thread inside FUSE_NOTIFY_RETRIEVE goes back to userspace.
Leave(r) == [d \in Thread |-> IF thread[d].pc = "retrieve" /\ thread[d].req = r
                              THEN Idle ELSE thread[d]]

GetReqFail_StillCounted_Bug(r) ==
  /\ fc' = [fc EXCEPT !.blocked_waitq = @ \ {r}]
  /\ Goto(r, "failed")
  /\ thread' = Leave(r)
  /\ UNCHANGED <<sig, abort, inbox>>

GetReqFail(r) ==
  /\ fc' = [fc EXCEPT !.num_waiting = @ - 1, !.blocked_waitq = @ \ {r}]
  /\ Goto(r, "failed")
  /\ thread' = Leave(r)
  /\ UNCHANGED <<sig, abort, inbox>>

GetReqKilled(r) ==
  /\ task[r] = "get_wait" /\ fc.blocked /\ sig[r] = "fatal" /\ r \notin NoFail
  /\ GetReqFail(r)

LetIn(r) == task[r] = "get_wait" /\ r \notin fc.blocked_waitq /\ ~ fc.blocked

\* ENOTCONN when the connection is gone, ENOMEM at any time.
GetReqRefused(r) == LetIn(r) /\ r \notin NoFail /\ GetReqFail(r)

fuse_request_alloc(r, waiting) ==
  fc' = [fc EXCEPT !.req[r].count = 1, !.req[r].waiting = waiting]

GetReqDone(r) ==
  /\ LetIn(r) /\ (fc.connected \/ r \in NoFail)
  /\ fuse_request_alloc(r, TRUE)
  /\ Goto(r, "ready")
  /\ UNCHANGED <<sig, thread, abort, inbox>>

\* No memory: a caller that must not fail takes the request reserved for the file.
GetReqNoMemory(r) ==
  /\ LetIn(r) /\ r \in NoFail
  /\ Goto(r, "get_reserved")
  /\ UNCHANGED <<fc, sig, thread, abort, inbox>>

\* The wait for it ends without the lock, under which it may be gone again.
get_reserved_req_Unchecked_Bug(r) ==
  /\ LockFree /\ task[r] = "get_reserved"
  /\ fc' = [fc EXCEPT !.reserved = FALSE, !.req[r].stolen = TRUE,
                      !.req[r].count = 1, !.req[r].waiting = TRUE]
  /\ Goto(r, "ready")
  /\ UNCHANGED <<sig, thread, abort, inbox>>

get_reserved_req(r) ==
  /\ LockFree /\ task[r] = "get_reserved" /\ fc.reserved
  /\ fc' = [fc EXCEPT !.reserved = FALSE, !.req[r].stolen = TRUE,
                      !.req[r].count = 1, !.req[r].waiting = TRUE]
  /\ Goto(r, "ready")
  /\ UNCHANGED <<sig, thread, abort, inbox>>

\* Whoever dropped the last reference gives it back, as a request of its own.
put_reserved_req(r) ==
  /\ LockFree /\ fc.req[r].stolen /\ fc.req[r].count = 0
  /\ fc' = [fc EXCEPT !.reserved = TRUE, !.req[r].stolen = FALSE]
  /\ UNCHANGED <<task, sig, thread, abort, inbox>>

RequestAlloc(r) ==
  /\ task[r] = "start" /\ r \in Raw
  /\ fuse_request_alloc(r, FALSE)
  /\ Goto(r, "ready")
  /\ UNCHANGED <<sig, thread, abort, inbox>>

-----------------------------------------------------------------------------
(***************************************************************************)
(* fuse_request_send and request_wait_answer.  A signal already pending at *)
(* the call is one that arrives right after it: the wait begins asleep.    *)
(***************************************************************************)
RequestSend(r) ==
  /\ LockFree /\ task[r] = "ready" /\ r \in Sync /\ fc.connected
  /\ LET u == fuse_get_unique(fc.reqctr, 1)
         c == [fc EXCEPT !.reqctr = u, !.req[r].unique = u]
     IN  fc' = [queue_request(c, r) EXCEPT !.req[r].count = @ + 1,
                                           !.req[r].asleep = TRUE]
  /\ Goto(r, IF ~ fc.no_interrupt THEN "wait_intr"
             ELSE IF r \in Forced THEN "wait_forced" ELSE "wait_kill")
  /\ UNCHANGED <<sig, thread, abort, inbox>>

RequestSendRefused(r) ==
  /\ LockFree /\ task[r] = "ready" /\ r \in Sync /\ ~ fc.connected
  /\ fc' = [fc EXCEPT !.req[r].error = "ENOTCONN"]
  /\ Goto(r, "returned")
  /\ UNCHANGED <<sig, thread, abort, inbox>>

Ended(r) == fc.req[r].state = "FINISHED"

Woken(r) == Ended(r) /\ ~ fc.req[r].asleep

LeaveWait_NoWait_Bug(r) ==
  fc' = [fc EXCEPT !.req[r].asleep = FALSE] /\ Goto(r, "returned")

\* The ways out of request_wait_answer for a request that is over: an aborted
\* one whose data is being copied is waited for (label aborted).
LeaveWait(r) ==
  LET copying == fc.req[r].aborted /\ fc.req[r].locked
  IN  /\ fc' = [fc EXCEPT !.req[r].asleep = copying]
      /\ Goto(r, IF copying THEN "wait_unlock" ELSE "returned")

Interrupted(c, r) ==
  LET s == [c EXCEPT !.req[r].interrupted = TRUE, !.req[r].asleep = TRUE]
  IN  IF s.req[r].state = "SENT" THEN queue_interrupt(s, r) ELSE s

\* Any signal ends the first wait; the daemon is told when it has the request.
WakeIntr(r) ==
  /\ LockFree /\ task[r] = "wait_intr"
  /\ IF Ended(r)
     THEN (Woken(r) \/ sig[r] # "none") /\ LeaveWait(r)
     ELSE /\ sig[r] # "none"
          /\ fc' = Interrupted(fc, r)
          /\ Goto(r, IF r \in Forced THEN "wait_forced" ELSE "wait_kill")
  /\ UNCHANGED <<sig, thread, abort, inbox>>

WaitOut(r) ==
  fc' = [fc EXCEPT !.req[r].asleep = TRUE] /\ Goto(r, "wait_forced")

BailOut_StillListed_Bug(r) ==
  /\ fc' = [fc EXCEPT !.req[r].count = @ - 1, !.req[r].asleep = FALSE,
                      !.req[r].error = "EINTR"]
  /\ Goto(r, "returned")

BailOut(r) ==
  /\ fc' = [list_del(fc, r) EXCEPT !.req[r].count = @ - 1, !.req[r].asleep = FALSE,
                                   !.req[r].error = "EINTR"]
  /\ Goto(r, "returned")

\* Only a fatal signal ends the second wait; a request the daemon has not read
\* is withdrawn.
WakeKill(r) ==
  /\ LockFree /\ task[r] = "wait_kill"
  /\ IF Ended(r)
     THEN (Woken(r) \/ sig[r] = "fatal") /\ LeaveWait(r)
     ELSE /\ sig[r] = "fatal"
          /\ IF fc.req[r].state = "PENDING" THEN BailOut(r) ELSE WaitOut(r)
  /\ UNCHANGED <<sig, thread, abort, inbox>>

WakeForced(r) ==
  /\ LockFree /\ task[r] = "wait_forced" /\ Woken(r)
  /\ LeaveWait(r)
  /\ UNCHANGED <<sig, thread, abort, inbox>>

WakeUnlock(r) ==
  /\ LockFree /\ task[r] = "wait_unlock"
  /\ ~ fc.req[r].locked /\ ~ fc.req[r].asleep
  /\ Goto(r, "returned")
  /\ UNCHANGED <<fc, sig, thread, abort, inbox>>

\* The caller has used the answer, drops its reference and leaves the kernel,
\* where a signal that is still pending is handled.
PutRequest(r) ==
  /\ task[r] = "returned"
  /\ fc' = fuse_put_request(fc, r)
  /\ Goto(r, "done")
  /\ sig' = [sig EXCEPT ![r] = "none"]
  /\ UNCHANGED <<thread, abort, inbox>>

-----------------------------------------------------------------------------
(***************************************************************************)
(* fuse_request_send_background.                                           *)
(***************************************************************************)
SendBackground(r) ==
  /\ LockFree /\ task[r] = "ready" /\ r \in Background /\ fc.connected
  /\ fc' = fuse_request_send_nowait_locked(fc, r)
  /\ Goto(r, "sent")
  /\ UNCHANGED <<sig, thread, abort, inbox>>

SendBackgroundRefused(r) ==
  /\ LockFree /\ task[r] = "ready" /\ r \in Background /\ ~ fc.connected
  /\ fc' = request_end([fc EXCEPT !.req[r].error = "ENOTCONN"], r)
  /\ Goto(r, "end")
  /\ UNCHANGED <<sig, thread, abort, inbox>>

SendBackgroundEnd(r) ==
  /\ task[r] = "end"
  /\ fc' = EndTail(fc, r, TRUE)
  /\ Goto(r, "sent")
  /\ UNCHANGED <<sig, thread, abort, inbox>>

(***************************************************************************)
(* A signal for a caller that sleeps in the kernel: one that comes while it *)
(* does not is pending when it does, as if it came then.                   *)
(***************************************************************************)
Signal(r) ==
  /\ task[r] \in {"wait_intr", "wait_kill"} \/ (task[r] = "get_wait" /\ fc.blocked)
  /\ \/ sig[r] = "none" /\ sig' = [sig EXCEPT ![r] = "signal"]
     \/ sig[r] # "fatal" /\ sig' = [sig EXCEPT ![r] = "fatal"]
  /\ UNCHANGED <<fc, task, thread, abort, inbox>>

-----------------------------------------------------------------------------
(***************************************************************************)
(* fuse_dev_do_read.  Interrupts go first, then forgets and requests in    *)
(* turns.  A connected daemon thread with nothing to read waits.           *)
(***************************************************************************)
Reader_AfterAbort_Bug(d) == LockFree /\ thread[d].pc = "idle"

Reader(d) == LockFree /\ thread[d].pc = "idle" /\ fc.connected

Move(d, pc, r, phase) ==
  thread' = [thread EXCEPT ![d] = [Idle EXCEPT !.pc = pc, !.req = r, !.phase = phase]]

\* Thread d leaves the critical section of request_end(c, r).
EndBy(d, c, r) ==
  /\ fc' = request_end(c, r)
  /\ thread' = [thread EXCEPT ![d] =
                  [Idle EXCEPT !.pc = "end", !.req = r, !.end = fc.req[r].end]]

ThreadEnd(d) ==
  /\ thread[d].pc = "end"
  /\ fc' = EndTail(fc, thread[d].req, thread[d].end)
  /\ thread' = [thread EXCEPT ![d] = Idle]
  /\ UNCHANGED <<task, sig, abort, inbox>>

ReadInterrupt_IdReused_Bug(d) ==
  /\ Reader(d) /\ fc.interrupts # <<>>
  /\ LET r == Head(fc.interrupts)
         u == fuse_get_unique(fc.reqctr, 1)
     IN  /\ fc' = [fc EXCEPT !.interrupts = Tail(@), !.req[r].intr_unique = u]
         /\ inbox' = inbox \cup {[req |-> r, unique |-> u, intr |-> TRUE]}
  /\ UNCHANGED <<task, sig, thread, abort>>

\* The interrupt leaves the queue even when its copy to the daemon fails.
ReadInterrupt(d) ==
  /\ Reader(d) /\ fc.interrupts # <<>>
  /\ LET r == Head(fc.interrupts)
         u == fuse_get_unique(fc.reqctr, 1)
     IN  /\ fc' = [fc EXCEPT !.interrupts = Tail(@), !.reqctr = u,
                             !.req[r].intr_unique = u]
         /\ \/ inbox' = inbox \cup {[req |-> r, unique |-> u, intr |-> TRUE]}
            \/ UNCHANGED inbox
  /\ UNCHANGED <<task, sig, thread, abort>>

forget_pending == fc.forget_list # <<>>

dequeue_forget(c, n) == [c EXCEPT !.forget_list = SubSeq(@, n + 1, Len(@))]

\* One forget, or as many as the buffer holds: none when it has no room for one.
fuse_read_forget(n) ==
  /\ n \in 0 .. Len(fc.forget_list)
  /\ fc' = [dequeue_forget(fc, n) EXCEPT
              !.reqctr = fuse_get_unique(@, 1),
              !.forget_batch = IF fc.pending = <<>> THEN @ ELSE @ - 1]

ReadForget(d) ==
  /\ Reader(d) /\ fc.interrupts = <<>> /\ forget_pending
  /\ fc.pending = <<>> \/ fc.forget_batch > 0
  /\ \E n \in 0 .. Len(fc.forget_list) :
       (n = 0 => MayRepeat) /\ fuse_read_forget(n)
  /\ UNCHANGED <<task, sig, thread, abort, inbox>>

NextBatch ==
  IF ~ forget_pending THEN fc.forget_batch
  ELSE IF fc.forget_batch - 1 <= - RequestBatch THEN ForgetBatch
  ELSE fc.forget_batch - 1

\* The request at the head of pending moves to io.
TakeRequest ==
  LET r == Head(fc.pending)
  IN  [list_del(fc, r) EXCEPT !.io = @ \cup {r}, !.req[r].state = "READING",
                              !.forget_batch = NextBatch]

ReadyToRead(d) ==
  /\ Reader(d) /\ fc.interrupts = <<>> /\ fc.pending # <<>>
  /\ forget_pending => fc.forget_batch <= 0
  /\ UNCHANGED <<task, sig, abort, inbox>>

ReadRequest(d) ==
  /\ ReadyToRead(d)
  /\ fc' = TakeRequest
  /\ Move(d, "read", Head(fc.pending), "start")

\* The request does not fit into the buffer of the read.
ReadTooLarge(d) ==
  /\ ReadyToRead(d)
  /\ LET r == Head(fc.pending)
     IN  EndBy(d, [TakeRequest EXCEPT !.req[r].error = "EIO"], r)

(***************************************************************************)
(* fuse_copy_fill, fuse_ref_page and fuse_try_move_page: between pieces of *)
(* the copy the request is unlocked, for the user page may fault.          *)
(***************************************************************************)
Copying(d) == thread[d].pc \in {"read", "write"}

Phase(d, phase) == thread' = [thread EXCEPT ![d].phase = phase]

lock_request(d) ==
  LET r == thread[d].req
  IN  /\ LockFree /\ Copying(d) /\ thread[d].phase \in {"start", "unlocked"}
      /\ IF fc.req[r].aborted
         THEN UNCHANGED fc /\ Phase(d, "failed")
         ELSE fc' = [fc EXCEPT !.req[r].locked = TRUE] /\ Phase(d, "locked")
      /\ UNCHANGED <<task, sig, abort, inbox>>

unlock_request(d) ==
  LET r == thread[d].req
      c == [fc EXCEPT !.req[r].locked = FALSE]
  IN  /\ LockFree /\ Copying(d) /\ thread[d].phase = "locked"
      /\ fc' = IF c.req[r].aborted THEN wake_up(c, r) ELSE c
      /\ Phase(d, "unlocked")
      /\ UNCHANGED <<task, sig, abort, inbox>>

\* The next user page cannot be had.
CopyFail(d) ==
  /\ Copying(d) /\ thread[d].phase \in {"start", "unlocked"}
  /\ Phase(d, "failed")
  /\ UNCHANGED <<fc, task, sig, abort, inbox>>

\* The answer has the wrong length: the request is still locked.
WrongLength(d) ==
  /\ thread[d].pc = "write" /\ thread[d].phase = "locked"
  /\ Phase(d, "failed")
  /\ UNCHANGED <<fc, task, sig, abort, inbox>>

\* The data is copied, or referenced page by page, or the copy has failed.
CopyOver(d, pc) ==
  LockFree /\ thread[d].pc = pc /\ thread[d].phase # "start"

Delivered_InterruptLost_Bug(c, r) ==
  [list_del(c, r) EXCEPT !.processing = @ \cup {r}, !.req[r].state = "SENT"]

\* The daemon has the request: it is sent, and interrupted if its caller was.
Delivered(c, r) ==
  LET s == [list_del(c, r) EXCEPT !.processing = @ \cup {r}, !.req[r].state = "SENT"]
  IN  IF s.req[r].interrupted THEN queue_interrupt(s, r) ELSE s

ReadFinish(d) ==
  LET r == thread[d].req
      c == [fc EXCEPT !.req[r].locked = FALSE]
      bad == thread[d].phase = "failed"
  IN  /\ CopyOver(d, "read")
      /\ IF c.req[r].aborted \/ bad \/ r \in NotifyReply
         THEN /\ EndBy(d, IF bad /\ ~ c.req[r].aborted
                          THEN [c EXCEPT !.req[r].error = "EIO"] ELSE c, r)
              /\ UNCHANGED inbox
         ELSE /\ fc' = Delivered(c, r)
              /\ inbox' = inbox \cup
                   {[req |-> r, unique |-> fc.req[r].unique, intr |-> FALSE]}
              /\ thread' = [thread EXCEPT ![d] = Idle]
      /\ UNCHANGED <<task, sig, abort>>

-----------------------------------------------------------------------------
(***************************************************************************)
(* fuse_dev_do_write.  The daemon answers each message it was given at     *)
(* most once.                                                              *)
(***************************************************************************)
request_find(u) ==
  {r \in fc.processing : u \in {fc.req[r].unique, fc.req[r].intr_unique}}

Writer(d, m) ==
  /\ LockFree /\ thread[d].pc = "idle" /\ m \in inbox
  /\ inbox' = inbox \ {m}
  /\ UNCHANGED <<task, sig, abort>>

\* ENOENT: the connection is gone, or nobody waits for this answer.
WriteNoEntry(d, m) ==
  /\ Writer(d, m)
  /\ ~ fc.connected \/ request_find(m.unique) = {}
  /\ UNCHANGED <<fc, thread>>

\* No request of processing is aborted, see ListsMatchState: the branch of the
\* code for one is never taken.
Found(d, m, r) ==
  Writer(d, m) /\ fc.connected /\ r \in request_find(m.unique)

\* The answer to an interrupt: ENOSYS, EAGAIN, or one that is ignored.
WriteInterruptReply(d, m) ==
  \E r \in Requests :
    /\ Found(d, m, r) /\ fc.req[r].intr_unique = m.unique
    /\ \/ fc' = [fc EXCEPT !.no_interrupt = TRUE]
       \/ MayRepeat /\ fc' = queue_interrupt(fc, r)
       \/ UNCHANGED fc
    /\ UNCHANGED thread

\* The error of the reply is stored and its data is copied in next.
Replied(c, r) ==
  [list_del(c, r) EXCEPT !.io = @ \cup {r}, !.req[r].state = "WRITING",
                         !.req[r].error = "REPLY", !.req[r].locked = TRUE]

WriteReply(d, m) ==
  \E r \in Requests :
    /\ Found(d, m, r) /\ fc.req[r].intr_unique # m.unique
    /\ fc' = Replied(fc, r)
    /\ Move(d, "write", r, "locked")

WriteFinish_ErrorOverwritten_Bug(d) ==
  LET r == thread[d].req
      c == [fc EXCEPT !.req[r].locked = FALSE]
  IN  /\ CopyOver(d, "write")
      /\ EndBy(d, IF thread[d].phase = "failed"
                  THEN [c EXCEPT !.req[r].error = "EIO"] ELSE c, r)
      /\ UNCHANGED <<task, sig, abort, inbox>>

WriteFinish(d) ==
  LET r == thread[d].req
      c == [fc EXCEPT !.req[r].locked = FALSE]
      bad == thread[d].phase = "failed" /\ ~ c.req[r].aborted
  IN  /\ CopyOver(d, "write")
      /\ EndBy(d, IF bad THEN [c EXCEPT !.req[r].error = "EIO"] ELSE c, r)
      /\ UNCHANGED <<task, sig, abort, inbox>>

(***************************************************************************)
(* FUSE_NOTIFY_RETRIEVE: the writing thread itself waits for a request,    *)
(* like any caller, and queues the data as a reply that is never answered. *)
(***************************************************************************)
Retrieve(d, r) ==
  /\ thread[d].pc = "idle" /\ r \in NotifyReply
  /\ StartGet(r)
  /\ Move(d, "retrieve", r, "start")

SendNotifyReply(r) ==
  /\ LockFree /\ task[r] = "ready" /\ r \in NotifyReply
  /\ IF fc.connected
     THEN fc' = queue_request(fc, r) /\ Goto(r, "sent")
     ELSE \* ENODEV: the pages are released, the request is not put.
          fc' = [fc EXCEPT !.req[r].ended = @ + 1] /\ Goto(r, "leaked")
  /\ thread' = Leave(r)
  /\ UNCHANGED <<sig, abort, inbox>>

\* fuse_queue_forget: also on a connection that is gone.
QueueForget(f) ==
  /\ LockFree /\ ~ Member(fc.forget_list, f)
  /\ MayRepeat
  /\ fc' = [fc EXCEPT !.forget_list = Append(@, f)]
  /\ UNCHANGED <<task, sig, thread, abort, inbox>>

-----------------------------------------------------------------------------
(***************************************************************************)
(* fuse_abort_conn.  The lock is kept from one step to the next except     *)
(* where the code drops it: to wait for a copy, and in request_end.        *)
(***************************************************************************)
AbortStart ==
  /\ LockFree /\ abort.pc = "no" /\ fc.connected
  /\ fc' = [fc EXCEPT !.connected = FALSE, !.blocked = FALSE]
  /\ abort' = [abort EXCEPT !.pc = "io", !.lock = TRUE]
  /\ UNCHANGED <<task, sig, thread, inbox>>

Aborted(r) ==
  [list_del(fc, r) EXCEPT !.req[r].aborted = TRUE, !.req[r].error = "ECONNABORTED",
     !.req[r].state = "FINISHED", !.req[r].asleep = FALSE]

AbortedHeld(r) ==
  [Aborted(r) EXCEPT !.req[r].end = FALSE, !.req[r].count = @ + 1,
                     !.req[r].asleep = fc.req[r].locked]

\* end_io_requests: one request being copied.  Its end callback must wait for
\* the copy, without the lock.
AbortIo(r) ==
  /\ abort.pc = "io" /\ r \in fc.io
  /\ IF fc.req[r].end
     THEN /\ fc' = AbortedHeld(r)
          /\ abort' = [pc |-> "io_end", req |-> r, end |-> TRUE, lock |-> FALSE]
     ELSE fc' = Aborted(r) /\ abort' = [abort EXCEPT !.lock = TRUE]
  /\ UNCHANGED <<task, sig, thread, inbox>>

AbortIoEnd ==
  LET r == abort.req
  IN  /\ abort.pc = "io_end" /\ ~ fc.req[r].locked /\ ~ fc.req[r].asleep
      /\ fc' = fuse_put_request([fc EXCEPT !.req[r].ended = @ + 1], r)
      /\ abort' = [abort EXCEPT !.pc = "io", !.req = NoReq, !.end = FALSE]
      /\ UNCHANGED <<task, sig, thread, inbox>>

\* end_queued_requests: everything queued becomes pending.
AbortQueued ==
  /\ abort.pc = "io" /\ fc.io = {}
  /\ fc' = flush_bg_queue([fc EXCEPT !.max_background = UintMax])
  /\ abort' = [abort EXCEPT !.pc = "pending", !.lock = TRUE]
  /\ UNCHANGED <<task, sig, thread, inbox>>

\* end_requests: one request of a list.
AbortEnd(r, next) ==
  /\ fc' = request_end([fc EXCEPT !.req[r].error = "ECONNABORTED"], r)
  /\ abort' = [pc |-> next, req |-> r, end |-> fc.req[r].end, lock |-> FALSE]
  /\ UNCHANGED <<task, sig, thread, inbox>>

AbortPending ==
  /\ abort.pc = "pending" /\ fc.pending # <<>>
  /\ AbortEnd(Head(fc.pending), "end_pending")

AbortProcessing ==
  /\ \/ abort.pc = "processing"
     \/ abort.pc = "pending" /\ fc.pending = <<>>
  /\ \E r \in fc.processing : AbortEnd(r, "end_processing")

AbortTail(pc, next) ==
  /\ abort.pc = pc
  /\ fc' = EndTail(fc, abort.req, abort.end)
  /\ abort' = [abort EXCEPT !.pc = next, !.req = NoReq, !.end = FALSE]
  /\ UNCHANGED <<task, sig, thread, inbox>>

AbortDone_Early_Bug ==
  /\ abort.pc = "pending" /\ fc.pending = <<>>
  /\ fc' = [fc EXCEPT !.forget_list = <<>>, !.blocked_waitq = {}]
  /\ abort' = [abort EXCEPT !.pc = "done", !.lock = FALSE]
  /\ UNCHANGED <<task, sig, thread, inbox>>

AbortDone ==
  /\ \/ abort.pc = "processing"
     \/ abort.pc = "pending" /\ fc.pending = <<>>
  /\ fc.processing = {}
  /\ fc' = [fc EXCEPT !.forget_list = <<>>, !.blocked_waitq = {}]
  /\ abort' = [abort EXCEPT !.pc = "done", !.lock = FALSE]
  /\ UNCHANGED <<task, sig, thread, inbox>>

-----------------------------------------------------------------------------
AbortStep ==
  \/ AbortIoEnd \/ AbortQueued \/ AbortPending
  \/ AbortProcessing \/ AbortDone
  \/ \E r \in Requests : AbortIo(r)
  \/ AbortTail("end_pending", "pending")
  \/ AbortTail("end_processing", "processing")

Abort == AbortStart \/ AbortStep

Caller(r) ==
  \/ GetReq(r) \/ GetReqSleep(r) \/ GetReqKilled(r) \/ GetReqRefused(r)
  \/ GetReqDone(r) \/ RequestAlloc(r)
  \/ GetReqNoMemory(r) \/ get_reserved_req(r) \/ put_reserved_req(r)
  \/ RequestSend(r) \/ RequestSendRefused(r)
  \/ WakeIntr(r) \/ WakeKill(r) \/ WakeForced(r) \/ WakeUnlock(r) \/ PutRequest(r)
  \/ SendBackground(r) \/ SendBackgroundRefused(r) \/ SendBackgroundEnd(r)
  \/ SendNotifyReply(r) \/ Signal(r)

\* Steps of a thread once it is inside the kernel, and the ones it comes in by.
Inside(d) ==
  \/ lock_request(d) \/ unlock_request(d) \/ CopyFail(d) \/ WrongLength(d)
  \/ ReadFinish(d) \/ WriteFinish(d) \/ ThreadEnd(d)

Read(d) ==
  ReadInterrupt(d) \/ ReadForget(d) \/ ReadRequest(d) \/ ReadTooLarge(d)

Write(d, m) ==
  WriteNoEntry(d, m) \/ WriteInterruptReply(d, m) \/ WriteReply(d, m)

Daemon(d) ==
  \/ Inside(d) \/ Read(d)
  \/ \E m \in inbox : Write(d, m)
  \/ \E r \in NotifyReply : Retrieve(d, r)

\* Nothing is left to do: no caller is inside the kernel.
Quiet ==
  /\ \A r \in Requests : task[r] \in {"done", "failed", "sent", "leaked"}
  /\ fc.reserved
  /\ UNCHANGED vars

Next ==
  \/ Abort \/ Quiet
  \/ \E r \in Requests : Caller(r)
  \/ \E d \in Thread : Daemon(d)
  \/ \E f \in Forget : QueueForget(f)

Spec == Init /\ [][Next]_vars

=============================================================================
