---------------------------- MODULE InputStream ----------------------------
(***************************************************************************)
(* Input of the Moonlight client: threads of the application offer mouse,  *)
(* scroll and controller packets to a bounded queue; one thread takes them,*)
(* puts those that can be into one, and sends the result (v345, v347-v351).*)
(*                                                                         *)
(* A packet has a type, the controller's number and button flags (or what  *)
(* button or scroll it is) and axes: the deltas of a mouse, the sticks and *)
(* triggers of a controller.                                               *)
(* Names that end in _Bug are mutations of the definition they precede.    *)
(***************************************************************************)
EXTENDS Integers, Sequences, SequencesExt

CONSTANTS
  Events,          \* Packets the application may send.
  MaxQueued,       \* The bound of the queue.
  ShortMax,        \* INT16_MAX: the greatest delta.
  MaxEvents        \* Bound: packets accepted.

Short == -ShortMax - 1 .. ShortMax
Types == {"mouse", "button", "scroll", "controller", "multiController"}

ASSUME InputAssumption ==
  /\ Events \subseteq [type : Types \ {"controller"}, num : Int, flags : Int, axes : Seq(Short)]
  /\ \A d, e \in Events : d.type = e.type => DOMAIN d.axes = DOMAIN e.axes
  /\ {MaxQueued, MaxEvents, ShortMax} \subseteq Nat

VARIABLES
  gen3,         \* The server is of generation 3: controllers are not numbered.
  initialized,  \* LiSend calls are let in.
  packetQueue,
  shutdown,     \* The queue is shut down.
  thread,       \* inputSendThread: where it is, the packet it holds, its dirs.
  accepted,     \* Packets the calls returned success for.
  sent          \* Packets the server got.

inputVars == <<gen3, initialized, packetQueue, shutdown, thread, accepted, sent>>

Stopped == [pc |-> "none", holder |-> <<>>, dirs |-> <<>>]

InputInit ==
  /\ gen3 \in BOOLEAN /\ initialized = FALSE /\ shutdown = FALSE
  /\ packetQueue = <<>> /\ thread = Stopped
  /\ accepted = <<>> /\ sent = <<>>

-----------------------------------------------------------------------------
\* The application's threads.  A packet that cannot be allocated or queued is lost, its sender
\* told.
\* LbqOfferQueueItem refuses when the queue is full or shut down.
LbqOfferQueueItem(p) ==
  IF Len(packetQueue) >= MaxQueued \/ shutdown
    THEN UNCHANGED <<packetQueue, accepted>>
    ELSE packetQueue' = Append(packetQueue, p) /\ accepted' = Append(accepted, p)

Offer(p) ==
  /\ Len(accepted) < MaxEvents
  /\ IF initialized THEN LbqOfferQueueItem(p) ELSE UNCHANGED <<packetQueue, accepted>>
  /\ UNCHANGED <<initialized, shutdown, thread, sent>>

LiSendMouseMoveEvent(e) == e.type = "mouse" /\ Offer(e)
LiSendMouseButtonEvent(e) == e.type = "button" /\ Offer(e)
LiSendScrollEvent(e) == e.type = "scroll" /\ Offer(e)

\* What a server of generation 3 understands.
Unnumbered(e) == [type |-> "controller", num |-> 0, flags |-> e.flags, axes |-> e.axes]

sendControllerEventInternal(e) ==
  /\ e.type = "multiController"
  /\ Offer(IF gen3 THEN Unnumbered(e) ELSE e)

-----------------------------------------------------------------------------
\* The sending thread.
startInputStream ==
  /\ initialized /\ ~ shutdown /\ thread.pc = "none"
  /\ thread' = [thread EXCEPT !.pc = "wait"]
  /\ UNCHANGED <<initialized, packetQueue, shutdown, accepted, sent>>

WaitForQueueElement ==
  /\ thread.pc = "wait"
  /\ IF shutdown
       THEN thread' = [thread EXCEPT !.pc = "done"] /\ UNCHANGED packetQueue
       ELSE /\ packetQueue # <<>>
            /\ thread' = [pc |-> "batch", holder |-> <<Head(packetQueue)>>,
                          dirs |-> [i \in DOMAIN Head(packetQueue).axes |-> 0]]
            /\ packetQueue' = Tail(packetQueue)
  /\ UNCHANGED <<initialized, shutdown, accepted, sent>>

Sign(n) == IF n > 0 THEN 1 ELSE IF n < 0 THEN -1 ELSE 0

\* checkDirs: an axis keeps the direction it has taken in this batch.
checkDirs(cur, new, dir) == dir = 0 \/ Sign(new - cur) \in {0, dir}
newDir(cur, new, dir) == IF dir = 0 THEN Sign(new - cur) ELSE dir

CanBatchControllers(o, n) ==
  /\ o.type = "multiController" /\ n.type = "multiController"
  /\ n.flags = o.flags /\ n.num = o.num
  /\ \A i \in DOMAIN o.axes : checkDirs(o.axes[i], n.axes[i], thread.dirs[i])

\* A sum that is no short would overflow.
CanBatchMoves_Overflow_Bug(o, n) == o.type = "mouse" /\ n.type = "mouse"

CanBatchMoves(o, n) ==
  /\ o.type = "mouse" /\ n.type = "mouse"
  /\ \A i \in DOMAIN o.axes : o.axes[i] + n.axes[i] \in Short

\* What is left of n in a short.
ToShort(n) == ((n + ShortMax + 1) % (2 * ShortMax + 2)) - ShortMax - 1

Batched(o, n) ==
  [o EXCEPT !.axes = [i \in DOMAIN o.axes |->
     IF o.type = "mouse" THEN ToShort(o.axes[i] + n.axes[i]) ELSE n.axes[i]]]

\* The first packet of the queue is looked at, then removed: only this thread removes packets.
Batch ==
  LET o == thread.holder[1]
      n == Head(packetQueue) IN
  /\ thread.pc = "batch" /\ packetQueue # <<>> /\ ~ shutdown
  /\ CanBatchControllers(o, n) \/ CanBatchMoves(o, n)
  /\ packetQueue' = Tail(packetQueue)
  /\ thread' = [pc |-> "batch", holder |-> <<Batched(o, n)>>,
                 dirs |-> IF o.type = "mouse" THEN thread.dirs
                          ELSE [i \in DOMAIN o.axes |->
                                  newDir(o.axes[i], n.axes[i], thread.dirs[i])]]
  /\ UNCHANGED <<initialized, shutdown, accepted, sent>>

EndBatch ==
  /\ thread.pc = "batch"
  /\ packetQueue # <<>> /\ ~ shutdown =>
       LET o == thread.holder[1]
           n == Head(packetQueue) IN
       ~ CanBatchControllers(o, n) /\ ~ CanBatchMoves(o, n)
  /\ thread' = [thread EXCEPT !.pc = "send"]
  /\ UNCHANGED <<initialized, packetQueue, shutdown, accepted, sent>>

Send ==
  /\ thread.pc = "send"
  /\ sent' = sent \o thread.holder
  /\ thread' = [pc |-> "wait", holder |-> <<>>, dirs |-> thread.dirs]
  /\ UNCHANGED <<initialized, packetQueue, shutdown, accepted>>

\* Encryption or the connection fails: the thread says so and ends.
SendFails ==
  /\ thread.pc = "send"
  /\ thread' = [thread EXCEPT !.pc = "failed"]
  /\ UNCHANGED <<initialized, packetQueue, shutdown, accepted, sent>>

-----------------------------------------------------------------------------
\* initializeInputStream and the end of the connection.
Initialize ==
  /\ ~ initialized /\ ~ shutdown
  /\ initialized' = TRUE
  /\ UNCHANGED <<packetQueue, shutdown, thread, accepted, sent>>

StopInput ==
  /\ initialized /\ shutdown' = TRUE
  /\ \E i \in BOOLEAN : initialized' = i
  /\ UNCHANGED <<packetQueue, thread, accepted, sent>>

InputNext ==
  /\ \/ \E e \in Events : \/ LiSendMouseMoveEvent(e) \/ LiSendMouseButtonEvent(e)
                          \/ LiSendScrollEvent(e) \/ sendControllerEventInternal(e)
     \/ startInputStream \/ WaitForQueueElement \/ Batch \/ EndBatch \/ Send \/ SendFails
     \/ Initialize \/ StopInput
  /\ UNCHANGED gen3

InputTypeOK ==
  /\ {gen3, initialized, shutdown} \subseteq BOOLEAN
  /\ Len(packetQueue) <= MaxQueued
  /\ thread.pc \in {"none", "wait", "batch", "send", "done", "failed"}
  /\ thread.pc \in {"none", "wait", "done"} <=> thread.holder = <<>>

=============================================================================
