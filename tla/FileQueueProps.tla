--------------------------- MODULE FileQueueProps ---------------------------
(***************************************************************************)
(* What the multi-threaded scan of FileQueue promises.                     *)
(***************************************************************************)
EXTENDS FileQueue, Sequences

\* Files in the ring, from queue_head to queue_tail.
Size == IF queue_head <= queue_tail THEN queue_tail - queue_head
                                    ELSE queue_tail - queue_head + RingSize

Contents == [i \in 1 .. Size |-> file_queue[(queue_head + i - 1) % RingSize]]

At(pc) == {t \in Thread : scanner[t] = pc}

One(b) == IF b THEN 1 ELSE 0

Putting == main \in {"create", "put", "put_slot", "put_post"}

\* The producer never fills the last slot: a full ring would look empty, and
\* its MAX_QUEUED_FILES files would be lost without a trace.
NoOverrun == main = "put_slot" => Size < MAX_QUEUED_FILES

\* As long as files are put, the semaphores and the threads between their calls
\* account for every slot: a used one is announced, about to be announced, or
\* claimed by a thread; no slot is given back twice.
SlotsCounted ==
  Putting =>
    /\ used_slots + Cardinality(At("take")) + One(main = "put_post") = Size
    /\ unused_slots + Cardinality(At("post")) + One(main = "put_slot") + Size
         = MAX_QUEUED_FILES

\* A thread that is let in finds the queue empty only when the walk is over: no
\* thread ends while there are files to come.
EmptyOnlyAtEnd ==
  [][\A t \in Thread : scanner[t] = "take" /\ (scanner[t])' = "post" /\ (path[t])' = NULL
       => ~ Putting]_vars

\* When the main thread has waited for its threads before the deadline every file
\* was scanned, once: the wake-ups of file_queue_finish end no thread too early.
AllScanned ==
  main = "destroy" /\ ~ expired /\ threads > 0 => \A f \in File : scanned[f] = 1

\* v009 ("Wait for scan threads to finish"): the rules are destroyed when no
\* thread scans with them any more.
RulesOutliveScans == rules = "destroyed" => At("scan") = {}

(***************************************************************************)
(* The ring, its semaphores and the end of the threads implement a bounded *)
(* queue: first in first out, nothing lost, nothing handed out twice.      *)
(***************************************************************************)
Queue ==
  INSTANCE BoundedQueue WITH
    Consumer <- Thread,
    Capacity <- MAX_QUEUED_FILES,
    Items    <- Files,
    items    <- Contents,
    last     <- next - One(main # "put_post"),
    holds    <- path

ImplementsQueue == Queue!Spec

(***************************************************************************)
(* Fairness: the main thread and every scan thread get on when they can,   *)
(* and a scan ends.  The deadline need not come.                           *)
(***************************************************************************)
FairSpec ==
  /\ Spec
  /\ WF_vars(Main)
  /\ \A t \in Thread : WF_vars(Scanner(t))

\* The tool ends: no thread waits for a file that never comes, the main thread
\* waits neither for a slot nor for a thread for ever.
Terminates == <>(main = "gone")

=============================================================================
