------------------------------ MODULE FileQueue ------------------------------
(***************************************************************************)
(* The multi-threaded scan of the YARA command line tool: the main thread  *)
(* walks a directory or a list of paths and puts the files into a ring;    *)
(* scan threads take them out.  Two semaphores count the used and the      *)
(* unused slots, a mutex guards the ring, and every wait ends at one       *)
(* deadline.  A critical section of the mutex, a call on a semaphore and   *)
(* the scan of a file are one action each.                                 *)
(*                                                                         *)
(* Files are numbered in the order in which the walk finds them.           *)
(* An operator whose name ends in _Bug is a mutation of the one after it.  *)
(***************************************************************************)
EXTENDS Integers, FiniteSets

CONSTANTS
  threads,          \* Scan threads asked for on the command line.
  YR_MAX_THREADS,   \* The most it accepts.
  MAX_QUEUED_FILES, \* Files the queue holds; the ring has one slot more.
  Files             \* How many files the walk finds.

ASSUME ThreadAssumption ==
  YR_MAX_THREADS \in Nat /\ threads \in 0 .. YR_MAX_THREADS

ASSUME QueueAssumption == MAX_QUEUED_FILES \in Nat \ {0} /\ Files \in Nat

Thread == 1 .. threads
File == 1 .. Files
NULL == 0
RingSize == MAX_QUEUED_FILES + 1

VARIABLES
  file_queue, queue_head, queue_tail,  \* The ring.
  used_slots, unused_slots,            \* The semaphores.
  main,        \* Where the main thread stands, see MainPc.
  arg_is_dir,  \* It walks a directory, not a list of paths.
  next,        \* The file it puts next.
  created,     \* Threads it has created.
  released,    \* Iterations of the loop of file_queue_finish.
  rules,       \* The compiled rules: "live" or "destroyed".
  scanner,     \* scanner[t]: what scan thread t does, see ScannerPc.
  path,        \* path[t]: the file it was given, or NULL.
  scanned,     \* scanned[f]: how often file f was scanned.
  expired      \* The deadline has passed.

ringVars == <<file_queue, queue_head, queue_tail>>
queueVars == <<ringVars, used_slots, unused_slots>>
mainVars == <<main, arg_is_dir, next, created, released, rules>>
threadVars == <<scanner, path, scanned>>
vars == <<queueVars, mainVars, threadVars, expired>>

MainPc == {"create", "put", "put_slot", "put_post", "finish", "join",
           "destroy", "exit", "return", "gone"}

ScannerPc == {"none", "wait", "take", "post", "check", "scan", "done"}

TypeOK ==
  /\ file_queue \in [0 .. MAX_QUEUED_FILES -> File \cup {NULL}]
  /\ queue_head \in 0 .. MAX_QUEUED_FILES
  /\ queue_tail \in 0 .. MAX_QUEUED_FILES
  /\ used_slots \in Nat /\ unused_slots \in Nat
  /\ main \in MainPc
  /\ arg_is_dir \in BOOLEAN
  /\ next \in 1 .. Files + 1
  /\ created \in 0 .. threads
  /\ released \in 0 .. YR_MAX_THREADS
  /\ rules \in {"live", "destroyed"}
  /\ scanner \in [Thread -> ScannerPc]
  /\ path \in [Thread -> File \cup {NULL}]
  /\ scanned \in [File -> Nat]
  /\ expired \in BOOLEAN

\* After file_queue_init: the rules are compiled, no thread exists yet.
Init ==
  /\ file_queue = [i \in 0 .. MAX_QUEUED_FILES |-> NULL]
  /\ queue_head = 0 /\ queue_tail = 0
  /\ used_slots = 0 /\ unused_slots = MAX_QUEUED_FILES
  /\ main = "create" /\ arg_is_dir \in BOOLEAN
  /\ next = 1 /\ created = 0 /\ released = 0 /\ rules = "live"
  /\ scanner = [t \in Thread |-> "none"]
  /\ path = [t \in Thread |-> NULL]
  /\ scanned = [f \in File |-> 0]
  /\ expired = FALSE

-----------------------------------------------------------------------------
(***************************************************************************)
(* The main thread.                                                        *)
(***************************************************************************)
MainGoto(from, to) == main = from /\ main' = to

cli_create_thread ==
  /\ main = "create" /\ created < threads
  /\ created' = created + 1
  /\ scanner' = [scanner EXCEPT ![created + 1] = "wait"]
  /\ UNCHANGED <<queueVars, main, arg_is_dir, next, released, rules, path, scanned, expired>>

\* No scanner or no thread: exit_with_code(EXIT_FAILURE).
CreateFails ==
  /\ MainGoto("create", "exit") /\ created < threads
  /\ UNCHANGED <<queueVars, arg_is_dir, next, created, released, rules, threadVars, expired>>

StartWalk ==
  /\ MainGoto("create", "put") /\ created = threads
  /\ UNCHANGED <<queueVars, arg_is_dir, next, created, released, rules, threadVars, expired>>

\* populate_scan_list cannot read the list.
ListUnreadable ==
  /\ MainGoto("create", "exit") /\ created = threads /\ ~ arg_is_dir
  /\ UNCHANGED <<queueVars, arg_is_dir, next, created, released, rules, threadVars, expired>>

PutWait_PostedEarly_Bug ==
  /\ MainGoto("put", "put_slot") /\ next <= Files
  /\ unused_slots > 0
  /\ unused_slots' = unused_slots - 1
  /\ used_slots' = used_slots + 1
  /\ UNCHANGED <<ringVars, arg_is_dir, next, created, released, rules,
                 threadVars, expired>>

\* file_queue_put: a free slot, its contents, and one more used slot.
PutWait ==
  /\ MainGoto("put", "put_slot") /\ next <= Files
  /\ unused_slots > 0
  /\ unused_slots' = unused_slots - 1
  /\ UNCHANGED <<ringVars, used_slots, arg_is_dir, next, created, released, rules,
                 threadVars, expired>>

\* The walk ends at the deadline.  The result of a directory walk is ignored.
PutTimeout ==
  /\ MainGoto("put", IF arg_is_dir THEN "finish" ELSE "exit") /\ next <= Files
  /\ expired /\ unused_slots = 0
  /\ UNCHANGED <<queueVars, arg_is_dir, next, created, released, rules, threadVars, expired>>

PutSlot_RingTooSmall_Bug ==
  /\ MainGoto("put_slot", "put_post")
  /\ file_queue' = [file_queue EXCEPT ![queue_tail] = next]
  /\ queue_tail' = (queue_tail + 1) % MAX_QUEUED_FILES
  /\ UNCHANGED <<queue_head, used_slots, unused_slots, arg_is_dir, next, created,
                 released, rules, threadVars, expired>>

PutSlot_NoWrap_Bug ==
  /\ MainGoto("put_slot", "put_post")
  /\ file_queue' = [file_queue EXCEPT ![queue_tail] = next]
  /\ queue_tail' = queue_tail + 1
  /\ UNCHANGED <<queue_head, used_slots, unused_slots, arg_is_dir, next, created,
                 released, rules, threadVars, expired>>

PutSlot ==
  /\ MainGoto("put_slot", "put_post")
  /\ file_queue' = [file_queue EXCEPT ![queue_tail] = next]
  /\ queue_tail' = (queue_tail + 1) % RingSize
  /\ UNCHANGED <<queue_head, used_slots, unused_slots, arg_is_dir, next, created,
                 released, rules, threadVars, expired>>

PutPost ==
  /\ MainGoto("put_post", "put")
  /\ used_slots' = used_slots + 1
  /\ next' = next + 1
  /\ UNCHANGED <<ringVars, unused_slots, arg_is_dir, created, released, rules,
                 threadVars, expired>>

WalkEnds ==
  /\ MainGoto("put", "finish") /\ next > Files
  /\ UNCHANGED <<queueVars, arg_is_dir, next, created, released, rules, threadVars, expired>>

file_queue_finish_OncePerFile_Bug ==
  /\ main = "finish"
  /\ main' = "join"
  /\ used_slots' = used_slots + 1
  /\ UNCHANGED <<ringVars, unused_slots, arg_is_dir, next, created, released, rules,
                 threadVars, expired>>

\* One iteration: a wake-up for every thread there could be.
file_queue_finish ==
  /\ main = "finish"
  /\ IF released < YR_MAX_THREADS
     THEN /\ used_slots' = used_slots + 1 /\ released' = released + 1
          /\ UNCHANGED main
     ELSE main' = "join" /\ UNCHANGED <<used_slots, released>>
  /\ UNCHANGED <<ringVars, unused_slots, arg_is_dir, next, created, rules,
                 threadVars, expired>>

cli_thread_join_ButOne_Bug ==
  /\ MainGoto("join", "destroy")
  /\ \A t \in Thread : t < threads => scanner[t] = "done"
  /\ UNCHANGED <<queueVars, arg_is_dir, next, created, released, rules, threadVars, expired>>

cli_thread_join ==
  /\ MainGoto("join", "destroy")
  /\ \A t \in Thread : scanner[t] = "done"
  /\ UNCHANGED <<queueVars, arg_is_dir, next, created, released, rules, threadVars, expired>>

\* The scanners and the queue are destroyed.
file_queue_destroy ==
  /\ MainGoto("destroy", "exit")
  /\ UNCHANGED <<queueVars, arg_is_dir, next, created, released, rules, threadVars, expired>>

\* _exit: the rules go, then main returns and takes its threads with it.
yr_rules_destroy ==
  /\ MainGoto("exit", "return")
  /\ rules' = "destroyed"
  /\ UNCHANGED <<queueVars, arg_is_dir, next, created, released, threadVars, expired>>

Return ==
  /\ MainGoto("return", "gone")
  /\ UNCHANGED <<queueVars, arg_is_dir, next, created, released, rules, threadVars, expired>>

-----------------------------------------------------------------------------
(***************************************************************************)
(* A scan thread: file_queue_get, then the scan, until it gets no file.    *)
(***************************************************************************)
ScannerGoto(t, from, to) ==
  main # "gone" /\ scanner[t] = from /\ scanner' = [scanner EXCEPT ![t] = to]

GetWait(t) ==
  /\ ScannerGoto(t, "wait", "take")
  /\ used_slots > 0
  /\ used_slots' = used_slots - 1
  /\ UNCHANGED <<ringVars, unused_slots, mainVars, path, scanned, expired>>

GetTimeout(t) ==
  /\ ScannerGoto(t, "wait", "done")
  /\ expired /\ used_slots = 0
  /\ UNCHANGED <<queueVars, mainVars, path, scanned, expired>>

GetTake(t) ==
  /\ ScannerGoto(t, "take", "post")
  /\ IF queue_head = queue_tail
     THEN path' = [path EXCEPT ![t] = NULL] /\ UNCHANGED queue_head
     ELSE /\ path' = [path EXCEPT ![t] = file_queue[queue_head]]
          /\ queue_head' = (queue_head + 1) % RingSize
  /\ UNCHANGED <<file_queue, queue_tail, used_slots, unused_slots, mainVars, scanned,
                 expired>>

\* The slot is released even if no file was taken from it.
GetPost(t) ==
  /\ ScannerGoto(t, "post", IF path[t] = NULL THEN "done" ELSE "check")
  /\ unused_slots' = unused_slots + 1
  /\ UNCHANGED <<ringVars, used_slots, mainVars, path, scanned, expired>>

\* After the deadline the thread ends with its file unscanned.
CheckDeadline(t) ==
  /\ ScannerGoto(t, "check", IF expired THEN "done" ELSE "scan")
  /\ path' = [path EXCEPT ![t] = IF expired THEN NULL ELSE @]
  /\ UNCHANGED <<queueVars, mainVars, scanned, expired>>

\* scan_file and free(file_path): an error is reported and changes nothing.
scan_file(t) ==
  /\ ScannerGoto(t, "scan", "wait")
  /\ scanned' = [scanned EXCEPT ![path[t]] = @ + 1]
  /\ path' = [path EXCEPT ![t] = NULL]
  /\ UNCHANGED <<queueVars, mainVars, expired>>

-----------------------------------------------------------------------------
Tick ==
  /\ ~ expired /\ main # "gone"
  /\ expired' = TRUE
  /\ UNCHANGED <<queueVars, mainVars, threadVars>>

Main ==
  \/ cli_create_thread \/ CreateFails \/ StartWalk \/ ListUnreadable
  \/ PutWait \/ PutTimeout \/ PutSlot \/ PutPost \/ WalkEnds
  \/ file_queue_finish \/ cli_thread_join \/ file_queue_destroy
  \/ yr_rules_destroy \/ Return

Scanner(t) ==
  \/ GetWait(t) \/ GetTimeout(t) \/ GetTake(t) \/ GetPost(t)
  \/ CheckDeadline(t) \/ scan_file(t)

Gone == main = "gone" /\ UNCHANGED vars

Next == Main \/ Tick \/ Gone \/ \E t \in Thread : Scanner(t)

Spec == Init /\ [][Next]_vars

=============================================================================
