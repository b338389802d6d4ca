--------------------------- MODULE FileQueueProofs ---------------------------
(***************************************************************************)
(* Proofs about FileQueue: types, the accounting of the slots, and what    *)
(* follows from it, for any number of threads, slots and files.            *)
(***************************************************************************)
EXTENDS FileQueueProps, FiniteSetTheorems, SequenceTheorems, TLAPS

USE ThreadAssumption, QueueAssumption

\* A file is left for a put that has begun; threads not yet created do nothing.
PutsAFile == main \in {"put_slot", "put_post"} => next <= Files

NotCreated == \A t \in Thread : t > created => scanner[t] = "none"

\* The slots from queue_head to queue_tail hold files.
InRing(i) == IF queue_head <= queue_tail THEN queue_head <= i /\ i < queue_tail
                                         ELSE queue_head <= i \/ i < queue_tail

RingFilled == \A i \in 0 .. MAX_QUEUED_FILES : InRing(i) => file_queue[i] \in File

Inv == TypeOK /\ PutsAFile /\ NotCreated /\ SlotsCounted /\ RingFilled

\* The next slot of the ring.
Succ(i) == IF i = MAX_QUEUED_FILES THEN 0 ELSE i + 1

LEMMA NextSlot ==
  ASSUME NEW i \in 0 .. MAX_QUEUED_FILES
  PROVE  (i + 1) % RingSize = Succ(i) /\ Succ(i) \in 0 .. MAX_QUEUED_FILES
BY DEF RingSize, Succ

LEMMA SizeType == TypeOK => Size \in 0 .. MAX_QUEUED_FILES
BY DEF TypeOK, Size, RingSize

\* A put makes the ring one longer if there is room, a take one shorter.
LEMMA PutRing ==
  ASSUME TypeOK, RingFilled, Size < MAX_QUEUED_FILES, NEW f \in File,
         queue_head' = queue_head, queue_tail' = Succ(queue_tail),
         file_queue' = [file_queue EXCEPT ![queue_tail] = f]
  PROVE  Size' = Size + 1 /\ RingFilled'
<1>1. Size' = Size + 1 BY DEF TypeOK, Size, RingSize, Succ
<1>2. RingFilled'
  <2> SUFFICES ASSUME NEW i \in 0 .. MAX_QUEUED_FILES, InRing(i)'
               PROVE  file_queue'[i] \in File
    BY DEF RingFilled
  <2>1. i = queue_tail \/ InRing(i) BY DEF TypeOK, InRing, Succ, Size, RingSize
  <2>2. file_queue'[i] = IF i = queue_tail THEN f ELSE file_queue[i] BY DEF TypeOK
  <2> QED BY <2>1, <2>2 DEF RingFilled
<1> QED BY <1>1, <1>2

LEMMA TakeRing ==
  ASSUME TypeOK, RingFilled, queue_head # queue_tail, queue_tail' = queue_tail,
         queue_head' = Succ(queue_head), file_queue' = file_queue
  PROVE  Size' = Size - 1 /\ RingFilled' /\ file_queue[queue_head] \in File
<1>1. Size' = Size - 1 BY DEF TypeOK, Size, RingSize, Succ
<1>2. ASSUME NEW i \in 0 .. MAX_QUEUED_FILES, InRing(i)'
      PROVE  InRing(i)
  BY <1>2 DEF TypeOK, InRing, Succ
<1>3. RingFilled' BY <1>2 DEF RingFilled
<1>4. queue_head \in 0 .. MAX_QUEUED_FILES /\ InRing(queue_head) BY DEF TypeOK, InRing
<1> QED BY <1>1, <1>3, <1>4 DEF RingFilled

LEMMA SameRing ==
  ASSUME UNCHANGED ringVars
  PROVE  Size' = Size /\ RingFilled' = RingFilled
BY DEF Size, RingFilled, InRing, ringVars

\* Threads at one place: finite, so that they can be counted.
LEMMA AtFinite ==
  ASSUME NEW pc
  PROVE  IsFiniteSet(At(pc)) /\ Cardinality(At(pc)) \in Nat
<1>1. IsFiniteSet(Thread) BY FS_Interval DEF Thread
<1>2. At(pc) \subseteq Thread BY DEF At
<1> QED BY <1>1, <1>2, FS_Subset, FS_CardinalityType

\* A thread that moves is counted at its new place and no longer at the old one.
LEMMA Moved ==
  ASSUME NEW t \in Thread, NEW from, NEW to, from # to,
         scanner \in [Thread -> ScannerPc], ScannerGoto(t, from, to)
  PROVE  /\ At(from)' = At(from) \ {t} /\ t \in At(from)
         /\ At(to)' = At(to) \cup {t} /\ t \notin At(to)
         /\ \A pc : pc # from /\ pc # to => At(pc)' = At(pc)
BY DEF At, ScannerGoto

LEMMA MovedCount ==
  ASSUME NEW t \in Thread, NEW from, NEW to, from # to,
         scanner \in [Thread -> ScannerPc], ScannerGoto(t, from, to)
  PROVE  /\ Cardinality(At(from)') = Cardinality(At(from)) - 1
         /\ Cardinality(At(to)') = Cardinality(At(to)) + 1
         /\ \A pc : pc # from /\ pc # to => Cardinality(At(pc)') = Cardinality(At(pc))
         /\ Cardinality(At(from)) > 0
<1>1. /\ At(from)' = At(from) \ {t} /\ t \in At(from)
      /\ At(to)' = At(to) \cup {t} /\ t \notin At(to)
      /\ \A pc : pc # from /\ pc # to => At(pc)' = At(pc)
  BY Moved
<1>2. Cardinality(At(from) \ {t}) = Cardinality(At(from)) - 1
  BY <1>1, AtFinite, FS_RemoveElement
<1>3. Cardinality(At(to) \cup {t}) = Cardinality(At(to)) + 1
  BY <1>1, AtFinite, FS_AddElement
<1>4. Cardinality(At(from)) # 0 BY <1>1, AtFinite, FS_EmptySet
<1> QED BY <1>1, <1>2, <1>3, <1>4, AtFinite

-----------------------------------------------------------------------------
LEMMA InitInv == Init => Inv
<1> SUFFICES ASSUME Init PROVE Inv OBVIOUS
<1>1. TypeOK
  <2>1. /\ path \in [Thread -> File \cup {NULL}] /\ scanned \in [File -> Nat]
        /\ scanner \in [Thread -> ScannerPc]
        /\ file_queue \in [0 .. MAX_QUEUED_FILES -> File \cup {NULL}]
    BY DEF Init, ScannerPc
  <2>2. /\ queue_head \in 0 .. MAX_QUEUED_FILES /\ queue_tail \in 0 .. MAX_QUEUED_FILES
        /\ used_slots \in Nat /\ unused_slots \in Nat
        /\ next \in 1 .. Files + 1 /\ created \in 0 .. threads
        /\ released \in 0 .. YR_MAX_THREADS
    BY DEF Init
  <2>3. /\ main \in MainPc /\ arg_is_dir \in BOOLEAN /\ expired \in BOOLEAN
        /\ rules \in {"live", "destroyed"}
    BY DEF Init, MainPc
  <2> QED BY <2>1, <2>2, <2>3 DEF TypeOK
<1>2. PutsAFile /\ NotCreated BY DEF Init, PutsAFile, NotCreated, Thread
<1>3. At("take") = {} /\ At("post") = {} BY DEF Init, At
<1>4. Cardinality({}) = 0 BY FS_EmptySet
<1>5. Size = 0 BY DEF Init, Size
<1>6. SlotsCounted
  <2>1. Cardinality(At("take")) = 0 /\ Cardinality(At("post")) = 0 BY <1>3, <1>4
  <2>2. One(main = "put_post") = 0 /\ One(main = "put_slot") = 0 BY DEF Init, One
  <2> QED BY <1>5, <2>1, <2>2 DEF Init, SlotsCounted
<1>7. RingFilled BY DEF Init, RingFilled, InRing
<1> QED BY <1>1, <1>2, <1>6, <1>7 DEF Inv

\* The steps of the main thread that only move it, and no put is pending after.
LEMMA WalkInv ==
  ASSUME Inv, StartWalk \/ CreateFails \/ ListUnreadable \/ PutTimeout
              \/ WalkEnds \/ cli_thread_join \/ file_queue_destroy \/ Return
  PROVE  Inv'
<1>1. /\ UNCHANGED <<queueVars, next, created, released, rules, threadVars, expired, arg_is_dir>>
      /\ main' \in MainPc /\ main' \notin {"put_slot", "put_post"}
      /\ Putting' => main \in {"create", "put"}
  BY DEF StartWalk, CreateFails, ListUnreadable, PutTimeout, WalkEnds, cli_thread_join,
         file_queue_destroy, Return, MainGoto, MainPc, Putting
<1>2. TypeOK' BY <1>1 DEF Inv, TypeOK, queueVars, ringVars, threadVars
<1>3. PutsAFile' /\ NotCreated'
  BY <1>1 DEF Inv, PutsAFile, NotCreated, threadVars
<1>4. Size' = Size /\ RingFilled' BY <1>1, SameRing DEF queueVars, Inv
<1>5. At("take")' = At("take") /\ At("post")' = At("post") BY <1>1 DEF At, threadVars
<1>6. SlotsCounted'
  BY <1>1, <1>4, <1>5 DEF Inv, SlotsCounted, One, Putting, queueVars
<1> QED BY <1>2, <1>3, <1>4, <1>6 DEF Inv

LEMMA CreateInv ==
  ASSUME Inv, cli_create_thread
  PROVE  Inv'
<1>1. TypeOK'
  BY DEF Inv, TypeOK, cli_create_thread, queueVars, ringVars, ScannerPc, Thread
<1>2. PutsAFile' BY DEF Inv, PutsAFile, cli_create_thread
<1>3. NotCreated' BY DEF Inv, TypeOK, NotCreated, cli_create_thread, Thread
<1>4. created + 1 \in Thread /\ scanner[created + 1] = "none"
  BY DEF Inv, TypeOK, NotCreated, cli_create_thread, Thread
<1>5. At("take")' = At("take") /\ At("post")' = At("post")
  BY <1>4 DEF At, cli_create_thread, Inv, TypeOK
<1>6. Size' = Size /\ RingFilled' BY SameRing DEF cli_create_thread, queueVars, Inv
<1>7. SlotsCounted'
  BY <1>5, <1>6 DEF Inv, SlotsCounted, One, Putting, cli_create_thread, queueVars
<1> QED BY <1>1, <1>2, <1>3, <1>6, <1>7 DEF Inv

\* file_queue_put: the free slot, the file in it, the announcement.
LEMMA PutInv ==
  ASSUME Inv, PutWait \/ PutSlot \/ PutPost
  PROVE  Inv'
<1>0. /\ At("take")' = At("take") /\ At("post")' = At("post")
      /\ Cardinality(At("take")) \in Nat /\ Cardinality(At("post")) \in Nat
  BY AtFinite DEF At, PutWait, PutSlot, PutPost, threadVars
<1>1. CASE PutWait
  <2>1. TypeOK' BY <1>1 DEF Inv, TypeOK, PutWait, MainGoto, ringVars, threadVars, MainPc
  <2>2. PutsAFile' /\ NotCreated'
    BY <1>1 DEF Inv, PutsAFile, NotCreated, PutWait, threadVars
  <2>3. Size' = Size /\ RingFilled' BY <1>1, SameRing DEF PutWait, Inv
  <2>4. SlotsCounted'
    BY <1>0, <1>1, <2>3, SizeType DEF Inv, TypeOK, SlotsCounted, One, Putting, PutWait, MainGoto
  <2> QED BY <2>1, <2>2, <2>3, <2>4 DEF Inv
<1>2. CASE PutSlot
  <2>1. next \in File BY <1>2 DEF Inv, TypeOK, PutsAFile, PutSlot, MainGoto, File
  <2>2. queue_tail' = Succ(queue_tail) /\ queue_tail' \in 0 .. MAX_QUEUED_FILES
    BY <1>2, NextSlot DEF Inv, TypeOK, PutSlot
  <2>3. TypeOK' BY <1>2, <2>1, <2>2 DEF Inv, TypeOK, PutSlot, MainGoto, threadVars, MainPc
  <2>4. PutsAFile' /\ NotCreated'
    BY <1>2 DEF Inv, PutsAFile, NotCreated, PutSlot, MainGoto, threadVars
  <2>5. Size < MAX_QUEUED_FILES
    BY <1>0, <1>2, SizeType DEF Inv, TypeOK, SlotsCounted, One, Putting, PutSlot, MainGoto
  <2>6. Size' = Size + 1 /\ RingFilled' BY <1>2, <2>1, <2>2, <2>5, PutRing DEF Inv, PutSlot
  <2>7. SlotsCounted'
    BY <1>0, <1>2, <2>6, SizeType DEF Inv, TypeOK, SlotsCounted, One, Putting, PutSlot, MainGoto
  <2> QED BY <2>3, <2>4, <2>6, <2>7 DEF Inv
<1>3. CASE PutPost
  <2>1. TypeOK'
    BY <1>3 DEF Inv, TypeOK, PutsAFile, PutPost, MainGoto, ringVars, threadVars, MainPc
  <2>2. PutsAFile' /\ NotCreated'
    BY <1>3 DEF Inv, PutsAFile, NotCreated, PutPost, MainGoto, threadVars
  <2>3. Size' = Size /\ RingFilled' BY <1>3, SameRing DEF PutPost, Inv
  <2>4. SlotsCounted'
    BY <1>0, <1>3, <2>3, SizeType DEF Inv, TypeOK, SlotsCounted, One, Putting, PutPost, MainGoto
  <2> QED BY <2>1, <2>2, <2>3, <2>4 DEF Inv
<1> QED BY <1>1, <1>2, <1>3

\* After the walk nothing is put: only the types are left to keep.
LEMMA AfterWalkInv ==
  ASSUME Inv, file_queue_finish \/ yr_rules_destroy
  PROVE  Inv'
<1>1. TypeOK'
  <2>1. CASE file_queue_finish
    <3>1. /\ used_slots' \in Nat /\ released' \in 0 .. YR_MAX_THREADS /\ main' \in MainPc
      BY <2>1 DEF Inv, TypeOK, file_queue_finish, MainPc
    <3> QED BY <2>1, <3>1 DEF Inv, TypeOK, file_queue_finish, ringVars, threadVars
  <2>2. CASE yr_rules_destroy
    BY <2>2 DEF Inv, TypeOK, yr_rules_destroy, MainGoto, queueVars, ringVars,
                threadVars, MainPc
  <2> QED BY <2>1, <2>2
<1>2. RingFilled'
  BY SameRing DEF Inv, file_queue_finish, yr_rules_destroy, queueVars
<1>3. PutsAFile' /\ NotCreated' /\ SlotsCounted'
  BY DEF Inv, PutsAFile, NotCreated, SlotsCounted, Putting, file_queue_finish,
         yr_rules_destroy, MainGoto, threadVars
<1> QED BY <1>1, <1>2, <1>3 DEF Inv

\* What every step of a scan thread leaves alone.
LEMMA ScannerMoves ==
  ASSUME Inv, NEW t \in Thread, NEW from \in ScannerPc \ {"none"}, NEW to \in ScannerPc,
         ScannerGoto(t, from, to), UNCHANGED mainVars
  PROVE  /\ scanner' \in [Thread -> ScannerPc]
         /\ PutsAFile' /\ NotCreated'
         /\ Putting' = Putting /\ main' = main
BY DEF Inv, TypeOK, PutsAFile, NotCreated, Putting, ScannerGoto, mainVars

LEMMA GetInv ==
  ASSUME Inv, NEW t \in Thread, GetWait(t) \/ GetTake(t) \/ GetPost(t)
  PROVE  Inv'
<1>0. /\ Cardinality(At("take")) \in Nat /\ Cardinality(At("post")) \in Nat
      /\ scanner \in [Thread -> ScannerPc] /\ Size \in 0 .. MAX_QUEUED_FILES
  BY AtFinite, SizeType DEF Inv, TypeOK
<1>1. CASE GetWait(t)
  <2>1. ScannerGoto(t, "wait", "take") /\ UNCHANGED mainVars BY <1>1 DEF GetWait
  <2>2. /\ scanner' \in [Thread -> ScannerPc] /\ PutsAFile' /\ NotCreated'
        /\ Putting' = Putting /\ main' = main
    BY <2>1, ScannerMoves DEF ScannerPc
  <2>3. TypeOK' BY <1>1, <2>2 DEF Inv, TypeOK, GetWait, mainVars, ringVars
  <2>4. /\ Cardinality(At("take")') = Cardinality(At("take")) + 1
        /\ Cardinality(At("post")') = Cardinality(At("post"))
    BY <1>0, <2>1, MovedCount
  <2>5. Size' = Size /\ RingFilled' BY <1>1, SameRing DEF GetWait, Inv
  <2>6. SlotsCounted'
    BY <1>0, <1>1, <2>2, <2>4, <2>5 DEF Inv, TypeOK, SlotsCounted, One, GetWait
  <2> QED BY <2>2, <2>3, <2>5, <2>6 DEF Inv
<1>2. CASE GetTake(t)
  <2>1. ScannerGoto(t, "take", "post") /\ UNCHANGED mainVars BY <1>2 DEF GetTake
  <2>2. /\ scanner' \in [Thread -> ScannerPc] /\ PutsAFile' /\ NotCreated'
        /\ Putting' = Putting /\ main' = main
    BY <2>1, ScannerMoves DEF ScannerPc
  <2>3. /\ Cardinality(At("take")') = Cardinality(At("take")) - 1
        /\ Cardinality(At("post")') = Cardinality(At("post")) + 1
        /\ Cardinality(At("take")) > 0
    BY <1>0, <2>1, MovedCount
  <2>4. CASE queue_head = queue_tail
    <3>1. UNCHANGED ringVars /\ path' = [path EXCEPT ![t] = NULL]
      BY <1>2, <2>4 DEF GetTake, ringVars
    <3>2. TypeOK'
      BY <1>2, <2>2, <3>1 DEF Inv, TypeOK, GetTake, mainVars, ringVars
    <3>3. Size' = Size /\ RingFilled' BY <3>1, SameRing DEF Inv
    <3>4. Size = 0 BY <2>4 DEF Size, Inv, TypeOK
    <3>5. ~ Putting BY <1>0, <2>3, <3>4 DEF Inv, TypeOK, SlotsCounted, One
    <3> QED BY <2>2, <3>2, <3>3, <3>5 DEF Inv, SlotsCounted
  <2>5. CASE queue_head # queue_tail
    <3>1. queue_head' = Succ(queue_head) /\ queue_head' \in 0 .. MAX_QUEUED_FILES
      BY <1>2, <2>5, NextSlot DEF Inv, TypeOK, GetTake
    <3>2. Size' = Size - 1 /\ RingFilled' /\ file_queue[queue_head] \in File
      BY <1>2, <2>5, <3>1, TakeRing DEF Inv, GetTake
    <3>3. TypeOK'
      BY <1>2, <2>2, <2>5, <3>1, <3>2 DEF Inv, TypeOK, GetTake, mainVars
    <3>4. used_slots' = used_slots /\ unused_slots' = unused_slots BY <1>2 DEF GetTake
    <3>5. SlotsCounted'
      <4>1. One(main = "put_post")' = One(main = "put_post")
            /\ One(main = "put_slot")' = One(main = "put_slot")
            /\ One(main = "put_post") \in Nat /\ One(main = "put_slot") \in Nat
        BY <2>2 DEF One
      <4>2. used_slots \in Nat /\ unused_slots \in Nat BY DEF Inv, TypeOK
      <4>3. CASE ~ Putting BY <2>2, <4>3 DEF SlotsCounted
      <4>4. CASE Putting
        <5>1. /\ used_slots + Cardinality(At("take")) + One(main = "put_post") = Size
              /\ unused_slots + Cardinality(At("post")) + One(main = "put_slot") + Size
                   = MAX_QUEUED_FILES
          BY <4>4 DEF Inv, SlotsCounted
        <5>2. used_slots' + Cardinality(At("take")') + One(main = "put_post")' = Size'
          BY <1>0, <2>3, <3>2, <3>4, <4>1, <4>2, <5>1
        <5>3. unused_slots' + Cardinality(At("post")') + One(main = "put_slot")' + Size'
                = MAX_QUEUED_FILES
          BY <1>0, <2>3, <3>2, <3>4, <4>1, <4>2, <5>1
        <5> QED BY <5>2, <5>3 DEF SlotsCounted
      <4> QED BY <4>3, <4>4
    <3> QED BY <2>2, <3>2, <3>3, <3>5 DEF Inv
  <2> QED BY <2>4, <2>5
<1>3. CASE GetPost(t)
  <2> DEFINE to == IF path[t] = NULL THEN "done" ELSE "check"
  <2>1. to \in {"done", "check"} OBVIOUS
  <2>2. ScannerGoto(t, "post", to) /\ UNCHANGED mainVars BY <1>3 DEF GetPost
  <2> HIDE DEF to
  <2>3. /\ scanner' \in [Thread -> ScannerPc] /\ PutsAFile' /\ NotCreated'
        /\ Putting' = Putting /\ main' = main
    BY <2>1, <2>2, ScannerMoves DEF ScannerPc
  <2>4. TypeOK' BY <1>3, <2>3 DEF Inv, TypeOK, GetPost, mainVars, ringVars
  <2>5. /\ Cardinality(At("take")') = Cardinality(At("take"))
        /\ Cardinality(At("post")') = Cardinality(At("post")) - 1
    BY <1>0, <2>1, <2>2, MovedCount
  <2>6. Size' = Size /\ RingFilled' BY <1>3, SameRing DEF GetPost, Inv
  <2>7. SlotsCounted'
    BY <1>0, <1>3, <2>3, <2>5, <2>6 DEF Inv, TypeOK, SlotsCounted, One, GetPost
  <2> QED BY <2>3, <2>4, <2>6, <2>7 DEF Inv
<1> QED BY <1>1, <1>2, <1>3

\* The steps of a scan thread outside file_queue_get: its place is not counted.
LEMMA ScanInv ==
  ASSUME Inv, NEW t \in Thread, GetTimeout(t) \/ CheckDeadline(t) \/ scan_file(t)
  PROVE  Inv'
<1>1. PICK from \in {"wait", "check", "scan"}, to \in {"done", "scan", "wait"} :
        ScannerGoto(t, from, to) /\ from # to /\ UNCHANGED <<mainVars, queueVars>>
  BY DEF GetTimeout, CheckDeadline, scan_file
<1>2. /\ scanner' \in [Thread -> ScannerPc] /\ PutsAFile' /\ NotCreated'
      /\ Putting' = Putting /\ main' = main
  BY <1>1, ScannerMoves DEF ScannerPc
<1>3. path' \in [Thread -> File \cup {NULL}] /\ scanned' \in [File -> Nat]
      /\ expired' = expired
  <2>1. CASE GetTimeout(t) BY <2>1 DEF Inv, TypeOK, GetTimeout
  <2>2. CASE CheckDeadline(t) BY <2>2 DEF Inv, TypeOK, CheckDeadline
  <2>3. CASE scan_file(t)
    <3>1. \A f \in File : scanned[f] + 1 \in Nat BY DEF Inv, TypeOK
    <3> QED BY <2>3, <3>1 DEF Inv, TypeOK, scan_file
  <2> QED BY <2>1, <2>2, <2>3
<1>4. TypeOK' BY <1>1, <1>2, <1>3 DEF Inv, TypeOK, mainVars, queueVars, ringVars
<1>5. At("take")' = At("take") /\ At("post")' = At("post")
  BY <1>1, Moved DEF Inv, TypeOK
<1>6. Size' = Size /\ RingFilled' BY <1>1, SameRing DEF queueVars, Inv
<1>7. SlotsCounted' BY <1>1, <1>2, <1>5, <1>6 DEF Inv, SlotsCounted, One, queueVars
<1> QED BY <1>2, <1>4, <1>6, <1>7 DEF Inv

LEMMA StepInv == Inv /\ [Next]_vars => Inv'
<1> SUFFICES ASSUME Inv, [Next]_vars PROVE Inv' OBVIOUS
<1>1. CASE Main
  BY <1>1, WalkInv, CreateInv, PutInv, AfterWalkInv DEF Main
<1>2. CASE \E t \in Thread : Scanner(t)
  BY <1>2, GetInv, ScanInv DEF Scanner
<1>3. CASE Tick \/ Gone \/ UNCHANGED vars
  <2>1. UNCHANGED <<queueVars, mainVars, threadVars>> /\ expired' \in BOOLEAN
    BY <1>3 DEF Tick, Gone, vars, Inv, TypeOK
  <2> QED BY <2>1 DEF Inv, TypeOK, PutsAFile, NotCreated, SlotsCounted, Putting, At, Size, RingFilled, InRing,
                      queueVars, ringVars, mainVars, threadVars
<1> QED BY <1>1, <1>2, <1>3 DEF Next

LEMMA AlwaysInv == Spec => []Inv
BY InitInv, StepInv, PTL DEF Spec

\* Indices stay within the ring and counters within their types, for any sizes.
THEOREM TypeCorrect == Spec => []TypeOK
<1>1. Inv => TypeOK BY DEF Inv
<1> QED BY <1>1, AlwaysInv, PTL

\* Used and unused slots are accounted for as long as files are put.
THEOREM SlotsKept == Spec => []SlotsCounted
<1>1. Inv => SlotsCounted BY DEF Inv
<1> QED BY <1>1, AlwaysInv, PTL

\* The main thread never puts a file into a full ring (n124:8).
THEOREM NeverOverrun == Spec => []NoOverrun
<1>1. Inv => NoOverrun
  BY AtFinite, SizeType DEF Inv, TypeOK, NoOverrun, SlotsCounted, One, Putting
<1> QED BY <1>1, AlwaysInv, PTL

\* A thread is told that there is no file only after the walk (n118:10).
THEOREM EmptyAfterWalk == Spec => EmptyOnlyAtEnd
<1> DEFINE EndsEarly ==
      \E t \in Thread : /\ scanner[t] = "take" /\ (scanner[t])' = "post"
                        /\ (path[t])' = NULL /\ Putting
<1>1. Inv /\ [Next]_vars => ~ EndsEarly \/ UNCHANGED vars
  <2> SUFFICES ASSUME Inv, Next, NEW t \in Thread, Putting, scanner[t] = "take",
                      (scanner[t])' = "post", (path[t])' = NULL
               PROVE  FALSE
    BY DEF vars, queueVars, ringVars, mainVars, threadVars
  <2>1. GetTake(t)
    <3>1. CASE Main
      <4>1. scanner' = scanner \/ cli_create_thread
        BY <3>1 DEF Main, threadVars, CreateFails, StartWalk, ListUnreadable, PutWait,
                    PutTimeout, PutSlot, PutPost, WalkEnds, file_queue_finish,
                    cli_thread_join, file_queue_destroy, yr_rules_destroy, Return
      <4> QED BY <4>1 DEF cli_create_thread, Inv, TypeOK
    <3>2. CASE Tick \/ Gone BY <3>2 DEF Tick, Gone, vars, threadVars
    <3>3. CASE \E u \in Thread : Scanner(u)
      BY <3>3 DEF Scanner, GetWait, GetTimeout, GetTake, GetPost, CheckDeadline, scan_file,
                  ScannerGoto, Inv, TypeOK
    <3> QED BY <3>1, <3>2, <3>3 DEF Next
  <2>2. t \in At("take") BY DEF At
  <2>3. Cardinality(At("take")) > 0 BY <2>2, AtFinite, FS_EmptySet
  <2>4. Size > 0 BY <2>3, AtFinite, SizeType DEF Inv, TypeOK, SlotsCounted, One
  <2>5. queue_head # queue_tail BY <2>4 DEF Size, Inv, TypeOK
  <2>6. file_queue[queue_head] \in File
    BY <2>5, NextSlot DEF Inv, TypeOK, RingFilled, InRing
  <2>7. path'[t] = file_queue[queue_head] BY <2>1, <2>5 DEF GetTake, Inv, TypeOK
  <2> QED BY <2>6, <2>7 DEF File, NULL
<1>2. Inv /\ [Next]_vars =>
        [\A t \in Thread : scanner[t] = "take" /\ (scanner[t])' = "post" /\ (path[t])' = NULL
           => ~ Putting]_vars
  BY <1>1
<1> QED BY <1>2, AlwaysInv, PTL DEF Spec, EmptyOnlyAtEnd

-----------------------------------------------------------------------------
(***************************************************************************)
(* The ring as a sequence, and the files on their way through it.          *)
(***************************************************************************)

\* The last file put into the ring, and the last one taken out of it.
Last == next - One(main # "put_post")
Taken == Last - Size

\* The ring holds the files after Taken, in their order.
InOrder == Taken \in Nat /\ \A i \in 1 .. Size : Contents[i] = Taken + i

\* A thread holds a file from the take to the scan; no other thread holds it and
\* nobody has scanned it.
Held ==
  \A t \in Thread :
    /\ scanner[t] \in {"check", "scan"} => path[t] # NULL
    /\ scanner[t] \in {"none", "wait", "take", "done"} => path[t] = NULL
    /\ path[t] # NULL =>
         /\ path[t] <= Taken /\ scanned[path[t]] = 0
         /\ \A u \in Thread : path[u] = path[t] => u = t

\* A file that was taken and is held no more was scanned once.
Accounted ==
  \A f \in File :
    /\ f > Taken => scanned[f] = 0
    /\ f <= Taken /\ ~ expired /\ (\A t \in Thread : path[t] # f) => scanned[f] = 1

\* Before the deadline the walk goes to its end, and a thread that ends, or is
\* about to, leaves an empty ring that nobody fills any more.
WalkOver == main \in {"finish", "join", "destroy"} /\ ~ expired => next > Files

EmptyEnds ==
  ~ expired =>
    \A t \in Thread :
      scanner[t] = "done" \/ (scanner[t] = "post" /\ path[t] = NULL) => ~ Putting /\ Size = 0

AllJoined == main = "destroy" => \A t \in Thread : scanner[t] = "done"

Flow == InOrder /\ Held /\ Accounted /\ WalkOver /\ EmptyEnds /\ AllJoined

LEMMA SlotOf ==
  ASSUME NEW h \in 0 .. MAX_QUEUED_FILES, NEW i \in 0 .. MAX_QUEUED_FILES
  PROVE  /\ (h + i) % RingSize = IF h + i <= MAX_QUEUED_FILES THEN h + i
                                                              ELSE h + i - RingSize
         /\ (h + i) % RingSize \in 0 .. MAX_QUEUED_FILES
BY DEF RingSize

ContentsFit ==
  /\ Contents \in Seq(File \cup {NULL}) /\ Len(Contents) = Size
  /\ \A i \in 1 .. Size : Contents[i] = file_queue[(queue_head + (i - 1)) % RingSize]

LEMMA ContentsType == TypeOK => ContentsFit
<1> SUFFICES ASSUME TypeOK PROVE ContentsFit OBVIOUS
<1>1. Size \in Nat /\ Size <= MAX_QUEUED_FILES BY SizeType
<1>2. ASSUME NEW i \in 1 .. Size
      PROVE  /\ (queue_head + i - 1) % RingSize = (queue_head + (i - 1)) % RingSize
             /\ file_queue[(queue_head + i - 1) % RingSize] \in File \cup {NULL}
  <2>1. i - 1 \in 0 .. MAX_QUEUED_FILES /\ queue_head \in 0 .. MAX_QUEUED_FILES
    BY <1>1 DEF TypeOK
  <2>2. (queue_head + (i - 1)) % RingSize \in 0 .. MAX_QUEUED_FILES BY <2>1, SlotOf
  <2>3. queue_head + i - 1 = queue_head + (i - 1) BY <2>1
  <2> QED BY <2>2, <2>3 DEF TypeOK
<1>3. Contents \in [1 .. Size -> File \cup {NULL}] BY <1>2 DEF Contents
<1>4. Contents \in Seq(File \cup {NULL}) BY <1>1, <1>3
<1>5. Len(Contents) = Size BY <1>1, <1>3
<1>6. \A i \in 1 .. Size : Contents[i] = file_queue[(queue_head + (i - 1)) % RingSize]
  BY <1>2 DEF Contents
<1> QED BY <1>4, <1>5, <1>6 DEF ContentsFit

\* A put appends to the sequence, a take removes its head.
LEMMA PutContents ==
  ASSUME TypeOK, TypeOK', Size < MAX_QUEUED_FILES, NEW f \in File,
         queue_head' = queue_head, queue_tail' = Succ(queue_tail), Size' = Size + 1,
         file_queue' = [file_queue EXCEPT ![queue_tail] = f]
  PROVE  Contents' = Append(Contents, f)
<1> DEFINE S == File \cup {NULL}
<1>0. Size \in Nat /\ Size <= MAX_QUEUED_FILES BY SizeType
<1>1. /\ Contents \in Seq(S) /\ Len(Contents) = Size
      /\ \A i \in 1 .. Size : Contents[i] = file_queue[(queue_head + (i - 1)) % RingSize]
  BY ContentsType DEF ContentsFit
<1>10. ContentsFit' BY ContentsType, PTL
<1>2. /\ Contents' \in Seq(S) /\ Len(Contents') = Size + 1
      /\ \A i \in 1 .. Size + 1 :
           Contents'[i] = file_queue'[(queue_head + (i - 1)) % RingSize]
  BY <1>10 DEF ContentsFit
<1>3. /\ Append(Contents, f) \in Seq(S) /\ Len(Append(Contents, f)) = Size + 1
      /\ \A i \in 1 .. Size : Append(Contents, f)[i] = Contents[i]
      /\ Append(Contents, f)[Size + 1] = f
  BY <1>1, AppendProperties
<1>4. ASSUME NEW i \in 1 .. Size + 1
      PROVE  Contents'[i] = Append(Contents, f)[i]
  <2>1. i - 1 \in 0 .. MAX_QUEUED_FILES /\ queue_head \in 0 .. MAX_QUEUED_FILES
    BY <1>0 DEF TypeOK
  <2> DEFINE s == (queue_head + (i - 1)) % RingSize
  <2>2. /\ s = IF queue_head + (i - 1) <= MAX_QUEUED_FILES
               THEN queue_head + (i - 1) ELSE queue_head + (i - 1) - RingSize
        /\ s \in 0 .. MAX_QUEUED_FILES
    BY <2>1, SlotOf
  <2>3. Contents'[i] = file_queue'[s] BY <1>2
  <2>4. i <= Size => Contents[i] = file_queue[s] BY <1>0, <1>1
  <2> HIDE DEF s
  <2>5. i <= Size => s # queue_tail BY <2>1, <2>2 DEF TypeOK, Size, RingSize
  <2>6. i = Size + 1 => s = queue_tail BY <2>1, <2>2 DEF TypeOK, Size, RingSize
  <2>7. file_queue'[s] = IF s = queue_tail THEN f ELSE file_queue[s] BY <2>2 DEF TypeOK
  <2>8. CASE i <= Size BY <1>0, <1>3, <2>3, <2>4, <2>5, <2>7, <2>8
  <2>9. CASE i = Size + 1 BY <1>3, <2>3, <2>6, <2>7, <2>9
  <2>10. i <= Size \/ i = Size + 1 BY <1>0
  <2> QED BY <2>8, <2>9, <2>10
<1> HIDE DEF S
<1> QED BY <1>2, <1>3, <1>4, SeqEqual

LEMMA TakeContents ==
  ASSUME TypeOK, TypeOK', queue_head # queue_tail, queue_tail' = queue_tail,
         queue_head' = Succ(queue_head), Size' = Size - 1, file_queue' = file_queue
  PROVE  /\ Contents # <<>> /\ Head(Contents) = file_queue[queue_head]
         /\ Contents' = Tail(Contents)
<1> DEFINE S == File \cup {NULL}
<1>0. Size \in Nat /\ Size <= MAX_QUEUED_FILES /\ Size > 0
  BY SizeType DEF TypeOK, Size, RingSize
<1>1. /\ Contents \in Seq(S) /\ Len(Contents) = Size
      /\ \A i \in 1 .. Size : Contents[i] = file_queue[(queue_head + (i - 1)) % RingSize]
  BY ContentsType DEF ContentsFit
<1>10. ContentsFit' BY ContentsType, PTL
<1>2. /\ Contents' \in Seq(S) /\ Len(Contents') = Size - 1
      /\ \A i \in 1 .. Size - 1 :
           Contents'[i] = file_queue[(queue_head' + (i - 1)) % RingSize]
  BY <1>10 DEF ContentsFit
<1>3. Contents # <<>> BY <1>0, <1>1
<1>4. /\ Tail(Contents) \in Seq(S) /\ Len(Tail(Contents)) = Size - 1
      /\ \A i \in 1 .. Size - 1 : Tail(Contents)[i] = Contents[i + 1]
  BY <1>1, <1>3, HeadTailProperties
<1>5. ASSUME NEW i \in 1 .. Size - 1
      PROVE  Contents'[i] = Tail(Contents)[i]
  <2>1. /\ i - 1 \in 0 .. MAX_QUEUED_FILES /\ i \in 0 .. MAX_QUEUED_FILES
        /\ queue_head \in 0 .. MAX_QUEUED_FILES /\ queue_head' \in 0 .. MAX_QUEUED_FILES
    BY <1>0 DEF TypeOK
  <2>2. /\ (queue_head + i) % RingSize =
             IF queue_head + i <= MAX_QUEUED_FILES THEN queue_head + i
                                                   ELSE queue_head + i - RingSize
        /\ (queue_head' + (i - 1)) % RingSize =
             IF queue_head' + (i - 1) <= MAX_QUEUED_FILES
             THEN queue_head' + (i - 1) ELSE queue_head' + (i - 1) - RingSize
    BY <2>1, SlotOf
  <2>3. (queue_head + i) % RingSize = (queue_head' + (i - 1)) % RingSize
    BY <2>1, <2>2 DEF Succ, RingSize
  <2>4. i + 1 \in 1 .. Size /\ (i + 1) - 1 = i BY <1>0
  <2>5. Contents[i + 1] = file_queue[(queue_head + i) % RingSize] BY <1>1, <2>4
  <2> QED BY <1>2, <1>4, <2>3, <2>5
<1>6. Head(Contents) = file_queue[queue_head]
  <2>1. Head(Contents) = Contents[1] BY <1>1, <1>3
  <2>2. queue_head \in 0 .. MAX_QUEUED_FILES /\ 0 \in 0 .. MAX_QUEUED_FILES BY DEF TypeOK
  <2>3. (queue_head + 0) % RingSize = queue_head BY <2>2, SlotOf
  <2>4. 1 \in 1 .. Size /\ 1 - 1 = 0 BY <1>0
  <2>5. Contents[1] = file_queue[(queue_head + 0) % RingSize] BY <1>1, <2>4
  <2> QED BY <2>1, <2>3, <2>5
<1> HIDE DEF S
<1> QED BY <1>2, <1>3, <1>4, <1>5, <1>6, SeqEqual

LEMMA SameContents ==
  ASSUME UNCHANGED ringVars
  PROVE  Contents' = Contents
BY DEF Contents, Size, ringVars

LEMMA InitFlow == Init => Flow
<1> SUFFICES ASSUME Init PROVE Flow OBVIOUS
<1>1. Size = 0 /\ Last = 0 /\ Taken = 0 BY DEF Init, Size, Last, Taken, One
<1>2. InOrder BY <1>1 DEF InOrder
<1>3. Held BY DEF Init, Held, NULL
<1>4. Accounted BY <1>1 DEF Init, Accounted, File
<1>5. WalkOver /\ EmptyEnds /\ AllJoined BY DEF Init, WalkOver, EmptyEnds, AllJoined
<1> QED BY <1>2, <1>3, <1>4, <1>5 DEF Flow

\* What a step needs to keep the order if it neither fills nor empties a slot.
LEMMA SameOrder ==
  ASSUME UNCHANGED ringVars, Last' = Last
  PROVE  Taken' = Taken /\ Size' = Size /\ InOrder' = InOrder
<1>1. Size' = Size /\ Contents' = Contents BY SameRing, SameContents
<1> QED BY <1>1 DEF Taken, InOrder

\* Behind the free slot that the main thread has taken there is room in the ring.
LEMMA RoomToPut ==
  ASSUME Inv, main = "put_slot"
  PROVE  Size < MAX_QUEUED_FILES
<1>1. /\ Cardinality(At("post")) \in Nat /\ unused_slots \in Nat
      /\ Size \in Nat /\ MAX_QUEUED_FILES \in Nat
  BY AtFinite, SizeType, QueueAssumption DEF Inv, TypeOK
<1>2. Putting /\ One(main = "put_slot") = 1 BY DEF Putting, One
<1>3. unused_slots + Cardinality(At("post")) + 1 + Size = MAX_QUEUED_FILES
  BY <1>2 DEF Inv, SlotsCounted
<1> QED BY <1>1, <1>3

LEMMA PutFlow ==
  ASSUME Inv, Inv', Flow, PutSlot
  PROVE  Flow' /\ Contents' = Append(Contents, Last + 1) /\ Last' = Last + 1
<1>0. /\ TypeOK /\ TypeOK' /\ main = "put_slot" /\ main' = "put_post" /\ next' = next
      /\ UNCHANGED <<threadVars, expired>>
  BY DEF Inv, PutSlot, MainGoto
<1>1. next \in File /\ Last = next - 1 /\ Last' = Last + 1
  BY <1>0 DEF Inv, TypeOK, PutsAFile, File, Last, One
<1>2. queue_tail' = Succ(queue_tail) BY NextSlot DEF Inv, TypeOK, PutSlot
<1>3. Size < MAX_QUEUED_FILES BY <1>0, RoomToPut
<1>4. Size' = Size + 1 BY <1>0, <1>1, <1>2, <1>3, PutRing DEF Inv, PutSlot
<1>5. Contents' = Append(Contents, next)
  BY <1>0, <1>1, <1>2, <1>3, <1>4, PutContents DEF PutSlot
<1>6. Size \in Nat /\ Taken' = Taken
  BY <1>1, <1>4, SizeType, <1>0 DEF Taken, File
<1>7. InOrder'
  <2>1. Contents \in Seq(File \cup {NULL}) /\ Len(Contents) = Size
    BY <1>0, ContentsType DEF ContentsFit
  <2>2. /\ \A i \in 1 .. Size : Append(Contents, next)[i] = Contents[i]
        /\ Append(Contents, next)[Size + 1] = next
    BY <1>1, <2>1, AppendProperties
  <2>3. Taken \in Nat /\ \A i \in 1 .. Size : Contents[i] = Taken + i
    BY DEF Flow, InOrder
  <2>4. Taken + (Size + 1) = next BY <1>1, <1>6, <2>3 DEF Taken, File
  <2>5. ASSUME NEW i \in 1 .. Size + 1
        PROVE  Contents'[i] = Taken + i
    <3>1. i \in 1 .. Size \/ i = Size + 1 BY <1>6
    <3> QED BY <3>1, <2>2, <2>3, <2>4, <1>5
  <2> QED BY <2>3, <2>5, <1>4, <1>6 DEF InOrder
<1>8. Held' /\ Accounted' BY <1>0, <1>6 DEF Flow, Held, Accounted, threadVars
<1>9. WalkOver' /\ AllJoined' BY <1>0 DEF WalkOver, AllJoined
<1>10. EmptyEnds' BY <1>0 DEF Flow, EmptyEnds, Putting, threadVars
<1>11. Last + 1 = next BY <1>1 DEF File
<1>12. Contents' = Append(Contents, Last + 1) BY <1>5, <1>11
<1> QED BY <1>1, <1>7, <1>8, <1>9, <1>10, <1>12 DEF Flow

LEMMA CreateFlow ==
  ASSUME Inv, Flow, cli_create_thread
  PROVE  Flow' /\ Contents' = Contents /\ Last' = Last /\ path' = path
<1>1. /\ UNCHANGED <<ringVars, main, next, path, scanned, expired>> /\ main = "create"
      /\ created + 1 \in Thread
      /\ scanner' = [scanner EXCEPT ![created + 1] = "wait"]
      /\ scanner \in [Thread -> ScannerPc] /\ scanner[created + 1] = "none"
  BY DEF cli_create_thread, queueVars, Inv, TypeOK, NotCreated, Thread
<1>2. Last' = Last BY <1>1 DEF Last, One
<1>3. Taken' = Taken /\ Size' = Size /\ InOrder' BY <1>1, <1>2, SameOrder DEF Flow
<1>4. ASSUME NEW t \in Thread
      PROVE  scanner'[t] = scanner[t] \/ (scanner[t] = "none" /\ scanner'[t] = "wait")
  BY <1>1
<1>5. Held' BY <1>1, <1>3, <1>4 DEF Flow, Held
<1>6. Accounted' BY <1>1, <1>3 DEF Flow, Accounted
<1>7. EmptyEnds' BY <1>1, <1>3, <1>4 DEF Flow, EmptyEnds, Putting
<1>8. WalkOver' /\ AllJoined' BY <1>1 DEF WalkOver, AllJoined
<1>9. Contents' = Contents BY <1>1, SameContents
<1> QED BY <1>1, <1>2, <1>3, <1>5, <1>6, <1>7, <1>8, <1>9 DEF Flow

\* The other steps of the main thread, and the clock.
MainRest ==
  \/ CreateFails \/ StartWalk \/ ListUnreadable \/ PutWait \/ PutTimeout \/ PutPost
  \/ WalkEnds \/ file_queue_finish \/ cli_thread_join \/ file_queue_destroy
  \/ yr_rules_destroy \/ Return \/ Tick \/ Gone \/ UNCHANGED vars

LEMMA MainFlow ==
  ASSUME Inv, Flow, MainRest
  PROVE  Flow' /\ Contents' = Contents /\ Last' = Last /\ path' = path
<1>0. next \in Int BY DEF Inv, TypeOK
<1>1. UNCHANGED <<ringVars, threadVars>> /\ (expired => expired')
  BY DEF MainRest, CreateFails, StartWalk, ListUnreadable, PutWait, PutTimeout, PutPost,
         WalkEnds, file_queue_finish, cli_thread_join, file_queue_destroy,
         yr_rules_destroy, Return, Tick, Gone, vars, queueVars
<1>2. /\ PutPost \/ (next' = next /\ main' # "put_post" /\ main # "put_post")
         \/ (next' = next /\ main' = main)
      /\ Putting' => Putting
  BY DEF MainRest, CreateFails, StartWalk, ListUnreadable, PutWait, PutTimeout, PutPost,
         WalkEnds, file_queue_finish, cli_thread_join, file_queue_destroy, MainGoto,
         yr_rules_destroy, Return, Tick, Gone, vars, mainVars, queueVars, Putting
<1>3. Last' = Last BY <1>0, <1>2 DEF Last, One, PutPost, MainGoto
<1>4. WalkOver'
  BY <1>1 DEF Flow, WalkOver, MainRest, CreateFails, StartWalk, ListUnreadable, PutWait,
         PutTimeout, PutPost, WalkEnds, file_queue_finish, cli_thread_join,
         file_queue_destroy, MainGoto, yr_rules_destroy, Return, Tick, Gone, vars, mainVars
<1>5. AllJoined'
  BY <1>1 DEF Flow, AllJoined, MainRest, CreateFails, StartWalk, ListUnreadable, PutWait,
         PutTimeout, PutPost, WalkEnds, file_queue_finish, cli_thread_join,
         file_queue_destroy, MainGoto, yr_rules_destroy, Return, Tick, Gone, vars,
         mainVars, threadVars
<1>6. Taken' = Taken /\ Size' = Size /\ InOrder' BY <1>1, <1>3, SameOrder DEF Flow
<1>7. Held' BY <1>1, <1>6 DEF Flow, Held, threadVars
<1>8. Accounted' BY <1>1, <1>6 DEF Flow, Accounted, threadVars
<1>9. EmptyEnds' BY <1>1, <1>2, <1>6 DEF Flow, EmptyEnds, threadVars
<1>10. Contents' = Contents /\ path' = path BY <1>1, SameContents DEF threadVars
<1> QED BY <1>3, <1>4, <1>5, <1>6, <1>7, <1>8, <1>9, <1>10 DEF Flow

\* A thread takes the next file, or finds the ring empty, which ends it.
LEMMA TakeFlow ==
  ASSUME Inv, Inv', Flow, NEW t \in Thread, GetTake(t)
  PROVE  /\ Flow' /\ Last' = Last /\ path[t] = NULL
         /\ \/ Contents' = Contents /\ path' = path
            \/ /\ Contents # <<>> /\ Contents' = Tail(Contents)
               /\ path' = [path EXCEPT ![t] = Head(Contents)]
<1>0. /\ TypeOK /\ TypeOK' /\ UNCHANGED <<mainVars, scanned, expired>>
      /\ scanner[t] = "take" /\ scanner' = [scanner EXCEPT ![t] = "post"]
      /\ scanner \in [Thread -> ScannerPc] /\ path \in [Thread -> File \cup {NULL}]
  BY DEF Inv, GetTake, ScannerGoto, TypeOK
<1>1. Last' = Last /\ path[t] = NULL BY <1>0 DEF Flow, Held, mainVars, Last, One
<1>2. WalkOver' /\ Putting' = Putting BY <1>0 DEF Flow, WalkOver, mainVars, Putting
<1>3. AllJoined' BY <1>0 DEF Flow, AllJoined, mainVars
<1>4. CASE queue_head = queue_tail
  <2>1. UNCHANGED ringVars /\ path' = [path EXCEPT ![t] = NULL]
    BY <1>4 DEF GetTake, ringVars
  <2>2. path' = path BY <1>0, <1>1, <2>1
  <2>3. Taken' = Taken /\ Size' = Size /\ InOrder' BY <1>1, <2>1, SameOrder DEF Flow
  <2>4. Size = 0 BY <1>0, <1>4 DEF Size, TypeOK
  <2>5. ~ Putting
    <3>1. t \in At("take") BY <1>0 DEF At
    <3>2. Cardinality(At("take")) > 0 BY <3>1, AtFinite, FS_EmptySet
    <3>3. Cardinality(At("take")) \in Nat /\ used_slots \in Nat
      BY AtFinite DEF Inv, TypeOK
    <3>4. SlotsCounted BY DEF Inv
    <3> QED BY <2>4, <3>2, <3>3, <3>4 DEF SlotsCounted, One
  <2>6. Held' BY <1>0, <1>1, <2>2, <2>3 DEF Flow, Held
  <2>7. Accounted' BY <1>0, <2>2, <2>3 DEF Flow, Accounted
  <2>8. EmptyEnds' BY <1>2, <2>3, <2>4, <2>5 DEF EmptyEnds
  <2> QED BY <1>1, <1>2, <1>3, <2>1, <2>2, <2>3, <2>6, <2>7, <2>8, SameContents DEF Flow
<1>5. CASE queue_head # queue_tail
  <2>1. queue_head' = Succ(queue_head) BY <1>5, NextSlot DEF Inv, TypeOK, GetTake
  <2>2. Size' = Size - 1 /\ file_queue[queue_head] \in File
    BY <1>5, <2>1, TakeRing DEF Inv, GetTake
  <2>3. /\ Contents # <<>> /\ Head(Contents) = file_queue[queue_head]
        /\ Contents' = Tail(Contents)
    BY <1>0, <1>5, <2>1, <2>2, TakeContents DEF GetTake
  <2>4. path' = [path EXCEPT ![t] = Head(Contents)] BY <1>5, <2>3 DEF GetTake
  <2>5. /\ Contents \in Seq(File \cup {NULL}) /\ Len(Contents) = Size
        /\ Len(Contents') = Size - 1 /\ Size \in Nat /\ Size > 0
    BY <1>0, <2>2, <2>3, ContentsType, SizeType, HeadTailProperties
       DEF ContentsFit
  <2>6. Taken \in Nat /\ \A i \in 1 .. Size : Contents[i] = Taken + i
    BY DEF Flow, InOrder
  <2>7. Last \in Int BY <1>0 DEF TypeOK, Last, One
  <2>8. Taken' = Taken + 1 BY <1>1, <2>2, <2>5, <2>7 DEF Taken
  <2>9. Head(Contents) = Taken + 1 /\ Taken + 1 \in File
    BY <2>2, <2>3, <2>5, <2>6
  <2>10. InOrder'
    <3>1. \A i \in 1 .. Size - 1 : Contents'[i] = Contents[i + 1]
      BY <2>3, <2>5, HeadTailProperties
    <3>2. ASSUME NEW i \in 1 .. Size'
          PROVE  Contents'[i] = Taken' + i
      <4>1. i + 1 \in 1 .. Size /\ i \in 1 .. Size - 1 BY <2>2, <2>5
      <4> QED BY <3>1, <2>6, <2>8, <4>1
    <3> QED BY <2>6, <2>8, <3>2 DEF InOrder
  <2>11. ASSUME NEW u \in Thread
         PROVE  /\ path'[u] = IF u = t THEN Taken + 1 ELSE path[u]
                /\ scanner'[u] = IF u = t THEN "post" ELSE scanner[u]
                /\ path[u] # NULL => path[u] <= Taken /\ scanned[path[u]] = 0
                /\ path[u] \in Int
    BY <1>0, <2>4, <2>9 DEF Flow, Held, File, NULL
  <2>12. scanned[Taken + 1] = 0 BY <2>6, <2>9 DEF Flow, Accounted
  <2>13. Taken + 1 # NULL /\ \A i \in Int : i <= Taken => i <= Taken + 1 /\ i # Taken + 1
    BY <2>6 DEF NULL
  <2>14. Held'
    <3> SUFFICES ASSUME NEW u \in Thread
                 PROVE  /\ scanner'[u] \in {"check", "scan"} => path'[u] # NULL
                        /\ scanner'[u] \in {"none", "wait", "take", "done"} => path'[u] = NULL
                        /\ path'[u] # NULL =>
                             /\ path'[u] <= Taken' /\ scanned[path'[u]] = 0
                             /\ \A v \in Thread : path'[v] = path'[u] => v = u
      BY <1>0 DEF Held
    <3>1. CASE u = t
      <4>1. \A v \in Thread : path'[v] = path'[u] => v = u
        BY <2>11, <2>13, <3>1
      <4>2. path'[u] = Taken + 1 /\ scanner'[u] = "post" BY <2>11, <3>1
      <4>3. path'[u] <= Taken' BY <2>6, <2>8, <4>2
      <4> QED BY <2>12, <4>1, <4>2, <4>3
    <3>2. CASE u # t
      <4>1. path'[u] = path[u] /\ scanner'[u] = scanner[u] BY <2>11, <3>2
      <4>2. ASSUME path[u] # NULL, NEW v \in Thread, path'[v] = path'[u]
            PROVE  v = u
        <5>1. path[u] \in Int /\ path[u] <= Taken BY <2>11, <4>2
        <5>2. v # t BY <2>11, <2>13, <4>1, <4>2, <5>1
        <5> QED BY <2>11, <4>1, <4>2, <5>2 DEF Flow, Held
      <4>3. path[u] # NULL => path'[u] <= Taken' BY <2>8, <2>11, <2>13, <4>1
      <4> QED BY <2>11, <4>1, <4>2, <4>3 DEF Flow, Held
    <3> QED BY <3>1, <3>2
  <2>15. Accounted'
    <3> SUFFICES ASSUME NEW f \in File
                 PROVE  /\ f > Taken' => scanned[f] = 0
                        /\ f <= Taken' /\ ~ expired /\ (\A u \in Thread : path'[u] # f)
                             => scanned[f] = 1
      BY <1>0 DEF Accounted
    <3>1. f > Taken' => f > Taken BY <2>6, <2>8 DEF File
    <3>2. ASSUME f <= Taken', \A u \in Thread : path'[u] # f
          PROVE  f <= Taken /\ \A u \in Thread : path[u] # f
      <4>1. f # Taken + 1 BY <2>11, <3>2
      <4>2. path[t] # f BY <1>1 DEF File, NULL
      <4> QED BY <2>6, <2>8, <2>11, <3>2, <4>1, <4>2 DEF File
    <3> QED BY <3>1, <3>2 DEF Flow, Accounted
  <2>16. EmptyEnds'
    <3>1. ASSUME NEW u \in Thread, ~ expired,
                 scanner'[u] = "done" \/ (scanner'[u] = "post" /\ path'[u] = NULL)
          PROVE  FALSE
      <4>1. u # t BY <2>11, <2>13, <3>1
      <4>2. Size = 0 BY <2>11, <3>1, <4>1 DEF Flow, EmptyEnds
      <4> QED BY <2>5, <4>2
    <3> QED BY <1>0, <3>1 DEF EmptyEnds
  <2> QED BY <1>1, <1>2, <1>3, <2>3, <2>4, <2>10, <2>14, <2>15, <2>16 DEF Flow
<1> QED BY <1>4, <1>5

\* The other steps of a scan thread: only the scan, and the deadline before it,
\* make it give up its file.
LEMMA ScanFlow ==
  ASSUME Inv, Inv', Flow, NEW t \in Thread,
         GetWait(t) \/ GetTimeout(t) \/ GetPost(t) \/ CheckDeadline(t) \/ scan_file(t)
  PROVE  /\ Flow' /\ Last' = Last /\ Contents' = Contents
         /\ path' = path \/ (path[t] # NULL /\ path' = [path EXCEPT ![t] = NULL])
<1>0. /\ scanner \in [Thread -> ScannerPc] /\ path \in [Thread -> File \cup {NULL}]
      /\ scanned \in [File -> Nat]
  BY DEF Inv, TypeOK
<1>1. UNCHANGED <<ringVars, mainVars, expired>>
  BY DEF GetWait, GetTimeout, GetPost, CheckDeadline, scan_file, queueVars
<1>2. Last' = Last /\ Contents' = Contents
  BY <1>1, SameContents DEF Last, One, mainVars
<1>3. Taken' = Taken /\ Size' = Size /\ InOrder' BY <1>1, <1>2, SameOrder DEF Flow
<1>4. WalkOver' /\ Putting' = Putting BY <1>1 DEF Flow, WalkOver, mainVars, Putting
<1>5. PICK to \in ScannerPc :
        scanner' = [scanner EXCEPT ![t] = to] /\ scanner[t] # "done" /\ main # "gone"
  BY DEF GetWait, GetTimeout, GetPost, CheckDeadline, scan_file, ScannerGoto, ScannerPc
<1>6. AllJoined' BY <1>0, <1>1, <1>5 DEF Flow, AllJoined, mainVars
<1>7. CASE GetWait(t) \/ GetTimeout(t) \/ GetPost(t)
  <2>1. path' = path /\ scanned' = scanned BY <1>7 DEF GetWait, GetTimeout, GetPost
  <2>2. /\ scanner'[t] \in {"check"} => path[t] # NULL
        /\ scanner'[t] \in {"take", "done"} => path[t] = NULL
        /\ scanner'[t] \in {"check", "take", "done"}
    BY <1>0, <1>7 DEF GetWait, GetTimeout, GetPost, ScannerGoto, Flow, Held
  <2>3. Held' BY <1>0, <1>3, <1>5, <2>1, <2>2 DEF Flow, Held
  <2>4. Accounted' BY <1>1, <1>3, <2>1 DEF Flow, Accounted
  <2>5. ~ expired /\ scanner'[t] = "done" => scanner[t] = "post" /\ path[t] = NULL
    BY <1>0, <1>7 DEF GetWait, GetTimeout, GetPost, ScannerGoto
  <2>6. EmptyEnds' BY <1>0, <1>1, <1>3, <1>4, <1>5, <2>1, <2>2, <2>5 DEF Flow, EmptyEnds
  <2> QED BY <1>2, <1>3, <1>4, <1>6, <2>1, <2>3, <2>4, <2>6 DEF Flow
<1>8. CASE CheckDeadline(t) /\ ~ expired
  <2>1. path' = path /\ scanned' = scanned /\ scanner'[t] = "scan" /\ path[t] # NULL
    BY <1>0, <1>8 DEF CheckDeadline, ScannerGoto, Flow, Held
  <2>2. Held' BY <1>0, <1>3, <1>5, <2>1 DEF Flow, Held
  <2>3. Accounted' BY <1>1, <1>3, <2>1 DEF Flow, Accounted
  <2>4. EmptyEnds' BY <1>0, <1>1, <1>3, <1>4, <1>5, <2>1 DEF Flow, EmptyEnds
  <2> QED BY <1>2, <1>3, <1>4, <1>6, <2>1, <2>2, <2>3, <2>4 DEF Flow
<1>9. CASE CheckDeadline(t) /\ expired
  <2>1. /\ path' = [path EXCEPT ![t] = NULL] /\ scanned' = scanned
        /\ scanner'[t] = "done" /\ path[t] # NULL
    BY <1>0, <1>9 DEF CheckDeadline, ScannerGoto, Flow, Held
  <2>2. Held' BY <1>0, <1>3, <1>5, <2>1 DEF Flow, Held
  <2>3. Accounted' BY <1>1, <1>3, <1>9, <2>1 DEF Flow, Accounted
  <2>4. EmptyEnds' BY <1>1, <1>9 DEF EmptyEnds
  <2> QED BY <1>2, <1>3, <1>4, <1>6, <2>1, <2>2, <2>3, <2>4 DEF Flow
<1>10. CASE scan_file(t)
  <2>1. /\ path' = [path EXCEPT ![t] = NULL]
        /\ scanned' = [scanned EXCEPT ![path[t]] = @ + 1]
        /\ scanner'[t] = "wait" /\ path[t] # NULL /\ scanner[t] = "scan"
    BY <1>0, <1>10 DEF scan_file, ScannerGoto, Flow, Held
  <2>2. /\ path[t] \in File /\ scanned[path[t]] = 0 /\ path[t] <= Taken
        /\ \A u \in Thread : path[u] = path[t] => u = t
    BY <1>0, <2>1 DEF Flow, Held
  <2>3. scanned'[path[t]] = 1 /\ \A f \in File \ {path[t]} : scanned'[f] = scanned[f]
    BY <1>0, <2>1, <2>2
  <2>4. \A u \in Thread : path'[u] = IF u = t THEN NULL ELSE path[u] BY <1>0, <2>1
  <2>5. Held'
    <3> SUFFICES ASSUME NEW u \in Thread
                 PROVE  /\ scanner'[u] \in {"check", "scan"} => path'[u] # NULL
                        /\ scanner'[u] \in {"none", "wait", "take", "done"} => path'[u] = NULL
                        /\ path'[u] # NULL =>
                             /\ path'[u] <= Taken' /\ scanned'[path'[u]] = 0
                             /\ \A v \in Thread : path'[v] = path'[u] => v = u
      BY DEF Held
    <3>1. CASE u = t BY <2>1, <2>4, <3>1
    <3>2. CASE u # t
      <4>1. path'[u] = path[u] /\ scanner'[u] = scanner[u] /\ path[u] # path[t]
        BY <1>0, <1>5, <2>2, <2>4, <3>2
      <4>2. path[u] # NULL => scanned'[path[u]] = scanned[path[u]]
        BY <1>0, <2>3, <4>1
      <4>3. path[u] # NULL => \A v \in Thread : path'[v] = path[u] => v = u
        BY <2>4 DEF Flow, Held
      <4> QED BY <1>3, <4>1, <4>2, <4>3 DEF Flow, Held
    <3> QED BY <3>1, <3>2
  <2>6. Accounted'
    <3> SUFFICES ASSUME NEW f \in File
                 PROVE  /\ f > Taken => scanned'[f] = 0
                        /\ f <= Taken /\ ~ expired /\ (\A u \in Thread : path'[u] # f)
                             => scanned'[f] = 1
      BY <1>1, <1>3 DEF Accounted
    <3>1. Taken \in Nat BY DEF Flow, InOrder
    <3>2. CASE f = path[t]
      <4>1. ~ (f > Taken) BY <2>2, <3>1, <3>2 DEF File
      <4> QED BY <2>3, <3>2, <4>1
    <3>3. CASE f # path[t]
      <4>1. (\A u \in Thread : path'[u] # f) => \A u \in Thread : path[u] # f
        BY <2>4, <3>3
      <4> QED BY <2>3, <3>3, <4>1 DEF Flow, Accounted
    <3> QED BY <3>2, <3>3
  <2>7. EmptyEnds'
    <3>1. ASSUME NEW u \in Thread, ~ expired,
                 scanner'[u] = "done" \/ (scanner'[u] = "post" /\ path'[u] = NULL)
          PROVE  ~ Putting /\ Size = 0
      BY <1>0, <1>5, <2>1, <2>4, <3>1 DEF Flow, EmptyEnds
    <3> QED BY <1>1, <1>3, <1>4, <3>1 DEF EmptyEnds
  <2> QED BY <1>2, <1>3, <1>4, <1>6, <2>1, <2>5, <2>6, <2>7 DEF Flow
<1> QED BY <1>7, <1>8, <1>9, <1>10

\* Every step keeps the order of the files, and is a step of the bounded queue.
LEMMA StepFlow ==
  ASSUME Inv, Inv', Flow, [Next]_vars
  PROVE  /\ Flow'
         /\ \/ PutSlot /\ Contents' = Append(Contents, Last + 1) /\ Last' = Last + 1
            \/ Last' = Last /\ Contents' = Contents /\ path' = path
            \/ /\ Last' = Last
               /\ \E t \in Thread :
                    \/ /\ path[t] = NULL /\ Contents # <<>> /\ Contents' = Tail(Contents)
                       /\ path' = [path EXCEPT ![t] = Head(Contents)]
                    \/ /\ path[t] # NULL /\ Contents' = Contents
                       /\ path' = [path EXCEPT ![t] = NULL]
<1>1. CASE PutSlot BY <1>1, PutFlow
<1>2. CASE cli_create_thread BY <1>2, CreateFlow
<1>3. CASE MainRest BY <1>3, MainFlow
<1>4. ASSUME NEW t \in Thread, Scanner(t)
      PROVE  /\ Flow' /\ Last' = Last
             /\ \/ Contents' = Contents /\ path' = path
                \/ /\ path[t] = NULL /\ Contents # <<>> /\ Contents' = Tail(Contents)
                   /\ path' = [path EXCEPT ![t] = Head(Contents)]
                \/ /\ path[t] # NULL /\ Contents' = Contents
                   /\ path' = [path EXCEPT ![t] = NULL]
  <2>1. CASE GetTake(t) BY <2>1, TakeFlow
  <2>2. CASE GetWait(t) \/ GetTimeout(t) \/ GetPost(t) \/ CheckDeadline(t) \/ scan_file(t)
    BY <2>2, ScanFlow
  <2> QED BY <1>4, <2>1, <2>2 DEF Scanner
<1>5. PutSlot \/ cli_create_thread \/ MainRest \/ \E t \in Thread : Scanner(t)
  BY DEF Next, Main, MainRest
<1> QED BY <1>1, <1>2, <1>3, <1>4, <1>5

LEMMA AlwaysFlow == Spec => [](Inv /\ Flow)
<1>1. Inv /\ Inv' /\ Flow /\ [Next]_vars => Flow' BY StepFlow
<1> QED BY <1>1, InitFlow, AlwaysInv, PTL DEF Spec

\* When main has waited for its threads (v009:251) and the deadline has not passed,
\* every file of the walk was scanned exactly once: no file is left in the ring,
\* skipped or given to two threads, whatever the interleaving.
THEOREM EveryFileScanned == Spec => []AllScanned
<1>1. Inv /\ Flow => AllScanned
  <2> SUFFICES ASSUME Inv, Flow, main = "destroy", ~ expired, threads > 0,
                      NEW f \in File
               PROVE  scanned[f] = 1
    BY DEF AllScanned
  <2>1. \A t \in Thread : scanner[t] = "done" BY DEF Flow, AllJoined
  <2>2. \A t \in Thread : path[t] # f BY <2>1 DEF Flow, Held, File, NULL
  <2>3. 1 \in Thread BY DEF Thread
  <2>4. Size = 0 BY <2>1, <2>3 DEF Flow, EmptyEnds
  <2>5. f <= Taken
    BY <2>4 DEF Flow, WalkOver, Inv, TypeOK, Taken, Last, One, File
  <2> QED BY <2>2, <2>5 DEF Flow, Accounted
<1> QED BY <1>1, AlwaysFlow, PTL

\* The ring, the two semaphores and the mutex implement a bounded queue that gives
\* each file to one thread, first in first out: each step of the tool is a step of
\* BoundedQueue or leaves the queue as it is.
THEOREM QueueImplemented == Spec => ImplementsQueue
<1>1. Init => Queue!Init
  <2> SUFFICES ASSUME Init PROVE Queue!Init OBVIOUS
  <2>1. Size = 0 /\ Last = 0 BY DEF Init, Size, Last, One
  <2>2. Contents = <<>> BY <2>1 DEF Contents
  <2>3. path = [t \in Thread |-> 0] BY DEF Init, NULL
  <2> QED BY <2>1, <2>2, <2>3 DEF Queue!Init, Last
<1>2. ASSUME Inv, Inv', Flow, [Next]_vars
      PROVE  [Queue!Next]_Queue!vars
  <2>1. ASSUME PutSlot, Contents' = Append(Contents, Last + 1), Last' = Last + 1
        PROVE  Queue!Put
    <3>1. /\ TypeOK /\ main = "put_slot" /\ next \in File /\ path' = path
      BY <1>2, <2>1 DEF Inv, TypeOK, PutsAFile, PutSlot, MainGoto, File, threadVars
    <3>2. Last < Files BY <3>1 DEF Last, One, File
    <3>3. Size < MAX_QUEUED_FILES BY <1>2, <3>1, RoomToPut
    <3>4. Len(Contents) < MAX_QUEUED_FILES BY <3>1, <3>3, ContentsType DEF ContentsFit
    <3> QED BY <2>1, <3>1, <3>2, <3>4 DEF Queue!Put, Last
  <2>2. ASSUME Last' = Last, Contents' = Contents, path' = path
        PROVE  UNCHANGED Queue!vars
    BY <2>2 DEF Queue!vars, Last
  <2>3. ASSUME NEW t \in Thread, Last' = Last, path[t] = NULL, Contents # <<>>,
               Contents' = Tail(Contents), path' = [path EXCEPT ![t] = Head(Contents)]
        PROVE  Queue!Take(t)
    BY <2>3 DEF Queue!Take, Last, NULL
  <2>4. ASSUME NEW t \in Thread, Last' = Last, path[t] # NULL, Contents' = Contents,
               path' = [path EXCEPT ![t] = NULL]
        PROVE  Queue!Drop(t)
    BY <2>4 DEF Queue!Drop, Last, NULL
  <2> QED BY <1>2, StepFlow, <2>1, <2>2, <2>3, <2>4 DEF Queue!Next
<1> QED BY <1>1, <1>2, AlwaysFlow, PTL DEF Spec, ImplementsQueue, Queue!Spec

=============================================================================
