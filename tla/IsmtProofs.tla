----------------------------- MODULE IsmtProofs -----------------------------
(***************************************************************************)
(* Proofs about Ismt, for a ring of any size and any number of transfers.  *)
(*                                                                         *)
(* A transfer that timed out leaves behind a descriptor the controller has *)
(* not finished, or the signal of one it finished too late.  There are no  *)
(* more of the two than transfers that timed out, and one while the driver *)
(* waits.  Until the controller was given the whole ring (lapped), what it *)
(* has not finished is the part of the ring from FMTP to FMHP (OwedAre).   *)
(***************************************************************************)
EXTENDS IsmtProps, TLAPS

USE RingAssumption, BoundAssumption

Given == pc \in {"waiting", "process"}

\* What the pointers say there is between them.
Unfinished == (fmhp - fmtp) % ISMT_DESC_ENTRIES

\* How far a slot lies ahead of the controller.
Ahead(s) == IF fmtp <= s THEN s - fmtp ELSE s - fmtp + ISMT_DESC_ENTRIES

\* A transfer that timed out stands in every slot but the last.
LapCounted == lapped => timeouts >= ISMT_DESC_ENTRIES - 1

OwedAre == \A s \in Slot : s \in owed <=> Ahead(s) < Unfinished

One(b) == IF b THEN 1 ELSE 0

\* The driver tells the controller of its descriptor and then moves its head on.
HeadTold == fmhp = IF Given THEN NextSlot(head) ELSE head

\* Finished descriptors of which the driver will be told.
Signals == done + One(irq) + One(isr = "complete")

Behind == Unfinished + Signals <= timeouts + One(pc = "waiting")

ChipBusy == chip # Idle => Unfinished > 0 /\ chip = hw[fmtp]

\* The descriptor of the present transfer, before and after its execution.
OwnDesc ==
  /\ pc # "idle" => hw[head].xfer = xfer
  /\ pc \in {"built", "ready"} => hw[head].status = "none"
  /\ Given /\ Unfinished > 0 => hw[head].status = "none"
  /\ Given /\ Unfinished = 0 =>
       /\ hw[head].status # "none"
       /\ hw[head].status = "SCS" /\ hw[head].kind = "read" => buffer = xfer

\* Without timeouts nobody else touches the buffer.
BufferKept == timeouts = 0 /\ pc # "idle" /\ hw[head].kind = "write" => buffer = xfer

\* The handler is for the line only, which stays raised until it clears it.
Cleared == (isr = "clear" => irq) /\ (msi => isr = "idle")

Inv ==
  /\ TypeOK /\ HeadTold /\ Cleared /\ LapCounted
  /\ ~ lapped => Behind /\ OwedAre /\ ChipBusy /\ OwnDesc /\ BufferKept

-----------------------------------------------------------------------------
LEMMA NextSlotIs ==
  ASSUME NEW s \in Slot
  PROVE  /\ NextSlot(s) = IF s = ISMT_DESC_ENTRIES - 1 THEN 0 ELSE s + 1
         /\ NextSlot(s) \in Slot
BY DEF NextSlot, Slot

LEMMA UnfinishedIs ==
  ASSUME fmhp \in Slot, fmtp \in Slot
  PROVE  /\ Unfinished = IF fmtp <= fmhp THEN fmhp - fmtp
                                         ELSE fmhp - fmtp + ISMT_DESC_ENTRIES
         /\ Unfinished \in 0 .. ISMT_DESC_ENTRIES - 1
BY DEF Unfinished, Slot

LEMMA InitInv == Init => Inv
<1> SUFFICES ASSUME Init PROVE Inv OBVIOUS
<1>1. TypeOK
  <2>1. Blank \in Desc /\ Idle \in Desc BY DEF Blank, Idle, Desc, Kind, Status
  <2>2. 0 \in Slot /\ Zero \in 0 .. Transfers /\ "none" \in Result BY DEF Slot, Zero, Result
  <2>3. msi \in BOOLEAN /\ irq \in BOOLEAN /\ lapped \in BOOLEAN BY Zenon DEF Init
  <2> QED BY <2>1, <2>2, <2>3 DEF Init, TypeOK
<1>2. fmhp \in Slot /\ fmtp \in Slot BY <1>1 DEF TypeOK
<1>3. Unfinished = 0 BY <1>2, UnfinishedIs DEF Init
<1>4. HeadTold /\ Cleared /\ Behind /\ ChipBusy /\ OwnDesc /\ BufferKept /\ LapCounted
  BY <1>3 DEF Init, HeadTold, Cleared, Behind, ChipBusy, OwnDesc, BufferKept, Given,
              Signals, One, LapCounted
<1>5. OwedAre BY <1>3 DEF Init, OwedAre, Ahead, Slot
<1> QED BY <1>1, <1>4, <1>5 DEF Inv

LEMMA TypeStep == TypeOK /\ [Next]_vars => TypeOK'
<1> SUFFICES ASSUME TypeOK, [Next]_vars PROVE TypeOK' OBVIOUS
<1> USE DEF TypeOK, driverVars, chipVars, history
<1>1. head \in Slot /\ fmtp \in Slot /\ NextSlot(head) \in Slot /\ NextSlot(fmtp) \in Slot
  BY NextSlotIs
<1>2. CASE BuildDesc
  <2>1. xfer' \in 0 .. Transfers /\ xfer' \in Transfer BY <1>2 DEF BuildDesc, Transfer
  <2>2. hw' \in [Slot -> Desc] BY <1>2, <2>1 DEF BuildDesc, Desc, Status, Transfer
  <2>3. buffer' \in 0 .. Transfers BY <1>2, <2>1 DEF BuildDesc, Zero
  <2> QED BY <1>2, <2>1, <2>2, <2>3 DEF BuildDesc
<1>3. CASE AccessRefused \/ reinit_completion
  BY <1>1, <1>3 DEF AccessRefused, reinit_completion, Result
<1>11. CASE ismt_submit_desc
  <2>1. lapped' \in BOOLEAN BY <1>11, Zenon DEF ismt_submit_desc
  <2>2. owed' \subseteq Slot /\ fmhp' \in Slot BY <1>1, <1>11 DEF ismt_submit_desc
  <2>3. pc' = "waiting"
        /\ UNCHANGED <<xfer, head, result, data, timeouts, msi, hw, buffer, done, isr, irq, fmtp,
                       chip>>
    BY <1>11 DEF ismt_submit_desc
  <2> QED BY <2>1, <2>2, <2>3
<1>4. CASE Completed BY <1>4 DEF Completed
<1>10. CASE TimedOut
  <2>1. timeouts' \in Nat BY <1>10 DEF TimedOut
  <2>2. result' \in [Transfer -> Result] BY <1>10 DEF TimedOut, Finish, Result
  <2> QED BY <1>1, <1>10, <2>1, <2>2 DEF TimedOut, Finish
<1>5. CASE ismt_process_desc
  BY <1>1, <1>5 DEF ismt_process_desc, Finish, Result, Desc, Status
<1>6. CASE Interrupt
  <2>1. irq' \in BOOLEAN
    BY <1>6 DEF Interrupt, ismt_do_msi_interrupt, ismt_do_interrupt, ClearStatus, ismt_handle_isr
  <2>2. done' \in Nat /\ isr' \in {"idle", "clear", "complete"}
    BY <1>6 DEF Interrupt, ismt_do_msi_interrupt, ismt_do_interrupt, ClearStatus, ismt_handle_isr
  <2>3. UNCHANGED <<driverVars, hw, buffer, chipVars>>
    BY <1>6 DEF Interrupt, ismt_do_msi_interrupt, ismt_do_interrupt, ClearStatus, ismt_handle_isr
  <2>4. UNCHANGED history
    BY <1>6 DEF Interrupt, ismt_do_msi_interrupt, ismt_do_interrupt, ClearStatus, ismt_handle_isr
  <2> QED BY <2>1, <2>2, <2>3, <2>4
<1>7. CASE ChipStart BY <1>7 DEF ChipStart
<1>8. CASE ChipFinish
  <2>1. chip' \in Desc BY <1>8 DEF ChipFinish, Idle, Desc, Kind, Status
  <2>2. hw' \in [Slot -> Desc] BY <1>8 DEF ChipFinish, Desc, Status
  <2>3. buffer' \in 0 .. Transfers BY <1>8 DEF ChipFinish, Desc
  <2> QED BY <1>1, <1>8, <2>1, <2>2, <2>3 DEF ChipFinish
<1>9. CASE NotOurs \/ Rest \/ UNCHANGED vars BY <1>9 DEF NotOurs, Rest, vars
<1> QED
  BY <1>2, <1>3, <1>4, <1>5, <1>6, <1>7, <1>8, <1>9, <1>10, <1>11
  DEF Next, ismt_access, Undisturbed, Controller

LEMMA SlotTypes ==
  ASSUME TypeOK
  PROVE  /\ head \in Slot /\ fmhp \in Slot /\ fmtp \in Slot
         /\ timeouts \in Nat /\ done \in Nat /\ hw \in [Slot -> Desc]
         /\ owed \subseteq Slot
BY DEF TypeOK

LEMMA Counts ==
  ASSUME TypeOK
  PROVE  /\ Unfinished \in Nat /\ Signals \in Nat /\ timeouts \in Nat
         /\ One(pc = "waiting") \in {0, 1}
         /\ Unfinished = 0 <=> fmtp = fmhp
         /\ Signals = 0 => done = 0
<1>1. Unfinished \in Nat /\ (Unfinished = 0 <=> fmtp = fmhp)
  BY SlotTypes, UnfinishedIs DEF Slot
<1>2. One(irq) \in {0, 1} /\ One(isr = "complete") \in {0, 1} /\ One(pc = "waiting") \in {0, 1}
  BY DEF One
<1> QED BY <1>1, <1>2, SlotTypes DEF Signals

LEMMA SameUnfinished == UNCHANGED <<fmhp, fmtp>> => Unfinished' = Unfinished
BY DEF Unfinished

LEMMA SameOwed ==
  ASSUME UNCHANGED <<fmhp, fmtp, owed>>, OwedAre
  PROVE  OwedAre'
BY DEF OwedAre, Ahead, Unfinished, Slot

\* The slot FMHP points at is the first that is not owed, unless all are.
LEMMA AheadIs ==
  ASSUME TypeOK
  PROVE  /\ \A t \in Slot : Ahead(t) \in 0 .. ISMT_DESC_ENTRIES - 1
         /\ \A t, u \in Slot : Ahead(t) = Ahead(u) => t = u
         /\ Ahead(fmhp) = Unfinished /\ Ahead(fmtp) = 0
<1>1. fmtp \in 0 .. ISMT_DESC_ENTRIES - 1 /\ fmhp \in 0 .. ISMT_DESC_ENTRIES - 1
  BY SlotTypes DEF Slot
<1>2. ISMT_DESC_ENTRIES \in Nat BY RingAssumption
<1>3. /\ \A t \in Slot : Ahead(t) \in 0 .. ISMT_DESC_ENTRIES - 1
      /\ \A t, u \in Slot : Ahead(t) = Ahead(u) => t = u
      /\ Ahead(fmtp) = 0
  BY <1>1, <1>2 DEF Ahead, Slot
<1>4. Ahead(fmhp) = Unfinished BY SlotTypes, UnfinishedIs DEF Ahead
<1> QED BY <1>3, <1>4

\* A descriptor is built where the controller has nothing to do.
LEMMA BuildStep ==
  ASSUME Inv, BuildDesc
  PROVE  Inv'
<1>1. TypeOK' BY TypeStep DEF Inv, Next, ismt_access, Undisturbed
<1>2. HeadTold' /\ Cleared' /\ LapCounted'
  BY DEF Inv, HeadTold, Cleared, LapCounted, Given, BuildDesc, chipVars, history
<1>3. Unfinished' = Unfinished /\ Signals' = Signals
  BY SameUnfinished DEF BuildDesc, chipVars, Signals
<1>4. PICK k \in Kind :
        hw' = [hw EXCEPT ![head] = [xfer |-> xfer', kind |-> k, status |-> "none"]]
        /\ buffer' = IF k = "write" THEN xfer' ELSE Zero
  BY DEF BuildDesc
<1>5. hw'[head] = [xfer |-> xfer', kind |-> k, status |-> "none"]
  BY <1>4, SlotTypes DEF Inv
<1>6. ASSUME ~ lapped'
      PROVE  Behind' /\ OwedAre' /\ ChipBusy' /\ OwnDesc' /\ BufferKept'
  <2>1. Behind /\ OwedAre /\ ChipBusy BY <1>6 DEF Inv, BuildDesc, history
  <2>2. Behind' BY <1>3, <2>1 DEF Behind, One, BuildDesc
  <2>3. Unfinished > 0 => fmtp # head
    BY Counts DEF Inv, HeadTold, Given, BuildDesc
  <2>4. ChipBusy' BY <1>3, <1>4, <2>1, <2>3, SlotTypes DEF ChipBusy, Inv, BuildDesc, chipVars
  <2>5. OwnDesc' /\ BufferKept' BY <1>4, <1>5 DEF OwnDesc, BufferKept, Given, BuildDesc
  <2>6. OwedAre' BY <2>1, SameOwed DEF BuildDesc, chipVars, history
  <2> QED BY <2>2, <2>4, <2>5, <2>6
<1> QED BY <1>1, <1>2, <1>6 DEF Inv

\* The driver's steps before the wait: a completion that came too late is forgotten.
LEMMA PrepareStep ==
  ASSUME Inv, AccessRefused \/ reinit_completion
  PROVE  Inv'
<1>1. TypeOK' BY TypeStep DEF Inv, Next, ismt_access, Undisturbed
<1>2. /\ pc = "built" /\ pc' \in {"idle", "ready"} /\ ~ Given /\ ~ Given'
      /\ UNCHANGED <<xfer, head, timeouts, msi, hw, buffer, isr, irq, fmhp, fmtp, chip>>
      /\ UNCHANGED <<owed, lapped>>
      /\ done' = done \/ done' = 0
  BY DEF AccessRefused, reinit_completion, chipVars, history, Given
<1>3. HeadTold' /\ Cleared' /\ LapCounted' BY <1>2 DEF Inv, HeadTold, Cleared, LapCounted
<1>4. Unfinished' = Unfinished /\ Signals' <= Signals
  BY <1>2, SameUnfinished, SlotTypes DEF Signals, One, Inv
<1>5. ASSUME ~ lapped'
      PROVE  Behind' /\ OwedAre' /\ ChipBusy' /\ OwnDesc' /\ BufferKept'
  <2>1. Behind /\ OwedAre /\ ChipBusy /\ OwnDesc /\ BufferKept
    BY <1>2, <1>5 DEF Inv
  <2>2. Signals' \in Nat BY <1>2, SlotTypes DEF Signals, One, Inv
  <2>3. Behind'
    <3>1. One(pc = "waiting") = 0 /\ One(pc = "waiting")' = 0 BY <1>2 DEF One
    <3>2. Unfinished \in Nat /\ Signals \in Nat /\ timeouts \in Nat BY Counts DEF Inv
    <3> QED BY <1>2, <1>4, <2>1, <2>2, <3>1, <3>2 DEF Behind
  <2>4. ChipBusy' /\ OwnDesc' /\ BufferKept'
    BY <1>2, <1>4, <2>1 DEF ChipBusy, OwnDesc, BufferKept
  <2> QED BY <1>2, <2>1, <2>3, <2>4, SameOwed
<1> QED BY <1>1, <1>3, <1>5 DEF Inv

\* The controller is one descriptor further behind, or now has the whole ring.
LEMMA SubmitStep ==
  ASSUME Inv, ismt_submit_desc
  PROVE  Inv'
<1>1. TypeOK' BY TypeStep DEF Inv, Next, ismt_access, Undisturbed
<1>2. /\ pc = "ready" /\ pc' = "waiting" /\ ~ Given /\ Given'
      /\ UNCHANGED <<xfer, head, timeouts, msi, hw, buffer, done, isr, irq, fmtp, chip>>
      /\ fmhp' = NextSlot(head) /\ fmhp = head
      /\ owed' = owed \cup {head} /\ lapped' = (lapped \/ owed' = Slot)
  BY DEF ismt_submit_desc, Given, Inv, HeadTold
<1>3. HeadTold' /\ Cleared' /\ Signals' = Signals
  BY <1>2 DEF Inv, HeadTold, Cleared, Signals
<1>7. Unfinished \in 0 .. ISMT_DESC_ENTRIES - 1 BY SlotTypes, UnfinishedIs DEF Inv
<1>8. (lapped \/ owed' = Slot) <=> lapped' BY <1>2, Zenon
<1>5. ~ lapped => (owed' = Slot <=> Unfinished = ISMT_DESC_ENTRIES - 1)
  <2> SUFFICES ASSUME ~ lapped PROVE owed' = Slot <=> Unfinished = ISMT_DESC_ENTRIES - 1
    OBVIOUS
  <2>1. /\ head \in Slot /\ owed \subseteq Slot /\ Ahead(head) = Unfinished
        /\ \A t \in Slot : Ahead(t) \in 0 .. ISMT_DESC_ENTRIES - 1
        /\ \A t, u \in Slot : Ahead(t) = Ahead(u) => t = u
        /\ \A t \in Slot : t \in owed <=> Ahead(t) < Unfinished
    BY <1>2, SlotTypes, AheadIs DEF Inv, OwedAre
  <2>2. ASSUME Unfinished = ISMT_DESC_ENTRIES - 1 PROVE owed' = Slot
    <3>1. ASSUME NEW t \in Slot, t # head PROVE t \in owed
      <4>1. Ahead(t) # Unfinished /\ Ahead(t) \in 0 .. ISMT_DESC_ENTRIES - 1 BY <2>1, <3>1
      <4>2. Ahead(t) < Unfinished BY <2>2, <4>1
      <4> QED BY <2>1, <4>2
    <3> QED BY <1>2, <2>1, <3>1
  <2>3. ASSUME Unfinished # ISMT_DESC_ENTRIES - 1 PROVE owed' # Slot
    <3>1. PICK u \in Slot : u = IF fmtp = 0 THEN ISMT_DESC_ENTRIES - 1 ELSE fmtp - 1
      BY SlotTypes DEF Inv, Slot
    <3>2. Ahead(u) = ISMT_DESC_ENTRIES - 1 BY <3>1, SlotTypes DEF Inv, Slot, Ahead
    <3>3. u # head /\ u \notin owed BY <1>7, <2>1, <2>3, <3>2
    <3> QED BY <1>2, <3>1, <3>3
  <2> QED BY <2>2, <2>3
<1>6. LapCounted'
  <2>1. CASE lapped BY <1>2, <2>1 DEF Inv, LapCounted
  <2>2. CASE ~ lapped
    <3>1. Unfinished <= timeouts BY <1>2, <2>2, Counts DEF Inv, Behind, One
    <3> QED BY <1>2, <1>5, <1>8, <2>2, <3>1 DEF LapCounted
  <2> QED BY <2>1, <2>2
<1>4. ASSUME ~ lapped'
      PROVE  Behind' /\ OwedAre' /\ ChipBusy' /\ OwnDesc' /\ BufferKept'
  <2>1. Behind /\ OwedAre /\ ChipBusy /\ OwnDesc /\ BufferKept
    BY <1>4, <1>8 DEF Inv
  <2>2. Unfinished \in 0 .. ISMT_DESC_ENTRIES - 2
    <3>1. Unfinished # ISMT_DESC_ENTRIES - 1 BY <1>4, <1>5, <1>8
    <3> QED BY <1>7, <3>1, RingAssumption
  <2>3. Unfinished' = Unfinished + 1
    <3>1. fmhp' \in Slot /\ fmtp' \in Slot BY <1>1 DEF TypeOK
    <3>2. Unfinished' = IF fmtp' <= fmhp' THEN fmhp' - fmtp'
                                         ELSE fmhp' - fmtp' + ISMT_DESC_ENTRIES
      BY <3>1 DEF Unfinished, Slot
    <3>3. Unfinished = IF fmtp <= fmhp THEN fmhp - fmtp
                                       ELSE fmhp - fmtp + ISMT_DESC_ENTRIES
      BY SlotTypes, UnfinishedIs DEF Inv
    <3>4. fmhp' = IF head = ISMT_DESC_ENTRIES - 1 THEN 0 ELSE head + 1
      BY <1>2, SlotTypes, NextSlotIs DEF Inv
    <3>5. /\ ISMT_DESC_ENTRIES \in Nat \ {0, 1} /\ head \in 0 .. ISMT_DESC_ENTRIES - 1
          /\ fmtp \in 0 .. ISMT_DESC_ENTRIES - 1 /\ fmtp' = fmtp /\ fmhp = head
      BY <1>2, SlotTypes, RingAssumption DEF Inv, Slot
    <3> QED BY <2>2, <3>2, <3>3, <3>4, <3>5
  <2>4. Behind' BY <1>2, <1>3, <2>1, <2>3, Counts DEF Behind, One, Inv
  <2>5. ChipBusy' BY <1>2, <2>1, <2>2, <2>3 DEF ChipBusy
  <2>6. OwnDesc' /\ BufferKept' BY <1>2, <2>1, <2>2, <2>3 DEF OwnDesc, BufferKept
  <2>7. OwedAre'
    <3>1. \A t : Ahead(t)' = Ahead(t) BY <1>2 DEF Ahead
    <3>2. \A t \in Slot : t = head <=> Ahead(t) = Unfinished
      BY <1>2, SlotTypes, AheadIs DEF Inv
    <3>3. \A t \in Slot : Ahead(t) \in 0 .. ISMT_DESC_ENTRIES - 1 BY AheadIs DEF Inv
    <3> QED BY <1>2, <2>1, <2>2, <2>3, <3>1, <3>2, <3>3 DEF OwedAre, Slot
  <2> QED BY <2>4, <2>5, <2>6, <2>7
<1> QED BY <1>1, <1>3, <1>4, <1>6 DEF Inv

\* The driver takes a signal for its own.
LEMMA CompletedStep ==
  ASSUME Inv, Completed
  PROVE  Inv'
<1>1. TypeOK' BY TypeStep DEF Inv, Next, ismt_access, Undisturbed
<1>2. /\ pc = "waiting" /\ pc' = "process" /\ Given /\ Given'
      /\ done > 0 /\ done' = done - 1
      /\ UNCHANGED <<xfer, head, timeouts, msi, hw, buffer, isr, irq, fmhp, fmtp, chip>>
      /\ UNCHANGED <<owed, lapped>>
  BY DEF Completed, chipVars, history, Given
<1>3. HeadTold' /\ Cleared' /\ LapCounted' BY <1>2 DEF Inv, HeadTold, Cleared, LapCounted
<1>4. Unfinished' = Unfinished /\ Signals' = Signals - 1
  BY <1>2, SameUnfinished, SlotTypes DEF Signals, One, Inv
<1>5. ASSUME ~ lapped'
      PROVE  Behind' /\ OwedAre' /\ ChipBusy' /\ OwnDesc' /\ BufferKept'
  <2>1. Behind /\ OwedAre /\ ChipBusy /\ OwnDesc /\ BufferKept
    BY <1>2, <1>5 DEF Inv
  <2>2. Behind' BY <1>2, <1>4, <2>1, Counts DEF Behind, One, Inv
  <2>3. ChipBusy' /\ OwnDesc' /\ BufferKept'
    BY <1>2, <1>4, <2>1 DEF ChipBusy, OwnDesc, BufferKept
  <2> QED BY <1>2, <2>1, <2>2, <2>3, SameOwed
<1> QED BY <1>1, <1>3, <1>5 DEF Inv

\* A transfer ends, by its time or by its descriptor: the driver's head moves on.
LEMMA EndStep ==
  ASSUME Inv, TimedOut \/ ismt_process_desc
  PROVE  Inv'
<1>1. TypeOK' BY TypeStep DEF Inv, Next, ismt_access, Undisturbed
<1>2. /\ Given /\ pc' = "idle" /\ ~ Given' /\ head' = NextSlot(head)
      /\ UNCHANGED <<xfer, msi, hw, buffer, done, isr, irq, fmhp, fmtp, chip, owed, lapped>>
      /\ \/ pc = "waiting" /\ timeouts' = timeouts + 1
         \/ pc = "process" /\ timeouts' = timeouts
  BY DEF TimedOut, ismt_process_desc, Finish, chipVars, history, Given
<1>3. HeadTold' /\ Cleared' BY <1>2 DEF Inv, HeadTold, Cleared
<1>6. LapCounted' BY <1>2, SlotTypes DEF Inv, LapCounted
<1>4. Unfinished' = Unfinished /\ Signals' = Signals
  BY <1>2, SameUnfinished DEF Signals
<1>5. ASSUME ~ lapped'
      PROVE  Behind' /\ OwedAre' /\ ChipBusy' /\ OwnDesc' /\ BufferKept'
  <2>1. Behind /\ OwedAre /\ ChipBusy BY <1>2, <1>5 DEF Inv
  <2>2. Behind' BY <1>2, <1>4, <2>1, Counts DEF Behind, One, Inv
  <2>3. ChipBusy' /\ OwnDesc' /\ BufferKept'
    BY <1>2, <1>4, <2>1 DEF ChipBusy, OwnDesc, BufferKept, Given
  <2> QED BY <1>2, <2>1, <2>2, <2>3, SameOwed
<1> QED BY <1>1, <1>3, <1>5, <1>6 DEF Inv

\* A signal changes its place.
LEMMA InterruptStep ==
  ASSUME Inv, Interrupt
  PROVE  Inv'
<1>1. TypeOK' BY TypeStep DEF Inv, Next
<1>2. UNCHANGED <<driverVars, hw, buffer, chipVars, history>>
  BY DEF Interrupt, ismt_do_msi_interrupt, ismt_do_interrupt, ClearStatus, ismt_handle_isr
<1>3. Cleared'
  BY DEF Inv, Cleared, Interrupt, ismt_do_msi_interrupt, ismt_do_interrupt, ClearStatus,
         ismt_handle_isr, driverVars
<1>4. Signals' = Signals
  <2>1. done \in Nat BY SlotTypes DEF Inv
  <2>2. CASE ismt_do_msi_interrupt BY <2>1, <2>2 DEF ismt_do_msi_interrupt, Signals, One
  <2>3. CASE ismt_do_interrupt BY <2>1, <2>3 DEF ismt_do_interrupt, Signals, One
  <2>4. CASE ClearStatus BY <2>1, <2>4 DEF ClearStatus, Signals, One, Inv, Cleared
  <2>5. CASE ismt_handle_isr BY <2>1, <2>5 DEF ismt_handle_isr, Signals, One
  <2> QED BY <2>2, <2>3, <2>4, <2>5 DEF Interrupt
<1>5. Unfinished' = Unfinished BY <1>2, SameUnfinished DEF chipVars
<1> QED
  BY <1>1, <1>2, <1>3, <1>4, <1>5
  DEF Inv, HeadTold, LapCounted, Behind, OwedAre, Ahead, ChipBusy, OwnDesc, BufferKept, Given,
      driverVars, chipVars, history, Slot

LEMMA StartStep ==
  ASSUME Inv, ChipStart
  PROVE  Inv'
<1>1. TypeOK' BY TypeStep DEF Inv, Next, Controller
<1>2. /\ chip' = hw[fmtp] /\ fmtp # fmhp
      /\ UNCHANGED <<driverVars, hw, buffer, done, isr, irq, fmhp, fmtp, history>>
  BY DEF ChipStart
<1>3. Unfinished' = Unfinished /\ Signals' = Signals BY <1>2, SameUnfinished DEF Signals
<1>4. Unfinished > 0 BY <1>2, Counts DEF Inv
<1> QED
  BY <1>1, <1>2, <1>3, <1>4
  DEF Inv, HeadTold, Cleared, LapCounted, Behind, OwedAre, Ahead, ChipBusy, OwnDesc,
      BufferKept, Given, driverVars, history, Slot

\* The controller is one descriptor less behind; the last one it has is the driver's.
LEMMA FinishStep ==
  ASSUME Inv, ChipFinish
  PROVE  Inv'
<1>1. TypeOK' BY TypeStep DEF Inv, Next, Controller
<1>2. /\ chip # Idle /\ chip' = Idle /\ fmtp' = NextSlot(fmtp) /\ irq' = TRUE
      /\ owed' = owed \ {fmtp}
      /\ UNCHANGED <<driverVars, done, isr, fmhp, lapped>>
  BY DEF ChipFinish
<1>3. PICK status \in {"SCS", "error"} :
        /\ hw' = [hw EXCEPT ![fmtp].status = status]
        /\ buffer' = IF chip.kind = "read" /\ status = "SCS" THEN chip.xfer ELSE buffer
  BY DEF ChipFinish
<1>4. HeadTold' /\ Cleared' /\ LapCounted'
  BY <1>2 DEF Inv, HeadTold, Cleared, LapCounted, Given, driverVars
<1>5. Signals' <= Signals + 1 /\ Signals' \in Nat
  BY <1>2, SlotTypes DEF Signals, One, Inv
<1>6. ASSUME ~ lapped'
      PROVE  Behind' /\ OwedAre' /\ ChipBusy' /\ OwnDesc' /\ BufferKept'
  <2>1. Behind /\ OwedAre /\ ChipBusy /\ OwnDesc /\ BufferKept
    BY <1>2, <1>6 DEF Inv
  <2>2. Unfinished > 0 /\ chip = hw[fmtp] BY <1>2, <2>1 DEF ChipBusy
  <2>3. Unfinished' = Unfinished - 1
    <3>1. fmhp' \in Slot /\ fmtp' \in Slot BY <1>1 DEF TypeOK
    <3>2. Unfinished' = IF fmtp' <= fmhp' THEN fmhp' - fmtp'
                                         ELSE fmhp' - fmtp' + ISMT_DESC_ENTRIES
      BY <3>1 DEF Unfinished, Slot
    <3>3. Unfinished = IF fmtp <= fmhp THEN fmhp - fmtp
                                       ELSE fmhp - fmtp + ISMT_DESC_ENTRIES
      BY SlotTypes, UnfinishedIs DEF Inv
    <3>4. fmtp' = IF fmtp = ISMT_DESC_ENTRIES - 1 THEN 0 ELSE fmtp + 1
      BY <1>2, SlotTypes, NextSlotIs DEF Inv
    <3>5. /\ ISMT_DESC_ENTRIES \in Nat \ {0, 1} /\ fmhp \in 0 .. ISMT_DESC_ENTRIES - 1
          /\ fmtp \in 0 .. ISMT_DESC_ENTRIES - 1 /\ fmhp' = fmhp
      BY <1>2, SlotTypes, RingAssumption DEF Inv, Slot, driverVars
    <3>6. Unfinished > 0 BY <2>2
    <3> QED BY <3>2, <3>3, <3>4, <3>5, <3>6
  <2>4. Behind' BY <1>2, <1>5, <2>1, <2>2, <2>3, Counts DEF Behind, Inv, driverVars
  <2>5. ChipBusy' BY <1>2 DEF ChipBusy
  <2>6. Given => (Unfinished = 1 <=> fmtp = head)
    <3>1. SUFFICES ASSUME Given PROVE Unfinished = 1 <=> fmtp = head
      OBVIOUS
    <3>2. Unfinished = IF fmtp <= fmhp THEN fmhp - fmtp
                                       ELSE fmhp - fmtp + ISMT_DESC_ENTRIES
      BY SlotTypes, UnfinishedIs DEF Inv
    <3>3. fmhp = IF head = ISMT_DESC_ENTRIES - 1 THEN 0 ELSE head + 1
      BY <3>1, SlotTypes, NextSlotIs DEF Inv, HeadTold
    <3> QED BY <3>2, <3>3, SlotTypes DEF Inv, Slot
  <2>7. ~ Given => fmtp # head BY <2>2, Counts DEF Inv, HeadTold
  <2>8. /\ hw'[head] = IF fmtp = head THEN [hw[head] EXCEPT !.status = status] ELSE hw[head]
        /\ hw[head] \in Desc
    BY <1>3, SlotTypes DEF Inv
  <2>9. /\ hw'[head].xfer = hw[head].xfer /\ hw'[head].kind = hw[head].kind
        /\ hw'[head].status = IF fmtp = head THEN status ELSE hw[head].status
    BY <2>8 DEF Desc
  <2>10. OwnDesc'
    BY <1>2, <1>3, <2>1, <2>2, <2>3, <2>6, <2>7, <2>9, Counts
    DEF OwnDesc, Given, driverVars, Inv
  <2>11. timeouts = 0 => Given /\ Unfinished = 1
    BY <2>1, <2>2, Counts DEF Behind, One, Given, Inv
  <2>12. BufferKept'
    BY <1>2, <1>3, <2>1, <2>2, <2>6, <2>9, <2>11 DEF BufferKept, OwnDesc, driverVars
  <2>13. OwedAre'
    <3>1. fmtp' = IF fmtp = ISMT_DESC_ENTRIES - 1 THEN 0 ELSE fmtp + 1
      BY <1>2, SlotTypes, NextSlotIs DEF Inv
    <3>2. \A t \in Slot : Ahead(t)' = IF t = fmtp THEN ISMT_DESC_ENTRIES - 1 ELSE Ahead(t) - 1
      <4>1. TAKE t \in Slot
      <4>2. fmtp \in 0 .. ISMT_DESC_ENTRIES - 1 /\ t \in 0 .. ISMT_DESC_ENTRIES - 1
        BY SlotTypes DEF Inv, Slot
      <4>3. Ahead(t)' = IF fmtp' <= t THEN t - fmtp' ELSE t - fmtp' + ISMT_DESC_ENTRIES
        BY DEF Ahead
      <4>4. Ahead(t) = IF fmtp <= t THEN t - fmtp ELSE t - fmtp + ISMT_DESC_ENTRIES
        BY DEF Ahead
      <4> QED BY <3>1, <4>2, <4>3, <4>4, RingAssumption
    <3>3. \A t \in Slot : Ahead(t) \in 0 .. ISMT_DESC_ENTRIES - 1 BY AheadIs DEF Inv
    <3>4. Unfinished \in 1 .. ISMT_DESC_ENTRIES - 1
      BY <2>2, SlotTypes, UnfinishedIs DEF Inv
    <3>5. Slot' = Slot BY DEF Slot
    <3>6. ASSUME NEW t \in Slot PROVE t \in owed' <=> Ahead(t)' < Unfinished'
      <4>1. CASE t = fmtp BY <1>2, <2>3, <3>2, <3>4, <4>1
      <4>2. CASE t # fmtp
        <5>1. Ahead(t)' = Ahead(t) - 1 BY <3>2, <4>2
        <5>2. t \in owed <=> Ahead(t) < Unfinished BY <2>1 DEF OwedAre
        <5> QED BY <1>2, <2>3, <3>3, <3>4, <4>2, <5>1, <5>2
      <4> QED BY <4>1, <4>2
    <3> QED BY <3>5, <3>6 DEF OwedAre
  <2> QED BY <2>4, <2>5, <2>10, <2>12, <2>13
<1> QED BY <1>1, <1>4, <1>6 DEF Inv

LEMMA StepInv == Inv /\ [Next]_vars => Inv'
<1> SUFFICES ASSUME Inv, [Next]_vars PROVE Inv' OBVIOUS
<1>1. CASE UNCHANGED vars
  BY <1>1 DEF Inv, TypeOK, HeadTold, Cleared, LapCounted, Behind, OwedAre, Ahead, Signals,
              ChipBusy, OwnDesc, BufferKept, Given, Unfinished, vars, driverVars, chipVars,
              history
<1>2. CASE ismt_access \/ Interrupt \/ Controller
  BY <1>2, BuildStep, PrepareStep, SubmitStep, CompletedStep, EndStep, InterruptStep,
     StartStep, FinishStep
  DEF ismt_access, Undisturbed, Controller
<1> QED BY <1>1, <1>2 DEF Next, NotOurs, Rest

LEMMA AlwaysInv == Spec => []Inv
BY InitInv, StepInv, PTL DEF Spec

\* For a ring of any size, with any number of timeouts: the driver builds its descriptor
\* where the controller has nothing to do and leaves alone what it executes, until the
\* controller has been given the whole ring, which takes a timeout for each other slot
\* (v030:236).
THEOREM NotBusy == Spec => []DescNotBusy
<1>1. Inv => DescNotBusy
  <2> SUFFICES ASSUME Inv PROVE DescNotBusy OBVIOUS
  <2>1. timeouts < ISMT_DESC_ENTRIES - 1 => ~ lapped
    BY SlotTypes, RingAssumption DEF Inv, LapCounted
  <2>2. ASSUME ~ lapped, pc \in {"built", "ready"} PROVE head \notin owed
    <3>1. head = fmhp /\ head \in Slot BY <2>2, SlotTypes DEF Inv, HeadTold, Given
    <3>2. Ahead(head) = Unfinished /\ Unfinished \in Nat BY <3>1, AheadIs, Counts DEF Inv
    <3> QED BY <2>2, <3>1, <3>2 DEF Inv, OwedAre
  <2>3. ASSUME ~ lapped, chip # Idle PROVE fmtp \in owed /\ hw[fmtp] = chip
    <3>1. Ahead(fmtp) = 0 /\ fmtp \in Slot BY AheadIs, SlotTypes DEF Inv
    <3>2. Unfinished > 0 /\ hw[fmtp] = chip BY <2>3 DEF Inv, ChipBusy
    <3> QED BY <2>3, <3>1, <3>2 DEF Inv, OwedAre
  <2> QED BY <2>1, <2>2, <2>3 DEF DescNotBusy, Inv
<1> QED BY <1>1, AlwaysInv, PTL

\* Before the first timeout a descriptor that is processed has been executed, and the
\* buffer keeps what the controller sends, whichever way the interrupts come (v030:212).
THEOREM Ordered == Spec => []OrderedWithoutTimeout
<1>1. Inv => OrderedWithoutTimeout
  <2> SUFFICES ASSUME Inv, timeouts = 0 PROVE /\ CompletedBeforeProcessed
                                              /\ chip # Idle /\ chip.kind = "write"
                                                   => buffer = chip.xfer
    BY DEF OrderedWithoutTimeout
  <2>1. Behind /\ ChipBusy /\ OwnDesc /\ BufferKept
    BY RingAssumption DEF Inv, LapCounted
  <2>2. pc = "process" => Unfinished = 0 BY <2>1, Counts DEF Behind, One, Inv
  <2>3. CompletedBeforeProcessed
    BY <2>1, <2>2 DEF CompletedBeforeProcessed, OwnDesc, Given
  <2>4. ASSUME chip # Idle
        PROVE  pc = "waiting" /\ fmtp = head /\ chip = hw[head]
    <3>1. Unfinished > 0 /\ chip = hw[fmtp] BY <2>1, <2>4 DEF ChipBusy
    <3>2. pc = "waiting" /\ Unfinished = 1 BY <2>1, <3>1, Counts DEF Behind, One, Inv
    <3>3. Unfinished = IF fmtp <= fmhp THEN fmhp - fmtp
                                       ELSE fmhp - fmtp + ISMT_DESC_ENTRIES
      BY SlotTypes, UnfinishedIs DEF Inv
    <3>4. fmhp = IF head = ISMT_DESC_ENTRIES - 1 THEN 0 ELSE head + 1
      BY <3>2, SlotTypes, NextSlotIs DEF Inv, HeadTold, Given
    <3>5. fmtp \in Slot /\ fmhp \in Slot /\ head \in Slot BY SlotTypes DEF Inv
    <3>6. fmtp = head BY <3>2, <3>3, <3>4, <3>5, RingAssumption DEF Slot
    <3> QED BY <3>1, <3>2, <3>6
  <2>5. chip # Idle /\ chip.kind = "write" => buffer = chip.xfer
    BY <2>1, <2>4 DEF BufferKept, OwnDesc
  <2> QED BY <2>3, <2>5
<1> QED BY <1>1, AlwaysInv, PTL

\* A read that succeeds returns its own data also after timeouts, in any ring, until the
\* controller has been given the whole of it (v030:236).
THEOREM OwnData == Spec => ReadsOwnData
<1> DEFINE Own == \A x \in Transfer : ~ lapped /\ result'[x] = "ok" /\ result[x] # "ok" =>
                    /\ hw[head].xfer = x /\ hw[head].status = "SCS"
                    /\ hw[head].kind = "read" => data'[x] = x
<1>1. Inv /\ [Next]_vars => [Own]_vars
  <2> SUFFICES ASSUME Inv, Next, NEW x \in Transfer, ~ lapped, result'[x] = "ok",
                      result[x] # "ok"
               PROVE  /\ hw[head].xfer = x /\ hw[head].status = "SCS"
                      /\ hw[head].kind = "read" => data'[x] = x
    OBVIOUS
  <2>1. result \in [Transfer -> Result] /\ data \in [Transfer -> 0 .. Transfers]
        /\ hw[head] \in Desc
    BY DEF Inv, TypeOK
  <2>2. ismt_process_desc
    BY <2>1 DEF Next, ismt_access, BuildDesc, AccessRefused, reinit_completion,
                ismt_submit_desc, Completed, TimedOut, Finish, Interrupt,
                ismt_do_msi_interrupt, ismt_do_interrupt, ClearStatus, ismt_handle_isr,
                Controller, ChipStart, ChipFinish, NotOurs, Rest, Undisturbed, driverVars, vars
  <2>3. x = xfer /\ hw[head].status = "SCS" /\ pc = "process"
    BY <2>1, <2>2 DEF ismt_process_desc, Finish, Desc, Status
  <2>4. data'[x] = IF hw[head].kind = "read" THEN buffer ELSE data[x]
    BY <2>1, <2>2, <2>3 DEF ismt_process_desc
  <2>5. OwnDesc /\ Unfinished \in Nat
    BY Counts DEF Inv
  <2>6. hw[head].xfer = x /\ (hw[head].kind = "read" => buffer = x)
    BY <2>3, <2>5 DEF OwnDesc, Given
  <2> QED BY <2>3, <2>4, <2>6
<1> QED BY <1>1, AlwaysInv, PTL DEF Spec, ReadsOwnData

=============================================================================
