-------------------------------- MODULE Ismt --------------------------------
(***************************************************************************)
(* The ismt I2C controller and its driver: a ring of descriptors, one data *)
(* buffer for all of them, a completion that the interrupt handler raises, *)
(* and a transfer that gives up after a second.  The I2C core lets one     *)
(* transfer at a time into the driver; they are numbered in that order.    *)
(*                                                                         *)
(* A descriptor is the transfer it describes, its kind and its status.     *)
(* The contents of the buffer are the number of the transfer whose data    *)
(* they are, or Zero.                                                      *)
(* An operator whose name ends in _Bug is a mutation of the one after it.  *)
(***************************************************************************)
EXTENDS Integers

CONSTANTS
  ISMT_DESC_ENTRIES, \* Descriptors in the ring.
  Transfers          \* Bound: transfers in a run.

ASSUME RingAssumption == ISMT_DESC_ENTRIES \in Nat \ {0, 1}
ASSUME BoundAssumption == Transfers \in Nat

VARIABLES
  pc,        \* Where ismt_access stands: "idle", "built", "ready", "waiting",
             \* "process".
  xfer,      \* The transfer it works on, or the last one.
  head,      \* priv->head
  hw,        \* priv->hw, the ring.
  buffer,    \* priv->buffer
  done,      \* How often priv->cmp was completed and not waited for.
  result,    \* result[x]: what transfer x returned.
  data,      \* data[x]: what transfer x copied out of the buffer.
  timeouts,  \* Transfers that timed out.
  msi,       \* Message signalled interrupts are enabled.
  isr,       \* Where ismt_do_interrupt stands: "idle", "clear", "complete".
  fmhp,      \* The controller: head of the ring as it was told,
  fmtp,      \*   the next descriptor,
  chip,      \*   the descriptor it executes, or Idle,
  irq,       \*   its interrupt is raised.
  owed,      \* History: the slots it was given and has not finished,
  lapped     \*   and whether that was ever the whole ring.

driverVars == <<pc, xfer, head, result, data, timeouts, msi>>
chipVars == <<fmhp, fmtp, chip>>
history == <<owed, lapped>>
vars == <<driverVars, hw, buffer, done, isr, irq, chipVars, history>>

Slot == 0 .. ISMT_DESC_ENTRIES - 1
Transfer == 1 .. Transfers
Zero == 0
Kind == {"quick", "read", "write"}
Status == {"none", "SCS", "error"}
Result == {"none", "ok", "error", "EIO", "ETIMEDOUT", "refused"}
Blank == [xfer |-> 0, kind |-> "quick", status |-> "none"]
Desc == [xfer : 0 .. Transfers, kind : Kind, status : Status]
Idle == [xfer |-> 0, kind |-> "quick", status |-> "error"]

NextSlot(s) == (s + 1) % ISMT_DESC_ENTRIES

TypeOK ==
  /\ pc \in {"idle", "built", "ready", "waiting", "process"}
  /\ xfer \in 0 .. Transfers
  /\ head \in Slot /\ fmhp \in Slot /\ fmtp \in Slot
  /\ hw \in [Slot -> Desc]
  /\ buffer \in 0 .. Transfers
  /\ done \in Nat
  /\ result \in [Transfer -> Result]
  /\ data \in [Transfer -> 0 .. Transfers]
  /\ timeouts \in Nat
  /\ msi \in BOOLEAN
  /\ isr \in {"idle", "clear", "complete"}
  /\ chip \in Desc
  /\ irq \in BOOLEAN
  /\ owed \subseteq Slot /\ lapped \in BOOLEAN

\* After ismt_dev_init, ismt_hw_init and ismt_int_init.
Init ==
  /\ pc = "idle" /\ xfer = 0 /\ head = 0
  /\ hw = [s \in Slot |-> Blank]
  /\ buffer = Zero /\ done = 0
  /\ result = [x \in Transfer |-> "none"] /\ data = [x \in Transfer |-> Zero]
  /\ timeouts = 0
  /\ msi \in BOOLEAN /\ isr = "idle"
  /\ fmhp = 0 /\ fmtp = 0 /\ chip = Idle /\ irq = FALSE
  /\ owed = {} /\ lapped = FALSE

-----------------------------------------------------------------------------
(***************************************************************************)
(* ismt_access                                                             *)
(***************************************************************************)

\* The descriptor and the buffer are cleared and filled.
BuildDesc ==
  /\ pc = "idle" /\ xfer < Transfers
  /\ pc' = "built" /\ xfer' = xfer + 1
  /\ \E k \in Kind :
       /\ hw' = [hw EXCEPT ![head] = [xfer |-> xfer', kind |-> k, status |-> "none"]]
       /\ buffer' = IF k = "write" THEN xfer' ELSE Zero
  /\ UNCHANGED <<head, result, data, timeouts, msi, done, isr, irq, chipVars, history>>

\* An unsupported transfer, or the buffer cannot be mapped.
AccessRefused ==
  /\ pc = "built" /\ pc' = "idle"
  /\ result' = [result EXCEPT ![xfer] = "refused"]
  /\ UNCHANGED <<xfer, head, data, timeouts, msi, hw, buffer, done, isr, irq, chipVars, history>>

reinit_completion ==
  /\ pc = "built" /\ pc' = "ready"
  /\ done' = 0
  /\ UNCHANGED <<xfer, head, result, data, timeouts, msi, hw, buffer, isr, irq, chipVars, history>>

\* FMHP, then the start bit.  Nothing keeps FMHP from meeting FMTP.
ismt_submit_desc ==
  /\ pc = "ready" /\ pc' = "waiting"
  /\ fmhp' = NextSlot(head)
  /\ owed' = owed \cup {head} /\ lapped' = (lapped \/ owed' = Slot)
  /\ UNCHANGED <<xfer, head, result, data, timeouts, msi, hw, buffer, done, isr, irq, fmtp,
                 chip>>

\* wait_for_completion_timeout sees the completion, the buffer is unmapped.
Completed ==
  /\ pc = "waiting" /\ pc' = "process"
  /\ done > 0 /\ done' = done - 1
  /\ UNCHANGED <<xfer, head, result, data, timeouts, msi, hw, buffer, isr, irq, chipVars, history>>

Finish(r) ==
  /\ pc' = "idle"
  /\ result' = [result EXCEPT ![xfer] = r]
  /\ head' = NextSlot(head)

TimedOut_HeadKept_Bug ==
  /\ pc = "waiting" /\ done = 0
  /\ timeouts' = timeouts + 1
  /\ pc' = "idle"
  /\ result' = [result EXCEPT ![xfer] = "ETIMEDOUT"]
  /\ UNCHANGED <<xfer, head, data, msi, hw, buffer, done, isr, irq, chipVars, history>>

TimedOut ==
  /\ pc = "waiting" /\ done = 0
  /\ timeouts' = timeouts + 1
  /\ Finish("ETIMEDOUT")
  /\ UNCHANGED <<xfer, data, msi, hw, buffer, done, isr, irq, chipVars, history>>

ismt_process_desc_StatusIgnored_Bug ==
  /\ pc = "process"
  /\ data' = [data EXCEPT ![xfer] = IF hw[head].kind = "read" THEN buffer ELSE @]
  /\ Finish(IF hw[head].status = "error" THEN "error" ELSE "ok")
  /\ UNCHANGED <<xfer, timeouts, msi, hw, buffer, done, isr, irq, chipVars, history>>

\* A status without any bit is an error, too.
ismt_process_desc ==
  LET desc == hw[head] IN
  /\ pc = "process"
  /\ data' = [data EXCEPT ![xfer] =
                IF desc.status = "SCS" /\ desc.kind = "read" THEN buffer ELSE @]
  /\ Finish(CASE desc.status = "SCS" -> "ok"
              [] desc.status = "error" -> "error"
              [] desc.status = "none" -> "EIO")
  /\ UNCHANGED <<xfer, timeouts, msi, hw, buffer, done, isr, irq, chipVars, history>>

-----------------------------------------------------------------------------
(***************************************************************************)
(* The interrupt: a message, or a line that the handler clears.            *)
(***************************************************************************)
ismt_do_msi_interrupt ==
  /\ msi /\ irq
  /\ irq' = FALSE /\ done' = done + 1
  /\ UNCHANGED <<driverVars, hw, buffer, isr, chipVars, history>>

\* An interrupt of another device on the same line.
NotOurs == ~ msi /\ ~ irq /\ isr = "idle" /\ UNCHANGED vars

ismt_do_interrupt ==
  /\ ~ msi /\ irq /\ isr = "idle" /\ isr' = "clear"
  /\ UNCHANGED <<driverVars, hw, buffer, done, irq, chipVars, history>>

ClearStatus_BeforeRead_Bug ==
  /\ isr = "clear" /\ isr' = "idle"
  /\ irq' = FALSE
  /\ UNCHANGED <<driverVars, hw, buffer, done, chipVars, history>>

ClearStatus_NotCleared_Bug ==
  /\ isr = "clear" /\ isr' = "complete"
  /\ UNCHANGED <<driverVars, hw, buffer, done, irq, chipVars, history>>

ClearStatus ==
  /\ isr = "clear" /\ isr' = "complete"
  /\ irq' = FALSE
  /\ UNCHANGED <<driverVars, hw, buffer, done, chipVars, history>>

ismt_handle_isr ==
  /\ isr = "complete" /\ isr' = "idle"
  /\ done' = done + 1
  /\ UNCHANGED <<driverVars, hw, buffer, irq, chipVars, history>>

-----------------------------------------------------------------------------
(***************************************************************************)
(* The controller: it executes the descriptors from FMTP to FMHP in order. *)
(***************************************************************************)
ChipStart ==
  /\ chip = Idle /\ fmtp # fmhp
  /\ chip' = hw[fmtp]
  /\ UNCHANGED <<driverVars, hw, buffer, done, isr, irq, fmhp, fmtp, history>>

ChipFinish ==
  /\ chip # Idle /\ chip' = Idle
  /\ \E status \in {"SCS", "error"} :
       /\ hw' = [hw EXCEPT ![fmtp].status = status]
       /\ buffer' = IF chip.kind = "read" /\ status = "SCS" THEN chip.xfer ELSE buffer
  /\ fmtp' = NextSlot(fmtp)
  /\ irq' = TRUE
  /\ owed' = owed \ {fmtp}
  /\ UNCHANGED <<driverVars, done, isr, fmhp, lapped>>

-----------------------------------------------------------------------------
Undisturbed ==
  \/ BuildDesc \/ AccessRefused \/ reinit_completion \/ ismt_submit_desc
  \/ Completed \/ ismt_process_desc

ismt_access == Undisturbed \/ TimedOut

Interrupt ==
  ismt_do_msi_interrupt \/ ismt_do_interrupt \/ ClearStatus \/ ismt_handle_isr

Controller == ChipStart \/ ChipFinish

\* Every transfer has returned.
Rest == pc = "idle" /\ xfer = Transfers /\ UNCHANGED vars

Next == ismt_access \/ Interrupt \/ Controller \/ NotOurs \/ Rest

Spec == Init /\ [][Next]_vars

=============================================================================
