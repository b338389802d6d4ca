-------------------------------- MODULE Ptirq --------------------------------
(***************************************************************************)
(* Interrupts of passthrough devices in the ACRN hypervisor: the table of  *)
(* remapping entries (ptirq), under ptdev_lock, and the interrupt          *)
(* remapping table of the IOMMU, whose entries are allocated under the     *)
(* lock of the unit and written under none.                                *)
(*                                                                         *)
(* Every pcpu runs one operation at a time; op[p] is where it stands.      *)
(* Names that end in _Bug are mutations of the definition they precede.    *)
(***************************************************************************)
EXTENDS Integers, FiniteSets, FiniteSetsExt

CONSTANTS
  Pcpu, VM,
  SOS,          \* The service VM.
  Msi, Gsi,     \* Physical sources: message interrupts and I/O APIC pins.
  Sid,          \* Sid[s]: the id the unit sees with s, of its device or I/O APIC.
  IrEntries,    \* CONFIG_MAX_IR_ENTRIES.
  PtEntries,    \* The number of remapping entries.
  Reserved,     \* Bound: entries reserved by dmar_reserve_irte.
  None

Source == Msi \cup Gsi
Index == 0 .. IrEntries - 1
INVALID_IRTE_ID == IrEntries   \* Any number that is no index.
Slot == 1 .. PtEntries
Ctlr == {"PIC", "IOAPIC"}
Pin == [gsi : Gsi, ctlr : Ctlr]

ASSUME PtirqAssumption ==
  /\ SOS \in VM /\ Msi \cap (Gsi \cup Pin) = {} /\ None \notin Source \cup VM \cup Pcpu
  /\ \A s \in Msi, g \in Gsi : Sid[s] # Sid[g]
  /\ IrEntries \in Nat \ {0} /\ PtEntries \in Nat \ {0} /\ Reserved \in Nat

VARIABLES
  ptdev_lock,  \* The pcpu that holds it, or None.
  entry,       \* entry[i]: a remapping entry, or Free.
  op,          \* op[p]: the operation of pcpu p.
  rsv,         \* rsv[p]: where pcpu p is in dmar_reserve_irte.
  alloc,       \* irte_alloc_bitmap.
  reserved,    \* irte_reserved_bitmap.
  ir_table,    \* The remapping table.
  iec,         \* The interrupt entry cache of the IOMMU.
  route,       \* route[s]: the index message s is programmed with.
  damaged      \* History: a bit of reserved was lost, or a write to no entry of the
               \* table has hit something of the above.

vars == <<ptdev_lock, entry, op, rsv, alloc, reserved, ir_table, iec, route, damaged>>

\* users is a history: the VMs the entry was given to.
Free == [vm |-> None, phys |-> None, virt |-> None, irte |-> INVALID_IRTE_ID, users |-> {}]
Idle == [pc |-> "idle", vm |-> None, slot |-> 0, idx |-> INVALID_IRTE_ID, pin |-> None]
NotReserving == [pc |-> "idle", block |-> {}, seen |-> {}]
Absent == [present |-> FALSE, sid |-> None, src |-> None, vm |-> None]

\* sid is what the unit compares; src is the source, and vm the VM, the entry was written for.
Irte == [present : BOOLEAN, sid : {Sid[s] : s \in Source} \cup {None},
         src : Source \cup {None}, vm : VM \cup {None}]
AssignPc == {"assign", "write", "invalidate", "store"}
FreePc == {"clear", "flush", "free", "release"}

TypeOK ==
  /\ ptdev_lock \in Pcpu \cup {None}
  /\ entry \in [Slot -> [vm : VM \cup {None}, phys : Source \cup {None},
                         virt : Msi \cup Pin \cup {None}, irte : Index \cup {INVALID_IRTE_ID},
                         users : SUBSET VM]]
  /\ op \in [Pcpu -> [pc : {"idle"} \cup AssignPc \cup FreePc, vm : VM \cup {None},
                      slot : Slot \cup {0}, idx : Index \cup {INVALID_IRTE_ID},
                      pin : Pin \cup {None}]]
  /\ rsv \in [Pcpu -> [pc : {"idle", "allocated", "loaded"}, block : SUBSET Index,
                       seen : SUBSET Index]]
  /\ reserved \subseteq Index /\ alloc \subseteq Index
  /\ ir_table \in [Index -> Irte] /\ iec \in [Index -> Irte]
  /\ route \in [Msi -> Index \cup {INVALID_IRTE_ID}]
  /\ damaged \in BOOLEAN

Init ==
  /\ ptdev_lock = None
  /\ entry = [i \in Slot |-> Free]
  /\ op = [p \in Pcpu |-> Idle] /\ rsv = [p \in Pcpu |-> NotReserving]
  /\ alloc = {} /\ reserved = {}
  /\ ir_table = [i \in Index |-> Absent] /\ iec = [i \in Index |-> Absent]
  /\ route = [s \in Msi |-> INVALID_IRTE_ID]
  /\ damaged = FALSE

-----------------------------------------------------------------------------
\* find_ptirq_entry: by physical source, or by virtual source and VM.
ByPhys(s) == {i \in Slot : entry[i].phys = s}
ByVirt(v, vm) == {i \in Slot : entry[i].virt = v /\ entry[i].vm = vm}

\* ptirq_alloc_entry takes the first that is free.
Unused == {i \in Slot : entry[i] = Free /\ \A j \in 1 .. i - 1 : entry[j] # Free}

\* A source is programmed by one pcpu at a time: guests serialise the accesses to
\* a device, and the device model assigns it while nobody uses it.
Busy(s) == \E p \in Pcpu : op[p].slot # 0 /\ entry[op[p].slot].phys = s

Ready(p) == op[p] = Idle /\ rsv[p] = NotReserving

Goto(p, pc) == op' = [op EXCEPT ![p].pc = pc]

StartAssign(p, vm, i, idx) ==
  op' = [op EXCEPT ![p] = [Idle EXCEPT !.pc = "assign", !.vm = vm, !.slot = i, !.idx = idx]]

NewEntry(vm, s, v) == [Free EXCEPT !.vm = vm, !.phys = s, !.virt = v, !.users = {vm}]

-----------------------------------------------------------------------------
(***************************************************************************)
(* Message interrupts.                                                     *)
(***************************************************************************)
\* Entries that add_msix_remapping may return, with what becomes of them.  One of
\* another VM is returned as well.
add_msix_remapping(vm, s) ==
  IF ByPhys(s) # {} THEN {<<i, [entry[i] EXCEPT !.users = @ \cup {vm}]>> : i \in ByPhys(s)}
                    ELSE {<<i, NewEntry(vm, s, s)>> : i \in Unused}

\* The lock is released with the entry found or added; its programming follows.
\* With virtual APICs in transition the source is not programmed.
ptirq_prepare_msix_remap(p, vm, s, irte_idx) ==
  /\ Ready(p) /\ ptdev_lock = None /\ ~ Busy(s)
  /\ \E e \in add_msix_remapping(vm, s) :
       /\ entry' = [entry EXCEPT ![e[1]] = e[2]]
       /\ \/ StartAssign(p, vm, e[1], IF e[2].irte = INVALID_IRTE_ID THEN irte_idx
                                                                   ELSE e[2].irte)
          \/ UNCHANGED op
  /\ UNCHANGED <<ptdev_lock, alloc, reserved, ir_table, iec, route, rsv, damaged>>

remove_msix_remapping(p, vm, s) ==
  /\ Ready(p) /\ ptdev_lock = None /\ ~ Busy(s)
  /\ \E i \in ByPhys(s) :
       /\ entry[i].vm = vm
       /\ op' = [op EXCEPT ![p] = [Idle EXCEPT !.pc = "clear", !.vm = vm, !.slot = i,
                                               !.idx = entry[i].irte]]
  /\ ptdev_lock' = p
  /\ UNCHANGED <<entry, alloc, reserved, ir_table, iec, route, rsv, damaged>>

-----------------------------------------------------------------------------
(***************************************************************************)
(* Pins.                                                                   *)
(***************************************************************************)
\* Entries that add_intx_remapping may return: a new one, the one of the service
\* VM, which passes to vm, or the one vm has.
add_intx_remapping(vm, pin, g) ==
  IF ByPhys(g) = {}
  THEN IF ByVirt(pin, vm) = {} THEN {<<i, NewEntry(vm, g, pin)>> : i \in Unused} ELSE {}
  ELSE {<<i, IF entry[i].vm = vm THEN entry[i]
                                 ELSE [entry[i] EXCEPT !.vm = vm, !.virt = pin]>> :
          i \in {j \in ByPhys(g) : entry[j].vm \in {vm, SOS}}}

\* The device model gives vm a pin in advance.
ptirq_add_intx_remapping(p, vm, pin, g) ==
  /\ Ready(p) /\ ptdev_lock = None /\ ~ Busy(g)
  /\ \E e \in add_intx_remapping(vm, pin, g) : entry' = [entry EXCEPT ![e[1]] = e[2]]
  /\ UNCHANGED <<ptdev_lock, op, alloc, reserved, ir_table, iec, route, rsv, damaged>>

\* ptirq_build_physical_rte: a pin of the virtual PIC is not remapped.
activate_physical_ioapic(p, vm, i, idx, pin) ==
  IF pin.ctlr = "IOAPIC" THEN StartAssign(p, vm, i, idx) ELSE op' = [op EXCEPT ![p] = Idle]

\* A guest unmasks a pin that is mapped.
ptirq_intx_pin_remap(p, vm, pin) ==
  /\ Ready(p) /\ ptdev_lock = None
  /\ \E i \in ByVirt(pin, vm) :
       ~ Busy(entry[i].phys) /\ activate_physical_ioapic(p, vm, i, entry[i].irte, pin)
  /\ UNCHANGED <<ptdev_lock, entry, alloc, reserved, ir_table, iec, route, rsv, damaged>>

OtherCtlr(pin) == [pin EXCEPT !.ctlr = IF @ = "PIC" THEN "IOAPIC" ELSE "PIC"]

\* The service VM unmasks a pin that is not: it is added, or first taken from the
\* other virtual interrupt controller.
ptirq_intx_pin_add(p, pin) ==
  /\ Ready(p) /\ ptdev_lock = None /\ ~ Busy(pin.gsi)
  /\ ByVirt(pin, SOS) = {} /\ ByVirt(OtherCtlr(pin), SOS) = {}
  /\ \E e \in add_intx_remapping(SOS, pin, pin.gsi) :
       /\ entry' = [entry EXCEPT ![e[1]] = e[2]]
       /\ activate_physical_ioapic(p, SOS, e[1], e[2].irte, pin)
  /\ UNCHANGED <<ptdev_lock, alloc, reserved, ir_table, iec, route, rsv, damaged>>

StartRemovePin(p, vm, i, pin) ==
  /\ op' = [op EXCEPT ![p] = [pc |-> "clear", vm |-> vm, slot |-> i, idx |-> entry[i].irte,
                              pin |-> pin]]
  /\ ptdev_lock' = p
  /\ UNCHANGED <<entry, alloc, reserved, ir_table, iec, route, rsv, damaged>>

ptirq_intx_pin_switch(p, pin) ==
  /\ Ready(p) /\ ptdev_lock = None
  /\ ByVirt(pin, SOS) = {}
  /\ \E i \in ByVirt(OtherCtlr(pin), SOS) :
       ~ Busy(entry[i].phys) /\ StartRemovePin(p, SOS, i, pin)

ptirq_remove_intx_remapping(p, vm, pin) ==
  /\ Ready(p) /\ ptdev_lock = None
  /\ \E i \in ByVirt(pin, vm) :
       ~ Busy(entry[i].phys) /\ StartRemovePin(p, vm, i, None)

-----------------------------------------------------------------------------
(***************************************************************************)
(* dmar_assign_irte, outside ptdev_lock, and what its callers do after it. *)
(***************************************************************************)
\* The first block of num entries that is free.
alloc_irtes(num) ==
  LET fit == {i \in Index : i % num = 0 /\ i .. i + num - 1 \subseteq Index \ alloc}
  IN  IF fit = {} THEN INVALID_IRTE_ID ELSE Min(fit)

AllocIrte(p) ==
  LET idx == IF op[p].idx = INVALID_IRTE_ID THEN alloc_irtes(1) ELSE op[p].idx IN
  /\ op[p].pc = "assign"
  /\ alloc' = IF idx = INVALID_IRTE_ID THEN alloc ELSE alloc \cup {idx}
  /\ op' = [op EXCEPT ![p].idx = idx,
                      ![p].pc = IF idx = INVALID_IRTE_ID THEN "store" ELSE "write"]
  /\ UNCHANGED <<ptdev_lock, entry, reserved, ir_table, iec, route, rsv, damaged>>

WriteIrte(p) ==
  /\ op[p].pc = "write"
  /\ ir_table' = [ir_table EXCEPT ![op[p].idx] =
       LET phys == entry[op[p].slot].phys
       IN  [present |-> TRUE, sid |-> Sid[phys], src |-> phys, vm |-> op[p].vm]]
  /\ Goto(p, "invalidate")
  /\ UNCHANGED <<ptdev_lock, entry, alloc, reserved, iec, route, rsv, damaged>>

dmar_invalid_iec_Skipped_Bug(idx) == UNCHANGED iec

\* The unit is asked to forget the entry, and has when the caller goes on.
dmar_invalid_iec(idx) == iec' = [i \in Index |-> IF i = idx THEN Absent ELSE iec[i]]

InvalidateIrte(p) ==
  /\ op[p].pc = "invalidate"
  /\ dmar_invalid_iec(op[p].idx)
  /\ Goto(p, "store")
  /\ UNCHANGED <<ptdev_lock, entry, alloc, reserved, ir_table, route, rsv, damaged>>

\* A message is pointed to its entry, unless there is none: then it stays silent.
StoreIrte(p) ==
  LET phys == entry[op[p].slot].phys IN
  /\ op[p].pc = "store"
  /\ entry' = [entry EXCEPT ![op[p].slot].irte = op[p].idx]
  /\ route' = IF phys \in Msi THEN [route EXCEPT ![phys] = op[p].idx] ELSE route
  /\ op' = [op EXCEPT ![p] = Idle]
  /\ UNCHANGED <<ptdev_lock, alloc, reserved, ir_table, iec, rsv, damaged>>

-----------------------------------------------------------------------------
(***************************************************************************)
(* dmar_free_irte, and the release of the entry, under ptdev_lock.  A       *)
(* source that never got an index has INVALID_IRTE_ID freed, which is far  *)
(* behind the end of the table and the bitmaps: no index is touched, and   *)
(* what is hit instead may matter here or not.                             *)
(***************************************************************************)
MayHit(idx) == damaged' \in IF idx \in Index THEN {damaged} ELSE {damaged, TRUE}

ClearIrte_FreedFirst_Bug(p) ==
  /\ op[p].pc = "clear"
  /\ ir_table' = [i \in Index |-> IF i = op[p].idx THEN Absent ELSE ir_table[i]]
  /\ MayHit(op[p].idx)
  /\ alloc' = alloc \ ({op[p].idx} \ reserved)
  /\ Goto(p, "flush")
  /\ UNCHANGED <<ptdev_lock, entry, reserved, iec, route, rsv>>

ClearIrte(p) ==
  /\ op[p].pc = "clear"
  /\ ir_table' = [i \in Index |-> IF i = op[p].idx THEN Absent ELSE ir_table[i]]
  /\ MayHit(op[p].idx)
  /\ Goto(p, "flush")
  /\ UNCHANGED <<ptdev_lock, entry, alloc, reserved, iec, route, rsv>>

FlushIrte(p) ==
  /\ op[p].pc = "flush"
  /\ dmar_invalid_iec(op[p].idx)
  /\ Goto(p, "free")
  /\ UNCHANGED <<ptdev_lock, entry, alloc, reserved, ir_table, route, rsv, damaged>>

FreeIrte(p) ==
  /\ op[p].pc = "free"
  /\ alloc' = IF op[p].idx \in reserved THEN alloc ELSE alloc \ {op[p].idx}
  /\ MayHit(op[p].idx)
  /\ Goto(p, "release")
  /\ UNCHANGED <<ptdev_lock, entry, reserved, ir_table, iec, route, rsv>>

\* ptirq_release_entry.  When the pin only changes its controller it is added
\* again, before the lock is released, and programmed after.
Release(p) ==
  LET i == op[p].slot
      new == NewEntry(SOS, entry[i].phys, op[p].pin)
  IN  /\ op[p].pc = "release"
      /\ IF op[p].pin = None
         THEN /\ entry' = [entry EXCEPT ![i] = Free]
              /\ op' = [op EXCEPT ![p] = Idle]
         ELSE /\ entry' = [entry EXCEPT ![i] = new]
              /\ activate_physical_ioapic(p, SOS, i, INVALID_IRTE_ID, op[p].pin)
      /\ ptdev_lock' = None
      /\ UNCHANGED <<alloc, reserved, ir_table, iec, route, rsv, damaged>>

-----------------------------------------------------------------------------
(***************************************************************************)
(* dmar_reserve_irte sets a block of num entries aside for a device with   *)
(* several messages.  The block is allocated under the lock of the unit;   *)
(* its bits in irte_reserved_bitmap are set by a plain |= under none.      *)
(***************************************************************************)
Aside == UNION {rsv[p].block : p \in Pcpu}

AllocBlock(p, num) ==
  LET start == alloc_irtes(num)
      block == start .. start + num - 1
  IN  /\ Ready(p)
      /\ Cardinality(reserved \cup Aside) + num <= Reserved
      /\ start # INVALID_IRTE_ID
      /\ alloc' = alloc \cup block
      /\ rsv' = [rsv EXCEPT ![p] = [pc |-> "allocated", block |-> block, seen |-> {}]]
      /\ UNCHANGED <<ptdev_lock, entry, op, reserved, ir_table, iec, route, damaged>>

LoadReserved(p) ==
  /\ rsv[p].pc = "allocated"
  /\ rsv' = [rsv EXCEPT ![p].pc = "loaded", ![p].seen = reserved]
  /\ UNCHANGED <<ptdev_lock, entry, op, alloc, reserved, ir_table, iec, route, damaged>>

\* What others have set since the load is lost.
StoreReserved(p) ==
  LET bits == rsv[p].seen \cup rsv[p].block IN
  /\ rsv[p].pc = "loaded"
  /\ reserved' = bits
  /\ damaged' = (damaged \/ ~ reserved \subseteq bits)
  /\ rsv' = [rsv EXCEPT ![p] = NotReserving]
  /\ UNCHANGED <<ptdev_lock, entry, op, alloc, ir_table, iec, route>>

dmar_reserve_irte(p) ==
  (\E num \in {1, 2} : AllocBlock(p, num)) \/ LoadReserved(p) \/ StoreReserved(p)

\* The IOMMU fetches an entry for an interrupt.
Fetch(idx) ==
  /\ ir_table[idx].present /\ iec[idx] # ir_table[idx] /\ ~ iec[idx].present
  /\ iec' = [iec EXCEPT ![idx] = ir_table[idx]]
  /\ UNCHANGED <<ptdev_lock, entry, op, alloc, reserved, ir_table, route, rsv, damaged>>

\* A reserved entry is for one source; others ask for any.
ReservedFor(s) ==
  {INVALID_IRTE_ID} \cup
    {i \in reserved : /\ \A j \in Slot : entry[j].irte = i => entry[j].phys = s
                      /\ \A p \in Pcpu : op[p].idx # i}

MsiOperation(p, vm) ==
  \E s \in Msi :
    \/ \E irte_idx \in ReservedFor(s) : ptirq_prepare_msix_remap(p, vm, s, irte_idx)
    \/ remove_msix_remapping(p, vm, s)

PinOperation(p, vm) ==
  \E pin \in Pin :
    \/ ptirq_intx_pin_remap(p, vm, pin)
    \/ ptirq_remove_intx_remapping(p, vm, pin)
    \/ vm # SOS /\ \E g \in Gsi : ptirq_add_intx_remapping(p, vm, pin, g)
    \/ vm = SOS /\ (ptirq_intx_pin_add(p, pin) \/ ptirq_intx_pin_switch(p, pin))

dmar_assign_irte(p) == AllocIrte(p) \/ WriteIrte(p) \/ InvalidateIrte(p) \/ StoreIrte(p)

dmar_free_irte(p) == ClearIrte(p) \/ FlushIrte(p) \/ FreeIrte(p) \/ Release(p)

Next ==
  \/ \E p \in Pcpu :
       \/ \E vm \in VM : MsiOperation(p, vm) \/ PinOperation(p, vm)
       \/ dmar_assign_irte(p) \/ dmar_free_irte(p) \/ dmar_reserve_irte(p)
  \/ \E idx \in Index : Fetch(idx)

Spec == Init /\ [][Next]_vars

=============================================================================
