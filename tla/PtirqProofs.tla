----------------------------- MODULE PtirqProofs -----------------------------
(***************************************************************************)
(* Proofs about Ptirq: who owns which entry of the remapping table, for    *)
(* any number of pcpus, virtual machines, sources and entries.             *)
(*                                                                         *)
(* A pcpu that programs a source works outside ptdev_lock.  It has its     *)
(* remapping entry to itself, and claims the index it was given: one       *)
(* that is reserved, that its entry has already, or that was just          *)
(* allocated.  No two of these claims agree.                               *)
(***************************************************************************)
EXTENDS PtirqProps, WellFoundedInduction, TLAPS

\* Only a removal keeps ptdev_lock between two steps.
LockHeld == \A p \in Pcpu : op[p].pc \in FreePc <=> ptdev_lock = p

\* Whoever works has a remapping entry of its own that is in use.
OpsApart ==
  /\ \A p \in Pcpu : IF op[p].pc = "idle" THEN op[p] = Idle
                     ELSE op[p].slot \in Slot /\ entry[op[p].slot].phys # None
  /\ \A p, q \in Pcpu : op[p].slot = op[q].slot /\ op[p].slot # 0 => p = q

\* A source has one remapping entry; one without a source is free.
OnePerSource ==
  /\ \A i, j \in Slot : entry[i].phys = entry[j].phys /\ entry[i].phys # None => i = j
  /\ \A i \in Slot : entry[i].phys = None => entry[i] = Free

\* The index a pcpu works with, against that of its remapping entry.
IndexHeld(p) ==
  LET irte == entry[op[p].slot].irte IN
  /\ op[p].pc \in AssignPc => irte \in {INVALID_IRTE_ID, op[p].idx}
  /\ op[p].pc \in {"write", "invalidate"} => op[p].idx \in Index
  /\ op[p].pc \in FreePc => irte = op[p].idx
  /\ op[p].pc = "assign" /\ irte = INVALID_IRTE_ID => op[p].idx \in reserved \cup {INVALID_IRTE_ID}

Assigning == {p \in Pcpu : op[p].pc \in AssignPc}

Exclusive ==
  /\ \A i, j \in Held : entry[i].irte = entry[j].irte => i = j
  /\ \A p \in Assigning : \A i \in Held : op[p].idx = entry[i].irte => op[p].slot = i
  /\ \A p, q \in Assigning : op[p].idx = op[q].idx /\ op[p].idx \in Index => p = q

Allocated ==
  alloc = reserved \cup Aside \cup {entry[i].irte : i \in Held}
                   \cup ({op[p].idx : p \in Programming} \ {INVALID_IRTE_ID})

\* A block on its way to being reserved is nobody else's; and no bit has been lost yet.
Apart ==
  /\ \A p, q \in Pcpu : p # q => rsv[p].block \cap rsv[q].block = {}
  /\ \A p \in Pcpu : /\ rsv[p].block \cap reserved = {} /\ rsv[p].seen \subseteq reserved
                     /\ \A i \in Held : entry[i].irte \notin rsv[p].block
                     /\ \A q \in Assigning : op[q].idx \notin rsv[p].block

Inv ==
  /\ TypeOK /\ LockHeld /\ OpsApart /\ OnePerSource
  /\ \A p \in Pcpu : IndexHeld(p)
  /\ Exclusive /\ Allocated /\ Apart

\* Pcpus at work on an entry of the table.
Marked == {p \in Pcpu : op[p].pc \in {"invalidate", "store", "flush", "free"} /\ op[p].idx \in Index}

\* The remapping entry stays with its source, and with those it was given to.
SameUse(i) == entry'[i].phys = entry[i].phys /\ entry[i].users \subseteq entry'[i].users

\* A step that keeps the invariant, and who holds and works on which entry of the table.
Keeps ==
  /\ Inv'
  /\ UNCHANGED <<ir_table, iec>> /\ Held' = Held
  /\ \A i \in Held : entry'[i].irte = entry[i].irte /\ SameUse(i)
  /\ Marked' = Marked
  /\ \A p \in Marked : op'[p] = op[p] /\ SameUse(op[p].slot)

-----------------------------------------------------------------------------
EntryRec == [vm : VM \cup {None}, phys : Source \cup {None},
             virt : Msi \cup Pin \cup {None}, irte : Index \cup {INVALID_IRTE_ID},
             users : SUBSET VM]
OpRec == [pc : {"idle"} \cup AssignPc \cup FreePc, vm : VM \cup {None},
          slot : Slot \cup {0}, idx : Index \cup {INVALID_IRTE_ID}, pin : Pin \cup {None}]
RsvRec == [pc : {"idle", "allocated", "loaded"}, block : SUBSET Index, seen : SUBSET Index]

LEMMA Types ==
  ASSUME TypeOK
  PROVE  /\ ptdev_lock \in Pcpu \cup {None}
         /\ entry \in [Slot -> EntryRec] /\ op \in [Pcpu -> OpRec]
         /\ reserved \subseteq Index /\ alloc \subseteq Index
         /\ ir_table \in [Index -> Irte] /\ iec \in [Index -> Irte]
         /\ route \in [Msi -> Index \cup {INVALID_IRTE_ID}]
         /\ rsv \in [Pcpu -> RsvRec] /\ damaged \in BOOLEAN
BY DEF TypeOK, EntryRec, OpRec, RsvRec

LEMMA IndexFacts ==
  /\ INVALID_IRTE_ID \notin Index /\ Index \subseteq Nat /\ 0 \notin Slot
  /\ None \notin Pcpu /\ None \notin Source /\ None \notin VM /\ SOS \in VM
BY PtirqAssumption DEF INVALID_IRTE_ID, Index, Slot

LEMMA Constants ==
  /\ Free \in EntryRec /\ Free.phys = None /\ Free.vm = None /\ Free.irte = INVALID_IRTE_ID
  /\ Idle \in OpRec /\ Idle.pc = "idle" /\ Idle.slot = 0
BY DEF Free, EntryRec, Idle, OpRec

\* Every set of numbers has a least one.
LEMMA MinIn ==
  ASSUME NEW S \in SUBSET Nat, S # {}
  PROVE  Min(S) \in S
<1>1. IsWellFoundedOn(OpToRel(<, Nat), Nat) BY NatLessThanWellFounded
<1>2. PICK x \in S : \A y \in S : ~ (<<y, x>> \in OpToRel(<, Nat)) BY <1>1, WFMin
<1>3. \A y \in S : ~ (y < x) BY <1>2 DEF OpToRel
<1>4. \A y \in S : x <= y BY <1>3
<1> QED BY <1>4 DEF Min

\* What is allocated was free.
LEMMA AllocFree ==
  ASSUME NEW num \in {1, 2}, alloc_irtes(num) # INVALID_IRTE_ID
  PROVE  alloc_irtes(num) \in Index
         /\ alloc_irtes(num) .. alloc_irtes(num) + num - 1 \subseteq Index \ alloc
<1> DEFINE fit == {i \in Index : i % num = 0 /\ i .. i + num - 1 \subseteq Index \ alloc}
<1>1. fit # {} /\ alloc_irtes(num) = Min(fit) BY DEF alloc_irtes
<1>2. fit \in SUBSET Nat BY IndexFacts
<1> HIDE DEF fit
<1>3. Min(fit) \in fit BY <1>1, <1>2, MinIn
<1> QED BY <1>1, <1>3 DEF fit

-----------------------------------------------------------------------------
\* Nobody comes by an index of a block that is on its way to being reserved: what is held
\* or claimed was so before, or is reserved, or was free.
LEMMA ApartKept ==
  ASSUME Inv, UNCHANGED <<reserved, rsv>>,
         \A i \in Held' : \/ \E j \in Held : entry'[i].irte = entry[j].irte
                          \/ \E q \in Assigning : entry'[i].irte = op[q].idx,
         \A q \in Assigning' : \/ op'[q].idx \in reserved \cup {INVALID_IRTE_ID} \cup (Index \ alloc)
                               \/ \E j \in Held : op'[q].idx = entry[j].irte
                               \/ \E u \in Assigning : op'[q].idx = op[u].idx
  PROVE  Apart'
<1>1. Apart /\ rsv \in [Pcpu -> RsvRec] BY Types DEF Inv
<1>2. \A p \in Pcpu : rsv[p].block \subseteq alloc /\ rsv[p].block \subseteq Index
  BY <1>1 DEF Inv, Allocated, Aside, RsvRec
<1>3. \A p \in Pcpu : \A i \in Held' : entry'[i].irte \notin rsv[p].block BY <1>1 DEF Apart
<1>4. \A p \in Pcpu : \A q \in Assigning' : op'[q].idx \notin rsv[p].block
  BY <1>1, <1>2, IndexFacts DEF Apart
<1> QED BY <1>1, <1>3, <1>4 DEF Apart

\* The beginning of an operation: pcpu p finds or adds remapping entry i, as e, and
\* goes on with o.  No index changes hands.
LEMMA Begin ==
  ASSUME Inv, NEW p \in Pcpu, NEW i \in Slot, NEW e \in EntryRec, NEW o \in OpRec,
         op[p] = Idle, \A q \in Pcpu : op[q].slot # i,
         e.phys # None,
         entry[i].phys # None => /\ e.phys = entry[i].phys /\ e.irte = entry[i].irte
                                 /\ entry[i].users \subseteq e.users,
         entry[i].phys = None =>
           e.irte = INVALID_IRTE_ID /\ \A j \in Slot : entry[j].phys # e.phys,
         entry' = [entry EXCEPT ![i] = e], op' = [op EXCEPT ![p] = o],
         UNCHANGED <<alloc, reserved, ir_table, iec, route, rsv, damaged>>,
         \/ o = Idle /\ ptdev_lock' = ptdev_lock
         \/ /\ o.pc = "assign" /\ o.slot = i /\ ptdev_lock' = ptdev_lock
            /\ \/ o.idx = e.irte
               \/ /\ e.irte = INVALID_IRTE_ID /\ o.idx \in reserved
                  /\ \A j \in Slot : entry[j].irte # o.idx
                  /\ \A q \in Pcpu : op[q].idx # o.idx
         \/ /\ o.pc = "clear" /\ o.slot = i /\ o.idx = e.irte
            /\ ptdev_lock = None /\ ptdev_lock' = p
  PROVE  Keeps
<1>1. /\ entry \in [Slot -> EntryRec] /\ op \in [Pcpu -> OpRec]
      /\ reserved \subseteq Index
      /\ LockHeld /\ OpsApart /\ OnePerSource /\ Exclusive /\ Allocated
      /\ \A q \in Pcpu : IndexHeld(q)
  BY Types DEF Inv
<1>2. /\ \A q \in Pcpu : op'[q] = IF q = p THEN o ELSE op[q]
      /\ \A j \in Slot : entry'[j] = IF j = i THEN e ELSE entry[j]
      /\ op[p].pc = "idle" /\ op[p].slot = 0 /\ o.pc \in {"idle", "assign", "release", "clear"}
  BY <1>1 DEF Idle
<1>3. \A j \in Slot : entry'[j].irte = entry[j].irte
  BY <1>1, <1>2, Constants DEF OnePerSource
<1>4. Held' = Held
  <2>1. ASSUME NEW j \in Slot, entry[j].irte # INVALID_IRTE_ID
        PROVE  (\A q \in Pcpu : op'[q].slot = j => op'[q].pc # "release")
                 <=> (\A q \in Pcpu : op[q].slot = j => op[q].pc # "release")
    <3>1. op'[p].slot = j => op'[p].pc # "release"
      BY <1>2, <1>3, <2>1, IndexFacts DEF Idle
    <3>2. op[p].slot # j BY <1>2, IndexFacts
    <3> QED BY <1>2, <3>1, <3>2
  <2> QED BY <1>3, <2>1 DEF Held
<1>5. Programming' = Programming BY <1>2, IndexFacts DEF Programming, Idle
<1>6. \A q \in Programming : op'[q] = op[q] BY <1>2 DEF Programming
<1>7. Allocated' BY <1>1, <1>3, <1>4, <1>5, <1>6 DEF Allocated, Aside, Held
<1>8. LockHeld' BY <1>1, <1>2, IndexFacts DEF LockHeld, FreePc, Idle
<1>9. OpsApart'
  <2>1. ASSUME NEW q \in Pcpu
        PROVE  IF op'[q].pc = "idle" THEN op'[q] = Idle
               ELSE op'[q].slot \in Slot /\ entry'[op'[q].slot].phys # None
    <3>1. CASE q # p BY <1>1, <1>2, <3>1 DEF OpsApart
    <3>2. CASE q = p BY <1>2, <3>2 DEF Idle
    <3> QED BY <3>1, <3>2
  <2>2. ASSUME NEW q \in Pcpu, NEW r \in Pcpu, op'[q].slot = op'[r].slot, op'[q].slot # 0
        PROVE  q = r
    <3>1. \A u \in Pcpu \ {p} : op'[u] = op[u] /\ op'[u].slot # i BY <1>2
    <3>2. op'[p].slot \in {0, i} BY <1>2 DEF Idle
    <3> QED BY <1>1, <2>2, <3>1, <3>2 DEF OpsApart
  <2> QED BY <2>1, <2>2 DEF OpsApart
<1>10. OnePerSource'
  BY <1>1, <1>2, <1>3 DEF OnePerSource
<1>11. ASSUME NEW q \in Pcpu PROVE IndexHeld(q)'
  <2>1. CASE q # p
    <3>1. op'[q] = op[q] BY <1>2, <2>1
    <3>2. op[q].pc # "idle" => op[q].slot \in Slot BY <1>1 DEF OpsApart
    <3>3. op[q].pc # "idle" => entry'[op'[q].slot].irte = entry[op[q].slot].irte
      BY <1>3, <3>1, <3>2
    <3> QED BY <1>1, <3>1, <3>3 DEF IndexHeld, AssignPc, FreePc
  <2>2. CASE q = p
    <3>1. e.irte = entry[i].irte /\ e.irte \in Index \cup {INVALID_IRTE_ID}
      BY <1>1, <1>2, <1>3 DEF EntryRec
    <3>2. CASE o.pc = "idle" BY <1>2, <2>2, <3>2 DEF IndexHeld, AssignPc, FreePc
    <3>3. CASE o.pc # "idle"
      <4>1. op'[q] = o /\ o.slot = i /\ entry'[op'[q].slot].irte = e.irte
        BY <1>2, <2>2, <3>3 DEF Idle
      <4> QED BY <3>1, <3>3, <4>1 DEF IndexHeld, AssignPc, FreePc, Idle
    <3> QED BY <3>2, <3>3
  <2> QED BY <2>1, <2>2
<1>12. Exclusive'
  <2>1. ASSUME NEW j \in Held, NEW k \in Held, entry'[j].irte = entry'[k].irte
        PROVE  j = k
    BY <1>1, <1>3, <2>1 DEF Exclusive, Held
  <2>2. ASSUME NEW q \in Assigning', NEW j \in Held, op'[q].idx = entry'[j].irte
        PROVE  op'[q].slot = j
    <3>1. j \in Slot /\ op'[q].idx = entry[j].irte /\ entry[j].irte # INVALID_IRTE_ID
      BY <1>3, <2>2 DEF Held
    <3>2. CASE q # p
      BY <1>1, <1>2, <2>2, <3>1, <3>2 DEF Exclusive, Assigning
    <3>3. CASE q = p
      <4>1. op'[p] = o /\ o.slot = i /\ o.pc = "assign"
        BY <1>2, <2>2, <3>3 DEF Assigning, AssignPc, Idle
      <4>2. o.idx = e.irte BY <3>1, <3>3, <4>1
      <4>3. entry[i].irte = entry[j].irte BY <1>2, <1>3, <3>1, <3>3, <4>1, <4>2
      <4>4. i \in Held BY <3>1, <4>3 DEF Held
      <4> QED BY <1>1, <2>2, <3>3, <4>1, <4>3, <4>4 DEF Exclusive
    <3> QED BY <3>2, <3>3
  <2>3. ASSUME NEW q \in Assigning', q # p, p \in Assigning', op'[q].idx = op'[p].idx,
               op'[q].idx \in Index
        PROVE  FALSE
    <3>1. /\ op'[p] = o /\ o.slot = i /\ o.pc = "assign" /\ op'[q] = op[q]
          /\ q \in Assigning
      BY <1>2, <2>3 DEF Assigning, AssignPc, Idle
    <3>2. o.idx = e.irte BY <2>3, <3>1 DEF Assigning
    <3>3. entry[i].irte = op[q].idx BY <1>2, <1>3, <2>3, <3>1, <3>2
    <3>4. i \in Held BY <2>3, <3>1, <3>3, IndexFacts DEF Held
    <3> QED BY <1>1, <3>1, <3>3, <3>4 DEF Exclusive, Assigning
  <2>4. ASSUME NEW q \in Assigning', NEW r \in Assigning', op'[q].idx = op'[r].idx,
               op'[q].idx \in Index
        PROVE  q = r
    <3>1. CASE q = p \/ r = p BY <2>3, <2>4, <3>1
    <3>2. CASE q # p /\ r # p
      BY <1>1, <1>2, <2>4, <3>2 DEF Exclusive, Assigning
    <3> QED BY <3>1, <3>2
  <2> QED BY <1>4, <2>1, <2>2, <2>4 DEF Exclusive
<1>17. Apart'
  <2>1. \A j \in Held' : j \in Held /\ entry'[j].irte = entry[j].irte BY <1>3, <1>4 DEF Held
  <2>2. \A q \in Assigning' : q # p => q \in Assigning /\ op'[q] = op[q]
    BY <1>2 DEF Assigning
  <2>3. ASSUME p \in Assigning'
        PROVE  \/ o.idx \in reserved \cup {INVALID_IRTE_ID}
               \/ \E j \in Held : o.idx = entry[j].irte
    <3>1. o.pc = "assign" BY <1>2, <2>3 DEF Assigning, AssignPc
    <3>2. CASE o.idx = e.irte /\ o.idx # INVALID_IRTE_ID
      <4>1. e.irte = entry[i].irte BY <1>2, <1>3
      <4> QED BY <3>2, <4>1 DEF Held
    <3> QED BY <3>1, <3>2, Constants
  <2> QED BY <1>2, <2>1, <2>2, <2>3, ApartKept
<1>13. TypeOK'
  <2>1. entry' \in [Slot -> EntryRec] /\ op' \in [Pcpu -> OpRec] BY <1>1
  <2>2. ptdev_lock' \in Pcpu \cup {None} BY DEF Inv, TypeOK
  <2> QED BY <2>1, <2>2 DEF Inv, TypeOK, EntryRec, OpRec
<1>14. Marked' = Marked /\ \A q \in Marked : op'[q] = op[q] /\ entry'[op[q].slot] = entry[op[q].slot]
  <2>1. p \notin Marked /\ p \notin Marked' BY <1>2 DEF Marked
  <2>2. \A q \in Pcpu \ {p} : op'[q] = op[q] /\ op[q].slot # i BY <1>2
  <2>3. \A q \in Marked : op[q].slot \in Slot BY <1>1 DEF Marked, OpsApart
  <2>4. \A q \in Pcpu : q \in Marked' <=> q \in Marked BY <2>1, <2>2 DEF Marked
  <2>5. Marked \subseteq Pcpu /\ Marked' \subseteq Pcpu BY DEF Marked
  <2> QED BY <1>2, <2>1, <2>2, <2>3, <2>4, <2>5
<1>15. \A j \in Held : entry'[j].irte = entry[j].irte /\ SameUse(j)
  <2>1. \A j \in Held : j \in Slot /\ entry[j].phys # None
    BY <1>1, Constants DEF Held, OnePerSource
  <2> QED BY <1>2, <1>3, <2>1 DEF SameUse
<1>16. Inv' BY <1>7, <1>8, <1>9, <1>10, <1>11, <1>12, <1>13, <1>17 DEF Inv
<1> QED BY <1>4, <1>14, <1>15, <1>16 DEF Keeps, SameUse

\* A remapping entry nobody programs.
LEMMA Alone ==
  ASSUME Inv, NEW i \in Slot, entry[i].phys = None \/ ~ Busy(entry[i].phys)
  PROVE  \A q \in Pcpu : op[q].slot # i
BY IndexFacts DEF Inv, OpsApart, Busy, Idle

\* What is found or added for a source: as it was but for its owner, or new.
Begins(i, e, s) ==
  /\ e \in EntryRec /\ e.phys = s /\ \A q \in Pcpu : op[q].slot # i
  /\ entry[i].phys # None => /\ e.phys = entry[i].phys /\ e.irte = entry[i].irte
                             /\ entry[i].users \subseteq e.users
  /\ entry[i].phys = None =>
       e.irte = INVALID_IRTE_ID /\ \A j \in Slot : entry[j].phys # e.phys

LEMMA Adds ==
  ASSUME Inv, NEW vm \in VM, NEW s \in Source, NEW v \in Msi \cup Pin, ByPhys(s) = {},
         NEW i \in Unused
  PROVE  i \in Slot /\ Begins(i, NewEntry(vm, s, v), s)
<1>1. i \in Slot /\ entry[i] = Free BY DEF Unused
<1>2. NewEntry(vm, s, v).phys = s /\ NewEntry(vm, s, v).irte = INVALID_IRTE_ID
  BY DEF NewEntry, Free
<1>3. NewEntry(vm, s, v) \in EntryRec BY DEF NewEntry, Free, EntryRec
<1>4. \A j \in Slot : entry[j].phys # s BY DEF ByPhys
<1> QED BY <1>1, <1>2, <1>3, <1>4, Alone, Constants DEF Begins

LEMMA AddsMsix ==
  ASSUME Inv, NEW vm \in VM, NEW s \in Msi, ~ Busy(s), NEW x \in add_msix_remapping(vm, s)
  PROVE  \E i \in Slot, e \in EntryRec : x = <<i, e>> /\ Begins(i, e, s)
<1>1. entry \in [Slot -> EntryRec] BY Types DEF Inv
<1>2. CASE ByPhys(s) # {}
  <2>1. PICK i \in ByPhys(s) : x = <<i, [entry[i] EXCEPT !.users = @ \cup {vm}]>>
    BY <1>2 DEF add_msix_remapping
  <2>2. i \in Slot /\ entry[i].phys = s /\ s # None BY IndexFacts DEF ByPhys, Source
  <2> DEFINE e == [entry[i] EXCEPT !.users = @ \cup {vm}]
  <2>3. /\ e \in EntryRec /\ e.phys = entry[i].phys /\ e.irte = entry[i].irte
        /\ entry[i].users \subseteq e.users
    BY <1>1, <2>2 DEF EntryRec
  <2>4. Begins(i, e, s) BY <2>2, <2>3, Alone DEF Begins
  <2> QED BY <2>1, <2>2, <2>3, <2>4
<1>3. CASE ByPhys(s) = {}
  <2>1. PICK i \in Unused : x = <<i, NewEntry(vm, s, s)>> BY <1>3 DEF add_msix_remapping
  <2>2. i \in Slot /\ Begins(i, NewEntry(vm, s, s), s) BY <1>3, Adds DEF Source
  <2> QED BY <2>1, <2>2 DEF Begins
<1> QED BY <1>2, <1>3

LEMMA AddsIntx ==
  ASSUME Inv, NEW vm \in VM, NEW g \in Gsi, NEW pin \in Pin, ~ Busy(g),
         NEW x \in add_intx_remapping(vm, pin, g)
  PROVE  \E i \in Slot, e \in EntryRec : x = <<i, e>> /\ Begins(i, e, g)
<1>1. entry \in [Slot -> EntryRec] BY Types DEF Inv
<1>2. CASE ByPhys(g) # {}
  <2>1. PICK i \in ByPhys(g) :
          x = <<i, IF entry[i].vm = vm THEN entry[i]
                                       ELSE [entry[i] EXCEPT !.vm = vm, !.virt = pin]>>
    BY <1>2 DEF add_intx_remapping
  <2>2. i \in Slot /\ entry[i].phys = g /\ g # None BY IndexFacts DEF ByPhys, Source
  <2> DEFINE e == IF entry[i].vm = vm THEN entry[i]
                                      ELSE [entry[i] EXCEPT !.vm = vm, !.virt = pin]
  <2>3. /\ e \in EntryRec /\ e.phys = entry[i].phys /\ e.irte = entry[i].irte
        /\ entry[i].users \subseteq e.users
    BY <1>1, <2>2 DEF EntryRec
  <2>4. Begins(i, e, g) BY <2>2, <2>3, Alone DEF Begins
  <2> QED BY <2>1, <2>2, <2>3, <2>4
<1>3. CASE ByPhys(g) = {}
  <2>1. PICK i \in Unused : x = <<i, NewEntry(vm, g, pin)>> BY <1>3 DEF add_intx_remapping
  <2>2. i \in Slot /\ Begins(i, NewEntry(vm, g, pin), g) BY <1>3, Adds DEF Source
  <2> QED BY <2>1, <2>2 DEF Begins
<1> QED BY <1>2, <1>3

LEMMA StartAssignIs ==
  ASSUME NEW p \in Pcpu, NEW vm \in VM, NEW i \in Slot,
         NEW idx \in Index \cup {INVALID_IRTE_ID},
         StartAssign(p, vm, i, idx)
  PROVE  \E o \in OpRec : /\ op' = [op EXCEPT ![p] = o]
                          /\ o.pc = "assign" /\ o.slot = i /\ o.idx = idx
<1> DEFINE o == [Idle EXCEPT !.pc = "assign", !.vm = vm, !.slot = i, !.idx = idx]
<1>1. op' = [op EXCEPT ![p] = o] BY DEF StartAssign
<1>2. o \in OpRec BY DEF OpRec, AssignPc, Idle
<1>3. o.pc = "assign" /\ o.slot = i /\ o.idx = idx BY DEF Idle
<1> QED BY <1>1, <1>2, <1>3

\* An index set aside for a source is nobody else's.
LEMMA ReservedApart ==
  ASSUME Inv, NEW s \in Source, NEW i \in Slot, NEW e, Begins(i, e, s),
         e.irte = INVALID_IRTE_ID, NEW idx \in ReservedFor(s)
  PROVE  \/ idx = INVALID_IRTE_ID
         \/ /\ idx \in reserved /\ \A j \in Slot : entry[j].irte # idx
            /\ \A q \in Pcpu : op[q].idx # idx
<1> SUFFICES ASSUME idx # INVALID_IRTE_ID, NEW j \in Slot, entry[j].irte = idx PROVE FALSE
  BY DEF ReservedFor
<1>1. entry[j].phys = s BY DEF ReservedFor
<1>2. s # None BY IndexFacts
<1>3. entry[i].phys = s BY <1>1 DEF Begins
<1>4. i = j BY <1>1, <1>2, <1>3 DEF Inv, OnePerSource
<1> QED BY <1>2, <1>3, <1>4 DEF Begins

LEMMA PrepareInv ==
  ASSUME Inv, NEW p \in Pcpu, NEW vm \in VM, NEW s \in Msi, NEW irte_idx \in ReservedFor(s),
         ptirq_prepare_msix_remap(p, vm, s, irte_idx)
  PROVE  Keeps
<1>1. s \in Msi /\ s \in Source /\ s # None BY PtirqAssumption DEF Source
<1>2. PICK x \in add_msix_remapping(vm, s) :
        /\ entry' = [entry EXCEPT ![x[1]] = x[2]]
        /\ \/ StartAssign(p, vm, x[1], IF x[2].irte = INVALID_IRTE_ID THEN irte_idx
                                                                   ELSE x[2].irte)
           \/ UNCHANGED op
  BY DEF ptirq_prepare_msix_remap, Ready
<1>3. /\ op[p] = Idle /\ ~ Busy(s)
      /\ UNCHANGED <<ptdev_lock, alloc, reserved, ir_table, iec, route, rsv, damaged>>
  BY DEF ptirq_prepare_msix_remap, Ready
<1>4. PICK i \in Slot, e \in EntryRec : x = <<i, e>> /\ Begins(i, e, s) BY <1>1, <1>3, AddsMsix
<1>5. entry' = [entry EXCEPT ![i] = e] BY <1>2, <1>4
<1>6. op \in [Pcpu -> OpRec] /\ reserved \subseteq Index BY Types DEF Inv
<1> DEFINE idx == IF e.irte = INVALID_IRTE_ID THEN irte_idx ELSE e.irte
<1>7. idx \in Index \cup {INVALID_IRTE_ID} BY <1>6 DEF ReservedFor, EntryRec
<1>8. CASE UNCHANGED op
  <2>1. op' = [op EXCEPT ![p] = Idle] BY <1>3, <1>6, <1>8
  <2> QED BY <1>1, <1>3, <1>4, <1>5, <2>1, Begin, Constants DEF Begins
<1>9. CASE StartAssign(p, vm, i, idx)
  <2> HIDE DEF idx
  <2>1. PICK o \in OpRec : /\ op' = [op EXCEPT ![p] = o]
                          /\ o.pc = "assign" /\ o.slot = i /\ o.idx = idx
    BY <1>7, <1>9, StartAssignIs
  <2>2. \/ o.idx = e.irte
        \/ /\ e.irte = INVALID_IRTE_ID /\ o.idx \in reserved
           /\ \A j \in Slot : entry[j].irte # o.idx
           /\ \A q \in Pcpu : op[q].idx # o.idx
    BY <1>1, <1>4, <2>1, ReservedApart DEF idx
  <2> QED BY <1>1, <1>3, <1>4, <1>5, <2>1, <2>2, Begin DEF Begins
<1> QED BY <1>2, <1>4, <1>8, <1>9

\* The removal of the remapping entry of a source that nobody programs.
LEMMA RemoveBegins ==
  ASSUME Inv, NEW p \in Pcpu, NEW i \in Slot, NEW o \in OpRec, op[p] = Idle,
         ptdev_lock = None, ptdev_lock' = p, ~ Busy(entry[i].phys), entry[i].phys # None,
         op' = [op EXCEPT ![p] = o], o.slot = i, o.idx = entry[i].irte,
         o.pc = "clear",
         UNCHANGED <<entry, alloc, reserved, ir_table, iec, route, rsv, damaged>>
  PROVE  Keeps
<1>1. PICK e \in EntryRec : e = entry[i] BY Types DEF Inv
<1>2. entry' = [entry EXCEPT ![i] = e] BY <1>1, Types DEF Inv
<1>3. \A q \in Pcpu : op[q].slot # i BY Alone
<1>4. /\ o.pc = "clear" /\ o.slot = i /\ o.idx = e.irte
      /\ ptdev_lock = None /\ ptdev_lock' = p
  BY <1>1
<1>5. /\ e.phys # None
      /\ entry[i].phys # None => /\ e.phys = entry[i].phys /\ e.irte = entry[i].irte
                                 /\ entry[i].users \subseteq e.users
  BY <1>1
<1>6. UNCHANGED <<alloc, reserved, ir_table, iec, route, rsv, damaged>> OBVIOUS
<1> QED BY <1>2, <1>3, <1>4, <1>5, <1>6, Begin

LEMMA RemoveMsixInv ==
  ASSUME Inv, NEW p \in Pcpu, NEW vm \in VM, NEW s \in Msi, remove_msix_remapping(p, vm, s)
  PROVE  Keeps
<1>1. s # None BY PtirqAssumption DEF Source
<1>2. PICK i \in ByPhys(s) :
        op' = [op EXCEPT ![p] = [Idle EXCEPT !.pc = "clear", !.vm = vm, !.slot = i,
                                           !.idx = entry[i].irte]]
  BY DEF remove_msix_remapping, Ready
<1>3. i \in Slot /\ entry[i].phys = s BY DEF ByPhys
<1>4. entry[i].irte \in Index \cup {INVALID_IRTE_ID} BY <1>3, Types DEF Inv, EntryRec
<1> DEFINE o == [Idle EXCEPT !.pc = "clear", !.vm = vm, !.slot = i,
                                           !.idx = entry[i].irte]
<1>5. /\ o \in OpRec /\ o.slot = i /\ o.idx = entry[i].irte
      /\ o.pc = "clear"
  BY <1>3, <1>4 DEF Idle, OpRec, FreePc
<1>6. /\ op[p] = Idle /\ ptdev_lock = None /\ ptdev_lock' = p /\ ~ Busy(s)
      /\ UNCHANGED <<entry, alloc, reserved, ir_table, iec, route, rsv, damaged>>
  BY DEF remove_msix_remapping, Ready
<1> QED BY <1>1, <1>2, <1>3, <1>5, <1>6, RemoveBegins


LEMMA ByVirtUsed ==
  ASSUME Inv, NEW vm \in VM, NEW v, NEW i \in ByVirt(v, vm)
  PROVE  i \in Slot /\ entry[i].phys # None /\ entry[i].phys \in Source
<1>1. i \in Slot /\ entry[i].vm = vm BY DEF ByVirt
<1>2. entry[i] # Free BY <1>1, Constants, IndexFacts
<1> QED BY <1>1, <1>2, Types DEF Inv, OnePerSource, EntryRec

LEMMA RemovePinInv ==
  ASSUME Inv, NEW p \in Pcpu, NEW vm \in VM, NEW pin \in Pin \cup {None}, NEW v \in Pin,
         NEW i \in ByVirt(v, vm), op[p] = Idle, ptdev_lock = None, ~ Busy(entry[i].phys),
         StartRemovePin(p, vm, i, pin)
  PROVE  Keeps
<1>1. i \in Slot /\ entry[i].phys # None BY ByVirtUsed
<1>2. entry[i].irte \in Index \cup {INVALID_IRTE_ID} BY <1>1, Types DEF Inv, EntryRec
<1> DEFINE o == [pc |-> "clear", vm |-> vm, slot |-> i, idx |-> entry[i].irte, pin |-> pin]
<1>3. /\ o \in OpRec /\ o.slot = i /\ o.idx = entry[i].irte
      /\ o.pc = "clear"
  BY <1>1, <1>2 DEF OpRec, FreePc
<1>4. /\ op' = [op EXCEPT ![p] = o] /\ ptdev_lock' = p
      /\ UNCHANGED <<entry, alloc, reserved, ir_table, iec, route, rsv, damaged>>
  BY DEF StartRemovePin
<1> QED BY <1>1, <1>3, <1>4, RemoveBegins

LEMMA AddIntxInv ==
  ASSUME Inv, NEW p \in Pcpu, NEW vm \in VM, NEW pin \in Pin, NEW g \in Gsi,
         ptirq_add_intx_remapping(p, vm, pin, g)
  PROVE  Keeps
<1>1. PICK x \in add_intx_remapping(vm, pin, g) : entry' = [entry EXCEPT ![x[1]] = x[2]]
  BY DEF ptirq_add_intx_remapping, Ready
<1>2. /\ op[p] = Idle /\ ~ Busy(g)
      /\ UNCHANGED <<ptdev_lock, op, alloc, reserved, ir_table, iec, route, rsv, damaged>>
  BY DEF ptirq_add_intx_remapping, Ready
<1>3. PICK i \in Slot, e \in EntryRec : x = <<i, e>> /\ Begins(i, e, g) BY <1>2, AddsIntx
<1>4. entry' = [entry EXCEPT ![i] = e] BY <1>1, <1>3
<1>5. op' = [op EXCEPT ![p] = Idle] BY <1>2, Types DEF Inv
<1>6. g # None BY IndexFacts DEF Source
<1> QED BY <1>2, <1>3, <1>4, <1>5, <1>6, Begin, Constants DEF Begins

\* A pin is programmed, or left alone, from its remapping entry as it is now.
LEMMA ActivateInv ==
  ASSUME Inv, NEW p \in Pcpu, NEW vm \in VM, NEW pin, NEW i \in Slot, NEW e \in EntryRec,
         NEW s \in Source, Begins(i, e, s), op[p] = Idle, entry' = [entry EXCEPT ![i] = e],
         activate_physical_ioapic(p, vm, i, e.irte, pin),
         UNCHANGED <<ptdev_lock, alloc, reserved, ir_table, iec, route, rsv, damaged>>
  PROVE  Keeps
<1>1. s # None BY IndexFacts
<1>2. CASE op' = [op EXCEPT ![p] = Idle] BY <1>1, <1>2, Begin, Constants DEF Begins
<1>3. CASE StartAssign(p, vm, i, e.irte)
  <2>1. e.irte \in Index \cup {INVALID_IRTE_ID} BY DEF EntryRec
  <2>2. PICK o \in OpRec : /\ op' = [op EXCEPT ![p] = o]
                          /\ o.pc = "assign" /\ o.slot = i /\ o.idx = e.irte
    BY <1>3, <2>1, StartAssignIs
  <2> QED BY <1>1, <2>2, Begin DEF Begins
<1> QED BY <1>2, <1>3 DEF activate_physical_ioapic

LEMMA RemapInv ==
  ASSUME Inv, NEW p \in Pcpu, NEW vm \in VM, NEW pin \in Pin, ptirq_intx_pin_remap(p, vm, pin)
  PROVE  Keeps
<1>1. PICK i \in ByVirt(pin, vm) :
        ~ Busy(entry[i].phys) /\ activate_physical_ioapic(p, vm, i, entry[i].irte, pin)
  BY DEF ptirq_intx_pin_remap, Ready
<1>2. /\ op[p] = Idle
      /\ UNCHANGED <<ptdev_lock, entry, alloc, reserved, ir_table, iec, route, rsv, damaged>>
  BY DEF ptirq_intx_pin_remap, Ready
<1>3. i \in Slot /\ entry[i].phys # None /\ entry[i].phys \in Source BY ByVirtUsed
<1>4. entry[i] \in EntryRec /\ entry' = [entry EXCEPT ![i] = entry[i]]
  BY <1>2, <1>3, Types DEF Inv
<1>5. Begins(i, entry[i], entry[i].phys) BY <1>1, <1>3, <1>4, Alone DEF Begins
<1> QED BY <1>1, <1>2, <1>3, <1>4, <1>5, ActivateInv

LEMMA PinAddInv ==
  ASSUME Inv, NEW p \in Pcpu, NEW pin \in Pin, ptirq_intx_pin_add(p, pin)
  PROVE  Keeps
<1>1. pin.gsi \in Gsi /\ pin.gsi \in Source BY DEF Pin, Source
<1>2. PICK x \in add_intx_remapping(SOS, pin, pin.gsi) :
        /\ entry' = [entry EXCEPT ![x[1]] = x[2]]
        /\ activate_physical_ioapic(p, SOS, x[1], x[2].irte, pin)
  BY DEF ptirq_intx_pin_add, Ready
<1>3. /\ op[p] = Idle /\ ~ Busy(pin.gsi)
      /\ UNCHANGED <<ptdev_lock, alloc, reserved, ir_table, iec, route, rsv, damaged>>
  BY DEF ptirq_intx_pin_add, Ready
<1>4. PICK i \in Slot, e \in EntryRec : x = <<i, e>> /\ Begins(i, e, pin.gsi)
  BY <1>1, <1>3, AddsIntx, IndexFacts
<1>5. entry' = [entry EXCEPT ![i] = e] /\ activate_physical_ioapic(p, SOS, i, e.irte, pin)
  BY <1>2, <1>4
<1> QED BY <1>1, <1>3, <1>4, <1>5, ActivateInv, IndexFacts

-----------------------------------------------------------------------------
\* A step that only moves pcpu p on in its operation.
LEMMA MovesInv ==
  ASSUME Inv, NEW p \in Pcpu, NEW pc,
         \/ op[p].pc = "write" /\ pc = "invalidate"
         \/ op[p].pc = "invalidate" /\ pc = "store"
         \/ op[p].pc = "clear" /\ pc = "flush"
         \/ op[p].pc = "flush" /\ pc = "free",
         Goto(p, pc), ir_table' \in [Index -> Irte], iec' \in [Index -> Irte],
         damaged' \in BOOLEAN, UNCHANGED <<ptdev_lock, entry, alloc, reserved, route, rsv>>
  PROVE  Inv'
<1>1. /\ entry \in [Slot -> EntryRec] /\ op \in [Pcpu -> OpRec]
      /\ LockHeld /\ OpsApart /\ OnePerSource /\ Exclusive /\ Allocated
      /\ \A q \in Pcpu : IndexHeld(q)
  BY Types DEF Inv
<1>2. /\ op' = [op EXCEPT ![p].pc = pc]
      /\ \A q \in Pcpu : /\ op'[q].slot = op[q].slot /\ op'[q].idx = op[q].idx
                         /\ op'[q].pc = IF q = p THEN pc ELSE op[q].pc
                         /\ q # p => op'[q] = op[q]
  BY <1>1 DEF Goto, OpRec
<1>3. op' \in [Pcpu -> OpRec]
  <2>1. [op[p] EXCEPT !.pc = pc] \in OpRec BY <1>1 DEF OpRec, AssignPc, FreePc
  <2> QED BY <1>1, <1>2, <2>1
<1>4. Held' = Held BY <1>2 DEF Held
<1>5. Programming' = Programming /\ Assigning' = Assigning
  BY <1>2 DEF Programming, Assigning, AssignPc
<1>6. TypeOK' BY <1>3 DEF Inv, TypeOK, OpRec
<1>7. LockHeld' BY <1>1, <1>2 DEF LockHeld, FreePc
<1>8. OpsApart' BY <1>1, <1>2 DEF OpsApart
<1>9. OnePerSource' BY <1>1 DEF OnePerSource
<1>10. \A q \in Pcpu : IndexHeld(q)' BY <1>1, <1>2 DEF IndexHeld, AssignPc, FreePc
<1>11. Exclusive' BY <1>1, <1>2, <1>4, <1>5 DEF Exclusive, Assigning
<1>12. Allocated' BY <1>1, <1>2, <1>4, <1>5 DEF Allocated, Aside, Programming
<1>13. Apart' BY <1>2, <1>4, <1>5 DEF Inv, Apart, Assigning
<1> QED BY <1>6, <1>7, <1>8, <1>9, <1>10, <1>11, <1>12, <1>13 DEF Inv

LEMMA WriteInv ==
  ASSUME Inv, NEW p \in Pcpu, WriteIrte(p)
  PROVE  Inv'
<1>1. /\ ir_table \in [Index -> Irte] /\ entry \in [Slot -> EntryRec] /\ op[p] \in OpRec
      /\ op[p].pc = "write" /\ op[p].slot \in Slot /\ OpsApart
  BY Types DEF Inv, OpsApart, WriteIrte
<1> DEFINE phys == entry[op[p].slot].phys
<1>2. phys \in Source BY <1>1 DEF OpsApart, EntryRec
<1>5. [present |-> TRUE, sid |-> Sid[phys], src |-> phys, vm |-> op[p].vm] \in Irte
  BY <1>1, <1>2 DEF Irte, OpRec
<1>3. ir_table' \in [Index -> Irte] BY <1>1, <1>5 DEF WriteIrte
<1>4. iec' \in [Index -> Irte] /\ damaged' \in BOOLEAN BY Types DEF Inv, WriteIrte
<1> QED BY <1>1, <1>3, <1>4, MovesInv DEF WriteIrte

LEMMA AbsentIs == Absent \in Irte
BY DEF Absent, Irte

LEMMA MayHitIs ==
  ASSUME Inv, NEW idx, MayHit(idx)
  PROVE  damaged' \in BOOLEAN
BY Types DEF Inv, MayHit

LEMMA ForgottenIs ==
  ASSUME Inv, NEW idx, dmar_invalid_iec(idx)
  PROVE  iec' \in [Index -> Irte]
BY Types, AbsentIs DEF Inv, dmar_invalid_iec

LEMMA ForgetInv ==
  ASSUME Inv, NEW p \in Pcpu, InvalidateIrte(p) \/ ClearIrte(p) \/ FlushIrte(p)
  PROVE  Inv'
<1>1. ir_table \in [Index -> Irte] /\ iec \in [Index -> Irte] /\ damaged \in BOOLEAN
  BY Types DEF Inv
<1>2. CASE InvalidateIrte(p)
  BY <1>1, <1>2, MovesInv, ForgottenIs DEF InvalidateIrte
<1>3. CASE ClearIrte(p)
  <2>1. ir_table' \in [Index -> Irte] /\ damaged' \in BOOLEAN
    BY <1>1, <1>3, AbsentIs, MayHitIs DEF ClearIrte
  <2> QED BY <1>1, <1>3, <2>1, MovesInv DEF ClearIrte
<1>4. CASE FlushIrte(p)
  BY <1>1, <1>4, MovesInv, ForgottenIs DEF FlushIrte
<1> QED BY <1>2, <1>3, <1>4

-----------------------------------------------------------------------------
\* Whatever is held or claimed is allocated.
LEMMA Claimed ==
  ASSUME Inv
  PROVE  /\ \A i \in Held : entry[i].irte \in alloc
         /\ \A p \in Assigning : op[p].idx \in alloc \cup {INVALID_IRTE_ID}
<1>1. LockHeld /\ OpsApart /\ Allocated /\ \A q \in Pcpu : IndexHeld(q) BY DEF Inv
<1>2. \A i \in Held : entry[i].irte \in alloc BY <1>1 DEF Allocated, Aside
<1>3. ASSUME NEW p \in Assigning, op[p].idx # INVALID_IRTE_ID PROVE op[p].idx \in alloc
  <2>1. op[p].pc \in AssignPc /\ p \in Pcpu BY <1>3 DEF Assigning
  <2>2. CASE p \in Programming BY <1>1, <1>3, <2>2 DEF Allocated, Aside
  <2>3. CASE p \notin Programming
    <3>1. op[p].pc = "assign" BY <2>1, <2>3 DEF Programming, AssignPc
    <3>2. CASE entry[op[p].slot].irte = INVALID_IRTE_ID
      BY <1>1, <1>3, <2>1, <3>1, <3>2 DEF IndexHeld, Allocated, Aside
    <3>3. CASE entry[op[p].slot].irte # INVALID_IRTE_ID
      <4>1. op[p].idx = entry[op[p].slot].irte
        BY <1>1, <2>1, <3>3 DEF IndexHeld
      <4>2. op[p].slot \in Slot /\ op[p].slot # 0 BY <1>1, <2>1, <3>1, IndexFacts DEF OpsApart
      <4>3. op[p].slot \in Held BY <1>1, <2>1, <3>1, <3>3, <4>2 DEF Held, OpsApart
      <4> QED BY <1>2, <4>1, <4>3
    <3> QED BY <3>2, <3>3
  <2> QED BY <2>2, <2>3
<1> QED BY <1>2, <1>3

LEMMA AllocInv ==
  ASSUME Inv, NEW p \in Pcpu, AllocIrte(p)
  PROVE  Keeps
<1>1. /\ entry \in [Slot -> EntryRec] /\ op \in [Pcpu -> OpRec]
      /\ alloc \subseteq Index
      /\ LockHeld /\ OpsApart /\ OnePerSource /\ Exclusive /\ Allocated
      /\ \A q \in Pcpu : IndexHeld(q)
  BY Types DEF Inv
<1> DEFINE idx == IF op[p].idx = INVALID_IRTE_ID THEN alloc_irtes(1) ELSE op[p].idx
           pc == IF idx = INVALID_IRTE_ID THEN "store" ELSE "write"
<1>2. /\ op[p].pc = "assign"
      /\ alloc' = IF idx = INVALID_IRTE_ID THEN alloc ELSE alloc \cup {idx}
      /\ op' = [op EXCEPT ![p].idx = idx, ![p].pc = pc]
      /\ UNCHANGED <<ptdev_lock, entry, reserved, ir_table, iec, route, rsv, damaged>>
  BY DEF AllocIrte
<1>3. /\ idx \in Index \cup {INVALID_IRTE_ID}
      /\ op[p].idx = INVALID_IRTE_ID /\ idx # INVALID_IRTE_ID => idx \notin alloc
  <2>1. CASE op[p].idx # INVALID_IRTE_ID BY <1>1, <2>1 DEF OpRec
  <2>2. CASE op[p].idx = INVALID_IRTE_ID
    <3>1. alloc_irtes(1) # INVALID_IRTE_ID =>
            alloc_irtes(1) \in Index /\ alloc_irtes(1) .. alloc_irtes(1) + 1 - 1 \subseteq Index \ alloc
      BY AllocFree
    <3>2. alloc_irtes(1) \in Index => alloc_irtes(1) \in alloc_irtes(1) .. alloc_irtes(1) + 1 - 1
      BY DEF Index
    <3> QED BY <2>2, <3>1, <3>2
  <2> QED BY <2>1, <2>2
<1> HIDE DEF idx
<1>4. /\ \A q \in Pcpu : op'[q].slot = op[q].slot /\ (q # p => op'[q] = op[q])
      /\ op'[p].idx = idx /\ op'[p].pc \in {"store", "write"}
      /\ op'[p].pc = "write" => idx # INVALID_IRTE_ID
      /\ op'[p].pc = "store" => idx = INVALID_IRTE_ID
  BY <1>1, <1>2 DEF OpRec
<1> HIDE DEF pc
<1>5. op' \in [Pcpu -> OpRec]
  <2>1. [op[p] EXCEPT !.idx = idx, !.pc = pc] \in OpRec
    BY <1>1, <1>3 DEF OpRec, AssignPc, FreePc, pc
  <2>2. op' = [op EXCEPT ![p] = [op[p] EXCEPT !.idx = idx, !.pc = pc]] BY <1>1, <1>2
  <2> QED BY <1>1, <2>1, <2>2
<1>6. Held' = Held BY <1>2, <1>4 DEF Held
<1>7. Programming' = Programming \cup {p} /\ Assigning' = Assigning /\ p \in Assigning
  BY <1>2, <1>4 DEF Programming, Assigning, AssignPc
<1>8. p \notin Programming BY <1>2 DEF Programming
<1>9. TypeOK'
  <2>1. alloc' \subseteq Index BY <1>1, <1>2, <1>3
  <2> QED BY <1>2, <1>5, <2>1 DEF Inv, TypeOK, OpRec
<1>10. LockHeld' BY <1>1, <1>2, <1>4 DEF LockHeld, FreePc
<1>11. OpsApart' BY <1>1, <1>2, <1>4 DEF OpsApart
<1>12. OnePerSource' BY <1>1, <1>2 DEF OnePerSource
<1>13. ASSUME NEW q \in Pcpu PROVE IndexHeld(q)'
  <2>1. CASE q # p BY <1>1, <1>2, <1>4, <2>1 DEF IndexHeld
  <2>2. CASE q = p
    <3>1. entry[op[p].slot].irte \in {INVALID_IRTE_ID, op[p].idx}
      BY <1>1, <1>2 DEF IndexHeld, AssignPc
    <3>2. entry[op[p].slot].irte \in {INVALID_IRTE_ID, idx} BY <3>1 DEF idx
    <3>3. /\ op'[q].slot = op[p].slot /\ op'[q].idx = idx /\ op'[q].pc \in {"store", "write"}
          /\ op'[q].pc = "write" => idx \in Index
          /\ entry' = entry
      BY <1>2, <1>3, <1>4, <2>2
    <3> QED BY <3>2, <3>3 DEF IndexHeld, AssignPc, FreePc
  <2> QED BY <2>1, <2>2
<1>14. Exclusive'
  <2>1. ASSUME NEW i \in Held, idx = entry[i].irte PROVE op[p].slot = i
    <3>1. entry[i].irte \in alloc /\ entry[i].irte # INVALID_IRTE_ID BY Claimed DEF Held
    <3>2. op[p].idx = idx BY <1>3, <2>1, <3>1 DEF idx
    <3> QED BY <1>1, <1>7, <2>1, <3>2 DEF Exclusive
  <2>2. ASSUME NEW q \in Assigning, q # p, op[q].idx = idx, idx \in Index PROVE FALSE
    <3>1. idx # INVALID_IRTE_ID /\ idx \in alloc BY <2>2, IndexFacts, Claimed
    <3>2. op[p].idx = idx BY <1>3, <3>1 DEF idx
    <3> QED BY <1>1, <1>7, <2>2, <3>2 DEF Exclusive
  <2>3. \A q \in Assigning' : \A i \in Held' : op'[q].idx = entry'[i].irte => op'[q].slot = i
    BY <1>1, <1>2, <1>4, <1>6, <1>7, <2>1 DEF Exclusive, Assigning
  <2>4. \A q, r \in Assigning' : op'[q].idx = op'[r].idx /\ op'[q].idx \in Index => q = r
    BY <1>1, <1>4, <1>7, <2>2 DEF Exclusive, Assigning
  <2> QED BY <1>1, <1>2, <1>6, <2>3, <2>4 DEF Exclusive
<1>15. Allocated'
  <2>1. \A q \in Programming : op'[q].idx = op[q].idx BY <1>4, <1>8 DEF Programming
  <2>2. {op'[q].idx : q \in Programming'} = {op[q].idx : q \in Programming} \cup {idx}
    BY <1>4, <1>7, <2>1
  <2>3. Aside' = Aside BY <1>2 DEF Aside
  <2> QED BY <1>1, <1>2, <1>6, <2>2, <2>3 DEF Allocated
<1>16. Marked' = Marked /\ \A q \in Marked : op'[q] = op[q]
  <2>1. p \notin Marked BY <1>2 DEF Marked
  <2>2. p \notin Marked' BY <1>3, <1>4, IndexFacts DEF Marked
  <2>3. \A q \in Pcpu : q \in Marked' <=> q \in Marked BY <1>4, <2>1, <2>2 DEF Marked
  <2>4. Marked \subseteq Pcpu /\ Marked' \subseteq Pcpu BY DEF Marked
  <2> QED BY <1>4, <2>1, <2>3, <2>4
<1>18. Apart'
  <2>1. \A q \in Assigning' : \/ q \in Assigning /\ op'[q].idx = op[q].idx
                              \/ op'[q].idx \in {INVALID_IRTE_ID} \cup (Index \ alloc)
    BY <1>3, <1>4, <1>7 DEF idx, Assigning
  <2> QED BY <1>2, <1>6, <2>1, ApartKept
<1>17. Inv' BY <1>9, <1>10, <1>11, <1>12, <1>13, <1>14, <1>15, <1>18 DEF Inv
<1>19. \A q \in Marked : SameUse(op[q].slot) BY <1>2 DEF SameUse
<1>20. \A i \in Held : SameUse(i) BY <1>2 DEF SameUse
<1> QED BY <1>2, <1>6, <1>16, <1>17, <1>19, <1>20 DEF Keeps

\* The index is written to the remapping entry, and the pcpu is done.
LEMMA StoreInv ==
  ASSUME Inv, NEW p \in Pcpu, StoreIrte(p)
  PROVE  /\ Inv'
         /\ Held' = Held \cup IF op[p].idx = INVALID_IRTE_ID THEN {} ELSE {op[p].slot}
<1> DEFINE i == op[p].slot
<1>1. /\ entry \in [Slot -> EntryRec] /\ op \in [Pcpu -> OpRec]
      /\ LockHeld /\ OpsApart /\ OnePerSource /\ Exclusive /\ Allocated
      /\ \A q \in Pcpu : IndexHeld(q)
  BY Types DEF Inv
<1>2. /\ op[p].pc = "store" /\ op' = [op EXCEPT ![p] = Idle]
      /\ entry' = [entry EXCEPT ![i].irte = op[p].idx]
      /\ UNCHANGED <<ptdev_lock, alloc, reserved, ir_table, iec, rsv, damaged>>
  BY DEF StoreIrte
<1>3. /\ i \in Slot /\ i # 0 /\ entry[i].phys # None /\ op[p].idx \in Index \cup {INVALID_IRTE_ID}
      /\ entry[i].irte \in {INVALID_IRTE_ID, op[p].idx}
  BY <1>1, <1>2, IndexFacts DEF OpsApart, OpRec, IndexHeld, AssignPc
<1> HIDE DEF i
<1>4. /\ op'[p] = Idle /\ op'[p].pc = "idle" /\ op'[p].slot = 0
      /\ \A q \in Pcpu : q # p => op'[q] = op[q] /\ op[q].slot # i
  BY <1>1, <1>2, <1>3, Constants DEF OpsApart, i
<1>5. \A j \in Slot : /\ entry'[j].phys = entry[j].phys
                      /\ entry'[j].irte = IF j = i THEN op[p].idx ELSE entry[j].irte
                      /\ j # i => entry'[j] = entry[j]
  BY <1>1, <1>2, <1>3 DEF EntryRec
<1>6. Held' = Held \cup IF op[p].idx = INVALID_IRTE_ID THEN {} ELSE {i}
  <2>1. ASSUME NEW j \in Slot, j # i PROVE j \in Held' <=> j \in Held
    <3>1. op[p].slot # j /\ op'[p].slot # j BY <1>4, <2>1, IndexFacts DEF i
    <3> QED BY <1>4, <1>5, <2>1, <3>1 DEF Held
  <2>2. i \in Held' <=> op[p].idx # INVALID_IRTE_ID
    BY <1>3, <1>4, <1>5 DEF Held
  <2>3. i \in Held => op[p].idx # INVALID_IRTE_ID BY <1>3 DEF Held
  <2>4. Held \subseteq Slot /\ Held' \subseteq Slot BY DEF Held
  <2> QED BY <1>3, <2>1, <2>2, <2>3, <2>4
<1>7. Programming' = Programming \ {p} /\ Assigning' = Assigning \ {p} /\ p \in Programming
      /\ p \in Assigning
  BY <1>2, <1>4 DEF Programming, Assigning, AssignPc
<1>8. TypeOK'
  <2>1. [entry[i] EXCEPT !.irte = op[p].idx] \in EntryRec BY <1>1, <1>3 DEF EntryRec
  <2>2. entry' \in [Slot -> EntryRec] BY <1>1, <1>2, <1>3, <2>1
  <2>3. op' \in [Pcpu -> OpRec] BY <1>1, <1>2, Constants
  <2>4. route' \in [Msi -> Index \cup {INVALID_IRTE_ID}]
    BY <1>3, Types DEF Inv, StoreIrte
  <2> QED BY <1>2, <2>2, <2>3, <2>4 DEF Inv, TypeOK, EntryRec, OpRec
<1>9. LockHeld' BY <1>1, <1>2, <1>4 DEF LockHeld, FreePc
<1>10. OpsApart' BY <1>1, <1>4, <1>5 DEF OpsApart
<1>11. OnePerSource' BY <1>1, <1>3, <1>5 DEF OnePerSource
<1>12. ASSUME NEW q \in Pcpu PROVE IndexHeld(q)'
  <2>1. CASE q = p BY <1>4, <2>1 DEF IndexHeld, AssignPc, FreePc
  <2>2. CASE q # p
    <3>1. op[q].pc # "idle" => op[q].slot \in Slot BY <1>1 DEF OpsApart
    <3>2. op'[q] = op[q] /\ (op[q].pc # "idle" => entry'[op[q].slot] = entry[op[q].slot])
      BY <1>4, <1>5, <2>2, <3>1
    <3> QED BY <1>1, <1>2, <3>2 DEF IndexHeld, AssignPc, FreePc
  <2> QED BY <2>1, <2>2
<1>13. Exclusive'
  <2>1. \A j \in Held : entry[j].irte = op[p].idx => j = i
    BY <1>1, <1>7 DEF Exclusive, i
  <2>2. \A j, k \in Held' : entry'[j].irte = entry'[k].irte => j = k
    BY <1>1, <1>3, <1>5, <1>6, <2>1 DEF Exclusive, Held
  <2>3. ASSUME NEW q \in Assigning', NEW j \in Held', op'[q].idx = entry'[j].irte
        PROVE  op'[q].slot = j
    <3>1. q # p /\ q \in Assigning /\ op'[q] = op[q] /\ q \in Pcpu
      BY <1>4, <1>7, <2>3 DEF Assigning
    <3>2. CASE j = i
      <4>1. op[q].idx = op[p].idx /\ op[p].idx \in Index
        BY <1>3, <1>5, <2>3, <3>1, <3>2 DEF Held
      <4> QED BY <1>1, <1>7, <3>1, <4>1 DEF Exclusive
    <3>3. CASE j # i BY <1>1, <1>5, <1>6, <2>3, <3>1, <3>3 DEF Exclusive, Held
    <3> QED BY <3>2, <3>3
  <2>4. \A q, r \in Assigning' : op'[q].idx = op'[r].idx /\ op'[q].idx \in Index => q = r
    BY <1>1, <1>4, <1>7 DEF Exclusive, Assigning
  <2> QED BY <2>2, <2>3, <2>4 DEF Exclusive
<1>14. Allocated'
  <2>1. {entry'[j].irte : j \in Held'} =
          {entry[j].irte : j \in Held} \cup ({op[p].idx} \ {INVALID_IRTE_ID})
    <3>1. \A j \in Held : j = i => entry[j].irte = op[p].idx BY <1>3 DEF Held
    <3>2. \A j \in Held : entry'[j].irte = entry[j].irte
      BY <1>5, <3>1 DEF Held
    <3>3. entry'[i].irte = op[p].idx BY <1>3, <1>5
    <3> QED BY <1>6, <3>2, <3>3
  <2>2. {op[q].idx : q \in Programming} = {op'[q].idx : q \in Programming'} \cup {op[p].idx}
    <3>1. \A q \in Programming \ {p} : op'[q].idx = op[q].idx BY <1>4 DEF Programming
    <3> QED BY <1>7, <3>1
  <2>3. Aside' = Aside BY <1>2 DEF Aside
  <2> QED BY <1>1, <1>2, <2>1, <2>2, <2>3 DEF Allocated
<1>16. Apart'
  <2>1. \A q \in Assigning' : q \in Assigning /\ op'[q] = op[q] BY <1>4, <1>7 DEF Assigning
  <2>2. ASSUME NEW j \in Held'
        PROVE  (\E k \in Held : entry'[j].irte = entry[k].irte) \/ entry'[j].irte = op[p].idx
    <3>1. j \in Slot BY DEF Held
    <3> QED BY <1>5, <1>6, <2>2, <3>1
  <2> QED BY <1>2, <1>7, <2>1, <2>2, ApartKept
<1>15. Inv' BY <1>8, <1>9, <1>10, <1>11, <1>12, <1>13, <1>14, <1>16 DEF Inv
<1> QED BY <1>6, <1>15 DEF i

LEMMA FreeInv ==
  ASSUME Inv, NEW p \in Pcpu, FreeIrte(p)
  PROVE  Inv' /\ Held' = Held \ {op[p].slot}
<1> DEFINE i == op[p].slot
           idx == op[p].idx
<1>1. /\ entry \in [Slot -> EntryRec] /\ op \in [Pcpu -> OpRec] /\ alloc \subseteq Index
      /\ LockHeld /\ OpsApart /\ OnePerSource /\ Exclusive /\ Allocated
      /\ \A q \in Pcpu : IndexHeld(q)
  BY Types DEF Inv
<1>2. /\ op[p].pc = "free" /\ op' = [op EXCEPT ![p].pc = "release"]
      /\ alloc' = IF idx \in reserved THEN alloc ELSE alloc \ {idx}
      /\ UNCHANGED <<ptdev_lock, entry, reserved, ir_table, iec, route, rsv>>
      /\ damaged' \in BOOLEAN
  BY MayHitIs DEF FreeIrte, Goto
<1>3. /\ i \in Slot /\ i # 0 /\ entry[i].irte = idx /\ idx \in Index \cup {INVALID_IRTE_ID}
      /\ INVALID_IRTE_ID \notin Index
  BY <1>1, <1>2, IndexFacts DEF OpsApart, IndexHeld, FreePc, OpRec
<1> HIDE DEF i, idx
<1>4. \A q \in Pcpu : /\ op'[q].slot = op[q].slot /\ op'[q].idx = op[q].idx
                      /\ op'[q].pc = IF q = p THEN "release" ELSE op[q].pc
                      /\ q # p => op'[q] = op[q] /\ op[q].slot # i
  BY <1>1, <1>2, <1>3 DEF OpRec, OpsApart, i
<1>5. (idx \in Index <=> i \in Held) /\ Held' = Held \ {i}
  <2>1. idx \in Index <=> i \in Held BY <1>2, <1>3, <1>4 DEF Held
  <2>2. i \notin Held'
    <3>1. op'[p].slot = i /\ op'[p].pc = "release" BY <1>4 DEF i
    <3> QED BY <3>1 DEF Held
  <2>3. ASSUME NEW j \in Slot, j # i PROVE j \in Held' <=> j \in Held
    <3>1. op[p].slot # j /\ op'[p].slot # j BY <1>4, <2>3 DEF i
    <3> QED BY <1>2, <1>4, <2>3, <3>1 DEF Held
  <2>4. Held \subseteq Slot /\ Held' \subseteq Slot BY DEF Held
  <2> QED BY <2>1, <2>2, <2>3, <2>4
<1>6. Programming' = Programming /\ Assigning' = Assigning
  BY <1>2, <1>4 DEF Programming, Assigning, AssignPc
<1>7. idx \in Index => \A q \in Assigning : op[q].idx # idx
  <2>1. \A q \in Assigning : q \in Pcpu /\ op[q].slot # i
    BY <1>2, <1>4 DEF Assigning, AssignPc
  <2> QED BY <1>1, <1>3, <1>5, <2>1 DEF Exclusive
<1>8. TypeOK'
  <2>1. [op[p] EXCEPT !.pc = "release"] \in OpRec BY <1>1 DEF OpRec, FreePc
  <2>2. op' \in [Pcpu -> OpRec] BY <1>1, <1>2, <2>1
  <2>3. alloc' \subseteq Index BY <1>1, <1>2
  <2> QED BY <1>2, <2>2, <2>3 DEF Inv, TypeOK, OpRec
<1>9. LockHeld' BY <1>1, <1>2, <1>4 DEF LockHeld, FreePc
<1>10. OpsApart' BY <1>1, <1>2, <1>4 DEF OpsApart
<1>11. OnePerSource' BY <1>1, <1>2 DEF OnePerSource
<1>12. \A q \in Pcpu : IndexHeld(q)' BY <1>1, <1>2, <1>4 DEF IndexHeld, AssignPc, FreePc
<1>13. Exclusive' BY <1>1, <1>2, <1>4, <1>5, <1>6 DEF Exclusive, Assigning
<1>14. Allocated'
  <2>1. {entry[j].irte : j \in Held'} = {entry[j].irte : j \in Held} \ {idx}
    <3>1. \A j \in Held : entry[j].irte # INVALID_IRTE_ID BY DEF Held
    <3> QED BY <1>1, <1>3, <1>5, <3>1 DEF Exclusive
  <2>2. {op'[q].idx : q \in Programming'} = {op[q].idx : q \in Programming}
    BY <1>4, <1>6 DEF Programming
  <2>3. idx \notin {op[q].idx : q \in Programming} \ {INVALID_IRTE_ID}
    BY <1>3, <1>7 DEF Programming, Assigning, AssignPc
  <2> DEFINE I == {entry[j].irte : j \in Held}
             J == {op[q].idx : q \in Programming}
  <2>4. alloc = reserved \cup Aside \cup I \cup (J \ {INVALID_IRTE_ID}) BY <1>1 DEF Allocated
  <2>7. idx \notin Aside /\ Aside' = Aside
    <3>1. \A q \in Pcpu : rsv[q].block \subseteq Index BY Types DEF Inv, RsvRec
    <3> QED BY <1>2, <1>3, <1>5, <3>1 DEF Inv, Apart, Aside
  <2>5. {entry'[j].irte : j \in Held'} = I \ {idx} BY <1>2, <2>1
  <2> HIDE DEF I, J
  <2>6. alloc' = reserved \cup Aside \cup (I \ {idx}) \cup (J \ {INVALID_IRTE_ID})
    BY <1>2, <2>3, <2>4, <2>7 DEF J
  <2> QED BY <1>2, <2>2, <2>5, <2>6, <2>7 DEF Allocated, J
<1>16. Apart'
  <2>1. \A q \in Assigning' : q \in Assigning /\ op'[q].idx = op[q].idx
    BY <1>4, <1>6 DEF Assigning
  <2> QED BY <1>2, <1>5, <2>1, ApartKept
<1>15. Inv' BY <1>8, <1>9, <1>10, <1>11, <1>12, <1>13, <1>14, <1>16 DEF Inv
<1> QED BY <1>5, <1>15 DEF i

\* The remapping entry becomes e, which has no index, and ptdev_lock is released.
LEMMA ReleaseTo ==
  ASSUME Inv, NEW p \in Pcpu, op[p].pc = "release", NEW i \in Slot, i = op[p].slot,
         NEW e \in EntryRec, NEW o \in OpRec, e.irte = INVALID_IRTE_ID,
         entry' = [entry EXCEPT ![i] = e], op' = [op EXCEPT ![p] = o], ptdev_lock' = None,
         UNCHANGED <<alloc, reserved, ir_table, iec, route, rsv, damaged>>,
         \/ e = Free /\ o = Idle
         \/ /\ e.phys = entry[i].phys
            /\ \/ o = Idle
               \/ o.pc = "assign" /\ o.slot = i /\ o.idx = INVALID_IRTE_ID
  PROVE  Keeps
<1>1. /\ entry \in [Slot -> EntryRec] /\ op \in [Pcpu -> OpRec]
      /\ LockHeld /\ OpsApart /\ OnePerSource /\ Exclusive /\ Allocated
      /\ \A q \in Pcpu : IndexHeld(q)
  BY Types DEF Inv
<1>2. entry[i].phys # None /\ i # 0 BY <1>1, IndexFacts DEF OpsApart
<1>3. /\ op'[p] = o /\ o.pc \in {"idle", "assign"} /\ o.slot \in {0, i}
      /\ o.pc = "idle" => o = Idle
      /\ o.pc = "assign" => o.slot = i /\ o.idx = INVALID_IRTE_ID /\ e.phys # None
      /\ \A q \in Pcpu : q # p => op'[q] = op[q] /\ op[q].slot # i
  <2>1. o.pc \in {"idle", "assign"} /\ o.slot \in {0, i} /\ (o.pc = "idle" => o = Idle)
    BY Constants
  <2>2. o.pc = "assign" => o.slot = i /\ o.idx = INVALID_IRTE_ID /\ e.phys # None
    BY <1>2, Constants
  <2>3. \A q \in Pcpu : q # p => op'[q] = op[q] /\ op[q].slot # i
    BY <1>1, <1>2 DEF OpsApart
  <2> QED BY <1>1, <2>1, <2>2, <2>3
<1>4. \A j \in Slot : entry'[j] = IF j = i THEN e ELSE entry[j] BY <1>1
<1>5. Held' = Held
  <2>1. ASSUME NEW j \in Slot, j # i PROVE j \in Held' <=> j \in Held
    <3>1. (op[p].slot # j /\ op'[p].slot # j) \/ op'[p] = Idle BY <1>3, <2>1
    <3> QED BY <1>3, <1>4, <2>1, <3>1, Constants DEF Held
  <2>2. i \notin Held /\ i \notin Held' BY <1>4 DEF Held
  <2>3. Held \subseteq Slot /\ Held' \subseteq Slot BY DEF Held
  <2> QED BY <2>1, <2>2, <2>3
<1>6. Programming' = Programming /\ p \notin Programming
  <2>1. p \notin Programming /\ p \notin Programming' BY <1>3 DEF Programming
  <2>2. \A q \in Pcpu \ {p} : q \in Programming' <=> q \in Programming
    BY <1>3 DEF Programming
  <2>3. Programming \subseteq Pcpu /\ Programming' \subseteq Pcpu BY DEF Programming
  <2> QED BY <2>1, <2>2, <2>3
<1>7. TypeOK'
  <2>1. entry' \in [Slot -> EntryRec] /\ op' \in [Pcpu -> OpRec] BY <1>1
  <2> QED BY <2>1 DEF Inv, TypeOK, EntryRec, OpRec
<1>8. LockHeld' BY <1>1, <1>3, IndexFacts DEF LockHeld, FreePc
<1>9. OpsApart'
  <2>1. ASSUME NEW q \in Pcpu
        PROVE  IF op'[q].pc = "idle" THEN op'[q] = Idle
               ELSE op'[q].slot \in Slot /\ entry'[op'[q].slot].phys # None
    <3>1. CASE q # p BY <1>1, <1>3, <1>4, <3>1 DEF OpsApart
    <3>2. CASE q = p BY <1>3, <1>4, <3>2
    <3> QED BY <3>1, <3>2
  <2>2. \A q, r \in Pcpu : op'[q].slot = op'[r].slot /\ op'[q].slot # 0 => q = r
    BY <1>1, <1>3 DEF OpsApart
  <2> QED BY <2>1, <2>2 DEF OpsApart
<1>10. OnePerSource'
  <2>1. \A j, k \in Slot : entry'[j].phys = entry'[k].phys /\ entry'[j].phys # None => j = k
    BY <1>1, <1>4, Constants DEF OnePerSource
  <2>2. \A j \in Slot : entry'[j].phys = None => entry'[j] = Free
    BY <1>1, <1>2, <1>4 DEF OnePerSource
  <2> QED BY <2>1, <2>2 DEF OnePerSource
<1>11. ASSUME NEW q \in Pcpu PROVE IndexHeld(q)'
  <2>1. CASE q # p
    <3>1. op[q].pc # "idle" => op[q].slot \in Slot BY <1>1 DEF OpsApart
    <3>2. op'[q] = op[q] /\ (op[q].pc # "idle" => entry'[op[q].slot] = entry[op[q].slot])
      BY <1>3, <1>4, <2>1, <3>1
    <3> QED BY <1>1, <3>2 DEF IndexHeld, AssignPc, FreePc
  <2>2. CASE q = p
    <3>1. /\ op'[q].pc \in {"idle", "assign"}
          /\ op'[q].pc = "assign" => op'[q].idx = INVALID_IRTE_ID
                                     /\ entry'[op'[q].slot].irte = INVALID_IRTE_ID
      BY <1>3, <1>4, <2>2
    <3> QED BY <3>1 DEF IndexHeld, AssignPc, FreePc
  <2> QED BY <2>1, <2>2
<1>12. Exclusive'
  <2>1. \A j \in Held : entry'[j].irte = entry[j].irte /\ entry[j].irte # INVALID_IRTE_ID
    BY <1>4, <1>5 DEF Held
  <2>2. \A j, k \in Held' : entry'[j].irte = entry'[k].irte => j = k
    BY <1>1, <1>5, <2>1 DEF Exclusive
  <2>3. ASSUME NEW q \in Assigning'
        PROVE  \/ q = p /\ op'[q].idx = INVALID_IRTE_ID
               \/ q \in Assigning /\ op'[q] = op[q]
    <3>1. q \in Pcpu /\ op'[q].pc \in AssignPc BY DEF Assigning
    <3>2. CASE q = p BY <1>3, <3>1, <3>2 DEF AssignPc
    <3>3. CASE q # p BY <1>3, <3>1, <3>3 DEF Assigning
    <3> QED BY <3>2, <3>3
  <2>4. \A q \in Assigning' : \A j \in Held' : op'[q].idx = entry'[j].irte => op'[q].slot = j
    BY <1>1, <1>5, <2>1, <2>3 DEF Exclusive
  <2>5. \A q, r \in Assigning' : op'[q].idx = op'[r].idx /\ op'[q].idx \in Index => q = r
    BY <1>1, <2>3, IndexFacts DEF Exclusive
  <2> QED BY <2>2, <2>4, <2>5 DEF Exclusive
<1>13. Allocated'
  <2>1. \A j \in Held : entry'[j].irte = entry[j].irte BY <1>4, <1>5 DEF Held
  <2>2. \A q \in Programming : op'[q].idx = op[q].idx BY <1>3, <1>6 DEF Programming
  <2>3. {entry'[j].irte : j \in Held'} = {entry[j].irte : j \in Held} BY <1>5, <2>1
  <2>4. {op'[q].idx : q \in Programming'} = {op[q].idx : q \in Programming} BY <1>6, <2>2
  <2>5. Aside' = Aside BY DEF Aside
  <2> QED BY <1>1, <2>3, <2>4, <2>5 DEF Allocated
<1>14. Marked' = Marked /\ \A q \in Marked : op'[q] = op[q] /\ entry'[op[q].slot] = entry[op[q].slot]
  <2>1. p \notin Marked /\ p \notin Marked' BY <1>3 DEF Marked
  <2>2. \A q \in Marked : op[q].slot \in Slot BY <1>1 DEF Marked, OpsApart
  <2>3. \A q \in Pcpu : q \in Marked' <=> q \in Marked BY <1>3, <2>1 DEF Marked
  <2>4. Marked \subseteq Pcpu /\ Marked' \subseteq Pcpu BY DEF Marked
  <2> QED BY <1>3, <1>4, <2>1, <2>2, <2>3, <2>4
<1>15. \A j \in Held : entry'[j] = entry[j] BY <1>4, <1>5 DEF Held
<1>17. Apart'
  <2>1. \A q \in Assigning' : \/ q \in Assigning /\ op'[q].idx = op[q].idx
                              \/ op'[q].idx = INVALID_IRTE_ID
    <3>1. \A q \in Assigning' : q # p => q \in Assigning /\ op'[q] = op[q]
      BY <1>3 DEF Assigning
    <3>2. p \in Assigning' => op'[p].idx = INVALID_IRTE_ID BY <1>3 DEF Assigning, AssignPc
    <3> QED BY <3>1, <3>2
  <2> QED BY <1>5, <1>15, <2>1, ApartKept
<1>16. Inv' BY <1>7, <1>8, <1>9, <1>10, <1>11, <1>12, <1>13, <1>17 DEF Inv
<1> QED BY <1>5, <1>14, <1>15, <1>16 DEF Keeps, SameUse

LEMMA ReleaseInv ==
  ASSUME Inv, NEW p \in Pcpu, Release(p)
  PROVE  Keeps
<1> DEFINE i == op[p].slot
           new == NewEntry(SOS, entry[i].phys, op[p].pin)
<1>1. /\ op[p].pc = "release" /\ ptdev_lock' = None
      /\ UNCHANGED <<alloc, reserved, ir_table, iec, route, rsv, damaged>>
  BY DEF Release
<1>2. i \in Slot /\ entry[i].phys # None BY <1>1, IndexFacts DEF Inv, OpsApart
<1>3. entry[i] \in EntryRec /\ op[p] \in OpRec /\ op \in [Pcpu -> OpRec]
  BY <1>2, Types DEF Inv
<1>4. CASE op[p].pin = None
  <2>1. entry' = [entry EXCEPT ![i] = Free] /\ op' = [op EXCEPT ![p] = Idle]
    BY <1>4 DEF Release
  <2> QED BY <1>1, <1>2, <2>1, ReleaseTo, Constants
<1>5. CASE op[p].pin # None
  <2>1. /\ entry' = [entry EXCEPT ![i] = new]
        /\ activate_physical_ioapic(p, SOS, i, INVALID_IRTE_ID, op[p].pin)
    BY <1>5 DEF Release
  <2>2. /\ new \in EntryRec /\ new.irte = INVALID_IRTE_ID /\ new.phys = entry[i].phys
    BY <1>3, <1>5, IndexFacts DEF NewEntry, Free, EntryRec, OpRec
  <2> PICK e \in EntryRec : e = new BY <2>2
  <2> HIDE DEF new
  <2>3. CASE op' = [op EXCEPT ![p] = Idle]
    BY <1>1, <1>2, <2>1, <2>2, <2>3, ReleaseTo, Constants
  <2>4. CASE StartAssign(p, SOS, i, INVALID_IRTE_ID)
    <3> HIDE DEF i
    <3> DEFINE o == [Idle EXCEPT !.pc = "assign", !.vm = SOS, !.slot = i, !.idx = INVALID_IRTE_ID]
    <3>1. /\ op' = [op EXCEPT ![p] = o] /\ o \in OpRec
          /\ o.pc = "assign" /\ o.slot = i /\ o.idx = INVALID_IRTE_ID
      BY <1>2, <2>4, IndexFacts DEF StartAssign, Idle, OpRec, AssignPc
    <3> HIDE DEF o
    <3>2. /\ e.irte = INVALID_IRTE_ID /\ e.phys = entry[i].phys
          /\ entry' = [entry EXCEPT ![i] = e]
      BY <2>1, <2>2
    <3> QED BY <1>1, <1>2, <3>1, <3>2, ReleaseTo DEF i
  <2> QED BY <2>1, <2>3, <2>4 DEF activate_physical_ioapic
<1> QED BY <1>4, <1>5

-----------------------------------------------------------------------------
\* A step of dmar_reserve_irte that keeps what is held and claimed.
LEMMA ReservesInv ==
  ASSUME Inv, UNCHANGED <<ptdev_lock, entry, op, ir_table, iec, route>>,
         rsv' \in [Pcpu -> RsvRec], alloc' \subseteq Index, reserved' \subseteq Index,
         damaged' \in BOOLEAN, Apart', reserved \subseteq reserved',
         alloc' \ alloc = (reserved' \cup Aside') \ (reserved \cup Aside),
         alloc \subseteq alloc', reserved \cup Aside \subseteq reserved' \cup Aside'
  PROVE  Inv'
<1>1. Held' = Held /\ Programming' = Programming /\ Assigning' = Assigning
  BY DEF Held, Programming, Assigning
<1>2. TypeOK' BY DEF Inv, TypeOK, RsvRec
<1>3. LockHeld' /\ OpsApart' /\ OnePerSource' /\ Exclusive'
  BY <1>1 DEF Inv, LockHeld, OpsApart, OnePerSource, Exclusive
<1>4. \A q \in Pcpu : IndexHeld(q)' BY DEF Inv, IndexHeld
<1>5. Allocated'
  <2> DEFINE Rest == {entry[i].irte : i \in Held}
                       \cup ({op[p].idx : p \in Programming} \ {INVALID_IRTE_ID})
  <2>1. Rest' = Rest BY <1>1
  <2>2. alloc = reserved \cup Aside \cup Rest BY DEF Inv, Allocated
  <2> HIDE DEF Rest
  <2>3. alloc' = reserved' \cup Aside' \cup Rest BY <2>2
  <2>4. alloc' = reserved' \cup Aside' \cup Rest' BY <2>1, <2>3
  <2> QED BY <2>4 DEF Allocated, Rest
<1> QED BY <1>2, <1>3, <1>4, <1>5 DEF Inv

LEMMA AllocBlockInv ==
  ASSUME Inv, NEW p \in Pcpu, NEW num \in {1, 2}, AllocBlock(p, num)
  PROVE  Inv'
<1> DEFINE block == alloc_irtes(num) .. alloc_irtes(num) + num - 1
           new == [pc |-> "allocated", block |-> block, seen |-> {}]
<1>1. /\ alloc' = alloc \cup block /\ rsv' = [rsv EXCEPT ![p] = new]
      /\ rsv[p] = NotReserving
      /\ UNCHANGED <<ptdev_lock, entry, op, reserved, ir_table, iec, route, damaged>>
      /\ block \subseteq Index \ alloc
  BY AllocFree DEF AllocBlock, Ready
<1> HIDE DEF block
<1>2. /\ rsv \in [Pcpu -> RsvRec] /\ alloc \subseteq Index /\ reserved \subseteq Index
      /\ damaged \in BOOLEAN
  BY Types DEF Inv
<1>3. new \in RsvRec BY <1>1 DEF RsvRec
<1>4. \A q \in Pcpu : rsv'[q] = IF q = p THEN new ELSE rsv[q] BY <1>1, <1>2
<1>5. Aside' = Aside \cup block
  <2>1. new.block = block /\ rsv[p].block = {} BY <1>1 DEF NotReserving
  <2> HIDE DEF new
  <2> QED BY <1>4, <2>1 DEF Aside
<1>6. Apart'
  <2>1. reserved \subseteq alloc /\ \A q \in Pcpu : rsv[q].block \subseteq alloc
    BY DEF Inv, Allocated, Aside
  <2>2. Held' = Held /\ Assigning' = Assigning BY <1>1 DEF Held, Assigning
  <2>3. \A i \in Held : entry[i].irte \notin block BY <1>1, Claimed
  <2>4. \A q \in Assigning : op[q].idx \notin block BY <1>1, Claimed, IndexFacts
  <2>5. new.block = block /\ new.seen = {} OBVIOUS
  <2> HIDE DEF new
  <2>6. Apart BY DEF Inv
  <2>7. \A q, u \in Pcpu : q # u => rsv'[q].block \cap rsv'[u].block = {}
    BY <1>1, <1>4, <2>1, <2>5, <2>6 DEF Apart
  <2>8. ASSUME NEW q \in Pcpu
        PROVE  /\ rsv'[q].block \cap reserved = {} /\ rsv'[q].seen \subseteq reserved
               /\ \A i \in Held : entry[i].irte \notin rsv'[q].block
               /\ \A u \in Assigning : op[u].idx \notin rsv'[q].block
    <3>1. CASE q = p BY <1>1, <1>4, <2>1, <2>3, <2>4, <2>5, <3>1
    <3>2. CASE q # p BY <1>4, <2>6, <3>2 DEF Apart
    <3> QED BY <3>1, <3>2
  <2> QED BY <1>1, <2>2, <2>7, <2>8 DEF Apart
<1>7. rsv' \in [Pcpu -> RsvRec] BY <1>1, <1>2, <1>3
<1>8. Aside \subseteq alloc /\ reserved \subseteq alloc BY DEF Inv, Allocated
<1>9. /\ alloc' \ alloc = (reserved' \cup Aside') \ (reserved \cup Aside)
      /\ alloc \subseteq alloc' /\ reserved \cup Aside \subseteq reserved' \cup Aside'
      /\ alloc' \subseteq Index /\ reserved' \subseteq Index /\ reserved \subseteq reserved'
  BY <1>1, <1>2, <1>5, <1>8
<1>10. /\ UNCHANGED <<ptdev_lock, entry, op, ir_table, iec, route>>
       /\ damaged' \in BOOLEAN
  BY <1>1, <1>2
<1> QED BY <1>6, <1>7, <1>9, <1>10, ReservesInv

LEMMA LoadReservedInv ==
  ASSUME Inv, NEW p \in Pcpu, LoadReserved(p)
  PROVE  Inv'
<1>1. /\ rsv' = [rsv EXCEPT ![p].pc = "loaded", ![p].seen = reserved]
      /\ UNCHANGED <<ptdev_lock, entry, op, alloc, reserved, ir_table, iec, route, damaged>>
  BY DEF LoadReserved
<1>2. /\ rsv \in [Pcpu -> RsvRec] /\ alloc \subseteq Index /\ reserved \subseteq Index
      /\ damaged \in BOOLEAN /\ Apart
  BY Types DEF Inv
<1>3. /\ rsv' \in [Pcpu -> RsvRec]
      /\ \A q \in Pcpu : rsv'[q].block = rsv[q].block /\ rsv'[q].seen \in {rsv[q].seen, reserved}
  BY <1>1, <1>2 DEF RsvRec
<1>4. Aside' = Aside BY <1>3 DEF Aside
<1>5. Held' = Held /\ Assigning' = Assigning BY <1>1 DEF Held, Assigning
<1>6. Apart' BY <1>1, <1>2, <1>3, <1>5 DEF Apart
<1>7. /\ alloc' = alloc /\ reserved' = reserved /\ damaged' = damaged
      /\ UNCHANGED <<ptdev_lock, entry, op, ir_table, iec, route>>
  BY <1>1
<1> QED BY <1>2, <1>3, <1>4, <1>6, <1>7, ReservesInv

\* The |= of dmar_reserve_irte, when it loses no bit.
LEMMA StoreReservedInv ==
  ASSUME Inv, NEW p \in Pcpu, StoreReserved(p), ~ damaged'
  PROVE  Inv'
<1> DEFINE block == rsv[p].block
<1>1. /\ reserved' = rsv[p].seen \cup block /\ reserved \subseteq rsv[p].seen \cup block
      /\ rsv' = [rsv EXCEPT ![p] = NotReserving]
      /\ UNCHANGED <<ptdev_lock, entry, op, alloc, ir_table, iec, route>>
  BY DEF StoreReserved
<1>2. /\ rsv \in [Pcpu -> RsvRec] /\ alloc \subseteq Index /\ reserved \subseteq Index
      /\ Apart /\ block \subseteq Index
  BY Types DEF Inv, RsvRec
<1>3. reserved' = reserved \cup block BY <1>1, <1>2 DEF Apart
<1> HIDE DEF block
<1>4. NotReserving \in RsvRec /\ NotReserving.block = {} /\ NotReserving.seen = {}
  BY DEF NotReserving, RsvRec
<1>5. /\ rsv' \in [Pcpu -> RsvRec]
      /\ \A q \in Pcpu : rsv'[q] = IF q = p THEN NotReserving ELSE rsv[q]
  BY <1>1, <1>2, <1>4
<1>6. reserved' \cup Aside' = reserved \cup Aside
  <2>1. Aside' \cup block = Aside BY <1>4, <1>5 DEF Aside, block
  <2> QED BY <1>3, <2>1
<1>7. Held' = Held /\ Assigning' = Assigning BY <1>1 DEF Held, Assigning
<1>8. Apart'
  <2>1. \A q, u \in Pcpu : q # u => rsv'[q].block \cap rsv'[u].block = {}
    BY <1>2, <1>4, <1>5 DEF Apart
  <2>2. ASSUME NEW q \in Pcpu
        PROVE  /\ rsv'[q].block \cap reserved' = {} /\ rsv'[q].seen \subseteq reserved'
               /\ \A i \in Held : entry[i].irte \notin rsv'[q].block
               /\ \A u \in Assigning : op[u].idx \notin rsv'[q].block
    <3>1. CASE q = p BY <1>4, <1>5, <3>1
    <3>2. CASE q # p
      <4>1. rsv'[q] = rsv[q] /\ rsv[q].block \cap block = {}
        BY <1>2, <1>5, <3>2 DEF Apart, block
      <4> QED BY <1>2, <1>3, <4>1 DEF Apart
    <3> QED BY <3>1, <3>2
  <2> QED BY <1>1, <1>7, <2>1, <2>2 DEF Apart
<1>9. damaged' \in BOOLEAN
  <2>1. damaged' = (damaged \/ ~ reserved \subseteq rsv[p].seen \cup rsv[p].block)
    BY DEF StoreReserved
  <2> QED BY <2>1, Zenon
<1>10. /\ alloc' = alloc /\ reserved \subseteq reserved' /\ reserved' \subseteq Index
       /\ UNCHANGED <<ptdev_lock, entry, op, ir_table, iec, route>>
  BY <1>1, <1>2, <1>3
<1> QED BY <1>2, <1>5, <1>6, <1>8, <1>9, <1>10, ReservesInv

LEMMA ReserveInv ==
  ASSUME Inv, NEW p \in Pcpu, dmar_reserve_irte(p), ~ damaged'
  PROVE  Inv'
BY AllocBlockInv, LoadReservedInv, StoreReservedInv DEF dmar_reserve_irte

\* What is in the tables of the unit alone does not matter.
LEMMA UnitInv ==
  ASSUME Inv, iec' \in [Index -> Irte],
         UNCHANGED <<ptdev_lock, entry, op, alloc, reserved, ir_table, route, rsv, damaged>>
  PROVE  Inv'
<1>1. Held' = Held /\ Programming' = Programming /\ Assigning' = Assigning
  BY DEF Held, Programming, Assigning
<1>2. TypeOK' BY DEF Inv, TypeOK
<1>3. LockHeld' /\ OpsApart' /\ OnePerSource' /\ Exclusive'
  BY <1>1 DEF Inv, LockHeld, OpsApart, OnePerSource, Exclusive
<1>4. \A q \in Pcpu : IndexHeld(q)' BY DEF Inv, IndexHeld
<1>5. Allocated' BY <1>1 DEF Inv, Allocated, Aside
<1>6. Apart' BY <1>1 DEF Inv, Apart
<1> QED BY <1>2, <1>3, <1>4, <1>5, <1>6 DEF Inv

LEMMA FetchInv ==
  ASSUME Inv, NEW idx \in Index, Fetch(idx)
  PROVE  Inv'
<1>1. iec' \in [Index -> Irte] BY Types DEF Inv, Fetch
<1> QED BY <1>1, UnitInv DEF Fetch

LEMMA InitInv == Init => Inv
<1> SUFFICES ASSUME Init PROVE Inv OBVIOUS
<1>1. /\ \A i \in Slot : entry[i] = Free
      /\ \A p \in Pcpu : op[p] = Idle
      /\ \A p \in Pcpu : rsv[p] = NotReserving
      /\ ptdev_lock = None /\ alloc = {} /\ reserved = {}
  BY DEF Init
<1>2. Held = {} /\ Programming = {} /\ Assigning = {}
  BY <1>1, Constants DEF Held, Programming, Assigning, AssignPc
<1>3. TypeOK
  <2>1. entry \in [Slot -> EntryRec] /\ op \in [Pcpu -> OpRec] BY Constants DEF Init
  <2>2. rsv \in [Pcpu -> RsvRec] BY DEF Init, NotReserving, RsvRec
  <2> QED BY <2>1, <2>2, AbsentIs DEF Init, TypeOK, EntryRec, OpRec, RsvRec
<1>4. LockHeld BY <1>1, IndexFacts, Constants DEF LockHeld, FreePc
<1>5. OpsApart BY <1>1, Constants DEF OpsApart
<1>6. OnePerSource BY <1>1, Constants DEF OnePerSource
<1>7. \A p \in Pcpu : IndexHeld(p) BY <1>1, Constants DEF IndexHeld, AssignPc, FreePc
<1>9. NotReserving.block = {} /\ NotReserving.seen = {} BY DEF NotReserving
<1>10. Aside = {} BY <1>1, <1>9 DEF Aside
<1>8. Exclusive /\ Allocated /\ Apart BY <1>1, <1>2, <1>9, <1>10 DEF Exclusive, Allocated, Apart
<1> QED BY <1>3, <1>4, <1>5, <1>6, <1>7, <1>8 DEF Inv

LEMMA PinOperationInv ==
  ASSUME Inv, NEW p \in Pcpu, NEW vm \in VM, PinOperation(p, vm)
  PROVE  Keeps
<1>1. PICK pin \in Pin :
        \/ ptirq_intx_pin_remap(p, vm, pin)
        \/ ptirq_remove_intx_remapping(p, vm, pin)
        \/ \E g \in Gsi : ptirq_add_intx_remapping(p, vm, pin, g)
        \/ ptirq_intx_pin_add(p, pin)
        \/ ptirq_intx_pin_switch(p, pin)
  BY DEF PinOperation
<1>2. ASSUME ptirq_remove_intx_remapping(p, vm, pin) PROVE Keeps
  BY <1>2, RemovePinInv DEF ptirq_remove_intx_remapping, Ready
<1>3. ASSUME ptirq_intx_pin_switch(p, pin) PROVE Keeps
  <2>1. OtherCtlr(pin) \in Pin BY DEF OtherCtlr, Pin, Ctlr
  <2> QED BY <1>3, <2>1, RemovePinInv, IndexFacts DEF ptirq_intx_pin_switch, Ready
<1> QED BY <1>1, <1>2, <1>3, RemapInv, AddIntxInv, PinAddInv

LEMMA StepInv ==
  ASSUME Inv, [Next]_vars, ~ damaged'
  PROVE  Inv'
<1>1. ASSUME NEW p \in Pcpu, NEW vm \in VM, MsiOperation(p, vm) PROVE Inv'
  BY <1>1, PrepareInv, RemoveMsixInv DEF MsiOperation, Keeps
<1>2. ASSUME NEW p \in Pcpu, dmar_assign_irte(p) PROVE Inv'
  BY <1>2, AllocInv, WriteInv, ForgetInv, StoreInv DEF dmar_assign_irte, Keeps
<1>3. ASSUME NEW p \in Pcpu, dmar_free_irte(p) PROVE Inv'
  BY <1>3, ForgetInv, FreeInv, ReleaseInv DEF dmar_free_irte, Keeps
<1>4. CASE UNCHANGED vars
  <2>1. iec' \in [Index -> Irte] BY <1>4, Types DEF Inv, vars
  <2> QED BY <1>4, <2>1, UnitInv DEF vars
<1> QED BY <1>1, <1>2, <1>3, <1>4, PinOperationInv, ReserveInv, FetchInv DEF Next, Keeps

\* Damage is not undone.
LEMMA DamageStays ==
  ASSUME [Next]_vars, damaged
  PROVE  damaged'
<1>1. ASSUME NEW p \in Pcpu, NEW vm \in VM, MsiOperation(p, vm) PROVE damaged'
  BY <1>1 DEF MsiOperation, ptirq_prepare_msix_remap, remove_msix_remapping
<1>2. ASSUME NEW p \in Pcpu, NEW vm \in VM, PinOperation(p, vm) PROVE damaged'
  BY <1>2 DEF PinOperation, ptirq_intx_pin_remap, ptirq_remove_intx_remapping, StartRemovePin,
              ptirq_add_intx_remapping, ptirq_intx_pin_add, ptirq_intx_pin_switch
<1>3. ASSUME NEW p \in Pcpu, dmar_assign_irte(p) PROVE damaged'
  BY <1>3 DEF dmar_assign_irte, AllocIrte, WriteIrte, InvalidateIrte, StoreIrte
<1>4. ASSUME NEW p \in Pcpu, dmar_free_irte(p) PROVE damaged'
  BY <1>4 DEF dmar_free_irte, ClearIrte, FlushIrte, FreeIrte, Release, MayHit
<1>5. ASSUME NEW p \in Pcpu, dmar_reserve_irte(p) PROVE damaged'
  BY <1>5 DEF dmar_reserve_irte, AllocBlock, LoadReserved, StoreReserved
<1>6. ASSUME NEW idx \in Index, Fetch(idx) PROVE damaged' BY <1>6 DEF Fetch
<1>7. CASE UNCHANGED vars BY <1>7 DEF vars
<1> QED BY <1>1, <1>2, <1>3, <1>4, <1>5, <1>6, <1>7 DEF Next

\* Whatever is allocated in the remapping table is set aside, or belongs to one source:
\* alloc_irtes and dmar_free_irte lose no entry and give none out twice, though pcpus
\* assign outside ptdev_lock while others free under it; as long as two dmar_reserve_irte
\* do not lose a bit between them, and no write for INVALID_IRTE_ID does harm.
THEOREM Owned == Spec => []IrteOwned
<1> DEFINE IInv == ~ damaged => Inv
<1>1. IInv => IrteOwned
  <2>1. ASSUME Inv PROVE Aside \cap ({entry[i].irte : i \in Held}
                                      \cup {op[p].idx : p \in Programming}) = {}
    BY <2>1 DEF Inv, Apart, Aside, Assigning, Programming, AssignPc
  <2>2. ASSUME Inv PROVE \A p, q \in Pcpu : p # q => rsv[p].block \cap rsv[q].block = {}
    BY <2>2 DEF Inv, Apart
  <2> QED BY <2>1, <2>2
          DEF Inv, Exclusive, Allocated, IrteOwned, Assigning, Programming, AssignPc
<1>2. Init => IInv BY InitInv
<1>3. IInv /\ [Next]_vars => IInv' BY StepInv, DamageStays
<1> QED BY <1>1, <1>2, <1>3, PTL DEF Spec

-----------------------------------------------------------------------------
(***************************************************************************)
(* Delivery: what the table and its cache say of an index, against the     *)
(* remapping entry that holds it.                                          *)
(***************************************************************************)
\* A message interrupt is programmed for a VM its entry was given to; a pin is none.
VmHeld ==
  /\ \A i \in Slot : entry[i].phys \in Msi => entry[i].virt \notin Pin
  /\ \A p \in Pcpu : op[p].pc # "idle" /\ entry[op[p].slot].phys \in Msi =>
       /\ op[p].pin = None
       /\ op[p].pc \in AssignPc => op[p].vm \in entry[op[p].slot].users

\* Pcpus that have written an entry of the table, and not yet stored its index.
Written == {p \in Pcpu : op[p].pc \in {"invalidate", "store"} /\ op[p].idx \in Index}

Clearing == {p \in Pcpu : op[p].pc \in {"flush", "free"} /\ op[p].idx \in Index}

\* Entry x of the table is that of remapping entry i.
Of(x, i) == /\ ir_table[x].src = entry[i].phys /\ ir_table[x].sid = Sid[entry[i].phys]
            /\ entry[i].phys \in Msi => ir_table[x].vm \in entry[i].users

Tables ==
  /\ \A x \in Index : ir_table[x].present =>
       (\E i \in Held : entry[i].irte = x) \/ \E p \in Written : op[p].idx = x
  /\ \A i \in Held : ir_table[entry[i].irte].present => Of(entry[i].irte, i)
  /\ \A p \in Written : ir_table[op[p].idx].present /\ Of(op[p].idx, op[p].slot)
  /\ \A i \in Held : ir_table[entry[i].irte].present \/ \E p \in Clearing : op[p].slot = i
  /\ \A p \in Clearing : ~ ir_table[op[p].idx].present

\* The cache says what the table says, until it is told otherwise.
Cached ==
  \A x \in Index : iec[x].present =>
    \/ iec[x] = ir_table[x]
    \/ \E p \in Pcpu : /\ op[p].idx = x /\ op[p].pc \in {"invalidate", "flush"}
                       /\ iec[x].src = entry[op[p].slot].phys

-----------------------------------------------------------------------------
\* Remapping entry i becomes e, and pcpu p, the only one to use it, goes on with o.
LEMMA VmBegins ==
  ASSUME Inv, VmHeld, NEW p \in Pcpu, NEW i \in Slot, NEW e \in EntryRec, NEW o \in OpRec,
         \A q \in Pcpu \ {p} : op[q].slot # i,
         entry' = [entry EXCEPT ![i] = e], op' = [op EXCEPT ![p] = o],
         e.phys \in Msi => e.virt \notin Pin,
         \/ o = Idle
         \/ /\ o.slot = i
            /\ e.phys \in Msi => o.pin = None /\ (o.pc \in AssignPc => o.vm \in e.users)
  PROVE  VmHeld'
<1>1. entry \in [Slot -> EntryRec] /\ op \in [Pcpu -> OpRec] /\ OpsApart BY Types DEF Inv
<1>2. /\ \A j \in Slot : entry'[j] = IF j = i THEN e ELSE entry[j]
      /\ \A q \in Pcpu : op'[q] = IF q = p THEN o ELSE op[q]
  BY <1>1
<1>3. \A j \in Slot : entry'[j].phys \in Msi => entry'[j].virt \notin Pin
  BY <1>2 DEF VmHeld
<1>4. ASSUME NEW q \in Pcpu, op'[q].pc # "idle", entry'[op'[q].slot].phys \in Msi
      PROVE  /\ op'[q].pin = None
             /\ op'[q].pc \in AssignPc => op'[q].vm \in entry'[op'[q].slot].users
  <2>1. CASE q = p BY <1>2, <1>4, <2>1, Constants
  <2>2. CASE q # p
    <3>1. op'[q] = op[q] /\ op[q].slot \in Slot /\ entry'[op[q].slot] = entry[op[q].slot]
      BY <1>1, <1>2, <1>4, <2>2 DEF OpsApart
    <3> QED BY <1>4, <3>1 DEF VmHeld
  <2> QED BY <2>1, <2>2
<1> QED BY <1>3, <1>4 DEF VmHeld

\* Any other step keeps who holds what, and what each operation is about.
LEMMA VmKept ==
  ASSUME Inv, VmHeld,
         \A i \in Slot : /\ entry'[i].phys = entry[i].phys /\ entry'[i].users = entry[i].users
                         /\ entry'[i].virt = entry[i].virt,
         \A q \in Pcpu : op'[q].pc = "idle" \/
           /\ op[q].pc # "idle" /\ (op'[q].pc \in AssignPc => op[q].pc \in AssignPc)
           /\ op'[q].slot = op[q].slot /\ op'[q].pin = op[q].pin /\ op'[q].vm = op[q].vm
  PROVE  VmHeld'
<1>1. \A q \in Pcpu : op[q].pc # "idle" => op[q].slot \in Slot BY DEF Inv, OpsApart
<1> QED BY <1>1 DEF VmHeld

\* add_msix_remapping gives what it returns to the VM that asks.
LEMMA VmAddsMsix ==
  ASSUME Inv, VmHeld, NEW vm \in VM, NEW s \in Msi, NEW x \in add_msix_remapping(vm, s)
  PROVE  vm \in x[2].users /\ x[2].virt \notin Pin
<1>1. s \notin Pin BY PtirqAssumption
<1>2. CASE ByPhys(s) # {}
  <2>1. PICK i \in ByPhys(s) : x = <<i, [entry[i] EXCEPT !.users = @ \cup {vm}]>>
    BY <1>2 DEF add_msix_remapping
  <2>2. i \in Slot /\ entry[i].phys = s BY DEF ByPhys
  <2>3. entry[i] \in EntryRec BY <2>2, Types DEF Inv
  <2>4. entry[i].virt \notin Pin BY <2>2 DEF VmHeld
  <2> QED BY <2>1, <2>3, <2>4 DEF EntryRec
<1>3. CASE ByPhys(s) = {}
  <2>1. PICK i \in Unused : x = <<i, NewEntry(vm, s, s)>> BY <1>3 DEF add_msix_remapping
  <2>2. NewEntry(vm, s, s).users = {vm} /\ NewEntry(vm, s, s).virt = s BY DEF NewEntry, Free
  <2> QED BY <1>1, <2>1, <2>2
<1> QED BY <1>2, <1>3

LEMMA ByVirtPin ==
  ASSUME VmHeld, NEW vm, NEW v \in Pin, NEW i \in ByVirt(v, vm)
  PROVE  entry[i].phys \notin Msi
BY DEF VmHeld, ByVirt

LEMMA VmMsi ==
  ASSUME Inv, VmHeld, NEW p \in Pcpu, NEW vm \in VM, MsiOperation(p, vm)
  PROVE  VmHeld'
<1>1. ASSUME NEW s \in Msi, NEW irte_idx \in ReservedFor(s),
             ptirq_prepare_msix_remap(p, vm, s, irte_idx)
      PROVE  VmHeld'
  <2>1. PICK x \in add_msix_remapping(vm, s) :
          /\ entry' = [entry EXCEPT ![x[1]] = x[2]]
          /\ \/ StartAssign(p, vm, x[1], IF x[2].irte = INVALID_IRTE_ID THEN irte_idx
                                                                     ELSE x[2].irte)
             \/ UNCHANGED op
    BY <1>1 DEF ptirq_prepare_msix_remap, Ready
  <2>2. op[p] = Idle /\ ~ Busy(s) /\ s \in Msi
    BY <1>1, PtirqAssumption DEF ptirq_prepare_msix_remap, Ready
  <2>3. PICK i \in Slot, e \in EntryRec : x = <<i, e>> /\ Begins(i, e, s) BY <2>2, AddsMsix
  <2>4. vm \in e.users /\ e.virt \notin Pin /\ e.phys = s BY <2>3, VmAddsMsix DEF Begins
  <2>5. entry' = [entry EXCEPT ![i] = e] /\ \A q \in Pcpu \ {p} : op[q].slot # i
    BY <2>1, <2>3 DEF Begins
  <2>6. op \in [Pcpu -> OpRec] /\ reserved \subseteq Index BY Types DEF Inv
  <2>7. CASE UNCHANGED op
    <3>1. op' = [op EXCEPT ![p] = Idle] BY <2>2, <2>6, <2>7
    <3> QED BY <2>4, <2>5, <3>1, VmBegins, Constants
  <2> DEFINE idx == IF e.irte = INVALID_IRTE_ID THEN irte_idx ELSE e.irte
             o == [Idle EXCEPT !.pc = "assign", !.vm = vm, !.slot = i, !.idx = idx]
  <2>8. CASE StartAssign(p, vm, i, idx)
    <3>1. idx \in Index \cup {INVALID_IRTE_ID} BY <2>6 DEF ReservedFor, EntryRec
    <3>2. op' = [op EXCEPT ![p] = o] BY <2>8 DEF StartAssign
    <3>3. o \in OpRec /\ o.slot = i /\ o.pin = None /\ o.vm = vm
      BY <3>1 DEF OpRec, AssignPc, Idle
    <3> HIDE DEF o, idx
    <3>4. \A q \in Pcpu \ {p} : op[q].slot # i BY <2>5
    <3>5. e.phys \in Msi => o.pin = None /\ (o.pc \in AssignPc => o.vm \in e.users)
      BY <2>4, <3>3
    <3> QED BY <2>4, <2>5, <3>2, <3>3, <3>4, <3>5, VmBegins
  <2> QED BY <2>1, <2>3, <2>7, <2>8
<1>2. ASSUME NEW s \in Msi, remove_msix_remapping(p, vm, s) PROVE VmHeld'
  <2>1. PICK i \in ByPhys(s) :
          op' = [op EXCEPT ![p] = [Idle EXCEPT !.pc = "clear", !.vm = vm, !.slot = i,
                                             !.idx = entry[i].irte]]
    BY <1>2 DEF remove_msix_remapping, Ready
  <2>2. op[p] = Idle /\ entry' = entry BY <1>2 DEF remove_msix_remapping, Ready
  <2>3. op \in [Pcpu -> OpRec] BY Types DEF Inv
  <2>4. op'[p].pin = None /\ op'[p].pc \notin AssignPc BY <2>1, <2>3 DEF Idle, AssignPc
  <2>5. \A q \in Pcpu \ {p} : op'[q] = op[q] BY <2>1
  <2> QED BY <2>2, <2>4, <2>5 DEF VmHeld
<1> QED BY <1>1, <1>2 DEF MsiOperation

\* activate_physical_ioapic for a pin, which is no message interrupt.
LEMMA VmPin ==
  ASSUME Inv, VmHeld, NEW p \in Pcpu, NEW vm \in VM, NEW i \in Slot, NEW e \in EntryRec,
         NEW idx \in Index \cup {INVALID_IRTE_ID}, NEW pin,
         \A q \in Pcpu \ {p} : op[q].slot # i, e.phys \notin Msi,
         entry' = [entry EXCEPT ![i] = e],
         activate_physical_ioapic(p, vm, i, idx, pin)
  PROVE  VmHeld'
<1>1. CASE op' = [op EXCEPT ![p] = Idle] BY <1>1, VmBegins, Constants
<1>2. CASE StartAssign(p, vm, i, idx)
  <2>1. PICK o \in OpRec : /\ op' = [op EXCEPT ![p] = o]
                           /\ o.pc = "assign" /\ o.slot = i /\ o.idx = idx
    BY <1>2, StartAssignIs
  <2> QED BY <2>1, VmBegins
<1> QED BY <1>1, <1>2 DEF activate_physical_ioapic

LEMMA VmRemovePin ==
  ASSUME Inv, VmHeld, NEW p \in Pcpu, NEW vm \in VM, NEW pin, NEW v \in Pin,
         NEW i \in ByVirt(v, vm), StartRemovePin(p, vm, i, pin)
  PROVE  VmHeld'
<1>1. entry[i].phys \notin Msi BY ByVirtPin
<1>2. op \in [Pcpu -> OpRec] BY Types DEF Inv
<1>3. op'[p].slot = i /\ entry' = entry /\ \A q \in Pcpu \ {p} : op'[q] = op[q]
  BY <1>2 DEF StartRemovePin
<1> QED BY <1>1, <1>3 DEF VmHeld

LEMMA VmPinOperation ==
  ASSUME Inv, VmHeld, NEW p \in Pcpu, NEW vm \in VM, PinOperation(p, vm)
  PROVE  VmHeld'
<1>1. PICK pin \in Pin :
        \/ ptirq_intx_pin_remap(p, vm, pin)
        \/ ptirq_remove_intx_remapping(p, vm, pin)
        \/ \E g \in Gsi : ptirq_add_intx_remapping(p, vm, pin, g)
        \/ ptirq_intx_pin_add(p, pin)
        \/ ptirq_intx_pin_switch(p, pin)
  BY DEF PinOperation
<1>2. Gsi \cap Msi = {} /\ Gsi \subseteq Source BY PtirqAssumption DEF Source
<1>3. ASSUME ptirq_intx_pin_remap(p, vm, pin) PROVE VmHeld'
  <2>1. PICK i \in ByVirt(pin, vm) :
          ~ Busy(entry[i].phys) /\ activate_physical_ioapic(p, vm, i, entry[i].irte, pin)
    BY <1>3 DEF ptirq_intx_pin_remap, Ready
  <2>2. i \in Slot /\ entry[i].phys \notin Msi BY ByVirtUsed, ByVirtPin
  <2>3. PICK e \in EntryRec : e = entry[i] BY <2>2, Types DEF Inv
  <2>4. entry' = [entry EXCEPT ![i] = e] BY <1>3, <2>2, <2>3, Types DEF Inv, ptirq_intx_pin_remap, Ready
  <2>5. \A q \in Pcpu : op[q].slot # i BY <2>1, <2>2, Alone
  <2>6. e.irte \in Index \cup {INVALID_IRTE_ID} BY DEF EntryRec
  <2> QED BY <2>1, <2>2, <2>3, <2>4, <2>5, <2>6, VmPin
<1>4. ASSUME ptirq_remove_intx_remapping(p, vm, pin) PROVE VmHeld'
  BY <1>4, VmRemovePin DEF ptirq_remove_intx_remapping, Ready
<1>5. ASSUME ptirq_intx_pin_switch(p, pin) PROVE VmHeld'
  <2>1. OtherCtlr(pin) \in Pin BY DEF OtherCtlr, Pin, Ctlr
  <2> QED BY <1>5, <2>1, VmRemovePin, IndexFacts DEF ptirq_intx_pin_switch, Ready
<1>6. ASSUME NEW g \in Gsi, ptirq_add_intx_remapping(p, vm, pin, g) PROVE VmHeld'
  <2>1. PICK x \in add_intx_remapping(vm, pin, g) : entry' = [entry EXCEPT ![x[1]] = x[2]]
    BY <1>6 DEF ptirq_add_intx_remapping, Ready
  <2>2. op[p] = Idle /\ ~ Busy(g) /\ op' = op BY <1>6 DEF ptirq_add_intx_remapping, Ready
  <2>3. PICK i \in Slot, e \in EntryRec : x = <<i, e>> /\ Begins(i, e, g) BY <2>2, AddsIntx
  <2>4. entry' = [entry EXCEPT ![i] = e] BY <2>1, <2>3
  <2>5. op' = [op EXCEPT ![p] = Idle] BY <2>2, Types DEF Inv
  <2>6. e.phys \notin Msi /\ \A q \in Pcpu : op[q].slot # i BY <1>2, <2>3 DEF Begins
  <2> QED BY <2>4, <2>5, <2>6, VmBegins, Constants
<1>7. ASSUME ptirq_intx_pin_add(p, pin) PROVE VmHeld'
  <2>1. PICK x \in add_intx_remapping(SOS, pin, pin.gsi) :
          /\ entry' = [entry EXCEPT ![x[1]] = x[2]]
          /\ activate_physical_ioapic(p, SOS, x[1], x[2].irte, pin)
    BY <1>7 DEF ptirq_intx_pin_add, Ready
  <2>2. pin.gsi \in Gsi /\ ~ Busy(pin.gsi) BY <1>7 DEF ptirq_intx_pin_add, Ready, Pin
  <2>3. PICK i \in Slot, e \in EntryRec : x = <<i, e>> /\ Begins(i, e, pin.gsi)
    BY <2>2, AddsIntx, IndexFacts
  <2>4. entry' = [entry EXCEPT ![i] = e] /\ activate_physical_ioapic(p, SOS, i, e.irte, pin)
    BY <2>1, <2>3
  <2>5. e.phys \notin Msi /\ \A q \in Pcpu : op[q].slot # i BY <1>2, <2>2, <2>3 DEF Begins
  <2>6. e.irte \in Index \cup {INVALID_IRTE_ID} BY DEF EntryRec
  <2> QED BY <2>4, <2>5, <2>6, VmPin, IndexFacts
<1> QED BY <1>1, <1>3, <1>4, <1>5, <1>6, <1>7

LEMMA VmRelease ==
  ASSUME Inv, VmHeld, NEW p \in Pcpu, Release(p)
  PROVE  VmHeld'
<1> DEFINE i == op[p].slot
           new == NewEntry(SOS, entry[i].phys, op[p].pin)
<1>1. op[p].pc = "release" BY DEF Release
<1>2. i \in Slot /\ i # 0 BY <1>1, IndexFacts DEF Inv, OpsApart
<1>3. entry[i] \in EntryRec /\ op[p] \in OpRec BY <1>2, Types DEF Inv
<1>4. \A q \in Pcpu \ {p} : op[q].slot # i BY <1>2 DEF Inv, OpsApart
<1>5. CASE op[p].pin = None
  <2>1. entry' = [entry EXCEPT ![i] = Free] /\ op' = [op EXCEPT ![p] = Idle]
    BY <1>5 DEF Release
  <2>2. Free.phys \notin Msi BY PtirqAssumption, Constants DEF Source
  <2> QED BY <1>2, <1>4, <2>1, <2>2, VmBegins, Constants
<1>6. CASE op[p].pin # None
  <2>1. /\ entry' = [entry EXCEPT ![i] = new]
        /\ activate_physical_ioapic(p, SOS, i, INVALID_IRTE_ID, op[p].pin)
    BY <1>6 DEF Release
  <2>2. new \in EntryRec /\ new.phys = entry[i].phys
    BY <1>3, <1>6, IndexFacts DEF NewEntry, Free, EntryRec, OpRec
  <2>3. entry[i].phys \notin Msi BY <1>1, <1>6 DEF VmHeld
  <2> HIDE DEF new
  <2> QED BY <1>2, <1>4, <2>1, <2>2, <2>3, VmPin, IndexFacts
<1> QED BY <1>5, <1>6

\* What a step of dmar_assign_irte or dmar_free_irte changes of its operation.
LEMMA VmPrograms ==
  ASSUME Inv, VmHeld, NEW p \in Pcpu, dmar_assign_irte(p) \/ dmar_free_irte(p)
  PROVE  VmHeld'
<1>1. entry \in [Slot -> EntryRec] /\ op \in [Pcpu -> OpRec] BY Types DEF Inv
<1>2. CASE StoreIrte(p)
  <2>1. \A i \in Slot : /\ entry'[i].phys = entry[i].phys /\ entry'[i].users = entry[i].users
                        /\ entry'[i].virt = entry[i].virt
    BY <1>1, <1>2 DEF StoreIrte, EntryRec
  <2>2. op'[p].pc = "idle" /\ \A q \in Pcpu \ {p} : op'[q] = op[q]
    BY <1>1, <1>2, Constants DEF StoreIrte
  <2> QED BY <2>1, <2>2, VmKept
<1>3. CASE AllocIrte(p) \/ WriteIrte(p) \/ InvalidateIrte(p) \/ ClearIrte(p) \/ FlushIrte(p)
           \/ FreeIrte(p)
  <2>1. entry' = entry
    BY <1>3 DEF AllocIrte, WriteIrte, InvalidateIrte, ClearIrte, FlushIrte, FreeIrte
  <2>2. /\ op'[p].slot = op[p].slot /\ op'[p].pin = op[p].pin /\ op'[p].vm = op[p].vm
        /\ op'[p].pc \in AssignPc => op[p].pc \in AssignPc
        /\ op[p].pc # "idle" /\ \A q \in Pcpu \ {p} : op'[q] = op[q]
    BY <1>1, <1>3 DEF AllocIrte, WriteIrte, InvalidateIrte, ClearIrte, FlushIrte, FreeIrte,
                      Goto, OpRec, AssignPc
  <2> QED BY <2>1, <2>2, VmKept
<1> QED BY <1>2, <1>3, VmRelease DEF dmar_assign_irte, dmar_free_irte

LEMMA VmStep ==
  ASSUME Inv, VmHeld, [Next]_vars
  PROVE  VmHeld'
<1>1. CASE \E p \in Pcpu : dmar_reserve_irte(p)
  BY <1>1 DEF dmar_reserve_irte, AllocBlock, LoadReserved, StoreReserved, VmHeld
<1>2. CASE \E idx \in Index : Fetch(idx) BY <1>2 DEF Fetch, VmHeld
<1>3. CASE UNCHANGED vars BY <1>3 DEF vars, VmHeld
<1> QED BY <1>1, <1>2, <1>3, VmMsi, VmPinOperation, VmPrograms DEF Next

-----------------------------------------------------------------------------
\* What the invariant says of an index in use: nobody else uses it.
LEMMA Using ==
  ASSUME Inv
  PROVE  /\ \A i \in Held : i \in Slot /\ entry[i].irte \in Index /\ entry[i].phys # None
         /\ \A i, j \in Held : entry[i].irte = entry[j].irte => i = j
         /\ \A p \in Pcpu : op[p].pc # "idle" => op[p].slot \in Slot /\ op[p].slot # 0
         /\ \A p, q \in Pcpu : op[p].pc # "idle" /\ op[p].slot = op[q].slot => p = q
         /\ \A p \in Pcpu : op[p].pc \in {"clear", "flush", "free"} /\ op[p].idx \in Index =>
              op[p].slot \in Held /\ entry[op[p].slot].irte = op[p].idx
         /\ \A p \in Assigning : \A i \in Held : op[p].idx = entry[i].irte => op[p].slot = i
         /\ \A p, q \in Assigning : op[p].idx = op[q].idx /\ op[p].idx \in Index => p = q
         /\ \A p, q \in Pcpu : op[p].pc \in FreePc /\ op[q].pc \in FreePc => p = q
<1>1. /\ entry \in [Slot -> EntryRec] /\ LockHeld /\ OpsApart /\ OnePerSource /\ Exclusive
      /\ \A q \in Pcpu : IndexHeld(q)
  BY Types DEF Inv
<1>2. \A i \in Held : i \in Slot /\ entry[i].irte \in Index /\ entry[i].phys # None
  BY <1>1, Constants DEF Held, EntryRec, OnePerSource
<1>3. \A p \in Pcpu : op[p].pc # "idle" => op[p].slot \in Slot /\ op[p].slot # 0
  BY <1>1, IndexFacts DEF OpsApart
<1>4. \A p, q \in Pcpu : op[p].pc # "idle" /\ op[p].slot = op[q].slot => p = q
  BY <1>1, <1>3 DEF OpsApart
<1>5. ASSUME NEW p \in Pcpu, op[p].pc \in {"clear", "flush", "free"}, op[p].idx \in Index
      PROVE  op[p].slot \in Held /\ entry[op[p].slot].irte = op[p].idx
  <2>1. entry[op[p].slot].irte = op[p].idx
    BY <1>1, <1>5 DEF IndexHeld, FreePc
  <2>2. \A q \in Pcpu : op[q].slot = op[p].slot => op[q].pc # "release" BY <1>4, <1>5
  <2> QED BY <1>3, <1>5, <2>1, <2>2, IndexFacts DEF Held
<1>6. \A p, q \in Pcpu : op[p].pc \in FreePc /\ op[q].pc \in FreePc => p = q
  BY <1>1 DEF LockHeld
<1> QED BY <1>1, <1>2, <1>3, <1>4, <1>5, <1>6 DEF Exclusive

LEMMA TablesKept ==
  ASSUME Inv, VmHeld, VmHeld', Tables, Cached, Keeps
  PROVE  Tables' /\ Cached'
<1>1. /\ UNCHANGED <<ir_table, iec>> /\ Held' = Held
      /\ \A i \in Held : /\ entry'[i].irte = entry[i].irte
                          /\ entry'[i].phys = entry[i].phys /\ entry[i].users \subseteq entry'[i].users
      /\ Marked' = Marked
      /\ \A p \in Marked : /\ op'[p] = op[p] /\ entry'[op[p].slot].phys = entry[op[p].slot].phys
                            /\ entry[op[p].slot].users \subseteq entry'[op[p].slot].users
  BY DEF Keeps, SameUse
<1>2. \A i \in Held : i \in Slot BY DEF Held
<1>3. \A p \in Marked : op[p].slot \in Slot BY Using DEF Marked
<1>4. Written' = Written /\ Written \subseteq Marked
  BY <1>1 DEF Written, Marked
<1>5. Clearing \subseteq Marked BY DEF Clearing, Marked
<1>6. Clearing' = Clearing
  <2>1. Clearing' \subseteq Marked' BY DEF Clearing, Marked
  <2> QED BY <1>1, <1>5, <2>1 DEF Clearing, Marked
<1>7. \A i \in Held : \A x \in Index : Of(x, i) => Of(x, i)'
  BY <1>1, <1>2 DEF Of
<1>8. \A p \in Written : \A x \in Index : Of(x, op[p].slot) => Of(x, op[p].slot)'
  BY <1>1, <1>3, <1>4 DEF Of
<1>9. \A i \in Held : entry[i].irte \in Index BY Using
<1>10. Tables'
  <2>1. ASSUME NEW x \in Index, ir_table'[x].present
        PROVE  (\E i \in Held' : entry'[i].irte = x) \/ \E p \in Written' : op'[p].idx = x
    BY <1>1, <1>4, <2>1 DEF Tables
  <2>2. \A i \in Held' : ir_table'[entry'[i].irte].present => Of(entry[i].irte, i)'
    BY <1>1, <1>7, <1>9 DEF Tables
  <2>3. \A p \in Written' : ir_table'[op'[p].idx].present /\ Of(op[p].idx, op[p].slot)'
    BY <1>1, <1>4, <1>8 DEF Tables, Written
  <2>4. \A i \in Held' : ir_table'[entry'[i].irte].present \/ \E p \in Clearing' : op'[p].slot = i
    BY <1>1, <1>5, <1>6 DEF Tables
  <2>5. \A p \in Clearing' : ~ ir_table'[op'[p].idx].present
    BY <1>1, <1>5, <1>6 DEF Tables
  <2> QED BY <2>1, <2>2, <2>3, <2>4, <2>5 DEF Tables
<1>11. Cached'
  <2>1. \A p \in Pcpu : op[p].idx \in Index /\ op[p].pc \in {"invalidate", "flush"} =>
          op'[p] = op[p] /\ entry'[op[p].slot].phys = entry[op[p].slot].phys
    BY <1>1 DEF Marked
  <2> QED BY <1>1, <2>1 DEF Cached
<1> QED BY <1>10, <1>11

\* What the table has in an entry that pcpu p is at work on is about p's source.
LEMMA OwnEntry ==
  ASSUME Inv, Tables, Cached, NEW p \in Pcpu, NEW x \in Index, op[p].idx = x,
         op[p].pc \in {"write", "clear"}
  PROVE  /\ \A q \in Pcpu : op[q].idx = x /\ op[q].pc \in {"invalidate", "store", "flush", "free"} => q = p
         /\ \A i \in Held : entry[i].irte = x => i = op[p].slot
         /\ iec[x].present => iec[x].src = entry[op[p].slot].phys
<1>1. ASSUME NEW q \in Pcpu, op[q].idx = x, op[q].pc \in {"invalidate", "store", "flush", "free"}
      PROVE  q = p
  <2>1. CASE p \in Assigning /\ q \in Assigning BY <1>1, <2>1, Using
  <2>2. CASE p \in Assigning /\ q \notin Assigning
    <3>1. op[q].pc \in {"flush", "free"} BY <1>1, <2>2 DEF Assigning, AssignPc
    <3>2. op[q].slot \in Held /\ entry[op[q].slot].irte = x BY <1>1, <3>1, Using
    <3> QED BY <2>2, <3>2, Using DEF Assigning, AssignPc
  <2>3. CASE p \notin Assigning /\ q \in Assigning
    <3>1. op[p].pc = "clear" BY <2>3 DEF Assigning, AssignPc
    <3>2. op[p].slot \in Held /\ entry[op[p].slot].irte = x BY <3>1, Using
    <3> QED BY <1>1, <2>3, <3>2, Using DEF Assigning, AssignPc
  <2>4. CASE p \notin Assigning /\ q \notin Assigning
    <3>1. op[p].pc \in FreePc /\ op[q].pc \in FreePc
      BY <1>1, <2>4 DEF Assigning, AssignPc, FreePc
    <3> QED BY <3>1, Using
  <2> QED BY <2>1, <2>2, <2>3, <2>4
<1>2. ASSUME NEW i \in Held, entry[i].irte = x PROVE i = op[p].slot
  <2>1. CASE op[p].pc = "write" BY <1>2, <2>1, Using DEF Assigning, AssignPc
  <2>2. CASE op[p].pc = "clear" BY <1>2, <2>2, Using
  <2> QED BY <2>1, <2>2
<1>3. ASSUME iec[x].present PROVE iec[x].src = entry[op[p].slot].phys
  <2>1. CASE iec[x] = ir_table[x]
    <3>1. ~ \E q \in Written : op[q].idx = x BY <1>1 DEF Written
    <3>2. PICK i \in Held : entry[i].irte = x BY <1>3, <2>1, <3>1 DEF Tables
    <3>3. i = op[p].slot /\ Of(x, i) BY <1>2, <1>3, <2>1, <3>2 DEF Tables
    <3> QED BY <2>1, <3>3 DEF Of
  <2>2. CASE iec[x] # ir_table[x]
    <3>1. PICK q \in Pcpu : op[q].idx = x /\ op[q].pc \in {"invalidate", "flush"}
      BY <1>3, <2>2 DEF Cached
    <3> QED BY <1>1, <3>1
  <2> QED BY <2>1, <2>2
<1> QED BY <1>1, <1>2, <1>3

LEMMA DeliverWrite ==
  ASSUME Inv, VmHeld, Tables, Cached, NEW p \in Pcpu, WriteIrte(p)
  PROVE  Tables' /\ Cached'
<1> DEFINE x == op[p].idx
           i == op[p].slot
           new == [present |-> TRUE, sid |-> Sid[entry[i].phys], src |-> entry[i].phys,
                   vm |-> op[p].vm]
<1>1. /\ op[p].pc = "write" /\ ir_table' = [ir_table EXCEPT ![x] = new]
      /\ op' = [op EXCEPT ![p].pc = "invalidate"]
      /\ UNCHANGED <<ptdev_lock, entry, alloc, reserved, iec, route, rsv, damaged>>
  BY DEF WriteIrte, Goto
<1>2. op \in [Pcpu -> OpRec] /\ ir_table \in [Index -> Irte] /\ x \in Index /\ i \in Slot
  BY <1>1, Types, Using DEF Inv, IndexHeld
<1> HIDE DEF x, i
<1>3. \A q \in Pcpu : /\ op'[q].slot = op[q].slot /\ op'[q].idx = op[q].idx
                      /\ op'[q].pc = IF q = p THEN "invalidate" ELSE op[q].pc
  BY <1>1, <1>2 DEF OpRec
<1>4. \A y \in Index : ir_table'[y] = IF y = x THEN new ELSE ir_table[y] BY <1>1, <1>2
<1>5. Held' = Held BY <1>1, <1>3 DEF Held
<1>6. Written' = Written \cup {p} /\ Clearing' = Clearing
  <2>1. op[p].idx \in Index BY <1>2 DEF x
  <2> QED BY <1>1, <1>3, <2>1 DEF Written, Clearing
<1>7. /\ \A q \in Written \cup Clearing : op[q].idx # x
      /\ \A j \in Held : entry[j].irte = x => j = i
      /\ iec[x].present => iec[x].src = entry[i].phys
  BY <1>1, <1>2, OwnEntry DEF Written, Clearing, x, i
<1>8. \A y \in Index, j \in Slot : Of(y, j)' <=> IF y = x
        THEN /\ entry[i].phys = entry[j].phys /\ Sid[entry[i].phys] = Sid[entry[j].phys]
             /\ entry[j].phys \in Msi => op[p].vm \in entry[j].users
        ELSE Of(y, j)
  BY <1>1, <1>4 DEF Of
<1>9. entry[i].phys \in Msi => op[p].vm \in entry[i].users
  BY <1>1 DEF VmHeld, AssignPc, i
<1>10. \A j \in Held : j \in Slot /\ entry[j].irte \in Index BY Using
<1>11. \A q \in Written \cup Clearing : op[q].slot \in Slot /\ op[q].idx \in Index
  BY Using DEF Written, Clearing
<1>12. new.present OBVIOUS
<1> HIDE DEF new
<1>13. Tables'
  <2>1. \A y \in Index : ir_table'[y].present =>
          (\E j \in Held' : entry'[j].irte = y) \/ \E q \in Written' : op'[q].idx = y
    <3>1. op'[p].idx = x BY <1>3 DEF x
    <3>2. \A q \in Written : op'[q].idx = op[q].idx BY <1>3 DEF Written
    <3> QED BY <1>1, <1>4, <1>5, <1>6, <3>1, <3>2 DEF Tables
  <2>2. \A j \in Held' : ir_table'[entry'[j].irte].present => Of(entry[j].irte, j)'
    BY <1>1, <1>4, <1>5, <1>7, <1>8, <1>9, <1>10 DEF Tables
  <2>3. ASSUME NEW q \in Written'
        PROVE  ir_table'[op'[q].idx].present /\ Of(op[q].idx, op[q].slot)'
    <3>1. op'[q].idx = op[q].idx /\ op'[q].slot = op[q].slot BY <1>3 DEF Written
    <3>2. CASE q = p
      <4>1. op'[q].idx = x /\ op'[q].slot = i BY <3>1, <3>2 DEF x, i
      <4>2. ir_table'[x].present BY <1>2, <1>4, <1>12
      <4>3. Of(op[q].idx, op[q].slot)' BY <1>1, <1>2, <1>4, <1>9, <4>1 DEF Of, new
      <4> QED BY <4>1, <4>2, <4>3
    <3>3. CASE q # p
      <4>1. q \in Written /\ op[q].idx # x BY <1>6, <1>7, <3>3
      <4>2. ir_table'[op[q].idx] = ir_table[op[q].idx] BY <1>4, <1>11, <4>1
      <4> QED BY <1>1, <3>1, <4>1, <4>2 DEF Tables, Of
    <3> QED BY <3>2, <3>3
  <2>4. \A j \in Held' : ir_table'[entry'[j].irte].present \/ \E q \in Clearing' : op'[q].slot = j
    <3>1. \A q \in Clearing : op'[q].slot = op[q].slot BY <1>3 DEF Clearing
    <3> QED BY <1>1, <1>4, <1>5, <1>6, <1>10, <1>12, <3>1 DEF Tables
  <2>5. \A q \in Clearing' : ~ ir_table'[op'[q].idx].present
    <3>1. \A q \in Clearing : op'[q].idx = op[q].idx BY <1>3 DEF Clearing
    <3> QED BY <1>4, <1>6, <1>7, <1>11, <3>1 DEF Tables
  <2> QED BY <2>1, <2>2, <2>3, <2>4, <2>5 DEF Tables
<1>14. Cached'
  <2>1. ASSUME NEW y \in Index, iec'[y].present
        PROVE  \/ iec'[y] = ir_table'[y]
               \/ \E q \in Pcpu : /\ op'[q].idx = y /\ op'[q].pc \in {"invalidate", "flush"}
                                  /\ iec'[y].src = entry'[op'[q].slot].phys
    <3>1. CASE y = x
      <4>1. op'[p].idx = y /\ op'[p].pc = "invalidate" /\ iec'[y].src = entry'[op'[p].slot].phys
        BY <1>1, <1>3, <1>7, <2>1, <3>1 DEF x, i
      <4> QED BY <4>1
    <3>2. CASE y # x
      BY <1>1, <1>3, <1>4, <2>1, <3>2 DEF Cached
    <3> QED BY <3>1, <3>2
  <2> QED BY <2>1 DEF Cached
<1> QED BY <1>13, <1>14

\* dmar_invalid_iec, by whoever is at work on the entry.
LEMMA DeliverForget ==
  ASSUME Inv, VmHeld, Tables, Cached, NEW p \in Pcpu, InvalidateIrte(p) \/ FlushIrte(p)
  PROVE  Tables' /\ Cached'
<1> DEFINE x == op[p].idx
<1>1. /\ iec' = [y \in Index |-> IF y = x THEN Absent ELSE iec[y]]
      /\ \/ op[p].pc = "invalidate" /\ op' = [op EXCEPT ![p].pc = "store"]
         \/ op[p].pc = "flush" /\ op' = [op EXCEPT ![p].pc = "free"]
      /\ UNCHANGED <<ptdev_lock, entry, alloc, reserved, ir_table, route, rsv, damaged>>
  BY DEF InvalidateIrte, FlushIrte, Goto, dmar_invalid_iec
<1>2. op \in [Pcpu -> OpRec] /\ iec \in [Index -> Irte] BY Types DEF Inv
<1>3. \A q \in Pcpu : /\ op'[q].slot = op[q].slot /\ op'[q].idx = op[q].idx
                      /\ q # p => op'[q] = op[q]
                      /\ op'[q].pc \in {"invalidate", "store"} <=> op[q].pc \in {"invalidate", "store"}
                      /\ op'[q].pc \in {"flush", "free"} <=> op[q].pc \in {"flush", "free"}
                      /\ op'[q].pc = "release" <=> op[q].pc = "release"
  BY <1>1, <1>2 DEF OpRec
<1>4. Held' = Held BY <1>1, <1>3 DEF Held
<1>5. Written' = Written /\ Clearing' = Clearing BY <1>3 DEF Written, Clearing
<1>6. /\ \A q \in Written \cup Clearing : op'[q].slot = op[q].slot /\ op'[q].idx = op[q].idx
  BY <1>3 DEF Written, Clearing
<1>7. Tables' BY <1>1, <1>4, <1>5, <1>6 DEF Tables, Of
<1>8. Cached'
  <2>1. ASSUME NEW y \in Index, iec'[y].present
        PROVE  \/ iec'[y] = ir_table'[y]
               \/ \E q \in Pcpu : /\ op'[q].idx = y /\ op'[q].pc \in {"invalidate", "flush"}
                                  /\ iec'[y].src = entry'[op'[q].slot].phys
    <3>1. y # x /\ iec'[y] = iec[y] BY <1>1, <1>2, <2>1 DEF Absent
    <3> QED BY <1>1, <1>3, <2>1, <3>1 DEF Cached
  <2> QED BY <2>1 DEF Cached
<1> QED BY <1>7, <1>8

\* A removal for a source that has no index touches no entry of the table.
LEMMA DeliverMiss ==
  ASSUME Inv, Tables, Cached, NEW p \in Pcpu, ClearIrte(p) \/ FreeIrte(p), op[p].idx \notin Index
  PROVE  Tables' /\ Cached'
<1>1. /\ \/ op[p].pc = "clear" /\ op' = [op EXCEPT ![p].pc = "flush"]
         \/ op[p].pc = "free" /\ op' = [op EXCEPT ![p].pc = "release"]
      /\ ir_table' = [y \in Index |-> IF y = op[p].idx THEN Absent ELSE ir_table[y]] \/ ir_table' = ir_table
      /\ UNCHANGED <<entry, iec>>
  BY DEF ClearIrte, FreeIrte, Goto
<1>2. /\ op \in [Pcpu -> OpRec] /\ ir_table \in [Index -> Irte]
      /\ entry[op[p].slot].irte = op[p].idx /\ op[p].idx = INVALID_IRTE_ID
  BY <1>1, Types DEF Inv, IndexHeld, FreePc, OpRec
<1>3. \A y \in Index : ir_table'[y] = ir_table[y] BY <1>1, <1>2
<1>4. \A q \in Pcpu : /\ op'[q].slot = op[q].slot /\ op'[q].idx = op[q].idx
                      /\ q # p => op'[q] = op[q]
  BY <1>1, <1>2 DEF OpRec
<1>5. Held' = Held
  <2>1. op[p].slot \notin Held /\ op[p].slot \notin Held' BY <1>1, <1>2 DEF Held
  <2>2. \A j \in Slot \ {op[p].slot} : j \in Held' <=> j \in Held BY <1>1, <1>4 DEF Held
  <2>3. Held \subseteq Slot /\ Held' \subseteq Slot BY DEF Held
  <2> QED BY <2>1, <2>2, <2>3
<1>6. Written' = Written /\ Clearing' = Clearing
  <2>1. p \notin Written \cup Clearing /\ p \notin Written' \cup Clearing'
    BY <1>4 DEF Written, Clearing
  <2>2. \A q \in Pcpu : (q \in Written' <=> q \in Written) /\ (q \in Clearing' <=> q \in Clearing)
    BY <1>4, <2>1 DEF Written, Clearing
  <2>3. Written \cup Written' \cup Clearing \cup Clearing' \subseteq Pcpu
    BY DEF Written, Clearing
  <2> QED BY <2>2, <2>3
<1>7. /\ \A j \in Held : entry[j].irte \in Index
      /\ \A q \in Written \cup Clearing : q \in Pcpu /\ op[q].idx \in Index
  BY Using DEF Written, Clearing
<1>8. Tables' BY <1>1, <1>3, <1>4, <1>5, <1>6, <1>7 DEF Tables, Of
<1>9. \A q \in Pcpu : op[q].idx \in Index => op'[q] = op[q] BY <1>4
<1>10. Cached' BY <1>1, <1>3, <1>9 DEF Cached
<1> QED BY <1>8, <1>10

LEMMA DeliverClear ==
  ASSUME Inv, VmHeld, Tables, Cached, NEW p \in Pcpu, ClearIrte(p), op[p].idx \in Index
  PROVE  Tables' /\ Cached'
<1> DEFINE x == op[p].idx
           i == op[p].slot
<1>1. /\ op[p].pc = "clear" /\ op' = [op EXCEPT ![p].pc = "flush"]
      /\ ir_table' = [y \in Index |-> IF y = x THEN Absent ELSE ir_table[y]]
      /\ UNCHANGED <<ptdev_lock, entry, alloc, reserved, iec, route, rsv>>
  BY DEF ClearIrte, Goto
<1>2. /\ op \in [Pcpu -> OpRec] /\ ir_table \in [Index -> Irte] /\ x \in Index /\ i \in Held
      /\ entry[i].irte = x
  BY <1>1, Types, Using DEF Inv
<1> HIDE DEF x, i
<1>3. \A q \in Pcpu : /\ op'[q].slot = op[q].slot /\ op'[q].idx = op[q].idx
                      /\ op'[q].pc = IF q = p THEN "flush" ELSE op[q].pc
  BY <1>1, <1>2 DEF OpRec
<1>4. /\ \A y \in Index : y # x => ir_table'[y] = ir_table[y]
      /\ ~ ir_table'[x].present
  BY <1>1, <1>2 DEF Absent
<1>5. Held' = Held BY <1>1, <1>3 DEF Held
<1>6. Written' = Written /\ Clearing' = Clearing \cup {p}
  BY <1>1, <1>3 DEF Written, Clearing
<1>7. /\ \A q \in Written : op[q].idx # x
      /\ \A j \in Held : entry[j].irte = x => j = i
      /\ iec[x].present => iec[x].src = entry[i].phys
  BY <1>1, <1>2, OwnEntry DEF Written, x, i
<1>8. \A j \in Held : entry[j].irte \in Index BY Using
<1>9. \A q \in Written \cup Clearing : /\ op[q].idx \in Index
                                       /\ op'[q].slot = op[q].slot /\ op'[q].idx = op[q].idx
  BY <1>3, Using DEF Written, Clearing
<1>10. op'[p].idx = x /\ op'[p].slot = i BY <1>3 DEF x, i
<1>11. Tables'
  <2>1. \A y \in Index : ir_table'[y].present =>
          (\E j \in Held' : entry'[j].irte = y) \/ \E q \in Written' : op'[q].idx = y
    BY <1>1, <1>4, <1>5, <1>6, <1>9 DEF Tables
  <2>2. \A j \in Held' : ir_table'[entry'[j].irte].present => Of(entry[j].irte, j)'
    BY <1>1, <1>4, <1>5, <1>8 DEF Tables, Of
  <2>3. \A q \in Written' : ir_table'[op'[q].idx].present /\ Of(op[q].idx, op[q].slot)'
    BY <1>1, <1>4, <1>6, <1>7, <1>9 DEF Tables, Of
  <2>4. \A j \in Held' : ir_table'[entry'[j].irte].present \/ \E q \in Clearing' : op'[q].slot = j
    BY <1>1, <1>4, <1>5, <1>6, <1>7, <1>8, <1>9, <1>10 DEF Tables
  <2>5. \A q \in Clearing' : ~ ir_table'[op'[q].idx].present
    BY <1>4, <1>6, <1>9, <1>10 DEF Tables
  <2> QED BY <2>1, <2>2, <2>3, <2>4, <2>5 DEF Tables
<1>12. Cached'
  <2>1. ASSUME NEW y \in Index, iec'[y].present
        PROVE  \/ iec'[y] = ir_table'[y]
               \/ \E q \in Pcpu : /\ op'[q].idx = y /\ op'[q].pc \in {"invalidate", "flush"}
                                  /\ iec'[y].src = entry'[op'[q].slot].phys
    <3>1. CASE y = x
      <4>1. op'[p].idx = y /\ op'[p].pc = "flush" /\ iec'[y].src = entry'[op'[p].slot].phys
        BY <1>1, <1>3, <1>7, <1>10, <2>1, <3>1
      <4> QED BY <4>1
    <3>2. CASE y # x BY <1>1, <1>3, <1>4, <2>1, <3>2 DEF Cached
    <3> QED BY <3>1, <3>2
  <2> QED BY <2>1 DEF Cached
<1> QED BY <1>11, <1>12

LEMMA DeliverStore ==
  ASSUME Inv, VmHeld, VmHeld', Tables, Cached, NEW p \in Pcpu, StoreIrte(p)
  PROVE  Tables' /\ Cached'
<1> DEFINE i == op[p].slot
<1>1. /\ op[p].pc = "store" /\ op' = [op EXCEPT ![p] = Idle]
      /\ entry' = [entry EXCEPT ![i].irte = op[p].idx]
      /\ UNCHANGED <<ptdev_lock, alloc, reserved, ir_table, iec, rsv, damaged>>
  BY DEF StoreIrte
<1>2. /\ entry \in [Slot -> EntryRec] /\ op \in [Pcpu -> OpRec] /\ i \in Slot
      /\ op[p].idx \in Index \cup {INVALID_IRTE_ID} /\ INVALID_IRTE_ID \notin Index
      /\ Held' = Held \cup IF op[p].idx = INVALID_IRTE_ID THEN {} ELSE {i}
  BY <1>1, Types, Using, IndexFacts, StoreInv DEF Inv, OpRec
<1>3. entry[i].irte \in {INVALID_IRTE_ID, op[p].idx} BY <1>1 DEF Inv, IndexHeld, AssignPc
<1> HIDE DEF i
<1>4. /\ op'[p].pc = "idle" /\ \A q \in Pcpu : q # p => op'[q] = op[q]
      /\ \A j \in Slot : /\ entry'[j].phys = entry[j].phys /\ entry'[j].users = entry[j].users
                         /\ entry'[j].irte = IF j = i THEN op[p].idx ELSE entry[j].irte
  BY <1>1, <1>2, Constants DEF EntryRec
<1>5. /\ Written' = Written \ {p} /\ Clearing' = Clearing
      /\ op[p].idx # INVALID_IRTE_ID => p \in Written
  BY <1>1, <1>2, <1>4 DEF Written, Clearing
<1>6. /\ \A q \in Written : q # p => op'[q] = op[q]
      /\ \A q \in Clearing : op'[q] = op[q] /\ q # p
      /\ \A q \in Written \cup Clearing : op[q].slot \in Slot
  BY <1>1, <1>4, Using DEF Written, Clearing
<1>7. \A j \in Held : j \in Slot /\ entry'[j].irte = entry[j].irte
  BY <1>3, <1>4 DEF Held
<1>8. op[p].idx # INVALID_IRTE_ID => i \in Held' /\ entry'[i].irte = op[p].idx
  BY <1>2, <1>4
<1>9. Tables'
  <2>1. ASSUME NEW x \in Index, ir_table'[x].present
        PROVE  (\E j \in Held' : entry'[j].irte = x) \/ \E q \in Written' : op'[q].idx = x
    <3>1. CASE \E j \in Held : entry[j].irte = x BY <1>2, <1>7, <3>1
    <3>2. CASE \E q \in Written : op[q].idx = x
      BY <1>2, <1>5, <1>6, <1>8, <2>1, <3>2
    <3> QED BY <1>1, <2>1, <3>1, <3>2 DEF Tables
  <2>2. ASSUME NEW j \in Held', ir_table'[entry'[j].irte].present PROVE Of(entry[j].irte, j)'
    <3>1. CASE j \in Held BY <1>1, <1>4, <1>7, <2>2, <3>1 DEF Tables, Of
    <3>2. CASE j \notin Held
      <4>1. j = i /\ p \in Written /\ entry'[j].irte = op[p].idx BY <1>2, <1>4, <1>5, <3>2
      <4>2. Of(op[p].idx, i) BY <4>1 DEF Tables, i
      <4> QED BY <1>1, <1>2, <1>4, <4>1, <4>2 DEF Of
    <3> QED BY <3>1, <3>2
  <2>3. \A q \in Written' : ir_table'[op'[q].idx].present /\ Of(op[q].idx, op[q].slot)'
    BY <1>1, <1>4, <1>5, <1>6 DEF Tables, Of
  <2>4. ASSUME NEW j \in Held'
        PROVE  ir_table'[entry'[j].irte].present \/ \E q \in Clearing' : op'[q].slot = j
    <3>1. CASE j \in Held BY <1>1, <1>5, <1>6, <1>7, <3>1 DEF Tables
    <3>2. CASE j \notin Held
      <4>1. p \in Written /\ entry'[j].irte = op[p].idx BY <1>2, <1>4, <1>5, <3>2
      <4> QED BY <1>1, <4>1 DEF Tables
    <3> QED BY <3>1, <3>2
  <2>5. \A q \in Clearing' : ~ ir_table'[op'[q].idx].present
    BY <1>1, <1>5, <1>6 DEF Tables
  <2> QED BY <2>1, <2>2, <2>3, <2>4, <2>5 DEF Tables
<1>10. Cached'
  <2>1. \A q \in Pcpu : op[q].pc \in {"invalidate", "flush"} =>
          op'[q] = op[q] /\ entry'[op[q].slot].phys = entry[op[q].slot].phys
    BY <1>1, <1>4, Using
  <2> QED BY <1>1, <2>1 DEF Cached
<1> QED BY <1>9, <1>10

LEMMA DeliverFree ==
  ASSUME Inv, VmHeld, Tables, Cached, NEW p \in Pcpu, FreeIrte(p), op[p].idx \in Index
  PROVE  Tables' /\ Cached'
<1> DEFINE i == op[p].slot
<1>1. /\ op[p].pc = "free" /\ op' = [op EXCEPT ![p].pc = "release"]
      /\ UNCHANGED <<ptdev_lock, entry, reserved, ir_table, iec, route, rsv>>
  BY DEF FreeIrte, Goto
<1>2. /\ op \in [Pcpu -> OpRec] /\ i \in Held /\ entry[i].irte = op[p].idx
      /\ Held' = Held \ {i}
  BY <1>1, Types, Using, FreeInv DEF Inv
<1>3. p \in Clearing BY <1>1 DEF Clearing
<1>4. ~ ir_table[entry[i].irte].present BY <1>2, <1>3 DEF Tables
<1>5. \A q \in Pcpu : /\ q # p => op'[q] = op[q]
                      /\ op'[q].pc = IF q = p THEN "release" ELSE op[q].pc
  BY <1>1, <1>2 DEF OpRec
<1>6. Written' = Written /\ Clearing' = Clearing \ {p} /\ p \notin Written
  BY <1>1, <1>5 DEF Written, Clearing
<1>7. \A q \in Written \cup Clearing : q # p => op'[q] = op[q]
  BY <1>5 DEF Written, Clearing
<1>8. Tables'
  <2>1. \A x \in Index : ir_table'[x].present =>
          (\E j \in Held' : entry'[j].irte = x) \/ \E q \in Written' : op'[q].idx = x
    BY <1>1, <1>2, <1>4, <1>6, <1>7 DEF Tables
  <2>2. \A j \in Held' : ir_table'[entry'[j].irte].present => Of(entry[j].irte, j)'
    BY <1>1, <1>2 DEF Tables, Of
  <2>3. \A q \in Written' : ir_table'[op'[q].idx].present /\ Of(op[q].idx, op[q].slot)'
    BY <1>1, <1>6, <1>7 DEF Tables, Of
  <2>4. \A j \in Held' : ir_table'[entry'[j].irte].present \/ \E q \in Clearing' : op'[q].slot = j
    BY <1>1, <1>2, <1>6, <1>7 DEF Tables
  <2>5. \A q \in Clearing' : ~ ir_table'[op'[q].idx].present
    BY <1>1, <1>6, <1>7 DEF Tables
  <2> QED BY <2>1, <2>2, <2>3, <2>4, <2>5 DEF Tables
<1>9. Cached'
  <2>1. \A q \in Pcpu : op[q].pc \in {"invalidate", "flush"} => op'[q] = op[q]
    BY <1>1, <1>5
  <2> QED BY <1>1, <2>1 DEF Cached
<1> QED BY <1>8, <1>9

LEMMA DeliverFetch ==
  ASSUME Inv, Tables, Cached, NEW idx \in Index, Fetch(idx)
  PROVE  Tables' /\ Cached'
<1>1. /\ iec' = [iec EXCEPT ![idx] = ir_table[idx]]
      /\ UNCHANGED <<ptdev_lock, entry, op, alloc, reserved, ir_table, route, rsv, damaged>>
  BY DEF Fetch
<1>2. iec \in [Index -> Irte] BY Types DEF Inv
<1>3. Held' = Held /\ Written' = Written /\ Clearing' = Clearing
  BY <1>1 DEF Held, Written, Clearing
<1>4. Tables' BY <1>1, <1>3 DEF Tables, Of
<1>5. Cached' BY <1>1, <1>2 DEF Cached
<1> QED BY <1>4, <1>5

LEMMA DeliverStep ==
  ASSUME Inv, VmHeld, VmHeld', Tables, Cached, Inv', [Next]_vars
  PROVE  Tables' /\ Cached'
<1>1. ASSUME UNCHANGED <<entry, op, ir_table, iec>> PROVE Keeps
  BY <1>1 DEF Keeps, SameUse, Held, Marked
<1>2. ASSUME NEW p \in Pcpu, NEW vm \in VM, MsiOperation(p, vm) PROVE Tables' /\ Cached'
  BY <1>2, PrepareInv, RemoveMsixInv, TablesKept DEF MsiOperation
<1>3. ASSUME NEW p \in Pcpu, NEW vm \in VM, PinOperation(p, vm) PROVE Tables' /\ Cached'
  BY <1>3, PinOperationInv, TablesKept
<1>4. ASSUME NEW p \in Pcpu, dmar_assign_irte(p) PROVE Tables' /\ Cached'
  BY <1>4, AllocInv, TablesKept, DeliverWrite, DeliverForget, DeliverStore DEF dmar_assign_irte
<1>5. ASSUME NEW p \in Pcpu, dmar_free_irte(p) PROVE Tables' /\ Cached'
  BY <1>5, DeliverClear, DeliverMiss, DeliverForget, DeliverFree, ReleaseInv, TablesKept
     DEF dmar_free_irte
<1>6. ASSUME NEW p \in Pcpu, dmar_reserve_irte(p) PROVE Tables' /\ Cached'
  <2>1. UNCHANGED <<entry, op, ir_table, iec>>
    BY <1>6 DEF dmar_reserve_irte, AllocBlock, LoadReserved, StoreReserved
  <2> QED BY <1>1, <2>1, TablesKept
<1>7. CASE UNCHANGED vars
  <2>1. UNCHANGED <<entry, op, ir_table, iec>> BY <1>7 DEF vars
  <2> QED BY <1>1, <2>1, TablesKept
<1> QED BY <1>2, <1>3, <1>4, <1>5, <1>6, <1>7, DeliverFetch DEF Next

LEMMA DeliverInit == Init => VmHeld /\ Tables /\ Cached
<1> SUFFICES ASSUME Init PROVE VmHeld /\ Tables /\ Cached OBVIOUS
<1>1. /\ \A i \in Slot : entry[i] = Free
      /\ \A p \in Pcpu : op[p] = Idle
      /\ \A x \in Index : ir_table[x] = Absent /\ iec[x] = Absent
  BY DEF Init
<1>2. Free.phys \notin Msi BY PtirqAssumption, Constants DEF Source
<1>3. Held = {} /\ Written = {} /\ Clearing = {}
  BY <1>1, Constants DEF Held, Written, Clearing
<1>4. VmHeld BY <1>1, <1>2, Constants DEF VmHeld
<1> QED BY <1>1, <1>3, <1>4 DEF Tables, Cached, Absent

LEMMA DeliveredHolds ==
  ASSUME Inv, VmHeld, Tables, Cached
  PROVE  Delivered
<1>1. ASSUME NEW s \in Msi, route[s] # INVALID_IRTE_ID, LetThrough(s, route[s]),
             ~ Busy(Resolved(route[s]).src)
      PROVE  \E i \in ByPhys(Resolved(route[s]).src) : Resolved(route[s]).vm \in entry[i].users
  <2> DEFINE x == route[s]
             t == Resolved(x).src
  <2>1. x \in Index /\ Resolved(x).present /\ Resolved(x).sid = Sid[s]
    BY <1>1, Types DEF Inv, LetThrough
  <2> HIDE DEF x
  <2>2. \A q \in Pcpu : op[q].pc # "idle" => entry[op[q].slot].phys # t
    BY <1>1, Using DEF Busy, x
  <2>3. Resolved(x) = ir_table[x] BY <2>1, <2>2 DEF Resolved, Cached
  <2>4. ~ \E q \in Written : op[q].idx = x
    BY <2>2, <2>3 DEF Tables, Of, Written
  <2>5. PICK i \in Held : entry[i].irte = x BY <2>1, <2>3, <2>4 DEF Tables
  <2>6. Of(x, i) /\ i \in Slot /\ entry[i].phys # None BY <2>1, <2>3, <2>5, Using DEF Tables
  <2>7. entry[i].phys \in Source /\ Sid[entry[i].phys] = Sid[s]
    BY <2>1, <2>3, <2>6, Types DEF Inv, EntryRec, Of
  <2>8. entry[i].phys \in Msi BY <2>7, PtirqAssumption DEF Source
  <2>9. i \in ByPhys(t) /\ ir_table[x].vm \in entry[i].users BY <2>3, <2>6, <2>8 DEF Of, ByPhys
  <2> QED BY <2>3, <2>9 DEF x
<1>2. ASSUME NEW i \in Held, ~ Busy(entry[i].phys)
      PROVE  /\ LetThrough(entry[i].phys, entry[i].irte)
             /\ Resolved(entry[i].irte).src = entry[i].phys
  <2> DEFINE x == entry[i].irte
  <2>1. x \in Index /\ i \in Slot BY Using
  <2>2. \A q \in Pcpu : op[q].slot # i BY <1>2, <2>1, Alone
  <2>3. ir_table[x].present /\ Of(x, i) BY <2>2 DEF Tables, Clearing
  <2>4. \A q \in Pcpu : op[q].pc \in {"invalidate", "flush"} => op[q].idx # x
    BY <2>1, <2>2, Using DEF Assigning, AssignPc
  <2>5. iec[x].present => iec[x] = ir_table[x] BY <2>1, <2>4 DEF Cached
  <2>6. Resolved(x) = ir_table[x] BY <2>5 DEF Resolved
  <2> QED BY <2>3, <2>6 DEF LetThrough, Of
<1> QED BY <1>1, <1>2 DEF Delivered

\* An interrupt that the IOMMU lets through is taken for that of a source that has an entry,
\* and goes to a VM this was given to; and that of a source that holds an index does get
\* through: what the cache or the table still has of an index freed and allocated again is
\* never about a source that is gone.  Which messages share a device does not matter; the
\* service VM and others may program the same message.
THEOREM Delivery == Spec => []Delivered
<1> DEFINE All == Inv /\ VmHeld /\ Tables /\ Cached
           IInv == ~ damaged => All
<1>1. Init => IInv BY InitInv, DeliverInit
<1>2. IInv /\ [Next]_vars => IInv'
  <2> SUFFICES ASSUME IInv, [Next]_vars, ~ damaged' PROVE All' OBVIOUS
  <2>1. All BY DamageStays
  <2> QED BY <2>1, StepInv, VmStep, DeliverStep
<1>3. IInv => Delivered BY DeliveredHolds DEF Delivered
<1> QED BY <1>1, <1>2, <1>3, PTL DEF Spec

=============================================================================
