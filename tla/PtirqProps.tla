----------------------------- MODULE PtirqProps -----------------------------
(***************************************************************************)
(* What remapping promises to the virtual machines.                        *)
(***************************************************************************)
EXTENDS Ptirq

\* Entries with an index, up to the point where it is freed, and programming under way.
Held ==
  {i \in Slot : entry[i].irte # INVALID_IRTE_ID
                 /\ \A p \in Pcpu : op[p].slot = i => op[p].pc # "release"}
Programming == {p \in Pcpu : op[p].pc \in {"write", "invalidate", "store"}}

\* Every variable keeps its type.  Every allocated index is reserved or set aside to be, or
\* that of an entry or of a pcpu at work on one: none is lost, whoever allocates while others
\* free.  No two sources share an index, and none has one of a block on its way to being
\* reserved.  All until a reserved bit is lost (n965:18) or a write for INVALID_IRTE_ID hits
\* something of this (v083:16, 23).
IrteOwned ==
  ~ damaged =>
    /\ TypeOK
    /\ alloc = reserved \cup Aside \cup {entry[i].irte : i \in Held}
                        \cup ({op[p].idx : p \in Programming} \ {INVALID_IRTE_ID})
    /\ \A i, j \in Held : entry[i].irte = entry[j].irte => i = j
    /\ \A p \in Programming : \A i \in Held :
         op[p].idx = entry[i].irte => op[p].slot = i
    /\ \A p, q \in Programming : op[p].idx = op[q].idx /\ op[p].idx \in Index => p = q
    /\ \A p, q \in Pcpu : p # q => rsv[p].block \cap rsv[q].block = {}
    /\ Aside \cap ({entry[i].irte : i \in Held} \cup {op[p].idx : p \in Programming}) = {}

\* What the unit makes of an interrupt: its cache goes before the table.
Resolved(idx) == IF iec[idx].present THEN iec[idx] ELSE ir_table[idx]

\* The unit lets it through if the entry is for the device.
LetThrough(s, idx) == Resolved(idx).present /\ Resolved(idx).sid = Sid[s]

\* A message interrupt that gets through is taken for that of a source which has an entry, or
\* is being worked on, and goes to a VM that add_msix_remapping gave this entry to: also with
\* entries freed, allocated again and cached in between, and with the source still sending
\* what it was last programmed with.  (It may be taken for another message of its device, and
\* the VM may be a second one: n928:8.)  The interrupt of a source whose entry has an index,
\* and that is not being worked on, does get through, as its own.  All until damage is done,
\* as above.
Delivered ==
  ~ damaged =>
    /\ \A s \in Msi : route[s] # INVALID_IRTE_ID /\ LetThrough(s, route[s]) =>
         LET irte == Resolved(route[s]) IN
         Busy(irte.src) \/ \E i \in ByPhys(irte.src) : irte.vm \in entry[i].users
    /\ \A i \in Held : ~ Busy(entry[i].phys) =>
         LetThrough(entry[i].phys, entry[i].irte) /\ Resolved(entry[i].irte).src = entry[i].phys

=============================================================================
