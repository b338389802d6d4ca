------------------------------ MODULE MCPtirq ------------------------------
EXTENDS PtirqProps, TLC

CONSTANTS sos, uos, m1, m2, m3, g1, g2, p1, p2, dev, other, ioapic

\* The first two messages are of one device.
Requester == m1 :> dev @@ m2 :> dev @@ m3 :> other @@ g1 :> ioapic @@ g2 :> ioapic

Cpus == {p1, p2}
SameCpus == Permutations(Cpus)

Never(s) == ByPhys(s) = {} /\ route[s] = INVALID_IRTE_ID

\* Two messages, of one device or two, or pins and one message; with pins or reserved
\* entries, the service VM has the messages.  Nothing is claimed once there is damage.
Within ==
  LET pins == {i \in Slot : entry[i].phys \in Gsi} IN
  /\ ~ damaged
  /\ Never(m3) \/ (Never(m2) /\ reserved \cup Aside = {})
  /\ pins = {} \/ (Never(m2) /\ Never(m3) /\ reserved \cup Aside = {})
  /\ \/ pins = {} /\ reserved \cup Aside = {}
     \/ \A i \in Slot \ pins : entry[i].users \subseteq {sos}

=============================================================================
