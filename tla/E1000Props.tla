----------------------------- MODULE E1000Props -----------------------------
(***************************************************************************)
(* What the card promises its guest and the network.                       *)
(***************************************************************************)
EXTENDS E1000

\* Every variable keeps its type, and the driver gets packets whole and in the order they came:
\* no packet is mixed with another or with what a descriptor held before, whatever the
\* sizes of buffers, and also when packets wait in the net layer or come by loopback.
WholeInOrder ==
  /\ TypeOK
  /\ \A n \in DOMAIN got :
       LET parts == got[n] IN
       /\ \A k \in DOMAIN parts : parts[k].pkt = parts[1].pkt
       /\ parts[1].off = 0 /\ parts[1].pkt.hit
       /\ \A k \in 2 .. Len(parts) : parts[k].off = parts[k - 1].off + parts[k - 1].len
       /\ Last(parts).off + Last(parts).len = parts[1].pkt.size + Fcs
  /\ \A m, n \in DOMAIN got :
       m < n /\ got[m][1].pkt.src = got[n][1].pkt.src => got[m][1].pkt.id < got[n][1].pkt.id

\* Nothing waits for good: with the driver at rest and interrupts enabled, a descriptor that is done
\* and not seen keeps the interrupt raised, whatever came between its reading the causes,
\* masking, its last look at the rings and unmasking; packets wait in the net layer, and
\* descriptors in the transmit ring, only as long as the card cannot take them.
NothingWaits ==
  /\ g.pc = "idle" /\ (s.rxd[g.next_rx].dd \/ Reported # {}) => s.irq
  /\ s.queue # <<>> => ~ e1000_can_receive(s)
  /\ s.TDH # s.TDT => ~ s.TCTL

\* Frames on the wire that belong to job n, in order.
Frames(n) == SelectSeq(s.wire, LAMBDA f : f.data # <<>> /\ f.data[1][1] = n)

Total(n) == Before(jobs[n], Len(jobs[n]) + 1)
Payload(f) == IF f.seg THEN SubSeq(f.data, f.hdr_len + 1, Len(f.data)) ELSE f.data

\* Segmentation sends every unit of payload once and in order, behind the header of its own
\* packet, with the sequence number of its first unit, PSH and FIN only in the frames
\* that reach the end, however the packet is cut into descriptors, and whatever was sent,
\* interrupted or reset before it.
SegmentsExact ==
  \A n \in DOMAIN jobs :
    LET fs == Frames(n)
        hdr == IF fs # <<>> /\ fs[1].seg THEN fs[1].hdr_len ELSE 0
        sent == FlattenSeq([k \in DOMAIN fs |-> Payload(fs[k])]) IN
    /\ sent = [k \in 1 .. Len(sent) |-> <<n, hdr + k>>]
    /\ hdr + Len(sent) <= Total(n)
    /\ \A k \in DOMAIN fs : fs[k].seg =>
         /\ SubSeq(fs[k].data, 1, hdr) = [i \in 1 .. hdr |-> <<n, i>>]
         /\ Payload(fs[k]) # <<>> => Payload(fs[k])[1] = <<n, hdr + fs[k].seq + 1>>
         /\ fs[k].fin <=> hdr + fs[k].seq + Len(Payload(fs[k])) = Total(n)
    /\ s.TDH = g.fill => hdr + Len(sent) = Total(n)

\* STATUS, the PHY and the net layer agree on the link, through negotiation, reset and migration, and
\* a driver at rest knows the link it was told of last, unless it negotiates.
LinkKnown ==
  /\ s.LU = s.phy_link /\ s.LU = ~ s.link_down
  /\ g.pc = "idle" /\ g.link # None /\ ~ s.irq => g.link = s.LU

=============================================================================
