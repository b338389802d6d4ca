------------------------------ MODULE MCE1000 ------------------------------
EXTENDS E1000Props

Desc(kind, len, eop) ==
  [kind |-> kind, tse |-> kind # "legacy", hdr_len |-> 0, mss |-> 0, paylen |-> 0,
   len |-> len, eop |-> eop, rs |-> eop]
Context(hdr, mss, paylen) ==
  [Desc("context", 0, FALSE) EXCEPT !.hdr_len = hdr, !.mss = mss, !.paylen = paylen]

\* A plain packet; one in two pieces, without segmentation; segments cut inside the header and
\* inside a segment; a payload that is a multiple of the segment size.
MCJobs ==
  {<<Desc("legacy", 2, TRUE)>>,
   <<[Desc("data", 1, FALSE) EXCEPT !.tse = FALSE], [Desc("data", 2, TRUE) EXCEPT !.tse = FALSE]>>,
   <<Context(2, 2, 3), Desc("data", 1, FALSE), Desc("data", 4, TRUE)>>,
   <<Context(1, 2, 4), Desc("data", 5, TRUE)>>}

\* One side of the card at a time: receiving, sending, or the link with one packet.
Steady == s.LU /\ g.link = None /\ ~ s.autoneg_timer /\ s.ICR \cap {"MDAC", "LSC"} = {}
Receiving == Steady /\ jobs = <<>> /\ ~ s.TCTL /\ ~ s.loop /\ "TXQE" \notin s.ICR
Sending == Steady /\ s.arrived = 0 /\ (s.RCTL => s.loop) /\ (s.loop => Len(jobs) <= 1)
Linking == jobs = <<>> /\ s.arrived <= 1 /\ ~ s.TCTL /\ ~ s.loop
Within == Receiving \/ Sending \/ Linking

=============================================================================
