------------------------------- MODULE E1000 -------------------------------
(***************************************************************************)
(* The e1000 network card that QEMU emulates: receive and transmit rings,  *)
(* interrupt causes, link.  Every register access, packet, timer and       *)
(* monitor command runs under the global lock, so a handler is one step;   *)
(* s is what it works on: E1000State, its NIC and the rings in guest       *)
(* memory.  The driver in the guest takes its steps in between.            *)
(*                                                                         *)
(* Ring lengths are counted in descriptors, sizes in units.  VLAN tags and *)
(* checksums are left out.                                                 *)
(* Names that end in _Bug are mutations of the definition they precede.    *)
(***************************************************************************)
EXTENDS Integers, Sequences, SequencesExt

CONSTANTS
  RxDescs, TxDescs, \* RDLEN and TDLEN.
  BufSizes,         \* Receive buffer sizes RCTL selects.
  MinShift,         \* rxbuf_min_shift.
  Fcs,              \* fcs_len.
  Sizes,            \* Sizes of packets from the network, padding included.
  Jobs,             \* What the guest may send: sequences of descriptors.
  MaxPackets,       \* Bound: packets from the network.
  MaxJobs,          \* Bound: jobs.
  None

Rx == 0 .. RxDescs - 1
Tx == 0 .. TxDescs - 1
Causes == {"RXT0", "RXDMT0", "RXO", "TXDW", "TXQE", "LSC", "MDAC"}

\* A descriptor to send.  tse, hdr_len and mss of a context are those of the packet
\* that follows; len units of data, the last of the packet with eop.
JobDesc == [kind : {"context", "data", "legacy"}, tse : BOOLEAN, hdr_len : Nat,
            mss : Nat, paylen : Nat, len : Nat, eop : BOOLEAN, rs : BOOLEAN]

ASSUME E1000Assumption ==
  /\ RxDescs \in Nat \ {0, 1} /\ TxDescs \in Nat \ {0, 1}
  /\ BufSizes \subseteq Nat \ {0} /\ Sizes \subseteq Nat \ {0} /\ {MinShift, Fcs} \subseteq Nat
  /\ \A j \in Jobs : j \in Seq(JobDesc) /\ Len(j) \in 1 .. TxDescs - 1
  /\ MaxPackets \in Nat /\ MaxJobs \in Nat

VARIABLES
  s,      \* E1000State: registers, rings (rxd, txd), tx, NIC (link_down, queue), timer.
          \* wire and arrived are history: frames sent, packets the network had.
  g,      \* The driver in the guest.
  got,    \* What the driver took from the receive ring, packet by packet.
  jobs    \* The jobs the driver posted.

vars == <<s, g, got, jobs>>

Unused == [dd |-> FALSE, eop |-> FALSE, pkt |-> None, off |-> 0, len |-> 0]
Empty == [d |-> None, job |-> 0, from |-> 0, dd |-> FALSE]
NoTx == [data |-> <<>>, header |-> <<>>, seq |-> 0, fin |-> TRUE, tse |-> FALSE, cptse |-> FALSE,
         hdr_len |-> 0, mss |-> 0, paylen |-> 0, frames |-> 0]

\* The registers after e1000_reset, with link_down and rxbuf_size as they are.
e1000_reset_LinkUp_Bug(d) ==
  [d EXCEPT !.RCTL = FALSE, !.RDH = 0, !.RDT = 0, !.TCTL = FALSE, !.TDH = 0, !.TDT = 0,
            !.ICR = {}, !.IMS = {}, !.loop = FALSE, !.tx = NoTx, !.autoneg_timer = FALSE,
            !.LU = TRUE, !.phy_link = TRUE]

e1000_reset_KeepsTx_Bug(d) ==
  [d EXCEPT !.RCTL = FALSE, !.RDH = 0, !.RDT = 0, !.TCTL = FALSE, !.TDH = 0, !.TDT = 0,
            !.ICR = {}, !.IMS = {}, !.loop = FALSE, !.autoneg_timer = FALSE,
            !.LU = ~ d.link_down, !.phy_link = ~ d.link_down]

e1000_reset(d) ==
  [d EXCEPT !.RCTL = FALSE, !.RDH = 0, !.RDT = 0, !.TCTL = FALSE, !.TDH = 0, !.TDT = 0,
            !.ICR = {}, !.IMS = {}, !.loop = FALSE, !.tx = NoTx, !.autoneg_timer = FALSE,
            !.LU = ~ d.link_down, !.phy_link = ~ d.link_down]

\* The driver before it has set up its rings.
Driver == [pc |-> "init", causes |-> {}, next_rx |-> 0, next_tx |-> 0, fill |-> 0,
           partial |-> <<>>, link |-> None]

NewState ==
  [RCTL |-> FALSE, rxbuf_size |-> 1, RDH |-> 0, RDT |-> 0, rxd |-> [i \in Rx |-> Unused],
   TCTL |-> FALSE, TDH |-> 0, TDT |-> 0, txd |-> [i \in Tx |-> Empty], tx |-> NoTx, wire |-> <<>>,
   ICR |-> {}, IMS |-> {}, irq |-> FALSE, LU |-> TRUE, phy_link |-> TRUE, loop |-> FALSE,
   link_down |-> FALSE, autoneg_timer |-> FALSE, queue |-> <<>>, arrived |-> 0]

Init ==
  /\ s = e1000_reset(NewState)
  /\ g = Driver
  /\ got = <<>> /\ jobs = <<>>

-----------------------------------------------------------------------------
(***************************************************************************)
(* Interrupt causes.                                                       *)
(***************************************************************************)
set_interrupt_cause(d, val) == [d EXCEPT !.ICR = val, !.irq = d.IMS \cap val # {}]

set_ics(d, val) == set_interrupt_cause(d, val \cup d.ICR)
set_icr(d, val) == set_interrupt_cause(d, d.ICR \ val)

set_ims_MaskOnly_Bug(d, val) == [d EXCEPT !.IMS = @ \cup val]

set_ims(d, val) == set_ics([d EXCEPT !.IMS = @ \cup val], {})
set_imc(d, val) == set_ics([d EXCEPT !.IMS = @ \ val], {})

\* Reading ICR clears it.
mac_icr_read(d) == set_interrupt_cause(d, {})

-----------------------------------------------------------------------------
(***************************************************************************)
(* Receive.                                                                *)
(***************************************************************************)
\* Descriptors the device may fill: from RDH to RDT.
RxFree(d) == (d.RDT - d.RDH) % RxDescs

e1000_has_rxbufs(d, total_size) ==
  IF total_size <= d.rxbuf_size THEN d.RDH # d.RDT
                                ELSE total_size <= RxFree(d) * d.rxbuf_size

e1000_can_receive(d) == d.RCTL /\ e1000_has_rxbufs(d, 1)

\* n descriptors filled with p, in the order of the ring.  Only EOP is set or cleared
\* anew: the driver zeroes DD alone.
Fill_StaleEop_Bug(d, p, n) ==
  [d EXCEPT
     !.rxd = [i \in Rx |->
        LET k == (i - d.RDH) % RxDescs
            off == k * d.rxbuf_size
            rest == p.size + Fcs - off IN
        IF k >= n THEN d.rxd[i]
        ELSE [dd |-> TRUE, eop |-> d.rxd[i].eop \/ rest <= d.rxbuf_size, pkt |-> p, off |-> off,
              len |-> IF rest < d.rxbuf_size THEN rest ELSE d.rxbuf_size]],
     !.RDH = (@ + n) % RxDescs]

Fill(d, p, n) ==
  [d EXCEPT
     !.rxd = [i \in Rx |->
        LET k == (i - d.RDH) % RxDescs
            off == k * d.rxbuf_size
            rest == p.size + Fcs - off IN
        IF k >= n THEN d.rxd[i]
        ELSE [dd |-> TRUE, eop |-> rest <= d.rxbuf_size, pkt |-> p, off |-> off,
              len |-> IF rest < d.rxbuf_size THEN rest ELSE d.rxbuf_size]],
     !.RDH = (@ + n) % RxDescs]

\* Back at the descriptor it started with, the device gives up.
e1000_receive(d, p) ==
  LET total_size == p.size + Fcs
      n == (total_size + d.rxbuf_size - 1) \div d.rxbuf_size IN
  IF ~ d.RCTL \/ ~ p.hit THEN d
  ELSE IF ~ e1000_has_rxbufs(d, total_size) THEN set_ics(d, {"RXO"})
  ELSE IF n >= RxDescs THEN set_ics(Fill(d, p, RxDescs), {"RXO"})
  ELSE set_ics(Fill(d, p, n),
               {"RXT0"} \cup IF (RxFree(d) - n) <= RxDescs \div 2 ^ MinShift THEN {"RXDMT0"} ELSE {})

\* The net layer drops what comes while the link is down.  It holds back packets the card
\* cannot receive, and hands over all of them, in order, when the card asks for them.
Deliver(d, p) == IF d.link_down THEN d ELSE e1000_receive(d, p)
Flush(d) == FoldLeft(Deliver, [d EXCEPT !.queue = <<>>], d.queue)

set_rdt(d, val) ==
  LET e == [d EXCEPT !.RDT = val] IN
  IF e1000_has_rxbufs(e, 1) THEN Flush(e) ELSE e

set_rx_control(d, en, size) == Flush([d EXCEPT !.RCTL = en, !.rxbuf_size = size])

-----------------------------------------------------------------------------
(***************************************************************************)
(* Transmit.                                                               *)
(***************************************************************************)
\* In loopback the card receives what it sends, in the middle of sending.
e1000_send_packet(d, f) ==
  LET e == [d EXCEPT !.wire = Append(@, f)] IN
  IF d.loop
    THEN e1000_receive(e, [src |-> "loop", id |-> Len(e.wire), size |-> Len(f.data), hit |-> TRUE])
    ELSE e

\* A segment's header is changed where it stands in data: sequence number, PSH and FIN.
xmit_seg(d) ==
  LET seg == d.tx.tse /\ d.tx.cptse
      sofar == IF seg THEN d.tx.frames * d.tx.mss ELSE 0
      seq == d.tx.seq + sofar
      fin == d.tx.fin /\ (seg => d.tx.paylen - sofar <= d.tx.mss) IN
  e1000_send_packet(
    [d EXCEPT !.tx.seq = seq, !.tx.fin = fin, !.tx.frames = IF seg THEN @ + 1 ELSE @],
    [data |-> d.tx.data, seg |-> seg, seq |-> seq, fin |-> fin, hdr_len |-> d.tx.hdr_len])

\* One more unit of data in a packet to be segmented.
AddUnit(d, u) ==
  LET data == Append(d.tx.data, u)
      e == [d EXCEPT !.tx.data = data,
                     !.tx.header = IF Len(data) = d.tx.hdr_len THEN data ELSE @] IN
  IF Len(data) = d.tx.hdr_len + d.tx.mss
    THEN [xmit_seg(e) EXCEPT !.tx.data = e.tx.header, !.tx.seq = 0, !.tx.fin = TRUE]
    ELSE e

Units(t) == [k \in 1 .. t.d.len |-> <<t.job, t.from + k>>]

SetContext(d, t) ==
  [d EXCEPT !.tx.tse = t.tse, !.tx.hdr_len = t.hdr_len, !.tx.mss = t.mss,
            !.tx.paylen = t.paylen, !.tx.frames = 0]

\* Data that asks for segmentation without a context for it is not read.
AddData(d, t) ==
  LET e == [d EXCEPT !.tx.cptse = (t.d.kind = "data" /\ t.d.tse)] IN
  IF ~ e.tx.cptse THEN [e EXCEPT !.tx.data = @ \o Units(t)]
  ELSE IF e.tx.tse THEN FoldLeft(AddUnit, e, Units(t))
  ELSE e

EndPacket(d) ==
  LET e == IF d.tx.tse /\ d.tx.cptse /\ Len(d.tx.data) < d.tx.hdr_len THEN d ELSE xmit_seg(d) IN
  [e EXCEPT !.tx.frames = 0, !.tx.data = <<>>, !.tx.cptse = FALSE, !.tx.seq = 0, !.tx.fin = TRUE]

process_tx_desc(d, t) ==
  IF t.d.kind = "context" THEN SetContext(d, t.d)
  ELSE IF t.d.eop THEN EndPacket(AddData(d, t))
  ELSE AddData(d, t)

\* One turn of start_xmit's loop, the cause of its write-back included.
XmitDesc(d, k) ==
  LET e == process_tx_desc(d, d.txd[d.TDH]) IN
  [e EXCEPT !.TDH = (@ + 1) % TxDescs, !.txd[d.TDH].dd = @ \/ d.txd[d.TDH].d.rs]

TxPending(d) == (d.TDT - d.TDH) % TxDescs

start_xmit(d) ==
  IF ~ d.TCTL THEN d
  ELSE set_ics(FoldLeft(XmitDesc, d, [k \in 1 .. TxPending(d) |-> k]),
         {"TXQE"} \cup IF \E k \in 0 .. TxPending(d) - 1 : d.txd[(d.TDH + k) % TxDescs].d.rs
                         THEN {"TXDW"} ELSE {})

\* Writes to TCTL and to TDT.
set_tctl(d, en) == start_xmit([d EXCEPT !.TCTL = en])
set_tdt(d, val) == start_xmit([d EXCEPT !.TDT = val])

-----------------------------------------------------------------------------
(***************************************************************************)
(* Link and PHY.                                                           *)
(***************************************************************************)
e1000_link_up(d) == [d EXCEPT !.LU = TRUE, !.phy_link = TRUE]
e1000_link_down(d) == [d EXCEPT !.LU = FALSE, !.phy_link = FALSE]

\* A write to PHY_CTRL that restarts negotiation, or not.
set_phy_ctrl(d, restart) ==
  IF restart THEN e1000_link_down([d EXCEPT !.link_down = TRUE, !.autoneg_timer = TRUE]) ELSE d

\* PHY_CTRL, the register of the PHY that can be written, is written through MDIC.
set_mdic(d, restart, loop, int_en) ==
  LET e == [set_phy_ctrl(d, restart) EXCEPT !.loop = loop] IN
  IF int_en THEN set_ics(e, {"MDAC"}) ELSE e

e1000_set_link_status(d) ==
  LET e == IF d.link_down THEN e1000_link_down(d) ELSE e1000_link_up(d) IN
  IF e.LU # d.LU THEN set_ics(e, {"LSC"}) ELSE e

-----------------------------------------------------------------------------
(***************************************************************************)
(* The world of the card.                                                  *)
(***************************************************************************)
\* A packet from the network, for this card or not.
NetPacket(size, hit) ==
  LET p == [src |-> "net", id |-> s.arrived + 1, size |-> size, hit |-> hit]
      d == [s EXCEPT !.arrived = @ + 1] IN
  /\ s.arrived < MaxPackets
  /\ s' = IF e1000_can_receive(d) THEN Flush(Deliver(d, p)) ELSE [d EXCEPT !.queue = Append(@, p)]
  /\ UNCHANGED <<g, got, jobs>>

e1000_autoneg_timer ==
  /\ s.autoneg_timer
  /\ s' = e1000_link_up([s EXCEPT !.autoneg_timer = FALSE, !.link_down = FALSE])
  /\ UNCHANGED <<g, got, jobs>>

\* The administrator switches the link.
SetLink(down) ==
  /\ s' = e1000_set_link_status([s EXCEPT !.link_down = down])
  /\ UNCHANGED <<g, got, jobs>>

\* In the process the machine moves to nothing is queued, the link is up; nothing in src
\* says whether the timer moves too.
e1000_post_load ==
  /\ \E t \in {s.autoneg_timer, FALSE} :
       s' = [s EXCEPT !.queue = <<>>, !.autoneg_timer = t, !.link_down = ~ s.LU]
  /\ UNCHANGED <<g, got, jobs>>

\* The machine restarts: the bus lowers the interrupt, and what the guest did is forgotten.
qdev_e1000_reset ==
  /\ s' = [e1000_reset(s) EXCEPT !.irq = FALSE, !.wire = <<>>,
             !.rxd = [i \in Rx |-> Unused], !.txd = [i \in Tx |-> Empty]]
  /\ g' = Driver /\ got' = <<>> /\ jobs' = <<>>

-----------------------------------------------------------------------------
(***************************************************************************)
(* The driver in the guest.                                                *)
(***************************************************************************)
\* It sets up the card in any order and enables interrupts last.
Configure ==
  /\ \/ \E en \in BOOLEAN, size \in BufSizes :
          /\ g.pc # "init" => size = s.rxbuf_size
          /\ s' = set_rx_control(s, en, size)
     \/ s' = set_tctl(s, ~ s.TCTL)
     \/ /\ g.pc = "init"
        /\ \E loop \in BOOLEAN : s' = set_mdic(s, FALSE, loop, FALSE)
  /\ UNCHANGED <<g, got, jobs>>

\* Restarting negotiation it polls for the link.
Negotiate ==
  /\ g.pc # "init"
  /\ \E int_en \in BOOLEAN : s' = set_mdic(s, TRUE, s.loop, int_en)
  /\ g' = [g EXCEPT !.link = None]
  /\ UNCHANGED <<got, jobs>>

\* It has the rings looked at without cause, or takes back the cause of what it knows.
Watchdog ==
  /\ g.pc = "idle"
  /\ s' \in {set_ics(s, {"RXDMT0"}), set_icr(s, {"RXO"})}
  /\ UNCHANGED <<g, got, jobs>>

\* Descriptors it has done with, all but one, go back to the card.
Refill ==
  /\ \E v \in Rx :
       /\ (v - s.RDT) % RxDescs \in 1 .. (g.next_rx - 1 - s.RDT) % RxDescs
       /\ s' = set_rdt(s, v)
  /\ UNCHANGED <<g, got, jobs>>

\* Units of data before the k-th descriptor of j.
Before(j, k) == FoldLeft(LAMBDA n, t : n + t.len, 0, SubSeq(j, 1, k - 1))

\* A job is put into the ring, and the card told of it, of a part or of several at once.
Post(j) ==
  LET n == Len(jobs) + 1 IN
  /\ g.pc # "init" /\ n <= MaxJobs
  /\ Len(j) <= (g.next_tx - g.fill - 1) % TxDescs
  /\ s' = [s EXCEPT !.txd = [i \in Tx |->
             LET k == ((i - g.fill) % TxDescs) + 1 IN
             IF k > Len(j) THEN s.txd[i]
                           ELSE [d |-> j[k], job |-> n, from |-> Before(j, k), dd |-> FALSE]]]
  /\ g' = [g EXCEPT !.fill = (@ + Len(j)) % TxDescs]
  /\ jobs' = Append(jobs, j)
  /\ UNCHANGED got

Kick ==
  /\ \E n \in 1 .. (g.fill - s.TDT) % TxDescs : s' = set_tdt(s, (s.TDT + n) % TxDescs)
  /\ UNCHANGED <<g, got, jobs>>

\* The interrupt: it reads the causes, and masks them to poll the rings.
Interrupt ==
  /\ g.pc = "idle" /\ s.irq
  /\ s' = mac_icr_read(s)
  /\ g' = [g EXCEPT !.pc = "mask", !.causes = s.ICR]
  /\ UNCHANGED <<got, jobs>>

Mask ==
  /\ g.pc = "mask"
  /\ s' = set_imc(s, Causes)
  /\ g' = [g EXCEPT !.pc = "poll"]
  /\ UNCHANGED <<got, jobs>>

\* While the card negotiates the link is not known.
ReadLink ==
  /\ g.pc = "poll" /\ "LSC" \in g.causes
  /\ g' = [g EXCEPT !.causes = @ \ {"LSC"}, !.link = IF s.autoneg_timer THEN None ELSE s.LU]
  /\ UNCHANGED <<s, got, jobs>>

\* A filled descriptor is read and its DD zeroed.
Clean ==
  LET t == s.rxd[g.next_rx] IN
  /\ g.pc = "poll" /\ t.dd
  /\ s' = [s EXCEPT !.rxd[g.next_rx].dd = FALSE]
  /\ LET parts == Append(g.partial, [pkt |-> t.pkt, off |-> t.off, len |-> t.len]) IN
     /\ g' = [g EXCEPT !.next_rx = (@ + 1) % RxDescs, !.partial = IF t.eop THEN <<>> ELSE parts]
     /\ got' = IF t.eop THEN Append(got, parts) ELSE got
  /\ UNCHANGED jobs

\* Descriptors up to the first that reports status, when that one is done.
Reported == {k \in 0 .. ((g.fill - g.next_tx) % TxDescs) - 1 :
               s.txd[(g.next_tx + k) % TxDescs].dd}
Reclaim ==
  /\ g.pc = "poll"
  /\ \E k \in Reported :
       /\ \A m \in Reported : k <= m
       /\ s' = [s EXCEPT !.txd[(g.next_tx + k) % TxDescs].dd = FALSE]
       /\ g' = [g EXCEPT !.next_tx = (@ + k + 1) % TxDescs]
  /\ UNCHANGED <<got, jobs>>

\* Nothing found, it enables interrupts in a step of its own.
PollDone ==
  /\ g.pc = "poll" /\ ~ s.rxd[g.next_rx].dd /\ Reported = {} /\ "LSC" \notin g.causes
  /\ g' = [g EXCEPT !.pc = "unmask"]
  /\ UNCHANGED <<s, got, jobs>>

Unmask ==
  /\ g.pc \in {"init", "unmask"}
  /\ s' = set_ims(s, Causes)
  /\ g' = [g EXCEPT !.pc = "idle", !.causes = {}]
  /\ UNCHANGED <<got, jobs>>

-----------------------------------------------------------------------------
Next ==
  \/ \E size \in Sizes, hit \in BOOLEAN : NetPacket(size, hit)
  \/ e1000_autoneg_timer \/ e1000_post_load \/ qdev_e1000_reset
  \/ \E down \in BOOLEAN : SetLink(down)
  \/ Configure \/ Negotiate \/ Watchdog \/ Refill \/ Kick
  \/ \E j \in Jobs : Post(j)
  \/ Interrupt \/ Mask \/ ReadLink \/ Clean \/ Reclaim \/ PollDone \/ Unmask

Spec == Init /\ [][Next]_vars

TypeOK ==
  /\ {s.RDH, s.RDT, g.next_rx} \subseteq Rx
  /\ {s.TDH, s.TDT, g.next_tx, g.fill} \subseteq Tx
  /\ s.ICR \subseteq Causes /\ s.IMS \subseteq Causes
  /\ {s.RCTL, s.TCTL, s.irq, s.LU, s.phy_link, s.loop, s.link_down, s.autoneg_timer} \subseteq BOOLEAN
  /\ s.rxd \in [Rx -> [dd : BOOLEAN, eop : BOOLEAN, off : Nat, len : Nat,
                       pkt : {None} \cup [src : {"net", "loop"}, id : Nat, size : Nat, hit : BOOLEAN]]]
  /\ g.pc \in {"init", "idle", "mask", "poll", "unmask"} /\ g.link \in BOOLEAN \cup {None}
  /\ jobs \in Seq(Jobs)

=============================================================================
