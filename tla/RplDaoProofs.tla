---------------------------- MODULE RplDaoProofs ----------------------------
(***************************************************************************)
(* What is proved of registration in storing mode, for every tree, number  *)
(* of retransmissions and size of routing tables: the types, and that no   *)
(* DAO is forgotten but in the two cases the code ends silently.           *)
(***************************************************************************)
EXTENDS RplDaoProps, TLAPS

NodeState ==
  [dao_sequence : Seqno, my_dao_seqno : Seqno,
   my_dao_transmissions : 0 .. RPL_DAO_MAX_RETRANSMISSIONS,
   dao_retransmit_timer : BOOLEAN, has_downward_route : BOOLEAN,
   answer : Answer, silent : BOOLEAN, sent : 0 .. MaxDaos]

RouteState ==
  [dao_seqno_in : Seqno, dao_seqno_out : Seqno, pending : BOOLEAN, nopath : BOOLEAN,
   nexthop : Node]

\* A node that waits for an answer has its timer running, but for the two silent ends,
\* and has given up after the last repeat only.
Awaited(q) ==
  LET exhausted == q.my_dao_transmissions = RPL_DAO_MAX_RETRANSMISSIONS IN
  /\ q.answer = "none" /\ q.sent > 0 =>
       q.dao_retransmit_timer \/ q.silent \/ (infinite /\ exhausted)
  /\ q.answer = "timeout" => exhausted /\ ~ infinite

\* RPL_LOLLIPOP_INCREMENT stays within a byte.
LEMMA LollipopType == \A seq \in Seqno : Lollipop(seq) \in Seqno
BY DEF Lollipop, Seqno

LEMMA ParentType == \A n \in Others : Parent[n] \in Node
BY TreeAssumption

\* NoRoute and a new route are routes.
LEMMA RouteTypes ==
  /\ NoRoute \in RouteState
  /\ \A c \in Node : [NewRoute EXCEPT !.nexthop = c] \in RouteState
<1>1. NewRoute \in RouteState
  BY TreeAssumption DEF NewRoute, RouteState, Seqno
<1>. QED  BY <1>1 DEF NoRoute, RouteState

LEMMA MessageTypes ==
  /\ \A t \in Others, seq \in Seqno, lt \in Lifetime : DAO(t, seq, lt) \in Message
  /\ \A seq \in Seqno, st \in {"accept", "reject"} : ACK(seq, st) \in Message
BY DEF DAO, ACK, Message

Links == [Node -> [Node -> Seq(Message)]]

\* What is sent is appended, what is received is taken away.
LEMMA SendType ==
  ASSUME NEW l \in Links, NEW n \in Node, NEW m \in Node, NEW msg \in Message
  PROVE  Send(l, n, m, msg) \in Links
<1>1. Append(l[n][m], msg) \in Seq(Message)
  BY DEF Links
<1>. QED  BY <1>1 DEF Send, Links

LEMMA TailType ==
  ASSUME NEW l \in Links, NEW n \in Node, NEW m \in Node, l[n][m] # <<>>
  PROVE  [l EXCEPT ![n][m] = Tail(@)] \in Links
<1>1. Tail(l[n][m]) \in Seq(Message)
  BY DEF Links
<1>. QED  BY <1>1 DEF Links

\* A message received is one of the two kinds.
LEMMA HeadType ==
  ASSUME NEW l \in Links, NEW n \in Node, NEW m \in Node, l[n][m] # <<>>
  PROVE  /\ Head(l[n][m]) \in Message
         /\ Head(l[n][m]).seq \in Seqno
         /\ Head(l[n][m]).type = "DAO" => Head(l[n][m]).target \in Others
         /\ Head(l[n][m]).type = "ACK" => Head(l[n][m]).status \in {"accept", "reject"}
<1>1. Head(l[n][m]) \in Message
  BY DEF Links
<1>. QED  BY <1>1 DEF Message

-----------------------------------------------------------------------------
(***************************************************************************)
(* The invariant in three parts, one for each variable.                    *)
(***************************************************************************)
NodesOK ==
  /\ node \in [Node -> NodeState] /\ infinite \in BOOLEAN
  /\ \A n \in Others : Awaited(node[n])
RoutesOK == route \in [Node -> [Others -> RouteState]]
LinksOK == link \in Links

LEMMA Parts == NotForgotten <=> NodesOK /\ RoutesOK /\ LinksOK
BY DEF NotForgotten, TypeOK, NodesOK, RoutesOK, LinksOK, NodeState, RouteState, Links, Awaited

\* Another state for one node.
LEMMA NodeStep ==
  ASSUME NodesOK, NEW n \in Node, NEW q \in NodeState, n \in Others => Awaited(q),
         node' = [node EXCEPT ![n] = q], infinite' = infinite
  PROVE  NodesOK'
BY DEF NodesOK, Others, Awaited

LEMMA NodesKept ==
  ASSUME NodesOK, UNCHANGED <<node, infinite>>
  PROVE  NodesOK'
BY DEF NodesOK, Awaited

\* Another route of one node.
LEMMA RouteStep ==
  ASSUME RoutesOK, NEW n \in Node, NEW t \in Others, NEW r \in RouteState,
         route' = [route EXCEPT ![n][t] = r]
  PROVE  RoutesOK'
BY DEF RoutesOK

LEMMA InitOK == Init => NodesOK /\ RoutesOK /\ LinksOK
<1>. SUFFICES ASSUME Init PROVE NodesOK /\ RoutesOK /\ LinksOK
  OBVIOUS
<1>1. NodesOK
  BY BoundAssumption DEF Init, NodesOK, NodeState, Awaited, Seqno, Answer, Others
<1>2. RoutesOK
  BY RouteTypes DEF Init, RoutesOK
<1>3. <<>> \in Seq(Message)
  OBVIOUS
<1>4. LinksOK
  BY <1>3 DEF Init, LinksOK, Links
<1>. QED  BY <1>1, <1>2, <1>4

-----------------------------------------------------------------------------
LEMMA OutputStep ==
  ASSUME NodesOK, RoutesOK, LinksOK, NEW n \in Others, NEW lt \in Lifetime, dao_output(n, lt)
  PROVE  NodesOK' /\ RoutesOK' /\ LinksOK'
<1>1. PICK seq \in Seqno : seq = Lollipop(node[n].dao_sequence)
  BY LollipopType DEF NodesOK, NodeState, Others
<1>2. n \in Node /\ Parent[n] \in Node
  BY ParentType DEF Others
<1>3. PICK q : q = IF lt = "zero"
       THEN [node[n] EXCEPT !.sent = @ + 1, !.dao_sequence = seq, !.answer = "withdrawn"]
       ELSE [node[n] EXCEPT !.sent = @ + 1, !.dao_sequence = seq, !.my_dao_seqno = seq,
                            !.my_dao_transmissions = 1, !.dao_retransmit_timer = TRUE,
                            !.answer = "none", !.silent = FALSE]
  OBVIOUS
<1>4. node' = [node EXCEPT ![n] = q]
  BY <1>1, <1>3, Zenon DEF dao_output
<1>5. q \in NodeState /\ Awaited(q)
  <2>1. node[n] \in NodeState /\ node[n].sent + 1 \in 0 .. MaxDaos
    BY <1>2, BoundAssumption DEF dao_output, NodesOK, NodeState
  <2>2. 1 \in 0 .. RPL_DAO_MAX_RETRANSMISSIONS
    BY BoundAssumption
  <2>3. CASE lt = "zero"
    BY <1>1, <1>3, <2>1, <2>3 DEF NodeState, Awaited, Answer
  <2>4. CASE lt # "zero"
    BY <1>1, <1>3, <2>1, <2>2, <2>4 DEF NodeState, Awaited, Answer
  <2>. QED  BY <2>3, <2>4
<1>6. NodesOK'
  BY <1>2, <1>4, <1>5, NodeStep DEF dao_output
<1>7. LinksOK'
  BY <1>1, <1>2, MessageTypes, SendType DEF dao_output, LinksOK
<1>. QED  BY <1>6, <1>7 DEF dao_output, RoutesOK

LEMMA RetransmissionStep ==
  ASSUME NodesOK, RoutesOK, LinksOK, NEW n \in Others, handle_dao_retransmission(n)
  PROVE  NodesOK' /\ RoutesOK' /\ LinksOK'
<1>1. n \in Node /\ Parent[n] \in Node /\ node[n] \in NodeState /\ Awaited(node[n])
  BY ParentType DEF Others, NodesOK
<1>2. infinite' = infinite /\ RoutesOK'
  BY DEF handle_dao_retransmission, RoutesOK
<1>3. PICK repeat : repeat = [node[n] EXCEPT !.my_dao_transmissions = @ + 1]
  OBVIOUS
<1>4. PICK silent : silent = [node[n] EXCEPT !.dao_retransmit_timer = FALSE, !.silent = TRUE]
  OBVIOUS
<1>5. PICK over : over = [node[n] EXCEPT !.dao_retransmit_timer = FALSE,
                                         !.answer = IF infinite THEN @ ELSE "timeout"]
  OBVIOUS
<1>6. CASE /\ node[n].my_dao_transmissions < RPL_DAO_MAX_RETRANSMISSIONS
           /\ node' = [node EXCEPT ![n].my_dao_transmissions = @ + 1]
           /\ link' = Send(link, n, Parent[n], DAO(n, node[n].my_dao_seqno, "default"))
  <2>1. node' = [node EXCEPT ![n] = repeat]
    BY <1>1, <1>3, <1>6 DEF NodesOK
  <2>2. node[n].dao_retransmit_timer
    BY DEF handle_dao_retransmission
  <2>3. repeat \in NodeState /\ Awaited(repeat)
    BY <1>1, <1>3, <1>6, <2>2, BoundAssumption DEF NodeState, Awaited
  <2>4. NodesOK'
    BY <1>1, <1>2, <2>1, <2>3, NodeStep
  <2>5. DAO(n, node[n].my_dao_seqno, "default") \in Message
    BY <1>1, MessageTypes DEF NodeState, Lifetime
  <2>6. LinksOK'
    BY <1>1, <1>6, <2>5, SendType DEF LinksOK
  <2>. QED  BY <1>2, <2>4, <2>6
<1>7. CASE /\ node[n].my_dao_transmissions < RPL_DAO_MAX_RETRANSMISSIONS
           /\ node' = [node EXCEPT ![n].dao_retransmit_timer = FALSE, ![n].silent = TRUE]
           /\ UNCHANGED link
  <2>1. node' = [node EXCEPT ![n] = silent]
    BY <1>1, <1>4, <1>7 DEF NodesOK
  <2>2. silent \in NodeState /\ Awaited(silent)
    BY <1>1, <1>4 DEF NodeState, Awaited
  <2>3. NodesOK'
    BY <1>1, <1>2, <2>1, <2>2, NodeStep
  <2>. QED  BY <1>2, <1>7, <2>3 DEF LinksOK
<1>8. CASE /\ ~ (node[n].my_dao_transmissions < RPL_DAO_MAX_RETRANSMISSIONS)
           /\ node' = [node EXCEPT ![n].dao_retransmit_timer = FALSE,
                                   ![n].answer = IF infinite THEN @ ELSE "timeout"]
           /\ UNCHANGED link
  <2>1. node' = [node EXCEPT ![n] = over]
    BY <1>1, <1>5, <1>8 DEF NodesOK
  <2>2. node[n].my_dao_transmissions = RPL_DAO_MAX_RETRANSMISSIONS
    BY <1>1, <1>8, BoundAssumption DEF NodeState
  <2>3. over \in NodeState /\ Awaited(over)
    <3>1. CASE infinite
      BY <1>1, <1>5, <2>2, <3>1 DEF NodeState, Awaited
    <3>2. CASE ~ infinite
      BY <1>1, <1>5, <2>2, <3>2 DEF NodeState, Awaited, Answer
    <3>. QED  BY <3>1, <3>2
  <2>4. NodesOK'
    BY <1>1, <1>2, <2>1, <2>3, NodeStep
  <2>. QED  BY <1>2, <1>8, <2>4 DEF LinksOK
<1>. QED  BY <1>6, <1>7, <1>8 DEF handle_dao_retransmission

-----------------------------------------------------------------------------
\* What prepare_for_dao_fwd makes of a node and a route.
LEMMA ForwardType ==
  ASSUME NodesOK, NEW n \in Node, NEW rep \in RouteState, NEW seq \in Seqno
  PROVE  /\ prepare_for_dao_fwd(n, rep, seq).node \in NodeState
         /\ n \in Others => Awaited(prepare_for_dao_fwd(n, rep, seq).node)
         /\ prepare_for_dao_fwd(n, rep, seq).rep \in RouteState
         /\ prepare_for_dao_fwd(n, rep, seq).rep.dao_seqno_out \in Seqno
<1>1. node[n] \in NodeState /\ (n \in Others => Awaited(node[n]))
  BY DEF NodesOK
<1>2. PICK out \in Seqno : out = Lollipop(node[n].dao_sequence)
  BY <1>1, LollipopType DEF NodeState
<1>3. PICK q : q = [node[n] EXCEPT !.dao_sequence = out]
  OBVIOUS
<1>4. PICK r : r = [rep EXCEPT !.dao_seqno_in = seq, !.dao_seqno_out = out, !.pending = TRUE]
  OBVIOUS
<1>5. prepare_for_dao_fwd(n, rep, seq) = [node |-> q, rep |-> r]
  BY <1>2, <1>3, <1>4 DEF prepare_for_dao_fwd
<1>6. q \in NodeState /\ (n \in Others => Awaited(q))
  BY <1>1, <1>3 DEF NodeState, Awaited
<1>7. r \in RouteState /\ r.dao_seqno_out \in Seqno
  BY <1>4 DEF RouteState
<1>. QED  BY <1>5, <1>6, <1>7

\* A child's link leads to a node.
LEMMA ChildType == \A n \in Node : \A c \in Child(n) : c \in Node /\ c \in Others
BY DEF Child, Others

LEMMA ReceivedType ==
  ASSUME LinksOK, NEW n \in Node, NEW c \in Node, NEW ty, Receives(n, c, ty)
  PROVE  Received(n, c) \in Links
BY TailType DEF Receives, Received, LinksOK

LEMMA NoPathStep ==
  ASSUME NodesOK, RoutesOK, LinksOK, NEW n \in Node, NEW c \in Child(n), NoPathDao(n, c)
  PROVE  NodesOK' /\ RoutesOK' /\ LinksOK'
<1>1. PICK dao : dao = Head(link[c][n])
  OBVIOUS
<1>2. c \in Node /\ Receives(n, c, "DAO")
  BY ChildType DEF NoPathDao
<1>3. dao.seq \in Seqno /\ dao.target \in Others
  BY <1>1, <1>2, HeadType DEF Receives, LinksOK
<1>4. Received(n, c) \in Links
  BY <1>2, ReceivedType
<1>5. PICK rep : rep = route[n][dao.target]
  OBVIOUS
<1>6. rep \in RouteState
  BY <1>3, <1>5 DEF RoutesOK
<1>7. PICK cut : cut = [rep EXCEPT !.nopath = TRUE]
  OBVIOUS
<1>8. cut \in RouteState
  BY <1>6, <1>7 DEF RouteState
<1>9. PICK fwd : fwd = prepare_for_dao_fwd(n, cut, dao.seq)
  OBVIOUS
<1>10. /\ fwd.node \in NodeState /\ (n \in Others => Awaited(fwd.node))
       /\ fwd.rep \in RouteState /\ fwd.rep.dao_seqno_out \in Seqno
  BY <1>3, <1>8, <1>9, ForwardType
<1>11. IF rep.nopath \/ rep.nexthop # c
       THEN link' = Received(n, c) /\ UNCHANGED <<node, route>>
       ELSE IF n = Root
       THEN /\ route' = [route EXCEPT ![n][dao.target].nopath = TRUE]
            /\ link' = Received(n, c)
            /\ UNCHANGED node
       ELSE /\ route' = [route EXCEPT ![n][dao.target] = fwd.rep]
            /\ node' = [node EXCEPT ![n] = fwd.node]
            /\ link' = Send(Received(n, c), n, Parent[n],
                            DAO(dao.target, fwd.rep.dao_seqno_out, "zero"))
  BY <1>1, <1>5, <1>7, <1>9, Zenon DEF NoPathDao
<1>15. infinite' = infinite
  BY DEF NoPathDao
<1>12. CASE rep.nopath \/ rep.nexthop # c
  BY <1>4, <1>11, <1>12, <1>15, NodesKept DEF RoutesOK, LinksOK
<1>13. CASE ~ (rep.nopath \/ rep.nexthop # c) /\ n = Root
  <2>1. route' = [route EXCEPT ![n][dao.target] = cut]
    BY <1>3, <1>5, <1>7, <1>11, <1>13 DEF RoutesOK
  <2>2. RoutesOK'
    BY <1>3, <1>8, <2>1, RouteStep
  <2>. QED  BY <1>4, <1>11, <1>13, <1>15, <2>2, NodesKept DEF LinksOK
<1>14. CASE ~ (rep.nopath \/ rep.nexthop # c) /\ n # Root
  <2>1. n \in Others /\ Parent[n] \in Node
    BY <1>14, ParentType DEF Others
  <2>2. RoutesOK'
    BY <1>3, <1>10, <1>11, <1>14, RouteStep
  <2>3. NodesOK'
    BY <1>10, <1>11, <1>14, <1>15, NodeStep
  <2>4. DAO(dao.target, fwd.rep.dao_seqno_out, "zero") \in Message
    BY <1>3, <1>10, MessageTypes DEF Lifetime
  <2>5. LinksOK'
    BY <1>4, <1>11, <1>14, <2>1, <2>4, SendType DEF LinksOK
  <2>. QED  BY <2>2, <2>3, <2>5
<1>. QED  BY <1>12, <1>13, <1>14

LEMMA RejectedStep ==
  ASSUME NodesOK, RoutesOK, LinksOK, NEW n \in Node, NEW c \in Child(n), DaoRejected(n, c)
  PROVE  NodesOK' /\ RoutesOK' /\ LinksOK'
<1>1. c \in Node /\ Receives(n, c, "DAO")
  BY ChildType DEF DaoRejected
<1>2. Head(link[c][n]).seq \in Seqno
  BY <1>1, HeadType DEF Receives, LinksOK
<1>3. ACK(Head(link[c][n]).seq, "reject") \in Message
  BY <1>2, MessageTypes
<1>4. Received(n, c) \in Links
  BY <1>1, ReceivedType
<1>5. LinksOK'
  BY <1>1, <1>3, <1>4, SendType DEF DaoRejected, LinksOK
<1>. QED  BY <1>5, NodesKept DEF DaoRejected, RoutesOK

LEMMA AcceptedStep ==
  ASSUME NodesOK, RoutesOK, LinksOK, NEW n \in Node, NEW c \in Child(n), DaoAccepted(n, c)
  PROVE  NodesOK' /\ RoutesOK' /\ LinksOK'
<1>1. PICK dao : dao = Head(link[c][n])
  OBVIOUS
<1>2. c \in Node /\ Receives(n, c, "DAO")
  BY ChildType DEF DaoAccepted
<1>3. dao.seq \in Seqno /\ dao.target \in Others
  BY <1>1, <1>2, HeadType DEF Receives, LinksOK
<1>4. Received(n, c) \in Links
  BY <1>2, ReceivedType
<1>5. PICK rep : rep = AddedRoute(n, dao.target, c)
  OBVIOUS
<1>6. rep \in RouteState
  <2>1. CASE route[n][dao.target] = NoRoute \/ route[n][dao.target].nexthop # c
    BY <1>2, <1>5, <2>1, RouteTypes DEF AddedRoute
  <2>2. CASE ~ (route[n][dao.target] = NoRoute \/ route[n][dao.target].nexthop # c)
    <3>1. route[n][dao.target] \in RouteState
      BY <1>3 DEF RoutesOK
    <3>. QED  BY <1>5, <2>2, <3>1 DEF AddedRoute, RouteState
  <2>. QED  BY <2>1, <2>2
<1>7. PICK fwd : fwd = IF rep.pending /\ rep.dao_seqno_in = dao.seq
                       THEN [node |-> node[n], rep |-> rep]
                       ELSE prepare_for_dao_fwd(n, rep, dao.seq)
  OBVIOUS
<1>8. /\ fwd.node \in NodeState /\ (n \in Others => Awaited(fwd.node))
      /\ fwd.rep \in RouteState /\ fwd.rep.dao_seqno_out \in Seqno
  <2>1. CASE rep.pending /\ rep.dao_seqno_in = dao.seq
    <3>1. fwd = [node |-> node[n], rep |-> rep]
      BY <1>7, <2>1
    <3>2. node[n] \in NodeState /\ (n \in Others => Awaited(node[n]))
      BY DEF NodesOK
    <3>3. rep.dao_seqno_out \in Seqno
      BY <1>6 DEF RouteState
    <3>. QED  BY <1>6, <3>1, <3>2, <3>3
  <2>2. CASE ~ (rep.pending /\ rep.dao_seqno_in = dao.seq)
    <3>1. fwd = prepare_for_dao_fwd(n, rep, dao.seq)
      BY <1>7, <2>2
    <3>. QED  BY <1>3, <1>6, <3>1, ForwardType
  <2>. QED  BY <2>1, <2>2
<1>9. PICK acked : acked = IF ShouldAck(n, rep, dao.seq)
                           THEN Send(Received(n, c), n, c, ACK(dao.seq, "accept"))
                           ELSE Received(n, c)
  OBVIOUS
<1>10. acked \in Links
  <2>1. ACK(dao.seq, "accept") \in Message
    BY <1>3, MessageTypes
  <2>. QED  BY <1>2, <1>4, <1>9, <2>1, SendType
<1>11. IF n = Root
       THEN /\ route' = [route EXCEPT ![n][dao.target] = rep]
            /\ link' = acked
            /\ UNCHANGED node
       ELSE /\ route' = [route EXCEPT ![n][dao.target] = fwd.rep]
            /\ node' = [node EXCEPT ![n] = fwd.node]
            /\ link' = Send(acked, n, Parent[n],
                            DAO(dao.target, fwd.rep.dao_seqno_out, "default"))
  BY <1>1, <1>5, <1>7, <1>9, Zenon DEF DaoAccepted
<1>14. infinite' = infinite
  BY DEF DaoAccepted
<1>12. CASE n = Root
  <2>1. RoutesOK'
    BY <1>3, <1>6, <1>11, <1>12, RouteStep
  <2>. QED  BY <1>10, <1>11, <1>12, <1>14, <2>1, NodesKept DEF LinksOK
<1>13. CASE n # Root
  <2>1. n \in Others /\ Parent[n] \in Node
    BY <1>13, ParentType DEF Others
  <2>2. RoutesOK'
    BY <1>3, <1>8, <1>11, <1>13, RouteStep
  <2>3. NodesOK'
    BY <1>8, <1>11, <1>13, <1>14, NodeStep
  <2>4. DAO(dao.target, fwd.rep.dao_seqno_out, "default") \in Message
    BY <1>3, <1>8, MessageTypes DEF Lifetime
  <2>5. LinksOK'
    BY <1>10, <1>11, <1>13, <2>1, <2>4, SendType DEF LinksOK
  <2>. QED  BY <2>2, <2>3, <2>5
<1>. QED  BY <1>12, <1>13

-----------------------------------------------------------------------------
\* An acknowledgement from the parent has a number and a status.
LEMMA AckReceived ==
  ASSUME LinksOK, NEW n \in Others, Receives(n, Parent[n], "ACK")
  PROVE  /\ n \in Node /\ Parent[n] \in Node
         /\ Head(link[Parent[n]][n]).status \in {"accept", "reject"}
         /\ Received(n, Parent[n]) \in Links
<1>1. n \in Node /\ Parent[n] \in Node
  BY ParentType DEF Others
<1>. QED  BY <1>1, HeadType, ReceivedType DEF Receives, LinksOK

LEMMA OwnAckStep ==
  ASSUME NodesOK, RoutesOK, LinksOK, NEW n \in Others, OwnAck(n)
  PROVE  NodesOK' /\ RoutesOK' /\ LinksOK'
<1>1. Receives(n, Parent[n], "ACK")
  BY DEF OwnAck
<1>2. PICK st : st = Head(link[Parent[n]][n]).status
  OBVIOUS
<1>3. n \in Node /\ st \in {"accept", "reject"} /\ Received(n, Parent[n]) \in Links
  BY <1>1, <1>2, AckReceived
<1>4. PICK down \in BOOLEAN : down = (st = "accept")
  BY Zenon
<1>5. PICK q : q = [node[n] EXCEPT !.has_downward_route = down,
                                   !.dao_retransmit_timer = FALSE, !.answer = st]
  OBVIOUS
<1>6. node[n] \in NodeState
  BY <1>3 DEF NodesOK
<1>7. q \in NodeState /\ Awaited(q)
  BY <1>3, <1>5, <1>6 DEF NodeState, Awaited, Answer
<1>8. node' = [node EXCEPT ![n] = q]
  <2>1. node' = [node EXCEPT ![n].has_downward_route = st = "accept",
                             ![n].dao_retransmit_timer = FALSE, ![n].answer = st]
    BY <1>2, Zenon DEF OwnAck
  <2>2. node' = [node EXCEPT ![n].has_downward_route = down,
                             ![n].dao_retransmit_timer = FALSE, ![n].answer = st]
    BY <1>4, <2>1, Zenon
  <2>. QED  BY <1>3, <1>5, <2>2 DEF NodesOK
<1>9. NodesOK'
  BY <1>3, <1>7, <1>8, NodeStep DEF OwnAck
<1>. QED  BY <1>3, <1>9 DEF OwnAck, RoutesOK, LinksOK

LEMMA ForwardAckStep ==
  ASSUME NodesOK, RoutesOK, LinksOK, NEW n \in Others, ForwardAck(n)
  PROVE  NodesOK' /\ RoutesOK' /\ LinksOK'
<1>1. Receives(n, Parent[n], "ACK")
  BY DEF ForwardAck
<1>2. PICK ack : ack = Head(link[Parent[n]][n])
  OBVIOUS
<1>3. n \in Node /\ ack.status \in {"accept", "reject"} /\ Received(n, Parent[n]) \in Links
  BY <1>1, <1>2, AckReceived
<1>4. PICK t \in Others :
        /\ route' = [route EXCEPT ![n][t] =
                       IF ack.status = "reject" THEN NoRoute ELSE [@ EXCEPT !.pending = FALSE]]
        /\ link' = Send(Received(n, Parent[n]), n, route[n][t].nexthop,
                        ACK(route[n][t].dao_seqno_in, ack.status))
  BY <1>2 DEF ForwardAck, find_route_entry_by_dao_ack
<1>5. route[n][t] \in RouteState
  BY <1>3 DEF RoutesOK
<1>6. route[n][t].nexthop \in Node /\ route[n][t].dao_seqno_in \in Seqno
  BY <1>5 DEF RouteState
<1>7. PICK r : r = IF ack.status = "reject" THEN NoRoute ELSE [route[n][t] EXCEPT !.pending = FALSE]
  OBVIOUS
<1>8. r \in RouteState
  BY <1>5, <1>7, RouteTypes DEF RouteState
<1>9. route' = [route EXCEPT ![n][t] = r]
  BY <1>3, <1>4, <1>7 DEF RoutesOK
<1>10. RoutesOK'
  BY <1>3, <1>8, <1>9, RouteStep
<1>11. ACK(route[n][t].dao_seqno_in, ack.status) \in Message
  BY <1>3, <1>6, MessageTypes
<1>12. LinksOK'
  BY <1>3, <1>4, <1>6, <1>11, SendType DEF LinksOK
<1>. QED  BY <1>10, <1>12, NodesKept DEF ForwardAck

LEMMA StrayAckStep ==
  ASSUME NodesOK, RoutesOK, LinksOK, NEW n \in Others, StrayAck(n)
  PROVE  NodesOK' /\ RoutesOK' /\ LinksOK'
BY AckReceived, NodesKept DEF StrayAck, RoutesOK, LinksOK

LEMMA ExpiresStep ==
  ASSUME NodesOK, RoutesOK, LinksOK, NEW n \in Node, NEW t \in Others, RouteExpires(n, t)
  PROVE  NodesOK' /\ RoutesOK' /\ LinksOK'
BY RouteTypes, RouteStep, NodesKept DEF RouteExpires, LinksOK

LEMMA LoseStep ==
  ASSUME NodesOK, RoutesOK, LinksOK, NEW n \in Node, NEW m \in Node, Lose(n, m)
  PROVE  NodesOK' /\ RoutesOK' /\ LinksOK'
BY TailType, NodesKept DEF Lose, RoutesOK, LinksOK

-----------------------------------------------------------------------------
\* Whatever is lost, repeated or rejected, for every tree: a DAO that a node sent for its own
\* address is answered, given up for a local repair after its last repeat, or has its timer
\* running, but for the two silent ends of n206; and every variable keeps its type.
THEOREM Awaiting == Spec => []NotForgotten
<1>1. Init => NodesOK /\ RoutesOK /\ LinksOK
  BY InitOK
<1>2. NodesOK /\ RoutesOK /\ LinksOK /\ [Next]_vars => NodesOK' /\ RoutesOK' /\ LinksOK'
  <2>. SUFFICES ASSUME NodesOK, RoutesOK, LinksOK, [Next]_vars
                PROVE  NodesOK' /\ RoutesOK' /\ LinksOK'
    OBVIOUS
  <2>1. ASSUME NEW n \in Others, NEW lt \in Lifetime, dao_output(n, lt)
        PROVE  NodesOK' /\ RoutesOK' /\ LinksOK'
    BY <2>1, OutputStep
  <2>2. ASSUME NEW n \in Others, Timer(n)  PROVE NodesOK' /\ RoutesOK' /\ LinksOK'
    BY <2>2, RetransmissionStep DEF Timer
  <2>3. ASSUME NEW n \in Others, AckInput(n)  PROVE NodesOK' /\ RoutesOK' /\ LinksOK'
    BY <2>3, OwnAckStep, ForwardAckStep, StrayAckStep DEF AckInput
  <2>4. ASSUME NEW n \in Node, DaoInput(n)  PROVE NodesOK' /\ RoutesOK' /\ LinksOK'
    BY <2>4, NoPathStep, RejectedStep, AcceptedStep DEF DaoInput
  <2>5. ASSUME NEW n \in Node, NEW t \in Others, RouteExpires(n, t)
        PROVE  NodesOK' /\ RoutesOK' /\ LinksOK'
    BY <2>5, ExpiresStep
  <2>6. ASSUME NEW n \in Node, NEW m \in Node, Lose(n, m)
        PROVE  NodesOK' /\ RoutesOK' /\ LinksOK'
    BY <2>6, LoseStep
  <2>7. CASE Rest \/ UNCHANGED vars
    BY <2>7, NodesKept DEF Rest, vars, RoutesOK, LinksOK
  <2>. QED  BY <2>1, <2>2, <2>3, <2>4, <2>5, <2>6, <2>7 DEF Next
<1>3. NodesOK /\ RoutesOK /\ LinksOK => NotForgotten
  BY Parts
<1>. QED  BY <1>1, <1>2, <1>3, PTL DEF Spec

=============================================================================
