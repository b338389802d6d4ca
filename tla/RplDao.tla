------------------------------- MODULE RplDao -------------------------------
(***************************************************************************)
(* RPL in storing mode with acknowledged DAOs: every node registers its    *)
(* address with its parent, every router keeps a route and registers it    *)
(* again with its own parent, the acknowledgement of the root comes back   *)
(* along the same way.  Nodes repeat a DAO that is not answered.           *)
(*                                                                         *)
(* The topology is a tree.  A link delivers in order and loses messages.   *)
(* An operator whose name ends in _Bug is a mutation of the one after it.  *)
(***************************************************************************)
EXTENDS Integers, Sequences, FiniteSets

CONSTANTS
  Node, Root,
  Parent,                      \* Parent[n]: the preferred parent of n # Root.
  RPL_DAO_MAX_RETRANSMISSIONS,
  FirstSeqno,                  \* What dao_sequence starts from.
  MaxRoutes,                   \* Bound: routes in the table of a node.
  MaxDaos                      \* Bound: DAOs a node sends of its own accord.

Others == Node \ {Root}

ASSUME TreeAssumption == Root \in Node /\ Parent \in [Others -> Node]
ASSUME BoundAssumption ==
  /\ RPL_DAO_MAX_RETRANSMISSIONS \in Nat \ {0} /\ FirstSeqno \in 0 .. 255
  /\ MaxRoutes \in Nat /\ MaxDaos \in Nat

VARIABLES
  node,  \* node[n]: the state of the instance of node n.
  infinite, \* The lifetime of routes is infinite, which an old root announces.
  route, \* route[n][t]: the route of node n to node t, or NoRoute.
  link   \* link[n][m]: what n has sent to m and m has not received.

vars == <<node, infinite, route, link>>

Seqno == 0 .. 255
Child(n) == {c \in Others : Parent[c] = n}
Neighbor(n) == Child(n) \cup (IF n = Root THEN {} ELSE {Parent[n]})

\* rpl_add_route gives a new route a state of zeros.
NewRoute == [dao_seqno_in |-> 0, dao_seqno_out |-> 0, pending |-> FALSE,
             nopath |-> FALSE, nexthop |-> Root]
NoRoute == [NewRoute EXCEPT !.nopath = TRUE]

DAO(t, seq, lifetime) == [type |-> "DAO", target |-> t, seq |-> seq, lifetime |-> lifetime]
ACK(seq, status) == [type |-> "ACK", seq |-> seq, status |-> status]

Lifetime == {"zero", "default"}
Answer == {"none", "accept", "reject", "timeout", "withdrawn"}
Message == [type : {"DAO"}, target : Others, seq : Seqno, lifetime : Lifetime]
             \cup [type : {"ACK"}, seq : Seqno, status : {"accept", "reject"}]

TypeOK ==
  /\ node \in [Node -> [dao_sequence : Seqno, my_dao_seqno : Seqno,
                        my_dao_transmissions : 0 .. RPL_DAO_MAX_RETRANSMISSIONS,
                        dao_retransmit_timer : BOOLEAN,
                        has_downward_route : BOOLEAN,
                        answer : Answer,   \* What the objective function was told.
                        silent : BOOLEAN,  \* History: a repeat found no global address.
                        sent : 0 .. MaxDaos]]
  /\ infinite \in BOOLEAN
  /\ route \in [Node -> [Others -> [dao_seqno_in : Seqno, dao_seqno_out : Seqno,
                                    pending : BOOLEAN, nopath : BOOLEAN,
                                    nexthop : Node]]]
  /\ link \in [Node -> [Node -> Seq(Message)]]

Init ==
  /\ node = [n \in Node |-> [dao_sequence |-> FirstSeqno, my_dao_seqno |-> 0,
                             my_dao_transmissions |-> 0, dao_retransmit_timer |-> FALSE,
                             has_downward_route |-> FALSE, answer |-> "none", silent |-> FALSE, sent |-> 0]]
  /\ infinite \in BOOLEAN
  /\ route = [n \in Node |-> [t \in Others |-> NoRoute]]
  /\ link = [n \in Node |-> [m \in Node |-> <<>>]]

Send(l, n, m, msg) == [l EXCEPT ![n][m] = Append(@, msg)]

\* RPL_LOLLIPOP_INCREMENT: 240 up to 255, then round and round from 0 to 127.
Lollipop(seq) == IF seq > 127 THEN (seq + 1) % 256 ELSE (seq + 1) % 128

-----------------------------------------------------------------------------
(***************************************************************************)
(* A node registers its own address, or withdraws it.                      *)
(***************************************************************************)
dao_output(n, lifetime) ==
  LET seq == Lollipop(node[n].dao_sequence) IN
  /\ node[n].sent < MaxDaos
  /\ node' = [node EXCEPT ![n] =
       IF lifetime = "zero"
       THEN [@ EXCEPT !.sent = node[n].sent + 1, !.dao_sequence = seq, !.answer = "withdrawn"]
       ELSE [@ EXCEPT !.sent = node[n].sent + 1, !.dao_sequence = seq, !.my_dao_seqno = seq,
                      !.my_dao_transmissions = 1, !.dao_retransmit_timer = TRUE,
                      !.answer = "none", !.silent = FALSE]]
  /\ link' = Send(link, n, Parent[n], DAO(n, seq, lifetime))
  /\ UNCHANGED <<infinite, route>>

\* The timer expires: the DAO is repeated, unless the node has lost its global
\* address, or given up for a local repair, unless lifetimes are infinite.  In these
\* two cases nobody is told.
\* Retransmissions are seconds apart: the last one has left the link.
handle_dao_retransmission(n) ==
  /\ node[n].dao_retransmit_timer
  /\ link[n][Parent[n]] = <<>>
  /\ IF node[n].my_dao_transmissions < RPL_DAO_MAX_RETRANSMISSIONS
     THEN \/ /\ node' = [node EXCEPT ![n].my_dao_transmissions = @ + 1]
             /\ link' = Send(link, n, Parent[n], DAO(n, node[n].my_dao_seqno, "default"))
          \/ /\ node' = [node EXCEPT ![n].dao_retransmit_timer = FALSE, ![n].silent = TRUE]
             /\ UNCHANGED link
     ELSE /\ node' = [node EXCEPT ![n].dao_retransmit_timer = FALSE,
                                  ![n].answer = IF infinite THEN @ ELSE "timeout"]
          /\ UNCHANGED link
  /\ UNCHANGED <<infinite, route>>

-----------------------------------------------------------------------------
(***************************************************************************)
(* dao_input_storing: node n receives a DAO from its child c.              *)
(***************************************************************************)
Receives(n, c, type) == link[c][n] # <<>> /\ Head(link[c][n]).type = type

Received(n, c) == [link EXCEPT ![c][n] = Tail(@)]

prepare_for_dao_fwd_SameSeqno_Bug(n, rep, seq) ==
  [node |-> node[n],
   rep  |-> [rep EXCEPT !.dao_seqno_in = seq, !.dao_seqno_out = node[n].dao_sequence,
                        !.pending = TRUE]]

prepare_for_dao_fwd(n, rep, seq) ==
  LET out == Lollipop(node[n].dao_sequence) IN
  [node |-> [node[n] EXCEPT !.dao_sequence = out],
   rep  |-> [rep EXCEPT !.dao_seqno_in = seq, !.dao_seqno_out = out, !.pending = TRUE]]

\* A No-Path DAO marks the route for removal, if it came from the next hop.
NoPathDao(n, c) ==
  LET dao == Head(link[c][n])
      rep == route[n][dao.target]
      fwd == prepare_for_dao_fwd(n, [rep EXCEPT !.nopath = TRUE], dao.seq)
  IN  /\ Receives(n, c, "DAO") /\ dao.lifetime = "zero"
      /\ IF rep.nopath \/ rep.nexthop # c
         THEN link' = Received(n, c) /\ UNCHANGED <<node, route>>
         ELSE IF n = Root
         THEN /\ route' = [route EXCEPT ![n][dao.target].nopath = TRUE]
              /\ link' = Received(n, c)
              /\ UNCHANGED node
         ELSE /\ route' = [route EXCEPT ![n][dao.target] = fwd.rep]
              /\ node' = [node EXCEPT ![n] = fwd.node]
              /\ link' = Send(Received(n, c), n, Parent[n],
                              DAO(dao.target, fwd.rep.dao_seqno_out, "zero"))
      /\ UNCHANGED infinite

Routes(n) == {t \in Others : route[n][t] # NoRoute}

\* No room for the neighbor or for the route.
DaoRejected(n, c) ==
  LET dao == Head(link[c][n]) IN
  /\ Receives(n, c, "DAO") /\ dao.lifetime # "zero"
  /\ dao.target \notin Routes(n) /\ Cardinality(Routes(n)) >= MaxRoutes
  /\ link' = Send(Received(n, c), n, c, ACK(dao.seq, "reject"))
  /\ UNCHANGED <<node, infinite, route>>

\* rpl_add_route: a route to another next hop is replaced by a new one.
AddedRoute(n, t, c) ==
  IF route[n][t] = NoRoute \/ route[n][t].nexthop # c
  THEN [NewRoute EXCEPT !.nexthop = c]
  ELSE [route[n][t] EXCEPT !.nopath = FALSE]

ShouldAck_Always_Bug(n, rep, seq) == TRUE

\* The root acknowledges, and who has had this DAO acknowledged already.
ShouldAck(n, rep, seq) == (~ rep.pending /\ rep.dao_seqno_in = seq) \/ n = Root

DaoAccepted(n, c) ==
  LET dao == Head(link[c][n])
      rep == AddedRoute(n, dao.target, c)
      fwd == IF rep.pending /\ rep.dao_seqno_in = dao.seq
             THEN [node |-> node[n], rep |-> rep]   \* A retransmission.
             ELSE prepare_for_dao_fwd(n, rep, dao.seq)
      acked == IF ShouldAck(n, rep, dao.seq)
               THEN Send(Received(n, c), n, c, ACK(dao.seq, "accept"))
               ELSE Received(n, c)
  IN  /\ Receives(n, c, "DAO") /\ dao.lifetime # "zero"
      /\ dao.target \in Routes(n) \/ Cardinality(Routes(n)) < MaxRoutes
      /\ IF n = Root
         THEN /\ route' = [route EXCEPT ![n][dao.target] = rep]
              /\ link' = acked
              /\ UNCHANGED node
         ELSE /\ route' = [route EXCEPT ![n][dao.target] = fwd.rep]
              /\ node' = [node EXCEPT ![n] = fwd.node]
              /\ link' = Send(acked, n, Parent[n],
                              DAO(dao.target, fwd.rep.dao_seqno_out, "default"))
      /\ UNCHANGED infinite

-----------------------------------------------------------------------------
(***************************************************************************)
(* dao_ack_input: node n receives an acknowledgement from its parent.      *)
(***************************************************************************)
OwnAck_AnySeqno_Bug(n) ==
  LET ack == Head(link[Parent[n]][n]) IN
  /\ Receives(n, Parent[n], "ACK")
  /\ node' = [node EXCEPT ![n].has_downward_route = ack.status = "accept",
                          ![n].dao_retransmit_timer = FALSE,
                          ![n].answer = IF ack.seq = node[n].my_dao_seqno
                                        THEN ack.status ELSE @]
  /\ link' = Received(n, Parent[n])
  /\ UNCHANGED <<infinite, route>>

OwnAck(n) ==
  LET ack == Head(link[Parent[n]][n]) IN
  /\ Receives(n, Parent[n], "ACK") /\ ack.seq = node[n].my_dao_seqno
  /\ node' = [node EXCEPT ![n].has_downward_route = ack.status = "accept",
                          ![n].dao_retransmit_timer = FALSE,
                          ![n].answer = ack.status]
  /\ link' = Received(n, Parent[n])
  /\ UNCHANGED <<infinite, route>>

find_route_entry_by_dao_ack(n, seq) ==
  {t \in Others : route[n][t].pending /\ route[n][t].dao_seqno_out = seq}

\* The list of routes has no order here: any one with this number.
ForwardAck(n) ==
  LET ack == Head(link[Parent[n]][n]) IN
  /\ Receives(n, Parent[n], "ACK") /\ ack.seq # node[n].my_dao_seqno
  /\ \E t \in find_route_entry_by_dao_ack(n, ack.seq) :
       /\ route' = [route EXCEPT ![n][t] =
                      IF ack.status = "reject" THEN NoRoute ELSE [@ EXCEPT !.pending = FALSE]]
       /\ link' = Send(Received(n, Parent[n]), n, route[n][t].nexthop,
                       ACK(route[n][t].dao_seqno_in, ack.status))
  /\ UNCHANGED <<node, infinite>>

StrayAck(n) ==
  LET ack == Head(link[Parent[n]][n]) IN
  /\ Receives(n, Parent[n], "ACK") /\ ack.seq # node[n].my_dao_seqno
  /\ find_route_entry_by_dao_ack(n, ack.seq) = {}
  /\ link' = Received(n, Parent[n])
  /\ UNCHANGED <<node, infinite, route>>

-----------------------------------------------------------------------------
\* RPL_NOPATH_REMOVAL_DELAY after a No-Path DAO the route goes.
RouteExpires(n, t) ==
  /\ route[n][t] # NoRoute /\ route[n][t].nopath
  /\ route' = [route EXCEPT ![n][t] = NoRoute]
  /\ UNCHANGED <<node, infinite, link>>

Lose(n, m) ==
  /\ link[n][m] # <<>>
  /\ link' = [link EXCEPT ![n][m] = Tail(@)]
  /\ UNCHANGED <<node, infinite, route>>

Timer(n) == handle_dao_retransmission(n)

DaoInput(n) ==
  \E c \in Child(n) : NoPathDao(n, c) \/ DaoRejected(n, c) \/ DaoAccepted(n, c)

AckInput(n) == OwnAck(n) \/ ForwardAck(n) \/ StrayAck(n)

\* Every node has sent its DAOs and nothing is under way.
Rest ==
  /\ \A n \in Others : ~ node[n].dao_retransmit_timer
  /\ \A n, m \in Node : link[n][m] = <<>>
  /\ UNCHANGED vars

Next ==
  \/ \E n \in Others :
       \/ \E lifetime \in Lifetime : dao_output(n, lifetime)
       \/ Timer(n) \/ AckInput(n)
  \/ \E n \in Node :
       \/ DaoInput(n)
       \/ \E t \in Others : RouteExpires(n, t)
       \/ \E m \in Node : Lose(n, m)
  \/ Rest

Spec == Init /\ [][Next]_vars

=============================================================================
