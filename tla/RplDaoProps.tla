----------------------------- MODULE RplDaoProps -----------------------------
(***************************************************************************)
(* What registration in storing mode promises.                             *)
(***************************************************************************)
EXTENDS RplDao

\* The nodes above n, up to the root.
Above[n \in Node] == IF n = Root THEN {} ELSE {Parent[n]} \cup Above[Parent[n]]

\* The next node from a down to n.
Toward(a, n) == CHOOSE c \in Child(a) : c = n \/ c \in Above[n]

Routed(n) ==
  \A a \in Above[n] :
    route[a][n] # NoRoute /\ ~ route[a][n].nopath /\ route[a][n].nexthop = Toward(a, n)

\* A node that is told its DAO was accepted is reachable from the root, over every
\* router in between, whatever was lost and repeated.
AcceptedIsRouted ==
  [][\A n \in Others :
       node[n].answer = "none" /\ node'[n].answer = "accept" => Routed(n)']_vars

\* No two registrations that wait at a router for their acknowledgement have the
\* same number, nor that of the router's own DAO: an answer finds its asker.
NumbersApart ==
  \A n \in Others, t \in Others : route[n][t].pending =>
    /\ route[n][t].dao_seqno_out # node[n].my_dao_seqno
    /\ find_route_entry_by_dao_ack(n, route[n][t].dao_seqno_out) = {t}

\* Every variable keeps its type.  A DAO that was sent is answered, given up before the
\* objective function, or will be sent again, with two exceptions: the node had no global
\* address when it should have repeated it (n206:40), or all repeats are spent and routes
\* last for ever (n206:16).  It is given up only after the last repeat.
NotForgotten ==
  /\ TypeOK
  /\ \A n \in Others : LET exhausted == node[n].my_dao_transmissions = RPL_DAO_MAX_RETRANSMISSIONS IN
       /\ node[n].answer = "none" /\ node[n].sent > 0 =>
            node[n].dao_retransmit_timer \/ node[n].silent \/ (infinite /\ exhausted)
       /\ node[n].answer = "timeout" => exhausted /\ ~ infinite

=============================================================================
