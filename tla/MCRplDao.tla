------------------------------ MODULE MCRplDao ------------------------------
EXTENDS RplDaoProps

\* A root, a router, two leaves.
Tree == [n \in {"router", "leaf", "leaf2"} |-> IF n = "router" THEN "root" ELSE "router"]
TreeNode == {"root", "router", "leaf", "leaf2"}

\* Two leaves register once each, the router is done with its own address before
\* the second does; or one leaf and the router register again and again.  They do so
\* once each if lifetimes are infinite, or only the leaf again if an address is lost.
Within ==
  /\ node["leaf2"].sent > 0 =>
       /\ ~ node["router"].dao_retransmit_timer
       /\ \A n \in Others : node[n].sent <= 1
  /\ infinite => node["leaf2"].sent = 0 /\ \A n \in Others : node[n].sent <= 1
  /\ (\E n \in Others : node[n].silent) => node["leaf2"].sent = 0 /\ node["router"].sent <= 1

=============================================================================
