SPECIFICATION Spec
CONSTRAINT Within
CONSTANTS
  Node <- TreeNode
  Root = "root"
  Parent <- Tree
  RPL_DAO_MAX_RETRANSMISSIONS = 2
  FirstSeqno = 240
  MaxRoutes = 2
  MaxDaos = 2
INVARIANTS NotForgotten NumbersApart
PROPERTIES AcceptedIsRouted
