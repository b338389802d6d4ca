---------------------------- MODULE MCSchemeHeap ----------------------------
(***************************************************************************)
(* Small heaps for TLC.                                                    *)
(***************************************************************************)
EXTENDS SchemeHeapProps
=============================================================================
