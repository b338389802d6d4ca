----------------------------- MODULE Moonlight -----------------------------
(***************************************************************************)
(* The threads of the Moonlight client side by side: the one that receives *)
(* video, and those of the application and of the input stream.            *)
(***************************************************************************)
EXTENDS VideoDepacketizerProps, InputStreamProps

vars == <<videoVars, inputVars>>

Init == VideoInit /\ InputInit

Next ==
  \/ VideoNext /\ UNCHANGED inputVars
  \/ InputNext /\ UNCHANGED videoVars

Spec == Init /\ [][Next]_vars

=============================================================================
