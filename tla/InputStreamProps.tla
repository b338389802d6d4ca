-------------------------- MODULE InputStreamProps --------------------------
(***************************************************************************)
(* What the input stream promises the application.                         *)
(***************************************************************************)
EXTENDS InputStream

\* What a sequence of packets amounts to: the whole of each run of mouse moves, the last state
\* of each run of packets of one controller with the same buttons, all else as it is.
Joins(o, n) ==
  \/ o.type = "mouse" /\ n.type = "mouse"
  \/ o.type = "multiController" /\ n.type = "multiController" /\ o.num = n.num /\ o.flags = n.flags

Join(o, n) ==
  IF o.type = "mouse" THEN [o EXCEPT !.axes = [i \in DOMAIN o.axes |-> o.axes[i] + n.axes[i]]] ELSE n

Add(s, p) ==
  IF s # <<>> /\ Joins(Last(s), p) THEN Append(Front(s), Join(Last(s), p)) ELSE Append(s, p)

Amount(ps) == FoldLeft(Add, <<>>, ps)

\* Batching loses nothing: what was sent, is held and is queued amounts at every moment to what
\* was accepted, in its order: no motion is lost to overflow or carried past a click, no
\* button state or final axis position is skipped, until sending fails.
InputExact ==
  /\ InputTypeOK
  /\ thread.pc # "failed" => Amount(sent \o thread.holder \o packetQueue) = Amount(accepted)

=============================================================================
