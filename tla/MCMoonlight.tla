---------------------------- MODULE MCMoonlight ----------------------------
EXTENDS Moonlight

Kind(n, short, fec, idr) == [data |-> n, short |-> short, fec |-> fec, idr |-> idr]

\* An IDR frame in two packets; frames of one packet, of three of full length followed by
\* error correction, and of two.
MCFrameKinds ==
  {Kind(2, TRUE, 0, TRUE), Kind(1, TRUE, 0, FALSE), Kind(3, FALSE, 1, FALSE), Kind(2, TRUE, 1, FALSE)}

Event(type, num, flags, axes) == [type |-> type, num |-> num, flags |-> flags, axes |-> axes]

\* Moves whose sums overflow, a click, a scroll, a controller with an axis and a button, another.
MCEvents ==
  {Event("mouse", 0, 0, <<2, 0>>), Event("mouse", 0, 0, <<1, -1>>),
   Event("button", 0, 1, <<>>), Event("scroll", 0, 1, <<>>),
   Event("multiController", 1, 0, <<0>>), Event("multiController", 1, 0, <<1>>),
   Event("multiController", 1, 1, <<1>>), Event("multiController", 2, 0, <<1>>)}

\* The threads share nothing: input is explored with one stream of frames, none received yet.
OneStream == ~ strict /\ stream[1].index = 0 /\ \A f \in DOMAIN frames : frames[f].idr
Within ==
  \/ ~ initialized /\ accepted = <<>> /\ ~ shutdown /\ thread.pc = "none"
  \/ latest = 0 /\ OneStream

=============================================================================
