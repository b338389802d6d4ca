----------------------- MODULE VideoDepacketizerProps -----------------------
(***************************************************************************)
(* What the depacketizer promises the decoder and the server.              *)
(***************************************************************************)
EXTENDS VideoDepacketizer, FiniteSets

\* The decoder gets whole frames, in order and none twice, whatever the network loses,
\* repeats or delays, also where the stream index comes round.
FramesWhole ==
  /\ VideoTypeOK
  /\ \A n \in DOMAIN decoded :
       LET f == decoded[n].frame IN
       /\ [k \in DOMAIN decoded[n].chain |-> decoded[n].chain[k].part]
            = [k \in 1 .. frames[f].data |-> k]
       /\ \A k \in DOMAIN decoded[n].chain : decoded[n].chain[k].frameIndex = f
  /\ \A m, n \in DOMAIN decoded : m < n => decoded[m].frame < decoded[n].frame

\* The decoder never gets a frame that refers to one it did not get unless the server has
\* been told so: at the start and after a gap comes an IDR frame or, when the server can
\* invalidate references, all of the gap is reported.
GapsCovered ==
  \A n \in DOMAIN decoded :
    LET f == decoded[n].frame
        gap == (IF n = 1 THEN 0 ELSE decoded[n - 1].frame) + 1 .. f - 1 IN
    \/ frames[f].idr
    \/ n > 1 /\ gap = {}
    \/ gap # {} /\ ~ strict /\ gap \subseteq UNION {r[1] .. r[2] : r \in reported}

=============================================================================
