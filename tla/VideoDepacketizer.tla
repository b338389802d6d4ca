------------------------- MODULE VideoDepacketizer -------------------------
(***************************************************************************)
(* The video depacketizer of the Moonlight client: packets of a stream of  *)
(* frames, lost, duplicated and reordered by the network, become frames    *)
(* for the decoder (processRtpPayload, v357).                              *)
(*                                                                         *)
(* The stream is fixed in the initial state, its packets numbered as the   *)
(* server sends them; the network hands over any of them, none earlier     *)
(* than Window before the latest.  v holds the globals of the depacketizer.*)
(* Names that end in _Bug are mutations of the definition they precede.    *)
(***************************************************************************)
EXTENDS Integers, Sequences, SequencesExt

CONSTANTS
  FrameKinds,   \* Frames the server may send.
  NumFrames,    \* Bound: frames in the stream.
  FirstIndexes, \* Stream index of the first packet, from which it counts on.
  IndexMod,     \* 2^24: stream indexes.
  ShortMod,     \* 2^16: what a short holds.
  Window        \* Bound: how far the network delays a packet.

\* A frame: its packets with picture data, whether the last is shorter than nominal, packets
\* with error correction after it, and whether it can be decoded on its own.
FrameKind == [data : Nat \ {0}, short : BOOLEAN, fec : Nat, idr : BOOLEAN]

ASSUME VideoAssumption ==
  /\ FrameKinds \subseteq FrameKind
  /\ {NumFrames, Window} \subseteq Nat
  /\ {IndexMod, ShortMod} \subseteq Nat \ {0} /\ IndexMod % ShortMod = 0 /\ 2 * ShortMod <= IndexMod
  /\ Window < ShortMod
  /\ FirstIndexes \subseteq 0 .. IndexMod - 1

VARIABLES
  frames,    \* The frames the server sends, numbered from 1.
  stream,    \* Their packets.
  strict,    \* strictIdrFrameWait: the server cannot invalidate reference frames.
  v,         \* The globals of the depacketizer.
  latest,    \* The latest packet the network has handed over.
  decoded,   \* Frames handed to the decoder: their numbers and packets.
  reported   \* Ranges of frames reported as lost.

videoVars == <<frames, stream, strict, v, latest, decoded, reported>>

\* Packets of frame f, not yet numbered.  Its flags: first packet, end of frame, picture data.
Packets(fs, f) ==
  [k \in 1 .. fs[f].data + fs[f].fec |->
     [index |-> 0, frameIndex |-> f, part |-> k,
      first |-> k = 1, eof |-> k = fs[f].data, pic |-> k <= fs[f].data,
      short |-> k = fs[f].data /\ fs[f].short, idr |-> k = 1 /\ fs[f].idr]]

\* The packets of all frames, with their stream indexes.
Stream(fs, from) ==
  LET ps == FlattenSeq([f \in 1 .. NumFrames |-> Packets(fs, f)]) IN
  [k \in DOMAIN ps |-> [ps[k] EXCEPT !.index = (from + k - 1) % IndexMod]]

\* The depacketizer before the packet with index from; lastPacketInStream is unsigned and
\* one more than an index may be.
NewVideo(from) ==
  [lastPacketInStream |-> from - 1, nextFrameNumber |-> 1, startFrameNumber |-> 0,
   decodingFrame |-> FALSE, waitingForNextSuccessfulFrame |-> FALSE,
   waitingForIdrFrame |-> TRUE, chain |-> <<>>]

VideoInit ==
  /\ frames \in [1 .. NumFrames -> FrameKinds]
  /\ \E from \in FirstIndexes : stream = Stream(frames, from) /\ v = NewVideo(from)
  /\ strict \in BOOLEAN
  /\ latest = 0 /\ decoded = <<>> /\ reported = {}

-----------------------------------------------------------------------------
\* isBeforeSignedInt on shorts: the difference, as a short, is negative.
isBeforeShort(a, b) == (a - b) % ShortMod >= ShortMod \div 2

\* isBeforeSignedInt on frame numbers, which do not come round.
isBefore(a, b) == a < b

\* dropFrameState forgets the packets of the frame.  The next frame to decode must be an IDR
\* frame in strict mode, or when too many have been dropped.
dropFrameState(d) ==
  {[d EXCEPT !.chain = <<>>, !.waitingForIdrFrame = w] :
     w \in IF strict THEN {TRUE} ELSE {TRUE, d.waitingForIdrFrame}}

\* A loss noticed: frames before next are given up.
Lost(d, next) ==
  dropFrameState([d EXCEPT !.nextFrameNumber = next, !.waitingForNextSuccessfulFrame = TRUE])

\* Without its beginning a frame is given up, unless the packet looks like error correction:
\* neither plain picture data, nor an end with nothing else, nor short.
looksReal(p) == (p.pic /\ ~ p.eof) \/ p.short

\* What becomes of a packet that is not taken in: nothing, or the frame is given up.
Rejected(d, p) ==
  IF ~ p.first /\ ~ d.decodingFrame
    THEN IF looksReal(p) THEN Lost(d, p.frameIndex + 1) ELSE {d}
    ELSE Lost([d EXCEPT !.decodingFrame = FALSE], p.frameIndex + 1)

InSequence(d, p) == p.index = d.lastPacketInStream + 1

\* Packets taken in: first packets, and those of the frame begun that follow the last.
Accepts_AnyIndex_Bug(d, p) == p.first \/ d.decodingFrame

Accepts(d, p) == p.first \/ (d.decodingFrame /\ InSequence(d, p))

\* A first packet: the frame before has no end, or frames in between are missing.
Begin_NoDrop_Bug(d, p) ==
  IF ~ p.first THEN {d}
  ELSE IF d.decodingFrame THEN Lost(d, p.frameIndex)
  ELSE IF isBefore(d.nextFrameNumber, p.frameIndex)
         THEN {[d EXCEPT !.decodingFrame = TRUE, !.nextFrameNumber = p.frameIndex,
                         !.waitingForNextSuccessfulFrame = TRUE]}
         ELSE {[d EXCEPT !.decodingFrame = TRUE]}

Begin(d, p) ==
  IF ~ p.first THEN {d}
  ELSE IF d.decodingFrame THEN Lost(d, p.frameIndex)
  ELSE IF isBefore(d.nextFrameNumber, p.frameIndex)
         THEN Lost([d EXCEPT !.decodingFrame = TRUE], p.frameIndex)
         ELSE {[d EXCEPT !.decodingFrame = TRUE]}

\* processRtpPayloadSlow, for the start of an IDR frame, ends the waits; the rest of a frame
\* is processRtpPayloadFast.  Both queue the packet.
Queue(d, p) ==
  LET e == [d EXCEPT !.lastPacketInStream = p.index, !.chain = Append(@, p)] IN
  IF p.idr THEN [e EXCEPT !.waitingForIdrFrame = FALSE, !.waitingForNextSuccessfulFrame = FALSE]
           ELSE e

\* The end of a frame.
EndFrame(d, p) ==
  [d EXCEPT !.decodingFrame = FALSE, !.nextFrameNumber = p.frameIndex + 1,
            !.waitingForNextSuccessfulFrame = FALSE]

Reports(d) == d.waitingForNextSuccessfulFrame
Decodes(d) == ~ d.waitingForIdrFrame

\* reassembleFrame takes the packets queued.
Reassembled(d) == [d EXCEPT !.chain = <<>>, !.startFrameNumber = d.nextFrameNumber]

-----------------------------------------------------------------------------
\* Packets that come twice, too late, or from a frame that is done with are dropped.
Stale(p) ==
  \/ isBeforeShort(p.index, v.lastPacketInStream + 1)
  \/ isBefore(p.frameIndex, v.nextFrameNumber)

\* Every lost packet is also reported with its index; that is a statistic, left out.
processRtpPayload(p) ==
  IF Stale(p) THEN UNCHANGED <<v, decoded, reported>>
  ELSE IF ~ Accepts(v, p) THEN v' \in Rejected(v, p) /\ UNCHANGED <<decoded, reported>>
  ELSE \E b \in Begin(v, p) : \E q \in {Queue(b, p)} :
         IF ~ p.eof THEN v' = q /\ UNCHANGED <<decoded, reported>>
         ELSE \E d \in {EndFrame(q, p)} :
           /\ reported' = IF Reports(q)
                            THEN reported \cup {<<d.startFrameNumber, d.nextFrameNumber - 1>>}
                            ELSE reported
           /\ IF Decodes(d)
                THEN /\ decoded' = Append(decoded, [frame |-> p.frameIndex, chain |-> d.chain])
                     /\ v' = Reassembled(d)
                ELSE v' \in dropFrameState(d) /\ UNCHANGED decoded

\* The network: a packet not handed over is lost, one handed over again a duplicate.
ReceivePacket ==
  /\ \E k \in DOMAIN stream :
       /\ k >= latest - Window
       /\ processRtpPayload(stream[k])
       /\ latest' = IF k > latest THEN k ELSE latest
  /\ UNCHANGED <<frames, stream, strict>>

VideoNext == ReceivePacket

VideoTypeOK ==
  /\ v.lastPacketInStream \in -1 .. IndexMod - 1
  /\ {v.nextFrameNumber, v.startFrameNumber} \subseteq 0 .. NumFrames + 2
  /\ {v.decodingFrame, v.waitingForNextSuccessfulFrame, v.waitingForIdrFrame, strict} \subseteq BOOLEAN
  /\ latest \in 0 .. Len(stream)

=============================================================================
