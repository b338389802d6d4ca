-------------------------- MODULE MoonlightProofs --------------------------
(***************************************************************************)
(* What is proved of the Moonlight client, for any events, bounds and      *)
(* streams.  The input stream is specified by a fold over a sequence, the  *)
(* video stream is one sequence made of many: both need an induction over  *)
(* the length, which the provers have only in the form of a well-founded   *)
(* relation, NatSetInduction.                                              *)
(***************************************************************************)
EXTENDS Moonlight, FiniteSetTheorems, WellFoundedInduction, TLAPS

-----------------------------------------------------------------------------
(***************************************************************************)
(* Induction over the natural numbers, and what folding Add over a         *)
(* sequence comes to: nothing at first, and one packet more added last.    *)
(***************************************************************************)
\* A set that holds zero and with each number the next holds all.  From the well-founded
\* inclusion of finite sets, here the intervals from 1.
LEMMA NatSetInduction ==
  ASSUME NEW S, 0 \in S, \A n \in Nat : n \in S => n + 1 \in S
  PROVE  Nat \subseteq S
<1>1. SUFFICES ASSUME NEW n0 \in Nat, n0 \notin S PROVE FALSE
  OBVIOUS
<1> DEFINE T == {1 .. n : n \in Nat \ S}
<1>2. T \subseteq FiniteSubsetsOf(Nat)
  <2>1. \A n \in Nat : IsFiniteSet(1 .. n) BY FS_Interval
  <2>2. \A n \in Nat : 1 .. n \in SUBSET Nat OBVIOUS
  <2> QED BY <2>1, <2>2 DEF FiniteSubsetsOf
<1>3. T # {} BY <1>1
<1>4. PICK x \in T : \A y \in T : ~ (<<y, x>> \in StrictSubsetOrdering(Nat))
  <2>1. IsWellFoundedOn(StrictSubsetOrdering(Nat), FiniteSubsetsOf(Nat))
    BY FS_StrictSubsetOrderingWellFounded
  <2> HIDE DEF T
  <2> QED BY <2>1, <1>2, <1>3, WFMin
<1>5. PICK n \in Nat \ S : x = 1 .. n BY <1>4
<1>6. n - 1 \in Nat \ S
   <2>1. n # 0 BY <1>5
   <2> QED BY <2>1, <1>5
<1>7. (1 .. (n - 1)) \in T BY <1>6
<1>8. <<1 .. (n - 1), 1 .. n>> \in StrictSubsetOrdering(Nat)
  <2>1. n \in 1 .. n /\ n \notin 1 .. (n - 1) BY <1>6
  <2>2. 1 .. (n - 1) \subseteq 1 .. n BY <1>6
  <2>3. 1 .. n \in SUBSET Nat /\ 1 .. (n-1) \in SUBSET Nat BY <1>6
  <2> QED BY <2>1, <2>2, <2>3 DEF StrictSubsetOrdering
<1> QED BY <1>4, <1>5, <1>7, <1>8

\* f adds up the elements of s with indices in a set, the greatest last.
Adds(f, s, n) ==
  f = [t \in SUBSET (1 .. n) |-> IF t = {} THEN <<>> ELSE Add(f[t \ {Max(t)}], s[Max(t)])]

\* What CHOOSE picks in the definition of a fold.
LEMMA AmountIsAdds ==
  ASSUME NEW s, NEW n \in Nat, DOMAIN s = 1 .. n
  PROVE  Amount(s) = (CHOOSE a : Adds(a, s, n))[1 .. n]
BY DEF Amount, FoldLeft, MapThenFoldSet, Adds

\* There is such an f: for one element more it is extended.
LEMMA AddsExists ==
  ASSUME NEW s
  PROVE  \A n \in Nat : \E f : Adds(f, s, n)
<1> DEFINE S == {n \in Nat : \E f : Adds(f, s, n)}
<1>1. 0 \in S
  <2> DEFINE f == [t \in SUBSET (1 .. 0) |-> <<>>]
  <2>1. Adds(f, s, 0) BY DEF Adds
  <2> QED BY <2>1
<1>2. ASSUME NEW n \in Nat, n \in S PROVE n + 1 \in S
  <2>1. PICK f : Adds(f, s, n) BY <1>2
  <2>h. PICK h : h = [t \in SUBSET (1 .. (n + 1)) |->
                   IF n + 1 \in t THEN Add(f[t \ {n + 1}], s[n + 1]) ELSE f[t]]
     OBVIOUS
  <2>2. ASSUME NEW t \in SUBSET (1 .. (n + 1))
        PROVE  h[t] = IF t = {} THEN <<>> ELSE Add(h[t \ {Max(t)}], s[Max(t)])
    <3>0. t \ {Max(t)} \in SUBSET (1 .. (n + 1)) OBVIOUS
    <3>1. CASE n + 1 \in t
      <4>1. Max(t) = n + 1
        <5>1. \A y \in t : n + 1 >= y OBVIOUS
        <5>2. Max(t) \in t /\ \A y \in t : Max(t) >= y BY <5>1, <3>1 DEF Max
        <5>3. Max(t) \in 1 .. (n+1) BY <5>2
        <5> QED BY <5>2, <5>3, <3>1
      <4>2. t \ {n + 1} \in SUBSET (1 .. (n + 1)) /\ n + 1 \notin t \ {n + 1} OBVIOUS
      <4>3. h[t \ {n + 1}] = f[t \ {n + 1}] BY <2>h, <4>2
      <4>4. h[t] = Add(f[t \ {n + 1}], s[n + 1]) BY <2>h, <3>1
      <4> QED BY <4>1, <4>3, <4>4, <3>1
    <3>2. CASE n + 1 \notin t
      <4>1. t \in SUBSET (1 .. n) BY <3>2
      <4>2. t \ {Max(t)} \in SUBSET (1 .. n) /\ n + 1 \notin t \ {Max(t)} BY <4>1, <3>2
      <4>3. h[t] = f[t] /\ h[t \ {Max(t)}] = f[t \ {Max(t)}] BY <2>h, <3>2, <3>0, <4>2
      <4>4. f[t] = IF t = {} THEN <<>> ELSE Add(f[t \ {Max(t)}], s[Max(t)]) BY <2>1, <4>1 DEF Adds
      <4> QED BY <4>3, <4>4
    <3> QED BY <3>1, <3>2
  <2>3. h = [t \in SUBSET (1 .. (n + 1)) |-> h[t]] BY <2>h
  <2>4. Adds(h, s, n + 1) BY <2>2, <2>3 DEF Adds
  <2> QED BY <2>4
<1> HIDE DEF S
<1>3. Nat \subseteq S BY <1>1, <1>2, NatSetInduction
<1> QED BY <1>3 DEF S

\* r begins with the first m elements of s.
Begins(r, s, m) == \A i \in 1 .. m : r[i] = s[i]

\* Both agree on every part of a longer sequence.
LEMMA AddsAgree ==
  ASSUME NEW s, NEW r, NEW f, NEW g, NEW m \in Nat, NEW n \in Nat, m <= n,
         Adds(f, s, m), Adds(g, r, n), Begins(r, s, m)
  PROVE  f[1 .. m] = g[1 .. m]
<1> DEFINE S == {k \in Nat : k <= m => f[1 .. k] = g[1 .. k]}
<1>1. 0 \in S
  <2>1. 1 .. 0 = {} OBVIOUS
  <2>2. {} \in SUBSET (1 .. m) /\ {} \in SUBSET (1 .. n) OBVIOUS
  <2>3. f[{}] = <<>> /\ g[{}] = <<>> BY <2>2 DEF Adds
  <2> QED BY <2>1, <2>3
<1>2. ASSUME NEW k \in Nat, k \in S PROVE k + 1 \in S
  <2>1. CASE k + 1 <= m
    <3> DEFINE t == 1 .. (k + 1)
    <3>1. t \in SUBSET (1 .. m) /\ t \in SUBSET (1 .. n) /\ t # {} BY <2>1
    <3>2. Max(t) = k + 1
      <4>1. k + 1 \in t /\ \A y \in t : k + 1 >= y OBVIOUS
      <4>2. Max(t) \in t /\ \A y \in t : Max(t) >= y BY <4>1 DEF Max
      <4> QED BY <4>1, <4>2
    <3>3. t \ {k + 1} = 1 .. k OBVIOUS
    <3>4. f[t] = Add(f[t \ {Max(t)}], s[Max(t)])
      <4> HIDE DEF t
      <4> QED BY <3>1 DEF Adds
    <3>5. g[t] = Add(g[t \ {Max(t)}], r[Max(t)])
      <4> HIDE DEF t
      <4> QED BY <3>1 DEF Adds
    <3>6. r[k + 1] = s[k + 1] BY <2>1 DEF Begins
    <3>7. f[1 .. k] = g[1 .. k] BY <1>2, <2>1
    <3>8. f[t] = g[t] BY <3>2, <3>3, <3>4, <3>5, <3>6, <3>7
    <3> QED BY <3>8
  <2>2. CASE ~ (k + 1 <= m)
    BY <2>2
  <2> QED BY <2>1, <2>2
<1> HIDE DEF S
<1>3. Nat \subseteq S BY <1>1, <1>2, NatSetInduction
<1> QED BY <1>3 DEF S

\* No packet amounts to nothing.
LEMMA AmountEmpty == Amount(<<>>) = <<>>
<1>1. DOMAIN <<>> = 1 .. 0 OBVIOUS
<1>2. PICK f : f = (CHOOSE a : Adds(a, <<>>, 0)) OBVIOUS
<1>3. Adds(f, <<>>, 0) BY <1>2, AddsExists
<1>5. 1 .. 0 = {} /\ {} \in SUBSET (1 .. 0) OBVIOUS
<1>6. f[{}] = <<>> BY <1>3, <1>5 DEF Adds
<1>4. f[1 .. 0] = <<>> BY <1>5, <1>6
<1> QED BY <1>1, <1>2, <1>4, AmountIsAdds

\* The sums that Amount takes agree.
LEMMA ChosenAgree ==
  ASSUME NEW s, NEW r, NEW n \in Nat, NEW k \in Nat, n <= k, Begins(r, s, n)
  PROVE  (CHOOSE a : Adds(a, s, n))[1 .. n] = (CHOOSE a : Adds(a, r, k))[1 .. n]
<1>1. PICK f : f = (CHOOSE a : Adds(a, s, n)) OBVIOUS
<1>2. Adds(f, s, n) BY <1>1, AddsExists
<1>3. PICK g : g = (CHOOSE a : Adds(a, r, k)) OBVIOUS
<1>4. Adds(g, r, k) BY <1>3, AddsExists
<1>5. f[1 .. n] = g[1 .. n] BY <1>2, <1>4, AddsAgree
<1> QED BY <1>1, <1>3, <1>5

\* The last element is added last.
LEMMA LastAdded ==
  ASSUME NEW r, NEW n \in Nat, NEW g, Adds(g, r, n + 1)
  PROVE  g[1 .. (n + 1)] = Add(g[1 .. n], r[n + 1])
<1> DEFINE t == 1 .. (n + 1)
<1>1. t # {} /\ t \in SUBSET (1 .. (n + 1))
  <2>1. n + 1 \in t OBVIOUS
  <2> QED BY <2>1
<1>2. Max(t) = n + 1
  <2>1. n + 1 \in t /\ \A y \in t : n + 1 >= y OBVIOUS
  <2>2. Max(t) \in t /\ \A y \in t : Max(t) >= y BY <2>1 DEF Max
  <2> QED BY <2>1, <2>2
<1>3. t \ {n + 1} = 1 .. n OBVIOUS
<1>4. g[t] = Add(g[t \ {Max(t)}], r[Max(t)])
  <2> HIDE DEF t
  <2> QED BY <1>1 DEF Adds
<1> QED BY <1>2, <1>3, <1>4

\* One packet more.
LEMMA AmountAppend ==
  ASSUME NEW X, NEW s \in Seq(X), NEW p \in X
  PROVE  Amount(Append(s, p)) = Add(Amount(s), p)
<1>1. PICK n \in Nat : n = Len(s) OBVIOUS
<1>2. PICK r : r = Append(s, p) OBVIOUS
<1>3. DOMAIN s = 1 .. n /\ DOMAIN r = 1 .. (n + 1) /\ r[n + 1] = p BY <1>1, <1>2
<1>4. Begins(r, s, n) BY <1>1, <1>2 DEF Begins
<1>5. PICK g : g = (CHOOSE a : Adds(a, r, n + 1)) OBVIOUS
<1>6. Adds(g, r, n + 1)
  <2>1. n + 1 \in Nat OBVIOUS
  <2>2. \E f : Adds(f, r, n + 1) BY <2>1, AddsExists
  <2> QED BY <1>5, <2>2, Zenon
<1>7. Amount(r) = g[1 .. (n + 1)] BY <1>3, <1>5, AmountIsAdds
<1>8. Amount(s) = g[1 .. n]
  <2>1. Amount(s) = (CHOOSE a : Adds(a, s, n))[1 .. n] BY <1>3, AmountIsAdds
  <2>2. n + 1 \in Nat /\ n <= n + 1 OBVIOUS
  <2>3. (CHOOSE a : Adds(a, s, n))[1 .. n] = (CHOOSE a : Adds(a, r, n + 1))[1 .. n]
    BY <1>4, <2>2, ChosenAgree
  <2> QED BY <2>1, <2>3, <1>5
<1>9. g[1 .. (n + 1)] = Add(g[1 .. n], r[n + 1]) BY <1>6, LastAdded
<1> QED BY <1>2, <1>3, <1>7, <1>8, <1>9

-----------------------------------------------------------------------------
(***************************************************************************)
(* The input stream.  Its packets: those of the events, the axes of which  *)
(* batching may have changed, and, for a server of generation 3, those of  *)
(* one controller without a number.                                        *)
(***************************************************************************)
PacketsOf(e) ==
  [type : IF e.type = "multiController" THEN {"multiController", "controller"} ELSE {e.type},
   num : Int, flags : Int, axes : [DOMAIN e.axes -> Int]]

Packet == UNION {PacketsOf(e) : e \in Events}

\* An event is a packet, and so is the event of a controller of generation 3.
LEMMA EventIsPacket ==
  ASSUME NEW e \in Events
  PROVE  e \in Packet /\ (e.type = "multiController" => Unnumbered(e) \in Packet)
<1>1. e \in [type : Types \ {"controller"}, num : Int, flags : Int, axes : Seq(Short)]
  BY InputAssumption
<1>2. Short \subseteq Int BY InputAssumption DEF Short
<1>3. e.axes \in [DOMAIN e.axes -> Int] BY <1>1, <1>2
<1>4. e \in PacketsOf(e) BY <1>1, <1>3 DEF PacketsOf
<1>5. e.type = "multiController" => Unnumbered(e) \in PacketsOf(e)
  BY <1>1, <1>3 DEF PacketsOf, Unnumbered
<1> QED BY <1>4, <1>5 DEF Packet

\* Packets of one type have axes of their own number, each an integer.
LEMMA PacketAxes ==
  ASSUME NEW p \in Packet, NEW q \in Packet, p.type = q.type
  PROVE  /\ p.axes \in [DOMAIN p.axes -> Int] /\ q.axes \in [DOMAIN p.axes -> Int]
         /\ DOMAIN q.axes = DOMAIN p.axes
         /\ p = [type |-> p.type, num |-> p.num, flags |-> p.flags, axes |-> p.axes]
<1>1. PICK d \in Events : p \in PacketsOf(d) BY DEF Packet
<1>2. PICK e \in Events : q \in PacketsOf(e) BY DEF Packet
<1>3. d \in [type : Types \ {"controller"}, num : Int, flags : Int, axes : Seq(Short)]
      /\ e \in [type : Types \ {"controller"}, num : Int, flags : Int, axes : Seq(Short)]
  BY InputAssumption
<1>4. d.type = e.type BY <1>1, <1>2, <1>3 DEF PacketsOf, Types
<1>5. DOMAIN d.axes = DOMAIN e.axes BY <1>4, InputAssumption
<1>6. p.axes \in [DOMAIN d.axes -> Int] /\ q.axes \in [DOMAIN e.axes -> Int]
  BY <1>1, <1>2 DEF PacketsOf
<1>7. p = [type |-> p.type, num |-> p.num, flags |-> p.flags, axes |-> p.axes]
  BY <1>1 DEF PacketsOf
<1> QED BY <1>5, <1>6, <1>7

\* A packet with other axes of the same number is a packet.
LEMMA PacketWithAxes ==
  ASSUME NEW p \in Packet, NEW a \in [DOMAIN p.axes -> Int]
  PROVE  [p EXCEPT !.axes = a] \in Packet
<1>1. PICK d \in Events : p \in PacketsOf(d) BY DEF Packet
<1>2. DOMAIN p.axes = DOMAIN d.axes BY <1>1 DEF PacketsOf
<1>3. [p EXCEPT !.axes = a] \in PacketsOf(d) BY <1>1, <1>2 DEF PacketsOf
<1> QED BY <1>3 DEF Packet

\* Two moves joined, or two states of a controller, are a packet.
LEMMA JoinIsPacket ==
  ASSUME NEW o \in Packet, NEW n \in Packet, Joins(o, n)
  PROVE  Join(o, n) \in Packet /\ Join(o, n).type = o.type
<1>1. CASE o.type = "mouse"
  <2>1. o.type = n.type BY <1>1 DEF Joins
  <2>2. PICK a : a = [i \in DOMAIN o.axes |-> o.axes[i] + n.axes[i]] OBVIOUS
  <2>3. a \in [DOMAIN o.axes -> Int] BY <2>1, <2>2, PacketAxes
  <2>4. Join(o, n) = [o EXCEPT !.axes = a] BY <1>1, <2>2 DEF Join
  <2>5. o = [type |-> o.type, num |-> o.num, flags |-> o.flags, axes |-> o.axes] BY PacketAxes
  <2> QED BY <2>3, <2>4, <2>5, PacketWithAxes
<1>2. CASE o.type # "mouse" BY <1>2 DEF Join, Joins
<1> QED BY <1>1, <1>2

\* The last element of a sequence and the rest.
LEMMA FrontLast ==
  ASSUME NEW X, NEW s \in Seq(X), NEW p \in X
  PROVE  /\ Append(s, p) # <<>> /\ Front(Append(s, p)) = s /\ Last(Append(s, p)) = p
         /\ s # <<>> => Front(s) \in Seq(X) /\ Last(s) \in X
<1>2. Len(Append(s, p)) = Len(s) + 1 OBVIOUS
<1>1. Append(s, p) # <<>>
  <2>1. Len(s) + 1 # 0 OBVIOUS
  <2>2. Len(<<>>) = 0 OBVIOUS
  <2> QED BY <1>2, <2>1, <2>2
<1>3. SubSeq(Append(s, p), 1, Len(s)) = s OBVIOUS
<1>4. Front(Append(s, p)) = s BY <1>2, <1>3 DEF Front
<1>5. Last(Append(s, p)) = p BY <1>2 DEF Last
<1>6. s # <<>> => Len(s) \in 1 .. Len(s) OBVIOUS
<1>7. s # <<>> => Last(s) \in X BY <1>6 DEF Last
<1>8. s # <<>> => Front(s) \in Seq(X)
  <2>1. \A i \in 1 .. Len(s) - 1 : s[i] \in X OBVIOUS
  <2> QED BY <1>6 DEF Front
<1> QED BY <1>1, <1>4, <1>5, <1>7, <1>8

\* Adding a packet leaves packets.
LEMMA AddIsPackets ==
  ASSUME NEW x \in Seq(Packet), NEW p \in Packet
  PROVE  Add(x, p) \in Seq(Packet)
<1>1. CASE x # <<>> /\ Joins(Last(x), p)
  <2>1. Front(x) \in Seq(Packet) /\ Last(x) \in Packet BY <1>1, FrontLast
  <2>2. Join(Last(x), p) \in Packet BY <1>1, <2>1, JoinIsPacket
  <2> QED BY <1>1, <2>1, <2>2 DEF Add
<1>2. CASE ~ (x # <<>> /\ Joins(Last(x), p)) BY <1>2 DEF Add
<1> QED BY <1>1, <1>2

\* What packets amount to is packets.
LEMMA AmountIsPackets ==
  ASSUME NEW s \in Seq(Packet)
  PROVE  Amount(s) \in Seq(Packet)
<1> DEFINE S == {k \in Nat : \A r \in Seq(Packet) : Len(r) = k => Amount(r) \in Seq(Packet)}
<1>1. 0 \in S
  <2>1. ASSUME NEW r \in Seq(Packet), Len(r) = 0 PROVE Amount(r) \in Seq(Packet)
    <3>1. r = <<>> BY <2>1
    <3> QED BY <3>1, AmountEmpty
  <2> QED BY <2>1
<1>2. ASSUME NEW k \in Nat, k \in S PROVE k + 1 \in S
  <2>1. ASSUME NEW r \in Seq(Packet), Len(r) = k + 1 PROVE Amount(r) \in Seq(Packet)
    <3>1. PICK q : q = SubSeq(r, 1, k) OBVIOUS
    <3>2. q \in Seq(Packet) /\ Len(q) = k /\ r[k + 1] \in Packet /\ r = Append(q, r[k + 1])
      BY <2>1, <3>1
    <3>3. Amount(q) \in Seq(Packet) BY <1>2, <3>2
    <3>4. Amount(r) = Add(Amount(q), r[k + 1]) BY <3>2, AmountAppend
    <3> QED BY <3>2, <3>3, <3>4, AddIsPackets
  <2> QED BY <2>1
<1> HIDE DEF S
<1>3. Nat \subseteq S BY <1>1, <1>2, NatSetInduction
<1>4. Len(s) \in S BY <1>3
<1> QED BY <1>4 DEF S

\* What amounts to the same still does when the same follows.
LEMMA AmountFollowed ==
  ASSUME NEW a \in Seq(Packet), NEW b \in Seq(Packet), Amount(a) = Amount(b), NEW t \in Seq(Packet)
  PROVE  Amount(a \o t) = Amount(b \o t)
<1> DEFINE S == {k \in Nat : \A r \in Seq(Packet) : Len(r) = k => Amount(a \o r) = Amount(b \o r)}
<1>1. 0 \in S
  <2>1. ASSUME NEW r \in Seq(Packet), Len(r) = 0 PROVE Amount(a \o r) = Amount(b \o r)
    <3>1. r = <<>> BY <2>1
    <3>2. a \o <<>> = a /\ b \o <<>> = b OBVIOUS
    <3> QED BY <3>1, <3>2
  <2> QED BY <2>1
<1>2. ASSUME NEW k \in Nat, k \in S PROVE k + 1 \in S
  <2>1. ASSUME NEW r \in Seq(Packet), Len(r) = k + 1 PROVE Amount(a \o r) = Amount(b \o r)
    <3>1. PICK q : q = SubSeq(r, 1, k) OBVIOUS
    <3>2. PICK p : p = r[k + 1] OBVIOUS
    <3>3. q \in Seq(Packet) /\ Len(q) = k /\ p \in Packet /\ r = Append(q, p)
      BY <2>1, <3>1, <3>2
    <3>4. a \o r = Append(a \o q, p) /\ b \o r = Append(b \o q, p) BY <3>3
    <3>5. a \o q \in Seq(Packet) /\ b \o q \in Seq(Packet) BY <3>3
    <3>6. Amount(a \o q) = Amount(b \o q) BY <1>2, <3>3
    <3>7. Amount(Append(a \o q, p)) = Add(Amount(a \o q), p) BY <3>3, <3>5, AmountAppend
    <3>8. Amount(Append(b \o q, p)) = Add(Amount(b \o q), p) BY <3>3, <3>5, AmountAppend
    <3> QED BY <3>4, <3>6, <3>7, <3>8
  <2> QED BY <2>1
<1> HIDE DEF S
<1>3. Nat \subseteq S BY <1>1, <1>2, NatSetInduction
<1>4. Len(t) \in S BY <1>3
<1> QED BY <1>4 DEF S

-----------------------------------------------------------------------------
(***************************************************************************)
(* Batching two packets is adding them one after the other.                *)
(***************************************************************************)
\* A number that is a short is not cut.
LEMMA ShortIsItself ==
  ASSUME NEW n \in Short
  PROVE  ToShort(n) = n
<1>1. ShortMax \in Nat BY InputAssumption
<1>2. n + ShortMax + 1 \in 0 .. 2 * ShortMax + 1 BY <1>1 DEF Short
<1>3. (n + ShortMax + 1) % (2 * ShortMax + 2) = n + ShortMax + 1 BY <1>1, <1>2
<1> QED BY <1>1, <1>2, <1>3 DEF ToShort, Short

\* What batching makes of two moves or of two states of a controller.
LEMMA BatchedIs ==
  ASSUME NEW o \in Packet, NEW n \in Packet, CanBatchMoves(o, n) \/ CanBatchControllers(o, n)
  PROVE  Joins(o, n) /\ Batched(o, n) = Join(o, n)
<1>1. CASE CanBatchMoves(o, n)
  <2>1. o.type = "mouse" /\ n.type = "mouse" BY <1>1 DEF CanBatchMoves
  <2>2. \A i \in DOMAIN o.axes : ToShort(o.axes[i] + n.axes[i]) = o.axes[i] + n.axes[i]
    BY <1>1, ShortIsItself DEF CanBatchMoves
  <2>3. [i \in DOMAIN o.axes |-> IF o.type = "mouse" THEN ToShort(o.axes[i] + n.axes[i]) ELSE n.axes[i]]
        = [i \in DOMAIN o.axes |-> o.axes[i] + n.axes[i]]
    BY <2>1, <2>2
  <2>4. Batched(o, n) = Join(o, n)
    BY <2>1, <2>3, Zenon DEF Batched, Join
  <2> QED BY <2>1, <2>4 DEF Joins
<1>2. CASE CanBatchControllers(o, n)
  <2>1. /\ o.type = "multiController" /\ n.type = "multiController"
        /\ n.flags = o.flags /\ n.num = o.num
    BY <1>2 DEF CanBatchControllers
  <2>2. PICK a : a = [i \in DOMAIN o.axes |-> IF o.type = "mouse" THEN ToShort(o.axes[i] + n.axes[i]) ELSE n.axes[i]]
    OBVIOUS
  <2>3. a = n.axes
    <3>1. n.axes \in [DOMAIN o.axes -> Int] BY <2>1, PacketAxes
    <3>2. \A i \in DOMAIN o.axes : a[i] = n.axes[i] BY <2>1, <2>2
    <3>3. a = [i \in DOMAIN o.axes |-> a[i]] BY <2>2
    <3> QED BY <3>1, <3>2, <3>3
  <2>4. Batched(o, n) = [o EXCEPT !.axes = n.axes] BY <2>2, <2>3, Zenon DEF Batched
  <2>5. /\ o = [type |-> o.type, num |-> o.num, flags |-> o.flags, axes |-> o.axes]
        /\ n = [type |-> n.type, num |-> n.num, flags |-> n.flags, axes |-> n.axes]
    BY PacketAxes
  <2>6. [o EXCEPT !.axes = n.axes] = [type |-> o.type, num |-> o.num, flags |-> o.flags, axes |-> n.axes]
    BY <2>5
  <2>7. Batched(o, n) = n BY <2>1, <2>4, <2>5, <2>6
  <2> QED BY <2>1, <2>7 DEF Joins, Join
<1> QED BY <1>1, <1>2

\* Joining is associative, and does not change what joins.
LEMMA JoinAssociates ==
  ASSUME NEW l \in Packet, NEW o \in Packet, NEW n \in Packet, Joins(o, n)
  PROVE  /\ Joins(l, Join(o, n)) <=> Joins(l, o)
         /\ Joins(l, o) => Joins(Join(l, o), n) /\ Join(Join(l, o), n) = Join(l, Join(o, n))
<1>1. CASE o.type = "mouse"
  <2>1. n.type = "mouse" BY <1>1 DEF Joins
  <2>2. PICK b : b = Join(o, n) OBVIOUS
  <2>3. b \in Packet /\ b.type = "mouse" BY <1>1, <2>2, JoinIsPacket
  <2>4. Joins(l, b) <=> Joins(l, o) BY <1>1, <2>3 DEF Joins
  <2>5. ASSUME Joins(l, o)
        PROVE  Joins(Join(l, o), n) /\ Join(Join(l, o), n) = Join(l, b)
    <3>1. l.type = "mouse" BY <1>1, <2>5 DEF Joins
    <3>2. PICK c : c = Join(l, o) OBVIOUS
    <3>3. c \in Packet /\ c.type = "mouse" BY <2>5, <3>1, <3>2, JoinIsPacket
    <3>4. Joins(c, n) BY <2>1, <3>3 DEF Joins
    <3>5. PICK D : D = DOMAIN l.axes OBVIOUS
    <3>6. /\ l.axes \in [D -> Int] /\ o.axes \in [D -> Int] /\ n.axes \in [D -> Int]
          /\ l = [type |-> l.type, num |-> l.num, flags |-> l.flags, axes |-> l.axes]
          /\ o = [type |-> o.type, num |-> o.num, flags |-> o.flags, axes |-> o.axes]
      BY <1>1, <2>1, <3>1, <3>5, PacketAxes
    <3>7. PICK x : x = [i \in D |-> o.axes[i] + n.axes[i]] OBVIOUS
    <3>8. PICK y : y = [i \in D |-> l.axes[i] + o.axes[i]] OBVIOUS
    <3>9. b = [o EXCEPT !.axes = x]
      <4>1. DOMAIN o.axes = D BY <3>6
      <4> QED BY <1>1, <2>2, <3>7, <4>1, Zenon DEF Join
    <3>10. c = [l EXCEPT !.axes = y]
      <4>1. DOMAIN l.axes = D BY <3>6
      <4> QED BY <3>1, <3>2, <3>8, <4>1, Zenon DEF Join
    <3>11. b.axes = x BY <3>6, <3>9
    <3>12. c.axes = y /\ c = [type |-> l.type, num |-> l.num, flags |-> l.flags, axes |-> y] BY <3>6, <3>10
    <3>13. PICK z : z = [i \in D |-> l.axes[i] + x[i]] OBVIOUS
    <3>14. Join(l, b) = [l EXCEPT !.axes = z]
      <4>1. DOMAIN l.axes = D BY <3>6
      <4> QED BY <3>1, <3>11, <3>13, <4>1, Zenon DEF Join
    <3>15. PICK w : w = [i \in D |-> y[i] + n.axes[i]] OBVIOUS
    <3>16. Join(c, n) = [c EXCEPT !.axes = w]
      <4>1. DOMAIN c.axes = D BY <3>8, <3>12
      <4> QED BY <3>3, <3>12, <3>15, <4>1, Zenon DEF Join
    <3>17. w = z
      <4>1. \A i \in D : y[i] + n.axes[i] = l.axes[i] + x[i] BY <3>6, <3>7, <3>8
      <4> QED BY <3>13, <3>15, <4>1
    <3>18. [c EXCEPT !.axes = z] = [type |-> l.type, num |-> l.num, flags |-> l.flags, axes |-> z]
      BY <3>12
    <3>19. [l EXCEPT !.axes = z] = [type |-> l.type, num |-> l.num, flags |-> l.flags, axes |-> z]
      BY <3>6
    <3> QED BY <3>2, <3>4, <3>14, <3>16, <3>17, <3>18, <3>19
  <2> QED BY <2>2, <2>4, <2>5
<1>2. CASE o.type # "mouse" BY <1>2 DEF Joins, Join
<1> QED BY <1>1, <1>2

\* Adding two packets that join is adding what they join to.
LEMMA AddTwo ==
  ASSUME NEW x \in Seq(Packet), NEW o \in Packet, NEW n \in Packet, Joins(o, n)
  PROVE  Add(Add(x, o), n) = Add(x, Join(o, n))
<1>1. CASE x # <<>> /\ Joins(Last(x), o)
  <2>1. PICK l \in Packet : l = Last(x) BY <1>1, FrontLast
  <2>2. PICK f \in Seq(Packet) : f = Front(x) BY <1>1, FrontLast
  <2>3. Joins(l, o) BY <1>1, <2>1
  <2>4. PICK c \in Packet : c = Join(l, o) BY <2>3, JoinIsPacket
  <2>5. Add(x, o) = Append(f, c) BY <1>1, <2>1, <2>2, <2>4 DEF Add
  <2>6. Append(f, c) # <<>> /\ Front(Append(f, c)) = f /\ Last(Append(f, c)) = c BY FrontLast
  <2>7. Joins(c, n) /\ Join(c, n) = Join(l, Join(o, n)) BY <2>3, <2>4, JoinAssociates
  <2>8. Add(Append(f, c), n) = Append(f, Join(c, n)) BY <2>6, <2>7 DEF Add
  <2>9. Joins(l, Join(o, n)) BY <2>3, JoinAssociates
  <2>10. Add(x, Join(o, n)) = Append(f, Join(l, Join(o, n))) BY <1>1, <2>1, <2>2, <2>9 DEF Add
  <2> QED BY <2>5, <2>7, <2>8, <2>10
<1>2. CASE x = <<>> \/ ~ Joins(Last(x), o)
  <2>1. Add(x, o) = Append(x, o) BY <1>2 DEF Add
  <2>2. Append(x, o) # <<>> /\ Front(Append(x, o)) = x /\ Last(Append(x, o)) = o BY FrontLast
  <2>3. Add(Append(x, o), n) = Append(x, Join(o, n)) BY <2>2 DEF Add
  <2>4. Add(x, Join(o, n)) = Append(x, Join(o, n))
    <3>1. CASE x = <<>> BY <3>1 DEF Add
    <3>2. CASE x # <<>>
      <4>1. Last(x) \in Packet BY <3>2, FrontLast
      <4>2. ~ Joins(Last(x), Join(o, n)) BY <1>2, <3>2, <4>1, JoinAssociates
      <4> QED BY <4>2 DEF Add
    <3> QED BY <3>1, <3>2
  <2> QED BY <2>1, <2>3, <2>4
<1> QED BY <1>1, <1>2

\* Sequences put together, one element more, the first element taken.
LEMMA ConcatTwo ==
  ASSUME NEW X, NEW a \in Seq(X), NEW b \in Seq(X)
  PROVE  a \o b \in Seq(X) /\ a \o <<>> = a
OBVIOUS

LEMMA ConcatOne ==
  ASSUME NEW X, NEW a \in Seq(X), NEW p \in X
  PROVE  Append(a, p) \in Seq(X) /\ a \o <<p>> = Append(a, p)
OBVIOUS

LEMMA ConcatAppend ==
  ASSUME NEW X, NEW a \in Seq(X), NEW b \in Seq(X), NEW p \in X
  PROVE  a \o Append(b, p) = Append(a \o b, p)
OBVIOUS

LEMMA FirstTaken ==
  ASSUME NEW X, NEW a \in Seq(X), NEW c \in Seq(X), c # <<>>
  PROVE  /\ Head(c) \in X /\ Tail(c) \in Seq(X) /\ Len(Tail(c)) = Len(c) - 1 /\ Len(c) \in Nat
         /\ a \o c = Append(a, Head(c)) \o Tail(c)
OBVIOUS

-----------------------------------------------------------------------------
(***************************************************************************)
(* InputExact is inductive with the type of the state.                     *)
(***************************************************************************)
Holding == {"batch", "send", "failed"}

ThreadOK ==
  /\ thread = [pc |-> thread.pc, holder |-> thread.holder, dirs |-> thread.dirs]
  /\ \/ thread.pc \in {"none", "wait", "done"} /\ thread.holder = <<>>
     \/ thread.pc \in Holding /\ \E o \in Packet : thread.holder = <<o>>

QueuesOK ==
  /\ {gen3, initialized, shutdown} \subseteq BOOLEAN
  /\ {packetQueue, accepted, sent} \subseteq Seq(Packet)
  /\ Len(packetQueue) <= MaxQueued

Exact == thread.pc # "failed" => Amount(sent \o thread.holder \o packetQueue) = Amount(accepted)

InputInv == QueuesOK /\ ThreadOK /\ Exact

LEMMA HolderIsPackets ==
  ASSUME ThreadOK
  PROVE  thread.holder \in Seq(Packet) /\ thread.pc \in {"none", "wait", "batch", "send", "done", "failed"}
<1>1. \A o \in Packet : <<o>> \in Seq(Packet) OBVIOUS
<1>2. thread.holder \in Seq(Packet)
  <2>1. CASE thread.holder = <<>> BY <2>1
  <2>2. CASE \E o \in Packet : thread.holder = <<o>> BY <1>1, <2>2
  <2> QED BY <2>1, <2>2 DEF ThreadOK
<1> QED BY <1>2 DEF ThreadOK, Holding

LEMMA InputInvExact == InputInv => InputExact
<1> SUFFICES ASSUME InputInv PROVE InputExact
  OBVIOUS
<1>1. \A o \in Packet : <<o>> # <<>> OBVIOUS
<1>2. thread.pc \in {"none", "wait", "done"} <=> thread.holder = <<>>
  BY <1>1 DEF InputInv, ThreadOK, Holding
<1>3. InputTypeOK BY <1>2, HolderIsPackets DEF InputInv, QueuesOK, InputTypeOK
<1> QED BY <1>3 DEF InputInv, Exact, InputExact

LEMMA InputInvInit == InputInit => InputInv
<1>1. SUFFICES ASSUME InputInit PROVE InputInv
  OBVIOUS
<1>2. MaxQueued \in Nat BY InputAssumption
<1>3. <<>> \o <<>> \o <<>> = <<>> OBVIOUS
<1>4. QueuesOK
  <2>1. <<>> \in Seq(Packet) /\ Len(<<>>) = 0 OBVIOUS
  <2>2. {gen3, initialized, shutdown} \subseteq BOOLEAN
    <3>1. gen3 \in BOOLEAN /\ initialized \in BOOLEAN /\ shutdown \in BOOLEAN
      BY <1>1, Zenon DEF InputInit
    <3> QED BY <3>1, Zenon
  <2>3. packetQueue = <<>> /\ accepted = <<>> /\ sent = <<>> BY <1>1 DEF InputInit
  <2> QED BY <1>2, <2>1, <2>2, <2>3 DEF QueuesOK
<1>5. thread = [pc |-> "none", holder |-> <<>>, dirs |-> <<>>] BY <1>1 DEF InputInit, Stopped
<1>6. ThreadOK BY <1>5 DEF ThreadOK
<1>7. Exact BY <1>1, <1>3, <1>5 DEF InputInit, Exact
<1> QED BY <1>4, <1>6, <1>7 DEF InputInv

\* A packet is queued and accepted, or neither.
LEMMA OfferKeeps ==
  ASSUME InputInv, NEW p \in Packet, Offer(p), UNCHANGED gen3
  PROVE  InputInv'
<1>1. CASE UNCHANGED <<packetQueue, accepted>>
  BY <1>1 DEF InputInv, QueuesOK, ThreadOK, Exact, Offer
<1>2. CASE Len(packetQueue) < MaxQueued /\ packetQueue' = Append(packetQueue, p) /\ accepted' = Append(accepted, p)
  <2>1. packetQueue \in Seq(Packet) /\ accepted \in Seq(Packet) /\ sent \in Seq(Packet)
        /\ thread.holder \in Seq(Packet) /\ MaxQueued \in Nat
    BY HolderIsPackets, InputAssumption DEF InputInv, QueuesOK
  <2>2. Len(packetQueue') <= MaxQueued BY <1>2, <2>1
  <2>3. QueuesOK' BY <1>2, <2>1, <2>2 DEF InputInv, QueuesOK, Offer
  <2>4. ThreadOK' BY DEF InputInv, ThreadOK, Offer
  <2>5. ASSUME thread.pc # "failed"
        PROVE  Amount(sent \o thread.holder \o packetQueue') = Amount(accepted')
    <3>1. PICK a \in Seq(Packet) : a = sent \o thread.holder \o packetQueue BY <2>1, ConcatTwo
    <3>2. sent \o thread.holder \o packetQueue' = Append(a, p)
      <4>1. PICK b \in Seq(Packet) : b = sent \o thread.holder BY <2>1, ConcatTwo
      <4>2. b \o Append(packetQueue, p) = Append(b \o packetQueue, p) BY <2>1, ConcatAppend
      <4>3. sent \o thread.holder \o Append(packetQueue, p) = Append(a, p) BY <3>1, <4>1, <4>2
      <4> QED BY <1>2, <4>3
    <3>3. Amount(Append(a, p)) = Add(Amount(a), p) BY AmountAppend
    <3>4. Amount(Append(accepted, p)) = Add(Amount(accepted), p) BY <2>1, AmountAppend
    <3> QED BY <1>2, <2>5, <3>1, <3>2, <3>3, <3>4 DEF InputInv, Exact
  <2>6. Exact' BY <2>5 DEF Exact, Offer
  <2> QED BY <2>3, <2>4, <2>6 DEF InputInv
<1>3. Len(packetQueue) \in Nat /\ MaxQueued \in Nat BY InputAssumption DEF InputInv, QueuesOK
<1> QED BY <1>1, <1>2, <1>3 DEF Offer, LbqOfferQueueItem

\* The first packet of the queue becomes the one held.
LEMMA WaitKeeps ==
  ASSUME InputInv, WaitForQueueElement, UNCHANGED gen3
  PROVE  InputInv'
<1>1. packetQueue \in Seq(Packet) /\ sent \in Seq(Packet) /\ thread.holder = <<>> /\ MaxQueued \in Nat
  BY InputAssumption DEF InputInv, QueuesOK, ThreadOK, WaitForQueueElement, Holding
<1>2. CASE shutdown
  <2>1. thread' = [thread EXCEPT !.pc = "done"] /\ UNCHANGED packetQueue
    BY <1>2 DEF WaitForQueueElement
  <2>2. thread'.pc = "done" /\ thread'.holder = <<>>
        /\ thread' = [pc |-> thread'.pc, holder |-> thread'.holder, dirs |-> thread'.dirs]
    BY <1>1, <2>1 DEF InputInv, ThreadOK
  <2>3. thread.pc # "failed" BY DEF WaitForQueueElement
  <2> QED BY <1>1, <2>1, <2>2, <2>3
       DEF InputInv, QueuesOK, ThreadOK, Exact, WaitForQueueElement
<1>3. CASE ~ shutdown
  <2>1. packetQueue # <<>> /\ packetQueue' = Tail(packetQueue)
    BY <1>3 DEF WaitForQueueElement
  <2>2. PICK o \in Packet : o = Head(packetQueue) BY <1>1, <2>1, FirstTaken
  <2>3. /\ thread' = [pc |-> thread'.pc, holder |-> thread'.holder, dirs |-> thread'.dirs]
        /\ thread'.pc = "batch" /\ thread'.holder = <<o>>
    BY <1>3, <2>2 DEF WaitForQueueElement
  <2>4. packetQueue' \in Seq(Packet) /\ Len(packetQueue') <= MaxQueued
    BY <1>1, <2>1, FirstTaken DEF InputInv, QueuesOK
  <2>5. sent \o <<o>> \o packetQueue' = sent \o <<>> \o packetQueue
    BY <1>1, <2>1, <2>2, ConcatTwo, ConcatOne, FirstTaken
  <2>6. thread.pc # "failed" BY DEF WaitForQueueElement
  <2>7. QueuesOK' BY <2>4 DEF InputInv, QueuesOK, WaitForQueueElement
  <2>8. ThreadOK' BY <2>3 DEF ThreadOK, Holding
  <2>9. Exact'
    <3>1. Amount(sent \o <<>> \o packetQueue) = Amount(accepted) BY <1>1, <2>6 DEF InputInv, Exact
    <3> QED BY <2>3, <2>5, <3>1 DEF Exact, WaitForQueueElement
  <2> QED BY <2>7, <2>8, <2>9 DEF InputInv
<1> QED BY <1>2, <1>3

\* The first packet of the queue joins the one held.
LEMMA BatchKeeps ==
  ASSUME InputInv, Batch, UNCHANGED gen3
  PROVE  InputInv'
<1>1. packetQueue \in Seq(Packet) /\ sent \in Seq(Packet) /\ MaxQueued \in Nat /\ packetQueue # <<>>
  BY InputAssumption DEF InputInv, QueuesOK, Batch
<1>2. PICK o \in Packet : thread.holder = <<o>> BY DEF InputInv, ThreadOK, Batch
<1>3. PICK n \in Packet : n = Head(packetQueue) BY <1>1, FirstTaken
<1>4. PICK q \in Seq(Packet) : q = Tail(packetQueue) BY <1>1, FirstTaken
<1>5. CanBatchMoves(o, n) \/ CanBatchControllers(o, n)
  <2>1. thread.holder[1] = o BY <1>2
  <2> QED BY <1>3, <2>1 DEF Batch
<1>6. PICK b \in Packet : b = Batched(o, n) BY <1>5, BatchedIs, JoinIsPacket
<1>7. Joins(o, n) /\ b = Join(o, n) BY <1>5, <1>6, BatchedIs
<1>8. /\ thread' = [pc |-> thread'.pc, holder |-> thread'.holder, dirs |-> thread'.dirs]
      /\ thread'.pc = "batch" /\ thread'.holder = <<b>> /\ packetQueue' = q
  <2>1. thread.holder[1] = o BY <1>2
  <2> QED BY <1>3, <1>4, <1>6, <2>1 DEF Batch
<1>9. Amount(sent \o <<b>> \o q) = Amount(sent \o <<o>> \o packetQueue)
  <2>1. PICK x \in Seq(Packet) : x = Amount(sent) BY <1>1, AmountIsPackets
  <2>2. Amount(Append(sent, o)) = Add(x, o) BY <1>1, <2>1, AmountAppend
  <2>3. Append(sent, o) \in Seq(Packet) BY <1>1
  <2>4. Amount(Append(Append(sent, o), n)) = Add(Add(x, o), n) BY <2>2, <2>3, AmountAppend
  <2>5. Amount(Append(sent, b)) = Add(x, b) BY <1>1, <2>1, AmountAppend
  <2>6. Amount(Append(sent, b)) = Amount(Append(Append(sent, o), n)) BY <1>7, <2>4, <2>5, AddTwo
  <2>7. Append(sent, b) \in Seq(Packet) /\ Append(Append(sent, o), n) \in Seq(Packet) BY <1>1
  <2>8. Amount(Append(sent, b) \o q) = Amount(Append(Append(sent, o), n) \o q)
    BY <2>6, <2>7, AmountFollowed
  <2>9. Append(sent, b) \o q = sent \o <<b>> \o q BY <1>1, ConcatOne
  <2>10. Append(Append(sent, o), n) \o q = sent \o <<o>> \o packetQueue
    <3>1. Append(sent, o) = sent \o <<o>> BY <1>1, ConcatOne
    <3>2. Append(sent, o) \o packetQueue = Append(Append(sent, o), n) \o q
      BY <1>1, <1>3, <1>4, <2>3, FirstTaken
    <3> QED BY <3>1, <3>2
  <2> QED BY <2>8, <2>9, <2>10
<1>10. QueuesOK'
  <2>1. Len(q) <= MaxQueued BY <1>1, <1>4, FirstTaken DEF InputInv, QueuesOK
  <2> QED BY <1>8, <2>1 DEF InputInv, QueuesOK, Batch
<1>11. ThreadOK' BY <1>8 DEF ThreadOK, Holding
<1>12. Exact'
  <2>1. Amount(sent \o <<o>> \o packetQueue) = Amount(accepted) BY <1>2 DEF InputInv, Exact, Batch
  <2> QED BY <1>8, <1>9, <2>1 DEF Exact, Batch
<1> QED BY <1>10, <1>11, <1>12 DEF InputInv

\* The packet held is sent.
LEMMA SendKeeps ==
  ASSUME InputInv, Send, UNCHANGED gen3
  PROVE  InputInv'
<1>1. packetQueue \in Seq(Packet) /\ sent \in Seq(Packet) /\ thread.holder \in Seq(Packet)
  BY HolderIsPackets DEF InputInv, QueuesOK
<1>2. PICK s \in Seq(Packet) : s = sent \o thread.holder BY <1>1, ConcatTwo
<1>3. sent' = s BY <1>2 DEF Send
<1>4. s \o <<>> = s BY ConcatTwo
<1>5. Amount(s \o packetQueue) = Amount(accepted) BY <1>2 DEF InputInv, Exact, Send
<1>6. QueuesOK' BY <1>3 DEF InputInv, QueuesOK, Send
<1>7. ThreadOK' BY DEF ThreadOK, Send
<1>8. Exact' BY <1>3, <1>4, <1>5 DEF Exact, Send
<1> QED BY <1>6, <1>7, <1>8 DEF InputInv

\* The thread only goes on.
LEMMA PcKeeps ==
  ASSUME InputInv, NEW c, thread' = [thread EXCEPT !.pc = c],
         \/ thread.pc = "none" /\ c = "wait"
         \/ thread.pc = "batch" /\ c = "send"
         \/ thread.pc = "send" /\ c = "failed",
         UNCHANGED <<gen3, initialized, packetQueue, shutdown, accepted, sent>>
  PROVE  InputInv'
<1>1. /\ thread' = [pc |-> thread'.pc, holder |-> thread'.holder, dirs |-> thread'.dirs]
      /\ thread'.pc = c /\ thread'.holder = thread.holder
  BY DEF InputInv, ThreadOK
<1>2. ThreadOK' BY <1>1 DEF InputInv, ThreadOK, Holding
<1>3. Exact' BY <1>1 DEF InputInv, Exact
<1> QED BY <1>2, <1>3 DEF InputInv, QueuesOK

LEMMA InputInvNext == InputInv /\ [InputNext]_inputVars => InputInv'
<1> SUFFICES ASSUME InputInv, [InputNext]_inputVars PROVE InputInv'
  OBVIOUS
<1>1. CASE UNCHANGED inputVars
  BY <1>1 DEF inputVars, InputInv, QueuesOK, ThreadOK, Exact
<1>2. ASSUME InputNext PROVE InputInv'
  <2>0. UNCHANGED gen3 BY <1>2 DEF InputNext
  <2>1. ASSUME NEW e \in Events,
               \/ LiSendMouseMoveEvent(e) \/ LiSendMouseButtonEvent(e)
               \/ LiSendScrollEvent(e) \/ sendControllerEventInternal(e)
        PROVE  InputInv'
    <3>1. CASE LiSendMouseMoveEvent(e) BY <2>0, <3>1, EventIsPacket, OfferKeeps DEF LiSendMouseMoveEvent
    <3>2. CASE LiSendMouseButtonEvent(e) BY <2>0, <3>2, EventIsPacket, OfferKeeps DEF LiSendMouseButtonEvent
    <3>3. CASE LiSendScrollEvent(e) BY <2>0, <3>3, EventIsPacket, OfferKeeps DEF LiSendScrollEvent
    <3>4. CASE sendControllerEventInternal(e)
      <4>1. PICK p : p = (IF gen3 THEN Unnumbered(e) ELSE e) OBVIOUS
      <4>2. p \in Packet BY <3>4, <4>1, EventIsPacket DEF sendControllerEventInternal
      <4>3. Offer(p) BY <3>4, <4>1 DEF sendControllerEventInternal
      <4> QED BY <2>0, <4>2, <4>3, OfferKeeps
    <3> QED BY <2>1, <3>1, <3>2, <3>3, <3>4
  <2>2. CASE startInputStream BY <2>0, <2>2, PcKeeps DEF startInputStream
  <2>3. CASE WaitForQueueElement BY <2>0, <2>3, WaitKeeps
  <2>4. CASE Batch BY <2>0, <2>4, BatchKeeps
  <2>5. CASE EndBatch BY <2>0, <2>5, PcKeeps DEF EndBatch
  <2>6. CASE Send BY <2>0, <2>6, SendKeeps
  <2>7. CASE SendFails BY <2>0, <2>7, PcKeeps DEF SendFails
  <2>8. CASE Initialize BY <2>0, <2>8 DEF Initialize, InputInv, QueuesOK, ThreadOK, Exact
  <2>9. CASE StopInput BY <2>0, <2>9 DEF StopInput, InputInv, QueuesOK, ThreadOK, Exact
  <2> QED BY <1>2, <2>1, <2>2, <2>3, <2>4, <2>5, <2>6, <2>7, <2>8, <2>9 DEF InputNext
<1> QED BY <1>1, <1>2

\* Batching loses nothing, for any events and any bound of the queue: what was sent, is held
\* and is queued amounts to what was accepted, until sending fails (inputSendThread of v345).
THEOREM InputKept == Spec => []InputExact
<1>1. Init => InputInv BY InputInvInit DEF Init
<1>2. InputInv /\ [Next]_vars => InputInv'
  <2>1. [Next]_vars => [InputNext]_inputVars BY DEF Next, vars
  <2> QED BY <2>1, InputInvNext
<1> QED BY <1>1, <1>2, InputInvExact, PTL DEF Spec

-----------------------------------------------------------------------------
(***************************************************************************)
(* The video stream, as the server numbers it: packets of each frame in    *)
(* their order, frame after frame.                                         *)
(***************************************************************************)
Size(f) == frames[f].data + frames[f].fec

VideoPacket ==
  [index : Nat, frameIndex : Nat, part : Nat, first : BOOLEAN, eof : BOOLEAN, pic : BOOLEAN,
   short : BOOLEAN, idr : BOOLEAN]

\* A packet of one of the first m frames.
PacketOK(p, m) ==
  /\ p.frameIndex \in 1 .. m /\ p.part \in 1 .. Size(p.frameIndex)
  /\ p.first <=> p.part = 1
  /\ p.eof <=> p.part = frames[p.frameIndex].data
  /\ p.idr => p.part = 1 /\ frames[p.frameIndex].idr

\* q is the next part of the frame of p.
Continues(p, q) == q.frameIndex = p.frameIndex /\ q.part = p.part + 1

\* The packets of the first m frames.
FramesInOrder(ps, m) ==
  /\ ps \in Seq(VideoPacket)
  /\ \A k \in 1 .. Len(ps) : PacketOK(ps[k], m)
  /\ \A k \in 1 .. Len(ps) :
       ps[k].part < Size(ps[k].frameIndex) => k + 1 \in 1 .. Len(ps) /\ Continues(ps[k], ps[k + 1])
  /\ \A j, k \in 1 .. Len(ps) : j <= k => ps[j].frameIndex <= ps[k].frameIndex

StreamOK ==
  /\ frames \in [1 .. NumFrames -> FrameKind]
  /\ FramesInOrder(stream, NumFrames)
  /\ \E from \in Nat : \A k \in 1 .. Len(stream) : stream[k].index = (from + k - 1) % IndexMod

(***************************************************************************)
(* The depacketizer.                                                       *)
(***************************************************************************)
\* The chain of a frame holds its first packets.
ChainOf(ch, f, n) ==
  /\ Len(ch) = n
  /\ \A i \in 1 .. n : ch[i].part = i /\ ch[i].frameIndex = f

\* The packet taken in last is the k-th of the stream, not the last of its frame.
At(k) ==
  /\ k \in 1 .. Len(stream) /\ k <= latest
  /\ Len(stream) <= IndexMod \/ latest <= k + ShortMod
  /\ v.lastPacketInStream = stream[k].index /\ v.nextFrameNumber = stream[k].frameIndex
  /\ stream[k].part < frames[stream[k].frameIndex].data
  /\ ChainOf(v.chain, v.nextFrameNumber, stream[k].part)

ChainOK == IF v.decodingFrame THEN \E k \in 1 .. Len(stream) : At(k) ELSE v.chain = <<>>

Globals ==
  [lastPacketInStream : Int, nextFrameNumber : Nat, startFrameNumber : Nat,
   decodingFrame : BOOLEAN, waitingForNextSuccessfulFrame : BOOLEAN,
   waitingForIdrFrame : BOOLEAN, chain : Seq(VideoPacket)]

GlobalsOK ==
  /\ v \in Globals /\ strict \in BOOLEAN /\ latest \in 0 .. Len(stream)
  /\ v.lastPacketInStream \in -1 .. IndexMod - 1
  /\ v.nextFrameNumber \in 1 .. NumFrames + 1

DecodedFrame == [frame : 1 .. NumFrames, chain : Seq(VideoPacket)]

\* Frames from startFrameNumber on have not been decoded, those before have.
DecodedOK ==
  /\ decoded \in Seq(DecodedFrame)
  /\ v.startFrameNumber <= v.nextFrameNumber
  /\ v.startFrameNumber = IF decoded = <<>> THEN 0 ELSE decoded[Len(decoded)].frame + 1
  /\ \A n \in 1 .. Len(decoded) :
       ChainOf(decoded[n].chain, decoded[n].frame, frames[decoded[n].frame].data)
  /\ \A m, n \in 1 .. Len(decoded) : m < n => decoded[m].frame < decoded[n].frame

\* The frame being received begins with an IDR packet.
DecodesIdr == v.decodingFrame /\ frames[v.nextFrameNumber].idr

\* A frame missing before the next one is waited for, or not needed.
WaitsOK ==
  /\ v.startFrameNumber < v.nextFrameNumber =>
       v.waitingForIdrFrame \/ DecodesIdr \/ (v.waitingForNextSuccessfulFrame /\ ~ strict)
  /\ v.nextFrameNumber = 1 => v.waitingForIdrFrame \/ frames[1].idr

VideoInv == StreamOK /\ GlobalsOK /\ ChainOK /\ DecodedOK /\ WaitsOK /\ GapsCovered

-----------------------------------------------------------------------------
(***************************************************************************)
(* What the server sends is in order.                                      *)
(***************************************************************************)
LEMMA FrameFacts ==
  ASSUME frames \in [1 .. NumFrames -> FrameKind], NEW f \in 1 .. NumFrames
  PROVE  /\ frames[f].data \in Nat \ {0} /\ frames[f].fec \in Nat /\ frames[f].idr \in BOOLEAN
         /\ frames[f].short \in BOOLEAN
         /\ Size(f) \in Nat /\ frames[f].data <= Size(f) /\ Size(f) = frames[f].data + frames[f].fec
<1>1. frames[f] \in FrameKind OBVIOUS
<1>2. /\ frames[f].data \in Nat \ {0} /\ frames[f].fec \in Nat
  BY <1>1 DEF FrameKind
<1>3. frames[f].idr \in BOOLEAN /\ frames[f].short \in BOOLEAN BY <1>1 DEF FrameKind
<1> QED BY <1>2, <1>3 DEF Size

\* The packets of one frame.
LEMMA PacketsOfFrame ==
  ASSUME frames \in [1 .. NumFrames -> FrameKind], NEW f \in 1 .. NumFrames, NEW ps, ps = Packets(frames, f)
  PROVE  /\ ps \in Seq(VideoPacket) /\ Len(ps) = Size(f)
         /\ \A k \in 1 .. Len(ps) : ps[k].frameIndex = f /\ ps[k].part = k /\ PacketOK(ps[k], f)
<1>1. /\ frames[f].data \in Nat \ {0} /\ frames[f].idr \in BOOLEAN /\ frames[f].short \in BOOLEAN
      /\ Size(f) \in Nat
  BY FrameFacts
<1>2. ps = [k \in 1 .. Size(f) |->
     [index |-> 0, frameIndex |-> f, part |-> k,
      first |-> k = 1, eof |-> k = frames[f].data, pic |-> k <= frames[f].data,
      short |-> k = frames[f].data /\ frames[f].short, idr |-> k = 1 /\ frames[f].idr]]
  BY Zenon DEF Packets, Size
<1>3. ASSUME NEW k \in 1 .. Size(f)
      PROVE  ps[k] \in VideoPacket /\ ps[k].frameIndex = f /\ ps[k].part = k /\ PacketOK(ps[k], f)
  <2>1. ps[k] =
     [index |-> 0, frameIndex |-> f, part |-> k,
      first |-> k = 1, eof |-> k = frames[f].data, pic |-> k <= frames[f].data,
      short |-> k = frames[f].data /\ frames[f].short, idr |-> k = 1 /\ frames[f].idr]
    BY <1>2, Zenon
  <2>2. PICK a \in BOOLEAN : a = (k = 1) BY Zenon
  <2>3. PICK b \in BOOLEAN : b = (k = frames[f].data) BY Zenon
  <2>4. PICK c \in BOOLEAN : c = (k <= frames[f].data)
    <3>1. (k <= frames[f].data) \in BOOLEAN BY <1>1, SMT
    <3> QED BY <3>1, Zenon
  <2>5. PICK d \in BOOLEAN : d = (k = frames[f].data /\ frames[f].short) BY Zenon
  <2>6. PICK e \in BOOLEAN : e = (k = 1 /\ frames[f].idr) BY Zenon
  <2>7. ps[k] = [index |-> 0, frameIndex |-> f, part |-> k, first |-> a, eof |-> b, pic |-> c,
                 short |-> d, idr |-> e]
    BY <2>1, <2>2, <2>3, <2>4, <2>5, <2>6, Zenon
  <2>8. /\ ps[k] \in VideoPacket /\ ps[k].frameIndex = f /\ ps[k].part = k
        /\ (ps[k].first <=> a) /\ (ps[k].eof <=> b) /\ (ps[k].idr <=> e)
    <3>1. k \in Nat /\ f \in Nat OBVIOUS
    <3>2. PICK p : p = ps[k] OBVIOUS
    <3>3. p = [index |-> 0, frameIndex |-> f, part |-> k, first |-> a, eof |-> b, pic |-> c,
               short |-> d, idr |-> e]
      BY <2>7, <3>2, Zenon
    <3>4. /\ p \in VideoPacket /\ p.frameIndex = f /\ p.part = k
          /\ (p.first <=> a) /\ (p.eof <=> b) /\ (p.idr <=> e)
      BY <3>1, <3>3 DEF VideoPacket
    <3> QED BY <3>2, <3>4, Zenon
  <2>9. ps[k].frameIndex = f /\ ps[k].part = k BY <2>8
  <2>10. (ps[k].first <=> a) /\ (ps[k].eof <=> b) /\ (ps[k].idr <=> e) BY <2>8
  <2>11. PacketOK(ps[k], f)
    <3>1. f \in 1 .. f OBVIOUS
    <3>2. (ps[k].first <=> k = 1) /\ (ps[k].eof <=> k = frames[f].data) /\ (ps[k].idr => k = 1 /\ frames[f].idr)
      BY <2>2, <2>3, <2>6, <2>10, Zenon
    <3> QED BY <2>9, <3>1, <3>2, Zenon DEF PacketOK
  <2> QED BY <2>8, <2>9, <2>11
<1>4. DOMAIN ps = 1 .. Size(f) /\ ps = [k \in 1 .. Size(f) |-> ps[k]] BY <1>2, Zenon
<1>5. Len(ps) = Size(f) /\ ps \in Seq(VideoPacket)
  <2>1. ps \in [1 .. Size(f) -> VideoPacket] BY <1>3, <1>4
  <2> QED BY <1>1, <2>1
<1> QED BY <1>3, <1>5, Zenon

\* The elements of two sequences put together.
LEMMA ConcatElements ==
  ASSUME NEW X, NEW a \in Seq(X), NEW b \in Seq(X)
  PROVE  /\ a \o b \in Seq(X) /\ Len(a \o b) = Len(a) + Len(b)
         /\ \A k \in 1 .. Len(a) : (a \o b)[k] = a[k]
         /\ \A k \in Len(a) + 1 .. Len(a) + Len(b) :
              (a \o b)[k] = b[k - Len(a)] /\ k - Len(a) \in 1 .. Len(b)
OBVIOUS

\* The packets of one frame more.
LEMMA FrameFollows ==
  ASSUME frames \in [1 .. NumFrames -> FrameKind], NEW m \in Nat, m + 1 \in 1 .. NumFrames,
         NEW a, FramesInOrder(a, m), NEW b, b = Packets(frames, m + 1)
  PROVE  FramesInOrder(a \o b, m + 1)
<1>1. /\ b \in Seq(VideoPacket) /\ Len(b) = Size(m + 1)
      /\ \A k \in 1 .. Len(b) : b[k].frameIndex = m + 1 /\ b[k].part = k /\ PacketOK(b[k], m + 1)
  BY PacketsOfFrame
<1>2. PICK x \in Nat : x = Len(a) BY DEF FramesInOrder
<1>3. PICK y \in Nat : y = Len(b) BY <1>1
<1>4. a \in Seq(VideoPacket) BY DEF FramesInOrder
<1>5. PICK c : c = a \o b OBVIOUS
<1>6. /\ c \in Seq(VideoPacket) /\ Len(c) = x + y
      /\ \A k \in 1 .. x : c[k] = a[k]
      /\ \A k \in x + 1 .. x + y : c[k] = b[k - x] /\ k - x \in 1 .. y
  <2>1. /\ a \o b \in Seq(VideoPacket) /\ Len(a \o b) = x + y
        /\ \A k \in 1 .. x : (a \o b)[k] = a[k]
        /\ \A k \in x + 1 .. x + y : (a \o b)[k] = b[k - x] /\ k - x \in 1 .. y
    <3>1. b \in Seq(VideoPacket) BY <1>1
    <3>2. /\ a \o b \in Seq(VideoPacket) /\ Len(a \o b) = Len(a) + Len(b)
          /\ \A k \in 1 .. Len(a) : (a \o b)[k] = a[k]
          /\ \A k \in Len(a) + 1 .. Len(a) + Len(b) :
               (a \o b)[k] = b[k - Len(a)] /\ k - Len(a) \in 1 .. Len(b)
      BY <1>4, <3>1, ConcatElements
    <3> QED BY <1>2, <1>3, <3>2, Zenon
  <2> QED BY <2>1, <1>5, Zenon
<1>7. ASSUME NEW k \in 1 .. x
      PROVE  /\ PacketOK(c[k], m + 1) /\ c[k].frameIndex <= m /\ c[k].frameIndex \in Nat
             /\ c[k].part < Size(c[k].frameIndex) => k + 1 \in 1 .. x + y /\ Continues(c[k], c[k + 1])
  <2>1. c[k] = a[k] /\ PacketOK(a[k], m) BY <1>2, <1>6 DEF FramesInOrder
  <2>2. a[k].frameIndex \in 1 .. m + 1 /\ a[k].frameIndex <= m /\ a[k].frameIndex \in Nat
    BY <2>1 DEF PacketOK
  <2>3. PacketOK(c[k], m + 1) BY <2>1, <2>2, Zenon DEF PacketOK
  <2>4. ASSUME c[k].part < Size(c[k].frameIndex)
        PROVE  k + 1 \in 1 .. x + y /\ Continues(c[k], c[k + 1])
    <3>1. k + 1 \in 1 .. x /\ Continues(a[k], a[k + 1]) BY <2>1, <2>4, <1>2 DEF FramesInOrder
    <3>2. c[k + 1] = a[k + 1] BY <1>6, <3>1
    <3> QED BY <2>1, <3>1, <3>2
  <2> QED BY <2>1, <2>2, <2>3, <2>4
<1>8. ASSUME NEW k \in x + 1 .. x + y
      PROVE  /\ PacketOK(c[k], m + 1) /\ c[k].frameIndex = m + 1
             /\ c[k].part < Size(c[k].frameIndex) => k + 1 \in 1 .. x + y /\ Continues(c[k], c[k + 1])
  <2>1. c[k] = b[k - x] /\ k - x \in 1 .. y BY <1>6
  <2>2. c[k].frameIndex = m + 1 /\ c[k].part = k - x /\ PacketOK(c[k], m + 1) BY <1>1, <1>3, <2>1
  <2>3. ASSUME c[k].part < Size(c[k].frameIndex)
        PROVE  k + 1 \in 1 .. x + y /\ Continues(c[k], c[k + 1])
    <3>1. k - x < y BY <1>1, <1>3, <2>2, <2>3
    <3>2. k + 1 \in x + 1 .. x + y /\ k + 1 - x = k - x + 1 BY <3>1
    <3>3. c[k + 1] = b[k + 1 - x] /\ k + 1 - x \in 1 .. y BY <1>6, <3>2
    <3>4. c[k + 1].frameIndex = m + 1 /\ c[k + 1].part = k + 1 - x BY <1>1, <1>3, <3>3
    <3> QED BY <2>2, <3>2, <3>4 DEF Continues
  <2> QED BY <2>2, <2>3
<1>9. \A k \in 1 .. x + y : k \in 1 .. x \/ k \in x + 1 .. x + y OBVIOUS
<1>10. ASSUME NEW j \in 1 .. x + y, NEW k \in 1 .. x + y, j <= k
       PROVE  c[j].frameIndex <= c[k].frameIndex
  <2>1. CASE k \in 1 .. x
    <3>1. j \in 1 .. x BY <1>10, <2>1
    <3>2. a[j].frameIndex <= a[k].frameIndex BY <1>2, <1>10, <2>1, <3>1 DEF FramesInOrder
    <3> QED BY <1>6, <2>1, <3>1, <3>2
  <2>2. CASE k \in x + 1 .. x + y
    <3>1. CASE j \in 1 .. x BY <1>7, <1>8, <2>2, <3>1
    <3>2. CASE j \in x + 1 .. x + y BY <1>8, <2>2, <3>2
    <3> QED BY <1>9, <3>1, <3>2
  <2> QED BY <1>9, <2>1, <2>2
<1>11. \A k \in 1 .. x + y : PacketOK(c[k], m + 1) BY <1>7, <1>8, <1>9
<1>12. \A k \in 1 .. x + y :
         c[k].part < Size(c[k].frameIndex) => k + 1 \in 1 .. x + y /\ Continues(c[k], c[k + 1])
  BY <1>7, <1>8, <1>9
<1> QED BY <1>5, <1>6, <1>10, <1>11, <1>12 DEF FramesInOrder

\* f puts the sequences of s together one after the other.
Flattens(f, s, n) == f = [i \in 1 .. n |-> IF i = 1 THEN s[i] ELSE f[i - 1] \o s[i]]

LEMMA FlattenIs ==
  ASSUME NEW s, NEW n \in Nat \ {0}, Len(s) = n
  PROVE  FlattenSeq(s) = (CHOOSE f : Flattens(f, s, n))[n]
BY DEF FlattenSeq, Flattens

LEMMA FlattensExists ==
  ASSUME NEW s
  PROVE  \A n \in Nat : \E f : Flattens(f, s, n)
<1> DEFINE S == {n \in Nat : \E f : Flattens(f, s, n)}
<1>1. 0 \in S
  <2>1. Flattens([i \in 1 .. 0 |-> <<>>], s, 0) BY DEF Flattens
  <2> QED BY <2>1
<1>2. ASSUME NEW n \in Nat, n \in S PROVE n + 1 \in S
  <2>1. PICK f : Flattens(f, s, n) BY <1>2
  <2>2. PICK h : h = [i \in 1 .. n + 1 |-> IF i = n + 1 THEN IF i = 1 THEN s[i] ELSE f[i - 1] \o s[i] ELSE f[i]]
    OBVIOUS
  <2>3. ASSUME NEW i \in 1 .. n + 1
        PROVE  h[i] = IF i = 1 THEN s[i] ELSE h[i - 1] \o s[i]
    <3>1. CASE i = 1
      <4>1. CASE n = 0 BY <2>2, <3>1, <4>1
      <4>2. CASE n # 0
        <5>1. i \in 1 .. n /\ i # n + 1 BY <3>1, <4>2
        <5>2. h[i] = f[i] BY <2>2, <5>1
        <5>3. f[i] = s[i] BY <2>1, <3>1, <5>1 DEF Flattens
        <5> QED BY <3>1, <5>2, <5>3
      <4> QED BY <4>1, <4>2
    <3>2. CASE i # 1
      <4>1. i - 1 \in 1 .. n /\ i - 1 \in 1 .. n + 1 /\ i - 1 # n + 1 BY <3>2
      <4>2. h[i - 1] = f[i - 1] BY <2>2, <4>1
      <4>3. CASE i = n + 1 BY <2>2, <3>2, <4>2, <4>3
      <4>4. CASE i # n + 1
        <5>1. i \in 1 .. n BY <4>4
        <5>2. f[i] = f[i - 1] \o s[i] BY <2>1, <3>2, <5>1 DEF Flattens
        <5>3. h[i] = f[i] BY <2>2, <4>4
        <5> QED BY <3>2, <4>2, <5>2, <5>3
      <4> QED BY <4>3, <4>4
    <3> QED BY <3>1, <3>2
  <2>4. h = [i \in 1 .. n + 1 |-> h[i]] BY <2>2
  <2>5. Flattens(h, s, n + 1) BY <2>3, <2>4 DEF Flattens
  <2> QED BY <2>5
<1> HIDE DEF S
<1>3. Nat \subseteq S BY <1>1, <1>2, NatSetInduction
<1> QED BY <1>3 DEF S

\* The first frames, put together, are in order.
LEMMA FlattenedInOrder ==
  ASSUME frames \in [1 .. NumFrames -> FrameKind], NumFrames \in Nat,
         NEW s, s = [f \in 1 .. NumFrames |-> Packets(frames, f)], NEW g, Flattens(g, s, NumFrames)
  PROVE  \A m \in 1 .. NumFrames : FramesInOrder(g[m], m)
<1> DEFINE S == {m \in Nat : m + 1 \in 1 .. NumFrames => FramesInOrder(g[m + 1], m + 1)}
<1>0. FramesInOrder(<<>>, 0)
  <2>1. Len(<<>>) = 0 /\ <<>> \in Seq(VideoPacket) OBVIOUS
  <2> QED BY <2>1 DEF FramesInOrder
<1>1. 0 \in S
  <2>1. ASSUME 1 \in 1 .. NumFrames PROVE FramesInOrder(g[1], 1)
    <3>1. g[1] = Packets(frames, 1) BY <2>1 DEF Flattens
    <3>0. 0 \in Nat /\ 0 + 1 = 1 OBVIOUS
    <3>2. FramesInOrder(<<>> \o g[1], 0 + 1) BY <1>0, <2>1, <3>0, <3>1, FrameFollows, Zenon
    <3>3. g[1] \in Seq(VideoPacket) BY <2>1, <3>1, PacketsOfFrame
    <3>4. <<>> \o g[1] = g[1] BY <3>3
    <3> QED BY <3>2, <3>4
  <2> QED BY <2>1
<1>2. ASSUME NEW m \in Nat, m \in S PROVE m + 1 \in S
  <2>1. ASSUME m + 2 \in 1 .. NumFrames PROVE FramesInOrder(g[m + 2], m + 2)
    <3>1. m + 1 \in 1 .. NumFrames /\ m + 2 # 1 /\ m + 2 - 1 = m + 1 /\ (m + 1) + 1 = m + 2 BY <2>1
    <3>2. g[m + 2] = g[m + 1] \o Packets(frames, m + 2)
      <4>1. PICK i \in 1 .. NumFrames : i = m + 2 BY <2>1
      <4>2. s[i] = Packets(frames, i) OBVIOUS
      <4>3. g[i] = IF i = 1 THEN s[i] ELSE g[i - 1] \o s[i] BY DEF Flattens
      <4>4. i # 1 /\ i - 1 = m + 1 BY <3>1, <4>1
      <4>5. g[i] = g[i - 1] \o Packets(frames, i) BY <4>2, <4>3, <4>4, Zenon
      <4> QED BY <4>1, <4>4, <4>5, Zenon
    <3>3. FramesInOrder(g[m + 1], m + 1) BY <1>2, <3>1
    <3>4. PICK n \in Nat : n = m + 1 OBVIOUS
    <3>5. n + 1 \in 1 .. NumFrames /\ FramesInOrder(g[m + 1], n) /\ n + 1 = m + 2 BY <2>1, <3>1, <3>3, <3>4
    <3>6. FramesInOrder(g[m + 1] \o Packets(frames, n + 1), n + 1) BY <3>5, FrameFollows
    <3> QED BY <3>2, <3>5, <3>6
  <2>2. (m + 1) + 1 = m + 2 OBVIOUS
  <2> QED BY <2>1, <2>2
<1> HIDE DEF S
<1>3. Nat \subseteq S BY <1>1, <1>2, NatSetInduction
<1>4. ASSUME NEW m \in 1 .. NumFrames PROVE FramesInOrder(g[m], m)
  <2>1. m - 1 \in Nat /\ (m - 1) + 1 = m OBVIOUS
  <2>2. m - 1 \in S BY <1>3, <2>1
  <2> QED BY <2>1, <2>2 DEF S
<1> QED BY <1>4

LEMMA Renumbered ==
  ASSUME NEW m, NEW ps, FramesInOrder(ps, m), NEW h, \A k \in 1 .. Len(ps) : h[k] \in Nat,
         NEW st, st = [k \in DOMAIN ps |-> [ps[k] EXCEPT !.index = h[k]]]
  PROVE  FramesInOrder(st, m) /\ Len(st) = Len(ps) /\ \A k \in 1 .. Len(st) : st[k].index = h[k]
<1>1. ps \in Seq(VideoPacket) /\ DOMAIN ps = 1 .. Len(ps) /\ Len(ps) \in Nat BY DEF FramesInOrder
<1>2. ASSUME NEW k \in 1 .. Len(ps)
      PROVE  /\ st[k] \in VideoPacket /\ st[k].index = h[k]
             /\ st[k].frameIndex = ps[k].frameIndex /\ st[k].part = ps[k].part
             /\ (PacketOK(ps[k], m) => PacketOK(st[k], m))
  <2>1. PICK p \in VideoPacket : p = ps[k] BY <1>1
  <2>2. PICK n \in Nat : n = h[k] OBVIOUS
  <2>3. PICK q : q = [p EXCEPT !.index = n] OBVIOUS
  <2>4. st[k] = q BY <1>1, <2>1, <2>2, <2>3, Zenon
  <2>5. /\ q \in VideoPacket /\ q.index = n /\ q.frameIndex = p.frameIndex /\ q.part = p.part
        /\ q.first = p.first /\ q.eof = p.eof /\ q.idr = p.idr
    BY <2>3 DEF VideoPacket
  <2>6. PacketOK(p, m) => PacketOK(q, m) BY <2>5, Zenon DEF PacketOK
  <2> QED BY <2>1, <2>2, <2>4, <2>5, <2>6, Zenon
<1>3. st \in Seq(VideoPacket) /\ Len(st) = Len(ps)
  <2>1. st \in [1 .. Len(ps) -> VideoPacket] BY <1>1, <1>2
  <2> QED BY <1>1, <2>1
<1>4. \A k \in 1 .. Len(ps) : PacketOK(st[k], m) BY <1>2 DEF FramesInOrder
<1>5. ASSUME NEW k \in 1 .. Len(ps), st[k].part < Size(st[k].frameIndex)
      PROVE  k + 1 \in 1 .. Len(ps) /\ Continues(st[k], st[k + 1])
  <2>1. k + 1 \in 1 .. Len(ps) /\ Continues(ps[k], ps[k + 1]) BY <1>2, <1>5 DEF FramesInOrder
  <2>2. st[k + 1].frameIndex = ps[k + 1].frameIndex /\ st[k + 1].part = ps[k + 1].part BY <1>2, <2>1
  <2> QED BY <1>2, <2>1, <2>2 DEF Continues
<1>6. \A j, k \in 1 .. Len(ps) : j <= k => st[j].frameIndex <= st[k].frameIndex
  BY <1>2 DEF FramesInOrder
<1> QED BY <1>2, <1>3, <1>4, <1>5, <1>6 DEF FramesInOrder

LEMMA StreamInOrder ==
  ASSUME VideoInit
  PROVE  StreamOK
<1>1. NumFrames \in Nat /\ IndexMod \in Nat \ {0} /\ FrameKinds \subseteq FrameKind
      /\ FirstIndexes \subseteq 0 .. IndexMod - 1
  BY VideoAssumption
<1>2. frames \in [1 .. NumFrames -> FrameKind] BY <1>1 DEF VideoInit
<1>3. PICK from \in FirstIndexes : stream = Stream(frames, from) BY DEF VideoInit
<1>4. PICK s : s = [f \in 1 .. NumFrames |-> Packets(frames, f)] OBVIOUS
<1>5. Len(s) = NumFrames BY <1>1, <1>4
<1>6. PICK ps : ps = FlattenSeq(s) OBVIOUS
<1>7. FramesInOrder(ps, NumFrames)
  <2>1. CASE NumFrames = 0
    <3>1. ps = s BY <1>5, <1>6, <2>1 DEF FlattenSeq
    <3>2. s = <<>> BY <1>4, <2>1
    <3>3. Len(<<>>) = 0 /\ <<>> \in Seq(VideoPacket) OBVIOUS
    <3> QED BY <3>1, <3>2, <3>3 DEF FramesInOrder
  <2>2. CASE NumFrames # 0
    <3>1. PICK g : g = (CHOOSE f : Flattens(f, s, NumFrames)) OBVIOUS
    <3>2. Flattens(g, s, NumFrames)
      <4>1. \E f : Flattens(f, s, NumFrames) BY <1>1, FlattensExists
      <4> QED BY <3>1, <4>1, Zenon
    <3>3. ps = g[NumFrames] BY <1>1, <1>5, <1>6, <2>2, <3>1, FlattenIs
    <3>4. NumFrames \in 1 .. NumFrames BY <1>1, <2>2
    <3> QED BY <1>1, <1>2, <1>4, <3>2, <3>3, <3>4, FlattenedInOrder
  <2> QED BY <2>1, <2>2
<1>8. PICK h : h = [k \in 1 .. Len(ps) |-> (from + k - 1) % IndexMod] OBVIOUS
<1>9. from \in Nat BY <1>1
<1>10. \A k \in 1 .. Len(ps) : h[k] \in Nat /\ h[k] = (from + k - 1) % IndexMod
  <2>1. \A k \in 1 .. Len(ps) : (from + k - 1) % IndexMod \in Nat BY <1>1, <1>9
  <2> QED BY <1>8, <2>1
<1>11. stream = [k \in DOMAIN ps |-> [ps[k] EXCEPT !.index = h[k]]]
  <2>1. DOMAIN ps = 1 .. Len(ps) BY <1>7 DEF FramesInOrder
  <2>2. stream = [k \in DOMAIN ps |-> [ps[k] EXCEPT !.index = (from + k - 1) % IndexMod]]
    BY <1>3, <1>4, <1>6, Zenon DEF Stream
  <2>3. \A k \in DOMAIN ps : [ps[k] EXCEPT !.index = (from + k - 1) % IndexMod] = [ps[k] EXCEPT !.index = h[k]]
    BY <1>10, <2>1, Zenon
  <2> QED BY <2>2, <2>3, Zenon
<1>12. FramesInOrder(stream, NumFrames) /\ Len(stream) = Len(ps)
       /\ \A k \in 1 .. Len(stream) : stream[k].index = h[k]
  <2>1. \A k \in 1 .. Len(ps) : h[k] \in Nat BY <1>10
  <2>2. PICK st : st = [k \in DOMAIN ps |-> [ps[k] EXCEPT !.index = h[k]]] OBVIOUS
  <2>3. FramesInOrder(st, NumFrames) /\ Len(st) = Len(ps) /\ \A k \in 1 .. Len(st) : st[k].index = h[k]
    BY <1>7, <2>1, <2>2, Renumbered
  <2>4. st = stream BY <1>11, <2>2, Zenon
  <2> QED BY <2>3, <2>4
<1>13. \A k \in 1 .. Len(stream) : stream[k].index = (from + k - 1) % IndexMod BY <1>10, <1>12
<1> QED BY <1>2, <1>9, <1>12, <1>13 DEF StreamOK

-----------------------------------------------------------------------------
(***************************************************************************)
(* Indexes come round: those of packets near one another do not, and seen  *)
(* as shorts they tell packets apart that are less than a short away.      *)
(***************************************************************************)
LEMMA TimesAtLeast ==
  ASSUME NEW n \in Nat, NEW d \in Nat \ {0}
  PROVE  n * d >= n
<1>1. PICK e \in Nat : d = e + 1
  <2>1. d - 1 \in Nat /\ d = (d - 1) + 1 OBVIOUS
  <2> QED BY <2>1
<1>2. n * (e + 1) = n * e + n OBVIOUS
<1>3. n * e \in Nat OBVIOUS
<1> QED BY <1>1, <1>2, <1>3

\* Quotient and remainder are determined.
LEMMA DivUnique ==
  ASSUME NEW n \in Nat \ {0}, NEW p \in Int, NEW q \in Int, NEW r \in 0 .. n - 1, NEW t \in 0 .. n - 1,
         n * p + r = n * q + t
  PROVE  p = q /\ r = t
<1>1. ASSUME p > q PROVE FALSE
  <2>1. PICK d \in Nat \ {0} : p = q + d
    <3>1. p - q \in Nat \ {0} /\ p = q + (p - q) BY <1>1
    <3> QED BY <3>1
  <2>2. n * (q + d) = n * q + n * d OBVIOUS
  <2>3. n * d >= n BY TimesAtLeast
  <2>4. n * d \in Int /\ n * q \in Int OBVIOUS
  <2> QED BY <2>1, <2>2, <2>3, <2>4
<1>2. ASSUME q > p PROVE FALSE
  <2>1. PICK d \in Nat \ {0} : q = p + d
    <3>1. q - p \in Nat \ {0} /\ q = p + (q - p) BY <1>2
    <3> QED BY <3>1
  <2>2. n * (p + d) = n * p + n * d OBVIOUS
  <2>3. n * d >= n BY TimesAtLeast
  <2>4. n * d \in Int /\ n * p \in Int OBVIOUS
  <2> QED BY <2>1, <2>2, <2>3, <2>4
<1>3. p = q BY <1>1, <1>2
<1> QED BY <1>3

LEMMA DivMod ==
  ASSUME NEW n \in Nat \ {0}, NEW a \in Int
  PROVE  \E q \in Int : a = n * q + (a % n) /\ (a % n) \in 0 .. n - 1
<1>1. a = n * (a \div n) + (a % n) /\ (a % n) \in 0 .. n - 1 /\ a \div n \in Int OBVIOUS
<1> QED BY <1>1

\* Numbers less than n apart differ in their remainders.
LEMMA NearEqual ==
  ASSUME NEW n \in Nat \ {0}, NEW a \in Int, NEW b \in Int, (a % n) = (b % n), a - b < n, b - a < n
  PROVE  a = b
<1>1. PICK p \in Int : a = n * p + (a % n) /\ (a % n) \in 0 .. n - 1 BY DivMod
<1>2. PICK q \in Int : b = n * q + (b % n) /\ (b % n) \in 0 .. n - 1 BY DivMod
<1>3. a - b = n * p - n * q BY <1>1, <1>2
<1>4. ASSUME p > q PROVE FALSE
  <2>1. PICK d \in Nat \ {0} : p = q + d
    <3>1. p - q \in Nat \ {0} /\ p = q + (p - q) BY <1>4
    <3> QED BY <3>1
  <2>2. n * (q + d) = n * q + n * d OBVIOUS
  <2>3. n * d >= n BY TimesAtLeast
  <2>4. n * d \in Int /\ n * q \in Int OBVIOUS
  <2> QED BY <1>3, <2>1, <2>2, <2>3, <2>4
<1>5. ASSUME q > p PROVE FALSE
  <2>1. PICK d \in Nat \ {0} : q = p + d
    <3>1. q - p \in Nat \ {0} /\ q = p + (q - p) BY <1>5
    <3> QED BY <3>1
  <2>2. n * (p + d) = n * p + n * d OBVIOUS
  <2>3. n * d >= n BY TimesAtLeast
  <2>4. n * d \in Int /\ n * p \in Int OBVIOUS
  <2> QED BY <1>3, <2>1, <2>2, <2>3, <2>4
<1>6. p = q BY <1>4, <1>5
<1> QED BY <1>1, <1>2, <1>6

\* A multiple more does not change the remainder.
LEMMA MultipleMore ==
  ASSUME NEW n \in Nat \ {0}, NEW a \in Int, NEW y \in Int
  PROVE  (a + n * y) % n = (a % n)
<1>1. PICK p \in Int : a = n * p + (a % n) /\ (a % n) \in 0 .. n - 1 BY DivMod
<1>2. PICK b \in Int : b = a + n * y
  <2>1. n * y \in Int OBVIOUS
  <2> QED BY <2>1
<1>3. PICK q \in Int : b = n * q + (b % n) /\ (b % n) \in 0 .. n - 1 BY DivMod
<1>4. n * (p + y) = n * p + n * y OBVIOUS
<1>5. n * p \in Int /\ n * y \in Int /\ p + y \in Int OBVIOUS
<1>6. n * (p + y) + (a % n) = n * q + (b % n) BY <1>1, <1>2, <1>3, <1>4, <1>5
<1>7. PICK r \in 0 .. n - 1 : r = a % n BY <1>1
<1>8. PICK t \in 0 .. n - 1 : t = b % n BY <1>3
<1>9. PICK d \in Int : d = p + y BY <1>5
<1>10. n * d + r = n * q + t BY <1>6, <1>7, <1>8, <1>9
<1>11. r = t BY <1>10, DivUnique
<1> QED BY <1>2, <1>7, <1>8, <1>11

LEMMA NextRemainder ==
  ASSUME NEW n \in Nat \ {0}, NEW a \in Int, NEW b \in Int, (a % n) + 1 = (b % n)
  PROVE  (a + 1) % n = (b % n)
<1>1. PICK p \in Int : a = n * p + (a % n) /\ (a % n) \in 0 .. n - 1 BY DivMod
<1>2. PICK r \in 0 .. n - 1 : r = b % n OBVIOUS
<1>3. PICK c \in Int : c = n * p OBVIOUS
<1>4. a + 1 = r + c BY <1>1, <1>2, <1>3
<1>5. r \in Int OBVIOUS
<1>6. (r + n * p) % n = (r % n) BY <1>5, MultipleMore
<1>7. r % n = r OBVIOUS
<1> QED BY <1>2, <1>3, <1>4, <1>6, <1>7

\* The difference of two indexes, as a short, is that of the positions.
LEMMA ShortDifference ==
  ASSUME NEW a \in Int, NEW b \in Int
  PROVE  ((a % IndexMod) - ((b % IndexMod) + 1)) % ShortMod = (a - b - 1) % ShortMod
<1>1. IndexMod \in Nat \ {0} /\ ShortMod \in Nat \ {0} /\ (IndexMod % ShortMod) = 0 BY VideoAssumption
<1>2. PICK t \in Int : IndexMod = ShortMod * t
  <2>0. IndexMod \in Int BY <1>1
  <2>1. PICK t \in Int : IndexMod = ShortMod * t + (IndexMod % ShortMod)
    BY <1>1, <2>0, DivMod, Zenon
  <2>2. ShortMod * t \in Int BY <1>1
  <2> QED BY <1>1, <2>1, <2>2
<1>3. PICK p \in Int : a = IndexMod * p + (a % IndexMod) /\ (a % IndexMod) \in 0 .. IndexMod - 1
  BY <1>1, DivMod
<1>4. PICK q \in Int : b = IndexMod * q + (b % IndexMod) /\ (b % IndexMod) \in 0 .. IndexMod - 1
  BY <1>1, DivMod
<1>5. PICK x \in Int : x = (a % IndexMod) - ((b % IndexMod) + 1)
  <2>1. (a % IndexMod) \in Int /\ (b % IndexMod) \in Int BY <1>3, <1>4
  <2>2. (a % IndexMod) - ((b % IndexMod) + 1) \in Int BY <2>1
  <2> QED BY <2>2
<1>6. PICK y \in Int : y = t * (p - q)
  <2>1. t * (p - q) \in Int OBVIOUS
  <2> QED BY <2>1
<1>7. IndexMod * p - IndexMod * q = ShortMod * y
  <2>1. IndexMod * p - IndexMod * q = IndexMod * (p - q) BY <1>1
  <2>2. (ShortMod * t) * (p - q) = ShortMod * (t * (p - q)) BY <1>1
  <2> QED BY <1>2, <1>6, <2>1, <2>2
<1>8. a - b - 1 = x + ShortMod * y
  <2>1. IndexMod * p \in Int /\ IndexMod * q \in Int BY <1>1
  <2>2. PICK c \in Int : c = IndexMod * p BY <2>1
  <2>3. PICK d \in Int : d = IndexMod * q BY <2>1
  <2>4. PICK g \in Int : g = ShortMod * y BY <1>1
  <2>5. c - d = g BY <1>7, <2>2, <2>3, <2>4
  <2>6. a = c + (a % IndexMod) /\ b = d + (b % IndexMod) BY <1>3, <1>4, <2>2, <2>3
  <2>7. a - b - 1 = x + g BY <1>3, <1>4, <1>5, <2>5, <2>6
  <2> QED BY <2>4, <2>7
<1>9. (x + ShortMod * y) % ShortMod = (x % ShortMod) BY <1>1, MultipleMore
<1> QED BY <1>5, <1>8, <1>9

\* A packet at most half a short's range after the next is not taken for an old one, nor is one
\* a whole range later.
LEMMA NotStale ==
  ASSUME NEW x \in Int,
         \/ x \in 0 .. ShortMod \div 2 - 1
         \/ x \in ShortMod .. ShortMod + ShortMod \div 2 - 1
  PROVE  ~ (x % ShortMod >= ShortMod \div 2)
<1>1. ShortMod \in Nat \ {0} BY VideoAssumption
<1>2. ShortMod \div 2 \in Int /\ 2 * (ShortMod \div 2) <= ShortMod BY <1>1
<1>3. PICK h \in Int : h = ShortMod \div 2 BY <1>2
<1>4. CASE x \in 0 .. h - 1
  <2>1. x \in 0 .. ShortMod - 1 BY <1>1, <1>2, <1>3, <1>4
  <2>2. (x % ShortMod) = x BY <1>1, <2>1
  <2> QED BY <1>3, <1>4, <2>2
<1>5. CASE x \in ShortMod .. ShortMod + h - 1
  <2>1. PICK y \in Int : y = x - ShortMod BY <1>1
  <2>2. y \in 0 .. h - 1 BY <1>1, <1>3, <1>5, <2>1
  <2>3. y \in 0 .. ShortMod - 1 BY <1>1, <1>2, <1>3, <2>2
  <2>4. (y % ShortMod) = y BY <1>1, <2>3
  <2>5. PICK one \in Int : one = 1 OBVIOUS
  <2>6. (y + ShortMod * one) % ShortMod = (y % ShortMod) BY <1>1, MultipleMore
  <2>7. y + ShortMod * one = x BY <1>1, <2>1, <2>5
  <2> QED BY <1>3, <2>2, <2>4, <2>6, <2>7
<1> QED BY <1>3, <1>4, <1>5

-----------------------------------------------------------------------------
(***************************************************************************)
(* What the parts of processRtpPayload do to the globals.                  *)
(***************************************************************************)
LEMMA DropIs ==
  ASSUME NEW d \in Globals, NEW e \in dropFrameState(d)
  PROVE  /\ e \in Globals /\ e.chain = <<>>
         /\ (strict => e.waitingForIdrFrame) /\ (d.waitingForIdrFrame => e.waitingForIdrFrame)
         /\ e.lastPacketInStream = d.lastPacketInStream /\ e.nextFrameNumber = d.nextFrameNumber
         /\ e.startFrameNumber = d.startFrameNumber /\ e.decodingFrame = d.decodingFrame
         /\ e.waitingForNextSuccessfulFrame = d.waitingForNextSuccessfulFrame
<1>1. PICK w \in IF strict THEN {TRUE} ELSE {TRUE, d.waitingForIdrFrame} :
        e = [d EXCEPT !.chain = <<>>, !.waitingForIdrFrame = w]
  BY Zenon DEF dropFrameState
<1>2. d.waitingForIdrFrame \in BOOLEAN BY DEF Globals
<1>3. w \in BOOLEAN /\ (strict => w) /\ (d.waitingForIdrFrame => w) BY <1>1, <1>2
<1>4. PICK c : c = [d EXCEPT !.chain = <<>>] OBVIOUS
<1>5. e = [c EXCEPT !.waitingForIdrFrame = w] BY <1>1, <1>4, Zenon
<1>6. /\ c \in Globals /\ c.chain = <<>>
      /\ c.lastPacketInStream = d.lastPacketInStream /\ c.nextFrameNumber = d.nextFrameNumber
      /\ c.startFrameNumber = d.startFrameNumber /\ c.decodingFrame = d.decodingFrame
      /\ c.waitingForNextSuccessfulFrame = d.waitingForNextSuccessfulFrame
  <2>1. <<>> \in Seq(VideoPacket) OBVIOUS
  <2> QED BY <1>4, <2>1 DEF Globals
<1>7. /\ e \in Globals /\ e.chain = <<>> /\ e.waitingForIdrFrame = w
      /\ e.lastPacketInStream = c.lastPacketInStream /\ e.nextFrameNumber = c.nextFrameNumber
      /\ e.startFrameNumber = c.startFrameNumber /\ e.decodingFrame = c.decodingFrame
      /\ e.waitingForNextSuccessfulFrame = c.waitingForNextSuccessfulFrame
  BY <1>3, <1>5, <1>6 DEF Globals
<1> QED BY <1>3, <1>6, <1>7

LEMMA LostIs ==
  ASSUME NEW d \in Globals, NEW next \in Nat, NEW e \in Lost(d, next)
  PROVE  /\ e \in Globals /\ e.chain = <<>> /\ e.nextFrameNumber = next
         /\ e.waitingForNextSuccessfulFrame = TRUE
         /\ (strict => e.waitingForIdrFrame) /\ (d.waitingForIdrFrame => e.waitingForIdrFrame)
         /\ e.lastPacketInStream = d.lastPacketInStream
         /\ e.startFrameNumber = d.startFrameNumber /\ e.decodingFrame = d.decodingFrame
<1>1. PICK c : c = [d EXCEPT !.nextFrameNumber = next] OBVIOUS
<1>2. PICK f : f = [c EXCEPT !.waitingForNextSuccessfulFrame = TRUE] OBVIOUS
<1>3. f = [d EXCEPT !.nextFrameNumber = next, !.waitingForNextSuccessfulFrame = TRUE]
  BY <1>1, <1>2, Zenon
<1>4. e \in dropFrameState(f) BY <1>3, Zenon DEF Lost
<1>5. /\ c \in Globals /\ c.nextFrameNumber = next
      /\ c.waitingForIdrFrame = d.waitingForIdrFrame
      /\ c.lastPacketInStream = d.lastPacketInStream
      /\ c.startFrameNumber = d.startFrameNumber /\ c.decodingFrame = d.decodingFrame
  BY <1>1 DEF Globals
<1>6. /\ f \in Globals /\ f.nextFrameNumber = next /\ f.waitingForNextSuccessfulFrame = TRUE
      /\ f.waitingForIdrFrame = c.waitingForIdrFrame
      /\ f.lastPacketInStream = c.lastPacketInStream
      /\ f.startFrameNumber = c.startFrameNumber /\ f.decodingFrame = c.decodingFrame
  BY <1>2, <1>5 DEF Globals
<1>7. /\ e \in Globals /\ e.chain = <<>>
      /\ (strict => e.waitingForIdrFrame) /\ (f.waitingForIdrFrame => e.waitingForIdrFrame)
      /\ e.lastPacketInStream = f.lastPacketInStream /\ e.nextFrameNumber = f.nextFrameNumber
      /\ e.startFrameNumber = f.startFrameNumber /\ e.decodingFrame = f.decodingFrame
      /\ e.waitingForNextSuccessfulFrame = f.waitingForNextSuccessfulFrame
  BY <1>4, <1>6, DropIs
<1> QED BY <1>5, <1>6, <1>7, Zenon

LEMMA DecodingIs ==
  ASSUME NEW d \in Globals, NEW b \in BOOLEAN, NEW e, e = [d EXCEPT !.decodingFrame = b]
  PROVE  /\ e \in Globals /\ e.decodingFrame = b /\ e.chain = d.chain
         /\ e.nextFrameNumber = d.nextFrameNumber
         /\ e.waitingForNextSuccessfulFrame = d.waitingForNextSuccessfulFrame
         /\ e.waitingForIdrFrame = d.waitingForIdrFrame
         /\ e.lastPacketInStream = d.lastPacketInStream /\ e.startFrameNumber = d.startFrameNumber
BY DEF Globals

\* After a first packet that is not stale its frame is being decoded: as the next one, or with
\* the frames before it lost.
LEMMA BeginNumbers ==
  ASSUME NEW d \in Globals, NEW p \in VideoPacket, p.first, ~ isBefore(p.frameIndex, d.nextFrameNumber),
         ~ d.decodingFrame => d.chain = <<>>, NEW e \in Begin(d, p)
  PROVE  e.nextFrameNumber = p.frameIndex /\ e.startFrameNumber = d.startFrameNumber
<1>0. /\ p.frameIndex \in Nat /\ d.nextFrameNumber \in Nat /\ d.decodingFrame \in BOOLEAN
      /\ d.nextFrameNumber <= p.frameIndex
  BY DEF VideoPacket, Globals, isBefore
<1>1. CASE d.decodingFrame
  <2>1. e \in Lost(d, p.frameIndex) BY <1>1, Zenon DEF Begin
  <2> QED BY <1>0, <1>1, <2>1, LostIs
<1>2. CASE ~ d.decodingFrame /\ d.nextFrameNumber < p.frameIndex
  <2>1. PICK f : f = [d EXCEPT !.decodingFrame = TRUE] OBVIOUS
  <2>2. e \in Lost(f, p.frameIndex) BY <1>2, <2>1, Zenon DEF Begin, isBefore
  <2>3. f \in Globals /\ f.decodingFrame = TRUE /\ f.startFrameNumber = d.startFrameNumber
        /\ f.waitingForIdrFrame = d.waitingForIdrFrame
    BY <2>1, DecodingIs
  <2> QED BY <1>0, <2>2, <2>3, LostIs
<1>3. CASE ~ d.decodingFrame /\ ~ (d.nextFrameNumber < p.frameIndex)
  <2>1. e = [d EXCEPT !.decodingFrame = TRUE] BY <1>3, Zenon DEF Begin, isBefore
  <2>2. d.nextFrameNumber = p.frameIndex BY <1>0, <1>3
  <2>3. /\ e \in Globals /\ e.decodingFrame = TRUE /\ e.chain = d.chain
        /\ e.nextFrameNumber = d.nextFrameNumber
        /\ e.waitingForNextSuccessfulFrame = d.waitingForNextSuccessfulFrame
        /\ e.waitingForIdrFrame = d.waitingForIdrFrame
        /\ e.startFrameNumber = d.startFrameNumber
    BY <2>1, DecodingIs, ZenonT(30)
  <2> QED BY <1>3, <2>2, <2>3
<1> QED BY <1>0, <1>1, <1>2, <1>3

LEMMA BeginIs ==
  ASSUME NEW d \in Globals, NEW p \in VideoPacket, p.first, ~ isBefore(p.frameIndex, d.nextFrameNumber),
         ~ d.decodingFrame => d.chain = <<>>, NEW e \in Begin(d, p)
  PROVE  /\ e \in Globals /\ e.decodingFrame = TRUE /\ e.chain = <<>>
         /\ d.waitingForIdrFrame => e.waitingForIdrFrame
         /\ \/ e.waitingForNextSuccessfulFrame /\ (strict => e.waitingForIdrFrame)
            \/ /\ ~ d.decodingFrame /\ d.nextFrameNumber = p.frameIndex
               /\ e.waitingForNextSuccessfulFrame <=> d.waitingForNextSuccessfulFrame
               /\ e.waitingForIdrFrame <=> d.waitingForIdrFrame
<1>0. /\ p.frameIndex \in Nat /\ d.nextFrameNumber \in Nat /\ d.decodingFrame \in BOOLEAN
      /\ d.nextFrameNumber <= p.frameIndex
  BY DEF VideoPacket, Globals, isBefore
<1>1. CASE d.decodingFrame
  <2>1. e \in Lost(d, p.frameIndex) BY <1>1, Zenon DEF Begin
  <2> QED BY <1>0, <1>1, <2>1, LostIs
<1>2. CASE ~ d.decodingFrame /\ d.nextFrameNumber < p.frameIndex
  <2>1. PICK f : f = [d EXCEPT !.decodingFrame = TRUE] OBVIOUS
  <2>2. e \in Lost(f, p.frameIndex) BY <1>2, <2>1, Zenon DEF Begin, isBefore
  <2>3. f \in Globals /\ f.decodingFrame = TRUE /\ f.startFrameNumber = d.startFrameNumber
        /\ f.waitingForIdrFrame = d.waitingForIdrFrame
    BY <2>1, DecodingIs
  <2> QED BY <1>0, <2>2, <2>3, LostIs
<1>3. CASE ~ d.decodingFrame /\ ~ (d.nextFrameNumber < p.frameIndex)
  <2>1. e = [d EXCEPT !.decodingFrame = TRUE] BY <1>3, Zenon DEF Begin, isBefore
  <2>2. d.nextFrameNumber = p.frameIndex BY <1>0, <1>3
  <2>3. /\ e \in Globals /\ e.decodingFrame = TRUE /\ e.chain = d.chain
        /\ e.nextFrameNumber = d.nextFrameNumber
        /\ e.waitingForNextSuccessfulFrame = d.waitingForNextSuccessfulFrame
        /\ e.waitingForIdrFrame = d.waitingForIdrFrame
        /\ e.startFrameNumber = d.startFrameNumber
    BY <2>1, DecodingIs, ZenonT(30)
  <2> QED BY <1>3, <2>2, <2>3
<1> QED BY <1>0, <1>1, <1>2, <1>3

LEMMA QueueIs ==
  ASSUME NEW d \in Globals, NEW p \in VideoPacket, NEW q, q = Queue(d, p)
  PROVE  /\ q \in Globals /\ q.lastPacketInStream = p.index /\ q.chain = Append(d.chain, p)
         /\ q.nextFrameNumber = d.nextFrameNumber /\ q.startFrameNumber = d.startFrameNumber
         /\ q.decodingFrame = d.decodingFrame
         /\ p.idr => ~ q.waitingForIdrFrame /\ ~ q.waitingForNextSuccessfulFrame
         /\ ~ p.idr => (q.waitingForIdrFrame <=> d.waitingForIdrFrame)
         /\ ~ p.idr => (q.waitingForNextSuccessfulFrame <=> d.waitingForNextSuccessfulFrame)
<1>1. PICK c : c = [d EXCEPT !.lastPacketInStream = p.index] OBVIOUS
<1>2. PICK e : e = [c EXCEPT !.chain = Append(@, p)] OBVIOUS
<1>3. e = [d EXCEPT !.lastPacketInStream = p.index, !.chain = Append(@, p)] BY <1>1, <1>2, Zenon
<1>4. q = IF p.idr THEN [e EXCEPT !.waitingForIdrFrame = FALSE, !.waitingForNextSuccessfulFrame = FALSE]
                   ELSE e
  BY <1>3, Zenon DEF Queue
<1>5. /\ c \in Globals /\ c.lastPacketInStream = p.index /\ c.chain = d.chain
      /\ c.nextFrameNumber = d.nextFrameNumber /\ c.startFrameNumber = d.startFrameNumber
      /\ c.decodingFrame = d.decodingFrame /\ c.waitingForIdrFrame = d.waitingForIdrFrame
      /\ c.waitingForNextSuccessfulFrame = d.waitingForNextSuccessfulFrame
  <2>1. PICK n \in Int : n = p.index BY DEF VideoPacket
  <2>2. c = [d EXCEPT !.lastPacketInStream = n] BY <1>1, <2>1
  <2>3. c.lastPacketInStream = n BY <2>2 DEF Globals
  <2> QED BY <2>1, <2>2, <2>3 DEF Globals
<1>6. PICK ch \in Seq(VideoPacket) : ch = Append(c.chain, p)
  <2>1. c.chain \in Seq(VideoPacket) BY <1>5 DEF Globals
  <2>2. Append(c.chain, p) \in Seq(VideoPacket) BY <2>1, ConcatOne
  <2> QED BY <2>2
<1>7. e = [c EXCEPT !.chain = ch] BY <1>2, <1>6, Zenon
<1>8. /\ e \in Globals /\ e.lastPacketInStream = c.lastPacketInStream /\ e.chain = ch
      /\ e.nextFrameNumber = c.nextFrameNumber /\ e.startFrameNumber = c.startFrameNumber
      /\ e.decodingFrame = c.decodingFrame /\ e.waitingForIdrFrame = c.waitingForIdrFrame
      /\ e.waitingForNextSuccessfulFrame = c.waitingForNextSuccessfulFrame
  BY <1>5, <1>7 DEF Globals
<1>9. CASE ~ p.idr BY <1>4, <1>5, <1>6, <1>8, <1>9
<1>10. CASE p.idr
  <2>1. PICK f : f = [e EXCEPT !.waitingForIdrFrame = FALSE] OBVIOUS
  <2>2. q = [f EXCEPT !.waitingForNextSuccessfulFrame = FALSE] BY <1>4, <1>10, <2>1, Zenon
  <2>3. /\ f \in Globals /\ f.lastPacketInStream = e.lastPacketInStream /\ f.chain = e.chain
        /\ f.nextFrameNumber = e.nextFrameNumber /\ f.startFrameNumber = e.startFrameNumber
        /\ f.decodingFrame = e.decodingFrame /\ f.waitingForIdrFrame = FALSE
    BY <1>8, <2>1 DEF Globals
  <2>4. /\ q \in Globals /\ q.lastPacketInStream = f.lastPacketInStream /\ q.chain = f.chain
        /\ q.nextFrameNumber = f.nextFrameNumber /\ q.startFrameNumber = f.startFrameNumber
        /\ q.decodingFrame = f.decodingFrame /\ q.waitingForIdrFrame = f.waitingForIdrFrame
        /\ q.waitingForNextSuccessfulFrame = FALSE
    BY <2>2, <2>3 DEF Globals
  <2> QED BY <1>5, <1>6, <1>8, <1>10, <2>3, <2>4
<1> QED BY <1>9, <1>10

LEMMA EndFrameIs ==
  ASSUME NEW d \in Globals, NEW p \in VideoPacket, NEW e, e = EndFrame(d, p)
  PROVE  /\ e \in Globals /\ e.decodingFrame = FALSE /\ e.nextFrameNumber = p.frameIndex + 1
         /\ e.waitingForNextSuccessfulFrame = FALSE /\ e.waitingForIdrFrame = d.waitingForIdrFrame
         /\ e.chain = d.chain /\ e.lastPacketInStream = d.lastPacketInStream
         /\ e.startFrameNumber = d.startFrameNumber
<1>1. PICK n \in Nat : n = p.frameIndex + 1 BY DEF VideoPacket
<1>2. PICK c : c = [d EXCEPT !.decodingFrame = FALSE] OBVIOUS
<1>3. PICK f : f = [c EXCEPT !.nextFrameNumber = n] OBVIOUS
<1>4. e = [f EXCEPT !.waitingForNextSuccessfulFrame = FALSE] BY <1>1, <1>2, <1>3, Zenon DEF EndFrame
<1>5. /\ c \in Globals /\ c.decodingFrame = FALSE /\ c.chain = d.chain
      /\ c.waitingForIdrFrame = d.waitingForIdrFrame
      /\ c.lastPacketInStream = d.lastPacketInStream /\ c.startFrameNumber = d.startFrameNumber
  BY <1>2, DecodingIs
<1>6. /\ f \in Globals /\ f.decodingFrame = FALSE /\ f.chain = c.chain /\ f.nextFrameNumber = n
      /\ f.waitingForIdrFrame = c.waitingForIdrFrame
      /\ f.lastPacketInStream = c.lastPacketInStream /\ f.startFrameNumber = c.startFrameNumber
  BY <1>3, <1>5 DEF Globals
<1>7. /\ e \in Globals /\ e.decodingFrame = FALSE /\ e.chain = f.chain /\ e.nextFrameNumber = n
      /\ e.waitingForIdrFrame = f.waitingForIdrFrame /\ e.waitingForNextSuccessfulFrame = FALSE
      /\ e.lastPacketInStream = f.lastPacketInStream /\ e.startFrameNumber = f.startFrameNumber
  BY <1>4, <1>6 DEF Globals
<1> QED BY <1>1, <1>5, <1>6, <1>7

LEMMA EndFrameNumbers ==
  ASSUME NEW d \in Globals, NEW p \in VideoPacket
  PROVE  /\ EndFrame(d, p).nextFrameNumber - 1 = p.frameIndex
         /\ EndFrame(d, p).startFrameNumber = d.startFrameNumber
<1>1. PICK e : e = EndFrame(d, p) OBVIOUS
<1>2. e.nextFrameNumber = p.frameIndex + 1 /\ e.startFrameNumber = d.startFrameNumber BY <1>1, EndFrameIs
<1>3. p.frameIndex \in Nat BY DEF VideoPacket
<1>4. e.nextFrameNumber - 1 = p.frameIndex BY <1>2, <1>3
<1> QED BY <1>1, <1>2, <1>4

LEMMA ReassembledIs ==
  ASSUME NEW d \in Globals, NEW e, e = Reassembled(d)
  PROVE  /\ e \in Globals /\ e.decodingFrame = d.decodingFrame /\ e.chain = <<>>
         /\ e.nextFrameNumber = d.nextFrameNumber /\ e.startFrameNumber = d.nextFrameNumber
         /\ e.waitingForNextSuccessfulFrame = d.waitingForNextSuccessfulFrame
         /\ e.waitingForIdrFrame = d.waitingForIdrFrame
         /\ e.lastPacketInStream = d.lastPacketInStream
<1>1. PICK n \in Nat : n = d.nextFrameNumber BY DEF Globals
<1>2. PICK c : c = [d EXCEPT !.chain = <<>>] OBVIOUS
<1>3. e = [c EXCEPT !.startFrameNumber = n] BY <1>1, <1>2, Zenon DEF Reassembled
<1>4. <<>> \in Seq(VideoPacket) OBVIOUS
<1>5. /\ c \in Globals /\ c.decodingFrame = d.decodingFrame /\ c.chain = <<>>
      /\ c.nextFrameNumber = d.nextFrameNumber
      /\ c.waitingForNextSuccessfulFrame = d.waitingForNextSuccessfulFrame
      /\ c.waitingForIdrFrame = d.waitingForIdrFrame
      /\ c.lastPacketInStream = d.lastPacketInStream
  BY <1>2, <1>4 DEF Globals
<1>6. /\ e \in Globals /\ e.decodingFrame = c.decodingFrame /\ e.chain = c.chain
      /\ e.nextFrameNumber = c.nextFrameNumber /\ e.startFrameNumber = n
      /\ e.waitingForNextSuccessfulFrame = c.waitingForNextSuccessfulFrame
      /\ e.waitingForIdrFrame = c.waitingForIdrFrame
      /\ e.lastPacketInStream = c.lastPacketInStream
  BY <1>3, <1>5 DEF Globals
<1> QED BY <1>1, <1>5, <1>6

-----------------------------------------------------------------------------
(***************************************************************************)
(* What a packet and its index say of its place in the stream.             *)
(***************************************************************************)
LEMMA PacketFacts ==
  ASSUME StreamOK, NEW k \in 1 .. Len(stream), NEW p, p = stream[k]
  PROVE  /\ p \in VideoPacket /\ p.frameIndex \in 1 .. NumFrames /\ p.part \in Nat \ {0}
         /\ frames[p.frameIndex].data \in Nat \ {0} /\ frames[p.frameIndex].idr \in BOOLEAN
         /\ (p.first <=> p.part = 1) /\ (p.eof <=> p.part = frames[p.frameIndex].data)
         /\ (p.idr => frames[p.frameIndex].idr)
         /\ p.index \in 0 .. IndexMod - 1
<1>1. stream \in Seq(VideoPacket) /\ frames \in [1 .. NumFrames -> FrameKind] BY DEF StreamOK, FramesInOrder
<1>2. p \in VideoPacket BY <1>1
<1>3. PacketOK(p, NumFrames) BY DEF StreamOK, FramesInOrder
<1>4. p.frameIndex \in 1 .. NumFrames BY <1>3 DEF PacketOK
<1>5. /\ frames[p.frameIndex].data \in Nat \ {0} /\ frames[p.frameIndex].idr \in BOOLEAN
      /\ Size(p.frameIndex) \in Nat
  BY <1>1, <1>4, FrameFacts
<1>6. p.part \in Nat \ {0} BY <1>3, <1>5 DEF PacketOK
<1>7. (p.first <=> p.part = 1) /\ (p.eof <=> p.part = frames[p.frameIndex].data)
      /\ (p.idr => frames[p.frameIndex].idr)
  BY <1>3, Zenon DEF PacketOK
<1>8. p.index \in 0 .. IndexMod - 1
  <2>1. PICK from \in Nat : \A i \in 1 .. Len(stream) : stream[i].index = (from + i - 1) % IndexMod
    BY DEF StreamOK
  <2>2. p.index = (from + k - 1) % IndexMod BY <2>1
  <2>3. IndexMod \in Nat \ {0} BY VideoAssumption
  <2>4. from + k - 1 \in Int BY <2>1
  <2> QED BY <2>2, <2>3, <2>4
<1> QED BY <1>2, <1>4, <1>5, <1>6, <1>7, <1>8

\* A shorter name for half of what a short holds.
Half == ShortMod \div 2

LEMMA HalfFacts ==
  /\ ShortMod \in Nat \ {0} /\ IndexMod \in Nat \ {0} /\ Window \in Nat /\ Half \in Nat
  /\ 2 * Half <= ShortMod /\ 2 * ShortMod <= IndexMod /\ Window < ShortMod
<1>1. /\ ShortMod \in Nat \ {0} /\ IndexMod \in Nat \ {0} /\ Window \in Nat
      /\ 2 * ShortMod <= IndexMod /\ Window < ShortMod
  BY VideoAssumption
<1>2. ShortMod \div 2 \in Nat /\ 2 * (ShortMod \div 2) <= ShortMod BY <1>1
<1> QED BY <1>1, <1>2 DEF Half

\* The packet with the next index is the next, if it is near.
LEMMA NextPacket ==
  ASSUME StreamOK, NEW j \in 1 .. Len(stream), NEW k \in 1 .. Len(stream),
         stream[j].part < frames[stream[j].frameIndex].data,
         stream[k].index = stream[j].index + 1,
         Len(stream) <= IndexMod \/ (k <= j + ShortMod + Half /\ j <= k + Window)
  PROVE  k = j + 1 /\ Continues(stream[j], stream[k])
<1>1. Len(stream) \in Nat BY DEF StreamOK, FramesInOrder
<1>2. j + 1 \in 1 .. Len(stream) /\ Continues(stream[j], stream[j + 1])
  <2>1. /\ stream[j].frameIndex \in 1 .. NumFrames /\ stream[j].part \in Nat
        /\ frames \in [1 .. NumFrames -> FrameKind]
    BY PacketFacts DEF StreamOK
  <2>2. stream[j].part < Size(stream[j].frameIndex)
    <3>1. PICK f \in 1 .. NumFrames : f = stream[j].frameIndex BY <2>1
    <3>2. frames[f].data \in Nat /\ Size(f) \in Nat /\ frames[f].data <= Size(f) BY <2>1, FrameFacts
    <3> QED BY <2>1, <3>1, <3>2
  <2> QED BY <2>2 DEF StreamOK, FramesInOrder
<1>3. PICK from \in Nat : \A i \in 1 .. Len(stream) : stream[i].index = (from + i - 1) % IndexMod
  BY DEF StreamOK
<1>4. stream[j + 1].index = (from + (j + 1) - 1) % IndexMod BY <1>2, <1>3
<1>5. stream[j].index = (from + j - 1) % IndexMod /\ stream[k].index = (from + k - 1) % IndexMod BY <1>3
<1>6. PICK a \in Int : a = from + j - 1 BY <1>3
<1>7. PICK b \in Int : b = from + k - 1 BY <1>3
<1>8. IndexMod \in Nat \ {0} BY HalfFacts
<1>9. (a % IndexMod) + 1 = (b % IndexMod) BY <1>5, <1>6, <1>7
<1>10. (a + 1) % IndexMod = (b % IndexMod) BY <1>8, <1>9, NextRemainder
<1>11. (a + 1) - b < IndexMod /\ b - (a + 1) < IndexMod
  BY <1>1, <1>2, <1>6, <1>7, HalfFacts
<1>12. PICK c \in Int : c = a + 1 BY <1>6
<1>13. c = b BY <1>7, <1>8, <1>10, <1>11, <1>12, NearEqual
<1>14. k = j + 1 BY <1>6, <1>7, <1>12, <1>13
<1> QED BY <1>2, <1>14

\* A stale packet is not far ahead.
LEMMA StaleNear ==
  ASSUME StreamOK, NEW j \in 1 .. Len(stream), NEW k \in 1 .. Len(stream),
         j <= k, k <= j + ShortMod + Half,
         v.lastPacketInStream = stream[j].index, v.nextFrameNumber = stream[j].frameIndex,
         Stale(stream[k])
  PROVE  k <= j + ShortMod
<1>1. PICK from \in Nat : \A i \in 1 .. Len(stream) : stream[i].index = (from + i - 1) % IndexMod
  BY DEF StreamOK
<1>2. stream[j].frameIndex \in 1 .. NumFrames /\ stream[k].frameIndex \in 1 .. NumFrames BY PacketFacts
<1>3. ~ isBefore(stream[k].frameIndex, v.nextFrameNumber)
  <2>1. stream[j].frameIndex <= stream[k].frameIndex BY DEF StreamOK, FramesInOrder
  <2> QED BY <1>2, <2>1 DEF isBefore
<1>4. isBeforeShort(stream[k].index, v.lastPacketInStream + 1) BY <1>3 DEF Stale
<1>5. PICK a \in Int : a = from + k - 1 BY <1>1
<1>6. PICK b \in Int : b = from + j - 1 BY <1>1
<1>7. stream[k].index = a % IndexMod /\ v.lastPacketInStream = b % IndexMod BY <1>1, <1>5, <1>6
<1>8. ((a % IndexMod) - ((b % IndexMod) + 1)) % ShortMod >= ShortMod \div 2 BY <1>4, <1>7 DEF isBeforeShort
<1>9. (a - b - 1) % ShortMod >= ShortMod \div 2 BY <1>8, ShortDifference
<1>10. PICK x \in Int : x = a - b - 1 BY <1>5, <1>6
<1>11. x % ShortMod >= ShortMod \div 2 BY <1>9, <1>10
<1>12. ~ (x \in ShortMod .. ShortMod + ShortMod \div 2 - 1) BY <1>11, NotStale
<1>13. x = k - j - 1 BY <1>5, <1>6, <1>10
<1> QED BY <1>12, <1>13, HalfFacts DEF Half

-----------------------------------------------------------------------------
(***************************************************************************)
(* One packet handed over.  It is near: no more than half the range of a   *)
(* short beyond the latest one, or the indexes do not come round.          *)
(***************************************************************************)
Receives(k) ==
  /\ k \in 1 .. Len(stream) /\ k >= latest - Window
  /\ processRtpPayload(stream[k])
  /\ latest' = IF k > latest THEN k ELSE latest
  /\ UNCHANGED <<frames, stream, strict>>
  /\ Len(stream) <= IndexMod \/ latest' <= latest + Half

\* A packet longer in the chain.
LEMMA ChainLonger ==
  ASSUME NEW ch \in Seq(VideoPacket), NEW f, NEW n \in Nat, ChainOf(ch, f, n),
         NEW p \in VideoPacket, p.frameIndex = f, p.part = n + 1, NEW m, m = n + 1
  PROVE  ChainOf(Append(ch, p), f, m)
<1>1. Len(ch) = n BY DEF ChainOf
<1>2. Len(Append(ch, p)) = n + 1 BY <1>1
<1>3. ASSUME NEW i \in 1 .. n + 1
      PROVE  Append(ch, p)[i].part = i /\ Append(ch, p)[i].frameIndex = f
  <2>1. CASE i \in 1 .. n
    <3>1. Append(ch, p)[i] = ch[i] BY <1>1, <2>1
    <3>2. ch[i].part = i /\ ch[i].frameIndex = f BY <2>1 DEF ChainOf
    <3> QED BY <3>1, <3>2
  <2>2. CASE i = n + 1
    <3>1. Append(ch, p)[i] = p BY <1>1, <2>2
    <3> QED BY <2>2, <3>1
  <2>3. i \in 1 .. n \/ i = n + 1 OBVIOUS
  <2> QED BY <2>1, <2>2, <2>3, Zenon
<1> QED BY <1>2, <1>3 DEF ChainOf

\* The packet taken in that is not the first of its frame is the next of it.
LEMMA TakenFollows ==
  ASSUME VideoInv, NEW k, Receives(k), NEW p, p = stream[k], ~ p.first, Accepts(v, p)
  PROVE  /\ v.decodingFrame /\ p.frameIndex = v.nextFrameNumber
         /\ \E n \in Nat : ChainOf(v.chain, p.frameIndex, n) /\ p.part = n + 1
                           /\ p.part <= frames[p.frameIndex].data
<1>1. v.decodingFrame /\ p.index = v.lastPacketInStream + 1 BY DEF Accepts, InSequence
<1>2. PICK j \in 1 .. Len(stream) : At(j) BY <1>1 DEF VideoInv, ChainOK
<1>3. k \in 1 .. Len(stream) /\ StreamOK /\ latest \in Int BY DEF VideoInv, Receives, GlobalsOK
<1>4. Len(stream) <= IndexMod \/ (k <= j + ShortMod + Half /\ j <= k + Window)
  <2>1. CASE Len(stream) <= IndexMod BY <2>1
  <2>2. CASE ~ (Len(stream) <= IndexMod)
    <3>1. latest <= j + ShortMod /\ j <= latest BY <1>2, <2>2 DEF At
    <3>2. k <= latest' /\ latest' <= latest + Half /\ k >= latest - Window
      BY <1>3, <2>2 DEF Receives
    <3>3. latest' \in Int BY <1>3 DEF Receives
    <3> QED BY <1>3, <3>1, <3>2, <3>3, HalfFacts
  <2> QED BY <2>1, <2>2
<1>5. /\ stream[j].part < frames[stream[j].frameIndex].data
      /\ stream[k].index = stream[j].index + 1
  BY <1>1, <1>2 DEF At
<1>6. Continues(stream[j], p) BY <1>3, <1>4, <1>5, NextPacket
<1>7. /\ stream[j].part \in Nat /\ frames[stream[j].frameIndex].data \in Nat BY <1>3, PacketFacts
<1>8. p.frameIndex = v.nextFrameNumber /\ p.part = stream[j].part + 1
      /\ ChainOf(v.chain, p.frameIndex, stream[j].part)
      /\ p.part <= frames[p.frameIndex].data
  BY <1>2, <1>5, <1>6, <1>7 DEF Continues, At
<1> QED BY <1>1, <1>7, <1>8

\* What the packet taken in leaves: the chain of its frame up to it, and a wait unless nothing
\* the frame refers to is missing.
TakenIn(q, p) ==
  /\ q \in Globals /\ q.lastPacketInStream = p.index /\ q.nextFrameNumber = p.frameIndex
  /\ q.startFrameNumber = v.startFrameNumber /\ q.startFrameNumber <= p.frameIndex
  /\ q.decodingFrame
  /\ ChainOf(q.chain, p.frameIndex, p.part) /\ p.part <= frames[p.frameIndex].data
  /\ q.startFrameNumber < p.frameIndex =>
       q.waitingForIdrFrame \/ frames[p.frameIndex].idr
       \/ (q.waitingForNextSuccessfulFrame /\ ~ strict)
  /\ p.frameIndex = 1 => q.waitingForIdrFrame \/ frames[1].idr

LEMMA Taken ==
  ASSUME VideoInv, NEW k, Receives(k), NEW p, p = stream[k], ~ Stale(p), Accepts(v, p),
         NEW b \in Begin(v, p), NEW q, q = Queue(b, p)
  PROVE  TakenIn(q, p)
<1>1. k \in 1 .. Len(stream) /\ StreamOK /\ v \in Globals /\ v.nextFrameNumber \in Nat \ {0}
  BY DEF VideoInv, Receives, GlobalsOK
<1>2. /\ p \in VideoPacket /\ p.frameIndex \in 1 .. NumFrames /\ p.part \in Nat \ {0}
      /\ frames[p.frameIndex].data \in Nat \ {0}
      /\ (p.first <=> p.part = 1) /\ (p.idr => frames[p.frameIndex].idr)
  BY <1>1, PacketFacts
<1>3. v.nextFrameNumber <= p.frameIndex BY <1>1, <1>2 DEF Stale, isBefore
<1>4. v.startFrameNumber <= v.nextFrameNumber /\ v.startFrameNumber \in Nat
  BY <1>1 DEF VideoInv, DecodedOK, Globals
<1>5. PICK f \in 1 .. NumFrames : f = p.frameIndex BY <1>2
<1>6. /\ b \in Globals /\ b.nextFrameNumber = f /\ b.startFrameNumber = v.startFrameNumber
      /\ b.decodingFrame = TRUE /\ p.part <= frames[f].data
      /\ \E n \in Nat : ChainOf(b.chain, f, n) /\ p.part = n + 1
      /\ v.startFrameNumber < f =>
           b.waitingForIdrFrame \/ frames[f].idr \/ (b.waitingForNextSuccessfulFrame /\ ~ strict)
      /\ f = 1 => b.waitingForIdrFrame \/ frames[1].idr
  <2>1. CASE p.first
    <3>1. p.part = 1 /\ p.part = 0 + 1 /\ p.part <= frames[f].data BY <1>2, <1>5, <2>1
    <3>2. ~ v.decodingFrame => v.chain = <<>> BY DEF VideoInv, ChainOK
    <3>3. /\ b \in Globals /\ b.decodingFrame = TRUE /\ b.chain = <<>>
          /\ b.nextFrameNumber = p.frameIndex /\ b.startFrameNumber = v.startFrameNumber
          /\ v.waitingForIdrFrame => b.waitingForIdrFrame
          /\ \/ b.waitingForNextSuccessfulFrame /\ (strict => b.waitingForIdrFrame)
             \/ /\ ~ v.decodingFrame /\ v.nextFrameNumber = p.frameIndex
                /\ b.waitingForNextSuccessfulFrame <=> v.waitingForNextSuccessfulFrame
                /\ b.waitingForIdrFrame <=> v.waitingForIdrFrame
      <4>1. v \in Globals /\ p \in VideoPacket /\ ~ isBefore(p.frameIndex, v.nextFrameNumber)
            /\ (~ v.decodingFrame => v.chain = <<>>) /\ p.first
        BY <1>1, <1>2, <2>1, <3>2 DEF Stale
      <4>2. PICK d : d = v OBVIOUS
      <4>3. d \in Globals /\ ~ isBefore(p.frameIndex, d.nextFrameNumber)
            /\ (~ d.decodingFrame => d.chain = <<>>) /\ b \in Begin(d, p) /\ p \in VideoPacket /\ p.first
        BY <4>1, <4>2
      <4>4. /\ b \in Globals /\ b.decodingFrame = TRUE /\ b.chain = <<>>
            /\ d.waitingForIdrFrame => b.waitingForIdrFrame
            /\ \/ b.waitingForNextSuccessfulFrame /\ (strict => b.waitingForIdrFrame)
               \/ /\ ~ d.decodingFrame /\ d.nextFrameNumber = p.frameIndex
                  /\ b.waitingForNextSuccessfulFrame <=> d.waitingForNextSuccessfulFrame
                  /\ b.waitingForIdrFrame <=> d.waitingForIdrFrame
        BY <4>3, BeginIs
      <4>5. b.nextFrameNumber = p.frameIndex /\ b.startFrameNumber = d.startFrameNumber
        BY <4>3, BeginNumbers
      <4> QED BY <4>2, <4>4, <4>5
    <3>4. ChainOf(<<>>, f, 0)
      <4>1. Len(<<>>) = 0 OBVIOUS
      <4> QED BY <4>1 DEF ChainOf
    <3>5. f = 1 => b.waitingForIdrFrame \/ frames[1].idr
      BY <1>1, <1>3, <1>5, <3>3 DEF VideoInv, WaitsOK
    <3>6. v.startFrameNumber < f =>
            b.waitingForIdrFrame \/ frames[f].idr \/ (b.waitingForNextSuccessfulFrame /\ ~ strict)
      BY <1>5, <3>3 DEF VideoInv, WaitsOK, DecodesIdr
    <3> QED BY <1>5, <3>1, <3>3, <3>4, <3>5, <3>6
  <2>2. CASE ~ p.first
    <3>1. b = v BY <2>2 DEF Begin
    <3>2. v.decodingFrame = TRUE /\ f = v.nextFrameNumber
          /\ (\E n \in Nat : ChainOf(v.chain, f, n) /\ p.part = n + 1 /\ p.part <= frames[f].data)
      <4>1. v.decodingFrame \in BOOLEAN BY <1>1 DEF Globals
      <4> QED BY <1>5, <2>2, <4>1, TakenFollows
    <3>3. v.startFrameNumber < f =>
            v.waitingForIdrFrame \/ frames[f].idr \/ (v.waitingForNextSuccessfulFrame /\ ~ strict)
      BY <3>2 DEF VideoInv, WaitsOK, DecodesIdr
    <3>4. f = 1 => v.waitingForIdrFrame \/ frames[1].idr BY <3>2 DEF VideoInv, WaitsOK
    <3> QED BY <1>1, <3>1, <3>2, <3>3, <3>4
  <2> QED BY <2>1, <2>2
<1>7. /\ q \in Globals /\ q.lastPacketInStream = p.index /\ q.chain = Append(b.chain, p)
      /\ q.nextFrameNumber = b.nextFrameNumber /\ q.startFrameNumber = b.startFrameNumber
      /\ q.decodingFrame = b.decodingFrame
      /\ p.idr => ~ q.waitingForIdrFrame /\ ~ q.waitingForNextSuccessfulFrame
      /\ ~ p.idr => (q.waitingForIdrFrame <=> b.waitingForIdrFrame)
      /\ ~ p.idr => (q.waitingForNextSuccessfulFrame <=> b.waitingForNextSuccessfulFrame)
  <2>1. b \in Globals /\ p \in VideoPacket BY <1>2, <1>6
  <2>2. q = Queue(b, p) OBVIOUS
  <2> QED BY <2>1, <2>2, QueueIs
<1>8. ChainOf(q.chain, f, p.part)
  <2>1. PICK n \in Nat : ChainOf(b.chain, f, n) /\ p.part = n + 1 BY <1>6
  <2>2. b.chain \in Seq(VideoPacket) BY <1>6 DEF Globals
  <2>3. ChainOf(Append(b.chain, p), f, p.part) BY <1>2, <1>5, <2>1, <2>2, ChainLonger
  <2> QED BY <1>7, <2>3
<1>12. q.startFrameNumber = b.startFrameNumber BY <1>7
<1>13. ~ p.idr => (q.waitingForIdrFrame <=> b.waitingForIdrFrame) BY <1>7
<1>14. ~ p.idr => (q.waitingForNextSuccessfulFrame <=> b.waitingForNextSuccessfulFrame) BY <1>7
<1>15. b.startFrameNumber = v.startFrameNumber BY <1>6
<1>9. q.startFrameNumber < f =>
        q.waitingForIdrFrame \/ frames[f].idr \/ (q.waitingForNextSuccessfulFrame /\ ~ strict)
  <2>1. CASE p.idr BY <1>2, <1>5, <2>1
  <2>2. CASE ~ p.idr
    <3>1. v.startFrameNumber < f =>
            b.waitingForIdrFrame \/ frames[f].idr \/ (b.waitingForNextSuccessfulFrame /\ ~ strict)
      BY <1>6
    <3> QED BY <1>12, <1>13, <1>14, <1>15, <2>2, <3>1
  <2> QED BY <2>1, <2>2
<1>10. f = 1 => q.waitingForIdrFrame \/ frames[1].idr
  <2>1. CASE p.idr BY <1>2, <1>5, <2>1
  <2>2. CASE ~ p.idr
    <3>1. f = 1 => b.waitingForIdrFrame \/ frames[1].idr BY <1>6
    <3> QED BY <1>13, <2>2, <3>1
  <2> QED BY <2>1, <2>2
<1>11. q.startFrameNumber <= f BY <1>3, <1>4, <1>5, <1>6, <1>7, <1>1
<1> QED BY <1>5, <1>6, <1>7, <1>8, <1>9, <1>10, <1>11 DEF TakenIn

-----------------------------------------------------------------------------
(***************************************************************************)
(* Every way of taking a packet keeps the invariant.                       *)
(***************************************************************************)
\* What the network does to the rest of the state.
LEMMA LatestMoves ==
  ASSUME VideoInv, NEW k, Receives(k)
  PROVE  /\ k \in 1 .. Len(stream) /\ Len(stream) \in Nat /\ latest \in Nat
         /\ latest' \in 0 .. Len(stream) /\ latest <= latest' /\ k <= latest'
         /\ latest' = latest \/ latest' = k
         /\ frames' = frames /\ stream' = stream /\ strict' = strict
         /\ Len(stream) <= IndexMod \/ latest' <= latest + Half
         /\ k >= latest - Window
<1>1. latest \in 0 .. Len(stream) /\ Len(stream) \in Nat BY DEF VideoInv, GlobalsOK, StreamOK, FramesInOrder
<1>2. k \in 1 .. Len(stream) /\ latest' = IF k > latest THEN k ELSE latest BY DEF Receives
<1>3. latest' \in 0 .. Len(stream) /\ latest <= latest' /\ k <= latest' /\ (latest' = latest \/ latest' = k)
  BY <1>1, <1>2
<1> QED BY <1>1, <1>2, <1>3 DEF Receives

LEMMA StreamKept == ASSUME StreamOK, UNCHANGED <<frames, stream>> PROVE StreamOK'
BY DEF StreamOK, FramesInOrder, PacketOK, Continues, Size

\* The packet taken in last stays where it was.
LEMMA AtKept ==
  ASSUME VideoInv, NEW k, Receives(k), NEW j \in 1 .. Len(stream), At(j), v' = v,
         Len(stream) <= IndexMod \/ k <= j + ShortMod
  PROVE  At(j)'
<1>1. j <= latest' BY LatestMoves DEF At
<1>2. Len(stream) <= IndexMod \/ latest' <= j + ShortMod BY LatestMoves DEF At
<1>3. frames' = frames /\ stream' = stream BY LatestMoves
<1> QED BY <1>1, <1>2, <1>3 DEF At, ChainOf

LEMMA StaleKeeps ==
  ASSUME VideoInv, NEW k, Receives(k), Stale(stream[k]), UNCHANGED <<v, decoded, reported>>
  PROVE  VideoInv'
<1>1. /\ k \in 1 .. Len(stream) /\ Len(stream) \in Nat /\ latest \in Nat
      /\ latest' \in 0 .. Len(stream) /\ frames' = frames /\ stream' = stream /\ strict' = strict
      /\ Len(stream) <= IndexMod \/ latest' <= latest + Half
      /\ k <= latest'
  BY LatestMoves
<1>2. StreamOK /\ StreamOK' BY <1>1, StreamKept DEF VideoInv
<1>3. GlobalsOK' BY <1>1 DEF VideoInv, GlobalsOK
<1>4. ChainOK'
  <2>1. CASE ~ v.decodingFrame BY <2>1 DEF VideoInv, ChainOK
  <2>2. CASE v.decodingFrame
    <3>1. PICK j \in 1 .. Len(stream) : At(j) BY <2>2 DEF VideoInv, ChainOK
    <3>2. Len(stream) <= IndexMod \/ k <= j + ShortMod
      <4>1. CASE k <= j BY <1>1, <3>1, <4>1, HalfFacts
      <4>2. CASE Len(stream) <= IndexMod BY <4>2
      <4>3. CASE ~ (Len(stream) <= IndexMod) /\ j <= k
        <5>1. latest <= j + ShortMod BY <3>1, <4>3 DEF At
        <5>2. k <= j + ShortMod + Half BY <1>1, <4>3, <5>1, HalfFacts
        <5>3. v.lastPacketInStream = stream[j].index /\ v.nextFrameNumber = stream[j].frameIndex
          BY <3>1 DEF At
        <5> QED BY <1>1, <1>2, <4>3, <5>2, <5>3, StaleNear
      <4> QED BY <1>1, <4>1, <4>2, <4>3
    <3>3. At(j)' BY <3>1, <3>2, AtKept
    <3> QED BY <1>1, <2>2, <3>3 DEF ChainOK
  <2> QED BY <2>1, <2>2
<1>5. DecodedOK' BY <1>1 DEF VideoInv, DecodedOK, ChainOf
<1>6. WaitsOK' BY <1>1 DEF VideoInv, WaitsOK, DecodesIdr
<1>7. GapsCovered' BY <1>1 DEF VideoInv, GapsCovered
<1> QED BY <1>2, <1>3, <1>4, <1>5, <1>6, <1>7 DEF VideoInv

\* A frame given up, with those before: the next is f.
GivenUp(d, e, f) ==
  /\ e \in Globals /\ e.chain = <<>> /\ ~ e.decodingFrame /\ e.nextFrameNumber = f
  /\ e.waitingForNextSuccessfulFrame /\ (strict => e.waitingForIdrFrame)
  /\ e.lastPacketInStream = d.lastPacketInStream /\ e.startFrameNumber = d.startFrameNumber

LEMMA RejectedIs ==
  ASSUME NEW d \in Globals, NEW p \in VideoPacket, ~ Accepts(d, p), NEW e \in Rejected(d, p)
  PROVE  (e = d /\ ~ d.decodingFrame) \/ GivenUp(d, e, p.frameIndex + 1)
<1>1. PICK f \in Nat : f = p.frameIndex + 1 BY DEF VideoPacket
<1>2. ~ p.first /\ d.decodingFrame \in BOOLEAN BY DEF Accepts, Globals
<1>3. CASE ~ d.decodingFrame /\ ~ looksReal(p)
  <2>1. e = d BY <1>2, <1>3, Zenon DEF Rejected
  <2> QED BY <1>3, <2>1
<1>4. CASE ~ d.decodingFrame /\ looksReal(p)
  <2>1. e \in Lost(d, f) BY <1>1, <1>2, <1>4, Zenon DEF Rejected
  <2>2. /\ e \in Globals /\ e.chain = <<>> /\ e.nextFrameNumber = f
        /\ e.waitingForNextSuccessfulFrame = TRUE /\ (strict => e.waitingForIdrFrame)
        /\ e.lastPacketInStream = d.lastPacketInStream
        /\ e.startFrameNumber = d.startFrameNumber /\ e.decodingFrame = d.decodingFrame
    BY <2>1, LostIs, ZenonT(30)
  <2> QED BY <1>1, <1>4, <2>2 DEF GivenUp
<1>5. CASE d.decodingFrame
  <2>1. PICK c : c = [d EXCEPT !.decodingFrame = FALSE] OBVIOUS
  <2>2. e \in Lost(c, f) BY <1>1, <1>5, <2>1, Zenon DEF Rejected
  <2>3. /\ c \in Globals /\ c.decodingFrame = FALSE
        /\ c.lastPacketInStream = d.lastPacketInStream /\ c.startFrameNumber = d.startFrameNumber
    BY <2>1, DecodingIs
  <2>4. /\ e \in Globals /\ e.chain = <<>> /\ e.nextFrameNumber = f
        /\ e.waitingForNextSuccessfulFrame = TRUE /\ (strict => e.waitingForIdrFrame)
        /\ e.lastPacketInStream = c.lastPacketInStream
        /\ e.startFrameNumber = c.startFrameNumber /\ e.decodingFrame = c.decodingFrame
    BY <2>2, <2>3, LostIs, ZenonT(30)
  <2> QED BY <1>1, <2>3, <2>4 DEF GivenUp
<1> QED BY <1>2, <1>3, <1>4, <1>5

\* Giving up a frame keeps the invariant, when nothing is decoded or reported.
LEMMA GivenUpKeeps ==
  ASSUME VideoInv, NEW k, Receives(k), ~ Stale(stream[k]), GivenUp(v, v', stream[k].frameIndex + 1),
         UNCHANGED <<decoded, reported>>
  PROVE  VideoInv'
<1>1. /\ k \in 1 .. Len(stream) /\ Len(stream) \in Nat /\ latest' \in 0 .. Len(stream)
      /\ frames' = frames /\ stream' = stream /\ strict' = strict
  BY LatestMoves
<1>2. StreamOK /\ StreamOK' BY <1>1, StreamKept DEF VideoInv
<1>3. PICK f \in 1 .. NumFrames : f = stream[k].frameIndex BY <1>1, <1>2, PacketFacts
<1>4. /\ v' \in Globals /\ v'.chain = <<>> /\ ~ v'.decodingFrame /\ v'.nextFrameNumber = f + 1
      /\ v'.waitingForNextSuccessfulFrame /\ (strict => v'.waitingForIdrFrame)
      /\ v'.lastPacketInStream = v.lastPacketInStream /\ v'.startFrameNumber = v.startFrameNumber
  BY <1>3 DEF GivenUp
<1>5. v.nextFrameNumber <= f
  <2>1. v.nextFrameNumber \in Nat BY DEF VideoInv, GlobalsOK, Globals
  <2> QED BY <1>3, <2>1 DEF Stale, isBefore
<1>6. GlobalsOK'
  <2>1. NumFrames \in Nat BY VideoAssumption
  <2> QED BY <1>1, <1>3, <1>4, <2>1 DEF VideoInv, GlobalsOK
<1>7. ChainOK' BY <1>4 DEF ChainOK
<1>8. DecodedOK'
  <2>1. v.startFrameNumber <= v.nextFrameNumber /\ v.startFrameNumber \in Nat /\ v.nextFrameNumber \in Nat
    BY DEF VideoInv, GlobalsOK, Globals, DecodedOK
  <2>2. v'.startFrameNumber <= v'.nextFrameNumber BY <1>3, <1>4, <1>5, <2>1
  <2>3. v'.startFrameNumber = IF decoded' = <<>> THEN 0 ELSE decoded'[Len(decoded')].frame + 1
    BY <1>4 DEF VideoInv, DecodedOK
  <2> QED BY <1>1, <2>2, <2>3 DEF VideoInv, DecodedOK, ChainOf
<1>9. WaitsOK'
  <2>1. v'.waitingForIdrFrame \/ (v'.waitingForNextSuccessfulFrame /\ ~ strict') BY <1>1, <1>4
  <2>2. v'.nextFrameNumber # 1 BY <1>3, <1>4
  <2> QED BY <2>1, <2>2 DEF WaitsOK
<1>10. GapsCovered' BY <1>1 DEF VideoInv, GapsCovered
<1> QED BY <1>2, <1>6, <1>7, <1>8, <1>9, <1>10 DEF VideoInv

LEMMA UnchangedKeeps ==
  ASSUME VideoInv, NEW k, Receives(k), ~ v.decodingFrame, UNCHANGED <<v, decoded, reported>>
  PROVE  VideoInv'
<1>1. /\ latest' \in 0 .. Len(stream) /\ frames' = frames /\ stream' = stream /\ strict' = strict
  BY LatestMoves
<1>2. StreamOK' BY <1>1, StreamKept DEF VideoInv
<1>3. GlobalsOK' BY <1>1 DEF VideoInv, GlobalsOK
<1>4. ChainOK' BY DEF VideoInv, ChainOK
<1>5. DecodedOK' BY <1>1 DEF VideoInv, DecodedOK, ChainOf
<1>6. WaitsOK' BY <1>1 DEF VideoInv, WaitsOK, DecodesIdr
<1>7. GapsCovered' BY <1>1 DEF VideoInv, GapsCovered
<1> QED BY <1>2, <1>3, <1>4, <1>5, <1>6, <1>7 DEF VideoInv

LEMMA RejectedKeeps ==
  ASSUME VideoInv, NEW k, Receives(k), ~ Stale(stream[k]), ~ Accepts(v, stream[k]),
         v' \in Rejected(v, stream[k]), UNCHANGED <<decoded, reported>>
  PROVE  VideoInv'
<1>1. k \in 1 .. Len(stream) /\ StreamOK /\ v \in Globals BY LatestMoves DEF VideoInv, GlobalsOK
<1>2. stream[k] \in VideoPacket BY <1>1, PacketFacts
<1>3. (v' = v /\ ~ v.decodingFrame) \/ GivenUp(v, v', stream[k].frameIndex + 1)
  BY <1>1, <1>2, RejectedIs
<1>4. CASE v' = v /\ ~ v.decodingFrame BY <1>4, UnchangedKeeps
<1>5. CASE GivenUp(v, v', stream[k].frameIndex + 1) BY <1>5, GivenUpKeeps
<1> QED BY <1>3, <1>4, <1>5

\* So does a packet taken in that does not end its frame.
LEMMA TakenKeeps ==
  ASSUME VideoInv, NEW k, Receives(k), TakenIn(v', stream[k]), ~ stream[k].eof,
         UNCHANGED <<decoded, reported>>
  PROVE  VideoInv'
<1>1. /\ k \in 1 .. Len(stream) /\ Len(stream) \in Nat /\ latest' \in 0 .. Len(stream)
      /\ latest \in Nat /\ k <= latest' /\ k >= latest - Window /\ (latest' = latest \/ latest' = k)
      /\ frames' = frames /\ stream' = stream /\ strict' = strict
  BY LatestMoves
<1>2. StreamOK /\ StreamOK' BY <1>1, StreamKept DEF VideoInv
<1>3. PICK p : p = stream[k] OBVIOUS
<1>4. /\ p.frameIndex \in 1 .. NumFrames /\ p.part \in Nat \ {0} /\ frames[p.frameIndex].data \in Nat \ {0}
      /\ (p.eof <=> p.part = frames[p.frameIndex].data) /\ p.index \in 0 .. IndexMod - 1
  BY <1>1, <1>2, <1>3, PacketFacts
<1>5. PICK f \in 1 .. NumFrames : f = p.frameIndex BY <1>4
<1>6. /\ v' \in Globals /\ v'.lastPacketInStream = p.index /\ v'.nextFrameNumber = f
      /\ v'.startFrameNumber = v.startFrameNumber /\ v'.startFrameNumber <= f
      /\ v'.decodingFrame
      /\ ChainOf(v'.chain, f, p.part) /\ p.part <= frames[f].data
      /\ v'.startFrameNumber < f =>
           v'.waitingForIdrFrame \/ frames[f].idr \/ (v'.waitingForNextSuccessfulFrame /\ ~ strict)
      /\ f = 1 => v'.waitingForIdrFrame \/ frames[1].idr
  BY <1>3, <1>5 DEF TakenIn
<1>7. GlobalsOK'
  <2>1. NumFrames \in Nat BY VideoAssumption
  <2>2. v'.lastPacketInStream \in -1 .. IndexMod - 1 BY <1>4, <1>6, HalfFacts
  <2> QED BY <1>1, <1>6, <2>1, <2>2 DEF VideoInv, GlobalsOK
<1>8. ChainOK'
  <2>1. Len(stream) <= IndexMod \/ latest' <= k + ShortMod BY <1>1, HalfFacts
  <2>2. p.part < frames[f].data BY <1>3, <1>4, <1>5, <1>6
  <2>4. At(k)' BY <1>1, <1>3, <1>5, <1>6, <2>1, <2>2 DEF At, ChainOf
  <2> QED BY <1>1, <1>6, <2>4 DEF ChainOK
<1>9. DecodedOK'
  <2>1. v'.startFrameNumber = IF decoded' = <<>> THEN 0 ELSE decoded'[Len(decoded')].frame + 1
    BY <1>6 DEF VideoInv, DecodedOK
  <2>2. v'.startFrameNumber <= v'.nextFrameNumber BY <1>6
  <2> QED BY <1>1, <2>1, <2>2 DEF VideoInv, DecodedOK, ChainOf
<1>10. WaitsOK' BY <1>1, <1>6 DEF WaitsOK, DecodesIdr
<1>11. GapsCovered' BY <1>1 DEF VideoInv, GapsCovered
<1> QED BY <1>2, <1>7, <1>8, <1>9, <1>10, <1>11 DEF VideoInv

\* The frame ended and not decoded, or decoded.
NotDecoded(q, e, f) ==
  /\ e \in Globals /\ e.chain = <<>> /\ ~ e.decodingFrame /\ e.nextFrameNumber = f
  /\ e.waitingForIdrFrame
  /\ e.lastPacketInStream = q.lastPacketInStream /\ e.startFrameNumber = q.startFrameNumber

LEMMA NotDecodedIs ==
  ASSUME NEW q \in Globals, NEW p \in VideoPacket, NEW d, d = EndFrame(q, p), ~ Decodes(d),
         NEW e \in dropFrameState(d)
  PROVE  NotDecoded(q, e, p.frameIndex + 1)
<1>1. /\ d \in Globals /\ d.decodingFrame = FALSE /\ d.nextFrameNumber = p.frameIndex + 1
      /\ d.lastPacketInStream = q.lastPacketInStream /\ d.startFrameNumber = q.startFrameNumber
  BY EndFrameIs
<1>2. /\ e \in Globals /\ e.chain = <<>> /\ (d.waitingForIdrFrame => e.waitingForIdrFrame)
      /\ e.lastPacketInStream = d.lastPacketInStream /\ e.nextFrameNumber = d.nextFrameNumber
      /\ e.startFrameNumber = d.startFrameNumber /\ e.decodingFrame = d.decodingFrame
  BY <1>1, DropIs
<1>3. d.waitingForIdrFrame BY DEF Decodes
<1> QED BY <1>1, <1>2, <1>3 DEF NotDecoded

DecodedTo(q, d, e, f) ==
  /\ e \in Globals /\ e.chain = <<>> /\ ~ e.decodingFrame /\ e.nextFrameNumber = f
  /\ e.startFrameNumber = f /\ e.lastPacketInStream = q.lastPacketInStream
  /\ d.chain = q.chain /\ d.startFrameNumber = q.startFrameNumber /\ d.nextFrameNumber = f
  /\ ~ q.waitingForIdrFrame

LEMMA DecodedToIs ==
  ASSUME NEW q \in Globals, NEW p \in VideoPacket, NEW d, d = EndFrame(q, p), Decodes(d),
         NEW e, e = Reassembled(d)
  PROVE  DecodedTo(q, d, e, p.frameIndex + 1)
<1>1. /\ d \in Globals /\ d.decodingFrame = FALSE /\ d.nextFrameNumber = p.frameIndex + 1
      /\ d.waitingForIdrFrame = q.waitingForIdrFrame /\ d.chain = q.chain
      /\ d.lastPacketInStream = q.lastPacketInStream /\ d.startFrameNumber = q.startFrameNumber
  BY EndFrameIs
<1>2. /\ e \in Globals /\ e.decodingFrame = d.decodingFrame /\ e.chain = <<>>
      /\ e.nextFrameNumber = d.nextFrameNumber /\ e.startFrameNumber = d.nextFrameNumber
      /\ e.lastPacketInStream = d.lastPacketInStream
  BY <1>1, ReassembledIs
<1>3. ~ d.waitingForIdrFrame BY DEF Decodes
<1> QED BY <1>1, <1>2, <1>3 DEF DecodedTo

\* What is reported covers no less afterwards.
LEMMA ReportsCover ==
  ASSUME reported \subseteq reported', NEW S, S \subseteq UNION {r[1] .. r[2] : r \in reported}
  PROVE  S \subseteq UNION {r[1] .. r[2] : r \in reported'}
OBVIOUS

LEMMA GapsKept ==
  ASSUME GapsCovered, frames' = frames, strict' = strict, decoded' = decoded,
         reported \subseteq reported'
  PROVE  GapsCovered'
BY DEF GapsCovered

\* The end of a frame that is not decoded.
LEMMA NotDecodedKeeps ==
  ASSUME VideoInv, NEW k, Receives(k), NEW q, TakenIn(q, stream[k]),
         NotDecoded(q, v', stream[k].frameIndex + 1),
         decoded' = decoded, reported \subseteq reported'
  PROVE  VideoInv'
<1>1. /\ k \in 1 .. Len(stream) /\ Len(stream) \in Nat /\ latest' \in 0 .. Len(stream)
      /\ frames' = frames /\ stream' = stream /\ strict' = strict
  BY LatestMoves
<1>2. StreamOK /\ StreamOK' BY <1>1, StreamKept DEF VideoInv
<1>3. PICK f \in 1 .. NumFrames : f = stream[k].frameIndex BY <1>1, <1>2, PacketFacts
<1>4. stream[k].index \in 0 .. IndexMod - 1 BY <1>1, <1>2, PacketFacts
<1>5. /\ q.lastPacketInStream = stream[k].index
      /\ q.startFrameNumber = v.startFrameNumber /\ q.startFrameNumber <= f
  BY <1>3 DEF TakenIn
<1>6. /\ v' \in Globals /\ v'.chain = <<>> /\ ~ v'.decodingFrame /\ v'.nextFrameNumber = f + 1
      /\ v'.waitingForIdrFrame
      /\ v'.lastPacketInStream = q.lastPacketInStream /\ v'.startFrameNumber = q.startFrameNumber
  BY <1>3 DEF NotDecoded
<1>7. GlobalsOK'
  <2>1. NumFrames \in Nat BY VideoAssumption
  <2>2. v'.lastPacketInStream \in -1 .. IndexMod - 1 BY <1>4, <1>5, <1>6, HalfFacts
  <2> QED BY <1>1, <1>3, <1>6, <2>1, <2>2 DEF VideoInv, GlobalsOK
<1>8. ChainOK' BY <1>6 DEF ChainOK
<1>9. DecodedOK'
  <2>1. v.startFrameNumber \in Nat BY DEF VideoInv, GlobalsOK, Globals
  <2>2. v'.startFrameNumber <= v'.nextFrameNumber BY <1>3, <1>5, <1>6, <2>1
  <2>3. v'.startFrameNumber = IF decoded' = <<>> THEN 0 ELSE decoded'[Len(decoded')].frame + 1
    BY <1>5, <1>6 DEF VideoInv, DecodedOK
  <2> QED BY <1>1, <2>2, <2>3 DEF VideoInv, DecodedOK, ChainOf
<1>10. WaitsOK' BY <1>3, <1>6 DEF WaitsOK
<1>11. GapsCovered' BY <1>1, GapsKept DEF VideoInv
<1> QED BY <1>2, <1>7, <1>8, <1>9, <1>10, <1>11 DEF VideoInv

LEMMA DecodedElement ==
  ASSUME NEW ds \in Seq(DecodedFrame), NEW i \in 1 .. Len(ds)
  PROVE  ds[i] \in DecodedFrame /\ ds[i].frame \in 1 .. NumFrames
<1>1. PICK x \in DecodedFrame : x = ds[i] OBVIOUS
<1>2. x.frame \in 1 .. NumFrames BY DEF DecodedFrame
<1> QED BY <1>1, <1>2

LEMMA DecodedLonger ==
  ASSUME NEW ds \in Seq(DecodedFrame), NEW x \in DecodedFrame, NEW es, es = Append(ds, x)
  PROVE  /\ es \in Seq(DecodedFrame) /\ Len(es) = Len(ds) + 1 /\ es[Len(ds) + 1] = x
         /\ \A i \in 1 .. Len(ds) : es[i] = ds[i]
OBVIOUS

LEMMA EmptyGap == ASSUME NEW f \in Nat PROVE f .. f - 1 = {}
OBVIOUS

LEMMA GapWithin ==
  ASSUME NEW low \in Nat, NEW f \in Nat, NEW s \in Nat, s <= low, low <= f - 1
  PROVE  low .. f - 1 # {} /\ low .. f - 1 \subseteq s .. f
<1>1. low \in low .. f - 1 OBVIOUS
<1> QED BY <1>1

LEMMA RangeCovers ==
  ASSUME NEW R, NEW s, NEW f, <<s, f>> \in R PROVE s .. f \subseteq UNION {r[1] .. r[2] : r \in R}
<1>1. PICK r : r = <<s, f>> OBVIOUS
<1>2. r \in R /\ r[1] = s /\ r[2] = f BY <1>1
<1> QED BY <1>2

\* The end of a frame that is decoded: every packet with picture data is in the chain, and
\* what is missing before it is not needed or has been reported.
LEMMA GapCovered ==
  ASSUME VideoInv, NEW p, NEW q, TakenIn(q, p), ~ q.waitingForIdrFrame,
         p.frameIndex \in 1 .. NumFrames,
         q.waitingForNextSuccessfulFrame => <<q.startFrameNumber, p.frameIndex>> \in reported',
         NEW gap, gap = (IF decoded = <<>> THEN 0 ELSE decoded[Len(decoded)].frame) + 1 .. p.frameIndex - 1
  PROVE  \/ frames[p.frameIndex].idr
         \/ decoded # <<>> /\ gap = {}
         \/ gap # {} /\ ~ strict /\ gap \subseteq UNION {r[1] .. r[2] : r \in reported'}
<1>1. PICK f \in 1 .. NumFrames : f = p.frameIndex OBVIOUS
<1>2. PICK s \in Nat : s = q.startFrameNumber BY DEF TakenIn, Globals
<1>3. /\ s <= f
      /\ s < f => frames[f].idr \/ (q.waitingForNextSuccessfulFrame /\ ~ strict)
      /\ f = 1 => frames[1].idr
  BY <1>1, <1>2 DEF TakenIn
<1>4. PICK low \in Nat : low = (IF decoded = <<>> THEN 0 ELSE decoded[Len(decoded)].frame) + 1
  <2>1. CASE decoded = <<>> BY <2>1
  <2>2. CASE decoded # <<>>
    <3>2. decoded \in Seq(DecodedFrame) BY DEF VideoInv, DecodedOK
    <3>3. Len(decoded) \in 1 .. Len(decoded) BY <2>2, <3>2
    <3>4. decoded[Len(decoded)].frame \in 1 .. NumFrames BY <3>2, <3>3, DecodedElement
    <3> QED BY <2>2, <3>4
  <2> QED BY <2>1, <2>2
<1>5. gap = low .. f - 1 BY <1>1, <1>4
<1>6. (decoded = <<>> => s = 0 /\ low = 1) /\ (decoded # <<>> => s = low)
  <2>1. s = IF decoded = <<>> THEN 0 ELSE decoded[Len(decoded)].frame + 1
    BY <1>2 DEF TakenIn, VideoInv, DecodedOK
  <2> QED BY <1>4, <2>1
<1>7. CASE frames[f].idr BY <1>1, <1>7
<1>8. CASE ~ frames[f].idr /\ s = f
  <2>1. decoded # <<>> /\ s = low BY <1>6, <1>8
  <2>2. low = f /\ f \in Nat BY <1>8, <2>1
  <2>3. low .. f - 1 = {} BY <2>2, EmptyGap
  <2>4. gap = {} BY <1>5, <2>3
  <2> QED BY <2>1, <2>4
<1>9. CASE ~ frames[f].idr /\ s < f
  <2>1. q.waitingForNextSuccessfulFrame /\ ~ strict /\ f # 1 BY <1>3, <1>9
  <2>2. <<s, f>> \in reported' BY <1>1, <1>2, <2>1
  <2>3. s <= low /\ low <= f - 1 /\ f \in Nat BY <1>6, <1>9, <2>1
  <2>4. low .. f - 1 # {} /\ low .. f - 1 \subseteq s .. f BY <2>3, GapWithin
  <2>5. s .. f \subseteq UNION {r[1] .. r[2] : r \in reported'} BY <2>2, RangeCovers
  <2>6. PICK g : g = low .. f - 1 OBVIOUS
  <2>7. PICK U : U = UNION {r[1] .. r[2] : r \in reported'} OBVIOUS
  <2>8. g # {} /\ g \subseteq U
    <3>1. s .. f \subseteq U BY <2>5, <2>7
    <3> QED BY <2>4, <2>6, <3>1
  <2>9. gap = g BY <1>5, <2>6
  <2> QED BY <2>1, <2>7, <2>8, <2>9
<1> QED BY <1>3, <1>7, <1>8, <1>9

\* A frame more whose gap is covered.
Gap(ds, n) == (IF n = 1 THEN 0 ELSE ds[n - 1].frame) + 1 .. ds[n].frame - 1

Covered(ds, n, R) ==
  \/ frames[ds[n].frame].idr
  \/ n > 1 /\ Gap(ds, n) = {}
  \/ Gap(ds, n) # {} /\ ~ strict /\ Gap(ds, n) \subseteq UNION {r[1] .. r[2] : r \in R}

LEMMA GapsAre == GapsCovered <=> \A n \in DOMAIN decoded : Covered(decoded, n, reported)
BY DEF GapsCovered, Covered, Gap

LEMMA GapsArePrime ==
  ASSUME frames' = frames, strict' = strict
  PROVE  GapsCovered' <=> \A n \in DOMAIN decoded' : Covered(decoded', n, reported')
BY DEF GapsCovered, Covered, Gap

LEMMA CoveredLonger ==
  ASSUME NEW ds, NEW es, NEW n \in Nat \ {0}, es[n] = ds[n], n > 1 => es[n - 1] = ds[n - 1],
         NEW R, NEW S, R \subseteq S, Covered(ds, n, R)
  PROVE  Covered(es, n, S)
<1>1. PICK g : g = Gap(ds, n) OBVIOUS
<1>2. Gap(es, n) = g BY <1>1 DEF Gap
<1>3. g \subseteq UNION {r[1] .. r[2] : r \in R} => g \subseteq UNION {r[1] .. r[2] : r \in S} OBVIOUS
<1> QED BY <1>1, <1>2, <1>3 DEF Covered

LEMMA GapsLonger ==
  ASSUME GapsCovered, frames' = frames, strict' = strict, reported \subseteq reported',
         NEW T, decoded \in Seq(T), NEW n \in Nat, n = Len(decoded),
         decoded' \in Seq(T), Len(decoded') = n + 1,
         \A i \in 1 .. n : decoded'[i] = decoded[i], Covered(decoded', n + 1, reported')
  PROVE  GapsCovered'
<1>1. DOMAIN decoded = 1 .. n /\ DOMAIN decoded' = 1 .. n + 1 OBVIOUS
<1>2. ASSUME NEW i \in 1 .. n PROVE Covered(decoded', i, reported')
  <2>1. Covered(decoded, i, reported) BY <1>1, GapsAre
  <2>2. decoded'[i] = decoded[i] /\ (i > 1 => decoded'[i - 1] = decoded[i - 1]) BY <1>2
  <2>3. i \in Nat \ {0} BY <1>2
  <2> QED BY <2>1, <2>2, <2>3, CoveredLonger
<1>3. \A i \in 1 .. n + 1 : i \in 1 .. n \/ i = n + 1 OBVIOUS
<1>4. \A i \in DOMAIN decoded' : Covered(decoded', i, reported') BY <1>1, <1>2, <1>3
<1> QED BY <1>4, GapsArePrime

LEMMA GlobalsMoved ==
  ASSUME VideoInv, stream' = stream, strict' = strict, latest' \in 0 .. Len(stream), v' \in Globals,
         v'.lastPacketInStream \in -1 .. IndexMod - 1, v'.nextFrameNumber \in 1 .. NumFrames + 1
  PROVE  GlobalsOK'
<1>1. strict \in BOOLEAN BY DEF VideoInv, GlobalsOK
<1> QED BY <1>1 DEF GlobalsOK

\* The frame decoded, after those before it.
LEMMA DecodedKeeps ==
  ASSUME VideoInv, NEW k, Receives(k), NEW p, p = stream[k], p.eof, NEW q, TakenIn(q, p),
         NEW d, DecodedTo(q, d, v', p.frameIndex + 1),
         decoded' = Append(decoded, [frame |-> p.frameIndex, chain |-> d.chain]),
         reported \subseteq reported',
         q.waitingForNextSuccessfulFrame => <<q.startFrameNumber, p.frameIndex>> \in reported'
  PROVE  VideoInv'
<1>1. /\ k \in 1 .. Len(stream) /\ Len(stream) \in Nat /\ latest' \in 0 .. Len(stream)
      /\ frames' = frames /\ stream' = stream /\ strict' = strict
  BY LatestMoves
<1>2. StreamOK /\ StreamOK' BY <1>1, StreamKept DEF VideoInv
<1>3. /\ p.frameIndex \in 1 .. NumFrames /\ p.index \in 0 .. IndexMod - 1
      /\ p.part = frames[p.frameIndex].data /\ p.part \in Nat
  BY <1>1, <1>2, PacketFacts
<1>4. PICK f \in 1 .. NumFrames : f = p.frameIndex BY <1>3
<1>5. /\ q \in Globals /\ q.lastPacketInStream = p.index
      /\ q.startFrameNumber = v.startFrameNumber /\ q.startFrameNumber <= f
      /\ ChainOf(q.chain, f, frames[f].data)
  BY <1>3, <1>4 DEF TakenIn
<1>6. /\ v' \in Globals /\ v'.chain = <<>> /\ ~ v'.decodingFrame /\ v'.nextFrameNumber = f + 1
      /\ v'.startFrameNumber = f + 1 /\ v'.lastPacketInStream = q.lastPacketInStream
      /\ d.chain = q.chain /\ ~ q.waitingForIdrFrame
  BY <1>4 DEF DecodedTo
<1>7. PICK ch \in Seq(VideoPacket) : ch = q.chain BY <1>5 DEF Globals
<1>8. PICK x \in DecodedFrame :
        x = [frame |-> f, chain |-> ch]
  BY DEF DecodedFrame
<1>9. decoded' = Append(decoded, x) BY <1>4, <1>6, <1>7, <1>8
<1>10. PICK n \in Nat : n = Len(decoded) /\ decoded \in Seq(DecodedFrame)
  BY DEF VideoInv, DecodedOK
<1>11. /\ decoded' \in Seq(DecodedFrame) /\ Len(decoded') = n + 1
       /\ decoded'[n + 1] = x /\ \A i \in 1 .. n : decoded'[i] = decoded[i]
  BY <1>8, <1>9, <1>10, DecodedLonger
<1>12. x.frame = f /\ x.chain = ch BY <1>8
<1>13. GlobalsOK'
  <2>1. NumFrames \in Nat BY VideoAssumption
  <2>2. v'.lastPacketInStream \in -1 .. IndexMod - 1 BY <1>3, <1>5, <1>6, HalfFacts
  <2>3. v'.nextFrameNumber \in 1 .. NumFrames + 1 BY <1>4, <1>6, <2>1
  <2> QED BY <1>1, <1>6, <2>2, <2>3, GlobalsMoved
<1>14. ChainOK' BY <1>6 DEF ChainOK
<1>15. \A i \in 1 .. n : decoded[i].frame < f
  <2>1. SUFFICES ASSUME NEW i \in 1 .. n PROVE decoded[i].frame < f OBVIOUS
  <2>2. decoded # <<>> /\ n \in 1 .. n BY <1>10, <2>1
  <2>3. PICK y \in DecodedFrame : y = decoded[n] BY <1>10, <2>2, DecodedElement
  <2>4. PICK z \in DecodedFrame : z = decoded[i] BY <1>10, <2>1, DecodedElement
  <2>5. v.startFrameNumber = y.frame + 1 BY <1>10, <2>2, <2>3 DEF VideoInv, DecodedOK
  <2>6. i < n => z.frame < y.frame BY <1>10, <2>1, <2>2, <2>3, <2>4 DEF VideoInv, DecodedOK
  <2>7. i = n => z = y BY <2>3, <2>4
  <2>8. y.frame \in Nat /\ z.frame \in Nat BY <2>3, <2>4 DEF DecodedFrame
  <2>9. y.frame < f BY <1>5, <2>5, <2>8
  <2>10. i < n \/ i = n BY <2>1, <2>2
  <2>11. z.frame < f BY <2>6, <2>7, <2>8, <2>9, <2>10
  <2> QED BY <2>4, <2>11
<1>16. DecodedOK'
  <2>1. v'.startFrameNumber = IF decoded' = <<>> THEN 0 ELSE decoded'[Len(decoded')].frame + 1
    <3>1. decoded' # <<>> BY <1>10, <1>11
    <3> QED BY <1>6, <1>11, <1>12, <3>1
  <2>2. v'.startFrameNumber <= v'.nextFrameNumber BY <1>6
  <2>3. ASSUME NEW i \in 1 .. n + 1
        PROVE  ChainOf(decoded'[i].chain, decoded'[i].frame, frames[decoded'[i].frame].data)
    <3>1. CASE i \in 1 .. n
      <4>1. ChainOf(decoded[i].chain, decoded[i].frame, frames[decoded[i].frame].data)
        BY <1>10, <3>1 DEF VideoInv, DecodedOK
      <4> QED BY <1>11, <3>1, <4>1
    <3>2. CASE i = n + 1 BY <1>5, <1>7, <1>11, <1>12, <3>2
    <3>3. i \in 1 .. n \/ i = n + 1 OBVIOUS
    <3> QED BY <3>1, <3>2, <3>3
  <2>4. ASSUME NEW i \in 1 .. n + 1, NEW j \in 1 .. n + 1, i < j
        PROVE  decoded'[i].frame < decoded'[j].frame
    <3>1. CASE j \in 1 .. n
      <4>1. i \in 1 .. n BY <2>4, <3>1
      <4>2. decoded[i].frame < decoded[j].frame BY <1>10, <2>4, <3>1, <4>1 DEF VideoInv, DecodedOK
      <4> QED BY <1>11, <3>1, <4>1, <4>2
    <3>2. CASE j = n + 1
      <4>1. i \in 1 .. n BY <2>4, <3>2
      <4> QED BY <1>11, <1>12, <1>15, <3>2, <4>1
    <3>3. j \in 1 .. n \/ j = n + 1 BY <2>4
    <3> QED BY <3>1, <3>2, <3>3, Zenon
  <2> QED BY <1>1, <1>11, <2>1, <2>2, <2>3, <2>4 DEF DecodedOK, ChainOf
<1>17. WaitsOK' BY <1>4, <1>6 DEF WaitsOK
<1>18. GapsCovered'
  <2>1. PICK gap : gap = (IF decoded = <<>> THEN 0 ELSE decoded[Len(decoded)].frame) + 1 .. f - 1 OBVIOUS
  <2>2. \/ frames[f].idr
        \/ decoded # <<>> /\ gap = {}
        \/ gap # {} /\ ~ strict /\ gap \subseteq UNION {r[1] .. r[2] : r \in reported'}
    BY <1>3, <1>4, <1>6, <2>1, GapCovered
  <2>3. decoded = <<>> <=> n = 0 BY <1>10
  <2>4. gap = (IF n + 1 = 1 THEN 0 ELSE decoded'[n].frame) + 1 .. f - 1
    <3>1. CASE n = 0 BY <2>1, <2>3, <3>1
    <3>2. CASE n # 0
      <4>1. decoded'[n] = decoded[Len(decoded)] BY <1>10, <1>11, <3>2
      <4>2. n + 1 # 1 /\ decoded # <<>> BY <2>3, <3>2
      <4>3. gap = decoded'[n].frame + 1 .. f - 1 BY <2>1, <4>1, <4>2
      <4> QED BY <4>2, <4>3
    <3> QED BY <3>1, <3>2
  <2>5. gap = Gap(decoded', n + 1) /\ frames[decoded'[n + 1].frame] = frames[f]
    BY <1>11, <1>12, <2>4 DEF Gap
  <2>6. Covered(decoded', n + 1, reported') BY <2>2, <2>3, <2>5 DEF Covered
  <2> QED BY <1>1, <1>10, <1>11, <2>6, GapsLonger DEF VideoInv
<1> QED BY <1>2, <1>13, <1>14, <1>16, <1>17, <1>18 DEF VideoInv

-----------------------------------------------------------------------------
LEMMA VideoInvInit == VideoInit => VideoInv
<1> SUFFICES ASSUME VideoInit PROVE VideoInv
  OBVIOUS
<1>1. StreamOK BY StreamInOrder
<1>2. stream \in Seq(VideoPacket) BY <1>1 DEF StreamOK, FramesInOrder
<1>3. PICK from \in FirstIndexes : v = NewVideo(from) BY DEF VideoInit
<1>4. from \in 0 .. IndexMod - 1 /\ NumFrames \in Nat BY VideoAssumption
<1>5. <<>> \in Seq(VideoPacket) /\ <<>> \in Seq(DecodedFrame) OBVIOUS
<1>6. /\ v \in Globals /\ v.lastPacketInStream = from - 1 /\ v.nextFrameNumber = 1
      /\ v.startFrameNumber = 0 /\ ~ v.decodingFrame /\ v.waitingForIdrFrame /\ v.chain = <<>>
  BY <1>3, <1>4, <1>5 DEF NewVideo, Globals
<1>7. strict \in BOOLEAN /\ latest = 0 /\ decoded = <<>> BY DEF VideoInit
<1>8. GlobalsOK
  <2>1. v.lastPacketInStream \in -1 .. IndexMod - 1 BY <1>4, <1>6, HalfFacts
  <2>2. v.nextFrameNumber \in 1 .. NumFrames + 1 BY <1>4, <1>6
  <2>3. latest \in 0 .. Len(stream) BY <1>2, <1>7
  <2> QED BY <1>6, <1>7, <2>1, <2>2, <2>3 DEF GlobalsOK
<1>9. ChainOK BY <1>6 DEF ChainOK
<1>10. DecodedOK BY <1>5, <1>6, <1>7 DEF DecodedOK
<1>11. WaitsOK BY <1>6 DEF WaitsOK
<1>12. GapsCovered BY <1>7 DEF GapsCovered
<1> QED BY <1>1, <1>8, <1>9, <1>10, <1>11, <1>12 DEF VideoInv

\* A packet taken in that ends its frame.
LEMMA EndKeeps ==
  ASSUME VideoInv, NEW k, Receives(k), NEW p, p = stream[k], p.eof, NEW q, TakenIn(q, p),
         NEW d, d = EndFrame(q, p),
         reported' = IF Reports(q) THEN reported \cup {<<d.startFrameNumber, d.nextFrameNumber - 1>>}
                                   ELSE reported,
         IF Decodes(d)
           THEN /\ decoded' = Append(decoded, [frame |-> p.frameIndex, chain |-> d.chain])
                /\ v' = Reassembled(d)
           ELSE v' \in dropFrameState(d) /\ UNCHANGED decoded
  PROVE  VideoInv'
<1>1. k \in 1 .. Len(stream) /\ StreamOK BY LatestMoves DEF VideoInv
<1>2. p \in VideoPacket /\ p.frameIndex \in 1 .. NumFrames BY <1>1, PacketFacts
<1>3. q \in Globals BY DEF TakenIn
<1>4. reported \subseteq reported' OBVIOUS
<1>5. q.waitingForNextSuccessfulFrame => <<q.startFrameNumber, p.frameIndex>> \in reported'
  <2>1. d.nextFrameNumber - 1 = p.frameIndex BY <1>2, <1>3, EndFrameNumbers
  <2>2. d.startFrameNumber = q.startFrameNumber BY <1>2, <1>3, EndFrameNumbers
  <2> QED BY <2>1, <2>2 DEF Reports
<1>6. CASE Decodes(d)
  <2>1. DecodedTo(q, d, v', p.frameIndex + 1) BY <1>2, <1>3, <1>6, DecodedToIs
  <2>2. decoded' = Append(decoded, [frame |-> p.frameIndex, chain |-> d.chain]) BY <1>6
  <2> QED BY <1>4, <1>5, <2>1, <2>2, DecodedKeeps
<1>7. CASE ~ Decodes(d)
  <2>1. v' \in dropFrameState(d) /\ decoded' = decoded BY <1>7
  <2>2. NotDecoded(q, v', p.frameIndex + 1) BY <1>2, <1>3, <1>7, <2>1, NotDecodedIs
  <2> QED BY <1>4, <2>1, <2>2, NotDecodedKeeps
<1> QED BY <1>6, <1>7

LEMMA ReceiveKeeps ==
  ASSUME VideoInv, NEW k, Receives(k)
  PROVE  VideoInv'
<1>1. PICK p : p = stream[k] OBVIOUS
<1>2. processRtpPayload(p) BY <1>1 DEF Receives
<1>3. CASE Stale(p)
  <2>1. UNCHANGED <<v, decoded, reported>> BY <1>2, <1>3, Zenon DEF processRtpPayload
  <2> QED BY <1>1, <1>3, <2>1, StaleKeeps
<1>4. CASE ~ Stale(p) /\ ~ Accepts(v, p)
  <2>1. v' \in Rejected(v, p) /\ UNCHANGED <<decoded, reported>>
    BY <1>2, <1>4, Zenon DEF processRtpPayload
  <2> QED BY <1>1, <1>4, <2>1, RejectedKeeps
<1>5. CASE ~ Stale(p) /\ Accepts(v, p)
  <2>1. PICK b \in Begin(v, p) : \E q \in {Queue(b, p)} :
          IF ~ p.eof THEN v' = q /\ UNCHANGED <<decoded, reported>>
          ELSE \E d \in {EndFrame(q, p)} :
            /\ reported' = IF Reports(q)
                             THEN reported \cup {<<d.startFrameNumber, d.nextFrameNumber - 1>>}
                             ELSE reported
            /\ IF Decodes(d)
                 THEN /\ decoded' = Append(decoded, [frame |-> p.frameIndex, chain |-> d.chain])
                      /\ v' = Reassembled(d)
                 ELSE v' \in dropFrameState(d) /\ UNCHANGED decoded
    BY <1>2, <1>5, Zenon DEF processRtpPayload
  <2>2. PICK q \in {Queue(b, p)} :
          IF ~ p.eof THEN v' = q /\ UNCHANGED <<decoded, reported>>
          ELSE \E d \in {EndFrame(q, p)} :
            /\ reported' = IF Reports(q)
                             THEN reported \cup {<<d.startFrameNumber, d.nextFrameNumber - 1>>}
                             ELSE reported
            /\ IF Decodes(d)
                 THEN /\ decoded' = Append(decoded, [frame |-> p.frameIndex, chain |-> d.chain])
                      /\ v' = Reassembled(d)
                 ELSE v' \in dropFrameState(d) /\ UNCHANGED decoded
    BY <2>1, Zenon
  <2>3. q = Queue(b, p) BY <2>2
  <2>4. TakenIn(q, p) BY <1>1, <1>5, <2>1, <2>3, Taken
  <2>5. CASE ~ p.eof
    <3>1. v' = q /\ UNCHANGED <<decoded, reported>> BY <2>2, <2>5, Zenon
    <3> QED BY <1>1, <2>4, <2>5, <3>1, TakenKeeps
  <2>6. CASE p.eof
    <3>1. PICK d \in {EndFrame(q, p)} :
            /\ reported' = IF Reports(q)
                             THEN reported \cup {<<d.startFrameNumber, d.nextFrameNumber - 1>>}
                             ELSE reported
            /\ IF Decodes(d)
                 THEN /\ decoded' = Append(decoded, [frame |-> p.frameIndex, chain |-> d.chain])
                      /\ v' = Reassembled(d)
                 ELSE v' \in dropFrameState(d) /\ UNCHANGED decoded
      BY <2>2, <2>6, Zenon
    <3>2. d = EndFrame(q, p) BY <3>1
    <3> QED BY <1>1, <2>4, <2>6, <3>1, <3>2, EndKeeps
  <2> QED BY <2>5, <2>6
<1> QED BY <1>3, <1>4, <1>5

\* What the theorems ask of the network: either the stream is short enough for its indexes not
\* to come round, or no more than half the range of a short is lost on end.  The code tells
\* packets by their indexes only, and would take one that is 2^24 later for the next.
NoLongOutage == Len(stream) <= IndexMod \/ latest' <= latest + Half

LEMMA VideoInvNext == VideoInv /\ [VideoNext]_videoVars /\ NoLongOutage => VideoInv'
<1> SUFFICES ASSUME VideoInv, [VideoNext]_videoVars, NoLongOutage PROVE VideoInv'
  OBVIOUS
<1>1. CASE UNCHANGED videoVars
  <2>1. /\ frames' = frames /\ stream' = stream /\ strict' = strict /\ v' = v
        /\ latest' = latest /\ decoded' = decoded /\ reported' = reported
    BY <1>1 DEF videoVars
  <2>2. StreamOK' BY <2>1, StreamKept DEF VideoInv
  <2>3. GlobalsOK' BY <2>1 DEF VideoInv, GlobalsOK
  <2>4. ChainOK' BY <2>1 DEF VideoInv, ChainOK, At, ChainOf
  <2>5. DecodedOK' BY <2>1 DEF VideoInv, DecodedOK, ChainOf
  <2>6. WaitsOK' BY <2>1 DEF VideoInv, WaitsOK, DecodesIdr
  <2>7. GapsCovered' BY <2>1 DEF VideoInv, GapsCovered
  <2> QED BY <2>2, <2>3, <2>4, <2>5, <2>6, <2>7 DEF VideoInv
<1>2. CASE VideoNext
  <2>1. PICK k \in DOMAIN stream :
          /\ k >= latest - Window /\ processRtpPayload(stream[k])
          /\ latest' = IF k > latest THEN k ELSE latest
          /\ UNCHANGED <<frames, stream, strict>>
    BY <1>2 DEF VideoNext, ReceivePacket
  <2>2. DOMAIN stream = 1 .. Len(stream) BY DEF VideoInv, StreamOK, FramesInOrder
  <2>3. Receives(k) BY <2>1, <2>2 DEF Receives, NoLongOutage
  <2> QED BY <2>3, ReceiveKeeps
<1> QED BY <1>1, <1>2

\* The invariant says more than the properties the run checks.
LEMMA VideoInvWhole == VideoInv => FramesWhole
<1> SUFFICES ASSUME VideoInv PROVE FramesWhole
  OBVIOUS
<1>1. VideoTypeOK
  <2>1. NumFrames \in Nat BY VideoAssumption
  <2>2. /\ v.nextFrameNumber \in 1 .. NumFrames + 1 /\ v.startFrameNumber \in Nat
        /\ v.startFrameNumber <= v.nextFrameNumber
    BY DEF VideoInv, GlobalsOK, Globals, DecodedOK
  <2>3. v.nextFrameNumber \in 0 .. NumFrames + 2 /\ v.startFrameNumber \in 0 .. NumFrames + 2
    BY <2>1, <2>2
  <2>4. /\ v.decodingFrame \in BOOLEAN /\ v.waitingForNextSuccessfulFrame \in BOOLEAN
        /\ v.waitingForIdrFrame \in BOOLEAN /\ strict \in BOOLEAN
    BY DEF VideoInv, GlobalsOK, Globals
  <2>5. v.lastPacketInStream \in -1 .. IndexMod - 1 /\ latest \in 0 .. Len(stream)
    BY DEF VideoInv, GlobalsOK
  <2> QED BY <2>3, <2>4, <2>5 DEF VideoTypeOK
<1>2. decoded \in Seq(DecodedFrame) /\ DOMAIN decoded = 1 .. Len(decoded)
  BY DEF VideoInv, DecodedOK
<1>3. ASSUME NEW n \in DOMAIN decoded
      PROVE  /\ [k \in DOMAIN decoded[n].chain |-> decoded[n].chain[k].part]
                  = [k \in 1 .. frames[decoded[n].frame].data |-> k]
             /\ \A k \in DOMAIN decoded[n].chain : decoded[n].chain[k].frameIndex = decoded[n].frame
  <2>1. PICK ch \in Seq(VideoPacket) : ch = decoded[n].chain
    <3>1. PICK x \in DecodedFrame : x = decoded[n] BY <1>2, <1>3, DecodedElement
    <3>2. x.chain \in Seq(VideoPacket) BY DEF DecodedFrame
    <3> QED BY <3>1, <3>2
  <2>2. PICK m : m = frames[decoded[n].frame].data OBVIOUS
  <2>3. PICK f : f = decoded[n].frame OBVIOUS
  <2>4. ChainOf(ch, f, m) BY <1>2, <1>3, <2>1, <2>2, <2>3 DEF VideoInv, DecodedOK
  <2>5. DOMAIN ch = 1 .. m /\ \A k \in 1 .. m : ch[k].part = k /\ ch[k].frameIndex = f
    BY <2>4 DEF ChainOf
  <2>6. [k \in DOMAIN ch |-> ch[k].part] = [k \in 1 .. m |-> k] BY <2>5
  <2>7. \A k \in DOMAIN ch : ch[k].frameIndex = f BY <2>5
  <2> QED BY <2>1, <2>2, <2>3, <2>6, <2>7
<1>4. \A m, n \in DOMAIN decoded : m < n => decoded[m].frame < decoded[n].frame
  BY <1>2 DEF VideoInv, DecodedOK
<1> QED BY <1>1, <1>3, <1>4 DEF FramesWhole

LEMMA VideoInvAlways == Spec /\ [][NoLongOutage]_vars => []VideoInv
<1>1. Init => VideoInv BY VideoInvInit DEF Init
<1>2. VideoInv /\ [Next]_vars /\ [NoLongOutage]_vars => VideoInv'
  <2>1. [Next]_vars => [VideoNext]_videoVars BY DEF Next, vars
  <2>2. CASE NoLongOutage BY <2>1, <2>2, VideoInvNext
  <2>3. CASE UNCHANGED vars
    <3>1. UNCHANGED videoVars BY <2>3 DEF vars
    <3>2. VideoInv => NoLongOutage
      <4>1. latest' = latest BY <3>1 DEF videoVars
      <4> QED BY <4>1, HalfFacts DEF NoLongOutage, VideoInv, GlobalsOK
    <3> QED BY <2>1, <3>2, VideoInvNext
  <2> QED BY <2>2, <2>3
<1> QED BY <1>1, <1>2, PTL DEF Spec

\* Whatever the network loses, repeats or delays, for any frames and any numbers of their
\* packets: the decoder gets whole frames, in order and none twice (processRtpPayload of v357).
THEOREM FramesKept == Spec /\ [][NoLongOutage]_vars => []FramesWhole
BY VideoInvAlways, VideoInvWhole, PTL

\* Before each of them nothing is missing, or it is an IDR frame, or the server has been told
\* of everything that is (the waits of dropFrameState and processRtpPayload of v357).
THEOREM GapsKnown == Spec /\ [][NoLongOutage]_vars => []GapsCovered
<1>1. VideoInv => GapsCovered BY DEF VideoInv
<1> QED BY <1>1, VideoInvAlways, PTL

=============================================================================
