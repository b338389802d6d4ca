-------------------------- MODULE SchemeMarkProofs --------------------------
(***************************************************************************)
(* The marking restores the heap and marks what the roots reach, whatever  *)
(* the heap is: proofs.                                                    *)
(***************************************************************************)
EXTENDS SchemeMarkProps, FiniteSetTheorems, SequenceTheorems, TLAPS

\* Cells of the path are distinct, and so is the cell being visited; nothing but a vector
\* leads to its own cells; only an object with links is walked down from.
Shape(path) ==
    /\ \A j, k \in 1..Len(path) : path[j] = path[k] => j = k
    /\ pc = "gc" => path = <<>>
    /\ Len(path) > 0 => path[1] \notin Inner(vlen)
    /\ pc \notin {"gc", "vector"} =>
          /\ p \in Cells /\ \A k \in 1..Len(path) : path[k] # p
          /\ path = <<>> => p \notin Inner(vlen)
    /\ pc \in {"E4", "E5"} => p \notin atoms /\ vlen[p] = 0

\* What is marked and not on the path is done with: its children are marked.  Of an object on
\* the path that is so for what comes before the link, or the cell, that was followed.
Closed(path) ==
    /\ \A k \in 1..Len(path) :
          /\ path[k] \in marks
          /\ vlen[path[k]] = 0 /\ path[k] \notin atoms => heap0.car[path[k]] \in marks
    /\ \A m \in marks : (\A k \in 1..Len(path) : path[k] # m) /\ (pc \in {"gc", "vector"} \/ m # p) =>
          Children(heap0, m) \subseteq marks
    /\ \A n \in 1..Len(calls) : \A i \in 1..calls[n].i :
          calls[n].p + i \in marks \/ (pc = "E2" /\ calls[n].p + i = p)
    /\ pc \in {"E4", "E5", "E6"} => p \in marks
    /\ pc = "E5" => heap0.car[p] \in marks
    /\ pc = "E6" => Children(heap0, p) \subseteq marks
    /\ \A i \in DOMAIN heap0.roots :
          \/ heap0.roots[i] \in marks
          \/ pc = "E2" /\ p = heap0.roots[i]
          \/ \E j \in DOMAIN todo : todo[j] = heap0.roots[i]

\* Only what the roots reach is visited.
Reached ==
    /\ marks \subseteq Reach(heap0, Roots(heap0))
    /\ pc \notin {"gc", "vector"} => p \in Reach(heap0, Roots(heap0))
    /\ \A j \in DOMAIN todo : todo[j] \in Roots(heap0)

On(path) == Shape(path) /\ Restores(path) /\ Frames(path) /\ Closed(path)

Inv ==
    /\ TypeOK
    /\ heap0 \in Heaps /\ vlen = heap0.vlen
    /\ Reached
    /\ \E path \in Seq(Cells) : On(path)

-----------------------------------------------------------------------------
(***************************************************************************)
(* The heap, what can be reached in it, and paths.                         *)
(***************************************************************************)

LEMMA HeapFacts ==
    ASSUME NEW h \in Heaps
    PROVE  /\ h.car \in [Cells -> Cells] /\ h.cdr \in [Cells -> Cells]
           /\ h.atoms \in SUBSET Cells /\ h.vlen \in [Cells -> Nat]
           /\ h.roots \in Seq(Cells)
           /\ WellFormed(h)
BY HeapsAssumption

\* Vectors do not overlap: a cell inside one is inside no other.
LEMMA VectorsApart ==
    ASSUME NEW h \in Heaps, NEW v \in Cells, NEW w \in Cells,
           NEW i \in 1..h.vlen[v], NEW j \in 1..h.vlen[w], v + i = w + j
    PROVE  v = w /\ i = j
<1>1. h.vlen \in [Cells -> Nat] /\ WellFormed(h) /\ Cells \subseteq Nat
  BY HeapFacts, CellsAssumption
<1>2. h.vlen[v] \in Nat /\ h.vlen[w] \in Nat /\ v \in Nat /\ w \in Nat
  BY <1>1
<1>3. h.vlen[v] > 0 /\ h.vlen[w] > 0
  BY <1>2
<1>4. v \in h.atoms /\ w \in h.atoms
      /\ (v + 1)..(v + h.vlen[v]) \subseteq Cells \ h.atoms
      /\ (w + 1)..(w + h.vlen[w]) \subseteq Cells \ h.atoms
  BY <1>1, <1>3 DEF WellFormed
<1>5. ~ (v < w)
  <2>1. v < w => w \in (v + 1)..(v + h.vlen[v])
    BY <1>2
  <2> QED BY <2>1, <1>4
<1>6. ~ (w < v)
  <2>1. w < v => v \in (w + 1)..(w + h.vlen[w])
    BY <1>2
  <2> QED BY <2>1, <1>4
<1> QED BY <1>2, <1>5, <1>6

\* The cells of a vector.
LEMMA VectorCells ==
    ASSUME NEW h \in Heaps, NEW v \in Cells, NEW i \in 1..h.vlen[v]
    PROVE  v + i \in Cells /\ v + i \in Inner(h.vlen)
<1>1. h.vlen \in [Cells -> Nat] /\ WellFormed(h) /\ Cells \subseteq Nat
  BY HeapFacts, CellsAssumption
<1>2. h.vlen[v] \in Nat /\ v \in Nat /\ h.vlen[v] > 0
  BY <1>1
<1>3. v + i \in (v + 1)..(v + h.vlen[v]) /\ v < v + i /\ v + i <= v + h.vlen[v]
  BY <1>2
<1>4. v + i \in Cells
  BY <1>1, <1>2, <1>3 DEF WellFormed
<1> QED BY <1>3, <1>4 DEF Inner

LEMMA ChildrenAreCells ==
    ASSUME NEW h \in Heaps, NEW c \in Cells
    PROVE  Children(h, c) \subseteq Cells
<1>1. h.vlen \in [Cells -> Nat] /\ WellFormed(h)
      /\ h.car \in [Cells -> Cells] /\ h.cdr \in [Cells -> Cells]
  BY HeapFacts
<1>2. CASE h.vlen[c] > 0
  BY <1>1, <1>2 DEF Children, WellFormed
<1>3. CASE ~ (h.vlen[c] > 0)
  BY <1>1, <1>3 DEF Children
<1> QED BY <1>2, <1>3

LEMMA RootsAreCells == ASSUME NEW h \in Heaps PROVE Roots(h) \subseteq Cells
BY HeapFacts DEF Roots

LEMMA ReachFacts ==
    ASSUME NEW h \in Heaps
    PROVE  LET R == Reach(h, Roots(h)) IN
           /\ R \subseteq Cells /\ Roots(h) \subseteq R
           /\ \A c \in R : Children(h, c) \subseteq R
           /\ \A S \in SUBSET Cells :
                 Roots(h) \subseteq S /\ (\A d \in S : Children(h, d) \subseteq S) => R \subseteq S
<1>1. Reach(h, Roots(h)) \subseteq Cells /\ Roots(h) \subseteq Reach(h, Roots(h))
  BY RootsAreCells DEF Reach
<1>2. ASSUME NEW c \in Reach(h, Roots(h)), NEW d \in Children(h, c) PROVE d \in Reach(h, Roots(h))
  <2>1. d \in Cells
    BY <1>1, ChildrenAreCells
  <2>2. ASSUME NEW S \in SUBSET Cells,
               Roots(h) \subseteq S /\ (\A x \in S : Children(h, x) \subseteq S)
        PROVE  d \in S
    BY <2>2 DEF Reach
  <2> QED BY <2>1, <2>2 DEF Reach
<1>3. ASSUME NEW S \in SUBSET Cells,
             Roots(h) \subseteq S /\ (\A d \in S : Children(h, d) \subseteq S)
      PROVE  Reach(h, Roots(h)) \subseteq S
  BY <1>3 DEF Reach
<1> QED BY <1>1, <1>2, <1>3

LEMMA Longer ==
    ASSUME NEW path \in Seq(Cells), NEW c \in Cells
    PROVE  \E q \in Seq(Cells) :
              /\ Len(q) = Len(path) + 1 /\ q[Len(path) + 1] = c
              /\ \A k \in 1..Len(path) : q[k] = path[k]
<1>1. Append(path, c) \in Seq(Cells) /\ Len(Append(path, c)) = Len(path) + 1
      /\ Append(path, c)[Len(path) + 1] = c
      /\ \A k \in 1..Len(path) : Append(path, c)[k] = path[k]
  OBVIOUS
<1> QED BY <1>1

LEMMA CutFacts ==
    ASSUME NEW S, NEW s \in Seq(S), Len(s) > 0
    PROVE  /\ SubSeq(s, 1, Len(s) - 1) \in Seq(S)
           /\ Len(SubSeq(s, 1, Len(s) - 1)) = Len(s) - 1
           /\ \A k \in 1..(Len(s) - 1) : SubSeq(s, 1, Len(s) - 1)[k] = s[k]
<1>1. PICK i \in 1..Len(s) : i = Len(s)
  OBVIOUS
<1>2. /\ SubSeq(s, 1, i - 1) \in Seq(S) /\ Len(SubSeq(s, 1, i - 1)) = i - 1
      /\ \A j \in 1..(i - 1) : SubSeq(s, 1, i - 1)[j] = s[j]
  BY <1>1, SubSeqProperties
<1> QED BY <1>1, <1>2

LEMMA Shorter ==
    ASSUME NEW path \in Seq(Cells), Len(path) > 0
    PROVE  \E q \in Seq(Cells) :
              /\ Len(q) = Len(path) - 1
              /\ \A k \in 1..Len(q) : q[k] = path[k]
<1> DEFINE q == SubSeq(path, 1, Len(path) - 1)
<1>1. q \in Seq(Cells) /\ Len(q) = Len(path) - 1 /\ \A k \in 1..(Len(path) - 1) : q[k] = path[k]
  BY CutFacts
<1> HIDE DEF q
<1> QED BY <1>1

\* No more cells than there are fit on a path.
LEMMA PathIsShort ==
    ASSUME NEW path \in Seq(Cells), \A j, k \in 1..Len(path) : path[j] = path[k] => j = k
    PROVE  path \in Paths
<1>1. IsFiniteSet(Cells)
  BY CellsAssumption
<1>2. Len(path) \in Nat /\ path \in [1..Len(path) -> Cells]
  OBVIOUS
<1>3. path \in Injection(1..Len(path), Cells)
  BY <1>2 DEF Injection, IsInjective
<1>4. Cardinality(1..Len(path)) <= Cardinality(Cells)
  BY <1>1, <1>3, FS_Injection
<1>5. Cardinality(1..Len(path)) = Len(path)
  <2>1. ASSUME NEW n \in Nat PROVE Cardinality(1..n) = n
    <3>1. 1 \in Int /\ n \in Int
      OBVIOUS
    <3>2. Cardinality(1..n) = IF 1 > n THEN 0 ELSE n - 1 + 1
      BY <3>1, FS_Interval
    <3>3. 1 > n => n = 0
      OBVIOUS
    <3>4. n - 1 + 1 = n
      OBVIOUS
    <3> QED BY <3>2, <3>3, <3>4
  <2> QED BY <2>1, <1>2
<1>6. Cardinality(Cells) \in Nat
  BY <1>1, FS_CardinalityType
<1>7. Len(path) \in 0..Cardinality(Cells)
  BY <1>2, <1>4, <1>5, <1>6
<1> QED BY <1>2, <1>7 DEF Paths

-----------------------------------------------------------------------------
(***************************************************************************)
(* The steps.                                                              *)
(***************************************************************************)

LEMMA Basics ==
    ASSUME Inv
    PROVE  /\ heap0 \in Heaps /\ vlen = heap0.vlen /\ vlen \in [Cells -> Nat]
           /\ car \in [Cells -> Cells \union {Null}] /\ cdr \in [Cells -> Cells \union {Null}]
           /\ heap0.car \in [Cells -> Cells] /\ heap0.cdr \in [Cells -> Cells]
           /\ heap0.atoms \subseteq Cells /\ atoms \subseteq Cells /\ marks \subseteq Cells
           /\ Null \notin Cells /\ \A c \in Cells : c # Null
           /\ calls \in Seq(Call) /\ todo \in Seq(Cells)
           /\ \A n \in 1..Len(calls) : calls[n] \in Call
           /\ p \in Cells \union {Null} /\ t \in Cells \union {Null}
<1>1. Cells \subseteq Cells \union {Null} /\ Null \notin Cells
  BY CellsAssumption DEF Null
<1>2. \A link \in {car, cdr} : link \in [Cells -> Cells \union {Null}]
  BY <1>1 DEF Inv, TypeOK
<1> QED BY <1>1, <1>2, HeapFacts DEF Inv, TypeOK

\* The k-th cell of a path was reached from the same cell as long as the one before it is.
LEMMA FromKept ==
    ASSUME NEW path, NEW q, NEW k \in Nat \ {0}, k > 1 => q[k - 1] = path[k - 1], vlen' = vlen
    PROVE  From(q, k)' = From(path, k)
BY DEF From

\* A path that grows by p keeps the cells its cells were left for.
LEMMA AfterKept ==
    ASSUME NEW path \in Seq(Cells), NEW q \in Seq(Cells), NEW k \in 1..Len(path),
           Len(q) = Len(path) + 1, q[Len(path) + 1] = p,
           \A j \in 1..Len(path) : q[j] = path[j]
    PROVE  After(q, k)' = After(path, k)
<1>1. k < Len(q) /\ (k < Len(path) => k + 1 \in 1..Len(path))
      /\ (~ (k < Len(path)) => k + 1 = Len(path) + 1)
  OBVIOUS
<1>2. After(q, k)' = q[k + 1]
  BY <1>1 DEF After
<1>3. CASE k < Len(path)
  <2>1. After(path, k) = path[k + 1]
    BY <1>3 DEF After
  <2> QED BY <2>1, <1>1, <1>2, <1>3
<1>4. CASE ~ (k < Len(path))
  <2>1. After(path, k) = p
    BY <1>4 DEF After
  <2>2. q[k + 1] = p
    BY <1>1, <1>4
  <2> QED BY <2>1, <2>2, <1>2
<1> QED BY <1>3, <1>4

\* A root is where a path begins: no call is under way.
LEMMA NextRootOn ==
    ASSUME Inv, NEW path \in Seq(Cells), On(path), NextRoot
    PROVE  On(path)' /\ p' \in Reach(heap0, Roots(heap0))
<1>1. path = <<>> /\ Len(path) = 0 /\ pc = "gc"
  BY DEF On, Shape, NextRoot
<1>2. todo \in Seq(Cells) /\ todo # <<>> /\ p' = todo[1] /\ p' \in Cells
  BY Basics DEF NextRoot
<1>3. p' \in Roots(heap0)
  BY <1>2 DEF Inv, Reached
<1>4. heap0 \in Heaps /\ WellFormed(heap0) /\ vlen = heap0.vlen
  BY Basics, HeapFacts
<1>5. p' \notin Inner(vlen)
  BY <1>3, <1>4 DEF WellFormed, Roots
<1>6. Shape(path)'
  BY <1>1, <1>2, <1>5 DEF Shape, NextRoot, Inner
<1>7. Restores(path)'
  BY <1>1 DEF Restores, NextRoot, On, From
<1>8. Len(calls) = 0
  <2>1. Len(calls) \in Nat
    BY Basics
  <2>2. \A n \in 1..Len(calls) : FALSE
    BY <1>1 DEF On, Frames, FramesFit
  <2> QED BY <2>1, <2>2
<1>9. Frames(path)'
  BY <1>1, <1>8 DEF Frames, FramesFound, FramesFit, FramesInOrder, NextRoot
<1>10. Closed(path)'
  <2>1. \A m \in marks : Children(heap0, m) \subseteq marks
    BY <1>1 DEF On, Closed
  <2>2. ASSUME NEW i \in DOMAIN heap0.roots
        PROVE  \/ heap0.roots[i] \in marks \/ p' = heap0.roots[i]
               \/ \E j \in DOMAIN todo' : todo'[j] = heap0.roots[i]
    <3>1. heap0.roots[i] \in marks \/ \E j \in DOMAIN todo : todo[j] = heap0.roots[i]
      BY <1>1 DEF On, Closed
    <3>2. ASSUME NEW j \in DOMAIN todo, todo[j] = heap0.roots[i], j # 1
          PROVE  \E k \in DOMAIN todo' : todo'[k] = heap0.roots[i]
      <4>1. todo' = Tail(todo) /\ j - 1 \in DOMAIN Tail(todo) /\ Tail(todo)[j - 1] = todo[j]
        BY <1>2, <3>2 DEF NextRoot
      <4> QED BY <4>1, <3>2
    <3> QED BY <3>1, <3>2, <1>2
  <2> QED BY <2>1, <2>2, <1>1, <1>8 DEF Closed, NextRoot
<1>11. p' \in Reach(heap0, Roots(heap0))
  BY <1>3, <1>4, ReachFacts
<1> QED BY <1>6, <1>7, <1>9, <1>10, <1>11 DEF On

\* A vector is put on the path and its cells are to be marked by calls.
LEMMA VisitVectorOn ==
    ASSUME Inv, NEW path \in Seq(Cells), On(path), Visit, vlen[p] > 0
    PROVE  \E q \in Seq(Cells) : On(q)'
<1> DEFINE L == Len(path)
           N == Len(calls)
<1>1. pc = "E2" /\ pc' = "vector" /\ marks' = marks \union {p}
      /\ calls' = Append(calls, [p |-> p, t |-> t, i |-> 0])
      /\ UNCHANGED <<car, cdr, atoms, vlen, p, t, todo, heap0>>
  BY DEF Visit
<1>2. p \in Cells /\ \A k \in 1..L : path[k] # p
  BY <1>1 DEF On, Shape
<1>3. PICK q \in Seq(Cells) :
         Len(q) = L + 1 /\ q[L + 1] = p /\ \A k \in 1..L : q[k] = path[k]
  BY <1>2, Longer
<1>4. L \in Nat /\ N \in Nat /\ Len(calls') = N + 1
      /\ calls'[N + 1] = [p |-> p, t |-> t, i |-> 0] /\ \A n \in 1..N : calls'[n] = calls[n]
  BY <1>1, Basics
<1>5. \A k \in 1..Len(q) : k \in 1..L \/ k = L + 1
  BY <1>3, <1>4
<1>6. \A k \in 1..L : From(q, k)' = From(path, k) /\ After(q, k)' = After(path, k)
  <2>1. ASSUME NEW k \in 1..L PROVE From(q, k)' = From(path, k)
    <3>1. k \in Nat \ {0} /\ (k > 1 => k - 1 \in 1..L)
      BY <1>4
    <3>2. k > 1 => q[k - 1] = path[k - 1]
      BY <3>1, <1>3
    <3> QED BY <3>1, <3>2, <1>1, FromKept
  <2>2. ASSUME NEW k \in 1..L PROVE After(q, k)' = After(path, k)
    BY  <1>3, <1>4, AfterKept
  <2> QED BY <2>1, <2>2
<1>7. From(q, L + 1)' = t
  <2>1. From(q, L + 1)' = From(path, L + 1)
    <3>1. L + 1 \in Nat \ {0} /\ L + 1 - 1 = L /\ (L + 1 > 1 => L \in 1..L)
      BY <1>4
    <3>2. L + 1 > 1 => q[L + 1 - 1] = path[L + 1 - 1]
      BY <3>1, <1>3
    <3> QED BY <3>1, <3>2, <1>1, FromKept
  <2> QED BY <2>1, <1>1 DEF On, Restores
<1>8. Shape(q)'
  <2>1. \A j, k \in 1..Len(q) : q[j] = q[k] => j = k
    BY <1>2, <1>3, <1>5 DEF On, Shape
  <2>2. q[1] \notin Inner(vlen)
    <3>1. CASE L = 0
      <4>1. path = <<>>
        BY <3>1
      <4> QED BY <4>1, <3>1, <1>1, <1>3 DEF On, Shape
    <3>2. CASE L > 0
      BY <3>2, <1>3, <1>4 DEF On, Shape
    <3> QED BY <3>1, <3>2, <1>4
  <2>3. Inner(vlen)' = Inner(vlen)
    BY <1>1 DEF Inner
  <2> QED BY <2>1, <2>2, <2>3, <1>1 DEF Shape
<1>9. Restores(q)'
  <2>1. ASSUME NEW c \in Cells, vlen[c] > 0 \/ (\A k \in 1..Len(q) : q[k] # c)
        PROVE  car[c] = heap0.car[c] /\ cdr[c] = heap0.cdr[c] /\ (c \in atoms <=> c \in heap0.atoms)
    <3>1. vlen[c] > 0 \/ (\A k \in 1..L : path[k] # c)
      BY <2>1, <1>3, <1>4
    <3> QED BY <3>1 DEF On, Restores
  <2>2. ASSUME NEW k \in 1..Len(q), vlen[q[k]] = 0
        PROVE  k \in 1..L /\ q[k] = path[k]
    <3>1. vlen[p] # 0
      BY <1>2, Basics
    <3> QED BY <3>1, <2>2, <1>3, <1>5
  <2>3. \A k \in 1..L : vlen[path[k]] = 0 =>
          /\ path[k] \notin heap0.atoms
          /\ path[k] \in atoms =>
                /\ car[path[k]] = From(path, k) /\ heap0.car[path[k]] = After(path, k)
                /\ cdr[path[k]] = heap0.cdr[path[k]]
          /\ path[k] \notin atoms =>
                /\ cdr[path[k]] = From(path, k) /\ heap0.cdr[path[k]] = After(path, k)
                /\ car[path[k]] = heap0.car[path[k]]
    BY DEF On, Restores
  <2> QED BY <2>1, <2>2, <2>3, <1>1, <1>6 DEF Restores
<1>10. Frames(q)'
  <2>1. ASSUME NEW k \in 1..Len(q), vlen[q[k]] > 0
        PROVE  \E n \in 1..Len(calls') : calls'[n].p = q[k]
    <3>1. CASE k \in 1..L
      <4>1. PICK n \in 1..N : calls[n].p = path[k]
        BY <3>1, <2>1, <1>3 DEF On, Frames, FramesFound
      <4> QED BY <4>1, <3>1, <1>3, <1>4
    <3>2. CASE k = L + 1
      BY <3>2, <1>3, <1>4
    <3> QED BY <3>1, <3>2, <1>5
  <2>2. \A n \in 1..N : \E k \in 1..L :
          /\ calls[n].p = path[k] /\ vlen[path[k]] > 0
          /\ calls[n].t = From(path, k) /\ calls[n].i <= vlen[path[k]]
          /\ calls[n].i > 0 /\ After(path, k) = path[k] + calls[n].i
    BY <1>1 DEF On, Frames, FramesFit
  <2>3. ASSUME NEW n \in 1..Len(calls')
        PROVE  \E k \in 1..Len(q) :
                 /\ calls'[n].p = q[k] /\ vlen[q[k]] > 0
                 /\ calls'[n].t = From(q, k)' /\ calls'[n].i <= vlen[q[k]]
                 /\ k < Len(q) => calls'[n].i > 0 /\ After(q, k)' = q[k] + calls'[n].i
    <3>1. CASE n \in 1..N
      <4>1. PICK k \in 1..L :
               /\ calls[n].p = path[k] /\ vlen[path[k]] > 0
               /\ calls[n].t = From(path, k) /\ calls[n].i <= vlen[path[k]]
               /\ calls[n].i > 0 /\ After(path, k) = path[k] + calls[n].i
        BY <3>1, <2>2
      <4>2. k \in 1..Len(q)
        BY <1>3, <1>4
      <4> QED BY <4>1, <4>2, <3>1, <1>3, <1>4, <1>6
    <3>2. CASE n = N + 1
      <4>1. L + 1 \in 1..Len(q) /\ ~ (L + 1 < Len(q))
        BY <1>3, <1>4
      <4>2. calls'[n].p = q[L + 1] /\ calls'[n].t = From(q, L + 1)' /\ calls'[n].i = 0
        BY <3>2, <1>3, <1>4, <1>7
      <4>3. vlen[q[L + 1]] > 0 /\ 0 <= vlen[q[L + 1]]
        BY <1>2, <1>3, Basics
      <4> QED BY <4>1, <4>2, <4>3
    <3>3. n \in 1..N \/ n = N + 1
      BY <1>4
    <3> QED BY <3>1, <3>2, <3>3
  <2>4. ASSUME NEW m \in 1..Len(calls'), NEW n \in 1..Len(calls'),
               NEW j \in 1..Len(q), NEW k \in 1..Len(q),
               m < n, calls'[m].p = q[j], calls'[n].p = q[k]
        PROVE  j < k
    <3>1. m \in 1..N /\ calls'[m] = calls[m]
      BY <2>4, <1>4
    <3>2. PICK jj \in 1..L : calls[m].p = path[jj]
      BY <3>1, <2>2
    <3>3. j = jj
      <4>1. q[j] = path[jj] /\ q[j] # p
        BY <3>1, <3>2, <2>4, <1>2
      <4>2. j \in 1..L /\ q[j] = path[j]
        BY <4>1, <1>3, <1>5
      <4> QED BY <4>1, <4>2 DEF On, Shape
    <3>4. CASE k = L + 1
      BY <3>3, <3>4, <1>4
    <3>5. CASE k \in 1..L /\ n \in 1..N
      <4>1. calls[m].p = path[j] /\ calls[n].p = path[k] /\ j \in 1..L
        BY <3>1, <3>2, <3>3, <3>5, <2>4, <1>3, <1>4
      <4> QED BY <4>1, <3>1, <3>5, <2>4 DEF On, Frames, FramesInOrder
    <3>6. CASE k \in 1..L /\ n = N + 1
      BY <3>6, <2>4, <1>2, <1>3, <1>4
    <3>7. n \in 1..N \/ n = N + 1
      BY <1>4
    <3> QED BY <3>4, <3>5, <3>6, <3>7, <1>5
  <2>5. q # <<>> /\ vlen[q[Len(q)]] > 0
    BY <1>3, <1>4
  <2>6. FramesFound(q)'
    BY <2>1, <1>1 DEF FramesFound
  <2>7. FramesFit(q)'
    BY <2>3, <1>1 DEF FramesFit
  <2>8. FramesInOrder(q)'
    BY <2>4 DEF FramesInOrder
  <2> QED BY <2>5, <2>6, <2>7, <2>8, <1>1 DEF Frames
<1>11. Closed(q)'
  <2>1. \A k \in 1..Len(q) : q[k] \in marks'
    BY <1>1, <1>3, <1>5 DEF On, Closed
  <2>2. ASSUME NEW k \in 1..Len(q), vlen[q[k]] = 0, q[k] \notin atoms PROVE heap0.car[q[k]] \in marks'
    <3>1. vlen[p] # 0
      BY <1>2, Basics
    <3>2. k \in 1..L /\ q[k] = path[k]
      BY <3>1, <2>2, <1>3, <1>5
    <3> QED BY <3>2, <2>2, <1>1 DEF On, Closed
  <2>3. ASSUME NEW m \in marks', \A k \in 1..Len(q) : q[k] # m
        PROVE  Children(heap0, m) \subseteq marks'
    <3>1. m # p /\ \A k \in 1..L : path[k] # m
      BY <2>3, <1>3, <1>4
    <3> QED BY <3>1, <1>1 DEF On, Closed
  <2>4. ASSUME NEW n \in 1..Len(calls'), NEW i \in 1..calls'[n].i
        PROVE  calls'[n].p + i \in marks'
    <3>1. CASE n \in 1..N
      BY <3>1, <1>1, <1>4 DEF On, Closed
    <3>2. CASE n = N + 1
      BY <3>2, <1>4
    <3> QED BY <3>1, <3>2, <1>4
  <2>5. ASSUME NEW i \in DOMAIN heap0.roots
        PROVE  heap0.roots[i] \in marks' \/ \E j \in DOMAIN todo : todo[j] = heap0.roots[i]
    BY <1>1 DEF On, Closed
  <2> QED BY <2>1, <2>2, <2>3, <2>4, <2>5, <1>1 DEF Closed
<1> QED BY <1>3, <1>8, <1>9, <1>10, <1>11 DEF On

\* The calls under way do not see what happens to objects that are no vectors.
LEMMA FramesKept ==
    ASSUME NEW path \in Seq(Cells), NEW q \in Seq(Cells), Frames(path),
           pc # "vector", pc' # "vector", calls' = calls, vlen' = vlen,
           \A k \in 1..Len(path) : vlen[path[k]] > 0 =>
              /\ k \in 1..Len(q) /\ q[k] = path[k]
              /\ From(q, k)' = From(path, k) /\ After(q, k)' = After(path, k),
           \A k \in 1..Len(q) : vlen[q[k]] > 0 => k \in 1..Len(path) /\ q[k] = path[k]
    PROVE  Frames(q)'
<1>1. \A n \in 1..Len(calls) : \E k \in 1..Len(path) :
          /\ calls[n].p = path[k] /\ vlen[path[k]] > 0
          /\ calls[n].t = From(path, k) /\ calls[n].i <= vlen[path[k]]
          /\ calls[n].i > 0 /\ After(path, k) = path[k] + calls[n].i
  BY DEF Frames, FramesFit
<1>2. ASSUME NEW k \in 1..Len(q), vlen[q[k]] > 0
      PROVE  \E n \in 1..Len(calls) : calls[n].p = q[k]
  BY <1>2 DEF Frames, FramesFound
<1>3. ASSUME NEW n \in 1..Len(calls)
      PROVE  \E k \in 1..Len(q) :
                /\ calls[n].p = q[k] /\ vlen[q[k]] > 0
                /\ calls[n].t = From(q, k)' /\ calls[n].i <= vlen[q[k]]
                /\ calls[n].i > 0 /\ After(q, k)' = q[k] + calls[n].i
  <2>1. PICK k \in 1..Len(path) :
               /\ calls[n].p = path[k] /\ vlen[path[k]] > 0
               /\ calls[n].t = From(path, k) /\ calls[n].i <= vlen[path[k]]
               /\ calls[n].i > 0 /\ After(path, k) = path[k] + calls[n].i
    BY <1>1
  <2>2. /\ k \in 1..Len(q) /\ q[k] = path[k]
        /\ From(q, k)' = From(path, k) /\ After(q, k)' = After(path, k)
    BY <2>1
  <2> QED BY <2>1, <2>2
<1>4. ASSUME NEW m \in 1..Len(calls), NEW n \in 1..Len(calls),
             NEW j \in 1..Len(q), NEW k \in 1..Len(q),
             m < n, calls[m].p = q[j], calls[n].p = q[k]
      PROVE  j < k
  <2>1. vlen[q[j]] > 0 /\ vlen[q[k]] > 0
    BY <1>1, <1>4
  <2>2. /\ j \in 1..Len(path) /\ q[j] = path[j]
        /\ k \in 1..Len(path) /\ q[k] = path[k]
    BY <2>1
  <2> QED BY <2>2, <1>4 DEF Frames, FramesInOrder
<1>5. FramesFound(q)'
  BY <1>2 DEF FramesFound
<1>6. FramesFit(q)'
  BY <1>3 DEF FramesFit
<1>7. FramesInOrder(q)'
  BY <1>4 DEF FramesInOrder
<1> QED BY <1>5, <1>6, <1>7 DEF Frames

\* An atom is left again, an object with links is walked down from.
LEMMA VisitObjectOn ==
    ASSUME Inv, NEW path \in Seq(Cells), On(path), Visit, ~ (vlen[p] > 0)
    PROVE  On(path)'
<1>1. /\ pc = "E2" /\ pc' = IF p \in atoms THEN "E6" ELSE "E4"
      /\ marks' = marks \union {p}
      /\ UNCHANGED <<car, cdr, atoms, vlen, p, t, calls, todo, heap0>>
  BY DEF Visit
<1>2. p \in Cells /\ (\A k \in 1..Len(path) : path[k] # p) /\ vlen[p] = 0
  <2>1. p \in Cells /\ \A k \in 1..Len(path) : path[k] # p
    BY <1>1 DEF On, Shape
  <2> QED BY <2>1, Basics
<1>3. \A k : From(path, k)' = From(path, k) /\ After(path, k)' = After(path, k)
  BY <1>1 DEF From, After
<1>4. Inner(vlen)' = Inner(vlen)
  BY <1>1 DEF Inner
<1>5. Shape(path)'
  BY <1>1, <1>2, <1>4 DEF On, Shape
<1>6. Restores(path)'
  BY <1>1, <1>3 DEF On, Restores
<1>7. Frames(path)'
  <2>1. pc # "vector" /\ pc' # "vector"
    BY <1>1
  <2> QED BY <2>1, <1>1, <1>3, FramesKept DEF On
<1>8. Closed(path)'
  <2>1. ASSUME NEW k \in 1..Len(path)
        PROVE  /\ path[k] \in marks'
               /\ vlen[path[k]] = 0 /\ path[k] \notin atoms => heap0.car[path[k]] \in marks'
    BY <1>1 DEF On, Closed
  <2>2. ASSUME NEW m \in marks', \A k \in 1..Len(path) : path[k] # m, m # p
        PROVE  Children(heap0, m) \subseteq marks'
    BY <2>2, <1>1 DEF On, Closed
  <2>3. ASSUME NEW n \in 1..Len(calls), NEW i \in 1..calls[n].i PROVE calls[n].p + i \in marks'
    BY <1>1 DEF On, Closed
  <2>4. ASSUME p \in atoms PROVE Children(heap0, p) \subseteq marks'
    <3>1. p \in heap0.atoms
      BY <2>4, <1>2 DEF On, Restores
    <3>2. ~ (heap0.vlen[p] > 0)
      BY Basics
    <3> QED BY <3>1, <3>2 DEF Children
  <2>5. ASSUME NEW i \in DOMAIN heap0.roots
        PROVE  heap0.roots[i] \in marks' \/ \E j \in DOMAIN todo : todo[j] = heap0.roots[i]
    BY <1>1 DEF On, Closed
  <2> QED BY <2>1, <2>2, <2>3, <2>4, <2>5, <1>1 DEF Closed
<1> QED BY <1>5, <1>6, <1>7, <1>8 DEF On

\* The object below is marked already, or there is none: the next link is looked at, or the way back.
LEMMA StayOn ==
    ASSUME Inv, NEW path \in Seq(Cells), On(path),
           (DownCar /\ ~ Unvisited(car[p])) \/ (DownCdr /\ ~ Unvisited(cdr[p]))
    PROVE  On(path)'
<1>1. /\ pc \in {"E4", "E5"} /\ pc' = IF pc = "E4" THEN "E5" ELSE "E6"
      /\ UNCHANGED <<car, cdr, atoms, vlen, p, t, calls, todo, heap0, marks>>
  BY DEF DownCar, DownCdr
<1>2. /\ p \in Cells /\ \A k \in 1..Len(path) : path[k] # p
      /\ p \notin atoms /\ vlen[p] = 0 /\ p \in marks
  BY <1>1 DEF On, Shape, Closed
<1>3. car[p] = heap0.car[p] /\ cdr[p] = heap0.cdr[p]
  BY <1>2 DEF On, Restores
<1>4. heap0.car[p] \in marks /\ (pc = "E5" => Children(heap0, p) \subseteq marks)
  <2>1. heap0.car[p] # Null /\ heap0.cdr[p] # Null
    BY <1>2, Basics
  <2>2. CASE pc = "E4"
    BY <2>1, <2>2, <1>3 DEF Unvisited, DownCar, DownCdr
  <2>3. CASE pc = "E5"
    <3>1. heap0.cdr[p] \in marks
      BY <2>1, <2>3, <1>3 DEF Unvisited, DownCar, DownCdr
    <3>2. heap0.car[p] \in marks
      BY <2>3 DEF On, Closed
    <3>3. ~ (heap0.vlen[p] > 0)
      BY <1>2, Basics
    <3> QED BY <3>1, <3>2, <3>3 DEF Children
  <2> QED BY <2>2, <2>3, <1>1
<1>5. \A k : From(path, k)' = From(path, k) /\ After(path, k)' = After(path, k)
  BY <1>1 DEF From, After
<1>6. Shape(path)'
  BY <1>1, <1>2 DEF On, Shape, Inner
<1>7. Restores(path)'
  BY <1>1, <1>5 DEF On, Restores
<1>8. Frames(path)'
  <2>1. pc # "vector" /\ pc' # "vector"
    BY <1>1
  <2> QED BY <2>1, <1>1, <1>5, FramesKept DEF On
<1>9. Closed(path)'
  <2>1. pc \notin {"E2", "gc", "vector"} /\ pc' \in {"E5", "E6"} /\ (pc' = "E6" => pc = "E5")
    BY <1>1
  <2> QED BY <2>1, <1>1, <1>2, <1>4 DEF On, Closed
<1> QED BY <1>6, <1>7, <1>8, <1>9 DEF On

\* Down along a link, which from now on holds the way back.
LEMMA DownOn ==
    ASSUME Inv, NEW path \in Seq(Cells), On(path),
           (DownCar /\ Unvisited(car[p])) \/ (DownCdr /\ Unvisited(cdr[p]))
    PROVE  \E q \in Seq(Cells) : On(q)'
<1> DEFINE L == Len(path)
<1>1. /\ pc \in {"E4", "E5"} /\ pc' = "E2" /\ t' = p
      /\ UNCHANGED <<vlen, calls, todo, heap0, marks>>
  BY DEF DownCar, DownCdr
<1>2. /\ p \in Cells /\ \A k \in 1..L : path[k] # p
      /\ p \notin atoms /\ vlen[p] = 0 /\ p \in marks
  BY <1>1 DEF On, Shape, Closed
<1>3. car[p] = heap0.car[p] /\ cdr[p] = heap0.cdr[p] /\ p \notin heap0.atoms
  BY <1>2 DEF On, Restores
<1>4. p' \in Cells /\ p' \notin marks /\ (p' = heap0.car[p] \/ p' = heap0.cdr[p])
  <2>1. heap0.car[p] \in Cells /\ heap0.cdr[p] \in Cells
    BY <1>2, Basics
  <2> QED BY <2>1, <1>3 DEF DownCar, DownCdr, Unvisited
<1>5. \/ /\ p \in atoms' /\ car'[p] = t /\ heap0.car[p] = p' /\ cdr'[p] = heap0.cdr[p]
      \/ /\ p \notin atoms' /\ cdr'[p] = t /\ heap0.cdr[p] = p' /\ car'[p] = heap0.car[p]
         /\ heap0.car[p] \in marks
  <2>1. CASE DownCar /\ Unvisited(car[p])
    BY <2>1, <1>2, <1>3, Basics DEF DownCar
  <2>2. CASE DownCdr /\ Unvisited(cdr[p])
    <3>1. heap0.car[p] \in marks
      BY <2>2 DEF On, Closed, DownCdr
    <3> QED BY <3>1, <2>2, <1>2, <1>3, Basics DEF DownCdr
  <2> QED BY <2>1, <2>2
<1>6. ASSUME NEW c \in Cells, c # p
      PROVE  car'[c] = car[c] /\ cdr'[c] = cdr[c] /\ (c \in atoms' <=> c \in atoms)
  BY <1>6, <1>2, Basics DEF DownCar, DownCdr
<1>7. p' \notin Inner(vlen)
  BY <1>2, <1>4, Basics, HeapFacts DEF WellFormed
<1>8. PICK q \in Seq(Cells) :
         Len(q) = L + 1 /\ q[L + 1] = p /\ \A k \in 1..L : q[k] = path[k]
  BY <1>2, Longer
<1>9. L \in Nat /\ \A k \in 1..Len(q) : k \in 1..L \/ k = L + 1
  BY <1>8
<1>10. \A k \in 1..L : From(q, k)' = From(path, k) /\ After(q, k)' = After(path, k)
  <2>1. ASSUME NEW k \in 1..L PROVE From(q, k)' = From(path, k)
    <3>1. k \in Nat \ {0} /\ (k > 1 => k - 1 \in 1..L)
      BY <1>9
    <3>2. k > 1 => q[k - 1] = path[k - 1]
      BY <3>1, <1>8
    <3> QED BY <3>1, <3>2, <1>1, FromKept
  <2>2. ASSUME NEW k \in 1..L PROVE After(q, k)' = After(path, k)
    BY  <1>8, <1>9, AfterKept
  <2> QED BY <2>1, <2>2
<1>11. From(q, L + 1)' = t /\ After(q, L + 1)' = p'
  <2>1. From(q, L + 1)' = From(path, L + 1)
    <3>1. L + 1 \in Nat \ {0} /\ L + 1 - 1 = L /\ (L + 1 > 1 => L \in 1..L)
      BY <1>9
    <3>2. L + 1 > 1 => q[L + 1 - 1] = path[L + 1 - 1]
      BY <3>1, <1>8
    <3> QED BY <3>1, <3>2, <1>1, FromKept
  <2>2. pc # "vector"
    BY <1>1
  <2>3. After(q, L + 1)' = p'
    BY <1>8, <1>9 DEF After
  <2> QED BY <2>1, <2>2, <2>3 DEF On, Restores
<1>12. From(q, Len(q) + 1)' = p
  BY <1>1, <1>2, <1>8, <1>9 DEF From
<1>13. Shape(q)'
  <2>1. \A j, k \in 1..Len(q) : q[j] = q[k] => j = k
    BY <1>2, <1>8, <1>9 DEF On, Shape
  <2>2. q[1] \notin Inner(vlen)
    <3>1. CASE L = 0
      <4>1. path = <<>>
        BY <3>1
      <4> QED BY <4>1, <3>1, <1>1, <1>8 DEF On, Shape
    <3>2. CASE L > 0
      BY <3>2, <1>8, <1>9 DEF On, Shape
    <3> QED BY <3>1, <3>2, <1>9
  <2>3. Inner(vlen)' = Inner(vlen)
    BY <1>1 DEF Inner
  <2>4. \A k \in 1..Len(q) : q[k] # p'
    BY <1>2, <1>4, <1>8, <1>9 DEF On, Closed
  <2> QED BY <2>1, <2>2, <2>3, <2>4, <1>1, <1>4, <1>7 DEF Shape
<1>14. Restores(q)'
  <2>1. ASSUME NEW c \in Cells, vlen[c] > 0 \/ (\A k \in 1..Len(q) : q[k] # c)
        PROVE  car'[c] = heap0.car[c] /\ cdr'[c] = heap0.cdr[c] /\ (c \in atoms' <=> c \in heap0.atoms)
    <3>1. c # p
      BY <2>1, <1>2, <1>8, <1>9
    <3>2. vlen[c] > 0 \/ (\A k \in 1..L : path[k] # c)
      BY <2>1, <1>8, <1>9
    <3> QED BY <3>1, <3>2, <1>6 DEF On, Restores
  <2>2. ASSUME NEW k \in 1..L, vlen[q[k]] = 0
        PROVE  /\ q[k] \notin heap0.atoms
               /\ q[k] \in atoms' =>
                     /\ car'[q[k]] = From(q, k)' /\ heap0.car[q[k]] = After(q, k)'
                     /\ cdr'[q[k]] = heap0.cdr[q[k]]
               /\ q[k] \notin atoms' =>
                     /\ cdr'[q[k]] = From(q, k)' /\ heap0.cdr[q[k]] = After(q, k)'
                     /\ car'[q[k]] = heap0.car[q[k]]
    <3>1. q[k] = path[k] /\ path[k] \in Cells /\ path[k] # p
      BY <1>2, <1>8
    <3> QED BY <3>1, <2>2, <1>6, <1>10 DEF On, Restores
  <2>3. /\ q[L + 1] \notin heap0.atoms
        /\ q[L + 1] \in atoms' =>
              /\ car'[q[L + 1]] = From(q, L + 1)' /\ heap0.car[q[L + 1]] = After(q, L + 1)'
              /\ cdr'[q[L + 1]] = heap0.cdr[q[L + 1]]
        /\ q[L + 1] \notin atoms' =>
              /\ cdr'[q[L + 1]] = From(q, L + 1)' /\ heap0.cdr[q[L + 1]] = After(q, L + 1)'
              /\ car'[q[L + 1]] = heap0.car[q[L + 1]]
    BY <1>3, <1>5, <1>8, <1>11
  <2> QED BY <2>1, <2>2, <2>3, <1>1, <1>9, <1>12 DEF Restores
<1>15. Frames(q)'
  <2>1. pc # "vector" /\ pc' # "vector"
    BY <1>1
  <2>2. ASSUME NEW k \in 1..Len(path), vlen[path[k]] > 0
        PROVE  /\ k \in 1..Len(q) /\ q[k] = path[k]
               /\ From(q, k)' = From(path, k) /\ After(q, k)' = After(path, k)
    BY <1>8, <1>9, <1>10
  <2>3. ASSUME NEW k \in 1..Len(q), vlen[q[k]] > 0 PROVE k \in 1..Len(path) /\ q[k] = path[k]
    BY <2>3, <1>2, <1>8, <1>9
  <2> QED BY <2>1, <2>2, <2>3, <1>1, FramesKept DEF On
<1>16. Closed(q)'
  <2>1. ASSUME NEW k \in 1..Len(q)
        PROVE  q[k] \in marks /\ (vlen[q[k]] = 0 /\ q[k] \notin atoms' => heap0.car[q[k]] \in marks)
    <3>1. CASE k \in 1..L
      <4>1. q[k] = path[k] /\ path[k] \in Cells /\ path[k] # p
        BY <3>1, <1>2, <1>8
      <4> QED BY <4>1, <3>1, <1>6 DEF On, Closed
    <3>2. CASE k = L + 1
      BY <3>2, <1>2, <1>5, <1>8
    <3> QED BY <3>1, <3>2, <1>9
  <2>2. ASSUME NEW m \in marks, \A k \in 1..Len(q) : q[k] # m
        PROVE  Children(heap0, m) \subseteq marks
    <3>1. m # p /\ \A k \in 1..L : path[k] # m
      BY <2>2, <1>8, <1>9
    <3> QED BY <3>1 DEF On, Closed
  <2>3. ASSUME NEW n \in 1..Len(calls), NEW i \in 1..calls[n].i
        PROVE  calls[n].p + i \in marks
    BY <1>1 DEF On, Closed
  <2>4. ASSUME NEW i \in DOMAIN heap0.roots
        PROVE  heap0.roots[i] \in marks \/ \E j \in DOMAIN todo : todo[j] = heap0.roots[i]
    BY <1>1 DEF On, Closed
  <2> QED BY <2>1, <2>2, <2>3, <2>4, <1>1 DEF Closed
<1> QED BY <1>8, <1>13, <1>14, <1>15, <1>16 DEF On

\* What the walk is back at was reached as before.
LEMMA Popped ==
    ASSUME NEW path \in Seq(Cells), Len(path) > 0, NEW q \in Seq(Cells),
           Len(q) = Len(path) - 1, \A k \in 1..Len(q) : q[k] = path[k],
           vlen' = vlen, p' = path[Len(path)]
    PROVE  /\ \A k \in 1..Len(q) : From(q, k)' = From(path, k) /\ After(q, k)' = After(path, k)
           /\ From(q, Len(q) + 1)' = From(path, Len(path))
<1> DEFINE L == Len(path)
<1>1. /\ L \in Nat \ {0} /\ Len(q) \in Nat /\ Len(q) + 1 = L /\ (L > 1 => L - 1 \in 1..Len(q))
      /\ \A k \in 1..Len(q) : k \in Nat \ {0} /\ (k > 1 => k - 1 \in 1..Len(q))
  OBVIOUS
<1>2. ASSUME NEW k \in 1..Len(q) PROVE From(q, k)' = From(path, k)
  BY <1>1, FromKept
<1>3. ASSUME NEW k \in 1..Len(q) PROVE After(q, k)' = After(path, k)
  <2>1. After(path, k) = path[k + 1]
    BY <1>1 DEF After
  <2>2. CASE k < Len(q)
    <3>1. k + 1 \in 1..Len(q)
      BY <2>2, <1>1
    <3> QED BY <2>1, <2>2, <3>1 DEF After
  <2>3. CASE ~ (k < Len(q))
    <3>1. k + 1 = L
      BY <2>3, <1>1
    <3> QED BY <2>1, <2>3, <3>1 DEF After
  <2> QED BY <2>2, <2>3
<1>4. From(q, L)' = From(path, L)
  BY <1>1, FromKept
<1> QED BY <1>1, <1>2, <1>3, <1>4

\* Up: the link that was turned round gets its old value.
LEMMA UpOn ==
    ASSUME Inv, NEW path \in Seq(Cells), On(path), Up
    PROVE  \E q \in Seq(Cells) : On(q)'
<1> DEFINE L == Len(path)
<1>1. /\ pc = "E6" /\ pc' = (IF t \in atoms THEN "E5" ELSE "E6") /\ p' = t /\ t # Null
      /\ UNCHANGED <<vlen, calls, todo, heap0, marks>>
  BY DEF Up
<1>2. p \in Cells /\ (\A k \in 1..L : path[k] # p) /\ p \in marks /\ Children(heap0, p) \subseteq marks
  BY <1>1 DEF On, Shape, Closed
<1>3. L \in Nat /\ L > 0 /\ t = path[L] /\ t \in Cells /\ vlen[t] = 0
  <2>1. t = From(path, L + 1)
    BY <1>1 DEF On, Restores
  <2>2. L \in Nat /\ L + 1 - 1 = L
    OBVIOUS
  <2>3. L > 0 /\ t = path[L] /\ ~ (vlen[path[L]] > 0)
    BY <2>1, <2>2, <1>1 DEF From
  <2>4. path[L] \in Cells
    BY <2>2, <2>3
  <2> QED BY <2>2, <2>3, <2>4, Basics
<1>4. /\ t \notin heap0.atoms /\ t \in marks
      /\ t \in atoms =>
            car[t] = From(path, L) /\ heap0.car[t] = p /\ cdr[t] = heap0.cdr[t]
      /\ t \notin atoms =>
            /\ cdr[t] = From(path, L) /\ heap0.cdr[t] = p /\ car[t] = heap0.car[t]
            /\ heap0.car[t] \in marks
  <2>1. L \in 1..L /\ After(path, L) = p
    BY <1>3 DEF After
  <2> QED BY <2>1, <1>3 DEF On, Restores, Closed
<1>5. /\ car'[t] = heap0.car[t] /\ cdr'[t] = heap0.cdr[t] /\ t \notin atoms'
      /\ t' = From(path, L)
  BY <1>3, <1>4, Basics DEF Up
<1>6. ASSUME NEW c \in Cells, c # t
      PROVE  car'[c] = car[c] /\ cdr'[c] = cdr[c] /\ (c \in atoms' <=> c \in atoms)
  BY <1>6, <1>3, Basics DEF Up
<1>7. PICK q \in Seq(Cells) : Len(q) = L - 1 /\ \A k \in 1..Len(q) : q[k] = path[k]
  BY <1>3, Shorter
<1>8. /\ Len(q) \in Nat /\ (\A k \in 1..Len(q) : k \in 1..L /\ k # L /\ k + 1 \in 1..L)
      /\ \A k \in 1..L : k \in 1..Len(q) \/ k = L
  BY <1>3, <1>7
<1>9. \A k \in 1..Len(q) : q[k] # t /\ q[k] \in Cells
  BY <1>3, <1>7, <1>8 DEF On, Shape
<1>10. \A k \in 1..Len(q) : From(q, k)' = From(path, k) /\ After(q, k)' = After(path, k)
  BY <1>1, <1>3, <1>7, Popped
<1>11. From(q, Len(q) + 1)' = t'
  BY <1>1, <1>3, <1>5, <1>7, Popped
<1>12. Shape(q)'
  <2>1. \A j, k \in 1..Len(q) : q[j] = q[k] => j = k
    BY <1>7, <1>8 DEF On, Shape
  <2>2. path[1] \notin Inner(vlen)
    BY <1>3 DEF On, Shape
  <2>3. Inner(vlen)' = Inner(vlen)
    BY <1>1 DEF Inner
  <2>4. Len(q) > 0 => q[1] = path[1]
    BY <1>7, <1>8
  <2>5. q = <<>> => p' = path[1]
    <3>1. q = <<>> => Len(q) = 0
      OBVIOUS
    <3>2. q = <<>> => L = 1
      BY <3>1, <1>3, <1>7
    <3> QED BY <3>2, <1>1, <1>3
  <2> QED BY <2>1, <2>2, <2>3, <2>4, <2>5, <1>1, <1>3, <1>5, <1>9 DEF Shape
<1>13. Restores(q)'
  <2>1. ASSUME NEW c \in Cells, vlen[c] > 0 \/ (\A k \in 1..Len(q) : q[k] # c)
        PROVE  car'[c] = heap0.car[c] /\ cdr'[c] = heap0.cdr[c] /\ (c \in atoms' <=> c \in heap0.atoms)
    <3>1. CASE c = t
      BY <3>1, <1>4, <1>5
    <3>2. CASE c # t
      <4>1. vlen[c] > 0 \/ (\A k \in 1..L : path[k] # c)
        BY <2>1, <3>2, <1>3, <1>7, <1>8
      <4> QED BY <4>1, <3>2, <1>6 DEF On, Restores
    <3> QED BY <3>1, <3>2
  <2>2. ASSUME NEW k \in 1..Len(q), vlen[q[k]] = 0
        PROVE  /\ q[k] \notin heap0.atoms
               /\ q[k] \in atoms' =>
                     /\ car'[q[k]] = From(q, k)' /\ heap0.car[q[k]] = After(q, k)'
                     /\ cdr'[q[k]] = heap0.cdr[q[k]]
               /\ q[k] \notin atoms' =>
                     /\ cdr'[q[k]] = From(q, k)' /\ heap0.cdr[q[k]] = After(q, k)'
                     /\ car'[q[k]] = heap0.car[q[k]]
    <3>1. q[k] = path[k] /\ k \in 1..L
      BY <1>7, <1>8
    <3> QED BY <3>1, <2>2, <1>6, <1>9, <1>10 DEF On, Restores
  <2> QED BY <2>1, <2>2, <1>1, <1>11 DEF Restores
<1>14. Frames(q)'
  <2>1. pc # "vector" /\ pc' # "vector"
    BY <1>1
  <2>2. ASSUME NEW k \in 1..Len(path), vlen[path[k]] > 0
        PROVE  /\ k \in 1..Len(q) /\ q[k] = path[k]
               /\ From(q, k)' = From(path, k) /\ After(q, k)' = After(path, k)
    <3>1. k # L
      BY <2>2, <1>3
    <3>2. k \in 1..Len(q)
      BY <3>1, <1>8
    <3> QED BY <3>2, <1>7, <1>10
  <2>3. ASSUME NEW k \in 1..Len(q), vlen[q[k]] > 0 PROVE k \in 1..Len(path) /\ q[k] = path[k]
    BY <1>7, <1>8
  <2> QED BY <2>1, <2>2, <2>3, <1>1, FramesKept DEF On
<1>15. Closed(q)'
  <2>1. ASSUME NEW k \in 1..Len(q)
        PROVE  q[k] \in marks /\ (vlen[q[k]] = 0 /\ q[k] \notin atoms' => heap0.car[q[k]] \in marks)
    <3>1. q[k] = path[k] /\ k \in 1..L
      BY <1>7, <1>8
    <3> QED BY <3>1, <1>6, <1>9 DEF On, Closed
  <2>2. ASSUME NEW m \in marks, \A k \in 1..Len(q) : q[k] # m, m # t
        PROVE  Children(heap0, m) \subseteq marks
    <3>1. \A k \in 1..L : path[k] # m
      BY <2>2, <1>3, <1>7, <1>8
    <3> QED BY <3>1, <1>2 DEF On, Closed
  <2>3. ASSUME NEW n \in 1..Len(calls), NEW i \in 1..calls[n].i
        PROVE  calls[n].p + i \in marks
    BY <1>1 DEF On, Closed
  <2>4. ASSUME NEW i \in DOMAIN heap0.roots
        PROVE  heap0.roots[i] \in marks \/ \E j \in DOMAIN todo : todo[j] = heap0.roots[i]
    BY <1>1 DEF On, Closed
  <2>5. heap0.car[t] \in marks /\ (t \notin atoms => Children(heap0, t) \subseteq marks)
    <3>1. ~ (heap0.vlen[t] > 0)
      BY <1>3, Basics
    <3> QED BY <3>1, <1>2, <1>4 DEF Children
  <2> QED BY <2>1, <2>2, <2>3, <2>4, <2>5, <1>1, <1>4 DEF Closed
<1> QED BY <1>7, <1>12, <1>13, <1>14, <1>15 DEF On

\* The call for a root, or for a cell of a vector, returns.
LEMMA ReturnOn ==
    ASSUME Inv, NEW path \in Seq(Cells), On(path), Return
    PROVE  On(path)'
<1> DEFINE L == Len(path)
<1>1. /\ pc = "E6" /\ pc' = (IF calls = <<>> THEN "gc" ELSE "vector") /\ t = Null
      /\ UNCHANGED <<car, cdr, atoms, vlen, marks, p, t, calls, todo, heap0>>
  BY DEF Return
<1>2. p \in Cells /\ p \in marks /\ Children(heap0, p) \subseteq marks
  BY <1>1 DEF On, Shape, Closed
<1>3. L \in Nat /\ (L > 0 => path[L] \in Cells /\ vlen[path[L]] > 0)
  <2>1. t = From(path, L + 1)
    BY <1>1 DEF On, Restores
  <2>2. L \in Nat /\ L + 1 - 1 = L /\ (L > 0 => path[L] \in Cells)
    OBVIOUS
  <2> QED BY <2>1, <2>2, <1>1, Basics DEF From
<1>4. IF calls = <<>> THEN path = <<>> ELSE L > 0
  <2>1. Len(calls) \in Nat /\ (calls = <<>> <=> Len(calls) = 0)
    BY Basics
  <2>2. CASE calls = <<>>
    <3>1. ~ (L > 0)
      <4>1. L > 0 => L \in 1..L
        BY <1>3
      <4>2. L > 0 => \E n \in 1..Len(calls) : calls[n].p = path[L]
        BY <4>1, <1>3 DEF On, Frames, FramesFound
      <4> QED BY <4>2, <2>1, <2>2
    <3> QED BY <3>1, <2>2, <1>3
  <2>3. CASE calls # <<>>
    <3>1. 1 \in 1..Len(calls)
      BY <2>1, <2>3
    <3>2. \E k \in 1..L : TRUE
      BY <3>1 DEF On, Frames, FramesFit
    <3> QED BY <3>2, <2>3, <1>3
  <2> QED BY <2>2, <2>3
<1>5. \A k : From(path, k)' = From(path, k) /\ After(path, k)' = After(path, k)
  BY <1>1 DEF From, After
<1>6. Shape(path)'
  <2>1. Inner(vlen)' = Inner(vlen)
    BY <1>1 DEF Inner
  <2> QED BY <2>1, <1>1, <1>4 DEF On, Shape
<1>7. Restores(path)'
  BY <1>1, <1>5 DEF On, Restores
<1>8. Frames(path)'
  <2>1. \A n \in 1..Len(calls) : \E k \in 1..L :
          /\ calls[n].p = path[k] /\ vlen[path[k]] > 0
          /\ calls[n].t = From(path, k)' /\ calls[n].i <= vlen[path[k]]
          /\ calls[n].i > 0 /\ After(path, k)' = path[k] + calls[n].i
    BY <1>1, <1>5 DEF On, Frames, FramesFit
  <2>2. pc' = "vector" => path # <<>> /\ vlen[path[Len(path)]] > 0
    BY <1>1, <1>3, <1>4
  <2>3. calls' = calls /\ vlen' = vlen
    BY <1>1
  <2>4. FramesFit(path)'
    BY <2>1, <2>3 DEF FramesFit
  <2>5. FramesFound(path)' /\ FramesInOrder(path)'
    BY <2>3 DEF On, Frames, FramesFound, FramesInOrder
  <2> QED BY <2>2, <2>3, <2>4, <2>5 DEF Frames
<1>9. Closed(path)'
  <2>1. pc \notin {"gc", "vector", "E2"} /\ pc' \in {"gc", "vector"}
    BY <1>1
  <2> QED BY <2>1, <1>1, <1>2 DEF On, Closed
<1> QED BY <1>6, <1>7, <1>8, <1>9 DEF On

\* The innermost call is for the vector the path ends with.
LEMMA TopVector ==
    ASSUME Inv, NEW path \in Seq(Cells), On(path), pc = "vector"
    PROVE  LET f == calls[Len(calls)]
               v == path[Len(path)] IN
           /\ Len(path) > 0 /\ Len(calls) > 0 /\ v \in Cells /\ vlen[v] > 0
           /\ f \in Call
           /\ f.p = v /\ f.t = From(path, Len(path)) /\ f.i <= vlen[v]
           /\ \A n \in 1..Len(calls), k \in 1..Len(path) :
                 calls[n].p = path[k] /\ n # Len(calls) => k < Len(path)
<1> DEFINE L == Len(path)
           N == Len(calls)
<1>1. L \in Nat /\ L > 0 /\ L \in 1..L /\ path[L] \in Cells /\ vlen[path[L]] > 0
  <2>1. path # <<>> /\ vlen[path[L]] > 0
    BY DEF On, Frames
  <2> QED BY <2>1
<1>2. PICK m \in 1..N : calls[m].p = path[L]
  BY <1>1 DEF On, Frames, FramesFound
<1>3. N \in Nat /\ N > 0 /\ N \in 1..N /\ calls[N] \in Call
  <2>1. calls \in Seq(Call)
    BY Basics
  <2>2. N \in Nat
    BY <2>1
  <2>3. N > 0 /\ N \in 1..N
    BY <2>2, <1>2
  <2> QED BY <2>1, <2>3
<1>4. PICK k \in 1..L :
         calls[N].p = path[k] /\ calls[N].t = From(path, k) /\ calls[N].i <= vlen[path[k]]
  BY <1>3 DEF On, Frames, FramesFit
<1>5. m = N /\ k = L
  <2>1. m < N => L < k
    BY <1>1, <1>2, <1>3, <1>4 DEF On, Frames, FramesInOrder
  <2>2. ~ (L < k) /\ (m < N \/ m = N)
    BY <1>1, <1>3
  <2> QED BY <2>1, <2>2, <1>1, <1>2, <1>4 DEF On, Shape
<1>6. ASSUME NEW n \in 1..N, NEW j \in 1..L, calls[n].p = path[j], n # N PROVE j < L
  <2>1. n < N
    BY <1>3, <1>6
  <2> QED BY <2>1, <1>1, <1>2, <1>3, <1>5, <1>6 DEF On, Frames, FramesInOrder
<1> QED BY <1>1, <1>3, <1>4, <1>5, <1>6

\* A cell of the vector that has not been visited is not on the path: only its vector leads to it.
LEMMA InnerIsNew ==
    ASSUME Inv, NEW path \in Seq(Cells), On(path), pc = "vector",
           NEW i \in 1..vlen[path[Len(path)]]
    PROVE  \A k \in 1..Len(path) : path[k] # path[Len(path)] + i
<1> DEFINE L == Len(path)
           v == path[L]
<1>1. L \in Nat /\ L > 0 /\ v \in Cells /\ vlen[v] > 0
  BY TopVector
<1>2. heap0 \in Heaps /\ vlen = heap0.vlen /\ WellFormed(heap0)
  BY Basics, HeapFacts
<1>3. v + i \in Cells /\ v + i \in Inner(vlen)
  BY <1>1, <1>2, VectorCells
<1> SUFFICES ASSUME NEW k \in 1..L, path[k] = v + i PROVE FALSE
  OBVIOUS
<1>4. k # 1
  BY <1>1, <1>3 DEF On, Shape
<1>5. k - 1 \in 1..L /\ k - 1 < L /\ k - 1 + 1 = k /\ path[k - 1] \in Cells
  BY <1>1, <1>4
<1>6. After(path, k - 1) = v + i
  BY <1>5 DEF After
<1>7. CASE vlen[path[k - 1]] = 0
  <2>1. After(path, k - 1) \in {heap0.car[path[k - 1]], heap0.cdr[path[k - 1]]}
    BY <1>5, <1>7 DEF On, Restores
  <2> QED BY <2>1, <1>2, <1>3, <1>5, <1>6 DEF WellFormed
<1>8. CASE vlen[path[k - 1]] > 0
  <2>1. PICK n \in 1..Len(calls) : calls[n].p = path[k - 1]
    BY <1>5, <1>8 DEF On, Frames, FramesFound
  <2>2. PICK j \in 1..L :
          /\ calls[n].p = path[j] /\ calls[n].i <= vlen[path[j]]
          /\ j < L => calls[n].i > 0 /\ After(path, j) = path[j] + calls[n].i
    BY DEF On, Frames, FramesFit
  <2>3. j = k - 1
    BY <2>1, <2>2, <1>5 DEF On, Shape
  <2>4. calls[n].i \in Nat /\ calls[n].i \in 1..vlen[path[k - 1]] /\ path[k - 1] + calls[n].i = v + i
    <3>1. calls[n] \in Call
      BY Basics
    <3>2. calls[n].i \in Nat /\ vlen[path[k - 1]] \in Nat
      BY <3>1, <1>5, Basics DEF Call
    <3>3. calls[n].i <= vlen[path[k - 1]] BY <2>2, <2>3
    <3>4. calls[n].i > 0 /\ path[k - 1] + calls[n].i = v + i BY <2>2, <2>3, <1>5, <1>6
    <3> QED BY <3>2, <3>3, <3>4
  <2>5. path[k - 1] = v
    BY <2>4, <1>1, <1>2, <1>5, VectorsApart
  <2>6. L \in 1..L /\ k - 1 # L
    BY <1>1, <1>5
  <2> QED BY <2>5, <2>6, <1>5 DEF On, Shape
<1> QED BY <1>5, <1>7, <1>8, Basics

\* A call for the next cell of the vector.
LEMMA VectorNextOn ==
    ASSUME Inv, NEW path \in Seq(Cells), On(path), VectorCell,
           calls[Len(calls)].i < vlen[calls[Len(calls)].p]
    PROVE  On(path)' /\ p' \in Reach(heap0, Roots(heap0))
<1> DEFINE L == Len(path)
           N == Len(calls)
           v == path[L]
           i == calls[N].i
<1>1. pc = "vector" /\ L \in Nat /\ N \in Nat /\ UNCHANGED <<car, cdr, atoms, vlen, marks, todo, heap0>>
  BY Basics DEF VectorCell
<1>2. /\ L > 0 /\ N > 0 /\ v \in Cells /\ vlen[v] > 0
      /\ calls[N] \in Call /\ calls[N].p = v /\ calls[N].t = From(path, L) /\ i <= vlen[v]
      /\ \A n \in 1..N, k \in 1..L : calls[n].p = path[k] /\ n # N => k < L
  BY <1>1, TopVector
<1>3. v \in Nat /\ i \in Nat /\ vlen[v] \in Nat /\ i + 1 \in 1..vlen[v]
  <2>1. v \in Nat /\ i \in Nat /\ vlen[v] \in Nat
    BY <1>2, Basics, CellsAssumption DEF Call
  <2> QED BY <2>1, <1>2
<1>4. p' = v + (i + 1) /\ t' = Null /\ pc' = "E2"
  <2>1. p' = calls[N].p + 1 + calls[N].i /\ t' = Null /\ pc' = "E2"
    BY DEF VectorCell
  <2>2. \A a, b \in Nat : a + 1 + b = a + (b + 1)
    OBVIOUS
  <2> QED BY <2>1, <2>2, <1>2, <1>3
<1>5. /\ Len(calls') = N /\ calls'[N] = [calls[N] EXCEPT !.i = i + 1]
      /\ \A n \in 1..N : n # N => calls'[n] = calls[n]
  <2>1. calls' = [calls EXCEPT ![N] = [calls[N] EXCEPT !.i = i + 1]]
    BY DEF VectorCell
  <2>2. calls \in Seq(Call) /\ N \in 1..N
    BY <1>1, <1>2, Basics
  <2> QED BY <2>1, <2>2
<1>6. calls'[N].p = v /\ calls'[N].t = From(path, L) /\ calls'[N].i = i + 1
      /\ \A n \in 1..N : calls'[n].p = calls[n].p
  <2>1. calls'[N].p = v /\ calls'[N].t = From(path, L) /\ calls'[N].i = i + 1
    BY <1>2, <1>5 DEF Call
  <2> QED BY <2>1, <1>2, <1>5
<1>7. heap0 \in Heaps /\ vlen = heap0.vlen
  BY Basics
<1>8. p' \in Cells
  BY <1>2, <1>3, <1>4, <1>7, VectorCells
<1>9. \A k \in 1..L : path[k] # p'
  BY <1>1, <1>3, <1>4, InnerIsNew
<1>10. \A k : From(path, k)' = From(path, k)
  BY <1>1 DEF From
<1>11. \A k \in 1..L : k < L => After(path, k)' = After(path, k)
  BY DEF After
<1>12. Shape(path)'
  <2>1. Inner(vlen)' = Inner(vlen)
    BY <1>1 DEF Inner
  <2>2. path # <<>>
    BY <1>2
  <2> QED BY <2>1, <2>2, <1>4, <1>8, <1>9 DEF On, Shape
<1>13. Restores(path)'
  <2>1. ASSUME NEW k \in 1..L, vlen[path[k]] = 0
        PROVE  /\ path[k] \notin heap0.atoms
               /\ path[k] \in atoms =>
                     /\ car[path[k]] = From(path, k)' /\ heap0.car[path[k]] = After(path, k)'
                     /\ cdr[path[k]] = heap0.cdr[path[k]]
               /\ path[k] \notin atoms =>
                     /\ cdr[path[k]] = From(path, k)' /\ heap0.cdr[path[k]] = After(path, k)'
                     /\ car[path[k]] = heap0.car[path[k]]
    <3>1. k # L
      BY <2>1, <1>2
    <3>2. k < L
      BY <3>1, <1>1
    <3> QED BY <3>2, <2>1, <1>10, <1>11 DEF On, Restores
  <2>2. t' = From(path, L + 1)'
    <3>1. L + 1 # 1 /\ L + 1 - 1 = L
      BY <1>1, <1>2
    <3> QED BY <3>1, <1>1, <1>2, <1>4 DEF From
  <2>3. \A c \in Cells : vlen[c] > 0 \/ (\A k \in 1..L : path[k] # c) =>
          car[c] = heap0.car[c] /\ cdr[c] = heap0.cdr[c] /\ (c \in atoms <=> c \in heap0.atoms)
    BY DEF On, Restores
  <2> QED BY <2>1, <2>2, <2>3, <1>1 DEF Restores
<1>14. Frames(path)'
  <2>1. ASSUME NEW k \in 1..L, vlen[path[k]] > 0
        PROVE  \E n \in 1..N : calls'[n].p = path[k]
    BY <2>1, <1>6 DEF On, Frames, FramesFound
  <2>2. ASSUME NEW n \in 1..N
        PROVE  \E k \in 1..L :
                 /\ calls'[n].p = path[k] /\ vlen[path[k]] > 0
                 /\ calls'[n].t = From(path, k)' /\ calls'[n].i <= vlen[path[k]]
                 /\ calls'[n].i > 0 /\ After(path, k)' = path[k] + calls'[n].i
    <3>1. CASE n = N
      <4>1. L \in 1..L /\ After(path, L)' = p'
        BY <1>1, <1>2 DEF After
      <4>2. i + 1 <= vlen[v] /\ i + 1 > 0
        BY <1>3
      <4> QED BY <4>1, <4>2, <3>1, <1>2, <1>4, <1>6, <1>10
    <3>2. CASE n # N
      <4>1. PICK k \in 1..L :
              /\ calls[n].p = path[k] /\ vlen[path[k]] > 0
              /\ calls[n].t = From(path, k) /\ calls[n].i <= vlen[path[k]]
              /\ k < L => calls[n].i > 0 /\ After(path, k) = path[k] + calls[n].i
        BY DEF On, Frames, FramesFit
      <4>2. k < L
        BY <4>1, <3>2, <1>2
      <4> QED BY <4>1, <4>2, <3>2, <1>5, <1>10, <1>11
    <3> QED BY <3>1, <3>2
  <2>3. ASSUME NEW m \in 1..N, NEW n \in 1..N, NEW j \in 1..L, NEW k \in 1..L,
               m < n, calls'[m].p = path[j], calls'[n].p = path[k]
        PROVE  j < k
    BY <2>3, <1>6 DEF On, Frames, FramesInOrder
  <2>4. Len(calls') = N /\ pc' # "vector" /\ vlen' = vlen
    BY <1>1, <1>4, <1>5
  <2>5. FramesFound(path)'
    BY <2>1, <2>4 DEF FramesFound
  <2>6. FramesFit(path)'
    BY <2>2, <2>4 DEF FramesFit
  <2>7. FramesInOrder(path)'
    BY <2>3, <2>4 DEF FramesInOrder
  <2> QED BY <2>4, <2>5, <2>6, <2>7 DEF Frames
<1>15. Closed(path)'
  <2>1. ASSUME NEW n \in 1..N, NEW j \in 1..calls'[n].i
        PROVE  calls'[n].p + j \in marks \/ calls'[n].p + j = p'
    <3>1. CASE n # N
      BY <3>1, <1>1, <1>5 DEF On, Closed
    <3>2. CASE n = N
      <4>1. j \in 1..i \/ j = i + 1
        BY <3>2, <1>3, <1>6
      <4>2. j \in 1..i => v + j \in marks
        BY <3>2, <1>1, <1>2 DEF On, Closed
      <4> QED BY <4>1, <4>2, <3>2, <1>4, <1>6
    <3> QED BY <3>1, <3>2
  <2>2. \A k \in 1..L : path[k] \in marks
          /\ (vlen[path[k]] = 0 /\ path[k] \notin atoms => heap0.car[path[k]] \in marks)
    BY DEF On, Closed
  <2>3. \A m \in marks : (\A k \in 1..L : path[k] # m) => Children(heap0, m) \subseteq marks
    BY <1>1 DEF On, Closed
  <2>4. \A k \in DOMAIN heap0.roots :
          heap0.roots[k] \in marks \/ \E j \in DOMAIN todo : todo[j] = heap0.roots[k]
    BY <1>1 DEF On, Closed
  <2> QED BY <2>1, <2>2, <2>3, <2>4, <1>1, <1>4, <1>5 DEF Closed
<1>16. p' \in Reach(heap0, Roots(heap0))
  <2>1. v \in marks
    BY <1>1, <1>2 DEF On, Closed
  <2>2. v \in Reach(heap0, Roots(heap0))
    BY <2>1 DEF Inv, Reached
  <2>3. p' \in Children(heap0, v)
    BY <1>2, <1>3, <1>4, <1>7 DEF Children
  <2> QED BY <2>2, <2>3, <1>7, ReachFacts
<1> QED BY <1>12, <1>13, <1>14, <1>15, <1>16 DEF On

\* All cells of the vector are visited: back to what the vector was reached from.
LEMMA VectorEndOn ==
    ASSUME Inv, NEW path \in Seq(Cells), On(path), VectorCell,
           ~ (calls[Len(calls)].i < vlen[calls[Len(calls)].p])
    PROVE  \E q \in Seq(Cells) : On(q)'
<1> DEFINE L == Len(path)
           N == Len(calls)
           v == path[L]
<1>1. pc = "vector" /\ L \in Nat /\ N \in Nat /\ UNCHANGED <<car, cdr, atoms, vlen, marks, todo, heap0>>
  BY Basics DEF VectorCell
<1>2. /\ L > 0 /\ N > 0 /\ v \in Cells /\ vlen[v] > 0
      /\ calls[N] \in Call /\ calls[N].p = v /\ calls[N].t = From(path, L) /\ calls[N].i <= vlen[v]
      /\ \A n \in 1..N, k \in 1..L : calls[n].p = path[k] /\ n # N => k < L
  BY <1>1, TopVector
<1>3. calls[N].i = vlen[v] /\ v \in Nat /\ vlen[v] \in Nat
  <2>1. v \in Nat /\ calls[N].i \in Nat /\ vlen[v] \in Nat
    BY <1>2, Basics, CellsAssumption DEF Call
  <2> QED BY <2>1, <1>2
<1>4. p' = v /\ t' = From(path, L) /\ pc' = "E6" /\ calls' = SubSeq(calls, 1, N - 1)
  BY <1>2 DEF VectorCell
<1>5. Len(calls') = N - 1 /\ \A n \in 1..Len(calls') : n \in 1..N /\ n # N /\ calls'[n] = calls[n]
  <2>1. calls \in Seq(Call)
    BY Basics
  <2>2. Len(calls') = N - 1 /\ \A n \in 1..(N - 1) : calls'[n] = calls[n]
    BY <2>1, <1>2, <1>4, CutFacts
  <2> QED BY <2>2, <1>1
<1>6. \A n \in 1..N : n # N => n \in 1..Len(calls')
  BY <1>1, <1>2, <1>5
<1>7. PICK q \in Seq(Cells) : Len(q) = L - 1 /\ \A k \in 1..Len(q) : q[k] = path[k]
  BY <1>2, Shorter
<1>8. /\ Len(q) \in Nat /\ (\A k \in 1..Len(q) : k \in 1..L /\ k # L /\ k < L)
      /\ \A k \in 1..L : k \in 1..Len(q) \/ k = L
  BY <1>1, <1>2, <1>7
<1>9. \A k \in 1..Len(q) : q[k] # v /\ q[k] \in Cells
  BY <1>1, <1>2, <1>7, <1>8 DEF On, Shape
<1>10. /\ \A k \in 1..Len(q) : From(q, k)' = From(path, k) /\ After(q, k)' = After(path, k)
       /\ From(q, Len(q) + 1)' = t'
  BY <1>1, <1>2, <1>4, <1>7, Popped
<1>11. Shape(q)'
  <2>1. \A j, k \in 1..Len(q) : q[j] = q[k] => j = k
    BY <1>7, <1>8 DEF On, Shape
  <2>2. path[1] \notin Inner(vlen)
    BY <1>2 DEF On, Shape
  <2>3. Inner(vlen)' = Inner(vlen)
    BY <1>1 DEF Inner
  <2>4. Len(q) > 0 => q[1] = path[1]
    BY <1>7, <1>8
  <2>5. q = <<>> => p' = path[1]
    <3>1. q = <<>> => Len(q) = 0
      OBVIOUS
    <3>2. q = <<>> => L = 1
      BY <3>1, <1>1, <1>2, <1>7
    <3> QED BY <3>2, <1>4
  <2> QED BY <2>1, <2>2, <2>3, <2>4, <2>5, <1>2, <1>4, <1>9 DEF Shape
<1>12. Restores(q)'
  <2>1. ASSUME NEW c \in Cells, vlen[c] > 0 \/ (\A k \in 1..Len(q) : q[k] # c)
        PROVE  car[c] = heap0.car[c] /\ cdr[c] = heap0.cdr[c] /\ (c \in atoms <=> c \in heap0.atoms)
    <3>1. vlen[c] > 0 \/ (\A k \in 1..L : path[k] # c)
      BY <2>1, <1>2, <1>7, <1>8
    <3> QED BY <3>1 DEF On, Restores
  <2>2. ASSUME NEW k \in 1..Len(q), vlen[q[k]] = 0
        PROVE  /\ q[k] \notin heap0.atoms
               /\ q[k] \in atoms =>
                     /\ car[q[k]] = From(q, k)' /\ heap0.car[q[k]] = After(q, k)'
                     /\ cdr[q[k]] = heap0.cdr[q[k]]
               /\ q[k] \notin atoms =>
                     /\ cdr[q[k]] = From(q, k)' /\ heap0.cdr[q[k]] = After(q, k)'
                     /\ car[q[k]] = heap0.car[q[k]]
    <3>1. q[k] = path[k] /\ k \in 1..L
      BY <1>7, <1>8
    <3> QED BY <3>1, <2>2, <1>10 DEF On, Restores
  <2> QED BY <2>1, <2>2, <1>1, <1>10 DEF Restores
<1>13. Frames(q)'
  <2>1. ASSUME NEW k \in 1..Len(q), vlen[q[k]] > 0
        PROVE  \E n \in 1..Len(calls') : calls'[n].p = q[k]
    <3>1. k \in 1..L /\ q[k] = path[k]
      BY <1>7, <1>8
    <3>2. PICK n \in 1..N : calls[n].p = q[k]
      BY <3>1, <2>1 DEF On, Frames, FramesFound
    <3>3. n # N
      BY <3>2, <1>2, <1>9
    <3> QED BY <3>2, <3>3, <1>5, <1>6
  <2>2. ASSUME NEW n \in 1..Len(calls')
        PROVE  \E k \in 1..Len(q) :
                 /\ calls'[n].p = q[k] /\ vlen[q[k]] > 0
                 /\ calls'[n].t = From(q, k)' /\ calls'[n].i <= vlen[q[k]]
                 /\ calls'[n].i > 0 /\ After(q, k)' = q[k] + calls'[n].i
    <3>1. n \in 1..N /\ n # N /\ calls'[n] = calls[n]
      BY <1>5
    <3>2. PICK k \in 1..L :
            /\ calls[n].p = path[k] /\ vlen[path[k]] > 0
            /\ calls[n].t = From(path, k) /\ calls[n].i <= vlen[path[k]]
            /\ k < L => calls[n].i > 0 /\ After(path, k) = path[k] + calls[n].i
      BY <3>1 DEF On, Frames, FramesFit
    <3>3. k < L /\ k \in 1..Len(q)
      <4>1. k < L
        BY <3>1, <3>2, <1>2
      <4> QED BY <4>1, <1>8
    <3> QED BY <3>1, <3>2, <3>3, <1>7, <1>10
  <2>3. ASSUME NEW m \in 1..Len(calls'), NEW n \in 1..Len(calls'),
               NEW j \in 1..Len(q), NEW k \in 1..Len(q),
               m < n, calls'[m].p = q[j], calls'[n].p = q[k]
        PROVE  j < k
    <3>1. /\ m \in 1..N /\ n \in 1..N /\ j \in 1..L /\ k \in 1..L
          /\ calls[m].p = path[j] /\ calls[n].p = path[k]
      BY <2>3, <1>5, <1>7, <1>8
    <3> QED BY <3>1, <2>3 DEF On, Frames, FramesInOrder
  <2>4. pc' # "vector"
    BY <1>4
  <2>5. FramesFound(q)'
    BY <2>1, <1>1 DEF FramesFound
  <2>6. FramesFit(q)'
    BY <2>2, <1>1 DEF FramesFit
  <2>7. FramesInOrder(q)'
    BY <2>3 DEF FramesInOrder
  <2> QED BY <2>4, <2>5, <2>6, <2>7 DEF Frames
<1>14. Closed(q)'
  <2>1. ASSUME NEW n \in 1..Len(calls'), NEW j \in 1..calls'[n].i
        PROVE  calls'[n].p + j \in marks
    BY <1>1, <1>5 DEF On, Closed
  <2>2. ASSUME NEW k \in 1..Len(q)
        PROVE  q[k] \in marks /\ (vlen[q[k]] = 0 /\ q[k] \notin atoms => heap0.car[q[k]] \in marks)
    BY <1>7, <1>8 DEF On, Closed
  <2>3. ASSUME NEW m \in marks, \A k \in 1..Len(q) : q[k] # m, m # v
        PROVE  Children(heap0, m) \subseteq marks
    <3>1. \A k \in 1..L : path[k] # m
      BY <2>3, <1>7, <1>8
    <3> QED BY <3>1, <1>1 DEF On, Closed
  <2>4. \A k \in DOMAIN heap0.roots :
          heap0.roots[k] \in marks \/ \E j \in DOMAIN todo : todo[j] = heap0.roots[k]
    BY <1>1 DEF On, Closed
  <2>5. v \in marks
    BY <1>1, <1>2 DEF On, Closed
  <2>6. Children(heap0, v) \subseteq marks
    <3>1. heap0.vlen = vlen /\ Children(heap0, v) = (v + 1)..(v + vlen[v])
      BY <1>2, Basics DEF Children
    <3>2. ASSUME NEW c \in (v + 1)..(v + vlen[v]) PROVE c \in marks
      <4>1. PICK j \in 1..calls[N].i : c = v + j
        <5>1. c - v \in 1..vlen[v] /\ c = v + (c - v)
          BY <1>3
        <5> QED BY <5>1, <1>3
      <4>2. N \in 1..N
        BY <1>1, <1>2
      <4>3. calls[N].p + j \in marks
        BY <4>2, <1>1 DEF On, Closed
      <4> QED BY <4>1, <4>3, <1>2
    <3> QED BY <3>1, <3>2
  <2> QED BY <2>1, <2>2, <2>3, <2>4, <2>5, <2>6, <1>1, <1>4 DEF Closed
<1> QED BY <1>7, <1>11, <1>12, <1>13, <1>14 DEF On

-----------------------------------------------------------------------------
(***************************************************************************)
(* The invariant is kept, and the marking is safe.                         *)
(***************************************************************************)

\* What is reached from what the roots reach is reached from the roots.
LEMMA DownReaches ==
    ASSUME Inv, NEW path \in Seq(Cells), On(path),
           (DownCar /\ Unvisited(car[p])) \/ (DownCdr /\ Unvisited(cdr[p]))
    PROVE  p' \in Reach(heap0, Roots(heap0))
<1>1. pc \in {"E4", "E5"}
  BY DEF DownCar, DownCdr
<1>2. p \in Cells /\ p \notin atoms /\ vlen[p] = 0 /\ \A k \in 1..Len(path) : path[k] # p
  BY <1>1 DEF On, Shape
<1>3. car[p] = heap0.car[p] /\ cdr[p] = heap0.cdr[p] /\ p \notin heap0.atoms
  BY <1>2 DEF On, Restores
<1>4. heap0 \in Heaps /\ ~ (heap0.vlen[p] > 0)
  BY <1>2, Basics
<1>5. p' \in Children(heap0, p)
  BY <1>3, <1>4 DEF Children, DownCar, DownCdr
<1>6. p \in Reach(heap0, Roots(heap0))
  BY <1>1 DEF Inv, Reached
<1> QED BY <1>4, <1>5, <1>6, ReachFacts

\* A step leads from a path to a path.
LEMMA PathStep ==
    ASSUME Inv, Next
    PROVE  /\ \E q \in Seq(Cells) : On(q)'
           /\ pc' = "E2" => p' \in Reach(heap0, Roots(heap0))
<1>1. PICK path \in Seq(Cells) : On(path)
  BY DEF Inv
<1>2. CASE NextRoot
  BY <1>1, <1>2, NextRootOn
<1>3. CASE Visit
  <2>1. pc' # "E2"
    BY <1>3 DEF Visit
  <2> QED BY <2>1, <1>1, <1>3, VisitVectorOn, VisitObjectOn
<1>4. CASE VectorCell
  <2>1. CASE calls[Len(calls)].i < vlen[calls[Len(calls)].p]
    BY <2>1, <1>1, <1>4, VectorNextOn
  <2>2. CASE ~ (calls[Len(calls)].i < vlen[calls[Len(calls)].p])
    <3>1. pc' # "E2"
      BY <2>2, <1>4 DEF VectorCell
    <3> QED BY <3>1, <2>2, <1>1, <1>4, VectorEndOn
  <2> QED BY <2>1, <2>2
<1>5. CASE DownCar \/ DownCdr
  <2>1. CASE (DownCar /\ Unvisited(car[p])) \/ (DownCdr /\ Unvisited(cdr[p]))
    BY <2>1, <1>1, DownOn, DownReaches
  <2>2. CASE (DownCar /\ ~ Unvisited(car[p])) \/ (DownCdr /\ ~ Unvisited(cdr[p]))
    <3>1. pc' # "E2"
      BY <2>2 DEF DownCar, DownCdr
    <3> QED BY <3>1, <2>2, <1>1, StayOn
  <2> QED BY <2>1, <2>2, <1>5
<1>6. CASE Up
  <2>1. pc' # "E2"
    BY <1>6 DEF Up
  <2> QED BY <2>1, <1>1, <1>6, UpOn
<1>7. CASE Return
  <2>1. pc' # "E2"
    BY <1>7 DEF Return
  <2> QED BY <2>1, <1>1, <1>7, ReturnOn
<1> QED BY <1>2, <1>3, <1>4, <1>5, <1>6, <1>7 DEF Next

\* At rest nothing is on the path, so the heap is what it was.
LEMMA AtRest ==
    ASSUME NEW path \in Seq(Cells), On(path), pc = "gc", heap0 \in Heaps,
           car \in [Cells -> Cells \union {Null}], cdr \in [Cells -> Cells \union {Null}],
           atoms \subseteq Cells
    PROVE  car = heap0.car /\ cdr = heap0.cdr /\ atoms = heap0.atoms
<1>1. Len(path) = 0
  BY DEF On, Shape
<1>2. \A c \in Cells :
         car[c] = heap0.car[c] /\ cdr[c] = heap0.cdr[c] /\ (c \in atoms <=> c \in heap0.atoms)
  BY <1>1 DEF On, Restores
<1>3. heap0.car \in [Cells -> Cells] /\ heap0.cdr \in [Cells -> Cells] /\ heap0.atoms \subseteq Cells
  BY HeapFacts
<1> QED BY <1>2, <1>3

\* The types, with links that may be (pointer)0 at any time.
Typed ==
    /\ car \in [Cells -> Cells \union {Null}] /\ cdr \in [Cells -> Cells \union {Null}]
    /\ atoms \subseteq Cells /\ marks \subseteq Cells
    /\ p \in Cells \union {Null} /\ t \in Cells \union {Null}
    /\ calls \in Seq(Call) /\ todo \in Seq(Cells)
    /\ pc \in {"gc", "E2", "vector", "E4", "E5", "E6"}

LEMMA TypedStep ==
    ASSUME Inv, Next
    PROVE  Typed' /\ heap0' = heap0 /\ vlen' = vlen
<1>1. Typed
  BY Basics DEF Inv, TypeOK, Typed
<1>2. PICK path \in Seq(Cells) : On(path)
  BY DEF Inv
<1>3. pc \notin {"gc", "vector"} => p \in Cells
  BY <1>2 DEF On, Shape
<1>4. CASE NextRoot
  <2>1. Head(todo) \in Cells /\ Tail(todo) \in Seq(Cells)
    BY <1>1, <1>4 DEF Typed, NextRoot
  <2> QED BY <2>1, <1>1, <1>4 DEF Typed, NextRoot
<1>5. CASE Visit
  <2>1. [p |-> p, t |-> t, i |-> 0] \in Call
    BY <1>1, <1>3, <1>5 DEF Call, Typed, Visit
  <2>2. calls' \in Seq(Call)
    BY <2>1, <1>1, <1>5 DEF Typed, Visit
  <2> QED BY <2>2, <1>1, <1>3, <1>5 DEF Typed, Visit
<1>6. CASE VectorCell
  <2> DEFINE N == Len(calls)
             f == calls[N]
  <2>1. pc = "vector"
    BY <1>6 DEF VectorCell
  <2>2. N \in 1..N /\ f \in Call /\ f.p \in Cells /\ f.t \in Cells \union {Null} /\ f.i \in Nat
        /\ f.p = path[Len(path)]
    BY <2>1, <1>1, <1>2, TopVector, Basics DEF Call
  <2>3. CASE f.i < vlen[f.p]
    <3>1. f.p + 1 + f.i \in Cells
      <4>1. vlen[f.p] \in Nat /\ f.p \in Nat /\ vlen = heap0.vlen /\ heap0 \in Heaps
        BY <2>2, Basics, CellsAssumption
      <4>2. PICK v \in Cells, i \in Nat : v = f.p /\ i = f.i /\ i < vlen[v]
        BY <2>2, <2>3
      <4>3. i + 1 \in 1..vlen[v] /\ v + (i + 1) = v + 1 + i
        <5>1. v \in Nat /\ vlen[v] \in Nat /\ i < vlen[v]
          BY <4>1, <4>2
        <5>2. \A a, b \in Nat : (i < b => i + 1 \in 1..b) /\ a + (i + 1) = a + 1 + i
          OBVIOUS
        <5> QED BY <5>1, <5>2
      <4> QED BY <4>1, <4>2, <4>3, VectorCells
    <3>2. [f EXCEPT !.i = f.i + 1] \in Call
      BY <2>2 DEF Call
    <3>3. calls' = [calls EXCEPT ![N] = [f EXCEPT !.i = f.i + 1]]
      BY <2>3, <1>6 DEF VectorCell
    <3>4. calls' \in Seq(Call)
      BY <3>2, <3>3, <2>2, <1>1 DEF Typed
    <3> QED BY <3>1, <3>4, <2>3, <1>1, <1>6 DEF Typed, VectorCell
  <2>4. CASE ~ (f.i < vlen[f.p])
    <3>1. calls' = SubSeq(calls, 1, N - 1)
      BY <2>4, <1>6 DEF VectorCell
    <3>2. calls \in Seq(Call) /\ Len(calls) > 0
      BY <2>2, <1>1 DEF Typed
    <3>3. calls' \in Seq(Call)
      BY <3>1, <3>2, CutFacts
    <3> QED BY <3>3, <2>2, <2>4, <1>1, <1>6 DEF Typed, VectorCell
  <2> QED BY <2>3, <2>4
<1>7. CASE DownCar
  BY <1>1, <1>3, <1>7 DEF Typed, DownCar, Unvisited
<1>8. CASE DownCdr
  BY <1>1, <1>3, <1>8 DEF Typed, DownCdr, Unvisited
<1>9. CASE Up
  <2>1. t \in Cells /\ p \in Cells
    BY <1>1, <1>3, <1>9 DEF Typed, Up
  <2>2. car \in [Cells -> Cells \union {Null}] /\ cdr \in [Cells -> Cells \union {Null}]
    BY <1>1 DEF Typed
  <2>3. car[t] \in Cells \union {Null} /\ cdr[t] \in Cells \union {Null}
    BY <2>1, <2>2
  <2>4. [car EXCEPT ![t] = p] \in [Cells -> Cells \union {Null}]
    BY <2>1, <2>2
  <2>5. [cdr EXCEPT ![t] = p] \in [Cells -> Cells \union {Null}]
    BY <2>1, <2>2
  <2>6. p' \in Cells /\ UNCHANGED <<vlen, marks, calls, todo, heap0>>
    BY <2>1, <1>9 DEF Up
  <2>7. t' \in Cells \union {Null} /\ atoms' \subseteq Cells
    BY <2>1, <2>3, <1>1, <1>9 DEF Typed, Up
  <2>8. car' \in [Cells -> Cells \union {Null}] /\ cdr' \in [Cells -> Cells \union {Null}]
    BY <2>2, <2>4, <2>5, <1>9 DEF Up
  <2>9. pc' \in {"E5", "E6"}
    BY <1>9 DEF Up
  <2> QED BY <2>6, <2>7, <2>8, <2>9, <1>1 DEF Typed
<1>10. CASE Return
  BY <1>1, <1>10 DEF Typed, Return
<1> QED BY <1>4, <1>5, <1>6, <1>7, <1>8, <1>9, <1>10 DEF Next

LEMMA ReachedStep == ASSUME Inv, Next PROVE Reached'
<1> DEFINE R == Reach(heap0, Roots(heap0))
<1>1. heap0' = heap0 /\ todo \in Seq(Cells)
  BY TypedStep, Basics
<1>2. marks' \subseteq R
  <2>1. marks' = marks \/ (pc = "E2" /\ marks' = marks \union {p})
    BY DEF Next, NextRoot, Visit, VectorCell, DownCar, DownCdr, Up, Return
  <2> QED BY <2>1 DEF Inv, Reached
<1>3. PICK q \in Seq(Cells) : On(q)'
  BY PathStep
<1>4. pc' \notin {"gc", "vector"} => p' \in R
  <2>1. pc' \in {"E4", "E5", "E6"} => p' \in marks'
    BY <1>3 DEF On, Closed
  <2>2. pc' \in {"gc", "E2", "vector", "E4", "E5", "E6"}
    BY TypedStep DEF Typed
  <2> QED BY <2>1, <2>2, <1>2, PathStep
<1>5. \A j \in DOMAIN todo' : todo'[j] \in Roots(heap0)
  <2>1. \A j \in DOMAIN todo : todo[j] \in Roots(heap0)
    BY DEF Inv, Reached
  <2>2. CASE todo' = todo
    BY <2>1, <2>2
  <2>3. CASE todo # <<>> /\ todo' = Tail(todo)
    BY <2>1, <2>3, <1>1
  <2> QED BY <2>2, <2>3 DEF Next, NextRoot, Visit, VectorCell, DownCar, DownCdr, Up, Return
<1> QED BY <1>1, <1>2, <1>4, <1>5 DEF Reached

LEMMA InvInit == Init => Inv
<1> SUFFICES ASSUME Init PROVE Inv
  OBVIOUS
<1>1. /\ heap0 \in Heaps /\ car = heap0.car /\ cdr = heap0.cdr /\ atoms = heap0.atoms
      /\ vlen = heap0.vlen /\ todo = heap0.roots /\ marks = {}
      /\ p = Null /\ t = Null /\ calls = <<>> /\ pc = "gc"
  BY DEF Init
<1>2. /\ heap0.car \in [Cells -> Cells] /\ heap0.cdr \in [Cells -> Cells]
      /\ heap0.atoms \in SUBSET Cells /\ heap0.roots \in Seq(Cells)
  BY <1>1, HeapFacts
<1>3. TypeOK
  BY <1>1, <1>2 DEF TypeOK
<1>4. Reached
  BY <1>1 DEF Reached, Roots
<1>5. <<>> \in Seq(Cells) /\ On(<<>>)
  <2>1. Shape(<<>>)
    BY <1>1 DEF Shape
  <2>2. Restores(<<>>)
    BY <1>1 DEF Restores, From
  <2>3. Frames(<<>>)
    BY <1>1 DEF Frames, FramesFound, FramesFit, FramesInOrder
  <2>4. Closed(<<>>)
    BY <1>1 DEF Closed
  <2> QED BY <2>1, <2>2, <2>3, <2>4 DEF On
<1> QED BY <1>1, <1>3, <1>4, <1>5 DEF Inv

LEMMA InvStep == Inv /\ [Next]_vars => Inv'
<1> SUFFICES ASSUME Inv, [Next]_vars PROVE Inv'
  OBVIOUS
<1>1. CASE Next
  <2>1. Typed' /\ heap0' = heap0 /\ vlen' = vlen /\ heap0 \in Heaps
    BY <1>1, TypedStep, Basics
  <2>2. PICK q \in Seq(Cells) : On(q)'
    BY <1>1, PathStep
  <2>3. pc' = "gc" => car' = heap0.car /\ cdr' = heap0.cdr
    <3>1. ASSUME pc' = "gc" PROVE \A c \in Cells : car'[c] = heap0.car[c] /\ cdr'[c] = heap0.cdr[c]
      <4>1. Len(q) = 0
        BY <3>1, <2>2 DEF On, Shape
      <4> QED BY <4>1, <2>1, <2>2 DEF On, Restores
    <3> QED BY <3>1, <2>1, HeapFacts DEF Typed
  <2>4. TypeOK'
    BY <2>1, <2>3, HeapFacts DEF TypeOK, Typed
  <2> QED BY <2>1, <2>2, <2>4, <1>1, ReachedStep DEF Inv
<1>2. CASE UNCHANGED vars
  <2>1. TypeOK' /\ Reached'
    BY <1>2 DEF Inv, TypeOK, Reached, vars
  <2>2. PICK path \in Seq(Cells) : On(path)
    BY DEF Inv
  <2>3. \A k : From(path, k)' = From(path, k) /\ After(path, k)' = After(path, k)
    BY <1>2 DEF From, After, vars
  <2>4. Shape(path)'
    BY <2>2, <1>2 DEF On, Shape, vars, Inner
  <2>5. Restores(path)'
    BY <2>2, <2>3, <1>2 DEF On, Restores, vars
  <2>6. Frames(path)'
    <3>1. \A n \in 1..Len(calls) : \E k \in 1..Len(path) :
             /\ calls[n].p = path[k] /\ vlen[path[k]] > 0
             /\ calls[n].t = From(path, k)' /\ calls[n].i <= vlen[path[k]]
             /\ k < Len(path) \/ pc # "vector" =>
                   calls[n].i > 0 /\ After(path, k)' = path[k] + calls[n].i
      BY <2>2, <2>3 DEF On, Frames, FramesFit
    <3>2. UNCHANGED <<calls, vlen, pc>>
      BY <1>2 DEF vars
    <3>3. FramesFit(path)'
      BY <3>1, <3>2 DEF FramesFit
    <3>4. FramesFound(path)' /\ FramesInOrder(path)'
      BY <3>2, <2>2 DEF On, Frames, FramesFound, FramesInOrder
    <3> QED BY <3>2, <3>3, <3>4, <2>2 DEF On, Frames
  <2>7. Closed(path)'
    BY <2>2, <1>2 DEF On, Closed, vars
  <2> QED BY <2>1, <2>2, <2>4, <2>5, <2>6, <2>7, <1>2 DEF Inv, On, vars
<1> QED BY <1>1, <1>2

LEMMA InvSafe == Inv => MarkingSafe
<1> SUFFICES ASSUME Inv PROVE MarkingSafe
  OBVIOUS
<1>1. PICK path \in Seq(Cells) : On(path)
  BY DEF Inv
<1>2. path \in Paths
  BY <1>1, PathIsShort DEF On, Shape
<1>3. pc = "gc" => car = heap0.car /\ cdr = heap0.cdr /\ atoms = heap0.atoms
  BY <1>1, AtRest, Basics
<1>4. ASSUME Done PROVE marks = Reach(heap0, Roots(heap0))
  <2>1. pc = "gc" /\ todo = <<>> /\ path = <<>>
    BY <1>1, <1>4 DEF Done, On, Shape
  <2>2. \A m \in marks : Children(heap0, m) \subseteq marks
    BY <2>1, <1>1 DEF On, Closed
  <2>3. Roots(heap0) \subseteq marks
    BY <2>1, <1>1 DEF On, Closed, Roots
  <2>4. marks \in SUBSET Cells /\ heap0 \in Heaps
    BY Basics
  <2>5. Reach(heap0, Roots(heap0)) \subseteq marks
    BY <2>2, <2>3, <2>4, ReachFacts
  <2> QED BY <2>5 DEF Inv, Reached
<1> QED BY <1>1, <1>2, <1>3, <1>4 DEF MarkingSafe, Inv, On

\* For any number of cells, any heap the allocator builds and any roots: the links turned round
\* can be restored from the path at any moment and are restored between two roots, and
\* in the end what the roots reach is marked and nothing else (n447, n489:9-29).
THEOREM Marking == Spec => []MarkingSafe
<1>1. Spec => []Inv
  BY InvInit, InvStep, PTL DEF Spec
<1> QED BY <1>1, InvSafe, PTL

=============================================================================
