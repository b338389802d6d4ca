-------------------------- MODULE SchemeMarkProps --------------------------
(***************************************************************************)
(* What the marking owes the collector.                                    *)
(***************************************************************************)
EXTENDS SchemeMark

\* What an object refers to: nothing for an atom, its cells for a vector.
Children(h, c) ==
    IF h.vlen[c] > 0 THEN (c + 1)..(c + h.vlen[c])
    ELSE IF c \in h.atoms THEN {} ELSE {h.car[c], h.cdr[c]}

\* Everything that can be reached from a set of cells: what is in each set that has them
\* and, with an object, its children.
Reach(h, from) ==
    {c \in Cells : \A S \in SUBSET Cells :
        from \subseteq S /\ (\A d \in S : Children(h, d) \subseteq S) => c \in S}

Roots(h) == {h.roots[i] : i \in DOMAIN h.roots}

\* The cells between the root and the cell being visited, across all calls.
Paths ==
    UNION {{path \in [1..n -> Cells] : \A j, k \in 1..n : path[j] = path[k] => j = k} :
           n \in 0..Cardinality(Cells)}

\* What the k-th cell of a path was reached from: nothing where a call began.
From(path, k) == IF k = 1 \/ vlen[path[k - 1]] > 0 THEN Null ELSE path[k - 1]

\* The cell reached from the k-th one.
After(path, k) == IF k < Len(path) THEN path[k + 1] ELSE p

\* Walking the path back restores the heap: the link that was followed leads to where the
\* cell was reached from, and its old value is the next cell of the path; all
\* other links and flags are as they were.
Restores(path) ==
    /\ \A c \in Cells : vlen[c] > 0 \/ (\A k \in 1..Len(path) : path[k] # c) =>
          /\ car[c] = heap0.car[c] /\ cdr[c] = heap0.cdr[c]
          /\ c \in atoms <=> c \in heap0.atoms
    /\ \A k \in 1..Len(path) : vlen[path[k]] = 0 =>
          /\ path[k] \notin heap0.atoms
          /\ path[k] \in atoms =>
                /\ car[path[k]] = From(path, k) /\ heap0.car[path[k]] = After(path, k)
                /\ cdr[path[k]] = heap0.cdr[path[k]]
          /\ path[k] \notin atoms =>
                /\ cdr[path[k]] = From(path, k) /\ heap0.cdr[path[k]] = After(path, k)
                /\ car[path[k]] = heap0.car[path[k]]
    /\ pc # "vector" => t = From(path, Len(path) + 1)

\* Each vector on the path has a call under way.
FramesFound(path) ==
    \A k \in 1..Len(path) : vlen[path[k]] > 0 => \E n \in 1..Len(calls) : calls[n].p = path[k]

\* A call is for the cells of a vector on the path, and knows what its vector was reached from.
FramesFit(path) ==
    \A n \in 1..Len(calls) : \E k \in 1..Len(path) :
       /\ calls[n].p = path[k] /\ vlen[path[k]] > 0
       /\ calls[n].t = From(path, k) /\ calls[n].i <= vlen[path[k]]
       /\ k < Len(path) \/ pc # "vector" =>
             calls[n].i > 0 /\ After(path, k) = path[k] + calls[n].i

\* The outermost call is the first.
FramesInOrder(path) ==
    \A m, n \in 1..Len(calls), j, k \in 1..Len(path) :
       m < n /\ calls[m].p = path[j] /\ calls[n].p = path[k] => j < k

\* The calls under way are those of the vectors on the path, and the innermost is at its end.
Frames(path) ==
    /\ FramesFound(path) /\ FramesFit(path) /\ FramesInOrder(path)
    /\ pc = "vector" => path # <<>> /\ vlen[path[Len(path)]] > 0

Call == [p : Cells, t : Cells \union {Null}, i : Nat]

\* The type invariant: links stay among the cells, and (pointer)0 stands in one
\* only while a path is being walked.
TypeOK ==
    /\ \A link \in {car, cdr} :
          link \in [Cells -> IF pc = "gc" THEN Cells ELSE Cells \union {Null}]
    /\ atoms \subseteq Cells /\ marks \subseteq Cells
    /\ p \in Cells \union {Null} /\ t \in Cells \union {Null}
    /\ calls \in Seq(Call)
    /\ todo \in Seq(Cells)
    /\ pc \in {"gc", "E2", "vector", "E4", "E5", "E6"}

\* Types are kept, and however deep the traversal is, the links it turned round can be
\* restored from the path alone: walking back gives the heap the collection started with
\* (n447, E6).  When all roots are marked, exactly what they reach is marked (n489:9-29).
MarkingSafe ==
    /\ TypeOK
    /\ \E path \in Paths : Restores(path) /\ Frames(path)
    /\ pc = "gc" => car = heap0.car /\ cdr = heap0.cdr /\ atoms = heap0.atoms
    /\ Done => marks = Reach(heap0, Roots(heap0))

\* The marking ends, whatever the shape of the heap (n447).
Marked == <>Done

=============================================================================
