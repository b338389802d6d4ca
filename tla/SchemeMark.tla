----------------------------- MODULE SchemeMark -----------------------------
(***************************************************************************)
(* The marking phase of the TinyScheme garbage collector: the traversal    *)
(* that turns the links of the objects round instead of keeping a stack.   *)
(* Only the cells of a vector are marked by a call to itself.  gc() calls  *)
(* it for one root after another, without asking whether the root has been *)
(* reached before.                                                         *)
(***************************************************************************)
EXTENDS Integers, Sequences, FiniteSets

CONSTANTS
    Cells,      \* addresses of cells
    Heaps       \* heaps to collect: links, flags, lengths of vectors, roots

ASSUME CellsAssumption == Cells \subseteq Nat \ {0} /\ IsFiniteSet(Cells)

Null == 0       \* (pointer)0

VARIABLES
    car, cdr,   \* the links, turned round on the path being walked
    atoms,      \* T_ATOM: not to be followed, or, on the path, car was moved
    vlen,       \* cells that follow a vector, 0 for anything else
    marks,      \* MARK
    p, t,       \* the cell being visited, the cell it was reached from
    calls,      \* frames of the calls for the cells of vectors
    pc,         \* the label of mark() to continue at
    todo,       \* roots still to be marked
    heap0       \* the roots, links and flags before the collection

vars == <<car, cdr, atoms, vlen, marks, p, t, calls, pc, todo, heap0>>

\* Cells inside a vector: nothing points at them but the vector before them.
Inner(len) == {c \in Cells : \E v \in Cells : v < c /\ c <= v + len[v]}

\* Heaps the allocator builds: a vector is an atom followed by its cells, which
\* are pairs, and no link leads into the middle of one.
WellFormed(h) ==
    /\ \A v \in Cells : h.vlen[v] > 0 =>
          /\ v \in h.atoms
          /\ (v + 1)..(v + h.vlen[v]) \subseteq Cells \ h.atoms
    /\ \A c \in Cells : {h.car[c], h.cdr[c]} \cap Inner(h.vlen) = {}
    /\ \A i \in DOMAIN h.roots : h.roots[i] \notin Inner(h.vlen)

ASSUME HeapsAssumption ==
    \A h \in Heaps :
        /\ h.car \in [Cells -> Cells] /\ h.cdr \in [Cells -> Cells]
        /\ h.atoms \in SUBSET Cells /\ h.vlen \in [Cells -> Nat]
        /\ h.roots \in Seq(Cells)
        /\ WellFormed(h)

Init ==
    /\ heap0 \in Heaps
    /\ LET h == heap0 IN
       car = h.car /\ cdr = h.cdr /\ atoms = h.atoms /\ vlen = h.vlen
    /\ todo = heap0.roots
    /\ marks = {}
    /\ p = Null /\ t = Null /\ calls = <<>> /\ pc = "gc"

\* gc(): the next root, or the end of the marking.
NextRoot ==
    /\ pc = "gc" /\ todo # <<>>
    /\ p' = Head(todo) /\ t' = Null /\ pc' = "E2"
    /\ todo' = Tail(todo)
    /\ UNCHANGED <<car, cdr, atoms, vlen, marks, calls, heap0>>

\* E2: the cell is marked; an atom is left at once, but a vector has cells.
Visit ==
    /\ pc = "E2"
    /\ marks' = marks \union {p}
    /\ pc' = IF vlen[p] > 0 THEN "vector" ELSE IF p \in atoms THEN "E6" ELSE "E4"
    /\ calls' = IF vlen[p] > 0 THEN Append(calls, [p |-> p, t |-> t, i |-> 0]) ELSE calls
    /\ UNCHANGED <<car, cdr, atoms, vlen, p, t, todo, heap0>>

\* A vector of odd length loses its last cell.
VectorCell_Short_Bug ==
    /\ pc = "vector"
    /\ LET f == calls[Len(calls)] IN
       IF f.i < vlen[f.p] - 1
       THEN /\ p' = f.p + 1 + f.i /\ t' = Null /\ pc' = "E2"
            /\ calls' = [calls EXCEPT ![Len(calls)].i = @ + 1]
       ELSE /\ p' = f.p /\ t' = f.t /\ pc' = "E6"
            /\ calls' = SubSeq(calls, 1, Len(calls) - 1)
    /\ UNCHANGED <<car, cdr, atoms, vlen, marks, todo, heap0>>

\* for (i...) mark(p + 1 + i): a call of its own for the next cell.
VectorCell ==
    /\ pc = "vector"
    /\ LET f == calls[Len(calls)] IN
       IF f.i < vlen[f.p]
       THEN /\ p' = f.p + 1 + f.i /\ t' = Null /\ pc' = "E2"
            /\ calls' = [calls EXCEPT ![Len(calls)].i = @ + 1]
       ELSE /\ p' = f.p /\ t' = f.t /\ pc' = "E6"
            /\ calls' = SubSeq(calls, 1, Len(calls) - 1)
    /\ UNCHANGED <<car, cdr, atoms, vlen, marks, todo, heap0>>

Unvisited(q) == q # Null /\ q \notin marks

\* No note that it was car that was turned round.
DownCar_NoNote_Bug ==
    /\ pc = "E4"
    /\ IF Unvisited(car[p])
       THEN /\ car' = [car EXCEPT ![p] = t]
            /\ t' = p /\ p' = car[p] /\ pc' = "E2"
       ELSE pc' = "E5" /\ UNCHANGED <<car, t, p>>
    /\ UNCHANGED <<cdr, atoms, vlen, marks, calls, todo, heap0>>

\* E4: down along car, which from now on holds the way back.
DownCar ==
    /\ pc = "E4"
    /\ IF Unvisited(car[p])
       THEN /\ atoms' = atoms \union {p}
            /\ car' = [car EXCEPT ![p] = t]
            /\ t' = p /\ p' = car[p] /\ pc' = "E2"
       ELSE pc' = "E5" /\ UNCHANGED <<atoms, car, t, p>>
    /\ UNCHANGED <<cdr, vlen, marks, calls, todo, heap0>>

\* E5: down along cdr.
DownCdr ==
    /\ pc = "E5"
    /\ IF Unvisited(cdr[p])
       THEN /\ cdr' = [cdr EXCEPT ![p] = t]
            /\ t' = p /\ p' = cdr[p] /\ pc' = "E2"
       ELSE pc' = "E6" /\ UNCHANGED <<cdr, t, p>>
    /\ UNCHANGED <<car, atoms, vlen, marks, calls, todo, heap0>>

\* E6: up, and the link that was turned round gets its old value.
Up ==
    /\ pc = "E6" /\ t # Null
    /\ IF t \in atoms
       THEN /\ atoms' = atoms \ {t}
            /\ t' = car[t] /\ car' = [car EXCEPT ![t] = p] /\ pc' = "E5"
            /\ UNCHANGED cdr
       ELSE /\ t' = cdr[t] /\ cdr' = [cdr EXCEPT ![t] = p]
            /\ UNCHANGED <<atoms, car, pc>>
    /\ p' = t
    /\ UNCHANGED <<vlen, marks, calls, todo, heap0>>

\* E6 with nothing above: the call returns, to the vector or to gc().
Return ==
    /\ pc = "E6" /\ t = Null
    /\ pc' = IF calls = <<>> THEN "gc" ELSE "vector"
    /\ UNCHANGED <<car, cdr, atoms, vlen, marks, p, t, calls, todo, heap0>>

Next == NextRoot \/ Visit \/ VectorCell \/ DownCar \/ DownCdr \/ Up \/ Return

Spec == Init /\ [][Next]_vars /\ WF_vars(Next)

Done == pc = "gc" /\ todo = <<>>
=============================================================================
