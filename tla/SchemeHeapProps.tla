-------------------------- MODULE SchemeHeapProps --------------------------
(***************************************************************************)
(* What the allocator and the collector owe the interpreter.               *)
(***************************************************************************)
EXTENDS SchemeHeap

Live == Marked(sc, Roots(sc) \union locals) \intersect Cell

\* The type invariant.
TypeOK ==
    /\ sc.type \in [Addr -> {"free", "pair", "atom", "vector"}]
    /\ \A link \in {sc.car, sc.cdr} : link \in [Addr -> Addr \union {NIL}]
    /\ sc.len \in [Addr -> {0} \union VectorLengths]
    /\ sc.segs \subseteq 1..CELL_NSEGMENT /\ sc.malloc = <<>> /\ sc.fcells \in 0..Cardinality(Cell)
    /\ {sc.args, sc.value} \union locals \subseteq Addr \union {NIL}

\* Types are kept, and the free list holds every free cell of the segments, once, in address order, as
\* the search for consecutive cells needs it (n489:35-39, n445:41), and fcells counts them.
FreeListExact ==
    /\ TypeOK
    /\ LET f == FreeList(sc) IN
       /\ {f[i] : i \in DOMAIN f} = {c \in CellsOf(sc) : sc.type[c] = "free"}
       /\ \A i, j \in DOMAIN f : i < j => f[i] < f[j]
       /\ sc.fcells = Len(f)

\* An allocation changes no object in use, be it known to the interpreter or only to
\* the primitive that allocated it, although it may collect twice (n483, n487, n489:24).
AllocKeepsLive ==
    [][locals' # {} /\ locals' # locals =>
        \A c \in Live : /\ sc'.type[c] = sc.type[c] /\ sc'.len[c] = sc.len[c]
                        /\ sc'.car[c] = sc.car[c] /\ sc'.cdr[c] = sc.cdr[c]]_vars

\* The cells of a vector in use follow it inside one segment, and are neither free nor
\* part of another (n414, n434).
VectorsIntact ==
    \A v \in Live : sc.type[v] = "vector" =>
        LET inner == Children(sc, v) IN
        /\ \E k \in sc.segs : inner \union {v} \subseteq Base(k)..(Base(k) + CELL_SEGSIZE - 1)
        /\ \A c \in inner : sc.type[c] = "pair"
        /\ \A w \in Live \ {v} : sc.type[w] = "vector" => (Children(sc, w) \union {w}) \intersect inner = {}

\* Memory is exhausted only when what is in use leaves no room, no two cells for an object and
\* its holder or no run of cells for a vector and one more cell for its holder, and the
\* heap could not grow: all segments are there, malloc refused one, or the vector is longer
\* than a segment (n329:11-17, n434:15-27).
NoMemoryJustified ==
    [][sc'.no_memory /\ ~ sc.no_memory =>
        LET unused == CellsOf(sc') \ Live
            Refused == Cardinality(sc'.segs) = CELL_NSEGMENT \/ sc'.refused
        IN /\ AllocateCells => Cardinality(unused) < 2 /\ Refused
           /\ \A len \in VectorLengths :
                LET n == InnerCells(len) + 1 IN
                AllocateVector(len) =>
                    \/ /\ \A c \in unused : ~ c..(c + n - 1) \subseteq unused
                       /\ Refused \/ n > CELL_SEGSIZE
                    \/ Cardinality(unused) = n /\ Refused]_vars
=============================================================================
