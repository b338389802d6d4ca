----------------------------- MODULE SchemeHeap -----------------------------
(***************************************************************************)
(* The heap of the TinyScheme interpreter: cells in segments, a free list  *)
(* in address order, vectors in consecutive cells, and a collector that    *)
(* knows the registers, the dump stack and the objects allocated since the *)
(* last step of the evaluator.  A primitive keeps further objects in C     *)
(* variables, and any allocation it makes may collect.                     *)
(*                                                                         *)
(* The register args stands for every register that frames of the dump     *)
(* stack save, value for those they do not.                                *)
(***************************************************************************)
EXTENDS Integers, FiniteSets, Sequences, SequencesExt

CONSTANTS
    CELL_SEGSIZE,    \* cells of a segment
    CELL_NSEGMENT,   \* segments the heap may have
    FIRST_CELLSEGS,  \* segments it starts with
    MinRecovered,    \* cells a collection should recover, for each segment but one
    VectorLengths,   \* lengths of vectors
    MaxLocals,       \* bound: objects one primitive allocates
    MaxDump,         \* bound: frames of the dump stack
    MaxAllocations   \* bound: objects allocated in all

ASSUME SegmentAssumption ==
    /\ CELL_SEGSIZE \in Nat \ {0} /\ MinRecovered \in Nat
    /\ FIRST_CELLSEGS \in 1..CELL_NSEGMENT

NIL == 0
Base(k) == (k - 1) * (CELL_SEGSIZE + 1) + 1     \* malloc'ed segments do not touch
Cell == UNION {Base(k)..(Base(k) + CELL_SEGSIZE - 1) : k \in 1..CELL_NSEGMENT}
Sink == Base(CELL_NSEGMENT + 1)
Addr == Cell \union {Sink}

VARIABLES
    sc,         \* the interpreter: cells, free list, segments, registers; malloc: what
                \* malloc will answer, a place for a segment or 0; refused: it gave 0
    locals,     \* objects in C variables of the running primitive
    allocations \* objects allocated so far
vars == <<sc, locals, allocations>>

--------------------------------------------------------------------------
(* Marking and sweeping.                                                   *)

\* Elements share a cell, two by two.
InnerCells(len) == (len \div 2) + (len % 2)

\* typeflag(p): 0 in a free cell; the cells of a vector are pairs.
Children(s, c) ==
    IF c \notin Addr \/ s.type[c] = "atom" THEN {}
    ELSE IF s.type[c] = "vector" THEN (c + 1)..(c + InnerCells(s.len[c]))
    ELSE {s.car[c], s.cdr[c]}

\* mark() of each root: see SchemeMark.
Marked(s, roots) ==
    LET from[marked \in SUBSET Nat] ==
            LET more == marked \union UNION {Children(s, c) : c \in marked}
            IN  IF more = marked THEN marked ELSE from[more]
    IN  from[roots]

Roots(s) == {s.args, s.value, s.car[Sink]} \union {s.dump[i] : i \in DOMAIN s.dump}

CellsOf(s) == UNION {Base(k)..(Base(k) + CELL_SEGSIZE - 1) : k \in s.segs}

\* The free list is built anew, in address order.
gc(s, a, b) ==
    LET dead == CellsOf(s) \ Marked(s, Roots(s) \union {a, b})
        after(c) == {d \in dead : d > c}
        first(cs) == IF cs = {} THEN NIL ELSE Min(cs)
    IN [s EXCEPT
         !.type = [c \in Addr |-> IF c \in dead THEN "free" ELSE @[c]],
         !.car = [c \in Addr |-> IF c \in dead THEN NIL ELSE @[c]],
         !.cdr = [c \in Addr |-> IF c \in dead THEN first(after(c)) ELSE @[c]],
         !.len = [c \in Addr |-> IF c \in dead THEN 0 ELSE @[c]],
         !.free_cell = first(dead),
         !.fcells = Cardinality(dead)]

--------------------------------------------------------------------------
(* Getting cells.                                                          *)

FreeList(s) ==
    LET from[c \in Addr \union {NIL}] == IF c = NIL THEN <<>> ELSE <<c>> \o from[s.cdr[c]]
    IN  from[s.free_cell]

Got(s, c) == [sc |-> s, x |-> c]

\* A segment at the place malloc gives, its cells in the free list after cell b (NIL: in
\* front); 0 when no segment is left or malloc gives none.
Grow(s, b) ==
    LET k == Head(s.malloc)
        newp == Base(k)
        last == newp + CELL_SEGSIZE - 1
        asked == [s EXCEPT !.malloc = Tail(@), !.refused = @ \/ k = 0]
    IN IF Cardinality(s.segs) = CELL_NSEGMENT THEN Got(s, 0)
       ELSE IF k = 0 THEN Got(asked, 0)
       ELSE Got([asked EXCEPT
                  !.segs = @ \union {k},
                  !.fcells = @ + CELL_SEGSIZE,
                  !.cdr = [c \in Addr |->
                             IF c \in newp..(last - 1) THEN c + 1
                             ELSE IF c = last THEN IF b = NIL THEN s.free_cell ELSE s.cdr[b]
                             ELSE IF c = b THEN newp ELSE @[c]],
                  !.free_cell = IF b = NIL THEN newp ELSE @], 1)

\* The new segment goes in front, wherever it lies.
alloc_cellseg_Front_Bug(s) == Grow(s, NIL)

\* alloc_cellseg(sc, 1): the cells of a new segment go into the free list at their place.
alloc_cellseg(s) ==
    LET newp == Base(Head(s.malloc))
    IN  Grow(s, IF s.free_cell = NIL \/ newp + CELL_SEGSIZE < s.free_cell THEN NIL
                ELSE FoldLeft(LAMBDA p, c : IF c < newp THEN c ELSE p, s.free_cell, FreeList(s)))

TakeFirst(s) ==
    Got([s EXCEPT !.free_cell = s.cdr[@], !.fcells = @ - 1], s.free_cell)

\* After a collection that recovers few cells the heap must grow.
_get_cell_Few_Bug(s, a, b) ==
    IF s.no_memory THEN Got(s, Sink)
    ELSE LET c == gc(s, a, b)
             few == c.fcells < (Cardinality(s.segs) - 1) * MinRecovered \/ c.free_cell = NIL
             grown == IF few THEN alloc_cellseg(c) ELSE Got(c, 1)
         IN IF grown.x = 0 THEN Got([grown.sc EXCEPT !.no_memory = TRUE], Sink)
            ELSE TakeFirst(grown.sc)

\* _get_cell, called with an empty free list.
_get_cell(s, a, b) ==
    IF s.no_memory THEN Got(s, Sink)
    ELSE LET c == gc(s, a, b)
             few == c.fcells < (Cardinality(s.segs) - 1) * MinRecovered \/ c.free_cell = NIL
             grown == IF few THEN alloc_cellseg(c) ELSE Got(c, 1)
         IN IF grown.x = 0 /\ c.free_cell = NIL
            THEN Got([grown.sc EXCEPT !.no_memory = TRUE], Sink)
            ELSE TakeFirst(grown.sc)

get_cell_x(s, a, b) == IF s.free_cell # NIL THEN TakeFirst(s) ELSE _get_cell(s, a, b)

Fill(s, c, type, a, b) ==
    [s EXCEPT !.type[c] = type, !.car[c] = a, !.cdr[c] = b]

\* The object is left to itself while its holder is allocated.
push_recent_alloc_Bare_Bug(s, recent, extra) ==
    LET g == get_cell_x(s, NIL, extra)
    IN [Fill(g.sc, g.x, "pair", recent, g.sc.car[Sink]) EXCEPT !.car[Sink] = g.x]

\* The object is entered in the list that hangs from the sink.
push_recent_alloc(s, recent, extra) ==
    LET g == get_cell_x(s, recent, extra)
    IN [Fill(g.sc, g.x, "pair", recent, g.sc.car[Sink]) EXCEPT !.car[Sink] = g.x]

get_cell(s, a, b) ==
    LET g == get_cell_x(s, a, b)
    IN  Got(push_recent_alloc(Fill(g.sc, g.x, "pair", a, b), g.x, NIL), g.x)

\* The cells that are taken follow each other in the free list, not in memory.
find_consecutive_cells_Apart_Bug(s, n) ==
    LET f == FreeList(s)
    IN IF Len(f) < n THEN Got(s, NIL)
       ELSE Got([s EXCEPT !.free_cell = s.cdr[f[n]], !.fcells = @ - n], f[1])

\* The first run of n cells in the free list is cut out of it.
find_consecutive_cells(s, n) ==
    LET f == FreeList(s)
        runs == {i \in 1..(Len(f) - n + 1) : \A k \in 1..(n - 1) : f[i + k] = f[i] + k}
        i == Min(runs)
        rest == s.cdr[f[i] + n - 1]
    IN IF runs = {} THEN Got(s, NIL)
       ELSE Got(IF i = 1 THEN [s EXCEPT !.free_cell = rest, !.fcells = @ - n]
                         ELSE [s EXCEPT !.cdr[f[i - 1]] = rest, !.fcells = @ - n], f[i])

get_consecutive_cells(s, n) ==
    IF s.no_memory THEN Got(s, Sink)
    ELSE LET fit == find_consecutive_cells(s, n)
             collected == gc(s, NIL, NIL)
             refit == find_consecutive_cells(collected, n)
             more == alloc_cellseg(collected)
             grown == find_consecutive_cells(more.sc, n)
         IN IF fit.x # NIL THEN fit
            ELSE IF refit.x # NIL THEN refit
            ELSE IF more.x = 0 THEN Got([more.sc EXCEPT !.no_memory = TRUE], Sink)
            ELSE IF grown.x # NIL THEN grown
            ELSE Got([grown.sc EXCEPT !.no_memory = TRUE], Sink)

\* g: the cells get_consecutive_cells found.
get_vector_object(g, len, init) ==
    LET n == InnerCells(len)
        inner == (g.x + 1)..(g.x + n)
        filled == [g.sc EXCEPT
                    !.type = [c \in Addr |-> IF c = g.x THEN "vector"
                                             ELSE IF c \in inner THEN "pair" ELSE @[c]],
                    !.car = [c \in Addr |-> IF c \in inner THEN init ELSE @[c]],
                    !.cdr = [c \in Addr |-> IF c \in inner THEN init ELSE @[c]],
                    !.len[g.x] = len]
    IN IF g.sc.no_memory THEN Got(g.sc, Sink)
       ELSE Got(push_recent_alloc(filled, g.x, NIL), g.x)

--------------------------------------------------------------------------
(* The evaluator and its primitives.                                       *)

Empty ==
    [type |-> [c \in Addr |-> IF c = Sink THEN "pair" ELSE "free"],
     car |-> [c \in Addr |-> NIL], cdr |-> [c \in Addr |-> NIL], len |-> [c \in Addr |-> 0],
     free_cell |-> NIL, fcells |-> 0, segs |-> {}, no_memory |-> FALSE,
     malloc |-> <<>>, refused |-> FALSE,
     args |-> NIL, value |-> NIL, dump |-> <<>>]

\* malloc may refuse, and else gives a place for a segment that it has not given before.
Answers(s, n) ==
    {m \in [1..n -> 0..CELL_NSEGMENT] :
        \A i \in 1..n : m[i] \notin s.segs /\ \A j \in 1..(i - 1) : m[i] = 0 \/ m[i] # m[j]}

\* The interpreter starts with its first segments.
Init ==
    /\ \E m \in {m \in Answers(Empty, FIRST_CELLSEGS) : 0 \notin Range(m)} :
         LET grow[n \in 0..FIRST_CELLSEGS] ==
                IF n = 0 THEN [Empty EXCEPT !.malloc = m] ELSE alloc_cellseg(grow[n - 1]).sc
         IN  sc = grow[FIRST_CELLSEGS]
    /\ locals = {} /\ allocations = 0

\* One allocation asks malloc at most twice: for the object and for its holder.
MayAsk(s) == {[s EXCEPT !.malloc = m, !.refused = FALSE] : m \in Answers(s, 2)}

WithinBounds == Cardinality(locals) < MaxLocals /\ allocations < MaxAllocations

Allocated(g) ==
    /\ allocations' = allocations + 1
    /\ sc' = [g.sc EXCEPT !.malloc = <<>>, !.refused = @ /\ g.sc.no_memory]
    /\ locals' = locals \union {g.x}

_cons(a, b) ==
    /\ WithinBounds
    /\ \E s \in MayAsk(sc) : \E g \in {get_cell(s, a, b)} :
         Allocated(Got(Fill(g.sc, g.x, "pair", a, b), g.x))

\* mk_counted_string, mk_integer and their like.
mk_counted_string ==
    /\ WithinBounds
    /\ \E s \in MayAsk(sc) : \E g \in {get_cell(s, NIL, NIL)} :
         Allocated(Got(Fill(g.sc, g.x, "atom", NIL, NIL), g.x))

mk_vector(len, init) ==
    /\ WithinBounds
    /\ \E s \in MayAsk(sc) : \E g \in {get_consecutive_cells(s, InnerCells(len) + 1)} :
         \E v \in {get_vector_object(g, len, init)} : Allocated(v)

set_cdr(x, a) ==
    /\ x \in Cell /\ sc.type[x] = "pair"
    /\ sc' = [sc EXCEPT !.cdr[x] = a] /\ UNCHANGED <<locals, allocations>>

s_save(args) ==
    /\ Len(sc.dump) < MaxDump
    /\ sc' = [sc EXCEPT !.dump = Append(@, args)] /\ UNCHANGED <<locals, allocations>>

\* The primitive ends with s_goto or s_return, and before the next one Eval_Cycle
\* forgets what it allocated: ok_to_freely_gc.
s_goto(args) ==
    /\ sc' = [sc EXCEPT !.args = args, !.car[Sink] = NIL]
    /\ locals' = {} /\ UNCHANGED allocations
_s_return(a) ==
    /\ sc.dump # <<>>
    /\ sc' = [sc EXCEPT !.value = a, !.args = sc.dump[Len(sc.dump)],
                        !.dump = SubSeq(@, 1, Len(@) - 1), !.car[Sink] = NIL]
    /\ locals' = {} /\ UNCHANGED allocations

AllocateCells ==
    \/ \E a \in {sc.value} \union locals : _cons(a, sc.args)
    \/ mk_counted_string

AllocateVector(len) == \E init \in {sc.args} \union locals : mk_vector(len, init)

Next ==
    \/ AllocateCells
    \/ \E len \in VectorLengths : AllocateVector(len)
    \/ \E x \in locals, a \in {sc.args} \union locals : set_cdr(x, a)
    \/ s_save(sc.args)
    \/ \E a \in {NIL} \union locals \union Children(sc, sc.args) : s_goto(a)
    \/ \E a \in locals : _s_return(a)

Spec == Init /\ [][Next]_vars
=============================================================================
