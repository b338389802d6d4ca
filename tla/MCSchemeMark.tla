---------------------------- MODULE MCSchemeMark ----------------------------
(***************************************************************************)
(* Every heap of a few cells, for TLC.                                     *)
(***************************************************************************)
EXTENDS SchemeMarkProps

CONSTANTS
    Count,      \* number of cells
    Vectors     \* lengths, in cells, of the vector at the first cell

MCCells == 1..Count

\* The flags of a heap whose first cell is a vector of this length; the last cell
\* stands for NIL.
Flags(len) ==
    LET inner == 2..(1 + len)
        fixed == {Count} \union (IF len > 0 THEN {1} ELSE {})
    IN {[atoms |-> fixed \union a,
         vlen |-> [c \in MCCells |-> IF c = 1 THEN len ELSE 0],
         objects |-> MCCells \ inner] : a \in SUBSET (MCCells \ (fixed \union inner))}

\* Links go anywhere but into a vector; those of an atom do not matter.
Links(f) ==
    {[c \in MCCells |-> IF c \in f.atoms THEN Count ELSE g[c]] :
        g \in [MCCells \ f.atoms -> f.objects]}

\* Two roots, the first cell and the last pair, in either order: the second may have
\* been reached from the first.
RootPairs(f) ==
    {rs \in [1..2 -> f.objects] : {rs[1], rs[2]} = f.objects \intersect {1, Count - 1}}

MCHeaps ==
    UNION {{[car |-> x, cdr |-> y, atoms |-> f.atoms, vlen |-> f.vlen, roots |-> rs] :
              x, y \in Links(f), rs \in RootPairs(f)} :
           f \in UNION {Flags(len) : len \in Vectors}}
=============================================================================
