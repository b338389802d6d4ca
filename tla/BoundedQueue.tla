---------------------------- MODULE BoundedQueue ----------------------------
(***************************************************************************)
(* A bounded queue between one producer and many consumers: items come out *)
(* in the order 1, 2, 3, ... in which they were put in, each to one        *)
(* consumer.                                                               *)
(***************************************************************************)
EXTENDS Integers, Sequences

CONSTANTS Consumer, Capacity, Items

VARIABLES items,  \* The queue.
          last,   \* The last item put in.
          holds   \* holds[c]: the item consumer c works on, or 0.

vars == <<items, last, holds>>

Init == items = <<>> /\ last = 0 /\ holds = [c \in Consumer |-> 0]

Put ==
  /\ Len(items) < Capacity /\ last < Items
  /\ last' = last + 1
  /\ items' = Append(items, last')
  /\ UNCHANGED holds

Take(c) ==
  /\ items # <<>> /\ holds[c] = 0
  /\ holds' = [holds EXCEPT ![c] = Head(items)]
  /\ items' = Tail(items)
  /\ UNCHANGED last

Drop(c) ==
  /\ holds[c] # 0
  /\ holds' = [holds EXCEPT ![c] = 0]
  /\ UNCHANGED <<items, last>>

Next == Put \/ \E c \in Consumer : Take(c) \/ Drop(c)

Spec == Init /\ [][Next]_vars

=============================================================================
