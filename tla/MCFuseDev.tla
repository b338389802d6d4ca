----------------------------- MODULE MCFuseDev -----------------------------
EXTENDS FuseDevProps, TLC
CONSTANTS s1, s2, s3, b1, b2, b3, n1, d1, d2, f1, f2,
  Scenarios   \* The sets of requests that are made in one behaviour.

\* The other requests are never made: nothing moves an owner that is "done".
MCInit ==
  /\ Init!1 /\ Init!3 /\ Init!4 /\ Init!5 /\ Init!6
  /\ \E made \in Scenarios :
       task = [r \in Requests |-> IF r \in made THEN "start" ELSE "done"]

Made == {r \in Requests : task[r] # "done" \/ fc.req[r] # NewReq(r)}

AllBusy == \A d \in Thread : thread[d] # Idle

\* Two threads are inside the kernel together, and forgets come, only in the
\* scenarios that are about them; a caller with force is signalled, to no effect,
\* while the other has not begun.
Within ==
  /\ AllBusy => Made \subseteq {b1, b2, n1}
  /\ fc.forget_list # <<>> => Made \subseteq {s1}
  /\ (\E r \in Forced : sig[r] # "none") => \A r \in Made \ Forced : task[r] = "start"

MCSpec == MCInit /\ [][Next]_vars

\* Signals, all of them fatal, come while a background request is about, and the
\* memory for a request runs out when none is.
Restrained ==
  IF Made \subseteq NoFail
  THEN sig' = sig
  ELSE \A r \in Requests : task'[r] # "get_reserved" /\ sig'[r] # "signal"

FairMCSpec == MCInit /\ [][Next /\ Restrained]_vars /\ KernelFairness

ThreadSymmetry == Permutations(Thread)
=============================================================================
