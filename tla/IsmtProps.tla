------------------------------ MODULE IsmtProps ------------------------------
(***************************************************************************)
(* What the ismt driver promises, with and without timeouts.               *)
(***************************************************************************)
EXTENDS Ismt

\* Every variable keeps its type.  The driver builds its next descriptor in a slot that
\* the controller does not have, and the one the controller executes stays as it was
\* given, also after timeouts (v030:236), until the controller was given the whole ring:
\* the driver never compares head with FMTP.  That takes a timeout for every slot but one.
DescNotBusy ==
  /\ TypeOK
  /\ timeouts < ISMT_DESC_ENTRIES - 1 => ~ lapped
  /\ ~ lapped =>
       /\ pc \in {"built", "ready"} => head \notin owed
       /\ chip # Idle => fmtp \in owed /\ hw[fmtp] = chip

\* A transfer that reports success was executed, and a read that does so returns
\* its own data, whatever late transfers did to the buffer, unless the controller was
\* given the whole ring.
ReadsOwnData ==
  [][\A x \in Transfer : ~ lapped /\ result'[x] = "ok" /\ result[x] # "ok" =>
       /\ hw[head].xfer = x /\ hw[head].status = "SCS"
       /\ hw[head].kind = "read" => data'[x] = x]_vars

\* n228 ("Processing completed descriptor"): the controller has finished the
\* descriptor that is processed.
CompletedBeforeProcessed == pc = "process" => hw[head].status # "none"

\* As long as no transfer has timed out it has, however the completions of
\* messages, of the line and of reinit_completion interleave, and the one buffer
\* is not touched while the controller sends from it.
OrderedWithoutTimeout ==
  timeouts = 0 =>
    /\ CompletedBeforeProcessed
    /\ chip # Idle /\ chip.kind = "write" => buffer = chip.xfer

(***************************************************************************)
(* Fairness: the driver's thread, the interrupt handler and the controller *)
(* get on.  A timeout need not come.                                       *)
(***************************************************************************)
FairSpec ==
  /\ Spec
  /\ WF_vars(Undisturbed) /\ WF_vars(Interrupt) /\ WF_vars(Controller)

\* Every transfer returns, though no timeout has to come to its help and the
\* interrupt of one that timed out may wake the next; unless the whole ring was given,
\* which the controller takes for an empty one: then it may need its timeout.
AllReturn == <>(lapped \/ (pc = "idle" /\ xfer = Transfers))

=============================================================================
