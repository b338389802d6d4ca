---------------------------- MODULE FuseService ----------------------------
(***************************************************************************)
(* What a FUSE connection promises to the callers of the filesystem: each  *)
(* request is taken by the daemon at most once, is over once, and its      *)
(* outcome is the reply of the daemon or an error with a reason.           *)
(***************************************************************************)
CONSTANTS Requests,  \* Every request ever made.
          Silent     \* Those that are consumed without an answer.

VARIABLES open,      \* The connection is up.
          status,    \* "new", "queued", "taken" by the daemon, "over".
          outcome    \* What the caller is told.

vars == <<open, status, outcome>>

Init ==
  /\ open = TRUE
  /\ status = [r \in Requests |-> "new"]
  /\ outcome = [r \in Requests |-> "none"]

Finish(r, why) ==
  /\ status' = [status EXCEPT ![r] = "over"]
  /\ outcome' = [outcome EXCEPT ![r] = why]
  /\ UNCHANGED open

Advance(r, from, to) ==
  /\ open /\ status[r] = from
  /\ status' = [status EXCEPT ![r] = to]
  /\ UNCHANGED <<open, outcome>>

Submit(r) == Advance(r, "new", "queued")
Take(r) == Advance(r, "queued", "taken")

Refuse(r) == ~ open /\ status[r] = "new" /\ Finish(r, "ENOTCONN")
Withdraw(r) == status[r] = "queued" /\ Finish(r, "EINTR")
Answer(r) == status[r] = "taken" /\ r \notin Silent /\ Finish(r, "REPLY")
Consume(r) == status[r] = "taken" /\ r \in Silent /\ Finish(r, "none")

\* The request or its answer could not be copied.
Fail(r) == status[r] \in {"queued", "taken"} /\ Finish(r, "EIO")

EndByAbort(r) ==
  ~ open /\ status[r] \in {"queued", "taken"} /\ Finish(r, "ECONNABORTED")

Close == open /\ open' = FALSE /\ UNCHANGED <<status, outcome>>

Next ==
  \/ Close
  \/ \E r \in Requests :
       \/ Submit(r) \/ Take(r) \/ Refuse(r) \/ Withdraw(r)
       \/ Answer(r) \/ Consume(r) \/ Fail(r) \/ EndByAbort(r)

Spec == Init /\ [][Next]_vars

=============================================================================
