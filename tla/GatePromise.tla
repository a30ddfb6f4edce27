------------------------------ MODULE GatePromise ------------------------------
(***************************************************************************)
(* What the gate promises, with nothing said of how: a pull request gets   *)
(* one verdict, once, and it is one that Verdicts allows for it (see       *)
(* PullRequest for what is allowed).                                       *)
(***************************************************************************)
CONSTANTS
    Requests,       \* the pull requests
    Verdicts(_)     \* the verdicts a pull request may get

VARIABLES request, verdict

Init == request \in Requests /\ verdict = "pending"

Decide ==
    /\ verdict = "pending"
    /\ verdict' \in Verdicts(request)
    /\ UNCHANGED request

Spec == Init /\ [][Decide]_<<request, verdict>>
================================================================================
