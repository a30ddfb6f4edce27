-------------------------------- MODULE Dashboard --------------------------------
(***************************************************************************)
(* The dashboard with both demonstrations and the platform they            *)
(* demonstrate: reviewers press buttons and leave, the dashboard is rolled *)
(* out, main moves, Argo CD syncs, jobs are worked off.                    *)
(***************************************************************************)
EXTENDS DriftDemo, LoadDemo

vars == <<serverVars, driftVars, loadVars>>

Init == ServerInit /\ DriftInit /\ LoadInit

Finish(r) == Return(r) /\ ForgetDrift({r}) /\ ForgetLoad({r})

HandlerStep(r) ==
    /\ Active(r)
    /\ \/ DriftStep(r) /\ UNCHANGED loadVars
       \/ LoadStep(r) /\ UNCHANGED driftVars
       \/ Finish(r)

Reviewer(r) ==
    /\ (\E name \in Names, p \in Processes : Press(r, name, p)) \/ Leave(r)
    /\ UNCHANGED <<driftVars, loadVars>>

Rollout(p) ==
    \/ ProcessStarts(p) /\ UNCHANGED <<driftVars, loadVars>>
    \/ LET cut == {r \in Requests : by[r] = p}
       IN  ProcessEnds(p) /\ ForgetDrift(cut) /\ ForgetLoad(cut)

Platform ==
    \/ (\E limit \in Limits : Sync(limit)) /\ UNCHANGED <<serverVars, loadVars>>
    \/ (\E gone \in SUBSET Requests : JobsLeave(gone)) /\ UNCHANGED <<serverVars, driftVars>>

Next ==
    \/ \E r \in Requests : HandlerStep(r) \/ Reviewer(r)
    \/ \E r \in Requests : PatchAnswerLost(r) /\ UNCHANGED loadVars
    \/ \E p \in Processes : Rollout(p)
    \/ Platform

Spec == Init /\ [][Next]_vars

\* Calls have timeouts and the tickers tick, so a handler keeps going.  Nothing
\* else is obliged to happen.
FairSpec == Spec /\ \A r \in Requests : WF_vars(HandlerStep(r))

--------------------------------------------------------------------------------
\* The deadline of the demonstration r is in.
Patience(r) == IF declared[r] = NoLimit THEN LoadPatience ELSE DriftPatience

WithinPatience == \A r \in Requests : polls[r] < Patience(r)

TypeOK == ServerTypeOK /\ DriftTypeOK /\ LoadTypeOK /\ WithinPatience

\* "One demonstration at a time" (main.go:42-44): a process runs at most one,
\* and its lock names it for exactly as long as the handler runs, through
\* refused requests, reviewers who leave, errors and restarts.
LockMatchesHandler ==
    \A p \in Processes :
        /\ running[p] = "" <=> ~\E r \in Requests : by[r] = p
        /\ \A r, q \in Requests : by[r] = p /\ by[q] = p => r = q

\* "Reverted, with no human involved" (runs.go:75-79): when the demonstration
\* passes, its patch had landed and the limit has since left the drifted value
\* - also when another process drifted the same Deployment at the time.
DriftPassIsReal ==
    \A r \in Requests :
        at[r] = "returned" /\ err[r] = "nil" /\ declared[r] # NoLimit
            => Drifted \in since[r] /\ since[r] \cap Limits # {}

\* When the drift cannot be confirmed, "the drift did not apply" (runs.go:53) is
\* never the reason: it did, and the platform was faster than the second read.
ConfirmFailsOnlyAfterRevert ==
    \A r \in Requests :
        err[r] = "did not apply" => Drifted \in since[r] /\ since[r] \cap Limits # {}

\* Self-heal is only blamed (runs.go:85) for a limit that really stayed: unless
\* Git moved or the Deployment was patched again, the reverted value was never
\* there.
SelfHealBlamedRightly ==
    \A r \in Requests :
        err[r] = "survived" /\ since[r] \subseteq {Drifted, declared[r]}
            => since[r] = {Drifted}

\* "Replica count alone proves only that the autoscaler acted" (runs.go:178-181):
\* a pass means none of the jobs is left on the list, whatever the API could
\* not tell meanwhile and whoever else queued some.
LoadPassIsReal ==
    \A r \in Requests :
        at[r] = "returned" /\ err[r] = "nil" /\ declared[r] = NoLimit
            => r \notin backlog

\* A demonstration ends and gives its lock back (main.go:246-250), whatever the
\* platform does or fails to do, and "a failure is streamed, not swallowed"
\* (main.go:288): a reviewer is told how it ended, unless he left before or the
\* process that was telling him ended.
EveryDemonstrationEnds ==
    \A r \in Requests : Active(r) ~> at[r] = "over" /\ told[r] # "nothing"
================================================================================
