------------------------------ MODULE ApiReadiness ------------------------------
(***************************************************************************)
(* The readiness of a demo API pod (src/app/cmd/api): publishQueueDepth    *)
(* probes Redis every two seconds; the first success makes the pod ready,  *)
(* and only a run of failures takes it out of the Service again.           *)
(***************************************************************************)
EXTENDS Naturals

VARIABLES
    redis,      \* "up" or "down"
    failures,   \* consecutiveFailures, counted as far as it matters
    ready,      \* server.ready, what /readyz answers
    silence     \* history: probes since Redis last answered one

readinessVars == <<redis, failures, ready, silence>>

\* Three in a row.
Sustained == 3

\* Bounds the two counters: beyond Sustained nothing depends on them.
OneMore(n) == IF n < Sustained THEN n + 1 ELSE n

ReadinessInit ==
    /\ redis = "up"
    /\ failures = 0 /\ ready = FALSE /\ silence = 0

\* Mutants of ProbeSucceeds: the failures are counted, but not in a row; an
\* answer is not taken for a recovery.
ProbeSucceedsKeepingCount ==
    /\ redis = "up"
    /\ ready' = TRUE
    /\ silence' = 0
    /\ UNCHANGED <<redis, failures>>

ProbeSucceedsUnnoticed ==
    /\ redis = "up"
    /\ failures' = 0 /\ silence' = 0
    /\ UNCHANGED <<redis, ready>>

ProbeSucceeds ==
    /\ redis = "up"
    /\ failures' = 0
    /\ ready' = TRUE
    /\ silence' = 0
    /\ UNCHANGED redis

\* Mutant of Failed: nothing is ever withdrawn.
FailedQuietly ==
    /\ failures' = OneMore(failures)
    /\ UNCHANGED ready

\* A failed probe is counted; the third in a row withdraws the readiness.
Failed ==
    /\ failures' = OneMore(failures)
    /\ ready' = (ready /\ failures' < Sustained)

ProbeFails ==
    /\ redis = "down"
    /\ Failed
    /\ silence' = OneMore(silence)
    /\ UNCHANGED redis

\* A probe runs into its timeout although Redis is up.
ProbeTimesOut ==
    /\ redis = "up"
    /\ Failed
    /\ silence' = OneMore(silence)
    /\ UNCHANGED redis

Probe == ProbeSucceeds \/ ProbeFails

\* A crash or a rollout: a new process, not ready.  Redis being down is never
\* the reason, since /healthz does not ask it.
ApiRestarts ==
    /\ failures' = 0 /\ ready' = FALSE /\ silence' = 0
    /\ UNCHANGED redis
================================================================================
