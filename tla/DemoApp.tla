--------------------------------- MODULE DemoApp ---------------------------------
(***************************************************************************)
(* The demo workload as a whole: the queue with its requests and workers   *)
(* (JobQueue), the API pod with its readiness (ApiReadiness), which see    *)
(* the same Redis, and the Service, which learns of readiness from the     *)
(* kubelet's probes some time later.                                       *)
(***************************************************************************)
EXTENDS JobQueue

VARIABLES
    failures, ready, silence,   \* of the pod, see ApiReadiness
    inService,                  \* the Service sends requests to the pod
    unready                     \* 503s in a row the kubelet got from a pod in service

INSTANCE ApiReadiness

podVars == <<failures, ready, silence, inService, unready>>
queueVars == <<pending, apiVars, workerVars, entered, faults>>
appVars == <<vars, podVars>>

KubeletThreshold == 2

AppInit == Init /\ ReadinessInit /\ inService = FALSE /\ unready = 0

Routed == \A r \in Requests : step[r] = "idle" /\ step'[r] # "idle" => inService

QueueStep == Next /\ Routed /\ UNCHANGED podVars

ProbeStep == Probe /\ UNCHANGED <<queueVars, inService, unready>>

\* The readiness probe of the kubelet asks /readyz.  One 503 does not take the pod
\* out of the Service, the second in a row does (failureThreshold).
KubeletProbes ==
    /\ IF inService /\ ~ready /\ unready + 1 < KubeletThreshold
       THEN unready' = unready + 1 /\ UNCHANGED inService
       ELSE unready' = 0 /\ inService' = ready
    /\ UNCHANGED <<vars, failures, ready, silence>>

\* A rollout replaces the pod and lets its requests finish; a crash takes them
\* along.
PodReplaced ==
    /\ ApiRestarts
    /\ inService' = FALSE /\ unready' = 0
    /\ \/ UNCHANGED step
       \/ step' = [r \in Requests |-> IF step[r] = "push" THEN "gone" ELSE step[r]]
    /\ UNCHANGED <<pending, asked, acked, tries, accepted, workerVars, entered, faults>>

AppNext ==
    \/ QueueStep
    \/ ProbeStep
    \/ ProbeTimesOut /\ UNCHANGED <<queueVars, inService, unready>>
    \/ KubeletProbes
    \/ PodReplaced

AppSpec == AppInit /\ [][AppNext]_appVars

\* Every process that runs takes steps: go-redis bounds each attempt by its
\* timeouts and BRPOP by dequeueTimeout, and the probes of the API and of the
\* kubelet have a period.  Not every probe of a Redis that is up times out.
\* Nothing obliges a fault to happen, a pod to be stopped or Redis to come back.
FairAppSpec ==
    /\ AppSpec
    /\ \A r \in Requests : WF_appVars(HandlerStep(r) /\ UNCHANGED podVars)
    /\ \A c \in Consumers : WF_appVars(ConsumerStep(c) /\ UNCHANGED podVars)
    /\ WF_appVars(ProbeStep) /\ WF_appVars(KubeletProbes)

--------------------------------------------------------------------------------
\* "A transient hiccup does not flap the API in and out of the Service"
\* (api/main.go:114-116): a running pod loses its readiness only when the last
\* three probes brought no answer, however hiccups, answers, Redis restarts and
\* restarts of the pod alternate.  Only a new pod has silence 0.
HiccupsDoNotFlap == [][ready /\ ~ready' => silence' \in {0, Sustained}]_appVars

\* "An API that cannot reach Redis has nowhere to put work and must leave the
\* Service" (manifests/apps/demo-api/deployment.yaml:82-83).
OutageWithdrawsApi == <>[](redis = "down") => <>[]~inService

\* ... and becomes ready again by itself, whichever outage, timeouts and
\* restarts of the pod precede or follow.
RecoveryRestoresApi == <>[](redis = "up") => []<>ready
================================================================================
