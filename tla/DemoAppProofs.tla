------------------------------ MODULE DemoAppProofs ------------------------------
(***************************************************************************)
(* Proofs about the demo workload with its API pod: what is proved of the  *)
(* queue holds also when pods are replaced and requests are routed - the   *)
(* first-in first-out order, exactly once without faults, honest answers - *)
(* and readiness does not flap.                                            *)
(***************************************************************************)
EXTENDS DemoApp, JobQueueProofs

\* The pod's count of failures in a row is right, in any state of Redis.
Counts ==
    /\ ready \in BOOLEAN
    /\ failures \in 0..Sustained /\ silence = failures

AppInd == Ind /\ Counts

LEMMA AppInitInd == AppInit => AppInd
<1>1. AppInit => Ind
  BY InitInd DEF AppInit
<1>2. AppInit => ready \in BOOLEAN
  BY Zenon DEF AppInit, ReadinessInit
<1>3. AppInit => failures \in 0..Sustained /\ silence = failures
  BY DEF AppInit, ReadinessInit, Sustained
<1>4. QED
  BY <1>1, <1>2, <1>3 DEF AppInd, Counts

\* A pod that goes away answers none of its requests.
LEMMA PodReplacedInd == Ind /\ PodReplaced => Ind'
<1> SUFFICES ASSUME Ind, PodReplaced PROVE Ind'
  OBVIOUS
<1>1. /\ UNCHANGED <<redis, pending, asked, acked, tries, accepted, workerVars, entered, faults>>
      /\ \/ UNCHANGED step
         \/ step' = [r \in Requests |-> IF step[r] = "push" THEN "gone" ELSE step[r]]
  BY DEF PodReplaced, ApiRestarts
<1>2. /\ step' \in [Requests -> {"idle", "push", "answered", "gone"}]
      /\ \A r \in Requests : step'[r] = "idle" => step[r] = "idle"
  BY <1>1 DEF Ind, TypeOK
<1>3. TypeOK'
  BY <1>1, <1>2 DEF Ind, TypeOK, workerVars, Jobs
<1>4. QED
  BY <1>1, <1>2, <1>3 DEF Ind, workerVars

LEMMA AppNextInd == AppInd /\ [AppNext]_appVars => AppInd'
<1> SUFFICES ASSUME AppInd, [AppNext]_appVars PROVE AppInd'
  OBVIOUS
<1>1. CASE QueueStep
  <2>1. Ind'
    BY <1>1, NextInd DEF AppInd, QueueStep
  <2>2. Counts'
    BY <1>1 DEF AppInd, QueueStep, Counts, podVars
  <2>3. QED
    BY <2>1, <2>2 DEF AppInd
<1>2. ASSUME UNCHANGED vars PROVE Ind'
  BY <1>2, NextInd DEF AppInd
<1>3. CASE ProbeStep \/ (ProbeTimesOut /\ UNCHANGED <<queueVars, inService, unready>>)
  <2>1. UNCHANGED vars
    BY <1>3 DEF ProbeStep, Probe, ProbeSucceeds, ProbeFails, ProbeTimesOut, queueVars, vars, redisVars
  <2>2. ready' \in BOOLEAN
    BY <1>3, Zenon DEF AppInd, Counts, ProbeStep, Probe, ProbeSucceeds, ProbeFails, ProbeTimesOut, Failed
  <2>3. (failures \in 0..Sustained /\ silence = failures)'
    <3>1. CASE ProbeSucceeds
      BY <3>1 DEF ProbeSucceeds, Sustained
    <3>2. CASE ProbeFails \/ ProbeTimesOut
      BY <3>2 DEF AppInd, Counts, ProbeFails, ProbeTimesOut, Failed, OneMore, Sustained
    <3>3. QED
      BY <1>3, <3>1, <3>2, Zenon DEF ProbeStep, Probe
  <2>4. QED
    BY <1>2, <2>1, <2>2, <2>3 DEF AppInd, Counts
<1>4. CASE KubeletProbes
  BY <1>2, <1>4 DEF AppInd, KubeletProbes, Counts
<1>5. CASE PodReplaced
  <2>1. ready' \in BOOLEAN
    BY <1>5, Zenon DEF PodReplaced, ApiRestarts
  <2>2. (failures \in 0..Sustained /\ silence = failures)'
    BY <1>5 DEF PodReplaced, ApiRestarts, Sustained
  <2>3. QED
    BY <1>5, <2>1, <2>2, PodReplacedInd DEF AppInd, Counts
<1>6. CASE UNCHANGED appVars
  <2>1. Counts'
    BY <1>6 DEF AppInd, Counts, appVars, podVars
  <2>2. QED
    BY <1>2, <1>6, <2>1 DEF AppInd, appVars
<1>7. QED
  BY <1>1, <1>3, <1>4, <1>5, <1>6 DEF AppNext

LEMMA AppSpecInd == AppSpec => []AppInd
BY AppInitInd, AppNextInd, PTL DEF AppSpec

\* Whatever happens to the pod, to the queue it is a step of its own or the end
\* of some requests.
LEMMA SeenByTheQueue ==
    ASSUME [AppNext]_appVars
    PROVE  \/ [Next]_vars
           \/ UNCHANGED <<redis, pending, acked, workerVars, entered, faults>>
<1>1. CASE QueueStep
  BY <1>1 DEF QueueStep
<1>2. CASE ProbeStep \/ (ProbeTimesOut /\ UNCHANGED <<queueVars, inService, unready>>)
  BY <1>2 DEF ProbeStep, Probe, ProbeSucceeds, ProbeFails, ProbeTimesOut, queueVars, vars, redisVars
<1>3. CASE KubeletProbes \/ UNCHANGED appVars
  BY <1>3 DEF KubeletProbes, appVars
<1>4. CASE PodReplaced
  BY <1>4 DEF PodReplaced, ApiRestarts
<1>5. QED
  BY <1>1, <1>2, <1>3, <1>4 DEF AppNext

\* No response overstates what entered the queue (api/main.go:195-203), also
\* when the API pod is replaced in the middle of requests.
THEOREM AcceptedHonestAcrossPods == AppSpec => []AcceptedNeverOverstated
<1>1. AppInd => AcceptedNeverOverstated
  BY AcceptedFromInd DEF AppInd
<1>2. QED
  BY <1>1, AppSpecInd, PTL

\* The list stays a lossy first-in first-out queue (queue.go:76-77): a pod that
\* is replaced in the middle of a push reorders nothing and makes nothing up, and
\* no job its response counts is pushed again.
THEOREM FifoAcrossPods == AppSpec => IsLossyFifo
<1>1. AppInit => Backlog!Init
  <2> SUFFICES ASSUME AppInit PROVE Backlog!Init
    OBVIOUS
  <2>1. Confirmed = {}
    BY SizesAreNatural DEF AppInit, Init, Confirmed, Jobs
  <2>2. QED
    BY <2>1, ReverseOfEmpty DEF AppInit, Init, Backlog!Init
<1>2. AppInd /\ [AppNext]_appVars => [Backlog!Next]_<<Reverse(pending), job, Confirmed>>
  BY SeenByTheQueue, StepRefines DEF AppInd, workerVars, Confirmed, Jobs
<1>3. QED
  BY <1>1, <1>2, AppSpecInd, PTL DEF AppSpec, IsLossyFifo, Backlog!Spec

\* As long as Redis and the connections to it hold, and however API pods and
\* worker pods are replaced, every job that entered is in exactly one place:
\* waiting, held, run to its end, or cut short by a pod told to stop.
THEOREM ExactlyOnceAcrossPods == AppSpec => []ExactlyOnceWithoutFaults
<1>1. AppInit => Fresh /\ ExactlyOnceWithoutFaults
  BY ExactInit DEF AppInit
<1>2. AppInd /\ [AppNext]_appVars /\ Fresh /\ ExactlyOnceWithoutFaults
          => Fresh' /\ ExactlyOnceWithoutFaults'
  <2> SUFFICES ASSUME AppInd, [AppNext]_appVars, Fresh, ExactlyOnceWithoutFaults
               PROVE  Fresh' /\ ExactlyOnceWithoutFaults'
    OBVIOUS
  <2>1. CASE [Next]_vars
    BY <2>1, ExactStep DEF AppInd
  <2>2. CASE UNCHANGED <<redis, pending, acked, workerVars, entered, faults>>
    BY <2>2, ExactUnmoved DEF workerVars
  <2>3. QED
    BY <2>1, <2>2, SeenByTheQueue
<1>3. QED
  BY <1>1, <1>2, AppSpecInd, PTL DEF AppSpec

\* A running pod loses its readiness only after three unanswered probes in a
\* row (api/main.go:113-121).
THEOREM NoFlapping == AppSpec => HiccupsDoNotFlap
<1>1. AppInd /\ [AppNext]_appVars => [ready /\ ~ready' => silence' \in {0, Sustained}]_appVars
  <2> SUFFICES ASSUME AppInd, [AppNext]_appVars, ready, ~ready' PROVE silence' \in {0, Sustained}
    OBVIOUS
  <2>1. CASE QueueStep \/ KubeletProbes \/ UNCHANGED appVars
    BY <2>1 DEF QueueStep, KubeletProbes, appVars, podVars
  <2>2. CASE PodReplaced
    BY <2>2 DEF PodReplaced, ApiRestarts
  <2>3. CASE ProbeStep \/ (ProbeTimesOut /\ UNCHANGED <<queueVars, inService, unready>>)
    <3>1. ~ProbeSucceeds
      BY Zenon DEF ProbeSucceeds
    <3>2. Failed /\ silence' = OneMore(silence)
      BY <2>3, <3>1 DEF ProbeStep, Probe, ProbeFails, ProbeTimesOut
    <3>3. ~(failures' < Sustained)
      BY <3>2, Zenon DEF Failed
    <3>4. silence \in 0..Sustained /\ silence' = failures'
      BY <3>2 DEF AppInd, Counts, Failed, OneMore
    <3>5. QED
      BY <3>2, <3>3, <3>4 DEF OneMore, Sustained
  <2>4. QED
    BY <2>1, <2>2, <2>3 DEF AppNext
<1>2. QED
  BY <1>1, AppSpecInd, PTL DEF AppSpec, HiccupsDoNotFlap
================================================================================
