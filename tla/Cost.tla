---------------------------------- MODULE Cost ----------------------------------
(***************************************************************************)
(* The cost sub-gate's arithmetic (src/gate/internal/cost): what a set of  *)
(* rendered manifests reserves, what that costs at the autoscaler's floor  *)
(* and ceiling, and the difference between two such estimates.             *)
(*                                                                         *)
(* A manifest is a record                                                  *)
(*   kind, ns, name  its identity;                                         *)
(*   replicas        spec.replicas, or Absent;                             *)
(*   pod             [containers, inits] or Absent: the pod (template);    *)
(*   claims          storage requests (volumeClaimTemplates, or the PVC's);*)
(*   target          [kind, name] or Absent: spec.scaleTargetRef;          *)
(*   min, max        an autoscaler's bounds, or Absent.                    *)
(* A container is [cpu, mem, eph, sidecar]; a request is a number, Absent, *)
(* or Malformed.                                                           *)
(***************************************************************************)
EXTENDS Pricing, Sequences, SequencesExt

Quantities(N) == N \cup {Absent, Malformed}
Containers(N) == [cpu : Quantities(N), mem : Quantities(N), eph : Quantities(N), sidecar : BOOLEAN]
Pods(N) == [containers : Seq(Containers(N)), inits : Seq(Containers(N))]

\* What decoding makes of a manifest: its numbers, of N, and its pod.  Nothing
\* in the code keeps them from being negative.
Decoded(N, o) ==
    /\ {o.replicas, o.min, o.max} \subseteq N \cup {Absent}
    /\ o.pod \in Pods(N) \cup {Absent}
    /\ o.claims \in Seq(Quantities(N))

AllDecoded(N, objs) == objs \in Seq({o \in Range(objs) : Decoded(N, o)})

ASSUME AbsentAssumption == Absent \notin Pods(Int)

Replicated == {"Deployment", "StatefulSet", "ReplicaSet", "ReplicationController"}
RunToCompletion == {"Job", "CronJob"}
Autoscalers == {"ScaledObject", "HorizontalPodAutoscaler"}

\* What KEDA uses when maxReplicaCount is omitted.
KedaDefaultMaxReplicas == 100

OrDefault(value, default) == IF value = Absent THEN default ELSE value

\* Mutant of Larger: adding the two up.
SumOfBoth(a, b) == a + b

Larger(a, b) == IF a >= b THEN a ELSE b

Total(amounts) ==
    LET upTo[n \in 0..Len(amounts)] == IF n = 0 THEN 0 ELSE upTo[n - 1] + amounts[n]
    IN  upTo[Len(amounts)]

--------------------------------------------------------------------------------
(* Resources: a record [cpu, mem, sto]. *)

\* Mutant of ContainerResources: a request of zero is read as a missing one.
ZeroIsMissing(t, c) ==
    [cpu |-> IF c.cpu \in {Absent, 0} THEN t.missingCpu ELSE c.cpu,
     mem |-> IF c.mem \in {Absent, 0} THEN t.missingMem ELSE c.mem,
     sto |-> OrDefault(c.eph, 0)]

ContainerResources(t, c) ==
    [cpu |-> OrDefault(c.cpu, t.missingCpu),
     mem |-> OrDefault(c.mem, t.missingMem),
     sto |-> OrDefault(c.eph, 0)]

\* App containers and native sidecars are held together, for as long as the pod
\* runs; ordinary init containers one at a time.
Running(t, pod, field) ==
    Total([i \in DOMAIN pod.containers |-> ContainerResources(t, pod.containers[i])[field]])
    + Total([i \in DOMAIN pod.inits |-> IF pod.inits[i].sidecar
                                        THEN ContainerResources(t, pod.inits[i])[field] ELSE 0])

MaxInit(t, pod, field) ==
    Max({0} \cup {ContainerResources(t, pod.inits[i])[field] :
                      i \in {j \in DOMAIN pod.inits : ~pod.inits[j].sidecar}})

PodResources(t, pod) ==
    [cpu |-> Larger(Running(t, pod, "cpu"), MaxInit(t, pod, "cpu")),
     mem |-> Larger(Running(t, pod, "mem"), MaxInit(t, pod, "mem")),
     sto |-> Running(t, pod, "sto") + MaxInit(t, pod, "sto")]

ClaimedStorage(o) == Total([i \in DOMAIN o.claims |-> OrDefault(o.claims[i], 0)])

\* What one replica of o reserves.
PerReplica(t, o) ==
    LET pod == IF o.pod = Absent \/ o.kind \in RunToCompletion
               THEN [cpu |-> 0, mem |-> 0, sto |-> 0] ELSE PodResources(t, o.pod)
    IN  IF o.kind \in {"StatefulSet", "PersistentVolumeClaim"}
        THEN [pod EXCEPT !.sto = @ + ClaimedStorage(o)]
        ELSE pod

--------------------------------------------------------------------------------
(* Pricing one set of rendered manifests. *)

\* Mutant of Targets: any autoscaler of the kind will do.
TargetsByKind(scaler, o) ==
    /\ scaler.kind \in Autoscalers
    /\ scaler.target # Absent
    /\ scaler.ns = o.ns
    /\ OrDefault(scaler.target.kind, "Deployment") = o.kind

Targets(scaler, o) ==
    /\ scaler.kind \in Autoscalers
    /\ scaler.target # Absent
    /\ scaler.ns = o.ns
    /\ OrDefault(scaler.target.kind, "Deployment") = o.kind
    /\ scaler.target.name = o.name

\* The autoscalers of the set that target o.
ScalersOf(objs, o) == {i \in DOMAIN objs : Targets(objs[i], o)}

\* Mutants of Bounds: an omitted maximum read as one replica; an omitted minimum
\* left at a sentinel.
BoundsOmittedMaxIsOne(objs, o) ==
    LET s == objs[Max(ScalersOf(objs, o))]
    IN  [min |-> OrDefault(s.min, 0), max |-> OrDefault(s.max, 1)]

BoundsOmittedMinIsMinusOne(objs, o) ==
    LET s == objs[Max(ScalersOf(objs, o))]
    IN  [min |-> OrDefault(s.min, -1), max |-> OrDefault(s.max, KedaDefaultMaxReplicas)]

\* The last autoscaler collected for a target overwrites the ones before it.
Bounds(objs, o) ==
    LET s == objs[Max(ScalersOf(objs, o))]
    IN  IF s.kind = "ScaledObject"
        THEN [min |-> OrDefault(s.min, 0), max |-> OrDefault(s.max, KedaDefaultMaxReplicas)]
        ELSE [min |-> OrDefault(s.min, 1), max |-> OrDefault(s.max, 1)]

Priceable(o) ==
    \/ o.kind \in Replicated \cup {"DaemonSet"} /\ o.pod # Absent
    \/ o.kind \in {"Pod", "PersistentVolumeClaim"} \cup RunToCompletion

DeclaredReplicas(nodes, o) ==
    CASE o.kind \in Replicated      -> OrDefault(o.replicas, 1)
      [] o.kind = "DaemonSet"       -> nodes
      [] o.kind \in RunToCompletion -> 0
      [] OTHER                      -> 1

\* An autoscaled workload is priced at its ceiling, and its floor is the cost
\* at the minimum; any other is committed to all of its replicas.
Price(t, nodes, objs, o) ==
    LET autoscaled == o.kind \notin RunToCompletion /\ ScalersOf(objs, o) # {}
        replicas   == DeclaredReplicas(nodes, o)
        range      == IF autoscaled THEN Bounds(objs, o) ELSE [min |-> replicas, max |-> replicas]
        at(n)      == n * MonthlyUSD(t, PerReplica(t, o))
    IN  [ref |-> <<o.kind, o.ns, o.name>>, autoscaled |-> autoscaled,
         replicas |-> range.max, ceiling |-> at(range.max), floor |-> at(range.min)]

\* Estimate returns an error when a quantity it has to read does not parse.
EstimateFails(t, objs) ==
    \E i \in {j \in DOMAIN objs : Priceable(objs[j]) /\ objs[j].kind \notin RunToCompletion} :
        LET o == objs[i]
            containers == IF o.pod = Absent THEN {} ELSE Range(o.pod.containers) \cup Range(o.pod.inits)
        IN  \/ \E c \in containers :
                  LET r == ContainerResources(t, c) IN Malformed \in {r.cpu, r.mem, r.sto}
            \/ o.kind \in {"StatefulSet", "PersistentVolumeClaim"} /\ Malformed \in Range(o.claims)

EstimateOf(workloads) ==
    [workloads |-> workloads,
     monthly   |-> Total([i \in DOMAIN workloads |-> workloads[i].ceiling]),
     committed |-> Total([i \in DOMAIN workloads |-> workloads[i].floor])]

\* One turn of the loop over objs, which passes over what cannot be priced.
Keep(kept, o) == IF Priceable(o) THEN Append(kept, o) ELSE kept

Priced(objs) ==
    LET upTo[n \in 0..Len(objs)] == IF n = 0 THEN <<>> ELSE Keep(upTo[n - 1], objs[n])
    IN  upTo[Len(objs)]

\* The error-free result.  (The code also sorts the workloads by ref, which only
\* the report shows.)
Estimate(t, nodes, objs) ==
    LET priced == Priced(objs)
    IN  EstimateOf([i \in DOMAIN priced |-> Price(t, nodes, objs, priced[i])])

NoEstimate == EstimateOf(<<>>)

\* mergeEstimates of the gate's main: two roots' estimates taken together.
MergeEstimates(a, b) ==
    [workloads |-> a.workloads \o b.workloads,
     monthly   |-> a.monthly + b.monthly,
     committed |-> a.committed + b.committed]

--------------------------------------------------------------------------------
(* Comparing two estimates. *)

RefsOf(est) == {est.workloads[i].ref : i \in DOMAIN est.workloads}

\* The entry of a map built by assigning the workloads in turn: the last wins.
ByRef(est, ref) ==
    LET found == {i \in DOMAIN est.workloads : est.workloads[i].ref = ref}
    IN  IF found = {}
        THEN [ref |-> ref, autoscaled |-> FALSE, replicas |-> 0, ceiling |-> 0, floor |-> 0]
        ELSE est.workloads[Max(found)]

\* The denominator of the committed percentage; 0 means there is no basis.
CommittedBasis(base, estateBaseline) ==
    IF estateBaseline > 0 THEN estateBaseline ELSE Larger(base.committed, 0)

Compare(base, head, estateBaseline) ==
    [total     |-> head.monthly - base.monthly,
     committed |-> head.committed - base.committed,
     basis     |-> CommittedBasis(base, estateBaseline),
     workloads |->
        {[ref        |-> ref,
          autoscaled |-> ByRef(head, ref).autoscaled,
          before     |-> ByRef(base, ref).ceiling,
          after      |-> ByRef(head, ref).ceiling,
          floor      |-> ByRef(head, ref).floor] : ref \in RefsOf(base) \cup RefsOf(head)}]
================================================================================
