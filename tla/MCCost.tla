--------------------------------- MODULE MCCost ---------------------------------
(***************************************************************************)
(* An author edits the manifests of one application, one field at a time,  *)
(* and the cost model prices every version.  The edits are the environment;*)
(* the properties are about what Cost makes of them.                       *)
(***************************************************************************)
EXTENDS Cost

CONSTANTS
    Requests,       \* what a new container may ask for: [cpu, mem]
    MaxRequest,     \* bound on a request that is raised
    MaxReplicas,    \* bound on replica counts and autoscaler bounds
    MaxContainers,  \* bound on the containers of the pod, init containers included
    Kinds,          \* workload kinds explored
    Rates,          \* the rate table
    Nodes           \* nodes of the cluster, which a DaemonSet's pods run on

ASSUME BoundsAssumption == MaxRequest \in Nat /\ MaxReplicas \in Nat /\ MaxContainers \in Nat

ASSUME RequestsAssumption == Requests \subseteq [cpu : Nat \cup {Absent}, mem : Nat \cup {Absent}]

ASSUME KindsAssumption ==
    Kinds \subseteq Replicated \cup RunToCompletion \cup {"DaemonSet", "Pod", "PersistentVolumeClaim"}

ASSUME RatesAssumption ==
    /\ ReadTable(Nat, Rates) /\ Malformed \notin {Rates.missingCpu, Rates.missingMem}
    /\ Nodes \in Nat

VARIABLES
    objs,   \* the manifests of the root, in document order
    edit    \* the kind of edit that produced them

vars == <<objs, edit>>

Requested == {"cpu", "mem"}

MCRates == [cpu |-> 3, mem |-> 1, sto |-> 1, hours |-> 2,
            missingCpu |-> 2, missingMem |-> 1, currency |-> "USD"]

\* Nothing stated, or memory and no CPU (the first container asks for CPU and no
\* memory).
MCRequests == {[cpu |-> Absent, mem |-> Absent], [cpu |-> 0, mem |-> 1]}

Container(asked, sidecar) ==
    [cpu |-> asked.cpu, mem |-> asked.mem, eph |-> Absent, sidecar |-> sidecar]

\* What an autoscaler may name as its target.
ScalerTargets ==
    [kind : {Absent}, name : {"worker", "api"}] \cup [kind : {"StatefulSet"}, name : {"worker"}]

ASSUME TargetsAssumption == Absent \notin ScalerTargets /\ Absent # "StatefulSet"

Manifest(kind, name, pod) ==
    [kind |-> kind, ns |-> "demo", name |-> name, replicas |-> Absent, pod |-> pod,
     claims |-> <<>>, target |-> Absent, min |-> Absent, max |-> Absent]

Worker(kind) ==
    Manifest(kind, "worker", IF kind = "PersistentVolumeClaim" THEN Absent
                             ELSE [containers |-> <<Container([cpu |-> 1, mem |-> 0], FALSE)>>, inits |-> <<>>])

App == objs[1]
Scaled == Len(objs) = 2
Est(os) == Estimate(Rates, Nodes, os)

Init ==
    /\ \E kind \in Kinds : objs = <<Worker(kind)>>
    /\ edit = "start"

\* Add an init container or a container; a sidecar is an init container.
AddContainer ==
    /\ App.pod # Absent
    /\ Len(App.pod.inits \o App.pod.containers) < MaxContainers
    /\ \E asked \in Requests, sidecar \in BOOLEAN :
          \/ objs' = [objs EXCEPT ![1].pod.inits = Append(@, Container(asked, sidecar))]
          \/ objs' = [objs EXCEPT ![1].pod.containers = Append(@, Container(asked, FALSE))]
    /\ edit' = "grow"

\* Raise a request that a container states.  Stating one that was left out is
\* not such an edit: it may ask for less than the table assumes.
RaiseRequest ==
    /\ App.pod # Absent
    /\ \E field \in Requested :
          \/ \E i \in DOMAIN App.pod.inits :
                /\ App.pod.inits[i][field] \in 0..(MaxRequest - 1)
                /\ objs' = [objs EXCEPT ![1].pod.inits[i][field] = @ + 1]
          \/ \E i \in DOMAIN App.pod.containers :
                /\ App.pod.containers[i][field] \in 0..(MaxRequest - 1)
                /\ objs' = [objs EXCEPT ![1].pod.containers[i][field] = @ + 1]
    /\ edit' = "grow"

\* Set the replica count, or ask for (more) storage.
ScaleOut ==
    /\ \/ /\ OrDefault(App.replicas, 1) < MaxReplicas
          /\ objs' = [objs EXCEPT ![1].replicas = OrDefault(@, 1) + 1]
       \/ /\ App.kind \in {"StatefulSet", "PersistentVolumeClaim"}
          /\ Len(App.claims) = 0
          /\ objs' = [objs EXCEPT ![1].claims = <<1>>]
    /\ edit' = "grow"

\* Put the workload under an autoscaler, with legal bounds (min <= max), some
\* of them left out; an autoscaler of another workload may stand beside it.
AddAutoscaler ==
    /\ ~Scaled
    /\ \E kind \in Autoscalers, target \in ScalerTargets,
          min \in {Absent} \cup 0..MaxReplicas, max \in {Absent} \cup 1..MaxReplicas :
          /\ kind = "HorizontalPodAutoscaler" => max # Absent
          /\ OrDefault(min, 0) <= OrDefault(max, KedaDefaultMaxReplicas)
          /\ objs' = Append(objs, [Manifest(kind, "scaler", Absent) EXCEPT
                                      !.target = target, !.min = min, !.max = max])
    /\ edit' = "scale"

Next == AddContainer \/ RaiseRequest \/ ScaleOut \/ AddAutoscaler

Spec == Init /\ [][Next]_vars

--------------------------------------------------------------------------------

\* What is held at each moment of a pod's life: while its i-th init container
\* runs, that container and the sidecars started before it; afterwards the app
\* containers and every sidecar.
HeldDuring(pod, i, field) ==
    LET held(c) == ContainerResources(Rates, c)[field]
        up == {j \in DOMAIN pod.inits : j = i \/ (j < i /\ pod.inits[j].sidecar)}
        inits == Total([j \in DOMAIN pod.inits |-> IF j \in up THEN held(pod.inits[j]) ELSE 0])
    IN  IF i > Len(pod.inits)
        THEN Total([j \in DOMAIN pod.containers |-> held(pod.containers[j])]) + inits
        ELSE inits

Peak(pod, field) == Max({HeldDuring(pod, i, field) : i \in 1..(Len(pod.inits) + 1)})

SidecarBeforeInit(pod) ==
    \E i, j \in DOMAIN pod.inits : i < j /\ pod.inits[i].sidecar /\ ~pod.inits[j].sidecar

\* Every version is priced, at a natural number.
TypeOK ==
    /\ Len(objs) \in 1..2
    /\ edit \in {"start", "grow", "scale"}
    /\ Est(objs).monthly \in Nat /\ Est(objs).committed \in Nat

\* A pod whose ordinary init containers all come before its sidecars is priced
\* at exactly the CPU and the memory it holds at its busiest moment, which need
\* not be the same moment: neither the sum over containers that never run
\* together nor less than what runs at once.
PodPricedAtItsPeak ==
    App.pod # Absent /\ ~SidecarBeforeInit(App.pod) =>
        \A field \in Requested : PodResources(Rates, App.pod)[field] = Peak(App.pod, field)

\* "This follows the Kubernetes scheduling formula ... Native sidecars run for
\* the pod's whole lifetime, so they DO add" (cost.go:336-343): the price
\* covers every moment of the pod's life, also an init container that runs
\* beside the sidecars started before it.
PodCoversEveryMoment ==
    App.pod # Absent =>
        \A field \in Requested : PodResources(Rates, App.pod)[field] >= Peak(App.pod, field)

\* What the change commits to is never more than what it authorises, and a
\* workload without an autoscaler commits to all of it.
FloorBelowCeiling ==
    LET w == Est(objs).workloads[1]
    IN  /\ w.floor <= w.ceiling
        /\ ~w.autoscaled => w.floor = w.ceiling

\* Only an autoscaler that names this workload and its kind (Deployment when it
\* names none) reprices it, and then the replica count it is priced at is the
\* authorised maximum and not the one in the manifest.
CeilingIsWhatTheScalerAllows ==
    LET w == Est(objs).workloads[1]
        s == objs[2]
        named == Scaled /\ s.target.name = "worker"
                        /\ App.kind = (IF s.target.kind = Absent THEN "Deployment" ELSE s.target.kind)
    IN  /\ w.autoscaled <=> named
        /\ named /\ s.max # Absent => w.replicas = s.max
        /\ named /\ s.max = Absent => w.replicas = 100

\* Asking for more - one more container, more of what a container states, a
\* replica, storage - never lowers the floor or the ceiling: growth cannot be
\* presented as a saving.
GrowthNeverCheaper ==
    [][edit' = "grow" => /\ Est(objs').monthly   >= Est(objs).monthly
                         /\ Est(objs').committed >= Est(objs).committed]_vars
================================================================================
