------------------------------- MODULE CostProofs -------------------------------
(***************************************************************************)
(* Proofs about the price of every version of a manifest: for every rate   *)
(* table, and for requests, replica counts, numbers of containers, nodes   *)
(* and workload kinds without bound.                                       *)
(***************************************************************************)
EXTENDS MCCost, CostLemmas

PlainRequests == [cpu : Nat \cup {Absent}, mem : Nat \cup {Absent}]
PlainContainers ==
    [cpu : Nat \cup {Absent}, mem : Nat \cup {Absent}, eph : {Absent}, sidecar : BOOLEAN]
PlainPods == [containers : Seq(PlainContainers), inits : Seq(PlainContainers)]

\* The versions of the application's own manifest.
Apps == [kind : Kinds, ns : {"demo"}, name : {"worker"}, replicas : Nat \cup {Absent},
         pod : PlainPods \cup {Absent}, claims : {<<>>, <<1>>},
         target : {Absent}, min : {Absent}, max : {Absent}]

IsApp(o) == o \in Apps /\ (o.kind # "PersistentVolumeClaim" => o.pod # Absent)

\* The autoscalers that may stand beside it.
IsScaler(o) ==
    /\ Decoded(Nat, o)
    /\ o.kind \in Autoscalers /\ o.ns = "demo" /\ o.target \in ScalerTargets
    /\ o.max # 0
    /\ o.kind = "HorizontalPodAutoscaler" => o.max # Absent
    /\ OrDefault(o.min, 0) <= OrDefault(o.max, KedaDefaultMaxReplicas)

\* The inductive invariant: what the edits can make of the two manifests.
Inv ==
    /\ objs \in Seq(Range(objs)) /\ Len(objs) \in 1..2
    /\ IsApp(App)
    /\ Scaled => IsScaler(objs[2])
    /\ edit \in {"start", "grow", "scale"}

--------------------------------------------------------------------------------
(* The edits. *)

LEMMA OneElement == ASSUME NEW S, NEW x \in S PROVE <<x>> \in Seq(S) /\ <<>> \in Seq(S)
  OBVIOUS

LEMMA PlainIsContainer ==
    PlainContainers \subseteq Containers(Nat) /\ PlainPods \subseteq Pods(Nat) /\ Absent \notin PlainPods
<1>1. PlainContainers \subseteq Containers(Nat)
  BY DEF PlainContainers, Containers, Quantities
<1>2. Seq(PlainContainers) \subseteq Seq(Containers(Nat))
  BY <1>1, SeqMonotonic
<1>3. PlainContainers \subseteq Containers(Int)
  BY DEF PlainContainers, Containers, Quantities
<1>4. Seq(PlainContainers) \subseteq Seq(Containers(Int))
  BY <1>3, SeqMonotonic
<1>5. Absent \notin PlainPods
  BY <1>4, AbsentAssumption DEF PlainPods, Pods
<1>6. QED
  BY <1>1, <1>2, <1>5 DEF PlainPods, Pods

LEMMA ContainerIsPlain ==
    ASSUME NEW asked \in PlainRequests, NEW sidecar \in BOOLEAN
    PROVE  Container(asked, sidecar) \in PlainContainers
  BY DEF Container, PlainContainers, PlainRequests

LEMMA ManifestDecoded ==
    ASSUME NEW kind, NEW name, NEW pod \in Pods(Nat) \cup {Absent}
    PROVE  Decoded(Nat, Manifest(kind, name, pod))
<1>1. <<>> \in Seq(Quantities(Nat))
  OBVIOUS
<1>2. QED
  BY <1>1 DEF Manifest, Decoded

LEMMA AppDecoded == ASSUME NEW o, IsApp(o) PROVE Decoded(Nat, o)
<1>1. <<>> \in Seq(Quantities(Nat)) /\ <<1>> \in Seq(Quantities(Nat))
  BY OneElement, 1 \in Quantities(Nat) DEF Quantities
<1>2. o.pod \in Pods(Nat) \cup {Absent}
  BY PlainIsContainer DEF IsApp, Apps
<1>3. /\ o.replicas \in Nat \cup {Absent} /\ o.claims \in {<<>>, <<1>>}
      /\ o.min = Absent /\ o.max = Absent
  BY DEF IsApp, Apps
<1>4. QED
  BY <1>1, <1>2, <1>3 DEF Decoded

LEMMA InitInv == Init => Inv
<1> SUFFICES ASSUME NEW kind \in Kinds, objs = <<Worker(kind)>>, edit = "start" PROVE Inv
  BY DEF Init
<1> DEFINE pod == IF kind = "PersistentVolumeClaim" THEN Absent
                  ELSE [containers |-> <<Container([cpu |-> 1, mem |-> 0], FALSE)>>, inits |-> <<>>]
<1>2. kind # "PersistentVolumeClaim" => pod \in PlainPods
  <2>1. Container([cpu |-> 1, mem |-> 0], FALSE) \in PlainContainers
    BY ContainerIsPlain, [cpu |-> 1, mem |-> 0] \in PlainRequests DEF PlainRequests
  <2>2. <<Container([cpu |-> 1, mem |-> 0], FALSE)>> \in Seq(PlainContainers) /\ <<>> \in Seq(PlainContainers)
    BY <2>1, OneElement
  <2>3. QED
    BY <2>2 DEF PlainPods
<1>3. /\ pod \in PlainPods \cup {Absent} /\ pod \in Pods(Nat) \cup {Absent}
      /\ kind # "PersistentVolumeClaim" => pod # Absent
  <2>1. CASE kind # "PersistentVolumeClaim"
    <3> HIDE DEF pod
    <3> QED
      BY <1>2, <2>1, PlainIsContainer
  <2>2. CASE kind = "PersistentVolumeClaim"
    BY <2>2
  <2>3. QED
    BY <2>1, <2>2
<1>4. Worker(kind) = Manifest(kind, "worker", pod)
  BY DEF Worker
<1>5. IsApp(Worker(kind))
  <2> DEFINE m == Manifest(kind, "worker", pod)
  <2> HIDE DEF pod
  <2>1. m \in Apps /\ m.kind = kind /\ m.pod = pod
    BY <1>3 DEF Manifest, Apps
  <2> HIDE DEF m
  <2>3. IsApp(m)
    BY <1>3, <2>1 DEF IsApp
  <2>4. QED
    BY <1>4, <2>3 DEF m
<1>6. QED
  <2> DEFINE w == Worker(kind)
  <2>1. IsApp(w) /\ objs = <<w>>
    BY <1>5
  <2> HIDE DEF w
  <2>2. objs[1] = w /\ Len(objs) = 1 /\ w \in Range(objs)
    BY <2>1 DEF Range
  <2>3. QED
    BY <2>1, <2>2 DEF Inv, App, Scaled

\* p and q are pods, and q asks for at least what p asks for.
PodGrows(p, q) ==
    \/ p = Absent /\ q = Absent
    \/ p \in PlainPods /\ q \in PlainPods /\ AsksForMore(Rates, p, q)

\* b asks for at least what a asks for.
Grows(a, b) ==
    /\ a.kind = b.kind /\ a.ns = b.ns /\ a.name = b.name
    /\ OrDefault(a.replicas, 1) <= OrDefault(b.replicas, 1)
    /\ ClaimedStorage(a) <= ClaimedStorage(b)
    /\ PodGrows(a.pod, b.pod)

\* What a container is priced at.
AskedCpu(c) == OrDefault(c.cpu, Rates.missingCpu)
AskedMem(c) == OrDefault(c.mem, Rates.missingMem)

AsksLess(c, d) == AskedCpu(c) <= AskedCpu(d) /\ AskedMem(c) <= AskedMem(d)

LEMMA AskedNat ==
    ASSUME NEW c \in PlainContainers
    PROVE  AskedCpu(c) \in Nat /\ AskedMem(c) \in Nat /\ AsksLess(c, c)
<1>1. AskedCpu(c) \in Nat /\ AskedMem(c) \in Nat
  BY RatesAssumption DEF PlainContainers, AskedCpu, AskedMem, OrDefault, ReadTable
<1>2. QED
  BY <1>1 DEF AsksLess

LEMMA PlainReadable ==
    ASSUME NEW c \in PlainContainers
    PROVE  /\ Readable(Nat, Rates, c)
           /\ ContainerResources(Rates, c) = [cpu |-> AskedCpu(c), mem |-> AskedMem(c), sto |-> 0]
<1>1. c.eph = Absent /\ c.sidecar \in BOOLEAN
  BY DEF PlainContainers
<1>2. AskedCpu(c) \in Nat /\ AskedMem(c) \in Nat /\ OrDefault(Absent, 0) = 0
  BY AskedNat DEF OrDefault
<1>3. ContainerResources(Rates, c) = [cpu |-> AskedCpu(c), mem |-> AskedMem(c), sto |-> 0]
  BY <1>1, <1>2 DEF ContainerResources, AskedCpu, AskedMem
<1>4. QED
  BY <1>1, <1>2, <1>3 DEF Readable, Resources

LEMMA PlainPodReadable ==
    ASSUME NEW p \in PlainPods PROVE ReadablePod(Nat, Rates, p)
<1> DEFINE cs == p.containers
           is == p.inits
<1>1. cs \in Seq(PlainContainers) /\ is \in Seq(PlainContainers)
  BY DEF PlainPods
<1>2. /\ \A i \in DOMAIN cs : cs[i] \in Range(cs) /\ Readable(Nat, Rates, cs[i])
      /\ \A i \in DOMAIN is : is[i] \in Range(is) /\ Readable(Nat, Rates, is[i])
  <2> HIDE DEF cs, is
  <2> QED
    BY <1>1, PlainReadable DEF Range
<1> HIDE DEF cs, is
<1>3. cs \in Seq({c \in Range(cs) : Readable(Nat, Rates, c)})
  BY <1>1, <1>2
<1>4. is \in Seq({c \in Range(is) : Readable(Nat, Rates, c)})
  BY <1>1, <1>2
<1>5. QED
  BY <1>3, <1>4 DEF ReadablePod, cs, is

\* More of the same: a container that stays, or is replaced by one that asks for
\* more.
LEMMA LongerAsksForMore ==
    ASSUME NEW p \in PlainPods, NEW q \in PlainPods,
           Len(p.containers) <= Len(q.containers), Len(p.inits) <= Len(q.inits),
           \A i \in 1..Len(p.containers) :
               AsksLess(p.containers[i], q.containers[i]),
           \A i \in 1..Len(p.inits) :
               AsksLess(p.inits[i], q.inits[i])
                   /\ (p.inits[i].sidecar <=> q.inits[i].sidecar)
    PROVE  AsksForMore(Rates, p, q)
<1> DEFINE R(c) == ContainerResources(Rates, c)
<1>1. ASSUME NEW c \in PlainContainers, NEW d \in PlainContainers, AsksLess(c, d),
             NEW field \in Fields
      PROVE  R(c)[field] <= R(d)[field]
  BY <1>1, PlainReadable DEF Fields, AsksLess
<1>2. /\ p.containers \in Seq(PlainContainers) /\ p.inits \in Seq(PlainContainers)
      /\ q.containers \in Seq(PlainContainers) /\ q.inits \in Seq(PlainContainers)
  BY DEF PlainPods
<1>3. \A i \in 1..Len(p.containers) :
          p.containers[i] \in PlainContainers /\ q.containers[i] \in PlainContainers
  BY <1>2
<1>4. \A i \in 1..Len(p.inits) : p.inits[i] \in PlainContainers /\ q.inits[i] \in PlainContainers
  BY <1>2
<1>5. QED
  BY <1>1, <1>3, <1>4 DEF AsksForMore
LEMMA GrowsTheSame ==
    ASSUME NEW p \in PlainPods PROVE AsksForMore(Rates, p, p)
<1>1. ReadablePod(Nat, Rates, p)
  BY PlainPodReadable
<1>2. p.containers \in Seq(PlainContainers) /\ p.inits \in Seq(PlainContainers)
  BY DEF PlainPods
<1>3. \A c \in PlainContainers : AsksLess(c, c)
  BY AskedNat
<1>4. \A i \in 1..Len(p.containers) : AsksLess(p.containers[i], p.containers[i])
  BY <1>2, <1>3
<1>5. \A i \in 1..Len(p.inits) : AsksLess(p.inits[i], p.inits[i])
  BY <1>2, <1>3
<1>6. QED
  BY <1>2, <1>4, <1>5, LongerAsksForMore

LEMMA OwnRange ==
    ASSUME NEW n \in Nat, NEW s, s = [i \in 1..n |-> s[i]] PROVE s \in Seq(Range(s))
<1> DEFINE S == Range(s)
<1>1. \A i \in 1..n : s[i] \in S
  BY DEF Range
<1> HIDE DEF S
<1>2. s \in Seq(S)
  BY <1>1
<1>3. QED
  BY <1>2 DEF S

\* What an edit of the first manifest does to the two.
LEMMA AppReplaced ==
    ASSUME Inv, NEW a, IsApp(a), Grows(App, a), objs' = [objs EXCEPT ![1] = a], edit' = "grow"
    PROVE  Inv' /\ Grows(App, App') /\ Len(objs') = Len(objs) /\ objs'[1] = a
           /\ (Scaled => objs'[2] = objs[2])
<1>1. /\ objs \in Seq(Range(objs)) /\ Len(objs) \in 1..2
      /\ DOMAIN objs = 1..Len(objs)
  BY DEF Inv
<1>2. Len(objs') = Len(objs) /\ DOMAIN objs' = 1..Len(objs) /\ objs'[1] = a
      /\ (Len(objs) = 2 => objs'[2] = objs[2])
  BY <1>1
<1>3. objs' \in Seq(Range(objs'))
  <2> DEFINE n == Len(objs)
             s == objs'
  <2>1. n \in Nat
    BY <1>1
  <2>2. s = [i \in 1..n |-> IF i = 1 THEN a ELSE objs[i]]
    BY <1>1
  <2>3. s = [i \in 1..n |-> s[i]]
    BY <2>2
  <2> HIDE DEF n, s
  <2>4. s \in Seq(Range(s))
    BY <2>1, <2>3, OwnRange
  <2>5. QED
    BY <2>4 DEF s
<1>4. App' = a /\ (Scaled' <=> Scaled)
  BY <1>2 DEF App, Scaled
<1>5. QED
  BY <1>1, <1>2, <1>3, <1>4 DEF Inv, Scaled
\* A pod that asks for more makes a manifest that asks for more.
LEMMA PodEdited ==
    ASSUME NEW o, IsApp(o), NEW q \in PlainPods, o.pod \in PlainPods, AsksForMore(Rates, o.pod, q)
    PROVE  LET b == [o EXCEPT !.pod = q] IN IsApp(b) /\ Grows(o, b)
<1> DEFINE b == [o EXCEPT !.pod = q]
<1>1. o \in Apps
  BY DEF IsApp
<1>2. /\ b.kind = o.kind /\ b.ns = o.ns /\ b.name = o.name /\ b.replicas = o.replicas
      /\ b.claims = o.claims /\ b.pod = q
  BY <1>1 DEF Apps
<1>3. b \in Apps
  BY <1>1 DEF Apps
<1>4. q # Absent
  BY PlainIsContainer
<1> HIDE DEF b
<1>5. IsApp(b)
  BY <1>2, <1>3, <1>4 DEF IsApp
<1>6. OrDefault(o.replicas, 1) <= OrDefault(b.replicas, 1)
  BY <1>1, <1>2 DEF Apps, OrDefault
<1>7. ClaimedStorage(o) = ClaimedStorage(b)
  BY <1>2 DEF ClaimedStorage
<1>8. ClaimedStorage(o) \in Nat
  <2>1. \A x \in Range(o.claims) : x = 1
    BY <1>1 DEF Apps, Range
  <2>2. QED
    BY <2>1, AppDecoded, ClaimedStorageType, NatNumbers, PlaceholdersAssumption
<1>9. QED
  BY <1>2, <1>5, <1>6, <1>7, <1>8 DEF Grows, PodGrows, b

LEMMA AddContainerGrows ==
    ASSUME Inv, AddContainer PROVE Inv' /\ edit' = "grow" /\ Grows(App, App')
                                   /\ Len(objs') = Len(objs) /\ (Scaled => objs'[2] = objs[2])
<1> DEFINE p == App.pod
<1>1. IsApp(App) /\ App \in Apps /\ p \in PlainPods /\ 1 \in DOMAIN objs
  <2>1. IsApp(App) /\ 1 \in DOMAIN objs
    BY DEF Inv
  <2>2. App.pod # Absent
    BY DEF AddContainer
  <2>3. QED
    BY <2>1, <2>2 DEF IsApp, Apps
<1>2. PICK asked \in Requests, sidecar \in BOOLEAN :
          \/ objs' = [objs EXCEPT ![1].pod.inits = Append(@, Container(asked, sidecar))]
          \/ objs' = [objs EXCEPT ![1].pod.containers = Append(@, Container(asked, FALSE))]
  BY DEF AddContainer
<1>3. edit' = "grow"
  BY DEF AddContainer
<1> DEFINE c == Container(asked, sidecar)
           d == Container(asked, FALSE)
<1>4. c \in PlainContainers /\ d \in PlainContainers
  <2>1. asked \in PlainRequests
    BY RequestsAssumption DEF PlainRequests
  <2>2. QED
    BY <2>1, ContainerIsPlain
<1>5. /\ p.inits \in Seq(PlainContainers) /\ p.containers \in Seq(PlainContainers)
      /\ p = [containers |-> p.containers, inits |-> p.inits]
  BY <1>1 DEF PlainPods
<1>6. /\ Len(p.inits) \in Nat /\ Len(p.containers) \in Nat
      /\ \A i \in 1..Len(p.inits) : AsksLess(p.inits[i], p.inits[i])
      /\ \A i \in 1..Len(p.containers) :
             AsksLess(p.containers[i], p.containers[i])
  <2>1. \A k \in PlainContainers : AsksLess(k, k)
    BY AskedNat
  <2>2. QED
    BY <1>5, <2>1
<1>7. CASE objs' = [objs EXCEPT ![1].pod.inits = Append(@, Container(asked, sidecar))]
  <2> DEFINE q == [p EXCEPT !.inits = Append(p.inits, c)]
             b == [App EXCEPT !.pod = q]
  <2>1. objs' = [objs EXCEPT ![1] = b]
    BY <1>7 DEF App
  <2> HIDE DEF c
  <2>2. /\ q \in PlainPods /\ q.containers = p.containers /\ q.inits = Append(p.inits, c)
    <3>1. Append(p.inits, c) \in Seq(PlainContainers)
      BY <1>4, <1>5
    <3>2. QED
      BY <1>1, <3>1 DEF PlainPods
  <2>3. AsksForMore(Rates, p, q)
    <3>1. Len(p.inits) <= Len(q.inits) /\ \A i \in 1..Len(p.inits) : q.inits[i] = p.inits[i]
      BY <1>4, <1>5, <2>2
    <3> HIDE DEF p, q
    <3>2. Len(p.containers) <= Len(q.containers) /\ Len(p.inits) <= Len(q.inits)
      BY <1>6, <2>2, <3>1
    <3>3. \A i \in 1..Len(p.containers) :
              AsksLess(p.containers[i], q.containers[i])
      BY <1>6, <2>2, <3>1
    <3>4. \A i \in 1..Len(p.inits) :
              AsksLess(p.inits[i], q.inits[i])
                  /\ (p.inits[i].sidecar <=> q.inits[i].sidecar)
      BY <1>6, <2>2, <3>1
    <3>5. p \in PlainPods /\ q \in PlainPods
      BY <1>1, <2>2
    <3>6. QED
      BY <3>2, <3>3, <3>4, <3>5, LongerAsksForMore
  <2>4. IsApp(b) /\ Grows(App, b)
    BY <1>1, <2>2, <2>3, PodEdited
  <2> HIDE DEF b
  <2>5. QED
    BY <1>3, <2>1, <2>4, AppReplaced
<1>8. CASE objs' = [objs EXCEPT ![1].pod.containers = Append(@, Container(asked, FALSE))]
  <2> DEFINE q == [p EXCEPT !.containers = Append(p.containers, d)]
             b == [App EXCEPT !.pod = q]
  <2>1. objs' = [objs EXCEPT ![1] = b]
    BY <1>8 DEF App
  <2> HIDE DEF d
  <2>2. /\ q \in PlainPods /\ q.inits = p.inits /\ q.containers = Append(p.containers, d)
    <3>1. Append(p.containers, d) \in Seq(PlainContainers)
      BY <1>4, <1>5
    <3>2. QED
      BY <1>1, <3>1 DEF PlainPods
  <2>3. AsksForMore(Rates, p, q)
    <3>1. Len(p.containers) <= Len(q.containers)
          /\ \A i \in 1..Len(p.containers) : q.containers[i] = p.containers[i]
      BY <1>4, <1>5, <2>2
    <3> HIDE DEF p, q
    <3>2. Len(p.containers) <= Len(q.containers) /\ Len(p.inits) <= Len(q.inits)
      BY <1>6, <2>2, <3>1
    <3>3. \A i \in 1..Len(p.containers) :
              AsksLess(p.containers[i], q.containers[i])
      BY <1>6, <2>2, <3>1
    <3>4. \A i \in 1..Len(p.inits) :
              AsksLess(p.inits[i], q.inits[i])
                  /\ (p.inits[i].sidecar <=> q.inits[i].sidecar)
      BY <1>6, <2>2, <3>1
    <3>5. p \in PlainPods /\ q \in PlainPods
      BY <1>1, <2>2
    <3>6. QED
      BY <3>2, <3>3, <3>4, <3>5, LongerAsksForMore
  <2>4. IsApp(b) /\ Grows(App, b)
    BY <1>1, <2>2, <2>3, PodEdited
  <2> HIDE DEF b
  <2>5. QED
    BY <1>3, <2>1, <2>4, AppReplaced
<1>9. QED
  BY <1>2, <1>7, <1>8

LEMMA Raised ==
    ASSUME NEW c \in PlainContainers, NEW field \in Requested, c[field] \in Nat
    PROVE  LET d == [c EXCEPT ![field] = @ + 1]
           IN  d \in PlainContainers /\ (d.sidecar <=> c.sidecar) /\ AsksLess(c, d)
<1> DEFINE d == [c EXCEPT ![field] = @ + 1]
<1>1. AskedCpu(c) \in Nat /\ AskedMem(c) \in Nat
  BY AskedNat
<1>2. CASE field = "cpu"
  <2>1. d \in PlainContainers /\ d.sidecar = c.sidecar /\ d.mem = c.mem /\ d.cpu = c.cpu + 1
    BY <1>2 DEF PlainContainers
  <2>2. AskedCpu(c) = c.cpu /\ AskedCpu(d) = c.cpu + 1 /\ AskedMem(d) = AskedMem(c)
    BY <1>2, <2>1, PlaceholdersAssumption DEF AskedCpu, AskedMem, OrDefault
  <2>3. QED
    BY <1>1, <2>1, <2>2 DEF AsksLess
<1>3. CASE field = "mem"
  <2>1. d \in PlainContainers /\ d.sidecar = c.sidecar /\ d.cpu = c.cpu /\ d.mem = c.mem + 1
    BY <1>3 DEF PlainContainers
  <2>2. AskedMem(c) = c.mem /\ AskedMem(d) = c.mem + 1 /\ AskedCpu(d) = AskedCpu(c)
    BY <1>3, <2>1, PlaceholdersAssumption DEF AskedCpu, AskedMem, OrDefault
  <2>3. QED
    BY <1>1, <2>1, <2>2 DEF AsksLess
<1>4. QED
  BY <1>2, <1>3 DEF Requested

LEMMA RaiseRequestGrows ==
    ASSUME Inv, RaiseRequest PROVE Inv' /\ edit' = "grow" /\ Grows(App, App')
                                   /\ Len(objs') = Len(objs) /\ (Scaled => objs'[2] = objs[2])
<1> DEFINE p == App.pod
<1>1. IsApp(App) /\ App \in Apps /\ p \in PlainPods /\ 1 \in DOMAIN objs
  <2>1. IsApp(App) /\ 1 \in DOMAIN objs
    BY DEF Inv
  <2>2. App.pod # Absent
    BY DEF RaiseRequest
  <2>3. QED
    BY <2>1, <2>2 DEF IsApp, Apps
<1>2. edit' = "grow"
  BY DEF RaiseRequest
<1>3. /\ p.inits \in Seq(PlainContainers) /\ p.containers \in Seq(PlainContainers)
      /\ p = [containers |-> p.containers, inits |-> p.inits]
  BY <1>1 DEF PlainPods
<1>4. /\ Len(p.inits) \in Nat /\ Len(p.containers) \in Nat
      /\ \A i \in 1..Len(p.inits) : AsksLess(p.inits[i], p.inits[i])
      /\ \A i \in 1..Len(p.containers) :
             AsksLess(p.containers[i], p.containers[i])
  <2>1. \A k \in PlainContainers : AsksLess(k, k)
    BY AskedNat
  <2>2. QED
    BY <1>3, <2>1
<1>5. PICK field \in Requested :
          \/ \E i \in DOMAIN p.inits :
                /\ p.inits[i][field] \in 0..(MaxRequest - 1)
                /\ objs' = [objs EXCEPT ![1].pod.inits[i][field] = @ + 1]
          \/ \E i \in DOMAIN p.containers :
                /\ p.containers[i][field] \in 0..(MaxRequest - 1)
                /\ objs' = [objs EXCEPT ![1].pod.containers[i][field] = @ + 1]
  BY DEF RaiseRequest
<1>6. CASE \E i \in DOMAIN p.inits :
              /\ p.inits[i][field] \in 0..(MaxRequest - 1)
              /\ objs' = [objs EXCEPT ![1].pod.inits[i][field] = @ + 1]
  <2>1. PICK i \in DOMAIN p.inits :
            /\ p.inits[i][field] \in 0..(MaxRequest - 1)
            /\ objs' = [objs EXCEPT ![1].pod.inits[i][field] = @ + 1]
    BY <1>6
  <2> DEFINE c == [p.inits[i] EXCEPT ![field] = @ + 1]
             cs == [p.inits EXCEPT ![i] = c]
             q == [p EXCEPT !.inits = cs]
             b == [App EXCEPT !.pod = q]
  <2>2. objs' = [objs EXCEPT ![1] = b]
    BY <2>1 DEF App
  <2>3. /\ p.inits[i] \in PlainContainers /\ p.inits[i][field] \in Nat
        /\ i \in 1..Len(p.inits)
    BY <1>3, <2>1, BoundsAssumption
  <2>4. /\ c \in PlainContainers /\ (c.sidecar <=> p.inits[i].sidecar)
        /\ AsksLess(p.inits[i], c)
    BY <1>5, <2>3, Raised
  <2> HIDE DEF c
  <2>5. cs \in Seq(PlainContainers) /\ Len(cs) = Len(p.inits) /\ cs[i] = c
        /\ \A j \in 1..Len(p.inits) : j # i => cs[j] = p.inits[j]
    BY <1>3, <2>3, <2>4
  <2> HIDE DEF cs
  <2>6. q \in PlainPods /\ q.containers = p.containers /\ q.inits = cs
    BY <1>1, <2>5 DEF PlainPods
  <2>7. AsksForMore(Rates, p, q)
    <3> HIDE DEF p, q
    <3>1. Len(p.containers) <= Len(q.containers) /\ Len(p.inits) <= Len(q.inits)
      BY <1>4, <2>5, <2>6
    <3>2. \A j \in 1..Len(p.containers) :
              AsksLess(p.containers[j], q.containers[j])
      BY <1>4, <2>4, <2>5, <2>6
    <3>3. \A j \in 1..Len(p.inits) :
              AsksLess(p.inits[j], q.inits[j])
                  /\ (p.inits[j].sidecar <=> q.inits[j].sidecar)
      BY <1>4, <2>4, <2>5, <2>6
    <3>4. p \in PlainPods /\ q \in PlainPods
      BY <1>1, <2>6
    <3>5. QED
      BY <3>1, <3>2, <3>3, <3>4, LongerAsksForMore
  <2>8. IsApp(b) /\ Grows(App, b)
    BY <1>1, <2>6, <2>7, PodEdited
  <2> HIDE DEF b
  <2>9. QED
    BY <1>2, <2>2, <2>8, AppReplaced
<1>7. CASE \E i \in DOMAIN p.containers :
              /\ p.containers[i][field] \in 0..(MaxRequest - 1)
              /\ objs' = [objs EXCEPT ![1].pod.containers[i][field] = @ + 1]
  <2>1. PICK i \in DOMAIN p.containers :
            /\ p.containers[i][field] \in 0..(MaxRequest - 1)
            /\ objs' = [objs EXCEPT ![1].pod.containers[i][field] = @ + 1]
    BY <1>7
  <2> DEFINE c == [p.containers[i] EXCEPT ![field] = @ + 1]
             cs == [p.containers EXCEPT ![i] = c]
             q == [p EXCEPT !.containers = cs]
             b == [App EXCEPT !.pod = q]
  <2>2. objs' = [objs EXCEPT ![1] = b]
    BY <2>1 DEF App
  <2>3. /\ p.containers[i] \in PlainContainers /\ p.containers[i][field] \in Nat
        /\ i \in 1..Len(p.containers)
    BY <1>3, <2>1, BoundsAssumption
  <2>4. /\ c \in PlainContainers /\ (c.sidecar <=> p.containers[i].sidecar)
        /\ AsksLess(p.containers[i], c)
    BY <1>5, <2>3, Raised
  <2> HIDE DEF c
  <2>5. cs \in Seq(PlainContainers) /\ Len(cs) = Len(p.containers) /\ cs[i] = c
        /\ \A j \in 1..Len(p.containers) : j # i => cs[j] = p.containers[j]
    BY <1>3, <2>3, <2>4
  <2> HIDE DEF cs
  <2>6. q \in PlainPods /\ q.inits = p.inits /\ q.containers = cs
    BY <1>1, <2>5 DEF PlainPods
  <2>7. AsksForMore(Rates, p, q)
    <3> HIDE DEF p, q
    <3>1. Len(p.containers) <= Len(q.containers) /\ Len(p.inits) <= Len(q.inits)
      BY <1>4, <2>5, <2>6
    <3>2. \A j \in 1..Len(p.containers) :
              AsksLess(p.containers[j], q.containers[j])
      BY <1>4, <2>4, <2>5, <2>6
    <3>3. \A j \in 1..Len(p.inits) :
              AsksLess(p.inits[j], q.inits[j])
                  /\ (p.inits[j].sidecar <=> q.inits[j].sidecar)
      BY <1>4, <2>4, <2>5, <2>6
    <3>4. p \in PlainPods /\ q \in PlainPods
      BY <1>1, <2>6
    <3>5. QED
      BY <3>1, <3>2, <3>3, <3>4, LongerAsksForMore
  <2>8. IsApp(b) /\ Grows(App, b)
    BY <1>1, <2>6, <2>7, PodEdited
  <2> HIDE DEF b
  <2>9. QED
    BY <1>2, <2>2, <2>8, AppReplaced
<1>8. QED
  BY <1>5, <1>6, <1>7

LEMMA ClaimsCounted ==
    ASSUME NEW o, IsApp(o)
    PROVE  /\ o.claims = <<>> => ClaimedStorage(o) = 0
           /\ o.claims = <<1>> => ClaimedStorage(o) = 1
           /\ ClaimedStorage(o) \in Nat
           /\ Malformed \notin Range(o.claims)
<1>1. o.claims \in {<<>>, <<1>>}
  BY DEF IsApp, Apps
<1>2. CASE o.claims = <<>>
  <2>1. [i \in DOMAIN o.claims |-> OrDefault(o.claims[i], 0)] = <<>>
    BY <1>2
  <2>2. Malformed \notin Range(o.claims)
    BY <1>2 DEF Range
  <2>3. <<>> # <<1>>
    OBVIOUS
  <2>4. QED
    BY <1>2, <2>1, <2>2, <2>3, TotalEmpty DEF ClaimedStorage
<1>3. CASE o.claims = <<1>>
  <2> DEFINE a == [i \in DOMAIN o.claims |-> OrDefault(o.claims[i], 0)]
  <2>1. OrDefault(1, 0) = 1
    BY PlaceholdersAssumption DEF OrDefault
  <2>2. a \in Seq(Nat) /\ Len(a) = 1 /\ a[1] = 1
    BY <1>3, <2>1
  <2> HIDE DEF a
  <2>3. Total(a) = a[1]
    <3>1. 1 \in 1..Len(a) /\ \A j \in 1..Len(a) : j # 1 => a[j] = 0
      BY <2>2
    <3>2. QED
      BY <2>2, <3>1, TotalOfOne
  <2>4. Malformed \notin Range(o.claims)
    BY <1>3, PlaceholdersAssumption DEF Range
  <2>5. ClaimedStorage(o) = 1
    BY <2>2, <2>3 DEF ClaimedStorage, a
  <2>6. <<>> # <<1>>
    OBVIOUS
  <2>7. QED
    BY <1>3, <2>4, <2>5, <2>6
<1>4. QED
  BY <1>1, <1>2, <1>3

LEMMA PodUnchanged ==
    ASSUME NEW o, IsApp(o) PROVE PodGrows(o.pod, o.pod)
  BY GrowsTheSame DEF IsApp, Apps, PodGrows

LEMMA ScaleOutGrows ==
    ASSUME Inv, ScaleOut PROVE Inv' /\ edit' = "grow" /\ Grows(App, App')
                               /\ Len(objs') = Len(objs) /\ (Scaled => objs'[2] = objs[2])
<1>1. IsApp(App) /\ App \in Apps /\ 1 \in DOMAIN objs
  BY DEF Inv, IsApp
<1>2. edit' = "grow"
  BY DEF ScaleOut
<1>3. /\ ClaimedStorage(App) \in Nat /\ PodGrows(App.pod, App.pod)
      /\ App.replicas \in Nat \cup {Absent}
  BY <1>1, ClaimsCounted, PodUnchanged DEF Apps
<1>4. CASE objs' = [objs EXCEPT ![1].replicas = OrDefault(@, 1) + 1]
  <2> DEFINE n == OrDefault(App.replicas, 1) + 1
             b == [App EXCEPT !.replicas = n]
  <2>1. objs' = [objs EXCEPT ![1] = b]
    BY <1>4 DEF App
  <2>2. n \in Nat /\ OrDefault(App.replicas, 1) <= n
    BY <1>3 DEF OrDefault
  <2> HIDE DEF n
  <2>3. /\ b \in Apps /\ b.replicas = n
        /\ b.kind = App.kind /\ b.ns = App.ns /\ b.name = App.name
        /\ b.pod = App.pod /\ b.claims = App.claims
    BY <1>1, <2>2 DEF Apps
  <2> HIDE DEF b
  <2>4. OrDefault(App.replicas, 1) <= OrDefault(b.replicas, 1)
    BY <2>2, <2>3, PlaceholdersAssumption DEF OrDefault
  <2>5. ClaimedStorage(b) = ClaimedStorage(App)
    BY <2>3 DEF ClaimedStorage
  <2>6. IsApp(b) /\ Grows(App, b)
    BY <1>1, <1>3, <2>3, <2>4, <2>5 DEF IsApp, Grows
  <2>7. QED
    BY <1>2, <2>1, <2>6, AppReplaced
<1>5. CASE Len(App.claims) = 0 /\ objs' = [objs EXCEPT ![1].claims = <<1>>]
  <2> DEFINE b == [App EXCEPT !.claims = <<1>>]
  <2>1. objs' = [objs EXCEPT ![1] = b]
    BY <1>5 DEF App
  <2>2. /\ b \in Apps /\ b.claims = <<1>>
        /\ b.kind = App.kind /\ b.ns = App.ns /\ b.name = App.name
        /\ b.pod = App.pod /\ b.replicas = App.replicas
    BY <1>1 DEF Apps
  <2> HIDE DEF b
  <2>3. OrDefault(App.replicas, 1) <= OrDefault(b.replicas, 1)
    BY <1>3, <2>2 DEF OrDefault
  <2>4. IsApp(b)
    BY <1>1, <2>2 DEF IsApp
  <2>5. ClaimedStorage(App) <= ClaimedStorage(b)
    <3>1. App.claims \in {<<>>, <<1>>} /\ Len(<<1>>) = 1
      BY <1>1 DEF Apps
    <3>2. App.claims = <<>>
      BY <1>5, <3>1
    <3>3. QED
      BY <1>1, <2>2, <2>4, <3>2, ClaimsCounted
  <2>6. Grows(App, b)
    BY <1>3, <2>2, <2>3, <2>5 DEF Grows
  <2>7. QED
    BY <1>2, <2>1, <2>4, <2>6, AppReplaced
<1>6. QED
  BY <1>4, <1>5 DEF ScaleOut

LEMMA Appended ==
    ASSUME NEW T, NEW o \in Seq(T), NEW s \in T, NEW a, a = Append(o, s)
    PROVE  /\ a \in Seq(T) /\ Len(a) = Len(o) + 1
           /\ a[Len(o) + 1] = s
           /\ \A i \in 1..Len(o) : a[i] = o[i]
<1>1. a \in Seq(T)
  OBVIOUS
<1>2. Len(a) = Len(o) + 1
  OBVIOUS
<1>3. a[Len(o) + 1] = s
  OBVIOUS
<1>4. \A i \in 1..Len(o) : a[i] = o[i]
  OBVIOUS
<1>5. QED
  BY <1>1, <1>2, <1>3, <1>4, Zenon

LEMMA AddAutoscalerInv == ASSUME Inv, AddAutoscaler PROVE Inv' /\ edit' = "scale"
<1>1. PICK kind \in Autoscalers, target \in ScalerTargets,
           min \in {Absent} \cup 0..MaxReplicas, max \in {Absent} \cup 1..MaxReplicas :
          /\ kind = "HorizontalPodAutoscaler" => max # Absent
          /\ OrDefault(min, 0) <= OrDefault(max, KedaDefaultMaxReplicas)
          /\ objs' = Append(objs, [Manifest(kind, "scaler", Absent) EXCEPT
                                      !.target = target, !.min = min, !.max = max])
  BY DEF AddAutoscaler
<1> DEFINE s == [Manifest(kind, "scaler", Absent) EXCEPT !.target = target, !.min = min, !.max = max]
<1>2. /\ s.kind = kind /\ s.ns = "demo" /\ s.target = target /\ s.min = min /\ s.max = max
      /\ s.replicas = Absent /\ s.pod = Absent /\ s.claims = <<>>
  BY DEF Manifest
<1>3. objs' = Append(objs, s)
  BY <1>1
<1> HIDE DEF s
<1>4. min \in Nat \cup {Absent} /\ max \in Nat \cup {Absent} /\ max # 0
  BY BoundsAssumption, PlaceholdersAssumption
<1>5. IsScaler(s)
  <2>1. <<>> \in Seq(Quantities(Nat))
    OBVIOUS
  <2>2. Decoded(Nat, s)
    BY <1>2, <1>4, <2>1 DEF Decoded
  <2>3. QED
    BY <1>1, <1>2, <1>4, <2>2 DEF IsScaler
<1>6. objs \in Seq(Range(objs)) /\ Len(objs) = 1 /\ IsApp(objs[1])
  BY DEF Inv, AddAutoscaler, Scaled, App
<1>7. objs' = [i \in 1..2 |-> IF i = 1 THEN objs[1] ELSE s]
  <2> DEFINE T == Range(objs) \cup {s}
  <2>1. Range(objs) \subseteq T /\ s \in T
    OBVIOUS
  <2> HIDE DEF T
  <2>2. objs \in Seq(T)
    BY <1>6, <2>1
  <2>3. QED
    <3> DEFINE a == objs'
               o == objs
    <3>1. a = Append(o, s) /\ o \in Seq(T) /\ s \in T /\ Len(o) = 1
      BY <1>3, <1>6, <2>1, <2>2
    <3> HIDE DEF a, o
    <3>2. a \in Seq(T) /\ Len(a) = Len(o) + 1 /\ a[Len(o) + 1] = s
          /\ \A i \in 1..Len(o) : a[i] = o[i]
      BY <3>1, Appended
    <3>3. a \in Seq(T) /\ Len(a) = 2 /\ a[1] = o[1] /\ a[2] = s
      BY <3>1, <3>2
    <3>4. a = [i \in 1..2 |-> IF i = 1 THEN o[1] ELSE s]
      BY <3>3
    <3>5. QED
      BY <3>4 DEF a, o
<1>8. objs' \in Seq(Range(objs'))
  <2> DEFINE t == objs'
  <2>1. t = [i \in 1..2 |-> t[i]] /\ 2 \in Nat
    BY <1>7
  <2> HIDE DEF t
  <2>2. t \in Seq(Range(t))
    BY <2>1, OwnRange
  <2>3. QED
    BY <2>2 DEF t
<1>9. Len(objs') = 2 /\ objs'[1] = objs[1] /\ objs'[2] = s
  BY <1>7
<1>10. edit' = "scale"
  BY DEF AddAutoscaler
<1>11. QED
  BY <1>5, <1>6, <1>8, <1>9, <1>10 DEF Inv, App, Scaled

LEMMA NextInv == ASSUME Inv, [Next]_vars PROVE Inv'
<1>1. CASE Next
  BY <1>1, AddContainerGrows, RaiseRequestGrows, ScaleOutGrows, AddAutoscalerInv DEF Next
<1>2. CASE UNCHANGED vars
  BY <1>2 DEF vars, Inv, App, Scaled
<1>3. QED
  BY <1>1, <1>2

\* Whatever the author edits, the set stays one application manifest that can be
\* read, and at most one autoscaler with legal bounds beside it.
THEOREM SpecInv == Spec => []Inv
<1>1. QED
  BY InitInv, NextInv, PTL DEF Spec
--------------------------------------------------------------------------------
(* The price of a version. *)

\* What Inv says of the manifests.
IsVersion(os) ==
    /\ os \in Seq(Range(os)) /\ Len(os) \in 1..2 /\ DOMAIN os = 1..Len(os)
    /\ IsApp(os[1])
    /\ Len(os) = 2 => IsScaler(os[2])

LEMMA InvVersion == Inv => IsVersion(objs)
  BY DEF Inv, IsVersion, App, Scaled

LEMMA OnlyTheAppIsPriced ==
    ASSUME NEW os, IsVersion(os)
    PROVE  /\ Priceable(os[1])
           /\ \A i \in 2..Len(os) : ~Priceable(os[i])
<1>1. IsApp(os[1]) /\ Len(os) \in 1..2 /\ (Len(os) = 2 => IsScaler(os[2]))
  BY DEF IsVersion
<1>2. /\ os[1].kind \in Replicated \cup RunToCompletion
                        \cup {"DaemonSet", "Pod", "PersistentVolumeClaim"}
      /\ os[1].kind # "PersistentVolumeClaim" => os[1].pod # Absent
  BY <1>1, KindsAssumption DEF IsApp, Apps
<1>3. Priceable(os[1])
  BY <1>2 DEF Priceable, Replicated, RunToCompletion
<1>4. ASSUME NEW o, IsScaler(o) PROVE ~Priceable(o)
  BY <1>4 DEF IsScaler, Autoscalers, Priceable, Replicated, RunToCompletion
<1>5. QED
  BY <1>1, <1>3, <1>4

LEMMA VersionDecoded ==
    ASSUME NEW os, IsVersion(os) PROVE AllDecoded(Nat, os)
<1> DEFINE D == {o \in Range(os) : Decoded(Nat, o)}
<1>1. \A i \in 1..Len(os) : Decoded(Nat, os[i]) /\ os[i] \in Range(os)
  <2>1. \A i \in 1..Len(os) : os[i] \in Range(os)
    BY DEF IsVersion, Range
  <2>2. Decoded(Nat, os[1]) /\ (Len(os) = 2 => Decoded(Nat, os[2])) /\ Len(os) \in 1..2
    BY AppDecoded DEF IsVersion, IsScaler
  <2>3. QED
    BY <2>1, <2>2
<1>2. \A i \in 1..Len(os) : os[i] \in D
  BY <1>1
<1>3. Len(os) \in Nat /\ os \in Seq(Range(os))
  BY DEF IsVersion
<1> HIDE DEF D
<1>4. os \in Seq(D)
  BY <1>2, <1>3
<1>5. QED
  BY <1>4 DEF AllDecoded, D

LEMMA VersionNeverFails ==
    ASSUME NEW os, IsVersion(os) PROVE ~EstimateFails(Rates, os)
<1> SUFFICES ASSUME EstimateFails(Rates, os) PROVE FALSE
  OBVIOUS
<1> DEFINE o == os[1]
           cs == IF o.pod = Absent THEN {} ELSE Range(o.pod.containers) \cup Range(o.pod.inits)
<1>1. IsApp(o)
  BY DEF IsVersion
<1>2. ASSUME NEW i \in DOMAIN os, Priceable(os[i]) PROVE i = 1
  <2>1. i \in 1..Len(os) /\ Len(os) \in Nat
    BY DEF IsVersion
  <2>2. \A j \in 2..Len(os) : ~Priceable(os[j])
    BY OnlyTheAppIsPriced
  <2>3. QED
    BY <1>2, <2>1, <2>2
<1>3. \/ \E c \in cs : LET r == ContainerResources(Rates, c) IN Malformed \in {r.cpu, r.mem, r.sto}
      \/ Malformed \in Range(o.claims)
  BY <1>2 DEF EstimateFails
<1>4. Malformed \notin Range(o.claims)
  BY <1>1, ClaimsCounted
<1>5. ASSUME NEW c \in cs PROVE c \in PlainContainers
  <2>1. o.pod \in PlainPods /\ c \in Range(o.pod.containers) \cup Range(o.pod.inits)
    BY <1>1, <1>5 DEF IsApp, Apps
  <2>2. o.pod.containers \in Seq(PlainContainers) /\ o.pod.inits \in Seq(PlainContainers)
    BY <2>1 DEF PlainPods
  <2>3. QED
    BY <2>1, <2>2 DEF Range
<1>6. ASSUME NEW c \in PlainContainers
      PROVE  LET r == ContainerResources(Rates, c) IN Malformed \notin {r.cpu, r.mem, r.sto}
  <2>1. ContainerResources(Rates, c) \in Resources(Nat)
    BY PlainReadable DEF Readable
  <2>2. QED
    BY <2>1, PlaceholdersAssumption DEF Resources
<1>7. QED
  BY <1>3, <1>4, <1>5, <1>6

LEMMA VersionPriced ==
    ASSUME NEW os, IsVersion(os)
    PROVE  LET w == Price(Rates, Nodes, os, os[1])
           IN  /\ PerReplica(Rates, os[1]) \in Resources(Nat)
               /\ w.ceiling \in Nat /\ w.floor \in Nat
               /\ Est(os).workloads[1] = w
               /\ Est(os).monthly = w.ceiling /\ Est(os).committed = w.floor
<1> DEFINE w == Price(Rates, Nodes, os, os[1])
<1>1. ReadTable(Nat, Rates) /\ Nodes \in Nat
  BY RatesAssumption
<1>2. AllDecoded(Nat, os) /\ ~EstimateFails(Rates, os)
  BY VersionDecoded, VersionNeverFails
<1>3. 1 \in PriceableAt(os)
  <2>1. 1 \in DOMAIN os
    BY DEF IsVersion
  <2>2. Priceable(os[1])
    BY OnlyTheAppIsPriced
  <2>3. QED
    BY <2>1, <2>2 DEF PriceableAt
<1>4. PerReplica(Rates, os[1]) \in Resources(Nat)
  BY <1>1, <1>2, <1>3, PerReplicaType, NatNumbers
<1>5. w.ceiling \in Nat /\ w.floor \in Nat
  BY <1>1, <1>2, <1>3, PriceType, NatNumbers
<1>6. Len(os) \in Nat /\ Len(os) >= 1
  BY DEF IsVersion
<1> HIDE DEF w
<1>7. LET e == Estimate(Rates, Nodes, os)
      IN  e.workloads[1] = w /\ e.monthly = w.ceiling /\ e.committed = w.floor
  BY <1>5, <1>6, OnlyTheAppIsPriced, EstimateOfFirst DEF w
<1>8. QED
  BY <1>4, <1>5, <1>7 DEF Est, w

\* Every version is priced, at a natural number: no step of the arithmetic of
\* price and podResources goes below zero or fails.
THEOREM VersionsArePriced == Spec => []TypeOK
<1>1. Inv => TypeOK
  BY InvVersion, VersionPriced DEF Inv, TypeOK
<1>2. QED
  BY <1>1, SpecInv, PTL
--------------------------------------------------------------------------------
(* Who scales the application, and between which counts. *)

Scaling(os) == Len(os) = 2 /\ Targets(os[2], os[1])

\* The counts a version is priced between, and the price of one replica.
Counts(os) == IF Scaling(os) /\ os[1].kind \notin RunToCompletion
              THEN Bounds(os, os[1])
              ELSE [min |-> DeclaredReplicas(Nodes, os[1]), max |-> DeclaredReplicas(Nodes, os[1])]

UnitPrice(os) == MonthlyUSD(Rates, PerReplica(Rates, os[1]))

LEMMA ScalersOfVersion ==
    ASSUME NEW os, IsVersion(os)
    PROVE  ScalersOf(os, os[1]) = IF Scaling(os) THEN {2} ELSE {}
<1>1. os[1].kind \notin Autoscalers
  BY KindsAssumption DEF IsVersion, IsApp, Apps, Autoscalers, Replicated, RunToCompletion
<1>2. ~Targets(os[1], os[1])
  BY <1>1 DEF Targets
<1>3. DOMAIN os = 1..Len(os) /\ Len(os) \in 1..2
  BY DEF IsVersion
<1>4. QED
  BY <1>2, <1>3 DEF ScalersOf, Scaling

LEMMA BoundsOfVersion ==
    ASSUME NEW os, IsVersion(os), Scaling(os)
    PROVE  /\ os[2].kind = "ScaledObject" =>
                  /\ Bounds(os, os[1]).min = OrDefault(os[2].min, 0)
                  /\ Bounds(os, os[1]).max = OrDefault(os[2].max, KedaDefaultMaxReplicas)
           /\ os[2].kind # "ScaledObject" =>
                  /\ Bounds(os, os[1]).min = OrDefault(os[2].min, 1)
                  /\ Bounds(os, os[1]).max = OrDefault(os[2].max, 1)
<1>1. ScalersOf(os, os[1]) = {2}
  BY ScalersOfVersion
<1>2. Max({2}) = 2
  BY MaxIs
<1>3. QED
  BY <1>1, <1>2 DEF Bounds

LEMMA DeclaredType ==
    ASSUME NEW o, IsApp(o) PROVE DeclaredReplicas(Nodes, o) \in Nat
<1>1. OrDefault(o.replicas, 1) \in Nat
  BY DEF IsApp, Apps, OrDefault
<1>2. QED
  BY <1>1, RatesAssumption DEF DeclaredReplicas, Replicated, RunToCompletion

LEMMA CountsInOrder ==
    ASSUME NEW os, IsVersion(os)
    PROVE  /\ Counts(os).min \in Nat /\ Counts(os).max \in Nat
           /\ Counts(os).min <= Counts(os).max
<1>1. CASE Scaling(os)
  <2> DEFINE s == os[2]
  <2>1. /\ s.min \in Nat \cup {Absent} /\ s.max \in Nat \cup {Absent} /\ s.max # 0
        /\ s.kind \in Autoscalers /\ (s.kind = "HorizontalPodAutoscaler" => s.max # Absent)
        /\ OrDefault(s.min, 0) <= OrDefault(s.max, KedaDefaultMaxReplicas)
    BY <1>1 DEF IsVersion, Scaling, IsScaler, Decoded
  <2>2. \/ Counts(os) = Bounds(os, os[1])
        \/ Counts(os).min = Counts(os).max /\ Counts(os).min \in Nat
    <3> DEFINE n == DeclaredReplicas(Nodes, os[1])
    <3>1. n \in Nat
      BY DeclaredType DEF IsVersion
    <3> HIDE DEF n
    <3>2. Counts(os) = Bounds(os, os[1]) \/ Counts(os) = [min |-> n, max |-> n]
      BY DEF Counts, n
    <3>3. CASE Counts(os) = [min |-> n, max |-> n]
      BY <3>1, <3>3
    <3>4. QED
      BY <3>2, <3>3
  <2> HIDE DEF s
  <2>3. CASE s.kind = "ScaledObject"
    <3>1. /\ Bounds(os, os[1]).min = OrDefault(s.min, 0)
          /\ Bounds(os, os[1]).max = OrDefault(s.max, KedaDefaultMaxReplicas)
      BY <1>1, <2>3, BoundsOfVersion DEF s
    <3>2. QED
      BY <2>1, <2>2, <3>1 DEF OrDefault, KedaDefaultMaxReplicas
  <2>4. CASE s.kind # "ScaledObject"
    <3>1. /\ Bounds(os, os[1]).min = OrDefault(s.min, 1)
          /\ Bounds(os, os[1]).max = OrDefault(s.max, 1)
      BY <1>1, <2>4, BoundsOfVersion DEF s
    <3>2. s.max # Absent
      BY <2>1, <2>4 DEF Autoscalers
    <3>3. QED
      BY <2>1, <2>2, <3>1, <3>2 DEF OrDefault, KedaDefaultMaxReplicas
  <2>5. QED
    BY <2>3, <2>4
<1>2. CASE ~Scaling(os)
  BY <1>2, DeclaredType DEF Counts, IsVersion
<1>3. QED
  BY <1>1, <1>2

LEMMA PriceOfVersion ==
    ASSUME NEW os, IsVersion(os)
    PROVE  LET w == Est(os).workloads[1]
           IN  /\ (w.autoscaled <=> Scaling(os) /\ os[1].kind \notin RunToCompletion)
               /\ w.replicas = Counts(os).max
               /\ w.ceiling = Counts(os).max * UnitPrice(os)
               /\ w.floor = Counts(os).min * UnitPrice(os)
               /\ UnitPrice(os) \in Nat
               /\ Est(os).monthly = w.ceiling /\ Est(os).committed = w.floor
<1> DEFINE w == Price(Rates, Nodes, os, os[1])
           autoscaled == os[1].kind \notin RunToCompletion /\ ScalersOf(os, os[1]) # {}
<1>1. autoscaled <=> Scaling(os) /\ os[1].kind \notin RunToCompletion
  BY ScalersOfVersion
<1>2. /\ (w.autoscaled <=> Scaling(os) /\ os[1].kind \notin RunToCompletion)
      /\ w.replicas = Counts(os).max
      /\ w.ceiling = Counts(os).max * UnitPrice(os)
      /\ w.floor = Counts(os).min * UnitPrice(os)
  BY <1>1 DEF Price, Counts, UnitPrice
<1> HIDE DEF w
<1>3. /\ PerReplica(Rates, os[1]) \in Resources(Nat) /\ Est(os).workloads[1] = w
      /\ Est(os).monthly = w.ceiling /\ Est(os).committed = w.floor
  BY VersionPriced DEF w
<1>4. UnitPrice(os) \in Nat
  BY <1>3, RatesAssumption, MonthlyUSDType, NatNumbers DEF UnitPrice
<1>5. QED
  BY <1>2, <1>3, <1>4

\* price: the floor is what the change commits to whatever the load
\* and the ceiling what it authorises, so the first never exceeds the second.
THEOREM FloorNeverExceedsCeiling == Spec => []FloorBelowCeiling
<1>1. ASSUME Inv PROVE FloorBelowCeiling
  <2>1. IsVersion(objs)
    BY <1>1, InvVersion
  <2> DEFINE w == Est(objs).workloads[1]
             lo == Counts(objs).min
             hi == Counts(objs).max
             p == UnitPrice(objs)
  <2>2. lo \in Nat /\ hi \in Nat /\ lo <= hi
    BY <2>1, CountsInOrder
  <2>3. /\ w.ceiling = hi * p /\ w.floor = lo * p /\ p \in Nat
        /\ (w.autoscaled <=> Scaling(objs) /\ objs[1].kind \notin RunToCompletion)
    BY <2>1, PriceOfVersion
  <2>4. ~w.autoscaled => lo = hi
    BY <2>3 DEF Counts
  <2> HIDE DEF w, lo, hi, p
  <2>5. lo * p <= hi * p
    BY <2>2, <2>3, TimesMonotone
  <2>6. w.floor <= w.ceiling /\ (~w.autoscaled => w.floor = w.ceiling)
    BY <2>3, <2>4, <2>5
  <2>7. QED
    BY <2>6 DEF FloorBelowCeiling, w
<1>2. QED
  BY <1>1, SpecInv, PTL

\* collectAutoscalers and price: an autoscaler of another workload, or
\* of another kind of the same name, leaves the price alone.
THEOREM PricedAtTheAuthorisedMaximum == Spec => []CeilingIsWhatTheScalerAllows
<1>1. ASSUME Inv PROVE CeilingIsWhatTheScalerAllows
  <2>1. IsVersion(objs)
    BY <1>1, InvVersion
  <2> DEFINE w == Est(objs).workloads[1]
             s == objs[2]
             named == Scaled /\ s.target.name = "worker"
                        /\ App.kind = (IF s.target.kind = Absent THEN "Deployment" ELSE s.target.kind)
  <2>2. /\ (w.autoscaled <=> Scaling(objs) /\ objs[1].kind \notin RunToCompletion)
        /\ w.replicas = Counts(objs).max
    BY <2>1, PriceOfVersion
  <2>3. App.ns = "demo" /\ App.name = "worker"
    BY <2>1 DEF IsVersion, IsApp, Apps, App
  <2>4. Scaled => /\ s.kind \in Autoscalers /\ s.ns = "demo" /\ s.target \in ScalerTargets
                  /\ s.max \in Nat \cup {Absent} /\ (s.kind # "ScaledObject" => s.max # Absent)
    BY <2>1 DEF IsVersion, Scaled, IsScaler, Decoded, Autoscalers
  <2>5. named <=> Scaling(objs)
    BY <2>3, <2>4, TargetsAssumption DEF Scaling, Scaled, Targets, OrDefault, App
  <2>6. named => App.kind \notin RunToCompletion
    BY <2>4 DEF ScalerTargets, RunToCompletion
  <2>7. named => Counts(objs).max = OrDefault(s.max, 100)
    <3> SUFFICES ASSUME named PROVE Counts(objs).max = OrDefault(s.max, 100)
      OBVIOUS
    <3>1. Counts(objs) = Bounds(objs, objs[1])
      BY <2>5, <2>6 DEF Counts, App
    <3>2. Bounds(objs, objs[1]).max = OrDefault(s.max, 100)
      <4>1. CASE s.kind = "ScaledObject"
        BY <2>1, <2>5, <4>1, BoundsOfVersion DEF KedaDefaultMaxReplicas
      <4>2. CASE s.kind # "ScaledObject"
        <5>1. s.max # Absent
          BY <2>4, <4>2
        <5>2. Bounds(objs, objs[1]).max = OrDefault(s.max, 1)
          BY <2>1, <2>5, <4>2, BoundsOfVersion
        <5>3. QED
          BY <5>1, <5>2 DEF OrDefault
      <4>3. QED
        BY <4>1, <4>2
    <3>3. QED
      BY <3>1, <3>2
  <2>8. /\ (w.autoscaled <=> named)
        /\ (named /\ s.max # Absent => w.replicas = s.max)
        /\ (named /\ s.max = Absent => w.replicas = 100)
    <3> HIDE DEF w, named
    <3>1. objs[1] = App
      BY DEF App
    <3>2. QED
      BY <2>2, <2>5, <2>6, <2>7, <3>1 DEF OrDefault
  <2>9. QED
    BY <2>8 DEF CeilingIsWhatTheScalerAllows
<1>2. QED
  BY <1>1, SpecInv, PTL
--------------------------------------------------------------------------------
(* Growing never costs less. *)

LEMMA PerReplicaGrows ==
    ASSUME NEW a, NEW b, IsApp(a), IsApp(b), Grows(a, b)
    PROVE  AtLeast(PerReplica(Rates, a), PerReplica(Rates, b))
<1> DEFINE zero == [cpu |-> 0, mem |-> 0, sto |-> 0]
           P(o) == IF o.pod = Absent \/ o.kind \in RunToCompletion THEN zero ELSE PodResources(Rates, o.pod)
           claimed(o) == ClaimedStorage(o)
           storing(o) == o.kind \in {"StatefulSet", "PersistentVolumeClaim"}
<1>1. /\ a.kind = b.kind /\ claimed(a) <= claimed(b)
      /\ claimed(a) \in Nat /\ claimed(b) \in Nat
  BY ClaimsCounted DEF Grows
<1>2. P(a) \in Resources(Nat) /\ P(b) \in Resources(Nat) /\ AtLeast(P(a), P(b))
  <2>1. CASE a.pod = Absent
    <3>1. b.pod = Absent
      BY <2>1, PlainIsContainer DEF Grows, PodGrows
    <3>2. AtLeast(zero, zero)
      BY DEF AtLeast
    <3>3. QED
      BY <2>1, <3>1, <3>2, NothingReserved, NatNumbers
  <2>2. CASE a.pod # Absent
    <3>1. /\ a.pod \in PlainPods /\ b.pod \in PlainPods /\ b.pod # Absent
          /\ AsksForMore(Rates, a.pod, b.pod)
      BY <2>2, PlainIsContainer DEF Grows, PodGrows
    <3>2. ReadablePod(Nat, Rates, a.pod) /\ ReadablePod(Nat, Rates, b.pod)
      BY <3>1, PlainPodReadable
    <3>3. AtLeast(PodResources(Rates, a.pod), PodResources(Rates, b.pod))
      BY <3>1, <3>2, PodResourcesMonotone
    <3>4. PodResources(Rates, a.pod) \in Resources(Nat) /\ PodResources(Rates, b.pod) \in Resources(Nat)
      BY <3>2, PodResourcesType, NatNumbers
    <3>5. AtLeast(zero, zero)
      BY DEF AtLeast
    <3>6. QED
      BY <1>1, <2>2, <3>1, <3>3, <3>4, <3>5, NothingReserved, NatNumbers
  <2>3. QED
    BY <2>1, <2>2
<1>3. \A o : PerReplica(Rates, o) = IF storing(o) THEN [P(o) EXCEPT !.sto = @ + claimed(o)] ELSE P(o)
  BY DEF PerReplica
<1> DEFINE p == P(a)
           q == P(b)
           m == claimed(a)
           n == claimed(b)
<1>4. p \in Resources(Nat) /\ q \in Resources(Nat) /\ AtLeast(p, q) /\ m \in Nat /\ n \in Nat /\ m <= n
  BY <1>1, <1>2
<1>5. CASE storing(a)
  <2>1. /\ PerReplica(Rates, a) = [p EXCEPT !.sto = @ + m]
        /\ PerReplica(Rates, b) = [q EXCEPT !.sto = @ + n]
    BY <1>1, <1>3, <1>5
  <2> HIDE DEF p, q, m, n
  <2>2. AtLeast([p EXCEPT !.sto = @ + m], [q EXCEPT !.sto = @ + n])
    BY <1>4 DEF AtLeast, Resources
  <2>3. QED
    BY <2>1, <2>2
<1>6. CASE ~storing(a)
  <2>1. PerReplica(Rates, a) = p /\ PerReplica(Rates, b) = q
    BY <1>1, <1>3, <1>6
  <2> HIDE DEF p, q
  <2>2. QED
    BY <1>4, <2>1
<1>7. QED
  BY <1>5, <1>6

LEMMA CountsGrow ==
    ASSUME NEW os, IsVersion(os), NEW ot, IsVersion(ot), Grows(os[1], ot[1]),
           Len(ot) = Len(os), Len(os) = 2 => ot[2] = os[2]
    PROVE  Counts(os).min <= Counts(ot).min /\ Counts(os).max <= Counts(ot).max
<1>1. /\ os[1].kind = ot[1].kind /\ os[1].ns = ot[1].ns /\ os[1].name = ot[1].name
      /\ OrDefault(os[1].replicas, 1) <= OrDefault(ot[1].replicas, 1)
  BY DEF Grows
<1>2. Scaling(os) <=> Scaling(ot)
  BY <1>1 DEF Scaling, Targets
<1>3. /\ Counts(os).min \in Nat /\ Counts(os).max \in Nat
      /\ Counts(ot).min \in Nat /\ Counts(ot).max \in Nat
  BY CountsInOrder
<1>4. CASE Scaling(os) /\ os[1].kind \notin RunToCompletion
  <2>1. Counts(os) = Bounds(os, os[1]) /\ Counts(ot) = Bounds(ot, ot[1]) /\ os[2] = ot[2]
    BY <1>1, <1>2, <1>4 DEF Counts, Scaling
  <2>2. /\ Bounds(os, os[1]).min = Bounds(ot, ot[1]).min
        /\ Bounds(os, os[1]).max = Bounds(ot, ot[1]).max
    <3>1. CASE os[2].kind = "ScaledObject"
      BY <1>2, <1>4, <2>1, <3>1, BoundsOfVersion
    <3>2. CASE os[2].kind # "ScaledObject"
      BY <1>2, <1>4, <2>1, <3>2, BoundsOfVersion
    <3>3. QED
      BY <3>1, <3>2
  <2>3. QED
    BY <1>3, <2>1, <2>2
<1>5. CASE ~(Scaling(os) /\ os[1].kind \notin RunToCompletion)
  <2> DEFINE m == DeclaredReplicas(Nodes, os[1])
             n == DeclaredReplicas(Nodes, ot[1])
  <2>1. m <= n
    <3>1. m \in Nat /\ n \in Nat
      BY DeclaredType DEF IsVersion
    <3>2. QED
      BY <1>1, <3>1 DEF DeclaredReplicas
  <2>2. /\ Counts(os).min = m /\ Counts(os).max = m
        /\ Counts(ot).min = n /\ Counts(ot).max = n
    BY <1>1, <1>2, <1>5 DEF Counts
  <2>3. QED
    BY <2>1, <2>2
<1>6. QED
  BY <1>4, <1>5

LEMMA PriceGrows ==
    ASSUME NEW os, IsVersion(os), NEW ot, IsVersion(ot), Grows(os[1], ot[1]),
           Len(ot) = Len(os), Len(os) = 2 => ot[2] = os[2]
    PROVE  Est(ot).monthly >= Est(os).monthly /\ Est(ot).committed >= Est(os).committed
<1>1. /\ PerReplica(Rates, os[1]) \in Resources(Nat) /\ PerReplica(Rates, ot[1]) \in Resources(Nat)
      /\ AtLeast(PerReplica(Rates, os[1]), PerReplica(Rates, ot[1]))
  BY VersionPriced, PerReplicaGrows DEF IsVersion
<1>2. UnitPrice(os) <= UnitPrice(ot)
  BY <1>1, RatesAssumption, MonthlyUSDMonotone DEF UnitPrice
<1> DEFINE u == UnitPrice(os)
           v == UnitPrice(ot)
           c == Counts(os)
           d == Counts(ot)
<1>3. /\ u \in Nat /\ v \in Nat
      /\ Est(os).monthly = c.max * u /\ Est(os).committed = c.min * u
      /\ Est(ot).monthly = d.max * v /\ Est(ot).committed = d.min * v
  BY PriceOfVersion
<1>4. c.min \in Nat /\ c.max \in Nat /\ d.min \in Nat /\ d.max \in Nat
  BY CountsInOrder
<1>5. c.min <= d.min /\ c.max <= d.max
  BY CountsGrow
<1>6. u <= v
  BY <1>2
<1> HIDE DEF u, v, c, d
<1>7. /\ c.max * u <= d.max * u /\ d.max * u <= d.max * v
      /\ c.min * u <= d.min * u /\ d.min * u <= d.min * v
  BY <1>3, <1>4, <1>5, <1>6, TimesMonotone
<1>8. /\ c.max * u \in Nat /\ d.max * u \in Nat /\ d.max * v \in Nat
      /\ c.min * u \in Nat /\ d.min * u \in Nat /\ d.min * v \in Nat
  BY <1>3, <1>4, TimesNat
<1>9. QED
  BY <1>3, <1>7, <1>8

\* One more container, more of a request a container states, one more replica or
\* a claim never makes the estimate smaller, whatever the rest of the manifest
\* and its autoscaler say.
THEOREM GrowingIsNeverASaving == Spec => GrowthNeverCheaper
<1>1. ASSUME Inv, Next, edit' = "grow"
      PROVE  Est(objs').monthly >= Est(objs).monthly /\ Est(objs').committed >= Est(objs).committed
  <2>1. Inv' /\ Grows(App, App') /\ Len(objs') = Len(objs) /\ (Scaled => objs'[2] = objs[2])
    BY <1>1, AddContainerGrows, RaiseRequestGrows, ScaleOutGrows, AddAutoscalerInv DEF Next
  <2> DEFINE ot == objs'
  <2>2. IsVersion(objs)
    BY <1>1, InvVersion
  <2>3. IsVersion(ot)
    BY <2>1 DEF Inv, IsVersion, App, Scaled
  <2>4. Grows(objs[1], ot[1]) /\ Len(ot) = Len(objs) /\ (Len(objs) = 2 => ot[2] = objs[2])
    BY <2>1 DEF App, Scaled
  <2> HIDE DEF ot
  <2>5. Est(ot).monthly >= Est(objs).monthly /\ Est(ot).committed >= Est(objs).committed
    BY <2>2, <2>3, <2>4, PriceGrows
  <2>6. QED
    BY <2>5 DEF ot
<1>2. ASSUME Inv, [Next]_vars
      PROVE  [edit' = "grow" => /\ Est(objs').monthly   >= Est(objs).monthly
                                /\ Est(objs').committed >= Est(objs).committed]_vars
  BY <1>1, <1>2
<1>3. QED
  BY <1>2, SpecInv, PTL DEF Spec, GrowthNeverCheaper
--------------------------------------------------------------------------------
(* The busiest moment of a pod's life. *)

\* What the init containers that are up hold while the i-th one runs.
UpAmounts(pod, i, field) ==
    [j \in DOMAIN pod.inits |->
        IF j \in {k \in DOMAIN pod.inits : k = i \/ (k < i /\ pod.inits[k].sidecar)}
        THEN ContainerResources(Rates, pod.inits[j])[field] ELSE 0]

LEMMA UpAmountsType ==
    ASSUME NEW pod \in PlainPods, NEW i, NEW field \in Requested
    PROVE  /\ UpAmounts(pod, i, field) \in Seq(Nat) /\ Len(UpAmounts(pod, i, field)) = Len(pod.inits)
           /\ \A j \in 1..Len(pod.inits) :
                  ContainerResources(Rates, pod.inits[j])[field] \in Nat
<1>1. pod.inits \in Seq(PlainContainers)
  BY DEF PlainPods
<1>2. \A c \in PlainContainers : ContainerResources(Rates, c)[field] \in Nat
  BY PlainReadable DEF Readable, Resources, Requested
<1>3. /\ DOMAIN pod.inits = 1..Len(pod.inits) /\ Len(pod.inits) \in Nat
      /\ \A j \in 1..Len(pod.inits) : ContainerResources(Rates, pod.inits[j])[field] \in Nat
  BY <1>1, <1>2
<1>4. QED
  BY <1>3 DEF UpAmounts

LEMMA HeldIs ==
    ASSUME NEW pod \in PlainPods, NEW i \in 1..(Len(pod.inits) + 1), NEW field \in Requested
    PROVE  /\ i <= Len(pod.inits) => HeldDuring(pod, i, field) = Total(UpAmounts(pod, i, field))
           /\ i > Len(pod.inits) => HeldDuring(pod, i, field)
                  = Total(AppAmounts(Rates, pod, field)) + Total(UpAmounts(pod, i, field))
<1>1. pod.inits \in Seq(PlainContainers) /\ Len(pod.inits) \in Nat
  BY DEF PlainPods
<1>2. QED
  BY <1>1 DEF HeldDuring, UpAmounts, AppAmounts

LEMMA HeldAtInit ==
    ASSUME NEW pod \in PlainPods, NEW field \in Requested, NEW i \in 1..Len(pod.inits)
    PROVE  HeldDuring(pod, i, field) = Total(UpAmounts(pod, i, field))
<1>1. Len(pod.inits) \in Nat
  BY DEF PlainPods
<1>2. i \in 1..(Len(pod.inits) + 1) /\ i <= Len(pod.inits)
  BY <1>1
<1>3. QED
  BY <1>2, HeldIs

LEMMA HeldByTheApps ==
    ASSUME NEW pod \in PlainPods, NEW field \in Requested
    PROVE  HeldDuring(pod, Len(pod.inits) + 1, field) = Total(AppAmounts(Rates, pod, field))
               + Total(UpAmounts(pod, Len(pod.inits) + 1, field))
<1> DEFINE last == Len(pod.inits) + 1
<1>1. Len(pod.inits) \in Nat
  BY DEF PlainPods
<1>2. last \in 1..(Len(pod.inits) + 1) /\ last > Len(pod.inits)
  BY <1>1
<1> HIDE DEF last
<1>3. HeldDuring(pod, last, field)
          = Total(AppAmounts(Rates, pod, field)) + Total(UpAmounts(pod, last, field))
  BY <1>2, HeldIs
<1>4. QED
  BY <1>3 DEF last

LEMMA PeakIsPriced ==
    ASSUME NEW pod \in PlainPods, NEW field \in Requested, ~SidecarBeforeInit(pod)
    PROVE  PodResources(Rates, pod)[field] = Peak(pod, field)
<1> DEFINE n == Len(pod.inits)
           A(j) == ContainerResources(Rates, pod.inits[j])[field]
           run == Running(Rates, pod, field)
           most == MaxInit(Rates, pod, field)
           side == SidecarAmounts(Rates, pod, field)
           apps == AppAmounts(Rates, pod, field)
           H(i) == HeldDuring(pod, i, field)
           S == {H(i) : i \in 1..(n + 1)}
<1>1. ReadablePod(Nat, Rates, pod) /\ field \in Fields
  BY PlainPodReadable DEF Fields, Requested
<1>2. /\ run \in Nat /\ most \in Nat
      /\ \A i \in Ordinary(pod) : A(i) <= most
      /\ most = 0 \/ \E i \in Ordinary(pod) : most = A(i)
  BY <1>1, PodAmounts, NatNumbers
<1>3. /\ side \in Seq(Nat) /\ Len(side) = n /\ apps \in Seq(Nat)
      /\ DOMAIN pod.inits = 1..n /\ n \in Nat
  BY <1>1, AmountsType, NatNumbers
<1>4. \A j \in 1..n : side[j] = IF pod.inits[j].sidecar THEN A(j) ELSE 0
  BY <1>3 DEF SidecarAmounts
<1>5. run = Total(apps) + Total(side) /\ Total(apps) \in Nat /\ Total(side) \in Nat
  BY <1>3, RunningIs, TotalNat
<1>6. ASSUME NEW i \in 1..n, ~pod.inits[i].sidecar PROVE H(i) = A(i) /\ i \in Ordinary(pod)
  <2> DEFINE u == UpAmounts(pod, i, field)
  <2>1. u \in Seq(Nat) /\ Len(u) = n
    BY UpAmountsType
  <2>2. u[i] = A(i)
    BY <1>3 DEF UpAmounts
  <2>3. \A j \in 1..Len(u) : j # i => u[j] = 0
    BY <1>3, <1>6, <2>1 DEF UpAmounts, SidecarBeforeInit
  <2>4. H(i) = Total(u)
    BY HeldAtInit
  <2> HIDE DEF u
  <2>5. Total(u) = u[i]
    BY <2>1, <2>3, TotalOfOne
  <2>6. i \in Ordinary(pod)
    BY <1>3, <1>6 DEF Ordinary
  <2>7. QED
    BY <2>2, <2>4, <2>5, <2>6
<1>7. ASSUME NEW i \in 1..n, pod.inits[i].sidecar PROVE H(i) <= run /\ H(i) \in Nat
  <2> DEFINE u == UpAmounts(pod, i, field)
  <2>1. u \in Seq(Nat) /\ Len(u) = n
    BY UpAmountsType
  <2>2. \A j \in 1..n : u[j] = side[j] \/ u[j] = 0
    BY <1>3, <1>4, <1>7 DEF UpAmounts
  <2>3. H(i) = Total(u)
    BY HeldAtInit
  <2> HIDE DEF u, side
  <2>4. Total(u) <= Total(side) /\ Total(u) \in Nat
    <3> HIDE DEF n
    <3>1. u \in Seq(Nat) /\ side \in Seq(Nat) /\ Len(u) <= Len(side)
          /\ Len(u) = n /\ Len(side) = n /\ n \in Nat
      BY <1>3, <2>1
    <3>2. \A j \in 1..n : side[j] \in Nat
      BY <3>1
    <3>3. \A j \in 1..Len(u) : u[j] <= side[j]
      BY <2>2, <3>1, <3>2
    <3>4. QED
      BY <3>1, <3>3, TotalMonotone, TotalNat
  <2>5. QED
    BY <1>5, <2>3, <2>4
<1>8. H(n + 1) = run
  <2> DEFINE u == UpAmounts(pod, n + 1, field)
  <2>1. u \in Seq(Nat) /\ Len(u) = n
    BY UpAmountsType
  <2>2. \A j \in 1..n : u[j] = side[j]
    BY <1>3, <1>4 DEF UpAmounts
  <2>3. u = side
    <3> HIDE DEF u, side, n
    <3>1. u \in Seq(Nat) /\ side \in Seq(Nat) /\ Len(u) = n /\ Len(side) = n /\ n \in Nat
      BY <1>3, <2>1
    <3> DEFINE v == [j \in 1..n |-> u[j]]
               w == [j \in 1..n |-> side[j]]
    <3>2. u = v
      BY <3>1
    <3>3. side = w
      BY <3>1
    <3>4. v = w
      BY <2>2
    <3> HIDE DEF v, w
    <3>5. QED
      BY <3>2, <3>3, <3>4
  <2>4. H(n + 1) = Total(apps) + Total(u)
    BY HeldByTheApps
  <2>5. QED
    BY <1>5, <2>3, <2>4
<1>9. \A j \in 1..n : A(j) \in Nat
  BY UpAmountsType
<1> DEFINE peak == Larger(run, most)
<1>10. PodResources(Rates, pod)[field] = peak
  BY DEF PodResources, Requested
<1>11. Peak(pod, field) = Max(S)
  BY DEF Peak
<1>12. Ordinary(pod) \subseteq 1..n
  BY <1>3 DEF Ordinary
<1> HIDE DEF A, H, run, most, side, apps
<1>13. \A i \in 1..(n + 1) : H(i) \in Nat /\ H(i) <= peak
  <2> SUFFICES ASSUME NEW i \in 1..(n + 1) PROVE H(i) \in Nat /\ H(i) <= peak
    OBVIOUS
  <2>1. run \in Nat /\ most \in Nat /\ peak \in Nat /\ run <= peak /\ most <= peak
    BY <1>2 DEF Larger
  <2>2. CASE i = n + 1
    BY <1>8, <2>1, <2>2
  <2>3. CASE i \in 1..n /\ pod.inits[i].sidecar
    <3>1. H(i) <= run /\ H(i) \in Nat
      BY <1>7, <2>3
    <3> HIDE DEF peak
    <3>2. QED
      BY <2>1, <3>1
  <2>4. CASE i \in 1..n /\ ~pod.inits[i].sidecar
    <3>1. H(i) = A(i) /\ A(i) <= most /\ A(i) \in Nat
      BY <1>2, <1>6, <1>9, <2>4
    <3> HIDE DEF peak
    <3>2. QED
      BY <2>1, <3>1
  <2>5. QED
    BY <1>3, <2>2, <2>3, <2>4
<1>14. peak \in S
  <2>1. run \in S
    BY <1>3, <1>8
  <2>2. peak = run \/ \E i \in Ordinary(pod) : peak = A(i)
    BY <1>2 DEF Larger
  <2>3. \A i \in Ordinary(pod) : ~pod.inits[i].sidecar
    BY DEF Ordinary
  <2>4. \A i \in Ordinary(pod) : H(i) = A(i)
    BY <1>6, <1>12, <2>3
  <2> HIDE DEF peak
  <2>5. QED
    BY <1>3, <1>12, <2>1, <2>2, <2>4
<1>15. S \in SUBSET Int /\ \A x \in S : x <= peak
  <2> HIDE DEF peak
  <2> QED
    BY <1>13
<1>16. Max(S) = peak
  <2> HIDE DEF S, peak
  <2> QED
    BY <1>14, <1>15, MaxIs
<1>17. QED
  BY <1>10, <1>11, <1>16

\* podResources: unless a sidecar is started before an ordinary init container,
\* the CPU and the memory priced are exactly the most that is ever held of each.
THEOREM PricedAtThePeak == Spec => []PodPricedAtItsPeak
<1>1. ASSUME Inv PROVE PodPricedAtItsPeak
  <2> SUFFICES ASSUME App.pod # Absent, ~SidecarBeforeInit(App.pod)
               PROVE  \A field \in Requested : PodResources(Rates, App.pod)[field] = Peak(App.pod, field)
    BY DEF PodPricedAtItsPeak
  <2>1. App.pod \in PlainPods
    BY <1>1 DEF Inv, IsApp, Apps
  <2>2. QED
    BY <2>1, PeakIsPriced
<1>2. QED
  BY <1>1, SpecInv, PTL
================================================================================
