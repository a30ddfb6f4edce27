--------------------------- MODULE CostExporterProofs ---------------------------
(***************************************************************************)
(* Proofs about the cost exporter, for any number of workloads and any     *)
(* footprints and rates.  The invariant says three things: what has been   *)
(* learned of a workload that did not change is right as far as the cycle  *)
(* has come; what was computed from a complete cycle is right for such a   *)
(* workload; and each vector holds one cycle, or is on the way to it.      *)
(***************************************************************************)
EXTENDS CostExporter, TLAPS

Resources == {"cpu", "memory"}

\* The sample of footprint f that the answered queries have brought.
Sample(f, b, r) == IF <<b, r>> \in answered /\ f # Gone THEN f[b][r] ELSE Absent

Environment ==
    /\ cluster \in [Workloads -> Footprints \cup {Gone}]
    /\ prometheus \in {"answers", "fails", "blind"}
    /\ \A w \in Workloads : cluster[w] \in during[w]
    /\ DOMAIN during = Workloads

Learning ==
    /\ answered \subseteq Queries
    /\ DOMAIN usage = Series
    /\ \A s \in Series : usage[s] = [cpu |-> usage[s]["cpu"], memory |-> usage[s]["memory"]]
    /\ \A w \in Workloads, b \in Bases, r \in Resources : usage[<<w, b>>][r] \in Amounts(b, r)
    /\ \A w \in Workloads, b \in Bases, r \in Resources, f \in Footprints \cup {Gone} :
            during[w] = {f} => usage[<<w, b>>][r] = Sample(f, b, r)

\* The readings of the last complete cycle.
Latest == IF at \in {"reset", "set"} THEN Costs ELSE shown

Computed ==
    /\ shown \in [Series -> Readings]
    /\ \A w \in Workloads, b \in Bases, f \in Footprints :
            truth[w] = {f} => Latest[<<w, b>>] = Reading(f[b])

\* Vector v as the cycle in the gauges filled it.
Whole(v) == [s \in Series |-> Of(shown[s], v)]

Values(v) == {Fresh} \cup {Of(r, v) : r \in Readings}

Place ==
    /\ at \in {"query", "reset", "set", "wait"}
    /\ at \in {"reset", "set"} => answered = Queries
    /\ vector \in Vectors /\ current \in Series \cup {NoSeries}
    /\ at # "set" => current = NoSeries
    /\ at \in {"query", "wait"} => vector = 1
    /\ at = "set" /\ current = NoSeries => vector = 1

Filled ==
    /\ DOMAIN gauges = Vectors
    /\ \A v \in Vectors : gauges[v] \in [Series -> Values(v)]
    /\ at \in {"query", "wait"} => \A v \in Vectors : gauges[v] = Whole(v)
    /\ at = "reset" => \A v \in Vectors : gauges[v] = IF v < vector THEN Empty ELSE Whole(v)
    /\ at = "set" => /\ shown = Costs
                     /\ \A v \in Vectors, s \in Series :
                            gauges[v][s] \in {Absent, Fresh, Of(Costs[s], v)}

Ind == Environment /\ Learning /\ Computed /\ Place /\ Filled

\* A vector without series is well typed, and is what an empty cycle shows.
LEMMA EmptyVectors ==
    ASSUME NEW v \in Vectors
    PROVE  /\ Absent \in Readings /\ Of(Absent, v) = Absent /\ Absent \in Values(v)
           /\ Empty \in [Series -> Values(v)] /\ Empty \in [Series -> Readings]
<1>1. Absent \in Readings /\ Of(Absent, v) = Absent
  BY DEF Readings, Of
<1>2. Absent \in Values(v)
  BY <1>1 DEF Values
<1>3. QED
  BY <1>1, <1>2 DEF Empty

LEMMA NothingShown ==
    ASSUME gauges = NoGauges, shown = Empty, vector = 1, current = NoSeries, at = "query"
    PROVE  /\ Place /\ Filled
           /\ shown \in [Series -> Readings]
<1>1. 1 \in Vectors
  BY DEF Vectors
<1>2. Place
  BY <1>1 DEF Place
<1>3. \A v \in Vectors : gauges[v] = Empty /\ Empty \in [Series -> Values(v)] /\ Whole(v) = Empty
  <2> SUFFICES ASSUME NEW v \in Vectors
               PROVE  gauges[v] = Empty /\ Empty \in [Series -> Values(v)] /\ Whole(v) = Empty
    OBVIOUS
  <2>1. gauges[v] = Empty
    BY DEF NoGauges
  <2>2. Whole(v) = Empty
    BY EmptyVectors DEF Whole, Empty
  <2>3. QED
    BY <2>1, <2>2, EmptyVectors
<1>4. Filled
  BY <1>3 DEF Filled, NoGauges
<1>5. QED
  BY <1>1, <1>2, <1>4, EmptyVectors

LEMMA InitInd == Init => Ind
<1> SUFFICES ASSUME Init PROVE Ind
  OBVIOUS
<1>1. Environment
  BY DEF Init, Environment, Present
<1>2. Learning
  <2>1. \A b \in Bases, r \in Resources : <<b, r>> \notin answered /\ Absent \in Amounts(b, r)
    BY DEF Init, Amounts
  <2>2. \A s \in Series, r \in Resources : usage[s][r] = Absent
    BY DEF Init, NoSamples, Resources
  <2>3. QED
    BY <2>1, <2>2 DEF Init, NoSamples, Learning, Sample, Series
<1>3. Place /\ Filled /\ shown \in [Series -> Readings]
  BY NothingShown DEF Init
<1>4. Computed
  BY <1>3 DEF Init, Computed
<1>5. QED
  BY <1>1, <1>2, <1>3, <1>4 DEF Ind

\* What one answer adds to the usage, pointwise.
LEMMA LearnedPointwise ==
    ASSUME Ind, NEW q \in Queries
    PROVE  /\ DOMAIN Learned(q) = Series
           /\ \A s \in Series : Learned(q)[s] = [cpu |-> Learned(q)[s]["cpu"], memory |-> Learned(q)[s]["memory"]]
           /\ \A w \in Workloads, b \in Bases, r \in Resources :
                Learned(q)[<<w, b>>][r] =
                    IF prometheus = "answers" /\ q = <<b, r>> /\ cluster[w] # Gone
                    THEN cluster[w][b][r] ELSE usage[<<w, b>>][r]
<1>1. DOMAIN Learned(q) = Series
  BY DEF Learned
<1>2. PICK b0 \in Bases, r0 \in Resources : q = <<b0, r0>>
  BY DEF Queries, Resources
<1>3. ASSUME NEW s \in Series
      PROVE  /\ Learned(q)[s] = [cpu |-> Learned(q)[s]["cpu"], memory |-> Learned(q)[s]["memory"]]
             /\ \A r \in Resources :
                  Learned(q)[s][r] =
                    IF prometheus = "answers" /\ s[2] = b0 /\ r = r0 /\ cluster[s[1]] # Gone
                    THEN cluster[s[1]][s[2]][r] ELSE usage[s][r]
  <2>1. usage[s] = [cpu |-> usage[s]["cpu"], memory |-> usage[s]["memory"]]
    BY DEF Ind, Learning
  <2>2. CASE prometheus = "answers" /\ s[2] = b0 /\ cluster[s[1]] # Gone
    <3>1. Learned(q)[s] = [usage[s] EXCEPT ![r0] = cluster[s[1]][s[2]][r0]]
      BY <1>2, <2>2 DEF Learned
    <3>2. CASE r0 = "cpu"
      BY <2>1, <2>2, <3>1, <3>2 DEF Resources
    <3>3. CASE r0 = "memory"
      BY <2>1, <2>2, <3>1, <3>3 DEF Resources
    <3>4. QED
      BY <3>2, <3>3 DEF Resources
  <2>3. CASE ~(prometheus = "answers" /\ s[2] = b0 /\ cluster[s[1]] # Gone)
    <3>1. Learned(q)[s] = usage[s]
      BY <1>2, <2>3 DEF Learned
    <3>2. QED
      BY <2>1, <2>3, <3>1
  <2>4. QED
    BY <2>2, <2>3
<1>4. ASSUME NEW w \in Workloads, NEW b \in Bases, NEW r \in Resources
      PROVE  Learned(q)[<<w, b>>][r] =
                    IF prometheus = "answers" /\ q = <<b, r>> /\ cluster[w] # Gone
                    THEN cluster[w][b][r] ELSE usage[<<w, b>>][r]
  <2>1. <<w, b>> \in Series /\ (q = <<b, r>> <=> b = b0 /\ r = r0)
    BY <1>2 DEF Series
  <2>2. QED
    BY <1>3, <2>1
<1>5. QED
  BY <1>1, <1>3, <1>4

\* What a complete set of samples is priced to is a reading.
LEMMA PricedReadings ==
    ASSUME NEW us, \A s \in Series : us[s] = [cpu |-> us[s]["cpu"], memory |-> us[s]["memory"]],
           \A w \in Workloads, b \in Bases, r \in Resources : us[<<w, b>>][r] \in Amounts(b, r)
    PROVE  PriceAll(us) \in [Series -> Readings]
<1> SUFFICES ASSUME NEW s \in Series PROVE Reading(us[s]) \in Readings
  BY DEF PriceAll
<1>1. PICK w \in Workloads, b \in Bases : s = <<w, b>>
  BY DEF Series
<1>2. us[s]["cpu"] \in Amounts(b, "cpu") /\ us[s]["memory"] \in Amounts(b, "memory")
  BY <1>1 DEF Resources
<1>3. Reading([cpu |-> us[s]["cpu"], memory |-> us[s]["memory"]]) \in Readings
  BY <1>2 DEF Readings, Prices
<1>4. QED
  BY <1>3

\* An answer of Prometheus keeps the invariant: a workload that was in one state
\* during the whole cycle was sampled in that state.
LEMMA AnswerInd == ASSUME Ind, NEW q \in Queries, Answer(q) PROVE Ind'
<1>1. Environment'
  BY DEF Ind, Environment, Answer
<1>2. Learning'
  <2>1. /\ DOMAIN usage' = Series
        /\ \A s \in Series : usage'[s] = [cpu |-> usage'[s]["cpu"], memory |-> usage'[s]["memory"]]
        /\ \A w \in Workloads, b \in Bases, r \in Resources :
                usage'[<<w, b>>][r] =
                    IF prometheus = "answers" /\ q = <<b, r>> /\ cluster[w] # Gone
                    THEN cluster[w][b][r] ELSE usage[<<w, b>>][r]
    BY LearnedPointwise DEF Answer
  <2>2. ASSUME NEW w \in Workloads, NEW b \in Bases, NEW r \in Resources
        PROVE  usage'[<<w, b>>][r] \in Amounts(b, r)
    <3>1. cluster[w] # Gone => cluster[w] \in Footprints
      BY DEF Ind, Environment
    <3>2. usage[<<w, b>>][r] \in Amounts(b, r)
      BY DEF Ind, Learning
    <3>3. QED
      BY <2>1, <3>1, <3>2 DEF Amounts
  <2>3. ASSUME NEW w \in Workloads, NEW b \in Bases, NEW r \in Resources,
               NEW f \in Footprints \cup {Gone}, during'[w] = {f}
        PROVE  usage'[<<w, b>>][r] = Sample(f, b, r)'
    <3>1. cluster[w] = f /\ during[w] = {f}
      <4>1. cluster[w] \in during[w] /\ DOMAIN during = Workloads
        BY DEF Ind, Environment
      <4>2. during[w] \subseteq during'[w]
        BY <4>1 DEF Answer
      <4>3. QED
        BY <2>3, <4>1, <4>2
    <3>2. usage[<<w, b>>][r] = Sample(f, b, r)
      BY <3>1 DEF Ind, Learning
    <3>3. prometheus = "blind" => f = Gone
      BY <2>3 DEF Answer
    <3>4. prometheus = "answers" \/ f = Gone
      BY <3>3 DEF Ind, Environment, Answer
    <3>5. <<b, r>> \in answered' <=> <<b, r>> \in answered \/ q = <<b, r>>
      BY DEF Answer
    <3>6. QED
      BY <2>1, <3>1, <3>2, <3>4, <3>5 DEF Sample
  <2>4. answered' \subseteq Queries
    BY DEF Ind, Learning, Answer
  <2>5. QED
    BY <2>1, <2>2, <2>3, <2>4 DEF Learning
<1>3. Computed'
  <2>1. /\ UNCHANGED shown /\ shown \in [Series -> Readings] /\ at = "query"
    BY DEF Ind, Computed, Answer, replacement
  <2>2. CASE answered' = Queries
    <3>1. at' = "reset" /\ truth' = during' /\ Latest' = PriceAll(usage')
      BY <2>2 DEF Answer, Latest, Costs, PriceAll, Reading, Priced
    <3>2. ASSUME NEW w \in Workloads, NEW b \in Bases, NEW f \in Footprints, truth'[w] = {f}
          PROVE  Latest'[<<w, b>>] = Reading(f[b])
      <4>1. f # Gone /\ f[b] = [cpu |-> f[b]["cpu"], memory |-> f[b]["memory"]]
        BY FootprintsAreUsages
      <4>2. \A r \in Resources : <<b, r>> \in answered'
        BY <2>2 DEF Queries, Resources
      <4>3. \A r \in Resources : usage'[<<w, b>>][r] = f[b][r]
        <5> SUFFICES ASSUME NEW r \in Resources PROVE usage'[<<w, b>>][r] = f[b][r]
          OBVIOUS
        <5>1. usage'[<<w, b>>][r] = Sample(f, b, r)'
          BY <1>2, <3>1, <3>2 DEF Learning
        <5>2. QED
          BY <4>1, <4>2, <5>1 DEF Sample
      <4>4. <<w, b>> \in Series
        BY DEF Series
      <4>5. usage'[<<w, b>>] = [cpu |-> usage'[<<w, b>>]["cpu"], memory |-> usage'[<<w, b>>]["memory"]]
        BY <1>2, <4>4 DEF Learning
      <4>6. usage'[<<w, b>>] = f[b]
        BY <4>1, <4>3, <4>5, Zenon DEF Resources
      <4>7. QED
        BY <3>1, <4>4, <4>6 DEF PriceAll
    <3>4. shown' \in [Series -> Readings]
      BY <2>1
    <3>5. QED
      BY <3>2, <3>4 DEF Computed
  <2>3. CASE answered' # Queries
    <3>1. Latest' = shown /\ Latest = shown /\ UNCHANGED truth
      BY <2>1, <2>3 DEF Answer, Latest
    <3>2. QED
      BY <2>1, <3>1 DEF Ind, Computed
  <2>4. QED
    BY <2>2, <2>3
<1>4. Place' /\ Filled'
  <2>1. /\ at = "query" /\ UNCHANGED <<vector, current, gauges, shown>>
        /\ at' \in {"query", "reset"} /\ (at' = "reset" => answered' = Queries)
    BY DEF Answer, replacement
  <2>2. vector = 1
    BY <2>1 DEF Ind, Place
  <2>3. \A v \in Vectors : ~(v < 1)
    BY DEF Vectors
  <2>4. QED
    BY <2>1, <2>2, <2>3 DEF Ind, Place, Filled, Whole
<1>5. QED
  BY <1>1, <1>2, <1>3, <1>4 DEF Ind

\* Nothing the gauges depend on has changed.
LEMMA SameGauges ==
    ASSUME Computed, Place, Filled,
           UNCHANGED <<at, answered, usage, vector, current, gauges, shown, truth>>
    PROVE  Computed' /\ Place' /\ Filled'
<1>1. Costs' = Costs
  BY DEF Costs
<1>2. Latest' = Latest
  BY <1>1 DEF Latest
<1>3. QED
  BY <1>1, <1>2 DEF Computed, Place, Filled, Whole

\* A workload that changes was not in one state during the cycle.
LEMMA WorkloadChangesInd ==
    ASSUME Ind, NEW w \in Workloads, NEW f \in Footprints \cup {Gone}, WorkloadChanges(w, f)
    PROVE  Ind'
<1>1. Environment'
  BY DEF Ind, Environment, WorkloadChanges
<1>2. UNCHANGED <<at, answered, usage, vector, current, gauges, shown, truth>>
  BY DEF WorkloadChanges, loop, replacement
<1>3. ASSUME NEW v \in Workloads, NEW g, during'[v] = {g} PROVE during[v] = {g}
  <2>1. cluster[v] \in during[v] /\ DOMAIN during = Workloads
    BY DEF Ind, Environment
  <2>2. CASE v = w
    <3>1. during'[v] = during[v] \cup {f} /\ cluster[v] # f
      BY <2>1, <2>2 DEF WorkloadChanges
    <3>2. QED
      BY <1>3, <2>1, <3>1
  <2>3. CASE v # w
    BY <1>3, <2>1, <2>3 DEF WorkloadChanges
  <2>4. QED
    BY <2>2, <2>3
<1>4. Learning'
  <2>1. UNCHANGED <<answered, usage>> /\ Learning
    BY <1>2 DEF Ind
  <2>2. QED
    BY <1>3, <2>1 DEF Learning, Sample
<1>5. Computed' /\ Place' /\ Filled'
  BY <1>2, SameGauges DEF Ind
<1>6. QED
  BY <1>1, <1>4, <1>5 DEF Ind

\* A new cycle has learned nothing.
LEMMA NothingLearned ==
    ASSUME Ind, answered' = {}, usage' = NoSamples
    PROVE  Learning'
<1>1. \A b \in Bases, r \in Resources : Absent \in Amounts(b, r)
  BY DEF Amounts
<1>2. \A s \in Series, r \in Resources : usage'[s][r] = Absent
  BY DEF NoSamples, Resources
<1>3. \A w \in Workloads, b \in Bases : <<w, b>> \in Series
  BY DEF Series
<1>4. \A f, b, r : Sample(f, b, r)' = Absent
  BY DEF Sample
<1>5. DOMAIN usage' = Series /\ \A s \in Series : usage'[s] = [cpu |-> usage'[s]["cpu"], memory |-> usage'[s]["memory"]]
  BY DEF NoSamples
<1>6. QED
  BY <1>1, <1>2, <1>3, <1>4, <1>5 DEF Learning

\* The steps that leave what was learned alone.
LEMMA Framed ==
    ASSUME Ind, UNCHANGED <<cluster, prometheus, answered, usage, during, truth>>
    PROVE  /\ Environment' /\ Learning' /\ Costs' = Costs
           /\ Latest' = Latest /\ shown' \in [Series -> Readings] => Computed'
<1>1. Environment'
  BY DEF Ind, Environment
<1>2. Learning'
  BY DEF Ind, Learning, Sample
<1>3. Costs' = Costs
  BY DEF Costs
<1>4. Latest' = Latest /\ shown' \in [Series -> Readings] => Computed'
  BY DEF Ind, Computed
<1>5. QED
  BY <1>1, <1>2, <1>3, <1>4

LEMMA CostsAreReadings == Ind => Costs \in [Series -> Readings]
  BY PricedReadings DEF Ind, Learning, Costs

LEMMA VectorSteps ==
    ASSUME vector \in Vectors, NextVector
    PROVE  /\ vector' \in Vectors
           /\ vector = 4 => vector' = 1
           /\ vector # 4 => \A v \in Vectors : v < vector' <=> v < vector \/ v = vector
           /\ vector = 4 => \A v \in Vectors : v < vector \/ v = vector
  BY DEF Vectors, NextVector

LEMMA ResetInd == ASSUME Ind, Reset PROVE Ind'
<1>1. Environment' /\ Learning' /\ Costs' = Costs
  BY Framed DEF Reset
<1>2. /\ at = "reset" /\ current = NoSeries /\ vector \in Vectors /\ answered = Queries
      /\ UNCHANGED <<answered, current>> /\ NextVector
      /\ IF vector = 4 THEN at' = "set" /\ shown' = Costs ELSE at' = at /\ shown' = shown
      /\ gauges' = [gauges EXCEPT ![vector] = Empty]
  BY DEF Ind, Place, Reset, Emptied
<1>3. Latest' = Latest /\ shown' \in [Series -> Readings]
  <2>1. shown' \in [Series -> Readings]
    BY <1>2, CostsAreReadings DEF Ind, Computed
  <2>2. QED
    BY <1>1, <1>2, <2>1 DEF Latest
<1>4. Computed'
  BY <1>3, Framed DEF Reset
<1>5. Place'
  BY <1>2, VectorSteps DEF Place
<1>6. DOMAIN gauges' = Vectors /\ \A v \in Vectors : gauges'[v] = IF v = vector THEN Empty ELSE gauges[v]
  BY <1>2 DEF Ind, Filled
<1>7. \A v \in Vectors : gauges'[v] \in [Series -> Values(v)]
  BY <1>6, EmptyVectors DEF Ind, Filled
<1>8. Filled'
  <2>1. CASE vector # 4
    <3>1. \A v \in Vectors : Whole(v)' = Whole(v)
      BY <1>2, <2>1 DEF Whole
    <3>2. \A v \in Vectors : gauges'[v] = IF v < vector' THEN Empty ELSE Whole(v)
      BY <1>2, <1>6, <2>1, VectorSteps DEF Ind, Filled
    <3>3. at' = "reset"
      BY <1>2, <2>1
    <3>4. QED
      BY <1>6, <1>7, <3>1, <3>2, <3>3 DEF Filled, Values
  <2>2. CASE vector = 4
    <3>1. \A v \in Vectors : gauges'[v] = Empty
      BY <1>2, <1>6, <2>2, VectorSteps DEF Ind, Filled
    <3>2. \A v \in Vectors, s \in Series : gauges'[v][s] = Absent
      BY <3>1 DEF Empty
    <3>3. at' = "set" /\ shown' = Costs'
      BY <1>1, <1>2, <2>2
    <3>4. QED
      BY <1>6, <1>7, <3>2, <3>3 DEF Filled, Values
  <2>3. QED
    BY <2>1, <2>2
<1>9. QED
  BY <1>1, <1>4, <1>5, <1>8 DEF Ind

\* One series gets a value in one vector.
LEMMA PutInd ==
    ASSUME Ind, at = "set", NEW s \in Series, NEW value \in {Fresh, Of(Costs[s], vector)},
           gauges' = [gauges EXCEPT ![vector][s] = value],
           UNCHANGED <<cluster, prometheus, at, answered, usage, shown, during, truth>>
    PROVE  Environment' /\ Learning' /\ Computed' /\ Filled'
<1>1. Environment' /\ Learning' /\ Costs' = Costs
  BY Framed
<1>2. Computed'
  BY <1>1, Framed DEF Ind, Computed, Latest
<1>3. vector \in Vectors /\ DOMAIN gauges = Vectors
  BY DEF Ind, Place, Filled
<1>4. /\ DOMAIN gauges' = Vectors
      /\ \A v \in Vectors : gauges'[v] = IF v = vector THEN [gauges[v] EXCEPT ![s] = value] ELSE gauges[v]
  BY <1>3
<1>5. value \in Values(vector)
  BY CostsAreReadings DEF Values
<1>6. \A v \in Vectors : gauges[v] \in [Series -> Values(v)]
  BY DEF Ind, Filled
<1>7. \A v \in Vectors : gauges'[v] \in [Series -> Values(v)]
  BY <1>4, <1>5, <1>6
<1>8. \A v \in Vectors, x \in Series :
          gauges'[v][x] = IF v = vector /\ x = s THEN value ELSE gauges[v][x]
  BY <1>4, <1>6
<1>9. Filled'
  BY <1>1, <1>4, <1>7, <1>8 DEF Ind, Filled, Values
<1>10. QED
  BY <1>1, <1>2, <1>9

LEMMA FillInd == ASSUME Ind, NEW s \in Series, CreateGauge(s) \/ SetGauge(s) PROVE Ind'
<1>1. s # NoSeries
  BY DEF Series, NoSeries
<1>2. CASE CreateGauge(s)
  <2>1. Environment' /\ Learning' /\ Computed' /\ Filled'
    BY <1>2, PutInd DEF CreateGauge
  <2>2. Place'
    BY <1>1, <1>2 DEF Ind, Place, CreateGauge
  <2>3. QED
    BY <2>1, <2>2 DEF Ind
<1>3. CASE SetGauge(s)
  <2>1. Environment' /\ Learning' /\ Computed' /\ Filled'
    BY <1>3, PutInd DEF SetGauge
  <2>2. vector' \in Vectors /\ (vector = 4 => vector' = 1)
    BY <1>3, VectorSteps DEF Ind, Place, SetGauge
  <2>3. Place'
    BY <1>1, <1>3, <2>2 DEF Ind, Place, SetGauge
  <2>4. QED
    BY <2>1, <2>3 DEF Ind
<1>4. QED
  BY <1>2, <1>3

LEMMA CycleSucceedsInd == ASSUME Ind, CycleSucceeds PROVE Ind'
<1>1. /\ at = "set" /\ at' = "wait" /\ current = NoSeries
      /\ UNCHANGED <<cluster, prometheus, answered, usage, vector, current, gauges, shown, during, truth>>
  BY DEF CycleSucceeds, replacement
<1>2. Environment' /\ Learning' /\ Costs' = Costs
  BY <1>1, Framed
<1>3. shown = Costs /\ shown \in [Series -> Readings]
  BY <1>1 DEF Ind, Filled, Computed
<1>4. Latest' = Latest
  BY <1>1, <1>3 DEF Latest
<1>5. Computed'
  BY <1>1, <1>3, <1>4, Framed
<1>6. ASSUME NEW v \in Vectors PROVE gauges[v] = Whole(v)
  <2>1. \A s \in Series : gauges[v][s] = Of(shown[s], v)
    BY <1>3 DEF CycleSucceeds
  <2>2. gauges[v] \in [Series -> Values(v)]
    BY DEF Ind, Filled
  <2>3. QED
    BY <2>1, <2>2 DEF Whole
<1>7. Place'
  BY <1>1 DEF Ind, Place
<1>8. \A v \in Vectors : Whole(v)' = Whole(v)
  BY <1>1 DEF Whole
<1>9. Filled'
  BY <1>1, <1>6, <1>8 DEF Ind, Filled, Values
<1>10. QED
  BY <1>2, <1>5, <1>7, <1>9 DEF Ind

LEMMA NextInd == Ind /\ [Next]_vars => Ind'
<1> SUFFICES ASSUME Ind, [Next]_vars PROVE Ind'
  OBVIOUS
<1>1. CASE \E q \in Queries : Answer(q)
  BY <1>1, AnswerInd
<1>2. CASE CycleFails
  <2>1. /\ at = "query" /\ at' = "wait"
        /\ UNCHANGED <<cluster, prometheus, answered, usage, vector, current, gauges, shown, during, truth>>
    BY <1>2 DEF CycleFails, replacement
  <2>2. Environment' /\ Learning' /\ Computed'
    BY <2>1, Framed DEF Latest, Ind, Computed
  <2>3. Place' /\ Filled'
    BY <2>1 DEF Ind, Place, Filled, Whole
  <2>4. QED
    BY <2>2, <2>3 DEF Ind
<1>3. CASE Reset
  BY <1>3, ResetInd
<1>4. CASE \E s \in Series : CreateGauge(s) \/ SetGauge(s)
  BY <1>4, FillInd
<1>5. CASE CycleSucceeds
  BY <1>5, CycleSucceedsInd
<1>6. CASE StartCycle
  <2>1. Learning'
    BY <1>6, NothingLearned DEF StartCycle
  <2>2. /\ at = "wait" /\ at' = "query"
        /\ UNCHANGED <<cluster, prometheus, vector, current, gauges, shown, truth>>
        /\ during' = Present
    BY <1>6 DEF StartCycle, replacement
  <2>3. Environment'
    BY <2>2 DEF Ind, Environment, Present
  <2>4. Computed' /\ Place' /\ Filled'
    BY <2>2 DEF Ind, Computed, Latest, Place, Filled, Whole
  <2>5. QED
    BY <2>1, <2>3, <2>4 DEF Ind
<1>7. CASE Restart
  <2>1. Learning'
    BY <1>7, NothingLearned DEF Restart
  <2>2. Environment'
    BY <1>7 DEF Ind, Environment, Restart, Present
  <2>3. /\ gauges' = NoGauges /\ shown' = Empty
        /\ vector' = 1 /\ current' = NoSeries /\ at' = "query"
    BY <1>7 DEF Restart
  <2>4. Place'
    BY <2>3 DEF Place, Vectors
  <2>5. ASSUME NEW v \in Vectors
        PROVE  gauges'[v] = Empty /\ Empty \in [Series -> Values(v)] /\ Whole(v)' = Empty
    <3>1. gauges'[v] = Empty
      BY <2>3 DEF NoGauges
    <3>2. Whole(v)' = [s \in Series |-> Of(shown'[s], v)]
      BY DEF Whole
    <3>3. \A s \in Series : Of(shown'[s], v) = Absent
      BY <2>3, EmptyVectors DEF Empty
    <3>4. Whole(v)' = Empty
      BY <3>2, <3>3 DEF Empty
    <3>5. QED
      BY <3>1, <3>4, EmptyVectors
  <2>6. DOMAIN gauges' = Vectors
    BY <2>3 DEF NoGauges
  <2>7. Filled'
    BY <2>3, <2>5, <2>6 DEF Filled
  <2>8. Computed'
    <3>1. \A w \in Workloads : truth'[w] = {}
      BY <1>7 DEF Restart
    <3>2. shown' \in [Series -> Readings]
      <4>1. 1 \in Vectors
        BY DEF Vectors
      <4>2. QED
        BY <2>3, <4>1, EmptyVectors
    <3>3. QED
      BY <3>1, <3>2 DEF Computed
  <2>9. QED
    BY <2>1, <2>2, <2>4, <2>7, <2>8 DEF Ind
<1>8. CASE \E w \in Workloads, f \in Footprints \cup {Gone} : WorkloadChanges(w, f)
  BY <1>8, WorkloadChangesInd
<1>9. CASE \E state \in {"answers", "fails", "blind"} : PrometheusChanges(state)
  <2>1. prometheus' \in {"answers", "fails", "blind"}
    BY <1>9 DEF PrometheusChanges
  <2>2. UNCHANGED <<cluster, at, answered, usage, vector, current, gauges, shown, during, truth>>
    BY <1>9 DEF PrometheusChanges, loop, replacement
  <2>3. Environment'
    BY <2>1, <2>2 DEF Ind, Environment
  <2>4. Learning'
    BY <2>2 DEF Ind, Learning, Sample
  <2>5. Computed' /\ Place' /\ Filled'
    BY <2>2, SameGauges DEF Ind
  <2>6. QED
    BY <2>3, <2>4, <2>5 DEF Ind
<1>10. CASE UNCHANGED vars
  <2>1. UNCHANGED <<cluster, prometheus, at, answered, usage, vector, current, gauges, shown, during, truth>>
    BY <1>10 DEF vars, loop, replacement
  <2>2. Environment' /\ Learning'
    BY <2>1, Framed
  <2>3. Computed' /\ Place' /\ Filled'
    BY <2>1, SameGauges DEF Ind
  <2>4. QED
    BY <2>2, <2>3 DEF Ind
<1>11. QED
  BY <1>1, <1>2, <1>3, <1>4, <1>5, <1>6, <1>7, <1>8, <1>9, <1>10 DEF Next, LoopStep

LEMMA SpecInd == Spec => []Ind
<1>1. QED
  BY InitInd, NextInd, PTL DEF Spec
--------------------------------------------------------------------------------
\* Every gauge holds what pricing a cycle can give, and no cycle publishes
\* before its four queries were answered (costexporter/main.go:149-170).
THEOREM TypeCorrect == Spec => []TypeOK
<1>1. Ind => TypeOK
  BY DEF Ind, Environment, Learning, Computed, Place, Filled, Values, TypeOK
<1>2. QED
  BY <1>1, SpecInd, PTL

\* Four queries at four moments, failing cycles and a replacement in steps: a
\* workload that did not change is exposed at exactly its price
\* (attribution.go:108-137, costexporter/main.go:149-163).
THEOREM SteadyReadExactly == Spec => []SteadyWorkloadReadExactly
<1>1. Ind => SteadyWorkloadReadExactly
  <2> SUFFICES ASSUME Ind, NEW w \in Workloads, NEW b \in Bases, NEW f \in Footprints,
                      truth[w] = {f}, at \notin {"reset", "set"}
               PROVE  Exposed(w, b) = In(Reading(f[b]))
    BY DEF SteadyWorkloadReadExactly
  <2>1. shown[<<w, b>>] = Reading(f[b]) /\ <<w, b>> \in Series
    BY DEF Ind, Computed, Latest, Series
  <2>2. \A v \in Vectors : gauges[v] = Whole(v)
    BY DEF Ind, Place, Filled
  <2>3. \A v \in Vectors : gauges[v][<<w, b>>] = Of(Reading(f[b]), v)
    <3> DEFINE s == <<w, b>>
    <3>1. \A v \in Vectors : gauges[v][s] = Of(shown[s], v)
      <4>1. s \in Series
        BY <2>1
      <4> HIDE DEF s
      <4>2. QED
        BY <2>2, <4>1 DEF Whole
    <3>2. QED
      BY <2>1, <3>1
  <2>4. QED
    BY <2>3 DEF Exposed, In
<1>2. QED
  BY <1>1, SpecInd, PTL

\* No vector ever holds the readings of two cycles (costexporter/main.go:146-163).
THEOREM NoMixedVector == Spec => []OneCyclePerVector
<1>1. Ind => OneCyclePerVector
  <2> SUFFICES ASSUME Ind, NEW v \in Vectors
               PROVE  /\ at = "reset" => gauges[v] \in {Empty, Whole(v)}
                      /\ at = "set" => \A s \in Series : gauges[v][s] \in {Absent, Fresh, Of(Costs[s], v)}
                      /\ at \in {"query", "wait"} => \A s \in Series : gauges[v][s] = Of(shown[s], v)
    BY DEF OneCyclePerVector, Whole, Ind, Place
  <2>1. at = "reset" => gauges[v] \in {Empty, Whole(v)}
    BY DEF Ind, Filled
  <2>2. at = "set" => \A s \in Series : gauges[v][s] \in {Absent, Fresh, Of(Costs[s], v)}
    BY DEF Ind, Filled
  <2>3. at \in {"query", "wait"} => \A s \in Series : gauges[v][s] = Of(shown[s], v)
    BY DEF Ind, Filled, Whole
  <2>4. QED
    BY <2>1, <2>2, <2>3
<1>2. QED
  BY <1>1, SpecInd, PTL
================================================================================
