------------------------------- MODULE CostExporter -------------------------------
(***************************************************************************)
(* Live cost attribution (src/exporter): a loop asks Prometheus four       *)
(* queries one after the other, prices what it learned and replaces the    *)
(* exported gauges, which Prometheus may scrape at any moment, while the   *)
(* cluster goes on changing.                                               *)
(*                                                                         *)
(* A scrape gathers the four gauge vectors one by one.  What it finds in a *)
(* vector is the state of that vector at some moment; it may find the four *)
(* at four moments.                                                        *)
(***************************************************************************)
EXTENDS Pricing

CONSTANTS
    Workloads,
    Footprints,     \* [requested, actual]: what a workload's pods reserve and use
    Gone,           \* the footprint of a workload that is not there
    Rates           \* the rate table

Bases == {"requested", "actual"}
Queries == Bases \X {"cpu", "memory"}
Series == Workloads \X Bases

\* The gauge vectors, in the order in which they are replaced.
Vectors == 1..4
Columns == <<"hourly", "monthly", "cpu", "memory">>

ASSUME FootprintsAreUsages ==
    /\ Gone \notin Footprints
    /\ \A f \in Footprints, b \in Bases : f[b] = [cpu |-> f[b]["cpu"], memory |-> f[b]["memory"]]

VARIABLES
    cluster,        \* the footprint of each workload, as Prometheus has sampled it
    prometheus,     \* "answers"; "fails"; or "blind": it answers, but has no pod owners
    at,             \* where the collection loop is
    answered,       \* the queries of this cycle that were answered
    usage,          \* what the cycle learned, per series
    vector,         \* the vector the replacement is at
    current,        \* the series the loop is at
    gauges,         \* the four vectors
    shown,          \* history: the readings of the cycle in the gauges
    during,         \* history: the footprints seen by this cycle
    truth           \* history: those seen by the last complete cycle

replacement == <<vector, current, gauges, shown>>
loop == <<at, answered, usage, replacement>>
vars == <<cluster, prometheus, loop, during, truth>>

NoSamples == [s \in Series |-> [cpu |-> Absent, memory |-> Absent]]
Fresh == 0
Empty == [s \in Series |-> Absent]
NoGauges == [v \in Vectors |-> Empty]
NoSeries == <<>>
Present == [w \in Workloads |-> {cluster[w]}]

Init ==
    /\ cluster \in [Workloads -> Footprints \cup {Gone}]
    /\ prometheus = "answers"
    /\ at = "query"
    /\ answered = {} /\ usage = NoSamples
    /\ vector = 1 /\ current = NoSeries
    /\ gauges = NoGauges /\ shown = Empty
    /\ during = Present /\ truth = [w \in Workloads |-> {}]

--------------------------------------------------------------------------------
(* The collection loop: collect of main.go and Collect of attribution.go. *)

OrZero(amount) == IF amount = Absent THEN 0 ELSE amount

\* Storage is not attributed live.
Priced(u) ==
    LET hourly == HourlyUSD(Rates, [cpu |-> OrZero(u.cpu), mem |-> OrZero(u.memory), sto |-> 0])
    IN  [cpu |-> OrZero(u.cpu), memory |-> OrZero(u.memory),
         hourly |-> hourly, monthly |-> hourly * Rates.hours]

\* Mutant of Reading: every series there could be is priced.
ReadingOrZero(u) == Priced(u)

\* A series exists once some query returned a sample of it.
Reading(u) == IF u = [cpu |-> Absent, memory |-> Absent] THEN Absent ELSE Priced(u)

PriceAll(us) == [s \in Series |-> Reading(us[s])]

\* What a cycle computes from what it learned; complete once it is over.
Costs == PriceAll(usage)

\* What vector v holds of a reading.
Of(reading, v) == IF reading = Absent THEN Absent ELSE reading[Columns[v]]

\* The vector Prometheus returns for one query, as the usage it adds.
Learned(q) ==
    [s \in Series |->
        IF prometheus = "answers" /\ s[2] = q[1] /\ cluster[s[1]] # Gone
        THEN [usage[s] EXCEPT ![q[2]] = cluster[s[1]][s[2]][q[2]]]
        ELSE usage[s]]

\* The queries come in the random order of a Go map.
Answer(q) ==
    /\ at = "query" /\ prometheus # "fails"
    /\ q \notin answered
    /\ answered' = answered \cup {q}
    /\ usage' = Learned(q)
    /\ during' = IF prometheus = "blind" THEN [w \in Workloads |-> during[w] \cup {Gone}] ELSE during
    /\ IF answered' = Queries
       THEN at' = "reset" /\ truth' = during'
       ELSE UNCHANGED <<at, truth>>
    /\ UNCHANGED <<cluster, prometheus, replacement>>

\* Mutants of CycleFails: the gauges are cleared; what was learned is published;
\* the loop returns.
CycleFailsClearing ==
    /\ at = "query" /\ prometheus = "fails"
    /\ at' = "wait" /\ gauges' = NoGauges
    /\ UNCHANGED <<cluster, prometheus, answered, usage, vector, current, shown, during, truth>>

CycleFailsSoftly ==
    /\ at = "query" /\ prometheus = "fails"
    /\ at' = "reset"
    /\ UNCHANGED <<cluster, prometheus, answered, usage, replacement, during, truth>>

CycleFailsForGood ==
    /\ at = "query" /\ prometheus = "fails"
    /\ at' = "stopped"
    /\ UNCHANGED <<cluster, prometheus, answered, usage, replacement, during, truth>>

\* A query that fails or times out ends the cycle; the gauges stay.
CycleFails ==
    /\ at = "query" /\ prometheus = "fails"
    /\ at' = "wait"
    /\ UNCHANGED <<cluster, prometheus, answered, usage, replacement, during, truth>>

NextVector == vector' = IF vector = 4 THEN 1 ELSE vector + 1

\* Mutant of Emptied: the last vector is forgotten.
EmptiedButOne(v) == IF v = 4 THEN gauges[v] ELSE Empty

\* Reset drops every series of a vector.
Emptied(v) == Empty

\* The vectors are reset one after the other.
Reset ==
    /\ at = "reset"
    /\ gauges' = [gauges EXCEPT ![vector] = Emptied(vector)]
    /\ NextVector
    /\ IF vector = 4 THEN at' = "set" /\ shown' = Costs ELSE UNCHANGED <<at, shown>>
    /\ UNCHANGED <<cluster, prometheus, answered, usage, current, during, truth>>

\* The series are taken one by one, and each is put into the four vectors one
\* after the other: With(labels) creates it in the vector, at zero, and Set
\* follows.  The code takes the series in the order of their names, which is
\* left open here.
CreateGauge(s) ==
    /\ at = "set"
    /\ Costs[s] # Absent /\ gauges[vector][s] = Absent
    /\ current = IF vector = 1 THEN NoSeries ELSE s
    /\ current' = s
    /\ gauges' = [gauges EXCEPT ![vector][s] = Fresh]
    /\ UNCHANGED <<cluster, prometheus, at, answered, usage, vector, shown, during, truth>>

SetGauge(s) ==
    /\ at = "set"
    /\ current = s /\ gauges[vector][s] # Absent
    /\ gauges' = [gauges EXCEPT ![vector][s] = Of(Costs[s], vector)]
    /\ NextVector
    /\ current' = IF vector = 4 THEN NoSeries ELSE s
    /\ UNCHANGED <<cluster, prometheus, at, answered, usage, shown, during, truth>>

CycleSucceeds ==
    /\ at = "set" /\ current = NoSeries
    /\ \A s \in Series, v \in Vectors : gauges[v][s] = Of(Costs[s], v)
    /\ at' = "wait"
    /\ UNCHANGED <<cluster, prometheus, answered, usage, replacement, during, truth>>

\* The ticker: a cycle starts from nothing.
StartCycle ==
    /\ at = "wait"
    /\ at' = "query"
    /\ answered' = {} /\ usage' = NoSamples
    /\ during' = Present
    /\ UNCHANGED <<cluster, prometheus, replacement, truth>>

\* The pod is replaced: a new process with empty gauges.
Restart ==
    /\ at' = "query"
    /\ answered' = {} /\ usage' = NoSamples
    /\ vector' = 1 /\ current' = NoSeries
    /\ gauges' = NoGauges /\ shown' = Empty
    /\ during' = Present /\ truth' = [w \in Workloads |-> {}]
    /\ UNCHANGED <<cluster, prometheus>>

--------------------------------------------------------------------------------
(* The environment. *)

\* A workload is created, scaled, rolled out, deleted, or just busier.
WorkloadChanges(w, footprint) ==
    /\ cluster[w] # footprint
    /\ cluster' = [cluster EXCEPT ![w] = footprint]
    /\ during' = [during EXCEPT ![w] = @ \cup {footprint}]
    /\ UNCHANGED <<prometheus, loop, truth>>

\* Prometheus fails or recovers, or loses the target that knows the pod owners.
PrometheusChanges(state) ==
    /\ prometheus # state
    /\ prometheus' = state
    /\ UNCHANGED <<cluster, loop, during, truth>>

LoopStep ==
    \/ \E q \in Queries : Answer(q)
    \/ CycleFails
    \/ Reset
    \/ \E s \in Series : CreateGauge(s) \/ SetGauge(s)
    \/ CycleSucceeds
    \/ StartCycle

Next ==
    \/ LoopStep
    \/ Restart
    \/ \E w \in Workloads, f \in Footprints \cup {Gone} : WorkloadChanges(w, f)
    \/ \E state \in {"answers", "fails", "blind"} : PrometheusChanges(state)

\* The ticker keeps the loop going and every query has a timeout.
Spec == Init /\ [][Next]_vars /\ WF_vars(LoopStep)

--------------------------------------------------------------------------------
\* What a query may return for a basis and a resource, and what comes of it.
Amounts(b, r) == {Absent} \cup {f[b][r] : f \in Footprints}

Prices ==
    UNION {{Reading([cpu |-> c, memory |-> m]) :
                c \in Amounts(b, "cpu"), m \in Amounts(b, "memory")} : b \in Bases}

Readings == {Absent} \cup Prices

\* Every variable holds a value of its kind; a complete cycle answered all.
TypeOK ==
    /\ cluster \in [Workloads -> Footprints \cup {Gone}]
    /\ prometheus \in {"answers", "fails", "blind"}
    /\ at \in {"query", "reset", "set", "wait"}
    /\ answered \subseteq Queries
    /\ at \in {"reset", "set"} => answered = Queries
    /\ vector \in Vectors /\ current \in Series \cup {NoSeries}
    /\ shown \in [Series -> Readings]
    /\ DOMAIN gauges = Vectors
    /\ \A v \in Vectors : gauges[v] \in [Series -> {Fresh} \cup {Of(r, v) : r \in Readings}]

\* What the vectors hold of the series of workload w and basis b.
Exposed(w, b) == [v \in Vectors |-> gauges[v][<<w, b>>]]

In(reading) == [v \in Vectors |-> Of(reading, v)]

\* The four queries run at four moments and the gauges are replaced one by one;
\* yet a workload that did not change while a cycle collected is exposed with
\* exactly its price, on both bases, from the end of that cycle to the next
\* replacement, through any number of cycles that fail in between.
SteadyWorkloadReadExactly ==
    \A w \in Workloads, b \in Bases, f \in Footprints :
        truth[w] = {f} =>
            \/ Exposed(w, b) = In(Reading(f[b]))
            \/ at \in {"reset", "set"}

\* "Reset before repopulating so a workload that has been deleted stops being
\* reported" (costexporter/main.go:146-148): at every moment each vector holds
\* readings of one cycle only.  A vector still to be reset has the previous cycle
\* whole; once the vectors are filled again there is nothing of that cycle in any
\* of them; and between replacements the four hold the same cycle.  Two vectors
\* read at two moments of a replacement may show two cycles: the reset of each
\* vector, not of all four, is what cannot be seen half done.
OneCyclePerVector ==
    \A v \in Vectors :
        CASE at = "reset" -> gauges[v] \in {Empty, [s \in Series |-> Of(shown[s], v)]}
          [] at = "set"   -> \A s \in Series : gauges[v][s] \in {Absent, Fresh, Of(Costs[s], v)}
          [] OTHER        -> \A s \in Series : gauges[v][s] = Of(shown[s], v)

\* A deleted workload stops being reported, for good, once Prometheus answers.
DeletedWorkloadDisappears ==
    \A w \in Workloads :
        <>[](cluster[w] = Gone /\ prometheus # "fails")
            => <>[](\A b \in Bases : Exposed(w, b) = In(Absent))

\* A workload that stays is reported at its price again and again, however often
\* the exporter went down and Prometheus failed before.
SteadyWorkloadAppears ==
    \A w \in Workloads, f \in Footprints :
        <>[](cluster[w] = f /\ prometheus = "answers") /\ <>[][~Restart]_vars
            => []<>(\A b \in Bases : Exposed(w, b) = In(Reading(f[b])))
================================================================================
