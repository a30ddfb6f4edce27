-------------------------------- MODULE Pricing --------------------------------
(***************************************************************************)
(* The rate table of M1 (src/pricing/pricing.go): what a month of reserved *)
(* capacity costs.  A table is a record with the three hourly rates cpu,   *)
(* mem and sto, the hours of a month, the requests assumed for a container *)
(* that declares none (missingCpu, missingMem) and its currency.           *)
(*                                                                         *)
(* Money and capacity are integers: TLC has no reals, and every comparison *)
(* the gate makes is between linear expressions, so rescaling the unit     *)
(* (cents, millicores) loses nothing.  The floating-point rounding of the  *)
(* program is the one thing this abstracts.                                *)
(***************************************************************************)
EXTENDS Integers

CONSTANTS
    Absent,     \* a field, a sample or a gauge that is not there
    Malformed   \* a quantity that resource.ParseQuantity rejects

ASSUME PlaceholdersAssumption == Absent \notin Int /\ Malformed \notin Int

\* What reading a table finds, its numbers being of N: nothing has looked yet at
\* the quantities it assumes.
ReadTable(N, t) ==
    /\ \A n \in {t.cpu, t.mem, t.sto, t.hours} : n \in N
    /\ \A n \in {t.missingCpu, t.missingMem} : n \in N \/ n = Malformed

\* Table.validate, which every table the program uses has passed.
ValidTable(t) ==
    /\ t.hours > 0
    /\ \A rate \in {t.cpu, t.mem, t.sto} : rate >= 0
    /\ t.currency # Absent

HourlyUSD(t, r) == r.cpu * t.cpu + r.mem * t.mem + r.sto * t.sto

MonthlyUSD(t, r) == HourlyUSD(t, r) * t.hours

\* Would the two tables price the same manifests differently?  (The code also
\* compares the unit and flag annotations of each rate, left out here.)
RatesChanged(base, head) ==
    \E field \in {"cpu", "mem", "sto", "hours", "missingCpu", "missingMem", "currency"} :
        base[field] # head[field]
================================================================================
