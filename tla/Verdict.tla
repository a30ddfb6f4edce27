-------------------------------- MODULE Verdict --------------------------------
(***************************************************************************)
(* How the gate turns a cost delta and a policy result into one decision   *)
(* (src/gate/internal/verdict, with the parts of internal/config it        *)
(* consults).                                                              *)
(*                                                                         *)
(* A configuration cfg is a record: mode; blockAbs, blockPct, warnAbs,     *)
(* warnPct; allowDecrease; ceilingMax, ceilingWarn, burstRatio (the budget *)
(* for elastic headroom); failOn (a set of severities), overrides (a       *)
(* function from some rules to severities) and treatErrors.                *)
(* A delta d is a record: total and committed (the change of the ceiling   *)
(* and of the floor), basis (the base of the percentage, 0 for none) and   *)
(* workloads (a set of [ref, autoscaled, before, after, floor]).           *)
(* A policy result is a set of violations [rule, severity, ref] and a set  *)
(* of errors.                                                              *)
(***************************************************************************)
EXTENDS Integers

Modes == {"absolute", "percent", "both"}
Decisions == {"pass", "fail", "inconclusive"}

\* Config.validate on the fields above: the gate does not run without it.  (The
\* node count and the paths it also looks at are not fields of cfg.)
ValidConfig(cfg) ==
    /\ cfg.mode \in Modes
    /\ cfg.mode # "percent" => cfg.blockAbs > 0
    /\ cfg.mode # "absolute" => cfg.blockPct > 0
    /\ ~(cfg.warnAbs >= cfg.blockAbs /\ cfg.warnAbs > 0)
    /\ ~(cfg.warnPct >= cfg.blockPct /\ cfg.warnPct > 0)
    /\ cfg.ceilingMax > 0
    /\ cfg.burstRatio >= 1
    /\ cfg.failOn # {}

--------------------------------------------------------------------------------
(* The cost sub-gate. *)

\* Mutant of Headroom: the difference the wrong way round.
HeadroomInverted(d) == d.committed - d.total

\* What the change authorises beyond what it commits to.
Headroom(d) == d.total - d.committed

\* The workloads that may burst beyond the allowed multiple of their floor.
\* A workload whose floor is zero has no ratio and is passed over.
BurstOffenders(cfg, d) ==
    {w \in d.workloads : w.autoscaled /\ w.floor > 0 /\ w.after > cfg.burstRatio * w.floor}

AutoscalingFired(cfg, d) ==
    Headroom(d) > 0 /\ (Headroom(d) > cfg.ceilingMax \/ BurstOffenders(cfg, d) # {})

ExemptAsReduction(cfg, d) == d.committed <= 0 /\ cfg.allowDecrease

\* Without a basis the percentage is undefined and the absolute limit stands in.
ChecksPercent(cfg, d) == cfg.mode \in {"percent", "both"} /\ d.basis > 0
\* Mutant of ChecksAbsolute: nothing stands in for a missing basis.
ChecksAbsoluteByMode(cfg, d) == cfg.mode \in {"absolute", "both"}

ChecksAbsolute(cfg, d) == cfg.mode \in {"absolute", "both"} \/ d.basis = 0

\* Mutant of ExceedsPercent: a percentage without its sign.
ExceedsPercentEitherWay(d, limit) ==
    (IF d.committed < 0 THEN -d.committed ELSE d.committed) * 100 > limit * d.basis

ExceedsPercent(d, limit) == d.committed * 100 > limit * d.basis

CommittedFired(cfg, d) ==
    /\ ~ExemptAsReduction(cfg, d)
    /\ \/ ChecksAbsolute(cfg, d) /\ d.committed > cfg.blockAbs
       \/ ChecksPercent(cfg, d) /\ ExceedsPercent(d, cfg.blockPct)

\* evaluateCost: with errors nothing is judged, and the sub-gate has not passed.
CostPassed(cfg, d, costErrors) ==
    costErrors = {} /\ ~AutoscalingFired(cfg, d) /\ ~CommittedFired(cfg, d)

--------------------------------------------------------------------------------
(* The policy sub-gate and the aggregation. *)

EffectiveSeverity(cfg, v) ==
    IF v.rule \in DOMAIN cfg.overrides THEN cfg.overrides[v.rule] ELSE v.severity

Blocking(cfg, violations) == {v \in violations : EffectiveSeverity(cfg, v) \in cfg.failOn}

PolicyPassed(cfg, violations, policyErrors) ==
    /\ Blocking(cfg, violations) = {}
    /\ ~(cfg.treatErrors /\ policyErrors # {})

\* Mutant of Aggregate: an error counts as a failed sub-gate.
AggregateErrorsAsFailures(cfg, d, costErrors, violations, policyErrors) ==
    IF ~CostPassed(cfg, d, costErrors) \/ ~PolicyPassed(cfg, violations, policyErrors)
    THEN "fail"
    ELSE "pass"

\* Aggregate: an error is the headline, then a failed sub-gate; else pass.
Aggregate(cfg, d, costErrors, violations, policyErrors) ==
    IF costErrors # {} \/ (cfg.treatErrors /\ policyErrors # {})
    THEN "inconclusive"
    ELSE IF CostPassed(cfg, d, costErrors) /\ PolicyPassed(cfg, violations, policyErrors)
         THEN "pass"
         ELSE "fail"

--------------------------------------------------------------------------------
\* What a pass is worth, whatever thresholds were consulted on the way to it:
\* the change commits to no more than the blocking threshold of the mode (the
\* absolute one where there is no basis for a percentage), and authorises at
\* full scale no more than that and the burst budget together.
WithinBudgets(cfg, d) ==
    LET limit == IF cfg.blockAbs >= 0 THEN cfg.blockAbs ELSE 0
    IN  /\ cfg.mode # "percent" \/ d.basis = 0 =>
               d.committed <= limit /\ d.total <= limit + cfg.ceilingMax
        /\ cfg.mode # "absolute" /\ d.basis > 0 =>
               d.committed * 100 <= cfg.blockPct * d.basis
        /\ d.total <= d.committed + cfg.ceilingMax

\* v may burst to at least the multiple of its floor that w may burst to.
NoSteeper(w, v) == v.floor > 0 /\ w.after * v.floor <= v.after * w.floor

\* e commits to no more than d and authorises no more beyond that, in all and for
\* each workload as a multiple of what it commits to.
Milder(e, d) ==
    /\ e.committed <= d.committed
    /\ Headroom(e) <= Headroom(d)
    /\ e.basis = d.basis
    /\ \A w \in e.workloads : w.autoscaled /\ w.floor > 0 =>
           \E v \in d.workloads : v.ref = w.ref /\ v.autoscaled /\ NoSteeper(w, v)
================================================================================
