-------------------------------- MODULE Revision --------------------------------
(***************************************************************************)
(* A pull request is judged, revised by its author and judged again under  *)
(* the same gate.yaml: what the verdicts of two revisions have to do with  *)
(* each other.  The revisions are the environment; the verdicts are those  *)
(* of module Verdict.                                                      *)
(***************************************************************************)
EXTENDS Verdict

CONSTANTS
    Configs,        \* the gate.yaml files considered
    Workloads,      \* sets of workloads of a delta
    Bases,          \* bases of the percentage
    MaxMoney        \* bound on every amount of money

ASSUME ConfigsAreTyped ==
    \A c \in Configs :
        /\ {c.blockAbs, c.blockPct, c.warnAbs, c.warnPct,
            c.ceilingMax, c.ceilingWarn, c.burstRatio} \subseteq Int
        /\ c.allowDecrease \in BOOLEAN

ASSUME AmountsAreTyped ==
    /\ MaxMoney \in Nat
    /\ Bases \subseteq Nat
    /\ \A ws \in Workloads :
           ws \subseteq [ref : {w.ref : w \in ws}, autoscaled : BOOLEAN,
                        before : Int, after : Int, floor : Nat]

VARIABLES cfg, d

vars == <<cfg, d>>

Deltas ==
    [total : -MaxMoney..MaxMoney, committed : -MaxMoney..MaxMoney, basis : Bases,
     workloads : Workloads]

Decision == Aggregate(cfg, d, {}, {}, {})

Init ==
    /\ cfg \in {c \in Configs : ValidConfig(c)}
    /\ d \in Deltas

Reprice(w, floor, ceiling) ==
    d' = [d EXCEPT !.committed = @ + floor - w.floor,
                   !.total = @ + ceiling - w.after,
                   !.workloads = (@ \ {w}) \cup {[w EXCEPT !.floor = floor, !.after = ceiling]}]

\* The author commits to less of a workload: fewer replicas, or a lower
\* autoscaler minimum and a maximum that stays or comes down, by as much or not.
CommitToLess ==
    /\ \E w \in d.workloads, floor \in 0..MaxMoney, ceiling \in 0..MaxMoney :
          /\ floor < w.floor /\ ceiling <= w.after
          /\ ~w.autoscaled => ceiling = floor
          /\ Reprice(w, floor, ceiling)
    /\ d' \in Deltas
    /\ UNCHANGED cfg

\* The author raises an autoscaler's maximum, and nothing else.
AuthoriseMore ==
    /\ \E w \in d.workloads, ceiling \in 0..MaxMoney :
          /\ w.autoscaled /\ ceiling > w.after
          /\ Reprice(w, w.floor, ceiling)
    /\ d' \in Deltas
    /\ UNCHANGED cfg

Next == CommitToLess \/ AuthoriseMore

Spec == Init /\ [][Next]_vars

--------------------------------------------------------------------------------
\* A pass bounds what the change commits to and authorises, in every mode and
\* with every missing baseline; verdict.go:137-148 substitutes one threshold
\* for another, and a substitution that lost a check would let an unlimited new
\* workload through.
PassIsWithinBudgets == Decision = "pass" => WithinBudgets(cfg, d)

\* A revision that commits to less is only blocked for what it newly authorises:
\* where neither the headroom nor the multiple a workload may burst to grows, a
\* pass stays a pass through the exemption of reductions, the substitution of
\* thresholds and both budgets (verdict.go:129-217).  Both conditions are needed:
\* replicas of 1..3 in the place of 2..4 cost less at either end and burst to
\* three times their floor, which evaluateAutoscaling may refuse
\* (verdict.go:205-210).
MilderRevisionStillPasses == [][Milder(d', d) /\ Decision = "pass" => Decision' = "pass"]_vars

\* Raising only the authorised maximum never turns a block into a pass.
MoreBurstNeverUnblocks ==
    [][d'.committed = d.committed /\ d'.total > d.total /\ Decision = "fail"
           => Decision' = "fail"]_vars
================================================================================
