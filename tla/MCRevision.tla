------------------------------- MODULE MCRevision -------------------------------
(* Every mode, with and without an absolute limit, scaled-down budgets. *)
EXTENDS Revision

MCConfigs ==
    {[mode |-> mode, blockAbs |-> abs, blockPct |-> 50, warnAbs |-> 0, warnPct |-> 10,
      allowDecrease |-> allow, ceilingMax |-> 3, ceilingWarn |-> 2, burstRatio |-> 2,
      failOn |-> {"block"}, overrides |-> <<>>, treatErrors |-> TRUE] :
        mode \in Modes, abs \in {0, 3}, allow \in BOOLEAN}

Workload(ref, autoscaled, floor, after) ==
    [ref |-> ref, autoscaled |-> autoscaled, before |-> 0, after |-> after, floor |-> floor]

\* A workload under an autoscaler, one with fixed replicas, both, or none.
MCWorkloads ==
    LET elastic == {{}} \cup {{Workload("web", TRUE, floor, after)} : floor \in 0..2, after \in 2..4}
                       \cup {{Workload("web", TRUE, 1, 1)}}
        fixed   == {{}} \cup {{Workload("api", FALSE, n, n)} : n \in 0..1}
    IN  {ws \cup os : ws \in elastic, os \in fixed}

MCBases == {0, 2, 8}
================================================================================
