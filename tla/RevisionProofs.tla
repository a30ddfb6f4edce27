----------------------------- MODULE RevisionProofs -----------------------------
(***************************************************************************)
(* What the verdicts of two revisions have to do with each other, for      *)
(* every configuration the gate accepts and every amount of money.         *)
(***************************************************************************)
EXTENDS Revision, TLAPS

\* The configuration is one the gate runs with and the delta is well formed.
Ind == cfg \in Configs /\ ValidConfig(cfg) /\ d \in Deltas

LEMMA InitInd == Init => Ind
  BY DEF Init, Ind

LEMMA DeltaTypes ==
    ASSUME Ind
    PROVE  /\ d.total \in Int /\ d.committed \in Int /\ d.basis \in Nat
           /\ \A w \in d.workloads : w.after \in Int /\ w.floor \in Nat
<1>1. d.total \in -MaxMoney..MaxMoney /\ d.committed \in -MaxMoney..MaxMoney /\ d.basis \in Bases
      /\ d.workloads \in Workloads
  BY DEF Ind, Deltas
<1>2. \A w \in d.workloads : w.after \in Int /\ w.floor \in Nat
  BY <1>1, AmountsAreTyped
<1>3. QED
  BY <1>1, <1>2, AmountsAreTyped

LEMMA ConfigTypes ==
    ASSUME Ind
    PROVE  /\ cfg.blockAbs \in Int /\ cfg.blockPct \in Int /\ cfg.ceilingMax \in Int
           /\ cfg.burstRatio \in Int /\ cfg.ceilingMax > 0
           /\ cfg.mode \in Modes
           /\ cfg.mode # "percent" => cfg.blockAbs > 0
           /\ cfg.mode # "absolute" => cfg.blockPct > 0
  BY ConfigsAreTyped DEF Ind, ValidConfig

LEMMA NextInd == Ind /\ [Next]_vars => Ind'
<1> SUFFICES ASSUME Ind, [Next]_vars PROVE Ind'
  OBVIOUS
<1>1. CASE Next
  BY <1>1 DEF Ind, Next, CommitToLess, AuthoriseMore
<1>2. CASE UNCHANGED vars
  BY <1>2 DEF vars, Ind, Deltas
<1>3. QED
  BY <1>1, <1>2

LEMMA SpecInd == Spec => []Ind
<1>1. QED
  BY InitInd, NextInd, PTL DEF Spec

\* A pass or a fail is decided by the two sub-budgets of the cost gate alone.
LEMMA DecisionIsCost ==
    /\ Decision = "pass" <=> ~AutoscalingFired(cfg, d) /\ ~CommittedFired(cfg, d)
    /\ Decision = "fail" <=> AutoscalingFired(cfg, d) \/ CommittedFired(cfg, d)
  BY DEF Decision, Aggregate, CostPassed, PolicyPassed, Blocking

--------------------------------------------------------------------------------
\* What a pass is worth: in every mode, with and without a baseline, the change
\* is within the committed threshold and the burst budget.
THEOREM PassBoundsSpend == Spec => []PassIsWithinBudgets
<1>1. Ind => PassIsWithinBudgets
  <2> SUFFICES ASSUME Ind, Decision = "pass" PROVE WithinBudgets(cfg, d)
    BY DEF PassIsWithinBudgets
  <2>1. d.total - d.committed <= cfg.ceilingMax
    BY DecisionIsCost, DeltaTypes, ConfigTypes DEF AutoscalingFired, Headroom
  <2> DEFINE limit == IF cfg.blockAbs >= 0 THEN cfg.blockAbs ELSE 0
  <2>2. limit \in Nat /\ cfg.blockAbs <= limit
    BY ConfigTypes
  <2>3. CASE ExemptAsReduction(cfg, d)
    <3>1. d.committed <= 0
      BY <2>3 DEF ExemptAsReduction
    <3>2. d.committed <= limit /\ d.total <= limit + cfg.ceilingMax /\ d.total <= d.committed + cfg.ceilingMax
      BY <3>1, <2>1, <2>2, DeltaTypes, ConfigTypes
    <3>3. ASSUME cfg.mode # "absolute" PROVE d.committed * 100 <= cfg.blockPct * d.basis
      <4>1. cfg.blockPct \in Nat /\ d.basis \in Nat
        BY <3>3, DeltaTypes, ConfigTypes
      <4>2. cfg.blockPct * d.basis >= 0 /\ d.committed * 100 <= 0
        BY <4>1, <3>1, DeltaTypes
      <4>3. QED
        BY <4>1, <4>2, DeltaTypes
    <3>4. QED
      BY <3>2, <3>3 DEF WithinBudgets
  <2>4. CASE ~ExemptAsReduction(cfg, d)
    <3>1. /\ ~(ChecksAbsolute(cfg, d) /\ d.committed > cfg.blockAbs)
          /\ ~(ChecksPercent(cfg, d) /\ ExceedsPercent(d, cfg.blockPct))
      BY <2>4, DecisionIsCost DEF CommittedFired
    <3>2. ASSUME cfg.mode # "percent" \/ d.basis = 0
          PROVE  d.committed <= limit /\ d.total <= limit + cfg.ceilingMax
      <4>1. d.committed <= cfg.blockAbs
        BY <3>1, <3>2, DeltaTypes, ConfigTypes DEF ChecksAbsolute, Modes
      <4>2. QED
        BY <4>1, <2>1, <2>2, DeltaTypes, ConfigTypes
    <3>3. ASSUME cfg.mode # "absolute", d.basis > 0
          PROVE  d.committed * 100 <= cfg.blockPct * d.basis
      <4>1. ~(d.committed * 100 > cfg.blockPct * d.basis)
        BY <3>1, <3>3, ConfigTypes DEF ChecksPercent, ExceedsPercent, Modes
      <4>2. cfg.blockPct * d.basis \in Int /\ d.committed * 100 \in Int
        BY DeltaTypes, ConfigTypes
      <4>3. QED
        BY <4>1, <4>2
    <3>4. d.total <= d.committed + cfg.ceilingMax
      BY <2>1, DeltaTypes, ConfigTypes
    <3>5. QED
      BY <3>2, <3>3, <3>4 DEF WithinBudgets
  <2>5. QED
    BY <2>3, <2>4
<1>2. QED
  BY <1>1, SpecInd, PTL

--------------------------------------------------------------------------------
\* The larger multiple is the one that is refused first.
LEMMA SteeperIsRefused ==
    ASSUME NEW R \in Int, NEW wa \in Int, NEW wf \in Nat, NEW va \in Int, NEW vf \in Nat,
           wf > 0, vf > 0, wa * vf <= va * wf, wa > R * wf
    PROVE  va > R * vf
<1> SUFFICES ASSUME va <= R * vf PROVE FALSE
  BY R * vf \in Int
<1>1. va * wf <= (R * vf) * wf
  BY R * vf \in Int
<1>2. (R * wf) * vf < wa * vf
  BY R * wf \in Int
<1>3. (R * wf) * vf = (R * vf) * wf
  OBVIOUS
<1>4. wa * vf \in Int /\ va * wf \in Int /\ (R * vf) * wf \in Int
  OBVIOUS
<1>5. QED
  BY <1>1, <1>2, <1>3, <1>4

\* A workload of a milder revision exceeds the burst ratio only where that
\* workload did so before.
LEMMA NoNewOffenders ==
    ASSUME Ind, Ind', cfg' = cfg, Milder(d', d), BurstOffenders(cfg, d) = {}
    PROVE  BurstOffenders(cfg, d') = {}
<1> SUFFICES ASSUME NEW w \in BurstOffenders(cfg, d') PROVE FALSE
  OBVIOUS
<1>1. w \in d'.workloads /\ w.autoscaled /\ w.floor > 0 /\ w.after > cfg.burstRatio * w.floor
  BY DEF BurstOffenders
<1>2. PICK v \in d.workloads :
          v.autoscaled /\ v.floor > 0 /\ w.after * v.floor <= v.after * w.floor
  BY <1>1 DEF Milder, NoSteeper
<1>3. w.after \in Int /\ w.floor \in Nat /\ v.after \in Int /\ v.floor \in Nat /\ cfg.burstRatio \in Int
  <2>1. d.workloads \in Workloads /\ d'.workloads \in Workloads
    BY DEF Ind, Deltas
  <2>2. QED
    BY <1>1, <1>2, <2>1, AmountsAreTyped, ConfigTypes
<1>4. v.after > cfg.burstRatio * v.floor
  BY <1>1, <1>2, <1>3, SteeperIsRefused
<1>5. v \in BurstOffenders(cfg, d)
  BY <1>2, <1>4 DEF BurstOffenders
<1>6. QED
  BY <1>5

\* A revision that commits to less is blocked only for headroom or for a
\* multiple that it adds, in every mode, with and without a baseline.
THEOREM MilderPasses == Spec => MilderRevisionStillPasses
<1>1. Ind /\ Ind' /\ [Next]_vars =>
          [Milder(d', d) /\ Decision = "pass" => Decision' = "pass"]_vars
  <2> SUFFICES ASSUME Ind, Ind', Next, Milder(d', d), Decision = "pass" PROVE Decision' = "pass"
    OBVIOUS
  <2>1. cfg' = cfg
    BY DEF Next, CommitToLess, AuthoriseMore
  <2>2. /\ d.committed \in Int /\ d'.committed \in Int /\ d.basis \in Nat
        /\ cfg.blockAbs \in Int /\ cfg.blockPct \in Int
    BY DeltaTypes, ConfigTypes DEF Ind, Deltas
  <2>3. ~AutoscalingFired(cfg, d')
    <3>1. Headroom(d) \in Int /\ Headroom(d') \in Int /\ Headroom(d') <= Headroom(d)
      <4>1. d.total \in Int /\ d'.total \in Int
        BY DeltaTypes DEF Ind, Deltas
      <4>2. QED
        BY <2>2, <4>1 DEF Headroom, Milder
    <3>2. CASE Headroom(d) <= 0
      BY <3>1, <3>2 DEF AutoscalingFired
    <3>3. CASE Headroom(d) > 0
      <4>1. ~(Headroom(d) > cfg.ceilingMax) /\ BurstOffenders(cfg, d) = {}
        BY <3>3, DecisionIsCost DEF AutoscalingFired
      <4>2. BurstOffenders(cfg, d') = {}
        BY <2>1, <4>1, NoNewOffenders
      <4>3. QED
        BY <3>1, <4>1, <4>2, ConfigTypes DEF AutoscalingFired
    <3>4. QED
      BY <3>1, <3>2, <3>3
  <2>4. ~CommittedFired(cfg, d')
    <3>1. CASE ExemptAsReduction(cfg, d)
      BY <3>1, <2>2 DEF ExemptAsReduction, CommittedFired, Milder
    <3>2. CASE ~ExemptAsReduction(cfg, d)
      <4>1. /\ ~(ChecksAbsolute(cfg, d) /\ d.committed > cfg.blockAbs)
            /\ ~(ChecksPercent(cfg, d) /\ ExceedsPercent(d, cfg.blockPct))
        BY <3>2, DecisionIsCost DEF CommittedFired
      <4>2. d'.committed > cfg.blockAbs => d.committed > cfg.blockAbs
        BY <2>2 DEF Milder
      <4>3. d'.committed * 100 > cfg.blockPct * d.basis => d.committed * 100 > cfg.blockPct * d.basis
        <5>1. cfg.blockPct * d.basis \in Int
          BY <2>2
        <5>2. QED
          BY <5>1, <2>2 DEF Milder
      <4>4. QED
        BY <4>1, <4>2, <4>3 DEF CommittedFired, ChecksAbsolute, ChecksPercent, ExceedsPercent, Milder
    <3>3. QED
      BY <3>1, <3>2
  <2>5. QED
    BY <2>1, <2>3, <2>4 DEF Decision, Aggregate, CostPassed, PolicyPassed, Blocking
<1>2. QED
  BY <1>1, SpecInd, PTL DEF Spec, MilderRevisionStillPasses

\* Authorising more never opens the gate.
THEOREM MoreBurstBlocks == Spec => MoreBurstNeverUnblocks
<1>1. Ind /\ Ind' /\ [Next]_vars =>
          [d'.committed = d.committed /\ d'.total > d.total /\ Decision = "fail"
               => Decision' = "fail"]_vars
  <2> SUFFICES ASSUME Ind, Ind', Next, d'.committed = d.committed, d'.total > d.total, Decision = "fail"
               PROVE  Decision' = "fail"
    OBVIOUS
  <2>1. AuthoriseMore
    <3> SUFFICES ASSUME CommitToLess PROVE FALSE
      BY DEF Next
    <3>1. PICK w \in d.workloads, floor \in 0..MaxMoney, ceiling \in 0..MaxMoney :
              floor < w.floor /\ Reprice(w, floor, ceiling)
      BY DEF CommitToLess
    <3>2. d'.committed = d.committed + floor - w.floor
      BY <3>1 DEF Reprice, Ind, Deltas
    <3>3. floor \in Int /\ w.floor \in Int /\ d.committed \in Int
      BY DeltaTypes, AmountsAreTyped
    <3>4. QED
      BY <3>1, <3>2, <3>3
  <2>2. PICK w \in d.workloads, ceiling \in 0..MaxMoney :
            w.autoscaled /\ ceiling > w.after /\ Reprice(w, w.floor, ceiling)
    BY <2>1 DEF AuthoriseMore
  <2> DEFINE v == [w EXCEPT !.floor = w.floor, !.after = ceiling]
  <2>3. /\ cfg' = cfg /\ d'.basis = d.basis /\ d'.workloads = (d.workloads \ {w}) \cup {v}
        /\ d'.total \in Int /\ d.total \in Int /\ d.committed \in Int
    <3>1. cfg' = cfg /\ d' \in Deltas
      BY <2>1 DEF AuthoriseMore
    <3>2. d'.total \in -MaxMoney..MaxMoney /\ d.total \in Int /\ d.committed \in Int
      BY <3>1, DeltaTypes DEF Deltas
    <3>3. d'.basis = d.basis /\ d'.workloads = (d.workloads \ {w}) \cup {v}
      BY <2>2 DEF Reprice, Ind, Deltas
    <3>4. QED
      BY <3>1, <3>2, <3>3, AmountsAreTyped
  <2>4. CASE CommittedFired(cfg, d)
    <3>1. CommittedFired(cfg, d')
      BY <2>3, <2>4 DEF CommittedFired, ExemptAsReduction, ChecksAbsolute, ChecksPercent, ExceedsPercent
    <3>2. QED
      BY <2>3, <3>1 DEF Decision, Aggregate, CostPassed, PolicyPassed, Blocking
  <2>5. CASE AutoscalingFired(cfg, d)
    <3>1. Headroom(d') > 0 /\ (Headroom(d) > cfg.ceilingMax => Headroom(d') > cfg.ceilingMax)
      BY <2>3, <2>5, ConfigTypes DEF AutoscalingFired, Headroom
    <3>2. ASSUME NEW u \in BurstOffenders(cfg, d) PROVE BurstOffenders(cfg, d') # {}
      <4>1. u \in d.workloads /\ u.autoscaled /\ u.floor > 0 /\ u.after > cfg.burstRatio * u.floor
        BY <3>2 DEF BurstOffenders
      <4>2. CASE u # w
        <5>1. u \in d'.workloads
          BY <2>3, <4>1, <4>2
        <5>2. QED
          BY <4>1, <5>1 DEF BurstOffenders
      <4>3. CASE u = w
        <5>1. /\ v \in d'.workloads
              /\ v.autoscaled = w.autoscaled /\ v.floor = w.floor /\ v.after = ceiling
          <6>1. w \in [ref : {x.ref : x \in d.workloads}, autoscaled : BOOLEAN,
                       before : Int, after : Int, floor : Nat]
            BY AmountsAreTyped DEF Ind, Deltas
          <6>2. QED
            BY <2>3, <6>1
        <5>2. ceiling > cfg.burstRatio * w.floor
          <6>1. cfg.burstRatio * w.floor \in Int /\ ceiling \in Int /\ w.after \in Int
            BY DeltaTypes, ConfigTypes, AmountsAreTyped
          <6>2. QED
            BY <2>2, <4>1, <4>3, <6>1
        <5>3. QED
          BY <4>1, <4>3, <5>1, <5>2 DEF BurstOffenders
      <4>4. QED
        BY <4>2, <4>3
    <3>3. AutoscalingFired(cfg, d')
      BY <2>5, <3>1, <3>2 DEF AutoscalingFired
    <3>4. QED
      BY <2>3, <3>3 DEF Decision, Aggregate, CostPassed, PolicyPassed, Blocking
  <2>6. QED
    BY <2>4, <2>5, DecisionIsCost
<1>2. QED
  BY <1>1, SpecInd, PTL DEF Spec, MoreBurstNeverUnblocks
================================================================================
