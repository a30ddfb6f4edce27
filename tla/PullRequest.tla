------------------------------ MODULE PullRequest ------------------------------
(***************************************************************************)
(* A pull request as the gate sees it, and what its code reads out of it   *)
(* (src/gate/cmd/gate/main.go and src/gate/internal/render).  The pull     *)
(* request is a record, the scenario:                                      *)
(*   cfg                      gate.yaml (see Verdict);                     *)
(*   mergeBase, base, head    three trees: the merge base of the branch,   *)
(*                            the tip of the base branch, the branch;      *)
(*   baseTable, headTable     the rate tables of base (or Absent) and head;*)
(*   engine                   "ok", or "broken" when policy.New fails      *)
(*                            (no rules, rules that do not compile, or a   *)
(*                            self-test that finds nothing to reject).     *)
(* For trees see ManifestRoots.                                            *)
(***************************************************************************)
EXTENDS Cost, Verdict, ManifestRoots, FiniteSets

CONSTANTS
    Scenarios,      \* the pull requests considered
    NodeCount,      \* spec.cost.assumedNodeCount
    Violations(_),  \* what the Rego rules report for a set of manifests
    RuleErrors(_)   \* the rule evaluation errors for a set of manifests

\* What reading a tree finds: manifests that can be read have been decoded.
IsTree(tree) ==
    \A d \in {x \in Directories : Exists(tree, x)} :
        /\ tree[d].takesIn \in Seq(Directories)
        /\ tree[d].yaml # Unrenderable => AllDecoded(Int, tree[d].yaml)

\* ChangedFiles: the directories with files the branch changed since the merge
\* base.
ChangedDirs(s) == {d \in Directories : s.head[d] # s.mergeBase[d]}

\* loadPricingTables: a base commit without a table is priced with the head's.
BaseTable(s) == IF s.baseTable = Absent THEN s.headTable ELSE s.baseTable

ASSUME ScenariosAssumption ==
    /\ NodeCount \in Int
    /\ \A s \in Scenarios :
           IsTree(s.base) /\ IsTree(s.head) /\ ReadTable(Int, s.headTable)
           /\ ReadTable(Int, BaseTable(s))

\* Roots are resolved in the head tree.
InScope(s) ==
    IF RatesChanged(BaseTable(s), s.headTable)
    THEN AllRoots(s.head) ELSE Roots(s.head, ChangedDirs(s))

RootEstimate(table, tree, r) == Estimate(table, NodeCount, Objects(tree, r))

RootFails(table, tree, r) == EstimateFails(table, Objects(tree, r))

\* The loop's mergeEstimates over the roots of rs.
Merged(table, tree, rs) ==
    FoldSet(LAMBDA r, est : MergeEstimates(est, RootEstimate(table, tree, r)), NoEstimate, rs)

\* priceEstate: a root that fails to render or to price is skipped.
EstateBaseline(s) ==
    LET priced == {r \in AllRoots(s.base) :
                       Renders(s.base, r) /\ ~RootFails(BaseTable(s), s.base, r)}
    IN  Merged(BaseTable(s), s.base, priced).monthly

DeltaOf(s, baseRoots, headRoots, estateBaseline) ==
    Compare(Merged(BaseTable(s), s.base, baseRoots),
            Merged(s.headTable, s.head, headRoots),
            estateBaseline)

Manifests(s, rs) == UNION {Range(Objects(s.head, r)) : r \in rs}

\* policy.New on the head tree's rules, then Evaluate on the manifests.
PolicyErrors(s, rs) == IF s.engine = "broken" THEN {"engine"} ELSE RuleErrors(Manifests(s, rs))
PolicyViolations(s, rs) == IF s.engine = "broken" THEN {} ELSE Violations(Manifests(s, rs))

\* The root is rendered and priced on both sides.
Evaluable(s, r) ==
    /\ Renders(s.head, r) /\ ~RootFails(s.headTable, s.head, r)
    /\ Renders(s.base, r) /\ ~RootFails(BaseTable(s), s.base, r)
--------------------------------------------------------------------------------
(* The verdicts a pull request may get.  Saying that it could not tell is      *)
(* always allowed.  A pass or a fail is allowed only where every root in scope *)
(* can be rendered and priced on both sides, and is then the judgement of the  *)
(* whole estimates, with the estate as the base of the percentage or, where    *)
(* the estate cannot be enumerated, without it.                                *)

Judgement(s, estateBaseline) ==
    Aggregate(s.cfg, DeltaOf(s, InScope(s), InScope(s), estateBaseline), {},
              PolicyViolations(s, InScope(s)), PolicyErrors(s, InScope(s)))

Judgeable(s) ==
    /\ ValidConfig(s.cfg) /\ ValidTable(s.headTable) /\ ValidTable(BaseTable(s))
    /\ \A r \in InScope(s) : Evaluable(s, r)

Allowed(s) ==
    {"inconclusive"} \cup
    (IF ChangedDirs(s) = {} /\ ValidConfig(s.cfg) THEN {"pass"}
     ELSE IF Judgeable(s) THEN {Judgement(s, EstateBaseline(s)), Judgement(s, 0)}
     ELSE {})
================================================================================
