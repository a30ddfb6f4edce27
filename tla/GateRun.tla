-------------------------------- MODULE GateRun --------------------------------
(***************************************************************************)
(* One evaluation of a pull request by the gate: run and evaluateCmd of    *)
(* src/gate/cmd/gate/main.go, step by step, with every way a step can      *)
(* fail.  The scenario (see PullRequest) is chosen initially and never     *)
(* changes.                                                                *)
(***************************************************************************)
EXTENDS PullRequest

VARIABLES
    sc,             \* the scenario
    pc,             \* the step of run that is next
    worktrees,      \* temporary worktrees registered with git
    cleanups,       \* the trees whose removal is deferred
    refused,        \* history: the trees git did not remove when it was told to
    roots,          \* the roots under evaluation
    todo,           \* those the loop has not reached
    costErrors,     \* <<root, stage>> of every recorded evaluation error
    headObjects,    \* roots whose rendered head manifests were collected
    headMerged,     \* roots in the head estimate
    baseMerged,     \* roots in the base estimate
    estate,         \* the estate baseline, 0 when it is unknown
    decision,       \* the decision of the verdict
    findings,       \* the blocking violations the verdict reports
    exit            \* the process exit code

treeVars == <<worktrees, cleanups, refused>>
vars == <<sc, pc, treeVars, roots, todo, costErrors, headObjects, headMerged,
          baseMerged, estate, decision, findings, exit>>

ExitPass == 0
ExitFail == 1
ExitInconclusive == 2
NotExited == -1

--------------------------------------------------------------------------------
(* The run. *)

Init ==
    /\ sc \in Scenarios
    /\ pc = "config"
    /\ worktrees = {} /\ cleanups = {} /\ refused = {}
    /\ roots = {} /\ todo = {}
    /\ costErrors = {} /\ headObjects = {} /\ headMerged = {} /\ baseMerged = {}
    /\ estate = 0 /\ decision = "none" /\ findings = {}
    /\ exit = NotExited

Goto(step) == pc' = step

progress == <<roots, todo, costErrors, headObjects, headMerged, baseMerged, estate>>

\* config.Load rejects an invalid gate.yaml.
LoadConfig ==
    /\ pc = "config"
    /\ Goto(IF ValidConfig(sc.cfg) THEN "diff" ELSE "error")
    /\ UNCHANGED <<sc, treeVars, progress, decision, findings, exit>>

\* ChangedFiles, then the working tree's pricing table; a pull request that
\* touches no manifest passes here, with nothing evaluated.
DiffManifests ==
    /\ pc = "diff"
    /\ IF ChangedDirs(sc) = {}
       THEN decision' = "pass" /\ Goto("emit")
       ELSE decision' = decision /\ Goto("worktree")
    /\ UNCHANGED <<sc, treeVars, progress, findings, exit>>

\* The head worktree, and after it the base worktree.
NextTree == IF "head" \in worktrees THEN "base" ELSE "head"

\* Mutant of Deferred: both removals are deferred once both trees are there.
DeferredTogether(tree) == IF tree = "base" THEN {"head", "base"} ELSE {}

\* What each tree defers as soon as git has added it.
Deferred(tree) == {tree}

MaterialiseTree ==
    /\ pc = "worktree"
    /\ worktrees' = worktrees \cup {NextTree}
    /\ cleanups' = cleanups \cup Deferred(NextTree)
    /\ Goto(IF NextTree = "base" THEN "tables" ELSE "worktree")
    /\ UNCHANGED <<sc, refused, progress, decision, findings, exit>>

\* loadPricingTables, Roots, and AllRoots when the rates changed.
ResolveRoots ==
    /\ pc = "tables"
    /\ IF ValidTable(sc.headTable) /\ ValidTable(BaseTable(sc))
       THEN /\ roots' = InScope(sc) /\ todo' = InScope(sc)
            /\ Goto("loop")
       ELSE /\ UNCHANGED <<roots, todo>>
            /\ Goto("error")
    /\ UNCHANGED <<sc, treeVars, costErrors, headObjects, headMerged, baseMerged,
                   estate, decision, findings, exit>>

\* Where the turn of root r stops: render and price it at head, then at base;
\* the first failure is recorded and the rest of the turn is skipped.
StopsAt(s, r) ==
    IF ~Renders(s.head, r) THEN "render head"
    ELSE IF RootFails(s.headTable, s.head, r) THEN "price head"
    ELSE IF ~Renders(s.base, r) THEN "render base"
    ELSE IF RootFails(BaseTable(s), s.base, r) THEN "price base"
    ELSE "end"

\* Mutant of CollectsObjects: only roots that can be priced reach the rules.
CollectsPricedObjects(s, r) == StopsAt(s, r) \notin {"render head", "price head"}

\* What the turn leaves behind before it stops.
CollectsObjects(s, r) == StopsAt(s, r) # "render head"
MergesHead(s, r) == StopsAt(s, r) \notin {"render head", "price head"}
MergesBase(s, r) == StopsAt(s, r) = "end"
\* Mutants of RecordedError: the errors of the base side are swallowed; an error
\* is recorded without asking whether there was one.
RecordedHeadError(s, r) == {<<r, stage>> : stage \in {StopsAt(s, r)} \cap {"render head", "price head"}}
RecordedAlways(s, r) == {<<r, StopsAt(s, r)>>}

RecordedError(s, r) == {<<r, stage>> : stage \in {StopsAt(s, r)} \ {"end"}}

Only(r, holds) == IF holds THEN {r} ELSE {}

\* One turn of the loop.  The roots are sorted in the code; the order shows only
\* in the order of the report.
EvaluateRoot(r) ==
    /\ pc = "loop"
    /\ r \in todo
    /\ todo' = todo \ {r}
    /\ headObjects' = headObjects \cup Only(r, CollectsObjects(sc, r))
    /\ headMerged' = headMerged \cup Only(r, MergesHead(sc, r))
    /\ baseMerged' = baseMerged \cup Only(r, MergesBase(sc, r))
    /\ costErrors' = costErrors \cup RecordedError(sc, r)
    /\ UNCHANGED <<sc, pc, treeVars, roots, estate, decision, findings, exit>>

\* Mutant of PriceEstate: the estate as it will be, not as it is.
PriceHeadEstate ==
    /\ pc = "loop"
    /\ todo = {}
    /\ estate' \in {EstateBaseline([sc EXCEPT !.base = sc.head]), 0}
    /\ Goto("judge")
    /\ UNCHANGED <<sc, treeVars, roots, todo, costErrors, headObjects, headMerged,
                   baseMerged, decision, findings, exit>>

\* priceEstate; when the base tree cannot be enumerated the run goes on
\* without a baseline.
PriceEstate ==
    /\ pc = "loop"
    /\ todo = {}
    /\ estate' \in {EstateBaseline(sc), 0}
    /\ Goto("judge")
    /\ UNCHANGED <<sc, treeVars, roots, todo, costErrors, headObjects, headMerged,
                   baseMerged, decision, findings, exit>>

\* Compare, both sub-gates, and Aggregate.
Judge ==
    /\ pc = "judge"
    /\ LET delta      == DeltaOf(sc, baseMerged, headMerged, estate)
           violations == PolicyViolations(sc, headObjects)
           errors     == PolicyErrors(sc, headObjects)
       IN  /\ decision' = Aggregate(sc.cfg, delta, costErrors, violations, errors)
           /\ findings' = Blocking(sc.cfg, violations)
    /\ Goto("emit")
    /\ UNCHANGED <<sc, treeVars, progress, exit>>

\* run returns, with the code the process will exit with.
Return(code) ==
    /\ exit' = code
    /\ Goto("return")
    /\ UNCHANGED <<sc, treeVars, progress, decision, findings>>

\* The report is written and run returns the decision's exit code.
Emit ==
    /\ pc = "emit"
    /\ Return(CASE decision = "pass" -> ExitPass
                [] decision = "fail" -> ExitFail
                [] decision = "inconclusive" -> ExitInconclusive)

\* Any step that reads a file, runs git or writes the report may return an
\* error, which evaluateCmd turns into exit code 2.  A git that fails to add a
\* worktree leaves none.
Abort ==
    /\ \/ pc \in {"config", "diff", "worktree", "tables", "emit", "error"}
       \/ pc = "loop" /\ todo # {}
    /\ Return(ExitInconclusive)

\* The deferred functions run, the last one first.  Each tells git to remove its
\* worktree and does not look at the answer.
Cleanup(tree) ==
    /\ pc = "return"
    /\ tree \in cleanups /\ (tree = "head" => "base" \notin cleanups)
    /\ cleanups' = cleanups \ {tree}
    /\ \/ worktrees' = worktrees \ {tree} /\ UNCHANGED refused
       \/ refused' = refused \cup {tree} /\ UNCHANGED worktrees
    /\ UNCHANGED <<sc, pc, progress, decision, findings, exit>>

\* os.Exit runs no deferred function, and evaluateCmd has none.
Exit ==
    /\ pc = "return" /\ cleanups = {}
    /\ Goto("done")
    /\ UNCHANGED <<sc, treeVars, progress, decision, findings, exit>>

Next ==
    \/ LoadConfig
    \/ DiffManifests
    \/ MaterialiseTree
    \/ ResolveRoots
    \/ \E r \in Directories : EvaluateRoot(r)
    \/ PriceEstate
    \/ Judge
    \/ Emit
    \/ Abort
    \/ \E tree \in {"head", "base"} : Cleanup(tree)
    \/ Exit

Spec == Init /\ [][Next]_vars

--------------------------------------------------------------------------------
TypeOK ==
    /\ sc \in Scenarios
    /\ pc \in {"config", "diff", "worktree", "tables", "loop", "judge", "emit", "error",
              "return", "done"}
    /\ worktrees \cup cleanups \cup refused \subseteq {"head", "base"}
    /\ roots \subseteq Directories /\ todo \subseteq roots
    /\ costErrors \subseteq roots \X {"render head", "price head", "render base", "price base"}
    /\ headObjects \subseteq roots /\ headMerged \subseteq roots /\ baseMerged \subseteq roots
    /\ decision \in Decisions \cup {"none"}
    /\ exit \in {NotExited, ExitPass, ExitFail, ExitInconclusive}

\* "we could not tell must never open it" (verdict.go:3-6): exit code 0 for a
\* pull request that changes manifests means that every root in scope was
\* rendered and priced on both sides, that no manifest of those roots breaks a
\* blocking rule, and, where errors of the rules block (treatErrors), that the
\* rules ran without one.
ExitZeroIsProven ==
    exit = ExitPass /\ ChangedDirs(sc) # {} =>
        /\ \A r \in InScope(sc) : Evaluable(sc, r)
        /\ sc.cfg.treatErrors => PolicyErrors(sc, InScope(sc)) = {}
        /\ Blocking(sc.cfg, PolicyViolations(sc, InScope(sc))) = {}

\* "a cost failure must not suppress policy findings" (main.go:335-337): a
\* verdict reports every blocking violation of the manifests that rendered,
\* whatever went wrong in pricing them.
FindingsSurviveCostErrors ==
    pc = "done" /\ decision # "none" /\ ChangedDirs(sc) # {} =>
        findings = Blocking(sc.cfg,
                       PolicyViolations(sc, {r \in InScope(sc) : Renders(sc.head, r)}))

\* Exit code 1 tells the author "your change is too expensive or breaks a
\* rule", 2 "the gate is broken" (verdict.go:22-25): a 1 is never the product
\* of an estimate that covers one side of a root and not the other.
FailIsJudgedOnWholeEstimates ==
    exit = ExitFail => headMerged = roots /\ baseMerged = roots

\* "Prune the administrative entry as well as the directory, otherwise the repo
\* accumulates stale worktree registrations across runs" (render.go:107-108):
\* through every error return, before, between and after the two trees, both
\* trees are there as long as the run reads them, and when the process exits a
\* registration is left only where git itself did not remove it.
WorktreesReleased ==
    /\ pc \in {"tables", "loop", "judge"} => worktrees = {"head", "base"}
    /\ pc = "done" => worktrees = refused

\* The cost judged is that of what changed, where it can be told apart: the
\* rates stayed, the base branch did not move, and the estate prices.
Comparable(s) ==
    /\ s.mergeBase = s.base /\ ~RatesChanged(BaseTable(s), s.headTable)
    /\ \A r \in AllRoots(s.head) : Renders(s.head, r) /\ ~RootFails(s.headTable, s.head, r)
    /\ \A r \in AllRoots(s.base) : Renders(s.base, r) /\ ~RootFails(BaseTable(s), s.base, r)

\* The difference between pricing the whole tree before and after.
Repriced(s) ==
    Merged(s.headTable, s.head, AllRoots(s.head)).monthly
        - Merged(BaseTable(s), s.base, AllRoots(s.base)).monthly

JudgedOnWholeDifference ==
    exit \in {ExitPass, ExitFail} /\ ChangedDirs(sc) # {} /\ Comparable(sc)
        => DeltaOf(sc, baseMerged, headMerged, estate).total = Repriced(sc)

\* Evaluating only the roots of the changed files loses nothing and counts
\* nothing twice (render.go:130-133): wherever no kustomization lies below
\* another one or takes in what does not lie below it, and every file keeps its
\* root, the cost judged is the difference between the prices of the two trees.
ScopeCarriesTheCost ==
    /\ \A tree \in {sc.base, sc.head} : NoneNested(tree) /\ TakesInBelow(tree)
    /\ RootsKept(sc.base, sc.head)
    => JudgedOnWholeDifference

\* The verdict the outside world sees: the exit code, once there is one.
Outcome ==
    CASE exit = ExitPass -> "pass"
      [] exit = ExitFail -> "fail"
      [] exit = ExitInconclusive -> "inconclusive"
      [] OTHER -> "pending"

Promise == INSTANCE GatePromise WITH
               Requests <- Scenarios, Verdicts <- Allowed, request <- sc, verdict <- Outcome

\* The run keeps the gate's promise (GatePromise): skipped roots, partial
\* estimates, a missing estate and every early return of run come out as a
\* verdict the abstract specification allows, and it is never revised.
KeepsPromise == Promise!Spec

--------------------------------------------------------------------------------
(* What the documentation says and the code does not do. *)

FailedOnCostAlone == exit = ExitFail /\ findings = {}

\* "A nested directory is a component of this build, not a root of its own;
\* descending would render the same objects twice and double their cost", and
\* Roots and AllRoots "must agree" (render.go:193-198): also when the change
\* takes a kustomization away, as long as each tree has one root for each file.
NothingPricedTwice ==
    OneRootEach(sc.base) /\ OneRootEach(sc.head) => JudgedOnWholeDifference

\* "A PR that only ever reduces cost is never blocked by the cost sub-gate"
\* (gate.yaml:42): both what the change commits to and what it authorises fall,
\* in all and for every workload it touches, and yet it fails.
ReductionNeverBlocked ==
    LET d == DeltaOf(sc, baseMerged, headMerged, estate)
        onlyReduces == /\ d.committed < 0 /\ d.total < 0
                       /\ \A w \in d.workloads : w.after < w.before
    IN  FailedOnCostAlone /\ sc.cfg.allowDecrease => ~onlyReduces

================================================================================
