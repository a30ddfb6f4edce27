----------------------------- MODULE GateRunProofs -----------------------------
(***************************************************************************)
(* Proofs about one evaluation of the gate, for every set of roots, every  *)
(* pull request, every rule set and every configuration.  Fail-safety is a *)
(* matter of which roots were visited and what was recorded of them; its   *)
(* argument never looks inside Estimate, Compare or Violations.  That the  *)
(* roots in scope carry the cost of the change (ScopeSuffices) is about    *)
(* sums of estimates, over sequences of roots and sets of them.            *)
(***************************************************************************)
EXTENDS GateRun, CostLemmas, FiniteSetTheorems, TLAPS

Stages == {"render head", "price head", "render base", "price base"}

\* In the loop and after it: what has been recorded of the roots visited.
Visited == roots \ todo

LoopInv ==
    /\ roots = InScope(sc)
    /\ ValidConfig(sc.cfg) /\ ValidTable(sc.headTable) /\ ValidTable(BaseTable(sc))
    /\ headObjects = {r \in Visited : CollectsObjects(sc, r)}
    /\ headMerged = {r \in Visited : MergesHead(sc, r)}
    /\ baseMerged = {r \in Visited : MergesBase(sc, r)}
    /\ \A r \in Visited : RecordedError(sc, r) \subseteq costErrors

\* What Judge leaves behind.
JudgedInv ==
    /\ LoopInv
    /\ todo = {}
    /\ estate \in {EstateBaseline(sc), 0}
    /\ decision = Aggregate(sc.cfg, DeltaOf(sc, baseMerged, headMerged, estate), costErrors,
                            PolicyViolations(sc, headObjects), PolicyErrors(sc, headObjects))
    /\ findings = Blocking(sc.cfg, PolicyViolations(sc, headObjects))

Undecided == {"config", "diff", "worktree", "tables", "loop", "judge", "error"}

\* While the run goes on the removal of every worktree there is has been deferred;
\* once it has returned, what is left is to be removed or was not removed by git.
TreesInv ==
    /\ pc \notin {"return", "done"} => cleanups = worktrees /\ refused = {}
    /\ pc \in {"tables", "loop", "judge"} => worktrees = {"head", "base"}
    /\ worktrees = cleanups \cup refused /\ cleanups \cap refused = {}
    /\ pc = "done" => cleanups = {}

\* The inductive invariant: TypeOK says nothing of how the recorded sets relate
\* to the scenario, which is what the exit code depends on.
Ind ==
    /\ TypeOK
    /\ pc \in Undecided => decision = "none"
    /\ pc \in {"diff", "worktree", "tables"} => ValidConfig(sc.cfg)
    /\ pc \in {"config", "diff", "worktree", "tables"} =>
           costErrors = {} /\ headObjects = {} /\ headMerged = {} /\ baseMerged = {}
    /\ pc = "emit" => decision # "none"
    /\ pc \in {"worktree", "tables", "loop", "judge"} => ChangedDirs(sc) # {}
    /\ pc \in {"loop", "judge"} => LoopInv
    /\ pc = "judge" => todo = {} /\ estate \in {EstateBaseline(sc), 0}
    /\ decision # "none" =>
           IF ChangedDirs(sc) = {} THEN decision = "pass" /\ ValidConfig(sc.cfg) ELSE JudgedInv
    /\ TreesInv
    /\ pc \notin {"return", "done"} => exit = NotExited
    /\ pc \in {"return", "done"} => exit \in {ExitPass, ExitFail, ExitInconclusive}
    /\ exit = ExitPass => decision = "pass"
    /\ exit = ExitFail => decision = "fail"

--------------------------------------------------------------------------------
LEMMA AggregateType ==
    ASSUME NEW cfg, NEW d, NEW ce, NEW vs, NEW pe
    PROVE  Aggregate(cfg, d, ce, vs, pe) \in Decisions
  BY DEF Aggregate, Decisions

\* A decision to pass or fail was taken without a cost error.
LEMMA DecidedWithoutErrors ==
    ASSUME NEW cfg, NEW d, NEW ce, NEW vs, NEW pe,
           Aggregate(cfg, d, ce, vs, pe) # "inconclusive"
    PROVE  ce = {} /\ ~(cfg.treatErrors /\ pe # {})
  BY DEF Aggregate

LEMMA PassHasNoBlockingViolation ==
    ASSUME NEW cfg, NEW d, NEW ce, NEW vs, NEW pe,
           Aggregate(cfg, d, ce, vs, pe) = "pass"
    PROVE  Blocking(cfg, vs) = {}
  BY DEF Aggregate, PolicyPassed

LEMMA ScopeIsRoots ==
    ASSUME NEW s PROVE InScope(s) \subseteq Directories
  BY DEF InScope, AllRoots, Roots

LEMMA StopsAtType ==
    ASSUME NEW s, NEW r PROVE StopsAt(s, r) \in Stages \cup {"end"}
  BY DEF StopsAt, Stages

LEMMA RecordedErrorType ==
    ASSUME NEW s, NEW r PROVE RecordedError(s, r) \subseteq {r} \X Stages
  BY StopsAtType DEF RecordedError

--------------------------------------------------------------------------------
LEMMA InitInd == Init => Ind
  BY DEF Init, Ind, TreesInv, TypeOK, Undecided, NotExited, ExitPass, ExitFail

LEMMA LoadConfigInd == Ind /\ LoadConfig => Ind'
<1> SUFFICES ASSUME Ind, LoadConfig PROVE Ind'
  OBVIOUS
<1>1. TypeOK'
  BY DEF Ind, TreesInv, TypeOK, LoadConfig, Goto, treeVars, progress
<1>2. QED
  BY <1>1 DEF Ind, TreesInv, TypeOK, LoadConfig, Goto, treeVars, progress, Undecided, JudgedInv, LoopInv, Visited

LEMMA DiffManifestsInd == Ind /\ DiffManifests => Ind'
<1> SUFFICES ASSUME Ind, DiffManifests PROVE Ind'
  OBVIOUS
<1>1. TypeOK'
  BY DEF Ind, TreesInv, TypeOK, DiffManifests, Goto, treeVars, progress, Decisions
<1>2. QED
  BY <1>1 DEF Ind, TreesInv, TypeOK, DiffManifests, Goto, treeVars, progress, Undecided, NotExited, ExitPass, ExitFail

LEMMA MaterialiseTreeInd == Ind /\ MaterialiseTree => Ind'
<1> SUFFICES ASSUME Ind, MaterialiseTree PROVE Ind'
  OBVIOUS
<1>1. TypeOK'
  BY DEF Ind, TypeOK, MaterialiseTree, NextTree, Deferred, Goto, progress
<1>2. TreesInv'
  BY DEF Ind, TreesInv, TypeOK, MaterialiseTree, NextTree, Deferred, Goto
<1>3. QED
  BY <1>1, <1>2 DEF Ind, TypeOK, MaterialiseTree, Goto, progress, Undecided

LEMMA ResolveRootsInd == Ind /\ ResolveRoots => Ind'
<1> SUFFICES ASSUME Ind, ResolveRoots PROVE Ind'
  OBVIOUS
<1>1. CASE ~(ValidTable(sc.headTable) /\ ValidTable(BaseTable(sc)))
  BY <1>1 DEF Ind, TreesInv, TypeOK, ResolveRoots, Goto, treeVars, Undecided
<1>2. CASE ValidTable(sc.headTable) /\ ValidTable(BaseTable(sc))
  <2>1. pc = "tables" /\ pc' = "loop" /\ roots' = InScope(sc) /\ todo' = InScope(sc)
        /\ UNCHANGED <<sc, worktrees, cleanups, refused, costErrors, headObjects, headMerged, baseMerged,
                       estate, decision, findings, exit>>
    BY <1>2 DEF ResolveRoots, Goto, treeVars
  <2>2. TypeOK'
    <3>1. costErrors = {} /\ headObjects = {} /\ headMerged = {} /\ baseMerged = {}
      BY <2>1 DEF Ind
    <3>2. QED
      BY <2>1, <3>1, ScopeIsRoots DEF Ind, TypeOK
  <2>3. LoopInv'
    BY <2>1, <1>2 DEF Ind, LoopInv, Visited
  <2>4. QED
    BY <2>1, <2>2, <2>3 DEF Ind, TreesInv, Undecided
<1>3. QED
  BY <1>1, <1>2

LEMMA EvaluateRootInd == ASSUME NEW r \in Directories PROVE Ind /\ EvaluateRoot(r) => Ind'
<1> SUFFICES ASSUME Ind, EvaluateRoot(r) PROVE Ind'
  OBVIOUS
<1>1. /\ pc = "loop" /\ r \in todo /\ todo' = todo \ {r}
      /\ UNCHANGED <<sc, pc, worktrees, cleanups, refused, roots, estate, decision, findings, exit>>
  BY DEF EvaluateRoot, treeVars
<1>2. LoopInv /\ TypeOK /\ r \in roots
  BY <1>1 DEF Ind, TypeOK
<1>3. Visited' = Visited \cup {r} /\ r \notin Visited
  BY <1>1, <1>2 DEF Visited
<1>4. TypeOK'
  <2>1. costErrors' \subseteq roots \X Stages
    <3>1. RecordedError(sc, r) \subseteq {r} \X Stages
      BY RecordedErrorType
    <3>2. costErrors \subseteq roots \X Stages /\ costErrors' = costErrors \cup RecordedError(sc, r)
      BY <1>2 DEF EvaluateRoot, TypeOK, Stages
    <3>3. QED
      BY <1>2, <3>1, <3>2
  <2>2. QED
    BY <1>1, <1>2, <2>1 DEF EvaluateRoot, TypeOK, Only, Stages
<1>5. LoopInv'
  <2>1. headObjects' = {x \in Visited' : CollectsObjects(sc, x)}
    BY <1>2, <1>3 DEF EvaluateRoot, LoopInv, Only
  <2>2. headMerged' = {x \in Visited' : MergesHead(sc, x)}
    BY <1>2, <1>3 DEF EvaluateRoot, LoopInv, Only
  <2>3. baseMerged' = {x \in Visited' : MergesBase(sc, x)}
    BY <1>2, <1>3 DEF EvaluateRoot, LoopInv, Only
  <2>4. \A x \in Visited' : RecordedError(sc, x) \subseteq costErrors'
    BY <1>2, <1>3 DEF EvaluateRoot, LoopInv
  <2>5. QED
    BY <1>1, <1>2, <2>1, <2>2, <2>3, <2>4 DEF LoopInv
<1>6. QED
  BY <1>1, <1>4, <1>5 DEF Ind, TreesInv, Undecided

LEMMA PriceEstateInd == Ind /\ PriceEstate => Ind'
<1> SUFFICES ASSUME Ind, PriceEstate PROVE Ind'
  OBVIOUS
<1>1. TypeOK'
  BY DEF Ind, TypeOK, PriceEstate, Goto, treeVars
<1>2. LoopInv'
  BY DEF Ind, LoopInv, PriceEstate, Visited
<1>3. QED
  BY <1>1, <1>2 DEF Ind, TreesInv, PriceEstate, Goto, treeVars, Undecided

LEMMA JudgeInd == Ind /\ Judge => Ind'
<1> SUFFICES ASSUME Ind, Judge PROVE Ind'
  OBVIOUS
<1>1. pc = "judge" /\ pc' = "emit" /\ UNCHANGED <<sc, worktrees, cleanups, refused, progress, exit>>
  BY DEF Judge, Goto, treeVars
<1>2. decision' = Aggregate(sc.cfg, DeltaOf(sc, baseMerged, headMerged, estate), costErrors,
                            PolicyViolations(sc, headObjects), PolicyErrors(sc, headObjects))
      /\ findings' = Blocking(sc.cfg, PolicyViolations(sc, headObjects))
  BY DEF Judge
<1>3. decision' \in Decisions
  BY <1>2, AggregateType
<1>4. TypeOK'
  BY <1>1, <1>3 DEF Ind, TypeOK, progress
<1>5. JudgedInv'
  BY <1>1, <1>2 DEF Ind, JudgedInv, LoopInv, Visited, progress
<1>6. QED
  BY <1>1, <1>3, <1>4, <1>5 DEF Ind, TreesInv, Undecided, Decisions, progress

LEMMA EmitInd == Ind /\ Emit => Ind'
<1> SUFFICES ASSUME Ind, Emit PROVE Ind'
  OBVIOUS
<1>1. pc = "emit" /\ pc' = "return" /\ UNCHANGED <<sc, worktrees, cleanups, refused, progress, decision, findings>>
  BY DEF Emit, Return, Goto, treeVars
<1>2. JudgedInv' <=> JudgedInv
  BY <1>1 DEF JudgedInv, LoopInv, Visited, progress
<1>3. decision \in Decisions
  BY <1>1 DEF Ind, TypeOK
<1>4. /\ exit' \in {ExitPass, ExitFail, ExitInconclusive}
      /\ exit' = ExitPass => decision = "pass"
      /\ exit' = ExitFail => decision = "fail"
  BY <1>3 DEF Emit, Return, Decisions, ExitPass, ExitFail, ExitInconclusive
<1>5. TypeOK'
  BY <1>1, <1>4 DEF Ind, TypeOK, progress
<1>6. QED
  BY <1>1, <1>2, <1>4, <1>5 DEF Ind, TreesInv, Undecided, progress

LEMMA AbortInd == Ind /\ Abort => Ind'
<1> SUFFICES ASSUME Ind, Abort PROVE Ind'
  OBVIOUS
<1>1. /\ pc \notin {"return", "done"} /\ pc' = "return" /\ exit' = ExitInconclusive
      /\ UNCHANGED <<sc, worktrees, cleanups, refused, progress, decision, findings>>
  BY DEF Abort, Return, Goto, treeVars
<1>2. JudgedInv' <=> JudgedInv
  BY <1>1 DEF JudgedInv, LoopInv, Visited, progress
<1>3. TypeOK'
  BY <1>1 DEF Ind, TypeOK, progress
<1>4. QED
  BY <1>1, <1>2, <1>3 DEF Ind, TreesInv, progress, Undecided, NotExited, ExitPass, ExitFail,
     ExitInconclusive

\* Once the run has returned only the worktrees change.
LEMMA AfterReturn ==
    ASSUME Ind, pc = "return", pc' \in {"return", "done"}, TreesInv',
           worktrees' \cup cleanups' \cup refused' \subseteq {"head", "base"},
           UNCHANGED <<sc, progress, decision, findings, exit>>
    PROVE  Ind'
<1>1. JudgedInv' <=> JudgedInv
  BY DEF JudgedInv, LoopInv, Visited, progress
<1>2. TypeOK'
  BY DEF Ind, TypeOK, progress
<1>3. QED
  BY <1>1, <1>2 DEF Ind, progress, Undecided

LEMMA CleanupInd == ASSUME NEW tree \in {"head", "base"} PROVE Ind /\ Cleanup(tree) => Ind'
<1> SUFFICES ASSUME Ind, Cleanup(tree) PROVE Ind'
  OBVIOUS
<1>1. TreesInv'
  BY DEF Ind, TreesInv, Cleanup
<1>2. worktrees' \cup cleanups' \cup refused' \subseteq {"head", "base"}
  BY DEF Ind, TypeOK, Cleanup
<1>3. QED
  BY <1>1, <1>2, AfterReturn DEF Cleanup

LEMMA ExitInd == Ind /\ Exit => Ind'
<1> SUFFICES ASSUME Ind, Exit PROVE Ind'
  OBVIOUS
<1>1. TreesInv'
  BY DEF Ind, TreesInv, Exit, Goto, treeVars
<1>2. worktrees' \cup cleanups' \cup refused' \subseteq {"head", "base"}
  BY DEF Ind, TypeOK, Exit, treeVars
<1>3. QED
  BY <1>1, <1>2, AfterReturn DEF Exit, Goto

LEMMA NextInd == Ind /\ [Next]_vars => Ind'
<1> SUFFICES ASSUME Ind, [Next]_vars PROVE Ind'
  OBVIOUS
<1>1. CASE UNCHANGED vars
  <2>1. progress' = progress /\ Visited' = Visited /\ vars' = vars
    BY <1>1 DEF vars, progress, Visited
  <2>2. TypeOK' <=> TypeOK
    BY <1>1 DEF vars, treeVars, TypeOK, progress
  <2>3. LoopInv' <=> LoopInv
    BY <1>1, <2>1, Zenon DEF vars, LoopInv
  <2>4. JudgedInv' <=> JudgedInv
    BY <1>1, <2>3, Zenon DEF vars, JudgedInv
  <2>5. TreesInv' <=> TreesInv
    BY <1>1 DEF vars, treeVars, TreesInv
  <2>6. QED
    BY <1>1, <2>2, <2>3, <2>4, <2>5 DEF vars, Ind
<1>2. CASE Next
  BY <1>2, LoadConfigInd, DiffManifestsInd, MaterialiseTreeInd, ResolveRootsInd, EvaluateRootInd,
     PriceEstateInd, JudgeInd, EmitInd, AbortInd, CleanupInd, ExitInd DEF Next
<1>3. QED
  BY <1>1, <1>2

LEMMA SpecInd == Spec => []Ind
<1>1. QED
  BY InitInd, NextInd, PTL DEF Spec

--------------------------------------------------------------------------------
\* A root whose turn recorded no error was taken to its end.
LEMMA CleanTurn ==
    ASSUME NEW s, NEW r, RecordedError(s, r) = {}
    PROVE  Evaluable(s, r) /\ CollectsObjects(s, r) /\ MergesHead(s, r) /\ MergesBase(s, r)
<1>1. StopsAt(s, r) = "end"
  BY DEF RecordedError
<1>2. QED
  BY <1>1 DEF StopsAt, Evaluable, CollectsObjects, MergesHead, MergesBase

\* Without a recorded error the estimates judged are whole.
LEMMA WholeEstimates ==
    ASSUME JudgedInv, costErrors = {}
    PROVE  /\ \A r \in InScope(sc) : Evaluable(sc, r)
           /\ headObjects = InScope(sc) /\ headMerged = InScope(sc) /\ baseMerged = InScope(sc)
<1>1. Visited = InScope(sc)
  BY DEF JudgedInv, LoopInv, Visited
<1>2. \A r \in InScope(sc) : RecordedError(sc, r) = {}
  BY <1>1 DEF JudgedInv, LoopInv
<1>3. QED
  BY <1>1, <1>2, CleanTurn DEF JudgedInv, LoopInv

\* Every state the run reaches is well typed.
THEOREM TypeCorrect == Spec => []TypeOK
<1>1. Ind => TypeOK
  BY DEF Ind
<1>2. QED
  BY <1>1, SpecInd, PTL

\* Whatever fails, in whatever order the roots are taken, exit code 0 is only
\* returned when everything in scope was priced and no blocking rule is broken.
THEOREM FailSafe == Spec => []ExitZeroIsProven
<1>1. Ind => ExitZeroIsProven
  <2> SUFFICES ASSUME Ind, exit = ExitPass, ChangedDirs(sc) # {}
               PROVE  /\ \A r \in InScope(sc) : Evaluable(sc, r)
                      /\ sc.cfg.treatErrors => PolicyErrors(sc, InScope(sc)) = {}
                      /\ Blocking(sc.cfg, PolicyViolations(sc, InScope(sc))) = {}
    BY DEF ExitZeroIsProven
  <2>1. decision = "pass" /\ JudgedInv
    BY DEF Ind
  <2>2. /\ costErrors = {}
        /\ ~(sc.cfg.treatErrors /\ PolicyErrors(sc, headObjects) # {})
        /\ Blocking(sc.cfg, PolicyViolations(sc, headObjects)) = {}
    BY <2>1, DecidedWithoutErrors, PassHasNoBlockingViolation DEF JudgedInv
  <2>3. QED
    BY <2>1, <2>2, WholeEstimates
<1>2. QED
  BY <1>1, SpecInd, PTL

\* A failure to price a root never hides what the rules found in it.
THEOREM FindingsKept == Spec => []FindingsSurviveCostErrors
<1>1. Ind => FindingsSurviveCostErrors
  <2> SUFFICES ASSUME Ind, decision # "none", ChangedDirs(sc) # {}
               PROVE  headObjects = {r \in InScope(sc) : Renders(sc.head, r)}
                      /\ findings = Blocking(sc.cfg, PolicyViolations(sc, headObjects))
    BY DEF FindingsSurviveCostErrors
  <2>1. JudgedInv
    BY DEF Ind
  <2>2. \A r : CollectsObjects(sc, r) <=> Renders(sc.head, r)
    BY DEF CollectsObjects, StopsAt
  <2>3. QED
    BY <2>1, <2>2 DEF JudgedInv, LoopInv, Visited
<1>2. QED
  BY <1>1, SpecInd, PTL

\* "Too expensive" is never said of an estimate with a hole in it.
THEOREM FailIsHonest == Spec => []FailIsJudgedOnWholeEstimates
<1>1. Ind => FailIsJudgedOnWholeEstimates
  <2> SUFFICES ASSUME Ind, exit = ExitFail PROVE headMerged = roots /\ baseMerged = roots
    BY DEF FailIsJudgedOnWholeEstimates
  <2>1. decision = "fail" /\ JudgedInv
    BY DEF Ind
  <2>2. costErrors = {}
    BY <2>1, DecidedWithoutErrors DEF JudgedInv
  <2>3. QED
    BY <2>1, <2>2, WholeEstimates DEF JudgedInv, LoopInv
<1>2. QED
  BY <1>1, SpecInd, PTL

\* No early return leaks a worktree: whatever was added when it happens, its
\* removal has been deferred.
THEOREM Tidy == Spec => []WorktreesReleased
<1>1. Ind => WorktreesReleased
  BY DEF Ind, TreesInv, WorktreesReleased
<1>2. QED
  BY <1>1, SpecInd, PTL

--------------------------------------------------------------------------------
\* The decision a run emits is one the promise allows for its pull request.
LEMMA DecisionAllowed ==
    ASSUME Ind, decision # "none" PROVE decision \in Allowed(sc)
<1>1. CASE ChangedDirs(sc) = {}
  BY <1>1 DEF Ind, Allowed
<1>2. CASE ChangedDirs(sc) # {} /\ decision = "inconclusive"
  BY <1>2 DEF Allowed
<1>3. CASE ChangedDirs(sc) # {} /\ decision # "inconclusive"
  <2>1. JudgedInv
    BY <1>3 DEF Ind
  <2>2. costErrors = {}
    BY <2>1, <1>3, DecidedWithoutErrors DEF JudgedInv
  <2>3. Judgeable(sc)
    BY <2>1, <2>2, WholeEstimates DEF JudgedInv, LoopInv, Judgeable
  <2>4. decision = Judgement(sc, estate)
    BY <2>1, <2>2, WholeEstimates DEF JudgedInv, Judgement
  <2>5. QED
    BY <1>3, <2>1, <2>3, <2>4 DEF JudgedInv, Allowed
<1>4. QED
  BY <1>1, <1>2, <1>3

LEMMA StepRefines == Ind /\ [Next]_vars => [Promise!Decide]_<<sc, Outcome>>
<1> SUFFICES ASSUME Ind, [Next]_vars PROVE Promise!Decide \/ UNCHANGED <<sc, Outcome>>
  OBVIOUS
<1>1. CASE Emit
  <2>1. pc = "emit" /\ UNCHANGED sc /\ exit = NotExited /\ decision \in Decisions
    BY <1>1 DEF Emit, Return, progress, Ind, TypeOK
  <2>2. Outcome = "pending" /\ Outcome' = decision
    BY <1>1, <2>1 DEF Emit, Return, Outcome, Decisions, NotExited, ExitPass, ExitFail, ExitInconclusive
  <2>3. decision \in Allowed(sc)
    BY <2>1, DecisionAllowed DEF Decisions
  <2>4. QED
    BY <2>1, <2>2, <2>3 DEF Promise!Decide
<1>2. CASE Abort
  <2>1. UNCHANGED sc /\ exit = NotExited /\ exit' = ExitInconclusive
    BY <1>2 DEF Abort, Return, progress, Ind
  <2>2. Outcome = "pending" /\ Outcome' = "inconclusive"
    BY <2>1 DEF Outcome, NotExited, ExitPass, ExitFail, ExitInconclusive
  <2>3. QED
    BY <2>1, <2>2 DEF Promise!Decide, Allowed
<1>3. CASE UNCHANGED <<sc, exit>>
  BY <1>3 DEF Outcome
<1>4. QED
  BY <1>1, <1>2, <1>3 DEF Next, vars, LoadConfig, DiffManifests, MaterialiseTree, ResolveRoots,
     EvaluateRoot, PriceEstate, Judge, Cleanup, Exit

\* Every run is a run of the abstract gate: one verdict, issued once, and one
\* the pull request allows.
THEOREM Refinement == Spec => KeepsPromise
<1>1. Init => Promise!Init
  BY DEF Init, Promise!Init, Outcome, NotExited, ExitPass, ExitFail, ExitInconclusive
<1>2. QED
  BY <1>1, SpecInd, StepRefines, PTL DEF Spec, KeepsPromise, Promise!Spec

--------------------------------------------------------------------------------
(* Sums over finite sets of roots. *)

LEMMA SubsetInduction ==
    ASSUME NEW U, IsFiniteSet(U), NEW P,
           \A s \in SUBSET U : (\A x \in s : s \ {x} \in P) => s \in P
    PROVE  SUBSET U \subseteq P
<1> DEFINE S == {n \in Nat : \A s \in SUBSET U : Cardinality(s) = n => s \in P}
<1>1. \A s \in SUBSET U : IsFiniteSet(s) /\ Cardinality(s) \in Nat
  BY FS_Subset, FS_CardinalityType
<1>2. 0 \in S
  <2> SUFFICES ASSUME NEW s \in SUBSET U, Cardinality(s) = 0 PROVE s \in P
    OBVIOUS
  <2>1. s = {}
    BY <1>1, FS_EmptySet
  <2>2. QED
    BY <2>1
<1>3. \A n \in Nat : n \in S => n + 1 \in S
  <2> SUFFICES ASSUME NEW n \in Nat, n \in S, NEW s \in SUBSET U, Cardinality(s) = n + 1
               PROVE  s \in P
    OBVIOUS
  <2>1. ASSUME NEW x \in s PROVE s \ {x} \in P
    <3>1. Cardinality(s \ {x}) = Cardinality(s) - 1 /\ s \ {x} \in SUBSET U
      BY <1>1, FS_RemoveElement
    <3>2. QED
      BY <3>1
  <2>2. QED
    BY <2>1
<1> HIDE DEF S
<1>4. Nat \subseteq S
  BY <1>2, <1>3, SetInduction
<1>5. QED
  BY <1>1, <1>4 DEF S

\* g gives the sum of c over every set of elements of U.
IsSum(g, c, U) ==
    /\ g \in [SUBSET U -> Int] /\ g[{}] = 0
    /\ \A s \in SUBSET U : \A x \in s : g[s] = g[s \ {x}] + c[x]

LEMMA SumExists ==
    ASSUME NEW U, IsFiniteSet(U), NEW c \in [U -> Int] PROVE \E g : IsSum(g, c, U)
<1> DEFINE P == {s \in SUBSET U : \E g : IsSum(g, c, s)}
<1>1. \A s \in SUBSET U : (\A x \in s : s \ {x} \in P) => s \in P
  <2> SUFFICES ASSUME NEW s \in SUBSET U, \A x \in s : s \ {x} \in P PROVE \E g : IsSum(g, c, s)
    OBVIOUS
  <2>1. CASE s = {}
    <3> DEFINE g == [t \in SUBSET s |-> 0]
    <3>1. IsSum(g, c, s)
      BY <2>1 DEF IsSum
    <3>2. QED
      BY <3>1
  <2>2. CASE s # {}
    <3>1. PICK a \in s : TRUE
      BY <2>2
    <3>2. PICK g : IsSum(g, c, s \ {a})
      BY <3>1
    <3> DEFINE r == s \ {a}
               h == [t \in SUBSET s |-> IF a \in t THEN g[t \ {a}] + c[a] ELSE g[t]]
    <3>3. /\ g \in [SUBSET r -> Int] /\ g[{}] = 0
          /\ \A t \in SUBSET r : \A x \in t : g[t] = g[t \ {x}] + c[x]
      BY <3>2 DEF IsSum
    <3>4. \A t \in SUBSET s : t \ {a} \in SUBSET r /\ (a \notin t => t \in SUBSET r)
      OBVIOUS
    <3>5. c[a] \in Int /\ \A x \in s : c[x] \in Int
      BY <3>1
    <3> HIDE DEF r
    <3>6. h \in [SUBSET s -> Int] /\ h[{}] = 0
      BY <3>3, <3>4, <3>5
    <3>7. ASSUME NEW t \in SUBSET s, NEW x \in t PROVE h[t] = h[t \ {x}] + c[x]
      <4>1. t \ {x} \in SUBSET s /\ c[x] \in Int
        BY <3>5
      <4>2. CASE a \notin t
        <5>1. h[t] = g[t] /\ h[t \ {x}] = g[t \ {x}]
          BY <4>1, <4>2
        <5>2. QED
          BY <3>3, <3>4, <4>2, <5>1
      <4>3. CASE x = a
        <5>1. h[t] = g[t \ {a}] + c[a] /\ h[t \ {x}] = g[t \ {a}]
          BY <4>1, <4>3
        <5>2. QED
          BY <4>3, <5>1
      <4>4. CASE a \in t /\ x # a
        <5>1. h[t] = g[t \ {a}] + c[a] /\ h[t \ {x}] = g[(t \ {x}) \ {a}] + c[a]
          BY <4>1, <4>4
        <5>2. (t \ {x}) \ {a} = (t \ {a}) \ {x} /\ x \in t \ {a}
          BY <4>4
        <5>3. t \ {a} \in SUBSET r /\ (t \ {a}) \ {x} \in SUBSET r
          BY <3>4
        <5>4. g[t \ {a}] = g[(t \ {a}) \ {x}] + c[x] /\ g[(t \ {a}) \ {x}] \in Int
          BY <3>3, <5>2, <5>3
        <5>5. h[t \ {x}] = g[(t \ {a}) \ {x}] + c[a]
          BY <5>1, <5>2
        <5> DEFINE m == g[(t \ {a}) \ {x}]
        <5>6. m \in Int /\ h[t] = (m + c[x]) + c[a] /\ h[t \ {x}] = m + c[a]
          BY <5>1, <5>4, <5>5
        <5> HIDE DEF h, m
        <5>7. QED
          BY <3>5, <4>1, <5>6
      <4>5. QED
        BY <4>2, <4>3, <4>4
    <3> HIDE DEF h
    <3>8. IsSum(h, c, s)
      BY <3>6, <3>7 DEF IsSum
    <3>9. QED
      BY <3>8
  <2>3. QED
    BY <2>1, <2>2
<1> HIDE DEF P
<1>2. SUBSET U \subseteq P
  BY <1>1, SubsetInduction
<1>3. QED
  BY <1>2 DEF P

LEMMA SumSplit ==
    ASSUME NEW U, IsFiniteSet(U), NEW c \in [U -> Int], NEW g, IsSum(g, c, U),
           NEW S \in SUBSET U, NEW T \in SUBSET U, S \cap T = {}
    PROVE  g[S \cup T] = g[S] + g[T]
<1> DEFINE P == {t \in SUBSET U : S \cap t = {} => g[S \cup t] = g[S] + g[t]}
<1>1. /\ g \in [SUBSET U -> Int] /\ g[{}] = 0
      /\ \A s \in SUBSET U : \A x \in s : g[s] = g[s \ {x}] + c[x]
  BY DEF IsSum
<1>2. \A t \in SUBSET U : (\A x \in t : t \ {x} \in P) => t \in P
  <2> SUFFICES ASSUME NEW t \in SUBSET U, \A x \in t : t \ {x} \in P, S \cap t = {}
               PROVE  g[S \cup t] = g[S] + g[t]
    OBVIOUS
  <2>1. CASE t = {}
    <3>1. S \cup t = S /\ g[S] \in Int
      BY <1>1, <2>1
    <3>2. QED
      BY <1>1, <2>1, <3>1
  <2>2. CASE t # {}
    <3>1. PICK x \in t : TRUE
      BY <2>2
    <3>2. x \in U /\ c[x] \in Int
      BY <3>1
    <3>3. g[S \cup (t \ {x})] = g[S] + g[t \ {x}]
      BY <3>1
    <3>4. (S \cup t) \ {x} = S \cup (t \ {x}) /\ x \in S \cup t /\ S \cup t \in SUBSET U
          /\ t \ {x} \in SUBSET U
      BY <3>1
    <3>5. g[S \cup t] = g[S \cup (t \ {x})] + c[x] /\ g[t] = g[t \ {x}] + c[x]
      <4>1. g[S \cup t] = g[(S \cup t) \ {x}] + c[x]
        BY <1>1, <3>4
      <4>2. g[t] = g[t \ {x}] + c[x]
        BY <1>1, <3>1
      <4>3. QED
        BY <3>4, <4>1, <4>2
    <3>6. g[S] \in Int /\ g[t \ {x}] \in Int
      BY <1>1, <3>4
    <3> HIDE DEF P
    <3>7. QED
      BY <3>2, <3>3, <3>5, <3>6
  <2>3. QED
    BY <2>1, <2>2
<1> HIDE DEF P
<1>3. SUBSET U \subseteq P
  BY <1>2, SubsetInduction
<1>4. QED
  BY <1>3 DEF P

LEMMA SumSame ==
    ASSUME NEW U, IsFiniteSet(U), NEW c \in [U -> Int], NEW d \in [U -> Int],
           NEW g, IsSum(g, c, U), NEW h, IsSum(h, d, U),
           NEW S \in SUBSET U, \A x \in S : c[x] = d[x]
    PROVE  g[S] = h[S]
<1> DEFINE P == {s \in SUBSET U : (\A x \in s : c[x] = d[x]) => g[s] = h[s]}
<1>1. /\ g[{}] = h[{}]
      /\ \A s \in SUBSET U : \A x \in s : g[s] = g[s \ {x}] + c[x] /\ h[s] = h[s \ {x}] + d[x]
  BY DEF IsSum
<1>2. \A s \in SUBSET U : (\A x \in s : s \ {x} \in P) => s \in P
  <2> SUFFICES ASSUME NEW s \in SUBSET U, \A x \in s : s \ {x} \in P, \A x \in s : c[x] = d[x]
               PROVE  g[s] = h[s]
    OBVIOUS
  <2>1. CASE s # {}
    <3>1. PICK x \in s : TRUE
      BY <2>1
    <3>2. g[s \ {x}] = h[s \ {x}]
      BY <3>1
    <3>3. QED
      BY <1>1, <3>1, <3>2
  <2>2. QED
    BY <1>1, <2>1
<1> HIDE DEF P
<1>3. SUBSET U \subseteq P
  BY <1>2, SubsetInduction
<1>4. QED
  BY <1>3 DEF P

LEMMA SumOfNothing ==
    ASSUME NEW U, IsFiniteSet(U), NEW c \in [U -> Int], NEW g, IsSum(g, c, U),
           NEW S \in SUBSET U, \A x \in S : c[x] = 0
    PROVE  g[S] = 0
<1> DEFINE d == [x \in U |-> 0]
           h == [s \in SUBSET U |-> 0]
<1>1. d \in [U -> Int] /\ IsSum(h, d, U) /\ (\A x \in S : c[x] = d[x]) /\ h[S] = 0
  BY DEF IsSum
<1> HIDE DEF d, h
<1>2. QED
  BY <1>1, SumSame

\* Two prices of the roots: where they differ and where they are counted.
LEMMA SameDifference ==
    ASSUME NEW U, IsFiniteSet(U), NEW c \in [U -> Int], NEW d \in [U -> Int],
           NEW g, IsSum(g, c, U), NEW h, IsSum(h, d, U),
           NEW I \in SUBSET U, NEW H \in SUBSET U, NEW B \in SUBSET U,
           \A x \in I \ H : c[x] = 0, \A x \in I \ B : d[x] = 0,
           H \ I = B \ I, \A x \in H \ I : c[x] = d[x]
    PROVE  g[I] - h[I] = g[H] - h[B]
<1>1. ASSUME NEW e \in [U -> Int], NEW k, IsSum(k, e, U), NEW A \in SUBSET U,
             \A x \in I \ A : e[x] = 0
      PROVE  k[A] = k[I] + k[A \ I] /\ k[I] \in Int /\ k[A \ I] \in Int
  <2>1. k[(I \cap A) \cup (I \ A)] = k[I \cap A] + k[I \ A]
    <3>1. I \cap A \in SUBSET U /\ I \ A \in SUBSET U /\ (I \cap A) \cap (I \ A) = {}
      OBVIOUS
    <3>2. QED
      BY <1>1, <3>1, SumSplit
  <2>2. k[(I \cap A) \cup (A \ I)] = k[I \cap A] + k[A \ I]
    <3>1. I \cap A \in SUBSET U /\ A \ I \in SUBSET U /\ (I \cap A) \cap (A \ I) = {}
      OBVIOUS
    <3>2. QED
      BY <1>1, <3>1, SumSplit
  <2>3. k[I \ A] = 0
    <3>1. I \ A \in SUBSET U
      OBVIOUS
    <3>2. QED
      BY <1>1, <3>1, SumOfNothing
  <2>4. (I \cap A) \cup (I \ A) = I /\ (I \cap A) \cup (A \ I) = A
    OBVIOUS
  <2>5. k[I \cap A] \in Int /\ k[A \ I] \in Int
    BY <1>1 DEF IsSum
  <2>6. k[I] = k[I \cap A] + k[I \ A]
    BY <2>1, <2>4
  <2>7. k[A] = k[I \cap A] + k[A \ I]
    BY <2>2, <2>4
  <2>8. k[I] = k[I \cap A]
    BY <2>3, <2>5, <2>6
  <2>9. QED
    BY <2>5, <2>7, <2>8
<1>2. g[H] = g[I] + g[H \ I] /\ g[I] \in Int /\ g[H \ I] \in Int
  BY <1>1
<1>3. h[B] = h[I] + h[B \ I] /\ h[I] \in Int /\ h[B \ I] \in Int
  BY <1>1
<1>4. g[H \ I] = h[B \ I]
  <2>1. H \ I \in SUBSET U
    OBVIOUS
  <2>2. g[H \ I] = h[H \ I]
    BY <2>1, SumSame
  <2>3. QED
    BY <2>2
<1>5. \A m, n, k \in Int : m - n = (m + k) - (n + k)
  OBVIOUS
<1>6. QED
  BY <1>2, <1>3, <1>4, <1>5
--------------------------------------------------------------------------------
(* The loop's estimate is the sum over its roots, in any order. *)

Taken(f, table, tree, s) ==
    IF s = {} THEN NoEstimate
    ELSE LET r == CHOOSE x \in s : TRUE
         IN  MergeEstimates(f[s \ {r}], RootEstimate(table, tree, r))

IsFold(f, table, tree, D) == f = [s \in D |-> Taken(f, table, tree, s)]

Folded(table, tree, S) == CHOOSE f : IsFold(f, table, tree, SUBSET S)

LEMMA FoldExists ==
    ASSUME NEW table, NEW tree, NEW S, IsFiniteSet(S)
    PROVE  IsFold(Folded(table, tree, S), table, tree, SUBSET S)
<1> DEFINE L(n) == {s \in SUBSET S : Cardinality(s) <= n}
           N == {n \in Nat : \E f : IsFold(f, table, tree, L(n))}
<1>1. \A s \in SUBSET S : /\ IsFiniteSet(s) /\ Cardinality(s) \in Nat
                          /\ Cardinality(s) <= Cardinality(S)
  BY FS_Subset, FS_CardinalityType
<1>2. \A s \in SUBSET S : \A x \in s : s \ {x} \in SUBSET S
                                       /\ Cardinality(s \ {x}) = Cardinality(s) - 1
  BY <1>1, FS_RemoveElement
<1>3. ASSUME NEW f, NEW h, NEW s \in SUBSET S, \A x \in s : f[s \ {x}] = h[s \ {x}]
      PROVE  Taken(f, table, tree, s) = Taken(h, table, tree, s)
  <2>1. CASE s = {}
    BY <2>1 DEF Taken
  <2>2. CASE s # {}
    <3> DEFINE r == CHOOSE x \in s : TRUE
    <3>1. r \in s
      BY <2>2
    <3>2. f[s \ {r}] = h[s \ {r}]
      BY <1>3, <3>1
    <3>3. QED
      BY <2>2, <3>2 DEF Taken
  <2>3. QED
    BY <2>1, <2>2
<1>4. 0 \in N
  <2> DEFINE f == [s \in L(0) |-> NoEstimate]
  <2>1. \A s \in L(0) : s = {}
    BY <1>1, FS_EmptySet
  <2>2. \A s \in L(0) : Taken(f, table, tree, s) = NoEstimate
    BY <2>1 DEF Taken
  <2>3. f = [s \in L(0) |-> Taken(f, table, tree, s)]
    BY <2>2
  <2> HIDE DEF f
  <2>4. IsFold(f, table, tree, L(0))
    BY <2>3 DEF IsFold
  <2>5. QED
    BY <2>4
<1>5. \A n \in Nat : n \in N => n + 1 \in N
  <2> SUFFICES ASSUME NEW n \in Nat, \E f : IsFold(f, table, tree, L(n))
               PROVE  \E h : IsFold(h, table, tree, L(n + 1))
    <3> HIDE DEF L
    <3> QED
      OBVIOUS
  <2>1. PICK f : IsFold(f, table, tree, L(n))
    OBVIOUS
  <2> DEFINE h == [s \in L(n + 1) |-> Taken(f, table, tree, s)]
  <2>2. \A s \in L(n) : f[s] = Taken(f, table, tree, s)
    BY <2>1 DEF IsFold
  <2>3. L(n) \subseteq L(n + 1)
    BY <1>1
  <2>4. \A s \in L(n) : h[s] = f[s]
    BY <2>2, <2>3
  <2>5. \A s \in L(n + 1) : \A x \in s : s \ {x} \in L(n)
    <3> SUFFICES ASSUME NEW s \in L(n + 1), NEW x \in s PROVE s \ {x} \in L(n)
      OBVIOUS
    <3>1. s \in SUBSET S /\ Cardinality(s) \in Nat /\ Cardinality(s) <= n + 1
      BY <1>1
    <3>2. s \ {x} \in SUBSET S /\ Cardinality(s \ {x}) = Cardinality(s) - 1
      BY <1>2, <3>1
    <3>3. Cardinality(s \ {x}) <= n
      BY <3>1, <3>2
    <3>4. QED
      BY <3>2, <3>3
  <2>6. ASSUME NEW s \in L(n + 1) PROVE Taken(f, table, tree, s) = Taken(h, table, tree, s)
    <3>1. s \in SUBSET S /\ \A x \in s : f[s \ {x}] = h[s \ {x}]
      BY <2>4, <2>5
    <3> HIDE DEF h
    <3>2. QED
      BY <1>3, <3>1
  <2>7. h = [s \in L(n + 1) |-> Taken(h, table, tree, s)]
    BY <2>6
  <2> HIDE DEF h, L
  <2>8. IsFold(h, table, tree, L(n + 1))
    BY <2>7 DEF IsFold
  <2>9. QED
    BY <2>8
<1>6. Nat \subseteq N
  <2> HIDE DEF N
  <2> QED
    BY <1>4, <1>5, SetInduction
<1>7. Cardinality(S) \in Nat /\ L(Cardinality(S)) = SUBSET S
  BY <1>1, FS_CardinalityType
<1>8. \E f : IsFold(f, table, tree, SUBSET S)
  BY <1>6, <1>7
<1>9. QED
  BY <1>8 DEF Folded

LEMMA MergedIsFolded ==
    ASSUME NEW table, NEW tree, NEW S
    PROVE  Merged(table, tree, S) = Folded(table, tree, S)[S]
  BY DEF Merged, FoldSet, MapThenFoldSet, Folded, IsFold, Taken

LEMMA NothingEstimated == NoEstimate.monthly = 0
  BY TotalEmpty DEF NoEstimate, EstimateOf

LEMMA MergedIsTheSum ==
    ASSUME NEW table, NEW tree, NEW U, IsFiniteSet(U), NEW c, NEW g, IsSum(g, c, U),
           NEW S \in SUBSET U, \A r \in S : c[r] = RootEstimate(table, tree, r).monthly
    PROVE  Merged(table, tree, S).monthly = g[S]
<1> DEFINE f == Folded(table, tree, S)
           P == {s \in SUBSET S : f[s].monthly = g[s]}
<1>1. IsFiniteSet(S)
  BY FS_Subset
<1>2. \A s \in SUBSET S : f[s] = Taken(f, table, tree, s)
  <2>1. IsFold(f, table, tree, SUBSET S)
    BY <1>1, FoldExists
  <2> HIDE DEF f
  <2>2. f = [s \in SUBSET S |-> Taken(f, table, tree, s)]
    BY <2>1 DEF IsFold
  <2>3. QED
    BY <2>2
<1>3. g[{}] = 0 /\ \A s \in SUBSET U : \A x \in s : g[s] = g[s \ {x}] + c[x]
  BY DEF IsSum
<1> HIDE DEF f
<1>4. \A s \in SUBSET S : (\A x \in s : s \ {x} \in P) => s \in P
  <2> SUFFICES ASSUME NEW s \in SUBSET S, \A x \in s : s \ {x} \in P PROVE f[s].monthly = g[s]
    OBVIOUS
  <2>1. CASE s = {}
    BY <1>2, <1>3, <2>1, NothingEstimated DEF Taken
  <2>2. CASE s # {}
    <3> DEFINE r == CHOOSE x \in s : TRUE
               e == RootEstimate(table, tree, r)
    <3>1. r \in s
      BY <2>2
    <3> HIDE DEF r
    <3>2. f[s] = MergeEstimates(f[s \ {r}], e)
      BY <1>2, <2>2 DEF Taken, r
    <3>3. f[s].monthly = f[s \ {r}].monthly + e.monthly
      BY <3>2 DEF MergeEstimates
    <3>4. f[s \ {r}].monthly = g[s \ {r}] /\ c[r] = e.monthly
      BY <3>1
    <3>5. g[s] = g[s \ {r}] + c[r]
      BY <1>3, <3>1
    <3>6. QED
      BY <3>3, <3>4, <3>5
  <2>3. QED
    BY <2>1, <2>2
<1> HIDE DEF P
<1>5. SUBSET S \subseteq P
  BY <1>1, <1>4, SubsetInduction
<1>7. QED
  BY <1>5, MergedIsFolded DEF P, f
--------------------------------------------------------------------------------
(* What a root holds and what it costs. *)

\* Tables that RatesChanged cannot tell apart price everything alike.
LEMMA SameTablesSameEstimate ==
    ASSUME NEW t, NEW u, ~RatesChanged(t, u), NEW nodes, NEW objs
    PROVE  Estimate(t, nodes, objs) = Estimate(u, nodes, objs)
<1>1. /\ t.cpu = u.cpu /\ t.mem = u.mem /\ t.sto = u.sto /\ t.hours = u.hours
      /\ t.missingCpu = u.missingCpu /\ t.missingMem = u.missingMem
  BY DEF RatesChanged
<1>2. \A c : ContainerResources(t, c) = ContainerResources(u, c)
  BY <1>1 DEF ContainerResources
<1>3. \A pod, field : Running(t, pod, field) = Running(u, pod, field)
  BY <1>2 DEF Running
<1>4. \A pod, field : MaxInit(t, pod, field) = MaxInit(u, pod, field)
  BY <1>2 DEF MaxInit
<1>5. \A pod : PodResources(t, pod) = PodResources(u, pod)
  BY <1>3, <1>4 DEF PodResources
<1>6. \A o : PerReplica(t, o) = PerReplica(u, o)
  BY <1>5 DEF PerReplica
<1>7. \A r : MonthlyUSD(t, r) = MonthlyUSD(u, r)
  BY <1>1 DEF MonthlyUSD, HourlyUSD
<1>8. \A o : Price(t, nodes, objs, o) = Price(u, nodes, objs, o)
  BY <1>6, <1>7 DEF Price
<1>9. QED
  BY <1>8 DEF Estimate

Longer(f, ss, i) == IF i = 1 THEN ss[i] ELSE f[i - 1] \o ss[i]

IsFlat(f, ss, n) == f = [i \in 1..n |-> Longer(f, ss, i)]

Flat(ss) == CHOOSE f : IsFlat(f, ss, Len(ss))

LEMMA FlatExists ==
    ASSUME NEW ss, Len(ss) \in Nat PROVE IsFlat(Flat(ss), ss, Len(ss))
<1> DEFINE N == {n \in Nat : \E f : IsFlat(f, ss, n)}
<1>1. ASSUME NEW f, NEW h, NEW i, i # 1 => f[i - 1] = h[i - 1]
      PROVE  Longer(f, ss, i) = Longer(h, ss, i)
  BY <1>1 DEF Longer
<1>2. 0 \in N
  <2> DEFINE f == [i \in 1..0 |-> <<>>]
  <2>1. f = [i \in 1..0 |-> Longer(f, ss, i)]
    OBVIOUS
  <2> HIDE DEF f
  <2>2. IsFlat(f, ss, 0)
    BY <2>1 DEF IsFlat
  <2>3. QED
    BY <2>2
<1>3. \A n \in Nat : n \in N => n + 1 \in N
  <2> SUFFICES ASSUME NEW n \in Nat, NEW f, IsFlat(f, ss, n)
               PROVE  \E h : IsFlat(h, ss, n + 1)
    OBVIOUS
  <2> DEFINE h == [i \in 1..(n + 1) |-> Longer(f, ss, i)]
  <2>1. \A i \in 1..n : f[i] = Longer(f, ss, i)
    BY DEF IsFlat
  <2>2. \A i \in 1..n : h[i] = f[i]
    BY <2>1
  <2>3. ASSUME NEW i \in 1..(n + 1) PROVE Longer(f, ss, i) = Longer(h, ss, i)
    <3>1. i # 1 => i - 1 \in 1..n
      OBVIOUS
    <3>2. i # 1 => f[i - 1] = h[i - 1]
      BY <2>2, <3>1
    <3> HIDE DEF h
    <3>3. QED
      BY <1>1, <3>2
  <2>4. h = [i \in 1..(n + 1) |-> Longer(h, ss, i)]
    BY <2>3
  <2> HIDE DEF h
  <2>5. IsFlat(h, ss, n + 1)
    BY <2>4 DEF IsFlat
  <2>6. QED
    BY <2>5
<1> HIDE DEF N
<1>4. Len(ss) \in N
  BY <1>2, <1>3, SetInduction
<1>5. QED
  BY <1>4 DEF N, Flat

LEMMA FlattenIs ==
    ASSUME NEW ss, Len(ss) \in Nat, Len(ss) # 0
    PROVE  /\ FlattenSeq(ss) = Flat(ss)[Len(ss)]
           /\ \A i \in 1..Len(ss) : Flat(ss)[i] = Longer(Flat(ss), ss, i)
<1>1. FlattenSeq(ss) = Flat(ss)[Len(ss)]
  BY DEF FlattenSeq, Flat, IsFlat, Longer
<1> DEFINE f == Flat(ss)
<1>2. IsFlat(f, ss, Len(ss))
  BY FlatExists
<1>3. \A i \in 1..Len(ss) : f[i] = Longer(f, ss, i)
  <2> HIDE DEF f
  <2> QED
    BY <1>2 DEF IsFlat
<1>4. QED
  BY <1>1, <1>3

LEMMA FlattenType ==
    ASSUME NEW D, NEW ss \in Seq(Seq(D)) PROVE FlattenSeq(ss) \in Seq(D)
<1> DEFINE f == Flat(ss)
           N == {n \in Nat : n \in 1..Len(ss) => f[n] \in Seq(D)}
<1>1. CASE Len(ss) = 0
  BY <1>1 DEF FlattenSeq
<1>2. CASE Len(ss) # 0
  <2>1. FlattenSeq(ss) = f[Len(ss)] /\ \A i \in 1..Len(ss) : f[i] = Longer(f, ss, i)
    BY <1>2, FlattenIs
  <2>2. \A i \in 1..Len(ss) : ss[i] \in Seq(D)
    OBVIOUS
  <2> HIDE DEF f
  <2>3. \A n \in Nat : n \in N => n + 1 \in N
    <3> SUFFICES ASSUME NEW n \in Nat, n \in N PROVE n + 1 \in N
      OBVIOUS
    <3> SUFFICES ASSUME n \in 1..Len(ss) => f[n] \in Seq(D), n + 1 \in 1..Len(ss)
                 PROVE  f[n + 1] \in Seq(D)
      OBVIOUS
    <3>1. f[n + 1] = Longer(f, ss, n + 1) /\ ss[n + 1] \in Seq(D)
      BY <2>1, <2>2
    <3>2. CASE n = 0
      BY <3>1, <3>2 DEF Longer
    <3>3. CASE n # 0
      <4>1. f[n + 1] = f[n] \o ss[n + 1]
        <5>1. (n + 1) - 1 = n /\ n + 1 # 1
          BY <3>3
        <5>2. f[n + 1] = f[(n + 1) - 1] \o ss[n + 1]
          BY <3>1, <5>1 DEF Longer
        <5>3. QED
          BY <5>1, <5>2
      <4>2. n \in 1..Len(ss)
        BY <3>3
      <4>3. QED
        BY <3>1, <4>1, <4>2, ConcatProperties
    <3>4. QED
      BY <3>2, <3>3
  <2> HIDE DEF N
  <2>4. Nat \subseteq N
    <3>1. 0 \in N
      BY DEF N
    <3>2. QED
      BY <2>3, <3>1, SetInduction
  <2>5. f[Len(ss)] \in Seq(D)
    BY <1>2, <2>4 DEF N
  <2>6. QED
    BY <2>1, <2>5
<1>3. QED
  BY <1>1, <1>2

LEMMA FlattenOne ==
    ASSUME NEW ss, Len(ss) = 1 PROVE FlattenSeq(ss) = ss[1]
<1>1. 1 \in 1..Len(ss) /\ Len(ss) # 0 /\ Len(ss) \in Nat
  OBVIOUS
<1>2. FlattenSeq(ss) = Flat(ss)[1] /\ Flat(ss)[1] = Longer(Flat(ss), ss, 1)
  BY <1>1, FlattenIs
<1>3. QED
  BY <1>2 DEF Longer

LEMMA DecodedObjects ==
    ASSUME NEW tree, IsTree(tree), NEW d \in Directories, Renders(tree, d)
    PROVE  AllDecoded(Int, Objects(tree, d))
<1> DEFINE objs == Objects(tree, d)
<1>1. CASE ~Exists(tree, d)
  <2>1. objs = <<>>
    BY <1>1 DEF Objects
  <2> HIDE DEF objs
  <2>2. objs \in Seq({o \in Range(objs) : Decoded(Int, o)})
    BY <2>1
  <2>3. QED
    BY <2>2 DEF AllDecoded, objs
<1>2. CASE Exists(tree, d)
  <2> DEFINE parts == Reads(tree, d)
             ss == [i \in DOMAIN parts |-> tree[parts[i]].yaml]
             D == {o \in UNION {Range(ss[i]) : i \in DOMAIN parts} : Decoded(Int, o)}
  <2>1. parts \in Seq(Directories)
    <3>1. tree[d].takesIn \in Seq(Directories) /\ <<d>> \in Seq(Directories)
      BY <1>2 DEF IsTree
    <3>2. QED
      BY <3>1, ConcatProperties DEF Reads
  <2>2. objs = FlattenSeq(ss)
    BY <1>2 DEF Objects
  <2>3. \A i \in DOMAIN parts : parts[i] \in Range(parts) /\ parts[i] \in Directories
    <3> HIDE DEF parts
    <3> QED
      BY <2>1 DEF Range
  <2>4. \A i \in DOMAIN parts : Exists(tree, parts[i]) /\ tree[parts[i]].yaml # Unrenderable
    BY <1>2, <2>3 DEF Renders
  <2>5. \A i \in DOMAIN parts : AllDecoded(Int, ss[i])
    BY <2>3, <2>4 DEF IsTree
  <2> HIDE DEF ss, parts
  <2>6. ASSUME NEW i \in DOMAIN parts PROVE ss[i] \in Seq(D)
    <3>1. {o \in Range(ss[i]) : Decoded(Int, o)} \subseteq D
      OBVIOUS
    <3>2. ss[i] \in Seq({o \in Range(ss[i]) : Decoded(Int, o)})
      BY <2>5 DEF AllDecoded
    <3> HIDE DEF D
    <3>3. QED
      BY <3>1, <3>2, SeqMonotonic
  <2>7. DOMAIN parts = 1..Len(parts) /\ Len(parts) \in Nat
    BY <2>1
  <2>8. ss = [i \in 1..Len(parts) |-> ss[i]]
    BY <2>7 DEF ss
  <2> HIDE DEF D
  <2>9. ss \in Seq(Seq(D))
    BY <2>6, <2>7, <2>8
  <2>10. objs \in Seq(D)
    BY <2>2, <2>9, FlattenType
  <2>11. \A o \in D : Decoded(Int, o)
    BY DEF D
  <2> HIDE DEF objs
  <2>12. objs \in Seq({o \in Range(objs) : Decoded(Int, o)})
    <3>1. \A i \in 1..Len(objs) : objs[i] \in Range(objs) /\ Decoded(Int, objs[i])
      BY <2>10, <2>11 DEF Range
    <3> DEFINE K == {o \in Range(objs) : Decoded(Int, o)}
    <3>2. \A i \in 1..Len(objs) : objs[i] \in K
      BY <3>1
    <3> HIDE DEF K
    <3>3. objs \in Seq(K)
      BY <2>10, <3>2
    <3>4. QED
      BY <3>3 DEF K
  <2>13. QED
    BY <2>12 DEF AllDecoded, objs
<1>3. QED
  BY <1>1, <1>2

\* A root that can be rendered and priced costs a number.
LEMMA RootPriced ==
    ASSUME NEW table, ReadTable(Int, table), NodeCount \in Int,
           NEW tree, IsTree(tree), NEW r \in Directories,
           Renders(tree, r), ~RootFails(table, tree, r)
    PROVE  RootEstimate(table, tree, r).monthly \in Int
  BY DecodedObjects, EstimateType, NatNumbers DEF RootFails, RootEstimate

\* A directory that is not there, or holds nothing, costs nothing.
LEMMA NothingCostsNothing ==
    ASSUME NEW table, NEW tree, NEW r,
           ~Exists(tree, r) \/ (~Kustomized(tree, r) /\ tree[r].yaml = <<>>)
    PROVE  RootEstimate(table, tree, r).monthly = 0
<1>1. Objects(tree, r) = <<>>
  <2>1. CASE ~Exists(tree, r)
    BY <2>1 DEF Objects
  <2>2. CASE Exists(tree, r) /\ ~Kustomized(tree, r) /\ tree[r].yaml = <<>>
    <3> DEFINE parts == Reads(tree, r)
               ss == [i \in DOMAIN parts |-> tree[parts[i]].yaml]
    <3>1. parts = <<r>>
      BY <2>2 DEF Reads
    <3>2. Len(ss) = 1 /\ ss[1] = <<>>
      BY <2>2, <3>1
    <3>3. Objects(tree, r) = FlattenSeq(ss)
      BY <2>2 DEF Objects
    <3> HIDE DEF ss
    <3>4. QED
      BY <3>2, <3>3, FlattenOne
  <2>3. QED
    BY <2>1, <2>2
<1>2. QED
  BY <1>1, EstimateOfNothing DEF RootEstimate
--------------------------------------------------------------------------------
(* Which roots a change can reach. *)

\* Without nested kustomizations a directory is evaluated as part of exactly one
\* root: the kustomization above it, or itself.
LEMMA EvaluatedInside ==
    ASSUME NEW tree, NoneNested(tree), NEW d \in Directories, NEW a \in Above(d), Kustomized(tree, a)
    PROVE  \A root : EvaluatedAs(tree, d, root) <=> root = a
<1> DEFINE K == {b \in Above(d) : Kustomized(tree, b)}
<1>1. Above(d) \subseteq Directories /\ \A b \in Above(d) : a \in Above(b) \/ b \in Above(a)
  BY DirectoriesAssumption
<1>2. a \in Above(a)
  BY <1>1, DirectoriesAssumption
<1>3. \A b \in Above(d) : Kustomized(tree, b) => b = a
  BY <1>1 DEF NoneNested
<1>4. K = {a}
  BY <1>3
<1>5. \A root : EvaluatedAs(tree, d, root) <=> IF K = {} THEN root = d ELSE root \in K /\ K \subseteq Above(root)
  BY DEF EvaluatedAs
<1> HIDE DEF K
<1>6. QED
  BY <1>2, <1>4, <1>5

LEMMA EvaluatedAlone ==
    ASSUME NEW tree, NEW d, \A a \in Above(d) : ~Kustomized(tree, a)
    PROVE  \A root : EvaluatedAs(tree, d, root) <=> root = d
<1>1. {a \in Above(d) : Kustomized(tree, a)} = {}
  OBVIOUS
<1>2. QED
  BY <1>1 DEF EvaluatedAs

\* A root of the tree is evaluated as itself, and so is all that it reads.
LEMMA RootEvaluatedAsItself ==
    ASSUME NEW tree, NoneNested(tree), TakesInBelow(tree), IsTree(tree), NEW r \in AllRoots(tree),
           NEW part \in Range(Reads(tree, r))
    PROVE  part \in Directories /\ EvaluatedAs(tree, part, r)
<1>1. r \in Directories /\ Exists(tree, r) /\ (\A a \in Above(r) \ {r} : ~Kustomized(tree, a))
      /\ r \in Above(r)
  BY DirectoriesAssumption DEF AllRoots
<1>2. CASE Kustomized(tree, r)
  <2>1. part \in Directories /\ r \in Above(part)
    <3> DEFINE below == {x \in Directories : r \in Above(x)}
               t == tree[r].takesIn
    <3>1. t \in Seq(below) /\ r \in below
      <4>1. t \in Seq(Directories) /\ \A x \in Range(t) : r \in Above(x)
        BY <1>1 DEF IsTree, TakesInBelow
      <4> HIDE DEF t
      <4>2. \A i \in 1..Len(t) : t[i] \in below
        BY <4>1 DEF Range
      <4> HIDE DEF below
      <4>3. t \in Seq(below)
        BY <4>1, <4>2
      <4>4. QED
        BY <1>1, <4>3 DEF below
    <3>2. part \in Range(<<r>> \o t)
      BY <1>2 DEF Reads
    <3> HIDE DEF below, t
    <3>3. <<r>> \o t \in Seq(below)
      BY <3>1, ConcatProperties
    <3>4. part \in below
      BY <3>2, <3>3 DEF Range
    <3>5. QED
      BY <3>4 DEF below
  <2>2. QED
    BY <1>2, <2>1, EvaluatedInside
<1>3. CASE ~Kustomized(tree, r)
  <2>1. part = r
    <3>1. Reads(tree, r) = <<r>>
      BY <1>3 DEF Reads
    <3>2. QED
      BY <3>1 DEF Range
  <2>2. QED
    BY <1>1, <1>3, <2>1, EvaluatedAlone
<1>4. QED
  BY <1>2, <1>3

LEMMA RootReadsItself ==
    ASSUME NEW tree, NEW r PROVE r \in Range(Reads(tree, r))
<1>1. CASE Kustomized(tree, r)
  <2>1. Reads(tree, r)[1] = r /\ 1 \in DOMAIN Reads(tree, r)
    BY <1>1 DEF Reads
  <2>2. QED
    BY <2>1 DEF Range
<1>2. CASE ~Kustomized(tree, r)
  <2>1. Reads(tree, r) = <<r>>
    BY <1>2 DEF Reads
  <2>2. QED
    BY <2>1 DEF Range
<1>3. QED
  BY <1>1, <1>2

\* The pull requests that ScopeCarriesTheCost is about.
Orderly(s) ==
    /\ IsTree(s.base) /\ IsTree(s.head)
    /\ \A tree \in {s.base, s.head} : NoneNested(tree) /\ TakesInBelow(tree)
    /\ RootsKept(s.base, s.head)
    /\ s.mergeBase = s.base

Reached(s) == Roots(s.head, ChangedDirs(s))

LEMMA UnreachedUnchanged ==
    ASSUME NEW s, Orderly(s), NEW d \in Directories, NEW root \in Directories,
           EvaluatedAs(s.head, d, root), root \notin Reached(s)
    PROVE  s.head[d] = s.base[d]
  BY DEF Reached, Roots, ChangedDirs, Orderly

\* A root in scope that is none of the head tree's holds nothing there.
LEMMA ReachedOutsideHead ==
    ASSUME NEW s, Orderly(s), NEW r \in Reached(s), r \notin AllRoots(s.head)
    PROVE  ~Exists(s.head, r) \/ (~Kustomized(s.head, r) /\ s.head[r].yaml = <<>>)
<1> SUFFICES ASSUME Exists(s.head, r) PROVE ~Kustomized(s.head, r) /\ s.head[r].yaml = <<>>
  OBVIOUS
<1>1. PICK d \in Directories : EvaluatedAs(s.head, d, r)
  BY DEF Reached, Roots, ChangedDirs
<1>2. r \in Directories /\ NoneNested(s.head)
  BY DEF Reached, Roots, Orderly
<1>3. CASE \A a \in Above(d) : ~Kustomized(s.head, a)
  <2>1. r = d /\ r \in Above(r)
    BY <1>1, <1>2, <1>3, EvaluatedAlone, DirectoriesAssumption
  <2>2. QED
    BY <1>2, <1>3, <2>1 DEF AllRoots
<1>4. CASE \E a \in Above(d) : Kustomized(s.head, a)
  <2>1. Kustomized(s.head, r)
    BY <1>1, <1>2, <1>4, EvaluatedInside
  <2>2. \A a \in Above(r) \ {r} : ~Kustomized(s.head, a)
    BY <1>2, <2>1, DirectoriesAssumption DEF NoneNested
  <2>3. QED
    BY <1>2, <2>1, <2>2 DEF AllRoots
<1>5. QED
  BY <1>3, <1>4

\* A root in scope that is none of the base tree's holds nothing there.
LEMMA ReachedOutsideBase ==
    ASSUME NEW s, Orderly(s), NEW r \in Reached(s), r \notin AllRoots(s.base)
    PROVE  ~Exists(s.base, r) \/ (~Kustomized(s.base, r) /\ s.base[r].yaml = <<>>)
<1> SUFFICES ASSUME Exists(s.base, r) PROVE ~Kustomized(s.base, r) /\ s.base[r].yaml = <<>>
  OBVIOUS
<1>1. PICK d \in Directories : EvaluatedAs(s.head, d, r)
  BY DEF Reached, Roots, ChangedDirs
<1>2. r \in Directories /\ NoneNested(s.head) /\ NoneNested(s.base) /\ RootsKept(s.base, s.head)
  BY DEF Reached, Roots, Orderly
<1>3. ASSUME NEW a \in Above(r) \ {r}, Kustomized(s.base, a) PROVE FALSE
  <2>1. a \in Directories /\ a \in Above(r)
    BY <1>2, DirectoriesAssumption
  <2>2. EvaluatedAs(s.base, r, a)
    BY <1>2, <1>3, <2>1, EvaluatedInside
  <2>3. EvaluatedAs(s.head, r, a)
    BY <1>2, <2>1, <2>2 DEF RootsKept
  <2>4. Kustomized(s.head, a)
    <3>1. CASE \A b \in Above(r) : ~Kustomized(s.head, b)
      BY <1>3, <2>3, <3>1, EvaluatedAlone
    <3>2. CASE \E b \in Above(r) : Kustomized(s.head, b)
      BY <1>2, <2>3, <3>2, EvaluatedInside
    <3>3. QED
      BY <3>1, <3>2
  <2>5. ~Kustomized(s.head, r)
    BY <1>2, <1>3, <2>1, <2>4 DEF NoneNested
  <2>6. CASE \A b \in Above(d) : ~Kustomized(s.head, b)
    <3>1. r = d
      BY <1>1, <2>6, EvaluatedAlone
    <3>2. QED
      BY <2>1, <2>4, <2>6, <3>1
  <2>7. CASE \E b \in Above(d) : Kustomized(s.head, b)
    BY <1>1, <1>2, <2>5, <2>7, EvaluatedInside
  <2>8. QED
    BY <2>6, <2>7
<1>4. QED
  BY <1>2, <1>3 DEF AllRoots

\* The roots out of scope are those of both trees, and hold the same.
LEMMA UnreachedHead ==
    ASSUME NEW s, Orderly(s), NEW r \in AllRoots(s.head), r \notin Reached(s)
    PROVE  r \in AllRoots(s.base) /\ Objects(s.head, r) = Objects(s.base, r)
<1>1. /\ r \in Directories /\ Exists(s.head, r) /\ r \in Above(r) /\ Above(r) \subseteq Directories
      /\ Kustomized(s.head, r) \/ s.head[r].yaml # <<>>
  BY DirectoriesAssumption DEF AllRoots
<1>2. /\ NoneNested(s.head) /\ NoneNested(s.base) /\ RootsKept(s.base, s.head)
      /\ IsTree(s.head) /\ TakesInBelow(s.head)
  BY DEF Orderly
<1>3. \A part \in Range(Reads(s.head, r)) :
          part \in Directories /\ EvaluatedAs(s.head, part, r) /\ s.head[part] = s.base[part]
  BY <1>1, <1>2, RootEvaluatedAsItself, UnreachedUnchanged
<1>4. s.head[r] = s.base[r] /\ EvaluatedAs(s.head, r, r)
  BY <1>3, RootReadsItself
<1>5. /\ Exists(s.base, r) /\ (Kustomized(s.base, r) <=> Kustomized(s.head, r))
      /\ Reads(s.base, r) = Reads(s.head, r)
  BY <1>1, <1>4 DEF Exists, Kustomized, Reads
<1>6. EvaluatedAs(s.base, r, r)
  BY <1>1, <1>2, <1>4, <1>5 DEF RootsKept
<1>7. \A a \in Above(r) \ {r} : ~Kustomized(s.base, a)
  BY <1>1, <1>2, <1>6, EvaluatedInside
<1>8. r \in AllRoots(s.base)
  BY <1>1, <1>4, <1>5, <1>7 DEF AllRoots
<1>9. Objects(s.head, r) = Objects(s.base, r)
  <2> DEFINE parts == Reads(s.head, r)
  <2>1. \A i \in DOMAIN parts : s.head[parts[i]].yaml = s.base[parts[i]].yaml
    BY <1>3 DEF Range
  <2>2. [i \in DOMAIN parts |-> s.head[parts[i]].yaml] = [i \in DOMAIN parts |-> s.base[parts[i]].yaml]
    BY <2>1
  <2>3. QED
    BY <1>1, <1>5, <2>2 DEF Objects
<1>10. QED
  BY <1>8, <1>9

LEMMA UnreachedBase ==
    ASSUME NEW s, Orderly(s), NEW r \in AllRoots(s.base), r \notin Reached(s)
    PROVE  r \in AllRoots(s.head)
<1>1. /\ r \in Directories /\ Exists(s.base, r) /\ r \in Above(r) /\ Above(r) \subseteq Directories
      /\ Kustomized(s.base, r) \/ s.base[r].yaml # <<>>
  BY DirectoriesAssumption DEF AllRoots
<1>2. /\ NoneNested(s.head) /\ NoneNested(s.base) /\ RootsKept(s.base, s.head)
      /\ IsTree(s.base) /\ TakesInBelow(s.base)
  BY DEF Orderly
<1>3. EvaluatedAs(s.base, r, r)
  BY <1>2, RootReadsItself, RootEvaluatedAsItself
<1>4. EvaluatedAs(s.head, r, r)
  BY <1>1, <1>2, <1>3 DEF RootsKept
<1>5. s.head[r] = s.base[r]
  BY <1>1, <1>4, UnreachedUnchanged
<1>6. Exists(s.head, r) /\ (Kustomized(s.base, r) <=> Kustomized(s.head, r))
  BY <1>1, <1>5 DEF Exists, Kustomized
<1>7. \A a \in Above(r) \ {r} : ~Kustomized(s.head, a)
  BY <1>1, <1>2, <1>4, EvaluatedInside
<1>8. QED
  BY <1>1, <1>5, <1>6, <1>7 DEF AllRoots
--------------------------------------------------------------------------------
\* Over the roots in scope and over all the roots of the two trees the prices
\* differ by the same amount.
LEMMA ScopeDifference ==
    ASSUME NEW s \in Scenarios, Orderly(s), Comparable(s), \A r \in InScope(s) : Evaluable(s, r)
    PROVE  Merged(s.headTable, s.head, InScope(s)).monthly
               - Merged(BaseTable(s), s.base, InScope(s)).monthly = Repriced(s)
<1> DEFINE I == InScope(s)
           H == AllRoots(s.head)
           B == AllRoots(s.base)
           hp(r) == RootEstimate(s.headTable, s.head, r).monthly
           bp(r) == RootEstimate(BaseTable(s), s.base, r).monthly
           c == [r \in Directories |-> IF r \in I \cup H THEN hp(r) ELSE 0]
           d == [r \in Directories |-> IF r \in I \cup B THEN bp(r) ELSE 0]
<1>1. /\ ReadTable(Int, s.headTable) /\ ReadTable(Int, BaseTable(s)) /\ NodeCount \in Int
      /\ IsTree(s.head) /\ IsTree(s.base)
  BY ScenariosAssumption
<1>2. I = Reached(s) /\ ~RatesChanged(BaseTable(s), s.headTable)
  BY DEF Comparable, InScope, Reached
<1>3. I \subseteq Directories /\ H \subseteq Directories /\ B \subseteq Directories
  BY ScopeIsRoots DEF AllRoots
<1>4. \A r \in I \cup H : hp(r) \in Int
  BY <1>1, <1>3, RootPriced DEF Comparable, Evaluable
<1>5. \A r \in I \cup B : bp(r) \in Int
  BY <1>1, <1>3, RootPriced DEF Comparable, Evaluable
<1>6. c \in [Directories -> Int] /\ d \in [Directories -> Int]
  <2> HIDE DEF hp, bp, I, H, B
  <2> QED
    BY <1>4, <1>5
<1>7. \A r \in I \ H : c[r] = 0
  <2>1. \A r \in I \ H : hp(r) = 0
    BY <1>2, ReachedOutsideHead, NothingCostsNothing
  <2> HIDE DEF hp, I, H, B
  <2>2. QED
    BY <1>3, <2>1
<1>8. \A r \in I \ B : d[r] = 0
  <2>1. \A r \in I \ B : bp(r) = 0
    BY <1>2, ReachedOutsideBase, NothingCostsNothing
  <2> HIDE DEF bp, I, H, B
  <2>2. QED
    BY <1>3, <2>1
<1>9. H \ I = B \ I
  BY <1>2, UnreachedHead, UnreachedBase
<1>10. \A r \in H \ I : c[r] = d[r]
  <2>1. \A r \in H \ I : hp(r) = bp(r)
    BY <1>2, UnreachedHead, SameTablesSameEstimate DEF RootEstimate
  <2> HIDE DEF hp, bp, I, H, B
  <2>2. QED
    BY <1>3, <1>9, <2>1
<1>11. /\ \A r \in I : c[r] = hp(r) /\ d[r] = bp(r)
       /\ \A r \in H : c[r] = hp(r)
       /\ \A r \in B : d[r] = bp(r)
  <2> HIDE DEF hp, bp, I, H, B
  <2> QED
    BY <1>3
<1>12. IsFiniteSet(Directories)
  BY DirectoriesAssumption
<1> HIDE DEF c, d
<1>13. PICK g : IsSum(g, c, Directories)
  BY <1>6, <1>12, SumExists
<1>14. PICK h : IsSum(h, d, Directories)
  BY <1>6, <1>12, SumExists
<1>15. Merged(s.headTable, s.head, I).monthly = g[I] /\ Merged(s.headTable, s.head, H).monthly = g[H]
  <2> HIDE DEF I, H
  <2> QED
    BY <1>3, <1>11, <1>12, <1>13, MergedIsTheSum
<1>16. Merged(BaseTable(s), s.base, I).monthly = h[I] /\ Merged(BaseTable(s), s.base, B).monthly = h[B]
  <2> HIDE DEF I, B
  <2> QED
    BY <1>3, <1>11, <1>12, <1>14, MergedIsTheSum
<1>17. g[I] - h[I] = g[H] - h[B]
  <2> HIDE DEF I, H, B
  <2> QED
    BY <1>3, <1>6, <1>7, <1>8, <1>9, <1>10, <1>12, <1>13, <1>14, SameDifference
<1>18. QED
  BY <1>15, <1>16, <1>17 DEF Repriced

\* The gate need not price the whole estate twice: for every layout of
\* kustomizations and plain directories that keeps each file in its root, the
\* roots it picks carry exactly the cost of the change.
THEOREM ScopeSuffices == Spec => []ScopeCarriesTheCost
<1>1. Ind => ScopeCarriesTheCost
  <2> SUFFICES ASSUME Ind, RootsKept(sc.base, sc.head),
                      \A tree \in {sc.base, sc.head} : NoneNested(tree) /\ TakesInBelow(tree),
                      exit \in {ExitPass, ExitFail}, ChangedDirs(sc) # {}, Comparable(sc)
               PROVE  DeltaOf(sc, baseMerged, headMerged, estate).total = Repriced(sc)
    BY DEF ScopeCarriesTheCost, JudgedOnWholeDifference
  <2>1. sc \in Scenarios
    BY DEF Ind, TypeOK
  <2>2. decision # "none" /\ decision # "inconclusive"
    BY DEF Ind
  <2>3. JudgedInv
    BY <2>2 DEF Ind
  <2>4. costErrors = {}
    BY <2>2, <2>3, DecidedWithoutErrors DEF JudgedInv
  <2>5. /\ \A r \in InScope(sc) : Evaluable(sc, r)
        /\ headMerged = InScope(sc) /\ baseMerged = InScope(sc)
    BY <2>3, <2>4, WholeEstimates
  <2>6. Orderly(sc)
    BY <2>1, ScenariosAssumption DEF Orderly, Comparable
  <2>7. Merged(sc.headTable, sc.head, InScope(sc)).monthly
            - Merged(BaseTable(sc), sc.base, InScope(sc)).monthly = Repriced(sc)
    BY <2>1, <2>5, <2>6, ScopeDifference
  <2>8. QED
    BY <2>5, <2>7 DEF DeltaOf, Compare
<1>2. QED
  BY <1>1, SpecInd, PTL
================================================================================
