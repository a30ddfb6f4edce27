----------------------------- MODULE DashboardProofs -----------------------------
(***************************************************************************)
(* Proofs about the dashboard, for any number of requests and processes,   *)
(* any limits, any deadlines and any bounds of the workers.                *)
(***************************************************************************)
EXTENDS Dashboard, TLAPS

\* A request is with a process exactly while its handler runs, and its error is
\* set only when the demonstration has returned.
Served ==
    \A r \in Requests :
        /\ Active(r) <=> by[r] \in Processes
        /\ Active(r) <=> by[r] # NoProcess
        /\ err[r] = "none" <=> at[r] # "returned"

\* What a demonstration takes for the limit of Git, and since when it counts.
Declares ==
    \A r \in Requests :
        /\ at[r] \in {"patch", "confirm", "watch"} => declared[r] # NoLimit
        /\ since[r] # {} => at[r] \in {"confirm", "watch", "returned"} /\ declared[r] # NoLimit
        /\ at[r] \notin {"patch", "confirm", "watch", "returned"} => declared[r] = NoLimit

\* While a demonstration waits for the revert, it has missed nothing.
Follows ==
    \A r \in Requests : at[r] \in {"confirm", "watch"} =>
        /\ {Drifted, live} \subseteq since[r]
        /\ since[r] \subseteq {Drifted, declared[r]} /\ since[r] # {Drifted} => live = declared[r]

DriftVerdicts == DriftPassIsReal /\ ConfirmFailsOnlyAfterRevert /\ SelfHealBlamedRightly

Ind ==
    /\ TypeOK /\ LockMatchesHandler /\ Served
    /\ Declares /\ Follows /\ DriftVerdicts /\ LoadPassIsReal

--------------------------------------------------------------------------------
(* A step of a handler moves it to another place, and does nothing else to the *)
(* server but count polls and tell the reviewer.                               *)

DriftPlaces == {"declared", "patch", "confirm", "watch"}
LoadPlaces == {"bounds", "start", "enqueue", "scale", "scale depth", "drain", "drain depth"}

Moved(r, place, e) ==
    /\ at[r] \in DriftPlaces \cup LoadPlaces
    /\ place \in DriftPlaces \cup LoadPlaces \cup {"returned"}
    /\ e \in Errors /\ (e = "none" <=> place # "returned")
    /\ at' = [at EXCEPT ![r] = place]
    /\ err' = [err EXCEPT ![r] = e]
    /\ told' \in [Requests -> {"nothing", "outcome", "gone", "cut"}]
    /\ \E n \in Nat : polls' = [polls EXCEPT ![r] = n] /\ n < Patience(r)
    /\ UNCHANGED <<up, running, by>>

LEMMA ProceedMoves ==
    ASSUME Ind, NEW r \in Requests, NEW place \in DriftPlaces \cup LoadPlaces,
           at[r] \in DriftPlaces \cup LoadPlaces, Proceed(r, place)
    PROVE  Moved(r, place, "none")
<1> USE DriftAssumption, LoadAssumption
<1>1. err' = [err EXCEPT ![r] = "none"]
  BY DEF Ind, TypeOK, ServerTypeOK, Served, Proceed, DriftPlaces, LoadPlaces
<1>2. 0 \in Nat /\ 0 < Patience(r)
  BY DEF Patience
<1>3. QED
  BY <1>1, <1>2 DEF Ind, TypeOK, ServerTypeOK, Proceed, Goto, Moved, Errors, DriftPlaces, LoadPlaces

LEMMA FailMoves ==
    ASSUME Ind, NEW r \in Requests, NEW why \in Errors \ {"none"},
           at[r] \in DriftPlaces \cup LoadPlaces, Fail(r, why)
    PROVE  Moved(r, "returned", why)
<1>1. polls[r] \in Nat /\ polls[r] < Patience(r) /\ polls' = [polls EXCEPT ![r] = polls[r]]
  BY DEF Ind, TypeOK, ServerTypeOK, WithinPatience, Fail
<1>2. QED
  BY <1>1 DEF Ind, TypeOK, ServerTypeOK, Fail, Goto, Moved

LEMMA PassMoves ==
    ASSUME Ind, NEW r \in Requests, at[r] \in DriftPlaces \cup LoadPlaces, Pass(r)
    PROVE  Moved(r, "returned", "nil")
<1>1. polls[r] \in Nat /\ polls[r] < Patience(r) /\ polls' = [polls EXCEPT ![r] = polls[r]]
  BY DEF Ind, TypeOK, ServerTypeOK, WithinPatience, Pass
<1>2. told' \in [Requests -> {"nothing", "outcome", "gone", "cut"}]
  BY DEF Ind, TypeOK, ServerTypeOK, Pass, Tell
<1>3. QED
  BY <1>1, <1>2 DEF Pass, Goto, Moved, Errors

LEMMA PollAgainMoves ==
    ASSUME Ind, NEW r \in Requests, NEW place \in DriftPlaces \cup LoadPlaces,
           NEW why \in Errors \ {"none"},
           at[r] \in DriftPlaces \cup LoadPlaces, PollAgain(r, place, Patience(r), why)
    PROVE  Moved(r, place, "none") \/ Moved(r, "returned", why)
<1>1. polls[r] \in Nat /\ Patience(r) \in Nat
  BY DriftAssumption, LoadAssumption DEF Ind, TypeOK, ServerTypeOK, Patience
<1>2. CASE polls[r] + 1 >= Patience(r)
  BY <1>2, FailMoves DEF PollAgain
<1>3. CASE ~(polls[r] + 1 >= Patience(r))
  <2>1. polls[r] + 1 \in Nat /\ polls[r] + 1 < Patience(r)
    BY <1>1, <1>3
  <2>2. err' = [err EXCEPT ![r] = "none"]
    BY <1>3 DEF Ind, TypeOK, ServerTypeOK, Served, PollAgain, DriftPlaces, LoadPlaces
  <2>3. QED
    BY <1>3, <2>1, <2>2
       DEF Ind, TypeOK, ServerTypeOK, PollAgain, Goto, Moved, Errors, DriftPlaces, LoadPlaces
<1>4. QED
  BY <1>2, <1>3

\* The lock stands and falls with running and by.
LEMMA LockKept == LockMatchesHandler /\ UNCHANGED <<running, by>> => LockMatchesHandler'
BY DEF LockMatchesHandler

LEMMA ServedKept == Served /\ UNCHANGED <<at, by, err>> => Served'
BY DEF Served, Active

LEMMA MovedServer ==
    ASSUME Ind, NEW r \in Requests, NEW place, NEW e, Moved(r, place, e)
    PROVE  /\ ServerTypeOK' /\ LockMatchesHandler' /\ Served'
           /\ declared' = declared => WithinPatience'
<1>1. LockMatchesHandler'
  BY LockKept DEF Ind, Moved
<1>2. ServerTypeOK'
  BY DEF Ind, TypeOK, ServerTypeOK, Moved, Places, DriftPlaces, LoadPlaces
<1>3. Served'
  BY DEF Ind, TypeOK, ServerTypeOK, Moved, Served, Active, Idle, DriftPlaces, LoadPlaces
<1>4. ASSUME declared' = declared PROVE WithinPatience'
  BY <1>4 DEF Ind, TypeOK, ServerTypeOK, WithinPatience, Moved, Patience
<1>5. QED
  BY <1>1, <1>2, <1>3, <1>4

--------------------------------------------------------------------------------
(* The load demonstration leaves the limits alone. *)

LEMMA LoadMoves ==
    ASSUME Ind, NEW r \in Requests, at[r] \in LoadPlaces,
           NEW place \in LoadPlaces \cup {"returned"}, NEW e \in {"none", "nil", "failed"},
           Moved(r, place, e), LoadTypeOK', LoadPassIsReal', UNCHANGED driftVars
    PROVE  Ind'
<1>1. DriftTypeOK'
  BY DEF Ind, TypeOK, DriftTypeOK, driftVars
<1>2. TypeOK'
  BY <1>1, MovedServer DEF TypeOK, driftVars
<1>3. declared[r] = NoLimit /\ since[r] = {}
  BY DEF Ind, Declares, LoadPlaces
<1>4. Declares'
  BY <1>3 DEF Ind, TypeOK, ServerTypeOK, Declares, Moved, driftVars, LoadPlaces
<1>5. Follows'
  BY <1>3 DEF Ind, TypeOK, ServerTypeOK, Follows, Moved, driftVars, LoadPlaces
<1>6. DriftPassIsReal'
  BY <1>3 DEF Ind, TypeOK, ServerTypeOK, DriftVerdicts, DriftPassIsReal, Moved, driftVars
<1>7. ConfirmFailsOnlyAfterRevert'
  BY DEF Ind, TypeOK, ServerTypeOK, DriftVerdicts, ConfirmFailsOnlyAfterRevert, Moved, driftVars
<1>8. SelfHealBlamedRightly'
  BY DEF Ind, TypeOK, ServerTypeOK, DriftVerdicts, SelfHealBlamedRightly, Moved, driftVars
<1>9. QED
  BY <1>2, <1>4, <1>5, <1>6, <1>7, <1>8, MovedServer DEF Ind, DriftVerdicts

\* As long as no demonstration passes, the jobs do not matter.
LEMMA NoPassYet ==
    ASSUME Ind, NEW r \in Requests, NEW place, NEW e, Moved(r, place, e), e # "nil",
           UNCHANGED declared, backlog' \subseteq backlog \cup {r}
    PROVE  LoadPassIsReal'
BY DEF Ind, TypeOK, ServerTypeOK, LoadPassIsReal, Moved

LEMMA LoadCallFailsInd ==
    ASSUME Ind, NEW r \in Requests, LoadCallFails(r), UNCHANGED driftVars
    PROVE  Ind'
<1>1. at[r] \in LoadPlaces /\ Moved(r, "returned", "failed")
  BY FailMoves DEF LoadCallFails, LoadPlaces, Errors
<1>2. LoadTypeOK' /\ backlog' \subseteq backlog \cup {r}
  BY DEF Ind, TypeOK, LoadTypeOK, LoadCallFails, loadVars
<1>3. LoadPassIsReal'
  BY <1>1, <1>2, NoPassYet DEF driftVars
<1>4. QED
  BY <1>1, <1>2, <1>3, LoadMoves

LEMMA ReadBoundsInd ==
    ASSUME Ind, NEW r \in Requests, ReadBounds(r), UNCHANGED driftVars
    PROVE  Ind'
<1>1. at[r] \in LoadPlaces /\ Moved(r, "start", "none")
  BY ProceedMoves DEF ReadBounds, LoadPlaces
<1>2. LoadTypeOK' /\ backlog' \subseteq backlog \cup {r}
  BY DEF Ind, TypeOK, LoadTypeOK, ReadBounds, loadVars
<1>3. LoadPassIsReal'
  BY <1>1, <1>2, NoPassYet DEF driftVars
<1>4. QED
  BY <1>1, <1>2, <1>3, LoadMoves DEF LoadPlaces

LEMMA ReadStartInd ==
    ASSUME Ind, NEW r \in Requests, NEW n \in ReplicaCounts, ReadStart(r, n), UNCHANGED driftVars
    PROVE  Ind'
<1>1. at[r] \in LoadPlaces /\ Moved(r, "enqueue", "none")
  BY ProceedMoves DEF ReadStart, LoadPlaces
<1>2. LoadTypeOK' /\ backlog' \subseteq backlog \cup {r}
  BY DEF Ind, TypeOK, LoadTypeOK, ReadStart
<1>3. LoadPassIsReal'
  BY <1>1, <1>2, NoPassYet DEF driftVars
<1>4. QED
  BY <1>1, <1>2, <1>3, LoadMoves DEF LoadPlaces

LEMMA EnqueueInd ==
    ASSUME Ind, NEW r \in Requests, Enqueue(r), UNCHANGED driftVars
    PROVE  Ind'
<1>1. at[r] \in LoadPlaces /\ Moved(r, "scale", "none")
  BY ProceedMoves DEF Enqueue, LoadPlaces
<1>2. LoadTypeOK' /\ backlog' \subseteq backlog \cup {r}
  BY DEF Ind, TypeOK, LoadTypeOK, Enqueue
<1>3. LoadPassIsReal'
  BY <1>1, <1>2, NoPassYet DEF driftVars
<1>4. QED
  BY <1>1, <1>2, <1>3, LoadMoves DEF LoadPlaces

LEMMA EnqueueFailsInd ==
    ASSUME Ind, NEW r \in Requests, EnqueueFails(r), UNCHANGED driftVars
    PROVE  Ind'
<1>1. at[r] \in LoadPlaces /\ Moved(r, "returned", "failed")
  BY FailMoves DEF EnqueueFails, LoadPlaces, Errors
<1>2. LoadTypeOK' /\ backlog' \subseteq backlog \cup {r}
  BY DEF Ind, TypeOK, LoadTypeOK, EnqueueFails
<1>3. LoadPassIsReal'
  BY <1>1, <1>2, NoPassYet DEF driftVars
<1>4. QED
  BY <1>1, <1>2, <1>3, LoadMoves

LEMMA PollReplicasInd ==
    ASSUME Ind, NEW r \in Requests, NEW n \in ReplicaCounts, PollReplicas(r, n),
           UNCHANGED driftVars
    PROVE  Ind'
<1>1. at[r] \in {"scale", "drain"} /\ at[r] \in LoadPlaces
  BY DEF PollReplicas, LoadPlaces
<1>2. LoadTypeOK' /\ backlog' \subseteq backlog \cup {r}
  BY DEF Ind, TypeOK, LoadTypeOK, PollReplicas, ReplicaCounts
<1>3. CASE n \in MinReplicas..MaxReplicas
  <2>1. polls[r] \in Nat /\ polls[r] < Patience(r) /\ polls' = [polls EXCEPT ![r] = polls[r]]
    BY <1>3 DEF Ind, TypeOK, ServerTypeOK, WithinPatience, PollReplicas
  <2>2. err' = [err EXCEPT ![r] = "none"]
    BY <1>1, <1>3 DEF Ind, TypeOK, ServerTypeOK, Served, PollReplicas
  <2>3. PICK place \in LoadPlaces : at' = [at EXCEPT ![r] = place]
    <3>1. DepthStep["scale"] = "scale depth" /\ DepthStep["drain"] = "drain depth"
      BY DEF DepthStep
    <3>2. at' = [at EXCEPT ![r] = DepthStep[at[r]]]
      BY <1>3 DEF PollReplicas, Goto
    <3>3. DepthStep[at[r]] \in LoadPlaces
      BY <1>1, <3>1 DEF LoadPlaces
    <3>4. QED
      BY <3>2, <3>3
  <2>4. Moved(r, place, "none")
    BY <1>1, <1>3, <2>1, <2>2, <2>3
       DEF Ind, TypeOK, ServerTypeOK, PollReplicas, Moved, Errors, DriftPlaces, LoadPlaces
  <2>5. LoadPassIsReal'
    BY <1>2, <2>4, NoPassYet DEF driftVars
  <2>6. QED
    BY <1>1, <1>2, <2>4, <2>5, LoadMoves
<1>4. CASE n \notin MinReplicas..MaxReplicas
  <2>1. Moved(r, "returned", "failed")
    BY <1>1, <1>4, FailMoves DEF PollReplicas, Errors
  <2>2. LoadPassIsReal'
    BY <1>2, <2>1, NoPassYet DEF driftVars
  <2>3. QED
    BY <1>1, <1>2, <2>1, <2>2, LoadMoves
<1>5. QED
  BY <1>3, <1>4

LEMMA PollDepthInd ==
    ASSUME Ind, NEW r \in Requests, NEW known \in BOOLEAN, PollDepth(r, known),
           UNCHANGED driftVars
    PROVE  Ind'
<1>1. at[r] \in {"scale depth", "drain depth"} /\ at[r] \in LoadPlaces
  BY DEF PollDepth, LoadPlaces
<1>2. LoadTypeOK' /\ backlog' \subseteq backlog \cup {r}
  <2>1. 0 \in ReplicaCounts
    BY LoadAssumption DEF ReplicaCounts
  <2>2. start' \in [Requests -> ReplicaCounts]
    BY <2>1 DEF Ind, TypeOK, LoadTypeOK, PollDepth
  <2>3. QED
    BY <2>2 DEF Ind, TypeOK, LoadTypeOK, PollDepth
<1>3. LoadPatience = Patience(r)
  BY <1>1 DEF Ind, Declares, Patience
<1>4. ASSUME NEW place \in LoadPlaces, PollAgain(r, place, Patience(r), "failed")
      PROVE  Ind'
  <2>1. Moved(r, place, "none") \/ Moved(r, "returned", "failed")
    BY <1>1, <1>4, PollAgainMoves DEF Errors
  <2>2. LoadPassIsReal'
    BY <1>2, <2>1, NoPassYet DEF driftVars
  <2>3. QED
    BY <1>1, <1>2, <2>1, <2>2, LoadMoves
<1>5. CASE at[r] = "scale depth" /\ Scaled(r, known)
  <2>1. Moved(r, "drain", "none")
    BY <1>1, <1>5, ProceedMoves DEF PollDepth, LoadPlaces
  <2>2. LoadPassIsReal'
    BY <1>2, <2>1, NoPassYet DEF driftVars
  <2>3. QED
    BY <1>1, <1>2, <2>1, <2>2, LoadMoves DEF LoadPlaces
<1>6. CASE at[r] = "drain depth" /\ Drained(r, known)
  <2>1. Moved(r, "returned", "nil")
    BY <1>1, <1>6, PassMoves DEF PollDepth
  <2>2. backlog' = {}
    BY <1>6 DEF PollDepth, Drained
  <2>3. LoadPassIsReal'
    BY <2>2 DEF LoadPassIsReal
  <2>4. QED
    BY <1>1, <1>2, <2>1, <2>3, LoadMoves
<1>7. CASE at[r] = "scale depth" /\ ~Scaled(r, known)
  BY <1>3, <1>4, <1>7 DEF PollDepth, LoadPlaces
<1>8. CASE at[r] = "drain depth" /\ ~Drained(r, known)
  BY <1>3, <1>4, <1>8 DEF PollDepth, LoadPlaces
<1>9. QED
  BY <1>1, <1>5, <1>6, <1>7, <1>8

--------------------------------------------------------------------------------
(* The drift demonstration leaves the jobs alone. *)

LEMMA DriftMoves ==
    ASSUME Ind, NEW r \in Requests, at[r] \in DriftPlaces,
           NEW place \in DriftPlaces \cup {"returned"}, NEW e \in Errors,
           Moved(r, place, e), e = "nil" => declared'[r] # NoLimit,
           \A q \in Requests \ {r} : declared'[q] = declared[q],
           DriftTypeOK', WithinPatience', Declares', Follows', DriftVerdicts', UNCHANGED loadVars
    PROVE  Ind'
<1>1. LoadTypeOK'
  BY DEF Ind, TypeOK, LoadTypeOK, loadVars
<1>2. TypeOK'
  BY <1>1, MovedServer DEF TypeOK
<1>3. LoadPassIsReal'
  BY DEF Ind, TypeOK, ServerTypeOK, LoadPassIsReal, Moved, loadVars
<1>4. QED
  BY <1>2, <1>3, MovedServer DEF Ind

\* A step that only reads.
LEMMA DriftReads ==
    ASSUME Ind, NEW r \in Requests, at[r] \in DriftPlaces,
           NEW place \in {"watch", "returned"}, NEW e \in Errors,
           Moved(r, place, e), UNCHANGED driftVars, UNCHANGED loadVars,
           place = "watch" => at[r] \in {"confirm", "watch"},
           e = "nil" => at[r] = "watch" /\ live = declared[r],
           e = "did not apply" => at[r] = "confirm" /\ live # Drifted,
           e = "survived" => at[r] = "watch" /\ live # declared[r]
    PROVE  Ind'
<1>1. DriftTypeOK' /\ WithinPatience'
  BY MovedServer DEF Ind, TypeOK, DriftTypeOK, driftVars
<1>2. Declares'
  BY DEF Ind, TypeOK, ServerTypeOK, Declares, Moved, driftVars, DriftPlaces
<1>3. Follows'
  BY DEF Ind, TypeOK, ServerTypeOK, Follows, Moved, driftVars
<1>4. live \in Limits \cup {Drifted} /\ (declared[r] # NoLimit => declared[r] \in Limits)
  BY DEF Ind, TypeOK, DriftTypeOK
<1>5. e \in {"nil", "did not apply", "survived"} =>
          Drifted \in since[r] /\ live \in since[r] /\ declared[r] # NoLimit
  BY DEF Ind, Follows, Declares
<1>6. DriftPassIsReal'
  BY <1>4, <1>5, DriftAssumption
     DEF Ind, TypeOK, ServerTypeOK, DriftVerdicts, DriftPassIsReal, Moved, driftVars
<1>7. ConfirmFailsOnlyAfterRevert'
  BY <1>4, <1>5, DriftAssumption
     DEF Ind, TypeOK, ServerTypeOK, DriftVerdicts, ConfirmFailsOnlyAfterRevert, Moved, driftVars
<1>8. SelfHealBlamedRightly'
  BY DEF Ind, TypeOK, ServerTypeOK, Follows, DriftVerdicts, SelfHealBlamedRightly, Moved, driftVars
<1>9. QED
  BY <1>1, <1>2, <1>3, <1>5, <1>6, <1>7, <1>8, DriftMoves DEF DriftVerdicts, driftVars, DriftPlaces

LEMMA DriftCallFailsInd ==
    ASSUME Ind, NEW r \in Requests, DriftCallFails(r), UNCHANGED loadVars
    PROVE  Ind'
<1>1. at[r] \in DriftPlaces /\ Moved(r, "returned", "failed")
  BY FailMoves DEF DriftCallFails, DriftPlaces, Errors
<1>2. QED
  BY <1>1, DriftReads DEF DriftCallFails, Errors

LEMMA ConfirmInd ==
    ASSUME Ind, NEW r \in Requests, Confirm(r), UNCHANGED loadVars
    PROVE  Ind'
<1>1. at[r] = "confirm" /\ at[r] \in DriftPlaces /\ UNCHANGED driftVars
  BY DEF Confirm, DriftPlaces
<1>2. CASE live = Drifted
  <2>1. Moved(r, "watch", "none")
    BY <1>1, <1>2, ProceedMoves DEF Confirm, DriftPlaces
  <2>2. QED
    BY <1>1, <2>1, DriftReads DEF Errors
<1>3. CASE live # Drifted
  <2>1. Moved(r, "returned", "did not apply")
    BY <1>1, <1>3, FailMoves DEF Confirm, Errors
  <2>2. QED
    BY <1>1, <1>3, <2>1, DriftReads DEF Errors
<1>4. QED
  BY <1>2, <1>3

LEMMA WatchInd ==
    ASSUME Ind, NEW r \in Requests, Watch(r), UNCHANGED loadVars
    PROVE  Ind'
<1>1. at[r] = "watch" /\ at[r] \in DriftPlaces /\ UNCHANGED driftVars
  BY DEF Watch, DriftPlaces
<1>2. CASE live = declared[r]
  <2>1. Moved(r, "returned", "nil")
    BY <1>1, <1>2, PassMoves DEF Watch
  <2>2. QED
    BY <1>1, <1>2, <2>1, DriftReads DEF Errors
<1>3. CASE live # declared[r]
  <2>1. PollAgain(r, "watch", Patience(r), "survived")
    BY <1>1, <1>3 DEF Watch, Ind, Declares, Patience
  <2>2. Moved(r, "watch", "none") \/ Moved(r, "returned", "survived")
    BY <1>1, <2>1, PollAgainMoves DEF Errors, DriftPlaces
  <2>3. QED
    BY <1>1, <1>3, <2>2, DriftReads DEF Errors
<1>4. QED
  BY <1>2, <1>3

LEMMA ReadDeclaredInd ==
    ASSUME Ind, NEW r \in Requests, ReadDeclared(r), UNCHANGED loadVars
    PROVE  Ind'
<1>1. at[r] = "declared" /\ at[r] \in DriftPlaces
  BY DEF ReadDeclared, DriftPlaces
<1>2. CASE live = Drifted
  <2>1. Fail(r, "failed") /\ UNCHANGED driftVars
    BY <1>2 DEF ReadDeclared, WorthPatching, driftVars
  <2>2. QED
    BY <1>1, <2>1, FailMoves, DriftReads DEF Errors
<1>3. CASE live # Drifted
  <2>1. /\ declared' = [declared EXCEPT ![r] = live] /\ Proceed(r, "patch")
        /\ UNCHANGED <<live, since>>
    BY <1>3 DEF ReadDeclared, WorthPatching
  <2>2. Moved(r, "patch", "none")
    BY <1>1, <2>1, ProceedMoves DEF DriftPlaces
  <2>3. DriftTypeOK' /\ live # NoLimit /\ declared'[r] = live
    BY <1>3, <2>1, DriftAssumption DEF Ind, TypeOK, DriftTypeOK
  <2>4. WithinPatience'
    <3>1. polls'[r] = 0 /\ 0 < Patience(r)'
      <4>1. polls'[r] = 0
        BY <2>1 DEF Proceed, Ind, TypeOK, ServerTypeOK
      <4>2. Patience(r)' \in {LoadPatience, DriftPatience}
        BY DEF Patience
      <4>3. QED
        BY <4>1, <4>2, DriftAssumption, LoadAssumption
    <3>2. ASSUME NEW q \in Requests \ {r} PROVE polls'[q] < Patience(q)'
      BY <2>1 DEF Ind, TypeOK, ServerTypeOK, DriftTypeOK, WithinPatience, Proceed, Patience
    <3>3. QED
      BY <3>1, <3>2 DEF WithinPatience
  <2>5. Declares'
    BY <1>1, <2>1, <2>2, <2>3
       DEF Ind, TypeOK, ServerTypeOK, DriftTypeOK, Declares, Moved
  <2>6. Follows'
    BY <2>1, <2>2, <2>3 DEF Ind, TypeOK, ServerTypeOK, DriftTypeOK, Follows, Moved
  <2>7. DriftPassIsReal'
    BY <2>1, <2>2 DEF Ind, TypeOK, ServerTypeOK, DriftTypeOK, DriftVerdicts, DriftPassIsReal, Moved
  <2>8. ConfirmFailsOnlyAfterRevert'
    BY <2>1, <2>2
       DEF Ind, TypeOK, ServerTypeOK, DriftVerdicts, ConfirmFailsOnlyAfterRevert, Moved
  <2>9. SelfHealBlamedRightly'
    BY <2>1, <2>2
       DEF Ind, TypeOK, ServerTypeOK, DriftTypeOK, DriftVerdicts, SelfHealBlamedRightly, Moved
  <2>10. \A q \in Requests \ {r} : declared'[q] = declared[q]
    BY <2>1 DEF Ind, TypeOK, DriftTypeOK
  <2>11. QED
    BY <1>1, <2>2, <2>3, <2>4, <2>5, <2>6, <2>7, <2>8, <2>9, <2>10, DriftMoves
       DEF DriftVerdicts, Errors, DriftPlaces
<1>4. QED
  BY <1>2, <1>3

\* The patch is seen by every demonstration that waits for a revert.
LEMMA PatchLandsInd ==
    ASSUME Ind, NEW r \in Requests, at[r] = "patch", PatchLands(r), UNCHANGED loadVars,
           Moved(r, "confirm", "none") \/ Moved(r, "returned", "failed")
    PROVE  Ind'
<1> USE DriftAssumption
<1>1. PICK place \in {"confirm", "returned"}, e \in {"none", "failed"} : Moved(r, place, e)
  OBVIOUS
<1>2. /\ live' = Drifted /\ declared' = declared
      /\ since' = [Witnessed({Drifted, Again}) EXCEPT ![r] = {Drifted}]
  BY DEF PatchLands
<1>3. since'[r] = {Drifted} /\ DriftTypeOK'
  BY <1>2 DEF Ind, TypeOK, DriftTypeOK, Witnessed
<1>4. \A q \in Requests \ {r} :
          since'[q] = IF since[q] # {} /\ err[q] = "none"
                      THEN since[q] \cup {Drifted, Again} ELSE since[q]
  BY <1>2 DEF Witnessed
<1>5. /\ at'[r] = place /\ err'[r] = e
      /\ \A q \in Requests \ {r} : at'[q] = at[q] /\ err'[q] = err[q]
  BY <1>1 DEF Ind, TypeOK, ServerTypeOK, Moved
<1>6. declared[r] \in Limits /\ \A q \in Requests : declared'[q] = declared[q]
  BY <1>2 DEF Ind, TypeOK, DriftTypeOK, Declares
<1>7. Declares'
  BY <1>3, <1>4, <1>5, <1>6 DEF Ind, Declares
<1>8. Follows'
  <2>1. ASSUME NEW q \in Requests \ {r}, at[q] \in {"confirm", "watch"}
        PROVE  /\ {Drifted, live'} \subseteq since'[q]
               /\ ~(since'[q] \subseteq {Drifted, declared[q]})
    <3>1. since[q] # {} /\ err[q] = "none" /\ declared[q] \in Limits
      BY <2>1 DEF Ind, TypeOK, DriftTypeOK, Served, Declares, Follows
    <3>2. since'[q] = since[q] \cup {Drifted, Again}
      BY <1>4, <3>1
    <3>3. Again \in since'[q] /\ Again # Drifted /\ Again # declared[q]
      BY <3>1, <3>2
    <3>4. QED
      BY <1>2, <3>2, <3>3
  <2>2. QED
    BY <1>2, <1>3, <1>5, <1>6, <2>1 DEF Follows
<1>9. DriftPassIsReal'
  BY <1>4, <1>5, <1>6 DEF Ind, DriftVerdicts, DriftPassIsReal
<1>10. ConfirmFailsOnlyAfterRevert'
  BY <1>4, <1>5 DEF Ind, DriftVerdicts, ConfirmFailsOnlyAfterRevert
<1>11. SelfHealBlamedRightly'
  BY <1>4, <1>5, <1>6 DEF Ind, DriftVerdicts, SelfHealBlamedRightly
<1>12. QED
  BY <1>1, <1>2, <1>3, <1>6, <1>7, <1>8, <1>9, <1>10, <1>11, MovedServer, DriftMoves
     DEF DriftVerdicts, Errors, DriftPlaces

LEMMA PatchInd ==
    ASSUME Ind, NEW r \in Requests, Patch(r) \/ PatchAnswerLost(r), UNCHANGED loadVars
    PROVE  Ind'
<1>1. at[r] = "patch" /\ at[r] \in DriftPlaces /\ PatchLands(r)
  BY DEF Patch, PatchAnswerLost, DriftPlaces
<1>2. Moved(r, "confirm", "none") \/ Moved(r, "returned", "failed")
  BY <1>1, ProceedMoves, FailMoves DEF Patch, PatchAnswerLost, DriftPlaces, Errors
<1>3. QED
  BY <1>1, <1>2, PatchLandsInd

--------------------------------------------------------------------------------
(* Steps that end a request: everything the handler held is reset.             *)

LEMMA FinishInd ==
    ASSUME Ind, NEW r \in Requests, Active(r), Finish(r)
    PROVE  Ind'
<1> USE DriftAssumption, LoadAssumption
<1>1. /\ at[r] = "returned" /\ by[r] \in Processes /\ UNCHANGED <<up, live, backlog>>
      /\ running' = [running EXCEPT ![by[r]] = ""]
      /\ at' = [at EXCEPT ![r] = "over"] /\ by' = [by EXCEPT ![r] = NoProcess]
      /\ polls' = [polls EXCEPT ![r] = 0] /\ err' = [err EXCEPT ![r] = "none"]
      /\ told' = told \/ told' = [told EXCEPT ![r] = "outcome"]
      /\ declared' = [q \in Requests |-> IF q \in {r} THEN NoLimit ELSE declared[q]]
      /\ since' = [q \in Requests |-> IF q \in {r} THEN {} ELSE since[q]]
      /\ start' = [q \in Requests |-> IF q \in {r} THEN 0 ELSE start[q]]
      /\ risen' = [q \in Requests |-> q \notin {r} /\ risen[q]]
  BY DEF Ind, Served, Finish, Return, Report, Tell, Goto, ForgetDrift, ForgetLoad
<1>2. ServerTypeOK'
  BY <1>1, NoProcessIsNone DEF Ind, TypeOK, ServerTypeOK, Places, Errors
<1>3. DriftTypeOK'
  BY <1>1 DEF Ind, TypeOK, DriftTypeOK
<1>4. LoadTypeOK'
  <2>1. 0 \in ReplicaCounts
    BY DEF ReplicaCounts
  <2>2. QED
    BY <1>1, <2>1 DEF Ind, TypeOK, LoadTypeOK
<1>5. WithinPatience'
  <2>1. ASSUME NEW q \in Requests PROVE polls'[q] < Patience(q)'
    <3>1. CASE q = r
      <4>1. polls'[q] = 0 /\ declared'[q] = NoLimit
        BY <1>1, <3>1 DEF Ind, TypeOK, ServerTypeOK
      <4>2. QED
        BY <4>1 DEF Patience
    <3>2. CASE ~(q = r)
      BY <1>1, <3>2 DEF Ind, TypeOK, ServerTypeOK, WithinPatience, Patience
    <3>3. QED
      BY <3>1, <3>2
  <2>2. QED
    BY <2>1 DEF WithinPatience
<1>6. LockMatchesHandler'
  <2>1. \A q \in Requests : by'[q] = IF q = r THEN NoProcess ELSE by[q]
    BY <1>1 DEF Ind, TypeOK, ServerTypeOK
  <2>2. \A p \in Processes : running'[p] = IF p = by[r] THEN "" ELSE running[p]
    BY <1>1 DEF Ind, TypeOK, ServerTypeOK
  <2>3. ASSUME NEW p \in Processes
        PROVE  /\ running'[p] = "" <=> ~\E q \in Requests : by'[q] = p
               /\ \A q, t \in Requests : by'[q] = p /\ by'[t] = p => q = t
    <3>1. /\ running[p] = "" <=> ~\E q \in Requests : by[q] = p
          /\ \A q, t \in Requests : by[q] = p /\ by[t] = p => q = t
      BY DEF Ind, LockMatchesHandler
    <3>2. CASE p = by[r]
      BY <2>1, <2>2, <3>1, <3>2, NoProcessIsNone
    <3>3. CASE p # by[r]
      BY <2>1, <2>2, <3>1, <3>3, NoProcessIsNone
    <3>4. QED
      BY <3>2, <3>3
  <2>4. QED
    BY <2>3 DEF LockMatchesHandler
<1>7. Served'
  BY <1>1, NoProcessIsNone DEF Ind, TypeOK, ServerTypeOK, Served, Active, Idle
<1>8. Declares'
  BY <1>1 DEF Ind, TypeOK, ServerTypeOK, DriftTypeOK, Declares
<1>9. Follows'
  BY <1>1 DEF Ind, TypeOK, ServerTypeOK, Follows
<1>10. DriftVerdicts'
  BY <1>1 DEF Ind, TypeOK, ServerTypeOK, DriftVerdicts, DriftPassIsReal,
              ConfirmFailsOnlyAfterRevert, SelfHealBlamedRightly
<1>11. LoadPassIsReal'
  BY <1>1 DEF Ind, TypeOK, ServerTypeOK, LoadPassIsReal
<1>12. QED
  BY <1>2, <1>3, <1>4, <1>5, <1>6, <1>7, <1>8, <1>9, <1>10, <1>11 DEF Ind, TypeOK

LEMMA ProcessEndsInd ==
    ASSUME Ind, NEW p \in Processes, ProcessEnds(p),
           ForgetDrift({r \in Requests : by[r] = p}), ForgetLoad({r \in Requests : by[r] = p})
    PROVE  Ind'
<1> USE DriftAssumption, LoadAssumption
<1> DEFINE Cut(r) == by[r] = p
<1>1. /\ p \in up /\ up' \subseteq up /\ UNCHANGED <<live, backlog>>
      /\ running' = [running EXCEPT ![p] = ""]
      /\ at' = [r \in Requests |-> IF Cut(r) THEN "over" ELSE at[r]]
      /\ by' = [r \in Requests |-> IF Cut(r) THEN NoProcess ELSE by[r]]
      /\ polls' = [r \in Requests |-> IF Cut(r) THEN 0 ELSE polls[r]]
      /\ err' = [r \in Requests |-> IF Cut(r) THEN "none" ELSE err[r]]
      /\ told' = [r \in Requests |-> IF Cut(r) /\ told[r] = "nothing" THEN "cut" ELSE told[r]]
      /\ declared' = [r \in Requests |-> IF Cut(r) THEN NoLimit ELSE declared[r]]
      /\ since' = [r \in Requests |-> IF Cut(r) THEN {} ELSE since[r]]
      /\ start' = [r \in Requests |-> IF Cut(r) THEN 0 ELSE start[r]]
      /\ risen' = [r \in Requests |-> ~Cut(r) /\ risen[r]]
  BY DEF ProcessEnds, ForgetDrift, ForgetLoad
<1> HIDE DEF Cut
<1>2. ServerTypeOK'
  BY <1>1, NoProcessIsNone DEF Ind, TypeOK, ServerTypeOK, Places, Errors
<1>3. DriftTypeOK'
  BY <1>1 DEF Ind, TypeOK, DriftTypeOK
<1>4. LoadTypeOK'
  <2>1. 0 \in ReplicaCounts
    BY DEF ReplicaCounts
  <2>2. QED
    BY <1>1, <2>1 DEF Ind, TypeOK, LoadTypeOK
<1>5. WithinPatience'
  <2>1. ASSUME NEW q \in Requests PROVE polls'[q] < Patience(q)'
    <3>1. CASE Cut(q)
      <4>1. polls'[q] = 0 /\ declared'[q] = NoLimit
        BY <1>1, <3>1 DEF Ind, TypeOK, ServerTypeOK
      <4>2. QED
        BY <4>1 DEF Patience
    <3>2. CASE ~(Cut(q))
      BY <1>1, <3>2 DEF Ind, TypeOK, ServerTypeOK, WithinPatience, Patience
    <3>3. QED
      BY <3>1, <3>2
  <2>2. QED
    BY <2>1 DEF WithinPatience
<1>6. LockMatchesHandler'
  BY <1>1, NoProcessIsNone DEF Ind, TypeOK, ServerTypeOK, LockMatchesHandler, Cut
<1>7. Served'
  BY <1>1, NoProcessIsNone DEF Ind, TypeOK, ServerTypeOK, Served, Active, Idle
<1>8. Declares'
  BY <1>1 DEF Ind, TypeOK, ServerTypeOK, DriftTypeOK, Declares
<1>9. Follows'
  BY <1>1 DEF Ind, TypeOK, ServerTypeOK, Follows
<1>10. DriftVerdicts'
  BY <1>1 DEF Ind, TypeOK, ServerTypeOK, DriftVerdicts, DriftPassIsReal,
              ConfirmFailsOnlyAfterRevert, SelfHealBlamedRightly
<1>11. LoadPassIsReal'
  BY <1>1 DEF Ind, TypeOK, ServerTypeOK, LoadPassIsReal
<1>12. QED
  BY <1>2, <1>3, <1>4, <1>5, <1>6, <1>7, <1>8, <1>9, <1>10, <1>11 DEF Ind, TypeOK

--------------------------------------------------------------------------------
(* Reviewers, rollouts and the platform.                                       *)

\* Nothing changes but what the reviewer is told and the processes that serve.
LEMMA NothingElseInd ==
    ASSUME Ind, UNCHANGED <<running, at, by, polls, err, driftVars, loadVars>>,
           told' \in [Requests -> {"nothing", "outcome", "gone", "cut"}], up' \subseteq Processes
    PROVE  Ind'
<1> USE DEF driftVars, loadVars
<1>1. TypeOK'
  BY DEF Ind, TypeOK, ServerTypeOK, DriftTypeOK, LoadTypeOK, WithinPatience, Patience
<1>2. LockMatchesHandler' /\ Served'
  BY LockKept, ServedKept DEF Ind
<1>3. Declares' /\ Follows'
  BY DEF Ind, Declares, Follows
<1>4. DriftVerdicts' /\ LoadPassIsReal'
  BY DEF Ind, DriftVerdicts, DriftPassIsReal, ConfirmFailsOnlyAfterRevert,
         SelfHealBlamedRightly, LoadPassIsReal
<1>5. QED
  BY <1>1, <1>2, <1>3, <1>4 DEF Ind

LEMMA LeaveInd ==
    ASSUME Ind, NEW r \in Requests, Leave(r), UNCHANGED <<driftVars, loadVars>>
    PROVE  Ind'
<1>1. /\ UNCHANGED <<running, at, by, polls, err, driftVars, loadVars>> /\ up' \subseteq Processes
      /\ told' \in [Requests -> {"nothing", "outcome", "gone", "cut"}]
  BY DEF Leave, Ind, TypeOK, ServerTypeOK
<1>2. QED
  BY <1>1, NothingElseInd

LEMMA ProcessStartsInd ==
    ASSUME Ind, NEW p \in Processes, ProcessStarts(p), UNCHANGED <<driftVars, loadVars>>
    PROVE  Ind'
<1>1. /\ UNCHANGED <<running, at, by, polls, err, driftVars, loadVars>> /\ up' \subseteq Processes
      /\ told' \in [Requests -> {"nothing", "outcome", "gone", "cut"}]
  BY DEF ProcessStarts, Ind, TypeOK, ServerTypeOK
<1>2. QED
  BY <1>1, NothingElseInd

LEMMA PressInd ==
    ASSUME Ind, NEW r \in Requests, NEW name \in Names, NEW p \in Processes,
           Press(r, name, p), UNCHANGED <<driftVars, loadVars>>
    PROVE  Ind'
<1>1. /\ at[r] = "unsent" /\ by[r] = NoProcess /\ err[r] = "none"
      /\ UNCHANGED <<up, polls, err, driftVars, loadVars>>
  BY DEF Press, Ind, TypeOK, ServerTypeOK, Served, Active, Idle
<1>2. PICK place \in {"over", "declared", "bounds"} :
          /\ at' = [at EXCEPT ![r] = place]
          /\ IF place = "over"
             THEN UNCHANGED <<running, by>>
             ELSE /\ running[p] = "" /\ running' = [running EXCEPT ![p] = name]
                  /\ by' = [by EXCEPT ![r] = p]
          /\ told' \in [Requests -> {"nothing", "outcome", "gone", "cut"}]
  <2>1. CASE running[p] # ""
    BY <2>1 DEF Press, Refuse, Goto, Ind, TypeOK, ServerTypeOK
  <2>2. CASE running[p] = ""
    <3>1. FirstStep["drift"] = "declared" /\ FirstStep["load"] = "bounds"
      BY DEF FirstStep
    <3>2. FirstStep[name] \in {"declared", "bounds"}
      BY <3>1 DEF Names
    <3>3. QED
      BY <2>2, <3>2 DEF Press, Goto, Ind, TypeOK, ServerTypeOK
  <2>3. QED
    BY <2>1, <2>2
<1>3. name # ""
  BY DEF Names
<1>4. /\ at'[r] = place /\ \A q \in Requests \ {r} : at'[q] = at[q]
  BY <1>2 DEF Ind, TypeOK, ServerTypeOK
<1>5. ServerTypeOK'
  BY <1>1, <1>2 DEF Ind, TypeOK, ServerTypeOK, Places
<1>6. TypeOK'
  BY <1>1, <1>5 DEF Ind, TypeOK, DriftTypeOK, LoadTypeOK, WithinPatience, Patience,
                    driftVars, loadVars
<1>7. LockMatchesHandler'
  <2>1. CASE place = "over"
    BY <1>2, <2>1, LockKept DEF Ind
  <2>2. CASE place # "over"
    <3>1. \A q \in Requests : by'[q] = IF q = r THEN p ELSE by[q]
      BY <1>2, <2>2 DEF Ind, TypeOK, ServerTypeOK
    <3>2. \A t \in Processes : running'[t] = IF t = p THEN name ELSE running[t]
      BY <1>2, <2>2 DEF Ind, TypeOK, ServerTypeOK
    <3>3. \A q \in Requests : by[q] # p
      BY <1>2, <2>2 DEF Ind, LockMatchesHandler
    <3>4. ASSUME NEW t \in Processes
          PROVE  /\ running'[t] = "" <=> ~\E q \in Requests : by'[q] = t
                 /\ \A q, s \in Requests : by'[q] = t /\ by'[s] = t => q = s
      <4>1. /\ running[t] = "" <=> ~\E q \in Requests : by[q] = t
            /\ \A q, s \in Requests : by[q] = t /\ by[s] = t => q = s
        BY DEF Ind, LockMatchesHandler
      <4>2. CASE t = p
        BY <1>3, <3>1, <3>2, <3>3, <4>2
      <4>3. CASE t # p
        BY <1>1, <3>1, <3>2, <4>1, <4>3, NoProcessIsNone
      <4>4. QED
        BY <4>2, <4>3
    <3>5. QED
      BY <3>4 DEF LockMatchesHandler
  <2>3. QED
    BY <2>1, <2>2
<1>8. Served'
  <2>1. \A q \in Requests \ {r} : by'[q] = by[q]
    BY <1>2 DEF Ind, TypeOK, ServerTypeOK
  <2>2. by'[r] = IF place = "over" THEN NoProcess ELSE p
    BY <1>1, <1>2 DEF Ind, TypeOK, ServerTypeOK
  <2>3. QED
    BY <1>1, <1>4, <2>1, <2>2, NoProcessIsNone DEF Ind, Served, Active, Idle
<1>9. Declares'
  BY <1>1, <1>4 DEF Ind, Declares, driftVars
<1>10. Follows'
  BY <1>1, <1>4 DEF Ind, Follows, driftVars
<1>11. DriftVerdicts'
  BY <1>1, <1>4 DEF Ind, DriftVerdicts, DriftPassIsReal, ConfirmFailsOnlyAfterRevert,
                    SelfHealBlamedRightly, driftVars
<1>12. LoadPassIsReal'
  BY <1>1, <1>4 DEF Ind, LoadPassIsReal, driftVars, loadVars
<1>13. QED
  BY <1>6, <1>7, <1>8, <1>9, <1>10, <1>11, <1>12 DEF Ind

LEMMA SyncInd ==
    ASSUME Ind, NEW limit \in Limits, Sync(limit), UNCHANGED <<serverVars, loadVars>>
    PROVE  Ind'
<1> USE DriftAssumption DEF serverVars, loadVars
<1>1. /\ live # limit /\ live' = limit /\ UNCHANGED declared
      /\ \A r \in Requests : since'[r] = IF since[r] # {} /\ err[r] = "none"
                                       THEN since[r] \cup {limit} ELSE since[r]
  BY DEF Sync, Witnessed
<1>2. DriftTypeOK'
  BY DEF Sync, Witnessed, Ind, TypeOK, DriftTypeOK
<1>3. TypeOK'
  BY <1>1, <1>2 DEF Ind, TypeOK, ServerTypeOK, LoadTypeOK, WithinPatience, Patience
<1>4. LockMatchesHandler' /\ Served'
  BY LockKept, ServedKept DEF Ind
<1>5. Declares'
  BY <1>1 DEF Ind, Declares
<1>6. Follows'
  <2>1. ASSUME NEW r \in Requests, at[r] \in {"confirm", "watch"}
        PROVE  /\ {Drifted, limit} \subseteq since'[r]
               /\ since'[r] \subseteq {Drifted, declared[r]} /\ since'[r] # {Drifted}
                     => limit = declared[r]
    <3>1. since[r] # {} /\ err[r] = "none" /\ Drifted \in since[r]
      BY <2>1 DEF Ind, Served, Follows
    <3>2. since'[r] = since[r] \cup {limit}
      BY <1>1, <3>1
    <3>3. QED
      BY <3>1, <3>2
  <2>2. QED
    BY <1>1, <2>1 DEF Follows
<1>7. DriftVerdicts'
  BY <1>1 DEF Ind, DriftVerdicts, DriftPassIsReal, ConfirmFailsOnlyAfterRevert,
              SelfHealBlamedRightly
<1>8. LoadPassIsReal'
  BY <1>1 DEF Ind, LoadPassIsReal
<1>9. QED
  BY <1>3, <1>4, <1>5, <1>6, <1>7, <1>8 DEF Ind

LEMMA JobsLeaveInd ==
    ASSUME Ind, NEW gone \in SUBSET Requests, JobsLeave(gone), UNCHANGED <<serverVars, driftVars>>
    PROVE  Ind'
<1> USE DEF serverVars, driftVars, JobsLeave
<1>1. TypeOK'
  BY DEF Ind, TypeOK, ServerTypeOK, DriftTypeOK, LoadTypeOK, WithinPatience, Patience
<1>2. LockMatchesHandler' /\ Served' /\ Declares' /\ Follows'
  BY LockKept, ServedKept DEF Ind, Declares, Follows
<1>3. DriftVerdicts' /\ LoadPassIsReal'
  BY DEF Ind, DriftVerdicts, DriftPassIsReal, ConfirmFailsOnlyAfterRevert,
         SelfHealBlamedRightly, LoadPassIsReal
<1>4. QED
  BY <1>1, <1>2, <1>3 DEF Ind

--------------------------------------------------------------------------------
LEMMA Zeroes == 0 \in ReplicaCounts /\ 0 < LoadPatience
BY LoadAssumption DEF ReplicaCounts

LEMMA InitInd == Init => Ind
<1> SUFFICES ASSUME Init PROVE Ind
  OBVIOUS
<1> USE DriftAssumption, LoadAssumption, NoProcessIsNone
        DEF Init, ServerInit, DriftInit, LoadInit
<1>1. TypeOK
  <2>1. ServerTypeOK
    BY DEF ServerTypeOK, Places, Errors
  <2>3. LoadTypeOK
    BY Zeroes DEF LoadTypeOK
  <2>4. DriftTypeOK
    BY DEF DriftTypeOK
  <2>5. WithinPatience
    <3>1. ASSUME NEW r \in Requests PROVE polls[r] = 0 /\ Patience(r) = LoadPatience
      BY DEF Patience
    <3>2. QED
      BY <3>1, Zeroes DEF WithinPatience
  <2>6. QED
    BY <2>1, <2>3, <2>4, <2>5 DEF TypeOK
<1>2. LockMatchesHandler /\ Served
  BY DEF LockMatchesHandler, Served, Active, Idle
<1>3. Declares /\ Follows /\ DriftVerdicts /\ LoadPassIsReal
  BY DEF Declares, Follows, DriftVerdicts, DriftPassIsReal, ConfirmFailsOnlyAfterRevert,
         SelfHealBlamedRightly, LoadPassIsReal
<1>4. QED
  BY <1>1, <1>2, <1>3 DEF Ind

LEMMA StepInd == Ind /\ [Next]_vars => Ind'
<1> SUFFICES ASSUME Ind, [Next]_vars PROVE Ind'
  OBVIOUS
<1>1. ASSUME NEW r \in Requests, HandlerStep(r) PROVE Ind'
  <2>1. CASE DriftStep(r) /\ UNCHANGED loadVars
    BY <2>1, DriftCallFailsInd, ReadDeclaredInd, PatchInd, ConfirmInd, WatchInd DEF DriftStep
  <2>2. CASE LoadStep(r) /\ UNCHANGED driftVars
    BY <2>2, LoadCallFailsInd, ReadBoundsInd, ReadStartInd, EnqueueInd, EnqueueFailsInd,
       PollReplicasInd, PollDepthInd DEF LoadStep
  <2>3. CASE Finish(r)
    BY <1>1, <2>3, FinishInd DEF HandlerStep
  <2>4. QED
    BY <1>1, <2>1, <2>2, <2>3 DEF HandlerStep
<1>2. ASSUME NEW r \in Requests, Reviewer(r) PROVE Ind'
  BY <1>2, PressInd, LeaveInd DEF Reviewer
<1>3. ASSUME NEW r \in Requests, PatchAnswerLost(r), UNCHANGED loadVars PROVE Ind'
  BY <1>3, PatchInd
<1>4. ASSUME NEW p \in Processes, Rollout(p) PROVE Ind'
  BY <1>4, ProcessStartsInd, ProcessEndsInd DEF Rollout
<1>5. CASE Platform
  BY <1>5, SyncInd, JobsLeaveInd DEF Platform
<1>6. CASE UNCHANGED vars
  <2>1. /\ UNCHANGED <<running, at, by, polls, err, driftVars, loadVars>> /\ up' \subseteq Processes
        /\ told' \in [Requests -> {"nothing", "outcome", "gone", "cut"}]
    BY <1>6 DEF vars, serverVars, Ind, TypeOK, ServerTypeOK
  <2>2. QED
    BY <2>1, NothingElseInd
<1>7. QED
  BY <1>1, <1>2, <1>3, <1>4, <1>5, <1>6 DEF Next

LEMMA SpecInd == Spec => []Ind
BY InitInd, StepInd, PTL DEF Spec

\* Type correctness; in particular no demonstration polls beyond its deadline.
THEOREM TypeCorrect == Spec => []TypeOK
<1>1. Ind => TypeOK
  BY DEF Ind
<1>2. QED
  BY <1>1, SpecInd, PTL

\* The lock of a process is taken exactly while one demonstration runs in it
\* (main.go:234-250).
THEOREM LockIsExact == Spec => []LockMatchesHandler
<1>1. Ind => LockMatchesHandler
  BY DEF Ind
<1>2. QED
  BY <1>1, SpecInd, PTL

\* A drift demonstration that passes has seen a drift that was applied and
\* reverted (runs.go:75-79).
THEOREM DriftPassProven == Spec => []DriftPassIsReal
<1>1. Ind => DriftPassIsReal
  BY DEF Ind, DriftVerdicts
<1>2. QED
  BY <1>1, SpecInd, PTL

\* "The drift did not apply" (runs.go:53) is only ever said of a drift that did.
THEOREM ConfirmProven == Spec => []ConfirmFailsOnlyAfterRevert
<1>1. Ind => ConfirmFailsOnlyAfterRevert
  BY DEF Ind, DriftVerdicts
<1>2. QED
  BY <1>1, SpecInd, PTL

\* Self-heal is blamed only where it did not act, or others interfered
\* (runs.go:84-86).
THEOREM BlameProven == Spec => []SelfHealBlamedRightly
<1>1. Ind => SelfHealBlamedRightly
  BY DEF Ind, DriftVerdicts
<1>2. QED
  BY <1>1, SpecInd, PTL

\* A load demonstration that passes leaves none of its jobs on the list
\* (runs.go:178-194).
THEOREM LoadPassProven == Spec => []LoadPassIsReal
<1>1. Ind => LoadPassIsReal
  BY DEF Ind
<1>2. QED
  BY <1>1, SpecInd, PTL
================================================================================
