-------------------------------- MODULE DriftDemo --------------------------------
(***************************************************************************)
(* The drift demonstration (runDrift of src/dashboard/runs.go): it changes *)
(* the memory limit of the demo API in the cluster and waits for the       *)
(* platform to change it back.  Git and Argo CD, with automated sync and   *)
(* self-heal, are external.                                                *)
(***************************************************************************)
EXTENDS DemoServer

CONSTANTS
    Limits,         \* the memory limits Git may declare
    Drifted,        \* driftedMemory, which Git never declares
    NoLimit,
    DriftPatience   \* driftTimeout, in polls

\* In since: somebody else patched again.
Again == "again"

ASSUME DriftAssumption ==
    /\ Drifted \notin Limits
    /\ NoLimit \notin Limits \cup {Drifted} /\ Again \notin Limits \cup {Drifted}
    /\ DriftPatience \in Nat \ {0}

VARIABLES
    live,       \* the limit of the Deployment in the cluster
    declared,   \* what each demonstration takes for the limit of Git
    since       \* history: what the limit has been since each one's patch

driftVars == <<live, declared, since>>

DriftInit ==
    /\ live \in Limits
    /\ declared = [r \in Requests |-> NoLimit]
    /\ since = [r \in Requests |-> {}]

\* What the demonstrations that wait for a revert live to see.
Witnessed(what) ==
    [r \in Requests |-> IF since[r] # {} /\ err[r] = "none" THEN since[r] \cup what ELSE since[r]]

ForgetDrift(gone) ==
    /\ declared' = [r \in Requests |-> IF r \in gone THEN NoLimit ELSE declared[r]]
    /\ since' = [r \in Requests |-> IF r \in gone THEN {} ELSE since[r]]
    /\ UNCHANGED live

\* A call fails because of the cluster, a timeout or a reviewer who left.
DriftCallFails(r) ==
    /\ at[r] \in {"declared", "patch", "confirm", "watch"}
    /\ Fail(r, "failed")
    /\ UNCHANGED driftVars

\* Mutant of WorthPatching: any limit will do.
AnyLimit(limit) == TRUE

\* "Without this the test could pass simply because the declared value already
\* equalled the drift value."
WorthPatching(limit) == limit # Drifted

\* The live Deployment is read for what Git declares.
ReadDeclared(r) ==
    /\ at[r] = "declared" /\ ~Left(r)
    /\ IF WorthPatching(live)
       THEN declared' = [declared EXCEPT ![r] = live] /\ Proceed(r, "patch")
       ELSE UNCHANGED declared /\ Fail(r, "failed")
    /\ UNCHANGED <<live, since>>

\* Mutant of PatchLands: the cluster accepts the patch and ignores it.
PatchIsIgnored(r) ==
    /\ since' = [Witnessed({Drifted, Again}) EXCEPT ![r] = {Drifted}]
    /\ UNCHANGED <<live, declared>>

\* The patch replaces the limit of the container at the index that was read with
\* the declared limit; the Deployment has one container, so that it is the same.
PatchLands(r) ==
    /\ live' = Drifted
    /\ since' = [Witnessed({Drifted, Again}) EXCEPT ![r] = {Drifted}]
    /\ UNCHANGED declared

Patch(r) ==
    /\ at[r] = "patch" /\ ~Left(r)
    /\ PatchLands(r)
    /\ Proceed(r, "confirm")

\* The cluster is patched, and the answer does not arrive.
PatchAnswerLost(r) ==
    /\ at[r] = "patch"
    /\ PatchLands(r)
    /\ Fail(r, "failed")

\* "Confirm the drift actually landed": by another read, some time later.
Confirm(r) ==
    /\ at[r] = "confirm" /\ ~Left(r)
    /\ IF live = Drifted THEN Proceed(r, "watch") ELSE Fail(r, "did not apply")
    /\ UNCHANGED driftVars

\* Mutant of Watch: the deadline is looked at before the limit.
WatchDeadlineFirst(r) ==
    /\ at[r] = "watch" /\ ~Left(r)
    /\ IF polls[r] + 1 < DriftPatience /\ live = declared[r]
       THEN Pass(r)
       ELSE PollAgain(r, "watch", DriftPatience, "survived")
    /\ UNCHANGED driftVars

Watch(r) ==
    /\ at[r] = "watch" /\ ~Left(r)
    /\ IF live = declared[r]
       THEN Pass(r)
       ELSE PollAgain(r, "watch", DriftPatience, "survived")
    /\ UNCHANGED driftVars

DriftStep(r) ==
    DriftCallFails(r) \/ ReadDeclared(r) \/ Patch(r) \/ Confirm(r) \/ Watch(r)

--------------------------------------------------------------------------------
\* Argo CD puts there what main declares by now: it heals drift, or it syncs a
\* commit, and does not tell the two apart.
Sync(limit) ==
    /\ live # limit
    /\ live' = limit
    /\ since' = Witnessed({limit})
    /\ UNCHANGED declared

--------------------------------------------------------------------------------
DriftTypeOK ==
    /\ live \in Limits \cup {Drifted}
    /\ declared \in [Requests -> Limits \cup {NoLimit}]
    /\ since \in [Requests -> SUBSET (Limits \cup {Drifted, Again})]
================================================================================
