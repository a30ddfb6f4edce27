--------------------------------- MODULE LoadDemo ---------------------------------
(***************************************************************************)
(* The load demonstration (runLoad of src/dashboard/runs.go): it queues    *)
(* jobs through the demo API, waits for replicas to rise and then for the  *)
(* queue to be empty.                                                      *)
(*                                                                         *)
(* KEDA, Kubernetes, the demo API, Redis and the workers are external: a   *)
(* poll may find any number of replicas, whether or not KEDA is allowed    *)
(* to run as many, the API may answer or not, and jobs leave the list when *)
(* they like.  How many jobs there are is left open: what counts is which  *)
(* demonstrations still have some on the list.                             *)
(***************************************************************************)
EXTENDS DemoServer

CONSTANTS
    MinReplicas, MaxReplicas,       \* the bounds of the ScaledObject
    LoadPatience    \* scaleTimeout and drainTimeout, in polls

ASSUME LoadAssumption ==
    /\ LoadPatience \in Nat \ {0}
    /\ MinReplicas \in Nat /\ MaxReplicas \in Nat /\ MinReplicas <= MaxReplicas

VARIABLES
    backlog,    \* the demonstrations that have jobs on the list
    start,      \* startReplicas of each demonstration
    risen       \* r > startReplicas, as the present poll has read it

loadVars == <<backlog, start, risen>>

\* One above the maximum stands for any excess.
ReplicaCounts == 0..(MaxReplicas + 1)

LoadInit ==
    /\ backlog = {}
    /\ start = [r \in Requests |-> 0]
    /\ risen = [r \in Requests |-> FALSE]

ForgetLoad(gone) ==
    /\ start' = [r \in Requests |-> IF r \in gone THEN 0 ELSE start[r]]
    /\ risen' = [r \in Requests |-> r \notin gone /\ risen[r]]
    /\ UNCHANGED backlog

\* A call to the Kubernetes API fails, there is no ScaledObject, or the
\* reviewer left.
LoadCallFails(r) ==
    /\ at[r] \in {"bounds", "start", "scale", "drain"}
    /\ Fail(r, "failed")
    /\ UNCHANGED loadVars

\* The bounds are read once.
ReadBounds(r) ==
    /\ at[r] = "bounds" /\ ~Left(r)
    /\ Proceed(r, "start")
    /\ UNCHANGED loadVars

ReadStart(r, n) ==
    /\ at[r] = "start" /\ ~Left(r)
    /\ start' = [start EXCEPT ![r] = n]
    /\ Proceed(r, "enqueue")
    /\ UNCHANGED <<backlog, risen>>

Enqueue(r) ==
    /\ at[r] = "enqueue" /\ ~Left(r)
    /\ backlog' = backlog \cup {r}
    /\ Proceed(r, "scale")
    /\ UNCHANGED <<start, risen>>

\* The API is not reached, accepts a part of the jobs, or its answer is lost:
\* what is on the list stays there.
EnqueueFails(r) ==
    /\ at[r] = "enqueue"
    /\ backlog' \in {backlog, backlog \cup {r}}
    /\ Fail(r, "failed")
    /\ UNCHANGED <<start, risen>>

DepthStep == [scale |-> "scale depth", drain |-> "drain depth"]

\* A poll reads the replicas, and ends the demonstration when they are out of
\* bounds ...
PollReplicas(r, n) ==
    /\ at[r] \in {"scale", "drain"} /\ ~Left(r)
    /\ IF n \in MinReplicas..MaxReplicas
       THEN /\ Goto(r, DepthStep[at[r]])
            /\ risen' = [risen EXCEPT ![r] = at[r] = "scale" /\ n > start[r]]
            /\ UNCHANGED <<up, running, by, polls, err, told>>
       ELSE Fail(r, "failed") /\ UNCHANGED risen
    /\ UNCHANGED <<backlog, start>>

\* ... and then the depth of the queue.  A depth that could not be read ends no
\* wait, not even that for replicas.
Scaled(r, known) == known /\ risen[r]

\* Mutant of Drained: an unknown depth is taken for zero.
DrainedOrUnknown(r, known) == ~known \/ backlog = {}

Drained(r, known) == known /\ backlog = {}

PollDepth(r, known) ==
    /\ known => ~Left(r)
    /\ \/ /\ at[r] = "scale depth"
          /\ IF Scaled(r, known)
             THEN Proceed(r, "drain")
             ELSE PollAgain(r, "scale", LoadPatience, "failed")
       \/ /\ at[r] = "drain depth"
          /\ IF Drained(r, known)
             THEN Pass(r)
             ELSE PollAgain(r, "drain", LoadPatience, "failed")
    /\ risen' = [risen EXCEPT ![r] = FALSE]
    /\ start' = IF Scaled(r, known) THEN [start EXCEPT ![r] = 0] ELSE start
    /\ UNCHANGED backlog

LoadStep(r) ==
    \/ LoadCallFails(r) \/ ReadBounds(r) \/ Enqueue(r) \/ EnqueueFails(r)
    \/ \E n \in ReplicaCounts : ReadStart(r, n) \/ PollReplicas(r, n)
    \/ \E known \in BOOLEAN : PollDepth(r, known)

--------------------------------------------------------------------------------
\* The workers take the last job of a demonstration, or Redis, which keeps
\* nothing, restarts.
JobsLeave(gone) ==
    /\ gone \cap backlog # {}
    /\ backlog' = backlog \ gone
    /\ UNCHANGED <<start, risen>>

--------------------------------------------------------------------------------
LoadTypeOK ==
    /\ backlog \subseteq Requests
    /\ start \in [Requests -> ReplicaCounts]
    /\ risen \in [Requests -> BOOLEAN]
================================================================================
