------------------------------- MODULE DemoServer -------------------------------
(***************************************************************************)
(* The dashboard's server (src/dashboard/main.go): a reviewer presses a    *)
(* button, and the handler runs one demonstration and streams what         *)
(* happens.  A process permits one demonstration at a time by a mutex in   *)
(* memory.  There is one replica, which a rolling update replaces by       *)
(* starting the new process before the old one is told to stop.            *)
(*                                                                         *)
(* The steps of the demonstrations are those of DriftDemo and LoadDemo.    *)
(***************************************************************************)
EXTENDS Naturals, FiniteSets

CONSTANTS
    Requests,       \* button presses, each sent once
    Processes,      \* dashboard pods
    NoProcess

ASSUME NoProcessIsNone == NoProcess \notin Processes

VARIABLES
    up,         \* the processes that serve
    running,    \* server.running of each process
    at,         \* where the handler of each request is
    by,         \* the process each request reached
    polls,      \* polls of the present wait
    err,        \* what runDrift or runLoad returned
    told        \* "nothing", the "outcome"; "gone": the page is closed; "cut": the
                \* stream broke off

serverVars == <<up, running, at, by, polls, err, told>>

Names == {"drift", "load"}
Places == {"declared", "patch", "confirm", "watch", "bounds", "start", "enqueue", "scale",
           "scale depth", "drain", "drain depth", "returned", "unsent", "over"}
Errors == {"none", "nil", "failed", "did not apply", "survived"}
FirstStep == [drift |-> "declared", load |-> "bounds"]
Idle == {"unsent", "over"}
Active(r) == at[r] \notin Idle

\* The context of the request is cancelled.
Left(r) == told[r] = "gone"

ServerInit ==
    /\ \E p \in Processes : up = {p}
    /\ running = [p \in Processes |-> ""]
    /\ at = [r \in Requests |-> "unsent"]
    /\ by = [r \in Requests |-> NoProcess]
    /\ polls = [r \in Requests |-> 0]
    /\ err = [r \in Requests |-> "none"]
    /\ told = [r \in Requests |-> "nothing"]

Goto(r, place) == at' = [at EXCEPT ![r] = place]

\* Mutant of Refuse: the deferred release was registered before the check.
RefuseAndRelease(r, p) ==
    /\ Goto(r, "over")
    /\ told' = [told EXCEPT ![r] = "outcome"]
    /\ running' = [running EXCEPT ![p] = ""]
    /\ UNCHANGED by

\* 409 Conflict.
Refuse(r, p) ==
    /\ Goto(r, "over")
    /\ told' = [told EXCEPT ![r] = "outcome"]
    /\ UNCHANGED <<running, by>>

\* The lock is looked at and taken under the mutex.
Press(r, name, p) ==
    /\ at[r] = "unsent" /\ p \in up
    /\ IF running[p] # ""
       THEN Refuse(r, p)
       ELSE /\ running' = [running EXCEPT ![p] = name]
            /\ by' = [by EXCEPT ![r] = p]
            /\ Goto(r, FirstStep[name])
            /\ UNCHANGED told
    /\ UNCHANGED <<up, polls, err>>

\* Streaming to a reviewer who left goes nowhere.
Tell(r) == told' = IF Left(r) THEN told ELSE [told EXCEPT ![r] = "outcome"]

\* The demonstration streams its success and returns nil ...
Pass(r) ==
    /\ Tell(r)
    /\ err' = [err EXCEPT ![r] = "nil"]
    /\ Goto(r, "returned")
    /\ UNCHANGED <<up, running, by, polls>>

\* ... or returns an error.
Fail(r, why) ==
    /\ err' = [err EXCEPT ![r] = why]
    /\ Goto(r, "returned")
    /\ UNCHANGED <<up, running, by, polls, told>>

Proceed(r, place) ==
    /\ Goto(r, place)
    /\ polls' = [polls EXCEPT ![r] = 0]
    /\ UNCHANGED <<up, running, by, err, told>>

\* Mutants of PollAgain: the deadline is not looked at; one poll too many.
PollForever(r, place, patience, why) == Proceed(r, place)

PollOnceMore(r, place, patience, why) ==
    IF polls[r] + 1 > patience
    THEN Fail(r, why)
    ELSE /\ polls' = [polls EXCEPT ![r] = @ + 1]
         /\ Goto(r, place)
         /\ UNCHANGED <<up, running, by, err, told>>

\* The condition was not met by this poll: wait for the next one, unless the
\* deadline, given in polls, has passed.
PollAgain(r, place, patience, why) ==
    IF polls[r] + 1 >= patience
    THEN Fail(r, why)
    ELSE /\ polls' = [polls EXCEPT ![r] = @ + 1]
         /\ Goto(r, place)
         /\ UNCHANGED <<up, running, by, err, told>>

\* "A failure is streamed, not swallowed."
Report(r) == IF err[r] = "nil" THEN UNCHANGED told ELSE Tell(r)

\* The handler returns, its deferred function releases the lock, and its
\* variables are gone.
Return(r) ==
    /\ at[r] = "returned"
    /\ Report(r)
    /\ running' = [running EXCEPT ![by[r]] = ""]
    /\ Goto(r, "over")
    /\ by' = [by EXCEPT ![r] = NoProcess]
    /\ polls' = [polls EXCEPT ![r] = 0]
    /\ err' = [err EXCEPT ![r] = "none"]
    /\ UNCHANGED up

\* The page is closed: every call the handler makes from now on fails.
Leave(r) ==
    /\ Active(r) /\ told[r] = "nothing"
    /\ told' = [told EXCEPT ![r] = "gone"]
    /\ UNCHANGED <<up, running, at, by, polls, err>>

\* A rollout starts the process that will replace the present one ...
ProcessStarts(p) ==
    /\ p \notin up /\ Cardinality(up) = 1
    /\ up' = up \cup {p}
    /\ UNCHANGED <<running, at, by, polls, err, told>>

\* ... and stops that.  SIGTERM makes ListenAndServe and then main return at
\* once, whatever Shutdown still waits for.  A crash does the same, and the
\* container starts again.
ProcessEnds(p) ==
    LET cut == {r \in Requests : by[r] = p}
        Reset(f, value) == [r \in Requests |-> IF r \in cut THEN value ELSE f[r]]
    IN  /\ p \in up
        /\ up' = IF up = {p} THEN up ELSE up \ {p}
        /\ running' = [running EXCEPT ![p] = ""]
        /\ at' = Reset(at, "over") /\ by' = Reset(by, NoProcess)
        /\ polls' = Reset(polls, 0) /\ err' = Reset(err, "none")
        /\ told' = [r \in Requests |->
                       IF r \in cut /\ told[r] = "nothing" THEN "cut" ELSE told[r]]

--------------------------------------------------------------------------------
ServerTypeOK ==
    /\ up \subseteq Processes
    /\ running \in [Processes -> Names \cup {""}]
    /\ at \in [Requests -> Places]
    /\ by \in [Requests -> Processes \cup {NoProcess}]
    /\ polls \in [Requests -> Nat]
    /\ err \in [Requests -> Errors]
    /\ told \in [Requests -> {"nothing", "outcome", "gone", "cut"}]
================================================================================
