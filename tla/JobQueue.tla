-------------------------------- MODULE JobQueue --------------------------------
(***************************************************************************)
(* The demo workload (src/app): API requests push jobs onto a Redis list,  *)
(* worker processes pop and run them.  One consumer stands for one worker  *)
(* pod (CONCURRENCY is 1).  Redis and the go-redis client are external:    *)
(* they are modelled from how queue.go uses them - one list, LPUSH and     *)
(* BRPOP, no persistence, a memory limit that refuses writes, and commands *)
(* retried by the client when the connection fails.                        *)
(***************************************************************************)
EXTENDS Integers, Sequences, SequencesExt

CONSTANTS
    Requests,       \* POST /api/jobs requests, each sent once
    Consumers,      \* worker pods
    NoJob,
    MaxCount,       \* the largest count a request may ask for
    Capacity,       \* jobs that fit in Redis's maxmemory
    MaxAttempts,    \* how often go-redis sends one command
    MaxFaults       \* bound on the faults of one behaviour

ASSUME SizesAreNatural ==
    /\ MaxCount \in Nat /\ Capacity \in Nat /\ MaxFaults \in Nat
    /\ MaxAttempts \in Nat \ {0}
    /\ NoJob \notin Requests \X Nat

VARIABLES
    redis,      \* "up" or "down"
    pending,    \* the list jobs:pending, its head first
    step,       \* where the handler of each request is
    asked,      \* the count each request asks for
    acked,      \* the loop variable of the handler: pushes acknowledged
    tries,      \* failed attempts at the current push
    accepted,   \* the count in the response, -1 before there is one
    at,         \* where each consumer is in its loop
    stopping,   \* consumers whose context is cancelled
    job,        \* the job each consumer runs
    entered,    \* history: every job that reached the list
    finished,   \* history: jobs run to their end
    cutShort,   \* history: jobs given up halfway and counted as processed
    faults      \* how many faults there have been

redisVars == <<redis, pending>>
apiVars == <<step, asked, acked, tries, accepted>>
workerVars == <<at, stopping, job, finished, cutShort>>
vars == <<redisVars, apiVars, workerVars, entered, faults>>

NoAnswer == -1
Jobs == Requests \X (0..(MaxCount - 1))

Init ==
    /\ redis = "up" /\ pending = <<>>
    /\ step = [r \in Requests |-> "idle"]
    /\ asked = [r \in Requests |-> 0]
    /\ acked = [r \in Requests |-> 0]
    /\ tries = [r \in Requests |-> 0]
    /\ accepted = [r \in Requests |-> NoAnswer]
    /\ at = [c \in Consumers |-> "loop"]
    /\ stopping = [c \in Consumers |-> FALSE]
    /\ job = [c \in Consumers |-> NoJob]
    /\ entered = {} /\ finished = {} /\ cutShort = {}
    /\ faults = 0

Fault == faults < MaxFaults /\ faults' = faults + 1

--------------------------------------------------------------------------------
(* The API: handleEnqueue and Queue.Enqueue. *)

Answer(r, n) ==
    /\ step' = [step EXCEPT ![r] = "answered"]
    /\ accepted' = [accepted EXCEPT ![r] = n]

\* The request is decoded and its count validated.
Receive(r, count) ==
    /\ step[r] = "idle"
    /\ IF count \in 1..MaxCount
       THEN /\ step' = [step EXCEPT ![r] = "push"]
            /\ asked' = [asked EXCEPT ![r] = count]
            /\ UNCHANGED accepted
       ELSE Answer(r, 0) /\ UNCHANGED asked
    /\ UNCHANGED <<redisVars, acked, tries, workerVars, entered, faults>>

\* Mutants of PushJob: no memory limit; the wrong end of the list.
PushJobUnbounded(r) ==
    /\ redis = "up"
    /\ pending' = Cons(<<r, acked[r]>>, pending)
    /\ entered' = entered \cup {<<r, acked[r]>>}

PushJobAtTail(r) ==
    /\ redis = "up" /\ Len(pending) < Capacity
    /\ pending' = Append(pending, <<r, acked[r]>>)
    /\ entered' = entered \cup {<<r, acked[r]>>}

\* LPUSH: the job that is next enters at the head of the list.
PushJob(r) ==
    /\ redis = "up" /\ Len(pending) < Capacity
    /\ pending' = Cons(<<r, acked[r]>>, pending)
    /\ entered' = entered \cup {<<r, acked[r]>>}

PushSucceeds(r) ==
    /\ step[r] = "push" /\ acked[r] < asked[r]
    /\ PushJob(r)
    /\ acked' = [acked EXCEPT ![r] = @ + 1]
    /\ tries' = [tries EXCEPT ![r] = 0]
    /\ UNCHANGED <<redis, step, asked, accepted, workerVars, faults>>

\* Mutants of AttemptFailed: the handler answers what was asked for; the client
\* never gives up.
AnswerWhatWasAsked(r) ==
    IF tries[r] + 1 < MaxAttempts
    THEN tries' = [tries EXCEPT ![r] = @ + 1] /\ UNCHANGED <<step, accepted>>
    ELSE Answer(r, asked[r]) /\ UNCHANGED tries

RetryForever(r) == UNCHANGED <<tries, step, accepted>>

\* An attempt that brought no answer is repeated by the client; after the last
\* one Enqueue returns an error, and the handler answers 503 with the pushes
\* that were acknowledged.
AttemptFailed(r) ==
    IF tries[r] + 1 < MaxAttempts
    THEN tries' = [tries EXCEPT ![r] = @ + 1] /\ UNCHANGED <<step, accepted>>
    ELSE Answer(r, acked[r]) /\ UNCHANGED tries

\* Redis is not reached, or the connection breaks before it has read the push.
PushUnsent(r) ==
    /\ step[r] = "push" /\ acked[r] < asked[r]
    /\ IF redis = "down" THEN UNCHANGED faults ELSE Fault
    /\ AttemptFailed(r)
    /\ UNCHANGED <<redisVars, asked, acked, workerVars, entered>>

\* The connection breaks after Redis has executed the push.
PushReplyLost(r) ==
    /\ step[r] = "push" /\ acked[r] < asked[r]
    /\ PushJob(r)
    /\ AttemptFailed(r)
    /\ Fault
    /\ UNCHANGED <<redis, asked, acked, workerVars>>

\* maxmemory-policy noeviction: the write is refused, which is not retried.
PushRefused(r) ==
    /\ step[r] = "push" /\ acked[r] < asked[r]
    /\ redis = "up" /\ Len(pending) >= Capacity
    /\ Answer(r, acked[r])
    /\ UNCHANGED <<redisVars, asked, acked, tries, workerVars, entered, faults>>

\* The loop is over; the depth is read for the response, which does not depend
\* on whether that succeeds.
Accept(r) ==
    /\ step[r] = "push" /\ acked[r] = asked[r]
    /\ Answer(r, acked[r])
    /\ UNCHANGED <<redisVars, asked, acked, tries, workerVars, entered, faults>>

\* The client goes away, which cancels the request's context, or the pod dies.
Disconnect(r) ==
    /\ step[r] = "push"
    /\ step' = [step EXCEPT ![r] = "gone"]
    /\ UNCHANGED <<redisVars, asked, acked, tries, accepted, workerVars, entered, faults>>

--------------------------------------------------------------------------------
(* The worker: consume, Queue.Dequeue and work.Do. *)

Move(c, place) == at' = [at EXCEPT ![c] = place]

\* Mutant of RemoveOldest: the job is read and stays on the list.
LeaveInPlace == UNCHANGED pending

RemoveOldest == pending' = Front(pending)

\* Mutant of StartPop: the context is not looked at.
StartPopRegardless(c) ==
    /\ at[c] = "loop"
    /\ Move(c, "pop")
    /\ UNCHANGED <<redisVars, apiVars, stopping, job, finished, cutShort, entered, faults>>

\* The top of the loop looks at the context before the next pop.
StartPop(c) ==
    /\ at[c] = "loop"
    /\ Move(c, IF stopping[c] THEN "exited" ELSE "pop")
    /\ UNCHANGED <<redisVars, apiVars, stopping, job, finished, cutShort, entered, faults>>

\* BRPOP takes the tail of the list.  A pop that is under way does not see the
\* context being cancelled, so a stopping consumer may still take a job.  What
\* Dequeue drops as malformed (queue.go:100-103) is never on the list: only
\* Enqueue writes to it.
PopJob(c) ==
    /\ at[c] = "pop"
    /\ redis = "up" /\ pending # <<>>
    /\ job' = [job EXCEPT ![c] = Last(pending)]
    /\ RemoveOldest
    /\ Move(c, "work")
    /\ UNCHANGED <<redis, apiVars, stopping, finished, cutShort, entered, faults>>

\* ErrEmpty after dequeueTimeout.
PopEmpty(c) ==
    /\ at[c] = "pop"
    /\ redis = "up" /\ pending = <<>>
    /\ Move(c, "loop")
    /\ UNCHANGED <<redisVars, apiVars, stopping, job, finished, cutShort, entered, faults>>

\* An error before the pop is executed: backoff, or return when the context is
\* cancelled (either as the error itself or in the wait that follows it).
PopFails(c) ==
    /\ at[c] = "pop"
    /\ IF redis = "down" \/ stopping[c] THEN UNCHANGED faults ELSE Fault
    /\ Move(c, IF stopping[c] THEN "exited" ELSE "backoff")
    /\ UNCHANGED <<redisVars, apiVars, stopping, job, finished, cutShort, entered>>

\* Redis executes the pop and the connection breaks before the answer: the job
\* is gone, and the client sends the command again or reports the error.
PopReplyLost(c) ==
    /\ at[c] = "pop"
    /\ redis = "up" /\ pending # <<>>
    /\ RemoveOldest
    /\ \E place \in {"pop", "backoff"} : Move(c, place)
    /\ Fault
    /\ UNCHANGED <<redis, apiVars, stopping, job, finished, cutShort, entered>>

\* Mutant of BackoffEnds: only the context ends the wait.
BackoffUntilStopped(c) ==
    /\ at[c] = "backoff" /\ stopping[c]
    /\ Move(c, "exited")
    /\ UNCHANGED <<redisVars, apiVars, stopping, job, finished, cutShort, entered, faults>>

BackoffEnds(c) ==
    /\ at[c] = "backoff"
    /\ Move(c, IF stopping[c] THEN "exited" ELSE "loop")
    /\ UNCHANGED <<redisVars, apiVars, stopping, job, finished, cutShort, entered, faults>>

\* work.Do returns: at its deadline, or early because the context is cancelled.
\* The loop cannot tell the two apart and counts the job as processed.
WorkReturns(c) ==
    /\ at[c] = "work"
    /\ \/ finished' = finished \cup {job[c]} /\ UNCHANGED cutShort
       \/ stopping[c] /\ cutShort' = cutShort \cup {job[c]} /\ UNCHANGED finished
    /\ job' = [job EXCEPT ![c] = NoJob]
    /\ Move(c, "loop")
    /\ UNCHANGED <<redisVars, apiVars, stopping, entered, faults>>

ConsumerStep(c) ==
    \/ StartPop(c) \/ PopJob(c) \/ PopEmpty(c) \/ PopFails(c) \/ BackoffEnds(c) \/ WorkReturns(c)

\* SIGTERM: a scale-down, a rollout, a drained node.
Terminate(c) ==
    /\ at[c] # "exited" /\ ~stopping[c]
    /\ stopping' = [stopping EXCEPT ![c] = TRUE]
    /\ UNCHANGED <<redisVars, apiVars, at, job, finished, cutShort, entered, faults>>

\* SIGKILL: the grace period is over, or the pod ran out of memory.
Kill(c) ==
    /\ at[c] # "exited"
    /\ Move(c, "exited")
    /\ job' = [job EXCEPT ![c] = NoJob]
    /\ Fault
    /\ UNCHANGED <<redisVars, apiVars, stopping, finished, cutShort, entered>>

\* The Deployment or its autoscaler starts a pod.
StartPod(c) ==
    /\ at[c] = "exited"
    /\ Move(c, "loop")
    /\ stopping' = [stopping EXCEPT ![c] = FALSE]
    /\ UNCHANGED <<redisVars, apiVars, job, finished, cutShort, entered, faults>>

--------------------------------------------------------------------------------
(* Redis: one replica, strategy Recreate, no snapshots and no append-only file. *)

RedisDies ==
    /\ redis = "up"
    /\ redis' = "down" /\ pending' = <<>>
    /\ Fault
    /\ UNCHANGED <<apiVars, workerVars, entered>>

RedisStarts ==
    /\ redis = "down"
    /\ redis' = "up"
    /\ UNCHANGED <<pending, apiVars, workerVars, entered, faults>>

--------------------------------------------------------------------------------
HandlerStep(r) ==
    \/ PushSucceeds(r) \/ PushUnsent(r) \/ PushReplyLost(r) \/ PushRefused(r) \/ Accept(r)

Next ==
    \/ \E r \in Requests :
          (\E count \in 0..(MaxCount + 1) : Receive(r, count)) \/ HandlerStep(r) \/ Disconnect(r)
    \/ \E c \in Consumers :
          ConsumerStep(c) \/ PopReplyLost(c) \/ Terminate(c) \/ Kill(c) \/ StartPod(c)
    \/ RedisDies
    \/ RedisStarts

Spec == Init /\ [][Next]_vars

--------------------------------------------------------------------------------
TypeOK ==
    /\ redis \in {"up", "down"}
    /\ pending \in Seq(Jobs) /\ Len(pending) <= Capacity
    /\ step \in [Requests -> {"idle", "push", "answered", "gone"}]
    /\ asked \in [Requests -> 0..MaxCount]
    /\ acked \in [Requests -> 0..MaxCount]
    /\ tries \in [Requests -> 0..(MaxAttempts - 1)]
    /\ accepted \in [Requests -> {NoAnswer} \cup 0..MaxCount]
    /\ at \in [Consumers -> {"loop", "pop", "backoff", "work", "exited"}]
    /\ stopping \in [Consumers -> BOOLEAN]
    /\ job \in [Consumers -> Jobs \cup {NoJob}]
    /\ entered \subseteq Jobs /\ finished \subseteq Jobs /\ cutShort \subseteq Jobs
    /\ faults \in 0..MaxFaults

Held == {job[c] : c \in Consumers} \ {NoJob}
Waiting == ToSet(pending)

\* The count in a response is never more than what entered the queue, through
\* retries, a full Redis and a Redis that restarts between two pushes
\* (api/main.go:195-203): no caller is told of backlog that was never created.
AcceptedNeverOverstated ==
    \A r \in Requests : \A i \in 0..(accepted[r] - 1) : <<r, i>> \in entered

\* As long as nothing crashes and no connection breaks, and however many pods
\* are started and stopped meanwhile, every job that entered the queue is in
\* exactly one place: waiting once, held by one consumer, run to its end, or cut
\* short by a pod told to stop, which the worker counts as processed (see
\* ScaleDownLossless).
ExactlyOnceWithoutFaults ==
    faults = 0 =>
        /\ entered = Waiting \cup Held \cup finished \cup cutShort
        /\ IsInjective(pending)
        /\ \A c, d \in Consumers : c # d /\ job[c] # NoJob => job[c] # job[d]
        /\ Waiting \cap Held = {}
        /\ finished \cap cutShort = {}
        /\ (finished \cup cutShort) \cap (Waiting \cup Held) = {}

\* The pushes the API knows to have been executed.
Confirmed == {j \in Jobs : j[2] < acked[j[1]]}

Backlog == INSTANCE LossyQueue WITH
               waiting <- Reverse(pending), held <- job, confirmed <- Confirmed

\* "jobs enter at the head and leave from the tail" (queue.go:76-77): the list
\* and the pops of all consumers together are a first-in first-out queue that
\* hands each of its entries to one consumer.  The client's retries make a
\* second entry of a job only while its first push is not acknowledged; no job
\* the response counts is pushed again.
IsLossyFifo == Backlog!Spec

\* A pod told to stop does, wherever in its loop it is and whether or not Redis
\* answers (worker/main.go:96-118), so the grace period is not what ends it.
StoppingPodExits == \A c \in Consumers : stopping[c] ~> at[c] = "exited"

\* A request is answered or its client is gone, also while Redis is down
\* (queue.go:46-47: "Bounded so a wedged backend surfaces").
RequestsAreAnswered ==
    \A r \in Requests : step[r] = "push" ~> step[r] \in {"answered", "gone"}

\* Where some consumer is left alone and Redis stays up, the backlog drains.
BacklogDrains ==
    \A c \in Consumers :
        <>[](redis = "up" /\ at[c] # "exited" /\ ~stopping[c]) => []<>(pending = <<>>)

--------------------------------------------------------------------------------
(* What the documentation says and the code does not do. *)

\* "waiting for them is what makes a scale-down lossless.  KEDA removing a
\* replica must not drop a job" (worker/main.go:77-78): without a fault no job
\* is given up halfway.
ScaleDownLossless == faults = 0 => cutShort = {}
================================================================================
