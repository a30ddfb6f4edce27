----------------------------- MODULE JobQueueProofs -----------------------------
(***************************************************************************)
(* Proofs about the demo workload, for any number of requests and workers, *)
(* any capacity, any number of attempts per command and any number of      *)
(* faults.                                                                 *)
(***************************************************************************)
EXTENDS JobQueue, SequenceTheorems, TLAPS

\* The handler's loop variable stands for jobs that did enter the queue, and a
\* consumer holds a job exactly while it works.
Ind ==
    /\ TypeOK
    /\ \A r \in Requests : acked[r] <= asked[r] /\ accepted[r] <= acked[r]
    /\ \A r \in Requests : step[r] = "idle" => acked[r] = 0
    /\ \A r \in Requests : \A i \in 0..(acked[r] - 1) : <<r, i>> \in entered
    /\ \A c \in Consumers : at[c] = "work" <=> job[c] # NoJob

--------------------------------------------------------------------------------
LEMMA PushedList ==
    ASSUME NEW S, NEW s \in Seq(S), NEW e \in S
    PROVE  /\ <<e>> \o s \in Seq(S)
           /\ Len(<<e>> \o s) = Len(s) + 1
           /\ \A i \in 1..(Len(s) + 1) : (<<e>> \o s)[i] = IF i = 1 THEN e ELSE s[i - 1]
<1>1. <<e>> \in Seq(S) /\ Len(<<e>>) = 1 /\ <<e>>[1] = e
  OBVIOUS
<1>2. QED
  BY <1>1, ConcatProperties, LenProperties

LEMMA PoppedList ==
    ASSUME NEW S, NEW s \in Seq(S), s # <<>>
    PROVE  /\ Len(s) \in Nat \ {0} /\ s[Len(s)] \in S
           /\ SubSeq(s, 1, Len(s) - 1) \in Seq(S)
           /\ Len(SubSeq(s, 1, Len(s) - 1)) = Len(s) - 1
           /\ \A i \in 1..(Len(s) - 1) : SubSeq(s, 1, Len(s) - 1)[i] = s[i]
<1>1. Len(s) \in Nat \ {0}
  BY EmptySeq
<1>2. \A i \in 1..Len(s) : s[i] \in S
  BY ElementOfSeq
<1> DEFINE n == Len(s) - 1
<1>3. n \in Int /\ \A i \in 1..n : s[i] \in S
  BY <1>1, <1>2
<1>4. /\ SubSeq(s, 1, n) \in Seq(S)
      /\ Len(SubSeq(s, 1, n)) = IF 1 <= n THEN n - 1 + 1 ELSE 0
      /\ \A i \in 1..(n - 1 + 1) : SubSeq(s, 1, n)[i] = s[1 + i - 1]
  BY <1>3, SubSeqProperties
<1>5. Len(SubSeq(s, 1, n)) = n
  <2>1. CASE n = 0
    BY <2>1, <1>4
  <2>2. CASE n # 0
    <3>1. 1 <= n /\ n - 1 + 1 = n
      BY <2>2, <1>1
    <3> HIDE DEF n
    <3>2. QED
      BY <3>1, <1>4
  <2>3. QED
    BY <2>1, <2>2
<1>6. ASSUME NEW i \in 1..n PROVE SubSeq(s, 1, n)[i] = s[i]
  <2>1. i \in 1..(n - 1 + 1) /\ 1 + i - 1 = i
    BY <1>3
  <2>2. QED
    BY <2>1, <1>4
<1>7. s[Len(s)] \in S
  BY <1>1, <1>2
<1>8. QED
  BY <1>1, <1>4, <1>5, <1>6, <1>7

LEMMA JobIsReal == NoJob \notin Jobs
  BY SizesAreNatural DEF Jobs

LEMMA InitInd == Init => Ind
<1> SUFFICES ASSUME Init PROVE Ind
  OBVIOUS
<1>1. <<>> \in Seq(Jobs) /\ Len(<<>>) = 0
  BY EmptySeq
<1>2. QED
  BY <1>1, SizesAreNatural DEF Init, Ind, TypeOK, NoAnswer

\* A push that Redis executes leaves a well-typed list and history.
LEMMA PushJobType ==
    ASSUME Ind, NEW r \in Requests, acked[r] < asked[r], PushJob(r)
    PROVE  /\ <<r, acked[r]>> \in Jobs
           /\ pending' \in Seq(Jobs) /\ Len(pending') <= Capacity
           /\ entered' \subseteq Jobs
<1>1. <<r, acked[r]>> \in Jobs
  BY SizesAreNatural DEF Ind, TypeOK, Jobs
<1>2. pending \in Seq(Jobs) /\ Len(pending) \in Nat /\ Len(pending) < Capacity
  BY LenProperties DEF Ind, TypeOK, PushJob
<1>3. pending' \in Seq(Jobs) /\ Len(pending') = Len(pending) + 1
  BY <1>1, <1>2, PushedList DEF PushJob, Cons
<1>4. Len(pending') <= Capacity
  BY <1>2, <1>3, SizesAreNatural
<1>5. entered' \subseteq Jobs
  BY <1>1 DEF PushJob, Ind, TypeOK
<1>6. QED
  BY <1>1, <1>3, <1>4, <1>5

\* A pop that Redis executes hands over a job and leaves a well-typed list.
LEMMA PopType ==
    ASSUME Ind, pending # <<>>, RemoveOldest
    PROVE  /\ Last(pending) \in Jobs
           /\ pending' \in Seq(Jobs) /\ Len(pending') <= Capacity
  BY PoppedList, SizesAreNatural DEF RemoveOldest, Last, Front, Ind, TypeOK

\* The counters of a request are integers.
LEMMA Counters ==
    ASSUME TypeOK
    PROVE  /\ \A r \in Requests : /\ asked[r] \in Nat /\ asked[r] <= MaxCount
                                 /\ acked[r] \in Nat /\ acked[r] <= MaxCount
                                 /\ tries[r] \in Nat /\ tries[r] < MaxAttempts
                                 /\ accepted[r] \in Int
           /\ MaxCount \in Nat /\ MaxAttempts \in Nat
  BY SizesAreNatural DEF TypeOK, NoAnswer

\* Answering with the pushes acknowledged, or with none, keeps the counts right.
LEMMA AnswerInd ==
    ASSUME Ind, NEW r \in Requests, NEW n \in {0, acked[r]}, Answer(r, n)
    PROVE  /\ step' \in [Requests -> {"idle", "push", "answered", "gone"}]
           /\ accepted' \in [Requests -> {NoAnswer} \cup 0..MaxCount]
           /\ \A q \in Requests : accepted'[q] <= acked[q]
           /\ \A q \in Requests : step'[q] = "idle" => acked[q] = 0
<1>1. n \in 0..MaxCount /\ n <= acked[r]
  BY Counters DEF Ind
<1>2. QED
  BY <1>1 DEF Answer, Ind, TypeOK

LEMMA AttemptFailedInd ==
    ASSUME Ind, NEW r \in Requests, AttemptFailed(r)
    PROVE  /\ step' \in [Requests -> {"idle", "push", "answered", "gone"}]
           /\ accepted' \in [Requests -> {NoAnswer} \cup 0..MaxCount]
           /\ tries' \in [Requests -> 0..(MaxAttempts - 1)]
           /\ \A q \in Requests : accepted'[q] <= acked[q]
           /\ \A q \in Requests : step'[q] = "idle" => acked[q] = 0
<1>1. CASE tries[r] + 1 < MaxAttempts
  <2>1. tries[r] + 1 \in 0..(MaxAttempts - 1)
    BY <1>1, Counters DEF Ind
  <2>2. QED
    BY <1>1, <2>1 DEF AttemptFailed, Ind, TypeOK
<1>2. CASE ~(tries[r] + 1 < MaxAttempts)
  BY <1>2, AnswerInd DEF AttemptFailed, Ind, TypeOK
<1>3. QED
  BY <1>1, <1>2

LEMMA ApiStepInd ==
    ASSUME Ind, NEW r \in Requests,
           (\E count \in 0..(MaxCount + 1) : Receive(r, count)) \/ HandlerStep(r) \/ Disconnect(r)
    PROVE  Ind'
<1>1. ASSUME NEW count \in 0..(MaxCount + 1), Receive(r, count) PROVE Ind'
  <2>1. CASE count \in 1..MaxCount
    <3>1. /\ step[r] = "idle" /\ step' = [step EXCEPT ![r] = "push"]
          /\ asked' = [asked EXCEPT ![r] = count] /\ count \in 0..MaxCount /\ 0 <= count
          /\ UNCHANGED <<redisVars, acked, tries, accepted, workerVars, entered, faults>>
      BY <1>1, <2>1, Counters DEF Receive, Ind
    <3>2. TypeOK'
      BY <3>1 DEF Ind, TypeOK, redisVars, workerVars
    <3>3. acked[r] = 0
      BY <3>1 DEF Ind
    <3>4. QED
      BY <3>1, <3>2, <3>3 DEF Ind, TypeOK, workerVars
  <2>2. CASE count \notin 1..MaxCount
    BY <1>1, <2>2, AnswerInd DEF Receive, Ind, TypeOK, redisVars, workerVars
  <2>3. QED
    BY <2>1, <2>2
<1>2. CASE PushSucceeds(r)
  <2>1. PushJob(r) /\ acked[r] < asked[r] /\ <<r, acked[r]>> \in entered'
    BY <1>2 DEF PushSucceeds, PushJob
  <2>2. /\ acked' = [acked EXCEPT ![r] = @ + 1] /\ tries' = [tries EXCEPT ![r] = 0]
        /\ entered \subseteq entered'
        /\ UNCHANGED <<redis, step, asked, accepted, workerVars, faults>>
    BY <1>2 DEF PushSucceeds, PushJob
  <2>3. acked[r] + 1 \in 0..MaxCount /\ acked[r] + 1 <= asked[r] /\ 0 \in 0..(MaxAttempts - 1)
    BY <2>1, Counters DEF Ind
  <2>4. TypeOK'
    BY <2>1, <2>2, <2>3, PushJobType DEF Ind, TypeOK, workerVars
  <2>5. \A q \in Requests : acked'[q] <= asked'[q] /\ accepted'[q] <= acked'[q]
    BY <2>2, <2>3, Counters DEF Ind, TypeOK
  <2>6. ASSUME NEW q \in Requests, NEW i \in 0..(acked'[q] - 1) PROVE <<q, i>> \in entered'
    <3>1. CASE i \in 0..(acked[q] - 1)
      BY <3>1, <2>2 DEF Ind
    <3>2. CASE i \notin 0..(acked[q] - 1)
      <4>1. q = r /\ i = acked[r]
        BY <3>2, <2>2, Counters DEF Ind, TypeOK
      <4>2. QED
        BY <4>1, <2>1
    <3>3. QED
      BY <3>1, <3>2
  <2>7. QED
    BY <1>2, <2>2, <2>4, <2>5, <2>6 DEF PushSucceeds, Ind, TypeOK, workerVars
<1>3. CASE PushUnsent(r)
  <2>1. faults' \in 0..MaxFaults
    BY <1>3, SizesAreNatural DEF PushUnsent, Fault, Ind, TypeOK
  <2>2. AttemptFailed(r) /\ UNCHANGED <<redisVars, asked, acked, workerVars, entered>>
    BY <1>3 DEF PushUnsent
  <2>3. QED
    BY <2>1, <2>2, AttemptFailedInd DEF Ind, TypeOK, redisVars, workerVars
<1>4. CASE PushReplyLost(r)
  <2>1. faults' \in 0..MaxFaults
    BY <1>4, SizesAreNatural DEF PushReplyLost, Fault, Ind, TypeOK
  <2>2. /\ AttemptFailed(r) /\ PushJob(r) /\ acked[r] < asked[r] /\ entered \subseteq entered'
        /\ UNCHANGED <<redis, asked, acked, workerVars>>
    BY <1>4 DEF PushReplyLost, PushJob
  <2>3. QED
    BY <2>1, <2>2, AttemptFailedInd, PushJobType DEF Ind, TypeOK, workerVars
<1>5. CASE PushRefused(r)
  BY <1>5, AnswerInd DEF PushRefused, Ind, TypeOK, redisVars, workerVars
<1>6. CASE Accept(r)
  BY <1>6, AnswerInd DEF Accept, Ind, TypeOK, redisVars, workerVars
<1>7. CASE Disconnect(r)
  BY <1>7 DEF Disconnect, Ind, TypeOK, redisVars, workerVars
<1>8. QED
  BY <1>1, <1>2, <1>3, <1>4, <1>5, <1>6, <1>7 DEF HandlerStep

LEMMA WorkerStepInd ==
    ASSUME Ind, NEW c \in Consumers,
           ConsumerStep(c) \/ PopReplyLost(c) \/ Terminate(c) \/ Kill(c) \/ StartPod(c)
    PROVE  Ind'
<1>1. CASE StartPop(c)
  BY <1>1 DEF StartPop, Move, Ind, TypeOK, redisVars, apiVars
<1>2. CASE PopJob(c)
  BY <1>2, PopType, JobIsReal DEF PopJob, Move, Ind, TypeOK, apiVars
<1>3. CASE PopEmpty(c)
  BY <1>3 DEF PopEmpty, Move, Ind, TypeOK, redisVars, apiVars
<1>4. CASE PopFails(c)
  BY <1>4, SizesAreNatural DEF PopFails, Fault, Move, Ind, TypeOK, redisVars, apiVars
<1>5. CASE PopReplyLost(c)
  BY <1>5, PopType, SizesAreNatural DEF PopReplyLost, Fault, Move, Ind, TypeOK, apiVars
<1>6. CASE BackoffEnds(c)
  BY <1>6 DEF BackoffEnds, Move, Ind, TypeOK, redisVars, apiVars
<1>7. CASE WorkReturns(c)
  BY <1>7 DEF WorkReturns, Move, Ind, TypeOK, redisVars, apiVars
<1>8. CASE Terminate(c)
  BY <1>8 DEF Terminate, Ind, TypeOK, redisVars, apiVars
<1>9. CASE Kill(c)
  BY <1>9, SizesAreNatural DEF Kill, Fault, Move, Ind, TypeOK, redisVars, apiVars
<1>10. CASE StartPod(c)
  BY <1>10 DEF StartPod, Move, Ind, TypeOK, redisVars, apiVars
<1>11. QED
  BY <1>1, <1>2, <1>3, <1>4, <1>5, <1>6, <1>7, <1>8, <1>9, <1>10 DEF ConsumerStep

LEMMA NextInd == Ind /\ [Next]_vars => Ind'
<1> SUFFICES ASSUME Ind, [Next]_vars PROVE Ind'
  OBVIOUS
<1>1. CASE UNCHANGED vars
  BY <1>1 DEF vars, redisVars, apiVars, workerVars, Ind, TypeOK
<1>2. CASE RedisDies
  <2>1. <<>> \in Seq(Jobs) /\ Len(<<>>) = 0
    BY EmptySeq
  <2>2. QED
    BY <1>2, <2>1, SizesAreNatural DEF RedisDies, Fault, apiVars, workerVars, Ind, TypeOK
<1>3. CASE RedisStarts
  BY <1>3 DEF RedisStarts, apiVars, workerVars, Ind, TypeOK
<1>4. QED
  BY <1>1, <1>2, <1>3, ApiStepInd, WorkerStepInd DEF Next

LEMMA SpecInd == Spec => []Ind
<1>1. QED
  BY InitInd, NextInd, PTL DEF Spec

\* Every state the workload reaches is well typed, and the list never outgrows
\* the memory Redis has.
THEOREM TypeCorrect == Spec => []TypeOK
<1>1. Ind => TypeOK
  BY DEF Ind
<1>2. QED
  BY <1>1, SpecInd, PTL

LEMMA AcceptedFromInd == Ind => AcceptedNeverOverstated
<1> SUFFICES ASSUME Ind, NEW r \in Requests, NEW i \in 0..(accepted[r] - 1)
             PROVE  <<r, i>> \in entered
  BY DEF AcceptedNeverOverstated
<1>1. i \in 0..(acked[r] - 1)
  BY Counters DEF Ind
<1>2. QED
  BY <1>1 DEF Ind

\* No response ever counts a job that did not enter the queue.
THEOREM AcceptedHonest == Spec => []AcceptedNeverOverstated
BY AcceptedFromInd, SpecInd, PTL
--------------------------------------------------------------------------------
(* The queue is first in, first out. *)

LEMMA ReverseOfPushed ==
    ASSUME NEW S, NEW s \in Seq(S), NEW e \in S
    PROVE  Reverse(Cons(e, s)) = Append(Reverse(s), e)
<1>1. Len(s) \in Nat
  BY LenProperties
<1>2. /\ Cons(e, s) \in Seq(S) /\ Len(Cons(e, s)) = Len(s) + 1
      /\ \A i \in 1..(Len(s) + 1) : Cons(e, s)[i] = IF i = 1 THEN e ELSE s[i - 1]
  BY PushedList DEF Cons
<1>3. Reverse(s) \in Seq(S) /\ Len(Reverse(s)) = Len(s)
  BY <1>1, ElementOfSeq DEF Reverse
<1>4. Reverse(Cons(e, s)) \in Seq(S) /\ Len(Reverse(Cons(e, s))) = Len(s) + 1
  BY <1>1, <1>2, ElementOfSeq DEF Reverse
<1>5. Append(Reverse(s), e) \in Seq(S) /\ Len(Append(Reverse(s), e)) = Len(s) + 1
  BY <1>3
<1>6. ASSUME NEW i \in 1..(Len(s) + 1)
      PROVE  Reverse(Cons(e, s))[i] = Append(Reverse(s), e)[i]
  <2>1. Reverse(Cons(e, s))[i] = Cons(e, s)[Len(s) + 1 - i + 1]
    BY <1>2 DEF Reverse
  <2>2. CASE i = Len(s) + 1
    BY <2>1, <2>2, <1>1, <1>2, <1>3
  <2>3. CASE i # Len(s) + 1
    <3>1. i \in 1..Len(s) /\ Len(s) + 1 - i + 1 \in 2..(Len(s) + 1)
      BY <2>3, <1>1
    <3>2. Append(Reverse(s), e)[i] = Reverse(s)[i]
      BY <3>1, <1>3
    <3>3. Reverse(s)[i] = s[Len(s) - i + 1]
      BY <3>1 DEF Reverse
    <3>4. Cons(e, s)[Len(s) + 1 - i + 1] = s[Len(s) - i + 1]
      BY <3>1, <1>1, <1>2
    <3>5. QED
      BY <2>1, <3>2, <3>3, <3>4
  <2>4. QED
    BY <2>2, <2>3
<1>7. QED
  BY <1>4, <1>5, <1>6, SeqEqual

LEMMA ReverseOfPopped ==
    ASSUME NEW S, NEW s \in Seq(S), s # <<>>
    PROVE  /\ Reverse(s) # <<>>
           /\ Head(Reverse(s)) = Last(s)
           /\ Reverse(Front(s)) = Tail(Reverse(s))
<1>1. /\ Len(s) \in Nat \ {0}
      /\ Front(s) \in Seq(S) /\ Len(Front(s)) = Len(s) - 1
      /\ \A i \in 1..(Len(s) - 1) : Front(s)[i] = s[i]
  BY PoppedList DEF Front
<1>2. /\ Reverse(s) \in Seq(S) /\ Len(Reverse(s)) = Len(s)
      /\ \A i \in 1..Len(s) : Reverse(s)[i] = s[Len(s) - i + 1]
  BY <1>1, ElementOfSeq DEF Reverse
<1>3. Reverse(s) # <<>>
  BY <1>1, <1>2
<1>4. Head(Reverse(s)) = Last(s)
  BY <1>1, <1>2, <1>3 DEF Last
<1>5. /\ Tail(Reverse(s)) \in Seq(S) /\ Len(Tail(Reverse(s))) = Len(s) - 1
      /\ \A i \in 1..(Len(s) - 1) : Tail(Reverse(s))[i] = Reverse(s)[i + 1]
  BY <1>2, <1>3, HeadTailProperties
<1>6. /\ Reverse(Front(s)) \in Seq(S) /\ Len(Reverse(Front(s))) = Len(s) - 1
      /\ \A i \in 1..(Len(s) - 1) : Reverse(Front(s))[i] = Front(s)[Len(s) - 1 - i + 1]
  BY <1>1, ElementOfSeq DEF Reverse
<1>7. ASSUME NEW i \in 1..(Len(s) - 1) PROVE Reverse(Front(s))[i] = Tail(Reverse(s))[i]
  <2>1. /\ i + 1 \in 1..Len(s) /\ Len(s) - 1 - i + 1 \in 1..(Len(s) - 1)
        /\ Len(s) - (i + 1) + 1 = Len(s) - 1 - i + 1
    BY <1>1
  <2>2. QED
    BY <2>1, <1>1, <1>2, <1>5, <1>6
<1>8. QED
  BY <1>3, <1>4, <1>5, <1>6, <1>7, SeqEqual

LEMMA ReverseOfEmpty == Reverse(<<>>) = <<>>
  BY DEF Reverse

LEMMA PushConfirms ==
    ASSUME Ind, NEW r \in Requests, acked' = [acked EXCEPT ![r] = @ + 1], <<r, acked[r]>> \in Jobs
    PROVE  Confirmed' = Confirmed \cup {<<r, acked[r]>>}
<1>1. ASSUME NEW j \in Jobs PROVE j \in Confirmed' <=> j \in Confirmed \/ j = <<r, acked[r]>>
  <2>1. j[1] \in Requests /\ j[2] \in Int /\ j = <<j[1], j[2]>>
    BY SizesAreNatural DEF Jobs
  <2>2. j \in Confirmed <=> j[2] < acked[j[1]]
    BY DEF Confirmed
  <2>3. j \in Confirmed' <=> j[2] < acked'[j[1]]
    BY DEF Confirmed, Jobs
  <2>4. acked[j[1]] \in Int /\ acked'[j[1]] = IF j[1] = r THEN acked[r] + 1 ELSE acked[j[1]]
    BY <2>1, Counters DEF Ind, TypeOK
  <2>5. j = <<r, acked[r]>> <=> j[1] = r /\ j[2] = acked[r]
    BY <2>1
  <2>6. QED
    BY <2>1, <2>2, <2>3, <2>4, <2>5
<1>2. Confirmed \subseteq Jobs /\ Confirmed' \subseteq Jobs
  BY DEF Confirmed, Jobs
<1>3. QED
  BY <1>1, <1>2

LEMMA StepRefines ==
    Ind /\ [Next]_vars => [Backlog!Next]_<<Reverse(pending), job, Confirmed>>
<1> SUFFICES ASSUME Ind, [Next]_vars
             PROVE  Backlog!Next \/ UNCHANGED <<Reverse(pending), job, Confirmed>>
  OBVIOUS
<1>1. ASSUME acked' = acked PROVE Confirmed' = Confirmed
  BY <1>1 DEF Confirmed, Jobs
<1>2. ASSUME NEW r \in Requests, PushJob(r), acked[r] < asked[r]
      PROVE  /\ <<r, acked[r]>> \in Jobs \ Confirmed
             /\ Reverse(pending') = Append(Reverse(pending), <<r, acked[r]>>)
  <2>1. <<r, acked[r]>> \in Jobs /\ pending \in Seq(Jobs)
    BY <1>2, PushJobType DEF Ind, TypeOK
  <2>2. <<r, acked[r]>> \notin Confirmed
    BY Counters DEF Confirmed, Ind
  <2>3. QED
    BY <1>2, <2>1, <2>2, ReverseOfPushed DEF PushJob
<1>3. ASSUME NEW r \in Requests, PushSucceeds(r) PROVE Backlog!Next
  <2>1. /\ PushJob(r) /\ acked[r] < asked[r] /\ UNCHANGED job
        /\ acked' = [acked EXCEPT ![r] = @ + 1]
    BY <1>3 DEF PushSucceeds, workerVars
  <2>2. QED
    BY <2>1, <1>2, PushConfirms DEF Backlog!Next, Backlog!Put
<1>4. ASSUME NEW r \in Requests, PushReplyLost(r) PROVE Backlog!Next
  <2>1. PushJob(r) /\ acked[r] < asked[r] /\ UNCHANGED <<job, acked>>
    BY <1>4 DEF PushReplyLost, workerVars
  <2>2. QED
    BY <2>1, <1>1, <1>2 DEF Backlog!Next, Backlog!PutUnconfirmed
<1>5. ASSUME NEW c \in Consumers, PopJob(c) PROVE Backlog!Next
  <2>1. /\ pending # <<>> /\ pending' = Front(pending) /\ pending \in Seq(Jobs)
        /\ job' = [job EXCEPT ![c] = Last(pending)] /\ job[c] = NoJob /\ UNCHANGED acked
    BY <1>5 DEF PopJob, RemoveOldest, Ind, TypeOK, apiVars
  <2>2. /\ Reverse(pending) # <<>> /\ Head(Reverse(pending)) = Last(pending)
        /\ Reverse(pending') = Tail(Reverse(pending))
    BY <2>1, ReverseOfPopped
  <2>3. QED
    BY <2>1, <2>2, <1>1 DEF Backlog!Next, Backlog!Take
<1>6. ASSUME NEW c \in Consumers, PopReplyLost(c) PROVE Backlog!Next
  <2>1. /\ pending # <<>> /\ pending' = Front(pending) /\ pending \in Seq(Jobs)
        /\ UNCHANGED <<job, acked>>
    BY <1>6 DEF PopReplyLost, RemoveOldest, Ind, TypeOK, apiVars
  <2>2. Reverse(pending) # <<>> /\ Reverse(pending') = Tail(Reverse(pending))
    BY <2>1, ReverseOfPopped
  <2>3. QED
    BY <2>1, <2>2, <1>1 DEF Backlog!Next, Backlog!LoseOldest
<1>7. ASSUME NEW c \in Consumers, WorkReturns(c) \/ Kill(c) PROVE Backlog!Next
  <2>1. job' = [job EXCEPT ![c] = NoJob] /\ UNCHANGED <<pending, acked>>
    BY <1>7 DEF WorkReturns, Kill, redisVars, apiVars
  <2>2. QED
    BY <2>1, <1>1 DEF Backlog!Next, Backlog!Release
<1>8. CASE RedisDies
  <2>1. pending' = <<>> /\ UNCHANGED <<job, acked>>
    BY <1>8 DEF RedisDies, workerVars, apiVars
  <2>2. QED
    BY <2>1, <1>1, ReverseOfEmpty DEF Backlog!Next, Backlog!LoseAll
<1>9. CASE UNCHANGED <<pending, job, acked>>
  BY <1>9, <1>1
<1>10. ASSUME NEW r \in Requests,
             (\E count \in 0..(MaxCount + 1) : Receive(r, count)) \/ HandlerStep(r) \/ Disconnect(r)
      PROVE  UNCHANGED <<pending, job, acked>> \/ PushSucceeds(r) \/ PushReplyLost(r)
  BY <1>10 DEF HandlerStep, Receive, PushUnsent, PushRefused, Accept, Disconnect, redisVars, workerVars
<1>11. ASSUME NEW c \in Consumers,
             ConsumerStep(c) \/ PopReplyLost(c) \/ Terminate(c) \/ Kill(c) \/ StartPod(c)
      PROVE  \/ UNCHANGED <<pending, job, acked>>
             \/ PopJob(c) \/ PopReplyLost(c) \/ WorkReturns(c) \/ Kill(c)
  BY <1>11 DEF ConsumerStep, StartPop, PopEmpty, PopFails, BackoffEnds, Terminate, StartPod,
     redisVars, apiVars
<1>12. QED
  BY <1>3, <1>4, <1>5, <1>6, <1>7, <1>8, <1>9, <1>10, <1>11
  DEF Next, vars, redisVars, apiVars, workerVars, RedisStarts

\* However requests, pods and crashes interleave, the list, the retries of the
\* client and the pops of all workers are a lossy first-in first-out queue, which
\* a job whose push was acknowledged does not enter again.
THEOREM Fifo == Spec => IsLossyFifo
<1>1. Init => Backlog!Init
  <2> SUFFICES ASSUME Init PROVE Backlog!Init
    OBVIOUS
  <2>1. Confirmed = {}
    BY SizesAreNatural DEF Init, Confirmed, Jobs
  <2>2. QED
    BY <2>1, ReverseOfEmpty DEF Init, Backlog!Init
<1>2. QED
  BY <1>1, SpecInd, StepRefines, PTL DEF Spec, IsLossyFifo, Backlog!Spec
--------------------------------------------------------------------------------
(* Nothing is lost or doubled without a fault. *)

\* The strengthening: the job a handler pushes next is new.
Fresh == faults = 0 => \A e \in entered : e[2] < acked[e[1]]

LEMMA WaitingAfterPush ==
    ASSUME NEW S, NEW s \in Seq(S), NEW e \in S
    PROVE  /\ ToSet(Cons(e, s)) = ToSet(s) \cup {e}
           /\ IsInjective(s) /\ e \notin ToSet(s) => IsInjective(Cons(e, s))
<1>1. /\ Len(s) \in Nat /\ DOMAIN s = 1..Len(s) /\ DOMAIN Cons(e, s) = 1..(Len(s) + 1)
      /\ \A i \in 1..(Len(s) + 1) : Cons(e, s)[i] = IF i = 1 THEN e ELSE s[i - 1]
  BY PushedList, LenProperties DEF Cons
<1>2. ToSet(Cons(e, s)) = ToSet(s) \cup {e}
  <2>1. ASSUME NEW x \in ToSet(Cons(e, s)) PROVE x \in ToSet(s) \cup {e}
    BY <1>1 DEF ToSet
  <2>2. Cons(e, s)[1] = e /\ 1 \in DOMAIN Cons(e, s)
    BY <1>1
  <2>3. ASSUME NEW i \in 1..Len(s) PROVE Cons(e, s)[i + 1] = s[i] /\ i + 1 \in DOMAIN Cons(e, s)
    BY <1>1
  <2>4. ToSet(s) \subseteq ToSet(Cons(e, s))
    BY <1>1, <2>3 DEF ToSet
  <2>5. e \in ToSet(Cons(e, s))
    BY <2>2 DEF ToSet
  <2>6. QED
    BY <2>1, <2>4, <2>5
<1>3. ASSUME IsInjective(s), e \notin ToSet(s),
             NEW i \in DOMAIN Cons(e, s), NEW j \in DOMAIN Cons(e, s),
             Cons(e, s)[i] = Cons(e, s)[j]
      PROVE  i = j
  <2>1. \A k \in 1..Len(s) : s[k] # e
    BY <1>1, <1>3 DEF ToSet
  <2>2. ASSUME NEW k \in DOMAIN Cons(e, s), k # 1
        PROVE  k - 1 \in 1..Len(s) /\ Cons(e, s)[k] = s[k - 1] /\ Cons(e, s)[k] # e
    BY <1>1, <2>1, <2>2
  <2>3. Cons(e, s)[1] = e
    BY <1>1
  <2>4. CASE i = 1 \/ j = 1
    BY <1>3, <2>2, <2>3, <2>4
  <2>5. CASE i # 1 /\ j # 1
    <3>1. i - 1 = j - 1
      BY <1>1, <1>3, <2>2, <2>5 DEF IsInjective
    <3>2. QED
      BY <3>1, <1>1
  <2>6. QED
    BY <2>4, <2>5
<1>4. QED
  BY <1>2, <1>3 DEF IsInjective

LEMMA WaitingAfterPop ==
    ASSUME NEW S, NEW s \in Seq(S), s # <<>>
    PROVE  /\ ToSet(s) = ToSet(Front(s)) \cup {Last(s)}
           /\ IsInjective(s) => IsInjective(Front(s)) /\ Last(s) \notin ToSet(Front(s))
<1>1. /\ Len(s) \in Nat \ {0} /\ DOMAIN s = 1..Len(s) /\ DOMAIN Front(s) = 1..(Len(s) - 1)
      /\ \A i \in 1..(Len(s) - 1) : Front(s)[i] = s[i]
  BY PoppedList, LenProperties DEF Front
<1>2. \A n \in Nat \ {0} : \A i \in 1..n : i = n \/ i \in 1..(n - 1)
  OBVIOUS
<1>3. \A n \in Nat \ {0} : n \in 1..n /\ \A i \in 1..(n - 1) : i \in 1..n /\ i # n
  OBVIOUS
<1>4. QED
  BY <1>1, <1>2, <1>3 DEF ToSet, Last, IsInjective

LEMMA ExactInit == Init => Fresh /\ ExactlyOnceWithoutFaults
  BY DEF Init, Fresh, ExactlyOnceWithoutFaults, Waiting, Held, ToSet, IsInjective

\* A step by which a job neither moves nor appears keeps the books.
LEMMA ExactUnmoved ==
    ASSUME Fresh, ExactlyOnceWithoutFaults, faults' = 0 => faults = 0,
           UNCHANGED <<pending, job, entered, finished, cutShort, acked>>
    PROVE  Fresh' /\ ExactlyOnceWithoutFaults'
  BY DEF Fresh, ExactlyOnceWithoutFaults, Waiting, Held

LEMMA ExactPush ==
    ASSUME Ind, Fresh, ExactlyOnceWithoutFaults, NEW r \in Requests, PushSucceeds(r)
    PROVE  Fresh' /\ ExactlyOnceWithoutFaults'
<1> SUFFICES ASSUME faults = 0 PROVE Fresh' /\ ExactlyOnceWithoutFaults'
  BY DEF PushSucceeds, Fresh, ExactlyOnceWithoutFaults
<1> DEFINE e == <<r, acked[r]>>
<1>1. /\ pending' = Cons(e, pending) /\ entered' = entered \cup {e}
      /\ acked' = [acked EXCEPT ![r] = @ + 1] /\ UNCHANGED <<faults, job, finished, cutShort>>
      /\ acked[r] < asked[r] /\ PushJob(r)
  BY DEF PushSucceeds, PushJob, workerVars
<1>2. e \in Jobs /\ pending \in Seq(Jobs)
  BY <1>1, PushJobType DEF Ind, TypeOK
<1>3. acked[r] \in Nat /\ e[1] = r /\ e[2] = acked[r]
  BY Counters DEF Ind
<1>4. e \notin entered
  BY <1>3 DEF Fresh
<1>5. Fresh'
  <2>1. ASSUME NEW x \in entered PROVE x[2] < acked'[x[1]]
    <3>1. x[1] \in Requests /\ x[2] \in Int /\ x[2] < acked[x[1]] /\ acked[x[1]] \in Nat
      BY Counters, SizesAreNatural DEF Fresh, Ind, TypeOK, Jobs
    <3>2. QED
      BY <1>1, <3>1 DEF Ind, TypeOK
  <2>2. e[2] < acked'[e[1]]
    BY <1>1, <1>3 DEF Ind, TypeOK
  <2>3. QED
    BY <1>1, <2>1, <2>2 DEF Fresh
<1>6. ExactlyOnceWithoutFaults'
  <2>1. Waiting' = Waiting \cup {e} /\ IsInjective(pending')
    <3>1. e \notin ToSet(pending) /\ IsInjective(pending)
      BY <1>4 DEF ExactlyOnceWithoutFaults, Waiting
    <3>2. QED
      BY <1>1, <1>2, <3>1, WaitingAfterPush DEF Waiting
  <2>2. Held' = Held
    BY <1>1 DEF Held
  <2>3. QED
    BY <1>1, <1>4, <2>1, <2>2 DEF ExactlyOnceWithoutFaults
<1>7. QED
  BY <1>5, <1>6

LEMMA ExactPop ==
    ASSUME Ind, Fresh, ExactlyOnceWithoutFaults, NEW c \in Consumers, PopJob(c)
    PROVE  Fresh' /\ ExactlyOnceWithoutFaults'
<1> SUFFICES ASSUME faults = 0 PROVE Fresh' /\ ExactlyOnceWithoutFaults'
  BY DEF PopJob, Fresh, ExactlyOnceWithoutFaults
<1>1. /\ pending # <<>> /\ pending' = Front(pending) /\ pending \in Seq(Jobs)
      /\ job' = [job EXCEPT ![c] = Last(pending)] /\ job[c] = NoJob
      /\ UNCHANGED <<acked, entered, finished, cutShort, faults>>
  BY DEF PopJob, RemoveOldest, Ind, TypeOK, apiVars
<1>2. /\ Waiting = Waiting' \cup {Last(pending)} /\ Last(pending) \notin Waiting'
      /\ IsInjective(pending')
  BY <1>1, WaitingAfterPop DEF Waiting, ExactlyOnceWithoutFaults
<1>3. Last(pending) \in Jobs /\ Last(pending) # NoJob
  BY <1>1, PoppedList, JobIsReal DEF Last
<1>4. Held' = Held \cup {Last(pending)} /\ Last(pending) \notin Held
  <2>1. Last(pending) \notin Held
    BY <1>2 DEF ExactlyOnceWithoutFaults
  <2>2. QED
    BY <1>1, <1>3, <2>1 DEF Held, Ind, TypeOK
<1>5. \A a, b \in Consumers : a # b /\ job'[a] # NoJob => job'[a] # job'[b]
  BY <1>1, <1>3, <1>4 DEF ExactlyOnceWithoutFaults, Held, Ind, TypeOK
<1>6. Fresh'
  BY <1>1 DEF Fresh
<1>7. QED
  BY <1>1, <1>2, <1>4, <1>5, <1>6 DEF ExactlyOnceWithoutFaults

LEMMA ExactWork ==
    ASSUME Ind, Fresh, ExactlyOnceWithoutFaults, NEW c \in Consumers, WorkReturns(c)
    PROVE  Fresh' /\ ExactlyOnceWithoutFaults'
<1> SUFFICES ASSUME faults = 0 PROVE Fresh' /\ ExactlyOnceWithoutFaults'
  BY DEF WorkReturns, Fresh, ExactlyOnceWithoutFaults
<1>1. /\ job[c] # NoJob /\ job' = [job EXCEPT ![c] = NoJob]
      /\ \/ finished' = finished \cup {job[c]} /\ UNCHANGED cutShort
         \/ cutShort' = cutShort \cup {job[c]} /\ UNCHANGED finished
      /\ UNCHANGED <<pending, acked, entered, faults>>
  BY DEF WorkReturns, Ind, redisVars, apiVars
<1>2. Held = Held' \cup {job[c]} /\ job[c] \notin Held'
  BY <1>1 DEF Held, ExactlyOnceWithoutFaults, Ind, TypeOK
<1>3. \A a, b \in Consumers : a # b /\ job'[a] # NoJob => job'[a] # job'[b]
  BY <1>1 DEF ExactlyOnceWithoutFaults, Ind, TypeOK
<1>4. Fresh' /\ Waiting' = Waiting
  BY <1>1 DEF Fresh, Waiting
<1>5. QED
  BY <1>1, <1>2, <1>3, <1>4 DEF ExactlyOnceWithoutFaults

LEMMA ExactStep ==
    ASSUME Ind, [Next]_vars, Fresh, ExactlyOnceWithoutFaults
    PROVE  Fresh' /\ ExactlyOnceWithoutFaults'
<1>1. ASSUME Fault PROVE Fresh' /\ ExactlyOnceWithoutFaults'
  <2>1. faults' # 0
    BY <1>1, SizesAreNatural DEF Fault, Ind, TypeOK
  <2>2. QED
    BY <2>1 DEF Fresh, ExactlyOnceWithoutFaults
<1>2. CASE UNCHANGED vars
  BY <1>2, ExactUnmoved DEF vars, redisVars, apiVars, workerVars
<1>3. ASSUME NEW r \in Requests,
             (\E count \in 0..(MaxCount + 1) : Receive(r, count)) \/ HandlerStep(r) \/ Disconnect(r)
      PROVE  Fresh' /\ ExactlyOnceWithoutFaults'
  <2>1. CASE PushSucceeds(r)
    BY <2>1, ExactPush
  <2>2. CASE PushReplyLost(r)
    BY <2>2, <1>1 DEF PushReplyLost
  <2>3. CASE PushUnsent(r)
    BY <2>3, <1>1, ExactUnmoved DEF PushUnsent, redisVars, workerVars
  <2>4. CASE (\E count \in 0..(MaxCount + 1) : Receive(r, count)) \/ PushRefused(r) \/ Accept(r) \/ Disconnect(r)
    BY <2>4, ExactUnmoved DEF Receive, PushRefused, Accept, Disconnect, redisVars, workerVars
  <2>5. QED
    BY <1>3, <2>1, <2>2, <2>3, <2>4 DEF HandlerStep
<1>4. ASSUME NEW c \in Consumers,
             ConsumerStep(c) \/ PopReplyLost(c) \/ Terminate(c) \/ Kill(c) \/ StartPod(c)
      PROVE  Fresh' /\ ExactlyOnceWithoutFaults'
  <2>1. CASE PopJob(c)
    BY <2>1, ExactPop
  <2>2. CASE WorkReturns(c)
    BY <2>2, ExactWork
  <2>3. CASE PopReplyLost(c) \/ Kill(c)
    BY <2>3, <1>1 DEF PopReplyLost, Kill
  <2>4. CASE PopFails(c)
    BY <2>4, <1>1, ExactUnmoved DEF PopFails, redisVars, apiVars
  <2>5. CASE StartPop(c) \/ PopEmpty(c) \/ BackoffEnds(c) \/ Terminate(c) \/ StartPod(c)
    BY <2>5, ExactUnmoved DEF StartPop, PopEmpty, BackoffEnds, Terminate, StartPod, redisVars, apiVars
  <2>6. QED
    BY <1>4, <2>1, <2>2, <2>3, <2>4, <2>5 DEF ConsumerStep
<1>5. CASE RedisDies
  BY <1>5, <1>1 DEF RedisDies
<1>6. CASE RedisStarts
  BY <1>6, ExactUnmoved DEF RedisStarts, apiVars, workerVars
<1>7. QED
  BY <1>2, <1>3, <1>4, <1>5, <1>6 DEF Next

\* Until something breaks, starting and stopping any number of pods leaves every
\* job that entered in one place: waiting, held, run to its end or cut short.
THEOREM ExactlyOnce == Spec => []ExactlyOnceWithoutFaults
<1>1. QED
  BY ExactInit, ExactStep, SpecInd, PTL DEF Spec
================================================================================
