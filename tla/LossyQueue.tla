------------------------------- MODULE LossyQueue -------------------------------
(***************************************************************************)
(* What the shared backlog of the demo workload promises: what entered is  *)
(* handed out oldest first, each entry to one consumer that holds nothing  *)
(* else.  Entries may be lost while they wait - the store keeps nothing    *)
(* across a restart, and the answer that carries a job may not arrive -    *)
(* but nothing is made up or reordered.  A job may enter more than once,   *)
(* because a producer that was not told that it entered tries again; once  *)
(* its producer has been told, it never enters again.                      *)
(***************************************************************************)
EXTENDS Sequences

CONSTANTS Jobs, Consumers, NoJob

VARIABLES
    waiting,    \* the backlog, oldest first
    held,       \* the job each consumer works on
    confirmed   \* the jobs whose producer has been told that they entered

Init == waiting = <<>> /\ held = [c \in Consumers |-> NoJob] /\ confirmed = {}

Put(j) ==
    /\ j \notin confirmed
    /\ waiting' = Append(waiting, j)
    /\ confirmed' = confirmed \cup {j}
    /\ UNCHANGED held

\* The producer does not learn of it.
PutUnconfirmed(j) ==
    /\ j \notin confirmed
    /\ waiting' = Append(waiting, j)
    /\ UNCHANGED <<held, confirmed>>

Take(c) ==
    /\ waiting # <<>> /\ held[c] = NoJob
    /\ held' = [held EXCEPT ![c] = Head(waiting)]
    /\ waiting' = Tail(waiting)
    /\ UNCHANGED confirmed

Release(c) == held' = [held EXCEPT ![c] = NoJob] /\ UNCHANGED <<waiting, confirmed>>

LoseOldest == waiting # <<>> /\ waiting' = Tail(waiting) /\ UNCHANGED <<held, confirmed>>

LoseAll == waiting' = <<>> /\ UNCHANGED <<held, confirmed>>

Next ==
    \/ \E j \in Jobs : Put(j) \/ PutUnconfirmed(j)
    \/ \E c \in Consumers : Take(c) \/ Release(c)
    \/ LoseOldest
    \/ LoseAll

Spec == Init /\ [][Next]_<<waiting, held, confirmed>>
================================================================================
