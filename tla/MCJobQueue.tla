------------------------------- MODULE MCJobQueue -------------------------------
(* Small instances of the demo workload; worker pods are interchangeable. *)
EXTENDS JobQueue, TLC

Pods == Permutations(Consumers)
================================================================================
