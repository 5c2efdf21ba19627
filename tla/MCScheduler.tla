---------------------------- MODULE MCScheduler ----------------------------
(* Scheduler for TLC: processes and sources are interchangeable.           *)
EXTENDS Scheduler, TLC

Symmetry == Permutations(Sources) \cup Permutations(Workers) \cup Permutations(Dispatchers)

=============================================================================
