------------------------------ MODULE MCRepair -------------------------------
(* Instances of RepairWorker and its refinement for TLC. *)
EXTENDS RepairRefinement, TLC

\* Backoff schedules, in ticks.
OneTick == <<1>>
OneTwoTicks == <<1, 2>>

WorkerSymmetry == Permutations(Workers) \cup Permutations(Tokens)
=============================================================================
