----------------------------- MODULE MCReconcile -----------------------------
(* Instances of RepairReconcile for TLC. *)
EXTENDS RepairReconcile, RepairThrows, TLC

CONSTANTS t1, t2, odd

OneTick == <<1>>

\* t1 is the older day; `odd' is an older row that is not aligned to a day end.
OldFirst == t1 :> 1 @@ t2 :> 2
OddFirst == odd :> 0 @@ t1 :> 1 @@ t2 :> 2

(* The days of a system that remembers its throws. *)
DailySpec ==
  /\ Init /\ ThrowInit
  /\ [][ReconcileNext /\ ThrowMemory]_<<vars, throwVars>>
  /\ DailyFairness
=============================================================================
