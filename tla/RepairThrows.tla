---------------------------- MODULE RepairThrows -----------------------------
(***************************************************************************)
(* RepairWorker with a memory of its throws: what runGraphBackfill last     *)
(* threw for, and whom the process has charged an attempt since. The two    *)
(* history variables are written beside the steps of the workers and read   *)
(* by none of them.                                                         *)
(***************************************************************************)
EXTENDS RepairWorker

VARIABLES
  thrown,   \* claims of the graph run that threw, until the process's next graph run
  charged   \* claims the process has let go of since, charged an attempt
throwVars == <<thrown, charged>>

(* What a charge leaves in a row: one more attempt, a new backoff, or the   *)
(* row parked (settleRepairFailure).                                        *)
ChargedInStep(t) ==
  \/ queue'[t].attempts > queue[t].attempts
  \/ queue'[t].next > queue[t].next
  \/ queue[t].status = "open" /\ Parked(queue'[t])

LetGo(w) == Held(w) \ Held(w)'

ThrowInit ==
  /\ thrown = [w \in Workers |-> {}]
  /\ charged = [w \in Workers |-> {}]

ThrowMemory ==
  /\ thrown' = [w \in Workers |->
       IF GraphThrow(w) THEN group[w]
       ELSE IF pc'[w] \in {"idle", "graph"} THEN {} ELSE thrown[w]]
  /\ charged' = [w \in Workers |->
       IF GraphThrow(w) \/ pc'[w] \in {"idle", "graph"} \/ thrown[w] = {} THEN {}
       ELSE charged[w] \cup {t \in LetGo(w) : ChargedInStep(t)}]

ThrowSpec == Init /\ ThrowInit /\ [][Next /\ ThrowMemory]_<<vars, throwVars>>

(* One throw covers the whole group, and only the target that fails is       *)
(* charged an attempt (repair-historical-prices.ts:165): until its next      *)
(* graph run a process charges nobody for a throw over several claims,       *)
(* whether it bisects them or finds its budget spent and lets them go with   *)
(* attempts and backoff untouched (:190-193), and for a throw over a single  *)
(* claim it charges nobody but that claim.                                   *)
ThrowChargesOne ==
  \A w \in Workers : charged[w] # {} => Cardinality(thrown[w]) = 1 /\ charged[w] = thrown[w]
=============================================================================
