-------------------------- MODULE RepairRefinement ---------------------------
(* RepairWorker implements RepairLifecycle. *)
EXTENDS RepairWorker

CONSTANT Nobody

ASSUME RefinementAssumption == Nobody \notin Workers

PhaseOf(t) ==
  CASE queue[t].status = "absent" -> "unknown"
    [] queue[t].status = "open" -> "wanted"
    [] Parked(queue[t]) -> "parked"
    [] OTHER -> "closed"

HolderOf(t) ==
  IF \E w \in Workers : t \in Held(w)
  THEN CHOOSE w \in Workers : t \in Held(w)
  ELSE Nobody

Phases == [t \in Targets |-> PhaseOf(t)]
Holders == [t \in Targets |-> HolderOf(t)]

Lifecycle == INSTANCE RepairLifecycle WITH phase <- Phases, holder <- Holders

(* The queue and its processes keep the promises of RepairLifecycle: a       *)
(* target a live process holds is moved by that process alone, whatever      *)
(* reclaims, late statements and reconciliations happen around it.           *)
ImplementsLifecycle == Lifecycle!LSpec
=============================================================================
