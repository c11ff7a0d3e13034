-------------------------- MODULE RepairReconcile ----------------------------
(***************************************************************************)
(* Reconciliation with the discovery query of                              *)
(* scripts/lib/historical-repair.ts in place of RepairWorker's arbitrary   *)
(* choice of targets: the recent days of the known roots, and the oldest   *)
(* DiscoveryLimit candidates of each inventory.                            *)
(***************************************************************************)
EXTENDS RepairWorker

CONSTANTS
  Recent,          \* recent closed days of active vaults and underlyings
  Provisional,     \* candidates with a provisional price row
  Inventory,       \* candidates in the gap inventory
  DayOrder,        \* position of a candidate in ORDER BY timestamp, chain, token
  DiscoveryLimit   \* REPAIR_DISCOVERY_LIMIT

(* Candidates outside Targets are rows not aligned to a day end: the query  *)
(* returns them, the code skips them.                                       *)
Candidates == Provisional \cup Inventory

ASSUME ReconcileAssumption ==
  /\ Recent \subseteq Targets /\ Inventory \subseteq Targets
  /\ DayOrder \in [Candidates -> Nat]
  /\ \A c, d \in Candidates : DayOrder[c] = DayOrder[d] => c = d
  /\ DiscoveryLimit \in Nat /\ DiscoveryLimit > 0

(* NOT EXISTS an open queue row AND NOT EXISTS accepted finalized evidence. *)
Eligible(C) ==
  {c \in C : c \in Targets => queue[c].status # "open" /\ c \notin accepted}

(* Mutant: the LIMIT cuts the candidates before the exclusions. *)
PageBeforeExclusion(C) ==
  {c \in Eligible(C) :
     Cardinality({d \in C : DayOrder[d] < DayOrder[c]}) < DiscoveryLimit}

(* ORDER BY timestamp LIMIT DiscoveryLimit *)
Page(C) ==
  {c \in Eligible(C) :
     Cardinality({d \in Eligible(C) : DayOrder[d] < DayOrder[c]}) < DiscoveryLimit}

Discovered ==
  ((Recent \cup Page(Provisional) \cup Page(Inventory)) \cap Targets) \ accepted

(* discoverRepairTargets and the read of enqueueRepairTargets. *)
DiscoverAndRead(r) ==
  /\ pending[r] = {}
  /\ Discovered # {}
  /\ pending' = [pending EXCEPT ![r] = Discovered]
  /\ UNCHANGED <<queue, accepted, procVars, late>>

ReconcileNext ==
  \/ \E w \in Workers : WorkerStep(w)
  \/ \E r \in Reconcilers : DiscoverAndRead(r) \/ EnqueueInsert(r) \/ EnqueueAbandon(r)
  \/ \E t \in Targets : Outside(t)
  \/ LateStatement
  \/ Tick

(* Reconciliation runs every day, and no target is discovered again and     *)
(* again by runs that all die before their insert.                          *)
DailyFairness ==
  \A r \in Reconcilers :
    /\ WF_vars(DiscoverAndRead(r))
    /\ \A t \in Targets : SF_vars(EnqueueInsert(r) /\ t \in pending[r])

-----------------------------------------------------------------------------
(* Properties *)

Surfaced(c) == queue[c].status # "absent" \/ c \in accepted

(* The doc comment of discoverRepairTargets: "Once a page is enqueued it is  *)
(* excluded from the next run, so an unresolved old target cannot            *)
(* permanently hide later provisional rows behind a LIMIT."                  *)
LaterWorkSurfaces == \A c \in Candidates \cap Targets : <>Surfaced(c)

(* Candidates that stay on a page without being enqueued: parked targets,    *)
(* which the insert does not reopen, and misaligned rows.                    *)
PageBlockers(C) ==
  {c \in Eligible(C) : c \in Targets => Parked(queue[c])}

(* What the code does ensure: as long as parked and misaligned candidates    *)
(* leave room on the page, every candidate is enqueued or gets evidence.     *)
SurfacesWhilePageHasRoom ==
  [](\A C \in {Provisional, Inventory} : Cardinality(PageBlockers(C)) < DiscoveryLimit)
    => LaterWorkSurfaces
=============================================================================
