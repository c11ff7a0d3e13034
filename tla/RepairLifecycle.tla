--------------------------- MODULE RepairLifecycle ---------------------------
(***************************************************************************)
(* What the repair queue promises about a target, without rows, tokens,    *)
(* clocks or statements: who works on it, and what may happen to it.  A    *)
(* target in the hands of a process is moved by that process alone; only   *)
(* a target in nobody's hands can be taken, or be settled by what a dead   *)
(* process left behind; and closing a target takes accepted evidence.      *)
(***************************************************************************)
CONSTANTS Targets, Workers, Nobody

VARIABLES
  phase,     \* "unknown", "wanted", "closed" or "parked"
  holder,    \* the process that works on the target, or Nobody
  accepted   \* targets with an accepted finalized price

lifecycleVars == <<phase, holder, accepted>>

LInit ==
  /\ phase = [t \in Targets |-> "unknown"]
  /\ holder = [t \in Targets |-> Nobody]
  /\ accepted \in SUBSET Targets

(* Some targets that are unknown or closed are wanted (again). *)
Want ==
  /\ \E P \in SUBSET {t \in Targets : phase[t] \in {"unknown", "closed"}} :
       phase' = [t \in Targets |-> IF t \in P THEN "wanted" ELSE phase[t]]
  /\ UNCHANGED <<holder, accepted>>

(* A process without work takes wanted targets nobody holds. *)
Take(w) ==
  /\ \A t \in Targets : holder[t] # w
  /\ \E S \in SUBSET {t \in Targets : phase[t] = "wanted" /\ holder[t] = Nobody} :
       holder' = [t \in Targets |-> IF t \in S THEN w ELSE holder[t]]
  /\ UNCHANGED <<phase, accepted>>

(* Where a wanted target may go when it is settled. *)
Settled(t) == {"wanted", "parked"} \cup (IF t \in accepted THEN {"closed"} ELSE {})

(* The holder settles a target, or gives it back unsettled. *)
LetGo(w, t) ==
  /\ holder[t] = w
  /\ holder' = [holder EXCEPT ![t] = Nobody]
  /\ \E p \in Settled(t) : phase' = [phase EXCEPT ![t] = p]
  /\ UNCHANGED accepted

(* The process ends with targets in its hands. *)
Vanish(w) ==
  /\ holder' = [t \in Targets |-> IF holder[t] = w THEN Nobody ELSE holder[t]]
  /\ UNCHANGED <<phase, accepted>>

(* A dead process's last statement settles a target nobody took since. *)
SettleLate(t) ==
  /\ holder[t] = Nobody
  /\ phase[t] = "wanted"
  /\ \E p \in Settled(t) : phase' = [phase EXCEPT ![t] = p]
  /\ UNCHANGED <<holder, accepted>>

Unpark(t) ==
  /\ phase[t] = "parked"
  /\ phase' = [phase EXCEPT ![t] = "closed"]
  /\ UNCHANGED <<holder, accepted>>

EvidenceChanges ==
  /\ accepted' \in SUBSET Targets
  /\ UNCHANGED <<phase, holder>>

LNext ==
  \/ Want \/ EvidenceChanges
  \/ \E w \in Workers : Take(w) \/ Vanish(w)
  \/ \E w \in Workers, t \in Targets : LetGo(w, t)
  \/ \E t \in Targets : SettleLate(t) \/ Unpark(t)

LSpec == LInit /\ [][LNext]_lifecycleVars
=============================================================================
