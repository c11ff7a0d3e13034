---------------------------- MODULE RepairWorker -----------------------------
(***************************************************************************)
(* The repair processes around the queue: worker runs (main and            *)
(* processClaims of scripts/repair-historical-prices.ts), the two          *)
(* statements of enqueueRepairTargets run by reconciliation, and the       *)
(* passage of time.  Every database call is two steps, the decision to     *)
(* send it and its execution, and anything may happen in between: other    *)
(* processes run, the budget ends, the process is killed and its statement *)
(* still reaches the database.                                             *)
(***************************************************************************)
EXTENDS RepairQueue

CONSTANTS
  Workers,        \* slots for concurrently running worker processes
  Reconcilers,    \* slots for concurrently running reconciliations
  GroupSize,      \* claims per graph run
  BudgetTicks,    \* age at which a run aborts its signal
  HardStopTicks,  \* age at which the hard-stop timer exits the process
  Rejectable,     \* targets whose accepted rows may later be rejected
  Clearable,      \* parked targets an operator may look at
  LateCap         \* bound: statements of dead processes in flight

(* main refuses a lease that does not outlast the budget by 300 seconds,    *)
(* and the hard stop comes 30 seconds after the budget.                     *)
ASSUME WorkerAssumption ==
  /\ GroupSize \in Nat /\ GroupSize > 0
  /\ BudgetTicks \in Nat /\ BudgetTicks > 0
  /\ HardStopTicks \in Nat /\ HardStopTicks > BudgetTicks
  /\ LeaseTicks > HardStopTicks
  /\ LateCap \in Nat
  /\ Rejectable \subseteq Targets /\ Clearable \subseteq Targets

VARIABLES
  pc,       \* where each worker process is; "idle" when there is none
  age,      \* ticks since the process started
  tok,      \* lease token of the process's claim
  snap,     \* attempt counts of the claimed rows, as the claim returned them
  todo,     \* claims of groups not started
  singles,  \* claims bisected into groups of one
  group,    \* claims of the current group still unsettled
  fin,      \* what the last finalized-keys read returned
  fault,    \* what failed for the current group: "none", "graph" or "read"
  sent,     \* the statement the process is waiting for (at most one)
  late,     \* statements of dead processes, not yet executed
  pending   \* targets each reconciliation is about to insert

procVars == <<pc, age, tok, snap, todo, singles, group, fin, fault, sent>>
vars == <<queue, accepted, pc, age, tok, snap, todo, singles, group, fin,
          fault, sent, late, pending>>

PCs == {"idle", "starting", "dispatch", "graph", "confirm", "settle", "drain"}

(* What a target's outcome record may say: no record, a record without a    *)
(* reason, and the reasons and statuses that are classified differently.    *)
Records == {"none", "no-reason", "unsupported", "cutoff", "invalid",
            "rejected", "rejected_implausible"}

Classify(record) ==
  CASE record \in {"rejected", "rejected_implausible", "invalid"} -> "invalid"
    [] record = "unsupported" -> "missing"
    [] OTHER -> "retryable"

Live(w) == pc[w] # "idle"
Held(w) == todo[w] \cup singles[w] \cup group[w]

(* signal.aborted || Date.now() >= deadline *)
PastBudget(w) == age[w] >= BudgetTicks

(* Tokens are random UUIDs: a claim's token is one nothing refers to. *)
Fresh(token) == /\ \A t \in Targets : queue[t].token # token
                /\ \A w \in Workers : tok[w] # token
                /\ \A s \in late : s.token # token

NoSnap == [t \in Targets |-> 0]

TypeOK ==
  /\ QueueTypeOK
  /\ pc \in [Workers -> PCs]
  /\ age \in [Workers -> 0..HardStopTicks]
  /\ tok \in [Workers -> Tokens \cup {NoToken}]
  /\ snap \in [Workers -> [Targets -> 0..AttemptCap]]
  /\ todo \in [Workers -> SUBSET Targets]
  /\ singles \in [Workers -> SUBSET Targets]
  /\ group \in [Workers -> SUBSET Targets]
  /\ fin \in [Workers -> SUBSET Targets]
  /\ fault \in [Workers -> {"none", "graph", "read"}]
  /\ sent \in [Workers -> SUBSET Statements]
  /\ late \subseteq Statements
  /\ pending \in [Reconcilers -> SUBSET Targets]

Init ==
  /\ QueueInit
  /\ pc = [w \in Workers |-> "idle"]
  /\ age = [w \in Workers |-> 0]
  /\ tok = [w \in Workers |-> NoToken]
  /\ snap = [w \in Workers |-> NoSnap]
  /\ todo = [w \in Workers |-> {}]
  /\ singles = [w \in Workers |-> {}]
  /\ group = [w \in Workers |-> {}]
  /\ fin = [w \in Workers |-> {}]
  /\ fault = [w \in Workers |-> "none"]
  /\ sent = [w \in Workers |-> {}]
  /\ late = {}
  /\ pending = [r \in Reconcilers |-> {}]

-----------------------------------------------------------------------------
(* Worker processes *)

Start(w) ==
  /\ pc[w] = "idle"
  /\ pc' = [pc EXCEPT ![w] = "starting"]
  /\ UNCHANGED <<queue, accepted, age, tok, snap, todo, singles, group, fin,
                 fault, sent, late, pending>>

(* The claim statement and its answer.  A process that dies between the     *)
(* two leaves the rows leased, as one that dies right after this step does. *)
Claim(w) ==
  /\ pc[w] = "starting"
  /\ \E S \in SUBSET Targets, token \in Tokens :
       /\ ClaimableBatch(S)
       /\ Fresh(token)
       /\ ClaimRepairQueue(S, token)
       /\ tok' = [tok EXCEPT ![w] = token]
       /\ todo' = [todo EXCEPT ![w] = S]
       /\ snap' = [snap EXCEPT ![w] =
                     [t \in Targets |-> IF t \in S THEN queue[t].attempts ELSE 0]]
  /\ pc' = [pc EXCEPT ![w] = "dispatch"]
  /\ UNCHANGED <<accepted, age, singles, group, fin, fault, sent, late, pending>>

(* The top of the while loop: bisected claims come first, one at a time. *)
NextGroup(w) ==
  /\ pc[w] = "dispatch"
  /\ ~PastBudget(w)
  /\ \/ \E t \in singles[w] :
          /\ group' = [group EXCEPT ![w] = {t}]
          /\ singles' = [singles EXCEPT ![w] = @ \ {t}]
          /\ UNCHANGED todo
     \/ /\ singles[w] = {}
        /\ todo[w] # {}
        /\ \E G \in SUBSET todo[w] :
             /\ Cardinality(G) = Least(GroupSize, Cardinality(todo[w]))
             /\ group' = [group EXCEPT ![w] = G]
             /\ todo' = [todo EXCEPT ![w] = @ \ G]
        /\ UNCHANGED singles
  /\ pc' = [pc EXCEPT ![w] = "graph"]
  /\ UNCHANGED <<queue, accepted, age, tok, snap, fin, fault, sent, late, pending>>

(* The loop finds the budget spent: everything left is to be released. *)
Defer(w) ==
  /\ pc[w] = "dispatch"
  /\ PastBudget(w)
  /\ Held(w) # {}
  /\ pc' = [pc EXCEPT ![w] = "drain"]
  /\ UNCHANGED <<queue, accepted, age, tok, snap, todo, singles, group, fin,
                 fault, sent, late, pending>>

(* A finalization batch of runGraphBackfill commits: some targets of the    *)
(* group get their finalized row.                                           *)
GraphFinalize(w) ==
  /\ pc[w] = "graph"
  /\ \E S \in SUBSET (group[w] \ accepted) :
       S # {} /\ accepted' = accepted \cup S
  /\ UNCHANGED <<queue, pc, age, tok, snap, todo, singles, group, fin, fault,
                 sent, late, pending>>

GraphReturn(w) ==
  /\ pc[w] = "graph"
  /\ pc' = [pc EXCEPT ![w] = "confirm"]
  /\ UNCHANGED <<queue, accepted, age, tok, snap, todo, singles, group, fin,
                 fault, sent, late, pending>>

(* runGraphBackfill throws, possibly after a commit.  A group of several    *)
(* claims is bisected unless the budget is spent.                           *)
GraphThrow(w) ==
  /\ pc[w] = "graph"
  /\ IF Cardinality(group[w]) > 1 /\ ~PastBudget(w)
     THEN /\ singles' = [singles EXCEPT ![w] = @ \cup group[w]]
          /\ group' = [group EXCEPT ![w] = {}]
          /\ pc' = [pc EXCEPT ![w] = "dispatch"]
          /\ UNCHANGED fault
     ELSE /\ fault' = [fault EXCEPT ![w] = "graph"]
          /\ pc' = [pc EXCEPT ![w] = "confirm"]
          /\ UNCHANGED <<singles, group>>
  /\ UNCHANGED <<queue, accepted, age, tok, snap, todo, fin, sent, late, pending>>

(* finalizedRepairKeys answers. *)
ConfirmRead(w) ==
  /\ pc[w] = "confirm"
  /\ fin' = [fin EXCEPT ![w] = group[w] \cap accepted]
  /\ pc' = [pc EXCEPT ![w] = "settle"]
  /\ UNCHANGED <<queue, accepted, age, tok, snap, todo, singles, group, fault,
                 sent, late, pending>>

(* finalizedRepairKeys throws: the confirmation error takes precedence over *)
(* a graph error.                                                           *)
ConfirmFail(w) ==
  /\ pc[w] = "confirm"
  /\ fault' = [fault EXCEPT ![w] = "read"]
  /\ pc' = [pc EXCEPT ![w] = "settle"]
  /\ UNCHANGED <<queue, accepted, age, tok, snap, todo, singles, group, fin,
                 sent, late, pending>>

Statement(w, t, kind, outcome) ==
  [kind |-> kind, target |-> t, token |-> tok[w], attempts |-> snap[w][t],
   outcome |-> outcome]

(* Mutant: the settle loop does not look at the budget.                     *)
ChosenPastBudget(w, t, record) ==
  IF t \in fin[w] THEN Statement(w, t, "success", "retryable")
  ELSE IF fault[w] # "none" THEN Statement(w, t, "failure", "retryable")
  ELSE Statement(w, t, "failure", Classify(record))

(* The statement processClaims chooses for a claim of the current group, in *)
(* the order of its early continues.  "retryable" fills the unused outcome. *)
Chosen(w, t, record) ==
  IF t \in fin[w] THEN Statement(w, t, "success", "retryable")
  ELSE IF PastBudget(w) THEN Statement(w, t, "release", "retryable")
  ELSE IF fault[w] # "none" THEN Statement(w, t, "failure", "retryable")
  ELSE Statement(w, t, "failure", Classify(record))

SendSettle(w) ==
  /\ pc[w] = "settle"
  /\ sent[w] = {}
  /\ \E t \in group[w], record \in Records :
       sent' = [sent EXCEPT ![w] = {Chosen(w, t, record)}]
  /\ UNCHANGED <<queue, accepted, pc, age, tok, snap, todo, singles, group, fin,
                 fault, late, pending>>

SendRelease(w) ==
  /\ pc[w] = "drain"
  /\ sent[w] = {}
  /\ \E t \in Held(w) :
       sent' = [sent EXCEPT ![w] = {Statement(w, t, "release", "retryable")}]
  /\ UNCHANGED <<queue, accepted, pc, age, tok, snap, todo, singles, group, fin,
                 fault, late, pending>>

(* The database executes the statement and the process learns the row count *)
(* (which only the metrics use).                                            *)
Answered(w) ==
  /\ \E s \in sent[w] :
       /\ Execute(s)
       /\ todo' = [todo EXCEPT ![w] = @ \ {s.target}]
       /\ singles' = [singles EXCEPT ![w] = @ \ {s.target}]
       /\ group' = [group EXCEPT ![w] = @ \ {s.target}]
  /\ sent' = [sent EXCEPT ![w] = {}]
  /\ UNCHANGED <<accepted, pc, age, tok, snap, fin, fault, late, pending>>

(* The claims of the group are all settled: back to the loop. *)
GroupDone(w) ==
  /\ pc[w] = "settle"
  /\ group[w] = {}
  /\ pc' = [pc EXCEPT ![w] = "dispatch"]
  /\ fin' = [fin EXCEPT ![w] = {}]
  /\ fault' = [fault EXCEPT ![w] = "none"]
  /\ UNCHANGED <<queue, accepted, age, tok, snap, todo, singles, group, sent,
                 late, pending>>

(* The process is gone; what it knew is forgotten. *)
Reset(w) ==
  /\ pc' = [pc EXCEPT ![w] = "idle"]
  /\ age' = [age EXCEPT ![w] = 0]
  /\ tok' = [tok EXCEPT ![w] = NoToken]
  /\ snap' = [snap EXCEPT ![w] = NoSnap]
  /\ todo' = [todo EXCEPT ![w] = {}]
  /\ singles' = [singles EXCEPT ![w] = {}]
  /\ group' = [group EXCEPT ![w] = {}]
  /\ fin' = [fin EXCEPT ![w] = {}]
  /\ fault' = [fault EXCEPT ![w] = "none"]
  /\ sent' = [sent EXCEPT ![w] = {}]

Finish(w) ==
  /\ pc[w] \in {"dispatch", "drain"}
  /\ Held(w) = {}
  /\ Reset(w)
  /\ UNCHANGED <<queue, accepted, late, pending>>

(* A statement in flight when its process dies is lost or still executes. *)
Die(w) ==
  /\ Reset(w)
  /\ \/ late' = late
     \/ /\ sent[w] # {}
        /\ Cardinality(late \cup sent[w]) <= LateCap
        /\ late' = late \cup sent[w]
  /\ UNCHANGED <<queue, accepted, pending>>

(* Killed, or a queue statement failed and ended processClaims. *)
Crash(w) == Live(w) /\ Die(w)

(* Mutant: the exit waits for the active database call. *)
HardStopAfterCall(w) ==
  Live(w) /\ sent[w] = {} /\ age[w] = HardStopTicks /\ Die(w)

(* hardStopTimer *)
HardStop(w) == Live(w) /\ age[w] = HardStopTicks /\ Die(w)

LateStatement ==
  /\ \E s \in late : Execute(s) /\ late' = late \ {s}
  /\ UNCHANGED <<accepted, pc, age, tok, snap, todo, singles, group, fin, fault,
                 sent, pending>>

-----------------------------------------------------------------------------
(* Reconciliation: enqueueRepairTargets is a read and then an insert. *)

EnqueueRead(r) ==
  /\ pending[r] = {}
  /\ \E D \in SUBSET Targets :
       /\ D \ accepted # {}
       /\ pending' = [pending EXCEPT ![r] = D \ accepted]
  /\ UNCHANGED <<queue, accepted, procVars, late>>

EnqueueInsert(r) ==
  /\ pending[r] # {}
  /\ InsertTargets(pending[r])
  /\ pending' = [pending EXCEPT ![r] = {}]
  /\ UNCHANGED <<accepted, procVars, late>>

(* The reconciliation dies or its budget ends before the insert. *)
EnqueueAbandon(r) ==
  /\ pending[r] # {}
  /\ pending' = [pending EXCEPT ![r] = {}]
  /\ UNCHANGED <<queue, accepted, procVars, late>>

-----------------------------------------------------------------------------
(* The rest of the system *)

(* Another writer (warmup, read-through, a manual backfill) finalizes. *)
FinalizedElsewhere(t) ==
  /\ t \notin accepted
  /\ accepted' = accepted \cup {t}
  /\ UNCHANGED <<queue, procVars, late, pending>>

(* The accepted rows of a target are rejected, quarantined or removed. *)
Quarantine(t) ==
  /\ t \in accepted \cap Rejectable
  /\ accepted' = accepted \ {t}
  /\ UNCHANGED <<queue, procVars, late, pending>>

(* An operator clears last_outcome of a parked row. *)
OperatorClear(t) ==
  /\ t \in Clearable
  /\ Parked(queue[t])
  /\ queue' = [queue EXCEPT ![t] = Unparked(@)]
  /\ UNCHANGED <<accepted, procVars, late, pending>>

(* Time passes, but no process outlives its hard stop. *)
Tick ==
  /\ \A w \in Workers : Live(w) => age[w] < HardStopTicks
  /\ queue' = [t \in Targets |-> Aged(queue[t])]
  /\ age' = [w \in Workers |-> IF Live(w) THEN age[w] + 1 ELSE 0]
  /\ UNCHANGED <<accepted, pc, tok, snap, todo, singles, group, fin, fault,
                 sent, late, pending>>

-----------------------------------------------------------------------------
WorkerStep(w) ==
  \/ Start(w) \/ Claim(w) \/ NextGroup(w) \/ Defer(w)
  \/ GraphFinalize(w) \/ GraphReturn(w) \/ GraphThrow(w)
  \/ ConfirmRead(w) \/ ConfirmFail(w)
  \/ SendSettle(w) \/ SendRelease(w) \/ Answered(w) \/ GroupDone(w) \/ Finish(w)
  \/ Crash(w) \/ HardStop(w)

ReconcilerStep(r) == EnqueueRead(r) \/ EnqueueInsert(r) \/ EnqueueAbandon(r)

Outside(t) == FinalizedElsewhere(t) \/ Quarantine(t) \/ OperatorClear(t)

Next ==
  \/ \E w \in Workers : WorkerStep(w)
  \/ \E r \in Reconcilers : ReconcilerStep(r)
  \/ \E t \in Targets : Outside(t)
  \/ LateStatement
  \/ Tick

Spec == Init /\ [][Next]_vars

(* The clock advances and the hard-stop timer fires; nothing else is owed:  *)
(* database calls may hang and processes may never be started.              *)
ClockFairness == WF_vars(Tick) /\ \A w \in Workers : WF_vars(HardStop(w))

TimedSpec == Spec /\ ClockFairness

(* A claim of t by a process that has only just started. *)
PromptClaim(w, t) == Claim(w) /\ age[w] = 0 /\ t \in todo[w]'

(* What the cron schedule and mostly answering services give: a worker is   *)
(* started again and again (every 15 minutes), and each of its calls is,    *)
(* infinitely often, answered in time.                                      *)
ServiceFairness ==
  \A w \in Workers :
    /\ WF_vars(Start(w))
    /\ \A t \in Targets : SF_vars(PromptClaim(w, t))
    /\ SF_vars(NextGroup(w)) /\ SF_vars(GraphReturn(w))
    /\ SF_vars(ConfirmRead(w)) /\ SF_vars(SendSettle(w)) /\ SF_vars(Answered(w))

ScheduledSpec == Spec /\ ClockFairness /\ ServiceFairness

-----------------------------------------------------------------------------
(* Properties *)

(* No two live processes hold a claim on the same target: the lease          *)
(* outlasts the process that holds it (claimRepairQueue, hardStopTimer).     *)
LeaseExclusion ==
  \A v, w \in Workers : v # w => Held(v) \cap Held(w) = {}

(* What a live process believes of a claim it holds is still what the row    *)
(* says: open, leased to it and not expired, at the attempt count its        *)
(* backoff and parking decisions are computed from (settleRepairFailure).    *)
ClaimsAreCurrent ==
  \A w \in Workers : \A t \in Held(w) :
    /\ queue[t].status = "open"
    /\ queue[t].token = tok[w]
    /\ queue[t].lease > 0
    /\ queue[t].attempts = snap[w][t]

(* Why the lease protects a claim: an invariant that every step preserves.   *)
NoClaim(w) == pc[w] \in {"idle", "starting"}

(* A process has a token exactly while it has made its claim. *)
TokenFollowsClaim ==
  \A w \in Workers :
    /\ NoClaim(w) => tok[w] = NoToken /\ Held(w) = {} /\ sent[w] = {}
    /\ ~NoClaim(w) => tok[w] \in Tokens

(* Live processes have tokens of their own. *)
TokensDistinct ==
  \A v, w \in Workers : v # w /\ tok[v] = tok[w] => tok[v] = NoToken

(* What a process is waiting for is about one of its claims ... *)
SentIsHeld ==
  \A w \in Workers : \A s \in sent[w] :
    s.token = tok[w] /\ s.target \in Held(w)

(* ... and what a dead process left behind is about none. *)
LateIsDisowned == \A s \in late, w \in Workers : s.token # tok[w]

(* A held row is leased for at least what is left of its process's life. *)
LeaseOutlasts ==
  \A w \in Workers : \A t \in Held(w) :
    /\ queue[t].status = "open"
    /\ queue[t].token = tok[w]
    /\ queue[t].attempts = snap[w][t]
    /\ queue[t].lease + age[w] >= LeaseTicks

LeaseInv ==
  /\ TokenFollowsClaim
  /\ TokensDistinct
  /\ SentIsHeld
  /\ LateIsDisowned
  /\ LeaseOutlasts

(* The loop of a process starts its next group when the last one is settled. *)
BetweenGroups == \A w \in Workers : pc[w] = "dispatch" => group[w] = {}

(* A claim lives exactly as long as its token (randomLeaseToken,             *)
(* claimRepairQueue): the token of a live process is nobody else's, every    *)
(* statement in flight is about a claim its sender still holds or carries a  *)
(* token no live process has, and the lease of a held row is never shorter   *)
(* than what is left of its process until hardStopTimer ends it.             *)
IInv == TypeOK /\ LeaseInv /\ BetweenGroups

InFlight == late \cup UNION {sent[w] : w \in Workers}

(* A statement that still finds its token in its row carries the row's       *)
(* attempt count, even when its process is long dead, and a leased row is    *)
(* one that was due.                                                         *)
RecordInv ==
  /\ \A s \in InFlight : OwnsRow(s) => queue[s.target].attempts = s.attempts
  /\ \A t \in Targets : queue[t].token # NoToken => queue[t].next <= 0

(* Nobody disturbs a claim while its process holds it: not reconciliation,   *)
(* not a reclaim, not the late statement of an earlier owner.                *)
HeldRowsUndisturbed ==
  [][\A w \in Workers : \A t \in Held(w) \cap Held(w)' :
       [queue[t]' EXCEPT !.next = 0, !.lease = 0]
         = [queue[t] EXCEPT !.next = 0, !.lease = 0]]_vars

(* A row is completed only in a state that has accepted finalized evidence,  *)
(* however late the settling statement executes, or by parking it after      *)
(* MaxInvalidAttempts attempts.                                              *)
CompletionHasEvidence ==
  [][\A t \in Targets :
       queue[t].status = "open" /\ queue[t]'.status = "done"
         => \/ t \in accepted
            \/ /\ queue[t]'.outcome = "invalid"
               /\ queue[t]'.attempts >= Least(MaxInvalidAttempts, AttemptCap)]_vars

(* An open row keeps its history: no step but the reopening of a completed   *)
(* row lowers an attempt count or shortens a backoff except by waiting       *)
(* (enqueueRepairTargets never resets an open row).                          *)
BackoffPreserved ==
  [][\A t \in Targets :
       queue[t].status = "open" /\ queue[t]'.status = "open"
         => /\ queue[t]'.attempts >= queue[t].attempts
            /\ queue[t]'.next >= queue[t].next - 1]_vars

(* No claim is held forever, even if every provider and database call of    *)
(* its process hangs: the hard stop ends the process.                       *)
ClaimsEnd ==
  \A w \in Workers, t \in Targets : t \in Held(w) ~> t \notin Held(w)

(* No open row is stranded by a dead process, a lost statement or a backoff: *)
(* it becomes claimable again, or is completed.                              *)
NothingStranded ==
  \A t \in Targets : queue[t].status = "open" ~> (Due(t) \/ queue[t].status # "open")

(* A process ends with claims in its hands. *)
Killed(w) == Held(w) # {} /\ pc[w]' = "idle"

(* A target that has accepted evidence from some time on does not stay open  *)
(* in the queue, whatever was claimed, charged, released or backed off on    *)
(* the way, unless processes keep being killed in the middle of their work.  *)
EvidenceSettles ==
  <>[][\A w \in Workers : ~Killed(w)]_vars =>
    \A t \in Targets : <>[](t \in accepted) => <>[](queue[t].status # "open")
=============================================================================
