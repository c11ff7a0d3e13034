----------------------------- MODULE RepairQueue -----------------------------
(***************************************************************************)
(* The durable queue of historical repair targets and the SQL statements   *)
(* that read and write it (src/db/repair-queue.ts).  A target is a         *)
(* (chain, token, closed day) triple; each statement is one atomic         *)
(* operator, whoever runs it and whenever the database gets to it.         *)
(*                                                                         *)
(* Timestamps are kept relative to NOW(): `next' is next_attempt_at - now  *)
(* and `lease' is lease_expires_at - now, both in ticks, so that the       *)
(* passage of time decrements them and no absolute clock is needed.        *)
(***************************************************************************)
EXTENDS Integers, Sequences, FiniteSets

CONSTANTS
  Targets,             \* closed, day-aligned repair targets
  Tokens,              \* lease tokens
  NoToken,             \* NULL in lease_token
  TransientBackoff,    \* delays of the retryable and invalid schedule, in ticks
  MissingBackoff,      \* delays of the missing schedule, in ticks
  MaxInvalidAttempts,  \* attempts after which an invalid target is parked
  ClaimLimit,          \* rows one claim may lease
  LeaseTicks,          \* length of a lease
  AttemptCap,          \* bound: attempts saturates here
  OverdueCap           \* bound: `next' saturates at -OverdueCap

(* The bound on attempts hides nothing: a schedule is read at               *)
(* min(attempts, length - 1), and parking compares attempts + 1 with        *)
(* MaxInvalidAttempts.                                                      *)
ASSUME QueueAssumption ==
  /\ NoToken \notin Tokens
  /\ TransientBackoff \in Seq(Nat) /\ TransientBackoff # << >>
  /\ MissingBackoff \in Seq(Nat) /\ MissingBackoff # << >>
  /\ MaxInvalidAttempts \in Nat /\ MaxInvalidAttempts > 0
  /\ ClaimLimit \in Nat /\ ClaimLimit > 0
  /\ LeaseTicks \in Nat /\ LeaseTicks > 0
  /\ AttemptCap \in Nat /\ AttemptCap + 1 >= MaxInvalidAttempts
  /\ AttemptCap + 1 >= Len(TransientBackoff)
  /\ AttemptCap + 1 >= Len(MissingBackoff)
  /\ OverdueCap \in Nat

(* A table holds finitely many rows, so that a claim counts what is due.    *)
ASSUME TargetsAssumption == IsFiniteSet(Targets)

Outcomes == {"missing", "retryable", "invalid"}

(* One row of historical_price_repair_queue.  `status' is "absent" when     *)
(* the table has no row, "open" while completed_at IS NULL and "done"       *)
(* afterwards.  lease_owner is written and compared together with           *)
(* lease_token, so the token stands for the pair.                           *)
Row == [status: {"absent", "open", "done"}, attempts: 0..AttemptCap,
        next: Int, token: Tokens \cup {NoToken}, lease: 0..LeaseTicks,
        outcome: Outcomes \cup {"none"}]

AbsentRow == [status |-> "absent", attempts |-> 0, next |-> 0,
              token |-> NoToken, lease |-> 0, outcome |-> "none"]

(* A freshly inserted or reopened row. *)
OpenRow == [AbsentRow EXCEPT !.status = "open"]

(* A settling statement: the claim it is about, as the worker remembers it. *)
Statements == [kind: {"success", "failure", "release"}, target: Targets,
               token: Tokens, attempts: 0..AttemptCap, outcome: Outcomes]

VARIABLES
  queue,     \* the table: a Row for every target
  accepted   \* targets with a finalized, positive, not rejected price row

queueVars == <<queue, accepted>>

-----------------------------------------------------------------------------
Least(a, b) == IF a <= b THEN a ELSE b
Greatest(a, b) == IF a >= b THEN a ELSE b

(* repairRetryDelaySeconds, at the attempt count the claim was read with. *)
RetryDelay(outcome, attempts) ==
  LET schedule == IF outcome = "missing" THEN MissingBackoff ELSE TransientBackoff
  IN  schedule[Least(attempts, Len(schedule) - 1) + 1]

(* Mutant: an expired lease is never reclaimable. *)
NeverReclaimed(r) == r.token = NoToken

Unleased(r) == r.token = NoToken \/ r.lease = 0

(* Mutant: the claim ignores leases. *)
DueThoughLeased(t) == queue[t].status = "open" /\ queue[t].next <= 0

Due(t) == /\ queue[t].status = "open"
          /\ queue[t].next <= 0
          /\ Unleased(queue[t])

DueTargets == {t \in Targets : Due(t)}

(* The rows a claim leases: as many due rows as the limit allows, the       *)
(* longest overdue first.  Ties, which updated_at breaks, go either way.    *)
ClaimableBatch(S) ==
  /\ S \subseteq DueTargets
  /\ Cardinality(S) = Least(ClaimLimit, Cardinality(DueTargets))
  /\ \A s \in S, u \in DueTargets \ S : queue[s].next <= queue[u].next

Leased(r, token) == [r EXCEPT !.token = token, !.lease = LeaseTicks]

ClaimRepairQueue(S, token) ==
  queue' = [t \in Targets |-> IF t \in S THEN Leased(queue[t], token) ELSE queue[t]]

(* Mutant: a settling statement does not compare the lease token. *)
OwnsOpenRow(s) == queue[s.target].status = "open"

(* The WHERE clause every settling statement shares. *)
OwnsRow(s) == queue[s.target].status = "open" /\ queue[s.target].token = s.token

LeaseCleared(r) == [r EXCEPT !.token = NoToken, !.lease = 0]

Completed(r) == [LeaseCleared(r) EXCEPT !.status = "done", !.outcome = "none"]

(* Mutant: success without the EXISTS on token_prices. *)
SettleWithoutEvidence(s) ==
  /\ s.kind = "success"
  /\ queue' = IF OwnsRow(s)
              THEN [queue EXCEPT ![s.target] = Completed(@)]
              ELSE queue

SettleRepairSuccess(s) ==
  /\ s.kind = "success"
  /\ queue' = IF OwnsRow(s) /\ s.target \in accepted
              THEN [queue EXCEPT ![s.target] = Completed(@)]
              ELSE queue

Parks(s) == s.outcome = "invalid" /\ s.attempts + 1 >= MaxInvalidAttempts

Charged(r, s) ==
  [LeaseCleared(r) EXCEPT !.status = IF Parks(s) THEN "done" ELSE "open",
                          !.attempts = Least(@ + 1, AttemptCap),
                          !.next = RetryDelay(s.outcome, s.attempts),
                          !.outcome = s.outcome]

SettleRepairFailure(s) ==
  /\ s.kind = "failure"
  /\ queue' = IF OwnsRow(s)
              THEN [queue EXCEPT ![s.target] = Charged(@, s)]
              ELSE queue

ReleaseRepairLease(s) ==
  /\ s.kind = "release"
  /\ queue' = IF OwnsRow(s)
              THEN [queue EXCEPT ![s.target] = LeaseCleared(@)]
              ELSE queue

Execute(s) == \/ SettleRepairSuccess(s)
              \/ SettleRepairFailure(s)
              \/ ReleaseRepairLease(s)

(* Mutant: the insert also resets rows that are still open. *)
ReopenableOpen(r) == r.outcome # "invalid"

(* REOPENABLE_SQL: completed, and not parked as invalid. *)
Reopenable(r) == r.status = "done" /\ r.outcome # "invalid"

(* INSERT ... ON CONFLICT DO UPDATE ... WHERE REOPENABLE_SQL. *)
InsertTargets(P) ==
  queue' = [t \in Targets |->
              IF t \in P /\ (queue[t].status = "absent" \/ Reopenable(queue[t]))
              THEN OpenRow
              ELSE queue[t]]

(* One tick of NOW() seen from a row. *)
Aged(r) == IF r.status = "absent"
           THEN r
           ELSE [r EXCEPT !.next = Greatest(-OverdueCap, @ - 1),
                          !.lease = Greatest(0, @ - 1)]

Parked(r) == r.status = "done" /\ r.outcome = "invalid"

Unparked(r) == [r EXCEPT !.outcome = "none"]

QueueTypeOK == queue \in [Targets -> Row] /\ accepted \subseteq Targets

QueueInit == queue = [t \in Targets |-> AbsentRow] /\ accepted \in SUBSET Targets
=============================================================================
