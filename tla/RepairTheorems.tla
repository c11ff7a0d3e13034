--------------------------- MODULE RepairTheorems ----------------------------
(***************************************************************************)
(* What the repair queue and its processes promise, for any targets,        *)
(* processes, schedules and bounds: a lease excludes (LeaseInv is           *)
(* inductive, and LeaseExclusion and ClaimsAreCurrent follow from it); what *)
(* a step may do to a row, and the action properties that follow; and that  *)
(* all of it implements RepairLifecycle.                                    *)
(***************************************************************************)
EXTENDS RepairRefinement, RepairThrows, TLAPS, FiniteSetTheorems

-----------------------------------------------------------------------------
(* The lease protocol *)

(* A configured backoff delay is a number of ticks, whatever the attempts    *)
(* (repairRetryDelaySeconds indexes inside its schedule).                    *)
LEMMA RetryDelayIsNat ==
  ASSUME NEW outcome, NEW n \in Nat
  PROVE  RetryDelay(outcome, n) \in Nat
<1> DEFINE schedule == IF outcome = "missing" THEN MissingBackoff ELSE TransientBackoff
<1>1. schedule \in Seq(Nat) /\ Len(schedule) \in Nat /\ Len(schedule) > 0
  BY QueueAssumption
<1>2. Least(n, Len(schedule) - 1) + 1 \in 1..Len(schedule)
  BY <1>1 DEF Least
<1>3. schedule[Least(n, Len(schedule) - 1) + 1] \in Nat
  BY <1>1, <1>2
<1> QED BY <1>3 DEF RetryDelay

(* The rows the statements write are rows. *)
LEMMA RowsWritten ==
  /\ AbsentRow \in Row
  /\ OpenRow \in Row
  /\ \A r \in Row : LeaseCleared(r) \in Row /\ Aged(r) \in Row /\ Unparked(r) \in Row
  /\ \A r \in Row, token \in Tokens : Leased(r, token) \in Row
<1>1. 0 \in 0..AttemptCap /\ 0 \in 0..LeaseTicks /\ LeaseTicks \in Nat
  BY QueueAssumption
<1>2. AbsentRow \in Row
  BY <1>1 DEF AbsentRow, Row, Outcomes
<1>3. OpenRow \in Row
  BY <1>1 DEF OpenRow, AbsentRow, Row, Outcomes
<1>4. ASSUME NEW r \in Row PROVE LeaseCleared(r) \in Row
  BY <1>1 DEF LeaseCleared, Row
<1>5. ASSUME NEW r \in Row PROVE Aged(r) \in Row
  <2>1. Greatest(-OverdueCap, r.next - 1) \in Int
    BY QueueAssumption DEF Greatest, Row
  <2>2. Greatest(0, r.lease - 1) \in 0..LeaseTicks
    BY QueueAssumption DEF Greatest, Row
  <2> QED BY <2>1, <2>2 DEF Aged, Row
<1>6. ASSUME NEW r \in Row PROVE Unparked(r) \in Row
  BY DEF Unparked, Row
<1>7. ASSUME NEW r \in Row, NEW token \in Tokens PROVE Leased(r, token) \in Row
  <2>1. LeaseTicks \in 0..LeaseTicks
    BY <1>1
  <2> QED BY <2>1 DEF Leased, Row
<1> QED BY <1>2, <1>3, <1>4, <1>5, <1>6, <1>7

(* A settling statement writes the row of its claim and no other, and only   *)
(* if the row is still open under the statement's own token; then the row    *)
(* has no lease afterwards.                                                  *)
LEMMA ExecuteTouchesOwnRow ==
  ASSUME queue \in [Targets -> Row], NEW s \in Statements, Execute(s)
  PROVE  /\ queue' \in [Targets -> Row]
         /\ \A t \in Targets : t # s.target => queue'[t] = queue[t]
         /\ ~OwnsRow(s) => queue' = queue
<1>1. s.target \in Targets /\ s.attempts \in Nat /\ s.outcome \in Outcomes
  BY QueueAssumption DEF Statements
<1>2. LeaseCleared(queue[s.target]) \in Row
  BY <1>1, RowsWritten
<1>3. CASE SettleRepairSuccess(s)
  <2>1. Completed(queue[s.target]) \in Row
    BY <1>2 DEF Completed, Row
  <2> QED BY <1>1, <1>3, <2>1 DEF SettleRepairSuccess
<1>4. CASE SettleRepairFailure(s)
  <2>1. RetryDelay(s.outcome, s.attempts) \in Int
    BY <1>1, RetryDelayIsNat
  <2>2. \A n \in 0..AttemptCap : Least(n + 1, AttemptCap) \in 0..AttemptCap
    BY QueueAssumption DEF Least
  <2>3. Charged(queue[s.target], s) \in Row
    BY <1>1, <1>2, <2>1, <2>2 DEF Charged, Row
  <2> QED BY <1>1, <1>4, <2>3 DEF SettleRepairFailure
<1>5. CASE ReleaseRepairLease(s)
  BY <1>1, <1>2, <1>5 DEF ReleaseRepairLease
<1> QED BY <1>3, <1>4, <1>5 DEF Execute

-----------------------------------------------------------------------------

(* Constants and helpers of the processes. *)
LEMMA HelpersTyped ==
  /\ \A r \in Records : Classify(r) \in Outcomes
  /\ "retryable" \in Outcomes
  /\ NoSnap \in [Targets -> 0..AttemptCap]
  /\ 0 \in 0..HardStopTicks /\ HardStopTicks \in Nat
<1>1. 0 \in 0..AttemptCap /\ HardStopTicks \in Nat
  BY QueueAssumption, WorkerAssumption
<1> QED BY <1>1 DEF Records, Classify, Outcomes, NoSnap

(* Every statement the processes choose is one. *)
LEMMA StatementsTyped ==
  ASSUME TypeOK, NEW w \in Workers, tok[w] \in Tokens, NEW t \in Targets
  PROVE  /\ \A record \in Records : Chosen(w, t, record) \in Statements
         /\ Statement(w, t, "release", "retryable") \in Statements
<1>1. snap[w][t] \in 0..AttemptCap
  BY DEF TypeOK
<1>2. \A k \in {"success", "failure", "release"}, o \in Outcomes :
        Statement(w, t, k, o) \in Statements
  BY <1>1 DEF Statement, Statements
<1> QED BY <1>2, HelpersTyped DEF Chosen

(* Resetting a process keeps the types. *)
LEMMA ResetTyped ==
  ASSUME TypeOK, NEW w \in Workers, Reset(w)
  PROVE  /\ pc' \in [Workers -> PCs]
         /\ age' \in [Workers -> 0..HardStopTicks]
         /\ tok' \in [Workers -> Tokens \cup {NoToken}]
         /\ snap' \in [Workers -> [Targets -> 0..AttemptCap]]
         /\ todo' \in [Workers -> SUBSET Targets]
         /\ singles' \in [Workers -> SUBSET Targets]
         /\ group' \in [Workers -> SUBSET Targets]
         /\ fin' \in [Workers -> SUBSET Targets]
         /\ fault' \in [Workers -> {"none", "graph", "read"}]
         /\ sent' \in [Workers -> SUBSET Statements]
BY HelpersTyped DEF TypeOK, Reset, PCs

(* A statement the database executes leaves a table of rows. *)
LEMMA ExecuteTyped ==
  ASSUME TypeOK, NEW s \in Statements, Execute(s)
  PROVE  queue' \in [Targets -> Row]
BY ExecuteTouchesOwnRow DEF TypeOK, QueueTypeOK

(* Each kind of step keeps the types. *)
LEMMA WorkerStepTyped ==
  ASSUME TypeOK, TokenFollowsClaim, NEW w \in Workers, WorkerStep(w)
  PROVE  TypeOK'
<1> USE DEF TypeOK, QueueTypeOK
<1>1. CASE Start(w)
  BY <1>1 DEF Start, PCs
<1>2. CASE Claim(w)
  <2> PICK S \in SUBSET Targets, token \in Tokens :
        /\ ClaimRepairQueue(S, token)
        /\ tok' = [tok EXCEPT ![w] = token]
        /\ todo' = [todo EXCEPT ![w] = S]
        /\ snap' = [snap EXCEPT ![w] =
                      [t \in Targets |-> IF t \in S THEN queue[t].attempts ELSE 0]]
    BY <1>2 DEF Claim
  <2>1. queue' \in [Targets -> Row]
    BY RowsWritten DEF ClaimRepairQueue
  <2>2. snap' \in [Workers -> [Targets -> 0..AttemptCap]]
    <3>1. [t \in Targets |-> IF t \in S THEN queue[t].attempts ELSE 0]
            \in [Targets -> 0..AttemptCap]
      BY QueueAssumption DEF Row
    <3> QED BY <3>1
  <2>3. tok' \in [Workers -> Tokens \cup {NoToken}] /\ todo' \in [Workers -> SUBSET Targets]
    OBVIOUS
  <2>4. pc' \in [Workers -> PCs]
    BY <1>2 DEF Claim, PCs
  <2> QED BY <1>2, <2>1, <2>2, <2>3, <2>4 DEF Claim
<1>3. CASE NextGroup(w)
  <2>1. ASSUME NEW t \in singles[w],
               group' = [group EXCEPT ![w] = {t}],
               singles' = [singles EXCEPT ![w] = @ \ {t}],
               UNCHANGED todo
        PROVE  TypeOK'
    <3>1. {t} \in SUBSET Targets /\ singles[w] \ {t} \in SUBSET Targets
      OBVIOUS
    <3> QED BY <1>3, <2>1, <3>1 DEF NextGroup, PCs
  <2>2. ASSUME NEW G \in SUBSET todo[w],
               group' = [group EXCEPT ![w] = G],
               todo' = [todo EXCEPT ![w] = @ \ G],
               UNCHANGED singles
        PROVE  TypeOK'
    <3>1. G \in SUBSET Targets /\ todo[w] \ G \in SUBSET Targets
      OBVIOUS
    <3> QED BY <1>3, <2>2, <3>1 DEF NextGroup, PCs
  <2> QED BY <1>3, <2>1, <2>2 DEF NextGroup
<1>4. CASE Defer(w)
  BY <1>4 DEF Defer, PCs
<1>5. CASE GraphFinalize(w)
  BY <1>5 DEF GraphFinalize
<1>6. CASE GraphReturn(w)
  BY <1>6 DEF GraphReturn, PCs
<1>7. CASE GraphThrow(w)
  <2>1. CASE Cardinality(group[w]) > 1 /\ ~PastBudget(w)
    <3>1. singles[w] \cup group[w] \in SUBSET Targets /\ {} \in SUBSET Targets
      OBVIOUS
    <3>2. singles' \in [Workers -> SUBSET Targets]
      BY <1>7, <2>1, <3>1 DEF GraphThrow
    <3>3. group' \in [Workers -> SUBSET Targets]
      BY <1>7, <2>1, <3>1 DEF GraphThrow
    <3>4. pc' \in [Workers -> PCs]
      BY <1>7, <2>1 DEF GraphThrow, PCs
    <3> QED BY <1>7, <2>1, <3>2, <3>3, <3>4 DEF GraphThrow
  <2>2. CASE ~(Cardinality(group[w]) > 1 /\ ~PastBudget(w))
    BY <1>7, <2>2 DEF GraphThrow, PCs
  <2> QED BY <2>1, <2>2
<1>8. CASE ConfirmRead(w)
  BY <1>8 DEF ConfirmRead, PCs
<1>9. CASE ConfirmFail(w)
  BY <1>9 DEF ConfirmFail, PCs
<1>10. CASE SendSettle(w)
  <2>1. tok[w] \in Tokens
    BY <1>10 DEF SendSettle, TokenFollowsClaim, NoClaim
  <2>2. PICK t \in group[w], record \in Records :
          sent' = [sent EXCEPT ![w] = {Chosen(w, t, record)}]
    BY <1>10 DEF SendSettle
  <2>3. Chosen(w, t, record) \in Statements
    BY <2>1, <2>2, StatementsTyped
  <2> QED BY <1>10, <2>2, <2>3 DEF SendSettle
<1>11. CASE SendRelease(w)
  <2>1. tok[w] \in Tokens
    BY <1>11 DEF SendRelease, TokenFollowsClaim, NoClaim
  <2>2. PICK t \in Held(w) :
          sent' = [sent EXCEPT ![w] = {Statement(w, t, "release", "retryable")}]
    BY <1>11 DEF SendRelease
  <2>3. Statement(w, t, "release", "retryable") \in Statements
    BY <2>1, <2>2, StatementsTyped DEF Held
  <2> QED BY <1>11, <2>2, <2>3 DEF SendRelease
<1>12. CASE Answered(w)
  <2>1. PICK s \in sent[w] :
          /\ Execute(s)
          /\ todo' = [todo EXCEPT ![w] = @ \ {s.target}]
          /\ singles' = [singles EXCEPT ![w] = @ \ {s.target}]
          /\ group' = [group EXCEPT ![w] = @ \ {s.target}]
    BY <1>12 DEF Answered
  <2>2. queue' \in [Targets -> Row]
    BY <2>1, ExecuteTyped
  <2> QED BY <1>12, <2>1, <2>2 DEF Answered
<1>13. CASE GroupDone(w)
  BY <1>13 DEF GroupDone, PCs
<1>14. CASE Finish(w)
  BY <1>14, ResetTyped DEF Finish
<1>15. CASE Die(w)
  BY <1>15, ResetTyped DEF Die
<1>16. CASE Crash(w)
  BY <1>15, <1>16 DEF Crash
<1>17. CASE HardStop(w)
  BY <1>15, <1>17 DEF HardStop
<1> QED BY <1>1, <1>2, <1>3, <1>4, <1>5, <1>6, <1>7, <1>8, <1>9, <1>10, <1>11,
           <1>12, <1>13, <1>14, <1>16, <1>17 DEF WorkerStep

LEMMA OtherStepTyped ==
  ASSUME TypeOK,
         \/ \E r \in Reconcilers : ReconcilerStep(r)
         \/ \E t \in Targets : Outside(t)
         \/ LateStatement
         \/ Tick
  PROVE  TypeOK'
<1> USE DEF TypeOK, QueueTypeOK, procVars
<1>1. ASSUME NEW r \in Reconcilers, EnqueueRead(r) PROVE TypeOK'
  BY <1>1 DEF EnqueueRead
<1>2. ASSUME NEW r \in Reconcilers, EnqueueInsert(r) PROVE TypeOK'
  <2>1. queue' \in [Targets -> Row]
    BY <1>2, RowsWritten DEF EnqueueInsert, InsertTargets
  <2> QED BY <1>2, <2>1 DEF EnqueueInsert
<1>3. ASSUME NEW r \in Reconcilers, EnqueueAbandon(r) PROVE TypeOK'
  BY <1>3 DEF EnqueueAbandon
<1>4. ASSUME NEW t \in Targets, FinalizedElsewhere(t) PROVE TypeOK'
  BY <1>4 DEF FinalizedElsewhere
<1>5. ASSUME NEW t \in Targets, Quarantine(t) PROVE TypeOK'
  BY <1>5 DEF Quarantine
<1>6. ASSUME NEW t \in Targets, OperatorClear(t) PROVE TypeOK'
  <2>1. queue' \in [Targets -> Row]
    BY <1>6, RowsWritten DEF OperatorClear
  <2> QED BY <1>6, <2>1 DEF OperatorClear
<1>7. CASE LateStatement
  <2>1. PICK s \in late : Execute(s) /\ late' = late \ {s}
    BY <1>7 DEF LateStatement
  <2>2. queue' \in [Targets -> Row]
    BY <2>1, ExecuteTyped
  <2> QED BY <1>7, <2>1, <2>2 DEF LateStatement
<1>8. CASE Tick
  <2>1. queue' \in [Targets -> Row]
    BY <1>8, RowsWritten DEF Tick
  <2>2. age' \in [Workers -> 0..HardStopTicks]
    BY <1>8, HelpersTyped DEF Tick
  <2> QED BY <1>8, <2>1, <2>2 DEF Tick
<1> QED BY <1>1, <1>2, <1>3, <1>4, <1>5, <1>6, <1>7, <1>8
        DEF ReconcilerStep, Outside

-----------------------------------------------------------------------------
(* A process with claims has a token. *)
LEMMA HeldHasToken ==
  ASSUME LeaseInv, NEW w \in Workers, Held(w) # {}
  PROVE  ~NoClaim(w) /\ tok[w] \in Tokens /\ tok[w] # NoToken
BY QueueAssumption DEF LeaseInv, TokenFollowsClaim

(* The lease of a held row has not expired. *)
LEMMA HeldIsLeased ==
  ASSUME TypeOK, LeaseInv, NEW w \in Workers, NEW t \in Held(w)
  PROVE  t \in Targets /\ queue[t].lease > 0
<1>1. t \in Targets
  BY DEF TypeOK, Held
<1>2. queue[t].lease \in Int /\ age[w] \in Int /\ age[w] <= HardStopTicks
  BY <1>1, QueueAssumption, WorkerAssumption DEF TypeOK, QueueTypeOK, Row
<1>3. queue[t].lease + age[w] >= LeaseTicks
  BY DEF LeaseInv, LeaseOutlasts
<1> QED BY <1>1, <1>2, <1>3, QueueAssumption, WorkerAssumption

(* Steps that move claims inside a process, or none. *)
LEMMA ClaimsKept ==
  ASSUME TypeOK, LeaseInv, UNCHANGED <<queue, age, tok, snap, sent>>,
         late' \subseteq late,
         \A w \in Workers : Held(w)' = Held(w) /\ (NoClaim(w)' <=> NoClaim(w))
  PROVE  LeaseInv'
<1> USE DEF LeaseInv
<1>1. TokenFollowsClaim'
  BY DEF TokenFollowsClaim
<1>2. TokensDistinct'
  BY DEF TokensDistinct
<1>3. SentIsHeld'
  BY DEF SentIsHeld
<1>4. LateIsDisowned'
  BY DEF LateIsDisowned
<1>5. LeaseOutlasts'
  BY DEF LeaseOutlasts
<1> QED BY <1>1, <1>2, <1>3, <1>4, <1>5

(* Steps that end a process, leaving behind at most what it had in flight. *)
LEMMA ResetKeepsInv ==
  ASSUME TypeOK, LeaseInv, NEW w \in Workers, Reset(w), UNCHANGED queue,
         late' \subseteq late \cup sent[w]
  PROVE  LeaseInv'
<1> USE DEF LeaseInv
<1>1. /\ NoClaim(w)' /\ tok'[w] = NoToken /\ Held(w)' = {} /\ sent'[w] = {}
  BY DEF Reset, NoClaim, Held, TypeOK
<1>2. \A v \in Workers \ {w} :
        /\ NoClaim(v)' <=> NoClaim(v)
        /\ tok'[v] = tok[v] /\ age'[v] = age[v] /\ snap'[v] = snap[v]
        /\ Held(v)' = Held(v) /\ sent'[v] = sent[v]
  BY DEF Reset, NoClaim, Held, TypeOK
<1>3. TokenFollowsClaim'
  BY <1>1, <1>2 DEF TokenFollowsClaim
<1>4. TokensDistinct'
  BY <1>1, <1>2 DEF TokensDistinct
<1>5. SentIsHeld'
  BY <1>1, <1>2 DEF SentIsHeld
<1>6. LateIsDisowned'
  <2> SUFFICES ASSUME NEW s \in late', NEW v \in Workers
               PROVE  s.token # tok'[v]
    BY DEF LateIsDisowned
  <2>1. CASE s \in late
    <3>1. s.token \in Tokens
      BY <2>1 DEF TypeOK, Statements
    <3> QED BY <2>1, <3>1, <1>1, <1>2, QueueAssumption DEF LateIsDisowned
  <2>2. CASE s \in sent[w]
    <3>1. s.token = tok[w] /\ tok[w] # NoToken /\ Held(w) # {}
      BY <2>2, HeldHasToken DEF SentIsHeld
    <3> QED BY <3>1, <1>1, <1>2 DEF TokensDistinct
  <2> QED BY <2>1, <2>2
<1>7. LeaseOutlasts'
  BY <1>1, <1>2 DEF LeaseOutlasts
<1> QED BY <1>3, <1>4, <1>5, <1>6, <1>7

(* A step that changes the table but not the rows processes hold. *)
LEMMA HeldRowsKept ==
  ASSUME TypeOK, LeaseInv, UNCHANGED <<pc, age, tok, snap, todo, singles, group, sent>>,
         late' \subseteq late,
         \A w \in Workers : \A t \in Held(w) : queue'[t] = queue[t]
  PROVE  LeaseInv'
<1> USE DEF LeaseInv
<1>1. \A w \in Workers : Held(w)' = Held(w) /\ (NoClaim(w)' <=> NoClaim(w))
  BY DEF Held, NoClaim
<1>2. TokenFollowsClaim' /\ TokensDistinct'
  BY <1>1 DEF TokenFollowsClaim, TokensDistinct
<1>3. SentIsHeld'
  BY <1>1 DEF SentIsHeld
<1>4. LateIsDisowned'
  BY DEF LateIsDisowned
<1>5. LeaseOutlasts'
  BY <1>1 DEF LeaseOutlasts
<1> QED BY <1>2, <1>3, <1>4, <1>5

(* The heart of exclusion: a claim takes no row that a live process holds,   *)
(* because that row's lease has not expired.                                 *)
LEMMA ClaimSparesHeld ==
  ASSUME TypeOK, LeaseInv, NEW S \in SUBSET Targets, ClaimableBatch(S),
         NEW v \in Workers
  PROVE  S \cap Held(v) = {}
<1> SUFFICES ASSUME NEW t \in S, t \in Held(v) PROVE FALSE
  OBVIOUS
<1>1. Unleased(queue[t])
  BY DEF ClaimableBatch, DueTargets, Due
<1>2. queue[t].token = tok[v] /\ tok[v] # NoToken
  BY HeldHasToken DEF LeaseInv, LeaseOutlasts
<1>3. queue[t].lease > 0
  BY HeldIsLeased
<1> QED BY <1>1, <1>2, <1>3 DEF Unleased

LEMMA ClaimKeepsInv ==
  ASSUME TypeOK, LeaseInv, NEW w \in Workers, Claim(w)
  PROVE  LeaseInv'
<1> USE DEF LeaseInv
<1>1. PICK S \in SUBSET Targets, token \in Tokens :
        /\ ClaimableBatch(S)
        /\ Fresh(token)
        /\ ClaimRepairQueue(S, token)
        /\ tok' = [tok EXCEPT ![w] = token]
        /\ todo' = [todo EXCEPT ![w] = S]
        /\ snap' = [snap EXCEPT ![w] =
                      [t \in Targets |-> IF t \in S THEN queue[t].attempts ELSE 0]]
  BY DEF Claim
<1>2. /\ pc[w] = "starting" /\ pc' = [pc EXCEPT ![w] = "dispatch"]
      /\ UNCHANGED <<accepted, age, singles, group, fin, fault, sent, late, pending>>
  BY DEF Claim
<1>3. Held(w) = {} /\ sent[w] = {} /\ NoClaim(w)
  BY <1>2 DEF TokenFollowsClaim, NoClaim
<1>4. /\ ~NoClaim(w)' /\ tok'[w] = token /\ Held(w)' = S
      /\ \A t \in S : snap'[w][t] = queue[t].attempts
  BY <1>1, <1>2, <1>3 DEF NoClaim, Held, TypeOK
<1>5. \A v \in Workers \ {w} :
        /\ NoClaim(v)' <=> NoClaim(v)
        /\ tok'[v] = tok[v] /\ snap'[v] = snap[v]
        /\ Held(v)' = Held(v)
  BY <1>1, <1>2 DEF NoClaim, Held, TypeOK
<1>6. TokenFollowsClaim'
  BY <1>2, <1>4, <1>5 DEF TokenFollowsClaim
<1>7. TokensDistinct'
  BY <1>1, <1>4, <1>5 DEF TokensDistinct, Fresh
<1>8. SentIsHeld'
  BY <1>2, <1>3, <1>4, <1>5 DEF SentIsHeld
<1>9. LateIsDisowned'
  BY <1>1, <1>2, <1>4, <1>5 DEF LateIsDisowned, Fresh
<1>10. LeaseOutlasts'
  <2> SUFFICES ASSUME NEW v \in Workers, NEW t \in Held(v)'
               PROVE  /\ queue'[t].status = "open"
                      /\ queue'[t].token = tok'[v]
                      /\ queue'[t].attempts = snap'[v][t]
                      /\ queue'[t].lease + age'[v] >= LeaseTicks
    BY DEF LeaseOutlasts
  <2>1. CASE v = w
    <3>1. t \in S /\ t \in Targets /\ queue[t] \in Row
      BY <2>1, <1>4 DEF TypeOK, QueueTypeOK
    <3>2. queue[t].status = "open"
      BY <1>1, <3>1 DEF ClaimableBatch, DueTargets, Due
    <3>3. queue'[t] = Leased(queue[t], token)
      BY <1>1, <3>1 DEF ClaimRepairQueue
    <3>4. /\ queue'[t].status = "open" /\ queue'[t].token = token
          /\ queue'[t].attempts = queue[t].attempts /\ queue'[t].lease = LeaseTicks
      BY <3>1, <3>2, <3>3 DEF Leased, Row
    <3>5. age'[v] \in Nat
      BY <1>2, HelpersTyped DEF TypeOK
    <3> QED BY <2>1, <1>4, <3>1, <3>4, <3>5, QueueAssumption
  <2>2. CASE v # w
    <3>1. t \in Held(v) /\ t \in Targets
      BY <2>2, <1>5 DEF Held, TypeOK
    <3>2. t \notin S
      BY <3>1, <1>1, ClaimSparesHeld
    <3>3. queue'[t] = queue[t]
      BY <3>1, <3>2, <1>1 DEF ClaimRepairQueue
    <3> QED BY <2>2, <1>2, <1>5, <3>1, <3>3 DEF LeaseOutlasts
  <2> QED BY <2>1, <2>2
<1> QED BY <1>6, <1>7, <1>8, <1>9, <1>10

(* A process sends statements about its own claims. *)
LEMMA SendKeepsInv ==
  ASSUME TypeOK, LeaseInv, NEW w \in Workers, NEW s \in Statements,
         s.token = tok[w], s.target \in Held(w),
         sent' = [sent EXCEPT ![w] = {s}],
         UNCHANGED <<queue, pc, age, tok, snap, todo, singles, group, late>>
  PROVE  LeaseInv'
<1> USE DEF LeaseInv
<1>1. \A v \in Workers : Held(v)' = Held(v) /\ (NoClaim(v)' <=> NoClaim(v))
  BY DEF Held, NoClaim
<1>2. sent'[w] = {s} /\ \A v \in Workers \ {w} : sent'[v] = sent[v]
  BY DEF TypeOK
<1>3. ~NoClaim(w)
  BY HeldHasToken
<1>4. TokenFollowsClaim'
  BY <1>1, <1>2, <1>3 DEF TokenFollowsClaim
<1>5. TokensDistinct'
  BY DEF TokensDistinct
<1>6. SentIsHeld'
  BY <1>1, <1>2 DEF SentIsHeld
<1>7. LateIsDisowned'
  BY DEF LateIsDisowned
<1>8. LeaseOutlasts'
  BY <1>1 DEF LeaseOutlasts
<1> QED BY <1>4, <1>5, <1>6, <1>7, <1>8

(* A statement writes no row held under another token. *)
LEMMA ExecuteSparesOthers ==
  ASSUME TypeOK, LeaseInv, NEW s \in Statements, Execute(s),
         NEW v \in Workers, s.token # tok[v], NEW t \in Held(v)
  PROVE  queue'[t] = queue[t]
<1>1. t \in Targets /\ queue[t].token = tok[v]
  BY HeldIsLeased DEF LeaseInv, LeaseOutlasts
<1>2. CASE t # s.target
  BY <1>1, <1>2, ExecuteTouchesOwnRow DEF TypeOK, QueueTypeOK
<1>3. CASE t = s.target
  <2>1. ~OwnsRow(s)
    BY <1>1, <1>3 DEF OwnsRow
  <2> QED BY <2>1, ExecuteTouchesOwnRow DEF TypeOK, QueueTypeOK
<1> QED BY <1>2, <1>3

LEMMA AnsweredKeepsInv ==
  ASSUME TypeOK, LeaseInv, NEW w \in Workers, Answered(w)
  PROVE  LeaseInv'
<1> USE DEF LeaseInv
<1>1. PICK s \in sent[w] :
        /\ Execute(s)
        /\ todo' = [todo EXCEPT ![w] = @ \ {s.target}]
        /\ singles' = [singles EXCEPT ![w] = @ \ {s.target}]
        /\ group' = [group EXCEPT ![w] = @ \ {s.target}]
  BY DEF Answered
<1>2. /\ sent' = [sent EXCEPT ![w] = {}]
      /\ UNCHANGED <<accepted, pc, age, tok, snap, fin, fault, late, pending>>
  BY DEF Answered
<1>3. s \in Statements /\ s.token = tok[w] /\ s.target \in Held(w)
  BY DEF TypeOK, SentIsHeld
<1>4. Held(w)' = Held(w) \ {s.target} /\ sent'[w] = {}
  BY <1>1, <1>2 DEF Held, TypeOK
<1>5. \A v \in Workers \ {w} : Held(v)' = Held(v) /\ sent'[v] = sent[v]
  BY <1>1, <1>2 DEF Held, TypeOK
<1>6. \A v \in Workers : NoClaim(v)' <=> NoClaim(v)
  BY <1>2 DEF NoClaim
<1>7. TokenFollowsClaim'
  <2>1. ~NoClaim(w)
    BY <1>3, HeldHasToken
  <2> QED BY <2>1, <1>2, <1>5, <1>6 DEF TokenFollowsClaim
<1>8. TokensDistinct' /\ LateIsDisowned'
  BY <1>2 DEF TokensDistinct, LateIsDisowned
<1>9. SentIsHeld'
  BY <1>2, <1>4, <1>5 DEF SentIsHeld
<1>10. LeaseOutlasts'
  <2> SUFFICES ASSUME NEW v \in Workers, NEW t \in Held(v)'
               PROVE  t \in Held(v) /\ queue'[t] = queue[t]
    BY <1>2 DEF LeaseOutlasts
  <2>1. CASE v = w
    <3>1. t \in Held(v) /\ t # s.target /\ t \in Targets
      BY <2>1, <1>4, HeldIsLeased
    <3> QED BY <3>1, <1>1, <1>3, ExecuteTouchesOwnRow DEF TypeOK, QueueTypeOK
  <2>2. CASE v # w
    <3>1. t \in Held(v)
      BY <2>2, <1>5
    <3>2. tok[v] # NoToken
      BY <3>1, HeldHasToken
    <3>3. s.token # tok[v]
      BY <2>2, <3>2, <1>3 DEF TokensDistinct
    <3> QED BY <3>1, <3>3, <1>1, <1>3, ExecuteSparesOthers
  <2> QED BY <2>1, <2>2
<1> QED BY <1>7, <1>8, <1>9, <1>10

LEMMA WorkerStepKeepsInv ==
  ASSUME TypeOK, LeaseInv, BetweenGroups, NEW w \in Workers, WorkerStep(w)
  PROVE  LeaseInv'
<1>1. CASE Start(w)
  <2>1. \A v \in Workers : Held(v)' = Held(v) /\ (NoClaim(v)' <=> NoClaim(v))
    BY <1>1 DEF Start, Held, NoClaim, TypeOK
  <2> QED BY <1>1, <2>1, ClaimsKept DEF Start
<1>2. CASE Claim(w)
  BY <1>2, ClaimKeepsInv
<1>3. CASE NextGroup(w)
  <2>1. \A v \in Workers : NoClaim(v)' <=> NoClaim(v)
    BY <1>3 DEF NextGroup, NoClaim, TypeOK
  <2>2. \A v \in Workers : v # w => Held(v)' = Held(v)
    BY <1>3 DEF NextGroup, Held, TypeOK
  <2>3. group[w] = {}
    BY <1>3 DEF NextGroup, BetweenGroups
  <2>4. Held(w)' = Held(w)
    BY <1>3, <2>3 DEF NextGroup, Held, TypeOK
  <2> QED BY <1>3, <2>1, <2>2, <2>4, ClaimsKept DEF NextGroup
<1>4. CASE Defer(w)
  <2>1. \A v \in Workers : Held(v)' = Held(v) /\ (NoClaim(v)' <=> NoClaim(v))
    BY <1>4 DEF Defer, Held, NoClaim, TypeOK
  <2> QED BY <1>4, <2>1, ClaimsKept DEF Defer
<1>5. CASE GraphFinalize(w)
  <2>1. \A v \in Workers : Held(v)' = Held(v) /\ (NoClaim(v)' <=> NoClaim(v))
    BY <1>5 DEF GraphFinalize, Held, NoClaim
  <2> QED BY <1>5, <2>1, ClaimsKept DEF GraphFinalize
<1>6. CASE GraphReturn(w)
  <2>1. \A v \in Workers : Held(v)' = Held(v) /\ (NoClaim(v)' <=> NoClaim(v))
    BY <1>6 DEF GraphReturn, Held, NoClaim, TypeOK
  <2> QED BY <1>6, <2>1, ClaimsKept DEF GraphReturn
<1>7. CASE GraphThrow(w)
  <2>1. \A v \in Workers : NoClaim(v)' <=> NoClaim(v)
    BY <1>7 DEF GraphThrow, NoClaim, TypeOK
  <2>2. CASE Cardinality(group[w]) > 1 /\ ~PastBudget(w)
    <3>1. /\ singles' = [singles EXCEPT ![w] = @ \cup group[w]]
          /\ group' = [group EXCEPT ![w] = {}]
          /\ todo' = todo
      BY <1>7, <2>2 DEF GraphThrow
    <3>2. \A v \in Workers : v # w => Held(v)' = Held(v)
      BY <3>1 DEF Held, TypeOK
    <3>3. Held(w)' = Held(w)
      <4>1. singles'[w] = singles[w] \cup group[w] /\ group'[w] = {}
        BY <3>1 DEF TypeOK
      <4> QED BY <3>1, <4>1 DEF Held
    <3> QED BY <1>7, <2>1, <3>2, <3>3, ClaimsKept DEF GraphThrow
  <2>3. CASE ~(Cardinality(group[w]) > 1 /\ ~PastBudget(w))
    <3>1. \A v \in Workers : Held(v)' = Held(v)
      BY <1>7, <2>3 DEF GraphThrow, Held
    <3> QED BY <1>7, <2>1, <3>1, ClaimsKept DEF GraphThrow
  <2> QED BY <2>2, <2>3
<1>8. CASE ConfirmRead(w)
  <2>1. \A v \in Workers : Held(v)' = Held(v) /\ (NoClaim(v)' <=> NoClaim(v))
    BY <1>8 DEF ConfirmRead, Held, NoClaim, TypeOK
  <2> QED BY <1>8, <2>1, ClaimsKept DEF ConfirmRead
<1>9. CASE ConfirmFail(w)
  <2>1. \A v \in Workers : Held(v)' = Held(v) /\ (NoClaim(v)' <=> NoClaim(v))
    BY <1>9 DEF ConfirmFail, Held, NoClaim, TypeOK
  <2> QED BY <1>9, <2>1, ClaimsKept DEF ConfirmFail
<1>10. CASE SendSettle(w)
  <2>1. tok[w] \in Tokens
    BY <1>10 DEF SendSettle, LeaseInv, TokenFollowsClaim, NoClaim
  <2>2. PICK t \in group[w], record \in Records :
          sent' = [sent EXCEPT ![w] = {Chosen(w, t, record)}]
    BY <1>10 DEF SendSettle
  <2>3. t \in Targets /\ t \in Held(w)
    BY DEF Held, TypeOK
  <2>4. Chosen(w, t, record) \in Statements
    BY <2>1, <2>2, <2>3, StatementsTyped
  <2>5. Chosen(w, t, record).token = tok[w] /\ Chosen(w, t, record).target = t
    BY DEF Chosen, Statement
  <2> QED BY <1>10, <2>2, <2>3, <2>4, <2>5, SendKeepsInv DEF SendSettle
<1>11. CASE SendRelease(w)
  <2>1. tok[w] \in Tokens
    BY <1>11 DEF SendRelease, LeaseInv, TokenFollowsClaim, NoClaim
  <2>2. PICK t \in Held(w) :
          sent' = [sent EXCEPT ![w] = {Statement(w, t, "release", "retryable")}]
    BY <1>11 DEF SendRelease
  <2>3. t \in Targets
    BY DEF Held, TypeOK
  <2> DEFINE s == Statement(w, t, "release", "retryable")
  <2>4. s \in Statements
    BY <2>1, <2>3, StatementsTyped
  <2>5. s.token = tok[w] /\ s.target = t
    BY DEF Statement
  <2> QED BY <1>11, <2>2, <2>4, <2>5, SendKeepsInv DEF SendRelease
<1>12. CASE Answered(w)
  BY <1>12, AnsweredKeepsInv
<1>13. CASE GroupDone(w)
  <2>1. \A v \in Workers : Held(v)' = Held(v) /\ (NoClaim(v)' <=> NoClaim(v))
    BY <1>13 DEF GroupDone, Held, NoClaim, TypeOK
  <2> QED BY <1>13, <2>1, ClaimsKept DEF GroupDone
<1>14. CASE Finish(w)
  BY <1>14, ResetKeepsInv DEF Finish
<1>15. CASE Die(w)
  BY <1>15, ResetKeepsInv DEF Die
<1>16. CASE Crash(w)
  BY <1>15, <1>16 DEF Crash
<1>17. CASE HardStop(w)
  BY <1>15, <1>17 DEF HardStop
<1> QED BY <1>1, <1>2, <1>3, <1>4, <1>5, <1>6, <1>7, <1>8, <1>9, <1>10, <1>11,
           <1>12, <1>13, <1>14, <1>16, <1>17 DEF WorkerStep

(* Reconciliation, other writers and operators touch no held row. *)
LEMMA OutsideKeepsInv ==
  ASSUME TypeOK, LeaseInv,
         \/ \E r \in Reconcilers : ReconcilerStep(r)
         \/ \E t \in Targets : Outside(t)
         \/ LateStatement
  PROVE  LeaseInv'
<1> USE DEF procVars
<1>1. \A w \in Workers : \A t \in Held(w) : t \in Targets /\ queue[t].status = "open"
  BY HeldIsLeased DEF LeaseInv, LeaseOutlasts
<1>2. ASSUME NEW r \in Reconcilers, EnqueueRead(r) \/ EnqueueAbandon(r) PROVE LeaseInv'
  BY <1>2, HeldRowsKept DEF EnqueueRead, EnqueueAbandon
<1>3. ASSUME NEW r \in Reconcilers, EnqueueInsert(r) PROVE LeaseInv'
  <2>1. \A t \in Targets : queue[t].status = "open" => queue'[t] = queue[t]
    BY <1>3 DEF EnqueueInsert, InsertTargets, Reopenable
  <2> QED BY <1>1, <1>3, <2>1, HeldRowsKept DEF EnqueueInsert
<1>4. ASSUME NEW t \in Targets, FinalizedElsewhere(t) \/ Quarantine(t) PROVE LeaseInv'
  BY <1>4, HeldRowsKept DEF FinalizedElsewhere, Quarantine
<1>5. ASSUME NEW t \in Targets, OperatorClear(t) PROVE LeaseInv'
  <2>1. queue[t].status # "open"
    BY <1>5 DEF OperatorClear, Parked
  <2>2. \A u \in Targets : u # t => queue'[u] = queue[u]
    BY <1>5 DEF OperatorClear, TypeOK, QueueTypeOK
  <2> QED BY <1>1, <1>5, <2>1, <2>2, HeldRowsKept DEF OperatorClear
<1>6. CASE LateStatement
  <2>1. PICK s \in late : Execute(s) /\ late' = late \ {s}
    BY <1>6 DEF LateStatement
  <2>2. s \in Statements /\ \A w \in Workers : s.token # tok[w]
    BY DEF TypeOK, LeaseInv, LateIsDisowned
  <2>3. \A w \in Workers : \A t \in Held(w) : queue'[t] = queue[t]
    BY <2>1, <2>2, ExecuteSparesOthers
  <2> QED BY <1>6, <2>1, <2>3, HeldRowsKept DEF LateStatement
<1> QED BY <1>2, <1>3, <1>4, <1>5, <1>6 DEF ReconcilerStep, Outside

(* A tick takes from the lease what it adds to the age. *)
LEMMA TickKeepsInv ==
  ASSUME TypeOK, LeaseInv, Tick
  PROVE  LeaseInv'
<1> USE DEF LeaseInv
<1>1. UNCHANGED <<pc, tok, snap, todo, singles, group, sent, late>>
  BY DEF Tick
<1>2. \A w \in Workers : Held(w)' = Held(w) /\ (NoClaim(w)' <=> NoClaim(w))
  BY <1>1 DEF Held, NoClaim
<1>3. TokenFollowsClaim' /\ TokensDistinct' /\ SentIsHeld' /\ LateIsDisowned'
  BY <1>1, <1>2 DEF TokenFollowsClaim, TokensDistinct, SentIsHeld, LateIsDisowned
<1>4. LeaseOutlasts'
  <2> SUFFICES ASSUME NEW w \in Workers, NEW t \in Held(w)
               PROVE  /\ queue'[t].status = "open"
                      /\ queue'[t].token = tok[w]
                      /\ queue'[t].attempts = snap[w][t]
                      /\ queue'[t].lease + age'[w] >= LeaseTicks
    BY <1>1, <1>2 DEF LeaseOutlasts
  <2>1. t \in Targets /\ queue[t].lease > 0 /\ queue[t] \in Row
    BY HeldIsLeased DEF TypeOK, QueueTypeOK
  <2>2. /\ queue[t].status = "open" /\ queue[t].token = tok[w]
        /\ queue[t].attempts = snap[w][t]
        /\ queue[t].lease + age[w] >= LeaseTicks
    BY DEF LeaseOutlasts
  <2>3. age[w] \in Int /\ age'[w] = age[w] + 1
    <3>1. Live(w)
      BY HeldHasToken DEF NoClaim, Live
    <3>2. age[w] \in 0..HardStopTicks
      BY DEF TypeOK
    <3> QED BY <3>1, <3>2, HelpersTyped DEF Tick
  <2>4. queue'[t] = Aged(queue[t])
    BY <2>1 DEF Tick
  <2>5. queue[t].lease \in Int
    BY <2>1, QueueAssumption DEF Row
  <2>6. /\ Aged(queue[t]).status = queue[t].status
        /\ Aged(queue[t]).token = queue[t].token
        /\ Aged(queue[t]).attempts = queue[t].attempts
        /\ Aged(queue[t]).lease = Greatest(0, queue[t].lease - 1)
    BY <2>1, <2>2 DEF Aged, Row
  <2>7. Greatest(0, queue[t].lease - 1) = queue[t].lease - 1
    BY <2>1, <2>5 DEF Greatest
  <2> QED BY <2>2, <2>3, <2>4, <2>5, <2>6, <2>7, QueueAssumption
<1> QED BY <1>3, <1>4

-----------------------------------------------------------------------------
(* Between two groups nothing of the last one is left. *)
LEMMA BetweenGroupsKept ==
  ASSUME TypeOK, LeaseInv, BetweenGroups, [Next]_vars
  PROVE  BetweenGroups'
<1> SUFFICES ASSUME NEW v \in Workers, pc'[v] = "dispatch"
             PROVE  group'[v] = {}
  BY DEF BetweenGroups
<1> USE DEF TypeOK, BetweenGroups
<1>1. ASSUME NEW w \in Workers, WorkerStep(w) PROVE group'[v] = {}
  <2>1. CASE v # w /\ ~Die(w) /\ ~Finish(w)
    <3>1. pc'[v] = pc[v] /\ group'[v] = group[v]
      BY <1>1, <2>1 DEF WorkerStep, Start, Claim, NextGroup, Defer, GraphFinalize,
           GraphReturn, GraphThrow, ConfirmRead, ConfirmFail, SendSettle, SendRelease,
           Answered, GroupDone, Crash, HardStop
    <3> QED BY <3>1
  <2>2. CASE Die(w) \/ Finish(w)
    <3>1. Reset(w)
      BY <2>2 DEF Die, Finish
    <3> QED BY <3>1 DEF Reset
  <2>3. CASE v = w /\ ~Die(w) /\ ~Finish(w)
    <3>1. CASE Claim(w)
      <4>1. group[w] = {}
        BY <3>1 DEF Claim, LeaseInv, TokenFollowsClaim, NoClaim, Held
      <4> QED BY <2>3, <3>1, <4>1 DEF Claim
    <3>2. CASE GraphThrow(w)
      BY <2>3, <3>2 DEF GraphThrow
    <3>3. CASE GroupDone(w)
      BY <2>3, <3>3 DEF GroupDone
    <3>4. CASE Answered(w)
      BY <2>3, <3>4 DEF Answered
    <3>5. CASE ~Claim(w) /\ ~GraphThrow(w) /\ ~GroupDone(w) /\ ~Answered(w)
      BY <1>1, <2>3, <3>5 DEF WorkerStep, Start, NextGroup, Defer, GraphFinalize,
           GraphReturn, ConfirmRead, ConfirmFail, SendSettle, SendRelease, Crash, HardStop
    <3> QED BY <3>1, <3>2, <3>3, <3>4, <3>5
  <2> QED BY <2>1, <2>2, <2>3
<1>2. CASE \/ \E r \in Reconcilers : ReconcilerStep(r)
           \/ \E t \in Targets : Outside(t)
           \/ LateStatement
           \/ Tick
           \/ UNCHANGED vars
  BY <1>2 DEF ReconcilerStep, EnqueueRead, EnqueueInsert, EnqueueAbandon, Outside,
       FinalizedElsewhere, Quarantine, OperatorClear, LateStatement, Tick, procVars, vars
<1> QED BY <1>1, <1>2 DEF Next

LEMMA InitEstablishesInv == Init => IInv
<1> SUFFICES ASSUME Init PROVE IInv
  OBVIOUS
<1>1. TypeOK
  BY HelpersTyped, RowsWritten DEF Init, QueueInit, TypeOK, QueueTypeOK, PCs
<1>2. \A w \in Workers : NoClaim(w) /\ tok[w] = NoToken /\ Held(w) = {} /\ sent[w] = {}
  BY DEF Init, NoClaim, Held
<1>3. late = {}
  BY DEF Init
<1>4. LeaseInv
  BY <1>2, <1>3 DEF LeaseInv, TokenFollowsClaim, TokensDistinct, SentIsHeld,
                    LateIsDisowned, LeaseOutlasts
<1>5. BetweenGroups
  BY DEF Init, BetweenGroups
<1> QED BY <1>1, <1>4, <1>5 DEF IInv

LEMMA NextKeepsInv == IInv /\ [Next]_vars => IInv'
<1> SUFFICES ASSUME IInv, [Next]_vars PROVE IInv'
  OBVIOUS
<1> USE DEF IInv
<1>1. ASSUME NEW w \in Workers, WorkerStep(w) PROVE IInv'
  BY <1>1, WorkerStepTyped, WorkerStepKeepsInv, BetweenGroupsKept DEF LeaseInv, Next
<1>2. CASE \/ \E r \in Reconcilers : ReconcilerStep(r)
           \/ \E t \in Targets : Outside(t)
           \/ LateStatement
  BY <1>2, OtherStepTyped, OutsideKeepsInv, BetweenGroupsKept DEF Next
<1>3. CASE Tick
  BY <1>3, OtherStepTyped, TickKeepsInv, BetweenGroupsKept DEF Next
<1>4. CASE UNCHANGED vars
  <2>1. TypeOK'
    BY <1>4 DEF vars, TypeOK, QueueTypeOK
  <2>2. \A w \in Workers : Held(w)' = Held(w) /\ (NoClaim(w)' <=> NoClaim(w))
    BY <1>4 DEF vars, Held, NoClaim
  <2> QED BY <1>4, <2>1, <2>2, ClaimsKept, BetweenGroupsKept DEF vars
<1> QED BY <1>1, <1>2, <1>3, <1>4 DEF Next

(* Every state the queue and its processes reach has the declared types      *)
(* (statements, rows and process states of repair-queue.ts and               *)
(* processClaims).                                                           *)
THEOREM TypeCorrect == Spec => []TypeOK
<1>1. IInv => TypeOK
  BY DEF IInv
<1> QED BY <1>1, InitEstablishesInv, NextKeepsInv, PTL DEF Spec

(* A claim lives exactly as long as its token, and its lease outlasts its    *)
(* process (claimRepairQueue, randomLeaseToken, hardStopTimer).              *)
THEOREM LeaseInvariant == Spec => []IInv
BY InitEstablishesInv, NextKeepsInv, PTL DEF Spec

(* Two live worker processes never hold the same repair target.              *)
THEOREM Exclusion == Spec => []LeaseExclusion
<1>1. IInv => LeaseExclusion
  <2> SUFFICES ASSUME IInv, NEW v \in Workers, NEW w \in Workers, v # w,
                      NEW t \in Held(v), t \in Held(w)
               PROVE  FALSE
    BY DEF LeaseExclusion
  <2>1. tok[v] = tok[w]
    BY DEF IInv, LeaseInv, LeaseOutlasts
  <2>2. tok[v] # NoToken
    BY HeldHasToken DEF IInv
  <2> QED BY <2>1, <2>2 DEF IInv, LeaseInv, TokensDistinct
<1> QED BY <1>1, InitEstablishesInv, NextKeepsInv, PTL DEF Spec

(* A live worker's view of a claim it holds is the row's: its attempt count  *)
(* snapshot, from which backoff and parking are computed, is never stale.    *)
THEOREM Currency == Spec => []ClaimsAreCurrent
<1>1. IInv => ClaimsAreCurrent
  BY HeldIsLeased DEF IInv, LeaseInv, LeaseOutlasts, ClaimsAreCurrent
<1> QED BY <1>1, InitEstablishesInv, NextKeepsInv, PTL DEF Spec

-----------------------------------------------------------------------------
(* Steps *)

(* The ways a row may change: not at all, by waiting, by an operator, by a   *)
(* claim, by the insert of reconciliation, or by a settling statement that   *)
(* finds its own token in it.                                                *)
RowChange(t) ==
  \/ queue'[t] = queue[t]
  \/ queue'[t] = Aged(queue[t])
  \/ Parked(queue[t]) /\ queue'[t] = Unparked(queue[t])
  \/ Due(t) /\ \E token \in Tokens : Fresh(token) /\ queue'[t] = Leased(queue[t], token)
  \/ queue[t].status # "open" /\ queue'[t] = OpenRow
  \/ \E s \in InFlight :
       /\ s.target = t
       /\ OwnsRow(s)
       /\ \/ t \in accepted /\ queue'[t] = Completed(queue[t])
          \/ queue'[t] = Charged(queue[t], s)
          \/ queue'[t] = LeaseCleared(queue[t])

LEMMA ExecuteChangesRow ==
  ASSUME TypeOK, NEW s \in InFlight, Execute(s), NEW t \in Targets
  PROVE  RowChange(t)
<1>1. s \in Statements /\ s.target \in Targets
  BY DEF TypeOK, InFlight, Statements
<1>2. CASE ~OwnsRow(s) \/ t # s.target
  BY <1>1, <1>2, ExecuteTouchesOwnRow DEF TypeOK, QueueTypeOK, RowChange
<1>3. CASE OwnsRow(s) /\ t = s.target
  <2>1. CASE SettleRepairSuccess(s)
    BY <1>3, <2>1 DEF SettleRepairSuccess, TypeOK, QueueTypeOK, RowChange
  <2>2. CASE SettleRepairFailure(s)
    BY <1>3, <2>2 DEF SettleRepairFailure, TypeOK, QueueTypeOK, RowChange
  <2>3. CASE ReleaseRepairLease(s)
    BY <1>3, <2>3 DEF ReleaseRepairLease, TypeOK, QueueTypeOK, RowChange
  <2> QED BY <2>1, <2>2, <2>3 DEF Execute
<1> QED BY <1>2, <1>3

LEMMA StepChangesRow ==
  ASSUME IInv, [Next]_vars, NEW t \in Targets
  PROVE  RowChange(t)
<1> USE DEF IInv
<1>1. CASE UNCHANGED queue
  BY <1>1 DEF RowChange
<1>2. ASSUME NEW w \in Workers, Claim(w) PROVE RowChange(t)
  <2>1. PICK S \in SUBSET Targets, token \in Tokens :
          ClaimableBatch(S) /\ Fresh(token) /\ ClaimRepairQueue(S, token)
    BY <1>2 DEF Claim
  <2>2. CASE t \in S
    BY <2>1, <2>2 DEF ClaimableBatch, DueTargets, ClaimRepairQueue, RowChange
  <2>3. CASE t \notin S
    BY <2>1, <2>3 DEF ClaimRepairQueue, RowChange
  <2> QED BY <2>2, <2>3
<1>3. ASSUME NEW w \in Workers, Answered(w) PROVE RowChange(t)
  <2>1. PICK s \in sent[w] : Execute(s)
    BY <1>3 DEF Answered
  <2>2. s \in InFlight
    BY <2>1 DEF InFlight
  <2> QED BY <2>1, <2>2, ExecuteChangesRow
<1>4. ASSUME NEW w \in Workers, WorkerStep(w), ~Claim(w), ~Answered(w)
      PROVE  UNCHANGED queue
  BY <1>4 DEF WorkerStep, Start, NextGroup, Defer, GraphFinalize, GraphReturn,
       GraphThrow, ConfirmRead, ConfirmFail, SendSettle, SendRelease, GroupDone,
       Finish, Crash, HardStop, Die
<1>5. ASSUME NEW r \in Reconcilers, ReconcilerStep(r) PROVE RowChange(t)
  <2>1. CASE EnqueueInsert(r)
    BY <2>1 DEF EnqueueInsert, InsertTargets, Reopenable, RowChange
  <2>2. CASE ~EnqueueInsert(r)
    BY <1>1, <1>5, <2>2 DEF ReconcilerStep, EnqueueRead, EnqueueAbandon
  <2> QED BY <2>1, <2>2
<1>6. ASSUME NEW u \in Targets, Outside(u) PROVE RowChange(t)
  <2>1. CASE OperatorClear(u)
    BY <2>1 DEF OperatorClear, RowChange, TypeOK, QueueTypeOK
  <2>2. CASE ~OperatorClear(u)
    BY <1>1, <1>6, <2>2 DEF Outside, FinalizedElsewhere, Quarantine
  <2> QED BY <2>1, <2>2
<1>7. CASE LateStatement
  <2>1. PICK s \in late : Execute(s)
    BY <1>7 DEF LateStatement
  <2>2. s \in InFlight
    BY <2>1 DEF InFlight
  <2> QED BY <2>1, <2>2, ExecuteChangesRow
<1>8. CASE Tick
  BY <1>8 DEF Tick, RowChange
<1>9. CASE UNCHANGED vars
  BY <1>1, <1>9 DEF vars
<1> QED BY <1>1, <1>2, <1>3, <1>4, <1>5, <1>6, <1>7, <1>8, <1>9 DEF Next

(* Rows after each kind of change, field by field. *)
LEMMA RowFields ==
  ASSUME NEW r \in Row
  PROVE  /\ Aged(r).status = r.status /\ Aged(r).attempts = r.attempts
         /\ Aged(r).token = r.token /\ Aged(r).outcome = r.outcome
         /\ Aged(r).next >= r.next - 1
         /\ r.next <= 0 => Aged(r).next <= 0
         /\ Unparked(r).status = r.status /\ Unparked(r).token = r.token
         /\ Unparked(r).next = r.next /\ Unparked(r).attempts = r.attempts
         /\ \A token : /\ Leased(r, token).status = r.status
                       /\ Leased(r, token).token = token
                       /\ Leased(r, token).attempts = r.attempts
                       /\ Leased(r, token).next = r.next
         /\ LeaseCleared(r).token = NoToken /\ LeaseCleared(r).status = r.status
         /\ LeaseCleared(r).next = r.next /\ LeaseCleared(r).attempts = r.attempts
         /\ Completed(r).token = NoToken /\ Completed(r).status = "done"
         /\ OpenRow.token = NoToken
<1>1. r.next \in Int /\ OverdueCap \in Nat
  BY QueueAssumption DEF Row
<1>2. /\ Greatest(-OverdueCap, r.next - 1) >= r.next - 1
      /\ r.next <= 0 => Greatest(-OverdueCap, r.next - 1) <= 0
  BY <1>1 DEF Greatest
<1>3. /\ Aged(r).status = r.status /\ Aged(r).attempts = r.attempts
      /\ Aged(r).token = r.token /\ Aged(r).outcome = r.outcome
      /\ Aged(r).next = r.next \/ Aged(r).next = Greatest(-OverdueCap, r.next - 1)
  BY DEF Aged, Row
<1>4. /\ Unparked(r).status = r.status /\ Unparked(r).token = r.token
      /\ Unparked(r).next = r.next /\ Unparked(r).attempts = r.attempts
  BY DEF Unparked, Row
<1>5. \A token : /\ Leased(r, token).status = r.status
                 /\ Leased(r, token).token = token
                 /\ Leased(r, token).attempts = r.attempts
                 /\ Leased(r, token).next = r.next
  BY DEF Leased, Row
<1>6. /\ LeaseCleared(r).token = NoToken /\ LeaseCleared(r).status = r.status
      /\ LeaseCleared(r).next = r.next /\ LeaseCleared(r).attempts = r.attempts
  BY DEF LeaseCleared, Row
<1>7. Completed(r).token = NoToken /\ Completed(r).status = "done"
  BY DEF Completed, LeaseCleared, Row
<1>8. OpenRow.token = NoToken
  BY DEF OpenRow, AbsentRow
<1> QED BY <1>1, <1>2, <1>3, <1>4, <1>5, <1>6, <1>7, <1>8

(* What a charged failure writes. *)
LEMMA ChargedFields ==
  ASSUME NEW r \in Row, NEW s \in Statements
  PROVE  /\ Charged(r, s).token = NoToken
         /\ Charged(r, s).status = IF Parks(s) THEN "done" ELSE "open"
         /\ Charged(r, s).attempts = Least(r.attempts + 1, AttemptCap)
         /\ Charged(r, s).next \in Nat
         /\ Charged(r, s).outcome = s.outcome
<1>1. RetryDelay(s.outcome, s.attempts) \in Nat
  <2>1. s.attempts \in Nat
    BY QueueAssumption DEF Statements
  <2> QED BY <2>1, RetryDelayIsNat
<1>2. LeaseCleared(r) \in Row /\ LeaseCleared(r).attempts = r.attempts
      /\ LeaseCleared(r).token = NoToken
  BY RowsWritten, RowFields
<1>3. /\ Charged(r, s).token = LeaseCleared(r).token
      /\ Charged(r, s).status = IF Parks(s) THEN "done" ELSE "open"
      /\ Charged(r, s).attempts = Least(LeaseCleared(r).attempts + 1, AttemptCap)
      /\ Charged(r, s).next = RetryDelay(s.outcome, s.attempts)
      /\ Charged(r, s).outcome = s.outcome
  BY <1>2 DEF Charged, Row
<1> QED BY <1>1, <1>2, <1>3

-----------------------------------------------------------------------------
(* RecordInv is preserved. *)

(* A statement that enters InFlight carries what its row says. *)
LEMMA SentIsCurrent ==
  ASSUME IInv, [Next]_vars, NEW s \in InFlight', s \notin InFlight
  PROVE  queue'[s.target].attempts = s.attempts
<1> USE DEF IInv
<1>1. ASSUME NEW w \in Workers, NEW t \in Held(w), UNCHANGED <<queue, late>>,
             NEW x \in Statements, x.target = t, x.attempts = snap[w][t],
             sent' = [sent EXCEPT ![w] = {x}]
      PROVE  queue'[s.target].attempts = s.attempts
  <2>1. s = x
    BY <1>1 DEF InFlight, TypeOK
  <2>2. queue[t].attempts = snap[w][t]
    BY DEF LeaseInv, LeaseOutlasts
  <2> QED BY <1>1, <2>1, <2>2
<1>2. ASSUME NEW w \in Workers, SendSettle(w)
      PROVE  queue'[s.target].attempts = s.attempts
  <2>1. PICK t \in group[w], record \in Records :
          sent' = [sent EXCEPT ![w] = {Chosen(w, t, record)}]
    BY <1>2 DEF SendSettle
  <2>2. t \in Held(w) /\ t \in Targets /\ tok[w] \in Tokens
    BY HeldHasToken DEF Held, TypeOK
  <2>3. /\ Chosen(w, t, record) \in Statements
        /\ Chosen(w, t, record).target = t
        /\ Chosen(w, t, record).attempts = snap[w][t]
    BY <2>2, StatementsTyped DEF Chosen, Statement
  <2> HIDE DEF IInv
  <2> QED BY <1>1, <1>2, <2>1, <2>2, <2>3 DEF SendSettle
<1>3. ASSUME NEW w \in Workers, SendRelease(w)
      PROVE  queue'[s.target].attempts = s.attempts
  <2>1. PICK t \in Held(w) :
          sent' = [sent EXCEPT ![w] = {Statement(w, t, "release", "retryable")}]
    BY <1>3 DEF SendRelease
  <2>2. t \in Targets /\ tok[w] \in Tokens
    BY HeldHasToken DEF Held, TypeOK
  <2> DEFINE x == Statement(w, t, "release", "retryable")
  <2>3. x \in Statements /\ x.target = t /\ x.attempts = snap[w][t]
    BY <2>2, StatementsTyped DEF Statement
  <2> HIDE DEF IInv, x
  <2>4. sent' = [sent EXCEPT ![w] = {x}]
    BY <2>1 DEF x
  <2> QED BY <1>1, <1>3, <2>3, <2>4 DEF SendRelease
<1>4. ASSUME NEW w \in Workers, WorkerStep(w), ~SendSettle(w), ~SendRelease(w)
      PROVE  InFlight' \subseteq InFlight
  <2>1. CASE Die(w) \/ Finish(w)
    <3>1. late' \subseteq late \cup sent[w]
      BY <2>1 DEF Die, Finish
    <3>2. \A v \in Workers : sent'[v] \subseteq sent[v]
      BY <2>1 DEF Die, Finish, Reset, TypeOK
    <3> QED BY <3>1, <3>2 DEF InFlight
  <2>2. CASE ~Die(w) /\ ~Finish(w)
    <3>1. late' = late /\ \A v \in Workers : sent'[v] \subseteq sent[v]
      BY <1>4, <2>2 DEF WorkerStep, Start, Claim, NextGroup, Defer, GraphFinalize,
           GraphReturn, GraphThrow, ConfirmRead, ConfirmFail, Answered, GroupDone,
           Crash, HardStop, TypeOK
    <3> QED BY <3>1 DEF InFlight
  <2> QED BY <2>1, <2>2
<1>5. CASE \/ \E r \in Reconcilers : ReconcilerStep(r)
           \/ \E t \in Targets : Outside(t)
           \/ LateStatement
           \/ Tick
           \/ UNCHANGED vars
  <2>1. late' \subseteq late /\ sent' = sent
    BY <1>5 DEF ReconcilerStep, EnqueueRead, EnqueueInsert, EnqueueAbandon, Outside,
         FinalizedElsewhere, Quarantine, OperatorClear, LateStatement, Tick, procVars, vars
  <2> QED BY <2>1 DEF InFlight
<1> QED BY <1>2, <1>3, <1>4, <1>5 DEF Next

(* Statements in flight carry a token that no claim can draw. *)
LEMMA InFlightTyped ==
  ASSUME IInv, NEW s \in InFlight
  PROVE  /\ s \in Statements /\ s.target \in Targets /\ s.token \in Tokens
         /\ s.attempts \in 0..AttemptCap /\ s.token # NoToken /\ ~Fresh(s.token)
<1>1. s \in Statements
  BY DEF IInv, TypeOK, InFlight
<1>2. ~Fresh(s.token)
  <2>1. CASE s \in late
    BY <2>1 DEF Fresh
  <2>2. CASE s \notin late
    <3>1. PICK w \in Workers : s \in sent[w]
      BY <2>2 DEF InFlight
    <3> QED BY <3>1 DEF IInv, LeaseInv, SentIsHeld, Fresh
  <2> QED BY <2>1, <2>2
<1> QED BY <1>1, <1>2, QueueAssumption DEF Statements

LEMMA RecordInvKept ==
  ASSUME IInv, RecordInv, [Next]_vars
  PROVE  RecordInv'
<1>1. queue \in [Targets -> Row]
  BY DEF IInv, TypeOK, QueueTypeOK
<1>2. ASSUME NEW s \in InFlight', OwnsRow(s)'
      PROVE  queue'[s.target].attempts = s.attempts
  <2>1. CASE s \notin InFlight
    BY <2>1, SentIsCurrent
  <2>2. CASE s \in InFlight
    <3> DEFINE t == s.target
               r == queue[t]
    <3>1. t \in Targets /\ r \in Row /\ s.token # NoToken /\ ~Fresh(s.token)
      BY <1>1, <2>2, InFlightTyped
    <3>2. queue'[t].status = "open" /\ queue'[t].token = s.token
      BY <1>2 DEF OwnsRow
    <3>3. RowChange(t)
      BY <3>1, StepChangesRow
    <3>4. OwnsRow(s) => r.attempts = s.attempts
      BY <2>2 DEF RecordInv
    <3>5. CASE queue'[t] = r
      BY <3>2, <3>4, <3>5 DEF OwnsRow
    <3>6. CASE queue'[t] = Aged(r)
      BY <3>1, <3>2, <3>4, <3>6, RowFields DEF OwnsRow
    <3>7. CASE Parked(r) /\ queue'[t] = Unparked(r)
      BY <3>1, <3>2, <3>7, RowFields DEF Parked
    <3>8. CASE \E token \in Tokens : Fresh(token) /\ queue'[t] = Leased(r, token)
      BY <3>1, <3>2, <3>8, RowFields
    <3>9. CASE queue'[t] = OpenRow
      BY <3>1, <3>2, <3>9, RowFields
    <3>10. CASE \E x \in InFlight : \/ queue'[t] = Completed(r)
                                    \/ queue'[t] = Charged(r, x)
                                    \/ queue'[t] = LeaseCleared(r)
      BY <3>1, <3>2, <3>10, RowFields, ChargedFields, InFlightTyped
    <3> QED BY <3>3, <3>5, <3>6, <3>7, <3>8, <3>9, <3>10 DEF RowChange
  <2> QED BY <2>1, <2>2
<1>3. ASSUME NEW t \in Targets, queue'[t].token # NoToken
      PROVE  queue'[t].next <= 0
  <2> DEFINE r == queue[t]
  <2>1. r \in Row /\ (r.token # NoToken => r.next <= 0)
    BY <1>1 DEF RecordInv
  <2>2. RowChange(t)
    BY StepChangesRow
  <2>3. CASE queue'[t] = r
    BY <1>3, <2>1, <2>3
  <2>4. CASE queue'[t] = Aged(r)
    BY <1>3, <2>1, <2>4, RowFields
  <2>5. CASE queue'[t] = Unparked(r)
    BY <1>3, <2>1, <2>5, RowFields
  <2>6. CASE Due(t) /\ \E token \in Tokens : queue'[t] = Leased(r, token)
    BY <2>1, <2>6, RowFields DEF Due
  <2>7. CASE queue'[t] = OpenRow
    BY <1>3, <2>1, <2>7, RowFields
  <2>8. CASE \E x \in InFlight : \/ queue'[t] = Completed(r)
                                 \/ queue'[t] = Charged(r, x)
                                 \/ queue'[t] = LeaseCleared(r)
    BY <1>3, <2>1, <2>8, RowFields, ChargedFields, InFlightTyped
  <2> QED BY <2>2, <2>3, <2>4, <2>5, <2>6, <2>7, <2>8 DEF RowChange
<1> QED BY <1>2, <1>3 DEF RecordInv

LEMMA InitEstablishesRecordInv == Init => RecordInv
<1> SUFFICES ASSUME Init PROVE RecordInv
  OBVIOUS
<1>1. InFlight = {}
  BY DEF Init, InFlight
<1>2. \A t \in Targets : queue[t].token = NoToken
  BY DEF Init, QueueInit, AbsentRow
<1> QED BY <1>1, <1>2 DEF RecordInv

(* A statement that still finds its token in its row carries the row's       *)
(* attempt count, and a leased row was due (settleRepairFailure).            *)
THEOREM RecordInvariant == Spec => []RecordInv
BY InitEstablishesInv, NextKeepsInv, InitEstablishesRecordInv, RecordInvKept, PTL
   DEF Spec

-----------------------------------------------------------------------------
(* The action properties. *)

(* A row is completed only on accepted evidence, or parked after its         *)
(* attempts, whenever and by whomever the settling statement is executed     *)
(* (settleRepairSuccess, settleRepairFailure).                               *)
THEOREM CompletionTheorem == Spec => CompletionHasEvidence
<1> DEFINE Good == \A t \in Targets :
             queue[t].status = "open" /\ queue[t]'.status = "done"
               => \/ t \in accepted
                  \/ /\ queue[t]'.outcome = "invalid"
                     /\ queue[t]'.attempts >= Least(MaxInvalidAttempts, AttemptCap)
<1>1. IInv /\ RecordInv /\ [Next]_vars => Good
  <2> SUFFICES ASSUME IInv, RecordInv, [Next]_vars, NEW t \in Targets,
                      queue[t].status = "open", queue'[t].status = "done",
                      t \notin accepted
               PROVE  /\ queue'[t].outcome = "invalid"
                      /\ queue'[t].attempts >= Least(MaxInvalidAttempts, AttemptCap)
    OBVIOUS
  <2> DEFINE r == queue[t]
  <2>1. r \in Row
    BY DEF IInv, TypeOK, QueueTypeOK
  <2>2. PICK s \in InFlight :
          /\ s.target = t
          /\ OwnsRow(s)
          /\ queue'[t] = Charged(r, s) \/ queue'[t] = LeaseCleared(r)
    <3>1. RowChange(t)
      BY StepChangesRow
    <3>2. /\ queue'[t] # r /\ queue'[t] # Aged(r) /\ ~Parked(r)
          /\ \A token : queue'[t] # Leased(r, token)
      BY <2>1, RowFields DEF Parked
    <3> QED BY <3>1, <3>2 DEF RowChange
  <2>3. s \in Statements /\ s.attempts \in 0..AttemptCap
    BY InFlightTyped
  <2>4. queue'[t] = Charged(r, s)
    BY <2>1, <2>2, RowFields
  <2>5. Parks(s)
    BY <2>1, <2>3, <2>4, ChargedFields
  <2>6. r.attempts = s.attempts
    BY <2>2 DEF RecordInv
  <2>7. queue'[t].outcome = "invalid"
    BY <2>1, <2>3, <2>4, <2>5, ChargedFields DEF Parks
  <2>8. queue'[t].attempts = Least(s.attempts + 1, AttemptCap)
    BY <2>1, <2>3, <2>4, <2>6, ChargedFields
  <2>9. Least(s.attempts + 1, AttemptCap) >= Least(MaxInvalidAttempts, AttemptCap)
    BY <2>3, <2>5, QueueAssumption DEF Parks, Least
  <2> QED BY <2>7, <2>8, <2>9
<1> QED BY <1>1, LeaseInvariant, RecordInvariant, PTL
        DEF Spec, CompletionHasEvidence

(* No step lowers the attempt count of a row that stays open, or shortens    *)
(* its backoff except by waiting (enqueueRepairTargets, settleRepairFailure, *)
(* releaseRepairLease).                                                      *)
THEOREM BackoffTheorem == Spec => BackoffPreserved
<1> DEFINE Good == \A t \in Targets :
             queue[t].status = "open" /\ queue[t]'.status = "open"
               => /\ queue[t]'.attempts >= queue[t].attempts
                  /\ queue[t]'.next >= queue[t].next - 1
<1>1. IInv /\ RecordInv /\ [Next]_vars => Good
  <2> SUFFICES ASSUME IInv, RecordInv, [Next]_vars, NEW t \in Targets,
                      queue[t].status = "open", queue'[t].status = "open"
               PROVE  /\ queue'[t].attempts >= queue[t].attempts
                      /\ queue'[t].next >= queue[t].next - 1
    OBVIOUS
  <2> DEFINE r == queue[t]
  <2>1. r \in Row /\ r.attempts \in 0..AttemptCap /\ r.next \in Int
    BY DEF IInv, TypeOK, QueueTypeOK, Row
  <2>2. RowChange(t)
    BY StepChangesRow
  <2>3. CASE queue'[t] = r
    BY <2>1, <2>3
  <2>4. CASE queue'[t] = Aged(r)
    BY <2>1, <2>4, RowFields
  <2>5. CASE \E token \in Tokens : queue'[t] = Leased(r, token)
    BY <2>1, <2>5, RowFields
  <2>6. ASSUME NEW s \in InFlight, s.target = t, OwnsRow(s),
               \/ queue'[t] = Completed(r)
               \/ queue'[t] = Charged(r, s)
               \/ queue'[t] = LeaseCleared(r)
        PROVE  /\ queue'[t].attempts >= r.attempts
               /\ queue'[t].next >= r.next - 1
    <3>1. s \in Statements /\ r.token # NoToken
      BY <2>6, InFlightTyped DEF OwnsRow
    <3>2. r.next <= 0
      BY <3>1 DEF RecordInv
    <3>3. CASE queue'[t] = Completed(r)
      BY <2>1, <3>3, RowFields
    <3>4. CASE queue'[t] = Charged(r, s)
      <4>1. Least(r.attempts + 1, AttemptCap) >= r.attempts
        BY <2>1, QueueAssumption DEF Least
      <4> QED BY <2>1, <3>1, <3>2, <3>4, <4>1, ChargedFields
    <3>5. CASE queue'[t] = LeaseCleared(r)
      BY <2>1, <3>5, RowFields
    <3> QED BY <2>6, <3>3, <3>4, <3>5
  <2> QED BY <2>2, <2>3, <2>4, <2>5, <2>6 DEF RowChange, Parked
<1> QED BY <1>1, LeaseInvariant, RecordInvariant, PTL
        DEF Spec, BackoffPreserved

(* Nobody but its holder changes a held row, and a live holder keeps its     *)
(* lease fields, attempts and outcome as they are (claimRepairQueue,         *)
(* REOPENABLE_SQL, the token comparison of every settling statement).        *)
THEOREM HeldRowTheorem == Spec => HeldRowsUndisturbed
<1> DEFINE Good == \A w \in Workers : \A t \in Held(w) \cap Held(w)' :
             [queue[t]' EXCEPT !.next = 0, !.lease = 0]
               = [queue[t] EXCEPT !.next = 0, !.lease = 0]
<1>1. IInv /\ IInv' /\ [Next]_vars => Good
  <2> SUFFICES ASSUME IInv, IInv', [Next]_vars, NEW w \in Workers,
                      NEW t \in Held(w), t \in Held(w)'
               PROVE  [queue'[t] EXCEPT !.next = 0, !.lease = 0]
                        = [queue[t] EXCEPT !.next = 0, !.lease = 0]
    OBVIOUS
  <2> DEFINE r == queue[t]
  <2>1. /\ t \in Targets /\ r \in Row /\ r.status = "open" /\ r.lease > 0
        /\ r.token = tok[w] /\ tok[w] # NoToken
    BY HeldIsLeased, HeldHasToken
       DEF IInv, LeaseInv, LeaseOutlasts, TypeOK, QueueTypeOK
  <2>2. queue'[t].token = tok'[w] /\ tok'[w] \in Tokens
    BY DEF IInv, LeaseInv, LeaseOutlasts, TokenFollowsClaim
  <2>3. queue'[t].token # NoToken
    BY <2>2, QueueAssumption
  <2>4. RowChange(t)
    BY <2>1, StepChangesRow
  <2>5. CASE queue'[t] = r
    BY <2>5
  <2>6. CASE queue'[t] = Aged(r)
    <3>1. /\ Aged(r) = [r EXCEPT !.next = Greatest(-OverdueCap, r.next - 1),
                                 !.lease = Greatest(0, r.lease - 1)]
      BY <2>1 DEF Aged
    <3> QED BY <2>1, <2>6, <3>1 DEF Row
  <2>7. ~Parked(r) /\ ~Due(t) /\ r.status = "open"
    BY <2>1 DEF Parked, Due, Unleased
  <2>8. CASE \E s \in InFlight : \/ queue'[t] = Completed(r)
                                 \/ queue'[t] = Charged(r, s)
                                 \/ queue'[t] = LeaseCleared(r)
    BY <2>1, <2>3, <2>8, RowFields, ChargedFields, InFlightTyped
  <2> QED BY <2>4, <2>5, <2>6, <2>7, <2>8 DEF RowChange
<1> QED BY <1>1, LeaseInvariant, PTL DEF Spec, HeldRowsUndisturbed
-----------------------------------------------------------------------------
(* Throws and charges, in the processes that remember them.                  *)

(* What a process waits for belongs to the loop it is in: statements about   *)
(* the group while it is settled, releases while everything is let go.       *)
SentInLoop(w) ==
  /\ pc[w] \notin {"settle", "drain"} => sent[w] = {}
  /\ pc[w] = "settle" => \A s \in sent[w] : s.target \in group[w]
  /\ pc[w] = "drain" => \A s \in sent[w] : s.kind = "release"

(* The memory of a throw: none while a graph run is under way; afterwards    *)
(* the group being settled is the one that threw, and if it was not a single *)
(* claim the budget is spent and no statement on its way charges anyone.     *)
ThrowRemembered(w) ==
  /\ thrown[w] \subseteq Targets
  /\ pc[w] \in {"idle", "starting", "graph"} => thrown[w] = {}
  /\ pc[w] \in {"confirm", "settle"} /\ thrown[w] # {} =>
       group[w] \subseteq thrown[w] /\ (Cardinality(thrown[w]) = 1 \/ PastBudget(w))
  /\ pc[w] = "settle" /\ thrown[w] # {} /\ Cardinality(thrown[w]) # 1 =>
       \A s \in sent[w] : s.kind # "failure"
  /\ charged[w] # {} => Cardinality(thrown[w]) = 1 /\ charged[w] = thrown[w]

ThrowInv(w) == SentInLoop(w) /\ ThrowRemembered(w)

(* A process that is left alone, but for getting older, remembers as it did. *)
LEMMA ThrowKeptAlone ==
  ASSUME TypeOK, ThrowMemory, NEW w \in Workers, ThrowInv(w),
         pc'[w] = pc[w], todo'[w] = todo[w], singles'[w] = singles[w], group'[w] = group[w],
         sent'[w] = sent[w], PastBudget(w) /\ pc[w] # "idle" => PastBudget(w)'
  PROVE  ThrowInv(w)'
<1>1. ~GraphThrow(w)
  BY DEF GraphThrow, TypeOK
<1>2. LetGo(w) = {}
  BY DEF LetGo, Held
<1>3. thrown'[w] = IF pc[w] \in {"idle", "graph"} THEN {} ELSE thrown[w]
  BY <1>1 DEF ThrowMemory
<1>4. thrown'[w] = thrown[w]
  BY <1>3 DEF ThrowInv, ThrowRemembered
<1>5. charged'[w] = {} \/ charged'[w] = charged[w]
  BY <1>1, <1>2 DEF ThrowMemory
<1> QED BY <1>4, <1>5 DEF ThrowInv, SentInLoop, ThrowRemembered

(* A statement that is not about a failure charges nobody.                   *)
LEMMA OnlyFailuresCharge ==
  ASSUME TypeOK, NEW s \in Statements, Execute(s), s.kind # "failure"
  PROVE  ~ChargedInStep(s.target)
<1> DEFINE t == s.target
<1>1. t \in Targets /\ queue \in [Targets -> Row] /\ queue[t] \in Row
  BY DEF TypeOK, QueueTypeOK, Statements
<1>2. queue[t].attempts \in Nat /\ queue[t].next \in Int
  BY <1>1, QueueAssumption DEF Row
<1>3. \/ queue'[t] = queue[t]
      \/ queue[t].status = "open" /\ queue'[t] = Completed(queue[t])
      \/ queue[t].status = "open" /\ queue'[t] = LeaseCleared(queue[t])
  <2>1. CASE SettleRepairSuccess(s)
    BY <1>1, <2>1 DEF SettleRepairSuccess, OwnsRow
  <2>2. CASE ReleaseRepairLease(s)
    BY <1>1, <2>2 DEF ReleaseRepairLease, OwnsRow
  <2> QED BY <2>1, <2>2 DEF Execute, SettleRepairFailure
<1>4. /\ Completed(queue[t]).attempts = queue[t].attempts /\ Completed(queue[t]).next = queue[t].next
      /\ Completed(queue[t]).outcome = "none"
      /\ LeaseCleared(queue[t]).attempts = queue[t].attempts
      /\ LeaseCleared(queue[t]).next = queue[t].next
      /\ LeaseCleared(queue[t]).status = queue[t].status
  BY <1>1 DEF Completed, LeaseCleared, Row
<1>5. queue'[t].attempts = queue[t].attempts /\ queue'[t].next = queue[t].next
  BY <1>3, <1>4
<1>6. queue[t].status = "open" => ~Parked(queue'[t])
  BY <1>3, <1>4 DEF Parked
<1> QED BY <1>2, <1>5, <1>6 DEF ChargedInStep

(* The answer to a statement charges only its target, and only for a throw  *)
(* over this target alone, if it is for a throw at all.                      *)
LEMMA ThrowKeptByAnswer ==
  ASSUME IInv, ThrowMemory, NEW w \in Workers, Answered(w), ThrowInv(w)
  PROVE  ThrowInv(w)'
<1> USE DEF IInv
<1>1. PICK s \in sent[w] :
        /\ Execute(s)
        /\ todo' = [todo EXCEPT ![w] = @ \ {s.target}]
        /\ singles' = [singles EXCEPT ![w] = @ \ {s.target}]
        /\ group' = [group EXCEPT ![w] = @ \ {s.target}]
  BY DEF Answered
<1>2. s \in Statements
  BY <1>1 DEF TypeOK
<1>3. /\ sent'[w] = {} /\ pc'[w] = pc[w] /\ group'[w] = group[w] \ {s.target}
      /\ age' = age /\ pc[w] \in {"settle", "drain"}
  BY <1>1 DEF Answered, TypeOK, ThrowInv, SentInLoop
<1>4. LetGo(w) \subseteq {s.target}
  BY <1>1 DEF LetGo, Held, TypeOK
<1>5. ~GraphThrow(w) /\ thrown'[w] = thrown[w]
  BY <1>3 DEF GraphThrow, ThrowMemory
<1>6. charged'[w] = IF thrown[w] = {} THEN {}
                    ELSE charged[w] \cup {t \in LetGo(w) : ChargedInStep(t)}
  BY <1>3, <1>5 DEF ThrowMemory
<1>7. charged'[w] # {} => Cardinality(thrown[w]) = 1 /\ charged'[w] = thrown[w]
  <2>1. CASE {t \in LetGo(w) : ChargedInStep(t)} = {} \/ thrown[w] = {}
    BY <1>6, <2>1 DEF ThrowInv, ThrowRemembered
  <2>2. CASE {t \in LetGo(w) : ChargedInStep(t)} # {} /\ thrown[w] # {}
    <3>1. {t \in LetGo(w) : ChargedInStep(t)} = {s.target} /\ ChargedInStep(s.target)
      BY <1>4, <2>2
    <3>2. s.kind = "failure"
      BY <1>1, <1>2, <3>1, OnlyFailuresCharge
    <3>3. pc[w] = "settle" /\ s.target \in group[w]
      BY <1>1, <1>3, <3>2 DEF ThrowInv, SentInLoop
    <3>4. Cardinality(thrown[w]) = 1 /\ s.target \in thrown[w]
      BY <1>1, <2>2, <3>2, <3>3 DEF ThrowInv, ThrowRemembered
    <3>5. thrown[w] = {s.target}
      <4>1. IsFiniteSet(thrown[w])
        BY TargetsAssumption, FS_Subset DEF ThrowInv, ThrowRemembered
      <4>2. PICK x : thrown[w] = {x}
        BY <3>4, <4>1, FS_Singleton
      <4> QED BY <3>4, <4>2
    <3>6. charged[w] \subseteq {s.target}
      BY <3>5 DEF ThrowInv, ThrowRemembered
    <3> QED BY <1>6, <2>2, <3>1, <3>4, <3>5, <3>6
  <2> QED BY <2>1, <2>2
<1>8. SentInLoop(w)'
  BY <1>3 DEF SentInLoop
<1>9. ThrowRemembered(w)'
  <2>1. PastBudget(w)' <=> PastBudget(w)
    BY <1>3 DEF PastBudget
  <2> QED BY <1>3, <1>5, <1>7, <2>1 DEF ThrowInv, ThrowRemembered
<1> QED BY <1>8, <1>9 DEF ThrowInv

(* A throw of the graph run: it is remembered with its whole group, and the  *)
(* group is confirmed only if it is a single claim or the budget is spent.   *)
LEMMA ThrowKeptByThrow ==
  ASSUME IInv, ThrowMemory, NEW w \in Workers, GraphThrow(w), ThrowInv(w)
  PROVE  ThrowInv(w)'
<1> USE DEF IInv
<1>1. pc[w] = "graph" /\ sent' = sent /\ sent[w] = {} /\ age' = age
  BY DEF GraphThrow, ThrowInv, SentInLoop
<1>2. thrown'[w] = group[w] /\ charged'[w] = {} /\ group[w] \subseteq Targets
  BY DEF ThrowMemory, TypeOK
<1>3. IsFiniteSet(group[w]) /\ Cardinality(group[w]) \in Nat
  BY <1>2, TargetsAssumption, FS_Subset, FS_CardinalityType
<1>4. group[w] # {} => Cardinality(group[w]) # 0
  BY <1>3, FS_EmptySet
<1>5. \/ pc'[w] = "dispatch"
      \/ /\ pc'[w] = "confirm" /\ group'[w] = group[w]
         /\ ~(Cardinality(group[w]) > 1) \/ PastBudget(w)
  BY DEF GraphThrow, TypeOK
<1>6. PastBudget(w)' <=> PastBudget(w)
  BY <1>1 DEF PastBudget
<1> QED BY <1>1, <1>2, <1>3, <1>4, <1>5, <1>6 DEF ThrowInv, SentInLoop, ThrowRemembered

(* The steps of a process that let go of no claim or forget everything.      *)
LEMMA ThrowKeptByWorker ==
  ASSUME IInv, ThrowMemory, NEW w \in Workers, WorkerStep(w), ThrowInv(w)
  PROVE  ThrowInv(w)'
<1> USE DEF IInv
<1>1. CASE GraphThrow(w)
  BY <1>1, ThrowKeptByThrow
<1>2. CASE Answered(w)
  BY <1>2, ThrowKeptByAnswer
<1>3. CASE Die(w) \/ Finish(w) \/ NextGroup(w)
  <2>1. pc'[w] \in {"idle", "graph"} /\ sent'[w] = {}
    BY <1>3 DEF Die, Finish, Reset, NextGroup, TypeOK, ThrowInv, SentInLoop
  <2>2. ~GraphThrow(w)
    BY <2>1 DEF GraphThrow, TypeOK
  <2>3. thrown'[w] = {} /\ charged'[w] = {}
    BY <2>1, <2>2 DEF ThrowMemory
  <2> QED BY <2>1, <2>3 DEF ThrowInv, SentInLoop, ThrowRemembered
<1>4. ASSUME /\ group'[w] = group[w] /\ todo'[w] = todo[w] /\ singles'[w] = singles[w]
             /\ age' = age /\ pc'[w] \notin {"idle", "graph", "starting"}
             /\ ~GraphThrow(w)
      PROVE  /\ thrown'[w] = thrown[w]
             /\ charged'[w] = {} \/ charged'[w] = charged[w]
             /\ PastBudget(w)' <=> PastBudget(w)
  <2>1. LetGo(w) = {}
    BY <1>4 DEF LetGo, Held
  <2> QED BY <1>4, <2>1 DEF ThrowMemory, PastBudget
<1>5. CASE Start(w) \/ Claim(w)
  <2>1. /\ pc[w] \in {"idle", "starting"} /\ pc'[w] \in {"starting", "dispatch"}
        /\ sent'[w] = {} /\ thrown[w] = {}
    BY <1>5 DEF Start, Claim, TypeOK, ThrowInv, SentInLoop, ThrowRemembered
  <2>2. ~GraphThrow(w) /\ pc'[w] # "idle"
    BY <2>1 DEF GraphThrow
  <2>3. thrown'[w] = {} /\ charged'[w] = {}
    BY <2>1, <2>2 DEF ThrowMemory
  <2> QED BY <2>1, <2>3 DEF ThrowInv, SentInLoop, ThrowRemembered
<1>6. CASE Defer(w) \/ GroupDone(w)
  <2>1. sent'[w] = {} /\ pc'[w] \in {"dispatch", "drain"}
    BY <1>6 DEF Defer, GroupDone, TypeOK, ThrowInv, SentInLoop
  <2>2. thrown'[w] = thrown[w] /\ (charged'[w] = {} \/ charged'[w] = charged[w])
    BY <1>4, <1>6, <2>1 DEF Defer, GroupDone, GraphThrow, TypeOK
  <2> QED BY <2>1, <2>2 DEF ThrowInv, SentInLoop, ThrowRemembered
<1>7. CASE GraphFinalize(w)
  <2>1. /\ UNCHANGED <<pc, todo, singles, group, sent, age>>
    BY <1>7 DEF GraphFinalize
  <2> QED BY <2>1, ThrowKeptAlone DEF PastBudget
<1>8. CASE GraphReturn(w) /\ ~GraphThrow(w)
  <2>1. thrown[w] = {} /\ pc'[w] = "confirm" /\ sent'[w] = {}
    BY <1>8 DEF GraphReturn, TypeOK, ThrowInv, SentInLoop, ThrowRemembered
  <2>2. thrown'[w] = {} /\ charged'[w] = {}
    BY <1>8, <2>1 DEF ThrowMemory
  <2> QED BY <2>1, <2>2 DEF ThrowInv, SentInLoop, ThrowRemembered
<1>9. CASE ConfirmRead(w) \/ ConfirmFail(w)
  <2>1. pc[w] = "confirm" /\ pc'[w] = "settle" /\ sent'[w] = {} /\ group'[w] = group[w]
    BY <1>9 DEF ConfirmRead, ConfirmFail, TypeOK, ThrowInv, SentInLoop
  <2>2. /\ thrown'[w] = thrown[w] /\ (charged'[w] = {} \/ charged'[w] = charged[w])
        /\ PastBudget(w)' <=> PastBudget(w)
    BY <1>4, <1>9, <2>1 DEF ConfirmRead, ConfirmFail, GraphThrow, TypeOK
  <2> QED BY <2>1, <2>2 DEF ThrowInv, SentInLoop, ThrowRemembered
<1>10. CASE SendSettle(w)
  <2>1. PICK t \in group[w], record \in Records : sent' = [sent EXCEPT ![w] = {Chosen(w, t, record)}]
    BY <1>10 DEF SendSettle
  <2>2. pc[w] = "settle" /\ pc'[w] = "settle" /\ sent'[w] = {Chosen(w, t, record)} /\ group' = group
    BY <1>10, <2>1 DEF SendSettle, TypeOK
  <2>3. /\ Chosen(w, t, record).target = t
        /\ PastBudget(w) => Chosen(w, t, record).kind # "failure"
    BY DEF Chosen, Statement
  <2>4. /\ thrown'[w] = thrown[w] /\ (charged'[w] = {} \/ charged'[w] = charged[w])
        /\ PastBudget(w)' <=> PastBudget(w)
    BY <1>4, <1>10, <2>2 DEF SendSettle, GraphThrow
  <2>5. SentInLoop(w)'
    BY <2>2, <2>3 DEF SentInLoop
  <2>6. ThrowRemembered(w)'
    BY <2>2, <2>3, <2>4 DEF ThrowInv, ThrowRemembered
  <2> QED BY <2>5, <2>6 DEF ThrowInv
<1>11. CASE SendRelease(w)
  <2>1. PICK t \in Held(w) : sent' = [sent EXCEPT ![w] = {Statement(w, t, "release", "retryable")}]
    BY <1>11 DEF SendRelease
  <2>2. pc[w] = "drain" /\ pc'[w] = "drain" /\ sent'[w] = {Statement(w, t, "release", "retryable")}
    BY <1>11, <2>1 DEF SendRelease, TypeOK
  <2>3. Statement(w, t, "release", "retryable").kind = "release"
    BY DEF Statement
  <2>4. thrown'[w] = thrown[w] /\ (charged'[w] = {} \/ charged'[w] = charged[w])
    BY <1>4, <1>11, <2>2 DEF SendRelease, GraphThrow
  <2> QED BY <2>2, <2>3, <2>4 DEF ThrowInv, SentInLoop, ThrowRemembered
<1> QED BY <1>1, <1>2, <1>3, <1>5, <1>6, <1>7, <1>8, <1>9, <1>10, <1>11
        DEF WorkerStep, Crash, HardStop

LEMMA ThrowKept ==
  ASSUME IInv, Next, ThrowMemory, NEW w \in Workers, ThrowInv(w)
  PROVE  ThrowInv(w)'
<1> USE DEF IInv
<1>1. CASE WorkerStep(w)
  BY <1>1, ThrowKeptByWorker
<1>2. ASSUME NEW v \in Workers, WorkerStep(v), v # w PROVE ThrowInv(w)'
  <2>1. /\ pc'[w] = pc[w] /\ group'[w] = group[w] /\ todo'[w] = todo[w] /\ singles'[w] = singles[w]
        /\ sent'[w] = sent[w] /\ age'[w] = age[w]
    BY <1>2 DEF TypeOK, WorkerStep, Start, Claim, NextGroup, Defer, GraphFinalize, GraphReturn,
         GraphThrow, ConfirmRead, ConfirmFail, SendSettle, SendRelease, Answered, GroupDone, Finish,
         Crash, HardStop, Die, Reset
  <2> QED BY <2>1, ThrowKeptAlone DEF PastBudget
<1>3. CASE \/ \E r \in Reconcilers : ReconcilerStep(r)
           \/ \E t \in Targets : Outside(t)
           \/ LateStatement
  <2>1. UNCHANGED <<pc, age, todo, singles, group, sent>>
    BY <1>3 DEF ReconcilerStep, EnqueueRead, EnqueueInsert, EnqueueAbandon, Outside,
         FinalizedElsewhere, Quarantine, OperatorClear, LateStatement, procVars
  <2> QED BY <2>1, ThrowKeptAlone DEF PastBudget
<1>4. CASE Tick
  <2>1. UNCHANGED <<pc, todo, singles, group, sent>>
    BY <1>4 DEF Tick
  <2>2. pc[w] # "idle" => age'[w] = age[w] + 1 /\ age[w] \in Int
    BY <1>4, WorkerAssumption DEF Tick, Live, TypeOK
  <2>3. PastBudget(w) /\ pc[w] # "idle" => PastBudget(w)'
    BY <2>2, WorkerAssumption DEF PastBudget
  <2> QED BY <2>1, <2>3, ThrowKeptAlone
<1> QED BY <1>1, <1>2, <1>3, <1>4 DEF Next

(* Until its next graph run, a process charges one claim an attempt for a    *)
(* throw over that claim alone, and nobody for a throw over several: these   *)
(* are bisected, or let go with attempts and backoff as they were because    *)
(* the budget is spent (processClaims).                                      *)
THEOREM ThrowTheorem == ThrowSpec => []ThrowChargesOne
<1> DEFINE Remembered == \A w \in Workers : ThrowInv(w)
<1>1. Init /\ ThrowInit => Remembered
  BY DEF Init, ThrowInit, ThrowInv, SentInLoop, ThrowRemembered
<1>2. IInv /\ Remembered /\ [Next /\ ThrowMemory]_<<vars, throwVars>> => Remembered'
  <2> SUFFICES ASSUME IInv, [Next /\ ThrowMemory]_<<vars, throwVars>>,
                      NEW w \in Workers, ThrowInv(w)
               PROVE  ThrowInv(w)'
    OBVIOUS
  <2>1. CASE Next /\ ThrowMemory
    BY <2>1, ThrowKept
  <2>2. CASE UNCHANGED <<vars, throwVars>>
    BY <2>2 DEF vars, throwVars, ThrowInv, SentInLoop, ThrowRemembered, PastBudget
  <2> QED BY <2>1, <2>2
<1>3. Remembered => ThrowChargesOne
  BY DEF ThrowInv, ThrowRemembered, ThrowChargesOne
<1>4. IInv /\ [Next /\ ThrowMemory]_<<vars, throwVars>> => IInv'
  <2>1. [Next /\ ThrowMemory]_<<vars, throwVars>> => [Next]_vars
    OBVIOUS
  <2> QED BY <2>1, NextKeepsInv
<1> HIDE DEF Remembered
<1> QED BY <1>1, <1>2, <1>3, <1>4, InitEstablishesInv, PTL DEF ThrowSpec

-----------------------------------------------------------------------------
(* The refinement: every step is a step of the lifecycle or leaves phases,   *)
(* holders and evidence as they are.                                         *)

(* A held target has one holder, and the mapping names it.                  *)
HoldersNamed ==
  \A t \in Targets :
    /\ HolderOf(t) \in Workers \cup {Nobody}
    /\ \A w \in Workers : HolderOf(t) = w <=> t \in Held(w)

LEMMA HoldersAreNamed == IInv => HoldersNamed
<1> SUFFICES ASSUME IInv, NEW t \in Targets
             PROVE  /\ HolderOf(t) \in Workers \cup {Nobody}
                    /\ \A w \in Workers : HolderOf(t) = w <=> t \in Held(w)
  BY DEF HoldersNamed
<1>1. \A v, w \in Workers : t \in Held(v) /\ t \in Held(w) => v = w
  <2> SUFFICES ASSUME NEW v \in Workers, NEW w \in Workers, t \in Held(v), t \in Held(w)
               PROVE  v = w
    OBVIOUS
  <2>1. tok[v] = tok[w] /\ tok[v] # NoToken
    BY HeldHasToken DEF IInv, LeaseInv, LeaseOutlasts
  <2> QED BY <2>1 DEF IInv, LeaseInv, TokensDistinct
<1>2. CASE \E w \in Workers : t \in Held(w)
  <2>1. HolderOf(t) \in Workers /\ t \in Held(HolderOf(t))
    BY <1>2 DEF HolderOf
  <2> QED BY <1>1, <2>1
<1>3. CASE ~(\E w \in Workers : t \in Held(w))
  BY <1>3, RefinementAssumption DEF HolderOf
<1> QED BY <1>2, <1>3

LEMMA HoldersAreNamedNext == IInv' => HoldersNamed'
BY HoldersAreNamed, PTL

(* Holders change exactly where claims do.                                  *)
LEMMA HoldersChange ==
  ASSUME IInv, IInv', NEW t \in Targets
  PROVE  /\ (\A w \in Workers : t \in Held(w)' <=> t \in Held(w)) => HolderOf(t)' = HolderOf(t)
         /\ (\A w \in Workers : t \notin Held(w)') => HolderOf(t)' = Nobody
         /\ (\A w \in Workers : t \notin Held(w)) => HolderOf(t) = Nobody
<1>1. HoldersNamed /\ HoldersNamed'
  BY HoldersAreNamed, HoldersAreNamedNext
<1> QED BY <1>1 DEF HoldersNamed

(* What a row's status says of its phase.                                    *)
LEMMA PhaseOfRow ==
  ASSUME NEW t
  PROVE  /\ queue[t].status = "absent" => PhaseOf(t) = "unknown"
         /\ queue[t].status = "open" => PhaseOf(t) = "wanted"
         /\ queue[t].status = "done" =>
              PhaseOf(t) = IF queue[t].outcome = "invalid" THEN "parked" ELSE "closed"
BY DEF PhaseOf, Parked

(* What a phase depends on.                                                 *)
LEMMA PhaseFollowsRow ==
  ASSUME NEW t, queue'[t].status = queue[t].status,
         queue[t].status = "done" => queue'[t].outcome = queue[t].outcome
  PROVE  PhaseOf(t)' = PhaseOf(t)
BY DEF PhaseOf, Parked

LEMMA Stutter ==
  ASSUME IInv, IInv', accepted' = accepted,
         \A t \in Targets : PhaseOf(t)' = PhaseOf(t),
         \A t \in Targets, w \in Workers : t \in Held(w)' <=> t \in Held(w)
  PROVE  UNCHANGED Lifecycle!lifecycleVars
<1>1. \A t \in Targets : HolderOf(t)' = HolderOf(t)
  BY HoldersChange
<1> QED BY <1>1 DEF Lifecycle!lifecycleVars, Phases, Holders

-----------------------------------------------------------------------------
(* Steps the lifecycle does not see. *)

LEMMA QuietStep ==
  ASSUME IInv, IInv', UNCHANGED <<queue, accepted, todo, singles, group>>
  PROVE  UNCHANGED Lifecycle!lifecycleVars
<1>1. \A t \in Targets : PhaseOf(t)' = PhaseOf(t)
  BY PhaseFollowsRow
<1>2. \A t \in Targets, w \in Workers : t \in Held(w)' <=> t \in Held(w)
  BY DEF Held
<1> QED BY <1>1, <1>2, Stutter

(* A process regroups its claims: the same targets stay in its hands.       *)
LEMMA RegroupStep ==
  ASSUME IInv, IInv', NEW w \in Workers, NextGroup(w) \/ GraphThrow(w)
  PROVE  UNCHANGED Lifecycle!lifecycleVars
<1>1. UNCHANGED <<queue, accepted>>
  BY DEF NextGroup, GraphThrow
<1>2. \A t \in Targets : PhaseOf(t)' = PhaseOf(t)
  BY <1>1, PhaseFollowsRow
<1>3. /\ todo \in [Workers -> SUBSET Targets]
      /\ singles \in [Workers -> SUBSET Targets]
      /\ group \in [Workers -> SUBSET Targets]
  BY DEF IInv, TypeOK
<1>4. ASSUME NEW v \in Workers PROVE Held(v)' = Held(v)
  <2>1. CASE NextGroup(w)
    <3>1. group[w] = {}
      BY <2>1 DEF NextGroup, IInv, BetweenGroups
    <3> QED BY <1>3, <2>1, <3>1 DEF NextGroup, Held
  <2>2. CASE GraphThrow(w)
    BY <1>3, <2>2 DEF GraphThrow, Held
  <2> QED BY <2>1, <2>2
<1> QED BY <1>1, <1>2, <1>4, Stutter

LEMMA TickStep ==
  ASSUME IInv, IInv', Tick
  PROVE  UNCHANGED Lifecycle!lifecycleVars
<1>1. ASSUME NEW t \in Targets PROVE PhaseOf(t)' = PhaseOf(t)
  <2>1. queue[t] \in Row /\ queue'[t] = Aged(queue[t])
    BY DEF Tick, IInv, TypeOK, QueueTypeOK
  <2>2. queue'[t].status = queue[t].status /\ queue'[t].outcome = queue[t].outcome
    BY <2>1, RowFields
  <2> QED BY <2>2, PhaseFollowsRow
<1>2. \A t \in Targets, w \in Workers : t \in Held(w)' <=> t \in Held(w)
  BY DEF Tick, Held
<1>3. accepted' = accepted
  BY DEF Tick
<1> QED BY <1>1, <1>2, <1>3, Stutter

-----------------------------------------------------------------------------
(* Steps of the lifecycle. *)

LEMMA ClaimTakes ==
  ASSUME IInv, IInv', NEW w \in Workers, Claim(w)
  PROVE  Lifecycle!Take(w)
<1>1. PICK S \in SUBSET Targets, token \in Tokens :
        /\ ClaimableBatch(S)
        /\ ClaimRepairQueue(S, token)
        /\ todo' = [todo EXCEPT ![w] = S]
  BY DEF Claim
<1>2. Held(w) = {}
  BY DEF Claim, NoClaim, IInv, LeaseInv, TokenFollowsClaim
<1>3. Held(w)' = S /\ \A v \in Workers : v # w => Held(v)' = Held(v)
  BY <1>1, <1>2 DEF Claim, Held, IInv, TypeOK
<1>4. HoldersNamed /\ HoldersNamed'
  BY HoldersAreNamed, HoldersAreNamedNext
<1>5. \A t \in Targets : queue[t] \in Row
  BY DEF IInv, TypeOK, QueueTypeOK
<1>6. ASSUME NEW t \in Targets PROVE PhaseOf(t)' = PhaseOf(t)
  <2>1. queue'[t] = queue[t] \/ queue'[t] = Leased(queue[t], token)
    BY <1>1 DEF ClaimRepairQueue
  <2>2. queue'[t].status = queue[t].status /\ queue'[t].outcome = queue[t].outcome
    BY <1>5, <2>1 DEF Leased, Row
  <2> QED BY <2>2, PhaseFollowsRow
<1>7. ASSUME NEW t \in S PROVE PhaseOf(t) = "wanted" /\ HolderOf(t) = Nobody
  <2>1. Due(t) /\ t \in Targets
    BY <1>1 DEF ClaimableBatch, DueTargets
  <2>2. \A v \in Workers : t \notin Held(v)
    <3>1. ASSUME NEW v \in Workers, t \in Held(v) PROVE FALSE
      <4>1. /\ queue[t].token # NoToken
            /\ queue[t].lease > 0
        BY <3>1, HeldHasToken, HeldIsLeased DEF IInv, LeaseInv, LeaseOutlasts
      <4> QED BY <2>1, <4>1, <1>5 DEF Due, Unleased, Row
    <3> QED BY <3>1
  <2>3. HolderOf(t) = Nobody
    BY <1>4, <2>1, <2>2 DEF HoldersNamed
  <2>4. queue[t].status = "open"
    BY <2>1 DEF Due
  <2> QED BY <2>3, <2>4 DEF PhaseOf, Parked
<1>8. ASSUME NEW t \in Targets
      PROVE  HolderOf(t)' = IF t \in S THEN w ELSE HolderOf(t)
  <2>1. CASE t \in S
    BY <1>3, <1>4, <2>1 DEF HoldersNamed
  <2>2. CASE t \notin S
    <3>1. \A v \in Workers : t \in Held(v)' <=> t \in Held(v)
      BY <1>2, <1>3, <2>2
    <3> QED BY <2>2, <3>1, HoldersChange
  <2> QED BY <2>1, <2>2
<1>9. \A t \in Targets : HolderOf(t) # w
  BY <1>2, <1>4 DEF HoldersNamed
<1>10. accepted' = accepted
  BY DEF Claim
<1>11. S \in SUBSET {t \in Targets : Phases[t] = "wanted" /\ Holders[t] = Nobody}
  BY <1>1, <1>7 DEF Phases, Holders
<1>12. Holders' = [t \in Targets |-> IF t \in S THEN w ELSE Holders[t]]
  BY <1>8 DEF Holders
<1>13. Phases' = Phases
  BY <1>6 DEF Phases
<1>14. \A t \in Targets : Holders[t] # w
  BY <1>9 DEF Holders
<1> QED BY <1>10, <1>11, <1>12, <1>13, <1>14 DEF Lifecycle!Take

LEMMA DeathVanishes ==
  ASSUME IInv, IInv', NEW w \in Workers, Reset(w), UNCHANGED <<queue, accepted>>
  PROVE  Lifecycle!Vanish(w)
<1>1. HoldersNamed /\ HoldersNamed'
  BY HoldersAreNamed, HoldersAreNamedNext
<1>2. Held(w)' = {} /\ \A v \in Workers : v # w => Held(v)' = Held(v)
  BY DEF Reset, Held, IInv, TypeOK
<1>3. ASSUME NEW t \in Targets
      PROVE  HolderOf(t)' = IF HolderOf(t) = w THEN Nobody ELSE HolderOf(t)
  BY <1>1, <1>2 DEF HoldersNamed
<1>4. \A t \in Targets : PhaseOf(t)' = PhaseOf(t)
  BY PhaseFollowsRow
<1>5. Phases' = Phases
  BY <1>4 DEF Phases
<1>6. Holders' = [t \in Targets |-> IF Holders[t] = w THEN Nobody ELSE Holders[t]]
  BY <1>3 DEF Holders
<1> QED BY <1>5, <1>6 DEF Lifecycle!Vanish

LEMMA SettledPhases ==
  ASSUME NEW t
  PROVE  /\ "wanted" \in Lifecycle!Settled(t) /\ "parked" \in Lifecycle!Settled(t)
         /\ t \in accepted => "closed" \in Lifecycle!Settled(t)
BY DEF Lifecycle!Settled

(* What a settling statement makes of the phase of its target.               *)
LEMMA ExecutePhase ==
  ASSUME IInv, NEW s \in Statements, OwnsRow(s), Execute(s),
         NEW t \in Targets, s.target = t
  PROVE  /\ PhaseOf(t) = "wanted"
         /\ PhaseOf(t)' \in Lifecycle!Settled(t)
<1>1. queue[t] \in Row /\ queue \in [Targets -> Row] /\ queue[t].status = "open"
  BY DEF IInv, TypeOK, QueueTypeOK, OwnsRow
<1>2. PhaseOf(t) = "wanted"
  BY <1>1, PhaseOfRow
<1>3. \/ t \in accepted /\ queue'[t] = Completed(queue[t])
      \/ queue'[t] = Charged(queue[t], s)
      \/ queue'[t] = LeaseCleared(queue[t])
      \/ queue'[t] = queue[t]
  BY <1>1 DEF Execute, SettleRepairSuccess, SettleRepairFailure, ReleaseRepairLease
<1>4. \/ t \in accepted /\ queue'[t].status = "done" /\ queue'[t].outcome = "none"
      \/ queue'[t].status = "done" /\ queue'[t].outcome = "invalid"
      \/ queue'[t].status = "open"
  <2>1. Completed(queue[t]).status = "done" /\ Completed(queue[t]).outcome = "none"
    BY <1>1 DEF Completed, LeaseCleared, Row
  <2>2. LeaseCleared(queue[t]).status = "open"
    BY <1>1, RowFields
  <2>3. \/ Charged(queue[t], s).status = "open"
        \/ /\ Charged(queue[t], s).status = "done"
           /\ Charged(queue[t], s).outcome = "invalid"
    BY <1>1, ChargedFields DEF Parks
  <2> QED BY <1>1, <1>3, <2>1, <2>2, <2>3
<1>5. \/ t \in accepted /\ PhaseOf(t)' = "closed"
      \/ PhaseOf(t)' = "parked"
      \/ PhaseOf(t)' = "wanted"
  BY <1>4 DEF PhaseOf, Parked
<1> QED BY <1>2, <1>5, SettledPhases

(* The phases of the other targets stay.                                     *)
LEMMA ExecuteSparesPhases ==
  ASSUME IInv, NEW s \in Statements, Execute(s)
  PROVE  /\ \A t \in Targets : t # s.target => PhaseOf(t)' = PhaseOf(t)
         /\ ~OwnsRow(s) => \A t \in Targets : PhaseOf(t)' = PhaseOf(t)
<1>1. /\ \A t \in Targets : t # s.target => queue'[t] = queue[t]
      /\ ~OwnsRow(s) => queue' = queue
  BY ExecuteTouchesOwnRow DEF IInv, TypeOK, QueueTypeOK
<1> QED BY <1>1, PhaseFollowsRow

LEMMA AnsweredLetsGo ==
  ASSUME IInv, IInv', NEW w \in Workers, Answered(w)
  PROVE  \E t \in Targets : Lifecycle!LetGo(w, t)
<1>1. PICK s \in sent[w] :
        /\ Execute(s)
        /\ todo' = [todo EXCEPT ![w] = @ \ {s.target}]
        /\ singles' = [singles EXCEPT ![w] = @ \ {s.target}]
        /\ group' = [group EXCEPT ![w] = @ \ {s.target}]
  BY DEF Answered
<1> DEFINE t == s.target
<1>2. s \in Statements /\ t \in Targets
  BY DEF IInv, TypeOK, Statements
<1>3. s.token = tok[w] /\ t \in Held(w)
  BY DEF IInv, LeaseInv, SentIsHeld
<1>4. OwnsRow(s)
  BY <1>3 DEF OwnsRow, IInv, LeaseInv, LeaseOutlasts
<1>5. PhaseOf(t)' \in Lifecycle!Settled(t)
  BY <1>1, <1>2, <1>4, ExecutePhase
<1>6. \A u \in Targets : u # t => PhaseOf(u)' = PhaseOf(u)
  BY <1>1, <1>2, ExecuteSparesPhases
<1>7. /\ Held(w)' = Held(w) \ {t}
      /\ \A v \in Workers : v # w => Held(v)' = Held(v)
  BY <1>1 DEF Held, IInv, TypeOK
<1>8. HoldersNamed /\ HoldersNamed'
  BY HoldersAreNamed, HoldersAreNamedNext
<1>9. HolderOf(t) = w
  BY <1>2, <1>3, <1>8 DEF HoldersNamed
<1>10. ASSUME NEW u \in Targets
       PROVE  HolderOf(u)' = IF u = t THEN Nobody ELSE HolderOf(u)
  <2>1. CASE u = t
    BY <1>7, <1>8, <1>9, <2>1 DEF HoldersNamed
  <2>2. CASE u # t
    <3>1. \A v \in Workers : u \in Held(v)' <=> u \in Held(v)
      BY <1>7, <2>2
    <3> QED BY <2>2, <3>1, HoldersChange
  <2> QED BY <2>1, <2>2
<1>11. Holders' = [Holders EXCEPT ![t] = Nobody]
  BY <1>10 DEF Holders
<1>12. Phases' = [Phases EXCEPT ![t] = PhaseOf(t)']
  BY <1>6 DEF Phases
<1>13. Holders[t] = w
  BY <1>2, <1>9 DEF Holders
<1>14. accepted' = accepted
  BY DEF Answered
<1> HIDE DEF t
<1>15. Lifecycle!LetGo(w, t)
  BY <1>5, <1>11, <1>12, <1>13, <1>14 DEF Lifecycle!LetGo
<1> QED BY <1>2, <1>15 DEF t

LEMMA LateSettles ==
  ASSUME IInv, IInv', LateStatement
  PROVE  \/ \E t \in Targets : Lifecycle!SettleLate(t)
         \/ UNCHANGED Lifecycle!lifecycleVars
<1>1. PICK s \in late : Execute(s)
  BY DEF LateStatement
<1> DEFINE t == s.target
<1>2. s \in Statements /\ t \in Targets
  BY DEF IInv, TypeOK, Statements
<1>3. \A u \in Targets, v \in Workers : u \in Held(v)' <=> u \in Held(v)
  BY DEF LateStatement, Held
<1>4. accepted' = accepted
  BY DEF LateStatement
<1>5. CASE ~OwnsRow(s)
  <2>1. \A u \in Targets : PhaseOf(u)' = PhaseOf(u)
    BY <1>1, <1>2, <1>5, ExecuteSparesPhases
  <2> QED BY <1>3, <1>4, <2>1, Stutter
<1>6. CASE OwnsRow(s)
  <2>1. PhaseOf(t) = "wanted" /\ PhaseOf(t)' \in Lifecycle!Settled(t)
    BY <1>1, <1>2, <1>6, ExecutePhase
  <2>2. \A u \in Targets : u # t => PhaseOf(u)' = PhaseOf(u)
    BY <1>1, <1>2, ExecuteSparesPhases
  <2>3. \A v \in Workers : t \notin Held(v)
    BY <1>6 DEF OwnsRow, IInv, LeaseInv, LateIsDisowned, LeaseOutlasts
  <2>4. HolderOf(t) = Nobody
    BY <1>2, <2>3, HoldersChange
  <2>5. \A u \in Targets : HolderOf(u)' = HolderOf(u)
    BY <1>3, HoldersChange
  <2>6. Holders' = Holders /\ Holders[t] = Nobody /\ Phases[t] = "wanted"
    BY <1>2, <2>1, <2>4, <2>5 DEF Holders, Phases
  <2>7. Phases' = [Phases EXCEPT ![t] = PhaseOf(t)']
    BY <2>2 DEF Phases
  <2> HIDE DEF t
  <2>8. Lifecycle!SettleLate(t)
    BY <1>4, <2>1, <2>6, <2>7 DEF Lifecycle!SettleLate
  <2> QED BY <1>2, <2>8 DEF t
<1> QED BY <1>5, <1>6

-----------------------------------------------------------------------------
(* Reconciliation, other writers and operators. *)

LEMMA InsertWants ==
  ASSUME IInv, IInv', NEW r \in Reconcilers, EnqueueInsert(r)
  PROVE  Lifecycle!Want
<1> DEFINE P == {t \in Targets : /\ t \in pending[r]
                                 /\ queue[t].status = "absent" \/ Reopenable(queue[t])}
<1>1. ASSUME NEW t \in P PROVE PhaseOf(t) \in {"unknown", "closed"}
  BY PhaseOfRow DEF Reopenable
<1>2. ASSUME NEW t \in Targets
      PROVE  PhaseOf(t)' = IF t \in P THEN "wanted" ELSE PhaseOf(t)
  <2>1. CASE t \in P
    <3>1. queue'[t] = OpenRow
      BY <2>1 DEF EnqueueInsert, InsertTargets
    <3>2. queue'[t].status = "open"
      BY <3>1 DEF OpenRow, AbsentRow
    <3> QED BY <2>1, <3>2 DEF PhaseOf, Parked
  <2>2. CASE t \notin P
    <3>1. queue'[t] = queue[t]
      BY <2>2 DEF EnqueueInsert, InsertTargets
    <3> QED BY <2>2, <3>1, PhaseFollowsRow
  <2> QED BY <2>1, <2>2
<1>3. \A t \in Targets : HolderOf(t)' = HolderOf(t)
  <2>1. \A t \in Targets, w \in Workers : t \in Held(w)' <=> t \in Held(w)
    BY DEF EnqueueInsert, procVars, Held
  <2> QED BY <2>1, HoldersChange
<1>4. Holders' = Holders /\ accepted' = accepted
  BY <1>3 DEF Holders, EnqueueInsert
<1>5. P \in SUBSET {t \in Targets : Phases[t] \in {"unknown", "closed"}}
  BY <1>1 DEF Phases
<1>6. Phases' = [t \in Targets |-> IF t \in P THEN "wanted" ELSE Phases[t]]
  BY <1>2 DEF Phases
<1> HIDE DEF P
<1> QED BY <1>4, <1>5, <1>6 DEF Lifecycle!Want

LEMMA ClearUnparks ==
  ASSUME IInv, IInv', NEW t \in Targets, OperatorClear(t)
  PROVE  Lifecycle!Unpark(t)
<1>1. queue[t] \in Row /\ queue \in [Targets -> Row] /\ Parked(queue[t])
  BY DEF IInv, TypeOK, QueueTypeOK, OperatorClear
<1>2. queue' = [queue EXCEPT ![t] = Unparked(queue[t])]
  BY DEF OperatorClear
<1>3. queue'[t].status = "done" /\ queue'[t].outcome = "none"
  BY <1>1, <1>2 DEF Parked, Unparked, Row
<1>4. PhaseOf(t) = "parked"
  BY <1>1, PhaseOfRow DEF Parked
<1>5. PhaseOf(t)' = "closed"
  BY <1>3 DEF PhaseOf, Parked
<1>6. \A u \in Targets : u # t => PhaseOf(u)' = PhaseOf(u)
  BY <1>1, <1>2, PhaseFollowsRow
<1>7. \A u \in Targets : HolderOf(u)' = HolderOf(u)
  <2>1. \A u \in Targets, w \in Workers : u \in Held(w)' <=> u \in Held(w)
    BY DEF OperatorClear, procVars, Held
  <2> QED BY <2>1, HoldersChange
<1>8. Holders' = Holders /\ accepted' = accepted
  BY <1>7 DEF Holders, OperatorClear
<1>9. Phases[t] = "parked" /\ Phases' = [Phases EXCEPT ![t] = "closed"]
  BY <1>4, <1>5, <1>6 DEF Phases
<1> QED BY <1>8, <1>9 DEF Lifecycle!Unpark

LEMMA EvidenceStep ==
  ASSUME IInv, IInv', UNCHANGED <<queue, todo, singles, group>>
  PROVE  Lifecycle!EvidenceChanges
<1>1. \A t \in Targets : PhaseOf(t)' = PhaseOf(t)
  BY PhaseFollowsRow
<1>2. \A t \in Targets : HolderOf(t)' = HolderOf(t)
  <2>1. \A t \in Targets, w \in Workers : t \in Held(w)' <=> t \in Held(w)
    BY DEF Held
  <2> QED BY <2>1, HoldersChange
<1>3. Phases' = Phases /\ Holders' = Holders
  BY <1>1, <1>2 DEF Phases, Holders
<1>4. accepted' \in SUBSET Targets
  BY DEF IInv, TypeOK, QueueTypeOK
<1> QED BY <1>3, <1>4 DEF Lifecycle!EvidenceChanges

-----------------------------------------------------------------------------
LEMMA WorkerStepMaps ==
  ASSUME IInv, IInv', NEW w \in Workers, WorkerStep(w)
  PROVE  Lifecycle!LNext \/ UNCHANGED Lifecycle!lifecycleVars
<1>1. CASE Claim(w)
  BY <1>1, ClaimTakes DEF Lifecycle!LNext
<1>2. CASE NextGroup(w) \/ GraphThrow(w)
  BY <1>2, RegroupStep
<1>3. CASE GraphFinalize(w)
  <2>1. UNCHANGED <<queue, todo, singles, group>>
    BY <1>3 DEF GraphFinalize
  <2> QED BY <2>1, EvidenceStep DEF Lifecycle!LNext
<1>4. CASE Answered(w)
  BY <1>4, AnsweredLetsGo DEF Lifecycle!LNext
<1>5. CASE Finish(w) \/ Crash(w) \/ HardStop(w)
  <2>1. Reset(w) /\ UNCHANGED <<queue, accepted>>
    BY <1>5 DEF Finish, Crash, HardStop, Die
  <2> QED BY <2>1, DeathVanishes DEF Lifecycle!LNext
<1>6. CASE \/ Start(w) \/ Defer(w) \/ GraphReturn(w) \/ ConfirmRead(w)
           \/ ConfirmFail(w) \/ SendSettle(w) \/ SendRelease(w) \/ GroupDone(w)
  <2>1. UNCHANGED <<queue, accepted, todo, singles, group>>
    BY <1>6 DEF Start, Defer, GraphReturn, ConfirmRead, ConfirmFail, SendSettle,
         SendRelease, GroupDone
  <2> QED BY <2>1, QuietStep
<1> QED BY <1>1, <1>2, <1>3, <1>4, <1>5, <1>6 DEF WorkerStep

LEMMA StepMaps ==
  ASSUME IInv, IInv', [Next]_vars
  PROVE  Lifecycle!LNext \/ UNCHANGED Lifecycle!lifecycleVars
<1>1. CASE \E w \in Workers : WorkerStep(w)
  BY <1>1, WorkerStepMaps
<1>2. ASSUME NEW r \in Reconcilers, ReconcilerStep(r)
      PROVE  Lifecycle!LNext \/ UNCHANGED Lifecycle!lifecycleVars
  <2>1. CASE EnqueueInsert(r)
    BY <2>1, InsertWants DEF Lifecycle!LNext
  <2>2. CASE EnqueueRead(r) \/ EnqueueAbandon(r)
    <3>1. UNCHANGED <<queue, accepted, todo, singles, group>>
      BY <2>2 DEF EnqueueRead, EnqueueAbandon, procVars
    <3> QED BY <3>1, QuietStep
  <2> QED BY <1>2, <2>1, <2>2 DEF ReconcilerStep
<1>3. ASSUME NEW t \in Targets, Outside(t)
      PROVE  Lifecycle!LNext \/ UNCHANGED Lifecycle!lifecycleVars
  <2>1. CASE FinalizedElsewhere(t) \/ Quarantine(t)
    <3>1. UNCHANGED <<queue, todo, singles, group>>
      BY <2>1 DEF FinalizedElsewhere, Quarantine, procVars
    <3> QED BY <3>1, EvidenceStep DEF Lifecycle!LNext
  <2>2. CASE OperatorClear(t)
    BY <2>2, ClearUnparks DEF Lifecycle!LNext
  <2> QED BY <1>3, <2>1, <2>2 DEF Outside
<1>4. CASE LateStatement
  BY <1>4, LateSettles DEF Lifecycle!LNext
<1>5. CASE Tick
  BY <1>5, TickStep
<1>6. CASE UNCHANGED vars
  <2>1. UNCHANGED <<queue, accepted, todo, singles, group>>
    BY <1>6 DEF vars
  <2> QED BY <2>1, QuietStep
<1> QED BY <1>1, <1>2, <1>3, <1>4, <1>5, <1>6 DEF Next

LEMMA InitMaps == Init => Lifecycle!LInit
<1> SUFFICES ASSUME Init PROVE Lifecycle!LInit
  OBVIOUS
<1>1. IInv
  BY InitEstablishesInv
<1>2. ASSUME NEW t \in Targets PROVE PhaseOf(t) = "unknown" /\ HolderOf(t) = Nobody
  <2>1. queue[t].status = "absent"
    BY DEF Init, QueueInit, AbsentRow
  <2>2. \A w \in Workers : t \notin Held(w)
    BY DEF Init, Held
  <2>3. HolderOf(t) = Nobody
    BY <2>2 DEF HolderOf
  <2> QED BY <2>1, <2>3, PhaseOfRow
<1>3. accepted \in SUBSET Targets
  BY DEF Init, QueueInit
<1> QED BY <1>2, <1>3 DEF Lifecycle!LInit, Phases, Holders

(* The queue, its processes, their deaths, reclaims, late statements and     *)
(* reconciliations keep the promises of RepairLifecycle: a target in the     *)
(* hands of a live process is moved by that process alone, a dead process's  *)
(* statement settles only what nobody holds, and a target closes only on     *)
(* accepted evidence (claimRepairQueue, the settling statements,             *)
(* enqueueRepairTargets).                                                    *)
THEOREM RefinementTheorem == Spec => ImplementsLifecycle
<1>1. IInv /\ IInv' /\ [Next]_vars => [Lifecycle!LNext]_(Lifecycle!lifecycleVars)
  BY StepMaps
<1> QED BY <1>1, InitMaps, LeaseInvariant, PTL
        DEF Spec, ImplementsLifecycle, Lifecycle!LSpec
=============================================================================
