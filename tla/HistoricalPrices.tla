-------------------------- MODULE HistoricalPrices ---------------------------
(***************************************************************************)
(* Everything that writes token_prices, around midnight: historical        *)
(* requests with their read-through and the edge cache                     *)
(* (src/routes/historical, src/cache), the warmup script                   *)
(* (scripts/warmup-prices.ts), finalizing transactions of graph backfills  *)
(* and repair workers (src/backfill/finalize.ts), the Curve LP repair      *)
(* (scripts/lib/repair-curve-lp.ts), migrations, and the clock.  Each      *)
(* reads, waits for a provider or the chain, and writes much later.        *)
(***************************************************************************)
EXTENDS PriceStore, Sequences

CONSTANTS
  Requests,        \* slots for concurrent historical requests
  Warmups,         \* slots for concurrent warmup runs
  Finalizers,      \* slots for concurrent finalizations
  Repairs,         \* slots for concurrent Curve LP repairs
  UnderlyingOf,    \* the underlying token of every vault token
  Incidents,       \* observations that may be confirmed invalid
  Modes,           \* the finalizedOnly options in use: repairs TRUE, backfills FALSE
  LockRetryLimit,  \* FINALIZATION_LOCK_RETRY_LIMIT
  LastDay          \* bound: the clock stops here

Vaults == DOMAIN UnderlyingOf
Underlyings == {UnderlyingOf[v] : v \in Vaults}

ASSUME FlowAssumption ==
  /\ Vaults \subseteq Tokens /\ Underlyings \subseteq Tokens
  /\ {"defillama", "chainlink", "curve", "derived"} \subseteq Sources
  /\ Incidents \subseteq Keys
  /\ Modes \subseteq BOOLEAN
  /\ LockRetryLimit \in Nat
  /\ LastDay \in Nat /\ Days \subseteq 0..LastDay
  /\ "free" \notin Finalizers
  /\ Finalizers \cap (Requests \cup Warmups \cup Repairs) = {}

VARIABLES
  req,        \* historical requests that missed the edge cache
  edge,       \* prices the edge keeps for 30 days
  warm,       \* warmup runs
  txn,        \* graph results on their way through the finalizer
  inventory,  \* historical_price_gap_inventory
  curve       \* Curve LP repairs

flowVars == <<req, edge, warm, txn, inventory, curve>>
vars == <<storeVars, flowVars>>

AnyTarget == CHOOSE g \in Targets : TRUE

NoRequest == [pc |-> "idle", asked |-> 0, target |-> AnyTarget, stored |-> NoPrice,
              fetched |-> NoPrice, final |-> FALSE]

NoTxn == [pc |-> "idle", target |-> AnyTarget, finalizedOnly |-> FALSE,
          resolution |-> NoPrice, priced |-> FALSE, retries |-> 0]

NoRepair == [pc |-> "idle", target |-> AnyTarget]

(* The stages of a warmup run, in the order of its main. *)
Stages == <<"defillama", "chainlink", "curve", "derived">>

NoBase == [g \in Targets |-> "none"]

NoWarmup == [stage |-> 0, step |-> "look", asked |-> 0, todo |-> {}, base |-> NoBase]

RequestRecords ==
  [pc: {"idle", "fetch", "guard", "write", "respond"}, asked: 0..LastDay, target: Targets,
   stored: Prices \cup {NoPrice}, fetched: Prices \cup {NoPrice}, final: BOOLEAN]

WarmupRecords ==
  [stage: 0..4, step: {"look", "base", "put"}, asked: 0..LastDay, todo: SUBSET Targets,
   base: [Targets -> Values \cup {"none"}]]

TxnRecords ==
  [pc: {"idle", "planned", "resolved", "locked"}, target: Targets, finalizedOnly: BOOLEAN,
   resolution: Prices \cup {NoPrice}, priced: BOOLEAN, retries: 0..LockRetryLimit]

RepairRecords == [pc: {"idle", "check", "derive"}, target: Targets]

TypeOK ==
  /\ today \in 0..LastDay
  /\ rows \in [Keys -> Row \cup {NoRow}]
  /\ rejected \subseteq Keys
  /\ lock \in Finalizers \cup {"free"}
  /\ req \in [Requests -> RequestRecords]
  /\ edge \in [Targets -> Prices \cup {NoPrice}]
  /\ warm \in [Warmups -> WarmupRecords]
  /\ txn \in [Finalizers -> TxnRecords]
  /\ inventory \subseteq Targets
  /\ curve \in [Repairs -> RepairRecords]

Init ==
  /\ today \in Days
  /\ rows = [k \in Keys |-> NoRow]
  /\ rejected = {}
  /\ lock = "free"
  /\ req = [r \in Requests |-> NoRequest]
  /\ edge = [g \in Targets |-> NoPrice]
  /\ warm = [w \in Warmups |-> NoWarmup]
  /\ txn = [f \in Finalizers |-> NoTxn]
  /\ inventory = {}
  /\ curve = [c \in Repairs |-> NoRepair]

-----------------------------------------------------------------------------
(* Historical requests: handleHistorical and readThrough *)

(* The edge cache misses and the stored row is read. *)
ReadStored(r) ==
  /\ req[r].pc = "idle"
  /\ \E g \in Targets :
       /\ g.day <= today
       /\ edge[g] = NoPrice
       /\ req' = [req EXCEPT ![r] = [NoRequest EXCEPT !.pc = "fetch", !.asked = today,
                                                      !.target = g, !.stored = Served(g)]]
  /\ UNCHANGED <<storeVars, edge, warm, txn, inventory, curve>>

(* DeFiLlama, and the sources of resolveCurrentFallback. *)
CurrentSources == {"defillama", "chainlink", "derived", "enso"}

(* What the upstreams may answer: a current price if the target's day was    *)
(* open when the request came; DeFiLlama's close of a closed day that is not *)
(* stored.                                                                   *)
Answers(q) ==
  IF q.target.day = q.asked
  THEN {[source |-> s, value |-> "live"] :
          s \in {s \in CurrentSources : <<q.target.token, s>> \in Quoted}}
  ELSE IF q.stored = NoPrice /\ <<q.target.token, "defillama">> \in Quoted
       THEN {[source |-> "defillama", value |-> "close"]}
       ELSE {}

(* No answer is also a failure, an answer older than the stored one, or a   *)
(* target past the caps.                                                    *)
Fetch(r) ==
  /\ req[r].pc = "fetch"
  /\ \E p \in Answers(req[r]) \cup {NoPrice} :
       req' = [req EXCEPT ![r].fetched = p,
                          ![r].pc = IF p = NoPrice THEN "respond" ELSE "guard"]
  /\ UNCHANGED <<storeVars, edge, warm, txn, inventory, curve>>

(* knownCurveLps: an accepted curve row of any day exists. *)
KnownCurveLp(token) ==
  \E k \in Keys : k.token = token /\ k.source = "curve" /\ AcceptedKey(k)

(* A known Curve LP is checked, or dropped as implausible or past the cap;  *)
(* checked closes are finalized, all else is provisional.                   *)
Guard(r) ==
  /\ req[r].pc = "guard"
  /\ \/ req' = [req EXCEPT ![r].pc = "write",
                           ![r].final = /\ KnownCurveLp(req[r].target.token)
                                        /\ req[r].fetched.value = "close"]
     \/ /\ KnownCurveLp(req[r].target.token)
        /\ req' = [req EXCEPT ![r].pc = "respond", ![r].fetched = NoPrice]
  /\ UNCHANGED <<storeVars, edge, warm, txn, inventory, curve>>

Persist(r) ==
  /\ req[r].pc = "write"
  /\ Unlocked(r)
  /\ LET k == KeyOf(req[r].target, req[r].fetched.source)
     IN  IF req[r].final
         THEN FinalizeTokenPrices(k, "close")
         ELSE InsertProvisionalTokenPrices(k, req[r].fetched.value)
  /\ req' = [req EXCEPT ![r].pc = "respond"]
  /\ UNCHANGED <<today, rejected, lock, edge, warm, txn, inventory, curve>>

(* A write that fails is logged and the price is served all the same. *)
PersistFails(r) ==
  /\ req[r].pc = "write"
  /\ req' = [req EXCEPT ![r].pc = "respond"]
  /\ UNCHANGED <<storeVars, edge, warm, txn, inventory, curve>>

(* cacheControlForHistorical: CACHE_CONTROL_HISTORICAL unless mayBeProvisional. *)
KeptLong(g) == g.day < today - 1

Respond(r) ==
  /\ req[r].pc = "respond"
  /\ LET g == req[r].target
         answer == IF req[r].fetched # NoPrice THEN req[r].fetched ELSE req[r].stored
     IN  edge' = IF answer # NoPrice /\ KeptLong(g) THEN [edge EXCEPT ![g] = answer] ELSE edge
  /\ req' = [req EXCEPT ![r] = NoRequest]
  /\ UNCHANGED <<storeVars, warm, txn, inventory, curve>>

-----------------------------------------------------------------------------
(* Warmup *)

Stage(w) == Stages[warm[w].stage]

StartWarmup(w) ==
  /\ warm[w].stage = 0
  /\ warm' = [warm EXCEPT ![w] = [NoWarmup EXCEPT !.stage = 1, !.asked = today]]
  /\ UNCHANGED <<storeVars, req, edge, txn, inventory, curve>>

StageTokens(s) ==
  {t \in CASE s = "defillama" -> Vaults \cup Underlyings
           [] s = "derived" -> Vaults
           [] OTHER -> Underlyings : <<t, s>> \in Quoted}

(* The sources whose rows make a stage skip a target. *)
Covering(s) ==
  CASE s = "chainlink" -> {"defillama", "chainlink"}
    [] s = "curve" -> {"defillama", "curve", "chainlink"}
    [] OTHER -> {s}

(* Today's targets, and those that are unfinalized or not stored. *)
Missing(g, s, asked) ==
  LET covering == {k \in KeysOf(g) : k.source \in Covering(s)}
  IN  \/ g.day = asked
      \/ \E k \in covering : UnfinalizedKey(k)
      \/ \A k \in covering : ~ServedKey(k)

LookForMissing(w) ==
  /\ warm[w].stage > 0 /\ warm[w].step = "look"
  /\ warm' = [warm EXCEPT
       ![w].todo = {g \in Targets : /\ g.token \in StageTokens(Stage(w))
                                    /\ g.day <= warm[w].asked
                                    /\ Missing(g, Stage(w), warm[w].asked)},
       ![w].step = IF Stage(w) = "derived" THEN "base" ELSE "put"]
  /\ UNCHANGED <<storeVars, req, edge, txn, inventory, curve>>

(* warmDerivedVaultPrices reads the underlying prices of all missing vaults. *)
ReadUnderlyings(w) ==
  /\ warm[w].stage > 0 /\ warm[w].step = "base"
  /\ warm' = [warm EXCEPT
       ![w].base = [g \in Targets |->
                      IF g \in warm[w].todo
                      THEN Served([g EXCEPT !.token = UnderlyingOf[g.token]]).value
                      ELSE "none"],
       ![w].step = "put"]
  /\ UNCHANGED <<storeVars, req, edge, txn, inventory, curve>>

(* What the stage finds for a target, at the time of the request. *)
Found(w, g) ==
  IF Stage(w) = "derived" THEN warm[w].base[g]
  ELSE IF g.day = warm[w].asked THEN "live" ELSE "close"

(* persistWarmupWrites, by the intent decided with the request time. *)
PersistWarmupWrites(w) ==
  /\ warm[w].stage > 0 /\ warm[w].step = "put"
  /\ Unlocked(w)
  /\ \E g \in warm[w].todo :
       /\ Found(w, g) # "none"
       /\ IF g.day = warm[w].asked
          THEN InsertProvisionalTokenPrices(KeyOf(g, Stage(w)), Found(w, g))
          ELSE FinalizeTokenPrices(KeyOf(g, Stage(w)), Found(w, g))
       /\ warm' = [warm EXCEPT ![w].todo = @ \ {g}]
  /\ UNCHANGED <<today, rejected, lock, req, edge, txn, inventory, curve>>

(* A gap, a failure, or an implausible quote. *)
LeaveGap(w) ==
  /\ warm[w].stage > 0 /\ warm[w].step = "put"
  /\ \E g \in warm[w].todo : warm' = [warm EXCEPT ![w].todo = @ \ {g}]
  /\ UNCHANGED <<storeVars, req, edge, txn, inventory, curve>>

NextStage(w) ==
  /\ warm[w].stage > 0 /\ warm[w].step = "put" /\ warm[w].todo = {}
  /\ warm' = [warm EXCEPT
       ![w] = IF @.stage = Len(Stages) THEN NoWarmup
              ELSE [NoWarmup EXCEPT !.stage = warm[w].stage + 1, !.asked = warm[w].asked]]
  /\ UNCHANGED <<storeVars, req, edge, txn, inventory, curve>>

WarmupDies(w) ==
  /\ warm[w].stage > 0
  /\ warm' = [warm EXCEPT ![w] = NoWarmup]
  /\ UNCHANGED <<storeVars, req, edge, txn, inventory, curve>>

-----------------------------------------------------------------------------
(* Graph backfills and repair workers, one target each *)

(* Targets that are priced already are left alone. *)
Plan(f) ==
  /\ txn[f].pc = "idle"
  /\ \E g \in Targets, strict \in Modes :
       /\ g.day < today
       /\ ~Priced(g, strict)
       /\ txn' = [txn EXCEPT ![f] = [NoTxn EXCEPT !.pc = "planned", !.target = g,
                                                  !.finalizedOnly = strict]]
  /\ UNCHANGED <<storeVars, req, edge, warm, inventory, curve>>

(* storedHistoricalPrices: the rows a graph may rest on. *)
StoredPrice(g, finalizedOnly) ==
  IF finalizedOnly THEN Preferred({k \in KeysOf(g) : FinalKey(k)}) ELSE Served(g)

(* Observations of the close, a price derived from the stored one of the     *)
(* underlying, the stored row itself, or nothing plausible.                  *)
Resolutions(g, finalizedOnly) ==
  LET root == StoredPrice(g, finalizedOnly)
      base == IF g.token \in Vaults
              THEN StoredPrice([g EXCEPT !.token = UnderlyingOf[g.token]], finalizedOnly)
              ELSE NoPrice
      direct == {[source |-> s, value |-> "close"] :
                   s \in {s \in Sources \ {"curve"} : <<g.token, s>> \in Quoted}}
      derived == IF base = NoPrice \/ <<g.token, "derived">> \notin Quoted
                 THEN {} ELSE {[source |-> "derived", value |-> base.value]}
  IN  IF root # NoPrice THEN {root} ELSE direct \cup derived \cup {NoPrice}

(* replayGraph and the plausibility check, long before the transaction. *)
ResolveGraph(f) ==
  /\ txn[f].pc = "planned"
  /\ \E p \in Resolutions(txn[f].target, txn[f].finalizedOnly) :
       txn' = [txn EXCEPT ![f].pc = "resolved", ![f].resolution = p]
  /\ UNCHANGED <<storeVars, req, edge, warm, inventory, curve>>

(* LOCK TABLE, then the exact read is repeated. *)
AcquireLock(f) ==
  /\ txn[f].pc = "resolved"
  /\ Unlocked(f)
  /\ lock' = f
  /\ txn' = [txn EXCEPT ![f].pc = "locked",
                         ![f].priced = Priced(txn[f].target, txn[f].finalizedOnly)]
  /\ UNCHANGED <<today, rows, rejected, req, edge, warm, inventory, curve>>

(* Mutant: one retry too many. *)
LockTimeoutPastLimit(f) ==
  /\ txn[f].pc = "resolved"
  /\ ~Unlocked(f)
  /\ txn' = [txn EXCEPT ![f] = IF @.retries > LockRetryLimit THEN NoTxn
                                ELSE [txn[f] EXCEPT !.retries = @ + 1]]
  /\ UNCHANGED <<storeVars, req, edge, warm, inventory, curve>>

LockTimeout(f) ==
  /\ txn[f].pc = "resolved"
  /\ ~Unlocked(f)
  /\ txn' = [txn EXCEPT ![f] = IF @.retries = LockRetryLimit THEN NoTxn
                                ELSE [txn[f] EXCEPT !.retries = @ + 1]]
  /\ UNCHANGED <<storeVars, req, edge, warm, inventory, curve>>

(* insertResolvedTargets for one target: whether a row is written. *)
Inserts(t) ==
  /\ ~t.priced /\ t.resolution # NoPrice
  /\ LET k == KeyOf(t.target, t.resolution.source)
     IN  NotRejected(k) /\ ~rows[k].final

(* Mutant: a contested target is settled without reading it again. *)
SettlesUnread(t) == t.priced \/ t.resolution # NoPrice

(* Priced already, inserted, or contested and found priced. *)
Settles(t) ==
  \/ t.priced
  \/ Inserts(t)
  \/ t.resolution # NoPrice /\ Priced(t.target, t.finalizedOnly)

(* applyBatch and COMMIT *)
CommitBatch(f) ==
  /\ txn[f].pc = "locked"
  /\ LET t == txn[f]
     IN  /\ IF t.priced \/ t.resolution = NoPrice
             THEN UNCHANGED rows
             ELSE Upsert(KeyOf(t.target, t.resolution.source), t.resolution.value, TRUE)
         /\ inventory' = IF Settles(t) THEN inventory \ {t.target} ELSE inventory \cup {t.target}
  /\ lock' = "free"
  /\ txn' = [txn EXCEPT ![f] = NoTxn]
  /\ UNCHANGED <<today, rejected, req, edge, warm, curve>>

(* The run fails, or its transaction does and is rolled back. *)
Abandon(f) ==
  /\ txn[f].pc # "idle"
  /\ lock' = IF lock = f THEN "free" ELSE lock
  /\ txn' = [txn EXCEPT ![f] = NoTxn]
  /\ UNCHANGED <<today, rows, rejected, req, edge, warm, inventory, curve>>

-----------------------------------------------------------------------------
(* Confirmed incidents: the migration and repairCurveLpOutlier *)

SeedRejection(k) ==
  /\ k \in Incidents \ rejected
  /\ k.day < today
  /\ rejected' = rejected \cup {k}
  /\ UNCHANGED <<today, rows, lock, flowVars>>

Contain(c) ==
  /\ curve[c].pc = "idle"
  /\ Unlocked(c)
  /\ \E k \in rejected :
       /\ Quarantine(TargetOf(k))
       /\ curve' = [curve EXCEPT ![c] = [pc |-> "check", target |-> TargetOf(k)]]
  /\ UNCHANGED <<today, rejected, lock, req, edge, warm, txn, inventory>>

(* An accepted row of another source makes a replacement needless. *)
CheckExisting(c) ==
  /\ curve[c].pc = "check"
  /\ curve' = [curve EXCEPT ![c] =
       IF \E k \in KeysOf(curve[c].target) : /\ k.source \notin {"defillama", "defillama-alias"}
                                           /\ AcceptedKey(k)
       THEN NoRepair
       ELSE [@ EXCEPT !.pc = "derive"]]
  /\ UNCHANGED <<storeVars, req, edge, warm, txn, inventory>>

Derive(c) ==
  /\ curve[c].pc = "derive"
  /\ Unlocked(c)
  /\ LET k == KeyOf(curve[c].target, "derived")
     IN  \/ UNCHANGED rows
         \/ k \in Keys /\ InsertTokenPrices(k, "close")
  /\ curve' = [curve EXCEPT ![c] = NoRepair]
  /\ UNCHANGED <<today, rejected, lock, req, edge, warm, txn, inventory>>

(* Bounds: LastDay, and no request lasts a whole day. *)
Midnight ==
  /\ today < LastDay
  /\ \A r \in Requests : req[r].pc # "idle" => req[r].asked = today
  /\ today' = today + 1
  /\ UNCHANGED <<rows, rejected, lock, flowVars>>

-----------------------------------------------------------------------------
RequestStep(r) ==
  ReadStored(r) \/ Fetch(r) \/ Guard(r) \/ Persist(r) \/ PersistFails(r) \/ Respond(r)

WarmupStep(w) ==
  \/ StartWarmup(w) \/ LookForMissing(w) \/ ReadUnderlyings(w)
  \/ PersistWarmupWrites(w) \/ LeaveGap(w) \/ NextStage(w) \/ WarmupDies(w)

FinalizerStep(f) ==
  \/ Plan(f) \/ ResolveGraph(f) \/ AcquireLock(f) \/ LockTimeout(f)
  \/ CommitBatch(f) \/ Abandon(f)

RepairStep(c) == Contain(c) \/ CheckExisting(c) \/ Derive(c)

Next ==
  \/ \E r \in Requests : RequestStep(r)
  \/ \E w \in Warmups : WarmupStep(w)
  \/ \E f \in Finalizers : FinalizerStep(f)
  \/ \E c \in Repairs : RepairStep(c)
  \/ \E k \in Incidents : SeedRejection(k)
  \/ Midnight

Spec == Init /\ [][Next]_vars

-----------------------------------------------------------------------------
(* Properties *)

(* A finalized observation is a close: whatever crosses midnight between     *)
(* its request and its write, an observation of an open day is not           *)
(* finalized.  Derived prices are left to ClosesRestOnCloses.                *)
DirectClosesAreCloses ==
  \A k \in Keys : rows[k].final /\ k.source # "derived" => rows[k].value = "close"

(* Current observations are never used to fill closed days, as the guide to  *)
(* targeted repair says: neither directly nor by derivation.                 *)
ClosesRestOnCloses == \A k \in Keys : rows[k].final => rows[k].value = "close"

(* What the requests, the lock and the transactions know of each other: a    *)
(* price is written after it was fetched, the transaction past LOCK TABLE    *)
(* holds the lock, and what it found unpriced stays unpriced until COMMIT.   *)
FetchedFirst ==
  \A r \in Requests : req[r].pc \in {"guard", "write"} => req[r].fetched # NoPrice

LockIsHeld == \A f \in Finalizers : lock = f <=> txn[f].pc = "locked"

UnpricedUnderLock ==
  \A f \in Finalizers : txn[f].pc = "locked" /\ ~txn[f].priced => ~Priced(txn[f].target, TRUE)

PriceInv == FetchedFirst /\ LockIsHeld /\ UnpricedUnderLock

(* Nobody replaces or removes a finalized price unless it is rejected.       *)
FinalStays ==
  [][\A k \in Keys : rows[k].final /\ rows'[k] # rows[k] => k \in rejected]_vars

(* Rejected observations that are gone never come back, not even out of      *)
(* requests and transactions that fetched them before.                       *)
RejectedStaysOut ==
  [][\A k \in rejected : rows'[k] # rows[k] => rows'[k] = NoRow]_vars

(* The finalizer does not finalize a second price of a target: every other   *)
(* writer is locked out between its check and its insert.                    *)
FinalizerDefers ==
  [][\A f \in Finalizers :
       lock = f /\ lock' = "free" /\ rows' # rows => ~Priced(txn[f].target, TRUE)]_vars

(* A gap leaves the inventory only for an accepted finalized price, for a    *)
(* provisional one, which daily reconciliation discovers, or for a price     *)
(* that was rejected since the transaction found it.                         *)
Accounted(g) == Priced(g, TRUE) \/ \E k \in KeysOf(g) : UnfinalizedKey(k)

RejectedMeanwhile(g) ==
  /\ \E k \in KeysOf(g) : k \in rejected
  /\ \E f \in Finalizers : lock = f /\ txn[f].priced

GapsNotLost ==
  [][\A g \in inventory : g \notin inventory' => Accounted(g)' \/ RejectedMeanwhile(g)]_vars

(* Repairs invalidate the edge: once a repair changes what a target serves,  *)
(* no other answer is kept for 30 days.                                      *)
RepairsInvalidateEdge ==
  [][\A g \in Targets : rows' # rows /\ Served(g)' # Served(g)
       => edge'[g] \in {NoPrice, Served(g)'}]_vars
=============================================================================
