------------------------- MODULE HistoricalTheorems --------------------------
(* What holds of the price table for any tokens, days, sources and actors:   *)
(* how a step may change a row, and the properties that follow from it. Then *)
(* the batched client: packed requests, fair matching, every look-up asked   *)
(* once.                                                                     *)
EXTENDS HistoricalPrices, HistoricalBatches, TLAPS, WellFoundedInduction, FiniteSetTheorems, SequenceTheorems

RowsOK == rows \in [Keys -> Row \cup {NoRow}]

(* A row stays, is written while it is neither rejected nor final, or is     *)
(* quarantined.                                                              *)
RowChange(k) ==
  \/ rows'[k] = rows[k]
  \/ k \notin rejected /\ ~rows[k].final /\ rows'[k] \in Row
  \/ k \in rejected /\ rows'[k] = NoRow

RowsChange == rows' \in [Keys -> Row \cup {NoRow}] /\ \A k \in Keys : RowChange(k)

LEMMA UpsertChanges ==
  ASSUME RowsOK, NEW k, NEW value \in Values, NEW final \in BOOLEAN, Upsert(k, value, final)
  PROVE  RowsChange
BY DEF RowsOK, Upsert, RowsChange, RowChange, Row, NoRow

LEMMA PreferredIsStored ==
  ASSUME StoreAssumption, RowsOK, NEW S \in SUBSET Keys, S # {}
  PROVE  \E k \in S : Preferred(S) = [source |-> k.source, value |-> rows[k].value]
<1> DEFINE Best(k) == \A j \in S : Priority[k.source] <= Priority[j.source]
           Z == {k.source : k \in S}
<1>1. Z \in SUBSET Sources \ {{}}
  BY DEF Keys
<1>2. PICK s \in Z : \A z \in Z : Priority[s] <= Priority[z]
  BY <1>1 DEF StoreAssumption
<1>3. (CHOOSE k \in S : Best(k)) \in S
  BY <1>2
<1> QED BY <1>3 DEF Preferred

LEMMA InsertOnlyChanges ==
  ASSUME RowsOK, NEW k,
         rows' = [rows EXCEPT ![k] = IF k \in rejected \/ @ # NoRow
                                     THEN @
                                     ELSE [value |-> "close", final |-> TRUE]]
  PROVE  RowsChange
<1>1. [value |-> "close", final |-> TRUE] \in Row
  BY DEF Row, Values
<1>2. ~NoRow.final
  BY DEF NoRow
<1> QED BY <1>1, <1>2 DEF RowsOK, RowsChange, RowChange

LEMMA UnchangedRows ==
  ASSUME RowsOK, UNCHANGED rows
  PROVE  RowsChange
BY DEF RowsOK, RowsChange, RowChange

LEMMA OnlyWritersWrite ==
  ASSUME [Next]_vars
  PROVE  \/ UNCHANGED rows
         \/ \E r \in Requests : Persist(r)
         \/ \E w \in Warmups : PersistWarmupWrites(w)
         \/ \E f \in Finalizers : CommitBatch(f)
         \/ \E c \in Repairs : Contain(c) \/ Derive(c)
<1>1. \A r \in Requests : RequestStep(r) /\ ~Persist(r) => UNCHANGED rows
  BY DEF RequestStep, ReadStored, Fetch, Guard, PersistFails, Respond, storeVars
<1>2. \A w \in Warmups : WarmupStep(w) /\ ~PersistWarmupWrites(w) => UNCHANGED rows
  BY DEF WarmupStep, StartWarmup, LookForMissing, ReadUnderlyings, LeaveGap, NextStage, WarmupDies,
         storeVars
<1>3. \A f \in Finalizers : FinalizerStep(f) /\ ~CommitBatch(f) => UNCHANGED rows
  BY DEF FinalizerStep, Plan, ResolveGraph, AcquireLock, LockTimeout, Abandon, storeVars
<1>4. \A c \in Repairs : RepairStep(c) /\ ~Contain(c) /\ ~Derive(c) => UNCHANGED rows
  BY DEF RepairStep, CheckExisting, storeVars
<1>5. Midnight \/ (\E k \in Incidents : SeedRejection(k)) => UNCHANGED rows
  BY DEF Midnight, SeedRejection
<1> QED BY <1>1, <1>2, <1>3, <1>4, <1>5 DEF Next, vars, storeVars

LEMMA StepChangesRows ==
  ASSUME TypeOK, FetchedFirst, [Next]_vars
  PROVE  RowsChange
<1>1. RowsOK
  BY DEF TypeOK, RowsOK
<1>2. CASE UNCHANGED rows
  BY <1>1, <1>2, UnchangedRows
<1>3. ASSUME NEW r \in Requests, Persist(r) PROVE RowsChange
  <2>1. req[r].fetched.value \in Values
    BY <1>3 DEF TypeOK, RequestRecords, Prices, FetchedFirst, Persist
  <2>2. CASE req[r].final
    BY <1>1, <1>3, <2>2, UpsertChanges DEF Persist, FinalizeTokenPrices, Values
  <2>3. CASE ~req[r].final
    BY <1>1, <1>3, <2>1, <2>3, UpsertChanges DEF Persist, InsertProvisionalTokenPrices
  <2> QED BY <2>2, <2>3
<1>4. ASSUME NEW w \in Warmups, PersistWarmupWrites(w) PROVE RowsChange
  <2>1. PICK g \in warm[w].todo :
          /\ Found(w, g) # "none"
          /\ IF g.day = warm[w].asked
             THEN InsertProvisionalTokenPrices(KeyOf(g, Stage(w)), Found(w, g))
             ELSE FinalizeTokenPrices(KeyOf(g, Stage(w)), Found(w, g))
    BY <1>4 DEF PersistWarmupWrites
  <2>2. g \in Targets
    BY DEF TypeOK, WarmupRecords
  <2>3. Found(w, g) \in Values
    BY <2>1, <2>2 DEF TypeOK, WarmupRecords, Found, Values
  <2> QED
    BY <1>1, <2>1, <2>3, UpsertChanges DEF InsertProvisionalTokenPrices, FinalizeTokenPrices
<1>5. ASSUME NEW f \in Finalizers, CommitBatch(f) PROVE RowsChange
  <2>1. txn[f].resolution # NoPrice => txn[f].resolution.value \in Values
    BY DEF TypeOK, TxnRecords, Prices
  <2> QED BY <1>1, <1>2, <1>5, <2>1, UpsertChanges DEF CommitBatch
<1>6. ASSUME NEW c \in Repairs, Contain(c) PROVE RowsChange
  BY <1>1, <1>6 DEF Contain, Quarantine, RowsChange, RowChange, RowsOK
<1>7. ASSUME NEW c \in Repairs, Derive(c) PROVE RowsChange
  <2> DEFINE k == KeyOf(curve[c].target, "derived")
  <2>1. CASE k.day = today
    BY <1>1, <1>2, <1>7, <2>1, UpsertChanges DEF Derive, InsertTokenPrices, Values
  <2>2. CASE k.day # today
    <3>1. CASE UNCHANGED rows
      BY <1>1, <3>1, UnchangedRows
    <3>2. CASE rows' = [rows EXCEPT ![k] = IF k \in rejected \/ @ # NoRow
                                          THEN @
                                          ELSE [value |-> "close", final |-> TRUE]]
      BY <1>1, <3>2, InsertOnlyChanges
    <3> QED BY <1>7, <2>2, <3>1, <3>2 DEF Derive, InsertTokenPrices
  <2> QED BY <2>1, <2>2
<1> QED BY <1>2, <1>3, <1>4, <1>5, <1>6, <1>7, OnlyWritersWrite

LEMMA StoredPriceTyped ==
  ASSUME TypeOK, NEW g
  PROVE  /\ Served(g) \in Prices \cup {NoPrice}
         /\ \A finalizedOnly \in BOOLEAN : StoredPrice(g, finalizedOnly) \in Prices \cup {NoPrice}
<1>1. ASSUME NEW S \in SUBSET Keys, \A k \in S : Stored(k)
      PROVE  Preferred(S) \in Prices \cup {NoPrice}
  <2>1. CASE S = {}
    BY <2>1 DEF Preferred
  <2>2. CASE S # {}
    <3>1. PICK k \in S : Preferred(S) = [source |-> k.source, value |-> rows[k].value]
      BY <2>2, PreferredIsStored, StoreAssumption DEF TypeOK, RowsOK
    <3>2. rows[k] \in Row /\ k.source \in Sources
      BY <1>1 DEF Keys, Stored, TypeOK
    <3> QED BY <3>1, <3>2 DEF Prices, Row
  <2> QED BY <2>1, <2>2
<1>2. Served(g) \in Prices \cup {NoPrice}
  BY <1>1 DEF Served, KeysOf, ServedKey
<1>3. Preferred({k \in KeysOf(g) : FinalKey(k)}) \in Prices \cup {NoPrice}
  BY <1>1 DEF KeysOf, FinalKey
<1> QED BY <1>2, <1>3 DEF StoredPrice

LEMMA IdleTyped ==
  /\ NoRequest \in RequestRecords /\ NoWarmup \in WarmupRecords
  /\ NoTxn \in TxnRecords /\ \A g \in Targets : [pc |-> "check", target |-> g] \in RepairRecords
  /\ NoRepair \in RepairRecords
<1>1. AnyTarget \in Targets
  <2>1. PICK t \in Tokens, d \in Days : TRUE
    BY StoreAssumption
  <2>2. [token |-> t, day |-> d] \in Targets
    BY DEF Targets
  <2> QED BY <2>2 DEF AnyTarget
<1>2. NoRequest \in RequestRecords
  BY <1>1, FlowAssumption DEF NoRequest, RequestRecords
<1>3. NoWarmup \in WarmupRecords
  BY FlowAssumption DEF NoWarmup, NoBase, WarmupRecords
<1>4. NoTxn \in TxnRecords
  BY <1>1, FlowAssumption DEF NoTxn, TxnRecords
<1>5. NoRepair \in RepairRecords /\ \A g \in Targets : [pc |-> "check", target |-> g] \in RepairRecords
  BY <1>1 DEF NoRepair, RepairRecords
<1> QED BY <1>2, <1>3, <1>4, <1>5

LEMMA InitOK == Init => TypeOK /\ PriceInv
<1> SUFFICES ASSUME Init PROVE TypeOK /\ PriceInv
  OBVIOUS
<1>1. TypeOK
  BY IdleTyped, FlowAssumption DEF Init, TypeOK
<1>2. PriceInv
  BY FlowAssumption DEF Init, PriceInv, FetchedFirst, LockIsHeld, UnpricedUnderLock, NoRequest, NoTxn
<1> QED BY <1>1, <1>2

LEMMA OthersKeepUnpriced ==
  ASSUME TypeOK, PriceInv, UNCHANGED <<lock, txn>>, rejected \subseteq rejected',
         UNCHANGED rows \/ \E x \in Requests \cup Warmups \cup Repairs : Unlocked(x)
  PROVE  LockIsHeld' /\ UnpricedUnderLock'
<1>1. LockIsHeld'
  BY DEF PriceInv, LockIsHeld
<1>2. ASSUME NEW f \in Finalizers, txn[f].pc = "locked", ~txn[f].priced
      PROVE  ~Priced(txn[f].target, TRUE)'
  <2>1. lock = f
    BY <1>2 DEF PriceInv, LockIsHeld
  <2>2. UNCHANGED rows
    BY <2>1, FlowAssumption DEF Unlocked
  <2>3. \A k \in Keys : FinalKey(k)' => FinalKey(k)
    BY <2>2 DEF FinalKey, Stored, NotRejected
  <2> QED BY <1>2, <2>3 DEF PriceInv, UnpricedUnderLock, Priced, KeysOf
<1> QED BY <1>1, <1>2 DEF UnpricedUnderLock

LEMMA RequestTyped ==
  ASSUME TypeOK, PriceInv, NEW r \in Requests, RequestStep(r)
  PROVE  TypeOK' /\ PriceInv'
<1>1. RowsChange
  BY StepChangesRows DEF PriceInv, Next
<1> DEFINE Others == UNCHANGED <<today, rejected, lock, warm, txn, inventory, curve>>
<1>2. Others
  BY DEF RequestStep, ReadStored, Fetch, Guard, Persist, PersistFails, Respond, storeVars
<1>3. req' \in [Requests -> RequestRecords] /\ FetchedFirst'
  <2>1. CASE ReadStored(r)
    <3>1. PICK g \in Targets :
            req' = [req EXCEPT ![r] = [NoRequest EXCEPT !.pc = "fetch", !.asked = today,
                                                        !.target = g, !.stored = Served(g)]]
      BY <2>1 DEF ReadStored
    <3>2. [NoRequest EXCEPT !.pc = "fetch", !.asked = today,
                            !.target = g, !.stored = Served(g)] \in RequestRecords
      BY IdleTyped, StoredPriceTyped DEF RequestRecords, TypeOK
    <3> QED BY <3>1, <3>2 DEF TypeOK, PriceInv, FetchedFirst
  <2>2. CASE Fetch(r)
    <3>1. PICK p \in Answers(req[r]) \cup {NoPrice} :
            req' = [req EXCEPT ![r].fetched = p,
                               ![r].pc = IF p = NoPrice THEN "respond" ELSE "guard"]
      BY <2>2 DEF Fetch
    <3>2. p \in Prices \cup {NoPrice}
      <4>1. \A t, z : <<t, z>> \in Quoted => z \in Sources
        BY StoreAssumption
      <4>2. Answers(req[r]) \subseteq [source: Sources, value: {"live", "close"}]
        <5>1. ASSUME NEW z \in CurrentSources, <<req[r].target.token, z>> \in Quoted
              PROVE  [source |-> z, value |-> "live"] \in [source: Sources, value: {"live", "close"}]
          BY <4>1, <5>1
        <5>2. <<req[r].target.token, "defillama">> \in Quoted
              => [source |-> "defillama", value |-> "close"]
                   \in [source: Sources, value: {"live", "close"}]
          BY <4>1
        <5> QED BY <5>1, <5>2 DEF Answers
      <4> QED BY <4>2 DEF Prices, Values
    <3>3. req' \in [Requests -> RequestRecords]
      <4> DEFINE next == [req[r] EXCEPT !.fetched = p, !.pc = IF p = NoPrice THEN "respond" ELSE "guard"]
      <4>1. req[r] \in RequestRecords
        BY DEF TypeOK
      <4>2. next \in RequestRecords
        <5>1. CASE p = NoPrice
          BY <3>2, <4>1, <5>1 DEF RequestRecords
        <5>2. CASE p # NoPrice
          BY <3>2, <4>1, <5>2 DEF RequestRecords
        <5> QED BY <5>1, <5>2
      <4>3. req' = [req EXCEPT ![r] = next]
        BY <3>1 DEF TypeOK
      <4> HIDE DEF next
      <4> QED BY <4>2, <4>3 DEF TypeOK
    <3>4. ASSUME NEW q \in Requests, req'[q].pc \in {"guard", "write"} PROVE req'[q].fetched # NoPrice
      <4>1. CASE q = r
        BY <3>1, <3>4, <4>1 DEF TypeOK, RequestRecords
      <4>2. CASE q # r
        BY <3>1, <3>4, <4>2 DEF TypeOK, PriceInv, FetchedFirst
      <4> QED BY <4>1, <4>2
    <3> QED BY <3>3, <3>4 DEF FetchedFirst
  <2>3. CASE Guard(r)
    BY <2>3 DEF Guard, TypeOK, RequestRecords, PriceInv, FetchedFirst
  <2>4. CASE Persist(r) \/ PersistFails(r)
    BY <2>4 DEF Persist, PersistFails, TypeOK, RequestRecords, PriceInv, FetchedFirst
  <2>5. CASE Respond(r)
    BY <2>5, IdleTyped DEF Respond, TypeOK, NoRequest, PriceInv, FetchedFirst
  <2> QED BY <2>1, <2>2, <2>3, <2>4, <2>5 DEF RequestStep
<1>4. edge' \in [Targets -> Prices \cup {NoPrice}]
  <2>1. CASE Respond(r)
    BY <2>1 DEF Respond, TypeOK, RequestRecords
  <2>2. CASE ~Respond(r)
    BY <2>2 DEF RequestStep, ReadStored, Fetch, Guard, Persist, PersistFails, TypeOK
  <2> QED BY <2>1, <2>2
<1>5. TypeOK'
  BY <1>1, <1>2, <1>3, <1>4 DEF TypeOK, RowsChange
<1>6. UNCHANGED rows \/ Unlocked(r)
  BY DEF RequestStep, ReadStored, Fetch, Guard, Persist, PersistFails, Respond, storeVars
<1> QED BY <1>2, <1>3, <1>5, <1>6, OthersKeepUnpriced DEF PriceInv

LEMMA WarmupUpdates ==
  ASSUME NEW m \in WarmupRecords
  PROVE  /\ \A stage \in 0..4, when \in 0..LastDay :
              [m EXCEPT !.stage = stage, !.asked = when] \in WarmupRecords
         /\ \A todo \in SUBSET Targets, step \in {"look", "base", "put"} :
              [m EXCEPT !.todo = todo, !.step = step] \in WarmupRecords
         /\ \A base \in [Targets -> Values \cup {"none"}], step \in {"look", "base", "put"} :
              [m EXCEPT !.base = base, !.step = step] \in WarmupRecords
         /\ \A todo \in SUBSET Targets : [m EXCEPT !.todo = todo] \in WarmupRecords
<1> DEFINE Bases == [Targets -> Values \cup {"none"}]
           Todos == SUBSET Targets
           Ages == 0..LastDay
<1>1. WarmupRecords = [stage: 0..4, step: {"look", "base", "put"}, asked: Ages, todo: Todos, base: Bases]
  BY DEF WarmupRecords
<1> HIDE DEF Bases, Todos, Ages
<1>2. /\ \A stage \in 0..4, when \in Ages : [m EXCEPT !.stage = stage, !.asked = when] \in WarmupRecords
      /\ \A todo \in Todos, step \in {"look", "base", "put"} :
           [m EXCEPT !.todo = todo, !.step = step] \in WarmupRecords
      /\ \A base \in Bases, step \in {"look", "base", "put"} :
           [m EXCEPT !.base = base, !.step = step] \in WarmupRecords
      /\ \A todo \in Todos : [m EXCEPT !.todo = todo] \in WarmupRecords
  BY <1>1
<1> QED BY <1>2 DEF Bases, Todos, Ages

LEMMA WarmupTyped ==
  ASSUME TypeOK, PriceInv, NEW w \in Warmups, WarmupStep(w)
  PROVE  TypeOK' /\ PriceInv'
<1>1. RowsChange
  BY StepChangesRows DEF PriceInv, Next
<1>2. UNCHANGED <<today, rejected, lock, req, edge, txn, inventory, curve>>
  BY DEF WarmupStep, StartWarmup, LookForMissing, ReadUnderlyings, PersistWarmupWrites, LeaveGap,
         NextStage, WarmupDies, storeVars
<1>3. warm[w] \in WarmupRecords
  BY DEF TypeOK
<1>4. warm' \in [Warmups -> WarmupRecords]
  <2>1. CASE StartWarmup(w)
    <3>1. [NoWarmup EXCEPT !.stage = 1, !.asked = today] \in WarmupRecords
      <4>1. 1 \in 0..4 /\ today \in 0..LastDay
        BY DEF TypeOK
      <4> QED BY <4>1, IdleTyped, WarmupUpdates
    <3> QED BY <2>1, <3>1 DEF StartWarmup, TypeOK
  <2>2. CASE LookForMissing(w)
    <3>1. PICK todo \in SUBSET Targets, step \in {"look", "base", "put"} :
            warm' = [warm EXCEPT ![w].todo = todo, ![w].step = step]
      BY <2>2 DEF LookForMissing
    <3>2. warm' = [warm EXCEPT ![w] = [warm[w] EXCEPT !.todo = todo, !.step = step]]
      BY <3>1 DEF TypeOK
    <3> QED BY <1>3, <3>2, WarmupUpdates DEF TypeOK
  <2>3. CASE ReadUnderlyings(w)
    <3> DEFINE base == [g \in Targets |->
                          IF g \in warm[w].todo
                          THEN Served([g EXCEPT !.token = UnderlyingOf[g.token]]).value
                          ELSE "none"]
    <3>1. ASSUME NEW g PROVE Served(g).value \in Values \cup {"none"}
      BY StoredPriceTyped DEF Prices, NoPrice
    <3>2. base \in [Targets -> Values \cup {"none"}]
      BY <3>1
    <3>3. warm' = [warm EXCEPT ![w].base = base, ![w].step = "put"]
      BY <2>3 DEF ReadUnderlyings
    <3> HIDE DEF base
    <3>4. warm' = [warm EXCEPT ![w] = [warm[w] EXCEPT !.base = base, !.step = "put"]]
      BY <3>3 DEF TypeOK
    <3> QED BY <1>3, <3>2, <3>4, WarmupUpdates DEF TypeOK
  <2>4. CASE PersistWarmupWrites(w) \/ LeaveGap(w)
    <3>1. PICK todo \in SUBSET Targets : warm' = [warm EXCEPT ![w].todo = todo]
      BY <1>3, <2>4 DEF PersistWarmupWrites, LeaveGap, WarmupRecords
    <3>2. warm' = [warm EXCEPT ![w] = [warm[w] EXCEPT !.todo = todo]]
      BY <3>1 DEF TypeOK
    <3> QED BY <1>3, <3>2, WarmupUpdates DEF TypeOK
  <2>5. CASE NextStage(w)
    <3>1. warm[w].stage # 4
          => [NoWarmup EXCEPT !.stage = warm[w].stage + 1, !.asked = warm[w].asked] \in WarmupRecords
      <4>1. warm[w].stage \in 0..4 /\ warm[w].asked \in 0..LastDay
        BY <1>3 DEF WarmupRecords
      <4>2. warm[w].stage # 4 => warm[w].stage + 1 \in 0..4
        BY <4>1
      <4> QED BY <4>1, <4>2, IdleTyped, WarmupUpdates
    <3>2. Len(Stages) = 4
      BY DEF Stages
    <3> QED BY <2>5, <3>1, <3>2, IdleTyped DEF NextStage, TypeOK
  <2>6. CASE WarmupDies(w)
    BY <2>6, IdleTyped DEF WarmupDies, TypeOK
  <2> QED BY <2>1, <2>2, <2>3, <2>4, <2>5, <2>6 DEF WarmupStep
<1>5. TypeOK'
  BY <1>1, <1>2, <1>4 DEF TypeOK, RowsChange
<1>6. UNCHANGED rows \/ Unlocked(w)
  BY DEF WarmupStep, StartWarmup, LookForMissing, ReadUnderlyings, PersistWarmupWrites, LeaveGap,
         NextStage, WarmupDies, storeVars
<1> QED BY <1>2, <1>5, <1>6, OthersKeepUnpriced DEF PriceInv, FetchedFirst

LEMMA OtherTyped ==
  ASSUME TypeOK, PriceInv,
         Midnight \/ (\E k \in Incidents : SeedRejection(k)) \/ (\E c \in Repairs : RepairStep(c))
  PROVE  TypeOK' /\ PriceInv'
<1>1. RowsChange
  BY StepChangesRows DEF PriceInv, Next
<1>2. UNCHANGED <<lock, req, edge, warm, txn, inventory>>
  BY DEF Midnight, SeedRejection, RepairStep, Contain, CheckExisting, Derive, storeVars, flowVars
<1>3. today' \in 0..LastDay
  BY FlowAssumption DEF Midnight, SeedRejection, RepairStep, Contain, CheckExisting, Derive,
                        storeVars, TypeOK
<1>4. rejected' \subseteq Keys /\ rejected \subseteq rejected'
  BY FlowAssumption DEF Midnight, SeedRejection, RepairStep, Contain, CheckExisting, Derive,
                        storeVars, TypeOK
<1>5. curve' \in [Repairs -> RepairRecords]
  <2>1. ASSUME NEW c \in Repairs, RepairStep(c) PROVE curve' \in [Repairs -> RepairRecords]
    <3>1. CASE Contain(c)
      <4>1. \A k \in Keys : TargetOf(k) \in Targets
        BY DEF Keys, TargetOf, Targets
      <4> QED BY <3>1, <4>1, IdleTyped DEF Contain, TypeOK
    <3>2. CASE CheckExisting(c)
      BY <3>2, IdleTyped DEF CheckExisting, TypeOK, RepairRecords
    <3>3. CASE Derive(c)
      BY <3>3, IdleTyped DEF Derive, TypeOK
    <3> QED BY <2>1, <3>1, <3>2, <3>3 DEF RepairStep
  <2> QED BY <2>1 DEF Midnight, SeedRejection, flowVars, TypeOK
<1>6. TypeOK'
  BY <1>1, <1>2, <1>3, <1>4, <1>5 DEF TypeOK, RowsChange
<1>7. UNCHANGED rows \/ \E c \in Repairs : Unlocked(c)
  BY DEF Midnight, SeedRejection, RepairStep, Contain, CheckExisting, Derive, storeVars
<1> QED BY <1>2, <1>4, <1>6, <1>7, OthersKeepUnpriced DEF PriceInv, FetchedFirst

LEMMA ResolutionsTyped ==
  ASSUME TypeOK, NEW g, NEW finalizedOnly \in BOOLEAN
  PROVE  Resolutions(g, finalizedOnly) \subseteq Prices \cup {NoPrice}
<1>1. \A h : StoredPrice(h, finalizedOnly) \in Prices \cup {NoPrice}
  BY StoredPriceTyped
<1>2. \A z \in Sources, v \in Values : [source |-> z, value |-> v] \in Prices
  BY DEF Prices
<1>3. \A p \in Prices : p.value \in Values
  BY DEF Prices
<1>4. "derived" \in Sources /\ "close" \in Values
  BY FlowAssumption DEF Values
<1>5. NoPrice \notin Prices
  BY DEF NoPrice, Prices, Values
<1> QED BY <1>1, <1>2, <1>3, <1>4, <1>5 DEF Resolutions

LEMMA FinalizerTyped ==
  ASSUME TypeOK, PriceInv, NEW f \in Finalizers, FinalizerStep(f)
  PROVE  TypeOK' /\ PriceInv'
<1>1. RowsChange
  BY StepChangesRows DEF PriceInv, Next
<1>2. UNCHANGED <<today, rejected, req, edge, warm, curve>>
  BY DEF FinalizerStep, Plan, ResolveGraph, AcquireLock, LockTimeout, CommitBatch, Abandon, storeVars
<1>3. txn[f] \in TxnRecords
  BY DEF TypeOK
<1>4. PICK next \in TxnRecords :
        /\ txn' = [txn EXCEPT ![f] = next]
        /\ next.pc = "locked" /\ ~next.priced => ~Priced(next.target, TRUE)
        /\ \/ UNCHANGED lock /\ (next.pc = "locked" <=> txn[f].pc = "locked") /\ next.pc # "locked"
           \/ lock = "free" /\ lock' = f /\ next.pc = "locked"
           \/ lock' = (IF lock = f THEN "free" ELSE lock) /\ next.pc = "idle"
  <2>1. CASE Plan(f)
    <3>1. PICK g \in Targets, strict \in Modes :
            txn' = [txn EXCEPT ![f] = [NoTxn EXCEPT !.pc = "planned", !.target = g, !.finalizedOnly = strict]]
      BY <2>1 DEF Plan
    <3>2. [NoTxn EXCEPT !.pc = "planned", !.target = g, !.finalizedOnly = strict] \in TxnRecords
      BY IdleTyped, FlowAssumption DEF TxnRecords
    <3> QED BY <2>1, <3>1, <3>2 DEF Plan, NoTxn, storeVars
  <2>2. CASE ResolveGraph(f)
    <3>1. PICK p \in Resolutions(txn[f].target, txn[f].finalizedOnly) :
            txn' = [txn EXCEPT ![f].pc = "resolved", ![f].resolution = p]
      BY <2>2 DEF ResolveGraph
    <3>2. p \in Prices \cup {NoPrice}
      BY <1>3, <3>1, ResolutionsTyped DEF TxnRecords
    <3> DEFINE next == [txn[f] EXCEPT !.pc = "resolved", !.resolution = p]
    <3>3. next \in TxnRecords
      BY <1>3, <3>2 DEF TxnRecords
    <3>4. txn' = [txn EXCEPT ![f] = next]
      BY <3>1 DEF TypeOK
    <3>5. next.pc = "resolved"
      BY <1>3 DEF TxnRecords
    <3> HIDE DEF next
    <3> QED BY <2>2, <3>3, <3>4, <3>5 DEF ResolveGraph, storeVars
  <2>3. CASE AcquireLock(f)
    <3> DEFINE priced == Priced(txn[f].target, txn[f].finalizedOnly)
               next == [txn[f] EXCEPT !.pc = "locked", !.priced = priced]
    <3>1. priced \in BOOLEAN
      BY DEF Priced
    <3>2. lock = "free" /\ lock' = f
      <4>1. lock \in {"free", f} /\ lock' = f /\ txn[f].pc = "resolved"
        BY <2>3 DEF AcquireLock, Unlocked
      <4> QED BY <4>1 DEF PriceInv, LockIsHeld
    <3>3. ~priced => ~Priced(txn[f].target, TRUE)
      BY DEF Priced, FinalKey, ServedKey
    <3>4. txn' = [txn EXCEPT ![f] = next]
      BY <2>3 DEF AcquireLock, TypeOK
    <3> HIDE DEF priced
    <3>5. next \in TxnRecords /\ next.pc = "locked" /\ next.priced = priced /\ next.target = txn[f].target
      BY <1>3, <3>1 DEF TxnRecords
    <3> HIDE DEF next
    <3> QED BY <3>2, <3>3, <3>4, <3>5
  <2>4. CASE LockTimeout(f)
    <3> DEFINE next == IF txn[f].retries = LockRetryLimit THEN NoTxn
                       ELSE [txn[f] EXCEPT !.retries = @ + 1]
    <3>1. next \in TxnRecords /\ next.pc # "locked"
      BY <1>3, <2>4, IdleTyped, FlowAssumption DEF TxnRecords, LockTimeout, NoTxn
    <3>2. txn' = [txn EXCEPT ![f] = next]
      <4>1. CASE txn[f].retries = LockRetryLimit
        BY <2>4, <4>1 DEF LockTimeout, TypeOK
      <4>2. CASE txn[f].retries # LockRetryLimit
        BY <2>4, <4>2 DEF LockTimeout, TypeOK
      <4> QED BY <4>1, <4>2
    <3> HIDE DEF next
    <3> QED BY <2>4, <3>1, <3>2 DEF LockTimeout, storeVars
  <2>5. CASE CommitBatch(f)
    <3>1. lock = f
      BY <2>5 DEF CommitBatch, PriceInv, LockIsHeld
    <3> QED BY <2>5, <3>1, IdleTyped DEF CommitBatch, NoTxn
  <2>6. CASE Abandon(f)
    BY <2>6, IdleTyped DEF Abandon, NoTxn
  <2> QED BY <2>1, <2>2, <2>3, <2>4, <2>5, <2>6 DEF FinalizerStep
<1>5. inventory' \subseteq Targets
  BY <1>3 DEF FinalizerStep, Plan, ResolveGraph, AcquireLock, LockTimeout, CommitBatch, Abandon, TypeOK,
              TxnRecords
<1>6. TypeOK'
  BY <1>1, <1>2, <1>4, <1>5 DEF TypeOK, RowsChange
<1>7. LockIsHeld'
  BY <1>4, FlowAssumption DEF PriceInv, LockIsHeld, TypeOK
<1>8. ASSUME NEW h \in Finalizers, txn'[h].pc = "locked", ~txn'[h].priced
      PROVE  ~Priced(txn[h].target, TRUE)'
  <2>1. lock' = h
    BY <1>7, <1>8 DEF LockIsHeld
  <2>2. UNCHANGED rows
    <3>1. ~CommitBatch(f)
      BY <2>1, FlowAssumption DEF CommitBatch
    <3> QED BY <3>1 DEF FinalizerStep, Plan, ResolveGraph, AcquireLock, LockTimeout, Abandon, storeVars
  <2>3. ~Priced(txn'[h].target, TRUE)
    BY <1>4, <1>8 DEF TypeOK, PriceInv, UnpricedUnderLock
  <2>4. \A k \in Keys : FinalKey(k)' => FinalKey(k)
    BY <1>2, <2>2 DEF FinalKey, Stored, NotRejected
  <2> QED BY <2>3, <2>4 DEF Priced, KeysOf
<1> QED BY <1>2, <1>6, <1>7, <1>8 DEF PriceInv, FetchedFirst, UnpricedUnderLock

LEMMA StepOK ==
  ASSUME TypeOK, PriceInv, [Next]_vars
  PROVE  TypeOK' /\ PriceInv'
<1>1. CASE Next
  BY <1>1, RequestTyped, WarmupTyped, FinalizerTyped, OtherTyped DEF Next
<1>2. CASE UNCHANGED vars
  <2>1. TypeOK'
    BY <1>2 DEF vars, storeVars, flowVars, TypeOK
  <2>2. FetchedFirst'
    BY <1>2 DEF vars, flowVars, PriceInv, FetchedFirst
  <2>3. LockIsHeld' /\ UnpricedUnderLock'
    BY <1>2, OthersKeepUnpriced DEF vars, storeVars, flowVars
  <2> QED BY <2>1, <2>2, <2>3 DEF PriceInv
<1> QED BY <1>1, <1>2

-----------------------------------------------------------------------------
(* The state of the table and of its writers stays well-formed: a price is   *)
(* written after it was fetched, the lock belongs to the transaction past    *)
(* LOCK TABLE, and what that transaction found unpriced stays unpriced until *)
(* it commits, whatever requests, warmup runs and repairs do meanwhile.      *)
THEOREM PriceInvariant == Spec => [](TypeOK /\ PriceInv)
<1>1. Init => TypeOK /\ PriceInv
  BY InitOK
<1>2. TypeOK /\ PriceInv /\ [Next]_vars => (TypeOK /\ PriceInv)'
  BY StepOK
<1> QED BY <1>1, <1>2, PTL DEF Spec

(* What every actor holds between its steps is of its kind: a row, a price   *)
(* on its way, a stage with its targets, or a transaction with its retries.  *)
THEOREM PriceTypes == Spec => []TypeOK
BY PriceInvariant, PTL

(* A finalized price is never replaced or removed by any writer, unless its  *)
(* observation is rejected.                                                  *)
THEOREM FinalityTheorem == Spec => FinalStays
<1>1. ASSUME TypeOK, PriceInv, [Next]_vars
      PROVE  [\A k \in Keys : rows[k].final /\ rows'[k] # rows[k] => k \in rejected]_vars
  BY <1>1, StepChangesRows DEF PriceInv, RowsChange, RowChange
<1> QED BY <1>1, PriceInvariant, PTL DEF Spec, FinalStays

(* A rejected observation is only ever removed: a request or a transaction   *)
(* that fetched it before its rejection cannot bring it back.                *)
THEOREM RejectionTheorem == Spec => RejectedStaysOut
<1>1. ASSUME TypeOK, PriceInv, [Next]_vars
      PROVE  [\A k \in rejected : rows'[k] # rows[k] => rows'[k] = NoRow]_vars
  <2>1. rejected \subseteq Keys
    BY <1>1 DEF TypeOK
  <2> QED BY <1>1, <2>1, StepChangesRows DEF PriceInv, RowsChange, RowChange
<1> QED BY <1>1, PriceInvariant, PTL DEF Spec, RejectedStaysOut

(* A finalizing transaction that releases its lock with a new row wrote the  *)
(* first finalized price of its target: nobody finalized it between the      *)
(* exact read and the insert.                                                *)
THEOREM DeferralTheorem == Spec => FinalizerDefers
<1>1. ASSUME TypeOK, PriceInv, [Next]_vars
      PROVE  [\A f \in Finalizers :
                lock = f /\ lock' = "free" /\ rows' # rows => ~Priced(txn[f].target, TRUE)]_vars
  <2>1. SUFFICES ASSUME NEW f \in Finalizers, lock = f, lock' = "free", rows' # rows
                 PROVE  ~Priced(txn[f].target, TRUE)
    OBVIOUS
  <2>2. lock # lock'
    BY <2>1, FlowAssumption
  <2>3. PICK h \in Finalizers : FinalizerStep(h)
    <3>1. \A r \in Requests : RequestStep(r) => UNCHANGED lock
      BY DEF RequestStep, ReadStored, Fetch, Guard, Persist, PersistFails, Respond, storeVars
    <3>2. \A w \in Warmups : WarmupStep(w) => UNCHANGED lock
      BY DEF WarmupStep, StartWarmup, LookForMissing, ReadUnderlyings, PersistWarmupWrites, LeaveGap,
             NextStage, WarmupDies, storeVars
    <3>3. \A c \in Repairs : RepairStep(c) => UNCHANGED lock
      BY DEF RepairStep, Contain, CheckExisting, Derive, storeVars
    <3>4. Midnight \/ (\E k \in Incidents : SeedRejection(k)) => UNCHANGED lock
      BY DEF Midnight, SeedRejection
    <3> QED BY <1>1, <2>2, <3>1, <3>2, <3>3, <3>4 DEF Next, vars, storeVars
  <2>4. CommitBatch(h)
    BY <2>1, <2>3 DEF FinalizerStep, Plan, ResolveGraph, AcquireLock, LockTimeout, Abandon, storeVars
  <2>5. h = f
    BY <1>1, <2>1, <2>4 DEF CommitBatch, PriceInv, LockIsHeld
  <2>6. txn[f].pc = "locked" /\ ~txn[f].priced
    BY <2>1, <2>4, <2>5 DEF CommitBatch
  <2> QED BY <1>1, <2>6 DEF PriceInv, UnpricedUnderLock
<1> QED BY <1>1, PriceInvariant, PTL DEF Spec, FinalizerDefers

(* With finalizedOnly in force, a direct price on its way to the finalizer   *)
(* is a close: stored rows it may come from are finalized ones.              *)
StrictTransactions ==
  \A f \in Finalizers :
    LET p == txn[f].resolution
    IN  /\ txn[f].pc # "idle" => txn[f].finalizedOnly
        /\ p # NoPrice /\ p.source # "derived" => p.value = "close"

LEMMA StrictResolutions ==
  ASSUME TypeOK, DirectClosesAreCloses, NEW g, NEW p \in Resolutions(g, TRUE),
         p # NoPrice, p.source # "derived"
  PROVE  p.value = "close"
<1> DEFINE S == {k \in KeysOf(g) : FinalKey(k)}
<1>1. StoredPrice(g, TRUE) = Preferred(S)
  BY DEF StoredPrice
<1>2. CASE p = Preferred(S)
  <2>1. S # {}
    BY <1>2 DEF Preferred
  <2>2. PICK k \in S : p = [source |-> k.source, value |-> rows[k].value]
    <3>1. S \in SUBSET Keys /\ RowsOK
      BY DEF KeysOf, TypeOK, RowsOK
    <3> HIDE DEF S
    <3> QED BY <1>2, <2>1, <3>1, PreferredIsStored, StoreAssumption
  <2>3. k \in Keys /\ rows[k].final
    BY DEF KeysOf, FinalKey
  <2> QED BY <2>2, <2>3 DEF DirectClosesAreCloses
<1>3. CASE p # Preferred(S)
  <2>1. ASSUME NEW z, p = [source |-> z, value |-> "close"] PROVE p.value = "close"
    BY <2>1
  <2>2. ASSUME NEW v, p = [source |-> "derived", value |-> v] PROVE FALSE
    BY <2>2
  <2> QED BY <1>1, <1>3, <2>1, <2>2 DEF Resolutions
<1> QED BY <1>2, <1>3

(* Where only repair workers finalize (Modes = {TRUE}), no observation of an *)
(* open day is ever finalized as itself, whatever crosses midnight between   *)
(* its request and its write.                                                *)
THEOREM CloseTheorem == (Modes = {TRUE}) => (Spec => []DirectClosesAreCloses)
<1> SUFFICES ASSUME Modes = {TRUE} PROVE Spec => []DirectClosesAreCloses
  OBVIOUS
<1> DEFINE CloseInv == DirectClosesAreCloses /\ StrictTransactions
<1>1. Init => CloseInv
  BY DEF Init, DirectClosesAreCloses, StrictTransactions, NoTxn, NoRow
<1>2. ASSUME TypeOK, PriceInv, CloseInv, [Next]_vars PROVE CloseInv'
  <2>1. StrictTransactions'
    <3>1. ASSUME NEW f \in Finalizers, FinalizerStep(f) PROVE StrictTransactions'
      <4>1. CASE Plan(f)
        BY <1>2, <4>1 DEF Plan, StrictTransactions, NoTxn, TypeOK
      <4>2. CASE ResolveGraph(f)
        <5>1. PICK p \in Resolutions(txn[f].target, txn[f].finalizedOnly) :
                txn' = [txn EXCEPT ![f].pc = "resolved", ![f].resolution = p]
          BY <4>2 DEF ResolveGraph
        <5>2. txn[f].finalizedOnly = TRUE
          BY <1>2, <4>2 DEF ResolveGraph, StrictTransactions, TypeOK, TxnRecords
        <5>3. p # NoPrice /\ p.source # "derived" => p.value = "close"
          BY <1>2, <5>1, <5>2, StrictResolutions
        <5> QED BY <1>2, <5>1, <5>2, <5>3 DEF StrictTransactions, TypeOK, TxnRecords
      <4>3. CASE AcquireLock(f)
        BY <1>2, <4>3 DEF AcquireLock, StrictTransactions, TypeOK, TxnRecords
      <4>4. CASE LockTimeout(f)
        BY <1>2, <4>4 DEF LockTimeout, StrictTransactions, NoTxn, TypeOK, TxnRecords
      <4>5. CASE CommitBatch(f) \/ Abandon(f)
        <5>1. txn' = [txn EXCEPT ![f] = NoTxn]
          BY <4>5 DEF CommitBatch, Abandon
        <5> QED BY <1>2, <5>1 DEF StrictTransactions, NoTxn, TypeOK
      <4> QED BY <3>1, <4>1, <4>2, <4>3, <4>4, <4>5 DEF FinalizerStep
    <3>2. CASE UNCHANGED txn
      BY <1>2, <3>2 DEF StrictTransactions
    <3>3. (\E f \in Finalizers : FinalizerStep(f)) \/ UNCHANGED txn
      <4>1. \A r \in Requests : RequestStep(r) => UNCHANGED txn
        BY DEF RequestStep, ReadStored, Fetch, Guard, Persist, PersistFails, Respond
      <4>2. \A w \in Warmups : WarmupStep(w) => UNCHANGED txn
        BY DEF WarmupStep, StartWarmup, LookForMissing, ReadUnderlyings, PersistWarmupWrites, LeaveGap,
               NextStage, WarmupDies
      <4>3. \A c \in Repairs : RepairStep(c) => UNCHANGED txn
        BY DEF RepairStep, Contain, CheckExisting, Derive
      <4>4. Midnight \/ (\E k \in Incidents : SeedRejection(k)) => UNCHANGED txn
        BY DEF Midnight, SeedRejection, flowVars
      <4> QED BY <1>2, <4>1, <4>2, <4>3, <4>4 DEF Next, vars, flowVars
    <3> QED BY <3>1, <3>2, <3>3
  <2>2. ASSUME NEW k \in Keys, rows'[k].final, k.source # "derived" PROVE rows'[k].value = "close"
    <3>1. CASE rows'[k] = rows[k]
      BY <1>2, <2>2, <3>1 DEF DirectClosesAreCloses
    <3>2. CASE rows'[k] # rows[k]
      <4>1. ASSUME NEW j, NEW value, NEW final \in BOOLEAN, Upsert(j, value, final)
            PROVE  k = j /\ value = rows'[k].value /\ final = TRUE
        BY <1>2, <2>2, <3>2, <4>1 DEF Upsert, TypeOK
      <4>2. ASSUME NEW r \in Requests, Persist(r) PROVE rows'[k].value = "close"
        <5>1. CASE req[r].final
          BY <4>1, <4>2, <5>1 DEF Persist, FinalizeTokenPrices
        <5>2. CASE ~req[r].final
          BY <4>1, <4>2, <5>2 DEF Persist, InsertProvisionalTokenPrices
        <5> QED BY <5>1, <5>2
      <4>3. ASSUME NEW w \in Warmups, PersistWarmupWrites(w) PROVE rows'[k].value = "close"
        <5>1. PICK g \in warm[w].todo :
                IF g.day = warm[w].asked
                THEN InsertProvisionalTokenPrices(KeyOf(g, Stage(w)), Found(w, g))
                ELSE FinalizeTokenPrices(KeyOf(g, Stage(w)), Found(w, g))
          BY <4>3 DEF PersistWarmupWrites
        <5>2. g.day # warm[w].asked /\ k = KeyOf(g, Stage(w)) /\ Found(w, g) = rows'[k].value
          <6>1. CASE g.day = warm[w].asked
            BY <4>1, <5>1, <6>1 DEF InsertProvisionalTokenPrices
          <6>2. CASE g.day # warm[w].asked
            BY <4>1, <5>1, <6>2 DEF FinalizeTokenPrices
          <6> QED BY <6>1, <6>2
        <5> QED BY <2>2, <5>2 DEF Found, KeyOf
      <4>4. ASSUME NEW f \in Finalizers, CommitBatch(f) PROVE rows'[k].value = "close"
        <5> DEFINE p == txn[f].resolution
        <5>1. p # NoPrice /\ Upsert(KeyOf(txn[f].target, p.source), p.value, TRUE)
          BY <3>2, <4>4 DEF CommitBatch
        <5>2. k = KeyOf(txn[f].target, p.source) /\ p.value = rows'[k].value
          BY <4>1, <5>1
        <5>3. k.source = p.source
          BY <5>2 DEF KeyOf
        <5> QED BY <1>2, <2>2, <5>1, <5>2, <5>3 DEF StrictTransactions
      <4>5. ASSUME NEW c \in Repairs, Contain(c) PROVE FALSE
        BY <2>2, <3>2, <4>5 DEF Contain, Quarantine, NoRow
      <4>6. ASSUME NEW c \in Repairs, Derive(c) PROVE FALSE
        <5>1. k # KeyOf(curve[c].target, "derived")
          BY <2>2 DEF KeyOf
        <5> QED BY <3>2, <4>6, <5>1, <1>2 DEF Derive, InsertTokenPrices, Upsert, TypeOK
      <4>7. \/ \E r \in Requests : Persist(r)
            \/ \E w \in Warmups : PersistWarmupWrites(w)
            \/ \E f \in Finalizers : CommitBatch(f)
            \/ \E c \in Repairs : Contain(c) \/ Derive(c)
        BY <1>2, <3>2, OnlyWritersWrite
      <4> QED BY <4>2, <4>3, <4>4, <4>5, <4>6, <4>7
    <3> QED BY <3>1, <3>2
  <2> QED BY <2>1, <2>2 DEF DirectClosesAreCloses
<1> QED BY <1>1, <1>2, PriceInvariant, PTL DEF Spec

-----------------------------------------------------------------------------
(* A resolution is a price some writer of its target produces, so that it    *)
(* has a row; what a transaction found priced when it took the lock still    *)
(* is, or an observation of the target was rejected since.                   *)
TransactionsKnown ==
  \A f \in Finalizers :
    LET t == txn[f] IN
    /\ t.resolution # NoPrice => <<t.target.token, t.resolution.source>> \in Quoted
    /\ t.pc = "locked" /\ t.priced => Accounted(t.target) \/ \E k \in KeysOf(t.target) : k \in rejected

(* What counts as priced, in either sense, is accounted for.                 *)
LEMMA PricedIsAccounted ==
  ASSUME NEW g, NEW finalizedOnly \in BOOLEAN, Priced(g, finalizedOnly)
  PROVE  Accounted(g)
BY DEF Priced, Accounted, FinalKey, ServedKey, UnfinalizedKey

(* While no row changes only a rejection takes from what is accounted for.   *)
LEMMA AccountedStays ==
  ASSUME NEW g, UNCHANGED rows, Accounted(g)
  PROVE  Accounted(g)' \/ (\E k \in KeysOf(g) : k \in rejected')
<1>1. ASSUME NEW k \in KeysOf(g), FinalKey(k) \/ UnfinalizedKey(k)
      PROVE  Accounted(g)' \/ (\E j \in KeysOf(g) : j \in rejected')
  <2>1. CASE k \in rejected'
    BY <2>1
  <2>2. CASE k \notin rejected'
    <3>1. FinalKey(k)' \/ UnfinalizedKey(k)'
      BY <1>1, <2>2 DEF FinalKey, UnfinalizedKey, Stored, NotRejected
    <3> QED BY <3>1 DEF Accounted, Priced, KeysOf
  <2> QED BY <2>1, <2>2
<1> QED BY <1>1 DEF Accounted, Priced

LEMMA ResolutionsQuoted ==
  ASSUME TypeOK, NEW g, NEW finalizedOnly \in BOOLEAN, NEW p \in Resolutions(g, finalizedOnly),
         p # NoPrice
  PROVE  <<g.token, p.source>> \in Quoted
<1>1. ASSUME NEW S \in SUBSET KeysOf(g), S # {}
      PROVE  <<g.token, Preferred(S).source>> \in Quoted
  <2>1. S \in SUBSET Keys /\ RowsOK
    BY DEF KeysOf, TypeOK, RowsOK
  <2>2. PICK k \in S : Preferred(S) = [source |-> k.source, value |-> rows[k].value]
    BY <1>1, <2>1, PreferredIsStored, StoreAssumption
  <2>3. k.token = g.token /\ <<k.token, k.source>> \in Quoted
    BY <2>2 DEF KeysOf, Keys, TargetOf
  <2> QED BY <2>2, <2>3
<1> DEFINE root == StoredPrice(g, finalizedOnly)
<1>2. root # NoPrice => <<g.token, root.source>> \in Quoted
  <2>1. \A S \in SUBSET KeysOf(g) : Preferred(S) # NoPrice => <<g.token, Preferred(S).source>> \in Quoted
    <3>1. \A S : S = {} => Preferred(S) = NoPrice
      BY DEF Preferred
    <3> QED BY <1>1, <3>1
  <2> DEFINE final == {k \in KeysOf(g) : FinalKey(k)}
             served == {k \in KeysOf(g) : ServedKey(k)}
  <2>2. root = Preferred(final) \/ root = Preferred(served)
    BY DEF StoredPrice, Served
  <2>3. final \in SUBSET KeysOf(g) /\ served \in SUBSET KeysOf(g)
    OBVIOUS
  <2> HIDE DEF final, served, root
  <2> QED BY <2>1, <2>2, <2>3
<1>3. CASE root # NoPrice
  <2>1. p = root
    BY <1>3 DEF Resolutions
  <2> QED BY <1>2, <1>3, <2>1
<1>4. CASE root = NoPrice
  <2>1. ASSUME NEW z, <<g.token, z>> \in Quoted, NEW v, p = [source |-> z, value |-> v]
        PROVE  <<g.token, p.source>> \in Quoted
    BY <2>1
  <2>2. \E z, v : <<g.token, z>> \in Quoted /\ p = [source |-> z, value |-> v]
    BY <1>4 DEF Resolutions
  <2> QED BY <2>1, <2>2
<1> QED BY <1>3, <1>4

(* Whatever is not a step of a finalizer waits for the lock, or writes no    *)
(* row.                                                                      *)
LEMMA OthersKeepTransactions ==
  ASSUME TypeOK, PriceInv, TransactionsKnown, UNCHANGED <<lock, txn>>,
         rejected \subseteq rejected',
         UNCHANGED rows \/ \E x \in Requests \cup Warmups \cup Repairs : Unlocked(x)
  PROVE  TransactionsKnown'
<1>1. ASSUME NEW f \in Finalizers, txn[f].pc = "locked", txn[f].priced
      PROVE  Accounted(txn[f].target)' \/ (\E k \in KeysOf(txn[f].target) : k \in rejected')
  <2>1. lock = f
    BY <1>1 DEF PriceInv, LockIsHeld
  <2>2. UNCHANGED rows
    BY <2>1, FlowAssumption DEF Unlocked
  <2> DEFINE g == txn[f].target
  <2>3. Accounted(g) \/ \E k \in KeysOf(g) : k \in rejected
    BY <1>1 DEF TransactionsKnown
  <2>4. CASE Accounted(g)
    <3>1. PICK h : h = g
      OBVIOUS
    <3>2. Accounted(h)' \/ (\E k \in KeysOf(h) : k \in rejected')
      BY <2>2, <2>4, <3>1, AccountedStays
    <3> QED BY <3>1, <3>2 DEF Accounted
  <2> QED BY <2>3, <2>4
<1> QED BY <1>1 DEF TransactionsKnown, KeysOf

(* Another transaction leaves what this one knows alone: if this one holds   *)
(* the lock, the other one writes nothing.                                   *)
LEMMA FinalizerKeepsTransactions ==
  ASSUME TypeOK, PriceInv, TransactionsKnown, NEW f \in Finalizers, FinalizerStep(f)
  PROVE  TransactionsKnown'
<1>1. UNCHANGED rejected /\ (UNCHANGED rows \/ CommitBatch(f)) /\ txn \in [Finalizers -> TxnRecords]
  BY DEF FinalizerStep, Plan, ResolveGraph, AcquireLock, LockTimeout, CommitBatch, Abandon, storeVars, TypeOK
<1>2. ASSUME NEW h \in Finalizers, txn[h].pc = "locked", txn[h].priced, h # f
      PROVE  \A g : g = txn[h].target => Accounted(g)' \/ (\E k \in KeysOf(g) : k \in rejected')
  <2>1. lock = h
    BY <1>2 DEF PriceInv, LockIsHeld
  <2>2. ~CommitBatch(f)
    BY <1>2, <2>1 DEF CommitBatch, PriceInv, LockIsHeld
  <2>3. UNCHANGED rows
    BY <1>1, <2>2
  <2>4. ASSUME NEW g, g = txn[h].target
        PROVE  Accounted(g)' \/ (\E k \in KeysOf(g) : k \in rejected')
    <3>1. Accounted(g) \/ \E k \in KeysOf(g) : k \in rejected
      BY <1>2, <2>4 DEF TransactionsKnown
    <3> QED BY <1>1, <2>3, <3>1, AccountedStays
  <2> QED BY <2>4
<1>3. PICK next : /\ txn' = [txn EXCEPT ![f] = next]
                  /\ next.resolution # NoPrice => <<next.target.token, next.resolution.source>> \in Quoted
                  /\ next.pc = "locked" => /\ UNCHANGED <<rows, rejected>>
                                           /\ next.priced => Accounted(next.target)
  <2>1. NoTxn.resolution = NoPrice /\ NoTxn.pc = "idle"
    BY DEF NoTxn
  <2>2. txn[f] \in TxnRecords
    BY <1>1
  <2>3. txn[f].resolution # NoPrice => <<txn[f].target.token, txn[f].resolution.source>> \in Quoted
    BY DEF TransactionsKnown
  <2>4. CASE Plan(f)
    <3>1. PICK g \in Targets, strict \in Modes :
            txn' = [txn EXCEPT ![f] = [NoTxn EXCEPT !.pc = "planned", !.target = g, !.finalizedOnly = strict]]
      BY <2>4 DEF Plan
    <3>2. PICK next : next = [NoTxn EXCEPT !.pc = "planned", !.target = g, !.finalizedOnly = strict]
      OBVIOUS
    <3>3. next.pc = "planned" /\ next.resolution = NoPrice
      BY <3>2 DEF NoTxn
    <3> QED BY <3>1, <3>2, <3>3
  <2>5. CASE ResolveGraph(f)
    <3>1. PICK p \in Resolutions(txn[f].target, txn[f].finalizedOnly) :
            txn' = [txn EXCEPT ![f].pc = "resolved", ![f].resolution = p]
      BY <2>5 DEF ResolveGraph
    <3>2. p # NoPrice => <<txn[f].target.token, p.source>> \in Quoted
      BY <2>2, <3>1, ResolutionsQuoted DEF TxnRecords
    <3>3. PICK next : next = [txn[f] EXCEPT !.pc = "resolved", !.resolution = p]
      OBVIOUS
    <3>4. next.pc = "resolved" /\ next.resolution = p /\ next.target = txn[f].target
      BY <2>2, <3>3 DEF TxnRecords
    <3>5. txn' = [txn EXCEPT ![f] = next]
      BY <1>1, <3>1, <3>3
    <3> QED BY <3>2, <3>4, <3>5
  <2>6. CASE AcquireLock(f)
    <3>1. PICK priced \in BOOLEAN : priced = Priced(txn[f].target, txn[f].finalizedOnly)
      BY DEF Priced
    <3>2. PICK next : next = [txn[f] EXCEPT !.pc = "locked", !.priced = priced]
      OBVIOUS
    <3>3. next.priced = priced /\ next.target = txn[f].target /\ next.resolution = txn[f].resolution
      BY <2>2, <3>1, <3>2 DEF TxnRecords
    <3>4. txn' = [txn EXCEPT ![f] = next] /\ UNCHANGED <<rows, rejected>>
      BY <1>1, <2>6, <3>1, <3>2 DEF AcquireLock
    <3>5. txn[f].finalizedOnly \in BOOLEAN
      BY <2>2 DEF TxnRecords
    <3>6. priced => Accounted(txn[f].target)
      BY <3>1, <3>5, PricedIsAccounted
    <3> QED BY <2>3, <3>3, <3>4, <3>6
  <2>7. CASE LockTimeout(f)
    <3>1. CASE txn[f].retries = LockRetryLimit
      <4>1. txn' = [txn EXCEPT ![f] = NoTxn]
        BY <1>1, <2>7, <3>1 DEF LockTimeout
      <4> QED BY <2>1, <4>1
    <3>2. CASE txn[f].retries # LockRetryLimit
      <4>1. PICK next : next = [txn[f] EXCEPT !.retries = @ + 1]
        OBVIOUS
      <4>2. txn' = [txn EXCEPT ![f] = next]
        BY <1>1, <2>7, <3>2, <4>1 DEF LockTimeout
      <4>3. txn[f].pc = "resolved" /\ next.pc = txn[f].pc /\ next.target = txn[f].target
            /\ next.resolution = txn[f].resolution
        BY <2>2, <2>7, <4>1 DEF TxnRecords, LockTimeout
      <4> QED BY <2>3, <4>2, <4>3
    <3> QED BY <3>1, <3>2
  <2>8. CASE CommitBatch(f) \/ Abandon(f)
    <3>1. txn' = [txn EXCEPT ![f] = NoTxn]
      BY <2>8 DEF CommitBatch, Abandon
    <3> QED BY <2>1, <3>1
  <2> QED BY <2>4, <2>5, <2>6, <2>7, <2>8 DEF FinalizerStep
<1>4. txn'[f] = next /\ \A h \in Finalizers \ {f} : txn'[h] = txn[h]
  BY <1>1, <1>3
<1>5. ASSUME NEW h \in Finalizers
      PROVE  /\ txn'[h].resolution # NoPrice => <<txn'[h].target.token, txn'[h].resolution.source>> \in Quoted
             /\ txn'[h].pc = "locked" /\ txn'[h].priced =>
                  \A g : g = txn'[h].target => Accounted(g)' \/ (\E k \in KeysOf(g) : k \in rejected')
  <2>1. CASE h = f
    <3>1. ASSUME next.pc = "locked", next.priced, NEW g, g = next.target
          PROVE  Accounted(g)' \/ (\E k \in KeysOf(g) : k \in rejected')
      BY <1>3, <3>1, AccountedStays
    <3> QED BY <1>3, <1>4, <2>1, <3>1
  <2>2. CASE h # f
    <3>1. ASSUME txn[h].pc = "locked", txn[h].priced, NEW g, g = txn[h].target
          PROVE  Accounted(g)' \/ (\E k \in KeysOf(g) : k \in rejected')
      BY <1>2, <2>2, <3>1 DEF Accounted, Priced, FinalKey, UnfinalizedKey, Stored, NotRejected
    <3> QED BY <1>4, <2>2, <3>1 DEF TransactionsKnown
  <2> QED BY <2>1, <2>2
<1> QED BY <1>5 DEF TransactionsKnown, Accounted, Priced, FinalKey, UnfinalizedKey, Stored, NotRejected

LEMMA TransactionsStep ==
  ASSUME TypeOK, PriceInv, TransactionsKnown, [Next]_vars
  PROVE  TransactionsKnown'
<1>1. ASSUME NEW r \in Requests, RequestStep(r) PROVE TransactionsKnown'
  <2>1. UNCHANGED <<lock, txn, rejected>> /\ (UNCHANGED rows \/ Unlocked(r))
    BY <1>1 DEF RequestStep, ReadStored, Fetch, Guard, Persist, PersistFails, Respond, storeVars
  <2> QED BY <2>1, OthersKeepTransactions
<1>2. ASSUME NEW w \in Warmups, WarmupStep(w) PROVE TransactionsKnown'
  <2>1. UNCHANGED <<lock, txn, rejected>> /\ (UNCHANGED rows \/ Unlocked(w))
    BY <1>2 DEF WarmupStep, StartWarmup, LookForMissing, ReadUnderlyings, PersistWarmupWrites, LeaveGap,
                NextStage, WarmupDies, storeVars
  <2> QED BY <2>1, OthersKeepTransactions
<1>3. ASSUME NEW c \in Repairs, RepairStep(c) PROVE TransactionsKnown'
  <2>1. UNCHANGED <<lock, txn, rejected>> /\ (UNCHANGED rows \/ Unlocked(c))
    BY <1>3 DEF RepairStep, Contain, CheckExisting, Derive, storeVars
  <2> QED BY <2>1, OthersKeepTransactions
<1>4. CASE Midnight \/ (\E k \in Incidents : SeedRejection(k)) \/ UNCHANGED vars
  <2>1. UNCHANGED <<lock, txn, rows>> /\ rejected \subseteq rejected'
    BY <1>4 DEF Midnight, SeedRejection, flowVars, storeVars, vars
  <2> QED BY <2>1, OthersKeepTransactions
<1> QED BY <1>1, <1>2, <1>3, <1>4, FinalizerKeepsTransactions DEF Next

(* A transaction that settles its target has found it priced, writes a final *)
(* row of it, or has met one it may not replace.                             *)
LEMMA SettledIsAccounted ==
  ASSUME TypeOK, PriceInv, TransactionsKnown, NEW f \in Finalizers, CommitBatch(f), Settles(txn[f]),
         NEW g, g = txn[f].target
  PROVE  Accounted(g)' \/ RejectedMeanwhile(g)
<1>1. /\ txn[f] \in TxnRecords /\ txn[f].pc = "locked" /\ lock = f /\ rejected' = rejected
      /\ txn[f].finalizedOnly \in BOOLEAN
  BY DEF TypeOK, CommitBatch, PriceInv, LockIsHeld, TxnRecords
<1>2. CASE txn[f].priced
  <2>1. UNCHANGED rows
    BY <1>2 DEF CommitBatch
  <2>2. Accounted(g) \/ \E k \in KeysOf(g) : k \in rejected
    BY <1>1, <1>2 DEF TransactionsKnown
  <2> QED BY <1>1, <1>2, <2>1, <2>2, AccountedStays DEF RejectedMeanwhile
<1>3. CASE ~txn[f].priced /\ txn[f].resolution # NoPrice
  <2> DEFINE p == txn[f].resolution
  <2>1. PICK k : k = KeyOf(g, p.source)
    OBVIOUS
  <2>2. Upsert(k, p.value, TRUE) /\ p \in Prices /\ g \in Targets
    BY <1>1, <1>3, <2>1 DEF CommitBatch, TxnRecords
  <2>3. k \in KeysOf(g)
    <3>1. <<g.token, p.source>> \in Quoted
      BY <1>3 DEF TransactionsKnown
    <3>2. k.token = g.token /\ k.day = g.day /\ k.source = p.source /\ p.source \in Sources
      BY <2>1, <2>2 DEF KeyOf, Prices
    <3>3. k \in [token: Tokens, day: Days, source: Sources] /\ TargetOf(k) = g
      BY <2>1, <2>2, <3>2 DEF KeyOf, Targets, TargetOf
    <3> QED BY <3>1, <3>2, <3>3 DEF KeysOf, Keys
  <2>4. CASE NotRejected(k) /\ ~rows[k].final
    <3>1. rows'[k] = [value |-> p.value, final |-> TRUE] /\ p.value \in Values
      BY <2>2, <2>3, <2>4 DEF Upsert, NotRejected, KeysOf, TypeOK, Prices
    <3>2. rows'[k] # NoRow /\ rows'[k].final
      BY <3>1 DEF NoRow
    <3>3. FinalKey(k)'
      BY <1>1, <2>4, <3>2 DEF FinalKey, Stored, NotRejected
    <3> QED BY <2>3, <3>3 DEF Accounted, Priced, FinalKey, Stored, NotRejected
  <2>5. CASE ~(NotRejected(k) /\ ~rows[k].final)
    <3>1. UNCHANGED rows
      BY <2>2, <2>5 DEF Upsert, NotRejected, TypeOK
    <3>2. ~Inserts(txn[f])
      BY <2>1, <2>5 DEF Inserts
    <3>3. Priced(g, txn[f].finalizedOnly)
      BY <1>3, <3>2 DEF Settles
    <3>4. Accounted(g)
      BY <1>1, <3>3, PricedIsAccounted
    <3> QED BY <1>1, <3>1, <3>4 DEF Accounted, Priced, FinalKey, UnfinalizedKey, Stored, NotRejected
  <2> QED BY <2>4, <2>5
<1> QED BY <1>2, <1>3 DEF Settles, Inserts

(* A target leaves the inventory of gaps only for an accepted finalized      *)
(* price, for a provisional one that reconciliation discovers, or for one    *)
(* that was rejected after the transaction had found it.                     *)
THEOREM GapsTheorem == Spec => GapsNotLost
<1>1. Init => TransactionsKnown
  BY DEF Init, TransactionsKnown, NoTxn
<1>2. TypeOK /\ PriceInv /\ TransactionsKnown /\ [Next]_vars => TransactionsKnown'
  BY TransactionsStep
<1>3. ASSUME TypeOK, PriceInv, TransactionsKnown, [Next]_vars
      PROVE  [\A g \in inventory : g \notin inventory' => Accounted(g)' \/ RejectedMeanwhile(g)]_vars
  <2>1. SUFFICES ASSUME NEW g \in inventory, g \notin inventory'
                 PROVE  Accounted(g)' \/ RejectedMeanwhile(g)
    OBVIOUS
  <2>2. PICK f \in Finalizers : CommitBatch(f)
    <3>1. \A r \in Requests : RequestStep(r) => UNCHANGED inventory
      BY DEF RequestStep, ReadStored, Fetch, Guard, Persist, PersistFails, Respond
    <3>2. \A w \in Warmups : WarmupStep(w) => UNCHANGED inventory
      BY DEF WarmupStep, StartWarmup, LookForMissing, ReadUnderlyings, PersistWarmupWrites, LeaveGap,
             NextStage, WarmupDies
    <3>3. \A c \in Repairs : RepairStep(c) => UNCHANGED inventory
      BY DEF RepairStep, Contain, CheckExisting, Derive
    <3>4. \A f \in Finalizers : FinalizerStep(f) /\ ~CommitBatch(f) => UNCHANGED inventory
      BY DEF FinalizerStep, Plan, ResolveGraph, AcquireLock, LockTimeout, Abandon
    <3>5. Midnight \/ (\E k \in Incidents : SeedRejection(k)) \/ UNCHANGED vars => UNCHANGED inventory
      BY DEF Midnight, SeedRejection, flowVars, vars
    <3> QED BY <1>3, <2>1, <3>1, <3>2, <3>3, <3>4, <3>5 DEF Next
  <2>3. Settles(txn[f]) /\ g = txn[f].target
    BY <2>1, <2>2 DEF CommitBatch
  <2> QED BY <1>3, <2>2, <2>3, SettledIsAccounted
<1> QED BY <1>1, <1>2, <1>3, PriceInvariant, PTL DEF Spec, GapsNotLost

-----------------------------------------------------------------------------
(* Numbers *)

(* A set of natural numbers has a least member.                             *)
LEMMA LeastOf ==
  ASSUME NEW S \in SUBSET Nat, S # {}
  PROVE  \E i \in S : \A j \in S : i <= j
<1> DEFINE less == {pair \in Nat \X Nat : pair[1] < pair[2]}
<1>1. IsWellFoundedOn(less, Nat)
  BY NatLessThanWellFounded DEF OpToRel
<1> HIDE DEF less
<1>2. PICK i \in S : \A j \in S : ~(<<j, i>> \in less)
  BY <1>1, WFMin
<1>3. ASSUME NEW j \in S PROVE i <= j
  BY <1>2, <<j, i>> \in less <=> j < i DEF less
<1> QED BY <1>3

(* A set that holds 0, and the next number with every number below n, holds *)
(* the numbers up to n.                                                     *)
LEMMA Upwards ==
  ASSUME NEW n \in Nat, NEW S, 0 \in S, \A i \in 1..n : i - 1 \in S => i \in S
  PROVE  \A i \in 0..n : i \in S
<1> DEFINE out == {i \in 0..n : i \notin S}
<1>1. SUFFICES ASSUME out # {} PROVE FALSE
  OBVIOUS
<1>2. out \in SUBSET Nat
  OBVIOUS
<1>3. PICK i \in out : \A j \in out : i <= j
  BY <1>1, <1>2, LeastOf
<1>4. i \in 1..n /\ i - 1 \in 0..n
  BY <1>3
<1>5. i - 1 \in S
  BY <1>3, <1>4
<1> QED BY <1>3, <1>4, <1>5

-----------------------------------------------------------------------------
(* Sets in order *)

(* A relation that orders the members of a set, and a sequence of them.     *)
Orders(less, S) ==
  /\ \A x \in S : <<x, x>> \notin less
  /\ \A x, y, z \in S : <<x, y>> \in less /\ <<y, z>> \in less => <<x, z>> \in less
  /\ \A x, y \in S : <<x, y>> \in less \/ <<y, x>> \in less \/ x = y
Lists(q, S) ==
  /\ q \in Seq(S)
  /\ \A x \in S : \E i \in 1..Len(q) : q[i] = x
  /\ \A i, j \in 1..Len(q) : q[i] = q[j] => i = j
Ascends(q, less) == \A i, j \in 1..Len(q) : i < j => <<q[i], q[j]>> \in less

RankIn(less, S, x) == Cardinality({y \in S : <<y, x>> \in less})
RanksTell(less, S) ==
  /\ Cardinality(S) \in Nat
  /\ \A x \in S : RankIn(less, S, x) \in 0 .. Cardinality(S) - 1
  /\ \A x, z \in S : <<x, z>> \in less => RankIn(less, S, x) < RankIn(less, S, z)
  /\ \A k \in 0 .. Cardinality(S) - 1 : \E x \in S : RankIn(less, S, x) = k

(* The members of a finite set can be told by their rank.                   *)
LEMMA RanksIn ==
  ASSUME NEW S, IsFiniteSet(S), NEW less, Orders(less, S)
  PROVE  RanksTell(less, S)
<1> DEFINE below(x) == {y \in S : <<y, x>> \in less}
           n == Cardinality(S)
           rank == [x \in S |-> Cardinality(below(x))]
<1>1. n \in Nat
  BY FS_CardinalityType
<1>2. ASSUME NEW x \in S
      PROVE  IsFiniteSet(below(x)) /\ Cardinality(below(x)) \in Nat /\ Cardinality(below(x)) < n
  <2>1. below(x) \in SUBSET S /\ x \notin below(x)
    BY DEF Orders
  <2> HIDE DEF below
  <2>2. IsFiniteSet(below(x)) /\ Cardinality(below(x)) <= n /\ Cardinality(below(x)) # n
    BY <2>1, FS_Subset
  <2>3. Cardinality(below(x)) \in Nat
    BY <2>2, FS_CardinalityType
  <2> QED BY <1>1, <2>2, <2>3
<1>3. ASSUME NEW x \in S, NEW z \in S, <<x, z>> \in less PROVE Cardinality(below(x)) < Cardinality(below(z))
  <2>1. below(x) \cup {x} \in SUBSET below(z)
    BY <1>3 DEF Orders
  <2>2. x \notin below(x)
    BY DEF Orders
  <2> HIDE DEF below
  <2>3. Cardinality(below(x) \cup {x}) = Cardinality(below(x)) + 1
    BY <1>2, <2>2, FS_AddElement
  <2>4. Cardinality(below(x) \cup {x}) <= Cardinality(below(z))
    BY <1>2, <2>1, FS_Subset
  <2> QED BY <1>2, <2>3, <2>4
<1> HIDE DEF below
<1>4. ASSUME NEW x \in S, NEW z \in S, Cardinality(below(x)) = Cardinality(below(z)) PROVE x = z
  <2>1. Cardinality(below(x)) \in Nat /\ <<x, z>> \notin less /\ <<z, x>> \notin less
    BY <1>2, <1>3, <1>4
  <2> QED BY <2>1 DEF Orders
<1>5. \A x \in S : Cardinality(below(x)) \in 0 .. n - 1
  BY <1>1, <1>2
<1>6. rank \in Injection(S, 0 .. n - 1)
  BY <1>4, <1>5 DEF Injection, IsInjective
<1>7. IsFiniteSet(0 .. n - 1) /\ Cardinality(0 .. n - 1) = n
  <2>1. 0 \in Int /\ n - 1 \in Int
    BY <1>1
  <2>2. IsFiniteSet(0 .. n - 1) /\ Cardinality(0 .. n - 1) = IF 0 > n - 1 THEN 0 ELSE n - 1 - 0 + 1
    BY <2>1, FS_Interval
  <2> HIDE DEF n
  <2> QED BY <1>1, <2>2
<1>8. rank \in Surjection(S, 0 .. n - 1)
  BY <1>6, <1>7, FS_Injection
<1>9. \A k \in 0 .. n - 1 : \E x \in S : Cardinality(below(x)) = k
  BY <1>8 DEF Surjection
<1> QED BY <1>1, <1>3, <1>5, <1>9 DEF below, RanksTell, RankIn

(* A set in its order.                                                      *)
LEMMA InOrderLists ==
  ASSUME NEW S, IsFiniteSet(S), NEW less, Orders(less, S)
  PROVE  Lists(InOrder(S, less), S) /\ Ascends(InOrder(S, less), less)
<1> DEFINE n == Cardinality(S)
           rank == [x \in S |-> Cardinality({y \in S : <<y, x>> \in less})]
           q == [i \in 1..n |-> CHOOSE x \in S : rank[x] = i - 1]
<1>1. RanksTell(less, S)
  BY RanksIn
<1>2. n \in Nat
  BY <1>1 DEF RanksTell
<1>3. \A x \in S : rank[x] = RankIn(less, S, x)
  BY DEF RankIn
<1>4. \A x \in S : rank[x] \in 0 .. n - 1
  BY <1>1, <1>3 DEF RanksTell
<1>5. \A x, z \in S : <<x, z>> \in less => rank[x] < rank[z]
  BY <1>1, <1>3 DEF RanksTell
<1>6. \A k \in 0 .. n - 1 : \E x \in S : rank[x] = k
  BY <1>1, <1>3 DEF RanksTell
<1>7. InOrder(S, less) = q
  BY DEF InOrder
<1> HIDE DEF rank, n
<1>8. ASSUME NEW i \in 1..n PROVE q[i] \in S /\ rank[q[i]] = i - 1
  <2>1. i - 1 \in 0 .. n - 1
    BY <1>2
  <2>2. \E x \in S : rank[x] = i - 1
    BY <1>6, <2>1
  <2>3. q[i] = CHOOSE x \in S : rank[x] = i - 1
    OBVIOUS
  <2> QED BY <2>2, <2>3
<1>9. q \in [1..n -> S]
  BY <1>8
<1>10. q \in Seq(S) /\ Len(q) = n
  BY <1>2, <1>9, LenProperties, IsASeq
<1> HIDE DEF q
<1>11. ASSUME NEW x \in S, NEW z \in S, rank[x] = rank[z] PROVE x = z
  <2>1. rank[x] \in Int /\ <<x, z>> \notin less /\ <<z, x>> \notin less
    BY <1>2, <1>4, <1>5, <1>11
  <2> QED BY <2>1 DEF Orders
<1>12. ASSUME NEW x \in S PROVE \E i \in 1..Len(q) : q[i] = x
  <2>1. PICK i : i = rank[x] + 1
    OBVIOUS
  <2>2. i \in 1..n /\ rank[x] = i - 1
    BY <1>2, <1>4, <2>1
  <2> QED BY <1>8, <1>10, <1>11, <2>2
<1>13. ASSUME NEW i \in 1..Len(q), NEW j \in 1..Len(q), q[i] = q[j] PROVE i = j
  BY <1>2, <1>8, <1>10, <1>13
<1>14. ASSUME NEW i \in 1..Len(q), NEW j \in 1..Len(q), i < j PROVE <<q[i], q[j]>> \in less
  <2>1. q[i] \in S /\ q[j] \in S /\ rank[q[i]] = i - 1 /\ rank[q[j]] = j - 1 /\ i \in Int /\ j \in Int
    BY <1>2, <1>8, <1>10
  <2>2. <<q[j], q[i]>> \notin less /\ q[i] # q[j]
    BY <1>5, <1>14, <2>1
  <2> QED BY <2>1, <2>2 DEF Orders
<1> QED BY <1>7, <1>10, <1>12, <1>13, <1>14 DEF Lists, Ascends

-----------------------------------------------------------------------------
(* Chunks of timestamps *)

(* Two timestamps with none between them that begins a new chunk.           *)
SameRun(times, t, u) == u \in Run(times, t) \/ t \in Run(times, u)

LEMMA RunsTell ==
  ASSUME BatchesAssumption, NEW times \in SUBSET Nat
  PROVE  /\ \A t \in times : SameRun(times, t, t)
         /\ \A t, u \in times : SameRun(times, t, u) => SameRun(times, u, t)
         /\ \A t, u, v \in times : SameRun(times, t, u) /\ SameRun(times, u, v) => SameRun(times, t, v)
         /\ \A t, u \in times : SameRun(times, t, u) /\ t < u => u - t >= Width
         /\ \A t, u \in times : SameRun(times, t, u) /\ t < u => Run(times, t) \subseteq Run(times, u) \ {u}
<1> DEFINE begins(v) == TooClose(times, v)
<1>1. ASSUME NEW t \in times, NEW u \in times
      PROVE  SameRun(times, t, u) <=>
               \A v \in times : begins(v) => ~(t < v /\ v <= u) /\ ~(u < v /\ v <= t)
  <2>1. SameRun(times, t, u) <=> \/ u <= t /\ \A v \in times : u < v /\ v <= t => ~begins(v)
                                 \/ t <= u /\ \A v \in times : t < v /\ v <= u => ~begins(v)
    BY DEF SameRun, Run
  <2> HIDE DEF begins
  <2>2. t \in Nat /\ u \in Nat /\ \A v \in times : v \in Nat
    OBVIOUS
  <2> QED BY <2>1, <2>2
<1>2. ASSUME NEW t \in times, NEW u \in times, SameRun(times, t, u), t < u PROVE u - t >= Width
  <2>1. t \in Nat /\ u \in Nat /\ Width \in Nat
    BY DEF BatchesAssumption
  <2>2. ~begins(u)
    <3> HIDE DEF begins
    <3> QED BY <1>1, <1>2, <2>1
  <2> QED BY <1>2, <2>1, <2>2 DEF TooClose
<1> HIDE DEF begins
<1>3. ASSUME NEW t \in times, NEW u \in times, NEW v \in times, SameRun(times, t, u), SameRun(times, u, v)
      PROVE  SameRun(times, t, v)
  <2>1. t \in Nat /\ u \in Nat /\ v \in Nat /\ \A w \in times : w \in Nat
    OBVIOUS
  <2> QED BY <1>1, <1>3, <2>1
<1>4. ASSUME NEW t \in times, NEW u \in times, SameRun(times, t, u), t < u
      PROVE  Run(times, t) \subseteq Run(times, u) \ {u}
  <2>1. t \in Nat /\ u \in Nat /\ \A w \in times : w \in Nat
    OBVIOUS
  <2>2. ASSUME NEW w \in Run(times, t) PROVE w \in Run(times, u) \ {u}
    <3>1. w \in times /\ w <= t
      BY <2>2 DEF Run
    <3>2. SameRun(times, w, t)
      BY <2>2 DEF SameRun
    <3>3. SameRun(times, w, u)
      BY <1>3, <1>4, <3>1, <3>2
    <3>4. \A v \in times : w < v /\ v <= u => ~begins(v)
      BY <1>1, <2>1, <3>1, <3>3
    <3>5. w \in Run(times, u)
      BY <1>4, <2>1, <3>1, <3>4 DEF Run, begins
    <3> QED BY <1>4, <2>1, <3>1, <3>5
  <2> QED BY <2>2
<1>5. \A t \in times : SameRun(times, t, t)
  <2>1. \A t \in times : t \in Nat /\ ~(t < t)
    OBVIOUS
  <2> QED BY <1>1, <2>1
<1>6. \A t, u \in times : SameRun(times, t, u) => SameRun(times, u, t)
  BY DEF SameRun
<1> QED BY <1>2, <1>3, <1>4, <1>5, <1>6

(* How many windows of a size fit below a number.                           *)
LEMMA Division ==
  ASSUME NEW b \in Nat \ {0}, NEW p \in Nat
  PROVE  p \div b \in Int /\ b * (p \div b) <= p /\ p < b * (p \div b) + b
OBVIOUS

(* The chunks part the timestamps: a chunk is full at TimestampBatch, and   *)
(* its timestamps are at least Width apart.                                 *)
LEMMA ChunksPart ==
  ASSUME BatchesAssumption, NEW times \in SUBSET Nat, IsFiniteSet(times), NEW t \in times
  PROVE  /\ t \in ChunkWith(times, t) /\ ChunkWith(times, t) \subseteq times
         /\ \A u \in ChunkWith(times, t) : ChunkWith(times, u) = ChunkWith(times, t)
         /\ \A u, v \in ChunkWith(times, t) : u < v => v - u >= Width
         /\ IsFiniteSet(ChunkWith(times, t)) /\ Cardinality(ChunkWith(times, t)) <= TimestampBatch
<1> DEFINE S == ChunkWith(times, t)
           full(u) == FullBefore(times, u)
<1>1. \A u, v \in times : v \in ChunkWith(times, u) <=> SameRun(times, u, v) /\ full(v) = full(u)
  BY DEF ChunkWith, SameRun
<1>2. \A u \in times : ChunkWith(times, u) \subseteq times
  BY DEF ChunkWith
<1>3. t \in S /\ S \subseteq times
  BY <1>1, <1>2, RunsTell
<1>4. \A u, v \in S : SameRun(times, u, v) /\ full(u) = full(v)
  <2>1. \A u \in S : u \in times /\ SameRun(times, t, u) /\ full(u) = full(t)
    BY <1>1, <1>2
  <2> HIDE DEF full
  <2>2. \A u \in S : SameRun(times, u, t)
    BY <2>1, RunsTell
  <2> QED BY <2>1, <2>2, RunsTell
<1>5. ASSUME NEW u \in S PROVE ChunkWith(times, u) = S
  <2>1. u \in times /\ SameRun(times, t, u) /\ SameRun(times, u, t) /\ full(u) = full(t)
    BY <1>3, <1>4
  <2> HIDE DEF full
  <2>2. ASSUME NEW v \in times PROVE v \in ChunkWith(times, u) <=> v \in S
    <3>1. SameRun(times, u, v) <=> SameRun(times, t, v)
      BY <2>1, RunsTell
    <3> QED BY <1>1, <2>1, <3>1
  <2> QED BY <1>2, <1>3, <2>1, <2>2
<1>6. \A u, v \in S : u < v => v - u >= Width
  BY <1>3, <1>4, RunsTell
<1>7. IsFiniteSet(S)
  BY <1>3, FS_Subset
<1> DEFINE place(u) == Cardinality(Run(times, u)) - 1
<1>8. ASSUME NEW u \in times
      PROVE  IsFiniteSet(Run(times, u)) /\ Cardinality(Run(times, u)) \in Nat /\ place(u) \in Nat
  <2>1. Run(times, u) \subseteq times
    BY DEF Run
  <2>2. u \in Run(times, u)
    BY RunsTell DEF SameRun
  <2>3. IsFiniteSet(Run(times, u)) /\ Cardinality(Run(times, u)) \in Nat
    BY <2>1, FS_Subset, FS_CardinalityType
  <2>4. Cardinality(Run(times, u)) # 0
    BY <2>2, <2>3, FS_EmptySet
  <2> QED BY <2>3, <2>4
<1>9. ASSUME NEW u \in S, NEW v \in S, u < v PROVE place(u) < place(v)
  <2>1. u \in times /\ v \in times /\ Run(times, u) \subseteq Run(times, v) \ {v}
    BY <1>3, <1>4, <1>9, RunsTell
  <2>2. v \in Run(times, v)
    BY <2>1, RunsTell DEF SameRun
  <2>3. Cardinality(Run(times, v) \ {v}) = Cardinality(Run(times, v)) - 1 /\ IsFiniteSet(Run(times, v) \ {v})
    BY <1>8, <2>1, <2>2, FS_RemoveElement
  <2>4. Cardinality(Run(times, u)) <= Cardinality(Run(times, v) \ {v})
    BY <2>1, <2>3, FS_Subset
  <2> QED BY <1>8, <2>1, <2>3, <2>4
<1>10. \A u \in times : full(u) = place(u) \div TimestampBatch
  BY DEF FullBefore
<1>11. PICK b : b = TimestampBatch
  OBVIOUS
<1>12. b \in Nat \ {0}
  BY <1>11 DEF BatchesAssumption
<1> HIDE DEF place
<1>13. PICK low : low = b * (place(t) \div b)
  OBVIOUS
<1>14. low \in Int
  BY <1>8, <1>12, <1>13, Division
<1>15. \A u \in S : place(u) \in low .. low + b - 1
  <2>1. ASSUME NEW u \in S PROVE place(u) \in low .. low + b - 1
    <3>1. place(u) \in Nat /\ place(t) \in Nat /\ place(u) \div b = place(t) \div b
      BY <1>3, <1>4, <1>8, <1>10, <1>11
    <3>2. low <= place(u) /\ place(u) < low + b
      BY <1>12, <1>13, <3>1, Division
    <3> QED BY <1>12, <1>14, <3>1, <3>2
  <2> QED BY <2>1
<1> DEFINE f == [u \in S |-> place(u)]
<1>16. f \in Injection(S, low .. low + b - 1)
  <2>1. f \in [S -> low .. low + b - 1]
    BY <1>15
  <2>2. ASSUME NEW u \in S, NEW v \in S, place(u) = place(v) PROVE u = v
    <3>1. u \in Nat /\ v \in Nat /\ place(u) \in Nat
      BY <1>3, <1>8
    <3>2. ~(u < v) /\ ~(v < u)
      BY <1>9, <2>2, <3>1
    <3> QED BY <3>1, <3>2
  <2> QED BY <2>1, <2>2 DEF Injection, IsInjective
<1>17. IsFiniteSet(low .. low + b - 1) /\ Cardinality(low .. low + b - 1) = b
  <2>1. PICK high : high = low + b - 1
    OBVIOUS
  <2>2. high \in Int /\ ~(low > high) /\ high - low + 1 = b
    BY <1>12, <1>14, <2>1
  <2> QED BY <1>14, <2>1, <2>2, FS_Interval
<1>18. Cardinality(S) <= b
  BY <1>16, <1>17, FS_Injection
<1> QED BY <1>3, <1>5, <1>6, <1>7, <1>11, <1>18

(* Coins and requests, and what a chunk is: a few timestamps of a coin, at  *)
(* least Width apart.                                                       *)
Coin == {k.coin : k \in LookupKey}
Request == UNION {[C -> SUBSET Nat] : C \in SUBSET Coin}
Spaced(times) ==
  /\ times \in SUBSET Nat /\ IsFiniteSet(times) /\ Cardinality(times) <= TimestampBatch
  /\ \A t, u \in times : t < u => u - t >= Width
IsChunk(c) == c = [coin |-> c.coin, times |-> c.times] /\ c.coin \in Coin /\ Spaced(c.times) /\ c.times # {}

ChunksTell(keys) ==
  /\ IsFiniteSet(Chunks(keys))
  /\ \A c \in Chunks(keys) : IsChunk(c) /\ \E k \in ToSet(keys) : k.coin = c.coin
  /\ \A c \in Chunks(keys) : \A t \in c.times : \E k \in ToSet(keys) : k.coin = c.coin /\ requested[k] = t
  /\ \A k \in ToSet(keys) : \E c \in Chunks(keys) : c.coin = k.coin /\ requested[k] \in c.times
  /\ \A c, d \in Chunks(keys) : c.coin = d.coin /\ c.times \cap d.times # {} => c = d

(* A finite set has a finite image.                                         *)
LEMMA ImageOf ==
  ASSUME NEW S, IsFiniteSet(S), NEW f
  PROVE  IsFiniteSet({f[x] : x \in S}) /\ Cardinality({f[x] : x \in S}) <= Cardinality(S)
<1> DEFINE T == {f[x] : x \in S}
           g == [x \in S |-> f[x]]
<1>1. g \in Surjection(S, T)
  BY DEF Surjection
<1> QED BY <1>1, FS_Surjection

(* The members of a sequence are finitely many.                             *)
LEMMA MembersOf ==
  ASSUME NEW S, NEW keys \in Seq(S)
  PROVE  /\ ToSet(keys) = {keys[i] : i \in 1..Len(keys)} /\ ToSet(keys) \subseteq S
         /\ IsFiniteSet(ToSet(keys)) /\ Len(keys) \in Nat /\ DOMAIN keys = 1..Len(keys)
<1>1. Len(keys) \in Nat /\ DOMAIN keys = 1..Len(keys) /\ \A i \in 1..Len(keys) : keys[i] \in S
  BY LenProperties, ElementOfSeq
<1>2. ToSet(keys) = {keys[i] : i \in 1..Len(keys)}
  BY <1>1 DEF ToSet
<1>3. IsFiniteSet(1..Len(keys))
  BY <1>1, FS_Interval
<1>4. IsFiniteSet({keys[i] : i \in 1..Len(keys)})
  BY <1>3, ImageOf
<1> QED BY <1>1, <1>2, <1>4

(* The chunks of the keys part the timestamps of every coin.                *)
LEMMA ChunksOfKeys ==
  ASSUME BatchesAssumption, NEW keys \in Seq(LookupKey), requested \in [LookupKey -> Nat]
  PROVE  ChunksTell(keys)
<1> DEFINE K == ToSet(keys)
           times(coin) == TimesOf(keys, coin)
           chunk(k) == [coin |-> k.coin, times |-> ChunkWith(times(k.coin), requested[k])]
<1>1. K \subseteq LookupKey /\ IsFiniteSet(K)
  BY MembersOf
<1>2. ASSUME NEW coin PROVE times(coin) \in SUBSET Nat /\ IsFiniteSet(times(coin))
  <2> DEFINE own == {k \in K : k.coin = coin}
  <2>1. own \subseteq K /\ times(coin) = {requested[k] : k \in own}
    BY DEF TimesOf
  <2> HIDE DEF own, times
  <2>2. IsFiniteSet(own)
    BY <1>1, <2>1, FS_Subset
  <2>3. IsFiniteSet(times(coin))
    BY <2>1, <2>2, ImageOf
  <2> QED BY <1>1, <2>1, <2>3
<1>3. Chunks(keys) = {chunk(k) : k \in K}
  BY DEF Chunks
<1>4. \A k \in K : requested[k] \in times(k.coin)
  BY DEF TimesOf
<1>5. \A coin : \A t \in times(coin) : \E k \in K : k.coin = coin /\ requested[k] = t
  BY DEF TimesOf
<1>6. IsFiniteSet(Chunks(keys))
  <2> DEFINE f == [k \in K |-> chunk(k)]
  <2>1. IsFiniteSet({f[k] : k \in K})
    BY <1>1, ImageOf
  <2>2. \A k \in K : f[k] = chunk(k)
    OBVIOUS
  <2> HIDE DEF f
  <2>3. {f[k] : k \in K} = {chunk(k) : k \in K}
    BY <2>2
  <2> QED BY <1>3, <2>1, <2>3
<1> HIDE DEF K, times
<1>7. ASSUME NEW k \in K PROVE IsChunk(chunk(k)) /\ requested[k] \in chunk(k).times
  <2>1. k \in LookupKey /\ k.coin \in Coin
    BY <1>1 DEF Coin
  <2>2. PICK all : all = times(k.coin)
    OBVIOUS
  <2>3. PICK some : some = ChunkWith(all, requested[k])
    OBVIOUS
  <2>4. all \in SUBSET Nat /\ IsFiniteSet(all) /\ requested[k] \in all
    BY <1>2, <1>4, <2>2
  <2>5. /\ requested[k] \in some /\ some \subseteq all
        /\ \A u, v \in some : u < v => v - u >= Width
        /\ IsFiniteSet(some) /\ Cardinality(some) <= TimestampBatch
    BY <2>3, <2>4, ChunksPart
  <2>6. Spaced(some) /\ some # {}
    BY <2>4, <2>5 DEF Spaced
  <2>7. chunk(k) = [coin |-> k.coin, times |-> some]
    BY <2>2, <2>3
  <2> QED BY <2>1, <2>5, <2>6, <2>7 DEF IsChunk
<1>13. ASSUME NEW k \in K, NEW t \in chunk(k).times PROVE \E j \in K : j.coin = k.coin /\ requested[j] = t
  <2>1. PICK all : all = times(k.coin)
    OBVIOUS
  <2>2. all \in SUBSET Nat /\ IsFiniteSet(all) /\ requested[k] \in all
    BY <1>2, <1>4, <2>1
  <2>3. t \in ChunkWith(all, requested[k])
    BY <1>13, <2>1
  <2>4. t \in times(k.coin)
    BY <2>1, <2>2, <2>3, ChunksPart
  <2> QED BY <1>5, <2>4
<1>8. ASSUME NEW k \in K, NEW j \in K, k.coin = j.coin, NEW t \in chunk(k).times, t \in chunk(j).times
      PROVE  chunk(k) = chunk(j)
  <2>1. PICK all : all = times(k.coin)
    OBVIOUS
  <2>2. all \in SUBSET Nat /\ IsFiniteSet(all) /\ requested[k] \in all /\ requested[j] \in all
    BY <1>2, <1>4, <1>8, <2>1
  <2>3. t \in ChunkWith(all, requested[k]) /\ t \in ChunkWith(all, requested[j])
    BY <1>8, <2>1
  <2>4. ChunkWith(all, t) = ChunkWith(all, requested[k])
    BY <2>2, <2>3, ChunksPart
  <2>5. ChunkWith(all, t) = ChunkWith(all, requested[j])
    BY <2>2, <2>3, ChunksPart
  <2> QED BY <1>8, <2>1, <2>4, <2>5
<1>9. \A k \in K : chunk(k).coin = k.coin
  OBVIOUS
<1> HIDE DEF chunk
<1>10. \A c \in Chunks(keys) : IsChunk(c) /\ \E k \in K : k.coin = c.coin
  BY <1>3, <1>7, <1>9
<1>11. \A k \in K : \E c \in Chunks(keys) : c.coin = k.coin /\ requested[k] \in c.times
  BY <1>3, <1>7, <1>9
<1>12. \A c, d \in Chunks(keys) : c.coin = d.coin /\ c.times \cap d.times # {} => c = d
  <2>1. ASSUME NEW c \in Chunks(keys), NEW d \in Chunks(keys), c.coin = d.coin, c.times \cap d.times # {} PROVE c = d
    <3>1. PICK k \in K, j \in K : c = chunk(k) /\ d = chunk(j)
      BY <1>3
    <3>2. PICK t : t \in c.times /\ t \in d.times
      BY <2>1
    <3> QED BY <1>8, <1>9, <2>1, <3>1, <3>2
  <2> QED BY <2>1
<1>14. \A c \in Chunks(keys) : \A t \in c.times : \E k \in K : k.coin = c.coin /\ requested[k] = t
  <2>1. ASSUME NEW c \in Chunks(keys), NEW t \in c.times PROVE \E k \in K : k.coin = c.coin /\ requested[k] = t
    <3>1. PICK k \in K : c = chunk(k)
      BY <1>3
    <3> QED BY <1>9, <1>13, <3>1
  <2> QED BY <2>1
<1> QED BY <1>6, <1>10, <1>11, <1>12, <1>14 DEF ChunksTell, K

(* The chunks have an order.                                                *)
LEMMA ChunksOrdered ==
  ASSUME BatchesAssumption, NEW keys \in Seq(LookupKey), requested \in [LookupKey -> Nat]
  PROVE  Orders(ChunkOrder(keys), Chunks(keys))
<1> DEFINE C == Chunks(keys)
           first(c) == FirstMention(keys, c.coin)
           leads(c, d) == \E t \in c.times : \A u \in d.times : t < u
<1>1. ChunksTell(keys)
  BY ChunksOfKeys
<1>2. ASSUME NEW c \in C PROVE first(c) \in DOMAIN keys /\ first(c) \in Nat /\ keys[first(c)].coin = c.coin
  <2>1. Len(keys) \in Nat /\ DOMAIN keys = 1..Len(keys) /\ ToSet(keys) = {keys[i] : i \in 1..Len(keys)}
    BY MembersOf
  <2>2. PICK k \in ToSet(keys) : k.coin = c.coin
    BY <1>1 DEF ChunksTell
  <2> DEFINE at == {i \in DOMAIN keys : keys[i].coin = c.coin}
  <2>3. at \in SUBSET Nat /\ at # {}
    BY <2>1, <2>2
  <2>4. PICK i \in at : \A j \in at : i <= j
    BY <2>3, LeastOf
  <2>5. \E n \in DOMAIN keys : keys[n].coin = c.coin /\ \A j \in DOMAIN keys : keys[j].coin = c.coin => n <= j
    BY <2>4
  <2> QED BY <2>1, <2>5 DEF FirstMention
<1>3. \A c, d \in C : c.coin = d.coin => first(c) = first(d)
  OBVIOUS
<1>4. \A c, d \in C : <<c, d>> \in ChunkOrder(keys) <=> first(c) < first(d) \/ (c.coin = d.coin /\ leads(c, d))
  BY DEF ChunkOrder
<1> HIDE DEF first
<1>5. \A c, d \in C : first(c) = first(d) => c.coin = d.coin
  BY <1>2
<1>6. \A c \in C : c.times \in SUBSET Nat /\ c.times # {}
  BY <1>1 DEF ChunksTell, IsChunk, Spaced
<1>7. ASSUME NEW c \in C PROVE <<c, c>> \notin ChunkOrder(keys)
  BY <1>2, <1>4, <1>6
<1>8. ASSUME NEW c \in C, NEW d \in C, leads(c, d) PROVE ~leads(d, c)
  BY <1>6, <1>8
<1>9. ASSUME NEW c \in C, NEW d \in C, NEW e \in C, leads(c, d), leads(d, e) PROVE leads(c, e)
  <2>1. PICK t \in c.times : \A u \in d.times : t < u
    BY <1>9
  <2>2. PICK u \in d.times : \A v \in e.times : u < v
    BY <1>9
  <2>3. \A v \in e.times : t \in Nat /\ u \in Nat /\ v \in Nat /\ t < u /\ u < v
    BY <1>6, <2>1, <2>2
  <2> QED BY <2>3
<1>10. ASSUME NEW c \in C, NEW d \in C, c.coin = d.coin, c # d PROVE leads(c, d) \/ leads(d, c)
  <2>1. c.times \cap d.times = {}
    BY <1>1, <1>10 DEF ChunksTell
  <2>2. PICK t \in c.times : \A v \in c.times : t <= v
    BY <1>6, LeastOf
  <2>3. PICK u \in d.times : \A v \in d.times : u <= v
    BY <1>6, LeastOf
  <2>4. t \in Nat /\ u \in Nat /\ t # u
    BY <1>6, <2>1
  <2>5. CASE t < u
    <3>1. \A v \in d.times : v \in Nat /\ t < v
      BY <1>6, <2>3, <2>4, <2>5
    <3> QED BY <3>1
  <2>6. CASE u < t
    <3>1. \A v \in c.times : v \in Nat /\ u < v
      BY <1>6, <2>2, <2>4, <2>6
    <3> QED BY <3>1
  <2> QED BY <2>4, <2>5, <2>6
<1> HIDE DEF leads
<1>11. ASSUME NEW c \in C, NEW d \in C, NEW e \in C, <<c, d>> \in ChunkOrder(keys), <<d, e>> \in ChunkOrder(keys)
       PROVE  <<c, e>> \in ChunkOrder(keys)
  <2>1. first(c) \in Nat /\ first(d) \in Nat /\ first(e) \in Nat
    BY <1>2
  <2>2. first(c) < first(d) \/ (c.coin = d.coin /\ first(c) = first(d) /\ leads(c, d))
    BY <1>3, <1>4, <1>11
  <2>3. first(d) < first(e) \/ (d.coin = e.coin /\ first(d) = first(e) /\ leads(d, e))
    BY <1>3, <1>4, <1>11
  <2>4. first(c) < first(e) \/ (c.coin = e.coin /\ leads(c, e))
    BY <1>9, <2>1, <2>2, <2>3
  <2> QED BY <1>4, <2>4
<1>12. ASSUME NEW c \in C, NEW d \in C PROVE <<c, d>> \in ChunkOrder(keys) \/ <<d, c>> \in ChunkOrder(keys) \/ c = d
  <2>1. first(c) \in Nat /\ first(d) \in Nat
    BY <1>2
  <2>2. CASE c.coin = d.coin
    BY <1>4, <1>10, <2>2
  <2>3. CASE c.coin # d.coin
    <3>1. first(c) < first(d) \/ first(d) < first(c)
      BY <1>5, <2>1, <2>3
    <3> QED BY <1>4, <3>1
  <2> QED BY <2>2, <2>3
<1> QED BY <1>7, <1>11, <1>12 DEF Orders

-----------------------------------------------------------------------------
(* Requests *)

Carries(requests, i, d) == d.coin \in DOMAIN requests[i] /\ requests[i][d.coin] = d.times

(* The requests hold every chunk of a set in one place, and nothing else.   *)
Holding(requests, D) ==
  /\ requests \in Seq(Request)
  /\ \A i \in 1..Len(requests) : IsFiniteSet(DOMAIN requests[i]) /\ Cardinality(DOMAIN requests[i]) <= TokenBatch
  /\ \A i \in 1..Len(requests) : \A c \in DOMAIN requests[i] : [coin |-> c, times |-> requests[i][c]] \in D
  /\ \A d \in D : \E i \in 1..Len(requests) : Carries(requests, i, d)
  /\ \A d \in D : \A i, j \in 1..Len(requests) : Carries(requests, i, d) /\ Carries(requests, j, d) => i = j

(* A request with one coin more than another one.                           *)
With(old, d) == [c \in DOMAIN old \cup {d.coin} |-> IF c = d.coin THEN d.times ELSE old[c]]

LEMMA RequestIs ==
  ASSUME NEW C \in SUBSET Coin, NEW r \in [C -> SUBSET Nat] PROVE r \in Request
BY DEF Request

LEMMA RequestHas ==
  ASSUME NEW r \in Request
  PROVE  DOMAIN r \subseteq Coin /\ r \in [DOMAIN r -> SUBSET Nat] /\ \A c \in DOMAIN r : r[c] \in SUBSET Nat
BY DEF Request

LEMMA WithIs ==
  ASSUME NEW old \in Request, NEW d, IsChunk(d)
  PROVE  With(old, d) \in Request /\ DOMAIN With(old, d) = DOMAIN old \cup {d.coin}
<1>1. DOMAIN old \subseteq Coin /\ \A c \in DOMAIN old : old[c] \in SUBSET Nat
  BY RequestHas
<1>2. d.coin \in Coin /\ d.times \in SUBSET Nat
  BY DEF IsChunk, Spaced
<1>3. DOMAIN old \cup {d.coin} \in SUBSET Coin
  BY <1>1, <1>2
<1>4. With(old, d) \in [DOMAIN old \cup {d.coin} -> SUBSET Nat]
  BY <1>1, <1>2 DEF With
<1> QED BY <1>3, <1>4, RequestIs

(* A chunk goes to one request that had room for it and not its coin, or to *)
(* a new one.                                                               *)
PlacedInto(requests, d, more, m, old) ==
  /\ more \in Seq(Request) /\ Len(requests) <= Len(more) /\ m \in 1..Len(more)
  /\ \A j \in 1..Len(more) : j # m => j \in 1..Len(requests) /\ more[j] = requests[j]
  /\ more[m] = With(old, d) /\ d.coin \notin DOMAIN old
  /\ IsFiniteSet(DOMAIN old) /\ Cardinality(DOMAIN old) < TokenBatch
  /\ DOMAIN old # {} => m \in 1..Len(requests) /\ old = requests[m]
  /\ m \in 1..Len(requests) => old = requests[m]

LEMMA PlacedSomewhere ==
  ASSUME BatchesAssumption, NEW requests, NEW D, Holding(requests, D), NEW d, IsChunk(d)
  PROVE  \E m, old : PlacedInto(requests, d, Placed(requests, d), m, old)
<1> DEFINE fits == {i \in DOMAIN requests : Cardinality(DOMAIN requests[i]) < TokenBatch
                                              /\ d.coin \notin DOMAIN requests[i]}
<1>1. requests \in Seq(Request)
  BY DEF Holding
<1>2. PICK n : n = Len(requests)
  OBVIOUS
<1>3. n \in Nat /\ DOMAIN requests = 1..n /\ \A i \in 1..n : requests[i] \in Request
  BY <1>1, <1>2, LenProperties, ElementOfSeq
<1>4. CASE fits = {}
  <2> DEFINE old == <<>>
             fresh == [c \in {d.coin} |-> d.times]
  <2>1. DOMAIN old = {}
    OBVIOUS
  <2>2. IsFiniteSet(DOMAIN old) /\ Cardinality(DOMAIN old) < TokenBatch
    BY <2>1, FS_EmptySet DEF BatchesAssumption
  <2>3. old \in [{} -> SUBSET Nat]
    OBVIOUS
  <2>4. old \in Request
    BY <2>3, RequestIs
  <2>5. fresh = With(old, d)
    BY <2>1 DEF With
  <2>6. fresh \in Request
    BY <2>4, <2>5, WithIs
  <2>7. Placed(requests, d) = Append(requests, fresh)
    BY <1>4 DEF Placed
  <2> HIDE DEF old, fresh
  <2>8. PICK more : more = Append(requests, fresh)
    OBVIOUS
  <2>9. more \in Seq(Request) /\ Len(more) = n + 1 /\ more[n + 1] = fresh /\ \A j \in 1..n : more[j] = requests[j]
    BY <1>1, <1>2, <2>6, <2>8, AppendProperties
  <2>10. \A j \in 1..n + 1 : j # n + 1 => j \in 1..n
    BY <1>3
  <2>11. n + 1 \in 1..n + 1 /\ n + 1 \notin 1..n /\ n <= n + 1
    BY <1>3
  <2>12. PlacedInto(requests, d, more, n + 1, old)
    BY <1>2, <2>1, <2>2, <2>5, <2>9, <2>10, <2>11 DEF PlacedInto
  <2> QED BY <2>7, <2>8, <2>12
<1>5. CASE fits # {}
  <2>1. fits \in SUBSET Nat
    BY <1>3
  <2>2. \E i \in fits : \A j \in fits : i <= j
    BY <1>5, <2>1, LeastOf
  <2>3. PICK i : i = CHOOSE x \in fits : \A j \in fits : x <= j
    OBVIOUS
  <2>4. i \in fits
    BY <2>2, <2>3
  <2>5. i \in 1..n /\ Cardinality(DOMAIN requests[i]) < TokenBatch /\ d.coin \notin DOMAIN requests[i]
    BY <1>3, <2>4
  <2>6. Placed(requests, d) = [requests EXCEPT ![i] = With(requests[i], d)]
    BY <1>5, <2>3 DEF Placed, With
  <2>7. PICK r : r = With(requests[i], d)
    OBVIOUS
  <2>8. r \in Request
    BY <1>3, <2>5, <2>7, WithIs
  <2>9. PICK more : more = [requests EXCEPT ![i] = r]
    OBVIOUS
  <2>10. more \in Seq(Request) /\ Len(more) = n /\ more[i] = r /\ \A j \in 1..n : j # i => more[j] = requests[j]
    <3>1. more \in Seq(Request) /\ Len(more) = n
      BY <1>1, <1>2, <2>8, <2>9, <2>5, <1>3, ExceptSeq
    <3> QED BY <1>3, <2>5, <2>9, <3>1
  <2>11. IsFiniteSet(DOMAIN requests[i])
    BY <1>2, <2>5 DEF Holding
  <2>12. PlacedInto(requests, d, more, i, requests[i])
    BY <1>2, <1>3, <2>5, <2>7, <2>10, <2>11 DEF PlacedInto
  <2> QED BY <2>6, <2>7, <2>9, <2>12
<1> QED BY <1>4, <1>5

(* One more chunk is placed.                                                *)
LEMMA PlacedHolds ==
  ASSUME BatchesAssumption, NEW requests, NEW D, Holding(requests, D), \A e \in D : IsChunk(e),
         NEW d, IsChunk(d), d \notin D
  PROVE  Holding(Placed(requests, d), D \cup {d})
<1>1. PICK more : more = Placed(requests, d)
  OBVIOUS
<1>2. PICK m, old : PlacedInto(requests, d, more, m, old)
  BY <1>1, PlacedSomewhere
<1>3. PICK n, l : n = Len(requests) /\ l = Len(more)
  OBVIOUS
<1>4. more[m] = With(old, d) /\ d.coin \notin DOMAIN old /\ m \in 1..l /\ more \in Seq(Request)
  BY <1>2, <1>3 DEF PlacedInto
<1>5. \A j \in 1..l : j # m => j \in 1..n /\ more[j] = requests[j]
  BY <1>2, <1>3 DEF PlacedInto
<1>6. n \in Nat /\ l \in Nat /\ n <= l /\ requests \in Seq(Request)
  <2>1. requests \in Seq(Request) /\ n <= l
    BY <1>2, <1>3 DEF PlacedInto, Holding
  <2> QED BY <1>3, <1>4, <2>1, LenProperties
<1>7. \A c \in DOMAIN old : m \in 1..n /\ old = requests[m]
  BY <1>2, <1>3 DEF PlacedInto
<1>8. m \in 1..n => old = requests[m]
  BY <1>2, <1>3 DEF PlacedInto
<1>9. DOMAIN more[m] = DOMAIN old \cup {d.coin} /\ more[m][d.coin] = d.times
      /\ \A c \in DOMAIN old : c # d.coin /\ more[m][c] = old[c]
  BY <1>4 DEF With
<1>10. \A i \in 1..n : i \in 1..l
  BY <1>6
<1>11. ASSUME NEW i \in 1..l PROVE IsFiniteSet(DOMAIN more[i]) /\ Cardinality(DOMAIN more[i]) <= TokenBatch
  <2>1. CASE i # m
    BY <1>3, <1>5, <2>1 DEF Holding
  <2>2. CASE i = m
    <3>1. IsFiniteSet(DOMAIN old) /\ Cardinality(DOMAIN old) < TokenBatch
      BY <1>2 DEF PlacedInto
    <3>2. IsFiniteSet(DOMAIN more[m]) /\ Cardinality(DOMAIN more[m]) = Cardinality(DOMAIN old) + 1
      <4>1. PICK S, c : S = DOMAIN old /\ c = d.coin
        OBVIOUS
      <4>2. IsFiniteSet(S) /\ c \notin S
        BY <1>4, <3>1, <4>1
      <4>3. IsFiniteSet(S \cup {c}) /\ Cardinality(S \cup {c}) = Cardinality(S) + 1
        BY <4>2, FS_AddElement
      <4>4. DOMAIN more[m] = S \cup {c}
        BY <1>9, <4>1
      <4> QED BY <4>1, <4>3, <4>4
    <3>3. Cardinality(DOMAIN old) \in Nat /\ TokenBatch \in Nat
      BY <3>1, FS_CardinalityType DEF BatchesAssumption
    <3> QED BY <2>2, <3>1, <3>2, <3>3
  <2> QED BY <2>1, <2>2
<1>12. d = [coin |-> d.coin, times |-> d.times]
  BY DEF IsChunk
<1>13. ASSUME NEW i \in 1..l, NEW c \in DOMAIN more[i] PROVE [coin |-> c, times |-> more[i][c]] \in D \cup {d}
  <2>1. CASE i # m
    BY <1>3, <1>5, <2>1 DEF Holding
  <2>2. CASE i = m /\ c = d.coin
    BY <1>9, <1>12, <2>2
  <2>3. CASE i = m /\ c # d.coin
    BY <1>3, <1>7, <1>9, <2>3 DEF Holding
  <2> QED BY <2>1, <2>2, <2>3
<1>14. ASSUME NEW e \in D, NEW i \in 1..n, Carries(requests, i, e) PROVE Carries(more, i, e)
  <2>1. CASE i # m
    BY <1>5, <1>10, <1>14, <2>1 DEF Carries
  <2>2. CASE i = m
    BY <1>8, <1>9, <1>14, <2>2 DEF Carries
  <2> QED BY <2>1, <2>2
<1>15. ASSUME NEW e \in D, NEW i \in 1..l, Carries(more, i, e) PROVE i \in 1..n /\ Carries(requests, i, e)
  <2>1. CASE i # m
    BY <1>5, <1>15, <2>1 DEF Carries
  <2>2. CASE i = m
    <3>1. e.coin \in DOMAIN old
      <4>1. SUFFICES ASSUME e.coin = d.coin PROVE FALSE
        BY <1>9, <1>15, <2>2 DEF Carries
      <4>2. e.times = d.times /\ e = [coin |-> e.coin, times |-> e.times]
        BY <1>9, <1>15, <2>2, <4>1 DEF Carries, IsChunk
      <4> QED BY <1>12, <4>1, <4>2
    <3> QED BY <1>7, <1>9, <1>15, <2>2, <3>1 DEF Carries
  <2> QED BY <2>1, <2>2
<1>16. ASSUME NEW i \in 1..l, Carries(more, i, d) PROVE i = m
  <2>1. SUFFICES ASSUME i # m PROVE FALSE
    OBVIOUS
  <2>2. i \in 1..n /\ d.coin \in DOMAIN requests[i] /\ requests[i][d.coin] = d.times
    BY <1>5, <1>16, <2>1 DEF Carries
  <2> QED BY <1>3, <1>12, <2>2 DEF Holding
<1>17. Carries(more, m, d)
  BY <1>9 DEF Carries
<1>18. ASSUME NEW e \in D \cup {d} PROVE \E i \in 1..l : Carries(more, i, e)
  <2>1. CASE e = d
    BY <1>4, <1>17, <2>1
  <2>2. CASE e \in D
    <3>1. PICK i \in 1..n : Carries(requests, i, e)
      BY <1>3, <2>2 DEF Holding
    <3> QED BY <1>10, <1>14, <2>2, <3>1
  <2> QED BY <2>1, <2>2
<1>19. ASSUME NEW e \in D \cup {d}, NEW i \in 1..l, NEW j \in 1..l, Carries(more, i, e), Carries(more, j, e) PROVE i = j
  <2>1. CASE e = d
    BY <1>16, <1>19, <2>1
  <2>2. CASE e \in D
    BY <1>3, <1>15, <1>19, <2>2 DEF Holding
  <2> QED BY <2>1, <2>2
<1>20. Holding(more, D \cup {d})
  BY <1>3, <1>4, <1>11, <1>13, <1>18, <1>19 DEF Holding
<1> QED BY <1>1, <1>20

(* The requests for the keys are built chunk by chunk.                      *)
Built(keys, q, g) ==
  /\ Lists(q, Chunks(keys)) /\ g[0] = <<>> /\ \A i \in 1..Len(q) : g[i] = Placed(g[i - 1], q[i])
  /\ Payloads(keys) = g[Len(q)]

LEMMA PayloadsBuilt ==
  ASSUME BatchesAssumption, NEW keys \in Seq(LookupKey), requested \in [LookupKey -> Nat]
  PROVE  \E q, g : Built(keys, q, g)
<1>1. PICK q : q = InOrder(Chunks(keys), ChunkOrder(keys))
  OBVIOUS
<1>2. Lists(q, Chunks(keys))
  <2>1. IsFiniteSet(Chunks(keys))
    BY ChunksOfKeys DEF ChunksTell
  <2>2. Orders(ChunkOrder(keys), Chunks(keys))
    BY ChunksOrdered
  <2> QED BY <1>1, <2>1, <2>2, InOrderLists
<1>3. PICK n : n = Len(q)
  OBVIOUS
<1>4. n \in Nat
  BY <1>2, <1>3, LenProperties DEF Lists
<1> DEFINE After(prev, i) == CHOOSE next \in {Placed(acc, q[i]) : acc \in {prev}} : TRUE
           Is(g, m) == g = [i \in 0..m |-> IF i = 0 THEN <<>> ELSE After(g[i - 1], i)]
           S == {m \in Nat : \E g : Is(g, m)}
<1>5. Payloads(keys) = LET after == CHOOSE g : Is(g, n) IN after[n]
  BY <1>1, <1>3 DEF Payloads, Loop
<1>6. \A prev, i : After(prev, i) = Placed(prev, q[i])
  OBVIOUS
<1> HIDE DEF After
<1>7. 0 \in S
  <2> DEFINE g == [i \in 0..0 |-> <<>>]
  <2>1. \A i \in 0..0 : i = 0
    OBVIOUS
  <2>2. Is(g, 0)
    BY <2>1
  <2> QED BY <2>2
<1>8. ASSUME NEW m \in 1..n, m - 1 \in S PROVE m \in S
  <2>1. PICK f : Is(f, m - 1)
    BY <1>8
  <2> DEFINE g == [i \in 0..m |-> IF i = m THEN After(f[m - 1], m) ELSE f[i]]
  <2>2. m \in Nat /\ m # 0 /\ m - 1 \in 0..m /\ m - 1 # m
    BY <1>4
  <2>3. \A i \in 0..m : i # m => i \in 0..m - 1
    BY <2>2
  <2>4. \A i \in 0..m - 1 : f[i] = IF i = 0 THEN <<>> ELSE After(f[i - 1], i)
    BY <2>1
  <2>5. ASSUME NEW i \in 0..m PROVE g[i] = IF i = 0 THEN <<>> ELSE After(g[i - 1], i)
    <3>1. CASE i = m
      <4>1. g[m - 1] = f[m - 1]
        BY <2>2
      <4> QED BY <2>2, <3>1, <4>1
    <3>2. CASE i # m /\ i # 0
      <4>1. i - 1 \in 0..m /\ i - 1 # m
        BY <2>2, <3>2
      <4>2. g[i - 1] = f[i - 1] /\ g[i] = f[i]
        BY <3>2, <4>1
      <4> QED BY <2>3, <2>4, <3>2, <4>2
    <3>3. CASE i # m /\ i = 0
      BY <2>3, <2>4, <3>3
    <3> QED BY <3>1, <3>2, <3>3
  <2>6. g = [i \in 0..m |-> g[i]]
    OBVIOUS
  <2> HIDE DEF g
  <2>7. Is(g, m)
    BY <2>5, <2>6
  <2> QED BY <2>2, <2>7
<1> HIDE DEF S
<1>9. \A m \in 0..n : m \in S
  BY <1>4, <1>7, <1>8, Upwards
<1>10. \E g : Is(g, n)
  <2>1. n \in 0..n
    BY <1>4
  <2>2. n \in S
    BY <1>9, <2>1
  <2> HIDE DEF Is
  <2> QED BY <2>2 DEF S
<1> HIDE DEF Is
<1>11. PICK g : g = CHOOSE h : Is(h, n)
  OBVIOUS
<1>12. Is(g, n)
  BY <1>10, <1>11
<1>13. \A i \in 0..n : g[i] = IF i = 0 THEN <<>> ELSE After(g[i - 1], i)
  BY <1>12 DEF Is
<1>14. Payloads(keys) = g[n]
  BY <1>5, <1>11
<1>15. g[0] = <<>> /\ \A i \in 1..n : g[i] = Placed(g[i - 1], q[i])
  <2>1. 0 \in 0..n
    BY <1>4
  <2>2. g[0] = <<>>
    BY <1>13, <2>1
  <2>3. ASSUME NEW i \in 1..n PROVE g[i] = Placed(g[i - 1], q[i])
    <3>1. i \in 0..n /\ i # 0
      BY <1>4, <2>3
    <3>2. g[i] = After(g[i - 1], i)
      BY <1>13, <3>1
    <3> QED BY <1>6, <3>2
  <2> QED BY <2>2, <2>3
<1>16. Built(keys, q, g)
  BY <1>2, <1>3, <1>14, <1>15 DEF Built
<1> QED BY <1>16

(* The requests for the keys are packed, and a key is in exactly one.       *)
Asks(requests, i, k) == k.coin \in DOMAIN requests[i] /\ requested[k] \in requests[i][k.coin]
AsksFor(requests, i, keys) ==
  \A c \in DOMAIN requests[i] :
    Spaced(requests[i][c]) /\ \A t \in requests[i][c] : \E k \in keys : k.coin = c /\ requested[k] = t
LEMMA PayloadsCarry ==
  ASSUME BatchesAssumption, NEW keys \in Seq(LookupKey), requested \in [LookupKey -> Nat]
  PROVE  /\ Payloads(keys) \in Seq(Request)
         /\ \A i \in 1..Len(Payloads(keys)) : Packed(Payloads(keys)[i]) /\ AsksFor(Payloads(keys), i, ToSet(keys))
         /\ \A k \in ToSet(keys) : \E i \in 1..Len(Payloads(keys)) : Asks(Payloads(keys), i, k)
         /\ \A k \in ToSet(keys) : \A i, j \in 1..Len(Payloads(keys)) :
              Asks(Payloads(keys), i, k) /\ Asks(Payloads(keys), j, k) => i = j
<1> DEFINE C == Chunks(keys)
<1>1. PICK q, g : Built(keys, q, g)
  BY PayloadsBuilt
<1>2. ChunksTell(keys)
  BY ChunksOfKeys
<1>3. Lists(q, C) /\ q \in Seq(C)
  BY <1>1 DEF Built, Lists
<1>4. PICK n : n = Len(q)
  OBVIOUS
<1>5. n \in Nat /\ \A i \in 1..n : q[i] \in C
  BY <1>3, <1>4, LenProperties, ElementOfSeq
<1> DEFINE placed(i) == {q[h] : h \in 1..i}
           S == {i \in 0..n : Holding(g[i], placed(i))}
<1>6. g[0] = <<>> /\ \A i \in 1..n : g[i] = Placed(g[i - 1], q[i])
  BY <1>1, <1>4 DEF Built
<1>7. 0 \in S
  <2>1. placed(0) = {}
    OBVIOUS
  <2>2. <<>> \in Seq(Request) /\ Len(<<>>) = 0
    BY EmptySeq
  <2>3. Holding(<<>>, {})
    BY <2>2 DEF Holding
  <2>4. Holding(g[0], placed(0))
    BY <1>6, <2>1, <2>3
  <2> HIDE DEF placed
  <2>5. 0 \in 0..n
    BY <1>5
  <2> QED BY <2>4, <2>5
<1>8. ASSUME NEW i \in 1..n, i - 1 \in S PROVE i \in S
  <2>1. i - 1 \in Nat /\ i \in 0..n /\ i \in Nat
    BY <1>5
  <2>2. placed(i) = placed(i - 1) \cup {q[i]}
    <3>1. \A h \in 1..i : h \in 1..i - 1 \/ h = i
      BY <2>1
    <3>2. \A h \in 1..i - 1 : h \in 1..i
      BY <2>1
    <3>3. i \in 1..i
      BY <2>1
    <3> QED BY <3>1, <3>2, <3>3
  <2>3. q[i] \notin placed(i - 1)
    <3>1. \A h \in 1..i - 1 : h \in 1..n /\ h # i
      BY <1>5, <2>1
    <3> QED BY <1>3, <1>4, <3>1 DEF Lists
  <2>4. \A c \in C : IsChunk(c)
    BY <1>2 DEF ChunksTell
  <2>5. \A c \in placed(i - 1) : c \in C
    <3>1. \A h \in 1..i - 1 : h \in 1..n
      BY <1>5, <2>1
    <3> QED BY <1>5, <3>1
  <2>6. Holding(g[i - 1], placed(i - 1))
    BY <1>8
  <2> HIDE DEF placed, C
  <2>7. IsChunk(q[i]) /\ \A c \in placed(i - 1) : IsChunk(c)
    BY <1>5, <2>4, <2>5
  <2>8. Holding(Placed(g[i - 1], q[i]), placed(i - 1) \cup {q[i]})
    BY <2>3, <2>6, <2>7, PlacedHolds
  <2> QED BY <1>6, <2>1, <2>2, <2>8
<1> HIDE DEF S
<1>9. n \in S
  <2>1. \A i \in 0..n : i \in S
    BY <1>5, <1>7, <1>8, Upwards
  <2> QED BY <1>5, <2>1
<1>10. placed(n) = C
  BY <1>3, <1>4, <1>5 DEF Lists
<1>11. PICK R : R = Payloads(keys)
  OBVIOUS
<1>12. Holding(R, C)
  BY <1>1, <1>4, <1>9, <1>10, <1>11 DEF S, Built
<1> HIDE DEF placed, C
<1>13. \A c \in C : IsChunk(c) /\ \E k \in ToSet(keys) : k.coin = c.coin
  BY <1>2 DEF ChunksTell, C
<1>14. \A k \in ToSet(keys) : \E c \in C : c.coin = k.coin /\ requested[k] \in c.times
  BY <1>2 DEF ChunksTell, C
<1>15. \A c, d \in C : c.coin = d.coin /\ c.times \cap d.times # {} => c = d
  BY <1>2 DEF ChunksTell, C
<1>16. ASSUME NEW i \in 1..Len(R), NEW c \in DOMAIN R[i]
       PROVE  [coin |-> c, times |-> R[i][c]] \in C /\ Spaced(R[i][c])
  <2>1. [coin |-> c, times |-> R[i][c]] \in C
    BY <1>12 DEF Holding
  <2> QED BY <1>13, <2>1 DEF IsChunk
<1>17. \A i \in 1..Len(R) : Packed(R[i])
  BY <1>12, <1>16 DEF Packed, Holding, Spaced
<1>21. \A c \in C : \A t \in c.times : \E k \in ToSet(keys) : k.coin = c.coin /\ requested[k] = t
  BY <1>2 DEF ChunksTell, C
<1>22. \A i \in 1..Len(R) : AsksFor(R, i, ToSet(keys))
  <2>1. ASSUME NEW i \in 1..Len(R), NEW c \in DOMAIN R[i], NEW t \in R[i][c]
        PROVE  \E k \in ToSet(keys) : k.coin = c /\ requested[k] = t
    <3>1. PICK d : d = [coin |-> c, times |-> R[i][c]]
      OBVIOUS
    <3>2. d \in C /\ d.coin = c /\ t \in d.times
      BY <1>16, <2>1, <3>1
    <3> QED BY <1>21, <3>2
  <2>2. ASSUME NEW i \in 1..Len(R) PROVE AsksFor(R, i, ToSet(keys))
    <3>1. \A c \in DOMAIN R[i] : Spaced(R[i][c])
      BY <1>16
    <3> QED BY <2>1, <3>1 DEF AsksFor
  <2> QED BY <2>2
<1>18. ASSUME NEW k \in ToSet(keys) PROVE \E i \in 1..Len(R) : Asks(R, i, k)
  <2>1. PICK c \in C : c.coin = k.coin /\ requested[k] \in c.times
    BY <1>14
  <2>2. PICK i \in 1..Len(R) : Carries(R, i, c)
    BY <1>12 DEF Holding
  <2> QED BY <2>1, <2>2 DEF Carries, Asks
<1>19. ASSUME NEW k \in ToSet(keys), NEW i \in 1..Len(R), NEW j \in 1..Len(R), Asks(R, i, k), Asks(R, j, k) PROVE i = j
  <2>1. PICK c, d : c = [coin |-> k.coin, times |-> R[i][k.coin]] /\ d = [coin |-> k.coin, times |-> R[j][k.coin]]
    OBVIOUS
  <2>2. c \in C /\ d \in C
    BY <1>16, <1>19, <2>1 DEF Asks
  <2>3. c.coin = k.coin /\ d.coin = k.coin /\ c.times = R[i][k.coin] /\ d.times = R[j][k.coin]
    BY <2>1
  <2>4. c = d
    BY <1>15, <1>19, <2>2, <2>3 DEF Asks
  <2>5. Carries(R, i, c) /\ Carries(R, j, c)
    BY <1>19, <2>3, <2>4 DEF Carries, Asks
  <2> QED BY <1>12, <2>2, <2>5 DEF Holding
<1>20. R \in Seq(Request)
  BY <1>12 DEF Holding
<1> QED BY <1>11, <1>17, <1>18, <1>19, <1>20, <1>22

-----------------------------------------------------------------------------
(* Observations for times *)

Clash(m, p) == m.time = p.time \/ m.index = p.index
IsPair(p, times, samples) ==
  /\ p = [time |-> p.time, index |-> p.index, delta |-> Distance(samples[p.index].timestamp, p.time)]
  /\ p.time \in times /\ p.index \in DOMAIN samples
(* A matching: pairs no two of which share a time or an observation.        *)
Matching(M, times, samples) ==
  /\ \A m \in M : IsPair(m, times, samples)
  /\ \A m, o \in M : Clash(m, o) => m = o

LEMMA PairKnown ==
  ASSUME NEW times \in SUBSET Nat, NEW samples \in Seq(Sample), NEW p, IsPair(p, times, samples)
  PROVE  /\ p.time \in Nat /\ p.index \in Nat /\ p.delta \in Nat
         /\ samples[p.index] \in Sample /\ p.delta = Distance(samples[p.index].timestamp, p.time)
<1>1. p.time \in Nat /\ p.index \in 1..Len(samples) /\ Len(samples) \in Nat
  BY LenProperties DEF IsPair
<1>2. samples[p.index] \in Sample
  BY <1>1, ElementOfSeq
<1>3. PICK d : d = Distance(samples[p.index].timestamp, p.time)
  OBVIOUS
<1>4. p.delta = d
  BY <1>3 DEF IsPair
<1>5. d \in Nat
  BY <1>1, <1>2, <1>3 DEF Distance, Sample
<1> QED BY <1>1, <1>2, <1>3, <1>4, <1>5

LEMMA SamePair ==
  ASSUME NEW times, NEW samples, NEW p, NEW o, IsPair(p, times, samples), IsPair(o, times, samples),
         p.time = o.time, p.index = o.index
  PROVE  p = o
BY DEF IsPair

(* The pairs are finitely many, and have an order.                          *)
LEMMA PairsOrdered ==
  ASSUME NEW times \in SUBSET Nat, IsFiniteSet(times), NEW samples \in Seq(Sample), NEW matched, NEW reach \in Nat
  PROVE  /\ IsFiniteSet(Pairs(times, samples, matched, reach))
         /\ Orders(NearestFirst(Pairs(times, samples, matched, reach)), Pairs(times, samples, matched, reach))
         /\ \A p : p \in Pairs(times, samples, matched, reach) <=>
              IsPair(p, times, samples) /\ p.delta <= reach /\ \A m \in matched : ~Clash(m, p)
<1> DEFINE P == Pairs(times, samples, matched, reach)
           Pair(t, i) == [time |-> t, index |-> i, delta |-> Distance(samples[i].timestamp, t)]
           all == {Pair(t, i) : t \in times, i \in DOMAIN samples}
<1>1. P = {p \in all : p.delta <= reach /\ \A m \in matched : m.time # p.time /\ m.index # p.index}
  BY DEF Pairs
<1>2. \A p : p \in all <=> IsPair(p, times, samples)
  <2>1. ASSUME NEW p, IsPair(p, times, samples) PROVE p \in all
    <3>1. p = Pair(p.time, p.index) /\ p.time \in times /\ p.index \in DOMAIN samples
      BY <2>1 DEF IsPair
    <3> QED BY <3>1
  <2>2. ASSUME NEW p \in all PROVE IsPair(p, times, samples)
    BY DEF IsPair
  <2> QED BY <2>1, <2>2
<1>3. IsFiniteSet(all)
  <2>1. PICK D : D = DOMAIN samples
    OBVIOUS
  <2> DEFINE f == [x \in times \X D |-> Pair(x[1], x[2])]
  <2>2. IsFiniteSet(D)
    BY <2>1, FS_Interval, LenProperties
  <2>3. IsFiniteSet(times \X D)
    BY <2>2, FS_Product
  <2>4. \A t \in times, i \in D : <<t, i>> \in times \X D /\ f[<<t, i>>] = Pair(t, i)
    OBVIOUS
  <2>5. \A p \in all : \E x \in times \X D : p = f[x]
    <3>1. ASSUME NEW p \in all PROVE \E x \in times \X D : p = f[x]
      <4>1. PICK t \in times, i \in D : p = Pair(t, i)
        <5> HIDE DEF Pair
        <5> QED BY <2>1, <3>1 DEF all
      <4> HIDE DEF f, Pair
      <4>2. <<t, i>> \in times \X D /\ p = f[<<t, i>>]
        BY <2>4, <4>1
      <4> WITNESS <<t, i>> \in times \X D
      <4> QED BY <4>2
    <3> HIDE DEF f, all
    <3> QED BY <3>1
  <2> HIDE DEF f, all
  <2>6. IsFiniteSet({f[x] : x \in times \X D})
    BY <2>3, ImageOf
  <2>7. all \subseteq {f[x] : x \in times \X D}
    BY <2>5
  <2> QED BY <2>6, <2>7, FS_Subset
<1> HIDE DEF all
<1>4. IsFiniteSet(P)
  BY <1>1, <1>3, FS_Subset, P \subseteq all
<1>5. \A p : p \in P <=> IsPair(p, times, samples) /\ p.delta <= reach /\ \A m \in matched : ~Clash(m, p)
  BY <1>1, <1>2 DEF Clash
<1> HIDE DEF P
<1>6. \A p \in P : p.time \in Nat /\ p.index \in Nat /\ p.delta \in Nat
  BY <1>5, PairKnown
<1>7. \A p, o \in P : <<p, o>> \in NearestFirst(P) <=> Before(p, o)
  BY DEF NearestFirst
<1>8. \A p \in P : ~Before(p, p)
  BY <1>6 DEF Before
<1>9. \A p, o, r \in P : Before(p, o) /\ Before(o, r) => Before(p, r)
  BY <1>6 DEF Before
<1>10. ASSUME NEW p \in P, NEW o \in P, ~Before(p, o), ~Before(o, p) PROVE p = o
  <2>1. p.time = o.time /\ p.index = o.index
    BY <1>6, <1>10 DEF Before
  <2> QED BY <1>5, <2>1, SamePair
<1>11. Orders(NearestFirst(P), P)
  BY <1>7, <1>8, <1>9, <1>10 DEF Orders
<1> QED BY <1>4, <1>5, <1>11 DEF P

(* The pairs are taken in that order.                                       *)
Taken(matched, P, q, g, M) ==
  /\ Lists(q, P) /\ Ascends(q, NearestFirst(P))
  /\ g[0] = matched /\ \A i \in 1..Len(q) : g[i] = Assigned(g[i - 1], q[i])
  /\ M = g[Len(q)]

LEMMA PairsTaken ==
  ASSUME NEW times \in SUBSET Nat, IsFiniteSet(times), NEW samples \in Seq(Sample), NEW matched, NEW reach \in Nat
  PROVE  \E q, g : Taken(matched, Pairs(times, samples, matched, reach), q, g, AssignNearest(times, samples, matched, reach))
<1>1. PICK P : P = Pairs(times, samples, matched, reach)
  OBVIOUS
<1>2. PICK q : q = InOrder(P, NearestFirst(P))
  OBVIOUS
<1>3. Lists(q, P) /\ Ascends(q, NearestFirst(P))
  <2>1. IsFiniteSet(P) /\ Orders(NearestFirst(P), P)
    BY <1>1, PairsOrdered
  <2> QED BY <1>2, <2>1, InOrderLists
<1>4. PICK n : n = Len(q)
  OBVIOUS
<1>5. n \in Nat
  BY <1>3, <1>4, LenProperties DEF Lists
<1> DEFINE After(prev, i) == CHOOSE next \in {Assigned(acc, q[i]) : acc \in {prev}} : TRUE
           Is(g, m) == g = [i \in 0..m |-> IF i = 0 THEN matched ELSE After(g[i - 1], i)]
           S == {m \in Nat : \E g : Is(g, m)}
           M == AssignNearest(times, samples, matched, reach)
<1>6. M = LET after == CHOOSE g : Is(g, n) IN after[n]
  BY <1>1, <1>2, <1>4 DEF AssignNearest, Loop
<1> HIDE DEF M
<1>7. \A prev, i : After(prev, i) = Assigned(prev, q[i])
  OBVIOUS
<1> HIDE DEF After
<1>8. 0 \in S
  <2> DEFINE g == [i \in 0..0 |-> matched]
  <2>1. \A i \in 0..0 : i = 0
    OBVIOUS
  <2>2. Is(g, 0)
    BY <2>1
  <2> QED BY <2>2
<1>9. ASSUME NEW m \in 1..n, m - 1 \in S PROVE m \in S
  <2>1. PICK f : Is(f, m - 1)
    BY <1>9
  <2> DEFINE g == [i \in 0..m |-> IF i = m THEN After(f[m - 1], m) ELSE f[i]]
  <2>2. m \in Nat /\ m # 0 /\ m - 1 \in 0..m /\ m - 1 # m
    BY <1>5
  <2>3. \A i \in 0..m : i # m => i \in 0..m - 1
    BY <2>2
  <2>4. \A i \in 0..m - 1 : f[i] = IF i = 0 THEN matched ELSE After(f[i - 1], i)
    BY <2>1
  <2>5. ASSUME NEW i \in 0..m PROVE g[i] = IF i = 0 THEN matched ELSE After(g[i - 1], i)
    <3>1. CASE i = m
      <4>1. g[m - 1] = f[m - 1]
        BY <2>2
      <4> QED BY <2>2, <3>1, <4>1
    <3>2. CASE i # m /\ i # 0
      <4>1. i - 1 \in 0..m /\ i - 1 # m
        BY <2>2, <3>2
      <4>2. g[i - 1] = f[i - 1] /\ g[i] = f[i]
        BY <3>2, <4>1
      <4> QED BY <2>3, <2>4, <3>2, <4>2
    <3>3. CASE i # m /\ i = 0
      BY <2>3, <2>4, <3>3
    <3> QED BY <3>1, <3>2, <3>3
  <2>6. g = [i \in 0..m |-> g[i]]
    OBVIOUS
  <2> HIDE DEF g
  <2>7. Is(g, m)
    BY <2>5, <2>6
  <2> QED BY <2>2, <2>7
<1> HIDE DEF S
<1>10. \A m \in 0..n : m \in S
  BY <1>5, <1>8, <1>9, Upwards
<1>11. \E g : Is(g, n)
  <2>1. n \in 0..n
    BY <1>5
  <2>2. n \in S
    BY <1>10, <2>1
  <2> HIDE DEF Is
  <2> QED BY <2>2 DEF S
<1> HIDE DEF Is
<1>12. PICK g : g = CHOOSE h : Is(h, n)
  OBVIOUS
<1>13. Is(g, n)
  BY <1>11, <1>12
<1>14. \A i \in 0..n : g[i] = IF i = 0 THEN matched ELSE After(g[i - 1], i)
  BY <1>13 DEF Is
<1>15. M = g[n]
  BY <1>6, <1>12
<1>16. g[0] = matched /\ \A i \in 1..n : g[i] = Assigned(g[i - 1], q[i])
  BY <1>5, <1>7, <1>14
<1>17. Taken(matched, P, q, g, M)
  BY <1>3, <1>4, <1>15, <1>16 DEF Taken
<1> QED BY <1>1, <1>17 DEF M

(* A pass keeps what was matched, and lets a pair go only for one that is   *)
(* not farther.                                                             *)
PassTells(matched, M, times, samples, reach) ==
  /\ matched \subseteq M /\ Matching(M, times, samples)
  /\ \A m \in M \ matched : m.delta <= reach
  /\ \A p : IsPair(p, times, samples) /\ p.delta <= reach =>
       \E m \in M : Clash(m, p) /\ (m \in matched \/ m.delta <= p.delta)

LEMMA AssignTells ==
  ASSUME NEW times \in SUBSET Nat, IsFiniteSet(times), NEW samples \in Seq(Sample), NEW reach \in Nat,
         NEW matched, Matching(matched, times, samples)
  PROVE  PassTells(matched, AssignNearest(times, samples, matched, reach), times, samples, reach)
<1>1. PICK P : P = Pairs(times, samples, matched, reach)
  OBVIOUS
<1>2. PICK M : M = AssignNearest(times, samples, matched, reach)
  OBVIOUS
<1>3. PICK q, g : Taken(matched, P, q, g, M)
  BY <1>1, <1>2, PairsTaken
<1>4. PICK n : n = Len(q)
  OBVIOUS
<1>5. n \in Nat /\ \A i \in 1..n : q[i] \in P
  BY <1>3, <1>4, LenProperties, ElementOfSeq DEF Taken, Lists
<1>6. g[0] = matched /\ (\A i \in 1..n : g[i] = Assigned(g[i - 1], q[i])) /\ M = g[n]
  BY <1>3, <1>4 DEF Taken
<1>7. \A p : p \in P <=> IsPair(p, times, samples) /\ p.delta <= reach /\ \A m \in matched : ~Clash(m, p)
  BY <1>1, PairsOrdered
<1>8. \A p \in P : \E i \in 1..n : q[i] = p
  BY <1>3, <1>4 DEF Taken, Lists
<1>9. \A i, j \in 1..n : i < j => Before(q[i], q[j])
  <2>1. \A i, j \in 1..n : i < j => <<q[i], q[j]>> \in NearestFirst(P)
    BY <1>3, <1>4 DEF Taken, Ascends
  <2> QED BY <2>1 DEF NearestFirst
<1> DEFINE From(m, i) == m \in matched \/ \E h \in 1..i : m = q[h]
           Good(i) == /\ matched \subseteq g[i] /\ Matching(g[i], times, samples)
                      /\ \A m \in g[i] : From(m, i)
                      /\ \A h \in 1..i : \E m \in g[i] : Clash(m, q[h]) /\ From(m, h)
           S == {i \in 0..n : Good(i)}
<1>10. 0 \in S
  <2>1. 0 \in 0..n /\ 1..0 = {}
    BY <1>5
  <2> QED BY <1>6, <2>1
<1>11. ASSUME NEW i \in 1..n, i - 1 \in S PROVE i \in S
  <2>1. i \in 0..n /\ i \in Nat /\ (\A h \in 1..i : h \in 1..i - 1 \/ h = i) /\ (\A h \in 1..i - 1 : h \in 1..i) /\ i \in 1..i
    BY <1>5
  <2>2. PICK old : old = g[i - 1]
    OBVIOUS
  <2>3. /\ matched \subseteq old /\ Matching(old, times, samples)
        /\ \A m \in old : From(m, i - 1)
        /\ \A h \in 1..i - 1 : \E m \in old : Clash(m, q[h]) /\ From(m, h)
    BY <1>11, <2>2
  <2>4. g[i] = Assigned(old, q[i])
    BY <1>6, <2>2
  <2>5. \A m : From(m, i - 1) => From(m, i)
    BY <2>1
  <2>6. From(q[i], i)
    BY <2>1
  <2>7. IsPair(q[i], times, samples)
    BY <1>5, <1>7
  <2> HIDE DEF From
  <2>8. CASE \E m \in old : Clash(m, q[i])
    <3>1. g[i] = old
      BY <2>4, <2>8 DEF Assigned, Clash
    <3>2. \A h \in 1..i : \E m \in old : Clash(m, q[h]) /\ From(m, h)
      BY <2>1, <2>3, <2>5, <2>8
    <3>3. Good(i)
      BY <2>3, <2>5, <3>1, <3>2
    <3> QED BY <2>1, <3>3
  <2>9. CASE ~\E m \in old : Clash(m, q[i])
    <3>1. g[i] = old \cup {q[i]}
      BY <2>4, <2>9 DEF Assigned, Clash
    <3>2. \A m \in g[i] : From(m, i)
      BY <2>3, <2>5, <2>6, <3>1
    <3>3. \A h \in 1..i : \E m \in g[i] : Clash(m, q[h]) /\ From(m, h)
      <4>1. Clash(q[i], q[i])
        BY DEF Clash
      <4> QED BY <2>1, <2>3, <2>6, <3>1, <4>1
    <3>4. Matching(g[i], times, samples)
      <4>1. \A m \in g[i] : IsPair(m, times, samples)
        BY <2>3, <2>7, <3>1 DEF Matching
      <4>2. \A m, o \in g[i] : Clash(m, o) => m = o
        BY <2>3, <2>9, <3>1 DEF Matching, Clash
      <4> QED BY <4>1, <4>2 DEF Matching
    <3>5. Good(i)
      BY <2>3, <3>1, <3>2, <3>3, <3>4
    <3> QED BY <2>1, <3>5
  <2> QED BY <2>8, <2>9
<1> HIDE DEF S
<1>12. \A i \in 0..n : i \in S
  BY <1>5, <1>10, <1>11, Upwards
<1>13. Good(n)
  <2>1. n \in S
    BY <1>5, <1>12
  <2> HIDE DEF Good
  <2> QED BY <2>1 DEF S
<1>14. ASSUME NEW m \in M \ matched PROVE m.delta <= reach
  <2>1. PICK h \in 1..n : m = q[h]
    BY <1>6, <1>13
  <2> QED BY <1>5, <1>7, <2>1
<1>15. ASSUME NEW p, IsPair(p, times, samples), p.delta <= reach
       PROVE  \E m \in M : Clash(m, p) /\ (m \in matched \/ m.delta <= p.delta)
  <2>1. CASE \E m \in matched : Clash(m, p)
    BY <1>6, <1>13, <2>1
  <2>2. CASE \A m \in matched : ~Clash(m, p)
    <3>1. PICK h \in 1..n : q[h] = p
      BY <1>7, <1>8, <1>15, <2>2
    <3>2. PICK m \in M : Clash(m, p) /\ From(m, h)
      BY <1>6, <1>13, <3>1
    <3>3. CASE m \in matched
      BY <3>2, <3>3
    <3>4. CASE \E l \in 1..h : m = q[l]
      <4>1. PICK l \in 1..h : m = q[l]
        BY <3>4
      <4>2. l \in 1..n /\ (l = h \/ l < h)
        BY <1>5
      <4>3. m.delta \in Nat /\ p.delta \in Nat
        BY <1>5, <1>7, <1>15, <4>1, <4>2, PairKnown
      <4>4. m = p \/ Before(m, p)
        BY <1>9, <3>1, <4>1, <4>2
      <4>5. m.delta <= p.delta
        BY <4>3, <4>4 DEF Before
      <4> QED BY <3>2, <4>5
    <3> QED BY <3>2, <3>3, <3>4
  <2> QED BY <2>1, <2>2
<1>16. matched \subseteq M /\ Matching(M, times, samples)
  BY <1>6, <1>13
<1>17. PassTells(matched, M, times, samples, reach)
  BY <1>14, <1>15, <1>16 DEF PassTells
<1> QED BY <1>2, <1>17

(* What both passes make of the pairs.                                      *)
LEMMA MatchesTell ==
  ASSUME BatchesAssumption, NEW times \in SUBSET Nat, IsFiniteSet(times), NEW samples \in Seq(Sample)
  PROVE  /\ Matching(Matches(times, samples), times, samples)
         /\ \A m \in Matches(times, samples) : m.delta <= Width
         /\ \A p : IsPair(p, times, samples) /\ p.delta <= Width =>
              \E m \in Matches(times, samples) : Clash(m, p) /\ m.delta <= p.delta
<1>1. PICK close : close = AssignNearest(times, samples, {}, Strict)
  OBVIOUS
<1>2. PICK M : M = Matches(times, samples)
  OBVIOUS
<1>3. Strict \in Nat /\ Width \in Nat /\ Strict < Width
  BY DEF BatchesAssumption
<1>4. Matching({}, times, samples)
  BY DEF Matching
<1>5. PassTells({}, close, times, samples, Strict)
  BY <1>1, <1>3, <1>4, AssignTells
<1>6. Matching(close, times, samples)
  BY <1>5 DEF PassTells
<1>7. M = AssignNearest(times, samples, close, Width)
  BY <1>1, <1>2 DEF Matches
<1>8. PassTells(close, M, times, samples, Width)
  BY <1>3, <1>6, <1>7, AssignTells
<1>9. \A m \in close : m.delta <= Strict
  BY <1>5 DEF PassTells
<1>10. Matching(M, times, samples) /\ close \subseteq M /\ \A m \in M \ close : m.delta <= Width
  BY <1>8 DEF PassTells
<1>11. \A m \in M : m.delta \in Nat
  BY <1>10, PairKnown DEF Matching
<1>12. \A m \in M : m.delta <= Width
  BY <1>3, <1>9, <1>10, <1>11
<1>13. ASSUME NEW p, IsPair(p, times, samples), p.delta <= Width PROVE \E m \in M : Clash(m, p) /\ m.delta <= p.delta
  <2>1. p.delta \in Nat
    BY <1>13, PairKnown
  <2>2. CASE p.delta <= Strict
    <3>1. PICK m \in close : Clash(m, p) /\ m.delta <= p.delta
      BY <1>5, <1>13, <2>2 DEF PassTells
    <3> QED BY <1>10, <3>1
  <2>3. CASE ~(p.delta <= Strict)
    <3>1. PICK m \in M : Clash(m, p) /\ (m \in close \/ m.delta <= p.delta)
      BY <1>8, <1>13 DEF PassTells
    <3>2. m.delta <= p.delta
      BY <1>3, <1>9, <1>11, <2>1, <2>3, <3>1
    <3> QED BY <3>1, <3>2
  <2> QED BY <2>2, <2>3
<1> QED BY <1>2, <1>10, <1>12, <1>13

-----------------------------------------------------------------------------
(* Answers *)

Final == {"failed", "missing", "price"}
Promise == [state : {"none", "pending", "failed", "missing", "price"}, sample : Sample]

Supplied(samples, times, k, answer) ==
  \/ \E m \in Matches(times, samples) : m.time = requested[k] /\ answer = HoldsSample(samples[m.index])
  \/ (\A m \in Matches(times, samples) : m.time # requested[k]) /\ answer = Holds("missing")

LEMMA AnswerTells ==
  ASSUME BatchesAssumption, NEW times \in SUBSET Nat, IsFiniteSet(times), NEW samples \in Seq(Sample), NEW k
  PROVE  /\ AnswerFrom(samples, times, k) \in Promise /\ AnswerFrom(samples, times, k).state \in Final
         /\ ~Garbage(samples) => Supplied(samples, times, k, AnswerFrom(samples, times, k))
<1>1. PICK answer : answer = AnswerFrom(samples, times, k)
  OBVIOUS
<1>2. PICK M : M = Matches(times, samples)
  OBVIOUS
<1>3. [timestamp |-> 0, price |-> 0] \in Sample
  BY DEF Sample
<1>4. \A s \in {"failed", "missing"} : Holds(s) \in Promise /\ Holds(s).state = s
  BY <1>3 DEF Holds, Promise
<1>5. \A s \in Sample : HoldsSample(s) \in Promise /\ HoldsSample(s).state = "price"
  BY DEF HoldsSample, Promise
<1>6. CASE Garbage(samples)
  <2>1. answer = Holds("failed")
    BY <1>1, <1>6 DEF AnswerFrom
  <2> QED BY <1>1, <1>4, <1>6, <2>1 DEF Final
<1>7. CASE ~Garbage(samples)
  <2> DEFINE own == {m \in M : m.time = requested[k]}
  <2>1. answer = IF own = {} THEN Holds("missing") ELSE HoldsSample(samples[(CHOOSE m \in own : TRUE).index])
    BY <1>1, <1>2, <1>7 DEF AnswerFrom
  <2>2. CASE own = {}
    <3>1. answer = Holds("missing") /\ \A m \in M : m.time # requested[k]
      BY <2>1, <2>2
    <3> QED BY <1>1, <1>2, <1>4, <3>1 DEF Supplied, Final
  <2>3. CASE own # {}
    <3>1. PICK m : m = CHOOSE o \in own : TRUE
      OBVIOUS
    <3>2. m \in own
      BY <2>3, <3>1
    <3>3. m \in M /\ m.time = requested[k] /\ answer = HoldsSample(samples[m.index])
      BY <2>1, <2>3, <3>1, <3>2
    <3>4. samples[m.index] \in Sample
      BY <1>2, <3>3, MatchesTell, PairKnown DEF Matching
    <3> QED BY <1>1, <1>2, <1>5, <3>3, <3>4 DEF Supplied, Final
  <2> QED BY <2>2, <2>3
<1> QED BY <1>6, <1>7

-----------------------------------------------------------------------------
(* Keys, requests and the loop *)

BatchTyped ==
  /\ now \in Nat /\ cache \in [LookupKey -> Promise] /\ requested \in [LookupKey -> Nat]
  /\ pending \in Seq(LookupKey) /\ work \in SUBSET LookupKey /\ unknown \in SUBSET LookupKey
  /\ payloads \in Seq(Request) /\ asked \in [LookupKey -> Nat]
  /\ scheduled \in BOOLEAN /\ draining \in BOOLEAN /\ probing \in BOOLEAN

(* The timer is set, or requests are under way, or there is nothing to do.  *)
LoopKnown ==
  /\ draining <=> payloads # <<>>
  /\ scheduled => pending # <<>> /\ ~draining
  /\ pending # <<>> => scheduled \/ draining
  /\ probing => pending = <<>> /\ ~draining

RequestsKnown == \A i \in 1..Len(payloads) : Packed(payloads[i]) /\ AsksFor(payloads, i, work)

(* Where a key is: unknown, in line, in one request, or settled.            *)
KeyKnown(k) ==
  /\ State(k) = "none" => asked[k] = 0 /\ k \notin ToSet(pending) /\ k \notin work
  /\ k \in ToSet(pending) => State(k) = "pending" /\ asked[k] = 0 /\ k \notin work
  /\ State(k) = "pending" /\ k \notin ToSet(pending) => k \in work /\ \E i \in 1..Len(payloads) : Asks(payloads, i, k)
  /\ k \in work => \A i \in 1..Len(payloads) :
       Asks(payloads, i, k) => State(k) = "pending" /\ asked[k] = IF i = 1 THEN 1 ELSE 0
  /\ k \in work => \A i, j \in 1..Len(payloads) : Asks(payloads, i, k) /\ Asks(payloads, j, k) => i = j
  /\ Settled(k) => asked[k] = 1
KeysKnown == \A k \in LookupKey : KeyKnown(k)

BatchInv == BatchTyped /\ LoopKnown /\ RequestsKnown /\ KeysKnown

LEMMA InitKnown ==
  ASSUME BatchesAssumption, BatchInit PROVE BatchInv
<1>1. cache = [k \in LookupKey |-> Holds("none")] /\ asked = [k \in LookupKey |-> 0]
      /\ requested = [k \in LookupKey |-> k.time] /\ pending = <<>> /\ work = {} /\ payloads = <<>> /\ unknown = {}
      /\ scheduled = FALSE /\ draining = FALSE /\ probing = FALSE /\ now \in Now
  BY DEF BatchInit
<1>2. Holds("none") \in Promise /\ Holds("none").state = "none"
  BY DEF Holds, Promise, Sample
<1>3. \A S : <<>> \in Seq(S)
  BY EmptySeq
<1>4. Len(<<>>) = 0 /\ 1..0 = {} /\ ToSet(<<>>) = {}
  BY DEF ToSet
<1>5. BatchTyped
  BY <1>1, <1>2, <1>3 DEF BatchTyped, BatchesAssumption
<1>6. LoopKnown
  BY <1>1 DEF LoopKnown
<1>7. RequestsKnown
  BY <1>1, <1>4 DEF RequestsKnown
<1>8. \A k \in LookupKey : State(k) = "none"
  BY <1>1, <1>2 DEF State
<1>9. KeysKnown
  BY <1>1, <1>4, <1>8 DEF KeysKnown, KeyKnown, Settled
<1> QED BY <1>5, <1>6, <1>7, <1>9 DEF BatchInv

(* What depends on nothing but the keys, the batches and their requests.    *)
keyVars == <<cache, requested, pending, work, payloads, asked>>

LEMMA KeysKept ==
  ASSUME RequestsKnown, KeysKnown, UNCHANGED keyVars
  PROVE  RequestsKnown' /\ KeysKnown'
<1>1. cache' = cache /\ requested' = requested /\ pending' = pending /\ work' = work /\ payloads' = payloads /\ asked' = asked
  BY DEF keyVars
<1>2. RequestsKnown'
  BY <1>1 DEF RequestsKnown, AsksFor
<1>3. \A k \in LookupKey : KeyKnown(k)'
  BY <1>1 DEF KeysKnown, KeyKnown, Asks, State, Settled
<1> QED BY <1>2, <1>3 DEF KeysKnown

LEMMA LookupKeeps ==
  ASSUME BatchesAssumption, BatchInv, NEW k \in LookupKey, Lookup(k) PROVE BatchInv'
<1>1. /\ ~probing /\ State(k) = "none"
      /\ cache' = [cache EXCEPT ![k] = Holds("pending")]
      /\ requested' = [requested EXCEPT ![k] = IF AllowIntraday /\ k.time = TodayEnd THEN now ELSE k.time]
      /\ pending' = Append(pending, k) /\ scheduled' = (scheduled \/ ~draining)
      /\ UNCHANGED <<now, draining, work, payloads, probing, unknown, asked>>
  BY DEF Lookup
<1>2. BatchTyped /\ LoopKnown /\ RequestsKnown /\ KeysKnown
  BY DEF BatchInv
<1>3. Holds("pending") \in Promise /\ Holds("pending").state = "pending"
  BY DEF Holds, Promise, Sample
<1>4. PICK t : t = IF AllowIntraday /\ k.time = TodayEnd THEN now ELSE k.time
  OBVIOUS
<1>5. t \in Nat
  BY <1>2, <1>4 DEF BatchTyped, BatchesAssumption
<1>6. cache' \in [LookupKey -> Promise] /\ requested' \in [LookupKey -> Nat]
  BY <1>1, <1>2, <1>3, <1>4, <1>5 DEF BatchTyped
<1>7. pending' \in Seq(LookupKey) /\ pending' # <<>> /\ ToSet(pending') = ToSet(pending) \cup {k}
  <2>1. pending \in Seq(LookupKey)
    BY <1>2 DEF BatchTyped
  <2>2. PICK n : n = Len(pending)
    OBVIOUS
  <2>3. n \in Nat /\ ToSet(pending) = {pending[i] : i \in 1..n}
    BY <2>1, <2>2, MembersOf
  <2>4. /\ pending' \in Seq(LookupKey) /\ pending' # <<>> /\ Len(pending') = n + 1
        /\ \A i \in 1..n : pending'[i] = pending[i]
        /\ pending'[n + 1] = k
    BY <1>1, <2>1, <2>2, AppendProperties
  <2>5. ToSet(pending') = {pending'[i] : i \in 1..n + 1}
    <3>1. PICK longer : longer = pending'
      OBVIOUS
    <3>2. ToSet(longer) = {longer[i] : i \in 1..n + 1}
      BY <2>4, <3>1, MembersOf
    <3> QED BY <3>1, <3>2
  <2>6. \A i \in 1..n + 1 : i \in 1..n \/ i = n + 1
    BY <2>3
  <2>7. \A i \in 1..n : i \in 1..n + 1
    BY <2>3
  <2>8. n + 1 \in 1..n + 1
    BY <2>3
  <2> QED BY <2>3, <2>4, <2>5, <2>6, <2>7, <2>8
<1>8. BatchTyped'
  BY <1>1, <1>2, <1>6, <1>7 DEF BatchTyped
<1>9. LoopKnown'
  BY <1>1, <1>2, <1>7 DEF LoopKnown, BatchTyped
<1>10. k \notin work /\ k \notin ToSet(pending) /\ asked[k] = 0
  BY <1>1, <1>2 DEF KeysKnown, KeyKnown
<1>11. \A j \in LookupKey : j # k => cache'[j] = cache[j] /\ requested'[j] = requested[j]
  BY <1>1, <1>2 DEF BatchTyped
<1>12. cache'[k].state = "pending"
  BY <1>1, <1>2, <1>3 DEF BatchTyped
<1>13. \A j \in work : j \in LookupKey /\ j # k
  BY <1>2, <1>10 DEF BatchTyped
<1>14. RequestsKnown'
  <2>1. ASSUME NEW i \in 1..Len(payloads) PROVE Packed(payloads[i]) /\ AsksFor(payloads, i, work)'
    <3>1. Packed(payloads[i]) /\ AsksFor(payloads, i, work)
      BY <1>2 DEF RequestsKnown
    <3>2. \A j \in work : requested'[j] = requested[j]
      BY <1>11, <1>13
    <3> QED BY <1>1, <3>1, <3>2 DEF AsksFor
  <2> QED BY <1>1, <2>1 DEF RequestsKnown, Packed
<1>15. ASSUME NEW j \in LookupKey PROVE KeyKnown(j)'
  <2>1. KeyKnown(j)
    BY <1>2 DEF KeysKnown
  <2>2. CASE j = k
    BY <1>1, <1>7, <1>10, <1>12, <2>2 DEF KeyKnown, State, Settled
  <2>3. CASE j # k
    <3>1. cache'[j] = cache[j] /\ requested'[j] = requested[j] /\ (j \in ToSet(pending') <=> j \in ToSet(pending))
      BY <1>7, <1>11, <2>3
    <3> QED BY <1>1, <2>1, <3>1 DEF KeyKnown, State, Settled, Asks
  <2> QED BY <2>2, <2>3
<1> QED BY <1>2, <1>8, <1>9, <1>14, <1>15 DEF BatchInv, KeysKnown

(* The requests of the next batch, when nobody else is waiting.             *)
LEMMA TakeKeeps ==
  ASSUME BatchesAssumption, BatchInv, pending # <<>>, TakePending, UNCHANGED requested,
         cache' \in [LookupKey -> Promise],
         \A k \in ToSet(pending) : cache'[k] = cache[k],
         \A k \in LookupKey : cache'[k].state = "pending" => k \in ToSet(pending),
         \A k \in LookupKey : (cache'[k].state = "none" <=> State(k) = "none")
                                /\ (cache'[k].state \in Final => asked[k] = 1)
  PROVE  /\ pending' = <<>> /\ work' \in SUBSET LookupKey /\ payloads' \in Seq(Request) /\ payloads' # <<>>
         /\ asked' \in [LookupKey -> Nat] /\ RequestsKnown' /\ KeysKnown'
<1>1. PICK R : R = Payloads(pending)
  OBVIOUS
<1>2. PICK K : K = ToSet(pending)
  OBVIOUS
<1>3. payloads' = R /\ asked' = Sent(K, R) /\ work' = K /\ pending' = <<>> /\ requested' = requested
  BY <1>1, <1>2 DEF TakePending
<1>4. BatchTyped /\ KeysKnown
  BY DEF BatchInv
<1>5. pending \in Seq(LookupKey) /\ requested \in [LookupKey -> Nat] /\ asked \in [LookupKey -> Nat]
  BY <1>4 DEF BatchTyped
<1>6. /\ R \in Seq(Request)
      /\ \A i \in 1..Len(R) : Packed(R[i]) /\ AsksFor(R, i, K)
      /\ \A k \in K : \E i \in 1..Len(R) : Asks(R, i, k)
      /\ \A k \in K : \A i, j \in 1..Len(R) : Asks(R, i, k) /\ Asks(R, j, k) => i = j
  BY <1>1, <1>2, <1>5, PayloadsCarry
<1>7. K \subseteq LookupKey /\ K # {}
  <2>1. K \subseteq LookupKey /\ K = {pending[i] : i \in 1..Len(pending)} /\ Len(pending) \in Nat
    BY <1>2, <1>5, MembersOf
  <2>2. Len(pending) # 0
    BY <1>5, EmptySeq
  <2> QED BY <2>1, <2>2
<1>8. R # <<>> /\ 1 \in 1..Len(R) /\ Head(R) = R[1]
  <2>1. PICK k \in K : TRUE
    BY <1>7
  <2>2. PICK i \in 1..Len(R) : Asks(R, i, k)
    BY <1>6
  <2>3. Len(R) \in Nat /\ Len(R) # 0
    BY <1>6, <2>2, LenProperties
  <2>4. R # <<>>
    BY <2>3
  <2> QED BY <1>6, <2>3, <2>4
<1>9. \A k \in LookupKey : asked'[k] = IF k \in K /\ Asks(R, 1, k) THEN asked[k] + 1 ELSE asked[k]
  BY <1>3, <1>8 DEF Sent, Members, Asks
<1>10. asked' \in [LookupKey -> Nat]
  BY <1>3, <1>5 DEF Sent
<1>11. RequestsKnown'
  BY <1>3, <1>6 DEF RequestsKnown, AsksFor
<1>12. ToSet(pending') = {}
  BY <1>3 DEF ToSet
<1>13. ASSUME NEW k \in LookupKey PROVE KeyKnown(k)'
  <2>1. KeyKnown(k)
    BY <1>4 DEF KeysKnown
  <2>2. \A i : Asks(R, i, k)' <=> Asks(R, i, k)
    BY <1>3 DEF Asks
  <2>3. State(k)' = cache'[k].state
    BY DEF State
  <2>4. CASE k \in K
    <3>1. State(k)' = "pending" /\ asked[k] = 0
      BY <1>2, <2>1, <2>3, <2>4 DEF KeyKnown, State
    <3>2. \A i \in 1..Len(R) : Asks(R, i, k) => asked'[k] = IF i = 1 THEN 1 ELSE 0
      BY <1>6, <1>8, <1>9, <2>4, <3>1
    <3>3. \E i \in 1..Len(R) : Asks(R, i, k)
      BY <1>6, <2>4
    <3>4. \A i, j \in 1..Len(R) : Asks(R, i, k) /\ Asks(R, j, k) => i = j
      BY <1>6, <2>4
    <3> QED BY <1>3, <1>12, <2>2, <2>4, <3>1, <3>2, <3>3, <3>4 DEF KeyKnown, Asks, Settled
  <2>5. CASE k \notin K
    <3>1. State(k)' # "pending" /\ asked'[k] = asked[k]
      BY <1>2, <1>9, <2>3, <2>5
    <3>2. State(k)' = "none" => asked[k] = 0
      BY <2>1, <2>3 DEF KeyKnown
    <3>3. State(k)' # "none" => State(k)' \in Final
      BY <2>3, <3>1 DEF Promise, Final
    <3>4. State(k)' # "none" => asked[k] = 1
      BY <2>3, <3>3
    <3> QED BY <1>3, <1>12, <2>5, <3>1, <3>2, <3>4 DEF KeyKnown, Settled
  <2> QED BY <2>4, <2>5
<1> QED BY <1>3, <1>6, <1>7, <1>8, <1>10, <1>11, <1>13 DEF KeysKnown

LEMMA TimerKeeps ==
  ASSUME BatchesAssumption, BatchInv, TimerFires PROVE BatchInv'
<1>1. scheduled /\ scheduled' = FALSE /\ draining' = TRUE /\ TakePending
      /\ UNCHANGED <<now, cache, requested, probing, unknown>>
  BY DEF TimerFires
<1>2. BatchTyped /\ LoopKnown /\ KeysKnown
  BY DEF BatchInv
<1>3. pending # <<>> /\ ~draining /\ payloads = <<>> /\ ~probing
  BY <1>1, <1>2 DEF LoopKnown
<1>4. cache' = cache /\ cache \in [LookupKey -> Promise]
  BY <1>1, <1>2 DEF BatchTyped
<1>5. ASSUME NEW k \in LookupKey
      PROVE  /\ cache[k].state = "pending" => k \in ToSet(pending)
             /\ cache[k].state \in Final => asked[k] = 1
  <2>1. KeyKnown(k)
    BY <1>2 DEF KeysKnown
  <2>2. 1..Len(payloads) = {}
    BY <1>3
  <2> QED BY <2>1, <2>2 DEF KeyKnown, State, Settled, Final
<1>6. /\ pending' = <<>> /\ work' \in SUBSET LookupKey /\ payloads' \in Seq(Request) /\ payloads' # <<>>
      /\ asked' \in [LookupKey -> Nat] /\ RequestsKnown' /\ KeysKnown'
  <2>1. \A k \in LookupKey : cache'[k].state = "none" <=> State(k) = "none"
    BY <1>4 DEF State
  <2> QED BY <1>1, <1>3, <1>4, <1>5, <2>1, TakeKeeps
<1>7. <<>> \in Seq(LookupKey)
  BY EmptySeq
<1>8. BatchTyped'
  BY <1>1, <1>2, <1>6, <1>7 DEF BatchTyped
<1>9. LoopKnown'
  BY <1>1, <1>3, <1>6 DEF LoopKnown
<1> QED BY <1>6, <1>8, <1>9 DEF BatchInv

(* The look-ups of the first request are settled, and the loop goes on.     *)
Addressed(k) == k \in work /\ Asks(payloads, 1, k)
AnswersGiven ==
  /\ cache' \in [LookupKey -> Promise]
  /\ \A k \in LookupKey : IF Addressed(k) THEN cache'[k].state \in Final ELSE cache'[k] = cache[k]

LEMMA FirstRequest ==
  ASSUME BatchInv, draining
  PROVE  /\ Len(payloads) \in Nat /\ 1 \in 1..Len(payloads) /\ Head(payloads) = payloads[1] /\ payloads[1] \in Request
         /\ \A k : k \in Members(work, Head(payloads)) <=> Addressed(k)
<1>1. payloads \in Seq(Request) /\ payloads # <<>>
  BY DEF BatchInv, BatchTyped, LoopKnown
<1>2. Len(payloads) \in Nat /\ Len(payloads) # 0
  BY <1>1, LenProperties, EmptySeq
<1>3. 1 \in 1..Len(payloads)
  BY <1>2
<1>4. Head(payloads) = payloads[1] /\ payloads[1] \in Request
  BY <1>1, <1>3, ElementOfSeq
<1> QED BY <1>2, <1>3, <1>4 DEF Members, Addressed, Asks

LEMMA ContinueKeeps ==
  ASSUME BatchesAssumption, BatchInv, draining, AnswersGiven, Continue PROVE BatchInv'
<1>1. BatchTyped /\ LoopKnown /\ RequestsKnown /\ KeysKnown
  BY DEF BatchInv
<1>2. UNCHANGED <<now, requested, scheduled, probing, unknown>>
  BY DEF Continue
<1>3. ~scheduled /\ ~probing /\ payloads \in Seq(Request)
  BY <1>1 DEF LoopKnown, BatchTyped
<1>4. cache' \in [LookupKey -> Promise]
  BY DEF AnswersGiven
<1>5. PICK n : n = Len(payloads)
  OBVIOUS
<1>6. n \in Nat /\ 1 \in 1..n
  BY <1>5, FirstRequest
<1>7. ASSUME NEW k \in LookupKey, Addressed(k)
      PROVE  State(k) = "pending" /\ asked[k] = 1 /\ cache'[k].state \in Final /\ k \notin ToSet(pending)
             /\ \A i \in 1..n : Asks(payloads, i, k) => i = 1
  BY <1>1, <1>5, <1>6, <1>7 DEF AnswersGiven, Addressed, KeysKnown, KeyKnown
<1>8. ASSUME NEW k \in LookupKey, ~Addressed(k) PROVE cache'[k] = cache[k]
  BY <1>8 DEF AnswersGiven
<1>9. \A k \in LookupKey : KeyKnown(k)
  BY <1>1 DEF KeysKnown
<1>10. CASE n > 1
  <2>1. /\ payloads' = Tail(payloads) /\ asked' = Sent(work, Tail(payloads))
        /\ UNCHANGED <<pending, work, draining>>
    BY <1>5, <1>10 DEF Continue
  <2>2. PICK R : R = Tail(payloads)
    OBVIOUS
  <2>3. R \in Seq(Request) /\ Len(R) = n - 1 /\ \A i \in 1..n - 1 : R[i] = payloads[i + 1] /\ i + 1 \in 1..n
    <3>1. payloads # <<>>
      BY <1>1 DEF LoopKnown
    <3>2. R \in Seq(Request) /\ Len(R) = n - 1 /\ \A i \in 1..Len(R) : R[i] = payloads[i + 1]
      BY <1>3, <1>5, <2>2, <3>1, HeadTailProperties
    <3> QED BY <1>6, <3>2
  <2>4. R # <<>> /\ 1 \in 1..n - 1 /\ Head(R) = R[1] /\ R[1] = payloads[2]
    <3>1. 1 \in 1..n - 1 /\ 1 + 1 = 2
      BY <1>6, <1>10
    <3> QED BY <2>3, <3>1
  <2>5. \A k : \A i \in 1..n - 1 : Asks(R, i, k) <=> Asks(payloads, i + 1, k)
    BY <2>3 DEF Asks
  <2>6. \A k \in LookupKey : asked'[k] = IF k \in work /\ Asks(R, 1, k) THEN asked[k] + 1 ELSE asked[k]
    BY <2>1, <2>2, <2>4 DEF Sent, Members, Asks
  <2>7. asked' \in [LookupKey -> Nat]
    BY <1>1, <2>1 DEF Sent, BatchTyped
  <2>8. BatchTyped'
    BY <1>1, <1>2, <1>4, <2>1, <2>2, <2>3, <2>7 DEF BatchTyped
  <2>9. LoopKnown'
    BY <1>1, <1>2, <2>1, <2>2, <2>4 DEF LoopKnown
  <2>10. RequestsKnown'
    <3>1. ASSUME NEW i \in 1..n - 1 PROVE Packed(R[i]) /\ AsksFor(R, i, work)
      <4>1. Packed(payloads[i + 1]) /\ AsksFor(payloads, i + 1, work)
        BY <1>1, <1>5, <2>3 DEF RequestsKnown
      <4> QED BY <2>3, <4>1 DEF AsksFor
    <3>2. ASSUME NEW i \in 1..n - 1 PROVE AsksFor(R, i, work)'
      <4>1. AsksFor(R, i, work) /\ work' = work /\ requested' = requested
        BY <1>2, <2>1, <3>1
      <4> QED BY <4>1 DEF AsksFor
    <3>3. payloads' = R /\ Len(R) = n - 1 /\ work' = work
      BY <2>1, <2>2, <2>3
    <3>4. ASSUME NEW i \in 1..Len(payloads') PROVE Packed(payloads'[i]) /\ AsksFor(payloads, i, work)'
      <4>1. i \in 1..n - 1 /\ Packed(R[i])
        BY <3>1, <3>3
      <4>2. AsksFor(R, i, work)'
        BY <3>2, <4>1
      <4> QED BY <3>3, <4>1, <4>2 DEF AsksFor
    <3> QED BY <3>4 DEF RequestsKnown, Packed
  <2>11. ASSUME NEW k \in LookupKey PROVE KeyKnown(k)'
    <3>1. \A i : Asks(R, i, k)' <=> Asks(R, i, k)
      BY <1>2, <2>2, <2>1 DEF Asks
    <3>2. State(k)' = cache'[k].state /\ payloads' = R /\ work' = work /\ pending' = pending
      BY <2>1, <2>2 DEF State
    <3>3. \A i \in 1..n - 1 : Asks(R, i, k) => Asks(payloads, i + 1, k) /\ i + 1 \in 1..n /\ i \in Nat /\ i + 1 # 1
      BY <2>3, <2>5
    <3>4. CASE Addressed(k)
      <4>1. \A i \in 1..n - 1 : ~Asks(R, i, k)
        BY <1>7, <3>3, <3>4
      <4>2. asked'[k] = 1
        BY <1>7, <2>4, <2>6, <3>4, <4>1
      <4>3. k \notin ToSet(pending) /\ cache'[k].state \in Final
        BY <1>7, <3>4
      <4> QED BY <2>3, <3>1, <3>2, <4>1, <4>2, <4>3 DEF KeyKnown, Settled, Final, Asks
    <3>5. CASE ~Addressed(k)
      <4>1. State(k)' = State(k)
        BY <1>8, <3>2, <3>5 DEF State
      <4>2. k \in work => ~Asks(payloads, 1, k)
        BY <3>5 DEF Addressed
      <4>3. asked'[k] = IF k \in work /\ Asks(payloads, 2, k) THEN asked[k] + 1 ELSE asked[k]
        BY <2>4, <2>6 DEF Asks
      <4>4. KeyKnown(k)
        BY <1>9
      <4>5. ASSUME k \in work, NEW i \in 1..n - 1, Asks(R, i, k)
            PROVE  State(k) = "pending" /\ asked'[k] = IF i = 1 THEN 1 ELSE 0
        <5>1. Asks(payloads, i + 1, k) /\ i + 1 \in 1..n /\ i + 1 # 1 /\ i \in Nat
          BY <3>3, <4>5
        <5>2. State(k) = "pending" /\ asked[k] = 0
          BY <1>5, <4>4, <4>5, <5>1 DEF KeyKnown
        <5>3. Asks(payloads, 2, k) <=> i = 1
          <6>1. 2 \in 1..n
            BY <1>6, <1>10
          <6>2. Asks(payloads, 2, k) => 2 = i + 1
            BY <1>5, <4>4, <4>5, <5>1, <6>1 DEF KeyKnown
          <6> QED BY <5>1, <6>2
        <5> QED BY <4>3, <4>5, <5>2, <5>3
      <4>6. ASSUME k \in work, NEW i \in 1..n - 1, NEW j \in 1..n - 1, Asks(R, i, k), Asks(R, j, k) PROVE i = j
        <5>1. i + 1 = j + 1
          BY <1>5, <3>3, <4>4, <4>6 DEF KeyKnown
        <5> QED BY <5>1
      <4>7. ASSUME State(k) = "pending", k \notin ToSet(pending) PROVE k \in work /\ \E i \in 1..n - 1 : Asks(R, i, k)
        <5>1. k \in work /\ \E i \in 1..n : Asks(payloads, i, k)
          BY <1>5, <4>4, <4>7 DEF KeyKnown
        <5>2. PICK i \in 1..n : Asks(payloads, i, k)
          BY <5>1
        <5>3. i # 1
          BY <4>2, <5>1, <5>2
        <5>4. i - 1 \in 1..n - 1 /\ (i - 1) + 1 = i
          BY <1>6, <5>3
        <5> QED BY <2>5, <5>1, <5>2, <5>4
      <4>8. State(k) # "pending" => asked'[k] = asked[k]
        <5>1. ASSUME k \in work, Asks(payloads, 2, k) PROVE State(k) = "pending"
          <6>1. 2 \in 1..n
            BY <1>6, <1>10
          <6> QED BY <1>5, <4>4, <5>1, <6>1 DEF KeyKnown
        <5> QED BY <4>3, <5>1
      <4>9. k \in ToSet(pending) => asked'[k] = asked[k]
        BY <4>3, <4>4 DEF KeyKnown
      <4>10. /\ State(k) = "none" => asked'[k] = 0 /\ k \notin ToSet(pending) /\ k \notin work
             /\ k \in ToSet(pending) => State(k) = "pending" /\ asked'[k] = 0 /\ k \notin work
             /\ State(k) \notin {"none", "pending"} => asked'[k] = 1
        BY <4>4, <4>8, <4>9 DEF KeyKnown, Settled
      <4> QED BY <2>3, <3>1, <3>2, <4>1, <4>5, <4>6, <4>7, <4>10 DEF KeyKnown, Settled, Asks
    <3> QED BY <3>4, <3>5
  <2> QED BY <2>8, <2>9, <2>10, <2>11 DEF BatchInv, KeysKnown
<1>11. ASSUME ~(n > 1), NEW k \in LookupKey
       PROVE  /\ cache'[k].state = "pending" => k \in ToSet(pending)
              /\ cache'[k].state \in Final => asked[k] = 1
              /\ cache'[k].state = "none" <=> State(k) = "none"
              /\ k \in ToSet(pending) => cache'[k] = cache[k]
  <2>1. n = 1 /\ \A i \in 1..n : i = 1
    BY <1>6, <1>11
  <2>2. CASE Addressed(k)
    BY <1>7, <2>2 DEF Final
  <2>3. CASE ~Addressed(k)
    <3>1. cache'[k] = cache[k] /\ KeyKnown(k)
      BY <1>8, <1>9, <2>3
    <3>2. State(k) = "pending" => k \in ToSet(pending)
      BY <1>5, <2>1, <2>3, <3>1 DEF KeyKnown, Addressed
    <3> QED BY <3>1, <3>2 DEF State, KeyKnown, Settled, Final
  <2> QED BY <2>2, <2>3
<1>12. CASE ~(n > 1) /\ pending # <<>>
  <2>1. TakePending /\ draining' = draining
    BY <1>5, <1>12 DEF Continue
  <2>2. ToSet(pending) \subseteq LookupKey
    BY <1>1, MembersOf DEF BatchTyped
  <2>3. /\ pending' = <<>> /\ work' \in SUBSET LookupKey /\ payloads' \in Seq(Request) /\ payloads' # <<>>
        /\ asked' \in [LookupKey -> Nat] /\ RequestsKnown' /\ KeysKnown'
    <3>1. \A k \in ToSet(pending) : cache'[k] = cache[k]
      BY <1>11, <1>12, <2>2
    <3>2. \A k \in LookupKey : cache'[k].state = "pending" => k \in ToSet(pending)
      BY <1>11, <1>12
    <3>3. \A k \in LookupKey : (cache'[k].state = "none" <=> State(k) = "none")
                                 /\ (cache'[k].state \in Final => asked[k] = 1)
      BY <1>11, <1>12
    <3> QED BY <1>2, <1>4, <1>12, <2>1, <3>1, <3>2, <3>3, TakeKeeps
  <2>4. <<>> \in Seq(LookupKey)
    BY EmptySeq
  <2>5. BatchTyped'
    BY <1>1, <1>2, <1>4, <2>1, <2>3, <2>4 DEF BatchTyped
  <2>6. LoopKnown'
    BY <1>1, <1>2, <1>3, <2>1, <2>3 DEF LoopKnown
  <2> QED BY <2>3, <2>5, <2>6 DEF BatchInv
<1>13. CASE ~(n > 1) /\ pending = <<>>
  <2>1. payloads' = <<>> /\ work' = {} /\ draining' = FALSE /\ pending' = pending /\ asked' = asked
    BY <1>5, <1>13 DEF Continue
  <2>2. <<>> \in Seq(Request) /\ 1..Len(<<>>) = {} /\ ToSet(<<>>) = {}
    BY EmptySeq DEF ToSet
  <2>3. BatchTyped'
    BY <1>1, <1>2, <1>4, <2>1, <2>2 DEF BatchTyped
  <2>4. LoopKnown'
    BY <1>2, <1>3, <1>13, <2>1 DEF LoopKnown
  <2>5. RequestsKnown'
    BY <2>1, <2>2 DEF RequestsKnown
  <2>6. ASSUME NEW k \in LookupKey PROVE KeyKnown(k)'
    <3>1. KeyKnown(k) /\ State(k)' = cache'[k].state /\ cache'[k].state \in {"none", "pending", "failed", "missing", "price"}
      BY <1>4, <1>9 DEF State, Promise
    <3>2. State(k)' # "pending" /\ (State(k)' = "none" => asked[k] = 0) /\ (State(k)' \in Final => asked[k] = 1)
      BY <1>11, <1>13, <2>2, <3>1 DEF KeyKnown
    <3> QED BY <1>13, <2>1, <2>2, <3>1, <3>2 DEF KeyKnown, Settled, Final
  <2> QED BY <2>3, <2>4, <2>5, <2>6 DEF BatchInv, KeysKnown
<1> QED BY <1>10, <1>12, <1>13

LEMMA DrainKeeps ==
  ASSUME BatchesAssumption, BatchInv, Drain PROVE BatchInv'
<1>1. BatchTyped /\ RequestsKnown
  BY DEF BatchInv
<1>2. cache \in [LookupKey -> Promise]
  BY <1>1 DEF BatchTyped
<1>3. CASE RequestFails
  <2>1. draining /\ Continue
    BY <1>3 DEF RequestFails
  <2>2. cache' = [k \in LookupKey |-> IF Addressed(k) THEN Holds("failed") ELSE cache[k]]
    BY <1>3, <2>1, FirstRequest DEF RequestFails
  <2>3. Holds("failed") \in Promise /\ Holds("failed").state \in Final
    BY DEF Holds, Promise, Sample, Final
  <2>4. AnswersGiven
    BY <1>2, <2>2, <2>3 DEF AnswersGiven
  <2> QED BY <2>1, <2>4, ContinueKeeps
<1>4. CASE ResponseArrives
  <2>1. draining /\ Continue
    BY <1>4 DEF ResponseArrives
  <2>2. PICK first : first = payloads[1]
    OBVIOUS
  <2>3. Head(payloads) = first /\ 1 \in 1..Len(payloads) /\ \A k : k \in Members(work, first) <=> Addressed(k)
    BY <2>1, <2>2, FirstRequest
  <2>4. PICK response \in [DOMAIN first -> Observations] :
          cache' = [k \in LookupKey |-> IF k \in Members(work, first)
                                  THEN AnswerFrom(response[k.coin], first[k.coin], k) ELSE cache[k]]
    BY <1>4, <2>3 DEF ResponseArrives
  <2>5. ASSUME NEW k \in LookupKey, Addressed(k)
        PROVE  AnswerFrom(response[k.coin], first[k.coin], k) \in Promise
               /\ AnswerFrom(response[k.coin], first[k.coin], k).state \in Final
    <3>1. k.coin \in DOMAIN first
      BY <2>2, <2>5 DEF Addressed, Asks
    <3>2. Spaced(first[k.coin])
      BY <1>1, <2>2, <2>3, <3>1 DEF RequestsKnown, AsksFor
    <3>3. PICK times, samples : times = first[k.coin] /\ samples = response[k.coin]
      OBVIOUS
    <3>4. times \in SUBSET Nat /\ IsFiniteSet(times) /\ samples \in Seq(Sample)
      BY <2>4, <3>1, <3>2, <3>3 DEF Spaced, BatchesAssumption
    <3> QED BY <3>3, <3>4, AnswerTells
  <2>6. AnswersGiven
    BY <1>2, <2>3, <2>4, <2>5 DEF AnswersGiven
  <2> QED BY <2>1, <2>6, ContinueKeeps
<1> QED BY <1>3, <1>4 DEF Drain

LEMMA StepKeeps ==
  ASSUME BatchesAssumption, BatchInv, [BatchNext]_batchVars PROVE BatchInv'
<1>1. BatchTyped /\ LoopKnown /\ RequestsKnown /\ KeysKnown
  BY DEF BatchInv
<1>2. ASSUME NEW k \in LookupKey, Lookup(k) PROVE BatchInv'
  BY <1>2, LookupKeeps
<1>3. ASSUME NEW k \in LookupKey, Probe(k) PROVE BatchInv'
  <2>1. UNCHANGED keyVars /\ unknown' = unknown \cup {k} /\ UNCHANGED <<now, scheduled, draining, probing>>
    BY <1>3 DEF Probe, keyVars
  <2>2. BatchTyped'
    BY <1>1, <2>1 DEF BatchTyped, keyVars
  <2>3. LoopKnown'
    BY <1>1, <2>1 DEF LoopKnown, keyVars
  <2> QED BY <1>1, <2>1, <2>2, <2>3, KeysKept DEF BatchInv
<1>4. CASE StartDiscovery
  <2>1. UNCHANGED keyVars /\ probing' = TRUE /\ ~draining /\ pending = <<>> /\ UNCHANGED <<now, scheduled, draining, unknown>>
    BY <1>4 DEF StartDiscovery, keyVars
  <2>2. BatchTyped'
    BY <1>1, <2>1 DEF BatchTyped, keyVars
  <2>3. LoopKnown'
    BY <1>1, <2>1 DEF LoopKnown, keyVars
  <2> QED BY <1>1, <2>1, <2>2, <2>3, KeysKept DEF BatchInv
<1>5. CASE EndDiscovery
  <2>1. UNCHANGED keyVars /\ probing' = FALSE /\ unknown' = {} /\ UNCHANGED <<now, scheduled, draining>>
    BY <1>5 DEF EndDiscovery, keyVars
  <2>2. BatchTyped'
    BY <1>1, <2>1 DEF BatchTyped, keyVars
  <2>3. LoopKnown'
    BY <1>1, <2>1 DEF LoopKnown, keyVars
  <2> QED BY <1>1, <2>1, <2>2, <2>3, KeysKept DEF BatchInv
<1>6. CASE TimerFires
  BY <1>6, TimerKeeps
<1>7. CASE Drain
  BY <1>7, DrainKeeps
<1>8. CASE ClockMoves
  <2>1. UNCHANGED keyVars /\ now' \in Now /\ UNCHANGED <<scheduled, draining, probing, unknown>>
    BY <1>8 DEF ClockMoves, keyVars
  <2>2. BatchTyped'
    BY <1>1, <2>1 DEF BatchTyped, keyVars, BatchesAssumption
  <2>3. LoopKnown'
    BY <1>1, <2>1 DEF LoopKnown, keyVars
  <2> QED BY <1>1, <2>1, <2>2, <2>3, KeysKept DEF BatchInv
<1>9. CASE UNCHANGED batchVars
  <2>1. UNCHANGED keyVars /\ UNCHANGED <<now, scheduled, draining, probing, unknown>>
    BY <1>9 DEF batchVars, keyVars
  <2>2. BatchTyped'
    BY <1>1, <2>1 DEF BatchTyped, keyVars
  <2>3. LoopKnown'
    BY <1>1, <2>1 DEF LoopKnown, keyVars
  <2> QED BY <1>1, <2>1, <2>2, <2>3, KeysKept DEF BatchInv
<1> QED BY <1>2, <1>3, <1>4, <1>5, <1>6, <1>7, <1>8, <1>9 DEF BatchNext

-----------------------------------------------------------------------------
(* The properties *)

LEMMA WaitsOnce ==
  ASSUME BatchesAssumption, BatchInv PROVE EachWaitsOnce
<1>1. BatchTyped /\ LoopKnown /\ RequestsKnown /\ KeysKnown
  BY DEF BatchInv
<1>2. ToSet(pending) \subseteq LookupKey
  BY <1>1, MembersOf DEF BatchTyped
<1>3. BatchTypeOK
  BY <1>1, <1>2 DEF BatchTypeOK, BatchTyped, LoopKnown, Promise
<1>4. PICK n : n = Len(payloads)
  OBVIOUS
<1>5. DOMAIN payloads = 1..n /\ n \in Nat
  BY <1>1, <1>4, LenProperties DEF BatchTyped
<1>6. \A i \in DOMAIN payloads : Packed(payloads[i])
  BY <1>1, <1>4, <1>5 DEF RequestsKnown
<1>7. ASSUME NEW k \in LookupKey
      PROVE  State(k) = "pending" <=>
               \/ k \in ToSet(pending) /\ (scheduled \/ draining)
               \/ Cardinality({i \in DOMAIN payloads : k \in Members(work, payloads[i])}) = 1
  <2> DEFINE places == {i \in DOMAIN payloads : k \in Members(work, payloads[i])}
  <2>1. \A i : i \in places <=> i \in 1..n /\ k \in work /\ Asks(payloads, i, k)
    BY <1>5 DEF Members, Asks
  <2>2. KeyKnown(k)
    BY <1>1 DEF KeysKnown
  <2> HIDE DEF places
  <2>3. IsFiniteSet(places)
    BY <1>5, <2>1, FS_Interval, FS_Subset, places \subseteq 1..n
  <2>4. ASSUME State(k) = "pending", k \notin ToSet(pending) PROVE Cardinality(places) = 1
    <3>1. k \in work /\ \E i \in 1..n : Asks(payloads, i, k)
      BY <1>4, <2>2, <2>4 DEF KeyKnown
    <3>2. PICK i \in 1..n : Asks(payloads, i, k)
      BY <3>1
    <3>3. \A j \in 1..n : Asks(payloads, j, k) => j = i
      BY <1>4, <2>2, <3>1, <3>2 DEF KeyKnown
    <3>4. places = {i}
      BY <2>1, <3>1, <3>2, <3>3
    <3> QED BY <3>4, FS_Singleton
  <2>5. ASSUME Cardinality(places) = 1 PROVE State(k) = "pending"
    <3>1. \E i : places = {i}
      BY <2>3, <2>5, FS_Singleton
    <3>2. PICK i \in 1..n : k \in work /\ Asks(payloads, i, k)
      BY <2>1, <3>1
    <3> QED BY <1>4, <2>2, <3>2 DEF KeyKnown
  <2>6. k \in ToSet(pending) => State(k) = "pending" /\ pending # <<>>
    BY <2>2 DEF KeyKnown, ToSet
  <2>7. pending # <<>> => scheduled \/ draining
    BY <1>1 DEF LoopKnown
  <2> QED BY <2>4, <2>5, <2>6, <2>7 DEF places
<1>8. ASSUME NEW k \in LookupKey PROVE asked[k] <= 1 /\ (Settled(k) => asked[k] = 1)
  <2>1. KeyKnown(k)
    BY <1>1 DEF KeysKnown
  <2>2. asked[k] \in {0, 1}
    <3>1. CASE State(k) = "pending" /\ k \notin ToSet(pending)
      BY <2>1, <3>1 DEF KeyKnown
    <3>2. CASE ~(State(k) = "pending" /\ k \notin ToSet(pending))
      BY <2>1, <3>2 DEF KeyKnown, Settled
    <3> QED BY <3>1, <3>2
  <2> QED BY <2>1, <2>2 DEF KeyKnown
<1>9. ~(scheduled /\ draining) /\ (probing => pending = <<>> /\ ~draining)
  BY <1>1 DEF LoopKnown
<1> QED BY <1>3, <1>6, <1>7, <1>8, <1>9 DEF EachWaitsOnce

LEMMA Distances ==
  ASSUME NEW s \in Nat, NEW t \in Nat, NEW u \in Nat, NEW near \in Nat,
         Distance(s, t) <= near, Distance(s, u) <= near
  PROVE  t - u <= 2 * near
BY DEF Distance

LEMMA FairlyShared ==
  ASSUME BatchesAssumption, BatchInv, draining, NEW c \in DOMAIN payloads[1],
         NEW samples \in Observations, ~Garbage(samples),
         NEW asking, asking = {k \in work : Asks(payloads, 1, k) /\ k.coin = c}
  PROVE  Fair(asking, samples, [k \in asking |-> AnswerFrom(samples, payloads[1][c], k)])
<1>1. BatchTyped /\ RequestsKnown
  BY DEF BatchInv
<1>2. PICK times : times = payloads[1][c]
  OBVIOUS
<1>3. PICK M : M = Matches(times, samples)
  OBVIOUS
<1>4. PICK answer : answer = [k \in asking |-> AnswerFrom(samples, times, k)]
  OBVIOUS
<1>5. 1 \in 1..Len(payloads)
  BY FirstRequest
<1>6. Spaced(times) /\ \A t \in times : \E k \in work : k.coin = c /\ requested[k] = t
  BY <1>1, <1>2, <1>5 DEF RequestsKnown, AsksFor
<1>7. times \in SUBSET Nat /\ IsFiniteSet(times) /\ \A t, u \in times : t < u => u - t >= Width
  BY <1>6 DEF Spaced
<1>8. samples \in Seq(Sample)
  BY DEF BatchesAssumption
<1>9. PICK n : n = Len(samples)
  OBVIOUS
<1>10. DOMAIN samples = 1..n /\ n \in Nat /\ ToSet(samples) = {samples[i] : i \in 1..n} /\ \A i \in 1..n : samples[i] \in Sample
  BY <1>8, <1>9, MembersOf, ElementOfSeq
<1>11. Strict \in Nat /\ Width \in Nat /\ 2 * Strict < Width
  BY DEF BatchesAssumption
<1>12. \A k \in asking : k \in LookupKey /\ requested[k] \in times /\ requested[k] \in Nat
  BY <1>1, <1>2 DEF Asks, BatchTyped
<1>13. \A t \in times : \E k \in asking : requested[k] = t
  BY <1>2, <1>6 DEF Asks
<1>14. /\ Matching(M, times, samples) /\ \A m \in M : m.delta <= Width
       /\ \A p : IsPair(p, times, samples) /\ p.delta <= Width => \E m \in M : Clash(m, p) /\ m.delta <= p.delta
  BY <1>3, <1>7, <1>8, MatchesTell
<1>15. \A m, o \in M : m.time = o.time \/ m.index = o.index => m = o
  BY <1>14 DEF Matching, Clash
<1>16. ASSUME NEW m \in M
       PROVE  /\ m.time \in times /\ m.time \in Nat /\ m.index \in 1..n /\ m.delta \in Nat /\ m.delta <= Width
              /\ m.delta = Distance(samples[m.index].timestamp, m.time) /\ samples[m.index] \in Sample
              /\ samples[m.index] \in ToSet(samples)
  <2>1. IsPair(m, times, samples)
    BY <1>14 DEF Matching
  <2>2. m.time \in times /\ m.index \in 1..n
    BY <1>10, <2>1 DEF IsPair
  <2>3. m.time \in Nat /\ m.delta \in Nat /\ m.delta = Distance(samples[m.index].timestamp, m.time) /\ samples[m.index] \in Sample
    BY <1>7, <1>8, <2>1, PairKnown
  <2> QED BY <1>10, <1>14, <2>2, <2>3
<1>17. \A k \in asking : Supplied(samples, times, k, answer[k])
  BY <1>4, <1>7, <1>8, AnswerTells
<1>18. ASSUME NEW k \in asking, NEW m \in M, m.time = requested[k] PROVE answer[k] = HoldsSample(samples[m.index])
  BY <1>3, <1>15, <1>17, <1>18 DEF Supplied
<1>19. \A s : HoldsSample(s).state = "price" /\ HoldsSample(s).sample = s
  BY DEF HoldsSample
<1>20. Holds("missing").state = "missing"
  BY DEF Holds
<1>21. ASSUME NEW k \in asking, NEW reach, NEW s \in Near(samples, k, reach)
       PROVE  \E i \in 1..n : s = samples[i] /\ Distance(samples[i].timestamp, requested[k]) <= reach
  BY <1>10, <1>21 DEF Near, Away
<1>22. ASSUME NEW k \in asking, NEW reach, NEW m \in M, m.time = requested[k], m.delta <= reach
       PROVE  /\ answer[k].state = "price" /\ answer[k].sample \in Near(samples, k, reach)
              /\ Away(answer[k].sample, k) = m.delta
  BY <1>16, <1>18, <1>19, <1>22 DEF Near, Away
<1>23. ASSUME NEW k \in asking, NEW i \in 1..n, Distance(samples[i].timestamp, requested[k]) <= Width
       PROVE  \E m \in M : (m.time = requested[k] \/ m.index = i) /\ m.delta <= Distance(samples[i].timestamp, requested[k])
  <2>1. PICK p : p = [time |-> requested[k], index |-> i, delta |-> Distance(samples[i].timestamp, requested[k])]
    OBVIOUS
  <2>2. p.time = requested[k] /\ p.index = i /\ p.delta = Distance(samples[i].timestamp, requested[k])
    BY <2>1
  <2>3. IsPair(p, times, samples)
    BY <1>10, <1>12, <2>1, <2>2 DEF IsPair
  <2> QED BY <1>14, <1>23, <2>2, <2>3 DEF Clash
<1>24. ASSUME NEW k \in asking
       PROVE  answer[k].state = "missing" \/ (answer[k].state = "price" /\ answer[k].sample \in Near(samples, k, Width))
  <2>1. CASE \E m \in M : m.time = requested[k]
    <3>1. PICK m \in M : m.time = requested[k]
      BY <2>1
    <3>2. m.delta <= Width
      BY <1>16
    <3> QED BY <1>22, <3>1, <3>2
  <2>2. CASE \A m \in M : m.time # requested[k]
    BY <1>3, <1>17, <1>20, <2>2 DEF Supplied
  <2> QED BY <2>1, <2>2
<1>25. ASSUME NEW k \in asking, NEW s \in Near(samples, k, Strict)
       PROVE  answer[k].state = "price" /\ answer[k].sample \in Near(samples, k, Strict)
  <2>1. PICK i \in 1..n : s = samples[i] /\ Distance(samples[i].timestamp, requested[k]) <= Strict
    BY <1>21
  <2>2. PICK d : d = Distance(samples[i].timestamp, requested[k])
    OBVIOUS
  <2>3. samples[i].timestamp \in Nat /\ requested[k] \in Nat
    BY <1>10, <1>12 DEF Sample
  <2>4. d \in Nat /\ d <= Strict /\ d <= Width
    <3>1. d \in Nat
      BY <2>2, <2>3 DEF Distance
    <3> QED BY <1>11, <2>1, <2>2, <3>1
  <2>5. PICK m \in M : (m.time = requested[k] \/ m.index = i) /\ m.delta <= d
    BY <1>23, <2>2, <2>4
  <2>6. m.delta <= Strict
    BY <1>11, <1>16, <2>4, <2>5
  <2>7. m.time = requested[k]
    <3>1. SUFFICES ASSUME m.time # requested[k] PROVE FALSE
      OBVIOUS
    <3>2. m.index = i /\ Distance(samples[i].timestamp, m.time) <= Strict
      BY <1>16, <2>5, <2>6, <3>1
    <3>3. PICK t, u : t = m.time /\ u = requested[k]
      OBVIOUS
    <3>4. t \in times /\ u \in times /\ t \in Nat /\ u \in Nat /\ t # u
      BY <1>12, <1>16, <3>1, <3>3
    <3>5. t - u <= 2 * Strict /\ u - t <= 2 * Strict
      BY <1>11, <2>1, <2>3, <3>2, <3>3, <3>4, Distances
    <3>6. t < u \/ u < t
      BY <3>4
    <3>7. (t < u => u - t >= Width) /\ (u < t => t - u >= Width)
      BY <1>7, <3>4
    <3> QED BY <1>11, <3>4, <3>5, <3>6, <3>7
  <2> QED BY <1>22, <2>6, <2>7
<1>26. ASSUME NEW k \in asking, NEW s \in Near(samples, k, Width)
       PROVE  \/ answer[k].state = "price" /\ Away(answer[k].sample, k) <= Away(s, k)
              \/ \E l \in asking : requested[l] # requested[k] /\ answer[l] = HoldsSample(s) /\ Away(s, l) <= Away(s, k)
  <2>1. PICK i \in 1..n : s = samples[i] /\ Distance(samples[i].timestamp, requested[k]) <= Width
    BY <1>21
  <2>2. PICK m \in M : (m.time = requested[k] \/ m.index = i) /\ m.delta <= Distance(samples[i].timestamp, requested[k])
    BY <1>23, <2>1
  <2>3. Away(s, k) = Distance(samples[i].timestamp, requested[k])
    BY <2>1 DEF Away
  <2>4. CASE m.time = requested[k]
    <3>1. m.delta <= Width
      BY <1>16
    <3>2. answer[k].state = "price" /\ Away(answer[k].sample, k) = m.delta
      BY <1>22, <2>4, <3>1
    <3> QED BY <2>2, <2>3, <3>2
  <2>5. CASE m.time # requested[k]
    <3>1. m.index = i
      BY <2>2, <2>5
    <3>2. PICK l \in asking : requested[l] = m.time
      BY <1>13, <1>16
    <3>3. answer[l] = HoldsSample(s)
      BY <1>18, <2>1, <3>1, <3>2
    <3>4. Away(s, l) = m.delta
      BY <1>16, <2>1, <3>1, <3>2 DEF Away
    <3> QED BY <2>2, <2>3, <2>5, <3>2, <3>3, <3>4
  <2> QED BY <2>4, <2>5
<1>27. ASSUME NEW s \in ToSet(samples)
       PROVE  Cardinality({requested[k] : k \in {k \in asking : answer[k] = HoldsSample(s)}})
                <= Cardinality({i \in DOMAIN samples : samples[i] = s})
  <2> DEFINE served == {requested[k] : k \in {k \in asking : answer[k] = HoldsSample(s)}}
             reported == {i \in DOMAIN samples : samples[i] = s}
             Serves(t, i) == \E m \in M : m.time = t /\ m.index = i
             f == [t \in served |-> CHOOSE i \in reported : Serves(t, i)]
  <2>1. ASSUME NEW t \in served PROVE \E i \in reported : Serves(t, i)
    <3>1. PICK k \in asking : answer[k] = HoldsSample(s) /\ t = requested[k]
      OBVIOUS
    <3>2. answer[k].state = "price" /\ answer[k].sample = s
      BY <1>19, <3>1
    <3>3. answer[k] # Holds("missing")
      BY <1>20, <3>2
    <3>4. PICK m \in M : m.time = requested[k] /\ answer[k] = HoldsSample(samples[m.index])
      BY <1>3, <1>17, <3>3 DEF Supplied
    <3>5. samples[m.index] = s
      BY <1>19, <3>2, <3>4
    <3> QED BY <1>10, <1>16, <3>1, <3>4, <3>5
  <2> HIDE DEF served, reported
  <2>2. \A t \in served : f[t] \in reported /\ Serves(t, f[t])
    BY <2>1
  <2> HIDE DEF f
  <2>3. \A t, u \in served : f[t] = f[u] => t = u
    BY <1>15, <2>2
  <2>4. f \in Injection(served, reported)
    <3>1. f \in [served -> reported]
      BY <2>2 DEF f
    <3> QED BY <2>3, <3>1 DEF Injection, IsInjective
  <2>5. IsFiniteSet(reported)
    BY <1>10, FS_Interval, FS_Subset, reported \subseteq 1..n DEF reported
  <2>6. Cardinality(served) <= Cardinality(reported)
    BY <2>4, <2>5, FS_Injection
  <2> QED BY <2>6 DEF served, reported
<1>28. Fair(asking, samples, answer)
  BY <1>24, <1>25, <1>26, <1>27 DEF Fair
<1> QED BY <1>2, <1>4, <1>28

LEMMA SharedFairly ==
  ASSUME BatchesAssumption, BatchInv PROVE SharedOutFairly
<1>1. SUFFICES ASSUME draining, NEW c \in DOMAIN Head(payloads), NEW samples \in Observations, ~Garbage(samples)
               PROVE  \E asking \in {{k \in Members(work, Head(payloads)) : k.coin = c}} :
                        Fair(asking, samples, [k \in asking |-> AnswerFrom(samples, Head(payloads)[c], k)])
  BY DEF SharedOutFairly
<1>2. Head(payloads) = payloads[1]
  BY <1>1, FirstRequest
<1>3. PICK asking : asking = {k \in Members(work, Head(payloads)) : k.coin = c}
  OBVIOUS
<1>4. asking = {k \in work : Asks(payloads, 1, k) /\ k.coin = c}
  BY <1>2, <1>3 DEF Members, Asks
<1>5. Fair(asking, samples, [k \in asking |-> AnswerFrom(samples, payloads[1][c], k)])
  BY <1>1, <1>2, <1>4, FairlyShared
<1> QED BY <1>2, <1>3, <1>5

(* BatchInv is inductive.                                                   *)
LEMMA BatchInvHolds == ASSUME BatchesAssumption PROVE BatchSpec => []BatchInv
<1>1. BatchInit => BatchInv
  BY InitKnown
<1>2. BatchInv /\ [BatchNext]_batchVars => BatchInv'
  BY StepKeeps
<1> QED BY <1>1, <1>2, PTL DEF BatchSpec

(* A look-up of the batched client waits for exactly one thing, the next    *)
(* batch or one request of the batch that drains, is sent at most once, and *)
(* never waits without a timer or a drain; requests are within their limits *)
(* (batched-historical-client.ts:118-141, batch.ts:7-52).                   *)
THEOREM WaitsOnceTheorem == BatchSpec => []EachWaitsOnce
<1>1. BatchInv => EachWaitsOnce
  BY WaitsOnce, BatchesAssumption
<1> QED BY <1>1, BatchInvHolds, BatchesAssumption, PTL

(* Whatever a response holds for a coin is shared out fairly: a look-up goes *)
(* without a close observation only where there is none, and misses one     *)
(* within its window only to a time at least as near to it                  *)
(* (match.ts:15-60, batch.ts:7-23).                                         *)
THEOREM SharedTheorem == BatchSpec => []SharedOutFairly
<1>1. BatchInv => SharedOutFairly
  BY SharedFairly, BatchesAssumption
<1> QED BY <1>1, BatchInvHolds, BatchesAssumption, PTL
==============================================================================
