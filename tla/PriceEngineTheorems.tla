------------------------- MODULE PriceEngineTheorems --------------------------
(***************************************************************************)
(* The price engine never deadlocks and never takes a cut-off for the       *)
(* absence of a price, for any tokens, plans, limits and interleavings.     *)
(***************************************************************************)
EXTENDS PriceEngine, TokenRouteTheorems, WellFoundedInduction

(* The first plans of an offer, before the n-th, could not have worked.     *)
Exhausted(offer, n, C) == \A i \in DOMAIN offer.plans : i < n => ~Promising(offer.plans[i], C)

(* What a resolution of k knows is right: `offer' is what the outside says  *)
(* of k, C what is conceivable, `gaveUp' whether the caller did.            *)
TaskSound(k, offer, t, C, gaveUp) ==
  /\ t.stage \in {"discover", "calling", "waiting"} =>
       offer.market = "missing" /\ (t.tried \subseteq {"unsupported"} => Exhausted(offer, t.plan, C))
  /\ t.stage \in {"none", "market", "discover"} => t.calls = NoCalls
  /\ t.stage \in {"none", "market"} => t.plan = 1
  /\ t.stage \in {"calling", "waiting"} =>
       /\ t.plan \in DOMAIN offer.plans
       /\ ~Undiscovered(offer.plans[t.plan])
       /\ \A d \in Key : t.calls[d] # "none" => d \in Children(offer.plans[t.plan])
  /\ t.stage = "calling" =>
       t.todo # <<>> /\ \A i \in DOMAIN t.todo : t.todo[i] \in Children(offer.plans[t.plan])
  /\ t.result = "unsupported" => k \notin C
  /\ \A d \in Key : t.calls[d] = "unsupported" => d \notin C
  /\ "aborted" \notin t.tried
  /\ t.result = "aborted" \/ (\E d \in Key : t.calls[d] = "aborted") => gaveUp

AnswersSound ==
  /\ \A k \in Key : failed[k] = "unsupported" => k \notin Conceivable
  /\ \A r \in Roots : answer[r] = "unsupported" => r \notin Conceivable

TasksSound == \A k \in Key : TaskSound(k, world[k], task[k], Conceivable, aborted)

(* The inductive invariant.                                                 *)
EngineSound == world \in Worlds /\ EngineInv /\ TasksSound /\ AnswersSound

-----------------------------------------------------------------------------
(* How the actions write task.                                              *)

LEMMA TaskTyped ==
  ASSUME NEW stage \in Stage, NEW ancestry \in Seq(Key), NEW result \in Answer \ {"pending"}
  PROVE  Task(stage, ancestry, result) \in TaskRecord
BY DEF Task, TaskRecord, NoCalls, Answer

(* A call that ends one resolution changes nothing but its stage and result.*)
LEMMA ConcludeWrites ==
  ASSUME task \in [Key -> TaskRecord], NEW k \in Key, NEW result \in Answer \ {"pending"},
         Conclude(k, result)
  PROVE  /\ task' \in [Key -> TaskRecord]
         /\ \A j \in Key \ {k} : task'[j] = task[j]
         /\ task'[k].stage = "done" /\ task'[k].result = result
         /\ task'[k].calls = task[k].calls /\ task'[k].tried = task[k].tried
<1> DEFINE next == [task[k] EXCEPT !.stage = "done", !.result = result]
<1>1. next \in TaskRecord /\ next.stage = "done" /\ next.result = result
        /\ next.calls = task[k].calls /\ next.tried = task[k].tried
  BY DEF TaskRecord, Stage
<1>2. task' = [task EXCEPT ![k] = next]
  BY DEF Conclude
<1> HIDE DEF next
<1> QED BY <1>1, <1>2

LEMMA MoveToWrites ==
  ASSUME task \in [Key -> TaskRecord], NEW k \in Key, NEW stage \in Stage, MoveTo(k, stage)
  PROVE  /\ task' \in [Key -> TaskRecord]
         /\ \A j \in Key \ {k} : task'[j] = task[j]
         /\ task'[k].stage = stage /\ task'[k].result = task[k].result
         /\ task'[k].calls = task[k].calls /\ task'[k].tried = task[k].tried
         /\ task'[k].plan = task[k].plan
<1> DEFINE next == [task[k] EXCEPT !.stage = stage]
<1>1. next \in TaskRecord /\ next.stage = stage /\ next.result = task[k].result
        /\ next.calls = task[k].calls /\ next.tried = task[k].tried /\ next.plan = task[k].plan
  BY DEF TaskRecord
<1>2. task' = [task EXCEPT ![k] = next]
  BY DEF MoveTo
<1> HIDE DEF next
<1> QED BY <1>1, <1>2

LEMMA NextAdapterWrites ==
  ASSUME task \in [Key -> TaskRecord], NEW k \in Key, NEW reasons \in SUBSET Failure,
         NextAdapter(k, reasons)
  PROVE  /\ task' \in [Key -> TaskRecord]
         /\ \A j \in Key \ {k} : task'[j] = task[j]
         /\ task'[k].stage = "discover" /\ task'[k].result = task[k].result
         /\ task'[k].calls = NoCalls /\ task'[k].tried = task[k].tried \cup reasons
         /\ task'[k].plan = task[k].plan + 1
<1> DEFINE next == [task[k] EXCEPT !.stage = "discover", !.plan = task[k].plan + 1, !.calls = NoCalls,
                                   !.tried = task[k].tried \cup reasons]
<1>1. next \in TaskRecord /\ next.stage = "discover" /\ next.result = task[k].result
        /\ next.calls = NoCalls /\ next.tried = task[k].tried \cup reasons /\ next.plan = task[k].plan + 1
  <2>1. /\ task[k] \in TaskRecord
        /\ task[k].plan + 1 \in Nat \ {0} /\ task[k].tried \cup reasons \in SUBSET Failure
    BY DEF TaskRecord
  <2>2. "discover" \in Stage /\ NoCalls \in [Key -> Answer]
    BY DEF Stage, NoCalls, Answer
  <2> QED BY <2>1, <2>2 DEF TaskRecord
<1>2. task' = [task EXCEPT ![k] = next]
  BY DEF NextAdapter
<1> HIDE DEF next
<1> QED BY <1>1, <1>2

(* Steps that add no wait and end no resolution leave the wait graph as it  *)
(* is, and right.                                                           *)
LEMMA QuietStep ==
  ASSUME EngineInv, NEW k \in Key, waiting' = waiting, task' \in [Key -> TaskRecord],
         \A j \in Key \ {k} : task'[j] = task[j],
         task'[k].calls = task[k].calls \/ task'[k].calls = NoCalls,
         Live(k) => task'[k].stage # "none"
  PROVE  NoCircularWait' /\ WaitsAreKnown'
<1>1. NoCircularWait'
  BY DEF EngineInv, NoCircularWait, Acyclic
<1>2. ASSUME NEW w \in Key, NEW d \in Key, task'[w].calls[d] = "pending"
      PROVE  d \in waiting'[w]
  <2>1. task[w].calls[d] = "pending"
    BY <1>2 DEF NoCalls
  <2> QED BY <2>1 DEF EngineInv, WaitsAreKnown
<1>3. ASSUME NEW w \in Key, NEW d \in Key, d \in waiting'[w]
      PROVE  Live(d)'
  BY <1>3 DEF EngineInv, WaitsAreKnown, Live
<1> QED BY <1>1, <1>2, <1>3 DEF WaitsAreKnown

-----------------------------------------------------------------------------
(* What the least fixpoint says of one key, in terms of its offer.          *)

LEMMA SameWorld ==
  ASSUME world' = world
  PROVE  Conceivable' = Conceivable
BY DEF Conceivable, LeastFixpoint, ConceivableFrom, Market, Plans

(* Once every plan was tried in vain, k cannot have been priced.            *)
LEMMA ExhaustedIsAbsent ==
  ASSUME world \in Worlds, NEW k \in Key, NEW n \in Nat \ {0}, n \notin DOMAIN Plans(k),
         Market(k) = "missing", Exhausted(world[k], n, Conceivable)
  PROVE  k \notin Conceivable
<1>1. Plans(k) \in Seq(AdapterPlan) /\ world[k].plans = Plans(k)
  BY WorldTyped DEF Plans
<1>2. \A i \in DOMAIN Plans(k) : i < n
  BY <1>1
<1>3. ~ConceivableFrom(k, Conceivable)
  BY <1>1, <1>2 DEF ConceivableFrom, Exhausted
<1> QED BY <1>3, ConceivableUnfolds

(* The next plan failed too.                                                *)
LEMMA ExhaustedExtends ==
  ASSUME world \in Worlds, NEW k \in Key, NEW n \in Nat \ {0}, NEW C,
         Exhausted(world[k], n, C), n \in DOMAIN Plans(k) => ~Promising(Plans(k)[n], C)
  PROVE  Exhausted(world[k], n + 1, C)
<1>1. Plans(k) \in Seq(AdapterPlan) /\ world[k].plans = Plans(k)
  BY WorldTyped DEF Plans
<1> QED BY <1>1 DEF Exhausted

-----------------------------------------------------------------------------
(* A step of one resolution that adds no wait keeps the invariant if what   *)
(* the resolution then knows is right.                                      *)
LEMMA OneTaskStep ==
  ASSUME EngineSound, world' = world, NEW k \in Key,
         waiting' = waiting, aborted' = aborted,
         task' \in [Key -> TaskRecord],
         \A j \in Key \ {k} : task'[j] = task[j],
         task'[k].calls = task[k].calls \/ task'[k].calls = NoCalls,
         Live(k) => task'[k].stage # "none",
         successful' \in [Key -> BOOLEAN],
         failed' \in [Key -> Reason \cup {"none"}],
         resolutions' \in 0..ResolutionBudget,
         turn' \in Key \cup {Idle},
         answer' \in [Roots -> Answer],
         TaskSound(k, world[k], task'[k], Conceivable, aborted),
         \A j \in Key : failed'[j] = "unsupported" => j \notin Conceivable,
         \A r \in Roots : answer'[r] = "unsupported" => r \notin Conceivable
  PROVE  EngineSound'
<1>1. NoCircularWait' /\ WaitsAreKnown'
  BY QuietStep DEF EngineSound
<1>2. EngineTypeOK'
  BY DEF EngineSound, EngineInv, EngineTypeOK
<1>3. Conceivable' = Conceivable
  BY SameWorld
<1>4. TasksSound'
  <2> SUFFICES ASSUME NEW j \in Key
               PROVE  TaskSound(j, world[j], task'[j], Conceivable, aborted)
    BY <1>3 DEF TasksSound
  <2> QED BY DEF EngineSound, TasksSound
<1>5. AnswersSound'
  BY <1>3 DEF AnswersSound
<1> QED BY <1>1, <1>2, <1>4, <1>5 DEF EngineSound, EngineInv

(* The market sources never answer that there is no price for good.         *)
LEMMA MarketAnswersStep ==
  ASSUME EngineSound, world' = world, NEW k \in Key, MarketAnswers(k)
  PROVE  EngineSound'
<1>1. EngineTypeOK /\ TaskSound(k, world[k], task[k], Conceivable, aborted) /\ AnswersSound /\ world \in Worlds
  BY DEF EngineSound, EngineInv, TasksSound
<1>2. task[k].stage = "market" /\ task[k].calls = NoCalls /\ "aborted" \notin task[k].tried
  BY <1>1 DEF MarketAnswers, TaskSound
<1>3. Market(k) \in {"price", "late", "missing"} \cup Reason /\ world[k].market = Market(k)
  BY <1>1, WorldTyped DEF Market
<1>4. UNCHANGED <<waiting, resolutions, turn, answer, aborted>>
  BY DEF MarketAnswers
<1>5. "priced" \in Answer \ {"pending"} /\ Reason \subseteq Answer \ {"pending", "aborted"} /\ "discover" \in Stage
  BY ReasonsListed DEF Answer, Failure, Stage
<1>6. CASE Market(k) \in {"price", "late"}
  <2>1. Conclude(k, "priced") /\ successful' = [successful EXCEPT ![k] = TRUE] /\ failed' = failed
    BY <1>6 DEF MarketAnswers
  <2>2. TaskSound(k, world[k], task'[k], Conceivable, aborted)
    BY <1>1, <1>2, <1>5, <2>1, ConcludeWrites DEF TaskSound, EngineTypeOK, NoCalls
  <2> QED BY <1>1, <1>4, <1>5, <2>1, <2>2, ConcludeWrites, OneTaskStep DEF EngineTypeOK, AnswersSound
<1>7. CASE Market(k) = "missing"
  <2>1. MoveTo(k, "discover") /\ successful' = successful /\ failed' = failed
    BY <1>7 DEF MarketAnswers
  <2>2. Exhausted(world[k], task[k].plan, Conceivable)
    BY <1>1, <1>2, WorldTyped DEF TaskSound, Exhausted, Plans
  <2>3. TaskSound(k, world[k], task'[k], Conceivable, aborted)
    BY <1>1, <1>2, <1>3, <1>5, <1>7, <2>1, <2>2, MoveToWrites DEF TaskSound, EngineTypeOK
  <2> QED BY <1>1, <1>4, <1>5, <2>1, <2>3, MoveToWrites, OneTaskStep DEF EngineTypeOK, AnswersSound
<1>8. CASE Market(k) \notin {"price", "late", "missing"}
  <2> DEFINE failure == MarketFailure(k)
  <2>0. failure \in Reason \ {"unsupported"}
    BY <1>3, <1>8, ReasonsListed DEF MarketFailure
  <2>1. /\ Conclude(k, failure)
        /\ failed' = [failed EXCEPT ![k] = failure] /\ successful' = successful
    BY <1>8 DEF MarketAnswers
  <2> HIDE DEF failure
  <2>2. TaskSound(k, world[k], task'[k], Conceivable, aborted)
    BY <1>1, <1>2, <1>5, <2>0, <2>1, ConcludeWrites DEF TaskSound, EngineTypeOK, NoCalls
  <2> QED BY <1>1, <1>4, <1>5, <2>0, <2>1, <2>2, ConcludeWrites, OneTaskStep DEF EngineTypeOK, AnswersSound
<1> QED BY <1>6, <1>7, <1>8

(* A plan whose discovery reverts, or that is left for the next one after   *)
(* absences only, could not have worked.                                    *)
LEMMA LeavePlan ==
  ASSUME EngineSound, world' = world, NEW k \in Key, NEW reasons \in SUBSET Failure,
         task[k].stage \in {"discover", "waiting"}, NextAdapter(k, reasons),
         "aborted" \notin reasons,
         reasons \subseteq {"unsupported"} /\ task[k].plan \in DOMAIN Plans(k)
           => ~Promising(PlanOf(k), Conceivable)
  PROVE  TaskSound(k, world[k], task'[k], Conceivable, aborted)
<1>1. EngineTypeOK /\ TaskSound(k, world[k], task[k], Conceivable, aborted) /\ world \in Worlds
  BY DEF EngineSound, EngineInv, TasksSound
<1>2. /\ task'[k].stage = "discover" /\ task'[k].result = task[k].result
      /\ task'[k].calls = NoCalls /\ task'[k].tried = task[k].tried \cup reasons
      /\ task'[k].plan = task[k].plan + 1
  BY <1>1, NextAdapterWrites DEF EngineTypeOK
<1>3. task[k].plan \in Nat \ {0}
  BY <1>1 DEF EngineTypeOK, TaskRecord
<1>4. task'[k].tried \subseteq {"unsupported"} => Exhausted(world[k], task'[k].plan, Conceivable)
  <2> SUFFICES ASSUME task[k].tried \subseteq {"unsupported"}, reasons \subseteq {"unsupported"}
               PROVE  Exhausted(world[k], task[k].plan + 1, Conceivable)
    BY <1>2
  <2>1. Exhausted(world[k], task[k].plan, Conceivable)
    BY <1>1 DEF TaskSound
  <2> QED BY <1>1, <1>3, <2>1, ExhaustedExtends DEF PlanOf
<1> QED BY <1>1, <1>2, <1>4 DEF TaskSound, NoCalls

(* Discovery that fails in transport is not an absence; one that reverts    *)
(* leaves nothing to price.                                                 *)
LEMMA DiscoverStep ==
  ASSUME EngineSound, world' = world, NEW k \in Key, Discover(k)
  PROVE  EngineSound'
<1>1. EngineTypeOK /\ TaskSound(k, world[k], task[k], Conceivable, aborted) /\ AnswersSound /\ world \in Worlds
  BY DEF EngineSound, EngineInv, TasksSound
<1>2. /\ task[k].stage = "discover" /\ task[k].calls = NoCalls /\ task[k].plan \in DOMAIN Plans(k)
      /\ UNCHANGED <<waiting, successful, failed, resolutions, answer, aborted>>
  BY <1>1 DEF Discover, TaskSound
<1>3. Plans(k) = world[k].plans /\ PlanOf(k) \in AdapterPlan
  BY <1>1, <1>2, WorldTyped DEF Plans, PlanOf
<1>4. Reason \subseteq Failure /\ "unsupported" \in Reason /\ "retryable" \in Reason
        /\ "aborted" \notin Reason /\ {"calling", "waiting"} \subseteq Stage
  BY ReasonsListed DEF Failure, Stage
<1>5. CASE Undiscovered(PlanOf(k))
  <2> DEFINE error == DiscoveryError(PlanOf(k))
  <2>1. NextAdapter(k, {error}) /\ turn' = turn
    BY <1>5 DEF Discover
  <2>2. error \in Reason /\ (error = "unsupported" => ~Promising(PlanOf(k), Conceivable))
    BY <1>4, <1>5 DEF DiscoveryError, Undiscovered, Promising
  <2> HIDE DEF error
  <2>3. TaskSound(k, world[k], task'[k], Conceivable, aborted)
    BY <1>2, <1>4, <2>1, <2>2, LeavePlan
  <2> QED BY <1>1, <1>2, <1>4, <2>1, <2>2, <2>3, NextAdapterWrites, OneTaskStep DEF EngineTypeOK, AnswersSound
<1>6. CASE ~Undiscovered(PlanOf(k)) /\ PlanOf(k).deps = <<>>
  <2>1. MoveTo(k, "waiting") /\ turn' = turn
    BY <1>6 DEF Discover
  <2>2. TaskSound(k, world[k], task'[k], Conceivable, aborted)
    BY <1>1, <1>2, <1>3, <1>4, <1>6, <2>1, MoveToWrites DEF TaskSound, EngineTypeOK, PlanOf, NoCalls
  <2> QED BY <1>1, <1>2, <1>4, <2>1, <2>2, MoveToWrites, OneTaskStep DEF EngineTypeOK, AnswersSound
<1>7. CASE ~Undiscovered(PlanOf(k)) /\ PlanOf(k).deps # <<>>
  <2> DEFINE next == [task[k] EXCEPT !.stage = "calling", !.todo = PlanOf(k).deps]
  <2>1. task' = [task EXCEPT ![k] = next] /\ turn' = k
    BY <1>7 DEF Discover
  <2>2. /\ next \in TaskRecord /\ next.stage = "calling" /\ next.todo = PlanOf(k).deps
        /\ next.calls = task[k].calls /\ next.tried = task[k].tried
        /\ next.plan = task[k].plan /\ next.result = task[k].result
    <3>1. task[k] \in TaskRecord /\ PlanOf(k).deps \in Seq(Key) /\ "calling" \in Stage
      BY <1>1, <1>3, <1>4 DEF EngineTypeOK, AdapterPlan
    <3> QED BY <3>1 DEF TaskRecord
  <2> HIDE DEF next
  <2>3. TaskSound(k, world[k], next, Conceivable, aborted)
    BY <1>1, <1>2, <1>3, <1>7, <2>2 DEF TaskSound, PlanOf, NoCalls, Children
  <2>4. task' \in [Key -> TaskRecord] /\ task'[k] = next /\ \A j \in Key \ {k} : task'[j] = task[j]
    BY <1>1, <2>1, <2>2 DEF EngineTypeOK
  <2> QED BY <1>1, <1>2, <2>1, <2>2, <2>3, <2>4, OneTaskStep DEF EngineTypeOK, AnswersSound
<1> QED BY <1>5, <1>6, <1>7
(* The rejection a plan is left for says nothing of a price only if a child *)
(* the plan cannot do without is absent.                                    *)
LEMMA AdapterFailsStep ==
  ASSUME EngineSound, world' = world, NEW k \in Key, AdapterFails(k)
  PROVE  EngineSound'
<1>1. EngineTypeOK /\ TaskSound(k, world[k], task[k], Conceivable, aborted) /\ AnswersSound /\ world \in Worlds
  BY DEF EngineSound, EngineInv, TasksSound
<1>2. /\ task[k].stage = "waiting" /\ ~aborted
      /\ UNCHANGED <<waiting, successful, failed, resolutions, turn, answer, aborted>>
  BY DEF AdapterFails
<1>3. /\ task[k].plan \in DOMAIN Plans(k) /\ ~Undiscovered(PlanOf(k))
      /\ \A d \in Key : task[k].calls[d] # "none" => d \in Children(PlanOf(k))
      /\ \A d \in Key : task[k].calls[d] = "unsupported" => d \notin Conceivable
      /\ \A d \in Key : task[k].calls[d] # "aborted"
  BY <1>1, <1>2 DEF TaskSound, PlanOf, Plans
<1>4. PICK reason \in Rejections(k) : NextAdapter(k, {reason})
  BY DEF AdapterFails
<1>5. PlanOf(k) \in AdapterPlan
  BY <1>1, <1>3, WorldTyped DEF PlanOf
<1>6. \E d \in Key : reason = task[k].calls[d] /\ reason \in Failure
                     /\ (PlanOf(k).derive => reason # "unsupported")
  <2>1. CASE ~PlanOf(k).derive
    BY <1>4, <2>1 DEF Rejections, Refused
  <2>2. CASE PlanOf(k).derive
    BY <1>4, <1>5, <2>2 DEF Rejections, AdapterPlan
  <2> QED BY <2>1, <2>2
<1>7. {reason} \in SUBSET Failure /\ reason # "aborted"
  BY <1>3, <1>6
<1>8. reason = "unsupported" => ~Promising(PlanOf(k), Conceivable)
  BY <1>3, <1>6 DEF Promising, Undiscovered
<1>9. TaskSound(k, world[k], task'[k], Conceivable, aborted)
  BY <1>2, <1>4, <1>7, <1>8, LeavePlan
<1> QED BY <1>1, <1>2, <1>4, <1>7, <1>9, NextAdapterWrites, OneTaskStep DEF EngineTypeOK, AnswersSound

(* A set of numbers has a least one.                                        *)
LEMMA LeastNatural ==
  ASSUME NEW S \in SUBSET Nat, S # {}
  PROVE  \E i \in S : \A j \in S : i <= j
<1> DEFINE less == {pair \in Nat \X Nat : pair[1] < pair[2]}
<1>1. IsWellFoundedOn(less, Nat)
  BY NatLessThanWellFounded DEF OpToRel
<1> HIDE DEF less
<1>2. PICK i \in S : \A j \in S : ~(<<j, i>> \in less)
  BY <1>1, WFMin
<1>3. ASSUME NEW j \in S PROVE i <= j
  <2>1. <<j, i>> \in less <=> j < i
    BY DEF less
  <2> QED BY <1>2, <2>1
<1> QED BY <1>3

(* If a derivation is not rejected all the failures it met are absences.    *)
LEMMA NoHardRejection ==
  ASSUME NEW k \in Key, PlanOf(k) \in AdapterPlan, PlanOf(k).derive,
         AllAnswered(k), Rejections(k) = {}, Refused(k) = Children(PlanOf(k))
  PROVE  \A d \in Children(PlanOf(k)) : task[k].calls[d] = "unsupported"
<1> DEFINE deps == PlanOf(k).deps
           hard == {i \in DOMAIN deps : task[k].calls[deps[i]] \in Failure \ {"unsupported"}}
<1>1. deps \in Seq(Key) /\ hard \subseteq DOMAIN deps /\ hard \subseteq Nat
  BY DEF AdapterPlan
<1>2. {task[k].calls[deps[i]] : i \in {i \in hard : \A j \in hard : i <= j}} = {}
  BY DEF Rejections
<1>3. hard = {}
  <2> SUFFICES ASSUME hard # {} PROVE FALSE
    OBVIOUS
  <2>1. PICK i \in hard : \A j \in hard : i <= j
    BY <1>1, LeastNatural
  <2> QED BY <1>2, <2>1
<1> QED BY <1>3 DEF Refused, Children

(* A derivation that returns null had no child with a price to rest on.     *)
LEMMA AdapterQuotesStep ==
  ASSUME EngineSound, world' = world, NEW k \in Key, AdapterQuotes(k)
  PROVE  EngineSound'
<1>1. EngineTypeOK /\ TaskSound(k, world[k], task[k], Conceivable, aborted) /\ AnswersSound /\ world \in Worlds
  BY DEF EngineSound, EngineInv, TasksSound
<1>2. /\ task[k].stage = "waiting" /\ AllAnswered(k) /\ Rejections(k) = {}
      /\ UNCHANGED <<waiting, failed, resolutions, turn, answer, aborted>>
  BY DEF AdapterQuotes
<1>3. /\ task[k].plan \in DOMAIN Plans(k) /\ ~Undiscovered(PlanOf(k))
      /\ \A d \in Key : task[k].calls[d] = "unsupported" => d \notin Conceivable
  BY <1>1, <1>2 DEF TaskSound, PlanOf, Plans
<1>4. PlanOf(k) \in AdapterPlan
  BY <1>1, <1>3, WorldTyped DEF PlanOf
<1>5. {"invalid", "priced"} \subseteq Answer \ {"pending", "aborted", "unsupported"} /\ "invalid" \in Failure
  BY ReasonsListed DEF Answer, Failure
<1>6. CASE Refused(k) # {} /\ Refused(k) = Children(PlanOf(k))
  <2>1. NextAdapter(k, {}) /\ successful' = successful
    BY <1>6 DEF AdapterQuotes
  <2>2. ~Promising(PlanOf(k), Conceivable)
    <3>1. PlanOf(k).derive
      BY <1>2, <1>6 DEF Rejections
    <3>2. \A d \in Children(PlanOf(k)) : task[k].calls[d] = "unsupported"
      BY <1>2, <1>4, <1>6, <3>1, NoHardRejection
    <3>3. Children(PlanOf(k)) # {} /\ \A d \in Children(PlanOf(k)) : d \notin Conceivable
      BY <1>3, <1>6, <3>2 DEF Refused
    <3> QED BY <1>3, <3>3 DEF Promising, Undiscovered
  <2>3. TaskSound(k, world[k], task'[k], Conceivable, aborted)
    BY <1>2, <2>1, <2>2, LeavePlan
  <2> QED BY <1>1, <1>2, <2>1, <2>3, NextAdapterWrites, OneTaskStep DEF EngineTypeOK, AnswersSound
<1>7. CASE NextAdapter(k, {"invalid"}) /\ successful' = successful
  <2>1. TaskSound(k, world[k], task'[k], Conceivable, aborted)
    BY <1>2, <1>5, <1>7, LeavePlan
  <2> QED BY <1>1, <1>2, <1>5, <1>7, <2>1, NextAdapterWrites, OneTaskStep DEF EngineTypeOK, AnswersSound
<1>8. CASE successful' = [successful EXCEPT ![k] = TRUE] /\ Conclude(k, "priced")
  <2>1. TaskSound(k, world[k], task'[k], Conceivable, aborted)
    BY <1>1, <1>5, <1>8, ConcludeWrites DEF TaskSound, EngineTypeOK
  <2> QED BY <1>1, <1>2, <1>5, <1>8, <2>1, ConcludeWrites, OneTaskStep DEF EngineTypeOK, AnswersSound
<1> QED BY <1>6, <1>7, <1>8 DEF AdapterQuotes

(* No adapter is left: the verdict is the worst of what was tried.          *)
LEMMA FailStep ==
  ASSUME EngineSound, world' = world, NEW k \in Key, Fail(k)
  PROVE  EngineSound'
<1> DEFINE reason == Worst(task[k].tried)
<1>1. EngineTypeOK /\ TaskSound(k, world[k], task[k], Conceivable, aborted) /\ AnswersSound /\ world \in Worlds
  BY DEF EngineSound, EngineInv, TasksSound
<1>2. /\ task[k].stage = "discover" /\ task[k].plan \notin DOMAIN Plans(k)
      /\ Conclude(k, reason)
      /\ failed' = (IF reason \in Positional THEN failed ELSE [failed EXCEPT ![k] = reason])
      /\ UNCHANGED <<waiting, successful, resolutions, turn, answer, aborted>>
  BY DEF Fail
<1>3. task[k].tried \subseteq Reason /\ task[k].plan \in Nat \ {0}
  BY <1>1 DEF EngineTypeOK, TaskRecord, TaskSound, Failure
<1>4. reason \in Reason
  BY WorstIsReason
<1>5. reason = "unsupported" => k \notin Conceivable
  <2> SUFFICES ASSUME reason = "unsupported" PROVE k \notin Conceivable
    OBVIOUS
  <2>1. task[k].tried \subseteq {"unsupported"}
    BY <1>3, WorstUnsupported
  <2> QED BY <1>1, <1>2, <1>3, <2>1, ExhaustedIsAbsent DEF TaskSound, Market
<1>6. Reason \subseteq Answer \ {"pending", "aborted"}
  BY ReasonsListed DEF Answer, Failure
<1> HIDE DEF reason
<1>7. TaskSound(k, world[k], task'[k], Conceivable, aborted)
  BY <1>1, <1>2, <1>4, <1>5, <1>6, ConcludeWrites DEF TaskSound, EngineTypeOK
<1>8. failed' \in [Key -> Reason \cup {"none"}] /\ \A j \in Key : failed'[j] = "unsupported" => j \notin Conceivable
  BY <1>1, <1>2, <1>4, <1>5 DEF EngineTypeOK, AnswersSound
<1> QED BY <1>1, <1>2, <1>4, <1>6, <1>7, <1>8, ConcludeWrites, OneTaskStep DEF EngineTypeOK, AnswersSound

(* A resolution that was given up says so.                                  *)
LEMMA SeeAbortStep ==
  ASSUME EngineSound, world' = world, NEW k \in Key, SeeAbort(k)
  PROVE  EngineSound'
<1>1. EngineTypeOK /\ TaskSound(k, world[k], task[k], Conceivable, aborted) /\ AnswersSound
  BY DEF EngineSound, EngineInv, TasksSound
<1>2. /\ aborted /\ Conclude(k, "aborted")
      /\ UNCHANGED <<waiting, successful, failed, resolutions, turn, answer, aborted>>
  BY DEF SeeAbort
<1>3. "aborted" \in Answer \ {"pending"}
  BY DEF Answer, Failure
<1>4. TaskSound(k, world[k], task'[k], Conceivable, aborted)
  BY <1>1, <1>2, <1>3, ConcludeWrites DEF TaskSound, EngineTypeOK
<1> QED BY <1>1, <1>2, <1>3, <1>4, ConcludeWrites, OneTaskStep DEF EngineTypeOK, AnswersSound
(* The caller's deadline changes what may be known to be aborted, nothing   *)
(* else.                                                                    *)
LEMMA AbortStep ==
  ASSUME EngineSound, world' = world, Abort
  PROVE  EngineSound'
<1>1. aborted' = TRUE /\ UNCHANGED <<task, waiting, successful, failed, resolutions, turn, answer>>
  BY DEF Abort
<1>2. EngineInv'
  BY <1>1 DEF EngineSound, EngineInv, EngineTypeOK, NoCircularWait, Acyclic, WaitsAreKnown, Live
<1>3. Conceivable' = Conceivable
  BY SameWorld
<1>4. TasksSound'
  <2> SUFFICES ASSUME NEW k \in Key PROVE TaskSound(k, world[k], task[k], Conceivable, TRUE)
    BY <1>1, <1>3 DEF TasksSound
  <2> QED BY DEF EngineSound, TasksSound, TaskSound
<1> QED BY <1>1, <1>2, <1>3, <1>4 DEF EngineSound, AnswersSound

(* A resolution starts without having asked anybody. A root's market        *)
(* sources have failed it before.                                           *)
LEMMA StartedSound ==
  ASSUME world \in Worlds, NEW k \in Key, NEW ancestry \in Seq(Key), ancestry = <<>> => k \in Roots,
         NEW fresh,
         \/ fresh = Task("done", ancestry, "budget")
         \/ fresh = Task(IF ancestry = <<>> THEN "discover" ELSE "market", ancestry, "none")
  PROVE  /\ fresh \in TaskRecord /\ fresh.stage # "none" /\ fresh.calls = NoCalls
         /\ TaskSound(k, world[k], fresh, Conceivable, aborted)
<1>1. {"done", "discover", "market"} \subseteq Stage /\ {"budget", "none"} \subseteq Answer \ {"pending"}
  BY ReasonsListed DEF Stage, Answer, Failure
<1>2. fresh \in TaskRecord
  BY <1>1, TaskTyped
<1>3. ancestry = <<>> => world[k].market = "missing"
  BY EngineAssumption
<1>4. Exhausted(world[k], 1, Conceivable)
  BY WorldTyped DEF Exhausted, Plans
<1> QED BY <1>2, <1>3, <1>4 DEF Task, TaskSound, NoCalls

(* A root is answered from the caches, or joins or starts a resolution.     *)
LEMMA ResolveStep ==
  ASSUME EngineSound, world' = world, NEW r \in Roots, Resolve(r)
  PROVE  EngineSound'
<1>1. EngineTypeOK /\ TaskSound(r, world[r], task[r], Conceivable, aborted) /\ AnswersSound
        /\ world \in Worlds /\ r \in Key
  BY RoutesAssumption DEF EngineSound, EngineInv, TasksSound
<1>2. UNCHANGED <<waiting, successful, turn, aborted>>
  BY DEF Resolve
<1>3. "aborted" \in Answer /\ "pending" \in Answer /\ Cached(r) \in Answer
  BY <1>1 DEF Answer, Failure, Cached, EngineTypeOK
<1>4. CASE /\ UNCHANGED <<task, failed, resolutions>>
           /\ \/ answer' = [answer EXCEPT ![r] = "aborted"]
              \/ answer' = [answer EXCEPT ![r] = Cached(r)]
              \/ answer' = [answer EXCEPT ![r] = "pending"]
  <2>1. answer' \in [Roots -> Answer]
    BY <1>1, <1>3, <1>4 DEF EngineTypeOK
  <2>2. \A q \in Roots : answer'[q] = "unsupported" => q \notin Conceivable
    BY <1>1, <1>4 DEF AnswersSound, Cached, EngineTypeOK
  <2> QED BY <1>1, <1>2, <1>4, <2>1, <2>2, OneTaskStep DEF EngineTypeOK, AnswersSound, Live
<1>5. CASE answer' = [answer EXCEPT ![r] = "pending"] /\ ~Live(r) /\ Start(task, r, <<>>)
  <2>1. PICK fresh : /\ task' = [task EXCEPT ![r] = fresh]
                     /\ \/ fresh = Task("done", <<>>, "budget")
                        \/ fresh = Task(IF <<>> = <<>> THEN "discover" ELSE "market", <<>>, "none")
    BY <1>5 DEF Start
  <2>2. /\ fresh \in TaskRecord /\ fresh.stage # "none" /\ fresh.calls = NoCalls
        /\ TaskSound(r, world[r], fresh, Conceivable, aborted)
    <3>1. <<>> \in Seq(Key) /\ (<<>> = <<>> => r \in Roots)
      OBVIOUS
    <3> QED BY <1>1, <2>1, <3>1, StartedSound, Zenon
  <2>3. task' \in [Key -> TaskRecord] /\ task'[r] = fresh /\ \A j \in Key \ {r} : task'[j] = task[j]
    BY <1>1, <2>1, <2>2 DEF EngineTypeOK
  <2>4. resolutions' \in 0..ResolutionBudget /\ failed' \in [Key -> Reason \cup {"none"}]
          /\ \A j \in Key : failed'[j] = "unsupported" => j \notin Conceivable
    BY <1>1, <1>5, ReasonsListed, EngineAssumption DEF Start, EngineTypeOK, AnswersSound
  <2>5. answer' \in [Roots -> Answer] /\ \A q \in Roots : answer'[q] = "unsupported" => q \notin Conceivable
    BY <1>1, <1>3, <1>5 DEF EngineTypeOK, AnswersSound
  <2> QED BY <1>1, <1>2, <2>2, <2>3, <2>4, <2>5, OneTaskStep DEF EngineTypeOK
<1> QED BY <1>4, <1>5 DEF Resolve
-----------------------------------------------------------------------------
(* A call for a child. What the caller learns at once is a failure it may   *)
(* pass on; else it waits, which the look through the wait graph allows.    *)
LEMMA CallStep ==
  ASSUME EngineSound, world' = world, NEW w \in Key, Call(w)
  PROVE  EngineSound'
<1> DEFINE d == Head(task[w].todo)
           rest == Tail(task[w].todo)
           lineage == Append(task[w].ancestry, w)
           verdict == IF \E i \in DOMAIN lineage : lineage[i] = d THEN "cycle"
                      ELSE IF Len(lineage) >= MaxDepth THEN "max-depth"
                      ELSE IF Cached(d) # "none" THEN Cached(d)
                      ELSE IF WouldDeadlock(w, d) THEN "cycle"
                      ELSE "pending"
           after == [task[w] EXCEPT !.todo = rest,
                                    !.stage = IF rest = <<>> THEN "waiting" ELSE "calling",
                                    !.calls[d] = verdict]
           plan == PlanOf(w)
<1>1. EngineTypeOK /\ TaskSound(w, world[w], task[w], Conceivable, aborted) /\ AnswersSound
        /\ world \in Worlds /\ NoCircularWait /\ WaitsAreKnown
  BY DEF EngineSound, EngineInv, TasksSound
<1>2. task[w] \in TaskRecord /\ task[w].stage = "calling"
  BY <1>1 DEF Call, EngineTypeOK
<1>3. /\ task[w].todo \in Seq(Key) /\ task[w].ancestry \in Seq(Key)
      /\ task[w].todo # <<>> /\ \A i \in DOMAIN task[w].todo : task[w].todo[i] \in Children(plan)
  BY <1>1, <1>2 DEF TaskRecord, TaskSound, PlanOf, Plans
<1>4. d \in Key /\ d \in Children(plan) /\ rest \in Seq(Key)
        /\ \A i \in DOMAIN rest : rest[i] \in Children(plan)
  BY <1>3
<1>5. lineage \in Seq(Key) /\ lineage # <<>> /\ \E i \in DOMAIN lineage : lineage[i] = w
  <2>1. lineage[Len(task[w].ancestry) + 1] = w /\ Len(task[w].ancestry) + 1 \in DOMAIN lineage
    BY <1>3
  <2> QED BY <1>3, <2>1
<1>6. /\ verdict \in Answer \ {"none", "aborted"}
      /\ verdict = "unsupported" => d \notin Conceivable
      /\ verdict = "pending" => d # w /\ ~Reaches(waiting, d, w)
  <2>1. Cached(d) \in Reason \cup {"none", "priced"} /\ (Cached(d) = "unsupported" => d \notin Conceivable)
    BY <1>1, <1>4 DEF Cached, EngineTypeOK, AnswersSound
  <2>2. /\ Reason \subseteq Answer \ {"none", "aborted", "pending"}
        /\ {"cycle", "max-depth", "pending", "priced"} \subseteq Answer \ {"none", "aborted"}
    BY ReasonsListed DEF Answer, Failure
  <2> QED BY <1>5, <2>1, <2>2 DEF WouldDeadlock
<1>7. /\ after \in TaskRecord /\ after.stage \in {"calling", "waiting"}
      /\ after.calls = [task[w].calls EXCEPT ![d] = verdict] /\ after.todo = rest
      /\ after.stage = "calling" => rest # <<>>
      /\ after.tried = task[w].tried /\ after.plan = task[w].plan /\ after.result = task[w].result
  <2> HIDE DEF d, rest, verdict
  <2>1. {"calling", "waiting"} \subseteq Stage
    BY DEF Stage
  <2>2. [task[w].calls EXCEPT ![d] = verdict] \in [Key -> Answer]
    BY <1>2, <1>4, <1>6 DEF TaskRecord
  <2> QED BY <1>2, <1>4, <2>1, <2>2 DEF TaskRecord
<1>8. /\ turn' = (IF rest = <<>> THEN Idle ELSE w)
      /\ UNCHANGED <<successful, answer, aborted>>
      /\ IF verdict # "pending"
         THEN task' = [task EXCEPT ![w] = after] /\ UNCHANGED <<waiting, failed, resolutions>>
         ELSE /\ waiting' = [waiting EXCEPT ![w] = waiting[w] \cup {d}]
              /\ IF Live(d)
                 THEN task' = [task EXCEPT ![w] = after] /\ UNCHANGED <<failed, resolutions>>
                 ELSE Start([task EXCEPT ![w] = after], d, lineage)
  BY DEF Call
<1> HIDE DEF d, rest, lineage, verdict, after, plan
<1>9. TaskSound(w, world[w], after, Conceivable, aborted)
  <2>1. \A c \in Key : after.calls[c] = task[w].calls[c] \/ (c = d /\ after.calls[c] = verdict)
    BY <1>2, <1>4, <1>7 DEF TaskRecord
  <2>2. /\ task[w].plan \in DOMAIN world[w].plans /\ ~Undiscovered(world[w].plans[task[w].plan])
        /\ plan = world[w].plans[task[w].plan]
        /\ \A c \in Key : task[w].calls[c] # "none" => c \in Children(plan)
    BY <1>1, <1>2 DEF TaskSound, PlanOf, Plans, plan
  <2>3. /\ world[w].market = "missing"
        /\ after.tried \subseteq {"unsupported"} => Exhausted(world[w], after.plan, Conceivable)
        /\ after.result = "unsupported" => w \notin Conceivable
        /\ "aborted" \notin after.tried /\ (after.result = "aborted" => aborted)
        /\ \A c \in Key : /\ task[w].calls[c] = "unsupported" => c \notin Conceivable
                          /\ task[w].calls[c] = "aborted" => aborted
    BY <1>1, <1>2, <1>7 DEF TaskSound
  <2>4. \A c \in Key : /\ after.calls[c] # "none" => c \in Children(plan)
                       /\ after.calls[c] = "unsupported" => c \notin Conceivable
                       /\ after.calls[c] = "aborted" => aborted
    BY <1>4, <1>6, <2>1, <2>2, <2>3
  <2>5. after.stage = "calling" => after.todo # <<>> /\ \A i \in DOMAIN after.todo : after.todo[i] \in Children(plan)
    BY <1>4, <1>7
  <2>6. after.stage \notin {"none", "market", "discover"} /\ after.plan = task[w].plan
    BY <1>7
  <2>7. /\ after.plan \in DOMAIN world[w].plans /\ ~Undiscovered(world[w].plans[after.plan])
        /\ plan = world[w].plans[after.plan]
    BY <2>2, <2>6
  <2>8. /\ \A c \in Key : after.calls[c] # "none" => c \in Children(world[w].plans[after.plan])
        /\ after.stage = "calling" =>
             after.todo # <<>> /\ \A i \in DOMAIN after.todo : after.todo[i] \in Children(world[w].plans[after.plan])
    BY <2>4, <2>5, <2>7, Zenon
  <2>9. after.result = "aborted" \/ (\E c \in Key : after.calls[c] = "aborted") => aborted
    BY <2>3, <2>4, Zenon
  <2> QED BY <2>3, <2>4, <2>6, <2>7, <2>8, <2>9, Zenon DEF TaskSound
<1>10. turn' \in Key \cup {Idle}
  BY <1>8
(* Others are not disturbed, unless d is started. *)
<1> DEFINE started(j) == /\ j = d /\ ~Live(d)
                         /\ task'[j].calls = NoCalls /\ task'[j].stage # "none"
                         /\ TaskSound(j, world[j], task'[j], Conceivable, aborted)
<1>11. /\ task' \in [Key -> TaskRecord] /\ task'[w] = after
       /\ \A j \in Key \ {w} : task'[j] = task[j] \/ started(j)
       /\ verdict = "pending" => task'[d].stage # "none"
       /\ resolutions' \in 0..ResolutionBudget /\ failed' \in [Key -> Reason \cup {"none"}]
       /\ \A j \in Key : failed'[j] = "unsupported" => j \notin Conceivable
  <2>1. CASE /\ UNCHANGED <<failed, resolutions>> /\ task' = [task EXCEPT ![w] = after]
             /\ verdict = "pending" => Live(d)
    BY <1>1, <1>4, <1>6, <1>7, <2>1 DEF EngineTypeOK, AnswersSound, Live
  <2>2. CASE verdict = "pending" /\ ~Live(d) /\ Start([task EXCEPT ![w] = after], d, lineage)
    <3>1. PICK fresh : /\ task' = [[task EXCEPT ![w] = after] EXCEPT ![d] = fresh]
                       /\ \/ fresh = Task("done", lineage, "budget")
                          \/ fresh = Task(IF lineage = <<>> THEN "discover" ELSE "market", lineage, "none")
      BY <2>2 DEF Start
    <3>2. /\ fresh \in TaskRecord /\ fresh.stage # "none" /\ fresh.calls = NoCalls
          /\ TaskSound(d, world[d], fresh, Conceivable, aborted)
      BY <1>1, <1>4, <1>5, <3>1, StartedSound
    <3>3. task' \in [Key -> TaskRecord] /\ task'[w] = after /\ task'[d] = fresh
            /\ \A j \in Key \ {w, d} : task'[j] = task[j]
      BY <1>1, <1>4, <1>6, <1>7, <2>2, <3>1, <3>2 DEF EngineTypeOK
    <3>4. resolutions' \in 0..ResolutionBudget /\ failed' \in [Key -> Reason \cup {"none"}]
            /\ \A j \in Key : failed'[j] = "unsupported" => j \notin Conceivable
      BY <1>1, <2>2, ReasonsListed, EngineAssumption DEF Start, EngineTypeOK, AnswersSound
    <3> QED BY <2>2, <3>2, <3>3, <3>4
  <2> QED BY <1>8, <2>1, <2>2
<1>12. NoCircularWait'
  <2>1. CASE verdict # "pending"
    BY <1>1, <1>8, <2>1 DEF NoCircularWait, Acyclic
  <2>2. CASE verdict = "pending"
    BY <1>1, <1>4, <1>6, <1>8, <2>2, AcyclicAdd DEF NoCircularWait, EngineTypeOK
  <2> QED BY <2>1, <2>2
<1>13. WaitsAreKnown'
  <2>1. ASSUME NEW v \in Key, NEW c \in Key, task'[v].calls[c] = "pending"
        PROVE  c \in waiting'[v]
    <3>1. task[v].calls[c] = "pending" \/ (v = w /\ c = d /\ verdict = "pending")
      <4>1. CASE v = w
        <5>1. task[w].calls \in [Key -> Answer] /\ after.calls[c] = "pending"
          BY <1>2, <1>11, <2>1, <4>1 DEF TaskRecord
        <5> QED BY <1>4, <1>7, <4>1, <5>1
      <4>2. CASE v # w
        BY <1>11, <2>1, <4>2 DEF NoCalls
      <4> QED BY <4>1, <4>2
    <3> QED BY <1>1, <1>4, <1>8, <3>1 DEF WaitsAreKnown, EngineTypeOK
  <2>2. ASSUME NEW v \in Key, NEW c \in Key, c \in waiting'[v]
        PROVE  task'[c].stage # "none"
    <3>1. Live(c) \/ (c = d /\ verdict = "pending")
      BY <1>1, <1>8, <2>2 DEF WaitsAreKnown, EngineTypeOK
    <3> QED BY <1>7, <1>11, <3>1 DEF Live
  <2> QED BY <2>1, <2>2 DEF WaitsAreKnown, Live
<1>14. EngineTypeOK'
  <2>1. waiting' \in [Key -> SUBSET Key]
    BY <1>1, <1>4, <1>8 DEF EngineTypeOK
  <2> QED BY <1>1, <1>8, <1>10, <1>11, <2>1 DEF EngineTypeOK
<1>15. Conceivable' = Conceivable
  BY SameWorld
<1>16. TasksSound' /\ AnswersSound'
  <2>1. ASSUME NEW j \in Key PROVE TaskSound(j, world[j], task'[j], Conceivable, aborted)
    BY <1>9, <1>11 DEF EngineSound, TasksSound
  <2>2. TasksSound'
    BY <1>8, <1>15, <2>1 DEF TasksSound
  <2> QED BY <1>1, <1>8, <1>11, <1>15, <2>2 DEF AnswersSound
<1> QED BY <1>1, <1>12, <1>13, <1>14, <1>16 DEF EngineSound, EngineInv

(* The result of a resolution is handed to whoever waits for it, and the    *)
(* waits for it end.                                                        *)
LEMMA SettleStep ==
  ASSUME EngineSound, world' = world, NEW k \in Key, Settle(k)
  PROVE  EngineSound'
<1> DEFINE result == IF aborted THEN "aborted" ELSE task[k].result
           told(w) == [task[w] EXCEPT !.calls[k] = result]
<1>1. EngineTypeOK /\ TasksSound /\ AnswersSound /\ world \in Worlds /\ NoCircularWait /\ WaitsAreKnown
  BY DEF EngineSound, EngineInv
<1>2. /\ waiting' = [w \in Key |-> waiting[w] \ {k}]
      /\ task' = [w \in Key |-> IF w = k THEN NoTask
                               ELSE IF task[w].calls[k] = "pending" THEN told(w) ELSE task[w]]
      /\ answer' = [r \in Roots |-> IF r = k /\ answer[r] = "pending" THEN result ELSE answer[r]]
      /\ UNCHANGED <<successful, failed, resolutions, turn, aborted>>
  BY DEF Settle
<1>3. /\ result \in Answer \ {"pending"}
      /\ result = "unsupported" => k \notin Conceivable
      /\ result = "aborted" => aborted
  BY <1>1 DEF EngineTypeOK, TaskRecord, TasksSound, TaskSound, Answer, Failure
<1> HIDE DEF result
<1>4. NoTask \in TaskRecord /\ TaskSound(k, world[k], NoTask, Conceivable, aborted)
        /\ \A c \in Key : NoTask.calls[c] = "none"
  <2>1. "none" \in Stage /\ "none" \in Answer \ {"pending"} /\ <<>> \in Seq(Key)
    BY DEF Stage, Answer
  <2>2. NoTask \in TaskRecord
    BY <2>1, TaskTyped DEF NoTask
  <2> QED BY <2>2 DEF NoTask, Task, TaskSound, NoCalls
<1>5. ASSUME NEW w \in Key, task[w].calls[k] = "pending"
      PROVE  /\ told(w) \in TaskRecord /\ told(w).stage = task[w].stage
             /\ told(w).calls = [task[w].calls EXCEPT ![k] = result]
             /\ TaskSound(w, world[w], told(w), Conceivable, aborted)
  <2>1. /\ task[w] \in TaskRecord /\ [task[w].calls EXCEPT ![k] = result] \in [Key -> Answer]
        /\ task[w].calls \in [Key -> Answer]
    BY <1>1, <1>3 DEF EngineTypeOK, TaskRecord
  <2>2. /\ told(w) \in TaskRecord /\ told(w).stage = task[w].stage /\ told(w).plan = task[w].plan
        /\ told(w).calls = [task[w].calls EXCEPT ![k] = result] /\ told(w).todo = task[w].todo
        /\ told(w).tried = task[w].tried /\ told(w).result = task[w].result
    BY <2>1 DEF TaskRecord
  <2>3. \A c \in Key : told(w).calls[c] = task[w].calls[c] \/ (c = k /\ told(w).calls[c] = result)
    BY <2>1, <2>2
  <2>4. TaskSound(w, world[w], task[w], Conceivable, aborted)
    BY <1>1 DEF TasksSound
  <2>5. task[w].stage \notin {"none", "market", "discover"}
    BY <1>5, <2>4 DEF TaskSound, NoCalls
  <2> HIDE DEF told
  <2>6. TaskSound(w, world[w], told(w), Conceivable, aborted)
    BY <1>3, <1>5, <2>2, <2>3, <2>4, <2>5 DEF TaskSound
  <2> QED BY <2>2, <2>6
<1> HIDE DEF told
<1>6. task' \in [Key -> TaskRecord]
        /\ \A w \in Key : TaskSound(w, world[w], task'[w], Conceivable, aborted)
  BY <1>1, <1>2, <1>4, <1>5 DEF EngineTypeOK, TasksSound
<1>7. NoCircularWait'
  BY <1>1, <1>2, AcyclicFewer DEF NoCircularWait
<1>8. WaitsAreKnown'
  <2>1. ASSUME NEW w \in Key, NEW c \in Key, task'[w].calls[c] = "pending"
        PROVE  c \in waiting'[w]
    <3>1. c # k /\ task[w].calls[c] = "pending"
      BY <1>1, <1>2, <1>3, <1>4, <1>5, <2>1 DEF EngineTypeOK, TaskRecord
    <3> QED BY <1>1, <1>2, <3>1 DEF WaitsAreKnown
  <2>2. ASSUME NEW w \in Key, NEW c \in Key, c \in waiting'[w]
        PROVE  task'[c].stage # "none"
    <3>1. c # k /\ task[c].stage # "none"
      BY <1>1, <1>2, <2>2 DEF WaitsAreKnown, Live
    <3> QED BY <1>2, <1>5, <3>1
  <2> QED BY <2>1, <2>2 DEF WaitsAreKnown, Live
<1>9. EngineTypeOK'
  BY <1>1, <1>2, <1>3, <1>6 DEF EngineTypeOK
<1>10. Conceivable' = Conceivable
  BY SameWorld
<1>11. TasksSound' /\ AnswersSound'
  BY <1>1, <1>2, <1>3, <1>6, <1>10 DEF TasksSound, AnswersSound
<1> QED BY <1>1, <1>7, <1>8, <1>9, <1>11 DEF EngineSound, EngineInv

-----------------------------------------------------------------------------
LEMMA EngineSoundInit ==
  ASSUME world \in Worlds, EngineInit
  PROVE  EngineSound
<1>1. "none" \in Stage /\ "none" \in Answer \ {"pending"} /\ <<>> \in Seq(Key)
  BY DEF Stage, Answer
<1>2. NoTask \in TaskRecord
  BY <1>1, TaskTyped DEF NoTask
<1>3. EngineTypeOK
  <2>1. 0 \in 0..ResolutionBudget
    BY EngineAssumption
  <2> QED BY <1>1, <1>2, <2>1 DEF EngineInit, EngineTypeOK
<1>4. NoCircularWait /\ WaitsAreKnown
  BY DEF EngineInit, NoCircularWait, Acyclic, WaitsAreKnown, NoTask, Task, NoCalls
<1>5. TasksSound
  BY DEF EngineInit, TasksSound, TaskSound, NoTask, Task, NoCalls
<1>6. AnswersSound
  BY DEF EngineInit, AnswersSound
<1> QED BY <1>3, <1>4, <1>5, <1>6 DEF EngineSound, EngineInv

LEMMA EngineSoundStep ==
  ASSUME EngineSound, [EngineNext /\ UNCHANGED world]_<<world, engineVars>>
  PROVE  EngineSound'
<1>1. CASE UNCHANGED <<world, engineVars>>
  <2>1. EngineInv'
    BY <1>1 DEF EngineSound, EngineInv, EngineTypeOK, NoCircularWait, Acyclic, WaitsAreKnown, Live, engineVars
  <2>2. Conceivable' = Conceivable
    BY <1>1, SameWorld
  <2> QED BY <1>1, <2>1, <2>2 DEF EngineSound, TasksSound, AnswersSound, engineVars
<1>2. CASE EngineNext /\ world' = world
  <2>1. ASSUME NEW r \in Roots, Resolve(r) PROVE EngineSound'
    BY <1>2, <2>1, ResolveStep
  <2>2. ASSUME NEW k \in Key, Work(k) PROVE EngineSound'
    BY <1>2, <2>2, MarketAnswersStep, DiscoverStep, CallStep, AdapterFailsStep, AdapterQuotesStep, FailStep,
       SeeAbortStep, SettleStep DEF Work
  <2>3. CASE Abort
    BY <1>2, <2>3, AbortStep
  <2> QED BY <1>2, <2>1, <2>2, <2>3 DEF EngineNext
<1> QED BY <1>1, <1>2

THEOREM EngineSoundness == EngineSpec => []EngineSound
<1>1. world \in Worlds /\ EngineInit => EngineSound
  BY EngineSoundInit
<1>2. EngineSound /\ [EngineNext /\ UNCHANGED world]_<<world, engineVars>> => EngineSound'
  BY EngineSoundStep
<1> QED BY <1>1, <1>2, PTL DEF EngineSpec

(* Resolutions never wait for each other in a circle, whoever joins whose   *)
(* resolution when, and every wait is one the engine looks through          *)
(* (engine.ts:169-173, 255).                                                *)
THEOREM WaitGraphTheorem == EngineSpec => []EngineInv
<1>1. EngineSound => EngineInv
  BY DEF EngineSound
<1> QED BY <1>1, EngineSoundness, PTL

(* Hence while anything is in flight some resolution is not waiting for     *)
(* another, and the engine cannot stop with callers unanswered.             *)
THEOREM NoDeadlockTheorem == EngineSpec => []SomeoneCanGoOn
<1>1. EngineSound => SomeoneCanGoOn
  <2> SUFFICES ASSUME EngineSound, \E k \in Key : Live(k)
               PROVE  \E k \in Key : Live(k) /\ AllAnswered(k)
    BY DEF SomeoneCanGoOn
  <2> DEFINE live == {k \in Key : Live(k)}
  <2>1. PICK k \in live : waiting[k] \cap live = {}
    BY DEF EngineSound, EngineInv, NoCircularWait, Acyclic
  <2> QED BY <2>1 DEF EngineSound, EngineInv, WaitsAreKnown, AllAnswered
<1> QED BY <1>1, EngineSoundness, PTL

(* A token is never reported as unsupported, to a caller, to a parent or in *)
(* the cache of failures, if a source or a plan might have priced it:       *)
(* depths, budgets, cycles and aborts do not pass for absences              *)
(* (architecture.md:187-190).                                               *)
THEOREM AbsenceTheorem == EngineSpec => []UnsupportedIsAbsent
<1>1. EngineSound => UnsupportedIsAbsent
  BY DEF EngineSound, UnsupportedIsAbsent, TasksSound, TaskSound, AnswersSound
<1> QED BY <1>1, EngineSoundness, PTL
=============================================================================
