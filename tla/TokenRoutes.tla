----------------------------- MODULE TokenRoutes -----------------------------
(***************************************************************************)
(* What the two on-chain resolvers, the recursive engine of the request    *)
(* path (PriceEngine) and the offline graph (PriceGraph), have in common:   *)
(* the tokens, what the market sources and the adapters have to say about   *)
(* each of them, the ranking of failures, and the graph notions both        *)
(* resolvers compute.                                                       *)
(***************************************************************************)
EXTENDS Naturals, Sequences, FiniteSets

CONSTANTS Key,        \* targets: a token at a block context
          Roots,      \* the targets asked for
          Worlds,     \* what the outside may say: functions from Key
          MaxDepth    \* longest chain of targets that is followed

ASSUME RoutesAssumption == Roots \subseteq Key /\ MaxDepth \in Nat \ {0}

(* world[k].market is the answer of the market sources for k: a price, a    *)
(* price observed too far from the requested time, a confirmed miss, or the *)
(* class classifyError gives to the error they end in; "unsupported" is     *)
(* what it says of every error it does not know. world[k].plans are the     *)
(* plans that discovery finds for k, in the order in which the adapters are *)
(* tried: the children a plan needs, whether it can derive a price around   *)
(* missing ones, and how it fails: its reads fail ("discover"), revert      *)
(* ("reverts") or end in an error classifyError does not know ("throws"),   *)
(* the calculated price is always ("evaluate") or sometimes ("fragile")     *)
(* refused. Where the adapters of k cannot even be listed (graph.ts:136)    *)
(* one plan that throws stands for all of them.                             *)
VARIABLE world

Market(k) == world[k].market
Plans(k) == world[k].plans

(* Failures, the ones that hide the others first.                           *)
Ranking == <<"retryable", "budget", "invalid", "cycle", "max-depth", "unsupported">>
Reason == {Ranking[i] : i \in DOMAIN Ranking}

Worst(reasons) ==
  IF \E i \in DOMAIN Ranking : Ranking[i] \in reasons
  THEN Ranking[CHOOSE i \in DOMAIN Ranking :
                 Ranking[i] \in reasons /\ \A j \in 1..(i - 1) : Ranking[j] \notin reasons]
  ELSE "unsupported"

(* The plan is never captured, and the class of the error instead of it.    *)
Undiscovered(plan) == plan.fails \in {"discover", "reverts", "throws"}
DiscoveryError(plan) == IF plan.fails = "discover" THEN "retryable" ELSE "unsupported"

(* Whether a captured plan may yield a price, and may be refused.           *)
MayYield(plan) == plan.fails \in {"never", "fragile"}
MayRefuse(plan) == plan.fails \in {"evaluate", "fragile"}

Children(plan) == {plan.deps[i] : i \in DOMAIN plan.deps}

AdapterPlan == [deps : Seq(Key), derive : BOOLEAN,
          fails : {"never", "fragile", "evaluate", "discover", "reverts", "throws"}]

ASSUME WorldsAssumption ==
  Worlds \subseteq [Key -> [market : {"price", "late", "missing"} \cup Reason, plans : Seq(AdapterPlan)]]

-----------------------------------------------------------------------------
(* Directed graphs as functions from a key to the set of its successors.    *)

Closed(succ, S) == \A x \in S : succ[x] \subseteq S

(* There is a path, possibly empty, from `from' to `to'.                    *)
Reaches(succ, from, to) ==
  \A S \in SUBSET Key : from \in S /\ Closed(succ, S) => to \in S

(* No circle: every nonempty set has a member without a successor in it.    *)
Acyclic(succ) ==
  \A S \in SUBSET Key : S # {} => \E x \in S : succ[x] \cap S = {}

-----------------------------------------------------------------------------
(* References the resolvers are compared with. Both are least fixpoints     *)
(* over the world, without depths, budgets, order or concurrency.           *)

LeastFixpoint(Step(_, _)) ==
  {k \in Key : \A S \in SUBSET Key : (\A j \in Key : Step(j, S) => j \in S) => k \in S}

(* A price by this plan, or an error that hides one, is conceivable if the  *)
(* prices in S are. Errors of adapters that classifyError does not know are *)
(* taken for reverts here, as both resolvers take them.                     *)
Promising(plan, S) ==
  \/ plan.fails = "discover"
  \/ ~Undiscovered(plan) /\ Children(plan) \subseteq S
  \/ ~Undiscovered(plan) /\ plan.derive /\ Children(plan) \cap S # {}

ConceivableFrom(k, S) ==
  Market(k) # "missing" \/ \E i \in DOMAIN Plans(k) : Promising(Plans(k)[i], S)

Conceivable == LeastFixpoint(ConceivableFrom)

(* Nothing is known of k and nothing can be.                                *)
Dead(k) == Market(k) = "missing" /\ Plans(k) = <<>>

(* The same for a resolver that derives around dead children only: by the   *)
(* errors classifyError knows, and by every error there is.                 *)
PromisingAroundDead(plan, S) ==
  /\ ~Undiscovered(plan)
  /\ \/ Children(plan) \subseteq S
     \/ plan.derive /\ Children(plan) \cap S # {} /\ \A d \in Children(plan) : d \in S \/ Dead(d)

KnownConceivable(k, S) ==
  \/ Market(k) \notin {"missing", "unsupported"}
  \/ \E i \in DOMAIN Plans(k) : Plans(k)[i].fails = "discover" \/ PromisingAroundDead(Plans(k)[i], S)

ErrorOrConceivable(k, S) ==
  \/ Market(k) # "missing"
  \/ \E i \in DOMAIN Plans(k) :
       Plans(k)[i].fails \in {"discover", "throws"} \/ PromisingAroundDead(Plans(k)[i], S)

(* A price of k follows from market prices by plans that work, if need be   *)
(* derived around dead children.                                            *)
PriceableFrom(k, S) ==
  \/ Market(k) \in {"price", "late"}
  \/ \E i \in DOMAIN Plans(k) :
       LET plan == Plans(k)[i]
       IN /\ plan.fails = "never"
          /\ \A d \in Children(plan) : d \in S \/ (plan.derive /\ Dead(d))
          /\ Children(plan) \cap S # {} \/ plan.deps = <<>>

Priceable == LeastFixpoint(PriceableFrom)
=============================================================================
