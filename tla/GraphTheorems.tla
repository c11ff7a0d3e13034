---------------------------- MODULE GraphTheorems ----------------------------
(***************************************************************************)
(* What the graph resolver promises, for any tokens, plans and limits,      *)
(* whatever is given up and selected anew: what it selects has no circle;   *)
(* discovery stays within its limits and says of every route what it left   *)
(* out; what is accepted rests, along each conversion, on a market price it *)
(* may use and on no more conversions than allowed; and a node is given up  *)
(* only when it has nothing left to try, for reasons that are its own or    *)
(* its inputs'.                                                             *)
(***************************************************************************)
EXTENDS PriceGraph, TokenRouteTheorems, WellFoundedInduction, FiniteSetTheorems,
        SequenceTheorems

-----------------------------------------------------------------------------
(* Numbers *)

(* A set of natural numbers has a least member.                             *)
LEMMA LeastOf ==
  ASSUME NEW S \in SUBSET Nat, S # {}
  PROVE  \E i \in S : \A j \in S : i <= j
<1> DEFINE less == {pair \in Nat \X Nat : pair[1] < pair[2]}
<1>1. IsWellFoundedOn(less, Nat)
  BY NatLessThanWellFounded DEF OpToRel
<1> HIDE DEF less
<1>2. PICK i \in S : \A j \in S : ~(<<j, i>> \in less)
  BY <1>1, WFMin
<1>3. ASSUME NEW j \in S PROVE i <= j
  BY <1>2, <<j, i>> \in less <=> j < i DEF less
<1> QED BY <1>3

(* A bounded set of natural numbers has a greatest member.                  *)
LEMMA GreatestOf ==
  ASSUME NEW S \in SUBSET Nat, S # {}, NEW m \in Nat, \A i \in S : i <= m
  PROVE  \E i \in S : \A j \in S : j <= i
<1> DEFINE rest == {m - i : i \in S}
<1>1. rest \in SUBSET Nat /\ rest # {}
  <2>1. \A i \in S : m - i \in Nat
    OBVIOUS
  <2> QED BY <2>1
<1> HIDE DEF rest
<1>2. PICK r \in rest : \A q \in rest : r <= q
  BY <1>1, LeastOf
<1>3. PICK i \in S : r = m - i
  BY DEF rest
<1>4. \A j \in S : m - j \in rest
  BY DEF rest
<1>5. ASSUME NEW j \in S PROVE j <= i
  BY <1>2, <1>3, <1>4
<1> QED BY <1>5

-----------------------------------------------------------------------------
(* Selections *)

(* A captured route: its plan never changes.                                *)
IsRoute(route) == route = [plan |-> route.plan, cut |-> route.cut, error |-> route.error]

RoutesKept ==
  /\ routes = [k \in Key |-> routes[k]] /\ selected = [k \in Key |-> selected[k]]
  /\ \A k \in Key : /\ routes[k] = [i \in DOMAIN routes[k] |-> routes[k][i]]
                    /\ \A i \in DOMAIN routes[k] : IsRoute(routes[k][i])
                    /\ selected[k] # 0 => selected[k] \in DOMAIN routes[k]
                    /\ phase = "frontier" => selected[k] = 0

(* The inductive invariant.                                                 *)
GraphSound == RoutesKept /\ SelectionAcyclic

(* Cutting children off and marking a route leave its plan alone.           *)
LEMMA RouteMarked ==
  ASSUME NEW route, IsRoute(route), NEW x
  PROVE  /\ IsRoute([route EXCEPT !.cut = x]) /\ [route EXCEPT !.cut = x].plan = route.plan
         /\ IsRoute([route EXCEPT !.error = x]) /\ [route EXCEPT !.error = x].plan = route.plan
<1>1. DOMAIN route = {"plan", "cut", "error"}
  BY DEF IsRoute
<1> QED BY <1>1 DEF IsRoute

(* What changes no plan and no selection closes no circle.                  *)
LEMMA SelectionKept ==
  ASSUME GraphSound, selected' = selected,
         \A k \in Key : selected[k] # 0 => ChildrenOf(k, selected[k])' = ChildrenOf(k, selected[k])
  PROVE  SelectionAcyclic'
<1>1. Selection' = Selection
  BY DEF Selection
<1> QED BY <1>1 DEF GraphSound, SelectionAcyclic, Acyclic

LEMMA GraphSoundInit ==
  ASSUME GraphInit
  PROVE  GraphSound
<1>1. RoutesKept
  BY DEF GraphInit, RoutesKept
<1>2. SelectionAcyclic
  BY DEF GraphInit, SelectionAcyclic, Selection, Acyclic
<1> QED BY <1>1, <1>2 DEF GraphSound

(* Discovery comes before any selection.                                    *)
LEMMA DiscoveryStep ==
  ASSUME GraphSound, Frontier \/ \E k \in Key : ResolveNode(k)
  PROVE  GraphSound'
<1>1. selected' = selected /\ \A k \in Key : selected[k] = 0
  BY DEF Frontier, ResolveNode, GraphSound, RoutesKept
<1>2. SelectionAcyclic'
  BY <1>1, SelectionKept
<1>3. CASE Frontier
  <2> DEFINE cutOff(k, i) == Children(routes[k][i].plan) \ (Found \cup ToSet(Admitted))
             cutRoute(k, i) == [routes[k][i] EXCEPT !.cut = cutOff(k, i)]
  <2>1. routes' = [k \in Key |->
               IF k \notin ToSet(frontier) THEN routes[k]
               ELSE [i \in DOMAIN routes[k] |-> cutRoute(k, i)]]
    BY <1>3 DEF Frontier
  <2>2. ASSUME NEW k \in Key, NEW i \in DOMAIN routes[k] PROVE IsRoute(cutRoute(k, i))
    BY RouteMarked DEF GraphSound, RoutesKept
  <2> HIDE DEF cutRoute
  <2>3. ASSUME NEW k \in Key
        PROVE  /\ routes'[k] = [i \in DOMAIN routes'[k] |-> routes'[k][i]]
               /\ \A i \in DOMAIN routes'[k] : IsRoute(routes'[k][i])
    <3>1. CASE k \notin ToSet(frontier)
      BY <2>1, <3>1 DEF GraphSound, RoutesKept
    <3>2. CASE k \in ToSet(frontier)
      BY <2>1, <2>2, <3>2
    <3> QED BY <3>1, <3>2
  <2>4. routes' = [k \in Key |-> routes'[k]] /\ selected' = [k \in Key |-> selected'[k]]
    BY <1>1, <2>1 DEF GraphSound, RoutesKept
  <2> QED BY <1>1, <1>2, <2>3, <2>4 DEF GraphSound, RoutesKept
<1>4. ASSUME NEW k \in Key, ResolveNode(k)
      PROVE  RoutesKept'
  BY <1>1, <1>4 DEF ResolveNode, GraphSound, RoutesKept, Route, IsRoute
<1> QED BY <1>2, <1>3, <1>4 DEF GraphSound

(* A calculation that fails, and depths that are found too great, mark      *)
(* routes and leave their children alone.                                   *)
LEMMA RefuseRouteStep ==
  ASSUME GraphSound, NEW k \in Key, RefuseRoute(k)
  PROVE  GraphSound'
<1>1. PICK i \in DOMAIN routes[k] :
        routes' = [routes EXCEPT ![k] = [routes[k] EXCEPT ![i] = [routes[k][i] EXCEPT !.error = FailureOf(k, i)]]]
  BY DEF RefuseRoute, Turn, Eligible
<1> DEFINE marked == [routes[k][i] EXCEPT !.error = FailureOf(k, i)]
<1>2. IsRoute(marked) /\ marked.plan = routes[k][i].plan
  BY RouteMarked DEF GraphSound, RoutesKept
<1>3. routes' = [routes EXCEPT ![k] = [routes[k] EXCEPT ![i] = marked]]
  BY <1>1
<1> HIDE DEF marked
<1>4. selected' = selected /\ phase' = phase
  BY DEF RefuseRoute
<1>5. \A j \in Key : /\ routes'[j] = [n \in DOMAIN routes[j] |-> routes'[j][n]]
                    /\ \A n \in DOMAIN routes[j] : IsRoute(routes'[j][n]) /\ routes'[j][n].plan = routes[j][n].plan
  BY <1>2, <1>3 DEF GraphSound, RoutesKept
<1>6. SelectionAcyclic'
  BY <1>4, <1>5, SelectionKept DEF GraphSound, RoutesKept, ChildrenOf
<1>7. RoutesKept'
  BY <1>3, <1>4, <1>5 DEF GraphSound, RoutesKept
<1> QED BY <1>6, <1>7 DEF GraphSound

LEMMA MarkTooDeepStep ==
  ASSUME GraphSound, MarkTooDeep
  PROVE  GraphSound'
<1> DEFINE marked(k, i) == IF k \in Found /\ TooDeep(k, i) THEN [routes[k][i] EXCEPT !.error = "max-depth"]
                           ELSE routes[k][i]
<1>1. routes' = [k \in Key |-> [i \in DOMAIN routes[k] |-> marked(k, i)]]
        /\ selected' = selected /\ phase' = "classify"
  BY DEF MarkTooDeep
<1>2. ASSUME NEW k \in Key, NEW i \in DOMAIN routes[k]
      PROVE  IsRoute(marked(k, i)) /\ marked(k, i).plan = routes[k][i].plan
  BY RouteMarked DEF GraphSound, RoutesKept
<1> HIDE DEF marked
<1>3. SelectionAcyclic'
  BY <1>1, <1>2, SelectionKept DEF GraphSound, RoutesKept, ChildrenOf
<1>4. RoutesKept'
  BY <1>1, <1>2 DEF GraphSound, RoutesKept
<1> QED BY <1>3, <1>4 DEF GraphSound

(* A selected route's children do not rest on the node.                     *)
LEMMA SelectRouteStep ==
  ASSUME GraphSound, NEW k \in Key, SelectRoute(k)
  PROVE  GraphSound'
<1>1. PICK i \in DOMAIN routes[k] : /\ selected' = [selected EXCEPT ![k] = i]
                                   /\ \A d \in ChildrenOf(k, i) : ~Reaches(Selection, d, k)
  BY DEF SelectRoute, Turn, Eligible
<1>2. routes' = routes /\ (phase' = "frontier" => phase = "frontier") /\ phase = "select"
  BY DEF SelectRoute, Advance, AtNode
<1>3. RoutesKept'
  BY <1>1, <1>2 DEF GraphSound, RoutesKept
<1>4. \A j \in Key \ {k} : Selection'[j] = Selection[j]
  BY <1>1, <1>2 DEF Selection, ChildrenOf, GraphSound, RoutesKept
<1>5. Selection'[k] \subseteq ChildrenOf(k, i)
  BY <1>1, <1>2 DEF Selection, ChildrenOf, GraphSound, RoutesKept
<1>6. SelectionAcyclic'
  BY <1>1, <1>4, <1>5, AcyclicReplace DEF GraphSound, SelectionAcyclic
<1> QED BY <1>3, <1>6 DEF GraphSound

LEMMA GraphSoundStep ==
  ASSUME GraphSound, [GraphNext /\ UNCHANGED world]_<<world, graphVars>>
  PROVE  GraphSound'
<1>1. ASSUME UNCHANGED <<routes, selected>>, phase' = "frontier" => phase = "frontier"
      PROVE  GraphSound'
  <2>1. SelectionAcyclic'
    BY <1>1, SelectionKept DEF ChildrenOf
  <2> QED BY <1>1, <2>1 DEF GraphSound, RoutesKept
<1>2. CASE UNCHANGED <<world, graphVars>>
  BY <1>1, <1>2 DEF graphVars
<1>3. CASE \E k \in Key : PassNode(k)
  BY <1>1, <1>3 DEF PassNode, Advance
<1>4. CASE Classify \/ Propagate \/ Validate
  BY <1>1, <1>4 DEF Classify, Propagate, Validate
<1> QED BY <1>2, <1>3, <1>4, DiscoveryStep, RefuseRouteStep, SelectRouteStep, MarkTooDeepStep DEF GraphNext

(* Selections form an acyclic graph even when the discovered alternatives   *)
(* contain cycles (graph.ts:187-188), so that heights and the visit of the  *)
(* validation are well defined.                                             *)
THEOREM SelectionTheorem == GraphSpec => []SelectionAcyclic
<1>1. world \in Worlds /\ GraphInit => GraphSound
  BY GraphSoundInit
<1>2. GraphSound /\ [GraphNext /\ UNCHANGED world]_<<world, graphVars>> => GraphSound'
  BY GraphSoundStep
<1>3. GraphSound => SelectionAcyclic
  BY DEF GraphSound
<1> QED BY <1>1, <1>2, <1>3, PTL DEF GraphSpec


-----------------------------------------------------------------------------
(* Routes have been selected for good and marked.                           *)
Classifying == phase \in {"classify", "propagate", "classified", "validated"}

GraphTyped ==
  /\ world \in Worlds
  /\ phase \in {"frontier", "select", "mark"} \/ Classifying
  /\ maxNodes \in Nat /\ found \in Seq(Key) /\ Len(found) <= maxNodes
  /\ cursor \in 0 .. Len(found) /\ changed \in BOOLEAN
  /\ frontier \in Seq(Key) /\ open \subseteq ToSet(frontier) /\ ToSet(frontier) \subseteq Found
  /\ depth \in [Key -> 0 .. MaxDepth - 1] /\ height \in [Key -> Nat]
  /\ market \in [Key -> {"not-attempted", "price", "missing", "error"}]
  /\ attempts \in [Key -> SUBSET Reason]
  /\ stale \subseteq Key /\ accepted \subseteq Roots
  /\ reason = [k \in Key |-> reason[k]]

(* What a node holds once it is resolved, and before.                       *)
ResolvedAs(k) ==
  IF Market(k) \in {"price", "late"}
  THEN market[k] = "price" /\ DOMAIN routes[k] = {} /\ attempts[k] = {}
  ELSE /\ market[k] = IF Market(k) = "missing" THEN "missing" ELSE "error"
       /\ DOMAIN routes[k] = Captured(k)
       /\ \A i \in Captured(k) : routes[k][i].plan = Plans(k)[i]
       /\ attempts[k] = Uncaptured(k) \cup ({Market(k)} \ {"missing"})
Untouched(k) == market[k] = "not-attempted" /\ DOMAIN routes[k] = {} /\ attempts[k] = {}

DiscoveryKnown ==
  /\ phase # "frontier" => open = {}
  /\ \A k \in Key : IF k \in Found \ open THEN ResolvedAs(k) ELSE Untouched(k)

(* A cut-off child is not found later: the limit that cut it off is final.  *)
CutsKnown ==
  \A k \in Key : \A i \in DOMAIN routes[k] :
    /\ routes[k][i].cut \cap Found = {}
    /\ phase = "frontier" /\ routes[k][i].cut # {} => Len(found) = maxNodes
    /\ (phase = "frontier" /\ k \in ToSet(frontier)) \/ ChildrenOf(k, i) \subseteq routes[k][i].cut \cup Found

Supports(k, i, d) == d \in Found /\ (HasPath(d) \/ (routes[k][i].plan.derive /\ IsTerminalMiss(d)))
SelectedKnown(k) ==
  /\ k \in Found /\ market[k] # "price" /\ depth[k] + height[k] < MaxDepth
  /\ \A d \in ChildrenOf(k, selected[k]) : Supports(k, selected[k], d)
  /\ k \notin stale => height[k] = HeightVia(k, selected[k])
SelectionKnown ==
  \A k \in Key : IF selected[k] = 0 THEN height[k] = 0 /\ k \notin stale ELSE SelectedKnown(k)

ErrorKnown(k, i) ==
  /\ routes[k][i].error \in {"none", "unsupported", "invalid", "max-depth"}
  /\ phase = "frontier" => routes[k][i].error = "none"
  /\ routes[k][i].error = "unsupported" => ChildrenOf(k, i) # {} /\ \A d \in ChildrenOf(k, i) : IsTerminalMiss(d)
  /\ routes[k][i].error = "invalid" => MayRefuse(routes[k][i].plan)
  /\ routes[k][i].error = "max-depth" => Classifying /\ Usable(k, i) /\ ~WithinDepth(k, i)
  /\ Classifying /\ ~HasPath(k) /\ routes[k][i].error = "none" /\ Usable(k, i) => WithinDepth(k, i)
ErrorsKnown == \A k \in Key : \A i \in DOMAIN routes[k] : ErrorKnown(k, i)

Behind(k) == \E n \in DOMAIN found : n > cursor /\ found[n] = k
PassedOver(k) == \A i \in Turn(k) : UpToDate(k, i)
PassKnown ==
  /\ phase = "select" /\ ~changed => \A k \in Key : Behind(k) => PassedOver(k)
  /\ phase = "mark" \/ Classifying => \A k \in Found : HasPath(k) \/ Eligible(k) = {}

OwnReasons(k) == attempts[k] \cup RouteReasons(k) \cup CutReasons(k)
ReasonsKnown ==
  /\ phase \in {"propagate", "classified", "validated"} =>
       \A k \in Key : IF k \in Unresolved
                       THEN /\ reason[k] \in Reason
                            /\ reason[k] = "unsupported" => OwnReasons(k) \subseteq {"unsupported"}
                       ELSE reason[k] = "none"
  /\ phase = "classified" =>
       \A k \in Unresolved : reason[k] = Worst({reason[j] : j \in {k} \cup Blockers(k)})

AcceptedKnown ==
  /\ phase # "validated" => accepted = {}
  /\ \A r \in accepted : HasPath(r) /\ \A k \in Visited(r) : Valid(k)

GraphKnown == /\ GraphTyped /\ DiscoveryKnown /\ CutsKnown /\ SelectionKnown /\ ErrorsKnown
              /\ PassKnown /\ ReasonsKnown /\ AcceptedKnown

-----------------------------------------------------------------------------
(* A relation that orders the members of a set, and their ranks in it.      *)
Orders(less, S) ==
  /\ \A x \in S : <<x, x>> \notin less
  /\ \A x, y, z \in S : <<x, y>> \in less /\ <<y, z>> \in less => <<x, z>> \in less
  /\ \A x, y \in S : <<x, y>> \in less \/ <<y, x>> \in less \/ x = y
RankIn(less, S, x) == Cardinality({y \in S : <<y, x>> \in less})
RanksTell(less, S) ==
  /\ Cardinality(S) \in Nat
  /\ \A x \in S : RankIn(less, S, x) \in 0 .. Cardinality(S) - 1
  /\ \A x, z \in S : RankIn(less, S, x) = RankIn(less, S, z) => x = z
  /\ \A k \in 0 .. Cardinality(S) - 1 : \E x \in S : RankIn(less, S, x) = k

(* The members of a finite set can be told by their rank.                   *)
LEMMA RanksIn ==
  ASSUME NEW S, IsFiniteSet(S), NEW less, Orders(less, S)
  PROVE  RanksTell(less, S)
<1> DEFINE below(x) == {y \in S : <<y, x>> \in less}
           n == Cardinality(S)
           rank == [x \in S |-> Cardinality(below(x))]
<1>1. n \in Nat
  BY FS_CardinalityType
<1>2. ASSUME NEW x \in S
      PROVE  IsFiniteSet(below(x)) /\ Cardinality(below(x)) \in Nat /\ Cardinality(below(x)) < n
  <2>1. below(x) \in SUBSET S /\ x \notin below(x)
    BY DEF Orders
  <2> HIDE DEF below
  <2>2. IsFiniteSet(below(x)) /\ Cardinality(below(x)) <= n /\ Cardinality(below(x)) # n
    BY <2>1, FS_Subset
  <2>3. Cardinality(below(x)) \in Nat
    BY <2>2, FS_CardinalityType
  <2> QED BY <1>1, <2>2, <2>3
<1>3. ASSUME NEW x \in S, NEW z \in S, <<x, z>> \in less PROVE Cardinality(below(x)) < Cardinality(below(z))
  <2>1. below(x) \cup {x} \in SUBSET below(z)
    BY <1>3 DEF Orders
  <2>2. x \notin below(x)
    BY DEF Orders
  <2> HIDE DEF below
  <2>3. Cardinality(below(x) \cup {x}) = Cardinality(below(x)) + 1
    BY <1>2, <2>2, FS_AddElement
  <2>4. Cardinality(below(x) \cup {x}) <= Cardinality(below(z))
    BY <1>2, <2>1, FS_Subset
  <2> QED BY <1>2, <2>3, <2>4
<1> HIDE DEF below
<1>4. ASSUME NEW x \in S, NEW z \in S, Cardinality(below(x)) = Cardinality(below(z)) PROVE x = z
  <2>1. Cardinality(below(x)) \in Nat /\ <<x, z>> \notin less /\ <<z, x>> \notin less
    BY <1>2, <1>3, <1>4
  <2> QED BY <2>1 DEF Orders
<1>5. \A x \in S : Cardinality(below(x)) \in 0 .. n - 1
  BY <1>1, <1>2
<1>6. rank \in Injection(S, 0 .. n - 1)
  BY <1>4, <1>5 DEF Injection, IsInjective
<1>7. IsFiniteSet(0 .. n - 1) /\ Cardinality(0 .. n - 1) = n
  <2>1. 0 \in Int /\ n - 1 \in Int
    BY <1>1
  <2>2. IsFiniteSet(0 .. n - 1) /\ Cardinality(0 .. n - 1) = IF 0 > n - 1 THEN 0 ELSE n - 1 - 0 + 1
    BY <2>1, FS_Interval
  <2> HIDE DEF n
  <2> QED BY <1>1, <2>2
<1>8. rank \in Surjection(S, 0 .. n - 1)
  BY <1>6, <1>7, FS_Injection
<1>9. \A k \in 0 .. n - 1 : \E x \in S : Cardinality(below(x)) = k
  BY <1>8 DEF Surjection
<1> QED BY <1>1, <1>4, <1>5, <1>9 DEF below, RanksTell, RankIn

(* Ordered places are read one after the other.                             *)
LEMMA ReadBeforeOrders ==
  /\ \A m \in Nat \X Nat \X Nat : ~ReadBefore(m, m)
  /\ \A m, o, t \in Nat \X Nat \X Nat : ReadBefore(m, o) /\ ReadBefore(o, t) => ReadBefore(m, t)
  /\ \A m, o \in Nat \X Nat \X Nat : ReadBefore(m, o) \/ ReadBefore(o, m) \/ m = o
<1>1. ASSUME NEW m \in Nat \X Nat \X Nat
      PROVE  m = <<m[1], m[2], m[3]>> /\ m[1] \in Nat /\ m[2] \in Nat /\ m[3] \in Nat
  OBVIOUS
<1>2. ASSUME NEW m \in Nat \X Nat \X Nat, NEW o \in Nat \X Nat \X Nat, ~ReadBefore(m, o), ~ReadBefore(o, m)
      PROVE  m = o
  <2>1. m[1] = o[1] /\ m[2] = o[2] /\ m[3] = o[3]
    BY <1>1, <1>2 DEF ReadBefore
  <2> QED BY <1>1, <2>1
<1>3. \A m \in Nat \X Nat \X Nat : ~ReadBefore(m, m)
  BY <1>1 DEF ReadBefore
<1>4. \A m, o, t \in Nat \X Nat \X Nat : ReadBefore(m, o) /\ ReadBefore(o, t) => ReadBefore(m, t)
  BY <1>1 DEF ReadBefore
<1> QED BY <1>2, <1>3, <1>4

-----------------------------------------------------------------------------
(* A captured route has the plan that was discovered for the node at its    *)
(* place, and only resolved nodes without a market price have routes.       *)
LEMMA RoutesTyped ==
  ASSUME GraphTyped, DiscoveryKnown, NEW k \in Key, NEW i \in DOMAIN routes[k]
  PROVE  /\ k \in Found \ open /\ ResolvedAs(k) /\ Market(k) \notin {"price", "late"} /\ market[k] # "price"
         /\ i \in Captured(k) /\ i \in 1 .. Len(Plans(k)) /\ i \in Nat \ {0} /\ Len(Plans(k)) \in Nat
         /\ routes[k][i].plan = Plans(k)[i] /\ routes[k][i].plan \in AdapterPlan
         /\ routes[k][i].plan.deps \in Seq(Key) /\ ~Undiscovered(routes[k][i].plan)
         /\ ChildrenOf(k, i) \subseteq Key
<1>1. k \in Found \ open /\ ResolvedAs(k)
  BY DEF DiscoveryKnown, Untouched
<1>2. Market(k) \notin {"price", "late"} /\ market[k] # "price" /\ i \in Captured(k) /\ routes[k][i].plan = Plans(k)[i]
  BY <1>1 DEF ResolvedAs
<1>3. PICK plans : plans = Plans(k)
  OBVIOUS
<1>4. plans \in Seq(AdapterPlan)
  BY <1>3, WorldTyped DEF GraphTyped
<1>5. Len(plans) \in Nat /\ DOMAIN plans = 1 .. Len(plans) /\ \A n \in 1 .. Len(plans) : plans[n] \in AdapterPlan
  BY <1>4, LenProperties, ElementOfSeq
<1>6. i \in 1 .. Len(plans) /\ ~Undiscovered(plans[i]) /\ i \in Nat \ {0}
  BY <1>2, <1>3, <1>5 DEF Captured
<1>7. PICK plan : plan = plans[i]
  OBVIOUS
<1>8. plan \in AdapterPlan /\ plan.deps \in Seq(Key)
  BY <1>5, <1>6, <1>7 DEF AdapterPlan
<1>9. \A n \in DOMAIN plan.deps : plan.deps[n] \in Key
  BY <1>8, ElementOfSeq, LenProperties
<1>10. ChildrenOf(k, i) \subseteq Key
  BY <1>2, <1>3, <1>7, <1>9 DEF ChildrenOf, Children
<1> QED BY <1>1, <1>2, <1>3, <1>5, <1>6, <1>7, <1>8, <1>10

(* The frontier names its children at finitely many places.                 *)
LEMMA MentionsListed ==
  ASSUME GraphTyped, DiscoveryKnown
  PROVE  /\ IsFiniteSet(Mentions) /\ Mentions \subseteq Nat \X Nat \X Nat
         /\ \A m \in Mentions : Named(m) \in Key
<1> DEFINE deps(n, i) == routes[frontier[n]][i].plan.deps
           ofRoute(n, i) == {<<n, i, j>> : j \in DOMAIN deps(n, i)}
           ofNode(n) == UNION {ofRoute(n, i) : i \in DOMAIN routes[frontier[n]]}
<1>1. /\ Len(frontier) \in Nat /\ DOMAIN frontier = 1 .. Len(frontier)
      /\ \A n \in DOMAIN frontier : n \in Nat /\ frontier[n] \in Key
  BY LenProperties, ElementOfSeq DEF GraphTyped
<1>2. Mentions = UNION {ofNode(n) : n \in DOMAIN frontier}
  BY DEF Mentions
<1>3. ASSUME NEW n \in DOMAIN frontier, NEW i \in DOMAIN routes[frontier[n]]
      PROVE  /\ IsFiniteSet(ofRoute(n, i)) /\ ofRoute(n, i) \subseteq Nat \X Nat \X Nat
             /\ \A j \in DOMAIN deps(n, i) : deps(n, i)[j] \in Key
  <2>1. i \in Nat /\ deps(n, i) \in Seq(Key)
    BY <1>1, RoutesTyped
  <2>2. PICK d : d = deps(n, i)
    OBVIOUS
  <2>3. Len(d) \in Nat /\ DOMAIN d = 1 .. Len(d) /\ \A j \in DOMAIN d : d[j] \in Key
    BY <2>1, <2>2, LenProperties, ElementOfSeq
  <2>4. IsFiniteSet(DOMAIN d)
    BY <2>3, FS_Interval, 1 \in Int, Len(d) \in Int
  <2>5. PICK f : f = [j \in DOMAIN d |-> <<n, i, j>>]
    OBVIOUS
  <2>6. ofRoute(n, i) = {f[j] : j \in DOMAIN d}
    BY <2>2, <2>5
  <2>7. PICK named : named = ofRoute(n, i)
    OBVIOUS
  <2>8. f \in Surjection(DOMAIN d, named)
    BY <2>5, <2>6, <2>7 DEF Surjection
  <2>9. IsFiniteSet(named)
    BY <2>4, <2>8, FS_Surjection
  <2>10. ofRoute(n, i) \subseteq Nat \X Nat \X Nat
    BY <1>1, <2>1, <2>2, <2>3
  <2> QED BY <2>2, <2>3, <2>7, <2>9, <2>10
<1> HIDE DEF ofRoute
<1>4. ASSUME NEW n \in DOMAIN frontier
      PROVE  IsFiniteSet(ofNode(n)) /\ ofNode(n) \subseteq Nat \X Nat \X Nat
  <2>1. PICK k : k = frontier[n]
    OBVIOUS
  <2>2. PICK plans : plans = Plans(k)
    OBVIOUS
  <2>3. \A i \in DOMAIN routes[k] : i \in 1 .. Len(plans) /\ Len(plans) \in Nat
    BY <1>1, <2>1, <2>2, RoutesTyped
  <2>4. IsFiniteSet(DOMAIN routes[k])
    <3>1. CASE DOMAIN routes[k] = {}
      BY <3>1, FS_EmptySet
    <3>2. CASE DOMAIN routes[k] # {}
      <4>1. Len(plans) \in Nat /\ DOMAIN routes[k] \in SUBSET (1 .. Len(plans))
        BY <2>3, <3>2
      <4>2. IsFiniteSet(1 .. Len(plans))
        BY <4>1, FS_Interval, 1 \in Int, Len(plans) \in Int
      <4> QED BY <4>1, <4>2, FS_Subset
    <3> QED BY <3>1, <3>2
  <2>5. PICK sets : sets = {ofRoute(n, i) : i \in DOMAIN routes[k]}
    OBVIOUS
  <2>6. PICK f : f = [i \in DOMAIN routes[k] |-> ofRoute(n, i)]
    OBVIOUS
  <2>7. f \in Surjection(DOMAIN routes[k], sets)
    BY <2>5, <2>6 DEF Surjection
  <2>8. IsFiniteSet(sets) /\ \A T \in sets : IsFiniteSet(T)
    BY <1>3, <2>1, <2>4, <2>5, <2>7, FS_Surjection
  <2>9. IsFiniteSet(UNION sets)
    BY <2>8, FS_UNION
  <2> QED BY <1>3, <2>1, <2>5, <2>9
<1>5. \A m \in Mentions : Named(m) \in Key
  <2>1. ASSUME NEW m \in Mentions PROVE Named(m) \in Key
    <3>1. PICK n \in DOMAIN frontier : m \in ofNode(n)
      BY <1>2
    <3>2. PICK i \in DOMAIN routes[frontier[n]] : m \in ofRoute(n, i)
      BY <3>1
    <3>3. PICK j \in DOMAIN deps(n, i) : m = <<n, i, j>>
      BY <3>2 DEF ofRoute
    <3>4. Named(m) = deps(n, i)[j]
      BY <3>3 DEF Named
    <3> QED BY <1>3, <3>4
  <2> QED BY <2>1
<1> HIDE DEF ofNode
<1>6. PICK sets : sets = {ofNode(n) : n \in DOMAIN frontier}
  OBVIOUS
<1>7. PICK f : f = [n \in DOMAIN frontier |-> ofNode(n)]
  OBVIOUS
<1>8. f \in Surjection(DOMAIN frontier, sets) /\ IsFiniteSet(DOMAIN frontier)
  <2>1. f \in Surjection(DOMAIN frontier, sets)
    BY <1>6, <1>7 DEF Surjection
  <2> QED BY <1>1, <2>1, FS_Interval, 1 \in Int, Len(frontier) \in Int
<1>9. IsFiniteSet(sets) /\ \A T \in sets : IsFiniteSet(T)
  BY <1>4, <1>6, <1>8, FS_Surjection
<1>10. IsFiniteSet(UNION sets)
  BY <1>9, FS_UNION
<1> QED BY <1>2, <1>4, <1>5, <1>6, <1>10

(* What is unknown is listed in full.                                       *)
LEMMA UnknownLists ==
  ASSUME GraphTyped, DiscoveryKnown
  PROVE  /\ Unknown \in Seq(Key) /\ ToSet(Unknown) \cap Found = {}
         /\ \A k \in ToSet(frontier) : \A i \in DOMAIN routes[k] : ChildrenOf(k, i) \subseteq Found \cup ToSet(Unknown)
<1>1. PICK all : all = Mentions
  OBVIOUS
<1>2. PICK first : first = FirstMentions
  OBVIOUS
<1>3. PICK order : order = {pair \in all \X all : ReadBefore(pair[1], pair[2])}
  OBVIOUS
<1>4. IsFiniteSet(all) /\ all \subseteq Nat \X Nat \X Nat /\ \A m \in all : Named(m) \in Key
  BY <1>1, MentionsListed
<1>5. first = {m \in all : Named(m) \notin Found /\ \A o \in all : ReadBefore(o, m) => Named(o) # Named(m)}
  BY <1>1, <1>2 DEF FirstMentions
<1>6. \A m, o \in all : <<m, o>> \in order <=> ReadBefore(m, o)
  BY <1>3
<1>7. ASSUME NEW S \in SUBSET all
      PROVE  IsFiniteSet(S) /\ RanksTell(order, S)
  <2>1. IsFiniteSet(S)
    BY <1>4, FS_Subset
  <2>2. \A x \in S : x \in all /\ x \in Nat \X Nat \X Nat
    BY <1>4
  <2>3. \A x \in S : <<x, x>> \notin order
    BY <1>6, <2>2, ReadBeforeOrders
  <2>4. \A x, y, z \in S : <<x, y>> \in order /\ <<y, z>> \in order => <<x, z>> \in order
    BY <1>6, <2>2, ReadBeforeOrders
  <2>5. \A x, y \in S : <<x, y>> \in order \/ <<y, x>> \in order \/ x = y
    BY <1>6, <2>2, ReadBeforeOrders
  <2>6. Orders(order, S)
    BY <2>3, <2>4, <2>5 DEF Orders
  <2> QED BY <2>1, <2>6, RanksIn
<1>8. \A m \in first : {o \in first : ReadBefore(o, m)} = {o \in first : <<o, m>> \in order}
  BY <1>5, <1>6
<1> DEFINE Rank(m) == Cardinality({o \in first : ReadBefore(o, m)})
<1>9. PICK n : n = Cardinality(first)
  OBVIOUS
<1>10. /\ n \in Nat /\ \A m \in first : Rank(m) \in 0 .. n - 1
       /\ \A m, o \in first : Rank(m) = Rank(o) => m = o
       /\ \A k \in 0 .. n - 1 : \E m \in first : Rank(m) = k
  <2>1. first \in SUBSET all
    BY <1>5
  <2>2. \A m \in first : Rank(m) = RankIn(order, first, m)
    BY <1>8 DEF RankIn
  <2>3. RanksTell(order, first)
    BY <1>7, <2>1
  <2> HIDE DEF Rank
  <2> QED BY <1>9, <2>2, <2>3 DEF RanksTell
<1>11. PICK list : list = Unknown
  OBVIOUS
<1>12. list = [c \in 1 .. n |-> Named(CHOOSE m \in first : Rank(m) = c - 1)]
  BY <1>2, <1>9, <1>11 DEF Unknown
<1> HIDE DEF Rank
<1>13. ASSUME NEW c \in 1 .. n PROVE \E m \in first : Rank(m) = c - 1 /\ list[c] = Named(m)
  <2>1. c - 1 \in 0 .. n - 1
    BY <1>10
  <2>2. PICK m : m = CHOOSE x \in first : Rank(x) = c - 1
    OBVIOUS
  <2>3. m \in first /\ Rank(m) = c - 1
    BY <1>10, <2>1, <2>2
  <2>4. list[c] = Named(m)
    BY <1>12, <2>2
  <2> QED BY <2>3, <2>4
<1>14. list \in Seq(Key) /\ DOMAIN list = 1 .. n
  <2>1. \A c \in 1 .. n : list[c] \in Key
    BY <1>4, <1>5, <1>13
  <2>2. list \in [1 .. n -> Key]
    BY <1>12, <2>1
  <2> QED BY <1>10, <2>2
<1>15. ASSUME NEW m \in first PROVE Named(m) \in ToSet(list)
  <2>1. PICK c : c = Rank(m) + 1
    OBVIOUS
  <2>2. c \in 1 .. n /\ c - 1 = Rank(m)
    <3>1. PICK place : place = Rank(m)
      OBVIOUS
    <3>2. place \in 0 .. n - 1 /\ n \in Nat /\ c = place + 1
      BY <1>10, <2>1, <3>1
    <3> QED BY <3>1, <3>2
  <2>3. PICK o \in first : Rank(o) = c - 1 /\ list[c] = Named(o)
    BY <1>13, <2>2
  <2>4. o = m
    BY <1>10, <2>2, <2>3
  <2> QED BY <1>14, <2>2, <2>3, <2>4 DEF ToSet
<1>16. ASSUME NEW t \in all, Named(t) \notin Found PROVE Named(t) \in ToSet(list)
  <2>1. PICK same : same = {m \in all : Named(m) = Named(t)}
    OBVIOUS
  <2>2. same \in SUBSET all /\ t \in same
    BY <2>1
  <2>3. PICK size : size = Cardinality(same)
    OBVIOUS
  <2>4. /\ size \in Nat /\ IsFiniteSet(same)
        /\ \A x \in same : RankIn(order, same, x) \in 0 .. size - 1
        /\ \A k \in 0 .. size - 1 : \E x \in same : RankIn(order, same, x) = k
    BY <1>7, <2>2, <2>3 DEF RanksTell
  <2>5. 0 \in 0 .. size - 1
    <3>1. PICK c : c = RankIn(order, same, t)
      OBVIOUS
    <3>2. c \in 0 .. size - 1 /\ size \in Nat
      BY <2>2, <2>4, <3>1
    <3> QED BY <3>2
  <2>6. PICK m \in same : Cardinality({y \in same : <<y, m>> \in order}) = 0
    BY <2>4, <2>5 DEF RankIn
  <2>7. PICK below : below = {y \in same : <<y, m>> \in order}
    OBVIOUS
  <2>8. IsFiniteSet(below)
    BY <2>4, <2>7, FS_Subset
  <2>9. below = {}
    BY <2>6, <2>7, <2>8, FS_EmptySet
  <2>10. m \in first /\ Named(m) = Named(t)
    BY <1>5, <1>6, <1>16, <2>1, <2>7, <2>9
  <2> QED BY <1>15, <2>10
<1>17. ASSUME NEW k \in ToSet(frontier), NEW i \in DOMAIN routes[k], NEW d \in ChildrenOf(k, i), d \notin Found
       PROVE  d \in ToSet(list)
  <2>1. PICK p \in DOMAIN frontier : frontier[p] = k
    BY DEF ToSet
  <2>2. PICK j \in DOMAIN routes[k][i].plan.deps : d = routes[k][i].plan.deps[j]
    BY DEF ChildrenOf, Children
  <2>3. PICK m : m = <<p, i, j>>
    OBVIOUS
  <2>4. m \in all
    BY <1>1, <2>1, <2>2, <2>3 DEF Mentions
  <2>5. Named(m) = d
    BY <2>1, <2>2, <2>3 DEF Named
  <2> QED BY <1>16, <1>17, <2>4, <2>5
<1>18. ASSUME NEW d \in ToSet(list) PROVE d \notin Found
  <2>1. PICK c \in 1 .. n : d = list[c]
    BY <1>14 DEF ToSet
  <2>2. PICK m \in first : list[c] = Named(m)
    BY <1>13
  <2> QED BY <1>5, <2>1, <2>2
<1> QED BY <1>11, <1>14, <1>17, <1>18

(* The lesser of two numbers.                                               *)
LEMMA LesserOf ==
  ASSUME NEW m \in Int, NEW n \in Int
  PROVE  Min({m, n}) \in Int /\ Min({m, n}) <= m /\ Min({m, n}) <= n /\ (Min({m, n}) = m \/ Min({m, n}) = n)
<1>1. \E x \in {m, n} : \A y \in {m, n} : x <= y
  OBVIOUS
<1> QED BY <1>1 DEF Min

(* Either no limit keeps a child out, or the node budget is used up.        *)
LEMMA AdmittedFits ==
  ASSUME GraphTyped, DiscoveryKnown
  PROVE  /\ Admitted \in Seq(Key) /\ Len(Admitted) <= maxNodes - Len(found) /\ ToSet(Admitted) \cap Found = {}
         /\ Admitted # <<>> => /\ frontier # <<>> /\ depth[frontier[1]] + 1 < MaxDepth
                               /\ Len(Admitted) = maxNodes - Len(found) \/ ToSet(Admitted) = ToSet(Unknown)
<1>1. maxNodes \in Nat /\ Len(found) \in Nat /\ Len(found) <= maxNodes
  BY LenProperties DEF GraphTyped
<1>2. CASE frontier = <<>> \/ depth[frontier[1]] + 1 >= MaxDepth
  <2>1. Admitted = <<>>
    BY <1>2 DEF Admitted
  <2>2. <<>> \in Seq(Key) /\ Len(<<>>) = 0
    BY EmptySeq
  <2> QED BY <1>1, <2>1, <2>2 DEF ToSet
<1>3. CASE ~(frontier = <<>> \/ depth[frontier[1]] + 1 >= MaxDepth)
  <2>1. PICK list : list = Unknown
    OBVIOUS
  <2>2. list \in Seq(Key) /\ Len(list) \in Nat /\ DOMAIN list = 1 .. Len(list)
    BY <2>1, UnknownLists, LenProperties
  <2>3. PICK room : room = maxNodes - Len(found)
    OBVIOUS
  <2>4. PICK n : n = Min({Len(list), room})
    OBVIOUS
  <2>5. room \in Nat /\ n \in Nat /\ n <= Len(list) /\ n <= room /\ (n = Len(list) \/ n = room)
    <3>1. PICK long : long = Len(list)
      OBVIOUS
    <3>2. room \in Nat /\ long \in Nat
      BY <1>1, <2>2, <2>3, <3>1
    <3>3. n \in Int /\ n <= long /\ n <= room /\ (n = long \/ n = room)
      BY <2>4, <3>1, <3>2, LesserOf
    <3> QED BY <3>1, <3>2, <3>3
  <2>6. Admitted = SubSeq(list, 1, n)
    BY <1>3, <2>1, <2>3, <2>4 DEF Admitted
  <2>7. \A i \in 1 .. n : list[i] \in Key
    <3>1. \A i \in 1 .. n : i \in 1 .. Len(list)
      <4>1. PICK long : long = Len(list)
        OBVIOUS
      <4>2. long \in Nat /\ n \in Nat /\ n <= long
        BY <2>2, <2>5, <4>1
      <4> QED BY <4>1, <4>2
    <3> QED BY <2>2, <3>1, ElementOfSeq
  <2>8. PICK next : next = SubSeq(list, 1, n)
    OBVIOUS
  <2>9. next \in Seq(Key) /\ Len(next) = n /\ \A i \in 1 .. n : next[i] = list[i]
    <3>1. /\ next \in Seq(Key) /\ Len(next) = IF 1 <= n THEN n - 1 + 1 ELSE 0
          /\ \A i \in 1 .. n - 1 + 1 : next[i] = list[1 + i - 1]
      BY <2>5, <2>7, <2>8, SubSeqProperties
    <3>2. n - 1 + 1 = n /\ \A i \in 1 .. n : 1 + i - 1 = i
      BY <2>5
    <3> QED BY <2>5, <3>1, <3>2
  <2>10. DOMAIN next = 1 .. n
    BY <2>9, LenProperties
  <2>11. (n = Len(list) => ToSet(next) = ToSet(list)) /\ ToSet(next) \subseteq ToSet(list)
    <3>1. \A i \in 1 .. n : i \in DOMAIN list
      <4>1. PICK long : long = Len(list)
        OBVIOUS
      <4>2. long \in Nat /\ n \in Nat /\ n <= long
        BY <2>2, <2>5, <4>1
      <4> QED BY <2>2, <4>1, <4>2
    <3> QED BY <2>2, <2>9, <2>10, <3>1 DEF ToSet
  <2>12. frontier # <<>> /\ depth[frontier[1]] + 1 < MaxDepth
    <3>1. Len(frontier) \in Nat /\ frontier # <<>>
      BY <1>3, LenProperties DEF GraphTyped
    <3>2. frontier[1] \in Key
      BY <3>1, EmptySeq, ElementOfSeq, 1 \in 1 .. Len(frontier) DEF GraphTyped
    <3>3. depth[frontier[1]] \in Int /\ MaxDepth \in Int
      BY <3>2, RoutesAssumption DEF GraphTyped
    <3> QED BY <1>3, <3>1, <3>3
  <2>13. ToSet(next) \cap Found = {}
    BY <2>1, <2>11, UnknownLists
  <2> QED BY <2>1, <2>3, <2>5, <2>6, <2>8, <2>9, <2>11, <2>12, <2>13
<1> QED BY <1>2, <1>3

-----------------------------------------------------------------------------
(* Numbers of the kinds the resolver counts in.                             *)
LEMMA Counted ==
  ASSUME GraphTyped
  PROVE  /\ MaxDepth \in Nat \ {0} /\ maxNodes \in Nat /\ Len(found) \in Nat /\ DOMAIN found = 1 .. Len(found)
         /\ Found \subseteq Key /\ cursor \in Nat
         /\ \A k \in Key : depth[k] \in Nat /\ depth[k] < MaxDepth /\ height[k] \in Nat
<1>1. Len(found) \in Nat /\ DOMAIN found = 1 .. Len(found) /\ \A n \in DOMAIN found : found[n] \in Key
  BY LenProperties, ElementOfSeq DEF GraphTyped
<1>2. Found \subseteq Key
  BY <1>1 DEF Found, ToSet
<1> QED BY <1>1, <1>2, RoutesAssumption DEF GraphTyped

LEMMA GraphKnownInit ==
  ASSUME world \in Worlds, GraphInit
  PROVE  GraphKnown
<1>1. /\ Cardinality(Roots) \in Nat /\ found \in [1 .. Cardinality(Roots) -> Roots]
  BY FS_CardinalityType, GraphAssumption DEF GraphInit, SetToSeqs
<1>2. found \in Seq(Key)
  BY <1>1, RoutesAssumption
<1>3. maxNodes \in Nat /\ Len(found) <= maxNodes /\ Len(found) \in Nat
  BY <1>2, LenProperties, GraphAssumption DEF GraphInit
<1>4. GraphTyped
  <2>1. cursor \in 0 .. Len(found) /\ frontier \in Seq(Key) /\ changed \in BOOLEAN
    <3>1. cursor = 0 /\ changed = FALSE /\ frontier = found
      BY DEF GraphInit
    <3>2. PICK n : n = Len(found)
      OBVIOUS
    <3>3. 0 \in 0 .. n
      BY <1>3, <3>2
    <3> QED BY <1>2, <3>1, <3>2, <3>3
  <2>2. open \subseteq ToSet(frontier) /\ ToSet(frontier) \subseteq Found
    BY DEF GraphInit, Found
  <2>3. depth \in [Key -> 0 .. MaxDepth - 1] /\ height \in [Key -> Nat]
    BY RoutesAssumption DEF GraphInit
  <2>4. /\ market \in [Key -> {"not-attempted", "price", "missing", "error"}] /\ attempts \in [Key -> SUBSET Reason]
        /\ stale \subseteq Key /\ accepted \subseteq Roots /\ reason = [k \in Key |-> reason[k]] /\ phase = "frontier"
    BY DEF GraphInit
  <2> QED BY <1>2, <1>3, <2>1, <2>2, <2>3, <2>4 DEF GraphTyped
<1>5. DiscoveryKnown
  BY DEF GraphInit, DiscoveryKnown, Untouched
<1>6. CutsKnown /\ ErrorsKnown
  BY DEF GraphInit, CutsKnown, ErrorsKnown
<1>7. SelectionKnown
  BY DEF GraphInit, SelectionKnown
<1>8. PassKnown /\ ReasonsKnown /\ AcceptedKnown
  BY DEF GraphInit, PassKnown, ReasonsKnown, AcceptedKnown, Classifying
<1> QED BY <1>4, <1>5, <1>6, <1>7, <1>8 DEF GraphKnown

-----------------------------------------------------------------------------
(* Discovery *)

LEMMA ResolveNodeKnown ==
  ASSUME GraphKnown, RoutesKept, world' = world, NEW k \in Key, ResolveNode(k)
  PROVE  GraphKnown'
<1>1. /\ phase = "frontier" /\ phase' = phase /\ k \in open /\ open' = open \ {k}
      /\ UNCHANGED <<world, maxNodes, found, depth, frontier, selected, height, stale, cursor, changed, reason, accepted>>
  BY DEF ResolveNode
<1>2. k \in Found /\ k \in ToSet(frontier) /\ Found' = Found
  BY <1>1 DEF GraphKnown, GraphTyped, Found
<1>3. Untouched(k)
  BY <1>1 DEF GraphKnown, DiscoveryKnown
<1>4. Market(k) \in {"price", "late", "missing"} \cup Reason /\ Market(k)' = Market(k)
  BY <1>1, WorldTyped DEF GraphKnown, GraphTyped, Market
<1>5. Captured(k)' = Captured(k) /\ Uncaptured(k)' = Uncaptured(k) /\ Plans(k)' = Plans(k)
  BY <1>1 DEF Captured, Uncaptured, Plans
<1>6. \A j \in Key \ {k} : routes'[j] = routes[j] /\ market'[j] = market[j] /\ attempts'[j] = attempts[j]
  BY DEF ResolveNode, RoutesKept, GraphKnown, GraphTyped
<1>7. ResolvedAs(k)'
  <2>1. CASE Market(k) \in {"price", "late"}
    <3>1. market'[k] = "price" /\ routes' = routes /\ attempts' = attempts
      BY <2>1 DEF ResolveNode, GraphKnown, GraphTyped
    <3> QED BY <1>3, <1>4, <2>1, <3>1 DEF ResolvedAs, Untouched
  <2>2. CASE Market(k) \notin {"price", "late"}
    <3>1. /\ market'[k] = IF Market(k) = "missing" THEN "missing" ELSE "error"
          /\ routes'[k] = [i \in Captured(k) |-> Route(Plans(k)[i])]
          /\ attempts'[k] = Uncaptured(k) \cup ({Market(k)} \ {"missing"})
      BY <2>2 DEF ResolveNode, GraphKnown, GraphTyped, RoutesKept
    <3>2. DOMAIN routes'[k] = Captured(k) /\ \A i \in Captured(k) : routes'[k][i].plan = Plans(k)[i]
      BY <3>1 DEF Route
    <3> QED BY <1>4, <1>5, <2>2, <3>1, <3>2 DEF ResolvedAs
  <2> QED BY <2>1, <2>2
<1>8. Uncaptured(k) \subseteq Reason
  BY ReasonsListed DEF Uncaptured, DiscoveryError
<1>9. GraphTyped'
  <2>1. market' \in [Key -> {"not-attempted", "price", "missing", "error"}]
    BY DEF ResolveNode, GraphKnown, GraphTyped
  <2>2. attempts' \in [Key -> SUBSET Reason]
    <3>1. CASE Market(k) \in {"price", "late"}
      BY <3>1 DEF ResolveNode, GraphKnown, GraphTyped
    <3>2. CASE Market(k) \notin {"price", "late"}
      <4>1. attempts' = [attempts EXCEPT ![k] = Uncaptured(k) \cup ({Market(k)} \ {"missing"})]
        BY <3>2 DEF ResolveNode
      <4>2. Uncaptured(k) \cup ({Market(k)} \ {"missing"}) \in SUBSET Reason
        BY <1>4, <1>8, <3>2
      <4> QED BY <4>1, <4>2 DEF GraphKnown, GraphTyped
    <3> QED BY <3>1, <3>2
  <2> QED BY <1>1, <1>2, <2>1, <2>2 DEF GraphKnown, GraphTyped, Classifying
<1>10. DiscoveryKnown'
  <2>1. ASSUME NEW j \in Key, j # k
        PROVE  (IF j \in Found \ open THEN ResolvedAs(j) ELSE Untouched(j))'
    BY <1>1, <1>2, <1>6, <2>1
       DEF GraphKnown, DiscoveryKnown, ResolvedAs, Untouched, Market, Plans, Captured, Uncaptured
  <2>2. (IF k \in Found \ open THEN ResolvedAs(k) ELSE Untouched(k))'
    BY <1>1, <1>2, <1>7
  <2>3. \A j \in Key : (IF j \in Found \ open THEN ResolvedAs(j) ELSE Untouched(j))'
    BY <2>1, <2>2
  <2> QED BY <1>1, <2>3 DEF DiscoveryKnown
<1>11. ASSUME NEW i \in DOMAIN routes'[k] PROVE routes'[k][i].cut = {} /\ routes'[k][i].error = "none"
  BY <1>3, <1>11 DEF ResolveNode, Route, RoutesKept, Untouched
<1>12. CutsKnown'
  <2>1. ASSUME NEW j \in Key, NEW i \in DOMAIN routes'[j]
        PROVE  /\ routes'[j][i].cut \cap Found' = {}
               /\ phase' = "frontier" /\ routes'[j][i].cut # {} => Len(found') = maxNodes'
               /\ (phase' = "frontier" /\ j \in ToSet(frontier')) \/ ChildrenOf(j, i)' \subseteq routes'[j][i].cut \cup Found'
    <3>1. CASE j = k
      BY <1>1, <1>2, <1>11, <3>1
    <3>2. CASE j # k
      BY <1>1, <1>2, <1>6, <3>2 DEF GraphKnown, CutsKnown, ChildrenOf
    <3> QED BY <3>1, <3>2
  <2> QED BY <2>1 DEF CutsKnown
<1>13. ErrorsKnown'
  <2>1. ASSUME NEW j \in Key, NEW i \in DOMAIN routes'[j] PROVE ErrorKnown(j, i)'
    <3>1. routes'[j][i].error = "none"
      BY <1>1, <1>6, <1>11 DEF GraphKnown, ErrorsKnown, ErrorKnown
    <3> QED BY <1>1, <3>1 DEF ErrorKnown, Classifying
  <2> QED BY <2>1 DEF ErrorsKnown
<1>14. SelectionKnown' /\ PassKnown' /\ ReasonsKnown' /\ AcceptedKnown'
  BY <1>1 DEF GraphKnown, RoutesKept, SelectionKnown, PassKnown, ReasonsKnown, AcceptedKnown, Classifying
<1> QED BY <1>9, <1>10, <1>12, <1>13, <1>14 DEF GraphKnown

(* What is appended is a member.                                            *)
LEMMA MembersAppended ==
  ASSUME NEW s \in Seq(Key), NEW t \in Seq(Key)
  PROVE  s \o t \in Seq(Key) /\ Len(s \o t) = Len(s) + Len(t) /\ ToSet(s \o t) = ToSet(s) \cup ToSet(t)
<1>1. /\ Len(s) \in Nat /\ DOMAIN s = 1 .. Len(s) /\ Len(t) \in Nat /\ DOMAIN t = 1 .. Len(t)
  BY LenProperties
<1>2. PICK both : both = s \o t
  OBVIOUS
<1>3. PICK m : m = Len(s)
  OBVIOUS
<1>4. PICK n : n = Len(t)
  OBVIOUS
<1>5. /\ both \in Seq(Key) /\ Len(both) = m + n
      /\ \A i \in 1 .. m + n : both[i] = IF i <= m THEN s[i] ELSE t[i - m]
  BY <1>2, <1>3, <1>4, ConcatProperties
<1>6. DOMAIN both = 1 .. m + n /\ m \in Nat /\ n \in Nat /\ DOMAIN s = 1 .. m /\ DOMAIN t = 1 .. n
  BY <1>1, <1>3, <1>4, <1>5, LenProperties
<1>7. ASSUME NEW i \in 1 .. m PROVE i \in DOMAIN both /\ both[i] = s[i]
  BY <1>5, <1>6
<1>8. ASSUME NEW i \in 1 .. n PROVE m + i \in DOMAIN both /\ both[m + i] = t[i]
  <2>1. m + i \in 1 .. m + n /\ ~(m + i <= m) /\ m + i - m = i
    BY <1>6
  <2> QED BY <1>5, <1>6, <2>1
<1>9. ASSUME NEW i \in DOMAIN both PROVE both[i] \in ToSet(s) \cup ToSet(t)
  <2>1. i \in 1 .. m \/ (i - m \in 1 .. n /\ i - m + m = i /\ ~(i <= m))
    BY <1>6
  <2> QED BY <1>5, <1>6, <2>1 DEF ToSet
<1>10. \A x \in ToSet(s) : x \in ToSet(both)
  BY <1>6, <1>7 DEF ToSet
<1>11. \A x \in ToSet(t) : x \in ToSet(both)
  BY <1>6, <1>8 DEF ToSet
<1>12. ToSet(both) = ToSet(s) \cup ToSet(t)
  BY <1>9, <1>10, <1>11 DEF ToSet
<1> QED BY <1>2, <1>3, <1>4, <1>5, <1>12

(* A node whose children were cut off closes the budget, or discovery.      *)
LEMMA FrontierKnown ==
  ASSUME GraphKnown, RoutesKept, world' = world, Frontier
  PROVE  GraphKnown'
<1> DEFINE next == Admitted
           known == Found \cup ToSet(next)
           cutRoute(k, i) == [routes[k][i] EXCEPT !.cut = Children(routes[k][i].plan) \ known]
<1>1. /\ phase = "frontier" /\ open = {}
      /\ found' = found \o next /\ frontier' = next /\ open' = ToSet(next)
      /\ depth' = [k \in Key |-> IF k \in known \ Found THEN depth[frontier[1]] + 1 ELSE depth[k]]
      /\ routes' = [k \in Key |-> IF k \notin ToSet(frontier) THEN routes[k]
                                   ELSE [i \in DOMAIN routes[k] |-> cutRoute(k, i)]]
      /\ UNCHANGED <<world, maxNodes, market, attempts, selected, height, stale, reason, accepted>>
  BY DEF Frontier
<1>2. IF next = <<>> THEN phase' = "select" /\ cursor' = Len(found) /\ changed' = FALSE
                     ELSE UNCHANGED <<phase, cursor, changed>>
  BY DEF Frontier
<1>3. /\ next \in Seq(Key) /\ Len(next) <= maxNodes - Len(found) /\ ToSet(next) \cap Found = {}
      /\ next # <<>> => /\ frontier # <<>> /\ depth[frontier[1]] + 1 < MaxDepth
                        /\ Len(next) = maxNodes - Len(found) \/ ToSet(next) = ToSet(Unknown)
  BY AdmittedFits DEF GraphKnown
<1> HIDE DEF next
<1>4. found' \in Seq(Key) /\ Len(found') = Len(found) + Len(next) /\ Found' = known /\ known \subseteq Key
  <2>1. found \in Seq(Key)
    BY DEF GraphKnown, GraphTyped
  <2>2. found' \in Seq(Key) /\ Len(found') = Len(found) + Len(next) /\ ToSet(found') = ToSet(found) \cup ToSet(next)
    BY <1>1, <1>3, <2>1, MembersAppended
  <2>3. \A i \in DOMAIN found' : found'[i] \in Key
    BY <2>2, LenProperties, ElementOfSeq
  <2> QED BY <2>2, <2>3 DEF Found, ToSet
<1>5. Len(next) \in Nat /\ Len(found) \in Nat /\ maxNodes \in Nat /\ Len(found') <= maxNodes
  <2>1. Len(next) \in Nat /\ Len(found) \in Nat /\ maxNodes \in Nat
    BY <1>3, LenProperties, Counted DEF GraphKnown
  <2> QED BY <1>3, <1>4, <2>1
<1>6. next = <<>> => Len(next) = 0 /\ ToSet(next) = {} /\ Found' = Found /\ Len(found') = Len(found)
  <2>1. Len(<<>>) = 0 /\ ToSet(<<>>) = {}
    BY EmptySeq DEF ToSet
  <2> QED BY <1>4, <1>5, <2>1
<1>7. next # <<>> => frontier[1] \in Key /\ depth[frontier[1]] + 1 \in 0 .. MaxDepth - 1
  <2>1. ASSUME next # <<>> PROVE frontier[1] \in Key
    <3>1. Len(frontier) \in Nat /\ frontier # <<>>
      BY <1>3, <2>1, LenProperties DEF GraphKnown, GraphTyped
    <3> QED BY <3>1, EmptySeq, ElementOfSeq, 1 \in 1 .. Len(frontier) DEF GraphKnown, GraphTyped
  <2> QED BY <1>3, <2>1, Counted DEF GraphKnown
<1>8. depth' \in [Key -> 0 .. MaxDepth - 1]
  <2>1. ASSUME NEW k \in Key
        PROVE  (IF k \in known \ Found THEN depth[frontier[1]] + 1 ELSE depth[k]) \in 0 .. MaxDepth - 1
    <3>1. depth[k] \in 0 .. MaxDepth - 1
      BY DEF GraphKnown, GraphTyped
    <3>2. k \in known \ Found => next # <<>>
      BY <1>6
    <3> QED BY <1>7, <3>1, <3>2
  <2> QED BY <1>1, <2>1
<1>9. cursor' \in 0 .. Len(found') /\ changed' \in BOOLEAN /\ phase' \in {"frontier", "select"}
  <2>1. cursor \in 0 .. Len(found) /\ changed \in BOOLEAN
    BY DEF GraphKnown, GraphTyped
  <2>2. CASE next = <<>>
    <3>1. PICK n : n = Len(found)
      OBVIOUS
    <3>2. n \in 0 .. n
      BY <1>5, <3>1
    <3> QED BY <1>2, <1>6, <2>2, <3>1, <3>2
  <2>3. CASE next # <<>>
    BY <1>1, <1>2, <1>4, <1>5, <2>1, <2>3
  <2> QED BY <2>2, <2>3
<1>10. GraphTyped'
  <2>1. frontier' \in Seq(Key) /\ open' \subseteq ToSet(frontier') /\ ToSet(frontier') \subseteq Found'
    BY <1>1, <1>3, <1>4
  <2> QED BY <1>1, <1>4, <1>5, <1>8, <1>9, <2>1 DEF GraphKnown, GraphTyped
<1>11. ASSUME NEW k \in Key, NEW i \in DOMAIN routes[k]
       PROVE  /\ k \in Found /\ cutRoute(k, i).plan = routes[k][i].plan /\ cutRoute(k, i).error = routes[k][i].error
              /\ cutRoute(k, i).cut = ChildrenOf(k, i) \ known /\ routes[k][i].error = "none"
  <2>1. IsRoute(routes[k][i])
    BY DEF RoutesKept
  <2>2. DOMAIN routes[k][i] = {"plan", "cut", "error"}
    BY <2>1 DEF IsRoute
  <2>3. routes[k][i].error = "none"
    BY <1>1 DEF GraphKnown, ErrorsKnown, ErrorKnown
  <2> QED BY <2>2, <2>3, RoutesTyped DEF GraphKnown, ChildrenOf
<1> HIDE DEF cutRoute
<1>12. ASSUME NEW k \in Key
       PROVE  /\ DOMAIN routes'[k] = DOMAIN routes[k]
              /\ \A i \in DOMAIN routes[k] :
                   /\ routes'[k][i].plan = routes[k][i].plan /\ routes'[k][i].error = "none"
                   /\ routes'[k][i].cut = IF k \in ToSet(frontier) THEN ChildrenOf(k, i) \ known ELSE routes[k][i].cut
  <2>1. CASE k \in ToSet(frontier)
    BY <1>1, <1>11, <2>1
  <2>2. CASE k \notin ToSet(frontier)
    BY <1>1, <1>11, <2>2
  <2> QED BY <2>1, <2>2
<1>13. DiscoveryKnown'
  <2>1. \A k \in Key : Market(k)' = Market(k) /\ Plans(k)' = Plans(k) /\ Captured(k)' = Captured(k) /\ Uncaptured(k)' = Uncaptured(k)
    BY <1>1 DEF Market, Plans, Captured, Uncaptured
  <2>2. ASSUME NEW k \in Key, ResolvedAs(k) PROVE ResolvedAs(k)'
    <3>1. market'[k] = market[k] /\ attempts'[k] = attempts[k] /\ DOMAIN routes'[k] = DOMAIN routes[k]
      BY <1>1, <1>12
    <3>2. CASE Market(k) \in {"price", "late"}
      BY <2>1, <2>2, <3>1, <3>2 DEF ResolvedAs
    <3>3. CASE Market(k) \notin {"price", "late"}
      <4>1. \A i \in Captured(k) : routes'[k][i].plan = Plans(k)[i]
        BY <1>12, <2>2, <3>3 DEF ResolvedAs
      <4> QED BY <2>1, <2>2, <3>1, <3>3, <4>1 DEF ResolvedAs
    <3> QED BY <3>2, <3>3
  <2>3. ASSUME NEW k \in Key, Untouched(k) PROVE Untouched(k)'
    BY <1>1, <1>12, <2>3 DEF Untouched
  <2>4. ASSUME NEW k \in Key
        PROVE  (IF k \in Found \ open THEN ResolvedAs(k) ELSE Untouched(k))'
    <3>1. IF k \in Found THEN ResolvedAs(k) ELSE Untouched(k)
      BY <1>1 DEF GraphKnown, DiscoveryKnown
    <3>2. CASE k \in Found
      <4>1. k \notin ToSet(next)
        BY <1>3, <3>2
      <4> QED BY <1>1, <1>4, <2>2, <3>1, <3>2, <4>1
    <3>3. CASE k \notin Found
      BY <1>1, <1>4, <2>3, <3>1, <3>3
    <3> QED BY <3>2, <3>3
  <2>5. phase' # "frontier" => open' = {}
    BY <1>1, <1>2, <1>6
  <2> QED BY <2>4, <2>5 DEF DiscoveryKnown
<1>14. ASSUME NEW k \in Key, NEW i \in DOMAIN routes'[k]
       PROVE  /\ routes'[k][i].cut \cap Found' = {}
              /\ phase' = "frontier" /\ routes'[k][i].cut # {} => Len(found') = maxNodes'
              /\ (phase' = "frontier" /\ k \in ToSet(frontier')) \/ ChildrenOf(k, i)' \subseteq routes'[k][i].cut \cup Found'
  <2>1. i \in DOMAIN routes[k] /\ ChildrenOf(k, i)' = ChildrenOf(k, i)
    BY <1>12 DEF ChildrenOf
  <2>2. CASE k \in ToSet(frontier)
    <3>1. routes'[k][i].cut = ChildrenOf(k, i) \ known
      BY <1>12, <2>1, <2>2
    <3>2. ASSUME phase' = "frontier", routes'[k][i].cut # {} PROVE Len(found') = maxNodes
      <4>1. next # <<>>
        BY <1>2, <3>2
      <4>2. PICK d \in ChildrenOf(k, i) : d \notin Found /\ d \notin ToSet(next)
        BY <3>1, <3>2
      <4>3. d \in ToSet(Unknown)
        BY <2>1, <2>2, <4>2, UnknownLists DEF GraphKnown
      <4>4. Len(next) = maxNodes - Len(found)
        BY <1>3, <4>1, <4>2, <4>3
      <4> QED BY <1>4, <1>5, <4>4
    <3> QED BY <1>1, <1>4, <2>1, <3>1, <3>2
  <2>3. CASE k \notin ToSet(frontier)
    <3>1. routes'[k][i].cut = routes[k][i].cut
      BY <1>12, <2>1, <2>3
    <3>2. /\ routes[k][i].cut \cap Found = {} /\ (routes[k][i].cut # {} => Len(found) = maxNodes)
          /\ ChildrenOf(k, i) \subseteq routes[k][i].cut \cup Found
      BY <1>1, <2>1, <2>3 DEF GraphKnown, CutsKnown
    <3>3. routes[k][i].cut # {} => next = <<>>
      <4>1. ASSUME Len(found) = maxNodes PROVE next = <<>>
        <5>1. Len(next) = 0
          BY <1>3, <1>5, <4>1
        <5> QED BY <1>3, <5>1, EmptySeq
      <4> QED BY <3>2, <4>1
    <3>4. routes[k][i].cut # {} => Found' = Found /\ phase' # "frontier"
      BY <1>2, <1>6, <3>3
    <3> QED BY <1>4, <2>1, <3>1, <3>2, <3>4
  <2> QED BY <2>2, <2>3
<1>15. CutsKnown'
  BY <1>14 DEF CutsKnown
<1>16. ErrorsKnown'
  <2>1. ASSUME NEW k \in Key, NEW i \in DOMAIN routes'[k] PROVE ErrorKnown(k, i)'
    BY <1>9, <1>12 DEF ErrorKnown, Classifying
  <2> QED BY <2>1 DEF ErrorsKnown
<1>17. SelectionKnown'
  BY <1>1 DEF GraphKnown, RoutesKept, SelectionKnown
<1>18. PassKnown'
  <2>1. ASSUME phase' = "select", NEW n \in DOMAIN found', n > cursor' PROVE FALSE
    <3>1. next = <<>> /\ cursor' = Len(found)
      BY <1>1, <1>2, <2>1
    <3>2. DOMAIN found' = 1 .. Len(found')
      BY <1>4, LenProperties
    <3>3. PICK m : m = Len(found)
      OBVIOUS
    <3>4. n \in 1 .. m /\ n > m /\ m \in Nat
      BY <1>5, <1>6, <2>1, <3>1, <3>2, <3>3
    <3> QED BY <3>4
  <2> QED BY <1>9, <2>1 DEF PassKnown, Behind, Classifying
<1>19. ReasonsKnown' /\ AcceptedKnown'
  BY <1>1, <1>9 DEF GraphKnown, ReasonsKnown, AcceptedKnown
<1> QED BY <1>10, <1>13, <1>15, <1>16, <1>17, <1>18, <1>19 DEF GraphKnown

-----------------------------------------------------------------------------
(* After discovery *)

(* The plans and cut-offs of the captured routes stay what they are.        *)
PlansKept ==
  \A k \in Key : /\ DOMAIN routes'[k] = DOMAIN routes[k]
                 /\ \A i \in DOMAIN routes[k] :
                      /\ routes'[k][i].plan = routes[k][i].plan /\ routes'[k][i].cut = routes[k][i].cut
AfterDiscovery ==
  /\ PlansKept /\ phase # "frontier" /\ phase' # "frontier"
  /\ UNCHANGED <<world, maxNodes, found, depth, frontier, open, market, attempts>>

LEMMA DiscoveryKept ==
  ASSUME GraphKnown, AfterDiscovery
  PROVE  DiscoveryKnown' /\ CutsKnown'
<1>1. \A k \in Key : Market(k)' = Market(k) /\ Plans(k)' = Plans(k) /\ Captured(k)' = Captured(k) /\ Uncaptured(k)' = Uncaptured(k)
  BY DEF AfterDiscovery, Market, Plans, Captured, Uncaptured
<1>2. ASSUME NEW k \in Key, ResolvedAs(k) PROVE ResolvedAs(k)'
  <2>1. market'[k] = market[k] /\ attempts'[k] = attempts[k] /\ DOMAIN routes'[k] = DOMAIN routes[k]
    BY DEF AfterDiscovery, PlansKept
  <2>2. CASE Market(k) \in {"price", "late"}
    BY <1>1, <1>2, <2>1, <2>2 DEF ResolvedAs
  <2>3. CASE Market(k) \notin {"price", "late"}
    <3>1. \A i \in Captured(k) : routes'[k][i].plan = Plans(k)[i]
      BY <1>2, <2>3 DEF ResolvedAs, AfterDiscovery, PlansKept
    <3> QED BY <1>1, <1>2, <2>1, <2>3, <3>1 DEF ResolvedAs
  <2> QED BY <2>2, <2>3
<1>3. ASSUME NEW k \in Key, Untouched(k) PROVE Untouched(k)'
  BY <1>3 DEF Untouched, AfterDiscovery, PlansKept
<1>4. DiscoveryKnown'
  <2>1. Found' = Found /\ open' = open /\ open = {}
    BY DEF AfterDiscovery, Found, GraphKnown, DiscoveryKnown
  <2>2. ASSUME NEW k \in Key PROVE (IF k \in Found \ open THEN ResolvedAs(k) ELSE Untouched(k))'
    BY <1>2, <1>3, <2>1 DEF GraphKnown, DiscoveryKnown
  <2> QED BY <2>1, <2>2 DEF DiscoveryKnown
<1>5. CutsKnown'
  BY DEF GraphKnown, CutsKnown, AfterDiscovery, PlansKept, Found, ChildrenOf
<1> QED BY <1>4, <1>5

(* Misses stay misses, and who has a price keeps one.                       *)
LEMMA NodesKept ==
  ASSUME GraphKnown, RoutesKept, AfterDiscovery
  PROVE  /\ \A k \in Key : IsTerminalMiss(k)' = IsTerminalMiss(k)
         /\ \A k \in Key : \A i \in DOMAIN routes[k] : ChildrenOf(k, i)' = ChildrenOf(k, i)
         /\ \A k \in Key : IsTerminalMiss(k) => ~HasPath(k) /\ selected[k] = 0
         /\ Found' = Found
<1>1. \A k \in Key : IsTerminalMiss(k)' = IsTerminalMiss(k)
  BY DEF AfterDiscovery, PlansKept, IsTerminalMiss
<1>2. \A k \in Key : \A i \in DOMAIN routes[k] : ChildrenOf(k, i)' = ChildrenOf(k, i)
  BY DEF AfterDiscovery, PlansKept, ChildrenOf
<1>3. \A k \in Key : IsTerminalMiss(k) => ~HasPath(k) /\ selected[k] = 0
  BY DEF IsTerminalMiss, HasPath, RoutesKept
<1>4. Found' = Found
  BY DEF AfterDiscovery, Found
<1> QED BY <1>1, <1>2, <1>3, <1>4

(* Where no selection changes, what can be tried does not change either.    *)
LEMMA SelectionUnchanged ==
  ASSUME GraphKnown, RoutesKept, AfterDiscovery, UNCHANGED <<selected, height, stale>>
  PROVE  /\ SelectionKnown' /\ Selection' = Selection
         /\ \A k \in Key : HasPath(k)' = HasPath(k)
         /\ \A k \in Key : \A i \in DOMAIN routes[k] :
              /\ Usable(k, i)' = Usable(k, i) /\ HeightVia(k, i)' = HeightVia(k, i)
              /\ WithinDepth(k, i)' = WithinDepth(k, i)
<1>1. \A k \in Key : HasPath(k)' = HasPath(k)
  BY DEF HasPath, AfterDiscovery
<1>2. \A k \in Key : selected[k] # 0 => selected[k] \in DOMAIN routes[k]
  BY DEF RoutesKept
<1>3. Selection' = Selection
  BY <1>2, NodesKept DEF Selection
<1>4. ASSUME NEW k \in Key, NEW i \in DOMAIN routes[k]
      PROVE  /\ Usable(k, i)' = Usable(k, i) /\ HeightVia(k, i)' = HeightVia(k, i)
             /\ WithinDepth(k, i)' = WithinDepth(k, i) /\ ChildrenOf(k, i)' = ChildrenOf(k, i)
             /\ \A d \in ChildrenOf(k, i) : Supports(k, i, d)' = Supports(k, i, d)
  <2>1. ChildrenOf(k, i)' = ChildrenOf(k, i) /\ ChildrenOf(k, i) \subseteq Key /\ Found' = Found
    BY NodesKept, RoutesTyped DEF GraphKnown
  <2>2. routes'[k][i].plan = routes[k][i].plan /\ routes'[k][i].cut = routes[k][i].cut
    BY DEF AfterDiscovery, PlansKept
  <2>3. Usable(k, i)' = Usable(k, i)
    BY <1>1, <2>1, <2>2, NodesKept DEF Usable
  <2>4. HeightVia(k, i)' = HeightVia(k, i)
    BY <2>1 DEF HeightVia
  <2>5. WithinDepth(k, i)' = WithinDepth(k, i)
    BY <2>4 DEF WithinDepth, AfterDiscovery
  <2>6. \A d \in ChildrenOf(k, i) : Supports(k, i, d)' = Supports(k, i, d)
    BY <1>1, <2>1, <2>2, NodesKept DEF Supports
  <2> QED BY <2>1, <2>3, <2>4, <2>5, <2>6
<1>5. SelectionKnown'
  <2>1. ASSUME NEW k \in Key
        PROVE  (IF selected[k] = 0 THEN height[k] = 0 /\ k \notin stale ELSE SelectedKnown(k))'
    <3>1. CASE selected[k] = 0
      BY <3>1 DEF GraphKnown, SelectionKnown
    <3>2. CASE selected[k] # 0
      <4>1. SelectedKnown(k)
        BY <3>2 DEF GraphKnown, SelectionKnown
      <4>2. PICK i \in DOMAIN routes[k] : i = selected[k]
        BY <1>2, <3>2
      <4>3. Found' = Found /\ market' = market /\ depth' = depth
        BY NodesKept DEF AfterDiscovery
      <4>4. ChildrenOf(k, i)' = ChildrenOf(k, i) /\ HeightVia(k, i)' = HeightVia(k, i)
              /\ \A d \in ChildrenOf(k, i) : Supports(k, i, d)' = Supports(k, i, d)
        BY <1>4
      <4>5. SelectedKnown(k)'
        BY <4>1, <4>2, <4>3, <4>4 DEF SelectedKnown
      <4> QED BY <3>2, <4>5
    <3> QED BY <3>1, <3>2
  <2> QED BY <2>1 DEF SelectionKnown
<1> QED BY <1>1, <1>3, <1>4, <1>5

(* The greatest height of the children is a height, or there are none.      *)
LEMMA HeightsBounded ==
  ASSUME GraphKnown, NEW k \in Key, NEW i \in DOMAIN routes[k]
  PROVE  /\ HeightVia(k, i) \in Nat
         /\ \A d \in ChildrenOf(k, i) : height[d] < HeightVia(k, i)
<1> DEFINE heights == {-1} \cup {height[d] : d \in ChildrenOf(k, i)}
           raised == {h + 1 : h \in heights}
<1>1. MaxDepth \in Nat /\ \A d \in Key : height[d] \in Nat /\ height[d] <= MaxDepth
  BY Counted DEF GraphKnown, SelectionKnown, SelectedKnown
<1>2. ChildrenOf(k, i) \subseteq Key
  BY RoutesTyped DEF GraphKnown
<1>3. \A h \in heights : h \in Int /\ h + 1 \in Nat /\ h + 1 <= MaxDepth + 1
  BY <1>1, <1>2
<1>4. raised \in SUBSET Nat /\ raised # {} /\ \A h \in raised : h <= MaxDepth + 1
  BY <1>3
<1> HIDE DEF raised
<1>5. PICK top \in raised : \A h \in raised : h <= top
  BY <1>1, <1>4, GreatestOf, MaxDepth + 1 \in Nat
<1>6. PICK m \in heights : top = m + 1
  BY DEF raised
<1>7. \A h \in heights : h + 1 \in raised
  BY DEF raised
<1> HIDE DEF heights
<1>8. \A h \in heights : m >= h
  BY <1>3, <1>5, <1>6, <1>7
<1>9. Max(heights) \in heights /\ \A h \in heights : Max(heights) >= h
  BY <1>8 DEF Max
<1>10. PICK n : n = Max(heights)
  OBVIOUS
<1>11. HeightVia(k, i) = 1 + n
  BY <1>10 DEF HeightVia, heights
<1>12. n \in Int /\ n + 1 \in Nat /\ \A d \in ChildrenOf(k, i) : height[d] \in Int /\ n >= height[d]
  BY <1>3, <1>9, <1>10 DEF heights
<1> QED BY <1>11, <1>12

(* Where neither the selection nor a node's routes change, its turn is the  *)
(* same.                                                                    *)
LEMMA TurnUnchanged ==
  ASSUME GraphKnown, RoutesKept, AfterDiscovery, UNCHANGED <<selected, height, stale>>,
         NEW k \in Key, routes'[k] = routes[k]
  PROVE  Eligible(k)' = Eligible(k) /\ PassedOver(k)' = PassedOver(k)
<1>1. Selection' = Selection
        /\ \A i \in DOMAIN routes[k] :
             /\ Usable(k, i)' = Usable(k, i) /\ WithinDepth(k, i)' = WithinDepth(k, i)
             /\ ChildrenOf(k, i)' = ChildrenOf(k, i)
  BY SelectionUnchanged, NodesKept
<1>2. \A d : Reaches(Selection, d, k)' = Reaches(Selection, d, k)
  BY <1>1 DEF Reaches, Closed
<1>3. Eligible(k)' = Eligible(k)
  BY <1>1, <1>2 DEF Eligible
<1>4. Turn(k)' = Turn(k)
  BY <1>3 DEF Turn, AfterDiscovery
<1> QED BY <1>3, <1>4 DEF PassedOver, UpToDate

(* A node that was passed over without a price has no route to try.         *)
LEMMA NothingToTry ==
  ASSUME GraphKnown, NEW k \in Key, PassedOver(k), ~HasPath(k)
  PROVE  Eligible(k) = {}
<1> SUFFICES ASSUME Eligible(k) # {} PROVE FALSE
  OBVIOUS
<1>1. \A i \in Eligible(k) : i \in DOMAIN routes[k]
  BY DEF Eligible
<1>2. Eligible(k) \in SUBSET Nat /\ 0 \notin Eligible(k)
  BY <1>1, RoutesTyped DEF GraphKnown
<1> DEFINE eligible == Eligible(k)
<1>3. eligible \in SUBSET Nat /\ eligible # {}
  BY <1>2
<1> HIDE DEF eligible
<1>4. PICK i \in eligible : \A j \in eligible : i <= j
  BY <1>3, LeastOf
<1>5. i \in Turn(k) /\ i # 0
  BY <1>2, <1>4 DEF Turn, HasPath, eligible
<1> QED BY <1>5 DEF PassedOver, UpToDate, HasPath

(* The types outside the nodes.                                             *)
LEMMA TypesKept ==
  ASSUME GraphKnown, AfterDiscovery, height' \in [Key -> Nat], stale' \subseteq Key, accepted' \subseteq Roots,
         cursor' \in 0 .. Len(found), changed' \in BOOLEAN, reason' = [k \in Key |-> reason'[k]],
         phase' \in {"select", "mark"} \/ Classifying'
  PROVE  GraphTyped'
<1>1. Found' = Found
  BY DEF AfterDiscovery, Found
<1> QED BY <1>1 DEF GraphKnown, GraphTyped, AfterDiscovery

LEMMA RefuseRouteKnown ==
  ASSUME GraphKnown, RoutesKept, world' = world, NEW k \in Key, RefuseRoute(k)
  PROVE  GraphKnown'
<1>1. PICK i \in Turn(k) :
        /\ ~UpToDate(k, i) /\ MayFail(k, i)
        /\ routes' = [routes EXCEPT ![k] = [routes[k] EXCEPT ![i] = [routes[k][i] EXCEPT !.error = FailureOf(k, i)]]]
  BY DEF RefuseRoute
<1>2. /\ phase = "select" /\ k = found[cursor] /\ cursor > 0
      /\ UNCHANGED <<world, maxNodes, phase, found, depth, frontier, open, market, attempts, selected, height, stale,
                     cursor, changed, reason, accepted>>
  BY DEF RefuseRoute, AtNode
<1>3. i \in DOMAIN routes[k] /\ Usable(k, i)
  BY DEF Turn, Eligible
<1> DEFINE marked == [routes[k][i] EXCEPT !.error = FailureOf(k, i)]
<1>4. /\ IsRoute(marked) /\ marked.plan = routes[k][i].plan /\ marked.cut = routes[k][i].cut
      /\ marked.error = FailureOf(k, i)
  <2>1. DOMAIN routes[k][i] = {"plan", "cut", "error"}
    BY <1>3 DEF RoutesKept, IsRoute
  <2> QED BY <1>3, <2>1, RouteMarked DEF RoutesKept
<1>5. routes' = [routes EXCEPT ![k] = [routes[k] EXCEPT ![i] = marked]]
  BY <1>1
<1> HIDE DEF marked
<1>6. \A j \in Key \ {k} : routes'[j] = routes[j]
  BY <1>5 DEF RoutesKept
<1>7. /\ DOMAIN routes'[k] = DOMAIN routes[k] /\ routes'[k][i] = marked
      /\ \A n \in DOMAIN routes[k] \ {i} : routes'[k][n] = routes[k][n]
  BY <1>3, <1>5 DEF RoutesKept
<1>8. AfterDiscovery
  BY <1>2, <1>4, <1>6, <1>7 DEF AfterDiscovery, PlansKept
<1>9. DiscoveryKnown' /\ CutsKnown'
  BY <1>8, DiscoveryKept
<1>10. SelectionKnown'
  BY <1>2, <1>8, SelectionUnchanged
<1>11. ErrorsKnown'
  <2>1. ASSUME NEW j \in Key, NEW n \in DOMAIN routes'[j], ~(j = k /\ n = i) PROVE ErrorKnown(j, n)'
    <3>1. n \in DOMAIN routes[j] /\ routes'[j][n] = routes[j][n]
      BY <1>6, <1>7, <2>1
    <3>2. ErrorKnown(j, n) /\ ChildrenOf(j, n) \subseteq Key
      BY <3>1, RoutesTyped DEF GraphKnown, ErrorsKnown
    <3> QED BY <1>2, <1>8, <3>1, <3>2, NodesKept DEF ErrorKnown, Classifying
  <2>2. ErrorKnown(k, i)'
    <3>1. ChildrenOf(k, i) \subseteq Key /\ ChildrenOf(k, i)' = ChildrenOf(k, i)
      BY <1>3, <1>8, RoutesTyped, NodesKept DEF GraphKnown
    <3>2. CASE NothingToRestOn(k, i)
      <4>1. routes'[k][i].error = "unsupported" /\ ChildrenOf(k, i) # {} /\ \A d \in ChildrenOf(k, i) : IsTerminalMiss(d)
        BY <1>3, <1>4, <1>7, <3>2 DEF FailureOf, NothingToRestOn, Usable
      <4> QED BY <1>2, <1>8, <3>1, <4>1, NodesKept DEF ErrorKnown, Classifying
    <3>3. CASE ~NothingToRestOn(k, i)
      <4>1. routes'[k][i].error = "invalid" /\ MayRefuse(routes'[k][i].plan)
        BY <1>1, <1>4, <1>7, <3>3 DEF FailureOf, MayFail
      <4> QED BY <1>2, <4>1 DEF ErrorKnown, Classifying
    <3> QED BY <3>2, <3>3
  <2> QED BY <2>1, <2>2 DEF ErrorsKnown
<1>12. PassKnown'
  <2>1. ASSUME ~changed, NEW j \in Key, Behind(j) PROVE PassedOver(j)'
    <3>1. PassedOver(j)
      BY <1>2, <2>1 DEF GraphKnown, PassKnown
    <3>2. j # k
      BY <1>1, <3>1 DEF PassedOver
    <3> QED BY <1>2, <1>6, <1>8, <3>1, <3>2, TurnUnchanged
  <2> QED BY <1>2, <2>1 DEF PassKnown, Behind, Classifying
<1>13. ReasonsKnown' /\ AcceptedKnown'
  BY <1>2 DEF ReasonsKnown, AcceptedKnown, GraphKnown
<1>14. GraphTyped'
  BY <1>2, <1>8, TypesKept DEF GraphKnown, GraphTyped
<1> QED BY <1>9, <1>10, <1>11, <1>12, <1>13, <1>14 DEF GraphKnown

(* The position moves on, or the pass begins again, or it was the last one. *)
LEMMA Advances ==
  ASSUME GraphKnown, phase = "select", cursor > 0, NEW change \in BOOLEAN, Advance(change), UNCHANGED found
  PROVE  /\ cursor' \in 0 .. Len(found) /\ changed' \in BOOLEAN /\ phase' \in {"select", "mark"}
         /\ phase' = "select" /\ ~changed' => (cursor' = cursor - 1 /\ ~change) \/ cursor' = Len(found)
         /\ phase' = "mark" => cursor = 1 /\ ~change
<1>1. PICK n : n = Len(found)
  OBVIOUS
<1>2. n \in Nat /\ cursor \in 0 .. n
  BY <1>1, Counted DEF GraphKnown, GraphTyped
<1>3. CASE cursor > 1
  BY <1>1, <1>2, <1>3 DEF Advance
<1>4. CASE ~(cursor > 1) /\ change
  <2>1. cursor' = Len(found) /\ changed' = FALSE /\ phase' = phase
    BY <1>4 DEF Advance
  <2>2. n \in 0 .. n
    BY <1>2
  <2> QED BY <1>1, <2>1, <2>2
<1>5. CASE ~(cursor > 1) /\ ~change
  <2>1. cursor' = 0 /\ changed' = FALSE /\ phase' = "mark"
    BY <1>5 DEF Advance
  <2>2. 0 \in 0 .. n /\ cursor = 1
    BY <1>2, <1>5
  <2> QED BY <1>1, <1>5, <2>1, <2>2
<1> QED BY <1>3, <1>4, <1>5

LEMMA PassNodeKnown ==
  ASSUME GraphKnown, RoutesKept, world' = world, NEW k \in Key, PassNode(k)
  PROVE  GraphKnown'
<1>1. /\ phase = "select" /\ k = found[cursor] /\ cursor > 0 /\ PassedOver(k) /\ Advance(changed)
      /\ UNCHANGED <<world, maxNodes, found, depth, frontier, open, market, routes, attempts, selected, height, stale,
                     reason, accepted>>
  BY DEF PassNode, AtNode, PassedOver
<1>2. /\ cursor' \in 0 .. Len(found) /\ changed' \in BOOLEAN /\ phase' \in {"select", "mark"}
      /\ phase' = "select" /\ ~changed' => (cursor' = cursor - 1 /\ ~changed) \/ cursor' = Len(found)
      /\ phase' = "mark" => cursor = 1 /\ ~changed
  BY <1>1, Advances DEF GraphKnown, GraphTyped
<1>3. AfterDiscovery
  BY <1>1, <1>2 DEF AfterDiscovery, PlansKept
<1>4. DiscoveryKnown' /\ CutsKnown'
  BY <1>3, DiscoveryKept
<1>5. SelectionKnown'
  BY <1>1, <1>3, SelectionUnchanged
<1>6. ErrorsKnown'
  <2>1. ASSUME NEW j \in Key, NEW n \in DOMAIN routes[j] PROVE ErrorKnown(j, n)'
    <3>1. ErrorKnown(j, n) /\ ChildrenOf(j, n) \subseteq Key
      BY RoutesTyped DEF GraphKnown, ErrorsKnown
    <3> QED BY <1>1, <1>2, <1>3, <3>1, NodesKept DEF ErrorKnown, Classifying
  <2> QED BY <1>1, <2>1 DEF ErrorsKnown
<1>7. Len(found) \in Nat /\ DOMAIN found = 1 .. Len(found) /\ cursor \in Nat
  BY Counted DEF GraphKnown
<1>8. ASSUME ~changed, NEW j \in Key, NEW n \in DOMAIN found, n >= cursor, found[n] = j PROVE PassedOver(j)
  <2>1. CASE n > cursor
    BY <1>1, <1>8, <2>1 DEF GraphKnown, PassKnown, Behind
  <2>2. CASE n = cursor
    BY <1>1, <1>8, <2>2
  <2> QED BY <1>7, <1>8, <2>1, <2>2
<1>9. PassKnown'
  <2>1. ASSUME phase' = "select", ~changed', NEW j \in Key, Behind(j)' PROVE PassedOver(j)'
    <3>1. PICK n \in DOMAIN found : n > cursor' /\ found[n] = j
      BY <1>1, <2>1 DEF Behind
    <3>2. cursor' = cursor - 1 /\ ~changed
      <4>1. PICK m : m = Len(found)
        OBVIOUS
      <4>2. n \in 1 .. m /\ m \in Nat /\ n > cursor'
        BY <1>7, <3>1, <4>1
      <4>3. cursor' # m
        BY <4>2
      <4> QED BY <1>2, <2>1, <4>1, <4>3
    <3>3. n >= cursor
      BY <1>7, <3>1, <3>2
    <3> QED BY <1>1, <1>3, <1>8, <3>1, <3>2, <3>3, TurnUnchanged
  <2>2. ASSUME phase' = "mark", NEW j \in Found PROVE HasPath(j)' \/ Eligible(j)' = {}
    <3>1. PICK n \in DOMAIN found : found[n] = j
      BY DEF Found, ToSet
    <3>2. j \in Key /\ n >= cursor /\ ~changed
      BY <1>2, <1>7, <2>2, <3>1, Counted DEF GraphKnown
    <3>3. PassedOver(j)
      BY <1>8, <3>1, <3>2
    <3>4. HasPath(j) \/ Eligible(j) = {}
      BY <3>2, <3>3, NothingToTry
    <3> QED BY <1>1, <1>3, <3>2, <3>4, TurnUnchanged DEF HasPath
  <2>3. Found' = Found
    BY <1>1 DEF Found
  <2> QED BY <1>2, <2>1, <2>2, <2>3 DEF PassKnown, Classifying
<1>10. ReasonsKnown' /\ AcceptedKnown'
  BY <1>1, <1>2 DEF ReasonsKnown, AcceptedKnown, GraphKnown
<1>11. GraphTyped'
  BY <1>1, <1>2, <1>3, TypesKept DEF GraphKnown, GraphTyped
<1> QED BY <1>4, <1>5, <1>6, <1>9, <1>10, <1>11 DEF GraphKnown

(* A selected route rests on prices and misses that stay; whoever rests on  *)
(* the node has to be calculated again.                                     *)
LEMMA SelectRouteKnown ==
  ASSUME GraphKnown, RoutesKept, world' = world, NEW k \in Key, SelectRoute(k)
  PROVE  GraphKnown'
<1>1. PICK i \in Turn(k) :
        /\ selected' = [selected EXCEPT ![k] = i] /\ height' = [height EXCEPT ![k] = HeightVia(k, i)]
        /\ stale' = (stale \ {k}) \cup {p \in Key : k \in Selection[p]}
  BY DEF SelectRoute
<1>2. /\ phase = "select" /\ k = found[cursor] /\ cursor > 0 /\ Advance(TRUE)
      /\ UNCHANGED <<world, maxNodes, found, depth, frontier, open, market, routes, attempts, reason, accepted>>
  BY DEF SelectRoute, AtNode
<1>3. /\ cursor' \in 0 .. Len(found) /\ changed' \in BOOLEAN /\ phase' = "select"
      /\ ~changed' => cursor' = Len(found)
  BY <1>2, Advances
<1>4. AfterDiscovery
  BY <1>2, <1>3 DEF AfterDiscovery, PlansKept
<1>5. /\ i \in DOMAIN routes[k] /\ i \in Nat \ {0} /\ Usable(k, i) /\ WithinDepth(k, i) /\ market[k] # "price"
      /\ ChildrenOf(k, i) \subseteq Key
      /\ \A d \in ChildrenOf(k, i) : ~Reaches(Selection, d, k)
  BY RoutesTyped DEF Turn, Eligible, GraphKnown
<1>6. k \in Found
  BY <1>5, RoutesTyped DEF GraphKnown
<1>7. k \notin ChildrenOf(k, i)
  BY <1>5 DEF Reaches
<1>8. HeightVia(k, i) \in Nat
  BY <1>5, HeightsBounded
<1>9. /\ selected'[k] = i /\ height'[k] = HeightVia(k, i)
      /\ \A j \in Key \ {k} : selected'[j] = selected[j] /\ height'[j] = height[j]
      /\ height' \in [Key -> Nat]
  BY <1>1, <1>8 DEF RoutesKept, GraphKnown, GraphTyped
<1>10. \A d \in Key : HasPath(d) => HasPath(d)'
  BY <1>2, <1>5, <1>9 DEF HasPath
<1>11. \A j \in Key : \A n \in DOMAIN routes[j] :
         /\ ChildrenOf(j, n)' = ChildrenOf(j, n) /\ ChildrenOf(j, n) \subseteq Key
         /\ \A d \in ChildrenOf(j, n) : Supports(j, n, d) => Supports(j, n, d)'
  BY <1>2, <1>4, <1>10, NodesKept, RoutesTyped DEF Supports, GraphKnown
<1>12. \A j \in Key : \A n \in DOMAIN routes[j] : k \notin ChildrenOf(j, n) => HeightVia(j, n)' = HeightVia(j, n)
  <2>1. ASSUME NEW j \in Key, NEW n \in DOMAIN routes[j], k \notin ChildrenOf(j, n)
        PROVE  HeightVia(j, n)' = HeightVia(j, n)
    <3>1. ChildrenOf(j, n)' = ChildrenOf(j, n) /\ \A d \in ChildrenOf(j, n) : height'[d] = height[d]
      BY <1>9, <1>11, <2>1
    <3>2. {height'[d] : d \in ChildrenOf(j, n)} = {height[d] : d \in ChildrenOf(j, n)}
      BY <3>1
    <3> QED BY <3>1, <3>2 DEF HeightVia
  <2> QED BY <2>1
<1>13. ASSUME NEW j \in Key
       PROVE  (IF selected[j] = 0 THEN height[j] = 0 /\ j \notin stale ELSE SelectedKnown(j))'
  <2>1. CASE j = k
    <3>1. \A d \in ChildrenOf(k, i) : Supports(k, i, d)'
      BY <1>5, <1>11 DEF Usable, Supports
    <3>2. height'[k] = HeightVia(k, i)'
      BY <1>5, <1>7, <1>9, <1>12
    <3>3. depth'[k] + height'[k] < MaxDepth
      BY <1>2, <1>5, <1>9 DEF WithinDepth
    <3>4. k \in Found' /\ market'[k] # "price"
      BY <1>2, <1>5, <1>6 DEF Found
    <3>5. SelectedKnown(k)'
      BY <1>5, <1>9, <1>11, <3>1, <3>2, <3>3, <3>4 DEF SelectedKnown
    <3> QED BY <1>5, <1>9, <2>1, <3>5
  <2>2. CASE j # k /\ selected[j] = 0
    <3>1. height[j] = 0 /\ j \notin stale /\ Selection[j] = {}
      BY <2>2 DEF GraphKnown, SelectionKnown, Selection
    <3> QED BY <1>1, <1>9, <2>2, <3>1
  <2>3. CASE j # k /\ selected[j] # 0
    <3>1. SelectedKnown(j) /\ selected[j] \in DOMAIN routes[j] /\ Selection[j] = ChildrenOf(j, selected[j])
      BY <2>3 DEF GraphKnown, SelectionKnown, RoutesKept, Selection
    <3>2. PICK n \in DOMAIN routes[j] : n = selected[j]
      BY <3>1
    <3>3. selected'[j] = n /\ height'[j] = height[j]
      BY <1>9, <2>3, <3>2
    <3>4. ChildrenOf(j, n)' = ChildrenOf(j, n) /\ \A d \in ChildrenOf(j, n) : Supports(j, n, d)'
      BY <1>11, <3>1, <3>2 DEF SelectedKnown
    <3>5. j \notin stale' => height'[j] = HeightVia(j, n)'
      <4>1. ASSUME j \notin stale' PROVE k \notin ChildrenOf(j, n) /\ j \notin stale
        BY <1>1, <2>3, <3>1, <3>2, <4>1
      <4>2. ASSUME j \notin stale' PROVE height[j] = HeightVia(j, n) /\ HeightVia(j, n)' = HeightVia(j, n)
        BY <1>12, <3>1, <3>2, <4>1, <4>2 DEF SelectedKnown
      <4> QED BY <3>3, <4>2
    <3>6. j \in Found' /\ market'[j] # "price" /\ depth'[j] + height'[j] < MaxDepth
      BY <1>2, <3>1, <3>3 DEF SelectedKnown, Found
    <3>7. SelectedKnown(j)'
      BY <3>3, <3>4, <3>5, <3>6 DEF SelectedKnown
    <3> QED BY <2>3, <3>2, <3>3, <3>7
  <2> QED BY <2>1, <2>2, <2>3
<1>14. SelectionKnown'
  BY <1>13 DEF SelectionKnown
<1>15. DiscoveryKnown' /\ CutsKnown'
  BY <1>4, DiscoveryKept
<1>16. ErrorsKnown'
  <2>1. ASSUME NEW j \in Key, NEW n \in DOMAIN routes[j] PROVE ErrorKnown(j, n)'
    <3>1. ErrorKnown(j, n) /\ ChildrenOf(j, n) \subseteq Key
      BY RoutesTyped DEF GraphKnown, ErrorsKnown
    <3> QED BY <1>2, <1>3, <1>4, <3>1, NodesKept DEF ErrorKnown, Classifying
  <2> QED BY <1>2, <2>1 DEF ErrorsKnown
<1>17. PassKnown'
  <2>1. ASSUME ~changed', NEW j \in Key, Behind(j)' PROVE FALSE
    <3>1. PICK n \in DOMAIN found : n > cursor'
      BY <1>2, <2>1 DEF Behind
    <3>2. PICK m : m = Len(found)
      OBVIOUS
    <3>3. n \in 1 .. m /\ m \in Nat /\ n > m
      BY <1>3, <2>1, <3>1, <3>2, Counted DEF GraphKnown
    <3> QED BY <3>3
  <2> QED BY <1>3, <2>1 DEF PassKnown, Classifying
<1>18. ReasonsKnown' /\ AcceptedKnown'
  BY <1>2, <1>3 DEF ReasonsKnown, AcceptedKnown, GraphKnown
<1>19. GraphTyped'
  <2>1. stale' \subseteq Key
    BY <1>1 DEF GraphKnown, GraphTyped
  <2> QED BY <1>2, <1>3, <1>4, <1>9, <2>1, TypesKept DEF GraphKnown, GraphTyped
<1> QED BY <1>14, <1>15, <1>16, <1>17, <1>18, <1>19 DEF GraphKnown

-----------------------------------------------------------------------------
(* Classification *)

(* What ends the selection leaves nothing to try, and routes that failed on *)
(* their depth alone are marked.                                            *)
LEMMA MarkTooDeepKnown ==
  ASSUME GraphKnown, RoutesKept, world' = world, MarkTooDeep
  PROVE  GraphKnown'
<1> DEFINE marked(k, i) == IF k \in Found /\ TooDeep(k, i) THEN [routes[k][i] EXCEPT !.error = "max-depth"]
                           ELSE routes[k][i]
<1>1. /\ routes' = [k \in Key |-> [i \in DOMAIN routes[k] |-> marked(k, i)]]
      /\ phase = "mark" /\ phase' = "classify"
      /\ UNCHANGED <<world, maxNodes, found, depth, frontier, open, market, attempts, selected, height, stale, cursor,
                     changed, reason, accepted>>
  BY DEF MarkTooDeep
<1>2. ASSUME NEW k \in Key, NEW i \in DOMAIN routes[k]
      PROVE  /\ marked(k, i).plan = routes[k][i].plan /\ marked(k, i).cut = routes[k][i].cut
             /\ marked(k, i).error = IF TooDeep(k, i) THEN "max-depth" ELSE routes[k][i].error
  <2>1. DOMAIN routes[k][i] = {"plan", "cut", "error"} /\ k \in Found
    BY RoutesTyped DEF RoutesKept, IsRoute, GraphKnown
  <2> QED BY <2>1
<1> HIDE DEF marked
<1>3. ASSUME NEW k \in Key
      PROVE  /\ DOMAIN routes'[k] = DOMAIN routes[k]
             /\ \A i \in DOMAIN routes[k] : routes'[k][i] = marked(k, i)
  BY <1>1
<1>4. AfterDiscovery
  BY <1>1, <1>2, <1>3 DEF AfterDiscovery, PlansKept
<1>5. DiscoveryKnown' /\ CutsKnown'
  BY <1>4, DiscoveryKept
<1>6. /\ SelectionKnown' /\ Selection' = Selection
      /\ \A k \in Key : HasPath(k)' = HasPath(k)
      /\ \A k \in Key : \A i \in DOMAIN routes[k] :
           /\ Usable(k, i)' = Usable(k, i) /\ HeightVia(k, i)' = HeightVia(k, i)
           /\ WithinDepth(k, i)' = WithinDepth(k, i)
  BY <1>1, <1>4, SelectionUnchanged
<1>7. /\ \A k \in Key : IsTerminalMiss(k)' = IsTerminalMiss(k)
      /\ \A k \in Key : \A i \in DOMAIN routes[k] : ChildrenOf(k, i)' = ChildrenOf(k, i)
      /\ Found' = Found
  BY <1>4, NodesKept
<1>8. ASSUME NEW k \in Key, NEW i \in DOMAIN routes[k] PROVE ErrorKnown(k, i)'
  <2>1. ErrorKnown(k, i) /\ ChildrenOf(k, i) \subseteq Key
    BY RoutesTyped DEF GraphKnown, ErrorsKnown
  <2>2. /\ routes'[k][i].plan = routes[k][i].plan
        /\ routes'[k][i].error = IF TooDeep(k, i) THEN "max-depth" ELSE routes[k][i].error
    BY <1>2, <1>3
  <2>3. CASE TooDeep(k, i)
    BY <1>1, <1>6, <2>2, <2>3 DEF ErrorKnown, TooDeep, Classifying
  <2>4. CASE ~TooDeep(k, i)
    BY <1>1, <1>6, <1>7, <2>1, <2>2, <2>4 DEF ErrorKnown, TooDeep, Classifying
  <2> QED BY <2>3, <2>4
<1>9. ErrorsKnown'
  BY <1>3, <1>8 DEF ErrorsKnown
<1>10. PassKnown'
  <2>1. ASSUME NEW k \in Found PROVE HasPath(k)' \/ Eligible(k)' = {}
    <3>1. k \in Key /\ (HasPath(k) \/ Eligible(k) = {})
      BY <1>1, Counted DEF GraphKnown, PassKnown
    <3>2. ASSUME NEW i \in Eligible(k)' PROVE i \in Eligible(k)
      <4>1. i \in DOMAIN routes[k] /\ routes'[k][i].error = "none" /\ Usable(k, i)' /\ WithinDepth(k, i)'
              /\ \A d \in ChildrenOf(k, i)' : ~Reaches(Selection, d, k)'
        BY <1>3, <3>1, <3>2 DEF Eligible
      <4>2. routes[k][i].error = "none"
        BY <1>2, <1>3, <3>1, <4>1
      <4>3. \A d \in ChildrenOf(k, i) : ~Reaches(Selection, d, k)
        BY <1>6, <1>7, <3>1, <4>1 DEF Reaches, Closed
      <4> QED BY <1>6, <3>1, <4>1, <4>2, <4>3 DEF Eligible
    <3> QED BY <1>6, <3>1, <3>2
  <2> QED BY <1>1, <1>7, <2>1 DEF PassKnown, Classifying
<1>11. ReasonsKnown' /\ AcceptedKnown'
  BY <1>1 DEF ReasonsKnown, AcceptedKnown, GraphKnown
<1>12. GraphTyped'
  BY <1>1, <1>4, TypesKept DEF GraphKnown, GraphTyped, Classifying
<1> QED BY <1>5, <1>6, <1>9, <1>10, <1>11, <1>12 DEF GraphKnown

(* From then on only reasons are set, and roots accepted.                   *)
NodesFixed ==
  /\ (phase = "mark" \/ Classifying) /\ Classifying' 
  /\ UNCHANGED <<world, maxNodes, found, depth, frontier, open, market, routes, attempts, selected, height, stale,
                 cursor, changed>>

LEMMA NodesFixedKnown ==
  ASSUME GraphKnown, RoutesKept, NodesFixed, Classifying
  PROVE  /\ AfterDiscovery /\ DiscoveryKnown' /\ CutsKnown' /\ SelectionKnown' /\ ErrorsKnown' /\ PassKnown'
         /\ \A k \in Key : HasPath(k)' = HasPath(k)
         /\ Unresolved' = Unresolved
         /\ \A k \in Key : OwnReasons(k)' = OwnReasons(k) /\ Blockers(k)' = Blockers(k)
<1>1. AfterDiscovery
  BY DEF NodesFixed, AfterDiscovery, PlansKept, Classifying
<1>2. SelectionKnown' /\ \A k \in Key : HasPath(k)' = HasPath(k)
  BY <1>1, SelectionUnchanged DEF NodesFixed
<1>3. Found' = Found /\ Unresolved' = Unresolved
  BY DEF NodesFixed, Found, Unresolved, HasPath
<1>4. \A k \in Key : OwnReasons(k)' = OwnReasons(k) /\ Blockers(k)' = Blockers(k)
  BY <1>3 DEF NodesFixed, OwnReasons, RouteReasons, CutReasons, CutReason, Blockers, ChildrenOf
<1>5. ErrorsKnown'
  <2>1. ASSUME NEW k \in Key, NEW i \in DOMAIN routes[k] PROVE ErrorKnown(k, i)'
    <3>1. ErrorKnown(k, i) /\ ChildrenOf(k, i) \subseteq Key
      BY RoutesTyped DEF GraphKnown, ErrorsKnown
    <3>2. /\ Usable(k, i)' = Usable(k, i) /\ WithinDepth(k, i)' = WithinDepth(k, i)
          /\ ChildrenOf(k, i)' = ChildrenOf(k, i) /\ HasPath(k)' = HasPath(k)
      BY <1>1, SelectionUnchanged, NodesKept DEF NodesFixed
    <3>3. phase' # "frontier" /\ routes' = routes
      BY DEF NodesFixed, Classifying
    <3> QED BY <1>1, <3>1, <3>2, <3>3, NodesKept DEF ErrorKnown, NodesFixed
  <2> QED BY <2>1 DEF ErrorsKnown, NodesFixed
<1>6. PassKnown'
  <2>1. ASSUME NEW k \in Found PROVE HasPath(k)' \/ Eligible(k)' = {}
    <3>1. k \in Key /\ (HasPath(k) \/ Eligible(k) = {})
      BY Counted DEF GraphKnown, PassKnown
    <3> QED BY <1>1, <1>2, <3>1, TurnUnchanged DEF NodesFixed
  <2> QED BY <1>3, <2>1 DEF PassKnown, Classifying, NodesFixed
<1> QED BY <1>1, <1>2, <1>3, <1>4, <1>5, <1>6, DiscoveryKept

(* A node's own reasons are of the classes there are.                       *)
LEMMA OwnReasonsTyped ==
  ASSUME GraphKnown, NEW k \in Key
  PROVE  OwnReasons(k) \subseteq Reason
<1>1. attempts[k] \subseteq Reason
  BY DEF GraphKnown, GraphTyped
<1>2. RouteReasons(k) \subseteq Reason
  BY ReasonsListed DEF RouteReasons, GraphKnown, ErrorsKnown, ErrorKnown
<1>3. CutReasons(k) \subseteq Reason
  BY ReasonsListed DEF CutReasons, CutReason
<1> QED BY <1>1, <1>2, <1>3 DEF OwnReasons

LEMMA ClassifyKnown ==
  ASSUME GraphKnown, RoutesKept, world' = world, Classify
  PROVE  GraphKnown'
<1>1. PICK circular : reason' = [k \in Key |->
         IF k \notin Unresolved THEN "none"
         ELSE Worst(attempts[k] \cup RouteReasons(k) \cup CutReasons(k)
                      \cup (IF k \in circular THEN {"cycle"} ELSE {}))]
  BY DEF Classify
<1>2. NodesFixed /\ Classifying /\ phase' = "propagate" /\ accepted' = accepted /\ accepted = {}
  BY DEF Classify, NodesFixed, Classifying, GraphKnown, AcceptedKnown
<1>3. ASSUME NEW k \in Key
      PROVE  IF k \in Unresolved
             THEN reason'[k] \in Reason /\ (reason'[k] = "unsupported" => OwnReasons(k) \subseteq {"unsupported"})
             ELSE reason'[k] = "none"
  <2>1. CASE k \in Unresolved
    <3>1. PICK all : all = OwnReasons(k) \cup (IF k \in circular THEN {"cycle"} ELSE {})
      OBVIOUS
    <3>2. reason'[k] = Worst(all)
      BY <1>1, <2>1, <3>1 DEF OwnReasons
    <3>3. all \subseteq Reason
      BY <3>1, OwnReasonsTyped, ReasonsListed
    <3> QED BY <2>1, <3>1, <3>2, <3>3, WorstIsReason, WorstUnsupported
  <2>2. CASE k \notin Unresolved
    BY <1>1, <2>2
  <2> QED BY <2>1, <2>2
<1>4. ReasonsKnown'
  BY <1>2, <1>3, NodesFixedKnown DEF ReasonsKnown
<1>5. AcceptedKnown'
  BY <1>2 DEF AcceptedKnown
<1>6. GraphTyped'
  BY <1>1, <1>2, NodesFixedKnown, TypesKept DEF GraphKnown, GraphTyped, NodesFixed
<1> QED BY <1>2, <1>4, <1>5, <1>6, NodesFixedKnown DEF GraphKnown

LEMMA PropagateKnown ==
  ASSUME GraphKnown, RoutesKept, world' = world, Propagate
  PROVE  GraphKnown'
<1>1. /\ reason' = [k \in Key |-> IF k \in Unresolved
                                   THEN Worst({reason[j] : j \in {k} \cup Blockers(k)}) ELSE "none"]
      /\ phase' = IF reason' = reason THEN "classified" ELSE phase
  BY DEF Propagate
<1>2. NodesFixed /\ Classifying /\ phase = "propagate" /\ accepted' = accepted /\ accepted = {}
  BY DEF Propagate, NodesFixed, Classifying, GraphKnown, AcceptedKnown
<1>3. ASSUME NEW k \in Key
      PROVE  IF k \in Unresolved
             THEN reason'[k] \in Reason /\ (reason'[k] = "unsupported" => OwnReasons(k) \subseteq {"unsupported"})
             ELSE reason'[k] = "none"
  <2>1. CASE k \in Unresolved
    <3>1. PICK all : all = {reason[j] : j \in {k} \cup Blockers(k)}
      OBVIOUS
    <3>2. reason'[k] = Worst(all)
      BY <1>1, <2>1, <3>1
    <3>3. \A j \in {k} \cup Blockers(k) : j \in Unresolved /\ j \in Key
      <4>1. \A j \in Blockers(k) : j \in Unresolved
        BY DEF Blockers
      <4>2. \A j \in Unresolved : j \in Key
        BY Counted DEF Unresolved, GraphKnown
      <4> QED BY <2>1, <4>1, <4>2
    <3>4. all \subseteq Reason /\ reason[k] \in all
      BY <1>2, <3>1, <3>3 DEF GraphKnown, ReasonsKnown
    <3>5. reason'[k] = "unsupported" => reason[k] = "unsupported"
      BY <3>2, <3>4, WorstUnsupported
    <3> QED BY <1>2, <2>1, <3>2, <3>5, WorstIsReason DEF GraphKnown, ReasonsKnown
  <2>2. CASE k \notin Unresolved
    BY <1>1, <2>2
  <2> QED BY <2>1, <2>2
<1>4. ReasonsKnown'
  <2>1. \A k \in Unresolved : k \in Key
    BY Counted DEF Unresolved, GraphKnown
  <2>2. ASSUME phase' = "classified", NEW k \in Unresolved
        PROVE  reason'[k] = Worst({reason'[j] : j \in {k} \cup Blockers(k)})
    BY <1>1, <1>2, <2>1, <2>2
  <2> QED BY <1>2, <1>3, <2>1, <2>2, NodesFixedKnown DEF ReasonsKnown
<1>5. AcceptedKnown'
  BY <1>2, phase' # "validated" DEF AcceptedKnown, Propagate
<1>6. GraphTyped'
  BY <1>1, <1>2, NodesFixedKnown, TypesKept DEF GraphKnown, GraphTyped, NodesFixed
<1> QED BY <1>2, <1>4, <1>5, <1>6, NodesFixedKnown DEF GraphKnown

LEMMA ValidateKnown ==
  ASSUME GraphKnown, RoutesKept, world' = world, Validate
  PROVE  GraphKnown'
<1>1. /\ phase = "classified" /\ phase' = "validated" /\ reason' = reason
      /\ accepted' = {r \in Roots : HasPath(r) /\ \A k \in Visited(r) : Valid(k)}
  BY DEF Validate
<1>2. NodesFixed /\ Classifying
  BY DEF Validate, NodesFixed, Classifying
<1>3. ReasonsKnown'
  BY <1>1, <1>2, NodesFixedKnown DEF ReasonsKnown, GraphKnown
<1>4. AcceptedKnown'
  <2>1. Selection' = Selection /\ \A k \in Key : HasPath(k)' = HasPath(k)
    BY <1>2, NodesFixedKnown, SelectionUnchanged DEF NodesFixed
  <2>2. \A r : Visited(r)' = Visited(r)
    BY <2>1 DEF Visited, Reaches, Closed
  <2>3. \A k \in Key : Valid(k)' = Valid(k)
    BY <1>2 DEF NodesFixed, Valid, HasPath, IsTerminalMiss, Market
  <2>4. \A r : Visited(r) \subseteq Key
    BY DEF Visited
  <2> QED BY <1>1, <2>1, <2>2, <2>3, <2>4, RoutesAssumption DEF AcceptedKnown
<1>5. GraphTyped'
  BY <1>1, <1>2, NodesFixedKnown, TypesKept DEF GraphKnown, GraphTyped, NodesFixed
<1> QED BY <1>2, <1>3, <1>4, <1>5, NodesFixedKnown DEF GraphKnown

-----------------------------------------------------------------------------
(* The resolver *)

LEMMA GraphKnownStep ==
  ASSUME GraphKnown, GraphSound, [GraphNext /\ UNCHANGED world]_<<world, graphVars>>
  PROVE  GraphKnown'
<1>1. RoutesKept
  BY DEF GraphSound
<1>2. CASE UNCHANGED <<world, graphVars>>
  <2>1. GraphTyped' = GraphTyped /\ DiscoveryKnown' = DiscoveryKnown
    BY <1>2 DEF graphVars, GraphTyped, Classifying, DiscoveryKnown, ResolvedAs, Untouched, Captured, Uncaptured, Found,
                Market, Plans
  <2>2. CutsKnown' = CutsKnown /\ SelectionKnown' = SelectionKnown
    BY <1>2 DEF graphVars, CutsKnown, ChildrenOf, Found, SelectionKnown, SelectedKnown, Supports, HasPath, HeightVia,
                IsTerminalMiss
  <2>3. ErrorsKnown' = ErrorsKnown
    BY <1>2 DEF graphVars, ErrorsKnown, ErrorKnown, ChildrenOf, Found, HasPath, HeightVia, IsTerminalMiss, Classifying,
                Usable, WithinDepth
  <2>4. PassKnown' = PassKnown
    BY <1>2 DEF graphVars, PassKnown, Behind, PassedOver, Turn, Eligible, UpToDate, Selection, Reaches, Closed,
                ChildrenOf, Found, HasPath, HeightVia, IsTerminalMiss, Classifying, Usable, WithinDepth
  <2>5. ReasonsKnown' = ReasonsKnown
    BY <1>2 DEF graphVars, ReasonsKnown, OwnReasons, RouteReasons, CutReasons, CutReason, Unresolved, Blockers,
                ChildrenOf, Found, HasPath
  <2>6. AcceptedKnown' = AcceptedKnown
    BY <1>2 DEF graphVars, AcceptedKnown, Visited, Valid, Reaches, Closed, Selection, HasPath, IsTerminalMiss,
                ChildrenOf, Market
  <2> QED BY <2>1, <2>2, <2>3, <2>4, <2>5, <2>6 DEF GraphKnown
<1>3. CASE GraphNext /\ UNCHANGED world
  BY <1>1, <1>3, ResolveNodeKnown, FrontierKnown, RefuseRouteKnown, SelectRouteKnown, PassNodeKnown, MarkTooDeepKnown,
     ClassifyKnown, PropagateKnown, ValidateKnown DEF GraphNext
<1> QED BY <1>2, <1>3

(* Both parts of the inductive invariant.                                   *)
LEMMA GraphInvariant == GraphSpec => [](GraphSound /\ GraphKnown)
<1>1. world \in Worlds /\ GraphInit => GraphSound /\ GraphKnown
  BY GraphSoundInit, GraphKnownInit
<1>2. GraphSound /\ GraphKnown /\ [GraphNext /\ UNCHANGED world]_<<world, graphVars>> => GraphSound' /\ GraphKnown'
  BY GraphSoundStep, GraphKnownStep
<1> QED BY <1>1, <1>2, PTL DEF GraphSpec

(* The limits of the discovery hold, what was cut off is never found later, *)
(* and what is selected has no circle, for any tokens, plans and limits.    *)
THEOREM GraphTheorem == GraphSpec => []GraphInv
<1>1. GraphSound /\ GraphKnown => GraphInv
  <2> SUFFICES ASSUME GraphSound, GraphKnown PROVE GraphInv
    OBVIOUS
  <2>1. phase \in {"frontier", "select", "mark", "classify", "propagate", "classified", "validated"}
    BY DEF GraphKnown, GraphTyped, Classifying
  <2>2. \A k \in Key : /\ depth[k] < MaxDepth
                       /\ selected[k] \in {0} \cup DOMAIN routes[k]
                       /\ \A i \in DOMAIN routes[k] : routes[k][i].cut \cap Found = {}
    BY Counted DEF GraphKnown, CutsKnown, GraphSound, RoutesKept
  <2>3. Len(found) <= maxNodes /\ cursor \in 0 .. Len(found)
    BY DEF GraphKnown, GraphTyped
  <2>4. stale \subseteq Found
    BY DEF GraphKnown, GraphTyped, SelectionKnown, SelectedKnown
  <2> QED BY <2>1, <2>2, <2>3, <2>4 DEF GraphInv, GraphTypeOK, GraphSound
<1> QED BY <1>1, GraphInvariant, PTL

(* Below an accepted root every conversion lowers the height.               *)
LEMMA ChainsEnd ==
  ASSUME NEW chain, \A n \in 0 .. MaxDepth : chain[n] \in Key,
         \A k \in Key : height[k] \in Nat /\ height[k] < MaxDepth,
         \A n \in 1 .. MaxDepth : height[chain[n]] < height[chain[n - 1]]
  PROVE  FALSE
<1> DEFINE lost == {n \in 0 .. MaxDepth : height[chain[n]] + n > height[chain[0]]}
<1>1. MaxDepth \in Nat
  BY RoutesAssumption
<1>2. height[chain[0]] \in Nat /\ height[chain[0]] < MaxDepth /\ height[chain[MaxDepth]] \in Nat
  BY <1>1
<1>3. MaxDepth \in lost /\ 0 \notin lost /\ lost \in SUBSET Nat
  BY <1>1, <1>2
<1>4. PICK n \in lost : \A m \in lost : n <= m
  BY <1>3, LeastOf
<1>5. n \in 1 .. MaxDepth /\ n - 1 \in 0 .. MaxDepth /\ n \in 0 .. MaxDepth /\ n - 1 \notin lost
  BY <1>1, <1>3, <1>4
<1>6. height[chain[n]] \in Nat /\ height[chain[n - 1]] \in Nat /\ height[chain[n]] < height[chain[n - 1]]
  BY <1>5
<1>7. height[chain[n - 1]] + (n - 1) <= height[chain[0]] /\ height[chain[n]] + n > height[chain[0]]
  BY <1>2, <1>4, <1>5, <1>6
<1> QED BY <1>2, <1>5, <1>6, <1>7

(* A root is accepted only with a price that follows, over fewer than       *)
(* MaxDepth conversions, from observations inside the window and confirmed  *)
(* absences under plans that derive, and from the prices its children have  *)
(* in the end, whatever was selected and given up underneath it.            *)
THEOREM AcceptedTheorem == GraphSpec => []AcceptedIsSound
<1>1. GraphSound /\ GraphKnown => AcceptedIsSound
  <2> SUFFICES ASSUME GraphSound, GraphKnown, NEW r \in accepted
               PROVE  /\ HasPath(r)
                      /\ \A chain \in [0 .. MaxDepth -> Under(r)] :
                           \E n \in 1 .. MaxDepth : chain[n] \notin Selection[chain[n - 1]]
                      /\ \A k \in Under(r) :
                           /\ market[k] = "price" => Market(k) = "price"
                           /\ k \notin stale
                           /\ \A d \in Selection[k] :
                                HasPath(d) \/ (routes[k][selected[k]].plan.derive /\ Dead(d))
    BY DEF AcceptedIsSound
  <2>1. HasPath(r) /\ \A k \in Visited(r) : Valid(k)
    BY DEF GraphKnown, AcceptedKnown
  <2>2. \A k \in Under(r) : k \in Key
    BY DEF Under
  <2>3. ASSUME NEW k \in Under(r) PROVE k \notin stale /\ (market[k] = "price" => Market(k) = "price")
    <3>1. CASE HasPath(k)
      <4>1. Valid(k)
        BY <2>1, <3>1 DEF Visited, Under
      <4>2. market[k] = "price" => k \notin stale
        BY <2>2 DEF GraphKnown, SelectionKnown, SelectedKnown
      <4> QED BY <4>1, <4>2 DEF Valid
    <3>2. CASE ~HasPath(k)
      BY <2>2, <3>2 DEF GraphKnown, SelectionKnown, HasPath
    <3> QED BY <3>1, <3>2
  <2>4. ASSUME NEW k \in Under(r), NEW d \in Selection[k]
        PROVE  /\ d \in Under(r) /\ height[d] < height[k]
               /\ HasPath(d) \/ (routes[k][selected[k]].plan.derive /\ Dead(d))
    <3>1. selected[k] # 0 /\ d \in ChildrenOf(k, selected[k]) /\ SelectedKnown(k) /\ selected[k] \in DOMAIN routes[k]
      BY <2>2, <2>4 DEF Selection, GraphKnown, SelectionKnown, GraphSound, RoutesKept
    <3>2. d \in Key
      BY <2>2, <3>1, RoutesTyped DEF GraphKnown
    <3>3. d \in Under(r)
      BY <2>4, <3>2 DEF Under, Reaches, Closed
    <3>4. height[d] < height[k]
      BY <2>2, <2>3, <3>1, HeightsBounded DEF SelectedKnown
    <3>5. ASSUME d \in Found, IsTerminalMiss(d) PROVE Dead(d)
      <4>1. open = {}
        <5>1. phase # "frontier"
          BY <2>2, <3>1 DEF GraphSound, RoutesKept
        <5> QED BY <5>1 DEF GraphKnown, DiscoveryKnown
      <4>2. ResolvedAs(d) /\ market[d] = "missing" /\ DOMAIN routes[d] = {} /\ attempts[d] = {}
        BY <3>2, <3>5, <4>1 DEF GraphKnown, DiscoveryKnown, IsTerminalMiss
      <4>3. Market(d) = "missing" /\ Captured(d) = {} /\ Uncaptured(d) = {}
        BY <4>2 DEF ResolvedAs
      <4>4. DOMAIN Plans(d) = {}
        BY <4>3 DEF Captured, Uncaptured
      <4>5. Plans(d) = <<>>
        <5>1. PICK plans : plans = Plans(d)
          OBVIOUS
        <5>2. plans \in Seq(AdapterPlan)
          BY <3>2, <5>1, WorldTyped DEF GraphKnown, GraphTyped
        <5>3. Len(plans) \in Nat /\ DOMAIN plans = 1 .. Len(plans) /\ DOMAIN plans = {}
          BY <4>4, <5>1, <5>2, LenProperties
        <5>4. Len(plans) = 0
          BY <5>3
        <5> QED BY <5>1, <5>2, <5>4, EmptySeq
      <4> QED BY <4>3, <4>5 DEF Dead
    <3> QED BY <3>1, <3>3, <3>4, <3>5 DEF SelectedKnown, Supports
  <2>5. ASSUME NEW chain \in [0 .. MaxDepth -> Under(r)],
               \A n \in 1 .. MaxDepth : chain[n] \in Selection[chain[n - 1]]
        PROVE  FALSE
    <3>1. MaxDepth \in Nat \ {0}
      BY RoutesAssumption
    <3>2. \A n \in 0 .. MaxDepth : chain[n] \in Under(r)
      OBVIOUS
    <3>3. \A n \in 1 .. MaxDepth : n - 1 \in 0 .. MaxDepth
      BY <3>1
    <3>4. \A n \in 1 .. MaxDepth : height[chain[n]] < height[chain[n - 1]]
      BY <2>4, <2>5, <3>2, <3>3
    <3>5. ASSUME NEW k \in Key PROVE height[k] \in Nat /\ height[k] < MaxDepth
      <4>1. height[k] \in Nat /\ depth[k] \in Nat
        BY Counted DEF GraphKnown
      <4>2. height[k] = 0 \/ depth[k] + height[k] < MaxDepth
        BY DEF GraphKnown, SelectionKnown, SelectedKnown
      <4> QED BY <3>1, <4>1, <4>2
    <3> QED BY <2>2, <3>2, <3>4, <3>5, ChainsEnd
  <2> QED BY <2>1, <2>3, <2>4, <2>5
<1> QED BY <1>1, GraphInvariant, PTL

-----------------------------------------------------------------------------
(* What is classified is exhausted. *)

(* A route cannot be left over whose children have prices or are confirmed  *)
(* misses of a plan that derives, if no limit hit it and it has not failed. *)
LEMMA NoRouteLeft ==
  ASSUME GraphKnown, GraphSound, Classifying,
         NEW k \in Key, NEW i \in DOMAIN routes[k], ~HasPath(k),
         routes[k][i].cut = {}, routes[k][i].error \in {"none", "max-depth"},
         routes[k][i].error = "max-depth" => WithinDepth(k, i),
         \A d \in ChildrenOf(k, i) : d \in Found => HasPath(d) \/ (routes[k][i].plan.derive /\ IsTerminalMiss(d))
  PROVE  FALSE
<1>1. ChildrenOf(k, i) \subseteq Key /\ k \in Found
  BY RoutesTyped DEF GraphKnown
<1>2. ChildrenOf(k, i) \subseteq Found
  BY DEF GraphKnown, CutsKnown, Classifying
<1>3. Usable(k, i)
  BY <1>2 DEF Usable
<1>4. ErrorKnown(k, i)
  BY DEF GraphKnown, ErrorsKnown
<1>5. WithinDepth(k, i) /\ routes[k][i].error = "none"
  BY <1>3, <1>4 DEF ErrorKnown
<1>6. ASSUME NEW p \in Key, k \in Selection[p] PROVE FALSE
  <2>1. SelectedKnown(p) /\ k \in ChildrenOf(p, selected[p])
    BY <1>6 DEF Selection, GraphKnown, SelectionKnown
  <2>2. IsTerminalMiss(k)
    BY <2>1 DEF SelectedKnown, Supports
  <2> QED BY <2>2 DEF IsTerminalMiss
<1>7. ASSUME NEW d \in ChildrenOf(k, i) PROVE ~Reaches(Selection, d, k)
  <2>1. d # k
    BY <1>2, <1>7 DEF IsTerminalMiss
  <2>2. Closed(Selection, Key \ {k})
    <3>1. ASSUME NEW p \in Key, p # k PROVE Selection[p] \subseteq Key \ {k}
      <4>1. Selection[p] \subseteq Key
        BY RoutesTyped DEF Selection, GraphKnown, GraphSound, RoutesKept
      <4> QED BY <1>6, <4>1
    <3> QED BY <3>1 DEF Closed
  <2>3. d \in Key \ {k} /\ Key \ {k} \in SUBSET Key
    BY <1>1, <2>1
  <2> QED BY <2>2, <2>3 DEF Reaches
<1>8. i \in Eligible(k)
  BY <1>3, <1>5, <1>7 DEF Eligible
<1> QED BY <1>1, <1>8 DEF GraphKnown, PassKnown

(* Everything found is resolved, and dead tokens are confirmed misses.      *)
LEMMA FoundResolved ==
  ASSUME GraphKnown, phase # "frontier", NEW k \in Found
  PROVE  k \in Key /\ ResolvedAs(k) /\ (Dead(k) => IsTerminalMiss(k))
<1>1. k \in Key /\ ResolvedAs(k)
  BY Counted DEF GraphKnown, DiscoveryKnown
<1>2. ASSUME Dead(k) PROVE IsTerminalMiss(k)
  <2>1. Market(k) = "missing" /\ DOMAIN Plans(k) = {}
    BY <1>2 DEF Dead
  <2>2. Captured(k) = {} /\ Uncaptured(k) = {}
    BY <2>1 DEF Captured, Uncaptured
  <2> QED BY <1>1, <2>1, <2>2 DEF ResolvedAs, IsTerminalMiss
<1> QED BY <1>1, <1>2

(* Misses have no price.                                                    *)
LEMMA MissHasNone ==
  ASSUME GraphSound, NEW k \in Key, IsTerminalMiss(k)
  PROVE  ~HasPath(k)
BY DEF IsTerminalMiss, HasPath, GraphSound, RoutesKept

(* What follows from market prices is priced unless a limit is hit: the     *)
(* nodes with a price, and those never found, are closed under the plans.   *)
LEMMA PricedUnlessLimited ==
  ASSUME GraphKnown, GraphSound, Classifying
  PROVE  PriceableIsPriced
<1> SUFFICES ASSUME ~LimitsHit, NEW k \in Found \cap Priceable PROVE HasPath(k)
  BY DEF PriceableIsPriced
<1> DEFINE S == {j \in Key : j \in Found => HasPath(j)}
<1>1. phase # "frontier"
  BY DEF Classifying
<1>2. ASSUME NEW j \in Key, PriceableFrom(j, S), j \notin S PROVE FALSE
  <2>1. j \in Found /\ ~HasPath(j) /\ ResolvedAs(j)
    BY <1>1, <1>2, FoundResolved
  <2>2. Market(j) \notin {"price", "late"}
    BY <2>1 DEF ResolvedAs, HasPath
  <2>3. PICK i \in DOMAIN Plans(j) :
          /\ Plans(j)[i].fails = "never"
          /\ \A d \in Children(Plans(j)[i]) : d \in S \/ (Plans(j)[i].derive /\ Dead(d))
          /\ Children(Plans(j)[i]) \cap S # {} \/ Plans(j)[i].deps = <<>>
    BY <1>2, <2>2 DEF PriceableFrom
  <2>4. i \in DOMAIN routes[j] /\ routes[j][i].plan = Plans(j)[i]
    BY <2>1, <2>2, <2>3 DEF ResolvedAs, Captured, Undiscovered
  <2>5. ChildrenOf(j, i) = Children(Plans(j)[i]) /\ ErrorKnown(j, i)
    BY <2>4 DEF ChildrenOf, GraphKnown, ErrorsKnown
  <2>6. routes[j][i].cut = {} /\ (Usable(j, i) => WithinDepth(j, i))
    BY <2>1, <2>4 DEF LimitsHit
  <2>7. ASSUME NEW d \in ChildrenOf(j, i), d \in Found
        PROVE  HasPath(d) \/ (routes[j][i].plan.derive /\ IsTerminalMiss(d))
    BY <1>1, <2>3, <2>4, <2>5, <2>7, FoundResolved
  <2>8. ChildrenOf(j, i) \subseteq Found
    BY <1>1, <2>4, <2>6 DEF GraphKnown, CutsKnown
  <2>9. routes[j][i].error # "unsupported"
    <3>1. ASSUME ChildrenOf(j, i) # {}, \A d \in ChildrenOf(j, i) : IsTerminalMiss(d) PROVE FALSE
      <4>1. Children(Plans(j)[i]) \cap S # {}
        BY <2>3, <2>5, <3>1 DEF Children
      <4>2. PICK d \in ChildrenOf(j, i) : d \in S
        BY <2>5, <4>1
      <4>3. HasPath(d) /\ d \in Key
        BY <2>8, <4>2
      <4> QED BY <3>1, <4>2, <4>3, MissHasNone
    <3> QED BY <2>5, <3>1 DEF ErrorKnown
  <2>10. routes[j][i].error \in {"none", "max-depth"}
    BY <2>3, <2>4, <2>5, <2>9 DEF ErrorKnown, MayRefuse
  <2>11. Usable(j, i)
    BY <2>6, <2>7, <2>8 DEF Usable
  <2> QED BY <2>1, <2>4, <2>6, <2>7, <2>10, <2>11, NoRouteLeft
<1>3. S \in SUBSET Key /\ \A j \in Key : PriceableFrom(j, S) => j \in S
  BY <1>2
<1> HIDE DEF S
<1>4. k \in S
  BY <1>3 DEF Priceable, LeastFixpoint
<1> QED BY <1>4 DEF S

(* A token is written off as unsupported only if no price of it, and no     *)
(* error known to hide one, is conceivable: what is not written off is      *)
(* closed under the plans.                                                  *)
LEMMA UnsupportedIsHopeless ==
  ASSUME GraphKnown, GraphSound, phase = "classified"
  PROVE  UnsupportedLeavesNoPrice
<1> DEFINE U == {j \in Key : ~(j \in Found /\ reason[j] = "unsupported")}
<1>1. phase # "frontier" /\ Classifying
  BY DEF Classifying
<1>2. ASSUME NEW j \in Key, KnownConceivable(j, U), j \notin U PROVE FALSE
  <2>1. j \in Found /\ reason[j] = "unsupported"
    BY <1>2
  <2>2. j \in Unresolved /\ OwnReasons(j) \subseteq {"unsupported"} /\ ~HasPath(j)
    BY <2>1 DEF GraphKnown, ReasonsKnown, Unresolved
  <2>3. ResolvedAs(j)
    BY <1>1, <2>1, FoundResolved
  <2>4. \A n \in Blockers(j) : reason[n] = "unsupported"
    <3>1. PICK all : all = {reason[n] : n \in {j} \cup Blockers(j)}
      OBVIOUS
    <3>2. Worst(all) = "unsupported"
      BY <2>1, <2>2, <3>1 DEF GraphKnown, ReasonsKnown
    <3>3. \A n \in Blockers(j) : n \in Unresolved
      BY DEF Blockers
    <3>4. \A n \in Unresolved : n \in Key
      BY Counted DEF Unresolved, GraphKnown
    <3>5. all \subseteq Reason
      BY <2>2, <3>1, <3>3, <3>4 DEF GraphKnown, ReasonsKnown
    <3> QED BY <3>1, <3>2, <3>5, WorstUnsupported
  <2>5. Market(j) \in {"missing", "unsupported"}
    <3>1. Market(j) \notin {"price", "late"}
      BY <2>2, <2>3 DEF ResolvedAs, HasPath
    <3>2. Market(j) # "missing" => Market(j) \in attempts[j]
      BY <2>3, <3>1, WorldTyped DEF ResolvedAs, GraphKnown, GraphTyped
    <3> QED BY <2>2, <3>2 DEF OwnReasons
  <2>6. PICK i \in DOMAIN Plans(j) :
          \/ Plans(j)[i].fails = "discover"
          \/ ~Undiscovered(Plans(j)[i]) /\ Children(Plans(j)[i]) \subseteq U
          \/ /\ ~Undiscovered(Plans(j)[i]) /\ Plans(j)[i].derive
             /\ Children(Plans(j)[i]) \cap U # {}
             /\ \A d \in Children(Plans(j)[i]) : d \in U \/ Dead(d)
    BY <1>2, <2>5 DEF KnownConceivable, PromisingAroundDead
  <2>7. Plans(j)[i].fails # "discover"
    <3>1. ASSUME Plans(j)[i].fails = "discover" PROVE "retryable" \in attempts[j]
      <4>1. i \in DOMAIN Plans(j) \ Captured(j) /\ DiscoveryError(Plans(j)[i]) = "retryable"
        BY <3>1 DEF Captured, Undiscovered, DiscoveryError
      <4>2. "retryable" \in Uncaptured(j)
        BY <4>1 DEF Uncaptured
      <4> QED BY <2>3, <2>5, <4>2 DEF ResolvedAs
    <3> QED BY <2>2, <3>1 DEF OwnReasons
  <2>8. i \in DOMAIN routes[j] /\ routes[j][i].plan = Plans(j)[i]
    BY <2>3, <2>5, <2>6, <2>7 DEF ResolvedAs, Captured
  <2>9. ChildrenOf(j, i) = Children(Plans(j)[i]) /\ ErrorKnown(j, i) /\ ChildrenOf(j, i) \subseteq Key
    BY <2>8, RoutesTyped DEF ChildrenOf, GraphKnown, ErrorsKnown
  <2>10. routes[j][i].cut = {} /\ routes[j][i].error \in {"none", "unsupported"}
    <3>1. routes[j][i].cut # {} => CutReason(j) \in OwnReasons(j)
      BY <2>8 DEF OwnReasons, CutReasons
    <3>2. CutReason(j) # "unsupported"
      BY DEF CutReason
    <3>3. routes[j][i].error # "none" => routes[j][i].error \in OwnReasons(j)
      BY <2>8 DEF OwnReasons, RouteReasons
    <3> QED BY <2>2, <3>1, <3>2, <3>3
  <2>11. ChildrenOf(j, i) \subseteq Found
    BY <1>1, <2>8, <2>10 DEF GraphKnown, CutsKnown
  <2>12. ASSUME NEW d \in ChildrenOf(j, i), d \in U PROVE HasPath(d)
    <3>1. ASSUME ~HasPath(d) PROVE FALSE
      <4>1. d \in Unresolved
        BY <2>11, <3>1 DEF Unresolved
      <4>2. d \in Blockers(j)
        BY <2>8, <4>1 DEF Blockers
      <4> QED BY <2>4, <2>11, <2>12, <4>2
    <3> QED BY <3>1
  <2>13. ASSUME NEW d \in ChildrenOf(j, i), d \in Found
         PROVE  HasPath(d) \/ (routes[j][i].plan.derive /\ IsTerminalMiss(d))
    <3>1. d \in U \/ (Plans(j)[i].derive /\ Dead(d))
      BY <2>6, <2>7, <2>9
    <3> QED BY <1>1, <2>8, <2>12, <2>13, <3>1, FoundResolved
  <2>14. routes[j][i].error # "unsupported"
    <3>1. ASSUME ChildrenOf(j, i) # {}, \A d \in ChildrenOf(j, i) : IsTerminalMiss(d) PROVE FALSE
      <4>1. PICK d \in ChildrenOf(j, i) : d \in U
        BY <2>6, <2>7, <2>9, <3>1
      <4> QED BY <2>9, <2>12, <3>1, <4>1, MissHasNone
    <3> QED BY <2>9, <3>1 DEF ErrorKnown
  <2> QED BY <1>1, <2>2, <2>8, <2>10, <2>13, <2>14, NoRouteLeft
<1>3. U \in SUBSET Key /\ \A j \in Key : KnownConceivable(j, U) => j \in U
  BY <1>2
<1>4. ASSUME NEW k \in Found, reason[k] = "unsupported" PROVE k \notin U
  BY <1>4
<1> HIDE DEF U
<1>5. \A k \in LeastFixpoint(KnownConceivable) : k \in U
  BY <1>3 DEF LeastFixpoint
<1> QED BY <1>4, <1>5 DEF UnsupportedLeavesNoPrice

(* When the graph is resolved nothing that could be priced is left out, and *)
(* nothing is written off as unsupported that could have a price, but for   *)
(* errors classifyError does not know, in any world, whatever order the     *)
(* nodes were resolved in.                                                  *)
THEOREM ExhaustedTheorem == GraphSpec => []GraphIsExhausted
<1>1. GraphSound /\ GraphKnown => GraphIsExhausted
  BY PricedUnlessLimited, UnsupportedIsHopeless DEF GraphIsExhausted, Classifying
<1> QED BY <1>1, GraphInvariant, PTL
=============================================================================
