------------------------------ MODULE PriceGraph ------------------------------
(***************************************************************************)
(* resolveHistoricalGraph and the validation of what it selects. First the *)
(* graph of targets is discovered, frontier by frontier; then routes are    *)
(* selected, children before parents, until nothing changes; then what is   *)
(* left without a price is classified, and the selected graph under every   *)
(* root is validated before a price is written.                             *)
(*                                                                          *)
(* Prices are told apart by when they were calculated: a node is `stale'    *)
(* when a child of its selected route was selected anew after the node's    *)
(* price was calculated, which is when the recorded inputs no longer match  *)
(* the child and when the signature of the selection differs.               *)
(***************************************************************************)
EXTENDS TokenRoutes, Integers, FiniteSetsExt, SequencesExt

CONSTANT NodeLimits   \* values of the option maxNodes

ASSUME GraphAssumption == NodeLimits \subseteq Nat /\ IsFiniteSet(Roots)

VARIABLES maxNodes,   \* nodes discovery may add in this run
          phase,      \* frontier, select, mark, classify, propagate, classified, validated
          found,      \* keys of `nodes' in order of insertion
          depth,      \* frontier a node was found for
          frontier,   \* the current frontier, in order
          open,       \* its nodes that are not resolved yet
          market,     \* outcome of the market sources, per node
          routes,     \* captured plans of a node, by their places, with cut-off children and error
          attempts,   \* reasons of failed attempts of a node
          selected,   \* index of the selected route, 0 for none
          height,     \* height of the selected path
          stale,      \* nodes whose inputs have changed since
          cursor,     \* position of the pass over the nodes, from the end
          changed,    \* this pass has selected something
          reason,     \* class of the failure, per node without a price
          accepted    \* roots whose selected graph is valid
graphVars == <<maxNodes, phase, found, depth, frontier, open, market, routes, attempts, selected,
               height, stale, cursor, changed, reason, accepted>>

Found == ToSet(found)

GraphInit ==
  /\ maxNodes \in NodeLimits
  /\ phase = "frontier"
  /\ found \in SetToSeqs(Roots) /\ Len(found) <= maxNodes
  /\ depth = [k \in Key |-> 0]
  /\ frontier = found
  /\ open = Found
  /\ market = [k \in Key |-> "not-attempted"]
  /\ routes = [k \in Key |-> <<>>]
  /\ attempts = [k \in Key |-> {}]
  /\ selected = [k \in Key |-> 0]
  /\ height = [k \in Key |-> 0]
  /\ stale = {}
  /\ cursor = 0
  /\ changed = FALSE
  /\ reason = [k \in Key |-> "none"]
  /\ accepted = {}

HasPath(k) == market[k] = "price" \/ selected[k] # 0
IsTerminalMiss(k) == market[k] = "missing" /\ DOMAIN routes[k] = {} /\ attempts[k] = {}

-----------------------------------------------------------------------------
(* Discovery *)

Route(plan) == [plan |-> plan, cut |-> {}, error |-> "none"]
Captured(k) == {i \in DOMAIN Plans(k) : ~Undiscovered(Plans(k)[i])}
Uncaptured(k) == {DiscoveryError(Plans(k)[i]) : i \in DOMAIN Plans(k) \ Captured(k)}

(* resolveNode: a market price ends it; otherwise all adapters discover     *)
(* their plans, also after the market sources failed. Errors are kept with  *)
(* the class classifyError gives them, also the ones it does not know.      *)
ResolveNode(k) ==
  /\ phase = "frontier" /\ k \in open
  /\ open' = open \ {k}
  /\ IF Market(k) \in {"price", "late"}
     THEN /\ market' = [market EXCEPT ![k] = "price"]
          /\ UNCHANGED <<routes, attempts>>
     ELSE /\ market' = [market EXCEPT ![k] = IF Market(k) = "missing" THEN "missing" ELSE "error"]
          /\ routes' = [routes EXCEPT ![k] = [i \in Captured(k) |-> Route(Plans(k)[i])]]
          /\ attempts' = [attempts EXCEPT ![k] = Uncaptured(k) \cup ({Market(k)} \ {"missing"})]
  /\ UNCHANGED <<maxNodes, phase, found, depth, frontier, selected, height, stale, cursor, changed, reason, accepted>>

(* The places at which the frontier names a child: node, route and place    *)
(* among the dependencies, in the order in which they are read.             *)
Mentions ==
  UNION {UNION {{<<n, i, j>> : j \in DOMAIN routes[frontier[n]][i].plan.deps} :
                  i \in DOMAIN routes[frontier[n]]} : n \in DOMAIN frontier}
Named(m) == routes[frontier[m[1]]][m[2]].plan.deps[m[3]]
ReadBefore(m, o) ==
  \/ m[1] < o[1]
  \/ m[1] = o[1] /\ (m[2] < o[2] \/ (m[2] = o[2] /\ m[3] < o[3]))

(* The unknown children, in the order of their first mentions.              *)
FirstMentions ==
  {m \in Mentions : Named(m) \notin Found /\ \A o \in Mentions : ReadBefore(o, m) => Named(o) # Named(m)}
Unknown ==
  [c \in 1..Cardinality(FirstMentions) |->
     Named(CHOOSE m \in FirstMentions : Cardinality({o \in FirstMentions : ReadBefore(o, m)}) = c - 1)]

(* The next frontier: unknown children, unless they would lie too deep or   *)
(* exceed the node budget; those are cut off.                               *)
Admitted ==
  IF frontier = <<>> \/ depth[frontier[1]] + 1 >= MaxDepth THEN <<>>
  ELSE SubSeq(Unknown, 1, Min({Len(Unknown), maxNodes - Len(found)}))

Frontier ==
  /\ phase = "frontier" /\ open = {}
  /\ \E next \in {Admitted} :
       LET known == Found \cup ToSet(next)
       IN /\ found' = found \o next
          /\ frontier' = next
          /\ open' = ToSet(next)
          /\ depth' = [k \in Key |-> IF k \in known \ Found THEN depth[frontier[1]] + 1 ELSE depth[k]]
          /\ routes' = [k \in Key |->
               IF k \notin ToSet(frontier) THEN routes[k]
               ELSE [i \in DOMAIN routes[k] |->
                      [routes[k][i] EXCEPT !.cut = Children(routes[k][i].plan) \ known]]]
          /\ IF next = <<>>
             THEN phase' = "select" /\ cursor' = Len(found) /\ changed' = FALSE
             ELSE UNCHANGED <<phase, cursor, changed>>
  /\ UNCHANGED <<maxNodes, market, attempts, selected, height, stale, reason, accepted>>

CutReason(k) == IF depth[k] + 1 >= MaxDepth THEN "max-depth" ELSE "budget"

-----------------------------------------------------------------------------
(* Selection *)

ChildrenOf(k, i) == Children(routes[k][i].plan)
Selection == [k \in Key |-> IF selected[k] = 0 THEN {} ELSE ChildrenOf(k, selected[k])]

Usable(k, i) ==
  \A d \in ChildrenOf(k, i) :
    /\ d \in Found \ routes[k][i].cut
    /\ HasPath(d) \/ (routes[k][i].plan.derive /\ IsTerminalMiss(d))

HeightVia(k, i) == 1 + Max({-1} \cup {height[d] : d \in ChildrenOf(k, i)})
WithinDepth(k, i) == depth[k] + HeightVia(k, i) < MaxDepth
(* Mutant: a route is tried although its children rest on the node. *)
EligibleInCircles(k) ==
  {i \in DOMAIN routes[k] : routes[k][i].error = "none" /\ Usable(k, i) /\ WithinDepth(k, i)}

(* The routes of k that the pass tries.                                     *)
Eligible(k) ==
  {i \in DOMAIN routes[k] :
     /\ routes[k][i].error = "none"
     /\ Usable(k, i)
     /\ \A d \in ChildrenOf(k, i) : ~Reaches(Selection, d, k)
     /\ WithinDepth(k, i)}

(* Route i is selected and its inputs are the ones it was calculated from.  *)
UpToDate(k, i) == selected[k] = i /\ k \notin stale

(* How a calculation that does not yield a price ends: a derivation that    *)
(* has no price at all to rest on returns null.                             *)
NothingToRestOn(k, i) == ChildrenOf(k, i) # {} /\ \A d \in ChildrenOf(k, i) : ~HasPath(d)
MayFail(k, i) == NothingToRestOn(k, i) \/ MayRefuse(routes[k][i].plan)
MaySucceed(k, i) == ~NothingToRestOn(k, i) /\ MayYield(routes[k][i].plan)
FailureOf(k, i) == IF NothingToRestOn(k, i) THEN "unsupported" ELSE "invalid"

(* The next position of the pass, or the end of the last pass.              *)
Advance(change) ==
  IF cursor > 1 THEN cursor' = cursor - 1 /\ changed' = change /\ UNCHANGED phase
  ELSE IF change THEN cursor' = Len(found) /\ changed' = FALSE /\ UNCHANGED phase
  ELSE phase' = "mark" /\ cursor' = 0 /\ changed' = FALSE

(* The route whose turn it is at node k: the first one that can be tried.   *)
(* Failed routes are not tried again, so that the loop over the routes goes *)
(* on behind them.                                                          *)
Turn(k) == {i \in Eligible(k) : market[k] # "price" /\ \A j \in Eligible(k) : i <= j}

AtNode(k) == phase = "select" /\ cursor > 0 /\ k = found[cursor]

(* The calculation over route i fails, for good.                            *)
RefuseRoute(k) ==
  /\ AtNode(k)
  /\ \E i \in Turn(k) :
       /\ ~UpToDate(k, i) /\ MayFail(k, i)
       /\ routes' = [routes EXCEPT ![k] = [routes[k] EXCEPT ![i] = [routes[k][i] EXCEPT !.error = FailureOf(k, i)]]]
  /\ UNCHANGED <<maxNodes, phase, found, depth, frontier, open, market, attempts, selected, height, stale, cursor,
                 changed, reason, accepted>>

(* It yields a price, and whoever selected k has to be calculated again.    *)
SelectRoute(k) ==
  /\ AtNode(k)
  /\ \E i \in Turn(k) :
       /\ ~UpToDate(k, i) /\ MaySucceed(k, i)
       /\ selected' = [selected EXCEPT ![k] = i]
       /\ height' = [height EXCEPT ![k] = HeightVia(k, i)]
       /\ stale' = (stale \ {k}) \cup {p \in Key : k \in Selection[p]}
  /\ Advance(TRUE)
  /\ UNCHANGED <<maxNodes, found, depth, frontier, open, market, routes, attempts, reason, accepted>>

(* Nothing to do at k: it has a market price, no route can be tried, or the *)
(* one whose turn it is is up to date.                                      *)
PassNode(k) ==
  /\ AtNode(k)
  /\ \A i \in Turn(k) : UpToDate(k, i)
  /\ Advance(changed)
  /\ UNCHANGED <<maxNodes, found, depth, frontier, open, market, routes, attempts, selected, height, stale, reason,
                 accepted>>

-----------------------------------------------------------------------------
(* Classification *)

Unresolved == {k \in Found : ~HasPath(k)}

(* Routes that failed on nothing but their depth are marked.                *)
TooDeep(k, i) ==
  ~HasPath(k) /\ routes[k][i].error = "none" /\ Usable(k, i) /\ ~WithinDepth(k, i)

MarkTooDeep ==
  /\ phase = "mark"
  /\ phase' = "classify"
  /\ routes' = [k \in Key |-> [i \in DOMAIN routes[k] |->
                  IF k \in Found /\ TooDeep(k, i) THEN [routes[k][i] EXCEPT !.error = "max-depth"]
                  ELSE routes[k][i]]]
  /\ UNCHANGED <<maxNodes, found, depth, frontier, open, market, attempts, selected, height, stale, cursor,
                 changed, reason, accepted>>

(* What an unresolved node still waits for, and the nodes that remain when  *)
(* the leaves of that relation are peeled off again and again.              *)
Remaining(k) ==
  (UNION {ChildrenOf(k, i) \ routes[k][i].cut : i \in {i \in DOMAIN routes[k] : routes[k][i].error = "none"}})
    \cap Unresolved
BehindACycle ==
  UNION {S \in SUBSET Unresolved : \A k \in S : Remaining(k) \cap S # {}}

(* The worst of a node's own attempts, routes and cut-offs.                 *)
RouteReasons(k) == {routes[k][i].error : i \in DOMAIN routes[k]} \ {"none"}
(* Mutant: cut-off children leave no trace. *)
NoCutReasons(k) == {}

CutReasons(k) == IF \E i \in DOMAIN routes[k] : routes[k][i].cut # {} THEN {CutReason(k)} ELSE {}

Classify ==
  /\ phase = "classify"
  /\ phase' = "propagate"
  /\ \E circular \in {BehindACycle} :
       reason' = [k \in Key |->
         IF k \notin Unresolved THEN "none"
         ELSE Worst(attempts[k] \cup RouteReasons(k) \cup CutReasons(k)
                      \cup (IF k \in circular THEN {"cycle"} ELSE {}))]
  /\ UNCHANGED <<maxNodes, found, depth, frontier, open, market, routes, attempts, selected, height, stale, cursor,
                 changed, accepted>>

(* Then the worst of those of all unresolved nodes a node depends on: one   *)
(* round of the loop, until nothing changes.                                *)
Blockers(k) == (UNION {ChildrenOf(k, i) : i \in DOMAIN routes[k]}) \cap Unresolved

Propagate ==
  /\ phase = "propagate"
  /\ reason' = [k \in Key |-> IF k \in Unresolved
                               THEN Worst({reason[j] : j \in {k} \cup Blockers(k)}) ELSE "none"]
  /\ phase' = IF reason' = reason THEN "classified" ELSE phase
  /\ UNCHANGED <<maxNodes, found, depth, frontier, open, market, routes, attempts, selected, height, stale, cursor,
                 changed, accepted>>

-----------------------------------------------------------------------------
(* Validation *)
(* Mutant: the inputs of a calculation are not compared with the prices of its children. *)
ValidThoughStale(k) ==
  /\ HasPath(k)
  /\ market[k] = "price" => Market(k) = "price"
  /\ market[k] # "price" =>
       LET route == routes[k][selected[k]]
       IN /\ route.error = "none" /\ route.cut = {}
          /\ \A d \in Children(route.plan) : HasPath(d) \/ IsTerminalMiss(d)

(* What validateGraphResolution asks of every node it visits: an observation *)
(* inside the matching window, and for a calculated price a route without   *)
(* error whose children are there, or known to be absent, with the prices   *)
(* the calculation used.                                                    *)
Valid(k) ==
  /\ HasPath(k)
  /\ market[k] = "price" => Market(k) = "price"
  /\ market[k] # "price" =>
       LET route == routes[k][selected[k]]
       IN /\ route.error = "none" /\ route.cut = {}
          /\ \A d \in Children(route.plan) : HasPath(d) \/ IsTerminalMiss(d)
          /\ k \notin stale

(* The visit descends through children with a price.                        *)
Visited(r) == {k \in Key : Reaches(Selection, r, k) /\ HasPath(k)}

Validate ==
  /\ phase = "classified"
  /\ phase' = "validated"
  /\ accepted' = {r \in Roots : HasPath(r) /\ \A k \in Visited(r) : Valid(k)}
  /\ UNCHANGED <<maxNodes, found, depth, frontier, open, market, routes, attempts, selected, height, stale,
                 cursor, changed, reason>>

GraphNext ==
  \/ \E k \in Key : ResolveNode(k)
  \/ Frontier
  \/ \E k \in Key : RefuseRoute(k) \/ SelectRoute(k) \/ PassNode(k)
  \/ MarkTooDeep
  \/ Classify
  \/ Propagate
  \/ Validate

(* One resolver in one world.                                               *)
GraphSpec ==
  /\ world \in Worlds /\ GraphInit
  /\ [][GraphNext /\ UNCHANGED world]_<<world, graphVars>>

-----------------------------------------------------------------------------
GraphTypeOK ==
  /\ phase \in {"frontier", "select", "mark", "classify", "propagate", "classified", "validated"}
  /\ \A k \in Key : /\ depth[k] < MaxDepth
                    /\ selected[k] \in {0} \cup DOMAIN routes[k]
                    /\ \A i \in DOMAIN routes[k] : routes[k][i].cut \cap Found = {}
  /\ Len(found) <= maxNodes /\ cursor \in 0..Len(found)
  /\ stale \subseteq Found

(* Selections form an acyclic graph even when the discovered alternatives   *)
(* contain cycles (graph.ts:187-188).                                       *)
SelectionAcyclic == Acyclic(Selection)

(* The type invariant, the limits of the discovery, and no circle in what   *)
(* was selected, at any point of the passes.                                *)
GraphInv == GraphTypeOK /\ SelectionAcyclic

(* The keys that the selections under r lead to, r among them.              *)
Under(r) == {k \in Key : Reaches(Selection, r, k)}

(* A root is accepted only with a price that follows, over fewer than       *)
(* MaxDepth conversions, from observations inside the window and confirmed  *)
(* absences under plans that derive, and from the prices its children have  *)
(* in the end, although routes were selected and given up underneath it.    *)
AcceptedIsSound ==
  \A r \in accepted :
    /\ HasPath(r)
    /\ \A chain \in [0..MaxDepth -> Under(r)] : \E n \in 1..MaxDepth : chain[n] \notin Selection[chain[n - 1]]
    /\ \A k \in Under(r) :
         /\ market[k] = "price" => Market(k) = "price"
         /\ k \notin stale
         /\ \A d \in Selection[k] : HasPath(d) \/ (routes[k][selected[k]].plan.derive /\ Dead(d))

(* Cut-offs, cycles, invalid state and errors known to be transient are not *)
(* taken for evidence of unsupported tokens. Errors classifyError does not  *)
(* know are (graph.ts:132, 140, 158): see ErrorsAreNoEvidence.              *)
UnsupportedLeavesNoPrice ==
  LET conceivable == LeastFixpoint(KnownConceivable)
  IN \A k \in Found : reason[k] = "unsupported" => k \notin conceivable

(* A parent can resolve once all inputs for a valid route are available     *)
(* (architecture.md:76): unless a limit cut something off, what follows     *)
(* from market prices is priced.                                            *)
LimitsHit ==
  \E k \in Found : \E i \in DOMAIN routes[k] :
    routes[k][i].cut # {} \/ (Usable(k, i) /\ ~WithinDepth(k, i))
PriceableIsPriced == LimitsHit \/ \A k \in Found \cap Priceable : HasPath(k)

(* When the graph is resolved nothing that could be priced is left out, or  *)
(* written off as unsupported but for errors of a class nobody knows.       *)
GraphIsExhausted == phase = "classified" => UnsupportedLeavesNoPrice /\ PriceableIsPriced

(* Cutoffs, cycles, invalid state and retryable provider/RPC errors remain  *)
(* explicit; they are not evidence of unsupported tokens (README.md:75-76): *)
(* nothing is written off while an error stands between it and a price.     *)
ErrorsAreNoEvidence ==
  LET conceivable == LeastFixpoint(ErrorOrConceivable)
  IN phase = "classified" => \A k \in Found : reason[k] = "unsupported" => k \notin conceivable
=============================================================================
