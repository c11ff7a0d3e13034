------------------------------ MODULE MCRequest -------------------------------
(***************************************************************************)
(* Instances for TLC of what a request runs through below the routes: the   *)
(* spot handler, the source registry, the batcher, the price engine, the    *)
(* HTTP clients and the search for blocks. Each has its own callers, so     *)
(* `part' says which of them a behaviour is about.                          *)
(***************************************************************************)
EXTENDS PriceEngine, ProviderClient, SourceRegistry, SpotBatches, SpotPrices, BlockSearch, TLC

CONSTANTS r, p, a, b, c

VARIABLE part
vars == <<world, engineVars, clientVars, registryVars, spotBatchVars, spotVars, searchVars, part>>

(* The engine: children that may need each other in circles of two and      *)
(* three, over a leaf c.                                                    *)
Plan(deps) == [deps |-> deps, derive |-> FALSE, fails |-> "never"]
Deriving(deps) == [deps |-> deps, derive |-> TRUE, fails |-> "never"]
Failing(deps, where) == [deps |-> deps, derive |-> FALSE, fails |-> where]
Offers(markets, plans) == [market : markets, plans : plans]
WorldsOf(menu) ==
  {r :> wr @@ p :> wp @@ a :> wa @@ b :> wb @@ c :> wc :
     wr \in menu[r], wp \in menu[p], wa \in menu[a], wb \in menu[b], wc \in menu[c]}
EngineWorlds == WorldsOf(
  r :> Offers({"missing"}, {<<Deriving(<<a, b>>)>>, <<Plan(<<a>>), Plan(<<p, b>>)>>})
  @@ p :> Offers({"missing"}, {<<Deriving(<<c>>), Plan(<<a>>)>>})
  @@ a :> Offers({"missing"}, {<<Plan(<<b>>), Plan(<<>>)>>, <<Failing(<<c>>, "reverts"), Plan(<<c>>)>>})
  @@ b :> Offers({"missing"},
                 {<<Failing(<<c>>, "discover"), Plan(<<p>>), Failing(<<c>>, "fragile")>>})
  @@ c :> Offers({"price", "missing", "unsupported"}, {<<>>}))

(* A client that waits out cool-downs and retries, and one that gives up.   *)
Patient == [retryTransport |-> TRUE, retryInvalidJson |-> TRUE, retryRateLimits |-> TRUE,
            honorRetryAfter |-> TRUE, notFoundAsError |-> FALSE]
Brisk == [retryTransport |-> FALSE, retryInvalidJson |-> FALSE, retryRateLimits |-> FALSE,
          honorRetryAfter |-> FALSE, notFoundAsError |-> TRUE]
TwoPolicies == {Patient, Brisk}
ShortDelays == <<1, 2>>

(* The registry: a target of every source, one that lacks one, and one      *)
(* whose observations of the first source are rejected.                     *)
Historical == <<"defillama", "chainlink", "onchain">>
Served == (ToSet(Historical) \X {"t1"}) \cup {<<"defillama", "t2">>, <<"onchain", "t2">>}
            \cup ({"defillama", "chainlink"} \X {"t3"})
TwoGroups == {{"t1"}, {"t2"}}

(* The batcher: three callers of one token, one of another.                 *)
Asks == [w \in {"w1", "w2", "w3", "w4"} |-> IF w = "w4" THEN "y" ELSE "x"]

(* The spot request: coins with fewer and fewer sources, the last of them   *)
(* written down.                                                            *)
SpotOrder == <<"enso", "defillama", "onchain">>
Quotable == ({"enso"} \X {"c1", "c2", "c3"}) \cup {<<"defillama", "c1">>, <<"onchain", "c2">>}

(* The chain: blocks at equal times, a gap in the times, and two clients    *)
(* that cannot read the first blocks, or not the same ones. One target      *)
(* falls between blocks, one on two of them, and one on the last block,     *)
(* which is mined later.                                                    *)
BlockTimes == [n \in 0..4 |-> <<10, 12, 31, 31, 33>>[n + 1]]
Prunings == {[node |-> n[1], archive |-> n[2]] : n \in {<<0, 0>>, <<2, 2>>, <<2, 0>>}}
(* Bound: as many searches of all clients for all times are begun.          *)
MaxSearches == 2

Init ==
  /\ part \in {"engine", "client", "registry", "batches", "spot", "search"}
  /\ world \in (IF part = "engine" THEN EngineWorlds ELSE {CHOOSE w \in EngineWorlds : TRUE})
  /\ gap \in (IF part = "search" THEN Gaps ELSE {CHOOSE g \in Gaps : TRUE})
  /\ batchSize \in (IF part = "batches" THEN BatchSizes ELSE {CHOOSE n \in BatchSizes : TRUE})
  /\ EngineInit /\ ClientInit /\ RegistryInit /\ SpotBatchesInit /\ SpotInit /\ BlockSearchInit
  /\ part # "client" => \A h \in HttpCall : call[h].policy = Patient

EngineStep ==
  /\ part = "engine" /\ EngineNext
  /\ UNCHANGED <<world, part, clientVars, registryVars, spotBatchVars, spotVars, searchVars>>
ClientStep ==
  /\ part = "client" /\ ClientNext
  /\ UNCHANGED <<world, part, engineVars, registryVars, spotBatchVars, spotVars, searchVars>>
RegistryStep ==
  /\ part = "registry" /\ RegistryNext
  /\ UNCHANGED <<world, part, engineVars, clientVars, spotBatchVars, spotVars, searchVars>>
BatcherStep ==
  /\ part = "batches" /\ SpotBatchesNext
  /\ UNCHANGED <<world, part, engineVars, clientVars, registryVars, spotVars, searchVars>>
SpotStep ==
  /\ part = "spot" /\ SpotNext
  /\ UNCHANGED <<world, part, engineVars, clientVars, registryVars, spotBatchVars, searchVars>>
SearchingStep ==
  /\ part = "search" /\ BlockSearchNext
  /\ Cardinality({ask \in Client \X SearchTime : search'[ask[1]][ask[2]].at # "none"}) <= MaxSearches
  /\ UNCHANGED <<world, part, engineVars, clientVars, registryVars, spotBatchVars, spotVars>>

Next == EngineStep \/ ClientStep \/ RegistryStep \/ BatcherStep \/ SpotStep \/ SearchingStep

(* What is fair in a component that is not asked is not enabled.            *)
Spec ==
  /\ Init /\ [][Next]_vars
  /\ EngineFairness /\ ClientFairness /\ RegistryFairness
  /\ SpotBatchesFairness /\ SpotFairness /\ BlockSearchFairness

(* Whoever asks a client, the registry, the batcher, the spot handler or    *)
(* the block search is answered.                                            *)
CallersHearBack ==
  /\ CallsEnd /\ EveryTargetReported /\ CallersAreAnswered /\ EverySpotIsAnswered /\ SearchesEnd
=============================================================================
