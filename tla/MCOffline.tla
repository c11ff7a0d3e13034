------------------------------ MODULE MCOffline -------------------------------
(***************************************************************************)
(* Instances for TLC of what runs offline, beside the repair lifecycle: the *)
(* graph resolver, the batched client, the rounds of Chainlink feeds, and   *)
(* the two backfill tools. They do not meet: `part' says which of them a    *)
(* behaviour is about.                                                      *)
(***************************************************************************)
EXTENDS PriceGraph, HistoricalBatches, FeedRounds, DayAlignment, GapBackfill, TLC

CONSTANTS Parts, r, q, p, a, b, c, e, u, usd, eth, t1, t2, v1

VARIABLE part
vars == <<world, graphVars, batchVars, feedVars, alignmentVars, gapVars, part>>

(* The graph: alternatives that are given up for better ones while parents  *)
(* rest on them, circles, and limits.                                       *)
Plan(deps) == [deps |-> deps, derive |-> FALSE, fails |-> "never"]
Deriving(deps) == [deps |-> deps, derive |-> TRUE, fails |-> "never"]
Failing(deps, where) == [deps |-> deps, derive |-> FALSE, fails |-> where]
Offers(markets, plans) == [market : markets, plans : plans]
WorldsOf(menu) ==
  {r :> wr @@ q :> wq @@ p :> wp @@ a :> wa @@ b :> wb @@ c :> wc :
     wr \in menu[r], wq \in menu[q], wp \in menu[p], wa \in menu[a], wb \in menu[b], wc \in menu[c]}
GraphWorlds == WorldsOf(
  r :> Offers({"missing"}, {<<Plan(<<p, a, b>>)>>, <<Deriving(<<p, a, b>>)>>, <<Plan(<<p, a>>), Plan(<<b>>)>>})
  @@ q :> Offers({"missing"}, {<<Plan(<<a>>), Plan(<<c>>)>>})
  @@ p :> Offers({"missing", "price"}, {<<>>, <<Plan(<<b>>)>>, <<Plan(<<b>>), Deriving(<<a, c>>)>>})
  @@ a :> Offers({"missing", "retryable"}, {<<>>, <<Plan(<<c>>)>>, <<Failing(<<c>>, "reverts")>>, <<Plan(<<q>>)>>})
             \cup Offers({"unsupported"}, {<<>>, <<Plan(<<c>>)>>, <<Failing(<<>>, "throws")>>})
  @@ b :> Offers({"missing"},
                 {<<Plan(<<a>>), Plan(<<c>>)>>, <<Failing(<<a>>, "fragile"), Plan(<<c>>)>>, <<Plan(<<p>>)>>})
  @@ c :> Offers({"missing", "price", "late"}, {<<>>}))

(* A token whose market sources, or whose adapters, end in an error that    *)
(* classifyError does not know: an invalid JSON body that is not retried    *)
(* (http-client.ts:252), a chain without an RPC URL (graph-replay.ts:95).   *)
UnknownErrors == WorldsOf(
  r :> Offers({"missing"}, {<<Plan(<<p, a>>)>>, <<Deriving(<<p, a>>)>>})
  @@ q :> Offers({"missing"}, {<<Plan(<<a>>), Plan(<<c>>)>>})
  @@ p :> Offers({"price"}, {<<>>})
  @@ a :> Offers({"missing", "unsupported"}, {<<>>, <<Failing(<<>>, "throws")>>})
  @@ b :> Offers({"missing"}, {<<>>})
  @@ c :> Offers({"missing", "price"}, {<<>>}))

(* Three tokens each of which is better priced through the next, up to the  *)
(* depth limit: what they are priced from in the end is four conversions    *)
(* further down.                                                            *)
Chain == <<"d", "e", "f", "g">>
ChainWorld == [k \in ToSet(Chain) |->
  IF k = Last(Chain) THEN [market |-> "price", plans |-> <<>>]
  ELSE [market |-> "missing", plans |-> <<Plan(<<Chain[1 + CHOOSE n \in DOMAIN Chain : Chain[n] = k]>>)>>]]
RingWorld == {ring @@ ChainWorld : ring \in WorldsOf(
  r :> Offers({"missing"}, {<<Plan(<<p, a, b>>)>>})
  @@ q :> Offers({"missing"}, {<<>>})
  @@ p :> Offers({"missing"}, {<<Plan(<<b>>), Plan(<<c>>)>>})
  @@ a :> Offers({"missing"}, {<<Plan(<<p>>), Plan(<<c>>)>>})
  @@ b :> Offers({"missing"}, {<<Plan(<<a>>), Plan(<<c>>)>>})
  @@ c :> Offers({"missing"}, {<<Plan(<<Head(Chain)>>)>>}))}

(* The batched client: two coins, close and distant timestamps, one of them *)
(* the end of the open day; observations two look-ups compete for, two at   *)
(* the same distance, and malformed ones.                                   *)
LookUps == ({e} \X {13, 16}) \cup ({u} \X {20, 23})
Asked == {[coin |-> k[1], time |-> k[2]] : k \in LookUps}
ClosesDay(t) == t % 12 = 11
At(timestamp, amount) == [timestamp |-> timestamp, price |-> amount]
Responses == {<<At(14, 0)>>, <<At(14, 1)>>, <<At(12, 1), At(14, 1)>>, <<At(14, 1), At(15, 2), At(21, 1)>>}

(* Feeds with unreadable rounds, an empty and an unknown phase, and an      *)
(* aggregator that went on writing after its successor took over.           *)
PhaseOf(histories, known) == [rounds : histories, known : known]
FeedHistories ==
  {usd :> earlier \o <<second, third>> @@ eth :> <<other>> :
     earlier \in {<<>>} \cup {<<first>> : first \in PhaseOf({<<>>, <<2, 5, 9>>, <<2, 0, 9, 12>>, <<2, 5, 9, 12>>}, BOOLEAN)},
     second \in PhaseOf({<<>>, <<9, 12, 15>>, <<9, 12, 0, 18>>, <<15>>}, BOOLEAN),
     third \in PhaseOf({<<20>>, <<18, 20, 21, 22, 25>>}, {TRUE}),
     other \in PhaseOf({<<11>>, <<2, 5, 9, 12, 16>>}, {TRUE})}
LegsOfToken == {<<usd>>, <<usd, eth>>}

(* One repaired token with one vault, its second day stored.                *)
StoredWrong == {[t \in {t1} |-> [d \in 0..1 |-> IF d = 1 THEN 1 ELSE Unpriced]]}
OneVault == [v \in {v1} |-> t1]

(* Manifests with contiguous days, a target named twice, and an open day.   *)
Gap(t, d) == [token |-> t, day |-> d]
Files == {<<Gap(t1, 0), Gap(t1, 1), Gap(t1, 2), Gap(t2, 1)>>,
          <<Gap(t1, 0), Gap(t2, 1), Gap(t1, 0)>>, <<Gap(t1, 3)>>}
Aliases == t1 :> [identifier |-> "coin", from |-> 0, until |-> 8]
             @@ t2 :> [identifier |-> "coin", from |-> 0, until |-> 20]
Seen(at, amount) == [at |-> at, price |-> amount]
KnownCharts == {{}, {Seen(3, 1), Seen(8, 1)}, {Seen(3, 1), Seen(3, 2), Seen(7, 1)}, {Seen(2, 0), Seen(11, 1)}}
Tables == {[t \in Target |-> "absent"],
           [t \in Target |-> IF t = Gap(t1, 1) THEN "withheld" ELSE "absent"]}

\* One is found priced, one is priced, and one is in no manifest.
ListedBefore == {Gap(t1, 0), Gap(t2, 1), Gap(t2, 0)}

AnyOf(S) == CHOOSE x \in S : TRUE
OneUnless(active, S) == IF active THEN S ELSE {AnyOf(S)}

Init ==
  /\ part \in Parts
  /\ world \in OneUnless(part = "graph", Worlds)
  /\ found = <<r, q>> /\ maxNodes \in OneUnless(part = "graph", NodeLimits) /\ GraphInit
  /\ BatchInit
  /\ feeds \in OneUnless(part = "feeds", Feeds)
  /\ request \in OneUnless(part = "feeds", Legs \X Times) /\ FeedInit
  /\ AlignmentInit
  /\ rows \in OneUnless(part = "gaps", FirstRows) /\ GapInit
  /\ part # "gaps" => job.mode = "write" /\ job.file = AnyOf(Manifests)

GraphStep ==
  part = "graph" /\ GraphNext /\ UNCHANGED <<world, part, batchVars, feedVars, alignmentVars, gapVars>>
ClientStep ==
  part = "batches" /\ BatchNext /\ UNCHANGED <<world, part, graphVars, feedVars, alignmentVars, gapVars>>
FeedStep ==
  part = "feeds" /\ FeedNext /\ UNCHANGED <<world, part, graphVars, batchVars, alignmentVars, gapVars>>
AlignmentStep ==
  part = "alignment" /\ AlignmentNext /\ UNCHANGED <<world, part, graphVars, batchVars, feedVars, gapVars>>
GapStep ==
  part = "gaps" /\ GapNext /\ UNCHANGED <<world, part, graphVars, batchVars, feedVars, alignmentVars>>

Next == GraphStep \/ ClientStep \/ FeedStep \/ AlignmentStep \/ GapStep

(* The batched client's timer and transport are fair; unasked it has        *)
(* nothing to do.                                                           *)
Spec == Init /\ [][Next]_vars /\ BatchFairness

(* The resolver is a loop in one process: it goes on until it ends.         *)
LoopSpec == Init /\ [][Next]_vars /\ WF_vars(GraphStep)

(* Depth, node and RPC read budgets keep discovery bounded                  *)
(* (architecture.md:78), and selections form an acyclic graph               *)
(* (graph.ts:187-188): the passes over the nodes come to an end.            *)
GraphEnds == part = "graph" ~> phase = "validated"
=============================================================================
