----------------------------- MODULE MCWriters -------------------------------
(***************************************************************************)
(* Two scenarios of HistoricalPrices in one run. A scenario says who is at  *)
(* work, which finalizedOnly options are in use and which sources quote     *)
(* what; all else is HistoricalPrices. Alone, each is small enough for TLC. *)
(***************************************************************************)
EXTENDS MCPrices

CONSTANTS r1, w1, f1, f2, c1

VARIABLE scenario

(* A request, a warmup run and a repair of a vault and its underlying.      *)
AcrossMidnight == [actors |-> {r1, w1, f1}, modes |-> {TRUE}, quoted |-> VaultSources]

(* A request, a repair, a backfill and a Curve LP repair of an LP token     *)
(* whose observation is confirmed invalid on the way.                       *)
InQuarantine == [actors |-> {r1, f1, f2, c1}, modes |-> {TRUE, FALSE}, quoted |-> LpSources]

Scenarios == {AcrossMidnight, InQuarantine}
AllSources == VaultSources \cup LpSources

QuotedTokens == {q[1] : q \in scenario.quoted}
NotOffered(target, price) == price # NoPrice /\ <<target.token, price.source>> \notin scenario.quoted

(* The step is one of the scenario.                                         *)
AsInScenario ==
  /\ \A r \in Requests :
       /\ r \notin scenario.actors => req'[r] = req[r]
       /\ req'[r].pc # "idle" => req'[r].target.token \in QuotedTokens
       /\ ~NotOffered(req'[r].target, req'[r].fetched)
  /\ \A w \in Warmups \ scenario.actors : warm'[w] = warm[w]
  /\ \A f \in Finalizers :
       /\ f \notin scenario.actors => txn'[f] = txn[f]
       /\ txn'[f].pc # "idle" =>
            txn'[f].target.token \in QuotedTokens /\ txn'[f].finalizedOnly \in scenario.modes
       /\ ~NotOffered(txn'[f].target, txn'[f].resolution)
  /\ \A c \in Repairs \ scenario.actors : curve'[c] = curve[c] /\ rejected' = rejected
  /\ \A k \in Keys : rows'[k] # rows[k] => <<k.token, k.source>> \in scenario.quoted

ScenarioSpec ==
  /\ scenario \in Scenarios /\ Init
  /\ [][Next /\ AsInScenario /\ UNCHANGED scenario]_<<vars, scenario>>
=============================================================================
