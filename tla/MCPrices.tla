------------------------------ MODULE MCPrices -------------------------------
(* Model values and definitions for the runs of HistoricalPrices. *)
EXTENDS HistoricalPrices, TLC

Named == {"defillama", "chainlink", "curve", "derived"}

(* The order of SOURCE_PRIORITY. *)
Ranking == "defillama" :> 1 @@ "chainlink" :> 2 @@ "curve" :> 3 @@ "derived" :> 4

VaultOverToken == "vault" :> "token"

(* No vaults. *)
NoVaults == [v \in {} |-> "token"]

VaultSources == {<<"token", "defillama">>, <<"token", "curve">>, <<"vault", "derived">>}

LpSources == {<<"token", "defillama">>, <<"token", "chainlink">>, <<"token", "derived">>}

OneIncident == {[token |-> "token", day |-> 1, source |-> "defillama"]}
=============================================================================
