----------------------------- MODULE PriceStore ------------------------------
(***************************************************************************)
(* The table of daily prices, token_prices, and the statements that read   *)
(* and write it (src/db/queries.ts, src/prices/rejections.ts).  A row is   *)
(* identified by token, day and source; a target is a token and a day.     *)
(* While its day is open a row holds a current observation and is          *)
(* provisional; a closed day is to be finalized from an observation of its *)
(* close.  What a price is computed from is all that is kept of it.        *)
(***************************************************************************)
EXTENDS Integers, FiniteSets

CONSTANTS
  Tokens,    \* tokens that are priced
  Days,      \* UTC days
  Sources,   \* price sources
  Priority,  \* position of a source in SOURCE_PRIORITY
  Quoted     \* the (token, source) pairs some writer produces

(* Among any sources exactly one comes first. *)
ASSUME StoreAssumption ==
  /\ Tokens # {} /\ Days # {}
  /\ Days \subseteq Nat
  /\ Priority \in [Sources -> Nat]
  /\ \A s, z \in Sources : Priority[s] = Priority[z] => s = z
  /\ \A Z \in SUBSET Sources \ {{}} : \E s \in Z : \A z \in Z : Priority[s] <= Priority[z]
  /\ Quoted \subseteq Tokens \X Sources

Targets == [token: Tokens, day: Days]

Keys == {k \in [token: Tokens, day: Days, source: Sources] :
           <<k.token, k.source>> \in Quoted}

KeyOf(g, s) == [token |-> g.token, day |-> g.day, source |-> s]

TargetOf(k) == [token |-> k.token, day |-> k.day]

KeysOf(g) == {k \in Keys : TargetOf(k) = g}

(* What a stored price rests on: an observation made while its day was      *)
(* open, or one of the day's close.                                         *)
Values == {"live", "close"}

Row == [value: Values, final: BOOLEAN]

NoRow == [value |-> "none", final |-> FALSE]

(* A price on its way: out of a read, a provider or the edge cache. *)
Prices == [source: Sources, value: Values]

NoPrice == [source |-> "none", value |-> "none"]

VARIABLES
  today,     \* the current UTC day
  rows,      \* token_prices
  rejected,  \* rejected_price_observations
  lock       \* the transaction that holds token_prices, or "free"

storeVars == <<today, rows, rejected, lock>>

-----------------------------------------------------------------------------
(* Reads *)

Stored(k) == rows[k] # NoRow

NotRejected(k) == k \notin rejected

(* SERVED_PRICE_SQL: finalized, or the row of yesterday or today. *)
ServedKey(k) ==
  Stored(k) /\ NotRejected(k) /\ (rows[k].final \/ k.day >= today - 1)

(* ACCEPTED_PRICE_SQL: finalized, or today's row. *)
AcceptedKey(k) ==
  Stored(k) /\ NotRejected(k) /\ (rows[k].final \/ k.day = today)

FinalKey(k) == Stored(k) /\ NotRejected(k) /\ rows[k].final

UnfinalizedKey(k) == Stored(k) /\ NotRejected(k) /\ ~rows[k].final

(* DISTINCT ON (chain, token, timestamp) ... ORDER BY source priority *)
Preferred(S) ==
  IF S = {}
  THEN NoPrice
  ELSE LET best == CHOOSE k \in S : \A j \in S : Priority[k.source] <= Priority[j.source]
       IN  [source |-> best.source, value |-> rows[best].value]

(* getBatchHistoricalPrices *)
Served(g) == Preferred({k \in KeysOf(g) : ServedKey(k)})

(* readPricedKeys: repair asks for finalized rows only. *)
Priced(g, finalizedOnly) ==
  \E k \in KeysOf(g) : IF finalizedOnly THEN FinalKey(k) ELSE ServedKey(k)

-----------------------------------------------------------------------------
(* Writes, each a single statement *)

(* Mutant: writers do not wait for the table lock. *)
NoTableLock(writer) == TRUE

(* LOCK TABLE ... SHARE ROW EXCLUSIVE keeps every other writer waiting. *)
Unlocked(writer) == lock \in {"free", writer}

(* Mutant: the trigger is not there. *)
UpsertRejected(k, value, final) ==
  rows' = [rows EXCEPT ![k] = IF @.final THEN @ ELSE [value |-> value, final |-> final]]

(* Mutant: no WHERE finalized = FALSE. *)
UpsertOverFinal(k, value, final) ==
  rows' = [rows EXCEPT ![k] = IF k \in rejected THEN @ ELSE [value |-> value, final |-> final]]

(* INSERT ... ON CONFLICT DO UPDATE ... WHERE finalized = FALSE, behind the *)
(* trigger that swallows rejected observations.                             *)
Upsert(k, value, final) ==
  rows' = [rows EXCEPT ![k] = IF k \in rejected \/ @.final
                              THEN @
                              ELSE [value |-> value, final |-> final]]

(* Mutant: the flag is decided by the day on which the statement is built,  *)
(* as insertTokenPrices does.                                               *)
ProvisionalUnlessClosed(k, value) == Upsert(k, value, k.day # today)

InsertProvisionalTokenPrices(k, value) == Upsert(k, value, FALSE)

(* It throws for a row of the current day. *)
FinalizeTokenPrices(k, value) == k.day # today /\ Upsert(k, value, TRUE)

(* insertTokenPrices for one row: insert-only and final for other days,     *)
(* mutable and provisional for today.                                       *)
InsertTokenPrices(k, value) ==
  IF k.day = today
  THEN Upsert(k, value, FALSE)
  ELSE rows' = [rows EXCEPT ![k] = IF k \in rejected \/ @ # NoRow
                                   THEN @
                                   ELSE [value |-> value, final |-> TRUE]]

(* The rejected rows of a target are archived and deleted. *)
Quarantine(g) ==
  rows' = [k \in Keys |-> IF TargetOf(k) = g /\ k \in rejected THEN NoRow ELSE rows[k]]
=============================================================================
