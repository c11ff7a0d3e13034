----------------------------- MODULE DayAlignment -----------------------------
(***************************************************************************)
(* The one-off tool that refetches DeFiLlama prices stored against the      *)
(* wrong day and rescales the vault prices derived from them                *)
(* (src/scripts/backfill-defillama-day-alignment.ts,                        *)
(* lib/day-alignment-runner.ts). It is run again until nothing is left,     *)
(* may be killed at any point, and keeps what it did in scratch tables.     *)
(* Between its runs the warmup rewrites derived rows.                       *)
(*                                                                         *)
(* Prices and ratios are logarithms: a ratio of prices is a difference, and *)
(* multiplying ratios adds them up.                                         *)
(***************************************************************************)
EXTENDS Integers, FiniteSets

CONSTANTS Token, Vault, UnderlyingOf,
          Listed,       \* the vaults that Kong lists
          LastDay, Quotes, Unpriced, BatchSize,
          Misaligned,   \* what may be stored when the tool is first run
          MaxStarts, MaxRefreshes \* bounds of the model: phases started, rows the warmup rewrites

Day == 0..LastDay
ASSUME AlignmentAssumption ==
  /\ UnderlyingOf \in [Vault -> Token] /\ Listed \subseteq Vault
  /\ LastDay \in Nat /\ BatchSize \in Nat \ {0}
  /\ Quotes \subseteq Int /\ Unpriced \notin Int
  /\ Misaligned \subseteq [Token -> [Day -> Quotes \cup {Unpriced}]]
  /\ {MaxStarts, MaxRefreshes} \subseteq Nat

VARIABLES
  price,      \* token_prices, source defillama: per token and day
  derived,    \* token_prices, source derived: per vault and day
  ratio,      \* defillama_repair_ratio; 0 where it is applied, for then it is not read again
  unapplied,  \* its rows that are not applied: pairs of token and day
  behind,     \* derived rows older than their ratio's repaired_at
  missing,    \* backfill_missing: per token and day the kind
  progress,   \* backfill_progress
  alignPhase, \* "idle", "prices" or "derived"
  all,        \* the run goes on to the derived prices
  tokenWork,  \* per token what the run does with it
  aligned,    \* history: days that were fetched and written
  loose,      \* history: derived rows rewritten, or abandoned, while a ratio was pending
  starts, refreshes

tableVars == <<price, derived, ratio, unapplied, behind, missing, progress>>
alignmentVars == <<price, derived, ratio, unapplied, behind, missing, progress, alignPhase, all, tokenWork, aligned, loose, starts, refreshes>>

Kinds == {"gap", "not-found", "stale-row", "implausible"}
NoWork == [at |-> "none", cursor |-> 0, last |-> 0, stored |-> [d \in Day |-> Unpriced]]
Stored(t) == {d \in Day : price[t][d] # Unpriced}

AlignmentInit ==
  /\ price \in Misaligned
  /\ derived = [v \in Vault |-> price[UnderlyingOf[v]]]
  /\ ratio = [t \in Token |-> [d \in Day |-> 0]] /\ unapplied = {}
  /\ behind = {} /\ progress = {}
  /\ missing = [t \in Token |-> [d \in Day |-> "none"]]
  /\ alignPhase = "idle" /\ all = FALSE /\ tokenWork = [t \in Token |-> NoWork]
  /\ aligned = {} /\ loose = {} /\ starts = 0 /\ refreshes = 0

-----------------------------------------------------------------------------
(* The prices phase *)

\* Tokens with stored prices that are not done, or, to retry, those with a
\* missing day that may come back.
Pending == {t \in Token : Stored(t) # {}} \ progress
Retryable == {t \in Token : \E d \in Day : missing[t][d] \in Kinds \ {"implausible"}}
StartPrices(retry, goOn) ==
  LET selected == IF retry THEN Retryable ELSE Pending
  IN /\ alignPhase = "idle" /\ alignPhase' = "prices" /\ all' = goOn
     /\ starts < MaxStarts /\ starts' = starts + 1
     /\ progress' = IF retry THEN progress \ selected ELSE progress
     /\ tokenWork' = [t \in Token |-> IF t \in selected THEN [NoWork EXCEPT !.at = "selected"] ELSE NoWork]
     /\ UNCHANGED <<price, derived, ratio, unapplied, behind, missing, aligned, loose, refreshes>>

FirstOf(days) == CHOOSE d \in days : \A e \in days : d <= e
LastOf(days) == CHOOSE d \in days : \A e \in days : d >= e

\* From the day before the first stored one to the last, with the prices as
\* they are now.
ReadDays(t) ==
  /\ tokenWork[t].at = "selected"
  /\ tokenWork' = [tokenWork EXCEPT ![t] =
                [at |-> "fetching", stored |-> price[t],
                 cursor |-> IF Stored(t) = {} THEN 1
                            ELSE IF FirstOf(Stored(t)) = 0 THEN 0 ELSE FirstOf(Stored(t)) - 1,
                 last |-> IF Stored(t) = {} THEN 0 ELSE LastOf(Stored(t))]]
  /\ UNCHANGED <<tableVars, alignPhase, all, aligned, loose, starts, refreshes>>

Fetching(t) == tokenWork[t].at = "fetching" /\ tokenWork[t].cursor <= tokenWork[t].last
Batch(t) == {d \in Day : tokenWork[t].cursor <= d /\ d < tokenWork[t].cursor + BatchSize /\ d <= tokenWork[t].last}
NextBatch(t) == tokenWork' = [tokenWork EXCEPT ![t].cursor = @ + BatchSize]
GiveUp(t) == tokenWork' = [tokenWork EXCEPT ![t] = [NoWork EXCEPT !.at = "failed"]]

Record(t, kinds) ==
  missing' = [missing EXCEPT ![t] = [d \in Day |-> IF d \in DOMAIN kinds THEN kinds[d] ELSE missing[t][d]]]

\* computeRepairRatios: the written days whose stored price was another one.
Repaired(t, writes) ==
  {d \in DOMAIN writes : tokenWork[t].stored[d] \notin {Unpriced, writes[d]}}
(* Mutant: a ratio that is pending is replaced. *)
LastRatio(t, d, writes) == writes[d] - tokenWork[t].stored[d]

\* A ratio that is pending is multiplied, one that was applied is replaced.
NewRatio(t, d, writes) ==
  ratio[t][d] + writes[d] - tokenWork[t].stored[d]

\* The transaction of one batch: rows, ratios, missing days and found ones.
Persist(t, writes, kinds) ==
  LET repaired == Repaired(t, writes) IN
  /\ price' = [price EXCEPT ![t] = [d \in Day |-> IF d \in DOMAIN writes THEN writes[d] ELSE price[t][d]]]
  /\ ratio' = [ratio EXCEPT ![t] = [d \in Day |-> IF d \in repaired THEN NewRatio(t, d, writes) ELSE ratio[t][d]]]
  /\ unapplied' = unapplied \cup {t} \X repaired
  /\ behind' = behind \cup {v \in Vault : UnderlyingOf[v] = t} \X repaired
  /\ Record(t, [d \in DOMAIN kinds \cup DOMAIN writes |-> IF d \in DOMAIN writes THEN "none" ELSE kinds[d]])
  /\ aligned' = aligned \cup {t} \X DOMAIN writes
  /\ UNCHANGED <<derived, progress, alignPhase, all, loose, starts, refreshes>>

\* DeFiLlama answers; days without a sample, and days whose quote the guard
\* refuses, are missing.
Answered(t, quotes, implausible) ==
  LET written == {d \in Batch(t) : quotes[d] # Unpriced} \ implausible
      kind(d) == IF d \in implausible THEN "implausible"
                 ELSE IF tokenWork[t].stored[d] # Unpriced THEN "stale-row" ELSE "gap"
  IN Persist(t, [d \in written |-> quotes[d]], [d \in Batch(t) \ written |-> kind(d)])

Answers(t) == \E quotes \in [Batch(t) -> Quotes \cup {Unpriced}] :
                \E implausible \in SUBSET {d \in Batch(t) : quotes[d] # Unpriced} : Answered(t, quotes, implausible)

FetchBatch(t) == Fetching(t) /\ Answers(t) /\ NextBatch(t)
\* The transaction commits, but the connection is lost before it says so.
CommitUnknown(t) == Fetching(t) /\ Answers(t) /\ GiveUp(t)
\* Reading the stored days, a fetch, the guard, a transaction, or recording the
\* progress fails.
TokenFails(t) ==
  /\ tokenWork[t].at \in {"selected", "fetching"} /\ GiveUp(t)
  /\ UNCHANGED <<tableVars, alignPhase, all, aligned, loose, starts, refreshes>>
(* Mutant: the days of a 404 are not recorded as missing. *)
BatchNotFoundUnrecorded(t) ==
  /\ Fetching(t) /\ NextBatch(t)
  /\ UNCHANGED <<tableVars, alignPhase, all, aligned, loose, starts, refreshes>>

\* A 404 is the answer for all days of the batch. Their record may be committed
\* unnoticed as well.
BatchNotFound(t) ==
  /\ Fetching(t) /\ Record(t, [d \in Batch(t) |-> "not-found"]) /\ (NextBatch(t) \/ GiveUp(t))
  /\ UNCHANGED <<price, derived, ratio, unapplied, behind, progress, alignPhase, all, aligned, loose, starts, refreshes>>

\* The progress is recorded, noticed or not.
FinishToken(t) ==
  /\ tokenWork[t].at = "fetching" /\ tokenWork[t].cursor > tokenWork[t].last
  /\ progress' = progress \cup {t}
  /\ tokenWork' = [tokenWork EXCEPT ![t] = NoWork] \/ GiveUp(t)
  /\ UNCHANGED <<price, derived, ratio, unapplied, behind, missing, alignPhase, all, aligned, loose, starts, refreshes>>

Idle == alignPhase' = "idle" /\ all' = FALSE /\ tokenWork' = [t \in Token |-> NoWork]

\* All tokens are through. The derived prices follow if none failed.
EndPrices ==
  /\ alignPhase = "prices" /\ \A t \in Token : tokenWork[t].at \in {"none", "failed"}
  /\ IF all /\ \A t \in Token : tokenWork[t].at # "failed"
     THEN alignPhase' = "derived" /\ UNCHANGED <<all, tokenWork>> ELSE Idle
  /\ UNCHANGED <<tableVars, aligned, loose, starts, refreshes>>

-----------------------------------------------------------------------------
(* The derived phase *)

StartDerived ==
  /\ alignPhase = "idle" /\ alignPhase' = "derived"
  /\ starts < MaxStarts /\ starts' = starts + 1
  /\ UNCHANGED <<tableVars, all, tokenWork, aligned, loose, refreshes>>

Rescalable(t) ==
  {row \in behind : row[1] \in Listed /\ UnderlyingOf[row[1]] = t /\ derived[row[1]][row[2]] # Unpriced
                   /\ <<t, row[2]>> \in unapplied}

\* One statement, here for one token (in the code, for one chain): rows are
\* rescaled and the ratios of the rescaled rows are marked.
Rescale(t) ==
  LET rows == Rescalable(t)
      marked == {<<t, row[2]>> : row \in rows}
  IN
  /\ alignPhase = "derived"
  /\ derived' = [v \in Vault |-> [d \in Day |->
                   IF <<v, d>> \in rows THEN derived[v][d] + ratio[t][d] ELSE derived[v][d]]]
  /\ behind' = behind \ rows
  /\ unapplied' = unapplied \ marked
  /\ ratio' = [ratio EXCEPT ![t] = [d \in Day |-> IF <<t, d>> \in marked THEN 0 ELSE ratio[t][d]]]
  /\ UNCHANGED <<price, missing, progress, alignPhase, all, tokenWork, aligned, loose, starts, refreshes>>

\* The phase ends, or the process does, at any point.
Stop == alignPhase # "idle" /\ Idle /\ UNCHANGED <<tableVars, aligned, loose, starts, refreshes>>

\* The scratch tables go, and with them every ratio that was not applied.
Cleanup ==
  /\ alignPhase = "idle"
  /\ progress' = {} /\ missing' = [t \in Token |-> [d \in Day |-> "none"]]
  /\ ratio' = [t \in Token |-> [d \in Day |-> 0]] /\ unapplied' = {} /\ behind' = {}
  /\ loose' = loose \cup {r \in Vault \X Day : <<UnderlyingOf[r[1]], r[2]>> \in unapplied}
  /\ UNCHANGED <<price, derived, alignPhase, all, tokenWork, aligned, starts, refreshes>>

\* The warmup derives a vault price anew, from the price stored now.
Warmup(v, d) ==
  /\ refreshes < MaxRefreshes /\ refreshes' = refreshes + 1
  /\ alignPhase = "idle" /\ price[UnderlyingOf[v]][d] # Unpriced
  /\ derived' = [derived EXCEPT ![v] = [derived[v] EXCEPT ![d] = price[UnderlyingOf[v]][d]]]
  /\ behind' = behind \ {<<v, d>>}
  /\ loose' = IF <<UnderlyingOf[v], d>> \in unapplied THEN loose \cup {<<v, d>>} ELSE loose \ {<<v, d>>}
  /\ UNCHANGED <<price, ratio, unapplied, missing, progress, alignPhase, all, tokenWork, aligned, starts>>

TokenStep(t) ==
  \/ ReadDays(t) \/ FetchBatch(t) \/ CommitUnknown(t) \/ TokenFails(t) \/ BatchNotFound(t)
  \/ FinishToken(t) \/ Rescale(t)
AlignmentNext ==
  \/ \E retry, goOn \in BOOLEAN : StartPrices(retry, goOn)
  \/ EndPrices \/ StartDerived \/ Stop \/ Cleanup
  \/ \E t \in Token : TokenStep(t)
  \/ \E v \in Vault, d \in Day : Warmup(v, d)
AlignmentSpec == AlignmentInit /\ [][AlignmentNext]_alignmentVars

-----------------------------------------------------------------------------
\* Every repair of a price reaches the vault prices derived from it exactly
\* once, whatever is retried, killed or committed unnoticed: a derived row and
\* the ratio still to be applied to it make up the price of its underlying.
RescaledOnce == \A v \in Listed, d \in Day :
  LET t == UnderlyingOf[v] IN
  derived[v][d] # Unpriced /\ <<v, d>> \notin loose
    => derived[v][d] + ratio[t][d] = price[t][d]

\* A token counts as done only if each of its stored days was aligned or is
\* listed as missing; a listed gap has no price.
NothingSkipped ==
  /\ \A t \in progress, d \in Day :
       price[t][d] # Unpriced => <<t, d>> \in aligned \/ missing[t][d] \in Kinds
  /\ \A t \in Token, d \in Day : missing[t][d] = "gap" => price[t][d] = Unpriced
=============================================================================
