---------------------------- MODULE OfflineTheorems ----------------------------
(***************************************************************************)
(* What the one-off tools promise, and the search for rounds. The day       *)
(* alignment reaches every derived price exactly once and skips no stored   *)
(* day, for any tokens, vaults and stored prices, however often it is       *)
(* stopped and run again. The report of a gap backfill says what the tables *)
(* say, wherever the run failed. A Chainlink price is made of the rounds    *)
(* that were current.                                                       *)
(***************************************************************************)
EXTENDS DayAlignment, GapBackfill, FeedRounds, TLAPS, WellFoundedInduction, FiniteSetTheorems,
        SequenceTheorems

-----------------------------------------------------------------------------
(* Days *)

(* A set of natural numbers has a least member.                             *)
LEMMA LeastOf ==
  ASSUME NEW S \in SUBSET Nat, S # {}
  PROVE  \E i \in S : \A j \in S : i <= j
<1> DEFINE less == {pair \in Nat \X Nat : pair[1] < pair[2]}
<1>1. IsWellFoundedOn(less, Nat)
  BY NatLessThanWellFounded DEF OpToRel
<1> HIDE DEF less
<1>2. PICK i \in S : \A j \in S : ~(<<j, i>> \in less)
  BY <1>1, WFMin
<1>3. ASSUME NEW j \in S PROVE i <= j
  BY <1>2, <<j, i>> \in less <=> j < i DEF less
<1> QED BY <1>3

(* A bounded set of natural numbers has a greatest member.                  *)
LEMMA GreatestOf ==
  ASSUME NEW S \in SUBSET Nat, S # {}, NEW m \in Nat, \A i \in S : i <= m
  PROVE  \E i \in S : \A j \in S : j <= i
<1> DEFINE rest == {m - i : i \in S}
<1>1. rest \in SUBSET Nat /\ rest # {}
  <2>1. \A i \in S : m - i \in Nat
    OBVIOUS
  <2> QED BY <2>1
<1> HIDE DEF rest
<1>2. PICK r \in rest : \A q \in rest : r <= q
  BY <1>1, LeastOf
<1>3. PICK i \in S : r = m - i
  BY DEF rest
<1>4. \A j \in S : m - j \in rest
  BY DEF rest
<1>5. ASSUME NEW j \in S PROVE j <= i
  BY <1>2, <1>3, <1>4
<1> QED BY <1>5

-----------------------------------------------------------------------------
(* DayAlignment *)

(* A stored price or none.                                                  *)
Priced == Int \cup {Unpriced}
Pieces == [at : {"none", "selected", "fetching", "failed"}, cursor : Nat, last : Nat, stored : [Day -> Priced]]
AlignmentTypeOK ==
  /\ price \in [Token -> [Day -> Priced]] /\ derived \in [Vault -> [Day -> Priced]]
  /\ ratio \in [Token -> [Day -> Int]] /\ missing \in [Token -> [Day -> Kinds \cup {"none"}]]
  /\ progress \subseteq Token /\ unapplied \subseteq Token \X Day /\ behind \subseteq Vault \X Day
  /\ tokenWork \in [Token -> Pieces]
  /\ alignPhase = "idle" => \A t \in Token : tokenWork[t].at = "none"

(* A run that is fetching knows the prices of the days it has yet to come   *)
(* to, and has aligned or listed those it has passed.                       *)
WorkKnown ==
  \A t \in Token : tokenWork[t].at = "fetching" =>
    \A d \in Day :
      /\ d >= tokenWork[t].cursor => tokenWork[t].stored[d] = price[t][d]
      /\ price[t][d] # Unpriced =>
           /\ d <= tokenWork[t].last
           /\ d < tokenWork[t].cursor => <<t, d>> \in aligned \/ missing[t][d] \in Kinds

(* A ratio is pending or 0; a derived row that is younger than a pending    *)
(* ratio is known to be loose; no derived row lacks its price.              *)
RatiosKnown ==
  /\ \A t \in Token, d \in Day : <<t, d>> \notin unapplied => ratio[t][d] = 0
  /\ \A v \in Vault, d \in Day :
       /\ <<UnderlyingOf[v], d>> \in unapplied /\ <<v, d>> \notin behind => <<v, d>> \in loose
       /\ derived[v][d] # Unpriced => price[UnderlyingOf[v]][d] # Unpriced

AlignmentSound == AlignmentTypeOK /\ WorkKnown /\ RatiosKnown /\ RescaledOnce /\ NothingSkipped

LEMMA AlignmentSoundInit ==
  ASSUME AlignmentInit
  PROVE  AlignmentSound
<1>1. /\ price \in [Token -> [Day -> Quotes \cup {Unpriced}]] /\ Quotes \subseteq Int
      /\ UnderlyingOf \in [Vault -> Token]
  BY AlignmentAssumption DEF AlignmentInit
<1>2. price \in [Token -> [Day -> Priced]] /\ derived \in [Vault -> [Day -> Priced]]
  <2>1. \A t \in Token : price[t] \in [Day -> Priced]
    BY <1>1 DEF Priced
  <2> QED BY <1>1, <2>1 DEF AlignmentInit
<1>3. NoWork \in Pieces /\ NoWork.at = "none"
  BY DEF NoWork, Pieces, Priced
<1>4. AlignmentTypeOK
  BY <1>2, <1>3 DEF AlignmentInit, AlignmentTypeOK
<1>5. WorkKnown
  BY <1>3 DEF AlignmentInit, WorkKnown
<1>6. RatiosKnown
  BY <1>1 DEF AlignmentInit, RatiosKnown
<1>7. RescaledOnce
  <2>1. ASSUME NEW v \in Vault, NEW d \in Day, derived[v][d] # Unpriced
        PROVE  derived[v][d] + ratio[UnderlyingOf[v]][d] = price[UnderlyingOf[v]][d]
    <3>1. /\ derived[v][d] = price[UnderlyingOf[v]][d] /\ ratio[UnderlyingOf[v]][d] = 0
          /\ derived[v][d] \in Int
      BY <1>1, <1>2, <2>1 DEF AlignmentInit, Priced
    <3> QED BY <3>1
  <2> QED BY <2>1, AlignmentAssumption DEF RescaledOnce
<1>8. NothingSkipped
  BY DEF AlignmentInit, NothingSkipped
<1> QED BY <1>4, <1>5, <1>6, <1>7, <1>8 DEF AlignmentSound

(* Work that is not about prices moves no price, ratio or derived row.      *)
LEMMA TablesKept ==
  ASSUME AlignmentSound, UNCHANGED <<price, derived, ratio, unapplied, behind, missing, loose, aligned>>,
         tokenWork' \in [Token -> Pieces], progress' \subseteq Token, alignPhase' = "idle" => \A t \in Token : tokenWork'[t].at = "none",
         WorkKnown',
         \A t \in progress' \ progress : \A d \in Day : price[t][d] # Unpriced => <<t, d>> \in aligned \/ missing[t][d] \in Kinds
  PROVE  AlignmentSound'
<1>1. AlignmentTypeOK'
  BY DEF AlignmentSound, AlignmentTypeOK
<1>2. RatiosKnown' /\ RescaledOnce'
  BY DEF AlignmentSound, RatiosKnown, RescaledOnce
<1>3. NothingSkipped'
  BY DEF AlignmentSound, NothingSkipped
<1> QED BY <1>1, <1>2, <1>3 DEF AlignmentSound

(* The piece of one token moves on, to a state from which nothing follows.  *)
LEMMA PieceMoves ==
  ASSUME AlignmentTypeOK, WorkKnown, NEW t \in Token, NEW piece \in Pieces,
         tokenWork' = [tokenWork EXCEPT ![t] = piece],
         UNCHANGED <<price, missing, aligned>>,
         piece.at = "fetching" =>
           \A d \in Day :
             /\ d >= piece.cursor => piece.stored[d] = price[t][d]
             /\ price[t][d] # Unpriced =>
                  /\ d <= piece.last
                  /\ d < piece.cursor => <<t, d>> \in aligned \/ missing[t][d] \in Kinds
  PROVE  WorkKnown' /\ tokenWork' \in [Token -> Pieces]
<1>1. tokenWork \in [Token -> Pieces]
  BY DEF AlignmentTypeOK
<1>2. tokenWork' \in [Token -> Pieces] /\ tokenWork'[t] = piece /\ \A u \in Token \ {t} : tokenWork'[u] = tokenWork[u]
  BY <1>1
<1> QED BY <1>2 DEF WorkKnown

LEMMA StartPricesStep ==
  ASSUME AlignmentSound, NEW retry \in BOOLEAN, NEW goOn \in BOOLEAN, StartPrices(retry, goOn)
  PROVE  AlignmentSound'
<1>1. /\ alignPhase' = "prices" /\ progress' \subseteq progress
      /\ UNCHANGED <<price, derived, ratio, unapplied, behind, missing, loose, aligned>>
  BY DEF StartPrices
<1>2. PICK chosen : tokenWork' = [t \in Token |-> IF t \in chosen THEN [NoWork EXCEPT !.at = "selected"] ELSE NoWork]
  BY DEF StartPrices
<1>3. NoWork \in Pieces /\ NoWork.at = "none"
  BY DEF NoWork, Pieces, Priced
<1>4. [NoWork EXCEPT !.at = "selected"] \in Pieces /\ [NoWork EXCEPT !.at = "selected"].at = "selected"
  BY <1>3 DEF Pieces
<1>5. \A t \in Token : tokenWork'[t] \in Pieces /\ tokenWork'[t].at # "fetching"
  BY <1>2, <1>3, <1>4
<1>6. tokenWork' \in [Token -> Pieces]
  BY <1>2, <1>5
<1>7. WorkKnown'
  BY <1>5 DEF WorkKnown
<1>8. progress' \subseteq Token
  BY <1>1 DEF AlignmentSound, AlignmentTypeOK
<1> QED BY <1>1, <1>6, <1>7, <1>8, TablesKept

(* The days that are read begin before the first stored one.                *)
LEMMA ReadDaysStep ==
  ASSUME AlignmentSound, NEW t \in Token, ReadDays(t)
  PROVE  AlignmentSound'
<1> DEFINE piece == [at |-> "fetching", stored |-> price[t],
                     cursor |-> IF Stored(t) = {} THEN 1
                                ELSE IF FirstOf(Stored(t)) = 0 THEN 0 ELSE FirstOf(Stored(t)) - 1,
                     last |-> IF Stored(t) = {} THEN 0 ELSE LastOf(Stored(t))]
<1>1. /\ tokenWork' = [tokenWork EXCEPT ![t] = piece] /\ tokenWork[t].at = "selected"
      /\ UNCHANGED <<price, derived, ratio, unapplied, behind, missing, progress, alignPhase, loose, aligned>>
  BY DEF ReadDays, tableVars
<1>2. Stored(t) \subseteq Nat /\ (\A d \in Stored(t) : d <= LastDay) /\ LastDay \in Nat
  BY AlignmentAssumption DEF Stored, Day
<1>3. piece.cursor \in Nat /\ piece.last \in Nat /\ \A d \in Stored(t) : d >= piece.cursor /\ d <= piece.last
  <2>1. CASE Stored(t) = {}
    BY <2>1
  <2>2. CASE Stored(t) # {}
    <3> DEFINE days == Stored(t)
    <3>1. days \in SUBSET Nat /\ days # {} /\ LastDay \in Nat /\ \A d \in days : d <= LastDay
      BY <1>2, <2>2
    <3> HIDE DEF days
    <3>2. FirstOf(days) \in days /\ \A d \in days : FirstOf(days) <= d
      BY <3>1, LeastOf DEF FirstOf
    <3>3. LastOf(days) \in days /\ \A d \in days : d <= LastOf(days)
      <4>1. \E d \in days : \A e \in days : e <= d
        BY <3>1, GreatestOf
      <4>2. \E d \in days : \A e \in days : d >= e
        BY <3>1, <4>1
      <4>3. LastOf(days) \in days /\ \A e \in days : LastOf(days) >= e
        BY <4>2 DEF LastOf
      <4> QED BY <3>1, <4>3
    <3> DEFINE first == FirstOf(days)
               final == LastOf(days)
    <3>4. piece.cursor = (IF first = 0 THEN 0 ELSE first - 1) /\ piece.last = final
      BY <2>2 DEF days
    <3>5. first \in Nat /\ final \in Nat
      BY <3>1, <3>2, <3>3
    <3> HIDE DEF first, final, piece
    <3>6. \A d \in days : first <= d /\ d <= final /\ d \in Nat
      BY <3>1, <3>2, <3>3 DEF first, final
    <3>7. piece.cursor \in Nat /\ piece.last \in Nat /\ piece.cursor <= first
      BY <3>4, <3>5
    <3> QED BY <3>4, <3>5, <3>6, <3>7 DEF days
  <2> QED BY <2>1, <2>2
<1>4. piece \in Pieces /\ piece.at = "fetching" /\ piece.stored = price[t]
  <2>1. price[t] \in [Day -> Priced]
    BY DEF AlignmentSound, AlignmentTypeOK
  <2> QED BY <1>3, <2>1 DEF Pieces
<1> HIDE DEF piece
<1>5. \A d \in Day : price[t][d] # Unpriced => d <= piece.last /\ ~(d < piece.cursor)
  BY <1>2, <1>3 DEF Stored
<1>6. WorkKnown' /\ tokenWork' \in [Token -> Pieces]
  BY <1>1, <1>4, <1>5, PieceMoves DEF AlignmentSound
<1>7. alignPhase # "idle" /\ progress' \subseteq Token
  BY <1>1 DEF AlignmentSound, AlignmentTypeOK
<1> QED BY <1>1, <1>6, <1>7, TablesKept

(* The transaction of a batch, of which the written days had their stored   *)
(* price until now.                                                         *)
BatchEffects(t, batch, written, repaired, quotes) ==
  /\ \A u \in Token, d \in Day :
       /\ price'[u][d] = IF u = t /\ d \in written THEN quotes[d] ELSE price[u][d]
       /\ ratio'[u][d] = IF u = t /\ d \in repaired THEN ratio[t][d] + quotes[d] - price[t][d] ELSE ratio[u][d]
       /\ ~(u = t /\ d \in batch) => missing'[u][d] = missing[u][d]
  /\ \A d \in batch : \/ d \in written /\ missing'[t][d] = "none"
                      \/ /\ d \notin written /\ missing'[t][d] \in Kinds
                         /\ missing'[t][d] = "gap" => price[t][d] = Unpriced
  /\ unapplied' = unapplied \cup {t} \X repaired
  /\ behind' = behind \cup {v \in Vault : UnderlyingOf[v] = t} \X repaired
  /\ aligned' = aligned \cup {t} \X written
  /\ UNCHANGED <<derived, progress, alignPhase, loose>>

LEMMA BatchWritten ==
  ASSUME AlignmentSound, NEW t \in Token, NEW batch \in SUBSET Day, NEW written \in SUBSET batch,
         NEW repaired, NEW quotes, \A d \in written : quotes[d] \in Int,
         repaired = {d \in written : price[t][d] \notin {Unpriced, quotes[d]}},
         BatchEffects(t, batch, written, repaired, quotes)
  PROVE  RatiosKnown' /\ RescaledOnce' /\ NothingSkipped'
<1>1. UnderlyingOf \in [Vault -> Token] /\ Unpriced \notin Int /\ Listed \subseteq Vault
  BY AlignmentAssumption
<1>2. \A u \in Token, d \in Day : price[u][d] # Unpriced => price'[u][d] # Unpriced
  BY <1>1 DEF BatchEffects
<1>3. RatiosKnown'
  <2>1. ASSUME NEW u \in Token, NEW d \in Day, <<u, d>> \notin unapplied' PROVE ratio'[u][d] = 0
    <3>1. <<u, d>> \notin unapplied /\ ~(u = t /\ d \in repaired)
      BY <2>1 DEF BatchEffects
    <3> QED BY <3>1 DEF BatchEffects, AlignmentSound, RatiosKnown
  <2>2. ASSUME NEW v \in Vault, NEW d \in Day,
               <<UnderlyingOf[v], d>> \in unapplied', <<v, d>> \notin behind'
        PROVE  <<v, d>> \in loose'
    <3>1. <<v, d>> \notin behind /\ ~(UnderlyingOf[v] = t /\ d \in repaired)
      BY <2>2 DEF BatchEffects
    <3>2. <<UnderlyingOf[v], d>> \in unapplied
      BY <2>2, <3>1 DEF BatchEffects
    <3> QED BY <3>1, <3>2 DEF BatchEffects, AlignmentSound, RatiosKnown
  <2>3. ASSUME NEW v \in Vault, NEW d \in Day, derived'[v][d] # Unpriced
        PROVE  price'[UnderlyingOf[v]][d] # Unpriced
    BY <1>1, <1>2, <2>3 DEF BatchEffects, AlignmentSound, RatiosKnown
  <2> QED BY <2>1, <2>2, <2>3 DEF RatiosKnown
<1>4. RescaledOnce'
  <2>1. SUFFICES ASSUME NEW v \in Listed, NEW d \in Day, derived[v][d] # Unpriced, <<v, d>> \notin loose
                 PROVE  derived[v][d] + ratio'[UnderlyingOf[v]][d] = price'[UnderlyingOf[v]][d]
    BY DEF BatchEffects, RescaledOnce
  <2> DEFINE u == UnderlyingOf[v]
  <2>2. v \in Vault /\ u \in Token
    BY <1>1
  <2>3. derived[v][d] + ratio[u][d] = price[u][d] /\ price[u][d] # Unpriced
    BY <2>1, <2>2 DEF AlignmentSound, RescaledOnce, RatiosKnown
  <2>4. derived[v][d] \in Int /\ price[u][d] \in Int /\ ratio[u][d] \in Int
    BY <2>1, <2>2, <2>3 DEF AlignmentSound, AlignmentTypeOK, Priced
  <2>5. CASE u = t /\ d \in repaired
    <3>1. price'[u][d] = quotes[d] /\ ratio'[u][d] = ratio[u][d] + quotes[d] - price[u][d] /\ quotes[d] \in Int
      BY <2>2, <2>5 DEF BatchEffects
    <3> QED BY <2>3, <2>4, <3>1
  <2>6. CASE ~(u = t /\ d \in repaired)
    <3>1. price'[u][d] = price[u][d] /\ ratio'[u][d] = ratio[u][d]
      BY <2>2, <2>3, <2>6 DEF BatchEffects
    <3> QED BY <2>3, <3>1
  <2> QED BY <2>5, <2>6
<1>5. NothingSkipped'
  <2>1. ASSUME NEW u \in progress, NEW d \in Day, u \in Token, price'[u][d] # Unpriced
        PROVE  <<u, d>> \in aligned' \/ missing'[u][d] \in Kinds
    <3>1. CASE u = t /\ d \in batch
      BY <3>1 DEF BatchEffects
    <3>2. CASE ~(u = t /\ d \in batch)
      BY <2>1, <3>2 DEF BatchEffects, AlignmentSound, NothingSkipped
    <3> QED BY <3>1, <3>2
  <2>2. ASSUME NEW u \in Token, NEW d \in Day, missing'[u][d] = "gap"
        PROVE  price'[u][d] = Unpriced
    <3>1. CASE u = t /\ d \in batch
      BY <2>2, <3>1 DEF BatchEffects
    <3>2. CASE ~(u = t /\ d \in batch)
      BY <2>2, <3>2 DEF BatchEffects, AlignmentSound, NothingSkipped
    <3> QED BY <3>1, <3>2
  <2> QED BY <2>1, <2>2 DEF BatchEffects, NothingSkipped, AlignmentSound, AlignmentTypeOK
<1> QED BY <1>3, <1>4, <1>5

LEMMA PieceKnown ==
  ASSUME AlignmentSound, NEW t \in Token, tokenWork[t].at = "fetching"
  PROVE  /\ tokenWork[t] \in Pieces /\ tokenWork[t].cursor \in Nat /\ tokenWork[t].last \in Nat
         /\ tokenWork[t].stored \in [Day -> Priced] /\ alignPhase # "idle"
         /\ BatchSize \in Nat \ {0} /\ Day \subseteq Nat
         /\ \A d \in Day : d >= tokenWork[t].cursor => tokenWork[t].stored[d] = price[t][d]
         /\ \A d \in Day : price[t][d] # Unpriced =>
              /\ d <= tokenWork[t].last
              /\ d < tokenWork[t].cursor => <<t, d>> \in aligned \/ missing[t][d] \in Kinds
<1>1. tokenWork[t] \in Pieces
  BY DEF AlignmentSound, AlignmentTypeOK
<1>2. tokenWork[t].cursor \in Nat /\ tokenWork[t].last \in Nat /\ tokenWork[t].stored \in [Day -> Priced]
  BY <1>1 DEF Pieces
<1>3. alignPhase # "idle" /\ BatchSize \in Nat \ {0} /\ Day \subseteq Nat
  BY AlignmentAssumption DEF AlignmentSound, AlignmentTypeOK, Day
<1> QED BY <1>1, <1>2, <1>3 DEF AlignmentSound, WorkKnown

(* What the answer to a batch does to the tables.                           *)
LEMMA AnswersHaveEffects ==
  ASSUME AlignmentSound, NEW t \in Token, Fetching(t), Answers(t)
  PROVE  \E written \in SUBSET Batch(t) : \E repaired, quotes :
           /\ \A d \in written : quotes[d] \in Int
           /\ repaired = {d \in written : price[t][d] \notin {Unpriced, quotes[d]}}
           /\ BatchEffects(t, Batch(t), written, repaired, quotes)
           /\ price' \in [Token -> [Day -> Priced]] /\ ratio' \in [Token -> [Day -> Int]]
           /\ missing' \in [Token -> [Day -> Kinds \cup {"none"}]]
<1>1. PICK quotes \in [Batch(t) -> Quotes \cup {Unpriced}] :
        \E implausible \in SUBSET {d \in Batch(t) : quotes[d] # Unpriced} : Answered(t, quotes, implausible)
  BY DEF Answers
<1>2. PICK implausible \in SUBSET {d \in Batch(t) : quotes[d] # Unpriced} : Answered(t, quotes, implausible)
  BY <1>1
<1> DEFINE written == {d \in Batch(t) : quotes[d] # Unpriced} \ implausible
           kind(d) == IF d \in implausible THEN "implausible"
                      ELSE IF tokenWork[t].stored[d] # Unpriced THEN "stale-row" ELSE "gap"
           writes == [d \in written |-> quotes[d]]
           kinds == [d \in Batch(t) \ written |-> kind(d)]
           recorded == [d \in DOMAIN kinds \cup DOMAIN writes |-> IF d \in DOMAIN writes THEN "none" ELSE kinds[d]]
           repaired == Repaired(t, writes)
<1>3. Persist(t, writes, kinds)
  BY <1>2 DEF Answered
<1>4. /\ tokenWork[t].at = "fetching" /\ Batch(t) \subseteq Day /\ written \subseteq Batch(t)
      /\ \A d \in Batch(t) : d >= tokenWork[t].cursor
  BY AlignmentAssumption DEF Fetching, Batch, Day
<1>5. \A d \in Batch(t) : tokenWork[t].stored[d] = price[t][d]
  BY <1>4, PieceKnown
<1>6. \A d \in written : quotes[d] \in Int
  BY <1>1, AlignmentAssumption
<1>7. DOMAIN writes = written /\ DOMAIN recorded = Batch(t) /\ \A d \in written : writes[d] = quotes[d]
  OBVIOUS
<1>8. repaired = {d \in written : price[t][d] \notin {Unpriced, quotes[d]}}
  BY <1>4, <1>5, <1>7 DEF Repaired
<1>9. \A d \in Batch(t) : \/ d \in written /\ recorded[d] = "none"
                          \/ /\ d \notin written /\ recorded[d] \in Kinds
                             /\ recorded[d] = "gap" => tokenWork[t].stored[d] = Unpriced
  <2>1. ASSUME NEW d \in Batch(t), d \notin written
        PROVE  /\ recorded[d] = kind(d) /\ kind(d) \in Kinds
               /\ kind(d) = "gap" => tokenWork[t].stored[d] = Unpriced
    <3>1. recorded[d] = kind(d)
      BY <2>1, <1>7
    <3>2. kind(d) \in Kinds /\ (kind(d) = "gap" => tokenWork[t].stored[d] = Unpriced)
      BY DEF Kinds
    <3> QED BY <3>1, <3>2
  <2>2. \A d \in written : recorded[d] = "none"
    BY <1>4, <1>7
  <2> QED BY <2>1, <2>2
<1>10. /\ price' = [price EXCEPT ![t] = [d \in Day |-> IF d \in DOMAIN writes THEN writes[d] ELSE price[t][d]]]
       /\ ratio' = [ratio EXCEPT ![t] = [d \in Day |-> IF d \in repaired THEN NewRatio(t, d, writes) ELSE ratio[t][d]]]
       /\ missing' = [missing EXCEPT ![t] = [d \in Day |-> IF d \in DOMAIN recorded THEN recorded[d] ELSE missing[t][d]]]
       /\ unapplied' = unapplied \cup {t} \X repaired
       /\ behind' = behind \cup {v \in Vault : UnderlyingOf[v] = t} \X repaired
       /\ aligned' = aligned \cup {t} \X DOMAIN writes
       /\ UNCHANGED <<derived, progress, alignPhase, loose>>
  BY <1>3 DEF Persist, Record
<1>11. \A d \in repaired : NewRatio(t, d, writes) = ratio[t][d] + quotes[d] - price[t][d]
  BY <1>4, <1>5, <1>7, <1>8 DEF NewRatio
<1> HIDE DEF written, kind, writes, kinds, recorded, repaired
<1>12. /\ price \in [Token -> [Day -> Priced]] /\ ratio \in [Token -> [Day -> Int]]
       /\ missing \in [Token -> [Day -> Kinds \cup {"none"}]]
  BY DEF AlignmentSound, AlignmentTypeOK
<1>13. /\ price' \in [Token -> [Day -> Priced]]
       /\ \A u \in Token, d \in Day : price'[u][d] = IF u = t /\ d \in written THEN quotes[d] ELSE price[u][d]
  <2> DEFINE new == [d \in Day |-> IF d \in DOMAIN writes THEN writes[d] ELSE price[t][d]]
  <2>1. \A d \in Day : new[d] = IF d \in written THEN quotes[d] ELSE price[t][d]
    BY <1>7
  <2>2. \A d \in Day : (IF d \in written THEN quotes[d] ELSE price[t][d]) \in Priced
    BY <1>6, <1>12 DEF Priced
  <2>3. new \in [Day -> Priced] /\ price' = [price EXCEPT ![t] = new]
    BY <1>10, <2>1, <2>2
  <2> HIDE DEF new
  <2> QED BY <1>12, <2>1, <2>3
<1>14. /\ ratio' \in [Token -> [Day -> Int]]
       /\ \A u \in Token, d \in Day :
            ratio'[u][d] = IF u = t /\ d \in repaired THEN ratio[t][d] + quotes[d] - price[t][d] ELSE ratio[u][d]
  <2> DEFINE new == [d \in Day |-> IF d \in repaired THEN NewRatio(t, d, writes) ELSE ratio[t][d]]
  <2>1. \A d \in Day : new[d] = IF d \in repaired THEN ratio[t][d] + quotes[d] - price[t][d] ELSE ratio[t][d]
    BY <1>11
  <2>2. ASSUME NEW d \in repaired PROVE ratio[t][d] + quotes[d] - price[t][d] \in Int
    <3>1. d \in Day /\ quotes[d] \in Int /\ price[t][d] # Unpriced
      BY <1>4, <1>6, <1>8
    <3>2. price[t][d] \in Int /\ ratio[t][d] \in Int
      BY <1>12, <3>1 DEF Priced
    <3> QED BY <3>1, <3>2
  <2>3. \A d \in Day : ratio[t][d] \in Int
    BY <1>12
  <2>4. \A d \in Day : new[d] \in Int
    <3> HIDE DEF new
    <3> QED BY <2>1, <2>2, <2>3
  <2>5. new \in [Day -> Int] /\ ratio' = [ratio EXCEPT ![t] = new]
    BY <1>10, <2>4
  <2> HIDE DEF new
  <2> QED BY <1>12, <2>1, <2>5
<1>15. /\ missing' \in [Token -> [Day -> Kinds \cup {"none"}]]
       /\ \A u \in Token, d \in Day : ~(u = t /\ d \in Batch(t)) => missing'[u][d] = missing[u][d]
       /\ \A d \in Batch(t) : missing'[t][d] = recorded[d]
  <2> DEFINE new == [d \in Day |-> IF d \in DOMAIN recorded THEN recorded[d] ELSE missing[t][d]]
  <2>1. \A d \in Day : new[d] = IF d \in Batch(t) THEN recorded[d] ELSE missing[t][d]
    BY <1>7
  <2>2. \A d \in Day : (IF d \in Batch(t) THEN recorded[d] ELSE missing[t][d]) \in Kinds \cup {"none"}
    BY <1>9, <1>12
  <2>3. new \in [Day -> Kinds \cup {"none"}] /\ missing' = [missing EXCEPT ![t] = new]
    BY <1>10, <2>1, <2>2
  <2> HIDE DEF new
  <2> QED BY <1>4, <1>12, <2>1, <2>3
<1>16. BatchEffects(t, Batch(t), written, repaired, quotes)
  BY <1>4, <1>5, <1>7, <1>9, <1>10, <1>13, <1>14, <1>15 DEF BatchEffects
<1> QED BY <1>4, <1>6, <1>8, <1>13, <1>14, <1>15, <1>16

(* The piece of the token that is fetching goes on after the batch.         *)
LEMMA NextPiece ==
  ASSUME AlignmentSound, NEW t \in Token, Fetching(t), NextBatch(t)
  PROVE  \E piece \in Pieces :
           /\ tokenWork' = [tokenWork EXCEPT ![t] = piece]
           /\ piece.cursor = tokenWork[t].cursor + BatchSize
           /\ piece.last = tokenWork[t].last /\ piece.stored = tokenWork[t].stored
<1>1. tokenWork[t].at = "fetching"
  BY DEF Fetching
<1>2. tokenWork[t] \in Pieces /\ tokenWork[t].cursor \in Nat /\ BatchSize \in Nat
  BY <1>1, PieceKnown
<1> DEFINE piece == [tokenWork[t] EXCEPT !.cursor = @ + BatchSize]
<1>3. /\ piece \in Pieces /\ piece.cursor = tokenWork[t].cursor + BatchSize
      /\ piece.last = tokenWork[t].last /\ piece.stored = tokenWork[t].stored
  BY <1>2 DEF Pieces
<1>4. tokenWork' = [tokenWork EXCEPT ![t] = piece]
  BY DEF NextBatch
<1> QED BY <1>3, <1>4

(* A piece that failed is not fetched any more.                             *)
LEMMA FailedPiece == [NoWork EXCEPT !.at = "failed"] \in Pieces /\ [NoWork EXCEPT !.at = "failed"].at = "failed"
<1>1. NoWork \in Pieces
  BY DEF NoWork, Pieces, Priced
<1> QED BY <1>1 DEF Pieces

(* The days that come before the next batch are passed or in this one.      *)
LEMMA BatchPassed ==
  ASSUME AlignmentSound, NEW t \in Token, Fetching(t), NEW d \in Day
  PROVE  /\ Batch(t) \subseteq Day
         /\ d \in Batch(t) => d <= tokenWork[t].last
         /\ d >= tokenWork[t].cursor + BatchSize => d \notin Batch(t) /\ d >= tokenWork[t].cursor
         /\ d < tokenWork[t].cursor + BatchSize =>
              d \in Batch(t) \/ d < tokenWork[t].cursor \/ ~(d <= tokenWork[t].last)
<1>1. tokenWork[t].at = "fetching"
  BY DEF Fetching
<1>2. /\ tokenWork[t].cursor \in Nat /\ tokenWork[t].last \in Nat /\ BatchSize \in Nat
      /\ d \in Nat
  BY <1>1, PieceKnown
<1> QED BY <1>2 DEF Batch

LEMMA BatchStep ==
  ASSUME AlignmentSound, NEW t \in Token, Fetching(t), Answers(t), NEW piece \in Pieces,
         tokenWork' = [tokenWork EXCEPT ![t] = piece],
         piece.at = "fetching" =>
           /\ piece.cursor = tokenWork[t].cursor + BatchSize
           /\ piece.last = tokenWork[t].last /\ piece.stored = tokenWork[t].stored
  PROVE  AlignmentSound'
<1>a. PICK written \in SUBSET Batch(t) : \E repaired, quotes :
           /\ \A d \in written : quotes[d] \in Int
           /\ repaired = {d \in written : price[t][d] \notin {Unpriced, quotes[d]}}
           /\ BatchEffects(t, Batch(t), written, repaired, quotes)
           /\ price' \in [Token -> [Day -> Priced]] /\ ratio' \in [Token -> [Day -> Int]]
           /\ missing' \in [Token -> [Day -> Kinds \cup {"none"}]]
  BY AnswersHaveEffects
<1>1. PICK repaired, quotes :
           /\ \A d \in written : quotes[d] \in Int
           /\ repaired = {d \in written : price[t][d] \notin {Unpriced, quotes[d]}}
           /\ BatchEffects(t, Batch(t), written, repaired, quotes)
           /\ price' \in [Token -> [Day -> Priced]] /\ ratio' \in [Token -> [Day -> Int]]
           /\ missing' \in [Token -> [Day -> Kinds \cup {"none"}]]
  BY <1>a
<1>2. tokenWork[t].at = "fetching" /\ Batch(t) \in SUBSET Day
  BY DEF Fetching, Batch
<1>3. RatiosKnown' /\ RescaledOnce' /\ NothingSkipped'
  BY <1>1, <1>2, BatchWritten
<1>4. /\ tokenWork \in [Token -> Pieces] /\ progress \subseteq Token /\ unapplied \subseteq Token \X Day
      /\ behind \subseteq Vault \X Day /\ derived \in [Vault -> [Day -> Priced]] /\ alignPhase # "idle"
  BY <1>2, PieceKnown DEF AlignmentSound, AlignmentTypeOK
<1>5. tokenWork' \in [Token -> Pieces] /\ tokenWork'[t] = piece /\ \A u \in Token \ {t} : tokenWork'[u] = tokenWork[u]
  BY <1>4
<1>6. AlignmentTypeOK'
  BY <1>1, <1>2, <1>4, <1>5 DEF AlignmentTypeOK, BatchEffects
<1>7. WorkKnown'
  <2>1. ASSUME NEW u \in Token \ {t}, tokenWork'[u].at = "fetching", NEW d \in Day
        PROVE  /\ d >= tokenWork'[u].cursor => tokenWork'[u].stored[d] = price'[u][d]
               /\ price'[u][d] # Unpriced =>
                    /\ d <= tokenWork'[u].last
                    /\ d < tokenWork'[u].cursor => <<u, d>> \in aligned' \/ missing'[u][d] \in Kinds
    <3>1. price'[u][d] = price[u][d] /\ missing'[u][d] = missing[u][d] /\ aligned \subseteq aligned'
      BY <1>1 DEF BatchEffects
    <3> QED BY <1>5, <2>1, <3>1 DEF AlignmentSound, WorkKnown
  <2>2. ASSUME piece.at = "fetching", NEW d \in Day
        PROVE  /\ d >= piece.cursor => piece.stored[d] = price'[t][d]
               /\ price'[t][d] # Unpriced =>
                    /\ d <= piece.last
                    /\ d < piece.cursor => <<t, d>> \in aligned' \/ missing'[t][d] \in Kinds
    <3>1. /\ d >= tokenWork[t].cursor => tokenWork[t].stored[d] = price[t][d]
          /\ price[t][d] # Unpriced =>
               /\ d <= tokenWork[t].last
               /\ d < tokenWork[t].cursor => <<t, d>> \in aligned \/ missing[t][d] \in Kinds
      BY <1>2, PieceKnown
    <3>2. /\ piece.cursor = tokenWork[t].cursor + BatchSize
          /\ piece.last = tokenWork[t].last /\ piece.stored = tokenWork[t].stored
      BY <2>2
    <3>3. /\ d \in Batch(t) => d <= tokenWork[t].last
          /\ d >= tokenWork[t].cursor + BatchSize => d \notin Batch(t) /\ d >= tokenWork[t].cursor
          /\ d < tokenWork[t].cursor + BatchSize =>
               d \in Batch(t) \/ d < tokenWork[t].cursor \/ ~(d <= tokenWork[t].last)
      BY BatchPassed
    <3>4. CASE d \in Batch(t)
      <4>1. <<t, d>> \in aligned' \/ missing'[t][d] \in Kinds
        BY <1>1, <3>4 DEF BatchEffects
      <4> QED BY <3>2, <3>3, <3>4, <4>1
    <3>5. CASE d \notin Batch(t)
      <4>1. price'[t][d] = price[t][d] /\ missing'[t][d] = missing[t][d] /\ aligned \subseteq aligned'
        BY <1>1, <3>5 DEF BatchEffects
      <4> QED BY <3>1, <3>2, <3>3, <3>5, <4>1
    <3> QED BY <3>4, <3>5
  <2> QED BY <1>5, <2>1, <2>2 DEF WorkKnown
<1> QED BY <1>3, <1>6, <1>7 DEF AlignmentSound

LEMMA FetchBatchStep ==
  ASSUME AlignmentSound, NEW t \in Token, FetchBatch(t)
  PROVE  AlignmentSound'
<1>1. Fetching(t) /\ Answers(t) /\ NextBatch(t)
  BY DEF FetchBatch
<1>2. PICK piece \in Pieces :
           /\ tokenWork' = [tokenWork EXCEPT ![t] = piece]
           /\ piece.cursor = tokenWork[t].cursor + BatchSize
           /\ piece.last = tokenWork[t].last /\ piece.stored = tokenWork[t].stored
  BY <1>1, NextPiece
<1> QED BY <1>1, <1>2, BatchStep

LEMMA CommitUnknownStep ==
  ASSUME AlignmentSound, NEW t \in Token, CommitUnknown(t)
  PROVE  AlignmentSound'
<1>1. Fetching(t) /\ Answers(t)
  BY DEF CommitUnknown
<1>2. PICK piece \in Pieces : tokenWork' = [tokenWork EXCEPT ![t] = piece] /\ piece.at = "failed"
  BY FailedPiece DEF CommitUnknown, GiveUp
<1> QED BY <1>1, <1>2, BatchStep

LEMMA TokenFailsStep ==
  ASSUME AlignmentSound, NEW t \in Token, TokenFails(t)
  PROVE  AlignmentSound'
<1>1. PICK piece \in Pieces : tokenWork' = [tokenWork EXCEPT ![t] = piece] /\ piece.at = "failed"
  BY FailedPiece DEF TokenFails, GiveUp
<1>2. /\ tokenWork[t].at # "none"
      /\ UNCHANGED <<price, derived, ratio, unapplied, behind, missing, progress, alignPhase, loose, aligned>>
  BY DEF TokenFails, tableVars
<1>3. WorkKnown' /\ tokenWork' \in [Token -> Pieces]
  BY <1>1, <1>2, PieceMoves DEF AlignmentSound
<1>4. alignPhase # "idle" /\ progress' \subseteq Token
  BY <1>2 DEF AlignmentSound, AlignmentTypeOK
<1> QED BY <1>2, <1>3, <1>4, TablesKept

(* The days of a 404 are listed as missing.                                 *)
LEMMA BatchNotFoundStep ==
  ASSUME AlignmentSound, NEW t \in Token, BatchNotFound(t)
  PROVE  AlignmentSound'
<1>1. /\ Fetching(t) /\ Record(t, [d \in Batch(t) |-> "not-found"]) /\ (NextBatch(t) \/ GiveUp(t))
      /\ UNCHANGED <<price, derived, ratio, unapplied, behind, progress, alignPhase, loose, aligned>>
  BY DEF BatchNotFound
<1> DEFINE GaveUp(piece) == piece.at = "failed"
           WentOn(piece) == /\ piece.cursor = tokenWork[t].cursor + BatchSize
                          /\ piece.last = tokenWork[t].last /\ piece.stored = tokenWork[t].stored
           WorkIs(piece) == tokenWork' = [tokenWork EXCEPT ![t] = piece]
<1>2. PICK piece \in Pieces : WorkIs(piece) /\ (GaveUp(piece) \/ WentOn(piece))
  <2>1. CASE NextBatch(t)
    <3>1. \E piece \in Pieces : WorkIs(piece) /\ WentOn(piece)
      BY <1>1, <2>1, NextPiece
    <3> HIDE DEF WorkIs, WentOn, GaveUp
    <3> QED BY <3>1
  <2>2. CASE GiveUp(t)
    <3>1. \E piece \in Pieces : WorkIs(piece) /\ GaveUp(piece)
      BY <2>2, FailedPiece DEF GiveUp
    <3> HIDE DEF WorkIs, WentOn, GaveUp
    <3> QED BY <3>1
  <2> QED BY <1>1, <2>1, <2>2
<1>3. missing' = [missing EXCEPT ![t] = [d \in Day |-> IF d \in Batch(t) THEN "not-found" ELSE missing[t][d]]]
  <2>1. DOMAIN [d \in Batch(t) |-> "not-found"] = Batch(t)
        /\ \A d \in Batch(t) : [e \in Batch(t) |-> "not-found"][d] = "not-found"
    OBVIOUS
  <2> QED BY <1>1, <2>1 DEF Record
<1>4. missing \in [Token -> [Day -> Kinds \cup {"none"}]] /\ tokenWork \in [Token -> Pieces]
      /\ tokenWork[t].at = "fetching"
  BY <1>1 DEF AlignmentSound, AlignmentTypeOK, Fetching
<1>5. /\ missing' \in [Token -> [Day -> Kinds \cup {"none"}]]
      /\ \A u \in Token, d \in Day : missing'[u][d] = missing[u][d] \/ missing'[u][d] = "not-found"
      /\ \A d \in Batch(t) : d \in Day => missing'[t][d] = "not-found"
  <2> DEFINE new == [d \in Day |-> IF d \in Batch(t) THEN "not-found" ELSE missing[t][d]]
  <2>1. \A d \in Day : new[d] = "not-found" \/ new[d] = missing[t][d]
    OBVIOUS
  <2>2. \A d \in Batch(t) : d \in Day => new[d] = "not-found"
    OBVIOUS
  <2>3. new \in [Day -> Kinds \cup {"none"}] /\ missing' = [missing EXCEPT ![t] = new]
    BY <1>3, <1>4, <2>1 DEF Kinds
  <2> HIDE DEF new
  <2> QED BY <1>4, <2>1, <2>2, <2>3
<1>6. "not-found" \in Kinds /\ "not-found" # "gap"
  BY DEF Kinds
<1>7. tokenWork' \in [Token -> Pieces] /\ tokenWork'[t] = piece /\ \A u \in Token \ {t} : tokenWork'[u] = tokenWork[u]
  BY <1>2, <1>4
<1>8. AlignmentTypeOK'
  BY <1>1, <1>4, <1>5, <1>7, PieceKnown DEF AlignmentSound, AlignmentTypeOK
<1>9. WorkKnown'
  <2>1. ASSUME NEW u \in Token \ {t}, tokenWork'[u].at = "fetching", NEW d \in Day
        PROVE  /\ d >= tokenWork'[u].cursor => tokenWork'[u].stored[d] = price'[u][d]
               /\ price'[u][d] # Unpriced =>
                    /\ d <= tokenWork'[u].last
                    /\ d < tokenWork'[u].cursor => <<u, d>> \in aligned' \/ missing'[u][d] \in Kinds
    BY <1>1, <1>5, <1>6, <1>7, <2>1 DEF AlignmentSound, WorkKnown
  <2>2. ASSUME NEW d \in Day, piece.at = "fetching"
        PROVE  /\ d >= piece.cursor => piece.stored[d] = price'[t][d]
               /\ price'[t][d] # Unpriced =>
                    /\ d <= piece.last
                    /\ d < piece.cursor => <<t, d>> \in aligned' \/ missing'[t][d] \in Kinds
    <3>1. /\ d >= tokenWork[t].cursor => tokenWork[t].stored[d] = price[t][d]
          /\ price[t][d] # Unpriced =>
               /\ d <= tokenWork[t].last
               /\ d < tokenWork[t].cursor => <<t, d>> \in aligned \/ missing[t][d] \in Kinds
      BY <1>4, PieceKnown
    <3>2. /\ d \in Batch(t) => d <= tokenWork[t].last
          /\ d >= tokenWork[t].cursor + BatchSize => d \notin Batch(t) /\ d >= tokenWork[t].cursor
          /\ d < tokenWork[t].cursor + BatchSize =>
               d \in Batch(t) \/ d < tokenWork[t].cursor \/ ~(d <= tokenWork[t].last)
      BY <1>1, BatchPassed
    <3> QED BY <1>1, <1>2, <1>5, <1>6, <2>2, <3>1, <3>2
  <2> QED BY <1>7, <2>1, <2>2 DEF WorkKnown
<1>10. RatiosKnown' /\ RescaledOnce'
  BY <1>1 DEF AlignmentSound, RatiosKnown, RescaledOnce
<1>11. NothingSkipped'
  <2>1. ASSUME NEW u \in Token, NEW d \in Day, u \in progress, price[u][d] # Unpriced
        PROVE  <<u, d>> \in aligned \/ missing'[u][d] \in Kinds
    BY <1>5, <1>6, <2>1 DEF AlignmentSound, NothingSkipped
  <2>2. ASSUME NEW u \in Token, NEW d \in Day, missing'[u][d] = "gap"
        PROVE  price[u][d] = Unpriced
    BY <1>5, <1>6, <2>2 DEF AlignmentSound, NothingSkipped
  <2>3. progress \subseteq Token
    BY DEF AlignmentSound, AlignmentTypeOK
  <2> QED BY <1>1, <2>1, <2>2, <2>3 DEF NothingSkipped
<1> QED BY <1>8, <1>9, <1>10, <1>11 DEF AlignmentSound

(* A token is done when the cursor is past the last stored day.             *)
LEMMA FinishTokenStep ==
  ASSUME AlignmentSound, NEW t \in Token, FinishToken(t)
  PROVE  AlignmentSound'
<1>1. /\ tokenWork[t].at = "fetching" /\ tokenWork[t].cursor > tokenWork[t].last
      /\ progress' = progress \cup {t} /\ (tokenWork' = [tokenWork EXCEPT ![t] = NoWork] \/ GiveUp(t))
      /\ UNCHANGED <<price, derived, ratio, unapplied, behind, missing, alignPhase, loose, aligned>>
  BY DEF FinishToken
<1>2. PICK piece \in Pieces : tokenWork' = [tokenWork EXCEPT ![t] = piece] /\ piece.at # "fetching"
  <2>1. NoWork \in Pieces /\ NoWork.at = "none"
    BY DEF NoWork, Pieces, Priced
  <2>2. CASE GiveUp(t)
    BY <2>2, FailedPiece DEF GiveUp
  <2> QED BY <1>1, <2>1, <2>2
<1>3. WorkKnown' /\ tokenWork' \in [Token -> Pieces]
  BY <1>1, <1>2, PieceMoves DEF AlignmentSound
<1>4. ASSUME NEW d \in Day, price[t][d] # Unpriced
      PROVE  <<t, d>> \in aligned \/ missing[t][d] \in Kinds
  <2>1. d \in Nat /\ tokenWork[t].cursor \in Nat /\ tokenWork[t].last \in Nat /\ d <= tokenWork[t].last
    BY <1>1, <1>4, PieceKnown
  <2>2. d < tokenWork[t].cursor
    BY <1>1, <2>1
  <2> QED BY <1>1, <1>4, <2>2, PieceKnown
<1>5. alignPhase # "idle" /\ progress' \subseteq Token
  BY <1>1 DEF AlignmentSound, AlignmentTypeOK
<1> QED BY <1>1, <1>3, <1>4, <1>5, TablesKept

(* No token is worked on.                                                   *)
LEMMA NoWorkKnown ==
  ASSUME tokenWork' = [t \in Token |-> NoWork]
  PROVE  /\ tokenWork' \in [Token -> Pieces] /\ WorkKnown'
         /\ \A t \in Token : tokenWork'[t].at = "none"
<1>1. NoWork \in Pieces /\ NoWork.at = "none"
  BY DEF NoWork, Pieces, Priced
<1> QED BY <1>1 DEF WorkKnown

LEMMA PhaseStep ==
  ASSUME AlignmentSound, EndPrices \/ StartDerived \/ Stop
  PROVE  AlignmentSound'
<1>1. UNCHANGED <<price, derived, ratio, unapplied, behind, missing, progress, loose, aligned>>
  BY DEF EndPrices, StartDerived, Stop, tableVars
<1>2. progress' \subseteq Token
  BY <1>1 DEF AlignmentSound, AlignmentTypeOK
<1>3. CASE alignPhase' = "derived" /\ UNCHANGED tokenWork
  <2>1. tokenWork' \in [Token -> Pieces] /\ alignPhase' # "idle"
    BY <1>3 DEF AlignmentSound, AlignmentTypeOK
  <2>2. WorkKnown'
    BY <1>1, <1>3 DEF AlignmentSound, WorkKnown
  <2> QED BY <1>1, <1>2, <2>1, <2>2, TablesKept
<1>4. CASE Idle
  <2>1. /\ tokenWork' \in [Token -> Pieces] /\ WorkKnown'
        /\ \A t \in Token : tokenWork'[t].at = "none"
    BY <1>4, NoWorkKnown DEF Idle
  <2> QED BY <1>1, <1>2, <2>1, TablesKept
<1> QED BY <1>3, <1>4 DEF EndPrices, StartDerived, Stop


(* A row that is rescaled takes up its ratio, which is then 0.              *)
LEMMA RescaleStep ==
  ASSUME AlignmentSound, NEW t \in Token, Rescale(t)
  PROVE  AlignmentSound'
<1> DEFINE chosen == Rescalable(t)
           marked == {<<t, row[2]>> : row \in chosen}
<1>1. /\ alignPhase = "derived"
      /\ derived' = [v \in Vault |-> [d \in Day |->
                       IF <<v, d>> \in chosen THEN derived[v][d] + ratio[t][d] ELSE derived[v][d]]]
      /\ behind' = behind \ chosen /\ unapplied' = unapplied \ marked
      /\ ratio' = [ratio EXCEPT ![t] = [d \in Day |-> IF <<t, d>> \in marked THEN 0 ELSE ratio[t][d]]]
      /\ UNCHANGED <<price, missing, progress, alignPhase, tokenWork, aligned, loose>>
  BY DEF Rescale
<1>2. \A v \in Vault, d \in Day : <<v, d>> \in chosen <=>
        /\ <<v, d>> \in behind /\ v \in Listed /\ UnderlyingOf[v] = t
        /\ derived[v][d] # Unpriced /\ <<t, d>> \in unapplied
  BY DEF Rescalable
<1>3. \A u \in Token, d \in Day : <<u, d>> \in marked <=> u = t /\ \E v \in Vault : <<v, d>> \in chosen
  <2>1. \A row \in chosen : row \in Vault \X Day /\ row = <<row[1], row[2]>> /\ row[1] \in Vault
    BY DEF Rescalable, AlignmentSound, AlignmentTypeOK
  <2> HIDE DEF chosen
  <2> QED BY <2>1
<1> HIDE DEF chosen, marked
<1>4. /\ price \in [Token -> [Day -> Priced]] /\ derived \in [Vault -> [Day -> Priced]]
      /\ ratio \in [Token -> [Day -> Int]] /\ UnderlyingOf \in [Vault -> Token] /\ Listed \subseteq Vault
      /\ Unpriced \notin Int
  BY AlignmentAssumption DEF AlignmentSound, AlignmentTypeOK
<1>5. \A v \in Vault, d \in Day :
        derived'[v][d] = IF <<v, d>> \in chosen THEN derived[v][d] + ratio[t][d] ELSE derived[v][d]
  BY <1>1
<1>6. \A u \in Token, d \in Day : ratio'[u][d] = IF <<u, d>> \in marked THEN 0 ELSE ratio[u][d]
  BY <1>1, <1>3, <1>4
<1>7. ASSUME NEW v \in Vault, NEW d \in Day, <<v, d>> \in chosen
      PROVE  derived[v][d] \in Int /\ ratio[t][d] \in Int /\ derived[v][d] + ratio[t][d] \in Int
  <2>1. derived[v][d] \in Priced /\ derived[v][d] # Unpriced
    BY <1>2, <1>4, <1>7
  <2>2. derived[v][d] \in Int
    BY <2>1 DEF Priced
  <2>3. ratio[t][d] \in Int
    BY <1>4
  <2> QED BY <2>2, <2>3
<1>8. AlignmentTypeOK'
  <2>1. \A v \in Vault, d \in Day : (IF <<v, d>> \in chosen THEN derived[v][d] + ratio[t][d] ELSE derived[v][d]) \in Priced
    BY <1>4, <1>7 DEF Priced
  <2>2. derived' \in [Vault -> [Day -> Priced]]
    BY <1>1, <2>1
  <2>3. ratio' \in [Token -> [Day -> Int]]
    <3> DEFINE new == [d \in Day |-> IF <<t, d>> \in marked THEN 0 ELSE ratio[t][d]]
    <3>1. new \in [Day -> Int] /\ ratio' = [ratio EXCEPT ![t] = new]
      BY <1>1, <1>4
    <3> HIDE DEF new
    <3> QED BY <1>4, <3>1
  <2> QED BY <1>1, <2>2, <2>3 DEF AlignmentSound, AlignmentTypeOK
<1>9. WorkKnown' /\ NothingSkipped'
  BY <1>1 DEF AlignmentSound, WorkKnown, NothingSkipped
<1>10. RatiosKnown'
  <2>1. ASSUME NEW u \in Token, NEW d \in Day, <<u, d>> \notin unapplied' PROVE ratio'[u][d] = 0
    <3>1. CASE <<u, d>> \in marked
      BY <1>6, <3>1
    <3>2. CASE <<u, d>> \notin marked
      BY <1>1, <1>6, <2>1, <3>2 DEF AlignmentSound, RatiosKnown
    <3> QED BY <3>1, <3>2
  <2>2. ASSUME NEW v \in Vault, NEW d \in Day,
               <<UnderlyingOf[v], d>> \in unapplied', <<v, d>> \notin behind'
        PROVE  <<v, d>> \in loose'
    <3>1. <<UnderlyingOf[v], d>> \in unapplied /\ UnderlyingOf[v] \in Token
      BY <1>1, <1>4, <2>2
    <3>2. <<v, d>> \notin chosen
      BY <1>1, <1>2, <1>3, <1>4, <2>2, <3>1
    <3> QED BY <1>1, <2>2, <3>1, <3>2 DEF AlignmentSound, RatiosKnown
  <2>3. ASSUME NEW v \in Vault, NEW d \in Day, derived'[v][d] # Unpriced
        PROVE  price'[UnderlyingOf[v]][d] # Unpriced
    <3>1. derived[v][d] # Unpriced
      BY <1>2, <1>5, <2>3
    <3> QED BY <1>1, <3>1 DEF AlignmentSound, RatiosKnown
  <2> QED BY <2>1, <2>2, <2>3 DEF RatiosKnown
<1>11. RescaledOnce'
  <2>1. SUFFICES ASSUME NEW v \in Listed, NEW d \in Day, derived'[v][d] # Unpriced, <<v, d>> \notin loose
                 PROVE  derived'[v][d] + ratio'[UnderlyingOf[v]][d] = price[UnderlyingOf[v]][d]
    BY <1>1 DEF RescaledOnce
  <2> DEFINE u == UnderlyingOf[v]
  <2>2. v \in Vault /\ u \in Token
    BY <1>4
  <2>3. derived[v][d] # Unpriced
    BY <1>2, <1>5, <2>1, <2>2
  <2>4. derived[v][d] + ratio[u][d] = price[u][d]
    BY <2>1, <2>3 DEF AlignmentSound, RescaledOnce
  <2>5. derived[v][d] \in Int /\ ratio[u][d] \in Int
    BY <1>4, <2>2, <2>3 DEF Priced
  <2>6. CASE <<v, d>> \in chosen
    <3>1. u = t /\ <<u, d>> \in marked
      BY <1>2, <1>3, <2>2, <2>6
    <3>2. derived'[v][d] = derived[v][d] + ratio[u][d] /\ ratio'[u][d] = 0
      BY <1>5, <1>6, <2>2, <2>6, <3>1
    <3> QED BY <2>4, <2>5, <3>2
  <2>7. CASE <<v, d>> \notin chosen
    <3>1. <<u, d>> \notin marked
      <4>1. SUFFICES ASSUME <<u, d>> \in marked PROVE FALSE
        OBVIOUS
      <4>2. u = t /\ <<t, d>> \in unapplied
        BY <1>2, <1>3, <2>2, <4>1
      <4>3. <<v, d>> \in behind
        BY <2>1, <2>2, <4>2 DEF AlignmentSound, RatiosKnown
      <4> QED BY <1>2, <2>2, <2>3, <2>7, <4>2, <4>3
    <3>2. derived'[v][d] = derived[v][d] /\ ratio'[u][d] = ratio[u][d]
      BY <1>5, <1>6, <2>2, <2>7, <3>1
    <3> QED BY <2>4, <3>2
  <2> QED BY <2>6, <2>7
<1> QED BY <1>8, <1>9, <1>10, <1>11 DEF AlignmentSound

(* The ratios that go with the scratch tables leave their chosen loose.       *)
LEMMA CleanupStep ==
  ASSUME AlignmentSound, Cleanup
  PROVE  AlignmentSound'
<1>1. /\ alignPhase = "idle" /\ progress' = {} /\ missing' = [t \in Token |-> [d \in Day |-> "none"]]
      /\ ratio' = [t \in Token |-> [d \in Day |-> 0]] /\ unapplied' = {} /\ behind' = {}
      /\ loose' = loose \cup {r \in Vault \X Day : <<UnderlyingOf[r[1]], r[2]>> \in unapplied}
      /\ UNCHANGED <<price, derived, alignPhase, tokenWork, aligned>>
  BY DEF Cleanup
<1>2. AlignmentTypeOK' /\ WorkKnown'
  <2>1. \A t \in Token : tokenWork'[t].at = "none"
    BY <1>1 DEF AlignmentSound, AlignmentTypeOK
  <2>2. WorkKnown'
    BY <2>1 DEF WorkKnown
  <2> QED BY <1>1, <2>2 DEF AlignmentSound, AlignmentTypeOK
<1>3. RatiosKnown'
  BY <1>1 DEF AlignmentSound, RatiosKnown
<1>4. RescaledOnce'
  <2>1. SUFFICES ASSUME NEW v \in Listed, NEW d \in Day, derived[v][d] # Unpriced, <<v, d>> \notin loose'
                 PROVE  derived[v][d] + ratio'[UnderlyingOf[v]][d] = price[UnderlyingOf[v]][d]
    BY <1>1 DEF RescaledOnce
  <2>2. v \in Vault /\ UnderlyingOf[v] \in Token
    BY AlignmentAssumption
  <2>3. <<v, d>> \notin loose /\ <<UnderlyingOf[v], d>> \notin unapplied
    BY <1>1, <2>1, <2>2
  <2>4. ratio[UnderlyingOf[v]][d] = 0 /\ ratio'[UnderlyingOf[v]][d] = 0
    BY <1>1, <2>2, <2>3 DEF AlignmentSound, RatiosKnown
  <2> QED BY <2>1, <2>3, <2>4 DEF AlignmentSound, RescaledOnce
<1>5. NothingSkipped'
  BY <1>1 DEF NothingSkipped
<1> QED BY <1>2, <1>3, <1>4, <1>5 DEF AlignmentSound

(* The warmup rewrites a row from the price stored now; it is loose if a    *)
(* ratio is pending for it.                                                 *)
LEMMA WarmupStep ==
  ASSUME AlignmentSound, NEW v \in Vault, NEW d \in Day, Warmup(v, d)
  PROVE  AlignmentSound'
<1> DEFINE t == UnderlyingOf[v]
<1>1. /\ price[t][d] # Unpriced
      /\ derived' = [derived EXCEPT ![v] = [derived[v] EXCEPT ![d] = price[t][d]]]
      /\ behind' = behind \ {<<v, d>>}
      /\ loose' = IF <<t, d>> \in unapplied THEN loose \cup {<<v, d>>} ELSE loose \ {<<v, d>>}
      /\ UNCHANGED <<price, ratio, unapplied, missing, progress, alignPhase, tokenWork, aligned>>
  BY DEF Warmup
<1>2. /\ price \in [Token -> [Day -> Priced]] /\ derived \in [Vault -> [Day -> Priced]]
      /\ t \in Token /\ Unpriced \notin Int
  BY AlignmentAssumption DEF AlignmentSound, AlignmentTypeOK
<1>3. price[t][d] \in Priced
  BY <1>2
<1>4. /\ derived' \in [Vault -> [Day -> Priced]] /\ derived'[v][d] = price[t][d]
      /\ \A w \in Vault, e \in Day : ~(w = v /\ e = d) => derived'[w][e] = derived[w][e]
  <2> DEFINE new == [derived[v] EXCEPT ![d] = price[t][d]]
  <2>1. new \in [Day -> Priced] /\ new[d] = price[t][d] /\ \A e \in Day : e # d => new[e] = derived[v][e]
    BY <1>2, <1>3
  <2>2. derived' = [derived EXCEPT ![v] = new]
    BY <1>1
  <2> HIDE DEF new
  <2> QED BY <1>2, <2>1, <2>2
<1>5. \A w \in Vault, e \in Day : ~(w = v /\ e = d) =>
        (<<w, e>> \in behind' <=> <<w, e>> \in behind) /\ (<<w, e>> \in loose' <=> <<w, e>> \in loose)
  BY <1>1
<1>6. AlignmentTypeOK'
  BY <1>1, <1>4 DEF AlignmentSound, AlignmentTypeOK
<1>7. WorkKnown' /\ NothingSkipped'
  BY <1>1 DEF AlignmentSound, WorkKnown, NothingSkipped
<1>8. RatiosKnown'
  <2>1. ASSUME NEW w \in Vault, NEW e \in Day
        PROVE  /\ <<UnderlyingOf[w], e>> \in unapplied' /\ <<w, e>> \notin behind' => <<w, e>> \in loose'
               /\ derived'[w][e] # Unpriced => price'[UnderlyingOf[w]][e] # Unpriced
    <3>1. CASE w = v /\ e = d
      BY <1>1, <3>1
    <3>2. CASE ~(w = v /\ e = d)
      BY <1>1, <1>4, <1>5, <3>2 DEF AlignmentSound, RatiosKnown
    <3> QED BY <3>1, <3>2
  <2> QED BY <1>1, <2>1 DEF AlignmentSound, RatiosKnown
<1>9. RescaledOnce'
  <2>1. SUFFICES ASSUME NEW w \in Listed, NEW e \in Day, derived'[w][e] # Unpriced, <<w, e>> \notin loose'
                 PROVE  derived'[w][e] + ratio[UnderlyingOf[w]][e] = price[UnderlyingOf[w]][e]
    BY <1>1 DEF RescaledOnce
  <2>2. w \in Vault
    BY AlignmentAssumption
  <2>3. CASE w = v /\ e = d
    <3>1. <<t, d>> \notin unapplied
      BY <1>1, <2>1, <2>3
    <3>2. ratio[t][d] = 0
      BY <1>2, <3>1 DEF AlignmentSound, RatiosKnown
    <3>3. price[t][d] \in Int
      BY <1>1, <1>3 DEF Priced
    <3> QED BY <1>4, <2>3, <3>2, <3>3
  <2>4. CASE ~(w = v /\ e = d)
    BY <1>4, <1>5, <2>1, <2>2, <2>4 DEF AlignmentSound, RescaledOnce
  <2> QED BY <2>3, <2>4
<1> QED BY <1>6, <1>7, <1>8, <1>9 DEF AlignmentSound

LEMMA AlignmentStep ==
  ASSUME AlignmentSound, [AlignmentNext]_alignmentVars
  PROVE  AlignmentSound'
<1>1. CASE \E retry, goOn \in BOOLEAN : StartPrices(retry, goOn)
  BY <1>1, StartPricesStep
<1>2. CASE EndPrices \/ StartDerived \/ Stop
  BY <1>2, PhaseStep
<1>3. CASE Cleanup
  BY <1>3, CleanupStep
<1>4. ASSUME NEW t \in Token, TokenStep(t) PROVE AlignmentSound'
  BY <1>4, ReadDaysStep, FetchBatchStep, CommitUnknownStep, TokenFailsStep, BatchNotFoundStep,
     FinishTokenStep, RescaleStep DEF TokenStep
<1>5. ASSUME NEW v \in Vault, NEW d \in Day, Warmup(v, d) PROVE AlignmentSound'
  BY <1>5, WarmupStep
<1>6. CASE UNCHANGED alignmentVars
  BY <1>6 DEF alignmentVars, AlignmentSound, AlignmentTypeOK, WorkKnown, RatiosKnown, RescaledOnce, NothingSkipped
<1> QED BY <1>1, <1>2, <1>3, <1>4, <1>5, <1>6 DEF AlignmentNext

LEMMA AlignmentInvariant == AlignmentSpec => []AlignmentSound
<1>1. AlignmentInit => AlignmentSound
  BY AlignmentSoundInit
<1>2. AlignmentSound /\ [AlignmentNext]_alignmentVars => AlignmentSound'
  BY AlignmentStep
<1> QED BY <1>1, <1>2, PTL DEF AlignmentSpec

(* However often the tool is run, stopped and run again, a derived row and  *)
(* the ratio still to be applied to it make up the price of its underlying: *)
(* rescaling happens exactly once.                                          *)
THEOREM RescaleTheorem == AlignmentSpec => []RescaledOnce
<1>1. AlignmentSound => RescaledOnce
  BY DEF AlignmentSound
<1> QED BY <1>1, AlignmentInvariant, PTL

(* A token that counts as done has each of its stored days aligned or       *)
(* listed as missing.                                                       *)
THEOREM NothingSkippedTheorem == AlignmentSpec => []NothingSkipped
<1>1. AlignmentSound => NothingSkipped
  BY DEF AlignmentSound
<1> QED BY <1>1, AlignmentInvariant, PTL

-----------------------------------------------------------------------------
(* GapBackfill *)

(* What the records, the list and the counters of a run are.                *)
GapStatus == {"pending", "skipped_existing", "skipped_concurrent_existing", "inserted", "rejected_implausible", "unresolved"}
StatusOf(t) == job.records[t].status
Missing == {t \in Targets : StatusOf(t) \in {"unresolved", "rejected_implausible"}}
Started == job.phase \in {"skip", "direct", "alias", "batch", "commit"}

(* What was listed before the run and has not been looked at yet.           *)
Unsettled(t) == StatusOf(t) = "pending" \/ (StatusOf(t) = "skipped_existing" /\ job.phase = "skip")
StillListed == {t \in FirstListed : t \in Targets => Unsettled(t)}

(* The batches run through the list of targets without a price, which names *)
(* each once: what lies before is settled, what lies behind is pending.     *)
GapsListed ==
  /\ \A i, j \in DOMAIN job.gaps : job.gaps[i] = job.gaps[j] => i = j
  /\ job.committed = job.begun /\ job.begun + job.inFlight <= Len(job.gaps)
  /\ job.phase # "commit" => job.inFlight = 0
  /\ job.phase \notin {"batch", "commit"} => job.begun = 0
  /\ Started =>
       /\ Gaps \subseteq Targets /\ \A t \in Targets : t \in Gaps <=> StatusOf(t) # "skipped_existing"
       /\ \A i \in DOMAIN job.gaps : IF i > job.begun THEN StatusOf(job.gaps[i]) = "pending"
                                       ELSE StatusOf(job.gaps[i]) \notin {"pending", "skipped_existing"}
  /\ ~Started => job.gaps = <<>> /\ \A t \in Targets : job.records[t] = NewRecord
  /\ job.phase = "manifest" => Targets = {}
  /\ job.phase = "preflight" => Targets = ToSet(job.file)

FoundBy(method) == {t \in Targets : job.records[t].method = method /\ StatusOf(t) # "rejected_implausible"}

(* What is asked for is not resolved yet, and asked for in one range.       *)
FoundCounted ==
  /\ job.direct = Cardinality(FoundBy("direct")) /\ job.alias = Cardinality(FoundBy("alias"))
  /\ job.phase \notin {"direct", "alias", "batch", "commit"} => Resolved = {}
  /\ job.phase \in {"direct", "alias"} =>
       /\ \A range \in job.asking : range.items \subseteq Gaps \ Resolved
       /\ \A range, other \in job.asking : range.items \cap other.items # {} => range = other

(* The table and the inventory say of a target what its record says.        *)
TableKnown ==
  /\ \A t \in Target : rows[t] = "ours" => t \in Targets /\ StatusOf(t) = "inserted"
  /\ \A t \in Targets : StatusOf(t) \in {"skipped_existing", "skipped_concurrent_existing"} => HasPrice(t)
  /\ job.mode = "write" => /\ inventory = Missing \cup StillListed
                           /\ \A t \in Targets : StatusOf(t) = "inserted" => rows[t] = "ours"
  /\ job.mode = "dry-run" => inventory = FirstListed /\ \A t \in Target : rows[t] # "ours"

(* The fields of a run, and what they hold.                                 *)
Kept == {"mode", "phase", "file", "records", "gaps", "asking", "begun", "inFlight", "committed", "rejected",
         "direct", "alias", "planned", "exit"}

GapTyped ==
  /\ rows \in [Target -> Row] /\ inventory \subseteq Target
  /\ job = [f \in Kept |-> job[f]]
  /\ job.mode \in {"dry-run", "write"}
  /\ job.phase \in {"manifest", "preflight", "skip", "direct", "alias", "batch", "commit", "done"}
  /\ job.file \in Seq(Target) /\ job.gaps \in Seq(Target)
  /\ IsFiniteSet(Targets) /\ Targets \subseteq Target
  /\ \A t \in Targets : job.records[t] \in [status : GapStatus, method : {"direct", "alias", None}]
  /\ job.begun \in Nat /\ job.inFlight \in Nat /\ job.committed \in Nat

(* What is known of a run that is not over yet, and the inductive invariant. *)
RunKnown == GapsListed /\ FoundCounted /\ TableKnown
GapBackfillInv == GapTyped /\ (~Done => RunKnown) /\ ReportTellsTruth

(* The members of a finite set of numbers can be told by their rank.        *)
LEMMA Ranks ==
  ASSUME NEW S \in SUBSET Nat, IsFiniteSet(S)
  PROVE  /\ Cardinality(S) \in Nat
         /\ \A i \in S : Cardinality({j \in S : j < i}) \in 0 .. Cardinality(S) - 1
         /\ \A i, k \in S : Cardinality({j \in S : j < i}) = Cardinality({j \in S : j < k}) => i = k
         /\ \A r \in 0 .. Cardinality(S) - 1 : \E i \in S : Cardinality({j \in S : j < i}) = r
<1> DEFINE below(i) == {j \in S : j < i}
           n == Cardinality(S)
           rank == [i \in S |-> Cardinality(below(i))]
<1>1. n \in Nat
  BY FS_CardinalityType
<1>2. ASSUME NEW i \in S
      PROVE  IsFiniteSet(below(i)) /\ Cardinality(below(i)) \in Nat /\ Cardinality(below(i)) < n
  <2>1. below(i) \in SUBSET S /\ i \notin below(i)
    OBVIOUS
  <2> HIDE DEF below
  <2>2. IsFiniteSet(below(i)) /\ Cardinality(below(i)) <= n /\ Cardinality(below(i)) # n
    BY <2>1, FS_Subset
  <2>3. Cardinality(below(i)) \in Nat
    BY <2>2, FS_CardinalityType
  <2> QED BY <1>1, <2>2, <2>3
<1>3. ASSUME NEW i \in S, NEW k \in S, i < k PROVE Cardinality(below(i)) < Cardinality(below(k))
  <2>1. \A j \in below(i) \cup {i} : j \in S /\ j < k
    <3>1. i \in Nat /\ k \in Nat /\ \A j \in below(i) : j \in Nat /\ j \in S /\ j < i
      OBVIOUS
    <3> QED BY <1>3, <3>1
  <2>2. below(i) \cup {i} \in SUBSET below(k)
    BY <2>1
  <2>3. i \notin below(i)
    OBVIOUS
  <2> HIDE DEF below
  <2>4. Cardinality(below(i) \cup {i}) = Cardinality(below(i)) + 1
    BY <1>2, <2>3, FS_AddElement
  <2>5. Cardinality(below(i) \cup {i}) <= Cardinality(below(k))
    BY <1>2, <2>2, FS_Subset
  <2> QED BY <1>2, <2>4, <2>5
<1> HIDE DEF below
<1>4. \A i, k \in S : Cardinality(below(i)) = Cardinality(below(k)) => i = k
  <2>1. ASSUME NEW i \in S, NEW k \in S, Cardinality(below(i)) = Cardinality(below(k)) PROVE i = k
    <3>1. i \in Nat /\ k \in Nat /\ ~(i < k) /\ ~(k < i)
      BY <1>2, <1>3, <2>1
    <3> QED BY <3>1
  <2> QED BY <2>1
<1>5. \A i \in S : Cardinality(below(i)) \in 0 .. n - 1
  BY <1>1, <1>2
<1>6. rank \in Injection(S, 0 .. n - 1)
  BY <1>4, <1>5 DEF Injection, IsInjective
<1>7. IsFiniteSet(0 .. n - 1) /\ Cardinality(0 .. n - 1) = n
  <2>1. 0 \in Int /\ n - 1 \in Int
    BY <1>1
  <2>2. IsFiniteSet(0 .. n - 1) /\ Cardinality(0 .. n - 1) = IF 0 > n - 1 THEN 0 ELSE n - 1 - 0 + 1
    BY <2>1, FS_Interval
  <2> HIDE DEF n
  <2> QED BY <1>1, <2>2
<1>8. rank \in Surjection(S, 0 .. n - 1)
  BY <1>6, <1>7, FS_Injection
<1>9. \A r \in 0 .. n - 1 : \E i \in S : Cardinality(below(i)) = r
  BY <1>8 DEF Surjection
<1> QED BY <1>1, <1>4, <1>5, <1>9 DEF below

(* A sequence without repetitions has as many members as places.            *)
LEMMA SliceCount ==
  ASSUME NEW s \in Seq(Target), \A i, j \in DOMAIN s : s[i] = s[j] => i = j,
         NEW m \in Nat, NEW n \in Nat, m <= n, n <= Len(s)
  PROVE  IsFiniteSet({s[i] : i \in m + 1 .. n}) /\ Cardinality({s[i] : i \in m + 1 .. n}) = n - m
<1>1. PICK slice : slice = {s[i] : i \in m + 1 .. n}
  OBVIOUS
<1>2. PICK places : places = m + 1 .. n
  OBVIOUS
<1>3. IsFiniteSet(places) /\ Cardinality(places) = n - m
  <2>1. IsFiniteSet(m + 1 .. n) /\ Cardinality(m + 1 .. n) = IF m + 1 > n THEN 0 ELSE n - (m + 1) + 1
    BY FS_Interval, m + 1 \in Int, n \in Int
  <2> QED BY <1>2, <2>1
<1>4. places \subseteq DOMAIN s
  BY <1>2, LenProperties
<1>5. PICK f : f = [i \in places |-> s[i]]
  OBVIOUS
<1>6. f \in Surjection(places, slice)
  BY <1>1, <1>2, <1>5 DEF Surjection
<1>7. f \in Injection(places, slice)
  BY <1>4, <1>5, <1>6 DEF Surjection, Injection, IsInjective
<1>8. IsFiniteSet(slice) /\ Cardinality(slice) = Cardinality(places)
  BY <1>3, <1>6, <1>7, FS_Surjection
<1> QED BY <1>1, <1>3, <1>8

(* The list of what is left to do holds each target of the file once.       *)
LEMMA OnceEachLists ==
  ASSUME NEW file \in Seq(Target), NEW without
  PROVE  /\ OnceEach(file, without) \in Seq(Target)
         /\ ToSet(OnceEach(file, without)) = ToSet(file) \ without
         /\ \A i, j \in DOMAIN OnceEach(file, without) :
              OnceEach(file, without)[i] = OnceEach(file, without)[j] => i = j
<1>1. /\ Len(file) \in Nat /\ DOMAIN file = 1 .. Len(file)
      /\ \A i \in DOMAIN file : file[i] \in Target
  BY LenProperties, ElementOfSeq
<1>2. PICK first : first = {i \in DOMAIN file : file[i] \notin without /\ \A j \in DOMAIN file : j < i => file[j] # file[i]}
  OBVIOUS
<1>3. first \in SUBSET Nat /\ IsFiniteSet(first) /\ first \subseteq DOMAIN file
  <2>1. IsFiniteSet(1 .. Len(file)) /\ first \in SUBSET (1 .. Len(file))
    BY <1>1, <1>2, FS_Interval, 1 \in Int, Len(file) \in Int
  <2>2. 1 .. Len(file) \subseteq Nat
    BY <1>1
  <2> QED BY <1>2, <2>1, <2>2, FS_Subset
<1> DEFINE Rank(i) == Cardinality({j \in first : j < i})
<1>4. PICK n : n = Cardinality(first)
  OBVIOUS
<1>5. /\ n \in Nat /\ \A i \in first : Rank(i) \in 0 .. n - 1
      /\ \A i, k \in first : Rank(i) = Rank(k) => i = k
      /\ \A r \in 0 .. n - 1 : \E i \in first : Rank(i) = r
  BY <1>3, <1>4, Ranks
<1>6. PICK list : list = OnceEach(file, without)
  OBVIOUS
<1>7. list = [k \in 1 .. n |-> file[CHOOSE i \in first : Rank(i) = k - 1]]
  BY <1>2, <1>4, <1>6 DEF OnceEach
<1> HIDE DEF Rank
<1>8. \A k \in 1 .. n : \E i \in first : Rank(i) = k - 1 /\ list[k] = file[i]
  <2>1. ASSUME NEW k \in 1 .. n PROVE \E i \in first : Rank(i) = k - 1 /\ list[k] = file[i]
    <3>1. k - 1 \in 0 .. n - 1
      BY <1>5
    <3>2. \E i \in first : Rank(i) = k - 1
      BY <1>5, <3>1
    <3>3. PICK i : i = CHOOSE x \in first : Rank(x) = k - 1
      OBVIOUS
    <3>4. i \in first /\ Rank(i) = k - 1
      BY <3>2, <3>3
    <3>5. list[k] = file[i]
      BY <1>7, <3>3
    <3> QED BY <3>4, <3>5
  <2> QED BY <2>1
<1>9. list \in Seq(Target) /\ DOMAIN list = 1 .. n
  <2>1. \A k \in 1 .. n : list[k] \in Target
    BY <1>1, <1>3, <1>8
  <2>2. list \in [1 .. n -> Target]
    BY <1>7, <2>1
  <2> QED BY <1>5, <2>2
<1>10. ASSUME NEW k \in 1 .. n, NEW l \in 1 .. n, list[k] = list[l] PROVE k = l
  <2>1. PICK i \in first : Rank(i) = k - 1 /\ list[k] = file[i]
    BY <1>8
  <2>2. PICK j \in first : Rank(j) = l - 1 /\ list[l] = file[j]
    BY <1>8
  <2>3. i \in Nat /\ j \in Nat /\ ~(i < j) /\ ~(j < i)
    BY <1>2, <1>3, <1>10, <2>1, <2>2
  <2>4. i = j
    BY <2>3
  <2>5. k - 1 = l - 1 /\ k \in Int /\ l \in Int
    BY <2>1, <2>2, <2>4
  <2> QED BY <2>5
<1>11. ASSUME NEW t \in ToSet(list) PROVE t \in ToSet(file) \ without
  <2>1. PICK k \in 1 .. n : t = list[k]
    BY <1>9 DEF ToSet
  <2>2. PICK i \in first : list[k] = file[i]
    BY <1>8
  <2> QED BY <1>2, <2>1, <2>2 DEF ToSet
<1>12. ASSUME NEW t \in ToSet(file), t \notin without PROVE t \in ToSet(list)
  <2>1. PICK at : at = {i \in DOMAIN file : file[i] = t}
    OBVIOUS
  <2>2. at \in SUBSET Nat /\ at # {}
    BY <1>1, <2>1 DEF ToSet
  <2>3. PICK i \in at : \A j \in at : i <= j
    BY <2>2, LeastOf
  <2>4. i \in first
    <3>1. ASSUME NEW j \in DOMAIN file, j < i, file[j] = file[i] PROVE FALSE
      <4>1. j \in at /\ j \in Nat /\ i \in Nat
        BY <1>1, <2>1, <2>2, <3>1
      <4>2. i <= j
        BY <2>3, <4>1
      <4> QED BY <3>1, <4>1, <4>2
    <3> QED BY <1>2, <1>12, <2>1, <3>1
  <2>5. PICK r : r = Rank(i)
    OBVIOUS
  <2>6. r \in 0 .. n - 1
    BY <1>5, <2>4, <2>5
  <2>7. n \in Nat
    BY <1>5
  <2>8. PICK q : q = r + 1
    OBVIOUS
  <2>9. q \in 1 .. n /\ q - 1 = r
    BY <2>6, <2>7, <2>8
  <2>10. PICK k \in first : Rank(k) = q - 1 /\ list[q] = file[k]
    BY <1>8, <2>9
  <2>11. k = i
    BY <1>5, <2>4, <2>5, <2>9, <2>10
  <2>12. list[q] = t
    BY <2>1, <2>10, <2>11
  <2> QED BY <1>9, <2>9, <2>12 DEF ToSet
<1>13. ToSet(list) = ToSet(file) \ without
  BY <1>11, <1>12
<1> QED BY <1>6, <1>9, <1>10, <1>13

(* The requests for a set of targets ask for nothing else, and for nothing  *)
(* twice.                                                                   *)
LEMMA RangesDisjoint ==
  ASSUME NEW S, NEW identifier
  PROVE  /\ \A range \in GroupContiguousRanges(S, identifier) : range.items \subseteq S
         /\ \A range, other \in GroupContiguousRanges(S, identifier) :
              range.items \cap other.items # {} => range = other
<1> DEFINE Days(i) == {t.day : t \in {u \in S : identifier[u.token] = i}}
           Place(t) == [identifier |-> identifier[t.token], start |-> PieceStart(Days(identifier[t.token]), t.day)]
           RangeAt(place) == [place |-> place, items |-> {t \in S : Place(t) = place}]
<1>1. GroupContiguousRanges(S, identifier) = {RangeAt(place) : place \in {Place(t) : t \in S}}
  BY DEF GroupContiguousRanges
<1> HIDE DEF Place
<1>2. ASSUME NEW range \in GroupContiguousRanges(S, identifier)
      PROVE  \E place : range = RangeAt(place)
  BY <1>1
<1>3. ASSUME NEW range \in GroupContiguousRanges(S, identifier)
      PROVE  range.items \subseteq S
  BY <1>2
<1>4. ASSUME NEW range \in GroupContiguousRanges(S, identifier), NEW other \in GroupContiguousRanges(S, identifier),
             NEW t \in range.items \cap other.items
      PROVE  range = other
  <2>1. PICK place : range = RangeAt(place)
    BY <1>2
  <2>2. PICK place2 : other = RangeAt(place2)
    BY <1>2
  <2>3. place = Place(t) /\ place2 = Place(t)
    BY <1>4, <2>1, <2>2
  <2> QED BY <2>1, <2>2, <2>3
<1> QED BY <1>3, <1>4

(* How many targets are open: those of the list behind the batches that     *)
(* were written.                                                            *)
LEMMA OpenCount ==
  ASSUME GapTyped, GapsListed, ~Done
  PROVE  LET skipped == OfStatus(job.records, "skipped_existing")
             todo == Cardinality(Targets \ skipped)
         IN /\ todo \in Nat /\ todo = Cardinality(Targets) - Cardinality(skipped)
            /\ job.phase \in {"batch", "commit"} => todo = Len(job.gaps)
            /\ job.begun + job.inFlight <= todo
            /\ Cardinality(OfStatus(job.records, "pending")) = todo - job.begun
<1>1. PICK skipped : skipped = OfStatus(job.records, "skipped_existing")
  OBVIOUS
<1>2. PICK pending : pending = OfStatus(job.records, "pending")
  OBVIOUS
<1>3. PICK todo : todo = Targets \ skipped
  OBVIOUS
<1>4. IsFiniteSet(Targets) /\ skipped \in SUBSET Targets /\ todo \in SUBSET Targets
  BY <1>1, <1>3 DEF GapTyped, OfStatus, Targets
<1>5. IsFiniteSet(skipped) /\ IsFiniteSet(todo)
  BY <1>4, FS_Subset
<1>6. Cardinality(todo) \in Nat /\ Cardinality(Targets) \in Nat /\ Cardinality(skipped) \in Nat
  BY <1>4, <1>5, FS_CardinalityType
<1>7. Cardinality(todo) = Cardinality(Targets) - Cardinality(skipped)
  <2>1. Targets \cap skipped = skipped
    BY <1>4
  <2> QED BY <1>3, <1>4, <2>1, FS_Difference
<1> DEFINE Counted == /\ job.phase \in {"batch", "commit"} => Cardinality(todo) = Len(job.gaps)
                      /\ job.begun + job.inFlight <= Cardinality(todo)
                      /\ Cardinality(pending) = Cardinality(todo) - job.begun
<1>8. ASSUME Started PROVE Counted
  <2>1. PICK n : n = Len(job.gaps)
    OBVIOUS
  <2>2. n \in Nat /\ DOMAIN job.gaps = 1 .. n /\ job.gaps \in Seq(Target)
    BY <2>1, LenProperties DEF GapTyped
  <2>3. job.begun \in Nat /\ job.inFlight \in Nat /\ job.begun + job.inFlight <= n
    BY <2>1 DEF GapTyped, GapsListed
  <2> DEFINE From(m) == {job.gaps[i] : i \in m + 1 .. n}
  <2>4. PICK zero : zero = 0
    OBVIOUS
  <2>5. PICK begun : begun = job.begun
    OBVIOUS
  <2>6. todo = From(zero)
    BY <1>1, <1>3, <1>8, <2>2, <2>4 DEF GapsListed, Gaps, ToSet, OfStatus, StatusOf, Targets
  <2>7. pending = From(begun)
    <3>1. ASSUME NEW t \in pending PROVE \E i \in job.begun + 1 .. n : t = job.gaps[i]
      <4>1. t \in Targets /\ StatusOf(t) = "pending"
        BY <1>2 DEF OfStatus, StatusOf, Targets
      <4>2. PICK i \in 1 .. n : t = job.gaps[i]
        BY <1>8, <2>2, <4>1 DEF GapsListed, Gaps, ToSet
      <4>3. i > job.begun
        BY <1>8, <2>2, <4>1, <4>2 DEF GapsListed
      <4> QED BY <2>2, <2>3, <4>2, <4>3
    <3>2. ASSUME NEW i \in job.begun + 1 .. n PROVE job.gaps[i] \in pending
      <4>1. i \in 1 .. n /\ i > job.begun
        BY <2>2, <2>3
      <4>2. StatusOf(job.gaps[i]) = "pending" /\ job.gaps[i] \in Targets
        BY <1>8, <2>2, <4>1 DEF GapsListed, Gaps, ToSet
      <4> QED BY <1>2, <4>2 DEF OfStatus, StatusOf, Targets
    <3> QED BY <2>5, <3>1, <3>2
  <2>8. \A i, j \in DOMAIN job.gaps : job.gaps[i] = job.gaps[j] => i = j
    BY DEF GapsListed
  <2>9. /\ zero \in Nat /\ zero <= n /\ begun \in Nat /\ begun <= n
        /\ n <= Len(job.gaps)
    BY <2>1, <2>2, <2>3, <2>4, <2>5
  <2>10. ASSUME NEW m \in Nat, m <= n PROVE Cardinality(From(m)) = n - m
    <3>1. PICK gaps : gaps = job.gaps
      OBVIOUS
    <3>2. /\ gaps \in Seq(Target) /\ \A i, j \in DOMAIN gaps : gaps[i] = gaps[j] => i = j
          /\ n \in Nat /\ n <= Len(gaps)
      BY <2>2, <2>8, <2>9, <3>1
    <3>3. Cardinality({gaps[i] : i \in m + 1 .. n}) = n - m
      BY <2>10, <3>2, SliceCount, Zenon
    <3> QED BY <3>1, <3>3
  <2> HIDE DEF From
  <2>11. Cardinality(todo) = n /\ Cardinality(pending) = n - begun
    BY <2>2, <2>6, <2>7, <2>9, <2>10, <2>4
  <2> QED BY <2>1, <2>3, <2>11, <2>5
<1>9. ASSUME ~Started PROVE Counted
  <2>1. job.phase \in {"manifest", "preflight"}
    BY <1>9 DEF GapTyped, Started, Done
  <2>2. job.gaps = <<>> /\ \A t \in Targets : job.records[t] = NewRecord
    BY <1>9 DEF GapsListed
  <2>3. job.begun = 0 /\ job.inFlight = 0
    BY <2>1 DEF GapsListed
  <2>4. todo = Targets /\ pending = Targets
    BY <1>1, <1>2, <1>3, <2>2 DEF OfStatus, NewRecord, Targets
  <2>5. Cardinality(pending) = Cardinality(todo) - job.begun /\ job.begun + job.inFlight <= Cardinality(todo)
    BY <1>6, <2>3, <2>4
  <2> QED BY <2>1, <2>5
<1>10. Counted
  BY <1>8, <1>9
<1> QED BY <1>1, <1>2, <1>3, <1>6, <1>7, <1>10

(* The batch that is being written is pending.                              *)
LEMMA BatchPending ==
  ASSUME GapTyped, GapsListed, job.phase = "commit"
  PROVE  /\ \A t \in GapBatch : t \in Targets /\ t \in Target /\ StatusOf(t) = "pending"
         /\ \A i \in DOMAIN job.gaps : job.gaps[i] \in GapBatch <=> i > job.begun /\ i <= job.begun + job.inFlight
<1>1. PICK n : n = Len(job.gaps)
  OBVIOUS
<1>2. n \in Nat /\ DOMAIN job.gaps = 1 .. n
  BY <1>1, LenProperties DEF GapTyped
<1>3. job.begun \in Nat /\ job.inFlight \in Nat /\ job.begun + job.inFlight <= n
  BY <1>1 DEF GapTyped, GapsListed
<1>4. ASSUME NEW i \in job.begun + 1 .. job.begun + job.inFlight
      PROVE  i \in DOMAIN job.gaps /\ i > job.begun
  BY <1>2, <1>3
<1>5. \A i \in DOMAIN job.gaps : i > job.begun => job.gaps[i] \in Targets /\ StatusOf(job.gaps[i]) = "pending"
  BY DEF GapsListed, Started, Gaps, ToSet
<1>6. ASSUME NEW i \in DOMAIN job.gaps
      PROVE  job.gaps[i] \in GapBatch <=> i > job.begun /\ i <= job.begun + job.inFlight
  <2>1. i \in Nat
    BY <1>2
  <2>2. i \in job.begun + 1 .. job.begun + job.inFlight <=> i > job.begun /\ i <= job.begun + job.inFlight
    BY <1>3, <2>1
  <2>3. job.gaps[i] \in GapBatch => i \in job.begun + 1 .. job.begun + job.inFlight
    BY <1>4 DEF GapBatch, GapsListed
  <2> QED BY <2>2, <2>3 DEF GapBatch
<1> QED BY <1>4, <1>5, <1>6 DEF GapBatch, GapTyped

(* A run that fails, wherever it is, tells what it knows.                   *)
LEMMA FatalTells ==
  ASSUME GapTyped, RunKnown, ~Done, Fatal,
         \/ UNCHANGED <<rows, inventory>>
         \/ job.phase = "commit" /\ job.mode = "write" /\ ApplyBatch
  PROVE  GapBackfillInv'
<1> DEFINE skipped == OfStatus(job.records, "skipped_existing")
           todo == Cardinality(Targets \ skipped)
           planned == IF job.gaps # <<>> /\ job.phase \in {"batch", "commit"} THEN Len(job.gaps)
                      ELSE Cardinality(Targets) - Cardinality(skipped)
<1>1. job' = [job EXCEPT !.phase = "done", !.exit = 1, !.planned = planned]
  BY DEF Fatal
<1> HIDE DEF planned
<1>2. /\ job'.phase = "done" /\ job'.exit = 1 /\ job'.planned = planned
      /\ job' = [f \in Kept |-> job'[f]]
  BY <1>1 DEF GapTyped, Kept
<1>3. /\ job'.mode = job.mode /\ job'.file = job.file /\ job'.records = job.records /\ job'.gaps = job.gaps
      /\ job'.begun = job.begun /\ job'.inFlight = job.inFlight /\ job'.committed = job.committed
      /\ job'.direct = job.direct /\ job'.alias = job.alias
  BY <1>1 DEF GapTyped, Kept
<1>4. Targets' = Targets /\ GapBatch' = GapBatch
  BY <1>3 DEF Targets, GapBatch
<1>5. /\ rows' \in [Target -> Row] /\ inventory' \subseteq Target
      /\ \A t \in Target : rows'[t] # rows[t] => t \in GapBatch /\ rows'[t] = "ours" /\ rows[t] = "absent"
      /\ job.mode = "dry-run" => rows' = rows /\ inventory' = inventory
  <2>1. CASE UNCHANGED <<rows, inventory>>
    BY <2>1 DEF GapTyped
  <2>2. CASE job.phase = "commit" /\ job.mode = "write" /\ ApplyBatch
    <3>1. GapBatch \subseteq Target
      BY <2>2, BatchPending DEF RunKnown
    <3>2. Inserted \subseteq GapBatch /\ \A t \in Inserted : rows[t] = "absent"
      BY <2>2 DEF Inserted, Offered
    <3>3. /\ rows' = [t \in Target |-> IF t \in Inserted THEN "ours" ELSE rows[t]]
          /\ inventory' \subseteq inventory \cup GapBatch
      BY <2>2 DEF ApplyBatch
    <3>4. rows \in [Target -> Row] /\ inventory \subseteq Target
      BY DEF GapTyped
    <3>5. \A t \in Target : rows'[t] \in Row
      BY <3>3, <3>4 DEF Row
    <3> QED BY <2>2, <3>1, <3>2, <3>3, <3>4, <3>5
  <2> QED BY <2>1, <2>2
<1>6. GapTyped'
  <2>1. \A t \in Targets : job.records[t] \in [status : GapStatus, method : {"direct", "alias", None}]
    BY DEF GapTyped
  <2>2. \A t \in Targets' : job'.records[t] \in [status : GapStatus, method : {"direct", "alias", None}]
    BY <1>3, <1>4, <2>1
  <2> QED BY <1>2, <1>3, <1>4, <1>5, <2>2 DEF GapTyped
<1>7. InsertsAreReported'
  <2>1. \A t \in Target : rows[t] = "ours" => t \in OfStatus(job.records, "inserted")
    BY DEF RunKnown, TableKnown, OfStatus, StatusOf, Targets
  <2>2. job.mode = "write" => \A t \in OfStatus(job.records, "inserted") : t \in Target /\ rows[t] = "ours"
    BY DEF RunKnown, TableKnown, OfStatus, StatusOf, Targets, GapTyped
  <2>3. job.mode = "dry-run" => inventory = FirstListed /\ \A t \in Target : rows[t] # "ours"
    BY DEF RunKnown, TableKnown
  <2>4. OfStatus(job.records, "inserted")' = OfStatus(job.records, "inserted")
    BY <1>3 DEF OfStatus
  <2>5. \A t \in Target : rows'[t] = "ours" /\ t \notin GapBatch => t \in OfStatus(job.records, "inserted")
    BY <1>5, <2>1
  <2>6. job.mode = "write" => \A t \in OfStatus(job.records, "inserted") : t \in Target /\ rows'[t] = "ours"
    BY <1>5, <2>2
  <2>7. job.mode = "dry-run" => inventory' = FirstListed /\ \A t \in Target : rows'[t] # "ours"
    BY <1>5, <2>3
  <2> QED BY <1>2, <1>3, <1>4, <2>4, <2>5, <2>6, <2>7 DEF InsertsAreReported
<1>8. ExitTellsTruth'
  BY <1>2 DEF ExitTellsTruth
<1>9. CountersAddUp'
  <2>1. /\ todo \in Nat /\ todo = Cardinality(Targets) - Cardinality(skipped)
        /\ job.phase \in {"batch", "commit"} => todo = Len(job.gaps)
        /\ job.begun + job.inFlight <= todo
        /\ Cardinality(OfStatus(job.records, "pending")) = todo - job.begun
    BY OpenCount DEF RunKnown
  <2>2. planned = todo
    BY <2>1 DEF planned
  <2>3. job.committed = job.begun /\ job.begun \in Nat /\ job.inFlight \in Nat
    BY DEF RunKnown, GapsListed, GapTyped
  <2>4. job'.planned - job'.committed - job'.inFlight = todo - job.begun - job.inFlight
    BY <1>2, <1>3, <2>2, <2>3
  <2> HIDE DEF todo
  <2>5. PICK left : left = todo - job.begun - job.inFlight
    OBVIOUS
  <2>6. left \in Nat
    BY <2>1, <2>3, <2>5
  <2>7. Unattempted' = left
    <3>1. Unattempted' = Max({left, 0})
      BY <2>4, <2>5 DEF Unattempted
    <3>2. \A y \in {left, 0} : left >= y
      BY <2>6
    <3>3. \A x \in {left, 0} : (\A y \in {left, 0} : x >= y) => x = left
      BY <2>6
    <3> QED BY <3>1, <3>2, <3>3 DEF Max
  <2>8. job'.committed + job'.inFlight + Unattempted' = todo /\ job'.inFlight + Unattempted' = todo - job.begun
    BY <1>3, <2>1, <2>3, <2>5, <2>6, <2>7
  <2>9. /\ (Targets \ OfStatus(job.records, "skipped_existing"))' = Targets \ skipped
        /\ OfStatus(job.records, "pending")' = OfStatus(job.records, "pending")
    BY <1>3, <1>4 DEF OfStatus
  <2>10. \A method \in {"direct", "alias"} :
           job'[method] = Cardinality({t \in Targets' : job'.records[t].method = method
                                                       /\ job'.records[t].status # "rejected_implausible"})
    BY <1>3, <1>4 DEF RunKnown, FoundCounted, FoundBy, StatusOf
  <2> QED BY <1>2, <2>1, <2>8, <2>9, <2>10 DEF CountersAddUp, todo
<1> QED BY <1>2, <1>6, <1>7, <1>8, <1>9 DEF GapBackfillInv, ReportTellsTruth, Done

(* The invariant of a run that goes on is that of its parts.                *)
LEMMA GoesOn ==
  ASSUME GapTyped', RunKnown', job'.phase # "done"
  PROVE  GapBackfillInv'
BY DEF GapBackfillInv, ReportTellsTruth, InsertsAreReported, ExitTellsTruth, CountersAddUp, Done

LEMMA ParseManifestKeeps ==
  ASSUME GapTyped, RunKnown, ~Done, ParseManifest
  PROVE  GapBackfillInv'
<1>1. CASE Fatal
  BY <1>1, FatalTells DEF ParseManifest
<1>2. CASE ~Fatal
  <2>1. /\ job.phase = "manifest" /\ UNCHANGED <<rows, inventory>>
        /\ job' = [job EXCEPT !.phase = "preflight", !.records = [t \in ToSet(job.file) |-> NewRecord]]
    BY <1>2 DEF ParseManifest
  <2>2. /\ job'.phase = "preflight" /\ job'.records = [t \in ToSet(job.file) |-> NewRecord]
        /\ job' = [f \in Kept |-> job'[f]]
        /\ job'.mode = job.mode /\ job'.file = job.file /\ job'.gaps = job.gaps
        /\ job'.begun = job.begun /\ job'.inFlight = job.inFlight /\ job'.committed = job.committed
        /\ job'.direct = job.direct /\ job'.alias = job.alias
    BY <2>1 DEF GapTyped, Kept
  <2>3. Targets' = ToSet(job.file) /\ \A t \in Targets' : job'.records[t] = NewRecord
    BY <2>2 DEF Targets
  <2>4. IsFiniteSet(Targets') /\ Targets' \subseteq Target
    <3>1. PICK n : n = Len(job.file)
      OBVIOUS
    <3>2. n \in Nat /\ DOMAIN job.file = 1 .. n /\ \A i \in 1 .. n : job.file[i] \in Target
      BY <3>1, LenProperties, ElementOfSeq DEF GapTyped
    <3>3. PICK places : places = 1 .. n
      OBVIOUS
    <3>4. IsFiniteSet(places)
      BY <3>2, <3>3, FS_Interval, 1 \in Int, n \in Int
    <3>5. PICK members : members = ToSet(job.file)
      OBVIOUS
    <3>6. PICK f : f = [i \in places |-> job.file[i]]
      OBVIOUS
    <3>7. f \in Surjection(places, members)
      BY <3>2, <3>3, <3>5, <3>6 DEF ToSet, Surjection
    <3>8. IsFiniteSet(members)
      BY <3>4, <3>7, FS_Surjection
    <3> QED BY <2>3, <3>2, <3>5, <3>8 DEF ToSet
  <2>5. GapTyped'
    <3>1. \A t \in Targets' : job'.records[t] \in [status : GapStatus, method : {"direct", "alias", None}]
      BY <2>3 DEF NewRecord, GapStatus
    <3> QED BY <2>1, <2>2, <2>4, <3>1 DEF GapTyped
  <2>6. Targets = {} /\ job.gaps = <<>> /\ job.begun = 0 /\ job.inFlight = 0 /\ job.committed = job.begun
    BY <2>1 DEF RunKnown, GapsListed, Started
  <2>7. GapsListed'
    BY <2>1, <2>2, <2>3, <2>6 DEF RunKnown, GapsListed, Started
  <2>8. FoundCounted'
    <3>1. \A m \in {"direct", "alias"} : FoundBy(m) = {} /\ FoundBy(m)' = {}
      BY <2>3, <2>6, GapAssumption DEF FoundBy, NewRecord
    <3>2. Resolved' = {}
      BY <2>3 DEF Resolved, NewRecord
    <3> QED BY <2>2, <3>1, <3>2 DEF RunKnown, FoundCounted
  <2>9. TableKnown'
    <3>1. Missing = {} /\ Missing' = {}
      BY <2>3, <2>6 DEF Missing, StatusOf, NewRecord
    <3>2. \A t \in Targets' : StatusOf(t)' = "pending"
      BY <2>3 DEF StatusOf, NewRecord
    <3>3. \A t \in Target : rows[t] # "ours"
      BY <2>6 DEF RunKnown, TableKnown
    <3>4. StillListed = FirstListed /\ StillListed' = FirstListed
      BY <2>6, <3>2 DEF StillListed, Unsettled
    <3> QED BY <2>1, <2>2, <2>3, <3>1, <3>2, <3>3, <3>4 DEF RunKnown, TableKnown
  <2> QED BY <2>2, <2>5, <2>7, <2>8, <2>9, GoesOn DEF RunKnown
<1> QED BY <1>1, <1>2

LEMMA ReadPricedKeysKeeps ==
  ASSUME GapTyped, RunKnown, ~Done, ReadPricedKeys
  PROVE  GapBackfillInv'
<1> DEFINE priced == {t \in Targets : HasPrice(t)}
<1>1. /\ job.phase = "preflight" /\ UNCHANGED <<rows, inventory>>
      /\ job' = [job EXCEPT !.phase = "skip", !.records = WithStatus(job.records, priced, "skipped_existing"),
                            !.gaps = OnceEach(job.file, priced)]
  BY DEF ReadPricedKeys
<1>2. /\ job'.phase = "skip" /\ job'.records = WithStatus(job.records, priced, "skipped_existing")
      /\ job'.gaps = OnceEach(job.file, priced) /\ job' = [f \in Kept |-> job'[f]]
      /\ job'.mode = job.mode /\ job'.file = job.file
      /\ job'.begun = job.begun /\ job'.inFlight = job.inFlight /\ job'.committed = job.committed
      /\ job'.direct = job.direct /\ job'.alias = job.alias
  BY <1>1 DEF GapTyped, Kept
<1>3. Targets = ToSet(job.file) /\ \A t \in Targets : job.records[t] = NewRecord
  BY <1>1 DEF RunKnown, GapsListed, Started
<1>4. Targets' = Targets
  BY <1>2 DEF Targets, WithStatus
<1>5. \A t \in Targets : /\ StatusOf(t)' = (IF t \in priced THEN "skipped_existing" ELSE "pending")
                         /\ job'.records[t].method = None
                         /\ job'.records[t] \in [status : GapStatus, method : {"direct", "alias", None}]
  <2>1. ASSUME NEW t \in Targets
        PROVE  job'.records[t] = [status |-> (IF t \in priced THEN "skipped_existing" ELSE "pending"), method |-> None]
    BY <1>2, <1>3, <2>1 DEF WithStatus, NewRecord, Targets
  <2>2. ASSUME NEW t \in Targets
        PROVE  /\ job'.records[t].status = (IF t \in priced THEN "skipped_existing" ELSE "pending")
               /\ job'.records[t].method = None
               /\ job'.records[t] \in [status : GapStatus, method : {"direct", "alias", None}]
    <3>1. PICK status : status = IF t \in priced THEN "skipped_existing" ELSE "pending"
      OBVIOUS
    <3>2. job'.records[t] = [status |-> status, method |-> None]
      BY <2>1, <2>2, <3>1
    <3>3. status \in GapStatus
      BY <3>1 DEF GapStatus
    <3> QED BY <3>1, <3>2, <3>3
  <2> QED BY <2>2 DEF StatusOf
<1>6. /\ job'.gaps \in Seq(Target) /\ Gaps' = Targets \ priced
      /\ \A i, j \in DOMAIN job'.gaps : job'.gaps[i] = job'.gaps[j] => i = j
  <2>1. job.file \in Seq(Target)
    BY DEF GapTyped
  <2>2. PICK without : without = priced
    OBVIOUS
  <2>3. /\ OnceEach(job.file, without) \in Seq(Target)
        /\ ToSet(OnceEach(job.file, without)) = ToSet(job.file) \ without
        /\ \A i, j \in DOMAIN OnceEach(job.file, without) :
             OnceEach(job.file, without)[i] = OnceEach(job.file, without)[j] => i = j
    BY <2>1, OnceEachLists
  <2> QED BY <1>2, <1>3, <2>2, <2>3 DEF Gaps
<1> HIDE DEF priced
<1>7. GapTyped'
  BY <1>1, <1>2, <1>4, <1>5, <1>6 DEF GapTyped
<1>8. job.begun = 0 /\ job.inFlight = 0 /\ job.committed = job.begun
  BY <1>1 DEF RunKnown, GapsListed
<1>9. GapsListed'
  <2>1. job.begun + job.inFlight <= Len(job'.gaps)
    BY <1>6, <1>8, LenProperties
  <2>2. \A t \in Targets : t \in Gaps' <=> StatusOf(t)' # "skipped_existing"
    BY <1>5, <1>6
  <2>3. \A i \in DOMAIN job'.gaps : i > job.begun /\ job'.records[job'.gaps[i]].status = "pending"
    <3>1. ASSUME NEW i \in DOMAIN job'.gaps
          PROVE  i > job.begun /\ job'.records[job'.gaps[i]].status = "pending"
      <4>1. i \in Nat \ {0}
        BY <1>6, LenProperties
      <4>2. PICK t : t = job'.gaps[i]
        OBVIOUS
      <4>3. t \in Targets \ priced
        BY <1>6, <4>2 DEF Gaps, ToSet
      <4>4. job'.records[t].status = "pending"
        BY <1>5, <4>3 DEF StatusOf
      <4> QED BY <1>8, <4>1, <4>2, <4>4
    <3> QED BY <3>1
  <2>4. \A t \in Targets : t \in Gaps' <=> job'.records[t].status # "skipped_existing"
    BY <2>2 DEF StatusOf
  <2> QED BY <1>2, <1>4, <1>6, <1>8, <2>1, <2>3, <2>4 DEF GapsListed, Started, StatusOf
<1>10. FoundCounted'
  <2>1. \A m \in {"direct", "alias"} : FoundBy(m) = {} /\ FoundBy(m)' = {}
    BY <1>3, <1>4, <1>5, GapAssumption DEF FoundBy, NewRecord
  <2>2. Resolved' = {}
    BY <1>4, <1>5 DEF Resolved
  <2> QED BY <1>2, <2>1, <2>2 DEF RunKnown, FoundCounted
<1>11. TableKnown'
  <2>1. Missing = {} /\ Missing' = {}
    BY <1>3, <1>4, <1>5 DEF Missing, StatusOf, NewRecord
  <2>2. \A t \in Target : rows[t] # "ours"
    BY <1>3 DEF RunKnown, TableKnown, StatusOf, NewRecord
  <2>3. \A t \in Targets : /\ StatusOf(t)' \in {"skipped_existing", "skipped_concurrent_existing"} => HasPrice(t)'
                           /\ StatusOf(t)' # "inserted"
    BY <1>1, <1>5 DEF priced, HasPrice
  <2>4. StillListed = FirstListed /\ StillListed' = FirstListed
    <3>1. \A t \in Targets : Unsettled(t) /\ Unsettled(t)'
      BY <1>2, <1>3, <1>5 DEF Unsettled, StatusOf, NewRecord
    <3> QED BY <1>4, <3>1 DEF StillListed
  <2> QED BY <1>1, <1>2, <1>4, <2>1, <2>2, <2>3, <2>4 DEF RunKnown, TableKnown
<1> QED BY <1>2, <1>7, <1>9, <1>10, <1>11, GoesOn DEF RunKnown

(* The steps between the ones that find prices or write them change no      *)
(* record.                                                                  *)
LEMMA RecordsKeep ==
  ASSUME GapTyped, RunKnown, Started, UNCHANGED rows,
         inventory' = IF job.phase = "skip" /\ job.mode = "write"
                      THEN inventory \ OfStatus(job.records, "skipped_existing") ELSE inventory,
         job' = [f \in Kept |-> job'[f]], job'.phase \in {"direct", "alias", "batch", "commit"},
         job'.mode = job.mode, job'.file = job.file, job'.records = job.records, job'.gaps = job.gaps,
         job'.begun = job.begun, job'.committed = job.committed, job'.direct = job.direct, job'.alias = job.alias,
         job'.inFlight \in Nat, job'.begun + job'.inFlight <= Len(job'.gaps),
         job'.phase # "commit" => job'.inFlight = 0,
         job'.phase \notin {"batch", "commit"} => job'.begun = 0,
         job'.phase \in {"direct", "alias"} =>
           /\ \A range \in job'.asking : range.items \subseteq Gaps \ Resolved
           /\ \A range, other \in job'.asking : range.items \cap other.items # {} => range = other
  PROVE  GapBackfillInv'
<1>1. Targets' = Targets /\ Gaps' = Gaps /\ Resolved' = Resolved /\ Missing' = Missing
  BY DEF Targets, Gaps, Resolved, Missing, StatusOf
<1>2. FoundBy("direct")' = FoundBy("direct") /\ FoundBy("alias")' = FoundBy("alias")
  BY DEF FoundBy, Targets, StatusOf
<1>3. GapTyped'
  BY <1>1 DEF GapTyped
<1>4. GapsListed'
  BY <1>1 DEF RunKnown, GapsListed, Started, StatusOf
<1>5. FoundCounted'
  BY <1>1, <1>2 DEF RunKnown, FoundCounted
<1>6. TableKnown'
  <2>1. \A t \in Targets : StatusOf(t)' = StatusOf(t) /\ (HasPrice(t)' <=> HasPrice(t))
    BY DEF StatusOf, HasPrice
  <2>2. job'.phase # "skip"
    OBVIOUS
  <2>3. \A t \in Targets : Unsettled(t)' <=> StatusOf(t) = "pending"
    BY <2>1, <2>2 DEF Unsettled
  <2>4. job.mode = "write" => inventory' = Missing' \cup StillListed'
    <3>1. job.mode = "write" => inventory = Missing \cup StillListed
      BY DEF RunKnown, TableKnown
    <3>2. OfStatus(job.records, "skipped_existing") = {t \in Targets : StatusOf(t) = "skipped_existing"}
      BY DEF OfStatus, StatusOf, Targets
    <3>3. \A t \in Missing : t \in Targets /\ StatusOf(t) # "skipped_existing"
      BY DEF Missing
    <3>4. ASSUME NEW t PROVE t \in StillListed' <=> t \in FirstListed /\ (t \in Targets => StatusOf(t) = "pending")
      BY <1>1, <2>3 DEF StillListed
    <3>5. ASSUME NEW t PROVE t \in StillListed <=> t \in FirstListed /\ (t \in Targets => Unsettled(t))
      BY DEF StillListed
    <3>6. CASE job.phase = "skip"
      <4>1. \A t \in Targets : Unsettled(t) <=> StatusOf(t) \in {"pending", "skipped_existing"}
        BY <3>6 DEF Unsettled
      <4> QED BY <1>1, <3>1, <3>2, <3>3, <3>4, <3>5, <3>6, <4>1
    <3>7. CASE job.phase # "skip"
      <4>1. \A t \in Targets : Unsettled(t) <=> StatusOf(t) = "pending"
        BY <3>7 DEF Unsettled
      <4> QED BY <1>1, <3>1, <3>4, <3>5, <3>7, <4>1
    <3> QED BY <3>6, <3>7
  <2>5. job.mode = "dry-run" => inventory' = inventory
    OBVIOUS
  <2> QED BY <1>1, <2>1, <2>4, <2>5 DEF RunKnown, TableKnown
<1> QED BY <1>3, <1>4, <1>5, <1>6, GoesOn DEF RunKnown

LEMMA DeleteSkippedKeeps ==
  ASSUME GapTyped, RunKnown, ~Done, DeleteSkipped
  PROVE  GapBackfillInv'
<1> DEFINE asking == GroupContiguousRanges(Gaps, [k \in GapToken |-> k])
<1>1. job.phase = "skip" /\ job' = [job EXCEPT !.phase = "direct", !.asking = asking] /\ rows' = rows
  BY DEF DeleteSkipped
<1>2. inventory' = IF job.phase = "skip" /\ job.mode = "write"
                  THEN inventory \ OfStatus(job.records, "skipped_existing") ELSE inventory
  BY DEF DeleteSkipped
<1>3. Resolved = {} /\ job.begun = 0 /\ job.inFlight = 0 /\ job.begun + job.inFlight <= Len(job.gaps)
  BY <1>1 DEF RunKnown, FoundCounted, GapsListed
<1>4. /\ \A range \in asking : range.items \subseteq Gaps \ Resolved
      /\ \A range, other \in asking : range.items \cap other.items # {} => range = other
  BY <1>3, RangesDisjoint
<1> HIDE DEF asking
<1>5. /\ job'.phase = "direct" /\ job'.asking = asking /\ job' = [f \in Kept |-> job'[f]]
      /\ job'.mode = job.mode /\ job'.file = job.file /\ job'.records = job.records /\ job'.gaps = job.gaps
      /\ job'.begun = job.begun /\ job'.committed = job.committed /\ job'.inFlight = job.inFlight
      /\ job'.direct = job.direct /\ job'.alias = job.alias
  BY <1>1 DEF GapTyped, Kept
<1>6. Started
  BY <1>1 DEF Started
<1> QED BY <1>1, <1>2, <1>3, <1>4, <1>5, <1>6, RecordsKeep

LEMMA StartAliasesKeeps ==
  ASSUME GapTyped, RunKnown, ~Done, StartAliases
  PROVE  GapBackfillInv'
<1> DEFINE aliased == {t \in Gaps \ Resolved : ApplicableAlias(t)}
           asking == GroupContiguousRanges(aliased, Identifiers)
<1>1. job.phase = "direct" /\ job' = [job EXCEPT !.phase = "alias", !.asking = asking] /\ UNCHANGED <<rows, inventory>>
  BY DEF StartAliases
<1>2. job.begun = 0 /\ job.inFlight = 0 /\ job.begun + job.inFlight <= Len(job.gaps)
  BY <1>1 DEF RunKnown, GapsListed
<1>3. /\ \A range \in asking : range.items \subseteq aliased
      /\ \A range, other \in asking : range.items \cap other.items # {} => range = other
  <2> HIDE DEF aliased
  <2> QED BY RangesDisjoint
<1>4. \A range \in asking : range.items \subseteq Gaps \ Resolved
  BY <1>3
<1> HIDE DEF asking
<1>5. /\ job'.phase = "alias" /\ job'.asking = asking /\ job' = [f \in Kept |-> job'[f]]
      /\ job'.mode = job.mode /\ job'.file = job.file /\ job'.records = job.records /\ job'.gaps = job.gaps
      /\ job'.begun = job.begun /\ job'.committed = job.committed /\ job'.inFlight = job.inFlight
      /\ job'.direct = job.direct /\ job'.alias = job.alias
  BY <1>1 DEF GapTyped, Kept
<1>6. Started
  BY <1>1 DEF Started
<1> QED BY <1>1, <1>2, <1>3, <1>4, <1>5, <1>6, RecordsKeep

LEMMA StartWritingKeeps ==
  ASSUME GapTyped, RunKnown, ~Done, StartWriting
  PROVE  GapBackfillInv'
<1>1. job.phase = "alias" /\ job' = [job EXCEPT !.phase = "batch"] /\ UNCHANGED <<rows, inventory>>
  BY DEF StartWriting
<1>2. job.inFlight = 0 /\ job.begun + job.inFlight <= Len(job.gaps)
  BY <1>1 DEF RunKnown, GapsListed
<1>3. /\ job'.phase = "batch" /\ job' = [f \in Kept |-> job'[f]]
      /\ job'.mode = job.mode /\ job'.file = job.file /\ job'.records = job.records /\ job'.gaps = job.gaps
      /\ job'.begun = job.begun /\ job'.committed = job.committed /\ job'.inFlight = job.inFlight
      /\ job'.direct = job.direct /\ job'.alias = job.alias
  BY <1>1 DEF GapTyped, Kept
<1>4. Started
  BY <1>1 DEF Started
<1> QED BY <1>1, <1>2, <1>3, <1>4, RecordsKeep

LEMMA StartBatchKeeps ==
  ASSUME GapTyped, RunKnown, ~Done, StartBatch
  PROVE  GapBackfillInv'
<1>1. PICK end : end = Min({job.begun + TargetsPerBatch, Len(job.gaps)})
  OBVIOUS
<1>2. PICK rejected :
        /\ job.phase = "batch" /\ job.begun < Len(job.gaps) /\ UNCHANGED <<rows, inventory>>
        /\ job' = [job EXCEPT !.phase = "commit", !.rejected = rejected, !.inFlight = end - job.begun]
  BY <1>1 DEF StartBatch
<1>3. job.begun \in Nat /\ Len(job.gaps) \in Nat /\ TargetsPerBatch \in Nat
  BY LenProperties, GapAssumption DEF GapTyped
<1>4. end \in Nat /\ job.begun <= end /\ end <= Len(job.gaps)
  <2>1. PICK total : total = Len(job.gaps)
    OBVIOUS
  <2>2. PICK full : full = job.begun + TargetsPerBatch
    OBVIOUS
  <2>3. total \in Nat /\ full \in Nat /\ job.begun <= full /\ job.begun <= total
    BY <1>2, <1>3, <2>1, <2>2
  <2>4. \E x \in {full, total} : \A y \in {full, total} : x <= y
    <3>1. CASE full <= total
      BY <2>3, <3>1
    <3>2. CASE total <= full
      BY <2>3, <3>2
    <3> QED BY <2>3, <3>1, <3>2
  <2>5. end = CHOOSE x \in {full, total} : \A y \in {full, total} : x <= y
    BY <1>1, <2>1, <2>2 DEF Min
  <2>6. end \in {full, total} /\ \A y \in {full, total} : end <= y
    BY <2>4, <2>5
  <2> QED BY <2>1, <2>3, <2>6
<1>5. /\ job'.phase = "commit" /\ job'.inFlight = end - job.begun /\ job' = [f \in Kept |-> job'[f]]
      /\ job'.mode = job.mode /\ job'.file = job.file /\ job'.records = job.records /\ job'.gaps = job.gaps
      /\ job'.begun = job.begun /\ job'.committed = job.committed
      /\ job'.direct = job.direct /\ job'.alias = job.alias
  BY <1>2 DEF GapTyped, Kept
<1>6. job'.inFlight \in Nat /\ job'.begun + job'.inFlight <= Len(job'.gaps)
  BY <1>3, <1>4, <1>5
<1>7. Started
  BY <1>2 DEF Started
<1> QED BY <1>2, <1>5, <1>6, <1>7, RecordsKeep

LEMMA OthersPriceKeeps ==
  ASSUME GapTyped, RunKnown, ~Done, OthersPrice
  PROVE  GapBackfillInv'
<1>1. PICK t \in Targets : rows[t] \in {"absent", "withheld"} /\ rows' = [rows EXCEPT ![t] = "theirs"]
  BY DEF OthersPrice
<1>2. UNCHANGED <<inventory, job>>
  BY DEF OthersPrice
<1>3. /\ rows' \in [Target -> Row]
      /\ \A u \in Target : HasPrice(u) => HasPrice(u)'
      /\ \A u \in Target : rows'[u] = "ours" <=> rows[u] = "ours"
  BY <1>1 DEF GapTyped, Row, HasPrice
<1>4. GapTyped'
  BY <1>2, <1>3 DEF GapTyped, Targets
<1>5. GapsListed'
  BY <1>2 DEF RunKnown, GapsListed, Started, Targets, Gaps, StatusOf
<1>6. FoundCounted'
  BY <1>2 DEF RunKnown, FoundCounted, FoundBy, Resolved, Targets, Gaps, StatusOf
<1>7. TableKnown'
  <2>1. Targets' = Targets /\ Missing' = Missing /\ StillListed' = StillListed /\ \A u \in Targets : u \in Target
    BY <1>2 DEF Targets, Missing, StatusOf, GapTyped, StillListed, Unsettled
  <2> QED BY <1>2, <1>3, <2>1 DEF RunKnown, TableKnown, StatusOf
<1> QED BY <1>2, <1>4, <1>5, <1>6, <1>7, GoesOn DEF RunKnown, Done

(* An answer finds prices of targets that had none, and counts each.        *)
LEMMA ResolveRangeKeeps ==
  ASSUME GapTyped, RunKnown, ~Done, ResolveRange
  PROVE  GapBackfillInv'
<1>1. PICK m : m = job.phase
  OBVIOUS
<1>2. m \in {"direct", "alias"} /\ UNCHANGED <<rows, inventory>> /\ m # None
  BY <1>1, GapAssumption DEF ResolveRange
<1>3. PICK range \in job.asking : \E answer \in ChartAnswers : job' = WithAnswer(range, m, answer)
  BY <1>1 DEF ResolveRange
<1>4. PICK matched \in SUBSET range.items :
        job' = [job EXCEPT !.asking = job.asking \ {range},
                           !.records = [t \in Targets |-> IF t \in matched THEN [job.records[t] EXCEPT !.method = m]
                                                          ELSE job.records[t]],
                           ![m] = job[m] + Cardinality(matched)]
  <2>1. PICK answer : job' = WithAnswer(range, m, answer)
    BY <1>3
  <2> DEFINE Verdict(t) == IF answer.kind # "chart" THEN answer.kind
                           ELSE MatchChartObservation(answer.chart, t, IF m = "alias" THEN Alias[t.token] ELSE None)
  <2>2. PICK matched : matched = {t \in range.items : Verdict(t) = "matched"}
    OBVIOUS
  <2> HIDE DEF Verdict
  <2>3. matched \in SUBSET range.items
    BY <2>2
  <2>4. job' = [job EXCEPT !.asking = job.asking \ {range},
                           !.records = [t \in Targets |-> IF t \in matched THEN [job.records[t] EXCEPT !.method = m]
                                                          ELSE job.records[t]],
                           ![m] = job[m] + Cardinality(matched)]
    BY <2>1, <2>2 DEF WithAnswer, Verdict
  <2> QED BY <2>3, <2>4
<1> DEFINE records == [t \in Targets |-> IF t \in matched THEN [job.records[t] EXCEPT !.method = m] ELSE job.records[t]]
<1>5. /\ job'.asking = job.asking \ {range} /\ job'.records = records /\ job' = [f \in Kept |-> job'[f]]
      /\ job'[m] = job[m] + Cardinality(matched)
      /\ \A other \in {"direct", "alias"} \ {m} : job'[other] = job[other]
      /\ job'.mode = job.mode /\ job'.file = job.file /\ job'.phase = job.phase /\ job'.gaps = job.gaps
      /\ job'.begun = job.begun /\ job'.committed = job.committed /\ job'.inFlight = job.inFlight
  BY <1>2, <1>4 DEF GapTyped, Kept
<1>6. /\ job.begun = 0 /\ Started
      /\ \A t \in Gaps : t \in Targets /\ StatusOf(t) = "pending"
  <2>1. Started /\ job.begun = 0
    BY <1>1, <1>2 DEF RunKnown, GapsListed, Started
  <2>2. \A i \in DOMAIN job.gaps : i > 0
    <3>1. DOMAIN job.gaps = 1 .. Len(job.gaps) /\ Len(job.gaps) \in Nat
      BY LenProperties DEF GapTyped
    <3> QED BY <3>1
  <2> QED BY <2>1, <2>2 DEF RunKnown, GapsListed, Gaps, ToSet
<1>7. /\ \A t \in matched : t \in Gaps /\ t \in Targets /\ t \notin Resolved
      /\ \A other \in job'.asking : other.items \subseteq Gaps \ Resolved /\ other.items \cap matched = {}
      /\ \A r1, r2 \in job'.asking : r1.items \cap r2.items # {} => r1 = r2
  BY <1>1, <1>2, <1>5, <1>6 DEF RunKnown, FoundCounted
<1>8. /\ Targets' = Targets /\ Gaps' = Gaps
      /\ \A t \in Targets : job.records[t] \in [status : GapStatus, method : {"direct", "alias", None}]
  BY <1>5 DEF Targets, Gaps, GapTyped
<1>9. \A t \in Targets : /\ job'.records[t] \in [status : GapStatus, method : {"direct", "alias", None}]
                         /\ job'.records[t].status = job.records[t].status
                         /\ job'.records[t].method = IF t \in matched THEN m ELSE job.records[t].method
  BY <1>2, <1>5, <1>8
<1>10. \A t \in Targets : StatusOf(t)' = StatusOf(t)
  BY <1>9 DEF StatusOf
<1> HIDE DEF records
<1>11. GapTyped'
  BY <1>2, <1>5, <1>8, <1>9 DEF GapTyped
<1>12. Resolved' = Resolved \cup matched
  BY <1>2, <1>7, <1>8, <1>9 DEF Resolved
<1>13. GapsListed'
  <2>1. \A i \in DOMAIN job.gaps : job.gaps[i] \in Targets
    BY <1>6 DEF Gaps, ToSet
  <2> QED BY <1>5, <1>6, <1>8, <1>9, <2>1 DEF RunKnown, GapsListed, Started, StatusOf
<1>14. FoundCounted'
  <2>1. /\ FoundBy(m)' = FoundBy(m) \cup matched /\ FoundBy(m) \cap matched = {}
        /\ \A other \in {"direct", "alias"} \ {m} : FoundBy(other)' = FoundBy(other)
    <3>1. \A t \in matched : /\ t \in Targets /\ job.records[t].method = None
                            /\ job.records[t].status = "pending"
      BY <1>6, <1>7 DEF Resolved, StatusOf
    <3>2. ASSUME NEW t \in Targets, NEW other \in {"direct", "alias"}
          PROVE  t \in FoundBy(other)' <=> t \in FoundBy(other) \/ (other = m /\ t \in matched)
      <4>1. t \in FoundBy(other) <=> /\ job.records[t].method = other
                                    /\ job.records[t].status # "rejected_implausible"
        BY DEF FoundBy, StatusOf
      <4>2. t \in FoundBy(other)' <=> /\ job'.records[t].method = other
                                     /\ job'.records[t].status # "rejected_implausible"
        BY <1>8 DEF FoundBy, StatusOf
      <4>3. CASE t \in matched
        BY <1>2, <1>9, <3>1, <4>1, <4>2, <4>3, GapAssumption
      <4>4. CASE t \notin matched
        <5>1. /\ job'.records[t].status = job.records[t].status
              /\ job'.records[t].method = job.records[t].method
          BY <1>9, <4>4
        <5> QED BY <4>1, <4>2, <4>4, <5>1
      <4> QED BY <4>3, <4>4
    <3>3. \A other \in {"direct", "alias"} : FoundBy(other) \subseteq Targets /\ FoundBy(other)' \subseteq Targets
      BY <1>8 DEF FoundBy
    <3>4. FoundBy(m) \cap matched = {}
      BY <1>2, <3>1 DEF FoundBy
    <3>5. FoundBy(m)' = FoundBy(m) \cup matched
      BY <1>2, <3>1, <3>2, <3>3
    <3>6. ASSUME NEW other \in {"direct", "alias"} \ {m} PROVE FoundBy(other)' = FoundBy(other)
      BY <3>2, <3>3
    <3> QED BY <3>4, <3>5, <3>6
  <2>2. IsFiniteSet(FoundBy(m)) /\ IsFiniteSet(matched)
    <3>1. IsFiniteSet(Targets) /\ FoundBy(m) \in SUBSET Targets /\ matched \in SUBSET Targets
      BY <1>7 DEF GapTyped, FoundBy
    <3> QED BY <3>1, FS_Subset
  <2>3. Cardinality(FoundBy(m)') = Cardinality(FoundBy(m)) + Cardinality(matched)
    <3>1. Cardinality(FoundBy(m) \cup matched)
            = Cardinality(FoundBy(m)) + Cardinality(matched) - Cardinality(FoundBy(m) \cap matched)
      BY <2>2, FS_Union
    <3>2. Cardinality(FoundBy(m)) \in Nat /\ Cardinality(matched) \in Nat /\ Cardinality(FoundBy(m) \cap matched) = 0
      BY <2>1, <2>2, FS_CardinalityType, FS_EmptySet
    <3> QED BY <2>1, <3>1, <3>2
  <2>4. \A other \in {"direct", "alias"} : job[other] = Cardinality(FoundBy(other))
    BY DEF RunKnown, FoundCounted
  <2>5. \A other \in {"direct", "alias"} : job'[other] = Cardinality(FoundBy(other)')
    BY <1>2, <1>5, <2>1, <2>3, <2>4
  <2>6. \A other \in job'.asking : other.items \subseteq Gaps' \ Resolved'
    BY <1>7, <1>8, <1>12
  <2> QED BY <1>1, <1>2, <1>5, <1>7, <2>5, <2>6 DEF FoundCounted
<1>15. TableKnown'
  <2>1. Missing' = Missing
    BY <1>8, <1>10 DEF Missing
  <2>2. StillListed' = StillListed
    <3>1. \A t \in Targets : Unsettled(t)' <=> Unsettled(t)
      BY <1>5, <1>10 DEF Unsettled
    <3> QED BY <1>8, <3>1 DEF StillListed
  <2> QED BY <1>2, <1>5, <1>8, <1>10, <2>1, <2>2 DEF RunKnown, TableKnown, HasPrice
<1> QED BY <1>1, <1>2, <1>5, <1>11, <1>13, <1>14, <1>15, GoesOn DEF RunKnown

(* A batch settles its targets, and the prices it rejects count no more as  *)
(* found.                                                                   *)
LEMMA CommitBatchKeeps ==
  ASSUME GapTyped, RunKnown, ~Done, CommitBatch
  PROVE  GapBackfillInv'
<1> DEFINE Rejected(m) == {t \in GapBatch : ResultOf(t) = "rejected_implausible" /\ job.records[t].method = m}
<1>1. /\ job.phase = "commit" /\ Started
      /\ job' = [job EXCEPT !.phase = "batch", !.records = WithResults(job.records),
                            !.begun = job.begun + job.inFlight, !.committed = job.committed + job.inFlight,
                            !.inFlight = 0, !.direct = job.direct - Cardinality(Rejected("direct")),
                            !.alias = job.alias - Cardinality(Rejected("alias"))]
  BY DEF CommitBatch, SettleBatch, Started
<1> HIDE DEF Rejected
<1>2. /\ job'.phase = "batch" /\ job'.records = WithResults(job.records) /\ job' = [f \in Kept |-> job'[f]]
      /\ job'.begun = job.begun + job.inFlight /\ job'.committed = job.committed + job.inFlight /\ job'.inFlight = 0
      /\ job'.direct = job.direct - Cardinality(Rejected("direct"))
      /\ job'.alias = job.alias - Cardinality(Rejected("alias"))
      /\ job'.mode = job.mode /\ job'.file = job.file /\ job'.gaps = job.gaps
  BY <1>1 DEF GapTyped, Kept
<1>3. Targets' = Targets /\ Gaps' = Gaps
  BY <1>2 DEF Targets, Gaps, WithResults
<1>4. /\ \A t \in GapBatch : t \in Targets /\ t \in Target /\ StatusOf(t) = "pending"
      /\ \A i \in DOMAIN job.gaps : job.gaps[i] \in GapBatch <=> i > job.begun /\ i <= job.begun + job.inFlight
  BY <1>1, BatchPending DEF RunKnown
<1>5. \A t \in Target : ResultOf(t) \in {"skipped_concurrent_existing", "inserted", "rejected_implausible", "unresolved"}
  BY DEF ResultOf
<1>6. /\ \A t \in Targets : t \in Target
      /\ \A t \in Targets : job.records[t] \in [status : GapStatus, method : {"direct", "alias", None}]
  BY DEF GapTyped
<1>7. ASSUME NEW t \in Targets
      PROVE  /\ job'.records[t].status = IF t \in GapBatch THEN ResultOf(t) ELSE job.records[t].status
             /\ job'.records[t].method = job.records[t].method
             /\ job'.records[t] \in [status : GapStatus, method : {"direct", "alias", None}]
  <2>1. PICK result : result = ResultOf(t)
    OBVIOUS
  <2>2. job'.records[t] = IF t \in GapBatch THEN [job.records[t] EXCEPT !.status = result] ELSE job.records[t]
    BY <1>2, <2>1 DEF WithResults, Targets
  <2>3. result \in GapStatus
    BY <1>5, <1>6, <2>1 DEF GapStatus
  <2> QED BY <1>6, <2>1, <2>2, <2>3
<1>8. job.begun \in Nat /\ job.inFlight \in Nat /\ job.committed \in Nat
  BY DEF GapTyped
<1>9. \A t \in Inserted : t \in GapBatch /\ ~HasPrice(t) /\ ResultOf(t) = "inserted"
  BY DEF Inserted, Offered, ResultOf
<1>10. /\ rows' \in [Target -> Row]
       /\ job.mode = "write" => \A t \in Target : rows'[t] = IF t \in Inserted THEN "ours" ELSE rows[t]
       /\ job.mode = "write" => inventory' = {t \in inventory \cup GapBatch :
                                  t \notin GapBatch \/ ResultOf(t) \in {"unresolved", "rejected_implausible"}}
       /\ job.mode # "write" => UNCHANGED <<rows, inventory>>
  <2>1. ApplyBatch
    BY DEF CommitBatch
  <2>2. rows \in [Target -> Row]
    BY DEF GapTyped
  <2>3. CASE job.mode = "write"
    <3>1. rows' = [t \in Target |-> IF t \in Inserted THEN "ours" ELSE rows[t]]
      BY <2>1, <2>3 DEF ApplyBatch
    <3> QED BY <2>1, <2>2, <2>3, <3>1 DEF ApplyBatch, Row
  <2> QED BY <2>1, <2>2, <2>3 DEF ApplyBatch
<1>11. GapTyped'
  <2>1. inventory \subseteq Target /\ job.file \in Seq(Target) /\ job.gaps \in Seq(Target) /\ IsFiniteSet(Targets)
        /\ job.mode \in {"dry-run", "write"}
    BY DEF GapTyped
  <2>2. inventory' \subseteq Target
    BY <1>4, <1>10, <2>1
  <2>3. job'.begun \in Nat /\ job'.inFlight \in Nat /\ job'.committed \in Nat
    BY <1>2, <1>8
  <2>4. \A t \in Targets' : job'.records[t] \in [status : GapStatus, method : {"direct", "alias", None}]
    BY <1>3, <1>7
  <2> QED BY <1>2, <1>3, <1>6, <1>10, <2>1, <2>2, <2>3, <2>4 DEF GapTyped
<1>12. GapsListed'
  <2>1. /\ \A i, j \in DOMAIN job.gaps : job.gaps[i] = job.gaps[j] => i = j
        /\ job.committed = job.begun /\ job.begun + job.inFlight <= Len(job.gaps)
        /\ Gaps \subseteq Targets /\ \A t \in Targets : t \in Gaps <=> StatusOf(t) # "skipped_existing"
        /\ \A i \in DOMAIN job.gaps : IF i > job.begun THEN StatusOf(job.gaps[i]) = "pending"
                                        ELSE StatusOf(job.gaps[i]) \notin {"pending", "skipped_existing"}
    BY <1>1 DEF RunKnown, GapsListed
  <2>2. DOMAIN job.gaps = 1 .. Len(job.gaps) /\ Len(job.gaps) \in Nat
    BY LenProperties DEF GapTyped
  <2>3. ASSUME NEW t \in Targets
        PROVE  t \in Gaps <=> job'.records[t].status # "skipped_existing"
    BY <1>4, <1>5, <1>6, <1>7, <2>1, <2>3 DEF StatusOf
  <2>4. ASSUME NEW i \in DOMAIN job.gaps
        PROVE  IF i > job'.begun THEN job'.records[job.gaps[i]].status = "pending"
                 ELSE job'.records[job.gaps[i]].status \notin {"pending", "skipped_existing"}
    <3>1. PICK t : t = job.gaps[i]
      OBVIOUS
    <3>2. t \in Targets /\ i \in Nat
      BY <2>1, <2>2, <3>1 DEF Gaps, ToSet
    <3>3. job'.begun = job.begun + job.inFlight
      BY <1>2
    <3>4. CASE i > job.begun + job.inFlight
      <4>1. t \notin GapBatch /\ i > job.begun
        BY <1>4, <1>8, <3>1, <3>2, <3>4
      <4>2. job.records[t].status = "pending"
        BY <2>1, <3>1, <4>1 DEF StatusOf
      <4> QED BY <1>7, <3>1, <3>2, <3>3, <3>4, <4>1, <4>2
    <3>5. CASE ~(i > job.begun + job.inFlight) /\ i > job.begun
      <4>1. t \in GapBatch
        BY <1>4, <1>8, <3>1, <3>2, <3>5
      <4> QED BY <1>5, <1>6, <1>7, <3>1, <3>2, <3>3, <3>5, <4>1
    <3>6. CASE ~(i > job.begun)
      <4>1. t \notin GapBatch /\ ~(i > job.begun + job.inFlight)
        BY <1>4, <1>8, <3>1, <3>2, <3>6
      <4>2. job.records[t].status \notin {"pending", "skipped_existing"}
        BY <2>1, <3>1, <3>6 DEF StatusOf
      <4> QED BY <1>7, <3>1, <3>2, <3>3, <4>1, <4>2
    <3> QED BY <3>4, <3>5, <3>6
  <2>5. job'.committed = job'.begun /\ job'.begun + job'.inFlight <= Len(job'.gaps)
    BY <1>2, <1>8, <2>1, <2>2
  <2> QED BY <1>2, <1>3, <2>1, <2>3, <2>4, <2>5 DEF GapsListed, Started, StatusOf
<1>13. FoundCounted'
  <2>1. ASSUME NEW m \in {"direct", "alias"}
        PROVE  Cardinality(FoundBy(m)') = Cardinality(FoundBy(m)) - Cardinality(Rejected(m))
    <3>1. FoundBy(m)' = FoundBy(m) \ Rejected(m) /\ Rejected(m) \in SUBSET FoundBy(m)
      <4>1. \A t \in Rejected(m) : t \in FoundBy(m) /\ t \in GapBatch /\ ResultOf(t) = "rejected_implausible"
        BY <1>4 DEF Rejected, FoundBy, StatusOf
      <4>2. ASSUME NEW t \in Targets
            PROVE  t \in FoundBy(m)' <=> t \in FoundBy(m) /\ t \notin Rejected(m)
        BY <1>3, <1>4, <1>7, <4>2 DEF Rejected, FoundBy, StatusOf
      <4>3. FoundBy(m) \subseteq Targets /\ FoundBy(m)' \subseteq Targets
        BY <1>3 DEF FoundBy
      <4> QED BY <4>1, <4>2, <4>3
    <3>2. IsFiniteSet(FoundBy(m)) /\ IsFiniteSet(Rejected(m))
      <4>1. IsFiniteSet(Targets) /\ FoundBy(m) \in SUBSET Targets
        BY DEF GapTyped, FoundBy
      <4> QED BY <3>1, <4>1, FS_Subset
    <3>3. FoundBy(m) \cap Rejected(m) = Rejected(m)
      BY <3>1
    <3>4. Cardinality(FoundBy(m) \ Rejected(m)) = Cardinality(FoundBy(m)) - Cardinality(FoundBy(m) \cap Rejected(m))
      BY <3>2, FS_Difference
    <3> QED BY <3>1, <3>3, <3>4
  <2>2. job.direct = Cardinality(FoundBy("direct")) /\ job.alias = Cardinality(FoundBy("alias"))
    BY DEF RunKnown, FoundCounted
  <2>3. job'.direct = Cardinality(FoundBy("direct")') /\ job'.alias = Cardinality(FoundBy("alias")')
    BY <1>2, <2>1, <2>2
  <2> QED BY <1>2, <2>3 DEF FoundCounted
<1>14. TableKnown'
  <2>1. /\ \A t \in Target : rows[t] = "ours" => t \in Targets /\ job.records[t].status = "inserted"
        /\ \A t \in Targets : job.records[t].status \in {"skipped_existing", "skipped_concurrent_existing"} => HasPrice(t)
        /\ job.mode = "write" => /\ inventory = Missing \cup StillListed
                                 /\ \A t \in Targets : job.records[t].status = "inserted" => rows[t] = "ours"
        /\ job.mode = "dry-run" => inventory = FirstListed /\ \A t \in Target : rows[t] # "ours"
    BY DEF RunKnown, TableKnown, StatusOf
  <2>2. \A t \in GapBatch : t \in Targets /\ t \in Target /\ job.records[t].status = "pending"
    BY <1>4 DEF StatusOf
  <2>3. \A t \in Target : HasPrice(t) => HasPrice(t)' /\ rows'[t] = rows[t]
    BY <1>9, <1>10 DEF HasPrice
  <2>4. \A t \in Target : rows'[t] = "ours" => t \in Targets /\ job'.records[t].status = "inserted"
    <3>1. ASSUME NEW t \in Target, rows'[t] = "ours" PROVE t \in Targets /\ job'.records[t].status = "inserted"
      <4>1. CASE t \in Inserted
        BY <1>7, <1>9, <2>2, <4>1
      <4>2. CASE t \notin Inserted
        BY <1>7, <1>10, <2>1, <2>2, <3>1, <4>2
      <4> QED BY <4>1, <4>2
    <3> QED BY <3>1
  <2>5. ASSUME NEW t \in Targets, job'.records[t].status \in {"skipped_existing", "skipped_concurrent_existing"}
        PROVE  HasPrice(t)'
    <3>1. CASE t \in GapBatch
      <4>1. HasPrice(t)
        BY <1>7, <2>5, <3>1 DEF ResultOf
      <4> QED BY <1>6, <2>3, <4>1
    <3>2. CASE t \notin GapBatch
      BY <1>6, <1>7, <2>1, <2>3, <2>5, <3>2
    <3> QED BY <3>1, <3>2
  <2>6. job.mode = "write" => inventory' = Missing' \cup StillListed'
    <3>1. \A t \in Targets : t \in Missing' <=> job'.records[t].status \in {"unresolved", "rejected_implausible"}
      BY <1>3 DEF Missing, StatusOf
    <3>2. \A t \in Targets : t \in Missing <=> job.records[t].status \in {"unresolved", "rejected_implausible"}
      BY DEF Missing, StatusOf
    <3>3. Missing \subseteq Targets /\ Missing' \subseteq Targets
      BY <1>3 DEF Missing
    <3>4. \A t \in Targets : /\ Unsettled(t) <=> job.records[t].status = "pending"
                             /\ Unsettled(t)' <=> job'.records[t].status = "pending"
      BY <1>1, <1>2 DEF Unsettled, StatusOf
    <3>5. ASSUME NEW t
          PROVE  /\ t \in StillListed <=> t \in FirstListed /\ (t \in Targets => job.records[t].status = "pending")
                 /\ t \in StillListed' <=> t \in FirstListed /\ (t \in Targets => job'.records[t].status = "pending")
      BY <1>3, <3>4 DEF StillListed
    <3>6. ASSUME job.mode = "write", NEW t
          PROVE  t \in inventory' <=> t \in Missing' \cup StillListed'
      <4>1. t \in inventory' <=> /\ t \in Missing \/ t \in StillListed \/ t \in GapBatch
                                 /\ t \notin GapBatch \/ ResultOf(t) \in {"unresolved", "rejected_implausible"}
        BY <1>10, <2>1, <3>6
      <4>2. CASE t \in GapBatch
        <5>1. t \in Targets /\ job'.records[t].status = ResultOf(t)
          BY <1>7, <2>2, <4>2
        <5>2. ResultOf(t) # "pending"
          BY <1>5, <2>2, <4>2
        <5> QED BY <3>1, <3>5, <4>1, <4>2, <5>1, <5>2
      <4>3. CASE t \notin GapBatch
        <5>1. t \in Targets => job'.records[t].status = job.records[t].status
          BY <1>7, <4>3
        <5> QED BY <3>1, <3>2, <3>3, <3>5, <4>1, <4>3, <5>1
      <4> QED BY <4>2, <4>3
    <3> QED BY <3>6
  <2>7. job.mode = "write" => \A t \in Targets : job'.records[t].status = "inserted" => rows'[t] = "ours"
    <3>1. ASSUME job.mode = "write", NEW t \in Targets, job'.records[t].status = "inserted"
          PROVE  rows'[t] = "ours"
      <4>1. CASE t \in GapBatch
        <5>1. t \in Inserted
          BY <1>7, <3>1, <4>1 DEF ResultOf
        <5> QED BY <1>6, <1>10, <3>1, <5>1
      <4>2. CASE t \notin GapBatch
        <5>1. rows[t] = "ours"
          BY <1>7, <2>1, <3>1, <4>2
        <5> QED BY <1>6, <1>10, <3>1, <5>1
      <4> QED BY <4>1, <4>2
    <3> QED BY <3>1
  <2>8. job.mode = "dry-run" => inventory' = FirstListed /\ \A t \in Target : rows'[t] # "ours"
    BY <1>10, <2>1
  <2> QED BY <1>2, <1>3, <2>4, <2>5, <2>6, <2>7, <2>8 DEF TableKnown, StatusOf
<1> QED BY <1>2, <1>11, <1>12, <1>13, <1>14, GoesOn DEF RunKnown

(* A run that ends well has settled every target.                           *)
LEMMA FinishTells ==
  ASSUME GapTyped, RunKnown, ~Done, Finish
  PROVE  GapBackfillInv'
<1> DEFINE pending == OfStatus(job.records, "pending")
           records == WithStatus(job.records, pending, "unresolved")
           lacking == OfStatus(records, "unresolved") \cup OfStatus(records, "rejected_implausible")
           exit == IF lacking = {} THEN 0 ELSE 2
<1>1. /\ job.phase = "batch" /\ job.begun = Len(job.gaps) /\ UNCHANGED <<rows, inventory>>
      /\ job' = [job EXCEPT !.phase = "done", !.records = records, !.exit = exit]
  BY DEF Finish, Report
<1>2. pending = {}
  <2>1. DOMAIN job.gaps = 1 .. Len(job.gaps) /\ Len(job.gaps) \in Nat
    BY LenProperties DEF GapTyped
  <2>2. ASSUME NEW t \in pending PROVE FALSE
    <3>1. t \in Targets /\ StatusOf(t) = "pending"
      BY DEF OfStatus, StatusOf, Targets
    <3>2. PICK i \in DOMAIN job.gaps : t = job.gaps[i]
      BY <1>1, <3>1 DEF RunKnown, GapsListed, Started, Gaps, ToSet
    <3>3. ~(i > job.begun)
      BY <1>1, <2>1
    <3> QED BY <1>1, <3>1, <3>2, <3>3 DEF RunKnown, GapsListed, Started
  <2> QED BY <2>2
<1>3. DOMAIN records = Targets /\ \A t \in Targets : records[t] = job.records[t]
  BY <1>2 DEF WithStatus, Targets
<1>4. lacking = Missing
  BY <1>3 DEF OfStatus, Missing, StatusOf
<1> HIDE DEF pending, records, lacking, exit
<1>5. /\ job'.phase = "done" /\ job'.records = records /\ job'.exit = exit /\ job' = [f \in Kept |-> job'[f]]
      /\ job'.mode = job.mode /\ job'.file = job.file /\ job'.gaps = job.gaps
      /\ job'.begun = job.begun /\ job'.inFlight = job.inFlight /\ job'.committed = job.committed
      /\ job'.direct = job.direct /\ job'.alias = job.alias
  BY <1>1 DEF GapTyped, Kept
<1>6. Targets' = Targets /\ \A t \in Targets : job'.records[t] = job.records[t]
  BY <1>3, <1>5 DEF Targets
<1>7. GapTyped'
  <2>1. \A t \in Targets : job'.records[t] \in [status : GapStatus, method : {"direct", "alias", None}]
    BY <1>6 DEF GapTyped
  <2> QED BY <1>1, <1>5, <1>6, <2>1 DEF GapTyped
<1>8. \A s : OfStatus(job'.records, s) = {t \in Targets : job.records[t].status = s}
  BY <1>6 DEF OfStatus, Targets
<1>9. exit \in {0, 2} /\ (exit = 0 => Missing = {})
  BY <1>4 DEF exit
<1>10. /\ \A t \in Target : rows[t] = "ours" => t \in Targets /\ job.records[t].status = "inserted"
       /\ \A t \in Targets : job.records[t].status \in {"skipped_existing", "skipped_concurrent_existing"} => HasPrice(t)
       /\ job.mode = "write" => /\ inventory = Missing \cup StillListed
                                /\ \A t \in Targets : job.records[t].status = "inserted" => rows[t] = "ours"
       /\ job.mode = "dry-run" => inventory = FirstListed /\ \A t \in Target : rows[t] # "ours"
  BY DEF RunKnown, TableKnown, StatusOf
<1>11. \A t \in Targets : t \in Target /\ job.records[t].status \in GapStatus
  BY DEF GapTyped
<1>12. InsertsAreReported'
  BY <1>1, <1>5, <1>8, <1>9, <1>10, <1>11 DEF InsertsAreReported
<1>13. ExitTellsTruth'
  <2>1. \A t \in Targets : job.mode = "write" /\ t \notin Missing => HasPrice(t)
    <3>1. ASSUME NEW t \in Targets, job.mode = "write", t \notin Missing PROVE HasPrice(t)
      <4>1. job.records[t].status \in GapStatus \ {"pending", "unresolved", "rejected_implausible"}
        BY <1>2, <1>11, <3>1 DEF Missing, StatusOf, pending, OfStatus, Targets
      <4> QED BY <1>10, <3>1, <4>1 DEF GapStatus, HasPrice
    <3> QED BY <3>1
  <2>2. \A t \in Targets : HasPrice(t)' <=> HasPrice(t)
    BY <1>1 DEF HasPrice
  <2>3. (OfStatus(job.records, "unresolved") \cup OfStatus(job.records, "rejected_implausible"))' = Missing
    BY <1>8 DEF Missing, StatusOf
  <2>4. StillListed = FirstListed \ Targets
    <3>1. \A t \in Targets : ~Unsettled(t)
      BY <1>1, <1>2 DEF Unsettled, StatusOf, pending, OfStatus, Targets
    <3> QED BY <3>1 DEF StillListed
  <2> QED BY <1>1, <1>5, <1>6, <1>9, <1>10, <2>1, <2>2, <2>3, <2>4 DEF ExitTellsTruth
<1>14. CountersAddUp'
  <2>1. Cardinality(OfStatus(job'.records, "pending")) = 0
    <3>1. OfStatus(job'.records, "pending") = {}
      BY <1>2, <1>8 DEF pending, OfStatus, Targets
    <3> QED BY <3>1, FS_EmptySet
  <2>2. \A method \in {"direct", "alias"} :
          job'[method] = Cardinality({t \in Targets' : job'.records[t].method = method
                                                      /\ job'.records[t].status # "rejected_implausible"})
    <3>1. ASSUME NEW method \in {"direct", "alias"}
          PROVE  {t \in Targets' : job'.records[t].method = method
                                   /\ job'.records[t].status # "rejected_implausible"} = FoundBy(method)
      BY <1>6 DEF FoundBy, StatusOf
    <3>2. job.direct = Cardinality(FoundBy("direct")) /\ job.alias = Cardinality(FoundBy("alias"))
      BY DEF RunKnown, FoundCounted
    <3>3. \A method \in {"direct", "alias"} : job'[method] = Cardinality(FoundBy(method))
      BY <1>5, <3>2
    <3> QED BY <3>1, <3>3
  <2> QED BY <1>5, <1>9, <2>1, <2>2 DEF CountersAddUp
<1> QED BY <1>5, <1>7, <1>12, <1>13, <1>14 DEF GapBackfillInv, ReportTellsTruth, Done

(* The report of a gap backfill can be believed, for any file and tables,   *)
(* any aliases, charts and batch size: what it says was inserted is in the  *)
(* table, a run that ends with 0 left no target without a price, and its    *)
(* counters are those of its records, whatever others wrote meanwhile and   *)
(* wherever the run failed (BackfillReport).                                *)
THEOREM ReportTruthTheorem == GapSpec => []ReportTellsTruth
<1>1. GapInit => GapBackfillInv
  <2>1. SUFFICES ASSUME GapInit PROVE GapBackfillInv
    OBVIOUS
  <2>2. PICK mode \in {"dry-run", "write"}, file \in Manifests : job = [NoJob EXCEPT !.mode = mode, !.file = file]
    BY <2>1 DEF GapInit
  <2>3. /\ job = [f \in Kept |-> job[f]] /\ job.mode = mode /\ job.file = file /\ job.phase = "manifest"
        /\ job.records = <<>> /\ job.gaps = <<>> /\ job.begun = 0 /\ job.inFlight = 0 /\ job.committed = 0
        /\ job.direct = 0 /\ job.alias = 0
    BY <2>2 DEF NoJob, Kept
  <2>4. Targets = {} /\ file \in Seq(Target) /\ IsFiniteSet(Targets)
    BY <2>3, GapAssumption, FS_EmptySet DEF Targets
  <2>5. rows \in [Target -> Row \ {"ours"}] /\ inventory = FirstListed /\ FirstListed \subseteq Target
    BY <2>1, GapAssumption DEF GapInit
  <2>6. GapTyped
    <3>1. rows \in [Target -> Row]
      <4>1. \A t \in Target : rows[t] \in Row
        BY <2>5
      <4> QED BY <2>5, <4>1
    <3>2. job.gaps \in Seq(Target)
      BY <2>3, EmptySeq
    <3> QED BY <2>3, <2>4, <2>5, <3>1, <3>2 DEF GapTyped
  <2>7. GapsListed
    BY <2>3, <2>4 DEF GapsListed, Started
  <2>8. FoundCounted
    <3>1. FoundBy("direct") = {} /\ FoundBy("alias") = {} /\ Resolved = {}
      BY <2>4 DEF FoundBy, Resolved
    <3> QED BY <2>3, <3>1, FS_EmptySet DEF FoundCounted
  <2>9. TableKnown
    <3>1. Missing = {} /\ StillListed = FirstListed /\ \A t \in Target : rows[t] # "ours"
      BY <2>4, <2>5 DEF Missing, StillListed
    <3> QED BY <2>4, <2>5, <3>1 DEF TableKnown
  <2> QED BY <2>3, <2>6, <2>7, <2>8, <2>9
       DEF GapBackfillInv, RunKnown, ReportTellsTruth, InsertsAreReported, ExitTellsTruth, CountersAddUp, Done
<1>2. GapBackfillInv /\ [GapNext]_gapVars => GapBackfillInv'
  <2>1. SUFFICES ASSUME GapBackfillInv, [GapNext]_gapVars PROVE GapBackfillInv'
    OBVIOUS
  <2>2. CASE UNCHANGED gapVars
    <3>1. rows' = rows /\ inventory' = inventory /\ job' = job
      BY <2>2 DEF gapVars
    <3>2. Targets' = Targets /\ Gaps' = Gaps /\ Resolved' = Resolved /\ Missing' = Missing /\ Done' = Done
      BY <3>1 DEF Targets, Gaps, Resolved, Missing, StatusOf, Done
    <3>3. GapTyped' = GapTyped
      BY <3>1, <3>2 DEF GapTyped
    <3>4. RunKnown' = RunKnown
      BY <3>1, <3>2 DEF RunKnown, GapsListed, FoundCounted, TableKnown, FoundBy, Started, StatusOf, HasPrice,
                        StillListed, Unsettled
    <3>5. ReportTellsTruth' = ReportTellsTruth
      BY <3>1, <3>2 DEF ReportTellsTruth, InsertsAreReported, ExitTellsTruth, CountersAddUp, HasPrice, GapBatch, Unattempted
    <3> QED BY <2>1, <3>2, <3>3, <3>4, <3>5 DEF GapBackfillInv
  <2>3. CASE GapNext
    <3>1. ~Done /\ GapTyped /\ RunKnown
      <4>1. ~Done
        BY <2>3 DEF GapNext, ParseManifest, RefuseCasings, ReadPricedKeys, DeleteSkipped, ResolveRange, StartAliases,
                    StartWriting, StartBatch, CommitBatch, GapCommitUnknown, StatementFails, Finish, OthersPrice, Done
      <4> QED BY <2>1, <4>1 DEF GapBackfillInv
    <3>2. CASE RefuseCasings \/ StatementFails \/ GapCommitUnknown
      BY <3>1, <3>2, FatalTells DEF RefuseCasings, StatementFails, GapCommitUnknown
    <3> QED BY <2>3, <3>1, <3>2, ParseManifestKeeps, ReadPricedKeysKeeps, DeleteSkippedKeeps, ResolveRangeKeeps,
               StartAliasesKeeps, StartWritingKeeps, StartBatchKeeps, CommitBatchKeeps, FinishTells, OthersPriceKeeps
               DEF GapNext
  <2> QED BY <2>1, <2>2, <2>3
<1>3. GapBackfillInv => ReportTellsTruth
  BY DEF GapBackfillInv
<1> QED BY <1>1, <1>2, <1>3, PTL DEF GapSpec

-----------------------------------------------------------------------------
(* FeedRounds *)

IsHistory(h) ==
  /\ h \in Seq([rounds : Seq(Nat), known : BOOLEAN]) /\ h # <<>>
  /\ \A phase \in DOMAIN h : WrittenInOrder(h[phase].rounds)
RoundsOf(h) == UNION {{Round(phase, n) : n \in DOMAIN h[phase].rounds} : phase \in DOMAIN h}

(* Nothing was written by the time from r on, in the order of rounds.       *)
NoneFrom(h, time, r) == \A x \in Written(h, time) : ~Later(x, r)
IsCurrent(h, time, r) == r \in Written(h, time) /\ \A x \in Written(h, time) : Later(r, x)

(* What is known of a feed while it is read: with a round in hand it is the *)
(* last one of its phase; what the search found is just before its bracket; *)
(* and where all rounds can be read, nothing from the round in hand or the  *)
(* end of the bracket on was written by the time.                           *)
InHand(h, time, leg) ==
  /\ leg.round \in RoundsOf(h) /\ leg.round = LatestOf(h, leg.round.phase)
  /\ leg.hops = Len(h) - leg.round.phase
  /\ Whole(h) => NoneFrom(h, time, leg.round)
Bracketed(h, time, leg) ==
  /\ leg.lo \in Nat \ {0} /\ leg.hi \in Nat /\ leg.lo <= leg.hi /\ leg.hi < leg.round.round
  /\ IF leg.lo = 1 THEN leg.best = {}
     ELSE /\ leg.best = {Round(leg.round.phase, leg.lo - 1)}
          /\ AtOrBefore(h, Round(leg.round.phase, leg.lo - 1), time)
  /\ Whole(h) => NoneFrom(h, time, Round(leg.round.phase, leg.hi + 1))
EndedWell(h, time, leg) ==
  /\ leg.best \subseteq Written(h, time)
  /\ Whole(h) => IF leg.best = {} THEN Written(h, time) = {}
                 ELSE \E r \in leg.best : leg.best = {r} /\ IsCurrent(h, time, r)
IsLeg(leg) == DOMAIN leg = {"at", "round", "hops", "lo", "hi", "best"}
LegKnown(h, time, leg) ==
  /\ IsLeg(leg) /\ leg.at \in {"latest", "top", "bisect", "older", "done"}
  /\ leg.at \in {"top", "bisect", "older"} => InHand(h, time, leg)
  /\ leg.at = "top" => leg.round.round > 1
  /\ leg.at = "bisect" => Bracketed(h, time, leg)
  /\ leg.at = "older" /\ Whole(h) => NoneFrom(h, time, Round(leg.round.phase, 1))
  /\ leg.at = "done" => EndedWell(h, time, leg)

(* The inductive invariant.                                                 *)
FeedKnown ==
  /\ feeds \in Feeds /\ request \in Legs \X Times
  /\ reads = [i \in DOMAIN request[1] |-> reads[i]]
  /\ \A i \in DOMAIN request[1] : LegKnown(HistoryOf(i), Time, reads[i])
  /\ reply \notin {Unanswered, Unavailable} => reply = Combined /\ \A i \in DOMAIN request[1] : reads[i].at = "done"

(* A search ends.                                                           *)
LEMMA Ended ==
  ASSUME NEW leg, IsLeg(leg), NEW best
  PROVE  IsLeg(EndWith(leg, best)) /\ EndWith(leg, best).at = "done" /\ EndWith(leg, best).best = best
BY DEF IsLeg, EndWith

(* Rounds and their times are numbers.                                      *)
LEMMA RoundsTyped ==
  ASSUME NEW h, IsHistory(h), NEW phase \in DOMAIN h
  PROVE  /\ Len(h) \in Nat /\ DOMAIN h = 1 .. Len(h) /\ Len(h) > 0 /\ phase \in Nat
         /\ h[phase].rounds \in Seq(Nat) /\ Len(h[phase].rounds) \in Nat
         /\ DOMAIN h[phase].rounds = 1 .. Len(h[phase].rounds)
         /\ \A n \in DOMAIN h[phase].rounds : h[phase].rounds[n] \in Nat
<1>1. h \in Seq([rounds : Seq(Nat), known : BOOLEAN]) /\ h # <<>>
  BY DEF IsHistory
<1>2. Len(h) \in Nat /\ DOMAIN h = 1 .. Len(h) /\ Len(h) > 0
  BY <1>1, LenProperties, EmptySeq
<1>3. h[phase] \in [rounds : Seq(Nat), known : BOOLEAN]
  BY <1>1, <1>2, ElementOfSeq
<1>4. h[phase].rounds \in Seq(Nat)
  BY <1>3
<1>5. Len(h[phase].rounds) \in Nat /\ DOMAIN h[phase].rounds = 1 .. Len(h[phase].rounds)
  BY <1>4, LenProperties
<1>6. \A n \in DOMAIN h[phase].rounds : h[phase].rounds[n] \in Nat
  BY <1>4, <1>5, ElementOfSeq
<1> QED BY <1>2, <1>4, <1>5, <1>6

(* What is written by a time is a round, and the other way round.           *)
LEMMA WrittenIs ==
  ASSUME NEW h, IsHistory(h), NEW time \in Nat
  PROVE  /\ \A x \in Written(h, time) : /\ x.phase \in DOMAIN h /\ x.round \in DOMAIN h[x.phase].rounds
                                        /\ x = Round(x.phase, x.round) /\ x.phase \in Nat /\ x.round \in Nat
                                        /\ x.round <= Len(h[x.phase].rounds)
                                        /\ h[x.phase].rounds[x.round] \in 1 .. time
         /\ \A phase \in DOMAIN h : \A n \in DOMAIN h[phase].rounds :
              AtOrBefore(h, Round(phase, n), time) => Round(phase, n) \in Written(h, time)
<1>1. ASSUME NEW x \in Written(h, time)
      PROVE  /\ x.phase \in DOMAIN h /\ x.round \in DOMAIN h[x.phase].rounds /\ x = Round(x.phase, x.round)
             /\ h[x.phase].rounds[x.round] \in 1 .. time
             /\ x.phase \in Nat /\ x.round \in Nat /\ x.round <= Len(h[x.phase].rounds)
  <2>1. /\ x.phase \in DOMAIN h /\ x.round \in DOMAIN h[x.phase].rounds /\ x = Round(x.phase, x.round)
        /\ h[x.phase].rounds[x.round] \in 1 .. time
    BY DEF Written, Round, TimeAt
  <2> QED BY <2>1, RoundsTyped
<1>2. ASSUME NEW phase \in DOMAIN h, NEW n \in DOMAIN h[phase].rounds, AtOrBefore(h, Round(phase, n), time)
      PROVE  Round(phase, n) \in Written(h, time)
  <2>1. h[phase].rounds[n] \in Nat
    BY RoundsTyped
  <2>2. TimeAt(h, Round(phase, n)) = h[phase].rounds[n]
    BY DEF TimeAt, Round
  <2>3. TimeAt(h, Round(phase, n)) \in 1 .. time
    BY <1>2, <2>1, <2>2 DEF AtOrBefore, Readable
  <2> QED BY <2>3 DEF Written
<1> QED BY <1>1, <1>2

(* A round that was written too late ends what can be found in its phase.   *)
LEMMA TooLate ==
  ASSUME NEW h, IsHistory(h), Whole(h), NEW time \in Nat, NEW phase \in DOMAIN h,
         NEW n \in DOMAIN h[phase].rounds, ~AtOrBefore(h, Round(phase, n), time),
         \A x \in Written(h, time) : x.phase <= phase
  PROVE  NoneFrom(h, time, Round(phase, n))
<1>1. /\ n \in Nat /\ h[phase].rounds[n] > time /\ phase \in Nat
  <2>1. h[phase].rounds[n] \in Nat /\ h[phase].rounds[n] > 0 /\ n \in Nat /\ phase \in Nat
    BY RoundsTyped DEF Whole
  <2> QED BY <2>1 DEF AtOrBefore, Readable, TimeAt, Round
<1>2. SUFFICES ASSUME NEW x \in Written(h, time), Later(x, Round(phase, n)) PROVE FALSE
  BY DEF NoneFrom
<1>3. /\ x.phase \in DOMAIN h /\ x.round \in DOMAIN h[x.phase].rounds /\ h[x.phase].rounds[x.round] \in 1 .. time
  BY WrittenIs
<1>4. x.phase \in Nat /\ x.round \in Nat
  BY WrittenIs
<1>5. x.phase = phase /\ x.round >= n
  BY <1>1, <1>2, <1>4 DEF Later, Round
<1>6. h[phase].rounds[n] <= h[phase].rounds[x.round]
  <2>1. WrittenInOrder(h[phase].rounds)
    BY DEF IsHistory
  <2>2. h[phase].rounds[n] \in Nat /\ h[phase].rounds[x.round] \in Nat /\ h[phase].rounds[x.round] > 0
    BY <1>3, <1>5, RoundsTyped
  <2> QED BY <1>1, <1>3, <1>4, <1>5, <2>1, <2>2 DEF WrittenInOrder
<1> QED BY <1>1, <1>3, <1>5, <1>6, RoundsTyped

(* A round written in time, after which there is nothing, is the current    *)
(* one.                                                                     *)
LEMMA InTime ==
  ASSUME NEW h, IsHistory(h), NEW time \in Nat, NEW phase \in DOMAIN h,
         NEW n \in DOMAIN h[phase].rounds, AtOrBefore(h, Round(phase, n), time), NEW leg, IsLeg(leg)
  PROVE  /\ Whole(h) /\ NoneFrom(h, time, Round(phase, n + 1)) => IsCurrent(h, time, Round(phase, n))
         /\ (Whole(h) => NoneFrom(h, time, Round(phase, n + 1)))
              => LegKnown(h, time, EndWith(leg, {Round(phase, n)}))
<1>1. Round(phase, n) \in Written(h, time) /\ n \in Nat /\ phase \in Nat
  BY WrittenIs, RoundsTyped
<1>2. ASSUME NoneFrom(h, time, Round(phase, n + 1)) PROVE IsCurrent(h, time, Round(phase, n))
  <2>1. ASSUME NEW x \in Written(h, time) PROVE Later(Round(phase, n), x)
    <3>1. x.phase \in Nat /\ x.round \in Nat
      BY WrittenIs
    <3>2. ~(x.phase > phase \/ (x.phase = phase /\ x.round >= n + 1))
      BY <1>2 DEF NoneFrom, Later, Round
    <3>3. phase > x.phase \/ (phase = x.phase /\ n >= x.round)
      BY <1>1, <3>1, <3>2
    <3> QED BY <3>3 DEF Later, Round
  <2> QED BY <1>1, <2>1 DEF IsCurrent
<1>3. ASSUME Whole(h) => NoneFrom(h, time, Round(phase, n + 1))
      PROVE  LegKnown(h, time, EndWith(leg, {Round(phase, n)}))
  <2> DEFINE ended == EndWith(leg, {Round(phase, n)})
  <2>1. IsLeg(ended) /\ ended.at = "done" /\ ended.best = {Round(phase, n)}
    BY Ended
  <2>2. EndedWell(h, time, ended)
    BY <1>1, <1>2, <1>3, <2>1 DEF EndedWell
  <2> QED BY <2>1, <2>2 DEF LegKnown
<1> QED BY <1>2, <1>3

(* Nothing is found.                                                        *)
LEMMA NothingThere ==
  ASSUME NEW h, NEW time, NEW leg, IsLeg(leg), Whole(h) => Written(h, time) = {}
  PROVE  LegKnown(h, time, EndWith(leg, {}))
<1> DEFINE ended == EndWith(leg, {})
<1>1. IsLeg(ended) /\ ended.at = "done" /\ ended.best = {}
  BY Ended
<1> QED BY <1>1 DEF LegKnown, EndedWell

(* The last round of a phase is taken up.                                   *)
LEMMA WithRoundKnown ==
  ASSUME NEW h, IsHistory(h), Time \in Nat, NEW phase \in DOMAIN h, Readable(h, LatestOf(h, phase)),
         NEW leg, IsLeg(leg), NEW hops, hops = Len(h) - phase,
         Whole(h) => \A x \in Written(h, Time) : x.phase <= phase
  PROVE  LegKnown(h, Time, WithRound(h, leg, LatestOf(h, phase), hops))
<1> DEFINE n == Len(h[phase].rounds)
<1>1. n \in DOMAIN h[phase].rounds /\ n \in Nat /\ phase \in Nat /\ n >= 1
  BY RoundsTyped DEF Readable, LatestOf, Round
<1>2. LatestOf(h, phase) = Round(phase, n) /\ Round(phase, n).phase = phase /\ Round(phase, n).round = n
  BY DEF LatestOf, Round
<1>3. CASE AtOrBefore(h, Round(phase, n), Time)
  <2>1. ASSUME Whole(h) PROVE NoneFrom(h, Time, Round(phase, n + 1))
    <3>1. ASSUME NEW x \in Written(h, Time) PROVE ~Later(x, Round(phase, n + 1))
      <4>1. x.phase \in Nat /\ x.phase <= phase
        BY <2>1, WrittenIs
      <4>2. x.round \in Nat /\ (x.phase = phase => x.round <= n)
        BY WrittenIs
      <4> QED BY <1>1, <4>1, <4>2 DEF Later, Round
    <3> QED BY <3>1 DEF NoneFrom
  <2> QED BY <1>1, <1>2, <1>3, <2>1, InTime DEF WithRound
<1>4. CASE ~AtOrBefore(h, Round(phase, n), Time)
  <2> DEFINE next == WithRound(h, leg, LatestOf(h, phase), hops)
  <2>1. /\ IsLeg(next) /\ next.at = (IF n = 1 THEN "older" ELSE "top")
        /\ next.round = Round(phase, n) /\ next.hops = hops
    <3>1. next = [leg EXCEPT !.at = IF n = 1 THEN "older" ELSE "top", !.round = Round(phase, n), !.hops = hops]
      BY <1>2, <1>4 DEF WithRound
    <3> DEFINE at == IF n = 1 THEN "older" ELSE "top"
    <3>2. PICK r : r = Round(phase, n)
      OBVIOUS
    <3>3. next = [leg EXCEPT !.at = at, !.round = r, !.hops = hops]
      BY <3>1, <3>2
    <3> HIDE DEF next, at
    <3>4. IsLeg(next) /\ next.at = at /\ next.round = r /\ next.hops = hops
      BY <3>3 DEF IsLeg
    <3> QED BY <3>2, <3>4 DEF at
  <2>2. Whole(h) => NoneFrom(h, Time, Round(phase, n))
    BY <1>1, <1>4, TooLate
  <2>3. Round(phase, n) \in RoundsOf(h)
    BY <1>1 DEF RoundsOf
  <2>4. InHand(h, Time, next)
    BY <1>2, <2>1, <2>2, <2>3 DEF InHand
  <2> HIDE DEF next
  <2>5. CASE n = 1
    BY <1>2, <2>1, <2>2, <2>4, <2>5 DEF LegKnown, next
  <2>6. CASE n # 1
    <3> HIDE DEF n
    <3>1. n > 1
      BY <1>1, <2>6
    <3>2. next.at = "top" /\ next.round.round > 1
      BY <1>2, <2>1, <2>6, <3>1
    <3> QED BY <2>1, <2>4, <3>2 DEF LegKnown, next
  <2> QED BY <2>5, <2>6
<1> QED BY <1>3, <1>4

(* The bracket becomes smaller, until it is empty.                          *)
LEMMA NarrowKnown ==
  ASSUME NEW h, IsHistory(h), NEW time \in Nat, NEW leg, IsLeg(leg), InHand(h, time, leg),
         NEW lo \in Nat \ {0}, NEW hi \in Nat, hi < leg.round.round, lo <= hi + 1,
         NEW best, IF lo = 1 THEN best = {}
                   ELSE /\ best = {Round(leg.round.phase, lo - 1)}
                        /\ AtOrBefore(h, Round(leg.round.phase, lo - 1), time),
         Whole(h) => NoneFrom(h, time, Round(leg.round.phase, hi + 1))
  PROVE  LegKnown(h, time, Narrow(leg, lo, hi, best))
<1> DEFINE phase == leg.round.phase
<1>1. /\ leg.round.round \in DOMAIN h[phase].rounds /\ phase \in DOMAIN h
      /\ leg.round = LatestOf(h, phase) /\ leg.hops = Len(h) - phase
  BY DEF InHand, RoundsOf, Round
<1>2. leg.round.round \in Nat /\ Len(h[phase].rounds) \in Nat /\ leg.round.round = Len(h[phase].rounds)
      /\ DOMAIN h[phase].rounds = 1 .. Len(h[phase].rounds)
  BY <1>1, RoundsTyped DEF LatestOf, Round
<1>3. CASE lo <= hi
  <2>1. PICK next : next = [leg EXCEPT !.at = "bisect", !.lo = lo, !.hi = hi, !.best = best]
    OBVIOUS
  <2>2. /\ IsLeg(next) /\ next.at = "bisect" /\ next.lo = lo /\ next.hi = hi /\ next.best = best
        /\ next.round = leg.round /\ next.hops = leg.hops
    BY <2>1 DEF IsLeg
  <2>3. Bracketed(h, time, next) /\ InHand(h, time, next)
    BY <1>3, <2>2 DEF Bracketed, InHand
  <2>4. LegKnown(h, time, next)
    BY <2>2, <2>3 DEF LegKnown
  <2> QED BY <1>3, <2>1, <2>4 DEF Narrow
<1>4. CASE lo = hi + 1 /\ lo # 1
  <2>1. /\ best = {Round(phase, lo - 1)} /\ AtOrBefore(h, Round(phase, lo - 1), time)
        /\ lo - 1 \in DOMAIN h[phase].rounds /\ (lo - 1) + 1 = hi + 1 /\ ~(lo <= hi)
    BY <1>2, <1>4
  <2>2. LegKnown(h, time, EndWith(leg, {Round(phase, lo - 1)}))
    BY <1>1, <2>1, InTime
  <2> QED BY <2>1, <2>2 DEF Narrow
<1>5. CASE lo = hi + 1 /\ lo = 1
  <2>1. best = {} /\ ~(lo <= hi) /\ hi + 1 = 1
    BY <1>5
  <2>2. PICK next : next = [leg EXCEPT !.at = "older", !.best = {}]
    OBVIOUS
  <2>3. IsLeg(next) /\ next.at = "older" /\ next.round = leg.round /\ next.hops = leg.hops
    BY <2>2 DEF IsLeg
  <2>4. InHand(h, time, next)
    BY <2>3 DEF InHand
  <2>5. LegKnown(h, time, next)
    BY <2>1, <2>3, <2>4 DEF LegKnown
  <2> QED BY <2>1, <2>2, <2>5 DEF Narrow
<1>6. lo <= hi \/ lo = hi + 1
  OBVIOUS
<1> QED BY <1>3, <1>4, <1>5, <1>6

(* The histories that are read are histories of feeds.                      *)
LEMMA HistoriesRead ==
  ASSUME FeedKnown
  PROVE  /\ Time \in Nat /\ DOMAIN reads = DOMAIN request[1] /\ DOMAIN request[1] # {}
         /\ \A i \in DOMAIN reads : IsHistory(HistoryOf(i)) /\ LegKnown(HistoryOf(i), Time, reads[i])
<1>1. request[1] \in Legs /\ request[2] \in Times
  BY DEF FeedKnown
<1>2. request[1] \in Seq(Feed) /\ request[1] # <<>> /\ Time \in Nat
  BY <1>1, FeedAssumption DEF Time
<1>3. DOMAIN request[1] = 1 .. Len(request[1]) /\ Len(request[1]) \in Nat /\ Len(request[1]) > 0
  BY <1>2, LenProperties, EmptySeq
<1>4. DOMAIN reads = DOMAIN request[1]
  BY DEF FeedKnown
<1>5. ASSUME NEW i \in DOMAIN reads
      PROVE  IsHistory(HistoryOf(i)) /\ LegKnown(HistoryOf(i), Time, reads[i])
  <2>1. request[1][i] \in Feed
    BY <1>2, <1>3, <1>4, ElementOfSeq
  <2>2. IsHistory(HistoryOf(i))
    BY <2>1, FeedAssumption DEF FeedKnown, HistoryOf, IsHistory
  <2> QED BY <1>4, <2>2 DEF FeedKnown
<1>6. DOMAIN request[1] # {}
  BY <1>3
<1> QED BY <1>2, <1>4, <1>5, <1>6

(* What is read next about a leg is known of it afterwards.                 *)
LEMMA LatestKnown ==
  ASSUME FeedKnown, NEW i \in DOMAIN reads
  PROVE  LET h == HistoryOf(i)
             last == LatestOf(h, Len(h))
         IN LegKnown(h, Time, IF Readable(h, last) THEN WithRound(h, reads[i], last, 0) ELSE EndWith(reads[i], {}))
<1>1. PICK h : h = HistoryOf(i)
  OBVIOUS
<1>2. /\ IsHistory(h) /\ Time \in Nat /\ IsLeg(reads[i])
  BY <1>1, HistoriesRead DEF LegKnown
<1>3. Len(h) \in DOMAIN h /\ Len(h) - Len(h) = 0 /\ Len(h) \in Nat
  <2>1. h \in Seq([rounds : Seq(Nat), known : BOOLEAN]) /\ h # <<>>
    BY <1>2 DEF IsHistory
  <2>2. Len(h) \in Nat /\ DOMAIN h = 1 .. Len(h) /\ Len(h) > 0
    BY <2>1, LenProperties, EmptySeq
  <2> QED BY <2>2
<1>4. CASE Readable(h, LatestOf(h, Len(h)))
  <2>1. \A x \in Written(h, Time) : x.phase <= Len(h)
    <3>1. ASSUME NEW x \in Written(h, Time) PROVE x.phase <= Len(h)
      <4>1. x.phase \in DOMAIN h
        BY <1>2, WrittenIs
      <4> QED BY <1>2, <4>1, RoundsTyped
    <3> QED BY <3>1
  <2>2. LegKnown(h, Time, WithRound(h, reads[i], LatestOf(h, Len(h)), 0))
    BY <1>2, <1>3, <1>4, <2>1, WithRoundKnown
  <2> QED BY <1>1, <1>4, <2>2
<1>5. CASE ~Readable(h, LatestOf(h, Len(h)))
  <2>1. ~Whole(h)
    BY <1>2, <1>3, <1>5, RoundsTyped DEF Whole, Readable, LatestOf, Round, TimeAt
  <2>2. LegKnown(h, Time, EndWith(reads[i], {}))
    BY <1>2, <2>1, NothingThere
  <2> QED BY <1>1, <1>5, <2>2
<1> QED BY <1>4, <1>5

LEMMA TopKnown ==
  ASSUME FeedKnown, NEW i \in DOMAIN reads, reads[i].at = "top"
  PROVE  LET h == HistoryOf(i)
             top == Round(reads[i].round.phase, reads[i].round.round - 1)
         IN LegKnown(h, Time, IF ~Readable(h, top) THEN EndWith(reads[i], {})
                              ELSE IF AtOrBefore(h, top, Time) THEN EndWith(reads[i], {top})
                              ELSE Narrow(reads[i], 1, top.round - 1, {}))
<1>1. PICK h, leg : h = HistoryOf(i) /\ leg = reads[i]
  OBVIOUS
<1>2. /\ IsHistory(h) /\ Time \in Nat /\ IsLeg(leg) /\ InHand(h, Time, leg) /\ leg.round.round > 1
  BY <1>1, HistoriesRead DEF LegKnown
<1>3. PICK phase, m : phase = leg.round.phase /\ m = leg.round.round
  OBVIOUS
<1>4. phase \in DOMAIN h /\ m \in DOMAIN h[phase].rounds /\ leg.round = Round(phase, m)
  BY <1>2, <1>3 DEF InHand, RoundsOf, Round
<1>5. m \in Nat /\ m - 1 \in Nat \ {0} /\ m - 1 \in DOMAIN h[phase].rounds /\ phase \in Nat /\ (m - 1) + 1 = m
  <2>1. m \in Nat /\ phase \in Nat /\ m \in 1 .. Len(h[phase].rounds) /\ Len(h[phase].rounds) \in Nat
        /\ DOMAIN h[phase].rounds = 1 .. Len(h[phase].rounds)
    BY <1>2, <1>4, RoundsTyped
  <2>2. m > 1
    BY <1>2, <1>3
  <2> QED BY <2>1, <2>2
<1>6. PICK top : top = Round(phase, m - 1)
  OBVIOUS
<1>7. top.round = m - 1 /\ top.phase = phase
  BY <1>6 DEF Round
<1>8. CASE ~Readable(h, top)
  <2>1. ~Whole(h)
    BY <1>4, <1>5, <1>7, <1>8, RoundsTyped, <1>2 DEF Whole, Readable, TimeAt
  <2>2. LegKnown(h, Time, EndWith(leg, {}))
    BY <1>2, <2>1, NothingThere
  <2> QED BY <1>1, <1>3, <1>6, <1>8, <2>2
<1>9. CASE Readable(h, top) /\ AtOrBefore(h, top, Time)
  <2>1. Whole(h) => NoneFrom(h, Time, Round(phase, (m - 1) + 1))
    BY <1>2, <1>4, <1>5 DEF InHand
  <2>2. LegKnown(h, Time, EndWith(leg, {top}))
    BY <1>2, <1>4, <1>5, <1>6, <1>9, <2>1, InTime
  <2> QED BY <1>1, <1>3, <1>6, <1>9, <2>2
<1>10. CASE Readable(h, top) /\ ~AtOrBefore(h, top, Time)
  <2>1. ASSUME Whole(h) PROVE NoneFrom(h, Time, Round(phase, m - 1))
    <3>1. ASSUME NEW x \in Written(h, Time) PROVE x.phase <= phase
      <4>1. x.phase \in Nat
        BY <1>2, WrittenIs
      <4>2. ~(x.phase > phase)
        BY <1>2, <1>4, <2>1 DEF InHand, NoneFrom, Later, Round
      <4> QED BY <1>5, <4>1, <4>2
    <3> QED BY <1>2, <1>4, <1>5, <1>6, <1>10, <2>1, <3>1, TooLate
  <2>2. (m - 1) - 1 \in Nat /\ ((m - 1) - 1) + 1 = m - 1 /\ (m - 1) - 1 < m /\ 1 <= ((m - 1) - 1) + 1
    BY <1>5
  <2>3. LegKnown(h, Time, Narrow(leg, 1, (m - 1) - 1, {}))
    BY <1>2, <1>3, <2>1, <2>2, NarrowKnown
  <2> QED BY <1>1, <1>3, <1>6, <1>7, <1>10, <2>3
<1> QED BY <1>8, <1>9, <1>10

LEMMA MiddleKnown ==
  ASSUME FeedKnown, NEW i \in DOMAIN reads, reads[i].at = "bisect"
  PROVE  LET h == HistoryOf(i)
             mid == Round(reads[i].round.phase, (reads[i].lo + reads[i].hi) \div 2)
         IN LegKnown(h, Time, IF AtOrBefore(h, mid, Time) THEN Narrow(reads[i], mid.round + 1, reads[i].hi, {mid})
                              ELSE Narrow(reads[i], reads[i].lo, mid.round - 1, reads[i].best))
<1>1. PICK h, leg : h = HistoryOf(i) /\ leg = reads[i]
  OBVIOUS
<1>2. /\ IsHistory(h) /\ Time \in Nat /\ IsLeg(leg) /\ InHand(h, Time, leg) /\ Bracketed(h, Time, leg)
  BY <1>1, HistoriesRead DEF LegKnown
<1>3. PICK phase, last, lo, hi, m : /\ phase = leg.round.phase /\ last = leg.round.round /\ lo = leg.lo /\ hi = leg.hi
                                    /\ m = (lo + hi) \div 2
  OBVIOUS
<1>4. /\ phase \in DOMAIN h /\ last \in DOMAIN h[phase].rounds /\ leg.round = Round(phase, last)
      /\ lo \in Nat \ {0} /\ hi \in Nat /\ lo <= hi /\ hi < last
  BY <1>2, <1>3 DEF InHand, RoundsOf, Round, Bracketed
<1>5. /\ last \in Nat /\ phase \in Nat /\ last \in 1 .. Len(h[phase].rounds) /\ Len(h[phase].rounds) \in Nat
      /\ DOMAIN h[phase].rounds = 1 .. Len(h[phase].rounds)
  BY <1>2, <1>4, RoundsTyped
<1>6. m \in Nat \ {0} /\ lo <= m /\ m <= hi
  BY <1>3, <1>4
<1>7. m \in DOMAIN h[phase].rounds /\ (m + 1) - 1 = m /\ (m - 1) + 1 = m /\ m - 1 \in Nat
  BY <1>4, <1>5, <1>6
<1>8. PICK mid : mid = Round(phase, m)
  OBVIOUS
<1>9. mid.round = m
  BY <1>8 DEF Round
<1>10. CASE AtOrBefore(h, mid, Time)
  <2>1. m + 1 \in Nat \ {0} /\ m + 1 # 1 /\ m + 1 <= hi + 1
    BY <1>4, <1>6
  <2>2. Whole(h) => NoneFrom(h, Time, Round(phase, hi + 1))
    BY <1>2, <1>3 DEF Bracketed
  <2>3. {mid} = {Round(phase, (m + 1) - 1)} /\ AtOrBefore(h, Round(phase, (m + 1) - 1), Time)
    BY <1>7, <1>8, <1>10
  <2>4. LegKnown(h, Time, Narrow(leg, m + 1, hi, {mid}))
    BY <1>2, <1>3, <1>4, <2>1, <2>2, <2>3, NarrowKnown
  <2> QED BY <1>1, <1>3, <1>8, <1>9, <1>10, <2>4
<1>11. CASE ~AtOrBefore(h, mid, Time)
  <2>1. ASSUME Whole(h) PROVE NoneFrom(h, Time, Round(phase, (m - 1) + 1))
    <3>1. ASSUME NEW x \in Written(h, Time) PROVE x.phase <= phase
      <4>1. x.phase \in Nat
        BY <1>2, WrittenIs
      <4>2. ~(x.phase > phase)
        BY <1>2, <1>4, <2>1 DEF InHand, NoneFrom, Later, Round
      <4> QED BY <1>5, <4>1, <4>2
    <3> QED BY <1>2, <1>4, <1>7, <1>8, <1>11, <2>1, <3>1, TooLate
  <2>2. lo <= (m - 1) + 1 /\ m - 1 < last
    BY <1>4, <1>5, <1>6
  <2>3. IF lo = 1 THEN leg.best = {}
        ELSE leg.best = {Round(phase, lo - 1)} /\ AtOrBefore(h, Round(phase, lo - 1), Time)
    BY <1>2, <1>3 DEF Bracketed
  <2>4. LegKnown(h, Time, Narrow(leg, lo, m - 1, leg.best))
    BY <1>2, <1>3, <1>4, <1>7, <2>1, <2>2, <2>3, NarrowKnown
  <2> QED BY <1>1, <1>3, <1>8, <1>9, <1>11, <2>4
<1> QED BY <1>10, <1>11

LEMMA OlderKnown ==
  ASSUME FeedKnown, NEW i \in DOMAIN reads, reads[i].at = "older"
  PROVE  LET h == HistoryOf(i)
             phase == reads[i].round.phase
         IN LegKnown(h, Time, IF reads[i].hops < MaxPhaseHops /\ HasOlderPhase(h, phase)
                              THEN WithRound(h, reads[i], LatestOf(h, phase - 1), reads[i].hops + 1)
                              ELSE EndWith(reads[i], {}))
<1>1. PICK h, leg : h = HistoryOf(i) /\ leg = reads[i]
  OBVIOUS
<1>2. /\ IsHistory(h) /\ Time \in Nat /\ IsLeg(leg) /\ InHand(h, Time, leg)
      /\ Whole(h) => NoneFrom(h, Time, Round(leg.round.phase, 1))
  BY <1>1, HistoriesRead DEF LegKnown
<1>3. PICK phase, size : phase = leg.round.phase /\ size = Len(h)
  OBVIOUS
<1>4. phase \in DOMAIN h /\ leg.hops = size - phase
  BY <1>2, <1>3 DEF InHand, RoundsOf, Round
<1>5. phase \in Nat /\ size \in Nat /\ DOMAIN h = 1 .. size
  BY <1>2, <1>3, <1>4, RoundsTyped
<1>6. ASSUME Whole(h), NEW x \in Written(h, Time) PROVE x.phase <= phase - 1 /\ x.phase \in 1 .. size
  <2>1. x.phase \in Nat /\ x.round \in Nat /\ x.phase \in DOMAIN h /\ x.round \in DOMAIN h[x.phase].rounds
    BY <1>2, WrittenIs
  <2>2. x.round >= 1
    BY <1>2, <2>1, RoundsTyped
  <2>3. ~(x.phase > phase \/ (x.phase = phase /\ x.round >= 1))
    BY <1>2, <1>3, <1>6 DEF NoneFrom, Later, Round
  <2> QED BY <1>5, <2>1, <2>2, <2>3
<1>7. CASE leg.hops < MaxPhaseHops /\ HasOlderPhase(h, phase)
  <2>1. phase - 1 \in DOMAIN h /\ leg.hops + 1 = size - (phase - 1) /\ Readable(h, LatestOf(h, phase - 1))
    BY <1>4, <1>5, <1>7 DEF HasOlderPhase
  <2>2. LegKnown(h, Time, WithRound(h, leg, LatestOf(h, phase - 1), leg.hops + 1))
    BY <1>2, <1>3, <1>6, <2>1, WithRoundKnown
  <2> QED BY <1>1, <1>3, <1>7, <2>2
<1>8. CASE ~(leg.hops < MaxPhaseHops /\ HasOlderPhase(h, phase))
  <2>1. ASSUME Whole(h) PROVE Written(h, Time) = {}
    <3>1. SUFFICES ASSUME NEW x \in Written(h, Time) PROVE FALSE
      OBVIOUS
    <3>2. phase > 1 /\ phase - 1 \in DOMAIN h
      BY <1>5, <1>4, <1>6, <2>1
    <3>3. h[phase - 1].known /\ Readable(h, LatestOf(h, phase - 1))
      BY <1>2, <2>1, <3>2, RoundsTyped DEF Whole, Readable, LatestOf, Round, TimeAt
    <3>4. leg.hops < MaxPhaseHops
      BY <1>3, <1>4, <1>5, <2>1, <3>2, FeedAssumption DEF Whole
    <3> QED BY <1>8, <3>2, <3>3, <3>4 DEF HasOlderPhase
  <2>2. LegKnown(h, Time, EndWith(leg, {}))
    BY <1>2, <2>1, NothingThere
  <2> QED BY <1>1, <1>3, <1>8, <2>2
<1> QED BY <1>7, <1>8

(* Feeds are read one step at a time, and the reply is computed from what   *)
(* was found.                                                               *)
LEMMA FeedKnownStep ==
  ASSUME FeedKnown, [FeedNext]_feedVars
  PROVE  FeedKnown'
<1>1. CASE UNCHANGED feedVars
  <2>1. \A i : HistoryOf(i)' = HistoryOf(i)
    BY <1>1 DEF feedVars, HistoryOf
  <2>2. Combined' = Combined
    <3>1. \A i : ReadFeed(i)' = ReadFeed(i)
      BY <1>1, <2>1 DEF feedVars, ReadFeed, Fresh, Time
    <3> QED BY <1>1, <3>1 DEF feedVars, Combined
  <2> QED BY <1>1, <2>1, <2>2 DEF feedVars, FeedKnown, Time
<1>2. ASSUME NEW i \in DOMAIN reads, NEW leg, reply = Unanswered, Becomes(i, leg),
             LegKnown(HistoryOf(i), Time, leg)
      PROVE  FeedKnown'
  <2>1. \A j : HistoryOf(j)' = HistoryOf(j)
    BY <1>2 DEF Becomes, HistoryOf
  <2>2. Time' = Time /\ reply' = reply /\ request' = request /\ feeds' = feeds /\ reads' = [reads EXCEPT ![i] = leg]
    BY <1>2 DEF Becomes, Time
  <2>3. reads' = [j \in DOMAIN request[1] |-> reads'[j]]
    BY <2>2 DEF FeedKnown
  <2>4. \A j \in DOMAIN request[1] : LegKnown(HistoryOf(j), Time, reads'[j])
    BY <1>2, <2>2, HistoriesRead DEF FeedKnown
  <2> QED BY <1>2, <2>1, <2>2, <2>3, <2>4 DEF FeedKnown
<1>3. ASSUME NEW i \in DOMAIN reads, ReadLatest(i) PROVE FeedKnown'
  BY <1>2, <1>3, LatestKnown DEF ReadLatest, Reads
<1>4. ASSUME NEW i \in DOMAIN reads, ReadTop(i) PROVE FeedKnown'
  BY <1>2, <1>4, TopKnown DEF ReadTop, Reads
<1>5. ASSUME NEW i \in DOMAIN reads, ReadMiddle(i) PROVE FeedKnown'
  BY <1>2, <1>5, MiddleKnown DEF ReadMiddle, Reads
<1>6. ASSUME NEW i \in DOMAIN reads, ReadOlderPhase(i) PROVE FeedKnown'
  BY <1>2, <1>6, OlderKnown DEF ReadOlderPhase, Reads
<1>7. ASSUME UNCHANGED <<feeds, request, reads>>,
             reply' = Unavailable \/ (reply' = Combined /\ \A i \in DOMAIN reads : reads[i].at = "done")
      PROVE  FeedKnown'
  <2>1. \A i : HistoryOf(i)' = HistoryOf(i)
    BY <1>7 DEF HistoryOf
  <2>2. Combined' = Combined
    <3>1. \A i : ReadFeed(i)' = ReadFeed(i)
      BY <1>7, <2>1 DEF ReadFeed, Fresh, Time
    <3> QED BY <1>7, <3>1 DEF Combined
  <2> QED BY <1>7, <2>1, <2>2, HistoriesRead DEF FeedKnown, Time
<1>8. ASSUME Answer \/ \E i \in DOMAIN reads : ReadFails(i) PROVE FeedKnown'
  BY <1>7, <1>8 DEF Answer, ReadFails
<1> QED BY <1>1, <1>3, <1>4, <1>5, <1>6, <1>8 DEF FeedNext

LEMMA FeedKnownInit == FeedInit => FeedKnown
<1> SUFFICES ASSUME FeedInit PROVE FeedKnown
  OBVIOUS
<1>1. NothingRead.at = "latest" /\ IsLeg(NothingRead)
  BY DEF NothingRead, IsLeg
<1>2. \A h : LegKnown(h, Time, NothingRead)
  BY <1>1 DEF LegKnown
<1>3. \A i \in DOMAIN request[1] : reads[i] = NothingRead
  BY DEF FeedInit
<1> QED BY <1>2, <1>3 DEF FeedInit, FeedKnown

(* A feed that was read to its end gives what it must.                      *)
LEMMA ReadWell ==
  ASSUME FeedKnown, NEW i \in DOMAIN reads, reads[i].at = "done"
  PROVE  /\ ReadFeed(i) \subseteq FreshWritten(HistoryOf(i))
         /\ Whole(HistoryOf(i)) => ReadFeed(i) = FreshCurrent(HistoryOf(i))
<1>1. PICK h : h = HistoryOf(i)
  OBVIOUS
<1>2. IsHistory(h) /\ Time \in Nat /\ EndedWell(h, Time, reads[i])
  BY <1>1, HistoriesRead DEF LegKnown
<1>3. ReadFeed(i) = {at \in {TimeAt(h, r) : r \in reads[i].best} : Fresh(at)}
  BY <1>1 DEF ReadFeed
<1>4. ReadFeed(i) \subseteq FreshWritten(h)
  BY <1>2, <1>3 DEF EndedWell, FreshWritten
<1>5. ASSUME Whole(h) PROVE ReadFeed(i) = FreshCurrent(h)
  <2>1. CASE reads[i].best = {}
    <3>1. Written(h, Time) = {}
      BY <1>2, <1>5, <2>1 DEF EndedWell
    <3>2. Current(h, Time) = {}
      BY <3>1 DEF Current
    <3> QED BY <1>3, <2>1, <3>2 DEF FreshCurrent
  <2>2. CASE reads[i].best # {}
    <3>1. PICK r : reads[i].best = {r} /\ IsCurrent(h, Time, r)
      BY <1>2, <1>5, <2>2 DEF EndedWell
    <3>2. ASSUME NEW x \in Written(h, Time), Later(x, r) PROVE x = r
      <4>1. /\ r \in Written(h, Time) /\ Later(r, x)
        BY <3>1 DEF IsCurrent
      <4>2. /\ x.phase \in Nat /\ x.round \in Nat /\ r.phase \in Nat /\ r.round \in Nat
            /\ x = Round(x.phase, x.round) /\ r = Round(r.phase, r.round)
        BY <1>2, <4>1, WrittenIs
      <4>3. x.phase = r.phase /\ x.round = r.round
        BY <3>2, <4>1, <4>2 DEF Later
      <4> QED BY <4>2, <4>3
    <3>3. {x \in Written(h, Time) : \A y \in Written(h, Time) : Later(x, y)} = {r}
      BY <3>1, <3>2 DEF IsCurrent
    <3>4. Current(h, Time) = {TimeAt(h, x) : x \in {r}}
      BY <3>3 DEF Current
    <3> QED BY <1>3, <3>1, <3>4 DEF FreshCurrent
  <2> QED BY <2>1, <2>2
<1> QED BY <1>1, <1>4, <1>5

(* What was found is what the property asks for.                            *)
LEMMA KnownIsPriced ==
  ASSUME FeedKnown
  PROVE  PricedByCurrentRounds
<1> SUFFICES ASSUME reply \notin {Unanswered, Unavailable} PROVE
      /\ reply # NoPrice => /\ \E h \in LegsRead : reply[2] \in FreshWritten(h)
                            /\ \A h \in LegsRead : \E at \in FreshWritten(h) : at >= reply[2]
      /\ (\A h \in LegsRead : Whole(h)) =>
           IF \A h \in LegsRead : FreshCurrent(h) # {}
           THEN reply = PricedAt(MinOf(UNION {FreshCurrent(h) : h \in LegsRead})) ELSE reply = NoPrice
  BY DEF PricedByCurrentRounds
<1>1. reply = Combined /\ \A i \in DOMAIN reads : reads[i].at = "done"
  BY HistoriesRead DEF FeedKnown
<1>2. \A i \in DOMAIN reads : ReadFeed(i) \subseteq FreshWritten(HistoryOf(i))
  BY <1>1, ReadWell
<1>3. ASSUME NEW i \in DOMAIN reads PROVE FreshWritten(HistoryOf(i)) \subseteq Nat
  <2>1. PICK h : h = HistoryOf(i)
    OBVIOUS
  <2>2. IsHistory(h) /\ Time \in Nat
    BY <2>1, HistoriesRead
  <2>3. \A r \in Written(h, Time) : TimeAt(h, r) \in Nat
    BY <2>2 DEF Written
  <2> QED BY <2>1, <2>3 DEF FreshWritten
<1> DEFINE times == UNION {ReadFeed(i) : i \in DOMAIN reads}
<1>4. ASSUME reply # NoPrice
      PROVE  /\ \E h \in LegsRead : reply[2] \in FreshWritten(h)
             /\ \A h \in LegsRead : \E at \in FreshWritten(h) : at >= reply[2]
  <2>1. reply = PricedAt(MinOf(times)) /\ \A i \in DOMAIN reads : ReadFeed(i) # {}
    BY <1>1, <1>4 DEF Combined
  <2>2. reply[2] = MinOf(times)
    BY <2>1 DEF PricedAt
  <2>3. times \in SUBSET Nat /\ times # {}
    <3>1. DOMAIN reads # {}
      BY HistoriesRead
    <3>2. \A i \in DOMAIN reads : ReadFeed(i) \subseteq Nat
      BY <1>2, <1>3
    <3> QED BY <2>1, <3>1, <3>2
  <2> HIDE DEF times
  <2>4. MinOf(times) \in times /\ \A at \in times : MinOf(times) <= at
    BY <2>3, LeastOf DEF MinOf
  <2>5. PICK i \in DOMAIN reads : reply[2] \in ReadFeed(i)
    BY <2>2, <2>4 DEF times
  <2>6. \E h \in LegsRead : reply[2] \in FreshWritten(h)
    BY <1>2, <2>5 DEF LegsRead
  <2>7. ASSUME NEW h \in LegsRead PROVE \E at \in FreshWritten(h) : at >= reply[2]
    <3>1. PICK j \in DOMAIN reads : h = HistoryOf(j)
      BY DEF LegsRead
    <3>2. PICK at \in ReadFeed(j) : TRUE
      BY <2>1
    <3>3. at \in times /\ at \in FreshWritten(h)
      BY <1>2, <3>1, <3>2 DEF times
    <3>4. at \in Nat /\ reply[2] \in Nat /\ reply[2] <= at
      BY <2>2, <2>3, <2>4, <3>3
    <3> QED BY <3>3, <3>4
  <2> QED BY <2>6, <2>7
<1>5. ASSUME \A h \in LegsRead : Whole(h)
      PROVE  IF \A h \in LegsRead : FreshCurrent(h) # {}
             THEN reply = PricedAt(MinOf(UNION {FreshCurrent(h) : h \in LegsRead})) ELSE reply = NoPrice
  <2>1. \A i \in DOMAIN reads : ReadFeed(i) = FreshCurrent(HistoryOf(i))
    BY <1>1, <1>5, ReadWell DEF LegsRead
  <2>2. times = UNION {FreshCurrent(h) : h \in LegsRead}
    BY <2>1 DEF LegsRead
  <2>3. (\A h \in LegsRead : FreshCurrent(h) # {}) <=> ~\E i \in DOMAIN reads : ReadFeed(i) = {}
    BY <2>1 DEF LegsRead
  <2>4. reply = IF \E i \in DOMAIN reads : ReadFeed(i) = {} THEN NoPrice ELSE PricedAt(MinOf(times))
    BY <1>1 DEF Combined
  <2> QED BY <2>2, <2>3, <2>4
<1> QED BY <1>4, <1>5

(* The round a price is made of was written by the time asked for, is not   *)
(* stale, and is the feed's current one where every round can be read:      *)
(* neither the bisection of a phase nor the walk back over the phases       *)
(* passes over it, whatever the other feed and failing reads do meanwhile.  *)
THEOREM RoundsTheorem == FeedSpec => []PricedByCurrentRounds
<1>1. FeedKnown /\ [FeedNext]_feedVars => FeedKnown'
  BY FeedKnownStep
<1>2. FeedKnown => PricedByCurrentRounds
  BY KnownIsPriced
<1> QED BY FeedKnownInit, <1>1, <1>2, PTL DEF FeedSpec
=============================================================================
