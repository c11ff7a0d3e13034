--------------------------- MODULE RequestTheorems ---------------------------
(***************************************************************************)
(* What a request can rely on below the routes, for any targets, sources,   *)
(* limits and interleavings: the registry reports what it earned, the slots *)
(* of the Curve LP guard are kept and what may be cached is settled, the    *)
(* search for blocks finds the last one of a time, and the clients respect  *)
(* the limits of their provider.                                            *)
(***************************************************************************)
EXTENDS ProviderClient, SourceRegistry, SpotPrices, BlockSearch, TLAPS, WellFoundedInduction, FiniteSetTheorems, SequenceTheorems

(* A set of natural numbers has a least member.                             *)
LEMMA LeastOf ==
  ASSUME NEW S \in SUBSET Nat, S # {}
  PROVE  \E i \in S : \A j \in S : i <= j
<1> DEFINE less == {pair \in Nat \X Nat : pair[1] < pair[2]}
<1>1. IsWellFoundedOn(less, Nat)
  BY NatLessThanWellFounded DEF OpToRel
<1> HIDE DEF less
<1>2. PICK i \in S : \A j \in S : ~(<<j, i>> \in less)
  BY <1>1, WFMin
<1>3. ASSUME NEW j \in S PROVE i <= j
  BY <1>2, <<j, i>> \in less <=> j < i DEF less
<1> QED BY <1>3

-----------------------------------------------------------------------------
(* SourceRegistry *)

(* Every request of the batch is either on its way and has answered for     *)
(* none of its targets, or has left each of them answered or failed.        *)
GroupsTraced ==
  /\ outstanding \subseteq Grouping
  /\ Covered \cap Rejected \subseteq answered
  /\ \A t \in batchErrors : t \in Covered /\ t \notin answered
  /\ \A g \in outstanding : g \cap answered = {}
  /\ stage = "idle" => batchErrors = {} /\ answered = Covered \cap Rejected
  /\ stage = "batch" =>
       /\ \A g \in outstanding : g \cap batchErrors = {}
       /\ \A t \in Covered : t \in answered \cup batchErrors \cup UNION outstanding
  /\ stage = "chain" =>
       \A t \in Covered : outcome[t] # "price" => t \in answered \cup batchErrors

(* A source the chain has passed by confirmed the absence of a price, or    *)
(* its failure is remembered.                                               *)
PassedByKnown ==
  \A t \in Target :
    /\ stage # "chain" => position[t] = 1 /\ outcome[t] \in {"none", "price"}
    /\ \A i \in Asked(t) : i < position[t] => <<Sources[i], t>> \in absent \/ t \in lastError

RegistrySound == ReportsAreEarned /\ GroupsTraced /\ PassedByKnown

(* A target that needs a request of the batch is in one.                    *)
LEMMA InSomeGroup ==
  ASSUME NEW t \in Covered, t \notin Rejected
  PROVE  \E g \in Grouping : t \in g
BY RegistryAssumption

LEMMA RegistrySoundInit ==
  ASSUME RegistryInit
  PROVE  RegistrySound
<1>1. Len(Sources) \in Nat \ {0} /\ DOMAIN Sources = 1 .. Len(Sources)
  BY RegistryAssumption
<1>2. ReportsAreEarned
  BY <1>1 DEF RegistryInit, ReportsAreEarned, RegistryTypeOK, Covered
<1>3. GroupsTraced
  BY DEF RegistryInit, GroupsTraced
<1>4. PassedByKnown
  BY <1>1 DEF RegistryInit, PassedByKnown, Asked
<1> QED BY <1>2, <1>3, <1>4 DEF RegistrySound

LEMMA StartBatchStep ==
  ASSUME RegistrySound, StartBatch
  PROVE  RegistrySound'
<1>1. ReportsAreEarned'
  BY DEF StartBatch, RegistrySound, ReportsAreEarned, RegistryTypeOK
<1>2. GroupsTraced'
  BY InSomeGroup, RegistryAssumption DEF StartBatch, RegistrySound, GroupsTraced
<1>3. PassedByKnown'
  BY DEF StartBatch, RegistrySound, PassedByKnown, Asked
<1> QED BY <1>1, <1>2, <1>3 DEF RegistrySound

LEMMA GroupAnswersStep ==
  ASSUME RegistrySound, NEW g \in Grouping, GroupAnswers(g)
  PROVE  RegistrySound'
<1>1. CASE stage # "batch"
  <2>1. UNCHANGED <<stage, outcome, settlements, answered, batchErrors, position, lastError, absent>>
          /\ outstanding' = outstanding \ {g}
    BY <1>1 DEF GroupAnswers
  <2> QED BY <1>1, <2>1 DEF RegistrySound, ReportsAreEarned, RegistryTypeOK, GroupsTraced, PassedByKnown, Asked
<1>2. CASE stage = "batch"
  <2>1. PICK M \in SUBSET g : Report(M \cap Unsettled, "price")
    BY <1>2 DEF GroupAnswers
  <2>2. /\ stage' = "batch" /\ answered' = answered \cup g /\ outstanding' = outstanding \ {g}
        /\ g \in outstanding /\ UNCHANGED <<stage, batchErrors, position, lastError, absent>>
    BY <1>2 DEF GroupAnswers
  <2>3. \A h \in Grouping : h # g => h \cap g = {}
    BY RegistryAssumption
  <2>4. g \subseteq Target /\ g \cap batchErrors = {}
    BY <1>2, <2>2, RegistryAssumption DEF Covered, RegistrySound, GroupsTraced
  <2>5. GroupsTraced'
    BY <1>2, <2>2, <2>3, <2>4 DEF RegistrySound, GroupsTraced
  <2>6. \A t \in Target :
          /\ outcome'[t] \in {"none", "price"} /\ settlements'[t] \in Nat
          /\ settlements'[t] = IF outcome'[t] = "none" THEN 0 ELSE 1
    BY <1>2, <2>1 DEF Report, Unsettled, RegistrySound, ReportsAreEarned, RegistryTypeOK, PassedByKnown
  <2>7. RegistryTypeOK'
    BY <2>1, <2>2, <2>4, <2>6 DEF Report, RegistrySound, ReportsAreEarned, RegistryTypeOK
  <2>8. PassedByKnown'
    BY <1>2, <2>2, <2>6 DEF RegistrySound, PassedByKnown, Asked
  <2> QED BY <2>5, <2>6, <2>7, <2>8 DEF RegistrySound, ReportsAreEarned
<1> QED BY <1>1, <1>2

LEMMA GroupFailsStep ==
  ASSUME RegistrySound, NEW g \in Grouping, GroupFails(g)
  PROVE  RegistrySound'
<1>1. /\ g \in outstanding /\ outstanding' = outstanding \ {g}
      /\ batchErrors' = IF stage = "batch" THEN batchErrors \cup g ELSE batchErrors
      /\ UNCHANGED <<stage, outcome, settlements, answered, position, lastError, absent>>
  BY DEF GroupFails
<1>2. /\ \A h \in Grouping : h # g => h \cap g = {}
      /\ g \subseteq Covered /\ g \subseteq Target
  BY RegistryAssumption DEF Covered
<1>3. ReportsAreEarned'
  BY <1>1, <1>2 DEF RegistrySound, ReportsAreEarned, RegistryTypeOK
<1>4. GroupsTraced'
  BY <1>1, <1>2 DEF RegistrySound, GroupsTraced
<1>5. Len(Sources) \in Nat /\ DOMAIN Sources = 1 .. Len(Sources)
  BY RegistryAssumption
<1>6. PassedByKnown'
  BY <1>1, <1>5 DEF RegistrySound, PassedByKnown, Asked
<1> QED BY <1>3, <1>4, <1>6 DEF RegistrySound

(* The batch is over: what has neither answered nor failed counts as failed. *)
LEMMA BatchOverStep ==
  ASSUME RegistrySound, BatchEnds \/ BatchTimesOut
  PROVE  RegistrySound'
<1>1. /\ stage = "batch" /\ stage' = "chain"
      /\ UNCHANGED <<outstanding, outcome, settlements, answered, position, lastError, absent>>
      /\ batchErrors \subseteq batchErrors' /\ batchErrors' \subseteq Covered
      /\ batchErrors' \cap answered = {}
  BY DEF BatchEnds, BatchTimesOut, RegistrySound, GroupsTraced
<1>2. \A t \in Covered : outcome[t] # "price" => t \in answered \cup batchErrors'
  BY <1>1 DEF BatchEnds, BatchTimesOut, RegistrySound, GroupsTraced, PassedByKnown, Unsettled, Covered
<1>3. GroupsTraced'
  BY <1>1, <1>2 DEF RegistrySound, GroupsTraced
<1>4. ReportsAreEarned'
  BY <1>1 DEF RegistrySound, ReportsAreEarned, RegistryTypeOK, Covered
<1>5. Len(Sources) \in Nat /\ DOMAIN Sources = 1 .. Len(Sources)
  BY RegistryAssumption
<1>6. PassedByKnown'
  BY <1>1, <1>5 DEF RegistrySound, PassedByKnown, Asked
<1> QED BY <1>3, <1>4, <1>6 DEF RegistrySound

(* The first source that is left has its turn: no other one is skipped.     *)
LEMMA TurnPassesBy ==
  ASSUME NEW t \in Target, position[t] \in Nat, NEW i \in Turn(t)
  PROVE  /\ i \in DOMAIN Sources /\ i + 1 \in 1 .. (Len(Sources) + 1)
         /\ \A j \in Asked(t) : j < i + 1 => j < position[t] \/ j = i
<1>1. Len(Sources) \in Nat /\ DOMAIN Sources = 1 .. Len(Sources)
  BY RegistryAssumption
<1>2. i \in Asked(t) /\ i \in DOMAIN Sources /\ \A j \in Asked(t) : j >= position[t] => i <= j
  BY DEF Turn, Asked
<1>3. Asked(t) \subseteq 1 .. Len(Sources)
  BY <1>1 DEF Asked
<1> QED BY <1>1, <1>2, <1>3

LEMMA NobodyLeft ==
  ASSUME NEW t \in Target, position[t] \in Nat, Turn(t) = {}
  PROVE  \A i \in Asked(t) : i < position[t]
<1>1. Asked(t) \subseteq Nat
  BY RegistryAssumption DEF Asked
<1> DEFINE left == {i \in Asked(t) : i >= position[t]}
<1>2. left = {}
  <2> SUFFICES ASSUME left # {} PROVE FALSE
    OBVIOUS
  <2>1. PICK i \in left : \A j \in left : i <= j
    BY <1>1, LeastOf
  <2>2. i \in Turn(t)
    BY <1>1, <2>1 DEF Turn
  <2> QED BY <2>2
<1> QED BY <1>1, <1>2

LEMMA ChainStep ==
  ASSUME RegistrySound, NEW t \in Target, Chain(t)
  PROVE  RegistrySound'
<1>1. /\ stage = "chain" /\ outcome[t] = "none"
      /\ UNCHANGED <<stage, outstanding, answered, batchErrors>>
  BY DEF Chain, InChain, SourceQuotes, SourceHasNone, SourceFails, ChainEnds
<1>2. position[t] \in Nat /\ position \in [Target -> 1..(Len(Sources) + 1)]
  BY DEF RegistrySound, ReportsAreEarned, RegistryTypeOK
<1>3. \A s \in Target : Asked(s)' = Asked(s)
  BY <1>1 DEF Asked
<1>4. GroupsTraced'
  <2>1. \A s \in Target : outcome[s] = "price" => outcome'[s] = "price"
    BY <1>1 DEF Chain, SourceQuotes, SourceHasNone, SourceFails, ChainEnds, Report
  <2> QED BY <1>1, <2>1 DEF RegistrySound, GroupsTraced, Covered
<1>5. CASE SourceHasNone(t) \/ SourceFails(t)
  <2>1. PICK i \in Turn(t) :
          /\ position' = [position EXCEPT ![t] = i + 1]
          /\ \/ absent' = absent \cup {<<Sources[i], t>>} /\ lastError' = lastError
             \/ absent' = absent /\ lastError' = lastError \cup {t}
    BY <1>5 DEF SourceHasNone, SourceFails
  <2>2. UNCHANGED <<outcome, settlements>>
    BY <1>5 DEF SourceHasNone, SourceFails
  <2>3. /\ i \in DOMAIN Sources /\ i + 1 \in 1 .. (Len(Sources) + 1)
        /\ \A j \in Asked(t) : j < i + 1 => j < position[t] \/ j = i
    BY <1>2, TurnPassesBy
  <2>4. PassedByKnown'
    BY <1>1, <1>2, <1>3, <2>1, <2>2, <2>3 DEF RegistrySound, PassedByKnown
  <2>5. RegistryTypeOK'
    BY <1>1, <1>2, <2>1, <2>2, <2>3 DEF RegistrySound, ReportsAreEarned, RegistryTypeOK
  <2>6. ReportsAreEarned'
    BY <1>1, <2>1, <2>2, <2>5 DEF RegistrySound, ReportsAreEarned
  <2> QED BY <1>4, <2>4, <2>6 DEF RegistrySound
<1>6. ASSUME NEW result \in {"price", "not-found", "error"}, Report({t}, result),
             UNCHANGED <<position, lastError, absent>>,
             result = "not-found" => /\ \A i \in DOMAIN Sources : <<Sources[i], t>> \in Supports
                                          => <<Sources[i], t>> \in absent
                                     /\ t \in Covered => t \in answered,
             result = "error" => t \in lastError \/ \E g \in Grouping : t \in g /\ t \notin answered
      PROVE  RegistrySound'
  <2>1. \A s \in Target : /\ outcome'[s] = IF s = t THEN result ELSE outcome[s]
                          /\ settlements'[s] = IF s = t THEN settlements[s] + 1 ELSE settlements[s]
    BY <1>6 DEF Report
  <2>2. RegistryTypeOK'
    BY <1>1, <1>6 DEF RegistrySound, ReportsAreEarned, RegistryTypeOK, Report
  <2>3. ReportsAreEarned'
    BY <1>1, <1>6, <2>1, <2>2 DEF RegistrySound, ReportsAreEarned
  <2>4. PassedByKnown'
    BY <1>1, <1>3, <1>6 DEF RegistrySound, PassedByKnown
  <2> QED BY <1>4, <2>3, <2>4 DEF RegistrySound
<1>7. CASE SourceQuotes(t)
  BY <1>6, <1>7 DEF SourceQuotes
<1>8. CASE ChainEnds(t)
  <2>1. \A i \in Asked(t) : i < position[t]
    BY <1>2, <1>8, NobodyLeft DEF ChainEnds
  <2>2. Report({t}, IF t \in lastError \/ t \in batchErrors THEN "error" ELSE "not-found")
          /\ UNCHANGED <<position, lastError, absent>>
    BY <1>8 DEF ChainEnds
  <2>3. CASE t \notin lastError /\ t \notin batchErrors
    <3>1. \A i \in DOMAIN Sources : <<Sources[i], t>> \in Supports => <<Sources[i], t>> \in absent
      BY <2>1, <2>3 DEF Asked, RegistrySound, PassedByKnown
    <3>2. t \in Covered => t \in answered
      BY <1>1, <2>3 DEF RegistrySound, GroupsTraced
    <3> QED BY <1>6, <2>2, <2>3, <3>1, <3>2
  <2>4. CASE t \in lastError
    BY <1>6, <2>2, <2>4
  <2>5. CASE t \in batchErrors
    <3>1. t \in Covered /\ t \notin answered /\ t \notin Rejected
      BY <2>5 DEF RegistrySound, GroupsTraced
    <3> QED BY <1>6, <2>2, <2>5, <3>1, InSomeGroup
  <2> QED BY <2>3, <2>4, <2>5
<1> QED BY <1>5, <1>7, <1>8 DEF Chain

LEMMA RegistryStep ==
  ASSUME RegistrySound, [RegistryNext]_registryVars
  PROVE  RegistrySound'
<1>1. CASE UNCHANGED registryVars
  BY <1>1 DEF registryVars, RegistrySound, ReportsAreEarned, RegistryTypeOK, GroupsTraced, PassedByKnown, Asked
<1> QED BY <1>1, StartBatchStep, GroupAnswersStep, GroupFailsStep, BatchOverStep, ChainStep DEF RegistryNext

(* A target is reported once, however late its request answers; as not      *)
(* found only if every source for its chain has said so when asked for it   *)
(* alone, and as an error only if a question about it failed                *)
(* (registries/historical.ts:85-95, 126-171).                               *)
THEOREM ReportTheorem == RegistrySpec => []ReportsAreEarned
<1>1. RegistrySound => ReportsAreEarned
  BY DEF RegistrySound
<1> QED BY <1>1, RegistrySoundInit, RegistryStep, PTL DEF RegistrySpec

-----------------------------------------------------------------------------
(* SpotPrices *)

(* Who queues for a check is at the guard; a coin is asked about at sources *)
(* of its chain, one after the other, and what is said of it for good is    *)
(* settled.                                                                 *)
CoinsKnown ==
  /\ Queued \subseteq {c \in Coin : coinAt[c] = "guard"}
  /\ \A c \in Coin :
       /\ coinAt[c] = "new" <=> guarded = Unknown
       /\ coinAt[c] = "new" => failedSources[c] = {} /\ refused[c] = {}
       /\ coinAt[c] \in {"asking", "guard"} =>
            sourceIndex[c] \in DOMAIN SpotSources /\ <<Source(sourceIndex[c]), c>> \in SpotSupports
       /\ coinAt[c] = "guard" => Source(sourceIndex[c]) \in GuardedSource
       /\ refused[c] \subseteq {Source(i) : i \in {j \in DOMAIN SpotSources : j < sourceIndex[c]}}
       /\ reply[c] \in {"none", "unavailable"} \/ (coinAt[c] = "done" /\ CoinSettled(c))
  /\ reply = [c \in Coin |-> reply[c]]
  /\ response = "cached" => \A c \in Coin : reply[c] \notin {"none", "unavailable"}

SpotSound == SlotsAreKept /\ CoinsKnown

(* The next source is behind the last one, of the coin's chain, or none.    *)
LEMMA NextSourceIs ==
  ASSUME NEW c \in Coin, NEW k \in Nat
  PROVE  /\ NextSource(c, k) \in 1 .. (Len(SpotSources) + 1)
         /\ NextSource(c, k) <= Len(SpotSources) =>
              /\ NextSource(c, k) \in DOMAIN SpotSources /\ NextSource(c, k) > k
              /\ <<Source(NextSource(c, k)), c>> \in SpotSupports
<1> DEFINE later == {i \in DOMAIN SpotSources : i > k /\ <<Source(i), c>> \in SpotSupports}
<1>1. Len(SpotSources) \in Nat /\ DOMAIN SpotSources = 1 .. Len(SpotSources)
  BY SpotAssumption
<1>2. CASE later = {}
  BY <1>1, <1>2 DEF NextSource
<1>3. CASE later # {}
  <2> later \in SUBSET Nat
    BY <1>1
  <2>1. \E i \in later : \A j \in later : i <= j
    <3> HIDE DEF later
    <3> QED BY <1>3, LeastOf
  <2>2. NextSource(c, k) = CHOOSE i \in later : \A j \in later : i <= j
    BY <1>3 DEF NextSource
  <2>3. NextSource(c, k) \in later
    BY <2>1, <2>2
  <2> QED BY <1>1, <2>3
<1> QED BY <1>2, <1>3

LEMMA SpotSoundInit ==
  ASSUME SpotInit
  PROVE  SpotSound
<1>1. Len(SpotSources) \in Nat /\ DOMAIN SpotSources = 1 .. Len(SpotSources) /\ MaxInFlight \in Nat \ {0}
  BY SpotAssumption
<1>2. Queued = {} /\ BeingChecked = {}
  BY DEF SpotInit, Queued, BeingChecked
<1>3. SpotTypeOK
  <2>1. guarded \in GuardedSets \cup {{}, Unknown} /\ gone \in BOOLEAN
    BY DEF SpotInit
  <2>2. failedSources \in [Coin -> SUBSET {Source(k) : k \in DOMAIN SpotSources}]
    BY DEF SpotInit
  <2>3. refused \in [Coin -> SUBSET GuardedSource] /\ guardQueue \in Seq(Coin)
    BY EmptySeq DEF SpotInit
  <2>4. coinAt \in [Coin -> {"new", "asking", "guard", "done"}] /\ sourceIndex \in [Coin -> 0 .. Len(SpotSources) + 1]
    BY <1>1 DEF SpotInit
  <2> QED BY <1>1, <2>1, <2>2, <2>3, <2>4 DEF SpotInit, SpotTypeOK
<1>4. SlotsAreKept
  BY <1>1, <1>2, <1>3, FS_EmptySet DEF SpotInit, SlotsAreKept
<1>5. CoinsKnown
  <2>1. reply = [c \in Coin |-> reply[c]] /\ response # "cached"
    BY DEF SpotInit
  <2>2. ASSUME NEW c \in Coin
        PROVE  /\ coinAt[c] = "new" /\ guarded = Unknown /\ reply[c] = "none"
               /\ refused[c] = {} /\ failedSources[c] = {}
    BY DEF SpotInit
  <2> QED BY <1>2, <2>1, <2>2 DEF CoinsKnown
<1> QED BY <1>4, <1>5 DEF SpotSound

(* A quote that comes to the guard takes a slot if there is one.            *)
SlotsInOrder ==
  /\ Cardinality(BeingChecked) = inFlight /\ inFlight \in 0 .. MaxInFlight
  /\ guardQueue # <<>> => inFlight = MaxInFlight
  /\ \A i, j \in DOMAIN guardQueue : guardQueue[i] = guardQueue[j] => i = j
  /\ guardQueue \in Seq(Coin) /\ Queued \subseteq {c \in Coin : coinAt[c] = "guard"}

LEMMA SlotsFromSound ==
  ASSUME SpotSound
  PROVE  SlotsInOrder /\ MaxInFlight \in Nat \ {0} /\ IsFiniteSet(BeingChecked)
<1>1. IsFiniteSet(BeingChecked)
  BY SpotAssumption, FS_Subset DEF BeingChecked
<1> QED BY <1>1, SpotAssumption DEF SpotSound, SlotsInOrder, SlotsAreKept, SpotTypeOK, CoinsKnown

LEMMA EnterKeepsSlots ==
  ASSUME SpotSound, NEW c \in Coin, coinAt[c] = "asking", Enter(c)
  PROVE  SlotsInOrder'
<1>1. SlotsInOrder /\ MaxInFlight \in Nat \ {0} /\ IsFiniteSet(BeingChecked)
  BY SlotsFromSound
<1>2. /\ c \notin Queued /\ c \notin BeingChecked
      /\ \A d \in Coin : coinAt'[d] = "guard" <=> d = c \/ coinAt[d] = "guard"
  BY <1>1 DEF Enter, SpotSound, SlotsAreKept, SpotTypeOK, SlotsInOrder, BeingChecked
<1>3. CASE inFlight >= MaxInFlight
  <2>1. guardQueue' = Append(guardQueue, c) /\ inFlight' = inFlight /\ guardQueue \in Seq(Coin)
    BY <1>1, <1>3 DEF Enter, SlotsInOrder
  <2>2. /\ guardQueue' \in Seq(Coin) /\ Len(guardQueue') = Len(guardQueue) + 1
        /\ \A i \in 1 .. Len(guardQueue) : guardQueue'[i] = guardQueue[i]
        /\ guardQueue'[Len(guardQueue) + 1] = c
        /\ Len(guardQueue) \in Nat /\ DOMAIN guardQueue = 1 .. Len(guardQueue)
        /\ DOMAIN guardQueue' = 1 .. (Len(guardQueue) + 1)
    BY <2>1, AppendProperties, LenProperties
  <2>3. Queued' = Queued \cup {c}
    BY <2>2 DEF Queued
  <2>4. BeingChecked' = BeingChecked
    BY <1>2, <2>3 DEF BeingChecked
  <2>5. \A i, j \in DOMAIN guardQueue' : guardQueue'[i] = guardQueue'[j] => i = j
    BY <1>1, <1>2, <2>2 DEF SlotsInOrder, Queued
  <2> QED BY <1>1, <1>2, <1>3, <2>1, <2>2, <2>3, <2>4, <2>5 DEF SlotsInOrder
<1>4. CASE inFlight < MaxInFlight
  <2>1. guardQueue' = guardQueue /\ inFlight' = inFlight + 1 /\ guardQueue = <<>>
    BY <1>1, <1>4 DEF Enter, SlotsInOrder
  <2>2. BeingChecked' = BeingChecked \cup {c} /\ Queued' = Queued
    BY <1>2, <2>1 DEF BeingChecked, Queued
  <2>3. Cardinality(BeingChecked') = inFlight + 1
    BY <1>1, <1>2, <2>2, FS_AddElement DEF SlotsInOrder
  <2> QED BY <1>1, <1>2, <1>4, <2>1, <2>2, <2>3 DEF SlotsInOrder
<1> QED BY <1>1, <1>3, <1>4 DEF SlotsInOrder

(* A check that ends hands its slot on, or frees it when nobody queues.     *)
LEMMA ReleaseKeepsSlots ==
  ASSUME SpotSound, NEW c \in BeingChecked, Release,
         \A d \in Coin : coinAt'[d] = "guard" <=> d # c /\ coinAt[d] = "guard"
  PROVE  SlotsInOrder'
<1>1. SlotsInOrder /\ MaxInFlight \in Nat \ {0} /\ IsFiniteSet(BeingChecked) /\ c \in Coin /\ c \notin Queued
  BY SlotsFromSound DEF BeingChecked
<1>2. CASE guardQueue = <<>>
  <2>1. guardQueue' = guardQueue /\ inFlight' = inFlight - 1 /\ Queued = {} /\ Queued' = {}
    BY <1>2 DEF Release, Queued
  <2>2. BeingChecked' = BeingChecked \ {c}
    BY <1>1, <2>1 DEF BeingChecked
  <2>3. Cardinality(BeingChecked') = inFlight - 1 /\ inFlight - 1 \in Nat
    <3>1. /\ IsFiniteSet(BeingChecked \ {c})
          /\ Cardinality(BeingChecked \ {c}) = Cardinality(BeingChecked) - 1
      BY <1>1, FS_RemoveElement
    <3>2. Cardinality(BeingChecked \ {c}) \in Nat
      BY <3>1, FS_CardinalityType
    <3> QED BY <1>1, <2>2, <3>1, <3>2 DEF SlotsInOrder
  <2> QED BY <1>1, <1>2, <2>1, <2>2, <2>3 DEF SlotsInOrder
<1>3. CASE guardQueue # <<>>
  <2>1. guardQueue' = Tail(guardQueue) /\ inFlight' = inFlight /\ guardQueue \in Seq(Coin)
    BY <1>1, <1>3 DEF Release, SlotsInOrder
  <2> DEFINE first == guardQueue[1]
  <2>2. /\ guardQueue' \in Seq(Coin) /\ Len(guardQueue) \in Nat \ {0} /\ Len(guardQueue') = Len(guardQueue) - 1
        /\ \A i \in 1 .. (Len(guardQueue) - 1) : guardQueue'[i] = guardQueue[i + 1]
        /\ DOMAIN guardQueue = 1 .. Len(guardQueue) /\ DOMAIN guardQueue' = 1 .. (Len(guardQueue) - 1)
    BY <1>3, <2>1, HeadTailProperties, LenProperties, EmptySeq
  <2>3. first \in Queued /\ first \in Coin /\ first # c
    BY <1>1, <2>2 DEF Queued, SlotsInOrder
  <2>4. Queued' = Queued \ {first}
    <3>1. Queued' \subseteq Queued \ {first}
      BY <1>1, <2>2 DEF Queued, SlotsInOrder
    <3>2. ASSUME NEW i \in DOMAIN guardQueue, guardQueue[i] # first
          PROVE  guardQueue[i] \in Queued'
      <4>1. i - 1 \in 1 .. (Len(guardQueue) - 1) /\ guardQueue'[i - 1] = guardQueue[i]
        BY <2>2, <3>2
      <4> QED BY <2>2, <4>1 DEF Queued
    <3> QED BY <3>1, <3>2 DEF Queued
  <2>5. BeingChecked' = (BeingChecked \ {c}) \cup {first} /\ first \notin BeingChecked
    BY <1>1, <2>3, <2>4 DEF BeingChecked, SlotsInOrder
  <2>6. Cardinality(BeingChecked') = inFlight
    <3>1. /\ IsFiniteSet(BeingChecked \ {c})
          /\ Cardinality(BeingChecked \ {c}) = Cardinality(BeingChecked) - 1
      BY <1>1, FS_RemoveElement
    <3>2. Cardinality((BeingChecked \ {c}) \cup {first}) = Cardinality(BeingChecked \ {c}) + 1
      BY <2>5, <3>1, FS_AddElement
    <3> QED BY <1>1, <2>5, <3>1, <3>2 DEF SlotsInOrder
  <2>7. ASSUME NEW i \in DOMAIN guardQueue', NEW j \in DOMAIN guardQueue', guardQueue'[i] = guardQueue'[j]
        PROVE  i = j
    <3>1. /\ i + 1 \in DOMAIN guardQueue /\ j + 1 \in DOMAIN guardQueue
          /\ guardQueue[i + 1] = guardQueue[j + 1] /\ i \in Nat /\ j \in Nat
      BY <2>2, <2>7
    <3>2. i + 1 = j + 1
      BY <1>1, <3>1 DEF SlotsInOrder
    <3> QED BY <3>1, <3>2
  <2> QED BY <1>1, <1>3, <2>1, <2>2, <2>3, <2>4, <2>6, <2>7 DEF SlotsInOrder
<1> QED BY <1>2, <1>3

(* Coins and slots are kept together when every coin is.                    *)
LEMMA SpotParts ==
  ASSUME SpotTypeOK', SlotsInOrder', CoinsKnown'
  PROVE  SpotSound'
BY DEF SpotSound, SlotsAreKept, SlotsInOrder, SpotTypeOK

(* A coin moves on behind the source it was at.                             *)
LEMMA MoveOnKeeps ==
  ASSUME SpotSound, NEW c \in Coin, coinAt[c] \in {"asking", "guard"}, NEW failures, MoveOn(c, failures),
         failures \in SUBSET {Source(k) : k \in DOMAIN SpotSources}, failedSources[c] \subseteq failures,
         refused' \in [Coin -> SUBSET GuardedSource],
         refused'[c] \subseteq refused[c] \cup {Source(sourceIndex[c])},
         \A d \in Coin \ {c} : refused'[d] = refused[d],
         UNCHANGED <<guarded, gone, response>>,
         SlotsInOrder'
  PROVE  SpotSound'
<1> DEFINE k == NextSource(c, sourceIndex[c])
<1>1. /\ Len(SpotSources) \in Nat /\ DOMAIN SpotSources = 1 .. Len(SpotSources)
      /\ sourceIndex[c] \in DOMAIN SpotSources
  <2>1. Len(SpotSources) \in Nat /\ DOMAIN SpotSources = 1 .. Len(SpotSources)
    BY SpotAssumption
  <2> QED BY <2>1 DEF SpotSound, CoinsKnown
<1>2. /\ k \in 1 .. (Len(SpotSources) + 1)
      /\ k <= Len(SpotSources) => k > sourceIndex[c] /\ <<Source(k), c>> \in SpotSupports
  BY <1>1, NextSourceIs
<1> HIDE DEF k
<1>3. /\ sourceIndex' = [sourceIndex EXCEPT ![c] = k]
      /\ failedSources' = [failedSources EXCEPT ![c] = failures]
      /\ coinAt' = [coinAt EXCEPT ![c] = IF k <= Len(SpotSources) THEN "asking" ELSE "done"]
      /\ IF k <= Len(SpotSources) THEN reply' = reply
         ELSE Reply(c, IF failures = {} THEN "notFound" ELSE "unavailable")
  BY DEF MoveOn, k
<1>4. /\ coinAt'[c] = IF k <= Len(SpotSources) THEN "asking" ELSE "done"
      /\ sourceIndex'[c] = k /\ failedSources'[c] = failures
      /\ \A d \in Coin \ {c} : /\ coinAt'[d] = coinAt[d] /\ sourceIndex'[d] = sourceIndex[d]
                              /\ failedSources'[d] = failedSources[d] /\ reply'[d] = reply[d]
  BY <1>3 DEF Reply, SpotSound, SlotsAreKept, SpotTypeOK, CoinsKnown
<1>5. SpotTypeOK'
  BY <1>1, <1>2, <1>3 DEF SpotSound, SlotsAreKept, SpotTypeOK, SlotsInOrder
<1>6. reply[c] \in {"none", "unavailable"}
  BY DEF SpotSound, CoinsKnown
<1>7. /\ \/ reply'[c] \in {"none", "unavailable"}
         \/ k > Len(SpotSources) /\ failures = {} /\ reply'[c] = "notFound"
      /\ reply' = [d \in Coin |-> reply'[d]]
      /\ response = "cached" => reply'[c] \notin {"none", "unavailable"}
  <2>1. reply = [d \in Coin |-> reply[d]] /\ (response = "cached" => reply[c] \notin {"none", "unavailable"})
    BY DEF SpotSound, CoinsKnown
  <2>2. CASE k <= Len(SpotSources)
    BY <1>3, <1>6, <2>1, <2>2
  <2>3. CASE ~(k <= Len(SpotSources))
    <3> DEFINE answer == IF failures = {} THEN "notFound" ELSE "unavailable"
    <3>1. reply' = [reply EXCEPT ![c] = IF reply[c] = "none" THEN answer ELSE reply[c]]
      BY <1>3, <2>3 DEF Reply
    <3>2. reply'[c] = (IF reply[c] = "none" THEN answer ELSE reply[c]) /\ reply' = [d \in Coin |-> reply'[d]]
      BY <2>1, <3>1
    <3> QED BY <1>1, <1>2, <1>6, <2>1, <2>3, <3>2
  <2> QED BY <2>2, <2>3
<1>8. reply'[c] \in {"none", "unavailable"} \/ (coinAt'[c] = "done" /\ CoinSettled(c)')
  BY <1>1, <1>2, <1>4, <1>7 DEF CoinSettled
<1>9. refused'[c] \subseteq {Source(i) : i \in {j \in DOMAIN SpotSources : j < sourceIndex'[c]}}
  <2>1. refused[c] \subseteq {Source(i) : i \in {j \in DOMAIN SpotSources : j < sourceIndex[c]}}
    BY DEF SpotSound, CoinsKnown
  <2>2. sourceIndex[c] < k /\ \A j \in DOMAIN SpotSources : j < sourceIndex[c] => j < k
    BY <1>1, <1>2
  <2> QED BY <1>1, <1>4, <2>1, <2>2
<1>10. \A d \in Coin \ {c} : CoinSettled(d) => CoinSettled(d)'
  BY <1>4 DEF CoinSettled
<1>11. CoinsKnown'
  <2>1. \A d \in Coin : /\ coinAt'[d] = "new" <=> guarded' = Unknown
                        /\ coinAt'[d] = "new" => failedSources'[d] = {} /\ refused'[d] = {}
    BY <1>4 DEF SpotSound, CoinsKnown
  <2>2. \A d \in Coin : coinAt'[d] \in {"asking", "guard"} =>
          sourceIndex'[d] \in DOMAIN SpotSources /\ <<Source(sourceIndex'[d]), d>> \in SpotSupports
    BY <1>1, <1>2, <1>4 DEF SpotSound, CoinsKnown
  <2>3. \A d \in Coin : coinAt'[d] = "guard" => Source(sourceIndex'[d]) \in GuardedSource
    BY <1>4 DEF SpotSound, CoinsKnown
  <2>4. \A d \in Coin \ {c} : refused'[d] \subseteq {Source(i) : i \in {j \in DOMAIN SpotSources : j < sourceIndex'[d]}}
    BY <1>4 DEF SpotSound, CoinsKnown
  <2>5. \A d \in Coin \ {c} : reply'[d] \in {"none", "unavailable"} \/ (coinAt'[d] = "done" /\ CoinSettled(d)')
    BY <1>4, <1>10 DEF SpotSound, CoinsKnown
  <2>6. response' = "cached" => \A d \in Coin : reply'[d] \notin {"none", "unavailable"}
    BY <1>4, <1>7 DEF SpotSound, CoinsKnown
  <2> HIDE DEF Source
  <2> QED BY <1>7, <1>8, <1>9, <2>1, <2>2, <2>3, <2>4, <2>5, <2>6 DEF CoinsKnown, SlotsInOrder, Source
<1> QED BY <1>5, <1>11, SpotParts

(* An accepted quote settles the coin: the guard has not refused it.        *)
LEMMA AcceptKeeps ==
  ASSUME SpotSound, NEW c \in Coin, coinAt[c] \in {"asking", "guard"}, Accept(c),
         UNCHANGED <<guarded, gone, response>>,
         SlotsInOrder'
  PROVE  SpotSound'
<1>1. /\ Len(SpotSources) \in Nat /\ DOMAIN SpotSources = 1 .. Len(SpotSources)
      /\ sourceIndex[c] \in DOMAIN SpotSources /\ <<Source(sourceIndex[c]), c>> \in SpotSupports
  BY SpotAssumption DEF SpotSound, CoinsKnown
<1>2. Source(sourceIndex[c]) \notin refused[c]
  BY <1>1, SpotAssumption DEF SpotSound, CoinsKnown, Source
<1>3. /\ coinAt'[c] = "done"
      /\ \A d \in Coin \ {c} : coinAt'[d] = coinAt[d] /\ reply'[d] = reply[d]
      /\ reply'[c] = IF reply[c] = "none" THEN Source(sourceIndex[c]) ELSE reply[c]
      /\ reply' = [d \in Coin |-> reply'[d]]
      /\ UNCHANGED <<sourceIndex, failedSources, refused>>
  BY DEF Accept, Reply, SpotSound, SlotsAreKept, SpotTypeOK, CoinsKnown
<1>4. SpotTypeOK'
  BY <1>3 DEF Accept, SpotSound, SlotsAreKept, SpotTypeOK, SlotsInOrder
<1>5. reply[c] \in {"none", "unavailable"}
  BY DEF SpotSound, CoinsKnown
<1>6. reply'[c] = "unavailable" \/ CoinSettled(c)'
  BY <1>1, <1>2, <1>3, <1>5 DEF CoinSettled
<1>7. \A d \in Coin \ {c} : CoinSettled(d) => CoinSettled(d)'
  BY <1>3 DEF CoinSettled
<1>8. CoinsKnown'
  BY <1>3, <1>5, <1>6, <1>7 DEF SpotSound, CoinsKnown, SlotsInOrder, Source
<1> QED BY <1>4, <1>8, SpotParts

(* A coin that moves on or is settled is not at the guard any more.         *)
LEMMA CoinLeaves ==
  ASSUME SpotSound, NEW c \in Coin, NEW failures, MoveOn(c, failures) \/ Accept(c)
  PROVE  \A d \in Coin : coinAt'[d] = "guard" <=> d # c /\ coinAt[d] = "guard"
<1>1. PICK at \in {"asking", "done"} : coinAt' = [coinAt EXCEPT ![c] = at]
  BY DEF MoveOn, Accept
<1> QED BY <1>1 DEF SpotSound, SlotsAreKept, SpotTypeOK

LEMMA SlotsUntouched ==
  ASSUME SpotSound, UNCHANGED <<inFlight, guardQueue>>,
         \A d \in Coin : coinAt'[d] = "guard" <=> coinAt[d] = "guard"
  PROVE  SlotsInOrder'
<1>1. Queued' = Queued
  BY DEF Queued
<1>2. BeingChecked' = BeingChecked
  BY <1>1 DEF BeingChecked
<1> QED BY <1>1, <1>2, SlotsFromSound DEF SlotsInOrder

LEMMA AskingStep ==
  ASSUME SpotSound, NEW c \in Coin, NoQuote(c) \/ SpotSourceFails(c) \/ Quote(c)
  PROVE  SpotSound'
<1>1. coinAt[c] = "asking" /\ UNCHANGED <<guarded, gone, response>>
  BY DEF NoQuote, SpotSourceFails, Quote
<1>2. /\ refused \in [Coin -> SUBSET GuardedSource]
      /\ failedSources[c] \in SUBSET {Source(k) : k \in DOMAIN SpotSources}
      /\ Source(sourceIndex[c]) \in {Source(k) : k \in DOMAIN SpotSources}
  BY <1>1 DEF SpotSound, CoinsKnown, SlotsAreKept, SpotTypeOK
<1>3. CASE NoQuote(c) \/ SpotSourceFails(c)
  <2>1. PICK failures \in SUBSET {Source(k) : k \in DOMAIN SpotSources} :
          MoveOn(c, failures) /\ failedSources[c] \subseteq failures
    BY <1>2, <1>3 DEF NoQuote, SpotSourceFails
  <2>2. UNCHANGED <<refused, inFlight, guardQueue>>
    BY <1>3 DEF NoQuote, SpotSourceFails
  <2>3. SlotsInOrder'
    BY <1>1, <2>1, <2>2, CoinLeaves, SlotsUntouched
  <2> QED BY <1>1, <1>2, <2>1, <2>2, <2>3, MoveOnKeeps
<1>4. CASE Quote(c) /\ Checked(c)
  <2>1. Enter(c) /\ Source(sourceIndex[c]) \in GuardedSource
    BY <1>4 DEF Quote, Checked
  <2>2. SlotsInOrder'
    BY <1>1, <2>1, EnterKeepsSlots
  <2>3. /\ coinAt' = [coinAt EXCEPT ![c] = "guard"]
        /\ UNCHANGED <<sourceIndex, failedSources, refused, reply>>
    BY <2>1 DEF Enter
  <2>4. SpotTypeOK'
    BY <1>1, <2>2, <2>3 DEF SpotSound, SlotsAreKept, SpotTypeOK, SlotsInOrder
  <2>5. /\ coinAt'[c] = "guard" /\ \A d \in Coin \ {c} : coinAt'[d] = coinAt[d]
        /\ \A d \in Coin \ {c} : CoinSettled(d) => CoinSettled(d)'
    BY <2>3 DEF SpotSound, SlotsAreKept, SpotTypeOK, CoinSettled
  <2>6. CoinsKnown'
    BY <1>1, <2>1, <2>2, <2>3, <2>5 DEF SpotSound, CoinsKnown, SlotsInOrder, Source
  <2> QED BY <2>2, <2>4, <2>6, SpotParts
<1>5. CASE Quote(c) /\ ~Checked(c)
  <2>1. Accept(c) /\ UNCHANGED <<inFlight, guardQueue>>
    BY <1>5 DEF Quote
  <2>2. SlotsInOrder'
    BY <1>1, <2>1, CoinLeaves, SlotsUntouched
  <2> QED BY <1>1, <2>1, <2>2, AcceptKeeps
<1> QED BY <1>3, <1>4, <1>5

LEMMA CheckedStep ==
  ASSUME SpotSound, NEW c \in Coin, Plausible(c) \/ Implausible(c)
  PROVE  SpotSound'
<1>1. c \in BeingChecked /\ coinAt[c] = "guard" /\ Release /\ UNCHANGED <<guarded, gone, response>>
  BY DEF Plausible, Implausible, BeingChecked
<1>2. CASE Plausible(c)
  <2>1. Accept(c)
    BY <1>2 DEF Plausible
  <2>2. SlotsInOrder'
    BY <1>1, <2>1, CoinLeaves, ReleaseKeepsSlots
  <2> QED BY <1>1, <2>1, <2>2, AcceptKeeps
<1>3. CASE Implausible(c)
  <2>1. MoveOn(c, failedSources[c]) /\ refused' = [refused EXCEPT ![c] = @ \cup {Source(sourceIndex[c])}]
    BY <1>3 DEF Implausible
  <2>2. SlotsInOrder'
    BY <1>1, <2>1, CoinLeaves, ReleaseKeepsSlots
  <2>3. /\ refused \in [Coin -> SUBSET GuardedSource]
        /\ failedSources[c] \in SUBSET {Source(k) : k \in DOMAIN SpotSources}
        /\ Source(sourceIndex[c]) \in GuardedSource
    BY <1>1 DEF SpotSound, CoinsKnown, SlotsAreKept, SpotTypeOK
  <2>4. /\ refused' \in [Coin -> SUBSET GuardedSource]
        /\ refused'[c] \subseteq refused[c] \cup {Source(sourceIndex[c])}
        /\ \A d \in Coin \ {c} : refused'[d] = refused[d]
    BY <2>1, <2>3
  <2> QED BY <1>1, <2>1, <2>2, <2>3, <2>4, MoveOnKeeps
<1> QED BY <1>2, <1>3

(* All coins set out, written down, unsupported, given up or asking.        *)
LEMMA StartSpotStep ==
  ASSUME SpotSound, StartSpot
  PROVE  SpotSound'
<1>1. /\ Len(SpotSources) \in Nat /\ DOMAIN SpotSources = 1 .. Len(SpotSources)
      /\ GuardedSets \subseteq SUBSET Coin /\ "unknown" \notin Coin
  BY SpotAssumption
<1>2. /\ guarded = Unknown /\ response # "idle"
      /\ guarded' \in GuardedSets \cup {{}}
      /\ sourceIndex' = [c \in Coin |-> NextSource(c, 0)]
      /\ UNCHANGED <<gone, failedSources, refused, inFlight, guardQueue, response>>
  BY DEF StartSpot
<1>3. guarded' # Unknown
  BY <1>1, <1>2 DEF Unknown
<1> DEFINE Answer(c) == IF c \in WrittenDown THEN "write-down"
                        ELSE IF gone THEN "unavailable"
                        ELSE IF sourceIndex'[c] > Len(SpotSources) THEN "notFound" ELSE "none"
<1>4. /\ reply' = [c \in Coin |-> Answer(c)]
      /\ coinAt' = [c \in Coin |-> IF Answer(c) = "none" THEN "asking" ELSE "done"]
  BY DEF StartSpot
<1>5. ASSUME NEW c \in Coin
      PROVE  /\ coinAt[c] = "new" /\ reply[c] \in {"none", "unavailable"} /\ failedSources[c] = {}
             /\ sourceIndex'[c] \in 1 .. (Len(SpotSources) + 1)
             /\ sourceIndex'[c] <= Len(SpotSources) => <<Source(sourceIndex'[c]), c>> \in SpotSupports
             /\ refused[c] = {}
  <2>1. coinAt[c] = "new" /\ reply[c] \in {"none", "unavailable"}
    BY <1>2 DEF SpotSound, CoinsKnown
  <2>2. sourceIndex'[c] = NextSource(c, 0)
    BY <1>2
  <2>3. refused[c] = {} /\ failedSources[c] = {}
    BY <1>2 DEF SpotSound, CoinsKnown
  <2> QED BY <2>1, <2>2, <2>3, NextSourceIs
<1>6. \A d \in Coin : coinAt'[d] # "guard" /\ coinAt[d] # "guard"
  BY <1>4, <1>5
<1>7. SlotsInOrder'
  BY <1>2, <1>6, SlotsUntouched
<1>8. SpotTypeOK'
  <2>1. coinAt' \in [Coin -> {"new", "asking", "guard", "done"}]
    BY <1>4
  <2>2. sourceIndex' \in [Coin -> 0 .. Len(SpotSources) + 1]
    <3>1. Len(SpotSources) \in Nat
      BY <1>1
    <3>3. ASSUME NEW n \in Nat, NEW k \in 1 .. (n + 1) PROVE k \in 0 .. (n + 1)
      OBVIOUS
    <3>4. ASSUME NEW c \in Coin PROVE sourceIndex'[c] \in 0 .. (Len(SpotSources) + 1)
      BY <1>5, <3>1, <3>3
    <3>2. sourceIndex' = [c \in Coin |-> sourceIndex'[c]]
      BY <1>2
    <3> QED BY <3>4, <3>2
  <2>3. guarded' \in GuardedSets \cup {{}, Unknown}
    BY <1>2
  <2>4. inFlight' \in 0..MaxInFlight /\ guardQueue' \in Seq(Coin)
    BY <1>2 DEF SpotSound, SlotsAreKept, SpotTypeOK
  <2>5. /\ gone' \in BOOLEAN /\ response' \in {"idle", "none", "cached", "no-store"}
        /\ failedSources' \in [Coin -> SUBSET {Source(k) : k \in DOMAIN SpotSources}]
        /\ refused' \in [Coin -> SUBSET GuardedSource]
    BY <1>2 DEF SpotSound, SlotsAreKept, SpotTypeOK
  <2> QED BY <2>1, <2>2, <2>3, <2>4, <2>5 DEF SpotTypeOK
<1>9. ASSUME NEW c \in Coin
      PROVE  /\ coinAt'[c] # "new" /\ refused'[c] = {}
             /\ coinAt'[c] = "asking" =>
                  sourceIndex'[c] \in DOMAIN SpotSources /\ <<Source(sourceIndex'[c]), c>> \in SpotSupports
             /\ reply'[c] \in {"none", "unavailable"} \/ (coinAt'[c] = "done" /\ CoinSettled(c)')
             /\ response = "cached" => reply'[c] \notin {"none", "unavailable"}
  <2>1. Answer(c) \in {"write-down", "unavailable", "notFound", "none"}
    OBVIOUS
  <2>6. Answer(c) = "none" => sourceIndex'[c] <= Len(SpotSources)
    <3>1. Answer(c) = "none" => ~(sourceIndex'[c] > Len(SpotSources))
      OBVIOUS
    <3> HIDE DEF Answer
    <3>2. \A n \in Nat : \A k \in 1 .. (n + 1) : k > n \/ k <= n
      OBVIOUS
    <3>3. Len(SpotSources) \in Nat /\ sourceIndex'[c] \in 1 .. (Len(SpotSources) + 1)
      BY <1>1, <1>5
    <3> QED BY <3>1, <3>2, <3>3
  <2>2. Answer(c) = "write-down" => c \in WrittenDown
    OBVIOUS
  <2>3. Answer(c) = "notFound" => sourceIndex'[c] > Len(SpotSources)
    OBVIOUS
  <2> HIDE DEF Answer
  <2>4. reply'[c] = Answer(c) /\ coinAt'[c] = IF Answer(c) = "none" THEN "asking" ELSE "done"
    BY <1>4
  <2>5. response # "cached"
    BY <1>5 DEF SpotSound, CoinsKnown
  <2> QED BY <1>1, <1>2, <1>5, <2>1, <2>2, <2>3, <2>4, <2>5, <2>6 DEF CoinSettled
<1>10. CoinsKnown'
  <2>1. reply' = [c \in Coin |-> reply'[c]]
    BY <1>4
  <2> HIDE DEF Answer
  <2> QED BY <1>2, <1>3, <1>6, <1>7, <1>9, <2>1 DEF CoinsKnown, SlotsInOrder, Source
<1> QED BY <1>7, <1>8, <1>10, SpotParts

LEMMA SpotStep ==
  ASSUME SpotSound, [SpotNext]_spotVars
  PROVE  SpotSound'
<1>1. ASSUME UNCHANGED <<guarded, gone, inFlight, guardQueue, coinVars>>,
             response' \in {"none", "cached", "no-store"} \/ response' = response,
             response' = "cached" => response = "cached" \/ \A c \in Coin : reply[c] \notin {"none", "unavailable"}
      PROVE  SpotSound'
  <2>1. /\ Queued' = Queued /\ BeingChecked' = BeingChecked
        /\ \A c \in Coin : CoinSettled(c)' = CoinSettled(c)
    BY <1>1 DEF coinVars, Queued, BeingChecked, CoinSettled
  <2>2. SlotsAreKept'
    BY <1>1, <2>1 DEF coinVars, SpotSound, SlotsAreKept, SpotTypeOK
  <2>3. CoinsKnown'
    BY <1>1, <2>1 DEF coinVars, SpotSound, CoinsKnown
  <2> QED BY <2>2, <2>3 DEF SpotSound
<1>2. CASE UNCHANGED spotVars
  BY <1>1, <1>2 DEF spotVars, coinVars
<1>3. CASE Arrive
  BY <1>1, <1>3 DEF Arrive
<1>4. CASE Respond
  BY <1>1, <1>4 DEF Respond
<1>5. CASE Deadline
  <2>1. /\ UNCHANGED <<guarded, coinAt, sourceIndex, failedSources, refused, inFlight, guardQueue, response>>
        /\ response = "none" /\ gone' = TRUE
        /\ reply' = [c \in Coin |-> IF guarded # Unknown /\ reply[c] = "none" THEN "unavailable" ELSE reply[c]]
    BY <1>5 DEF Deadline
  <2>2. Queued' = Queued /\ BeingChecked' = BeingChecked
    BY <2>1 DEF Queued, BeingChecked
  <2>3. SlotsAreKept'
    BY <2>1, <2>2 DEF SpotSound, SlotsAreKept, SpotTypeOK
  <2>4. \A c \in Coin : reply'[c] = reply[c] \/ reply'[c] = "unavailable"
    BY <2>1
  <2>5. \A c \in Coin : reply'[c] = reply[c] => CoinSettled(c)' = CoinSettled(c)
    BY <2>1 DEF CoinSettled
  <2>6. CoinsKnown'
    BY <2>1, <2>2, <2>4, <2>5 DEF SpotSound, CoinsKnown
  <2> QED BY <2>3, <2>6 DEF SpotSound
<1> QED BY <1>2, <1>3, <1>4, <1>5, StartSpotStep, AskingStep, CheckedStep DEF SpotNext, CoinStep

LEMMA SpotInvariant == SpotSpec => []SpotSound
BY SpotSoundInit, SpotStep, PTL DEF SpotSpec

(* No slot of the guard is lost and none is given twice, for any number of  *)
(* coins and slots and however checks end (sources/defillama/lp-guard.ts).  *)
THEOREM SlotTheorem == SpotSpec => []SlotsAreKept
<1>1. SpotSound => SlotsAreKept
  BY DEF SpotSound
<1> QED BY <1>1, SpotInvariant, PTL

(* A spot answer that may be cached is settled for every coin: priced by a  *)
(* source whose quote the guard let pass, written down, or denied by every  *)
(* source of its chain without a failure (routes/spot.ts, registries/spot.ts). *)
THEOREM CacheTheorem == SpotSpec => []CachedIsSettled
<1>1. SpotSound => CachedIsSettled
  BY DEF SpotSound, CoinsKnown, CachedIsSettled
<1> QED BY <1>1, SpotInvariant, PTL

-----------------------------------------------------------------------------
(* BlockSearch *)

SearchRecord ==
  [at : {"none", "latest", "probe", "answered", "missing", "failed"}, low : Nat, high : Int, best : Nat,
   lowTime : Nat, highTime : Nat, probes : Nat, missing : BOOLEAN, latest : Nat]
SearchTypeOK ==
  /\ head \in Block /\ head >= FirstHead /\ gap \in Gaps
  /\ search \in [Client -> [SearchTime -> SearchRecord]]
  /\ blockSamples \in Seq(Block)
  /\ blockCache \in Seq(SearchTime \X Block)

(* A block that one client has read, and so can all that read the same.     *)
Seen(n) == n \in 0..head /\ (OneHistory => \A c \in Client : n = 0 \/ n > gap[c])

(* A sample is of the very time; the client may find that it cannot read it. *)
Exact(t, s) ==
  /\ s.low = s.best \/ (s.low = s.best + 1 /\ t # 0)
  /\ s.high = s.best /\ s.lowTime = t
  /\ Seen(s.best) /\ TimeOf[s.best] = t

(* The block is the best one so far or among those left to search: what is  *)
(* between cannot be read, and a block above those left is later.           *)
Bracket(c, t, s) ==
  /\ Seen(s.best) /\ s.best <= s.low /\ s.low <= s.high + 1 /\ s.high <= head
  /\ \A n \in Block : s.best < n /\ n < s.low => n <= gap[c]
  /\ IF s.lowTime = 0 THEN s.best = 0
     ELSE TimeOf[s.best] < t /\ (OneHistory => s.best > gap[c] \/ gap[c] = 0)
  /\ ~s.missing => s.low <= s.best + 1
  /\ \/ TimeOf[0] > t
     \/ /\ OneHistory => s.high >= gap[c]
        /\ \/ s.high \in Block /\ TimeOf[s.high] > t
           \/ s.high + 1 \in 0 .. head /\ TimeOf[s.high + 1] > t

SearchKnown(c, t, s) ==
  /\ s.at = "latest" => s = [NoSearch EXCEPT !.at = "latest"]
  /\ s.at = "probe" => Exact(t, s) \/ Bracket(c, t, s)
  /\ s.at = "answered" => Sound(s.best, t, s.latest) /\ Seen(s.best)
  /\ s.at = "missing" => \A n \in 1..head : Readable(c, n) => TimeOf[n] > t

CacheKnown ==
  /\ CachedIsFinal
  /\ \A i \in DOMAIN blockCache : Seen(blockCache[i][2])
  /\ \A i \in DOMAIN blockSamples : Seen(blockSamples[i])
BlockSearchSound ==
  /\ SearchTypeOK /\ CacheKnown
  /\ \A c \in Client, t \in SearchTime : SearchKnown(c, t, search[c][t])

(* Later blocks have later times, and only the genesis block none.          *)
LEMMA TimesGrow ==
  /\ Top \in Nat /\ 0 \in Block /\ \A n \in Block : n \in Nat /\ TimeOf[n] \in Nat
  /\ \A n \in Block : n # 0 => TimeOf[n] # 0
  /\ \A n, m \in Block : n <= m => TimeOf[n] <= TimeOf[m]
  /\ \A n, m \in Block : TimeOf[n] < TimeOf[m] => n < m
<1>1. Top \in Nat /\ 0 \in Block /\ \A n \in Block : n \in Nat /\ TimeOf[n] \in Nat
  BY SearchAssumption DEF Block
<1>2. \A n, m \in Block : n <= m => TimeOf[n] <= TimeOf[m]
  <2>1. SUFFICES ASSUME NEW n \in Block, NEW m \in Block, n <= m PROVE TimeOf[n] <= TimeOf[m]
    OBVIOUS
  <2>2. CASE n = m
    BY <1>1, <2>2
  <2>3. CASE n < m
    BY <2>3, SearchAssumption
  <2> QED BY <1>1, <2>1, <2>2, <2>3
<1>3. ASSUME NEW n \in Block, n # 0 PROVE TimeOf[n] # 0
  <2>1. 0 < n
    BY <1>1, <1>3
  <2> QED BY <1>1, <2>1, SearchAssumption
<1> QED BY <1>1, <1>2, <1>3

(* The heads are above every gap.                                           *)
LEMMA GapsKnown ==
  ASSUME SearchTypeOK, NEW c \in Client
  PROVE  /\ gap[c] \in Nat /\ FirstHead \in Nat /\ gap[c] < FirstHead /\ FirstHead <= head
         /\ OneHistory => gap[c] # 1 /\ \A d \in Client : gap[d] = gap[c]
<1>1. gap \in [Client -> 0 .. FirstHead - 1] /\ FirstHead \in Nat /\ head \in Nat /\ head >= FirstHead
  BY SearchAssumption DEF SearchTypeOK, Block
<1>2. gap[c] \in 0 .. FirstHead - 1
  BY <1>1
<1>3. OneHistory => gap[c] # 1 /\ \A d \in Client : gap[d] = gap[c]
  BY DEF OneHistory
<1> QED BY <1>1, <1>2, <1>3

(* Blocks that were seen are those that can be read, if the clients agree.  *)
LEMMA SeenIsReadable ==
  ASSUME SearchTypeOK, NEW c \in Client, NEW n
  PROVE  (Readable(c, n) => Seen(n)) /\ (OneHistory /\ Seen(n) => Readable(c, n))
<1>1. gap[c] \in Nat /\ head \in Nat /\ (OneHistory => \A d \in Client : gap[d] = gap[c])
  BY GapsKnown, SearchAssumption DEF SearchTypeOK, Block
<1>2. CASE n \in 0..head
  BY <1>1, <1>2 DEF Seen, Readable
<1>3. CASE n \notin 0..head
  BY <1>3 DEF Seen, Readable
<1> QED BY <1>2, <1>3

(* A probe falls among the blocks that are left.                            *)
LEMMA ProbeWithin ==
  ASSUME NEW s \in SearchRecord, NEW t \in Nat, s.low <= s.high
  PROVE  /\ NextProbe(s, t) \in s.low .. s.high
         /\ s.lowTime = 0 => NextProbe(s, t) = (s.low + s.high) \div 2
<1>1. s.low \in Nat /\ s.high \in Nat /\ s.lowTime \in Nat /\ s.highTime \in Nat /\ s.probes \in Nat
  BY DEF SearchRecord
<1>2. (s.low + s.high) \div 2 \in s.low .. s.high
  BY <1>1
<1>3. CASE s.probes >= MaxInterpolations \/ s.lowTime <= 0 \/ s.highTime <= s.lowTime
  BY <1>2, <1>3 DEF NextProbe
<1>4. CASE ~(s.probes >= MaxInterpolations \/ s.lowTime <= 0 \/ s.highTime <= s.lowTime)
  <2> DEFINE guess == s.low + Rounded((s.high - s.low) * (t - s.lowTime), s.highTime - s.lowTime)
  <2>1. s.lowTime > 0 /\ s.highTime - s.lowTime \in Nat \ {0}
    BY <1>1, <1>4
  <2>2. (s.high - s.low) * (t - s.lowTime) \in Int
    BY <1>1
  <2>3. ASSUME NEW x \in Int, NEW d \in Nat \ {0} PROVE Rounded(x, d) \in Int
    BY DEF Rounded
  <2>4. guess \in Int
    <3> DEFINE x == (s.high - s.low) * (t - s.lowTime)
               d == s.highTime - s.lowTime
    <3> HIDE DEF x, d
    <3>1. Rounded(x, d) \in Int
      BY <2>1, <2>2, <2>3 DEF x, d
    <3>2. guess = s.low + Rounded(x, d)
      BY DEF x, d
    <3> HIDE DEF guess
    <3> QED BY <1>1, <3>1, <3>2
  <2>5. NextProbe(s, t) = IF guess < s.low THEN s.low ELSE IF guess > s.high THEN s.high ELSE guess
    BY <1>4 DEF NextProbe
  <2> HIDE DEF guess
  <2> QED BY <1>1, <2>1, <2>4, <2>5
<1> QED BY <1>3, <1>4

(* A cached answer replaces the earlier one of its target.                  *)
LEMMA CacheKept ==
  ASSUME SearchTypeOK, CacheKnown, NEW t \in SearchTime, NEW n \in Block, Seen(n), Sound(n, t, Top),
         blockCache' = WithCached(t, n), UNCHANGED <<head, gap>>
  PROVE  /\ blockCache' \in Seq(SearchTime \X Block)
         /\ CachedIsFinal'
         /\ (\A i \in DOMAIN blockCache : Seen(blockCache[i][2]))'
<1> DEFINE at == {i \in DOMAIN blockCache : blockCache[i][1] = t}
           others == Uncached(t)
           entry == <<t, n>>
<1>1. blockCache \in Seq(SearchTime \X Block) /\ MaxCache \in Nat \ {0}
  BY SearchAssumption DEF SearchTypeOK
<1>2. /\ others \in Seq(SearchTime \X Block)
      /\ \A j \in DOMAIN others : others[j][1] # t /\ \E k \in DOMAIN blockCache : others[j] = blockCache[k]
      /\ \A j, k \in DOMAIN others : others[j][1] = others[k][1] => j = k
  <2>1. CASE at = {}
    <3>1. others = blockCache
      BY <2>1 DEF Uncached
    <3> QED BY <1>1, <2>1, <3>1 DEF CacheKnown, CachedIsFinal
  <2>2. CASE at # {}
    <3>1. PICK i \in at : others = SubSeq(blockCache, 1, i - 1) \o SubSeq(blockCache, i + 1, Len(blockCache))
      BY <2>2 DEF Uncached
    <3> DEFINE Old(j) == IF j < i THEN j ELSE j + 1
    <3>2. i \in 1 .. Len(blockCache) /\ Len(blockCache) \in Nat /\ blockCache[i][1] = t
      BY <1>1, <3>1
    <3>3. /\ SubSeq(blockCache, 1, i - 1) \in Seq(SearchTime \X Block)
          /\ SubSeq(blockCache, i + 1, Len(blockCache)) \in Seq(SearchTime \X Block)
          /\ Len(SubSeq(blockCache, 1, i - 1)) = i - 1
          /\ Len(SubSeq(blockCache, i + 1, Len(blockCache))) = Len(blockCache) - i
          /\ \A j \in 1 .. i - 1 : SubSeq(blockCache, 1, i - 1)[j] = blockCache[j]
          /\ \A j \in 1 .. Len(blockCache) - i : SubSeq(blockCache, i + 1, Len(blockCache))[j] = blockCache[i + j]
      <4>1. PICK front : front = SubSeq(blockCache, 1, i - 1)
        OBVIOUS
      <4>2. PICK rest : rest = SubSeq(blockCache, i + 1, Len(blockCache))
        OBVIOUS
      <4>3. \A j \in 1 .. Len(blockCache) : blockCache[j] \in SearchTime \X Block
        BY <1>1
      <4>4. /\ front \in Seq(SearchTime \X Block) /\ Len(front) = i - 1
            /\ \A j \in 1 .. i - 1 : front[j] = blockCache[j]
        BY <3>2, <4>1, <4>3
      <4>5. /\ rest \in Seq(SearchTime \X Block) /\ Len(rest) = Len(blockCache) - i
            /\ \A j \in 1 .. Len(blockCache) - i : rest[j] = blockCache[i + j]
        BY <3>2, <4>2, <4>3
      <4> QED BY <4>1, <4>2, <4>4, <4>5
    <3> DEFINE before == SubSeq(blockCache, 1, i - 1)
               after == SubSeq(blockCache, i + 1, Len(blockCache))
    <3>11. before \in Seq(SearchTime \X Block) /\ after \in Seq(SearchTime \X Block) /\ others = before \o after
      BY <3>1, <3>3
    <3>12. Len(before) = i - 1 /\ Len(after) = Len(blockCache) - i
      BY <3>3
    <3>13. /\ \A j \in 1 .. i - 1 : before[j] = blockCache[j]
           /\ \A j \in 1 .. Len(blockCache) - i : after[j] = blockCache[i + j]
      BY <3>3
    <3> HIDE DEF before, after, others
    <3>4. others \in Seq(SearchTime \X Block) /\ Len(others) = Len(blockCache) - 1
      BY <3>2, <3>11, <3>12
    <3>5. \A j \in 1 .. Len(blockCache) - 1 : others[j] = blockCache[Old(j)]
      <4>1. ASSUME NEW j \in 1 .. Len(blockCache) - 1, j < i PROVE others[j] = blockCache[j]
        BY <3>2, <3>11, <3>12, <3>13, <4>1
      <4>2. ASSUME NEW j \in 1 .. Len(blockCache) - 1, ~(j < i) PROVE others[j] = blockCache[j + 1]
        <5>1. others[j] = after[j - (i - 1)]
          BY <3>2, <3>11, <3>12, <4>2
        <5>2. j - (i - 1) \in 1 .. Len(blockCache) - i /\ i + (j - (i - 1)) = j + 1
          BY <3>2, <4>2
        <5> QED BY <3>13, <5>1, <5>2
      <4> QED BY <4>1, <4>2
    <3>6. \A j \in 1 .. Len(blockCache) - 1 : Old(j) \in DOMAIN blockCache /\ Old(j) # i
      BY <1>1, <3>2
    <3>7. \A j, k \in 1 .. Len(blockCache) - 1 : Old(j) = Old(k) => j = k
      BY <3>2
    <3>8. DOMAIN others = 1 .. Len(blockCache) - 1
      BY <3>4
    <3>9. \A j, k \in DOMAIN blockCache : blockCache[j][1] = blockCache[k][1] => j = k
      BY DEF CacheKnown, CachedIsFinal
    <3>10. i \in DOMAIN blockCache
      BY <3>1
    <3> HIDE DEF Old, others, at
    <3>14. \A j \in DOMAIN others : others[j] = blockCache[Old(j)] /\ Old(j) \in DOMAIN blockCache /\ Old(j) # i
      BY <3>5, <3>6, <3>8
    <3>15. \A j \in DOMAIN others : others[j][1] # t
      BY <3>2, <3>9, <3>10, <3>14
    <3>16. \A j, k \in DOMAIN others : others[j][1] = others[k][1] => j = k
      BY <3>7, <3>8, <3>9, <3>14
    <3> QED BY <3>4, <3>14, <3>15, <3>16
  <2> QED BY <2>1, <2>2
<1> HIDE DEF others
<1>3. blockCache' = Capped(Append(others, entry), MaxCache)
  BY DEF WithCached, others
<1>4. entry \in SearchTime \X Block /\ entry[1] = t /\ entry[2] = n
  OBVIOUS
<1> HIDE DEF entry
<1> DEFINE all == Append(others, entry)
<1>5. /\ all \in Seq(SearchTime \X Block) /\ Len(all) = Len(others) + 1 /\ DOMAIN all = 1 .. Len(others) + 1
      /\ Len(others) \in Nat /\ DOMAIN others = 1 .. Len(others)
      /\ \A j \in DOMAIN others : all[j] = others[j]
      /\ all[Len(others) + 1] = entry
  BY <1>2, <1>4
<1> HIDE DEF all
<1>6. /\ \A j \in DOMAIN all : all[j] = entry \/ \E k \in DOMAIN blockCache : all[j] = blockCache[k]
      /\ \A j, k \in DOMAIN all : all[j][1] = all[k][1] => j = k
  <2>1. \A j \in DOMAIN all : j \in DOMAIN others \/ j = Len(others) + 1
    BY <1>5
  <2>2. \A j \in DOMAIN all : all[j] = entry \/ \E k \in DOMAIN blockCache : all[j] = blockCache[k]
    BY <1>2, <1>5, <2>1
  <2>3. \A j \in DOMAIN others : all[j][1] # t
    BY <1>2, <1>5
  <2>4. \A j, k \in DOMAIN all : all[j][1] = all[k][1] => j = k
    BY <1>2, <1>4, <1>5, <2>1, <2>3
  <2> QED BY <2>2, <2>4
<1>7. /\ blockCache' \in Seq(SearchTime \X Block)
      /\ \A j \in DOMAIN blockCache' : blockCache'[j] = entry \/ \E k \in DOMAIN blockCache : blockCache'[j] = blockCache[k]
      /\ \A j, k \in DOMAIN blockCache' : blockCache'[j][1] = blockCache'[k][1] => j = k
  <2>1. blockCache' = all \/ blockCache' = Tail(all)
    BY <1>3 DEF Capped, all
  <2>2. CASE blockCache' = all
    BY <1>5, <1>6, <2>2
  <2>3. CASE blockCache' = Tail(all)
    <3>1. /\ Tail(all) \in Seq(SearchTime \X Block) /\ DOMAIN Tail(all) = 1 .. Len(others)
          /\ \A j \in 1 .. Len(others) : Tail(all)[j] = all[j + 1] /\ j + 1 \in DOMAIN all
      BY <1>5
    <3>2. \A j, k \in 1 .. Len(others) : j + 1 = k + 1 => j = k
      BY <1>5
    <3> QED BY <1>6, <2>3, <3>1, <3>2
  <2> QED BY <2>1, <2>2, <2>3
<1>8. ASSUME NEW j \in DOMAIN blockCache'
      PROVE  Sound(blockCache'[j][2], blockCache'[j][1], Top) /\ Seen(blockCache'[j][2])
  <2>1. CASE blockCache'[j] = entry
    BY <1>4, <2>1
  <2>2. CASE \E k \in DOMAIN blockCache : blockCache'[j] = blockCache[k]
    BY <2>2 DEF CacheKnown, CachedIsFinal
  <2> QED BY <1>7, <2>1, <2>2
<1>9. CachedIsFinal'
  BY <1>7, <1>8 DEF CachedIsFinal, Sound, OneHistory, Unreadable
<1>10. (\A i \in DOMAIN blockCache : Seen(blockCache[i][2]))'
  BY <1>8 DEF Seen, OneHistory
<1> QED BY <1>7, <1>9, <1>10

(* A sample of a block that was seen.                                       *)
LEMMA SamplesKept ==
  ASSUME SearchTypeOK, CacheKnown, NEW n \in Block, Seen(n), blockSamples' = WithSample(n)
  PROVE  /\ blockSamples' \in Seq(Block)
         /\ \A i \in DOMAIN blockSamples' : Seen(blockSamples'[i])
<1> DEFINE all == Append(blockSamples, n)
<1>1. blockSamples \in Seq(Block) /\ \A i \in DOMAIN blockSamples : Seen(blockSamples[i])
  BY DEF SearchTypeOK, CacheKnown
<1>2. all \in Seq(Block) /\ Len(all) = Len(blockSamples) + 1 /\ Len(blockSamples) \in Nat
  BY <1>1
<1>3. \A i \in DOMAIN all : Seen(all[i])
  <2>1. \A i \in DOMAIN all : all[i] = n \/ (i \in DOMAIN blockSamples /\ all[i] = blockSamples[i])
    BY <1>1
  <2> QED BY <1>1, <2>1
<1> HIDE DEF all
<1>4. blockSamples' = all \/ blockSamples' = Tail(all)
  BY DEF WithSample, Capped, all
<1>5. Tail(all) \in Seq(Block) /\ \A i \in DOMAIN Tail(all) : i + 1 \in DOMAIN all /\ Tail(all)[i] = all[i + 1]
  BY <1>2
<1> QED BY <1>2, <1>3, <1>4, <1>5

LEMMA NoSearchRecord ==
  NoSearch \in SearchRecord
BY DEF NoSearch, SearchRecord

Bounded(r, low, high, best, lowTime, highTime) ==
  [r EXCEPT !.low = low, !.high = high, !.best = best, !.lowTime = lowTime, !.highTime = highTime]

LEMMA BoundsSet ==
  ASSUME NEW old \in SearchRecord, NEW lo \in Nat, NEW hi \in Int, NEW b \in Nat,
         NEW loTime \in Nat, NEW hiTime \in Nat
  PROVE  Bounded(old, lo, hi, b, loTime, hiTime) \in SearchRecord
<1> DEFINE r1 == [old EXCEPT !.low = lo]
           r2 == [r1 EXCEPT !.high = hi]
           r3 == [r2 EXCEPT !.best = b]
           r4 == [r3 EXCEPT !.lowTime = loTime]
           r5 == [r4 EXCEPT !.highTime = hiTime]
<1>1. Bounded(old, lo, hi, b, loTime, hiTime) = r5
  BY DEF Bounded
<1>2. r1 \in SearchRecord
  BY DEF SearchRecord
<1> HIDE DEF r1
<1>3. r2 \in SearchRecord
  BY <1>2 DEF SearchRecord
<1> HIDE DEF r2
<1>4. r3 \in SearchRecord
  BY <1>3 DEF SearchRecord
<1> HIDE DEF r3
<1>5. r4 \in SearchRecord
  BY <1>4 DEF SearchRecord
<1> HIDE DEF r4
<1>6. r5 \in SearchRecord
  BY <1>5 DEF SearchRecord
<1> QED BY <1>1, <1>6

LEMMA BlockSearchSoundInit ==
  ASSUME BlockSearchInit
  PROVE  BlockSearchSound
<1>1. NoSearch \in SearchRecord
  BY NoSearchRecord
<1>2. SearchTypeOK
  BY <1>1, SearchAssumption DEF BlockSearchInit, SearchTypeOK, Block
<1>3. CacheKnown
  BY DEF BlockSearchInit, CacheKnown, CachedIsFinal
<1>4. \A c \in Client, t \in SearchTime : search[c][t] = NoSearch
  BY DEF BlockSearchInit
<1>5. \A c \in Client, t \in SearchTime : SearchKnown(c, t, search[c][t])
  BY <1>4 DEF NoSearch, SearchKnown
<1> QED BY <1>2, <1>3, <1>5 DEF BlockSearchSound

(* A step of one search leaves the others what they were.                   *)
LEMMA OneSearchMoves ==
  ASSUME BlockSearchSound, NEW c \in Client, NEW t \in SearchTime, NEW s \in SearchRecord,
         Set(c, t, s), SearchKnown(c, t, s), UNCHANGED <<head, gap>>, CacheKnown',
         blockSamples' \in Seq(Block), blockCache' \in Seq(SearchTime \X Block)
  PROVE  BlockSearchSound'
<1>1. search \in [Client -> [SearchTime -> SearchRecord]] /\ search[c] \in [SearchTime -> SearchRecord]
  BY DEF BlockSearchSound, SearchTypeOK
<1>2. search' = [search EXCEPT ![c] = [search[c] EXCEPT ![t] = s]]
  BY DEF Set
<1>3. search' \in [Client -> [SearchTime -> SearchRecord]]
  BY <1>1, <1>2
<1>4. SearchTypeOK'
  BY <1>3 DEF BlockSearchSound, SearchTypeOK
<1>5. ASSUME NEW d \in Client, NEW u \in SearchTime
      PROVE  search'[d][u] = search[d][u] \/ (d = c /\ u = t /\ search'[d][u] = s)
  BY <1>1, <1>2
<1>6. ASSUME NEW d \in Client, NEW u \in SearchTime
      PROVE  SearchKnown(d, u, search[d][u])'
  <2> DEFINE r == search'[d][u]
  <2>1. SearchKnown(d, u, r)
    BY <1>5 DEF BlockSearchSound
  <2> HIDE DEF r
  <2>2. /\ r.at = "latest" => r = [NoSearch EXCEPT !.at = "latest"]
        /\ r.at = "probe" => Exact(u, r) \/ Bracket(d, u, r)
        /\ r.at = "answered" => Sound(r.best, u, r.latest) /\ Seen(r.best)
        /\ r.at = "missing" => \A n \in 1..head : Readable(d, n) => TimeOf[n] > u
    BY <2>1 DEF SearchKnown
  <2> QED BY <2>1, <2>2 DEF r, SearchKnown, Exact, Bracket, Seen, Sound, OneHistory, Unreadable, Readable, NoSearch
<1> QED BY <1>4, <1>6 DEF BlockSearchSound

(* An answer that is cached is one for good.                                *)
LEMMA SoundForGood ==
  ASSUME NEW n, NEW t, NEW latest, Sound(n, t, Top), n \in Block
  PROVE  Sound(n, t, latest)
BY DEF Sound, Block

(* A search that ends with an answer known to be right, cached or not.      *)
LEMMA AnswerKnown ==
  ASSUME BlockSearchSound, NEW c \in Client, NEW t \in SearchTime, NEW n \in Block, NEW latest \in Nat,
         EndSearch(c, t, "answered", n, latest), Sound(n, t, latest), Seen(n),
         UNCHANGED <<head, gap>>, CacheKnown',
         blockSamples' \in Seq(Block), blockCache' \in Seq(SearchTime \X Block)
  PROVE  BlockSearchSound'
<1> DEFINE s == [NoSearch EXCEPT !.at = "answered", !.best = n, !.latest = latest]
<1>1. n \in Nat
  BY SearchAssumption DEF Block
<1>2. s \in SearchRecord /\ s.at = "answered" /\ s.best = n /\ s.latest = latest
  BY <1>1, NoSearchRecord DEF SearchRecord
<1>3. Set(c, t, s)
  BY DEF EndSearch
<1> HIDE DEF s
<1>4. SearchKnown(c, t, s)
  BY <1>2 DEF SearchKnown
<1> QED BY <1>2, <1>3, <1>4, OneSearchMoves

(* ... and one that ends without.                                           *)
LEMMA EndedKnown ==
  ASSUME BlockSearchSound, NEW c \in Client, NEW t \in SearchTime, NEW at \in {"missing", "failed"},
         EndSearch(c, t, at, 0, 0), UNCHANGED <<head, gap, blockCache, blockSamples>>,
         at = "missing" => \A n \in 1..head : Readable(c, n) => TimeOf[n] > t
  PROVE  BlockSearchSound'
<1> DEFINE s == [NoSearch EXCEPT !.at = at, !.best = 0, !.latest = 0]
<1>1. s \in SearchRecord /\ s.at = at
  BY NoSearchRecord DEF SearchRecord
<1>2. Set(c, t, s)
  BY DEF EndSearch
<1> HIDE DEF s
<1>3. SearchKnown(c, t, s)
  BY <1>1 DEF SearchKnown
<1>4. CacheKnown' /\ blockSamples' \in Seq(Block) /\ blockCache' \in Seq(SearchTime \X Block)
  BY DEF BlockSearchSound, SearchTypeOK, CacheKnown, CachedIsFinal, Seen, Sound, OneHistory, Unreadable
<1> QED BY <1>1, <1>2, <1>3, <1>4, OneSearchMoves

LEMMA AskBlockStep ==
  ASSUME BlockSearchSound, NEW c \in Client, NEW t \in SearchTime, AskBlock(c, t)
  PROVE  BlockSearchSound'
<1>1. UNCHANGED <<head, gap, blockSamples>>
  BY DEF AskBlock
<1>2. blockSamples' \in Seq(Block) /\ \A i \in DOMAIN blockSamples' : Seen(blockSamples'[i])
  BY <1>1 DEF BlockSearchSound, SearchTypeOK, CacheKnown
<1>3. ASSUME NEW n \in CachedAnswers(t), EndSearch(c, t, "answered", n, Top), blockCache' = WithCached(t, n)
      PROVE  BlockSearchSound'
  <2>1. PICK i \in DOMAIN blockCache : blockCache[i][1] = t /\ blockCache[i][2] = n
    BY DEF CachedAnswers
  <2>2. blockCache[i] \in SearchTime \X Block
    BY DEF BlockSearchSound, SearchTypeOK
  <2>3. n \in Block /\ Seen(n) /\ Sound(n, t, Top)
    BY <2>1, <2>2 DEF BlockSearchSound, CacheKnown, CachedIsFinal
  <2>4. /\ blockCache' \in Seq(SearchTime \X Block) /\ CachedIsFinal'
        /\ (\A j \in DOMAIN blockCache : Seen(blockCache[j][2]))'
    BY <1>1, <1>3, <2>3, CacheKept DEF BlockSearchSound
  <2>5. CacheKnown'
    BY <1>1, <1>2, <2>4 DEF CacheKnown, Seen, OneHistory
  <2>6. n \in Nat /\ Top \in Nat
    BY <2>3, TimesGrow
  <2> QED BY <1>1, <1>2, <1>3, <2>3, <2>4, <2>5, <2>6, AnswerKnown
<1>4. ASSUME Set(c, t, [NoSearch EXCEPT !.at = "latest"]), UNCHANGED blockCache
      PROVE  BlockSearchSound'
  <2> DEFINE s == [NoSearch EXCEPT !.at = "latest"]
  <2>1. s \in SearchRecord /\ s.at = "latest"
    BY NoSearchRecord DEF SearchRecord
  <2>2. SearchKnown(c, t, s)
    BY <2>1 DEF SearchKnown
  <2>3. CacheKnown' /\ blockCache' \in Seq(SearchTime \X Block)
    BY <1>1, <1>4 DEF BlockSearchSound, SearchTypeOK, CacheKnown, CachedIsFinal, Seen, Sound, OneHistory, Unreadable
  <2> HIDE DEF s
  <2> QED BY <1>1, <1>2, <1>4, <2>1, <2>2, <2>3, OneSearchMoves DEF s
<1> QED BY <1>3, <1>4 DEF AskBlock

(* A bounded set of natural numbers has a greatest member.                  *)
LEMMA GreatestOf ==
  ASSUME NEW S \in SUBSET Nat, S # {}, NEW m \in Nat, \A i \in S : i <= m
  PROVE  \E i \in S : \A j \in S : j <= i
<1> DEFINE rest == {m - i : i \in S}
<1>1. rest \in SUBSET Nat /\ rest # {}
  <2>1. \A i \in S : m - i \in Nat
    OBVIOUS
  <2> QED BY <2>1
<1> HIDE DEF rest
<1>2. PICK r \in rest : \A q \in rest : r <= q
  BY <1>1, LeastOf
<1>3. PICK i \in S : r = m - i
  BY DEF rest
<1>4. \A j \in S : m - j \in rest
  BY DEF rest
<1>5. ASSUME NEW j \in S PROVE j <= i
  BY <1>2, <1>3, <1>4
<1> QED BY <1>5

(* What the samples leave to search.                                        *)
LEMMA SeededKnown ==
  ASSUME SearchTypeOK, NEW c \in Client, NEW t \in SearchTime,
         NEW samples \in Seq(Block), \A i \in DOMAIN samples : Seen(samples[i]),
         NEW r \in SearchRecord, ~r.missing,
         NEW latest \in FirstHead..head, TimeOf[latest] > t, NEW s \in Seeded(r, t, samples, latest)
  PROVE  s \in SearchRecord /\ SearchKnown(c, t, s)
<1> DEFINE seen == {samples[i] : i \in DOMAIN samples}
           lows == {n \in seen : TimeOf[n] < t /\ n > 0}
           highs == {n \in seen : TimeOf[n] > t /\ n < latest}
           exact == {n \in seen : TimeOf[n] = t}
           seed == [r EXCEPT !.at = "probe", !.latest = latest]
<1>1. /\ t \in Nat /\ head \in Nat /\ head \in Block /\ 0 \in Block
      /\ \A n \in Block : n \in Nat /\ TimeOf[n] \in Nat /\ (n # 0 => TimeOf[n] # 0)
      /\ latest \in Nat /\ latest \in Block /\ FirstHead \in Nat /\ FirstHead <= latest /\ latest <= head
  BY SearchAssumption, TimesGrow DEF SearchTypeOK, Block
<1>2. \A n \in seen : n \in Block /\ n \in Nat /\ n <= head /\ Seen(n)
  BY <1>1 DEF Seen
<1> HIDE DEF seen
<1>3. PICK low \in Nat : low = Latest(lows, 0) /\ (low = 0 \/ low \in lows)
  <2>1. CASE lows # {}
    <3>1. lows \in SUBSET Nat /\ \A n \in lows : n <= head
      BY <1>2
    <3> HIDE DEF lows
    <3>2. \E i \in lows : \A j \in lows : j <= i
      BY <1>1, <2>1, <3>1, GreatestOf
    <3> QED BY <2>1, <3>1, <3>2 DEF Latest
  <2> QED BY <2>1 DEF Latest
<1>4. PICK high \in Nat : high = Earliest(highs, latest) /\ (high = latest \/ high \in highs)
  <2>1. CASE highs # {}
    <3>1. highs \in SUBSET Nat
      BY <1>2
    <3> HIDE DEF highs
    <3>2. \E i \in highs : \A j \in highs : i <= j
      BY <2>1, <3>1, LeastOf
    <3> QED BY <2>1, <3>1, <3>2 DEF Earliest
  <2> QED BY <1>1, <2>1 DEF Earliest
<1> DEFINE lowTime == IF low = 0 THEN 0 ELSE TimeOf[low]
<1>8. seed \in SearchRecord /\ seed.at = "probe" /\ ~seed.missing
  BY <1>1 DEF SearchRecord
<1> HIDE DEF seed
<1>5. /\ low \in Block /\ low \in Nat /\ Seen(low) /\ (low # 0 => TimeOf[low] < t)
      /\ high \in Block /\ high \in Nat /\ high <= head /\ TimeOf[high] > t /\ (high = latest \/ Seen(high))
  <2>1. Seen(0)
    BY <1>1 DEF Seen
  <2>2. low \in Block /\ low \in Nat /\ Seen(low) /\ (low # 0 => TimeOf[low] < t)
    BY <1>1, <1>2, <1>3, <2>1
  <2>3. high \in Block /\ high <= head /\ TimeOf[high] > t /\ (high = latest \/ Seen(high))
    BY <1>1, <1>2, <1>4
  <2> QED BY <2>2, <2>3
<1>6. CASE \E n \in exact : s = [seed EXCEPT !.low = n, !.high = n, !.best = n, !.lowTime = t, !.highTime = t]
  <2>1. PICK n \in exact : s = [seed EXCEPT !.low = n, !.high = n, !.best = n, !.lowTime = t, !.highTime = t]
    BY <1>6
  <2>2. n \in Nat /\ Seen(n) /\ TimeOf[n] = t
    BY <1>2
  <2>3. /\ s \in SearchRecord /\ s.at = "probe"
        /\ s.low = n /\ s.high = n /\ s.best = n /\ s.lowTime = t
    <3>1. s = Bounded(seed, n, n, n, t, t)
      BY <2>1 DEF Bounded
    <3>2. n \in Nat /\ n \in Int /\ t \in Nat /\ seed \in SearchRecord
      BY <1>1, <1>8, <2>2
    <3> DEFINE b == Bounded(seed, n, n, n, t, t)
    <3>3. b \in SearchRecord
      BY <3>2, BoundsSet
    <3>4. b.low = n /\ b.high = n /\ b.best = n /\ b.lowTime = t /\ b.at = seed.at
      BY <3>2 DEF Bounded, SearchRecord
    <3>5. s = b
      BY <3>1
    <3> HIDE DEF b
    <3> QED BY <1>8, <3>3, <3>4, <3>5
  <2>4. Exact(t, s)
    BY <2>2, <2>3 DEF Exact
  <2> QED BY <2>3, <2>4 DEF SearchKnown
<1>7. CASE s = [seed EXCEPT !.low = low, !.high = high, !.best = low, !.lowTime = lowTime, !.highTime = TimeOf[high]]
  <2>1. PICK lt \in Nat, ht \in Nat : lt = lowTime /\ ht = TimeOf[high]
    BY <1>1, <1>5
  <2>2. /\ s \in SearchRecord /\ s.at = "probe" /\ ~s.missing
        /\ s.low = low /\ s.high = high /\ s.best = low /\ s.lowTime = lowTime
    <3> DEFINE b == Bounded(seed, low, high, low, lt, ht)
    <3>1. s = b
      BY <1>7, <2>1 DEF Bounded
    <3>2. high \in Int /\ seed \in SearchRecord
      BY <1>8
    <3>3. b \in SearchRecord
      BY <3>2, BoundsSet
    <3>4. /\ b.low = low /\ b.high = high /\ b.best = low /\ b.lowTime = lt
          /\ b.at = seed.at /\ b.missing = seed.missing
      BY <3>2 DEF Bounded, SearchRecord
    <3> HIDE DEF b
    <3> QED BY <1>8, <2>1, <3>1, <3>3, <3>4
  <2>3. gap[c] \in Nat /\ gap[c] < latest
    BY <1>1, GapsKnown
  <2>4. low <= high
    BY <1>1, <1>5, TimesGrow
  <2>5. OneHistory => TimeOf[0] > t \/ high >= gap[c]
    <3>1. high = 0 => TimeOf[0] > t
      BY <1>5
    <3>2. OneHistory /\ Seen(high) /\ high # 0 => high > gap[c]
      BY DEF Seen
    <3> QED BY <1>1, <1>5, <2>3, <3>1, <3>2
  <2>6. (lowTime = 0 /\ low = 0) \/ (lowTime # 0 /\ TimeOf[low] < t /\ (OneHistory => low > gap[c]))
    <3>1. low = 0 => lowTime = 0
      OBVIOUS
    <3>2. low # 0 => lowTime = TimeOf[low] /\ TimeOf[low] # 0
      BY <1>1, <1>5
    <3>3. low # 0 /\ OneHistory => low > gap[c]
      BY <1>5 DEF Seen
    <3> QED BY <1>5, <3>1, <3>2, <3>3
  <2> HIDE DEF lowTime
  <2>7. \A n \in Block : ~(low < n /\ n < low)
    BY <1>1, <1>5
  <2>8. Bracket(c, t, s)
    BY <1>1, <1>5, <2>2, <2>4, <2>5, <2>6, <2>7 DEF Bracket
  <2> QED BY <2>2, <2>8 DEF SearchKnown
<1> QED BY <1>3, <1>4, <1>6, <1>7 DEF Seeded, seen, seed

LEMMA ReadLatestStep ==
  ASSUME BlockSearchSound, NEW c \in Client, NEW t \in SearchTime, ReadLatest(c, t)
  PROVE  BlockSearchSound'
<1>1. /\ UNCHANGED <<head, gap, blockCache>>
      /\ search[c][t] = [NoSearch EXCEPT !.at = "latest"] /\ search[c][t] \in SearchRecord
  BY DEF ReadLatest, BlockSearchSound, SearchKnown, SearchTypeOK
<1>2. PICK latest \in FirstHead..head :
        /\ blockSamples' = WithSample(latest)
        /\ IF TimeOf[latest] <= t THEN EndSearch(c, t, "answered", latest, latest)
           ELSE \E s \in Seeded(search[c][t], t, blockSamples', latest) : Set(c, t, s)
  BY DEF ReadLatest
<1>3. /\ SearchTypeOK /\ CacheKnown /\ t \in Nat /\ head \in Nat /\ FirstHead \in Nat
      /\ latest \in Block /\ latest \in Nat /\ TimeOf[latest] \in Nat
  BY SearchAssumption, TimesGrow DEF BlockSearchSound, SearchTypeOK, Block
<1>4. Seen(latest)
  BY <1>3, GapsKnown DEF Seen
<1>5. blockSamples' \in Seq(Block) /\ \A i \in DOMAIN blockSamples' : Seen(blockSamples'[i])
  BY <1>2, <1>3, <1>4, SamplesKept
<1>6. CacheKnown' /\ blockCache' \in Seq(SearchTime \X Block)
  BY <1>1, <1>3, <1>5 DEF SearchTypeOK, CacheKnown, CachedIsFinal, Seen, Sound, OneHistory, Unreadable
<1>7. CASE TimeOf[latest] <= t
  <2>1. EndSearch(c, t, "answered", latest, latest)
    BY <1>2, <1>7
  <2>2. Sound(latest, t, latest)
    BY <1>3, <1>7, TimesGrow DEF Sound
  <2> QED BY <1>1, <1>3, <1>4, <1>5, <1>6, <2>1, <2>2, AnswerKnown
<1>8. CASE ~(TimeOf[latest] <= t)
  <2>1. PICK s \in Seeded(search[c][t], t, blockSamples', latest) : Set(c, t, s)
    BY <1>2, <1>8
  <2>2. ~search[c][t].missing /\ TimeOf[latest] > t
    BY <1>1, <1>3, <1>8 DEF NoSearch
  <2>3. s \in SearchRecord /\ SearchKnown(c, t, s)
    BY <1>1, <1>3, <1>5, <2>2, SeededKnown
  <2> QED BY <1>1, <1>5, <1>6, <2>1, <2>3, OneSearchMoves
<1> QED BY <1>7, <1>8

LEMMA BoundsAreNumbers ==
  ASSUME SearchTypeOK, NEW s \in SearchRecord, s.low <= s.high, NEW n \in s.low .. s.high
  PROVE  s.low \in Nat /\ s.high \in Nat /\ s.best \in Nat /\ n \in Nat /\ head \in Nat
<1>1. s.low \in Nat /\ s.high \in Int /\ s.best \in Nat
  BY DEF SearchRecord
<1>2. head \in Nat
  BY SearchAssumption DEF SearchTypeOK, Block
<1> QED BY <1>1, <1>2

(* What a probe leaves to search: above a block that cannot be read ...     *)
LEMMA SkipKnown ==
  ASSUME SearchTypeOK, NEW c \in Client, NEW t \in SearchTime,
         NEW s \in SearchRecord, Bracket(c, t, s), s.low <= s.high,
         NEW n \in s.low .. s.high, ~Readable(c, n),
         NEW x \in SearchRecord, x.low = n + 1, x.high = s.high, x.best = s.best,
         x.lowTime = s.lowTime, x.missing
  PROVE  Bracket(c, t, x)
<1>1. s.low \in Nat /\ s.high \in Nat /\ s.best \in Nat /\ n \in Nat /\ head \in Nat
  BY BoundsAreNumbers
<1>2. n \in 0..head /\ n <= gap[c] /\ gap[c] \in Nat
  BY <1>1, GapsKnown DEF Bracket, Readable
<1>3. x.best <= x.low /\ x.low <= x.high + 1 /\ x.high <= head
  BY <1>1 DEF Bracket
<1>4. ASSUME NEW m \in Block, x.best < m, m < x.low PROVE m <= gap[c]
  <2>1. m \in Nat
    BY SearchAssumption DEF Block
  <2>2. CASE m < s.low
    BY <1>4, <2>2 DEF Bracket
  <2>3. CASE ~(m < s.low)
    BY <1>1, <1>2, <1>4, <2>1, <2>3
  <2> QED BY <2>2, <2>3
<1>5. /\ Seen(x.best)
      /\ IF x.lowTime = 0 THEN x.best = 0 ELSE TimeOf[x.best] < t /\ (OneHistory => x.best > gap[c] \/ gap[c] = 0)
      /\ \/ TimeOf[0] > t
         \/ /\ OneHistory => x.high >= gap[c]
            /\ \/ x.high \in Block /\ TimeOf[x.high] > t
               \/ x.high + 1 \in 0 .. head /\ TimeOf[x.high + 1] > t
  BY DEF Bracket
<1> QED BY <1>3, <1>4, <1>5 DEF Bracket

(* ... above a block that is earlier than the target ...                    *)
LEMMA EarlierKnown ==
  ASSUME SearchTypeOK, NEW c \in Client, NEW t \in SearchTime,
         NEW s \in SearchRecord, Bracket(c, t, s), s.low <= s.high,
         NEW n \in s.low .. s.high, Seen(n), TimeOf[n] < t,
         s.lowTime = 0 => n = (s.low + s.high) \div 2,
         NEW x \in SearchRecord, x.low = n + 1, x.high = s.high, x.best = n,
         x.lowTime = TimeOf[n]
  PROVE  Bracket(c, t, x)
<1>1. s.low \in Nat /\ s.high \in Nat /\ s.best \in Nat /\ n \in Nat /\ head \in Nat /\ t \in Nat
  BY SearchAssumption DEF SearchRecord, SearchTypeOK, Block
<1>2. gap[c] \in Nat /\ (OneHistory => gap[c] # 1)
  BY GapsKnown
<1>3. n \in Block /\ TimeOf[n] \in Nat /\ 0 \in Block /\ TimeOf[0] \in Nat /\ (n # 0 => TimeOf[n] # 0)
  BY <1>1, TimesGrow DEF Bracket, Block, SearchTypeOK
<1>4. ASSUME OneHistory PROVE n > gap[c] \/ gap[c] = 0
  <2>1. CASE n # 0
    BY <1>4, <2>1 DEF Seen
  <2>2. CASE n = 0 /\ s.lowTime = 0
    <3>1. s.high <= 1 /\ ~(TimeOf[0] > t)
      <4>1. s.low = 0 /\ (s.low + s.high) \div 2 = 0
        BY <1>1, <2>2
      <4>2. s.high <= 1
        BY <1>1, <4>1
      <4>3. ~(TimeOf[0] > t)
        <5>1. TimeOf[0] < t
          BY <2>2
        <5> QED BY <1>1, <1>3, <5>1
      <4> QED BY <4>2, <4>3
    <3>2. s.high >= gap[c]
      BY <1>4, <3>1 DEF Bracket
    <3> QED BY <1>1, <1>2, <1>4, <3>1, <3>2
  <2>3. CASE n = 0 /\ s.lowTime # 0
    <3>1. s.best = 0
      BY <1>1, <2>3 DEF Bracket
    <3> QED BY <1>2, <1>4, <2>3, <3>1 DEF Bracket
  <2> QED BY <2>1, <2>2, <2>3
<1>5. x.best <= x.low /\ x.low <= x.high + 1 /\ x.high <= head /\ x.low <= x.best + 1
  BY <1>1 DEF Bracket
<1>6. \A m \in Block : ~(x.best < m /\ m < x.low)
  BY <1>1, SearchAssumption DEF Block
<1>7. \/ TimeOf[0] > t
      \/ /\ OneHistory => x.high >= gap[c]
         /\ \/ x.high \in Block /\ TimeOf[x.high] > t
            \/ x.high + 1 \in 0 .. head /\ TimeOf[x.high + 1] > t
  BY DEF Bracket
<1>8. /\ x.lowTime = 0 => x.best = 0
      /\ TimeOf[x.best] < t /\ (OneHistory => x.best > gap[c] \/ gap[c] = 0) /\ Seen(x.best)
  BY <1>3, <1>4
<1> QED BY <1>5, <1>6, <1>7, <1>8 DEF Bracket

(* ... or below one that is later.                                          *)
LEMMA LaterKnown ==
  ASSUME SearchTypeOK, NEW c \in Client, NEW t \in SearchTime,
         NEW s \in SearchRecord, Bracket(c, t, s), s.low <= s.high,
         NEW n \in s.low .. s.high, Seen(n), TimeOf[n] > t,
         NEW x \in SearchRecord, x.low = s.low, x.high = n - 1, x.best = s.best,
         x.lowTime = s.lowTime, x.missing = s.missing
  PROVE  Bracket(c, t, x)
<1>1. s.low \in Nat /\ s.high \in Nat /\ s.best \in Nat /\ n \in Nat /\ head \in Nat
  BY BoundsAreNumbers
<1>2. gap[c] \in Nat
  BY GapsKnown
<1>3. x.best <= x.low /\ x.low <= x.high + 1 /\ x.high <= head /\ x.high + 1 = n /\ n \in 0 .. head
  BY <1>1 DEF Bracket
<1>4. TimeOf[0] > t \/ ((OneHistory => x.high >= gap[c]) /\ TimeOf[x.high + 1] > t)
  <2>1. CASE n = 0
    BY <2>1
  <2>2. CASE n # 0
    BY <1>1, <1>2, <1>3, <2>2 DEF Seen
  <2> QED BY <2>1, <2>2
<1>5. /\ Seen(x.best)
      /\ \A m \in Block : x.best < m /\ m < x.low => m <= gap[c]
      /\ IF x.lowTime = 0 THEN x.best = 0 ELSE TimeOf[x.best] < t /\ (OneHistory => x.best > gap[c] \/ gap[c] = 0)
  BY DEF Bracket
<1>6. ~x.missing => x.low <= x.best + 1
  BY DEF Bracket
<1> QED BY <1>3, <1>4, <1>5, <1>6 DEF Bracket

LEMMA ProbeStep ==
  ASSUME BlockSearchSound, NEW c \in Client, NEW t \in SearchTime, Probe(c, t)
  PROVE  BlockSearchSound'
<1> DEFINE s == search[c][t]
           n == NextProbe(s, t)
           next == [s EXCEPT !.probes = @ + 1]
<1>1. /\ s \in SearchRecord /\ s.at = "probe" /\ s.low <= s.high /\ (Exact(t, s) \/ Bracket(c, t, s))
      /\ UNCHANGED <<head, gap>> /\ t \in Nat /\ SearchTypeOK /\ CacheKnown
  BY SearchAssumption DEF Probe, BlockSearchSound, SearchKnown, SearchTypeOK
<1>2. /\ ~Readable(c, n) /\ Set(c, t, SkippedAbove(next, n)) /\ UNCHANGED <<blockSamples, blockCache>>
      \/ /\ Readable(c, n) /\ blockSamples' = WithSample(n)
         /\ IF TimeOf[n] = t THEN AnswerWith(c, t, n) /\ blockCache' = WithCached(t, n)
            ELSE Set(c, t, Narrowed(next, n, t)) /\ UNCHANGED blockCache
  BY DEF Probe
<1>3. n \in s.low .. s.high /\ (s.lowTime = 0 => n = (s.low + s.high) \div 2)
  <2> HIDE DEF s
  <2> QED BY <1>1, ProbeWithin
<1>4. s.latest \in Nat /\ s.low \in Nat
  BY <1>1 DEF SearchRecord
<1> HIDE DEF n, s
<1>5. n \in Nat
  BY <1>1, <1>3, BoundsAreNumbers
<1>6. next \in SearchRecord /\ next.at = "probe" /\ next.low = s.low /\ next.high = s.high /\ next.best = s.best
      /\ next.lowTime = s.lowTime /\ next.missing = s.missing
  BY <1>1 DEF SearchRecord
<1> HIDE DEF next
<1>7. Exact(t, s) => n = s.best /\ s.low = n /\ s.high = n /\ s.lowTime = t /\ Seen(n) /\ TimeOf[n] = t
  <2>1. s.low \in Nat /\ s.high \in Nat /\ s.best \in Nat
    BY <1>1, <1>3, BoundsAreNumbers
  <2>2. ASSUME Exact(t, s) PROVE s.low = s.best /\ s.high = s.best
    BY <1>1, <2>1, <2>2 DEF Exact
  <2> QED BY <1>3, <1>5, <2>1, <2>2 DEF Exact
<1>8. CASE ~Readable(c, n)
  <2> DEFINE x == SkippedAbove(next, n)
  <2>2. /\ x \in SearchRecord /\ x.at = "probe" /\ x.low = n + 1 /\ x.high = s.high /\ x.best = s.best
        /\ x.lowTime = s.lowTime
    <3> DEFINE y == [next EXCEPT !.missing = TRUE]
    <3>1. x = [y EXCEPT !.low = n + 1]
      BY DEF SkippedAbove
    <3>2. y \in SearchRecord
      BY <1>6 DEF SearchRecord
    <3>3. /\ y.at = "probe" /\ y.high = s.high /\ y.best = s.best /\ y.lowTime = s.lowTime
      BY <1>6 DEF SearchRecord
    <3> HIDE DEF x, y
    <3> QED BY <1>5, <3>1, <3>2, <3>3 DEF SearchRecord
  <2>3. x.missing
    BY <1>6 DEF SkippedAbove, SearchRecord
  <2>4. Set(c, t, x) /\ UNCHANGED <<blockSamples, blockCache>>
    BY <1>2, <1>8
  <2> HIDE DEF x
  <2>5. Exact(t, x) \/ Bracket(c, t, x)
    <3>1. CASE Bracket(c, t, s)
      BY <1>1, <1>3, <1>8, <2>2, <2>3, <3>1, SkipKnown
    <3>2. CASE Exact(t, s)
      <4>1. n \in Block /\ 0 \in 0 .. head
        BY <1>1, <1>7, <3>2, SearchAssumption DEF Seen, SearchTypeOK, Block
      <4>2. n # 0
        BY <1>8, <4>1 DEF Readable
      <4>3. t # 0
        BY <1>7, <3>2, <4>1, <4>2, TimesGrow
      <4> QED BY <1>7, <2>2, <3>2, <4>3 DEF Exact
    <3> QED BY <1>1, <3>1, <3>2
  <2>6. SearchKnown(c, t, x)
    BY <2>2, <2>5 DEF SearchKnown
  <2>7. CacheKnown' /\ blockSamples' \in Seq(Block) /\ blockCache' \in Seq(SearchTime \X Block)
    BY <1>1, <2>4 DEF SearchTypeOK, CacheKnown, CachedIsFinal, Seen, Sound, OneHistory, Unreadable
  <2> QED BY <1>1, <2>2, <2>4, <2>6, <2>7, OneSearchMoves
<1>9. CASE Readable(c, n)
  <2>1. Seen(n) /\ n \in Block /\ TimeOf[n] \in Nat
    BY <1>1, <1>9, SeenIsReadable, TimesGrow, SearchAssumption DEF Seen, Block, SearchTypeOK
  <2>2. blockSamples' \in Seq(Block) /\ \A i \in DOMAIN blockSamples' : Seen(blockSamples'[i])
    BY <1>1, <1>2, <1>9, <2>1, SamplesKept
  <2>3. CASE TimeOf[n] = t
    <3>1. AnswerWith(c, t, n) /\ blockCache' = WithCached(t, n)
      BY <1>2, <1>9, <2>3
    <3>2. Sound(n, t, Top) /\ Sound(n, t, s.latest)
      BY <1>1, <2>1, <2>3 DEF Sound
    <3>3. /\ blockCache' \in Seq(SearchTime \X Block) /\ CachedIsFinal'
          /\ (\A i \in DOMAIN blockCache : Seen(blockCache[i][2]))'
      BY <1>1, <2>1, <3>1, <3>2, CacheKept
    <3>4. CacheKnown'
      BY <1>1, <2>2, <3>3 DEF CacheKnown, Seen, OneHistory
    <3>5. EndSearch(c, t, "answered", n, s.latest)
      BY <3>1 DEF AnswerWith, s
    <3> QED BY <1>1, <1>4, <2>1, <2>2, <3>2, <3>3, <3>4, <3>5, AnswerKnown
  <2>4. CASE TimeOf[n] # t
    <3> DEFINE x == Narrowed(next, n, t)
    <3>1. Set(c, t, x) /\ UNCHANGED blockCache
      BY <1>2, <1>9, <2>4
    <3>2. Bracket(c, t, s)
      BY <1>1, <1>7, <2>4
    <3>3. CacheKnown' /\ blockCache' \in Seq(SearchTime \X Block)
      BY <1>1, <2>2, <3>1 DEF SearchTypeOK, CacheKnown, CachedIsFinal, Seen, Sound, OneHistory, Unreadable
    <3>4. x \in SearchRecord /\ x.at = "probe" /\ Bracket(c, t, x)
      <4>1. CASE TimeOf[n] < t
        <5>1. x = [next EXCEPT !.best = n, !.low = n + 1, !.lowTime = TimeOf[n]]
          BY <4>1 DEF Narrowed
        <5> HIDE DEF x
        <5>2. /\ x \in SearchRecord /\ x.at = "probe"
              /\ x.low = n + 1 /\ x.high = s.high /\ x.best = n /\ x.lowTime = TimeOf[n]
          <6> DEFINE y == [next EXCEPT !.best = n]
                     z == [y EXCEPT !.low = n + 1]
          <6>1. x = [z EXCEPT !.lowTime = TimeOf[n]]
            BY <5>1
          <6>2. y \in SearchRecord /\ y.at = "probe" /\ y.high = s.high /\ y.best = n
            BY <1>5, <1>6 DEF SearchRecord
          <6> HIDE DEF y
          <6>3. z \in SearchRecord /\ z.at = "probe" /\ z.high = s.high /\ z.best = n /\ z.low = n + 1
            BY <1>5, <6>2 DEF SearchRecord
          <6> HIDE DEF z
          <6> QED BY <2>1, <6>1, <6>3 DEF SearchRecord
        <5> QED BY <1>1, <1>3, <2>1, <3>2, <4>1, <5>2, EarlierKnown
      <4>2. CASE ~(TimeOf[n] < t)
        <5>1. x = [next EXCEPT !.high = n - 1, !.highTime = TimeOf[n]]
          BY <4>2 DEF Narrowed
        <5> HIDE DEF x
        <5>2. /\ x \in SearchRecord /\ x.at = "probe"
              /\ x.low = s.low /\ x.high = n - 1 /\ x.best = s.best /\ x.lowTime = s.lowTime
          <6> DEFINE y == [next EXCEPT !.high = n - 1]
          <6>1. x = [y EXCEPT !.highTime = TimeOf[n]]
            BY <5>1
          <6>2. /\ y \in SearchRecord /\ y.at = "probe"
                /\ y.low = s.low /\ y.high = n - 1 /\ y.best = s.best /\ y.lowTime = s.lowTime
            BY <1>5, <1>6 DEF SearchRecord
          <6> HIDE DEF y
          <6> QED BY <2>1, <6>1, <6>2 DEF SearchRecord
        <5>3. x.missing = s.missing
          BY <1>6, <5>1 DEF SearchRecord
        <5>4. TimeOf[n] > t
          BY <1>1, <2>1, <2>4, <4>2
        <5> QED BY <1>1, <1>3, <2>1, <3>2, <5>2, <5>3, <5>4, LaterKnown
      <4> QED BY <4>1, <4>2
    <3> HIDE DEF x
    <3>5. SearchKnown(c, t, x)
      BY <3>4 DEF SearchKnown
    <3> QED BY <1>1, <2>2, <3>1, <3>3, <3>4, <3>5, OneSearchMoves
  <2> QED BY <2>3, <2>4
<1> QED BY <1>8, <1>9

(* Nothing is left to search: the best block is the last one of the time.   *)
LEMMA FinishStep ==
  ASSUME BlockSearchSound, NEW c \in Client, NEW t \in SearchTime, Finish(c, t)
  PROVE  BlockSearchSound'
<1> DEFINE s == search[c][t]
<1>1. /\ s \in SearchRecord /\ s.at = "probe" /\ s.low > s.high /\ (Exact(t, s) \/ Bracket(c, t, s))
      /\ UNCHANGED <<head, gap, blockSamples>> /\ t \in Nat /\ SearchTypeOK /\ CacheKnown
  BY SearchAssumption DEF Finish, BlockSearchSound, SearchKnown, SearchTypeOK
<1>2. IF s.missing /\ s.lowTime = 0 THEN EndSearch(c, t, "missing", 0, 0) /\ UNCHANGED blockCache
      ELSE EndSearch(c, t, "answered", s.best, s.latest) /\ blockCache' = WithCached(t, s.best)
  BY DEF Finish, AnswerWith
<1> HIDE DEF s
<1>3. s.low \in Nat /\ s.high \in Int /\ s.best \in Nat /\ s.latest \in Nat /\ s.lowTime \in Nat
  BY <1>1 DEF SearchRecord
<1>4. Seen(s.best) /\ s.best \in Block
  <2>1. Seen(s.best)
    BY <1>1 DEF Exact, Bracket
  <2> QED BY <1>1, <2>1, SearchAssumption DEF Seen, SearchTypeOK, Block
<1>5. gap[c] \in Nat /\ head \in Nat /\ head <= Top /\ Top \in Nat /\ 0 \in Block
  BY <1>1, GapsKnown, SearchAssumption DEF SearchTypeOK, Block
<1>6. CASE Exact(t, s)
  <2>1. s.lowTime # 0 /\ TimeOf[s.best] = t
    BY <1>1, <1>3, <1>6 DEF Exact
  <2>2. Sound(s.best, t, Top) /\ Sound(s.best, t, s.latest)
    BY <2>1 DEF Sound
  <2>3. EndSearch(c, t, "answered", s.best, s.latest) /\ blockCache' = WithCached(t, s.best)
    BY <1>2, <2>1
  <2>4. /\ blockCache' \in Seq(SearchTime \X Block) /\ CachedIsFinal'
        /\ (\A i \in DOMAIN blockCache : Seen(blockCache[i][2]))'
    BY <1>1, <1>4, <2>2, <2>3, CacheKept
  <2>5. CacheKnown' /\ blockSamples' \in Seq(Block)
    BY <1>1, <2>4 DEF CacheKnown, Seen, OneHistory, SearchTypeOK
  <2> QED BY <1>1, <1>3, <1>4, <2>2, <2>3, <2>4, <2>5, AnswerKnown
<1> SUFFICES ASSUME ~Exact(t, s) PROVE BlockSearchSound'
  BY <1>6
<1>7. Bracket(c, t, s) /\ s.low = s.high + 1
  <2>1. Bracket(c, t, s)
    BY <1>1
  <2> QED BY <1>1, <1>3, <2>1 DEF Bracket
<1>8. CASE s.missing /\ s.lowTime = 0
  <2>1. ASSUME NEW n \in 1..head, Readable(c, n) PROVE TimeOf[n] > t
    <3>1. n \in Block /\ n \in Nat /\ n > gap[c] /\ n >= s.low
      <4>1. n \in Block /\ n \in Nat /\ n > gap[c]
        BY <1>5, <2>1 DEF Readable, Block
      <4>2. s.best = 0
        BY <1>4, <1>7, <1>8 DEF Bracket
      <4>3. n < s.low => n <= gap[c]
        BY <1>4, <1>7, <4>1, <4>2 DEF Bracket
      <4> QED BY <1>3, <1>5, <4>1, <4>3
    <3>2. \E m \in Block : m <= n /\ TimeOf[m] > t
      BY <1>3, <1>4, <1>7, <1>5, <3>1 DEF Bracket, Block
    <3> QED BY <1>1, <3>1, <3>2, TimesGrow
  <2> QED BY <1>1, <1>2, <1>8, <2>1, EndedKnown
<1>9. CASE ~(s.missing /\ s.lowTime = 0)
  <2>1. ASSUME OneHistory PROVE s.low <= s.best + 1
    <3>1. CASE ~s.missing
      BY <1>4, <1>7, <3>1 DEF Bracket
    <3>2. CASE s.lowTime # 0
      <4>1. s.best > gap[c] \/ gap[c] = 0
        BY <1>4, <1>7, <2>1, <3>2 DEF Bracket
      <4>2. ASSUME s.low > s.best + 1 PROVE FALSE
        <5>1. s.best + 1 \in Block /\ s.best < s.best + 1 /\ s.best + 1 < s.low
          BY <1>3, <1>4, <1>7, <1>5, <4>2 DEF Bracket, Block
        <5>2. s.best + 1 <= gap[c]
          BY <1>4, <1>7, <5>1 DEF Bracket
        <5> QED BY <1>3, <1>5, <4>1, <5>2
      <4> QED BY <1>3, <4>2
    <3> QED BY <1>9, <3>1, <3>2
  <2>2. TimeOf[s.best] < t \/ s.best = 0
    BY <1>4, <1>7 DEF Bracket
  <2>3. TimeOf[0] \in Nat /\ TimeOf[s.best] \in Nat
    BY <1>4, <1>7, <1>5, TimesGrow
  <2>4. ASSUME NEW m \in Block, s.best < m, TimeOf[m] <= t PROVE m \in Unreadable /\ ~OneHistory
    <3>1. m \in Nat /\ TimeOf[m] \in Nat /\ TimeOf[0] <= TimeOf[m]
      BY <1>5, TimesGrow
    <3>2. m < s.low
      <4>1. PICK n \in Block : TimeOf[n] > t /\ n \in {s.high, s.high + 1}
        BY <1>1, <1>4, <1>7, <1>5, <2>3, <2>4, <3>1 DEF Bracket, Block
      <4>2. n \in Nat /\ TimeOf[n] \in Nat /\ TimeOf[m] < TimeOf[n]
        BY <1>1, <2>4, <3>1, <4>1, TimesGrow
      <4>3. m < n
        BY <4>2, TimesGrow
      <4> QED BY <1>3, <1>4, <1>7, <3>1, <4>1, <4>2, <4>3
    <3>3. m <= gap[c]
      BY <1>4, <1>7, <2>4, <3>2 DEF Bracket
    <3> QED BY <1>3, <2>1, <2>4, <3>1, <3>2, <3>3 DEF Unreadable
  <2>5. Sound(s.best, t, Top)
    BY <2>2, <2>4 DEF Sound
  <2>6. Sound(s.best, t, s.latest)
    BY <1>4, <1>7, <2>5, SoundForGood
  <2>7. EndSearch(c, t, "answered", s.best, s.latest) /\ blockCache' = WithCached(t, s.best)
    BY <1>2, <1>9
  <2>8. /\ blockCache' \in Seq(SearchTime \X Block) /\ CachedIsFinal'
        /\ (\A i \in DOMAIN blockCache : Seen(blockCache[i][2]))'
    BY <1>1, <1>4, <1>7, <2>5, <2>7, CacheKept
  <2>9. CacheKnown' /\ blockSamples' \in Seq(Block)
    BY <1>1, <2>8 DEF CacheKnown, Seen, OneHistory, SearchTypeOK
  <2> QED BY <1>1, <1>3, <1>4, <1>7, <2>6, <2>7, <2>8, <2>9, AnswerKnown
<1> QED BY <1>8, <1>9

(* The chain grows by a block that is no earlier than the ones before.      *)
LEMMA AdvanceStep ==
  ASSUME BlockSearchSound, Advance
  PROVE  BlockSearchSound'
<1>1. /\ head' = head + 1 /\ head + 1 \in Block /\ head \in Block /\ head \in Nat /\ Top \in Nat
      /\ UNCHANGED <<gap, blockCache, blockSamples, search>>
  BY SearchAssumption DEF Advance, BlockSearchSound, SearchTypeOK, Block
<1>2. SearchTypeOK'
  BY <1>1, SearchAssumption DEF BlockSearchSound, SearchTypeOK, Block
<1>3. OneHistory' = OneHistory /\ Unreadable' = Unreadable /\ \A n : Seen(n) => Seen(n)'
  BY <1>1 DEF Seen, OneHistory, Unreadable
<1>4. CacheKnown'
  BY <1>1, <1>3 DEF BlockSearchSound, CacheKnown, CachedIsFinal, Sound
<1>5. ASSUME NEW c \in Client, NEW t \in SearchTime
      PROVE  SearchKnown(c, t, search[c][t])'
  <2> DEFINE s == search[c][t]
  <2>1. s' = s /\ SearchKnown(c, t, s) /\ s \in SearchRecord /\ t \in Nat
    BY <1>1, SearchAssumption DEF BlockSearchSound, SearchTypeOK
  <2> HIDE DEF s
  <2>2. gap[c] \in Nat /\ gap[c] < head
    BY <1>1, GapsKnown DEF BlockSearchSound
  <2>3. ASSUME s.at = "missing" PROVE \A n \in 1..head' : Readable(c, n)' => TimeOf[n] > t
    <3>1. ASSUME NEW n \in 1..head', Readable(c, n)' PROVE TimeOf[n] > t
      <4>1. TimeOf[head] > t
        <5>1. head \in 1..head /\ Readable(c, head)
          BY <1>1, <2>2 DEF Readable
        <5> QED BY <2>1, <2>3, <5>1 DEF SearchKnown
      <4>2. CASE n \in 1..head
        <5>1. Readable(c, n)
          BY <1>1, <3>1, <4>2 DEF Readable
        <5> QED BY <2>1, <2>3, <4>2, <5>1 DEF SearchKnown
      <4>3. CASE n = head + 1
        <5>1. head <= head + 1 /\ head + 1 \in Block
          BY <1>1
        <5>2. TimeOf[head] <= TimeOf[n]
          BY <1>1, <4>3, <5>1, TimesGrow
        <5>3. TimeOf[head] \in Nat /\ TimeOf[n] \in Nat
          BY <1>1, <4>3, TimesGrow
        <5> QED BY <2>1, <4>1, <5>2, <5>3
      <4> QED BY <1>1, <4>2, <4>3
    <3> QED BY <3>1
  <2>4. ASSUME s.at = "probe" PROVE Exact(t, s)' \/ Bracket(c, t, s)'
    <3>1. CASE Exact(t, s)
      BY <1>3, <2>1, <3>1 DEF Exact
    <3>2. CASE Bracket(c, t, s)
      <4>1. Seen(s.best)' /\ s.high <= head'
        <5>1. s.high <= head /\ s.high \in Int
          BY <2>1, <3>2 DEF Bracket, SearchRecord
        <5>2. Seen(s.best)
          BY <3>2 DEF Bracket
        <5>3. Seen(s.best)'
          BY <1>3, <2>1, <5>2
        <5> QED BY <1>1, <5>1, <5>3
      <4>2. s.high + 1 \in 0 .. head => s.high + 1 \in 0 .. head'
        BY <1>1
      <4> QED BY <1>1, <1>3, <2>1, <3>2, <4>1, <4>2 DEF Bracket
    <3> QED BY <2>1, <2>4, <3>1, <3>2 DEF SearchKnown
  <2>5. s.at = "answered" => Sound(s.best, t, s.latest)' /\ Seen(s.best)'
    BY <1>3, <2>1 DEF SearchKnown, Sound
  <2>6. s.at = "latest" => s = [NoSearch EXCEPT !.at = "latest"]
    BY <2>1 DEF SearchKnown
  <2>7. SearchKnown(c, t, s)'
    BY <2>1, <2>3, <2>4, <2>5, <2>6 DEF SearchKnown, NoSearch
  <2> QED BY <2>7 DEF s
<1> QED BY <1>2, <1>4, <1>5 DEF BlockSearchSound

LEMMA BlockSearchStep ==
  ASSUME BlockSearchSound, [BlockSearchNext]_searchVars
  PROVE  BlockSearchSound'
<1>1. CASE UNCHANGED searchVars
  <2>1. UNCHANGED <<head, gap, blockCache, blockSamples, search>>
    BY <1>1 DEF searchVars
  <2>2. SearchTypeOK' /\ CacheKnown'
    BY <2>1 DEF BlockSearchSound, SearchTypeOK, CacheKnown, CachedIsFinal, Seen, Sound, OneHistory, Unreadable
  <2>3. \A c \in Client, t \in SearchTime : SearchKnown(c, t, search[c][t])'
    BY <2>1 DEF BlockSearchSound, SearchKnown, Exact, Bracket, Seen, Sound, OneHistory, Unreadable, Readable, NoSearch
  <2> QED BY <2>2, <2>3 DEF BlockSearchSound
<1>2. ASSUME NEW c \in Client, NEW t \in SearchTime, ReadFails(c, t)
      PROVE  BlockSearchSound'
  BY <1>2, EndedKnown DEF ReadFails
<1> QED BY <1>1, <1>2, AdvanceStep, AskBlockStep, ReadLatestStep, ProbeStep, FinishStep
        DEF BlockSearchNext, SearchStep

(* Every answer is the last block of its time and a missing one cannot be   *)
(* read, for any chain, lag, samples, searches and growth (clients/rpc.ts). *)
(* Only clients with different histories may pass over a block, and only    *)
(* over one that some of them lacks.                                        *)
THEOREM BlockTheorem == BlockSearchSpec => []AnswersAreLast
<1>1. BlockSearchInit => BlockSearchSound
  BY BlockSearchSoundInit
<1>2. BlockSearchSound /\ [BlockSearchNext]_searchVars => BlockSearchSound'
  BY BlockSearchStep
<1>3. BlockSearchSound => AnswersAreLast
  <2>1. ASSUME BlockSearchSound, NEW c \in Client, NEW t \in SearchTime, search[c][t].at = "answered"
        PROVE  /\ Sound(search[c][t].best, t, search[c][t].latest)
               /\ OneHistory => Readable(c, search[c][t].best)
    BY <2>1, SeenIsReadable DEF BlockSearchSound, SearchKnown
  <2>2. ASSUME BlockSearchSound, NEW c \in Client, NEW t \in SearchTime, search[c][t].at = "missing"
        PROVE  \A n \in 1..head : Readable(c, n) => TimeOf[n] > t
    BY <2>2 DEF BlockSearchSound, SearchKnown
  <2> QED BY <2>1, <2>2 DEF BlockSearchSound, CacheKnown, AnswersAreLast
<1> QED BY <1>1, <1>2, <1>3, PTL DEF BlockSearchSpec
-----------------------------------------------------------------------------
(* ProviderClient *)

(* Ages are counted from the youngest, which is last.                       *)
Back(ages, k) == ages[Len(ages) - k]
OldestFirst(ages) == \A i, j \in 0..(Len(ages) - 1) : i <= j => Back(ages, i) <= Back(ages, j)

(* Every one of the requests was granted a turn that is at most as old.     *)
TurnForEach(requests, turns) ==
  /\ Len(requests) <= Len(turns)
  /\ \A k \in 0..(Len(requests) - 1) : Back(turns, k) <= Back(requests, k)

CallRecord == [at : Outcome \cup {"idle", "turn", "limiter", "sent", "backoff"},
               attempt : 1..Len(RetryDelays), sleep : Nat, aborted : BOOLEAN, policy : Policies]

LEMMA BackIsAge ==
  ASSUME NEW ages \in Seq(0..Interval)
  PROVE  /\ Len(ages) \in Nat /\ Interval \in Nat /\ DOMAIN ages = 1..Len(ages)
         /\ \A k \in 0..(Len(ages) - 1) : Back(ages, k) \in 0..Interval /\ Back(ages, k) \in Int
<1>1. /\ Len(ages) \in Nat /\ Interval \in Nat /\ DOMAIN ages = 1..Len(ages)
      /\ ages \in [1..Len(ages) -> 0..Interval]
  BY LenProperties, ClientAssumption
<1>2. ASSUME NEW k \in 0..(Len(ages) - 1) PROVE Back(ages, k) \in 0..Interval
  <2>1. Len(ages) - k \in 1..Len(ages)
    BY <1>1
  <2> QED BY <1>1, <2>1 DEF Back
<1> QED BY <1>1, <1>2

(* What is left within the interval is the end of the sequence.             *)
LEMMA WithinIsTheEnd ==
  ASSUME NEW ages \in Seq(0..Interval), OldestFirst(ages)
  PROVE  /\ Within(ages) \in Seq(0..Interval) /\ Len(Within(ages)) <= Len(ages)
         /\ \A k \in 0..(Len(Within(ages)) - 1) :
              Back(Within(ages), k) = Back(ages, k) /\ Back(Within(ages), k) < Interval
         /\ \A k \in 0..(Len(ages) - 1) : Back(ages, k) < Interval => k < Len(Within(ages))
<1> DEFINE L == Len(ages)
           Last(n) == /\ \A i \in 1..n : ages[i] >= Interval
                      /\ n < L => ages[n + 1] < Interval
           young == {i \in 1..L : ages[i] < Interval}
<1>1. /\ L \in Nat /\ \A i \in 1..L : ages[i] \in 0..Interval
      /\ Interval \in Nat /\ \A k \in 0..(L - 1) : Back(ages, k) \in Int
  BY BackIsAge, LenProperties, ElementOfSeq
<1>2. \E n \in 0..L : Last(n)
  <2>1. CASE young = {}
    <3>1. \A i \in 1..L : ages[i] >= Interval
      BY <1>1, <2>1
    <3> QED BY <1>1, <3>1
  <2>2. CASE young # {}
    <3>1. PICK i \in young : \A j \in young : i <= j
      BY <1>1, <2>2, LeastOf, young \in SUBSET Nat
    <3>2. i - 1 \in 0..L /\ i - 1 + 1 = i /\ ages[i] < Interval
      BY <1>1, <3>1
    <3>3. \A j \in 1..(i - 1) : ages[j] >= Interval
      BY <1>1, <3>1, <3>2
    <3> QED BY <3>2, <3>3
  <2> QED BY <2>1, <2>2
<1>3. PICK n : n = CHOOSE m \in 0..L : Last(m)
  OBVIOUS
<1>4. /\ n \in 0..L /\ \A i \in 1..n : ages[i] >= Interval
      /\ n < L => ages[n + 1] < Interval
  BY <1>2, <1>3
<1>5. Within(ages) = SubSeq(ages, n + 1, L)
  BY <1>3 DEF Within
<1>6. PICK left : left = SubSeq(ages, n + 1, L)
  OBVIOUS
<1> HIDE DEF Last, young
<1>7. /\ left \in Seq(0..Interval) /\ Len(left) = L - n
      /\ \A i \in 1..(L - n) : left[i] = ages[n + i]
  <2>1. \A i \in (n + 1)..L : ages[i] \in 0..Interval
    BY <1>1, <1>4
  <2>2. /\ left \in Seq(0..Interval)
        /\ Len(left) = IF n + 1 <= L THEN L - (n + 1) + 1 ELSE 0
        /\ \A i \in 1..(L - (n + 1) + 1) : left[i] = ages[n + 1 + i - 1]
    BY <1>1, <1>4, <1>6, <2>1, SubSeqProperties
  <2>3. Len(left) = L - n
    BY <1>1, <1>4, <2>2
  <2>4. ASSUME NEW i \in 1..(L - n) PROVE left[i] = ages[n + i]
    <3>1. i \in 1..(L - (n + 1) + 1) /\ n + 1 + i - 1 = n + i
      BY <1>1, <1>4
    <3> QED BY <2>2, <3>1
  <2> QED BY <2>2, <2>3, <2>4
<1>8. ASSUME NEW k \in 0..(Len(left) - 1) PROVE Back(left, k) = Back(ages, k) /\ Back(left, k) < Interval
  <2>1. /\ L - n - k \in 1..(L - n) /\ n + (L - n - k) = L - k
        /\ k \in 0..(L - 1) /\ L - (n + 1) \in 0..(L - 1) /\ k <= L - (n + 1)
        /\ L - (L - (n + 1)) = n + 1 /\ n < L
    BY <1>1, <1>4, <1>7
  <2>2. Back(left, k) = Back(ages, k)
    BY <1>7, <2>1 DEF Back
  <2>3. Back(ages, L - (n + 1)) = ages[n + 1]
    BY <2>1 DEF Back
  <2>4. Back(ages, k) <= Back(ages, L - (n + 1))
    BY <2>1 DEF OldestFirst
  <2>5. ages[n + 1] < Interval
    BY <1>4, <2>1
  <2> QED BY <1>1, <2>1, <2>2, <2>3, <2>4, <2>5
<1>9. ASSUME NEW k \in 0..(L - 1), Back(ages, k) < Interval PROVE k < Len(left)
  <2>1. L - k \in 1..L /\ ages[L - k] < Interval /\ ages[L - k] \in 0..Interval
    BY <1>1, <1>9 DEF Back
  <2>2. ~(L - k \in 1..n)
    BY <1>1, <1>4, <2>1
  <2> QED BY <1>1, <1>4, <1>7, <2>1, <2>2
<1>10. Len(left) <= L
  BY <1>1, <1>4, <1>7
<1>11. left = Within(ages)
  BY <1>5, <1>6
<1> HIDE DEF L
<1>12. /\ left \in Seq(0..Interval) /\ Len(left) <= L
       /\ \A k \in 0..(Len(left) - 1) : Back(left, k) = Back(ages, k) /\ Back(left, k) < Interval
       /\ \A k \in 0..(L - 1) : Back(ages, k) < Interval => k < Len(left)
  BY <1>7, <1>8, <1>9, <1>10
<1> QED BY <1>11, <1>12 DEF L

LEMMA WithinIsOrdered ==
  ASSUME NEW ages \in Seq(0..Interval), OldestFirst(ages)
  PROVE  OldestFirst(Within(ages))
<1>1. PICK left : left = Within(ages)
  OBVIOUS
<1>2. Len(ages) \in Nat /\ Len(left) \in Nat /\ Len(left) <= Len(ages)
  BY <1>1, WithinIsTheEnd, BackIsAge
<1>3. ASSUME NEW i \in 0..(Len(left) - 1), NEW j \in 0..(Len(left) - 1), i <= j
      PROVE  Back(left, i) <= Back(left, j)
  <2>1. i \in 0..(Len(ages) - 1) /\ j \in 0..(Len(ages) - 1)
    BY <1>2
  <2>2. Back(left, i) = Back(ages, i) /\ Back(left, j) = Back(ages, j)
    BY <1>1, <1>3, WithinIsTheEnd
  <2>3. Back(ages, i) <= Back(ages, j)
    BY <1>3, <2>1 DEF OldestFirst
  <2> QED BY <2>2, <2>3
<1> QED BY <1>1, <1>3 DEF OldestFirst

(* Forgetting the turns past the interval forgets none of a request that    *)
(* still counts.                                                            *)
LEMMA ForgetsNoRequest ==
  ASSUME NEW ages \in Seq(0..Interval), NEW turns \in Seq(0..Interval), OldestFirst(turns),
         \A k \in 0..(Len(ages) - 1) : Back(ages, k) < Interval, TurnForEach(ages, turns)
  PROVE  TurnForEach(ages, Within(turns))
<1>1. PICK left : left = Within(turns)
  OBVIOUS
<1>2. /\ Len(ages) \in Nat /\ Len(turns) \in Nat /\ Interval \in Nat
      /\ \A k \in 0..(Len(ages) - 1) : Back(ages, k) \in Int
      /\ \A k \in 0..(Len(turns) - 1) : Back(turns, k) \in Int
  BY BackIsAge
<1>3. /\ left \in Seq(0..Interval)
      /\ \A k \in 0..(Len(left) - 1) : Back(left, k) = Back(turns, k)
      /\ \A k \in 0..(Len(turns) - 1) : Back(turns, k) < Interval => k < Len(left)
  BY <1>1, WithinIsTheEnd
<1>4. Len(left) \in Nat
  BY <1>3, LenProperties
<1>5. ASSUME NEW k \in 0..(Len(ages) - 1)
      PROVE  k < Len(left) /\ Back(left, k) <= Back(ages, k)
  <2>1. Back(turns, k) <= Back(ages, k) /\ Len(ages) <= Len(turns)
    BY <1>5 DEF TurnForEach
  <2>2. k \in 0..(Len(turns) - 1)
    BY <1>2, <2>1
  <2>3. Back(turns, k) < Interval
    BY <1>2, <1>5, <2>1, <2>2
  <2>4. k < Len(left)
    BY <1>3, <2>2, <2>3
  <2>5. k \in 0..(Len(left) - 1)
    BY <1>4, <2>4
  <2> QED BY <1>3, <2>1, <2>4, <2>5
<1>6. Len(ages) <= Len(left)
  <2>1. CASE Len(ages) = 0
    BY <1>4, <2>1
  <2>2. CASE Len(ages) # 0
    <3>1. Len(ages) - 1 \in 0..(Len(ages) - 1)
      BY <1>2, <2>2
    <3>2. Len(ages) - 1 < Len(left)
      BY <1>5, <3>1
    <3> QED BY <1>2, <1>4, <3>2
  <2> QED BY <2>1, <2>2
<1> QED BY <1>1, <1>5, <1>6 DEF TurnForEach

LEMMA NewAge ==
  ASSUME NEW ages \in Seq(0..Interval), OldestFirst(ages)
  PROVE  /\ Append(ages, 0) \in Seq(0..Interval) /\ Len(Append(ages, 0)) = Len(ages) + 1
         /\ Back(Append(ages, 0), 0) = 0
         /\ \A k \in 0..(Len(ages) - 1) : Back(Append(ages, 0), k + 1) = Back(ages, k)
         /\ OldestFirst(Append(ages, 0))
<1>1. PICK more : more = Append(ages, 0)
  OBVIOUS
<1>2. /\ Len(ages) \in Nat /\ Interval \in Nat /\ 0 \in 0..Interval
      /\ \A k \in 0..(Len(ages) - 1) : Back(ages, k) \in Nat
  BY BackIsAge
<1>3. /\ more \in Seq(0..Interval) /\ Len(more) = Len(ages) + 1
      /\ \A i \in 1..Len(ages) : more[i] = ages[i]
      /\ more[Len(ages) + 1] = 0
  BY <1>1, <1>2, AppendProperties
<1>4. Back(more, 0) = 0
  BY <1>2, <1>3, Len(ages) + 1 - 0 = Len(ages) + 1 DEF Back
<1>5. ASSUME NEW k \in 0..(Len(ages) - 1) PROVE Back(more, k + 1) = Back(ages, k)
  <2>1. Len(ages) + 1 - (k + 1) = Len(ages) - k /\ Len(ages) - k \in 1..Len(ages)
    BY <1>2
  <2> QED BY <1>3, <2>1 DEF Back
<1>6. ASSUME NEW i \in 0..(Len(more) - 1), NEW j \in 0..(Len(more) - 1), i <= j
      PROVE  Back(more, i) <= Back(more, j)
  <2>1. CASE j = 0
    <3>1. i = 0
      BY <1>6, <2>1
    <3> QED BY <1>4, <2>1, <3>1
  <2>2. CASE j # 0
    <3>1. j - 1 \in 0..(Len(ages) - 1) /\ j - 1 + 1 = j
      BY <1>2, <1>3, <2>2
    <3>2. Back(more, j) = Back(ages, j - 1)
      BY <1>5, <3>1
    <3>3. CASE i = 0
      BY <1>2, <1>4, <3>1, <3>2, <3>3
    <3>4. CASE i # 0
      <4>1. i - 1 \in 0..(Len(ages) - 1) /\ i - 1 + 1 = i /\ i - 1 <= j - 1
        BY <1>2, <1>3, <1>6, <3>1, <3>4
      <4>2. Back(more, i) = Back(ages, i - 1)
        BY <1>5, <4>1
      <4>3. Back(ages, i - 1) <= Back(ages, j - 1)
        BY <3>1, <4>1 DEF OldestFirst
      <4> QED BY <3>2, <4>2, <4>3
    <3> QED BY <3>3, <3>4
  <2> QED BY <2>1, <2>2
<1> QED BY <1>1, <1>3, <1>4, <1>5, <1>6 DEF OldestFirst

(* A turn that is granted serves the requests that were there, and one more *)
(* that leaves at the same moment.                                          *)
LEMMA TurnGranted ==
  ASSUME NEW ages \in Seq(0..Interval), NEW turns \in Seq(0..Interval), OldestFirst(turns), OldestFirst(ages),
         TurnForEach(ages, turns)
  PROVE  TurnForEach(ages, Append(turns, 0)) /\ TurnForEach(Append(ages, 0), Append(turns, 0))
<1>1. /\ Len(ages) \in Nat /\ Len(turns) \in Nat
      /\ \A k \in 0..(Len(ages) - 1) : Back(ages, k) \in Nat
      /\ \A k \in 0..(Len(turns) - 1) : Back(turns, k) \in Nat
  BY BackIsAge
<1>2. PICK grown : grown = Append(turns, 0)
  OBVIOUS
<1>3. PICK more : more = Append(ages, 0)
  OBVIOUS
<1>4. /\ Len(grown) = Len(turns) + 1 /\ Back(grown, 0) = 0
      /\ \A k \in 0..(Len(turns) - 1) : Back(grown, k + 1) = Back(turns, k)
      /\ OldestFirst(grown)
  BY <1>2, NewAge
<1>5. /\ Len(more) = Len(ages) + 1 /\ Back(more, 0) = 0
      /\ \A k \in 0..(Len(ages) - 1) : Back(more, k + 1) = Back(ages, k)
  BY <1>3, NewAge
<1>6. Len(ages) <= Len(turns) /\ \A k \in 0..(Len(ages) - 1) : Back(turns, k) <= Back(ages, k)
  BY DEF TurnForEach
<1>7. ASSUME NEW k \in 0..(Len(ages) - 1)
      PROVE  Back(grown, k + 1) = Back(turns, k) /\ Back(grown, k) <= Back(ages, k)
  <2>1. k \in 0..(Len(turns) - 1) /\ k \in 0..(Len(grown) - 1) /\ k + 1 \in 0..(Len(grown) - 1) /\ k <= k + 1
    BY <1>1, <1>4, <1>6
  <2>2. Back(grown, k + 1) = Back(turns, k)
    BY <1>4, <2>1
  <2>3. Back(grown, k) <= Back(grown, k + 1)
    BY <1>4, <2>1 DEF OldestFirst
  <2>4. Back(grown, k) \in Int
    <3>1. CASE k = 0
      BY <1>4, <3>1
    <3>2. CASE k # 0
      <4>1. k - 1 \in 0..(Len(turns) - 1) /\ k - 1 + 1 = k
        BY <1>1, <2>1, <3>2
      <4>2. Back(grown, k - 1 + 1) = Back(turns, k - 1) /\ Back(turns, k - 1) \in Int
        BY <1>1, <1>4, <4>1
      <4> QED BY <4>1, <4>2
    <3> QED BY <3>1, <3>2
  <2> QED BY <1>1, <1>6, <2>1, <2>2, <2>3, <2>4
<1>8. TurnForEach(ages, grown)
  BY <1>1, <1>4, <1>6, <1>7 DEF TurnForEach
<1>9. TurnForEach(more, grown)
  <2>1. ASSUME NEW k \in 0..(Len(more) - 1) PROVE Back(grown, k) <= Back(more, k)
    <3>1. CASE k = 0
      BY <1>4, <1>5, <3>1
    <3>2. CASE k # 0
      <4>1. k - 1 \in 0..(Len(ages) - 1) /\ k - 1 + 1 = k
        BY <1>1, <1>5, <3>2
      <4> QED BY <1>5, <1>6, <1>7, <4>1
    <3> QED BY <3>1, <3>2
  <2> QED BY <1>1, <1>4, <1>5, <1>6, <2>1 DEF TurnForEach
<1> QED BY <1>2, <1>3, <1>8, <1>9

LEMMA OlderAges ==
  ASSUME NEW ages \in Seq(0..Interval), OldestFirst(ages)
  PROVE  /\ Older(ages) \in Seq(0..Interval) /\ Len(Older(ages)) = Len(ages)
         /\ \A k \in 0..(Len(ages) - 1) :
              Back(Older(ages), k) = IF Back(ages, k) < Interval THEN Back(ages, k) + 1 ELSE Interval
         /\ OldestFirst(Older(ages))
<1>1. /\ Len(ages) \in Nat /\ Interval \in Nat /\ DOMAIN ages = 1..Len(ages)
      /\ \A k \in 0..(Len(ages) - 1) : Back(ages, k) \in 0..Interval /\ Back(ages, k) \in Int
      /\ ages \in [1..Len(ages) -> 0..Interval]
  BY BackIsAge, LenProperties
<1>2. PICK old : old = Older(ages)
  OBVIOUS
<1>3. /\ old \in [1..Len(ages) -> 0..Interval]
      /\ \A i \in 1..Len(ages) : old[i] = IF ages[i] < Interval THEN ages[i] + 1 ELSE Interval
  BY <1>1, <1>2 DEF Older
<1>4. old \in Seq(0..Interval) /\ Len(old) = Len(ages)
  BY <1>1, <1>3
<1>5. ASSUME NEW k \in 0..(Len(ages) - 1)
      PROVE  Back(old, k) = IF Back(ages, k) < Interval THEN Back(ages, k) + 1 ELSE Interval
  <2>1. Len(ages) - k \in 1..Len(ages)
    BY <1>1
  <2> QED BY <1>3, <1>4, <2>1 DEF Back
<1>6. ASSUME NEW i \in 0..(Len(ages) - 1), NEW j \in 0..(Len(ages) - 1), i <= j
      PROVE  Back(old, i) <= Back(old, j)
  <2>1. Back(ages, i) <= Back(ages, j)
    BY <1>6 DEF OldestFirst
  <2> QED BY <1>1, <1>5, <2>1
<1> QED BY <1>2, <1>4, <1>5, <1>6 DEF OldestFirst

(* What a call may become between its steps.                                *)
LEMMA CallMoves ==
  ASSUME call \in [HttpCall -> CallRecord], NEW c \in HttpCall,
         NEW at \in Outcome \cup {"idle", "turn", "limiter", "sent", "backoff"}, NEW sleep \in Nat,
         call' = To(c, at, sleep)
  PROVE  /\ call' \in [HttpCall -> CallRecord]
         /\ call'[c].at = at /\ call'[c].attempt = call[c].attempt
         /\ \A d \in HttpCall : d # c => call'[d] = call[d]
<1>1. PICK entry : entry = [call[c] EXCEPT !.at = at, !.sleep = sleep]
  OBVIOUS
<1>2. call[c] \in CallRecord
  OBVIOUS
<1>3. entry \in CallRecord /\ entry.at = at /\ entry.attempt = call[c].attempt
  BY <1>1, <1>2 DEF CallRecord
<1>4. call' = [call EXCEPT ![c] = entry]
  BY <1>1 DEF To
<1> HIDE DEF CallRecord
<1> QED BY <1>3, <1>4

(* The part of the invariant that is about calls, when one of them moves    *)
(* on.                                                                      *)
CallsKnown ==
  /\ call \in [HttpCall -> CallRecord]
  /\ \A d \in HttpCall : call[d].at = "backoff" => call[d].attempt # Len(RetryDelays)
AgesKnown ==
  /\ stamps \in Seq(0..Interval) /\ sent \in Seq(0..Interval) /\ cooldown \in Nat
  /\ OldestFirst(stamps) /\ Len(stamps) <= Limit
  /\ OldestFirst(sent) /\ \A k \in 0..(Len(sent) - 1) : Back(sent, k) < Interval
  /\ TurnForEach(sent, stamps)

LEMMA MoveKeepsCalls ==
  ASSUME CallsKnown, NEW c \in HttpCall,
         NEW at \in Outcome \cup {"idle", "turn", "limiter", "sent", "backoff"}, NEW sleep \in Nat,
         call' = To(c, at, sleep), at = "backoff" => ~LastAttempt(c)
  PROVE  /\ CallsKnown'
         /\ \A d \in HttpCall : call[d].at # "sent" /\ call'[d].at = "sent" => d = c /\ at = "sent"
<1>1. /\ call' \in [HttpCall -> CallRecord]
      /\ call'[c].at = at /\ call'[c].attempt = call[c].attempt
      /\ \A d \in HttpCall : d # c => call'[d] = call[d]
  BY CallMoves DEF CallsKnown
<1>2. ASSUME NEW d \in HttpCall, call'[d].at = "backoff" PROVE call'[d].attempt # Len(RetryDelays)
  BY <1>1, <1>2 DEF CallsKnown, LastAttempt
<1> QED BY <1>1, <1>2 DEF CallsKnown

LEMMA WaitsAreNat ==
  ASSUME CallsKnown, AgesKnown, NEW c \in HttpCall
  PROVE  /\ Interval \in Nat /\ Limit \in Nat /\ cooldown \in Nat /\ MaxCooldownWait \in Nat
         /\ call[c].attempt \in 1..Len(RetryDelays) /\ Len(RetryDelays) \in Nat
         /\ RetryDelays[call[c].attempt] \in Nat
         /\ \A x, y \in Nat : Larger(x, y) \in Nat
<1>1. call[c] \in CallRecord
  BY DEF CallsKnown
<1>2. call[c].attempt \in 1..Len(RetryDelays)
  BY <1>1 DEF CallRecord
<1>3. RetryDelays[call[c].attempt] \in Nat /\ Len(RetryDelays) \in Nat
  BY <1>2, ClientAssumption, ElementOfSeq, LenProperties
<1> QED BY <1>2, <1>3, ClientAssumption DEF AgesKnown, Larger

LEMMA RetryKeepsCalls ==
  ASSUME CallsKnown, AgesKnown, NEW c \in HttpCall, NEW retried \in BOOLEAN, NEW wait \in Nat,
         RetryOrFail(c, retried, wait)
  PROVE  CallsKnown' /\ \A d \in HttpCall : ~(call[d].at # "sent" /\ call'[d].at = "sent")
<1>1. Larger(wait, RetryDelays[call[c].attempt]) \in Nat
  BY WaitsAreNat
<1>2. CASE retried /\ ~LastAttempt(c)
  BY <1>1, <1>2, MoveKeepsCalls DEF RetryOrFail, Outcome
<1>3. CASE ~(retried /\ ~LastAttempt(c))
  BY <1>3, MoveKeepsCalls DEF RetryOrFail, End, Outcome
<1> QED BY <1>2, <1>3

NoneSent == \A d \in HttpCall : ~(call[d].at # "sent" /\ call'[d].at = "sent")
SentWell == \A d \in HttpCall : call[d].at # "sent" /\ call'[d].at = "sent" => cooldown = 0 /\ Len(sent') <= Limit

LEMMA TakeTurnKeeps ==
  ASSUME CallsKnown, AgesKnown, NEW c \in HttpCall, TakeTurn(c)
  PROVE  CallsKnown' /\ AgesKnown' /\ SentWell
<1>1. PICK recent : recent = Recent
  OBVIOUS
<1>2. /\ recent \in Seq(0..Interval) /\ OldestFirst(recent) /\ Len(recent) \in Nat
      /\ \A k \in 0..(Len(recent) - 1) : Back(recent, k) < Interval
      /\ TurnForEach(sent, recent)
      /\ Len(recent) <= Len(stamps)
  BY <1>1, WithinIsTheEnd, WithinIsOrdered, ForgetsNoRequest, LenProperties DEF Recent, AgesKnown
<1>3. /\ Interval \in Nat /\ Limit \in Nat \ {0} /\ cooldown \in Nat /\ Len(sent) \in Nat /\ Len(stamps) \in Nat
      /\ \A x, y \in Nat : Larger(x, y) \in Nat
      /\ Len(stamps) <= Limit
  BY WaitsAreNat, ClientAssumption, LenProperties DEF AgesKnown
<1>4. CASE ~(Len(recent) < Limit)
  <2>1. 0 < Len(recent) /\ recent # <<>>
    BY <1>2, <1>3, <1>4
  <2>2. /\ Head(recent) = recent[1] /\ Len(recent) - 1 \in 0..(Len(recent) - 1)
        /\ Len(recent) - (Len(recent) - 1) = 1
    BY <1>2, <2>1
  <2>3. Head(recent) = Back(recent, Len(recent) - 1)
    BY <2>2 DEF Back
  <2>4. Head(recent) \in Nat /\ Head(recent) < Interval
    BY <1>2, <2>2, <2>3, BackIsAge
  <2>5. Interval - Head(recent) \in Nat
    <3>1. PICK h : h = Head(recent)
      OBVIOUS
    <3>2. h \in Nat /\ h < Interval
      BY <2>4, <3>1
    <3>3. Interval - h \in Nat
      BY <1>3, <3>2
    <3> QED BY <3>1, <3>3
  <2>6. Larger(Interval - Head(recent), 1) \in Nat
    BY <1>3, <2>5
  <2>7. /\ stamps' = recent /\ UNCHANGED <<sent, cooldown>>
        /\ call' = To(c, "limiter", Larger(Interval - Head(recent), 1))
    BY <1>1, <1>4 DEF TakeTurn
  <2>8. CallsKnown' /\ \A d \in HttpCall : call[d].at # "sent" /\ call'[d].at = "sent" => FALSE
    BY <2>6, <2>7, MoveKeepsCalls
  <2>9. AgesKnown'
    BY <1>2, <1>3, <2>7 DEF AgesKnown
  <2> QED BY <2>8, <2>9 DEF SentWell
<1>5. CASE Len(recent) < Limit
  <2>1. stamps' = Append(recent, 0) /\ UNCHANGED cooldown /\ Send(c)
    BY <1>1, <1>5 DEF TakeTurn
  <2>2. /\ stamps' \in Seq(0..Interval) /\ OldestFirst(stamps') /\ Len(stamps') = Len(recent) + 1
        /\ TurnForEach(sent, stamps') /\ TurnForEach(Append(sent, 0), stamps')
    BY <1>2, <2>1, NewAge, TurnGranted DEF AgesKnown
  <2>3. Len(stamps') <= Limit
    BY <1>2, <1>3, <1>5, <2>2
  <2>4. CASE cooldown > 0
    <3>1. call' = To(c, "turn", 0) /\ UNCHANGED sent
      BY <2>1, <2>4 DEF Send
    <3>2. CallsKnown' /\ \A d \in HttpCall : call[d].at # "sent" /\ call'[d].at = "sent" => FALSE
      BY <3>1, MoveKeepsCalls
    <3>3. AgesKnown'
      BY <2>1, <2>2, <2>3, <3>1 DEF AgesKnown
    <3> QED BY <3>2, <3>3 DEF SentWell
  <2>5. CASE ~(cooldown > 0)
    <3>1. call' = To(c, "sent", 0) /\ sent' = Append(sent, 0) /\ cooldown = 0
      BY <1>3, <2>1, <2>5 DEF Send
    <3>2. CallsKnown'
      BY <3>1, MoveKeepsCalls
    <3>3. /\ sent' \in Seq(0..Interval) /\ Len(sent') = Len(sent) + 1 /\ OldestFirst(sent')
          /\ Back(sent', 0) = 0 /\ \A k \in 0..(Len(sent) - 1) : Back(sent', k + 1) = Back(sent, k)
      BY <3>1, NewAge DEF AgesKnown
    <3>4. ASSUME NEW k \in 0..(Len(sent') - 1) PROVE Back(sent', k) < Interval
      <4>1. CASE k = 0
        BY <3>3, <4>1, ClientAssumption
      <4>2. CASE k # 0
        <5>1. k - 1 \in 0..(Len(sent) - 1) /\ k - 1 + 1 = k
          BY <1>3, <3>3, <4>2
        <5>2. Back(sent', k - 1 + 1) = Back(sent, k - 1) /\ Back(sent, k - 1) < Interval
          BY <3>3, <5>1 DEF AgesKnown
        <5> QED BY <5>1, <5>2
      <4> QED BY <4>1, <4>2
    <3>5. Len(sent') <= Limit
      <4>1. Len(sent) + 1 <= Len(stamps') /\ Len(stamps') \in Nat
        BY <2>2, <3>1, <3>3, LenProperties DEF TurnForEach
      <4> QED BY <1>3, <2>3, <3>3, <4>1
    <3>6. AgesKnown'
      BY <2>1, <2>2, <2>3, <3>1, <3>3, <3>4 DEF AgesKnown
    <3> QED BY <3>1, <3>2, <3>5, <3>6 DEF SentWell
  <2> QED BY <2>4, <2>5
<1> QED BY <1>4, <1>5

LEMMA TimeKeeps ==
  ASSUME CallsKnown, AgesKnown, Tick
  PROVE  CallsKnown' /\ AgesKnown' /\ SentWell
<1>1. /\ Len(sent) \in Nat /\ Len(stamps) \in Nat /\ Interval \in Nat
      /\ \A k \in 0..(Len(sent) - 1) : Back(sent, k) \in Int
      /\ \A k \in 0..(Len(stamps) - 1) : Back(stamps, k) \in Int
  BY BackIsAge DEF AgesKnown
<1>2. PICK aged : aged = Older(sent)
  OBVIOUS
<1>3. /\ aged \in Seq(0..Interval) /\ Len(aged) = Len(sent) /\ OldestFirst(aged)
      /\ \A k \in 0..(Len(sent) - 1) :
           Back(aged, k) = IF Back(sent, k) < Interval THEN Back(sent, k) + 1 ELSE Interval
  BY <1>2, OlderAges DEF AgesKnown
<1>4. /\ stamps' \in Seq(0..Interval) /\ Len(stamps') = Len(stamps) /\ OldestFirst(stamps')
      /\ \A k \in 0..(Len(stamps) - 1) :
           Back(stamps', k) = IF Back(stamps, k) < Interval THEN Back(stamps, k) + 1 ELSE Interval
  BY OlderAges DEF AgesKnown, Tick
<1>5. sent' = Within(aged)
  BY <1>2 DEF Tick
<1>6. /\ sent' \in Seq(0..Interval) /\ OldestFirst(sent') /\ Len(sent') <= Len(sent) /\ Len(sent') \in Nat
      /\ \A k \in 0..(Len(sent') - 1) : Back(sent', k) = Back(aged, k) /\ Back(sent', k) < Interval
  BY <1>3, <1>5, WithinIsTheEnd, WithinIsOrdered, LenProperties
<1>7. TurnForEach(sent', stamps')
  <2>1. Len(sent) <= Len(stamps) /\ \A k \in 0..(Len(sent) - 1) : Back(stamps, k) <= Back(sent, k)
    BY DEF AgesKnown, TurnForEach
  <2>2. ASSUME NEW k \in 0..(Len(sent') - 1) PROVE Back(stamps', k) <= Back(sent', k)
    <3>1. k \in 0..(Len(sent) - 1) /\ k \in 0..(Len(stamps) - 1)
      BY <1>1, <1>6, <2>1
    <3>2. Back(stamps, k) <= Back(sent, k) /\ Back(sent', k) = Back(aged, k)
      BY <1>6, <2>1, <3>1
    <3> QED BY <1>1, <1>3, <1>4, <3>1, <3>2
  <2> QED BY <1>1, <1>4, <1>6, <2>1, <2>2 DEF TurnForEach
<1>8. AgesKnown'
  <2>1. cooldown' \in Nat
    BY DEF Tick, Less, AgesKnown
  <2>2. Len(stamps') <= Limit
    BY <1>4 DEF AgesKnown
  <2> QED BY <1>4, <1>6, <1>7, <2>1, <2>2 DEF AgesKnown
<1>9. ASSUME NEW d \in HttpCall
      PROVE  call'[d] \in CallRecord /\ call'[d].at = call[d].at /\ call'[d].attempt = call[d].attempt
  <2>1. call[d] \in CallRecord /\ call'[d] = [call[d] EXCEPT !.sleep = Less(@)]
    BY DEF CallsKnown, Tick
  <2>2. Less(call[d].sleep) \in Nat
    BY <2>1 DEF CallRecord, Less
  <2> QED BY <2>1, <2>2 DEF CallRecord
<1>10. call' = [d \in HttpCall |-> call'[d]]
  BY DEF Tick
<1>11. call' \in [HttpCall -> CallRecord]
  BY <1>9, <1>10
<1> QED BY <1>8, <1>9, <1>11 DEF CallsKnown, SentWell

LEMMA CallStepKeeps ==
  ASSUME CallsKnown, AgesKnown, NEW c \in HttpCall, Begin(c) \/ CallStep(c) \/ AbortCall(c)
  PROVE  CallsKnown' /\ AgesKnown' /\ SentWell
<1>1. CASE TakeTurn(c)
  BY <1>1, TakeTurnKeeps
<1>2. /\ Interval \in Nat /\ cooldown \in Nat /\ \A x, y \in Nat : Larger(x, y) \in Nat
      /\ call[c] \in CallRecord /\ DefaultWait \in Nat
  BY WaitsAreNat, ClientAssumption DEF CallsKnown
<1>3. ASSUME UNCHANGED <<stamps, sent>>, cooldown' \in Nat PROVE AgesKnown'
  BY <1>3 DEF AgesKnown
<1>4. ASSUME NEW at \in Outcome \cup {"idle", "turn", "limiter", "backoff"}, NEW sleep \in Nat,
             call' = To(c, at, sleep), at # "backoff"
      PROVE  CallsKnown' /\ NoneSent
  <2>1. at # "sent" /\ at \in Outcome \cup {"idle", "turn", "limiter", "sent", "backoff"}
    BY <1>4 DEF Outcome
  <2> QED BY <1>4, <2>1, MoveKeepsCalls DEF NoneSent
<1>5. CASE Begin(c) \/ AwaitCooldown(c)
  <2>1. CallsKnown' /\ NoneSent
    <3>1. CASE Begin(c)
      BY <1>4, <3>1 DEF Begin, Outcome
    <3>2. CASE AwaitCooldown(c)
      BY <1>2, <1>4, <3>2 DEF AwaitCooldown, End, Outcome
    <3> QED BY <1>5, <3>1, <3>2
  <2>2. UNCHANGED <<stamps, sent, cooldown>>
    BY <1>5 DEF Begin, AwaitCooldown
  <2> QED BY <1>2, <1>3, <2>1, <2>2 DEF NoneSent, SentWell
<1>6. CASE Value(c) \/ NotFound(c) \/ Refusal(c)
  <2>1. CallsKnown' /\ NoneSent
    BY <1>4, <1>6 DEF Value, NotFound, Refusal, End, Outcome
  <2>2. UNCHANGED <<stamps, sent, cooldown>>
    BY <1>6 DEF Value, NotFound, Refusal
  <2> QED BY <1>2, <1>3, <2>1, <2>2 DEF NoneSent, SentWell
<1>7. CASE TransportError(c) \/ InvalidJson(c) \/ ServerError(c)
  <2>1. call[c].policy.retryTransport \in BOOLEAN /\ call[c].policy.retryInvalidJson \in BOOLEAN
    BY <1>2, ClientAssumption DEF CallRecord, PolicyOK
  <2>2. CallsKnown' /\ NoneSent
    BY <1>7, <2>1, RetryKeepsCalls DEF TransportError, InvalidJson, ServerError, NoneSent
  <2>3. UNCHANGED <<stamps, sent, cooldown>>
    BY <1>7 DEF TransportError, InvalidJson, ServerError
  <2> QED BY <1>2, <1>3, <2>2, <2>3 DEF NoneSent, SentWell
<1>8. CASE TooManyRequests(c)
  <2>1. PICK named \in RetryAfters \cup {0} :
          LET wait == IF call[c].policy.honorRetryAfter THEN named ELSE 0
          IN /\ cooldown' = Larger(cooldown, IF wait = 0 THEN DefaultWait ELSE wait)
             /\ RetryOrFail(c, call[c].policy.retryRateLimits, wait)
    BY <1>8 DEF TooManyRequests
  <2>2. PICK wait : wait = IF call[c].policy.honorRetryAfter THEN named ELSE 0
    OBVIOUS
  <2>3. wait \in Nat
    BY <2>2, ClientAssumption
  <2>4. /\ cooldown' = Larger(cooldown, IF wait = 0 THEN DefaultWait ELSE wait)
        /\ RetryOrFail(c, call[c].policy.retryRateLimits, wait)
    BY <2>1, <2>2
  <2>5. call[c].policy.retryRateLimits \in BOOLEAN
    BY <1>2, ClientAssumption DEF CallRecord, PolicyOK
  <2>6. CallsKnown' /\ NoneSent
    BY <2>3, <2>4, <2>5, RetryKeepsCalls DEF NoneSent
  <2>7. cooldown' \in Nat /\ UNCHANGED <<stamps, sent>>
    BY <1>2, <1>8, <2>3, <2>4 DEF TooManyRequests
  <2> QED BY <1>3, <2>6, <2>7 DEF NoneSent, SentWell
<1>9. CASE NextAttempt(c)
  <2>1. PICK entry : entry = [call[c] EXCEPT !.at = "turn", !.sleep = 0, !.attempt = @ + 1]
    OBVIOUS
  <2>2. call[c].attempt # Len(RetryDelays) /\ call[c].attempt \in 1..Len(RetryDelays) /\ Len(RetryDelays) \in Nat
    BY <1>9, WaitsAreNat DEF NextAttempt, At, CallsKnown
  <2>3. call[c].attempt + 1 \in 1..Len(RetryDelays)
    BY <2>2
  <2>4. entry \in CallRecord /\ entry.at = "turn"
    BY <1>2, <2>1, <2>3 DEF CallRecord
  <2>5. call' = [call EXCEPT ![c] = entry]
    BY <1>9, <2>1 DEF NextAttempt, To, CallsKnown
  <2>6. CallsKnown' /\ NoneSent
    <3> HIDE DEF CallRecord
    <3> QED BY <2>4, <2>5 DEF CallsKnown, NoneSent
  <2>7. UNCHANGED <<stamps, sent, cooldown>>
    BY <1>9 DEF NextAttempt
  <2> QED BY <1>2, <1>3, <2>6, <2>7 DEF NoneSent, SentWell
<1>10. CASE AbortCall(c)
  <2>1. PICK entry : entry = [call[c] EXCEPT !.aborted = TRUE]
    OBVIOUS
  <2>2. entry \in CallRecord /\ entry.at = call[c].at /\ entry.attempt = call[c].attempt
    BY <1>2, <2>1 DEF CallRecord
  <2>3. call' = [call EXCEPT ![c] = entry]
    BY <1>10, <2>1 DEF AbortCall, CallsKnown
  <2>4. CallsKnown' /\ NoneSent
    <3> HIDE DEF CallRecord
    <3> QED BY <2>2, <2>3 DEF CallsKnown, NoneSent
  <2>5. UNCHANGED <<stamps, sent, cooldown>>
    BY <1>10 DEF AbortCall
  <2> QED BY <1>2, <1>3, <2>4, <2>5 DEF NoneSent, SentWell
<1>11. CASE CallSeesAbort(c)
  <2>1. CallsKnown' /\ NoneSent
    BY <1>4, <1>11 DEF CallSeesAbort, End, Outcome
  <2>2. UNCHANGED <<stamps, sent, cooldown>>
    BY <1>11 DEF CallSeesAbort
  <2> QED BY <1>2, <1>3, <2>1, <2>2 DEF NoneSent, SentWell
<1> QED BY <1>1, <1>5, <1>6, <1>7, <1>8, <1>9, <1>10, <1>11 DEF CallStep, Answered

LEMMA ClientStep ==
  ASSUME CallsKnown, AgesKnown, [ClientNext]_clientVars
  PROVE  CallsKnown' /\ AgesKnown' /\ SentWell
<1>1. CASE UNCHANGED clientVars
  BY <1>1 DEF clientVars, CallsKnown, AgesKnown, SentWell
<1>2. CASE ClientNext
  BY <1>2, CallStepKeeps, TimeKeeps DEF ClientNext
<1> QED BY <1>1, <1>2

LEMMA ClientBegins ==
  ASSUME ClientInit
  PROVE  CallsKnown /\ AgesKnown
<1>1. Len(RetryDelays) \in Nat \ {0}
  BY ClientAssumption, EmptySeq
<1>2. call \in [HttpCall -> [at : {"idle"}, attempt : {1}, sleep : {0}, aborted : {FALSE}, policy : Policies]]
  BY DEF ClientInit
<1>3. ASSUME NEW d \in HttpCall PROVE call[d] \in CallRecord /\ call[d].at = "idle"
  <2>1. call[d] \in [at : {"idle"}, attempt : {1}, sleep : {0}, aborted : {FALSE}, policy : Policies]
    BY <1>2
  <2>2. {FALSE} \subseteq BOOLEAN /\ {0} \subseteq Nat
    OBVIOUS
  <2>3. {1} \subseteq 1..Len(RetryDelays)
    BY <1>1
  <2>4. [at : {"idle"}, attempt : {1}, sleep : {0}, aborted : {FALSE}, policy : Policies] \subseteq CallRecord
    BY <2>2, <2>3 DEF CallRecord
  <2> QED BY <2>1, <2>4
<1> HIDE DEF CallRecord
<1>4. CallsKnown
  BY <1>2, <1>3 DEF CallsKnown
<1>5. /\ stamps = <<>> /\ sent = <<>> /\ cooldown = 0
      /\ Len(<<>>) = 0 /\ <<>> \in Seq(0..Interval)
  BY EmptySeq DEF ClientInit
<1>6. AgesKnown
  BY <1>5, ClientAssumption DEF AgesKnown, OldestFirst, TurnForEach
<1> QED BY <1>4, <1>6

(* No request leaves during a cool-down, also not one announced while the   *)
(* call waited for its turn, and the provider never counts more than Limit  *)
(* of them within the interval, however calls wait, retry and give up       *)
(* (SharedCooldownRateLimiter.waitTurn).                                    *)
THEOREM LimiterTheorem == ClientSpec => ProviderRespected
<1>1. CallsKnown /\ AgesKnown /\ [ClientNext]_clientVars
        => [\A c \in HttpCall : call[c].at # "sent" /\ call'[c].at = "sent"
              => cooldown = 0 /\ Len(sent') <= Limit]_clientVars
  BY ClientStep DEF SentWell
<1>2. ClientInit => CallsKnown /\ AgesKnown
  BY ClientBegins
<1>3. CallsKnown /\ AgesKnown /\ [ClientNext]_clientVars => CallsKnown' /\ AgesKnown'
  BY ClientStep
<1> QED BY <1>1, <1>2, <1>3, PTL DEF ClientSpec, ProviderRespected
=============================================================================
