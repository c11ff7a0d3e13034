------------------------------ MODULE SpotPrices ------------------------------
(***************************************************************************)
(* One spot request (src/src/routes/spot.ts): its coins are priced side by  *)
(* side, each by one source after the other (registries/spot.ts), under a   *)
(* common deadline. Market quotes of known Curve LP tokens have to pass a   *)
(* plausibility check first, of which only so many run at a time            *)
(* (sources/defillama/lp-guard.ts). What a coin is doing goes on after the  *)
(* deadline has answered for it.                                            *)
(***************************************************************************)
EXTENDS Naturals, Sequences, FiniteSets

CONSTANTS Coin,
          SpotSources,   \* the sources in the order of their priorities
          GuardedSource, \* those whose quotes are checked
          SpotSupports,  \* pairs of a source and a coin of one of its chains
          WrittenDown, KnownLps,
          GuardedSets,   \* the first MAX_GUARDED_RECORDS of the known LPs of the request
          MaxInFlight

ASSUME SpotAssumption ==
  /\ SpotSources \in Seq(STRING) /\ \A i, j \in DOMAIN SpotSources : SpotSources[i] = SpotSources[j] => i = j
  /\ WrittenDown \subseteq Coin /\ KnownLps \subseteq Coin /\ GuardedSets \subseteq SUBSET KnownLps
  /\ MaxInFlight \in Nat \ {0} /\ IsFiniteSet(Coin) /\ "unknown" \notin Coin

VARIABLES
  guarded,       \* coins whose quotes are checked; unknown until looked up
  gone,          \* the deadline has passed or the client is gone
  coinAt,        \* per coin: "new", "asking" a source, at the "guard" (queued or checked), "done"
  sourceIndex,   \* per coin: index of the source it is at
  failedSources, \* per coin: the sources that failed (lastError)
  refused,       \* per coin: the sources whose quote the guard refused
  reply,         \* per coin: what the request says of it
  inFlight, guardQueue,  \* the guard's slots and queue
  response       \* "idle", "none", or whether the answer may be cached

spotVars == <<guarded, gone, coinAt, sourceIndex, failedSources, refused, reply, inFlight, guardQueue, response>>
coinVars == <<coinAt, sourceIndex, failedSources, refused, reply>>

Unknown == {"unknown"}
Source(k) == SpotSources[k]
NextSource(c, k) ==
  LET later == {i \in DOMAIN SpotSources : i > k /\ <<Source(i), c>> \in SpotSupports}
  IN IF later = {} THEN Len(SpotSources) + 1 ELSE CHOOSE i \in later : \A j \in later : i <= j

SpotInit ==
  /\ guarded = Unknown /\ gone = FALSE
  /\ coinAt = [c \in Coin |-> "new"] /\ sourceIndex = [c \in Coin |-> 0]
  /\ failedSources = [c \in Coin |-> {}] /\ refused = [c \in Coin |-> {}]
  /\ reply = [c \in Coin |-> "none"]
  /\ inFlight = 0 /\ guardQueue = <<>>
  /\ response = "idle"

Arrive ==
  /\ response = "idle" /\ response' = "none"
  /\ UNCHANGED <<guarded, gone, inFlight, guardQueue>> /\ UNCHANGED coinVars

\* An answer counts only if the deadline has not answered before.
Reply(c, answer) == reply' = [reply EXCEPT ![c] = IF @ = "none" THEN answer ELSE @]

(* The look-up of known LPs answers, or it fails or takes too long and       *)
(* nothing is guarded; then all coins set out at once.                      *)
StartSpot ==
  /\ guarded = Unknown /\ response # "idle"
  /\ guarded' \in IF gone THEN {{}} ELSE GuardedSets \cup {{}}
  /\ sourceIndex' = [c \in Coin |-> NextSource(c, 0)]
  /\ LET Answer(c) == IF c \in WrittenDown THEN "write-down"
                      ELSE IF gone THEN "unavailable"
                      ELSE IF sourceIndex'[c] > Len(SpotSources) THEN "notFound" ELSE "none"
     IN /\ reply' = [c \in Coin |-> Answer(c)]
        /\ coinAt' = [c \in Coin |-> IF Answer(c) = "none" THEN "asking" ELSE "done"]
  /\ UNCHANGED <<gone, failedSources, refused, inFlight, guardQueue, response>>
(* Mutant: only the failure of the last source counts. *)
MoveOnLastFailure(c, failures) ==
  LET k == NextSource(c, sourceIndex[c]) IN
  /\ sourceIndex' = [sourceIndex EXCEPT ![c] = k]
  /\ failedSources' = [failedSources EXCEPT ![c] = failures]
  /\ IF k <= Len(SpotSources) THEN coinAt' = [coinAt EXCEPT ![c] = "asking"] /\ UNCHANGED reply
     ELSE /\ coinAt' = [coinAt EXCEPT ![c] = "done"]
          /\ Reply(c, IF failures = failedSources[c] THEN "notFound" ELSE "unavailable")

\* The coin moves on to the next source, or has asked them all.
MoveOn(c, failures) ==
  LET k == NextSource(c, sourceIndex[c]) IN
  /\ sourceIndex' = [sourceIndex EXCEPT ![c] = k]
  /\ failedSources' = [failedSources EXCEPT ![c] = failures]
  /\ IF k <= Len(SpotSources) THEN coinAt' = [coinAt EXCEPT ![c] = "asking"] /\ UNCHANGED reply
     ELSE /\ coinAt' = [coinAt EXCEPT ![c] = "done"]
          /\ Reply(c, IF failures = {} THEN "notFound" ELSE "unavailable")

Accept(c) ==
  /\ coinAt' = [coinAt EXCEPT ![c] = "done"]
  /\ Reply(c, Source(sourceIndex[c]))
  /\ UNCHANGED <<sourceIndex, failedSources, refused>>

NoQuote(c) ==
  /\ coinAt[c] = "asking" /\ MoveOn(c, failedSources[c])
  /\ UNCHANGED <<guarded, gone, refused, inFlight, guardQueue, response>>

\* Once the request is gone, every source gives up.
SpotSourceFails(c) ==
  /\ coinAt[c] = "asking" /\ MoveOn(c, failedSources[c] \cup {Source(sourceIndex[c])})
  /\ UNCHANGED <<guarded, gone, refused, inFlight, guardQueue, response>>

\* The guard takes a quote if it has a slot, or queues it.
Enter(c) ==
  /\ coinAt' = [coinAt EXCEPT ![c] = "guard"]
  /\ IF inFlight >= MaxInFlight THEN guardQueue' = Append(guardQueue, c) /\ UNCHANGED inFlight
     ELSE inFlight' = inFlight + 1 /\ UNCHANGED guardQueue
  /\ UNCHANGED <<sourceIndex, failedSources, refused, reply>>

Checked(c) == c \in guarded /\ Source(sourceIndex[c]) \in GuardedSource
Quote(c) ==
  /\ coinAt[c] = "asking"
  /\ IF Checked(c) THEN Enter(c) ELSE Accept(c) /\ UNCHANGED <<inFlight, guardQueue>>
  /\ UNCHANGED <<guarded, gone, response>>

Queued == {guardQueue[i] : i \in DOMAIN guardQueue}
BeingChecked == {c \in Coin : coinAt[c] = "guard"} \ Queued
(* Mutant: the slot is handed over and freed as well. *)
ReleaseTwice ==
  /\ guardQueue' = IF guardQueue = <<>> THEN <<>> ELSE Tail(guardQueue)
  /\ inFlight' = inFlight - 1
(* Mutant: the slot is freed, and nobody in the queue is told. *)
ReleaseUntold == inFlight' = inFlight - 1 /\ UNCHANGED guardQueue

\* A check that ends hands its slot to the first in the queue.
Release ==
  IF guardQueue # <<>> THEN guardQueue' = Tail(guardQueue) /\ UNCHANGED inFlight
  ELSE inFlight' = inFlight - 1 /\ UNCHANGED guardQueue

\* A check that cannot be made, for whatever reason, lets the quote pass.
Plausible(c) ==
  /\ c \in BeingChecked /\ Accept(c) /\ Release
  /\ UNCHANGED <<guarded, gone, response>>

Implausible(c) ==
  /\ c \in BeingChecked /\ refused' = [refused EXCEPT ![c] = @ \cup {Source(sourceIndex[c])}]
  /\ MoveOn(c, failedSources[c]) /\ Release
  /\ UNCHANGED <<guarded, gone, response>>

\* The deadline answers for every coin that is still open, and stops none.
Deadline ==
  /\ ~gone /\ response = "none" /\ gone' = TRUE
  /\ reply' = [c \in Coin |-> IF guarded # Unknown /\ reply[c] = "none" THEN "unavailable" ELSE reply[c]]
  /\ UNCHANGED <<guarded, coinAt, sourceIndex, failedSources, refused, inFlight, guardQueue, response>>

Respond ==
  /\ response = "none" /\ \A c \in Coin : reply[c] # "none"
  /\ response' = IF \E c \in Coin : reply[c] = "unavailable" THEN "no-store" ELSE "cached"
  /\ UNCHANGED <<guarded, gone, inFlight, guardQueue>> /\ UNCHANGED coinVars

CoinStep(c) == NoQuote(c) \/ SpotSourceFails(c) \/ Quote(c) \/ Plausible(c) \/ Implausible(c)
SpotNext == Arrive \/ StartSpot \/ Deadline \/ Respond \/ \E c \in Coin : CoinStep(c)

\* The look-up, the deadline and the response are timers and callbacks; a
\* check is a few reads that each end.
SpotFairness == WF_spotVars(StartSpot) /\ WF_spotVars(Deadline) /\ WF_spotVars(Respond)
                /\ \A c \in Coin : WF_spotVars(Plausible(c) \/ Implausible(c))

SpotSpec == SpotInit /\ [][SpotNext]_spotVars

----------------------------------------------------------------------------
SpotTypeOK ==
  /\ guarded \in GuardedSets \cup {{}, Unknown} /\ gone \in BOOLEAN
  /\ coinAt \in [Coin -> {"new", "asking", "guard", "done"}]
  /\ sourceIndex \in [Coin -> 0 .. Len(SpotSources) + 1]
  /\ failedSources \in [Coin -> SUBSET {Source(k) : k \in DOMAIN SpotSources}]
  /\ refused \in [Coin -> SUBSET GuardedSource]
  /\ inFlight \in 0..MaxInFlight /\ guardQueue \in Seq(Coin)
  /\ response \in {"idle", "none", "cached", "no-store"}

\* No slot of the guard is lost and none is given twice: as many checks run as
\* slots are taken, and nobody queues while one is free.
SlotsAreKept ==
  /\ SpotTypeOK
  /\ Cardinality(BeingChecked) = inFlight /\ inFlight <= MaxInFlight
  /\ guardQueue # <<>> => inFlight = MaxInFlight
  /\ \A i, j \in DOMAIN guardQueue : guardQueue[i] = guardQueue[j] => i = j

\* A coin has a price that no check has refused, or every source it has was
\* asked, none failed and none had a quote that the guard let pass.
CoinSettled(c) ==
  \/ reply[c] = "write-down" /\ c \in WrittenDown
  \/ reply[c] = "notFound" /\ failedSources[c] = {} /\ coinAt[c] = "done" /\ sourceIndex[c] > Len(SpotSources)
  \/ <<reply[c], c>> \in SpotSupports /\ reply[c] \notin refused[c]

\* An answer that may be cached is settled for each of its coins: no deadline,
\* no failed source and no refused quote is behind it.
CachedIsSettled == response = "cached" => \A c \in Coin : CoinSettled(c)

\* The request is answered, and every quote that queues for a check gets one,
\* even after that.
EverySpotIsAnswered ==
  /\ response = "none" ~> response # "none"
  /\ Queued # {} ~> Queued = {}
=============================================================================
