------------------------------ MODULE SpotBatches ------------------------------
(***************************************************************************)
(* DefiLlamaSpotSource: callers that ask for single tokens are coalesced    *)
(* into batches of one provider. Callers for the same token share an entry; *)
(* an entry nobody waits for any more is dropped, and a request under way   *)
(* is aborted when nobody waits for any of its entries.                     *)
(***************************************************************************)
EXTENDS Naturals, Sequences, SequencesExt

CONSTANTS Caller,       \* callers, each of which asks once
          BatchCoin,
          CoinOf,       \* the token a caller asks for
          MaxEntries,   \* entries a token may get, one after the other
          BatchSizes,   \* values of DEFI_LLAMA_SPOT_BATCH
          Concurrency   \* requests at a time

ASSUME SpotBatchesAssumption ==
  /\ CoinOf \in [Caller -> BatchCoin]
  /\ MaxEntries \in Nat \ {0} /\ Concurrency \in Nat \ {0}
  /\ BatchSizes \subseteq Nat \ {0}
  /\ IsFiniteSet(Caller)

(* The n-th entry of a coin.                                                *)
Entry == BatchCoin \X (1..MaxEntries)
NoEntry == <<>>

VARIABLES batchSize,
          caller,     \* per caller: "idle", "waiting", "answered", "failed", "cancelled"
          joined,     \* the entry a caller waits for
          made,       \* entries made per coin
          inflight,   \* per coin the entry new callers join
          waiters,    \* per entry: the counter of callers
          state,      \* per entry: "open", "answered", "failed" or "detached"
          pending,    \* entries for the next round, in order
          scheduled, running, again,  \* flushScheduled, flushRunning, flushAgain
          queue,      \* batches of this round that nobody has fetched yet
          fetching    \* batches on their way
spotBatchVars == <<batchSize, caller, joined, made, inflight, waiters, state, pending, scheduled, running, again,
                   queue, fetching>>

SpotBatchesInit ==
  /\ batchSize \in BatchSizes
  /\ caller = [w \in Caller |-> "idle"]
  /\ joined = [w \in Caller |-> NoEntry]
  /\ made = [c \in BatchCoin |-> 0]
  /\ inflight = [c \in BatchCoin |-> NoEntry]
  /\ waiters = [e \in Entry |-> 0]
  /\ state = [e \in Entry |-> "open"]
  /\ pending = <<>> /\ queue = <<>> /\ fetching = {}
  /\ scheduled = FALSE /\ running = FALSE /\ again = FALSE

InBatch(e) == \E batch \in fetching : e \in ToSet(batch)

-----------------------------------------------------------------------------
(* getSpotPrice: join the entry of the token, which may be settled already, *)
(* or make one.                                                             *)
Join(w, e) ==
  /\ waiters' = [waiters EXCEPT ![e] = @ + 1]
  /\ joined' = [joined EXCEPT ![w] = e]
  /\ caller' = [caller EXCEPT ![w] = IF state[e] = "open" THEN "waiting" ELSE state[e]]

ScheduleFlush ==
  IF scheduled THEN UNCHANGED <<scheduled, again>>
  ELSE IF running THEN again' = TRUE /\ UNCHANGED scheduled
  ELSE scheduled' = TRUE /\ UNCHANGED again

Ask(w) ==
  LET coin == CoinOf[w]
      new == <<coin, made[coin] + 1>>
  IN /\ caller[w] = "idle"
     /\ IF inflight[coin] # NoEntry
        THEN /\ Join(w, inflight[coin])
             /\ UNCHANGED <<made, inflight, pending, scheduled, again>>
        ELSE /\ made[coin] < MaxEntries
             /\ made' = [made EXCEPT ![coin] = @ + 1]
             /\ inflight' = [inflight EXCEPT ![coin] = new]
             /\ pending' = Append(pending, new)
             /\ Join(w, new)
             /\ ScheduleFlush
     /\ UNCHANGED <<batchSize, state, running, queue, fetching>>

(* Mutant: a dropped entry is still joined. *)
DetachJoinable(E) ==
  /\ state' = [e \in Entry |-> IF e \in E THEN "detached" ELSE state[e]]
  /\ UNCHANGED inflight

(* detachEntry and the rejection, for the entries in E.                     *)
Detach(E) ==
  /\ state' = [e \in Entry |-> IF e \in E THEN "detached" ELSE state[e]]
  /\ inflight' = [c \in BatchCoin |-> IF inflight[c] \in E THEN NoEntry ELSE inflight[c]]

(* pending.delete: the pending entry of the coin, if there is one.          *)
Delete(coin) ==
  IF \E i \in DOMAIN pending : pending[i][1] = coin
  THEN RemoveAt(pending, CHOOSE i \in DOMAIN pending : pending[i][1] = coin)
  ELSE pending

(* cancelWaiter: the caller's signal. The last one to leave an entry that   *)
(* is not fetched yet drops it; if the entry is being fetched, the request  *)
(* is aborted once nobody waits for any of its entries.                     *)
Cancel(w) ==
  LET e == joined[w]
      left == [waiters EXCEPT ![e] = @ - 1]
      alone == {batch \in fetching : e \in ToSet(batch) /\ \A f \in ToSet(batch) : left[f] = 0}
  IN /\ caller[w] = "waiting"
     /\ caller' = [caller EXCEPT ![w] = "cancelled"]
     /\ waiters' = left
     /\ IF left[e] > 0 THEN UNCHANGED <<state, inflight, pending>>
        ELSE IF InBatch(e)
        THEN Detach(UNION {ToSet(batch) : batch \in alone}) /\ UNCHANGED pending
        ELSE /\ Detach({e})
             /\ pending' = Delete(e[1])
     /\ UNCHANGED <<batchSize, joined, made, scheduled, running, again, queue, fetching>>

-----------------------------------------------------------------------------
(* flush *)

(* Entries in batches of the size batchSize, in their order.                *)
Batches(entries) ==
  [n \in 1..((Len(entries) + batchSize - 1) \div batchSize) |->
     SubSeq(entries, (n - 1) * batchSize + 1,
            IF n * batchSize < Len(entries) THEN n * batchSize ELSE Len(entries))]

(* A batch with an entry that was not dropped.                              *)
Needed(batch) == \E e \in ToSet(batch) : state[e] # "detached"

(* The workers take batches until Concurrency are fetched; batches without  *)
(* an entry anybody wants are skipped. A batch keeps its dropped entries.   *)
Fetched(round, busy) ==
  LET wanted == {i \in DOMAIN round : Needed(round[i])}
      taken == {i \in wanted : Cardinality({j \in wanted : j < i}) < Concurrency - Cardinality(busy)}
      last == IF wanted = taken THEN Len(round)
              ELSE (CHOOSE i \in wanted \ taken : \A j \in wanted \ taken : i <= j) - 1
  IN /\ fetching' = busy \cup {round[i] : i \in taken}
     /\ queue' = SubSeq(round, last + 1, Len(round))

(* A round begins with all that is pending; without anything the flush      *)
(* ends. Rounds all of whose entries were dropped end at once.              *)
Round ==
  IF pending = <<>>
  THEN /\ running' = FALSE /\ again' = FALSE
       /\ queue' = <<>> /\ fetching' = {}
       /\ UNCHANGED pending
  ELSE /\ running' = TRUE /\ again' = FALSE
       /\ pending' = <<>>
       /\ Fetched(Batches(pending), {})

FlushTimer ==
  /\ scheduled
  /\ scheduled' = FALSE
  /\ Round
  /\ UNCHANGED <<batchSize, caller, joined, made, inflight, waiters, state>>

(* The request of a batch ends: answered, failed, timed out or aborted.     *)
(* Entries that were dropped meanwhile are passed over.                     *)
FetchEnds(batch, result) ==
  LET settled == {e \in ToSet(batch) : state[e] = "open"}
  IN /\ batch \in fetching
     /\ state' = [e \in Entry |-> IF e \in settled THEN result ELSE state[e]]
     /\ caller' = [w \in Caller |-> IF caller[w] = "waiting" /\ joined[w] \in settled THEN result ELSE caller[w]]
     /\ IF fetching = {batch} /\ \A i \in DOMAIN queue : ~Needed(queue[i])
        THEN Round
        ELSE Fetched(queue, fetching \ {batch}) /\ UNCHANGED <<running, again, pending>>
     /\ UNCHANGED <<batchSize, joined, made, inflight, waiters, scheduled>>

SpotBatchesNext ==
  \/ \E w \in Caller : Ask(w) \/ Cancel(w)
  \/ FlushTimer
  \/ \E batch \in fetching : FetchEnds(batch, "answered") \/ FetchEnds(batch, "failed")

SpotBatchesSpec == SpotBatchesInit /\ [][SpotBatchesNext]_spotBatchVars

(* Timers fire, and a request ends: it has a timeout.                       *)
SpotBatchesFairness ==
  /\ WF_spotBatchVars(FlushTimer)
  /\ WF_spotBatchVars(\E batch \in fetching : FetchEnds(batch, "answered") \/ FetchEnds(batch, "failed"))

-----------------------------------------------------------------------------
SpotBatchesTypeOK ==
  /\ caller \in [Caller -> {"idle", "waiting", "answered", "failed", "cancelled"}]
  /\ state \in [Entry -> {"open", "answered", "failed", "detached"}]
  /\ ToSet(pending) \subseteq Entry
  /\ Cardinality(fetching) <= Concurrency

(* However callers join and leave: an entry somebody waits for is never     *)
(* dropped, is the one new callers join, and sits in exactly one place from *)
(* where it will be fetched; its counter counts those who wait; and no coin *)
(* is on its way twice for callers (spot.ts:123-184).                       *)
Places(e) ==
  Cardinality({i \in DOMAIN pending : pending[i] = e})
    + Cardinality({i \in DOMAIN queue : e \in ToSet(queue[i])})
    + Cardinality({batch \in fetching : e \in ToSet(batch)})

WaitersAreServed ==
  /\ SpotBatchesTypeOK
  /\ \A w \in Caller : caller[w] = "waiting" =>
       /\ state[joined[w]] = "open" /\ inflight[CoinOf[w]] = joined[w]
       /\ Places(joined[w]) = 1
  /\ \A e \in Entry : state[e] = "open" =>
       waiters[e] = Cardinality({w \in Caller : caller[w] = "waiting" /\ joined[w] = e})
  /\ pending # <<>> => scheduled \/ running
  /\ running <=> fetching # {}
  /\ \A c \in BatchCoin :
       Cardinality({e \in Entry : e[1] = c /\ state[e] = "open" /\ Places(e) > 0}) <= 1

(* Everyone who waits is answered or gives up.                              *)
CallersAreAnswered ==
  (\E w \in Caller : caller[w] = "waiting") ~> (\A w \in Caller : caller[w] # "waiting")
=============================================================================
