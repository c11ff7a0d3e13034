----------------------------- MODULE BlockSearch -----------------------------
(***************************************************************************)
(* Which block of a chain was the last one at a given time                  *)
(* (src/src/clients/rpc.ts). Every on-chain historical read starts here.    *)
(* The chain answers one read at a time; between two reads its head may     *)
(* advance and other searches may run, and all searches of a chain share    *)
(* the cache of answers and the samples they have seen.                     *)
(*                                                                         *)
(* A client cannot serve the blocks 1 .. gap[client] (pruned, or older than *)
(* a migration); the blocks above stay readable. The clients of a chain are *)
(* nodes of different providers: each has a gap of its own, and may answer  *)
(* with a head that others have passed.                                     *)
(***************************************************************************)
EXTENDS Integers, Sequences, FiniteSets

CONSTANTS Client, SearchTime,
          Top,          \* bound of the model: the last block of the chain
          TimeOf,       \* the block times; the genesis block's may be 0
          FirstHead,    \* the head when the process starts
          Gaps,         \* the clients' unreadable blocks: a set of functions on Client
          MaxCache, MaxSamples,
          MaxInterpolations

Block == 0..Top
ASSUME SearchAssumption ==
  /\ Top \in Nat /\ TimeOf \in [Block -> Nat]
  /\ \A n, m \in Block : n < m => TimeOf[n] <= TimeOf[m] /\ TimeOf[m] > 0
  /\ FirstHead \in Block /\ SearchTime \subseteq Nat
  /\ Gaps \subseteq [Client -> 0 .. FirstHead - 1]
  /\ {MaxCache, MaxSamples} \subseteq Nat \ {0} /\ MaxInterpolations \in Nat

VARIABLES
  head,         \* the chain's head
  gap,
  blockCache,   \* <<target, block>>, oldest first, per chain
  blockSamples, \* the blocks read so far, oldest first, per chain
  search        \* the searches; a caller that finds one running waits for it

searchVars == <<head, gap, blockCache, blockSamples, search>>

Readable(c, n) == n \in 0..head /\ n \notin 1..gap[c]

NoSearch == [at |-> "none", low |-> 0, high |-> 0, best |-> 0, lowTime |-> 0, highTime |-> 0,
             probes |-> 0, missing |-> FALSE, latest |-> 0]

BlockSearchInit ==
  /\ head = FirstHead /\ gap \in Gaps
  /\ blockCache = <<>> /\ blockSamples = <<>>
  /\ search = [c \in Client |-> [t \in SearchTime |-> NoSearch]]

Capped(s, max) == IF Len(s) > max THEN Tail(s) ELSE s
CachedAnswers(t) == {entry[2] : entry \in {blockCache[i] : i \in {j \in DOMAIN blockCache : blockCache[j][1] = t}}}
\* Setting a key again makes it the newest entry.
Uncached(t) ==
  LET at == {i \in DOMAIN blockCache : blockCache[i][1] = t}
      i == CHOOSE j \in at : TRUE
  IN IF at = {} THEN blockCache ELSE SubSeq(blockCache, 1, i - 1) \o SubSeq(blockCache, i + 1, Len(blockCache))
WithCached(t, n) == Capped(Append(Uncached(t), <<t, n>>), MaxCache)
WithSample(n) == Capped(Append(blockSamples, n), MaxSamples)

Set(c, t, s) == search' = [search EXCEPT ![c] = [search[c] EXCEPT ![t] = s]]
\* An ended search keeps its outcome only, and the block up to which it is
\* one: the head it started from, or the whole chain when it was cached.
EndSearch(c, t, at, n, latest) ==
  Set(c, t, [NoSearch EXCEPT !.at = at, !.best = n, !.latest = latest])
AnswerWith(c, t, n) == EndSearch(c, t, "answered", n, search[c][t].latest)
Running(c, t) == search[c][t].at \in {"latest", "probe"}

\* A cached answer, or a search of the client's own.
AskBlock(c, t) ==
  /\ ~Running(c, t)
  /\ \/ \E n \in CachedAnswers(t) : EndSearch(c, t, "answered", n, Top) /\ blockCache' = WithCached(t, n)
     \/ CachedAnswers(t) = {} /\ Set(c, t, [NoSearch EXCEPT !.at = "latest"]) /\ UNCHANGED blockCache
  /\ UNCHANGED <<head, gap, blockSamples>>

\* The bounds nearest to the target among the samples; an exact one is both.
Latest(ns, default) == IF ns = {} THEN default ELSE CHOOSE n \in ns : \A m \in ns : m <= n
Earliest(ns, default) == IF ns = {} THEN default ELSE CHOOSE n \in ns : \A m \in ns : n <= m
Seeded(s, t, samples, latest) ==
  LET seen == {samples[i] : i \in DOMAIN samples}
      exact == {n \in seen : TimeOf[n] = t}
      low == Latest({n \in seen : TimeOf[n] < t /\ n > 0}, 0)
      high == Earliest({n \in seen : TimeOf[n] > t /\ n < latest}, latest)
      seed == [s EXCEPT !.at = "probe", !.latest = latest]
  IN {[seed EXCEPT !.low = n, !.high = n, !.best = n, !.lowTime = t, !.highTime = t] : n \in exact}
     \cup {[seed EXCEPT !.low = low, !.high = high, !.best = low,
                        !.lowTime = IF low = 0 THEN 0 ELSE TimeOf[low], !.highTime = TimeOf[high]]
            : n \in IF exact = {} THEN {0} ELSE {}}
(* Mutant: the answer at the head is cached. *)
ReadLatestForGood(c, t) ==
  /\ search[c][t].at = "latest"
  /\ \E latest \in FirstHead..head :
       /\ blockSamples' = WithSample(latest)
       /\ IF TimeOf[latest] <= t
          THEN EndSearch(c, t, "answered", latest, latest) /\ blockCache' = WithCached(t, latest)
          ELSE UNCHANGED blockCache /\ \E s \in Seeded(search[c][t], t, blockSamples', latest) : Set(c, t, s)
  /\ UNCHANGED <<head, gap>>

\* The block at the client's head is the answer to any later time, but only
\* for now: it is not cached.
ReadLatest(c, t) ==
  /\ search[c][t].at = "latest"
  /\ \E latest \in FirstHead..head :
       /\ blockSamples' = WithSample(latest)
       /\ IF TimeOf[latest] <= t THEN EndSearch(c, t, "answered", latest, latest)
          ELSE \E s \in Seeded(search[c][t], t, blockSamples', latest) : Set(c, t, s)
  /\ UNCHANGED <<head, gap, blockCache>>

Rounded(n, d) == (2 * n + d) \div (2 * d)
NextProbe(s, t) ==
  IF s.probes >= MaxInterpolations \/ s.lowTime <= 0 \/ s.highTime <= s.lowTime
  THEN (s.low + s.high) \div 2
  ELSE LET guess == s.low + Rounded((s.high - s.low) * (t - s.lowTime), s.highTime - s.lowTime)
       IN IF guess < s.low THEN s.low ELSE IF guess > s.high THEN s.high ELSE guess

Narrowed(s, n, t) ==
  IF TimeOf[n] < t THEN [s EXCEPT !.best = n, !.low = n + 1, !.lowTime = TimeOf[n]]
  ELSE [s EXCEPT !.high = n - 1, !.highTime = TimeOf[n]]
SkippedAbove(s, n) == [s EXCEPT !.missing = TRUE, !.low = n + 1]

\* One probe and what it leaves to search.
Probe(c, t) ==
  LET s == search[c][t]
      n == NextProbe(s, t)
      next == [s EXCEPT !.probes = @ + 1]
  IN /\ s.at = "probe" /\ s.low <= s.high
     /\ \/ /\ ~Readable(c, n) /\ Set(c, t, SkippedAbove(next, n))
           /\ UNCHANGED <<blockSamples, blockCache>>
        \/ /\ Readable(c, n) /\ blockSamples' = WithSample(n)
           /\ IF TimeOf[n] = t THEN AnswerWith(c, t, n) /\ blockCache' = WithCached(t, n)
              ELSE Set(c, t, Narrowed(next, n, t)) /\ UNCHANGED blockCache
     /\ UNCHANGED <<head, gap>>

\* Nothing is left to search. No block was found below the unreadable ones.
Finish(c, t) ==
  LET s == search[c][t] IN
  /\ s.at = "probe" /\ s.low > s.high
  /\ IF s.missing /\ s.lowTime = 0 THEN EndSearch(c, t, "missing", 0, 0) /\ UNCHANGED blockCache
     ELSE AnswerWith(c, t, s.best) /\ blockCache' = WithCached(t, s.best)
  /\ UNCHANGED <<head, gap, blockSamples>>

\* The transport gives up; whoever waits for the search fails with it.
ReadFails(c, t) ==
  /\ Running(c, t) /\ ~(search[c][t].at = "probe" /\ search[c][t].low > search[c][t].high)
  /\ EndSearch(c, t, "failed", 0, 0)
  /\ UNCHANGED <<head, gap, blockCache, blockSamples>>

Advance == head + 1 \in Block /\ head' = head + 1 /\ UNCHANGED <<gap, blockCache, blockSamples, search>>

SearchStep(c, t) == AskBlock(c, t) \/ ReadLatest(c, t) \/ Probe(c, t) \/ Finish(c, t) \/ ReadFails(c, t)
BlockSearchNext == Advance \/ \E c \in Client, t \in SearchTime : SearchStep(c, t)
BlockSearchFairness ==
  \A c \in Client, t \in SearchTime : WF_searchVars(ReadLatest(c, t) \/ Probe(c, t) \/ Finish(c, t))
BlockSearchSpec == BlockSearchInit /\ [][BlockSearchNext]_searchVars

----------------------------------------------------------------------------
\* The clients read the same blocks, and none lacks block 1 alone (a search
\* that gets down to block 0 has then left the unreadable ones behind).
OneHistory == \A c, d \in Client : gap[c] = gap[d] /\ gap[c] # 1
Unreadable == {n \in Block : \E c \in Client : n <= gap[c]}

\* Up to `latest' no block after n was there in time, but those that some
\* client cannot read when the clients differ.
Sound(n, t, latest) ==
  \/ TimeOf[n] = t
  \/ /\ n = 0 \/ TimeOf[n] < t
     /\ \A m \in Block : n < m /\ m <= latest /\ TimeOf[m] <= t => m \in Unreadable /\ ~OneHistory

\* What is cached stays the answer however far the chain grows.
CachedIsFinal == \A i \in DOMAIN blockCache :
  LET t == blockCache[i][1]  n == blockCache[i][2]
  IN Sound(n, t, Top) /\ \A j \in DOMAIN blockCache : blockCache[j][1] = t => j = i

\* Samples and answers of other searches and clients, and an advancing head,
\* change how a block is found, never which: an answer is the last block of
\* its time, and one the client can read, except that clients with different
\* histories may pass over blocks one of them lacks; a search says that the
\* block cannot be read only if it cannot; and what is cached is the answer
\* for good.
AnswersAreLast ==
  /\ CachedIsFinal
  /\ \A c \in Client, t \in SearchTime :
       LET s == search[c][t] IN
       /\ s.at = "answered" => Sound(s.best, t, s.latest) /\ (OneHistory => Readable(c, s.best))
       /\ s.at = "missing" => \A n \in 1..head : Readable(c, n) => TimeOf[n] > t

\* Every search comes to an end, however its probes fall.
SearchesEnd == \A c \in Client, t \in SearchTime : Running(c, t) ~> ~Running(c, t)
=============================================================================
