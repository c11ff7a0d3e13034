--------------------------- MODULE HistoricalBatches ---------------------------
(***************************************************************************)
(* BatchedHistoricalClient: look-ups of single prices that are collected    *)
(* and sent as batch requests, one after the other, with the packing of the *)
(* requests (sources/defillama/batch.ts) and the assignment of the returned *)
(* observations to the look-ups (sources/defillama/match.ts).               *)
(***************************************************************************)
EXTENDS Integers, Sequences, FiniteSets, SequencesExt

CONSTANTS LookupKey,      \* look-ups: a coin, in lower case, and a timestamp
          TodayEnd,       \* end of the open day
          Now,            \* the clock: values it takes during the run
          AllowIntraday,  \* the client's option
          IsClose(_),     \* the timestamp is the end of a day
          Width,          \* search width: how far an observation may be away
          Strict,         \* an observation so close is preferred
          TokenBatch,     \* coins per request
          TimestampBatch, \* timestamps per coin and request
          Observations    \* what a response may hold for a coin

(* The price 0 stands for anything that is not a positive number.           *)
Sample == [timestamp : Nat, price : Nat]

ASSUME BatchesAssumption ==
  /\ \A k \in LookupKey : k.time \in Nat \ {0}
  /\ Now \subseteq Nat /\ TodayEnd \in Nat
  /\ Now # {} /\ \A n \in Now : n <= TodayEnd
  /\ Strict \in Nat /\ Width \in Nat /\ 2 * Strict < Width
  /\ TokenBatch \in Nat \ {0} /\ TimestampBatch \in Nat \ {0}
  /\ Observations \subseteq Seq(Sample)
  /\ AllowIntraday \in BOOLEAN

VARIABLES now,        \* the clock
          cache,      \* per key: what its promise holds
          requested,  \* per key: the timestamp that is sent for it
          pending,    \* keys to be sent, in order
          scheduled,  \* the timer is set
          draining,   \* requests are under way
          work,       \* the keys of the batch that drains
          payloads,   \* its requests that are not answered yet, the first one on its way
          probing,    \* discovery mode
          unknown,    \* unknown keys the discovery has met
          asked       \* how often a key was sent
batchVars == <<now, cache, requested, pending, scheduled, draining, work, payloads, probing, unknown, asked>>

(* What a promise holds: nothing yet, a rejection, null, or a sample.       *)
Holds(state) == [state |-> state, sample |-> [timestamp |-> 0, price |-> 0]]
HoldsSample(s) == [state |-> "price", sample |-> s]
State(k) == cache[k].state
Settled(k) == State(k) \notin {"none", "pending"}

BatchInit ==
  /\ now \in {n \in Now : \A m \in Now : n <= m}
  /\ cache = [k \in LookupKey |-> Holds("none")]
  /\ requested = [k \in LookupKey |-> k.time]
  /\ pending = <<>> /\ work = {} /\ payloads = <<>> /\ unknown = {}
  /\ scheduled = FALSE /\ draining = FALSE /\ probing = FALSE
  /\ asked = [k \in LookupKey |-> 0]

-----------------------------------------------------------------------------
(* The members of S in the order that the set of pairs `less' is, which is  *)
(* total on S.                                                              *)
InOrder(S, less) ==
  LET rank == [x \in S |-> Cardinality({y \in S : <<y, x>> \in less})]
  IN [i \in 1..Cardinality(S) |-> CHOOSE x \in S : rank[x] = i - 1]

(* FoldLeft with the accumulator evaluated at every step.                   *)
Loop(Step(_, _), start, seq) ==
  LET after[i \in 0..Len(seq)] ==
        IF i = 0 THEN start ELSE CHOOSE next \in {Step(acc, seq[i]) : acc \in {after[i - 1]}} : TRUE
  IN after[Len(seq)]

(* batch.ts *)

(* batchSpacedTimestamps: in ascending order, a new chunk is begun with a   *)
(* timestamp whose search window could share an observation with that of    *)
(* the one before it, and when the last chunk is full.                      *)
TooClose(times, t) == \E u \in times : u < t /\ t - u < Width
Run(times, t) == {u \in times : u <= t /\ \A v \in times : u < v /\ v <= t => ~TooClose(times, v)}
FullBefore(times, t) == (Cardinality(Run(times, t)) - 1) \div TimestampBatch
ChunkWith(times, t) ==
  {u \in times : (u \in Run(times, t) \/ t \in Run(times, u)) /\ FullBefore(times, u) = FullBefore(times, t)}

(* The chunks of a sequence of keys: coins in the order of their first      *)
(* mention, the timestamps of each in ascending order.                      *)
TimesOf(keys, coin) == {requested[k] : k \in {k \in ToSet(keys) : k.coin = coin}}
Chunks(keys) == {[coin |-> k.coin, times |-> ChunkWith(TimesOf(keys, k.coin), requested[k])] : k \in ToSet(keys)}
FirstMention(keys, coin) ==
  CHOOSE i \in DOMAIN keys : keys[i].coin = coin /\ \A j \in DOMAIN keys : keys[j].coin = coin => i <= j
ChunkOrder(keys) ==
  {pair \in Chunks(keys) \X Chunks(keys) :
     \/ FirstMention(keys, pair[1].coin) < FirstMention(keys, pair[2].coin)
     \/ pair[1].coin = pair[2].coin /\ \E t \in pair[1].times : \A u \in pair[2].times : t < u}

(* buildDefiLlamaPayloads: every chunk goes to the first request that has   *)
(* room and does not have the coin.                                         *)
Placed(requests, chunk) ==
  LET fits == {i \in DOMAIN requests : Cardinality(DOMAIN requests[i]) < TokenBatch
                                         /\ chunk.coin \notin DOMAIN requests[i]}
  IN IF fits = {} THEN Append(requests, [c \in {chunk.coin} |-> chunk.times])
     ELSE LET i == CHOOSE i \in fits : \A j \in fits : i <= j
          IN [requests EXCEPT ![i] = [c \in DOMAIN requests[i] \cup {chunk.coin} |->
                                        IF c = chunk.coin THEN chunk.times ELSE requests[i][c]]]

Payloads(keys) == Loop(Placed, <<>>, InOrder(Chunks(keys), ChunkOrder(keys)))

-----------------------------------------------------------------------------
(* match.ts *)

Distance(x, y) == IF x >= y THEN x - y ELSE y - x

(* Requested timestamp and position of the observation, nearest first.      *)
Before(p, q) ==
  \/ p.delta < q.delta
  \/ p.delta = q.delta /\ p.time < q.time
  \/ p.delta = q.delta /\ p.time = q.time /\ p.index < q.index

Pairs(times, samples, matched, reach) ==
  {p \in {[time |-> t, index |-> i, delta |-> Distance(samples[i].timestamp, t)] :
            t \in times, i \in DOMAIN samples} :
     p.delta <= reach /\ \A m \in matched : m.time # p.time /\ m.index # p.index}
(* Mutant: every timestamp takes the observation nearest to it. *)
AssignEachNearest(times, samples, matched, reach) ==
  matched \cup {p \in [time : times, index : DOMAIN samples, delta : 0..reach] :
    /\ p.delta = Distance(samples[p.index].timestamp, p.time) /\ \A m \in matched : m.time # p.time
    /\ \A i \in DOMAIN samples : Distance(samples[i].timestamp, p.time) + (IF i < p.index THEN 0 ELSE 1) > p.delta}

NearestFirst(pairs) == {pair \in pairs \X pairs : Before(pair[1], pair[2])}
Assigned(matched, p) == IF \E m \in matched : m.time = p.time \/ m.index = p.index THEN matched ELSE matched \cup {p}
AssignNearest(times, samples, matched, reach) ==
  LET pairs == Pairs(times, samples, matched, reach) IN Loop(Assigned, matched, InOrder(pairs, NearestFirst(pairs)))

(* Close observations first, then everything within the search width.       *)
Matches(times, samples) ==
  AssignNearest(times, samples, AssignNearest(times, samples, {}, Strict), Width)

-----------------------------------------------------------------------------
(* Look-ups *)

(* Without intraday look-ups only ends of closed days are accepted.         *)
Accepts(t) ==
  IF AllowIntraday THEN t <= now \/ t = TodayEnd ELSE IsClose(t) /\ t < now
(* Mutant: the timer is set although a drain is under way. *)
LookupAlwaysSchedules(k) ==
  /\ ~probing
  /\ Accepts(k.time) /\ State(k) = "none"
  /\ cache' = [cache EXCEPT ![k] = Holds("pending")]
  /\ requested' = [requested EXCEPT ![k] = IF AllowIntraday /\ k.time = TodayEnd THEN now ELSE k.time]
  /\ pending' = Append(pending, k)
  /\ scheduled' = TRUE
  /\ UNCHANGED <<now, draining, work, payloads, probing, unknown, asked>>

(* lookup: a known key is answered from the cache, whatever it holds; a new *)
(* one joins the next batch.                                                *)
Lookup(k) ==
  /\ ~probing
  /\ Accepts(k.time) /\ State(k) = "none"
  /\ cache' = [cache EXCEPT ![k] = Holds("pending")]
  /\ requested' = [requested EXCEPT ![k] = IF AllowIntraday /\ k.time = TodayEnd THEN now ELSE k.time]
  /\ pending' = Append(pending, k)
  /\ scheduled' = (scheduled \/ ~draining)
  /\ UNCHANGED <<now, draining, work, payloads, probing, unknown, asked>>

(* discover: only while nothing is pending; unknown keys are collected and  *)
(* answered with null, without leaving anything in the cache.               *)
StartDiscovery ==
  /\ ~probing /\ ~draining /\ pending = <<>>
  /\ probing' = TRUE
  /\ UNCHANGED <<now, cache, requested, pending, scheduled, draining, work, payloads, unknown, asked>>

Probe(k) ==
  /\ probing
  /\ Accepts(k.time) /\ State(k) = "none"
  /\ unknown' = unknown \cup {k}
  /\ UNCHANGED <<now, cache, requested, pending, scheduled, draining, work, payloads, probing, asked>>

EndDiscovery ==
  /\ probing
  /\ probing' = FALSE /\ unknown' = {}
  /\ UNCHANGED <<now, cache, requested, pending, scheduled, draining, work, payloads, asked>>

-----------------------------------------------------------------------------
(* drain *)

Members(keys, payload) ==
  {k \in keys : k.coin \in DOMAIN payload /\ requested[k] \in payload[k.coin]}

(* The first of the remaining requests leaves.                              *)
Sent(keys, requests) ==
  [k \in LookupKey |-> IF k \in Members(keys, Head(requests)) THEN asked[k] + 1 ELSE asked[k]]

(* Everything pending becomes the next batch.                               *)
TakePending ==
  /\ \E requests \in {Payloads(pending)} :
       payloads' = requests /\ asked' = Sent(ToSet(pending), requests)
  /\ work' = ToSet(pending)
  /\ pending' = <<>>

TimerFires ==
  /\ scheduled
  /\ scheduled' = FALSE
  /\ draining' = TRUE
  /\ TakePending
  /\ UNCHANGED <<now, cache, requested, probing, unknown>>
(* Mutant: the drain ends although look-ups have come in. *)
ContinueOnce ==
  /\ IF Len(payloads) > 1
     THEN payloads' = Tail(payloads) /\ asked' = Sent(work, Tail(payloads)) /\ UNCHANGED <<work, draining>>
     ELSE payloads' = <<>> /\ work' = {} /\ draining' = FALSE /\ UNCHANGED asked
  /\ UNCHANGED <<now, requested, pending, scheduled, probing, unknown>>

(* On with the next request, the next batch, or the end of the loop.        *)
Continue ==
  /\ IF Len(payloads) > 1
     THEN /\ payloads' = Tail(payloads)
          /\ asked' = Sent(work, Tail(payloads))
          /\ UNCHANGED <<pending, work, draining>>
     ELSE IF pending # <<>>
     THEN TakePending /\ UNCHANGED draining
     ELSE /\ payloads' = <<>> /\ work' = {} /\ draining' = FALSE
          /\ UNCHANGED <<pending, asked>>
  /\ UNCHANGED <<now, requested, scheduled, probing, unknown>>

Malformed(samples) == \E i \in DOMAIN samples : samples[i].price = 0
Conflicting(samples) ==
  \E i, j \in DOMAIN samples :
    samples[i].timestamp = samples[j].timestamp /\ samples[i].price # samples[j].price
Garbage(samples) == Malformed(samples) \/ Conflicting(samples)

(* What the observations of its coin make of a look-up: a rejection, an     *)
(* observation, or a confirmed miss.                                        *)
AnswerFrom(samples, times, k) ==
  IF Garbage(samples) THEN Holds("failed")
  ELSE CHOOSE answer \in {IF own = {} THEN Holds("missing")
                           ELSE HoldsSample(samples[(CHOOSE m \in own : TRUE).index]) :
                             own \in {{m \in Matches(times, samples) : m.time = requested[k]}}} : TRUE

(* An envelope arrives: garbage for one coin fails the look-ups of that     *)
(* coin only. A coin that is not in it has no observations.                 *)
ResponseArrives ==
  /\ draining
  /\ \E response \in [DOMAIN Head(payloads) -> Observations] :
     \E answered \in {Members(work, Head(payloads))} :
       cache' = [k \in LookupKey |-> IF k \in answered
                               THEN AnswerFrom(response[k.coin], Head(payloads)[k.coin], k)
                               ELSE cache[k]]
  /\ Continue

(* The request fails, or its envelope is malformed: its look-ups fail, and  *)
(* stay failed for this run.                                                *)
RequestFails ==
  /\ draining
  /\ cache' = [k \in LookupKey |-> IF k \in Members(work, Head(payloads)) THEN Holds("failed") ELSE cache[k]]
  /\ Continue

ClockMoves ==
  /\ now' \in {n \in Now : now < n}
  /\ UNCHANGED <<cache, requested, pending, scheduled, draining, work, payloads, probing, unknown, asked>>

Drain == RequestFails \/ ResponseArrives

BatchNext ==
  \/ \E k \in LookupKey : Lookup(k) \/ Probe(k)
  \/ StartDiscovery \/ EndDiscovery
  \/ TimerFires
  \/ Drain
  \/ ClockMoves

(* The timer fires and the transport answers: it has timeouts and gives up  *)
(* after a few attempts.                                                    *)
BatchFairness == WF_batchVars(TimerFires) /\ WF_batchVars(Drain)

BatchSpec == BatchInit /\ [][BatchNext]_batchVars

-----------------------------------------------------------------------------
BatchTypeOK ==
  /\ cache \in [LookupKey -> [state : {"none", "pending", "failed", "missing", "price"}, sample : Sample]]
  /\ ToSet(pending) \subseteq LookupKey /\ work \subseteq LookupKey /\ unknown \subseteq LookupKey
  /\ draining <=> payloads # <<>>

(* One request carries few coins, few timestamps of each, and no two of     *)
(* them within reach of one observation.                                    *)
Packed(payload) ==
  /\ Cardinality(DOMAIN payload) <= TokenBatch
  /\ \A c \in DOMAIN payload :
       /\ Cardinality(payload[c]) <= TimestampBatch
       /\ \A t, u \in payload[c] : t < u => u - t >= Width

(* A look-up waits for exactly one thing: the next batch, or one request of *)
(* the batch that drains; nothing is waited for without a timer or a drain  *)
(* under way, and nothing is ever sent twice                                *)
(* (batched-historical-client.ts:118-141).                                  *)
EachWaitsOnce ==
  /\ BatchTypeOK
  /\ \A i \in DOMAIN payloads : Packed(payloads[i])
  /\ \A k \in LookupKey : State(k) = "pending" <=>
       \/ k \in ToSet(pending) /\ (scheduled \/ draining)
       \/ Cardinality({i \in DOMAIN payloads : k \in Members(work, payloads[i])}) = 1
  /\ \A k \in LookupKey : asked[k] <= 1 /\ (Settled(k) => asked[k] = 1)
  /\ ~(scheduled /\ draining)
  /\ probing => pending = <<>> /\ ~draining

Away(s, k) == Distance(s.timestamp, requested[k])
Near(samples, k, reach) == {s \in ToSet(samples) : Away(s, k) <= reach}
Fair(asking, samples, answer) ==
  /\ \A k \in asking :
       /\ answer[k].state = "missing" \/ (answer[k].state = "price" /\ answer[k].sample \in Near(samples, k, Width))
       /\ Near(samples, k, Strict) # {} => answer[k].state = "price" /\ answer[k].sample \in Near(samples, k, Strict)
       /\ \A s \in Near(samples, k, Width) :
            \/ answer[k].state = "price" /\ Away(answer[k].sample, k) <= Away(s, k)
            \/ \E l \in asking : requested[l] # requested[k] /\ answer[l] = HoldsSample(s) /\ Away(s, l) <= Away(s, k)
  /\ \A s \in ToSet(samples) :
       Cardinality({requested[k] : k \in {k \in asking : answer[k] = HoldsSample(s)}})
         <= Cardinality({i \in DOMAIN samples : samples[i] = s})

(* Whatever a response holds for a coin is shared out fairly: nobody gets   *)
(* an observation outside the window, a close one is never passed over, an  *)
(* observation goes past a look-up only for a nearer one or because it      *)
(* serves a time it is at least as near to, so that a look-up ends as       *)
(* missing only when every observation in its window went to another one,   *)
(* and none serves more times than it was reported                          *)
(* (match.ts:15-60, batch.ts:7-23).                                         *)
SharedOutFairly ==
  draining =>
    \A c \in DOMAIN Head(payloads), samples \in {s \in Observations : ~Garbage(s)} :
      \E asking \in {{k \in Members(work, Head(payloads)) : k.coin = c}} :
        Fair(asking, samples, [k \in asking |-> AnswerFrom(samples, Head(payloads)[c], k)])

(* Every look-up is answered: the timer is set or a drain under way         *)
(* whenever something is pending.                                           *)
Awaited == {k \in LookupKey : State(k) = "pending"}
LookupsAnswered == Awaited # {} ~> Awaited = {}
=============================================================================
