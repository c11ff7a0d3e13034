----------------------------- MODULE FeedRounds ------------------------------
(***************************************************************************)
(* The round of a Chainlink feed that was current at a time                 *)
(* (src/src/sources/chainlink/historical.ts). A feed goes through phases,   *)
(* each an aggregator of its own with rounds 1, 2, ...; a round has the     *)
(* time it was written at, and some cannot be read. An aggregator may go    *)
(* on writing after its successor took over. ETH-quoted tokens multiply     *)
(* two feeds, which are read side by side.                                  *)
(***************************************************************************)
EXTENDS Integers, Sequences, FiniteSets

CONSTANTS Feed, Feeds,  \* the feeds' histories: a set of functions on Feed
          Legs,         \* the feeds a request reads: one, or the token's and ETH's
          Times, MaxStaleness, MaxPhaseHops

\* A history: per phase, the rounds' times (0 where a round cannot be read)
\* and whether the phase's aggregator is known to the proxy. An aggregator
\* writes its rounds one after the other.
WrittenInOrder(times) == \A m, n \in DOMAIN times : m < n /\ times[n] > 0 => times[m] <= times[n]
ASSUME FeedAssumption ==
  /\ \A h \in Feeds, f \in Feed :
       /\ h[f] \in Seq([rounds : Seq(Nat), known : BOOLEAN]) \ {<<>>}
       /\ \A phase \in DOMAIN h[f] : WrittenInOrder(h[f][phase].rounds)
  /\ Legs \subseteq Seq(Feed) \ {<<>>} /\ Times \subseteq Nat /\ {MaxStaleness, MaxPhaseHops} \subseteq Nat

VARIABLES feeds,    \* the histories
          request,  \* <<legs, time>>
          reads,    \* per leg: what is read next, the round in hand, the phases gone back,
                    \* the bracket of the search, and the round found in it so far
          reply     \* the times of the rounds the price is made of, or a failure
feedVars == <<feeds, request, reads, reply>>

Unanswered == <<"pending">>
NoPrice == <<"none">>
Unavailable == <<"unavailable">>
PricedAt(time) == <<"price", time>>

Round(phase, n) == [phase |-> phase, round |-> n]
TimeAt(h, r) == h[r.phase].rounds[r.round]
Readable(h, r) == r.round \in DOMAIN h[r.phase].rounds /\ TimeAt(h, r) > 0
LatestOf(h, phase) == Round(phase, Len(h[phase].rounds))
HasOlderPhase(h, phase) == phase > 1 /\ h[phase - 1].known /\ Readable(h, LatestOf(h, phase - 1))
(* Mutant: a round written at the very time is passed over. *)
StrictlyBefore(h, r, time) == Readable(h, r) /\ TimeAt(h, r) < time

\* A round that cannot be read counts as too late.
AtOrBefore(h, r, time) == Readable(h, r) /\ TimeAt(h, r) <= time

HistoryOf(i) == feeds[request[1][i]]
Time == request[2]

-----------------------------------------------------------------------------
(* Reading a feed *)

NothingRead == [at |-> "latest", round |-> Round(0, 0), hops |-> 0, lo |-> 1, hi |-> 0, best |-> {}]
EndWith(leg, rounds) == [leg EXCEPT !.at = "done", !.best = rounds]

\* With a round in hand: it is the one, or an earlier one of its phase is
\* searched for, or of the phase before when it is the first.
WithRound(h, leg, r, hops) ==
  IF AtOrBefore(h, r, Time) THEN EndWith(leg, {r})
  ELSE [leg EXCEPT !.at = IF r.round = 1 THEN "older" ELSE "top", !.round = r, !.hops = hops]

\* The bracket is searched until it is empty; then the best round is taken,
\* if there is one.
Narrow(leg, lo, hi, best) ==
  IF lo <= hi THEN [leg EXCEPT !.at = "bisect", !.lo = lo, !.hi = hi, !.best = best]
  ELSE IF best # {} THEN EndWith(leg, best) ELSE [leg EXCEPT !.at = "older", !.best = {}]

Reads(i, at) == reply = Unanswered /\ reads[i].at = at
Becomes(i, leg) == reads' = [reads EXCEPT ![i] = leg] /\ UNCHANGED <<feeds, request, reply>>

ReadLatest(i) ==
  LET last == LatestOf(HistoryOf(i), Len(HistoryOf(i)))
  IN /\ Reads(i, "latest")
     /\ Becomes(i, IF Readable(HistoryOf(i), last) THEN WithRound(HistoryOf(i), reads[i], last, 0)
                   ELSE EndWith(reads[i], {}))

\* The round before the one in hand; if it cannot be read, nothing further
\* back can.
ReadTop(i) ==
  LET top == Round(reads[i].round.phase, reads[i].round.round - 1)
  IN /\ Reads(i, "top")
     /\ Becomes(i, IF ~Readable(HistoryOf(i), top) THEN EndWith(reads[i], {})
                   ELSE IF AtOrBefore(HistoryOf(i), top, Time) THEN EndWith(reads[i], {top})
                   ELSE Narrow(reads[i], 1, top.round - 1, {}))

ReadMiddle(i) ==
  LET mid == Round(reads[i].round.phase, (reads[i].lo + reads[i].hi) \div 2)
  IN /\ Reads(i, "bisect")
     /\ Becomes(i, IF AtOrBefore(HistoryOf(i), mid, Time) THEN Narrow(reads[i], mid.round + 1, reads[i].hi, {mid})
                   ELSE Narrow(reads[i], reads[i].lo, mid.round - 1, reads[i].best))

ReadOlderPhase(i) ==
  LET phase == reads[i].round.phase
  IN /\ Reads(i, "older")
     /\ Becomes(i, IF reads[i].hops < MaxPhaseHops /\ HasOlderPhase(HistoryOf(i), phase)
                   THEN WithRound(HistoryOf(i), reads[i], LatestOf(HistoryOf(i), phase - 1), reads[i].hops + 1)
                   ELSE EndWith(reads[i], {}))

-----------------------------------------------------------------------------
(* The request *)

Fresh(at) == at <= Time /\ at + MaxStaleness >= Time
ReadFeed(i) == {at \in {TimeAt(HistoryOf(i), r) : r \in reads[i].best} : Fresh(at)}

MinOf(s) == CHOOSE n \in s : \A m \in s : n <= m
Combined ==
  IF \E i \in DOMAIN reads : ReadFeed(i) = {} THEN NoPrice
  ELSE PricedAt(MinOf(UNION {ReadFeed(i) : i \in DOMAIN reads}))

FeedInit ==
  /\ feeds \in Feeds /\ request \in Legs \X Times
  /\ reads = [i \in DOMAIN request[1] |-> NothingRead] /\ reply = Unanswered
Answer ==
  /\ reply = Unanswered /\ \A i \in DOMAIN reads : reads[i].at = "done"
  /\ reply' = Combined /\ UNCHANGED <<feeds, request, reads>>
\* A transport failure of any read: the price is not missing, only unavailable.
ReadFails(i) ==
  /\ reply = Unanswered /\ reads[i].at # "done"
  /\ reply' = Unavailable /\ UNCHANGED <<feeds, request, reads>>
FeedNext ==
  \/ \E i \in DOMAIN reads : \/ ReadLatest(i) \/ ReadTop(i) \/ ReadMiddle(i) \/ ReadOlderPhase(i)
                             \/ ReadFails(i)
  \/ Answer

\* One request.
FeedSpec == FeedInit /\ [][FeedNext]_feedVars

-----------------------------------------------------------------------------
\* The newest round no later than the time, of the newest phase with one.
Written(h, time) ==
  {r \in UNION {{Round(p, n) : n \in DOMAIN h[p].rounds} : p \in DOMAIN h} : TimeAt(h, r) \in 1..time}
Later(r, s) == r.phase > s.phase \/ (r.phase = s.phase /\ r.round >= s.round)
Current(h, time) == {TimeAt(h, r) : r \in {x \in Written(h, time) : \A y \in Written(h, time) : Later(x, y)}}
Whole(h) == /\ \A p \in DOMAIN h : h[p].known /\ Len(h[p].rounds) > 0 /\ \A n \in DOMAIN h[p].rounds : h[p].rounds[n] > 0
            /\ Len(h) <= MaxPhaseHops + 1
LegsRead == {HistoryOf(i) : i \in DOMAIN reads}
FreshWritten(h) == {at \in {TimeAt(h, r) : r \in Written(h, Time)} : Fresh(at)}
FreshCurrent(h) == {at \in Current(h, Time) : Fresh(at)}

\* A price is made of rounds that were written by then and are not stale, and
\* dated by the oldest of them; where every round can be read, they are the
\* feeds' current rounds, however far back the phases and rounds lie.
PricedByCurrentRounds ==
  reply \notin {Unanswered, Unavailable} =>
    /\ reply # NoPrice => /\ \E h \in LegsRead : reply[2] \in FreshWritten(h)
                          /\ \A h \in LegsRead : \E at \in FreshWritten(h) : at >= reply[2]
    /\ (\A h \in LegsRead : Whole(h)) =>
         IF \A h \in LegsRead : FreshCurrent(h) # {}
         THEN reply = PricedAt(MinOf(UNION {FreshCurrent(h) : h \in LegsRead})) ELSE reply = NoPrice
=============================================================================
