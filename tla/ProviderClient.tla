---------------------------- MODULE ProviderClient ----------------------------
(***************************************************************************)
(* fetchJsonWithRetry behind a rate limiter that all calls to a provider    *)
(* share: at most Limit sends in any Interval, no send during a cool-down   *)
(* that a 429 answer has announced, a few attempts with growing pauses, and *)
(* a caller that may give up at any time.                                   *)
(*                                                                          *)
(* Time is kept in ages and remaining waits, in ticks. A timer never fires  *)
(* early and may fire late.                                                 *)
(***************************************************************************)
EXTENDS Naturals, Sequences

CONSTANTS HttpCall,     \* calls to the provider
          Policies,     \* what may be configured for a call, see PolicyOK
          Limit,        \* sends the limiter grants ...
          Interval,     \* ... within so many ticks
          RetryDelays,  \* pauses after the attempts
          DefaultWait,  \* cool-down of a 429 that names none
          RetryAfters,  \* the waits a 429 may name, as capped
          MaxCooldownWait \* cool-downs longer than this are not waited for

PolicyOK(p) ==
  p \in [retryTransport : BOOLEAN, retryInvalidJson : BOOLEAN, retryRateLimits : BOOLEAN,
         honorRetryAfter : BOOLEAN, notFoundAsError : BOOLEAN]

ASSUME ClientAssumption ==
  /\ \A p \in Policies : PolicyOK(p)
  /\ Limit \in Nat \ {0} /\ Interval \in Nat \ {0}
  /\ RetryDelays \in Seq(Nat) /\ RetryDelays # <<>>
  /\ RetryAfters \subseteq Nat /\ DefaultWait \in Nat /\ MaxCooldownWait \in Nat

VARIABLES stamps,      \* ages of the turns the limiter granted, oldest first
          cooldown,    \* what is left of the cool-down
          call,        \* per call: where it stands
          sent         \* ages of the requests on the wire, as the provider counts them
clientVars == <<stamps, cooldown, call, sent>>

Outcome == {"value", "not-found", "failed", "aborted"}
Ended(c) == call[c].at \in Outcome

ClientInit ==
  /\ stamps = <<>> /\ sent = <<>> /\ cooldown = 0
  /\ call \in [HttpCall -> [at : {"idle"}, attempt : {1}, sleep : {0}, aborted : {FALSE}, policy : Policies]]

To(c, at, sleep) == [call EXCEPT ![c].at = at, ![c].sleep = sleep]
End(c, outcome) == To(c, outcome, 0)

Larger(x, y) == IF x >= y THEN x ELSE y

(* A call runs on when its timer is over.                                   *)
At(c, at) == call[c].at = at /\ call[c].sleep = 0 /\ ~call[c].aborted

Begin(c) ==
  /\ call[c].at = "idle"
  /\ call' = To(c, "turn", 0)
  /\ UNCHANGED <<stamps, cooldown, sent>>

(* SharedCooldownRateLimiter.waitTurn: wait for the end of the cool-down,   *)
(* as far as it is known now.                                               *)
AwaitCooldown(c) ==
  /\ At(c, "turn")
  /\ call' = IF cooldown > MaxCooldownWait THEN End(c, "failed") ELSE To(c, "limiter", cooldown)
  /\ UNCHANGED <<stamps, cooldown, sent>>

(* Ages within the interval: the oldest are dropped while they are past it. *)
Within(ages) ==
  LET expired == CHOOSE n \in 0..Len(ages) :
                   /\ \A i \in 1..n : ages[i] >= Interval
                   /\ n < Len(ages) => ages[n + 1] < Interval
  IN SubSeq(ages, expired + 1, Len(ages))

(* Turns older than the interval are forgotten.                             *)
Recent == Within(stamps)

(* Mutant: the cool-down is not looked at again after the wait for a turn. *)
SendRegardless(c) == call' = To(c, "sent", 0) /\ sent' = Append(sent, 0)

(* What follows the grant of a turn: the cool-down may have been extended   *)
(* while the call waited for its turn; then all begins again.               *)
Send(c) ==
  IF cooldown > 0
  THEN call' = To(c, "turn", 0) /\ UNCHANGED sent
  ELSE call' = To(c, "sent", 0) /\ sent' = Append(sent, 0)

(* SlidingWindowRateLimiter.waitTurn.                                       *)
TakeTurn(c) ==
  /\ At(c, "limiter")
  /\ IF Len(Recent) < Limit
     THEN stamps' = Append(Recent, 0) /\ Send(c)
     ELSE /\ stamps' = Recent
          /\ call' = To(c, "limiter", Larger(Interval - Head(Recent), 1))
          /\ UNCHANGED sent
  /\ UNCHANGED cooldown

-----------------------------------------------------------------------------
(* The answer *)

LastAttempt(c) == call[c].attempt = Len(RetryDelays)

(* scheduleRetry, or the end after the last attempt.                        *)
RetryOrFail(c, retried, wait) ==
  call' = IF retried /\ ~LastAttempt(c)
          THEN To(c, "backoff", Larger(wait, RetryDelays[call[c].attempt]))
          ELSE End(c, "failed")

Value(c) ==
  /\ At(c, "sent")
  /\ call' = End(c, "value")
  /\ UNCHANGED <<stamps, cooldown, sent>>

(* The connection fails or times out, also while the body is read.          *)
TransportError(c) ==
  /\ At(c, "sent")
  /\ RetryOrFail(c, call[c].policy.retryTransport, 0)
  /\ UNCHANGED <<stamps, cooldown, sent>>

InvalidJson(c) ==
  /\ At(c, "sent")
  /\ RetryOrFail(c, call[c].policy.retryInvalidJson, 0)
  /\ UNCHANGED <<stamps, cooldown, sent>>

NotFound(c) ==
  /\ At(c, "sent") /\ call[c].policy.notFoundAsError
  /\ call' = End(c, "not-found")
  /\ UNCHANGED <<stamps, cooldown, sent>>

(* 429, with or without a wait: every caller of the provider is held back.  *)
TooManyRequests(c) ==
  /\ At(c, "sent")
  /\ \E named \in RetryAfters \cup {0} :
       LET wait == IF call[c].policy.honorRetryAfter THEN named ELSE 0
       IN /\ cooldown' = Larger(cooldown, IF wait = 0 THEN DefaultWait ELSE wait)
          /\ RetryOrFail(c, call[c].policy.retryRateLimits, wait)
  /\ UNCHANGED <<stamps, sent>>

ServerError(c) ==
  /\ At(c, "sent")
  /\ RetryOrFail(c, TRUE, 0)
  /\ UNCHANGED <<stamps, cooldown, sent>>

Refusal(c) ==
  /\ At(c, "sent")
  /\ call' = End(c, "failed")
  /\ UNCHANGED <<stamps, cooldown, sent>>

NextAttempt(c) ==
  /\ At(c, "backoff")
  /\ call' = [To(c, "turn", 0) EXCEPT ![c].attempt = @ + 1]
  /\ UNCHANGED <<stamps, cooldown, sent>>

-----------------------------------------------------------------------------
(* The caller aborts. Sleeping and queueing end at once; a fetch under way  *)
(* rejects like a transport error.                                          *)
AbortCall(c) ==
  /\ call[c].at \in {"turn", "limiter", "sent", "backoff"} /\ ~call[c].aborted
  /\ call' = [call EXCEPT ![c].aborted = TRUE]
  /\ UNCHANGED <<stamps, cooldown, sent>>

CallSeesAbort(c) ==
  /\ call[c].aborted /\ ~Ended(c)
  /\ call' = IF call[c].at = "sent" /\ call[c].policy.retryTransport /\ LastAttempt(c)
             THEN End(c, "failed") ELSE End(c, "aborted")
  /\ UNCHANGED <<stamps, cooldown, sent>>

Answered(c) ==
  \/ Value(c)
  \/ TransportError(c)
  \/ InvalidJson(c)
  \/ NotFound(c)
  \/ TooManyRequests(c)
  \/ ServerError(c)
  \/ Refusal(c)

CallStep(c) ==
  \/ AwaitCooldown(c)
  \/ TakeTurn(c)
  \/ Answered(c)
  \/ NextAttempt(c)
  \/ CallSeesAbort(c)

Less(n) == IF n = 0 THEN 0 ELSE n - 1
Older(ages) == [i \in DOMAIN ages |-> IF ages[i] < Interval THEN ages[i] + 1 ELSE Interval]

Tick ==
  /\ stamps' = Older(stamps)
  /\ sent' = Within(Older(sent))
  /\ cooldown' = Less(cooldown)
  /\ call' = [c \in HttpCall |-> [call[c] EXCEPT !.sleep = Less(@)]]

ClientNext ==
  \/ \E c \in HttpCall : Begin(c) \/ CallStep(c) \/ AbortCall(c)
  \/ Tick

ClientSpec == ClientInit /\ [][ClientNext]_clientVars

(* Time passes, timers fire, and every request is answered or times out.    *)
ClientFairness ==
  /\ WF_clientVars(Tick)
  /\ \A c \in HttpCall : WF_clientVars(CallStep(c))

-----------------------------------------------------------------------------
ClientTypeOK ==
  /\ \A i \in DOMAIN stamps : stamps[i] \in 0..Interval
  /\ Len(stamps) <= Limit
  /\ cooldown \in Nat
  /\ \A c \in HttpCall : /\ call[c].at \in Outcome \cup {"idle", "turn", "limiter", "sent", "backoff"}
                     /\ call[c].attempt \in 1..Len(RetryDelays)
                     /\ call[c].sleep \in Nat

(* A request leaves only outside of cool-downs, also of those announced     *)
(* while it waited for its turn, and as one of at most Limit within the     *)
(* interval (http-client.ts:71-105).                                        *)
ProviderRespected ==
  [][\A c \in HttpCall : call[c].at # "sent" /\ call'[c].at = "sent"
                       => cooldown = 0 /\ Len(sent') <= Limit]_clientVars

(* Every call ends, whatever the provider answers and others have caused.   *)
CallsEnd ==
  (\E c \in HttpCall : call[c].at = "turn") ~> (\A c \in HttpCall : call[c].at = "idle" \/ Ended(c))
=============================================================================
