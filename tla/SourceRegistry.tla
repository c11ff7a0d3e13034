---------------------------- MODULE SourceRegistry -----------------------------
(***************************************************************************)
(* HistoricalSourceRegistry.resolveBatch: many targets are priced by the    *)
(* batch method of the first source, group by group and within a time       *)
(* budget, and what that leaves open by asking the sources one after the    *)
(* other. Groups may answer late, in any order, or fail.                    *)
(***************************************************************************)
EXTENDS Naturals, Sequences, FiniteSets

CONSTANTS Target,    \* targets of the call
          Sources,   \* the sources in the order of their priorities
          Supports,  \* pairs of a source and a target of one of its chains
          Rejected,  \* targets whose observations of the first source are rejected
          Grouping   \* requests the batch is packed into: sets of targets

(* The first source has the batch method; it is asked about every target it *)
(* supports, except for rejected ones.                                      *)
BatchSource == Sources[1]
Covered == {t \in Target : <<BatchSource, t>> \in Supports}

ASSUME RegistryAssumption ==
  /\ Sources \in Seq(STRING) /\ Sources # <<>>
  /\ \A i, j \in DOMAIN Sources : Sources[i] = Sources[j] => i = j
  /\ UNION Grouping = Covered \ Rejected
  /\ \A g, h \in Grouping : g = h \/ g \cap h = {}

VARIABLES stage,        \* "batch" from the call to the end of the batch or of its time, then "chain"
          outstanding,  \* requests that have not answered yet
          outcome,      \* per target what onSettled reported, or "none"
          settlements,  \* how often onSettled was called for it
          answered,     \* targets whose request answered
          batchErrors,  \* targets whose request failed or never answered
          position,     \* per target: index of the source that is asked
          lastError,    \* targets for which a single look-up failed
          absent        \* sources that confirmed the absence of a price: pairs with targets
registryVars == <<stage, outstanding, outcome, settlements, answered, batchErrors, position, lastError, absent>>

RegistryInit ==
  /\ stage = "idle" /\ outstanding = {}
  /\ outcome = [t \in Target |-> "none"]
  /\ settlements = [t \in Target |-> 0]
  /\ answered = Covered \cap Rejected
  /\ batchErrors = {} /\ lastError = {} /\ absent = {}
  /\ position = [t \in Target |-> 1]

Unsettled == {t \in Target : outcome[t] = "none"}

(* onSettled for the targets in T.                                          *)
Report(T, result) ==
  /\ outcome' = [t \in Target |-> IF t \in T THEN result ELSE outcome[t]]
  /\ settlements' = [t \in Target |-> IF t \in T THEN settlements[t] + 1 ELSE settlements[t]]

-----------------------------------------------------------------------------
(* The batch stage *)

(* The call: requests for all targets leave at once.                        *)
StartBatch ==
  /\ stage = "idle" /\ stage' = "batch" /\ outstanding' = Grouping
  /\ UNCHANGED <<outcome, settlements, answered, batchErrors, position, lastError, absent>>

(* A request is answered: the targets in M are matched by an observation.   *)
(* Answers after the stage has closed are ignored.                          *)
GroupAnswers(g) ==
  /\ g \in outstanding
  /\ outstanding' = outstanding \ {g}
  /\ IF stage = "batch"
     THEN /\ \E M \in SUBSET g : Report(M \cap Unsettled, "price")
          /\ answered' = answered \cup g
     ELSE UNCHANGED <<outcome, settlements, answered>>
  /\ UNCHANGED <<stage, batchErrors, position, lastError, absent>>

GroupFails(g) ==
  /\ g \in outstanding
  /\ outstanding' = outstanding \ {g}
  /\ batchErrors' = IF stage = "batch" THEN batchErrors \cup g ELSE batchErrors
  /\ UNCHANGED <<stage, outcome, settlements, answered, position, lastError, absent>>

BatchEnds ==
  /\ stage = "batch" /\ outstanding = {}
  /\ stage' = "chain"
  /\ UNCHANGED <<outstanding, outcome, settlements, answered, batchErrors, position, lastError, absent>>

(* The budget is over first: targets whose request has not answered count   *)
(* as failed.                                                               *)
BatchTimesOut ==
  /\ stage = "batch"
  /\ stage' = "chain"
  /\ batchErrors' = batchErrors \cup ((Covered \cap Unsettled) \ answered)
  /\ UNCHANGED <<outstanding, outcome, settlements, answered, position, lastError, absent>>

-----------------------------------------------------------------------------
(* resolveSkipping: the sources one after the other. The batch source is    *)
(* left out when it has just failed for the target.                         *)
Asked(t) ==
  {i \in DOMAIN Sources :
     /\ <<Sources[i], t>> \in Supports
     /\ Sources[i] = BatchSource => t \notin batchErrors}

(* The source whose turn it is, if any is left.                             *)
Turn(t) == {i \in Asked(t) : i >= position[t] /\ \A j \in Asked(t) : j >= position[t] => i <= j}

InChain(t) == stage = "chain" /\ outcome[t] = "none"

(* No observation of a refused target comes out of the first source.        *)
SourceQuotes(t) ==
  /\ InChain(t)
  /\ \E i \in Turn(t) : ~(Sources[i] = BatchSource /\ t \in Rejected)
  /\ Report({t}, "price")
  /\ UNCHANGED <<stage, outstanding, answered, batchErrors, position, lastError, absent>>

(* null and NOT_FOUND: on to the next source.                               *)
SourceHasNone(t) ==
  /\ InChain(t)
  /\ \E i \in Turn(t) : /\ position' = [position EXCEPT ![t] = i + 1]
                        /\ absent' = absent \cup {<<Sources[i], t>>}
  /\ UNCHANGED <<stage, outstanding, outcome, settlements, answered, batchErrors, lastError>>

(* Other errors are remembered.                                             *)
SourceFails(t) ==
  /\ InChain(t)
  /\ \E i \in Turn(t) : /\ ~(Sources[i] = BatchSource /\ t \in Rejected)
                        /\ position' = [position EXCEPT ![t] = i + 1]
  /\ lastError' = lastError \cup {t}
  /\ UNCHANGED <<stage, outstanding, outcome, settlements, answered, batchErrors, absent>>
(* Mutant: failures of the batch stage are forgotten. *)
ChainEndsOnLastError(t) ==
  /\ InChain(t) /\ Turn(t) = {}
  /\ Report({t}, IF t \in lastError THEN "error" ELSE "not-found")
  /\ UNCHANGED <<stage, outstanding, answered, batchErrors, position, lastError, absent>>

(* No source has a price. A failure in the batch stage outweighs NOT_FOUND. *)
ChainEnds(t) ==
  /\ InChain(t) /\ Turn(t) = {}
  /\ Report({t}, IF t \in lastError \/ t \in batchErrors THEN "error" ELSE "not-found")
  /\ UNCHANGED <<stage, outstanding, answered, batchErrors, position, lastError, absent>>

Chain(t) == SourceQuotes(t) \/ SourceHasNone(t) \/ SourceFails(t) \/ ChainEnds(t)

RegistryNext ==
  \/ StartBatch
  \/ \E g \in Grouping : GroupAnswers(g) \/ GroupFails(g)
  \/ BatchEnds \/ BatchTimesOut
  \/ \E t \in Target : Chain(t)

(* The timer of the batch stage fires, and single look-ups end. Requests of *)
(* the batch need not.                                                      *)
RegistryFairness ==
  /\ WF_registryVars(BatchEnds \/ BatchTimesOut)
  /\ \A t \in Target : WF_registryVars(Chain(t))

RegistrySpec == RegistryInit /\ [][RegistryNext]_registryVars

-----------------------------------------------------------------------------
RegistryTypeOK ==
  /\ stage \in {"idle", "batch", "chain"} /\ outstanding \subseteq Grouping
  /\ outcome \in [Target -> {"none", "price", "not-found", "error"}]
  /\ settlements \in [Target -> Nat]
  /\ answered \cup batchErrors \cup lastError \subseteq Target
  /\ position \in [Target -> 1..(Len(Sources) + 1)]

(* A target is reported once, however late its request answers; it is       *)
(* reported as not found only if every source for its chain has said so     *)
(* when asked for it alone, after its request had answered; and as an error *)
(* only if a question about it failed (historical.ts:85-95, 126-171).       *)
ReportsAreEarned ==
  /\ RegistryTypeOK
  /\ \A t \in Target :
       /\ settlements[t] = (IF outcome[t] = "none" THEN 0 ELSE 1)
       /\ outcome[t] = "not-found" =>
            /\ \A i \in DOMAIN Sources : <<Sources[i], t>> \in Supports => <<Sources[i], t>> \in absent
            /\ t \in Covered => t \in answered
       /\ outcome[t] = "error" =>
            t \in lastError \/ \E g \in Grouping : t \in g /\ t \notin answered

(* Every target is reported, although requests of the batch may hang.       *)
EveryTargetReported == stage = "batch" ~> Unsettled = {}
=============================================================================
