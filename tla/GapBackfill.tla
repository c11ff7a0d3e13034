----------------------------- MODULE GapBackfill -----------------------------
(***************************************************************************)
(* The tool that fills the closed days a manifest names                     *)
(* (src/scripts/backfill-historical-gaps.ts). It reads which targets have a *)
(* price, asks the provider for charts of contiguous days, first of the     *)
(* token itself and then of its reviewed alias, writes what it found batch  *)
(* by batch, and reports on every target. Requests and other tools write    *)
(* prices while it runs; any statement and any request may fail, and a      *)
(* commit may fail after the database has applied it.                       *)
(***************************************************************************)
EXTENDS Integers, FiniteSets, Sequences, SequencesExt, FiniteSetsExt

CONSTANTS GapToken,
          Manifests,      \* the files the tool may be given: sequences of targets
          Today,          \* days before it are closed
          MaxSpan,        \* days a chart request may cover
          MaxOffset,      \* how far from the end of a day an observation may lie
          DayLength,
          Alias,          \* the reviewed aliases: token -> [identifier, from, until], or None
          Charts,         \* what the provider may know of an identifier: sets of [at, price]
          TargetsPerBatch,
          FirstRows,      \* the states of the price table to start from
          FirstListed,    \* the inventory to start from
          None

VARIABLES
  rows,      \* per target: who priced it, or a quarantined row nobody reads
  inventory, \* the targets listed as unpriced
  job        \* the run: manifest, records, counters, report

gapVars == <<rows, inventory, job>>

Target == [token : GapToken, day : 0 .. Today]
Row == {"absent", "withheld", "theirs", "ours"}
HasPrice(t) == rows[t] \in {"theirs", "ours"}
Eod(t) == t.day * DayLength + DayLength - 1

ASSUME GapAssumption ==
  /\ {MaxSpan, DayLength, TargetsPerBatch} \subseteq Nat \ {0} /\ {Today, MaxOffset} \subseteq Nat
  /\ \A file \in Manifests : file \in Seq(Target)
  /\ FirstRows \subseteq [Target -> Row \ {"ours"}] /\ FirstListed \subseteq Target
  /\ None \notin {"direct", "alias"}

NewRecord == [status |-> "pending", method |-> None]
NoJob == [mode |-> "dry-run", phase |-> "manifest", file |-> <<>>, records |-> <<>>, gaps |-> <<>>,
          asking |-> {}, begun |-> 0, inFlight |-> 0, committed |-> 0, rejected |-> {},
          direct |-> 0, alias |-> 0, planned |-> 0, exit |-> None]

GapInit ==
  /\ rows \in FirstRows /\ inventory = FirstListed
  /\ \E mode \in {"dry-run", "write"}, file \in Manifests :
       job = [NoJob EXCEPT !.mode = mode, !.file = file]

(* The reviewed alias of a token holds for some time only, both for the day *)
(* that is asked for and for the observations that may answer it.           *)
AliasValid(alias, time) == alias.from <= time /\ time < alias.until
ApplicableAlias(t) == Alias[t.token] # None /\ AliasValid(Alias[t.token], Eod(t))
Identifiers == [k \in {k \in GapToken : Alias[k] # None} |-> Alias[k].identifier]

(***************************************************************************)
(* What a chart says of a target: the observation nearest to the end of its *)
(* day, the earlier of two equally near. Two prices for one time, or only   *)
(* malformed observations (price 0), make the answer invalid.               *)
(***************************************************************************)
OffsetOf(t, o) == IF o.at < Eod(t) THEN Eod(t) - o.at ELSE o.at - Eod(t)
Candidates(chart, t, alias) ==
  {o \in chart : o.price > 0 /\ OffsetOf(t, o) <= MaxOffset /\ (alias = None \/ AliasValid(alias, o.at))}
MatchChartObservation(chart, t, alias) ==
  LET candidates == Candidates(chart, t, alias)
      conflict == \E o1, o2 \in candidates : o1.at = o2.at /\ o1.price # o2.price
  IN IF conflict THEN "invalid_response"
     ELSE IF candidates # {} THEN "matched"
     ELSE IF \E o \in chart : o.price = 0 THEN "invalid_response" ELSE "not_found"

(***************************************************************************)
(* The requests for a set of targets: the runs of contiguous days of each   *)
(* identifier, cut into pieces of at most MaxSpan days.                     *)
(***************************************************************************)
FirstDay(days, d) == CHOOSE s \in days : s <= d /\ s .. d \subseteq days /\ s - 1 \notin days
PieceStart(days, d) == LET s == FirstDay(days, d) IN s + ((d - s) \div MaxSpan) * MaxSpan
GroupContiguousRanges(targets, identifier) ==
  LET Days(i) == {t.day : t \in {u \in targets : identifier[u.token] = i}}
      Place(t) == [identifier |-> identifier[t.token], start |-> PieceStart(Days(identifier[t.token]), t.day)]
  IN {[place |-> place, items |-> {t \in targets : Place(t) = place}] : place \in {Place(t) : t \in targets}}

Targets == DOMAIN job.records
Gaps == ToSet(job.gaps)
Resolved == {t \in Targets : job.records[t].method # None}

(***************************************************************************)
(* The end of a run. The report of a failed run leaves targets pending; it  *)
(* counts the batch that was being written as failed.                       *)
(***************************************************************************)
WithStatus(records, S, status) ==
  [t \in DOMAIN records |-> IF t \in S THEN [records[t] EXCEPT !.status = status] ELSE records[t]]
OfStatus(records, status) == {t \in DOMAIN records : records[t].status = status}

Fatal ==
  LET planned == IF job.gaps # <<>> /\ job.phase \in {"batch", "commit"} THEN Len(job.gaps)
                 ELSE Cardinality(Targets) - Cardinality(OfStatus(job.records, "skipped_existing"))
  IN job' = [job EXCEPT !.phase = "done", !.exit = 1, !.planned = planned]
Unattempted == Max({job.planned - job.committed - job.inFlight, 0})

Report ==
  LET pending == OfStatus(job.records, "pending")
      records == WithStatus(job.records, pending, "unresolved")
      missing == OfStatus(records, "unresolved") \cup OfStatus(records, "rejected_implausible")
  IN job' = [job EXCEPT !.phase = "done", !.records = records, !.exit = IF missing = {} THEN 0 ELSE 2]

(***************************************************************************)
(* The steps of a run.                                                      *)
(***************************************************************************)
ParseManifest ==
  /\ job.phase = "manifest"
  /\ IF \E t \in ToSet(job.file) : t.day >= Today THEN Fatal
     ELSE job' = [job EXCEPT !.phase = "preflight", !.records = [t \in ToSet(job.file) |-> NewRecord]]
  /\ UNCHANGED <<rows, inventory>>

\* Rows under another casing of a token's address stop the run.
RefuseCasings == job.phase = "preflight" /\ Fatal /\ UNCHANGED <<rows, inventory>>

\* The targets of a file outside of a set, each once, in their order.
OnceEach(file, without) ==
  LET first == {i \in DOMAIN file : file[i] \notin without /\ \A j \in DOMAIN file : j < i => file[j] # file[i]}
      Rank(i) == Cardinality({j \in first : j < i})
  IN [n \in 1 .. Cardinality(first) |-> file[CHOOSE i \in first : Rank(i) = n - 1]]

\* One read per chunk of targets; a target is read once.
ReadPricedKeys ==
  /\ job.phase = "preflight"
  /\ LET priced == {t \in Targets : HasPrice(t)}
     IN job' = [job EXCEPT !.phase = "skip", !.records = WithStatus(@, priced, "skipped_existing"),
                           !.gaps = OnceEach(job.file, priced)]
  /\ UNCHANGED <<rows, inventory>>

DeleteSkipped ==
  /\ job.phase = "skip"
  /\ inventory' = IF job.mode = "write" THEN inventory \ OfStatus(job.records, "skipped_existing") ELSE inventory
  /\ job' = [job EXCEPT !.phase = "direct", !.asking = GroupContiguousRanges(Gaps, [k \in GapToken |-> k])]
  /\ UNCHANGED rows

\* A request fails, or its answer is malformed, or it is a chart.
ChartAnswers == {[kind |-> "chart", chart |-> chart] : chart \in Charts}
           \cup {[kind |-> kind, chart |-> {}] : kind \in {"request_failed", "invalid_response"}}
WithAnswer(range, method, answer) ==
  LET Verdict(t) == IF answer.kind # "chart" THEN answer.kind
                    ELSE MatchChartObservation(answer.chart, t, IF method = "alias" THEN Alias[t.token] ELSE None)
      matched == {t \in range.items : Verdict(t) = "matched"}
      records == [t \in Targets |-> IF t \in matched THEN [job.records[t] EXCEPT !.method = method]
                                   ELSE job.records[t]]
  IN [job EXCEPT !.asking = @ \ {range}, !.records = records,
                 ![method] = @ + Cardinality(matched)]

\* Ranges are asked one after another; their order does not matter.
ResolveRange ==
  /\ job.phase \in {"direct", "alias"}
  /\ \E range \in job.asking, answer \in ChartAnswers : job' = WithAnswer(range, job.phase, answer)
  /\ UNCHANGED <<rows, inventory>>

StartAliases ==
  /\ job.phase = "direct" /\ job.asking = {}
  /\ LET aliased == {t \in Gaps \ Resolved : ApplicableAlias(t)}
     IN job' = [job EXCEPT !.phase = "alias",
                           !.asking = GroupContiguousRanges(aliased, Identifiers)]
  /\ UNCHANGED <<rows, inventory>>

StartWriting ==
  /\ job.phase = "alias" /\ job.asking = {}
  /\ job' = [job EXCEPT !.phase = "batch"]
  /\ UNCHANGED <<rows, inventory>>

\* The prices that are found implausible are known before the batch starts.
StartBatch ==
  /\ job.phase = "batch" /\ job.begun < Len(job.gaps)
  /\ LET last == Min({job.begun + TargetsPerBatch, Len(job.gaps)})
         batch == {job.gaps[i] : i \in job.begun + 1 .. last}
     IN \E rejected \in SUBSET (batch \cap Resolved) :
          job' = [job EXCEPT !.phase = "commit", !.rejected = rejected, !.inFlight = last - job.begun]
  /\ UNCHANGED <<rows, inventory>>

(* The transaction that writes a batch: under the table's lock nobody else  *)
(* writes between its statements.                                           *)
GapBatch == {job.gaps[i] : i \in job.begun + 1 .. job.begun + job.inFlight}
Offered == {t \in GapBatch \ job.rejected : t \in Resolved /\ ~HasPrice(t)}
Inserted == IF job.mode = "write" THEN {t \in Offered : rows[t] = "absent"} ELSE Offered
ResultOf(t) ==
  IF HasPrice(t) THEN "skipped_concurrent_existing"
  ELSE IF t \in Inserted THEN "inserted"
  ELSE IF t \in job.rejected THEN "rejected_implausible" ELSE "unresolved"

ApplyBatch ==
  IF job.mode = "write"
  THEN /\ rows' = [t \in Target |-> IF t \in Inserted THEN "ours" ELSE rows[t]]
       /\ inventory' = {t \in inventory \cup GapBatch :
                          t \notin GapBatch \/ ResultOf(t) \in {"unresolved", "rejected_implausible"}}
  ELSE UNCHANGED <<rows, inventory>>

WithResults(records) ==
  [t \in DOMAIN records |-> IF t \in GapBatch THEN [records[t] EXCEPT !.status = ResultOf(t)] ELSE records[t]]
(* Mutant: rejected prices stay counted as found. *)
SettleBatchUncounted ==
  job' = [job EXCEPT !.phase = "batch", !.records = WithResults(@), !.begun = @ + job.inFlight,
                     !.committed = @ + job.inFlight, !.inFlight = 0]

SettleBatch ==
  LET Lost(method) == Cardinality({t \in GapBatch : ResultOf(t) = "rejected_implausible" /\ job.records[t].method = method})
  IN job' = [job EXCEPT !.phase = "batch", !.records = WithResults(@), !.begun = @ + job.inFlight,
                        !.committed = @ + job.inFlight, !.inFlight = 0,
                        !.direct = @ - Lost("direct"), !.alias = @ - Lost("alias")]

CommitBatch == job.phase = "commit" /\ ApplyBatch /\ SettleBatch
\* The database committed, the connection failed before the tool knew.
GapCommitUnknown == job.phase = "commit" /\ job.mode = "write" /\ ApplyBatch /\ Fatal

StatementFails ==
  /\ \/ job.phase \in {"preflight", "commit"}
     \/ job.phase = "skip" /\ job.mode = "write" /\ OfStatus(job.records, "skipped_existing") # {}
  /\ Fatal /\ UNCHANGED <<rows, inventory>>

Finish ==
  /\ job.phase = "batch" /\ job.begun = Len(job.gaps)
  /\ Report /\ UNCHANGED <<rows, inventory>>

(* A request prices a target (the other days do not matter) and leaves the  *)
(* inventory as it is.                                                      *)
OthersPrice ==
  /\ job.phase # "done"
  /\ \E t \in Targets : rows[t] \in {"absent", "withheld"} /\ rows' = [rows EXCEPT ![t] = "theirs"]
  /\ UNCHANGED <<inventory, job>>

GapNext ==
  \/ ParseManifest \/ RefuseCasings \/ ReadPricedKeys \/ DeleteSkipped \/ ResolveRange
  \/ StartAliases \/ StartWriting \/ StartBatch \/ CommitBatch \/ GapCommitUnknown \/ StatementFails
  \/ Finish \/ OthersPrice

GapSpec == GapInit /\ [][GapNext]_gapVars

-----------------------------------------------------------------------------
Done == job.phase = "done"

(* Every price this run wrote is reported as inserted, unless the run died  *)
(* not knowing whether its last batch was committed; nothing else is.       *)
InsertsAreReported ==
  LET inserted == OfStatus(job.records, "inserted")
      unknown == IF job.exit = 1 THEN GapBatch ELSE {}
      ours == {t \in Target : rows[t] = "ours"}
  IN Done => /\ ours \ unknown \subseteq inserted
             /\ job.mode = "write" => inserted \subseteq ours
             /\ job.mode = "dry-run" => ours = {} /\ inventory = FirstListed

(* A run that ends with 0 leaves no target of its manifest without a price, *)
(* and one that ends with 2 lists exactly the targets it could not price.   *)
(* What the inventory says of other targets is left alone.                  *)
ExitTellsTruth ==
  Done /\ job.mode = "write" /\ job.exit # 1 =>
    LET unpriced == OfStatus(job.records, "unresolved") \cup OfStatus(job.records, "rejected_implausible")
    IN /\ job.exit = 0 => \A t \in Targets : HasPrice(t)
       /\ \A t \in Targets \ unpriced : HasPrice(t)
       /\ inventory = unpriced \cup (FirstListed \ Targets)

(* The counters of the report add up: the targets of a failed run are the   *)
(* committed, the failed and the unattempted ones, only those not committed *)
(* are pending, and the prices found by each method are those of the        *)
(* records.                                                                 *)
CountersAddUp ==
  Done =>
    /\ job.exit = 1 => job.committed + job.inFlight + Unattempted
                         = Cardinality(Targets \ OfStatus(job.records, "skipped_existing"))
    /\ Cardinality(OfStatus(job.records, "pending")) = IF job.exit = 1 THEN job.inFlight + Unattempted ELSE 0
    /\ \A method \in {"direct", "alias"} :
         job[method] = Cardinality({t \in Targets : job.records[t].method = method
                                                    /\ job.records[t].status # "rejected_implausible"})

(* The report of a gap backfill can be believed (BackfillReport): what it   *)
(* says was inserted is in the table, its exit code tells whether every     *)
(* target is priced, and its counters agree with its records, whatever      *)
(* other writers did meanwhile and wherever the run failed.                 *)
ReportTellsTruth == InsertsAreReported /\ ExitTellsTruth /\ CountersAddUp
=============================================================================
