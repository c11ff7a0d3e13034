----------------------------- MODULE PriceEngine ------------------------------
(***************************************************************************)
(* RecursivePriceEngine: the tokens of one request are priced by adapters   *)
(* that ask the same engine for their children. All resolutions run on one  *)
(* event loop; a resolution of a key is shared by everyone who asks for the *)
(* key while it runs, so concurrent branches could wait for each other.     *)
(*                                                                          *)
(* task[k] is the call of resolveUncached that is in flight for k. Its      *)
(* synchronous stretch from the discovered plan to the last call for a      *)
(* child takes several steps here, one per call; `turn' keeps every other   *)
(* actor out of it.                                                         *)
(***************************************************************************)
EXTENDS TokenRoutes

CONSTANTS ResolutionBudget,   \* resolutions one engine may start
          Idle                \* turn: no synchronous stretch is under way

(* A root is handed to the engine when its market sources have failed it.   *)
ASSUME EngineAssumption ==
  /\ ResolutionBudget \in Nat \ {0}
  /\ Idle \notin Key
  /\ \A w \in Worlds : \A r \in Roots : w[r].market = "missing"

VARIABLES task,          \* inflight, and where each resolution stands
          waiting,       \* waiter -> keys it is waiting for
          successful,    \* cached prices
          failed,        \* cached failures: the reason, or "none"
          resolutions,   \* how many were started
          turn,          \* who is in a synchronous stretch
          answer,        \* what the caller of each root got
          aborted        \* the caller's signal
engineVars == <<task, waiting, successful, failed, resolutions, turn, answer, aborted>>

Failure == Reason \cup {"aborted"}
Answer == Failure \cup {"none", "pending", "priced"}
Stage == {"none", "market", "discover", "calling", "waiting", "done"}

NoCalls == [d \in Key |-> "none"]

Task(stage, ancestry, result) ==
  [stage |-> stage, ancestry |-> ancestry, plan |-> 1, todo |-> <<>>,
   calls |-> NoCalls, tried |-> {}, result |-> result]
NoTask == Task("none", <<>>, "none")
TaskRecord == [stage : Stage, ancestry : Seq(Key), plan : Nat \ {0}, todo : Seq(Key),
               calls : [Key -> Answer], tried : SUBSET Failure, result : Answer \ {"pending"}]

Live(k) == task[k].stage # "none"
PlanOf(k) == Plans(k)[task[k].plan]

EngineInit ==
  /\ task = [k \in Key |-> NoTask]
  /\ waiting = [k \in Key |-> {}]
  /\ successful = [k \in Key |-> FALSE]
  /\ failed = [k \in Key |-> "none"]
  /\ resolutions = 0
  /\ turn = Idle
  /\ answer = [r \in Roots |-> "none"]
  /\ aborted = FALSE

(* What is known of k without asking: the cached price or failure.          *)
Cached(k) == IF successful[k] THEN "priced" ELSE failed[k]
(* Mutant: only a wait of two for each other is noticed. *)
WaitsBack(waiter, awaited) == waiter \in waiting[awaited]

(* Awaiting `awaited' would close a loop of waits.                          *)
WouldDeadlock(waiter, awaited) == Reaches(waiting, awaited, waiter)

(* resolveUncached of k up to its first await, everything else about the    *)
(* tasks being `tasks'. Only children are looked up in the market.          *)
Start(tasks, k, ancestry) ==
  IF resolutions >= ResolutionBudget
  THEN /\ failed' = [failed EXCEPT ![k] = "budget"]
       /\ task' = [tasks EXCEPT ![k] = Task("done", ancestry, "budget")]
       /\ UNCHANGED resolutions
  ELSE /\ resolutions' = resolutions + 1
       /\ task' = [tasks EXCEPT ![k] =
                     Task(IF ancestry = <<>> THEN "discover" ELSE "market", ancestry, "none")]
       /\ UNCHANGED failed

(* The resolution of k ends in `result', to be handed out by Settle.        *)
Conclude(k, result) == task' = [task EXCEPT ![k] = [task[k] EXCEPT !.stage = "done", !.result = result]]
MoveTo(k, stage) == task' = [task EXCEPT ![k] = [task[k] EXCEPT !.stage = stage]]

(* On to the next adapter. Calls of the last one that are still under way   *)
(* stay in `waiting'.                                                       *)
NextAdapter(k, reasons) ==
  task' = [task EXCEPT ![k] =
             [task[k] EXCEPT !.stage = "discover", !.plan = task[k].plan + 1, !.calls = NoCalls,
                             !.tried = task[k].tried \cup reasons]]

-----------------------------------------------------------------------------
(* resolve: the request asks for a root. It is asked once; what ends before *)
(* the first await is answered at once.                                     *)
Resolve(r) ==
  /\ turn = Idle
  /\ answer[r] = "none"
  /\ IF aborted
     THEN answer' = [answer EXCEPT ![r] = "aborted"] /\ UNCHANGED <<task, failed, resolutions>>
     ELSE IF Cached(r) # "none"
     THEN answer' = [answer EXCEPT ![r] = Cached(r)] /\ UNCHANGED <<task, failed, resolutions>>
     ELSE /\ answer' = [answer EXCEPT ![r] = "pending"]
          /\ IF Live(r) THEN UNCHANGED <<task, failed, resolutions>> ELSE Start(task, r, <<>>)
  /\ UNCHANGED <<waiting, successful, turn, aborted>>

(* An error of the market sources that classifyError does not know counts   *)
(* as one that may pass.                                                    *)
MarketFailure(k) == IF Market(k) = "unsupported" THEN "retryable" ELSE Market(k)

(* The market sources answer for a child. A price or an error ends the      *)
(* resolution and is cached; a miss sends it to the adapters.               *)
MarketAnswers(k) ==
  /\ turn = Idle /\ ~aborted
  /\ task[k].stage = "market"
  /\ CASE Market(k) \in {"price", "late"} ->
            /\ successful' = [successful EXCEPT ![k] = TRUE]
            /\ Conclude(k, "priced")
            /\ UNCHANGED failed
       [] Market(k) = "missing" ->
            /\ MoveTo(k, "discover")
            /\ UNCHANGED <<successful, failed>>
       [] OTHER ->
            /\ failed' = [failed EXCEPT ![k] = MarketFailure(k)]
            /\ Conclude(k, MarketFailure(k))
            /\ UNCHANGED successful
  /\ UNCHANGED <<waiting, resolutions, turn, answer, aborted>>

(* The next adapter discovers its plan and begins to ask for the children,  *)
(* or its reads fail.                                                       *)
Discover(k) ==
  /\ turn = Idle /\ ~aborted
  /\ task[k].stage = "discover"
  /\ task[k].plan \in DOMAIN Plans(k)
  /\ IF Undiscovered(PlanOf(k))
     THEN NextAdapter(k, {DiscoveryError(PlanOf(k))}) /\ UNCHANGED turn
     ELSE IF PlanOf(k).deps = <<>>
     THEN MoveTo(k, "waiting") /\ UNCHANGED turn
     ELSE /\ task' = [task EXCEPT ![k] = [task[k] EXCEPT !.stage = "calling", !.todo = PlanOf(k).deps]]
          /\ turn' = k
  /\ UNCHANGED <<waiting, successful, failed, resolutions, answer, aborted>>

(* resolveAt for the next child: a circle of ancestors, the depth limit,    *)
(* the caches, a circle of waits, or joining or starting its resolution.    *)
Call(w) ==
  LET d == Head(task[w].todo)
      lineage == Append(task[w].ancestry, w)
      verdict == IF \E i \in DOMAIN lineage : lineage[i] = d THEN "cycle"
                 ELSE IF Len(lineage) >= MaxDepth THEN "max-depth"
                 ELSE IF Cached(d) # "none" THEN Cached(d)
                 ELSE IF WouldDeadlock(w, d) THEN "cycle"
                 ELSE "pending"
      rest == Tail(task[w].todo)
      after == [task[w] EXCEPT !.todo = rest,
                               !.stage = IF rest = <<>> THEN "waiting" ELSE "calling",
                               !.calls[d] = verdict]
  IN /\ turn = w
     /\ task[w].stage = "calling"
     /\ turn' = IF rest = <<>> THEN Idle ELSE w
     /\ IF verdict # "pending"
        THEN /\ task' = [task EXCEPT ![w] = after]
             /\ UNCHANGED <<waiting, failed, resolutions>>
        ELSE /\ waiting' = [waiting EXCEPT ![w] = @ \cup {d}]
             /\ IF Live(d)
                THEN task' = [task EXCEPT ![w] = after] /\ UNCHANGED <<failed, resolutions>>
                ELSE Start([task EXCEPT ![w] = after], d, lineage)
     /\ UNCHANGED <<successful, answer, aborted>>

(* The calls of w's plan that were answered with a failure.                 *)
Refused(w) == {d \in Key : task[w].calls[d] \in Failure}
AllAnswered(w) == \A d \in Key : task[w].calls[d] # "pending"
(* Mutant: a derivation takes every failure for an absence. *)
RejectionsOutsideDerive(w) ==
  IF PlanOf(w).derive THEN {} ELSE {task[w].calls[d] : d \in Refused(w)}

(* The failure a plan ends in: without `derive' the rejection of any child  *)
(* rejects the plan at once; with it all children are awaited, and the      *)
(* first failure counts that is more than the absence of a price.           *)
Rejections(w) ==
  IF ~PlanOf(w).derive THEN {task[w].calls[d] : d \in Refused(w)}
  ELSE IF ~AllAnswered(w) THEN {}
  ELSE LET deps == PlanOf(w).deps
           hard == {i \in DOMAIN deps : task[w].calls[deps[i]] \in Failure \ {"unsupported"}}
       IN {task[w].calls[deps[i]] : i \in {i \in hard : \A j \in hard : i <= j}}

AdapterFails(w) ==
  /\ turn = Idle /\ ~aborted
  /\ task[w].stage = "waiting"
  /\ \E reason \in Rejections(w) : NextAdapter(w, {reason})
  /\ UNCHANGED <<waiting, successful, failed, resolutions, turn, answer, aborted>>

(* Every child is there, or absent and derived around: the plan is          *)
(* evaluated. A derivation without any price to rest on returns null, which *)
(* leaves no attempt behind.                                                *)
AdapterQuotes(w) ==
  /\ turn = Idle /\ ~aborted
  /\ task[w].stage = "waiting"
  /\ AllAnswered(w) /\ Rejections(w) = {}
  /\ IF Refused(w) # {} /\ Refused(w) = Children(PlanOf(w))
     THEN NextAdapter(w, {}) /\ UNCHANGED successful
     ELSE \/ /\ MayRefuse(PlanOf(w))
             /\ NextAdapter(w, {"invalid"})
             /\ UNCHANGED successful
          \/ /\ MayYield(PlanOf(w))
             /\ successful' = [successful EXCEPT ![w] = TRUE]
             /\ Conclude(w, "priced")
  /\ UNCHANGED <<waiting, failed, resolutions, turn, answer, aborted>>

(* Failures that depend on where the token sat in this branch.              *)
Positional == {"cycle", "max-depth"}

(* No adapter is left.                                                      *)
Fail(k) ==
  LET reason == Worst(task[k].tried)
  IN /\ turn = Idle /\ ~aborted
     /\ task[k].stage = "discover"
     /\ task[k].plan \notin DOMAIN Plans(k)
     /\ Conclude(k, reason)
     /\ failed' = IF reason \in Positional THEN failed ELSE [failed EXCEPT ![k] = reason]
     /\ UNCHANGED <<waiting, successful, resolutions, turn, answer, aborted>>

(* After the caller gave up a resolution ends at its next check, which a    *)
(* resolution waiting for children reaches when one of them is answered.    *)
SeeAbort(k) ==
  /\ turn = Idle /\ aborted
  /\ \/ task[k].stage \in {"market", "discover"}
     \/ /\ task[k].stage = "waiting"
        /\ \/ AllAnswered(k)
           \/ Rejections(k) # {}
           \/ \E d \in Key : task[k].calls[d] = "aborted"
  /\ Conclude(k, "aborted")
  /\ UNCHANGED <<waiting, successful, failed, resolutions, turn, answer, aborted>>

(* The promise of k resolves: all who await it go on, one after the other   *)
(* with nothing in between. Their waits end, and k is no longer in flight.  *)
Settle(k) ==
  LET result == IF aborted THEN "aborted" ELSE task[k].result
  IN /\ turn = Idle
     /\ task[k].stage = "done"
     /\ waiting' = [w \in Key |-> waiting[w] \ {k}]
     /\ task' = [w \in Key |->
                   IF w = k THEN NoTask
                   ELSE IF task[w].calls[k] = "pending"
                   THEN [task[w] EXCEPT !.calls[k] = result]
                   ELSE task[w]]
     /\ answer' = [r \in Roots |-> IF r = k /\ answer[r] = "pending" THEN result ELSE answer[r]]
     /\ UNCHANGED <<successful, failed, resolutions, turn, aborted>>

(* The caller's deadline.                                                   *)
Abort ==
  /\ turn = Idle /\ ~aborted
  /\ aborted' = TRUE
  /\ UNCHANGED <<task, waiting, successful, failed, resolutions, turn, answer>>

Work(k) ==
  \/ MarketAnswers(k)
  \/ Discover(k)
  \/ Call(k)
  \/ AdapterFails(k)
  \/ AdapterQuotes(k)
  \/ Fail(k)
  \/ SeeAbort(k)
  \/ Settle(k)

EngineNext ==
  \/ \E r \in Roots : Resolve(r)
  \/ \E k \in Key : Work(k)
  \/ Abort

(* Reads of markets and contracts end: their transports have timeouts. The  *)
(* caller need not ask for anything.                                        *)
EngineFairness == \A k \in Key : WF_engineVars(Work(k))

(* One engine in one world, without fairness.                               *)
EngineSpec ==
  /\ world \in Worlds /\ EngineInit
  /\ [][EngineNext /\ UNCHANGED world]_<<world, engineVars>>

-----------------------------------------------------------------------------
EngineTypeOK ==
  /\ task \in [Key -> TaskRecord]
  /\ waiting \in [Key -> SUBSET Key]
  /\ successful \in [Key -> BOOLEAN]
  /\ failed \in [Key -> Reason \cup {"none"}]
  /\ resolutions \in 0..ResolutionBudget
  /\ turn \in Key \cup {Idle}
  /\ answer \in [Roots -> Answer]
  /\ aborted \in BOOLEAN

(* Nobody waits in a circle, whoever joined whose resolution when           *)
(* (engine.ts:169-173, 255).                                                *)
NoCircularWait == Acyclic(waiting)

(* A call that is pending is one the wait graph knows of, and one that      *)
(* somebody is working on: the graph that WouldDeadlock looks at is never   *)
(* missing an edge.                                                         *)
WaitsAreKnown ==
  \A w, d \in Key :
    /\ task[w].calls[d] = "pending" => d \in waiting[w]
    /\ d \in waiting[w] => Live(d)

EngineInv == EngineTypeOK /\ NoCircularWait /\ WaitsAreKnown

(* Whatever is in flight, some resolution is not waiting for another.       *)
SomeoneCanGoOn ==
  (\E k \in Key : Live(k)) => \E k \in Key : Live(k) /\ AllAnswered(k)

(* A token is reported as unsupported only if no source and no plan could   *)
(* have priced it: cut-offs, cycles, transient and invalid results never    *)
(* pass for the absence of a price (architecture.md:187-190). An error of   *)
(* an adapter that classifyError does not know counts as a revert.          *)
UnsupportedIsAbsent ==
  \A k \in Key :
    (\/ failed[k] = "unsupported"
     \/ \E w \in Key : task[w].calls[k] = "unsupported"
     \/ k \in Roots /\ answer[k] = "unsupported") => k \notin Conceivable

(* Everyone who asks is answered, with or without a deadline.               *)
EveryRootAnswered ==
  (\E r \in Roots : answer[r] = "pending") ~> (\A r \in Roots : answer[r] # "pending")
=============================================================================
