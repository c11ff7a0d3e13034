# Verification of yearn-prices

TLA+ models of the parts of yearn-prices in which several actors share state, TLC configurations that check them on
small instances, and TLAPS proofs of what holds for every instance. Paths below are relative to the repository.

## 1. Inventory

| Part | State | Operations | Interacts with |
| --- | --- | --- | --- |
| Repair queue (`src/db/repair-queue.ts`) | `historical_price_repair_queue`: completion, attempts, next attempt, lease owner, token and expiry, last outcome | enqueue (read, then insert), claim, settle success, settle failure, release | repair workers, reconciliation, price table (evidence) |
| Repair worker (`scripts/repair-historical-prices.ts`) | a process: claims, current group, bisected claims, budget, hard-stop timer | claim, run the graph for groups of 25, confirm, settle, release, exit | queue, graph backfill, clock |
| Discovery (`scripts/lib/historical-repair.ts`) | none of its own | page of recent, provisional and inventory targets | queue, price table, inventory |
| Price table (`src/db/queries.ts`, `src/prices/rejections.ts`, migrations) | `token_prices`, `rejected_price_observations`, `quarantined_token_prices` | served, accepted and finalized reads; provisional, finalizing, insert-only and forced writes; rejection trigger | every part below |
| Historical routes and read-through (`src/routes/historical`) | a request: stored row, fetched price, guard verdict | read, fetch from upstream, guard, persist, respond | price table, DeFiLlama, current fallback, edge cache |
| Edge cache (`src/cache`) | responses with a TTL chosen from the requested day | match, put | routes |
| Warmup (`scripts/warmup-prices.ts`) | a run: request time, stage, missing targets, underlying prices | four stages: look for missing, fetch, persist | price table, providers |
| Finalizer (`src/backfill/finalize.ts`, `inventory.ts`) | a transaction: table lock, exact read, inventory changes | lock with retries, read, insert, settle inventory, commit | price table, gap inventory |
| Graph backfill (`scripts/lib/graph-backfill.ts`, `graph-replay.ts`, `stored-historical-prices.ts`) | evidence files, pending targets | skip priced, resolve, validate, finalize | graph resolver, finalizer |
| Curve LP repair (`scripts/lib/repair-curve-lp.ts`) | none between runs | quarantine, look for an accepted price, derive, insert | price table, adapters |
| Graph resolver (`src/sources/onchain/graph.ts`, `plan.ts`, `src/backfill/graph-validation.ts`) | nodes, routes, selected routes and versions | discover frontiers, select to a fixpoint, classify failures, validate | adapters, market sources |
| Recursive engine (`src/sources/onchain/engine.ts`, `context.ts`) | shared in-flight resolutions, wait graph, cached prices and failures, budgets | resolve, join, cancel | adapters, block search, market sources |
| HTTP client and rate limiter (`src/clients/http-client.ts`) | turns granted, shared cool-down, attempts of each call | wait for a turn, send, retry, give up | every provider |
| Block search (`src/clients/rpc.ts`) | cache of final answers, samples, running searches | block at a time | chain head, RPC |
| Batched historical client (`scripts/lib/batched-historical-client.ts`, `sources/defillama/batch.ts`, `match.ts`) | pending look-ups, caches, discovery mode, timer, drain | look up, discover, drain, assign observations | DeFiLlama |
| Source chains (`src/registries`) | per target: source asked, errors, what was reported | batch with time limit, then source after source | sources, routes |
| Spot batcher (`src/sources/defillama/spot.ts`) | entries with their waiters, flush flags, requests under way | ask, flush, fetch, cancel | DeFiLlama |
| Spot route and Curve LP guard (`src/routes/spot.ts`, `sources/defillama/lp-guard.ts`) | per coin: source, failures, reply; the guard's slots and queue | ask sources, check quotes, deadline, respond | sources, edge cache |
| Chainlink source (`src/sources/chainlink`) | none | search the round of a time over phases and feeds | RPC |
| Day alignment (`scripts/backfill-defillama-day-alignment.ts`, `lib/day-alignment-runner.ts`) | scratch tables: progress, missing days, ratios, what they are to be applied to | refetch days, replace rows, rescale derived rows, clean up | price table, DeFiLlama, warmup |
| Gap backfill (`scripts/backfill-historical-gaps.ts`, `src/backfill/*`) | a run: records, ranges, batches, counters | plan, fetch charts, try aliases, write batches, report | price table, inventory, DeFiLlama |
| HTTP service, write-downs, reports, adapters' arithmetic | none | formatting, look-ups, contract reads | |

What is hard in this system, and what has to hold:

* **Leases against process death.** Workers are killed, time out and leave statements in flight. Two live workers must
  never work on one target, a dead owner must not settle a newer claim, and no target may be stranded.
* **Attempt counts and backoff** are read at the claim and used minutes later; an open target must keep its history
  whatever reconciliation inserts meanwhile, and a failure of a group must not charge bystanders.
* **Evidence.** A target is closed on accepted finalized evidence only, although evidence comes from other writers and
  may be rejected again.
* **Bounded discovery.** A page with a `LIMIT` must not hide work behind rows that stay on it.
* **Midnight.** A price observed while its day is open is provisional and must not be finalized by whatever crosses
  midnight between the request and the write; closes must not rest on such prices; the edge must not keep them.
* **Rejection and quarantine** against writers that fetched the observation before.
* **Concurrent finalization.** Reads and inserts of one transaction against all other writers; gaps that are neither
  priced nor in the inventory.
* **Resolution graphs with cycles, depth and node limits**, and concurrent resolutions that wait for each other. A limit
  that was hit, a cycle or a failed read must never be taken for the absence of a price.
* **Batches, retries and cool-downs** shared by concurrent callers, who join, cancel and time out at any moment; all of them
  are to be answered, once, and with something that was earned.
* **Searches over something that grows or has holes**: blocks of a chain, rounds and phases of a feed.
* **One-off tools that are killed and run again**: a correction applied twice, or a range skipped, is not seen again.

`PROJECT.json` lists every part under `components` and every hazard at its line under `hazards`.

## 2. Modules

```
RepairQueue      table and statements of the repair queue
  RepairWorker     processes around it, clock, other writers
    RepairRefinement   instance of RepairLifecycle (what a target is promised)
      MCRepair           instances for TLC
    RepairReconcile    discovery with its page limit
    RepairThrows       history variables: what a process charges after a throw
      MCReconcile        instances of both for TLC
    RepairTheorems     proofs: the lease protocol, action properties, the refinement
PriceStore       token_prices, its reads and its writes
  HistoricalPrices   requests, edge, warmup, finalizers, Curve LP repair, migrations, midnight
    MCPrices           instances for TLC
      MCWriters          two scenarios: around midnight, and around a quarantine
HistoricalTheorems   proofs about HistoricalPrices and HistoricalBatches
TokenRoutes      tokens, sources, plans, failures and graphs: what both resolvers share
  PriceEngine      recursive engine          PriceEngineTheorems   proofs
  PriceGraph       graph resolver            GraphTheorems   proofs
  TokenRouteTheorems   lemmas both use
MCRequest        PriceEngine, ProviderClient, SourceRegistry, SpotBatches, SpotPrices, BlockSearch
RequestTheorems  proofs about ProviderClient, SourceRegistry, SpotPrices, BlockSearch
BatchTheorems    proofs about SpotBatches
MCOffline        PriceGraph, HistoricalBatches, FeedRounds, DayAlignment, GapBackfill
OfflineTheorems  proofs about DayAlignment, GapBackfill, FeedRounds
```

`MCRequest` and `MCOffline` put components beside each other that have their own callers and share no state in the code (each
reaches the next one as "a call that answers, fails, or takes its time", which is what its own module is about). The
variable `part` says which of them a behaviour is about; every component is explored in all its interleavings.

### RepairQueue

A row is a record `status, attempts, next, token, lease, outcome`. `status` folds the absence of a row and `completed_at`;
`next` and `lease` are `next_attempt_at` and `lease_expires_at` relative to `NOW()`, in ticks, so that no absolute clock is
needed. `lease_owner` is always written and compared with `lease_token`, so the token stands for both. `accepted` is the
set of targets for which the `EXISTS` on `token_prices` of `settleRepairSuccess` holds. Each SQL statement is one operator:
`ClaimRepairQueue` with `ClaimableBatch` (due, unleased or expired, oldest `next` first, `LIMIT`), `SettleRepairSuccess`,
`SettleRepairFailure` (backoff and parking computed from the attempt count the statement carries), `ReleaseRepairLease`,
`InsertTargets` with `Reopenable` for the upsert.

### RepairWorker

`pc` follows `main` and `processClaims`: `starting` (before the claim), `dispatch` (top of the loop), `graph`
(`runGraphBackfill`), `confirm` (`finalizedRepairKeys`), `settle` (the loop over the claims of the group), `drain`
(releasing what the budget left over). A settling statement is a record put into `sent` and executed by a later step
(`Answered`); if the process dies first, the statement may move to `late` and execute at any later time
(`LateStatement`). Crashes (`Crash`), a failing queue statement and the hard stop (`HardStop`) end the process with its
claims still leased. `GraphThrow` models the bisection of a group, `GraphFinalize` a batch that commits before the run
returns or throws. Reconciliation is `EnqueueRead` followed by `EnqueueInsert`, the two statements of
`enqueueRepairTargets`. The environment finalizes (`FinalizedElsewhere`), rejects (`Quarantine`) and clears parked rows
(`OperatorClear`), and `Tick` advances `NOW()` and the age of every process.

### RepairLifecycle and RepairRefinement

The abstract specification has `phase` (unknown, wanted, closed, parked), `holder` and `accepted`. It says that only the
holder moves a held target, that a target is taken only when nobody holds it, and that closing takes evidence.
`RepairRefinement` maps rows and processes to it; `ImplementsLifecycle` is checked as a property of `RepairWorker`.

### RepairReconcile

Replaces the arbitrary choice of `EnqueueRead` by `discoverRepairTargets`: recent targets plus, per inventory, the first
`DiscoveryLimit` candidates without an open row and without evidence. Candidates outside `Targets` are misaligned rows,
which take a place on the page and are skipped.

### RepairThrows

Writes two history variables beside the steps of `RepairWorker`: what the last graph run of a process threw for (`thrown`), and
which claims the process has let go of since with an attempt, a backoff or a parking that was not there before (`charged`,
read from the rows, not from the decision of the settle loop). `ThrowChargesOne` compares the two: after a throw over
several claims nobody is charged until the next graph run, whether the group is bisected or the budget is spent and its
claims are released; after a throw over one claim at most that one is.

### PriceStore

A row is a token, a day and a source with `value` and `final`. Of a price only its basis is kept: `"live"` if it was
observed while its day was open, `"close"` otherwise. `ServedKey`, `AcceptedKey` and `FinalKey` are `SERVED_PRICE_SQL`,
`ACCEPTED_PRICE_SQL` and the `finalizedOnly` filter; `Served` picks by source priority as `DISTINCT ON` does. Writes are
`InsertProvisionalTokenPrices`, `FinalizeTokenPrices` and `InsertTokenPrices`; all go through the trigger, which swallows
rejected observations. `lock` is the transaction that holds `SHARE ROW EXCLUSIVE`; every other writer waits
(`Unlocked`).

### HistoricalPrices

One record per actor. A request reads (`ReadStored`), waits for upstreams (`Fetch`), passes the Curve LP guard (`Guard`),
writes or fails to (`Persist`, `PersistFails`) and responds (`Respond`), which may put the answer into the edge for 30 days.
A warmup run fixes its request time when it starts and goes through its four stages; each stage looks for missing targets
once and writes target by target. A finalizer is one target of a graph run: `Plan` skips priced targets, `ResolveGraph`
reads stored rows and providers, and `AcquireLock`, `CommitBatch`, `LockTimeout` and `Abandon` are the transaction of
`finalizeBatch`, with the inventory updates. `Modes` is the set of `finalizedOnly` options in use: repair workers pass TRUE,
manual backfills FALSE. Curve LP repair is `Contain`, `CheckExisting`, `Derive`. `SeedRejection` is the migration that
adds to the rejection manifest, and `Midnight` moves the clock.

### TokenRoutes

A *world* says what the outside has to tell about each token: the answer of the market sources (`createMarketPriceResolver`:
a price, one observed too late, a confirmed miss, or the class `classifyError` gives to an error, which is `unsupported` for
every error it does not know) and the plans its adapters discover, in order: children, whether the plan derives around
missing ones, and where it fails. A plan that `throws` ends in an unknown error, or stands for adapters that cannot be
listed; one that `reverts` does not apply. `Ranking` is `FAILURE_ORDER` and `Worst`
`selectFailureReason`. The arithmetic of adapters is gone; which plan needs which token and may fail where is all that the
resolvers act upon. `Conceivable`, `Priceable` and the fixpoints of `KnownConceivable` and
`ErrorOrConceivable` are least fixpoints over a world, the references the resolvers are compared with.

### PriceEngine

`task[k]` is the shared promise in `inflight` with the frame of `resolveUncached` behind it: `market`, `discover` (at the next
adapter), `calling` (the synchronous stretch that starts or joins the children), `waiting`, `done`. `Call` is one
`resolveAt`: cache, ancestry (`cycle`), depth, `WouldDeadlock` over `waiting`, join, or a new resolution against the budget.
`turn` keeps a synchronous stretch together; everything else interleaves. `Settle` resolves a promise for all who await it.
A plan without `derive` ends with the first rejection, while its other calls go on and their edges stay in `waiting` until
they settle, as in the code. `Abort` is the caller's deadline.
`MarketFailure` is the conversion of unknown market errors to `retryable` (`engine.ts:300`). Hints only change the order of adapters, and the RPC read
budget is one of the ways in which a read fails.

### PriceGraph

The phases of `resolveHistoricalGraph` in their order: `ResolveNode`/`Frontier` (discovery with depth and node limits and the
children that are cut off), the selection loop with one action per node in the order of its passes (`RefuseRoute`,
`SelectRoute`, `PassNode`; `cursor` and `changed` are the loop's own), `MarkTooDeep`, `Classify` with the peeling of cycles,
`Propagate`, and `Validate` (`validateGraphResolution`). A price is represented by when it was calculated: `stale` holds nodes
of which an input has been selected anew since, which is what versions and recorded inputs are compared for. Errors of the
market sources and of the adapters become reasons as `classifyError` classes them, without the engine's conversion.

### ProviderClient

`fetchJsonWithRetry` under `SharedCooldownRateLimiter`: a call waits for the cool-down, then for a turn in the sliding window,
re-checks both, sends, and is answered, refused with or without a named wait, cut off, or aborted at each await. `Policies`
are the configurations the providers use. Time is in ages and remaining waits; timers may be late, never early.

### SourceRegistry, SpotPrices, SpotBatches

`SourceRegistry` is `resolveBatch`: the batch method of the first source by groups that may answer late, in any order or not at
all, its time limit, and then the chain of sources for what is open. `SpotPrices` is one request of the spot route: the
look-up of known pools, the chains of its coins side by side, the guard with its slots and hand-over, the deadline, and
whether the answer may be cached. `SpotBatches` is `DefiLlamaSpotSource`: entries shared by callers, the flush timer and its
three flags, rounds of bounded concurrency, and callers who leave.

### BlockSearch

`estimateBlockByTimestamp`: cache, shared searches, seeding from the samples of earlier ones, interpolation and bisection,
unreadable blocks, failing reads, and a head that advances between any two reads. The clients of a chain share its cache and
samples and nothing else: each has blocks it cannot read (`Gaps`: pruned, or before a migration) and may answer with a head
that others have passed. A search keeps the head it started from (`latest`), which its answer is measured by.

### HistoricalBatches, FeedRounds

`HistoricalBatches` is `BatchedHistoricalClient` with its discovery mode, timer and drain, the packing of requests
(`buildDefiLlamaPayloads`) and the assignment of observations (`assignNearestSamples`), both computed. What a sort puts in
order is stated as an order (`ChunkOrder`, `NearestFirst`) and listed by rank (`InOrder`), and a chunk of timestamps is stated
by its run, consecutive timestamps none of which lies within a search width of the one before (`Run`, `ChunkWith`); the two
loops that fill requests and give out observations are loops (`Loop`). `FeedRounds` reads
the feeds of one request side by side, one read at a time: the last round (`ReadLatest`), the one before it (`ReadTop`), the
bisection of a phase (`ReadMiddle`), the phase before (`ReadOlderPhase`). Rounds may be unreadable, phases unknown or empty,
aggregators write on after they were replaced, and any read may fail.

### DayAlignment, GapBackfill

`DayAlignment` has both phases of the tool, every transaction an action of its own. The work of a token may fail when its
stored days are read, at a fetch, at the guard, in a transaction, after one that was committed unnoticed, and when its
progress is recorded (`TokenFails`, `CommitUnknown`, `BatchNotFound`, `FinishToken`); the tool is stopped and
started in every mode, and warmup rewrites derived rows in between. Prices are logarithms, so a ratio is a difference.
`GapBackfill` is one run from the manifest to its report: what is priced, contiguous ranges, charts, aliases, batches,
commits whose answer is lost, other writers, exit status. The inventory of gaps starts with what earlier audits listed
(`FirstListed`), whether or not it is in the manifest.

## 3. Runs

| Run | Bounds | Question and result |
| --- | --- | --- |
| `Exclusion` | one target, two workers, one reconciler, four tokens, one late statement, lease 3 ticks, hard stop 2, budget 1 | Claims exclude each other; what a process remembers is what the row says; held rows are undisturbed; completion has evidence; backoff is preserved; the lifecycle is implemented. Also checks the inductive invariants the proofs use. |
| `Hang` | two workers, `TimedSpec` | Claims end and nothing is stranded although every call may hang. |
| `Settles` | one worker, `ScheduledSpec` | A target with lasting evidence leaves the queue. |
| `Discovery` | two targets, a misaligned row, page of two, groups of two, `DailySpec` | Every candidate surfaces while parked and misaligned candidates leave room on the page; a throw over two claims charges neither of them before the next graph run, one over a single claim nobody else. |
| `Writers` | one day and the midnight that ends it (`LastDay = 2`), one incident; *AcrossMidnight*: a token and its vault, one request, one warmup run, one repair; *InQuarantine*: a token with three sources, one request, two finalizers in both modes, one Curve LP repair | A direct observation of an open day is never finalized. Finalized rows stay; quarantine holds against everything in flight; finalizers defer to a price that is there; no gap is lost. |
| `Request` | five tokens in 24 worlds, depth and budget 4; two calls, one send in two ticks; three targets over three sources; four callers, two entries per coin; four coins, one slot; five blocks, two clients, two searches | Resolutions never wait in a circle and every root is answered; "unsupported" means that no price was conceivable; limits and cool-downs of providers are respected; each target is reported once and as earned; every waiter is in a batch that will be fetched; slots are kept; what is cached is settled; a block is the last of its time, for good if it is cached; all callers hear back. |
| `Offline` | six tokens in a menu of worlds, depth 4, 4 or 6 nodes; four look-ups; two feeds of at most three phases; a token with a vault over two days, four phases started; four targets, three of them listed before | Selections are acyclic and within the limits, what is validated rests on what it was calculated from, and nothing reachable is missed or misclassified; look-ups wait once and are answered; observations are shared out; rounds are current; derived prices are rescaled once; nothing is skipped; the report of the gap backfill is true. |
| `HiddenWork` | two targets, page of one | Violated: a parked target hides later work for good. |
| `DerivedClose` | a token and its vault | Violated: warmup finalizes a vault price derived from yesterday's provisional row. |
| `LongLived` | one token, a clock of three days | Violated: an automatic repair leaves another answer at the edge for 30 days. |
| `GraphLoop` | three tokens, each better priced through the next, over a chain of four conversions, depth 8 | Violated: the selection loop of the graph resolver never ends. |
| `UnknownErrors` | a token whose market sources or adapters end in an unknown error | Violated: the graph resolver writes the token off as unsupported. |

**Why the bounds are enough.** Two workers and one target meet in every way two owners of a claim can; a third owner adds
nothing a token comparison distinguishes, and the proofs cover any number. Ticks are coarse, but keep the only order the
code relies on: budget before hard stop before lease end. `AttemptCap` saturates attempts past the end of both backoff
schedules and one short of `MaxInvalidAttempts`, so no decision differs beyond it (what a run with `AttemptCap = 1` cannot
tell is how many attempts above the cap a parked row has; `CompletionTheorem` says it for every cap); `OverdueCap` saturates how long a row is
overdue, which matters only for the order of claims; `LateCap` bounds statements of dead processes in flight. In the price
models one day suffices because no rule relates two days of a token; `LastDay` lets the day be open, yesterday, and (in
`LongLived`) older, which are the only cases the SQL distinguishes. `LockRetryLimit` is 1 instead of 3. A request does
not outlast a whole day (guard of `Midnight`). A scenario of `Writers` restricts who is at work and which sources quote
what, nothing else; both are explored with all properties of the run. `Exclusion` permutes workers and lease
tokens, which the code tells apart only by equality; no symmetry is used with liveness.

In `Request` the worlds of the engine have circles of two and three tokens, two plans that meet in a shared child, a leaf
whose market has a price, none, or fails, and a plan of every way to fail; `MaxDepth = 4` and `ResolutionBudget = 4` are
below the five tokens, so that both are hit, and above the length of every circle, so that a circle is closed before. The
proofs cover other worlds and limits. One send per interval and two calls suffice for a call to overtake another in the
window and in the cool-down; three callers of one coin and two entries suffice for a newcomer to meet a dropped, a queued
and a fetched entry; one slot and three guarded coins suffice for a queue of two. Blocks 10, 12, 31, 31, 33 have
equal times, a jump that misleads interpolation, a target between them, and one that the head reaches later; the head is at 3 when the process starts and
either client may not have seen it; the clients can read all blocks, or lack the first two, or only one of them lacks
these. `MaxSearches = 2` bounds how many pairs of a client and a target are searched at all; `MaxCache = 1` and
`MaxSamples = 2` are exceeded.
In `Offline` the graph worlds have alternatives given up for better ones while parents rest on them, circles, derivations
around dead tokens, and errors of every kind at each place; four nodes cut the discovery off, six do not. Observations tie, lie between
two look-ups, and are malformed. Two days and a batch of one day let a run stop between the days of a token; `MaxStarts`
bounds how often the tool is started and `MaxRefreshes` how often warmup rewrites the derived row. Of the targets listed
before a gap backfill one is found priced, one is priced by it, and one is in no manifest. `GraphLoop` and `UnknownErrors` are
`Offline` with other worlds; `GraphLoop` has the default depth limit, 8, since the loop needs it: with 7 the ring settles on
its direct routes, with 9 on the cycle check.

Deadlock is not checked in the price runs: the clock stops at `LastDay`, and a run without requests left may stop there; nor
in `Request`, `Offline`, `GraphLoop` and `UnknownErrors`, whose parts are done when everyone has been answered. What must not block there is a
liveness property or an invariant of its own (`NoCircularWait`, `WaitersAreServed`, `SlotsAreKept`, `EachWaitsOnce`).

**Fairness.** `TimedSpec` assumes only that time passes and the hard-stop timer fires: the timer is a `setTimeout` in the
process itself and calls `process.exit` whatever a driver still waits for. `ScheduledSpec` adds what the cron schedule gives
(`.github/workflows/warmup.yml`, every 15 minutes): a worker is started again and again, and strong fairness for its calls,
since providers and the database answer infinitely often though not always. Crashes and throws are never assumed to stop,
except in `EvidenceSettles`, which says so in its premise. `DailySpec` (with `DailyFairness`) assumes a daily
reconciliation that does not always die between its two statements. `HistoricalPrices` states safety only.

In `Request` and `Offline` fairness is weak and given to what runs by itself once it was asked: resolutions of the engine,
whose reads end because their transports time out (`EngineFairness`); the clock and the answers of calls (`ClientFairness`);
the end of the batch stage, by answers or by its time limit, and the chain of each target (`RegistryFairness`); the flush
timer and the end of a request, by answer or failure (`SpotBatchesFairness`); the look-up of pools, the deadline, the
response and the checks of the guard, but not the sources, which may hang (`SpotFairness`); the reads of a search that is
under way (`BlockSearchFairness`); timer and drain of the batched client (`BatchFairness`). Nobody is obliged to ask, no
read to succeed, and no deadline of the engine's caller to come. `LoopSpec`, under which `GraphLoop` is violated, adds that
the resolver's process goes on.

Operators whose comment begins with "Mutant:" are faulty variants of the definition that follows them. They take no part
in the specifications; `PROJECT.json` names for every property the one that must break it.

## 4. Proofs

`QueueAssumption`, `WorkerAssumption` and `TargetsAssumption` are the assumptions on constants of the repair modules: the
table holds finitely many rows, backoff schedules are non-empty, bounds lie past them, and `BudgetTicks < HardStopTicks < LeaseTicks`, which `main` enforces (it refuses a lease
that does not outlast the budget by 300 seconds, and the hard stop comes 30 seconds after the budget).

* **Lease protocol** (`RepairTheorems`). `LeaseExclusion` is not inductive: it needs that tokens are never shared
  (`TokensDistinct`), that a token exists exactly while its claim does (`TokenFollowsClaim`), that what a process waits for
  is about one of its claims (`SentIsHeld`) while what dead processes left behind is about none (`LateIsDisowned`), and that
  the lease of a held row covers the rest of its process's life (`LeaseOutlasts`: lease plus age is at least `LeaseTicks`).
  With types and `BetweenGroups` this is `IInv`; one lemma per action shows that it is preserved, `TypeCorrect`,
  `LeaseInvariant`, `Exclusion` and `Currency` follow.
* **Steps** (`RepairTheorems`). `RowChange` says how a row may change under each action; from it and `RecordInv` (a
  statement that still finds its token carries the row's attempt count) follow `CompletionTheorem`, `BackoffTheorem` and
  `HeldRowTheorem`. `ThrowTheorem` is about `RepairThrows`. That nobody is charged after a throw over several claims is not
  inductive: the invariant (`ThrowInv`) says in addition that until the next graph run the group of a process has only
  claims of what threw, that it is settled only if that was a single claim or the budget is spent, that no failure is
  on its way to the queue in the latter case (`ThrowRemembered`), and where statements are under way at all (`SentInLoop`).
  With `RowChange` the rows then show what the process sent. Groups are counted, so the queue is finite
  (`TargetsAssumption`).
* **Price table** (`HistoricalTheorems`). `StoreAssumption` and `FlowAssumption` say that sources are totally ranked
  and any set of them has a first, that there are tokens and days, that days lie within the bound of the clock, and that a
  finalizer is not also a request, a warmup run or a repair. `RowChange` is what any step may do to a row: nothing, a write
  to a row neither rejected nor final, or the removal of a rejected one; `OnlyWritersWrite` and one case per writer show it,
  and `FinalityTheorem` and `RejectionTheorem` are immediate from it. `DeferralTheorem` needs more: `FinalizerDefers`
  compares a read with an insert some steps later, so the invariant `PriceInv` carries the read along (`UnpricedUnderLock`)
  and says whose the lock is (`LockIsHeld`); it is preserved because every other writer waits for the lock and a
  rejection only shrinks what counts as priced. `CloseTheorem` adds `StrictTransactions`: with `finalizedOnly`, what a
  transaction resolved from stored rows came from finalized rows. It is stated for `Modes = {TRUE}` only, since it is false
  for manual backfills (section 5). `GapsTheorem` rests on `TransactionsKnown`: a resolution is a price some writer of its
  target produces, so the batch that settles the target has a row to write it to; and what a transaction found priced when it
  took the lock is accounted for until it commits, or an observation was rejected since. `PriceTypes` is the type invariant.

* **Refinement** (`RepairTheorems`). `RefinementTheorem` is `Spec => ImplementsLifecycle`. From `IInv` a held
  target has one holder and the mapping names it (`HoldersNamed`); then one lemma per kind of step: a claim takes due rows,
  which nobody holds because a held row's lease has not expired; the answer to a statement lets one target go, and its row
  is still the sender's (`LeaseOutlasts`); a late statement finds its row changed, or settles a row no live process holds,
  since it carries nobody's token (`LateIsDisowned`); death, reconciliation, other writers and operators are steps of their
  own; everything else leaves phases, holders and evidence alone. `RefinementAssumption` says that `Nobody` is no worker.
* **Engine** (`PriceEngineTheorems`, with `TokenRouteTheorems`). `RoutesAssumption`, `WorldsAssumption` and
  `EngineAssumption` say that worlds are functions to market answers, errors of every class among them, and sequences of plans, that there is at least one
  level and one resolution, and that roots are handed over after their market sources have failed
  (`registries/market-price.ts`, `pricer.ts`). `EngineSound` is inductive. Its first part is `EngineInv`: a new edge of the
  wait graph is added only after `WouldDeadlock` found no path back, and such an edge closes no circle (`AcyclicAdd`: what
  can be reached from its end is a set without its start that no edge leaves); that every pending call is an edge
  (`WaitsAreKnown`) is what makes the check sufficient. `NoDeadlockTheorem` follows by taking the live keys as the set that
  must have a member without successors in it. The second part, `TasksSound` and `AnswersSound`, says that a resolution
  which has tried nothing but absences has exhausted the plans before its current one, so that a token that ends in
  `unsupported` is outside the least fixpoint `Conceivable` (`ConceivableUnfolds`); cycles, depth, budget and errors rank
  above it (`WorstUnsupported`). Results: `WaitGraphTheorem`, `NoDeadlockTheorem`, `AbsenceTheorem`.
* **Graph** (`GraphTheorems`). `GraphAssumption` says that node limits are numbers and that finitely many roots are asked for.
  `GraphSound` gives `SelectionTheorem`: a route is selected only if none of its children reaches the node along selected
  routes, so replacing the node's successors closes no circle (`AcyclicReplace`). `GraphKnown` is the rest of the inductive
  invariant, in named parts: a node that was resolved holds exactly its captured plans and the reasons of the others
  (`DiscoveryKnown`); a child that was cut off is not found later, because the limit that cut it off is final, and every other
  child has been found (`CutsKnown`); a selected route rests on children with prices or on confirmed misses under a plan that
  derives, misses stay misses, and heights are those of the children unless the node is stale (`SelectionKnown`); errors of
  routes have their causes (`ErrorsKnown`); a node behind the position of a pass without a change has nothing to try
  (`PassKnown`); reasons are the worst that is known (`ReasonsKnown`). The unknown children of a frontier are listed by the rank
  of their first mentions; `RanksIn` and `UnknownLists` show that the list is exactly those children, once each, so that
  the node limit is kept. Results: `GraphTheorem`; `AcceptedTheorem`, by the heights, which every conversion below an accepted
  root lowers; `ExhaustedTheorem`, since what has a price, or was never found, is closed under the plans, and so contains the least
  fixpoint `Priceable` unless a limit was hit, and what is not written off is closed likewise and contains
  the least fixpoint of `KnownConceivable`. Only errors `classifyError` does not know are excepted there, and in the code they are
  the exception: `UnknownErrors` shows that the statement is false with them (`ErrorsAreNoEvidence`).
* **Day alignment** (`OfflineTheorems`). `AlignmentAssumption` says that every vault has an underlying token, that a batch is
  not empty, and that prices and ratios are integers (logarithms). `AlignmentSound` is inductive: `WorkKnown` says that a
  token in work knows the stored prices of the days its cursor has yet to come to, has aligned or listed those it has
  passed, and that no stored day lies behind its last; `RatiosKnown` that a ratio which is not pending is 0, that a derived
  row not older than a pending ratio is a `loose` one, and that no derived row lacks the price under it. The two parts meet
  in the transaction of a batch (`BatchWritten`): the ratio it adds is right only because the stored price it was computed
  from is still there. Results: `RescaleTheorem` and `NothingSkippedTheorem`, over any number of days, failures and restarts.
* **Feeds** (`OfflineTheorems`). `FeedAssumption` says that a feed has a phase, that an aggregator writes its rounds one after the
  other, and that a request reads at least one feed. `FeedKnown` is inductive: while a feed is read, what the bisection found
  lies just before its bracket, and where all rounds can be read, nothing from the end of the bracket, or from the round in
  hand, on was written by the time (`NoneFrom`); the phases gone back are those between the round in hand and the newest.
  Result: `RoundsTheorem`.
* **Batched client** (`HistoricalTheorems`). `BatchesAssumption` says that timestamps are positive, that the clock does not pass the
  end of the open day, that limits are at least one, and that the strict distance is less than half the search width (15
  minutes and 6 hours in the code). `BatchInv` is inductive: the timer is set, or requests are under way, or nothing is to
  be done (`LoopKnown`); every open request keeps its limits and asks only for keys of the batch (`RequestsKnown`); and for
  every key, whether it is in line, in exactly one request, or settled, and how often it was sent (`KeyKnown`). A new batch
  needs what its requests hold: chunks part the timestamps of a coin, are spaced and not too long (`ChunksPart`), and
  placing one keeps those before it, so that the finished requests hold each chunk once (`PlacedHolds`, by `Upwards` over
  the loop). For the answers `AssignTells` states what one pass leaves behind: no time and no observation twice,
  and every pair it passed over meets one that comes before it; `MatchesTell` puts the two passes together. Strict matches
  cannot be contested, because the times of a chunk are a width apart. Results: `WaitsOnceTheorem`, `SharedTheorem`.
* **Source chains** (`RequestTheorems`). `RegistryAssumption`: there is a source, none occurs twice, and the groups of the
  batch partition the targets it covers and does not refuse. `ReportTheorem` rests on what a target's place in its chain says about the sources before it, and on a report being made
  only by the one chain the target is in.
* **Spot prices** (`RequestTheorems`). `SpotAssumption`: no source occurs twice, only Curve LPs that are known are guarded,
  there is at least one slot, the coins are finitely many, and the mark `"unknown"` is none of them. `SlotTheorem` needs that a coin queues for the guard exactly once and
  exactly while it says so; then a check that ends either hands its slot to the head of the queue, which leaves the number
  of checks alone, or finds the queue empty and gives it back. `CacheTheorem` needs what the place of a coin in its chain says
  about the sources that were asked, and that the response, once written, is never made better by a late answer.
* **HTTP client** (`RequestTheorems`). `ClientAssumption`: a limit and an interval of at least one, and at least one attempt.
  `LimiterTheorem` compares what the provider counts with what the limiter remembers: counted from the youngest, every
  request within the interval has a turn that is at most as old (`TurnForEach`), so a turn the limiter forgets belongs to no
  request that still counts, and a turn not used because of a cool-down only makes the limiter stricter.
* **Block search** (`RequestTheorems`). `SearchAssumption` says that times do not decrease along the chain and are positive
  above the genesis block, and that blocks that cannot be read lie below the first head. `BlockTheorem` has no further
  hypothesis: clients may read different histories and lag behind each other. What then can be promised is part of the
  property (`Sound`): where the clients of a chain read the same blocks and none lacks block 1 alone (`OneHistory`), an answer is
  the last block of its time among all blocks, and one its client can read; otherwise it may pass over blocks that some
  client lacks, since samples and cached blocks are keyed by chain (section 5), but over no others. (If only block 1
  is unreadable, a search that probes 2 and then 0 answers 0 although block 1 may be at or before its time.)
  `BlockSearchSound` is inductive: samples and cached answers are blocks up to the head that, with one history, every
  client can read (`CacheKnown`), and a running search has a bracket whose lower end was read and between whose ends the
  answer lies (`SearchKnown`, `Bracket`); an interpolated probe falls between them, whatever the times are.
* **Spot batcher** (`BatchTheorems`). `SpotBatchesAssumption` bounds nothing but says that callers are finitely many and sizes
  positive. `WaitersAreServed` is not inductive: it needs that an entry is pending or in one batch (`OncePlaced`), that the
  open ones are exactly those a coin's next caller joins, and have a place (`OpenKnown`), and that what is in flight for a coin
  was never dropped (`InflightKnown`), so that deleting the pending entry of a coin takes out the right one. Two lemmas about
  the operators carry the rest: a round cut into batches holds each pending entry once (`BatchesHoldEntries`), and what the
  workers neither take nor leave queued nobody waits for (`FetchedKeeps`).

Only model-checked:

* liveness (`ClaimsEnd`, `NothingStranded`, `EvidenceSettles`, `SurfacesWhilePageHasRoom`, `EveryRootAnswered`,
  `CallersHearBack`, `LookupsAnswered` and the like), since the prover handles neither liveness under fairness nor `ENABLED`.

The library's induction theorems cannot be instantiated here; where a proof above needs induction over numbers it takes a
least counterexample (`LeastOf`, `Upwards`).

No module uses `RECURSIVE`.

## 5. Disagreements between the code and what is written about it

1. `HiddenWork`: parked targets stay on the discovery page for ever and can fill it, although the comment on
   `discoverRepairTargets` says an unresolved target cannot hide later rows.
2. `DerivedClose`: `warmDerivedVaultPrices` finalizes prices that rest on yesterday's provisional row of the underlying,
   because `SERVED_PRICE_SQL` admits it, although the repair guide says current observations never fill closed days.
3. `LongLived`: provisional fills of closed days are sent with the 30-day header, and scheduled repairs do not bump
   `HISTORICAL_CACHE_REVISION`, although the comment in `headers.ts` relies on it.

4. `GraphLoop`: three tokens that each prefer a route through the next one, at the depth limit, keep the selection loop of
   `resolveHistoricalGraph` (`graph.ts:205`) going for ever. Through a neighbour on its direct route the preferred route is within
   the limit, through one on its preferred route it is not (`graph.ts:214`), so each token changes its route whenever
   its neighbour does, and three of them never agree. The loop awaits nothing, so no time limit in the process reaches it. The
   comment above the loop says that selections form an acyclic graph, which they do at every moment (`SelectionTheorem`), and
   `architecture.md:78` that budgets bound discovery, which they do; nothing bounds the revisiting.
5. `UnknownErrors`: `resolveHistoricalGraph` stores `classifyError(error)` as it is (`graph.ts:132`, `140`, `158`), which is
   `unsupported` for an error it does not know, such as the `SyntaxError` of an invalid JSON body (`http-client.ts:252`) or the
   plain error of a chain without an RPC URL (`graph-replay.ts:95`); the engine converts such market errors
   (`engine.ts:300`). The token is then reported as unsupported, although `README.md:75-76` says that provider and RPC errors are
   not evidence of unsupported tokens.

Met while reading and modelling, without a run of its own:

* A target whose evidence is written between the two statements of `enqueueRepairTargets` is enqueued although the comment
  there excludes it; the worker settles it at its next claim.
* A manual backfill (`finalizedOnly` FALSE) may take yesterday's provisional row as the root of its graph and finalize it if
  midnight passes before its transaction.
* `rpc.ts` keys samples and cached blocks by chain, not by client: a search by a pruned client that is seeded with a sample
  of an archive client may answer, and cache, that earlier block, whereas `test/clients/rpc.test.ts:65` expects warmed samples
  to give the answer of a cold search. `AnswersAreLast` exempts the blocks some client lacks where clients differ. What a client
  lacks is a prefix of the chain without its genesis block.
* A derived row that warmup rewrites between the two phases of day alignment is rescaled again although it already rests
  on the corrected price; the header of the script (lines 14-17) asks to pause warmup. `RescaledOnce` therefore
  leaves such rows (`loose`) out. Each retry of a token also extends its range by a day backwards.
* `docs/routes.md:123` says that a miss of the current day is not persisted and that closed days stay table-only; the
  read-through persists the former as provisional rows and fills the latter, as the comments in `headers.ts` say. The TTL of
  today's answers in `docs/routes.md:392` is not the one in `cache/headers.ts:8`.
* A failure of mixed causes is cached when the worst of them does not depend on the branch, so a retryable error hides a cycle
  for the lifetime of the engine (comment at `engine.ts:366`).
* Edges of the wait graph outlive a plan that was given up by its first rejection (`engine.ts:171-173`); they can only make
  `WouldDeadlock` refuse more.

## 6. Plan

1. **Batch and range routes**: aggregation of targets that are served, fetched and failed in one request.
2. **Composition**: `PriceEngine` under `SourceRegistry`, with the registry's time limit as the engine's `Abort`.

## 7. Not modelled

Arithmetic of the adapters and of prices, including the bounds within which the Curve guard finds a quote plausible; text of
requests, responses, reports and diagnostic codes; construction of RPC clients; authentication and validation; the
write-down table; read-only audits, benchmarks and analyses (`audit-prices.ts`, `benchmark-spot-coverage.ts`,
`analyze-historical-coverage.ts`, `replay-historical-gaps.ts`, `lib/historical-frontiers.ts`), the evidence files of
`graph-replay.ts`, the verification mode of day alignment, its stamping of rows of older runs and its failure to load the
list of vaults, and restarting a gap backfill from a report; token casing and day-end normalisation (targets are
normalised); batch and range routes beyond the exact route they repeat; short edge TTLs; browser caches; concurrency groups
of the workflows, on which nothing modelled relies.
