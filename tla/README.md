# A TLA+ verification project for arbitrage-runtime

arbitrage-runtime watches the mempool of an EVM chain, turns pending swaps into
candidates, evaluates them, and submits at most one transaction at a time with
the hot wallet.  What is hard about it is not the arithmetic of one candidate
but what happens between tasks and over time: bounded channels in a circle, a
main loop that awaits the executor inline, stop-losses and budgets that add up over
several calls, an RPC fleet whose cached scores are shared by
every task, gates that read a switchable mode again at every step, and telemetry
that moves through buffers into one of two databases.  This project models those
parts, checks them with TLC on small instances and proves, with TLAPS and for every
value of the constants, one refinement and every safety property that a run shows to
hold; liveness is left to TLC.

Paths of source files below are relative to `src/`, the root of the repository.

## 1. Inventory

| Component | Code | State | Operations | Talks to |
|---|---|---|---|---|
| Mempool feeds | `src/mev/runtime.rs` 778-955 | a task per websocket, failure count | connect, deliver, reconnect, give up | main loop (unbounded channel) |
| Main loop | `runtime.rs` 514-755 | dedup window, admission window, microbatch | scan hash, scan full tx, push candidate, tick | all channels; awaits the executor |
| Lookup/decode workers | `runtime.rs` 578-616, 1064-1307 | one task in hand | receive, look up, decode, send | lookup channel -> evaluation channel, RPC fleet |
| Evaluation workers | `runtime.rs` 618-654, 1574-2840 | one candidate in hand | receive, gate, quote, send | evaluation channel -> ready channel, pool cache, adaptive policy |
| Execution engine | `src/mev/execution/executor.rs` | capital budget, global and contextual guards, treasury signal, PnL | `handle` | RPC fleet, relays, chain, storage |
| RPC fleet | `src/rpc.rs` | per endpoint: counters, cooldown, burst, disabled; score cache | select, record success/failure, reserve, enable/disable | every task, dashboard |
| Decoder | `runtime.rs` 6010-7303, 8370-8556 | none | calldata to swap signal | lookup/decode workers |
| Lookup budget, small-swap budget | `runtime.rs` 356-431, 1348-1459 | windows, cached pressure | admit | main loop, lookup workers |
| Dashboard | `src/dashboard.rs` | pause flag, mode, thresholds, lists, write buffers, telemetry file | record, flush, clear, pause, switch, enable/disable, report | everything |
| Adaptive policy | `src/mev/adaptive.rs` | moving averages per cluster and relay | quote, rank, learn | evaluation workers, executor |
| Pool cache | `src/mev/cache/pool_cache.rs` | pool states with ages | get, refresh | evaluation workers |
| AMM mathematics | `src/mev/amm/` | none | output amounts, optimal input | payload builder |
| Payload builder, encoders | `src/mev/execution/` | none | build calldata | evaluation workers |
| Storage, replay, benchmark | `src/storage.rs`, `src/replay.rs`, `src/benchmark.rs` | SQL tables, buffers | persist, replay, measure | dashboard, evaluation |
| Executor contracts | `contracts/` | owner, pause, allow lists | execute, flash-loan callback | the chain |

Hard behaviours, and where they bite (the full list, with lines, is `hazards` in
`PROJECT.json`):

* **Circular waiting.**  The main loop feeds the lookup channel with an awaited
  send and is the only reader of the ready channel.
* **One failure, many parts.**  An `Err` of `handle` ends `run`; a panic ends an
  evaluation task without anybody noticing.
* **Stale decisions.**  Losses of earlier calls decide about a later one; scores of
  endpoints are read under one lock and stored under another.
* **Late answers.**  Receipt polling ends after ten rounds, the transaction may be
  included in the eleventh; a submission that reported failure may have arrived.
* **Resources at their limit.**  Queue reserve, dedup window, exposure windows,
  burst units, cooldown caps, the lookup and small-swap budgets, the replay queue,
  lists that are cut to a length.
* **A mode that changes under a candidate.**  Every gate takes the lock of the
  opportunity mode again; the dashboard may switch it in between.
* **Crash and restart.**  Buffers die with the process, a restart may find the
  other database, writes and prunes fail one statement at a time.
* **Read, then write, under two locks.**  Pool cache, thresholds, telemetry file.

What makes the parts correct:

* pipeline: a candidate is executed at most once while its hash is remembered,
  no stage loses or duplicates one, the best of a batch goes first, hash
  admission never blocks the loop, everything admitted is resolved;
* executor: nothing is submitted under an armed stop-loss, reservations stay
  within the limits and are given back, each dispatched call is counted once, a
  call always ends;
* fleet: a stale offer needs a race and heals, cooldowns are cut short only by
  the burst rule, reads prefer health over kind;
* evaluation: each stage counts each candidate once whatever the mode does, what
  becomes ready answers for its gas, only a raced switch can panic;
* telemetry: no event is counted twice, none is lost without a fault, what is in
  memory and what is stored differ only by what is on its way, only old rows are
  pruned;
* services: fees are includable and near their cap, the lookup budget falls with
  the fleet, the cache's answers are close to the caller's block, what
  the log says of a setting is in force, relay scores do not reward failures,
  wrapping neither hides a swap nor lends confidence to a guess.

## 2. Modules

| Module | Models | Used by |
|---|---|---|
| `Pipeline` | channels, main loop, workers, pause, failure of `run` | `MCPipeline`, `PipelineProofs` |
| `Executor` | one `ExecutionEngine` and its calls of `handle` | `MCExecutor`, `ExecutorProofs` |
| `RpcFleet` | endpoint states, score cache, selection | `MCRpcFleet`, `RpcFleetProofs` |
| `Gates` | the gates of the two worker tasks, as operators | `Evaluation` |
| `Evaluation` | one lookup and one evaluation task per candidate, gate by gate; replay queue | `MCEvaluation`, `EvaluationProofs` |
| `Ledger` | abstract: what the counters of the telemetry promise | `Telemetry`, `LedgerProofs` |
| `Telemetry` | dashboard buffers and lists, flush, clear, prune, two databases, crash and restart | `MCTelemetry`, `TelemetryProofs` |
| `GasPricing` | `dynamic_gas_price` and the signed fee fields | `Services`, `ServiceProofs` |
| `LookupBudget` | pressure, budget and windows of `should_enqueue` | `Services`, `ServiceProofs` |
| `PoolCache` | `get_or_fetch_v2`, `get_or_fetch_v3` | `Services`, `ServiceProofs` |
| `Controls` | pause, mode and thresholds requests of the dashboard | `Services`, `ServiceProofs` |
| `FileTelemetry` | the telemetry file and its rotation | `Services`, `ServiceProofs` |
| `AdaptivePolicy` | what the policy learns, relay scores, market regime | `Services`, `AdaptiveProofs` |
| `SwapDecoder` | `decode_relevant_swap` and the decoders it calls | `Services`, `ServiceProofs` |
| `Services` | the seven modules above in one specification | `MCServices` |
| `MC*` | small values for the constants | the `.cfg` files |
| `*Proofs` | theorems and their lemmas | - |

Operators whose comment begins with "Mutation" are deliberately wrong variants of
the definition that follows them.  No specification uses them: each shows, when
put in the place of that definition, that a property fails under the bug.

### Pipeline

`inbox` is the unbounded fan-in channel, `lookupQ`, `evalQ` and `readyQ` are the
three bounded tokio channels.  The main loop has a program counter: `select`,
`sending` (inside `lookup_decode_tx.send(..).await`), `executing` (inside
`ExecutionEngine::handle`) and `failed`.  Each branch of the `select!` is an
action, split where the code splits: `MainDiscardPaused`, `MainDuplicate`,
`MainScanHash`, `MainScanFull`, `MainSend`, `MainReady`, `MainFlushTick`.  A
worker is `idle`, `busy` with a candidate, `sending` it, or gone.  `setup` holds
the two settings that change the control flow: full-transaction subscriptions and
the gas cap.

Abstractions.  A transaction is a model value.  Whether a lookup or an evaluation
accepts it is free, except that the pre-decode gate is a property of the
transaction.  The lookup budget may be any of `LookupBudgets` at each refresh.
One-second windows, the 45 ms batch window and the 900 ms life of the cached
pressure are free choices: each may or may not be over whenever it is asked.
`send` on a channel does not fail while `run` lives because `run` itself holds an
`Arc` of both receivers; when `run` returns, channels close as the last of their
ends is dropped (`EvalReceiverAlive`, `LookupStop`, `EvalStop`).  The `break` on a
failed send and the tail flush after the loop (`runtime.rs` 750-754) are
therefore unreachable and have no action.

### Executor

A call of `handle` goes through `context` (awaiting nonce, gas price, balance),
`preflight`, `submitting` and `observing`; the runtime awaits each call, so there
is one at a time.  `Tick` and `ChainIncludes` may come between any two steps.
`guard` and `context` are the two stop-losses, `reservations` the capital budget.
`Info` gives an opportunity its pair, router, cluster and capital.

Abstractions.  Profit is one of profit, loss and revert.  The regime-pressure
average is abstracted to the five bands that the thresholds of `record_result`,
`contextual_stop_loss_threshold` and `contextual_freeze_secs` tell apart; any band
may be next.  Ranking by score is a free choice of the first path.  Relay URLs are
assumed to parse.  `Ranked` lets direct RPC rank any non-empty set of at most
`Fanout` endpoints, which covers what the fleet may answer.  Time 0 stands for
`None`.  The history variables `sentAt` and `unreleased` are read by properties
only.

### RpcFleet

`count`, `cooldown`, `burst`, `disabled` and `block` are the fields of
`RpcEndpointState`.  Every update of an endpoint is one action under its lock; the
invalidation of the cache, which the code does after it has released the lock, is
another (`InvalidateScoreCache`), and `unflushed` counts the callers in between.
`keep_only_getblock_enabled` takes the locks one by one (`sweep`).
`recompute_scores` reads endpoint by endpoint (`RecomputeScore`) and stores the
whole (`RecomputeStore`).  `raced` and `dirty` are history: an invalidation fell
inside the recomputation that produced the cache.

Abstractions.  A score is reduced to whether there is one.  The order and the
limit of a selection, which scores decide, are left out; the lookups of one
selection are one step.  Durations are rounded up to ticks of `TickMs`, which is
longer than the 1.2 s burst window, so a tick empties it.  Burst units above the
larger of the two limits they are compared with are not told apart.

### Gates and Evaluation

`Pipeline` lets a worker accept or reject; `Evaluation` says how it decides.  A
task's `pc` names the gate it stands before; each gate is one step, because each
reads `opportunity_mode` once and `SetOpportunityMode` may come in between.
`task[t].counted` remembers which stages the task has counted and `task[t].modes`
under which modes it has run; both are history.  The operators of `Gates` are
the functions of the same name in `runtime.rs`, `config.rs` and `opportunity.rs`;
a gate returns the first reason that fails, in the order of the code.  Money and
gas are small integers, percentages integers, floating-point comparisons
comparisons of integers.

`ReplayPersist` writes the row of a candidate twice, as the worker does.  Storage drops
the errors of both INSERTs, so a candidate may end without a row; the history variable
`unstored` keeps those.

Left out: branches for poisoned locks; the zero-gas-price reject after decoding
(`runtime.rs` 1232-1244), which the pre-decode gate makes unreachable.  What the
builder, `preflight_score` and `quote_for_relays` answer is an input.

### Ledger and Telemetry

A rollup row is a table, a minute and a name, with its columns.  It is merged in
`buffer`, taken by the flush (`taken`), and added to `stored[backend]` statement by
statement; vectors of events, outcomes and so on take the same way through
`queue` and `inHand`.  `FlushItem` writes one row or one item, in the order of
`flush_storage_buffers`, and may fail; `FlushPrune` deletes table by table and
may fail part-way; `ClearPending`, `ClearStored` and `ClearRecent` are the three
locks of `clear_events`.  `Crash` drops memory; `Restart` connects, falls back or
fails as `Storage::new` does, prunes and reloads the trails.

The buffer and the lists have a lock each, and a recording function takes one after
the other, so it is two actions: `Event` and `EventShown`, `RecordRejectReason` and
`RejectListed`, and so on (an edge sample takes the lists first).  `open` holds the
calls in between; the workers may have any number of them, the executor, which is one
task, one.  `SetRelayRankings` is the reset of the relay list that every dispatch
makes: its counters start at zero again while those in storage go on, and the history
variable `ranked` keeps the difference.

`Telemetry` implements `Ledger` under the mapping that adds up buffer and flush,
and both databases.  A ledger entry is recorded, persisted, lost by a counted
fault, or expired; nothing else may happen to it.

The code sorts the reject and selector lists after every count.  They are sorted
before it, so the sort moves one entry: `Placed` puts it behind those that come
before it, among equals behind the older ones, as the stable sort does.  A prune
deletes the entries of a log that are older than the retention; a log is in the order
of its stamps, so `Unexpired` is what follows them.

Left out: the latency panel and the ring of edge samples (display only), the DELETE of
`replay_candidates`, and of the relay list everything but the counters: scores, rates
and latencies, the order they give to the list, and its cut to 12 entries
(`TelemetryAssumption` allows no more relays).  `snapshot` shows the relays and the
trails from storage, and those in memory only when storage cannot be read.

### Services

`GasPricing`, `LookupBudget`, `PoolCache`, `Controls`, `FileTelemetry`,
`AdaptivePolicy` and `SwapDecoder` share no state: each has its own locks, and what
one reads of another (the health of the fleet, the mode) is an input of its
module.  Their steps commute, so a behaviour of all is, for each, a behaviour of
it alone.  `Services` therefore puts them in one specification in which `focus`
chooses the one that runs: the state space is the sum of theirs, not the product.
For the proofs each module also has a specification of its own (`GasSpec`, `CacheSpec`,
`ControlsSpec`, `FilesSpec`, `LookupSpec`, `PolicySpec`, `DecoderSpec`).

* `LookupBudget`: ticks of a few hundred milliseconds; the window is 3, the
  cached pressure 2 ticks old at most.
* `PoolCache`: the contents of a pool are the block they were read at; `raced` and
  `lagged` in a fetch are history.  A stale read and the miss it leads to are counted
  under two holds of the lock of the statistics, hence `Miss` and `CountMiss`.
* `Controls`: `effective` is what the engine reads, `logged` what the newest event
  about each setting says; a request is `apply` and then `log`, under two locks.  The
  copies of the settings in `DashboardState` are left out, since `snapshot` replaces
  them by the effective values, and so is the cut of the feed to 50 events.
* `FileTelemetry`: paths name inodes, and an open handle follows its inode.
  I/O errors and torn lines are left out.
* `AdaptivePolicy`: rates in 1/10000, rounded down at each update; latencies in
  percent of their target.  Each call brings the latency it measured, any of
  `Latencies`, and an inclusion the capture it realized, from 0 to 1.25.  An outcome
  belongs to the cluster whose records are followed, or to another one.
  `PreflightRegime` is `market_regime` as `preflight_score` asks for it; `quote`, which
  mixes in pressures of relay, cluster and history and then recalibrates, is an input
  of `Evaluation`.
* `SwapDecoder`: calldata is a tree of calls, built from the inside out: a leaf or a
  router plan, and then one wrapper after the other around it, alone or next to a
  second leaf.  The decoder looks at a call only through what its inner calls decode
  to, so `payload` carries of the outermost call what the next wrapper needs (the
  signal, what a scan for selectors finds, the tokens its bytes name), and `plan` of a
  router plan the swaps found in it at each depth it may come to stand at.  No
  operator is recursive: a step of the decoder's recursion is a step of the
  behaviour.  A leaf says whether its arguments decode and which tokens they name.
  The leaf `v2` is the two selectors that a scan of the bytes looks for,
  `v2_to_eth` the two that it does not.  The value of an amount is its product with
  the token's price, divided by the power of its decimals, in whole numbers.
  Sub-plans deeper than three are not decoded by the code, and `MaxNests` 4 reaches
  that.

## 3. Runs

| Run | Configuration | Properties | Result |
|---|---|---|---|
| `pipeline_mixed` | `MCPipelineMixed.cfg` | `SeenWindowCoherent`, `DuplicateOnlyAfterEviction`, `BestCandidateFirst`, `PauseCommitsNothing` | hold |
| `pipeline_hash` | `MCPipelineHash.cfg` | `HashAdmissionNeverBlocks`, `CandidatesResolve`, `FailedRunStopsWorkers`, `InboxDrains` | hold |
| `pipeline_collapse` | `MCPipelineCollapse.cfg` | `NoBackpressureCollapse` | violated |
| `pipeline_gas_cap` | `MCPipelineGasCap.cfg` | `EvalWorkersSurvive` | violated |
| `executor` | `MCExecutor.cfg` | `NoSubmitAfterStopLoss`, `BudgetWithinLimits`, `ReservationsAccounted`, `OneResultPerDispatch`, `RelaySubmitsUnfrozen` | hold |
| `executor_returns` | `MCExecutorReturns.cfg` | `HandleReturns` | holds |
| `executor_window` | `MCExecutorWindow.cfg` | `WindowExposureBounded` | violated |
| `fleet_cache` | `MCRpcFleet.cfg` | `StaleOfferOnlyByRace`, `ReadsPreferHealthy`, `DisabledEventuallyAvoided` | hold |
| `fleet_cooldown` | `MCRpcFleetCooldown.cfg` | `TypeOK`, `CooldownCutOnlyByBurst` | hold |
| `evaluation` | `MCEvaluation.cfg` | `FunnelBalances`, `PanicOnlyByRacedSwitch`, `ReadyIsJustified`, `ReplayReachesStorage` | hold |
| `telemetry` | `MCTelemetry.cfg` | `LedgerSpec`, `BooksAgree`, `ClearedEventsReturnOnlyByRace`, `RetentionKeepsRecent`, `OutcomesSettle` | hold |
| `services` | `MCServices.cfg` | gas: `FeesAreSound`; lookup budget: `BudgetFollowsHealth`; pool cache: `CacheIsSound`, `RegressionOnlyByRace`; controls: `LogNamesEffective`, `UpdateLostOnlyByRace`; files: `EarlyLossOnlyByOverlap`; policy: `RatesAreShares`, `FailedRelayNotFirst`, `BadOutcomeNeverHelps`; decoder: `SignalIsFaithful`, `NestingNeverHides` | hold |

Run one with `tlc -workers 2 -config MCExecutor.cfg MCExecutor`.

A property that is a conjunction of named parts (`FeesAreSound`, `CacheIsSound`,
`SignalIsFaithful`, `BudgetFollowsHealth`, `BadOutcomeNeverHelps`, `ReadyIsJustified`,
`BooksAgree`) is explained at its parts.  The type invariants of `Pipeline`,
`Executor` and `Evaluation`, and `BatchDiscipline`, are theorems and not part of a
run.

### Bounds, and why they are enough

* `MaxDeliveries`: 4 items over 3 transactions with a dedup window of 2 let a hash
  leave the window and come back (`pipeline_mixed`); 6 items fill every channel of
  capacity 1, both workers and the hand of the loop with one item to spare, so
  that a blocked loop would leave the inbox unread (`pipeline_hash`).  Channel
  capacity 1 is the hardest case of backpressure, and the soft reserve of a
  sixteenth rounds to nothing there; the theorem covers other capacities.
* `MaxBatch` 3 with candidates of different score: flushes by time with candidates
  left over occur, and so do a flush by size and ties, when a candidate comes back
  after its hash has left the window.  A third transaction is the one that the
  pre-decode gate rejects.
* `MaxToggles` 2: a pause and its end, so that items are dropped at each receive
  point and work goes on afterwards.
* Executor: three opportunities that share a pair or a cluster, two paths, limits
  that two reservations exceed, `MaxTime` 3 with windows and freezes of 1 or 2
  ticks, so reservations age out and freezes end within a behaviour; a stop-loss
  of 2 losses can be armed, lifted and reached again.  Paths are symmetric (safety
  run only).
* RpcFleet: two endpoints of different kinds, one thread that selects, two
  callers in the middle of updates.  One endpoint is enough for cooldowns, since
  operations of different endpoints touch different state; `MaxCount` 5 with
  ticks of 5 s lets the exponential cooldowns reach their caps.  `Operations`
  names the operations a configuration exercises; between them they exercise all.
* Evaluation: two candidates, one of which meets every verdict of every gate while
  the other always meets the good one; that is enough for two tasks to share the
  small-swap window, the repeat counts and a replay queue of length 1.  One switch
  of the mode may fall between any two gates; three configurations differ in what
  changes the control flow (gas cap above or below 120, sending, EVM preflight).
* Telemetry: the tables have only the flush in common, so each setup calls a few
  of the recording functions; together they call all.  Two records let a row be
  merged in the buffer, in the flush and in the table, and three let a ranking fall
  between two outcomes or the reject list, which holds 2 of 3 reasons, overflow; two
  minutes with a retention of 0 let rows expire; one fault is a failed write or a
  crash at any step.
* Services: two concurrent callers wherever calls can overlap (a fetch, a request,
  a rotation); 3 blocks with a slack of 1, 3 requests, 5 lines over files of one
  line with 2 kept, 5 outcomes on 2 relays with latencies at and far above their
  target and captures of nothing and the most there is, wrappers two deep around every
  leaf and plans nested one deeper than is decoded.  Gas prices, caps and base fees are
  chosen around one another; the theorems cover all others.

### Fairness

* Pipeline: weak fairness of the main loop, of each worker and of the executor's
  return.  tokio polls a task that can run, RPC calls are assumed to return, and
  receipt polling is bounded.  Feeds and operator owe nothing.
* Executor: weak fairness of the steps of a call, for the same reasons.  Neither
  the chain nor the clock owes anything.
* RpcFleet: weak fairness of `CacheExpires` only, that is, time passes.
* Evaluation: weak fairness of the replay worker's two steps; it awaits nothing but
  its channel and its own database call.  The candidates' tasks owe nothing.
* Telemetry: weak fairness of the flush's steps; `main` calls it every 250 ms.
  Neither recording nor a restart is promised.

The HTTP providers are built without a timeout; a node that accepts a request and
never answers breaks the assumption that RPC calls return, and with it the
liveness results.

Deadlock checking is off for the pipeline, the executor, the evaluation, the
telemetry and the services: with all deliveries, candidates or calls of the bound
used up, or with `run` failed, the system is at rest.

### What the violated runs show

* **`NoBackpressureCollapse`**: full transactions do not pass `should_enqueue`.
  When all channels are full and all workers hold a candidate, the loop waits in
  `lookup_decode_tx.send` and nobody drains `readyQ`: the engine stands still
  for ever, without an error.  README.md:303 promises ingestion "without
  backpressure collapse".
* **`EvalWorkersSurvive`**: `clamp(120.0, hard_cap)` panics for caps below 120
  gwei, among them the recommended ones of `.env.example` 78-81.
* **`WindowExposureBounded`**: reservations are released when a transaction has
  been observed, so the "exposure limits over a time horizon" of README.md:933
  limit only the call in progress and what leaked.

Noted on the way, without a run:

* an `Err` of `handle`, such as no endpoint being selectable for the 900 ms of a
  burst cooldown, ends `run`, and `main` parks (README.md:77: "intended to stay on
  continuously");
* with one path free, direct RPC also submits to the frozen ones (`executor.rs`
  1468), which only bundle submission filters (`RelaySubmitsUnfrozen`);
* a recomputation that overlaps with a request re-validates the score of a disabled
  endpoint for up to 500 ms; `DisabledEventuallyAvoided` shows that it heals;
* the dedup window is first-in first-out and not LRU as README.md:565 and 733 say;
  an outcome recorded as `accepted_not_included` is never corrected when the
  transaction is included later;
* a configured lookup limit below 10 is not honoured, since the budget has a floor
  of 10 (compare README.md:1316), and two windows that meet admit twice the budget
  within a second of wall-clock time;
* the adaptive gas cap is not monotone in the expected value (README.md:30), and
  the impact score of the quality gate is clamped so that it never rejects
  (README.md:1445);
* relay scores reward speed whatever the outcome: a relay that only fails, but fast,
  can outrank a slow one that only succeeds, and a refusal that is faster than the
  relay's average can improve its score.  In a cluster's record a refusal counts as
  neither a miss nor a revert, so there it improves the score of a relay that has
  had either.  `FailedRelayNotFirst` and `BadOutcomeNeverHelps` say what holds with the
  latency kept apart;
* `get_stats` of the pool cache can report more stale reads than misses (`CountMiss`);
* the relay counters in memory start again with every dispatch, those in storage do
  not, so what the dashboard shows of relays changes when storage cannot be read;
* once eight reject reasons are listed, no other is ever shown: a new one enters
  with a count of 1, is sorted behind its equals and cut off (`ByCount`).

## 4. Proofs

`tlapm X.tla` checks each of the eight modules.  A theorem holds for every value of
the constants that satisfies the assumption named with its module; the assumptions
give constants their types, make the sets of tasks, workers, callers and endpoints
finite, and keep the placeholders (`NoTx`, `NoOpp`, `None`) out of the sets they
are added to.  The bounds of the runs (`MaxDeliveries`, `MaxTime`, ...) are constants
too, so they are arbitrary in the theorems.

**`PipelineProofs`** (`PipelineAssumption`).

* `TypeCorrect` needs `InHand`: who is busy or sending has a transaction in hand;
  otherwise a send could append `NoTx`.
* `SeenWindowIsCoherent` is inductive given the types: a hash is appended only if it is
  not in the set, hence not in the queue, and the evicted head occurs nowhere else.
* `NoDuplicates` (`DuplicateOnlyAfterEviction`) counts the copies of a transaction over
  the main loop's hand, queues, workers, batch and executed list.  `NoStageCopies` says
  that no step raises that number, except a scan of a hash that the window does not
  remember; the lemmas below it say what append, tail, `SwapRemove` and a worker's
  change do to a count.
* `BatchIsDisciplined` rests on `SwapRemove` being shorter by one, `BestIsFirst`
  (`BestCandidateFirst`) on `FlushTakesBest`: what `drain_best` removes by swapping is
  what it chose, and what stays was in the batch it chose from.
* `HashAdmissionIsImmediate` needs the strengthening `FullOnlySubscribed`: full
  transactions, which are sent without the reserve, are in the inbox only if they were
  subscribed to.
* `PauseIsFinal` is the action property `PauseCommitsNothing`: of all steps only
  `EvalRecv` adds to what is committed, and it asks for the pause.

**`ExecutorProofs`** (`ExecutorAssumption`).

* `TypeCorrect`; `StopLossHolds` with `StopLossInv`, which adds what is true of the guard
  when no call is under way: a loss count at the threshold comes with a freeze.
* `BudgetIsAccounted` with `AccountInv`; `BudgetHolds` (`BudgetWithinLimits`) with
  `BudgetInv`: the reserved units are finite, a smaller set of reservations has no more
  of them (`BudgetShrinks`), and a new one adds at most its capital, in total and in
  each cluster and pair, because `check_and_reserve` compares all three sums under
  the lock that it reserves under.
* `ResultsBalance` (`OneResultPerDispatch`) with `ResultInv`: an opportunity is sent only
  by the call that took it, so a dispatch adds a new one to the sent ones.
* `RelayFreezeHolds`: the guards of the targets are clear from the dispatch to the last
  submission, because only the end of a call touches them.

**`RpcFleetProofs`** (`FleetAssumption`).

* `StaleOffersAreRaces` with `CacheInv`: a recomputation that no invalidation has touched
  and that runs while no caller is between update and invalidation has read current
  values (`ReadingCurrent`), a sweep is one of the callers (`SweepCounted`), and
  therefore the stored cache is current.
* `TypeCorrect` holds the 45 s cap for every history of failures: the exponents of
  `record_failure` are bounded (`PowerNat`, `CooldownNat`) and the cap is applied after
  the maximum with the running cooldown.
* `CooldownsAreKept` and `HealthyReadsFirst` are the action properties
  `CooldownCutOnlyByBurst` and `ReadsPreferHealthy`.

**`EvaluationProofs`** (`EvaluationAssumption`).

* `EvaluationTypes`, and with it `TaskInv`: what a task has in hand at each gate
  (`HandSound`), that a missing diagnostic means the check ran in another mode
  (`PanicSound`), and what the gates passed so far have established (`ReadySound`).
  `PanicIsRace` and `ReadyHasProfit` are read off it.  The point of `ReadySound` is that
  each clause survives a switch of the mode: it speaks of the modes the task has run
  under, not of the mode.
* `FunnelAddsUp` (`FunnelBalances`) with `FunnelInv`: a counter is the number of tasks
  that have counted the stage, and where a task stands determines which stages it has
  counted (`Balance`).  `Edge` lists the ways from gate to gate with the stages they
  count, and every step of a task is one of them (`StepProgress`).  The equations of
  the property then follow from a partition of the tasks.  The last one, of the replay
  queue, has its own invariant (`ReplayInv`): a counted candidate is queued, in the
  worker's hand, stored or lost to a failed INSERT, and in one place only.

**`ServiceProofs`** (the assumptions of the modules it is about).

* Gas: `GasFeesAreSound`, from `GasWithinCap` and `GasIncludable`: the bounds of
  `PriorityFee` and `MaxFee` are one lemma (`FeeFields`), that of the capped price
  another (`CappedBelowCap`), and the rest is linear arithmetic.
* Pool cache: `CacheSound` and `RegressionIsRace` with `CacheInv`: an entry's data is at
  most `NodeLag` blocks older than its stamp, data is never newer than the chain, and
  the answer of a fetch that was neither overtaken nor served by a lagging node is no
  older than the entry it will replace (`UnracedNewer`).  The counters balance with the
  callers that have yet to count their miss and those that fetch.
* Controls: `ControlsAreLogged` and `LostUpdateIsRace` with `ControlsInv`: a request between
  its two locks that did not overlap wrote the current value and is the only one there
  (`LastWriterKnown`), and the untouched fields of one that is not outdated are still
  current (`MergeCurrent`).
* Telemetry file: `EarlyLossIsOverlap` with `FilesInv`.  While no rotations overlap there
  is one rotation at a time, the slot it is about to fill is empty, rotated files are
  full and without gaps apart from that slot, the file being rotated is full, and once
  a line is lost every other slot is taken.  A line counts as lost from the moment its
  file has no path, even if its writer has yet to append it.
* Lookup budget: `BudgetFollows` (`BudgetFollowsHealth`).  That degrading never raises the
  budget is a fact about `EffectiveBudget` and the counts of the pressure, without an
  invariant; that a blind runtime sheds needs `BlindInv`: a pressure with readable
  endpoints in it is at least as old as the blindness.

* Decoder: `DecoderIsFaithful` (`SignalIsFaithful`) and `DecoderNestingNeverHides`, for any
  leaves, commands and tokens and any depth.  Since a call is built from the inside
  out, invariance along the behaviour is the induction over the nesting.  `DecoderInv`
  says of the signal and of the scan of a call that they claim no more than the
  calldata (`SignalOk`) and are large where the call is clear (`CallOk`), and of a plan
  that what it holds at every depth was decoded from commands (`PlanOk`).  One lemma per
  decoder shows that its signal is of that kind; for `FirstDecoded` this needs the
  first index with a signal, and for the router the best candidate, that the rank is a
  strict order with one maximum in a sequence (`BestExists`).  Both are least or
  largest numbers (`LeastNat`), taken from the well-foundedness of the naturals, which
  needs no operator as a parameter.

**`LedgerProofs`** and **`TelemetryProofs`** (`TelemetryAssumption`).

* `LedgerCountsOnce`: the abstract counters never exceed what was recorded, and equal it
  without faults and retention.
* `TelemetryImplementsLedger`: the initial states map to initial states, and every step of
  `Telemetry` maps to a step of `Ledger` or leaves its variables alone.  The invariant
  needed is about the rows only (`CountInv`): columns are natural numbers, and between
  two flushes nothing is left in the flush's hand, so that taking the buffer cannot
  overwrite a row.
* `RecentRollupsStay` (`RetentionKeepsRecent`): a write adds, and every prefix of the
  prune's DELETEs spares the rows within the retention.
* `OnlyRacedEventsReturn` (`ClearedEventsReturnOnlyByRace`) with `ClearInv`: from the first
  lock of a clear on, the buffer holds only newer events, and the flush's hand of the
  older ones only those it held then.
* `BooksAreRight` (`BooksAgree`) puts three invariants together.  `ConsistentInv`: the
  columns of a row agree in the buffer, in the flush and in both databases, since
  merging preserves it.  `MemInv`: relay counters and trails in memory, with
  the executor's open call added, are those of the database and what waits, in the order of recording, less what
  was there at the last ranking, whichever row the flush is at; a crash empties both,
  and a restart reads them again.  `RejectInv` and
  `SelectorInv`: the reject list names each reason once and is exact but for the calls
  that have yet to list theirs, and a selector
  is listed with no more than is stored or waits; what a count does to a list
  follows from `RemovedProperties` and `PlacedProperties`.

**`AdaptiveProofs`** (`PolicyAssumption`).

* `PolicyRatesAreShares`: the updates of a relay's record round each rate down
  separately, so a sum of rates stays at most one, and the sum of acceptance and
  refusal loses at most two units per outcome.  The invariant adds that the fields
  are natural numbers, which the bounds of the rounded average (`FastBounds`) need,
  and an untried relay starts from the built-in record, which has the property for
  any number of outcomes.
* `PolicyBadOutcomeNeverHelps` (`BadOutcomeNeverHelps`) with `HelpInv`.  The property is not
  true of every record that `PolicyRatesAreShares` allows: a timeout rounds the miss
  rate up by less than it rounds the revert rate down when the two add up to nearly
  one.  What excludes such records is that inclusion, miss and revert stay four units
  short of one, which the updates keep because a sum of rounded rates is a whole
  number.  From that a refusal or a timeout that lowers no average of a latency makes a
  record `NoBetter` (`RefusedNoBetter`, `TimedOutNoBetter`), and pressure, score and the
  regime of the preflight are monotone in it (`PressureGrows`, `ScoreGrows`,
  `LevelOfGrows`).  For the cluster's score `TimeoutAdjusts` shows that a timeout never
  lowers what the cluster's record adds, although its weight grows with the sample.
* `PolicyRanksFailuresLast` (`FailedRelayNotFirst`) with `RankInv`, a strengthening that
  bounds the records from both sides.  The record of a relay without failures goes
  through stages, from new over in flight and included to in flight and included again,
  each with bounds of its own (`GoodAt`); from the second inclusion on nothing need be
  known of its capture, since an inclusion may realize nothing.  The record of a relay
  without inclusions always costs more than a constant, in flight or not (`Settled`,
  `InFlight`): misses and reverts are bounded together, by their weight in the score
  (`LossCost`), because which of the two a failure raises is open, and an acceptance
  takes no more than a fifth of both and of what refusals cost.  What a good record
  costs at most and a failed one at least, the latencies apart (`GoodCost`, `BadCost`),
  then differs by more than the rounding of pressure and score takes (`ScoreFromCost`),
  and leaves the two units that rounding may give a failed relay's record in the cluster
  (`GoodAdjustment`, `BadAdjustment`).  The latencies are compared by the property
  itself: any may have been measured in any call.

Only model-checked is liveness, since the prover has no rule for fairness:
`CandidatesResolve`, `FailedRunStopsWorkers`, `InboxDrains`, `HandleReturns`,
`DisabledEventuallyAvoided`, `ReplayReachesStorage` and `OutcomesSettle`.  The three
properties of the violated runs do not hold and have no theorem.

## 5. Not modelled

`components` in `PROJECT.json` gives the reason for each part.

* AMM mathematics: 256-bit and Q96 arithmetic, beyond TLC's 32-bit integers; a
  scaled-down version would not be the code's arithmetic.
* Payload builder, encoders, EVM simulator: sequential, without state that another
  task sees; their verdicts are inputs of `Evaluation` and `Executor`.
* The formulas of `quote`, with its historical recalibration, and those of
  `preflight_score` other than its regime, cluster heat and flow windows
  (`adaptive.rs`): weighted sums of floating-point readings; their results are inputs.
* The connection loop of a mempool feed: what it delivers, in any order and number,
  is `MempoolDeliver`.
* SQL text, migrations, reports, HTML, the benchmark, parsing of the environment.
* Answers that never come: RPC calls are assumed to return (see Fairness).
* The on-chain contracts: a call of theirs is atomic and reaches the runtime only as
  an inclusion, a revert or nothing, which `Executor` models.

## 6. Plan

In the order of importance; done: 1-8.

1. `Pipeline`: channels, loop, workers.
2. `Executor`: budget, stop-losses, submission, observation.
3. `RpcFleet`: health, cooldowns, score cache.
4. `Evaluation` and `Gates`: the cascades of the two worker tasks, replay queue.
5. `Ledger` and `Telemetry`: buffers and databases, with the refinement proved.
6. `Services`: gas pricing, lookup budget, pool cache, control requests, telemetry
   file, adaptive policy, decoder.
7. Theorems for the safety properties of all of these (section 4).
8. Theorems for the relay scores and the decoder (section 4).
9. `MempoolFeed`: connection loop with reconnect delay, capacity exhaustion and pause.
10. Composition of `Pipeline` with `Executor`, with the executor's `Err` as the
   pipeline's source of failure, and with `Evaluation` in the place of the free
   choice of the workers.
