----------------------------- MODULE Telemetry ------------------------------
(* DashboardHandle's buffers and lists (dashboard.rs) and the tables they   *)
(* are flushed to (storage.rs).  Workers record, the loop of main.rs        *)
(* flushes every 250 ms, the dashboard clears the event feed; all of them   *)
(* run at once.  The buffers die with the process, the tables do not.       *)
(*                                                                          *)
(* A rollup row is [table, bucket, name]; the buffer and the table merge    *)
(* its columns in the same way.  A row is there when its count is positive. *)
(*                                                                          *)
(* The buffer and the lists have a lock each.  A recording function takes   *)
(* them one after the other, so it is two actions here; any number of       *)
(* workers may be between the two.  The executor is one task: of its calls  *)
(* at most one is.                                                          *)
EXTENDS Integers, Sequences, FiniteSets

CONSTANTS
    Names,           \* for each rollup table, what is counted in it
    PoolStages,      \* stages passed to record_selector_pool_performance
    Durations,       \* latencies, ms
    Relays, Results, \* relays and the outcome columns of relay_metrics
    Selectors,       \* unsupported selectors, as numbers in their sort order
    Setups,          \* environments, see SetupType
    Retention,       \* minutes that rollups are kept (14 days)
    LogRetention,    \* minutes that events and telemetry are kept (24 h, 6 h)
    RejectCap,       \* length of the reject list (8)
    SelectorCap,     \* length of the unsupported-selector list (20)
    RecentCap,       \* length of the event feed (50)
    TrailCap,        \* length of the treasury and outcome trails (12)
    MaxClock,        \* bound: minutes
    MaxRecords,      \* bound: calls of the recording functions in any setup
    MaxFaults,       \* bound: failed writes and crashes in any setup
    MaxClears        \* bound: requests to clear the event feed

\* The list of relays in memory is cut to 12 after every outcome.
ASSUME TelemetryAssumption ==
    /\ IsFiniteSet(Relays) /\ Cardinality(Relays) <= 12
    /\ Durations \subseteq Nat /\ MaxClock \in Nat
    /\ RejectCap \in Nat /\ SelectorCap \in Nat /\ TrailCap \in Nat
    /\ \A s \in Setups : s.faults \in Nat

VARIABLES
    setup,      \* the environment of the process
    backend,    \* Storage.backend, or "down"
    clock,      \* minutes
    lastPrune,  \* last_storage_prune
    buffer,     \* PendingStorageWrites: the rollup maps
    queue,      \* PendingStorageWrites: the vectors
    flush,      \* where flush_storage_buffers is
    taken,      \* rollups that mem::take gave the flush and are not yet written
    inHand,     \* likewise the vectors
    stored,     \* the rollup tables of both databases
    logs,       \* events, telemetry, treasury_rebalance, execution_outcomes
    metrics,    \* relay_metrics
    unsupported,\* unsupported_selectors
    mem,        \* DashboardState: lists and counters shown by the dashboard
    open,       \* recording calls that have had the first of their two locks
    ranked,     \* history: the relay counts that a new ranking took off mem
    clearing,   \* where clear_events is
    records, faults, clears, expirations,
    recorded,   \* history: how often each rollup row was counted
    clean,      \* history: no write has failed since the process started
    cleared     \* history: the events a clear has to remove, and the raced ones

Rollups  == {"latency", "funnel", "reject", "selector", "pool"}
LogTables == {"events", "telemetry", "treasury", "outcomes"}
Queues   == LogTables \cup {"relay", "unsupported"}
Backends == {"sqlite", "postgres"}
Rows     == {r \in [table : Rollups, bucket : 0..MaxClock, name : UNION {Names[t] : t \in Rollups}] :
                r.name \in Names[r.table]}
Calls    == Rollups \cup {"event", "edge", "relay", "rankings", "treasury", "outcomes",
                         "clear"}
SetupType == [enabled : SUBSET {"events", "telemetry", "rollups"},
              url : BOOLEAN,       \* DATABASE_URL is set
              required : BOOLEAN,  \* STORAGE_POSTGRES_REQUIRED
              calls : SUBSET Calls, \* bound: what is called in a behaviour
              records : 0..MaxRecords, \* bound: how often
              faults : 0..MaxFaults] \* bound: failed writes and crashes

bufferVars == <<buffer, queue>>
flushVars  == <<flush, taken, inHand, lastPrune>>
storeVars  == <<stored, logs, metrics, unsupported>>
clearVars  == <<clearing, clears, cleared>>
procVars   == <<setup, backend, clock, faults, expirations, clean>>
memVars    == <<mem, open, ranked>>
vars == <<bufferVars, flushVars, storeVars, clearVars, procVars, memVars, records, recorded>>

-----------------------------------------------------------------------------
(* Rollup rows                                                              *)

PoolColumns == {"pool_found", "pool_missing", "payload_built", "shadow_ev_positive",
    "shadow_ev_negative", "partial_entered_payload_builder",
    "partial_pool_discovery_attempted", "partial_pool_found", "partial_pool_missing",
    "partial_shadow_ev_positive", "partial_shadow_ev_negative",
    "partial_replay_candidate_created", "partial_replay_candidate_rejected"}
Columns(table) ==
    {"count"} \cup (CASE table = "latency" -> {"sum", "max", "last"}
                      [] table = "pool" -> PoolColumns
                      [] OTHER -> {})
Zero(table) == [c \in Columns(table) |-> 0]
Larger(a, b) == IF a >= b THEN a ELSE b

\* What the buffer does with a row it already has.
Merge(old, new) ==
    [c \in DOMAIN old |-> CASE c = "max"  -> Larger(old[c], new[c])
                            [] c = "last" -> new[c]
                            [] OTHER      -> old[c] + new[c]]

\* The ON CONFLICT clauses of the tables.
Added(old, new) == [c \in DOMAIN old |-> old[c] + new[c]]
LatencyUpsert(old, new) ==
    [Added(old, new) EXCEPT !["max"] = Larger(old["max"], new["max"]), !["last"] = new["last"]]
FunnelUpsert(old, new) == Added(old, new)
RejectUpsert(old, new) == Added(old, new)
SelectorUpsert(old, new) == Added(old, new)
PoolUpsert(old, new) == Added(old, new)
Upsert(table, old, new) ==
    CASE table = "latency"  -> LatencyUpsert(old, new)
      [] table = "funnel"   -> FunnelUpsert(old, new)
      [] table = "reject"   -> RejectUpsert(old, new)
      [] table = "selector" -> SelectorUpsert(old, new)
      [] table = "pool"     -> PoolUpsert(old, new)

Once == [c \in {"count"} |-> 1]
Sample(d) == [c \in Columns("latency") |-> IF c = "count" THEN 1 ELSE d]

\* The columns that a stage of a pool counts: a partial stage counts for the
\* full one as well.
StageColumns(stage) ==
    CASE stage \in {"payload_built", "shadow_payload_built"} -> {"payload_built"}
      [] stage = "partial_pool_found"         -> {stage, "pool_found"}
      [] stage = "partial_pool_missing"       -> {stage, "pool_missing"}
      [] stage = "partial_shadow_ev_positive" -> {stage, "shadow_ev_positive"}
      [] stage = "partial_shadow_ev_negative" -> {stage, "shadow_ev_negative"}
      [] OTHER -> {stage} \cap PoolColumns
PoolSample(stage) ==
    [c \in Columns("pool") |-> IF c \in StageColumns(stage) \cup {"count"} THEN 1 ELSE 0]

Empty == [r \in Rows |-> Zero(r.table)]
Present(map) == {r \in Rows : map[r]["count"] > 0}
NoItems == [t \in Queues |-> <<>>]

-----------------------------------------------------------------------------
(* Lists                                                                    *)

Truncate(s, n) == IF Len(s) > n THEN SubSeq(s, 1, n) ELSE s
PushFront(s, x, n) == Truncate(<<x>> \o s, n)
Newest(s, n) == [i \in 1..Len(Truncate(s, n)) |-> s[Len(s) + 1 - i]]

\* Count x in a list: its entry, or a new one.
Place(list, x) == {i \in DOMAIN list : list[i].name = x}
Counted(list, x) ==
    [name |-> x,
     count |-> IF Place(list, x) = {} THEN 1 ELSE list[CHOOSE i \in Place(list, x) : TRUE].count + 1]
Removed(list, i) == SubSeq(list, 1, i - 1) \o SubSeq(list, i + 1, Len(list))
Others(list, x) ==
    IF Place(list, x) = {} THEN list ELSE Removed(list, CHOOSE i \in Place(list, x) : TRUE)

\* The list was sorted and only the entry of x has changed, so the sort puts
\* it behind those that come before it.
Placed(list, e, k) == SubSeq(list, 1, k) \o <<e>> \o SubSeq(list, k + 1, Len(list))

\* A stable sort by count: among equals the older entry stays in front.
ByCount(o, e) == o.count >= e.count
\* The unsupported selectors are sorted by count, then by selector.
ByCountThenName(o, e) == o.count > e.count \/ (o.count = e.count /\ o.name < e.name)

CountReject(list, x) ==
    LET e == Counted(list, x)
        rest == Others(list, x)
        ahead == {i \in DOMAIN rest : ByCount(rest[i], e)}
    IN  Truncate(Placed(rest, e, Cardinality(ahead)), RejectCap)
CountSelector(list, x) ==
    LET e == Counted(list, x)
        rest == Others(list, x)
        ahead == {i \in DOMAIN rest : ByCountThenName(rest[i], e)}
    IN  Truncate(Placed(rest, e, Cardinality(ahead)), SelectorCap)

-----------------------------------------------------------------------------
(* Recording                                                                *)

Up == backend # "down"
Enabled(what) == what \in setup.enabled
Row(table, name) == [table |-> table, bucket |-> clock, name |-> name]

\* Count v in the rollup buffer, unless rollups are switched off.
AddRollup(row, v) ==
    IF Enabled("rollups")
    THEN /\ buffer' = [buffer EXCEPT ![row] = Merge(@, v)]
         /\ recorded' = [recorded EXCEPT ![row] = @ + 1]
    ELSE UNCHANGED <<buffer, recorded>>

\* Append x to a vector of the buffer.
Push(table, x) == queue' = [queue EXCEPT ![table] = Append(@, x)]

Recording(call) ==
    /\ Up /\ records < setup.records /\ call \in setup.calls
    /\ records' = records + 1
    /\ UNCHANGED <<flushVars, storeVars, clearVars, procVars>>

\* event: buffered even when the events table is switched off.
Event ==
    /\ Recording("event")
    /\ Push("events", records + 1)
    /\ open' = [open EXCEPT !.events = @ \cup {records + 1}]
    /\ UNCHANGED <<buffer, recorded, mem, ranked>>
EventShown(e) ==
    /\ Up /\ e \in open.events
    /\ mem' = [mem EXCEPT !.recent = PushFront(@, e, RecentCap)]
    /\ open' = [open EXCEPT !.events = @ \ {e}]
    /\ UNCHANGED <<bufferVars, flushVars, storeVars, clearVars, procVars, ranked, records,
                   recorded>>

\* record_latency
RecordLatency(stage, d) ==
    /\ Recording("latency")
    /\ IF Enabled("telemetry") THEN Push("telemetry", records + 1) ELSE UNCHANGED queue
    /\ AddRollup(Row("latency", stage), Sample(d))
    /\ UNCHANGED memVars

\* record_reject_reason
RecordRejectReason(reason) ==
    /\ Recording("reject")
    /\ AddRollup(Row("reject", reason), Once)
    /\ open' = [open EXCEPT !.rejects[reason] = @ + 1]
    /\ UNCHANGED <<queue, mem, ranked>>
RejectListed(reason) ==
    /\ Up /\ open.rejects[reason] > 0
    /\ mem' = [mem EXCEPT !.rejects = CountReject(@, reason)]
    /\ open' = [open EXCEPT !.rejects[reason] = @ - 1]
    /\ UNCHANGED <<bufferVars, flushVars, storeVars, clearVars, procVars, ranked, records,
                   recorded>>

\* record_selector_performance; the sums behave as the count does.
RecordSelectorPerformance(selector) ==
    /\ Recording("selector")
    /\ AddRollup(Row("selector", selector), Once)
    /\ UNCHANGED <<queue, memVars>>

\* record_selector_pool_performance
RecordSelectorPoolPerformance(pool, stage) ==
    /\ Recording("pool")
    /\ AddRollup(Row("pool", pool), PoolSample(stage))
    /\ UNCHANGED <<queue, memVars>>

\* record_opportunity_funnel
RecordOpportunityFunnel(stage) ==
    /\ Recording("funnel")
    /\ AddRollup(Row("funnel", stage), Once)
    /\ open' = [open EXCEPT !.funnel[stage] = @ + 1]
    /\ UNCHANGED <<queue, mem, ranked>>
FunnelCounted(stage) ==
    /\ Up /\ open.funnel[stage] > 0
    /\ mem' = [mem EXCEPT !.funnel[stage] = @ + 1]
    /\ open' = [open EXCEPT !.funnel[stage] = @ - 1]
    /\ UNCHANGED <<bufferVars, flushVars, storeVars, clearVars, procVars, ranked, records,
                   recorded>>

\* record_edge_sample, of a payload built, of another sample, or of a decode
\* reject for an unsupported selector: the lists first, then the buffer.  The
\* first three samples and every 25th are announced in the feed only.
RecordEdgeSample(status, selector) ==
    LET n == mem.edges.samples + 1
    IN  /\ Recording("edge")
        /\ mem' = [mem EXCEPT
               !.edges = [samples |-> n,
                          ready |-> @.ready + (IF status = "payload_built" THEN 1 ELSE 0),
                          blocked |-> @.blocked + (IF status = "payload_built" THEN 0 ELSE 1)],
               !.selectors = IF status = "unsupported" THEN CountSelector(@, selector) ELSE @,
               !.recent = IF n <= 3 \/ n % 25 = 0 THEN PushFront(@, 0, RecentCap) ELSE @]
        /\ IF status = "unsupported"
           THEN open' = [open EXCEPT !.selectors[selector] = @ + 1]
           ELSE UNCHANGED open
        /\ UNCHANGED <<bufferVars, recorded, ranked>>
UnsupportedBuffered(selector) ==
    /\ Up /\ open.selectors[selector] > 0
    /\ Push("unsupported", selector)
    /\ open' = [open EXCEPT !.selectors[selector] = @ - 1]
    /\ UNCHANGED <<buffer, flushVars, storeVars, clearVars, procVars, mem, ranked, records,
                   recorded>>

\* The calls of the executor: record_relay_outcome (an outcome has one
\* result), record_treasury_recommendation and record_execution_outcome.
NoCall == [call |-> "none", item |-> 0]
Outcome(row, result) == [row EXCEPT ![result] = @ + 1]
RecordRelayOutcome(relay, result) ==
    /\ Recording("relay") /\ open.engine.call = "none"
    /\ Push("relay", [relay |-> relay, result |-> result])
    /\ open' = [open EXCEPT
           !.engine = [call |-> "relay", item |-> [relay |-> relay, result |-> result]]]
    /\ UNCHANGED <<buffer, recorded, mem, ranked>>
RecordTrail(table) ==
    /\ Recording(table) /\ open.engine.call = "none"
    /\ Push(table, records + 1)
    /\ open' = [open EXCEPT !.engine = [call |-> table, item |-> records + 1]]
    /\ UNCHANGED <<buffer, recorded, mem, ranked>>

\* The lists once the executor's open call is over.
SettledRelays ==
    LET x == open.engine.item
    IN  IF open.engine.call = "relay"
        THEN [mem.relays EXCEPT ![x.relay] = Outcome(@, x.result)]
        ELSE mem.relays
SettledTrail ==
    [t \in {"treasury", "outcomes"} |->
        IF open.engine.call = t THEN PushFront(mem.trail[t], open.engine.item, TrailCap)
        ELSE mem.trail[t]]
ExecutorListed ==
    /\ Up /\ open.engine.call # "none"
    /\ mem' = [mem EXCEPT !.relays = SettledRelays, !.trail = SettledTrail]
    /\ open' = [open EXCEPT !.engine = NoCall]
    /\ UNCHANGED <<bufferVars, flushVars, storeVars, clearVars, procVars, ranked, records,
                   recorded>>

\* set_relay_rankings, called for every dispatch with the quotes of that
\* dispatch: the counters in memory start again at zero.
Waiting(table) == inHand[table] \o queue[table]
Late(relay, result) ==
    {i \in DOMAIN Waiting("relay") :
        Waiting("relay")[i].relay = relay /\ Waiting("relay")[i].result = result}
RelayTotal(relay, result) == metrics[backend][relay][result] + Cardinality(Late(relay, result))
NoOutcomes == [r \in Relays |-> [c \in Results |-> 0]]
SetRelayRankings ==
    /\ Recording("rankings") /\ open.engine.call = "none"
    /\ mem' = [mem EXCEPT !.relays = NoOutcomes]
    /\ ranked' = [r \in Relays |-> [c \in Results |-> RelayTotal(r, c)]]
    /\ UNCHANGED <<bufferVars, recorded, open>>

-----------------------------------------------------------------------------
(* flush_storage_buffers                                                    *)

\* The tables are written in this order, with the prune in between.
BeforePrune == <<"events", "telemetry", "latency", "funnel", "reject", "selector",
                 "pool", "relay">>
AfterPrune == <<"treasury", "outcomes", "unsupported">>
Order == CASE flush = "before" -> BeforePrune [] flush = "after" -> AfterPrune
           [] OTHER -> <<>>

Left(table) == IF table \in Rollups THEN {r \in Present(taken) : r.table = table} # {}
               ELSE inHand[table] # <<>>
Turn(table) ==
    \E i \in DOMAIN Order :
        Order[i] = table /\ Left(table) /\ \A j \in 1..(i - 1) : ~Left(Order[j])
Written == \A i \in DOMAIN Order : ~Left(Order[i])

\* Mutation: the buffer is copied, not taken.
FlushTakeCopy ==
    /\ Up /\ flush = "idle"
    /\ flush' = "before"
    /\ taken' = buffer
    /\ inHand' = [queue EXCEPT !["events"] = IF Enabled("events") THEN @ ELSE <<>>]
    /\ queue' = NoItems
    /\ UNCHANGED <<buffer, lastPrune, storeVars, clearVars, procVars, memVars, records, recorded>>

\* mem::take under the lock; events that storage does not want are dropped.
FlushTake ==
    /\ Up /\ flush = "idle"
    /\ flush' = "before"
    /\ taken' = buffer /\ buffer' = Empty
    /\ inHand' = [queue EXCEPT !["events"] = IF Enabled("events") THEN @ ELSE <<>>]
    /\ queue' = NoItems
    /\ UNCHANGED <<lastPrune, storeVars, clearVars, procVars, memVars, records, recorded>>

\* A write succeeds, or its error is thrown away (let _ = ...) and with it
\* the row.
Write(ok) ==
    IF ok THEN UNCHANGED <<faults, clean>>
    ELSE /\ faults < setup.faults
         /\ faults' = faults + 1 /\ clean' = FALSE

FlushRollup(r, ok) ==
    /\ Up /\ Turn(r.table) /\ r \in Present(taken)
    /\ taken' = [taken EXCEPT ![r] = Zero(r.table)]
    /\ Write(ok)
    /\ stored' = IF ok THEN [stored EXCEPT ![backend][r] = Upsert(r.table, @, taken[r])] ELSE stored
    /\ UNCHANGED <<bufferVars, flush, inHand, lastPrune, logs, metrics, unsupported,
                   clearVars, setup, backend, clock, expirations, memVars, records, recorded>>

\* The INSERTs: the logs grow, relay_metrics and unsupported_selectors count.
Logged(table, x) ==
    /\ logs' = [logs EXCEPT ![backend][table] = Append(@, [id |-> x, at |-> clock])]
    /\ UNCHANGED <<metrics, unsupported>>
LogEvent(x) == Logged("events", x)
LogTelemetry(x) == Logged("telemetry", x)
StoreTreasury(x) == Logged("treasury", x)
StoreOutcome(x) == Logged("outcomes", x)
StoreRelay(x) ==
    /\ metrics' = [metrics EXCEPT ![backend][x.relay] = Outcome(@, x.result)]
    /\ UNCHANGED <<logs, unsupported>>
StoreUnsupported(x) ==
    /\ unsupported' = [unsupported EXCEPT ![backend][x] = @ + 1]
    /\ UNCHANGED <<logs, metrics>>
Store(table, x) ==
    \/ table = "events" /\ LogEvent(x)
    \/ table = "telemetry" /\ LogTelemetry(x)
    \/ table = "treasury" /\ StoreTreasury(x)
    \/ table = "outcomes" /\ StoreOutcome(x)
    \/ table = "relay" /\ StoreRelay(x)
    \/ table = "unsupported" /\ StoreUnsupported(x)

\* Mutation: the newest is written first.
FlushItemLifo(table, ok) ==
    /\ Up /\ table \in Queues /\ Turn(table)
    /\ inHand' = [inHand EXCEPT ![table] = SubSeq(@, 1, Len(@) - 1)]
    /\ Write(ok)
    /\ IF ok THEN Store(table, inHand[table][Len(inHand[table])])
       ELSE UNCHANGED <<logs, metrics, unsupported>>
    /\ UNCHANGED <<bufferVars, flush, taken, lastPrune, stored, clearVars, setup, backend,
                   clock, expirations, memVars, records, recorded>>

FlushItem(table, ok) ==
    /\ Up /\ table \in Queues /\ Turn(table)
    /\ inHand' = [inHand EXCEPT ![table] = Tail(@)]
    /\ Write(ok)
    /\ IF ok THEN Store(table, Head(inHand[table]))
       ELSE UNCHANGED <<logs, metrics, unsupported>>
    /\ UNCHANGED <<bufferVars, flush, taken, lastPrune, stored, clearVars, setup, backend,
                   clock, expirations, memVars, records, recorded>>

-----------------------------------------------------------------------------
(* prune_runtime_tables: one DELETE after the other; the first that fails   *)
(* ends it.                                                                 *)
PruneOrder == <<"events", "telemetry", "latency", "funnel", "reject", "selector", "pool">>
Reached(n) == {PruneOrder[i] : i \in 1..n}

\* Mutation: the cutoff is included.
PrunedRollupsEarly(db, n) ==
    [stored EXCEPT ![db] = [r \in Rows |->
        IF r.table \in Reached(n) /\ r.bucket <= clock - Retention THEN Zero(r.table) ELSE @[r]]]

PrunedRollups(db, n) ==
    [stored EXCEPT ![db] = [r \in Rows |->
        IF r.table \in Reached(n) /\ r.bucket < clock - Retention THEN Zero(r.table) ELSE @[r]]]
\* A log is in the order of its stamps, so the old entries come first.
Expired(log) == {i \in DOMAIN log : log[i].at < clock - LogRetention}
Unexpired(log) == SubSeq(log, Cardinality(Expired(log)) + 1, Len(log))
PrunedLogs(db, n) ==
    [logs EXCEPT ![db] = [t \in LogTables |->
        IF t \in Reached(n) THEN Unexpired(@[t]) ELSE @[t]]]

Prune(db) ==
    \E n \in 0..Len(PruneOrder) :
        /\ stored' = PrunedRollups(db, n)
        /\ logs' = PrunedLogs(db, n)
        /\ expirations' = IF stored' = stored THEN expirations ELSE expirations + 1

\* At most once in 60 s, in the middle of a flush; a failure is logged.
FlushPrune ==
    /\ Up /\ flush = "before" /\ Written
    /\ flush' = "after"
    /\ \/ /\ clock > lastPrune
          /\ Prune(backend)
          /\ lastPrune' = clock
       \/ /\ clock <= lastPrune + 1
          /\ UNCHANGED <<stored, logs, expirations, lastPrune>>
    /\ UNCHANGED <<bufferVars, taken, inHand, metrics, unsupported, clearVars, setup,
                   backend, clock, faults, clean, memVars, records, recorded>>

\* Mutation: the flush waits until nothing new is buffered.
FlushDoneWhenEmpty ==
    /\ Up /\ flush = "after" /\ Written /\ queue = NoItems
    /\ flush' = "idle"
    /\ UNCHANGED <<bufferVars, taken, inHand, lastPrune, storeVars, clearVars, procVars,
                   memVars, records, recorded>>

FlushDone ==
    /\ Up /\ flush = "after" /\ Written
    /\ flush' = "idle"
    /\ UNCHANGED <<bufferVars, taken, inHand, lastPrune, storeVars, clearVars, procVars,
                   memVars, records, recorded>>

-----------------------------------------------------------------------------
(* clear_events: the buffer, then the table, then the feed                  *)

ItemsOf(s) == {s[i] : i \in DOMAIN s}

\* Mutation: the buffer is not cleared.
ClearPendingNot ==
    /\ Up /\ clearing = "no" /\ clears < MaxClears /\ "clear" \in setup.calls
    /\ clearing' = "stored" /\ clears' = clears + 1
    /\ cleared' = [db |-> backend, before |-> records, raced |-> ItemsOf(inHand["events"])]
    /\ UNCHANGED <<bufferVars, flushVars, storeVars, procVars, memVars, records, recorded>>

ClearPending ==
    /\ Up /\ clearing = "no" /\ clears < MaxClears /\ "clear" \in setup.calls
    /\ clearing' = "stored" /\ clears' = clears + 1
    /\ queue' = [queue EXCEPT !["events"] = <<>>]
    /\ cleared' = [db |-> backend, before |-> records, raced |-> ItemsOf(inHand["events"])]
    /\ UNCHANGED <<buffer, flushVars, storeVars, procVars, memVars, records, recorded>>

\* The DELETE may fail: then the request ends with an error.
ClearStored(ok) ==
    /\ Up /\ clearing = "stored"
    /\ IF ok
       THEN /\ clearing' = "recent"
            /\ logs' = [logs EXCEPT ![backend]["events"] = <<>>]
            /\ UNCHANGED cleared
       ELSE /\ clearing' = "no"
            /\ cleared' = [cleared EXCEPT !.before = 0]
            /\ UNCHANGED logs
    /\ UNCHANGED <<bufferVars, flushVars, stored, metrics, unsupported, clears, procVars,
                   memVars, records, recorded>>

ClearRecent ==
    /\ Up /\ clearing = "recent"
    /\ clearing' = "no"
    /\ mem' = [mem EXCEPT !.recent = <<>>]
    /\ UNCHANGED <<bufferVars, flushVars, storeVars, clears, cleared, procVars, open, ranked,
                   records, recorded>>

-----------------------------------------------------------------------------
(* The process                                                              *)

\* What storage remembers: the newest rows of the logs, and the relays.
NewestIds(log, n) == Newest([i \in DOMAIN log |-> log[i].id], n)
RecentEvents(log) == NewestIds(log["events"], RecentCap)
TreasuryTrail(log) == NewestIds(log["treasury"], TrailCap)
ExecutionOutcomes(log) == NewestIds(log["outcomes"], TrailCap)
RelayRankings(db) == metrics[db]

\* DashboardHandle::new: the dashboard reads these, the rest starts empty.
Remembered(db, log) == [
    recent    |-> RecentEvents(log),
    trail     |-> [t \in {"treasury", "outcomes"} |->
                      IF t = "treasury" THEN TreasuryTrail(log) ELSE ExecutionOutcomes(log)],
    relays    |-> RelayRankings(db),
    funnel    |-> [s \in Names["funnel"] |-> 0],
    rejects   |-> <<>>,
    selectors |-> <<>>,
    edges     |-> [samples |-> 0, ready |-> 0, blocked |-> 0]]

\* No recording call is between its locks.
NoneOpen == [
    events    |-> {},
    rejects   |-> [n \in Names["reject"] |-> 0],
    funnel    |-> [s \in Names["funnel"] |-> 0],
    selectors |-> [s \in Selectors |-> 0],
    engine    |-> NoCall]

Idle == /\ buffer = Empty /\ queue = NoItems /\ flush = "idle"
        /\ taken = Empty /\ inHand = NoItems /\ clearing = "no"

Tick ==
    /\ clock < MaxClock
    /\ clock' = clock + 1
    /\ UNCHANGED <<bufferVars, flushVars, storeVars, clearVars, setup, backend, faults,
                   expirations, clean, memVars, records, recorded>>

\* The process ends, at any point of a flush or a clear.
Crash ==
    /\ Up /\ faults < setup.faults
    /\ backend' = "down" /\ faults' = faults + 1
    /\ buffer' = Empty /\ queue' = NoItems /\ taken' = Empty /\ inHand' = NoItems
    /\ flush' = "idle" /\ clearing' = "no"
    /\ cleared' = [cleared EXCEPT !.before = IF clearing = "stored" THEN 0 ELSE @]
    /\ open' = NoneOpen
    /\ UNCHANGED <<lastPrune, storeVars, clears, setup, clock, expirations, clean, mem,
                   ranked, records, recorded>>

\* Storage::new: Postgres when it is configured and answers; otherwise
\* SQLite, unless Postgres is required.  Both prune what is old.
Restart(db) ==
    /\ backend = "down"
    /\ db = "postgres" => setup.url
    /\ db = "sqlite" => ~setup.url \/ ~setup.required
    /\ backend' = db /\ clean' = TRUE
    /\ Prune(db)
    /\ lastPrune' = clock - 2
    /\ mem' = Remembered(db, logs'[db])
    /\ ranked' = NoOutcomes
    /\ UNCHANGED <<open, bufferVars, flush, taken, inHand, metrics, unsupported, clearVars, setup,
                   clock, faults, records, recorded>>

Init ==
    /\ setup \in Setups
    /\ backend = "down" /\ clock = 0 /\ lastPrune = -2
    /\ Idle
    /\ stored = [db \in Backends |-> Empty]
    /\ logs = [db \in Backends |-> [t \in LogTables |-> <<>>]]
    /\ metrics = [db \in Backends |-> NoOutcomes]
    /\ unsupported = [db \in Backends |-> [s \in Selectors |-> 0]]
    /\ mem = Remembered("sqlite", logs["sqlite"])
    /\ open = NoneOpen /\ ranked = NoOutcomes
    /\ records = 0 /\ faults = 0 /\ clears = 0 /\ expirations = 0
    /\ recorded = [r \in Rows |-> 0]
    /\ clean = TRUE
    /\ cleared = [db |-> "sqlite", before |-> 0, raced |-> {}]

Record ==
    \/ Event
    \/ \E n \in Names["latency"], d \in Durations : RecordLatency(n, d)
    \/ \E n \in Names["reject"] : RecordRejectReason(n)
    \/ \E n \in Names["selector"] : RecordSelectorPerformance(n)
    \/ \E n \in Names["pool"], s \in PoolStages : RecordSelectorPoolPerformance(n, s)
    \/ \E n \in Names["funnel"] : RecordOpportunityFunnel(n)
    \/ \E st \in {"payload_built", "blocked", "unsupported"}, s \in Selectors :
            RecordEdgeSample(st, s)
    \/ \E r \in Relays, o \in Results : RecordRelayOutcome(r, o)
    \/ \E t \in {"treasury", "outcomes"} : RecordTrail(t)
    \/ SetRelayRankings

\* The second lock of a call.
Finish ==
    \/ \E e \in open.events : EventShown(e)
    \/ \E n \in Names["reject"] : RejectListed(n)
    \/ \E n \in Names["funnel"] : FunnelCounted(n)
    \/ \E s \in Selectors : UnsupportedBuffered(s)
    \/ ExecutorListed

Flush ==
    \/ FlushTake
    \/ \E r \in Present(taken), ok \in BOOLEAN : FlushRollup(r, ok)
    \/ \E t \in Queues, ok \in BOOLEAN : FlushItem(t, ok)
    \/ FlushPrune
    \/ FlushDone

Next ==
    \/ Record
    \/ Finish
    \/ Flush
    \/ ClearPending
    \/ \E ok \in BOOLEAN : ClearStored(ok)
    \/ ClearRecent
    \/ Tick
    \/ Crash
    \/ \E db \in Backends : Restart(db)

\* The flush loop of main.rs never ends while the process runs.
Spec == Init /\ [][Next]_vars /\ WF_flushVars(Flush)

-----------------------------------------------------------------------------
(* Properties                                                               *)

RowValues(f) ==
    /\ f = [r \in Rows |-> f[r]]
    /\ \A r \in Rows : f[r] \in [Columns(r.table) -> Nat]
\* Refinement: the rollups are a ledger.  An event is counted at most once
\* although it moves through the buffer, the flush's hand and one of two
\* databases, and it is lost only by a failed write or a crash.
L == INSTANCE Ledger WITH
        Counters <- Rows,
        buffered <- [r \in Rows |-> buffer[r]["count"] + taken[r]["count"]],
        durable  <- [r \in Rows |-> stored["sqlite"][r]["count"]
                                      + stored["postgres"][r]["count"]]
LedgerSpec == L!Spec

\* Merging keeps the columns of a row in agreement, in the buffer, in the
\* flush's hand and in both databases: the average latency is at most the
\* maximum, so is the last one, and a pool's partial stages never outnumber
\* the full ones.
ConsistentLatency(v) == v["sum"] <= v["max"] * v["count"] /\ v["last"] <= v["max"]
ConsistentPool(v) ==
    /\ v["partial_pool_found"] <= v["pool_found"]
    /\ v["partial_pool_missing"] <= v["pool_missing"]
    /\ v["partial_shadow_ev_positive"] <= v["shadow_ev_positive"]
    /\ v["partial_shadow_ev_negative"] <= v["shadow_ev_negative"]
    /\ v["pool_found"] + v["pool_missing"] + v["payload_built"] <= v["count"]
RollupsConsistent ==
    \A r \in Rows : \A v \in {buffer[r], taken[r]} \cup {stored[db][r] : db \in Backends} :
        /\ r.table = "latency" => ConsistentLatency(v)
        /\ r.table = "pool" => ConsistentPool(v)

\* The relay counters and the treasury and outcome trails in memory, which
\* the dashboard shows when storage cannot be read, differ from storage only
\* by what is still buffered, by the executor's open call, and (the counters)
\* by what was there at the last ranking, as long as no write failed.
MemoryAgreesWithStorage ==
    Up /\ clean =>
        /\ \A r \in Relays, o \in Results :
             SettledRelays[r][o] = RelayTotal(r, o) - ranked[r][o]
        /\ \A t \in {"treasury", "outcomes"} :
             LET log == logs[backend][t]
             IN  SettledTrail[t] = Newest([i \in DOMAIN log |-> log[i].id] \o Waiting(t), TrailCap)

\* The reject list is exact for the reasons it has room for: until something
\* fails, a listed count is what the rollups count over all minutes, without
\* the calls that have yet to list theirs, and while there is room every
\* reason is listed.  An unsupported selector is never listed with more than
\* was seen.
Occurrences(table, name) ==
    UNION {{b} \X (1..recorded[[table |-> table, bucket |-> b, name |-> name]]) : b \in 0..MaxClock}
Total(table, name) == Cardinality(Occurrences(table, name))
SeenSelector(s) ==
    unsupported["sqlite"][s] + unsupported["postgres"][s]
      + Cardinality({i \in DOMAIN Waiting("unsupported") : Waiting("unsupported")[i] = s})
      + open.selectors[s]
Due(reason) == Total("reject", reason) - open.rejects[reason]
ListsAreExact ==
    faults = 0 /\ Enabled("rollups") =>
        /\ \A i \in DOMAIN mem.rejects :
             mem.rejects[i].count = Due(mem.rejects[i].name)
        /\ Len(mem.rejects) < RejectCap =>
             \A n \in Names["reject"] : Due(n) > 0 =>
                 \E i \in DOMAIN mem.rejects : mem.rejects[i].name = n
        /\ \A i \in DOMAIN mem.selectors :
             mem.selectors[i].count <= SeenSelector(mem.selectors[i].name)

\* The books of the dashboard agree through every interleaving of recording,
\* flush, prune, crash and restart: the columns of a row with each other, what
\* is shown with what is stored, and the lists with the counts.
BooksAgree == RollupsConsistent /\ MemoryAgreesWithStorage /\ ListsAreExact

\* An event recorded before a clear is in the cleared database afterwards
\* only if a flush had it in hand when the clear began.
ClearedEventsReturnOnlyByRace ==
    clearing # "stored" =>
        \A e \in ItemsOf(logs[cleared.db]["events"]) :
            e.id <= cleared.before => e.id \in cleared.raced

\* Whatever happens - a prune that fails half-way, a restart on the other
\* database - a rollup is taken out of a database only when it is old.
RetentionKeepsRecent ==
    [][\A db \in Backends, r \in Rows :
         stored'[db][r]["count"] < stored[db][r]["count"] => r.bucket < clock - Retention]_vars

\* The outcome of an execution does not stay in memory: the flush loop takes
\* and writes it, or it is lost with the process.
OutcomesSettle ==
    \A i \in 1..MaxRecords :
        (i \in ItemsOf(Waiting("outcomes"))) ~> (i \notin ItemsOf(Waiting("outcomes")))
=============================================================================
