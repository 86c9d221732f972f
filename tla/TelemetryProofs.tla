-------------------------- MODULE TelemetryProofs ---------------------------
(* For any tables, setups, caps and bounds, and through every interleaving  *)
(* of recorders, flush, clear, prune, failed writes and restarts:           *)
(*   - the rollups are a ledger: an event is counted at most once;          *)
(*   - a prune removes only rollups that are old;                           *)
(*   - a cleared event returns only if a flush had it in hand;              *)
(*   - the columns of a rollup, what the dashboard shows and the lists      *)
(*     agree with what was recorded and stored.                             *)
(* CountInv, the types and the flush's empty hand, carries all of them.     *)
EXTENDS Telemetry, FiniteSetTheorems, SequenceTheorems, TLAPS

USE DEF memVars

\* The types that the counts depend on.
CountTypes ==
    /\ setup \in Setups
    /\ backend \in Backends \cup {"down"}
    /\ clock \in 0..MaxClock
    /\ RowValues(buffer) /\ RowValues(taken)
    /\ stored = [db \in Backends |-> stored[db]]
    /\ \A db \in Backends : RowValues(stored[db])
    /\ recorded \in [Rows -> Nat]
    /\ faults \in Nat /\ expirations \in Nat

\* Between two flushes, and once the prune is reached, no rollup is left in
\* the flush's hand: otherwise mem::take would overwrite it.
HandEmpty == flush \in {"idle", "after"} => \A r \in Rows : taken[r]["count"] = 0

CountInv == CountTypes /\ HandEmpty

\* The columns of a row of this table agree with each other.
Consistent(table, v) ==
    /\ table = "latency" => ConsistentLatency(v)
    /\ table = "pool" => ConsistentPool(v)

\* One event of a rollup.
Unit(table) == {v \in [Columns(table) -> Nat] : v["count"] = 1 /\ Consistent(table, v)}

LEMMA ColumnsHaveCount ==
    ASSUME NEW t PROVE "count" \in Columns(t)
    BY DEF Columns

LEMMA ZeroType ==
    ASSUME NEW t PROVE Zero(t) \in [Columns(t) -> Nat] /\ Zero(t)["count"] = 0
    BY ColumnsHaveCount DEF Zero

LEMMA EmptyType == RowValues(Empty) /\ \A r \in Rows : Empty[r]["count"] = 0
    BY ZeroType DEF RowValues, Empty

\* Merging adds the counts.
LEMMA MergeAdds ==
    ASSUME NEW t, NEW old \in [Columns(t) -> Nat], NEW new \in [Columns(t) -> Nat]
    PROVE  /\ Merge(old, new) \in [Columns(t) -> Nat]
           /\ Merge(old, new)["count"] = old["count"] + new["count"]
<1>1. DOMAIN old = Columns(t)
    OBVIOUS
<1>2. \A c \in Columns(t) : Larger(old[c], new[c]) \in Nat /\ old[c] + new[c] \in Nat
    BY DEF Larger
<1>3. QED
    BY <1>1, <1>2, ColumnsHaveCount DEF Merge

\* So do the tables.
LEMMA UpsertAdds ==
    ASSUME NEW t \in Rollups, NEW old \in [Columns(t) -> Nat], NEW new \in [Columns(t) -> Nat]
    PROVE  /\ Upsert(t, old, new) \in [Columns(t) -> Nat]
           /\ Upsert(t, old, new)["count"] = old["count"] + new["count"]
<1>1. /\ Added(old, new) \in [Columns(t) -> Nat]
      /\ Added(old, new)["count"] = old["count"] + new["count"]
    BY ColumnsHaveCount DEF Added
<1>2. CASE t = "latency"
  <2>1. {"count", "sum", "max", "last"} = Columns(t)
      BY <1>2 DEF Columns
  <2>2. Larger(old["max"], new["max"]) \in Nat /\ new["last"] \in Nat
      BY <2>1 DEF Larger
  <2>3. LatencyUpsert(old, new) \in [Columns(t) -> Nat]
      BY <1>1, <2>1, <2>2 DEF LatencyUpsert
  <2>4. LatencyUpsert(old, new)["count"] = Added(old, new)["count"]
      BY <1>1, <2>1 DEF LatencyUpsert
  <2>5. Upsert(t, old, new) = LatencyUpsert(old, new)
      BY <1>2 DEF Upsert
  <2>6. QED
      BY <1>1, <2>3, <2>4, <2>5
<1>3. CASE t # "latency"
  <2>1. Upsert(t, old, new) = Added(old, new)
      BY <1>3 DEF Upsert, Rollups, FunnelUpsert, RejectUpsert, SelectorUpsert, PoolUpsert
  <2>2. QED
      BY <1>1, <2>1
<1>4. QED
    BY <1>2, <1>3

LEMMA OnceUnit ==
    ASSUME NEW t \in {"funnel", "reject", "selector"} PROVE Once \in Unit(t)
    BY DEF Unit, Once, Columns, Consistent

LEMMA LatencyColumns == Columns("latency") = {"count", "sum", "max", "last"}
    BY DEF Columns

LEMMA PoolColumnsOf == Columns("pool") = {"count"} \cup PoolColumns
    BY DEF Columns

LEMMA SampleUnit ==
    ASSUME NEW d \in Durations PROVE Sample(d) \in Unit("latency")
<1>1. d \in Nat
    BY TelemetryAssumption
<1>2. Sample(d) \in [Columns("latency") -> Nat] /\ Sample(d)["count"] = 1
    BY <1>1, ColumnsHaveCount DEF Sample
<1>3. Sample(d)["sum"] = d /\ Sample(d)["max"] = d /\ Sample(d)["last"] = d
    BY LatencyColumns DEF Sample
<1>4. ConsistentLatency(Sample(d))
  <2>1. d <= d * 1 /\ d <= d
      BY <1>1
  <2>2. QED
      BY <1>2, <1>3, <2>1 DEF ConsistentLatency
<1>5. QED
    BY <1>2, <1>4 DEF Unit, Consistent

\* A partial stage counts for the full one, and a stage for one column only.
LEMMA PoolUnit ==
    ASSUME NEW s PROVE PoolSample(s) \in Unit("pool")
<1>1. PoolSample(s) \in [Columns("pool") -> Nat] /\ PoolSample(s)["count"] = 1
    BY ColumnsHaveCount DEF PoolSample
<1>2. \A c \in PoolColumns : PoolSample(s)[c] = IF c \in StageColumns(s) THEN 1 ELSE 0
    BY PoolColumnsOf DEF PoolSample, PoolColumns
<1>3. /\ "partial_pool_found" \in StageColumns(s) => "pool_found" \in StageColumns(s)
      /\ "partial_pool_missing" \in StageColumns(s) => "pool_missing" \in StageColumns(s)
      /\ "partial_shadow_ev_positive" \in StageColumns(s)
             => "shadow_ev_positive" \in StageColumns(s)
      /\ "partial_shadow_ev_negative" \in StageColumns(s)
             => "shadow_ev_negative" \in StageColumns(s)
    BY DEF StageColumns
<1>4. /\ ~("pool_found" \in StageColumns(s) /\ "pool_missing" \in StageColumns(s))
      /\ ~("pool_found" \in StageColumns(s) /\ "payload_built" \in StageColumns(s))
      /\ ~("pool_missing" \in StageColumns(s) /\ "payload_built" \in StageColumns(s))
    BY DEF StageColumns
<1>5. {"partial_pool_found", "pool_found", "partial_pool_missing", "pool_missing",
       "partial_shadow_ev_positive", "shadow_ev_positive", "partial_shadow_ev_negative",
       "shadow_ev_negative", "payload_built"} \subseteq PoolColumns
    BY DEF PoolColumns
<1>6. ConsistentPool(PoolSample(s))
    BY <1>1, <1>2, <1>3, <1>4, <1>5 DEF ConsistentPool
<1>7. QED
    BY <1>1, <1>6 DEF Unit, Consistent

LEMMA RowTable ==
    ASSUME NEW r \in Rows PROVE r.table \in Rollups
    BY DEF Rows

LEMMA RowInRows ==
    ASSUME clock \in 0..MaxClock, NEW t \in Rollups, NEW n \in Names[t]
    PROVE  Row(t, n) \in Rows /\ Row(t, n).table = t
    BY DEF Row, Rows

\* What the recorders do to the counts.
Counts == <<buffer, taken, stored, recorded, faults, expirations>>
Counting(r) ==
    /\ \E v \in Unit(r.table) : buffer' = [buffer EXCEPT ![r] = Merge(@, v)]
    /\ recorded' = [recorded EXCEPT ![r] = @ + 1]
    /\ UNCHANGED <<taken, stored, faults, expirations>>
Frame == UNCHANGED <<setup, backend, clock, flush>>

LEMMA RollupCounts ==
    ASSUME clock \in 0..MaxClock, NEW t \in Rollups, NEW n \in Names[t], NEW v \in Unit(t),
           AddRollup(Row(t, n), v), UNCHANGED <<taken, stored, faults, expirations>>
    PROVE  UNCHANGED Counts \/ \E r \in Rows : Counting(r)
<1>1. Row(t, n) \in Rows /\ Row(t, n).table = t
    BY RowInRows
<1>2. CASE Enabled("rollups")
    BY <1>1, <1>2 DEF AddRollup, Counting
<1>3. CASE ~Enabled("rollups")
    BY <1>3 DEF AddRollup, Counts
<1>4. QED
    BY <1>2, <1>3

LEMMA RecordCounts ==
    ASSUME CountTypes, Record
    PROVE  Frame /\ (UNCHANGED Counts \/ \E r \in Rows : Counting(r))
<1> USE DEF CountTypes
<1>0. ASSUME NEW call, Recording(call)
      PROVE  Frame /\ UNCHANGED <<taken, stored, faults, expirations>>
    BY <1>0 DEF Recording, Frame, flushVars, storeVars, procVars
<1>1. CASE Event
    BY <1>0, <1>1 DEF Event, Counts
<1>2. ASSUME NEW n \in Names["latency"], NEW d \in Durations, RecordLatency(n, d)
      PROVE  Frame /\ (UNCHANGED Counts \/ \E r \in Rows : Counting(r))
    BY <1>0, <1>2, RollupCounts, SampleUnit DEF RecordLatency, Rollups
<1>3. ASSUME NEW n \in Names["reject"], RecordRejectReason(n)
      PROVE  Frame /\ (UNCHANGED Counts \/ \E r \in Rows : Counting(r))
    BY <1>0, <1>3, RollupCounts, OnceUnit DEF RecordRejectReason, Rollups
<1>4. ASSUME NEW n \in Names["selector"], RecordSelectorPerformance(n)
      PROVE  Frame /\ (UNCHANGED Counts \/ \E r \in Rows : Counting(r))
    BY <1>0, <1>4, RollupCounts, OnceUnit DEF RecordSelectorPerformance, Rollups
<1>5. ASSUME NEW n \in Names["pool"], NEW s \in PoolStages, RecordSelectorPoolPerformance(n, s)
      PROVE  Frame /\ (UNCHANGED Counts \/ \E r \in Rows : Counting(r))
    BY <1>0, <1>5, RollupCounts, PoolUnit DEF RecordSelectorPoolPerformance, Rollups
<1>6. ASSUME NEW n \in Names["funnel"], RecordOpportunityFunnel(n)
      PROVE  Frame /\ (UNCHANGED Counts \/ \E r \in Rows : Counting(r))
    BY <1>0, <1>6, RollupCounts, OnceUnit DEF RecordOpportunityFunnel, Rollups
<1>7. ASSUME NEW st, NEW s \in Selectors, RecordEdgeSample(st, s)
      PROVE  Frame /\ UNCHANGED Counts
    BY <1>0, <1>7 DEF RecordEdgeSample, Counts, bufferVars
<1>8. ASSUME NEW r, NEW o, RecordRelayOutcome(r, o)
      PROVE  Frame /\ UNCHANGED Counts
    BY <1>0, <1>8 DEF RecordRelayOutcome, Counts
<1>9. ASSUME NEW t, RecordTrail(t)
      PROVE  Frame /\ UNCHANGED Counts
    BY <1>0, <1>9 DEF RecordTrail, Counts
<1>10. CASE SetRelayRankings
    BY <1>0, <1>10 DEF SetRelayRankings, Counts, bufferVars
<1>11. QED
    BY <1>1, <1>2, <1>3, <1>4, <1>5, <1>6, <1>7, <1>8, <1>9, <1>10 DEF Record

\* The second lock of a call counts nothing in the rollups.
LEMMA FinishCounts ==
    ASSUME Finish PROVE UNCHANGED Counts /\ Frame /\ UNCHANGED buffer
<1> USE DEF Counts, Frame, bufferVars, flushVars, storeVars, procVars
<1>1. CASE \E e \in open.events : EventShown(e)
    BY <1>1 DEF EventShown
<1>2. CASE \E n \in Names["reject"] : RejectListed(n)
    BY <1>2 DEF RejectListed
<1>3. CASE \E n \in Names["funnel"] : FunnelCounted(n)
    BY <1>3 DEF FunnelCounted
<1>4. CASE \E s \in Selectors : UnsupportedBuffered(s)
    BY <1>4 DEF UnsupportedBuffered
<1>5. CASE ExecutorListed
    BY <1>5 DEF ExecutorListed
<1>6. QED
    BY <1>1, <1>2, <1>3, <1>4, <1>5 DEF Finish

\* The ledger's variables.
Buffered == [r \in Rows |-> buffer[r]["count"] + taken[r]["count"]]
Durable == [r \in Rows |-> stored["sqlite"][r]["count"] + stored["postgres"][r]["count"]]
LedgerStep == [L!Next]_(L!vars)

LEMMA LedgerUnchanged ==
    ASSUME UNCHANGED Counts PROVE LedgerStep
    BY DEF Counts, LedgerStep, L!vars

LEMMA LedgerRecord ==
    ASSUME NEW c \in Rows,
           recorded' = [recorded EXCEPT ![c] = @ + 1],
           Buffered' = [Buffered EXCEPT ![c] = @ + 1],
           Durable' = Durable, UNCHANGED <<faults, expirations>>
    PROVE  LedgerStep
    BY DEF LedgerStep, L!Next, L!Record, Buffered, Durable

LEMMA LedgerPersist ==
    ASSUME NEW c \in Rows, NEW n \in 1..Buffered[c],
           Buffered' = [Buffered EXCEPT ![c] = @ - n],
           Durable' = [Durable EXCEPT ![c] = @ + n],
           UNCHANGED <<recorded, faults, expirations>>
    PROVE  LedgerStep
    BY DEF LedgerStep, L!Next, L!Persist, Buffered, Durable

LEMMA LedgerLose ==
    ASSUME Buffered' \in [Rows -> Nat],
           \A c \in Rows : Buffered'[c] <= Buffered[c],
           Durable' = Durable, faults' = faults + 1, UNCHANGED <<recorded, expirations>>
    PROVE  LedgerStep
    BY DEF LedgerStep, L!Next, L!Lose, Buffered, Durable

LEMMA LedgerExpire ==
    ASSUME Durable' \in [Rows -> Nat],
           \A c \in Rows : Durable'[c] <= Durable[c],
           Buffered' = Buffered, expirations' = expirations + 1, UNCHANGED <<recorded, faults>>
    PROVE  LedgerStep
    BY DEF LedgerStep, L!Next, L!Expire, Buffered, Durable

LEMMA RowCounts ==
    ASSUME NEW f, RowValues(f), NEW r \in Rows
    PROVE  f[r]["count"] \in Nat
    BY ColumnsHaveCount DEF RowValues

LEMMA CountsOfRows ==
    ASSUME CountTypes
    PROVE  /\ \A r \in Rows : /\ buffer[r]["count"] \in Nat
                              /\ taken[r]["count"] \in Nat
                              /\ stored["sqlite"][r]["count"] \in Nat
                              /\ stored["postgres"][r]["count"] \in Nat
           /\ Buffered \in [Rows -> Nat] /\ Durable \in [Rows -> Nat]
    BY RowCounts DEF CountTypes, Backends, Buffered, Durable

\* A row of a rollup is replaced by another value of its type.
LEMMA RowReplaced ==
    ASSUME NEW f, RowValues(f), NEW r \in Rows, NEW v \in [Columns(r.table) -> Nat]
    PROVE  RowValues([f EXCEPT ![r] = v])
    BY DEF RowValues

LEMMA RecordStep ==
    ASSUME CountInv, Record
    PROVE  CountInv' /\ LedgerStep
<1> USE DEF CountInv
<1>1. Frame /\ (UNCHANGED Counts \/ \E r \in Rows : Counting(r))
    BY RecordCounts
<1>2. CASE UNCHANGED Counts
    BY <1>1, <1>2, LedgerUnchanged DEF CountTypes, HandEmpty, Counts, Frame
<1>3. ASSUME NEW r \in Rows, Counting(r)
      PROVE  CountInv' /\ LedgerStep
  <2>1. PICK v \in Unit(r.table) : buffer' = [buffer EXCEPT ![r] = Merge(@, v)]
      BY <1>3 DEF Counting
  <2>2. v \in [Columns(r.table) -> Nat] /\ v["count"] = 1
      BY DEF Unit
  <2>3. buffer[r] \in [Columns(r.table) -> Nat]
      BY DEF CountTypes, RowValues
  <2>4. /\ Merge(buffer[r], v) \in [Columns(r.table) -> Nat]
        /\ Merge(buffer[r], v)["count"] = buffer[r]["count"] + 1
      BY <2>2, <2>3, MergeAdds
  <2>5. RowValues(buffer')
      BY <2>1, <2>4, RowReplaced DEF CountTypes
  <2>6. /\ recorded' = [recorded EXCEPT ![r] = @ + 1]
        /\ UNCHANGED <<taken, stored, faults, expirations>>
      BY <1>3 DEF Counting
  <2>7. CountInv'
      BY <1>1, <2>5, <2>6 DEF CountTypes, HandEmpty, Frame
  <2>8. DOMAIN buffer = Rows
      BY DEF CountTypes, RowValues
  <2>9. Buffered' = [Buffered EXCEPT ![r] = @ + 1]
    <3>1. \A q \in Rows : buffer'[q]["count"] =
                           IF q = r THEN buffer[q]["count"] + 1 ELSE buffer[q]["count"]
        BY <2>1, <2>4, <2>8
    <3>2. \A q \in Rows : /\ buffer[q]["count"] \in Nat
                          /\ taken[q]["count"] \in Nat
        BY CountsOfRows
    <3>3. \A q \in Rows : buffer'[q]["count"] + taken[q]["count"] =
             IF q = r THEN (buffer[q]["count"] + taken[q]["count"]) + 1
             ELSE buffer[q]["count"] + taken[q]["count"]
        BY <3>1, <3>2
    <3>4. QED
        BY <2>6, <3>3 DEF Buffered
  <2>10. Durable' = Durable
      BY <2>6 DEF Durable
  <2>11. QED
      BY <2>6, <2>7, <2>9, <2>10, LedgerRecord
<1>4. QED
    BY <1>1, <1>2, <1>3

LEMMA TakeStep ==
    ASSUME CountInv, FlushTake
    PROVE  CountInv' /\ LedgerStep
<1> USE DEF CountInv
<1>1. /\ flush = "idle" /\ flush' = "before" /\ taken' = buffer /\ buffer' = Empty
      /\ UNCHANGED <<stored, recorded, setup, backend, clock, faults, expirations>>
    BY DEF FlushTake, storeVars, procVars
<1>2. CountInv'
    BY <1>1, EmptyType DEF CountTypes, HandEmpty
<1>3. \A r \in Rows : taken[r]["count"] = 0
    BY <1>1 DEF HandEmpty
<1>4. Buffered' = Buffered
    BY <1>1, <1>3, EmptyType, CountsOfRows DEF Buffered
<1>5. Durable' = Durable
    BY <1>1 DEF Durable
<1>6. QED
    BY <1>1, <1>2, <1>4, <1>5 DEF LedgerStep, L!vars, Buffered, Durable

LEMMA RollupStep ==
    ASSUME CountInv, NEW r \in Present(taken), NEW ok \in BOOLEAN, FlushRollup(r, ok)
    PROVE  CountInv' /\ LedgerStep
<1> USE DEF CountInv
<1>1. /\ backend \in Backends /\ taken' = [taken EXCEPT ![r] = Zero(r.table)]
      /\ UNCHANGED <<buffer, recorded, setup, backend, clock, expirations, flush>>
      /\ stored' = IF ok THEN [stored EXCEPT ![backend][r] = Upsert(r.table, @, taken[r])] ELSE stored
    BY DEF FlushRollup, bufferVars, Up, CountTypes
<1>2. r \in Rows /\ taken[r]["count"] > 0
    BY DEF Present
<1>3. /\ taken[r] \in [Columns(r.table) -> Nat] /\ stored[backend][r] \in [Columns(r.table) -> Nat]
      /\ DOMAIN taken = Rows /\ DOMAIN stored[backend] = Rows /\ DOMAIN stored = Backends
    BY <1>1, <1>2 DEF CountTypes, RowValues
<1>4. RowValues(taken')
    BY <1>1, <1>2, ZeroType, RowReplaced DEF CountTypes
<1>5. HandEmpty'
    BY <1>1, <1>2, <1>3, ZeroType DEF HandEmpty
<1>6. Buffered' = [Buffered EXCEPT ![r] = @ - taken[r]["count"]]
  <2>1. \A q \in Rows : taken'[q]["count"] = IF q = r THEN 0 ELSE taken[q]["count"]
      BY <1>1, <1>3, ZeroType
  <2>2. \A q \in Rows : buffer[q]["count"] \in Nat /\ taken[q]["count"] \in Nat
      BY CountsOfRows
  <2>3. \A q \in Rows : buffer[q]["count"] + taken'[q]["count"] =
           IF q = r THEN (buffer[q]["count"] + taken[q]["count"]) - taken[r]["count"]
           ELSE buffer[q]["count"] + taken[q]["count"]
      BY <2>1, <2>2
  <2>4. QED
      BY <1>1, <2>3 DEF Buffered
<1>7. CASE ok
  <2>1. UNCHANGED faults /\ stored' = [stored EXCEPT ![backend][r] = Upsert(r.table, @, taken[r])]
      BY <1>1, <1>7 DEF FlushRollup, Write
  <2>2. /\ Upsert(r.table, stored[backend][r], taken[r]) \in [Columns(r.table) -> Nat]
        /\ Upsert(r.table, stored[backend][r], taken[r])["count"]
             = stored[backend][r]["count"] + taken[r]["count"]
      BY <1>2, <1>3, UpsertAdds, RowTable
  <2>3. /\ stored'[backend] = [stored[backend] EXCEPT ![r] = Upsert(r.table, @, taken[r])]
        /\ DOMAIN stored' = Backends
        /\ \A db \in Backends : db # backend => stored'[db] = stored[db]
        /\ stored' = [db \in Backends |-> stored'[db]]
      BY <1>1, <1>3, <2>1
  <2>4. \A db \in Backends : RowValues(stored'[db])
      BY <1>1, <1>2, <2>2, <2>3, RowReplaced DEF CountTypes
  <2>5. CountInv'
      BY <1>1, <1>4, <1>5, <2>1, <2>3, <2>4 DEF CountTypes
  <2>6. Durable' = [Durable EXCEPT ![r] = @ + taken[r]["count"]]
    <3>1. \A q \in Rows : stored'[backend][q]["count"] =
             IF q = r THEN stored[backend][q]["count"] + taken[r]["count"]
             ELSE stored[backend][q]["count"]
        BY <1>3, <2>2, <2>3
    <3>2. \A q \in Rows : /\ stored["sqlite"][q]["count"] \in Nat
                          /\ stored["postgres"][q]["count"] \in Nat
                          /\ taken[q]["count"] \in Nat
        BY CountsOfRows
    <3>3. \A db \in Backends : db # backend => stored'[db] = stored[db]
        BY <2>3
    <3>4. \A q \in Rows :
             stored'["sqlite"][q]["count"] + stored'["postgres"][q]["count"] =
               IF q = r THEN (stored["sqlite"][q]["count"] + stored["postgres"][q]["count"])
                               + taken[r]["count"]
               ELSE stored["sqlite"][q]["count"] + stored["postgres"][q]["count"]
      <4>1. CASE backend = "sqlite"
          BY <1>2, <3>1, <3>2, <3>3, <4>1 DEF Backends
      <4>2. CASE backend = "postgres"
          BY <1>2, <3>1, <3>2, <3>3, <4>2 DEF Backends
      <4>3. QED
          BY <1>1, <4>1, <4>2 DEF Backends
    <3>5. QED
        BY <3>4 DEF Durable
  <2>7. taken[r]["count"] \in 1..Buffered[r]
      BY <1>2, CountsOfRows DEF Buffered
  <2>8. QED
      BY <1>1, <1>2, <1>6, <2>1, <2>5, <2>6, <2>7, LedgerPersist
<1>8. CASE ~ok
  <2>1. faults' = faults + 1 /\ stored' = stored
      BY <1>1, <1>8 DEF FlushRollup, Write
  <2>2. CountInv'
    <3>1. /\ stored' = [db \in Backends |-> stored'[db]]
          /\ \A db \in Backends : RowValues(stored'[db])
        BY <2>1 DEF CountTypes
    <3>2. RowValues(buffer') /\ faults' \in Nat
        BY <1>1, <2>1 DEF CountTypes
    <3>3. QED
        BY <1>1, <1>4, <1>5, <3>1, <3>2 DEF CountTypes
  <2>3. \A c \in Rows : Buffered'[c] <= Buffered[c]
      BY <1>2, <1>6, CountsOfRows
  <2>4. Buffered' \in [Rows -> Nat]
    <3>1. \A q \in Rows : buffer'[q]["count"] \in Nat /\ taken'[q]["count"] \in Nat
        BY <2>2, RowCounts DEF CountTypes
    <3>2. QED
        BY <3>1 DEF Buffered
  <2>5. QED
      BY <1>1, <2>1, <2>2, <2>3, <2>4, LedgerLose DEF Durable
<1>9. QED
    BY <1>7, <1>8

LEMMA ItemStep ==
    ASSUME CountInv, NEW t \in Queues, NEW ok \in BOOLEAN, FlushItem(t, ok)
    PROVE  CountInv' /\ LedgerStep
<1> USE DEF CountInv
<1>1. /\ UNCHANGED <<buffer, taken, stored, recorded, expirations, setup, backend, clock, flush>>
      /\ Write(ok)
    BY DEF FlushItem, bufferVars
<1>2. CASE ok
  <2>1. UNCHANGED faults
      BY <1>1, <1>2 DEF Write
  <2>2. QED
      BY <1>1, <2>1, LedgerUnchanged DEF CountTypes, HandEmpty, Counts
<1>3. CASE ~ok
  <2>1. faults' = faults + 1 /\ faults' \in Nat
      BY <1>1, <1>3 DEF Write, CountTypes
  <2>2. CountInv'
      BY <1>1, <2>1 DEF CountTypes, HandEmpty
  <2>3. Buffered' = Buffered /\ Durable' = Durable
      BY <1>1 DEF Buffered, Durable
  <2>4. \A c \in Rows : Buffered[c] \in Nat
      BY CountsOfRows
  <2>5. QED
      BY <1>1, <2>1, <2>2, <2>3, <2>4, CountsOfRows, LedgerLose
<1>4. QED
    BY <1>2, <1>3

\* Pruning, whether it gets through or not, only lowers what is stored.
LEMMA PruneStep ==
    ASSUME CountTypes, NEW db \in Backends, Prune(db),
           UNCHANGED <<buffer, taken, recorded, faults>>
    PROVE  /\ stored' = [d \in Backends |-> stored'[d]]
           /\ \A d \in Backends : RowValues(stored'[d])
           /\ expirations' \in Nat
           /\ LedgerStep
<1>1. PICK n \in 0..Len(PruneOrder) : stored' = PrunedRollups(db, n)
    BY DEF Prune
<1>2. /\ stored' = [d \in Backends |-> stored'[d]]
      /\ stored'[db] = [r \in Rows |-> IF r.table \in Reached(n) /\ r.bucket < clock - Retention
                                       THEN Zero(r.table) ELSE stored[db][r]]
      /\ \A d \in Backends : d # db => stored'[d] = stored[d]
    BY <1>1 DEF PrunedRollups, CountTypes
<1>3. RowValues(stored'[db])
    BY <1>2, ZeroType DEF RowValues, CountTypes
<1>4. \A d \in Backends : RowValues(stored'[d])
    BY <1>2, <1>3 DEF CountTypes
<1>5. \A d \in Backends, r \in Rows :
         /\ stored'[d][r]["count"] \in Nat /\ stored[d][r]["count"] \in Nat
         /\ stored'[d][r]["count"] <= stored[d][r]["count"]
  <2>1. \A d \in Backends, r \in Rows :
           stored'[d][r]["count"] \in Nat /\ stored[d][r]["count"] \in Nat
      BY <1>4, RowCounts DEF CountTypes
  <2>2. \A r \in Rows : stored'[db][r]["count"] <= stored[db][r]["count"]
    <3> SUFFICES ASSUME NEW r \in Rows PROVE stored'[db][r]["count"] <= stored[db][r]["count"]
        OBVIOUS
    <3>1. CASE stored'[db][r] = Zero(r.table)
        BY <2>1, <3>1, ZeroType
    <3>2. CASE stored'[db][r] = stored[db][r]
        BY <2>1, <3>2
    <3>3. QED
        BY <1>2, <3>1, <3>2
  <2>3. QED
      BY <1>2, <2>1, <2>2
<1>6. expirations \in Nat
    BY DEF CountTypes
<1>7. CASE stored' = stored
  <2>1. UNCHANGED expirations
      BY <1>7 DEF Prune
  <2>2. QED
      BY <1>2, <1>4, <1>6, <1>7, <2>1, LedgerUnchanged DEF Counts
<1>8. CASE stored' # stored
  <2>1. expirations' = expirations + 1
      BY <1>8 DEF Prune
  <2>2. \A r \in Rows : Durable'[r] <= Durable[r] /\ Durable'[r] \in Nat
      BY <1>5 DEF Durable, Backends
  <2>3. Durable' \in [Rows -> Nat]
      BY <2>2 DEF Durable
  <2>4. Buffered' = Buffered
      BY DEF Buffered
  <2>5. LedgerStep
      BY <2>1, <2>2, <2>3, <2>4, LedgerExpire
  <2>6. QED
      BY <1>2, <1>4, <1>6, <2>1, <2>5
<1>9. QED
    BY <1>7, <1>8

\* When the prune is reached, every rollup has been written.
LEMMA WrittenEmptiesHand ==
    ASSUME CountTypes, flush = "before", Written
    PROVE  \A r \in Rows : taken[r]["count"] = 0
<1> SUFFICES ASSUME NEW r \in Rows PROVE taken[r]["count"] = 0
    OBVIOUS
<1>1. r.table \in {"latency", "funnel", "reject", "selector", "pool"}
    BY RowTable DEF Rollups
<1>2. Order = BeforePrune
    BY DEF Order
<1>3. /\ BeforePrune[3] = "latency" /\ BeforePrune[4] = "funnel" /\ BeforePrune[5] = "reject"
      /\ BeforePrune[6] = "selector" /\ BeforePrune[7] = "pool"
      /\ {3, 4, 5, 6, 7} \subseteq DOMAIN BeforePrune
    BY DEF BeforePrune
<1>4. ~Left(r.table)
    BY <1>1, <1>2, <1>3 DEF Written
<1>5. r \notin Present(taken)
    BY <1>4, RowTable DEF Left
<1>6. taken[r]["count"] \in Nat
    BY CountsOfRows
<1>7. QED
    BY <1>5, <1>6 DEF Present

LEMMA FlushPruneStep ==
    ASSUME CountInv, FlushPrune
    PROVE  CountInv' /\ LedgerStep
<1> USE DEF CountInv
<1>1. /\ backend \in Backends /\ flush = "before" /\ Written
      /\ UNCHANGED <<buffer, taken, recorded, setup, backend, clock, faults>>
    BY DEF FlushPrune, bufferVars, Up, CountTypes
<1>2. HandEmpty'
    BY <1>1, WrittenEmptiesHand DEF HandEmpty
<1>3. CASE Prune(backend)
  <2>1. /\ stored' = [d \in Backends |-> stored'[d]]
        /\ \A d \in Backends : RowValues(stored'[d])
        /\ expirations' \in Nat /\ LedgerStep
      BY <1>1, <1>3, PruneStep
  <2>2. QED
      BY <1>1, <1>2, <2>1 DEF CountTypes
<1>4. CASE UNCHANGED <<stored, expirations>>
    BY <1>1, <1>2, <1>4, LedgerUnchanged DEF CountTypes, Counts
<1>5. QED
    BY <1>3, <1>4 DEF FlushPrune

LEMMA CrashStep ==
    ASSUME CountInv, Crash
    PROVE  CountInv' /\ LedgerStep
<1> USE DEF CountInv
<1>1. /\ buffer' = Empty /\ taken' = Empty /\ backend' = "down" /\ faults' = faults + 1
      /\ UNCHANGED <<stored, recorded, setup, clock, expirations>>
    BY DEF Crash, storeVars
<1>2. CountInv'
    BY <1>1, EmptyType DEF CountTypes, HandEmpty
<1>3. Durable' = Durable
    BY <1>1 DEF Durable
<1>4. \A r \in Rows : Buffered'[r] = 0
    BY <1>1, EmptyType DEF Buffered
<1>5. Buffered' \in [Rows -> Nat]
    BY <1>4 DEF Buffered
<1>6. \A r \in Rows : Buffered'[r] <= Buffered[r]
    BY <1>4, CountsOfRows
<1>7. QED
    BY <1>1, <1>2, <1>3, <1>5, <1>6, LedgerLose

LEMMA RestartStep ==
    ASSUME CountInv, NEW db \in Backends, Restart(db)
    PROVE  CountInv' /\ LedgerStep
<1> USE DEF CountInv
<1>1. /\ backend' = db /\ Prune(db)
      /\ UNCHANGED <<buffer, taken, recorded, setup, clock, faults, flush>>
    BY DEF Restart, bufferVars
<1>2. /\ stored' = [d \in Backends |-> stored'[d]]
      /\ \A d \in Backends : RowValues(stored'[d])
      /\ expirations' \in Nat /\ LedgerStep
    BY <1>1, PruneStep
<1>3. QED
    BY <1>1, <1>2 DEF CountTypes, HandEmpty

\* Every step of the program is a step of the ledger.
LEMMA CountStep ==
    ASSUME CountInv, [Next]_vars
    PROVE  CountInv' /\ LedgerStep
<1> USE DEF CountInv
<1>1. CASE Record
    BY <1>1, RecordStep
<1>2. CASE FlushTake
    BY <1>2, TakeStep
<1>3. CASE \E r \in Present(taken), ok \in BOOLEAN : FlushRollup(r, ok)
    BY <1>3, RollupStep
<1>4. CASE \E t \in Queues, ok \in BOOLEAN : FlushItem(t, ok)
    BY <1>4, ItemStep
<1>5. CASE FlushPrune
    BY <1>5, FlushPruneStep
<1>6. CASE FlushDone
  <2>1. /\ flush = "after" /\ flush' = "idle" /\ UNCHANGED Counts
        /\ UNCHANGED <<setup, backend, clock>>
      BY <1>6 DEF FlushDone, Counts, bufferVars, storeVars, procVars
  <2>2. QED
      BY <2>1, LedgerUnchanged DEF CountTypes, HandEmpty, Counts
<1>7. CASE ClearPending \/ ClearRecent \/ \E ok \in BOOLEAN : ClearStored(ok)
  <2>1. UNCHANGED Counts /\ Frame
      BY <1>7 DEF ClearPending, ClearRecent, ClearStored, Counts, Frame, bufferVars,
                  flushVars, storeVars, procVars
  <2>2. QED
      BY <2>1, LedgerUnchanged DEF CountTypes, HandEmpty, Counts, Frame
<1>8. CASE Tick
  <2>1. /\ UNCHANGED Counts /\ UNCHANGED <<setup, backend, flush>>
        /\ clock' = clock + 1 /\ clock < MaxClock
      BY <1>8 DEF Tick, Counts, bufferVars, flushVars, storeVars
  <2>2. clock' \in 0..MaxClock
      BY <2>1, TelemetryAssumption DEF CountTypes
  <2>3. QED
      BY <2>1, <2>2, LedgerUnchanged DEF CountTypes, HandEmpty, Counts
<1>9. CASE Crash
    BY <1>9, CrashStep
<1>10. CASE \E db \in Backends : Restart(db)
    BY <1>10, RestartStep
<1>11. CASE UNCHANGED vars
  <2>1. UNCHANGED Counts /\ Frame
      BY <1>11 DEF vars, Counts, Frame, bufferVars, flushVars, storeVars, procVars
  <2>2. QED
      BY <2>1, LedgerUnchanged DEF CountTypes, HandEmpty, Counts, Frame
<1>12. CASE Finish
  <2>1. UNCHANGED Counts /\ Frame
      BY <1>12, FinishCounts
  <2>2. QED
      BY <2>1, LedgerUnchanged DEF CountTypes, HandEmpty, Counts, Frame
<1>13. QED
    BY <1>1, <1>2, <1>3, <1>4, <1>5, <1>6, <1>7, <1>8, <1>9, <1>10, <1>11, <1>12
       DEF Next, Flush

LEMMA CountInit ==
    ASSUME Init PROVE CountInv /\ L!Init
<1>1. /\ setup \in Setups /\ backend = "down" /\ clock = 0 /\ faults = 0 /\ expirations = 0
      /\ buffer = Empty /\ taken = Empty /\ recorded = [r \in Rows |-> 0]
      /\ stored = [db \in Backends |-> Empty]
    BY DEF Init, Idle
<1>2. CountInv
    BY <1>1, EmptyType, TelemetryAssumption DEF CountInv, CountTypes, HandEmpty
<1>3. \A r \in Rows : /\ buffer[r]["count"] + taken[r]["count"] = 0
                      /\ stored["sqlite"][r]["count"] + stored["postgres"][r]["count"] = 0
    BY <1>1, EmptyType DEF Backends
<1>4. L!Init
    BY <1>1, <1>3 DEF L!Init
<1>5. QED
    BY <1>2, <1>4

\* The rollups of dashboard.rs and storage.rs implement the ledger: what
\* flush_storage_buffers, prune_runtime_tables, Storage::new and a crash do to
\* a counter is recording, persisting, losing by a counted fault or expiring.
THEOREM TelemetryImplementsLedger == Spec => LedgerSpec
<1>1. Init => CountInv /\ L!Init
    BY CountInit
<1>2. CountInv /\ [Next]_vars => CountInv' /\ [L!Next]_(L!vars)
    BY CountStep DEF LedgerStep
<1>3. QED
    BY <1>1, <1>2, PTL DEF Spec, LedgerSpec, L!Spec

-----------------------------------------------------------------------------
(* Only old rollups are taken out of a database.                            *)

LEMMA PrunedIsOld ==
    ASSUME CountTypes, NEW db \in Backends, Prune(db)
    PROVE  \A d \in Backends, r \in Rows :
              \/ stored'[d][r] = stored[d][r]
              \/ stored'[d][r] = Zero(r.table) /\ r.bucket < clock - Retention
<1>1. PICK n \in 0..Len(PruneOrder) : stored' = PrunedRollups(db, n)
    BY DEF Prune
<1>2. /\ stored'[db] = [r \in Rows |-> IF r.table \in Reached(n) /\ r.bucket < clock - Retention
                                       THEN Zero(r.table) ELSE stored[db][r]]
      /\ \A d \in Backends : d # db => stored'[d] = stored[d]
    BY <1>1 DEF PrunedRollups, CountTypes
<1>3. QED
    BY <1>2

\* The three ways in which a step treats the tables.
LEMMA StoredSteps ==
    ASSUME CountInv, [Next]_vars
    PROVE  \/ UNCHANGED stored
           \/ \E db \in Backends : Prune(db)
           \/ \E r \in Present(taken), ok \in BOOLEAN : FlushRollup(r, ok)
<1>1. CASE Record
    BY <1>1, RecordCounts DEF CountInv, Counts, Counting
<1>2. CASE FlushTake \/ FlushDone
    BY <1>2 DEF FlushTake, FlushDone, storeVars
<1>3. CASE \E t \in Queues, ok \in BOOLEAN : FlushItem(t, ok)
    BY <1>3 DEF FlushItem
<1>4. CASE FlushPrune
  <2>1. backend \in Backends
      BY <1>4 DEF FlushPrune, Up, CountInv, CountTypes
  <2>2. QED
      BY <1>4, <2>1 DEF FlushPrune
<1>5. CASE ClearPending \/ ClearRecent \/ \E ok \in BOOLEAN : ClearStored(ok)
    BY <1>5 DEF ClearPending, ClearRecent, ClearStored, storeVars
<1>6. CASE Tick \/ Crash
    BY <1>6 DEF Tick, Crash, storeVars
<1>7. CASE \E db \in Backends : Restart(db)
    BY <1>7 DEF Restart
<1>8. CASE UNCHANGED vars
    BY <1>8 DEF vars, storeVars
<1>9. CASE Finish
    BY <1>9, FinishCounts DEF Counts
<1>10. QED
    BY <1>1, <1>2, <1>3, <1>4, <1>5, <1>6, <1>7, <1>8, <1>9 DEF Next, Flush

\* A written row replaces one row of one database.
LEMMA RollupWritten ==
    ASSUME CountInv, NEW r \in Present(taken), NEW ok \in BOOLEAN, FlushRollup(r, ok)
    PROVE  \A d \in Backends, q \in Rows :
              \/ stored'[d][q] = stored[d][q]
              \/ q = r /\ stored'[d][q] = Upsert(r.table, stored[d][q], taken[q])
<1>1. /\ backend \in Backends
      /\ stored' = IF ok THEN [stored EXCEPT ![backend][r] = Upsert(r.table, @, taken[r])] ELSE stored
    BY DEF FlushRollup, bufferVars, Up, CountInv, CountTypes
<1>2. DOMAIN stored = Backends /\ DOMAIN stored[backend] = Rows /\ r \in Rows
    BY <1>1 DEF CountInv, CountTypes, RowValues, Present
<1>3. CASE ok
  <2>1. /\ stored'[backend] = [stored[backend] EXCEPT ![r] = Upsert(r.table, @, taken[r])]
        /\ \A d \in Backends : d # backend => stored'[d] = stored[d]
      BY <1>1, <1>2, <1>3
  <2>2. QED
      BY <1>1, <1>2, <2>1
<1>4. CASE ~ok
    BY <1>1, <1>4
<1>5. QED
    BY <1>3, <1>4

LEMMA RetentionStep ==
    ASSUME CountInv, [Next]_vars
    PROVE  \A d \in Backends, r \in Rows :
              stored'[d][r]["count"] < stored[d][r]["count"] => r.bucket < clock - Retention
<1> SUFFICES ASSUME NEW d \in Backends, NEW q \in Rows,
                    stored'[d][q]["count"] < stored[d][q]["count"]
             PROVE  q.bucket < clock - Retention
    OBVIOUS
<1>1. stored[d][q]["count"] \in Nat /\ stored[d][q] \in [Columns(q.table) -> Nat]
    BY RowCounts DEF CountInv, CountTypes, RowValues
<1>2. stored'[d][q] # stored[d][q]
    BY <1>1
<1>3. CASE UNCHANGED stored
    BY <1>2, <1>3
<1>4. ASSUME NEW db \in Backends, Prune(db)
      PROVE  q.bucket < clock - Retention
    BY <1>2, <1>4, PrunedIsOld DEF CountInv
<1>5. ASSUME NEW r \in Present(taken), NEW ok \in BOOLEAN, FlushRollup(r, ok)
      PROVE  FALSE
  <2>1. stored'[d][q] = Upsert(q.table, stored[d][q], taken[q])
      BY <1>2, <1>5, RollupWritten
  <2>2. taken[q] \in [Columns(q.table) -> Nat] /\ taken[q]["count"] \in Nat
      BY RowCounts DEF CountInv, CountTypes, RowValues
  <2>3. stored'[d][q]["count"] = stored[d][q]["count"] + taken[q]["count"]
      BY <1>1, <2>1, <2>2, UpsertAdds, RowTable
  <2>4. QED
      BY <1>1, <2>2, <2>3
<1>6. QED
    BY <1>3, <1>4, <1>5, StoredSteps

\* Only prune_runtime_tables lowers a count, and only of a row whose bucket is
\* behind the cutoff, however far the prune gets and whichever database a
\* restart chooses.
THEOREM RecentRollupsStay == Spec => RetentionKeepsRecent
<1>1. Init => CountInv
    BY CountInit
<1>2. CountInv /\ [Next]_vars => CountInv'
    BY CountStep
<1>3. CountInv /\ [Next]_vars
        => [\A db \in Backends, r \in Rows :
              stored'[db][r]["count"] < stored[db][r]["count"] => r.bucket < clock - Retention]_vars
    BY RetentionStep
<1>4. QED
    BY <1>1, <1>2, <1>3, PTL DEF Spec, RetentionKeepsRecent

-----------------------------------------------------------------------------
(* Merging, in the buffer and in the tables, keeps the columns in agreement.*)

LEMMA ProductGrows ==
    ASSUME NEW a \in Nat, NEW m \in Nat, NEW c \in Nat, a <= m
    PROVE  a * c <= m * c
<1>1. PICK d \in Nat : m = a + d
  <2>1. m - a \in Nat /\ m = a + (m - a)
      OBVIOUS
  <2>2. QED
      BY <2>1
<1>2. (a + d) * c = a * c + d * c
    OBVIOUS
<1>3. a * c \in Nat /\ d * c \in Nat
    OBVIOUS
<1>4. QED
    BY <1>1, <1>2, <1>3

LEMMA AverageBelowMax ==
    ASSUME NEW s1 \in Nat, NEW m1 \in Nat, NEW c1 \in Nat, s1 <= m1 * c1,
           NEW s2 \in Nat, NEW m2 \in Nat, NEW c2 \in Nat, s2 <= m2 * c2
    PROVE  s1 + s2 <= Larger(m1, m2) * (c1 + c2)
<1> DEFINE m == Larger(m1, m2)
<1>1. m \in Nat /\ m1 <= m /\ m2 <= m
    BY DEF Larger
<1> HIDE DEF m
<1>2. m1 * c1 <= m * c1 /\ m2 * c2 <= m * c2
    BY <1>1, ProductGrows
<1>3. m * (c1 + c2) = m * c1 + m * c2
    BY <1>1
<1>4. m * c1 \in Nat /\ m * c2 \in Nat /\ m1 * c1 \in Nat /\ m2 * c2 \in Nat
    BY <1>1
<1>5. s1 + s2 <= m * c1 + m * c2
    BY <1>2, <1>4
<1>6. QED
    BY <1>3, <1>5 DEF m

\* A combination of two latency rows: sums added, the larger maximum, the
\* newer last sample.
LEMMA LatencyCombined ==
    ASSUME NEW old \in [Columns("latency") -> Nat], ConsistentLatency(old),
           NEW new \in [Columns("latency") -> Nat], ConsistentLatency(new),
           NEW v, v["sum"] = old["sum"] + new["sum"], v["count"] = old["count"] + new["count"],
           v["max"] = Larger(old["max"], new["max"]), v["last"] = new["last"]
    PROVE  ConsistentLatency(v)
<1>1. /\ old["sum"] \in Nat /\ old["max"] \in Nat /\ old["count"] \in Nat
      /\ new["sum"] \in Nat /\ new["max"] \in Nat /\ new["count"] \in Nat
      /\ new["last"] \in Nat
    BY LatencyColumns
<1>2. /\ old["sum"] <= old["max"] * old["count"]
      /\ new["sum"] <= new["max"] * new["count"] /\ new["last"] <= new["max"]
    BY DEF ConsistentLatency
<1>3. v["sum"] <= v["max"] * v["count"]
  <2>1. old["sum"] + new["sum"]
          <= Larger(old["max"], new["max"]) * (old["count"] + new["count"])
      BY <1>1, <1>2, AverageBelowMax
  <2>2. QED
      BY <2>1
<1>4. new["last"] <= Larger(old["max"], new["max"])
    BY <1>1, <1>2 DEF Larger
<1>5. QED
    BY <1>3, <1>4 DEF ConsistentLatency

\* A combination of two pool rows: every column added.
LEMMA PoolCombined ==
    ASSUME NEW old \in [Columns("pool") -> Nat], ConsistentPool(old),
           NEW new \in [Columns("pool") -> Nat], ConsistentPool(new),
           NEW v, \A c \in Columns("pool") : v[c] = old[c] + new[c]
    PROVE  ConsistentPool(v)
<1>1. {"partial_pool_found", "pool_found", "partial_pool_missing", "pool_missing",
       "partial_shadow_ev_positive", "shadow_ev_positive", "partial_shadow_ev_negative",
       "shadow_ev_negative", "payload_built", "count"} \subseteq Columns("pool")
    BY PoolColumnsOf DEF PoolColumns
<1>2. QED
    BY <1>1 DEF ConsistentPool

LEMMA MergeConsistent ==
    ASSUME NEW t \in Rollups, NEW old \in [Columns(t) -> Nat], NEW new \in [Columns(t) -> Nat],
           Consistent(t, old), Consistent(t, new)
    PROVE  Consistent(t, Merge(old, new))
<1>1. CASE t = "latency"
  <2>1. DOMAIN old = {"count", "sum", "max", "last"}
      BY <1>1, LatencyColumns
  <2>2. /\ Merge(old, new)["sum"] = old["sum"] + new["sum"]
        /\ Merge(old, new)["count"] = old["count"] + new["count"]
        /\ Merge(old, new)["max"] = Larger(old["max"], new["max"])
        /\ Merge(old, new)["last"] = new["last"]
      BY <2>1 DEF Merge
  <2>3. ConsistentLatency(Merge(old, new))
      BY <1>1, <2>2, LatencyCombined DEF Consistent
  <2>4. QED
      BY <1>1, <2>3 DEF Consistent
<1>2. CASE t = "pool"
  <2>1. DOMAIN old = Columns("pool") /\ "max" \notin Columns("pool") /\ "last" \notin Columns("pool")
      BY <1>2, PoolColumnsOf DEF PoolColumns
  <2>2. \A c \in Columns("pool") : Merge(old, new)[c] = old[c] + new[c]
      BY <2>1 DEF Merge
  <2>3. ConsistentPool(Merge(old, new))
      BY <1>2, <2>2, PoolCombined DEF Consistent
  <2>4. QED
      BY <1>2, <2>3 DEF Consistent
<1>3. CASE t # "latency" /\ t # "pool"
    BY <1>3 DEF Consistent
<1>4. QED
    BY <1>1, <1>2, <1>3

LEMMA UpsertConsistent ==
    ASSUME NEW t \in Rollups, NEW old \in [Columns(t) -> Nat], NEW new \in [Columns(t) -> Nat],
           Consistent(t, old), Consistent(t, new)
    PROVE  Consistent(t, Upsert(t, old, new))
<1>1. CASE t = "latency"
  <2>1. DOMAIN old = {"count", "sum", "max", "last"}
      BY <1>1, LatencyColumns
  <2>2. Upsert(t, old, new) = LatencyUpsert(old, new)
      BY <1>1 DEF Upsert
  <2>3. DOMAIN Added(old, new) = {"count", "sum", "max", "last"}
      BY <2>1 DEF Added
  <2>4. /\ LatencyUpsert(old, new)["sum"] = old["sum"] + new["sum"]
        /\ LatencyUpsert(old, new)["count"] = old["count"] + new["count"]
        /\ LatencyUpsert(old, new)["max"] = Larger(old["max"], new["max"])
        /\ LatencyUpsert(old, new)["last"] = new["last"]
    <3>1. Added(old, new)["sum"] = old["sum"] + new["sum"]
        BY <2>1 DEF Added
    <3>2. Added(old, new)["count"] = old["count"] + new["count"]
        BY <2>1 DEF Added
    <3>3. QED
        BY <2>3, <3>1, <3>2 DEF LatencyUpsert
  <2>5. ConsistentLatency(LatencyUpsert(old, new))
      BY <1>1, <2>4, LatencyCombined DEF Consistent
  <2>6. QED
      BY <1>1, <2>2, <2>5 DEF Consistent
<1>2. CASE t = "pool"
  <2>1. Upsert(t, old, new) = Added(old, new)
      BY <1>2 DEF Upsert, PoolUpsert
  <2>2. DOMAIN old = Columns("pool")
      BY <1>2
  <2>3. \A c \in Columns("pool") : Added(old, new)[c] = old[c] + new[c]
      BY <2>2 DEF Added
  <2>4. ConsistentPool(Added(old, new))
      BY <1>2, <2>3, PoolCombined DEF Consistent
  <2>5. QED
      BY <1>2, <2>1, <2>4 DEF Consistent
<1>3. CASE t # "latency" /\ t # "pool"
    BY <1>3 DEF Consistent
<1>4. QED
    BY <1>1, <1>2, <1>3

LEMMA ZeroConsistent ==
    ASSUME NEW t PROVE Consistent(t, Zero(t))
<1>1. CASE t = "latency"
  <2>1. \A c \in {"count", "sum", "max", "last"} : Zero(t)[c] = 0
      BY <1>1, LatencyColumns DEF Zero
  <2>2. QED
      BY <1>1, <2>1 DEF Consistent, ConsistentLatency
<1>2. CASE t = "pool"
  <2>1. \A c \in PoolColumns \cup {"count"} : Zero(t)[c] = 0
      BY <1>2, PoolColumnsOf DEF Zero
  <2>2. QED
      BY <1>2, <2>1 DEF Consistent, ConsistentPool, PoolColumns
<1>3. CASE t # "latency" /\ t # "pool"
    BY <1>3 DEF Consistent
<1>4. QED
    BY <1>1, <1>2, <1>3

ConsistentRows(f) == \A r \in Rows : Consistent(r.table, f[r])
ConsistentInv ==
    /\ ConsistentRows(buffer) /\ ConsistentRows(taken)
    /\ \A db \in Backends : ConsistentRows(stored[db])

\* The ways in which a step treats the buffer and the flush's hand.
LEMMA BufferSteps ==
    ASSUME CountInv, [Next]_vars
    PROVE  \/ UNCHANGED <<buffer, taken>>
           \/ \E r \in Rows : Counting(r)
           \/ taken' = buffer /\ buffer' = Empty
           \/ UNCHANGED buffer /\ \E r \in Rows : taken' = [taken EXCEPT ![r] = Zero(r.table)]
           \/ taken' = Empty /\ buffer' = Empty
<1>1. CASE Record
    BY <1>1, RecordCounts DEF CountInv, Counts
<1>2. CASE FlushTake
    BY <1>2 DEF FlushTake
<1>3. CASE \E r \in Present(taken), ok \in BOOLEAN : FlushRollup(r, ok)
    BY <1>3 DEF FlushRollup, bufferVars, Present
<1>4. CASE \E t \in Queues, ok \in BOOLEAN : FlushItem(t, ok)
    BY <1>4 DEF FlushItem, bufferVars
<1>5. CASE FlushPrune \/ FlushDone
    BY <1>5 DEF FlushPrune, FlushDone, bufferVars
<1>6. CASE ClearPending \/ ClearRecent \/ \E ok \in BOOLEAN : ClearStored(ok)
    BY <1>6 DEF ClearPending, ClearRecent, ClearStored, bufferVars, flushVars
<1>7. CASE Tick
    BY <1>7 DEF Tick, bufferVars, flushVars
<1>8. CASE Crash
    BY <1>8 DEF Crash
<1>9. CASE \E db \in Backends : Restart(db)
    BY <1>9 DEF Restart, bufferVars
<1>10. CASE UNCHANGED vars
    BY <1>10 DEF vars, bufferVars, flushVars
<1>11. CASE Finish
    BY <1>11, FinishCounts DEF Counts
<1>12. QED
    BY <1>1, <1>2, <1>3, <1>4, <1>5, <1>6, <1>7, <1>8, <1>9, <1>10, <1>11 DEF Next, Flush

LEMMA BufferConsistent ==
    ASSUME CountInv, ConsistentInv, [Next]_vars
    PROVE  ConsistentRows(buffer') /\ ConsistentRows(taken')
<1>1. ConsistentRows(Empty)
    BY ZeroConsistent DEF ConsistentRows, Empty
<1>2. ConsistentRows(buffer) /\ ConsistentRows(taken)
    BY DEF ConsistentInv
<1>3. ASSUME NEW r \in Rows, Counting(r)
      PROVE  ConsistentRows(buffer') /\ ConsistentRows(taken')
  <2>1. PICK v \in Unit(r.table) : buffer' = [buffer EXCEPT ![r] = Merge(@, v)]
      BY <1>3 DEF Counting
  <2>2. v \in [Columns(r.table) -> Nat] /\ Consistent(r.table, v)
      BY DEF Unit
  <2>3. buffer[r] \in [Columns(r.table) -> Nat] /\ DOMAIN buffer = Rows
      BY DEF CountInv, CountTypes, RowValues
  <2>4. Consistent(r.table, Merge(buffer[r], v))
      BY <1>2, <2>2, <2>3, MergeConsistent, RowTable DEF ConsistentRows
  <2>5. \A q \in Rows : buffer'[q] = IF q = r THEN Merge(buffer[r], v) ELSE buffer[q]
      BY <2>1, <2>3
  <2>6. taken' = taken
      BY <1>3 DEF Counting
  <2>7. QED
      BY <1>2, <2>4, <2>5, <2>6 DEF ConsistentRows
<1>4. ASSUME NEW r \in Rows, taken' = [taken EXCEPT ![r] = Zero(r.table)]
      PROVE  ConsistentRows(taken')
  <2>1. DOMAIN taken = Rows
      BY DEF CountInv, CountTypes, RowValues
  <2>2. \A q \in Rows : taken'[q] = IF q = r THEN Zero(r.table) ELSE taken[q]
      BY <1>4, <2>1
  <2>3. QED
      BY <1>2, <2>2, ZeroConsistent DEF ConsistentRows
<1>5. QED
    BY <1>1, <1>2, <1>3, <1>4, BufferSteps

LEMMA StoredConsistent ==
    ASSUME CountInv, ConsistentInv, [Next]_vars
    PROVE  \A db \in Backends : ConsistentRows(stored'[db])
<1> SUFFICES ASSUME NEW d \in Backends, NEW q \in Rows
             PROVE  Consistent(q.table, stored'[d][q])
    BY DEF ConsistentRows
<1>1. Consistent(q.table, stored[d][q]) /\ Consistent(q.table, taken[q])
    BY DEF ConsistentInv, ConsistentRows
<1>2. CASE UNCHANGED stored
    BY <1>1, <1>2
<1>3. ASSUME NEW db \in Backends, Prune(db)
      PROVE  Consistent(q.table, stored'[d][q])
  <2>1. stored'[d][q] = stored[d][q] \/ stored'[d][q] = Zero(q.table)
      BY <1>3, PrunedIsOld DEF CountInv
  <2>2. QED
      BY <1>1, <2>1, ZeroConsistent
<1>4. ASSUME NEW r \in Present(taken), NEW ok \in BOOLEAN, FlushRollup(r, ok)
      PROVE  Consistent(q.table, stored'[d][q])
  <2>1. \/ stored'[d][q] = stored[d][q]
        \/ stored'[d][q] = Upsert(q.table, stored[d][q], taken[q])
      BY <1>4, RollupWritten
  <2>2. /\ taken[q] \in [Columns(q.table) -> Nat]
        /\ stored[d][q] \in [Columns(q.table) -> Nat]
      BY DEF CountInv, CountTypes, RowValues
  <2>3. Consistent(q.table, Upsert(q.table, stored[d][q], taken[q]))
      BY <1>1, <2>2, UpsertConsistent, RowTable
  <2>4. QED
      BY <1>1, <2>1, <2>3
<1>5. QED
    BY <1>2, <1>3, <1>4, StoredSteps

LEMMA ConsistentRollups ==
    ASSUME ConsistentInv PROVE RollupsConsistent
    BY DEF ConsistentInv, ConsistentRows, Consistent, RollupsConsistent

LEMMA ConsistentInit ==
    ASSUME Init PROVE ConsistentInv
<1>1. ConsistentRows(Empty)
    BY ZeroConsistent DEF ConsistentRows, Empty
<1>2. buffer = Empty /\ taken = Empty /\ \A db \in Backends : stored[db] = Empty
    BY DEF Init, Idle
<1>3. QED
    BY <1>1, <1>2 DEF ConsistentInv

\* The columns of a rollup row agree in the buffer, in the flush's hand and in
\* both databases: the merges of dashboard.rs and the ON CONFLICT clauses of
\* storage.rs keep the average latency and the last sample below the maximum,
\* and the partial stages of a pool below the full ones.
THEOREM RollupColumnsAgree == Spec => []RollupsConsistent
<1>1. Init => CountInv /\ ConsistentInv
    BY CountInit, ConsistentInit
<1>2. CountInv /\ ConsistentInv /\ [Next]_vars => CountInv' /\ ConsistentInv'
  <2> SUFFICES ASSUME CountInv, ConsistentInv, [Next]_vars
               PROVE  CountInv' /\ ConsistentInv'
      OBVIOUS
  <2>1. CountInv'
      BY CountStep
  <2>2. ConsistentInv'
      BY BufferConsistent, StoredConsistent DEF ConsistentInv, ConsistentRows
  <2>3. QED
      BY <2>1, <2>2
<1>3. ConsistentInv => RollupsConsistent
    BY ConsistentRollups
<1>4. QED
    BY <1>1, <1>2, <1>3, PTL DEF Spec

-----------------------------------------------------------------------------
(* A clear: which events can be in the table afterwards.                    *)

Ids == Nat \ {0}
Entries == [id : Ids, at : Int]

ClearTypes ==
    /\ records \in Nat
    /\ clearing \in {"no", "stored", "recent"}
    /\ cleared \in [db : Backends, before : Nat, raced : SUBSET Ids]
    /\ DOMAIN queue = Queues /\ queue["events"] \in Seq(Ids)
    /\ DOMAIN inHand = Queues /\ inHand["events"] \in Seq(Ids)
    /\ DOMAIN logs = Backends
    /\ \A db \in Backends : DOMAIN logs[db] = LogTables /\ logs[db]["events"] \in Seq(Entries)

\* While a clear is under way the process that began it is still running.
ClearsItsOwn == clearing # "no" => backend = cleared.db

\* The buffer holds only events that were recorded after the clear began, the
\* flush's hand at most those it had when the clear began.
QueueIsNewer ==
    /\ cleared.before <= records
    /\ \A e \in ItemsOf(queue["events"]) : e > cleared.before
HandIsRaced ==
    \A e \in ItemsOf(inHand["events"]) : e <= cleared.before => e \in cleared.raced

ClearInv ==
    /\ ClearTypes /\ ClearsItsOwn /\ QueueIsNewer /\ HandIsRaced
    /\ ClearedEventsReturnOnlyByRace

LEMMA ItemsType ==
    ASSUME NEW S, NEW s \in Seq(S)
    PROVE  ItemsOf(s) \subseteq S
    BY DEF ItemsOf

LEMMA ItemsEmpty == ItemsOf(<<>>) = {}
    BY DEF ItemsOf

LEMMA ItemsAppend ==
    ASSUME NEW S, NEW s \in Seq(S), NEW x \in S
    PROVE  Append(s, x) \in Seq(S) /\ ItemsOf(Append(s, x)) \subseteq ItemsOf(s) \cup {x}
<1>1. Append(s, x) \in Seq(S) /\ Len(Append(s, x)) = Len(s) + 1
    OBVIOUS
<1>2. \A i \in 1..Len(s) + 1 : Append(s, x)[i] = IF i = Len(s) + 1 THEN x ELSE s[i]
    OBVIOUS
<1>3. DOMAIN s = 1..Len(s) /\ DOMAIN Append(s, x) = 1..Len(s) + 1 /\ Len(s) \in Nat
    BY <1>1
<1>4. QED
    BY <1>1, <1>2, <1>3 DEF ItemsOf

LEMMA ItemsTail ==
    ASSUME NEW S, NEW s \in Seq(S), s # <<>>
    PROVE  /\ Tail(s) \in Seq(S) /\ ItemsOf(Tail(s)) \subseteq ItemsOf(s)
           /\ Head(s) \in S /\ Head(s) \in ItemsOf(s)
<1>1. Tail(s) \in Seq(S) /\ Len(Tail(s)) = Len(s) - 1 /\ Len(s) \in Nat /\ Len(s) > 0
    OBVIOUS
<1>2. \A i \in 1..Len(s) - 1 : Tail(s)[i] = s[i + 1]
    OBVIOUS
<1>3. DOMAIN s = 1..Len(s) /\ DOMAIN Tail(s) = 1..Len(s) - 1
    BY <1>1
<1>4. ItemsOf(Tail(s)) \subseteq ItemsOf(s)
  <2>1. ASSUME NEW i \in 1..Len(s) - 1
        PROVE  Tail(s)[i] = s[i + 1] /\ i + 1 \in 1..Len(s)
      BY <1>1, <1>2
  <2>2. QED
      BY <1>3, <2>1 DEF ItemsOf
<1>5. Head(s) = s[1] /\ 1 \in 1..Len(s)
    BY <1>1
<1>6. Head(s) \in ItemsOf(s)
    BY <1>3, <1>5 DEF ItemsOf
<1>7. Head(s) \in S
    BY <1>6, ItemsType
<1>8. QED
    BY <1>1, <1>4, <1>6, <1>7

\* A prune takes entries away and adds none.
LEMMA ItemsUnexpired ==
    ASSUME NEW S, NEW s \in Seq(S)
    PROVE  Unexpired(s) \in Seq(S) /\ ItemsOf(Unexpired(s)) \subseteq ItemsOf(s)
<1>1. Len(s) \in Nat /\ DOMAIN s = 1..Len(s)
    OBVIOUS
<1>2. Cardinality(Expired(s)) \in Nat
  <2>1. IsFiniteSet(1..Len(s))
      BY <1>1, FS_Interval
  <2>2. Expired(s) \subseteq 1..Len(s)
      BY <1>1 DEF Expired
  <2>3. QED
      BY <2>1, <2>2, FS_Subset, FS_CardinalityType
<1> DEFINE m == Cardinality(Expired(s)) + 1
<1>3. m \in Nat \ {0} /\ Unexpired(s) = SubSeq(s, m, Len(s))
    BY <1>2 DEF Unexpired
<1> HIDE DEF m
<1>4. CASE m <= Len(s)
  <2>1. /\ SubSeq(s, m, Len(s)) = [i \in 1..(1 + Len(s) - m) |-> s[i + m - 1]]
      BY <1>1, <1>3, <1>4
  <2>2. \A i \in 1..(1 + Len(s) - m) : i + m - 1 \in 1..Len(s)
      BY <1>1, <1>3, <1>4
  <2>3. SubSeq(s, m, Len(s)) \in Seq(S)
      BY <1>1, <1>3, <1>4
  <2>4. ItemsOf(SubSeq(s, m, Len(s))) \subseteq ItemsOf(s)
      BY <1>1, <2>1, <2>2 DEF ItemsOf
  <2>5. QED
      BY <1>3, <2>3, <2>4
<1>5. CASE m > Len(s)
  <2>1. SubSeq(s, m, Len(s)) = <<>>
      BY <1>1, <1>3, <1>5
  <2>2. QED
      BY <1>3, <2>1, ItemsEmpty
<1>6. QED
    BY <1>1, <1>3, <1>4, <1>5

\* What a recording function may add to the buffered events: itself.
LEMMA RecordQueue ==
    ASSUME ClearTypes, Record
    PROVE  /\ UNCHANGED <<inHand, logs, cleared, clearing, backend>>
           /\ records' = records + 1
           /\ DOMAIN queue' = Queues
           /\ \/ queue'["events"] = queue["events"]
              \/ queue'["events"] = Append(queue["events"], records + 1)
<1> USE DEF ClearTypes
<1>1. ASSUME NEW call, Recording(call)
      PROVE  UNCHANGED <<inHand, logs, cleared, clearing, backend>> /\ records' = records + 1
    BY <1>1 DEF Recording, flushVars, storeVars, clearVars, procVars
<1>2. ASSUME NEW t \in Queues, NEW x, t # "events", Push(t, x)
      PROVE  DOMAIN queue' = Queues /\ queue'["events"] = queue["events"]
    BY <1>2 DEF Push
<1>3. CASE Event
    BY <1>1, <1>3 DEF Event, Push, Queues, LogTables
<1>4. CASE \E n \in Names["latency"], d \in Durations : RecordLatency(n, d)
    BY <1>1, <1>2, <1>4 DEF RecordLatency, Queues, LogTables
<1>5. CASE \E n \in Names["reject"] : RecordRejectReason(n)
    BY <1>1, <1>5 DEF RecordRejectReason
<1>6. CASE \E n \in Names["selector"] : RecordSelectorPerformance(n)
    BY <1>1, <1>6 DEF RecordSelectorPerformance
<1>7. CASE \E n \in Names["pool"], s \in PoolStages : RecordSelectorPoolPerformance(n, s)
    BY <1>1, <1>7 DEF RecordSelectorPoolPerformance
<1>8. CASE \E n \in Names["funnel"] : RecordOpportunityFunnel(n)
    BY <1>1, <1>8 DEF RecordOpportunityFunnel
<1>9. CASE \E st \in {"payload_built", "blocked", "unsupported"}, s \in Selectors :
              RecordEdgeSample(st, s)
    BY <1>1, <1>9 DEF RecordEdgeSample, bufferVars
<1>10. CASE \E r \in Relays, o \in Results : RecordRelayOutcome(r, o)
    BY <1>1, <1>2, <1>10 DEF RecordRelayOutcome, Queues
<1>11. CASE \E t \in {"treasury", "outcomes"} : RecordTrail(t)
    BY <1>1, <1>2, <1>11 DEF RecordTrail, Queues, LogTables
<1>12. CASE SetRelayRankings
    BY <1>1, <1>12 DEF SetRelayRankings, bufferVars
<1>13. QED
    BY <1>3, <1>4, <1>5, <1>6, <1>7, <1>8, <1>9, <1>10, <1>11, <1>12 DEF Record

LEMMA ClearRecordStep ==
    ASSUME ClearInv, Record
    PROVE  ClearInv'
<1>1. ClearTypes /\ ClearsItsOwn /\ QueueIsNewer /\ HandIsRaced /\ ClearedEventsReturnOnlyByRace
    BY DEF ClearInv
<1>2. /\ UNCHANGED <<inHand, logs, cleared, clearing, backend>>
      /\ records' = records + 1
      /\ DOMAIN queue' = Queues
      /\ \/ queue'["events"] = queue["events"]
         \/ queue'["events"] = Append(queue["events"], records + 1)
    BY <1>1, RecordQueue
<1>3. records \in Nat /\ cleared.before \in Nat /\ records + 1 \in Ids
    BY <1>1 DEF ClearTypes, Ids
<1>4. /\ queue'["events"] \in Seq(Ids)
      /\ ItemsOf(queue'["events"]) \subseteq ItemsOf(queue["events"]) \cup {records + 1}
  <2>1. queue["events"] \in Seq(Ids)
      BY <1>1 DEF ClearTypes
  <2>2. /\ Append(queue["events"], records + 1) \in Seq(Ids)
        /\ ItemsOf(Append(queue["events"], records + 1))
             \subseteq ItemsOf(queue["events"]) \cup {records + 1}
      BY <1>3, <2>1, ItemsAppend
  <2>3. QED
      BY <1>2, <2>1, <2>2
<1>5. ClearTypes'
    BY <1>1, <1>2, <1>3, <1>4 DEF ClearTypes
<1>6. QueueIsNewer'
    BY <1>1, <1>2, <1>3, <1>4 DEF QueueIsNewer
<1>7. ClearsItsOwn' /\ HandIsRaced' /\ ClearedEventsReturnOnlyByRace'
    BY <1>1, <1>2 DEF ClearsItsOwn, HandIsRaced, ClearedEventsReturnOnlyByRace
<1>8. QED
    BY <1>5, <1>6, <1>7 DEF ClearInv

LEMMA ClearTakeStep ==
    ASSUME ClearInv, FlushTake
    PROVE  ClearInv'
<1>1. ClearTypes /\ ClearsItsOwn /\ QueueIsNewer /\ HandIsRaced /\ ClearedEventsReturnOnlyByRace
    BY DEF ClearInv
<1>2. /\ UNCHANGED <<logs, cleared, clearing, backend, records>> /\ queue' = NoItems
      /\ inHand' = [queue EXCEPT !["events"] = IF Enabled("events") THEN @ ELSE <<>>]
    BY DEF FlushTake, storeVars, clearVars, procVars
<1>3. "events" \in Queues
    BY DEF Queues, LogTables
<1>4. DOMAIN queue' = Queues /\ queue'["events"] = <<>>
    BY <1>2, <1>3 DEF NoItems
<1>5. /\ DOMAIN inHand' = Queues
      /\ inHand'["events"] = queue["events"] \/ inHand'["events"] = <<>>
    BY <1>1, <1>2, <1>3 DEF ClearTypes
<1>6. ClearTypes'
    BY <1>1, <1>2, <1>4, <1>5 DEF ClearTypes
<1>7. QueueIsNewer'
    BY <1>1, <1>2, <1>4, ItemsEmpty DEF QueueIsNewer
<1>8. HandIsRaced'
  <2>1. \A e \in ItemsOf(queue["events"]) : e \in Nat /\ e > cleared.before
      BY <1>1, ItemsType DEF ClearTypes, QueueIsNewer, Ids
  <2>2. cleared.before \in Nat
      BY <1>1 DEF ClearTypes
  <2>3. \A e \in ItemsOf(inHand'["events"]) : ~(e <= cleared.before)
      BY <1>5, <2>1, <2>2, ItemsEmpty
  <2>4. QED
      BY <1>2, <2>3 DEF HandIsRaced
<1>9. ClearsItsOwn' /\ ClearedEventsReturnOnlyByRace'
    BY <1>1, <1>2 DEF ClearsItsOwn, ClearedEventsReturnOnlyByRace
<1>10. QED
    BY <1>6, <1>7, <1>8, <1>9 DEF ClearInv

LEMMA ClearItemStep ==
    ASSUME CountInv, ClearInv, NEW t \in Queues, NEW ok \in BOOLEAN, FlushItem(t, ok)
    PROVE  ClearInv'
<1>1. ClearTypes /\ ClearsItsOwn /\ QueueIsNewer /\ HandIsRaced /\ ClearedEventsReturnOnlyByRace
    BY DEF ClearInv
<1>2. /\ UNCHANGED <<queue, cleared, clearing, backend, records>>
      /\ inHand' = [inHand EXCEPT ![t] = Tail(@)]
      /\ backend \in Backends /\ clock \in Int
    BY DEF FlushItem, bufferVars, clearVars, Up, CountInv, CountTypes
<1>3. CASE t # "events"
  <2>1. /\ DOMAIN inHand' = Queues /\ inHand'["events"] = inHand["events"]
      BY <1>1, <1>2, <1>3 DEF ClearTypes
  <2>2. /\ DOMAIN logs' = Backends
        /\ \A db \in Backends : /\ DOMAIN logs'[db] = LogTables
                                /\ logs'[db]["events"] = logs[db]["events"]
    <3>1. CASE UNCHANGED logs
        BY <1>1, <3>1 DEF ClearTypes
    <3>2. ASSUME NEW u \in LogTables, NEW x, u # "events", Logged(u, x)
          PROVE  <2>2!1 /\ <2>2!2
        BY <1>1, <1>2, <3>2 DEF Logged, ClearTypes
    <3>3. QED
        BY <1>3, <3>1, <3>2 DEF FlushItem, Store, LogEvent, LogTelemetry, StoreTreasury,
                                StoreOutcome, StoreRelay, StoreUnsupported, LogTables
  <2>3. ClearTypes'
      BY <1>1, <1>2, <2>1, <2>2 DEF ClearTypes
  <2>4. HandIsRaced' /\ QueueIsNewer' /\ ClearsItsOwn'
      BY <1>1, <1>2, <2>1 DEF HandIsRaced, QueueIsNewer, ClearsItsOwn
  <2>5. cleared.db \in Backends
      BY <1>1 DEF ClearTypes
  <2>6. ClearedEventsReturnOnlyByRace'
      BY <1>1, <1>2, <2>2, <2>5 DEF ClearedEventsReturnOnlyByRace
  <2>7. QED
      BY <2>3, <2>4, <2>6 DEF ClearInv
<1>4. CASE t = "events"
  <2> DEFINE hand == inHand["events"]
  <2>1. hand # <<>>
      BY <1>4 DEF FlushItem, Turn, Left, Rollups
  <2>2. /\ DOMAIN inHand' = Queues /\ inHand'["events"] = Tail(hand)
      BY <1>1, <1>2, <1>4 DEF ClearTypes
  <2>3. hand \in Seq(Ids)
      BY <1>1 DEF ClearTypes
  <2>4. /\ Tail(hand) \in Seq(Ids) /\ ItemsOf(Tail(hand)) \subseteq ItemsOf(hand)
        /\ Head(hand) \in Ids /\ Head(hand) \in ItemsOf(hand)
      BY <2>1, <2>3, ItemsTail
  <2> DEFINE entry == [id |-> Head(hand), at |-> clock]
  <2>5. entry \in Entries
      BY <1>2, <2>4 DEF Entries
  <2>6. \/ UNCHANGED logs
        \/ logs' = [logs EXCEPT ![backend]["events"] = Append(@, entry)]
      BY <1>4 DEF FlushItem, Store, LogEvent, Logged
  <2>7. ASSUME NEW db \in Backends
        PROVE  /\ DOMAIN logs'[db] = LogTables /\ logs'[db]["events"] \in Seq(Entries)
               /\ ItemsOf(logs'[db]["events"]) \subseteq ItemsOf(logs[db]["events"]) \cup {entry}
    <3>1. \/ logs'[db] = logs[db]
          \/ logs'[db] = [logs[db] EXCEPT !["events"] = Append(@, entry)]
        BY <1>1, <1>2, <2>6 DEF ClearTypes
    <3>2. /\ DOMAIN logs[db] = LogTables /\ logs[db]["events"] \in Seq(Entries)
          /\ "events" \in LogTables
        BY <1>1 DEF ClearTypes, LogTables
    <3>3. /\ Append(logs[db]["events"], entry) \in Seq(Entries)
          /\ ItemsOf(Append(logs[db]["events"], entry)) \subseteq ItemsOf(logs[db]["events"]) \cup {entry}
        BY <2>5, <3>2, ItemsAppend
    <3> HIDE DEF entry
    <3>4. \/ logs'[db] = logs[db]
          \/ DOMAIN logs'[db] = LogTables /\ logs'[db]["events"] = Append(logs[db]["events"], entry)
        BY <3>1, <3>2
    <3>5. QED
        BY <3>2, <3>3, <3>4
  <2>8. DOMAIN logs' = Backends
      BY <1>1, <2>6 DEF ClearTypes
  <2>9. entry.id = Head(hand)
      OBVIOUS
  <2> HIDE DEF entry, hand
  <2>10. ClearTypes'
      BY <1>1, <1>2, <2>2, <2>4, <2>7, <2>8 DEF ClearTypes
  <2>11. HandIsRaced' /\ QueueIsNewer' /\ ClearsItsOwn'
      BY <1>1, <1>2, <2>2, <2>4 DEF HandIsRaced, QueueIsNewer, ClearsItsOwn, hand
  <2>12. entry.id <= cleared.before => entry.id \in cleared.raced
      BY <1>1, <2>4, <2>9 DEF HandIsRaced, hand
  <2>13. cleared.db \in Backends
      BY <1>1 DEF ClearTypes
  <2>14. ClearedEventsReturnOnlyByRace'
      BY <1>1, <1>2, <2>7, <2>12, <2>13 DEF ClearedEventsReturnOnlyByRace
  <2>15. QED
      BY <2>10, <2>11, <2>14 DEF ClearInv
<1>5. QED
    BY <1>3, <1>4

\* What a prune leaves of the events of a database.
LEMMA PrunedEvents ==
    ASSUME ClearTypes, NEW db \in Backends, Prune(db)
    PROVE  /\ DOMAIN logs' = Backends
           /\ \A d \in Backends :
                /\ DOMAIN logs'[d] = LogTables /\ logs'[d]["events"] \in Seq(Entries)
                /\ ItemsOf(logs'[d]["events"]) \subseteq ItemsOf(logs[d]["events"])
<1>1. PICK n \in 0..Len(PruneOrder) : logs' = PrunedLogs(db, n)
    BY DEF Prune
<1>2. /\ DOMAIN logs' = Backends
      /\ logs'[db] = [t \in LogTables |->
                        IF t \in Reached(n) THEN Unexpired(logs[db][t]) ELSE logs[db][t]]
      /\ \A d \in Backends : d # db => logs'[d] = logs[d]
    BY <1>1 DEF PrunedLogs, ClearTypes
<1>3. DOMAIN logs'[db] = LogTables /\ "events" \in LogTables
    BY <1>2 DEF LogTables
<1>4. \/ logs'[db]["events"] = Unexpired(logs[db]["events"])
      \/ logs'[db]["events"] = logs[db]["events"]
    BY <1>2, <1>3
<1>5. \A d \in Backends : DOMAIN logs[d] = LogTables /\ logs[d]["events"] \in Seq(Entries)
    BY DEF ClearTypes
<1>6. /\ Unexpired(logs[db]["events"]) \in Seq(Entries)
      /\ ItemsOf(Unexpired(logs[db]["events"])) \subseteq ItemsOf(logs[db]["events"])
    BY <1>5, ItemsUnexpired
<1>7. /\ logs'[db]["events"] \in Seq(Entries)
      /\ ItemsOf(logs'[db]["events"]) \subseteq ItemsOf(logs[db]["events"])
    BY <1>4, <1>5, <1>6
<1>8. QED
    BY <1>2, <1>3, <1>5, <1>7

\* A prune of a database, at the end of a flush or when the process starts.
LEMMA ClearPruneStep ==
    ASSUME ClearInv, NEW db \in Backends, Prune(db),
           UNCHANGED <<queue, inHand, cleared, clearing, records>>,
           clearing # "no" => UNCHANGED backend
    PROVE  ClearInv'
<1>1. ClearTypes /\ ClearsItsOwn /\ QueueIsNewer /\ HandIsRaced /\ ClearedEventsReturnOnlyByRace
    BY DEF ClearInv
<1>2. /\ DOMAIN logs' = Backends
      /\ \A d \in Backends :
           /\ DOMAIN logs'[d] = LogTables /\ logs'[d]["events"] \in Seq(Entries)
           /\ ItemsOf(logs'[d]["events"]) \subseteq ItemsOf(logs[d]["events"])
    BY <1>1, PrunedEvents
<1>3. ClearTypes'
    BY <1>1, <1>2 DEF ClearTypes
<1>4. ClearsItsOwn' /\ QueueIsNewer' /\ HandIsRaced'
    BY <1>1 DEF ClearsItsOwn, QueueIsNewer, HandIsRaced
<1>5. cleared.db \in Backends
    BY <1>1 DEF ClearTypes
<1>6. ClearedEventsReturnOnlyByRace'
    BY <1>1, <1>2, <1>5 DEF ClearedEventsReturnOnlyByRace
<1>7. QED
    BY <1>3, <1>4, <1>6 DEF ClearInv

LEMMA ClearPendingStep ==
    ASSUME CountInv, ClearInv, ClearPending
    PROVE  ClearInv'
<1>1. ClearTypes
    BY DEF ClearInv
<1>2. /\ UNCHANGED <<inHand, logs, backend, records>> /\ clearing' = "stored"
      /\ queue' = [queue EXCEPT !["events"] = <<>>]
      /\ cleared' = [db |-> backend, before |-> records, raced |-> ItemsOf(inHand["events"])]
      /\ backend \in Backends
    BY DEF ClearPending, flushVars, storeVars, procVars, Up, CountInv, CountTypes
<1>3. DOMAIN queue' = Queues /\ queue'["events"] = <<>>
    BY <1>1, <1>2 DEF ClearTypes, Queues, LogTables
<1>4. ItemsOf(inHand["events"]) \subseteq Ids /\ records \in Nat
    BY <1>1, ItemsType DEF ClearTypes
<1>5. /\ cleared'.db = backend /\ cleared'.before = records
      /\ cleared'.raced = ItemsOf(inHand["events"])
      /\ cleared' \in [db : Backends, before : Nat, raced : SUBSET Ids]
    BY <1>2, <1>4
<1>6. ClearTypes'
    BY <1>1, <1>2, <1>3, <1>5 DEF ClearTypes
<1>7. ClearsItsOwn' /\ HandIsRaced' /\ ClearedEventsReturnOnlyByRace'
    BY <1>2, <1>5 DEF ClearsItsOwn, HandIsRaced, ClearedEventsReturnOnlyByRace
<1>8. QueueIsNewer'
    BY <1>2, <1>3, <1>4, <1>5, ItemsEmpty DEF QueueIsNewer
<1>9. QED
    BY <1>6, <1>7, <1>8 DEF ClearInv

\* A request to clear that is given up, by an error or with the process: the
\* clear has nothing to remove any more.
LEMMA ClearGivenUp ==
    ASSUME ClearInv, DOMAIN queue' = Queues, DOMAIN inHand' = Queues,
           queue'["events"] = queue["events"] \/ queue'["events"] = <<>>,
           inHand'["events"] = inHand["events"] \/ inHand'["events"] = <<>>,
           UNCHANGED <<logs, records>>, clearing' = "no",
           \/ cleared' = [cleared EXCEPT !.before = 0]
           \/ clearing # "stored" /\ cleared' = cleared
    PROVE  ClearInv'
<1>1. ClearTypes /\ ClearsItsOwn /\ QueueIsNewer /\ HandIsRaced /\ ClearedEventsReturnOnlyByRace
    BY DEF ClearInv
<1>2. /\ cleared' \in [db : Backends, before : Nat, raced : SUBSET Ids]
      /\ cleared'.db = cleared.db /\ cleared'.raced = cleared.raced
      /\ \/ cleared'.before = 0
         \/ clearing # "stored" /\ cleared'.before = cleared.before
  <2>1. cleared \in [db : Backends, before : Nat, raced : SUBSET Ids]
      BY <1>1 DEF ClearTypes
  <2>2. CASE cleared' = [cleared EXCEPT !.before = 0]
      BY <2>1, <2>2
  <2>3. CASE clearing # "stored" /\ cleared' = cleared
      BY <2>1, <2>3
  <2>4. QED
      BY <2>2, <2>3
<1>3. ClearTypes'
  <2>1. queue'["events"] \in Seq(Ids) /\ inHand'["events"] \in Seq(Ids)
    <3>1. queue["events"] \in Seq(Ids) /\ inHand["events"] \in Seq(Ids)
        BY <1>1 DEF ClearTypes
    <3>2. <<>> \in Seq(Ids)
        OBVIOUS
    <3>3. QED
        BY <3>1, <3>2, Zenon
  <2>2. QED
      BY <1>1, <1>2, <2>1 DEF ClearTypes
<1>4. ClearsItsOwn'
    BY DEF ClearsItsOwn
<1>5. /\ ItemsOf(queue'["events"]) \subseteq ItemsOf(queue["events"])
      /\ ItemsOf(inHand'["events"]) \subseteq ItemsOf(inHand["events"])
    BY ItemsEmpty
<1>6. /\ ItemsOf(queue["events"]) \subseteq Ids /\ ItemsOf(inHand["events"]) \subseteq Ids
      /\ ItemsOf(logs[cleared.db]["events"]) \subseteq Entries
  <2>1. /\ queue["events"] \in Seq(Ids) /\ inHand["events"] \in Seq(Ids)
        /\ logs[cleared.db]["events"] \in Seq(Entries)
      BY <1>1 DEF ClearTypes
  <2>2. QED
      BY <2>1, ItemsType
<1>7. QueueIsNewer'
    BY <1>1, <1>2, <1>5, <1>6 DEF QueueIsNewer, ClearTypes, Ids
<1>8. HandIsRaced'
    BY <1>1, <1>2, <1>5, <1>6 DEF HandIsRaced, Ids
<1>9. ClearedEventsReturnOnlyByRace'
  <2> SUFFICES ASSUME NEW e \in ItemsOf(logs[cleared.db]["events"]), e.id <= cleared'.before
               PROVE  e.id \in cleared.raced
      BY <1>2 DEF ClearedEventsReturnOnlyByRace
  <2>1. e.id \in Nat /\ e.id > 0
      BY <1>6 DEF Entries, Ids
  <2>2. cleared'.before # 0
      BY <2>1
  <2>3. QED
      BY <1>1, <1>2, <2>2 DEF ClearedEventsReturnOnlyByRace
<1>10. QED
    BY <1>3, <1>4, <1>7, <1>8, <1>9 DEF ClearInv

LEMMA ClearStoredStep ==
    ASSUME ClearInv, NEW ok \in BOOLEAN, ClearStored(ok)
    PROVE  ClearInv'
<1>1. ClearTypes /\ ClearsItsOwn /\ QueueIsNewer /\ HandIsRaced /\ ClearedEventsReturnOnlyByRace
    BY DEF ClearInv
<1>2. UNCHANGED <<queue, inHand, backend, records>> /\ clearing = "stored"
    BY DEF ClearStored, bufferVars, flushVars, procVars
<1>3. CASE ok
  <2>1. /\ logs' = [logs EXCEPT ![backend]["events"] = <<>>]
        /\ UNCHANGED cleared /\ clearing' = "recent"
      BY <1>3 DEF ClearStored
  <2>2. backend = cleared.db /\ cleared.db \in Backends
      BY <1>1, <1>2 DEF ClearsItsOwn, ClearTypes
  <2>3. /\ DOMAIN logs' = Backends
        /\ \A d \in Backends :
             /\ DOMAIN logs'[d] = LogTables /\ logs'[d]["events"] \in Seq(Entries)
        /\ logs'[cleared.db]["events"] = <<>>
      BY <1>1, <2>1, <2>2 DEF ClearTypes, LogTables
  <2>4. ClearTypes'
      BY <1>1, <1>2, <2>1, <2>3 DEF ClearTypes
  <2>5. ClearsItsOwn' /\ QueueIsNewer' /\ HandIsRaced'
      BY <1>1, <1>2, <2>1, <2>2 DEF ClearsItsOwn, QueueIsNewer, HandIsRaced
  <2>6. ClearedEventsReturnOnlyByRace'
      BY <2>1, <2>3, ItemsEmpty DEF ClearedEventsReturnOnlyByRace
  <2>7. QED
      BY <2>4, <2>5, <2>6 DEF ClearInv
<1>4. CASE ~ok
  <2>1. UNCHANGED logs /\ clearing' = "no" /\ cleared' = [cleared EXCEPT !.before = 0]
      BY <1>4 DEF ClearStored
  <2>2. QED
      BY <1>1, <1>2, <2>1, ClearGivenUp DEF ClearTypes
<1>5. QED
    BY <1>3, <1>4

LEMMA ClearCrashStep ==
    ASSUME ClearInv, Crash
    PROVE  ClearInv'
<1>1. /\ queue' = NoItems /\ inHand' = NoItems /\ UNCHANGED <<logs, records>>
      /\ clearing' = "no"
      /\ cleared' = [cleared EXCEPT !.before = IF clearing = "stored" THEN 0 ELSE @]
    BY DEF Crash, storeVars
<1>2. DOMAIN NoItems = Queues /\ NoItems["events"] = <<>>
    BY DEF NoItems, Queues, LogTables
<1>3. \/ cleared' = [cleared EXCEPT !.before = 0]
      \/ clearing # "stored" /\ cleared' = cleared
    BY <1>1 DEF ClearInv, ClearTypes
<1>4. QED
    BY <1>1, <1>2, <1>3, ClearGivenUp

\* No clear is under way while the process is down.
LEMMA ClearRestartStep ==
    ASSUME ClearInv, NEW db \in Backends, Restart(db)
    PROVE  ClearInv'
<1>1. /\ backend = "down" /\ Prune(db)
      /\ UNCHANGED <<queue, inHand, cleared, clearing, records>>
    BY DEF Restart, bufferVars, clearVars
<1>2. clearing = "no"
    BY <1>1 DEF ClearInv, ClearsItsOwn, ClearTypes, Backends
<1>3. QED
    BY <1>1, <1>2, ClearPruneStep

\* The steps that have no part in a clear.
LEMMA ClearOtherStep ==
    ASSUME ClearInv, UNCHANGED <<inHand, logs, cleared, backend, records>>,
           DOMAIN queue' = DOMAIN queue, queue'["events"] = queue["events"],
           \/ clearing' = clearing
           \/ clearing = "recent" /\ clearing' = "no"
    PROVE  ClearInv'
<1>1. ClearTypes /\ ClearsItsOwn /\ QueueIsNewer /\ HandIsRaced /\ ClearedEventsReturnOnlyByRace
    BY DEF ClearInv
<1>2. ClearTypes'
    BY <1>1 DEF ClearTypes
<1>3. ClearsItsOwn' /\ QueueIsNewer' /\ HandIsRaced'
    BY <1>1 DEF ClearsItsOwn, QueueIsNewer, HandIsRaced
<1>4. ClearedEventsReturnOnlyByRace'
    BY <1>1 DEF ClearedEventsReturnOnlyByRace
<1>5. QED
    BY <1>2, <1>3, <1>4 DEF ClearInv

\* Nor has the second lock of a recording call: the event is in the buffer
\* since the first.
LEMMA ClearFinishStep ==
    ASSUME ClearInv, Finish PROVE ClearInv'
<1>1. UNCHANGED <<inHand, logs, cleared, clearing, backend, records>>
    BY DEF Finish, EventShown, RejectListed, FunnelCounted, UnsupportedBuffered, ExecutorListed,
           bufferVars, flushVars, storeVars, clearVars, procVars
<1>2. DOMAIN queue' = DOMAIN queue /\ queue'["events"] = queue["events"]
  <2>1. CASE \E s \in Selectors : UnsupportedBuffered(s)
      BY <2>1 DEF UnsupportedBuffered, Push, ClearInv, ClearTypes
  <2>2. CASE ~\E s \in Selectors : UnsupportedBuffered(s)
    <3>1. UNCHANGED queue
        BY <2>2 DEF Finish, EventShown, RejectListed, FunnelCounted, ExecutorListed, bufferVars
    <3>2. QED
        BY <3>1
  <2>3. QED
      BY <2>1, <2>2
<1>3. QED
    BY <1>1, <1>2, ClearOtherStep

LEMMA ClearStep ==
    ASSUME CountInv, ClearInv, [Next]_vars
    PROVE  ClearInv'
<1>1. CASE Record
    BY <1>1, ClearRecordStep
<1>2. CASE FlushTake
    BY <1>2, ClearTakeStep
<1>3. CASE \E t \in Queues, ok \in BOOLEAN : FlushItem(t, ok)
    BY <1>3, ClearItemStep
<1>4. CASE FlushPrune
  <2>1. /\ UNCHANGED <<queue, inHand, cleared, clearing, records, backend>>
        /\ backend \in Backends /\ (Prune(backend) \/ UNCHANGED logs)
      BY <1>4 DEF FlushPrune, bufferVars, clearVars, Up, CountInv, CountTypes
  <2>2. QED
      BY <2>1, ClearPruneStep, ClearOtherStep
<1>5. CASE (\E r \in Present(taken), ok \in BOOLEAN : FlushRollup(r, ok)) \/ FlushDone \/ Tick
  <2>1. UNCHANGED <<queue, inHand, logs, cleared, clearing, backend, records>>
      BY <1>5 DEF FlushRollup, FlushDone, Tick, bufferVars, flushVars, storeVars, clearVars,
                  procVars
  <2>2. QED
      BY <2>1, ClearOtherStep
<1>6. CASE ClearPending
    BY <1>6, ClearPendingStep
<1>7. CASE \E ok \in BOOLEAN : ClearStored(ok)
    BY <1>7, ClearStoredStep
<1>8. CASE ClearRecent
  <2>1. /\ UNCHANGED <<queue, inHand, logs, cleared, backend, records>>
        /\ clearing = "recent" /\ clearing' = "no"
      BY <1>8 DEF ClearRecent, bufferVars, flushVars, storeVars, procVars
  <2>2. QED
      BY <2>1, ClearOtherStep
<1>9. CASE Crash
    BY <1>9, ClearCrashStep
<1>10. CASE \E db \in Backends : Restart(db)
    BY <1>10, ClearRestartStep
<1>11. CASE UNCHANGED vars
  <2>1. UNCHANGED <<queue, inHand, logs, cleared, clearing, backend, records>>
      BY <1>11 DEF vars, bufferVars, flushVars, storeVars, clearVars, procVars
  <2>2. QED
      BY <2>1, ClearOtherStep
<1>12. CASE Finish
    BY <1>12, ClearFinishStep
<1>13. QED
    BY <1>1, <1>2, <1>3, <1>4, <1>5, <1>6, <1>7, <1>8, <1>9, <1>10, <1>11, <1>12
       DEF Next, Flush

LEMMA ClearInit ==
    ASSUME Init PROVE ClearInv
<1>1. /\ records = 0 /\ clearing = "no" /\ queue = NoItems /\ inHand = NoItems
      /\ cleared = [db |-> "sqlite", before |-> 0, raced |-> {}]
      /\ logs = [db \in Backends |-> [t \in LogTables |-> <<>>]]
    BY DEF Init, Idle
<1>2. DOMAIN NoItems = Queues /\ NoItems["events"] = <<>>
    BY DEF NoItems, Queues, LogTables
<1>3. /\ DOMAIN logs = Backends
      /\ \A db \in Backends : DOMAIN logs[db] = LogTables /\ logs[db]["events"] = <<>>
    BY <1>1 DEF LogTables
<1>4. /\ cleared \in [db : Backends, before : Nat, raced : SUBSET Ids]
      /\ cleared.db \in Backends /\ cleared.before = 0
    BY <1>1 DEF Backends
<1>5. ClearTypes
  <2>1. <<>> \in Seq(Ids) /\ <<>> \in Seq(Entries)
      OBVIOUS
  <2>2. QED
      BY <1>1, <1>2, <1>3, <1>4, <2>1 DEF ClearTypes
<1>6. ClearsItsOwn /\ QueueIsNewer /\ HandIsRaced /\ ClearedEventsReturnOnlyByRace
    BY <1>1, <1>2, <1>3, <1>4, ItemsEmpty
       DEF ClearsItsOwn, QueueIsNewer, HandIsRaced, ClearedEventsReturnOnlyByRace
<1>7. QED
    BY <1>5, <1>6 DEF ClearInv

\* clear_events does not stop the flush, so an event that mem::take took before
\* the clear can be written after it; no other event from before the clear can
\* come back, whatever crashes, restarts and later flushes follow.
THEOREM OnlyRacedEventsReturn == Spec => []ClearedEventsReturnOnlyByRace
<1>1. Init => CountInv /\ ClearInv
    BY CountInit, ClearInit
<1>2. CountInv /\ ClearInv /\ [Next]_vars => CountInv' /\ ClearInv'
    BY CountStep, ClearStep
<1>3. ClearInv => ClearedEventsReturnOnlyByRace
    BY DEF ClearInv
<1>4. QED
    BY <1>1, <1>2, <1>3, PTL DEF Spec

-----------------------------------------------------------------------------
(* What waits to be written: a queue that is appended to and read in front. *)

LEMMA WaitingAppend ==
    ASSUME NEW S, NEW h \in Seq(S), NEW q \in Seq(S), NEW x \in S
    PROVE  h \o Append(q, x) = Append(h \o q, x)
<1>1. Append(q, x) = q \o <<x>> /\ <<x>> \in Seq(S) /\ h \o q \in Seq(S)
    BY AppendIsConcat, ConcatProperties
<1>2. Append(h \o q, x) = (h \o q) \o <<x>>
    BY <1>1, AppendIsConcat
<1>3. (h \o q) \o <<x>> = h \o (q \o <<x>>)
    BY <1>1, ConcatAssociative
<1>4. QED
    BY <1>1, <1>2, <1>3

LEMMA WaitingTail ==
    ASSUME NEW S, NEW h \in Seq(S), NEW q \in Seq(S), h # <<>>
    PROVE  /\ h \o q \in Seq(S) /\ h \o q # <<>>
           /\ Tail(h) \o q = Tail(h \o q) /\ Head(h \o q) = Head(h)
<1>1. /\ Len(h) \in Nat \ {0} /\ Len(q) \in Nat
      /\ Tail(h) \in Seq(S) /\ Len(Tail(h)) = Len(h) - 1
      /\ \A i \in 1..Len(h) - 1 : Tail(h)[i] = h[i + 1]
    BY EmptySeq, LenProperties, HeadTailProperties
<1>2. /\ h \o q \in Seq(S) /\ Len(h \o q) = Len(h) + Len(q)
      /\ \A i \in 1..Len(h) + Len(q) : (h \o q)[i] = IF i <= Len(h) THEN h[i] ELSE q[i - Len(h)]
    BY ConcatProperties
<1>3. h \o q # <<>>
    BY <1>1, <1>2, EmptySeq
<1>4. /\ Tail(h \o q) \in Seq(S) /\ Len(Tail(h \o q)) = Len(h) + Len(q) - 1
      /\ \A i \in 1..Len(h) + Len(q) - 1 : Tail(h \o q)[i] = (h \o q)[i + 1]
    BY <1>2, <1>3, HeadTailProperties
<1>5. /\ Tail(h) \o q \in Seq(S) /\ Len(Tail(h) \o q) = Len(Tail(h)) + Len(q)
      /\ \A i \in 1..Len(Tail(h)) + Len(q) :
           (Tail(h) \o q)[i] = IF i <= Len(Tail(h)) THEN Tail(h)[i] ELSE q[i - Len(Tail(h))]
    BY <1>1, ConcatProperties
<1>6. Tail(h) \o q = Tail(h \o q)
  <2>1. ASSUME NEW i \in 1..Len(h) + Len(q) - 1
        PROVE  (Tail(h) \o q)[i] = Tail(h \o q)[i]
    <3>1. i + 1 \in 1..Len(h) + Len(q) /\ (i <= Len(h) - 1 <=> i + 1 <= Len(h))
        BY <1>1
    <3>2. Tail(h \o q)[i] = IF i + 1 <= Len(h) THEN h[i + 1] ELSE q[i + 1 - Len(h)]
        BY <1>2, <1>4, <3>1
    <3>3. (Tail(h) \o q)[i] = IF i <= Len(h) - 1 THEN Tail(h)[i] ELSE q[i - (Len(h) - 1)]
        BY <1>1, <1>5
    <3>4. i <= Len(h) - 1 => Tail(h)[i] = h[i + 1]
        BY <1>1
    <3>5. i - (Len(h) - 1) = i + 1 - Len(h)
        BY <1>1
    <3>6. QED
        BY <3>1, <3>2, <3>3, <3>4, <3>5
  <2>2. Len(Tail(h) \o q) = Len(Tail(h \o q)) /\ Len(Tail(h) \o q) = Len(h) + Len(q) - 1
      BY <1>1, <1>4, <1>5
  <2>3. QED
      BY <1>4, <1>5, <2>1, <2>2, SeqEqual
<1>7. Head(h \o q) = Head(h)
    BY <1>1, <1>2, <1>3
<1>8. QED
    BY <1>2, <1>3, <1>6, <1>7

\* How many of what waits are in M: one more with each that is appended, one
\* less with each that is taken from the front.
Matching(w, M) == {i \in DOMAIN w : w[i] \in M}

LEMMA MatchingFinite ==
    ASSUME NEW S, NEW w \in Seq(S), NEW M
    PROVE  IsFiniteSet(Matching(w, M)) /\ Cardinality(Matching(w, M)) \in Nat
<1>1. Len(w) \in Nat /\ DOMAIN w = 1..Len(w)
    BY LenProperties
<1>2. IsFiniteSet(1..Len(w))
    BY <1>1, FS_Interval
<1>3. Matching(w, M) \in SUBSET (1..Len(w))
    BY <1>1 DEF Matching
<1>4. QED
    BY <1>2, <1>3, FS_Subset, FS_CardinalityType

LEMMA MatchingAppend ==
    ASSUME NEW S, NEW w \in Seq(S), NEW x \in S, NEW M
    PROVE  Cardinality(Matching(Append(w, x), M)) =
             IF x \in M THEN Cardinality(Matching(w, M)) + 1 ELSE Cardinality(Matching(w, M))
<1>1. /\ Len(w) \in Nat /\ DOMAIN w = 1..Len(w)
      /\ DOMAIN Append(w, x) = 1..Len(w) + 1
      /\ \A i \in 1..Len(w) : Append(w, x)[i] = w[i]
      /\ Append(w, x)[Len(w) + 1] = x
    BY LenProperties, AppendProperties
<1>2. Len(w) + 1 \notin Matching(w, M)
    BY <1>1 DEF Matching
<1>3. CASE x \in M
  <2>1. Matching(Append(w, x), M) = Matching(w, M) \cup {Len(w) + 1}
      BY <1>1, <1>3 DEF Matching
  <2>2. IsFiniteSet(Matching(w, M))
      BY MatchingFinite
  <2>3. Cardinality(Matching(w, M) \cup {Len(w) + 1}) = Cardinality(Matching(w, M)) + 1
      BY <1>2, <2>2, FS_AddElement
  <2>4. QED
      BY <1>3, <2>1, <2>3
<1>4. CASE x \notin M
  <2>1. Matching(Append(w, x), M) = Matching(w, M)
      BY <1>1, <1>4 DEF Matching
  <2>2. QED
      BY <1>4, <2>1
<1>5. QED
    BY <1>3, <1>4

LEMMA MatchingTail ==
    ASSUME NEW S, NEW w \in Seq(S), w # <<>>, NEW M
    PROVE  Cardinality(Matching(w, M)) =
             IF Head(w) \in M THEN Cardinality(Matching(Tail(w), M)) + 1
             ELSE Cardinality(Matching(Tail(w), M))
<1>1. /\ Len(w) \in Nat \ {0} /\ DOMAIN w = 1..Len(w) /\ Tail(w) \in Seq(S)
      /\ DOMAIN Tail(w) = 1..Len(w) - 1
      /\ \A i \in 1..Len(w) - 1 : Tail(w)[i] = w[i + 1]
      /\ Head(w) = w[1]
    BY EmptySeq, LenProperties, HeadTailProperties
<1> DEFINE A == Matching(Tail(w), M)
           B == Matching(w, M) \ {1}
           f == [i \in A |-> i + 1]
<1>2. ExistsBijection(A, B)
  <2>1. \A i \in A : i \in 1..Len(w) - 1 /\ i + 1 \in B
      BY <1>1 DEF Matching
  <2>2. f \in [A -> B]
      BY <2>1
  <2>3. \A i, j \in A : f[i] = f[j] => i = j
      BY <2>1
  <2>4. \A j \in B : j - 1 \in A /\ f[j - 1] = j
    <3> SUFFICES ASSUME NEW j \in B PROVE j - 1 \in A /\ f[j - 1] = j
        OBVIOUS
    <3>1. j \in 1..Len(w) /\ j # 1 /\ w[j] \in M
        BY <1>1 DEF Matching
    <3>2. j - 1 \in 1..Len(w) - 1 /\ (j - 1) + 1 = j
        BY <1>1, <3>1
    <3>3. Tail(w)[j - 1] = w[j]
        BY <1>1, <3>2
    <3>4. j - 1 \in A
        BY <1>1, <3>1, <3>2, <3>3 DEF Matching
    <3>5. QED
        BY <3>2, <3>4
  <2>5. f \in Bijection(A, B)
      BY <2>2, <2>3, <2>4 DEF Bijection, Injection, Surjection, IsInjective
  <2>6. QED
      BY <2>5 DEF ExistsBijection
<1>3. IsFiniteSet(A) /\ Cardinality(A) \in Nat
    BY <1>1, MatchingFinite
<1>4. Cardinality(B) = Cardinality(A)
    BY <1>2, <1>3, FS_Bijection
<1>5. IsFiniteSet(Matching(w, M)) /\ Cardinality(Matching(w, M)) \in Nat
    BY MatchingFinite
<1>6. Cardinality(B) = IF 1 \in Matching(w, M) THEN Cardinality(Matching(w, M)) - 1
                       ELSE Cardinality(Matching(w, M))
    BY <1>5, FS_RemoveElement
<1>7. 1 \in Matching(w, M) <=> Head(w) \in M
    BY <1>1 DEF Matching
<1> HIDE DEF A, B
<1>8. Cardinality(Matching(w, M)) = IF 1 \in Matching(w, M) THEN Cardinality(A) + 1
                                    ELSE Cardinality(A)
    BY <1>3, <1>4, <1>5, <1>6
<1>9. QED
    BY <1>7, <1>8 DEF A

\* The outcomes of one relay with one result that wait to be written.
Outcomes == [relay : Relays, result : Results]
LateIn(w, r, o) == {i \in DOMAIN w : w[i].relay = r /\ w[i].result = o}
Of(r, o) == {x \in Outcomes : x.relay = r /\ x.result = o}

LEMMA LateMatching ==
    ASSUME NEW w \in Seq(Outcomes), NEW r, NEW o
    PROVE  LateIn(w, r, o) = Matching(w, Of(r, o))
<1>1. \A i \in DOMAIN w : w[i] \in Outcomes
    BY LenProperties, ElementOfSeq
<1>2. QED
    BY <1>1 DEF LateIn, Matching, Of

LEMMA LateFinite ==
    ASSUME NEW w \in Seq(Outcomes), NEW r, NEW o
    PROVE  Cardinality(LateIn(w, r, o)) \in Nat
    BY LateMatching, MatchingFinite

LEMMA LateAppend ==
    ASSUME NEW w \in Seq(Outcomes), NEW x \in Outcomes, NEW r, NEW o
    PROVE  Cardinality(LateIn(Append(w, x), r, o)) =
             IF x.relay = r /\ x.result = o THEN Cardinality(LateIn(w, r, o)) + 1
             ELSE Cardinality(LateIn(w, r, o))
<1>1. Append(w, x) \in Seq(Outcomes)
    BY AppendProperties
<1>2. x \in Of(r, o) <=> x.relay = r /\ x.result = o
    BY DEF Of
<1>3. Cardinality(Matching(Append(w, x), Of(r, o))) =
        IF x \in Of(r, o) THEN Cardinality(Matching(w, Of(r, o))) + 1
        ELSE Cardinality(Matching(w, Of(r, o)))
    BY MatchingAppend
<1>4. /\ LateIn(Append(w, x), r, o) = Matching(Append(w, x), Of(r, o))
      /\ LateIn(w, r, o) = Matching(w, Of(r, o))
    BY <1>1, LateMatching
<1>5. QED
    BY <1>2, <1>3, <1>4

LEMMA LateTail ==
    ASSUME NEW w \in Seq(Outcomes), w # <<>>, NEW r, NEW o
    PROVE  Cardinality(LateIn(w, r, o)) =
             IF Head(w).relay = r /\ Head(w).result = o
             THEN Cardinality(LateIn(Tail(w), r, o)) + 1 ELSE Cardinality(LateIn(Tail(w), r, o))
<1>1. Tail(w) \in Seq(Outcomes) /\ Head(w) \in Outcomes
    BY HeadTailProperties
<1>2. Head(w) \in Of(r, o) <=> Head(w).relay = r /\ Head(w).result = o
    BY <1>1 DEF Of
<1>3. Cardinality(Matching(w, Of(r, o))) =
        IF Head(w) \in Of(r, o) THEN Cardinality(Matching(Tail(w), Of(r, o))) + 1
        ELSE Cardinality(Matching(Tail(w), Of(r, o)))
    BY MatchingTail
<1>4. /\ LateIn(Tail(w), r, o) = Matching(Tail(w), Of(r, o))
      /\ LateIn(w, r, o) = Matching(w, Of(r, o))
    BY <1>1, LateMatching
<1>5. QED
    BY <1>2, <1>3, <1>4

\* The newest n of a log: its last ones, from the last one on.
Fewer(a, b) == IF a > b THEN b ELSE a

LEMMA TruncateProperties ==
    ASSUME NEW S, NEW s \in Seq(S), NEW n \in Nat
    PROVE  /\ Truncate(s, n) \in Seq(S) /\ Len(Truncate(s, n)) = Fewer(Len(s), n)
           /\ \A i \in 1..Fewer(Len(s), n) : Truncate(s, n)[i] = s[i]
<1>1. Len(s) \in Nat /\ \A i \in 1..Len(s) : s[i] \in S
    BY LenProperties, ElementOfSeq
<1>2. CASE Len(s) > n
  <2>1. \A i \in 1..n : s[i] \in S
      BY <1>1, <1>2
  <2>2. /\ SubSeq(s, 1, n) \in Seq(S)
        /\ Len(SubSeq(s, 1, n)) = IF 1 <= n THEN n - 1 + 1 ELSE 0
        /\ \A i \in 1..n - 1 + 1 : SubSeq(s, 1, n)[i] = s[1 + i - 1]
      BY <2>1, SubSeqProperties
  <2>3. Len(SubSeq(s, 1, n)) = n /\ \A i \in 1..n : SubSeq(s, 1, n)[i] = s[i]
      BY <2>2
  <2>4. QED
      BY <1>2, <2>2, <2>3 DEF Truncate, Fewer
<1>3. CASE ~(Len(s) > n)
    BY <1>3 DEF Truncate, Fewer
<1>4. QED
    BY <1>2, <1>3

LEMMA NewestProperties ==
    ASSUME NEW S, NEW s \in Seq(S), NEW n \in Nat
    PROVE  /\ Newest(s, n) \in Seq(S) /\ Len(Newest(s, n)) = Fewer(Len(s), n)
           /\ \A i \in 1..Fewer(Len(s), n) : Newest(s, n)[i] = s[Len(s) + 1 - i]
<1> DEFINE k == Fewer(Len(s), n)
<1>1. Len(s) \in Nat /\ k \in Nat /\ k <= Len(s)
    BY LenProperties DEF Fewer
<1>2. Newest(s, n) = [i \in 1..k |-> s[Len(s) + 1 - i]]
    BY TruncateProperties DEF Newest
<1> HIDE DEF k
<1>3. \A i \in 1..k : s[Len(s) + 1 - i] \in S
  <2>1. \A i \in 1..k : Len(s) + 1 - i \in 1..Len(s)
      BY <1>1
  <2>2. QED
      BY <2>1, ElementOfSeq
<1>4. Newest(s, n) \in [1..k -> S] /\ \A i \in 1..k : Newest(s, n)[i] = s[Len(s) + 1 - i]
    BY <1>2, <1>3
<1>5. Newest(s, n) \in Seq(S)
    BY <1>1, <1>4, SeqDef
<1>6. Len(Newest(s, n)) = k
    BY <1>1, <1>4, <1>5, LenProperties
<1>7. QED
    BY <1>4, <1>5, <1>6 DEF k

\* Pushing to the front of a list of the newest is appending to the log.
LEMMA NewestPush ==
    ASSUME NEW S, NEW s \in Seq(S), NEW x \in S, NEW n \in Nat
    PROVE  PushFront(Newest(s, n), x, n) = Newest(Append(s, x), n)
<1> DEFINE k == Fewer(Len(s), n)
           front == <<x>> \o Newest(s, n)
<1>1. Len(s) \in Nat /\ k \in Nat /\ k <= Len(s) /\ k <= n
    BY LenProperties DEF Fewer
<1>2. /\ Newest(s, n) \in Seq(S) /\ Len(Newest(s, n)) = k
      /\ \A i \in 1..k : Newest(s, n)[i] = s[Len(s) + 1 - i]
    BY NewestProperties
<1>3. <<x>> \in Seq(S) /\ Len(<<x>>) = 1 /\ <<x>>[1] = x
    OBVIOUS
<1>4. /\ front \in Seq(S) /\ Len(front) = 1 + k
      /\ \A i \in 1..1 + k : front[i] = IF i <= 1 THEN <<x>>[i] ELSE Newest(s, n)[i - 1]
    BY <1>2, <1>3, ConcatProperties
<1> DEFINE m == Fewer(1 + k, n)
<1>5. m \in Nat /\ m <= 1 + k /\ m = Fewer(Len(s) + 1, n)
    BY <1>1 DEF Fewer
<1>6. /\ Truncate(front, n) \in Seq(S) /\ Len(Truncate(front, n)) = m
      /\ \A i \in 1..m : Truncate(front, n)[i] = front[i]
    BY <1>4, TruncateProperties
<1>7. /\ Append(s, x) \in Seq(S) /\ Len(Append(s, x)) = Len(s) + 1
      /\ \A i \in 1..Len(s) : Append(s, x)[i] = s[i]
      /\ Append(s, x)[Len(s) + 1] = x
    BY AppendProperties
<1>8. /\ Newest(Append(s, x), n) \in Seq(S) /\ Len(Newest(Append(s, x), n)) = m
      /\ \A i \in 1..m : Newest(Append(s, x), n)[i] = Append(s, x)[Len(s) + 1 + 1 - i]
  <2>1. Len(Append(s, x)) = Len(s) + 1 /\ Append(s, x) \in Seq(S)
      BY <1>7
  <2>2. /\ Newest(Append(s, x), n) \in Seq(S)
        /\ Len(Newest(Append(s, x), n)) = Fewer(Len(s) + 1, n)
        /\ \A i \in 1..Fewer(Len(s) + 1, n) :
             Newest(Append(s, x), n)[i] = Append(s, x)[Len(s) + 1 + 1 - i]
    <3> DEFINE a == Append(s, x)
    <3>1. a \in Seq(S) /\ Len(a) = Len(s) + 1
        BY <2>1
    <3> HIDE DEF a
    <3>2. /\ Newest(a, n) \in Seq(S) /\ Len(Newest(a, n)) = Fewer(Len(a), n)
          /\ \A i \in 1..Fewer(Len(a), n) : Newest(a, n)[i] = a[Len(a) + 1 - i]
        BY <3>1, NewestProperties
    <3>3. QED
        BY <3>1, <3>2 DEF a
  <2> HIDE DEF m
  <2>3. QED
      BY <1>5, <2>2
<1> HIDE DEF k, m, front
<1>9. ASSUME NEW i \in 1..m
      PROVE  Truncate(front, n)[i] = Newest(Append(s, x), n)[i]
  <2>1. i \in 1..1 + k
      BY <1>1, <1>5
  <2>2. CASE i = 1
    <3>1. front[1] = x
        BY <1>3, <1>4, <2>1, <2>2
    <3>2. Len(s) + 1 + 1 - i = Len(s) + 1
        BY <1>1, <2>2
    <3>3. QED
        BY <1>6, <1>7, <1>8, <2>2, <3>1, <3>2
  <2>3. CASE i # 1
    <3>1. i - 1 \in 1..k /\ ~(i <= 1)
        BY <1>1, <2>1, <2>3
    <3>2. front[i] = s[Len(s) + 1 - (i - 1)]
        BY <1>2, <1>4, <2>1, <3>1
    <3>3. Len(s) + 1 + 1 - i \in 1..Len(s) /\ Len(s) + 1 - (i - 1) = Len(s) + 1 + 1 - i
        BY <1>1, <3>1
    <3>4. Append(s, x)[Len(s) + 1 + 1 - i] = s[Len(s) + 1 + 1 - i]
        BY <1>7, <3>3
    <3>5. QED
        BY <1>6, <1>8, <3>2, <3>3, <3>4
  <2>4. QED
      BY <2>2, <2>3
<1>10. Truncate(front, n) = Newest(Append(s, x), n)
    BY <1>6, <1>8, <1>9, SeqEqual
<1>11. QED
    BY <1>10 DEF PushFront, front

\* The ids of a log grow with it.
IdsOf(log) == [i \in DOMAIN log |-> log[i].id]

LEMMA IdsType ==
    ASSUME NEW log \in Seq(Entries)
    PROVE  IdsOf(log) \in Seq(Ids) /\ Len(IdsOf(log)) = Len(log)
<1>1. Len(log) \in Nat /\ DOMAIN log = 1..Len(log) /\ \A i \in 1..Len(log) : log[i] \in Entries
    BY LenProperties, ElementOfSeq
<1>2. IdsOf(log) \in [1..Len(log) -> Ids]
    BY <1>1 DEF IdsOf, Entries
<1>3. IdsOf(log) \in Seq(Ids)
    BY <1>1, <1>2, SeqDef
<1>4. QED
    BY <1>1, <1>2, <1>3, LenProperties

LEMMA IdsAppend ==
    ASSUME NEW log \in Seq(Entries), NEW e \in Entries
    PROVE  IdsOf(Append(log, e)) = Append(IdsOf(log), e.id)
<1>1. /\ Append(log, e) \in Seq(Entries) /\ Len(Append(log, e)) = Len(log) + 1
      /\ \A i \in 1..Len(log) : Append(log, e)[i] = log[i]
      /\ Append(log, e)[Len(log) + 1] = e
    BY AppendProperties
<1>2. e.id \in Ids /\ Len(log) \in Nat /\ DOMAIN log = 1..Len(log)
      /\ DOMAIN Append(log, e) = 1..Len(log) + 1
    BY <1>1, LenProperties DEF Entries
<1>3. IdsOf(log) \in Seq(Ids) /\ Len(IdsOf(log)) = Len(log)
    BY IdsType
<1>4. IdsOf(Append(log, e)) \in Seq(Ids) /\ Len(IdsOf(Append(log, e))) = Len(log) + 1
    BY <1>1, IdsType
<1>5. /\ Append(IdsOf(log), e.id) \in Seq(Ids)
      /\ Len(Append(IdsOf(log), e.id)) = Len(log) + 1
      /\ \A i \in 1..Len(log) : Append(IdsOf(log), e.id)[i] = IdsOf(log)[i]
      /\ Append(IdsOf(log), e.id)[Len(log) + 1] = e.id
    BY <1>2, <1>3, AppendProperties
<1>6. ASSUME NEW i \in 1..Len(log) + 1
      PROVE  IdsOf(Append(log, e))[i] = Append(IdsOf(log), e.id)[i]
  <2>1. IdsOf(Append(log, e))[i] = Append(log, e)[i].id
      BY <1>2 DEF IdsOf
  <2>2. CASE i = Len(log) + 1
      BY <1>1, <1>5, <2>1, <2>2
  <2>3. CASE i \in 1..Len(log)
    <3>1. IdsOf(log)[i] = log[i].id
        BY <1>2, <2>3 DEF IdsOf
    <3>2. QED
        BY <1>1, <1>5, <2>1, <2>3, <3>1
  <2>4. i = Len(log) + 1 \/ i \in 1..Len(log)
    <3>1. Len(log) \in Nat
        BY <1>2
    <3>2. QED
        BY <3>1
  <2>5. QED
      BY <2>2, <2>3, <2>4
<1>7. QED
    BY <1>4, <1>5, <1>6, SeqEqual

\* Writing the first of what waits leaves the log with what waits as it was.
LEMMA LogWritten ==
    ASSUME NEW log \in Seq(Entries), NEW w \in Seq(Ids), w # <<>>, NEW a \in Int
    PROVE  IdsOf(Append(log, [id |-> Head(w), at |-> a])) \o Tail(w) = IdsOf(log) \o w
<1>1. Head(w) \in Ids /\ Tail(w) \in Seq(Ids) /\ <<Head(w)>> \in Seq(Ids)
    BY HeadTailProperties
<1>2. [id |-> Head(w), at |-> a] \in Entries /\ [id |-> Head(w), at |-> a].id = Head(w)
    BY <1>1 DEF Entries
<1>3. IdsOf(log) \in Seq(Ids)
    BY IdsType
<1>4. IdsOf(Append(log, [id |-> Head(w), at |-> a])) = Append(IdsOf(log), Head(w))
    BY <1>2, IdsAppend
<1>5. Append(IdsOf(log), Head(w)) = IdsOf(log) \o <<Head(w)>>
    BY <1>1, <1>3, AppendIsConcat
<1>6. (IdsOf(log) \o <<Head(w)>>) \o Tail(w) = IdsOf(log) \o (<<Head(w)>> \o Tail(w))
    BY <1>1, <1>3, ConcatAssociative
<1>7. <<Head(w)>> \o Tail(w) = w
  <2>1. /\ Len(w) \in Nat \ {0} /\ Len(Tail(w)) = Len(w) - 1
        /\ \A i \in 1..Len(w) - 1 : Tail(w)[i] = w[i + 1]
        /\ Head(w) = w[1]
      BY EmptySeq, HeadTailProperties
  <2>2. <<Head(w)>>[1] = Head(w) /\ Len(<<Head(w)>>) = 1
      OBVIOUS
  <2>3. /\ <<Head(w)>> \o Tail(w) \in Seq(Ids) /\ Len(<<Head(w)>> \o Tail(w)) = 1 + (Len(w) - 1)
        /\ \A i \in 1..1 + (Len(w) - 1) : (<<Head(w)>> \o Tail(w))[i] =
              IF i <= 1 THEN <<Head(w)>>[i] ELSE Tail(w)[i - 1]
      BY <1>1, <2>1, <2>2, ConcatProperties
  <2>4. 1 + (Len(w) - 1) = Len(w)
      BY <2>1
  <2>5. ASSUME NEW i \in 1..Len(w) PROVE (<<Head(w)>> \o Tail(w))[i] = w[i]
    <3>1. CASE i = 1
        BY <2>1, <2>2, <2>3, <2>4, <3>1
    <3>2. CASE i # 1
      <4>1. i - 1 \in 1..Len(w) - 1 /\ (i - 1) + 1 = i /\ ~(i <= 1)
          BY <2>1, <3>2
      <4>2. Tail(w)[i - 1] = w[i]
          BY <2>1, <4>1
      <4>3. QED
          BY <2>3, <2>4, <4>1, <4>2
    <3>3. QED
        BY <3>1, <3>2
  <2>6. QED
      BY <2>3, <2>4, <2>5, SeqEqual
<1>8. QED
    BY <1>4, <1>5, <1>6, <1>7

-----------------------------------------------------------------------------
(* What the dashboard shows, and what is stored.                            *)

Trails == {"treasury", "outcomes"}
Lanes == {"relay"} \cup Trails
Marks == [Results -> Nat]
LaneItems(t) == IF t = "relay" THEN Outcomes ELSE Ids

IsShown(m) ==
    m = [recent |-> m.recent, trail |-> m.trail, relays |-> m.relays, funnel |-> m.funnel,
         rejects |-> m.rejects, selectors |-> m.selectors, edges |-> m.edges]

IsOpen(o) ==
    o = [events |-> o.events, rejects |-> o.rejects, funnel |-> o.funnel,
         selectors |-> o.selectors, engine |-> o.engine]

MemTypes ==
    /\ records \in Nat
    /\ IsShown(mem) /\ IsOpen(open)
    /\ mem.relays \in [Relays -> Marks] /\ DOMAIN mem.trail = Trails
    /\ open.engine.call = "relay" => open.engine.item \in Outcomes
    /\ ranked \in [Relays -> Marks]
    /\ metrics \in [Backends -> [Relays -> Marks]]
    /\ DOMAIN queue = Queues /\ DOMAIN inHand = Queues
    /\ \A t \in Lanes : queue[t] \in Seq(LaneItems(t)) /\ inHand[t] \in Seq(LaneItems(t))
    /\ DOMAIN logs = Backends
    /\ \A db \in Backends : DOMAIN logs[db] = LogTables
                            /\ \A t \in Trails : logs[db][t] \in Seq(Entries)

\* Between two flushes nothing is in the flush's hand: otherwise mem::take
\* would overwrite it.  The buffers die with the process.
HandsEmpty ==
    /\ flush \in {"idle", "after"} => inHand["relay"] = <<>>
    /\ flush = "idle" => \A t \in Trails : inHand[t] = <<>>
DownEmpty ==
    ~Up => open.engine.call = "none" /\ \A t \in Lanes : inHand[t] = <<>> /\ queue[t] = <<>>

\* What is shown, once the executor's call is over, is what is stored and what
\* waits in w, without what was there at the last ranking.
RelayAgrees(w, shown, kept, base) ==
    \A r \in Relays, o \in Results :
        shown[r][o] + base[r][o] = kept[r][o] + Cardinality(LateIn(w, r, o))
TrailAgrees(log, w, shown) == shown = Newest(IdsOf(log) \o w, TrailCap)
ShownAgrees ==
    Up /\ clean =>
        /\ RelayAgrees(inHand["relay"] \o queue["relay"], SettledRelays, metrics[backend], ranked)
        /\ \A t \in Trails :
             TrailAgrees(logs[backend][t], inHand[t] \o queue[t], SettledTrail[t])

MemInv == MemTypes /\ HandsEmpty /\ DownEmpty /\ ShownAgrees

LEMMA SettledSame ==
    ASSUME mem'.relays = mem.relays, mem'.trail = mem.trail, open'.engine = open.engine
    PROVE  SettledRelays' = SettledRelays /\ SettledTrail' = SettledTrail
    BY DEF SettledRelays, SettledTrail

LEMMA SettledUnchanged ==
    ASSUME UNCHANGED <<mem, open>>
    PROVE  SettledRelays' = SettledRelays /\ SettledTrail' = SettledTrail
    BY SettledSame

\* With no open call what is shown is what is in memory.
LEMMA SettledIdle ==
    ASSUME open.engine.call = "none", DOMAIN mem.trail = Trails
    PROVE  SettledRelays = mem.relays /\ \A t \in Trails : SettledTrail[t] = mem.trail[t]
    BY DEF SettledRelays, SettledTrail, Trails

LEMMA OutcomeCounts ==
    ASSUME NEW row \in Marks, NEW result \in Results
    PROVE  /\ Outcome(row, result) \in Marks
           /\ \A o \in Results :
                Outcome(row, result)[o] = IF o = result THEN row[o] + 1 ELSE row[o]
    BY DEF Outcome, Marks

LEMMA SettledType ==
    ASSUME MemTypes PROVE SettledRelays \in [Relays -> Marks]
<1>1. mem.relays \in [Relays -> Marks]
    BY DEF MemTypes
<1>2. CASE open.engine.call = "relay"
  <2> DEFINE x == open.engine.item
             row == Outcome(mem.relays[x.relay], x.result)
  <2>1. x.relay \in Relays /\ x.result \in Results
      BY <1>2 DEF MemTypes, Outcomes
  <2>2. row \in Marks
      BY <1>1, <2>1, OutcomeCounts
  <2>3. SettledRelays = [mem.relays EXCEPT ![x.relay] = row]
      BY <1>2 DEF SettledRelays
  <2> HIDE DEF row, x
  <2>4. QED
      BY <1>1, <2>1, <2>2, <2>3
<1>3. CASE open.engine.call # "relay"
    BY <1>1, <1>3 DEF SettledRelays
<1>4. QED
    BY <1>2, <1>3

LEMMA RelayPushed ==
    ASSUME NEW w \in Seq(Outcomes), NEW x \in Outcomes, NEW shown \in [Relays -> Marks],
           NEW kept \in [Relays -> Marks], NEW base \in [Relays -> Marks],
           RelayAgrees(w, shown, kept, base)
    PROVE  RelayAgrees(Append(w, x), [shown EXCEPT ![x.relay] = Outcome(@, x.result)], kept, base)
<1>1. x.relay \in Relays /\ x.result \in Results
    BY DEF Outcomes
<1> DEFINE row == Outcome(shown[x.relay], x.result)
           after == [shown EXCEPT ![x.relay] = row]
<1>2. \A o \in Results : row[o] = IF o = x.result THEN shown[x.relay][o] + 1
                                  ELSE shown[x.relay][o]
    BY <1>1, OutcomeCounts
<1> HIDE DEF row
<1>3. \A r \in Relays : after[r] = IF r = x.relay THEN row ELSE shown[r]
    OBVIOUS
<1> HIDE DEF after
<1>4. ASSUME NEW r \in Relays, NEW o \in Results
      PROVE  after[r][o] + base[r][o] = kept[r][o] + Cardinality(LateIn(Append(w, x), r, o))
  <2>1. shown[r][o] + base[r][o] = kept[r][o] + Cardinality(LateIn(w, r, o))
      BY DEF RelayAgrees
  <2>2. /\ Cardinality(LateIn(w, r, o)) \in Nat /\ kept[r][o] \in Nat
        /\ shown[r][o] \in Nat /\ base[r][o] \in Nat
      BY LateFinite DEF Marks
  <2>3. Cardinality(LateIn(Append(w, x), r, o)) =
          IF x.relay = r /\ x.result = o THEN Cardinality(LateIn(w, r, o)) + 1
          ELSE Cardinality(LateIn(w, r, o))
      BY LateAppend
  <2>4. after[r][o] = IF x.relay = r /\ x.result = o THEN shown[r][o] + 1 ELSE shown[r][o]
      BY <1>2, <1>3
  <2> DEFINE a == after[r][o]
             b == base[r][o]
             c == kept[r][o]
             d == shown[r][o]
             m == Cardinality(LateIn(w, r, o))
             n == Cardinality(LateIn(Append(w, x), r, o))
  <2>5. (a = d /\ n = m) \/ (a = d + 1 /\ n = m + 1)
      BY <2>3, <2>4
  <2>6. d + b = c + m /\ m \in Nat /\ c \in Nat /\ d \in Nat /\ b \in Nat
      BY <2>1, <2>2
  <2> HIDE DEF a, b, c, d, m, n
  <2>7. a + b = c + n
      BY <2>5, <2>6
  <2>8. QED
      BY <2>7 DEF a, b, c, n
<1>5. RelayAgrees(Append(w, x), after, kept, base)
    BY <1>4 DEF RelayAgrees
<1>6. QED
    BY <1>5 DEF after, row

LEMMA RelayWritten ==
    ASSUME NEW w \in Seq(Outcomes), w # <<>>, NEW shown \in [Relays -> Marks],
           NEW kept \in [Relays -> Marks], NEW base \in [Relays -> Marks],
           RelayAgrees(w, shown, kept, base)
    PROVE  RelayAgrees(Tail(w), shown,
             [kept EXCEPT ![Head(w).relay] = Outcome(@, Head(w).result)], base)
<1> DEFINE x == Head(w)
           row == Outcome(kept[x.relay], x.result)
           after == [kept EXCEPT ![x.relay] = row]
<1>0. Tail(w) \in Seq(Outcomes) /\ x \in Outcomes
    BY HeadTailProperties
<1>1. x.relay \in Relays /\ x.result \in Results
    BY <1>0 DEF Outcomes
<1>2. \A o \in Results : row[o] = IF o = x.result THEN kept[x.relay][o] + 1
                                  ELSE kept[x.relay][o]
    BY <1>1, OutcomeCounts
<1> HIDE DEF row
<1>3. \A r \in Relays : after[r] = IF r = x.relay THEN row ELSE kept[r]
    OBVIOUS
<1> HIDE DEF after
<1>4. ASSUME NEW r \in Relays, NEW o \in Results
      PROVE  shown[r][o] + base[r][o] = after[r][o] + Cardinality(LateIn(Tail(w), r, o))
  <2>1. shown[r][o] + base[r][o] = kept[r][o] + Cardinality(LateIn(w, r, o))
      BY DEF RelayAgrees
  <2>2. Cardinality(LateIn(Tail(w), r, o)) \in Nat /\ kept[r][o] \in Nat
      BY <1>0, LateFinite DEF Marks
  <2>3. Cardinality(LateIn(w, r, o)) =
          IF x.relay = r /\ x.result = o THEN Cardinality(LateIn(Tail(w), r, o)) + 1
          ELSE Cardinality(LateIn(Tail(w), r, o))
      BY LateTail
  <2>4. after[r][o] = IF x.relay = r /\ x.result = o THEN kept[r][o] + 1 ELSE kept[r][o]
      BY <1>2, <1>3
  <2>5. QED
      BY <2>1, <2>2, <2>3, <2>4
<1>5. RelayAgrees(Tail(w), shown, after, base)
    BY <1>4 DEF RelayAgrees
<1>6. QED
    BY <1>5 DEF after, row

\* With nothing waiting and no ranking yet, what is stored is what is shown.
LEMMA RelayEmpty ==
    ASSUME NEW kept \in [Relays -> Marks]
    PROVE  RelayAgrees(<<>>, kept, kept, NoOutcomes)
<1> SUFFICES ASSUME NEW r \in Relays, NEW o \in Results
             PROVE  kept[r][o] + NoOutcomes[r][o] = kept[r][o] + Cardinality(LateIn(<<>>, r, o))
    BY DEF RelayAgrees
<1>1. LateIn(<<>>, r, o) = {}
    BY DEF LateIn
<1>2. kept[r][o] \in Nat /\ NoOutcomes[r][o] = 0
    BY DEF Marks, NoOutcomes
<1>3. Cardinality(LateIn(<<>>, r, o)) = 0
    BY <1>1, FS_EmptySet
<1>4. QED
    BY <1>2, <1>3

\* The agreement is the property the runs check.
LEMMA AgreementShown ==
    ASSUME CountInv, MemInv PROVE MemoryAgreesWithStorage
<1> SUFFICES ASSUME Up, clean PROVE MemoryAgreesWithStorage
    BY DEF MemoryAgreesWithStorage
<1>1. /\ RelayAgrees(inHand["relay"] \o queue["relay"], SettledRelays, metrics[backend], ranked)
      /\ \A t \in Trails : TrailAgrees(logs[backend][t], inHand[t] \o queue[t], SettledTrail[t])
    BY DEF MemInv, ShownAgrees
<1>2. Waiting("relay") \in Seq(Outcomes)
  <2>1. inHand["relay"] \in Seq(Outcomes) /\ queue["relay"] \in Seq(Outcomes)
      BY DEF MemInv, MemTypes, Lanes, LaneItems
  <2>2. QED
      BY <2>1, ConcatProperties DEF Waiting
<1>3. ASSUME NEW r \in Relays, NEW o \in Results
      PROVE  SettledRelays[r][o] = RelayTotal(r, o) - ranked[r][o]
  <2> DEFINE a == SettledRelays[r][o]
             b == ranked[r][o]
             c == metrics[backend][r][o]
             d == Cardinality(LateIn(Waiting("relay"), r, o))
  <2>1. a + b = c + d
      BY <1>1 DEF RelayAgrees, Waiting
  <2>2. RelayTotal(r, o) = c + d
      BY DEF RelayTotal, Late, LateIn
  <2>3. a \in Nat /\ b \in Nat /\ c \in Nat
    <3>1. backend \in Backends
        BY DEF Up, CountInv, CountTypes
    <3>2. SettledRelays \in [Relays -> Marks]
        BY SettledType DEF MemInv
    <3>3. QED
        BY <3>1, <3>2 DEF MemInv, MemTypes, Marks
  <2>4. d \in Nat
      BY <1>2, LateFinite
  <2> HIDE DEF a, b, c, d
  <2>5. a = (c + d) - b
      BY <2>1, <2>3, <2>4
  <2>6. QED
      BY <2>2, <2>5 DEF a, b
<1>4. ASSUME NEW t \in {"treasury", "outcomes"}
      PROVE  LET log == logs[backend][t]
             IN  SettledTrail[t] = Newest([i \in DOMAIN log |-> log[i].id] \o Waiting(t), TrailCap)
    BY <1>1 DEF Trails, TrailAgrees, IdsOf, Waiting
<1>5. QED
    BY <1>3, <1>4 DEF MemoryAgreesWithStorage

\* A step that has no part in relays and trails.
Kept ==
    /\ DOMAIN queue' = Queues /\ DOMAIN inHand' = Queues /\ DOMAIN logs' = Backends
    /\ \A t \in Lanes : queue'[t] = queue[t] /\ inHand'[t] = inHand[t]
    /\ \A db \in Backends : /\ DOMAIN logs'[db] = LogTables
                            /\ \A t \in Trails : logs'[db][t] = logs[db][t]
    /\ IsShown(mem') /\ mem'.relays = mem.relays /\ mem'.trail = mem.trail
    /\ IsOpen(open') /\ open'.engine = open.engine
    /\ UNCHANGED <<metrics, backend, ranked>> /\ records' \in Nat
    /\ clean' => clean

LEMMA KeptStep ==
    ASSUME CountInv, MemInv, Kept, HandsEmpty'
    PROVE  MemInv'
<1>1. MemTypes /\ DownEmpty /\ ShownAgrees
    BY DEF MemInv
<1>2. MemTypes'
    BY <1>1 DEF MemTypes, Kept
<1>3. DownEmpty'
    BY <1>1 DEF DownEmpty, Kept, Up
<1>4. ShownAgrees'
  <2> SUFFICES ASSUME Up', clean'
               PROVE  /\ RelayAgrees(inHand'["relay"] \o queue'["relay"], SettledRelays', metrics'[backend'], ranked')
                      /\ \A t \in Trails :
                           TrailAgrees(logs'[backend'][t], inHand'[t] \o queue'[t], SettledTrail'[t])
      BY DEF ShownAgrees
  <2>1. Up /\ clean /\ backend \in Backends
      BY DEF Kept, Up, CountInv, CountTypes
  <2>2. /\ inHand'["relay"] = inHand["relay"] /\ queue'["relay"] = queue["relay"]
        /\ \A t \in Trails : inHand'[t] = inHand[t] /\ queue'[t] = queue[t]
        /\ \A t \in Trails : logs'[backend'][t] = logs[backend][t]
        /\ metrics'[backend'] = metrics[backend] /\ ranked' = ranked
        /\ SettledRelays' = SettledRelays /\ SettledTrail' = SettledTrail
      BY <2>1, SettledSame DEF Kept, Lanes
  <2>3. QED
      BY <1>1, <2>1, <2>2 DEF ShownAgrees
<1>5. QED
    BY <1>2, <1>3, <1>4 DEF MemInv

LEMMA QueuesHaveLanes == Lanes \subseteq Queues /\ Trails \subseteq LogTables
    BY DEF Lanes, Trails, Queues, LogTables

\* What all recording functions leave alone, and what another queue does.
LEMMA RecordFrame ==
    ASSUME CountInv, MemInv, NEW call, Recording(call)
    PROVE  /\ UNCHANGED <<inHand, logs, metrics, backend, clean, flush>>
           /\ records' = records + 1 /\ records' \in Nat /\ backend \in Backends
           /\ HandsEmpty'
<1>1. /\ UNCHANGED <<inHand, logs, metrics, backend, clean, flush>> /\ records' = records + 1
      /\ backend \in Backends
    BY DEF Recording, flushVars, storeVars, procVars, Up, CountInv, CountTypes
<1>2. records' \in Nat
    BY <1>1 DEF MemInv, MemTypes
<1>3. HandsEmpty'
    BY <1>1 DEF MemInv, HandsEmpty
<1>4. QED
    BY <1>1, <1>2, <1>3

LEMMA RecordKept ==
    ASSUME CountInv, MemInv, NEW call, Recording(call),
           DOMAIN queue' = Queues, \A t \in Lanes : queue'[t] = queue[t],
           IsShown(mem'), mem'.relays = mem.relays, mem'.trail = mem.trail,
           IsOpen(open'), open'.engine = open.engine, UNCHANGED ranked
    PROVE  MemInv'
<1>1. /\ UNCHANGED <<inHand, logs, metrics, backend, clean, flush>>
      /\ records' \in Nat /\ HandsEmpty'
    BY RecordFrame
<1>2. Kept
    BY <1>1 DEF Kept, MemInv, MemTypes
<1>3. QED
    BY <1>1, <1>2, KeptStep

LEMMA PushKept ==
    ASSUME MemTypes, NEW u \in Queues \ Lanes, NEW x, Push(u, x)
    PROVE  DOMAIN queue' = Queues /\ \A t \in Lanes : queue'[t] = queue[t]
    BY DEF MemTypes, Push

\* A call of the executor begins.
LEMMA EngineOpened ==
    ASSUME IsOpen(open), NEW e, open' = [open EXCEPT !.engine = e]
    PROVE  IsOpen(open') /\ open'.engine = e
    BY DEF IsOpen

LEMMA MemRecordRelay ==
    ASSUME CountInv, MemInv, NEW r \in Relays, NEW o \in Results, RecordRelayOutcome(r, o)
    PROVE  MemInv'
<1> DEFINE x == [relay |-> r, result |-> o]
<1>1. x \in Outcomes /\ x.relay = r /\ x.result = o
    BY DEF Outcomes
<1> HIDE DEF x
<1>2. /\ Recording("relay") /\ queue' = [queue EXCEPT !["relay"] = Append(@, x)]
      /\ open' = [open EXCEPT !.engine = [call |-> "relay", item |-> x]]
      /\ open.engine.call = "none" /\ UNCHANGED <<mem, ranked>>
    BY DEF RecordRelayOutcome, Push, x
<1>3. /\ UNCHANGED <<inHand, logs, metrics, backend, clean, flush>>
      /\ records' \in Nat /\ backend \in Backends /\ HandsEmpty'
    BY <1>2, RecordFrame
<1>4. MemTypes /\ DownEmpty /\ ShownAgrees
    BY DEF MemInv
<1>5. /\ mem.relays \in [Relays -> Marks] /\ metrics[backend] \in [Relays -> Marks]
      /\ ranked \in [Relays -> Marks] /\ DOMAIN mem.trail = Trails
      /\ inHand["relay"] \in Seq(Outcomes) /\ queue["relay"] \in Seq(Outcomes)
    BY <1>3, <1>4 DEF MemTypes, Lanes, LaneItems
<1>6. IsOpen(open') /\ open'.engine.call = "relay" /\ open'.engine.item = x
    BY <1>2, <1>4, EngineOpened DEF MemTypes
<1>7. /\ SettledRelays = mem.relays
      /\ SettledRelays' = [mem.relays EXCEPT ![x.relay] = Outcome(@, x.result)]
      /\ \A t \in Trails : SettledTrail'[t] = SettledTrail[t]
    BY <1>2, <1>6 DEF SettledRelays, SettledTrail, Trails
<1>8. /\ DOMAIN queue' = Queues /\ queue'["relay"] = Append(queue["relay"], x)
      /\ \A t \in Trails : queue'[t] = queue[t]
    BY <1>2, <1>4, QueuesHaveLanes DEF MemTypes, Lanes, Trails
<1>9. queue'["relay"] \in Seq(Outcomes)
    BY <1>1, <1>5, <1>8, AppendProperties
<1>10. MemTypes'
  <2>1. \A t \in Lanes : queue'[t] \in Seq(LaneItems(t))
      BY <1>4, <1>8, <1>9 DEF MemTypes, Lanes, LaneItems
  <2>2. QED
      BY <1>1, <1>2, <1>3, <1>4, <1>6, <1>8, <2>1 DEF MemTypes
<1>11. DownEmpty'
    BY <1>2, <1>3 DEF Recording, DownEmpty, Up
<1>12. ShownAgrees'
  <2> SUFFICES ASSUME Up', clean'
               PROVE  /\ RelayAgrees(inHand'["relay"] \o queue'["relay"], SettledRelays', metrics'[backend'], ranked')
                      /\ \A t \in Trails :
                           TrailAgrees(logs'[backend'][t], inHand'[t] \o queue'[t], SettledTrail'[t])
      BY DEF ShownAgrees
  <2> DEFINE w == inHand["relay"] \o queue["relay"]
  <2>1. Up /\ clean
      BY <1>3 DEF Up
  <2>2. /\ RelayAgrees(w, mem.relays, metrics[backend], ranked)
        /\ \A t \in Trails : TrailAgrees(logs[backend][t], inHand[t] \o queue[t], SettledTrail[t])
      BY <1>4, <1>7, <2>1 DEF ShownAgrees
  <2>3. w \in Seq(Outcomes) /\ inHand["relay"] \o queue'["relay"] = Append(w, x)
    <3>1. w \in Seq(Outcomes)
        BY <1>5, ConcatProperties
    <3>2. inHand["relay"] \o Append(queue["relay"], x) = Append(w, x)
      <4> DEFINE h == inHand["relay"]
                 q == queue["relay"]
      <4>1. h \in Seq(Outcomes) /\ q \in Seq(Outcomes) /\ x \in Outcomes
          BY <1>1, <1>5
      <4> HIDE DEF h, q
      <4>2. h \o Append(q, x) = Append(h \o q, x)
          BY <4>1, WaitingAppend
      <4>3. QED
          BY <4>2 DEF h, q
    <3>3. QED
        BY <1>8, <3>1, <3>2
  <2> HIDE DEF w
  <2>4. RelayAgrees(Append(w, x), [mem.relays EXCEPT ![x.relay] = Outcome(@, x.result)],
                    metrics[backend], ranked)
      BY <1>1, <1>5, <2>2, <2>3, RelayPushed
  <2>5. RelayAgrees(inHand'["relay"] \o queue'["relay"], SettledRelays', metrics'[backend'], ranked')
      BY <1>2, <1>3, <1>7, <2>3, <2>4
  <2>6. QED
      BY <1>3, <1>7, <1>8, <2>2, <2>5
<1>13. QED
    BY <1>3, <1>10, <1>11, <1>12 DEF MemInv

LEMMA MemRecordTrail ==
    ASSUME CountInv, MemInv, NEW u \in {"treasury", "outcomes"}, RecordTrail(u)
    PROVE  MemInv'
<1> DEFINE x == records + 1
<1>1. x \in Ids
    BY DEF MemInv, MemTypes, Ids
<1> HIDE DEF x
<1>2. /\ Recording(u) /\ queue' = [queue EXCEPT ![u] = Append(@, x)]
      /\ open' = [open EXCEPT !.engine = [call |-> u, item |-> x]]
      /\ open.engine.call = "none" /\ UNCHANGED <<mem, ranked>>
    BY DEF RecordTrail, Push, x
<1>3. /\ UNCHANGED <<inHand, logs, metrics, backend, clean, flush>>
      /\ records' \in Nat /\ backend \in Backends /\ HandsEmpty'
    BY <1>2, RecordFrame
<1>4. MemTypes /\ DownEmpty /\ ShownAgrees /\ u \in Trails /\ u # "relay"
    BY DEF MemInv, Trails
<1>5. /\ inHand[u] \in Seq(Ids) /\ queue[u] \in Seq(Ids) /\ logs[backend][u] \in Seq(Entries)
      /\ DOMAIN mem.trail = Trails
    BY <1>3, <1>4 DEF MemTypes, Lanes, LaneItems
<1>6. IsOpen(open') /\ open'.engine.call = u /\ open'.engine.item = x
    BY <1>2, <1>4, EngineOpened DEF MemTypes
<1>6a. /\ SettledRelays' = SettledRelays /\ SettledTrail[u] = mem.trail[u]
       /\ SettledTrail'[u] = PushFront(mem.trail[u], x, TrailCap)
       /\ \A t \in Trails : t # u => SettledTrail'[t] = SettledTrail[t]
    BY <1>2, <1>4, <1>6 DEF SettledRelays, SettledTrail, Trails
<1>7. /\ DOMAIN queue' = Queues /\ queue'[u] = Append(queue[u], x)
      /\ \A t \in Lanes : t # u => queue'[t] = queue[t]
    BY <1>2, <1>4, QueuesHaveLanes DEF MemTypes, Lanes
<1>8. queue'[u] \in Seq(Ids)
    BY <1>1, <1>5, <1>7, AppendProperties
<1>9. MemTypes'
  <2>1. \A t \in Lanes : queue'[t] \in Seq(LaneItems(t))
      BY <1>4, <1>7, <1>8 DEF MemTypes, LaneItems
  <2>2. QED
      BY <1>2, <1>3, <1>4, <1>6, <1>7, <2>1 DEF MemTypes
<1>10. DownEmpty'
    BY <1>2, <1>3 DEF Recording, DownEmpty, Up
<1>11. ShownAgrees'
  <2> SUFFICES ASSUME Up', clean'
               PROVE  /\ RelayAgrees(inHand'["relay"] \o queue'["relay"], SettledRelays', metrics'[backend'], ranked')
                      /\ \A t \in Trails :
                           TrailAgrees(logs'[backend'][t], inHand'[t] \o queue'[t], SettledTrail'[t])
      BY DEF ShownAgrees
  <2> DEFINE w == inHand[u] \o queue[u]
             log == logs[backend][u]
  <2>1. Up /\ clean
      BY <1>3 DEF Up
  <2>2. /\ RelayAgrees(inHand["relay"] \o queue["relay"], SettledRelays, metrics[backend], ranked)
        /\ \A t \in Trails : TrailAgrees(logs[backend][t], inHand[t] \o queue[t], SettledTrail[t])
      BY <1>4, <2>1 DEF ShownAgrees
  <2>3. w \in Seq(Ids) /\ inHand[u] \o queue'[u] = Append(w, x)
    <3>1. w \in Seq(Ids)
        BY <1>5, ConcatProperties
    <3>2. inHand[u] \o Append(queue[u], x) = Append(w, x)
      <4> DEFINE h == inHand[u]
                 q == queue[u]
      <4>1. h \in Seq(Ids) /\ q \in Seq(Ids) /\ x \in Ids
          BY <1>1, <1>5
      <4> HIDE DEF h, q
      <4>2. h \o Append(q, x) = Append(h \o q, x)
          BY <4>1, WaitingAppend
      <4>3. QED
          BY <4>2 DEF h, q
    <3>3. QED
        BY <1>7, <3>1, <3>2
  <2>4. IdsOf(log) \in Seq(Ids)
      BY <1>5, IdsType
  <2>5. mem.trail[u] = Newest(IdsOf(log) \o w, TrailCap)
      BY <1>4, <1>6a, <2>2 DEF TrailAgrees
  <2> HIDE DEF w, log
  <2>6. IdsOf(log) \o w \in Seq(Ids) /\ IdsOf(log) \o Append(w, x) = Append(IdsOf(log) \o w, x)
      BY <1>1, <2>3, <2>4, ConcatProperties, WaitingAppend
  <2>7. TrailCap \in Nat
      BY TelemetryAssumption
  <2>8. PushFront(mem.trail[u], x, TrailCap) = Newest(IdsOf(log) \o Append(w, x), TrailCap)
      BY <1>1, <2>5, <2>6, <2>7, NewestPush
  <2>9. TrailAgrees(logs'[backend'][u], inHand'[u] \o queue'[u], SettledTrail'[u])
    <3>1. logs'[backend'][u] = log /\ inHand'[u] \o queue'[u] = Append(w, x)
        BY <1>3, <2>3 DEF log
    <3>2. QED
        BY <1>6a, <2>8, <3>1 DEF TrailAgrees
  <2>10. ASSUME NEW t \in Trails, t # u
         PROVE  TrailAgrees(logs'[backend'][t], inHand'[t] \o queue'[t], SettledTrail'[t])
    <3>1. SettledTrail'[t] = SettledTrail[t] /\ queue'[t] = queue[t]
        BY <1>6a, <1>7, <2>10 DEF Lanes
    <3>2. QED
        BY <1>3, <2>2, <3>1
  <2>11. RelayAgrees(inHand'["relay"] \o queue'["relay"], SettledRelays', metrics'[backend'], ranked')
      BY <1>2, <1>3, <1>4, <1>6a, <1>7, <2>2 DEF Lanes
  <2>12. QED
      BY <2>9, <2>10, <2>11
<1>12. QED
    BY <1>3, <1>9, <1>10, <1>11 DEF MemInv

\* A ranking takes what is counted so far off the memory's counters.
LEMMA MemRanking ==
    ASSUME CountInv, MemInv, SetRelayRankings
    PROVE  MemInv'
<1>1. /\ Recording("rankings") /\ open.engine.call = "none"
      /\ mem' = [mem EXCEPT !.relays = NoOutcomes]
      /\ ranked' = [r \in Relays |-> [c \in Results |-> RelayTotal(r, c)]]
      /\ UNCHANGED <<queue, open>>
    BY DEF SetRelayRankings, bufferVars
<1>2. /\ UNCHANGED <<inHand, logs, metrics, backend, clean, flush>>
      /\ records' \in Nat /\ backend \in Backends /\ HandsEmpty'
    BY <1>1, RecordFrame
<1>3. MemTypes /\ DownEmpty /\ ShownAgrees
    BY DEF MemInv
<1>4. /\ IsShown(mem') /\ mem'.relays = NoOutcomes /\ mem'.trail = mem.trail
    BY <1>1, <1>3 DEF MemTypes, IsShown
<1>5. Waiting("relay") \in Seq(Outcomes) /\ metrics[backend] \in [Relays -> Marks]
  <2>1. /\ inHand["relay"] \in Seq(Outcomes) /\ queue["relay"] \in Seq(Outcomes)
        /\ metrics[backend] \in [Relays -> Marks]
      BY <1>2, <1>3 DEF MemTypes, Lanes, LaneItems
  <2>2. QED
      BY <2>1, ConcatProperties DEF Waiting
<1>6. ASSUME NEW r \in Relays, NEW o \in Results
      PROVE  /\ RelayTotal(r, o) = metrics[backend][r][o] + Cardinality(LateIn(Waiting("relay"), r, o))
             /\ RelayTotal(r, o) \in Nat
  <2>1. RelayTotal(r, o) = metrics[backend][r][o] + Cardinality(LateIn(Waiting("relay"), r, o))
      BY DEF RelayTotal, Late, LateIn
  <2>2. Cardinality(LateIn(Waiting("relay"), r, o)) \in Nat /\ metrics[backend][r][o] \in Nat
      BY <1>5, LateFinite DEF Marks
  <2>3. QED
      BY <2>1, <2>2
<1>7. ranked' \in [Relays -> Marks] /\ NoOutcomes \in [Relays -> Marks]
    BY <1>1, <1>6 DEF Marks, NoOutcomes
<1>8. MemTypes'
    BY <1>1, <1>2, <1>3, <1>4, <1>7 DEF MemTypes
<1>9. DownEmpty'
    BY <1>1, <1>2, <1>3 DEF DownEmpty, Up
<1>10. SettledRelays' = NoOutcomes /\ SettledTrail' = SettledTrail
    BY <1>1, <1>4 DEF SettledRelays, SettledTrail
<1>11. ShownAgrees'
  <2> SUFFICES ASSUME Up', clean'
               PROVE  /\ RelayAgrees(inHand'["relay"] \o queue'["relay"], SettledRelays', metrics'[backend'], ranked')
                      /\ \A t \in Trails :
                           TrailAgrees(logs'[backend'][t], inHand'[t] \o queue'[t], SettledTrail'[t])
      BY DEF ShownAgrees
  <2>1. \A t \in Trails : TrailAgrees(logs[backend][t], inHand[t] \o queue[t], SettledTrail[t])
      BY <1>2, <1>3 DEF ShownAgrees, Up
  <2>2. ASSUME NEW r \in Relays, NEW o \in Results
        PROVE  NoOutcomes[r][o] + ranked'[r][o] =
                 metrics[backend][r][o] + Cardinality(LateIn(Waiting("relay"), r, o))
    <3>1. NoOutcomes[r][o] = 0 /\ ranked'[r][o] = RelayTotal(r, o) /\ RelayTotal(r, o) \in Nat
        BY <1>1, <1>6 DEF NoOutcomes
    <3>2. 0 + RelayTotal(r, o) = RelayTotal(r, o)
        BY <3>1
    <3>3. QED
        BY <1>6, <3>1, <3>2
  <2>3. RelayAgrees(Waiting("relay"), NoOutcomes, metrics[backend], ranked')
      BY <2>2 DEF RelayAgrees
  <2>4. QED
      BY <1>1, <1>2, <1>10, <2>1, <2>3 DEF Waiting
<1>12. QED
    BY <1>2, <1>8, <1>9, <1>11 DEF MemInv

LEMMA MemRecordStep ==
    ASSUME CountInv, MemInv, Record
    PROVE  MemInv'
<1>0. MemTypes /\ IsShown(mem) /\ IsOpen(open)
    BY DEF MemInv, MemTypes
<1>1. UNCHANGED queue => DOMAIN queue' = Queues /\ \A t \in Lanes : queue'[t] = queue[t]
    BY <1>0 DEF MemTypes
<1>2. UNCHANGED mem => IsShown(mem') /\ mem'.relays = mem.relays /\ mem'.trail = mem.trail
    BY <1>0 DEF IsShown
<1>3. {"events", "telemetry", "unsupported"} \subseteq Queues \ Lanes
    BY DEF Queues, LogTables, Lanes, Trails
<1>3a. UNCHANGED open => IsOpen(open') /\ open'.engine = open.engine
    BY <1>0
<1>4. CASE Event
  <2>1. IsOpen(open') /\ open'.engine = open.engine
      BY <1>0, <1>4 DEF Event, IsOpen
  <2>2. DOMAIN queue' = Queues /\ \A t \in Lanes : queue'[t] = queue[t]
      BY <1>0, <1>3, <1>4, PushKept DEF Event
  <2>3. Recording("event") /\ UNCHANGED <<mem, ranked>>
      BY <1>4 DEF Event
  <2>4. QED
      BY <1>2, <2>1, <2>2, <2>3, RecordKept
<1>5. ASSUME NEW n, NEW d, RecordLatency(n, d) PROVE MemInv'
  <2>1. DOMAIN queue' = Queues /\ \A t \in Lanes : queue'[t] = queue[t]
      BY <1>0, <1>1, <1>3, <1>5, PushKept DEF RecordLatency
  <2>2. QED
      BY <1>2, <1>3a, <1>5, <2>1, RecordKept DEF RecordLatency
<1>6. ASSUME NEW n, RecordRejectReason(n) PROVE MemInv'
  <2>1. IsOpen(open') /\ open'.engine = open.engine
      BY <1>0, <1>6 DEF RecordRejectReason, IsOpen
  <2>2. QED
      BY <1>1, <1>2, <1>6, <2>1, RecordKept DEF RecordRejectReason
<1>7. ASSUME NEW n, RecordSelectorPerformance(n) PROVE MemInv'
    BY <1>1, <1>2, <1>3a, <1>7, RecordKept DEF RecordSelectorPerformance
<1>8. ASSUME NEW n, NEW s, RecordSelectorPoolPerformance(n, s) PROVE MemInv'
    BY <1>1, <1>2, <1>3a, <1>8, RecordKept DEF RecordSelectorPoolPerformance
<1>9. ASSUME NEW n, RecordOpportunityFunnel(n) PROVE MemInv'
  <2>1. IsOpen(open') /\ open'.engine = open.engine
      BY <1>0, <1>9 DEF RecordOpportunityFunnel, IsOpen
  <2>2. QED
      BY <1>1, <1>2, <1>9, <2>1, RecordKept DEF RecordOpportunityFunnel
<1>10. ASSUME NEW st, NEW s, RecordEdgeSample(st, s) PROVE MemInv'
  <2>1. IsShown(mem') /\ mem'.relays = mem.relays /\ mem'.trail = mem.trail
      BY <1>0, <1>10 DEF RecordEdgeSample, IsShown
  <2>2. IsOpen(open') /\ open'.engine = open.engine
    <3>1. UNCHANGED open \/ open' = [open EXCEPT !.selectors[s] = @ + 1]
        BY <1>10 DEF RecordEdgeSample
    <3>2. CASE open' = [open EXCEPT !.selectors[s] = @ + 1]
        BY <1>0, <3>2 DEF IsOpen
    <3>3. QED
        BY <1>3a, <3>1, <3>2
  <2>3. Recording("edge") /\ UNCHANGED <<queue, ranked>>
      BY <1>10 DEF RecordEdgeSample, bufferVars
  <2>4. QED
      BY <1>1, <2>1, <2>2, <2>3, RecordKept
<1>11. QED
    BY <1>4, <1>5, <1>6, <1>7, <1>8, <1>9, <1>10, MemRecordRelay, MemRecordTrail, MemRanking
       DEF Record

\* The second lock of a call: of the executor's, what was to be shown is
\* shown; of the others, relays and trails have no part in it.
LEMMA MemFinishStep ==
    ASSUME CountInv, MemInv, Finish
    PROVE  MemInv'
<1>0. MemTypes /\ HandsEmpty /\ DownEmpty /\ ShownAgrees /\ IsShown(mem) /\ IsOpen(open)
    BY DEF MemInv, MemTypes
<1>1. /\ UNCHANGED <<inHand, logs, metrics, backend, clean, flush, records, ranked>>
      /\ backend \in Backends
    BY DEF Finish, EventShown, RejectListed, FunnelCounted, UnsupportedBuffered, ExecutorListed,
           flushVars, storeVars, procVars, Up, CountInv, CountTypes
<1>2. HandsEmpty'
    BY <1>0, <1>1 DEF HandsEmpty
<1>3. ASSUME IsShown(mem'), mem'.relays = mem.relays, mem'.trail = mem.trail,
             IsOpen(open'), open'.engine = open.engine,
             DOMAIN queue' = Queues, \A t \in Lanes : queue'[t] = queue[t]
      PROVE  MemInv'
  <2>1. Kept
      BY <1>0, <1>1, <1>3 DEF Kept, MemTypes
  <2>2. QED
      BY <1>2, <2>1, KeptStep
<1>4. UNCHANGED queue => DOMAIN queue' = Queues /\ \A t \in Lanes : queue'[t] = queue[t]
    BY <1>0 DEF MemTypes
<1>5. ASSUME NEW e \in open.events, EventShown(e) PROVE MemInv'
  <2>1. IsShown(mem') /\ mem'.relays = mem.relays /\ mem'.trail = mem.trail
      BY <1>0, <1>5 DEF EventShown, IsShown
  <2>2. IsOpen(open') /\ open'.engine = open.engine /\ UNCHANGED queue
      BY <1>0, <1>5 DEF EventShown, IsOpen, bufferVars
  <2>3. QED
      BY <1>3, <1>4, <2>1, <2>2
<1>6. ASSUME NEW n, RejectListed(n) PROVE MemInv'
  <2>1. IsShown(mem') /\ mem'.relays = mem.relays /\ mem'.trail = mem.trail
      BY <1>0, <1>6 DEF RejectListed, IsShown
  <2>2. IsOpen(open') /\ open'.engine = open.engine /\ UNCHANGED queue
      BY <1>0, <1>6 DEF RejectListed, IsOpen, bufferVars
  <2>3. QED
      BY <1>3, <1>4, <2>1, <2>2
<1>7. ASSUME NEW n, FunnelCounted(n) PROVE MemInv'
  <2>1. IsShown(mem') /\ mem'.relays = mem.relays /\ mem'.trail = mem.trail
      BY <1>0, <1>7 DEF FunnelCounted, IsShown
  <2>2. IsOpen(open') /\ open'.engine = open.engine /\ UNCHANGED queue
      BY <1>0, <1>7 DEF FunnelCounted, IsOpen, bufferVars
  <2>3. QED
      BY <1>3, <1>4, <2>1, <2>2
<1>8. ASSUME NEW s, UnsupportedBuffered(s) PROVE MemInv'
  <2>1. "unsupported" \in Queues \ Lanes
      BY DEF Queues, Lanes, Trails
  <2>2. DOMAIN queue' = Queues /\ \A t \in Lanes : queue'[t] = queue[t]
      BY <1>0, <1>8, <2>1, PushKept DEF UnsupportedBuffered
  <2>3. IsOpen(open') /\ open'.engine = open.engine /\ UNCHANGED mem
      BY <1>0, <1>8 DEF UnsupportedBuffered, IsOpen
  <2>4. QED
      BY <1>0, <1>3, <2>2, <2>3
<1>9. CASE ExecutorListed
  <2>1. /\ mem' = [mem EXCEPT !.relays = SettledRelays, !.trail = SettledTrail]
        /\ open' = [open EXCEPT !.engine = NoCall] /\ UNCHANGED queue
      BY <1>9 DEF ExecutorListed, bufferVars
  <2>2. IsShown(mem') /\ mem'.relays = SettledRelays /\ mem'.trail = SettledTrail
    <3> DEFINE a == SettledRelays
               b == SettledTrail
    <3>1. mem' = [mem EXCEPT !.relays = a, !.trail = b]
        BY <2>1
    <3> HIDE DEF a, b
    <3>2. IsShown(mem') /\ mem'.relays = a /\ mem'.trail = b
        BY <1>0, <3>1 DEF IsShown
    <3>3. QED
        BY <3>2 DEF a, b
  <2>3. IsOpen(open') /\ open'.engine.call = "none"
      BY <1>0, <2>1, EngineOpened DEF NoCall
  <2>4. SettledRelays \in [Relays -> Marks] /\ DOMAIN SettledTrail = Trails
      BY <1>0, SettledType DEF SettledTrail, Trails
  <2>5. /\ SettledRelays' = SettledRelays
        /\ \A t \in Trails : SettledTrail'[t] = SettledTrail[t]
    <3>1. SettledRelays' = mem'.relays /\ \A t \in Trails : SettledTrail'[t] = mem'.trail[t]
        BY <2>3 DEF SettledRelays, SettledTrail, Trails
    <3>2. QED
        BY <2>2, <3>1
  <2>6. MemTypes'
    <3>1. mem'.relays \in [Relays -> Marks] /\ DOMAIN mem'.trail = Trails
        BY <2>2, <2>4
    <3>2. QED
        BY <1>0, <1>1, <2>1, <2>2, <2>3, <3>1 DEF MemTypes
  <2>7. DownEmpty'
    <3>1. Up'
        BY <1>1 DEF Up, Backends
    <3>2. QED
        BY <3>1 DEF DownEmpty
  <2>8. ShownAgrees'
    <3>1. ASSUME Up', clean'
          PROVE  /\ RelayAgrees(inHand["relay"] \o queue["relay"], SettledRelays, metrics[backend], ranked)
                 /\ \A t \in Trails :
                      TrailAgrees(logs[backend][t], inHand[t] \o queue[t], SettledTrail[t])
        BY <1>0, <1>1, <3>1 DEF ShownAgrees, Up
    <3>2. QED
        BY <1>1, <2>1, <2>5, <3>1 DEF ShownAgrees
  <2>9. QED
      BY <1>2, <2>6, <2>7, <2>8 DEF MemInv
<1>10. QED
    BY <1>5, <1>6, <1>7, <1>8, <1>9 DEF Finish

\* mem::take moves what is buffered into the flush's empty hand.
LEMMA MemTakeStep ==
    ASSUME CountInv, MemInv, FlushTake
    PROVE  MemInv'
<1>1. MemTypes /\ HandsEmpty /\ DownEmpty /\ ShownAgrees
    BY DEF MemInv
<1>2. /\ UNCHANGED <<logs, metrics, memVars, backend, clean, records>> /\ queue' = NoItems
      /\ inHand' = [queue EXCEPT !["events"] = IF Enabled("events") THEN @ ELSE <<>>]
      /\ flush = "idle" /\ flush' = "before" /\ backend \in Backends /\ Up
    BY DEF FlushTake, storeVars, procVars, Up, CountInv, CountTypes
<1>3. /\ DOMAIN queue' = Queues /\ DOMAIN inHand' = Queues
      /\ \A t \in Lanes : queue'[t] = <<>> /\ inHand'[t] = queue[t]
    BY <1>1, <1>2, QueuesHaveLanes DEF MemTypes, NoItems, Lanes, Trails
<1>4. \A t \in Lanes : inHand[t] = <<>>
    BY <1>1, <1>2 DEF HandsEmpty, Lanes
<1>5. \A t \in Lanes : inHand'[t] \o queue'[t] = inHand[t] \o queue[t]
  <2> SUFFICES ASSUME NEW t \in Lanes PROVE inHand'[t] \o queue'[t] = inHand[t] \o queue[t]
      OBVIOUS
  <2>1. queue[t] \in Seq(LaneItems(t))
      BY <1>1 DEF MemTypes
  <2>2. queue[t] \o <<>> = queue[t] /\ <<>> \o queue[t] = queue[t]
      BY <2>1, ConcatEmptySeq
  <2>3. QED
      BY <1>3, <1>4, <2>2
<1>6. MemTypes'
  <2>1. \A t \in Lanes : queue'[t] \in Seq(LaneItems(t)) /\ inHand'[t] \in Seq(LaneItems(t))
      BY <1>1, <1>3, EmptySeq DEF MemTypes
  <2>2. QED
      BY <1>1, <1>2, <1>3, <2>1 DEF MemTypes
<1>7. HandsEmpty' /\ DownEmpty'
    BY <1>2 DEF HandsEmpty, DownEmpty, Up
<1>8. ShownAgrees'
  <2>1. "relay" \in Lanes /\ Trails \subseteq Lanes
      BY DEF Lanes
  <2>2. SettledRelays' = SettledRelays /\ SettledTrail' = SettledTrail
      BY <1>2, SettledUnchanged
  <2>3. QED
      BY <1>1, <1>2, <1>5, <2>1, <2>2 DEF ShownAgrees
<1>9. QED
    BY <1>6, <1>7, <1>8 DEF MemInv

\* A write that fails: what is lost with it is no longer compared.
LEMMA MemFailedItem ==
    ASSUME CountInv, MemInv, NEW u \in Lanes, FlushItem(u, FALSE)
    PROVE  MemInv'
<1>1. MemTypes /\ HandsEmpty /\ DownEmpty
    BY DEF MemInv
<1>2. /\ UNCHANGED <<queue, logs, metrics, memVars, backend, flush, records>> /\ Up
      /\ inHand' = [inHand EXCEPT ![u] = Tail(@)] /\ clean' = FALSE
    BY DEF FlushItem, Write, bufferVars
<1>3. u \in Queues /\ inHand[u] # <<>> /\ inHand[u] \in Seq(LaneItems(u))
  <2>1. u \notin Rollups
      BY DEF Lanes, Trails, Rollups
  <2>2. QED
      BY <1>1, <2>1, QueuesHaveLanes DEF MemTypes, FlushItem, Turn, Left
<1>4. /\ DOMAIN inHand' = Queues /\ inHand'[u] = Tail(inHand[u])
      /\ \A t \in Lanes : t # u => inHand'[t] = inHand[t]
    BY <1>1, <1>2, <1>3, QueuesHaveLanes DEF MemTypes
<1>5. Tail(inHand[u]) \in Seq(LaneItems(u))
    BY <1>3, HeadTailProperties
<1>6. MemTypes'
  <2>1. \A t \in Lanes : inHand'[t] \in Seq(LaneItems(t))
      BY <1>1, <1>4, <1>5 DEF MemTypes
  <2>2. QED
      BY <1>1, <1>2, <1>4, <2>1 DEF MemTypes
<1>7. HandsEmpty'
  <2>1. \A t \in Lanes : inHand[t] = <<>> => inHand'[t] = <<>>
      BY <1>3, <1>4
  <2>2. QED
      BY <1>1, <1>2, <2>1 DEF HandsEmpty, Lanes
<1>8. DownEmpty' /\ ShownAgrees'
    BY <1>2 DEF DownEmpty, ShownAgrees, Up
<1>9. QED
    BY <1>6, <1>7, <1>8 DEF MemInv

LEMMA MemRelayItem ==
    ASSUME CountInv, MemInv, FlushItem("relay", TRUE)
    PROVE  MemInv'
<1>1. MemTypes /\ HandsEmpty /\ DownEmpty /\ ShownAgrees
    BY DEF MemInv
<1> DEFINE hand == inHand["relay"]
           x == Head(hand)
<1>2. /\ UNCHANGED <<queue, memVars, backend, flush, records, clean>> /\ Up /\ backend \in Backends
      /\ inHand' = [inHand EXCEPT !["relay"] = Tail(@)]
      /\ metrics' = [metrics EXCEPT ![backend][x.relay] = Outcome(@, x.result)]
      /\ UNCHANGED logs
    BY DEF FlushItem, Write, bufferVars, Store, StoreRelay, Up, CountInv, CountTypes
<1>3. hand # <<>> /\ hand \in Seq(Outcomes) /\ queue["relay"] \in Seq(Outcomes)
    BY <1>1 DEF MemTypes, FlushItem, Turn, Left, Lanes, LaneItems, Rollups
<1>4. Tail(hand) \in Seq(Outcomes) /\ x \in Outcomes
    BY <1>3, HeadTailProperties
<1>5. x.relay \in Relays /\ x.result \in Results
    BY <1>4 DEF Outcomes
<1>6. /\ DOMAIN inHand' = Queues /\ inHand'["relay"] = Tail(hand)
      /\ \A t \in Trails : inHand'[t] = inHand[t]
    BY <1>1, <1>2 DEF MemTypes, Queues, Trails
<1> HIDE DEF x, hand
<1>7. metrics \in [Backends -> [Relays -> Marks]] /\ metrics[backend] \in [Relays -> Marks]
    BY <1>1, <1>2 DEF MemTypes
<1>8. /\ metrics'[backend] = [metrics[backend] EXCEPT ![x.relay] = Outcome(@, x.result)]
      /\ \A db \in Backends : db # backend => metrics'[db] = metrics[db]
      /\ metrics' \in [Backends -> [Relays -> Marks]]
  <2> DEFINE row == Outcome(metrics[backend][x.relay], x.result)
  <2>1. row \in Marks
      BY <1>5, <1>7, OutcomeCounts
  <2>2. metrics' = [metrics EXCEPT ![backend] = [metrics[backend] EXCEPT ![x.relay] = row]]
      BY <1>2, <1>7
  <2> HIDE DEF row
  <2>3. [metrics[backend] EXCEPT ![x.relay] = row] \in [Relays -> Marks]
      BY <1>5, <1>7, <2>1
  <2>4. QED
      BY <1>2, <1>7, <2>2, <2>3 DEF row
<1>9. MemTypes'
  <2>1. \A t \in Lanes : inHand'[t] \in Seq(LaneItems(t))
      BY <1>1, <1>4, <1>6 DEF MemTypes, Lanes, LaneItems, Trails
  <2>2. QED
      BY <1>1, <1>2, <1>6, <1>8, <2>1 DEF MemTypes
<1>10. HandsEmpty'
    BY <1>1, <1>2, <1>3, <1>6 DEF HandsEmpty, hand
<1>11. DownEmpty'
    BY <1>2 DEF DownEmpty, Up
<1>12. ShownAgrees'
  <2> SUFFICES ASSUME Up', clean'
               PROVE  /\ RelayAgrees(inHand'["relay"] \o queue'["relay"], SettledRelays', metrics'[backend'], ranked')
                      /\ \A t \in Trails :
                           TrailAgrees(logs'[backend'][t], inHand'[t] \o queue'[t], SettledTrail'[t])
      BY DEF ShownAgrees
  <2> DEFINE w == hand \o queue["relay"]
  <2>1. /\ RelayAgrees(w, SettledRelays, metrics[backend], ranked)
        /\ \A t \in Trails : TrailAgrees(logs[backend][t], inHand[t] \o queue[t], SettledTrail[t])
      BY <1>1, <1>2 DEF ShownAgrees, hand
  <2>2. /\ w \in Seq(Outcomes) /\ w # <<>>
        /\ Tail(hand) \o queue["relay"] = Tail(w) /\ Head(w) = x
      BY <1>3, WaitingTail DEF x
  <2> HIDE DEF w
  <2>2a. SettledRelays' = SettledRelays /\ SettledTrail' = SettledTrail
      BY <1>2, SettledUnchanged
  <2>3. SettledRelays \in [Relays -> Marks] /\ ranked \in [Relays -> Marks]
      BY <1>1, SettledType DEF MemTypes
  <2>4. RelayAgrees(Tail(w), SettledRelays,
          [metrics[backend] EXCEPT ![Head(w).relay] = Outcome(@, Head(w).result)], ranked)
      BY <1>7, <2>1, <2>2, <2>3, RelayWritten
  <2>5. RelayAgrees(inHand'["relay"] \o queue'["relay"], SettledRelays', metrics'[backend'], ranked')
      BY <1>2, <1>6, <1>8, <2>2, <2>2a, <2>4
  <2>6. QED
      BY <1>2, <1>6, <2>1, <2>2a, <2>5
<1>13. QED
    BY <1>9, <1>10, <1>11, <1>12 DEF MemInv

LEMMA MemTrailItem ==
    ASSUME CountInv, MemInv, NEW u \in Trails, FlushItem(u, TRUE)
    PROVE  MemInv'
<1>1. MemTypes /\ HandsEmpty /\ DownEmpty /\ ShownAgrees
    BY DEF MemInv
<1> DEFINE hand == inHand[u]
           entry == [id |-> Head(hand), at |-> clock]
<1>2. /\ UNCHANGED <<queue, memVars, backend, flush, records, clean, metrics>> /\ Up
      /\ backend \in Backends /\ clock \in Int
      /\ inHand' = [inHand EXCEPT ![u] = Tail(@)]
      /\ logs' = [logs EXCEPT ![backend][u] = Append(@, entry)]
  <2>1. u = "treasury" \/ u = "outcomes"
      BY DEF Trails
  <2>2. QED
      BY <2>1 DEF FlushItem, Write, bufferVars, Store, StoreTreasury, StoreOutcome, Logged, Up,
                  CountInv, CountTypes
<1>3. /\ hand # <<>> /\ hand \in Seq(Ids) /\ queue[u] \in Seq(Ids)
      /\ u \in Queues /\ u \in Lanes /\ u # "relay" /\ u \in LogTables
  <2>1. u \in Queues /\ u \in Lanes /\ u # "relay" /\ u \in LogTables /\ u \notin Rollups
      BY QueuesHaveLanes DEF Trails, Lanes, Rollups
  <2>2. QED
      BY <1>1, <2>1 DEF MemTypes, FlushItem, Turn, Left, LaneItems
<1>4. Tail(hand) \in Seq(Ids) /\ Head(hand) \in Ids
    BY <1>3, HeadTailProperties
<1>5. entry \in Entries
    BY <1>2, <1>4 DEF Entries
<1>6. /\ DOMAIN inHand' = Queues /\ inHand'[u] = Tail(hand)
      /\ \A t \in Lanes : t # u => inHand'[t] = inHand[t]
    BY <1>1, <1>2, <1>3, QueuesHaveLanes DEF MemTypes
<1>7. /\ DOMAIN logs = Backends
      /\ \A db \in Backends : DOMAIN logs[db] = LogTables
                              /\ \A t \in Trails : logs[db][t] \in Seq(Entries)
    BY <1>1 DEF MemTypes
<1> HIDE DEF entry, hand
<1>8. /\ DOMAIN logs' = Backends
      /\ logs'[backend] = [logs[backend] EXCEPT ![u] = Append(@, entry)]
      /\ \A db \in Backends : db # backend => logs'[db] = logs[db]
    BY <1>2, <1>7
<1>9. /\ DOMAIN logs'[backend] = LogTables
      /\ logs'[backend][u] = Append(logs[backend][u], entry)
      /\ \A t \in Trails : t # u => logs'[backend][t] = logs[backend][t]
    BY <1>2, <1>3, <1>7, <1>8
<1>10. Append(logs[backend][u], entry) \in Seq(Entries)
    BY <1>2, <1>5, <1>7, AppendProperties
<1>11. MemTypes'
  <2>1. \A t \in Lanes : inHand'[t] \in Seq(LaneItems(t))
      BY <1>1, <1>3, <1>4, <1>6 DEF MemTypes, LaneItems
  <2>2. \A db \in Backends : DOMAIN logs'[db] = LogTables
                            /\ \A t \in Trails : logs'[db][t] \in Seq(Entries)
      BY <1>7, <1>8, <1>9, <1>10
  <2>3. QED
      BY <1>1, <1>2, <1>6, <1>8, <2>1, <2>2 DEF MemTypes
<1>12. HandsEmpty'
  <2>1. \A t \in Lanes : inHand[t] = <<>> => inHand'[t] = <<>>
      BY <1>3, <1>6 DEF hand
  <2>2. QED
      BY <1>1, <1>2, <2>1 DEF HandsEmpty, Lanes
<1>13. DownEmpty'
    BY <1>2 DEF DownEmpty, Up
<1>14. ShownAgrees'
  <2> SUFFICES ASSUME Up', clean'
               PROVE  /\ RelayAgrees(inHand'["relay"] \o queue'["relay"], SettledRelays', metrics'[backend'], ranked')
                      /\ \A t \in Trails :
                           TrailAgrees(logs'[backend'][t], inHand'[t] \o queue'[t], SettledTrail'[t])
      BY DEF ShownAgrees
  <2>1. /\ RelayAgrees(inHand["relay"] \o queue["relay"], SettledRelays, metrics[backend], ranked)
        /\ \A t \in Trails : TrailAgrees(logs[backend][t], inHand[t] \o queue[t], SettledTrail[t])
      BY <1>1, <1>2 DEF ShownAgrees
  <2> DEFINE w == hand \o queue[u]
             log == logs[backend][u]
  <2>1a. SettledRelays' = SettledRelays /\ SettledTrail' = SettledTrail
      BY <1>2, SettledUnchanged
  <2>2. /\ w \in Seq(Ids) /\ w # <<>>
        /\ Tail(hand) \o queue[u] = Tail(w) /\ Head(w) = Head(hand)
      BY <1>3, WaitingTail
  <2>3. SettledTrail[u] = Newest(IdsOf(log) \o w, TrailCap) /\ log \in Seq(Entries)
      BY <1>2, <1>7, <2>1 DEF TrailAgrees, hand
  <2>4. logs'[backend'][u] = Append(log, entry) /\ inHand'[u] \o queue'[u] = Tail(w)
      BY <1>2, <1>6, <1>9, <2>2
  <2> HIDE DEF w, log
  <2>5. IdsOf(Append(log, entry)) \o Tail(w) = IdsOf(log) \o w
      BY <1>2, <2>2, <2>3, LogWritten DEF entry
  <2>6. TrailAgrees(logs'[backend'][u], inHand'[u] \o queue'[u], SettledTrail'[u])
      BY <1>2, <2>1a, <2>3, <2>4, <2>5 DEF TrailAgrees
  <2>7. ASSUME NEW t \in Trails, t # u
        PROVE  TrailAgrees(logs'[backend'][t], inHand'[t] \o queue'[t], SettledTrail'[t])
    <3>1. inHand'[t] = inHand[t]
        BY <1>6, <2>7 DEF Lanes
    <3>2. QED
        BY <1>2, <1>9, <2>1, <2>1a, <2>7, <3>1
  <2>8. RelayAgrees(inHand'["relay"] \o queue'["relay"], SettledRelays', metrics'[backend'], ranked')
      BY <1>2, <1>3, <1>6, <2>1, <2>1a DEF Lanes
  <2>9. QED
      BY <2>6, <2>7, <2>8
<1>15. QED
    BY <1>11, <1>12, <1>13, <1>14 DEF MemInv

\* The other tables.
LEMMA MemOtherItem ==
    ASSUME CountInv, MemInv, NEW u \in Queues \ Lanes, NEW ok \in BOOLEAN, FlushItem(u, ok)
    PROVE  MemInv'
<1>1. MemTypes /\ HandsEmpty
    BY DEF MemInv
<1>2. /\ UNCHANGED <<queue, memVars, backend, flush, records>> /\ backend \in Backends
      /\ inHand' = [inHand EXCEPT ![u] = Tail(@)] /\ (clean' => clean)
    BY DEF FlushItem, Write, bufferVars, Up, CountInv, CountTypes
<1>3. DOMAIN inHand' = Queues /\ \A t \in Lanes : inHand'[t] = inHand[t]
    BY <1>1, <1>2 DEF MemTypes
<1>4. u \notin {"treasury", "outcomes", "relay"}
    BY DEF Lanes, Trails
<1>5. UNCHANGED metrics
    BY <1>4 DEF FlushItem, Store, LogEvent, LogTelemetry, Logged, StoreUnsupported
<1>6. /\ DOMAIN logs = Backends /\ \A db \in Backends : DOMAIN logs[db] = LogTables
    BY <1>1 DEF MemTypes
<1>7. /\ DOMAIN logs' = Backends
      /\ \A db \in Backends : /\ DOMAIN logs'[db] = LogTables
                              /\ \A t \in Trails : logs'[db][t] = logs[db][t]
  <2>1. CASE UNCHANGED logs
      BY <1>6, <2>1
  <2>2. ASSUME NEW v \in {"events", "telemetry"}, NEW x, Logged(v, x)
        PROVE  /\ DOMAIN logs' = Backends
               /\ \A db \in Backends : /\ DOMAIN logs'[db] = LogTables
                                       /\ \A t \in Trails : logs'[db][t] = logs[db][t]
    <3> DEFINE e == [id |-> x, at |-> clock]
    <3>1. logs' = [logs EXCEPT ![backend][v] = Append(@, e)]
        BY <2>2 DEF Logged
    <3> HIDE DEF e
    <3>2. v \notin Trails /\ v \in LogTables
        BY DEF Trails, LogTables
    <3>3. /\ DOMAIN logs' = Backends
          /\ logs'[backend] = [logs[backend] EXCEPT ![v] = Append(@, e)]
          /\ \A db \in Backends : db # backend => logs'[db] = logs[db]
        BY <1>2, <1>6, <3>1
    <3>4. DOMAIN logs'[backend] = LogTables /\ \A t \in Trails : logs'[backend][t] = logs[backend][t]
        BY <1>2, <1>6, <3>2, <3>3, QueuesHaveLanes
    <3>5. QED
        BY <1>6, <3>3, <3>4
  <2>3. QED
      BY <1>4, <2>1, <2>2 DEF FlushItem, Store, LogEvent, LogTelemetry, StoreUnsupported
<1>8. HandsEmpty'
    BY <1>1, <1>2, <1>3 DEF HandsEmpty, Lanes
<1>9. Kept
    BY <1>1, <1>2, <1>3, <1>5, <1>7 DEF Kept, MemTypes, IsShown
<1>10. QED
    BY <1>8, <1>9, KeptStep

\* A prune does not reach the trails.
LEMMA PrunedTrails ==
    ASSUME MemTypes, NEW db \in Backends, Prune(db)
    PROVE  /\ DOMAIN logs' = Backends
           /\ \A d \in Backends : /\ DOMAIN logs'[d] = LogTables
                                  /\ \A t \in Trails : logs'[d][t] = logs[d][t]
<1>1. PICK n \in 0..Len(PruneOrder) : logs' = PrunedLogs(db, n)
    BY DEF Prune
<1>2. \A t \in Trails : t \notin Reached(n)
  <2>1. Len(PruneOrder) = 7
      BY DEF PruneOrder
  <2>2. \A i \in 1..7 : PruneOrder[i] \notin Trails
      BY DEF PruneOrder, Trails
  <2>3. \A i \in 1..n : i \in 1..7
      BY <2>1
  <2>4. QED
      BY <2>2, <2>3 DEF Reached
<1>3. DOMAIN logs = Backends /\ \A d \in Backends : DOMAIN logs[d] = LogTables
    BY DEF MemTypes
<1>4. /\ DOMAIN logs' = Backends
      /\ logs'[db] = [t \in LogTables |->
                        IF t \in Reached(n) THEN Unexpired(logs[db][t]) ELSE logs[db][t]]
      /\ \A d \in Backends : d # db => logs'[d] = logs[d]
    BY <1>1, <1>3 DEF PrunedLogs
<1>5. DOMAIN logs'[db] = LogTables /\ \A t \in Trails : logs'[db][t] = logs[db][t]
    BY <1>2, <1>4, QueuesHaveLanes
<1>6. QED
    BY <1>3, <1>4, <1>5

\* When the prune is reached the relays have been written, and when the flush
\* ends the trails.
LEMMA MemFlushStep ==
    ASSUME CountInv, MemInv, FlushPrune \/ FlushDone
    PROVE  MemInv'
<1>1. MemTypes /\ HandsEmpty
    BY DEF MemInv
<1>2. /\ UNCHANGED <<queue, inHand, metrics, memVars, backend, clean, records>>
      /\ backend \in Backends
    BY DEF FlushPrune, FlushDone, bufferVars, storeVars, procVars, Up, CountInv, CountTypes
<1>3. /\ DOMAIN logs' = Backends
      /\ \A d \in Backends : /\ DOMAIN logs'[d] = LogTables
                             /\ \A t \in Trails : logs'[d][t] = logs[d][t]
  <2>1. UNCHANGED logs \/ Prune(backend)
      BY DEF FlushPrune, FlushDone, storeVars
  <2>2. CASE UNCHANGED logs
      BY <1>1, <2>2 DEF MemTypes
  <2>3. CASE Prune(backend)
      BY <1>1, <1>2, <2>3, PrunedTrails
  <2>4. QED
      BY <2>1, <2>2, <2>3
<1>4. Kept
    BY <1>1, <1>2, <1>3 DEF Kept, MemTypes, IsShown
<1>5. CASE FlushPrune
  <2>1. flush = "before" /\ flush' = "after" /\ Written
      BY <1>5 DEF FlushPrune
  <2>2. Order = BeforePrune /\ BeforePrune[8] = "relay" /\ 8 \in DOMAIN BeforePrune
      BY <2>1 DEF Order, BeforePrune
  <2>3. ~Left("relay")
      BY <2>1, <2>2 DEF Written
  <2>4. inHand["relay"] = <<>>
      BY <2>3 DEF Left, Rollups
  <2>5. QED
      BY <1>2, <1>4, <2>1, <2>4, KeptStep DEF HandsEmpty
<1>6. CASE FlushDone
  <2>1. flush = "after" /\ flush' = "idle" /\ Written
      BY <1>6 DEF FlushDone
  <2>2. /\ Order = AfterPrune /\ AfterPrune[1] = "treasury" /\ AfterPrune[2] = "outcomes"
        /\ {1, 2} \subseteq DOMAIN AfterPrune
      BY <2>1 DEF Order, AfterPrune
  <2>3. ~Left("treasury") /\ ~Left("outcomes")
      BY <2>1, <2>2 DEF Written
  <2>4. \A t \in Trails : inHand[t] = <<>>
      BY <2>3 DEF Left, Rollups, Trails
  <2>5. QED
      BY <1>1, <1>2, <1>4, <2>1, <2>4, KeptStep DEF HandsEmpty
<1>7. QED
    BY <1>5, <1>6

\* A clear is about events only.
LEMMA MemClearStep ==
    ASSUME CountInv, MemInv,
           ClearPending \/ ClearRecent \/ \E ok \in BOOLEAN : ClearStored(ok)
    PROVE  MemInv'
<1>1. MemTypes /\ HandsEmpty
    BY DEF MemInv
<1>2. /\ UNCHANGED <<inHand, flush, metrics, backend, clean, records, open, ranked>> /\ backend \in Backends
    BY DEF ClearPending, ClearRecent, ClearStored, flushVars, storeVars, procVars, Up,
           CountInv, CountTypes
<1>3. "events" \notin Lanes /\ "events" \notin Trails
    BY DEF Lanes, Trails
<1>4. DOMAIN queue' = Queues /\ \A t \in Lanes : queue'[t] = queue[t]
  <2>1. UNCHANGED queue \/ queue' = [queue EXCEPT !["events"] = <<>>]
      BY DEF ClearPending, ClearRecent, ClearStored, bufferVars
  <2>2. QED
      BY <1>1, <1>3, <2>1, QueuesHaveLanes DEF MemTypes
<1>5. IsShown(mem') /\ mem'.relays = mem.relays /\ mem'.trail = mem.trail
  <2>1. UNCHANGED mem \/ mem' = [mem EXCEPT !.recent = <<>>]
      BY DEF ClearPending, ClearRecent, ClearStored
  <2>2. CASE UNCHANGED mem
      BY <1>1, <2>2 DEF MemTypes, IsShown
  <2>3. CASE mem' = [mem EXCEPT !.recent = <<>>]
      BY <1>1, <2>3 DEF MemTypes, IsShown
  <2>4. QED
      BY <2>1, <2>2, <2>3
<1>6. /\ DOMAIN logs' = Backends
      /\ \A d \in Backends : /\ DOMAIN logs'[d] = LogTables
                             /\ \A t \in Trails : logs'[d][t] = logs[d][t]
  <2>1. UNCHANGED logs \/ logs' = [logs EXCEPT ![backend]["events"] = <<>>]
      BY DEF ClearPending, ClearRecent, ClearStored, storeVars
  <2>2. DOMAIN logs = Backends /\ \A d \in Backends : DOMAIN logs[d] = LogTables
      BY <1>1 DEF MemTypes
  <2>3. QED
      BY <1>2, <1>3, <2>1, <2>2, QueuesHaveLanes
<1>7. HandsEmpty'
    BY <1>1, <1>2 DEF HandsEmpty
<1>8. Kept
    BY <1>1, <1>2, <1>4, <1>5, <1>6 DEF Kept, MemTypes
<1>9. QED
    BY <1>7, <1>8, KeptStep

LEMMA MemCrashStep ==
    ASSUME MemInv, Crash
    PROVE  MemInv'
<1>1. MemTypes
    BY DEF MemInv
<1>2. /\ backend' = "down" /\ queue' = NoItems /\ inHand' = NoItems
      /\ UNCHANGED <<logs, metrics, mem, ranked, records>> /\ open' = NoneOpen
    BY DEF Crash, storeVars
<1>3. DOMAIN NoItems = Queues /\ \A t \in Lanes : NoItems[t] = <<>>
    BY QueuesHaveLanes DEF NoItems
<1>3a. IsOpen(NoneOpen) /\ NoneOpen.engine.call = "none"
    BY DEF IsOpen, NoneOpen, NoCall
<1>4. MemTypes'
  <2>1. \A t \in Lanes : queue'[t] \in Seq(LaneItems(t)) /\ inHand'[t] \in Seq(LaneItems(t))
      BY <1>2, <1>3, EmptySeq
  <2>2. QED
      BY <1>1, <1>2, <1>3, <1>3a, <2>1 DEF MemTypes
<1>5. HandsEmpty' /\ DownEmpty'
    BY <1>2, <1>3, <1>3a DEF HandsEmpty, DownEmpty, Lanes
<1>6. ShownAgrees'
    BY <1>2 DEF ShownAgrees, Up
<1>7. QED
    BY <1>4, <1>5, <1>6 DEF MemInv

\* What a start remembers is what is stored, and nothing waits.
LEMMA RememberedAgrees ==
    ASSUME NEW db \in Backends, metrics \in [Backends -> [Relays -> Marks]], NEW log,
           \A t \in Trails : log[t] \in Seq(Entries)
    PROVE  /\ IsShown(Remembered(db, log)) /\ Remembered(db, log).relays = metrics[db]
           /\ DOMAIN Remembered(db, log).trail = Trails
           /\ \A t \in Trails : TrailAgrees(log[t], <<>>, Remembered(db, log).trail[t])
<1>1. /\ IsShown(Remembered(db, log)) /\ Remembered(db, log).relays = metrics[db]
      /\ Remembered(db, log).trail =
           [t \in Trails |-> IF t = "treasury" THEN TreasuryTrail(log) ELSE ExecutionOutcomes(log)]
    BY DEF IsShown, Remembered, RelayRankings, Trails
<1>2. ASSUME NEW t \in Trails
      PROVE  TrailAgrees(log[t], <<>>, Remembered(db, log).trail[t])
  <2>1. Remembered(db, log).trail[t] = Newest(IdsOf(log[t]), TrailCap)
      BY <1>1 DEF TreasuryTrail, ExecutionOutcomes, NewestIds, IdsOf, Trails
  <2>2. IdsOf(log[t]) \o <<>> = IdsOf(log[t])
      BY IdsType, ConcatEmptySeq
  <2>3. QED
      BY <2>1, <2>2 DEF TrailAgrees
<1>3. QED
    BY <1>1, <1>2

LEMMA MemRestartStep ==
    ASSUME MemInv, NEW db \in Backends, Restart(db)
    PROVE  MemInv'
<1>1. MemTypes /\ HandsEmpty /\ DownEmpty
    BY DEF MemInv
<1>2. /\ UNCHANGED <<queue, inHand, flush, metrics, records>> /\ backend' = db /\ ~Up
      /\ Prune(db) /\ mem' = Remembered(db, logs'[db]) /\ UNCHANGED open /\ ranked' = NoOutcomes
    BY DEF Restart, bufferVars, Up
<1>3. /\ DOMAIN logs' = Backends
      /\ \A d \in Backends : /\ DOMAIN logs'[d] = LogTables
                             /\ \A t \in Trails : logs'[d][t] \in Seq(Entries)
    BY <1>1, <1>2, PrunedTrails DEF MemTypes
<1>4. metrics \in [Backends -> [Relays -> Marks]] /\ metrics[db] \in [Relays -> Marks]
    BY <1>1 DEF MemTypes
<1> DEFINE log == logs'[db]
<1>5. \A t \in Trails : log[t] \in Seq(Entries)
    BY <1>3
<1> HIDE DEF log
<1>6. /\ IsShown(Remembered(db, log)) /\ Remembered(db, log).relays = metrics[db]
      /\ DOMAIN Remembered(db, log).trail = Trails
      /\ \A t \in Trails : TrailAgrees(log[t], <<>>, Remembered(db, log).trail[t])
    BY <1>4, <1>5, RememberedAgrees
<1>7. /\ IsShown(mem') /\ mem'.relays = metrics[db] /\ DOMAIN mem'.trail = Trails
      /\ \A t \in Trails : TrailAgrees(logs'[db][t], <<>>, mem'.trail[t])
    BY <1>2, <1>6 DEF log
<1>8. MemTypes'
  <2>1. NoOutcomes \in [Relays -> Marks]
      BY DEF NoOutcomes, Marks
  <2>2. QED
      BY <1>1, <1>2, <1>3, <1>4, <1>7, <2>1 DEF MemTypes
<1>9. HandsEmpty' /\ DownEmpty'
    BY <1>1, <1>2 DEF HandsEmpty, DownEmpty, Up, Backends
<1>10. ShownAgrees'
  <2>1. \A t \in Lanes : inHand'[t] = <<>> /\ queue'[t] = <<>>
      BY <1>1, <1>2 DEF DownEmpty
  <2>2. <<>> \o <<>> = <<>>
      OBVIOUS
  <2>3. RelayAgrees(<<>>, metrics[db], metrics[db], NoOutcomes)
      BY <1>4, RelayEmpty
  <2>4. \A t \in Lanes : inHand'[t] \o queue'[t] = <<>>
      BY <2>1, <2>2
  <2>5. /\ SettledRelays' = metrics[db]
        /\ \A t \in Trails : TrailAgrees(logs'[db][t], <<>>, SettledTrail'[t])
    <3>1. open'.engine.call = "none"
        BY <1>1, <1>2 DEF DownEmpty
    <3>2. SettledRelays' = mem'.relays /\ \A t \in Trails : SettledTrail'[t] = mem'.trail[t]
        BY <3>1 DEF SettledRelays, SettledTrail, Trails
    <3>3. QED
        BY <1>7, <3>2
  <2>6. QED
      BY <1>2, <2>3, <2>4, <2>5 DEF ShownAgrees, Lanes
<1>11. QED
    BY <1>8, <1>9, <1>10 DEF MemInv

LEMMA MemStep ==
    ASSUME CountInv, MemInv, [Next]_vars
    PROVE  MemInv'
<1>0. MemTypes /\ HandsEmpty
    BY DEF MemInv
<1>1. CASE Record
    BY <1>1, MemRecordStep
<1>1a. CASE Finish
    BY <1>1a, MemFinishStep
<1>2. CASE FlushTake
    BY <1>2, MemTakeStep
<1>3. ASSUME NEW t \in Queues, NEW ok \in BOOLEAN, FlushItem(t, ok)
      PROVE  MemInv'
  <2>1. CASE t \notin Lanes
      BY <1>3, <2>1, MemOtherItem
  <2>2. CASE t \in Lanes /\ ok = FALSE
      BY <1>3, <2>2, MemFailedItem
  <2>3. CASE t = "relay" /\ ok = TRUE
      BY <1>3, <2>3, MemRelayItem
  <2>4. CASE t \in Trails /\ ok = TRUE
      BY <1>3, <2>4, MemTrailItem
  <2>5. QED
      BY <2>1, <2>2, <2>3, <2>4 DEF Lanes
<1>4. CASE FlushPrune \/ FlushDone
    BY <1>4, MemFlushStep
<1>5. CASE (\E r \in Present(taken), ok \in BOOLEAN : FlushRollup(r, ok)) \/ Tick \/ UNCHANGED vars
  <2>1. /\ UNCHANGED <<queue, inHand, logs, metrics, memVars, backend, flush, records>>
        /\ clean' => clean
      BY <1>5 DEF FlushRollup, Write, Tick, vars, bufferVars, flushVars, storeVars, procVars
  <2>2. HandsEmpty'
      BY <1>0, <2>1 DEF HandsEmpty
  <2>3. Kept
      BY <1>0, <2>1 DEF Kept, MemTypes, IsShown
  <2>4. QED
      BY <2>2, <2>3, KeptStep
<1>6. CASE ClearPending \/ ClearRecent \/ \E ok \in BOOLEAN : ClearStored(ok)
    BY <1>6, MemClearStep
<1>7. CASE Crash
    BY <1>7, MemCrashStep
<1>8. CASE \E db \in Backends : Restart(db)
    BY <1>8, MemRestartStep
<1>9. QED
    BY <1>1, <1>1a, <1>2, <1>3, <1>4, <1>5, <1>6, <1>7, <1>8 DEF Next, Flush

LEMMA MemInit ==
    ASSUME Init PROVE MemInv
<1>1. /\ backend = "down" /\ records = 0 /\ queue = NoItems /\ inHand = NoItems
      /\ logs = [db \in Backends |-> [t \in LogTables |-> <<>>]]
      /\ metrics = [db \in Backends |-> NoOutcomes]
      /\ mem = Remembered("sqlite", logs["sqlite"]) /\ open = NoneOpen /\ ranked = NoOutcomes
    BY DEF Init, Idle
<1>2. DOMAIN NoItems = Queues /\ \A t \in Lanes : NoItems[t] = <<>>
    BY QueuesHaveLanes DEF NoItems
<1>3. metrics \in [Backends -> [Relays -> Marks]] /\ "sqlite" \in Backends
    BY <1>1 DEF Marks, Backends, NoOutcomes
<1>3a. IsOpen(NoneOpen) /\ NoneOpen.engine.call = "none" /\ NoOutcomes \in [Relays -> Marks]
    BY DEF IsOpen, NoneOpen, NoCall, NoOutcomes, Marks
<1>4. /\ DOMAIN logs = Backends
      /\ \A db \in Backends : DOMAIN logs[db] = LogTables
                              /\ \A t \in Trails : logs[db][t] \in Seq(Entries)
    BY <1>1, QueuesHaveLanes, EmptySeq
<1>5. /\ IsShown(mem) /\ mem.relays = metrics["sqlite"] /\ DOMAIN mem.trail = Trails
  <2> DEFINE log == logs["sqlite"]
  <2>1. \A t \in Trails : log[t] \in Seq(Entries)
      BY <1>3, <1>4
  <2>2. mem = Remembered("sqlite", log)
      BY <1>1
  <2> HIDE DEF log
  <2>3. QED
      BY <1>3, <2>1, <2>2, RememberedAgrees
<1>6. MemTypes
  <2>1. \A t \in Lanes : queue[t] \in Seq(LaneItems(t)) /\ inHand[t] \in Seq(LaneItems(t))
      BY <1>1, <1>2, EmptySeq
  <2>2. mem.relays \in [Relays -> Marks]
      BY <1>3, <1>5
  <2>3. QED
      BY <1>1, <1>2, <1>3, <1>3a, <1>4, <1>5, <2>1, <2>2 DEF MemTypes
<1>7. HandsEmpty /\ DownEmpty /\ ShownAgrees
    BY <1>1, <1>2, <1>3a DEF HandsEmpty, DownEmpty, ShownAgrees, Lanes, Up
<1>8. QED
    BY <1>6, <1>7 DEF MemInv

\* Until a write fails, the relay counters and the two trails of
\* DashboardState, once the executor's open call is over, are what the current
\* database holds, followed by what still waits in the flush's hand and in the
\* buffer, in this order; the counters without what set_relay_rankings took
\* off.  Through the flush, the prune, a crash and a start on the other
\* database.
THEOREM DashboardMatchesStorage == Spec => []MemoryAgreesWithStorage
<1>1. Init => CountInv /\ MemInv
    BY CountInit, MemInit
<1>2. CountInv /\ MemInv /\ [Next]_vars => CountInv' /\ MemInv'
    BY CountStep, MemStep
<1>3. CountInv /\ MemInv => MemoryAgreesWithStorage
    BY AgreementShown
<1>4. QED
    BY <1>1, <1>2, <1>3, PTL DEF Spec

-----------------------------------------------------------------------------
(* The lists: one entry moves, or a new one comes.                          *)

LEMMA RemovedProperties ==
    ASSUME NEW S, NEW s \in Seq(S), NEW i \in 1..Len(s)
    PROVE  /\ Removed(s, i) \in Seq(S) /\ Len(Removed(s, i)) = Len(s) - 1
           /\ \A j \in 1..Len(s) - 1 : Removed(s, i)[j] = IF j < i THEN s[j] ELSE s[j + 1]
<1> DEFINE a == SubSeq(s, 1, i - 1)
           b == SubSeq(s, i + 1, Len(s))
<1>1. Len(s) \in Nat /\ \A j \in 1..Len(s) : s[j] \in S
    BY LenProperties, ElementOfSeq
<1>2. a \in Seq(S) /\ Len(a) = i - 1 /\ \A j \in 1..i - 1 : a[j] = s[j]
  <2>1. \A j \in 1..i - 1 : s[j] \in S
      BY <1>1
  <2>2. /\ a \in Seq(S) /\ Len(a) = IF 1 <= i - 1 THEN (i - 1) - 1 + 1 ELSE 0
        /\ \A j \in 1..(i - 1) - 1 + 1 : a[j] = s[1 + j - 1]
      BY <1>1, <2>1, SubSeqProperties
  <2> HIDE DEF a
  <2>3. QED
      BY <2>2, <1>1
<1>3. b \in Seq(S) /\ Len(b) = Len(s) - i /\ \A j \in 1..Len(s) - i : b[j] = s[i + j]
  <2>1. \A j \in i + 1..Len(s) : s[j] \in S
      BY <1>1
  <2>2. /\ b \in Seq(S) /\ Len(b) = IF i + 1 <= Len(s) THEN Len(s) - (i + 1) + 1 ELSE 0
        /\ \A j \in 1..Len(s) - (i + 1) + 1 : b[j] = s[(i + 1) + j - 1]
      BY <1>1, <2>1, SubSeqProperties
  <2> HIDE DEF b
  <2>3. QED
      BY <2>2, <1>1
<1> HIDE DEF a, b
<1>4. /\ a \o b \in Seq(S) /\ Len(a \o b) = Len(a) + Len(b)
      /\ \A j \in 1..Len(a) + Len(b) : (a \o b)[j] = IF j <= Len(a) THEN a[j] ELSE b[j - Len(a)]
    BY <1>2, <1>3, ConcatProperties
<1>5. Len(a) + Len(b) = Len(s) - 1
    BY <1>1, <1>2, <1>3
<1>6. ASSUME NEW j \in 1..Len(s) - 1
      PROVE  (a \o b)[j] = IF j < i THEN s[j] ELSE s[j + 1]
  <2>1. CASE j < i
      BY <1>1, <1>2, <1>4, <1>5, <2>1
  <2>2. CASE j >= i
    <3>1. (a \o b)[j] = b[j - Len(a)] /\ j - Len(a) \in 1..Len(s) - i /\ i + (j - Len(a)) = j + 1
        BY <1>1, <1>2, <1>4, <1>5, <2>2
    <3>2. b[j - Len(a)] = s[i + (j - Len(a))]
        BY <1>3, <3>1
    <3>3. (a \o b)[j] = s[j + 1] /\ ~(j < i)
        BY <2>2, <3>1, <3>2
    <3>4. QED
        BY <3>3
  <2>3. j < i \/ j >= i
      BY <1>1
  <2>4. QED
      BY <2>1, <2>2, <2>3
<1>7. QED
    BY <1>4, <1>5, <1>6 DEF a, b, Removed

LEMMA PlacedProperties ==
    ASSUME NEW S, NEW s \in Seq(S), NEW e \in S, NEW k \in 0..Len(s)
    PROVE  /\ Placed(s, e, k) \in Seq(S) /\ Len(Placed(s, e, k)) = Len(s) + 1
           /\ \A j \in 1..Len(s) + 1 :
                Placed(s, e, k)[j] = IF j <= k THEN s[j] ELSE IF j = k + 1 THEN e ELSE s[j - 1]
<1> DEFINE a == SubSeq(s, 1, k)
           b == SubSeq(s, k + 1, Len(s))
<1>1. Len(s) \in Nat /\ \A j \in 1..Len(s) : s[j] \in S
    BY LenProperties, ElementOfSeq
<1>2. a \in Seq(S) /\ Len(a) = k /\ \A j \in 1..k : a[j] = s[j]
  <2>1. \A j \in 1..k : s[j] \in S
      BY <1>1
  <2>2. /\ a \in Seq(S) /\ Len(a) = IF 1 <= k THEN k - 1 + 1 ELSE 0
        /\ \A j \in 1..k - 1 + 1 : a[j] = s[1 + j - 1]
      BY <1>1, <2>1, SubSeqProperties
  <2> HIDE DEF a
  <2>3. QED
      BY <2>2, <1>1
<1>3. b \in Seq(S) /\ Len(b) = Len(s) - k /\ \A j \in 1..Len(s) - k : b[j] = s[k + j]
  <2>1. \A j \in k + 1..Len(s) : s[j] \in S
      BY <1>1
  <2>2. /\ b \in Seq(S) /\ Len(b) = IF k + 1 <= Len(s) THEN Len(s) - (k + 1) + 1 ELSE 0
        /\ \A j \in 1..Len(s) - (k + 1) + 1 : b[j] = s[(k + 1) + j - 1]
      BY <1>1, <2>1, SubSeqProperties
  <2> HIDE DEF b
  <2>3. QED
      BY <2>2, <1>1
<1> HIDE DEF a, b
<1>4. <<e>> \in Seq(S) /\ Len(<<e>>) = 1 /\ <<e>>[1] = e
    OBVIOUS
<1> DEFINE c == <<e>>
           d == a \o c
<1>5. c \in Seq(S) /\ Len(c) = 1 /\ c[1] = e
    BY <1>4
<1> HIDE DEF c
<1>6. d \in Seq(S) /\ Len(d) = k + 1 /\ d[k + 1] = e /\ \A j \in 1..k : d[j] = s[j]
  <2>1. /\ d \in Seq(S) /\ Len(d) = Len(a) + Len(c)
        /\ \A j \in 1..Len(a) + Len(c) : d[j] = IF j <= Len(a) THEN a[j] ELSE c[j - Len(a)]
      BY <1>2, <1>5, ConcatProperties
  <2> HIDE DEF d
  <2>2. QED
      BY <1>1, <1>2, <1>5, <2>1
<1> HIDE DEF d
<1>7. /\ d \o b \in Seq(S) /\ Len(d \o b) = Len(d) + Len(b)
      /\ \A j \in 1..Len(d) + Len(b) : (d \o b)[j] = IF j <= Len(d) THEN d[j] ELSE b[j - Len(d)]
    BY <1>3, <1>6, ConcatProperties
<1>8. Len(d) + Len(b) = Len(s) + 1
    BY <1>1, <1>3, <1>6
<1>9. ASSUME NEW j \in 1..Len(s) + 1
      PROVE  (d \o b)[j] = IF j <= k THEN s[j] ELSE IF j = k + 1 THEN e ELSE s[j - 1]
  <2>1. CASE j <= k + 1
    <3>1. (d \o b)[j] = d[j]
        BY <1>1, <1>6, <1>7, <1>8, <2>1
    <3>2. QED
        BY <1>1, <1>6, <2>1, <3>1
  <2>2. CASE j > k + 1
    <3>1. (d \o b)[j] = b[j - Len(d)] /\ j - Len(d) \in 1..Len(s) - k /\ k + (j - Len(d)) = j - 1
        BY <1>1, <1>6, <1>7, <1>8, <2>2
    <3>2. b[j - Len(d)] = s[k + (j - Len(d))]
        BY <1>3, <3>1
    <3>3. (d \o b)[j] = s[j - 1] /\ ~(j <= k) /\ j # k + 1
        BY <2>2, <3>1, <3>2
    <3>4. QED
        BY <3>3
  <2>3. j <= k + 1 \/ j > k + 1
      BY <1>1
  <2>4. QED
      BY <2>1, <2>2, <2>3
<1>10. Placed(s, e, k) = d \o b
    BY DEF Placed, a, b, c, d
<1>11. QED
    BY <1>7, <1>8, <1>9, <1>10

\* The same, of a sequence by name.
IsPlaced(new, s, e, k, S) ==
    /\ new \in Seq(S) /\ Len(new) = Len(s) + 1
    /\ \A j \in 1..Len(s) + 1 :
         new[j] = IF j <= k THEN s[j] ELSE IF j = k + 1 THEN e ELSE s[j - 1]

LEMMA PlacedIs ==
    ASSUME NEW S, NEW s \in Seq(S), NEW e \in S, NEW k \in 0..Len(s)
    PROVE  IsPlaced(Placed(s, e, k), s, e, k, S)
<1>1. /\ Placed(s, e, k) \in Seq(S) /\ Len(Placed(s, e, k)) = Len(s) + 1
      /\ \A j \in 1..Len(s) + 1 :
           Placed(s, e, k)[j] = IF j <= k THEN s[j] ELSE IF j = k + 1 THEN e ELSE s[j - 1]
    BY PlacedProperties
<1>2. QED
    BY ONLY <1>1, Zenon DEF IsPlaced

\* The entries of a list of counts over the names N.
Tally(N) == [name : N, count : Nat \ {0}]

LEMMA AheadBounded ==
    ASSUME NEW S, NEW s \in Seq(S), NEW A \in SUBSET DOMAIN s
    PROVE  Cardinality(A) \in 0..Len(s)
<1>1. Len(s) \in Nat /\ DOMAIN s = 1..Len(s)
    BY LenProperties
<1> DEFINE n == Len(s)
<1>2. IsFiniteSet(1..n) /\ Cardinality(1..n) = n
  <2> HIDE DEF n
  <2>1. n \in Nat
      BY <1>1 DEF n
  <2>2. IsFiniteSet(1..n) /\ Cardinality(1..n) = IF 1 > n THEN 0 ELSE n - 1 + 1
      BY <2>1, FS_Interval
  <2>3. QED
      BY <2>1, <2>2
<1>3. Cardinality(A) \in Nat /\ Cardinality(A) <= Cardinality(1..Len(s))
    BY <1>1, <1>2, FS_Subset, FS_CardinalityType
<1>4. QED
    BY <1>1, <1>2, <1>3

\* Where the entry of x is, and what is counted for it.
LEMMA PlaceFound ==
    ASSUME NEW N, NEW list \in Seq(Tally(N)), NEW x \in N, Place(list, x) # {}
    PROVE  \E p \in 1..Len(list) :
             /\ list[p].name = x /\ Others(list, x) = Removed(list, p)
             /\ Counted(list, x) = [name |-> x, count |-> list[p].count + 1]
             /\ Counted(list, x) \in Tally(N)
<1> DEFINE p == CHOOSE i \in Place(list, x) : TRUE
<1>1. p \in Place(list, x)
    OBVIOUS
<1>2. /\ Others(list, x) = Removed(list, p)
      /\ Counted(list, x) = [name |-> x, count |-> list[p].count + 1]
    BY DEF Others, Counted
<1> HIDE DEF p
<1>3. p \in 1..Len(list) /\ list[p].name = x
    BY <1>1, LenProperties DEF Place
<1>4. list[p] \in Tally(N)
    BY <1>3, ElementOfSeq
<1>5. list[p].count + 1 \in Nat \ {0}
    BY <1>4 DEF Tally
<1>6. Counted(list, x) \in Tally(N)
    BY <1>2, <1>5 DEF Tally
<1>7. QED
    BY <1>2, <1>3, <1>6

LEMMA PlaceNew ==
    ASSUME NEW N, NEW list, NEW x \in N, Place(list, x) = {}
    PROVE  /\ Others(list, x) = list /\ Counted(list, x) = [name |-> x, count |-> 1]
           /\ Counted(list, x) \in Tally(N)
    BY DEF Others, Counted, Tally

\* A moved entry: the others stay, in their order.
Source(j, p, k) == IF j <= k THEN (IF j < p THEN j ELSE j + 1)
                   ELSE (IF j - 1 < p THEN j - 1 ELSE j)
Target(i, p, k) == IF i < p THEN (IF i <= k THEN i ELSE i + 1)
                   ELSE (IF i - 1 <= k THEN i - 1 ELSE i)

IsMoved(new, s, S, p, e, k) ==
    /\ new \in Seq(S) /\ Len(new) = Len(s)
    /\ new[k + 1] = e /\ k + 1 \in 1..Len(s)
    /\ \A j \in 1..Len(s) : j # k + 1 => new[j] = s[Source(j, p, k)]

LEMMA MovedProperties ==
    ASSUME NEW S, NEW s \in Seq(S), NEW p \in 1..Len(s), NEW e \in S, NEW k \in 0..Len(s) - 1
    PROVE  IsMoved(Placed(Removed(s, p), e, k), s, S, p, e, k)
<1> DEFINE r == Removed(s, p)
           new == Placed(r, e, k)
<1>1. Len(s) \in Nat
    BY LenProperties
<1>2. /\ r \in Seq(S) /\ Len(r) = Len(s) - 1
      /\ \A j \in 1..Len(s) - 1 : r[j] = IF j < p THEN s[j] ELSE s[j + 1]
    BY RemovedProperties
<1> HIDE DEF r
<1>3. k \in 0..Len(r)
    BY <1>2
<1>4. r \in Seq(S)
    BY <1>2
<1>4a. e \in S
    OBVIOUS
<1>4b. IsPlaced(new, r, e, k, S)
    BY ONLY <1>3, <1>4, <1>4a, PlacedIs, Zenon
<1>5. /\ new \in Seq(S) /\ Len(new) = Len(r) + 1
      /\ \A j \in 1..Len(r) + 1 :
           new[j] = IF j <= k THEN r[j] ELSE IF j = k + 1 THEN e ELSE r[j - 1]
    BY ONLY <1>4b, Zenon DEF IsPlaced
<1> HIDE DEF new
<1>6. Len(r) + 1 = Len(s) /\ k + 1 \in 1..Len(s)
    BY <1>1, <1>2
<1>7. new[k + 1] = e
    BY <1>1, <1>5, <1>6
<1>8. ASSUME NEW j \in 1..Len(s), j # k + 1
      PROVE  new[j] = s[Source(j, p, k)]
  <2>1. CASE j <= k
    <3>1. new[j] = r[j] /\ j \in 1..Len(s) - 1
        BY <1>1, <1>5, <1>6, <2>1
    <3>2. r[j] = IF j < p THEN s[j] ELSE s[j + 1]
        BY <1>2, <3>1
    <3>3. QED
        BY <2>1, <3>1, <3>2 DEF Source
  <2>2. CASE ~(j <= k)
    <3>1. new[j] = r[j - 1] /\ j - 1 \in 1..Len(s) - 1 /\ (j - 1) + 1 = j
        BY <1>1, <1>5, <1>6, <1>8, <2>2
    <3>2. r[j - 1] = IF j - 1 < p THEN s[j - 1] ELSE s[(j - 1) + 1]
        BY <1>2, <3>1
    <3>3. QED
        BY <2>2, <3>1, <3>2 DEF Source
  <2>3. QED
      BY <2>1, <2>2
<1>9. IsMoved(new, s, S, p, e, k)
    BY <1>5, <1>6, <1>7, <1>8 DEF IsMoved
<1>10. QED
    BY <1>9 DEF new, r

IsTally(list, N, n) ==
    /\ list \in Seq(Tally(N)) /\ Len(list) <= n
    /\ \A i, j \in 1..Len(list) : list[i].name = list[j].name => i = j

\* A reason that is listed: its count grows, the list keeps its names.
LEMMA RejectFound ==
    ASSUME NEW N, NEW list, IsTally(list, N, RejectCap), NEW x \in N, Place(list, x) # {}
    PROVE  LET new == CountReject(list, x)
           IN  /\ IsTally(new, N, RejectCap) /\ Len(new) = Len(list)
               /\ \A j \in 1..Len(new) : \E i \in 1..Len(list) :
                    /\ new[j].name = list[i].name
                    /\ new[j].count = IF list[i].name = x THEN list[i].count + 1
                                      ELSE list[i].count
               /\ \A i \in 1..Len(list) : \E j \in 1..Len(new) : new[j].name = list[i].name
<1>1. /\ list \in Seq(Tally(N)) /\ Len(list) \in Nat /\ Len(list) <= RejectCap
      /\ RejectCap \in Nat
    BY LenProperties, TelemetryAssumption DEF IsTally
<1>2. \A i, j \in 1..Len(list) : list[i].name = list[j].name => i = j
    BY DEF IsTally
<1>3. PICK p \in 1..Len(list) :
             /\ list[p].name = x /\ Others(list, x) = Removed(list, p)
             /\ Counted(list, x) = [name |-> x, count |-> list[p].count + 1]
             /\ Counted(list, x) \in Tally(N)
    BY <1>1, PlaceFound
<1> DEFINE e == Counted(list, x)
           rest == Removed(list, p)
           k == Cardinality({i \in DOMAIN rest : ByCount(rest[i], e)})
           new == Placed(rest, e, k)
<1>4. rest \in Seq(Tally(N)) /\ Len(rest) = Len(list) - 1
    BY <1>1, RemovedProperties
<1>5. k \in 0..Len(rest)
  <2> HIDE DEF rest
  <2>1. QED
      BY <1>4, AheadBounded
<1>6. CountReject(list, x) = Truncate(new, RejectCap)
    BY <1>3 DEF CountReject
<1>7. k \in 0..Len(list) - 1 /\ e \in Tally(N)
    BY <1>3, <1>4, <1>5
<1> HIDE DEF k, e
<1>8. /\ new \in Seq(Tally(N)) /\ Len(new) = Len(list)
      /\ new[k + 1] = e /\ k + 1 \in 1..Len(list)
      /\ \A j \in 1..Len(list) : j # k + 1 => new[j] = list[Source(j, p, k)]
  <2>1. list \in Seq(Tally(N)) /\ p \in 1..Len(list) /\ k \in 0..Len(list) - 1 /\ e \in Tally(N)
      BY <1>1, <1>7
  <2>2. IsMoved(new, list, Tally(N), p, e, k)
      BY ONLY <2>1, MovedProperties, Zenon
  <2> HIDE DEF new, rest
  <2>3. QED
      BY ONLY <2>2, Zenon DEF IsMoved
<1> HIDE DEF new
<1>9. CountReject(list, x) = new
    BY <1>1, <1>6, <1>8 DEF Truncate
<1>10. /\ \A j \in 1..Len(list) : j # k + 1 => Source(j, p, k) \in 1..Len(list) /\ Source(j, p, k) # p
       /\ \A i, j \in 1..Len(list) :
            i # k + 1 /\ j # k + 1 /\ Source(i, p, k) = Source(j, p, k) => i = j
       /\ \A i \in 1..Len(list) : i # p =>
            /\ Target(i, p, k) \in 1..Len(list) /\ Target(i, p, k) # k + 1
            /\ Source(Target(i, p, k), p, k) = i
  <2> DEFINE n == Len(list)
  <2>1. n \in Nat /\ p \in 1..n /\ k \in 0..n - 1
      BY <1>1, <1>7
  <2> HIDE DEF n
  <2>2. /\ \A j \in 1..n : j # k + 1 => Source(j, p, k) \in 1..n /\ Source(j, p, k) # p
        /\ \A i, j \in 1..n : i # k + 1 /\ j # k + 1 /\ Source(i, p, k) = Source(j, p, k) => i = j
        /\ \A i \in 1..n : i # p => /\ Target(i, p, k) \in 1..n /\ Target(i, p, k) # k + 1
                                    /\ Source(Target(i, p, k), p, k) = i
      BY ONLY <2>1 DEF Source, Target
  <2>3. QED
      BY <2>2 DEF n
<1>11. e.name = x /\ e.count = list[p].count + 1
    BY <1>3 DEF e
<1>12. \A j \in 1..Len(list) : j # k + 1 => new[j].name # x
    BY <1>2, <1>3, <1>8, <1>10
<1>13. IsTally(new, N, RejectCap)
  <2>1. ASSUME NEW i \in 1..Len(list), NEW j \in 1..Len(list), new[i].name = new[j].name
        PROVE  i = j
    <3>1. CASE i = k + 1 \/ j = k + 1
        BY <1>8, <1>11, <1>12, <2>1, <3>1
    <3>2. CASE i # k + 1 /\ j # k + 1
      <4>1. new[i] = list[Source(i, p, k)] /\ new[j] = list[Source(j, p, k)]
          BY <1>8, <3>2
      <4>2. Source(i, p, k) \in 1..Len(list) /\ Source(j, p, k) \in 1..Len(list)
          BY <1>10, <3>2
      <4>3. Source(i, p, k) = Source(j, p, k)
          BY <1>2, <2>1, <4>1, <4>2
      <4>4. QED
          BY <1>10, <3>2, <4>3
    <3>3. QED
        BY <3>1, <3>2
  <2>2. QED
      BY <1>1, <1>8, <2>1 DEF IsTally
<1>14. ASSUME NEW j \in 1..Len(list)
       PROVE  \E i \in 1..Len(list) :
                /\ new[j].name = list[i].name
                /\ new[j].count = IF list[i].name = x THEN list[i].count + 1 ELSE list[i].count
  <2>1. CASE j = k + 1
      BY <1>3, <1>8, <1>11, <2>1
  <2>2. CASE j # k + 1
    <3>1. new[j] = list[Source(j, p, k)] /\ Source(j, p, k) \in 1..Len(list) /\ new[j].name # x
        BY <1>8, <1>10, <1>12, <2>2
    <3>2. QED
        BY <3>1
  <2>3. QED
      BY <2>1, <2>2
<1>15. ASSUME NEW i \in 1..Len(list)
       PROVE  \E j \in 1..Len(list) : new[j].name = list[i].name
  <2>1. CASE i = p
      BY <1>3, <1>8, <1>11, <2>1
  <2>2. CASE i # p
    <3>1. /\ Target(i, p, k) \in 1..Len(list) /\ Target(i, p, k) # k + 1
          /\ Source(Target(i, p, k), p, k) = i
        BY <1>10, <2>2
    <3>2. new[Target(i, p, k)] = list[i]
        BY <1>8, <3>1
    <3>3. QED
        BY <3>1, <3>2
  <2>3. QED
      BY <2>1, <2>2
<1>16. QED
    BY <1>8, <1>9, <1>13, <1>14, <1>15

\* A new reason comes last: every count is at least one and the sort is
\* stable.  In a full list it is cut off at once.
LEMMA RejectNew ==
    ASSUME NEW N, NEW list, IsTally(list, N, RejectCap), NEW x \in N, Place(list, x) = {}
    PROVE  /\ IsTally(CountReject(list, x), N, RejectCap)
           /\ CountReject(list, x) = IF Len(list) < RejectCap
                                     THEN Append(list, [name |-> x, count |-> 1]) ELSE list
<1>1. /\ list \in Seq(Tally(N)) /\ Len(list) \in Nat /\ Len(list) <= RejectCap
      /\ DOMAIN list = 1..Len(list) /\ RejectCap \in Nat
    BY LenProperties, TelemetryAssumption DEF IsTally
<1> DEFINE e == [name |-> x, count |-> 1]
           A == {i \in DOMAIN list : ByCount(list[i], e)}
           s == Append(list, e)
<1>2. Others(list, x) = list /\ Counted(list, x) = e /\ e \in Tally(N)
    BY PlaceNew
<1>3. A = 1..Len(list)
  <2>0. \A i \in 1..Len(list) : list[i] \in Tally(N)
      BY <1>1, ElementOfSeq
  <2>1. \A i \in 1..Len(list) : list[i].count \in Nat \ {0}
      BY <2>0 DEF Tally
  <2>2. \A i \in 1..Len(list) : list[i].count >= e.count
      BY <2>1
  <2>3. QED
      BY <1>1, <2>2 DEF ByCount
<1>4. Cardinality(A) = Len(list)
  <2> DEFINE n == Len(list)
  <2>1. n \in Nat
      BY <1>1
  <2> HIDE DEF n
  <2>2. Cardinality(1..n) = IF 1 > n THEN 0 ELSE n - 1 + 1
      BY <2>1, FS_Interval
  <2>3. Cardinality(1..n) = n
      BY <2>1, <2>2
  <2>4. QED
      BY <1>3, <2>3 DEF n
<1>5. CountReject(list, x) = Truncate(Placed(list, e, Len(list)), RejectCap)
    BY <1>2, <1>4 DEF CountReject
<1> HIDE DEF e
<1>6. /\ s \in Seq(Tally(N)) /\ Len(s) = Len(list) + 1 /\ s[Len(list) + 1] = e
      /\ \A i \in 1..Len(list) : s[i] = list[i]
    BY <1>1, <1>2, AppendProperties
<1>7. Placed(list, e, Len(list)) = s
  <2> DEFINE n == Len(list)
             q == Placed(list, e, n)
  <2>0. n \in 0..Len(list)
      BY <1>1
  <2>1a. list \in Seq(Tally(N))
      BY <1>1
  <2>1b. e \in Tally(N)
      BY <1>2
  <2> HIDE DEF n
  <2>1. IsPlaced(q, list, e, n, Tally(N))
      BY ONLY <2>0, <2>1a, <2>1b, PlacedIs, Zenon
  <2>2. /\ q \in Seq(Tally(N)) /\ Len(q) = Len(list) + 1
        /\ \A j \in 1..Len(list) + 1 :
             q[j] = IF j <= n THEN list[j] ELSE IF j = n + 1 THEN e ELSE list[j - 1]
      BY ONLY <2>1, Zenon DEF IsPlaced
  <2> HIDE DEF q
  <2>3. \A j \in 1..Len(s) : q[j] = s[j]
    <3>1. n = Len(list) /\ n \in Nat
        BY <1>1 DEF n
    <3>2. ASSUME NEW j \in 1..n + 1 PROVE q[j] = s[j]
      <4>1. CASE j <= n
          BY <1>6, <2>2, <3>1, <4>1
      <4>2. CASE j = n + 1
          BY <1>6, <2>2, <3>1, <4>2
      <4>3. QED
          BY <3>1, <4>1, <4>2
    <3>3. QED
        BY <1>6, <3>1, <3>2
  <2>4. Len(q) = Len(s)
      BY <1>6, <2>2
  <2> HIDE DEF s
  <2>5. q = s
      BY <1>6, <2>2, <2>3, <2>4, SeqEqual
  <2>6. QED
      BY <2>5 DEF q, n
<1> HIDE DEF s
<1>8. CASE Len(list) < RejectCap
  <2>1. CountReject(list, x) = s
      BY <1>1, <1>5, <1>6, <1>7, <1>8 DEF Truncate
  <2>2. \A i \in 1..Len(list) : list[i].name # x
      BY <1>1 DEF Place
  <2>3. e.name = x
      BY DEF e
  <2>4. \A i, j \in 1..Len(list) : list[i].name = list[j].name => i = j
      BY DEF IsTally
  <2>5. ASSUME NEW i \in 1..Len(s), NEW j \in 1..Len(s), s[i].name = s[j].name
        PROVE  i = j
      BY <1>1, <1>6, <2>2, <2>3, <2>4, <2>5
  <2>6. IsTally(s, N, RejectCap)
      BY <1>1, <1>6, <1>8, <2>5 DEF IsTally
  <2>7. QED
      BY <1>8, <2>1, <2>6 DEF s, e
<1>9. CASE ~(Len(list) < RejectCap)
  <2>1. Len(list) = RejectCap
    <3> DEFINE n == Len(list)
    <3>1. n \in Nat /\ n <= RejectCap /\ ~(n < RejectCap) /\ RejectCap \in Nat
        BY <1>1, <1>9
    <3> HIDE DEF n
    <3>2. n = RejectCap
        BY ONLY <3>1
    <3>3. QED
        BY <3>2 DEF n
  <2> DEFINE q == Truncate(s, RejectCap)
  <2>2. /\ q \in Seq(Tally(N)) /\ Len(q) = Fewer(Len(s), RejectCap)
        /\ \A i \in 1..Fewer(Len(s), RejectCap) : q[i] = s[i]
      BY <1>1, <1>6, TruncateProperties
  <2>3. Fewer(Len(s), RejectCap) = Len(list)
      BY <1>1, <1>6, <2>1 DEF Fewer
  <2> HIDE DEF q
  <2>4. q = list
      BY <1>1, <1>6, <2>2, <2>3, SeqEqual
  <2>5. QED
      BY <1>5, <1>7, <1>9, <2>4 DEF q
<1>10. QED
    BY <1>8, <1>9

\* The entries of the selector list are old ones, but for the one counted.
Descends(y, list, x) ==
    \/ \E i \in 1..Len(list) : y = list[i]
    \/ y = [name |-> x, count |-> 1]
    \/ \E i \in 1..Len(list) : list[i].name = x /\ y = [name |-> x, count |-> list[i].count + 1]

LEMMA SelectorEntries ==
    ASSUME NEW N, NEW list \in Seq(Tally(N)), NEW x \in N
    PROVE  /\ CountSelector(list, x) \in Seq(Tally(N))
           /\ \A j \in 1..Len(CountSelector(list, x)) : Descends(CountSelector(list, x)[j], list, x)
<1> DEFINE e == Counted(list, x)
           rest == Others(list, x)
           k == Cardinality({i \in DOMAIN rest : ByCountThenName(rest[i], e)})
           new == Placed(rest, e, k)
           cut == Truncate(new, SelectorCap)
<1>1. Len(list) \in Nat /\ SelectorCap \in Nat
    BY LenProperties, TelemetryAssumption
<1>2. /\ rest \in Seq(Tally(N)) /\ \A j \in 1..Len(rest) : \E i \in 1..Len(list) : rest[j] = list[i]
      /\ e \in Tally(N)
      /\ \/ e = [name |-> x, count |-> 1]
         \/ \E i \in 1..Len(list) :
              list[i].name = x /\ e = [name |-> x, count |-> list[i].count + 1]
  <2>1. CASE Place(list, x) = {}
      BY <2>1, PlaceNew
  <2>2. CASE Place(list, x) # {}
    <3>1. PICK p \in 1..Len(list) :
             /\ list[p].name = x /\ rest = Removed(list, p)
             /\ e = [name |-> x, count |-> list[p].count + 1]
             /\ e \in Tally(N)
        BY <2>2, PlaceFound
    <3>2. /\ Removed(list, p) \in Seq(Tally(N)) /\ Len(Removed(list, p)) = Len(list) - 1
          /\ \A j \in 1..Len(list) - 1 :
               Removed(list, p)[j] = IF j < p THEN list[j] ELSE list[j + 1]
        BY RemovedProperties
    <3> HIDE DEF rest, e
    <3>3. ASSUME NEW j \in 1..Len(rest)
          PROVE  \E i \in 1..Len(list) : rest[j] = list[i]
      <4>1. j \in 1..Len(list) - 1 /\ j \in 1..Len(list) /\ j + 1 \in 1..Len(list)
          BY <1>1, <3>1, <3>2
      <4>2. rest[j] = IF j < p THEN list[j] ELSE list[j + 1]
          BY <3>1, <3>2, <4>1
      <4>3. QED
          BY <4>1, <4>2
    <3>4. QED
        BY <3>1, <3>2, <3>3
  <2>3. QED
      BY <2>1, <2>2
<1>3. CountSelector(list, x) = cut
    BY DEF CountSelector
<1>4. rest \in Seq(Tally(N))
    BY <1>2
<1>5. e \in Tally(N)
    BY <1>2
<1>6. k \in 0..Len(rest)
  <2> HIDE DEF rest
  <2>1. QED
      BY <1>4, AheadBounded
<1> HIDE DEF rest, e, k
<1>6a. IsPlaced(new, rest, e, k, Tally(N))
    BY ONLY <1>4, <1>5, <1>6, PlacedIs, Zenon
<1>7. /\ new \in Seq(Tally(N)) /\ Len(new) = Len(rest) + 1
      /\ \A j \in 1..Len(rest) + 1 :
           new[j] = IF j <= k THEN rest[j] ELSE IF j = k + 1 THEN e ELSE rest[j - 1]
    BY ONLY <1>6a, Zenon DEF IsPlaced
<1> HIDE DEF new
<1>8. Len(rest) \in Nat /\ Len(new) \in Nat
    BY <1>4, <1>7, LenProperties
<1>9. ASSUME NEW j \in 1..Len(new)
      PROVE  new[j] = e \/ \E m \in 1..Len(rest) : new[j] = rest[m]
  <2>1. CASE j <= k
      BY <1>6, <1>7, <1>8, <2>1
  <2>2. CASE j = k + 1
      BY <1>6, <1>7, <1>8, <2>2
  <2>3. CASE j > k + 1
    <3>1. j - 1 \in 1..Len(rest)
        BY <1>6, <1>7, <1>8, <2>3
    <3>2. new[j] = rest[j - 1]
        BY <1>6, <1>7, <1>8, <2>3
    <3>3. QED
        BY <3>1, <3>2
  <2>4. QED
      BY <1>6, <1>7, <1>8, <2>1, <2>2, <2>3
<1>10. /\ cut \in Seq(Tally(N)) /\ Len(cut) = Fewer(Len(new), SelectorCap)
       /\ \A i \in 1..Fewer(Len(new), SelectorCap) : cut[i] = new[i]
    BY <1>1, <1>7, TruncateProperties
<1> HIDE DEF cut
<1>11. Fewer(Len(new), SelectorCap) \in Nat /\ Fewer(Len(new), SelectorCap) <= Len(new)
    BY <1>1, <1>8 DEF Fewer
<1>12. ASSUME NEW j \in 1..Len(cut)
       PROVE  Descends(cut[j], list, x)
  <2>1. j \in 1..Len(new) /\ cut[j] = new[j]
      BY <1>8, <1>10, <1>11
  <2>2. CASE cut[j] = e
      BY <1>2, <2>2 DEF Descends
  <2>3. CASE \E m \in 1..Len(rest) : cut[j] = rest[m]
      BY <1>2, <2>3 DEF Descends
  <2>4. QED
      BY <1>9, <2>1, <2>2, <2>3
<1>13. QED
    BY <1>3, <1>10, <1>12

\* The reasons, and the rows that count one of them.
Reasons == Names["reject"]
RowOf(b, n) == [table |-> "reject", bucket |-> b, name |-> n]

LEMMA ReasonRows ==
    ASSUME NEW n \in Reasons, NEW b \in 0..MaxClock
    PROVE  RowOf(b, n) \in Rows
    BY DEF RowOf, Rows, Reasons, Rollups

LEMMA OccurrencesSame ==
    ASSUME NEW n, \A b \in 0..MaxClock : recorded'[RowOf(b, n)] = recorded[RowOf(b, n)]
    PROVE  Occurrences("reject", n)' = Occurrences("reject", n)
    BY DEF Occurrences, RowOf

\* A reason that is recorded occurs once more.
LEMMA OccurrencesGrow ==
    ASSUME CountInv, NEW n \in Reasons, recorded' = [recorded EXCEPT ![RowOf(clock, n)] = @ + 1],
           IsFiniteSet(Occurrences("reject", n))
    PROVE  /\ IsFiniteSet(Occurrences("reject", n)')
           /\ Total("reject", n)' = Total("reject", n) + 1
           /\ Total("reject", n) \in Nat
           /\ \A m \in Reasons : m # n => Occurrences("reject", m)' = Occurrences("reject", m)
<1>1. clock \in 0..MaxClock /\ recorded \in [Rows -> Nat] /\ MaxClock \in Nat
    BY TelemetryAssumption DEF CountInv, CountTypes
<1>2. RowOf(clock, n) \in Rows
    BY <1>1, ReasonRows
<1> DEFINE c == recorded[RowOf(clock, n)]
           new == <<clock, c + 1>>
           old == Occurrences("reject", n)
<1>3. c \in Nat /\ recorded'[RowOf(clock, n)] = c + 1
    BY <1>1, <1>2
<1>4. \A b \in 0..MaxClock, m \in Reasons :
          b # clock \/ m # n => recorded'[RowOf(b, m)] = recorded[RowOf(b, m)]
  <2>1. \A b \in 0..MaxClock, m \in Reasons :
          b # clock \/ m # n => RowOf(b, m) # RowOf(clock, n)
      BY DEF RowOf
  <2>2. QED
      BY <1>1, <2>1, ReasonRows
<1>5. Occurrences("reject", n)' = old \cup {new}
  <2>1. Occurrences("reject", n)' =
          UNION {{b} \X (1..recorded'[RowOf(b, n)]) : b \in 0..MaxClock}
      BY DEF Occurrences, RowOf
  <2>2. old = UNION {{b} \X (1..recorded[RowOf(b, n)]) : b \in 0..MaxClock}
      BY DEF Occurrences, RowOf
  <2> HIDE DEF old
  <2>3. \A b \in 0..MaxClock : b # clock => recorded'[RowOf(b, n)] = recorded[RowOf(b, n)]
      BY <1>4
  <2>4. 1..recorded'[RowOf(clock, n)] = (1..c) \cup {c + 1}
    <3> HIDE DEF c
    <3>1. QED
        BY <1>3
  <2>5. ASSUME NEW y PROVE y \in Occurrences("reject", n)' <=> y \in old \cup {new}
    <3>1. y \in Occurrences("reject", n)' <=>
            \E b \in 0..MaxClock : y \in {b} \X (1..recorded'[RowOf(b, n)])
        BY <2>1
    <3>2. y \in old <=> \E b \in 0..MaxClock : y \in {b} \X (1..recorded[RowOf(b, n)])
        BY <2>2
    <3>3. {clock} \X ((1..c) \cup {c + 1}) = ({clock} \X (1..c)) \cup {new}
        OBVIOUS
    <3>4. QED
        BY <1>1, <2>3, <2>4, <3>1, <3>2, <3>3
  <2>6. QED
      BY <2>5
<1>6. new \notin old
  <2>1. ASSUME new \in old PROVE FALSE
    <3>1. PICK b \in 0..MaxClock : new \in {b} \X (1..recorded[RowOf(b, n)])
        BY <2>1 DEF Occurrences, RowOf
    <3>2. b = clock /\ c + 1 \in 1..recorded[RowOf(b, n)]
        BY <3>1
    <3>3. c + 1 \in 1..c
        BY <3>2
    <3> HIDE DEF c
    <3>4. QED
        BY <1>3, <3>3
  <2>2. QED
      BY <2>1
<1> HIDE DEF new, old
<1>7. IsFiniteSet(old) /\ Cardinality(old) \in Nat
    BY FS_CardinalityType DEF old
<1>8. IsFiniteSet(old \cup {new}) /\ Cardinality(old \cup {new}) = Cardinality(old) + 1
    BY <1>6, <1>7, FS_AddElement
<1>9. \A m \in Reasons : m # n => Occurrences("reject", m)' = Occurrences("reject", m)
  <2>1. ASSUME NEW m \in Reasons, m # n
        PROVE  Occurrences("reject", m)' = Occurrences("reject", m)
    <3>1. \A b \in 0..MaxClock : recorded'[RowOf(b, m)] = recorded[RowOf(b, m)]
        BY <1>4, <2>1
    <3>2. QED
        BY <3>1, OccurrencesSame
  <2>2. QED
      BY <2>1
<1>10. /\ Total("reject", n)' = Cardinality(Occurrences("reject", n)')
       /\ Total("reject", n) = Cardinality(old)
    BY DEF Total, old
<1>11. QED
    BY <1>5, <1>7, <1>8, <1>9, <1>10

\* The list shows the totals t: exactly, and all of them while there is room.
Exact(list, t) ==
    /\ \A i \in 1..Len(list) : list[i].count = t[list[i].name]
    /\ Len(list) < RejectCap =>
         \A n \in Reasons : t[n] > 0 => \E i \in 1..Len(list) : list[i].name = n

LEMMA ExactCounted ==
    ASSUME NEW old, IsTally(old, Reasons, RejectCap), NEW x \in Reasons,
           NEW t \in [Reasons -> Nat], Exact(old, t)
    PROVE  Exact(CountReject(old, x), [t EXCEPT ![x] = @ + 1])
<1> DEFINE new == CountReject(old, x)
           u == [t EXCEPT ![x] = @ + 1]
<1>1. old \in Seq(Tally(Reasons)) /\ DOMAIN old = 1..Len(old) /\ Len(old) \in Nat
    BY LenProperties DEF IsTally
<1>2. u[x] = t[x] + 1 /\ t[x] \in Nat /\ \A m \in Reasons : m # x => u[m] = t[m]
    OBVIOUS
<1>3. /\ \A i \in 1..Len(old) : old[i].count = t[old[i].name]
      /\ Len(old) < RejectCap =>
           \A n \in Reasons : t[n] > 0 => \E i \in 1..Len(old) : old[i].name = n
    BY DEF Exact
<1>4. \A i \in 1..Len(old) : old[i].name \in Reasons
  <2>1. \A i \in 1..Len(old) : old[i] \in Tally(Reasons)
      BY <1>1, ElementOfSeq
  <2>2. QED
      BY <2>1 DEF Tally
<1> HIDE DEF u
<1>5. CASE Place(old, x) # {}
  <2>1. /\ Len(new) = Len(old)
        /\ \A j \in 1..Len(new) : \E i \in 1..Len(old) :
                  /\ new[j].name = old[i].name
                  /\ new[j].count = IF old[i].name = x THEN old[i].count + 1
                                    ELSE old[i].count
        /\ \A i \in 1..Len(old) : \E j \in 1..Len(new) : new[j].name = old[i].name
      BY <1>5, RejectFound
  <2> HIDE DEF new
  <2>2. ASSUME NEW j \in 1..Len(new)
        PROVE  new[j].count = u[new[j].name]
    <3>1. PICK i \in 1..Len(old) :
                  /\ new[j].name = old[i].name
                  /\ new[j].count = IF old[i].name = x THEN old[i].count + 1
                                    ELSE old[i].count
        BY <2>1
    <3>2. CASE old[i].name = x
        BY <1>2, <1>3, <3>1, <3>2
    <3>3. CASE old[i].name # x
        BY <1>2, <1>3, <1>4, <3>1, <3>3
    <3>4. QED
        BY <3>2, <3>3
  <2>3. PICK p \in 1..Len(old) : old[p].name = x
      BY <1>1, <1>5 DEF Place
  <2>4. ASSUME Len(new) < RejectCap, NEW n \in Reasons, u[n] > 0
        PROVE  \E i \in 1..Len(new) : new[i].name = n
    <3>1. CASE n = x
        BY <2>1, <2>3, <3>1
    <3>2. CASE n # x
      <4>1. t[n] > 0 /\ Len(old) < RejectCap
          BY <1>2, <2>1, <2>4, <3>2
      <4>2. PICK i \in 1..Len(old) : old[i].name = n
          BY <1>3, <4>1
      <4>3. QED
          BY <2>1, <4>2
    <3>3. QED
        BY <3>1, <3>2
  <2>5. QED
      BY <2>2, <2>4 DEF Exact, u, new
<1>6. CASE Place(old, x) = {}
  <2>0. \A i \in 1..Len(old) : old[i].name # x
      BY <1>1, <1>6 DEF Place
  <2>1. new = IF Len(old) < RejectCap THEN Append(old, [name |-> x, count |-> 1]) ELSE old
      BY <1>6, RejectNew
  <2> HIDE DEF new
  <2>2. CASE Len(old) < RejectCap
    <3> DEFINE e == [name |-> x, count |-> 1]
    <3>1. e \in Tally(Reasons) /\ e.name = x /\ e.count = 1
        BY DEF Tally
    <3> HIDE DEF e
    <3>2. new = Append(old, e)
        BY <2>1, <2>2 DEF e
    <3>3. /\ Len(new) = Len(old) + 1 /\ new[Len(old) + 1] = e
          /\ \A i \in 1..Len(old) : new[i] = old[i]
        BY <1>1, <3>1, <3>2, AppendProperties
    <3>4. u[x] = 1
      <4>1. ~(t[x] > 0)
          BY <1>3, <2>0, <2>2
      <4>2. QED
          BY <1>2, <4>1
    <3>5. ASSUME NEW j \in 1..Len(new)
          PROVE  new[j].count = u[new[j].name]
      <4>1. CASE j = Len(old) + 1
          BY <3>1, <3>3, <3>4, <4>1
      <4>2. CASE j # Len(old) + 1
        <5>1. j \in 1..Len(old) /\ new[j] = old[j]
            BY <1>1, <3>3, <4>2
        <5>2. QED
            BY <1>2, <1>3, <1>4, <2>0, <5>1
      <4>3. QED
          BY <4>1, <4>2
    <3>6. ASSUME NEW n \in Reasons, u[n] > 0
          PROVE  \E i \in 1..Len(new) : new[i].name = n
      <4>1. CASE n = x
        <5>1. Len(old) + 1 \in 1..Len(new)
            BY <1>1, <3>3
        <5>2. QED
            BY <3>1, <3>3, <4>1, <5>1
      <4>2. CASE n # x
        <5>1. t[n] > 0
            BY <1>2, <3>6, <4>2
        <5>2. PICK i \in 1..Len(old) : old[i].name = n
            BY <1>3, <2>2, <5>1
        <5>3. i \in 1..Len(new) /\ new[i].name = n
            BY <1>1, <3>3, <5>2
        <5>4. QED
            BY <5>3
      <4>3. QED
          BY <4>1, <4>2
    <3>7. QED
        BY <3>5, <3>6 DEF Exact, u, new
  <2>3. CASE ~(Len(old) < RejectCap)
    <3>1. new = old
        BY <2>1, <2>3
    <3>2. ASSUME NEW j \in 1..Len(new)
          PROVE  new[j].count = u[new[j].name]
        BY <1>2, <1>3, <1>4, <2>0, <3>1
    <3>3. QED
        BY <2>3, <3>1, <3>2 DEF Exact, u, new
  <2>4. QED
      BY <2>2, <2>3
<1>7. QED
    BY <1>5, <1>6

\* What the list has to show: what was recorded, without the calls that have
\* yet to list theirs.
Totals == [n \in Reasons |-> Due(n)]

\* Until something fails the process starts only once, before anything is
\* recorded; a later start would show an empty list.
RejectsFresh ==
    faults = 0 /\ ~Up =>
        \A n \in Reasons : Occurrences("reject", n) = {} /\ open.rejects[n] = 0

\* The list is exact, as long as rollups are counted too.
RejectsExact ==
    faults = 0 /\ Enabled("rollups") => Totals \in [Reasons -> Nat] /\ Exact(mem.rejects, Totals)

RejectInv ==
    /\ IsTally(mem.rejects, Reasons, RejectCap)
    /\ open.rejects \in [Reasons -> Nat]
    /\ \A n \in Reasons : IsFiniteSet(Occurrences("reject", n))
    /\ RejectsFresh
    /\ RejectsExact

LEMMA TotalsOf ==
    /\ Totals = [n \in Reasons |-> Total("reject", n) - open.rejects[n]]
    /\ Totals' = [n \in Reasons |-> Total("reject", n)' - open'.rejects[n]]
    BY DEF Totals, Due, Reasons

LEMMA TotalType ==
    ASSUME RejectInv PROVE \A n \in Reasons : Total("reject", n) \in Nat
    BY FS_CardinalityType DEF RejectInv, Total

\* The first lock: one more is recorded, and one more has yet to be listed.
LEMMA RejectStep ==
    ASSUME CountInv, MemInv, RejectInv, NEW x \in Reasons, RecordRejectReason(x)
    PROVE  RejectInv'
<1>1. /\ IsTally(mem.rejects, Reasons, RejectCap) /\ RejectsExact
      /\ open.rejects \in [Reasons -> Nat]
      /\ \A n \in Reasons : IsFiniteSet(Occurrences("reject", n))
    BY DEF RejectInv
<1>2. UNCHANGED mem /\ open'.rejects = [open.rejects EXCEPT ![x] = @ + 1]
    BY DEF RecordRejectReason, MemInv, MemTypes, IsOpen
<1>3. /\ UNCHANGED <<setup, backend, faults>> /\ Up
    BY DEF RecordRejectReason, Recording, procVars
<1>4. \/ Enabled("rollups") /\ recorded' = [recorded EXCEPT ![RowOf(clock, x)] = @ + 1]
      \/ ~Enabled("rollups") /\ recorded' = recorded
    BY DEF RecordRejectReason, AddRollup, Row, RowOf
<1>5. open'.rejects \in [Reasons -> Nat]
    BY <1>1, <1>2
<1>6. \A n \in Reasons : IsFiniteSet(Occurrences("reject", n)')
  <2>1. CASE recorded' = [recorded EXCEPT ![RowOf(clock, x)] = @ + 1]
      BY <1>1, <2>1, OccurrencesGrow
  <2>2. CASE recorded' = recorded
      BY <1>1, <2>2, OccurrencesSame
  <2>3. QED
      BY <1>4, <2>1, <2>2
<1>7. RejectsFresh'
    BY <1>3 DEF RejectsFresh, Up
<1>8. RejectsExact'
  <2> SUFFICES ASSUME faults = 0, Enabled("rollups")
               PROVE  (Totals \in [Reasons -> Nat] /\ Exact(mem.rejects, Totals))'
      BY <1>3 DEF RejectsExact, Enabled
  <2>1. recorded' = [recorded EXCEPT ![RowOf(clock, x)] = @ + 1]
      BY <1>4
  <2>2. /\ Total("reject", x)' = Total("reject", x) + 1
        /\ \A m \in Reasons : m # x => Total("reject", m)' = Total("reject", m)
    <3>1. \A m \in Reasons : m # x => Occurrences("reject", m)' = Occurrences("reject", m)
        BY <1>1, <2>1, OccurrencesGrow
    <3>2. QED
        BY <1>1, <2>1, <3>1, OccurrencesGrow DEF Total
  <2>3. \A n \in Reasons : Total("reject", n)' - open'.rejects[n]
                             = Total("reject", n) - open.rejects[n]
    <3> SUFFICES ASSUME NEW n \in Reasons
                 PROVE  Total("reject", n)' - open'.rejects[n]
                             = Total("reject", n) - open.rejects[n]
        OBVIOUS
    <3>1. Total("reject", n) \in Nat /\ open.rejects[n] \in Nat
        BY <1>1, TotalType
    <3>2. CASE n = x
        BY <1>1, <1>2, <2>2, <3>1, <3>2
    <3>3. CASE n # x
        BY <1>1, <1>2, <2>2, <3>1, <3>3
    <3>4. QED
        BY <3>2, <3>3
  <2>4. Totals' = Totals
      BY <2>3, TotalsOf
  <2>5. Totals \in [Reasons -> Nat] /\ Exact(mem.rejects, Totals)
      BY <1>1 DEF RejectsExact
  <2>6. QED
      BY <1>2, <2>4, <2>5 DEF Exact, Reasons
<1>9. IsTally(mem.rejects, Reasons, RejectCap)'
    BY <1>1, <1>2 DEF IsTally, Reasons
<1>10. QED
    BY <1>5, <1>6, <1>7, <1>8, <1>9 DEF RejectInv, Reasons

\* The second: it is listed, whatever was recorded in between.
LEMMA RejectListedStep ==
    ASSUME CountInv, MemInv, RejectInv, NEW x \in Reasons, RejectListed(x)
    PROVE  RejectInv'
<1> DEFINE old == mem.rejects
           new == CountReject(old, x)
<1>1. /\ IsTally(old, Reasons, RejectCap) /\ RejectsExact
      /\ open.rejects \in [Reasons -> Nat] /\ open.rejects[x] > 0
      /\ \A n \in Reasons : IsFiniteSet(Occurrences("reject", n))
    BY DEF RejectInv, RejectListed
<1>2. mem'.rejects = new
    BY DEF RejectListed, MemInv, MemTypes, IsShown
<1>3. open'.rejects = [open.rejects EXCEPT ![x] = @ - 1]
    BY DEF RejectListed, MemInv, MemTypes, IsOpen
<1>4. UNCHANGED <<setup, backend, faults, recorded>> /\ Up
    BY DEF RejectListed, procVars
<1>5. IsTally(new, Reasons, RejectCap)
    BY <1>1, RejectFound, RejectNew
<1> HIDE DEF new
<1>6. open'.rejects \in [Reasons -> Nat]
  <2>1. open.rejects[x] - 1 \in Nat
      BY <1>1
  <2>2. QED
      BY <1>1, <1>3, <2>1
<1>7. \A n \in Reasons : Occurrences("reject", n)' = Occurrences("reject", n)
    BY <1>4, OccurrencesSame
<1>8. RejectsFresh'
    BY <1>4 DEF RejectsFresh, Up
<1>9. RejectsExact'
  <2> SUFFICES ASSUME faults = 0, Enabled("rollups")
               PROVE  (Totals \in [Reasons -> Nat] /\ Exact(mem.rejects, Totals))'
      BY <1>4 DEF RejectsExact, Enabled
  <2>1. Totals \in [Reasons -> Nat] /\ Exact(old, Totals)
      BY <1>1 DEF RejectsExact
  <2>2. \A n \in Reasons : Total("reject", n)' = Total("reject", n)
      BY <1>7 DEF Total
  <2>3. \A n \in Reasons : Total("reject", n) - open'.rejects[n]
                   = IF n = x THEN Total("reject", n) - open.rejects[n] + 1
                     ELSE Total("reject", n) - open.rejects[n]
    <3> SUFFICES ASSUME NEW n \in Reasons
                 PROVE  Total("reject", n) - open'.rejects[n]
                           = IF n = x THEN Total("reject", n) - open.rejects[n] + 1
                             ELSE Total("reject", n) - open.rejects[n]
        OBVIOUS
    <3>1. Total("reject", n) \in Nat /\ open.rejects[n] \in Nat
        BY <1>1, TotalType
    <3>2. CASE n = x
        BY <1>1, <1>3, <3>1, <3>2
    <3>3. CASE n # x
        BY <1>1, <1>3, <3>1, <3>3
    <3>4. QED
        BY <3>2, <3>3
  <2>4. Totals' = [Totals EXCEPT ![x] = @ + 1]
      BY <2>2, <2>3, TotalsOf
  <2>5. [Totals EXCEPT ![x] = @ + 1] \in [Reasons -> Nat]
      BY <2>1
  <2>6. Exact(new, [Totals EXCEPT ![x] = @ + 1])
      BY <1>1, <2>1, ExactCounted DEF new
  <2>7. QED
      BY <1>2, <2>4, <2>5, <2>6 DEF Exact, Reasons
<1>10. IsTally(mem.rejects, Reasons, RejectCap)'
    BY <1>2, <1>5 DEF IsTally, Reasons
<1>11. QED
    BY <1>1, <1>6, <1>7, <1>8, <1>9, <1>10 DEF RejectInv, Reasons

\* A step that neither counts a reason nor starts the process.
LEMMA RejectKept ==
    ASSUME RejectInv, mem'.rejects = mem.rejects, open'.rejects = open.rejects, UNCHANGED setup,
           \A n \in Reasons : Occurrences("reject", n)' = Occurrences("reject", n),
           faults' = 0 => faults = 0 /\ backend' = backend
    PROVE  RejectInv'
<1>1. (IsTally(mem.rejects, Reasons, RejectCap) /\ open.rejects \in [Reasons -> Nat])'
    BY DEF RejectInv, IsTally, Reasons
<1>2. \A n \in Reasons : IsFiniteSet(Occurrences("reject", n)')
    BY DEF RejectInv
<1>3. RejectsFresh'
    BY DEF RejectInv, RejectsFresh, Up, Reasons
<1>4. Totals' = Totals
  <2>1. \A n \in Reasons : Total("reject", n)' = Total("reject", n)
      BY DEF Total
  <2>2. QED
      BY <2>1, TotalsOf
<1>5. RejectsExact'
    BY <1>4 DEF RejectInv, RejectsExact, Enabled, Exact, Reasons
<1>6. QED
    BY <1>1, <1>2, <1>3, <1>5 DEF RejectInv, Reasons

LEMMA OtherRollup ==
    ASSUME NEW t \in Rollups, t # "reject", NEW n, NEW v, AddRollup(Row(t, n), v), CountInv
    PROVE  \A m \in Reasons : Occurrences("reject", m)' = Occurrences("reject", m)
<1> SUFFICES ASSUME NEW m \in Reasons
             PROVE  Occurrences("reject", m)' = Occurrences("reject", m)
    OBVIOUS
<1>1. \A b \in 0..MaxClock : RowOf(b, m) # Row(t, n) /\ RowOf(b, m) \in Rows
    BY ReasonRows DEF RowOf, Row
<1>2. recorded \in [Rows -> Nat]
    BY DEF CountInv, CountTypes
<1>3. recorded' = recorded \/ recorded' = [recorded EXCEPT ![Row(t, n)] = @ + 1]
    BY DEF AddRollup
<1>4. \A b \in 0..MaxClock : recorded'[RowOf(b, m)] = recorded[RowOf(b, m)]
    BY <1>1, <1>2, <1>3
<1>5. QED
    BY <1>4, OccurrencesSame

LEMMA RejectRecordStep ==
    ASSUME CountInv, MemInv, RejectInv, Record
    PROVE  RejectInv'
<1>0. IsShown(mem) /\ IsOpen(open)
    BY DEF MemInv, MemTypes
<1>1. ASSUME NEW call, Recording(call), mem'.rejects = mem.rejects, open'.rejects = open.rejects,
             \A n \in Reasons : Occurrences("reject", n)' = Occurrences("reject", n)
      PROVE  RejectInv'
  <2>1. UNCHANGED <<setup, faults, backend>>
      BY <1>1 DEF Recording, procVars
  <2>2. QED
      BY <1>1, <2>1, RejectKept
<1>2. UNCHANGED recorded => \A n \in Reasons : Occurrences("reject", n)' = Occurrences("reject", n)
    BY OccurrencesSame
<1>3. CASE Event
  <2>1. UNCHANGED mem /\ open'.rejects = open.rejects
      BY <1>0, <1>3 DEF Event, IsOpen
  <2>2. QED
      BY <1>1, <1>2, <1>3, <2>1 DEF Event
<1>4. ASSUME NEW n, NEW d, RecordLatency(n, d) PROVE RejectInv'
    BY <1>1, <1>4, OtherRollup DEF RecordLatency, Rollups
<1>5. ASSUME NEW n \in Names["reject"], RecordRejectReason(n) PROVE RejectInv'
    BY <1>5, RejectStep DEF Reasons
<1>6. ASSUME NEW n, RecordSelectorPerformance(n) PROVE RejectInv'
    BY <1>1, <1>6, OtherRollup DEF RecordSelectorPerformance, Rollups
<1>7. ASSUME NEW n, NEW s, RecordSelectorPoolPerformance(n, s) PROVE RejectInv'
    BY <1>1, <1>7, OtherRollup DEF RecordSelectorPoolPerformance, Rollups
<1>8. ASSUME NEW n, RecordOpportunityFunnel(n) PROVE RejectInv'
  <2>1. UNCHANGED mem /\ open'.rejects = open.rejects
      BY <1>0, <1>8 DEF RecordOpportunityFunnel, IsOpen
  <2>2. QED
      BY <1>1, <1>8, <2>1, OtherRollup DEF RecordOpportunityFunnel, Rollups
<1>9. ASSUME NEW st, NEW s, RecordEdgeSample(st, s) PROVE RejectInv'
  <2>1. mem'.rejects = mem.rejects
      BY <1>0, <1>9 DEF RecordEdgeSample, IsShown
  <2>2. open'.rejects = open.rejects
    <3>1. UNCHANGED open \/ open' = [open EXCEPT !.selectors[s] = @ + 1]
        BY <1>9 DEF RecordEdgeSample
    <3>2. QED
        BY <1>0, <3>1 DEF IsOpen
  <2>3. QED
      BY <1>1, <1>2, <1>9, <2>1, <2>2 DEF RecordEdgeSample
<1>10. ASSUME NEW r, NEW o, RecordRelayOutcome(r, o) PROVE RejectInv'
  <2>1. UNCHANGED mem /\ open'.rejects = open.rejects
      BY <1>0, <1>10 DEF RecordRelayOutcome, IsOpen
  <2>2. QED
      BY <1>1, <1>2, <1>10, <2>1 DEF RecordRelayOutcome
<1>11. ASSUME NEW t, RecordTrail(t) PROVE RejectInv'
  <2>1. UNCHANGED mem /\ open'.rejects = open.rejects
      BY <1>0, <1>11 DEF RecordTrail, IsOpen
  <2>2. QED
      BY <1>1, <1>2, <1>11, <2>1 DEF RecordTrail
<1>12. CASE SetRelayRankings
  <2>1. mem'.rejects = mem.rejects /\ UNCHANGED open
      BY <1>0, <1>12 DEF SetRelayRankings, IsShown
  <2>2. QED
      BY <1>1, <1>2, <1>12, <2>1 DEF SetRelayRankings
<1>13. QED
    BY <1>3, <1>4, <1>5, <1>6, <1>7, <1>8, <1>9, <1>10, <1>11, <1>12 DEF Record

LEMMA EmptyTally ==
    ASSUME NEW N, NEW n \in Nat
    PROVE  <<>> \in Seq(Tally(N)) /\ Len(<<>>) = 0 /\ IsTally(<<>>, N, n)
<1>1. <<>> \in Seq(Tally(N)) /\ Len(<<>>) = 0
    BY EmptySeq
<1>2. QED
    BY <1>1 DEF IsTally

\* An empty list is exact when nothing was recorded.
LEMMA FreshIsExact ==
    ASSUME \A n \in Reasons : Occurrences("reject", n) = {} /\ open.rejects[n] = 0
    PROVE  Totals \in [Reasons -> Nat] /\ Exact(<<>>, Totals)
<1>1. \A n \in Reasons : Total("reject", n) = 0
    BY FS_EmptySet DEF Total
<1>2. \A n \in Reasons : Totals[n] = 0
    BY <1>1, TotalsOf
<1>3. Len(<<>>) = 0
    BY EmptySeq
<1>4. QED
    BY <1>2, <1>3, TotalsOf DEF Exact

LEMMA RejectRestartStep ==
    ASSUME RejectInv, NEW db \in Backends, Restart(db)
    PROVE  RejectInv'
<1>1. /\ backend = "down" /\ backend' = db /\ db # "down"
      /\ UNCHANGED <<setup, faults, recorded, open>>
    BY DEF Restart, Backends
<1>2. mem'.rejects = <<>>
    BY DEF Restart, Remembered
<1>3. \A n \in Reasons : Occurrences("reject", n)' = Occurrences("reject", n)
    BY <1>1, OccurrencesSame
<1>4. IsTally(mem.rejects, Reasons, RejectCap)'
  <2>1. IsTally(<<>>, Reasons, RejectCap)
      BY EmptyTally, TelemetryAssumption
  <2>2. QED
      BY <1>2, <2>1 DEF IsTally, Reasons
<1>5. /\ \A n \in Reasons : IsFiniteSet(Occurrences("reject", n)')
      /\ open'.rejects \in [Reasons -> Nat]
    BY <1>1, <1>3 DEF RejectInv
<1>6. RejectsFresh'
    BY <1>1 DEF RejectsFresh, Up
<1>7. RejectsExact'
  <2> SUFFICES ASSUME faults = 0
               PROVE  (Totals \in [Reasons -> Nat] /\ Exact(mem.rejects, Totals))'
      BY <1>1 DEF RejectsExact
  <2>1. Totals \in [Reasons -> Nat] /\ Exact(<<>>, Totals)
      BY <1>1, FreshIsExact DEF RejectInv, RejectsFresh, Up
  <2>2. Totals' = Totals
    <3>1. \A n \in Reasons : Total("reject", n)' = Total("reject", n)
        BY <1>3 DEF Total
    <3>2. QED
        BY <1>1, <3>1, TotalsOf
  <2>3. QED
      BY <1>2, <2>1, <2>2 DEF Exact, Reasons
<1>8. QED
    BY <1>4, <1>5, <1>6, <1>7 DEF RejectInv, Reasons

LEMMA RejectNext ==
    ASSUME CountInv, MemInv, RejectInv, [Next]_vars
    PROVE  RejectInv'
<1>0. faults \in Nat /\ IsShown(mem) /\ IsOpen(open)
    BY DEF CountInv, CountTypes, MemInv, MemTypes
<1>1. ASSUME UNCHANGED <<setup, recorded>>, mem'.rejects = mem.rejects,
             open'.rejects = open.rejects,
             faults' = 0 => faults = 0 /\ backend' = backend
      PROVE  RejectInv'
  <2>1. \A n \in Reasons : Occurrences("reject", n)' = Occurrences("reject", n)
      BY <1>1, OccurrencesSame
  <2>2. QED
      BY <1>1, <2>1, RejectKept
<1>2. CASE Record
    BY <1>2, RejectRecordStep
<1>3. CASE Flush
  <2>1. UNCHANGED <<setup, recorded, mem, open, backend>>
      BY <1>3 DEF Flush, FlushTake, FlushRollup, FlushItem, FlushPrune, FlushDone, procVars
  <2>2. UNCHANGED faults \/ faults' = faults + 1
      BY <1>3 DEF Flush, FlushTake, FlushRollup, FlushItem, FlushPrune, FlushDone, procVars, Write
  <2>3. QED
      BY <1>0, <1>1, <2>1, <2>2
<1>4. CASE \/ ClearPending \/ ClearRecent \/ Tick \/ UNCHANGED vars
           \/ \E ok \in BOOLEAN : ClearStored(ok)
  <2>1. UNCHANGED <<setup, recorded, backend, faults, open>>
      BY <1>4 DEF ClearPending, ClearRecent, Tick, vars, ClearStored, procVars
  <2>2. UNCHANGED mem \/ mem' = [mem EXCEPT !.recent = <<>>]
      BY <1>4 DEF ClearPending, ClearRecent, Tick, vars, ClearStored
  <2>3. mem'.rejects = mem.rejects
      BY <1>0, <2>2 DEF IsShown
  <2>4. QED
      BY <1>1, <2>1, <2>3
<1>5. CASE Crash
  <2>1. UNCHANGED <<setup, recorded, mem>> /\ faults' = faults + 1 /\ open' = NoneOpen
      BY <1>5 DEF Crash
  <2>2. (IsTally(mem.rejects, Reasons, RejectCap) /\ open.rejects \in [Reasons -> Nat])'
      BY <2>1 DEF RejectInv, IsTally, NoneOpen, Reasons
  <2>3. \A n \in Reasons : IsFiniteSet(Occurrences("reject", n)')
      BY <2>1, OccurrencesSame DEF RejectInv
  <2>4. RejectsFresh' /\ RejectsExact'
      BY <1>0, <2>1 DEF RejectsFresh, RejectsExact
  <2>5. QED
      BY <2>2, <2>3, <2>4 DEF RejectInv, Reasons
<1>6. CASE \E db \in Backends : Restart(db)
    BY <1>6, RejectRestartStep
<1>7. CASE Finish
  <2>1. ASSUME NEW n \in Names["reject"], RejectListed(n) PROVE RejectInv'
      BY <2>1, RejectListedStep DEF Reasons
  <2>2. UNCHANGED <<setup, recorded, backend, faults>>
      BY <1>7 DEF Finish, EventShown, RejectListed, FunnelCounted, UnsupportedBuffered,
                  ExecutorListed, procVars
  <2>3. ASSUME NEW e, EventShown(e) PROVE RejectInv'
    <3>1. mem'.rejects = mem.rejects
        BY <1>0, <2>3 DEF EventShown, IsShown
    <3>2. open'.rejects = open.rejects
        BY <1>0, <2>3 DEF EventShown, IsOpen
    <3>3. QED
        BY <1>1, <2>2, <3>1, <3>2
  <2>4. ASSUME NEW n, FunnelCounted(n) PROVE RejectInv'
    <3>1. mem'.rejects = mem.rejects
        BY <1>0, <2>4 DEF FunnelCounted, IsShown
    <3>2. open'.rejects = open.rejects
        BY <1>0, <2>4 DEF FunnelCounted, IsOpen
    <3>3. QED
        BY <1>1, <2>2, <3>1, <3>2
  <2>5. ASSUME NEW s, UnsupportedBuffered(s) PROVE RejectInv'
    <3>1. UNCHANGED mem /\ open'.rejects = open.rejects
        BY <1>0, <2>5 DEF UnsupportedBuffered, IsOpen
    <3>2. QED
        BY <1>1, <2>2, <3>1
  <2>6. CASE ExecutorListed
    <3>1. mem'.rejects = mem.rejects
        BY <1>0, <2>6 DEF ExecutorListed, IsShown
    <3>2. open'.rejects = open.rejects
        BY <1>0, <2>6 DEF ExecutorListed, IsOpen
    <3>3. QED
        BY <1>1, <2>2, <3>1, <3>2
  <2>7. QED
      BY <1>7, <2>1, <2>3, <2>4, <2>5, <2>6 DEF Finish
<1>8. QED
    BY <1>2, <1>3, <1>4, <1>5, <1>6, <1>7 DEF Next

LEMMA RejectInit ==
    ASSUME Init PROVE RejectInv
<1>1. /\ recorded = [r \in Rows |-> 0] /\ mem.rejects = <<>>
      /\ open.rejects = [n \in Reasons |-> 0]
    BY DEF Init, Remembered, NoneOpen, Reasons
<1>2. \A n \in Reasons : Occurrences("reject", n) = {}
  <2> SUFFICES ASSUME NEW n \in Reasons PROVE Occurrences("reject", n) = {}
      OBVIOUS
  <2>1. \A b \in 0..MaxClock : recorded[RowOf(b, n)] = 0
      BY <1>1, ReasonRows
  <2>2. \A b \in 0..MaxClock : {b} \X (1..recorded[RowOf(b, n)]) = {}
      BY <2>1
  <2>3. QED
      BY <2>2 DEF Occurrences, RowOf
<1>3. Totals \in [Reasons -> Nat] /\ Exact(mem.rejects, Totals)
    BY <1>1, <1>2, FreshIsExact
<1>4. IsTally(mem.rejects, Reasons, RejectCap)
    BY <1>1, EmptyTally, TelemetryAssumption
<1>5. \A n \in Reasons : IsFiniteSet(Occurrences("reject", n))
    BY <1>2, FS_EmptySet
<1>6. QED
    BY <1>1, <1>2, <1>3, <1>4, <1>5 DEF RejectInv, RejectsFresh, RejectsExact

\* A selector is listed with no more than u counts in both databases, waits
\* in w, and has in calls o that are between their locks.
Seen(w, u, o, s) == u["sqlite"][s] + u["postgres"][s] + Cardinality(Matching(w, {s})) + o[s]
Listed(list, w, u, o) == \A i \in 1..Len(list) : list[i].count <= Seen(w, u, o, list[i].name)
Marked == [Backends -> [Selectors -> Nat]]
Begun == [Selectors -> Nat]
SelQueue == "unsupported"

SelectorTypes ==
    /\ mem.selectors \in Seq(Tally(Selectors)) /\ unsupported \in Marked
    /\ open.selectors \in Begun
    /\ queue[SelQueue] \in Seq(Selectors) /\ inHand[SelQueue] \in Seq(Selectors)
SelectorInv ==
    /\ SelectorTypes
    /\ flush = "idle" => inHand[SelQueue] = <<>>
    /\ faults = 0 => Listed(mem.selectors, inHand[SelQueue] \o queue[SelQueue], unsupported,
                            open.selectors)

LEMMA SeenType ==
    ASSUME NEW w \in Seq(Selectors), NEW u \in Marked, NEW o \in Begun, NEW s \in Selectors
    PROVE  Seen(w, u, o, s) \in Nat
<1>1. u["sqlite"][s] \in Nat /\ u["postgres"][s] \in Nat /\ o[s] \in Nat
    BY DEF Marked, Begun, Backends
<1>2. Cardinality(Matching(w, {s})) \in Nat
    BY MatchingFinite
<1>3. QED
    BY <1>1, <1>2 DEF Seen

LEMMA ListedNames ==
    ASSUME NEW list \in Seq(Tally(Selectors)), NEW i \in 1..Len(list)
    PROVE  list[i].name \in Selectors /\ list[i].count \in Nat
<1>1. list[i] \in Tally(Selectors)
    BY ElementOfSeq
<1>2. QED
    BY <1>1 DEF Tally

\* A selector that is counted in the list has yet to be buffered.
LEMMA ListedCounted ==
    ASSUME NEW list \in Seq(Tally(Selectors)), NEW w \in Seq(Selectors), NEW u \in Marked,
           NEW o \in Begun, NEW x \in Selectors, Listed(list, w, u, o)
    PROVE  /\ [o EXCEPT ![x] = @ + 1] \in Begun
           /\ Listed(CountSelector(list, x), w, u, [o EXCEPT ![x] = @ + 1])
<1> DEFINE new == CountSelector(list, x)
           v == [o EXCEPT ![x] = @ + 1]
<1>1. \A s \in Selectors : Seen(w, u, o, s) \in Nat
    BY SeenType
<1>1a. v \in Begun
    BY DEF Begun
<1>2. \A s \in Selectors :
        Seen(w, u, v, s) = IF s = x THEN Seen(w, u, o, s) + 1 ELSE Seen(w, u, o, s)
  <2> SUFFICES ASSUME NEW s \in Selectors
               PROVE  Seen(w, u, v, s) = IF s = x THEN Seen(w, u, o, s) + 1 ELSE Seen(w, u, o, s)
      OBVIOUS
  <2> DEFINE a == u["sqlite"][s]
             b == u["postgres"][s]
             c == Cardinality(Matching(w, {s}))
             d == o[s]
             e == v[s]
  <2>1. a \in Nat /\ b \in Nat /\ d \in Nat
      BY DEF Marked, Begun, Backends
  <2>2. c \in Nat
      BY MatchingFinite
  <2>3. e = IF s = x THEN d + 1 ELSE d
      BY DEF Begun
  <2>4. Seen(w, u, v, s) = a + b + c + e /\ Seen(w, u, o, s) = a + b + c + d
      BY DEF Seen
  <2> HIDE DEF a, b, c, d, e
  <2>5. QED
      BY <2>1, <2>2, <2>3, <2>4
<1>3. /\ new \in Seq(Tally(Selectors))
      /\ \A j \in 1..Len(new) : Descends(new[j], list, x)
  <2>1. list \in Seq(Tally(Selectors))
      OBVIOUS
  <2>2. x \in Selectors
      OBVIOUS
  <2>3. QED
      BY ONLY <2>1, <2>2, SelectorEntries
<1> HIDE DEF new, v
<1>4. ASSUME NEW j \in 1..Len(new) PROVE new[j].count <= Seen(w, u, v, new[j].name)
  <2>1. ASSUME NEW i \in 1..Len(list), new[j] = list[i]
        PROVE  new[j].count <= Seen(w, u, v, new[j].name)
    <3>1. list[i].name \in Selectors /\ list[i].count \in Nat
        BY ListedNames
    <3>2. list[i].count <= Seen(w, u, o, list[i].name)
        BY DEF Listed
    <3>3. QED
        BY <1>1, <1>2, <2>1, <3>1, <3>2
  <2>2. CASE new[j] = [name |-> x, count |-> 1]
    <3>1. new[j].name = x /\ new[j].count = 1
        BY <2>2
    <3>2. QED
        BY <1>1, <1>2, <3>1
  <2>3. ASSUME NEW i \in 1..Len(list), list[i].name = x,
               new[j] = [name |-> x, count |-> list[i].count + 1]
        PROVE  new[j].count <= Seen(w, u, v, new[j].name)
    <3>1. list[i].count \in Nat
        BY ListedNames
    <3>2. list[i].count <= Seen(w, u, o, x)
        BY <2>3 DEF Listed
    <3>3. new[j].name = x /\ new[j].count = list[i].count + 1
        BY <2>3
    <3>4. Seen(w, u, v, x) = Seen(w, u, o, x) + 1 /\ Seen(w, u, o, x) \in Nat
        BY <1>1, <1>2
    <3>5. QED
        BY <3>1, <3>2, <3>3, <3>4
  <2>4. QED
      BY <1>3, <2>1, <2>2, <2>3 DEF Descends
<1>5. QED
    BY <1>1a, <1>4 DEF Listed, new, v

\* What is buffered waits.
LEMMA ListedBuffered ==
    ASSUME NEW list \in Seq(Tally(Selectors)), NEW w \in Seq(Selectors), NEW u \in Marked,
           NEW o \in Begun, NEW x \in Selectors, o[x] > 0, Listed(list, w, u, o)
    PROVE  Listed(list, Append(w, x), u, [o EXCEPT ![x] = @ - 1])
<1> DEFINE v == [o EXCEPT ![x] = @ - 1]
<1>1. ASSUME NEW s \in Selectors PROVE Seen(Append(w, x), u, v, s) = Seen(w, u, o, s)
  <2> DEFINE a == u["sqlite"][s]
             b == u["postgres"][s]
             c == Cardinality(Matching(w, {s}))
             c1 == Cardinality(Matching(Append(w, x), {s}))
             d == o[s]
             d1 == v[s]
  <2>1. a \in Nat /\ b \in Nat /\ d \in Nat
      BY DEF Marked, Begun, Backends
  <2>2. c \in Nat
      BY MatchingFinite
  <2>3. c1 = IF x \in {s} THEN c + 1 ELSE c
      BY MatchingAppend
  <2>4. d1 = IF s = x THEN d - 1 ELSE d
      BY DEF Begun
  <2>5. Seen(Append(w, x), u, v, s) = a + b + c1 + d1 /\ Seen(w, u, o, s) = a + b + c + d
      BY DEF Seen
  <2> HIDE DEF a, b, c, c1, d, d1
  <2>6. x \in {s} <=> s = x
      OBVIOUS
  <2>7. QED
      BY <2>1, <2>2, <2>3, <2>4, <2>5, <2>6
<1> HIDE DEF v
<1>2. \A i \in 1..Len(list) : list[i].count <= Seen(Append(w, x), u, v, list[i].name)
    BY <1>1, ListedNames DEF Listed
<1>3. QED
    BY <1>2 DEF Listed, v

\* What is written no longer waits.
LEMMA ListedWritten ==
    ASSUME NEW list \in Seq(Tally(Selectors)), NEW w \in Seq(Selectors), NEW u \in Marked,
           NEW o \in Begun, w # <<>>, NEW db \in Backends, Listed(list, w, u, o)
    PROVE  /\ [u EXCEPT ![db][Head(w)] = @ + 1] \in Marked
           /\ Listed(list, Tail(w), [u EXCEPT ![db][Head(w)] = @ + 1], o)
<1> DEFINE x == Head(w)
           n == u[db][x] + 1
           v == [u EXCEPT ![db][x] = @ + 1]
<1>1. x \in Selectors /\ Tail(w) \in Seq(Selectors)
    BY HeadTailProperties
<1> HIDE DEF x
<1>2. u[db] \in [Selectors -> Nat] /\ n \in Nat /\ v = [u EXCEPT ![db] = [u[db] EXCEPT ![x] = n]]
    BY <1>1 DEF Marked
<1> HIDE DEF v, n
<1>3. [u[db] EXCEPT ![x] = n] \in [Selectors -> Nat]
    BY <1>1, <1>2
<1>4. v \in Marked
    BY <1>2, <1>3 DEF Marked
<1>5. ASSUME NEW s \in Selectors PROVE Seen(Tail(w), v, o, s) = Seen(w, u, o, s)
  <2> DEFINE a == u["sqlite"][s]
             b == u["postgres"][s]
             a1 == v["sqlite"][s]
             b1 == v["postgres"][s]
             c == Cardinality(Matching(w, {s}))
             d == Cardinality(Matching(Tail(w), {s}))
             e == o[s]
  <2>1. a \in Nat /\ b \in Nat /\ e \in Nat
      BY DEF Marked, Begun, Backends
  <2>2. c \in Nat /\ d \in Nat
      BY <1>1, MatchingFinite
  <2>3. c = IF x \in {s} THEN d + 1 ELSE d
      BY MatchingTail DEF x
  <2>4. \/ x # s /\ a1 = a /\ b1 = b
        \/ x = s /\ a1 = a + 1 /\ b1 = b
        \/ x = s /\ a1 = a /\ b1 = b + 1
    <3>1. \A d2 \in Backends : d2 # db => v[d2] = u[d2]
        BY <1>2 DEF Marked
    <3>2. v[db] = [u[db] EXCEPT ![x] = n]
        BY <1>2 DEF Marked
    <3>3. v[db][s] = IF x = s THEN u[db][s] + 1 ELSE u[db][s]
        BY <1>1, <1>2, <3>2 DEF n
    <3>4. CASE db = "sqlite"
      <4>1. v["postgres"] = u["postgres"]
          BY <3>1, <3>4 DEF Backends
      <4>2. QED
          BY <3>3, <3>4, <4>1
    <3>5. CASE db = "postgres"
      <4>1. v["sqlite"] = u["sqlite"]
          BY <3>1, <3>5 DEF Backends
      <4>2. QED
          BY <3>3, <3>5, <4>1
    <3>6. QED
        BY <3>4, <3>5 DEF Backends
  <2>5. Seen(Tail(w), v, o, s) = a1 + b1 + d + e /\ Seen(w, u, o, s) = a + b + c + e
      BY DEF Seen
  <2> HIDE DEF a, b, a1, b1, c, d, e
  <2>6. x \in {s} <=> x = s
      OBVIOUS
  <2>7. QED
      BY <2>1, <2>2, <2>3, <2>4, <2>5, <2>6
<1>6. \A i \in 1..Len(list) : list[i].count <= Seen(Tail(w), v, o, list[i].name)
    BY <1>5, ListedNames DEF Listed
<1>7. QED
    BY <1>4, <1>6 DEF Listed, v, x

LEMMA SelQueueIsQueue == SelQueue \in Queues /\ SelQueue \notin Rollups /\ SelQueue # "events"
    BY DEF SelQueue, Queues, Rollups

\* A step that has no part in unsupported selectors, or that fails.
LEMMA SelectorKept ==
    ASSUME SelectorInv, SelectorTypes', mem'.selectors = mem.selectors,
           flush' = "idle" => inHand'[SelQueue] = <<>>,
           faults' = 0 => /\ faults = 0 /\ unsupported' = unsupported
                          /\ open'.selectors = open.selectors
                          /\ inHand'[SelQueue] \o queue'[SelQueue] = inHand[SelQueue] \o queue[SelQueue]
    PROVE  SelectorInv'
<1>1. faults' = 0 => Listed(mem'.selectors, inHand'[SelQueue] \o queue'[SelQueue], unsupported',
                            open'.selectors)
    BY DEF SelectorInv
<1>2. QED
    BY <1>1 DEF SelectorInv, Listed, SelQueue

LEMMA SelectorsUnchanged ==
    ASSUME SelectorInv, mem'.selectors = mem.selectors, open'.selectors = open.selectors,
           UNCHANGED unsupported,
           queue'[SelQueue] = queue[SelQueue], inHand'[SelQueue] = inHand[SelQueue],
           flush' = "idle" => inHand'[SelQueue] = <<>>, faults' = 0 => faults = 0
    PROVE  SelectorInv'
<1>1. SelectorTypes'
    BY DEF SelectorInv, SelectorTypes, SelQueue, Tally, Marked, Begun, Backends
<1>2. QED
    BY <1>1, SelectorKept

\* The first lock counts the selector in the list.
LEMMA SelectorCounted ==
    ASSUME MemInv, SelectorInv, NEW x \in Selectors, RecordEdgeSample("unsupported", x)
    PROVE  SelectorInv'
<1> DEFINE w == inHand[SelQueue] \o queue[SelQueue]
           list == CountSelector(mem.selectors, x)
           o == [open.selectors EXCEPT ![x] = @ + 1]
<1>1. SelectorTypes /\ IsShown(mem) /\ IsOpen(open)
    BY DEF SelectorInv, MemInv, MemTypes
<1>2. mem'.selectors = list
    BY <1>1 DEF RecordEdgeSample, IsShown
<1>3. UNCHANGED <<inHand, queue, flush, unsupported, faults>>
    BY DEF RecordEdgeSample, Recording, bufferVars, flushVars, storeVars, procVars
<1>4. open'.selectors = o
    BY <1>1 DEF RecordEdgeSample, IsOpen
<1>5. /\ mem.selectors \in Seq(Tally(Selectors)) /\ unsupported \in Marked
      /\ open.selectors \in Begun
      /\ inHand[SelQueue] \in Seq(Selectors) /\ queue[SelQueue] \in Seq(Selectors)
    BY <1>1 DEF SelectorTypes
<1>6. list \in Seq(Tally(Selectors)) /\ o \in Begun
  <2>1. list \in Seq(Tally(Selectors))
      BY <1>5, SelectorEntries
  <2>2. o \in Begun
      BY <1>5 DEF Begun
  <2>3. QED
      BY <2>1, <2>2
<1>7. w \in Seq(Selectors)
    BY <1>5, ConcatProperties
<1>8. faults = 0 => Listed(mem.selectors, w, unsupported, open.selectors)
    BY DEF SelectorInv
<1> HIDE DEF w
<1>9. faults = 0 => Listed(list, w, unsupported, o)
    BY <1>5, <1>7, <1>8, ListedCounted
<1> HIDE DEF list, o
<1>10. SelectorTypes'
    BY <1>2, <1>3, <1>4, <1>5, <1>6 DEF SelectorTypes, SelQueue, Tally, Marked, Begun, Backends
<1>11. faults' = 0 => Listed(mem'.selectors, inHand'[SelQueue] \o queue'[SelQueue], unsupported',
                             open'.selectors)
    BY <1>2, <1>3, <1>4, <1>9 DEF w
<1>12. flush' = "idle" => inHand'[SelQueue] = <<>>
    BY <1>3 DEF SelectorInv
<1>13. QED
    BY <1>10, <1>11, <1>12 DEF SelectorInv, Listed, SelQueue

\* The second puts it into the buffer.
LEMMA SelectorBuffered ==
    ASSUME MemInv, SelectorInv, NEW x \in Selectors, UnsupportedBuffered(x)
    PROVE  SelectorInv'
<1> DEFINE h == inHand[SelQueue]
           q == queue[SelQueue]
           o == [open.selectors EXCEPT ![x] = @ - 1]
<1>1. SelectorTypes /\ IsOpen(open) /\ DOMAIN queue = Queues
    BY DEF SelectorInv, MemInv, MemTypes
<1>2. /\ UNCHANGED <<mem, inHand, flush, unsupported, faults>>
      /\ open.selectors[x] > 0
    BY DEF UnsupportedBuffered, flushVars, storeVars, procVars
<1>3. open'.selectors = o
    BY <1>1 DEF UnsupportedBuffered, IsOpen
<1>4. queue'[SelQueue] = Append(q, x)
    BY <1>1, SelQueueIsQueue DEF UnsupportedBuffered, Push, SelQueue
<1>5. /\ mem.selectors \in Seq(Tally(Selectors)) /\ unsupported \in Marked
      /\ open.selectors \in Begun /\ h \in Seq(Selectors) /\ q \in Seq(Selectors)
    BY <1>1 DEF SelectorTypes
<1>6. o \in Begun
  <2>1. open.selectors[x] - 1 \in Nat
      BY <1>2, <1>5 DEF Begun
  <2>2. QED
      BY <1>5, <2>1 DEF Begun
<1>7. SelectorTypes'
  <2>1. Append(q, x) \in Seq(Selectors)
      BY <1>5, AppendProperties
  <2> HIDE DEF o
  <2>2. QED
      BY <1>2, <1>3, <1>4, <1>5, <1>6, <2>1
         DEF SelectorTypes, SelQueue, Tally, Marked, Begun, Backends
<1>8. ASSUME faults' = 0
      PROVE  Listed(mem'.selectors, inHand'[SelQueue] \o queue'[SelQueue], unsupported',
                    open'.selectors)
  <2>1. Listed(mem.selectors, h \o q, unsupported, open.selectors)
      BY <1>2, <1>8 DEF SelectorInv
  <2> HIDE DEF h, q
  <2>2. h \o q \in Seq(Selectors) /\ h \o Append(q, x) = Append(h \o q, x)
      BY <1>5, ConcatProperties, WaitingAppend
  <2>3. Listed(mem.selectors, Append(h \o q, x), unsupported, o)
      BY <1>2, <1>5, <2>1, <2>2, ListedBuffered
  <2> HIDE DEF o
  <2>4. inHand'[SelQueue] \o queue'[SelQueue] = Append(h \o q, x)
      BY <1>2, <1>4, <2>2 DEF h
  <2>5. QED
      BY <1>2, <1>3, <2>3, <2>4
<1>9. flush' = "idle" => inHand'[SelQueue] = <<>>
    BY <1>2 DEF SelectorInv
<1>10. QED
    BY <1>7, <1>8, <1>9 DEF SelectorInv, Listed, SelQueue

LEMMA SelectorRecordStep ==
    ASSUME MemInv, SelectorInv, Record
    PROVE  SelectorInv'
<1>0. /\ IsShown(mem) /\ IsOpen(open) /\ DOMAIN queue = Queues
      /\ (flush = "idle" => inHand[SelQueue] = <<>>)
    BY DEF MemInv, MemTypes, SelectorInv
<1>1. ASSUME NEW call, Recording(call), mem'.selectors = mem.selectors,
             open'.selectors = open.selectors, queue'[SelQueue] = queue[SelQueue]
      PROVE  SelectorInv'
  <2>1. UNCHANGED <<inHand, flush, faults, unsupported>>
      BY <1>1 DEF Recording, procVars, flushVars, storeVars
  <2>2. QED
      BY <1>0, <1>1, <2>1, SelectorsUnchanged
<1>2. \A t, y : t # SelQueue /\ Push(t, y) => queue'[SelQueue] = queue[SelQueue]
    BY <1>0, SelQueueIsQueue DEF Push
<1>3. CASE Event
  <2>1. UNCHANGED mem /\ open'.selectors = open.selectors
      BY <1>0, <1>3 DEF Event, IsOpen
  <2>2. QED
      BY <1>1, <1>2, <1>3, <2>1 DEF Event, SelQueue
<1>4. ASSUME NEW n, NEW d, RecordLatency(n, d) PROVE SelectorInv'
    BY <1>1, <1>2, <1>4 DEF RecordLatency, SelQueue
<1>5. ASSUME NEW n, RecordRejectReason(n) PROVE SelectorInv'
  <2>1. UNCHANGED mem /\ open'.selectors = open.selectors
      BY <1>0, <1>5 DEF RecordRejectReason, IsOpen
  <2>2. QED
      BY <1>1, <1>5, <2>1 DEF RecordRejectReason
<1>6. ASSUME NEW n, RecordSelectorPerformance(n) PROVE SelectorInv'
    BY <1>1, <1>6 DEF RecordSelectorPerformance
<1>7. ASSUME NEW n, NEW s, RecordSelectorPoolPerformance(n, s) PROVE SelectorInv'
    BY <1>1, <1>7 DEF RecordSelectorPoolPerformance
<1>8. ASSUME NEW n, RecordOpportunityFunnel(n) PROVE SelectorInv'
  <2>1. UNCHANGED mem /\ open'.selectors = open.selectors
      BY <1>0, <1>8 DEF RecordOpportunityFunnel, IsOpen
  <2>2. QED
      BY <1>1, <1>8, <2>1 DEF RecordOpportunityFunnel
<1>9. ASSUME NEW st, NEW s \in Selectors, RecordEdgeSample(st, s) PROVE SelectorInv'
  <2>1. CASE st = "unsupported"
      BY <1>9, <2>1, SelectorCounted
  <2>2. CASE st # "unsupported"
    <3>1. mem'.selectors = mem.selectors /\ UNCHANGED open
        BY <1>0, <1>9, <2>2 DEF RecordEdgeSample, IsShown
    <3>2. QED
        BY <1>1, <1>9, <2>2, <3>1 DEF RecordEdgeSample, bufferVars
  <2>3. QED
      BY <2>1, <2>2
<1>10. ASSUME NEW r, NEW o, RecordRelayOutcome(r, o) PROVE SelectorInv'
  <2>1. UNCHANGED mem /\ open'.selectors = open.selectors
      BY <1>0, <1>10 DEF RecordRelayOutcome, IsOpen
  <2>2. QED
      BY <1>1, <1>2, <1>10, <2>1 DEF RecordRelayOutcome, SelQueue
<1>11. ASSUME NEW t \in Trails, RecordTrail(t) PROVE SelectorInv'
  <2>1. UNCHANGED mem /\ open'.selectors = open.selectors
      BY <1>0, <1>11 DEF RecordTrail, IsOpen
  <2>2. t # SelQueue
      BY DEF Trails, SelQueue
  <2>3. QED
      BY <1>1, <1>2, <1>11, <2>1, <2>2 DEF RecordTrail
<1>12. CASE SetRelayRankings
  <2>1. mem'.selectors = mem.selectors /\ UNCHANGED open
      BY <1>0, <1>12 DEF SetRelayRankings, IsShown
  <2>2. QED
      BY <1>1, <1>12, <2>1 DEF SetRelayRankings, bufferVars
<1>13. QED
    BY <1>3, <1>4, <1>5, <1>6, <1>7, <1>8, <1>9, <1>10, <1>11, <1>12 DEF Record, Trails

LEMMA SelectorTakeStep ==
    ASSUME MemInv, SelectorInv, FlushTake
    PROVE  SelectorInv'
<1>1. SelectorTypes /\ DOMAIN queue = Queues
    BY DEF SelectorInv, MemInv, MemTypes
<1>2. /\ UNCHANGED <<unsupported, mem, open, faults>> /\ queue' = NoItems /\ flush' = "before"
      /\ inHand' = [queue EXCEPT !["events"] = IF Enabled("events") THEN @ ELSE <<>>]
      /\ inHand[SelQueue] = <<>>
    BY DEF FlushTake, storeVars, procVars, SelectorInv
<1>3. queue'[SelQueue] = <<>> /\ inHand'[SelQueue] = queue[SelQueue]
    BY <1>1, <1>2, SelQueueIsQueue DEF NoItems
<1>4. queue[SelQueue] \in Seq(Selectors)
    BY <1>1 DEF SelectorTypes
<1>5. inHand'[SelQueue] \o queue'[SelQueue] = inHand[SelQueue] \o queue[SelQueue]
  <2>1. /\ queue[SelQueue] \o <<>> = queue[SelQueue]
        /\ <<>> \o queue[SelQueue] = queue[SelQueue]
      BY <1>4, ConcatEmptySeq
  <2>2. QED
      BY <1>2, <1>3, <2>1
<1>6. SelectorTypes'
  <2>1. <<>> \in Seq(Selectors)
      BY EmptySeq
  <2>2. QED
      BY <1>1, <1>2, <1>3, <1>4, <2>1 DEF SelectorTypes, SelQueue, Tally, Marked, Begun, Backends
<1>7. QED
    BY <1>2, <1>5, <1>6, SelectorKept

LEMMA SelectorItemStep ==
    ASSUME CountInv, MemInv, SelectorInv, NEW t \in Queues, NEW ok \in BOOLEAN, FlushItem(t, ok)
    PROVE  SelectorInv'
<1>1. SelectorTypes /\ DOMAIN inHand = Queues /\ faults \in Nat
    BY DEF SelectorInv, MemInv, MemTypes, CountInv, CountTypes
<1>2. /\ UNCHANGED <<queue, mem, open, flush, backend>> /\ backend \in Backends
      /\ inHand' = [inHand EXCEPT ![t] = Tail(@)]
      /\ (faults' = 0 => faults = 0)
    BY <1>1 DEF FlushItem, Write, bufferVars, Up, CountInv, CountTypes
<1>3. CASE t # SelQueue
  <2>1. UNCHANGED unsupported
      BY <1>3 DEF FlushItem, Store, LogEvent, LogTelemetry, StoreTreasury, StoreOutcome,
                  Logged, StoreRelay, SelQueue
  <2>2. inHand'[SelQueue] = inHand[SelQueue]
      BY <1>1, <1>2, <1>3, SelQueueIsQueue
  <2>3. QED
      BY <1>2, <2>1, <2>2, SelectorsUnchanged DEF SelectorInv
<1>4. CASE t = SelQueue
  <2> DEFINE h == inHand[SelQueue]
             q == queue[SelQueue]
  <2>1. h # <<>>
      BY <1>4, SelQueueIsQueue DEF FlushItem, Turn, Left
  <2>2. h \in Seq(Selectors) /\ q \in Seq(Selectors)
      BY <1>1 DEF SelectorTypes
  <2>3. inHand'[SelQueue] = Tail(h) /\ queue'[SelQueue] = q
      BY <1>1, <1>2, <1>4, SelQueueIsQueue
  <2>4. Tail(h) \in Seq(Selectors) /\ Head(h) \in Selectors
      BY <2>1, <2>2, HeadTailProperties
  <2>5. flush' # "idle"
      BY <1>2, <2>1 DEF SelectorInv
  <2>6. /\ mem.selectors \in Seq(Tally(Selectors)) /\ unsupported \in Marked
        /\ open.selectors \in Begun
      BY <1>1 DEF SelectorTypes
  <2>7. CASE ok = FALSE
    <3>1. UNCHANGED unsupported /\ faults' = faults + 1
        BY <1>4, <2>7 DEF FlushItem, Write
    <3>2. SelectorTypes'
        BY <1>2, <2>2, <2>3, <2>4, <2>6, <3>1 DEF SelectorTypes, SelQueue, Tally, Marked, Begun, Backends
    <3>3. faults' # 0
        BY <1>1, <3>1
    <3>4. QED
        BY <1>2, <2>5, <3>2, <3>3, SelectorKept
  <2>8. CASE ok = TRUE
    <3>1. unsupported' = [unsupported EXCEPT ![backend][Head(h)] = @ + 1]
        BY <1>4, <2>8 DEF FlushItem, Store, StoreUnsupported, SelQueue
    <3>2. /\ h \o q \in Seq(Selectors) /\ h \o q # <<>>
          /\ Tail(h) \o q = Tail(h \o q) /\ Head(h \o q) = Head(h)
      <4> HIDE DEF h, q
      <4>1. QED
          BY <2>1, <2>2, WaitingTail
    <3> DEFINE w == h \o q
               u == [unsupported EXCEPT ![backend][Head(w)] = @ + 1]
    <3>3. unsupported' = u /\ inHand'[SelQueue] \o queue'[SelQueue] = Tail(w)
        BY <2>3, <3>1, <3>2
    <3>4. w \in Seq(Selectors) /\ w # <<>>
        BY <3>2
    <3>5. Listed(<<>>, w, unsupported, open.selectors) /\ <<>> \in Seq(Tally(Selectors))
        BY EmptySeq DEF Listed
    <3>6. faults = 0 => Listed(mem.selectors, w, unsupported, open.selectors)
        BY DEF SelectorInv
    <3> HIDE DEF w
    <3>7. u \in Marked
        BY <1>2, <2>6, <3>4, <3>5, ListedWritten
    <3>8. faults = 0 => Listed(mem.selectors, Tail(w), u, open.selectors)
        BY <1>2, <2>6, <3>4, <3>6, ListedWritten
    <3> HIDE DEF u
    <3>9. SelectorTypes'
        BY <1>2, <2>2, <2>3, <2>4, <2>6, <3>3, <3>7 DEF SelectorTypes, SelQueue, Tally, Marked, Begun, Backends
    <3>10. faults' = 0 => Listed(mem'.selectors, inHand'[SelQueue] \o queue'[SelQueue],
                                 unsupported', open'.selectors)
        BY <1>2, <3>3, <3>8
    <3>11. QED
        BY <2>5, <3>9, <3>10 DEF SelectorInv, Listed, SelQueue
  <2>9. QED
      BY <2>7, <2>8
<1>5. QED
    BY <1>3, <1>4

LEMMA SelectorNext ==
    ASSUME CountInv, MemInv, SelectorInv, [Next]_vars
    PROVE  SelectorInv'
<1>0. /\ faults \in Nat /\ IsShown(mem) /\ IsOpen(open) /\ DOMAIN queue = Queues
      /\ SelectorTypes /\ (flush = "idle" => inHand[SelQueue] = <<>>)
    BY DEF CountInv, CountTypes, MemInv, MemTypes, SelectorInv
<1>1. CASE Record
    BY <1>1, SelectorRecordStep
<1>2. CASE FlushTake
    BY <1>2, SelectorTakeStep
<1>3. CASE \E t \in Queues, ok \in BOOLEAN : FlushItem(t, ok)
    BY <1>3, SelectorItemStep
<1>4. CASE FlushDone
  <2>1. flush = "after" /\ Written /\ UNCHANGED <<queue, inHand, mem, open, unsupported, faults>>
      BY <1>4 DEF FlushDone, bufferVars, storeVars, procVars
  <2>2. Order = AfterPrune /\ AfterPrune[3] = SelQueue /\ 3 \in DOMAIN AfterPrune
      BY <2>1 DEF Order, AfterPrune, SelQueue
  <2>3. ~Left(SelQueue)
      BY <2>1, <2>2 DEF Written
  <2>4. inHand[SelQueue] = <<>>
      BY <2>3, SelQueueIsQueue DEF Left
  <2>5. QED
      BY <2>1, <2>4, SelectorsUnchanged
<1>5. CASE FlushPrune \/ \E r \in Present(taken), ok \in BOOLEAN : FlushRollup(r, ok)
  <2>1. /\ UNCHANGED <<queue, inHand, mem, open, unsupported>> /\ (flush' = "idle" => flush = "idle")
        /\ (faults' = 0 => faults = 0)
      BY <1>0, <1>5 DEF FlushPrune, FlushRollup, bufferVars, Write
  <2>2. QED
      BY <1>0, <2>1, SelectorsUnchanged
<1>6. CASE \/ ClearPending \/ ClearRecent \/ Tick \/ UNCHANGED vars
           \/ \E ok \in BOOLEAN : ClearStored(ok)
  <2>1. UNCHANGED <<inHand, unsupported, faults, flush, open>>
      BY <1>6 DEF ClearPending, ClearRecent, Tick, vars, ClearStored, procVars, storeVars, flushVars
  <2>2. UNCHANGED mem \/ mem' = [mem EXCEPT !.recent = <<>>]
      BY <1>6 DEF ClearPending, ClearRecent, Tick, vars, ClearStored
  <2>3. mem'.selectors = mem.selectors
      BY <1>0, <2>2 DEF IsShown
  <2>4. UNCHANGED queue \/ queue' = [queue EXCEPT !["events"] = <<>>]
      BY <1>6 DEF ClearPending, ClearRecent, Tick, vars, ClearStored, bufferVars
  <2>5. queue'[SelQueue] = queue[SelQueue]
      BY <1>0, <2>4, SelQueueIsQueue
  <2>6. QED
      BY <1>0, <2>1, <2>3, <2>5, SelectorsUnchanged
<1>7. CASE Crash
  <2>1. /\ UNCHANGED <<mem, unsupported>> /\ faults' = faults + 1 /\ open' = NoneOpen
        /\ queue' = NoItems /\ inHand' = NoItems
      BY <1>7 DEF Crash, storeVars
  <2>2. queue'[SelQueue] = <<>> /\ inHand'[SelQueue] = <<>> /\ <<>> \in Seq(Selectors)
      BY <2>1, SelQueueIsQueue, EmptySeq DEF NoItems
  <2>3. SelectorTypes'
    <3>1. open'.selectors \in Begun
        BY <2>1 DEF NoneOpen, Begun
    <3>2. QED
        BY <1>0, <2>1, <2>2, <3>1 DEF SelectorTypes, SelQueue, Tally, Marked, Begun, Backends
  <2>4. faults' # 0
      BY <1>0, <2>1
  <2>5. QED
      BY <2>1, <2>2, <2>3, <2>4, SelectorKept
<1>8. CASE \E db \in Backends : Restart(db)
  <2>1. UNCHANGED <<queue, inHand, unsupported, flush, open>> /\ mem'.selectors = <<>>
      BY <1>8 DEF Restart, Remembered, bufferVars
  <2>2. <<>> \in Seq(Tally(Selectors)) /\ Len(<<>>) = 0
      BY EmptySeq
  <2>3. SelectorTypes'
      BY <1>0, <2>1, <2>2 DEF SelectorTypes, SelQueue, Tally, Marked, Begun, Backends
  <2>4. Listed(mem'.selectors, inHand'[SelQueue] \o queue'[SelQueue], unsupported', open'.selectors)
      BY <2>1, <2>2 DEF Listed
  <2>5. flush' = "idle" => inHand'[SelQueue] = <<>>
      BY <1>0, <2>1
  <2>6. QED
      BY <2>3, <2>4, <2>5 DEF SelectorInv, Listed, SelQueue
<1>9. CASE Finish
  <2>1. ASSUME NEW s \in Selectors, UnsupportedBuffered(s) PROVE SelectorInv'
      BY <2>1, SelectorBuffered
  <2>2. ASSUME UNCHANGED <<queue, inHand, flush, unsupported, faults>>,
               mem'.selectors = mem.selectors, open'.selectors = open.selectors
        PROVE  SelectorInv'
      BY <1>0, <2>2, SelectorsUnchanged
  <2>3. ASSUME NEW e, EventShown(e) PROVE SelectorInv'
    <3>1. mem'.selectors = mem.selectors
        BY <1>0, <2>3 DEF EventShown, IsShown
    <3>2. open'.selectors = open.selectors
        BY <1>0, <2>3 DEF EventShown, IsOpen
    <3>3. QED
        BY <2>2, <2>3, <3>1, <3>2 DEF EventShown, bufferVars, flushVars, storeVars, procVars
  <2>4. ASSUME NEW n, RejectListed(n) PROVE SelectorInv'
    <3>1. mem'.selectors = mem.selectors
        BY <1>0, <2>4 DEF RejectListed, IsShown
    <3>2. open'.selectors = open.selectors
        BY <1>0, <2>4 DEF RejectListed, IsOpen
    <3>3. QED
        BY <2>2, <2>4, <3>1, <3>2 DEF RejectListed, bufferVars, flushVars, storeVars, procVars
  <2>5. ASSUME NEW n, FunnelCounted(n) PROVE SelectorInv'
    <3>1. mem'.selectors = mem.selectors
        BY <1>0, <2>5 DEF FunnelCounted, IsShown
    <3>2. open'.selectors = open.selectors
        BY <1>0, <2>5 DEF FunnelCounted, IsOpen
    <3>3. QED
        BY <2>2, <2>5, <3>1, <3>2 DEF FunnelCounted, bufferVars, flushVars, storeVars, procVars
  <2>6. CASE ExecutorListed
    <3>1. mem'.selectors = mem.selectors
        BY <1>0, <2>6 DEF ExecutorListed, IsShown
    <3>2. open'.selectors = open.selectors
        BY <1>0, <2>6 DEF ExecutorListed, IsOpen
    <3>3. QED
        BY <2>2, <2>6, <3>1, <3>2 DEF ExecutorListed, bufferVars, flushVars, storeVars, procVars
  <2>7. QED
      BY <1>9, <2>1, <2>3, <2>4, <2>5, <2>6 DEF Finish
<1>10. QED
    BY <1>1, <1>2, <1>3, <1>4, <1>5, <1>6, <1>7, <1>8, <1>9 DEF Next, Flush

LEMMA SelectorInit ==
    ASSUME Init PROVE SelectorInv
<1>1. /\ queue = NoItems /\ inHand = NoItems /\ mem.selectors = <<>>
      /\ unsupported = [db \in Backends |-> [s \in Selectors |-> 0]]
      /\ open.selectors = [s \in Selectors |-> 0]
    BY DEF Init, Idle, Remembered, NoneOpen
<1>2. queue[SelQueue] = <<>> /\ inHand[SelQueue] = <<>> /\ <<>> \in Seq(Selectors)
    BY <1>1, SelQueueIsQueue, EmptySeq DEF NoItems
<1>3. <<>> \in Seq(Tally(Selectors)) /\ Len(<<>>) = 0
    BY EmptySeq
<1>4. unsupported \in Marked /\ open.selectors \in Begun
    BY <1>1 DEF Marked, Begun
<1>5. Listed(mem.selectors, inHand[SelQueue] \o queue[SelQueue], unsupported, open.selectors)
    BY <1>1, <1>3 DEF Listed
<1>6. QED
    BY <1>1, <1>2, <1>3, <1>4, <1>5 DEF SelectorInv, SelectorTypes

LEMMA ListsShown ==
    ASSUME RejectInv, SelectorInv
    PROVE  ListsAreExact
<1> SUFFICES ASSUME faults = 0, Enabled("rollups")
             PROVE  /\ \A i \in DOMAIN mem.rejects :
                         mem.rejects[i].count = Due(mem.rejects[i].name)
                    /\ Len(mem.rejects) < RejectCap =>
                         \A n \in Names["reject"] : Due(n) > 0 =>
                             \E i \in DOMAIN mem.rejects : mem.rejects[i].name = n
                    /\ \A i \in DOMAIN mem.selectors :
                         mem.selectors[i].count <= SeenSelector(mem.selectors[i].name)
    BY DEF ListsAreExact
<1>1. /\ mem.rejects \in Seq(Tally(Reasons)) /\ mem.selectors \in Seq(Tally(Selectors))
      /\ Exact(mem.rejects, Totals)
      /\ Listed(mem.selectors, inHand[SelQueue] \o queue[SelQueue], unsupported, open.selectors)
    BY DEF RejectInv, IsTally, RejectsExact, SelectorInv, SelectorTypes
<1>2. DOMAIN mem.rejects = 1..Len(mem.rejects) /\ DOMAIN mem.selectors = 1..Len(mem.selectors)
    BY <1>1, LenProperties
<1>3. \A n \in Reasons : Totals[n] = Due(n)
    BY DEF Totals
<1>4. \A i \in 1..Len(mem.rejects) : mem.rejects[i].name \in Reasons
  <2>1. \A i \in 1..Len(mem.rejects) : mem.rejects[i] \in Tally(Reasons)
      BY <1>1, ElementOfSeq
  <2>2. QED
      BY <2>1 DEF Tally
<1>5. \A i \in DOMAIN mem.rejects : mem.rejects[i].count = Due(mem.rejects[i].name)
    BY <1>1, <1>2, <1>3, <1>4 DEF Exact
<1>6. Len(mem.rejects) < RejectCap =>
        \A n \in Names["reject"] : Due(n) > 0 =>
            \E i \in DOMAIN mem.rejects : mem.rejects[i].name = n
    BY <1>1, <1>2, <1>3 DEF Exact, Reasons
<1>7. \A s : SeenSelector(s) = Seen(inHand[SelQueue] \o queue[SelQueue], unsupported,
                                   open.selectors, s)
  <2>1. \A s : {i \in DOMAIN Waiting("unsupported") : Waiting("unsupported")[i] = s}
                 = Matching(inHand[SelQueue] \o queue[SelQueue], {s})
      BY DEF Waiting, Matching, SelQueue
  <2>2. QED
      BY <2>1 DEF SeenSelector, Seen
<1>8. \A i \in DOMAIN mem.selectors :
        mem.selectors[i].count <= SeenSelector(mem.selectors[i].name)
    BY <1>1, <1>2, <1>7 DEF Listed
<1>9. QED
    BY <1>5, <1>6, <1>8

\* The books of the dashboard agree through every interleaving of recording,
\* flush, prune, failed write, crash and restart: the columns of a rollup,
\* what is shown with what is stored and buffered, and the reject and selector
\* lists with the counts behind them.
THEOREM BooksAreRight == Spec => []BooksAgree
<1>1. Init => CountInv /\ MemInv /\ RejectInv /\ SelectorInv
    BY CountInit, MemInit, RejectInit, SelectorInit
<1>2. CountInv /\ MemInv /\ RejectInv /\ SelectorInv /\ [Next]_vars
        => CountInv' /\ MemInv' /\ RejectInv' /\ SelectorInv'
    BY CountStep, MemStep, RejectNext, SelectorNext
<1>3. CountInv /\ MemInv => MemoryAgreesWithStorage
    BY AgreementShown
<1>4. RejectInv /\ SelectorInv => ListsAreExact
    BY ListsShown
<1>5. Spec => []RollupsConsistent
    BY RollupColumnsAgree
<1>6. RollupsConsistent /\ MemoryAgreesWithStorage /\ ListsAreExact => BooksAgree
    BY DEF BooksAgree
<1>7. QED
    BY <1>1, <1>2, <1>3, <1>4, <1>5, <1>6, PTL DEF Spec
=============================================================================
