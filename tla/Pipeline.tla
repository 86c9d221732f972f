----------------------------- MODULE Pipeline -----------------------------
(* The candidate pipeline of mev/runtime.rs `run`.                          *)
(*                                                                          *)
(*   mempool feeds -> inbox -> main loop -> lookupQ -> lookup workers       *)
(*     -> evalQ -> eval workers -> readyQ -> main loop -> microbatch        *)
(*     -> ExecutionEngine::handle                                           *)
(*                                                                          *)
(* The main loop is at both ends: it feeds lookupQ and it is the only       *)
(* consumer of readyQ, and it awaits the executor inline.  Every channel    *)
(* but the inbox is a bounded tokio mpsc channel whose send blocks when the *)
(* channel is full.                                                         *)
EXTENDS Naturals, Sequences, FiniteSets

CONSTANTS
    Txs,                  \* pending transactions that the feeds may announce
    NoTx,                 \* "nothing in hand"
    Score,                \* ranking_score of the candidate built for a tx
    PreDecodeRejects,     \* txs for which pre_decode_tx_gate gives a reason
    LookupWorkers,        \* lookup/decode tasks
    EvalWorkers,          \* evaluation tasks
    LookupQueueCapacity,  \* LOOKUP_DECODE_QUEUE_CAPACITY (8192)
    EvalQueueCapacity,    \* EVAL_QUEUE_CAPACITY (512), evalQ and readyQ
    MaxBatch,             \* MICROBATCH_MAX_CANDIDATES (4)
    SeenCapacity,         \* bound of seen_order (8192)
    LookupBudgets,        \* values of effective_pending_lookup_budget
    Setups,               \* start-up configurations, see SetupType
    MaxDeliveries,        \* bound: mempool items delivered in a behaviour
    MaxToggles            \* bound: pause/resume requests in a behaviour

\* full: MEV_FULL_PENDING_TX_ENABLED; maxGasPriceGwei: MEV_MAX_GAS_PRICE_GWEI,
\* 0 when it is not set; switches: the operator changes the opportunity mode
\* while the engine runs.
SetupType == [full : BOOLEAN, maxGasPriceGwei : Nat, switches : BOOLEAN]

ASSUME PipelineAssumption ==
    /\ NoTx \notin Txs
    /\ Score \in [Txs -> Nat]
    /\ PreDecodeRejects \subseteq Txs
    /\ IsFiniteSet(LookupWorkers) /\ IsFiniteSet(EvalWorkers)
    /\ LookupQueueCapacity \in Nat \ {0}
    /\ EvalQueueCapacity \in Nat \ {0}
    /\ MaxBatch \in Nat \ {0, 1}
    /\ SeenCapacity \in Nat \ {0}
    /\ LookupBudgets \subseteq Nat
    /\ Setups \subseteq SetupType
    /\ MaxDeliveries \in Nat
    /\ MaxToggles \in Nat

VARIABLES
    setup,       \* the configuration of this process
    inbox,       \* unbounded fan-in channel of PendingMempoolItem
    delivered,   \* how many items the feeds have delivered
    paused,      \* DashboardHandle.runtime_paused
    toggles,     \* how many pause requests were served
    seenHashes,  \* HashSet of mark_seen_tx
    seenOrder,   \* VecDeque of mark_seen_tx
    evicted,     \* history: hashes that have left the dedup window
    accepted,    \* PendingLookupBackpressure.accepted_in_window
    budget,      \* lookup budget from the cached fleet pressure
    lookupQ,     \* channel of PendingHashTask
    lookup,      \* state of each lookup/decode worker
    evalQ,       \* channel of LookupDecodedCandidate
    eval,        \* state of each evaluation worker
    readyQ,      \* channel of PendingExecutionCandidate
    batch,       \* MicroBatcher.candidates
    opened,      \* MicroBatcher.opened_at is Some
    main,        \* the main loop's program counter and the tx in its hand
    handled      \* history: candidates given to ExecutionEngine::handle

ingestVars == <<setup, inbox, delivered, paused, toggles>>
seenVars   == <<seenHashes, seenOrder, evicted>>
admitVars  == <<accepted, budget>>
lookupVars == <<lookupQ, lookup>>
evalVars   == <<evalQ, eval>>
batchVars  == <<batch, opened, handled>>
vars == <<ingestVars, seenVars, admitVars, lookupVars, evalVars, readyQ,
          batchVars, main>>

-----------------------------------------------------------------------------
Items     == [tx : Txs, full : BOOLEAN]
WorkerPcs == {"idle", "busy", "sending", "stopped", "panicked"}
MainPcs   == {"select", "sending", "executing", "failed"}

InSeq(s) == {s[i] : i \in 1..Len(s)}

Idle       == [pc |-> "idle", tx |-> NoTx]
Gone(pc)   == [pc |-> pc, tx |-> NoTx]
AtSelect   == main.pc = "select"
RunFailed  == main.pc = "failed"
Dead(s)    == s.pc \in {"stopped", "panicked"}

TypeOK ==
    /\ setup \in Setups
    /\ inbox \in Seq(Items)
    /\ delivered \in 0..MaxDeliveries
    /\ paused \in BOOLEAN
    /\ toggles \in 0..MaxToggles
    /\ seenHashes \subseteq Txs
    /\ seenOrder \in Seq(Txs)
    /\ evicted \subseteq Txs
    /\ accepted \in Nat
    /\ budget \in Nat
    /\ lookupQ \in Seq(Txs)
    /\ lookup \in [LookupWorkers -> [pc : WorkerPcs, tx : Txs \cup {NoTx}]]
    /\ evalQ \in Seq(Txs)
    /\ eval \in [EvalWorkers -> [pc : WorkerPcs, tx : Txs \cup {NoTx}]]
    /\ readyQ \in Seq(Txs)
    /\ batch \in Seq(Txs)
    /\ opened \in BOOLEAN
    /\ main \in [pc : MainPcs, tx : Txs \cup {NoTx}]
    /\ handled \in Seq(Txs)

Init ==
    /\ setup \in Setups
    /\ inbox = <<>> /\ delivered = 0
    /\ paused = FALSE /\ toggles = 0
    /\ seenHashes = {} /\ seenOrder = <<>> /\ evicted = {}
    /\ accepted = 0 /\ budget = 0
    /\ lookupQ = <<>> /\ lookup = [w \in LookupWorkers |-> Idle]
    /\ evalQ = <<>> /\ eval = [w \in EvalWorkers |-> Idle]
    /\ readyQ = <<>>
    /\ batch = <<>> /\ opened = FALSE
    /\ main = [pc |-> "select", tx |-> NoTx]
    /\ handled = <<>>

-----------------------------------------------------------------------------
(* Feeds and operator.                                                      *)

\* A feed task forwards a stream item unless the runtime is paused (the item
\* is then lost and the stream is left); the task ends when the receiver is
\* gone.
MempoolDeliver ==
    /\ delivered < MaxDeliveries
    /\ ~paused
    /\ ~RunFailed
    /\ \E item \in Items :
          /\ item.full => setup.full
          /\ inbox' = Append(inbox, item)
    /\ delivered' = delivered + 1
    /\ UNCHANGED <<setup, paused, toggles, seenVars, admitVars, lookupVars,
                   evalVars, readyQ, batchVars, main>>

\* POST /api/runtime/pause
SetRuntimePaused ==
    /\ toggles < MaxToggles
    /\ paused' = ~paused
    /\ toggles' = toggles + 1
    /\ UNCHANGED <<setup, inbox, delivered, seenVars, admitVars, lookupVars,
                   evalVars, readyQ, batchVars, main>>

-----------------------------------------------------------------------------
(* Main loop: the mempool branch of the select.                             *)

\* Mutation: the evicted hash stays in the set.
MarkSeenKeepsSet(tx) ==
    LET order == Append(seenOrder, tx)
        over  == Len(order) > SeenCapacity
    IN  /\ seenOrder' = IF over THEN Tail(order) ELSE order
        /\ seenHashes' = seenHashes \cup {tx}
        /\ evicted' = evicted \cup (IF over THEN {Head(order)} ELSE {})

\* mark_seen_tx: insert, then evict in insertion order above the capacity.
MarkSeen(tx) ==
    LET order == Append(seenOrder, tx)
        over  == Len(order) > SeenCapacity
    IN  /\ seenOrder' = IF over THEN Tail(order) ELSE order
        /\ seenHashes' = (seenHashes \cup {tx})
                            \ (IF over THEN {Head(order)} ELSE {})
        /\ evicted' = evicted \cup (IF over THEN {Head(order)} ELSE {})

QueueRemaining == LookupQueueCapacity - Len(lookupQ)

\* Mutations: `<` for `<=`, and no soft reserve at all.
QueueSoftFullStrict == QueueRemaining < LookupQueueCapacity \div 16
QueueSoftFullNever  == FALSE

QueueSoftFull  == QueueRemaining <= LookupQueueCapacity \div 16

\* should_enqueue: a new one-second window resets the count, a stale cached
\* pressure is refreshed, and the hash is admitted while the count is below
\* the budget and the queue keeps its soft reserve.
ShouldEnqueue(windowElapsed, pressureStale, allowed) ==
    LET count == IF windowElapsed THEN 0 ELSE accepted
    IN  \E b \in IF pressureStale THEN LookupBudgets ELSE {budget} :
          /\ budget' = b
          /\ allowed = (count < b /\ ~QueueSoftFull)
          /\ accepted' = IF allowed THEN count + 1 ELSE count

\* Items read while paused are discarded and not remembered.
MainDiscardPaused ==
    /\ AtSelect /\ inbox # <<>> /\ paused
    /\ inbox' = Tail(inbox)
    /\ UNCHANGED <<setup, delivered, paused, toggles, seenVars, admitVars,
                   lookupVars, evalVars, readyQ, batchVars, main>>

MainDuplicate ==
    /\ AtSelect /\ inbox # <<>> /\ ~paused
    /\ Head(inbox).tx \in seenHashes
    /\ inbox' = Tail(inbox)
    /\ UNCHANGED <<setup, delivered, paused, toggles, seenVars, admitVars,
                   lookupVars, evalVars, readyQ, batchVars, main>>

\* A new hash: marked as seen first, then shed or taken for the lookup queue.
MainScanHash ==
    /\ AtSelect /\ inbox # <<>> /\ ~paused
    /\ ~Head(inbox).full
    /\ Head(inbox).tx \notin seenHashes
    /\ inbox' = Tail(inbox)
    /\ MarkSeen(Head(inbox).tx)
    /\ \E windowElapsed, pressureStale, allowed \in BOOLEAN :
          /\ ShouldEnqueue(windowElapsed, pressureStale, allowed)
          /\ main' = IF allowed
                     THEN [pc |-> "sending", tx |-> Head(inbox).tx]
                     ELSE main
    /\ UNCHANGED <<setup, delivered, paused, toggles, lookupVars, evalVars,
                   readyQ, batchVars>>

\* A new full transaction: marked, gated, and never subject to backpressure.
MainScanFull ==
    /\ AtSelect /\ inbox # <<>> /\ ~paused
    /\ Head(inbox).full
    /\ Head(inbox).tx \notin seenHashes
    /\ inbox' = Tail(inbox)
    /\ MarkSeen(Head(inbox).tx)
    /\ main' = IF Head(inbox).tx \in PreDecodeRejects
               THEN main
               ELSE [pc |-> "sending", tx |-> Head(inbox).tx]
    /\ UNCHANGED <<setup, delivered, paused, toggles, admitVars, lookupVars,
                   evalVars, readyQ, batchVars>>

\* lookup_decode_tx.send(..).await: the whole loop waits for room.  The send
\* cannot fail, `run` itself keeps the receiver alive.
MainSend ==
    /\ main.pc = "sending"
    /\ Len(lookupQ) < LookupQueueCapacity
    /\ lookupQ' = Append(lookupQ, main.tx)
    /\ main' = [pc |-> "select", tx |-> NoTx]
    /\ UNCHANGED <<ingestVars, seenVars, admitVars, lookup, evalVars, readyQ,
                   batchVars>>

-----------------------------------------------------------------------------
(* Main loop: the ready and flush_tick branches.                            *)

\* swap_remove: the last element takes the place of the removed one.
SwapRemove(s, i) ==
    [j \in 1..(Len(s) - 1) |-> IF j = i THEN s[Len(s)] ELSE s[j]]

\* Mutation: first in, first out.
IsOldest(s, i) == i = 1

\* max_by keeps the last of equal maxima.
IsBest(s, i) ==
    /\ \A j \in 1..Len(s) : Score[s[j]] <= Score[s[i]]
    /\ \A j \in (i + 1)..Len(s) : Score[s[j]] < Score[s[i]]

\* Mutation: the window is closed although candidates are left.
FlushClosesWindow(s) ==
    \E i \in 1..Len(s) :
        /\ IsBest(s, i)
        /\ batch' = SwapRemove(s, i)
        /\ opened' = FALSE
        /\ handled' = Append(handled, s[i])
        /\ main' = [pc |-> "executing", tx |-> s[i]]

\* flush_candidate_batch: take the best candidate out and await the executor.
FlushCandidateBatch(s) ==
    \E i \in 1..Len(s) :
        /\ IsBest(s, i)
        /\ batch' = SwapRemove(s, i)
        /\ opened' = (Len(s) > 1)
        /\ handled' = Append(handled, s[i])
        /\ main' = [pc |-> "executing", tx |-> s[i]]

\* should_flush: the batch is full or its 45 ms window is over.
MainReady ==
    /\ AtSelect /\ readyQ # <<>>
    /\ readyQ' = Tail(readyQ)
    /\ LET pushed == Append(batch, Head(readyQ)) IN
         \E windowElapsed \in {FALSE, opened} :
           IF Len(pushed) >= MaxBatch \/ windowElapsed
           THEN FlushCandidateBatch(pushed)
           ELSE /\ batch' = pushed
                /\ opened' = TRUE
                /\ UNCHANGED <<handled, main>>
    /\ UNCHANGED <<ingestVars, seenVars, admitVars, lookupVars, evalVars>>

\* A tick before the window is over does nothing, so only the flushing tick
\* is an action.
MainFlushTick ==
    /\ AtSelect
    /\ opened
    /\ FlushCandidateBatch(batch)
    /\ UNCHANGED <<ingestVars, seenVars, admitVars, lookupVars, evalVars,
                   readyQ>>

\* ExecutionEngine::handle returns Ok: the loop goes on.
ExecutorOk ==
    /\ main.pc = "executing"
    /\ main' = [pc |-> "select", tx |-> NoTx]
    /\ UNCHANGED <<ingestVars, seenVars, admitVars, lookupVars, evalVars,
                   readyQ, batchVars>>

\* handle returns Err: `?` leaves run(), main.rs logs it and parks for ever.
ExecutorErr ==
    /\ main.pc = "executing"
    /\ main' = [pc |-> "failed", tx |-> NoTx]
    /\ UNCHANGED <<ingestVars, seenVars, admitVars, lookupVars, evalVars,
                   readyQ, batchVars>>

-----------------------------------------------------------------------------
(* Lookup/decode workers.                                                   *)

LookupRecv(w) ==
    /\ lookup[w].pc = "idle" /\ lookupQ # <<>>
    /\ lookupQ' = Tail(lookupQ)
    /\ lookup' = IF paused THEN lookup
                 ELSE [lookup EXCEPT ![w] = [pc |-> "busy", tx |-> Head(lookupQ)]]
    /\ UNCHANGED <<ingestVars, seenVars, admitVars, evalVars, readyQ,
                   batchVars, main>>

\* process_lookup_decode_task gives None: lookup miss, gate, decode or block
\* failure.
LookupReject(w) ==
    /\ lookup[w].pc = "busy"
    /\ lookup' = [lookup EXCEPT ![w] = Idle]
    /\ UNCHANGED <<ingestVars, seenVars, admitVars, lookupQ, evalVars, readyQ,
                   batchVars, main>>

LookupAccept(w) ==
    /\ lookup[w].pc = "busy"
    /\ lookup[w].tx \notin PreDecodeRejects
    /\ lookup' = [lookup EXCEPT ![w].pc = "sending"]
    /\ UNCHANGED <<ingestVars, seenVars, admitVars, lookupQ, evalVars, readyQ,
                   batchVars, main>>

\* The evaluation channel is open while run() holds its receiver or an
\* evaluation worker lives.
EvalReceiverAlive == ~RunFailed \/ \E w \in EvalWorkers : ~Dead(eval[w])

LookupSend(w) ==
    /\ lookup[w].pc = "sending"
    /\ EvalReceiverAlive
    /\ Len(evalQ) < EvalQueueCapacity
    /\ evalQ' = Append(evalQ, lookup[w].tx)
    /\ lookup' = [lookup EXCEPT ![w] = Idle]
    /\ UNCHANGED <<ingestVars, seenVars, admitVars, lookupQ, eval, readyQ,
                   batchVars, main>>

\* recv gives None (sender dropped, queue drained) or send fails.
LookupStop(w) ==
    /\ RunFailed
    /\ \/ lookup[w].pc = "idle" /\ lookupQ = <<>>
       \/ lookup[w].pc = "sending" /\ ~EvalReceiverAlive
    /\ lookup' = [lookup EXCEPT ![w] = Gone("stopped")]
    /\ UNCHANGED <<ingestVars, seenVars, admitVars, lookupQ, evalVars, readyQ,
                   batchVars, main>>

-----------------------------------------------------------------------------
(* Evaluation workers.                                                      *)

\* Mutation: the worker does not ask whether the runtime is paused.
EvalRecvUnpaused(w) ==
    /\ eval[w].pc = "idle" /\ evalQ # <<>>
    /\ evalQ' = Tail(evalQ)
    /\ eval' = [eval EXCEPT ![w] = [pc |-> "busy", tx |-> Head(evalQ)]]
    /\ UNCHANGED <<ingestVars, seenVars, admitVars, lookupVars, readyQ,
                   batchVars, main>>

EvalRecv(w) ==
    /\ eval[w].pc = "idle" /\ evalQ # <<>>
    /\ evalQ' = Tail(evalQ)
    /\ eval' = IF paused THEN eval
               ELSE [eval EXCEPT ![w] = [pc |-> "busy", tx |-> Head(evalQ)]]
    /\ UNCHANGED <<ingestVars, seenVars, admitVars, lookupVars, readyQ,
                   batchVars, main>>

\* adaptive_gas_cap_gwei ends in f64::clamp(120, hard cap), which panics when
\* the hard cap is below 120 gwei; every candidate reaches it when the cap is
\* configured.
GasCapClampPanics == setup.maxGasPriceGwei \in 1..119

\* A switch to scavenger mode after a candidate's payload-to-quote check and
\* before its quote leaves the quote without a diagnostic to expect (module
\* Evaluation shows the interleaving).
EvalMayPanic == GasCapClampPanics \/ setup.switches

EvalPanic(w) ==
    /\ eval[w].pc = "busy"
    /\ EvalMayPanic
    /\ eval' = [eval EXCEPT ![w] = Gone("panicked")]
    /\ UNCHANGED <<ingestVars, seenVars, admitVars, lookupVars, evalQ, readyQ,
                   batchVars, main>>

\* process_evaluation_task gives None at one of its gates.
EvalReject(w) ==
    /\ eval[w].pc = "busy"
    /\ ~GasCapClampPanics
    /\ eval' = [eval EXCEPT ![w] = Idle]
    /\ UNCHANGED <<ingestVars, seenVars, admitVars, lookupVars, evalQ, readyQ,
                   batchVars, main>>

EvalAccept(w) ==
    /\ eval[w].pc = "busy"
    /\ ~GasCapClampPanics
    /\ eval' = [eval EXCEPT ![w].pc = "sending"]
    /\ UNCHANGED <<ingestVars, seenVars, admitVars, lookupVars, evalQ, readyQ,
                   batchVars, main>>

\* Mutation: the worker does not notice that its send went through.
EvalSendAgain(w) ==
    /\ eval[w].pc = "sending"
    /\ ~RunFailed
    /\ Len(readyQ) < EvalQueueCapacity
    /\ readyQ' = Append(readyQ, eval[w].tx)
    /\ UNCHANGED <<ingestVars, seenVars, admitVars, lookupVars, evalVars,
                   batchVars, main>>

EvalSend(w) ==
    /\ eval[w].pc = "sending"
    /\ ~RunFailed
    /\ Len(readyQ) < EvalQueueCapacity
    /\ readyQ' = Append(readyQ, eval[w].tx)
    /\ eval' = [eval EXCEPT ![w] = Idle]
    /\ UNCHANGED <<ingestVars, seenVars, admitVars, lookupVars, evalQ,
                   batchVars, main>>

\* Mutation: a failed send does not end the worker.
EvalStopDrained(w) ==
    /\ eval[w].pc = "idle" /\ evalQ = <<>>
    /\ \A v \in LookupWorkers : Dead(lookup[v])
    /\ eval' = [eval EXCEPT ![w] = Gone("stopped")]
    /\ UNCHANGED <<ingestVars, seenVars, admitVars, lookupVars, evalQ, readyQ,
                   batchVars, main>>

\* The senders of evalQ are the lookup workers; the receiver of readyQ is run.
EvalStop(w) ==
    /\ \/ /\ eval[w].pc = "idle" /\ evalQ = <<>>
          /\ \A v \in LookupWorkers : Dead(lookup[v])
       \/ eval[w].pc = "sending" /\ RunFailed
    /\ eval' = [eval EXCEPT ![w] = Gone("stopped")]
    /\ UNCHANGED <<ingestVars, seenVars, admitVars, lookupVars, evalQ, readyQ,
                   batchVars, main>>

-----------------------------------------------------------------------------
MainStep == \/ MainDiscardPaused \/ MainDuplicate \/ MainScanHash
            \/ MainScanFull \/ MainSend \/ MainReady \/ MainFlushTick

ExecutorReturns == ExecutorOk \/ ExecutorErr

LookupStep(w) == \/ LookupRecv(w) \/ LookupReject(w) \/ LookupAccept(w)
                 \/ LookupSend(w) \/ LookupStop(w)

EvalStep(w) == \/ EvalRecv(w) \/ EvalPanic(w) \/ EvalReject(w)
               \/ EvalAccept(w) \/ EvalSend(w) \/ EvalStop(w)

Next == \/ MempoolDeliver \/ SetRuntimePaused
        \/ MainStep \/ ExecutorReturns
        \/ \E w \in LookupWorkers : LookupStep(w)
        \/ \E w \in EvalWorkers : EvalStep(w)

\* tokio keeps polling every task that can run, RPC calls and the executor's
\* receipt polling return; nothing forces the feeds or the operator to act.
Fairness == /\ WF_vars(MainStep)
            /\ WF_vars(ExecutorReturns)
            /\ \A w \in LookupWorkers : WF_vars(LookupStep(w))
            /\ \A w \in EvalWorkers : WF_vars(EvalStep(w))

Spec == Init /\ [][Next]_vars /\ Fairness

-----------------------------------------------------------------------------
(* Properties.                                                              *)

\* The two halves of the dedup window (runtime.rs mark_seen_tx) never drift
\* apart: the queue holds each remembered hash once, the set holds exactly
\* those, and the window keeps its bound.
SeenWindowCoherent ==
    /\ seenHashes = InSeq(seenOrder)
    /\ Len(seenOrder) <= SeenCapacity
    /\ \A i, j \in 1..Len(seenOrder) : seenOrder[i] = seenOrder[j] => i = j

HeldBy(f, S, tx) == Cardinality({w \in S : f[w].tx = tx})
Occurrences(s, tx) == Cardinality({i \in 1..Len(s) : s[i] = tx})

\* Copies of a transaction between the main loop's hand and the executor.
InFlight(tx) ==
    (IF main.pc = "sending" /\ main.tx = tx THEN 1 ELSE 0)
      + Occurrences(lookupQ, tx) + HeldBy(lookup, LookupWorkers, tx)
      + Occurrences(evalQ, tx) + HeldBy(eval, EvalWorkers, tx)
      + Occurrences(readyQ, tx) + Occurrences(batch, tx)

\* A victim is worked on or executed twice only if it has fallen out of the
\* dedup window: no stage of the pipeline duplicates a candidate.
DuplicateOnlyAfterEviction ==
    \A tx \in Txs \ evicted :
        /\ InFlight(tx) + Occurrences(handled, tx) <= 1
        /\ InFlight(tx) + Occurrences(handled, tx) = 1 => tx \in seenHashes

\* Between two iterations of the loop the microbatch is below its size limit,
\* and its window is open exactly while it holds candidates: a batch with a
\* closed window would never be flushed by the tick.
BatchDiscipline ==
    /\ Len(batch) < MaxBatch
    /\ opened = (batch # <<>>)

\* The candidate handed to the executor outranks every one left behind.
BestCandidateFirst ==
    [][ handled' # handled =>
          \A i \in 1..Len(batch') :
              Score[batch'[i]] <= Score[handled'[Len(handled')]] ]_vars

\* Candidates that a pause no longer stops: it is not asked for again once
\* evaluation has begun.
Committed ==
    {eval[w].tx : w \in EvalWorkers} \cup InSeq(readyQ) \cup InSeq(batch)

\* A pause is not immediate: the executor still works off what evaluation had
\* in hand.  But nothing joins that set while the runtime is paused, however
\* much waits in the inbox, the two queues and the lookup workers' hands.
PauseCommitsNothing == [][paused => Committed' \subseteq Committed \cup {NoTx}]_vars

\* With hash subscriptions only, the soft reserve of should_enqueue makes the
\* awaited send on the lookup queue immediate: the loop never blocks there.
HashAdmissionNeverBlocks ==
    main.pc = "sending" /\ ~setup.full
        => Len(lookupQ) < LookupQueueCapacity

\* Everyone waits on everyone: the loop for the lookup workers, they for the
\* evaluation workers, they for the ready queue, which only the loop drains.
CircularWait ==
    /\ main.pc = "sending" /\ Len(lookupQ) = LookupQueueCapacity
    /\ \A w \in LookupWorkers : lookup[w].pc = "sending"
    /\ Len(evalQ) = EvalQueueCapacity
    /\ \A w \in EvalWorkers : eval[w].pc = "sending"
    /\ Len(readyQ) = EvalQueueCapacity

\* The pipeline never collapses under its own backpressure.
NoBackpressureCollapse == ~CircularWait

\* A candidate in the pipeline is eventually rejected or handed to the
\* executor, unless run() has failed or evaluation may panic.
CandidatesResolve ==
    \A tx \in Txs : InFlight(tx) > 0 ~> \/ InFlight(tx) = 0
                                        \/ RunFailed \/ EvalMayPanic

\* The loop keeps reading the feeds: whatever happens downstream, even when
\* every evaluation worker has panicked, announced transactions do not pile up
\* unread, unless run() has failed.
InboxDrains == inbox # <<>> ~> (inbox = <<>> \/ RunFailed)

\* When run() returns, its worker tasks do not leak: all of them stop.
FailedRunStopsWorkers ==
    RunFailed ~> /\ \A w \in LookupWorkers : Dead(lookup[w])
                 /\ \A w \in EvalWorkers : Dead(eval[w])

\* Evaluating a candidate never takes an evaluation worker down.
EvalWorkersSurvive == \A w \in EvalWorkers : eval[w].pc # "panicked"
=============================================================================
