----------------------------- MODULE Evaluation -----------------------------
(* What the workers of mev/runtime.rs do with one candidate:                *)
(* process_lookup_decode_task, process_evaluation_task and the replay       *)
(* worker.  Module Pipeline treats both tasks as one step that accepts or   *)
(* rejects; here every gate is a step, because the opportunity mode is a    *)
(* lock shared with the dashboard and every gate reads it again.            *)
(*                                                                          *)
(* A gate (one function of module Gates) reads the mode once.               *)
EXTENDS Gates

CONSTANTS
    Tasks,            \* candidates, each with a lookup and an evaluation task
    None,             \* an Option that is None
    Configs,          \* configurations, see module Gates
    Txs,              \* transactions that the lookup of a task may return
    Signals,          \* swaps that the decoder may find in one
    Payloads,         \* payloads that the builder may give
    Preflights,       \* answers of AdaptivePolicy::preflight_score
    Quotes,           \* answers of AdaptivePolicy::quote_for_relays
    SmallBudget,      \* SMALL_SCAVENGER_BUDGET_PER_SEC (8)
    ReplayCapacity,   \* MEV_REPLAY_QUEUE_CAPACITY
    ReplayMinRepeat,  \* MEV_REPLAY_MIN_REPEAT_COUNT
    MaxSwitches,      \* bound: changes of the mode in a behaviour
    MaxWindows        \* bound: one-second windows of the small-swap budget

\* Some(diagnostic) is not None.
ASSUME EvaluationAssumption ==
    /\ IsFiniteSet(Tasks) /\ None \notin Tasks
    /\ \A c \in Configs, t \in Tasks : \A p \in Payloads[t], x \in Txs[t] :
          EconomicEdge(c, p, x.gasPrice) # None

VARIABLES
    cfg,        \* the configuration of this process
    mode,       \* MevConfig.opportunity_mode, written by the dashboard
    switches,   \* how often the mode was changed
    task,       \* where each candidate is and what its task has in hand
    funnel,     \* DashboardHandle's opportunity funnel
    small,      \* SMALL_SCAVENGER_BUDGET
    windows,    \* how many windows have been opened
    repeats,    \* REPLAY_REPEAT_COUNTS, by pool
    replayQ,    \* the replay channel
    replaying,  \* the candidate in the replay worker's hand
    persisted,  \* replay candidates with a row in storage
    unstored    \* replay candidates whose INSERTs failed (history: the errors are dropped)

controlVars == <<cfg, mode, switches>>
smallVars   == <<small, windows>>
replayVars  == <<repeats, replayQ, replaying, persisted, unstored>>
vars == <<controlVars, task, funnel, smallVars, replayVars>>

Stages == {
    "partial_entered_payload_builder", "partial_pool_discovery_attempted",
    "partial_pool_found", "partial_pool_missing", "partial_shadow_ev_positive",
    "partial_shadow_ev_negative", "partial_replay_candidate_created",
    "partial_replay_candidate_rejected",
    "tx_lookup_skipped_full_pending", "tx_lookup_miss", "tx_lookup_success",
    "decode_reject", "decode_pass", "partial_signal", "small_scavenger_throttled",
    "block_lookup_fail", "block_lookup_success",
    "fast_preflight_reject", "fast_preflight_pass",
    "adaptive_preflight_reject", "adaptive_preflight_pass",
    "payload_reject", "payload_built", "shadow_payload_built",
    "ev_validation_failed", "ev_validation_pass",
    "payload_to_quote_reject", "payload_to_quote_pass", "replay_candidate",
    "shadow_research_reject", "ev_gate_reject", "ev_gate_pass",
    "quote_attempt", "adaptive_quote_candidate", "quote_failure", "quote_success",
    "adaptive_quote_reject", "adaptive_quote_pass",
    "execution_ready_candidate", "execution_ready_reject", "execution_ready"}

Pcs == {"idle", "decode", "lane", "block", "fast", "adaptive", "preOverride",
        "build", "economic", "evm", "branch", "ev", "quality", "quote",
        "override", "ready", "rejected", "panicked"}
Done == {"ready", "rejected", "panicked"}
Pools == UNION {{p.pool : p \in Payloads[t]} : t \in Tasks}
Fresh == [pc |-> "idle", tx |-> None, signal |-> None, minLarge |-> 0,
          minProfit |-> 0, score |-> None, payload |-> None, economic |-> None,
          counted |-> {}, modes |-> {}]

\* What the task of a candidate can have in hand.
LargeSwaps == {EffectiveMinLargeSwap(c, m) : c \in Configs, m \in Modes}
NetProfits == {EffectiveMinNetProfit(c, m) : c \in Configs, m \in Modes}
Diagnostics(t) == {EconomicEdge(c, p, x.gasPrice) :
                      c \in Configs, p \in Payloads[t], x \in Txs[t]}

TaskRecord(t) ==
    [pc : Pcs, tx : Txs[t] \cup {None}, signal : Signals[t] \cup {None},
     minLarge : LargeSwaps \cup {0}, minProfit : NetProfits \cup {0},
     score : Preflights[t] \cup Quotes[t] \cup {None},
     payload : Payloads[t] \cup {None}, economic : Diagnostics(t) \cup {None},
     counted : SUBSET Stages, modes : SUBSET Modes]

TypeOK ==
    /\ cfg \in Configs /\ mode \in Modes /\ switches \in Nat
    /\ task = [t \in Tasks |-> task[t]]
    /\ \A t \in Tasks : task[t] \in TaskRecord(t)
    /\ funnel \in [Stages -> Nat]
    /\ small \in Nat /\ windows \in Nat
    /\ repeats \in [Pools -> Nat]
    /\ replayQ \in Seq(Tasks) /\ replaying \in Tasks \cup {None}
    /\ persisted \subseteq Tasks /\ unstored \subseteq Tasks

Init ==
    /\ cfg \in Configs /\ mode \in Modes /\ switches = 0
    /\ task = [t \in Tasks |-> Fresh]
    /\ funnel = [s \in Stages |-> 0]
    /\ small = 0 /\ windows = 0
    /\ repeats = [p \in Pools |-> 0]
    /\ replayQ = <<>> /\ replaying = None /\ persisted = {} /\ unstored = {}

-----------------------------------------------------------------------------
\* DashboardHandle::record_opportunity_funnel, for every stage that the step
\* counts; counted and modes are history.
Count(stages) == [s \in Stages |-> funnel[s] + (IF s \in stages THEN 1 ELSE 0)]

\* Task t does its step: it counts the stages and its record becomes after.
Move(t, stages, after) ==
    /\ funnel' = Count(stages)
    /\ task' = [task EXCEPT ![t] = [after EXCEPT !.counted = @ \cup stages,
                                                !.modes = @ \cup {mode}]]
    /\ UNCHANGED controlVars

\* The task returns None; of the candidate only the history is left.
Reject(t, stages) ==
    Move(t, stages, [Fresh EXCEPT !.pc = "rejected", !.counted = task[t].counted])

-----------------------------------------------------------------------------
(* process_lookup_decode_task                                               *)

\* lookup_pending_tx_parallel, unless the feed delivered the transaction.
LookupMiss(t) ==
    /\ task[t].pc = "idle"
    /\ Reject(t, {"tx_lookup_miss"})
    /\ UNCHANGED <<smallVars, replayVars>>

LookupFound(t) ==
    /\ task[t].pc = "idle"
    /\ \E tx \in Txs[t] :
         Move(t, IF tx.full THEN {"tx_lookup_skipped_full_pending"}
                            ELSE {"tx_lookup_success"},
              [task[t] EXCEPT !.pc = "decode", !.tx = tx])
    /\ UNCHANGED <<smallVars, replayVars>>

\* SwapSignal::is_partial_decode; some stages exist for partial decodes only.
IfPartial(signal, stages) == IF signal.confidence < 99 THEN stages ELSE {}

\* decode_relevant_swap, after the decoder: outside scavenger mode a swap has
\* to be large.
Relevant(signal, minLarge) ==
    /\ signal.pathLen >= 2
    /\ mode = "scavenger" \/ 100 * signal.notional >= minLarge

\* Decoding ends the task three ways: at the pre-decode gate, without a
\* relevant swap, and below the confidence for partial decodes; the last is
\* counted as passed and as rejected.
DecodeReject(t) ==
    /\ task[t].pc = "decode"
    /\ \/ /\ PreDecodeGate(cfg, task[t].tx) # "pass"
          /\ Reject(t, {"decode_reject"})
       \/ /\ PreDecodeGate(cfg, task[t].tx) = "pass"
          /\ \E s \in Signals[t] : ~Relevant(s, EffectiveMinLargeSwap(cfg, mode))
          /\ Reject(t, {"decode_reject"})
       \/ /\ PreDecodeGate(cfg, task[t].tx) = "pass"
          /\ \E s \in Signals[t] :
               /\ Relevant(s, EffectiveMinLargeSwap(cfg, mode)) /\ s.confidence < 30
               /\ Reject(t, {"decode_pass", "decode_reject"} \cup IfPartial(s, {"partial_signal"}))
    /\ UNCHANGED <<smallVars, replayVars>>

DecodePass(t) ==
    /\ task[t].pc = "decode"
    /\ PreDecodeGate(cfg, task[t].tx) = "pass"
    /\ LET minLarge == EffectiveMinLargeSwap(cfg, mode) IN
       \E s \in Signals[t] :
         /\ Relevant(s, minLarge) /\ s.confidence >= 30
         /\ Move(t, {"decode_pass"} \cup IfPartial(s, {"partial_signal"}),
                 [task[t] EXCEPT !.pc = "lane", !.signal = s, !.minLarge = minLarge])
    /\ UNCHANGED <<smallVars, replayVars>>

IsSmall(t) == CandidateLane(cfg, task[t].signal, task[t].minLarge) = "small"

\* allow_small_scavenger_candidate
Throttle(t) ==
    /\ task[t].pc = "lane"
    /\ IsSmall(t) /\ mode = "scavenger" /\ small >= SmallBudget
    /\ Reject(t, {"small_scavenger_throttled"})
    /\ UNCHANGED <<smallVars, replayVars>>

Admit(t) ==
    /\ task[t].pc = "lane"
    /\ LET budgeted == IsSmall(t) /\ mode = "scavenger" IN
       /\ budgeted => small < SmallBudget
       /\ small' = IF budgeted THEN small + 1 ELSE small
    /\ Move(t, {}, [task[t] EXCEPT !.pc = "block"])
    /\ UNCHANGED <<windows, replayVars>>

\* The next window opens; the code notices it at the next small candidate.
SmallWindow ==
    /\ windows < MaxWindows /\ small > 0
    /\ small' = 0 /\ windows' = windows + 1
    /\ UNCHANGED <<controlVars, task, funnel, replayVars>>

\* get_current_block_parallel; the candidate then waits for an evaluation
\* worker, which reads the thresholds.
BlockLookup(t) ==
    /\ task[t].pc = "block"
    /\ \/ Reject(t, {"block_lookup_fail"})
       \/ Move(t, {"block_lookup_success"}, [task[t] EXCEPT !.pc = "fast"])
    /\ UNCHANGED <<smallVars, replayVars>>

-----------------------------------------------------------------------------
(* process_evaluation_task                                                  *)

\* The gas cap comes first; past it only research without sending goes on,
\* and then the fast preflight gate decides.
AboveGasCap(t) ==
    /\ cfg.maxGasPriceGwei > 0
    /\ LET s == task[t].signal IN
       1000 * task[t].tx.gasPrice >
           AdaptiveGasCap(s.evUpper, s.notional, cfg.maxGasPriceGwei)

FastGatePasses(t) ==
    /\ AboveGasCap(t) => GasCapResearchBypass(cfg, mode, task[t].signal)
    /\ FastPreflightReason(cfg, mode, task[t].signal, EffectiveMinLargeSwap(cfg, mode)) = "pass"

\* f64::clamp panics for a configured cap below 120 gwei.
CapPanics == cfg.maxGasPriceGwei > 0 /\ GasCapPanics(cfg.maxGasPriceGwei)

FastGate(t) ==
    /\ task[t].pc = "fast"
    /\ \/ CapPanics /\ Move(t, {}, [task[t] EXCEPT !.pc = "panicked"])
       \/ /\ ~CapPanics /\ ~FastGatePasses(t)
          /\ Reject(t, {"fast_preflight_reject"})
       \/ /\ ~CapPanics /\ FastGatePasses(t)
          /\ Move(t, {"fast_preflight_pass"},
                  [task[t] EXCEPT !.pc = "adaptive",
                                     !.minProfit = EffectiveMinNetProfit(cfg, mode)])
    /\ UNCHANGED <<smallVars, replayVars>>

\* Scavenger mode skips the preflight score.
AdaptivePreflight(t) ==
    /\ task[t].pc = "adaptive"
    /\ \/ /\ mode = "scavenger"
          /\ Move(t, {"adaptive_preflight_pass"}, [task[t] EXCEPT !.pc = "build"])
       \/ /\ mode # "scavenger"
          /\ \E p \in Preflights[t] : Move(t, {}, [task[t] EXCEPT !.pc = "preOverride", !.score = p])
    /\ UNCHANGED <<smallVars, replayVars>>

PreflightOverride(t) ==
    /\ task[t].pc = "preOverride"
    /\ IF task[t].score.continue \/ OverridesPreflight(cfg, mode, task[t].score)
       THEN Move(t, {"adaptive_preflight_pass"}, [task[t] EXCEPT !.pc = "build", !.score = None])
       ELSE Reject(t, {"adaptive_preflight_reject"})
    /\ UNCHANGED <<smallVars, replayVars>>

\* A partial decode announces itself to the builder's statistics.
EnterBuilder(t) == IfPartial(task[t].signal,
    {"partial_entered_payload_builder", "partial_pool_discovery_attempted"})

\* record_payload_pool_shadow
PoolShadow(t, positive) == IfPartial(task[t].signal,
    {"partial_pool_found",
     IF positive THEN "partial_shadow_ev_positive" ELSE "partial_shadow_ev_negative"})

\* A failed build has found a pool with or without an edge, has missed it, or
\* its error says nothing of the pool.
PoolReject(t) ==
    {PoolShadow(t, TRUE), PoolShadow(t, FALSE),
     IfPartial(task[t].signal, {"partial_pool_missing"}), {}}

\* build_payload_with_fallback_parallel fails on every endpoint.
BuildReject(t) ==
    /\ task[t].pc = "build"
    /\ \E pool \in PoolReject(t) :
         Reject(t, {"payload_reject"} \cup EnterBuilder(t) \cup pool)
    /\ UNCHANGED <<smallVars, replayVars>>

\* The payload is counted, and validate_payload_ev is asked at once.
Built(t) == EnterBuilder(t) \cup {"payload_built"}
            \cup (IF cfg.allowSend THEN {} ELSE {"shadow_payload_built"})

BuildPass(t) ==
    /\ task[t].pc = "build"
    /\ \E p \in Payloads[t] :
         IF EvValidationReason(cfg, p, task[t].tx.gasPrice) = "ev_validation_pass"
         THEN Move(t, Built(t) \cup {"ev_validation_pass"},
                   [task[t] EXCEPT !.pc = "economic", !.payload = p])
         ELSE Reject(t, Built(t) \cup PoolShadow(t, FALSE)
                        \cup {"ev_validation_failed", "ev_gate_reject"})
    /\ UNCHANGED <<smallVars, replayVars>>

-----------------------------------------------------------------------------
(* The replay queue                                                         *)

\* replay_repeat_count counts only what got this far.
ReplayWorthy(t, economic) ==
    /\ cfg.replay
    /\ economic
    /\ task[t].payload.profit > 0
    /\ task[t].signal.confidence >= 35

\* maybe_enqueue_replay_candidate: a swap seen often enough is sent, and
\* try_send drops it when the channel is full.
Repeated(t, economic) ==
    /\ ReplayWorthy(t, economic)
    /\ repeats[task[t].payload.pool] + 1 >= ReplayMinRepeat

Queued(t, economic) == Repeated(t, economic) /\ Len(replayQ) < ReplayCapacity

ReplayStages(t, economic) ==
    IF Queued(t, economic)
    THEN {"replay_candidate"} \cup
         IfPartial(task[t].signal, {"partial_replay_candidate_created"})
    ELSE IF Repeated(t, economic) THEN {}
    ELSE IfPartial(task[t].signal, {"partial_replay_candidate_rejected"})

MaybeEnqueueReplay(t, economic) ==
    /\ repeats' = IF ReplayWorthy(t, economic)
                  THEN [repeats EXCEPT ![task[t].payload.pool] = @ + 1] ELSE repeats
    /\ replayQ' = IF Queued(t, economic) THEN Append(replayQ, t) ELSE replayQ
    /\ UNCHANGED <<replaying, persisted, unstored>>

\* The replay worker takes a candidate and waits for its tick.
ReplayRecv ==
    /\ replaying = None /\ replayQ # <<>>
    /\ replaying' = Head(replayQ) /\ replayQ' = Tail(replayQ)
    /\ UNCHANGED <<controlVars, task, funnel, smallVars, repeats, persisted, unstored>>

\* Mutation: the worker leaves its loop after the first candidate.
ReplayPersistOnce ==
    /\ replaying # None /\ persisted = {}
    /\ persisted' = persisted \cup {replaying} /\ replaying' = None
    /\ UNCHANGED <<controlVars, task, funnel, smallVars, repeats, replayQ, unstored>>

\* It writes the candidate's row twice, as a candidate and as deferred.  Storage
\* drops the errors of both, so the row is there if one of them came through.
ReplayPersist ==
    /\ replaying # None
    /\ \/ persisted' = persisted \cup {replaying} /\ unstored' = unstored
       \/ unstored' = unstored \cup {replaying} /\ persisted' = persisted
    /\ replaying' = None
    /\ UNCHANGED <<controlVars, task, funnel, smallVars, repeats, replayQ>>

-----------------------------------------------------------------------------
\* Mutation: the diagnostic is made for the wrong mode.
PayloadToQuoteMisread(t) ==
    /\ task[t].pc = "economic"
    /\ LET edge == IF mode = "aggressive"
                   THEN EconomicEdge(cfg, task[t].payload, task[t].tx.gasPrice) ELSE None
           economic == edge # None => edge.pass
           positive == economic /\ task[t].payload.profit > 0 /\ ~task[t].payload.noTicks
       IN  /\ Move(t, {IF economic THEN "payload_to_quote_pass" ELSE "payload_to_quote_reject"}
                      \cup PoolShadow(t, positive) \cup ReplayStages(t, economic),
                   [task[t] EXCEPT !.pc = "evm", !.economic = edge])
           /\ MaybeEnqueueReplay(t, economic)
    /\ UNCHANGED smallVars

\* The payload-to-quote check of scavenger mode.  Its diagnostic is kept for
\* the quote; in the other modes there is none and the payload counts as
\* economic.
PayloadToQuote(t) ==
    /\ task[t].pc = "economic"
    /\ LET edge == IF mode = "scavenger"
                   THEN EconomicEdge(cfg, task[t].payload, task[t].tx.gasPrice) ELSE None
           economic == edge # None => edge.pass
           positive == economic /\ task[t].payload.profit > 0 /\ ~task[t].payload.noTicks
       IN  /\ Move(t, {IF economic THEN "payload_to_quote_pass" ELSE "payload_to_quote_reject"}
                      \cup PoolShadow(t, positive) \cup ReplayStages(t, economic),
                   [task[t] EXCEPT !.pc = "evm", !.economic = edge])
           /\ MaybeEnqueueReplay(t, economic)
    /\ UNCHANGED smallVars

\* validate_with_evm_preflight; the answer of the EVM is a choice.
EvmPreflight(t) ==
    /\ task[t].pc = "evm"
    /\ \/ Move(t, {}, [task[t] EXCEPT !.pc = "branch"])
       \/ cfg.evmPreflight /\ mode # "scavenger" /\ Reject(t, {})
    /\ UNCHANGED <<smallVars, replayVars>>

QuoteFailed == {"quote_attempt", "adaptive_quote_candidate", "quote_failure",
                "adaptive_quote_reject", "execution_ready_candidate",
                "execution_ready_reject"}
QuotePassed == {"quote_success", "adaptive_quote_pass", "execution_ready_candidate",
                "execution_ready"}

\* Scavenger mode, from the branch on: the economic verdict, the sanity gate,
\* the quote.  The quote expects the diagnostic that PayloadToQuote left.
Uneconomic(t) == task[t].economic # None /\ ~task[t].economic.pass
Sane(t) ==
    ScavengerSanityReason(cfg, mode, task[t].payload, task[t].tx.latency) = "pass"
Quotable(t) ==
    ScavengerQuote(cfg, mode, task[t].payload, task[t].tx.gasPrice, task[t].economic).pass

ScavengerUneconomic(t) ==
    /\ task[t].pc = "branch" /\ mode = "scavenger" /\ Uneconomic(t)
    /\ Reject(t, {"shadow_research_reject"})
    /\ UNCHANGED <<smallVars, replayVars>>

ScavengerInsane(t) ==
    /\ task[t].pc = "branch" /\ mode = "scavenger" /\ ~Uneconomic(t) /\ ~Sane(t)
    /\ Reject(t, {"ev_gate_reject"})
    /\ UNCHANGED <<smallVars, replayVars>>

ScavengerQuoteReject(t) ==
    /\ task[t].pc = "branch" /\ mode = "scavenger" /\ ~Uneconomic(t) /\ Sane(t)
    /\ task[t].economic # None /\ ~Quotable(t)
    /\ Reject(t, QuoteFailed \cup {"ev_gate_pass"})
    /\ UNCHANGED <<smallVars, replayVars>>

ScavengerReady(t) ==
    /\ task[t].pc = "branch" /\ mode = "scavenger" /\ ~Uneconomic(t) /\ Sane(t)
    /\ task[t].economic # None /\ Quotable(t)
    /\ Move(t, QuotePassed \cup {"ev_gate_pass", "quote_attempt", "adaptive_quote_candidate"},
            [task[t] EXCEPT !.pc = "ready"])
    /\ UNCHANGED <<smallVars, replayVars>>

\* .expect("scavenger payload-to-quote diagnostic")
QuoteWithoutDiagnostic(t) ==
    /\ task[t].pc = "branch" /\ mode = "scavenger"
    /\ task[t].economic = None /\ Sane(t)
    /\ Move(t, {"ev_gate_pass", "quote_attempt", "adaptive_quote_candidate"},
            [task[t] EXCEPT !.pc = "panicked"])
    /\ UNCHANGED <<smallVars, replayVars>>

\* The other modes.
Branch(t) ==
    /\ task[t].pc = "branch" /\ mode # "scavenger"
    /\ Move(t, {}, [task[t] EXCEPT !.pc = "ev"])
    /\ UNCHANGED <<smallVars, replayVars>>

EvGateStep(t) ==
    /\ task[t].pc = "ev"
    /\ IF EvGate(cfg, mode, task[t].payload, task[t].signal, task[t].tx.latency,
                 task[t].minProfit).pass
       THEN Move(t, {"ev_gate_pass"}, [task[t] EXCEPT !.pc = "quality"])
       ELSE Reject(t, {"ev_gate_reject"})
    /\ UNCHANGED <<smallVars, replayVars>>

\* Mutation: the rejected candidate is not counted as one.
QualityGateUncounted(t) ==
    /\ task[t].pc = "quality"
    /\ IF QualityGate(cfg, mode, task[t].payload, task[t].tx.gasPrice).pass
       THEN Move(t, {}, [task[t] EXCEPT !.pc = "quote"])
       ELSE Reject(t, {"execution_ready_reject"})
    /\ UNCHANGED <<smallVars, replayVars>>

QualityGateStep(t) ==
    /\ task[t].pc = "quality"
    /\ IF QualityGate(cfg, mode, task[t].payload, task[t].tx.gasPrice).pass
       THEN Move(t, {}, [task[t] EXCEPT !.pc = "quote"])
       ELSE Reject(t, {"execution_ready_candidate", "execution_ready_reject"})
    /\ UNCHANGED <<smallVars, replayVars>>

AdaptiveQuote(t) ==
    /\ task[t].pc = "quote"
    /\ \E q \in Quotes[t] : Move(t, {"quote_attempt", "adaptive_quote_candidate"},
                              [task[t] EXCEPT !.pc = "override", !.score = q])
    /\ UNCHANGED <<smallVars, replayVars>>

QuoteAccepted(t) == task[t].score.execute \/ OverridesQuote(cfg, mode, task[t].score)

QuoteReject(t) ==
    /\ task[t].pc = "override" /\ ~QuoteAccepted(t)
    /\ Reject(t, QuoteFailed \ {"quote_attempt", "adaptive_quote_candidate"})
    /\ UNCHANGED <<smallVars, replayVars>>

QuotePass(t) ==
    /\ task[t].pc = "override" /\ QuoteAccepted(t)
    /\ Move(t, QuotePassed, [task[t] EXCEPT !.pc = "ready"])
    /\ UNCHANGED <<smallVars, replayVars>>

-----------------------------------------------------------------------------
\* set_opportunity_mode of the dashboard.
SetOpportunityMode ==
    /\ switches < MaxSwitches
    /\ mode' \in Modes \ {mode}
    /\ switches' = switches + 1
    /\ UNCHANGED <<cfg, task, funnel, smallVars, replayVars>>

Step(t) ==
    \/ LookupMiss(t) \/ LookupFound(t) \/ DecodeReject(t) \/ DecodePass(t)
    \/ Throttle(t) \/ Admit(t) \/ BlockLookup(t) \/ FastGate(t)
    \/ AdaptivePreflight(t) \/ PreflightOverride(t) \/ BuildReject(t) \/ BuildPass(t)
    \/ PayloadToQuote(t) \/ EvmPreflight(t) \/ ScavengerUneconomic(t)
    \/ ScavengerInsane(t) \/ ScavengerQuoteReject(t) \/ ScavengerReady(t)
    \/ QuoteWithoutDiagnostic(t) \/ Branch(t) \/ EvGateStep(t) \/ QualityGateStep(t)
    \/ AdaptiveQuote(t) \/ QuoteReject(t) \/ QuotePass(t)

Next ==
    \/ \E t \in Tasks : Step(t)
    \/ SetOpportunityMode \/ SmallWindow \/ ReplayRecv \/ ReplayPersist

\* The replay worker is a task of its own, which storage does not block.
Fairness == WF_vars(ReplayRecv) /\ WF_vars(ReplayPersist)

Spec == Init /\ [][Next]_vars /\ Fairness

-----------------------------------------------------------------------------
At(pcs) == Cardinality({t \in Tasks : task[t].pc \in pcs})
Counted(stages) == {t \in Tasks : stages \subseteq task[t].counted}

\* The funnel adds up.  Every candidate that enters a stage of
\* record_opportunity_funnel leaves it into exactly one of the next, whatever
\* the mode does meanwhile; the exceptions are the ones named: a decode below
\* the confidence counts twice, and a task that panics or that the EVM
\* preflight rejects counts nowhere.
FunnelBalances ==
    LET unsure == Cardinality(Counted({"decode_pass", "decode_reject"}))
        silent == Cardinality({t \in Tasks :
                    /\ task[t].pc = "rejected"
                    /\ "ev_validation_pass" \in task[t].counted
                    /\ task[t].counted \cap {"shadow_research_reject", "ev_gate_pass",
                                             "ev_gate_reject"} = {}})
        lost(s) == Cardinality({t \in Counted(s) : task[t].pc = "panicked"})
    IN  /\ funnel["tx_lookup_success"] + funnel["tx_lookup_skipped_full_pending"] + unsure =
             funnel["decode_pass"] + funnel["decode_reject"] + At({"decode"})
        /\ funnel["decode_pass"] =
             funnel["small_scavenger_throttled"] + funnel["block_lookup_success"]
             + funnel["block_lookup_fail"] + unsure + At({"lane", "block"})
        /\ funnel["block_lookup_success"] =
             funnel["fast_preflight_reject"] + funnel["fast_preflight_pass"] + At({"fast"})
             + lost({}) - lost({"fast_preflight_pass"})
        /\ funnel["fast_preflight_pass"] =
             funnel["adaptive_preflight_reject"] + funnel["adaptive_preflight_pass"]
             + At({"adaptive", "preOverride"})
        /\ funnel["adaptive_preflight_pass"] =
             funnel["payload_reject"] + funnel["payload_built"] + At({"build"})
        /\ funnel["payload_built"] = funnel["ev_validation_failed"] + funnel["ev_validation_pass"]
        /\ funnel["ev_validation_pass"] =
             funnel["payload_to_quote_reject"] + funnel["payload_to_quote_pass"] + At({"economic"})
        /\ funnel["payload_to_quote_reject"] + funnel["payload_to_quote_pass"]
           + funnel["ev_validation_failed"] =
             funnel["shadow_research_reject"] + funnel["ev_gate_pass"] + funnel["ev_gate_reject"]
             + silent + At({"evm", "branch", "ev"})
        /\ funnel["quote_attempt"] =
             funnel["quote_failure"] + funnel["quote_success"] + At({"override"})
             + lost({"quote_attempt"})
        /\ funnel["ev_gate_pass"] =
             funnel["execution_ready_candidate"] + At({"quality", "quote", "override"})
             + lost({"quote_attempt"})
        /\ funnel["execution_ready_candidate"] =
             funnel["execution_ready_reject"] + funnel["execution_ready"]
        /\ funnel["execution_ready"] = At({"ready"})
        /\ funnel["replay_candidate"] =
             Len(replayQ) + Cardinality(persisted) + Cardinality(unstored)
             + (IF replaying = None THEN 0 ELSE 1)

\* With a gas cap that the clamp survives, the only way to take an evaluation
\* worker down is to switch the mode while it has the candidate: one that saw
\* a single mode from its lookup on, or never saw scavenger mode, never does.
PanicOnlyByRacedSwitch ==
    \A t \in Tasks :
        task[t].pc = "panicked" =>
            CapPanics \/ ("scavenger" \in task[t].modes /\ Cardinality(task[t].modes) > 1)

\* A candidate evaluated under one mode from its lookup to its verdict is
\* ready only if its profit answers for its gas: in scavenger mode it exceeds
\* the gas with its safety margin, in the others the quote expects more than
\* its threshold, or in aggressive mode at least the least profit.
SingleModeReadyPaysForGas ==
    \A t \in Tasks :
        task[t].pc = "ready" /\ Cardinality(task[t].modes) = 1 =>
            IF task[t].modes = {"scavenger"}
            THEN task[t].payload.profit >
                 SafetyGasCost(cfg, task[t].tx.gasPrice, task[t].payload.gasLimit)
            ELSE /\ 100 * task[t].payload.profit >= task[t].minProfit
                 /\ \/ task[t].score.execute
                    \/ /\ task[t].modes = {"aggressive"}
                       /\ 100 * task[t].score.evReal >= EffectiveMinProfitUsd(cfg, "aggressive")

\* The research bypass of the gas cap is for engines that do not send: what an
\* engine with allow_send makes ready is below its adaptive cap.
ShadowBypassNeverSends ==
    \A t \in Tasks : task[t].pc = "ready" /\ cfg.allowSend => ~AboveGasCap(t)

\* What process_evaluation_task makes ready had the profit for its gas, and
\* the gas price for an engine that sends.
ReadyIsJustified == SingleModeReadyPaysForGas /\ ShadowBypassNeverSends

\* What the funnel counts as a replay candidate comes to storage in the end: no
\* candidate stays in the channel or with the worker, also after an INSERT of
\* another one has failed.  Only its own failed INSERTs keep it from its row.
ReplayReachesStorage ==
    \A t \in Tasks : "replay_candidate" \in task[t].counted ~> t \in persisted \cup unstored
=============================================================================
