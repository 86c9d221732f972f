-------------------------- MODULE EvaluationProofs --------------------------
(* Proofs about Evaluation, for any candidates, configurations, answers of   *)
(* the lookup, the decoder, the builder and the adaptive policy, and any     *)
(* changes of the opportunity mode between two gates: type correctness, the  *)
(* balance of the funnel, what can panic and what a ready candidate has      *)
(* passed.                                                                   *)
EXTENDS Evaluation, SequenceTheorems, FiniteSetTheorems, TLAPS

PastFast == {"adaptive", "preOverride", "build", "economic", "evm", "branch", "ev",
             "quality", "quote", "override", "ready"}
PastBuild == {"economic", "evm", "branch", "ev", "quality", "quote", "override", "ready"}

\* A task past a step has in hand what the step gave it.
HandSound(t, r) ==
    /\ r.pc \notin {"idle", "rejected"} => r.tx \in Txs[t]
    /\ r.pc \notin {"idle", "decode", "rejected"} => r.signal \in Signals[t]
    /\ r.pc \in PastBuild => r.payload \in Payloads[t]

\* The victim's gas price is above the adaptive cap; AboveGasCap of a record.
Over(r) ==
    /\ cfg.maxGasPriceGwei > 0
    /\ 1000 * r.tx.gasPrice >
           AdaptiveGasCap(r.signal.evUpper, r.signal.notional, cfg.maxGasPriceGwei)

OtherMode(r) == \E m \in r.modes : m # "scavenger"

\* A diagnostic is missing only if the check ran in another mode, and only
\* then does the quote of scavenger mode find none.
PanicSound(r) ==
    /\ r.pc \in {"evm", "branch"} /\ r.economic = None => OtherMode(r)
    /\ r.pc = "panicked" => CapPanics \/ ("scavenger" \in r.modes /\ OtherMode(r))

\* What the gates have established about a candidate on its way to ready.
ReadySound(r) ==
    /\ r.pc \in PastFast /\ cfg.allowSend => ~Over(r)
    /\ r.pc \in {"ev", "quality", "quote", "override"} => OtherMode(r)
    /\ r.pc \in {"quality", "quote", "override", "ready"} /\ "scavenger" \notin r.modes =>
          100 * r.payload.profit >= r.minProfit
    /\ r.pc = "ready" /\ "scavenger" \notin r.modes =>
          \/ r.score.execute
          \/ /\ "aggressive" \in r.modes
             /\ 100 * r.score.evReal >= EffectiveMinProfitUsd(cfg, "aggressive")
    /\ r.pc = "ready" /\ ~OtherMode(r) =>
          r.payload.profit > SafetyGasCost(cfg, r.tx.gasPrice, r.payload.gasLimit)

Sound(t, r) == HandSound(t, r) /\ PanicSound(r) /\ ReadySound(r)

TaskInv == TypeOK /\ \A t \in Tasks : Sound(t, task[t])

-----------------------------------------------------------------------------
(* The control flow of a candidate and the stages that FunnelBalances adds  *)
(* up.                                                                      *)
Main == {
    "tx_lookup_success", "tx_lookup_skipped_full_pending", "decode_pass", "decode_reject",
    "small_scavenger_throttled", "block_lookup_success", "block_lookup_fail",
    "fast_preflight_reject", "fast_preflight_pass",
    "adaptive_preflight_reject", "adaptive_preflight_pass",
    "payload_reject", "payload_built", "ev_validation_failed", "ev_validation_pass",
    "payload_to_quote_reject", "payload_to_quote_pass", "replay_candidate",
    "shadow_research_reject", "ev_gate_pass", "ev_gate_reject",
    "quote_attempt", "quote_failure", "quote_success",
    "execution_ready_candidate", "execution_ready_reject", "execution_ready"}

LookupEdge(from, to, S) ==
    \/ from = "idle" /\ to = "rejected" /\ S = {}
    \/ from = "idle" /\ to = "decode" /\ S = {"tx_lookup_success"}
    \/ from = "idle" /\ to = "decode" /\ S = {"tx_lookup_skipped_full_pending"}
    \/ from = "decode" /\ to = "rejected" /\ S = {"decode_reject"}
    \/ from = "decode" /\ to = "rejected" /\ S = {"decode_pass", "decode_reject"}
    \/ from = "decode" /\ to = "lane" /\ S = {"decode_pass"}
    \/ from = "lane" /\ to = "rejected" /\ S = {"small_scavenger_throttled"}
    \/ from = "lane" /\ to = "block" /\ S = {}
    \/ from = "block" /\ to = "rejected" /\ S = {"block_lookup_fail"}
    \/ from = "block" /\ to = "fast" /\ S = {"block_lookup_success"}

BuildEdge(from, to, S) ==
    \/ from = "fast" /\ to = "panicked" /\ S = {}
    \/ from = "fast" /\ to = "rejected" /\ S = {"fast_preflight_reject"}
    \/ from = "fast" /\ to = "adaptive" /\ S = {"fast_preflight_pass"}
    \/ from = "adaptive" /\ to = "build" /\ S = {"adaptive_preflight_pass"}
    \/ from = "adaptive" /\ to = "preOverride" /\ S = {}
    \/ from = "preOverride" /\ to = "build" /\ S = {"adaptive_preflight_pass"}
    \/ from = "preOverride" /\ to = "rejected" /\ S = {"adaptive_preflight_reject"}
    \/ from = "build" /\ to = "rejected" /\ S = {"payload_reject"}
    \/ from = "build" /\ to = "economic" /\ S = {"payload_built", "ev_validation_pass"}
    \/ /\ from = "build" /\ to = "rejected"
       /\ S = {"payload_built", "ev_validation_failed", "ev_gate_reject"}
    \/ /\ from = "economic" /\ to = "evm"
       /\ \E s \in {"payload_to_quote_pass", "payload_to_quote_reject"} :
             S \in {{s}, {s, "replay_candidate"}}

QuoteEdge(from, to, S) ==
    \/ from = "evm" /\ to \in {"branch", "rejected"} /\ S = {}
    \/ from = "branch" /\ to = "rejected" /\ S = {"shadow_research_reject"}
    \/ from = "branch" /\ to = "rejected" /\ S = {"ev_gate_reject"}
    \/ /\ from = "branch" /\ to = "rejected"
       /\ S = {"ev_gate_pass", "quote_attempt", "quote_failure",
               "execution_ready_candidate", "execution_ready_reject"}
    \/ /\ from = "branch" /\ to = "ready"
       /\ S = {"ev_gate_pass", "quote_attempt", "quote_success",
               "execution_ready_candidate", "execution_ready"}
    \/ from = "branch" /\ to = "panicked" /\ S = {"ev_gate_pass", "quote_attempt"}
    \/ from = "branch" /\ to = "ev" /\ S = {}
    \/ from = "ev" /\ to = "quality" /\ S = {"ev_gate_pass"}
    \/ from = "ev" /\ to = "rejected" /\ S = {"ev_gate_reject"}
    \/ from = "quality" /\ to = "quote" /\ S = {}
    \/ /\ from = "quality" /\ to = "rejected"
       /\ S = {"execution_ready_candidate", "execution_ready_reject"}
    \/ from = "quote" /\ to = "override" /\ S = {"quote_attempt"}
    \/ /\ from = "override" /\ to = "rejected"
       /\ S = {"quote_failure", "execution_ready_candidate", "execution_ready_reject"}
    \/ /\ from = "override" /\ to = "ready"
       /\ S = {"quote_success", "execution_ready_candidate", "execution_ready"}

Edge(from, to, S) ==
    LookupEdge(from, to, S) \/ BuildEdge(from, to, S) \/ QuoteEdge(from, to, S)

\* The record that Move leaves.
Landed(after, stages) ==
    [after EXCEPT !.counted = @ \cup stages, !.modes = @ \cup {mode}]

\* The task takes an edge, counts its stages and is sound afterwards.
Progress(t) ==
    \E stages \in SUBSET Stages, after \in TaskRecord(t) :
        /\ Move(t, stages, after)
        /\ after.counted = task[t].counted
        /\ Edge(task[t].pc, after.pc, stages \cap Main)
        /\ Sound(t, Landed(after, stages))

-----------------------------------------------------------------------------
(* Steps of a task.                                                         *)

LEMMA FreshType == \A t : Fresh \in TaskRecord(t)
    BY DEF Fresh, TaskRecord, Pcs

LEMMA LandedFields ==
    ASSUME NEW t, NEW after \in TaskRecord(t), NEW stages \in SUBSET Stages,
           mode \in Modes
    PROVE  /\ Landed(after, stages) \in TaskRecord(t)
           /\ Landed(after, stages).pc = after.pc
           /\ Landed(after, stages).tx = after.tx
           /\ Landed(after, stages).signal = after.signal
           /\ Landed(after, stages).minProfit = after.minProfit
           /\ Landed(after, stages).score = after.score
           /\ Landed(after, stages).payload = after.payload
           /\ Landed(after, stages).economic = after.economic
           /\ Landed(after, stages).counted = after.counted \cup stages
           /\ Landed(after, stages).modes = after.modes \cup {mode}
<1>1. after.counted \cup stages \in SUBSET Stages /\ after.modes \cup {mode} \in SUBSET Modes
    BY DEF TaskRecord
<1>2. QED
    BY <1>1 DEF Landed, TaskRecord

\* A task that returns is sound: nothing is claimed of it.
LEMMA RejectProgress ==
    ASSUME TaskInv, NEW t \in Tasks, NEW stages \in SUBSET Stages,
           Reject(t, stages), Edge(task[t].pc, "rejected", stages \cap Main)
    PROVE  Progress(t)
<1> DEFINE after == [Fresh EXCEPT !.pc = "rejected", !.counted = task[t].counted]
<1>1. task[t] \in TaskRecord(t) /\ mode \in Modes
    BY DEF TaskInv, TypeOK
<1>2. after \in TaskRecord(t) /\ after.pc = "rejected" /\ after.counted = task[t].counted
    BY <1>1 DEF Fresh, TaskRecord, Pcs
<1>3. Move(t, stages, after)
    BY DEF Reject
<1> HIDE DEF after
<1>4. Landed(after, stages).pc = "rejected"
    BY <1>1, <1>2, LandedFields
<1>5. Sound(t, Landed(after, stages))
    BY <1>4 DEF Sound, HandSound, PanicSound, ReadySound, PastFast, PastBuild
<1>6. QED
    BY <1>2, <1>3, <1>5 DEF Progress

\* A task that goes on: its record changes in a few fields, not in the
\* history.
LEMMA AdvanceProgress ==
    ASSUME TaskInv, NEW t \in Tasks, NEW stages \in SUBSET Stages,
           NEW after \in TaskRecord(t), Move(t, stages, after),
           after.counted = task[t].counted, Edge(task[t].pc, after.pc, stages \cap Main),
           Sound(t, Landed(after, stages))
    PROVE  Progress(t)
    BY DEF Progress

\* process_lookup_decode_task
LEMMA LookupProgress ==
    ASSUME TaskInv, NEW t \in Tasks,
           \/ LookupMiss(t) \/ LookupFound(t) \/ DecodeReject(t) \/ DecodePass(t)
           \/ Throttle(t) \/ Admit(t) \/ BlockLookup(t)
    PROVE  Progress(t)
<1> DEFINE r == task[t]
<1>0. /\ r \in TaskRecord(t) /\ Sound(t, r) /\ mode \in Modes /\ cfg \in Configs
    BY DEF TaskInv, TypeOK
<1>1. CASE LookupMiss(t)
  <2>1. {"tx_lookup_miss"} \cap Main = {} /\ {"tx_lookup_miss"} \in SUBSET Stages
      BY DEF Main, Stages
  <2>2. Edge(r.pc, "rejected", {"tx_lookup_miss"} \cap Main)
      BY <1>1, <2>1 DEF LookupMiss, Edge, LookupEdge
  <2>3. QED
      BY <1>1, <2>1, <2>2, RejectProgress DEF LookupMiss
<1>2. CASE LookupFound(t)
  <2>1. PICK tx \in Txs[t] :
          Move(t, IF tx.full THEN {"tx_lookup_skipped_full_pending"}
                             ELSE {"tx_lookup_success"},
               [r EXCEPT !.pc = "decode", !.tx = tx])
      BY <1>2 DEF LookupFound
  <2> DEFINE stages == IF tx.full THEN {"tx_lookup_skipped_full_pending"}
                                  ELSE {"tx_lookup_success"}
             after == [r EXCEPT !.pc = "decode", !.tx = tx]
  <2>2. stages \in SUBSET Stages /\ stages \cap Main = stages
        /\ stages \in {{"tx_lookup_skipped_full_pending"}, {"tx_lookup_success"}}
      BY DEF Main, Stages
  <2>3. /\ after \in TaskRecord(t) /\ after.pc = "decode" /\ after.tx = tx
        /\ after.counted = r.counted
      BY <1>0 DEF TaskRecord, Pcs
  <2> HIDE DEF stages, after, r
  <2>4. Edge(r.pc, after.pc, stages \cap Main)
      BY <1>2, <2>2, <2>3 DEF LookupFound, Edge, LookupEdge, r
  <2>5. Sound(t, Landed(after, stages))
      BY <1>0, <2>2, <2>3, LandedFields
      DEF Sound, HandSound, PanicSound, ReadySound, PastFast, PastBuild
  <2>6. QED
      BY <2>1, <2>2, <2>3, <2>4, <2>5, AdvanceProgress DEF stages, after, r
<1>3. CASE DecodeReject(t)
  <2>1. PICK stages \in {{"decode_reject"}, {"decode_pass", "decode_reject"},
                         {"decode_pass", "decode_reject", "partial_signal"}} :
            Reject(t, stages)
    <3>1. CASE Reject(t, {"decode_reject"})
        BY <3>1
    <3>2. ASSUME NEW s, Reject(t, {"decode_pass", "decode_reject"}
                                  \cup IfPartial(s, {"partial_signal"}))
          PROVE  \E stages \in {{"decode_pass", "decode_reject"},
                                {"decode_pass", "decode_reject", "partial_signal"}} :
                    Reject(t, stages)
      <4>1. {"decode_pass", "decode_reject"} \cup {"partial_signal"} =
               {"decode_pass", "decode_reject", "partial_signal"}
          OBVIOUS
      <4>2. {"decode_pass", "decode_reject"} \cup {} = {"decode_pass", "decode_reject"}
          OBVIOUS
      <4>3. CASE s.confidence < 99
          BY <3>2, <4>1, <4>3 DEF IfPartial
      <4>4. CASE ~(s.confidence < 99)
          BY <3>2, <4>2, <4>4 DEF IfPartial
      <4>5. QED
          BY <4>3, <4>4
    <3>3. QED
        BY <1>3, <3>1, <3>2 DEF DecodeReject
  <2>2. stages \in SUBSET Stages
        /\ stages \cap Main \in {{"decode_reject"}, {"decode_pass", "decode_reject"}}
      BY DEF Main, Stages
  <2>3. Edge(r.pc, "rejected", stages \cap Main)
      BY <1>3, <2>2 DEF DecodeReject, Edge, LookupEdge
  <2>4. QED
      BY <2>1, <2>2, <2>3, RejectProgress
<1>4. CASE DecodePass(t)
  <2> DEFINE minLarge == EffectiveMinLargeSwap(cfg, mode)
  <2>1. PICK s \in Signals[t] :
          Move(t, {"decode_pass"} \cup IfPartial(s, {"partial_signal"}),
               [r EXCEPT !.pc = "lane", !.signal = s, !.minLarge = minLarge])
      BY <1>4 DEF DecodePass
  <2> DEFINE stages == {"decode_pass"} \cup IfPartial(s, {"partial_signal"})
             after == [r EXCEPT !.pc = "lane", !.signal = s, !.minLarge = minLarge]
  <2>2. stages \in SUBSET Stages /\ stages \cap Main = {"decode_pass"}
      BY DEF Main, Stages, IfPartial
  <2>3. minLarge \in LargeSwaps
      BY <1>0 DEF LargeSwaps
  <2> HIDE DEF minLarge
  <2>4. /\ after \in TaskRecord(t) /\ after.pc = "lane" /\ after.signal = s
        /\ after.tx = r.tx /\ after.counted = r.counted
      BY <1>0, <2>3 DEF TaskRecord, Pcs
  <2>5. r.tx \in Txs[t] /\ r.pc = "decode"
      BY <1>0, <1>4 DEF DecodePass, Sound, HandSound
  <2> HIDE DEF stages, after, r
  <2>6. Edge(r.pc, after.pc, stages \cap Main)
      BY <2>2, <2>4, <2>5 DEF Edge, LookupEdge
  <2>7. Sound(t, Landed(after, stages))
      BY <1>0, <2>2, <2>4, <2>5, LandedFields
      DEF Sound, HandSound, PanicSound, ReadySound, PastFast, PastBuild
  <2>8. QED
      BY <2>1, <2>2, <2>4, <2>6, <2>7, AdvanceProgress DEF stages, after, r
<1>5. CASE Throttle(t)
  <2>1. {"small_scavenger_throttled"} \cap Main = {"small_scavenger_throttled"}
        /\ {"small_scavenger_throttled"} \in SUBSET Stages
      BY DEF Main, Stages
  <2>2. Edge(r.pc, "rejected", {"small_scavenger_throttled"} \cap Main)
      BY <1>5, <2>1 DEF Throttle, Edge, LookupEdge
  <2>3. QED
      BY <1>5, <2>1, <2>2, RejectProgress DEF Throttle
<1>6. ASSUME NEW pc \in {"block", "fast"}, NEW stages \in SUBSET Stages,
             r.pc \in {"lane", "block"}, Move(t, stages, [r EXCEPT !.pc = pc]),
             Edge(r.pc, pc, stages \cap Main)
      PROVE  Progress(t)
  <2> DEFINE after == [r EXCEPT !.pc = pc]
  <2>1. /\ after \in TaskRecord(t) /\ after.pc = pc /\ after.signal = r.signal
        /\ after.tx = r.tx /\ after.counted = r.counted
      BY <1>0 DEF TaskRecord, Pcs
  <2>2. r.tx \in Txs[t] /\ r.signal \in Signals[t]
      BY <1>0, <1>6 DEF Sound, HandSound
  <2> HIDE DEF after, r
  <2>3. Sound(t, Landed(after, stages))
      BY <1>0, <2>1, <2>2, LandedFields
      DEF Sound, HandSound, PanicSound, ReadySound, PastFast, PastBuild
  <2>4. QED
      BY <1>6, <2>1, <2>3, AdvanceProgress DEF after, r
<1>7. CASE Admit(t)
  <2>1. r.pc = "lane" /\ Move(t, {}, [r EXCEPT !.pc = "block"])
      BY <1>7 DEF Admit
  <2>2. {} \in SUBSET Stages /\ {} \cap Main = {}
      OBVIOUS
  <2>3. Edge(r.pc, "block", {} \cap Main)
      BY <2>1, <2>2 DEF Edge, LookupEdge
  <2>4. QED
      BY <1>6, <2>1, <2>2, <2>3
<1>8. CASE BlockLookup(t)
  <2>1. /\ {"block_lookup_fail"} \in SUBSET Stages
        /\ {"block_lookup_fail"} \cap Main = {"block_lookup_fail"}
        /\ {"block_lookup_success"} \in SUBSET Stages
        /\ {"block_lookup_success"} \cap Main = {"block_lookup_success"}
      BY DEF Main, Stages
  <2>2. /\ Edge(r.pc, "rejected", {"block_lookup_fail"} \cap Main)
        /\ Edge(r.pc, "fast", {"block_lookup_success"} \cap Main)
      BY <1>8, <2>1 DEF BlockLookup, Edge, LookupEdge
  <2>3. CASE Reject(t, {"block_lookup_fail"})
      BY <2>1, <2>2, <2>3, RejectProgress
  <2>4. CASE Move(t, {"block_lookup_success"}, [r EXCEPT !.pc = "fast"])
    <3>1. r.pc = "block"
        BY <1>8 DEF BlockLookup
    <3>2. QED
        BY <1>6, <2>1, <2>2, <2>4, <3>1
  <2>5. QED
      BY <1>8, <2>3, <2>4 DEF BlockLookup
<1>9. QED
    BY <1>1, <1>2, <1>3, <1>4, <1>5, <1>7, <1>8

LEMMA OverIsAboveGasCap ==
    ASSUME NEW t \in Tasks
    PROVE  AboveGasCap(t) <=> Over(task[t])
    BY DEF AboveGasCap, Over

\* The gas price of a task does not change once it has a signal.
LEMMA OverKept ==
    ASSUME NEW r, NEW q, q.tx = r.tx, q.signal = r.signal
    PROVE  Over(q) <=> Over(r)
    BY DEF Over

\* process_evaluation_task up to the payload-to-quote check
LEMMA BuildProgress ==
    ASSUME TaskInv, NEW t \in Tasks,
           \/ FastGate(t) \/ AdaptivePreflight(t) \/ PreflightOverride(t)
           \/ BuildReject(t) \/ BuildPass(t) \/ PayloadToQuote(t)
    PROVE  Progress(t)
<1> DEFINE r == task[t]
<1>0. /\ r \in TaskRecord(t) /\ Sound(t, r) /\ mode \in Modes /\ cfg \in Configs
    BY DEF TaskInv, TypeOK
<1>a. \A signal, stages : IfPartial(signal, stages) \in {stages, {}}
    BY DEF IfPartial
<1>1. CASE FastGate(t)
  <2>0. r.pc = "fast" /\ r.tx \in Txs[t] /\ r.signal \in Signals[t]
      BY <1>0, <1>1 DEF FastGate, Sound, HandSound
  <2>1. CASE CapPanics /\ Move(t, {}, [r EXCEPT !.pc = "panicked"])
    <3> DEFINE after == [r EXCEPT !.pc = "panicked"]
    <3>1. /\ after \in TaskRecord(t) /\ after.pc = "panicked" /\ after.signal = r.signal
          /\ after.tx = r.tx /\ after.counted = r.counted
        BY <1>0 DEF TaskRecord, Pcs
    <3> HIDE DEF after, r
    <3>2. {} \in SUBSET Stages /\ {} \cap Main = {}
        OBVIOUS
    <3>3. Edge(r.pc, after.pc, {} \cap Main)
        BY <2>0, <3>1, <3>2 DEF Edge, BuildEdge
    <3>4. Sound(t, Landed(after, {}))
        BY <1>0, <2>0, <2>1, <3>1, <3>2, LandedFields
        DEF Sound, HandSound, PanicSound, ReadySound, PastFast, PastBuild
    <3>5. QED
        BY <2>1, <3>1, <3>2, <3>3, <3>4, AdvanceProgress DEF after, r
  <2>2. CASE Reject(t, {"fast_preflight_reject"})
    <3>1. {"fast_preflight_reject"} \cap Main = {"fast_preflight_reject"}
          /\ {"fast_preflight_reject"} \in SUBSET Stages
        BY DEF Main, Stages
    <3>2. Edge(r.pc, "rejected", {"fast_preflight_reject"} \cap Main)
        BY <2>0, <3>1 DEF Edge, BuildEdge
    <3>3. QED
        BY <2>2, <3>1, <3>2, RejectProgress
  <2>3. CASE /\ FastGatePasses(t)
             /\ Move(t, {"fast_preflight_pass"},
                     [r EXCEPT !.pc = "adaptive",
                               !.minProfit = EffectiveMinNetProfit(cfg, mode)])
    <3> DEFINE minProfit == EffectiveMinNetProfit(cfg, mode)
               stages == {"fast_preflight_pass"}
               after == [r EXCEPT !.pc = "adaptive", !.minProfit = minProfit]
    <3>1. minProfit \in NetProfits
        BY <1>0 DEF NetProfits
    <3> HIDE DEF minProfit
    <3>2. /\ after \in TaskRecord(t) /\ after.pc = "adaptive" /\ after.signal = r.signal
          /\ after.tx = r.tx /\ after.counted = r.counted
        BY <1>0, <3>1 DEF TaskRecord, Pcs
    <3>3. stages \in SUBSET Stages /\ stages \cap Main = {"fast_preflight_pass"}
        BY DEF Main, Stages
    <3>4. cfg.allowSend => ~Over(r)
        BY <2>3, OverIsAboveGasCap DEF FastGatePasses, GasCapResearchBypass
    <3>5. Move(t, stages, after)
        BY <2>3 DEF minProfit
    <3> HIDE DEF after, r, stages
    <3>6. Edge(r.pc, after.pc, stages \cap Main)
        BY <2>0, <3>2, <3>3 DEF Edge, BuildEdge
    <3>7. cfg.allowSend => ~Over(Landed(after, stages))
        BY <1>0, <3>2, <3>3, <3>4, LandedFields, OverKept
    <3>8. Sound(t, Landed(after, stages))
        BY <1>0, <2>0, <3>2, <3>3, <3>7, LandedFields
        DEF Sound, HandSound, PanicSound, ReadySound, PastFast, PastBuild
    <3>9. QED
        BY <3>2, <3>3, <3>5, <3>6, <3>8, AdvanceProgress DEF r
  <2>4. QED
      BY <1>1, <2>1, <2>2, <2>3 DEF FastGate
<1>2. ASSUME NEW pc \in {"preOverride", "build"}, NEW score \in Preflights[t] \cup {None, r.score},
             NEW stages \in SUBSET Stages, r.pc \in {"adaptive", "preOverride"},
             NEW after, after = [r EXCEPT !.pc = pc, !.score = score],
             Move(t, stages, after),
             Edge(r.pc, pc, stages \cap Main)
      PROVE  Progress(t)
  <2>1. /\ after \in TaskRecord(t) /\ after.pc = pc /\ after.signal = r.signal
        /\ after.tx = r.tx /\ after.counted = r.counted
      BY <1>0, <1>2 DEF TaskRecord, Pcs
  <2>2. r.tx \in Txs[t] /\ r.signal \in Signals[t] /\ (cfg.allowSend => ~Over(r))
      BY <1>0, <1>2 DEF Sound, HandSound, ReadySound, PastFast
  <2> HIDE DEF r
  <2>3. cfg.allowSend => ~Over(Landed(after, stages))
      BY <1>0, <2>1, <2>2, LandedFields, OverKept
  <2>4. Sound(t, Landed(after, stages))
      BY <1>0, <2>1, <2>2, <2>3, LandedFields
      DEF Sound, HandSound, PanicSound, ReadySound, PastFast, PastBuild
  <2>5. QED
      BY <1>2, <2>1, <2>4, AdvanceProgress DEF r
<1>3. /\ {"adaptive_preflight_pass"} \cap Main = {"adaptive_preflight_pass"}
      /\ {"adaptive_preflight_pass"} \in SUBSET Stages
      /\ {"adaptive_preflight_reject"} \cap Main = {"adaptive_preflight_reject"}
      /\ {"adaptive_preflight_reject"} \in SUBSET Stages
      /\ {} \cap Main = {} /\ {} \in SUBSET Stages
    BY DEF Main, Stages
<1>4. CASE AdaptivePreflight(t)
  <2>0. r.pc = "adaptive"
      BY <1>4 DEF AdaptivePreflight
  <2>1. /\ Edge(r.pc, "build", {"adaptive_preflight_pass"} \cap Main)
        /\ Edge(r.pc, "preOverride", {} \cap Main)
      BY <1>3, <2>0 DEF Edge, BuildEdge
  <2>2. CASE Move(t, {"adaptive_preflight_pass"}, [r EXCEPT !.pc = "build"])
    <3>1. [r EXCEPT !.pc = "build"] = [r EXCEPT !.pc = "build", !.score = r.score]
        BY <1>0 DEF TaskRecord
    <3>2. QED
        BY <1>2, <1>3, <2>0, <2>1, <2>2, <3>1
  <2>3. ASSUME NEW p \in Preflights[t],
               Move(t, {}, [r EXCEPT !.pc = "preOverride", !.score = p])
        PROVE  Progress(t)
      BY <1>2, <1>3, <2>0, <2>1, <2>3
  <2>4. QED
      BY <1>4, <2>2, <2>3 DEF AdaptivePreflight
<1>5. CASE PreflightOverride(t)
  <2>0. r.pc = "preOverride"
      BY <1>5 DEF PreflightOverride
  <2>1. /\ Edge(r.pc, "build", {"adaptive_preflight_pass"} \cap Main)
        /\ Edge(r.pc, "rejected", {"adaptive_preflight_reject"} \cap Main)
      BY <1>3, <2>0 DEF Edge, BuildEdge
  <2>2. CASE Move(t, {"adaptive_preflight_pass"}, [r EXCEPT !.pc = "build", !.score = None])
      BY <1>2, <1>3, <2>0, <2>1, <2>2
  <2>3. CASE Reject(t, {"adaptive_preflight_reject"})
      BY <1>3, <2>1, <2>3, RejectProgress
  <2>4. QED
      BY <1>5, <2>2, <2>3 DEF PreflightOverride
<1>6. /\ EnterBuilder(t) \in SUBSET Stages /\ EnterBuilder(t) \cap Main = {}
      /\ \A x : PoolShadow(t, x) \in SUBSET Stages /\ PoolShadow(t, x) \cap Main = {}
      /\ \A pool \in PoolReject(t) : pool \in SUBSET Stages /\ pool \cap Main = {}
  <2>1. EnterBuilder(t) \in SUBSET Stages /\ EnterBuilder(t) \cap Main = {}
      BY <1>a DEF EnterBuilder, Stages, Main
  <2>2. \A x : PoolShadow(t, x) \in SUBSET Stages /\ PoolShadow(t, x) \cap Main = {}
      BY <1>a DEF PoolShadow, Stages, Main
  <2>3. IfPartial(task[t].signal, {"partial_pool_missing"}) \in SUBSET Stages
        /\ IfPartial(task[t].signal, {"partial_pool_missing"}) \cap Main = {}
      BY <1>a DEF Stages, Main
  <2>4. QED
      BY <2>1, <2>2, <2>3 DEF PoolReject
<1>7. CASE BuildReject(t)
  <2>1. PICK pool \in PoolReject(t) :
            Reject(t, {"payload_reject"} \cup EnterBuilder(t) \cup pool)
      BY <1>7 DEF BuildReject
  <2> DEFINE stages == {"payload_reject"} \cup EnterBuilder(t) \cup pool
  <2>2. {"payload_reject"} \in SUBSET Stages /\ {"payload_reject"} \cap Main = {"payload_reject"}
      BY DEF Main, Stages
  <2>3. stages \in SUBSET Stages /\ stages \cap Main = {"payload_reject"}
      BY <1>6, <2>2
  <2>4. Edge(r.pc, "rejected", stages \cap Main)
      BY <1>7, <2>3 DEF BuildReject, Edge, BuildEdge
  <2>5. QED
      BY <2>1, <2>3, <2>4, RejectProgress
<1>8. CASE BuildPass(t)
  <2>0. /\ r.pc = "build" /\ r.tx \in Txs[t] /\ r.signal \in Signals[t]
        /\ (cfg.allowSend => ~Over(r))
      BY <1>0, <1>8 DEF BuildPass, Sound, HandSound, ReadySound, PastFast
  <2>1. Built(t) \in SUBSET Stages /\ Built(t) \cap Main = {"payload_built"}
    <3>1. /\ {"payload_built"} \in SUBSET Stages
          /\ {"payload_built"} \cap Main = {"payload_built"}
          /\ {"shadow_payload_built"} \in SUBSET Stages
          /\ {"shadow_payload_built"} \cap Main = {}
        BY DEF Main, Stages
    <3>2. QED
        BY <1>6, <3>1 DEF Built
  <2>2. CASE \E p \in Payloads[t] :
               Move(t, Built(t) \cup {"ev_validation_pass"},
                    [r EXCEPT !.pc = "economic", !.payload = p])
    <3>1. PICK p \in Payloads[t] :
               Move(t, Built(t) \cup {"ev_validation_pass"},
                    [r EXCEPT !.pc = "economic", !.payload = p])
        BY <2>2
    <3> DEFINE stages == Built(t) \cup {"ev_validation_pass"}
               after == [r EXCEPT !.pc = "economic", !.payload = p]
    <3>2. {"ev_validation_pass"} \in SUBSET Stages
          /\ {"ev_validation_pass"} \cap Main = {"ev_validation_pass"}
        BY DEF Main, Stages
    <3>3. stages \in SUBSET Stages /\ stages \cap Main = {"payload_built", "ev_validation_pass"}
        BY <2>1, <3>2
    <3>4. /\ after \in TaskRecord(t) /\ after.pc = "economic" /\ after.signal = r.signal
          /\ after.tx = r.tx /\ after.counted = r.counted /\ after.payload = p
        BY <1>0 DEF TaskRecord, Pcs
    <3> HIDE DEF after, r, stages
    <3>5. Edge(r.pc, after.pc, stages \cap Main)
        BY <2>0, <3>3, <3>4 DEF Edge, BuildEdge
    <3>6. cfg.allowSend => ~Over(Landed(after, stages))
        BY <1>0, <2>0, <3>3, <3>4, LandedFields, OverKept
    <3>7. Sound(t, Landed(after, stages))
        BY <1>0, <2>0, <3>3, <3>4, <3>6, LandedFields
        DEF Sound, HandSound, PanicSound, ReadySound, PastFast, PastBuild
    <3>8. QED
        BY <3>1, <3>3, <3>4, <3>5, <3>7, AdvanceProgress DEF r, stages, after
  <2>3. CASE Reject(t, Built(t) \cup PoolShadow(t, FALSE)
                       \cup {"ev_validation_failed", "ev_gate_reject"})
    <3> DEFINE stages == Built(t) \cup PoolShadow(t, FALSE)
                         \cup {"ev_validation_failed", "ev_gate_reject"}
    <3>1. {"ev_validation_failed", "ev_gate_reject"} \in SUBSET Stages
          /\ {"ev_validation_failed", "ev_gate_reject"} \cap Main =
               {"ev_validation_failed", "ev_gate_reject"}
        BY DEF Main, Stages
    <3>2. stages \in SUBSET Stages
          /\ stages \cap Main = {"payload_built", "ev_validation_failed", "ev_gate_reject"}
        BY <1>6, <2>1, <3>1
    <3>3. Edge(r.pc, "rejected", stages \cap Main)
        BY <2>0, <3>2 DEF Edge, BuildEdge
    <3>4. QED
        BY <2>3, <3>2, <3>3, RejectProgress
  <2>4. QED
      BY <1>8, <2>2, <2>3 DEF BuildPass
<1>9. CASE PayloadToQuote(t)
  <2>0. /\ r.pc = "economic" /\ r.tx \in Txs[t] /\ r.signal \in Signals[t]
        /\ r.payload \in Payloads[t] /\ (cfg.allowSend => ~Over(r))
      BY <1>0, <1>9 DEF PayloadToQuote, Sound, HandSound, ReadySound, PastFast, PastBuild
  <2> DEFINE edge == IF mode = "scavenger"
                     THEN EconomicEdge(cfg, r.payload, r.tx.gasPrice) ELSE None
             verdict == edge # None => edge.pass
             positive == verdict /\ r.payload.profit > 0 /\ ~r.payload.noTicks
             s == IF verdict THEN "payload_to_quote_pass" ELSE "payload_to_quote_reject"
  <2>1. Move(t, {s} \cup PoolShadow(t, positive) \cup ReplayStages(t, verdict),
             [r EXCEPT !.pc = "evm", !.economic = edge])
      BY <1>9 DEF PayloadToQuote
  <2>a. s \in {"payload_to_quote_pass", "payload_to_quote_reject"}
      OBVIOUS
  <2> HIDE DEF s, positive, verdict
  <2> DEFINE stages == {s} \cup PoolShadow(t, positive) \cup ReplayStages(t, verdict)
             after == [r EXCEPT !.pc = "evm", !.economic = edge]
  <2>2. /\ ReplayStages(t, verdict) \in SUBSET Stages
        /\ ReplayStages(t, verdict) \cap Main \in {{}, {"replay_candidate"}}
    <3>1. {"replay_candidate"} \in SUBSET Stages
          /\ {"replay_candidate"} \cap Main = {"replay_candidate"}
          /\ {"partial_replay_candidate_created"} \in SUBSET Stages
          /\ {"partial_replay_candidate_created"} \cap Main = {}
          /\ {"partial_replay_candidate_rejected"} \in SUBSET Stages
          /\ {"partial_replay_candidate_rejected"} \cap Main = {}
        BY DEF Main, Stages
    <3>2. ReplayStages(t, verdict) \in
            {{"replay_candidate"} \cup {"partial_replay_candidate_created"},
             {"replay_candidate"} \cup {}, {}, {"partial_replay_candidate_rejected"}}
        BY <1>a DEF ReplayStages
    <3>3. QED
        BY <3>1, <3>2
  <2>3. {s} \in SUBSET Stages /\ {s} \cap Main = {s}
      BY <2>a DEF Main, Stages
  <2>4. stages \in SUBSET Stages /\ stages \cap Main \in {{s}, {s, "replay_candidate"}}
    <3>1. stages \in SUBSET Stages
        BY <1>6, <2>2, <2>3
    <3>2. CASE ReplayStages(t, verdict) \cap Main = {}
        BY <1>6, <2>2, <2>3, <3>2
    <3>3. CASE ReplayStages(t, verdict) \cap Main = {"replay_candidate"}
      <4>1. stages \cap Main = {s, "replay_candidate"}
          BY <1>6, <2>2, <2>3, <3>3
      <4>2. QED
          BY <3>1, <4>1
    <3>4. QED
        BY <2>2, <3>1, <3>2, <3>3
  <2>5. edge = None => mode # "scavenger"
      BY <1>0, <2>0, EvaluationAssumption
  <2>b. edge \in Diagnostics(t) \cup {None}
      BY <1>0, <2>0 DEF Diagnostics
  <2> HIDE DEF edge
  <2>c. after = [r EXCEPT !.pc = "evm", !.economic = edge] /\ r \in TaskRecord(t)
      BY <1>0
  <2> HIDE DEF after, r, stages
  <2>6. /\ after \in TaskRecord(t) /\ after.pc = "evm" /\ after.signal = r.signal
        /\ after.tx = r.tx /\ after.counted = r.counted /\ after.payload = r.payload
        /\ after.economic = edge
    <3>1. r \in TaskRecord(t)
        BY <2>c
    <3>2. edge \in Diagnostics(t) \cup {None}
        BY <2>b
    <3>3. after = [r EXCEPT !.pc = "evm", !.economic = edge]
        BY <2>c
    <3>4. after \in TaskRecord(t)
        BY <3>1, <3>2, <3>3 DEF TaskRecord, Pcs
    <3>5. /\ after.pc = "evm" /\ after.signal = r.signal /\ after.tx = r.tx
          /\ after.counted = r.counted /\ after.payload = r.payload
        BY <3>1, <3>3 DEF TaskRecord
    <3>6. after.economic = edge
        BY <3>1, <3>3 DEF TaskRecord
    <3>7. QED
        BY <3>4, <3>5, <3>6
  <2>7. Edge(r.pc, after.pc, stages \cap Main)
      BY <2>0, <2>a, <2>4, <2>6 DEF Edge, BuildEdge
  <2>8. cfg.allowSend => ~Over(Landed(after, stages))
      BY <1>0, <2>0, <2>4, <2>6, LandedFields, OverKept
  <2>9. Landed(after, stages).economic = None => OtherMode(Landed(after, stages))
      BY <1>0, <2>4, <2>5, <2>6, LandedFields DEF OtherMode
  <2>10. Sound(t, Landed(after, stages))
      BY <1>0, <2>0, <2>4, <2>6, <2>8, <2>9, LandedFields
      DEF Sound, HandSound, PanicSound, ReadySound, PastFast, PastBuild
  <2>11. QED
      BY <2>1, <2>4, <2>6, <2>7, <2>10, AdvanceProgress DEF r, stages, after
<1>10. QED
    BY <1>1, <1>4, <1>5, <1>7, <1>8, <1>9

\* A payload whose profit passes the gate of its mode.
LEMMA EvGateProfit ==
    ASSUME NEW payload, NEW signal, NEW latency, NEW minProfit, mode # "scavenger",
           EvGate(cfg, mode, payload, signal, latency, minProfit).pass
    PROVE  100 * payload.profit >= minProfit
    BY DEF EvGate, StandardEvGate

LEMMA ScavengerQuoteProfit ==
    ASSUME NEW payload, NEW gasPrice, NEW economic,
           ScavengerQuote(cfg, mode, payload, gasPrice, economic).pass
    PROVE  payload.profit > SafetyGasCost(cfg, gasPrice, payload.gasLimit)
    BY DEF ScavengerQuote

\* The record of a task that goes on to pc with a score.
Onward(r, pc, score) == [r EXCEPT !.pc = pc, !.score = score]

\* process_evaluation_task from the EVM preflight on
LEMMA QuoteProgress ==
    ASSUME TaskInv, NEW t \in Tasks,
           \/ EvmPreflight(t) \/ ScavengerUneconomic(t) \/ ScavengerInsane(t)
           \/ ScavengerQuoteReject(t) \/ ScavengerReady(t) \/ QuoteWithoutDiagnostic(t)
           \/ Branch(t) \/ EvGateStep(t) \/ QualityGateStep(t)
           \/ AdaptiveQuote(t) \/ QuoteReject(t) \/ QuotePass(t)
    PROVE  Progress(t)
<1> DEFINE r == task[t]
<1>0. /\ r \in TaskRecord(t) /\ Sound(t, r) /\ mode \in Modes /\ cfg \in Configs
      /\ r.pc \in PastBuild
    BY DEF TaskInv, TypeOK, PastBuild, EvmPreflight, ScavengerUneconomic, ScavengerInsane,
           ScavengerQuoteReject, ScavengerReady, QuoteWithoutDiagnostic, Branch, EvGateStep,
           QualityGateStep, AdaptiveQuote, QuoteReject, QuotePass
<1>1. /\ r.tx \in Txs[t] /\ r.signal \in Signals[t] /\ r.payload \in Payloads[t]
      /\ (cfg.allowSend => ~Over(r))
    BY <1>0 DEF Sound, HandSound, ReadySound, PastFast, PastBuild
<1>2. ASSUME NEW stages \in SUBSET Stages, NEW pc \in Pcs \ {"rejected", "idle"},
             NEW score \in Quotes[t] \cup {r.score},
             Move(t, stages, Onward(r, pc, score)), Edge(r.pc, pc, stages \cap Main),
             PanicSound(Landed(Onward(r, pc, score), stages)),
             ReadySound(Landed(Onward(r, pc, score), stages))
      PROVE  Progress(t)
  <2> DEFINE after == Onward(r, pc, score)
  <2>1. after \in TaskRecord(t)
      BY <1>0, <1>2 DEF TaskRecord, Onward
  <2>2. /\ after.pc = pc /\ after.signal = r.signal /\ after.tx = r.tx
        /\ after.counted = r.counted /\ after.payload = r.payload
      BY <1>0, <1>2 DEF TaskRecord, Onward
  <2> HIDE DEF r, after
  <2>3. HandSound(t, Landed(after, stages))
      BY <1>0, <1>1, <2>1, <2>2, LandedFields DEF HandSound, PastBuild
  <2>4. QED
      BY <1>2, <2>1, <2>2, <2>3, AdvanceProgress DEF Sound, r, after
<1>3. ASSUME NEW stages \in SUBSET Stages, NEW pc \in Pcs \ {"rejected", "idle"},
             NEW score \in Quotes[t] \cup {r.score}
      PROVE  LET q == Landed(Onward(r, pc, score), stages) IN
             /\ q.pc = pc /\ q.tx = r.tx /\ q.signal = r.signal /\ q.payload = r.payload
             /\ q.score = score /\ q.minProfit = r.minProfit /\ q.economic = r.economic
             /\ q.modes = r.modes \cup {mode}
             /\ (cfg.allowSend => ~Over(q))
  <2> DEFINE after == Onward(r, pc, score)
  <2>1. after \in TaskRecord(t)
      BY <1>0, <1>3 DEF TaskRecord, Onward
  <2>2. /\ after.pc = pc /\ after.signal = r.signal /\ after.tx = r.tx
        /\ after.payload = r.payload /\ after.score = score
        /\ after.minProfit = r.minProfit /\ after.modes = r.modes
      BY <1>0, <1>3 DEF TaskRecord, Onward
  <2>3. after.economic = r.economic
      BY <1>0, <1>3 DEF TaskRecord, Onward
  <2> HIDE DEF r, after
  <2>4. LET q == Landed(after, stages) IN
        /\ q.pc = pc /\ q.tx = r.tx /\ q.signal = r.signal /\ q.payload = r.payload
        /\ q.score = score /\ q.minProfit = r.minProfit /\ q.economic = r.economic
        /\ q.modes = r.modes \cup {mode}
        /\ (cfg.allowSend => ~Over(q))
      BY <1>0, <1>1, <2>1, <2>2, <2>3, LandedFields, OverKept
  <2>5. QED
      BY <2>4 DEF after
<1>4. \A pc \in Pcs : [r EXCEPT !.pc = pc] = Onward(r, pc, r.score)
    BY <1>0 DEF TaskRecord, Onward
<1>5. {} \in SUBSET Stages /\ {} \cap Main = {}
    OBVIOUS
<1>6. CASE EvmPreflight(t)
  <2>0. r.pc = "evm"
      BY <1>6 DEF EvmPreflight
  <2>1. Edge(r.pc, "branch", {} \cap Main) /\ Edge(r.pc, "rejected", {} \cap Main)
      BY <1>5, <2>0 DEF Edge, QuoteEdge
  <2>2. CASE Move(t, {}, [r EXCEPT !.pc = "branch"])
    <3> DEFINE after == Onward(r, "branch", r.score)
               q == Landed(after, {})
    <3>1. "branch" \in Pcs
        BY DEF Pcs
    <3>2. Move(t, {}, after)
        BY <1>4, <2>2, <3>1
    <3>3. /\ q.pc = "branch" /\ q.economic = r.economic /\ q.modes = r.modes \cup {mode}
          /\ (cfg.allowSend => ~Over(q))
        BY <1>3, <3>1
    <3>4. r.economic = None => OtherMode(r)
        BY <1>0, <2>0 DEF Sound, PanicSound
    <3> HIDE DEF q
    <3>5. PanicSound(q)
        BY <3>3, <3>4 DEF PanicSound, OtherMode
    <3>6. ReadySound(q)
        BY <3>3 DEF ReadySound
    <3>7. QED
        BY <1>2, <2>1, <3>1, <3>2, <3>3, <3>5, <3>6 DEF q
  <2>3. CASE Reject(t, {})
      BY <1>5, <2>1, <2>3, RejectProgress
  <2>4. QED
      BY <1>6, <2>2, <2>3 DEF EvmPreflight
<1>7. CASE ScavengerUneconomic(t)
  <2>1. {"shadow_research_reject"} \in SUBSET Stages
        /\ {"shadow_research_reject"} \cap Main = {"shadow_research_reject"}
      BY DEF Main, Stages
  <2>2. Edge(r.pc, "rejected", {"shadow_research_reject"} \cap Main)
      BY <1>7, <2>1 DEF ScavengerUneconomic, Edge, QuoteEdge
  <2>3. QED
      BY <1>7, <2>1, <2>2, RejectProgress DEF ScavengerUneconomic
<1>8. {"ev_gate_reject"} \in SUBSET Stages
      /\ {"ev_gate_reject"} \cap Main = {"ev_gate_reject"}
    BY DEF Main, Stages
<1>9. CASE ScavengerInsane(t)
  <2>1. Edge(r.pc, "rejected", {"ev_gate_reject"} \cap Main)
      BY <1>8, <1>9 DEF ScavengerInsane, Edge, QuoteEdge
  <2>2. QED
      BY <1>8, <1>9, <2>1, RejectProgress DEF ScavengerInsane
<1>10. CASE ScavengerQuoteReject(t)
  <2> DEFINE stages == QuoteFailed \cup {"ev_gate_pass"}
  <2>1. stages \in SUBSET Stages
        /\ stages \cap Main = {"ev_gate_pass", "quote_attempt", "quote_failure",
                               "execution_ready_candidate", "execution_ready_reject"}
      BY DEF Main, Stages, QuoteFailed
  <2>2. r.pc = "branch" /\ Reject(t, stages)
      BY <1>10 DEF ScavengerQuoteReject
  <2> HIDE DEF stages
  <2>3. Edge(r.pc, "rejected", stages \cap Main)
      BY <2>1, <2>2 DEF Edge, QuoteEdge
  <2>4. QED
      BY <2>1, <2>2, <2>3, RejectProgress
<1>11. CASE ScavengerReady(t)
  <2> DEFINE stages == QuotePassed \cup {"ev_gate_pass", "quote_attempt",
                                         "adaptive_quote_candidate"}
             after == Onward(r, "ready", r.score)
             q == Landed(after, stages)
  <2>0. r.pc = "branch" /\ mode = "scavenger" /\ Quotable(t)
      BY <1>11 DEF ScavengerReady
  <2>a. stages \in SUBSET Stages
      BY DEF Stages, QuotePassed
  <2>1. stages \cap Main = {"ev_gate_pass", "quote_attempt", "quote_success",
                            "execution_ready_candidate", "execution_ready"}
      BY DEF Main, QuotePassed
  <2>2. "ready" \in Pcs \ {"rejected", "idle"}
      BY DEF Pcs
  <2>3. Move(t, stages, after)
      BY <1>4, <1>11, <2>2 DEF ScavengerReady
  <2> HIDE DEF stages
  <2>4. Edge(r.pc, "ready", stages \cap Main)
      BY <2>0, <2>1 DEF Edge, QuoteEdge
  <2>5. /\ q.pc = "ready" /\ q.modes = r.modes \cup {mode}
        /\ q.payload = r.payload /\ q.tx = r.tx /\ (cfg.allowSend => ~Over(q))
    <3>1. r.score \in Quotes[t] \cup {r.score}
        OBVIOUS
    <3> HIDE DEF r
    <3>2. ASSUME NEW S \in SUBSET Stages
          PROVE  LET u == Landed(Onward(r, "ready", r.score), S) IN
                 /\ u.pc = "ready" /\ u.modes = r.modes \cup {mode}
                 /\ u.payload = r.payload /\ u.tx = r.tx /\ (cfg.allowSend => ~Over(u))
        BY <1>3, <2>2, <3>1
    <3>3. QED
        BY <2>a, <3>2, Zenon
  <2>6. r.payload.profit > SafetyGasCost(cfg, r.tx.gasPrice, r.payload.gasLimit)
      BY <2>0, ScavengerQuoteProfit DEF Quotable
  <2> HIDE DEF q
  <2>7. PanicSound(q) /\ ReadySound(q)
      BY <2>0, <2>5, <2>6 DEF PanicSound, ReadySound
  <2>8. QED
      BY <1>2, <2>a, <2>2, <2>3, <2>4, <2>5, <2>7 DEF q
<1>12. CASE QuoteWithoutDiagnostic(t)
  <2> DEFINE stages == {"ev_gate_pass", "quote_attempt", "adaptive_quote_candidate"}
             after == Onward(r, "panicked", r.score)
             q == Landed(after, stages)
  <2>0. r.pc = "branch" /\ mode = "scavenger" /\ r.economic = None
      BY <1>12 DEF QuoteWithoutDiagnostic
  <2>1. stages \in SUBSET Stages /\ stages \cap Main = {"ev_gate_pass", "quote_attempt"}
      BY DEF Main, Stages
  <2>2. "panicked" \in Pcs
      BY DEF Pcs
  <2>3. Move(t, stages, after)
      BY <1>4, <1>12, <2>2 DEF QuoteWithoutDiagnostic
  <2> HIDE DEF stages
  <2>4. Edge(r.pc, "panicked", stages \cap Main)
      BY <2>0, <2>1 DEF Edge, QuoteEdge
  <2>5. /\ q.pc = "panicked" /\ q.modes = r.modes \cup {mode}
        /\ (cfg.allowSend => ~Over(q))
      BY <1>3, <2>1, <2>2
  <2>6. OtherMode(r)
      BY <1>0, <2>0 DEF Sound, PanicSound
  <2> HIDE DEF q
  <2>7. PanicSound(q) /\ ReadySound(q)
      BY <2>0, <2>5, <2>6 DEF PanicSound, ReadySound, OtherMode, PastFast
  <2>8. QED
      BY <1>2, <2>1, <2>2, <2>3, <2>4, <2>5, <2>7 DEF q
<1>13. CASE Branch(t)
  <2> DEFINE after == Onward(r, "ev", r.score)
             q == Landed(after, {})
  <2>0. r.pc = "branch" /\ mode # "scavenger"
      BY <1>13 DEF Branch
  <2>2. "ev" \in Pcs
      BY DEF Pcs
  <2>3. Move(t, {}, after)
      BY <1>4, <1>13, <2>2 DEF Branch
  <2>4. Edge(r.pc, "ev", {} \cap Main)
      BY <1>5, <2>0 DEF Edge, QuoteEdge
  <2>5. /\ q.pc = "ev" /\ q.modes = r.modes \cup {mode} /\ (cfg.allowSend => ~Over(q))
      BY <1>3, <2>2
  <2> HIDE DEF q
  <2>6. PanicSound(q) /\ ReadySound(q)
      BY <2>0, <2>5 DEF PanicSound, ReadySound, OtherMode
  <2>7. QED
      BY <1>2, <2>2, <2>3, <2>4, <2>5, <2>6 DEF q
<1>14. CASE EvGateStep(t)
  <2>0. r.pc = "ev" /\ OtherMode(r)
      BY <1>0, <1>14 DEF EvGateStep, Sound, ReadySound
  <2>1. CASE /\ EvGate(cfg, mode, r.payload, r.signal, r.tx.latency, r.minProfit).pass
             /\ Move(t, {"ev_gate_pass"}, [r EXCEPT !.pc = "quality"])
    <3> DEFINE after == Onward(r, "quality", r.score)
               q == Landed(after, {"ev_gate_pass"})
    <3>1. {"ev_gate_pass"} \in SUBSET Stages /\ {"ev_gate_pass"} \cap Main = {"ev_gate_pass"}
        BY DEF Main, Stages
    <3>2. "quality" \in Pcs
        BY DEF Pcs
    <3>3. Move(t, {"ev_gate_pass"}, after)
        BY <1>4, <2>1, <3>2
    <3>4. Edge(r.pc, "quality", {"ev_gate_pass"} \cap Main)
        BY <2>0, <3>1 DEF Edge, QuoteEdge
    <3>5. /\ q.pc = "quality" /\ q.modes = r.modes \cup {mode} /\ q.payload = r.payload
          /\ q.minProfit = r.minProfit /\ (cfg.allowSend => ~Over(q))
      <4>1. r.score \in Quotes[t] \cup {r.score} /\ {"ev_gate_pass"} \in SUBSET Stages
          BY <3>1
      <4>2. "quality" \in Pcs \ {"rejected", "idle"}
          BY <3>2
      <4> HIDE DEF r
      <4>3. QED
          BY <1>3, <4>1, <4>2, SMTT(30)
    <3>6. mode # "scavenger" => 100 * r.payload.profit >= r.minProfit
        BY <2>1, EvGateProfit
    <3> HIDE DEF q
    <3>7. OtherMode(q)
        BY <2>0, <3>5 DEF OtherMode
    <3>8. PanicSound(q) /\ ReadySound(q)
        BY <3>5, <3>6, <3>7 DEF PanicSound, ReadySound
    <3>9. QED
        BY <1>2, <3>1, <3>2, <3>3, <3>4, <3>5, <3>8 DEF q
  <2>2. CASE Reject(t, {"ev_gate_reject"})
    <3>1. Edge(r.pc, "rejected", {"ev_gate_reject"} \cap Main)
        BY <1>8, <2>0 DEF Edge, QuoteEdge
    <3>2. QED
        BY <1>8, <2>2, <3>1, RejectProgress
  <2>3. QED
      BY <1>14, <2>1, <2>2 DEF EvGateStep
<1>15. ASSUME NEW pc \in {"quote", "override"}, NEW score \in Quotes[t] \cup {r.score},
              NEW stages \in SUBSET Stages, r.pc \in {"quality", "quote"},
              Move(t, stages, Onward(r, pc, score)),
              Edge(r.pc, pc, stages \cap Main)
       PROVE  Progress(t)
  <2> DEFINE after == Onward(r, pc, score)
             q == Landed(after, stages)
  <2>1. pc \in Pcs \ {"rejected", "idle"}
      BY DEF Pcs
  <2>2. /\ q.pc = pc /\ q.modes = r.modes \cup {mode} /\ q.payload = r.payload
        /\ q.minProfit = r.minProfit /\ (cfg.allowSend => ~Over(q))
    <3>1. pc \in Pcs \ {"rejected", "idle"} /\ stages \in SUBSET Stages
          /\ score \in Quotes[t] \cup {r.score}
        BY <1>15, <2>1
    <3> HIDE DEF r
    <3>2. QED
        BY <1>3, <3>1, SMTT(30)
  <2>3. OtherMode(r) /\ ("scavenger" \notin r.modes => 100 * r.payload.profit >= r.minProfit)
      BY <1>0, <1>15 DEF Sound, ReadySound
  <2> HIDE DEF q
  <2>4. OtherMode(q)
      BY <2>2, <2>3 DEF OtherMode
  <2>5. PanicSound(q) /\ ReadySound(q)
      BY <2>2, <2>3, <2>4 DEF PanicSound, ReadySound
  <2>6. QED
      BY <1>2, <1>15, <2>1, <2>2, <2>5 DEF q
<1>16. CASE QualityGateStep(t)
  <2>0. r.pc = "quality"
      BY <1>16 DEF QualityGateStep
  <2>1. CASE Move(t, {}, [r EXCEPT !.pc = "quote"])
    <3>1. "quote" \in Pcs
        BY DEF Pcs
    <3>2. Move(t, {}, Onward(r, "quote", r.score))
        BY <1>4, <2>1, <3>1
    <3>3. Edge(r.pc, "quote", {} \cap Main)
        BY <1>5, <2>0 DEF Edge, QuoteEdge
    <3>4. QED
        BY <1>5, <1>15, <2>0, <3>2, <3>3
  <2>2. CASE Reject(t, {"execution_ready_candidate", "execution_ready_reject"})
    <3> DEFINE stages == {"execution_ready_candidate", "execution_ready_reject"}
    <3>1. stages \in SUBSET Stages /\ stages \cap Main = stages
        BY DEF Main, Stages
    <3>2. Edge(r.pc, "rejected", stages \cap Main)
        BY <2>0, <3>1 DEF Edge, QuoteEdge
    <3>3. QED
        BY <2>2, <3>1, <3>2, RejectProgress
  <2>3. QED
      BY <1>16, <2>1, <2>2 DEF QualityGateStep
<1>17. CASE AdaptiveQuote(t)
  <2> DEFINE stages == {"quote_attempt", "adaptive_quote_candidate"}
  <2>0. r.pc = "quote"
      BY <1>17 DEF AdaptiveQuote
  <2>1. stages \in SUBSET Stages /\ stages \cap Main = {"quote_attempt"}
      BY DEF Main, Stages
  <2>2. PICK q \in Quotes[t] : Move(t, stages, Onward(r, "override", q))
      BY <1>17 DEF AdaptiveQuote, Onward
  <2> HIDE DEF stages
  <2>3. Edge(r.pc, "override", stages \cap Main)
      BY <2>0, <2>1 DEF Edge, QuoteEdge
  <2>4. QED
      BY <1>15, <2>0, <2>1, <2>2, <2>3
<1>18. CASE QuoteReject(t)
  <2> DEFINE stages == QuoteFailed \ {"quote_attempt", "adaptive_quote_candidate"}
  <2>1. stages \in SUBSET Stages
        /\ stages \cap Main = {"quote_failure", "execution_ready_candidate",
                               "execution_ready_reject"}
      BY DEF Main, Stages, QuoteFailed
  <2>2. r.pc = "override" /\ Reject(t, stages)
      BY <1>18 DEF QuoteReject
  <2> HIDE DEF stages
  <2>3. Edge(r.pc, "rejected", stages \cap Main)
      BY <2>1, <2>2 DEF Edge, QuoteEdge
  <2>4. QED
      BY <2>1, <2>2, <2>3, RejectProgress
<1>19. CASE QuotePass(t)
  <2> DEFINE after == Onward(r, "ready", r.score)
             q == Landed(after, QuotePassed)
  <2>0. r.pc = "override" /\ OtherMode(r)
        /\ ("scavenger" \notin r.modes => 100 * r.payload.profit >= r.minProfit)
      BY <1>0, <1>19 DEF QuotePass, Sound, ReadySound
  <2>a. QuotePassed \in SUBSET Stages
      BY DEF Stages, QuotePassed
  <2>1. QuotePassed \cap Main = {"quote_success", "execution_ready_candidate",
                                 "execution_ready"}
      BY DEF Main, QuotePassed
  <2>2. "ready" \in Pcs
      BY DEF Pcs
  <2>3. Move(t, QuotePassed, after)
      BY <1>4, <1>19, <2>2 DEF QuotePass
  <2>4. Edge(r.pc, "ready", QuotePassed \cap Main)
      BY <2>0, <2>1 DEF Edge, QuoteEdge
  <2>5. /\ q.pc = "ready" /\ q.modes = r.modes \cup {mode} /\ q.payload = r.payload
        /\ q.minProfit = r.minProfit /\ q.score = r.score /\ (cfg.allowSend => ~Over(q))
      BY <1>3, <2>a, <2>2
  <2>6. mode # "scavenger" =>
          \/ r.score.execute
          \/ /\ mode = "aggressive"
             /\ 100 * r.score.evReal >= EffectiveMinProfitUsd(cfg, "aggressive")
      BY <1>19 DEF QuotePass, QuoteAccepted, OverridesQuote
  <2> HIDE DEF q
  <2>7. OtherMode(q)
      BY <2>0, <2>5 DEF OtherMode
  <2>8. PanicSound(q)
      BY <2>5 DEF PanicSound
  <2>9. ReadySound(q)
      BY <2>0, <2>5, <2>6, <2>7 DEF ReadySound
  <2>10. QED
      BY <1>2, <2>a, <2>2, <2>3, <2>4, <2>8, <2>9 DEF q
<1>20. QED
    BY <1>6, <1>7, <1>9, <1>10, <1>11, <1>12, <1>13, <1>14, <1>16, <1>17, <1>18, <1>19

LEMMA StepProgress ==
    ASSUME TaskInv, NEW t \in Tasks, Step(t)
    PROVE  Progress(t)
    BY LookupProgress, BuildProgress, QuoteProgress DEF Step

\* What a task changes besides its record and the funnel: the small-swap
\* budget on admission, the replay queue at the payload-to-quote check.
LEMMA StepLeaves ==
    ASSUME NEW t \in Tasks, Step(t)
    PROVE  /\ windows' = windows
           /\ small' = small \/ small' = small + 1
           /\ PayloadToQuote(t) \/ UNCHANGED replayVars
<1>1. CASE Admit(t)
    BY <1>1 DEF Admit, replayVars
<1>2. CASE PayloadToQuote(t)
    BY <1>2 DEF PayloadToQuote, smallVars
<1>3. CASE UNCHANGED <<smallVars, replayVars>>
    BY <1>3 DEF smallVars, replayVars
<1>4. QED
    BY <1>1, <1>2, <1>3 DEF Step, LookupMiss, LookupFound, DecodeReject, DecodePass, Throttle,
       BlockLookup, FastGate, AdaptivePreflight, PreflightOverride, BuildReject, BuildPass,
       EvmPreflight, ScavengerUneconomic, ScavengerInsane, ScavengerQuoteReject,
       ScavengerReady, QuoteWithoutDiagnostic, Branch, EvGateStep, QualityGateStep,
       AdaptiveQuote, QuoteReject, QuotePass

\* Move: one record changes, the stages are counted once each.
LEMMA MoveEffect ==
    ASSUME TypeOK, NEW t \in Tasks, NEW stages \in SUBSET Stages,
           NEW after \in TaskRecord(t), Move(t, stages, after)
    PROVE  /\ task' = [u \in Tasks |-> task'[u]]
           /\ task'[t] = Landed(after, stages)
           /\ \A u \in Tasks \ {t} : task'[u] = task[u]
           /\ funnel' \in [Stages -> Nat]
           /\ \A s \in Stages : funnel'[s] = funnel[s] + (IF s \in stages THEN 1 ELSE 0)
           /\ cfg' = cfg /\ mode' = mode /\ switches' = switches
<1>1. task' = [task EXCEPT ![t] = Landed(after, stages)] /\ task = [u \in Tasks |-> task[u]]
    BY DEF Move, Landed, TypeOK
<1>2. /\ task' = [u \in Tasks |-> task'[u]] /\ task'[t] = Landed(after, stages)
      /\ \A u \in Tasks \ {t} : task'[u] = task[u]
    BY <1>1
<1>3. funnel \in [Stages -> Nat] /\ funnel' = Count(stages)
    BY DEF TypeOK, Move
<1>4. /\ funnel' \in [Stages -> Nat]
      /\ \A s \in Stages : funnel'[s] = funnel[s] + (IF s \in stages THEN 1 ELSE 0)
    BY <1>3 DEF Count
<1>5. cfg' = cfg /\ mode' = mode /\ switches' = switches
    BY DEF Move, controlVars
<1>6. QED
    BY <1>2, <1>4, <1>5

\* Soundness of a record is about the record and the configuration only.
LEMMA SoundKept ==
    ASSUME NEW t \in Tasks, NEW r, task'[t] = r, cfg' = cfg, Sound(t, r)
    PROVE  Sound(t, task[t])'
    BY DEF Sound, HandSound, PanicSound, ReadySound, OtherMode, Over, CapPanics

LEMMA PoolsOf ==
    ASSUME NEW t \in Tasks, NEW p \in Payloads[t]
    PROVE  p.pool \in Pools
    BY DEF Pools

LEMMA MaybeEnqueueType ==
    ASSUME TaskInv, NEW t \in Tasks, task[t].payload \in Payloads[t],
           NEW economic, MaybeEnqueueReplay(t, economic)
    PROVE  /\ repeats' \in [Pools -> Nat] /\ replayQ' \in Seq(Tasks)
           /\ replaying' = replaying /\ persisted' = persisted /\ unstored' = unstored
<1>1. task[t].payload.pool \in Pools
    BY PoolsOf
<1>2. repeats \in [Pools -> Nat] /\ replayQ \in Seq(Tasks)
    BY DEF TaskInv, TypeOK
<1>3. Append(replayQ, t) \in Seq(Tasks)
    BY <1>2
<1>4. repeats' \in [Pools -> Nat]
    BY <1>1, <1>2 DEF MaybeEnqueueReplay
<1>5. QED
    BY <1>2, <1>3, <1>4 DEF MaybeEnqueueReplay

LEMMA TaskInvInit == Init => TaskInv
<1> SUFFICES ASSUME Init PROVE TaskInv
    OBVIOUS
<1>1. task = [t \in Tasks |-> Fresh] /\ Fresh.pc = "idle"
    BY DEF Init, Fresh
<1>2. TypeOK
    BY <1>1, FreshType DEF Init, TypeOK
<1>3. \A t \in Tasks : Sound(t, task[t])
    BY <1>1 DEF Sound, HandSound, PanicSound, ReadySound, PastFast, PastBuild
<1>4. QED
    BY <1>2, <1>3 DEF TaskInv

LEMMA TaskInvNext == TaskInv /\ [Next]_vars => TaskInv'
<1> SUFFICES ASSUME TaskInv, [Next]_vars PROVE TaskInv'
    OBVIOUS
<1> USE DEF controlVars, smallVars, replayVars
<1>1. TypeOK /\ \A t \in Tasks : Sound(t, task[t])
    BY DEF TaskInv
<1>2. ASSUME cfg' = cfg, task' = task
      PROVE  \A t \in Tasks : Sound(t, task[t])'
    BY <1>1, <1>2, SoundKept
<1>3. ASSUME NEW t \in Tasks, Step(t) PROVE TaskInv'
  <2>1. PICK stages \in SUBSET Stages, after \in TaskRecord(t) :
            Move(t, stages, after) /\ Sound(t, Landed(after, stages))
      BY <1>3, StepProgress DEF Progress
  <2>2. mode \in Modes
      BY <1>1 DEF TypeOK
  <2>3. Landed(after, stages) \in TaskRecord(t)
      BY <2>2, LandedFields
  <2>4. /\ task' = [u \in Tasks |-> task'[u]]
        /\ task'[t] = Landed(after, stages)
        /\ \A u \in Tasks \ {t} : task'[u] = task[u]
        /\ funnel' \in [Stages -> Nat]
        /\ cfg' = cfg /\ mode' = mode /\ switches' = switches
      BY <1>1, <2>1, MoveEffect
  <2>5. \A u \in Tasks : task'[u] \in TaskRecord(u)
      BY <1>1, <2>3, <2>4 DEF TypeOK
  <2>6. \A u \in Tasks : Sound(u, task[u])'
    <3>1. Sound(t, task[t])'
        BY <2>1, <2>4, SoundKept
    <3>2. ASSUME NEW u \in Tasks, u # t PROVE Sound(u, task[u])'
        BY <1>1, <2>4, <3>2, SoundKept
    <3>3. QED
        BY <3>1, <3>2
  <2>7. /\ repeats' \in [Pools -> Nat] /\ replayQ' \in Seq(Tasks)
        /\ replaying' \in Tasks \cup {None} /\ persisted' \subseteq Tasks /\ unstored' \subseteq Tasks
    <3>1. CASE PayloadToQuote(t)
      <4>1. task[t].payload \in Payloads[t]
          BY <1>1, <3>1 DEF PayloadToQuote, Sound, HandSound, PastBuild
      <4>2. PICK economic : MaybeEnqueueReplay(t, economic)
          BY <3>1 DEF PayloadToQuote
      <4>3. QED
          BY <1>1, <4>1, <4>2, MaybeEnqueueType DEF TypeOK
    <3>2. CASE UNCHANGED replayVars
        BY <1>1, <3>2 DEF TypeOK
    <3>3. QED
        BY <1>3, <3>1, <3>2, StepLeaves
  <2>8. small' \in Nat /\ windows' \in Nat
      BY <1>1, <1>3, StepLeaves DEF TypeOK
  <2>9. TypeOK'
      BY <1>1, <2>4, <2>5, <2>7, <2>8 DEF TypeOK
  <2>10. QED
      BY <2>6, <2>9 DEF TaskInv
<1>4. CASE SetOpportunityMode
    BY <1>1, <1>2, <1>4 DEF SetOpportunityMode, TaskInv, TypeOK
<1>5. CASE SmallWindow
    BY <1>1, <1>2, <1>5 DEF SmallWindow, TaskInv, TypeOK
<1>6. CASE ReplayRecv
  <2>1. replayQ \in Seq(Tasks) /\ replayQ # <<>>
      BY <1>1, <1>6 DEF ReplayRecv, TypeOK
  <2>2. Head(replayQ) \in Tasks /\ Tail(replayQ) \in Seq(Tasks)
      BY <2>1
  <2>3. QED
      BY <1>1, <1>2, <1>6, <2>2 DEF ReplayRecv, TaskInv, TypeOK
<1>7. CASE ReplayPersist
    BY <1>1, <1>2, <1>7 DEF ReplayPersist, TaskInv, TypeOK
<1>8. CASE UNCHANGED vars
    BY <1>1, <1>2, <1>8 DEF vars, TaskInv, TypeOK
<1>9. QED
    BY <1>3, <1>4, <1>5, <1>6, <1>7, <1>8 DEF Next

LEMMA TaskInvHolds == Spec => []TaskInv
    BY TaskInvInit, TaskInvNext, PTL DEF Spec

LEMMA ModesFinite == IsFiniteSet(Modes)
<1>1. IsFiniteSet({"conservative"} \cup {"aggressive"})
    BY FS_AddElement, FS_Singleton
<1>2. IsFiniteSet(({"conservative"} \cup {"aggressive"}) \cup {"scavenger"})
    BY <1>1, FS_AddElement
<1>3. ({"conservative"} \cup {"aggressive"}) \cup {"scavenger"} = Modes
    BY DEF Modes
<1>4. QED
    BY <1>2, <1>3

\* Two modes are more than one.
LEMMA TwoModes ==
    ASSUME NEW S \in SUBSET Modes, NEW a \in S, NEW b \in S, a # b
    PROVE  Cardinality(S) > 1
<1>1. IsFiniteSet(S) /\ Cardinality(S) \in Nat
    BY ModesFinite, FS_Subset, FS_CardinalityType
<1>2. Cardinality(S) # 0 /\ Cardinality(S) # 1
  <2>1. S # {} /\ ~\E x : S = {x}
      OBVIOUS
  <2>2. QED
      BY <1>1, <2>1, FS_EmptySet, FS_Singleton
<1>3. QED
    BY <1>1, <1>2

\* Every task's record is of its type, and the funnel, the small-swap budget
\* and the replay queue hold what they should.
THEOREM EvaluationTypes == Spec => []TypeOK
<1>1. TaskInv => TypeOK
    BY DEF TaskInv
<1>2. QED
    BY <1>1, TaskInvHolds, PTL

\* With a gas cap that the clamp survives, process_evaluation_task panics only
\* if the dashboard switches to scavenger mode under a candidate.
THEOREM PanicIsRace == Spec => []PanicOnlyByRacedSwitch
<1>1. TaskInv => PanicOnlyByRacedSwitch
  <2> SUFFICES ASSUME TaskInv, NEW t \in Tasks, task[t].pc = "panicked", ~CapPanics
               PROVE  "scavenger" \in task[t].modes /\ Cardinality(task[t].modes) > 1
      BY DEF PanicOnlyByRacedSwitch
  <2>1. task[t].modes \in SUBSET Modes
      BY DEF TaskInv, TypeOK, TaskRecord
  <2>2. "scavenger" \in task[t].modes /\ \E m \in task[t].modes : m # "scavenger"
      BY DEF TaskInv, Sound, PanicSound, OtherMode
  <2>3. QED
      BY <2>1, <2>2, TwoModes
<1>2. QED
    BY <1>1, TaskInvHolds, PTL

\* What process_evaluation_task makes ready under one mode has the profit for
\* its gas, and an engine that sends has it below the adaptive gas cap.
THEOREM ReadyHasProfit == Spec => []ReadyIsJustified
<1>1. TaskInv => ShadowBypassNeverSends
  <2>1. ASSUME TaskInv, NEW t \in Tasks, task[t].pc = "ready", cfg.allowSend
        PROVE  ~AboveGasCap(t)
      BY <2>1, OverIsAboveGasCap DEF TaskInv, Sound, ReadySound, PastFast
  <2>2. QED
      BY <2>1 DEF ShadowBypassNeverSends
<1>2. TaskInv => SingleModeReadyPaysForGas
  <2> SUFFICES ASSUME TaskInv, NEW t \in Tasks, task[t].pc = "ready",
                      Cardinality(task[t].modes) = 1
               PROVE  IF task[t].modes = {"scavenger"}
                      THEN task[t].payload.profit >
                           SafetyGasCost(cfg, task[t].tx.gasPrice, task[t].payload.gasLimit)
                      ELSE /\ 100 * task[t].payload.profit >= task[t].minProfit
                           /\ \/ task[t].score.execute
                              \/ /\ task[t].modes = {"aggressive"}
                                 /\ 100 * task[t].score.evReal >=
                                        EffectiveMinProfitUsd(cfg, "aggressive")
      BY DEF SingleModeReadyPaysForGas
  <2>1. task[t].modes \in SUBSET Modes /\ ReadySound(task[t])
      BY DEF TaskInv, TypeOK, TaskRecord, Sound
  <2>2. IsFiniteSet(task[t].modes)
      BY <2>1, ModesFinite, FS_Subset
  <2>3. PICK m : task[t].modes = {m}
      BY <2>2, FS_Singleton
  <2>4. CASE m = "scavenger"
      BY <2>1, <2>3, <2>4 DEF ReadySound, OtherMode
  <2>5. CASE m # "scavenger"
    <3>1. "scavenger" \notin task[t].modes /\ task[t].modes # {"scavenger"}
        BY <2>3, <2>5
    <3>2. "aggressive" \in task[t].modes => task[t].modes = {"aggressive"}
        BY <2>3
    <3>3. QED
        BY <2>1, <3>1, <3>2 DEF ReadySound
  <2>6. QED
      BY <2>4, <2>5
<1>3. TaskInv => ReadyIsJustified
    BY <1>1, <1>2 DEF ReadyIsJustified
<1>4. QED
    BY <1>3, TaskInvHolds, PTL

-----------------------------------------------------------------------------
(* The funnel.  The balance is first a fact about one candidate, with zeros *)
(* and ones, and then added up over the candidates.                         *)
In(s, c) == IF s \in c THEN 1 ELSE 0
On(pcs, pc) == IF pc \in pcs THEN 1 ELSE 0
Both(c) == IF "decode_pass" \in c /\ "decode_reject" \in c THEN 1 ELSE 0
Silent(pc, c) ==
    IF /\ pc = "rejected" /\ "ev_validation_pass" \in c
       /\ "shadow_research_reject" \notin c /\ "ev_gate_pass" \notin c
       /\ "ev_gate_reject" \notin c
    THEN 1 ELSE 0
LostEarly(pc, c) == IF pc = "panicked" /\ "fast_preflight_pass" \notin c THEN 1 ELSE 0
LostLate(pc, c) == IF pc = "panicked" /\ "quote_attempt" \in c THEN 1 ELSE 0

LookupBalance(pc, c) ==
    /\ pc = "idle" => \A s \in Main : s \notin c
    /\ In("tx_lookup_success", c) + In("tx_lookup_skipped_full_pending", c) <= 1
    /\ In("tx_lookup_success", c) + In("tx_lookup_skipped_full_pending", c) + Both(c) =
          In("decode_pass", c) + In("decode_reject", c) + On({"decode"}, pc)
    /\ In("decode_pass", c) =
          In("small_scavenger_throttled", c) + In("block_lookup_success", c)
          + In("block_lookup_fail", c) + Both(c) + On({"lane", "block"}, pc)

BuildBalance(pc, c) ==
    /\ In("block_lookup_success", c) =
          In("fast_preflight_reject", c) + In("fast_preflight_pass", c) + On({"fast"}, pc)
          + LostEarly(pc, c)
    /\ In("fast_preflight_pass", c) =
          In("adaptive_preflight_reject", c) + In("adaptive_preflight_pass", c)
          + On({"adaptive", "preOverride"}, pc)
    /\ In("adaptive_preflight_pass", c) =
          In("payload_reject", c) + In("payload_built", c) + On({"build"}, pc)
    /\ In("payload_built", c) = In("ev_validation_failed", c) + In("ev_validation_pass", c)
    /\ In("ev_validation_pass", c) =
          In("payload_to_quote_reject", c) + In("payload_to_quote_pass", c)
          + On({"economic"}, pc)
    /\ In("replay_candidate", c) <=
          In("payload_to_quote_reject", c) + In("payload_to_quote_pass", c)

QuoteBalance(pc, c) ==
    /\ In("payload_to_quote_reject", c) + In("payload_to_quote_pass", c)
       + In("ev_validation_failed", c) =
          In("shadow_research_reject", c) + In("ev_gate_pass", c) + In("ev_gate_reject", c)
          + Silent(pc, c) + On({"evm", "branch", "ev"}, pc)
    /\ In("ev_validation_failed", c) <= In("ev_gate_reject", c)
    /\ In("quote_attempt", c) =
          In("quote_failure", c) + In("quote_success", c) + On({"override"}, pc)
          + LostLate(pc, c)
    /\ In("quote_failure", c) + In("quote_success", c) <= In("execution_ready_candidate", c)
    /\ In("ev_gate_pass", c) =
          In("execution_ready_candidate", c) + On({"quality", "quote", "override"}, pc)
          + LostLate(pc, c)
    /\ In("execution_ready_candidate", c) =
          In("execution_ready_reject", c) + In("execution_ready", c)
    /\ In("execution_ready", c) = On({"ready"}, pc)

Balance(pc, c) == LookupBalance(pc, c) /\ BuildBalance(pc, c) /\ QuoteBalance(pc, c)

\* An edge keeps the balance, and counts no stage that the candidate has
\* been counted for.
LEMMA EdgeBalance ==
    ASSUME NEW from, NEW to, NEW S, NEW c, NEW d,
           Balance(from, c), Edge(from, to, S), S \subseteq Main,
           \A s \in Main : s \in d <=> s \in c \/ s \in S
    PROVE  Balance(to, d) /\ \A s \in S : s \notin c
<1> USE DEF Balance, LookupBalance, BuildBalance, QuoteBalance, In, On, Both, Silent,
            LostEarly, LostLate, Main
<1>1. CASE LookupEdge(from, to, S)
  <2>1. CASE from = "idle"
      BY <1>1, <2>1 DEF LookupEdge
  <2>2. CASE from = "decode"
      BY <1>1, <2>2 DEF LookupEdge
  <2>3. CASE from = "lane"
      BY <1>1, <2>3 DEF LookupEdge
  <2>4. CASE from = "block"
      BY <1>1, <2>4 DEF LookupEdge
  <2>5. QED
      BY <1>1, <2>1, <2>2, <2>3, <2>4 DEF LookupEdge
<1>2. CASE BuildEdge(from, to, S)
  <2>1. CASE from = "fast"
      BY <1>2, <2>1 DEF BuildEdge
  <2>2. CASE from = "adaptive"
      BY <1>2, <2>2 DEF BuildEdge
  <2>3. CASE from = "preOverride"
      BY <1>2, <2>3 DEF BuildEdge
  <2>4. CASE from = "build"
      BY <1>2, <2>4 DEF BuildEdge
  <2>5. CASE from = "economic"
      BY <1>2, <2>5 DEF BuildEdge
  <2>6. QED
      BY <1>2, <2>1, <2>2, <2>3, <2>4, <2>5 DEF BuildEdge
<1>3. CASE QuoteEdge(from, to, S)
  <2>1. CASE from = "evm"
    <3>1. S = {} /\ (to = "branch" \/ to = "rejected")
        BY <1>3, <2>1 DEF QuoteEdge
    <3>2. CASE to = "branch"
        BY <2>1, <3>1, <3>2
    <3>3. CASE to = "rejected"
        BY <2>1, <3>1, <3>3
    <3>4. QED
        BY <3>1, <3>2, <3>3
  <2>2. CASE from = "branch"
      BY <1>3, <2>2 DEF QuoteEdge
  <2>3. CASE from = "ev"
      BY <1>3, <2>3 DEF QuoteEdge
  <2>4. CASE from = "quality"
      BY <1>3, <2>4 DEF QuoteEdge
  <2>5. CASE from = "quote"
      BY <1>3, <2>5 DEF QuoteEdge
  <2>6. CASE from = "override"
      BY <1>3, <2>6 DEF QuoteEdge
  <2>7. QED
      BY <1>3, <2>1, <2>2, <2>3, <2>4, <2>5, <2>6 DEF QuoteEdge
<1>4. QED
    BY <1>1, <1>2, <1>3 DEF Edge

CountedFor(s) == {t \in Tasks : s \in task[t].counted}

\* The funnel counts every candidate once for every stage it has passed.
FunnelInv ==
    /\ TaskInv
    /\ \A t \in Tasks : Balance(task[t].pc, task[t].counted)
    /\ \A s \in Main : funnel[s] = Cardinality(CountedFor(s))

LEMMA MainIsStages == Main \subseteq Stages
    BY DEF Main, Stages

LEMMA CountedFinite ==
    ASSUME NEW S \in SUBSET Tasks
    PROVE  IsFiniteSet(S) /\ Cardinality(S) \in Nat
    BY EvaluationAssumption, FS_Subset, FS_CardinalityType

LEMMA StepFunnel ==
    ASSUME FunnelInv, NEW t \in Tasks, Step(t)
    PROVE  /\ \A u \in Tasks : Balance(task[u].pc, task[u].counted)'
           /\ \A s \in Main : funnel'[s] = Cardinality(CountedFor(s)')
           /\ \E S \in SUBSET Main :
                 /\ Edge(task[t].pc, task'[t].pc, S)
                 /\ \A s \in S : s \notin task[t].counted
                 /\ \A s \in Main : s \in task'[t].counted <=> s \in task[t].counted \/ s \in S
           /\ \A u \in Tasks \ {t} : task'[u] = task[u]
<1>1. TaskInv /\ TypeOK
    BY DEF FunnelInv, TaskInv
<1>2. PICK stages \in SUBSET Stages, after \in TaskRecord(t) :
        /\ Move(t, stages, after) /\ after.counted = task[t].counted
        /\ Edge(task[t].pc, after.pc, stages \cap Main)
    BY <1>1, StepProgress DEF Progress
<1>3. mode \in Modes /\ funnel \in [Stages -> Nat]
    BY <1>1 DEF TypeOK
<1>4. /\ Landed(after, stages).pc = after.pc
      /\ Landed(after, stages).counted = task[t].counted \cup stages
    BY <1>2, <1>3, LandedFields
<1>5. /\ task'[t] = Landed(after, stages)
      /\ \A u \in Tasks \ {t} : task'[u] = task[u]
      /\ \A s \in Stages : funnel'[s] = funnel[s] + (IF s \in stages THEN 1 ELSE 0)
    BY <1>1, <1>2, MoveEffect
<1> DEFINE S == stages \cap Main
<1>6. /\ task'[t].pc = after.pc /\ task'[t].counted = task[t].counted \cup stages
    BY <1>4, <1>5
<1>7. /\ S \subseteq Main /\ Edge(task[t].pc, task'[t].pc, S)
      /\ \A s \in Main : s \in task'[t].counted <=> s \in task[t].counted \/ s \in S
    BY <1>2, <1>6
<1>8. Balance(task[t].pc, task[t].counted)
    BY DEF FunnelInv
<1> HIDE DEF S
<1>9. Balance(task'[t].pc, task'[t].counted) /\ \A s \in S : s \notin task[t].counted
  <2> DEFINE from == task[t].pc
             to == task'[t].pc
             c == task[t].counted
             d == task'[t].counted
  <2>1. /\ S \subseteq Main /\ Edge(from, to, S) /\ Balance(from, c)
        /\ \A s \in Main : s \in d <=> s \in c \/ s \in S
      BY <1>7, <1>8
  <2> HIDE DEF from, to, c, d
  <2>2. Balance(to, d) /\ \A s \in S : s \notin c
      BY <2>1, EdgeBalance, Zenon
  <2>3. QED
      BY <2>2 DEF to, c, d
<1>10. \A u \in Tasks : Balance(task'[u].pc, task'[u].counted)
    BY <1>5, <1>9 DEF FunnelInv
<1>11. \A u \in Tasks : Balance(task[u].pc, task[u].counted)'
    BY <1>10 DEF Balance, LookupBalance, BuildBalance, QuoteBalance, In, On, Both, Silent,
                 LostEarly, LostLate
<1>12. ASSUME NEW s \in Main
       PROVE  funnel'[s] = Cardinality({u \in Tasks : s \in task'[u].counted})
  <2> DEFINE old == {u \in Tasks : s \in task[u].counted}
             new == {u \in Tasks : s \in task'[u].counted}
  <2>1. funnel[s] = Cardinality(old) /\ s \in Stages
      BY <1>12, MainIsStages DEF FunnelInv, CountedFor
  <2>2. IsFiniteSet(old)
      BY CountedFinite
  <2>3. CASE s \in stages
    <3>1. t \notin old
        BY <1>9, <2>3, <1>12 DEF S
    <3>2. new = old \cup {t}
        BY <1>5, <1>6, <2>3
    <3>3. Cardinality(new) = Cardinality(old) + 1
        BY <2>2, <3>1, <3>2, FS_AddElement
    <3>4. funnel'[s] = funnel[s] + 1
        BY <1>5, <2>1, <2>3
    <3> HIDE DEF old, new
    <3>5. funnel'[s] = Cardinality(new)
        BY <2>1, <3>3, <3>4
    <3>6. QED
        BY <3>5 DEF new
  <2>4. CASE s \notin stages
    <3>1. new = old
        BY <1>5, <1>6, <2>4
    <3>2. funnel[s] \in Nat
        BY <1>3, <2>1
    <3>3. funnel'[s] = funnel[s]
        BY <1>5, <2>1, <2>4, <3>2
    <3> HIDE DEF old, new
    <3>4. funnel'[s] = Cardinality(new)
        BY <2>1, <3>1, <3>3
    <3>5. QED
        BY <3>4 DEF new
  <2>5. QED
      BY <2>3, <2>4
<1>13. \A s \in Main : funnel'[s] = Cardinality(CountedFor(s)')
    BY <1>12 DEF CountedFor
<1>14. QED
    BY <1>5, <1>7, <1>9, <1>11, <1>13

LEMMA FunnelInit == Init => FunnelInv
<1> SUFFICES ASSUME Init PROVE FunnelInv
    OBVIOUS
<1>1. task = [t \in Tasks |-> Fresh] /\ Fresh.pc = "idle" /\ Fresh.counted = {}
    BY DEF Init, Fresh
<1>2. Balance("idle", {})
    BY DEF Balance, LookupBalance, BuildBalance, QuoteBalance, In, On, Both, Silent,
           LostEarly, LostLate
<1>3. \A t \in Tasks : Balance(task[t].pc, task[t].counted)
    BY <1>1, <1>2
<1>4. \A s \in Main : funnel[s] = Cardinality(CountedFor(s))
  <2>1. \A s \in Main : CountedFor(s) = {} /\ funnel[s] = 0
      BY <1>1, MainIsStages DEF CountedFor, Init
  <2>2. QED
      BY <2>1, FS_EmptySet
<1>5. QED
    BY <1>3, <1>4, TaskInvInit DEF FunnelInv

LEMMA FunnelNext == FunnelInv /\ [Next]_vars => FunnelInv'
<1> SUFFICES ASSUME FunnelInv, [Next]_vars PROVE FunnelInv'
    OBVIOUS
<1>1. TaskInv'
    BY TaskInvNext DEF FunnelInv
<1>2. ASSUME NEW t \in Tasks, Step(t) PROVE FunnelInv'
    BY <1>1, <1>2, StepFunnel DEF FunnelInv
<1>3. ASSUME UNCHANGED <<task, funnel>> PROVE FunnelInv'
  <2>1. \A t \in Tasks : Balance(task[t].pc, task[t].counted)'
      BY <1>3 DEF FunnelInv, Balance, LookupBalance, BuildBalance, QuoteBalance, In, On, Both,
                  Silent, LostEarly, LostLate
  <2>2. \A s \in Main : (funnel[s] = Cardinality(CountedFor(s)))'
      BY <1>3 DEF FunnelInv, CountedFor
  <2>3. QED
      BY <1>1, <2>1, <2>2 DEF FunnelInv
<1>4. QED
    BY <1>2, <1>3 DEF Next, SetOpportunityMode, SmallWindow, ReplayRecv, ReplayPersist, vars

LEMMA FunnelInvHolds == Spec => []FunnelInv
    BY FunnelInit, FunnelNext, PTL DEF Spec

-----------------------------------------------------------------------------
(* Adding up: a set of candidates that splits into disjoint parts.          *)
LEMMA Split2 ==
    ASSUME NEW X \in SUBSET Tasks, NEW A \in SUBSET Tasks, NEW B \in SUBSET Tasks,
           \A t \in Tasks : In(t, X) = In(t, A) + In(t, B)
    PROVE  Cardinality(X) = Cardinality(A) + Cardinality(B)
<1>1. X = A \cup B /\ A \cap B = {}
    BY DEF In
<1>2. /\ IsFiniteSet(A) /\ IsFiniteSet(B)
      /\ Cardinality(A) \in Nat /\ Cardinality(B) \in Nat
    BY CountedFinite
<1>3. Cardinality(X) = Cardinality(A) + Cardinality(B) - Cardinality({})
    BY <1>1, <1>2, FS_Union
<1>4. QED
    BY <1>2, <1>3, FS_EmptySet

LEMMA Split3 ==
    ASSUME NEW X \in SUBSET Tasks, NEW A \in SUBSET Tasks, NEW B \in SUBSET Tasks,
           NEW C \in SUBSET Tasks,
           \A t \in Tasks : In(t, X) = In(t, A) + In(t, B) + In(t, C)
    PROVE  Cardinality(X) =
             Cardinality(A) + Cardinality(B) + Cardinality(C)
<1> DEFINE rest == B \cup C
<1>1. rest \in SUBSET Tasks
    OBVIOUS
<1>2. \A t \in Tasks : In(t, rest) = In(t, B) + In(t, C)
    BY DEF In
<1>3. \A t \in Tasks : In(t, X) = In(t, A) + In(t, rest)
    BY DEF In
<1> HIDE DEF rest
<1>4. Cardinality(X) = Cardinality(A) + Cardinality(rest)
    BY <1>1, <1>3, Split2
<1>5. Cardinality(rest) = Cardinality(B) + Cardinality(C)
    BY <1>1, <1>2, Split2
<1>6. Cardinality(A) \in Nat /\ Cardinality(B) \in Nat /\ Cardinality(C) \in Nat
    BY CountedFinite
<1>7. QED
    BY <1>4, <1>5, <1>6

LEMMA Split4 ==
    ASSUME NEW X \in SUBSET Tasks, NEW A \in SUBSET Tasks, NEW B \in SUBSET Tasks,
           NEW C \in SUBSET Tasks, NEW D \in SUBSET Tasks,
           \A t \in Tasks : In(t, X) = In(t, A) + In(t, B) + In(t, C) + In(t, D)
    PROVE  Cardinality(X) =
             Cardinality(A) + Cardinality(B) + Cardinality(C) + Cardinality(D)
<1> DEFINE rest == C \cup D
<1>1. rest \in SUBSET Tasks
    OBVIOUS
<1>2. \A t \in Tasks : In(t, rest) = In(t, C) + In(t, D)
    BY DEF In
<1>3. \A t \in Tasks : In(t, X) = In(t, A) + In(t, B) + In(t, rest)
    BY DEF In
<1> HIDE DEF rest
<1>4. Cardinality(X) = Cardinality(A) + Cardinality(B) + Cardinality(rest)
    BY <1>1, <1>3, Split3
<1>5. Cardinality(rest) = Cardinality(C) + Cardinality(D)
    BY <1>1, <1>2, Split2
<1>6. /\ Cardinality(A) \in Nat /\ Cardinality(B) \in Nat /\ Cardinality(C) \in Nat
      /\ Cardinality(D) \in Nat
    BY CountedFinite
<1>7. QED
    BY <1>4, <1>5, <1>6

LEMMA Split5 ==
    ASSUME NEW X \in SUBSET Tasks, NEW A \in SUBSET Tasks, NEW B \in SUBSET Tasks,
           NEW C \in SUBSET Tasks, NEW D \in SUBSET Tasks, NEW E \in SUBSET Tasks,
           \A t \in Tasks : In(t, X) = In(t, A) + In(t, B) + In(t, C) + In(t, D) + In(t, E)
    PROVE  Cardinality(X) =
             Cardinality(A) + Cardinality(B) + Cardinality(C) + Cardinality(D) + Cardinality(E)
<1> DEFINE rest == D \cup E
<1>1. rest \in SUBSET Tasks
    OBVIOUS
<1>2. \A t \in Tasks : In(t, rest) = In(t, D) + In(t, E)
    BY DEF In
<1>3. \A t \in Tasks : In(t, X) = In(t, A) + In(t, B) + In(t, C) + In(t, rest)
    BY DEF In
<1> HIDE DEF rest
<1>4. Cardinality(X) = Cardinality(A) + Cardinality(B) + Cardinality(C) + Cardinality(rest)
    BY <1>1, <1>3, Split4
<1>5. Cardinality(rest) = Cardinality(D) + Cardinality(E)
    BY <1>1, <1>2, Split2
<1>6. /\ Cardinality(A) \in Nat /\ Cardinality(B) \in Nat /\ Cardinality(C) \in Nat
      /\ Cardinality(D) \in Nat /\ Cardinality(E) \in Nat
    BY CountedFinite
<1>7. QED
    BY <1>4, <1>5, <1>6

-----------------------------------------------------------------------------
(* The replay queue: a candidate counted for it is in the channel, in the   *)
(* worker's hand or through it, stored or not, and in one place only.       *)
QueueSet == {replayQ[i] : i \in 1..Len(replayQ)}
Distinct == \A i, j \in 1..Len(replayQ) : replayQ[i] = replayQ[j] => i = j
Held == {replaying} \ {None}
Through == persisted \cup unstored

ReplayInv ==
    /\ Distinct
    /\ CountedFor("replay_candidate") = QueueSet \cup Held \cup Through
    /\ QueueSet \cap Held = {} /\ QueueSet \cap Through = {} /\ Held \cap Through = {}
    /\ persisted \cap unstored = {}

LEMMA QueueLength ==
    ASSUME TypeOK, Distinct
    PROVE  Cardinality(QueueSet) = Len(replayQ)
<1> DEFINE n == Len(replayQ)
           f == [i \in 1..n |-> replayQ[i]]
<1>1. n \in Nat
    BY DEF TypeOK
<1>2. f \in Bijection(1..n, QueueSet)
    BY DEF Bijection, Injection, IsInjective, Surjection, QueueSet, Distinct
<1>3. ExistsBijection(1..n, QueueSet)
    BY <1>2 DEF ExistsBijection
<1>4. QED
    BY <1>1, <1>3, FS_CountingElements

\* The payload-to-quote check counts a replay candidate exactly if it queues
\* it.
LEMMA QueuedIsCounted ==
    ASSUME FunnelInv, NEW t \in Tasks, PayloadToQuote(t)
    PROVE  /\ "replay_candidate" \notin task[t].counted
           /\ \/ "replay_candidate" \in task'[t].counted /\ replayQ' = Append(replayQ, t)
              \/ "replay_candidate" \notin task'[t].counted /\ replayQ' = replayQ
           /\ replaying' = replaying /\ persisted' = persisted /\ unstored' = unstored
<1>1. task[t].pc = "economic" /\ task[t] \in TaskRecord(t) /\ mode \in Modes /\ TypeOK
      /\ cfg \in Configs
    BY DEF PayloadToQuote, FunnelInv, TaskInv, TypeOK
<1>2. "replay_candidate" \notin task[t].counted
  <2>1. BuildBalance(task[t].pc, task[t].counted)
      BY DEF FunnelInv, Balance
  <2>2. QED
      BY <1>1, <2>1 DEF BuildBalance, In, On
<1> DEFINE r == task[t]
           edge == IF mode = "scavenger"
                   THEN EconomicEdge(cfg, r.payload, r.tx.gasPrice) ELSE None
           verdict == edge # None => edge.pass
           positive == verdict /\ r.payload.profit > 0 /\ ~r.payload.noTicks
           s == IF verdict THEN "payload_to_quote_pass" ELSE "payload_to_quote_reject"
           after == [r EXCEPT !.pc = "evm", !.economic = edge]
           stages == {s} \cup PoolShadow(t, positive) \cup ReplayStages(t, verdict)
<1>3. Move(t, stages, after) /\ MaybeEnqueueReplay(t, verdict)
    BY DEF PayloadToQuote
<1>4. s # "replay_candidate"
    OBVIOUS
<1> HIDE DEF s, positive, verdict, edge
<1>5. \A signal, S : IfPartial(signal, S) \in {S, {}}
    BY DEF IfPartial
<1>6. "replay_candidate" \notin PoolShadow(t, positive)
    BY <1>5 DEF PoolShadow
<1>7. "replay_candidate" \in ReplayStages(t, verdict) <=> Queued(t, verdict)
    BY <1>5 DEF ReplayStages
<1>8. "replay_candidate" \in stages <=> Queued(t, verdict)
    BY <1>4, <1>6, <1>7
<1> HIDE DEF stages
<1>9. after.counted = r.counted /\ DOMAIN after = DOMAIN r /\ "counted" \in DOMAIN r
    BY <1>1 DEF TaskRecord
<1> HIDE DEF after, r
<1>10. task' = [task EXCEPT ![t] = [after EXCEPT !.counted = @ \cup stages,
                                                 !.modes = @ \cup {mode}]]
    BY <1>3 DEF Move
<1>11. [after EXCEPT !.counted = @ \cup stages, !.modes = @ \cup {mode}].counted =
          r.counted \cup stages
    BY <1>9
<1>12. task = [u \in Tasks |-> task[u]]
    BY <1>1 DEF TypeOK
<1>13. task'[t].counted = r.counted \cup stages
    BY <1>10, <1>11, <1>12
<1>14. "replay_candidate" \in task'[t].counted <=> Queued(t, verdict)
    BY <1>2, <1>8, <1>13 DEF r
<1>15. QED
    BY <1>2, <1>3, <1>14 DEF MaybeEnqueueReplay

LEMMA ReplayInit == Init => ReplayInv
<1> SUFFICES ASSUME Init PROVE ReplayInv
    OBVIOUS
<1>1. replayQ = <<>> /\ replaying = None /\ persisted = {} /\ unstored = {}
    BY DEF Init
<1>2. QueueSet = {} /\ Held = {} /\ Through = {} /\ Distinct
    BY <1>1 DEF QueueSet, Held, Through, Distinct
<1>3. CountedFor("replay_candidate") = {}
    BY DEF Init, CountedFor, Fresh
<1>4. QED
    BY <1>1, <1>2, <1>3 DEF ReplayInv

\* Sending to the channel and receiving from it.
LEMMA QueueAppend ==
    ASSUME TypeOK, NEW t \in Tasks, Distinct, t \notin QueueSet,
           replayQ' = Append(replayQ, t)
    PROVE  Distinct' /\ QueueSet' = QueueSet \cup {t}
<1> DEFINE n == Len(replayQ)
<1>1. replayQ \in Seq(Tasks) /\ n \in Nat
    BY DEF TypeOK
<1>2. /\ Len(replayQ') = n + 1
      /\ \A i \in 1..n : replayQ'[i] = replayQ[i]
      /\ replayQ'[n + 1] = t
    BY <1>1
<1>3. \A i \in 1..n : replayQ[i] # t
    BY DEF QueueSet
<1> HIDE DEF n
<1>4. 1..(n + 1) = (1..n) \cup {n + 1}
    BY <1>1
<1>5. \A i, j \in 1..n : replayQ[i] = replayQ[j] => i = j
    BY DEF Distinct, n
<1>6. \A i, j \in 1..(n + 1) : replayQ'[i] = replayQ'[j] => i = j
    BY <1>2, <1>3, <1>4, <1>5
<1>7. {replayQ'[i] : i \in 1..(n + 1)} = {replayQ[i] : i \in 1..n} \cup {t}
    BY <1>2, <1>4
<1>8. QED
    BY <1>2, <1>6, <1>7 DEF Distinct, QueueSet, n

LEMMA QueueRecv ==
    ASSUME TypeOK, Distinct, replayQ # <<>>, replayQ' = Tail(replayQ)
    PROVE  /\ Distinct' /\ QueueSet' = QueueSet \ {Head(replayQ)}
           /\ Head(replayQ) \in QueueSet
<1> DEFINE n == Len(replayQ)
<1>1. replayQ \in Seq(Tasks) /\ n \in Nat \ {0}
    BY DEF TypeOK
<1>2. /\ Len(replayQ') = n - 1 /\ Head(replayQ) = replayQ[1]
      /\ \A i \in 1..(n - 1) : replayQ'[i] = replayQ[i + 1]
    BY <1>1
<1>3. \A i, j \in 1..n : replayQ[i] = replayQ[j] => i = j
    BY DEF Distinct
<1> HIDE DEF n
<1>4. \A i, j \in 1..(n - 1) : replayQ'[i] = replayQ'[j] => i = j
    BY <1>1, <1>2, <1>3
<1>5. {replayQ'[i] : i \in 1..(n - 1)} = {replayQ[i] : i \in 1..n} \ {replayQ[1]}
  <2>1. ASSUME NEW i \in 1..(n - 1)
        PROVE  replayQ'[i] \in {replayQ[j] : j \in 1..n} \ {replayQ[1]}
    <3>1. i + 1 \in 1..n /\ 1 \in 1..n /\ i + 1 # 1
        BY <1>1
    <3>2. QED
        BY <1>2, <1>3, <3>1
  <2>2. ASSUME NEW i \in 1..n, replayQ[i] # replayQ[1]
        PROVE  \E j \in 1..(n - 1) : replayQ[i] = replayQ'[j]
    <3>1. i - 1 \in 1..(n - 1) /\ (i - 1) + 1 = i
        BY <1>1, <2>2
    <3>2. QED
        BY <1>2, <3>1
  <2>3. ASSUME NEW x
        PROVE  x \in {replayQ'[i] : i \in 1..(n - 1)} <=>
               x \in {replayQ[i] : i \in 1..n} \ {replayQ[1]}
      BY <2>1, <2>2
  <2>4. QED
      BY <2>3
<1>6. 1 \in 1..n
    BY <1>1
<1>7. QED
    BY <1>2, <1>4, <1>5, <1>6 DEF Distinct, QueueSet, n

LEMMA ReplayNext == FunnelInv /\ ReplayInv /\ [Next]_vars => ReplayInv'
<1> SUFFICES ASSUME FunnelInv, ReplayInv, [Next]_vars PROVE ReplayInv'
    OBVIOUS
<1> USE DEF controlVars, smallVars, replayVars
<1> DEFINE K == CountedFor("replay_candidate")
<1>0. TypeOK /\ TaskInv
    BY DEF FunnelInv, TaskInv
<1>1. ASSUME UNCHANGED <<replayQ, replaying, persisted, unstored>>, K' = K PROVE ReplayInv'
  <2>1. QueueSet' = QueueSet /\ Held' = Held /\ Through' = Through /\ (Distinct' <=> Distinct)
      BY <1>1 DEF QueueSet, Held, Through, Distinct
  <2>2. QED
      BY <1>1, <2>1 DEF ReplayInv
<1>2. ASSUME NEW t \in Tasks, Step(t) PROVE ReplayInv'
  <2>1. /\ \E S \in SUBSET Main :
            /\ Edge(task[t].pc, task'[t].pc, S)
            /\ \A s \in Main : s \in task'[t].counted <=> s \in task[t].counted \/ s \in S
        /\ \A u \in Tasks \ {t} : task'[u] = task[u]
      BY <1>2, StepFunnel
  <2>2. CASE PayloadToQuote(t)
    <3>1. /\ "replay_candidate" \notin task[t].counted
          /\ \/ "replay_candidate" \in task'[t].counted /\ replayQ' = Append(replayQ, t)
             \/ "replay_candidate" \notin task'[t].counted /\ replayQ' = replayQ
          /\ replaying' = replaying /\ persisted' = persisted /\ unstored' = unstored
        BY <2>2, QueuedIsCounted
    <3>2. CASE "replay_candidate" \in task'[t].counted /\ replayQ' = Append(replayQ, t)
      <4>1. K' = K \cup {t} /\ t \notin K
          BY <2>1, <3>1, <3>2 DEF CountedFor
      <4>2. K = QueueSet \cup Held \cup Through
          BY DEF ReplayInv
      <4>3. t \notin QueueSet /\ t \notin Held /\ t \notin Through
          BY <4>1, <4>2
      <4>4. Distinct' /\ QueueSet' = QueueSet \cup {t}
          BY <1>0, <3>2, <4>3, QueueAppend DEF ReplayInv
      <4>5. Held' = Held /\ Through' = Through
          BY <3>1 DEF Held, Through
      <4> HIDE DEF K
      <4>6. K' = QueueSet' \cup Held' \cup Through'
          BY <3>1, <4>1, <4>2, <4>4, <4>5
      <4>7. /\ QueueSet' \cap Held' = {} /\ QueueSet' \cap Through' = {}
            /\ Held' \cap Through' = {} /\ persisted' \cap unstored' = {}
          BY <3>1, <4>3, <4>4, <4>5 DEF ReplayInv
      <4>8. QED
          BY <4>4, <4>6, <4>7 DEF ReplayInv, K
    <3>3. CASE "replay_candidate" \notin task'[t].counted /\ replayQ' = replayQ
      <4>1. K' = K
          BY <2>1, <3>1, <3>3 DEF CountedFor
      <4>2. QED
          BY <1>1, <3>1, <3>3, <4>1
    <3>4. QED
        BY <3>1, <3>2, <3>3
  <2>3. CASE UNCHANGED replayVars /\ ~PayloadToQuote(t)
    <3>1. task[t].pc # "economic"
        BY <1>2, <2>3 DEF Step, LookupMiss, LookupFound, DecodeReject, DecodePass, Throttle,
           Admit, BlockLookup, FastGate, AdaptivePreflight, PreflightOverride, BuildReject,
           BuildPass, EvmPreflight, ScavengerUneconomic, ScavengerInsane,
           ScavengerQuoteReject, ScavengerReady, QuoteWithoutDiagnostic, Branch, EvGateStep,
           QualityGateStep, AdaptiveQuote, QuoteReject, QuotePass
    <3>2. PICK S \in SUBSET Main :
            /\ Edge(task[t].pc, task'[t].pc, S)
            /\ \A s \in Main : s \in task'[t].counted <=> s \in task[t].counted \/ s \in S
        BY <2>1
    <3>3. "replay_candidate" \notin S
        BY <3>1, <3>2 DEF Edge, LookupEdge, BuildEdge, QuoteEdge
    <3>4. "replay_candidate" \in task'[t].counted <=> "replay_candidate" \in task[t].counted
        BY <3>2, <3>3 DEF Main
    <3>5. K' = K
        BY <2>1, <3>4 DEF CountedFor
    <3>6. QED
        BY <1>1, <2>3, <3>5
  <2>4. QED
      BY <1>2, <2>2, <2>3, StepLeaves
<1>3. CASE ReplayRecv
  <2> DEFINE h == Head(replayQ)
  <2>1. /\ replaying = None /\ replayQ # <<>> /\ replaying' = h /\ replayQ' = Tail(replayQ)
        /\ persisted' = persisted /\ unstored' = unstored /\ task' = task
      BY <1>3 DEF ReplayRecv
  <2>2. /\ Distinct' /\ QueueSet' = QueueSet \ {h} /\ h \in QueueSet
      BY <1>0, <2>1, QueueRecv DEF ReplayInv
  <2>3. h # None
    <3>1. replayQ \in Seq(Tasks)
        BY <1>0 DEF TypeOK
    <3>2. h \in Tasks
        BY <2>1, <3>1
    <3>3. QED
        BY <3>2, EvaluationAssumption
  <2> HIDE DEF h
  <2>4. Held = {} /\ Held' = {h} /\ Through' = Through
      BY <2>1, <2>3 DEF Held, Through
  <2>5. K' = K
      BY <2>1 DEF CountedFor
  <2> HIDE DEF K
  <2>6. K = QueueSet \cup Held \cup Through /\ QueueSet \cap Through = {} /\ persisted \cap unstored = {}
      BY DEF ReplayInv, K
  <2>7. /\ K' = QueueSet' \cup Held' \cup Through'
        /\ QueueSet' \cap Held' = {} /\ QueueSet' \cap Through' = {}
        /\ Held' \cap Through' = {} /\ persisted' \cap unstored' = {}
      BY <2>1, <2>2, <2>4, <2>5, <2>6
  <2>8. QED
      BY <2>2, <2>7 DEF ReplayInv, K
<1>4. CASE ReplayPersist
  <2>1. /\ replaying # None /\ replaying' = None /\ replayQ' = replayQ
        /\ task' = task
        /\ \/ persisted' = persisted \cup {replaying} /\ unstored' = unstored
           \/ unstored' = unstored \cup {replaying} /\ persisted' = persisted
      BY <1>4 DEF ReplayPersist
  <2>2. Held = {replaying} /\ Held' = {} /\ QueueSet' = QueueSet /\ Distinct'
      BY <2>1 DEF Held, QueueSet, Distinct, ReplayInv
  <2>3. K' = K
      BY <2>1 DEF CountedFor
  <2> HIDE DEF K
  <2>4. /\ K = QueueSet \cup Held \cup Through
        /\ QueueSet \cap Held = {} /\ QueueSet \cap Through = {} /\ Held \cap Through = {}
        /\ persisted \cap unstored = {}
      BY DEF ReplayInv, K
  <2>7. Through' = Through \cup {replaying}
      BY <2>1 DEF Through
  <2>8. persisted' \cap unstored' = {}
      BY <2>1, <2>2, <2>4 DEF Through
  <2>5. /\ K' = QueueSet' \cup Held' \cup Through'
        /\ QueueSet' \cap Held' = {} /\ QueueSet' \cap Through' = {}
        /\ Held' \cap Through' = {}
      BY <2>2, <2>3, <2>4, <2>7
  <2>6. QED
      BY <2>2, <2>5, <2>8 DEF ReplayInv, K
<1>5. CASE SetOpportunityMode \/ SmallWindow \/ UNCHANGED vars
  <2>1. UNCHANGED <<replayQ, replaying, persisted, unstored, task>>
      BY <1>5 DEF SetOpportunityMode, SmallWindow, vars
  <2>2. K' = K
      BY <2>1 DEF CountedFor
  <2>3. QED
      BY <1>1, <2>1, <2>2
<1>6. QED
    BY <1>2, <1>3, <1>4, <1>5 DEF Next

LEMMA ReplayInvHolds == Spec => []ReplayInv
<1>1. Init => ReplayInv
    BY ReplayInit
<1>2. FunnelInv /\ ReplayInv /\ [Next]_vars => ReplayInv'
    BY ReplayNext
<1>3. QED
    BY <1>1, <1>2, FunnelInvHolds, PTL DEF Spec

-----------------------------------------------------------------------------
(* The balance of the funnel.                                               *)
PcIn(pcs) == {t \in Tasks : task[t].pc \in pcs}
UnsureSet == {t \in Tasks : {"decode_pass", "decode_reject"} \subseteq task[t].counted}
SilentSet == {t \in Tasks :
                 /\ task[t].pc = "rejected"
                 /\ "ev_validation_pass" \in task[t].counted
                 /\ task[t].counted \cap {"shadow_research_reject", "ev_gate_pass",
                                          "ev_gate_reject"} = {}}
LostSet(s) == {t \in Counted(s) : task[t].pc = "panicked"}
EarlySet == {t \in Tasks : /\ task[t].pc = "panicked"
                           /\ "fast_preflight_pass" \notin task[t].counted}

\* A set of candidates and the zero or one of each.
LEMMA Memberships ==
    ASSUME NEW t \in Tasks
    PROVE  /\ \A s : In(t, CountedFor(s)) = In(s, task[t].counted)
           /\ \A pcs : In(t, PcIn(pcs)) = On(pcs, task[t].pc)
           /\ In(t, UnsureSet) = Both(task[t].counted)
           /\ In(t, SilentSet) = Silent(task[t].pc, task[t].counted)
           /\ In(t, LostSet({"quote_attempt"})) = LostLate(task[t].pc, task[t].counted)
           /\ In(t, EarlySet) = LostEarly(task[t].pc, task[t].counted)
           /\ In(t, LostSet({})) = In(t, LostSet({"fast_preflight_pass"})) + In(t, EarlySet)
<1>1. \A s : In(t, CountedFor(s)) = In(s, task[t].counted)
    BY DEF In, CountedFor
<1>2. \A pcs : In(t, PcIn(pcs)) = On(pcs, task[t].pc)
    BY DEF In, PcIn, On
<1>3. In(t, UnsureSet) = Both(task[t].counted)
    BY DEF In, UnsureSet, Both
<1>4. In(t, SilentSet) = Silent(task[t].pc, task[t].counted)
    BY DEF In, SilentSet, Silent
<1>5. In(t, LostSet({"quote_attempt"})) = LostLate(task[t].pc, task[t].counted)
    BY DEF In, LostSet, LostLate, Counted
<1>6. In(t, EarlySet) = LostEarly(task[t].pc, task[t].counted)
    BY DEF In, EarlySet, LostEarly
<1>7. In(t, LostSet({})) = In(t, LostSet({"fast_preflight_pass"})) + In(t, EarlySet)
    BY DEF In, LostSet, EarlySet, Counted
<1>8. QED
    BY <1>1, <1>2, <1>3, <1>4, <1>5, <1>6, <1>7

LEMMA CandidateSets ==
    /\ \A s : CountedFor(s) \in SUBSET Tasks
    /\ \A pcs : PcIn(pcs) \in SUBSET Tasks
    /\ UnsureSet \in SUBSET Tasks /\ SilentSet \in SUBSET Tasks /\ EarlySet \in SUBSET Tasks
    /\ \A s : LostSet(s) \in SUBSET Tasks
    BY DEF CountedFor, PcIn, UnsureSet, SilentSet, EarlySet, LostSet, Counted

\* The stages of process_lookup_decode_task.
LEMMA LookupSums ==
    ASSUME FunnelInv
    PROVE  /\ Cardinality(CountedFor("tx_lookup_success"))
              + Cardinality(CountedFor("tx_lookup_skipped_full_pending"))
              + Cardinality(UnsureSet) =
                Cardinality(CountedFor("decode_pass")) + Cardinality(CountedFor("decode_reject"))
                + Cardinality(PcIn({"decode"}))
           /\ Cardinality(CountedFor("decode_pass")) =
                Cardinality(CountedFor("small_scavenger_throttled"))
                + Cardinality(CountedFor("block_lookup_success"))
                + Cardinality(CountedFor("block_lookup_fail"))
                + Cardinality(UnsureSet) + Cardinality(PcIn({"lane", "block"}))
<1>1. \A t \in Tasks : LookupBalance(task[t].pc, task[t].counted)
    BY DEF FunnelInv, Balance
<1> DEFINE A == CountedFor("tx_lookup_success")
           B == CountedFor("tx_lookup_skipped_full_pending")
           D == CountedFor("decode_pass")
           E == CountedFor("decode_reject")
           P == PcIn({"decode"})
<1>2. \A t \in Tasks :
        /\ In(t, A) + In(t, B) <= 1
        /\ In(t, A) + In(t, B) + In(t, UnsureSet) = In(t, D) + In(t, E) + In(t, P)
    BY <1>1, Memberships DEF LookupBalance
<1>3. /\ A \in SUBSET Tasks /\ B \in SUBSET Tasks /\ D \in SUBSET Tasks
      /\ E \in SUBSET Tasks /\ P \in SUBSET Tasks
    BY CandidateSets
<1>4. D \cap E = UnsureSet
    BY DEF CountedFor, UnsureSet
<1>5. Cardinality(CountedFor("decode_pass")) =
        Cardinality(CountedFor("small_scavenger_throttled"))
        + Cardinality(CountedFor("block_lookup_success"))
        + Cardinality(CountedFor("block_lookup_fail"))
        + Cardinality(UnsureSet) + Cardinality(PcIn({"lane", "block"}))
  <2>1. \A t \in Tasks :
          In(t, CountedFor("decode_pass")) =
            In(t, CountedFor("small_scavenger_throttled"))
            + In(t, CountedFor("block_lookup_success"))
            + In(t, CountedFor("block_lookup_fail"))
            + In(t, UnsureSet) + In(t, PcIn({"lane", "block"}))
      BY <1>1, Memberships DEF LookupBalance
  <2> DEFINE X == CountedFor("decode_pass")
             F == CountedFor("small_scavenger_throttled")
             G == CountedFor("block_lookup_success")
             H == CountedFor("block_lookup_fail")
             Q == PcIn({"lane", "block"})
  <2>2. /\ X \in SUBSET Tasks /\ F \in SUBSET Tasks /\ G \in SUBSET Tasks
        /\ H \in SUBSET Tasks /\ UnsureSet \in SUBSET Tasks /\ Q \in SUBSET Tasks
        /\ \A t \in Tasks :
              In(t, X) = In(t, F) + In(t, G) + In(t, H) + In(t, UnsureSet) + In(t, Q)
      BY <2>1, CandidateSets
  <2> HIDE DEF X, F, G, H, Q
  <2>3. Cardinality(X) = Cardinality(F) + Cardinality(G) + Cardinality(H)
                         + Cardinality(UnsureSet) + Cardinality(Q)
      BY <2>2, Split5, SMTT(120)
  <2>4. QED
      BY <2>3 DEF X, F, G, H, Q
<1> HIDE DEF A, B, D, E, P
<1> DEFINE AB == A \cup B
           DE == D \cup E
<1>6. AB \in SUBSET Tasks /\ DE \in SUBSET Tasks
    BY <1>3
<1>7. \A t \in Tasks : In(t, AB) = In(t, A) + In(t, B)
    BY <1>2 DEF In
<1>8. \A t \in Tasks : In(t, AB) = In(t, DE) + In(t, P)
  <2>1. \A t \in Tasks : In(t, UnsureSet) = In(t, D \cap E)
      BY <1>4
  <2>2. QED
      BY <1>2, <2>1 DEF In
<1>9. Cardinality(DE) = Cardinality(D) + Cardinality(E) - Cardinality(UnsureSet)
    BY <1>3, <1>4, CountedFinite, FS_Union
<1> HIDE DEF AB, DE
<1>10. Cardinality(AB) = Cardinality(A) + Cardinality(B)
    BY <1>3, <1>6, <1>7, Split2
<1>11. Cardinality(AB) = Cardinality(DE) + Cardinality(P)
    BY <1>3, <1>6, <1>8, Split2
<1>12. /\ Cardinality(A) \in Nat /\ Cardinality(B) \in Nat /\ Cardinality(D) \in Nat
      /\ Cardinality(E) \in Nat /\ Cardinality(P) \in Nat /\ Cardinality(UnsureSet) \in Nat
    BY <1>3, CandidateSets, CountedFinite
<1>13. Cardinality(A) + Cardinality(B) + Cardinality(UnsureSet) =
         Cardinality(D) + Cardinality(E) + Cardinality(P)
    BY <1>9, <1>10, <1>11, <1>12
<1>14. QED
    BY <1>5, <1>13 DEF A, B, D, E, P

\* The stages of process_evaluation_task up to the payload-to-quote check.
LEMMA BuildSums ==
    ASSUME FunnelInv
    PROVE  /\ Cardinality(CountedFor("block_lookup_success")) =
                Cardinality(CountedFor("fast_preflight_reject"))
                + Cardinality(CountedFor("fast_preflight_pass")) + Cardinality(PcIn({"fast"}))
                + Cardinality(EarlySet)
           /\ Cardinality(CountedFor("fast_preflight_pass")) =
                Cardinality(CountedFor("adaptive_preflight_reject"))
                + Cardinality(CountedFor("adaptive_preflight_pass"))
                + Cardinality(PcIn({"adaptive", "preOverride"}))
           /\ Cardinality(CountedFor("adaptive_preflight_pass")) =
                Cardinality(CountedFor("payload_reject"))
                + Cardinality(CountedFor("payload_built")) + Cardinality(PcIn({"build"}))
           /\ Cardinality(CountedFor("payload_built")) =
                Cardinality(CountedFor("ev_validation_failed"))
                + Cardinality(CountedFor("ev_validation_pass"))
           /\ Cardinality(CountedFor("ev_validation_pass")) =
                Cardinality(CountedFor("payload_to_quote_reject"))
                + Cardinality(CountedFor("payload_to_quote_pass"))
                + Cardinality(PcIn({"economic"}))
           /\ Cardinality(LostSet({})) =
                Cardinality(LostSet({"fast_preflight_pass"})) + Cardinality(EarlySet)
<1>1. \A t \in Tasks : BuildBalance(task[t].pc, task[t].counted)
    BY DEF FunnelInv, Balance
<1>2. \A t \in Tasks :
        /\ In(t, CountedFor("block_lookup_success")) =
             In(t, CountedFor("fast_preflight_reject"))
             + In(t, CountedFor("fast_preflight_pass")) + In(t, PcIn({"fast"}))
             + In(t, EarlySet)
        /\ In(t, CountedFor("fast_preflight_pass")) =
             In(t, CountedFor("adaptive_preflight_reject"))
             + In(t, CountedFor("adaptive_preflight_pass"))
             + In(t, PcIn({"adaptive", "preOverride"}))
        /\ In(t, CountedFor("adaptive_preflight_pass")) =
             In(t, CountedFor("payload_reject"))
             + In(t, CountedFor("payload_built")) + In(t, PcIn({"build"}))
        /\ In(t, CountedFor("payload_built")) =
             In(t, CountedFor("ev_validation_failed"))
             + In(t, CountedFor("ev_validation_pass"))
        /\ In(t, CountedFor("ev_validation_pass")) =
             In(t, CountedFor("payload_to_quote_reject"))
             + In(t, CountedFor("payload_to_quote_pass")) + In(t, PcIn({"economic"}))
        /\ In(t, LostSet({})) = In(t, LostSet({"fast_preflight_pass"})) + In(t, EarlySet)
    BY <1>1, Memberships DEF BuildBalance
<1>3. Cardinality(CountedFor("block_lookup_success")) =
        Cardinality(CountedFor("fast_preflight_reject"))
        + Cardinality(CountedFor("fast_preflight_pass")) + Cardinality(PcIn({"fast"}))
        + Cardinality(EarlySet)
    BY <1>2, CandidateSets, Split4
<1>4. Cardinality(CountedFor("fast_preflight_pass")) =
        Cardinality(CountedFor("adaptive_preflight_reject"))
        + Cardinality(CountedFor("adaptive_preflight_pass"))
        + Cardinality(PcIn({"adaptive", "preOverride"}))
    BY <1>2, CandidateSets, Split3
<1>5. Cardinality(CountedFor("adaptive_preflight_pass")) =
        Cardinality(CountedFor("payload_reject"))
        + Cardinality(CountedFor("payload_built")) + Cardinality(PcIn({"build"}))
    BY <1>2, CandidateSets, Split3
<1>6. Cardinality(CountedFor("payload_built")) =
        Cardinality(CountedFor("ev_validation_failed"))
        + Cardinality(CountedFor("ev_validation_pass"))
    BY <1>2, CandidateSets, Split2
<1>7. Cardinality(CountedFor("ev_validation_pass")) =
        Cardinality(CountedFor("payload_to_quote_reject"))
        + Cardinality(CountedFor("payload_to_quote_pass"))
        + Cardinality(PcIn({"economic"}))
    BY <1>2, CandidateSets, Split3
<1>8. Cardinality(LostSet({})) =
        Cardinality(LostSet({"fast_preflight_pass"})) + Cardinality(EarlySet)
    BY <1>2, CandidateSets, Split2
<1>9. QED
    BY <1>3, <1>4, <1>5, <1>6, <1>7, <1>8

\* The stages from the EVM preflight to the verdict.
LEMMA QuoteSums ==
    ASSUME FunnelInv
    PROVE  /\ Cardinality(CountedFor("payload_to_quote_reject"))
              + Cardinality(CountedFor("payload_to_quote_pass"))
              + Cardinality(CountedFor("ev_validation_failed")) =
                Cardinality(CountedFor("shadow_research_reject"))
                + Cardinality(CountedFor("ev_gate_pass"))
                + Cardinality(CountedFor("ev_gate_reject"))
                + Cardinality(SilentSet) + Cardinality(PcIn({"evm", "branch", "ev"}))
           /\ Cardinality(CountedFor("quote_attempt")) =
                Cardinality(CountedFor("quote_failure"))
                + Cardinality(CountedFor("quote_success")) + Cardinality(PcIn({"override"}))
                + Cardinality(LostSet({"quote_attempt"}))
           /\ Cardinality(CountedFor("ev_gate_pass")) =
                Cardinality(CountedFor("execution_ready_candidate"))
                + Cardinality(PcIn({"quality", "quote", "override"}))
                + Cardinality(LostSet({"quote_attempt"}))
           /\ Cardinality(CountedFor("execution_ready_candidate")) =
                Cardinality(CountedFor("execution_ready_reject"))
                + Cardinality(CountedFor("execution_ready"))
           /\ Cardinality(CountedFor("execution_ready")) = Cardinality(PcIn({"ready"}))
<1>1. \A t \in Tasks : QuoteBalance(task[t].pc, task[t].counted)
                       /\ BuildBalance(task[t].pc, task[t].counted)
    BY DEF FunnelInv, Balance
<1> DEFINE A == CountedFor("payload_to_quote_reject")
           B == CountedFor("payload_to_quote_pass")
           C == CountedFor("ev_validation_failed")
           F == CountedFor("shadow_research_reject")
           G == CountedFor("ev_gate_pass")
           H == CountedFor("ev_gate_reject")
           P == PcIn({"evm", "branch", "ev"})
           L == LostSet({"quote_attempt"})
           X == A \cup B \cup C
<1>2. /\ A \in SUBSET Tasks /\ B \in SUBSET Tasks /\ C \in SUBSET Tasks
      /\ F \in SUBSET Tasks /\ G \in SUBSET Tasks /\ H \in SUBSET Tasks
      /\ SilentSet \in SUBSET Tasks /\ P \in SUBSET Tasks /\ L \in SUBSET Tasks
    BY CandidateSets
<1>3. X \in SUBSET Tasks
    BY <1>2
<1>4. \A t \in Tasks :
        In(t, A) + In(t, B) + In(t, C) =
           In(t, F) + In(t, G) + In(t, H) + In(t, SilentSet) + In(t, P)
    BY <1>1, Memberships DEF QuoteBalance
<1>5. \A t \in Tasks : In(t, A) + In(t, B) + In(t, C) <= 1
  <2>1. \A t \in Tasks :
          LET c == task[t].counted IN
          In("payload_to_quote_reject", c) + In("payload_to_quote_pass", c)
          + In("ev_validation_failed", c) <= 1
      BY <1>1 DEF BuildBalance, In, On
  <2>2. QED
      BY <2>1, Memberships
<1>6. \A t \in Tasks :
        /\ In(t, CountedFor("quote_attempt")) =
             In(t, CountedFor("quote_failure")) + In(t, CountedFor("quote_success"))
             + In(t, PcIn({"override"})) + In(t, L)
        /\ In(t, G) = In(t, CountedFor("execution_ready_candidate"))
                      + In(t, PcIn({"quality", "quote", "override"})) + In(t, L)
        /\ In(t, CountedFor("execution_ready_candidate")) =
             In(t, CountedFor("execution_ready_reject")) + In(t, CountedFor("execution_ready"))
        /\ In(t, CountedFor("execution_ready")) = In(t, PcIn({"ready"}))
    BY <1>1, Memberships DEF QuoteBalance
<1> HIDE DEF A, B, C, F, G, H, P, L
<1>7. \A t \in Tasks : In(t, X) = In(t, A) + In(t, B) + In(t, C)
    BY <1>5 DEF In
<1>8. \A t \in Tasks :
        In(t, X) = In(t, F) + In(t, G) + In(t, H) + In(t, SilentSet) + In(t, P)
    BY <1>4, <1>7
<1> HIDE DEF X
<1>9. Cardinality(X) = Cardinality(A) + Cardinality(B) + Cardinality(C)
    BY <1>2, <1>3, <1>7, Split3
<1>10. Cardinality(X) = Cardinality(F) + Cardinality(G) + Cardinality(H)
                        + Cardinality(SilentSet) + Cardinality(P)
    BY <1>2, <1>3, <1>8, Split5, SMTT(120)
<1>11. Cardinality(CountedFor("quote_attempt")) =
         Cardinality(CountedFor("quote_failure"))
         + Cardinality(CountedFor("quote_success")) + Cardinality(PcIn({"override"}))
         + Cardinality(L)
    BY <1>2, <1>6, CandidateSets, Split4
<1>12. Cardinality(G) =
         Cardinality(CountedFor("execution_ready_candidate"))
         + Cardinality(PcIn({"quality", "quote", "override"})) + Cardinality(L)
    BY <1>2, <1>6, CandidateSets, Split3
<1>13. Cardinality(CountedFor("execution_ready_candidate")) =
         Cardinality(CountedFor("execution_ready_reject"))
         + Cardinality(CountedFor("execution_ready"))
    BY <1>6, CandidateSets, Split2
<1>14. CountedFor("execution_ready") = PcIn({"ready"})
    BY <1>6, CandidateSets DEF In
<1>15. QED
    BY <1>9, <1>10, <1>11, <1>12, <1>13, <1>14 DEF A, B, C, F, G, H, P, L

LEMMA ReplaySum ==
    ASSUME FunnelInv, ReplayInv
    PROVE  Cardinality(CountedFor("replay_candidate")) =
             Len(replayQ) + Cardinality(persisted) + Cardinality(unstored)
             + (IF replaying = None THEN 0 ELSE 1)
<1>1. TypeOK
    BY DEF FunnelInv, TaskInv
<1>2. /\ QueueSet \in SUBSET Tasks /\ Through \in SUBSET Tasks /\ Held \in SUBSET Tasks
      /\ persisted \in SUBSET Tasks /\ unstored \in SUBSET Tasks
    BY <1>1 DEF TypeOK, QueueSet, Held, Through
<1> DEFINE K == CountedFor("replay_candidate")
<1>3. K \in SUBSET Tasks
    BY CandidateSets
<1>4. \A t \in Tasks : In(t, K) = In(t, QueueSet) + In(t, Through) + In(t, Held)
    BY DEF ReplayInv, In
<1> HIDE DEF K
<1>5. Cardinality(K) = Cardinality(QueueSet) + Cardinality(Through) + Cardinality(Held)
    BY <1>2, <1>3, <1>4, Split3
<1>9. Cardinality(Through) = Cardinality(persisted) + Cardinality(unstored)
  <2>1. \A t \in Tasks : In(t, Through) = In(t, persisted) + In(t, unstored)
      BY DEF ReplayInv, In, Through
  <2>2. QED
      BY <1>2, <2>1, Split2
<1>10. Cardinality(persisted) \in Nat /\ Cardinality(unstored) \in Nat /\ Len(replayQ) \in Nat
    BY <1>1, <1>2, CountedFinite DEF TypeOK
<1>6. Cardinality(QueueSet) = Len(replayQ)
    BY <1>1, QueueLength DEF ReplayInv
<1>7. Cardinality(Held) = IF replaying = None THEN 0 ELSE 1
  <2>1. CASE replaying = None
    <3>1. Held = {}
        BY <2>1 DEF Held
    <3>2. QED
        BY <2>1, <3>1, FS_EmptySet
  <2>2. CASE replaying # None
    <3>1. Held = {replaying}
        BY <2>2 DEF Held
    <3>2. QED
        BY <2>2, <3>1, FS_Singleton
  <2>3. QED
      BY <2>1, <2>2
<1>8. QED
    BY <1>5, <1>6, <1>7, <1>9, <1>10 DEF K

\* The funnel that the dashboard shows adds up, for every configuration and
\* every history of mode changes.
THEOREM FunnelAddsUp == Spec => []FunnelBalances
<1>1. FunnelInv /\ ReplayInv => FunnelBalances
  <2> SUFFICES ASSUME FunnelInv, ReplayInv PROVE FunnelBalances
      OBVIOUS
  <2>1. \A s \in Main : funnel[s] = Cardinality(CountedFor(s))
      BY DEF FunnelInv
  <2>2. \A pcs : At(pcs) = Cardinality(PcIn(pcs))
      BY DEF At, PcIn
  <2>3. /\ Cardinality(Counted({"decode_pass", "decode_reject"})) = Cardinality(UnsureSet)
      BY DEF Counted, UnsureSet
  <2>4. /\ Cardinality(LostSet({"fast_preflight_pass"})) \in Nat
        /\ Cardinality(EarlySet) \in Nat
      BY CandidateSets, CountedFinite
  <2>5. Cardinality(LostSet({})) - Cardinality(LostSet({"fast_preflight_pass"})) =
           Cardinality(EarlySet)
      BY <2>4, BuildSums
  <2>6. QED
      BY <2>1, <2>2, <2>3, <2>5, LookupSums, BuildSums, QuoteSums, ReplaySum
      DEF FunnelBalances, Main, SilentSet, LostSet
<1>2. QED
    BY <1>1, FunnelInvHolds, ReplayInvHolds, PTL
=============================================================================
