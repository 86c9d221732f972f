------------------------------- MODULE Gates -------------------------------
(* The decisions of mev/runtime.rs about one candidate: the thresholds that *)
(* the opportunity mode scales, the gates of process_evaluation_task and    *)
(* the gas cap.  Every gate of the code computes `pass` and `reason`        *)
(* separately; so does the model.                                           *)
(*                                                                          *)
(* Units.  Amounts are whole native units and whole dollar units (cfg.price *)
(* dollar units per native unit; the gas cap reads a dollar unit as 0.0001  *)
(* USD), thresholds scaled by the mode are hundredths of a unit, heuristic  *)
(* scores are hundredths, ratios are basis points.                          *)
EXTENDS Integers, Sequences, FiniteSets

Modes == {"conservative", "aggressive", "scavenger"}

AtLeast(low, x) == IF x < low THEN low ELSE x
AtMost(high, x) == IF x > high THEN high ELSE x
Clamp(x, low, high) == AtMost(high, AtLeast(low, x))

-----------------------------------------------------------------------------
(* Thresholds.  cfg holds the operator's runtime_thresholds and the fixed   *)
(* limits of MevConfig.                                                     *)
Percent(c, a, s) == [conservative |-> c, aggressive |-> a, scavenger |-> s]

EffectiveMinLargeSwap(cfg, mode) ==
    AtLeast(1, cfg.minLargeSwap * Percent(100, 12, 2)[mode])
EffectiveMinNetProfit(cfg, mode) ==
    AtLeast(1, cfg.minNetProfit * Percent(100, 15, 3)[mode])
EffectiveMinProfitUsd(cfg, mode) ==
    AtLeast(1, cfg.minProfitUsd * Percent(100, 10, 2)[mode])

\* f64::round of a non-negative number of hundredths.
Rounded(hundredths) == (hundredths + 50) \div 100

EffectiveMinRoiBps(cfg, mode) ==
    AtLeast(1, Rounded(cfg.minRoiBps * Percent(100, 25, 5)[mode]))
EffectiveMaxPriceImpactBps(cfg, mode) ==
    AtLeast(1, Rounded(cfg.maxPriceImpactBps * Percent(100, 220, 400)[mode]))
EffectiveMaxPendingAge(cfg, mode) ==
    AtLeast(1, Rounded(cfg.maxPendingAge * Percent(100, 200, 300)[mode]))

ScavengerImpactCap(cfg, mode) ==
    Clamp(EffectiveMaxPriceImpactBps(cfg, mode) * 15, 600, 4000)

-----------------------------------------------------------------------------
(* A gate is a list of checks in the order of its if-chain.                 *)
Check(fails, reason) == [fails |-> fails, reason |-> reason]

FirstFailure(checks, passed) ==
    IF \E i \in DOMAIN checks : checks[i].fails
    THEN LET i == CHOOSE i \in DOMAIN checks :
                    /\ checks[i].fails
                    /\ \A j \in 1..(i - 1) : ~checks[j].fails
         IN  checks[i].reason
    ELSE passed

RoiBps(profit, cost) == IF cost = 0 THEN 0 ELSE (profit * 10000) \div cost

SafetyGasCost(cfg, gasPrice, gasLimit) ==
    (gasPrice * gasLimit * cfg.gasSafetyMarginBps) \div 10000

-----------------------------------------------------------------------------
(* Lane of a decoded swap: parse_ether("0.05") and ("0.5") are the floors   *)
(* MediumFloor and LargeFloor of cfg, minLarge is in hundredths.            *)
CandidateLane(cfg, signal, minLarge) ==
    IF signal.universal THEN "universal"
    ELSE IF 100 * signal.notional >= AtLeast(100 * cfg.largeFloor, minLarge * 250)
    THEN "large"
    ELSE IF 100 * signal.notional >= AtLeast(100 * cfg.mediumFloor, minLarge * 25)
    THEN "medium"
    ELSE "small"

(* pre_decode_tx_gate: selectors and targets that are never decoded, then   *)
(* the price limits.  selectorClass abstracts the tables of known           *)
(* selectors; "none" is a transaction without one, which the gate lets by.  *)
PreDecodeNoise ==
    {"account_abstraction_noise", "private_mev_executor_noise",
     "context_command_not_swap", "router_helper_or_context_only",
     "selector_noise_or_mev_trap", "observed_unsupported_selector_noise"}

PreDecodeGate(cfg, tx) ==
    IF tx.selectorClass = "none" THEN "pass"
    ELSE IF tx.selectorClass \in PreDecodeNoise THEN tx.selectorClass
    ELSE FirstFailure(
        << Check(tx.gasPrice = 0, "zero_gas_price"),
           Check(/\ cfg.maxGasPriceGwei > 0
                 /\ tx.gasPrice > 2 * cfg.maxGasPriceGwei,
                 "victim_gas_price_above_pre_decode_cap") >>, "pass")

(* fast_preflight_gate.  The heuristics (try score and gas ratio in         *)
(* hundredths, upper bound of the edge, competition score) come with the    *)
(* signal; what is modelled is the decision taken from them in each mode.   *)
FastPreflightReason(cfg, mode, signal, minLarge) ==
    LET shape == << Check(signal.pathLen < 2, "invalid_path"),
                    Check(100 * signal.notional < minLarge, "notional_below_min") >>
        minUsd == EffectiveMinProfitUsd(cfg, mode)
        verdict == [
          scavenger |->
            << Check(signal.tryScore < 18 /\ signal.gasRatio > 145,
                     "scavenger_score_below_cheap_threshold") >>,
          aggressive |->
            << Check(signal.tryScore < 24 /\ 10000 * signal.evUpper < 35 * minUsd,
                     "bloody_score_below_research_threshold"),
               Check(signal.gasRatio > 185 /\ 100 * signal.evUpper < minUsd,
                     "bloody_gas_pressure_without_edge") >>,
          conservative |->
            << Check(200 * signal.evUpper < 3 * minUsd, "ev_upper_bound_below_min"),
               Check(signal.competition > 75, "competition_fast_too_high") >> ]
    IN  FirstFailure(shape \o verdict[mode], "pass")

(* adaptive_gas_cap_gwei, in thousandths of a gwei.  f64::clamp panics when *)
(* its bounds cross, below a hard cap of 120 gwei.                          *)
GasCapPanics(hardCap) == hardCap < 120

GasCapTier(evUpper, hardCap) ==
    LET tiers == << [from |-> 2500, cap |-> 1000000],
                    [from |-> 1400, cap |-> hardCap * 980],
                    [from |-> 1000, cap |-> 850000],
                    [from |-> 500,  cap |-> 450000],
                    [from |-> 200,  cap |-> hardCap * 950],
                    [from |-> 50,   cap |-> 350000],
                    [from |-> 10,   cap |-> 300000],
                    [from |-> 1,    cap |-> 250000],
                    [from |-> -200, cap |-> 150000] >>
        reached == {i \in DOMAIN tiers : evUpper >= tiers[i].from}
    IN  IF reached = {} THEN 120000
        ELSE tiers[CHOOSE i \in reached : \A j \in reached : i <= j].cap

AdaptiveGasCap(evUpper, notional, hardCap) ==
    LET continuous == IF evUpper > 0 THEN 100000 + 300 * evUpper
                                     ELSE 150000 + 150 * evUpper
        edge == IF evUpper >= 200 THEN GasCapTier(evUpper, hardCap)
                ELSE AtLeast(continuous, GasCapTier(evUpper, hardCap))
        size == IF evUpper > 0 THEN Clamp(950 + 25 * notional, 1000, 1180)
                               ELSE Clamp(100 * notional, 750, 1150)
    IN  Clamp((edge * size) \div 1000, 120000, hardCap * 1000)

\* scavenger_gas_cap_research_bypass: past the cap, but only without sending.
GasCapResearchBypass(cfg, mode, signal) ==
    /\ mode = "scavenger"
    /\ ~cfg.allowSend
    /\ signal.confidence >= 35
    /\ signal.gasRatio <= 2500

-----------------------------------------------------------------------------
(* validate_payload_ev.  defects is what the configuration and the pool     *)
(* state get wrong; the code reports the first of them.                     *)
MetadataDefects == {"token_decimals_unknown", "invalid_token_metadata", "non_finite_ev"}
PoolDefects == [
    v2 |-> {"reserve_normalization_zero", "pool_token_mismatch"},
    v3 |-> {"v3_liquidity_zero", "v3_tick_data_missing", "sqrt_price_x96_zero",
            "tick_sqrt_price_mismatch"}]

EvValidationReason(cfg, payload, gasPrice) ==
    LET gas == SafetyGasCost(cfg, gasPrice, payload.gasLimit)
        defect(d) == Check(d \in payload.defects, d)
    IN  FirstFailure(
          << defect("token_decimals_unknown"), defect("invalid_token_metadata"),
             defect("non_finite_ev"),
             Check(\/ payload.profit * cfg.price > cfg.outlierUsd
                   \/ RoiBps(payload.profit, gas) > 100000, "ev_outlier_profit_or_roi"),
             Check(payload.capital = 0, "capital_usage_zero") >>
          \o (IF payload.kind = "v2"
              THEN << defect("reserve_normalization_zero"), defect("pool_token_mismatch") >>
              ELSE << defect("v3_liquidity_zero"), defect("v3_tick_data_missing"),
                      defect("sqrt_price_x96_zero"), defect("tick_sqrt_price_mismatch") >>),
          "ev_validation_pass")

(* scavenger_economic_edge_diagnostic: the record that is later handed to   *)
(* the quote.  scavengerFloor is the larger of the two configured floors'   *)
(* dollar part, minGasFractionBps the part that scales with gas.            *)
EconomicEdge(cfg, payload, gasPrice) ==
    LET gas      == gasPrice * payload.gasLimit
        floor    == AtLeast((gas * cfg.minGasFractionBps) \div 10000, cfg.scavengerFloor)
        required == IF cfg.requireNetPositive THEN gas + floor ELSE floor
    IN  [pass     |-> payload.profit >= required,
         reason   |-> IF payload.profit = 0 THEN "ev_zero_expected_profit"
                      ELSE IF payload.profit < required
                      THEN "ev_scavenger_edge_below_floor" ELSE "ev_gate_pass",
         required |-> required,
         gas      |-> gas]

\* passes_scavenger_sanity_gate.
ScavengerSanityReason(cfg, mode, payload, lookupLatency) ==
    FirstFailure(
      << Check(payload.empty, "scavenger_empty_payload"),
         Check(payload.noTarget, "scavenger_missing_target"),
         Check(payload.capital = 0, "scavenger_zero_capital"),
         Check(payload.profit = 0, "scavenger_no_positive_gross_edge"),
         Check(payload.gasLimit > cfg.maxGasPerTx, "scavenger_gas_limit_above_cap"),
         Check(payload.impact > ScavengerImpactCap(cfg, mode),
               "scavenger_price_impact_above_cap"),
         Check(lookupLatency > AtLeast(1, EffectiveMaxPendingAge(cfg, mode) * 3),
               "scavenger_lookup_stale") >>, "pass")

\* Mutation: the quote only repeats the economic verdict.
ScavengerQuoteGross(cfg, mode, payload, gasPrice, economic) ==
    [pass |-> economic.pass, reason |-> economic.reason]

(* scavenger_war_quote_diagnostic: the edge must also cover the gas with    *)
(* its safety margin.                                                       *)
ScavengerQuote(cfg, mode, payload, gasPrice, economic) ==
    LET safety   == SafetyGasCost(cfg, gasPrice, payload.gasLimit)
        required == safety + AtLeast(0, economic.required - economic.gas)
        roi      == RoiBps(payload.profit, safety)
        poolOk   == payload.defects \cap
                    (PoolDefects[payload.kind] \ {"tick_sqrt_price_mismatch"}) = {}
    IN  [pass |-> /\ economic.pass
                  /\ poolOk
                  /\ payload.profit > safety
                  /\ payload.profit >= required
                  /\ roi >= EffectiveMinRoiBps(cfg, mode)
                  /\ payload.impact <= ScavengerImpactCap(cfg, mode),
         reason |-> FirstFailure(
           << Check(~economic.pass, economic.reason),
              Check(~poolOk, "scavenger_quote_invalid_pool_state"),
              Check(payload.profit <= safety, "scavenger_quote_net_after_gas_not_positive"),
              Check(payload.profit < required, "scavenger_quote_edge_below_safety_floor"),
              Check(roi < EffectiveMinRoiBps(cfg, mode), "scavenger_quote_roi_below_min"),
              Check(payload.impact > ScavengerImpactCap(cfg, mode),
                    "scavenger_quote_price_impact_above_cap") >>, "scavenger_quote_pass")]

\* scavenger_ev_gate_result
ScavengerEvGate(payload, fresh, gasOk) ==
    [pass   |-> fresh /\ payload.profit # 0 /\ gasOk,
     reason |-> FirstFailure(
        << Check(~fresh, "ev_lookup_stale"),
           Check(payload.profit = 0, "ev_zero_expected_profit"),
           Check(~gasOk, "ev_gas_limit_above_cap") >>, "ev_gate_pass")]

\* standard_ev_gate_result
StandardEvGate(fresh, large, impact, profit, usd, gasOk) ==
    [pass   |-> fresh /\ large /\ impact /\ profit /\ usd /\ gasOk,
     reason |-> FirstFailure(
        << Check(~fresh, "ev_lookup_stale"),
           Check(~large, "ev_notional_below_min"),
           Check(~impact, "ev_price_impact_too_low"),
           Check(~profit, "ev_profit_below_min_wei"),
           Check(~usd, "ev_profit_below_min_usd"),
           Check(~gasOk, "ev_gas_limit_above_cap") >>, "ev_gate_pass")]

(* ev_gate_diagnostic_v2 and _v3 differ in the impact they call inevitable. *)
EvGate(cfg, mode, payload, signal, lookupLatency, minProfit) ==
    LET fresh == lookupLatency <= EffectiveMaxPendingAge(cfg, mode)
        gasOk == payload.gasLimit <= cfg.maxGasPerTx
    IN  IF mode = "scavenger" THEN ScavengerEvGate(payload, fresh, gasOk)
        ELSE StandardEvGate(
               fresh,
               100 * signal.notional >= EffectiveMinLargeSwap(cfg, mode),
               payload.impact >= (IF signal.kind = "v2" THEN 8 ELSE 6),
               100 * payload.profit >= minProfit,
               100 * payload.profit * cfg.price >= EffectiveMinProfitUsd(cfg, mode),
               gasOk)

(* quality_gate_diagnostic.  The impact score is clamped to 100 before it   *)
(* is compared with 100.                                                    *)
ImpactScore(cfg, mode, payload) ==
    Clamp((payload.impact * 100) \div EffectiveMaxPriceImpactBps(cfg, mode), 0, 100)

QualityGate(cfg, mode, payload, gasPrice) ==
    LET cost == SafetyGasCost(cfg, gasPrice, payload.gasLimit)
        roi  == RoiBps(payload.profit, cost)
    IN  IF mode = "scavenger"
        THEN [pass   |-> payload.profit # 0 /\ payload.impact <= ScavengerImpactCap(cfg, mode),
              reason |-> FirstFailure(
                << Check(payload.profit = 0, "quality_zero_expected_profit"),
                   Check(payload.impact > ScavengerImpactCap(cfg, mode),
                         "quality_price_impact_above_cap") >>, "quality_gate_pass")]
        ELSE [pass   |-> /\ roi >= EffectiveMinRoiBps(cfg, mode)
                         /\ ImpactScore(cfg, mode, payload) <= 100,
              reason |-> FirstFailure(
                << Check(roi < EffectiveMinRoiBps(cfg, mode), "quality_roi_below_min"),
                   Check(ImpactScore(cfg, mode, payload) > 100,
                         "quality_impact_score_above_cap") >>, "quality_gate_pass")]

\* should_override_preflight_reject and should_override_adaptive_reject.
OverridesPreflight(cfg, mode, pre) ==
    \/ mode = "scavenger"
    \/ /\ mode = "aggressive"
       /\ 10000 * pre.evUpper >= 45 * EffectiveMinProfitUsd(cfg, mode)
       /\ pre.score >= 12
       /\ pre.gasPressure <= 105

OverridesQuote(cfg, mode, quote) ==
    \/ mode = "scavenger"
    \/ /\ mode = "aggressive"
       /\ 100 * quote.evReal >= EffectiveMinProfitUsd(cfg, mode)
       /\ quote.pPositive >= 20
       /\ quote.risk <= 95
       /\ quote.gasPressure <= 100
=============================================================================
