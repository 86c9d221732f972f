---------------------------- MODULE MCEvaluation ----------------------------
(* Evaluation on two candidates.  Each set holds one member per verdict that *)
(* the gates can give: a swap that only scavenger mode takes and one that    *)
(* every mode takes, a victim above and one below the gas cap, payloads that *)
(* lose, break even and pay.                                                 *)
EXTENDS Evaluation

CONSTANTS a, b

\* Candidate a meets every case, candidate b always the good one.
Only(t, good, all) == IF t = a THEN all ELSE {good}

Tx(full, class, gasPrice, latency) ==
    [full |-> full, selectorClass |-> class, gasPrice |-> gasPrice, latency |-> latency]
MCTxs == [t \in Tasks |-> Only(t, Tx(TRUE, "swap", 100, 1),
    {Tx(TRUE, "swap", 100, 1), Tx(FALSE, "swap", 190, 7),
     Tx(FALSE, "observed_unsupported_selector_noise", 100, 1)})]

Signal(notional, evUpper, confidence) ==
    [universal |-> FALSE, notional |-> notional, pathLen |-> 2, tryScore |-> 50,
     gasRatio |-> 90, evUpper |-> evUpper, competition |-> 40,
     confidence |-> confidence, kind |-> "v2"]
MCSignals == [t \in Tasks |-> Only(t, Signal(1, -100, 62),
    {Signal(40, 100, 100), Signal(1, -100, 62), Signal(40, 100, 20)})]

Payload(profit) ==
    [kind |-> "v2", profit |-> profit, gasLimit |-> 2, impact |-> 20, capital |-> 5,
     defects |-> {}, empty |-> FALSE, noTarget |-> FALSE, noTicks |-> FALSE,
     pool |-> "p"]
MCPayloads == [t \in Tasks |-> Only(t, Payload(500),
    {Payload(0), Payload(20), Payload(230), Payload(500)})]

Preflight(continue) == [continue |-> continue, evUpper |-> 10, score |-> 50, gasPressure |-> 50]
MCPreflights == [t \in Tasks |-> Only(t, Preflight(TRUE), {Preflight(TRUE), Preflight(FALSE)})]
Quote(execute) == [execute |-> execute, evReal |-> 40, pPositive |-> 60, risk |-> 50,
                   gasPressure |-> 50]
MCQuotes == [t \in Tasks |-> Only(t, Quote(TRUE), {Quote(TRUE), Quote(FALSE)})]

Config(cap, send, evm) ==
    [minLargeSwap |-> 20, minNetProfit |-> 10, minProfitUsd |-> 8, minRoiBps |-> 1500,
     maxPriceImpactBps |-> 100, maxPendingAge |-> 2, gasSafetyMarginBps |-> 12000,
     largeFloor |-> 2000, mediumFloor |-> 2, maxGasPriceGwei |-> cap,
     allowSend |-> send, price |-> 2, outlierUsd |-> 1000, minGasFractionBps |-> 500,
     scavengerFloor |-> 1, requireNetPositive |-> TRUE, maxGasPerTx |-> 10,
     replay |-> TRUE, evmPreflight |-> evm]
MCConfigs == {Config(200, TRUE, TRUE), Config(200, FALSE, FALSE),
              Config(80, FALSE, FALSE)}
=============================================================================
