---------------------------- MODULE MCTelemetry -----------------------------
(* A small telemetry store: one name per rollup table except the reject     *)
(* reasons, which are one more than the reject list holds.                  *)
EXTENDS Telemetry

MCNames == [latency |-> {"rpc"}, funnel |-> {"decode"}, reject |-> {"a", "b", "c"},
            selector |-> {"0x1"}, pool |-> {"p"}]

\* The tables have only the flush in common, so each behaviour calls a few of
\* the recording functions; together the setups call all of them.
Setup(enabled, url, required, calls, n, m) ==
    [enabled |-> enabled, url |-> url, required |-> required, calls |-> calls,
     records |-> n, faults |-> m]
MCSetups == {
    Setup({"telemetry", "rollups"}, TRUE, FALSE, {"latency"}, 2, 1),
    Setup({"rollups"}, TRUE, TRUE, {"pool", "funnel"}, 2, 1),
    Setup({"rollups"}, TRUE, FALSE, {"selector", "outcomes"}, 2, 1),
    Setup({"events"}, TRUE, FALSE, {"event", "clear"}, 2, 1),
    Setup({"rollups"}, FALSE, FALSE, {"event", "clear", "outcomes"}, 2, 1),
    Setup({"rollups"}, FALSE, FALSE, {"reject"}, 3, 0),
    Setup({}, FALSE, FALSE, {"edge"}, 3, 1),
    Setup({"events"}, FALSE, FALSE, {"relay", "rankings"}, 3, 1),
    Setup({"events"}, FALSE, FALSE, {"treasury", "latency"}, 2, 1)}
=============================================================================
