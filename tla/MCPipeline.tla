---------------------------- MODULE MCPipeline ----------------------------
(* Pipeline on a small instance: up to three transactions, one worker per   *)
(* stage.                                                                   *)
EXTENDS Pipeline

CONSTANTS t1, t2, t3

\* t1 outranks t2; t3 is the one that the pre-decode gate rejects.
MCScore == [t \in Txs |-> IF t = t1 THEN 2 ELSE 1]

Setup(full, cap, switches) ==
    [full |-> full, maxGasPriceGwei |-> cap, switches |-> switches]

\* Full transactions and hashes under a cap that evaluation survives; hashes
\* only, without a cap and with one that evaluation does not survive, and with
\* an operator who switches the opportunity mode.
MCFull == {Setup(TRUE, 1000, FALSE)}
MCHash == {Setup(FALSE, 0, FALSE), Setup(FALSE, 80, FALSE), Setup(FALSE, 0, TRUE)}
MCLowCap == {Setup(FALSE, 80, FALSE)}
=============================================================================
