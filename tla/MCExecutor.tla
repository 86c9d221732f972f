---------------------------- MODULE MCExecutor ----------------------------
(* Executor on a small instance: opportunities that share a pair or a       *)
(* cluster, two submit paths, budgets that two reservations exhaust.        *)
EXTENDS Executor, TLC

CONSTANTS o1, o2, o3, pairA, pairB, cluA, cluB, router

MCInfo == [o \in Opps |->
    [pair    |-> IF o = o3 THEN pairB ELSE pairA,
     router  |-> router,
     cluster |-> IF o = o2 THEN cluB ELSE cluA,
     capital |-> IF o = o1 THEN 2 ELSE 1]]

Setup(send, preflight, bundle) ==
    [allowSend |-> send, preflight |-> preflight, bundle |-> bundle]

\* Direct RPC, bundle relays with preflight, observation mode.
MCSetups == {Setup(TRUE, FALSE, FALSE), Setup(TRUE, TRUE, TRUE),
             Setup(FALSE, FALSE, FALSE)}
MCDirect == {Setup(TRUE, FALSE, FALSE)}

PathSymmetry == Permutations(Paths)
=============================================================================
