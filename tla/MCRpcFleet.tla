---------------------------- MODULE MCRpcFleet ----------------------------
(* RpcFleet with two endpoints of different kinds.                          *)
EXTENDS RpcFleet

CONSTANTS e1, e2

MCKind == [e \in Endpoints |-> IF e = e1 THEN "Tenderly" ELSE "GetBlock"]
=============================================================================
