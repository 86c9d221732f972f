---------------------------- MODULE MCServices ----------------------------
(* The services on small instances; the sets that a cfg cannot write down. *)
EXTENDS Services

MCOverpays == {[base |-> 300, miss |-> 900, revert |-> 700, failure |-> 500, max |-> 2200],
               [base |-> 300, miss |-> 900, revert |-> 700, failure |-> 500, max |-> 600]}

MCCapacity == <<40, 40>>

MCMarkets == {[density |-> 2000, heat |-> h, gas |-> g, lookup |-> 120] :
                h \in {1000, 5400}, g \in {1000, 5200}}

Leaf(sel, path, amount, decodes) == [sel |-> sel, path |-> path, amount |-> amount, decodes |-> decodes]

MCMonitored   == <<"weth", "usdc">>
MCCounterpart == <<"pol">>
\* Two units of usdc are worth one of weth.
MCPriceEth       == [t \in {"weth", "usdc", "pol", "x"} |-> 1]
MCDecimalsFactor == [t \in {"weth", "usdc", "pol", "x"} |-> IF t = "usdc" THEN 2 ELSE 1]
MCLeaves ==
  {Leaf("v2_eth", <<"weth", "x">>, 2, TRUE), Leaf("v2", <<"x", "weth">>, 2, TRUE),
   Leaf("v2", <<"usdc", "x">>, 4, TRUE), Leaf("v2", <<"weth", "usdc">>, 2, FALSE),
   Leaf("v2_to_eth", <<"usdc", "weth">>, 4, TRUE), Leaf("v3_path", <<"usdc", "weth", "x">>, 2, TRUE), Leaf("algebra", <<"weth", "x">>, 2, TRUE),
   Leaf("aggregator", <<"x", "usdc">>, 1, FALSE), Leaf("transit_v3", <<"x", "weth">>, 2, TRUE),
   Leaf("private_searcher", <<"weth", "usdc">>, 1, FALSE),
   Leaf("safe_inner_8cc7104f", <<"weth", "x">>, 1, FALSE)}
MCCommands ==
  {Leaf("ur_v2_in", <<"weth", "x">>, 1, TRUE), Leaf("ur_v3_in", <<"usdc", "x", "weth">>, 2, TRUE),
   Leaf("ur_v3_out", <<"x", "weth">>, 2, TRUE), Leaf("ur_v3_out", <<"usdc", "weth", "x">>, 2, TRUE),
   Leaf("ur_other", <<>>, 0, TRUE)}
===========================================================================
