---------------------------- MODULE SwapDecoder ----------------------------
(***************************************************************************)
(* decode_relevant_swap: from the calldata of a pending transaction to the *)
(* one swap the runtime works on.  A call is a swap the decoder knows (a   *)
(* leaf), a universal router plan, or a wrapper around other calls; the    *)
(* signal carries a confidence, and below 0.99 counts as a partial decode. *)
(* A payload is put together call by call, from the inside, so every       *)
(* nesting up to the bounds is decoded; the decoder's recursion follows    *)
(* the nesting, so each call carries what the decoder finds in it and a    *)
(* wrapper needs only that of its inner calls.  Bytes are not modelled: a  *)
(* leaf says whether its arguments decode, and which tokens they name in   *)
(* which order.                                                            *)
(***************************************************************************)
EXTENDS Integers, Sequences, SequencesExt

CONSTANTS Tokens,
          Leaves,        \* leaf calls a payload can contain
          Commands,      \* universal router commands a plan can contain
          Monitored,     \* monitored_tokens, in the order of the configuration
          Counterpart,   \* polygon_partial_counterpart_tokens: a token to pair an anchor with
          PriceEth,      \* what a whole token is worth, in the unit of MinLargeSwap
          DecimalsFactor, \* units of an amount that make a whole token
          MinLargeSwap,
          DecoderModes,
          MaxWraps,      \* bound: calls wrapped around the first one
          MaxNests       \* bound: plans nested in one another, one more than are decoded

VARIABLES payload,       \* the outermost call
          plan,          \* the router plan it is, while it is one
          wraps

decoderVars == <<payload, plan, wraps>>

\* Confidence in percent; unit is the token the amount is an amount of.
Signal(sel, path, amount, unit, confidence, source) ==
  [sel |-> sel, path |-> path, amount |-> amount, unit |-> unit,
   confidence |-> confidence, source |-> source]
NoSignal == Signal("none", <<>>, 0, "none", 0, "none")

IsMonitored(t)      == \E i \in DOMAIN Monitored : Monitored[i] = t
NamesMonitored(path) == \E i \in DOMAIN path : IsMonitored(path[i])

Found(s)              == s # NoSignal
OrElse(s, t)          == IF Found(s) THEN s ELSE t
\* A wrapper's changes to what it found: selector, decode_confidence.min, decode_source.  The code
\* overwrites decode_source; here a guess stays marked as one, for the properties to tell.
Downgraded(s, sel, limit, source) ==
  IF ~Found(s) THEN s
  ELSE Signal(sel, s.path, s.amount, s.unit, IF s.confidence < limit THEN s.confidence ELSE limit,
              IF s.source \in {"token_order", "graph"} THEN s.source ELSE source)

\* Mutation: only the first inner call is tried.
FirstDecodedOnly(signals) == IF signals = <<>> THEN NoSignal ELSE signals[1]

\* The first inner call that decodes is taken, whatever it is.
FirstDecoded(signals) ==
  LET found == {i \in DOMAIN signals : Found(signals[i])}
  IN  IF found = {} THEN NoSignal ELSE signals[CHOOSE i \in found : \A j \in found : i <= j]
-----------------------------------------------------------------------------
\* Exact leaves: the arguments decode or they do not.  v2_to_eth is swapExactTokensForETH.
ExactConfidence ==
  [v2_eth |-> 100, v2 |-> 100, v2_to_eth |-> 100, v3_single |-> 100, v3_single_no_deadline |-> 98,
   algebra |-> 86, v3_path |-> 100, zero_ex |-> 100]
ExactSelectors == DOMAIN ExactConfidence

\* A V3 swap is taken by its first hop; V2 swaps keep the whole path.
V3Selectors == {"v3_single", "v3_single_no_deadline", "algebra", "v3_path"}

\* A leaf is not one of the calls that are looked into; a V3 path that decodes has a hop.
ASSUME DecoderAssumption ==
  /\ MinLargeSwap \in Nat
  /\ PriceEth \in [Tokens -> Nat] /\ DecimalsFactor \in [Tokens -> Nat \ {0}]
  /\ \A c \in Leaves \cup Commands : c.path \in Seq(Tokens) /\ c.amount \in Nat /\ c.decodes \in BOOLEAN
  /\ \A l \in Leaves :
       /\ l.sel \notin {"router", "safe", "safe_delegate", "multicall", "batch", "private_wrapper"}
       /\ l.decodes /\ l.sel \in V3Selectors => Len(l.path) >= 2

FirstHop(path) == <<path[1], path[2]>>

DecodeExact(c) ==
  IF ~c.decodes THEN NoSignal
  ELSE Signal(c.sel, IF c.sel \in V3Selectors THEN FirstHop(c.path) ELSE c.path,
              c.amount, c.path[1], ExactConfidence[c.sel], "abi")

\* A swap guessed from the monitored tokens found in the calldata, each once, in the order they
\* appear; one token alone is paired with another one that does not appear in it.  The code keeps
\* the first six of them, and no property tells those after the second apart.
NamedTokens(path) ==
  FoldLeft(LAMBDA named, t : IF IsMonitored(t) /\ ~Contains(named, t) THEN Append(named, t) ELSE named, <<>>, path)

TokenOrderPath(c) ==
  LET named  == NamedTokens(c.path)
      others == SelectSeq(Monitored \o Counterpart, LAMBDA t : t # named[1])
  IN  IF Len(named) = 1 /\ others # <<>> THEN <<named[1], others[1]>> ELSE named

TokenOrder(c, confidence) ==
  LET path == TokenOrderPath(c)
  IN  IF Len(path) < 2 \/ path[1] = path[2] THEN NoSignal
      ELSE Signal(c.sel, path, c.amount, "hint", confidence, "token_order")

\* The aggregators whose argument layout is known in part: the path is read if the arguments
\* decode and it names a monitored token, and guessed otherwise.
AggregatorPath(c, path, confidence, guess) ==
  OrElse(IF c.decodes /\ Len(path) >= 2 /\ NamesMonitored(path)
           THEN Signal(c.sel, path, c.amount, "hint", confidence, "path_partial") ELSE NoSignal,
         TokenOrder(c, guess))

\* What a scan of the bytes for five selectors finds in a leaf: v2 is two of them, with and without
\* the transfer fee, and those that swap to ETH are not looked for.
ScannedSelectors == {"v3_single", "v3_single_no_deadline", "algebra", "v2"}
LeafScan(c) ==
  IF c.sel \in ScannedSelectors /\ NamesMonitored(DecodeExact(c).path) THEN DecodeExact(c) ELSE NoSignal

KnownAggregator(c, scan) ==
  CASE c.sel = "transit_v3"       -> AggregatorPath(c, IF Len(c.path) < 2 THEN <<>> ELSE FirstHop(c.path), 72, 45)
    [] c.sel = "transit_v2"       -> AggregatorPath(c, c.path, 68, 52)
    [] c.sel = "exact_eth_for_token" -> AggregatorPath(c, c.path, 62, 35)
    [] c.sel = "aggregator"       -> TokenOrder(c, 35)
    [] c.sel = "private_searcher" -> OrElse(Downgraded(scan, c.sel, 62, "fingerprint"), TokenOrder(c, 42))
    [] OTHER -> NoSignal

\* Only a Safe tries this, on an inner call nothing else decodes.
SafeInnerPartial(c) ==
  CASE c.sel = "safe_inner_9e7212ad" -> NoSignal
    [] c.sel = "safe_inner_8cc7104f" -> TokenOrder(c, 75)
    [] OTHER -> TokenOrder(c, 55)
-----------------------------------------------------------------------------
\* Universal router plans.  A command's path is in swap order; an exact-output V3 path of more
\* than one hop is not decoded as a whole.
SubPlanDepth == 3

DecodeCommand(k) ==
  CASE k.decodes /\ k.sel \in {"ur_v2_in", "ur_v2_out"} ->
         Signal(k.sel, k.path, k.amount, k.path[1], 100, "router")
    [] k.decodes /\ k.sel = "ur_v3_in" /\ Len(k.path) >= 2 ->
         Signal(k.sel, FirstHop(k.path), k.amount, k.path[1], 100, "router")
    [] k.decodes /\ k.sel = "ur_v3_out" /\ Len(k.path) = 2 ->
         Signal(k.sel, k.path, k.amount, k.path[1], 100, "router")
    [] OTHER -> NoSignal

\* The command graph splits a path into hops and gives each of them the amount of the command.
Hops(k) ==
  IF /\ k.decodes /\ k.sel \in {"ur_v2_in", "ur_v2_out", "ur_v3_in", "ur_v3_out"}
     /\ k.amount > 0 /\ Len(k.path) >= 2
    THEN [i \in 1..Len(k.path) - 1 |->
            Signal(k.sel, <<k.path[i], k.path[i + 1]>>, k.amount, k.path[1], 100,
                   IF i = 1 THEN "router" ELSE "graph")]
    ELSE <<>>

\* A plan: the number of its commands, the tokens its bytes name, and for each depth it may stand
\* at the swaps decode_universal_router_parts and the command graph collect from it.
EmptyPlan ==
  [size |-> 0, tokens |-> <<>>,
   parts |-> [depth \in 0..SubPlanDepth |-> <<>>], graph |-> [depth \in 0..SubPlanDepth |-> <<>>]]

WithCommand(p, k) ==
  LET part == IF Found(DecodeCommand(k)) THEN <<DecodeCommand(k)>> ELSE <<>>
  IN  [size |-> p.size + 1, tokens |-> p.tokens \o (IF k.sel = "ur_v3_out" THEN Reverse(k.path) ELSE k.path),
       parts |-> [depth \in 0..SubPlanDepth |-> p.parts[depth] \o part],
       graph |-> [depth \in 0..SubPlanDepth |-> p.graph[depth] \o Hops(k)]]

\* EXECUTE_SUB_PLAN: one deeper, and given up below the limit.
AsSubPlan(p) ==
  [size |-> 1, tokens |-> p.tokens,
   parts |-> [depth \in 0..SubPlanDepth |-> IF depth = SubPlanDepth THEN <<>> ELSE p.parts[depth + 1]],
   graph |-> [depth \in 0..SubPlanDepth |-> IF depth = SubPlanDepth THEN <<>> ELSE p.graph[depth + 1]]]

RouterCandidates(p) == IF p.parts[0] # <<>> THEN p.parts[0] ELSE p.graph[0]

\* estimate_notional_wei, in the unit of MinLargeSwap: none when the input token is not monitored.
\* The value of a swap from ETH is its amount, unless a wrapper has replaced the selector.
Priced(s)        == s.sel = "v2_eth" \/ (s.path # <<>> /\ IsMonitored(s.path[1]))
Value(t, amount) == (amount * PriceEth[t]) \div DecimalsFactor[t]
Notional(s) ==
  IF s.sel = "v2_eth" THEN s.amount ELSE IF Priced(s) THEN Value(s.path[1], s.amount) ELSE 0

\* universal_router_candidate_rank, compared as a tuple; on a tie the later candidate wins.
ExactIn(s) == IF s.sel = "ur_v3_out" THEN 0 ELSE 1
Outranks(s, t) ==
  \/ Notional(s) > Notional(t)
  \/ Notional(s) = Notional(t) /\ ExactIn(s) > ExactIn(t)
  \/ Notional(s) = Notional(t) /\ ExactIn(s) = ExactIn(t) /\ Len(s.path) < Len(t.path)

BestCandidate(signals) ==
  LET priced == {i \in DOMAIN signals : Priced(signals[i])}
      Best(i) == \A j \in priced : ~Outranks(signals[j], signals[i]) /\ (j > i => Outranks(signals[i], signals[j]))
  IN  IF priced = {} THEN NoSignal ELSE signals[CHOOSE i \in priced : Best(i)]

DecodeRouter(p) ==
  LET candidates == RouterCandidates(p)
  IN  OrElse(BestCandidate(candidates), IF candidates = <<>> THEN NoSignal ELSE candidates[1])
-----------------------------------------------------------------------------
\* Mutation: a batch does not lower the confidence.
BatchLimitMissing == 100

BatchLimit     == 82
MulticallLimit == 92

\* decode_swap_signal of a leaf, and of a wrapper around calls that have been decoded.
DecodeLeaf(c) == IF c.sel \in ExactSelectors THEN DecodeExact(c) ELSE KnownAggregator(c, NoSignal)

Scan(calls) == FirstDecoded([i \in DOMAIN calls |-> calls[i].scan])

\* What is guessed for a wrapper has amount one: the arguments inside are not aligned to words.
Bytes(sel, calls) ==
  [sel |-> sel, path |-> FlattenSeq([i \in DOMAIN calls |-> calls[i].path]), amount |-> 1, decodes |-> FALSE]

DecodeWrapper(sel, calls) ==
  LET inner == FirstDecoded([i \in DOMAIN calls |-> calls[i].signal])
  IN  CASE sel = "safe" -> OrElse(calls[1].signal, SafeInnerPartial(calls[1]))
        [] sel = "safe_delegate" -> NoSignal
        [] sel = "multicall" -> OrElse(Downgraded(inner, sel, MulticallLimit, "nested"),
                                       Downgraded(Scan(calls), sel, 68, "scan"))
        [] sel = "private_wrapper" -> Downgraded(Scan(calls), sel, 88, "nested")
        [] sel = "batch" -> OrElse(Downgraded(inner, sel, BatchLimit, "nested"),
                                   Downgraded(Scan(calls), sel, 58, "scan"))
        [] sel = "private_searcher" -> KnownAggregator(Bytes(sel, calls), Scan(calls))

DecodeRelevantSwap(s, mode) ==
  LET notional == IF Priced(s) THEN Notional(s) ELSE IF MinLargeSwap > 1 THEN MinLargeSwap ELSE 1
  IN  IF /\ Found(s) /\ Len(s.path) >= 2
         /\ Priced(s) \/ (mode # "conservative" /\ NamesMonitored(s.path))
         /\ mode = "scavenger" \/ notional >= MinLargeSwap
        THEN s ELSE NoSignal
-----------------------------------------------------------------------------
\* The payloads.  clear is no part of the call: a large swap of a monitored token with calls
\* around it, none of them a delegated Safe call, and siblings that do not decode; a private
\* wrapper or searcher is only scanned, for four of the kinds of swaps.  A swap from ETH must be
\* large by its amount and by the price of the token it is of: see Notional.
Call(sel, path, amount, signal, scan, clear) ==
  [sel |-> sel, path |-> path, amount |-> amount, signal |-> signal, scan |-> scan, clear |-> clear]

Worth(l) ==
  /\ l.sel \in ExactSelectors /\ l.decodes /\ Len(l.path) >= 2 /\ IsMonitored(l.path[1])
  /\ Value(l.path[1], l.amount) >= MinLargeSwap
  /\ l.sel = "v2_eth" => l.amount >= MinLargeSwap

ClearWrapper(sel, calls) ==
  \/ /\ sel \in {"safe", "multicall", "batch"}
     /\ \E i \in DOMAIN calls :
          calls[i].clear /\ \A j \in DOMAIN calls \ {i} : ~Found(calls[j].signal)
  \/ sel \in {"private_wrapper", "private_searcher"} /\ calls[1].clear /\ calls[1].sel \in ScannedSelectors

LeafCall(l)   == Call(l.sel, l.path, l.amount, DecodeLeaf(l), LeafScan(l), Worth(l))
RouterCall(p) == Call("router", p.tokens, 1, DecodeRouter(p), NoSignal, FALSE)
Wrapped(sel, calls) ==
  Call(sel, Bytes(sel, calls).path, 1, DecodeWrapper(sel, calls), Scan(calls), ClearWrapper(sel, calls))

DecoderInit == plan = EmptyPlan /\ payload = RouterCall(EmptyPlan) /\ wraps = 0

IsPlan == payload.sel = "router"
Empty  == IsPlan /\ plan.size = 0

StartLeaf(leaf) ==
  /\ Empty /\ payload' = LeafCall(leaf)
  /\ UNCHANGED <<plan, wraps>>

AddCommand(k) ==
  /\ IsPlan /\ plan.size < 2 /\ wraps < MaxWraps
  /\ plan' = WithCommand(plan, k) /\ payload' = RouterCall(plan')
  /\ UNCHANGED wraps

Deeper(bound) == wraps < bound /\ wraps' = wraps + 1

NestPlan ==
  /\ IsPlan /\ ~Empty /\ Deeper(MaxNests)
  /\ plan' = AsSubPlan(plan) /\ payload' = RouterCall(plan')

WrapAround(sel, calls) ==
  /\ ~Empty /\ Deeper(MaxWraps)
  /\ payload' = Wrapped(sel, calls) /\ plan' = EmptyPlan

Wrap(sel) == WrapAround(sel, <<payload>>)

WrapWith(sel, leaf) ==
  \/ WrapAround(sel, <<LeafCall(leaf), payload>>)
  \/ WrapAround(sel, <<payload, LeafCall(leaf)>>)

DecoderNext ==
  \/ \E leaf \in Leaves : StartLeaf(leaf)
  \/ \E k \in Commands : AddCommand(k)
  \/ NestPlan
  \/ \E sel \in {"safe", "safe_delegate", "multicall", "batch", "private_wrapper", "private_searcher"} : Wrap(sel)
  \/ \E sel \in {"multicall", "batch"}, leaf \in Leaves : WrapWith(sel, leaf)

DecoderSpec == DecoderInit /\ [][DecoderNext]_decoderVars
-----------------------------------------------------------------------------
\* A swap whose tokens were only guessed from the calldata never passes for a full decode, however
\* it is wrapped; and full confidence is left only to a call that is decoded where it stands, in a
\* Safe or in a plan - a multicall or a batch always counts as partial.
GuessStaysPartial ==
  LET s == payload.signal
  IN  /\ s.source \in {"token_order", "path_partial", "fingerprint", "scan"} => s.confidence < 99
      /\ s.confidence >= 99 => s.sel \notin {"multicall", "batch", "private_wrapper", "private_searcher"}

\* The amount a signal carries is an amount of its first token, whose price it is multiplied by, except
\* for a guess and for a later hop recovered from the command graph: every hop of a path is given
\* the amount of the whole command there, so a middle token's price is multiplied by the first
\* one's amount.
AmountIsOfInputToken ==
  LET s == payload.signal
  IN  Found(s) /\ s.unit # "hint" /\ s.source # "graph" => s.unit = s.path[1]

\* Nesting alone never hides a large swap of a monitored token: it is found in every mode through
\* any number of Safes, multicalls and batches, as long as no sibling call decodes, and through a
\* private wrapper or searcher right around it if its selector is one that is scanned for.  (A
\* sibling that decodes hides it, relevant or not: the first call that decodes is taken.)
NestingNeverHides ==
  payload.clear => \A mode \in DecoderModes : Found(DecodeRelevantSwap(payload.signal, mode))

\* Of the swaps of a universal router plan the one with the largest notional is chosen.
RouterPicksLargest ==
  IsPlan => \A i \in DOMAIN RouterCandidates(plan) :
              Notional(RouterCandidates(plan)[i]) <= Notional(payload.signal)

\* The signal of decode_relevant_swap says no more than the calldata does, however it is nested:
\* in its confidence, in the token its amount is of, and in the swap it stands for.
SignalIsFaithful == GuessStaysPartial /\ AmountIsOfInputToken /\ RouterPicksLargest
===========================================================================
