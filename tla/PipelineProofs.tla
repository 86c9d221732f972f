--------------------------- MODULE PipelineProofs ---------------------------
(* Proofs about Pipeline, for any number of transactions and workers and    *)
(* for any capacities: type correctness, the coherence of the dedup window,  *)
(* no second candidate for a remembered hash, the discipline of the          *)
(* microbatch and its choice, the freedom of hash admission from blocking,   *)
(* and what a pause still lets through.                                      *)
EXTENDS Pipeline, SequenceTheorems, FiniteSetTheorems, TLAPS

\* A task that works on a transaction holds a real one.
InHand ==
    /\ main.pc \in {"sending", "executing"} => main.tx \in Txs
    /\ \A w \in LookupWorkers : lookup[w].pc \in {"busy", "sending"}
                                    => lookup[w].tx \in Txs
    /\ \A w \in EvalWorkers : eval[w].pc \in {"busy", "sending"}
                                  => eval[w].tx \in Txs

\* Full transactions are only in the inbox when they were subscribed to.
FullOnlySubscribed ==
    \A i \in 1..Len(inbox) : inbox[i].full => setup.full

TypeInv == TypeOK /\ InHand

-----------------------------------------------------------------------------
(* Facts about the operators.                                               *)

\* SwapRemove gives a sequence that is shorter by one.
LEMMA SwapRemoveType ==
    ASSUME NEW s \in Seq(Txs), NEW i \in 1..Len(s)
    PROVE  /\ SwapRemove(s, i) \in Seq(Txs)
           /\ Len(SwapRemove(s, i)) = Len(s) - 1
<1>1. Len(s) \in Nat /\ Len(s) - 1 \in Nat
    BY LenProperties
<1>2. \A j \in 1..Len(s) : s[j] \in Txs
    BY ElementOfSeq
<1>3. SwapRemove(s, i) \in [1..(Len(s) - 1) -> Txs]
    BY <1>1, <1>2 DEF SwapRemove
<1>4. QED
    BY <1>1, <1>3, IsASeq, LenProperties

\* A flush hands one element of the sequence to the executor and keeps the
\* others.
LEMMA FlushEffect ==
    ASSUME NEW s \in Seq(Txs), FlushCandidateBatch(s), handled \in Seq(Txs)
    PROVE  /\ batch' \in Seq(Txs) /\ Len(batch') = Len(s) - 1 /\ s # <<>>
           /\ opened' = (Len(s) > 1) /\ opened' \in BOOLEAN
           /\ handled' \in Seq(Txs)
           /\ main'.pc = "executing" /\ main' \in [pc : MainPcs, tx : Txs]
<1>1. PICK i \in 1..Len(s) :
          /\ batch' = SwapRemove(s, i)
          /\ opened' = (Len(s) > 1)
          /\ handled' = Append(handled, s[i])
          /\ main' = [pc |-> "executing", tx |-> s[i]]
    BY DEF FlushCandidateBatch
<1>2. s[i] \in Txs
    BY ElementOfSeq
<1>3. handled' \in Seq(Txs)
    BY <1>1, <1>2, AppendProperties
<1>4. s # <<>>
    BY EmptySeq
<1>5. /\ opened' = (Len(s) > 1) /\ opened' \in BOOLEAN
      /\ main'.pc = "executing" /\ main' \in [pc : MainPcs, tx : Txs]
    BY <1>1, <1>2 DEF MainPcs
<1>6. batch' \in Seq(Txs) /\ Len(batch') = Len(s) - 1
    BY <1>1, SwapRemoveType
<1>7. QED
    BY <1>3, <1>4, <1>5, <1>6

-----------------------------------------------------------------------------
(* Type correctness.                                                        *)

LEMMA TypeInit == Init => TypeInv
<1> SUFFICES ASSUME Init PROVE TypeInv
    OBVIOUS
<1>1. /\ inbox \in Seq(Items) /\ seenOrder \in Seq(Txs) /\ lookupQ \in Seq(Txs)
      /\ evalQ \in Seq(Txs) /\ readyQ \in Seq(Txs) /\ batch \in Seq(Txs)
      /\ handled \in Seq(Txs)
    BY DEF Init
<1>2. /\ delivered \in 0..MaxDeliveries /\ toggles \in 0..MaxToggles
      /\ accepted \in Nat /\ budget \in Nat
    BY PipelineAssumption DEF Init
<1>3. /\ lookup \in [LookupWorkers -> [pc : WorkerPcs, tx : Txs \cup {NoTx}]]
      /\ eval \in [EvalWorkers -> [pc : WorkerPcs, tx : Txs \cup {NoTx}]]
      /\ main \in [pc : MainPcs, tx : Txs \cup {NoTx}]
    BY DEF Init, Idle, WorkerPcs, MainPcs
<1>4. /\ setup \in Setups /\ paused \in BOOLEAN /\ opened \in BOOLEAN
      /\ seenHashes \subseteq Txs /\ evicted \subseteq Txs
    BY DEF Init
<1>5. InHand
    BY DEF Init, InHand, Idle
<1>6. QED
    BY <1>1, <1>2, <1>3, <1>4, <1>5 DEF TypeInv, TypeOK

LEMMA TypeStep == TypeInv /\ [Next]_vars => TypeInv'
<1> SUFFICES ASSUME TypeInv, [Next]_vars PROVE TypeInv'
    OBVIOUS
<1> USE DEF TypeInv
<1>a. /\ inbox \in Seq(Items) /\ seenOrder \in Seq(Txs) /\ readyQ \in Seq(Txs)
      /\ lookupQ \in Seq(Txs) /\ evalQ \in Seq(Txs) /\ batch \in Seq(Txs)
      /\ handled \in Seq(Txs) /\ opened \in BOOLEAN
    BY DEF TypeOK
<1>b. inbox # <<>> => Tail(inbox) \in Seq(Items) /\ Head(inbox) \in Items
    BY <1>a, HeadTailProperties
<1>c. inbox # <<>> => Head(inbox).tx \in Txs
    BY <1>b DEF Items
<1>1. CASE MempoolDeliver
  <2>1. inbox' \in Seq(Items)
      BY <1>1, <1>a, AppendProperties DEF MempoolDeliver
  <2>2. QED
      BY <1>1, <2>1, PipelineAssumption DEF MempoolDeliver, TypeOK, InHand, seenVars, admitVars,
          lookupVars, evalVars, batchVars
<1>2. CASE SetRuntimePaused
    BY <1>2, PipelineAssumption DEF SetRuntimePaused, TypeOK, InHand, seenVars, admitVars,
        lookupVars, evalVars, batchVars
<1>3. CASE MainDiscardPaused \/ MainDuplicate
  <2>1. inbox' \in Seq(Items)
      BY <1>3, <1>b DEF MainDiscardPaused, MainDuplicate
  <2>2. QED
      BY <1>3, <2>1 DEF MainDiscardPaused, MainDuplicate, TypeOK, InHand,
          seenVars, admitVars, lookupVars, evalVars, batchVars
<1>4. ASSUME NEW tx \in Txs, MarkSeen(tx)
      PROVE  /\ seenHashes' \subseteq Txs /\ evicted' \subseteq Txs
             /\ seenOrder' \in Seq(Txs)
  <2> DEFINE order == Append(seenOrder, tx)
  <2>1. order \in Seq(Txs) /\ order # <<>>
      BY <1>a, <1>4, AppendProperties
  <2>2. Tail(order) \in Seq(Txs) /\ Head(order) \in Txs
    <3> HIDE DEF order
    <3> QED
        BY <2>1, HeadTailProperties
  <2>3. QED
      BY <1>4, <2>1, <2>2 DEF MarkSeen, TypeOK
<1>5. CASE MainScanHash
  <2>1. inbox' \in Seq(Items) /\ Head(inbox).tx \in Txs
      BY <1>5, <1>b, <1>c DEF MainScanHash
  <2>2. seenHashes' \subseteq Txs /\ evicted' \subseteq Txs /\ seenOrder' \in Seq(Txs)
      BY <1>4, <1>5, <2>1 DEF MainScanHash
  <2>3. accepted' \in Nat /\ budget' \in Nat
      BY <1>5, PipelineAssumption DEF MainScanHash, ShouldEnqueue, TypeOK
  <2>4. main' = main \/ main' = [pc |-> "sending", tx |-> Head(inbox).tx]
      BY <1>5 DEF MainScanHash
  <2>5. QED
      BY <1>5, <2>1, <2>2, <2>3, <2>4 DEF MainScanHash, TypeOK, InHand, MainPcs,
          lookupVars, evalVars, batchVars
<1>6. CASE MainScanFull
  <2>1. inbox' \in Seq(Items) /\ Head(inbox).tx \in Txs
      BY <1>6, <1>b, <1>c DEF MainScanFull
  <2>2. seenHashes' \subseteq Txs /\ evicted' \subseteq Txs /\ seenOrder' \in Seq(Txs)
      BY <1>4, <1>6, <2>1 DEF MainScanFull
  <2>3. QED
      BY <1>6, <2>1, <2>2 DEF MainScanFull, TypeOK, InHand, MainPcs,
          admitVars, lookupVars, evalVars, batchVars
<1>7. CASE MainSend
  <2>1. lookupQ' \in Seq(Txs)
      BY <1>7, AppendProperties DEF MainSend, TypeOK, InHand
  <2>2. QED
      BY <1>7, <2>1 DEF MainSend, TypeOK, InHand, MainPcs, ingestVars, seenVars,
          admitVars, evalVars, batchVars
<1>8. CASE MainReady
  <2> DEFINE pushed == Append(batch, Head(readyQ))
  <2>1. readyQ' \in Seq(Txs) /\ Head(readyQ) \in Txs
      BY <1>8, HeadTailProperties DEF MainReady, TypeOK
  <2>2. pushed \in Seq(Txs)
      BY <2>1, AppendProperties DEF TypeOK
  <2>3. \/ FlushCandidateBatch(pushed)
        \/ batch' = pushed /\ opened' = TRUE /\ UNCHANGED <<handled, main>>
      BY <1>8 DEF MainReady
  <2>4. /\ batch' \in Seq(Txs) /\ opened' \in BOOLEAN /\ handled' \in Seq(Txs)
        /\ main' = main \/ main' \in [pc : MainPcs, tx : Txs]
    <3>1. CASE FlushCandidateBatch(pushed)
        BY <2>2, <3>1, <1>a, FlushEffect
    <3>2. CASE batch' = pushed /\ opened' = TRUE /\ UNCHANGED <<handled, main>>
        BY <2>2, <3>2, <1>a
    <3>3. QED
        BY <2>3, <3>1, <3>2
  <2>5. QED
      BY <1>8, <2>1, <2>4 DEF MainReady, TypeOK, InHand, MainPcs, ingestVars,
          seenVars, admitVars, lookupVars, evalVars
<1>9. CASE MainFlushTick
  <2>1. /\ batch' \in Seq(Txs) /\ opened' \in BOOLEAN /\ handled' \in Seq(Txs)
        /\ main' \in [pc : MainPcs, tx : Txs]
    <3>1. FlushCandidateBatch(batch)
        BY <1>9 DEF MainFlushTick
    <3>2. QED
        BY <1>a, <3>1, FlushEffect
  <2>2. QED
      BY <1>9, <2>1 DEF MainFlushTick, TypeOK, InHand, MainPcs, ingestVars,
          seenVars, admitVars, lookupVars, evalVars
<1>10. CASE ExecutorReturns
    BY <1>10 DEF ExecutorReturns, ExecutorOk, ExecutorErr, TypeOK, InHand,
        MainPcs, ingestVars, seenVars, admitVars, lookupVars, evalVars, batchVars
<1>11. ASSUME NEW w \in LookupWorkers, LookupStep(w) PROVE TypeInv'
  <2>1. CASE LookupRecv(w)
    <3>1. lookupQ' \in Seq(Txs) /\ Head(lookupQ) \in Txs
        BY <2>1, HeadTailProperties DEF LookupRecv, TypeOK
    <3>2. QED
        BY <2>1, <3>1 DEF LookupRecv, TypeOK, InHand, WorkerPcs, ingestVars,
            seenVars, admitVars, evalVars, batchVars
  <2>2. CASE LookupReject(w) \/ LookupAccept(w)
    <3>1. /\ lookup' \in [LookupWorkers -> [pc : WorkerPcs, tx : Txs \cup {NoTx}]]
          /\ \A v \in LookupWorkers : lookup'[v].pc \in {"busy", "sending"}
                                          => lookup'[v].tx \in Txs
      <4>1. CASE LookupReject(w)
          BY <4>1 DEF LookupReject, TypeOK, InHand, WorkerPcs, Idle
      <4>2. CASE LookupAccept(w)
          BY <4>2 DEF LookupAccept, TypeOK, InHand, WorkerPcs
      <4>3. QED
          BY <2>2, <4>1, <4>2
    <3>2. UNCHANGED <<ingestVars, seenVars, admitVars, lookupQ, evalVars, readyQ,
                      batchVars, main>>
        BY <2>2 DEF LookupReject, LookupAccept
    <3>3. QED
        BY <3>1, <3>2 DEF TypeOK, InHand, ingestVars, seenVars, admitVars,
            evalVars, batchVars
  <2>3. CASE LookupSend(w)
    <3>1. evalQ' \in Seq(Txs)
        BY <2>3, AppendProperties DEF LookupSend, TypeOK, InHand
    <3>2. QED
        BY <2>3, <3>1 DEF LookupSend, TypeOK, InHand, WorkerPcs, Idle,
            ingestVars, seenVars, admitVars, batchVars
  <2>4. CASE LookupStop(w)
      BY <2>4 DEF LookupStop, TypeOK, InHand, WorkerPcs, Gone, ingestVars,
          seenVars, admitVars, evalVars, batchVars
  <2>5. QED
      BY <1>11, <2>1, <2>2, <2>3, <2>4 DEF LookupStep
<1>12. ASSUME NEW w \in EvalWorkers, EvalStep(w) PROVE TypeInv'
  <2>1. CASE EvalRecv(w)
    <3>1. evalQ' \in Seq(Txs) /\ Head(evalQ) \in Txs
        BY <2>1, HeadTailProperties DEF EvalRecv, TypeOK
    <3>2. QED
        BY <2>1, <3>1 DEF EvalRecv, TypeOK, InHand, WorkerPcs, ingestVars,
            seenVars, admitVars, lookupVars, batchVars
  <2>2. CASE EvalPanic(w) \/ EvalReject(w) \/ EvalAccept(w) \/ EvalStop(w)
    <3>1. /\ eval' \in [EvalWorkers -> [pc : WorkerPcs, tx : Txs \cup {NoTx}]]
          /\ \A v \in EvalWorkers : eval'[v].pc \in {"busy", "sending"}
                                        => eval'[v].tx \in Txs
      <4>1. CASE EvalPanic(w) \/ EvalStop(w)
        <5>1. \E gone \in {"panicked", "stopped"} :
                  eval' = [eval EXCEPT ![w] = [pc |-> gone, tx |-> NoTx]]
            BY <4>1 DEF EvalPanic, EvalStop, Gone
        <5>2. QED
            BY <5>1 DEF TypeOK, InHand, WorkerPcs
      <4>2. CASE EvalReject(w)
          BY <4>2 DEF EvalReject, TypeOK, InHand, WorkerPcs, Idle
      <4>3. CASE EvalAccept(w)
          BY <4>3 DEF EvalAccept, TypeOK, InHand, WorkerPcs
      <4>4. QED
          BY <2>2, <4>1, <4>2, <4>3
    <3>2. UNCHANGED <<ingestVars, seenVars, admitVars, lookupVars, evalQ, readyQ,
                      batchVars, main>>
        BY <2>2 DEF EvalPanic, EvalReject, EvalAccept, EvalStop
    <3>3. QED
        BY <3>1, <3>2 DEF TypeOK, InHand, ingestVars, seenVars, admitVars,
            lookupVars, batchVars
  <2>3. CASE EvalSend(w)
    <3>1. readyQ' \in Seq(Txs)
        BY <2>3, AppendProperties DEF EvalSend, TypeOK, InHand
    <3>2. QED
        BY <2>3, <3>1 DEF EvalSend, TypeOK, InHand, WorkerPcs, Idle,
            ingestVars, seenVars, admitVars, lookupVars, batchVars
  <2>4. QED
      BY <1>12, <2>1, <2>2, <2>3 DEF EvalStep
<1>13. CASE UNCHANGED vars
    BY <1>13 DEF vars, TypeOK, InHand, ingestVars, seenVars, admitVars,
        lookupVars, evalVars, batchVars
<1>14. QED
    BY <1>1, <1>2, <1>3, <1>5, <1>6, <1>7, <1>8, <1>9, <1>10, <1>11, <1>12,
       <1>13 DEF Next, MainStep

\* Every reachable state of the pipeline is well typed, and whoever works on a
\* transaction holds one (runtime.rs run).
THEOREM TypeCorrect == Spec => []TypeOK
<1>1. Spec => []TypeInv
    BY TypeInit, TypeStep, PTL DEF Spec
<1>2. TypeInv => TypeOK
    BY DEF TypeInv
<1>3. QED
    BY <1>1, <1>2, PTL

-----------------------------------------------------------------------------
(* The dedup window.                                                        *)

Distinct(s) == \A i, j \in 1..Len(s) : s[i] = s[j] => i = j

\* A hash that is new to a duplicate-free window keeps it duplicate-free.
LEMMA AppendDistinct ==
    ASSUME NEW s \in Seq(Txs), NEW tx \in Txs, Distinct(s), tx \notin InSeq(s)
    PROVE  /\ Distinct(Append(s, tx))
           /\ InSeq(Append(s, tx)) = InSeq(s) \cup {tx}
<1> DEFINE a == Append(s, tx)
<1>1. /\ Len(s) \in Nat /\ Len(a) = Len(s) + 1 /\ a[Len(s) + 1] = tx
      /\ \A i \in 1..Len(s) : a[i] = s[i]
    BY AppendProperties, LenProperties
<1>2. \A i \in 1..Len(s) : s[i] # tx
    BY DEF InSeq
<1> HIDE DEF a
<1>3. \A i \in 1..Len(a) : i \in 1..Len(s) \/ i = Len(s) + 1
    BY <1>1
<1>4. Distinct(a)
    BY <1>1, <1>2, <1>3 DEF Distinct
<1>5. InSeq(a) = InSeq(s) \cup {tx}
  <2>1. \A x \in InSeq(a) : x \in InSeq(s) \cup {tx}
      BY <1>1, <1>3 DEF InSeq
  <2>2. \A i \in 1..Len(s) : i \in 1..Len(a) /\ s[i] = a[i]
      BY <1>1
  <2>3. Len(s) + 1 \in 1..Len(a)
      BY <1>1
  <2>4. \A x \in InSeq(s) \cup {tx} : x \in InSeq(a)
      BY <1>1, <2>2, <2>3 DEF InSeq
  <2>5. QED
      BY <2>1, <2>4
<1>6. QED
    BY <1>4, <1>5 DEF a

\* Dropping the oldest hash of a duplicate-free window removes exactly it.
LEMMA TailDistinct ==
    ASSUME NEW s \in Seq(Txs), s # <<>>, Distinct(s)
    PROVE  /\ Distinct(Tail(s))
           /\ InSeq(Tail(s)) = InSeq(s) \ {Head(s)}
<1> DEFINE t == Tail(s)
<1>1. /\ Len(s) \in Nat \ {0} /\ Len(t) = Len(s) - 1
      /\ \A i \in 1..Len(t) : t[i] = s[i + 1]
    BY HeadTailProperties, LenProperties, EmptySeq
<1>2. Head(s) = s[1]
    OBVIOUS
<1> HIDE DEF t
<1>3. \A i \in 1..Len(t) : i + 1 \in 1..Len(s) /\ i + 1 # 1
    BY <1>1
<1>4. Distinct(t)
  <2> SUFFICES ASSUME NEW i \in 1..Len(t), NEW j \in 1..Len(t), t[i] = t[j]
               PROVE  i = j
      BY DEF Distinct
  <2>1. s[i + 1] = s[j + 1]
      BY <1>1
  <2>2. i + 1 = j + 1
      BY <1>3, <2>1 DEF Distinct
  <2>3. QED
      BY <2>2
<1>5. \A x \in InSeq(t) : x \in InSeq(s) \ {Head(s)}
  <2> SUFFICES ASSUME NEW i \in 1..Len(t) PROVE t[i] \in InSeq(s) \ {Head(s)}
      BY DEF InSeq
  <2>1. t[i] = s[i + 1] /\ i + 1 \in 1..Len(s) /\ 1 \in 1..Len(s) /\ i + 1 # 1
      BY <1>1, <1>3
  <2>2. s[i + 1] # s[1]
      BY <2>1 DEF Distinct
  <2>3. QED
      BY <1>2, <2>1, <2>2 DEF InSeq
<1>6. \A x \in InSeq(s) \ {Head(s)} : x \in InSeq(t)
  <2> SUFFICES ASSUME NEW i \in 1..Len(s), s[i] # Head(s) PROVE s[i] \in InSeq(t)
      BY DEF InSeq
  <2>1. i # 1
      BY <1>2
  <2>2. i - 1 \in 1..Len(t) /\ (i - 1) + 1 = i
      BY <1>1, <2>1
  <2>3. t[i - 1] = s[i]
      BY <1>1, <2>2
  <2>4. QED
      BY <2>2, <2>3 DEF InSeq
<1>7. QED
    BY <1>4, <1>5, <1>6 DEF t

\* mark_seen_tx keeps the window coherent when the hash is new to it.
LEMMA MarkSeenCoherent ==
    ASSUME seenOrder \in Seq(Txs), SeenWindowCoherent, NEW tx \in Txs,
           tx \notin seenHashes, MarkSeen(tx)
    PROVE  SeenWindowCoherent'
<1> DEFINE order == Append(seenOrder, tx)
<1>1. /\ order \in Seq(Txs) /\ order # <<>> /\ Len(order) = Len(seenOrder) + 1
      /\ Len(seenOrder) \in Nat
    BY AppendProperties, LenProperties
<1>2. Distinct(order) /\ InSeq(order) = seenHashes \cup {tx}
    BY AppendDistinct DEF SeenWindowCoherent, Distinct
<1>3. CASE Len(order) > SeenCapacity
  <2>1. /\ seenOrder' = Tail(order)
        /\ seenHashes' = (seenHashes \cup {tx}) \ {Head(order)}
      BY <1>3 DEF MarkSeen
  <2> HIDE DEF order
  <2>2. Distinct(seenOrder') /\ InSeq(seenOrder') = seenHashes'
      BY <1>1, <1>2, <2>1, TailDistinct
  <2>3. Len(seenOrder') = Len(seenOrder)
      BY <1>1, <2>1, HeadTailProperties
  <2>4. QED
      BY <2>2, <2>3 DEF SeenWindowCoherent, Distinct, InSeq
<1>4. CASE ~(Len(order) > SeenCapacity)
  <2>1. seenOrder' = order /\ seenHashes' = seenHashes \cup {tx}
      BY <1>4 DEF MarkSeen
  <2> HIDE DEF order
  <2>2. Len(order) <= SeenCapacity
      BY <1>1, <1>4, PipelineAssumption
  <2>3. QED
      BY <1>2, <2>1, <2>2 DEF SeenWindowCoherent, Distinct, InSeq
<1>5. QED
    BY <1>3, <1>4

\* Only a new hash changes the window.
LEMMA SeenStep ==
    ASSUME TypeInv, SeenWindowCoherent, [Next]_vars
    PROVE  SeenWindowCoherent'
<1>1. CASE MainScanHash \/ MainScanFull
  <2>1. /\ inbox # <<>> /\ MarkSeen(Head(inbox).tx)
        /\ Head(inbox).tx \notin seenHashes
      BY <1>1 DEF MainScanHash, MainScanFull
  <2>2. inbox \in Seq(Items) /\ seenOrder \in Seq(Txs)
      BY DEF TypeInv, TypeOK
  <2>3. Head(inbox) \in Items
      BY <2>1, <2>2, HeadTailProperties
  <2>4. Head(inbox).tx \in Txs
      BY <2>3 DEF Items
  <2>5. QED
      BY <2>1, <2>2, <2>4, MarkSeenCoherent
<1>2. CASE UNCHANGED seenVars
    BY <1>2 DEF seenVars, SeenWindowCoherent, InSeq
<1>3. MainScanHash \/ MainScanFull \/ UNCHANGED seenVars
    BY DEF Next, MainStep, ExecutorReturns, LookupStep, EvalStep, MempoolDeliver,
        SetRuntimePaused, MainDiscardPaused, MainDuplicate, MainSend, MainReady,
        MainFlushTick, ExecutorOk, ExecutorErr, LookupRecv, LookupReject,
        LookupAccept, LookupSend, LookupStop, EvalRecv, EvalPanic, EvalReject,
        EvalAccept, EvalSend, EvalStop, vars
<1>4. QED
    BY <1>1, <1>2, <1>3

\* For every capacity and every order of announcements, pauses and evictions
\* the set and the queue of mark_seen_tx describe the same, bounded and
\* duplicate-free window.
THEOREM SeenWindowIsCoherent == Spec => []SeenWindowCoherent
<1>1. Init => SeenWindowCoherent
    BY PipelineAssumption DEF Init, SeenWindowCoherent, InSeq
<1>2. TypeInv /\ SeenWindowCoherent /\ [Next]_vars => SeenWindowCoherent'
    BY SeenStep
<1>3. QED
    BY <1>1, <1>2, TypeInit, TypeStep, PTL DEF Spec

-----------------------------------------------------------------------------
(* The microbatch.                                                          *)

\* After a flush of a sequence of at most MaxBatch candidates.
LEMMA FlushDiscipline ==
    ASSUME NEW s \in Seq(Txs), Len(s) <= MaxBatch, FlushCandidateBatch(s),
           handled \in Seq(Txs)
    PROVE  BatchDiscipline'
<1>1. /\ batch' \in Seq(Txs) /\ Len(batch') = Len(s) - 1
      /\ opened' = (Len(s) > 1)
    BY FlushEffect
<1>2. Len(s) \in Nat
    BY LenProperties
<1>3. Len(batch') < MaxBatch
    BY <1>1, <1>2, PipelineAssumption
<1>4. batch' # <<>> <=> Len(s) > 1
    BY <1>1, <1>2, EmptySeq
<1>5. QED
    BY <1>1, <1>3, <1>4 DEF BatchDiscipline

LEMMA BatchStep ==
    ASSUME TypeInv, BatchDiscipline, [Next]_vars
    PROVE  BatchDiscipline'
<1>a. /\ batch \in Seq(Txs) /\ readyQ \in Seq(Txs) /\ handled \in Seq(Txs)
      /\ Len(batch) \in Nat
    BY LenProperties DEF TypeInv, TypeOK
<1>1. CASE MainReady
  <2> DEFINE pushed == Append(batch, Head(readyQ))
  <2>1. Head(readyQ) \in Txs
      BY <1>1, <1>a, HeadTailProperties DEF MainReady
  <2>2. pushed \in Seq(Txs) /\ pushed # <<>> /\ Len(pushed) = Len(batch) + 1
      BY <1>a, <2>1, AppendProperties
  <2>3. Len(pushed) <= MaxBatch
      BY <1>a, <2>2, PipelineAssumption DEF BatchDiscipline
  <2>4. \/ FlushCandidateBatch(pushed)
        \/ batch' = pushed /\ opened' = TRUE /\ ~(Len(pushed) >= MaxBatch)
      BY <1>1 DEF MainReady
  <2> HIDE DEF pushed
  <2>5. CASE FlushCandidateBatch(pushed)
      BY <1>a, <2>2, <2>3, <2>5, FlushDiscipline
  <2>6. CASE batch' = pushed /\ opened' = TRUE /\ ~(Len(pushed) >= MaxBatch)
    <3>1. Len(pushed) < MaxBatch
        BY <1>a, <2>2, <2>6, PipelineAssumption
    <3>2. QED
        BY <2>2, <2>6, <3>1 DEF BatchDiscipline
  <2>7. QED
      BY <2>4, <2>5, <2>6
<1>2. CASE MainFlushTick
  <2>1. FlushCandidateBatch(batch)
      BY <1>2 DEF MainFlushTick
  <2>2. Len(batch) <= MaxBatch
      BY <1>a, PipelineAssumption DEF BatchDiscipline
  <2>3. QED
      BY <1>a, <2>1, <2>2, FlushDiscipline
<1>3. CASE UNCHANGED <<batch, opened>>
    BY <1>3 DEF BatchDiscipline
<1>4. MainReady \/ MainFlushTick \/ UNCHANGED <<batch, opened>>
    BY DEF Next, MainStep, ExecutorReturns, LookupStep, EvalStep, MempoolDeliver,
        SetRuntimePaused, MainDiscardPaused, MainDuplicate, MainScanHash,
        MainScanFull, MainSend, ExecutorOk, ExecutorErr, LookupRecv,
        LookupReject, LookupAccept, LookupSend, LookupStop, EvalRecv, EvalPanic,
        EvalReject, EvalAccept, EvalSend, EvalStop, vars, batchVars
<1>5. QED
    BY <1>1, <1>2, <1>3, <1>4

\* Whatever the order of pushes, ticks and executions, the microbatch stays
\* below its limit and its window is open exactly while it holds candidates,
\* so that the tick never overlooks a leftover (runtime.rs MicroBatcher).
THEOREM BatchIsDisciplined == Spec => []BatchDiscipline
<1>1. Init => BatchDiscipline
  <2>1. 0 < MaxBatch
      BY PipelineAssumption
  <2>2. Init => Len(batch) = 0 /\ batch = <<>> /\ opened = FALSE
      BY DEF Init
  <2>3. QED
      BY <2>1, <2>2 DEF BatchDiscipline
<1>2. TypeInv /\ BatchDiscipline /\ [Next]_vars => BatchDiscipline'
    BY BatchStep
<1>3. QED
    BY <1>1, <1>2, TypeInit, TypeStep, PTL DEF Spec

-----------------------------------------------------------------------------
(* Hash admission.  That no full transaction is in the inbox has to be part *)
(* of the invariant: full transactions are sent without the soft reserve.    *)

AdmissionInv == FullOnlySubscribed /\ HashAdmissionNeverBlocks

\* No step changes the configuration.
LEMMA SetupFixed ==
    ASSUME [Next]_vars PROVE setup' = setup
BY DEF Next, MainStep, ExecutorReturns, LookupStep, EvalStep, MempoolDeliver,
    SetRuntimePaused, MainDiscardPaused, MainDuplicate, MainScanHash,
    MainScanFull, MainSend, MainReady, MainFlushTick, ExecutorOk, ExecutorErr,
    LookupRecv, LookupReject, LookupAccept, LookupSend, LookupStop, EvalRecv,
    EvalPanic, EvalReject, EvalAccept, EvalSend, EvalStop, vars, ingestVars

LEMMA AdmissionStep ==
    ASSUME TypeInv, AdmissionInv, [Next]_vars
    PROVE  AdmissionInv'
<1>s. setup' = setup
    BY SetupFixed
<1>a. /\ inbox \in Seq(Items) /\ lookupQ \in Seq(Txs)
      /\ Len(inbox) \in Nat /\ Len(lookupQ) \in Nat
    BY LenProperties DEF TypeInv, TypeOK
<1>b. CASE setup.full
    BY <1>s, <1>b DEF AdmissionInv, FullOnlySubscribed, HashAdmissionNeverBlocks
<1>c. CASE ~setup.full
  <2>1. FullOnlySubscribed'
    <3>1. CASE MempoolDeliver
      <4>1. PICK item \in Items : ~item.full /\ inbox' = Append(inbox, item)
          BY <1>c, <3>1 DEF MempoolDeliver
      <4>2. /\ Len(inbox') = Len(inbox) + 1
            /\ \A i \in 1..Len(inbox) : inbox'[i] = inbox[i]
            /\ inbox'[Len(inbox) + 1] = item
          BY <1>a, <4>1, AppendProperties
      <4>3. \A i \in 1..Len(inbox') : i \in 1..Len(inbox) \/ i = Len(inbox) + 1
          BY <1>a, <4>2
      <4>4. QED
          BY <1>s, <4>1, <4>2, <4>3 DEF AdmissionInv, FullOnlySubscribed
    <3>2. CASE inbox # <<>> /\ inbox' = Tail(inbox)
      <4>1. /\ Len(inbox') = Len(inbox) - 1
            /\ \A i \in 1..Len(inbox') : inbox'[i] = inbox[i + 1]
          BY <1>a, <3>2, HeadTailProperties
      <4>2. \A i \in 1..Len(inbox') : i + 1 \in 1..Len(inbox)
          BY <1>a, <4>1
      <4>3. QED
          BY <1>s, <4>1, <4>2 DEF AdmissionInv, FullOnlySubscribed
    <3>3. CASE UNCHANGED inbox
        BY <1>s, <3>3 DEF AdmissionInv, FullOnlySubscribed
    <3>4. \/ MempoolDeliver \/ UNCHANGED inbox
          \/ inbox # <<>> /\ inbox' = Tail(inbox)
        BY DEF Next, MainStep, ExecutorReturns, LookupStep, EvalStep,
            SetRuntimePaused, MainDiscardPaused, MainDuplicate, MainScanHash,
            MainScanFull, MainSend, MainReady, MainFlushTick, ExecutorOk,
            ExecutorErr, LookupRecv, LookupReject, LookupAccept, LookupSend,
            LookupStop, EvalRecv, EvalPanic, EvalReject, EvalAccept, EvalSend,
            EvalStop, vars, ingestVars
    <3>5. QED
        BY <3>1, <3>2, <3>3, <3>4
  <2>2. HashAdmissionNeverBlocks'
    <3>1. CASE MainScanHash
      <4>1. \/ main' = main
            \/ ~QueueSoftFull
          BY <3>1 DEF MainScanHash, ShouldEnqueue
      <4>2. UNCHANGED lookupQ /\ main.pc = "select"
          BY <3>1 DEF MainScanHash, AtSelect, lookupVars
      <4>3. ~QueueSoftFull => Len(lookupQ) < LookupQueueCapacity
          BY <1>a, PipelineAssumption DEF QueueSoftFull, QueueRemaining
      <4>4. QED
          BY <1>s, <4>1, <4>2, <4>3 DEF HashAdmissionNeverBlocks
    <3>2. CASE MainScanFull
      <4>1. inbox # <<>> /\ Head(inbox).full /\ Head(inbox) = inbox[1]
          BY <1>a, <3>2 DEF MainScanFull
      <4>2. 1 \in 1..Len(inbox)
          BY <1>a, <4>1, EmptySeq
      <4>3. QED
          BY <1>s, <1>c, <4>1, <4>2 DEF AdmissionInv, FullOnlySubscribed
    <3>3. CASE MainSend \/ MainReady \/ MainFlushTick \/ ExecutorReturns
      <4>1. main'.pc # "sending" \/ UNCHANGED <<main, lookupQ>>
        <5>1. CASE MainReady
            BY <5>1 DEF MainReady, FlushCandidateBatch, lookupVars
        <5>2. CASE MainSend \/ MainFlushTick \/ ExecutorReturns
            BY <5>2 DEF MainSend, MainFlushTick, FlushCandidateBatch,
                ExecutorReturns, ExecutorOk, ExecutorErr
        <5>3. QED
            BY <3>3, <5>1, <5>2
      <4>2. QED
          BY <1>s, <4>1 DEF AdmissionInv, HashAdmissionNeverBlocks
    <3>4. CASE \E w \in LookupWorkers : LookupRecv(w)
      <4>1. lookupQ # <<>> /\ lookupQ' = Tail(lookupQ) /\ UNCHANGED main
          BY <3>4 DEF LookupRecv
      <4>2. Len(lookupQ') = Len(lookupQ) - 1
          BY <1>a, <4>1, HeadTailProperties
      <4>3. QED
          BY <1>s, <1>a, <4>1, <4>2, PipelineAssumption
          DEF AdmissionInv, HashAdmissionNeverBlocks
    <3>5. CASE UNCHANGED <<main, lookupQ>>
        BY <1>s, <3>5 DEF AdmissionInv, HashAdmissionNeverBlocks
    <3>6. \/ MainScanHash \/ MainScanFull \/ MainSend \/ MainReady
          \/ MainFlushTick \/ ExecutorReturns \/ UNCHANGED <<main, lookupQ>>
          \/ \E w \in LookupWorkers : LookupRecv(w)
        BY DEF Next, MainStep, LookupStep, EvalStep, MempoolDeliver,
            SetRuntimePaused, MainDiscardPaused, MainDuplicate, LookupReject,
            LookupAccept, LookupSend, LookupStop, EvalRecv, EvalPanic,
            EvalReject, EvalAccept, EvalSend, EvalStop, vars, lookupVars
    <3>7. QED
        BY <3>1, <3>2, <3>3, <3>4, <3>5, <3>6
  <2>3. QED
      BY <2>1, <2>2 DEF AdmissionInv
<1>d. QED
    BY <1>b, <1>c

\* Without full-transaction subscriptions the main loop never blocks on the
\* lookup queue, for any capacity of the queue: the sixteenth that
\* should_enqueue keeps free is enough, even when it rounds down to nothing.
THEOREM HashAdmissionIsImmediate == Spec => []HashAdmissionNeverBlocks
<1>1. Init => AdmissionInv
    BY EmptySeq DEF Init, AdmissionInv, FullOnlySubscribed, HashAdmissionNeverBlocks
<1>2. TypeInv /\ AdmissionInv /\ [Next]_vars => AdmissionInv'
    BY AdmissionStep
<1>3. AdmissionInv => HashAdmissionNeverBlocks
    BY DEF AdmissionInv
<1>4. QED
    BY <1>1, <1>2, <1>3, TypeInit, TypeStep, PTL DEF Spec

-----------------------------------------------------------------------------
(* Pause.                                                                   *)

\* Sending adds only what is sent.
LEMMA InSeqAppend ==
    ASSUME NEW s \in Seq(Txs), NEW tx \in Txs
    PROVE  InSeq(Append(s, tx)) \subseteq InSeq(s) \cup {tx}
<1>1. Len(s) \in Nat /\ Len(Append(s, tx)) = Len(s) + 1
    BY LenProperties, AppendProperties
<1>2. \A i \in 1..Len(Append(s, tx)) : Append(s, tx)[i] = tx \/ (i \in 1..Len(s) /\ Append(s, tx)[i] = s[i])
    BY <1>1, AppendProperties
<1>3. QED
    BY <1>2 DEF InSeq

\* Receiving from a queue takes only its head out.
LEMMA InSeqTail ==
    ASSUME NEW s \in Seq(Txs), s # <<>>
    PROVE  InSeq(Tail(s)) \subseteq InSeq(s) /\ Head(s) \in InSeq(s) /\ Head(s) \in Txs
<1>1. /\ Len(s) \in Nat /\ Len(Tail(s)) = Len(s) - 1 /\ Len(s) > 0
      /\ \A i \in 1..Len(Tail(s)) : Tail(s)[i] = s[i + 1]
      /\ Head(s) = s[1] /\ Head(s) \in Txs
    BY LenProperties, HeadTailProperties, EmptySeq
<1>2. \A i \in 1..Len(Tail(s)) : i + 1 \in 1..Len(s)
    BY <1>1
<1>3. 1 \in 1..Len(s)
    BY <1>1
<1>4. QED
    BY <1>1, <1>2, <1>3 DEF InSeq

\* drain_best adds nothing to the batch.
LEMMA InSeqSwapRemove ==
    ASSUME NEW s \in Seq(Txs), NEW i \in 1..Len(s)
    PROVE  InSeq(SwapRemove(s, i)) \subseteq InSeq(s)
<1>1. Len(s) \in Nat /\ Len(SwapRemove(s, i)) = Len(s) - 1
    BY LenProperties, SwapRemoveType
<1>2. \A j \in 1..Len(SwapRemove(s, i)) :
        j \in 1..Len(s) /\ Len(s) \in 1..Len(s)
          /\ SwapRemove(s, i)[j] = IF j = i THEN s[Len(s)] ELSE s[j]
    BY <1>1 DEF SwapRemove
<1>3. QED
    BY <1>2 DEF InSeq

\* While the runtime is paused no step commits a further candidate to execution: run checks
\* the switch before admission, and each worker before it starts on what it received.
LEMMA PauseStep ==
    ASSUME TypeInv, [Next]_vars, paused
    PROVE  Committed' \subseteq Committed \cup {NoTx}
<1>a. /\ readyQ \in Seq(Txs) /\ batch \in Seq(Txs)
      /\ eval \in [EvalWorkers -> [pc : WorkerPcs, tx : Txs \cup {NoTx}]]
      /\ \A w \in EvalWorkers : eval[w].pc = "sending" => eval[w].tx \in Txs
    BY DEF TypeInv, TypeOK, InHand
<1> DEFINE Hands == {eval[w].tx : w \in EvalWorkers}
<1>1. CASE MainReady
  <2> DEFINE pushed == Append(batch, Head(readyQ))
  <2>1. /\ readyQ # <<>> /\ readyQ' = Tail(readyQ) /\ eval' = eval
        /\ FlushCandidateBatch(pushed) \/ batch' = pushed
      BY <1>1 DEF MainReady, evalVars
  <2>2. /\ InSeq(readyQ') \subseteq InSeq(readyQ) /\ Head(readyQ) \in InSeq(readyQ)
        /\ Head(readyQ) \in Txs
      BY <1>a, <2>1, InSeqTail
  <2>3. pushed \in Seq(Txs) /\ InSeq(pushed) \subseteq InSeq(batch) \cup {Head(readyQ)}
      BY <1>a, <2>2, InSeqAppend, AppendProperties
  <2> HIDE DEF pushed
  <2>4. InSeq(batch') \subseteq InSeq(pushed)
    <3>1. CASE FlushCandidateBatch(pushed)
        BY <2>3, <3>1, InSeqSwapRemove DEF FlushCandidateBatch
    <3>2. QED
        BY <2>1, <3>1
  <2>5. QED
      BY <2>1, <2>2, <2>3, <2>4 DEF Committed
<1>2. CASE MainFlushTick
  <2>1. readyQ' = readyQ /\ eval' = eval /\ FlushCandidateBatch(batch)
      BY <1>2 DEF MainFlushTick, evalVars
  <2>2. InSeq(batch') \subseteq InSeq(batch)
      BY <1>a, <2>1, InSeqSwapRemove DEF FlushCandidateBatch
  <2>3. QED
      BY <2>1, <2>2 DEF Committed
<1>3. CASE \E w \in EvalWorkers : EvalSend(w)
  <2>1. PICK w \in EvalWorkers : EvalSend(w)
      BY <1>3
  <2>2. /\ readyQ' = Append(readyQ, eval[w].tx) /\ eval' = [eval EXCEPT ![w] = Idle]
        /\ batch' = batch /\ eval[w].tx \in Txs
      BY <1>a, <2>1 DEF EvalSend, batchVars
  <2>3. InSeq(readyQ') \subseteq InSeq(readyQ) \cup {eval[w].tx}
      BY <1>a, <2>2, InSeqAppend
  <2>4. \A v \in EvalWorkers : eval'[v].tx \in Hands \cup {NoTx}
      BY <1>a, <2>2 DEF Idle
  <2>5. QED
      BY <2>2, <2>3, <2>4 DEF Committed
<1>4. CASE UNCHANGED <<readyQ, batch>> /\ \A v \in EvalWorkers : eval'[v].tx \in {eval[v].tx, NoTx}
    BY <1>4 DEF Committed
<1>5. CASE \E w \in EvalWorkers : EvalRecv(w) \/ EvalPanic(w) \/ EvalReject(w) \/ EvalAccept(w) \/ EvalStop(w)
  <2>1. PICK w \in EvalWorkers :
          EvalRecv(w) \/ EvalPanic(w) \/ EvalReject(w) \/ EvalAccept(w) \/ EvalStop(w)
      BY <1>5
  <2>2. UNCHANGED <<readyQ, batch>>
      BY <2>1 DEF EvalRecv, EvalPanic, EvalReject, EvalAccept, EvalStop, batchVars
  <2>3. \A v \in EvalWorkers : eval'[v].tx \in {eval[v].tx, NoTx}
    <3>1. CASE EvalRecv(w)
        BY <3>1 DEF EvalRecv
    <3>2. CASE EvalPanic(w) \/ EvalReject(w) \/ EvalAccept(w) \/ EvalStop(w)
        BY <1>a, <3>2 DEF EvalPanic, EvalReject, EvalAccept, EvalStop, Gone, Idle
    <3>3. QED
        BY <2>1, <3>1, <3>2
  <2>4. QED
      BY <1>4, <2>2, <2>3
<1>6. CASE UNCHANGED <<eval, readyQ, batch>>
    BY <1>6 DEF Committed
<1>7. \/ MainReady \/ MainFlushTick \/ UNCHANGED <<eval, readyQ, batch>>
      \/ \E w \in EvalWorkers : EvalSend(w)
      \/ \E w \in EvalWorkers : EvalRecv(w) \/ EvalPanic(w) \/ EvalReject(w) \/ EvalAccept(w) \/ EvalStop(w)
    BY DEF Next, MainStep, ExecutorReturns, LookupStep, EvalStep, MempoolDeliver,
        SetRuntimePaused, MainDiscardPaused, MainDuplicate, MainScanHash,
        MainScanFull, MainSend, ExecutorOk, ExecutorErr, LookupRecv, LookupReject,
        LookupAccept, LookupSend, LookupStop, vars, evalVars, batchVars
<1>8. QED
    BY <1>1, <1>2, <1>3, <1>5, <1>6, <1>7

\* For any number of workers and any queue sizes, a paused runtime executes only candidates
\* that evaluation already had in hand when it was paused.
THEOREM PauseIsFinal == Spec => PauseCommitsNothing
<1>1. TypeInv /\ [Next]_vars => [paused => Committed' \subseteq Committed \cup {NoTx}]_vars
    BY PauseStep
<1>2. QED
    BY <1>1, TypeInit, TypeStep, PTL DEF Spec, PauseCommitsNothing

-----------------------------------------------------------------------------
(* How many copies of a transaction there are.  Sending adds one, receiving  *)
(* and drain_best take one out.                                              *)

Is(x, tx) == IF x = tx THEN 1 ELSE 0
At(s, tx) == {i \in 1..Len(s) : s[i] = tx}

LEMMA AtFinite ==
    ASSUME NEW s \in Seq(Txs), NEW tx
    PROVE  /\ IsFiniteSet(At(s, tx)) /\ Occurrences(s, tx) \in Nat
           /\ Occurrences(s, tx) = Cardinality(At(s, tx))
<1>1. Len(s) \in Nat
    BY LenProperties
<1>2. IsFiniteSet(1..Len(s))
    BY <1>1, FS_Interval
<1>3. At(s, tx) \in SUBSET (1..Len(s))
    BY DEF At
<1>4. IsFiniteSet(At(s, tx))
    BY <1>2, <1>3, FS_Subset
<1>5. QED
    BY <1>4, FS_CardinalityType DEF Occurrences, At

LEMMA OccurrencesAppend ==
    ASSUME NEW s \in Seq(Txs), NEW x \in Txs, NEW tx
    PROVE  Occurrences(Append(s, x), tx) = Occurrences(s, tx) + Is(x, tx)
<1> DEFINE a == Append(s, x)
<1>1. /\ Len(s) \in Nat /\ a \in Seq(Txs) /\ Len(a) = Len(s) + 1 /\ a[Len(s) + 1] = x
      /\ \A i \in 1..Len(s) : a[i] = s[i]
    BY AppendProperties, LenProperties
<1>2. IsFiniteSet(At(s, tx)) /\ Occurrences(s, tx) \in Nat
    BY AtFinite
<1> HIDE DEF a
<1>3. Len(s) + 1 \notin At(s, tx)
    BY <1>1 DEF At
<1>4. CASE x = tx
  <2>1. At(a, tx) = At(s, tx) \cup {Len(s) + 1}
      BY <1>1, <1>4 DEF At
  <2>2. Cardinality(At(a, tx)) = Cardinality(At(s, tx)) + 1
      BY <1>2, <1>3, <2>1, FS_AddElement
  <2>3. QED
      BY <1>1, <1>4, <2>2, AtFinite DEF a, Is
<1>5. CASE x # tx
  <2>1. At(a, tx) = At(s, tx)
      BY <1>1, <1>5 DEF At
  <2>2. Occurrences(a, tx) = Occurrences(s, tx)
      BY <1>1, <2>1, AtFinite
  <2>3. QED
      BY <1>2, <1>5, <2>2 DEF a, Is
<1>6. QED
    BY <1>4, <1>5

\* When the places of tx in r are, by f, those in s without i.
LEMMA OccurrencesBijection ==
    ASSUME NEW s \in Seq(Txs), NEW r \in Seq(Txs), NEW i \in 1..Len(s), NEW tx,
           NEW f \in Bijection(At(r, tx), At(s, tx) \ {i})
    PROVE  Occurrences(s, tx) = Occurrences(r, tx) + Is(s[i], tx)
<1>1. /\ IsFiniteSet(At(s, tx)) /\ Occurrences(s, tx) \in Nat /\ IsFiniteSet(At(r, tx))
      /\ Occurrences(s, tx) = Cardinality(At(s, tx))
      /\ Occurrences(r, tx) = Cardinality(At(r, tx)) /\ Occurrences(r, tx) \in Nat
    BY AtFinite
<1>2. Cardinality(At(s, tx) \ {i}) = Cardinality(At(r, tx))
    BY <1>1, FS_Bijection DEF ExistsBijection
<1>3. Cardinality(At(s, tx) \ {i})
        = IF i \in At(s, tx) THEN Cardinality(At(s, tx)) - 1 ELSE Cardinality(At(s, tx))
    BY <1>1, FS_RemoveElement
<1>4. i \in At(s, tx) <=> s[i] = tx
    BY DEF At
<1>5. QED
    BY <1>1, <1>2, <1>3, <1>4 DEF Is

LEMMA OccurrencesTail ==
    ASSUME NEW s \in Seq(Txs), s # <<>>, NEW tx
    PROVE  Occurrences(s, tx) = Occurrences(Tail(s), tx) + Is(Head(s), tx)
<1> DEFINE t == Tail(s)
           f == [j \in At(t, tx) |-> j + 1]
<1>1. /\ Len(s) \in Nat \ {0} /\ t \in Seq(Txs) /\ Len(t) = Len(s) - 1
      /\ \A i \in 1..Len(t) : t[i] = s[i + 1]
    BY HeadTailProperties, LenProperties, EmptySeq
<1>2. Head(s) = s[1] /\ 1 \in 1..Len(s)
    BY <1>1
<1> HIDE DEF t
<1>3. f \in [At(t, tx) -> At(s, tx) \ {1}]
    BY <1>1 DEF At
<1>4. ASSUME NEW a \in At(t, tx), NEW b \in At(t, tx), f[a] = f[b] PROVE a = b
    BY <1>4 DEF At
<1>5. ASSUME NEW k \in At(s, tx) \ {1} PROVE \E j \in At(t, tx) : f[j] = k
  <2>1. k - 1 \in At(t, tx) /\ (k - 1) + 1 = k
      BY <1>1, <1>5 DEF At
  <2>2. QED
      BY <2>1
<1>6. f \in Bijection(At(t, tx), At(s, tx) \ {1})
  <2> HIDE DEF f
  <2> QED
      BY <1>3, <1>4, <1>5 DEF Bijection, Injection, Surjection, IsInjective
<1> HIDE DEF f
<1>7. Occurrences(s, tx) = Occurrences(t, tx) + Is(s[1], tx)
    BY <1>1, <1>2, <1>6, OccurrencesBijection
<1>8. QED
    BY <1>2, <1>7 DEF t

LEMMA OccurrencesSwapRemove ==
    ASSUME NEW s \in Seq(Txs), NEW i \in 1..Len(s), NEW tx
    PROVE  Occurrences(s, tx) = Occurrences(SwapRemove(s, i), tx) + Is(s[i], tx)
<1> DEFINE r == SwapRemove(s, i)
           f == [j \in At(r, tx) |-> IF j = i THEN Len(s) ELSE j]
<1>1. /\ Len(s) \in Nat \ {0} /\ r \in Seq(Txs) /\ Len(r) = Len(s) - 1
      /\ \A j \in 1..Len(r) : r[j] = IF j = i THEN s[Len(s)] ELSE s[j]
    BY SwapRemoveType, LenProperties DEF SwapRemove
<1> HIDE DEF r
<1>3. f \in [At(r, tx) -> At(s, tx) \ {i}]
    BY <1>1 DEF At
<1>4. ASSUME NEW a \in At(r, tx), NEW b \in At(r, tx), f[a] = f[b] PROVE a = b
    BY <1>1, <1>4 DEF At
<1>5. ASSUME NEW k \in At(s, tx) \ {i} PROVE \E j \in At(r, tx) : f[j] = k
  <2>1. CASE k = Len(s)
    <3>1. i \in At(r, tx)
        BY <1>1, <2>1 DEF At
    <3>2. QED
        BY <2>1, <3>1
  <2>2. CASE k # Len(s)
    <3>1. k \in At(r, tx) /\ k # i
        BY <1>1, <2>2 DEF At
    <3>2. QED
        BY <3>1
  <2>3. QED
      BY <2>1, <2>2
<1>6. f \in Bijection(At(r, tx), At(s, tx) \ {i})
  <2> HIDE DEF f
  <2> QED
      BY <1>3, <1>4, <1>5 DEF Bijection, Injection, Surjection, IsInjective
<1> HIDE DEF f
<1>7. QED
    BY <1>1, <1>6, OccurrencesBijection DEF r

\* A worker that puts down one transaction and takes up another.
LEMMA HeldUpdate ==
    ASSUME NEW S, IsFiniteSet(S), NEW f, NEW g, NEW w \in S, NEW tx,
           \A v \in S \ {w} : g[v].tx = f[v].tx
    PROVE  /\ HeldBy(f, S, tx) \in Nat /\ HeldBy(g, S, tx) \in Nat
           /\ HeldBy(g, S, tx) + Is(f[w].tx, tx) = HeldBy(f, S, tx) + Is(g[w].tx, tx)
<1> DEFINE A == {v \in S \ {w} : f[v].tx = tx}
<1>1. IsFiniteSet(A) /\ Cardinality(A) \in Nat /\ w \notin A
  <2>1. A \in SUBSET S
      OBVIOUS
  <2>2. QED
      BY <2>1, FS_Subset, FS_CardinalityType
<1>2. ASSUME NEW h, \A v \in S \ {w} : h[v].tx = f[v].tx
      PROVE  HeldBy(h, S, tx) = Cardinality(A) + Is(h[w].tx, tx)
  <2>1. CASE h[w].tx = tx
    <3>1. {v \in S : h[v].tx = tx} = A \cup {w}
        BY <1>2, <2>1
    <3> HIDE DEF A
    <3>2. QED
        BY <1>1, <2>1, <3>1, FS_AddElement DEF HeldBy, Is
  <2>2. CASE h[w].tx # tx
    <3>1. {v \in S : h[v].tx = tx} = A
        BY <1>2, <2>2
    <3>2. HeldBy(h, S, tx) = Cardinality(A)
        BY <3>1 DEF HeldBy
    <3>3. Is(h[w].tx, tx) = 0
        BY <2>2 DEF Is
    <3> HIDE DEF A
    <3>4. QED
        BY <1>1, <3>2, <3>3
  <2>3. QED
      BY <2>1, <2>2
<1> HIDE DEF A
<1>3. /\ HeldBy(f, S, tx) = Cardinality(A) + Is(f[w].tx, tx)
      /\ HeldBy(g, S, tx) = Cardinality(A) + Is(g[w].tx, tx)
    BY <1>2
<1>4. QED
    BY <1>1, <1>3 DEF Is

-----------------------------------------------------------------------------
(* No stage of the pipeline makes a copy.                                    *)

Copies(tx) == InFlight(tx) + Occurrences(handled, tx)

\* The main loop takes tx in hand for the first time since it was forgotten.
ScansNew(tx) == AtSelect /\ tx \notin seenHashes /\ MarkSeen(tx)

LEMMA PartsAreNat ==
    ASSUME TypeInv, NEW tx \in Txs
    PROVE  /\ Occurrences(lookupQ, tx) \in Nat /\ Occurrences(evalQ, tx) \in Nat
           /\ Occurrences(readyQ, tx) \in Nat /\ Occurrences(batch, tx) \in Nat
           /\ Occurrences(handled, tx) \in Nat
           /\ HeldBy(lookup, LookupWorkers, tx) \in Nat
           /\ HeldBy(eval, EvalWorkers, tx) \in Nat
<1>1. ASSUME NEW S, IsFiniteSet(S), NEW f PROVE HeldBy(f, S, tx) \in Nat
  <2>1. {w \in S : f[w].tx = tx} \in SUBSET S
      OBVIOUS
  <2>2. QED
      BY <1>1, <2>1, FS_Subset, FS_CardinalityType DEF HeldBy
<1>2. QED
    BY <1>1, AtFinite, PipelineAssumption DEF TypeInv, TypeOK

CopiesType == \A tx \in Txs : Copies(tx) \in Nat

LEMMA CopiesAreNat == TypeInv => CopiesType
    BY PartsAreNat DEF Copies, CopiesType, InFlight

\* A flush moves one copy from the batch to the executor.
LEMMA FlushMoves ==
    ASSUME TypeInv, NEW s \in Seq(Txs), FlushCandidateBatch(s), NEW tx \in Txs
    PROVE  /\ Occurrences(batch', tx) + Occurrences(handled', tx)
                = Occurrences(s, tx) + Occurrences(handled, tx)
           /\ Occurrences(batch', tx) \in Nat /\ Occurrences(handled', tx) \in Nat
           /\ main'.pc = "executing"
<1>1. PICK i \in 1..Len(s) : /\ batch' = SwapRemove(s, i)
                            /\ handled' = Append(handled, s[i])
                            /\ main' = [pc |-> "executing", tx |-> s[i]]
    BY DEF FlushCandidateBatch
<1>2. s[i] \in Txs /\ handled \in Seq(Txs) /\ batch' \in Seq(Txs)
    BY <1>1, ElementOfSeq, SwapRemoveType DEF TypeInv, TypeOK
<1>3. Occurrences(handled', tx) = Occurrences(handled, tx) + Is(s[i], tx)
    BY <1>1, <1>2, OccurrencesAppend
<1>4. Occurrences(s, tx) = Occurrences(batch', tx) + Is(s[i], tx)
    BY <1>1, OccurrencesSwapRemove
<1>5. /\ Occurrences(handled, tx) \in Nat /\ Occurrences(batch', tx) \in Nat
      /\ Is(s[i], tx) \in {0, 1}
    BY <1>2, AtFinite DEF Is
<1>6. main'.pc = "executing"
    BY <1>1
<1>7. QED
    BY <1>3, <1>4, <1>5, <1>6

LEMMA NoStageCopies ==
    ASSUME TypeInv, [Next]_vars, NEW tx \in Txs
    PROVE  \/ /\ Copies(tx)' <= Copies(tx)
              /\ UNCHANGED seenVars \/ \E x \in Txs \ {tx} : ScansNew(x)
           \/ ScansNew(tx) /\ Copies(tx)' <= Copies(tx) + 1
<1>a. /\ lookupQ \in Seq(Txs) /\ evalQ \in Seq(Txs) /\ readyQ \in Seq(Txs)
      /\ batch \in Seq(Txs) /\ handled \in Seq(Txs) /\ inbox \in Seq(Items)
    BY DEF TypeInv, TypeOK
<1>b. /\ lookup \in [LookupWorkers -> [pc : WorkerPcs, tx : Txs \cup {NoTx}]]
      /\ eval \in [EvalWorkers -> [pc : WorkerPcs, tx : Txs \cup {NoTx}]]
      /\ tx # NoTx
    BY PipelineAssumption DEF TypeInv, TypeOK
<1> DEFINE hand == IF main.pc = "sending" /\ main.tx = tx THEN 1 ELSE 0
           lq == Occurrences(lookupQ, tx)
           lw == HeldBy(lookup, LookupWorkers, tx)
           eq == Occurrences(evalQ, tx)
           ew == HeldBy(eval, EvalWorkers, tx)
           rq == Occurrences(readyQ, tx)
           bt == Occurrences(batch, tx)
           hd == Occurrences(handled, tx)
           lqN == Occurrences(lookupQ', tx)
           lwN == HeldBy(lookup', LookupWorkers, tx)
           eqN == Occurrences(evalQ', tx)
           ewN == HeldBy(eval', EvalWorkers, tx)
           rqN == Occurrences(readyQ', tx)
           btN == Occurrences(batch', tx)
           hdN == Occurrences(handled', tx)
           handN == IF main'.pc = "sending" /\ main'.tx = tx THEN 1 ELSE 0
           Fewer == Copies(tx)' <= Copies(tx) /\ UNCHANGED seenVars
<1>c. /\ lq \in Nat /\ lw \in Nat /\ eq \in Nat /\ ew \in Nat /\ rq \in Nat
      /\ bt \in Nat /\ hd \in Nat /\ hand \in {0, 1} /\ handN \in {0, 1}
    BY PartsAreNat
<1>d. Copies(tx) = hand + lq + lw + eq + ew + rq + bt + hd
    BY DEF Copies, InFlight
<1>e. Copies(tx)' = handN + lqN + lwN + eqN + ewN + rqN + btN + hdN
    BY DEF Copies, InFlight, Occurrences, HeldBy
<1>f. \A x : Is(x, tx) \in {0, 1} /\ (x = tx <=> Is(x, tx) = 1)
    BY DEF Is
<1>1. CASE MainScanHash \/ MainScanFull
  <2> DEFINE x == Head(inbox).tx
  <2>1. x \in Txs
    <3>1. inbox # <<>>
        BY <1>1 DEF MainScanHash, MainScanFull
    <3>2. Head(inbox) \in Items
        BY <1>a, <3>1, HeadTailProperties
    <3>3. QED
        BY <3>2 DEF Items
  <2>2. /\ ScansNew(x) /\ main.pc = "select"
        /\ main' \in {main, [pc |-> "sending", tx |-> x]}
        /\ UNCHANGED <<lookupVars, evalVars, readyQ, batchVars>>
      BY <1>1 DEF MainScanHash, MainScanFull, ScansNew, AtSelect
  <2> HIDE DEF x
  <2>3. lqN = lq /\ lwN = lw /\ eqN = eq /\ ewN = ew /\ rqN = rq /\ btN = bt /\ hdN = hd
      BY <2>2 DEF lookupVars, evalVars, batchVars
  <2>4. hand = 0 /\ (x # tx => handN = 0)
      BY <2>2
  <2> HIDE DEF hand, handN, lq, lw, eq, ew, rq, bt, hd, lqN, lwN, eqN, ewN, rqN, btN, hdN
  <2>5. Copies(tx)' <= Copies(tx) + 1 /\ (x # tx => Copies(tx)' <= Copies(tx))
      BY <1>c, <1>d, <1>e, <2>3, <2>4
  <2>6. QED
      BY <2>1, <2>2, <2>5
<1>2. CASE MainSend
  <2>1. /\ main.pc = "sending" /\ main.tx \in Txs /\ main'.pc = "select"
        /\ lookupQ' = Append(lookupQ, main.tx)
        /\ UNCHANGED <<seenVars, lookup, evalVars, readyQ, batchVars>>
      BY <1>2 DEF MainSend, TypeInv, InHand
  <2>2. lqN = lq + Is(main.tx, tx)
      BY <1>a, <2>1, OccurrencesAppend
  <2>3. lwN = lw /\ eqN = eq /\ ewN = ew /\ rqN = rq /\ btN = bt /\ hdN = hd
      BY <2>1 DEF evalVars, batchVars
  <2>4. hand = Is(main.tx, tx) /\ handN = 0
      BY <2>1 DEF Is
  <2> HIDE DEF hand, handN, lq, lw, eq, ew, rq, bt, hd, lqN, lwN, eqN, ewN, rqN, btN, hdN
  <2>5. Copies(tx)' <= Copies(tx)
      BY <1>c, <1>d, <1>e, <2>2, <2>3, <2>4
  <2>6. QED
      BY <2>1, <2>5
<1>3. CASE MainReady
  <2> DEFINE pushed == Append(batch, Head(readyQ))
             pu == Occurrences(pushed, tx)
  <2>1. /\ readyQ # <<>> /\ readyQ' = Tail(readyQ) /\ main.pc = "select"
        /\ UNCHANGED <<seenVars, lookupVars, evalVars>>
        /\ \/ FlushCandidateBatch(pushed)
           \/ batch' = pushed /\ UNCHANGED <<handled, main>>
      BY <1>3 DEF MainReady, AtSelect
  <2>2. Head(readyQ) \in Txs /\ readyQ' \in Seq(Txs)
      BY <1>a, <2>1, HeadTailProperties
  <2>3. pushed \in Seq(Txs)
      BY <1>a, <2>2, AppendProperties
  <2>4. rq = rqN + Is(Head(readyQ), tx)
      BY <1>a, <2>1, OccurrencesTail
  <2>5. pu = bt + Is(Head(readyQ), tx)
      BY <1>a, <2>2, OccurrencesAppend
  <2>6. rqN \in Nat
      BY <2>2, AtFinite
  <2>7. lqN = lq /\ lwN = lw /\ eqN = eq /\ ewN = ew /\ hand = 0
      BY <2>1 DEF lookupVars, evalVars
  <2>8. btN + hdN = pu + hd /\ btN \in Nat /\ hdN \in Nat /\ handN = 0
    <3> HIDE DEF pushed
    <3>1. CASE FlushCandidateBatch(pushed)
      <4>1. btN + hdN = pu + hd /\ btN \in Nat /\ hdN \in Nat /\ main'.pc = "executing"
          BY <2>3, <3>1, FlushMoves
      <4>2. QED
          BY <4>1
    <3>2. CASE batch' = pushed /\ UNCHANGED <<handled, main>>
      <4>1. btN = pu /\ hdN = hd /\ handN = 0 /\ btN \in Nat
          BY <2>1, <2>3, <3>2, AtFinite
      <4> HIDE DEF btN, pu, hdN, hd, handN
      <4>2. QED
          BY <1>c, <4>1
    <3>3. QED
        BY <2>1, <3>1, <3>2
  <2> HIDE DEF hand, handN, lq, lw, eq, ew, rq, bt, hd, lqN, lwN, eqN, ewN, rqN, btN, hdN, pu
  <2>9. Copies(tx)' <= Copies(tx)
      BY <1>c, <1>d, <1>e, <1>f, <2>4, <2>5, <2>6, <2>7, <2>8
  <2>10. QED
      BY <2>1, <2>9
<1>4. CASE MainFlushTick
  <2>1. /\ FlushCandidateBatch(batch) /\ main.pc = "select"
        /\ UNCHANGED <<seenVars, lookupVars, evalVars, readyQ>>
      BY <1>4 DEF MainFlushTick, AtSelect
  <2>2. btN + hdN = bt + hd /\ btN \in Nat /\ hdN \in Nat /\ main'.pc = "executing"
      BY <1>a, <2>1, FlushMoves
  <2>3. /\ lqN = lq /\ lwN = lw /\ eqN = eq /\ ewN = ew /\ rqN = rq
        /\ hand = 0 /\ handN = 0
      BY <2>1, <2>2 DEF lookupVars, evalVars
  <2> HIDE DEF hand, handN, lq, lw, eq, ew, rq, bt, hd, lqN, lwN, eqN, ewN, rqN, btN, hdN
  <2>4. Copies(tx)' <= Copies(tx)
      BY <1>c, <1>d, <1>e, <2>2, <2>3
  <2>5. QED
      BY <2>1, <2>4
<1>5. ASSUME NEW w \in LookupWorkers, LookupStep(w) PROVE Fewer
  <2> DEFINE old == Is(lookup[w].tx, tx)
             new == Is(lookup'[w].tx, tx)
  <2>1. UNCHANGED <<seenVars, eval, readyQ, batchVars, main>>
      BY <1>5 DEF LookupStep, LookupRecv, LookupReject, LookupAccept, LookupSend,
          LookupStop, evalVars
  <2>2. ewN = ew /\ rqN = rq /\ btN = bt /\ hdN = hd /\ handN = hand
      BY <2>1 DEF batchVars
  <2>3. \/ LookupRecv(w) /\ lookup' = lookup
        \/ LookupRecv(w) /\ lookup' = [lookup EXCEPT ![w] = [pc |-> "busy", tx |-> Head(lookupQ)]]
        \/ LookupReject(w) /\ lookup' = [lookup EXCEPT ![w] = Idle]
        \/ LookupAccept(w) /\ lookup' = [lookup EXCEPT ![w].pc = "sending"]
        \/ LookupSend(w) /\ lookup' = [lookup EXCEPT ![w] = Idle]
        \/ LookupStop(w) /\ lookup' = [lookup EXCEPT ![w] = Gone("stopped")]
      BY <1>5 DEF LookupStep, LookupRecv, LookupReject, LookupAccept, LookupSend, LookupStop
  <2>4. /\ \A v \in LookupWorkers \ {w} : lookup'[v].tx = lookup[v].tx
        /\ LookupReject(w) \/ LookupSend(w) \/ LookupStop(w) => new = 0
        /\ LookupAccept(w) => new = old
        /\ LookupRecv(w) => lookup' = lookup \/ lookup'[w].tx = Head(lookupQ)
    <3>1. \A v \in LookupWorkers \ {w} : lookup'[v].tx = lookup[v].tx
        BY <1>b, <2>3
    <3>2. LookupReject(w) \/ LookupSend(w) \/ LookupStop(w) => lookup'[w].tx = NoTx
        BY <1>b DEF LookupReject, LookupSend, LookupStop, Idle, Gone
    <3>3. LookupAccept(w) => lookup'[w].tx = lookup[w].tx
        BY <1>b DEF LookupAccept
    <3>4. LookupRecv(w) => lookup' = lookup \/ lookup'[w].tx = Head(lookupQ)
        BY <1>b DEF LookupRecv
    <3>5. QED
        BY <1>b, <3>1, <3>2, <3>3, <3>4 DEF Is
  <2>5. lwN \in Nat /\ lwN + old = lw + new
    <3>1. \A v \in LookupWorkers \ {w} : lookup'[v].tx = lookup[v].tx
        BY <2>4
    <3>2. IsFiniteSet(LookupWorkers)
        BY PipelineAssumption
    <3>3. QED
        BY <3>1, <3>2, HeldUpdate
  <2>6. old \in {0, 1} /\ new \in {0, 1}
      BY <1>f
  <2>7. CASE LookupRecv(w)
    <3> DEFINE head == Is(Head(lookupQ), tx)
    <3>1. lookupQ # <<>> /\ lookupQ' = Tail(lookupQ) /\ UNCHANGED evalQ
        BY <2>7 DEF LookupRecv, evalVars
    <3>2. lookupQ' \in Seq(Txs)
        BY <1>a, <3>1, HeadTailProperties
    <3>3. lq = lqN + head
        BY <1>a, <3>1, OccurrencesTail
    <3>4. lqN \in Nat /\ eqN = eq /\ head \in {0, 1}
        BY <1>f, <3>1, <3>2, AtFinite
    <3>5. lwN = lw \/ new = head
        BY <2>4, <2>7
    <3> HIDE DEF hand, handN, lq, lw, eq, ew, rq, bt, hd, lqN, lwN, eqN, ewN, rqN, btN, hdN, old, new, head
    <3>6. Copies(tx)' <= Copies(tx)
        BY <1>c, <1>d, <1>e, <2>2, <2>5, <2>6, <3>3, <3>4, <3>5
    <3>7. QED
        BY <2>1, <3>6
  <2>8. CASE LookupReject(w) \/ LookupAccept(w) \/ LookupStop(w)
    <3>1. UNCHANGED <<lookupQ, evalQ>>
        BY <2>8 DEF LookupReject, LookupAccept, LookupStop, evalVars
    <3>2. lqN = lq /\ eqN = eq /\ (new = 0 \/ new = old)
        BY <2>4, <2>8, <3>1
    <3> HIDE DEF hand, handN, lq, lw, eq, ew, rq, bt, hd, lqN, lwN, eqN, ewN, rqN, btN, hdN, old, new
    <3>3. Copies(tx)' <= Copies(tx)
        BY <1>c, <1>d, <1>e, <2>2, <2>5, <2>6, <3>2
    <3>4. QED
        BY <2>1, <3>3
  <2>9. CASE LookupSend(w)
    <3>1. /\ lookup[w].tx \in Txs /\ evalQ' = Append(evalQ, lookup[w].tx)
          /\ UNCHANGED lookupQ
        BY <2>9 DEF LookupSend, TypeInv, InHand
    <3>2. eqN = eq + old
        BY <1>a, <3>1, OccurrencesAppend
    <3>3. lqN = lq /\ new = 0
        BY <2>4, <2>9, <3>1
    <3> HIDE DEF hand, handN, lq, lw, eq, ew, rq, bt, hd, lqN, lwN, eqN, ewN, rqN, btN, hdN, old, new
    <3>4. Copies(tx)' <= Copies(tx)
        BY <1>c, <1>d, <1>e, <2>2, <2>5, <2>6, <3>2, <3>3
    <3>5. QED
        BY <2>1, <3>4
  <2>10. QED
      BY <1>5, <2>7, <2>8, <2>9 DEF LookupStep
<1>6. ASSUME NEW w \in EvalWorkers, EvalStep(w) PROVE Fewer
  <2> DEFINE old == Is(eval[w].tx, tx)
             new == Is(eval'[w].tx, tx)
  <2>1. UNCHANGED <<seenVars, lookupQ, lookup, batchVars, main>>
      BY <1>6 DEF EvalStep, EvalRecv, EvalPanic, EvalReject, EvalAccept, EvalSend,
          EvalStop, lookupVars
  <2>2. lqN = lq /\ lwN = lw /\ btN = bt /\ hdN = hd /\ handN = hand
      BY <2>1 DEF batchVars
  <2>3. \/ EvalRecv(w) /\ eval' = eval
        \/ EvalRecv(w) /\ eval' = [eval EXCEPT ![w] = [pc |-> "busy", tx |-> Head(evalQ)]]
        \/ EvalReject(w) /\ eval' = [eval EXCEPT ![w] = Idle]
        \/ EvalAccept(w) /\ eval' = [eval EXCEPT ![w].pc = "sending"]
        \/ EvalSend(w) /\ eval' = [eval EXCEPT ![w] = Idle]
        \/ EvalStop(w) /\ eval' = [eval EXCEPT ![w] = Gone("stopped")]
        \/ EvalPanic(w) /\ eval' = [eval EXCEPT ![w] = Gone("panicked")]
      BY <1>6 DEF EvalStep, EvalRecv, EvalReject, EvalAccept, EvalSend, EvalStop, EvalPanic
  <2>4. /\ \A v \in EvalWorkers \ {w} : eval'[v].tx = eval[v].tx
        /\ EvalReject(w) \/ EvalSend(w) \/ EvalStop(w) \/ EvalPanic(w) => new = 0
        /\ EvalAccept(w) => new = old
        /\ EvalRecv(w) => eval' = eval \/ eval'[w].tx = Head(evalQ)
    <3>1. \A v \in EvalWorkers \ {w} : eval'[v].tx = eval[v].tx
        BY <1>b, <2>3
    <3>2. EvalReject(w) \/ EvalSend(w) \/ EvalStop(w) \/ EvalPanic(w)
            => eval'[w].tx = NoTx
        BY <1>b DEF EvalReject, EvalSend, EvalStop, EvalPanic, Idle, Gone
    <3>3. EvalAccept(w) => eval'[w].tx = eval[w].tx
        BY <1>b DEF EvalAccept
    <3>4. EvalRecv(w) => eval' = eval \/ eval'[w].tx = Head(evalQ)
        BY <1>b DEF EvalRecv
    <3>5. QED
        BY <1>b, <3>1, <3>2, <3>3, <3>4 DEF Is
  <2>5. ewN \in Nat /\ ewN + old = ew + new
    <3>1. \A v \in EvalWorkers \ {w} : eval'[v].tx = eval[v].tx
        BY <2>4
    <3>2. IsFiniteSet(EvalWorkers)
        BY PipelineAssumption
    <3>3. QED
        BY <3>1, <3>2, HeldUpdate
  <2>6. old \in {0, 1} /\ new \in {0, 1}
      BY <1>f
  <2>7. CASE EvalRecv(w)
    <3> DEFINE head == Is(Head(evalQ), tx)
    <3>1. evalQ # <<>> /\ evalQ' = Tail(evalQ) /\ UNCHANGED readyQ
        BY <2>7 DEF EvalRecv
    <3>2. evalQ' \in Seq(Txs)
        BY <1>a, <3>1, HeadTailProperties
    <3>3. eq = eqN + head
        BY <1>a, <3>1, OccurrencesTail
    <3>4. eqN \in Nat /\ rqN = rq /\ head \in {0, 1}
        BY <1>f, <3>1, <3>2, AtFinite
    <3>5. ewN = ew \/ new = head
        BY <2>4, <2>7
    <3> HIDE DEF hand, handN, lq, lw, eq, ew, rq, bt, hd, lqN, lwN, eqN, ewN, rqN, btN, hdN, old, new, head
    <3>6. Copies(tx)' <= Copies(tx)
        BY <1>c, <1>d, <1>e, <2>2, <2>5, <2>6, <3>3, <3>4, <3>5
    <3>7. QED
        BY <2>1, <3>6
  <2>8. CASE EvalReject(w) \/ EvalAccept(w) \/ EvalStop(w) \/ EvalPanic(w)
    <3>1. UNCHANGED <<evalQ, readyQ>>
        BY <2>8 DEF EvalReject, EvalAccept, EvalStop, EvalPanic
    <3>2. eqN = eq /\ rqN = rq /\ (new = 0 \/ new = old)
        BY <2>4, <2>8, <3>1
    <3> HIDE DEF hand, handN, lq, lw, eq, ew, rq, bt, hd, lqN, lwN, eqN, ewN, rqN, btN, hdN, old, new
    <3>3. Copies(tx)' <= Copies(tx)
        BY <1>c, <1>d, <1>e, <2>2, <2>5, <2>6, <3>2
    <3>4. QED
        BY <2>1, <3>3
  <2>9. CASE EvalSend(w)
    <3>1. /\ eval[w].tx \in Txs /\ readyQ' = Append(readyQ, eval[w].tx)
          /\ UNCHANGED evalQ
        BY <2>9 DEF EvalSend, TypeInv, InHand
    <3>2. rqN = rq + old
        BY <1>a, <3>1, OccurrencesAppend
    <3>3. eqN = eq /\ new = 0
        BY <2>4, <2>9, <3>1
    <3> HIDE DEF hand, handN, lq, lw, eq, ew, rq, bt, hd, lqN, lwN, eqN, ewN, rqN, btN, hdN, old, new
    <3>4. Copies(tx)' <= Copies(tx)
        BY <1>c, <1>d, <1>e, <2>2, <2>5, <2>6, <3>2, <3>3
    <3>5. QED
        BY <2>1, <3>4
  <2>10. QED
      BY <1>6, <2>7, <2>8, <2>9 DEF EvalStep
<1>7. CASE MempoolDeliver \/ SetRuntimePaused \/ MainDiscardPaused \/ MainDuplicate
           \/ ExecutorReturns \/ UNCHANGED vars
  <2>1. /\ UNCHANGED <<seenVars, lookupVars, evalVars, readyQ, batchVars>>
        /\ main'.pc # "sending" \/ main' = main
      BY <1>7 DEF MempoolDeliver, SetRuntimePaused, MainDiscardPaused, MainDuplicate,
          ExecutorReturns, ExecutorOk, ExecutorErr, vars
  <2>2. lqN = lq /\ lwN = lw /\ eqN = eq /\ ewN = ew /\ rqN = rq /\ btN = bt /\ hdN = hd
      BY <2>1 DEF lookupVars, evalVars, batchVars
  <2>3. handN = 0 \/ handN = hand
      BY <2>1
  <2> HIDE DEF hand, handN, lq, lw, eq, ew, rq, bt, hd, lqN, lwN, eqN, ewN, rqN, btN, hdN
  <2>4. Copies(tx)' <= Copies(tx)
      BY <1>c, <1>d, <1>e, <2>2, <2>3
  <2>5. QED
      BY <2>1, <2>4
<1>8. QED
    BY <1>1, <1>2, <1>3, <1>4, <1>5, <1>6, <1>7 DEF Next, MainStep

\* A victim is worked on or executed twice only if it has fallen out of the
\* dedup window, for any number of workers, any queue and window sizes: each
\* send, receive and flush moves its copy, and only the scan of a hash that
\* mark_seen_tx does not remember makes one.
THEOREM NoDuplicates == Spec => []DuplicateOnlyAfterEviction
<1>1. Init => DuplicateOnlyAfterEviction
  <2> SUFFICES ASSUME Init, NEW tx \in Txs PROVE Copies(tx) = 0
      BY DEF DuplicateOnlyAfterEviction, Copies
  <2>1. {i \in 1..Len(<<>>) : <<>>[i] = tx} = {}
      OBVIOUS
  <2>2. Occurrences(<<>>, tx) = 0
      BY <2>1, FS_EmptySet DEF Occurrences
  <2>3. /\ {w \in LookupWorkers : lookup[w].tx = tx} = {}
        /\ {w \in EvalWorkers : eval[w].tx = tx} = {}
      BY PipelineAssumption DEF Init, Idle
  <2>4. HeldBy(lookup, LookupWorkers, tx) = 0 /\ HeldBy(eval, EvalWorkers, tx) = 0
      BY <2>3, FS_EmptySet DEF HeldBy
  <2>5. QED
      BY <2>2, <2>4 DEF Init, Copies, InFlight
<1>2. ASSUME TypeInv, DuplicateOnlyAfterEviction, [Next]_vars, TypeInv'
      PROVE  DuplicateOnlyAfterEviction'
  <2> SUFFICES ASSUME NEW tx \in Txs, tx \notin evicted'
               PROVE  /\ Copies(tx)' <= 1
                      /\ Copies(tx)' = 1 => tx \in seenHashes'
      BY DEF DuplicateOnlyAfterEviction, Copies
  <2>1. Copies(tx) \in Nat /\ Copies(tx)' \in Nat
    <3>1. CopiesType /\ CopiesType'
        BY <1>2, CopiesAreNat, PTL
    <3>2. QED
        BY <3>1 DEF CopiesType
  <2>2. ASSUME NEW x \in Txs, ScansNew(x)
        PROVE  /\ evicted \subseteq evicted'
               /\ (seenHashes \cup {x}) \ evicted' \subseteq seenHashes'
      BY <2>2 DEF ScansNew, MarkSeen
  <2>3. CASE UNCHANGED seenVars /\ Copies(tx)' <= Copies(tx)
      BY <1>2, <2>1, <2>3 DEF DuplicateOnlyAfterEviction, Copies, seenVars
  <2>4. CASE Copies(tx)' <= Copies(tx) /\ \E x \in Txs \ {tx} : ScansNew(x)
    <3>1. tx \notin evicted /\ (tx \in seenHashes => tx \in seenHashes')
        BY <2>2, <2>4
    <3>2. QED
        BY <1>2, <2>1, <2>4, <3>1 DEF DuplicateOnlyAfterEviction, Copies
  <2>5. CASE ScansNew(tx) /\ Copies(tx)' <= Copies(tx) + 1
    <3>1. tx \notin evicted /\ tx \in seenHashes' /\ tx \notin seenHashes
        BY <2>2, <2>5 DEF ScansNew
    <3>2. Copies(tx) = 0
        BY <1>2, <2>1, <3>1 DEF DuplicateOnlyAfterEviction, Copies
    <3>3. QED
        BY <2>1, <2>5, <3>1, <3>2
  <2>6. QED
      BY <1>2, <2>3, <2>4, <2>5, NoStageCopies
<1>3. QED
    BY <1>1, <1>2, TypeInit, TypeStep, PTL DEF Spec

-----------------------------------------------------------------------------
(* The order of execution.                                                   *)

BestFirst ==
    handled' # handled =>
        \A i \in 1..Len(batch') : Score[batch'[i]] <= Score[handled'[Len(handled')]]

LEMMA FlushTakesBest ==
    ASSUME TypeInv, NEW s \in Seq(Txs), FlushCandidateBatch(s)
    PROVE  BestFirst
<1>1. PICK i \in 1..Len(s) : /\ IsBest(s, i)
                            /\ batch' = SwapRemove(s, i)
                            /\ handled' = Append(handled, s[i])
    BY DEF FlushCandidateBatch
<1>2. handled'[Len(handled')] = s[i]
    BY <1>1, AppendProperties, ElementOfSeq, LenProperties DEF TypeInv, TypeOK
<1>3. ASSUME NEW j \in 1..Len(batch') PROVE \E k \in 1..Len(s) : batch'[j] = s[k]
  <2>1. InSeq(batch') \subseteq InSeq(s)
      BY <1>1, InSeqSwapRemove
  <2>2. batch'[j] \in InSeq(batch')
      BY DEF InSeq
  <2>3. QED
      BY <2>1, <2>2 DEF InSeq
<1>4. QED
    BY <1>1, <1>2, <1>3 DEF BestFirst, IsBest

\* Whatever arrives in which order, the candidate that drain_best hands to the
\* executor outranks every one that it leaves in the batch, for any scores and
\* any batch size.
THEOREM BestIsFirst == Spec => BestCandidateFirst
<1>1. TypeInv /\ [Next]_vars => [BestFirst]_vars
  <2> SUFFICES ASSUME TypeInv, [Next]_vars PROVE BestFirst
      OBVIOUS
  <2>1. CASE MainReady
    <3>1. readyQ # <<>> /\ readyQ \in Seq(Txs) /\ batch \in Seq(Txs)
        BY <2>1 DEF MainReady, TypeInv, TypeOK
    <3>2. Append(batch, Head(readyQ)) \in Seq(Txs)
        BY <3>1, HeadTailProperties, AppendProperties
    <3>3. FlushCandidateBatch(Append(batch, Head(readyQ))) \/ handled' = handled
        BY <2>1 DEF MainReady
    <3>4. QED
        BY <3>2, <3>3, FlushTakesBest DEF BestFirst
  <2>2. CASE MainFlushTick
      BY <2>2, FlushTakesBest DEF MainFlushTick, TypeInv, TypeOK
  <2>3. CASE handled' = handled
      BY <2>3 DEF BestFirst
  <2>4. MainReady \/ MainFlushTick \/ handled' = handled
      BY DEF Next, MainStep, ExecutorReturns, LookupStep, EvalStep, MempoolDeliver,
          SetRuntimePaused, MainDiscardPaused, MainDuplicate, MainScanHash,
          MainScanFull, MainSend, ExecutorOk, ExecutorErr, LookupRecv,
          LookupReject, LookupAccept, LookupSend, LookupStop, EvalRecv, EvalPanic,
          EvalReject, EvalAccept, EvalSend, EvalStop, vars, batchVars
  <2>5. QED
      BY <2>1, <2>2, <2>3, <2>4
<1>2. QED
    BY <1>1, TypeInit, TypeStep, PTL DEF Spec, BestCandidateFirst, BestFirst
=============================================================================
