--------------------------- MODULE ExecutorProofs ---------------------------
(* Proofs about Executor, for any opportunities, submit paths, budgets,     *)
(* thresholds and freeze times: type correctness, the global stop-loss, the  *)
(* accounting of budget reservations and their limits, the balance of calls  *)
(* and results, and the contextual stop-loss of relays.                      *)
EXTENDS Executor, FiniteSetTheorems, TLAPS

Active == {"context", "preflight", "submitting", "observing"}

\* A call in progress works on an opportunity; a submission that can still
\* fail, or was accepted, has a path to blame.
CallInv ==
    /\ pc \in Active => cur \in Opps
    /\ pc = "submitting" => first \in Paths
    /\ pc = "observing" => path \in Paths

TypeInv == TypeOK /\ CallInv

-----------------------------------------------------------------------------
(* Facts about the operators.                                               *)

LEMMA DecayedType ==
    ASSUME NEW g \in ContextGuards, now \in Nat
    PROVE  Decayed(g) \in ContextGuards /\ Decayed(g).frozenUntil = g.frozenUntil
<1>1. DecayWindow \in Nat \ {0}
    BY ExecutorAssumption DEF DecayWindow
<1> DEFINE steps == (now - g.lastEvent) \div DecayWindow
<1>2. steps \in Int
    BY <1>1 DEF ContextGuards
<1> HIDE DEF steps
<1>3. g.losses > steps => g.losses - steps \in Nat
    BY <1>2 DEF ContextGuards
<1>4. \/ Decayed(g) = g
      \/ \E n \in Nat : Decayed(g) = [g EXCEPT !.losses = n, !.lastEvent = now]
  <2>1. (IF g.losses > steps THEN g.losses - steps ELSE 0) \in Nat
      BY <1>3
  <2>2. QED
      BY <2>1 DEF Decayed, steps
<1>5. CASE Decayed(g) = g
    BY <1>5
<1>6. ASSUME NEW n \in Nat, Decayed(g) = [g EXCEPT !.losses = n, !.lastEvent = now]
      PROVE  Decayed(g) \in ContextGuards /\ Decayed(g).frozenUntil = g.frozenUntil
    BY <1>6 DEF ContextGuards
<1>7. QED
    BY <1>4, <1>5, <1>6

LEMMA NoGuardType == NoGuard \in ContextGuards /\ NoGuard.frozenUntil = 0
    BY DEF NoGuard, ContextGuards

LEMMA KeyOfType ==
    ASSUME NEW o \in Opps, NEW p \in Paths
    PROVE  KeyOf(o, p) \in ContextKeys
    BY DEF KeyOf, ContextKeys

LEMMA SnapshotsType ==
    ASSUME TypeOK, NEW ranked
    PROVE  Snapshots(ranked) \in [ContextKeys -> ContextGuards]
<1>1. now \in Nat /\ context \in [ContextKeys -> ContextGuards]
    BY ExecutorAssumption DEF TypeOK
<1>2. \A k \in ContextKeys : Snapshot(context[k]) \in ContextGuards
    BY <1>1, DecayedType, NoGuardType DEF Snapshot
<1>3. QED
    BY <1>1, <1>2 DEF Snapshots

\* record_result leaves well-typed counters.
LEMMA RecordResultType ==
    ASSUME TypeOK, NEW success \in BOOLEAN, NEW win \in BOOLEAN, NEW p,
           RecordResult(success, win, p)
    PROVE  /\ guard' \in [losses : Nat, frozenUntil : Nat]
           /\ context' \in [ContextKeys -> ContextGuards]
           /\ pnl' \in [executions : Nat, failures : Nat]
<1>1. /\ now \in Nat /\ context \in [ContextKeys -> ContextGuards]
      /\ guard \in [losses : Nat, frozenUntil : Nat]
      /\ pnl \in [executions : Nat, failures : Nat]
    BY ExecutorAssumption DEF TypeOK
<1>2. guard' \in [losses : Nat, frozenUntil : Nat]
    BY <1>1, ExecutorAssumption DEF RecordResult, GuardAfter
<1>3. ASSUME NEW band \in Bands, NEW g \in ContextGuards
      PROVE  ContextAfter(g, win, band) \in ContextGuards
  <2>1. band \in 0..4
      BY ExecutorAssumption
  <2>2. FreezeTenths[band] \in Nat
      BY <2>1 DEF FreezeTenths
  <2>3. ContextFreezeSecs(band) \in Nat
      BY <2>2, ExecutorAssumption DEF ContextFreezeSecs
  <2>4. LossIncrement(band) \in Nat /\ ContextThreshold(band) \in Nat
      BY <2>1, ExecutorAssumption DEF LossIncrement, ContextThreshold
  <2>5. Decayed(g) \in ContextGuards
      BY <1>1, DecayedType
  <2>6. QED
    <3> DEFINE old == Decayed(g)
               losses == old.losses + LossIncrement(band)
    <3>1. losses \in Nat /\ now + ContextFreezeSecs(band) \in Nat
        BY <1>1, <2>3, <2>4, <2>5 DEF ContextGuards
    <3>2. \/ ContextAfter(g, win, band) = NoGuard
          \/ ContextAfter(g, win, band) = [losses |-> losses, lastEvent |-> now,
                 frozenUntil |-> now + ContextFreezeSecs(band)]
          \/ ContextAfter(g, win, band) =
                 [old EXCEPT !.losses = losses, !.lastEvent = now]
      <4>1. losses >= ContextThreshold(band) \/ losses < ContextThreshold(band)
          BY <2>4, <3>1
      <4>2. QED
          BY <4>1 DEF ContextAfter
    <3> HIDE DEF old, losses
    <3>3. [losses |-> losses, lastEvent |-> now,
           frozenUntil |-> now + ContextFreezeSecs(band)] \in ContextGuards
        BY <1>1, <3>1 DEF ContextGuards
    <3>4. [old EXCEPT !.losses = losses, !.lastEvent = now] \in ContextGuards
        BY <1>1, <2>5, <3>1 DEF ContextGuards, old
    <3>5. QED
        BY <3>2, <3>3, <3>4, NoGuardType
<1>4. PICK band \in Bands :
        context' = [k \in ContextKeys |->
                      IF k = KeyOf(cur, p)
                      THEN Kept(ContextAfter(context[k], win, band))
                      ELSE Kept(context[k])]
    BY DEF RecordResult
<1>5. \A g \in ContextGuards : Kept(g) \in ContextGuards
    BY NoGuardType DEF Kept
<1>6. context' \in [ContextKeys -> ContextGuards]
    BY <1>1, <1>3, <1>4, <1>5
<1>7. pnl' \in [executions : Nat, failures : Nat]
    BY <1>1 DEF RecordResult
<1>8. QED
    BY <1>2, <1>6, <1>7

-----------------------------------------------------------------------------
(* Type correctness.                                                        *)

LEMMA TypeInit == Init => TypeInv
<1> SUFFICES ASSUME Init PROVE TypeInv
    OBVIOUS
<1>1. /\ now \in 1..MaxTime /\ round \in 0..ObserveRounds
      /\ guard \in [losses : Nat, frozenUntil : Nat]
      /\ pnl \in [executions : Nat, failures : Nat]
    BY ExecutorAssumption DEF Init
<1>2. /\ context \in [ContextKeys -> ContextGuards]
      /\ chain \in [Opps -> ChainStates]
      /\ outcome \in [Opps -> Outcomes]
      /\ sentAt \in [Opps -> Nat]
    BY NoGuardType DEF Init, ChainStates, Outcomes
<1>3. QED
    BY <1>1, <1>2 DEF Init, TypeInv, TypeOK, CallInv, Active, Pcs

\* The end of a call that submitted.
LEMMA FinishType ==
    ASSUME TypeInv, NEW success \in BOOLEAN, NEW win \in BOOLEAN, NEW p,
           Finish(success, win, p)
    PROVE  /\ reservations' \subseteq Reservations
           /\ guard' \in [losses : Nat, frozenUntil : Nat]
           /\ context' \in [ContextKeys -> ContextGuards]
           /\ pnl' \in [executions : Nat, failures : Nat]
           /\ cur' = NoOpp /\ first' = NoPath /\ targets' = {}
           /\ path' = NoPath /\ round' = 0
<1>1. RecordResult(success, win, p)
    BY DEF Finish
<1>2. reservations' \subseteq Reservations
    BY DEF Finish, Release, TypeInv, TypeOK
<1>3. QED
    BY <1>1, <1>2, RecordResultType DEF Finish, TypeInv

LEMMA TypeStep == TypeInv /\ [Next]_vars => TypeInv'
<1> SUFFICES ASSUME TypeInv, [Next]_vars PROVE TypeInv'
    OBVIOUS
<1> USE DEF TypeInv
<1>a. now \in Nat /\ 0 \in 0..ObserveRounds
    BY ExecutorAssumption DEF TypeOK
<1>1. CASE Tick
    BY <1>1, ExecutorAssumption DEF Tick, TypeOK, CallInv, budgetVars, lossVars,
        submitVars, chainVars
<1>2. CASE ChainIncludes
  <2>1. chain' \in [Opps -> ChainStates]
      BY <1>2 DEF ChainIncludes, TypeOK, ChainStates
  <2>2. QED
      BY <1>2, <2>1 DEF ChainIncludes, TypeOK, CallInv, budgetVars, lossVars,
          submitVars
<1>3. CASE \E o \in Opps : HandleSkip(o)
    BY <1>3 DEF HandleSkip, TypeOK, CallInv, budgetVars, lossVars, submitVars,
        chainVars
<1>4. CASE \E o \in Opps : HandleAdmit(o)
  <2>1. guard' \in [losses : Nat, frozenUntil : Nat]
      BY <1>4 DEF HandleAdmit, LiftedGuard, TypeOK
  <2>2. QED
      BY <1>4, <2>1 DEF HandleAdmit, TypeOK, CallInv, Active, Pcs, budgetVars,
          submitVars, chainVars
<1>5. CASE SendContextErr
    BY <1>5 DEF SendContextErr, TypeOK, CallInv, Active, Pcs, budgetVars,
        lossVars, submitVars, chainVars
<1>6. CASE SendContextOk
  <2>1. ASSUME NEW balance \in Balances
        PROVE  TreasurySignal(balance)
                 \in [action : Actions, status : Statuses, amount : Nat]
    <3>1. balance \in Nat /\ TargetBuffer \in Nat
        BY ExecutorAssumption
    <3>2. /\ (IF TargetBuffer > balance THEN TargetBuffer - balance ELSE 0) \in Nat
          /\ (IF balance > TargetBuffer THEN balance - TargetBuffer ELSE 0) \in Nat
        BY <3>1
    <3>3. QED
        BY <3>2 DEF TreasurySignal, Actions, Statuses
  <2>2. treasury' \in [action : Actions, status : Statuses, amount : Nat]
      BY <1>6, <2>1 DEF SendContextOk
  <2>3. \/ pc' = "idle" /\ cur' = NoOpp
        \/ pc' = "preflight" /\ cur' = cur
      BY <1>6 DEF SendContextOk
  <2>4. QED
      BY <1>6, <2>2, <2>3 DEF SendContextOk, TypeOK, CallInv, Active, Pcs,
          budgetVars, lossVars, submitVars, chainVars
<1>7. CASE PreflightReject
    BY <1>7 DEF PreflightReject, TypeOK, CallInv, Active, Pcs, budgetVars,
        lossVars, submitVars, chainVars
<1>b. /\ Pruned \subseteq Reservations
      /\ pc = "preflight" => Reserved \subseteq Reservations
    BY <1>a DEF Pruned, Reserved, Reservations, TypeOK, CallInv, Active
<1>8. CASE BudgetBlocked
    BY <1>8, <1>b DEF BudgetBlocked, TypeOK, CallInv, Active, Pcs, lossVars,
        submitVars, chainVars
<1>9. CASE ContextBlocked
  <2>1. context' \in [ContextKeys -> ContextGuards]
      BY <1>9, SnapshotsType DEF ContextBlocked
  <2>2. QED
      BY <1>9, <1>b, <2>1 DEF ContextBlocked, TypeOK, CallInv, Active, Pcs,
          submitVars, chainVars
<1>c. CASE SignErr
  <2>1. context' \in [ContextKeys -> ContextGuards]
      BY <1>c, SnapshotsType DEF SignErr
  <2>2. QED
      BY <1>c, <1>b, <2>1 DEF SignErr, TypeOK, CallInv, Active, Pcs,
          submitVars, chainVars
<1>10. CASE Dispatch
  <2>1. context' \in [ContextKeys -> ContextGuards]
      BY <1>10, SnapshotsType DEF Dispatch
  <2>2. first' \in Paths /\ targets' \subseteq Paths
      BY <1>10 DEF Dispatch, Usable
  <2>3. sentAt' \in [Opps -> Nat]
      BY <1>10, <1>a DEF Dispatch, TypeOK
  <2>4. QED
      BY <1>10, <1>b, <2>1, <2>2, <2>3 DEF Dispatch, TypeOK, CallInv, Active, Pcs
<1>11. ASSUME NEW p \in Paths, SubmitAccepted(p) \/ SubmitFailed(p)
       PROVE  TypeInv'
  <2>1. chain' \in [Opps -> ChainStates]
      BY <1>11 DEF SubmitAccepted, SubmitFailed, Reached, TypeOK, ChainStates
  <2>2. CASE SubmitAccepted(p)
      BY <2>1, <2>2, <1>a DEF SubmitAccepted, TypeOK, CallInv, Active, Pcs,
          budgetVars, lossVars
  <2>3. CASE SubmitFailed(p)
      BY <2>1, <2>3 DEF SubmitFailed, TypeOK, CallInv, Active, Pcs,
          budgetVars, lossVars
  <2>4. QED
      BY <1>11, <2>2, <2>3
<1>12. CASE AllSubmitsFailed
  <2>1. Finish(FALSE, FALSE, first)
      BY <1>12 DEF AllSubmitsFailed
  <2>2. QED
      BY <1>12, <1>a, <2>1, FinishType DEF AllSubmitsFailed, TypeOK, CallInv,
          Active, Pcs, chainVars
<1>13. CASE ObserveReceipt
  <2>1. Finish(chain[cur] # "revert", chain[cur] = "profit", path)
      BY <1>13 DEF ObserveReceipt
  <2>2. outcome' \in [Opps -> Outcomes]
      BY <1>13 DEF ObserveReceipt, TypeOK, Outcomes
  <2>3. (chain[cur] # "revert") \in BOOLEAN /\ (chain[cur] = "profit") \in BOOLEAN
      OBVIOUS
  <2>4. QED
      BY <1>13, <1>a, <2>1, <2>2, <2>3, FinishType DEF ObserveReceipt, TypeOK,
          CallInv, Active, Pcs, chainVars
<1>14. CASE ObserveMiss
    BY <1>14, ExecutorAssumption DEF ObserveMiss, TypeOK, CallInv, Active,
        budgetVars, lossVars, chainVars
<1>15. CASE ObserveTimeout
  <2>1. Finish(FALSE, FALSE, path)
      BY <1>15 DEF ObserveTimeout
  <2>2. outcome' \in [Opps -> Outcomes]
      BY <1>15 DEF ObserveTimeout, TypeOK, Outcomes
  <2>3. QED
      BY <1>15, <1>a, <2>1, <2>2, FinishType DEF ObserveTimeout, TypeOK, CallInv,
          Active, Pcs, chainVars
<1>16. CASE UNCHANGED vars
    BY <1>16 DEF vars, TypeOK, CallInv, budgetVars, lossVars, submitVars, chainVars
<1>17. QED
    BY <1>1, <1>2, <1>3, <1>4, <1>5, <1>6, <1>7, <1>8, <1>9, <1>10, <1>11, <1>12,
       <1>13, <1>14, <1>15, <1>16, <1>c DEF Next, HandleStep

\* Every reachable state of the execution engine is well typed.
THEOREM TypeCorrect == Spec => []TypeOK
<1>1. TypeInv => TypeOK
    BY DEF TypeInv
<1>2. QED
    BY <1>1, TypeInit, TypeStep, PTL DEF Spec

-----------------------------------------------------------------------------
(* The global stop-loss.  The property speaks of calls in progress; between  *)
(* two calls it rests on the second conjunct, which says that a guard whose  *)
(* losses have reached the threshold is frozen.                              *)

StopLossInv ==
    /\ pc \in Active => guard.frozenUntil = 0
    /\ guard.frozenUntil = 0 => guard.losses < StopLossLosses

LEMMA StopLossStep ==
    ASSUME TypeInv, StopLossInv, [Next]_vars
    PROVE  StopLossInv'
<1>a. /\ guard \in [losses : Nat, frozenUntil : Nat] /\ now \in Nat
      /\ now + StopLossFreeze # 0
    BY ExecutorAssumption DEF TypeInv, TypeOK
<1>1. CASE \E o \in Opps : HandleAdmit(o)
  <2>1. guard' = LiftedGuard /\ ~GuardFrozen
      BY <1>1 DEF HandleAdmit
  <2>2. guard'.frozenUntil = 0 /\ guard'.losses < StopLossLosses
    <3>1. CASE guard.frozenUntil = 0
        BY <2>1, <3>1 DEF LiftedGuard, StopLossInv
    <3>2. CASE guard.frozenUntil # 0
        BY <2>1, <3>2, ExecutorAssumption DEF LiftedGuard
    <3>3. QED
        BY <3>1, <3>2
  <2>3. QED
      BY <2>2 DEF StopLossInv
<1>2. ASSUME NEW success, NEW win \in BOOLEAN, NEW p,
             Finish(success, win, p), pc \in Active, pc' \notin Active
      PROVE  StopLossInv'
  <2>1. guard' = GuardAfter(win) /\ guard.frozenUntil = 0
      BY <1>2 DEF Finish, RecordResult, StopLossInv
  <2>2. guard'.frozenUntil = 0 => guard'.losses < StopLossLosses
    <3>1. CASE win
        BY <2>1, <3>1, ExecutorAssumption DEF GuardAfter
    <3>2. CASE ~win /\ guard.losses + 1 >= StopLossLosses
        BY <1>a, <2>1, <3>2 DEF GuardAfter
    <3>3. CASE ~win /\ guard.losses + 1 < StopLossLosses
      <4>1. ~(guard.losses + 1 >= StopLossLosses)
          BY <1>a, <3>3, ExecutorAssumption
      <4>2. guard' = [guard EXCEPT !.losses = guard.losses + 1]
          BY <2>1, <3>3, <4>1 DEF GuardAfter
      <4>3. QED
          BY <1>a, <3>3, <4>2
    <3>4. QED
        BY <1>a, <3>1, <3>2, <3>3, ExecutorAssumption
  <2>3. QED
      BY <1>2, <2>2 DEF StopLossInv
<1>3. CASE AllSubmitsFailed
    BY <1>2, <1>3 DEF AllSubmitsFailed, Active
<1>4. CASE ObserveReceipt
  <2>1. (chain[cur] = "profit") \in BOOLEAN
      OBVIOUS
  <2>2. QED
      BY <1>2, <1>4, <2>1 DEF ObserveReceipt, Active
<1>5. CASE ObserveTimeout
    BY <1>2, <1>5 DEF ObserveTimeout, Active
<1>6. CASE UNCHANGED guard /\ (pc' \in Active => pc \in Active)
    BY <1>6 DEF StopLossInv
<1>7. \/ \E o \in Opps : HandleAdmit(o)
      \/ AllSubmitsFailed \/ ObserveReceipt \/ ObserveTimeout
      \/ UNCHANGED guard /\ (pc' \in Active => pc \in Active)
    BY DEF Next, HandleStep, Tick, ChainIncludes, HandleSkip, SendContextErr,
        SendContextOk, PreflightReject, BudgetBlocked, ContextBlocked, SignErr,
        Dispatch, SubmitAccepted, SubmitFailed, ObserveMiss, vars, lossVars, Active
<1>8. QED
    BY <1>1, <1>3, <1>4, <1>5, <1>6, <1>7

\* No call of `handle` gets past the global stop-loss while the consecutive
\* losses are at the threshold, for every threshold and freeze time: a call
\* in progress sees a clear guard below its threshold.
THEOREM StopLossHolds == Spec => []NoSubmitAfterStopLoss
<1>1. Init => StopLossInv
    BY ExecutorAssumption DEF Init, StopLossInv, Active
<1>2. TypeInv /\ StopLossInv /\ [Next]_vars => StopLossInv'
    BY StopLossStep
<1>3. StopLossInv => NoSubmitAfterStopLoss
    BY DEF StopLossInv, NoSubmitAfterStopLoss, Active
<1>4. QED
    BY <1>1, <1>2, <1>3, TypeInit, TypeStep, PTL DEF Spec

-----------------------------------------------------------------------------
(* Budget reservations.  The invariant adds when the call in progress owns   *)
(* one: only after it was dispatched.                                        *)

AccountInv ==
    \A r \in reservations :
        \/ r.victim \in unreleased
        \/ r.victim = cur /\ pc \in {"submitting", "observing"}

LEMMA AccountStep ==
    ASSUME TypeInv, AccountInv, [Next]_vars
    PROVE  AccountInv'
<1>1. CASE ContextBlocked \/ SignErr
    BY <1>1 DEF ContextBlocked, SignErr, Reserved, Pruned, AccountInv
<1>2. CASE Dispatch
    BY <1>2 DEF Dispatch, Reserved, Pruned, AccountInv
<1>3. CASE BudgetBlocked
    BY <1>3 DEF BudgetBlocked, Pruned, AccountInv
<1>4. CASE AllSubmitsFailed \/ ObserveReceipt \/ ObserveTimeout
  <2>1. reservations' = Release(cur) /\ UNCHANGED unreleased
      BY <1>4 DEF AllSubmitsFailed, ObserveReceipt, ObserveTimeout, Finish
  <2>2. QED
      BY <2>1 DEF Release, AccountInv
<1>5. CASE \E p \in Paths : SubmitAccepted(p) \/ SubmitFailed(p)
    BY <1>5 DEF SubmitAccepted, SubmitFailed, AccountInv, budgetVars
<1>6. CASE /\ UNCHANGED <<reservations, unreleased>>
           /\ pc \in {"submitting", "observing"} => UNCHANGED <<pc, cur>>
    BY <1>6 DEF AccountInv
<1>7. \/ ContextBlocked \/ SignErr \/ Dispatch \/ BudgetBlocked
      \/ AllSubmitsFailed \/ ObserveReceipt \/ ObserveTimeout
      \/ \E p \in Paths : SubmitAccepted(p) \/ SubmitFailed(p)
      \/ /\ UNCHANGED <<reservations, unreleased>>
         /\ pc \in {"submitting", "observing"} => UNCHANGED <<pc, cur>>
    BY DEF Next, HandleStep, Tick, ChainIncludes, HandleSkip, HandleAdmit,
        SendContextErr, SendContextOk, PreflightReject, ObserveMiss, vars,
        budgetVars
<1>8. QED
    BY <1>1, <1>2, <1>3, <1>4, <1>5, <1>6, <1>7

\* Reserved capital belongs to the call in progress or to a call that ended at
\* the contextual stop-loss or in the signer; every other end of a call
\* releases its budget.
THEOREM BudgetIsAccounted == Spec => []ReservationsAccounted
<1>1. Init => AccountInv
    BY DEF Init, AccountInv
<1>2. TypeInv /\ AccountInv /\ [Next]_vars => AccountInv'
    BY AccountStep
<1>3. AccountInv => ReservationsAccounted
    BY DEF AccountInv, ReservationsAccounted
<1>4. QED
    BY <1>1, <1>2, <1>3, TypeInit, TypeStep, PTL DEF Spec

-----------------------------------------------------------------------------
(* The contextual stop-loss of relays.                                      *)

LEMMA RelayStep ==
    ASSUME TypeInv, RelaySubmitsUnfrozen, [Next]_vars
    PROVE  RelaySubmitsUnfrozen'
<1>1. CASE Dispatch
  <2>1. PICK ranked \in SUBSET Paths :
          /\ context' = Snapshots(ranked)
          /\ setup.bundle => targets' \subseteq Usable(ranked)
      BY <1>1 DEF Dispatch
  <2>2. cur \in Opps /\ cur' = cur /\ setup' = setup
      BY <1>1 DEF Dispatch, TypeInv, CallInv, Active
  <2>3. ASSUME NEW p \in Usable(ranked)
        PROVE  context'[KeyOf(cur, p)].frozenUntil = 0
    <3> DEFINE k == KeyOf(cur, p)
    <3>1. p \in ranked /\ p \in Paths /\ k \in ContextKeys /\ ~ContextFrozen(context[k])
        BY <2>1, <2>2, <2>3, KeyOfType DEF Usable
    <3>2. context'[k] = Snapshot(context[k])
        BY <2>1, <3>1 DEF Snapshots
    <3>3. context[k] \in ContextGuards /\ now \in Nat
        BY <3>1, ExecutorAssumption DEF TypeInv, TypeOK
    <3>4. Decayed(context[k]).frozenUntil = context[k].frozenUntil
        BY <3>3, DecayedType
    <3>5. QED
        BY <3>1, <3>2, <3>4, NoGuardType DEF Snapshot
  <2>4. \A p : KeyOf(cur, p)' = KeyOf(cur, p)
      BY <2>2 DEF KeyOf
  <2>5. QED
      BY <2>1, <2>2, <2>3, <2>4 DEF RelaySubmitsUnfrozen, KeyOf
<1>2. CASE /\ targets' \subseteq targets /\ UNCHANGED <<context, cur, setup>>
           /\ pc' = "submitting" => pc = "submitting"
    BY <1>2 DEF RelaySubmitsUnfrozen, KeyOf
<1>3. CASE pc' # "submitting"
    BY <1>3 DEF RelaySubmitsUnfrozen
<1>4. \/ Dispatch \/ pc' # "submitting"
      \/ /\ targets' \subseteq targets /\ UNCHANGED <<context, cur, setup>>
         /\ pc' = "submitting" => pc = "submitting"
    BY DEF Next, HandleStep, Tick, ChainIncludes, HandleSkip, HandleAdmit,
        SendContextErr, SendContextOk, PreflightReject, BudgetBlocked,
        ContextBlocked, SignErr, SubmitAccepted, SubmitFailed, AllSubmitsFailed,
        ObserveReceipt, ObserveMiss, ObserveTimeout, vars, lossVars, submitVars
<1>5. QED
    BY <1>1, <1>2, <1>3, <1>4

\* In bundle mode a relay with a frozen pair and router is never submitted to,
\* for any relays, thresholds and freeze times.
THEOREM RelayFreezeHolds == Spec => []RelaySubmitsUnfrozen
<1>1. Init => RelaySubmitsUnfrozen
    BY DEF Init, RelaySubmitsUnfrozen
<1>2. TypeInv /\ RelaySubmitsUnfrozen /\ [Next]_vars => RelaySubmitsUnfrozen'
    BY RelayStep
<1>3. QED
    BY <1>1, <1>2, TypeInit, TypeStep, PTL DEF Spec

-----------------------------------------------------------------------------
(* The limits of the capital budget.  The capital of a set of reservations   *)
(* is the number of its units, so that it is monotone and subadditive by the *)
(* laws of cardinality; the units stay finite because a call adds one        *)
(* reservation at a time.                                                    *)

LEMMA UnitsOf ==
    ASSUME NEW S, NEW u
    PROVE  u \in Units(S)
             <=> \E r \in S : u \in {r} \X (1..Info[r.victim].capital)
    BY DEF Units

LEMMA ExposureMonotone ==
    ASSUME NEW T, IsFiniteSet(Units(T)), NEW S \in SUBSET T
    PROVE  /\ IsFiniteSet(Units(S))
           /\ Exposure(S) \in Nat /\ Exposure(T) \in Nat
           /\ Exposure(S) <= Exposure(T)
<1>1. Units(S) \subseteq Units(T)
    BY UnitsOf
<1>2. QED
    BY <1>1, FS_Subset, FS_CardinalityType DEF Exposure

LEMMA ExposureAdds ==
    ASSUME NEW S, IsFiniteSet(Units(S)), NEW r \in Reservations
    PROVE  /\ IsFiniteSet(Units(S \cup {r}))
           /\ Exposure(S \cup {r}) <= Exposure(S) + Info[r.victim].capital
<1> DEFINE c == Info[r.victim].capital
           new == {r} \X (1..c)
<1>1. c \in Nat
    BY ExecutorAssumption DEF Reservations, Infos
<1> HIDE DEF c
<1>2. IsFiniteSet(1..c) /\ Cardinality(1..c) = c
    BY <1>1, FS_Interval
<1>3. IsFiniteSet({r}) /\ Cardinality({r}) = 1
    BY FS_Singleton
<1>4. IsFiniteSet(new) /\ Cardinality(new) = c
  <2>1. IsFiniteSet(new) /\ Cardinality(new) = Cardinality({r}) * Cardinality(1..c)
      BY <1>2, <1>3, FS_Product
  <2>2. QED
      BY <1>1, <1>2, <1>3, <2>1
<1>5. Units(S \cup {r}) = Units(S) \cup new
    BY UnitsOf DEF c
<1> HIDE DEF new
<1>6. /\ IsFiniteSet(Units(S) \cup new)
      /\ Cardinality(Units(S) \cup new)
            = Cardinality(Units(S)) + Cardinality(new) - Cardinality(Units(S) \cap new)
    BY <1>4, FS_Union
<1>7. Cardinality(Units(S) \cap new) \in Nat /\ Cardinality(Units(S)) \in Nat
    BY FS_Intersection, FS_CardinalityType
<1>8. Cardinality(Units(S) \cup new) <= Cardinality(Units(S)) + c
    BY <1>1, <1>4, <1>6, <1>7
<1>9. QED
    BY <1>5, <1>6, <1>8 DEF Exposure, c

BudgetInv == IsFiniteSet(Units(reservations)) /\ BudgetWithinLimits

LEMMA BudgetShrinks ==
    ASSUME BudgetInv, reservations' \subseteq reservations
    PROVE  BudgetInv'
<1>1. ASSUME NEW S \in SUBSET reservations
      PROVE  /\ IsFiniteSet(Units(S)) /\ Exposure(S) \in Nat
             /\ Exposure(reservations) \in Nat /\ Exposure(S) <= Exposure(reservations)
    BY ExposureMonotone DEF BudgetInv
<1>2. IsFiniteSet(Units(reservations')) /\ Exposure(reservations') <= MaxWindowExposure
    BY <1>1, ExecutorAssumption DEF BudgetInv, BudgetWithinLimits
<1>3. ASSUME NEW S, NEW T \in SUBSET S, S \subseteq reservations, NEW m \in Nat,
             Exposure(S) <= m
      PROVE  Exposure(T) <= m
  <2>1. IsFiniteSet(Units(S))
      BY <1>1, <1>3
  <2>2. Exposure(T) \in Nat /\ Exposure(S) \in Nat /\ Exposure(T) <= Exposure(S)
      BY <2>1, ExposureMonotone
  <2>3. QED
      BY <1>3, <2>2
<1>4. ASSUME NEW o \in Opps
      PROVE  /\ Exposure({r \in reservations' : Info[r.victim].cluster = Info[o].cluster})
                   <= MaxClusterExposure
             /\ Exposure({r \in reservations' : Info[r.victim].pair = Info[o].pair})
                   <= MaxPairExposure
  <2> DEFINE C(S) == {r \in S : Info[r.victim].cluster = Info[o].cluster}
             P(S) == {r \in S : Info[r.victim].pair = Info[o].pair}
  <2>1. /\ Exposure(C(reservations)) <= MaxClusterExposure
        /\ Exposure(P(reservations)) <= MaxPairExposure
      BY DEF BudgetInv, BudgetWithinLimits
  <2>2. /\ C(reservations') \in SUBSET C(reservations) /\ C(reservations) \subseteq reservations
        /\ P(reservations') \in SUBSET P(reservations) /\ P(reservations) \subseteq reservations
      OBVIOUS
  <2> HIDE DEF C, P
  <2>3. Exposure(C(reservations')) <= MaxClusterExposure
      BY <1>3, <2>1, <2>2, ExecutorAssumption
  <2>4. Exposure(P(reservations')) <= MaxPairExposure
      BY <1>3, <2>1, <2>2, ExecutorAssumption
  <2>5. QED
      BY <2>3, <2>4 DEF C, P
<1>5. QED
    BY <1>2, <1>4 DEF BudgetInv, BudgetWithinLimits, Exposure, Units

\* check_and_reserve: the call's reservation is added to the pruned ones.
LEMMA BudgetGrows ==
    ASSUME TypeInv, BudgetInv, pc = "preflight", BudgetAllows,
           reservations' = Reserved
    PROVE  BudgetInv'
<1> DEFINE new == [victim |-> cur, at |-> now]
<1>1. cur \in Opps /\ new \in Reservations /\ Info[cur].capital \in Nat
  <2>1. cur \in Opps /\ now \in Nat
      BY ExecutorAssumption DEF TypeInv, TypeOK, CallInv, Active
  <2>2. QED
      BY <2>1, ExecutorAssumption DEF Reservations, Infos
<1>2. new.victim = cur /\ Reserved = Pruned \cup {new}
    BY DEF Reserved
<1>3. Pruned \in SUBSET reservations
    BY DEF Pruned
<1> HIDE DEF new
<1>4. ASSUME NEW S \in SUBSET Pruned, NEW m \in Nat,
             Exposure(S) + Info[cur].capital <= m
      PROVE  IsFiniteSet(Units(S \cup {new})) /\ Exposure(S \cup {new}) <= m
  <2>1. S \in SUBSET reservations /\ IsFiniteSet(Units(reservations))
      BY <1>3 DEF BudgetInv
  <2>2. IsFiniteSet(Units(S)) /\ Exposure(S) \in Nat
      BY <2>1, ExposureMonotone
  <2>3. /\ IsFiniteSet(Units(S \cup {new}))
        /\ Exposure(S \cup {new}) <= Exposure(S) + Info[cur].capital
      BY <1>1, <1>2, <2>2, ExposureAdds
  <2>4. Exposure(S \cup {new}) \in Nat
      BY <2>3, FS_CardinalityType DEF Exposure
  <2>5. QED
      BY <1>1, <1>4, <2>2, <2>3, <2>4
<1>5. ASSUME NEW S, NEW T \in SUBSET S, S \subseteq reservations, NEW m \in Nat,
             Exposure(S) <= m
      PROVE  Exposure(T) <= m
  <2>1. IsFiniteSet(Units(S))
      BY <1>5, ExposureMonotone DEF BudgetInv
  <2>2. Exposure(T) \in Nat /\ Exposure(S) \in Nat /\ Exposure(T) <= Exposure(S)
      BY <2>1, ExposureMonotone
  <2>3. QED
      BY <1>5, <2>2
<1>6. /\ Exposure(Pruned) + Info[cur].capital <= MaxWindowExposure
      /\ Exposure(Same(Pruned, "cluster")) + Info[cur].capital <= MaxClusterExposure
      /\ Exposure(Same(Pruned, "pair")) + Info[cur].capital <= MaxPairExposure
    BY DEF BudgetAllows
<1>7. IsFiniteSet(Units(reservations')) /\ Exposure(reservations') <= MaxWindowExposure
    BY <1>2, <1>4, <1>6, ExecutorAssumption
<1>8. ASSUME NEW o \in Opps
      PROVE  Exposure({r \in reservations' : Info[r.victim].cluster = Info[o].cluster})
                 <= MaxClusterExposure
  <2> DEFINE C(S) == {r \in S : Info[r.victim].cluster = Info[o].cluster}
  <2>1. CASE Info[o].cluster = Info[cur].cluster
    <3>1. C(reservations') = Same(Pruned, "cluster") \cup {new}
        BY <1>2, <2>1 DEF Same
    <3>2. Same(Pruned, "cluster") \in SUBSET Pruned
        BY DEF Same
    <3>3. QED
        BY <1>4, <1>6, <3>1, <3>2, ExecutorAssumption
  <2>2. CASE Info[o].cluster # Info[cur].cluster
    <3>1. C(reservations') \in SUBSET C(reservations) /\ C(reservations) \subseteq reservations
        BY <1>2, <1>3, <2>2
    <3>2. Exposure(C(reservations)) <= MaxClusterExposure
        BY DEF BudgetInv, BudgetWithinLimits
    <3> HIDE DEF C
    <3>3. Exposure(C(reservations')) <= MaxClusterExposure
        BY <1>5, <3>1, <3>2, ExecutorAssumption
    <3>4. QED
        BY <3>3 DEF C
  <2>3. QED
      BY <2>1, <2>2
<1>9. ASSUME NEW o \in Opps
      PROVE  Exposure({r \in reservations' : Info[r.victim].pair = Info[o].pair})
                 <= MaxPairExposure
  <2> DEFINE C(S) == {r \in S : Info[r.victim].pair = Info[o].pair}
  <2>1. CASE Info[o].pair = Info[cur].pair
    <3>1. C(reservations') = Same(Pruned, "pair") \cup {new}
        BY <1>2, <2>1 DEF Same
    <3>2. Same(Pruned, "pair") \in SUBSET Pruned
        BY DEF Same
    <3>3. QED
        BY <1>4, <1>6, <3>1, <3>2, ExecutorAssumption
  <2>2. CASE Info[o].pair # Info[cur].pair
    <3>1. C(reservations') \in SUBSET C(reservations) /\ C(reservations) \subseteq reservations
        BY <1>2, <1>3, <2>2
    <3>2. Exposure(C(reservations)) <= MaxPairExposure
        BY DEF BudgetInv, BudgetWithinLimits
    <3> HIDE DEF C
    <3>3. Exposure(C(reservations')) <= MaxPairExposure
        BY <1>5, <3>1, <3>2, ExecutorAssumption
    <3>4. QED
        BY <3>3 DEF C
  <2>3. QED
      BY <2>1, <2>2
<1>10. QED
    BY <1>7, <1>8, <1>9 DEF BudgetInv, BudgetWithinLimits, Exposure, Units

LEMMA BudgetStep ==
    ASSUME TypeInv, BudgetInv, [Next]_vars
    PROVE  BudgetInv'
<1>1. \/ reservations' \subseteq reservations
      \/ pc = "preflight" /\ BudgetAllows /\ reservations' = Reserved
    BY DEF Next, HandleStep, Tick, ChainIncludes, HandleSkip, HandleAdmit,
        SendContextErr, SendContextOk, PreflightReject, BudgetBlocked,
        ContextBlocked, SignErr, Dispatch, SubmitAccepted, SubmitFailed,
        AllSubmitsFailed, ObserveReceipt, ObserveMiss, ObserveTimeout, Finish,
        Release, Pruned, vars, budgetVars
<1>2. QED
    BY <1>1, BudgetShrinks, BudgetGrows

\* The capital budget never holds more reserved capital than its limits, in
\* total, per cluster and per pair, for every limit, window and opportunity:
\* check_and_reserve is the only way in, and pruning and releasing only shrink.
THEOREM BudgetHolds == Spec => []BudgetWithinLimits
<1>1. Init => BudgetInv
  <2> SUFFICES ASSUME Init PROVE BudgetInv
      OBVIOUS
  <2>1. ASSUME NEW S, S \subseteq {} PROVE Units(S) = {}
      BY <2>1 DEF Units
  <2>2. IsFiniteSet({}) /\ Cardinality({}) = 0
      BY FS_EmptySet
  <2>3. ASSUME NEW S, S \subseteq {}, NEW m \in Nat PROVE Exposure(S) <= m
      BY <2>1, <2>2, <2>3 DEF Exposure
  <2>4. QED
      BY <2>1, <2>2, <2>3, ExecutorAssumption DEF Init, BudgetInv, BudgetWithinLimits
<1>2. TypeInv /\ BudgetInv /\ [Next]_vars => BudgetInv'
    BY BudgetStep
<1>3. BudgetInv => BudgetWithinLimits
    BY DEF BudgetInv
<1>4. QED
    BY <1>1, <1>2, <1>3, TypeInit, TypeStep, PTL DEF Spec

-----------------------------------------------------------------------------
(* One result per dispatch.  An opportunity is dispatched at most once: its  *)
(* call is the only one that takes it, and sentAt is still 0 until then.     *)

Sent == {o \in Opps : sentAt[o] > 0}

ResultInv ==
    /\ IsFiniteSet(Sent)
    /\ Sent \subseteq taken
    /\ cur \in Opps => cur \in taken
    /\ pc \in {"context", "preflight"} => cur \notin Sent
    /\ OneResultPerDispatch

LEMMA ResultStep ==
    ASSUME TypeInv, ResultInv, [Next]_vars
    PROVE  ResultInv'
<1> DEFINE open == IF pc \in {"submitting", "observing"} THEN 1 ELSE 0
<1>a. /\ pnl \in [executions : Nat, failures : Nat]
      /\ pnl.executions + open = Cardinality(Sent)
    BY DEF ResultInv, OneResultPerDispatch, TypeInv, TypeOK, Sent
<1>b. /\ ResultInv' = /\ IsFiniteSet(Sent')
                      /\ Sent' \subseteq taken'
                      /\ cur' \in Opps => cur' \in taken'
                      /\ pc' \in {"context", "preflight"} => cur' \notin Sent'
                      /\ pnl'.executions + open' = Cardinality(Sent')
    BY DEF ResultInv, OneResultPerDispatch, Sent
<1>1. CASE \E o \in Opps : HandleAdmit(o)
    BY <1>1, <1>a, <1>b DEF HandleAdmit, ResultInv, Sent, chainVars
<1>2. CASE \E o \in Opps : HandleSkip(o)
    BY <1>2, <1>a, <1>b DEF HandleSkip, ResultInv, Sent, chainVars, lossVars
<1>3. CASE Dispatch
  <2>1. cur \in Opps /\ cur \notin Sent /\ now > 0
      BY <1>3, ExecutorAssumption DEF Dispatch, ResultInv, TypeInv, TypeOK, CallInv, Active
  <2>2. Sent' = Sent \cup {cur}
      BY <1>3, <2>1 DEF Dispatch, Sent, TypeInv, TypeOK
  <2>3. IsFiniteSet(Sent') /\ Cardinality(Sent') = Cardinality(Sent) + 1
      BY <2>1, <2>2, FS_AddElement DEF ResultInv
  <2>4. pnl' = pnl /\ open = 0 /\ open' = 1
      BY <1>3 DEF Dispatch
  <2>5. QED
      BY <1>3, <1>a, <1>b, <2>1, <2>2, <2>3, <2>4 DEF Dispatch, ResultInv
<1>4. CASE AllSubmitsFailed \/ ObserveReceipt \/ ObserveTimeout
  <2>0. PICK success, win, p : Finish(success, win, p)
      BY <1>4 DEF AllSubmitsFailed, ObserveReceipt, ObserveTimeout
  <2>1. /\ pnl'.executions = pnl.executions + 1 /\ cur' = NoOpp
        /\ UNCHANGED <<sentAt, taken>> /\ open = 1 /\ open' = 0
        /\ pc' \in {"idle", "failed"}
    <3>1. pnl'.executions = pnl.executions + 1 /\ cur' = NoOpp
        BY <2>0 DEF Finish, RecordResult
    <3>2. /\ UNCHANGED <<sentAt, taken>> /\ pc \in {"submitting", "observing"}
          /\ pc' \in {"idle", "failed"}
        BY <1>4 DEF AllSubmitsFailed, ObserveReceipt, ObserveTimeout, chainVars
    <3>3. QED
        BY <3>1, <3>2
  <2>2. Sent' = Sent
      BY <2>1 DEF Sent
  <2>3. QED
      BY <1>a, <1>b, <2>1, <2>2, ExecutorAssumption DEF ResultInv
<1>5. CASE /\ UNCHANGED <<sentAt, taken>> /\ pnl' = pnl
           /\ cur' \in {cur, NoOpp}
           /\ pc' \in {"context", "preflight"}
                => pc \in {"context", "preflight"} /\ cur' = cur
           /\ pc' \in {"submitting", "observing"}
                <=> pc \in {"submitting", "observing"}
  <2>1. Sent' = Sent
      BY <1>5 DEF Sent
  <2>2. QED
      BY <1>5, <1>a, <1>b, <2>1, ExecutorAssumption DEF ResultInv
<1>6. \/ \E o \in Opps : HandleAdmit(o) \/ HandleSkip(o)
      \/ Dispatch \/ AllSubmitsFailed \/ ObserveReceipt \/ ObserveTimeout
      \/ /\ UNCHANGED <<sentAt, taken>> /\ pnl' = pnl
         /\ cur' \in {cur, NoOpp}
         /\ pc' \in {"context", "preflight"}
              => pc \in {"context", "preflight"} /\ cur' = cur
         /\ pc' \in {"submitting", "observing"}
              <=> pc \in {"submitting", "observing"}
    BY DEF Next, HandleStep, Tick, ChainIncludes, SendContextErr, SendContextOk,
        PreflightReject, BudgetBlocked, ContextBlocked, SignErr, SubmitAccepted,
        SubmitFailed, ObserveMiss, vars, lossVars, chainVars
<1>7. QED
    BY <1>1, <1>2, <1>3, <1>4, <1>5, <1>6

\* Every dispatched call feeds the loss counters and the PnL tracker exactly
\* once, for any number of opportunities, submit paths and polling rounds.
THEOREM ResultsBalance == Spec => []OneResultPerDispatch
<1>1. Init => ResultInv
  <2> SUFFICES ASSUME Init PROVE ResultInv
      OBVIOUS
  <2>1. Sent = {}
      BY DEF Init, Sent
  <2>2. QED
      BY <2>1, FS_EmptySet, ExecutorAssumption DEF Init, ResultInv, OneResultPerDispatch, Sent
<1>2. TypeInv /\ ResultInv /\ [Next]_vars => ResultInv'
    BY ResultStep
<1>3. ResultInv => OneResultPerDispatch
    BY DEF ResultInv
<1>4. QED
    BY <1>1, <1>2, <1>3, TypeInit, TypeStep, PTL DEF Spec
=============================================================================
