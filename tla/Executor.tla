------------------------------ MODULE Executor ------------------------------
(* ExecutionEngine of mev/execution/executor.rs: one call of `handle` per    *)
(* candidate, with the capital budget, the global and the contextual         *)
(* stop-loss, the treasury signal, the parallel submission and the           *)
(* observation of the realized outcome.  The runtime awaits each call, so    *)
(* calls do not overlap; time passes and the chain moves at every await.     *)
EXTENDS Naturals, FiniteSets, FiniteSetsExt

CONSTANTS
    Opps,              \* opportunities, one per victim transaction
    NoOpp,             \* no call in progress
    Info,              \* Info[o]: pair, router, cluster and committed capital
    Paths,             \* submit paths: RPC endpoints or bundle relays
    NoPath,
    Balances,          \* hot wallet balances that a node may report
    MinBuffer, TargetBuffer, MaxBuffer,
    CapitalWindow,     \* MEV_CAPITAL_WINDOW_SECS
    MaxWindowExposure, MaxClusterExposure, MaxPairExposure,
    StopLossLosses,    \* MEV_STOP_LOSS_CONSECUTIVE_LOSSES
    StopLossFreeze,    \* MEV_STOP_LOSS_FREEZE_SECS
    ContextLosses,     \* MEV_CONTEXT_STOP_LOSS_CONSECUTIVE_LOSSES
    ContextFreeze,     \* MEV_CONTEXT_STOP_LOSS_FREEZE_SECS
    DecayFloor,        \* the 30 s floor of the quiet window
    Fanout,            \* MEV_RPC_FANOUT_COUNT / MEV_RELAY_FANOUT_COUNT
    ObserveRounds,     \* polling rounds of observe_realized_pnl (10)
    Bands,             \* bands of the regime pressure, see record_result
    Setups,            \* start-up configurations: send, preflight, bundle
    MaxTime            \* bound: clock ticks of a behaviour

Infos == [pair : {Info[o].pair : o \in Opps},
          router : {Info[o].router : o \in Opps},
          cluster : {Info[o].cluster : o \in Opps},
          capital : Nat]

SetupType == [allowSend : BOOLEAN, preflight : BOOLEAN, bundle : BOOLEAN]

ASSUME ExecutorAssumption ==
    /\ NoOpp \notin Opps /\ NoPath \notin Paths
    /\ Info \in [Opps -> Infos]
    /\ Balances \subseteq Nat
    /\ {MinBuffer, TargetBuffer, MaxBuffer} \subseteq Nat
    /\ CapitalWindow \in Nat
    /\ {MaxWindowExposure, MaxClusterExposure, MaxPairExposure} \subseteq Nat
    /\ StopLossLosses \in Nat \ {0} /\ StopLossFreeze \in Nat \ {0}
    /\ ContextLosses \in Nat /\ ContextFreeze \in Nat
    /\ DecayFloor \in Nat \ {0}
    /\ Fanout \in Nat \ {0} /\ ObserveRounds \in Nat
    /\ Bands \subseteq 0..4
    /\ Setups \subseteq SetupType
    /\ MaxTime \in Nat \ {0}

VARIABLES
    now,           \* Instant::now(), from 1; 0 stands for None
    setup,         \* the configuration of this process
    pc,            \* where the call of `handle` is
    cur,           \* the opportunity it works on
    taken,         \* opportunities whose call has begun
    treasury,      \* last_treasury_signal
    reservations,  \* CapitalBudget.reservations
    guard,         \* ExecutionGuard: consecutive_losses, frozen_until
    context,       \* ExecutionGuard.context_guards
    first,         \* first of the ranked submit paths that are not frozen
    targets,       \* submissions in flight
    path,          \* the submit path that accepted the transaction
    round,         \* polling rounds done
    pnl,           \* PnlTracker: executions and failures
    chain,         \* external: what the chain did with the transaction
    outcome,       \* persisted execution outcome
    sentAt,        \* history: when the call went on to its submissions
    unreleased     \* history: calls that ended with their budget reserved

budgetVars == <<reservations, unreleased>>
lossVars   == <<guard, context, pnl>>
submitVars == <<first, targets, path, round>>
chainVars  == <<chain, sentAt>>
vars == <<now, setup, pc, cur, taken, treasury, budgetVars, lossVars,
          submitVars, chainVars, outcome>>

-----------------------------------------------------------------------------
Pcs == {"idle", "context", "preflight", "submitting", "observing", "failed"}
Actions  == {"fund_executor", "sweep_to_vault", "hold"}
Statuses == {"critical", "recommended", "healthy"}
ChainStates == {"unsent", "pending", "profit", "loss", "revert"}
Outcomes == {"none", "included_success", "included_revert",
             "accepted_not_included"}

Reservations == [victim : Opps, at : Nat]
ContextKeys == {Info[o].pair : o \in Opps} \X {Info[o].router : o \in Opps}
                  \X Paths
ContextGuards == [losses : Nat, frozenUntil : Nat, lastEvent : Nat]
NoGuard == [losses |-> 0, frozenUntil |-> 0, lastEvent |-> 0]
KeyOf(o, p) == <<Info[o].pair, Info[o].router, p>>

TypeOK ==
    /\ now \in 1..MaxTime
    /\ setup \in Setups
    /\ pc \in Pcs
    /\ cur \in Opps \cup {NoOpp}
    /\ taken \subseteq Opps
    /\ treasury \in [action : Actions, status : Statuses, amount : Nat]
                       \cup {NoOpp}
    /\ reservations \subseteq Reservations
    /\ unreleased \subseteq Opps
    /\ guard \in [losses : Nat, frozenUntil : Nat]
    /\ context \in [ContextKeys -> ContextGuards]
    /\ first \in Paths \cup {NoPath}
    /\ targets \subseteq Paths
    /\ path \in Paths \cup {NoPath}
    /\ round \in 0..ObserveRounds
    /\ pnl \in [executions : Nat, failures : Nat]
    /\ chain \in [Opps -> ChainStates]
    /\ outcome \in [Opps -> Outcomes]
    /\ sentAt \in [Opps -> Nat]

Init ==
    /\ now = 1
    /\ setup \in Setups
    /\ pc = "idle" /\ cur = NoOpp /\ taken = {}
    /\ treasury = NoOpp
    /\ reservations = {} /\ unreleased = {}
    /\ guard = [losses |-> 0, frozenUntil |-> 0]
    /\ context = [k \in ContextKeys |-> NoGuard]
    /\ first = NoPath /\ targets = {} /\ path = NoPath /\ round = 0
    /\ pnl = [executions |-> 0, failures |-> 0]
    /\ chain = [o \in Opps |-> "unsent"]
    /\ outcome = [o \in Opps |-> "none"]
    /\ sentAt = [o \in Opps |-> 0]

-----------------------------------------------------------------------------
(* Time and chain.                                                          *)

Tick ==
    /\ now < MaxTime
    /\ now' = now + 1
    /\ UNCHANGED <<setup, pc, cur, taken, treasury, budgetVars, lossVars,
                   submitVars, chainVars, outcome>>

\* A pending transaction is included whenever the chain likes, or never.
ChainIncludes ==
    /\ \E o \in Opps, result \in {"profit", "loss", "revert"} :
          /\ chain[o] = "pending"
          /\ chain' = [chain EXCEPT ![o] = result]
    /\ UNCHANGED <<now, setup, pc, cur, taken, treasury, budgetVars, lossVars,
                   submitVars, sentAt, outcome>>

-----------------------------------------------------------------------------
(* handle: from the call to the send context.                               *)

\* stop_loss_snapshot: frozen now; a freeze whose time has come is lifted and
\* the loss count starts again.
GuardFrozen == guard.frozenUntil # 0 /\ now < guard.frozenUntil
LiftedGuard == IF guard.frozenUntil # 0 /\ ~GuardFrozen
               THEN [losses |-> 0, frozenUntil |-> 0]
               ELSE guard

\* ALLOW_SEND=false, an opportunity older than MEV_MAX_PENDING_AGE_MS or without
\* a payload (stale), or a global freeze: the call returns Ok at once.
HandleSkip(o) ==
    /\ pc = "idle" /\ o \notin taken
    /\ \E stale \in BOOLEAN : ~setup.allowSend \/ stale \/ GuardFrozen
    /\ taken' = taken \cup {o}
    /\ UNCHANGED <<now, setup, pc, cur, treasury, budgetVars, lossVars,
                   submitVars, chainVars, outcome>>

HandleAdmit(o) ==
    /\ pc = "idle" /\ o \notin taken
    /\ setup.allowSend
    /\ ~GuardFrozen
    /\ guard' = LiftedGuard
    /\ taken' = taken \cup {o}
    /\ cur' = o
    /\ pc' = "context"
    /\ UNCHANGED <<now, setup, treasury, budgetVars, context, pnl, submitVars,
                   chainVars, outcome>>

TreasurySignal(balance) ==
    LET Signal(action, status, amount) ==
            [action |-> action, status |-> status, amount |-> amount]
        short == IF TargetBuffer > balance THEN TargetBuffer - balance ELSE 0
        over  == IF balance > TargetBuffer THEN balance - TargetBuffer ELSE 0
    IN  CASE balance < MinBuffer    -> Signal("fund_executor", "critical", short)
          [] balance >= MinBuffer /\ balance < TargetBuffer
                                    -> Signal("fund_executor", "recommended", short)
          [] balance >= MinBuffer /\ balance >= TargetBuffer /\ balance > MaxBuffer
                                    -> Signal("sweep_to_vault", "critical", over)
          [] OTHER -> IF balance > TargetBuffer
                      THEN Signal("sweep_to_vault", "recommended", over)
                      ELSE Signal("hold", "healthy", 0)

\* The wallet key does not parse, or load_send_context found no endpoint that
\* answers: the error leaves `handle`, and with it the runtime.
SendContextErr ==
    /\ pc = "context"
    /\ pc' = "failed" /\ cur' = NoOpp
    /\ UNCHANGED <<now, setup, taken, treasury, budgetVars, lossVars,
                   submitVars, chainVars, outcome>>

\* The call stops when the node's gas price is above the cap or the wallet is
\* outside its buffer; the treasury signal is refreshed in any case.
SendContextOk ==
    /\ pc = "context"
    /\ \E balance \in Balances, gasAboveCap \in BOOLEAN :
          /\ treasury' = TreasurySignal(balance)
          /\ IF gasAboveCap \/ balance < MinBuffer \/ balance > MaxBuffer
             THEN pc' = "idle" /\ cur' = NoOpp
             ELSE pc' = "preflight" /\ cur' = cur
    /\ UNCHANGED <<now, setup, taken, budgetVars, lossVars, submitVars,
                   chainVars, outcome>>

\* revm says that the transaction reverts, or fails under HARD_FAIL.
PreflightReject ==
    /\ pc = "preflight"
    /\ setup.preflight
    /\ pc' = "idle" /\ cur' = NoOpp
    /\ UNCHANGED <<now, setup, taken, treasury, budgetVars, lossVars,
                   submitVars, chainVars, outcome>>

-----------------------------------------------------------------------------
(* handle: budget, ranking and submission.                                  *)

\* CapitalBudget::prune
Pruned == {r \in reservations : now - r.at <= CapitalWindow}
\* The sum of the reserved capital, counted unit by unit.
Units(S) == UNION {{r} \X (1..Info[r.victim].capital) : r \in S}
Exposure(S) == Cardinality(Units(S))
Same(S, field) == {r \in S : Info[r.victim][field] = Info[cur][field]}

\* Mutation: the limits are compared without the capital asked for.
BudgetAllowsBefore ==
    /\ Exposure(Pruned) <= MaxWindowExposure
    /\ Exposure(Same(Pruned, "cluster")) <= MaxClusterExposure
    /\ Exposure(Same(Pruned, "pair")) <= MaxPairExposure

\* CapitalBudget::check_and_reserve
BudgetAllows ==
    LET capital == Info[cur].capital IN
    /\ Exposure(Pruned) + capital <= MaxWindowExposure
    /\ Exposure(Same(Pruned, "cluster")) + capital <= MaxClusterExposure
    /\ Exposure(Same(Pruned, "pair")) + capital <= MaxPairExposure
Reserved == Pruned \cup {[victim |-> cur, at |-> now]}
Release(o) == {r \in reservations : r.victim # o}

\* decay_context_guard: a quiet window takes losses back.
DecayWindow == IF ContextFreeze \div 2 > DecayFloor
               THEN ContextFreeze \div 2 ELSE DecayFloor
Decayed(g) ==
    LET steps == (now - g.lastEvent) \div DecayWindow
    IN  IF g.lastEvent = 0 \/ steps = 0 \/ g.losses = 0 THEN g
        ELSE [g EXCEPT !.losses = IF g.losses > steps THEN g.losses - steps
                                                      ELSE 0,
                       !.lastEvent = now]

\* context_stop_loss_snapshot: decay, then lift an expired freeze by dropping
\* the entry.
ContextFrozen(g) == g.frozenUntil # 0 /\ now < g.frozenUntil
Snapshot(g) == IF g.frozenUntil # 0 /\ ~ContextFrozen(g) THEN NoGuard
               ELSE Decayed(g)
Snapshots(ranked) ==
    [k \in ContextKeys |-> IF \E p \in ranked : k = KeyOf(cur, p)
                           THEN Snapshot(context[k]) ELSE context[k]]

\* Mutation: no path is filtered.
UsableAny(ranked) == ranked

Usable(ranked) == {p \in ranked : ~ContextFrozen(context[KeyOf(cur, p)])}

\* Direct RPC ranks at most Fanout send candidates and the endpoint that gave
\* the context; bundle mode ranks every configured relay.
Ranked(ranked) ==
    /\ ranked # {}
    /\ setup.bundle => ranked = Paths
    /\ ~setup.bundle => Cardinality(ranked) <= Fanout

BudgetBlocked ==
    /\ pc = "preflight"
    /\ ~BudgetAllows
    /\ reservations' = Pruned
    /\ pc' = "idle" /\ cur' = NoOpp
    /\ UNCHANGED <<now, setup, taken, treasury, unreleased, lossVars,
                   submitVars, chainVars, outcome>>

\* Every ranked path is frozen for this pair and router: Ok, after the budget
\* was reserved.
ContextBlocked ==
    /\ pc = "preflight"
    /\ BudgetAllows
    /\ reservations' = Reserved
    /\ \E ranked \in SUBSET Paths :
          /\ Ranked(ranked)
          /\ Usable(ranked) = {}
          /\ context' = Snapshots(ranked)
    /\ unreleased' = unreleased \cup {cur}
    /\ pc' = "idle" /\ cur' = NoOpp
    /\ UNCHANGED <<now, setup, taken, treasury, guard, pnl, submitVars,
                   chainVars, outcome>>

\* The signer's error leaves `handle`.
SignErr ==
    /\ pc = "preflight"
    /\ BudgetAllows
    /\ reservations' = Reserved
    /\ \E ranked \in SUBSET Paths :
          /\ Ranked(ranked)
          /\ Usable(ranked) # {}
          /\ context' = Snapshots(ranked)
    /\ unreleased' = unreleased \cup {cur}
    /\ pc' = "failed" /\ cur' = NoOpp
    /\ UNCHANGED <<now, setup, taken, treasury, guard, pnl, submitVars,
                   chainVars, outcome>>

\* Sign and submit in parallel.  Bundle mode submits to the best Fanout usable
\* relays.  Direct RPC asks the fleet for its send candidates again and
\* submits to all of them, ranked or not.
Dispatch ==
    /\ pc = "preflight"
    /\ BudgetAllows
    /\ reservations' = Reserved
    /\ \E ranked, chosen \in SUBSET Paths :
          /\ Ranked(ranked)
          /\ Usable(ranked) # {}
          /\ context' = Snapshots(ranked)
          /\ first' \in Usable(ranked)
          /\ Cardinality(chosen) <= Fanout
          /\ setup.bundle => /\ chosen \subseteq Usable(ranked)
                             /\ first' \in chosen
          /\ targets' = chosen
    /\ sentAt' = [sentAt EXCEPT ![cur] = now]
    /\ pc' = "submitting"
    /\ UNCHANGED <<now, setup, cur, taken, treasury, unreleased, guard, pnl,
                   path, round, chain, outcome>>

\* Whatever a submission returns, the transaction may have reached the chain.
Reached(o) == IF chain[o] = "unsent" THEN [chain EXCEPT ![o] = "pending"]
              ELSE chain

\* The first acceptance aborts the other submissions.
SubmitAccepted(p) ==
    /\ pc = "submitting" /\ p \in targets
    /\ path' = p
    /\ targets' = {}
    /\ round' = 0
    /\ chain' = Reached(cur)
    /\ pc' = "observing"
    /\ UNCHANGED <<now, setup, cur, taken, treasury, budgetVars, lossVars,
                   first, sentAt, outcome>>

SubmitFailed(p) ==
    /\ pc = "submitting" /\ p \in targets
    /\ targets' = targets \ {p}
    /\ chain' \in {chain, Reached(cur)}
    /\ UNCHANGED <<now, setup, pc, cur, taken, treasury, budgetVars, lossVars,
                   first, path, round, sentAt, outcome>>

-----------------------------------------------------------------------------
(* record_result: the loss counters after a call that submitted.            *)

\* Bands of regime_pressure_ewma: 0 below 0.62, then from 0.62, 0.78, 0.82
\* and 0.90.  The average itself is abstracted: any band may be next.
LossIncrement(band) == IF band >= 3 THEN 2 ELSE 1
ContextThreshold(band) ==
    LET base == IF band >= 2 /\ ContextLosses > 0 THEN ContextLosses - 1
                ELSE ContextLosses
    IN  IF base > 1 THEN base ELSE 1
FreezeTenths == [b \in 0..4 |-> CASE b = 0 -> 10 [] b = 1 -> 12
                                   [] b \in {2, 3} -> 15 [] b = 4 -> 20]
ContextFreezeSecs(band) == (ContextFreeze * FreezeTenths[band] + 5) \div 10

\* Mutation: `>` for `>=`.
GuardAfterLate(win) ==
    LET losses == guard.losses + 1 IN
    CASE win -> [losses |-> 0, frozenUntil |-> 0]
      [] ~win /\ losses > StopLossLosses ->
           [losses |-> losses, frozenUntil |-> now + StopLossFreeze]
      [] ~win /\ losses <= StopLossLosses -> [guard EXCEPT !.losses = losses]

GuardAfter(win) ==
    LET losses == guard.losses + 1 IN
    CASE win -> [losses |-> 0, frozenUntil |-> 0]
      [] ~win /\ losses >= StopLossLosses ->
           [losses |-> losses, frozenUntil |-> now + StopLossFreeze]
      [] ~win /\ losses < StopLossLosses -> [guard EXCEPT !.losses = losses]

ContextAfter(g, win, band) ==
    LET old    == Decayed(g)
        losses == old.losses + LossIncrement(band)
    IN  CASE win -> NoGuard
          [] ~win /\ losses >= ContextThreshold(band) ->
               [losses |-> losses, lastEvent |-> now,
                frozenUntil |-> now + ContextFreezeSecs(band)]
          [] ~win /\ losses < ContextThreshold(band) ->
               [old EXCEPT !.losses = losses, !.lastEvent = now]

\* prune_context_guards
Kept(g) == IF g.losses = 0 /\ ~ContextFrozen(g) THEN NoGuard ELSE g

RecordResult(success, win, p) ==
    /\ guard' = GuardAfter(win)
    /\ \E band \in Bands :
          context' = [k \in ContextKeys |->
                        IF k = KeyOf(cur, p)
                        THEN Kept(ContextAfter(context[k], win, band))
                        ELSE Kept(context[k])]
    /\ pnl' = [executions |-> pnl.executions + 1,
               failures |-> pnl.failures + (IF success THEN 0 ELSE 1)]

\* Mutation: the budget comes back only after a success.
FinishKeepsLosses(success, win, p) ==
    /\ reservations' = IF success THEN Release(cur) ELSE reservations
    /\ RecordResult(success, win, p)
    /\ cur' = NoOpp
    /\ first' = NoPath /\ targets' = {} /\ path' = NoPath /\ round' = 0

Finish(success, win, p) ==
    /\ reservations' = Release(cur)
    /\ RecordResult(success, win, p)
    /\ cur' = NoOpp
    /\ first' = NoPath /\ targets' = {} /\ path' = NoPath /\ round' = 0

\* No submission was accepted: a loss on the first ranked path, and the error
\* leaves `handle`.
AllSubmitsFailed ==
    /\ pc = "submitting" /\ targets = {}
    /\ Finish(FALSE, FALSE, first)
    /\ pc' = "failed"
    /\ UNCHANGED <<now, setup, taken, treasury, unreleased, chainVars, outcome>>

\* A probe finds a receipt with the required confirmations.
ObserveReceipt ==
    /\ pc = "observing"
    /\ chain[cur] \in {"profit", "loss", "revert"}
    /\ LET success == chain[cur] # "revert" IN
         /\ outcome' = [outcome EXCEPT ![cur] = IF success THEN "included_success"
                                                ELSE "included_revert"]
         /\ Finish(success, chain[cur] = "profit", path)
    /\ pc' = "idle"
    /\ UNCHANGED <<now, setup, taken, treasury, unreleased, chainVars>>

\* Mutation: a round is not counted.
ObserveMissUncounted ==
    /\ pc = "observing" /\ round < ObserveRounds
    /\ UNCHANGED vars

\* No probe has a confirmed receipt in this round.
ObserveMiss ==
    /\ pc = "observing" /\ round < ObserveRounds
    /\ round' = round + 1
    /\ UNCHANGED <<now, setup, pc, cur, taken, treasury, budgetVars, lossVars,
                   first, targets, path, chainVars, outcome>>

\* Mutation: a timeout is not recorded as a result.
ObserveTimeoutUnrecorded ==
    /\ pc = "observing" /\ round = ObserveRounds
    /\ outcome' = [outcome EXCEPT ![cur] = "accepted_not_included"]
    /\ reservations' = Release(cur)
    /\ cur' = NoOpp
    /\ first' = NoPath /\ targets' = {} /\ path' = NoPath /\ round' = 0
    /\ pc' = "idle"
    /\ UNCHANGED <<now, setup, taken, treasury, unreleased, lossVars, chainVars>>

\* The rounds are used up: the transaction counts as not included.
ObserveTimeout ==
    /\ pc = "observing" /\ round = ObserveRounds
    /\ outcome' = [outcome EXCEPT ![cur] = "accepted_not_included"]
    /\ Finish(FALSE, FALSE, path)
    /\ pc' = "idle"
    /\ UNCHANGED <<now, setup, taken, treasury, unreleased, chainVars>>

-----------------------------------------------------------------------------
HandleStep ==
    \/ SendContextErr \/ SendContextOk \/ PreflightReject
    \/ BudgetBlocked \/ ContextBlocked \/ SignErr \/ Dispatch
    \/ (\E p \in Paths : SubmitAccepted(p) \/ SubmitFailed(p))
    \/ AllSubmitsFailed
    \/ ObserveReceipt \/ ObserveMiss \/ ObserveTimeout

Next == \/ Tick \/ ChainIncludes
        \/ \E o \in Opps : HandleSkip(o) \/ HandleAdmit(o)
        \/ HandleStep

\* The steps of a call are driven by tokio and by RPC calls that return; the
\* chain owes nothing.
Spec == Init /\ [][Next]_vars /\ WF_vars(HandleStep)

-----------------------------------------------------------------------------
(* Properties.                                                              *)

\* Between the stop-loss check of a call and the end of its submission the
\* global guard is clear and below its threshold: nothing is sent once the
\* threshold of consecutive losses is hit, until the freeze is over.
NoSubmitAfterStopLoss ==
    pc \in {"context", "preflight", "submitting", "observing"}
        => guard.frozenUntil = 0 /\ guard.losses < StopLossLosses

\* CapitalBudget never holds more reserved capital than its limits, in total,
\* per cluster and per pair.
BudgetWithinLimits ==
    /\ Exposure(reservations) <= MaxWindowExposure
    /\ \A o \in Opps :
          /\ Exposure({r \in reservations : Info[r.victim].cluster = Info[o].cluster})
                <= MaxClusterExposure
          /\ Exposure({r \in reservations : Info[r.victim].pair = Info[o].pair})
                <= MaxPairExposure

\* A reservation belongs to the call in progress or to one that ended at the
\* contextual stop-loss or in the signer: every way out of a call that got as
\* far as its submissions gives the budget back.
ReservationsAccounted ==
    \A r \in reservations : r.victim = cur \/ r.victim \in unreleased

\* Every dispatched call feeds the loss counters and the PnL tracker exactly
\* once, however its submissions end.
OneResultPerDispatch ==
    pnl.executions + (IF pc \in {"submitting", "observing"} THEN 1 ELSE 0)
        = Cardinality({o \in Opps : sentAt[o] > 0})

\* In bundle mode no relay that is frozen for the opportunity's pair and
\* router is submitted to.
RelaySubmitsUnfrozen ==
    setup.bundle /\ pc = "submitting"
        => \A p \in targets : context[KeyOf(cur, p)].frozenUntil = 0

\* A call of `handle` always ends.
HandleReturns == pc # "idle" ~> pc \in {"idle", "failed"}

\* The capital submitted within any window stays below the window limit.
WindowExposureBounded ==
    MapThenSumSet(LAMBDA o : Info[o].capital,
                  {o \in Opps : /\ chain[o] # "unsent"
                                /\ now - sentAt[o] <= CapitalWindow})
        <= MaxWindowExposure
=============================================================================
