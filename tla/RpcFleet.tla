------------------------------ MODULE RpcFleet ------------------------------
(* RpcFleet of rpc.rs: endpoint health, cooldowns, burst reservations and   *)
(* the score cache from which candidates are selected.  Lookup and          *)
(* evaluation workers, the executor, the wallet monitor and the dashboard   *)
(* call it concurrently; each endpoint and the cache have their own lock.   *)
(*                                                                          *)
(* Scores order the candidates and are abstracted: what a cached score      *)
(* tells is whether the endpoint may be selected at all.  Durations count   *)
(* down in ticks of TickMs.                                                 *)
EXTENDS Naturals, FiniteSets

CONSTANTS
    Endpoints,
    Kind,           \* Kind[e] \in RpcKinds
    ReadPreference, \* RpcPreference of reads
    SendPreference, \* RpcPreference of submissions
    Threads,        \* callers of select_candidates
    FailureKinds,   \* failures that the nodes may answer with
    Operations,     \* bound: operations that callers perform, \subseteq AllOps
    TickMs,         \* milliseconds of a clock tick
    MaxCount,       \* bound: failure counters a further failure may raise
    MaxCallers      \* bound: callers between an update and its invalidation

RpcKinds == {"Tenderly", "GetBlock", "Generic", "Alchemy", "Infura"}
RpcPreferences == {"Auto", "GetBlock", "Alchemy", "Infura"}
AllFailures == {"Timeout", "RateLimited", "CapacityExhausted", "Stale",
                "Transport", "Remote"}
AllOps == {"success", "failure", "enable", "getblock", "reserve_read",
           "reserve_send"}

ASSUME FleetAssumption ==
    /\ Endpoints # {}
    /\ Kind \in [Endpoints -> RpcKinds]
    /\ ReadPreference \in RpcPreferences /\ SendPreference \in RpcPreferences
    /\ FailureKinds \subseteq AllFailures /\ Operations \subseteq AllOps
    /\ TickMs \in Nat /\ TickMs > 1200  \* longer than the burst window
    /\ MaxCount \in Nat \ {0} /\ MaxCallers \in Nat \ {0}

VARIABLES
    count,      \* failures, timeout_, rate_limit_ and stale_failures
    decay,      \* ticks since last_failure_decay_at
    disabled,
    cooldown,   \* ticks left until cooldown_until
    burst,      \* units of recent_burst_reservations
    block,      \* last_block_at: none, within 20 s, older
    cache,      \* ScoreCacheState
    unflushed,  \* callers that have updated a state and not yet invalidated
    sweep,      \* endpoints that keep_only_getblock_enabled has still to visit
    thread      \* callers of select_candidates

endpointVars == <<count, disabled, cooldown, burst, block>>
vars == <<endpointVars, decay, cache, unflushed, sweep, thread>>

-----------------------------------------------------------------------------
Ticks(ms) == (ms + TickMs - 1) \div TickMs
Less(n, k) == IF n > k THEN n - k ELSE 0
AtMost(n, k) == IF n < k THEN n ELSE k
FailureDecay == Ticks(20000)
MaxCooldown == Ticks(45000)

\* endpoint_burst_capacity_units and endpoint_burst_cost_units
ReadCapacity == [Alchemy |-> 24, Infura |-> 30, Tenderly |-> 10,
                 GetBlock |-> 10, Generic |-> 12]
SendCapacity == [Alchemy |-> 18, Infura |-> 12, Tenderly |-> 8,
                 GetBlock |-> 8, Generic |-> 10]
ReadCost == [Alchemy |-> 1, Infura |-> 1, Tenderly |-> 2, GetBlock |-> 1,
             Generic |-> 2]
SendCost == [Alchemy |-> 7, Infura |-> 6, Tenderly |-> 8, GetBlock |-> 5,
             Generic |-> 6]

Counts == [failures : Nat, timeout : Nat, rate : Nat, stale : Nat]
Zero   == [failures |-> 0, timeout |-> 0, rate |-> 0, stale |-> 0]
At(pc, todo, offered) == [pc |-> pc, todo |-> todo, offered |-> offered,
                          dirty |-> FALSE]
IdleThread == At("idle", {}, {})

TypeOK ==
    /\ count \in [Endpoints -> Counts]
    /\ decay \in 0..FailureDecay
    /\ disabled \in [Endpoints -> BOOLEAN]
    /\ cooldown \in [Endpoints -> 0..MaxCooldown]
    /\ burst \in [Endpoints -> Nat]
    /\ block \in [Endpoints -> {"none", "fresh", "old"}]
    /\ cache \in [valid : BOOLEAN, offered : SUBSET Endpoints, raced : BOOLEAN]
    /\ unflushed \in 0..MaxCallers
    /\ sweep \subseteq Endpoints
    /\ thread \in [Threads -> [pc : {"idle", "computing", "ready", "read", "send"},
                               todo : SUBSET Endpoints,
                               offered : SUBSET Endpoints,
                               dirty : BOOLEAN]]

Init ==
    /\ count = [e \in Endpoints |-> Zero]
    /\ decay = 0
    /\ disabled = [e \in Endpoints |-> FALSE]
    /\ cooldown = [e \in Endpoints |-> 0]
    /\ burst = [e \in Endpoints |-> 0]
    /\ block = [e \in Endpoints |-> "none"]
    /\ cache = [valid |-> FALSE, offered |-> {}, raced |-> FALSE]
    /\ unflushed = 0
    /\ sweep = {}
    /\ thread = [t \in Threads |-> IdleThread]

-----------------------------------------------------------------------------
(* Time.  decay_failure_counters runs at the start of every operation and   *)
(* moves its mark by whole periods, so its effect is that of a decay at the  *)
(* end of each period.                                                       *)

DecayedCount(c) == [failures |-> Less(c.failures, 2), timeout |-> Less(c.timeout, 2),
                    stale |-> Less(c.stale, 2), rate |-> Less(c.rate, 4)]

Tick ==
    /\ cooldown' = [e \in Endpoints |-> Less(cooldown[e], 1)]
    /\ IF decay + 1 >= FailureDecay
       THEN /\ decay' = 0
            /\ count' = [e \in Endpoints |-> DecayedCount(count[e])]
       ELSE /\ decay' = decay + 1
            /\ UNCHANGED count
    /\ burst' = [e \in Endpoints |-> 0]
    /\ cache' = [cache EXCEPT !.valid = FALSE]
    /\ UNCHANGED <<disabled, block, unflushed, sweep, thread>>

\* The 500 ms life of the cached scores and the 20 s life of a block.
CacheExpires ==
    /\ cache.valid
    /\ cache' = [cache EXCEPT !.valid = FALSE]
    /\ UNCHANGED <<endpointVars, decay, unflushed, sweep, thread>>

BlockAges(e) ==
    /\ block[e] = "fresh"
    /\ block' = [block EXCEPT ![e] = "old"]
    /\ UNCHANGED <<count, disabled, cooldown, burst, decay, cache, unflushed,
                   sweep, thread>>

-----------------------------------------------------------------------------
(* Updates: each changes one endpoint under its lock and invalidates the    *)
(* cache after the lock is released.                                        *)

Update ==
    /\ unflushed < MaxCallers
    /\ unflushed' = unflushed + 1
    /\ UNCHANGED <<decay, cache, thread>>

\* Mutation: the scores stay valid.
InvalidateNothing ==
    /\ unflushed > (IF sweep = {} THEN 0 ELSE 1)
    /\ unflushed' = unflushed - 1
    /\ UNCHANGED <<endpointVars, decay, cache, sweep, thread>>

\* A sweep in progress is one of the callers, and invalidates at its end.
InvalidateScoreCache ==
    /\ unflushed > (IF sweep = {} THEN 0 ELSE 1)
    /\ unflushed' = unflushed - 1
    /\ cache' = [cache EXCEPT !.valid = FALSE]
    /\ thread' = [t \in Threads |-> [thread[t] EXCEPT
                    !.dirty = @ \/ thread[t].pc = "computing"]]
    /\ UNCHANGED <<endpointVars, decay, sweep>>

RecordSuccess(e, sawBlock) ==
    /\ Update
    /\ count' = [count EXCEPT ![e] =
                   [failures |-> Less(@.failures, 1), timeout |-> Less(@.timeout, 1),
                    rate |-> Less(@.rate, 1), stale |-> Less(@.stale, 1)]]
    /\ block' = IF sawBlock THEN [block EXCEPT ![e] = "fresh"] ELSE block
    /\ UNCHANGED <<disabled, cooldown, burst, sweep>>

\* The counters after a failure and the cooldown that it asks for.
CountAfter(c, kind) ==
    [c EXCEPT !.failures = @ + 1,
              !.timeout = IF kind = "Timeout" THEN @ + 1 ELSE @,
              !.stale = IF kind = "Stale" THEN @ + 1 ELSE @,
              !.rate = CASE kind = "RateLimited" -> @ + 1
                         [] kind = "CapacityExhausted" -> @ + 10
                         [] OTHER -> @]
CooldownMs(kind, c) ==
    CASE kind = "RateLimited"       -> 2000 * 2 ^ AtMost(c.rate, 4)
      [] kind = "CapacityExhausted" -> 86400000
      [] kind = "Timeout"           -> 400 * 2 ^ AtMost(c.timeout, 5)
      [] kind = "Stale"             -> 900
      [] kind = "Transport"         -> 700
      [] kind = "Remote"            -> 500

\* Mutations: the 45 s cap is missing; the new cooldown replaces the old one.
RecordFailureUncapped(e, kind) ==
    LET c     == CountAfter(count[e], kind)
        until == Ticks(CooldownMs(kind, c))
    IN  /\ Update
        /\ count[e].failures < MaxCount /\ count[e].rate < MaxCount
        /\ count' = [count EXCEPT ![e] = c]
        /\ disabled' = [disabled EXCEPT ![e] = @ \/ kind = "CapacityExhausted"]
        /\ cooldown' = [cooldown EXCEPT ![e] = IF @ > until THEN @ ELSE until]
        /\ UNCHANGED <<burst, block, sweep>>
RecordFailureReplaces(e, kind) ==
    LET c     == CountAfter(count[e], kind)
        until == AtMost(Ticks(CooldownMs(kind, c)), MaxCooldown)
    IN  /\ Update
        /\ count[e].failures < MaxCount /\ count[e].rate < MaxCount
        /\ count' = [count EXCEPT ![e] = c]
        /\ disabled' = [disabled EXCEPT ![e] = @ \/ kind = "CapacityExhausted"]
        /\ cooldown' = [cooldown EXCEPT ![e] = until]
        /\ UNCHANGED <<burst, block, sweep>>

\* A failure never shortens a cooldown that is under way.
RecordFailure(e, kind) ==
    LET c     == CountAfter(count[e], kind)
        until == AtMost(Ticks(CooldownMs(kind, c)), MaxCooldown)
    IN  /\ Update
        /\ count[e].failures < MaxCount /\ count[e].rate < MaxCount
        /\ count' = [count EXCEPT ![e] = c]
        /\ disabled' = [disabled EXCEPT ![e] = @ \/ kind = "CapacityExhausted"]
        /\ cooldown' = [cooldown EXCEPT ![e] = IF @ > until THEN @ ELSE until]
        /\ UNCHANGED <<burst, block, sweep>>

SetEndpointEnabled(e, enabled) ==
    /\ Update
    /\ disabled' = [disabled EXCEPT ![e] = ~enabled]
    /\ UNCHANGED <<count, cooldown, burst, block, sweep>>

\* keep_only_getblock_enabled visits the endpoints one lock at a time and
\* invalidates the cache once, after the last.
KeepOnlyGetblockStart ==
    /\ Update
    /\ sweep = {} /\ sweep' = Endpoints
    /\ UNCHANGED endpointVars

KeepOnlyGetblockVisit(e) ==
    /\ e \in sweep
    /\ sweep' = sweep \ {e}
    /\ disabled' = [disabled EXCEPT ![e] = Kind[e] # "GetBlock"]
    /\ UNCHANGED <<count, cooldown, burst, block, decay, cache, unflushed,
                   thread>>

\* reserve_selection: twice the send capacity within the burst window puts
\* the endpoint on a short cooldown, whatever cooldown it had.  Units above
\* both limits that are compared with are not told apart.
BurstLimit(k) == 2 * SendCapacity[k]
BurstTop(k) == IF ReadCapacity[k] > BurstLimit(k) THEN ReadCapacity[k]
               ELSE BurstLimit(k)
ReserveSelection(e, send) ==
    LET units == burst[e] + (IF send THEN SendCost[Kind[e]] ELSE ReadCost[Kind[e]])
    IN  /\ Update
        /\ burst' = [burst EXCEPT ![e] = AtMost(units, BurstTop(Kind[e]))]
        /\ cooldown' = IF units >= BurstLimit(Kind[e])
                       THEN [cooldown EXCEPT ![e] = Ticks(900)]
                       ELSE cooldown
        /\ UNCHANGED <<count, disabled, block, sweep>>

-----------------------------------------------------------------------------
(* Selection.                                                               *)

\* Mutation: a disabled endpoint is scored like any other.
AvailableUnlessCooling(e) == cooldown[e] = 0

Available(e) == ~disabled[e] /\ cooldown[e] = 0

\* endpoint_is_read_healthy, from the live state
ReadHealthy(e) ==
    /\ Available(e)
    /\ count[e] = Zero
    /\ burst[e] < ReadCapacity[Kind[e]]
    /\ block[e] # "old"

\* recompute_scores: one endpoint after the other, each under its own lock,
\* then the cache as a whole.
RecomputeStart(t) ==
    /\ thread[t].pc = "idle" /\ ~cache.valid
    /\ thread' = [thread EXCEPT ![t] = At("computing", Endpoints, {})]
    /\ UNCHANGED <<endpointVars, decay, cache, unflushed, sweep>>

RecomputeScore(t, e) ==
    /\ thread[t].pc = "computing" /\ e \in thread[t].todo
    /\ thread' = [thread EXCEPT ![t].todo = @ \ {e},
                                ![t].offered = IF Available(e) THEN @ \cup {e} ELSE @]
    /\ UNCHANGED <<endpointVars, decay, cache, unflushed, sweep>>

RecomputeStore(t) ==
    /\ thread[t].pc = "computing" /\ thread[t].todo = {}
    /\ cache' = [valid |-> TRUE, offered |-> thread[t].offered,
                 raced |-> thread[t].dirty]
    /\ thread' = [thread EXCEPT ![t] = At("ready", {}, {})]
    /\ UNCHANGED <<endpointVars, decay, unflushed, sweep>>

Matches(e, preference) == preference = "Auto" \/ Kind[e] = preference

\* select_candidates: the preferred kind if the cache offers one, else any;
\* for reads the healthy ones of these, else any healthy one, else as they are.
\* The lookups of one selection are one step here; its order and its limit,
\* which the scores decide, are left out.
SendCandidates ==
    LET preferred == {e \in cache.offered : Matches(e, SendPreference)}
    IN  IF preferred # {} THEN preferred ELSE cache.offered

\* Mutation: no healthy endpoint is looked for outside the preferred kind.
ReadCandidatesPreferred ==
    LET preferred == {e \in cache.offered : Matches(e, ReadPreference)}
        base      == IF preferred # {} THEN preferred ELSE cache.offered
        healthy   == {e \in base : ReadHealthy(e)}
    IN  IF healthy # {} THEN healthy ELSE base

ReadCandidates ==
    LET preferred == {e \in cache.offered : Matches(e, ReadPreference)}
        base      == IF preferred # {} THEN preferred ELSE cache.offered
        healthy   == {e \in base : ReadHealthy(e)}
        anyHealthy == {e \in cache.offered : ReadHealthy(e)}
    IN  CASE healthy # {} -> healthy
          [] healthy = {} /\ anyHealthy # {} -> anyHealthy
          [] OTHER -> base

SelectCandidates(t, mode) ==
    /\ thread[t].pc = "ready" \/ (thread[t].pc = "idle" /\ cache.valid)
    /\ thread' = [thread EXCEPT ![t] =
                    At(mode, {}, IF mode = "send" THEN SendCandidates
                                 ELSE ReadCandidates)]
    /\ UNCHANGED <<endpointVars, decay, cache, unflushed, sweep>>

\* The caller is done with the handles that it was given.
CandidatesUsed(t) ==
    /\ thread[t].pc \in {"read", "send"}
    /\ thread' = [thread EXCEPT ![t] = IdleThread]
    /\ UNCHANGED <<endpointVars, decay, cache, unflushed, sweep>>

-----------------------------------------------------------------------------
ThreadStep(t) ==
    \/ RecomputeStart(t)
    \/ \E e \in Endpoints : RecomputeScore(t, e)
    \/ RecomputeStore(t)
    \/ \E mode \in {"read", "send"} : SelectCandidates(t, mode)
    \/ CandidatesUsed(t)

Operation(e) ==
    \/ "success" \in Operations /\ \E sawBlock \in BOOLEAN : RecordSuccess(e, sawBlock)
    \/ "failure" \in Operations /\ \E kind \in FailureKinds : RecordFailure(e, kind)
    \/ "enable" \in Operations /\ \E enabled \in BOOLEAN : SetEndpointEnabled(e, enabled)
    \/ "reserve_read" \in Operations /\ ReserveSelection(e, FALSE)
    \/ "reserve_send" \in Operations /\ ReserveSelection(e, TRUE)
    \/ KeepOnlyGetblockVisit(e)

Next == \/ Tick \/ CacheExpires \/ InvalidateScoreCache
        \/ \E e \in Endpoints : BlockAges(e) \/ Operation(e)
        \/ "getblock" \in Operations /\ KeepOnlyGetblockStart
        \/ \E t \in Threads : ThreadStep(t)

\* Time passes: the scores expire 500 ms after they were stored.
Spec == Init /\ [][Next]_vars /\ WF_vars(CacheExpires)

-----------------------------------------------------------------------------
(* Properties.                                                              *)

\* A valid score cache (rpc.rs get_cached_score) offers an endpoint that is
\* disabled or cooling down only if the caller that changed the endpoint has
\* not invalidated yet, or if its invalidation fell between the reading and
\* the storing of the scores.
StaleOfferOnlyByRace ==
    cache.valid /\ ~cache.raced /\ unflushed = 0
        => \A e \in cache.offered : Available(e)

\* A cooldown under way is cut short only by the burst rule of
\* reserve_burst_units: failures, successes and the dashboard never shorten
\* it, and otherwise it runs down with the clock (the only step on which no
\* caller has updated anything).
CooldownCutOnlyByBurst ==
    [][ \A e \in Endpoints :
          cooldown'[e] < cooldown[e] /\ unflushed' > unflushed
            => burst'[e] >= BurstLimit(Kind[e]) ]_vars

\* select_candidates sends reads to an unhealthy endpoint only when no offered
\* endpoint is healthy, whatever the read preference says.
ReadsPreferHealthy ==
    [][ \A t \in Threads :
          /\ thread[t].pc # "read" /\ thread'[t].pc = "read"
          /\ \E e \in cache.offered : ReadHealthy(e)
          => \A e \in thread'[t].offered : ReadHealthy(e) ]_vars

\* An endpoint that stays disabled is eventually never offered again, however
\* the recomputations interleave with the dashboard's request.
DisabledEventuallyAvoided ==
    \A e \in Endpoints :
        <>[]disabled[e] => <>[](cache.valid => e \notin cache.offered)
=============================================================================
