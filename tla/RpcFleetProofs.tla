--------------------------- MODULE RpcFleetProofs ---------------------------
(* Proofs about RpcFleet, for any endpoints, callers and tick length: when  *)
(* the score cache may offer an endpoint that must not be used, what cuts a *)
(* cooldown short, and where reads go.                                      *)
EXTENDS RpcFleet, TLAPS

\* What the proof needs of the types.
Shape ==
    /\ unflushed \in Nat
    /\ cache \in [valid : BOOLEAN, offered : SUBSET Endpoints, raced : BOOLEAN]
    /\ thread \in [Threads -> [pc : {"idle", "computing", "ready", "read", "send"},
                               todo : SUBSET Endpoints,
                               offered : SUBSET Endpoints,
                               dirty : BOOLEAN]]

\* A sweep in progress is one of the callers that have still to invalidate.
SweepCounted == sweep # {} => unflushed > 0

\* What a recomputation has read is still true, unless an update is not
\* flushed yet or was flushed since the recomputation began.
ReadingCurrent ==
    \A t \in Threads :
        thread[t].pc = "computing" /\ ~thread[t].dirty /\ unflushed = 0
            => \A e \in thread[t].offered : Available(e)

CacheInv == Shape /\ SweepCounted /\ ReadingCurrent /\ StaleOfferOnlyByRace

Updates == \/ \E e \in Endpoints, sawBlock \in BOOLEAN : RecordSuccess(e, sawBlock)
           \/ \E e \in Endpoints, kind \in FailureKinds : RecordFailure(e, kind)
           \/ \E e \in Endpoints, on \in BOOLEAN : SetEndpointEnabled(e, on)
           \/ \E e \in Endpoints, send \in BOOLEAN : ReserveSelection(e, send)
           \/ KeepOnlyGetblockStart

\* Every operation on an endpoint leaves its caller with a cache to
\* invalidate.
LEMMA UpdatesUnflushed ==
    ASSUME Updates
    PROVE  Update
    BY DEF Updates, RecordSuccess, RecordFailure, SetEndpointEnabled,
        ReserveSelection, KeepOnlyGetblockStart

LEMMA CacheStep ==
    ASSUME CacheInv, [Next]_vars
    PROVE  CacheInv'
<1> USE DEF CacheInv
<1>1. CASE Updates
  <2>1. unflushed' = unflushed + 1 /\ UNCHANGED <<cache, thread>>
      BY <1>1, UpdatesUnflushed DEF Update
  <2>2. unflushed' \in Nat /\ unflushed' > 0
      BY <2>1 DEF Shape
  <2>3. QED
      BY <2>1, <2>2 DEF Shape, SweepCounted, ReadingCurrent, StaleOfferOnlyByRace
<1>2. CASE \E e \in Endpoints : KeepOnlyGetblockVisit(e)
  <2>1. unflushed > 0 /\ UNCHANGED <<unflushed, cache, thread>>
      BY <1>2 DEF KeepOnlyGetblockVisit, SweepCounted
  <2>2. QED
      BY <2>1 DEF Shape, SweepCounted, ReadingCurrent, StaleOfferOnlyByRace
<1>3. CASE InvalidateScoreCache
  <2>1. /\ unflushed' = unflushed - 1 /\ UNCHANGED sweep
        /\ unflushed > 0 /\ (sweep # {} => unflushed > 1)
      BY <1>3 DEF InvalidateScoreCache, Shape
  <2>2. unflushed' \in Nat /\ SweepCounted'
      BY <2>1 DEF Shape, SweepCounted
  <2>3. /\ cache' \in [valid : BOOLEAN, offered : SUBSET Endpoints, raced : BOOLEAN]
        /\ ~cache'.valid
      BY <1>3 DEF InvalidateScoreCache, Shape
  <2>4. /\ thread' \in [Threads -> [pc : {"idle", "computing", "ready", "read", "send"},
                                   todo : SUBSET Endpoints,
                                   offered : SUBSET Endpoints,
                                   dirty : BOOLEAN]]
        /\ \A t \in Threads : thread'[t].pc = "computing" => thread'[t].dirty
      BY <1>3 DEF InvalidateScoreCache, Shape
  <2>5. QED
      BY <2>2, <2>3, <2>4 DEF Shape, ReadingCurrent, StaleOfferOnlyByRace
<1>4. CASE Tick
  <2>1. \A e \in Endpoints : Available(e) => Available(e)'
      BY <1>4 DEF Tick, Available, Less
  <2>2. UNCHANGED <<unflushed, sweep, thread>>
      BY <1>4 DEF Tick
  <2>3. /\ cache' \in [valid : BOOLEAN, offered : SUBSET Endpoints, raced : BOOLEAN]
        /\ ~cache'.valid
      BY <1>4 DEF Tick, Shape
  <2>4. ReadingCurrent'
      BY <2>1, <2>2 DEF ReadingCurrent, Shape
  <2>5. QED
      BY <2>2, <2>3, <2>4 DEF Shape, SweepCounted, StaleOfferOnlyByRace
<1>5. CASE CacheExpires
  <2>1. /\ cache' \in [valid : BOOLEAN, offered : SUBSET Endpoints, raced : BOOLEAN]
        /\ ~cache'.valid
      BY <1>5 DEF CacheExpires, Shape
  <2>2. QED
      BY <1>5, <2>1 DEF CacheExpires, endpointVars, Shape, SweepCounted,
          ReadingCurrent, StaleOfferOnlyByRace, Available
<1>6. CASE \E e \in Endpoints : BlockAges(e)
    BY <1>6 DEF BlockAges, Shape, SweepCounted, ReadingCurrent,
        StaleOfferOnlyByRace, Available
<1>7. ASSUME NEW t \in Threads, ThreadStep(t) PROVE CacheInv'
  <2>1. /\ UNCHANGED <<unflushed, sweep>>
        /\ \A e : Available(e)' = Available(e)
      BY <1>7 DEF ThreadStep, RecomputeStart, RecomputeScore, RecomputeStore,
          SelectCandidates, CandidatesUsed, endpointVars, Available
  <2>2. SweepCounted'
      BY <2>1 DEF SweepCounted
  <2>3. CASE RecomputeStart(t) \/ CandidatesUsed(t)
    <3>1. UNCHANGED cache
        BY <2>3 DEF RecomputeStart, CandidatesUsed
    <3>2. \E r \in {"idle", "computing"}, todo \in SUBSET Endpoints :
              thread' = [thread EXCEPT ![t] = [pc |-> r, todo |-> todo,
                                               offered |-> {}, dirty |-> FALSE]]
      <4>1. CASE RecomputeStart(t)
          BY <4>1 DEF RecomputeStart, At
      <4>2. CASE CandidatesUsed(t)
          BY <4>2 DEF CandidatesUsed, IdleThread, At
      <4>3. QED
          BY <2>3, <4>1, <4>2
    <3>3. Shape' /\ ReadingCurrent'
        BY <2>1, <3>1, <3>2 DEF Shape, ReadingCurrent
    <3>4. QED
        BY <2>1, <2>2, <3>1, <3>3 DEF StaleOfferOnlyByRace
  <2>4. ASSUME NEW e \in Endpoints, RecomputeScore(t, e) PROVE CacheInv'
    <3> DEFINE new == [thread[t] EXCEPT
                         !.todo = @ \ {e},
                         !.offered = IF Available(e) THEN @ \cup {e} ELSE @]
    <3>1. thread' = [thread EXCEPT ![t] = new] /\ UNCHANGED cache
        BY <2>4 DEF RecomputeScore, Shape
    <3>2. /\ new \in [pc : {"idle", "computing", "ready", "read", "send"},
                      todo : SUBSET Endpoints, offered : SUBSET Endpoints,
                      dirty : BOOLEAN]
          /\ new.pc = thread[t].pc /\ new.dirty = thread[t].dirty
          /\ \A f \in new.offered : f \in thread[t].offered \/ Available(f)
        BY DEF Shape
    <3> HIDE DEF new
    <3>3. Shape' /\ ReadingCurrent'
        BY <2>1, <3>1, <3>2 DEF Shape, ReadingCurrent
    <3>4. QED
        BY <2>1, <2>2, <3>1, <3>3 DEF StaleOfferOnlyByRace
  <2>5. CASE RecomputeStore(t)
    <3>1. /\ thread[t].pc = "computing"
          /\ cache' = [valid |-> TRUE, offered |-> thread[t].offered,
                       raced |-> thread[t].dirty]
          /\ thread' = [thread EXCEPT ![t] = [pc |-> "ready", todo |-> {},
                                              offered |-> {}, dirty |-> FALSE]]
        BY <2>5 DEF RecomputeStore, At
    <3>2. Shape' /\ ReadingCurrent'
        BY <2>1, <3>1 DEF Shape, ReadingCurrent
    <3>3. StaleOfferOnlyByRace'
        BY <2>1, <3>1 DEF StaleOfferOnlyByRace, ReadingCurrent
    <3>4. QED
        BY <2>2, <3>2, <3>3
  <2>6. ASSUME NEW mode \in {"read", "send"}, SelectCandidates(t, mode)
        PROVE  CacheInv'
    <3>1. SendCandidates \subseteq Endpoints /\ ReadCandidates \subseteq Endpoints
        BY DEF SendCandidates, ReadCandidates, Shape
    <3>2. UNCHANGED cache
        BY <2>6 DEF SelectCandidates
    <3>3. \E chosen \in SUBSET Endpoints :
              thread' = [thread EXCEPT ![t] = [pc |-> mode, todo |-> {},
                                               offered |-> chosen, dirty |-> FALSE]]
        BY <2>6, <3>1 DEF SelectCandidates, At
    <3>4. Shape' /\ ReadingCurrent'
        BY <2>1, <3>2, <3>3 DEF Shape, ReadingCurrent
    <3>5. QED
        BY <2>1, <2>2, <3>2, <3>4 DEF StaleOfferOnlyByRace
  <2>7. QED
      BY <1>7, <2>3, <2>4, <2>5, <2>6 DEF ThreadStep
<1>8. CASE UNCHANGED vars
    BY <1>8 DEF vars, endpointVars, Shape, SweepCounted, ReadingCurrent,
        StaleOfferOnlyByRace, Available
<1>9. QED
    BY <1>1, <1>2, <1>3, <1>4, <1>5, <1>6, <1>7, <1>8
    DEF Next, Operation, Updates

\* However updates, invalidations and recomputations of any number of callers
\* interleave, a valid cache offers an unusable endpoint only through an
\* update still to be announced or an announcement that a recomputation in
\* progress overran (rpc.rs recompute_scores, invalidate_score_cache).
THEOREM StaleOffersAreRaces == Spec => []StaleOfferOnlyByRace
<1>1. Init => CacheInv
    BY DEF Init, CacheInv, Shape, SweepCounted, ReadingCurrent,
        StaleOfferOnlyByRace, IdleThread, At
<1>2. CacheInv /\ [Next]_vars => CacheInv'
    BY CacheStep
<1>3. CacheInv => StaleOfferOnlyByRace
    BY DEF CacheInv
<1>4. QED
    BY <1>1, <1>2, <1>3, PTL DEF Spec

-----------------------------------------------------------------------------
(* Types and cooldowns.                                                     *)

\* A duration is a natural number of ticks, and the burst rule's 900 ms are
\* never more than the 45 s cap of record_failure.
LEMMA TicksBounds ==
    /\ \A ms \in Nat : Ticks(ms) \in Nat
    /\ Ticks(900) \in 0..MaxCooldown
    /\ MaxCooldown \in Nat /\ FailureDecay \in Nat /\ FailureDecay >= 1
<1>1. ASSUME NEW ms \in Nat PROVE Ticks(ms) \in Nat
    BY FleetAssumption DEF Ticks
<1>2. Ticks(900) = 1
    BY FleetAssumption DEF Ticks
<1>3. MaxCooldown \in Nat /\ MaxCooldown >= 1
    BY FleetAssumption DEF Ticks, MaxCooldown
<1>4. FailureDecay \in Nat /\ FailureDecay >= 1
    BY FleetAssumption DEF Ticks, FailureDecay
<1>5. QED
    BY <1>1, <1>2, <1>3, <1>4

\* The exponents of record_failure stay small.
LEMMA PowerNat ==
    ASSUME NEW n \in 0..5
    PROVE  2 ^ n \in Nat
<1>1. /\ 2 ^ 0 \in Nat /\ 2 ^ 1 \in Nat /\ 2 ^ 2 \in Nat
      /\ 2 ^ 3 \in Nat /\ 2 ^ 4 \in Nat /\ 2 ^ 5 \in Nat
    OBVIOUS
<1>2. n = 0 \/ n = 1 \/ n = 2 \/ n = 3 \/ n = 4 \/ n = 5
    OBVIOUS
<1>3. QED
    BY <1>1, <1>2, Zenon

\* Every failure asks for a cooldown of a natural number of milliseconds.
LEMMA CooldownNat ==
    ASSUME NEW c \in Counts, NEW kind \in AllFailures
    PROVE  CooldownMs(kind, c) \in Nat
<1>1. AtMost(c.rate, 4) \in 0..5 /\ AtMost(c.timeout, 5) \in 0..5
    BY DEF AtMost, Counts
<1>2. 2 ^ AtMost(c.rate, 4) \in Nat /\ 2 ^ AtMost(c.timeout, 5) \in Nat
    BY <1>1, PowerNat
<1>3. 2000 * 2 ^ AtMost(c.rate, 4) \in Nat /\ 400 * 2 ^ AtMost(c.timeout, 5) \in Nat
    BY <1>2
<1>4. QED
    BY <1>3 DEF CooldownMs, AllFailures

\* The counters stay natural numbers when a failure is counted.
LEMMA CountAfterType ==
    ASSUME NEW c \in Counts, NEW kind \in AllFailures
    PROVE  CountAfter(c, kind) \in Counts
<1>1. /\ c.failures + 1 \in Nat /\ c.timeout \in Nat /\ c.timeout + 1 \in Nat
      /\ c.stale \in Nat /\ c.stale + 1 \in Nat /\ c.rate \in Nat
      /\ c.rate + 1 \in Nat /\ c.rate + 10 \in Nat
    BY DEF Counts
<1>2. QED
    BY <1>1 DEF CountAfter, Counts

\* The parts of the type that no other proof of this module needs.
LiveTypes ==
    /\ count \in [Endpoints -> Counts]
    /\ decay \in 0..FailureDecay
    /\ disabled \in [Endpoints -> BOOLEAN]
    /\ cooldown \in [Endpoints -> 0..MaxCooldown]
    /\ burst \in [Endpoints -> Nat]
    /\ block \in [Endpoints -> {"none", "fresh", "old"}]
    /\ unflushed \in 0..MaxCallers
    /\ sweep \subseteq Endpoints

\* record_failure keeps the counters and the capped cooldown of its endpoint.
LEMMA FailureTypes ==
    ASSUME LiveTypes, NEW e \in Endpoints, NEW kind \in FailureKinds, RecordFailure(e, kind)
    PROVE  /\ count' \in [Endpoints -> Counts]
           /\ disabled' \in [Endpoints -> BOOLEAN]
           /\ cooldown' \in [Endpoints -> 0..MaxCooldown]
           /\ \A f \in Endpoints : cooldown'[f] >= cooldown[f]
<1> DEFINE c     == CountAfter(count[e], kind)
           until == AtMost(Ticks(CooldownMs(kind, c)), MaxCooldown)
<1>1. kind \in AllFailures /\ count[e] \in Counts /\ cooldown[e] \in 0..MaxCooldown
    BY FleetAssumption DEF LiveTypes
<1>2. c \in Counts
    BY <1>1, CountAfterType
<1>3. until \in 0..MaxCooldown
  <2>1. Ticks(CooldownMs(kind, c)) \in Nat
      BY <1>1, <1>2, CooldownNat, TicksBounds
  <2>2. QED
      BY <2>1, TicksBounds DEF AtMost
<1>4. /\ count' = [count EXCEPT ![e] = c]
      /\ disabled' = [disabled EXCEPT ![e] = @ \/ kind = "CapacityExhausted"]
      /\ cooldown' = [cooldown EXCEPT ![e] = IF @ > until THEN @ ELSE until]
    BY DEF RecordFailure
<1> HIDE DEF c, until
<1>5. count' \in [Endpoints -> Counts]
    BY <1>2, <1>4 DEF LiveTypes
<1>6. disabled' \in [Endpoints -> BOOLEAN]
    BY <1>4 DEF LiveTypes
<1>7. cooldown' \in [Endpoints -> 0..MaxCooldown]
    BY <1>1, <1>3, <1>4 DEF LiveTypes
<1>8. \A f \in Endpoints : cooldown'[f] >= cooldown[f]
    BY <1>1, <1>3, <1>4, TicksBounds DEF LiveTypes
<1>9. QED
    BY <1>5, <1>6, <1>7, <1>8

\* record_success lowers each counter by one, as far as zero.
LEMMA SuccessTypes ==
    ASSUME LiveTypes, NEW e \in Endpoints, NEW sawBlock \in BOOLEAN, RecordSuccess(e, sawBlock)
    PROVE  /\ count' \in [Endpoints -> Counts]
           /\ block' \in [Endpoints -> {"none", "fresh", "old"}]
<1>1. count[e] \in Counts
    BY DEF LiveTypes
<1>2. [failures |-> Less(count[e].failures, 1), timeout |-> Less(count[e].timeout, 1),
       rate |-> Less(count[e].rate, 1), stale |-> Less(count[e].stale, 1)] \in Counts
    BY <1>1 DEF Less, Counts
<1>3. QED
    BY <1>2 DEF RecordSuccess, LiveTypes

\* Time lowers counters and cooldowns and empties the burst window.
LEMMA TickTypes ==
    ASSUME LiveTypes, Tick
    PROVE  LiveTypes'
<1>1. cooldown' \in [Endpoints -> 0..MaxCooldown]
  <2>1. \A e \in Endpoints : Less(cooldown[e], 1) \in 0..MaxCooldown
      BY TicksBounds DEF LiveTypes, Less
  <2>2. QED
      BY <2>1 DEF Tick
<1>2. \A c \in Counts : DecayedCount(c) \in Counts
    BY DEF DecayedCount, Counts, Less
<1>3. count' \in [Endpoints -> Counts] /\ decay' \in 0..FailureDecay
    BY <1>2, TicksBounds DEF Tick, LiveTypes
<1>4. burst' \in [Endpoints -> Nat] /\ UNCHANGED <<disabled, block, unflushed, sweep>>
    BY DEF Tick
<1>5. QED
    BY <1>1, <1>3, <1>4 DEF LiveTypes

\* reserve_selection adds units and may put the endpoint on the short cooldown.
LEMMA ReserveTypes ==
    ASSUME LiveTypes, NEW e \in Endpoints, NEW send \in BOOLEAN, ReserveSelection(e, send)
    PROVE  /\ burst' \in [Endpoints -> Nat]
           /\ cooldown' \in [Endpoints -> 0..MaxCooldown]
           /\ \A f \in Endpoints : cooldown'[f] # cooldown[f] => burst'[f] >= BurstLimit(Kind[f])
<1> DEFINE units == burst[e] + (IF send THEN SendCost[Kind[e]] ELSE ReadCost[Kind[e]])
           top   == BurstTop(Kind[e])
<1>1. Kind[e] \in RpcKinds /\ burst[e] \in Nat
    BY FleetAssumption DEF LiveTypes
<1>2. /\ SendCost[Kind[e]] \in Nat /\ ReadCost[Kind[e]] \in Nat
      /\ SendCapacity[Kind[e]] \in Nat /\ ReadCapacity[Kind[e]] \in Nat
    BY <1>1 DEF RpcKinds, SendCost, ReadCost, SendCapacity, ReadCapacity
<1>3. units \in Nat /\ top \in Nat /\ BurstLimit(Kind[e]) \in Nat /\ top >= BurstLimit(Kind[e])
    BY <1>1, <1>2 DEF BurstTop, BurstLimit
<1>4. /\ burst' = [burst EXCEPT ![e] = AtMost(units, top)]
      /\ cooldown' = IF units >= BurstLimit(Kind[e])
                     THEN [cooldown EXCEPT ![e] = Ticks(900)] ELSE cooldown
    BY DEF ReserveSelection
<1> HIDE DEF units, top
<1>5. /\ AtMost(units, top) \in Nat
      /\ units >= BurstLimit(Kind[e]) => AtMost(units, top) >= BurstLimit(Kind[e])
    BY <1>3 DEF AtMost
<1>6. burst' \in [Endpoints -> Nat] /\ burst'[e] = AtMost(units, top)
    BY <1>4, <1>5 DEF LiveTypes
<1>7. cooldown' \in [Endpoints -> 0..MaxCooldown]
    BY <1>4, TicksBounds DEF LiveTypes
<1>8. ASSUME NEW f \in Endpoints, cooldown'[f] # cooldown[f]
      PROVE  burst'[f] >= BurstLimit(Kind[f])
  <2>1. f = e /\ units >= BurstLimit(Kind[e])
      BY <1>4, <1>8 DEF LiveTypes
  <2>2. QED
      BY <1>5, <1>6, <2>1
<1>9. QED
    BY <1>6, <1>7, <1>8

\* Every step of the fleet keeps the types.
LEMMA LiveStep ==
    ASSUME LiveTypes, [Next]_vars
    PROVE  LiveTypes'
<1>0. MaxCallers \in Nat /\ (\A x : Update => unflushed' \in 0..MaxCallers /\ decay' = decay)
    BY FleetAssumption DEF Update, LiveTypes
<1>1. CASE Tick
    BY <1>1, TickTypes
<1>2. CASE \E e \in Endpoints, sawBlock \in BOOLEAN : RecordSuccess(e, sawBlock)
  <2>1. PICK e \in Endpoints, sawBlock \in BOOLEAN : RecordSuccess(e, sawBlock)
      BY <1>2
  <2>2. UNCHANGED <<disabled, cooldown, burst, sweep>> /\ Update
      BY <2>1 DEF RecordSuccess
  <2>3. QED
      BY <1>0, <2>1, <2>2, SuccessTypes DEF LiveTypes
<1>3. CASE \E e \in Endpoints, kind \in FailureKinds : RecordFailure(e, kind)
  <2>1. PICK e \in Endpoints, kind \in FailureKinds : RecordFailure(e, kind)
      BY <1>3
  <2>2. UNCHANGED <<burst, block, sweep>> /\ Update
      BY <2>1 DEF RecordFailure
  <2>3. QED
      BY <1>0, <2>1, <2>2, FailureTypes DEF LiveTypes
<1>4. CASE \E e \in Endpoints, on \in BOOLEAN : SetEndpointEnabled(e, on)
  <2>1. PICK e \in Endpoints, on \in BOOLEAN : SetEndpointEnabled(e, on)
      BY <1>4
  <2>2. /\ UNCHANGED <<count, cooldown, burst, block, sweep>> /\ Update
        /\ disabled' = [disabled EXCEPT ![e] = ~on]
      BY <2>1 DEF SetEndpointEnabled
  <2>3. disabled' \in [Endpoints -> BOOLEAN]
      BY <2>2 DEF LiveTypes
  <2>4. QED
      BY <1>0, <2>2, <2>3 DEF LiveTypes
<1>5. CASE \E e \in Endpoints, send \in BOOLEAN : ReserveSelection(e, send)
  <2>1. PICK e \in Endpoints, send \in BOOLEAN : ReserveSelection(e, send)
      BY <1>5
  <2>2. UNCHANGED <<count, disabled, block, sweep>> /\ Update
      BY <2>1 DEF ReserveSelection
  <2>3. QED
      BY <1>0, <2>1, <2>2, ReserveTypes DEF LiveTypes
<1>6. CASE KeepOnlyGetblockStart
    BY <1>0, <1>6 DEF KeepOnlyGetblockStart, LiveTypes, endpointVars
<1>7. CASE \E e \in Endpoints : KeepOnlyGetblockVisit(e)
  <2>1. PICK e \in Endpoints : KeepOnlyGetblockVisit(e)
      BY <1>7
  <2>2. /\ sweep' = sweep \ {e} /\ disabled' = [disabled EXCEPT ![e] = Kind[e] # "GetBlock"]
        /\ UNCHANGED <<count, cooldown, burst, block, decay, unflushed>>
      BY <2>1 DEF KeepOnlyGetblockVisit
  <2>3. disabled' \in [Endpoints -> BOOLEAN]
      BY <2>2 DEF LiveTypes
  <2>4. QED
      BY <2>2, <2>3 DEF LiveTypes
<1>8. CASE InvalidateScoreCache
    BY <1>0, <1>8 DEF InvalidateScoreCache, LiveTypes, endpointVars
<1>9. CASE \E e \in Endpoints : BlockAges(e)
    BY <1>9 DEF BlockAges, LiveTypes
<1>10. CASE UNCHANGED <<count, disabled, cooldown, burst, block, decay, unflushed, sweep>>
    BY <1>10 DEF LiveTypes
<1>11. \/ Tick \/ KeepOnlyGetblockStart \/ InvalidateScoreCache
       \/ \E e \in Endpoints, sawBlock \in BOOLEAN : RecordSuccess(e, sawBlock)
       \/ \E e \in Endpoints, kind \in FailureKinds : RecordFailure(e, kind)
       \/ \E e \in Endpoints, on \in BOOLEAN : SetEndpointEnabled(e, on)
       \/ \E e \in Endpoints, send \in BOOLEAN : ReserveSelection(e, send)
       \/ \E e \in Endpoints : KeepOnlyGetblockVisit(e)
       \/ \E e \in Endpoints : BlockAges(e)
       \/ UNCHANGED <<count, disabled, cooldown, burst, block, decay, unflushed, sweep>>
    BY DEF Next, Operation, CacheExpires, ThreadStep, RecomputeStart, RecomputeScore,
        RecomputeStore, SelectCandidates, CandidatesUsed, vars, endpointVars
<1>12. QED
    BY <1>1, <1>2, <1>3, <1>4, <1>5, <1>6, <1>7, <1>8, <1>9, <1>10, <1>11

LEMMA LiveInit == Init => LiveTypes
    BY TicksBounds, FleetAssumption DEF Init, LiveTypes, Counts, Zero

\* Counters, cooldowns and reservations of rpc.rs stay in their ranges for every history of
\* failures; in particular no cooldown exceeds the 45 s of record_failure.
THEOREM TypeCorrect == Spec => []TypeOK
<1>1. Init => CacheInv
    BY DEF Init, CacheInv, Shape, SweepCounted, ReadingCurrent, StaleOfferOnlyByRace,
        IdleThread, At
<1>2. CacheInv /\ [Next]_vars => CacheInv'
    BY CacheStep
<1>3. LiveTypes /\ [Next]_vars => LiveTypes'
    BY LiveStep
<1>4. CacheInv /\ LiveTypes => TypeOK
    BY DEF CacheInv, Shape, LiveTypes, TypeOK
<1>5. QED
    BY <1>1, <1>2, <1>3, <1>4, LiveInit, PTL DEF Spec

\* For every history, only the burst rule of reserve_burst_units cuts a cooldown short.
THEOREM CooldownsAreKept == Spec => CooldownCutOnlyByBurst
<1> DEFINE Kept(e) == cooldown'[e] < cooldown[e] /\ unflushed' > unflushed
                        => burst'[e] >= BurstLimit(Kind[e])
<1>1. ASSUME LiveTypes, [Next]_vars, NEW e \in Endpoints
      PROVE  Kept(e)
  <2>0. cooldown[e] \in Nat /\ unflushed \in Nat
      BY <1>1, TicksBounds, FleetAssumption DEF LiveTypes
  <2>1. CASE \E f \in Endpoints, kind \in FailureKinds : RecordFailure(f, kind)
    <3>1. cooldown'[e] >= cooldown[e] /\ cooldown'[e] \in Nat
        BY <1>1, <2>1, FailureTypes, TicksBounds
    <3>2. QED
        BY <2>0, <3>1
  <2>2. CASE \E f \in Endpoints, send \in BOOLEAN : ReserveSelection(f, send)
    <3>1. PICK f \in Endpoints, send \in BOOLEAN : ReserveSelection(f, send)
        BY <2>2
    <3>2. cooldown'[e] # cooldown[e] => burst'[e] >= BurstLimit(Kind[e])
        BY <1>1, <3>1, ReserveTypes
    <3>3. QED
        BY <2>0, <3>2
  <2>3. CASE UNCHANGED cooldown
      BY <2>0, <2>3
  <2>4. CASE UNCHANGED unflushed
      BY <2>0, <2>4
  <2>5. \/ \E f \in Endpoints, kind \in FailureKinds : RecordFailure(f, kind)
        \/ \E f \in Endpoints, send \in BOOLEAN : ReserveSelection(f, send)
        \/ UNCHANGED cooldown \/ UNCHANGED unflushed
      BY <1>1 DEF Next, Operation, Tick, CacheExpires, InvalidateScoreCache, BlockAges,
          RecordSuccess, SetEndpointEnabled, KeepOnlyGetblockStart, KeepOnlyGetblockVisit,
          ThreadStep, RecomputeStart, RecomputeScore, RecomputeStore, SelectCandidates,
          CandidatesUsed, vars, endpointVars
  <2>6. QED
      BY <2>1, <2>2, <2>3, <2>4, <2>5
<1>2. LiveTypes /\ [Next]_vars
        => [\A e \in Endpoints : cooldown'[e] < cooldown[e] /\ unflushed' > unflushed
              => burst'[e] >= BurstLimit(Kind[e])]_vars
    BY <1>1
<1>3. LiveTypes /\ [Next]_vars => LiveTypes'
    BY LiveStep
<1>4. QED
    BY <1>2, <1>3, LiveInit, PTL DEF Spec, CooldownCutOnlyByBurst

-----------------------------------------------------------------------------
(* Reads.                                                                   *)

\* select_candidates: the choice for a read is healthy if it can be.
LEMMA ReadChoice ==
    ASSUME NEW e \in cache.offered, ReadHealthy(e)
    PROVE  \A f \in ReadCandidates : ReadHealthy(f)
<1> DEFINE preferred == {f \in cache.offered : Matches(f, ReadPreference)}
           base      == IF preferred # {} THEN preferred ELSE cache.offered
           healthy   == {f \in base : ReadHealthy(f)}
           anyHealthy == {f \in cache.offered : ReadHealthy(f)}
<1>1. e \in anyHealthy
    OBVIOUS
<1>2. CASE healthy # {}
  <2>1. ReadCandidates = healthy
      BY <1>2 DEF ReadCandidates
  <2>2. QED
      BY <2>1
<1>3. CASE healthy = {}
  <2>1. ReadCandidates = anyHealthy
      BY <1>1, <1>3 DEF ReadCandidates
  <2>2. QED
      BY <2>1
<1>4. QED
    BY <1>2, <1>3

\* No other step of any caller gives a thread a selection for reading.
LEMMA ReadStart ==
    ASSUME Shape, [Next]_vars, NEW t \in Threads,
           thread[t].pc # "read", thread'[t].pc = "read"
    PROVE  SelectCandidates(t, "read")
<1>1. ASSUME NEW u \in Threads, NEW r, thread' = [thread EXCEPT ![u] = r], r.pc # "read"
      PROVE  FALSE
    BY <1>1 DEF Shape
<1>2. ~UNCHANGED thread
    OBVIOUS
<1>3. ~InvalidateScoreCache
  <2>1. ASSUME InvalidateScoreCache PROVE thread'[t].pc = thread[t].pc
      BY <2>1 DEF InvalidateScoreCache, Shape
  <2>2. QED
      BY <2>1
<1>4. PICK u \in Threads : ThreadStep(u)
    BY <1>2, <1>3 DEF Next, Tick, CacheExpires, BlockAges, Operation, Update, RecordSuccess,
        RecordFailure, SetEndpointEnabled, ReserveSelection, KeepOnlyGetblockVisit,
        KeepOnlyGetblockStart, vars
<1>5. ASSUME RecomputeStart(u) \/ RecomputeStore(u) \/ CandidatesUsed(u) PROVE FALSE
  <2>1. \E pc \in {"computing", "ready", "idle"}, todo \in SUBSET Endpoints :
            thread' = [thread EXCEPT ![u] = At(pc, todo, {})]
      BY <1>5 DEF RecomputeStart, RecomputeStore, CandidatesUsed, IdleThread
  <2>2. PICK pc \in {"computing", "ready", "idle"}, todo \in SUBSET Endpoints :
            thread' = [thread EXCEPT ![u] = At(pc, todo, {})]
      BY <2>1
  <2>3. At(pc, todo, {}).pc # "read"
      BY DEF At
  <2>4. QED
      BY <1>1, <2>2, <2>3
<1>6. ASSUME NEW e \in Endpoints, RecomputeScore(u, e) PROVE FALSE
  <2>1. thread'[t].pc = thread[t].pc
      BY <1>6 DEF RecomputeScore, Shape
  <2>2. QED
      BY <2>1
<1>7. ASSUME SelectCandidates(u, "send") PROVE FALSE
  <2>1. thread' = [thread EXCEPT ![u] = At("send", {}, SendCandidates)]
      BY <1>7 DEF SelectCandidates
  <2>2. At("send", {}, SendCandidates).pc # "read"
      BY DEF At
  <2>3. QED
      BY <1>1, <2>1, <2>2
<1>8. SelectCandidates(u, "read")
  <2>1. \/ RecomputeStart(u) \/ RecomputeStore(u) \/ CandidatesUsed(u)
        \/ \E e \in Endpoints : RecomputeScore(u, e)
        \/ SelectCandidates(u, "read") \/ SelectCandidates(u, "send")
      BY <1>4 DEF ThreadStep
  <2>2. QED
      BY <1>5, <1>6, <1>7, <2>1
<1>9. u = t
    BY <1>8 DEF SelectCandidates, Shape
<1>10. QED
    BY <1>8, <1>9

\* Whatever the callers and the other threads do, a read goes to an unhealthy
\* endpoint only when the cache offers no healthy one: the preferred kind of
\* RPC_READ_PREFERENCE never outweighs the health that select_candidates reads
\* from the live state.
THEOREM HealthyReadsFirst == Spec => ReadsPreferHealthy
<1> DEFINE Prefers(t) ==
        thread[t].pc # "read" /\ thread'[t].pc = "read" /\ (\E e \in cache.offered : ReadHealthy(e))
          => \A e \in thread'[t].offered : ReadHealthy(e)
<1>1. ASSUME CacheInv, [Next]_vars, NEW t \in Threads PROVE Prefers(t)
  <2> SUFFICES ASSUME thread[t].pc # "read", thread'[t].pc = "read",
                      \E e \in cache.offered : ReadHealthy(e)
               PROVE  \A e \in thread'[t].offered : ReadHealthy(e)
      OBVIOUS
  <2>1. Shape
      BY <1>1 DEF CacheInv
  <2>2. SelectCandidates(t, "read")
      BY <1>1, <2>1, ReadStart
  <2>3. thread'[t].offered = ReadCandidates
      BY <2>1, <2>2 DEF SelectCandidates, Shape, At
  <2>4. QED
      BY <2>3, ReadChoice
<1>2. CacheInv /\ [Next]_vars
        => [\A t \in Threads :
              (/\ thread[t].pc # "read" /\ thread'[t].pc = "read"
               /\ \E e \in cache.offered : ReadHealthy(e))
              => \A e \in thread'[t].offered : ReadHealthy(e)]_vars
    BY <1>1
<1>3. Init => CacheInv
    BY DEF Init, CacheInv, Shape, SweepCounted, ReadingCurrent, StaleOfferOnlyByRace,
        IdleThread, At
<1>4. CacheInv /\ [Next]_vars => CacheInv'
    BY CacheStep
<1>5. QED
    BY <1>2, <1>3, <1>4, PTL DEF Spec, ReadsPreferHealthy
=============================================================================
