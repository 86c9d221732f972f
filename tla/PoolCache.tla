----------------------------- MODULE PoolCache -----------------------------
(***************************************************************************)
(* The cache of pool states the builders read.  get_or_fetch_v2 and _v3    *)
(* answer from the map when the entry is younger than the ttl and was      *)
(* fetched for a block close enough to the caller's; otherwise they read   *)
(* the pool over RPC, with no lock held and no timeout, and put the answer *)
(* in the map under the block number the caller came with.                 *)
(***************************************************************************)
EXTENDS Integers, FiniteSets

CONSTANTS Callers,     \* tasks that build opportunities
          Ttl,         \* ttl_ms, in ticks
          BlockSlack,  \* how many blocks an entry may be behind its reader (5)
          NodeLag,     \* blocks a node that answers may be behind the chain
          MaxHead,     \* bound: blocks mined
          MaxGets      \* bound: calls of get_or_fetch

ASSUME CacheAssumption ==
  IsFiniteSet(Callers) /\ Ttl \in Nat /\ BlockSlack \in Nat /\ NodeLag \in Nat

VARIABLES head,        \* the chain's newest block
          pools,       \* v2_pools and v3_pools, one pool of each
          fetch,       \* what each caller is waiting for
          stats,       \* CacheStats
          hit          \* the last answer given from the map, with the caller's block

cacheVars == <<head, pools, fetch, stats, hit>>

Kinds   == {"v2", "v3"}
NoEntry == [seen |-> -1, block |-> -1, age |-> 0]
Looked(k, b) == [kind |-> k, block |-> b, seen |-> -1, counted |-> FALSE, raced |-> FALSE, lagged |-> FALSE]
Idle    == Looked("none", -1)

Counters == {"hits", "misses", "stale", "refreshed", "failed"}

\* seen is the block whose state the data is: what the node answered, not what the entry claims.
CacheInit ==
  /\ head = 0 /\ hit = NoEntry
  /\ pools = [k \in Kinds |-> NoEntry]
  /\ fetch = [c \in Callers |-> Idle]
  /\ stats = [k \in Kinds |-> [x \in Counters |-> 0]]

\* Callers between the lookup, which counts a stale read, and the count of their miss; and callers
\* whose fetch is under way.
Uncounted(k) == {c \in Callers : fetch[c].kind = k /\ ~fetch[c].counted}
Fetching(k)  == {c \in Callers : fetch[c].kind = k /\ fetch[c].counted}

GetsOf(k) == stats[k]["hits"] + stats[k]["misses"] + Cardinality(Uncounted(k))
Gets      == GetsOf("v2") + GetsOf("v3")

Fresh(e)          == e # NoEntry /\ e.age < Ttl
\* Mutation: any older block will do.
CloseEnoughToAny(e, b) == e.block <= b

CloseEnough(e, b) == e.block >= b - BlockSlack

\* stale_reads and refresh_count are kept for v2 only; failed is a history variable.
Count(k, x) == [stats EXCEPT ![k][x] = @ + 1]

\* The caller's block number was read from the fleet earlier and may be behind by then.
Hit(c, k, b) ==
  /\ fetch[c] = Idle /\ Gets < MaxGets
  /\ Fresh(pools[k]) /\ CloseEnough(pools[k], b)
  /\ hit' = [pools[k] EXCEPT !.block = b]
  /\ stats' = Count(k, "hits")
  /\ UNCHANGED <<head, pools, fetch>>

Stale(e) == e # NoEntry /\ e.age >= Ttl

\* The map has nothing to answer with: the lookup counts a stale read, still under the read lock.
Miss(c, k, b) ==
  /\ fetch[c] = Idle /\ Gets < MaxGets
  /\ ~(Fresh(pools[k]) /\ CloseEnough(pools[k], b))
  /\ fetch' = [fetch EXCEPT ![c] = Looked(k, b)]
  /\ stats' = IF k = "v2" /\ Stale(pools[k]) THEN Count(k, "stale") ELSE stats
  /\ UNCHANGED <<head, pools, hit>>

\* The miss is counted under another hold of the stats lock, before the fetch starts.
CountMiss(c) ==
  /\ fetch[c].kind \in Kinds /\ ~fetch[c].counted
  /\ fetch' = [fetch EXCEPT ![c].counted = TRUE]
  /\ stats' = Count(fetch[c].kind, "misses")
  /\ UNCHANGED <<head, pools, hit>>

Get(c, k, b) == Hit(c, k, b) \/ Miss(c, k, b)

\* The node answers the reserves or slot0 call with the state of its newest block, which may be
\* behind the chain's.
NodeAnswers(c) ==
  /\ fetch[c].kind \in Kinds /\ fetch[c].counted /\ fetch[c].seen = -1
  /\ \E lag \in 0..NodeLag :
       /\ lag <= head
       /\ fetch' = [fetch EXCEPT ![c].seen = head - lag, ![c].lagged = (lag > 0)]
  /\ UNCHANGED <<head, pools, stats, hit>>

\* All calls of the join answered: the entry is stamped with the time of now and the caller's block.
Fetched(c) ==
  LET f == fetch[c]
  IN  /\ f.seen # -1
      /\ pools' = [pools EXCEPT ![f.kind] = [seen |-> f.seen, block |-> f.block, age |-> 0]]
      /\ stats' = IF f.kind = "v2" THEN Count("v2", "refreshed") ELSE stats
      /\ fetch' = [d \in Callers |->
                     IF d = c THEN Idle
                     ELSE IF fetch[d].kind = f.kind THEN [fetch[d] EXCEPT !.raced = TRUE] ELSE fetch[d]]
      /\ UNCHANGED <<head, hit>>

\* Mutation: a failed fetch drops the entry.
FetchFailsCached(c) ==
  /\ fetch[c].kind \in Kinds /\ fetch[c].counted
  /\ pools' = [pools EXCEPT ![fetch[c].kind] = NoEntry]
  /\ fetch' = [fetch EXCEPT ![c] = Idle]
  /\ stats' = IF fetch[c].kind = "v2" THEN Count("v2", "failed") ELSE stats
  /\ UNCHANGED <<head, hit>>

\* One of the calls failed: the caller gets None and the map keeps what it had.
FetchFails(c) ==
  /\ fetch[c].kind \in Kinds /\ fetch[c].counted
  /\ fetch' = [fetch EXCEPT ![c] = Idle]
  /\ stats' = IF fetch[c].kind = "v2" THEN Count("v2", "failed") ELSE stats
  /\ UNCHANGED <<head, pools, hit>>

Mine ==
  /\ head < MaxHead /\ head' = head + 1
  /\ UNCHANGED <<pools, fetch, stats, hit>>

CacheTick ==
  /\ \E k \in Kinds : pools[k] # NoEntry /\ pools[k].age < Ttl
  /\ pools' = [k \in Kinds |-> IF Fresh(pools[k]) THEN [pools[k] EXCEPT !.age = @ + 1] ELSE pools[k]]
  /\ UNCHANGED <<head, fetch, stats, hit>>

CacheNext ==
  \/ \E c \in Callers, k \in Kinds, b \in 0..head : Get(c, k, b)
  \/ \E c \in Callers : CountMiss(c) \/ NodeAnswers(c) \/ Fetched(c) \/ FetchFails(c)
  \/ Mine
  \/ CacheTick

CacheSpec == CacheInit /\ [][CacheNext]_cacheVars
-----------------------------------------------------------------------------
\* The ttl is measured from the insertion, not from the node's answer, and a fetch has no timeout,
\* so an entry stamped "now" can hold data of any age.  What bounds the age of an answer given from
\* the map is the block check alone: its data is the pool's state at most BlockSlack blocks (and
\* what its node lagged) before the block the caller works on, however two fetches interleave.
HitWithinSlack ==
  hit # NoEntry => hit.seen >= hit.block - BlockSlack - NodeLag

\* Nothing makes callers that miss together share one fetch, and the last to finish wins: an entry
\* goes back to older data only in that way, when another caller put newer data in the map while
\* its writer's fetch was under way - or when the node that answered was behind.
RegressionOnlyByRace ==
  [][\A k \in Kinds : pools'[k].seen < pools[k].seen =>
       \E c \in Callers : fetch[c].kind = k /\ fetch'[c] = Idle /\ (fetch[c].raced \/ fetch[c].lagged)]_pools

\* The v2 counters of CacheStats account for each other: every counted miss is still being fetched,
\* was counted as a refresh, or failed, and a stale read has been counted as a miss too or is about
\* to be.  (get_stats itself can see more stale reads than misses: the two are counted under two
\* holds of the lock.)
CacheStatsBalance ==
  LET s == stats["v2"]
  IN  /\ s["misses"] = s["refreshed"] + s["failed"] + Cardinality(Fetching("v2"))
      /\ s["stale"] <= s["misses"] + Cardinality(Uncounted("v2"))

\* get_or_fetch answers with data close to the caller's block and counts every call, whatever
\* fetches of other callers finish in between.
CacheIsSound == HitWithinSlack /\ CacheStatsBalance
===========================================================================
