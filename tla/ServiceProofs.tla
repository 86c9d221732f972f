--------------------------- MODULE ServiceProofs ---------------------------
(***************************************************************************)
(* What the services promise, each for every value of its constants: the   *)
(* fee fields, the pool cache, the dashboard's controls, the telemetry     *)
(* files and the lookup budget.  Each has an inductive invariant of its    *)
(* own; they share no variable.                                            *)
(***************************************************************************)
EXTENDS GasPricing, LookupBudget, PoolCache, Controls, FileTelemetry, SwapDecoder,
        FiniteSetTheorems, WellFoundedInduction, TLAPS

-----------------------------------------------------------------------------
(* Gas pricing.                                                            *)

\* What dynamic_gas_price returns never exceeds a configured cap.
LEMMA CappedBelowCap ==
  ASSUME NEW price \in Nat, NEW cap \in Nat \cup {Uncapped}
  PROVE  /\ Capped(price, cap) \in Nat
         /\ cap # Uncapped => Capped(price, cap) <= cap
  BY DEF Capped, Smaller, Uncapped

\* The overpay is a natural number of basis points, whatever the relay's record and the context.
LEMMA ExtraIsNat ==
  ASSUME NEW o \in [base : Nat, miss : Nat, revert : Nat, failure : Nat, max : Nat],
         NEW relay \in RelayRecords \cup {NoRelay}, NEW context \in Contexts
  PROVE  ExtraBps(o, relay, context) \in Nat
  <1>1. RelayBps(o, relay) \in Nat
    BY DEF RelayBps, RelayRecords, NoRelay
  <1>2. ContextBps(o, context) \in Nat
    BY DEF ContextBps, Contexts
  <1>3. QED
    BY <1>1, <1>2 DEF ExtraBps, Smaller

\* Raising by basis points and rounding down gives a natural number again.
LEMMA RaisedIsNat ==
  ASSUME NEW price \in Nat, NEW extra \in Nat
  PROVE  (price * (Bps + extra)) \div Bps \in Nat
  <1>1. Bps + extra \in Nat
    BY DEF Bps
  <1>2. price * (Bps + extra) \in Nat
    BY <1>1
  <1>3. \A n \in Nat : n \div 10000 \in Nat
    OBVIOUS
  <1>4. QED
    BY <1>2, <1>3 DEF Bps

\* The fee fields derived from a price and a base fee.
LEMMA FeeFields ==
  ASSUME NEW price \in Nat, NEW baseFee \in Nat
  PROVE  /\ PriorityFee(price, baseFee) \in Nat
         /\ MaxFee(price, baseFee) \in Nat
         /\ MaxFee(price, baseFee) >= baseFee + price \div 4
         /\ PriorityFee(price, baseFee) <= MaxFee(price, baseFee)
         /\ MaxFee(price, baseFee) > price =>
              /\ MaxFee(price, baseFee) = baseFee + price \div 4
              /\ 4 * baseFee > 3 * price
  BY DEF PriorityFee, MaxFee, Larger

GasInv == GasTypeOK /\ OverCapOnlyNearBaseFee /\ SignedIsIncludable

\* One signing establishes the invariant, whatever was signed before.
LEMMA SignEstablishes ==
  ASSUME Sign
  PROVE  GasInv'
  <1>1. PICK base \in GasPrices, cap \in GasCaps \cup {Uncapped}, fee \in BaseFees \cup {Legacy},
             o \in Overpays, relay \in RelayRecords \cup {NoRelay}, context \in Contexts :
          LET price == DynamicGasPrice(base, cap, ExtraBps(o, relay, context))
              fees  == Fees(price, fee)
          IN  signed' = [cap |-> cap, baseFee |-> fee, price |-> price,
                         maxFee |-> fees.maxFee, priority |-> fees.priority]
    BY DEF Sign
  <1> DEFINE price == DynamicGasPrice(base, cap, ExtraBps(o, relay, context))
             fees  == Fees(price, fee)
  <1>2. base \in Nat /\ cap \in Nat \cup {Uncapped} /\ fee \in Nat \cup {Legacy}
    BY GasAssumption
  <1>3. ExtraBps(o, relay, context) \in Nat
    BY ExtraIsNat, GasAssumption
  <1>4. price \in Nat /\ (cap # Uncapped => price <= cap)
    BY <1>2, <1>3, RaisedIsNat, CappedBelowCap DEF DynamicGasPrice
  <1>5. signed' = [cap |-> cap, baseFee |-> fee, price |-> price,
                   maxFee |-> fees.maxFee, priority |-> fees.priority]
    BY <1>1
  <1> HIDE DEF price
  <1>6. CASE fee = Legacy
    <2>1. fees = [maxFee |-> price, priority |-> price]
      BY <1>6 DEF Fees
    <2>2. QED
      BY <1>2, <1>4, <1>5, <1>6, <2>1
      DEF GasInv, GasTypeOK, OverCapOnlyNearBaseFee, SignedIsIncludable, Legacy, Uncapped
  <1>7. CASE fee # Legacy
    <2>1. fee \in Nat
      BY <1>2, <1>7
    <2>2. fees = [maxFee |-> MaxFee(price, fee), priority |-> PriorityFee(price, fee)]
      BY <1>7 DEF Fees
    <2>3. /\ PriorityFee(price, fee) \in Nat /\ MaxFee(price, fee) \in Nat
          /\ MaxFee(price, fee) >= fee + price \div 4
          /\ PriorityFee(price, fee) <= MaxFee(price, fee)
          /\ MaxFee(price, fee) > price =>
               MaxFee(price, fee) = fee + price \div 4 /\ 4 * fee > 3 * price
      BY <1>4, <2>1, FeeFields
    <2>4. GasTypeOK'
      BY <1>2, <1>4, <1>5, <2>1, <2>2, <2>3 DEF GasTypeOK
    <2>5. SignedIsIncludable'
      BY <1>5, <2>2, <2>3 DEF SignedIsIncludable
    <2>6. OverCapOnlyNearBaseFee'
      <3>1. SUFFICES ASSUME cap # Uncapped, MaxFee(price, fee) > cap
                     PROVE  MaxFee(price, fee) <= fee + cap \div 4 /\ 4 * fee > 3 * cap
        BY <1>5, <1>7, <2>2 DEF OverCapOnlyNearBaseFee
      <3>2. cap \in Nat /\ price <= cap
        BY <1>2, <1>4, <3>1
      <3>3. MaxFee(price, fee) = fee + price \div 4 /\ 4 * fee > 3 * price
        BY <1>4, <2>3, <3>1, <3>2
      <3>4. price \div 4 <= cap \div 4
        BY <1>4, <3>2
      <3>5. 4 * fee > 3 * cap
        BY <1>4, <2>1, <3>1, <3>2, <3>3
      <3>6. QED
        BY <1>4, <2>1, <3>2, <3>3, <3>4, <3>5
    <2>7. QED
      BY <2>4, <2>5, <2>6 DEF GasInv
  <1>8. QED
    BY <1>6, <1>7

\* Init and every signing keep the three facts about what sign_executor_transaction signed.
LEMMA GasInductive == GasSpec => []GasInv
  <1>1. GasInit => GasInv
    BY DEF GasInit, NoTx, GasInv, GasTypeOK, OverCapOnlyNearBaseFee, SignedIsIncludable,
           Uncapped, Legacy
  <1>2. GasInv /\ [GasNext]_signed => GasInv'
    <2>1. CASE GasNext
      BY <2>1, SignEstablishes DEF GasNext
    <2>2. CASE UNCHANGED signed
      BY <2>2 DEF GasInv, GasTypeOK, OverCapOnlyNearBaseFee, SignedIsIncludable
    <2>3. QED
      BY <2>1, <2>2
  <1>3. QED
    BY <1>1, <1>2, PTL DEF GasSpec

\* sign_executor_transaction exceeds the cap only when the base fee is above three quarters of it,
\* and by no more than a quarter of the cap above the base fee, for all prices and caps.
THEOREM GasWithinCap == GasSpec => []OverCapOnlyNearBaseFee
  <1>1. GasInv => OverCapOnlyNearBaseFee
    BY DEF GasInv
  <1>2. QED
    BY <1>1, GasInductive, PTL

\* What sign_executor_transaction signs can be included in the pending block, for all prices.
THEOREM GasIncludable == GasSpec => []SignedIsIncludable
  <1>1. GasInv => SignedIsIncludable
    BY DEF GasInv
  <1>2. QED
    BY <1>1, GasInductive, PTL

\* Both together: the fee fields of sign_executor_transaction are close to the cap and includable.
THEOREM GasFeesAreSound == GasSpec => []FeesAreSound
  <1>1. GasInv => FeesAreSound
    BY DEF GasInv, FeesAreSound
  <1>2. QED
    BY <1>1, GasInductive, PTL
-----------------------------------------------------------------------------
(* The pool cache.  What every entry and every fetch under way knows of    *)
(* the chain: data is at most NodeLag blocks older than the block it is    *)
(* stamped with, never newer than the chain, and an answer that nobody     *)
(* raced and whose node was up to date is no older than the entry it will  *)
(* replace.                                                                *)

Entries == [seen : Int, block : Int, age : Nat]
Fetches == [kind : Kinds \cup {"none"}, block : Int, seen : Int, counted : BOOLEAN, raced : BOOLEAN, lagged : BOOLEAN]

CacheTypeOK ==
  /\ head \in Nat
  /\ pools \in [Kinds -> Entries]
  /\ fetch \in [Callers -> Fetches]
  /\ stats \in [Kinds -> [Counters -> Nat]]
  /\ hit \in Entries

EntrySound(e) == e # NoEntry => e.seen >= e.block - NodeLag
SeenOnChain   == \A k \in Kinds : pools[k].seen <= head
FetchSound(f) ==
  /\ f.kind \in Kinds => f.block <= head
  /\ f.seen # -1 => f.kind \in Kinds /\ f.counted /\ f.seen >= f.block - NodeLag /\ f.seen <= head
UnracedNewer(f) ==
  f.seen # -1 /\ ~f.raced /\ ~f.lagged => \A k \in Kinds : f.kind = k => f.seen >= pools[k].seen

CacheInv ==
  /\ CacheTypeOK
  /\ \A k \in Kinds : EntrySound(pools[k])
  /\ SeenOnChain
  /\ \A c \in Callers : FetchSound(fetch[c]) /\ UnracedNewer(fetch[c])
  /\ HitWithinSlack
  /\ CacheStatsBalance

\* The v2 fetches under way are finitely many; a caller that starts or ends one changes their
\* number by one.
LEMMA V2FetcherCount ==
  ASSUME NEW S, NEW c \in Callers, S \subseteq Callers
  PROVE  /\ Cardinality(S) \in Nat
         /\ c \notin S => Cardinality(S \cup {c}) = Cardinality(S) + 1
         /\ c \in S => Cardinality(S \ {c}) = Cardinality(S) - 1
  <1>1. IsFiniteSet(S)
    BY CacheAssumption, FS_Subset
  <1>2. QED
    BY <1>1, FS_CardinalityType, FS_AddElement, FS_RemoveElement

LEMMA CacheInitial == CacheInit => CacheInv
  <1> SUFFICES ASSUME CacheInit PROVE CacheInv
    OBVIOUS
  <1>1. CacheTypeOK
    BY DEF CacheInit, CacheTypeOK, Entries, Fetches, NoEntry, Idle, Looked, Kinds
  <1>2. /\ \A k \in Kinds : EntrySound(pools[k])
        /\ SeenOnChain
        /\ \A c \in Callers : FetchSound(fetch[c]) /\ UnracedNewer(fetch[c])
        /\ HitWithinSlack
    BY DEF CacheInit, EntrySound, SeenOnChain, FetchSound, UnracedNewer, HitWithinSlack,
           NoEntry, Idle, Looked, Kinds
  <1>3. CacheStatsBalance
    <2>1. Fetching("v2") = {} /\ Uncounted("v2") = {}
      BY DEF CacheInit, Idle, Looked, Fetching, Uncounted
    <2>2. \A x \in Counters : stats["v2"][x] = 0
      BY DEF CacheInit, Kinds
    <2>3. /\ stats["v2"]["misses"] = 0 /\ stats["v2"]["refreshed"] = 0
          /\ stats["v2"]["failed"] = 0 /\ stats["v2"]["stale"] = 0
      BY <2>2 DEF Counters
    <2>4. Cardinality({}) = 0
      BY FS_EmptySet
    <2>5. QED
      BY <2>1, <2>3, <2>4 DEF CacheStatsBalance
  <1>4. QED
    BY <1>1, <1>2, <1>3 DEF CacheInv

\* Counting one thing of one kind leaves the other counters alone.
LEMMA Counted ==
  ASSUME CacheTypeOK, NEW k \in Kinds, NEW x \in Counters
  PROVE  /\ Count(k, x) \in [Kinds -> [Counters -> Nat]]
         /\ Count(k, x)[k][x] = stats[k][x] + 1
         /\ \A l \in Kinds, y \in Counters : <<l, y>> # <<k, x>> => Count(k, x)[l][y] = stats[l][y]
  BY DEF CacheTypeOK, Count

\* An answer from the map: the block check is what bounds the age of its data.
LEMMA HitPreserves ==
  ASSUME CacheInv, NEW c \in Callers, NEW k \in Kinds, NEW b \in 0..head, Hit(c, k, b)
  PROVE  CacheInv'
  <1> USE CacheAssumption
  <1>1. CacheTypeOK'
    <2>1. stats' \in [Kinds -> [Counters -> Nat]]
      BY Counted DEF CacheInv, Hit, Counters
    <2>2. hit' \in Entries
      BY DEF CacheInv, CacheTypeOK, Hit, Entries
    <2>3. QED
      BY <2>1, <2>2 DEF CacheInv, CacheTypeOK, Hit
  <1>2. HitWithinSlack'
    <2>1. /\ pools[k] \in Entries /\ pools[k] # NoEntry /\ pools[k].seen >= pools[k].block - NodeLag
          /\ pools[k].block >= b - BlockSlack
      BY DEF CacheInv, CacheTypeOK, EntrySound, Hit, Fresh, CloseEnough
    <2>2. hit'.seen = pools[k].seen /\ hit'.block = b
      BY <2>1 DEF Hit, Entries
    <2>3. QED
      BY <2>1, <2>2 DEF HitWithinSlack, Entries, CacheInv, CacheTypeOK
  <1>3. CacheStatsBalance'
    <2>1. \A y \in Counters \ {"hits"} : stats'["v2"][y] = stats["v2"][y]
      BY Counted DEF CacheInv, Hit, Counters, Kinds
    <2>2. QED
      BY <2>1 DEF CacheInv, CacheStatsBalance, Hit, Counters, Fetching, Uncounted
  <1>4. QED
    BY <1>1, <1>2, <1>3 DEF CacheInv, SeenOnChain, UnracedNewer, FetchSound, Hit

\* The v2 counters after a step, from how far each of them and the two sets of callers moved.
LEMMA BalanceMoves ==
  ASSUME NEW m \in Nat, NEW r \in Nat, NEW f \in Nat, NEW s \in Nat, NEW n \in Nat, NEW u \in Nat,
         m = r + f + n, s <= m + u
  PROVE  /\ m = r + f + n /\ s <= m + (u + 1) /\ s + 1 <= m + (u + 1)
         /\ m + 1 = r + f + (n + 1) /\ s <= (m + 1) + (u - 1)
         /\ m = (r + 1) + f + (n - 1) /\ m = r + (f + 1) + (n - 1)
  OBVIOUS

\* What the balance says, in numbers.
LEMMA BalanceNumbers ==
  ASSUME CacheInv
  PROVE  /\ stats["v2"]["misses"] \in Nat /\ stats["v2"]["refreshed"] \in Nat
         /\ stats["v2"]["failed"] \in Nat /\ stats["v2"]["stale"] \in Nat
         /\ Cardinality(Fetching("v2")) \in Nat /\ Cardinality(Uncounted("v2")) \in Nat
         /\ stats["v2"]["misses"] = stats["v2"]["refreshed"] + stats["v2"]["failed"] + Cardinality(Fetching("v2"))
         /\ stats["v2"]["stale"] <= stats["v2"]["misses"] + Cardinality(Uncounted("v2"))
  <1>1. /\ stats["v2"]["misses"] \in Nat /\ stats["v2"]["refreshed"] \in Nat
        /\ stats["v2"]["failed"] \in Nat /\ stats["v2"]["stale"] \in Nat
    BY DEF CacheInv, CacheTypeOK, Kinds, Counters
  <1>2. Cardinality(Fetching("v2")) \in Nat /\ Cardinality(Uncounted("v2")) \in Nat
    <2>1. IsFiniteSet(Fetching("v2")) /\ IsFiniteSet(Uncounted("v2"))
      BY CacheAssumption, FS_Subset DEF Fetching, Uncounted
    <2>2. QED
      BY <2>1, FS_CardinalityType
  <1>3. QED
    BY <1>1, <1>2 DEF CacheInv, CacheStatsBalance

\* A lookup that cannot answer counts a stale read at most and leaves its caller uncounted.
LEMMA MissPreserves ==
  ASSUME CacheInv, NEW c \in Callers, NEW k \in Kinds, NEW b \in 0..head, Miss(c, k, b)
  PROVE  CacheInv'
  <1> DEFINE new  == Looked(k, b)
             late == k = "v2" /\ Stale(pools[k])
  <1>1. /\ fetch' = [fetch EXCEPT ![c] = new] /\ UNCHANGED <<head, pools, hit>> /\ fetch[c] = Idle
        /\ stats' = IF late THEN Count(k, "stale") ELSE stats
    BY DEF Miss
  <1>2. /\ new \in Fetches /\ new.kind = k /\ new.block = b /\ new.seen = -1 /\ ~new.counted
    BY DEF Looked, Fetches, CacheInv, CacheTypeOK
  <1> HIDE DEF new, late
  <1>3. /\ stats' \in [Kinds -> [Counters -> Nat]]
        /\ \A y \in Counters \ {"stale"} : stats'["v2"][y] = stats["v2"][y]
        /\ \/ stats'["v2"]["stale"] = stats["v2"]["stale"]
           \/ k = "v2" /\ stats'["v2"]["stale"] = stats["v2"]["stale"] + 1
    <2>1. CASE late
      <3>1. k = "v2" /\ stats' = Count("v2", "stale") /\ "v2" \in Kinds /\ "stale" \in Counters
        BY <1>1, <2>1 DEF late, Counters
      <3>2. CacheTypeOK
        BY DEF CacheInv
      <3>3. /\ Count("v2", "stale") \in [Kinds -> [Counters -> Nat]]
            /\ Count("v2", "stale")["v2"]["stale"] = stats["v2"]["stale"] + 1
            /\ \A y \in Counters : y # "stale" => Count("v2", "stale")["v2"][y] = stats["v2"][y]
        BY <3>1, <3>2, Counted
      <3>4. QED
        BY <3>1, <3>3
    <2>2. CASE ~late
      BY <1>1, <2>2 DEF CacheInv, CacheTypeOK
    <2>3. QED
      BY <2>1, <2>2
  <1>4. CacheTypeOK'
    BY <1>1, <1>2, <1>3 DEF CacheInv, CacheTypeOK
  <1>5. \A d \in Callers : FetchSound(fetch[d])' /\ UnracedNewer(fetch[d])'
    BY <1>1, <1>2 DEF CacheInv, CacheTypeOK, FetchSound, UnracedNewer
  <1>6. CacheStatsBalance'
    <2> DEFINE m == stats["v2"]["misses"]
               r == stats["v2"]["refreshed"]
               f == stats["v2"]["failed"]
               s == stats["v2"]["stale"]
               n == Cardinality(Fetching("v2"))
               u == Cardinality(Uncounted("v2"))
    <2>1. /\ m \in Nat /\ r \in Nat /\ f \in Nat /\ s \in Nat /\ n \in Nat /\ u \in Nat
          /\ m = r + f + n /\ s <= m + u
      BY BalanceNumbers
    <2>2. fetch[c].kind = "none"
      BY <1>1 DEF Idle, Looked
    <2>3. Fetching("v2")' = Fetching("v2")
      BY <1>1, <1>2, <2>2 DEF Fetching, CacheInv, CacheTypeOK
    <2>4. Uncounted("v2")' = IF k = "v2" THEN Uncounted("v2") \cup {c} ELSE Uncounted("v2")
      BY <1>1, <1>2, <2>2 DEF Uncounted, CacheInv, CacheTypeOK
    <2>5. c \notin Uncounted("v2") /\ Uncounted("v2") \subseteq Callers
      BY <2>2 DEF Uncounted
    <2>6. Cardinality(Uncounted("v2")') = IF k = "v2" THEN u + 1 ELSE u
      BY <2>4, <2>5, V2FetcherCount
    <2>7. stats'["v2"]["misses"] = m /\ stats'["v2"]["refreshed"] = r /\ stats'["v2"]["failed"] = f
      BY <1>3 DEF Counters
    <2>8. stats'["v2"]["stale"] = s \/ (k = "v2" /\ stats'["v2"]["stale"] = s + 1)
      BY <1>3
    <2>9. Cardinality(Fetching("v2")') = n
      BY <2>3
    <2> HIDE DEF m, r, f, s, n, u
    <2>10. m = r + f + n /\ s <= m + u /\ s <= m + (u + 1) /\ s + 1 <= m + (u + 1)
      BY <2>1, BalanceMoves
    <2>11. QED
      BY <2>6, <2>7, <2>8, <2>9, <2>10 DEF CacheStatsBalance
  <1>7. QED
    BY <1>1, <1>4, <1>5, <1>6 DEF CacheInv, SeenOnChain, EntrySound, HitWithinSlack

\* The count of the miss takes the caller from one set to the other.
LEMMA CountMissPreserves ==
  ASSUME CacheInv, NEW c \in Callers, CountMiss(c)
  PROVE  CacheInv'
  <1> DEFINE k == fetch[c].kind
             counted == [fetch[c] EXCEPT !.counted = TRUE]
  <1>1. /\ k \in Kinds /\ ~fetch[c].counted /\ fetch' = [fetch EXCEPT ![c] = counted]
        /\ UNCHANGED <<head, pools, hit>> /\ stats' = Count(k, "misses")
    BY DEF CountMiss
  <1>2. fetch[c] \in Fetches /\ CacheTypeOK /\ "misses" \in Counters
    BY DEF CacheInv, CacheTypeOK, Counters
  <1>3. /\ counted \in Fetches /\ counted.kind = k /\ counted.block = fetch[c].block /\ counted.seen = fetch[c].seen
        /\ counted.counted /\ counted.raced = fetch[c].raced /\ counted.lagged = fetch[c].lagged
    BY <1>2 DEF Fetches
  <1> HIDE DEF counted
  <1>4. /\ Count(k, "misses") \in [Kinds -> [Counters -> Nat]]
        /\ Count(k, "misses")[k]["misses"] = stats[k]["misses"] + 1
        /\ \A l \in Kinds, y \in Counters : <<l, y>> # <<k, "misses">> => Count(k, "misses")[l][y] = stats[l][y]
    BY <1>1, <1>2, Counted
  <1>5. CacheTypeOK'
    BY <1>1, <1>3, <1>4 DEF CacheInv, CacheTypeOK
  <1>6. \A d \in Callers : FetchSound(fetch[d])' /\ UnracedNewer(fetch[d])'
    <2>1. FetchSound(fetch[c])' /\ UnracedNewer(fetch[c])'
      BY <1>1, <1>3 DEF CacheInv, CacheTypeOK, FetchSound, UnracedNewer
    <2>2. \A d \in Callers \ {c} : FetchSound(fetch[d])' /\ UnracedNewer(fetch[d])'
      BY <1>1 DEF CacheInv, CacheTypeOK, FetchSound, UnracedNewer
    <2>3. QED
      BY <2>1, <2>2
  <1>7. CacheStatsBalance'
    <2> DEFINE m == stats["v2"]["misses"]
               r == stats["v2"]["refreshed"]
               f == stats["v2"]["failed"]
               s == stats["v2"]["stale"]
               n == Cardinality(Fetching("v2"))
               u == Cardinality(Uncounted("v2"))
    <2>1. /\ m \in Nat /\ r \in Nat /\ f \in Nat /\ s \in Nat /\ n \in Nat /\ u \in Nat
          /\ m = r + f + n /\ s <= m + u
      BY BalanceNumbers
    <2>2. stats'["v2"]["refreshed"] = r /\ stats'["v2"]["failed"] = f /\ stats'["v2"]["stale"] = s
      BY <1>1, <1>4 DEF Counters, Kinds
    <2>3. CASE k = "v2"
      <3>1. c \in Uncounted("v2") /\ c \notin Fetching("v2")
            /\ Uncounted("v2") \subseteq Callers /\ Fetching("v2") \subseteq Callers
        BY <1>1, <2>3 DEF Uncounted, Fetching
      <3>2. Uncounted("v2")' = Uncounted("v2") \ {c}
        BY <1>1, <1>3, <2>3 DEF Uncounted, CacheInv, CacheTypeOK
      <3>3. Fetching("v2")' = Fetching("v2") \cup {c}
        BY <1>1, <1>3, <2>3 DEF Fetching, CacheInv, CacheTypeOK
      <3>4. Cardinality(Uncounted("v2")') = u - 1 /\ Cardinality(Fetching("v2")') = n + 1
        BY <3>1, <3>2, <3>3, V2FetcherCount
      <3>5. stats'["v2"]["misses"] = m + 1
        BY <1>1, <1>4, <2>3
      <3> HIDE DEF m, r, f, s, n, u
      <3>6. m + 1 = r + f + (n + 1) /\ s <= (m + 1) + (u - 1)
        BY <2>1, BalanceMoves
      <3>7. QED
        BY <2>2, <3>4, <3>5, <3>6 DEF CacheStatsBalance
    <2>4. CASE k # "v2"
      <3>1. Uncounted("v2")' = Uncounted("v2") /\ Fetching("v2")' = Fetching("v2")
        BY <1>1, <1>3, <2>4 DEF Uncounted, Fetching, CacheInv, CacheTypeOK
      <3>2. stats'["v2"]["misses"] = m
        BY <1>1, <1>4, <2>4 DEF Kinds, Counters
      <3>3. QED
        BY <2>1, <2>2, <3>1, <3>2 DEF CacheStatsBalance
    <2>5. QED
      BY <2>3, <2>4
  <1>8. QED
    BY <1>1, <1>5, <1>6, <1>7 DEF CacheInv, SeenOnChain, EntrySound, HitWithinSlack

\* The node answers with a state at most NodeLag blocks old, hence for a block that is not far
\* behind the caller's, and with the newest when it does not lag.
LEMMA NodeAnswersPreserves ==
  ASSUME CacheInv, NEW c \in Callers, NodeAnswers(c)
  PROVE  CacheInv'
  <1>0. PICK lag \in 0..NodeLag :
          /\ lag <= head
          /\ fetch' = [fetch EXCEPT ![c].seen = head - lag, ![c].lagged = (lag > 0)]
    BY DEF NodeAnswers
  <1> DEFINE behind == lag > 0
  <1>a. behind \in BOOLEAN /\ (~behind => lag = 0)
    BY CacheAssumption
  <1>1. lag <= head /\ fetch' = [fetch EXCEPT ![c].seen = head - lag, ![c].lagged = behind]
    BY <1>0
  <1> HIDE DEF behind
  <1>2. fetch[c].kind \in Kinds /\ fetch[c].counted /\ fetch[c].seen = -1 /\ UNCHANGED <<head, pools, stats, hit>>
    BY DEF NodeAnswers
  <1>3. CacheTypeOK'
    <2> DEFINE F == Fetches
               answered == [fetch[c] EXCEPT !.seen = head - lag, !.lagged = behind]
    <2>1. fetch \in [Callers -> F] /\ fetch[c] \in F /\ head - lag \in Int
      BY CacheAssumption DEF CacheInv, CacheTypeOK
    <2>2. answered \in F
      BY <2>1, <1>a DEF Fetches
    <2>3. fetch' = [fetch EXCEPT ![c] = answered]
      BY <1>1
    <2> HIDE DEF F, answered
    <2>4. fetch' \in [Callers -> F]
      BY <2>1, <2>2, <2>3
    <2>5. QED
      BY <1>2, <2>4 DEF CacheInv, CacheTypeOK, F
  <1>4. /\ fetch'[c].kind = fetch[c].kind /\ fetch'[c].counted = fetch[c].counted /\ fetch'[c].block = fetch[c].block
        /\ fetch'[c].seen = head - lag /\ fetch'[c].lagged = behind
        /\ \A d \in Callers \ {c} : fetch'[d] = fetch[d]
    BY <1>1 DEF CacheInv, CacheTypeOK, Fetches
  <1>5. FetchSound(fetch[c])' /\ UnracedNewer(fetch[c])'
    <2>1. fetch[c].block <= head /\ fetch[c].block \in Int /\ head \in Nat /\ lag \in Nat /\ lag <= NodeLag
      BY <1>1, <1>2, CacheAssumption DEF CacheInv, CacheTypeOK, Fetches, FetchSound
    <2>2. FetchSound(fetch[c])'
      BY <1>1, <1>2, <1>4, <2>1, CacheAssumption DEF FetchSound, Fetches, CacheInv, CacheTypeOK
    <2>3. ~fetch'[c].lagged => lag = 0
      BY <1>4, <1>a
    <2>4. \A l \in Kinds : pools'[l].seen <= head
      BY <1>2 DEF CacheInv, SeenOnChain
    <2>5. UnracedNewer(fetch[c])'
      BY <1>4, <2>1, <2>3, <2>4 DEF UnracedNewer
    <2>6. QED
      BY <2>2, <2>5
  <1>6. \A d \in Callers \ {c} : FetchSound(fetch[d])' /\ UnracedNewer(fetch[d])'
    BY <1>2, <1>4 DEF CacheInv, FetchSound, UnracedNewer
  <1>7. CacheStatsBalance'
    <2>1. Fetching("v2")' = Fetching("v2") /\ Uncounted("v2")' = Uncounted("v2")
      BY <1>4 DEF Fetching, Uncounted
    <2>2. QED
      BY <1>2, <2>1 DEF CacheInv, CacheStatsBalance
  <1>8. QED
    BY <1>2, <1>3, <1>5, <1>6, <1>7 DEF CacheInv, SeenOnChain, EntrySound, HitWithinSlack
\* A fetch that ends is counted once, as a refresh or as a failure, when it was one for v2.
LEMMA FetchEnds ==
  ASSUME CacheInv, NEW c \in Callers, fetch[c].kind \in Kinds, fetch[c].counted, fetch'[c].kind = "none",
         \A d \in Callers \ {c} : fetch'[d].kind = fetch[d].kind /\ fetch'[d].counted = fetch[d].counted,
         NEW x \in {"refreshed", "failed"},
         stats' = IF fetch[c].kind = "v2" THEN Count("v2", x) ELSE stats
  PROVE  CacheStatsBalance' /\ stats' \in [Kinds -> [Counters -> Nat]]
  <1> DEFINE S == Fetching("v2")
             n == Cardinality(S)
             u == Cardinality(Uncounted("v2"))
             m == stats["v2"]["misses"]
             r == stats["v2"]["refreshed"]
             f == stats["v2"]["failed"]
             s == stats["v2"]["stale"]
  <1>1. /\ n \in Nat
        /\ c \in S => Cardinality(S \ {c}) = n - 1
    BY V2FetcherCount DEF Fetching
  <1>2. m = r + f + n /\ s <= m + u
    BY BalanceNumbers
  <1>3. m \in Nat /\ r \in Nat /\ f \in Nat /\ s \in Nat /\ u \in Nat /\ Uncounted("v2")' = Uncounted("v2")
    BY BalanceNumbers DEF Uncounted, Kinds
  <1>4. CASE fetch[c].kind = "v2"
    <2>1. Fetching("v2")' = S \ {c} /\ c \in S
      BY <1>4 DEF Fetching
    <2>2. /\ Count("v2", x) \in [Kinds -> [Counters -> Nat]]
          /\ Count("v2", x)["v2"][x] = stats["v2"][x] + 1
          /\ \A y \in Counters : y # x => Count("v2", x)["v2"][y] = stats["v2"][y]
      BY Counted DEF CacheInv, Counters, Kinds
    <2>3. /\ stats'["v2"]["misses"] = m /\ stats'["v2"]["stale"] = s
          /\ \/ x = "refreshed" /\ stats'["v2"]["refreshed"] = r + 1 /\ stats'["v2"]["failed"] = f
             \/ x = "failed" /\ stats'["v2"]["refreshed"] = r /\ stats'["v2"]["failed"] = f + 1
      BY <1>4, <2>2 DEF Counters
    <2>4. Cardinality(Fetching("v2")') = n - 1
      BY <1>1, <2>1
    <2>8. Cardinality(Uncounted("v2")') = u
      BY <1>3
    <2> HIDE DEF S, n, m, r, f, s, u
    <2>5. m = r + 1 + f + (n - 1) /\ m = r + (f + 1) + (n - 1)
      BY <1>1, <1>2, <1>3, BalanceMoves
    <2>6. CacheStatsBalance'
      BY <1>2, <2>3, <2>4, <2>5, <2>8 DEF CacheStatsBalance
    <2>7. QED
      BY <1>4, <2>2, <2>6
  <1>5. CASE fetch[c].kind # "v2"
    <2>1. Fetching("v2")' = S
      BY <1>5 DEF Fetching, Kinds
    <2>2. QED
      BY <1>2, <1>3, <1>5, <2>1 DEF CacheStatsBalance, CacheInv, CacheTypeOK
  <1>6. QED
    BY <1>4, <1>5

\* The entry a fetch puts in the map, and those it marks as raced.
LEMMA FetchedPreserves ==
  ASSUME CacheInv, NEW c \in Callers, Fetched(c)
  PROVE  CacheInv'
  <1> DEFINE f == fetch[c]
             F == Fetches
             new == [seen |-> f.seen, block |-> f.block, age |-> 0]
  <1>1. /\ fetch \in [Callers -> F] /\ f \in F /\ f.seen # -1
        /\ f.kind \in Kinds /\ f.counted /\ f.seen >= f.block - NodeLag /\ f.seen <= head
    BY DEF Fetched, CacheInv, CacheTypeOK, FetchSound
  <1>2. /\ pools' = [pools EXCEPT ![f.kind] = new] /\ UNCHANGED <<head, hit>>
        /\ stats' = IF f.kind = "v2" THEN Count("v2", "refreshed") ELSE stats
    BY DEF Fetched
  <1>3. /\ DOMAIN fetch' = Callers /\ fetch' = [d \in Callers |-> fetch'[d]]
        /\ fetch'[c] = Idle
        /\ \A d \in Callers \ {c} :
             fetch'[d] = IF fetch[d].kind = f.kind THEN [fetch[d] EXCEPT !.raced = TRUE] ELSE fetch[d]
    BY DEF Fetched
  <1>4. \A d \in Callers \ {c} :
          /\ fetch'[d] \in F /\ fetch'[d].kind = fetch[d].kind /\ fetch'[d].block = fetch[d].block
          /\ fetch'[d].counted = fetch[d].counted
          /\ fetch'[d].seen = fetch[d].seen /\ fetch'[d].lagged = fetch[d].lagged
          /\ fetch[d].kind = f.kind => fetch'[d].raced
          /\ fetch[d].kind # f.kind => fetch'[d].raced = fetch[d].raced
    <2>1. \A g \in F : LET u == [g EXCEPT !.raced = TRUE]
                       IN  /\ u \in F /\ u.kind = g.kind /\ u.block = g.block /\ u.counted = g.counted
                           /\ u.seen = g.seen /\ u.lagged = g.lagged /\ u.raced
      BY DEF Fetches
    <2> SUFFICES ASSUME NEW d \in Callers \ {c}
                 PROVE  /\ fetch'[d] \in F /\ fetch'[d].kind = fetch[d].kind
                        /\ fetch'[d].block = fetch[d].block /\ fetch'[d].counted = fetch[d].counted
                        /\ fetch'[d].seen = fetch[d].seen /\ fetch'[d].lagged = fetch[d].lagged
                        /\ fetch[d].kind = f.kind => fetch'[d].raced
                        /\ fetch[d].kind # f.kind => fetch'[d].raced = fetch[d].raced
      BY Zenon
    <2>2. fetch[d] \in F
      BY <1>1
    <2> HIDE DEF F
    <2>3. CASE fetch[d].kind = f.kind
      <3>1. fetch'[d] = [fetch[d] EXCEPT !.raced = TRUE]
        BY <1>3, <2>3
      <3>2. QED
        BY <2>1, <2>2, <2>3, <3>1
    <2>4. CASE fetch[d].kind # f.kind
      <3>1. fetch'[d] = fetch[d]
        BY <1>3, <2>4
      <3>2. QED
        BY <2>2, <2>4, <3>1
    <2>5. QED
      BY <2>3, <2>4
  <1>5. fetch' \in [Callers -> F]
    <2>1. Idle \in F
      BY DEF Idle, Looked, Fetches
    <2> HIDE DEF F
    <2>2. QED
      BY <1>3, <1>4, <2>1
  <1>6. CacheStatsBalance' /\ stats' \in [Kinds -> [Counters -> Nat]]
    <2>1. fetch'[c].kind = "none"
      BY <1>3 DEF Idle, Looked
    <2>2. QED
      BY <1>1, <1>2, <1>4, <2>1, FetchEnds
  <1>7. pools' \in [Kinds -> Entries] /\ pools'[f.kind] = new
        /\ \A k \in Kinds : k # f.kind => pools'[k] = pools[k]
    BY <1>1, <1>2 DEF CacheInv, CacheTypeOK, Entries, Fetches
  <1>8. CacheTypeOK'
    BY <1>2, <1>5, <1>6, <1>7 DEF CacheInv, CacheTypeOK
  <1>9. \A k \in Kinds : EntrySound(pools[k])' /\ pools'[k].seen <= head'
    BY <1>1, <1>2, <1>7 DEF CacheInv, EntrySound, SeenOnChain
  <1>10. \A d \in Callers : FetchSound(fetch[d])' /\ UnracedNewer(fetch[d])'
    <2>1. FetchSound(fetch[c])' /\ UnracedNewer(fetch[c])'
      BY <1>3 DEF FetchSound, UnracedNewer, Idle, Looked, Kinds
    <2>2. ASSUME NEW d \in Callers \ {c} PROVE FetchSound(fetch[d])' /\ UnracedNewer(fetch[d])'
      <3>1. FetchSound(fetch[d])'
        BY <1>2, <1>4 DEF FetchSound, CacheInv
      <3>2. UnracedNewer(fetch[d])'
        BY <1>4, <1>7 DEF UnracedNewer, CacheInv
      <3>3. QED
        BY <3>1, <3>2
    <2>3. QED
      BY <2>1, <2>2
  <1>11. QED
    BY <1>2, <1>6, <1>8, <1>9, <1>10 DEF CacheInv, SeenOnChain, HitWithinSlack

\* A fetch that fails leaves the map as it was.
LEMMA FetchFailsPreserves ==
  ASSUME CacheInv, NEW c \in Callers, FetchFails(c)
  PROVE  CacheInv'
  <1>1. /\ fetch[c].kind \in Kinds /\ fetch[c].counted /\ fetch' = [fetch EXCEPT ![c] = Idle]
        /\ stats' = IF fetch[c].kind = "v2" THEN Count("v2", "failed") ELSE stats
        /\ UNCHANGED <<head, pools, hit>>
    BY DEF FetchFails
  <1>2. /\ fetch'[c] = Idle /\ fetch'[c].kind = "none"
        /\ \A d \in Callers \ {c} : fetch'[d] = fetch[d]
    BY <1>1 DEF CacheInv, CacheTypeOK, Idle, Looked
  <1>3. CacheStatsBalance' /\ stats' \in [Kinds -> [Counters -> Nat]]
    BY <1>1, <1>2, FetchEnds
  <1>4. CacheTypeOK'
    BY <1>1, <1>3 DEF CacheInv, CacheTypeOK, Fetches, Idle, Looked
  <1>5. FetchSound(fetch[c])' /\ UnracedNewer(fetch[c])'
    BY <1>2 DEF FetchSound, UnracedNewer, Idle, Looked, Kinds
  <1>6. \A d \in Callers \ {c} : FetchSound(fetch[d])' /\ UnracedNewer(fetch[d])'
    BY <1>1, <1>2 DEF CacheInv, FetchSound, UnracedNewer
  <1>7. QED
    BY <1>1, <1>3, <1>4, <1>5, <1>6 DEF CacheInv, SeenOnChain, EntrySound, HitWithinSlack

\* Init and every step of get_or_fetch, the nodes and the clock keep the invariant.
LEMMA CacheStep == CacheInv /\ [CacheNext]_cacheVars => CacheInv'
  <1> SUFFICES ASSUME CacheInv, [CacheNext]_cacheVars PROVE CacheInv'
    OBVIOUS
  <1>1. CASE \E c \in Callers, k \in Kinds, b \in 0..head : Get(c, k, b)
    BY <1>1, HitPreserves, MissPreserves DEF Get
  <1>2. CASE \E c \in Callers : CountMiss(c) \/ NodeAnswers(c) \/ Fetched(c) \/ FetchFails(c)
    BY <1>2, CountMissPreserves, NodeAnswersPreserves, FetchedPreserves, FetchFailsPreserves
  <1>3. CASE Mine
    <2>1. head' = head + 1 /\ head \in Nat /\ UNCHANGED <<pools, fetch, stats, hit>>
      BY <1>3 DEF Mine, CacheInv, CacheTypeOK
    <2>2. CacheTypeOK'
      BY <2>1 DEF CacheInv, CacheTypeOK
    <2>3. SeenOnChain'
      BY <2>1 DEF CacheInv, CacheTypeOK, SeenOnChain, Entries
    <2>4. \A c \in Callers : FetchSound(fetch[c])' /\ UnracedNewer(fetch[c])'
      BY <2>1 DEF CacheInv, CacheTypeOK, Fetches, FetchSound, UnracedNewer
    <2>5. QED
      BY <2>1, <2>2, <2>3, <2>4 DEF CacheInv, EntrySound, HitWithinSlack, CacheStatsBalance, Fetching, Uncounted
  <1>4. CASE CacheTick
    <2>1. /\ pools' = [k \in Kinds |-> IF Fresh(pools[k]) THEN [pools[k] EXCEPT !.age = @ + 1] ELSE pools[k]]
          /\ UNCHANGED <<head, fetch, stats, hit>>
      BY <1>4 DEF CacheTick
    <2>2. \A k \in Kinds : /\ pools'[k] \in Entries /\ pools'[k].seen = pools[k].seen
                           /\ pools'[k].block = pools[k].block
                           /\ pools[k] = NoEntry => pools'[k] = NoEntry
      BY <2>1 DEF CacheInv, CacheTypeOK, Entries, Fresh
    <2>3. CacheTypeOK'
      BY <2>1, <2>2 DEF CacheInv, CacheTypeOK
    <2>4. \A k \in Kinds : EntrySound(pools[k])'
      BY <2>1, <2>2 DEF CacheInv, EntrySound
    <2>5. SeenOnChain' /\ \A c \in Callers : FetchSound(fetch[c])' /\ UnracedNewer(fetch[c])'
      BY <2>1, <2>2 DEF CacheInv, SeenOnChain, FetchSound, UnracedNewer
    <2>6. QED
      BY <2>1, <2>3, <2>4, <2>5 DEF CacheInv, HitWithinSlack, CacheStatsBalance, Fetching, Uncounted
  <1>5. CASE UNCHANGED cacheVars
    BY <1>5 DEF cacheVars, CacheInv, CacheTypeOK, EntrySound, SeenOnChain, FetchSound, UnracedNewer,
                HitWithinSlack, CacheStatsBalance, Fetching, Uncounted
  <1>6. QED
    BY <1>1, <1>2, <1>3, <1>4, <1>5 DEF CacheNext

LEMMA CacheInductive == CacheSpec => []CacheInv
  BY CacheInitial, CacheStep, PTL DEF CacheSpec

\* get_or_fetch_v2 and get_or_fetch_v3 answer from the map only with data close to the caller's
\* block, and count every call, for any number of callers, slack, lag and ttl.
THEOREM CacheSound == CacheSpec => []CacheIsSound
  <1>1. CacheInv => CacheIsSound
    BY DEF CacheInv, CacheIsSound
  <1>2. QED
    BY <1>1, CacheInductive, PTL

\* An entry of the map goes back to older data only when its writer was raced or its node lagged.
THEOREM RegressionIsRace == CacheSpec => RegressionOnlyByRace
  <1> DEFINE Kept == \A k \in Kinds : pools'[k].seen < pools[k].seen =>
                       \E c \in Callers : fetch[c].kind = k /\ fetch'[c] = Idle /\ (fetch[c].raced \/ fetch[c].lagged)
  <1>1. CacheInv /\ [CacheNext]_cacheVars => [Kept]_pools
    <2> SUFFICES ASSUME CacheInv, CacheNext, pools' # pools, NEW k \in Kinds, pools'[k].seen < pools[k].seen
                 PROVE  \E c \in Callers : fetch[c].kind = k /\ fetch'[c] = Idle
                                             /\ (fetch[c].raced \/ fetch[c].lagged)
      BY DEF cacheVars
    <2>0. \A l \in Kinds : pools[l].seen \in Int
      BY DEF CacheInv, CacheTypeOK, Entries
    <2>1. CASE \E c \in Callers : Fetched(c)
      <3>1. PICK c \in Callers : Fetched(c)
        BY <2>1
      <3>2. /\ pools' = [pools EXCEPT ![fetch[c].kind] = [seen |-> fetch[c].seen, block |-> fetch[c].block, age |-> 0]]
            /\ fetch'[c] = Idle /\ fetch[c].seen # -1
        BY <3>1 DEF Fetched
      <3>3. fetch[c].kind \in Kinds /\ UnracedNewer(fetch[c]) /\ fetch[c].seen \in Int
        BY <3>2 DEF CacheInv, CacheTypeOK, Fetches, FetchSound
      <3>4. \A l \in Kinds : l # fetch[c].kind => pools'[l] = pools[l]
        BY <3>2 DEF CacheInv, CacheTypeOK
      <3>5. k = fetch[c].kind
        BY <3>4, <2>0
      <3>6. pools'[k].seen = fetch[c].seen
        BY <3>2, <3>5 DEF CacheInv, CacheTypeOK
      <3>7. fetch[c].raced \/ fetch[c].lagged
        BY <2>0, <3>2, <3>3, <3>5, <3>6 DEF UnracedNewer
      <3>8. QED
        BY <3>2, <3>5, <3>7
    <2>2. CASE CacheTick
      BY <2>0, <2>2 DEF CacheTick, Fresh, CacheInv, CacheTypeOK, Entries
    <2>3. QED
      BY <2>1, <2>2 DEF CacheNext, Get, Hit, Miss, CountMiss, NodeAnswers, FetchFails, Mine
  <1>2. QED
    BY <1>1, CacheInductive, PTL DEF CacheSpec, RegressionOnlyByRace
-----------------------------------------------------------------------------
(* The dashboard's controls.  Of the handlers between writing a setting    *)
(* and its event, one that nobody overlapped is the only one, and what it  *)
(* wrote is still in force; a thresholds request that nobody outdated      *)
(* carries the thresholds in force for every field it need not change.     *)

\* The values of the three settings are of three kinds, and nothing here depends on them.
ControlsTypeOK ==
  /\ effective = [s \in Settings |-> effective[s]]
  /\ logged = [s \in Settings |-> logged[s]]
  /\ request = [h \in Handlers |-> request[h]]
  /\ \A h \in Handlers :
       /\ request[h].phase \in {"idle", "apply", "log"}
       /\ request[h].phase # "idle" => request[h].setting \in Settings
       /\ request[h].phase = "idle" => request[h].setting = "none"
       /\ request[h] = [setting |-> request[h].setting, value |-> request[h].value,
                        fields |-> request[h].fields, phase |-> request[h].phase,
                        outdated |-> request[h].outdated, overlapped |-> request[h].overlapped]

LastWriterKnown ==
  \A s \in Settings, h \in Handlers :
    InPhase(h, s, "log") /\ ~request[h].overlapped =>
      /\ effective[s] = request[h].value
      /\ \A g \in Handlers \ {h} : ~InPhase(g, s, "log")

MergeCurrent ==
  \A h \in Handlers :
    InPhase(h, "thresholds", "apply") /\ ~request[h].outdated =>
      \A f \in Fields \ request[h].fields : request[h].value[f] = effective["thresholds"][f]

ControlsInv == ControlsTypeOK /\ LastWriterKnown /\ MergeCurrent /\ LogNamesEffective

LEMMA ControlsInitial == ControlsInit => ControlsInv
  <1> SUFFICES ASSUME ControlsInit PROVE ControlsInv
    OBVIOUS
  <1>1. \A h \in Handlers : request[h] = Quiet
    BY DEF ControlsInit
  <1>2. ControlsTypeOK
    BY DEF ControlsInit, ControlsTypeOK, Settings, Quiet
  <1>3. LastWriterKnown /\ MergeCurrent
    BY <1>1 DEF LastWriterKnown, MergeCurrent, InPhase, Quiet
  <1>4. LogNamesEffective
    BY DEF ControlsInit, LogNamesEffective
  <1>5. QED
    BY <1>2, <1>3, <1>4 DEF ControlsInv

\* A request that is accepted starts in the first phase; one that is refused changes nothing.
LEMMA ArrivalPreserves ==
  ASSUME ControlsInv, NEW h \in Handlers, Arrives(h), UNCHANGED <<effective, logged, unordered>>,
         NEW setting \in Settings, NEW value, NEW fields,
         \/ UNCHANGED request
         \/ /\ Accept(h, setting, value, fields)
            /\ setting = "thresholds" =>
                 \A f \in Fields \ fields : value[f] = effective["thresholds"][f]
  PROVE  ControlsInv'
  <1>1. CASE UNCHANGED request
    <2>1. ControlsTypeOK'
      BY <1>1 DEF ControlsInv, ControlsTypeOK
    <2>2. LastWriterKnown'
      BY <1>1 DEF ControlsInv, LastWriterKnown, InPhase
    <2>3. MergeCurrent'
      BY <1>1 DEF ControlsInv, MergeCurrent, InPhase
    <2>4. LogNamesEffective'
      BY <1>1 DEF ControlsInv, LogNamesEffective, InPhase
    <2>5. QED
      BY <2>1, <2>2, <2>3, <2>4 DEF ControlsInv
  <1>2. CASE Accept(h, setting, value, fields) /\ request' # request
    <2> DEFINE new == [setting |-> setting, value |-> value, fields |-> fields, phase |-> "apply",
                       outdated |-> FALSE, overlapped |-> FALSE]
    <2>1. request' = [request EXCEPT ![h] = new]
      BY <1>2 DEF Accept
    <2>2. request'[h] = new /\ \A g \in Handlers \ {h} : request'[g] = request[g]
      BY <2>1 DEF ControlsInv, ControlsTypeOK
    <2>3. ControlsTypeOK'
      <3>1. request' = [g \in Handlers |-> request'[g]]
        BY <2>1 DEF ControlsInv, ControlsTypeOK
      <3>2. QED
        BY <2>2, <3>1 DEF ControlsInv, ControlsTypeOK
    <2>4. request[h].phase = "idle" /\ \A s \in Settings : ~InPhase(h, s, "log")
      BY DEF Arrives, InPhase
    <2>5. \A g \in Handlers, s \in Settings : InPhase(g, s, "log")' <=> InPhase(g, s, "log")
      BY <2>2, <2>4 DEF InPhase
    <2>6. LastWriterKnown'
      BY <2>2, <2>4, <2>5 DEF ControlsInv, LastWriterKnown, InPhase
    <2>7. LogNamesEffective'
      BY <2>5 DEF ControlsInv, LogNamesEffective
    <2>8. MergeCurrent'
      BY <1>2, <2>2 DEF ControlsInv, MergeCurrent, InPhase
    <2>9. QED
      BY <2>3, <2>6, <2>7, <2>8 DEF ControlsInv
  <1>3. QED
    BY <1>1, <1>2

\* What a handler's first write does to the requests.
LEMMA Applied ==
  ASSUME ControlsInv, NEW h \in Handlers, Apply(h)
  PROVE  LET s == request[h].setting
         IN  /\ s \in Settings /\ request[h].phase = "apply"
             /\ effective' = [effective EXCEPT ![s] = request[h].value]
             /\ UNCHANGED <<logged, received, unordered>>
             /\ request' = [g \in Handlers |-> request'[g]]
             /\ request'[h] = [request[h] EXCEPT !.phase = "log", !.overlapped = 
                    (\E g \in Handlers \ {h} : InPhase(g, s, "log"))]
             /\ \A g \in Handlers \ {h} :
                  /\ request[g].setting # s => request'[g] = request[g]
                  /\ request[g].setting = s => request'[g] =
                       [request[g] EXCEPT !.outdated = (request[g].phase = "apply"),
                                          !.overlapped = @ \/ request[g].phase = "log"]
  <1> DEFINE s == request[h].setting
             others == {g \in Handlers \ {h} : request[g].setting = s}
             raced == {g \in others : request[g].phase = "log"}
  <1>1. /\ request[h].phase = "apply" /\ effective' = [effective EXCEPT ![s] = request[h].value]
        /\ UNCHANGED <<logged, received, unordered>>
    BY DEF Apply
  <1>2. s \in Settings
    BY <1>1 DEF ControlsInv, ControlsTypeOK
  <1>3. request' = [g \in Handlers |->
           CASE g = h -> [request[g] EXCEPT !.phase = "log", !.overlapped = (raced # {})]
             [] g \in others -> [request[g] EXCEPT !.outdated = (request[g].phase = "apply"),
                                                   !.overlapped = @ \/ g \in raced]
             [] OTHER -> request[g]]
    BY DEF Apply
  <1>4. request' = [g \in Handlers |-> request'[g]]
    BY <1>3
  <1>5. request'[h] = [request[h] EXCEPT !.phase = "log", !.overlapped = (raced # {})]
    BY <1>3
  <1>6. (raced # {}) = (\E g \in Handlers \ {h} : InPhase(g, s, "log"))
    BY DEF InPhase
  <1>7. ASSUME NEW g \in Handlers \ {h}, request[g].setting # s PROVE request'[g] = request[g]
    BY <1>3, <1>7
  <1>8. ASSUME NEW g \in Handlers \ {h}, request[g].setting = s
        PROVE  request'[g] = [request[g] EXCEPT !.outdated = (request[g].phase = "apply"),
                                                !.overlapped = @ \/ request[g].phase = "log"]
    <2>1. g \in others /\ (g \in raced) = (request[g].phase = "log")
      BY <1>8
    <2>2. request'[g] = [request[g] EXCEPT !.outdated = (request[g].phase = "apply"),
                                           !.overlapped = @ \/ g \in raced]
      BY <1>3, <2>1
    <2> HIDE DEF raced
    <2>3. QED
      BY <2>1, <2>2
  <1>9. QED
    BY <1>1, <1>2, <1>4, <1>5, <1>6, <1>7, <1>8
\* The fields of the requests after a handler's first write.
LEMMA AppliedFields ==
  ASSUME ControlsInv, NEW h \in Handlers, Apply(h)
  PROVE  LET s == request[h].setting
         IN  /\ \A g \in Handlers :
                  /\ request'[g].setting = request[g].setting /\ request'[g].value = request[g].value
                  /\ request'[g].fields = request[g].fields
                  /\ request'[g].phase = IF g = h THEN "log" ELSE request[g].phase
             /\ ControlsTypeOK'
             /\ request'[h].overlapped = (\E g \in Handlers \ {h} : InPhase(g, s, "log"))
             /\ \A g \in Handlers \ {h} : InPhase(g, s, "log") => request'[g].overlapped
             /\ \A g \in Handlers \ {h} : InPhase(g, s, "apply") => request'[g].outdated
             /\ \A g \in Handlers \ {h} : request[g].setting # s => request'[g] = request[g]
  <1> DEFINE s == request[h].setting
             met == \E g \in Handlers \ {h} : InPhase(g, s, "log")
             Full(r) == r = [setting |-> r.setting, value |-> r.value, fields |-> r.fields,
                             phase |-> r.phase, outdated |-> r.outdated, overlapped |-> r.overlapped]
  <1>0. \A g \in Handlers : Full(request[g])
    BY DEF ControlsInv, ControlsTypeOK
  <1>1. /\ s \in Settings /\ request[h].phase = "apply"
        /\ effective' = [effective EXCEPT ![s] = request[h].value]
        /\ UNCHANGED <<logged, received, unordered>>
        /\ request' = [g \in Handlers |-> request'[g]]
        /\ request'[h] = [request[h] EXCEPT !.phase = "log", !.overlapped = met]
        /\ \A g \in Handlers \ {h} : request[g].setting # s => request'[g] = request[g]
    BY Applied
  <1>2. /\ request'[h].setting = request[h].setting /\ request'[h].value = request[h].value
        /\ request'[h].fields = request[h].fields /\ request'[h].phase = "log"
        /\ request'[h].overlapped = met /\ Full(request'[h])
    <2> HIDE DEF met
    <2>1. QED
      BY <1>0, <1>1
  <1>3. ASSUME NEW g \in Handlers \ {h}, request[g].setting = s
        PROVE  /\ request'[g].setting = request[g].setting /\ request'[g].value = request[g].value
               /\ request'[g].fields = request[g].fields /\ request'[g].phase = request[g].phase
               /\ request[g].phase = "log" => request'[g].overlapped
               /\ request[g].phase = "apply" => request'[g].outdated
               /\ Full(request'[g])
    <2> DEFINE late == request[g].phase = "apply"
               over == request[g].overlapped \/ request[g].phase = "log"
    <2>1. request'[g] = [request[g] EXCEPT !.outdated = late, !.overlapped = over]
      BY <1>3, Applied
    <2>2. /\ request[g].phase = "apply" => late
          /\ request[g].phase = "log" => over
      OBVIOUS
    <2> HIDE DEF late, over
    <2>3. /\ request'[g].setting = request[g].setting /\ request'[g].value = request[g].value
          /\ request'[g].fields = request[g].fields /\ request'[g].phase = request[g].phase
          /\ request'[g].outdated = late /\ request'[g].overlapped = over
          /\ Full(request'[g])
      BY <1>0, <2>1
    <2>4. QED
      BY <2>2, <2>3
  <1>4. \A g \in Handlers :
          /\ request'[g].setting = request[g].setting /\ request'[g].value = request[g].value
          /\ request'[g].fields = request[g].fields
          /\ request'[g].phase = IF g = h THEN "log" ELSE request[g].phase
          /\ Full(request'[g])
    <2> SUFFICES ASSUME NEW g \in Handlers
                 PROVE  /\ request'[g].setting = request[g].setting /\ request'[g].value = request[g].value
                        /\ request'[g].fields = request[g].fields
                        /\ request'[g].phase = IF g = h THEN "log" ELSE request[g].phase
                        /\ Full(request'[g])
      BY Zenon
    <2>1. CASE g = h
      BY <1>2, <2>1
    <2>2. CASE g # h /\ request[g].setting = s
      BY <1>3, <2>2
    <2>3. CASE g # h /\ request[g].setting # s
      BY <1>0, <1>1, <2>3
    <2>4. QED
      BY <2>1, <2>2, <2>3
  <1>5. ControlsTypeOK'
    <2>1. effective' = [t \in Settings |-> effective'[t]]
      BY <1>1 DEF ControlsInv, ControlsTypeOK
    <2>2. logged' = [t \in Settings |-> logged'[t]] /\ request' = [g \in Handlers |-> request'[g]]
      BY <1>1 DEF ControlsInv, ControlsTypeOK
    <2>3. ASSUME NEW g \in Handlers
          PROVE  /\ request'[g].phase \in {"idle", "apply", "log"}
                 /\ request'[g].phase # "idle" => request'[g].setting \in Settings
                 /\ request'[g].phase = "idle" => request'[g].setting = "none"
      BY <1>1, <1>4 DEF ControlsInv, ControlsTypeOK
    <2>4. QED
      BY <1>4, <2>1, <2>2, <2>3 DEF ControlsTypeOK
  <1>6. \A g \in Handlers \ {h} : InPhase(g, s, "log") => request'[g].overlapped
    BY <1>3 DEF InPhase
  <1>7. \A g \in Handlers \ {h} : InPhase(g, s, "apply") => request'[g].outdated
    BY <1>3 DEF InPhase
  <1>8. QED
    BY <1>1, <1>2, <1>4, <1>5, <1>6, <1>7

\* The first write of a handler: it is the last writer, and it outdates what others have read.
LEMMA ApplyPreserves ==
  ASSUME ControlsInv, NEW h \in Handlers, Apply(h)
  PROVE  ControlsInv'
  <1> DEFINE s == request[h].setting
             met == \E g \in Handlers \ {h} : InPhase(g, s, "log")
  <1>1. /\ s \in Settings /\ request[h].phase = "apply"
        /\ effective' = [effective EXCEPT ![s] = request[h].value]
        /\ UNCHANGED <<logged, unordered>>
    BY Applied
  <1>2. /\ \A g \in Handlers :
             /\ request'[g].setting = request[g].setting /\ request'[g].value = request[g].value
             /\ request'[g].fields = request[g].fields
             /\ request'[g].phase = IF g = h THEN "log" ELSE request[g].phase
        /\ ControlsTypeOK'
        /\ request'[h].overlapped = met
        /\ \A g \in Handlers \ {h} : InPhase(g, s, "log") => request'[g].overlapped
        /\ \A g \in Handlers \ {h} : InPhase(g, s, "apply") => request'[g].outdated
        /\ \A g \in Handlers \ {h} : request[g].setting # s => request'[g] = request[g]
    BY AppliedFields
  <1>3. effective'[s] = request[h].value /\ \A t \in Settings : t # s => effective'[t] = effective[t]
    BY <1>1 DEF ControlsInv, ControlsTypeOK
  <1>4. \A g \in Handlers, t \in Settings :
          InPhase(g, t, "log")' <=> (InPhase(g, t, "log") \/ (g = h /\ t = s))
    BY <1>1, <1>2 DEF InPhase
  <1>5. LastWriterKnown'
    <2> SUFFICES ASSUME NEW t \in Settings, NEW g \in Handlers,
                        InPhase(g, t, "log")', ~request'[g].overlapped
                 PROVE  /\ effective'[t] = request'[g].value
                        /\ \A k \in Handlers \ {g} : ~InPhase(k, t, "log")'
      BY DEF LastWriterKnown
    <2>1. CASE t = s
      <3>1. g = h
        BY <1>2, <1>4, <2>1
      <3>2. ~met
        BY <1>2, <3>1
      <3>3. \A k \in Handlers \ {h} : ~InPhase(k, s, "log")
        BY <3>2
      <3>4. QED
        BY <1>2, <1>3, <1>4, <2>1, <3>1, <3>3
    <2>2. CASE t # s
      <3>1. g # h /\ InPhase(g, t, "log") /\ request[g].setting = t
        BY <1>2, <1>4, <2>2 DEF InPhase
      <3>2. request'[g] = request[g]
        BY <1>2, <2>2, <3>1
      <3>3. effective[t] = request[g].value /\ \A k \in Handlers \ {g} : ~InPhase(k, t, "log")
        BY <3>1, <3>2 DEF ControlsInv, LastWriterKnown
      <3>4. QED
        BY <1>3, <1>4, <2>2, <3>2, <3>3
    <2>3. QED
      BY <2>1, <2>2
  <1>6. MergeCurrent'
    <2> SUFFICES ASSUME NEW g \in Handlers, InPhase(g, "thresholds", "apply")', ~request'[g].outdated,
                        NEW f \in Fields \ request'[g].fields
                 PROVE  request'[g].value[f] = effective'["thresholds"][f]
      BY DEF MergeCurrent
    <2>1. g # h /\ InPhase(g, "thresholds", "apply")
      BY <1>2 DEF InPhase
    <2>2. s # "thresholds"
      BY <1>2, <2>1
    <2>3. request'[g] = request[g]
      BY <1>2, <2>1, <2>2 DEF InPhase
    <2>4. effective'["thresholds"] = effective["thresholds"]
      BY <1>3, <2>2 DEF Settings
    <2>5. QED
      BY <2>1, <2>3, <2>4 DEF ControlsInv, MergeCurrent
  <1>7. LogNamesEffective'
    BY <1>1, <1>3, <1>4 DEF ControlsInv, LogNamesEffective
  <1>8. QED
    BY <1>2, <1>5, <1>6, <1>7 DEF ControlsInv

\* The second write of a handler: without an overlap its event names what is in force.
LEMMA LogPreserves ==
  ASSUME ControlsInv, NEW h \in Handlers, Log(h)
  PROVE  ControlsInv'
  <1> DEFINE s == request[h].setting
  <1>1. /\ request[h].phase = "log" /\ logged' = [logged EXCEPT ![s] = request[h].value]
        /\ unordered' = IF request[h].overlapped THEN unordered \cup {s} ELSE unordered \ {s}
        /\ request' = [request EXCEPT ![h] = Quiet] /\ UNCHANGED effective
    BY DEF Log
  <1>2. s \in Settings /\ InPhase(h, s, "log")
    BY <1>1 DEF ControlsInv, ControlsTypeOK, InPhase
  <1>3. request'[h] = Quiet /\ \A g \in Handlers \ {h} : request'[g] = request[g]
    BY <1>1 DEF ControlsInv, ControlsTypeOK
  <1>4. logged'[s] = request[h].value /\ \A t \in Settings : t # s => logged'[t] = logged[t]
    BY <1>1, <1>2 DEF ControlsInv, ControlsTypeOK
  <1>5. ControlsTypeOK'
    <2>1. request' = [g \in Handlers |-> request'[g]] /\ logged' = [t \in Settings |-> logged'[t]]
      BY <1>1, <1>2 DEF ControlsInv, ControlsTypeOK
    <2>2. QED
      BY <1>1, <1>3, <2>1 DEF ControlsInv, ControlsTypeOK, Quiet
  <1>6. \A g \in Handlers, t \in Settings : InPhase(g, t, "log")' <=> (g # h /\ InPhase(g, t, "log"))
    BY <1>3 DEF InPhase, Quiet
  <1>7. LastWriterKnown'
    BY <1>1, <1>3, <1>6 DEF ControlsInv, LastWriterKnown
  <1>8. MergeCurrent'
    <2>1. ~InPhase(h, "thresholds", "apply")'
      BY <1>3 DEF InPhase, Quiet
    <2>2. QED
      BY <1>1, <1>3, <2>1 DEF ControlsInv, MergeCurrent, InPhase
  <1>9. LogNamesEffective'
    <2> SUFFICES ASSUME NEW t \in Settings, \A g \in Handlers : ~InPhase(g, t, "log")', t \notin unordered'
                 PROVE  logged'[t] = effective'[t]
      BY DEF LogNamesEffective
    <2>1. CASE t = s
      <3>1. ~request[h].overlapped
        BY <1>1, <2>1
      <3>2. effective[s] = request[h].value
        BY <1>2, <3>1 DEF ControlsInv, LastWriterKnown
      <3>3. QED
        BY <1>1, <1>4, <2>1, <3>2
    <2>2. CASE t # s
      <3>1. \A g \in Handlers : ~InPhase(g, t, "log")
        BY <1>1, <1>6, <2>2 DEF InPhase
      <3>2. t \notin unordered
        BY <1>1, <2>2
      <3>3. QED
        BY <1>1, <1>4, <2>2, <3>1, <3>2 DEF ControlsInv, LogNamesEffective
    <2>3. QED
      BY <2>1, <2>2
  <1>10. QED
    BY <1>5, <1>7, <1>8, <1>9 DEF ControlsInv
\* Init and every step of the control handlers keep the invariant.
LEMMA ControlsStep == ControlsInv /\ [ControlsNext]_controlVars => ControlsInv'
  <1> SUFFICES ASSUME ControlsInv, [ControlsNext]_controlVars PROVE ControlsInv'
    OBVIOUS
  <1>1. ASSUME NEW h \in Handlers, NEW paused \in BOOLEAN, PauseRequest(h, paused) PROVE ControlsInv'
    <2>1. Arrives(h) /\ UNCHANGED <<effective, logged, unordered>> /\ Accept(h, "paused", paused, {})
      BY <1>1 DEF PauseRequest
    <2>2. "paused" \in Settings /\ "paused" # "thresholds"
      BY DEF Settings
    <2>3. QED
      BY <2>1, <2>2, ArrivalPreserves
  <1>2. ASSUME NEW h \in Handlers, NEW mode \in OpportunityModes \cup {BadMode}, ModeRequest(h, mode)
        PROVE  ControlsInv'
    <2>1. Arrives(h) /\ UNCHANGED <<effective, logged, unordered>>
          /\ (UNCHANGED request \/ Accept(h, "mode", mode, {}))
      BY <1>2 DEF ModeRequest
    <2>2. "mode" \in Settings /\ "mode" # "thresholds"
      BY DEF Settings
    <2>3. QED
      BY <2>1, <2>2, ArrivalPreserves
  <1>3. ASSUME NEW h \in Handlers, NEW asked \in [Fields -> Values \cup {Absent}], ThresholdRequest(h, asked)
        PROVE  ControlsInv'
    <2> DEFINE fields == {f \in Fields : asked[f] # Absent}
               value == Merged(asked)
    <2>1. \A f \in Fields \ fields : value[f] = effective["thresholds"][f]
      BY DEF Merged
    <2>2. Arrives(h) /\ UNCHANGED <<effective, logged, unordered>>
          /\ (UNCHANGED request \/ Accept(h, "thresholds", value, fields))
      BY <1>3 DEF ThresholdRequest
    <2>3. "thresholds" \in Settings
      BY DEF Settings
    <2> HIDE DEF fields, value
    <2>4. QED
      BY <2>1, <2>2, <2>3, ArrivalPreserves
  <1>4. CASE UNCHANGED controlVars
    <2>1. UNCHANGED <<effective, logged, request, unordered>>
      BY <1>4 DEF controlVars
    <2>2. ControlsTypeOK'
      BY <2>1 DEF ControlsInv, ControlsTypeOK
    <2>3. LastWriterKnown' /\ MergeCurrent'
      BY <2>1 DEF ControlsInv, LastWriterKnown, MergeCurrent, InPhase
    <2>4. LogNamesEffective'
      BY <2>1 DEF ControlsInv, LogNamesEffective, InPhase
    <2>5. QED
      BY <2>2, <2>3, <2>4 DEF ControlsInv
  <1>5. QED
    BY <1>1, <1>2, <1>3, <1>4, ApplyPreserves, LogPreserves DEF ControlsNext

LEMMA ControlsInductive == ControlsSpec => []ControlsInv
  BY ControlsInitial, ControlsStep, PTL DEF ControlsSpec

\* Whatever control requests interleave: the newest event names the value in force whenever no handler
\* is between its write and its event and the last requests for that setting did not overlap there.
THEOREM ControlsAreLogged == ControlsSpec => []LogNamesEffective
  <1>1. ControlsInv => LogNamesEffective
    BY DEF ControlsInv
  <1>2. QED
    BY <1>1, ControlsInductive, PTL

\* Whatever thresholds requests interleave: one undoes the change of another only if that one was
\* applied between its read and its write of the thresholds.
THEOREM LostUpdateIsRace == ControlsSpec => UpdateLostOnlyByRace
  <1> DEFINE Kept == \A h \in Handlers :
               InPhase(h, "thresholds", "apply") /\ request'[h].phase = "log" /\ ~request[h].outdated
                 => \A f \in Fields \ request[h].fields : effective'.thresholds[f] = effective.thresholds[f]
  <1>1. ControlsInv /\ [ControlsNext]_controlVars => [Kept]_controlVars
    <2> SUFFICES ASSUME ControlsInv, ControlsNext, NEW h \in Handlers,
                        InPhase(h, "thresholds", "apply"), request'[h].phase = "log", ~request[h].outdated,
                        NEW f \in Fields \ request[h].fields
                 PROVE  effective'.thresholds[f] = effective.thresholds[f]
      OBVIOUS
    <2>1. request[h].value[f] = effective["thresholds"][f]
      BY DEF ControlsInv, MergeCurrent
    <2>2. request[h].phase = "apply" /\ request[h].setting = "thresholds"
      BY DEF InPhase
    <2>3. PICK g \in Handlers :
            \/ \E paused \in BOOLEAN : PauseRequest(g, paused)
            \/ \E mode \in OpportunityModes \cup {BadMode} : ModeRequest(g, mode)
            \/ \E asked \in [Fields -> Values \cup {Absent}] : ThresholdRequest(g, asked)
            \/ Apply(g)
            \/ Log(g)
      BY DEF ControlsNext
    <2>4. CASE Apply(g)
      <3>0. /\ \A k \in Handlers :
                 /\ request'[k].setting = request[k].setting /\ request'[k].value = request[k].value
                 /\ request'[k].fields = request[k].fields
                 /\ request'[k].phase = IF k = g THEN "log" ELSE request[k].phase
        BY ONLY ControlsInv, <2>4, AppliedFields
      <3>1. g = h
        BY <2>2, <3>0
      <3>2. effective' = [effective EXCEPT !["thresholds"] = request[h].value]
        BY <2>2, <2>4, <3>1, Applied
      <3>3. effective'["thresholds"] = request[h].value
        BY <3>2 DEF ControlsInv, ControlsTypeOK, Settings
      <3>4. QED
        BY <2>1, <3>3
    <2>5. CASE ~Apply(g)
      <3>1. UNCHANGED request \/ \E r : request' = [request EXCEPT ![g] = r]
        BY <2>3, <2>5 DEF PauseRequest, ModeRequest, ThresholdRequest, Accept, Log
      <3>2. g # h
        BY <2>2, <2>3, <2>5 DEF PauseRequest, ModeRequest, ThresholdRequest, Arrives, Log
      <3>3. request'[h] = request[h]
        BY <3>1, <3>2 DEF ControlsInv, ControlsTypeOK
      <3>4. QED
        BY <2>2, <3>3
    <2>6. QED
      BY <2>4, <2>5
  <1>2. QED
    BY <1>1, ControlsInductive, PTL DEF ControlsSpec, UpdateLostOnlyByRace
-----------------------------------------------------------------------------
(* The telemetry files.  As long as no two rotations have overlapped, the  *)
(* one under way leaves a hole above the index it works at; every rotated  *)
(* file is full, there is none above a gap other than the hole, and once   *)
(* a line is lost there is no gap at all.                                  *)

Phases == {"idle", "stat", "shift", "swap", "open", "append"}
Indices == 0..KeepFiles
Handles == Inodes \cup {NoFile}
Records == 0..MaxRecords
WriterStates == [at : Phases, idx : Indices, inode : Handles, record : Records]

FilesTypeOK ==
  /\ files \in [Indices -> Handles]
  /\ lines \in [Inodes -> SUBSET Nat]
  /\ \A n \in Inodes : IsFiniteSet(lines[n])
  /\ writer \in [Writers -> WriterStates]
  /\ started \in Records
  /\ overlapped \in BOOLEAN
  /\ \A w \in Writers :
       /\ writer[w].at = "shift" => writer[w].idx # 0
       /\ writer[w].at = "swap" => writer[w].idx = 0
       /\ writer[w].at # "idle" => writer[w].record # 0
       /\ writer[w].at = "append" => writer[w].inode # NoFile

FullFile(i) == files[i] # NoFile /\ Cardinality(lines[files[i]]) >= MaxLines
Hole(i)     == \E w \in Writers : Rotating(w) /\ writer[w].idx + 1 = i
Orphan(w)   == writer[w].at = "append" /\ \A i \in 0..KeepFiles : files[i] # writer[w].inode
Lost        == dropped # {} \/ \E w \in Writers : Orphan(w)

OneRotation == \A v, w \in Writers : Rotating(v) /\ Rotating(w) => v = w
HolesEmpty  == \A i \in 1..KeepFiles : Hole(i) => files[i] = NoFile
RotatedFull == \A i \in 1..KeepFiles : files[i] # NoFile => FullFile(i)
NoGaps      == \A i \in 1..KeepFiles : files[i] # NoFile =>
                 \A m \in 1..i : ~Hole(m) => files[m] # NoFile
LiveFull    == (\E w \in Writers : Rotating(w)) => FullFile(0)
LostFull    == Lost => \A i \in 1..KeepFiles : Hole(i) \/ files[i] # NoFile

Tidy == OneRotation /\ HolesEmpty /\ RotatedFull /\ NoGaps /\ LiveFull /\ LostFull

FilesInv == FilesTypeOK /\ (~overlapped => Tidy)
\* A thread with nothing to write is in one of the states of the type.
LEMMA RestingState == Resting \in WriterStates
  <1>1. "idle" \in Phases /\ 0 \in Indices /\ NoFile \in Handles /\ 0 \in Records
    BY FileAssumption DEF Phases, Indices, Handles, Records
  <1>2. QED
    BY <1>1 DEF Resting, WriterStates

LEMMA FilesInitial == FilesInit => FilesInv
  <1> SUFFICES ASSUME FilesInit PROVE FilesInv
    OBVIOUS
  <1>1. \A w \in Writers : writer[w] = Resting
    BY DEF FilesInit
  <1>2. FilesTypeOK
    <2>1. Resting \in WriterStates
      BY RestingState
    <2>2. lines \in [Inodes -> SUBSET Nat] /\ \A n \in Inodes : lines[n] = {} /\ IsFiniteSet(lines[n])
      BY FS_EmptySet DEF FilesInit
    <2>3. files \in [Indices -> Handles] /\ writer \in [Writers -> WriterStates]
      BY <2>1 DEF FilesInit, Indices, Handles
    <2>4. started \in Records
      BY FileAssumption DEF FilesInit, Records
    <2>a. overlapped \in BOOLEAN
      BY Zenon DEF FilesInit
    <2>5. QED
      BY <1>1, <2>2, <2>3, <2>4, <2>a DEF FilesTypeOK, Resting
  <1>3. \A w \in Writers : ~Rotating(w) /\ ~Orphan(w)
    BY <1>1 DEF Rotating, Orphan, Resting
  <1>4. Tidy
    BY <1>3 DEF FilesInit, Tidy, OneRotation, HolesEmpty, RotatedFull, NoGaps, LiveFull, LostFull, Lost,
                Hole
  <1>5. QED
    BY <1>2, <1>4 DEF FilesInv

\* What a step that changes one thread's state may leave in it.
WriterOK(r) ==
  /\ r \in WriterStates
  /\ r.at = "shift" => r.idx # 0
  /\ r.at = "swap" => r.idx = 0
  /\ r.at # "idle" => r.record # 0
  /\ r.at = "append" => r.inode # NoFile

LEMMA WritersOK ==
  ASSUME FilesTypeOK, NEW w \in Writers, NEW r, WriterOK(r), writer' = [writer EXCEPT ![w] = r]
  PROVE  /\ writer' \in [Writers -> WriterStates]
         /\ writer'[w] = r /\ \A v \in Writers : v # w => writer'[v] = writer[v]
         /\ \A v \in Writers : WriterOK(writer'[v])
  BY DEF FilesTypeOK, WriterOK

\* A step of a thread that is not rotating before nor after, touches no file and holds no file
\* open afterwards that it did not hold before, keeps everything as it was.
LEMMA TidyKept ==
  ASSUME Tidy, NEW w \in Writers, UNCHANGED <<files, lines, dropped>>,
         \A v \in Writers : v # w => writer'[v] = writer[v],
         ~Rotating(w), writer'[w].at \notin {"shift", "swap", "append"}
  PROVE  Tidy'
  <1>1. ~Rotating(w)' /\ ~Orphan(w)' /\ \A v \in Writers : Rotating(v)' => Rotating(v) /\ v # w
    BY DEF Rotating, Orphan
  <1>2. \A v \in Writers : Orphan(v)' => Orphan(v)
    BY <1>1 DEF Orphan
  <1>3. \A i \in 0..KeepFiles : (Hole(i)' <=> Hole(i)) /\ (FullFile(i)' <=> FullFile(i))
    BY <1>1 DEF Hole, Rotating, FullFile
  <1>4. OneRotation' /\ LiveFull'
    BY <1>1, <1>3 DEF Tidy, OneRotation, LiveFull, FullFile
  <1>5. \A i \in 1..KeepFiles : (Hole(i)' <=> Hole(i)) /\ (FullFile(i)' <=> FullFile(i))
    BY <1>3, FileAssumption
  <1>6. HolesEmpty' /\ RotatedFull' /\ LostFull'
    BY <1>2, <1>5 DEF Tidy, HolesEmpty, RotatedFull, LostFull, Lost
  <1>7. NoGaps'
    <2>1. \A i \in 1..KeepFiles : \A m \in 1..i : m \in 1..KeepFiles
      BY FileAssumption
    <2>2. QED
      BY <1>5, <2>1 DEF Tidy, NoGaps
  <1>8. QED
    BY <1>4, <1>6, <1>7 DEF Tidy

\* An event or a sample starts a line, or is not written at all.
LEMMA RecordPreserves ==
  ASSUME FilesInv, NEW w \in Writers,
         StartLine(w) \/ UNCHANGED <<writer, started>>,
         UNCHANGED <<files, lines, dropped, overlapped>>
  PROVE  FilesInv'
  <1>1. CASE StartLine(w)
    <2> DEFINE new == [Resting EXCEPT !.at = "stat", !.record = started + 1]
    <2>1. /\ writer[w] = Resting /\ started < MaxRecords /\ started' = started + 1
          /\ writer' = [writer EXCEPT ![w] = new] /\ started \in Records
      BY <1>1 DEF StartLine, FilesInv, FilesTypeOK
    <2>a. started + 1 \in Records /\ started + 1 # 0 /\ "stat" \in Phases
      BY <2>1, FileAssumption DEF Records, Phases
    <2>2. WriterOK(new) /\ new.at = "stat"
      <3>1. new \in WriterStates /\ new.at = "stat" /\ new.record = started + 1
        BY <2>a, RestingState DEF WriterStates
      <3> HIDE DEF new
      <3>2. QED
        BY <2>a, <3>1 DEF WriterOK
    <2> HIDE DEF new
    <2>3. /\ writer' \in [Writers -> WriterStates]
          /\ writer'[w] = new /\ \A v \in Writers : v # w => writer'[v] = writer[v]
          /\ \A v \in Writers : WriterOK(writer'[v])
      BY <2>1, <2>2, WritersOK DEF FilesInv
    <2>4. FilesTypeOK'
      BY <2>1, <2>3, <2>a DEF FilesInv, FilesTypeOK, WriterOK
    <2>5. ~Rotating(w)
      BY <2>1 DEF Rotating, Resting
    <2>6. QED
      BY <2>2, <2>3, <2>4, <2>5, TidyKept DEF FilesInv
  <1>2. CASE UNCHANGED <<writer, started>>
    BY <1>2 DEF FilesInv, FilesTypeOK, Tidy, OneRotation, HolesEmpty, RotatedFull, NoGaps, LiveFull,
                LostFull, Lost, Hole, Orphan, Rotating, FullFile
  <1>3. QED
    BY <1>1, <1>2

\* fs::metadata: a thread that finds the file full while nobody rotates it is the one that rotates.
LEMMA StatPreserves ==
  ASSUME FilesInv, NEW w \in Writers, Stat(w)
  PROVE  FilesInv'
  <1> DEFINE full == files[0] # NoFile /\ Cardinality(lines[files[0]]) >= MaxLines
             next == IF full THEN "shift" ELSE "open"
             new == [writer[w] EXCEPT !.at = next, !.idx = KeepFiles]
             also == \E v \in Writers \ {w} : Rotating(v)
  <1>1. /\ writer[w].at = "stat" /\ overlapped' = (overlapped \/ (full /\ also))
        /\ UNCHANGED <<files, lines, started, dropped>>
        /\ writer' = [writer EXCEPT ![w].at = next, ![w].idx = KeepFiles]
    BY DEF Stat
  <1>2. writer' = [writer EXCEPT ![w] = new]
    <2> HIDE DEF next
    <2>1. QED
      BY <1>1
  <1>3. writer[w] \in WriterStates /\ writer[w].record # 0
    BY <1>1 DEF FilesInv, FilesTypeOK
  <1>4. WriterOK(new) /\ new.at = next /\ new.idx = KeepFiles
    <2>1. next \in {"shift", "open"}
      OBVIOUS
    <2> HIDE DEF next
    <2>2. new \in WriterStates /\ new.at = next /\ new.idx = KeepFiles /\ new.record = writer[w].record
      <3>1. next \in Phases /\ KeepFiles \in Indices
        BY <2>1, FileAssumption DEF Phases, Indices
      <3>2. QED
        BY <1>3, <3>1 DEF WriterStates
    <2> HIDE DEF new
    <2>3. QED
      BY <1>3, <2>1, <2>2, FileAssumption DEF WriterOK
  <1> HIDE DEF new
  <1>5. /\ writer' \in [Writers -> WriterStates]
        /\ writer'[w] = new /\ \A v \in Writers : v # w => writer'[v] = writer[v]
        /\ \A v \in Writers : WriterOK(writer'[v])
    BY <1>2, <1>4, WritersOK DEF FilesInv
  <1>6. FilesTypeOK'
    <2>1. overlapped' \in BOOLEAN
      BY <1>1
    <2>2. QED
      BY <1>1, <1>5, <2>1 DEF FilesInv, FilesTypeOK, WriterOK
  <1>7. ~Rotating(w)
    BY <1>1 DEF Rotating
  <1>8. ASSUME ~overlapped' PROVE Tidy'
    <2>1. ~overlapped /\ ~(full /\ also) /\ Tidy
      BY <1>1, <1>8 DEF FilesInv
    <2>2. CASE ~full
      <3>1. writer'[w].at \notin {"shift", "swap", "append"}
        BY <1>4, <1>5, <2>2
      <3>2. QED
        BY <1>1, <1>5, <1>7, <2>1, <3>1, TidyKept
    <2>3. CASE full
      <3>1. \A v \in Writers : ~Rotating(v)
        BY <1>7, <2>1, <2>3
      <3>2. writer'[w].at = "shift" /\ writer'[w].idx = KeepFiles
        BY <1>4, <1>5, <2>3
      <3>3. \A v \in Writers : Rotating(v)' <=> v = w
        BY <1>5, <3>1, <3>2 DEF Rotating
      <3>4. \A v \in Writers : Orphan(v)' => Orphan(v)
        BY <1>1, <1>5, <3>2 DEF Orphan
      <3>5. \A i \in 1..KeepFiles : ~Hole(i) /\ ~Hole(i)' /\ (FullFile(i)' <=> FullFile(i))
        <4>1. \A i \in 1..KeepFiles : i # KeepFiles + 1
          BY FileAssumption
        <4>2. \A i \in 1..KeepFiles : ~Hole(i) /\ ~Hole(i)'
          BY <3>1, <3>2, <3>3, <4>1 DEF Hole
        <4>3. QED
          BY <1>1, <4>2 DEF FullFile
      <3>6. OneRotation' /\ LiveFull'
        BY <1>1, <2>3, <3>3 DEF OneRotation, LiveFull, FullFile
      <3>7. HolesEmpty' /\ RotatedFull' /\ LostFull'
        BY <1>1, <2>1, <3>4, <3>5 DEF Tidy, HolesEmpty, RotatedFull, LostFull, Lost
      <3>8. NoGaps'
        <4>1. \A i \in 1..KeepFiles : \A m \in 1..i : m \in 1..KeepFiles
          BY FileAssumption
        <4>2. QED
          BY <1>1, <2>1, <3>5, <4>1 DEF Tidy, NoGaps
      <3>9. QED
        BY <3>6, <3>7, <3>8 DEF Tidy
    <2>4. QED
      BY <2>2, <2>3
  <1>9. QED
    BY <1>6, <1>8 DEF FilesInv
\* One round of the rotation: the file at idx goes up by one, or away if it was the oldest.
LEMMA ShiftPreserves ==
  ASSUME FilesInv, NEW w \in Writers, Shift(w)
  PROVE  FilesInv'
  <1> DEFINE j == writer[w].idx
             next == IF j = 1 THEN "swap" ELSE "shift"
             new == [writer[w] EXCEPT !.at = next, !.idx = j - 1]
  <1>1. /\ writer[w].at = "shift" /\ UNCHANGED <<lines, started, overlapped>>
        /\ writer' = [writer EXCEPT ![w].at = next, ![w].idx = j - 1]
        /\ CASE files[j] = NoFile -> UNCHANGED <<files, dropped>>
             [] files[j] # NoFile /\ j = KeepFiles -> RemoveFile(j)
             [] files[j] # NoFile /\ j # KeepFiles -> Move(j, j + 1)
    BY DEF Shift
  <1>2. writer[w] \in WriterStates /\ writer[w].record # 0 /\ j \in 1..KeepFiles
    BY <1>1, FileAssumption DEF FilesInv, FilesTypeOK, WriterStates, Indices
  <1>3. writer' = [writer EXCEPT ![w] = new]
    <2> HIDE DEF next
    <2>1. QED
      BY <1>1
  <1>4. WriterOK(new) /\ new.at = next /\ new.idx = j - 1
    <2>1. next \in Phases /\ j - 1 \in Indices
      BY <1>2, FileAssumption DEF Phases, Indices
    <2>2. (next = "swap" => j - 1 = 0) /\ (next = "shift" => j - 1 # 0) /\ next \in {"shift", "swap"}
      BY <1>2, FileAssumption
    <2> HIDE DEF next
    <2>3. new \in WriterStates /\ new.at = next /\ new.idx = j - 1 /\ new.record = writer[w].record
      BY <1>2, <2>1 DEF WriterStates
    <2> HIDE DEF new
    <2>4. QED
      BY <1>2, <2>2, <2>3 DEF WriterOK
  <1>a. next \in {"shift", "swap"}
    OBVIOUS
  <1> HIDE DEF new, next
  <1>5. /\ writer' \in [Writers -> WriterStates]
        /\ writer'[w] = new /\ \A v \in Writers : v # w => writer'[v] = writer[v]
        /\ \A v \in Writers : WriterOK(writer'[v])
    BY <1>3, <1>4, WritersOK DEF FilesInv
  <1>b. /\ files[j] = NoFile => UNCHANGED <<files, dropped>>
        /\ files[j] # NoFile /\ j = KeepFiles => files' = [files EXCEPT ![j] = NoFile]
        /\ files[j] # NoFile /\ j # KeepFiles =>
             /\ files' = [files EXCEPT ![j + 1] = files[j], ![j] = NoFile]
             /\ files[j + 1] = NoFile => dropped' = dropped
    BY <1>1 DEF RemoveFile, Move
  <1>c. j \in Indices /\ (j # KeepFiles => j + 1 \in Indices) /\ j + 1 # j
    BY <1>2, FileAssumption DEF Indices
  <1>6. files' \in [Indices -> Handles]
    <2>1. files \in [Indices -> Handles] /\ NoFile \in Handles
      BY DEF FilesInv, FilesTypeOK, Handles
    <2>2. QED
      BY <1>b, <1>c, <2>1
  <1>7. FilesTypeOK'
    BY <1>1, <1>5, <1>6 DEF FilesInv, FilesTypeOK, WriterOK
  <1>8. ASSUME ~overlapped PROVE Tidy'
    <2>0. Tidy
      BY <1>8 DEF FilesInv
    <2>1. \A v \in Writers : (Rotating(v) <=> v = w) /\ (Rotating(v)' <=> v = w)
      BY <1>1, <1>4, <1>5, <1>a, <2>0 DEF Tidy, OneRotation, Rotating
    <2>2. \A i \in 1..KeepFiles : (Hole(i) <=> i = j + 1) /\ (Hole(i)' <=> i = j)
      BY <1>2, <1>4, <1>5, <2>1, FileAssumption DEF Hole
    <2>3. /\ j < KeepFiles => files[j + 1] = NoFile
          /\ j < KeepFiles => files'[j + 1] = files[j]
          /\ files'[j] = NoFile
          /\ \A i \in 0..KeepFiles : i # j /\ i # j + 1 => files'[i] = files[i]
          /\ dropped' = dropped \/ (j = KeepFiles /\ files[j] # NoFile)
      <3>1. j < KeepFiles => files[j + 1] = NoFile
        BY <1>2, <2>0, <2>2, FileAssumption DEF Tidy, HolesEmpty
      <3>2. files \in [Indices -> Handles]
        BY DEF FilesInv, FilesTypeOK
      <3>a. \A i \in 0..KeepFiles : i \in Indices
        BY DEF Indices
      <3>b. j < KeepFiles => j # KeepFiles
        BY <1>2, FileAssumption
      <3>c. j \in Nat /\ KeepFiles \in Nat /\ j <= KeepFiles
        BY <1>2, FileAssumption
      <3>3. CASE files[j] = NoFile
        BY <1>b, <3>1, <3>3
      <3>4. CASE files[j] # NoFile /\ j = KeepFiles
        BY <1>b, <1>c, <3>2, <3>4, <3>a, <3>c
      <3>5. CASE files[j] # NoFile /\ j # KeepFiles
        BY <1>b, <1>c, <3>1, <3>2, <3>5, <3>a, <3>c
      <3>6. QED
        BY <3>1, <3>3, <3>4, <3>5
    <2>4. OneRotation' /\ HolesEmpty'
      BY <2>1, <2>2, <2>3 DEF OneRotation, HolesEmpty
    <2>5. LiveFull'
      BY <1>1, <1>2, <2>0, <2>1, <2>3, FileAssumption DEF Tidy, LiveFull, FullFile
    <2>6. RotatedFull'
      <3> SUFFICES ASSUME NEW i \in 1..KeepFiles, files'[i] # NoFile
                   PROVE  FullFile(i)'
        BY DEF RotatedFull
      <3>1. CASE i = j + 1
        BY <1>1, <1>2, <2>0, <2>3, <3>1, FileAssumption DEF Tidy, RotatedFull, FullFile
      <3>2. CASE i # j + 1
        BY <1>1, <1>2, <2>0, <2>3, <3>2, FileAssumption DEF Tidy, RotatedFull, FullFile
      <3>3. QED
        BY <3>1, <3>2
    <2>7. NoGaps'
      <3> SUFFICES ASSUME NEW i \in 1..KeepFiles, files'[i] # NoFile, NEW m \in 1..i, ~Hole(m)'
                   PROVE  files'[m] # NoFile
        BY DEF NoGaps
      <3>1. i # j /\ m # j /\ m \in 1..KeepFiles
        BY <1>2, <2>2, <2>3, FileAssumption
      <3>2. \A k \in 1..KeepFiles : files[k] # NoFile =>
              \A l \in 1..k : l # j + 1 => files[l] # NoFile
        <4>1. \A k \in 1..KeepFiles : \A l \in 1..k : l \in 1..KeepFiles
          BY FileAssumption
        <4>2. QED
          BY <2>0, <2>2, <4>1 DEF Tidy, NoGaps
      <3>3. CASE i = j + 1
        <4>1. files[j] # NoFile /\ j < KeepFiles
          BY <1>2, <2>3, <3>3, FileAssumption
        <4>2. CASE m = j + 1
          BY <2>3, <3>3, <4>2
        <4>3. CASE m # j + 1
          <5>1. m \in 1..j /\ files[m] # NoFile
            BY <1>2, <3>1, <3>2, <3>3, <4>1, <4>3, FileAssumption
          <5>2. QED
            BY <2>3, <3>1, <4>3, <5>1, FileAssumption
        <4>4. QED
          BY <4>2, <4>3
      <3>4. CASE i # j + 1
        <4>1. files[i] # NoFile
          BY <2>3, <3>1, <3>4, FileAssumption
        <4>2. CASE m = j + 1
          <5>1. j \in 1..i /\ j < KeepFiles
            BY <1>2, <3>1, <3>4, <4>2, FileAssumption
          <5>2. files[j] # NoFile
            BY <1>2, <3>2, <4>1, <5>1, FileAssumption
          <5>3. QED
            BY <2>3, <4>2, <5>1, <5>2
        <4>3. CASE m # j + 1
          BY <2>3, <3>1, <3>2, <4>1, <4>3, FileAssumption
        <4>4. QED
          BY <4>2, <4>3
      <3>5. QED
        BY <3>3, <3>4
    <2>8. LostFull'
      <3>1. CASE j = KeepFiles /\ files[j] # NoFile
        <4>1. \A m \in 1..KeepFiles : m # j + 1
          BY <3>1, FileAssumption
        <4>2. \A m \in 1..KeepFiles : files[m] # NoFile
          BY <1>2, <2>0, <2>2, <3>1, <4>1 DEF Tidy, NoGaps
        <4>3. \A m \in 1..KeepFiles : Hole(m)' \/ files'[m] # NoFile
          BY <2>2, <2>3, <4>1, <4>2, FileAssumption
        <4>4. QED
          BY <4>3 DEF LostFull
      <3>2. CASE ~(j = KeepFiles /\ files[j] # NoFile)
        <4>1. dropped' = dropped
          BY <2>3, <3>2
        <4>2. \A n \in Handles \ {NoFile} :
                (\E i \in 0..KeepFiles : files[i] = n) => \E i \in 0..KeepFiles : files'[i] = n
          <5> SUFFICES ASSUME NEW n \in Handles \ {NoFile}, NEW i \in 0..KeepFiles, files[i] = n
                       PROVE  \E k \in 0..KeepFiles : files'[k] = n
            OBVIOUS
          <5>1. CASE i = j
            <6>1. j < KeepFiles /\ j + 1 \in 0..KeepFiles
              BY <1>2, <3>2, <5>1, FileAssumption
            <6>2. QED
              BY <2>3, <5>1, <6>1
          <5>2. CASE i = j + 1
            BY <1>2, <2>3, <5>2, FileAssumption
          <5>3. CASE i # j /\ i # j + 1
            BY <2>3, <5>3
          <5>4. QED
            BY <5>1, <5>2, <5>3
        <4>3. \A v \in Writers : Orphan(v)' => Orphan(v)
          <5> SUFFICES ASSUME NEW v \in Writers, Orphan(v)', ~Orphan(v) PROVE FALSE
            OBVIOUS
          <5>1. v # w /\ writer'[v] = writer[v] /\ writer[v].at = "append"
            BY <1>4, <1>5, <1>a DEF Orphan
          <5>2. writer[v].inode \in Handles \ {NoFile}
            BY <5>1 DEF FilesInv, FilesTypeOK, WriterStates
          <5>3. QED
            BY <4>2, <5>1, <5>2 DEF Orphan
        <4>4. Lost' => Lost
          BY <4>1, <4>3 DEF Lost
        <4>5. ASSUME Lost, NEW i \in 1..KeepFiles, i # j PROVE files'[i] # NoFile
          <5>1. \A k \in 1..KeepFiles : k # j + 1 => files[k] # NoFile
            BY <2>0, <2>2, <4>5 DEF Tidy, LostFull
          <5>2. CASE i = j + 1
            BY <1>2, <2>3, <5>1, <5>2, FileAssumption
          <5>3. CASE i # j + 1
            BY <2>3, <4>5, <5>1, <5>3, FileAssumption
          <5>4. QED
            BY <5>2, <5>3
        <4>6. QED
          BY <2>2, <4>4, <4>5 DEF LostFull
      <3>3. QED
        BY <3>1, <3>2
    <2>9. QED
      BY <2>4, <2>5, <2>6, <2>7, <2>8 DEF Tidy
  <1>9. QED
    BY <1>1, <1>7, <1>8 DEF FilesInv
\* The last move of a rotation fills the hole at 1 with the live file, which is full.
LEMMA SwapPreserves ==
  ASSUME FilesInv, NEW w \in Writers, Swap(w)
  PROVE  FilesInv'
  <1> DEFINE new == [writer[w] EXCEPT !.at = "open"]
  <1>1. /\ writer[w].at = "swap" /\ UNCHANGED <<lines, started, overlapped>>
        /\ writer' = [writer EXCEPT ![w].at = "open"]
        /\ files[0] = NoFile => UNCHANGED <<files, dropped>>
        /\ files[0] # NoFile =>
             /\ files' = [files EXCEPT ![1] = files[0], ![0] = NoFile]
             /\ files[1] = NoFile => dropped' = dropped
    BY DEF Swap, Move
  <1>2. writer[w] \in WriterStates /\ writer[w].record # 0 /\ writer[w].idx = 0
    BY <1>1 DEF FilesInv, FilesTypeOK
  <1>3. writer' = [writer EXCEPT ![w] = new]
    BY <1>1
  <1>4. WriterOK(new) /\ new.at = "open"
    <2>1. "open" \in Phases
      BY DEF Phases
    <2>2. new \in WriterStates /\ new.at = "open" /\ new.record = writer[w].record
      BY <1>2, <2>1 DEF WriterStates
    <2> HIDE DEF new
    <2>3. QED
      BY <1>2, <2>2 DEF WriterOK
  <1> HIDE DEF new
  <1>5. /\ writer' \in [Writers -> WriterStates]
        /\ writer'[w] = new /\ \A v \in Writers : v # w => writer'[v] = writer[v]
        /\ \A v \in Writers : WriterOK(writer'[v])
    BY <1>3, <1>4, WritersOK DEF FilesInv
  <1>c. 0 \in Indices /\ 1 \in Indices /\ \A i \in 0..KeepFiles : i \in Indices
    BY FileAssumption DEF Indices
  <1>6. files' \in [Indices -> Handles]
    <2>1. files \in [Indices -> Handles] /\ NoFile \in Handles
      BY DEF FilesInv, FilesTypeOK, Handles
    <2>2. QED
      BY <1>1, <1>c, <2>1
  <1>7. FilesTypeOK'
    BY <1>1, <1>5, <1>6 DEF FilesInv, FilesTypeOK, WriterOK
  <1>8. ASSUME ~overlapped PROVE Tidy'
    <2>0. Tidy
      BY <1>8 DEF FilesInv
    <2>1. Rotating(w) /\ \A v \in Writers : (Rotating(v) => v = w) /\ ~Rotating(v)'
      BY <1>1, <1>4, <1>5, <2>0 DEF Tidy, OneRotation, Rotating
    <2>2. \A i \in 1..KeepFiles : (Hole(i) <=> i = 1) /\ ~Hole(i)'
      BY <1>2, <2>1, FileAssumption DEF Hole
    <2>3. FullFile(0) /\ files[1] = NoFile
      BY <2>0, <2>1, <2>2, FileAssumption DEF Tidy, LiveFull, HolesEmpty
    <2>4. /\ files'[1] = files[0] /\ files'[0] = NoFile /\ dropped' = dropped
          /\ \A i \in 0..KeepFiles : i # 0 /\ i # 1 => files'[i] = files[i]
      <3>1. files \in [Indices -> Handles] /\ files[0] # NoFile
        BY <2>3 DEF FilesInv, FilesTypeOK, FullFile
      <3>2. QED
        BY <1>1, <1>c, <2>3, <3>1
    <2>5. OneRotation' /\ HolesEmpty' /\ LiveFull'
      BY <2>1, <2>2 DEF OneRotation, HolesEmpty, LiveFull
    <2>6. RotatedFull'
      BY <1>1, <2>0, <2>3, <2>4, FileAssumption DEF Tidy, RotatedFull, FullFile
    <2>7. NoGaps'
      <3> SUFFICES ASSUME NEW i \in 1..KeepFiles, files'[i] # NoFile, NEW m \in 1..i
                   PROVE  files'[m] # NoFile
        BY DEF NoGaps
      <3>1. CASE m = 1
        BY <2>3, <2>4, <3>1 DEF FullFile
      <3>2. CASE m # 1
        <4>1. i # 1 /\ i # 0 /\ m # 0 /\ i \in 0..KeepFiles /\ m \in 0..KeepFiles /\ m \in 1..KeepFiles
          BY <3>2, FileAssumption
        <4>2. files[i] # NoFile
          BY <2>4, <4>1
        <4>3. files[m] # NoFile
          BY <2>0, <2>2, <3>2, <4>1, <4>2 DEF Tidy, NoGaps
        <4>4. QED
          BY <2>4, <3>2, <4>1, <4>3
      <3>3. QED
        BY <3>1, <3>2
    <2>8. LostFull'
      <3>1. \A v \in Writers : Orphan(v)' => Orphan(v)
        <4> SUFFICES ASSUME NEW v \in Writers, Orphan(v)' PROVE Orphan(v)
          OBVIOUS
        <4>1. v # w /\ writer'[v] = writer[v] /\ writer[v].at = "append"
          BY <1>4, <1>5 DEF Orphan
        <4>2. writer[v].inode # NoFile
          BY <4>1 DEF FilesInv, FilesTypeOK
        <4>3. \A i \in 0..KeepFiles : files[i] # writer[v].inode
          <5>1. \A i \in 0..KeepFiles : files'[i] # writer[v].inode
            BY <4>1 DEF Orphan
          <5>2. files[0] # writer[v].inode
            BY <2>4, <5>1, FileAssumption
          <5>3. QED
            BY <2>3, <2>4, <4>2, <5>1, <5>2
        <4>4. QED
          BY <4>1, <4>3 DEF Orphan
      <3>2. Lost' => Lost
        BY <2>4, <3>1 DEF Lost
      <3>3. ASSUME Lost, NEW i \in 1..KeepFiles PROVE files'[i] # NoFile
        <4>1. CASE i = 1
          BY <2>3, <2>4, <4>1 DEF FullFile
        <4>2. CASE i # 1
          BY <2>0, <2>2, <2>4, <3>3, <4>2, FileAssumption DEF Tidy, LostFull
        <4>3. QED
          BY <4>1, <4>2
      <3>4. QED
        BY <3>2, <3>3 DEF LostFull
    <2>9. QED
      BY <2>5, <2>6, <2>7, <2>8 DEF Tidy
  <1>9. QED
    BY <1>1, <1>7, <1>8 DEF FilesInv

\* Opening creates the live file only when there is none, hence not during a rotation.
LEMMA OpenPreserves ==
  ASSUME FilesInv, NEW w \in Writers, Open(w)
  PROVE  FilesInv'
  <1> DEFINE inode == IF files[0] = NoFile THEN writer[w].record ELSE files[0]
             new == [writer[w] EXCEPT !.at = "append", !.inode = inode]
  <1>1. /\ writer[w].at = "open" /\ UNCHANGED <<lines, started, dropped, overlapped>>
        /\ writer' = [writer EXCEPT ![w].at = "append", ![w].inode = inode]
        /\ files' = [files EXCEPT ![0] = inode]
    BY DEF Open
  <1>2. writer[w] \in WriterStates /\ writer[w].record # 0 /\ files \in [Indices -> Handles]
    BY <1>1 DEF FilesInv, FilesTypeOK
  <1>c. 0 \in Indices /\ \A i \in 0..KeepFiles : i \in Indices
    BY FileAssumption DEF Indices
  <1>3. inode \in Handles /\ inode # NoFile /\ (files[0] # NoFile => inode = files[0])
    BY <1>2, <1>c, FileAssumption DEF Handles, WriterStates, Records, Inodes, NoFile
  <1> HIDE DEF inode
  <1>4. writer' = [writer EXCEPT ![w] = new]
    BY <1>1
  <1>5. WriterOK(new) /\ new.at = "append" /\ new.inode = inode
    <2>1. "append" \in Phases
      BY DEF Phases
    <2>2. new \in WriterStates /\ new.at = "append" /\ new.inode = inode /\ new.record = writer[w].record
      BY <1>2, <1>3, <2>1 DEF WriterStates
    <2> HIDE DEF new
    <2>3. QED
      BY <1>2, <1>3, <2>2 DEF WriterOK
  <1> HIDE DEF new
  <1>6. /\ writer' \in [Writers -> WriterStates]
        /\ writer'[w] = new /\ \A v \in Writers : v # w => writer'[v] = writer[v]
        /\ \A v \in Writers : WriterOK(writer'[v])
    BY <1>4, <1>5, WritersOK DEF FilesInv
  <1>7. /\ files' \in [Indices -> Handles] /\ files'[0] = inode
        /\ \A i \in 0..KeepFiles : i # 0 => files'[i] = files[i]
    BY <1>1, <1>2, <1>3, <1>c
  <1>8. FilesTypeOK'
    BY <1>1, <1>6, <1>7 DEF FilesInv, FilesTypeOK, WriterOK
  <1>9. ASSUME ~overlapped PROVE Tidy'
    <2>0. Tidy
      BY <1>9 DEF FilesInv
    <2>1. ~Rotating(w) /\ \A v \in Writers : Rotating(v)' <=> Rotating(v)
      BY <1>1, <1>5, <1>6 DEF Rotating
    <2>2. \A i \in 1..KeepFiles : /\ Hole(i)' <=> Hole(i)
                                  /\ files'[i] = files[i]
                                  /\ FullFile(i)' <=> FullFile(i)
      <3>1. \A i \in 1..KeepFiles : files'[i] = files[i]
        BY <1>7, FileAssumption
      <3>2. \A i \in 1..KeepFiles : Hole(i)' <=> Hole(i)
        BY <1>6, <2>1 DEF Hole
      <3>3. QED
        BY <1>1, <3>1, <3>2 DEF FullFile
    <2>3. \A v \in Writers : Orphan(v)' => Orphan(v)
      <3> SUFFICES ASSUME NEW v \in Writers, Orphan(v)' PROVE Orphan(v)
        OBVIOUS
      <3>1. \A i \in 0..KeepFiles : files'[i] # writer'[v].inode
        BY DEF Orphan
      <3>2. v # w
        BY <1>5, <1>6, <1>7, <3>1, FileAssumption
      <3>3. writer'[v] = writer[v] /\ writer[v].at = "append"
        BY <1>6, <3>2 DEF Orphan
      <3>4. writer[v].inode # NoFile
        BY <3>3 DEF FilesInv, FilesTypeOK
      <3>5. \A i \in 0..KeepFiles : files[i] # writer[v].inode
        BY <1>3, <1>7, <3>1, <3>3, <3>4
      <3>6. QED
        BY <3>3, <3>5 DEF Orphan
    <2>4. OneRotation' /\ HolesEmpty' /\ RotatedFull'
      BY <2>0, <2>1, <2>2 DEF Tidy, OneRotation, HolesEmpty, RotatedFull
    <2>5. LiveFull'
      BY <1>1, <1>3, <1>7, <2>0, <2>1 DEF Tidy, LiveFull, FullFile
    <2>6. NoGaps'
      <3>1. \A i \in 1..KeepFiles : \A m \in 1..i : m \in 1..KeepFiles
        BY FileAssumption
      <3>2. QED
        BY <2>0, <2>2, <3>1 DEF Tidy, NoGaps
    <2>7. LostFull'
      BY <1>1, <2>0, <2>2, <2>3 DEF Tidy, LostFull, Lost
    <2>8. QED
      BY <2>4, <2>5, <2>6, <2>7 DEF Tidy
  <1>10. QED
    BY <1>1, <1>8, <1>9 DEF FilesInv

\* A line written makes no file smaller; it is lost at once only in a file that is already gone.
LEMMA AppendPreserves ==
  ASSUME FilesInv, NEW w \in Writers, AppendLine(w)
  PROVE  FilesInv'
  <1> DEFINE inode == writer[w].inode
             record == writer[w].record
  <1>1. /\ writer[w].at = "append" /\ UNCHANGED <<files, started, overlapped>>
        /\ lines' = [lines EXCEPT ![inode] = @ \cup {record}]
        /\ (\E i \in 0..KeepFiles : files[i] = inode) => dropped' = dropped
        /\ writer' = [writer EXCEPT ![w] = Resting]
    BY DEF AppendLine
  <1>2. /\ writer[w] \in WriterStates /\ inode \in Inodes /\ record \in Nat
        /\ lines \in [Inodes -> SUBSET Nat] /\ \A n \in Inodes : IsFiniteSet(lines[n])
    BY <1>1, FileAssumption DEF FilesInv, FilesTypeOK, WriterStates, Handles, Records
  <1>3. WriterOK(Resting)
    BY RestingState DEF WriterOK, Resting
  <1>4. /\ writer' \in [Writers -> WriterStates]
        /\ writer'[w] = Resting /\ \A v \in Writers : v # w => writer'[v] = writer[v]
        /\ \A v \in Writers : WriterOK(writer'[v])
    BY <1>1, <1>3, WritersOK DEF FilesInv
  <1>5. /\ lines' \in [Inodes -> SUBSET Nat]
        /\ lines'[inode] = lines[inode] \cup {record}
        /\ \A n \in Inodes : n # inode => lines'[n] = lines[n]
    BY <1>1, <1>2
  <1>6. \A n \in Inodes : IsFiniteSet(lines'[n]) /\ Cardinality(lines'[n]) >= Cardinality(lines[n])
    <2>1. /\ IsFiniteSet(lines[inode] \cup {record})
          /\ Cardinality(lines[inode] \cup {record}) >= Cardinality(lines[inode])
      <3> DEFINE S == lines[inode]
      <3>1. IsFiniteSet(S)
        BY <1>2
      <3> HIDE DEF S
      <3>2. Cardinality(S) \in Nat /\ IsFiniteSet(S \cup {record})
            /\ (Cardinality(S \cup {record}) = Cardinality(S)
                \/ Cardinality(S \cup {record}) = Cardinality(S) + 1)
        BY <3>1, FS_AddElement, FS_CardinalityType
      <3>3. QED
        BY <3>2 DEF S
    <2>2. \A n \in Inodes : Cardinality(lines[n]) >= Cardinality(lines[n])
      BY <1>2, FS_CardinalityType
    <2>3. QED
      BY <1>2, <1>5, <2>1, <2>2
  <1>7. FilesTypeOK'
    BY <1>1, <1>4, <1>5, <1>6 DEF FilesInv, FilesTypeOK, WriterOK
  <1>8. ASSUME ~overlapped PROVE Tidy'
    <2>0. Tidy
      BY <1>8 DEF FilesInv
    <2>1. ~Rotating(w) /\ \A v \in Writers : Rotating(v)' <=> Rotating(v)
      BY <1>1, <1>4 DEF Rotating, Resting
    <2>2. \A i \in 1..KeepFiles : Hole(i)' <=> Hole(i)
      BY <1>4, <2>1 DEF Hole
    <2>3. \A i \in 0..KeepFiles : FullFile(i) => FullFile(i)'
      <3> SUFFICES ASSUME NEW i \in 0..KeepFiles, FullFile(i) PROVE FullFile(i)'
        OBVIOUS
      <3>1. files[i] \in Inodes
        BY DEF FullFile, FilesInv, FilesTypeOK, Handles, Indices
      <3>2. IsFiniteSet(lines[files[i]]) /\ IsFiniteSet(lines'[files[i]])
            /\ Cardinality(lines'[files[i]]) >= Cardinality(lines[files[i]])
        BY <1>2, <1>6, <3>1
      <3>3. Cardinality(lines[files[i]]) \in Nat /\ Cardinality(lines'[files[i]]) \in Nat
        BY <3>2, FS_CardinalityType
      <3>4. QED
        BY <1>1, <3>2, <3>3, FileAssumption DEF FullFile
    <2>4. \A v \in Writers : Orphan(v)' => Orphan(v)
      BY <1>1, <1>4 DEF Orphan, Resting
    <2>5. Lost' => Lost
      BY <1>1, <2>4 DEF Lost, Orphan
    <2>6. \A i \in 1..KeepFiles : i \in 0..KeepFiles /\ \A m \in 1..i : m \in 1..KeepFiles
      BY FileAssumption
    <2>7. OneRotation' /\ HolesEmpty' /\ LostFull'
      BY <1>1, <2>0, <2>1, <2>2, <2>5 DEF Tidy, OneRotation, HolesEmpty, LostFull
    <2>8. RotatedFull' /\ NoGaps'
      BY <1>1, <2>0, <2>2, <2>3, <2>6 DEF Tidy, RotatedFull, NoGaps
    <2>9. LiveFull'
      BY <2>0, <2>1, <2>3, FileAssumption DEF Tidy, LiveFull
    <2>10. QED
      BY <2>7, <2>8, <2>9 DEF Tidy
  <1>9. QED
    BY <1>1, <1>7, <1>8 DEF FilesInv

\* Init and every step of the telemetry writers keep the invariant.
LEMMA FilesStep == FilesInv /\ [FilesNext]_fileVars => FilesInv'
  <1> SUFFICES ASSUME FilesInv, [FilesNext]_fileVars PROVE FilesInv'
    OBVIOUS
  <1>1. ASSUME NEW w \in Writers, RecordEvent(w) PROVE FilesInv'
    BY <1>1, RecordPreserves DEF RecordEvent
  <1>2. ASSUME NEW w \in Writers, NEW key \in RejectKeys, RecordReject(w, key) PROVE FilesInv'
    BY <1>2, RecordPreserves DEF RecordReject
  <1>3. CASE UNCHANGED fileVars
    BY <1>3 DEF fileVars, FilesInv, FilesTypeOK, Tidy, OneRotation, HolesEmpty, RotatedFull, NoGaps,
                LiveFull, LostFull, Lost, Hole, Orphan, Rotating, FullFile
  <1>4. QED
    BY <1>1, <1>2, <1>3, StatPreserves, ShiftPreserves, SwapPreserves, OpenPreserves, AppendPreserves
    DEF FilesNext

LEMMA FilesInductive == FilesSpec => []FilesInv
  BY FilesInitial, FilesStep, PTL DEF FilesSpec

\* Any number of threads, of files kept and of lines in a file: telemetry lines are lost before
\* keep_files full files have followed them only after two rotations overlapped.
THEOREM EarlyLossIsOverlap == FilesSpec => []EarlyLossOnlyByOverlap
  <1>1. FilesInv => EarlyLossOnlyByOverlap
    <2> SUFFICES ASSUME FilesInv, dropped # {}, ~overlapped, \A w \in Writers : ~Rotating(w),
                        NEW i \in 1..KeepFiles
                 PROVE  files[i] # NoFile /\ Cardinality(lines[files[i]]) >= MaxLines
      BY DEF EarlyLossOnlyByOverlap
    <2>1. files[i] # NoFile
      BY DEF FilesInv, Tidy, LostFull, Lost, Hole
    <2>2. QED
      BY <2>1 DEF FilesInv, Tidy, RotatedFull, FullFile
  <1>2. QED
    BY <1>1, FilesInductive, PTL
-----------------------------------------------------------------------------
(* The pending lookup budget.  Of a fleet that gets worse, the counts go   *)
(* one way each, and the budget is monotone in all four; a pressure that   *)
(* still counts readable endpoints is at least as old as the blindness.    *)

LookupModes == {"conservative", "aggressive", "scavenger"}
Pressures   == [available : Nat, capacity : Nat, limited : Nat, failing : Nat]
Percents    == {3, 5, 18, 25, 28, 45, 60, 100}

\* pressure q is no better than p.
NoBetter(q, p) ==
  /\ q.available <= p.available /\ q.capacity <= p.capacity
  /\ q.limited >= p.limited /\ q.failing >= p.failing

\* A set of endpoints serves finitely many reads, and a subset no more of them.
LEMMA SlotsMonotone ==
  ASSUME NEW S, NEW T, S \subseteq T, T \subseteq Endpoints
  PROVE  /\ IsFiniteSet(Slots(T)) /\ Cardinality(Slots(S)) \in Nat /\ Cardinality(Slots(T)) \in Nat
         /\ Cardinality(Slots(S)) <= Cardinality(Slots(T))
  <1>1. IsFiniteSet(T)
    BY LookupAssumption, FS_Subset
  <1>2. \A e \in T : IsFiniteSet({e} \X (1..Capacity[e]))
    <2> SUFFICES ASSUME NEW e \in T PROVE IsFiniteSet({e} \X (1..Capacity[e]))
      OBVIOUS
    <2>1. IsFiniteSet({e})
      BY FS_Singleton
    <2>2. Capacity[e] \in Int /\ 1 \in Int
      BY LookupAssumption
    <2>3. IsFiniteSet(1..Capacity[e])
      BY <2>2, FS_Interval
    <2>4. QED
      BY <2>1, <2>3, FS_Product
  <1> DEFINE Parts == {{e} \X (1..Capacity[e]) : e \in T}
  <1>3. IsFiniteSet(Parts)
    <2> DEFINE part == [e \in T |-> {e} \X (1..Capacity[e])]
    <2>1. part \in Surjection(T, Parts)
      BY DEF Surjection
    <2> HIDE DEF part, Parts
    <2>2. QED
      BY <1>1, <2>1, FS_Surjection
  <1>4. \A P \in Parts : IsFiniteSet(P)
    BY <1>2
  <1>5. IsFiniteSet(Slots(T))
    <2> HIDE DEF Parts
    <2>1. IsFiniteSet(UNION Parts)
      BY <1>3, <1>4, FS_UNION
    <2>2. QED
      BY <2>1 DEF Parts, Slots
  <1>6. Slots(S) \subseteq Slots(T)
    BY DEF Slots
  <1>7. QED
    BY <1>5, <1>6, FS_Subset, FS_CardinalityType

\* The counts a fleet snapshot is reduced to.
LEMMA PressureType ==
  ASSUME NEW h
  PROVE  /\ RpcLookupPressure(h) \in Pressures
         /\ Readable(h) = {} => RpcLookupPressure(h).available = 0
         /\ RpcLookupPressure(h).available = 0 => RpcLookupPressure(h).capacity = 0
  <1>1. Readable(h) \subseteq Endpoints /\ Limited(h) \subseteq Endpoints /\ Failing(h) \subseteq Endpoints
    BY DEF Readable, Limited, Failing
  <1>2. IsFiniteSet(Readable(h)) /\ IsFiniteSet(Limited(h)) /\ IsFiniteSet(Failing(h))
    BY <1>1, LookupAssumption, FS_Subset
  <1>3. Cardinality(Readable(h)) \in Nat /\ Cardinality(Limited(h)) \in Nat /\ Cardinality(Failing(h)) \in Nat
    BY <1>2, FS_CardinalityType
  <1>4. Cardinality(Slots(Readable(h))) \in Nat
    BY <1>1, SlotsMonotone
  <1>5. Readable(h) = {} <=> Cardinality(Readable(h)) = 0
    BY <1>2, FS_EmptySet
  <1>6. Readable(h) = {} => Cardinality(Slots(Readable(h))) = 0
    <2>1. Slots({}) = {}
      BY DEF Slots
    <2>2. QED
      BY <2>1, FS_EmptySet
  <1>7. QED
    BY <1>3, <1>4, <1>5, <1>6 DEF RpcLookupPressure, Pressures

\* One endpoint that degrades makes no count better.
LEMMA DegradedPressure ==
  ASSUME NEW h \in [Endpoints -> Healths], NEW e \in Endpoints, NEW to \in Healths \ {"disabled"},
         h[e] # "disabled", Severity(to) > Severity(h[e])
  PROVE  NoBetter(RpcLookupPressure([h EXCEPT ![e] = to]), RpcLookupPressure(h))
  <1> DEFINE g == [h EXCEPT ![e] = to]
  <1>1. /\ \A d \in Endpoints : d # e => g[d] = h[d]
        /\ g[e] = to
    OBVIOUS
  <1>2. /\ to \in {"failing", "cooling", "limited"}
        /\ to = "failing" => h[e] = "ok"
        /\ h[e] # "limited" /\ h[e] \in {"ok", "failing", "cooling"}
    BY DEF Severity, Healths
  <1> HIDE DEF g
  <1>3. /\ Readable(g) \subseteq Readable(h) /\ Readable(h) \subseteq Endpoints
        /\ Limited(h) \subseteq Limited(g) /\ Limited(g) \subseteq Endpoints
        /\ Failing(h) \subseteq Failing(g) /\ Failing(g) \subseteq Endpoints
    BY <1>1, <1>2 DEF Readable, Limited, Failing
  <1>4. IsFiniteSet(Readable(h)) /\ IsFiniteSet(Limited(g)) /\ IsFiniteSet(Failing(g))
    BY <1>3, LookupAssumption, FS_Subset
  <1>5. /\ Cardinality(Readable(g)) <= Cardinality(Readable(h))
        /\ Cardinality(Limited(h)) <= Cardinality(Limited(g))
        /\ Cardinality(Failing(h)) <= Cardinality(Failing(g))
    BY <1>3, <1>4, FS_Subset
  <1>6. Cardinality(Slots(Readable(g))) <= Cardinality(Slots(Readable(h)))
    BY <1>3, SlotsMonotone
  <1>7. /\ Cardinality(Limited(h)) \in Nat /\ Cardinality(Limited(g)) \in Nat
        /\ Cardinality(Failing(h)) \in Nat /\ Cardinality(Failing(g)) \in Nat
    BY <1>3, <1>4, FS_Subset, FS_CardinalityType
  <1>8. NoBetter(RpcLookupPressure(g), RpcLookupPressure(h))
    BY <1>5, <1>6, <1>7 DEF NoBetter, RpcLookupPressure
  <1>9. QED
    BY <1>8 DEF g

\* The multiplier is one of eight, and a worse pressure never raises it.
LEMMA PercentMonotone ==
  ASSUME NEW c \in Nat, NEW p \in Pressures, NEW q \in Pressures, NoBetter(q, p)
  PROVE  /\ PressurePercent(c, p) \in Percents /\ PressurePercent(c, q) \in Percents
         /\ PressurePercent(c, q) <= PressurePercent(c, p)
  <1>1. /\ p.available \in Nat /\ p.limited \in Nat /\ p.failing \in Nat
        /\ q.available \in Nat /\ q.limited \in Nat /\ q.failing \in Nat
        /\ q.available <= p.available /\ q.limited >= p.limited /\ q.failing >= p.failing
    BY DEF Pressures, NoBetter
  <1>2. /\ ConfiguredPercent(p) \in Percents /\ ConfiguredPercent(q) \in Percents
        /\ ConfiguredPercent(q) <= ConfiguredPercent(p)
    BY <1>1 DEF ConfiguredPercent, Percents
  <1>3. /\ UnconfiguredPercent(p) \in Percents /\ UnconfiguredPercent(q) \in Percents
        /\ UnconfiguredPercent(q) <= UnconfiguredPercent(p)
    BY <1>1 DEF UnconfiguredPercent, Percents
  <1>4. QED
    BY <1>2, <1>3 DEF PressurePercent

\* What the fleet can serve bounds the budget, so a worse pressure never raises it either.
LEMMA BaseMonotone ==
  ASSUME NEW mode \in LookupModes, NEW c \in Nat, NEW p \in Pressures, NEW q \in Pressures, NoBetter(q, p)
  PROVE  /\ BaseBudget(mode, c, p) \in Nat /\ BaseBudget(mode, c, q) \in Nat
         /\ BaseBudget(mode, c, q) <= BaseBudget(mode, c, p)
         /\ p.capacity = 0 => BaseBudget(mode, c, p) <= 10
  <1> DEFINE wish == IF c = Unset THEN Base(mode) ELSE Clamped(c, 1, 1000)
  <1>1. wish \in Nat /\ CapFloor(mode) \in Nat /\ CapFloor(mode) <= 10
    BY DEF Base, CapFloor, Clamped, LookupModes
  <1>2. p.capacity \in Nat /\ q.capacity \in Nat /\ q.capacity <= p.capacity
    BY DEF Pressures, NoBetter
  <1>3. /\ BaseBudget(mode, c, p) = Lesser(wish, Greater(p.capacity, CapFloor(mode)))
        /\ BaseBudget(mode, c, q) = Lesser(wish, Greater(q.capacity, CapFloor(mode)))
    BY DEF BaseBudget
  <1> HIDE DEF wish
  <1>4. QED
    BY <1>1, <1>2, <1>3 DEF Lesser, Greater

\* effective_pending_lookup_budget_for_mode falls with the health of the fleet.
LEMMA BudgetMonotone ==
  ASSUME NEW mode \in LookupModes, NEW c \in Nat, NEW p \in Pressures, NEW q \in Pressures, NoBetter(q, p)
  PROVE  EffectiveBudget(mode, c, q) <= EffectiveBudget(mode, c, p)
  <1> DEFINE b == BaseBudget(mode, c, q)
             d == BaseBudget(mode, c, p)
             m == PressurePercent(c, q)
             n == PressurePercent(c, p)
  <1>1. b \in Nat /\ d \in Nat /\ b <= d
    BY BaseMonotone
  <1>2. m \in Percents /\ n \in Percents /\ m <= n
    BY PercentMonotone
  <1>3. BudgetFloor(q) \in Nat /\ BudgetFloor(p) \in Nat /\ BudgetFloor(q) <= BudgetFloor(p)
    BY DEF BudgetFloor, NoBetter, Pressures
  <1>4. /\ EffectiveBudget(mode, c, q) = Greater((b * m + 50) \div 100, BudgetFloor(q))
        /\ EffectiveBudget(mode, c, p) = Greater((d * n + 50) \div 100, BudgetFloor(p))
    BY DEF EffectiveBudget
  <1> HIDE DEF b, d, m, n
  <1>5. m \in Nat /\ n \in Nat
    BY <1>2 DEF Percents
  <1>6. b * m \in Nat /\ d * n \in Nat /\ b * m <= d * n
    <2>1. b * m <= d * m
      BY <1>1, <1>5
    <2>2. d * m <= d * n
      BY <1>1, <1>2, <1>5
    <2>3. b * m \in Nat /\ d * m \in Nat /\ d * n \in Nat
      BY <1>1, <1>5
    <2>4. QED
      BY <2>1, <2>2, <2>3
  <1> DEFINE x == b * m
             y == d * n
  <1> HIDE DEF x, y
  <1>7. x \in Nat /\ y \in Nat /\ x <= y
    BY <1>6 DEF x, y
  <1>8. (x + 50) \div 100 <= (y + 50) \div 100 /\ (x + 50) \div 100 \in Nat /\ (y + 50) \div 100 \in Nat
    BY <1>7
  <1>9. QED
    BY <1>3, <1>4, <1>8 DEF Greater, x, y
LookupTypeOK ==
  /\ health \in [Endpoints -> Healths]
  /\ pressure \in Pressures
  /\ pressureAge \in Nat /\ windowAge \in Nat /\ accepted \in Nat /\ blind \in Nat
  /\ limits \in [mode : LookupModes, configured : Nat]

\* The counts of a pressure agree, blindness is what it says, and a pressure with readable
\* endpoints in it was read before the runtime went blind.
BlindInv ==
  /\ LookupTypeOK
  /\ blind <= RefreshTicks
  /\ Readable(health) # {} => blind = 0
  /\ pressure.available = 0 => pressure.capacity = 0
  /\ pressure.available # 0 => pressureAge >= blind

LEMMA LookupInitial == LookupInit => BlindInv
  BY LookupAssumption
  DEF LookupInit, BlindInv, LookupTypeOK, DefaultPressure, Pressures, Healths, LookupModes, Unset

\* The pressure should_enqueue works with; a runtime blind for long enough knows it.
LEMMA CurrentPressureType ==
  ASSUME BlindInv
  PROVE  /\ CurrentPressure \in Pressures
         /\ CurrentPressure.available = 0 => CurrentPressure.capacity = 0
         /\ blind >= RefreshTicks => CurrentPressure.available = 0
  <1>1. CASE pressureAge >= RefreshTicks
    <2>1. CurrentPressure = RpcLookupPressure(health)
      BY <1>1 DEF CurrentPressure
    <2>2. blind >= RefreshTicks => Readable(health) = {}
      BY LookupAssumption DEF BlindInv, LookupTypeOK
    <2>3. QED
      BY <2>1, <2>2, PressureType
  <1>2. CASE ~(pressureAge >= RefreshTicks)
    <2>1. CurrentPressure = pressure
      BY <1>2 DEF CurrentPressure
    <2>2. QED
      BY <1>2, <2>1, LookupAssumption DEF BlindInv, LookupTypeOK
  <1>3. QED
    BY <1>1, <1>2

LEMMA LookupStep == BlindInv /\ [LookupNext]_lookupVars => BlindInv'
  <1> SUFFICES ASSUME BlindInv, [LookupNext]_lookupVars PROVE BlindInv'
    OBVIOUS
  <1>1. ASSUME NEW full \in BOOLEAN, ShouldEnqueue(full) PROVE BlindInv'
    <2>2. CurrentWindow \in Nat
      BY DEF CurrentWindow, BlindInv, LookupTypeOK
    <2>1. /\ pressure' = CurrentPressure /\ UNCHANGED <<health, blind, limits>>
          /\ accepted' = CurrentWindow \/ accepted' = CurrentWindow + 1
          /\ windowAge' = 0 \/ windowAge' = windowAge
          /\ pressureAge' = IF pressureAge >= RefreshTicks THEN 0 ELSE pressureAge
      BY <1>1, <2>2 DEF ShouldEnqueue
    <2>3. LookupTypeOK'
      BY <2>1, <2>2, CurrentPressureType DEF BlindInv, LookupTypeOK
    <2>4. pressure'.available # 0 => pressureAge' >= blind'
      <3>1. CASE pressureAge >= RefreshTicks
        <4>1. pressure' = RpcLookupPressure(health)
          BY <2>1, <3>1 DEF CurrentPressure
        <4>2. pressure'.available # 0 => blind = 0
          BY <4>1, PressureType DEF BlindInv
        <4>3. QED
          BY <2>1, <2>3, <4>2 DEF LookupTypeOK
      <3>2. CASE ~(pressureAge >= RefreshTicks)
        BY <2>1, <3>2 DEF CurrentPressure, BlindInv
      <3>3. QED
        BY <3>1, <3>2
    <2>5. QED
      BY <2>1, <2>3, <2>4, CurrentPressureType DEF BlindInv, Readable
  <1>2. CASE LookupTick
    BY <1>2, LookupAssumption DEF LookupTick, BlindInv, LookupTypeOK, Lesser, Readable
  <1>3. ASSUME NEW e \in Endpoints, NEW h \in Healths, EndpointChanges(e, h) PROVE BlindInv'
    <2>1. /\ health' = [health EXCEPT ![e] = h]
          /\ blind' = IF Readable(health') = {} THEN blind ELSE 0
          /\ UNCHANGED <<pressure, pressureAge, windowAge, accepted, limits>>
      BY <1>3 DEF EndpointChanges
    <2>2. health' \in [Endpoints -> Healths]
      BY <2>1 DEF BlindInv, LookupTypeOK
    <2>3. blind' \in Nat /\ blind' <= blind /\ blind' <= RefreshTicks
      BY <2>1, LookupAssumption DEF BlindInv, LookupTypeOK
    <2>4. (Readable(health) # {} => blind = 0)'
      BY <2>1 DEF Readable
    <2>5. pressure'.available # 0 => pressureAge' >= blind'
      BY <2>1, <2>3 DEF BlindInv, LookupTypeOK
    <2>6. LookupTypeOK'
      BY <2>1, <2>2, <2>3 DEF BlindInv, LookupTypeOK
    <2>7. QED
      BY <2>1, <2>3, <2>4, <2>5, <2>6 DEF BlindInv
  <1>4. ASSUME NEW mode \in Modes, ModeSwitch(mode) PROVE BlindInv'
    BY <1>4, LookupAssumption DEF ModeSwitch, BlindInv, LookupTypeOK, LookupModes, Readable
  <1>5. ASSUME NEW c \in Configured \cup {Unset}, LookupRestart(c) PROVE BlindInv'
    BY <1>5, LookupAssumption DEF LookupRestart, BlindInv, LookupTypeOK, DefaultPressure, Pressures, Unset, Readable
  <1>6. CASE UNCHANGED lookupVars
    BY <1>6 DEF lookupVars, BlindInv, LookupTypeOK, Readable
  <1>7. QED
    BY <1>1, <1>2, <1>3, <1>4, <1>5, <1>6 DEF LookupNext

LEMMA LookupInductive == LookupSpec => []BlindInv
  BY LookupInitial, LookupStep, PTL DEF LookupSpec

\* should_enqueue, for any fleet, capacities, modes and limits: a step in which an endpoint
\* degrades raises no budget, and a runtime blind for longer than the pressure may be old accepts
\* no more than four lookups in a window.
THEOREM BudgetFollows == LookupSpec => BudgetFollowsHealth
  <1> DEFINE Falls == \A e \in Endpoints :
               health[e] # "disabled" /\ health'[e] # "disabled" /\ Severity(health'[e]) > Severity(health[e])
                 => \A mode \in Modes, c \in Configured \cup {Unset} :
                      EffectiveBudget(mode, c, RpcLookupPressure(health'))
                        <= EffectiveBudget(mode, c, RpcLookupPressure(health))
             Sheds == blind >= RefreshTicks /\ accepted' > accepted => accepted' <= 4
  <1>1. BlindInv /\ [LookupNext]_lookupVars => [Falls]_health
    <2> SUFFICES ASSUME BlindInv, LookupNext, health' # health, NEW e \in Endpoints,
                        health[e] # "disabled", health'[e] # "disabled",
                        Severity(health'[e]) > Severity(health[e]),
                        NEW mode \in Modes, NEW c \in Configured \cup {Unset}
                 PROVE  EffectiveBudget(mode, c, RpcLookupPressure(health'))
                          <= EffectiveBudget(mode, c, RpcLookupPressure(health))
      BY DEF lookupVars
    <2>1. PICK d \in Endpoints, to \in Healths : health' = [health EXCEPT ![d] = to]
      BY DEF LookupNext, ShouldEnqueue, LookupTick, EndpointChanges, ModeSwitch, LookupRestart
    <2>2. health \in [Endpoints -> Healths]
      BY DEF BlindInv, LookupTypeOK
    <2>3. \A h \in Healths \ {"disabled"} : Severity(h) \in Nat
      BY DEF Healths, Severity
    <2>4. e = d
      <3>1. ASSUME e # d PROVE FALSE
        <4>1. health'[e] = health[e] /\ health[e] \in Healths \ {"disabled"}
          BY <2>1, <2>2, <3>1
        <4>2. QED
          BY <2>3, <4>1
      <3>2. QED
        BY <3>1
    <2>5. health'[e] = to /\ to \in Healths \ {"disabled"}
      BY <2>1, <2>2, <2>4
    <2>6. NoBetter(RpcLookupPressure(health'), RpcLookupPressure(health))
      BY <2>1, <2>2, <2>4, <2>5, DegradedPressure
    <2>7. mode \in LookupModes /\ c \in Nat
      BY LookupAssumption DEF LookupModes, Unset
    <2>8. QED
      BY <2>6, <2>7, PressureType, BudgetMonotone
  <1>2. BlindInv /\ [LookupNext]_lookupVars => [Sheds]_lookupVars
    <2> SUFFICES ASSUME BlindInv, LookupNext, blind >= RefreshTicks, accepted' > accepted
                 PROVE  accepted' <= 4
      OBVIOUS
    <2>0. accepted \in Nat
      BY DEF BlindInv, LookupTypeOK
    <2>1. PICK full \in BOOLEAN : ShouldEnqueue(full)
      BY <2>0 DEF LookupNext, LookupTick, EndpointChanges, ModeSwitch, LookupRestart
    <2>2. CurrentWindow \in Nat /\ CurrentWindow <= accepted
      BY <2>0 DEF CurrentWindow
    <2>3. accepted' = CurrentWindow + 1 /\ CurrentWindow < Budget
      BY <2>0, <2>1, <2>2 DEF ShouldEnqueue
    <2> DEFINE p == CurrentPressure
               mode == limits.mode
               c == limits.configured
    <2>4. p \in Pressures /\ p.available = 0 /\ p.capacity = 0 /\ mode \in LookupModes /\ c \in Nat
      BY CurrentPressureType DEF BlindInv, LookupTypeOK
    <2>5. Budget = EffectiveBudget(mode, c, p)
      BY DEF Budget
    <2> HIDE DEF p, mode, c
    <2>6. NoBetter(p, p)
      BY <2>4 DEF NoBetter, Pressures
    <2>7. BaseBudget(mode, c, p) \in Nat /\ BaseBudget(mode, c, p) <= 10
      BY <2>4, <2>6, BaseMonotone
    <2>8. PressurePercent(c, p) \in {3, 5} /\ BudgetFloor(p) = 4
      BY <2>4 DEF PressurePercent, ConfiguredPercent, UnconfiguredPercent, BudgetFloor
    <2>9. EffectiveBudget(mode, c, p) = 4
      BY <2>7, <2>8 DEF EffectiveBudget, Greater
    <2>10. QED
      BY <2>2, <2>3, <2>5, <2>9
  <1>3. QED
    BY <1>1, <1>2, LookupInductive, PTL
    DEF LookupSpec, BudgetFollowsHealth, DegradingNeverRaisesBudget, BlindRuntimeSheds

-----------------------------------------------------------------------------
(* The swap decoder.  The state carries what the decoder finds in each     *)
(* call, so the invariance proof is the induction over the nesting; that   *)
(* a first or a best element exists is induction over the natural numbers, *)
(* by the least counterexample.                                            *)

\* Every set of natural numbers with an element has a least one.
LEMMA LeastNat ==
  ASSUME NEW T \in SUBSET Nat, T # {}
  PROVE  \E x \in T : \A y \in T : x <= y
  <1> DEFINE R == OpToRel(<, Nat)
  <1>1. IsWellFoundedOn(R, Nat)
    BY NatLessThanWellFounded, Zenon
  <1>2. \A x, y \in Nat : x < y => <<x, y>> \in R
    BY DEF OpToRel
  <1> HIDE DEF R
  <1>3. PICK x \in T : \A y \in T : ~(<<y, x>> \in R)
    BY <1>1, WFMin
  <1>4. ASSUME NEW y \in T PROVE x <= y
    <2>1. x \in Nat /\ y \in Nat
      OBVIOUS
    <2>2. ~(y < x)
      BY <1>2, <1>3, <2>1
    <2>3. QED
      BY <2>1, <2>2
  <1>5. QED
    BY <1>4

Guesses == {"token_order", "path_partial", "fingerprint", "scan"}
Outer   == {"multicall", "batch", "private_wrapper", "private_searcher"}

\* A signal that says no more than the calldata.
SignalOk(s) ==
  /\ s.confidence \in Nat
  /\ s.source \in Guesses => s.confidence < 99
  /\ s.confidence >= 99 => s.sel \notin Outer
  /\ Found(s) /\ s.unit # "hint" /\ s.source # "graph" => s.unit = s.path[1]

\* A signal decode_relevant_swap lets through in every mode.
Large(s) ==
  /\ s.confidence \in Nat \ {0} /\ Len(s.path) \in Nat /\ Len(s.path) >= 2
  /\ 1 \in DOMAIN s.path /\ s.path # <<>>
  /\ IsMonitored(s.path[1]) /\ Value(s.path[1], s.amount) >= MinLargeSwap
  /\ s.sel = "v2_eth" => s.amount >= MinLargeSwap

CallOk(c) ==
  /\ SignalOk(c.signal) /\ SignalOk(c.scan)
  /\ c.clear => Large(c.signal)
  /\ c.clear /\ c.sel \in ScannedSelectors => Large(c.scan)

\* What a plan's commands decode to.
Candidates ==
  {s \in [sel : {"ur_v2_in", "ur_v2_out", "ur_v3_in", "ur_v3_out"}, path : Seq(Tokens), amount : Nat,
          unit : {k.path[1] : k \in Commands}, confidence : {100}, source : {"router", "graph"}] :
     s.source # "graph" => s.unit = s.path[1]}

PlanOk(p) ==
  /\ p.parts \in [0..SubPlanDepth -> Seq(Candidates)]
  /\ p.graph \in [0..SubPlanDepth -> Seq(Candidates)]

DecoderInv ==
  /\ CallOk(payload) /\ PlanOk(plan)
  /\ IsPlan => payload = RouterCall(plan)

\* Nothing found is no claim.
LEMMA NoSignalOk == SignalOk(NoSignal) /\ ~Found(NoSignal)
  BY DEF SignalOk, NoSignal, Signal, Found, Guesses

\* A large signal has been found.
LEMMA LargeFound ==
  ASSUME NEW s, Large(s)
  PROVE  Found(s)
  BY DEF Large, Found, NoSignal, Signal

\* Taking the first of two signals keeps both claims.
LEMMA OrElseOk ==
  ASSUME NEW s, NEW t, SignalOk(s), SignalOk(t)
  PROVE  SignalOk(OrElse(s, t))
  BY DEF OrElse

\* A wrapper's selector, source and limit keep a signal's claims: the limits are below 99.
LEMMA DowngradedOk ==
  ASSUME NEW s, SignalOk(s), NEW sel, NEW limit \in 1..98, NEW source
  PROVE  SignalOk(Downgraded(s, sel, limit, source))
  <1>1. CASE ~Found(s)
    BY <1>1 DEF Downgraded
  <1>2. CASE Found(s)
    <2> DEFINE c == IF s.confidence < limit THEN s.confidence ELSE limit
               o == IF s.source \in {"token_order", "graph"} THEN s.source ELSE source
               t == Downgraded(s, sel, limit, source)
    <2>1. t = Signal(sel, s.path, s.amount, s.unit, c, o)
      BY <1>2 DEF Downgraded
    <2>2. c \in Nat /\ c < 99
      BY DEF SignalOk
    <2>3. o # "graph" => s.source # "graph"
      OBVIOUS
    <2> HIDE DEF c, o, t
    <2>4. t.confidence = c /\ t.source = o /\ t.unit = s.unit /\ t.path = s.path
      BY <2>1 DEF Signal
    <2>5. QED
      BY <1>2, <2>2, <2>3, <2>4 DEF SignalOk, t
  <1>3. QED
    BY <1>1, <1>2

\* They keep a large signal large.
LEMMA DowngradedLarge ==
  ASSUME NEW s, Large(s), NEW sel, sel # "v2_eth", NEW limit \in 1..98, NEW source
  PROVE  Large(Downgraded(s, sel, limit, source)) /\ Found(Downgraded(s, sel, limit, source))
  <1> DEFINE c == IF s.confidence < limit THEN s.confidence ELSE limit
             o == IF s.source \in {"token_order", "graph"} THEN s.source ELSE source
             t == Downgraded(s, sel, limit, source)
  <1>1. t = Signal(sel, s.path, s.amount, s.unit, c, o)
    BY LargeFound DEF Downgraded
  <1>2. c \in Nat \ {0}
    BY DEF Large
  <1> HIDE DEF c, o, t
  <1>3. t.confidence = c /\ t.path = s.path /\ t.amount = s.amount /\ t.sel = sel
    BY <1>1 DEF Signal
  <1>4. Large(t)
    BY <1>2, <1>3 DEF Large
  <1>5. QED
    BY <1>4, LargeFound DEF t
\* The first decoded signal is one of them.
LEMMA FirstDecodedIs ==
  ASSUME NEW n \in Nat, NEW signals, DOMAIN signals = 1..n
  PROVE  \/ FirstDecoded(signals) = NoSignal /\ \A i \in 1..n : ~Found(signals[i])
         \/ \E i \in 1..n : FirstDecoded(signals) = signals[i] /\ Found(signals[i])
  <1> DEFINE found == {i \in DOMAIN signals : Found(signals[i])}
             first == CHOOSE i \in found : \A j \in found : i <= j
  <1>1. CASE found = {}
    BY <1>1 DEF FirstDecoded
  <1>2. CASE found # {}
    <2>1. found \in SUBSET Nat
      OBVIOUS
    <2>2. \E i \in found : \A j \in found : i <= j
      BY <1>2, <2>1, LeastNat
    <2>3. first \in found
      BY <2>2
    <2>4. FirstDecoded(signals) = signals[first]
      BY <1>2 DEF FirstDecoded
    <2> HIDE DEF first
    <2>5. QED
      BY <2>3, <2>4
  <1>3. QED
    BY <1>1, <1>2

\* It keeps the claims of all.
LEMMA FirstDecodedOk ==
  ASSUME NEW n \in Nat, NEW signals, DOMAIN signals = 1..n, \A i \in 1..n : SignalOk(signals[i])
  PROVE  SignalOk(FirstDecoded(signals))
  <1>1. CASE FirstDecoded(signals) = NoSignal
    BY <1>1, NoSignalOk
  <1>2. CASE \E i \in 1..n : FirstDecoded(signals) = signals[i] /\ Found(signals[i])
    BY <1>2
  <1>3. QED
    BY <1>1, <1>2, FirstDecodedIs

\* A swap is not hidden by calls that do not decode.
LEMMA FirstDecodedLarge ==
  ASSUME NEW n \in Nat, NEW signals, DOMAIN signals = 1..n, NEW i \in 1..n, Large(signals[i]),
         \A j \in (1..n) \ {i} : ~Found(signals[j])
  PROVE  Large(FirstDecoded(signals))
  <1>1. Found(signals[i])
    BY LargeFound
  <1>2. PICK j \in 1..n : FirstDecoded(signals) = signals[j] /\ Found(signals[j])
    BY <1>1, FirstDecodedIs
  <1>3. j = i
    BY <1>2
  <1>4. QED
    BY <1>2, <1>3

\* A swap guessed from the tokens is partial.
LEMMA TokenOrderOk ==
  ASSUME NEW c, NEW confidence \in 1..98
  PROVE  SignalOk(TokenOrder(c, confidence))
  <1> DEFINE path == TokenOrderPath(c)
             t == Signal(c.sel, path, c.amount, "hint", confidence, "token_order")
  <1>1. TokenOrder(c, confidence) = NoSignal \/ TokenOrder(c, confidence) = t
    BY DEF TokenOrder
  <1> HIDE DEF path
  <1>2. t.confidence = confidence /\ t.unit = "hint" /\ t.source = "token_order"
    BY DEF Signal
  <1> HIDE DEF t
  <1>3. SignalOk(t)
    BY <1>2 DEF SignalOk
  <1>4. QED
    BY <1>1, <1>3, NoSignalOk

\* So is one read from a layout known in part.
LEMMA AggregatorPathOk ==
  ASSUME NEW c, NEW path, NEW confidence \in 1..98, NEW guess \in 1..98
  PROVE  SignalOk(AggregatorPath(c, path, confidence, guess))
  <1> DEFINE t == Signal(c.sel, path, c.amount, "hint", confidence, "path_partial")
             u == IF c.decodes /\ Len(path) >= 2 /\ NamesMonitored(path) THEN t ELSE NoSignal
  <1>1. t.confidence = confidence /\ t.unit = "hint"
    BY DEF Signal
  <1>2. u = t \/ u = NoSignal
    OBVIOUS
  <1>3. AggregatorPath(c, path, confidence, guess) = OrElse(u, TokenOrder(c, guess))
    BY DEF AggregatorPath
  <1> HIDE DEF t, u
  <1>4. SignalOk(t)
    BY <1>1 DEF SignalOk
  <1>5. SignalOk(u)
    BY <1>2, <1>4, NoSignalOk
  <1>6. SignalOk(TokenOrder(c, guess))
    BY TokenOrderOk
  <1>7. QED
    BY <1>3, <1>5, <1>6, OrElseOk

\* And every guess at a known aggregator or inside a Safe.
LEMMA AggregatorOk ==
  ASSUME NEW c, NEW scan, SignalOk(scan)
  PROVE  SignalOk(KnownAggregator(c, scan)) /\ SignalOk(SafeInnerPartial(c))
  <1>0. 72 \in 1..98 /\ 68 \in 1..98 /\ 62 \in 1..98 /\ 52 \in 1..98 /\ 45 \in 1..98 /\ 35 \in 1..98
    OBVIOUS
  <1>1. ASSUME NEW path
        PROVE  /\ SignalOk(AggregatorPath(c, path, 72, 45)) /\ SignalOk(AggregatorPath(c, path, 68, 52))
               /\ SignalOk(AggregatorPath(c, path, 62, 35))
    BY <1>0, AggregatorPathOk, Zenon
  <1>2. /\ SignalOk(TokenOrder(c, 35)) /\ SignalOk(TokenOrder(c, 42)) /\ SignalOk(TokenOrder(c, 75))
        /\ SignalOk(TokenOrder(c, 55))
    BY TokenOrderOk
  <1>3. SignalOk(Downgraded(scan, c.sel, 62, "fingerprint"))
    BY <1>0, DowngradedOk, Zenon
  <1>4. SignalOk(OrElse(Downgraded(scan, c.sel, 62, "fingerprint"), TokenOrder(c, 42)))
    BY <1>2, <1>3, OrElseOk
  <1>5. SignalOk(KnownAggregator(c, scan))
    BY <1>1, <1>2, <1>4, NoSignalOk DEF KnownAggregator
  <1>6. SignalOk(SafeInnerPartial(c))
    BY <1>2, NoSignalOk DEF SafeInnerPartial
  <1>7. QED
    BY <1>5, <1>6

\* The confidence of an exact decode.
LEMMA ExactConfidenceIs ==
  \A sel \in ExactSelectors : ExactConfidence[sel] \in 1..100 /\ sel \notin Outer
  BY DEF ExactSelectors, ExactConfidence, Outer

\* A leaf whose arguments decode says what it does.
LEMMA ExactOk ==
  ASSUME NEW c \in Leaves, c.sel \in ExactSelectors
  PROVE  /\ SignalOk(DecodeExact(c))
         /\ Worth(c) => Large(DecodeExact(c)) /\ NamesMonitored(DecodeExact(c).path)
  <1>1. /\ c.path \in Seq(Tokens) /\ c.amount \in Nat /\ MinLargeSwap \in Nat
        /\ c.decodes /\ c.sel \in V3Selectors => Len(c.path) >= 2
    BY DecoderAssumption
  <1>2. CASE ~c.decodes
    BY <1>2, NoSignalOk DEF DecodeExact, Worth
  <1>3. CASE c.decodes
    <2> DEFINE path == IF c.sel \in V3Selectors THEN FirstHop(c.path) ELSE c.path
               f == ExactConfidence[c.sel]
               t == DecodeExact(c)
    <2>1. t = Signal(c.sel, path, c.amount, c.path[1], f, "abi")
      BY <1>3 DEF DecodeExact
    <2>2. f \in 1..100 /\ c.sel \notin Outer
      BY ExactConfidenceIs
    <2>3. path[1] = c.path[1]
      BY DEF FirstHop
    <2>4. Len(c.path) >= 2 => Len(path) \in Nat /\ Len(path) >= 2 /\ 1 \in DOMAIN path /\ path # <<>>
      BY <1>1 DEF FirstHop
    <2> HIDE DEF path, f, t
    <2>5. t.sel = c.sel /\ t.path = path /\ t.amount = c.amount /\ t.unit = c.path[1] /\ t.confidence = f /\ t.source = "abi"
      BY <2>1 DEF Signal
    <2>6. SignalOk(t)
      BY <2>2, <2>3, <2>5 DEF SignalOk, Guesses
    <2>7. Worth(c) => Large(t) /\ NamesMonitored(t.path)
      <3>1. SUFFICES ASSUME Worth(c) PROVE Large(t) /\ NamesMonitored(t.path)
        OBVIOUS
      <3>2. /\ Len(c.path) >= 2 /\ IsMonitored(c.path[1]) /\ Value(c.path[1], c.amount) >= MinLargeSwap
            /\ c.sel = "v2_eth" => c.amount >= MinLargeSwap
        BY <3>1 DEF Worth
      <3>3. Len(path) \in Nat /\ Len(path) >= 2 /\ 1 \in DOMAIN path /\ path # <<>> /\ IsMonitored(path[1])
        BY <2>3, <2>4, <3>2
      <3>4. f \in Nat \ {0}
        BY <2>2
      <3>5. QED
        BY <2>3, <2>5, <3>2, <3>3, <3>4 DEF Large, NamesMonitored
    <2>8. QED
      BY <2>6, <2>7 DEF t
  <1>4. QED
    BY <1>1, <1>2, <1>3, DecoderAssumption

\* The four selectors scanned for are exact ones.
LEMMA ScannedAreExact == ScannedSelectors \subseteq ExactSelectors
  BY DEF ScannedSelectors, ExactSelectors, ExactConfidence

\* A leaf is a call that keeps the claims.
LEMMA LeafOk ==
  ASSUME NEW l \in Leaves
  PROVE  CallOk(LeafCall(l)) /\ LeafCall(l).sel # "router"
  <1> DEFINE c == LeafCall(l)
  <1>1. c.sel = l.sel /\ c.signal = DecodeLeaf(l) /\ c.scan = LeafScan(l) /\ c.clear = Worth(l)
    BY DEF LeafCall, Call
  <1> HIDE DEF c
  <1>2. l.sel # "router"
    BY DecoderAssumption
  <1>3. SignalOk(DecodeLeaf(l))
    BY ExactOk, AggregatorOk, NoSignalOk DEF DecodeLeaf
  <1>4. SignalOk(LeafScan(l))
    BY ExactOk, ScannedAreExact, NoSignalOk DEF LeafScan
  <1>5. Worth(l) => Large(DecodeLeaf(l))
    BY ExactOk DEF Worth, DecodeLeaf
  <1>6. Worth(l) /\ l.sel \in ScannedSelectors => Large(LeafScan(l))
    BY ExactOk, ScannedAreExact DEF LeafScan
  <1>7. QED
    BY <1>1, <1>2, <1>3, <1>4, <1>5, <1>6 DEF CallOk, c
-----------------------------------------------------------------------------
\* A command decodes to a candidate or to nothing.
LEMMA CommandIsCandidate ==
  ASSUME NEW k \in Commands, Found(DecodeCommand(k))
  PROVE  DecodeCommand(k) \in Candidates
  <1>1. k.path \in Seq(Tokens) /\ k.amount \in Nat /\ k.path[1] \in {q.path[1] : q \in Commands}
    BY DecoderAssumption
  <1> DEFINE t == Signal(k.sel, k.path, k.amount, k.path[1], 100, "router")
             u == Signal(k.sel, FirstHop(k.path), k.amount, k.path[1], 100, "router")
  <1>2. \/ DecodeCommand(k) = t /\ k.sel \in {"ur_v2_in", "ur_v2_out", "ur_v3_in", "ur_v3_out"}
        \/ DecodeCommand(k) = u /\ k.sel = "ur_v3_in" /\ Len(k.path) >= 2
    BY Zenon DEF DecodeCommand, Found
  <1>3. k.sel \in {"ur_v2_in", "ur_v2_out", "ur_v3_in", "ur_v3_out"} => t \in Candidates
    BY <1>1 DEF Candidates, Signal
  <1>4. k.sel = "ur_v3_in" /\ Len(k.path) >= 2 => u \in Candidates
    <2>1. SUFFICES ASSUME k.sel = "ur_v3_in", Len(k.path) >= 2 PROVE u \in Candidates
      OBVIOUS
    <2>2. k.path[1] \in Tokens /\ k.path[2] \in Tokens
      BY <1>1, <2>1
    <2>3. FirstHop(k.path) \in Seq(Tokens) /\ FirstHop(k.path)[1] = k.path[1]
      BY <2>2 DEF FirstHop
    <2>4. QED
      BY <1>1, <2>1, <2>3 DEF Candidates, Signal
  <1>5. QED
    BY <1>2, <1>3, <1>4

\* The hops of a command are candidates.
LEMMA HopsAreCandidates ==
  ASSUME NEW k \in Commands
  PROVE  Hops(k) \in Seq(Candidates)
  <1>1. k.path \in Seq(Tokens) /\ k.amount \in Nat /\ k.path[1] \in {q.path[1] : q \in Commands}
    BY DecoderAssumption
  <1>2. <<>> \in Seq(Candidates)
    OBVIOUS
  <1>3. CASE /\ k.decodes /\ k.sel \in {"ur_v2_in", "ur_v2_out", "ur_v3_in", "ur_v3_out"}
             /\ k.amount > 0 /\ Len(k.path) >= 2
    <2> DEFINE n == Len(k.path) - 1
               Hop(i) == Signal(k.sel, <<k.path[i], k.path[i + 1]>>, k.amount, k.path[1], 100,
                                IF i = 1 THEN "router" ELSE "graph")
    <2>1. n \in Nat
      BY <1>1, <1>3
    <2>2. ASSUME NEW i \in 1..n PROVE Hop(i) \in Candidates
      <3>1. k.path[i] \in Tokens /\ k.path[i + 1] \in Tokens
        BY <1>1, <2>1, <2>2
      <3> DEFINE pair == <<k.path[i], k.path[i + 1]>>
                 o == IF i = 1 THEN "router" ELSE "graph"
      <3>2. pair \in Seq(Tokens) /\ pair[1] = k.path[i] /\ (o # "graph" => i = 1) /\ o \in {"router", "graph"}
        BY <3>1
      <3> HIDE DEF pair, o
      <3>3. Signal(k.sel, pair, k.amount, k.path[1], 100, o) \in Candidates
        BY <1>1, <1>3, <3>2 DEF Candidates, Signal
      <3>4. QED
        BY <3>3 DEF pair, o
    <2>3. Hops(k) = [i \in 1..n |-> Hop(i)]
      BY <1>3 DEF Hops
    <2> HIDE DEF n, Hop
    <2>4. QED
      BY <2>1, <2>2, <2>3
  <1>4. CASE ~(/\ k.decodes /\ k.sel \in {"ur_v2_in", "ur_v2_out", "ur_v3_in", "ur_v3_out"}
               /\ k.amount > 0 /\ Len(k.path) >= 2)
    BY <1>2, <1>4 DEF Hops
  <1>5. QED
    BY <1>3, <1>4

\* A command added to a plan, and a plan nested one deeper, leave it a plan.
LEMMA PlansOk ==
  /\ PlanOk(EmptyPlan)
  /\ \A p, k : PlanOk(p) /\ k \in Commands => PlanOk(WithCommand(p, k))
  /\ \A p : PlanOk(p) => PlanOk(AsSubPlan(p))
  <1>1. PlanOk(EmptyPlan)
    BY DEF PlanOk, EmptyPlan
  <1>2. ASSUME NEW p, NEW k \in Commands, PlanOk(p) PROVE PlanOk(WithCommand(p, k))
    <2> DEFINE part == IF Found(DecodeCommand(k)) THEN <<DecodeCommand(k)>> ELSE <<>>
               w == WithCommand(p, k)
    <2>1. part \in Seq(Candidates)
      BY CommandIsCandidate
    <2>2. Hops(k) \in Seq(Candidates)
      BY HopsAreCandidates
    <2>3. /\ w.parts = [depth \in 0..SubPlanDepth |-> p.parts[depth] \o part]
          /\ w.graph = [depth \in 0..SubPlanDepth |-> p.graph[depth] \o Hops(k)]
      BY DEF WithCommand
    <2> HIDE DEF part, w
    <2>4. \A depth \in 0..SubPlanDepth :
            p.parts[depth] \o part \in Seq(Candidates) /\ p.graph[depth] \o Hops(k) \in Seq(Candidates)
      <3>1. SUFFICES ASSUME NEW depth \in 0..SubPlanDepth
                     PROVE  p.parts[depth] \o part \in Seq(Candidates) /\ p.graph[depth] \o Hops(k) \in Seq(Candidates)
        OBVIOUS
      <3>2. p.parts[depth] \in Seq(Candidates) /\ p.graph[depth] \in Seq(Candidates)
        BY <1>2 DEF PlanOk
      <3>3. \A x, y \in Seq(Candidates) : x \o y \in Seq(Candidates)
        OBVIOUS
      <3>4. QED
        BY <2>1, <2>2, <3>2, <3>3
    <2>5. PlanOk(w)
      BY <2>3, <2>4 DEF PlanOk
    <2>6. QED
      BY <2>5 DEF w
  <1>3. ASSUME NEW p, PlanOk(p) PROVE PlanOk(AsSubPlan(p))
    BY <1>3 DEF PlanOk, AsSubPlan, SubPlanDepth
  <1>4. QED
    BY <1>1, <1>2, <1>3

\* A price makes a number of a number.
LEMMA ValueIsNat ==
  ASSUME NEW t \in Tokens, NEW amount \in Nat
  PROVE  Value(t, amount) \in Nat
  <1> DEFINE p == PriceEth[t]
             f == DecimalsFactor[t]
             a == amount * p
  <1>1. p \in Nat /\ f \in Nat /\ f > 0
    BY DecoderAssumption
  <1> HIDE DEF p, f
  <1>2. a \in Nat
    BY <1>1
  <1> HIDE DEF a
  <1>3. a \div f \in Nat
    BY <1>1, <1>2
  <1>4. QED
    BY <1>3 DEF Value, a, p, f

\* A candidate's rank is three numbers.
LEMMA CandidateRank ==
  ASSUME NEW s \in Candidates
  PROVE  /\ Notional(s) \in Nat /\ ExactIn(s) \in Nat /\ Len(s.path) \in Nat
         /\ Found(s) /\ SignalOk(s) /\ (~Priced(s) => Notional(s) = 0)
  <1>1. s.path \in Seq(Tokens) /\ s.amount \in Nat /\ s.confidence = 100 /\ s.source \in {"router", "graph"}
        /\ s.sel \in {"ur_v2_in", "ur_v2_out", "ur_v3_in", "ur_v3_out"}
        /\ (s.source # "graph" => s.unit = s.path[1])
    BY DEF Candidates
  <1>2. s.sel # "v2_eth"
    BY <1>1
  <1>8. Notional(s) \in Nat /\ (~Priced(s) => Notional(s) = 0)
    <2>1. CASE Priced(s)
      <3> DEFINE t == s.path[1]
      <3>1. t \in Tokens
        BY <1>1, <1>2, <2>1 DEF Priced
      <3>2. Notional(s) = Value(t, s.amount)
        BY <1>2, <2>1 DEF Notional
      <3> HIDE DEF t
      <3>3. QED
        BY <1>1, <2>1, <3>1, <3>2, ValueIsNat
    <2>2. CASE ~Priced(s)
      BY <1>2, <2>2 DEF Notional
    <2>3. QED
      BY <2>1, <2>2
  <1>3. ExactIn(s) \in Nat
    BY DEF ExactIn
  <1>4. Len(s.path) \in Nat
    BY <1>1
  <1>5. Found(s)
    BY <1>1 DEF Found, NoSignal, Signal
  <1>6. SignalOk(s)
    BY <1>1 DEF SignalOk, Guesses, Outer
  <1>7. QED
    BY <1>3, <1>4, <1>5, <1>6, <1>8

\* The rank is a weak order.
LEMMA OutranksOrder ==
  ASSUME NEW s \in Candidates, NEW t \in Candidates, NEW u \in Candidates
  PROVE  /\ Outranks(s, t) => ~Outranks(t, s)
         /\ Outranks(s, t) => Outranks(s, u) \/ Outranks(u, t)
         /\ ~Outranks(s, t) => Notional(s) <= Notional(t)
         /\ ~Outranks(s, s)
  <1>1. /\ Notional(s) \in Nat /\ ExactIn(s) \in Nat /\ Len(s.path) \in Nat
        /\ Notional(t) \in Nat /\ ExactIn(t) \in Nat /\ Len(t.path) \in Nat
        /\ Notional(u) \in Nat /\ ExactIn(u) \in Nat /\ Len(u.path) \in Nat
    BY CandidateRank
  <1> DEFINE a1 == Notional(s)
             a2 == ExactIn(s)
             a3 == Len(s.path)
             b1 == Notional(t)
             b2 == ExactIn(t)
             b3 == Len(t.path)
             c1 == Notional(u)
             c2 == ExactIn(u)
             c3 == Len(u.path)
             Above(x1, x2, x3, y1, y2, y3) == x1 > y1 \/ (x1 = y1 /\ x2 > y2) \/ (x1 = y1 /\ x2 = y2 /\ x3 < y3)
  <1>2. /\ Outranks(s, t) <=> Above(a1, a2, a3, b1, b2, b3)
        /\ Outranks(t, s) <=> Above(b1, b2, b3, a1, a2, a3)
        /\ Outranks(s, u) <=> Above(a1, a2, a3, c1, c2, c3)
        /\ Outranks(u, t) <=> Above(c1, c2, c3, b1, b2, b3)
        /\ Outranks(s, s) <=> Above(a1, a2, a3, a1, a2, a3)
    BY DEF Outranks
  <1>3. /\ a1 \in Nat /\ a2 \in Nat /\ a3 \in Nat /\ b1 \in Nat /\ b2 \in Nat /\ b3 \in Nat
        /\ c1 \in Nat /\ c2 \in Nat /\ c3 \in Nat
    BY <1>1
  <1> HIDE DEF a1, a2, a3, b1, b2, b3, c1, c2, c3
  <1>4. /\ Above(a1, a2, a3, b1, b2, b3) => ~Above(b1, b2, b3, a1, a2, a3)
        /\ Above(a1, a2, a3, b1, b2, b3) => Above(a1, a2, a3, c1, c2, c3) \/ Above(c1, c2, c3, b1, b2, b3)
        /\ ~Above(a1, a2, a3, b1, b2, b3) => a1 <= b1
        /\ ~Above(a1, a2, a3, a1, a2, a3)
    BY <1>3
  <1> HIDE DEF Above
  <1>5. QED
    BY <1>2, <1>4 DEF a1, b1
PricedIn(q)  == {i \in DOMAIN q : Priced(q[i])}
BestOf(q, n, i) ==
  \A j \in PricedIn(q) : j <= n => ~Outranks(q[j], q[i]) /\ (j > i => Outranks(q[i], q[j]))

\* Among the first n candidates, if one is priced, one outranks all later ones and is outranked by
\* none: the least n without such a candidate would have one.
LEMMA BestExists ==
  ASSUME NEW q \in Seq(Candidates), PricedIn(q) # {}
  PROVE  \E i \in PricedIn(q) : BestOf(q, Len(q), i)
  <1> DEFINE P == PricedIn(q)
             T == {n \in Nat : n <= Len(q) /\ (\E i \in P : i <= n) /\ ~\E i \in P : i <= n /\ BestOf(q, n, i)}
  <1>1. /\ Len(q) \in Nat /\ \A i \in P : i \in Nat /\ i \in 1..Len(q) /\ q[i] \in Candidates
    BY DEF PricedIn
  <1>2. SUFFICES ASSUME T # {} PROVE FALSE
    <2>1. T = {} => ~(Len(q) \in T)
      OBVIOUS
    <2>2. \E i \in P : i <= Len(q)
      BY <1>1
    <2>3. T = {} => \E i \in P : i <= Len(q) /\ BestOf(q, Len(q), i)
      BY <1>1, <2>1, <2>2
    <2>4. QED
      BY <1>2, <2>3
  <1>3. PICK n \in T : \A m \in T : n <= m
    <2>1. T \in SUBSET Nat
      OBVIOUS
    <2> HIDE DEF T
    <2>2. QED
      BY <1>2, <2>1, LeastNat
  <1>4. n \in Nat /\ n <= Len(q) /\ (\E i \in P : i <= n) /\ ~\E i \in P : i <= n /\ BestOf(q, n, i)
    OBVIOUS
  <1>5. n >= 1 /\ n - 1 \in Nat
    BY <1>1, <1>4
  <1>6. n - 1 \notin T
    BY <1>3, <1>4, <1>5
  <1>7. (\E i \in P : i <= n - 1) => \E i \in P : i <= n - 1 /\ BestOf(q, n - 1, i)
    BY <1>1, <1>4, <1>5, <1>6
  <1> HIDE DEF P, T
  <1>8. CASE ~\E i \in P : i <= n - 1
    <2>1. PICK i \in P : i <= n
      BY <1>4
    <2>2. i = n
      BY <1>1, <1>4, <1>5, <1>8, <2>1
    <2>3. ASSUME NEW j \in P, j <= n PROVE ~Outranks(q[j], q[i]) /\ (j > i => Outranks(q[i], q[j]))
      <3>1. j = n
        BY <1>1, <1>4, <1>5, <1>8, <2>3
      <3>2. ~Outranks(q[n], q[n])
        BY <1>1, <2>2, OutranksOrder
      <3>3. QED
        BY <1>4, <2>2, <3>1, <3>2
    <2>4. BestOf(q, n, i)
      BY <2>3 DEF BestOf, P
    <2>5. QED
      BY <1>4, <2>1, <2>4
  <1>9. CASE \E i \in P : i <= n - 1
    <2>1. PICK b \in P : b <= n - 1 /\ BestOf(q, n - 1, b)
      BY <1>7, <1>9
    <2>2. b \in Nat /\ q[b] \in Candidates /\ b <= n
      BY <1>1, <1>4, <2>1
    <2>3. \A j \in P : j <= n - 1 => ~Outranks(q[j], q[b]) /\ (j > b => Outranks(q[b], q[j]))
      BY <2>1 DEF BestOf, P
    <2>4. \A j \in P : j <= n => j <= n - 1 \/ j = n
      BY <1>1, <1>4
    <2>5. CASE n \notin P \/ Outranks(q[b], q[n])
      <3>1. ASSUME NEW j \in P, j <= n PROVE ~Outranks(q[j], q[b]) /\ (j > b => Outranks(q[b], q[j]))
        <4>1. CASE j <= n - 1
          BY <2>3, <4>1
        <4>2. CASE j = n
          <5>1. Outranks(q[b], q[n]) /\ q[n] \in Candidates
            BY <1>1, <2>5, <4>2
          <5>2. ~Outranks(q[n], q[b])
            BY <2>2, <5>1, OutranksOrder
          <5>3. QED
            BY <4>2, <5>1, <5>2
        <4>3. QED
          BY <2>4, <3>1, <4>1, <4>2
      <3>2. BestOf(q, n, b)
        BY <3>1 DEF BestOf, P
      <3>3. QED
        BY <1>4, <2>2, <3>2
    <2>6. CASE n \in P /\ ~Outranks(q[b], q[n])
      <3>1. q[n] \in Candidates
        BY <1>1, <2>6
      <3>2. ASSUME NEW j \in P, j <= n PROVE ~Outranks(q[j], q[n]) /\ (j > n => Outranks(q[n], q[j]))
        <4>1. q[j] \in Candidates /\ j \in Nat
          BY <1>1
        <4>2. ~(j > n)
          BY <1>4, <3>2, <4>1
        <4>3. CASE j <= n - 1
          <5>1. ~Outranks(q[j], q[b])
            BY <2>3, <4>3
          <5>2. Outranks(q[j], q[n]) => Outranks(q[j], q[b]) \/ Outranks(q[b], q[n])
            BY <2>2, <3>1, <4>1, OutranksOrder
          <5>3. QED
            BY <2>6, <4>2, <5>1, <5>2
        <4>4. CASE j = n
          BY <3>1, <4>2, <4>4, OutranksOrder
        <4>5. QED
          BY <2>4, <3>2, <4>3, <4>4
      <3>3. BestOf(q, n, n)
        BY <3>2 DEF BestOf, P
      <3>4. QED
        BY <1>4, <2>6, <3>3
    <2>7. QED
      BY <2>5, <2>6
  <1>10. QED
    BY <1>8, <1>9

\* The candidate taken is one of the sequence, and none has a larger notional.
LEMMA RouterTakesLargest ==
  ASSUME NEW p, PlanOk(p)
  PROVE  /\ SignalOk(DecodeRouter(p))
         /\ \A i \in DOMAIN RouterCandidates(p) : Notional(RouterCandidates(p)[i]) <= Notional(DecodeRouter(p))
  <1> DEFINE q == RouterCandidates(p)
             d == DecodeRouter(p)
             P == PricedIn(q)
             Best(i) == \A j \in P : ~Outranks(q[j], q[i]) /\ (j > i => Outranks(q[i], q[j]))
             first == IF q = <<>> THEN NoSignal ELSE q[1]
  <1>1. q \in Seq(Candidates)
    BY DEF RouterCandidates, PlanOk, SubPlanDepth
  <1>2. \A i \in DOMAIN q : /\ Notional(q[i]) \in Nat /\ Found(q[i]) /\ SignalOk(q[i])
                            /\ (~Priced(q[i]) => Notional(q[i]) = 0)
    BY <1>1, CandidateRank
  <1>3. d = OrElse(BestCandidate(q), first)
    BY DEF DecodeRouter
  <1>4. CASE P = {}
    <2>1. BestCandidate(q) = NoSignal
      BY <1>4 DEF BestCandidate, PricedIn
    <2>2. d = first
      BY <1>3, <2>1, NoSignalOk DEF OrElse
    <2>3. \A i \in DOMAIN q : Notional(q[i]) = 0
      BY <1>2, <1>4 DEF PricedIn
    <2>4. CASE q = <<>>
      BY <2>2, <2>4, NoSignalOk
    <2>5. CASE q # <<>>
      <3>1. 1 \in DOMAIN q /\ d = q[1]
        BY <1>1, <2>2, <2>5
      <3>2. SignalOk(d) /\ Notional(d) = 0
        BY <1>2, <2>3, <3>1
      <3>3. QED
        BY <2>3, <3>2
    <2>6. QED
      BY <2>4, <2>5
  <1>5. CASE P # {}
    <2> DEFINE b == CHOOSE i \in P : Best(i)
    <2>1. BestCandidate(q) = q[b]
      BY <1>5 DEF BestCandidate, PricedIn
    <2>2. \E i \in P : Best(i)
      <3>1. PICK i \in P : BestOf(q, Len(q), i)
        BY <1>1, <1>5, BestExists
      <3>2. \A j \in P : j <= Len(q)
        BY <1>1 DEF PricedIn
      <3>3. Best(i)
        BY <3>1, <3>2 DEF BestOf
      <3>4. QED
        BY <3>3
    <2>3. b \in P /\ Best(b)
      BY <2>2
    <2> HIDE DEF b
    <2>4. b \in DOMAIN q
      BY <2>3 DEF PricedIn
    <2>5. d = q[b]
      BY <1>2, <1>3, <2>1, <2>4 DEF OrElse
    <2>6. ASSUME NEW i \in DOMAIN q PROVE Notional(q[i]) <= Notional(q[b])
      <3>1. CASE Priced(q[i])
        <4>1. ~Outranks(q[i], q[b])
          BY <2>3, <3>1 DEF PricedIn
        <4>2. q[i] \in Candidates /\ q[b] \in Candidates
          BY <1>1, <2>4
        <4>3. QED
          BY <4>1, <4>2, OutranksOrder
      <3>2. CASE ~Priced(q[i])
        BY <1>2, <2>4, <3>2
      <3>3. QED
        BY <3>1, <3>2
    <2>7. QED
      BY <1>2, <2>4, <2>5, <2>6
  <1>6. QED
    BY <1>4, <1>5

\* A router plan is a call that keeps the claims.
LEMMA RouterOk ==
  ASSUME NEW p, PlanOk(p)
  PROVE  CallOk(RouterCall(p)) /\ RouterCall(p).sel = "router" /\ RouterCall(p).signal = DecodeRouter(p)
  <1> DEFINE c == RouterCall(p)
  <1>1. c.sel = "router" /\ c.signal = DecodeRouter(p) /\ c.scan = NoSignal /\ c.clear = FALSE
    BY DEF RouterCall, Call
  <1>2. QED
    BY <1>1, NoSignalOk, RouterTakesLargest DEF CallOk
-----------------------------------------------------------------------------
\* A wrapper around calls that keep the claims keeps them, and hides no swap.
LEMMA WrapperOk ==
  ASSUME NEW n \in Nat \ {0}, NEW calls, DOMAIN calls = 1..n, \A i \in 1..n : CallOk(calls[i]),
         NEW sel \in {"safe", "safe_delegate", "multicall", "batch", "private_wrapper", "private_searcher"},
         sel \in {"safe", "private_wrapper", "private_searcher"} => n = 1
  PROVE  CallOk(Wrapped(sel, calls)) /\ Wrapped(sel, calls).sel # "router"
  <1> DEFINE c == Wrapped(sel, calls)
             scans == [i \in DOMAIN calls |-> calls[i].scan]
             signals == [i \in DOMAIN calls |-> calls[i].signal]
             inner == FirstDecoded(signals)
             scan == FirstDecoded(scans)
             d == DecodeWrapper(sel, calls)
  <1>1. c.sel = sel /\ c.signal = d /\ c.scan = scan /\ c.clear = ClearWrapper(sel, calls)
    BY DEF Wrapped, Call, Scan
  <1>2. /\ DOMAIN scans = 1..n /\ DOMAIN signals = 1..n
        /\ \A i \in 1..n : scans[i] = calls[i].scan /\ signals[i] = calls[i].signal
    OBVIOUS
  <1>3. /\ 1 \in 1..n /\ MulticallLimit \in 1..98 /\ BatchLimit \in 1..98
        /\ 68 \in 1..98 /\ 88 \in 1..98 /\ 58 \in 1..98 /\ 62 \in 1..98
    BY DEF MulticallLimit, BatchLimit
  <1>4. \/ sel = "safe" /\ d = OrElse(calls[1].signal, SafeInnerPartial(calls[1]))
        \/ sel = "safe_delegate" /\ d = NoSignal
        \/ sel = "multicall" /\ d = OrElse(Downgraded(inner, sel, MulticallLimit, "nested"),
                                           Downgraded(scan, sel, 68, "scan"))
        \/ sel = "private_wrapper" /\ d = Downgraded(scan, sel, 88, "nested")
        \/ sel = "batch" /\ d = OrElse(Downgraded(inner, sel, BatchLimit, "nested"),
                                       Downgraded(scan, sel, 58, "scan"))
        \/ sel = "private_searcher" /\ d = KnownAggregator(Bytes(sel, calls), scan)
    BY DEF DecodeWrapper, Scan
  <1> HIDE DEF c, scans, signals, inner, scan, d
  <1>5. SignalOk(inner) /\ SignalOk(scan)
    BY <1>2, FirstDecodedOk DEF CallOk, inner, scan
  <1>6. SignalOk(calls[1].signal)
    BY <1>3 DEF CallOk
  <1>7. \A o : /\ SignalOk(Downgraded(inner, sel, MulticallLimit, o)) /\ SignalOk(Downgraded(inner, sel, BatchLimit, o))
               /\ SignalOk(Downgraded(scan, sel, 68, o)) /\ SignalOk(Downgraded(scan, sel, 88, o))
               /\ SignalOk(Downgraded(scan, sel, 58, o))
    BY <1>3, <1>5, DowngradedOk, Zenon
  <1>8. SignalOk(SafeInnerPartial(calls[1])) /\ SignalOk(KnownAggregator(Bytes(sel, calls), scan))
    BY <1>5, AggregatorOk
  <1>9. SignalOk(d)
    BY <1>4, <1>6, <1>7, <1>8, NoSignalOk, OrElseOk
  <1>10. ASSUME ClearWrapper(sel, calls) PROVE Large(d)
    <2>1. CASE /\ sel \in {"safe", "multicall", "batch"}
               /\ \E i \in DOMAIN calls : calls[i].clear /\ \A j \in DOMAIN calls \ {i} : ~Found(calls[j].signal)
      <3>1. PICK i \in 1..n : calls[i].clear /\ \A j \in (1..n) \ {i} : ~Found(calls[j].signal)
        BY <2>1
      <3>2. Large(calls[i].signal)
        BY <3>1 DEF CallOk
      <3>3. CASE sel = "safe"
        <4>1. i = 1 /\ d = OrElse(calls[1].signal, SafeInnerPartial(calls[1]))
          BY <1>4, <3>3
        <4>2. QED
          BY <3>2, <4>1, LargeFound DEF OrElse
      <3>4. Large(signals[i]) /\ \A j \in (1..n) \ {i} : ~Found(signals[j])
        BY <1>2, <3>1, <3>2
      <3>5. Large(inner)
        BY <1>2, <3>4, FirstDecodedLarge DEF inner
      <3>6. \A o : /\ Large(Downgraded(inner, sel, MulticallLimit, o)) /\ Found(Downgraded(inner, sel, MulticallLimit, o))
                   /\ Large(Downgraded(inner, sel, BatchLimit, o)) /\ Found(Downgraded(inner, sel, BatchLimit, o))
        <4>1. sel # "v2_eth"
          BY <2>1
        <4>2. QED
          BY <1>3, <3>5, <4>1, DowngradedLarge, Zenon
      <3>7. CASE sel \in {"multicall", "batch"}
        BY <1>4, <3>6, <3>7 DEF OrElse
      <3>8. QED
        BY <2>1, <3>3, <3>7
    <2>2. CASE sel \in {"private_wrapper", "private_searcher"} /\ calls[1].clear /\ calls[1].sel \in ScannedSelectors
      <3>1. n = 1 /\ Large(scans[1])
        BY <1>2, <1>3, <2>2 DEF CallOk
      <3>2. Large(scan)
        <4>1. \A j \in (1..n) \ {1} : ~Found(scans[j])
          BY <3>1
        <4>2. QED
          BY <1>2, <1>3, <3>1, <4>1, FirstDecodedLarge DEF scan
      <3>3. \A o : Large(Downgraded(scan, sel, 88, o)) /\ Large(Downgraded(scan, sel, 62, o))
                   /\ Found(Downgraded(scan, sel, 62, o))
        <4>1. sel # "v2_eth"
          BY <2>2
        <4>2. QED
          BY <1>3, <3>2, <4>1, DowngradedLarge, Zenon
      <3>4. CASE sel = "private_wrapper"
        BY <1>4, <3>3, <3>4
      <3>5. CASE sel = "private_searcher"
        <4>1. Bytes(sel, calls).sel = sel
          BY DEF Bytes
        <4>2. d = KnownAggregator(Bytes(sel, calls), scan)
          BY <1>4, <3>5
        <4>3. KnownAggregator(Bytes(sel, calls), scan) =
                OrElse(Downgraded(scan, sel, 62, "fingerprint"), TokenOrder(Bytes(sel, calls), 42))
          BY <3>5, <4>1 DEF KnownAggregator
        <4>4. QED
          BY <3>3, <4>2, <4>3 DEF OrElse
      <3>6. QED
        BY <2>2, <3>4, <3>5
    <2>3. QED
      BY <1>10, <2>1, <2>2 DEF ClearWrapper
  <1>11. sel \notin ScannedSelectors /\ sel # "router"
    BY DEF ScannedSelectors
  <1>12. QED
    BY <1>1, <1>5, <1>9, <1>10, <1>11 DEF CallOk, c
\* Each call that is added to a payload keeps the invariant.
LEMMA DecoderStep ==
  ASSUME DecoderInv, DecoderNext
  PROVE  DecoderInv'
  <1>1. CallOk(payload) /\ PlanOk(plan)
    BY DEF DecoderInv
  <1>2. ASSUME NEW n \in {1, 2}, NEW calls, DOMAIN calls = 1..n, \A i \in 1..n : CallOk(calls[i]),
               NEW sel \in {"safe", "safe_delegate", "multicall", "batch", "private_wrapper", "private_searcher"},
               sel \in {"safe", "private_wrapper", "private_searcher"} => n = 1, WrapAround(sel, calls)
        PROVE  DecoderInv'
    <2>1. n \in Nat \ {0}
      OBVIOUS
    <2>2. payload' = Wrapped(sel, calls) /\ plan' = EmptyPlan
      BY <1>2 DEF WrapAround
    <2>3. CallOk(payload') /\ payload'.sel # "router"
      BY <1>2, <2>1, <2>2, WrapperOk
    <2>4. PlanOk(plan')
      BY <2>2, PlansOk
    <2>5. QED
      BY <2>3, <2>4 DEF DecoderInv, IsPlan, CallOk, PlanOk
  <1>3. ASSUME NEW leaf \in Leaves, StartLeaf(leaf) PROVE DecoderInv'
    <2>1. payload' = LeafCall(leaf) /\ plan' = plan
      BY <1>3 DEF StartLeaf
    <2>2. CallOk(payload') /\ payload'.sel # "router" /\ PlanOk(plan')
      BY <1>1, <2>1, LeafOk
    <2>3. QED
      BY <2>2 DEF DecoderInv, IsPlan, CallOk, PlanOk
  <1>4. ASSUME NEW p, PlanOk(p), plan' = p, payload' = RouterCall(p) PROVE DecoderInv'
    <2>1. CallOk(payload') /\ PlanOk(plan') /\ payload' = RouterCall(plan')
      BY <1>4, RouterOk
    <2>2. QED
      BY <2>1 DEF DecoderInv, CallOk, PlanOk
  <1>5. ASSUME NEW k \in Commands, AddCommand(k) PROVE DecoderInv'
    <2>1. PlanOk(WithCommand(plan, k))
      BY <1>1, PlansOk
    <2>2. plan' = WithCommand(plan, k) /\ payload' = RouterCall(WithCommand(plan, k))
      BY <1>5 DEF AddCommand
    <2>3. QED
      BY <1>4, <2>1, <2>2
  <1>6. ASSUME NestPlan PROVE DecoderInv'
    <2>1. PlanOk(AsSubPlan(plan))
      BY <1>1, PlansOk
    <2>2. plan' = AsSubPlan(plan) /\ payload' = RouterCall(AsSubPlan(plan))
      BY <1>6 DEF NestPlan
    <2>3. QED
      BY <1>4, <2>1, <2>2
  <1>7. ASSUME NEW sel \in {"safe", "safe_delegate", "multicall", "batch", "private_wrapper", "private_searcher"},
               Wrap(sel)
        PROVE  DecoderInv'
    <2> DEFINE calls == <<payload>>
    <2>1. DOMAIN calls = 1..1 /\ \A i \in 1..1 : CallOk(calls[i])
      BY <1>1
    <2>2. WrapAround(sel, calls)
      BY <1>7 DEF Wrap
    <2> HIDE DEF calls
    <2>3. QED
      BY <1>2, <2>1, <2>2
  <1>8. ASSUME NEW sel \in {"multicall", "batch"}, NEW leaf \in Leaves, WrapWith(sel, leaf)
        PROVE  DecoderInv'
    <2> DEFINE before == <<LeafCall(leaf), payload>>
               after  == <<payload, LeafCall(leaf)>>
    <2>1. CallOk(LeafCall(leaf))
      BY LeafOk
    <2>2. DOMAIN before = 1..2 /\ \A i \in 1..2 : CallOk(before[i])
      BY <1>1, <2>1
    <2>3. DOMAIN after = 1..2 /\ \A i \in 1..2 : CallOk(after[i])
      BY <1>1, <2>1
    <2>4. WrapAround(sel, before) \/ WrapAround(sel, after)
      BY <1>8 DEF WrapWith
    <2>5. /\ sel \in {"safe", "safe_delegate", "multicall", "batch", "private_wrapper", "private_searcher"}
          /\ sel \notin {"safe", "private_wrapper", "private_searcher"}
      OBVIOUS
    <2> HIDE DEF before, after
    <2>6. QED
      BY <1>2, <2>2, <2>3, <2>4, <2>5
  <1>9. QED
    BY <1>3, <1>5, <1>6, <1>7, <1>8 DEF DecoderNext

\* What the decoder finds in a payload, whatever it is nested in, keeps the claims.
LEMMA DecoderKeepsInv == DecoderSpec => []DecoderInv
  <1>1. DecoderInit => DecoderInv
    BY PlansOk, RouterOk DEF DecoderInit, DecoderInv
  <1>2. DecoderInv /\ [DecoderNext]_decoderVars => DecoderInv'
    <2>1. CASE DecoderNext
      BY <2>1, DecoderStep
    <2>2. CASE UNCHANGED decoderVars
      BY <2>2 DEF decoderVars, DecoderInv, CallOk, PlanOk, IsPlan
    <2>3. QED
      BY <2>1, <2>2
  <1>3. QED
    BY <1>1, <1>2, PTL DEF DecoderSpec

\* For any leaves, commands and monitored tokens and any depth of nesting, the signal of
\* decode_swap_signal claims no full decode for a guess or from inside a multicall or a batch, its
\* amount is one of its input token unless it says so, and of a router plan's swaps it is the one
\* with the largest notional.
THEOREM DecoderIsFaithful == DecoderSpec => []SignalIsFaithful
  <1>1. DecoderInv => SignalIsFaithful
    <2>1. SUFFICES ASSUME DecoderInv PROVE SignalIsFaithful
      OBVIOUS
    <2>2. SignalOk(payload.signal)
      BY <2>1 DEF DecoderInv, CallOk
    <2>3. GuessStaysPartial
      BY <2>2 DEF GuessStaysPartial, SignalOk, Guesses, Outer
    <2>4. AmountIsOfInputToken
      BY <2>2 DEF AmountIsOfInputToken, SignalOk
    <2>5. RouterPicksLargest
      <3>1. SUFFICES ASSUME IsPlan
                     PROVE  \A i \in DOMAIN RouterCandidates(plan) :
                              Notional(RouterCandidates(plan)[i]) <= Notional(payload.signal)
        BY DEF RouterPicksLargest
      <3>2. PlanOk(plan) /\ payload.signal = DecodeRouter(plan)
        BY <2>1, <3>1, RouterOk DEF DecoderInv
      <3>3. QED
        BY <3>2, RouterTakesLargest
    <2>6. QED
      BY <2>3, <2>4, <2>5 DEF SignalIsFaithful
  <1>2. QED
    BY <1>1, DecoderKeepsInv, PTL

\* A large swap of a monitored token is found in every mode through any number of Safes,
\* multicalls, batches and private wrappers around it, as long as no sibling call decodes.
THEOREM DecoderNestingNeverHides == DecoderSpec => []NestingNeverHides
  <1>1. DecoderInv => NestingNeverHides
    <2>1. SUFFICES ASSUME DecoderInv, payload.clear, NEW mode \in DecoderModes
                   PROVE  Found(DecodeRelevantSwap(payload.signal, mode))
      BY DEF NestingNeverHides
    <2> DEFINE s == payload.signal
    <2>2. Large(s) /\ Found(s)
      BY <2>1, LargeFound DEF DecoderInv, CallOk
    <2> HIDE DEF s
    <2>3. Priced(s) /\ Len(s.path) >= 2 /\ Notional(s) >= MinLargeSwap
      BY <2>2 DEF Large, Priced, Notional
    <2>4. DecodeRelevantSwap(s, mode) = s
      BY <2>2, <2>3 DEF DecodeRelevantSwap
    <2>5. QED
      BY <2>2, <2>4 DEF s
  <1>2. QED
    BY <1>1, DecoderKeepsInv, PTL

=============================================================================
