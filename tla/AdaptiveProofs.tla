-------------------------- MODULE AdaptiveProofs --------------------------
(***************************************************************************)
(* What the adaptive policy promises, for every set of relays, any number  *)
(* of outcomes and whatever latencies and captures they bring.  The rates  *)
(* it averages stay shares of one: each field is a natural number, which   *)
(* the rounded averages keep, and rounding takes a bounded amount from the *)
(* two sums per outcome.  A bad outcome helps neither a rank nor the       *)
(* regime: the three endings of a submission leave room for the rounding   *)
(* of the averages.  A failed relay is not ranked first: what its record   *)
(* costs in the score stays above what a good one's can.                   *)
(***************************************************************************)
EXTENDS AdaptivePolicy, TLAPS

StatsType == [submit : Nat, finalize : Nat, accept : Int, reject : Nat,
              inclusion : Nat, miss : Nat, revert : Nat, capture : Nat]

\* A record after n outcomes of the policy.
Shares(s, n) ==
  /\ s.accept \in Nat
  /\ s.inclusion + s.miss + s.revert <= One
  /\ s.accept + s.reject <= One
  /\ s.accept + s.reject >= 9200 - 2 * n

PolicyInv ==
  /\ outcomes \in Nat
  /\ relayStats \in [Relays -> StatsType]
  /\ \A r \in Relays : Tried(r) => Shares(relayStats[r], outcomes)

\* An average of natural numbers is one, and bounded by its exact value.
LEMMA FastBounds ==
  ASSUME NEW a \in Nat, NEW b \in Nat
  PROVE  /\ Fast(a, b) \in Nat
         /\ 5 * Fast(a, b) <= 4 * a + b
         /\ 5 * Fast(a, b) >= 4 * a + b - 4
  BY DEF Fast

\* The slower average of natural numbers is one.
LEMMA SlowNat ==
  ASSUME NEW a \in Nat, NEW b \in Nat
  PROVE  Slow(a, b) \in Nat
  BY DEF Slow

\* The unit of the rates.
LEMMA OneNat == One \in Nat
  BY DEF One

\* record_submit_success keeps a record's shares.
LEMMA AcceptedKeepsShares ==
  ASSUME NEW s \in StatsType, NEW n \in Nat, Shares(s, n), NEW lat \in Nat
  PROVE  Accepted(s, lat) \in StatsType /\ Shares(Accepted(s, lat), n + 1)
  <1>1. s.accept \in Nat /\ s.submit \in Nat /\ s.reject \in Nat /\ s.miss \in Nat /\ s.revert \in Nat
        /\ s.inclusion \in Nat
    BY DEF Shares, StatsType
  <1> DEFINE sub == Fast(s.submit, lat)
             acc == Fast(s.accept, One)
             rej == Fast(s.reject, 0)
             mis == Fast(s.miss, 0)
             rev == Fast(s.revert, 0)
  <1>2. sub \in Nat
    BY <1>1, FastBounds
  <1>3. acc \in Nat /\ 5 * acc <= 4 * s.accept + One /\ 5 * acc >= 4 * s.accept + One - 4
    BY <1>1, OneNat, FastBounds
  <1>4. rej \in Nat /\ 5 * rej <= 4 * s.reject + 0 /\ 5 * rej >= 4 * s.reject + 0 - 4
    BY <1>1, FastBounds
  <1>5. mis \in Nat /\ 5 * mis <= 4 * s.miss + 0
    BY <1>1, FastBounds
  <1>6. rev \in Nat /\ 5 * rev <= 4 * s.revert + 0
    BY <1>1, FastBounds
  <1>7. Accepted(s, lat) = [s EXCEPT !.submit = sub, !.accept = acc, !.reject = rej, !.miss = mis, !.revert = rev]
    BY DEF Accepted
  <1> HIDE DEF sub, acc, rej, mis, rev
  <1>8. Accepted(s, lat) \in StatsType
    <2>1. acc \in Int
      BY <1>3
    <2>2. QED
      BY <1>2, <2>1, <1>4, <1>5, <1>6, <1>7 DEF StatsType
  <1>9. /\ Accepted(s, lat).accept = acc /\ Accepted(s, lat).reject = rej /\ Accepted(s, lat).inclusion = s.inclusion
        /\ Accepted(s, lat).miss = mis /\ Accepted(s, lat).revert = rev
    BY <1>7 DEF StatsType
  <1>10. s.inclusion + mis + rev <= One
    BY <1>1, <1>5, <1>6, OneNat DEF Shares
  <1>11. acc + rej <= One /\ acc + rej >= 9200 - 2 * (n + 1)
    BY <1>1, <1>3, <1>4 DEF Shares, One
  <1>12. QED
    BY <1>3, <1>8, <1>9, <1>10, <1>11 DEF Shares

\* record_submit_failure keeps a record's shares.
LEMMA RefusedKeepsShares ==
  ASSUME NEW s \in StatsType, NEW n \in Nat, Shares(s, n), NEW lat \in Nat
  PROVE  Refused(s, lat) \in StatsType /\ Shares(Refused(s, lat), n + 1)
  <1>1. s.accept \in Nat /\ s.submit \in Nat /\ s.reject \in Nat
    BY DEF Shares, StatsType
  <1> DEFINE sub == Fast(s.submit, lat)
             acc == Fast(s.accept, 0)
             rej == Fast(s.reject, One)
  <1>2. sub \in Nat
    BY <1>1, FastBounds
  <1>3. acc \in Nat /\ 5 * acc <= 4 * s.accept + 0 /\ 5 * acc >= 4 * s.accept + 0 - 4
    BY <1>1, FastBounds
  <1>4. rej \in Nat /\ 5 * rej <= 4 * s.reject + One /\ 5 * rej >= 4 * s.reject + One - 4
    BY <1>1, OneNat, FastBounds
  <1>5. Refused(s, lat) = [s EXCEPT !.submit = sub, !.accept = acc, !.reject = rej]
    BY DEF Refused
  <1> HIDE DEF sub, acc, rej
  <1>6. Refused(s, lat) \in StatsType
    <2>1. acc \in Int
      BY <1>3
    <2>2. QED
      BY <1>2, <2>1, <1>4, <1>5 DEF StatsType
  <1>7. /\ Refused(s, lat).accept = acc /\ Refused(s, lat).reject = rej /\ Refused(s, lat).inclusion = s.inclusion
        /\ Refused(s, lat).miss = s.miss /\ Refused(s, lat).revert = s.revert
    BY <1>5 DEF StatsType
  <1>8. acc + rej <= One /\ acc + rej >= 9200 - 2 * (n + 1)
    BY <1>1, <1>3, <1>4 DEF Shares, One
  <1>9. QED
    BY <1>3, <1>6, <1>7, <1>8 DEF Shares

\* What happens to a record when a receipt arrives or is given up: exactly one of the three
\* averages moves towards one, the other two towards zero.
LEMMA OutcomeKeepsShares ==
  ASSUME NEW s \in StatsType, NEW n \in Nat, Shares(s, n),
         NEW t \in StatsType, t.accept = s.accept, t.reject = s.reject,
         NEW i \in {0, One}, NEW m \in {0, One}, NEW v \in {0, One}, i + m + v <= One,
         t.inclusion = Fast(s.inclusion, i), t.miss = Fast(s.miss, m), t.revert = Fast(s.revert, v)
  PROVE  Shares(t, n + 1)
  <1>1. s.accept \in Nat /\ s.reject \in Nat /\ s.inclusion \in Nat /\ s.miss \in Nat /\ s.revert \in Nat
    BY DEF Shares, StatsType
  <1>2. i \in Nat /\ m \in Nat /\ v \in Nat
    BY OneNat
  <1>3. t.inclusion \in Nat /\ 5 * t.inclusion <= 4 * s.inclusion + i
    BY <1>1, <1>2, FastBounds
  <1>4. t.miss \in Nat /\ 5 * t.miss <= 4 * s.miss + m
    BY <1>1, <1>2, FastBounds
  <1>5. t.revert \in Nat /\ 5 * t.revert <= 4 * s.revert + v
    BY <1>1, <1>2, FastBounds
  <1>6. s.inclusion + s.miss + s.revert <= One
    BY DEF Shares
  <1>7. t.inclusion + t.miss + t.revert <= One
    BY <1>1, <1>2, <1>3, <1>4, <1>5, <1>6, OneNat
  <1>8. QED
    BY <1>1, <1>7 DEF Shares

\* record_finalization keeps a record's shares.
LEMMA FinalKeepsShares ==
  ASSUME NEW s \in StatsType, NEW n \in Nat, Shares(s, n), NEW success \in BOOLEAN, NEW lat \in Nat, NEW cap \in Nat
  PROVE  Final(s, success, lat, cap) \in StatsType /\ Shares(Final(s, success, lat, cap), n + 1)
  <1> DEFINE i == IF success THEN One ELSE 0
             v == IF success THEN 0 ELSE One
             t == Final(s, success, lat, cap)
  <1>1. /\ s.finalize \in Nat /\ s.inclusion \in Nat /\ s.miss \in Nat /\ s.revert \in Nat /\ s.capture \in Nat
        /\ i \in {0, One} /\ v \in {0, One} /\ i \in Nat /\ v \in Nat /\ 0 \in {0, One} /\ i + 0 + v <= One
    BY DEF StatsType, One
  <1>2. /\ Fast(s.finalize, lat) \in Nat /\ Fast(s.inclusion, i) \in Nat
        /\ Fast(s.miss, 0) \in Nat /\ Fast(s.revert, v) \in Nat
    BY <1>1, FastBounds
  <1>3. Slow(s.capture, cap) \in Nat
    BY <1>1, SlowNat
  <1>4. t = [s EXCEPT !.finalize = Fast(@, lat), !.inclusion = Fast(@, i), !.miss = Fast(@, 0),
                      !.revert = Fast(@, v), !.capture = Slow(@, cap)]
    BY DEF Final
  <1> HIDE DEF i, v, t
  <1>5. t \in StatsType
    BY <1>2, <1>3, <1>4 DEF StatsType
  <1>6. /\ t.accept = s.accept /\ t.reject = s.reject /\ t.inclusion = Fast(s.inclusion, i)
        /\ t.miss = Fast(s.miss, 0) /\ t.revert = Fast(s.revert, v)
    BY <1>4 DEF StatsType
  <1>7. Shares(t, n + 1)
    BY <1>1, <1>5, <1>6, OutcomeKeepsShares
  <1>8. QED
    BY <1>5, <1>7 DEF t

\* record_receipt_timeout keeps a record's shares.
LEMMA TimedOutKeepsShares ==
  ASSUME NEW s \in StatsType, NEW n \in Nat, Shares(s, n), NEW lat \in Nat
  PROVE  TimedOut(s, lat) \in StatsType /\ Shares(TimedOut(s, lat), n + 1)
  <1> DEFINE t == TimedOut(s, lat)
  <1>1. /\ s.finalize \in Nat /\ s.inclusion \in Nat /\ s.miss \in Nat /\ s.revert \in Nat
        /\ One \in Nat /\ 0 \in {0, One} /\ One \in {0, One} /\ 0 + One + 0 <= One
    BY DEF StatsType, One
  <1>2. /\ Fast(s.finalize, lat) \in Nat /\ Fast(s.inclusion, 0) \in Nat
        /\ Fast(s.miss, One) \in Nat /\ Fast(s.revert, 0) \in Nat
    BY <1>1, FastBounds
  <1>3. t = [s EXCEPT !.finalize = Fast(@, lat), !.inclusion = Fast(@, 0),
                      !.miss = Fast(@, One), !.revert = Fast(@, 0)]
    BY DEF TimedOut
  <1> HIDE DEF t
  <1>4. t \in StatsType
    BY <1>2, <1>3 DEF StatsType
  <1>5. /\ t.accept = s.accept /\ t.reject = s.reject /\ t.inclusion = Fast(s.inclusion, 0)
        /\ t.miss = Fast(s.miss, One) /\ t.revert = Fast(s.revert, 0)
    BY <1>3 DEF StatsType
  <1>6. Shares(t, n + 1)
    BY <1>1, <1>4, <1>5, OutcomeKeepsShares
  <1>7. QED
    BY <1>4, <1>6 DEF t
-----------------------------------------------------------------------------
\* The record an outcome starts from: the relay's own, or the built-in one of an untried relay.
LEMMA EntryShares ==
  ASSUME PolicyInv, NEW r \in Relays
  PROVE  Entry(r) \in StatsType /\ Shares(Entry(r), outcomes)
  <1>1. NewStats \in StatsType /\ \A n \in Nat : Shares(NewStats, n)
    BY DEF NewStats, StatsType, Shares, One
  <1>2. QED
    BY <1>1 DEF PolicyInv, Entry

\* A step that gives one relay a record with its shares keeps the invariant.
LEMMA LearnKeepsInv ==
  ASSUME PolicyInv, NEW r \in Relays, NEW own, NEW fleet, Learn(r, own, fleet),
         own \in StatsType, Shares(own, outcomes + 1)
  PROVE  PolicyInv'
  <1>1. outcomes \in Nat /\ outcomes' = outcomes + 1 /\ relayStats' = [relayStats EXCEPT ![r] = own]
    BY DEF Learn, PolicyInv
  <1>2. relayStats' \in [Relays -> StatsType]
    BY <1>1 DEF PolicyInv
  <1>3. ASSUME NEW q \in Relays, Tried(q)'
        PROVE  Shares(relayStats'[q], outcomes')
    <2>1. CASE q = r
      BY <1>1, <2>1 DEF PolicyInv
    <2>2. CASE q # r
      <3>1. relayStats'[q] = relayStats[q]
        BY <1>1, <2>2 DEF PolicyInv
      <3>2. Shares(relayStats[q], outcomes)
        BY <1>3, <3>1 DEF PolicyInv, Tried
      <3>3. relayStats[q] \in StatsType
        BY DEF PolicyInv
      <3>4. QED
        BY <1>1, <3>1, <3>2, <3>3 DEF Shares, StatsType
    <2>3. QED
      BY <2>1, <2>2
  <1>4. outcomes' \in Nat
    BY <1>1
  <1>5. QED
    BY <1>2, <1>3, <1>4 DEF PolicyInv, Tried, Shares

\* One outcome, with its latency, whether it is of the cluster, and its capture.
OutcomeOf(r, lat, here, cap) ==
  \/ SubmitAccepted(r, lat)
  \/ SubmitRefused(r, lat, here)
  \/ Included(r, lat, cap, here)
  \/ Reverted(r, lat, here)
  \/ ReceiptTimeout(r, lat, here)

\* A step of the policy is one outcome.
LEMMA StepIsOutcome ==
  ASSUME PolicyNext
  PROVE  \E r \in Relays, lat \in Nat, here \in BOOLEAN, cap \in Nat : OutcomeOf(r, lat, here, cap)
  <1>1. PICK r \in Relays, lat \in Latencies :
          \/ SubmitAccepted(r, lat)
          \/ \E here \in BOOLEAN :
               \/ SubmitRefused(r, lat, here)
               \/ \E cap \in Captures : Included(r, lat, cap, here)
               \/ Reverted(r, lat, here)
               \/ ReceiptTimeout(r, lat, here)
    BY DEF PolicyNext
  <1>2. lat \in Nat /\ 0 \in Nat /\ \A cap \in Captures : cap \in Nat
    <2>1. Latencies \subseteq Nat /\ Captures \subseteq 0..(One + One \div 4)
      BY PolicyAssumption
    <2>2. QED
      BY <2>1
  <1>3. CASE SubmitAccepted(r, lat)
    BY <1>2, <1>3 DEF OutcomeOf
  <1>4. CASE \E here \in BOOLEAN :
               \/ SubmitRefused(r, lat, here)
               \/ \E cap \in Captures : Included(r, lat, cap, here)
               \/ Reverted(r, lat, here)
               \/ ReceiptTimeout(r, lat, here)
    <2>1. PICK here \in BOOLEAN : \/ SubmitRefused(r, lat, here)
                                  \/ \E cap \in Captures : Included(r, lat, cap, here)
                                  \/ Reverted(r, lat, here)
                                  \/ ReceiptTimeout(r, lat, here)
      BY <1>4
    <2>2. CASE \E cap \in Captures : Included(r, lat, cap, here)
      BY <1>2, <2>2 DEF OutcomeOf
    <2>3. CASE SubmitRefused(r, lat, here) \/ Reverted(r, lat, here) \/ ReceiptTimeout(r, lat, here)
      BY <1>2, <2>3 DEF OutcomeOf
    <2>4. QED
      BY <2>1, <2>2, <2>3
  <1>5. QED
    BY <1>1, <1>3, <1>4

\* Every outcome the engine reports keeps the invariant.
LEMMA StepKeepsInv ==
  ASSUME PolicyInv, PolicyNext
  PROVE  PolicyInv'
  <1>1. PICK r \in Relays, lat \in Nat, here \in BOOLEAN, cap \in Nat : OutcomeOf(r, lat, here, cap)
    BY StepIsOutcome
  <1>2. Entry(r) \in StatsType /\ Shares(Entry(r), outcomes) /\ outcomes \in Nat /\ 0 \in Nat
    BY EntryShares DEF PolicyInv
  <1>3. CASE SubmitAccepted(r, lat)
    BY <1>2, <1>3, AcceptedKeepsShares, LearnKeepsInv DEF SubmitAccepted
  <1>4. CASE SubmitRefused(r, lat, here)
    BY <1>2, <1>4, RefusedKeepsShares, LearnKeepsInv DEF SubmitRefused
  <1>5. CASE Included(r, lat, cap, here)
    <2>1. Final(Entry(r), TRUE, lat, cap) \in StatsType /\ Shares(Final(Entry(r), TRUE, lat, cap), outcomes + 1)
      BY <1>2, FinalKeepsShares
    <2>2. QED
      BY <1>5, <2>1, LearnKeepsInv DEF Included
  <1>6. CASE Reverted(r, lat, here)
    <2>1. Final(Entry(r), FALSE, lat, 0) \in StatsType /\ Shares(Final(Entry(r), FALSE, lat, 0), outcomes + 1)
      BY <1>2, FinalKeepsShares
    <2>2. QED
      BY <1>6, <2>1, LearnKeepsInv DEF Reverted
  <1>7. CASE ReceiptTimeout(r, lat, here)
    BY <1>2, <1>7, TimedOutKeepsShares, LearnKeepsInv DEF ReceiptTimeout
  <1>8. QED
    BY <1>1, <1>3, <1>4, <1>5, <1>6, <1>7 DEF OutcomeOf

\* However submissions, refusals, receipts and timeouts interleave on any number of relays, the
\* inclusion, miss and revert rates of record_* are shares of one, and so are acceptance and refusal.
THEOREM PolicyRatesAreShares == PolicySpec => []RatesAreShares
  <1>1. PolicyInit => PolicyInv
    <2>1. SUFFICES ASSUME PolicyInit PROVE PolicyInv
      OBVIOUS
    <2>2. Untried \in StatsType /\ Untried.accept = -1
      BY DEF Untried, NewStats, StatsType
    <2>3. relayStats \in [Relays -> StatsType] /\ \A r \in Relays : ~Tried(r)
      BY <2>1, <2>2 DEF PolicyInit, Tried
    <2>4. QED
      BY <2>1, <2>3 DEF PolicyInit, PolicyInv
  <1>2. PolicyInv /\ [PolicyNext]_policyVars => PolicyInv'
    <2>1. CASE PolicyNext
      BY <2>1, StepKeepsInv
    <2>2. CASE UNCHANGED policyVars
      BY <2>2 DEF PolicyInv, policyVars, Tried, Shares
    <2>3. QED
      BY <2>1, <2>2
  <1>3. PolicyInv => RatesAreShares
    <2>1. SUFFICES ASSUME PolicyInv, NEW r \in Relays, Tried(r)
                   PROVE  /\ relayStats[r].inclusion + relayStats[r].miss + relayStats[r].revert <= One
                          /\ relayStats[r].accept + relayStats[r].reject \in 9200 - 2 * outcomes .. One
      BY DEF RatesAreShares
    <2>2. relayStats[r] \in StatsType /\ Shares(relayStats[r], outcomes) /\ outcomes \in Nat
      BY <2>1 DEF PolicyInv
    <2>3. QED
      BY <2>2 DEF Shares, StatsType, One
  <1>4. QED
    BY <1>1, <1>2, <1>3, PTL DEF PolicySpec
-----------------------------------------------------------------------------
(***************************************************************************)
(* A bad outcome never helps.  A timeout also lowers the revert rate, and  *)
(* by a fifth rounded up, while it raises the miss rate by a fifth rounded *)
(* down: that the second is never less than the first needs the three      *)
(* shares to leave four units of one free, which every outcome keeps.      *)
(***************************************************************************)
FleetType == [submit : Nat, finalize : Nat, accept : Nat, reject : Nat,
              inclusion : Nat, miss : Nat, revert : Nat, capture : Nat,
              failure : Nat, timeout : Nat]

\* A record whose rates are averages of zeros and ones.
Averaged(s) ==
  /\ s.accept <= One /\ s.reject <= One
  /\ s.inclusion + s.miss + s.revert <= One - 4

FleetOk(f) == f \in FleetType /\ f.failure <= One /\ f.timeout <= One /\ Averaged(f)

HelpInv ==
  /\ PolicyInv
  /\ FleetOk(fleetStats)
  /\ \A r \in Relays : Tried(r) => Averaged(relayStats[r])

\* t is at least as bad a record as s: what it gains on reverts it loses on misses.
NoBetter(t, s) ==
  /\ Overdue(t.submit) >= Overdue(s.submit) /\ Overdue(t.finalize) >= Overdue(s.finalize)
  /\ t.accept <= s.accept /\ t.reject >= s.reject /\ t.inclusion <= s.inclusion
  /\ t.capture = s.capture /\ t.miss >= s.miss /\ t.miss + t.revert >= s.miss + s.revert

IsRecord(s) == s \in StatsType \/ s \in FleetType

\* The fields of a record that an acceptance changes.
LEMMA AcceptedFields ==
  ASSUME NEW s, IsRecord(s), NEW lat
  PROVE  LET t == Accepted(s, lat)
         IN  /\ t.submit = Fast(s.submit, lat) /\ t.finalize = s.finalize
             /\ t.accept = Fast(s.accept, One) /\ t.reject = Fast(s.reject, 0)
             /\ t.inclusion = s.inclusion /\ t.miss = Fast(s.miss, 0) /\ t.revert = Fast(s.revert, 0)
             /\ t.capture = s.capture
  BY DEF IsRecord, StatsType, FleetType, Accepted

\* The fields of a record that a refusal changes.
LEMMA RefusedFields ==
  ASSUME NEW s, IsRecord(s), NEW lat
  PROVE  LET t == Refused(s, lat)
         IN  /\ t.submit = Fast(s.submit, lat) /\ t.finalize = s.finalize
             /\ t.accept = Fast(s.accept, 0) /\ t.reject = Fast(s.reject, One)
             /\ t.inclusion = s.inclusion /\ t.miss = s.miss /\ t.revert = s.revert
             /\ t.capture = s.capture
  BY DEF IsRecord, StatsType, FleetType, Refused

\* The fields of a record that a receipt changes.
LEMMA FinalFields ==
  ASSUME NEW s, IsRecord(s), NEW success \in BOOLEAN, NEW lat, NEW cap
  PROVE  LET t == Final(s, success, lat, cap)
         IN  /\ t.submit = s.submit /\ t.finalize = Fast(s.finalize, lat)
             /\ t.accept = s.accept /\ t.reject = s.reject
             /\ t.inclusion = Fast(s.inclusion, IF success THEN One ELSE 0)
             /\ t.miss = Fast(s.miss, 0)
             /\ t.revert = Fast(s.revert, IF success THEN 0 ELSE One)
             /\ t.capture = Slow(s.capture, cap)
  BY DEF IsRecord, StatsType, FleetType, Final

\* The fields of a record that a timeout changes.
LEMMA TimedOutFields ==
  ASSUME NEW s, IsRecord(s), NEW lat
  PROVE  LET t == TimedOut(s, lat)
         IN  /\ t.submit = s.submit /\ t.finalize = Fast(s.finalize, lat)
             /\ t.accept = s.accept /\ t.reject = s.reject
             /\ t.inclusion = Fast(s.inclusion, 0) /\ t.miss = Fast(s.miss, One)
             /\ t.revert = Fast(s.revert, 0) /\ t.capture = s.capture
  BY DEF IsRecord, StatsType, FleetType, TimedOut

\* An average stays between what it was and its sample.
LEMMA FastBetween ==
  ASSUME NEW a \in Nat, NEW b \in Nat, NEW c \in Nat
  PROVE  /\ a <= c /\ b <= c => Fast(a, b) <= c
         /\ a >= c /\ b >= c => Fast(a, b) >= c
  BY DEF Fast

\* A field of a record is a number.
LEMMA FieldsAreNat ==
  ASSUME NEW s, IsRecord(s), s.accept \in Nat
  PROVE  /\ s.submit \in Nat /\ s.finalize \in Nat /\ s.accept \in Nat /\ s.reject \in Nat
         /\ s.inclusion \in Nat /\ s.miss \in Nat /\ s.revert \in Nat /\ s.capture \in Nat
  BY DEF IsRecord, StatsType, FleetType

\* The three shares, one of which moves towards one and the others towards zero, still leave four
\* units free: a fifth of the slack rounds up.
LEMMA SlackStays ==
  ASSUME NEW i \in Nat, NEW m \in Nat, NEW v \in Nat, i + m + v <= One - 4
  PROVE  /\ i + Fast(m, 0) + Fast(v, 0) <= One - 4
         /\ Fast(i, One) + Fast(m, 0) + Fast(v, 0) <= One - 4
         /\ Fast(i, 0) + Fast(m, One) + Fast(v, 0) <= One - 4
         /\ Fast(i, 0) + Fast(m, 0) + Fast(v, One) <= One - 4
  <1>1. One \in Nat /\ One = 10000
    BY DEF One
  <1>2. /\ Fast(i, 0) \in Nat /\ 5 * Fast(i, 0) <= 4 * i + 0
        /\ Fast(m, 0) \in Nat /\ 5 * Fast(m, 0) <= 4 * m + 0
        /\ Fast(v, 0) \in Nat /\ 5 * Fast(v, 0) <= 4 * v + 0
    BY FastBounds
  <1>3. /\ Fast(i, One) \in Nat /\ 5 * Fast(i, One) <= 4 * i + One
        /\ Fast(m, One) \in Nat /\ 5 * Fast(m, One) <= 4 * m + One
        /\ Fast(v, One) \in Nat /\ 5 * Fast(v, One) <= 4 * v + One
    BY FastBounds, OneNat
  <1>4. QED
    BY <1>1, <1>2, <1>3

\* record_submit_success keeps a record averaged.
LEMMA AcceptedKeepsAveraged ==
  ASSUME NEW s, IsRecord(s), s.accept \in Nat, Averaged(s), NEW lat
  PROVE  Averaged(Accepted(s, lat))
  <1>1. /\ s.submit \in Nat /\ s.accept \in Nat /\ s.reject \in Nat
        /\ s.inclusion \in Nat /\ s.miss \in Nat /\ s.revert \in Nat
    BY FieldsAreNat
  <1>2. One \in Nat /\ 0 <= One /\ One <= One
    BY DEF One
  <1>4. Fast(s.accept, One) <= One /\ Fast(s.reject, 0) <= One
    BY <1>1, <1>2, FastBetween DEF Averaged
  <1>5. s.inclusion + Fast(s.miss, 0) + Fast(s.revert, 0) <= One - 4
    BY <1>1, SlackStays DEF Averaged
  <1>6. QED
    BY <1>4, <1>5, AcceptedFields DEF Averaged

\* record_submit_failure keeps a record averaged.
LEMMA RefusedKeepsAveraged ==
  ASSUME NEW s, IsRecord(s), s.accept \in Nat, Averaged(s), NEW lat
  PROVE  Averaged(Refused(s, lat))
  <1>1. /\ s.submit \in Nat /\ s.accept \in Nat /\ s.reject \in Nat
    BY FieldsAreNat
  <1>2. One \in Nat /\ 0 <= One /\ One <= One
    BY DEF One
  <1>4. Fast(s.accept, 0) <= One /\ Fast(s.reject, One) <= One
    BY <1>1, <1>2, FastBetween DEF Averaged
  <1>5. QED
    BY <1>4, RefusedFields DEF Averaged

\* record_finalization keeps a record averaged.
LEMMA FinalKeepsAveraged ==
  ASSUME NEW s, IsRecord(s), s.accept \in Nat, Averaged(s), NEW success \in BOOLEAN, NEW lat, NEW cap
  PROVE  Averaged(Final(s, success, lat, cap))
  <1>1. s.finalize \in Nat /\ s.inclusion \in Nat /\ s.miss \in Nat /\ s.revert \in Nat
    BY FieldsAreNat
  <1>3. /\ Fast(s.inclusion, One) + Fast(s.miss, 0) + Fast(s.revert, 0) <= One - 4
        /\ Fast(s.inclusion, 0) + Fast(s.miss, 0) + Fast(s.revert, One) <= One - 4
    BY <1>1, SlackStays DEF Averaged
  <1>4. QED
    BY <1>3, FinalFields DEF Averaged

\* record_receipt_timeout keeps a record averaged.
LEMMA TimedOutKeepsAveraged ==
  ASSUME NEW s, IsRecord(s), s.accept \in Nat, Averaged(s), NEW lat
  PROVE  Averaged(TimedOut(s, lat))
  <1>1. s.finalize \in Nat /\ s.inclusion \in Nat /\ s.miss \in Nat /\ s.revert \in Nat
    BY FieldsAreNat
  <1>3. Fast(s.inclusion, 0) + Fast(s.miss, One) + Fast(s.revert, 0) <= One - 4
    BY <1>1, SlackStays DEF Averaged
  <1>4. QED
    BY <1>3, TimedOutFields DEF Averaged

\* A latency over its target is a rate, and grows with the latency.
LEMMA OverdueGrows ==
  ASSUME NEW a \in Nat, NEW b \in Nat, a <= b \/ a <= 100
  PROVE  Overdue(a) \in Nat /\ Overdue(b) \in Nat /\ Overdue(a) <= One /\ Overdue(a) <= Overdue(b)
  BY DEF Overdue, Unit, One

\* A refused submission leaves a record no better.
LEMMA RefusedNoBetter ==
  ASSUME NEW s, IsRecord(s), s.accept \in Nat, Averaged(s), NEW lat \in Nat, Fast(s.submit, lat) >= s.submit
  PROVE  NoBetter(Refused(s, lat), s)
  <1>1. /\ s.submit \in Nat /\ s.finalize \in Nat /\ s.accept \in Nat /\ s.reject \in Nat
        /\ s.inclusion \in Nat /\ s.miss \in Nat /\ s.revert \in Nat
    BY FieldsAreNat
  <1>2. Overdue(Fast(s.submit, lat)) >= Overdue(s.submit)
    BY <1>1, FastBounds, OverdueGrows
  <1>3. Overdue(s.finalize) >= Overdue(s.finalize)
    BY <1>1, OverdueGrows
  <1>4. Fast(s.accept, 0) <= s.accept
    BY <1>1, FastBetween
  <1>5. Fast(s.reject, One) >= s.reject
    BY <1>1, OneNat, FastBetween DEF Averaged
  <1>6. s.inclusion <= s.inclusion /\ s.miss >= s.miss /\ s.miss + s.revert >= s.miss + s.revert
    BY <1>1
  <1>7. QED
    BY <1>2, <1>3, <1>4, <1>5, <1>6, RefusedFields DEF NoBetter

\* What a timeout adds to the misses is at least what it takes from the reverts.
LEMMA MissesOutweighReverts ==
  ASSUME NEW i \in Nat, NEW m \in Nat, NEW v \in Nat, i + m + v <= One - 4
  PROVE  Fast(m, One) >= m /\ Fast(m, One) + Fast(v, 0) >= m + v
  BY DEF Fast, One

\* A receipt that never comes leaves a record no better.
LEMMA TimedOutNoBetter ==
  ASSUME NEW s, IsRecord(s), s.accept \in Nat, Averaged(s), NEW lat \in Nat, Fast(s.finalize, lat) >= s.finalize
  PROVE  NoBetter(TimedOut(s, lat), s)
  <1>1. /\ s.submit \in Nat /\ s.finalize \in Nat /\ s.accept \in Nat /\ s.reject \in Nat
        /\ s.inclusion \in Nat /\ s.miss \in Nat /\ s.revert \in Nat
    BY FieldsAreNat
  <1>2. Overdue(Fast(s.finalize, lat)) >= Overdue(s.finalize)
    BY <1>1, FastBounds, OverdueGrows
  <1>3. Overdue(s.submit) >= Overdue(s.submit)
    BY <1>1, OverdueGrows
  <1>4. Fast(s.inclusion, 0) <= s.inclusion
    BY <1>1, FastBetween
  <1>5. Fast(s.miss, One) >= s.miss /\ Fast(s.miss, One) + Fast(s.revert, 0) >= s.miss + s.revert
    BY <1>1, MissesOutweighReverts DEF Averaged
  <1>6. s.accept <= s.accept /\ s.reject >= s.reject
    BY <1>1
  <1>7. QED
    BY <1>2, <1>3, <1>4, <1>5, <1>6, TimedOutFields DEF NoBetter
-----------------------------------------------------------------------------
\* A hundredth of a larger sum is no smaller, nor is it when held between zero and one.
LEMMA HundredthGrows ==
  ASSUME NEW x \in Int, NEW y \in Int, x <= y
  PROVE  /\ x \div 100 \in Int /\ y \div 100 \in Int /\ x \div 100 <= y \div 100
         /\ Unit(x \div 100) \in Nat /\ Unit(y \div 100) \in Nat
         /\ Unit(x \div 100) <= Unit(y \div 100)
  BY DEF Unit, One

\* A record no better than another, field by field, as numbers.
LEMMA NoBetterFields ==
  ASSUME NEW s, IsRecord(s), s.accept \in Nat, NEW t, IsRecord(t), t.accept \in Nat, NoBetter(t, s)
  PROVE  /\ s.accept \in Nat /\ s.reject \in Nat /\ s.inclusion \in Nat
         /\ s.miss \in Nat /\ s.revert \in Nat /\ s.capture \in Nat
         /\ Overdue(s.submit) \in Nat /\ Overdue(s.finalize) \in Nat
         /\ t.accept \in Nat /\ t.reject \in Nat /\ t.inclusion \in Nat
         /\ t.miss \in Nat /\ t.revert \in Nat
         /\ Overdue(t.submit) \in Nat /\ Overdue(t.finalize) \in Nat
         /\ Overdue(s.submit) <= Overdue(t.submit) /\ Overdue(s.finalize) <= Overdue(t.finalize)
         /\ t.accept <= s.accept /\ s.reject <= t.reject /\ t.inclusion <= s.inclusion
         /\ t.capture = s.capture /\ s.miss <= t.miss /\ s.miss + s.revert <= t.miss + t.revert
  <1>1. /\ s.submit \in Nat /\ s.finalize \in Nat /\ s.accept \in Nat /\ s.reject \in Nat
        /\ s.inclusion \in Nat /\ s.miss \in Nat /\ s.revert \in Nat /\ s.capture \in Nat
    BY FieldsAreNat
  <1>2. /\ t.submit \in Nat /\ t.finalize \in Nat /\ t.accept \in Nat /\ t.reject \in Nat
        /\ t.inclusion \in Nat /\ t.miss \in Nat /\ t.revert \in Nat
    BY FieldsAreNat
  <1>3. \A a \in Nat : a <= a /\ Overdue(a) \in Nat
    BY OverdueGrows
  <1>4. /\ Overdue(s.submit) \in Nat /\ Overdue(s.finalize) \in Nat
        /\ Overdue(t.submit) \in Nat /\ Overdue(t.finalize) \in Nat
    BY <1>1, <1>2, <1>3
  <1>5. QED
    BY <1>1, <1>2, <1>4 DEF NoBetter

\* The pressure of a record that is no better is no lower, with a relay's weights or the fleet's.
LEMMA PressureGrows ==
  ASSUME NEW s, IsRecord(s), s.accept \in Nat, NEW t, IsRecord(t), t.accept \in Nat, NoBetter(t, s)
  PROVE  /\ Pressure(s, 26, 14, 4) \in Nat /\ Pressure(t, 26, 14, 4) \in Nat
         /\ Pressure(s, 26, 14, 4) <= Pressure(t, 26, 14, 4)
         /\ Pressure(s, 24, 16, 6) \in Nat /\ Pressure(t, 24, 16, 6) \in Nat
         /\ Pressure(s, 24, 16, 6) <= Pressure(t, 24, 16, 6)
  <1> DEFINE Sum(q, reject, revert, poor) ==
               q.reject * reject + (One - q.accept) * 12 + (One - q.inclusion) * 12 + q.miss * 24
                 + q.revert * revert + Overdue(q.submit) * 10 + Overdue(q.finalize) * 8
                 + Unit(One - q.capture) * poor
  <1>1. /\ Sum(s, 26, 14, 4) \in Int /\ Sum(t, 26, 14, 4) \in Int /\ Sum(s, 26, 14, 4) <= Sum(t, 26, 14, 4)
        /\ Sum(s, 24, 16, 6) \in Int /\ Sum(t, 24, 16, 6) \in Int /\ Sum(s, 24, 16, 6) <= Sum(t, 24, 16, 6)
    <2> DEFINE su == Overdue(s.submit)
               fi == Overdue(s.finalize)
               su2 == Overdue(t.submit)
               fi2 == Overdue(t.finalize)
               po == Unit(One - s.capture)
    <2>1. /\ s.accept \in Nat /\ s.reject \in Nat /\ s.inclusion \in Nat
          /\ s.miss \in Nat /\ s.revert \in Nat /\ s.capture \in Nat /\ su \in Nat /\ fi \in Nat
          /\ t.accept \in Nat /\ t.reject \in Nat /\ t.inclusion \in Nat
          /\ t.miss \in Nat /\ t.revert \in Nat /\ su2 \in Nat /\ fi2 \in Nat
          /\ su <= su2 /\ fi <= fi2
          /\ t.accept <= s.accept /\ s.reject <= t.reject /\ t.inclusion <= s.inclusion
          /\ t.capture = s.capture /\ s.miss <= t.miss /\ s.miss + s.revert <= t.miss + t.revert
      BY NoBetterFields
    <2>2. po \in Nat /\ Unit(One - t.capture) = po
      BY <2>1 DEF Unit, One
    <2> HIDE DEF su, fi, su2, fi2, po
    <2>3. QED
      BY <2>1, <2>2, OneNat DEF su, fi, su2, fi2, po
  <1>2. \A q : /\ Pressure(q, 26, 14, 4) = Unit(Sum(q, 26, 14, 4) \div 100)
               /\ Pressure(q, 24, 16, 6) = Unit(Sum(q, 24, 16, 6) \div 100)
    BY DEF Pressure
  <1> HIDE DEF Sum
  <1>3. QED
    BY <1>1, <1>2, HundredthGrows
\* relay_quote's score of a record.
ScoreOf(s) ==
  (Pressure(s, 26, 14, 4) * 48 + (One - s.accept) * 20 + s.miss * 14 + s.revert * 8
     + (One - s.inclusion) * 5 + Overdue(s.submit) * 3 + Overdue(s.finalize) * 2) \div 100

\* The score of a record that is no better is no lower.
LEMMA ScoreGrows ==
  ASSUME NEW s, IsRecord(s), s.accept \in Nat, NEW t, IsRecord(t), t.accept \in Nat, NoBetter(t, s)
  PROVE  ScoreOf(t) >= ScoreOf(s) /\ ScoreOf(t) \in Int /\ ScoreOf(s) \in Int
  <1> DEFINE Sum(q) ==
               Pressure(q, 26, 14, 4) * 48 + (One - q.accept) * 20 + q.miss * 14 + q.revert * 8
                 + (One - q.inclusion) * 5 + Overdue(q.submit) * 3 + Overdue(q.finalize) * 2
  <1>1. Sum(s) \in Int /\ Sum(t) \in Int /\ Sum(s) <= Sum(t)
    <2> DEFINE su == Overdue(s.submit)
               fi == Overdue(s.finalize)
               su2 == Overdue(t.submit)
               fi2 == Overdue(t.finalize)
               pr == Pressure(s, 26, 14, 4)
               pr2 == Pressure(t, 26, 14, 4)
    <2>1. /\ s.accept \in Nat /\ s.inclusion \in Nat
          /\ s.miss \in Nat /\ s.revert \in Nat /\ su \in Nat /\ fi \in Nat
          /\ t.accept \in Nat /\ t.inclusion \in Nat
          /\ t.miss \in Nat /\ t.revert \in Nat /\ su2 \in Nat /\ fi2 \in Nat
          /\ su <= su2 /\ fi <= fi2
          /\ t.accept <= s.accept /\ t.inclusion <= s.inclusion
          /\ s.miss <= t.miss /\ s.miss + s.revert <= t.miss + t.revert
      BY NoBetterFields
    <2>2. pr \in Nat /\ pr2 \in Nat /\ pr <= pr2
      BY PressureGrows
    <2> HIDE DEF su, fi, su2, fi2, pr, pr2
    <2>3. QED
      BY <2>1, <2>2, OneNat DEF su, fi, su2, fi2, pr, pr2
  <1>2. \A q : ScoreOf(q) = Sum(q) \div 100
    BY DEF ScoreOf
  <1> HIDE DEF Sum
  <1>3. Sum(s) \div 100 \in Int /\ Sum(t) \div 100 \in Int /\ Sum(s) \div 100 <= Sum(t) \div 100
    BY <1>1, HundredthGrows
  <1>4. QED
    BY <1>2, <1>3

\* The score of a relay with an entry is that of its record.
LEMMA ScoreOfTried ==
  ASSUME NEW r \in Relays, Tried(r)
  PROVE  Score(r) = ScoreOf(relayStats[r])
  BY DEF Score, ScoreOf, RelayPressure, Quoted
-----------------------------------------------------------------------------
\* market_regime, of the pressures it is given.
Level(stress, failure, poor, builder, heat, gas) ==
  IF stress >= 8200 \/ failure >= 7200 \/ poor >= 6200 \/ builder >= 7200 THEN 3
  ELSE IF stress >= 5800 \/ heat >= 5500 \/ gas >= 5200 \/ builder >= 4800 THEN 2
  ELSE IF stress >= 3000 THEN 1 ELSE 0

\* More stress, failures or builder pressure never lower the level.
LEMMA LevelGrows ==
  ASSUME NEW stress \in Nat, NEW failure \in Nat, NEW poor \in Nat, NEW builder \in Nat,
         NEW heat \in Nat, NEW gas \in Nat,
         NEW stress2 \in Nat, NEW failure2 \in Nat, NEW builder2 \in Nat,
         stress <= stress2, failure <= failure2, builder <= builder2
  PROVE  /\ Level(stress, failure, poor, builder, heat, gas) \in 0..3
         /\ Level(stress2, failure2, poor, builder2, heat, gas) \in 0..3
         /\ Level(stress, failure, poor, builder, heat, gas) <= Level(stress2, failure2, poor, builder2, heat, gas)
  BY DEF Level

\* The pressures of preflight_score as functions of the fleet's record.
FailureOf(f) == Unit((f.failure * 65 + f.timeout * 35) \div 100)
LatencyOf(f, m) == (Overdue(m.lookup) * 55 + Overdue(f.submit) * 25 + Overdue(f.finalize) * 20) \div 100
StressOf(f, m) ==
  Unit((m.density * 20 + m.heat * 20 + m.gas * 10 + LatencyOf(f, m) * 12 + FailureOf(f) * 14
          + Unit(One - f.capture) * 10 + Pressure(f, 24, 16, 6) * 14) \div 100)
LevelOf(f, m) == Level(StressOf(f, m), FailureOf(f), Unit(One - f.capture), Pressure(f, 24, 16, 6), m.heat, m.gas)

\* The preflight's regime is the level of the fleet's record.
LEMMA RegimeIs ==
  ASSUME NEW f, NEW m
  PROVE  PreflightRegime(f, m) = LevelOf(f, m)
  BY DEF PreflightRegime, LevelOf, Level, StressOf, FailureOf, LatencyOf

\* A fleet record that is no better, with no fewer failures and timeouts, gives no lower a level.
LEMMA LevelOfGrows ==
  ASSUME NEW f \in FleetType, NEW g \in FleetType, NoBetter(g, f),
         f.failure <= g.failure, f.timeout <= g.timeout, NEW m \in Markets
  PROVE  LevelOf(f, m) \in 0..3 /\ LevelOf(g, m) \in 0..3 /\ LevelOf(f, m) <= LevelOf(g, m)
  <1>1. IsRecord(f) /\ IsRecord(g) /\ f.accept \in Nat /\ g.accept \in Nat
    BY DEF IsRecord, FleetType
  <1>2. m.density \in Nat /\ m.heat \in Nat /\ m.gas \in Nat /\ m.lookup \in Nat
    BY PolicyAssumption
  <1> DEFINE fa == FailureOf(f)
             fa2 == FailureOf(g)
             la == LatencyOf(f, m)
             la2 == LatencyOf(g, m)
             po == Unit(One - f.capture)
             bu == Pressure(f, 24, 16, 6)
             bu2 == Pressure(g, 24, 16, 6)
  <1>3. fa \in Nat /\ fa2 \in Nat /\ fa <= fa2
    <2>1. f.failure \in Nat /\ f.timeout \in Nat /\ g.failure \in Nat /\ g.timeout \in Nat
      BY DEF FleetType
    <2>2. /\ f.failure * 65 + f.timeout * 35 \in Int /\ g.failure * 65 + g.timeout * 35 \in Int
          /\ f.failure * 65 + f.timeout * 35 <= g.failure * 65 + g.timeout * 35
      BY <2>1
    <2>3. QED
      BY <2>2, HundredthGrows DEF FailureOf
  <1>4. la \in Int /\ la2 \in Int /\ la <= la2
    <2> DEFINE su == Overdue(f.submit)
               fi == Overdue(f.finalize)
               su2 == Overdue(g.submit)
               fi2 == Overdue(g.finalize)
               lo == Overdue(m.lookup)
               x == lo * 55 + su * 25 + fi * 20
               y == lo * 55 + su2 * 25 + fi2 * 20
    <2>1. su \in Nat /\ fi \in Nat /\ su2 \in Nat /\ fi2 \in Nat /\ su <= su2 /\ fi <= fi2
      BY <1>1, NoBetterFields
    <2>2. la = x \div 100 /\ la2 = y \div 100
      BY DEF LatencyOf
    <2>3. lo \in Nat
      BY <1>2, OverdueGrows
    <2> HIDE DEF su, fi, su2, fi2, lo, la, la2
    <2>4. x \in Int /\ y \in Int /\ x <= y
      BY <2>1, <2>3
    <2> HIDE DEF x, y
    <2>5. QED
      BY <2>2, <2>4, HundredthGrows
  <1>5. po \in Nat /\ g.capture = f.capture
    <2>1. f.capture \in Nat
      BY DEF FleetType
    <2>2. QED
      BY <2>1 DEF Unit, One, NoBetter
  <1>6. bu \in Nat /\ bu2 \in Nat /\ bu <= bu2
    BY <1>1, PressureGrows
  <1> DEFINE x == m.density * 20 + m.heat * 20 + m.gas * 10 + la * 12 + fa * 14 + po * 10 + bu * 14
             y == m.density * 20 + m.heat * 20 + m.gas * 10 + la2 * 12 + fa2 * 14 + po * 10 + bu2 * 14
  <1>7. /\ StressOf(f, m) = Unit(x \div 100) /\ StressOf(g, m) = Unit(y \div 100)
        /\ LevelOf(f, m) = Level(Unit(x \div 100), fa, po, bu, m.heat, m.gas)
        /\ LevelOf(g, m) = Level(Unit(y \div 100), fa2, po, bu2, m.heat, m.gas)
    BY <1>5 DEF StressOf, LevelOf
  <1> HIDE DEF fa, fa2, la, la2, po, bu, bu2
  <1>8. x \in Int /\ y \in Int /\ x <= y
    BY <1>2, <1>3, <1>4, <1>5, <1>6
  <1> HIDE DEF x, y
  <1> DEFINE sx == Unit(x \div 100)
             sy == Unit(y \div 100)
  <1>9. sx \in Nat /\ sy \in Nat /\ sx <= sy
    BY <1>8, HundredthGrows
  <1>10. LevelOf(f, m) = Level(sx, fa, po, bu, m.heat, m.gas) /\ LevelOf(g, m) = Level(sy, fa2, po, bu2, m.heat, m.gas)
    BY <1>7
  <1> HIDE DEF sx, sy
  <1>11. /\ Level(sx, fa, po, bu, m.heat, m.gas) \in 0..3 /\ Level(sy, fa2, po, bu2, m.heat, m.gas) \in 0..3
         /\ Level(sx, fa, po, bu, m.heat, m.gas) <= Level(sy, fa2, po, bu2, m.heat, m.gas)
    BY <1>2, <1>3, <1>5, <1>6, <1>9, LevelGrows
  <1>12. QED
    BY <1>10, <1>11
-----------------------------------------------------------------------------
\* The two rates only the fleet has do not matter to the rest of its record.
LEMMA PressedKeeps ==
  ASSUME NEW g \in FleetType, g.failure <= One, g.timeout <= One, Averaged(g),
         NEW a \in {0, One}, NEW b \in {0, One}
  PROVE  /\ FleetOk(Pressed(g, a, b))
         /\ \A f : NoBetter(g, f) => NoBetter(Pressed(g, a, b), f)
         /\ Pressed(g, a, b).failure = Fast(g.failure, a) /\ Pressed(g, a, b).timeout = Fast(g.timeout, b)
  <1>1. a \in Nat /\ b \in Nat /\ a <= One /\ b <= One
    BY DEF One
  <1>2. g.failure \in Nat /\ g.timeout \in Nat
    BY DEF FleetType
  <1> DEFINE x == Fast(g.failure, a)
             y == Fast(g.timeout, b)
             t == Pressed(g, a, b)
  <1>3. x \in Nat /\ y \in Nat /\ x <= One /\ y <= One
    BY <1>1, <1>2, OneNat, FastBounds, FastBetween
  <1>4. t = [g EXCEPT !.failure = x, !.timeout = y]
    BY DEF Pressed
  <1> HIDE DEF x, y, t
  <1>5. /\ t \in FleetType /\ t.failure = x /\ t.timeout = y
        /\ t.submit = g.submit /\ t.finalize = g.finalize /\ t.accept = g.accept /\ t.reject = g.reject
        /\ t.inclusion = g.inclusion /\ t.miss = g.miss /\ t.revert = g.revert /\ t.capture = g.capture
    BY <1>3, <1>4 DEF FleetType
  <1>6. FleetOk(t) /\ \A f : NoBetter(g, f) => NoBetter(t, f)
    BY <1>3, <1>5 DEF FleetOk, Averaged, NoBetter
  <1>7. QED
    BY <1>5, <1>6 DEF x, y, t

\* An acceptance keeps the fleet's record one, without touching its two own rates.
LEMMA FleetAccepted ==
  ASSUME NEW f \in FleetType, NEW lat \in Nat
  PROVE  Accepted(f, lat) \in FleetType /\ Accepted(f, lat).failure = f.failure /\ Accepted(f, lat).timeout = f.timeout
  <1> DEFINE x1 == Fast(f.submit, lat)
             x2 == Fast(f.accept, One)
             x3 == Fast(f.reject, 0)
             x4 == Fast(f.miss, 0)
             x5 == Fast(f.revert, 0)
             t == Accepted(f, lat)
  <1>1. f.submit \in Nat /\ f.accept \in Nat /\ f.reject \in Nat /\ f.miss \in Nat /\ f.revert \in Nat
    BY DEF FleetType
  <1>2. One \in Nat /\ 0 \in Nat /\ \A x, y \in Nat : Fast(x, y) \in Nat /\ Slow(x, y) \in Nat
    BY OneNat, FastBounds, SlowNat
  <1>3. x1 \in Nat /\ x2 \in Nat /\ x3 \in Nat /\ x4 \in Nat /\ x5 \in Nat
    BY <1>1, <1>2
  <1>4. t = [f EXCEPT !.submit = x1, !.accept = x2, !.reject = x3, !.miss = x4, !.revert = x5]
    BY DEF Accepted
  <1> HIDE DEF x1, x2, x3, x4, x5, t
  <1>5. t \in FleetType /\ t.failure = f.failure /\ t.timeout = f.timeout
    BY <1>3, <1>4 DEF FleetType
  <1>6. QED
    BY <1>5 DEF t

\* So does a refusal.
LEMMA FleetRefusal ==
  ASSUME NEW f \in FleetType, NEW lat \in Nat
  PROVE  Refused(f, lat) \in FleetType /\ Refused(f, lat).failure = f.failure /\ Refused(f, lat).timeout = f.timeout
  <1> DEFINE x1 == Fast(f.submit, lat)
             x2 == Fast(f.accept, 0)
             x3 == Fast(f.reject, One)
             t == Refused(f, lat)
  <1>1. f.submit \in Nat /\ f.accept \in Nat /\ f.reject \in Nat
    BY DEF FleetType
  <1>2. One \in Nat /\ 0 \in Nat /\ \A x, y \in Nat : Fast(x, y) \in Nat /\ Slow(x, y) \in Nat
    BY OneNat, FastBounds, SlowNat
  <1>3. x1 \in Nat /\ x2 \in Nat /\ x3 \in Nat
    BY <1>1, <1>2
  <1>4. t = [f EXCEPT !.submit = x1, !.accept = x2, !.reject = x3]
    BY DEF Refused
  <1> HIDE DEF x1, x2, x3, t
  <1>5. t \in FleetType /\ t.failure = f.failure /\ t.timeout = f.timeout
    BY <1>3, <1>4 DEF FleetType
  <1>6. QED
    BY <1>5 DEF t

\* So does a receipt.
LEMMA FleetFinal ==
  ASSUME NEW f \in FleetType, NEW success \in BOOLEAN, NEW lat \in Nat, NEW cap \in Nat
  PROVE  /\ Final(f, success, lat, cap) \in FleetType
         /\ Final(f, success, lat, cap).failure = f.failure /\ Final(f, success, lat, cap).timeout = f.timeout
  <1> DEFINE x1 == Fast(f.finalize, lat)
             x2 == Fast(f.inclusion, IF success THEN One ELSE 0)
             x3 == Fast(f.miss, 0)
             x4 == Fast(f.revert, IF success THEN 0 ELSE One)
             x5 == Slow(f.capture, cap)
             t == Final(f, success, lat, cap)
  <1>1. f.finalize \in Nat /\ f.inclusion \in Nat /\ f.miss \in Nat /\ f.revert \in Nat /\ f.capture \in Nat
    BY DEF FleetType
  <1>2. One \in Nat /\ 0 \in Nat /\ \A x, y \in Nat : Fast(x, y) \in Nat /\ Slow(x, y) \in Nat
    BY OneNat, FastBounds, SlowNat
  <1>3. x1 \in Nat /\ x2 \in Nat /\ x3 \in Nat /\ x4 \in Nat /\ x5 \in Nat
    BY <1>1, <1>2
  <1>4. t = [f EXCEPT !.finalize = x1, !.inclusion = x2, !.miss = x3, !.revert = x4, !.capture = x5]
    BY DEF Final
  <1> HIDE DEF x1, x2, x3, x4, x5, t
  <1>5. t \in FleetType /\ t.failure = f.failure /\ t.timeout = f.timeout
    BY <1>3, <1>4 DEF FleetType
  <1>6. QED
    BY <1>5 DEF t

\* So does a timeout.
LEMMA FleetTimedOut ==
  ASSUME NEW f \in FleetType, NEW lat \in Nat
  PROVE  TimedOut(f, lat) \in FleetType /\ TimedOut(f, lat).failure = f.failure /\ TimedOut(f, lat).timeout = f.timeout
  <1> DEFINE x1 == Fast(f.finalize, lat)
             x2 == Fast(f.inclusion, 0)
             x3 == Fast(f.miss, One)
             x4 == Fast(f.revert, 0)
             t == TimedOut(f, lat)
  <1>1. f.finalize \in Nat /\ f.inclusion \in Nat /\ f.miss \in Nat /\ f.revert \in Nat
    BY DEF FleetType
  <1>2. One \in Nat /\ 0 \in Nat /\ \A x, y \in Nat : Fast(x, y) \in Nat /\ Slow(x, y) \in Nat
    BY OneNat, FastBounds, SlowNat
  <1>3. x1 \in Nat /\ x2 \in Nat /\ x3 \in Nat /\ x4 \in Nat
    BY <1>1, <1>2
  <1>4. t = [f EXCEPT !.finalize = x1, !.inclusion = x2, !.miss = x3, !.revert = x4]
    BY DEF TimedOut
  <1> HIDE DEF x1, x2, x3, x4, t
  <1>5. t \in FleetType /\ t.failure = f.failure /\ t.timeout = f.timeout
    BY <1>3, <1>4 DEF FleetType
  <1>6. QED
    BY <1>5 DEF t

\* The record a refusal leaves the fleet with.
FleetRefused(f, lat) == [Refused(f, lat) EXCEPT !.failure = Fast(@, One)]

\* A refusal keeps the fleet's record averaged and, if it was not faster, leaves it no better.
LEMMA FleetRefusedOk ==
  ASSUME NEW f, FleetOk(f), NEW lat \in Nat
  PROVE  LET t == FleetRefused(f, lat)
         IN  /\ FleetOk(t) /\ t.failure >= f.failure /\ t.timeout >= f.timeout
             /\ t.submit = Fast(f.submit, lat)
             /\ Fast(f.submit, lat) >= f.submit => NoBetter(t, f)
  <1> DEFINE g == Refused(f, lat)
             x == Fast(f.failure, One)
             t == FleetRefused(f, lat)
  <1>1. IsRecord(f) /\ f.accept \in Nat /\ f.failure \in Nat /\ f.timeout \in Nat
    BY DEF FleetOk, IsRecord, FleetType
  <1>2. g \in FleetType /\ g.failure = f.failure /\ g.timeout = f.timeout
    BY FleetRefusal DEF FleetOk
  <1>3. Averaged(g) /\ (Fast(f.submit, lat) >= f.submit => NoBetter(g, f)) /\ g.submit = Fast(f.submit, lat)
    BY <1>1, RefusedKeepsAveraged, RefusedNoBetter, RefusedFields DEF FleetOk
  <1>4. x \in Nat /\ x <= One /\ x >= f.failure
    <2>1. f.failure <= One /\ One >= f.failure /\ One <= One /\ f.failure >= f.failure
      BY <1>1, OneNat DEF FleetOk
    <2>2. x \in Nat
      BY <1>1, OneNat, FastBounds
    <2>3. QED
      BY <1>1, <2>1, <2>2, OneNat, FastBetween
  <1>5. t = [g EXCEPT !.failure = x]
    BY <1>2 DEF FleetRefused
  <1> HIDE DEF g, x, t
  <1>6. /\ t \in FleetType /\ t.failure = x /\ t.timeout = f.timeout
        /\ t.submit = g.submit /\ t.finalize = g.finalize /\ t.accept = g.accept /\ t.reject = g.reject
        /\ t.inclusion = g.inclusion /\ t.miss = g.miss /\ t.revert = g.revert /\ t.capture = g.capture
    BY <1>2, <1>4, <1>5 DEF FleetType
  <1>7. FleetOk(t) /\ t.failure >= f.failure /\ t.timeout >= f.timeout
    BY <1>1, <1>3, <1>4, <1>6 DEF FleetOk, Averaged
  <1>8. Fast(f.submit, lat) >= f.submit => NoBetter(t, f)
    BY <1>3, <1>6 DEF NoBetter
  <1>9. QED
    BY <1>3, <1>6, <1>7, <1>8 DEF t

\* A timeout keeps the fleet's record averaged and, if it was not faster, leaves it no better.
LEMMA FleetTimeoutOk ==
  ASSUME NEW f, FleetOk(f), NEW lat \in Nat
  PROVE  LET t == Pressed(TimedOut(f, lat), One, One)
         IN  /\ FleetOk(t) /\ t.failure >= f.failure /\ t.timeout >= f.timeout
             /\ t.finalize = Fast(f.finalize, lat)
             /\ Fast(f.finalize, lat) >= f.finalize => NoBetter(t, f)
  <1> DEFINE g == TimedOut(f, lat)
             t == Pressed(g, One, One)
  <1>1. IsRecord(f) /\ f \in FleetType /\ f.accept \in Nat /\ f.failure \in Nat /\ f.timeout \in Nat
    BY DEF FleetOk, IsRecord, FleetType
  <1>2. g \in FleetType /\ g.failure = f.failure /\ g.timeout = f.timeout
    BY <1>1, FleetTimedOut
  <1>3. Averaged(g) /\ (Fast(f.finalize, lat) >= f.finalize => NoBetter(g, f)) /\ g.finalize = Fast(f.finalize, lat)
    BY <1>1, TimedOutKeepsAveraged, TimedOutNoBetter, TimedOutFields DEF FleetOk
  <1>4. f.failure <= One /\ f.timeout <= One
    BY DEF FleetOk
  <1> HIDE DEF g
  <1>5. /\ FleetOk(t) /\ t.failure = Fast(f.failure, One) /\ t.timeout = Fast(f.timeout, One)
        /\ Fast(f.finalize, lat) >= f.finalize => NoBetter(t, f)
    BY <1>2, <1>3, <1>4, PressedKeeps
  <1>6. Fast(f.failure, One) >= f.failure /\ Fast(f.timeout, One) >= f.timeout
    <2>1. One >= f.failure /\ One >= f.timeout /\ f.failure >= f.failure /\ f.timeout >= f.timeout
      BY <1>1, <1>4, OneNat
    <2>2. QED
      BY <1>1, <2>1, OneNat, FastBetween
  <1>7. t.finalize = Fast(f.finalize, lat)
    BY <1>2, <1>3 DEF Pressed, FleetType
  <1>8. QED
    BY <1>5, <1>6, <1>7 DEF g

\* An acceptance and a receipt keep the fleet's record averaged.
LEMMA FleetGoodOk ==
  ASSUME NEW f, FleetOk(f), NEW success \in BOOLEAN, NEW a \in {0, One}, NEW lat \in Nat, NEW cap \in Nat
  PROVE  FleetOk(Accepted(f, lat)) /\ FleetOk(Pressed(Final(f, success, lat, cap), a, 0))
  <1>1. IsRecord(f) /\ f \in FleetType /\ f.accept \in Nat /\ Averaged(f) /\ f.failure <= One /\ f.timeout <= One
    BY DEF FleetOk, IsRecord, FleetType
  <1>2. FleetOk(Accepted(f, lat))
    BY <1>1, FleetAccepted, AcceptedKeepsAveraged DEF FleetOk
  <1> DEFINE g == Final(f, success, lat, cap)
  <1>3. g \in FleetType /\ g.failure = f.failure /\ g.timeout = f.timeout /\ Averaged(g)
    BY <1>1, FleetFinal, FinalKeepsAveraged
  <1> HIDE DEF g
  <1>4. FleetOk(Pressed(g, a, 0))
    BY <1>1, <1>3, PressedKeeps
  <1>5. QED
    BY <1>2, <1>4 DEF g

\* The record an outcome starts from is averaged.
LEMMA EntryAveraged ==
  ASSUME HelpInv, NEW r \in Relays
  PROVE  Averaged(Entry(r)) /\ IsRecord(Entry(r)) /\ Entry(r).accept \in Nat
  <1>1. Averaged(NewStats)
    BY DEF Averaged, NewStats, One
  <1>2. Averaged(Entry(r))
    BY <1>1 DEF HelpInv, Entry
  <1>3. QED
    BY <1>2, EntryShares DEF HelpInv, IsRecord, Shares

\* A step that gives one relay and the fleet averaged records keeps the invariant.
LEMMA LearnKeepsHelpInv ==
  ASSUME HelpInv, PolicyInv', NEW r \in Relays, NEW own, NEW fleet, Learn(r, own, fleet),
         Averaged(own), FleetOk(fleet)
  PROVE  HelpInv'
  <1>1. relayStats' = [relayStats EXCEPT ![r] = own] /\ fleetStats' = fleet /\ relayStats \in [Relays -> StatsType]
    BY DEF Learn, HelpInv, PolicyInv
  <1>2. ASSUME NEW q \in Relays, Tried(q)'
        PROVE  Averaged(relayStats'[q])
    <2>1. CASE q = r
      BY <1>1, <2>1
    <2>2. CASE q # r
      <3>1. relayStats'[q] = relayStats[q]
        BY <1>1, <2>2
      <3>2. QED
        BY <1>2, <3>1 DEF HelpInv, Tried
    <2>3. QED
      BY <2>1, <2>2
  <1>3. QED
    BY <1>1, <1>2 DEF HelpInv, FleetOk, Averaged

\* Every outcome the engine reports keeps the invariant.
LEMMA StepKeepsHelpInv ==
  ASSUME HelpInv, PolicyNext
  PROVE  HelpInv'
  <1>1. PICK r \in Relays, lat \in Nat, here \in BOOLEAN, cap \in Nat : OutcomeOf(r, lat, here, cap)
    BY StepIsOutcome
  <1>2. PolicyInv'
    BY StepKeepsInv DEF HelpInv
  <1>3. Averaged(Entry(r)) /\ IsRecord(Entry(r)) /\ Entry(r).accept \in Nat
    BY EntryAveraged
  <1>4. FleetOk(fleetStats) /\ 0 \in {0, One} /\ One \in {0, One} /\ 0 \in Nat
    BY DEF HelpInv
  <1>5. CASE SubmitAccepted(r, lat)
    <2>1. Averaged(Accepted(Entry(r), lat)) /\ FleetOk(Accepted(fleetStats, lat))
      BY <1>3, <1>4, AcceptedKeepsAveraged, FleetGoodOk
    <2>2. QED
      BY <1>2, <1>5, <2>1, LearnKeepsHelpInv DEF SubmitAccepted
  <1>6. CASE SubmitRefused(r, lat, here)
    <2>1. Averaged(Refused(Entry(r), lat)) /\ FleetOk(FleetRefused(fleetStats, lat))
      BY <1>3, <1>4, RefusedKeepsAveraged, FleetRefusedOk
    <2>2. QED
      BY <1>2, <1>6, <2>1, LearnKeepsHelpInv DEF SubmitRefused, FleetRefused
  <1>7. CASE Included(r, lat, cap, here)
    <2>1. Averaged(Final(Entry(r), TRUE, lat, cap)) /\ FleetOk(Pressed(Final(fleetStats, TRUE, lat, cap), 0, 0))
      BY <1>3, <1>4, FinalKeepsAveraged, FleetGoodOk
    <2>2. QED
      BY <1>2, <1>7, <2>1, LearnKeepsHelpInv DEF Included
  <1>8. CASE Reverted(r, lat, here)
    <2>1. Averaged(Final(Entry(r), FALSE, lat, 0)) /\ FleetOk(Pressed(Final(fleetStats, FALSE, lat, 0), One, 0))
      BY <1>3, <1>4, FinalKeepsAveraged, FleetGoodOk
    <2>2. QED
      BY <1>2, <1>8, <2>1, LearnKeepsHelpInv DEF Reverted
  <1>9. CASE ReceiptTimeout(r, lat, here)
    <2>1. Averaged(TimedOut(Entry(r), lat)) /\ FleetOk(Pressed(TimedOut(fleetStats, lat), One, One))
      BY <1>3, <1>4, TimedOutKeepsAveraged, FleetTimeoutOk
    <2>2. QED
      BY <1>2, <1>9, <2>1, LearnKeepsHelpInv DEF ReceiptTimeout
  <1>10. QED
    BY <1>1, <1>5, <1>6, <1>7, <1>8, <1>9 DEF OutcomeOf

\* A refusal or a timeout leaves the relay's record and the fleet's no better, unless it was faster.
LEMMA BadOutcomeIsWorse ==
  ASSUME HelpInv, NEW r \in Relays, Refusal(r) \/ Timeout(r)
  PROVE  /\ Tried(r) => Tried(r)'
         /\ Tried(r) /\ NoFaster(relayStats'[r], relayStats[r]) => NoBetter(relayStats'[r], relayStats[r])
         /\ FleetOk(fleetStats) /\ FleetOk(fleetStats')
         /\ NoFaster(fleetStats', fleetStats) => NoBetter(fleetStats', fleetStats)
         /\ fleetStats.failure <= fleetStats'.failure /\ fleetStats.timeout <= fleetStats'.timeout
  <1>1. Averaged(Entry(r)) /\ IsRecord(Entry(r)) /\ Entry(r).accept \in Nat
    BY EntryAveraged
  <1>2. FleetOk(fleetStats) /\ relayStats \in [Relays -> StatsType]
    BY DEF HelpInv, PolicyInv
  <1>3. fleetStats.failure \in Nat /\ fleetStats.timeout \in Nat
    BY <1>2 DEF FleetOk, FleetType
  <1>4. CASE Refusal(r)
    <2>1. PICK lat \in Latencies, here \in BOOLEAN : SubmitRefused(r, lat, here)
      BY <1>4 DEF Refusal
    <2>2. lat \in Nat
      BY PolicyAssumption
    <2> DEFINE t == FleetRefused(fleetStats, lat)
               u == Refused(Entry(r), lat)
    <2>3. relayStats'[r] = u /\ fleetStats' = t
      BY <1>2, <2>1 DEF SubmitRefused, Learn, FleetRefused
    <2>4. /\ u.submit = Fast(Entry(r).submit, lat) /\ u.accept = Fast(Entry(r).accept, 0)
          /\ Fast(Entry(r).submit, lat) >= Entry(r).submit => NoBetter(u, Entry(r))
      BY <1>1, <2>2, RefusedNoBetter, RefusedFields
    <2>5. /\ FleetOk(t) /\ t.failure >= fleetStats.failure /\ t.timeout >= fleetStats.timeout
          /\ t.submit = Fast(fleetStats.submit, lat)
          /\ Fast(fleetStats.submit, lat) >= fleetStats.submit => NoBetter(t, fleetStats)
      BY <1>2, <2>2, FleetRefusedOk
    <2> HIDE DEF t, u
    <2>6. t.failure \in Nat /\ t.timeout \in Nat
      BY <2>5 DEF FleetOk, FleetType
    <2>7. Fast(Entry(r).accept, 0) \in Nat
      BY <1>1, FastBounds
    <2>8. Tried(r)'
      BY <2>3, <2>4, <2>7 DEF Tried
    <2>9. Tried(r) /\ NoFaster(relayStats'[r], relayStats[r]) => NoBetter(relayStats'[r], relayStats[r])
      BY <2>3, <2>4 DEF Entry, NoFaster
    <2>10. NoFaster(fleetStats', fleetStats) => NoBetter(fleetStats', fleetStats)
      BY <2>3, <2>5 DEF NoFaster
    <2>11. QED
      BY <1>2, <1>3, <2>3, <2>5, <2>6, <2>8, <2>9, <2>10
  <1>5. CASE Timeout(r)
    <2>1. PICK lat \in Latencies, here \in BOOLEAN : ReceiptTimeout(r, lat, here)
      BY <1>5 DEF Timeout
    <2>2. lat \in Nat
      BY PolicyAssumption
    <2> DEFINE t == Pressed(TimedOut(fleetStats, lat), One, One)
               u == TimedOut(Entry(r), lat)
    <2>3. relayStats'[r] = u /\ fleetStats' = t
      BY <1>2, <2>1 DEF ReceiptTimeout, Learn
    <2>4. /\ u.finalize = Fast(Entry(r).finalize, lat) /\ u.accept = Entry(r).accept
          /\ Fast(Entry(r).finalize, lat) >= Entry(r).finalize => NoBetter(u, Entry(r))
      BY <1>1, <2>2, TimedOutNoBetter, TimedOutFields
    <2>5. /\ FleetOk(t) /\ t.failure >= fleetStats.failure /\ t.timeout >= fleetStats.timeout
          /\ t.finalize = Fast(fleetStats.finalize, lat)
          /\ Fast(fleetStats.finalize, lat) >= fleetStats.finalize => NoBetter(t, fleetStats)
      BY <1>2, <2>2, FleetTimeoutOk
    <2> HIDE DEF t, u
    <2>6. t.failure \in Nat /\ t.timeout \in Nat
      BY <2>5 DEF FleetOk, FleetType
    <2>7. Tried(r)'
      BY <1>1, <2>3, <2>4 DEF Tried
    <2>8. Tried(r) /\ NoFaster(relayStats'[r], relayStats[r]) => NoBetter(relayStats'[r], relayStats[r])
      BY <2>3, <2>4 DEF Entry, NoFaster
    <2>9. NoFaster(fleetStats', fleetStats) => NoBetter(fleetStats', fleetStats)
      BY <2>3, <2>5 DEF NoFaster
    <2>10. QED
      BY <1>2, <1>3, <2>3, <2>5, <2>6, <2>7, <2>8, <2>9
  <1>6. QED
    BY <1>4, <1>5

\* It does not improve the relay's score.
LEMMA NeverPromotesStep ==
  ASSUME HelpInv, HelpInv', NEW r \in Relays, Tried(r), Refusal(r) \/ Timeout(r), NoFaster(relayStats'[r], relayStats[r])
  PROVE  Score(r)' >= Score(r) /\ Score(r)' \in Int /\ Score(r) \in Int
  <1>1. NoBetter(relayStats'[r], relayStats[r]) /\ Tried(r)'
    BY BadOutcomeIsWorse
  <1>2. IsRecord(relayStats[r]) /\ relayStats[r].accept \in Nat
    BY DEF HelpInv, PolicyInv, IsRecord, Shares
  <1>3. IsRecord(relayStats'[r]) /\ relayStats'[r].accept \in Nat
    BY <1>1 DEF HelpInv, PolicyInv, IsRecord, Shares, Tried
  <1>4. ScoreOf(relayStats'[r]) >= ScoreOf(relayStats[r]) /\ ScoreOf(relayStats'[r]) \in Int /\ ScoreOf(relayStats[r]) \in Int
    BY <1>1, <1>2, <1>3, ScoreGrows
  <1>5. Score(r) = ScoreOf(relayStats[r])
    BY ScoreOfTried
  <1>6. Score(r)' = ScoreOf(relayStats'[r])
    BY <1>1 DEF Score, ScoreOf, RelayPressure, Quoted, Pressure, Tried
  <1>7. QED
    BY <1>4, <1>5, <1>6

\* Nor does it relax the regime.
LEMMA NeverRelaxesStep ==
  ASSUME HelpInv, NEW r \in Relays, Refusal(r) \/ Timeout(r), NoFaster(fleetStats', fleetStats), NEW m \in Markets
  PROVE  PreflightRegime(fleetStats', m) >= PreflightRegime(fleetStats, m)
  <1>1. /\ FleetOk(fleetStats) /\ FleetOk(fleetStats') /\ NoBetter(fleetStats', fleetStats)
        /\ fleetStats.failure <= fleetStats'.failure /\ fleetStats.timeout <= fleetStats'.timeout
    BY BadOutcomeIsWorse
  <1>2. fleetStats \in FleetType /\ fleetStats' \in FleetType
    BY <1>1 DEF FleetOk
  <1>3. /\ LevelOf(fleetStats, m) \in 0..3 /\ LevelOf(fleetStats', m) \in 0..3
        /\ LevelOf(fleetStats, m) <= LevelOf(fleetStats', m)
    BY <1>1, <1>2, LevelOfGrows
  <1>4. PreflightRegime(fleetStats, m) = LevelOf(fleetStats, m)
    BY RegimeIs
  <1>5. PreflightRegime(fleetStats', m) = LevelOf(fleetStats', m)
    BY RegimeIs
  <1>6. QED
    BY <1>3, <1>4, <1>5

\* The averaged records are an invariant of the policy.
LEMMA PolicyKeepsHelpInv == PolicySpec => []HelpInv
  <1>1. PolicyInit => HelpInv
    <2>1. SUFFICES ASSUME PolicyInit PROVE HelpInv
      OBVIOUS
    <2>2. PolicyInv /\ \A r \in Relays : ~Tried(r)
      BY <2>1 DEF PolicyInit, PolicyInv, Untried, NewStats, StatsType, Tried
    <2>3. NewFleet \in FleetType
      BY DEF NewFleet, FleetType
    <2>4. Averaged(NewFleet) /\ NewFleet.failure <= One /\ NewFleet.timeout <= One
      BY DEF Averaged, NewFleet, One
    <2>5. QED
      BY <2>1, <2>2, <2>3, <2>4 DEF PolicyInit, HelpInv, FleetOk
  <1>2. HelpInv /\ [PolicyNext]_policyVars => HelpInv'
    <2>1. CASE PolicyNext
      BY <2>1, StepKeepsHelpInv
    <2>2. CASE UNCHANGED policyVars
      BY <2>2 DEF HelpInv, PolicyInv, policyVars, Tried, Shares, FleetOk, Averaged
    <2>3. QED
      BY <2>1, <2>2
  <1>3. QED
    BY <1>1, <1>2, PTL DEF PolicySpec
-----------------------------------------------------------------------------
(***************************************************************************)
(* The cluster's record.  A timeout raises its weight in the score, and    *)
(* also the number of samples it is weighed by: that matters only for a    *)
(* record that speaks for the relay, and of such a record a timeout leaves *)
(* less than half.                                                         *)
(***************************************************************************)
ContextType == [inclusion : Nat, miss : Nat, revert : Nat, capture : Nat, samples : Nat]

\* What a cluster's record adds to the score, in full.
Raw(c)        == 22 * c.miss + 10 * c.revert - 6 * c.inclusion
Adjustment(c) == (Raw(c) * Confidence(c)) \div 2400

ContextOk(c) ==
  /\ c \in ContextType
  /\ c.inclusion + c.miss + c.revert <= One - 4
  /\ c.samples = 0 => Raw(c) >= 0

ContextInv == contextStats \in [Relays -> ContextType] /\ \A r \in Relays : ContextOk(contextStats[r])

\* The endings of a submission as the cluster counts them.
Ending(i, m, v) == i \in {0, One} /\ m \in {0, One} /\ v \in {0, One} /\ i + m + v <= One

\* A sample keeps a cluster's record one.
LEMMA SampleKeepsContext ==
  ASSUME NEW c, ContextOk(c), NEW i, NEW m, NEW v, Ending(i, m, v), NEW cap \in Nat
  PROVE  LET d == InContext(c, i, m, v, cap)
         IN  /\ ContextOk(d) /\ d.samples = c.samples + 1
             /\ d.inclusion = Fast(c.inclusion, i) /\ d.miss = Fast(c.miss, m) /\ d.revert = Fast(c.revert, v)
  <1> DEFINE d == InContext(c, i, m, v, cap)
             a == Fast(c.inclusion, i)
             b == Fast(c.miss, m)
             e == Fast(c.revert, v)
             k == Fast(c.capture, cap)
  <1>1. /\ c.inclusion \in Nat /\ c.miss \in Nat /\ c.revert \in Nat /\ c.capture \in Nat /\ c.samples \in Nat
        /\ i \in Nat /\ m \in Nat /\ v \in Nat /\ c.inclusion + c.miss + c.revert <= One - 4 /\ i + m + v <= One
    BY OneNat DEF ContextOk, ContextType, Ending
  <1>2. a \in Nat /\ 5 * a <= 4 * c.inclusion + i
    BY <1>1, FastBounds
  <1>3. b \in Nat /\ 5 * b <= 4 * c.miss + m
    BY <1>1, FastBounds
  <1>4. e \in Nat /\ 5 * e <= 4 * c.revert + v
    BY <1>1, FastBounds
  <1>5. k \in Nat
    BY <1>1, FastBounds
  <1>6. d = [inclusion |-> a, miss |-> b, revert |-> e, capture |-> k, samples |-> c.samples + 1]
    BY DEF InContext
  <1> HIDE DEF a, b, e, k, d
  <1>7. a + b + e <= One - 4
    BY <1>1, <1>2, <1>3, <1>4 DEF One
  <1>8. d.inclusion = a /\ d.miss = b /\ d.revert = e /\ d.samples = c.samples + 1
    BY <1>6
  <1>9. d \in ContextType /\ d.samples # 0
    BY <1>1, <1>2, <1>3, <1>4, <1>5, <1>6 DEF ContextType
  <1>10. ContextOk(d)
    BY <1>7, <1>8, <1>9 DEF ContextOk
  <1>11. QED
    BY <1>8, <1>10 DEF a, b, e, d

\* A step that samples the cluster's record of one relay, or none, keeps the records.
LEMMA LearnKeepsContext ==
  ASSUME ContextInv, NEW r \in Relays, NEW here \in BOOLEAN, NEW i, NEW m, NEW v, Ending(i, m, v), NEW cap \in Nat,
         LearnContext(r, here, i, m, v, cap)
  PROVE  ContextInv'
  <1>1. ContextOk(InContext(contextStats[r], i, m, v, cap))
    BY SampleKeepsContext DEF ContextInv
  <1>2. CASE here
    BY <1>1, <1>2 DEF LearnContext, ContextInv, ContextOk, Raw
  <1>3. CASE ~here
    BY <1>3 DEF LearnContext, ContextInv, ContextOk, Raw
  <1>4. QED
    BY <1>2, <1>3

\* The four endings.
LEMMA Endings == Ending(0, 0, 0) /\ Ending(One, 0, 0) /\ Ending(0, One, 0) /\ Ending(0, 0, One)
  BY DEF Ending, One

\* The clusters' records are an invariant of the policy.
LEMMA PolicyKeepsContext == PolicySpec => []ContextInv
  <1>1. PolicyInit => ContextInv
    BY DEF PolicyInit, ContextInv, ContextOk, ContextType, NewContext, Raw, One
  <1>2. ContextInv /\ [PolicyNext]_policyVars => ContextInv'
    <2>1. SUFFICES ASSUME ContextInv, [PolicyNext]_policyVars PROVE ContextInv'
      OBVIOUS
    <2>2. CASE PolicyNext
      <3>1. PICK r \in Relays, lat \in Nat, here \in BOOLEAN, cap \in Nat : OutcomeOf(r, lat, here, cap)
        BY <2>2, StepIsOutcome
      <3>2. CASE SubmitAccepted(r, lat)
        BY <2>1, <3>2 DEF SubmitAccepted, ContextInv, ContextOk, Raw
      <3>3. CASE SubmitRefused(r, lat, here)
        BY <2>1, <3>3, Endings, LearnKeepsContext DEF SubmitRefused
      <3>4. CASE Included(r, lat, cap, here)
        BY <2>1, <3>4, Endings, LearnKeepsContext DEF Included
      <3>5. CASE Reverted(r, lat, here)
        BY <2>1, <3>5, Endings, LearnKeepsContext DEF Reverted
      <3>6. CASE ReceiptTimeout(r, lat, here)
        BY <2>1, <3>6, Endings, LearnKeepsContext DEF ReceiptTimeout
      <3>7. QED
        BY <3>1, <3>2, <3>3, <3>4, <3>5, <3>6 DEF OutcomeOf
    <2>3. CASE UNCHANGED policyVars
      BY <2>1, <2>3 DEF ContextInv, ContextOk, policyVars, Raw
    <2>4. QED
      BY <2>1, <2>2, <2>3
  <1>3. QED
    BY <1>1, <1>2, PTL DEF PolicySpec

\* A product with a weight that grows, of a number that does not fall or loses half at most of
\* what it is below zero.
LEMMA WeighedGrows ==
  ASSUME NEW x \in Int, NEW y \in Int, NEW n \in Nat, NEW k \in Nat, n <= k,
         0 <= y, x <= y
  PROVE  x * n <= y * k
  <1>1. x * n <= y * n
    BY SMT
  <1>2. y * n <= y * k
    BY SMT
  <1>3. x * n \in Int /\ y * n \in Int /\ y * k \in Int
    OBVIOUS
  <1>4. QED
    BY <1>1, <1>2, <1>3

\* The same below zero.
LEMMA WeighedHalves ==
  ASSUME NEW x \in Int, NEW y \in Int, NEW n \in Nat, NEW k \in Nat, k <= 2 * n, y < 0, x <= 2 * y
  PROVE  x * n <= y * k
  <1>1. x * n <= (2 * y) * n
    BY SMT
  <1>2. y * (2 * n) <= y * k
    BY SMT
  <1>3. x * n \in Int /\ (2 * y) * n = y * (2 * n) /\ y * (2 * n) \in Int /\ y * k \in Int
    BY SMT
  <1>4. QED
    BY <1>1, <1>2, <1>3

\* A timeout in the cluster does not lower what the cluster's record adds.
LEMMA TimeoutAdjusts ==
  ASSUME NEW c, ContextOk(c)
  PROVE  LET d == InContext(c, 0, One, 0, 0)
         IN  Adjustment(c) \in Int /\ Adjustment(d) \in Int /\ Adjustment(c) <= Adjustment(d)
  <1> DEFINE d == InContext(c, 0, One, 0, 0)
             x == Raw(c)
             y == Raw(d)
             n == Confidence(c)
             k == Confidence(d)
  <1>1. ContextOk(d) /\ d.samples = c.samples + 1 /\ d.inclusion = Fast(c.inclusion, 0)
        /\ d.miss = Fast(c.miss, One) /\ d.revert = Fast(c.revert, 0)
    BY Endings, SampleKeepsContext
  <1> HIDE DEF d
  <1>2. /\ c.inclusion \in Nat /\ c.miss \in Nat /\ c.revert \in Nat /\ c.samples \in Nat
        /\ c.inclusion + c.miss + c.revert <= One - 4
        /\ d.inclusion \in Nat /\ d.miss \in Nat /\ d.revert \in Nat
    BY <1>1 DEF ContextOk, ContextType
  <1>3. /\ d.miss >= c.miss /\ d.miss + d.revert >= c.miss + c.revert
    BY <1>1, <1>2, MissesOutweighReverts
  <1>4. 5 * d.inclusion <= 4 * c.inclusion + 0
    BY <1>1, <1>2, FastBounds
  <1>5. 5 * d.miss >= 4 * c.miss + One - 4
    BY <1>1, <1>2, OneNat, FastBounds
  <1>6. 5 * d.revert >= 4 * c.revert + 0 - 4
    BY <1>1, <1>2, FastBounds
  <1>7. x \in Int /\ y \in Int /\ x <= y /\ x >= -60000 /\ 5 * y >= 4 * x + 219872
    BY <1>2, <1>3, <1>4, <1>5, <1>6, SMT DEF Raw, One
  <1>8. n \in Nat /\ k \in Nat /\ n <= k /\ k <= n + 1 /\ (n = 0 => c.samples = 0)
    BY <1>1, <1>2 DEF Confidence
  <1>9. n = 0 => x >= 0
    BY <1>8 DEF ContextOk
  <1> HIDE DEF x, y, n, k
  <1>10. x * n <= y * k
    <2>1. CASE 0 <= y
      BY <1>7, <1>8, <2>1, WeighedGrows
    <2>2. CASE y < 0
      <3>1. n # 0 /\ x <= 2 * y
        BY <1>7, <1>9, <2>2, SMT
      <3>2. k <= 2 * n
        BY <1>8, <3>1
      <3>3. QED
        BY <1>7, <1>8, <2>2, <3>1, <3>2, WeighedHalves
    <2>3. QED
      BY <1>7, <2>1, <2>2
  <1>11. x * n \in Int /\ y * k \in Int
    BY <1>7, <1>8
  <1> DEFINE p == x * n
             q == y * k
  <1>12. p \in Int /\ q \in Int /\ p <= q
    BY <1>10, <1>11
  <1> HIDE DEF p, q
  <1>13. p \div 2400 \in Int /\ q \div 2400 \in Int /\ p \div 2400 <= q \div 2400
    BY <1>12, SMT
  <1>14. Adjustment(c) = p \div 2400 /\ Adjustment(d) = q \div 2400
    BY DEF Adjustment, p, q, x, y, n, k
  <1>15. QED
    BY <1>13, <1>14 DEF d

\* The score in the cluster, from the relay's and what the cluster's record adds.
Clamped(x) == IF x < 0 THEN 0 ELSE IF x > 2 * One THEN 2 * One ELSE x
LEMMA InClusterIs ==
  ASSUME NEW score, NEW c
  PROVE  InCluster(score, c) = Clamped(score + Adjustment(c))
  BY DEF InCluster, Clamped, Adjustment, Raw

\* It grows with both.
LEMMA ClampedGrows ==
  ASSUME NEW x \in Int, NEW y \in Int, x <= y
  PROVE  Clamped(x) <= Clamped(y) /\ Clamped(y) >= Clamped(x)
  BY DEF Clamped, One

\* A timeout does not improve the relay's score in the cluster, whichever cluster it happened in.
LEMMA NeverPromotesInCluster ==
  ASSUME HelpInv, HelpInv', ContextInv, NEW r \in Relays, Tried(r), Timeout(r), NoFaster(relayStats'[r], relayStats[r])
  PROVE  ClusterScore(r)' >= ClusterScore(r)
  <1>1. Score(r)' >= Score(r) /\ Score(r)' \in Int /\ Score(r) \in Int
    BY NeverPromotesStep
  <1>2. PICK here \in BOOLEAN : LearnContext(r, here, 0, One, 0, 0)
    BY DEF Timeout, ReceiptTimeout
  <1> DEFINE a == Adjustment(contextStats[r])
             b == Adjustment(contextStats'[r])
             x == Score(r)
             y == Score(r)'
  <1>3. a \in Int /\ b \in Int /\ a <= b
    <2>1. ContextOk(contextStats[r])
      BY DEF ContextInv
    <2>2. CASE here
      <3>1. contextStats'[r] = InContext(contextStats[r], 0, One, 0, 0)
        BY <1>2, <2>2 DEF LearnContext, ContextInv
      <3>2. QED
        BY <2>1, <3>1, TimeoutAdjusts
    <2>3. CASE ~here
      <3>1. contextStats'[r] = contextStats[r]
        BY <1>2, <2>3 DEF LearnContext
      <3>2. a \in Int
        BY <2>1, TimeoutAdjusts
      <3>3. QED
        BY <3>1, <3>2
    <2>4. QED
      BY <2>2, <2>3
  <1>4. ClusterScore(r) = Clamped(x + a)
    BY InClusterIs DEF ClusterScore
  <1>5. ClusterScore(r)' = Clamped(y + b)
    <2>1. ClusterScore(r)' = InCluster(y, contextStats'[r])
      BY DEF ClusterScore, InCluster, Confidence
    <2>2. QED
      BY <2>1, InClusterIs
  <1> HIDE DEF a, b, x, y
  <1>6. x + a \in Int /\ y + b \in Int /\ x + a <= y + b
    BY <1>1, <1>3 DEF x, y
  <1>7. QED
    BY <1>4, <1>5, <1>6, ClampedGrows

\* Whatever the relays have done before and whatever latencies were measured, record_submit_failure and
\* record_receipt_timeout improve no score that the relays are ranked by, but for a refusal the
\* cluster's, and not the regime of preflight_score, unless the call was faster than the average.
THEOREM PolicyBadOutcomeNeverHelps == PolicySpec => BadOutcomeNeverHelps
  <1>1. HelpInv /\ HelpInv' /\ ContextInv /\ [PolicyNext]_policyVars
          => [\A r \in Relays : Tried(r) /\ NoFaster(relayStats'[r], relayStats[r]) =>
                /\ Refusal(r) \/ Timeout(r) => Score(r)' >= Score(r)
                /\ Timeout(r) => ClusterScore(r)' >= ClusterScore(r)]_policyVars
    BY NeverPromotesStep, NeverPromotesInCluster
  <1>2. HelpInv /\ [PolicyNext]_policyVars
          => [\A r \in Relays : (Refusal(r) \/ Timeout(r)) /\ NoFaster(fleetStats', fleetStats) =>
                \A m \in Markets : PreflightRegime(fleetStats', m) >= PreflightRegime(fleetStats, m)]_policyVars
    BY NeverRelaxesStep
  <1>3. QED
    BY <1>1, <1>2, PolicyKeepsHelpInv, PolicyKeepsContext, PTL
       DEF PolicySpec, BadOutcomeNeverHelps, BadOutcomeNeverPromotes, BadOutcomeNeverRelaxes
-----------------------------------------------------------------------------
(***************************************************************************)
(* A failed relay is not ranked first.  The record of a relay without      *)
(* failures goes through the stages of GoodAt, which bound what it costs   *)
(* in the score from above; the record of one without inclusions costs     *)
(* enough from the start, and every outcome but an inclusion keeps it so.  *)
(***************************************************************************)
Within(s, accept, reject, miss, revert, inclusion, capture) ==
  /\ s.accept >= accept /\ s.reject <= reject /\ s.miss <= miss /\ s.revert <= revert
  /\ s.inclusion >= inclusion /\ s.capture >= capture

\* New, in flight, included once, in flight again, later.
GoodAt(s, n) ==
  \/ n = 0 /\ Within(s, 7600, 1600, 1400, 800, 5800, 8200)
  \/ n = 1 /\ Within(s, 8080, 1280, 1120, 640, 5800, 8200)
  \/ n = 2 /\ Within(s, 8080, 1280, 896, 512, 6640, 7544)
  \/ n = 3 /\ Within(s, 8464, 1024, 716, 409, 6640, 7544)
  \/ n = 4 /\ Within(s, 8464, 1024, 572, 327, 7312, 0)

GoodSoFar(r) ==
  \E n \in 0..4 : /\ GoodAt(Entry(r), n)
                  /\ n \in {0, 2} => r \notin flying
                  /\ n \in {1, 3} => r \in flying
                  /\ r \in included => n \in {2, 3, 4}

\* What a record costs: its submissions, its losses and the inclusions it lacks.
SubmitCost(s) == 1248 * s.reject + 2576 * (One - s.accept)
LossCost(s)   == 2552 * s.miss + 1472 * s.revert
LackCost(s)   == 1076 * (One - s.inclusion)

\* An acceptance takes a fifth of the first two.
Settled(s)  == s.inclusion <= 5800 /\ 8 * (SubmitCost(s) + LossCost(s)) + 10 * LackCost(s) >= 142000000
InFlight(s) == s.inclusion <= 5800 /\ 10 * (SubmitCost(s) + LossCost(s) + LackCost(s)) >= 141957824

BadSoFar(r) == IF r \in flying THEN InFlight(Entry(r)) ELSE Settled(Entry(r))

\* The same for a cluster's record: refusals make it smaller, and only rounding makes it better.
GoodContext(c) == c = NewContext \/ (c.inclusion >= 6640 /\ c.miss <= 1120 /\ c.revert <= 640)
BadContext(c)  == Raw(c) >= -128

RelayRank(r) ==
  /\ r \in included \cup missed => Tried(r)
  /\ r \notin missed => GoodSoFar(r) /\ GoodContext(contextStats[r])
  /\ r \notin included => BadSoFar(r) /\ BadContext(contextStats[r])

RankInv ==
  /\ flying \subseteq Relays /\ \A p, q \in flying : p = q
  /\ included \subseteq Relays /\ missed \subseteq Relays
  /\ \A r \in Relays : RelayRank(r)

\* An average grows with what it was and with its sample.
LEMMA FastGrows ==
  ASSUME NEW a \in Nat, NEW b \in Nat, NEW c \in Nat, NEW d \in Nat, a <= c, b <= d
  PROVE  Fast(a, b) <= Fast(c, d) /\ Fast(c, d) >= Fast(a, b)
  BY DEF Fast

\* An acceptance takes a good record one stage further.
LEMMA AcceptKeepsGood ==
  ASSUME NEW s, IsRecord(s), s.accept \in Nat, s.accept <= One, NEW lat, NEW n \in {0, 2, 4}, GoodAt(s, n)
  PROVE  GoodAt(Accepted(s, lat), IF n = 4 THEN 4 ELSE n + 1)
  <1> DEFINE t == Accepted(s, lat)
             a == s.accept
             j == s.reject
             m == s.miss
             v == s.revert
  <1>1. /\ t.accept = Fast(a, One) /\ t.reject = Fast(j, 0) /\ t.inclusion = s.inclusion
        /\ t.miss = Fast(m, 0) /\ t.revert = Fast(v, 0) /\ t.capture = s.capture
    BY AcceptedFields
  <1>2. /\ a \in Nat /\ j \in Nat /\ s.inclusion \in Nat /\ m \in Nat /\ v \in Nat /\ s.capture \in Nat /\ a <= One
    BY FieldsAreNat
  <1> HIDE DEF t, a, j, m, v
  <1>3. CASE n = 0
    <2>1. Within(s, 7600, 1600, 1400, 800, 5800, 8200)
      BY <1>3 DEF GoodAt
    <2>2. a >= 7600 /\ j <= 1600 /\ m <= 1400 /\ v <= 800 /\ s.inclusion >= 5800 /\ s.capture >= 8200
      BY <2>1 DEF Within, a, j, m, v
    <2>3. Fast(a, One) >= 8080 /\ Fast(j, 0) <= 1280 /\ Fast(m, 0) <= 1120 /\ Fast(v, 0) <= 640
      BY <1>2, <2>2, SMT DEF Fast, One
    <2>4. Within(t, 8080, 1280, 1120, 640, 5800, 8200)
      BY <1>1, <2>2, <2>3 DEF Within
    <2>5. QED
      BY <1>3, <2>4 DEF GoodAt, t
  <1>4. CASE n = 2
    <2>1. Within(s, 8080, 1280, 896, 512, 6640, 7544)
      BY <1>4 DEF GoodAt
    <2>2. a >= 8080 /\ j <= 1280 /\ m <= 896 /\ v <= 512 /\ s.inclusion >= 6640 /\ s.capture >= 7544
      BY <2>1 DEF Within, a, j, m, v
    <2>3. Fast(a, One) >= 8464 /\ Fast(j, 0) <= 1024 /\ Fast(m, 0) <= 716 /\ Fast(v, 0) <= 409
      BY <1>2, <2>2, SMT DEF Fast, One
    <2>4. Within(t, 8464, 1024, 716, 409, 6640, 7544)
      BY <1>1, <2>2, <2>3 DEF Within
    <2>5. QED
      BY <1>4, <2>4 DEF GoodAt, t
  <1>5. CASE n = 4
    <2>1. Within(s, 8464, 1024, 572, 327, 7312, 0)
      BY <1>5 DEF GoodAt
    <2>2. a >= 8464 /\ j <= 1024 /\ m <= 572 /\ v <= 327 /\ s.inclusion >= 7312 /\ s.capture >= 0
      BY <2>1 DEF Within, a, j, m, v
    <2>3. Fast(a, One) >= 8464 /\ Fast(j, 0) <= 1024 /\ Fast(m, 0) <= 572 /\ Fast(v, 0) <= 327
      BY <1>2, <2>2, SMT DEF Fast, One
    <2>4. Within(t, 8464, 1024, 572, 327, 7312, 0)
      BY <1>1, <2>2, <2>3 DEF Within
    <2>5. QED
      BY <1>5, <2>4 DEF GoodAt, t
  <1>6. QED
    BY <1>3, <1>4, <1>5

\* An inclusion does, whatever it realized.
Improved(t, s, cap) ==
  /\ t.accept = s.accept /\ t.reject = s.reject /\ t.inclusion = Fast(s.inclusion, One)
  /\ t.miss = Fast(s.miss, 0) /\ t.revert = Fast(s.revert, 0) /\ t.capture = Slow(s.capture, cap)

LEMMA IncludeKeepsGood ==
  ASSUME NEW s, IsRecord(s), s.accept \in Nat, s.inclusion <= One, NEW cap \in Nat,
         NEW t, Improved(t, s, cap), NEW n \in {1, 3, 4}, GoodAt(s, n)
  PROVE  GoodAt(t, IF n = 4 THEN 4 ELSE n + 1)
  <1> DEFINE i == s.inclusion
             c == s.capture
             m == s.miss
             v == s.revert
  <1>1. /\ t.accept = s.accept /\ t.reject = s.reject /\ t.inclusion = Fast(i, One)
        /\ t.miss = Fast(m, 0) /\ t.revert = Fast(v, 0) /\ t.capture = Slow(c, cap)
    BY DEF Improved
  <1>2. /\ s.accept \in Nat /\ s.reject \in Nat /\ i \in Nat /\ m \in Nat /\ v \in Nat /\ c \in Nat /\ i <= One
    BY FieldsAreNat
  <1> HIDE DEF i, c, m, v
  <1>3. CASE n = 1
    <2>1. Within(s, 8080, 1280, 1120, 640, 5800, 8200)
      BY <1>3 DEF GoodAt
    <2>2. s.accept >= 8080 /\ s.reject <= 1280 /\ m <= 1120 /\ v <= 640 /\ i >= 5800 /\ c >= 8200
      BY <2>1 DEF Within, i, c, m, v
    <2>3. Fast(i, One) >= 6640 /\ Fast(m, 0) <= 896 /\ Fast(v, 0) <= 512 /\ Slow(c, cap) >= 7544
      BY <1>2, <2>2, SMT DEF Fast, Slow, One
    <2>4. Within(t, 8080, 1280, 896, 512, 6640, 7544)
      BY <1>1, <2>2, <2>3 DEF Within
    <2>5. QED
      BY <1>3, <2>4 DEF GoodAt
  <1>4. CASE n = 3
    <2>1. Within(s, 8464, 1024, 716, 409, 6640, 7544)
      BY <1>4 DEF GoodAt
    <2>2. s.accept >= 8464 /\ s.reject <= 1024 /\ m <= 716 /\ v <= 409 /\ i >= 6640
      BY <2>1 DEF Within, i, m, v
    <2>3. Fast(i, One) >= 7312 /\ Fast(m, 0) <= 572 /\ Fast(v, 0) <= 327 /\ Slow(c, cap) >= 0
      BY <1>2, <2>2, SMT DEF Fast, Slow, One
    <2>4. Within(t, 8464, 1024, 572, 327, 7312, 0)
      BY <1>1, <2>2, <2>3 DEF Within
    <2>5. QED
      BY <1>4, <2>4 DEF GoodAt
  <1>5. CASE n = 4
    <2>1. Within(s, 8464, 1024, 572, 327, 7312, 0)
      BY <1>5 DEF GoodAt
    <2>2. s.accept >= 8464 /\ s.reject <= 1024 /\ m <= 572 /\ v <= 327 /\ i >= 7312
      BY <2>1 DEF Within, i, m, v
    <2>3. Fast(i, One) >= 7312 /\ Fast(m, 0) <= 572 /\ Fast(v, 0) <= 327 /\ Slow(c, cap) >= 0
      BY <1>2, <2>2, SMT DEF Fast, Slow, One
    <2>4. Within(t, 8464, 1024, 572, 327, 7312, 0)
      BY <1>1, <2>2, <2>3 DEF Within
    <2>5. QED
      BY <1>5, <2>4 DEF GoodAt
  <1>6. QED
    BY <1>3, <1>4, <1>5

\* The costs of a record as numbers.
LEMMA CostsAre ==
  ASSUME NEW s, IsRecord(s), s.accept \in Nat
  PROVE  /\ SubmitCost(s) \in Int /\ LossCost(s) \in Nat /\ LackCost(s) \in Int
         /\ SubmitCost(s) = 1248 * s.reject + 2576 * (10000 - s.accept)
         /\ LossCost(s) = 2552 * s.miss + 1472 * s.revert
         /\ LackCost(s) = 1076 * (10000 - s.inclusion)
  <1>1. /\ s.accept \in Nat /\ s.reject \in Nat /\ s.inclusion \in Nat /\ s.miss \in Nat /\ s.revert \in Nat
    BY FieldsAreNat
  <1>2. QED
    BY <1>1, SMT DEF SubmitCost, LossCost, LackCost, One

\* A failed relay's record after an acceptance.
LEMMA AcceptKeepsBad ==
  ASSUME NEW s, IsRecord(s), s.accept \in Nat, s.accept <= One, NEW lat \in Nat,
         NEW t, t = Accepted(s, lat), IsRecord(t), t.accept \in Nat, Settled(s)
  PROVE  InFlight(t)
  <1> DEFINE a == s.accept
             j == s.reject
             m == s.miss
             v == s.revert
             i == s.inclusion
             b == t.accept
             k == t.reject
             n == t.miss
             w == t.revert
  <1>1. /\ b = Fast(a, One) /\ k = Fast(j, 0) /\ t.inclusion = i /\ n = Fast(m, 0) /\ w = Fast(v, 0)
    BY AcceptedFields
  <1>2. a \in Nat /\ j \in Nat /\ i \in Nat /\ m \in Nat /\ v \in Nat
    BY FieldsAreNat
  <1>3. /\ b \in Nat /\ k \in Nat /\ n \in Nat /\ w \in Nat
        /\ 5 * b <= 4 * a + 10000 /\ 5 * k >= 4 * j - 4 /\ 5 * n >= 4 * m - 4 /\ 5 * w >= 4 * v - 4
    <2> HIDE DEF a, j, m, v, b, k, n, w
    <2>1. QED
      BY <1>1, <1>2, SMT DEF Fast, One
  <1>4. i <= 5800 /\ 8 * (1248 * j + 2576 * (10000 - a) + 2552 * m + 1472 * v) + 10 * (1076 * (10000 - i)) >= 142000000
    BY CostsAre, <1>2, SMT DEF Settled
  <1>5. 10 * (1248 * k + 2576 * (10000 - b) + 2552 * n + 1472 * w + 1076 * (10000 - i)) >= 141957824
    <2> HIDE DEF a, j, m, v, i, b, k, n, w
    <2>1. QED
      BY <1>2, <1>3, <1>4, SMT
  <1>6. QED
    BY <1>1, <1>2, <1>3, <1>4, <1>5, CostsAre, SMT DEF InFlight

\* After a refusal.
LEMMA RefuseKeepsBad ==
  ASSUME NEW s, IsRecord(s), s.accept \in Nat, s.reject <= One, NEW lat \in Nat,
         NEW t, t = Refused(s, lat), IsRecord(t), t.accept \in Nat, Settled(s)
  PROVE  Settled(t)
  <1> DEFINE a == s.accept
             j == s.reject
             m == s.miss
             v == s.revert
             i == s.inclusion
             b == t.accept
             k == t.reject
  <1>1. b = Fast(a, 0) /\ k = Fast(j, One) /\ t.inclusion = i /\ t.miss = m /\ t.revert = v
    BY RefusedFields
  <1>2. a \in Nat /\ j \in Nat /\ i \in Nat /\ m \in Nat /\ v \in Nat /\ j <= One
    BY FieldsAreNat
  <1>3. b \in Nat /\ k \in Nat /\ b <= a /\ k >= j
    <2> HIDE DEF a, j, b, k
    <2>1. QED
      BY <1>1, <1>2, SMT DEF Fast, One
  <1>4. i <= 5800 /\ 8 * (1248 * j + 2576 * (10000 - a) + 2552 * m + 1472 * v) + 10 * (1076 * (10000 - i)) >= 142000000
    BY CostsAre, <1>2, SMT DEF Settled
  <1>5. 8 * (1248 * k + 2576 * (10000 - b) + 2552 * m + 1472 * v) + 10 * (1076 * (10000 - i)) >= 142000000
    <2> HIDE DEF a, j, m, v, i, b, k
    <2>1. QED
      BY <1>2, <1>3, <1>4, SMT
  <1>6. QED
    BY <1>1, <1>2, <1>3, <1>4, <1>5, CostsAre, SMT DEF Settled

\* After a revert or a timeout, which the record shows in one of two rates.
Lost(t, s) ==
  /\ t.accept = s.accept /\ t.reject = s.reject /\ t.inclusion = Fast(s.inclusion, 0)
  /\ \/ t.miss = Fast(s.miss, One) /\ t.revert = Fast(s.revert, 0)
     \/ t.miss = Fast(s.miss, 0) /\ t.revert = Fast(s.revert, One)

LEMMA LoseKeepsBad ==
  ASSUME NEW s, IsRecord(s), s.accept \in Nat, s.accept <= One, NEW t, IsRecord(t), t.accept \in Nat,
         Lost(t, s), InFlight(s)
  PROVE  Settled(t)
  <1> DEFINE a == s.accept
             j == s.reject
             m == s.miss
             v == s.revert
             i == s.inclusion
             n == t.miss
             w == t.revert
             e == t.inclusion
  <1>1. /\ t.accept = a /\ t.reject = j /\ e = Fast(i, 0)
        /\ \/ n = Fast(m, One) /\ w = Fast(v, 0)
           \/ n = Fast(m, 0) /\ w = Fast(v, One)
    BY DEF Lost
  <1>2. a \in Nat /\ j \in Nat /\ i \in Nat /\ m \in Nat /\ v \in Nat /\ a <= 10000
    BY FieldsAreNat DEF One
  <1>3. /\ e \in Nat /\ n \in Nat /\ w \in Nat /\ 5 * e <= 4 * i
        /\ \/ 5 * n >= 4 * m + 9996 /\ 5 * w >= 4 * v - 4
           \/ 5 * n >= 4 * m - 4 /\ 5 * w >= 4 * v + 9996
    <2> HIDE DEF m, v, i, n, w, e
    <2>1. QED
      BY <1>1, <1>2, SMT DEF Fast, One
  <1>4. i <= 5800 /\ 10 * (1248 * j + 2576 * (10000 - a) + 2552 * m + 1472 * v + 1076 * (10000 - i)) >= 141957824
    BY CostsAre, <1>2, SMT DEF InFlight
  <1>5. e <= 5800 /\ 8 * (1248 * j + 2576 * (10000 - a) + 2552 * n + 1472 * w) + 10 * (1076 * (10000 - e)) >= 142000000
    <2> DEFINE u == 1248 * j + 2576 * (10000 - a)
               l == 2552 * m + 1472 * v
               k == 2552 * n + 1472 * w
    <2> HIDE DEF a, j, m, v, i, n, w, e
    <2>1. u \in Nat /\ l \in Int /\ k \in Int
      BY <1>2, <1>3, SMT
    <2>2. 5 * k >= 4 * l + 14703904
      BY <1>2, <1>3, SMT
    <2>3. 10 * (u + l + 1076 * (10000 - i)) >= 141957824
      BY <1>2, <1>4, SMT
    <2> HIDE DEF u, l, k
    <2>4. 8 * (u + k) + 10 * (1076 * (10000 - e)) >= 142000000
      BY <1>2, <1>3, <1>4, <2>1, <2>2, <2>3, SMT
    <2>5. QED
      BY <1>2, <1>3, <1>4, <2>4, SMT DEF u, k
  <1>6. QED
    BY <1>1, <1>2, <1>3, <1>5, CostsAre, SMT DEF Settled

\* An inclusion makes a cluster's record a good one and keeps it so.
LEMMA ContextStaysGood ==
  ASSUME NEW c, ContextOk(c), GoodContext(c), NEW cap \in Nat
  PROVE  GoodContext(InContext(c, One, 0, 0, cap))
  <1>1. c.inclusion \in Nat /\ c.miss \in Nat /\ c.revert \in Nat
    BY DEF ContextOk, ContextType
  <1>2. c.inclusion >= 5800 /\ c.miss <= 1400 /\ c.revert <= 800
    BY <1>1 DEF GoodContext, NewContext
  <1> DEFINE d == InContext(c, One, 0, 0, cap)
  <1>3. d.inclusion = Fast(c.inclusion, One) /\ d.miss = Fast(c.miss, 0) /\ d.revert = Fast(c.revert, 0)
    BY DEF InContext
  <1> HIDE DEF d
  <1>4. Fast(c.inclusion, One) >= 6640 /\ Fast(c.miss, 0) <= 1120 /\ Fast(c.revert, 0) <= 640
    BY <1>1, <1>2, SMT DEF Fast, One
  <1>5. QED
    BY <1>3, <1>4 DEF GoodContext, d

\* Nothing but an inclusion makes a failed relay's record in a cluster better, apart from rounding.
LEMMA ContextStaysBad ==
  ASSUME NEW c, ContextOk(c), BadContext(c), NEW m \in {0, One}, NEW v \in {0, One}, NEW cap \in Nat
  PROVE  BadContext(InContext(c, 0, m, v, cap))
  <1>1. c.inclusion \in Nat /\ c.miss \in Nat /\ c.revert \in Nat
    BY DEF ContextOk, ContextType
  <1> DEFINE d == InContext(c, 0, m, v, cap)
  <1>2. d.inclusion = Fast(c.inclusion, 0) /\ d.miss = Fast(c.miss, m) /\ d.revert = Fast(c.revert, v)
    BY DEF InContext
  <1> HIDE DEF d
  <1>3. m \in Nat /\ v \in Nat
    BY OneNat
  <1>4. /\ d.inclusion \in Nat /\ 5 * d.inclusion <= 4 * c.inclusion
        /\ d.miss \in Nat /\ 5 * d.miss >= 4 * c.miss - 4
        /\ d.revert \in Nat /\ 5 * d.revert >= 4 * c.revert - 4
    BY <1>1, <1>2, <1>3 DEF Fast
  <1>5. 22 * c.miss + 10 * c.revert - 6 * c.inclusion >= -128
    BY DEF BadContext, Raw
  <1>6. 22 * d.miss + 10 * d.revert - 6 * d.inclusion >= -128
    BY <1>1, <1>4, <1>5
  <1>7. QED
    BY <1>6 DEF BadContext, Raw, d

\* A relay that has just learnt has its new record as an entry; the others keep theirs.
LEMMA LearntEntries ==
  ASSUME PolicyInv, NEW r \in Relays, NEW own \in StatsType, own.accept \in Nat, NEW fleet, Learn(r, own, fleet)
  PROVE  /\ Entry(r)' = own /\ Tried(r)'
         /\ \A q \in Relays \ {r} : Entry(q)' = Entry(q) /\ (Tried(q)' <=> Tried(q))
  <1>1. relayStats' = [relayStats EXCEPT ![r] = own] /\ relayStats \in [Relays -> StatsType]
    BY DEF Learn, PolicyInv
  <1>2. relayStats'[r] = own /\ \A q \in Relays \ {r} : relayStats'[q] = relayStats[q]
    BY <1>1
  <1>3. own.accept # -1
    OBVIOUS
  <1>4. QED
    BY <1>2, <1>3 DEF Entry, Tried

\* A step that reports an outcome of one relay: it is enough to know that relay's rank.
LEMMA RankOfOne ==
  ASSUME RankInv, PolicyInv, NEW r \in Relays, NEW own \in StatsType, own.accept \in Nat, NEW fleet,
         Learn(r, own, fleet), RelayRank(r)',
         flying' \subseteq {r}, flying \subseteq {r},
         included' \subseteq Relays, missed' \subseteq Relays,
         \A q \in Relays \ {r} :
           /\ contextStats'[q] = contextStats[q]
           /\ q \in included' <=> q \in included
           /\ q \in missed' <=> q \in missed
  PROVE  RankInv'
  <1>1. ASSUME NEW q \in Relays \ {r} PROVE RelayRank(q)'
    <2>1. /\ Entry(q)' = Entry(q) /\ (Tried(q)' <=> Tried(q))
          /\ contextStats'[q] = contextStats[q] /\ q \notin flying /\ q \notin flying'
          /\ q \in included' <=> q \in included
          /\ q \in missed' <=> q \in missed
      BY LearntEntries
    <2>2. RelayRank(q)
      BY DEF RankInv
    <2>3. GoodSoFar(q) => GoodSoFar(q)'
      BY <2>1 DEF GoodSoFar
    <2>4. BadSoFar(q) => BadSoFar(q)'
      BY <2>1 DEF BadSoFar
    <2>5. QED
      BY <2>1, <2>2, <2>3, <2>4 DEF RelayRank
  <1>2. \A q \in Relays : RelayRank(q)'
    BY <1>1
  <1>3. flying' \subseteq Relays /\ \A p, q \in flying' : p = q
    OBVIOUS
  <1>4. QED
    BY <1>2, <1>3 DEF RankInv

\* The entry of a relay and its record in the cluster.
LEMMA RelayFacts ==
  ASSUME HelpInv, ContextInv, RankInv, NEW r \in Relays
  PROVE  /\ Entry(r) \in StatsType /\ IsRecord(Entry(r)) /\ Entry(r).accept \in Nat /\ Entry(r).inclusion <= One
         /\ Entry(r).reject <= One /\ Entry(r).accept <= One /\ Shares(Entry(r), outcomes) /\ outcomes \in Nat
         /\ ContextOk(contextStats[r]) /\ RelayRank(r) /\ PolicyInv
  <1>1. PolicyInv /\ RelayRank(r) /\ ContextOk(contextStats[r]) /\ outcomes \in Nat
    BY DEF HelpInv, RankInv, ContextInv, PolicyInv
  <1>2. Entry(r) \in StatsType /\ Entry(r).accept \in Nat /\ Shares(Entry(r), outcomes)
    BY <1>1, EntryShares DEF Shares
  <1>3. IsRecord(Entry(r)) /\ Averaged(Entry(r))
    BY EntryAveraged
  <1>4. Entry(r).reject <= One /\ Entry(r).accept <= One
    BY <1>3 DEF Averaged
  <1>5. Entry(r).inclusion <= One
    <2>1. Entry(r).inclusion \in Nat /\ Entry(r).miss \in Nat /\ Entry(r).revert \in Nat
      BY <1>2, <1>3, FieldsAreNat
    <2>2. Entry(r).inclusion + Entry(r).miss + Entry(r).revert <= One - 4
      BY <1>3 DEF Averaged
    <2>3. QED
      BY <2>1, <2>2, OneNat
  <1>6. QED
    BY <1>1, <1>2, <1>3, <1>4, <1>5

\* The cluster's record of the relay that an outcome is reported of, and of the others.
LEMMA ContextMoves ==
  ASSUME ContextInv, NEW r \in Relays, NEW here \in BOOLEAN, NEW i, NEW m, NEW v, NEW cap, LearnContext(r, here, i, m, v, cap)
  PROVE  /\ \A q \in Relays \ {r} : contextStats'[q] = contextStats[q]
         /\ \/ contextStats'[r] = contextStats[r]
            \/ contextStats'[r] = InContext(contextStats[r], i, m, v, cap)
  BY DEF ContextInv, LearnContext

\* An accepted submission.
LEMMA AcceptedKeepsRank ==
  ASSUME HelpInv, ContextInv, RankInv, NEW r \in Relays, NEW lat \in Nat, SubmitAccepted(r, lat)
  PROVE  RankInv'
  <1> DEFINE s == Entry(r)
             t == Accepted(s, lat)
  <1>1. /\ s \in StatsType /\ IsRecord(s) /\ s.accept \in Nat /\ s.accept <= One
        /\ Shares(s, outcomes) /\ outcomes \in Nat /\ RelayRank(r) /\ PolicyInv
    BY RelayFacts
  <1>2. /\ Learn(r, t, Accepted(fleetStats, lat)) /\ flying = {} /\ flying' = {r}
        /\ contextStats' = contextStats /\ included' = included /\ missed' = missed
    BY DEF SubmitAccepted
  <1>3. t \in StatsType /\ t.accept \in Nat
    BY <1>1, AcceptedKeepsShares DEF Shares
  <1>4. Entry(r)' = t /\ Tried(r)'
    BY <1>1, <1>2, <1>3, LearntEntries
  <1> HIDE DEF s, t
  <1>5. r \notin missed => GoodSoFar(r)'
    <2>1. SUFFICES ASSUME r \notin missed PROVE GoodSoFar(r)'
      OBVIOUS
    <2>2. PICK n \in 0..4 : GoodAt(s, n) /\ (n \in {1, 3} => r \in flying) /\ (r \in included => n \in {2, 3, 4})
      BY <1>1, <2>1 DEF RelayRank, GoodSoFar, s
    <2>3. n \in {0, 2, 4}
      BY <1>2, <2>2
    <2> DEFINE k == IF n = 4 THEN 4 ELSE n + 1
    <2>4. GoodAt(t, k)
      BY <1>1, <2>2, <2>3, AcceptKeepsGood DEF t
    <2>5. k \in 0..4 /\ k \notin {0, 2} /\ (r \in included => k \in {2, 3, 4})
      BY <2>2, <2>3
    <2> HIDE DEF k
    <2>6. QED
      BY <1>2, <1>4, <2>4, <2>5 DEF GoodSoFar
  <1>6. r \notin included => BadSoFar(r)'
    <2>1. SUFFICES ASSUME r \notin included PROVE BadSoFar(r)'
      OBVIOUS
    <2>2. Settled(s)
      BY <1>1, <1>2, <2>1 DEF RelayRank, BadSoFar, s
    <2>3. IsRecord(t)
      BY <1>3 DEF IsRecord
    <2>4. InFlight(t)
      BY <1>1, <1>3, <2>2, <2>3, AcceptKeepsBad DEF t
    <2>5. QED
      BY <1>2, <1>4, <2>4 DEF BadSoFar
  <1>7. RelayRank(r)'
    BY <1>1, <1>2, <1>4, <1>5, <1>6 DEF RelayRank
  <1>8. QED
    BY <1>1, <1>2, <1>3, <1>7, RankOfOne DEF RankInv

\* An inclusion.
LEMMA IncludedKeepsRank ==
  ASSUME HelpInv, ContextInv, RankInv, NEW r \in Relays, NEW lat \in Nat, NEW here \in BOOLEAN, NEW cap \in Nat,
         Included(r, lat, cap, here)
  PROVE  RankInv'
  <1> DEFINE s == Entry(r)
             t == Final(s, TRUE, lat, cap)
  <1>1. /\ s \in StatsType /\ IsRecord(s) /\ s.accept \in Nat /\ s.inclusion <= One
        /\ Shares(s, outcomes) /\ outcomes \in Nat /\ RelayRank(r) /\ PolicyInv /\ ContextOk(contextStats[r])
    BY RelayFacts
  <1>2. /\ Learn(r, t, Pressed(Final(fleetStats, TRUE, lat, cap), 0, 0)) /\ r \in flying /\ flying' = {}
        /\ LearnContext(r, here, One, 0, 0, cap) /\ included' = included \cup {r} /\ missed' = missed
    BY DEF Included
  <1>3. flying \subseteq {r}
    BY <1>2 DEF RankInv
  <1>4. t \in StatsType /\ t.accept \in Nat
    <2>1. t \in StatsType /\ Shares(t, outcomes + 1)
      BY <1>1, FinalKeepsShares, Zenon
    <2> HIDE DEF t
    <2>2. QED
      BY <2>1 DEF Shares
  <1>5. Entry(r)' = t /\ Tried(r)'
    BY <1>1, <1>2, <1>4, LearntEntries
  <1>6. Improved(t, s, cap)
    BY <1>1 DEF Improved, Final, IsRecord, StatsType, FleetType
  <1> HIDE DEF s, t
  <1>7. /\ \A q \in Relays \ {r} : contextStats'[q] = contextStats[q]
        /\ \/ contextStats'[r] = contextStats[r]
           \/ contextStats'[r] = InContext(contextStats[r], One, 0, 0, cap)
    BY <1>2, ContextMoves
  <1>8. r \notin missed => GoodSoFar(r)'
    <2>1. SUFFICES ASSUME r \notin missed PROVE GoodSoFar(r)'
      OBVIOUS
    <2>2. PICK n \in 0..4 : GoodAt(s, n) /\ (n \in {0, 2} => r \notin flying)
      BY <1>1, <2>1 DEF RelayRank, GoodSoFar, s
    <2>3. n \in {1, 3, 4}
      BY <1>2, <2>2
    <2> DEFINE k == IF n = 4 THEN 4 ELSE n + 1
    <2>4. GoodAt(t, k)
      BY <1>1, <1>6, <2>2, <2>3, IncludeKeepsGood
    <2>5. k \in 0..4 /\ k \notin {1, 3} /\ k \in {2, 3, 4}
      BY <2>3
    <2> HIDE DEF k
    <2>6. QED
      BY <1>2, <1>5, <2>4, <2>5 DEF GoodSoFar
  <1>9. r \notin missed => GoodContext(contextStats'[r])
    BY <1>1, <1>7, ContextStaysGood DEF RelayRank
  <1>10. RelayRank(r)'
    BY <1>2, <1>5, <1>8, <1>9 DEF RelayRank
  <1>11. included' \subseteq Relays /\ missed' \subseteq Relays
    BY <1>2 DEF RankInv
  <1>12. QED
    BY <1>1, <1>2, <1>3, <1>4, <1>7, <1>10, <1>11, RankOfOne

\* A bad outcome.
LEMMA LostKeepsRank ==
  ASSUME HelpInv, ContextInv, RankInv, NEW r \in Relays, NEW own \in StatsType, own.accept \in Nat, NEW fleet,
         Learn(r, own, fleet), NEW here \in BOOLEAN, NEW m \in {0, One}, NEW v \in {0, One},
         LearnContext(r, here, 0, m, v, 0), flying \subseteq {r}, flying' = {},
         included' = included, missed' = missed \cup {r}, r \notin included => Settled(own)
  PROVE  RankInv'
  <1>1. RelayRank(r) /\ PolicyInv /\ ContextOk(contextStats[r]) /\ 0 \in Nat
    BY RelayFacts
  <1>2. Entry(r)' = own /\ Tried(r)'
    BY <1>1, LearntEntries
  <1>3. /\ \A q \in Relays \ {r} : contextStats'[q] = contextStats[q]
        /\ \/ contextStats'[r] = contextStats[r]
           \/ contextStats'[r] = InContext(contextStats[r], 0, m, v, 0)
    BY ContextMoves
  <1>4. r \notin included => BadContext(contextStats'[r])
    BY <1>1, <1>3, ContextStaysBad DEF RelayRank
  <1>5. r \notin included => BadSoFar(r)'
    BY <1>2 DEF BadSoFar
  <1>6. RelayRank(r)'
    BY <1>2, <1>4, <1>5 DEF RelayRank
  <1>7. included' \subseteq Relays /\ missed' \subseteq Relays /\ flying' \subseteq {r}
    BY DEF RankInv
  <1>8. QED
    BY <1>1, <1>3, <1>6, <1>7, RankOfOne

\* Every outcome keeps the ranks.
LEMMA StepKeepsRank ==
  ASSUME HelpInv, ContextInv, RankInv, PolicyNext
  PROVE  RankInv'
  <1>1. PICK r \in Relays, lat \in Nat, here \in BOOLEAN, cap \in Nat : OutcomeOf(r, lat, here, cap)
    BY StepIsOutcome
  <1> DEFINE s == Entry(r)
  <1>2. /\ s \in StatsType /\ IsRecord(s) /\ s.accept \in Nat /\ s.reject <= One /\ s.accept <= One
        /\ Shares(s, outcomes) /\ outcomes \in Nat /\ RelayRank(r) /\ 0 \in Nat
        /\ 0 \in {0, One} /\ One \in {0, One}
    BY RelayFacts
  <1>3. CASE SubmitAccepted(r, lat)
    BY <1>3, AcceptedKeepsRank
  <1>4. CASE Included(r, lat, cap, here)
    BY <1>4, IncludedKeepsRank
  <1>5. CASE SubmitRefused(r, lat, here)
    <2> DEFINE t == Refused(s, lat)
               f == [Refused(fleetStats, lat) EXCEPT !.failure = Fast(@, One)]
    <2>1. t \in StatsType /\ t.accept \in Nat
      BY <1>2, RefusedKeepsShares DEF Shares
    <2>2. /\ Learn(r, t, f) /\ LearnContext(r, here, 0, 0, 0, 0) /\ flying = {} /\ flying' = {}
          /\ included' = included /\ missed' = missed \cup {r}
      BY <1>5 DEF SubmitRefused
    <2>3. IsRecord(t)
      BY <2>1 DEF IsRecord
    <2>4. r \notin included => Settled(t)
      <3>1. r \notin included => Settled(s)
        BY <1>2, <2>2 DEF RelayRank, BadSoFar
      <3> HIDE DEF s
      <3>2. QED
        BY <1>2, <2>1, <2>3, <3>1, RefuseKeepsBad
    <2> HIDE DEF s, t, f
    <2>5. QED
      BY <1>2, <2>1, <2>2, <2>4, LostKeepsRank
  <1>6. CASE Reverted(r, lat, here)
    <2> DEFINE t == Final(s, FALSE, lat, 0)
               f == Pressed(Final(fleetStats, FALSE, lat, 0), One, 0)
    <2>1. t \in StatsType /\ t.accept \in Nat
      <3>1. t \in StatsType /\ Shares(t, outcomes + 1)
        BY <1>2, FinalKeepsShares, Zenon
      <3> HIDE DEF t
      <3>2. QED
        BY <3>1 DEF Shares
    <2>2. /\ Learn(r, t, f) /\ LearnContext(r, here, 0, 0, One, 0) /\ r \in flying /\ flying' = {}
          /\ included' = included /\ missed' = missed \cup {r}
      BY <1>6 DEF Reverted
    <2>3. flying \subseteq {r}
      BY <2>2 DEF RankInv
    <2>4. IsRecord(t)
      BY <2>1 DEF IsRecord
    <2>5. Lost(t, s)
      BY <1>2 DEF Lost, Final, IsRecord, StatsType, FleetType
    <2>6. r \notin included => Settled(t)
      <3>1. r \notin included => InFlight(s)
        BY <1>2, <2>2 DEF RelayRank, BadSoFar
      <3> HIDE DEF s, t
      <3>2. QED
        BY <1>2, <2>1, <2>4, <2>5, <3>1, LoseKeepsBad
    <2> HIDE DEF s, t, f
    <2>7. QED
      BY <1>2, <2>1, <2>2, <2>3, <2>6, LostKeepsRank
  <1>7. CASE ReceiptTimeout(r, lat, here)
    <2> DEFINE t == TimedOut(s, lat)
               f == Pressed(TimedOut(fleetStats, lat), One, One)
    <2>1. t \in StatsType /\ t.accept \in Nat
      BY <1>2, TimedOutKeepsShares DEF Shares
    <2>2. /\ Learn(r, t, f) /\ LearnContext(r, here, 0, One, 0, 0) /\ r \in flying /\ flying' = {}
          /\ included' = included /\ missed' = missed \cup {r}
      BY <1>7 DEF ReceiptTimeout
    <2>3. flying \subseteq {r}
      BY <2>2 DEF RankInv
    <2>4. IsRecord(t)
      BY <2>1 DEF IsRecord
    <2>5. Lost(t, s)
      BY <1>2, TimedOutFields DEF Lost
    <2>6. r \notin included => Settled(t)
      <3>1. r \notin included => InFlight(s)
        BY <1>2, <2>2 DEF RelayRank, BadSoFar
      <3> HIDE DEF s, t
      <3>2. QED
        BY <1>2, <2>1, <2>4, <2>5, <3>1, LoseKeepsBad
    <2> HIDE DEF s, t, f
    <2>7. QED
      BY <1>2, <2>1, <2>2, <2>3, <2>6, LostKeepsRank
  <1>8. QED
    BY <1>1, <1>3, <1>4, <1>5, <1>6, <1>7 DEF OutcomeOf

\* Nothing has happened to any relay yet.
LEMMA RankAtStart ==
  ASSUME PolicyInit
  PROVE  RankInv
  <1>1. /\ flying = {} /\ contextStats = [r \in Relays |-> NewContext]
        /\ included = {} /\ missed = {} /\ relayStats = [r \in Relays |-> Untried]
    BY DEF PolicyInit
  <1>2. GoodContext(NewContext) /\ BadContext(NewContext)
    BY DEF NewContext, GoodContext, BadContext, Raw
  <1>3. Within(NewStats, 7600, 1600, 1400, 800, 5800, 8200)
    BY SMT DEF Within, NewStats
  <1>4. GoodAt(NewStats, 0)
    BY <1>3 DEF GoodAt
  <1>5. Settled(NewStats)
    <2>1. SubmitCost(NewStats) = 8179200
      BY SMT DEF SubmitCost, NewStats, One
    <2>2. LossCost(NewStats) = 4750400
      BY SMT DEF LossCost, NewStats
    <2>3. LackCost(NewStats) = 4519200 /\ NewStats.inclusion <= 5800
      BY SMT DEF LackCost, NewStats, One
    <2>4. QED
      BY <2>1, <2>2, <2>3, SMT DEF Settled
  <1>6. ASSUME NEW r \in Relays PROVE RelayRank(r)
    <2>1. Untried.accept = -1
      BY DEF Untried, NewStats
    <2>2. Entry(r) = NewStats /\ r \notin flying /\ contextStats[r] = NewContext
      BY <1>1, <2>1 DEF Entry, Tried
    <2>3. GoodSoFar(r)
      <3>1. 0 \in 0..4 /\ 0 \notin {1, 3}
        OBVIOUS
      <3>2. QED
        BY <1>1, <1>4, <2>2, <3>1 DEF GoodSoFar
    <2>4. BadSoFar(r)
      BY <1>5, <2>2 DEF BadSoFar
    <2>5. QED
      BY <1>1, <1>2, <2>2, <2>3, <2>4 DEF RelayRank
  <1>7. QED
    BY <1>1, <1>6 DEF RankInv

\* The invariant holds throughout.
LEMMA PolicyKeepsRank == PolicySpec => []RankInv
  <1>1. PolicyInit => RankInv
    BY RankAtStart
  <1>2. HelpInv /\ ContextInv /\ RankInv /\ [PolicyNext]_policyVars => RankInv'
    <2>1. SUFFICES ASSUME HelpInv, ContextInv, RankInv, [PolicyNext]_policyVars PROVE RankInv'
      OBVIOUS
    <2>2. CASE PolicyNext
      BY <2>1, <2>2, StepKeepsRank
    <2>3. CASE UNCHANGED policyVars
      <3>1. /\ relayStats' = relayStats /\ flying' = flying /\ contextStats' = contextStats
            /\ included' = included /\ missed' = missed
        BY <2>3 DEF policyVars
      <3>2. \A r \in Relays : Entry(r)' = Entry(r) /\ (Tried(r)' <=> Tried(r))
        BY <3>1 DEF Entry, Tried
      <3>3. \A r \in Relays : (GoodSoFar(r) => GoodSoFar(r)') /\ (BadSoFar(r) => BadSoFar(r)')
        BY <3>1, <3>2 DEF GoodSoFar, BadSoFar
      <3>4. \A r \in Relays : RelayRank(r)'
        BY <2>1, <3>1, <3>2, <3>3 DEF RankInv, RelayRank
      <3>5. QED
        BY <2>1, <3>1, <3>4 DEF RankInv
    <2>4. QED
      BY <2>1, <2>2, <2>3
  <1>3. QED
    BY <1>1, <1>2, PolicyKeepsHelpInv, PolicyKeepsContext, PTL DEF PolicySpec
-----------------------------------------------------------------------------
\* The weights of a record in the score, in 1/10000 of it.
Cost(s) ==
  SubmitCost(s) + LackCost(s) + LossCost(s)
    + 192 * Unit(One - s.capture) + 780 * Overdue(s.submit) + 584 * Overdue(s.finalize)

\* The rounding of the pressure and of the score.
ScoreSum(s) ==
  Pressure(s, 26, 14, 4) * 48 + (One - s.accept) * 20 + s.miss * 14 + s.revert * 8
    + (One - s.inclusion) * 5 + Overdue(s.submit) * 3 + Overdue(s.finalize) * 2

\* A record of natural numbers that are shares of one.
LEMMA RecordRates ==
  ASSUME NEW s, IsRecord(s), s.accept \in Nat, Averaged(s)
  PROVE  /\ s.submit \in Nat /\ s.finalize \in Nat /\ s.accept \in Nat /\ s.reject \in Nat
         /\ s.inclusion \in Nat /\ s.miss \in Nat /\ s.revert \in Nat /\ s.capture \in Nat
         /\ s.accept <= 10000 /\ s.reject <= 10000 /\ s.inclusion + s.miss + s.revert <= 10000
         /\ Overdue(s.submit) \in Nat /\ Overdue(s.submit) <= 10000
         /\ Overdue(s.finalize) \in Nat /\ Overdue(s.finalize) <= 10000
         /\ Unit(One - s.capture) \in Nat /\ Unit(One - s.capture) <= 10000
  <1>1. /\ s.submit \in Nat /\ s.finalize \in Nat /\ s.accept \in Nat /\ s.reject \in Nat
        /\ s.inclusion \in Nat /\ s.miss \in Nat /\ s.revert \in Nat /\ s.capture \in Nat
    BY FieldsAreNat
  <1>2. \A a \in Nat : Overdue(a) \in Nat /\ Overdue(a) <= 10000
    BY DEF Overdue, Unit, One
  <1>3. \A a \in Nat : Unit(One - a) \in Nat /\ Unit(One - a) <= 10000
    BY DEF Unit, One
  <1>4. s.accept <= 10000 /\ s.reject <= 10000 /\ s.inclusion + s.miss + s.revert <= 10000
    BY <1>1 DEF Averaged, One
  <1>5. QED
    BY <1>1, <1>2, <1>3, <1>4

\* A pressure within its range is only rounded.
LEMMA PressureRounds ==
  ASSUME NEW x \in Nat, x <= 960000
  PROVE  /\ Unit(x \div 100) \in Nat /\ 100 * Unit(x \div 100) <= x /\ x <= 100 * Unit(x \div 100) + 99
  BY SMT DEF Unit, One

\* The score is the record's cost, but for the rounding of the pressure.
LEMMA ScoreIsCost ==
  ASSUME NEW s, IsRecord(s), s.accept \in Nat, Averaged(s)
  PROVE  /\ Cost(s) \in Int /\ ScoreSum(s) \in Int
         /\ 100 * ScoreSum(s) <= Cost(s) /\ Cost(s) <= 100 * ScoreSum(s) + 4752
  <1> DEFINE acc == s.accept
             rej == s.reject
             inc == s.inclusion
             mis == s.miss
             rev == s.revert
             po == Unit(One - s.capture)
             su == Overdue(s.submit)
             fi == Overdue(s.finalize)
             x == rej * 26 + (10000 - acc) * 12 + (10000 - inc) * 12 + mis * 24 + rev * 14
                    + su * 10 + fi * 8 + po * 4
             p == Unit(x \div 100)
  <1>1. /\ acc \in Nat /\ rej \in Nat /\ inc \in Nat /\ mis \in Nat /\ rev \in Nat /\ po \in Nat /\ po <= 10000
        /\ su \in Nat /\ fi \in Nat /\ su <= 10000 /\ fi <= 10000
        /\ acc <= 10000 /\ rej <= 10000 /\ inc + mis + rev <= 10000
    BY RecordRates
  <1>2. Pressure(s, 26, 14, 4) = p
    BY DEF Pressure, One
  <1>3. Cost(s) = 1248 * rej + 2576 * (10000 - acc) + 1076 * (10000 - inc) + (2552 * mis + 1472 * rev)
                    + 192 * po + 780 * su + 584 * fi
    BY CostsAre, SMT DEF Cost
  <1>4. ScoreSum(s) = p * 48 + (10000 - acc) * 20 + mis * 14 + rev * 8 + (10000 - inc) * 5 + su * 3 + fi * 2
    BY <1>2, SMT DEF ScoreSum, One
  <1> HIDE DEF acc, rej, inc, mis, rev, po, su, fi
  <1>5. x \in Nat /\ x <= 960000
    BY <1>1, SMT
  <1>6. p \in Nat /\ 100 * p <= x /\ x <= 100 * p + 99
    BY <1>5, PressureRounds
  <1> HIDE DEF p
  <1>7. QED
    BY <1>1, <1>3, <1>4, <1>6, SMT

\* A difference in cost that outlasts the rounding.
LEMMA ScoreFromCost ==
  ASSUME NEW s, IsRecord(s), s.accept \in Nat, Averaged(s),
         NEW t, IsRecord(t), t.accept \in Nat, Averaged(t), Cost(s) + 24800 <= Cost(t)
  PROVE  ScoreOf(s) \in Int /\ ScoreOf(t) \in Int /\ ScoreOf(s) + 2 <= ScoreOf(t)
  <1>1. /\ Cost(s) \in Int /\ ScoreSum(s) \in Int
        /\ 100 * ScoreSum(s) <= Cost(s) /\ Cost(s) <= 100 * ScoreSum(s) + 4752
    BY ScoreIsCost
  <1>2. /\ Cost(t) \in Int /\ ScoreSum(t) \in Int
        /\ 100 * ScoreSum(t) <= Cost(t) /\ Cost(t) <= 100 * ScoreSum(t) + 4752
    BY ScoreIsCost
  <1>3. ScoreOf(s) = ScoreSum(s) \div 100 /\ ScoreOf(t) = ScoreSum(t) \div 100
    BY DEF ScoreOf, ScoreSum
  <1>4. ScoreSum(s) + 200 <= ScoreSum(t)
    BY <1>1, <1>2, SMT
  <1>5. QED
    BY <1>1, <1>2, <1>3, <1>4, SMT

\* What a good relay's record costs, its latencies apart, once it has an inclusion.
LEMMA GoodCost ==
  ASSUME NEW s, IsRecord(s), s.accept \in Nat, Averaged(s), NEW n \in {2, 3, 4}, GoodAt(s, n)
  PROVE  SubmitCost(s) + LackCost(s) + LossCost(s) + 192 * Unit(One - s.capture) <= 13670528
  <1> DEFINE acc == s.accept
             rej == s.reject
             inc == s.inclusion
             mis == s.miss
             rev == s.revert
             cap == s.capture
             po == Unit(One - s.capture)
  <1>1. /\ acc \in Nat /\ rej \in Nat /\ inc \in Nat /\ mis \in Nat /\ rev \in Nat /\ cap \in Nat
        /\ po \in Nat /\ po <= 10000
    BY RecordRates
  <1>2. cap >= 7544 => po <= 2456
    BY <1>1, SMT DEF Unit, One
  <1>3. \/ acc >= 8080 /\ rej <= 1280 /\ mis <= 896 /\ rev <= 512 /\ inc >= 6640 /\ cap >= 7544
        \/ acc >= 8464 /\ rej <= 1024 /\ mis <= 716 /\ rev <= 409 /\ inc >= 6640 /\ cap >= 7544
        \/ acc >= 8464 /\ rej <= 1024 /\ mis <= 572 /\ rev <= 327 /\ inc >= 7312
    BY DEF GoodAt, Within
  <1>4. SubmitCost(s) + LackCost(s) + LossCost(s) + 192 * po
          = 1248 * rej + 2576 * (10000 - acc) + 1076 * (10000 - inc) + (2552 * mis + 1472 * rev) + 192 * po
    BY CostsAre
  <1> HIDE DEF acc, rej, inc, mis, rev, cap, po
  <1>5. 1248 * rej + 2576 * (10000 - acc) + 1076 * (10000 - inc) + (2552 * mis + 1472 * rev) + 192 * po <= 13670528
    BY <1>1, <1>2, <1>3, SMT
  <1>6. QED
    BY <1>4, <1>5 DEF po

\* What a failed relay's record costs, in flight or settled.
LEMMA BadCost ==
  ASSUME NEW s, IsRecord(s), s.accept \in Nat, Averaged(s), Settled(s) \/ InFlight(s)
  PROVE  SubmitCost(s) + LackCost(s) + LossCost(s) >= 14195782
  <1> DEFINE u == SubmitCost(s)
             l == LossCost(s)
             x == LackCost(s)
             inc == s.inclusion
  <1>1. u \in Int /\ l \in Nat /\ x \in Int /\ inc \in Nat /\ x = 1076 * (10000 - inc)
    BY CostsAre, RecordRates
  <1>2. inc <= 5800 /\ (8 * (u + l) + 10 * x >= 142000000 \/ 10 * (u + l + x) >= 141957824)
    BY DEF Settled, InFlight
  <1>3. inc + s.miss + s.revert <= 10000 /\ s.miss \in Nat /\ s.revert \in Nat
    BY RecordRates
  <1> HIDE DEF u, l, x, inc
  <1>4. inc <= 10000
    BY <1>1, <1>3
  <1>5. u + x + l >= 14195782
    BY <1>1, <1>2, <1>4, SMT
  <1>6. QED
    BY <1>5 DEF u, l, x

\* A cluster with inclusions and nothing else never raises the score.
LEMMA GoodAdjustment ==
  ASSUME NEW c, ContextOk(c), GoodContext(c)
  PROVE  Adjustment(c) \in Int /\ Adjustment(c) <= 0
  <1> DEFINE x == Raw(c)
             n == Confidence(c)
             p == x * n
  <1>1. c.inclusion \in Nat /\ c.miss \in Nat /\ c.revert \in Nat /\ c.samples \in Nat
    BY DEF ContextOk, ContextType
  <1>2. x \in Int /\ n \in Nat
    BY <1>1 DEF Raw, Confidence
  <1>3. n = 0 \/ x <= 0
    <2>1. CASE c = NewContext
      BY <2>1 DEF NewContext, Confidence
    <2>2. CASE c.inclusion >= 6640 /\ c.miss <= 1120 /\ c.revert <= 640
      BY <1>1, <2>2, SMT DEF Raw
    <2>3. QED
      BY <2>1, <2>2 DEF GoodContext
  <1> HIDE DEF x, n
  <1>4. p \in Int /\ p <= 0
    <2>1. CASE n = 0
      BY <1>2, <2>1
    <2>2. CASE x <= 0
      BY <1>2, <2>2, SMT
    <2>3. QED
      BY <1>3, <2>1, <2>2
  <1> HIDE DEF p
  <1>5. p \div 2400 \in Int /\ p \div 2400 <= 0
    BY <1>4, SMT
  <1>6. QED
    BY <1>5 DEF Adjustment, p, x, n

\* One without inclusions lowers it by rounding only.
LEMMA BadAdjustment ==
  ASSUME NEW c, ContextOk(c), BadContext(c)
  PROVE  Adjustment(c) \in Int /\ Adjustment(c) >= -2
  <1> DEFINE x == Raw(c)
             n == Confidence(c)
             p == x * n
  <1>1. c.inclusion \in Nat /\ c.miss \in Nat /\ c.revert \in Nat /\ c.samples \in Nat
    BY DEF ContextOk, ContextType
  <1>2. x \in Int /\ n \in Nat /\ n <= 24 /\ x >= -128
    BY <1>1 DEF Raw, Confidence, BadContext
  <1> HIDE DEF x, n
  <1>3. p \in Int /\ p >= -3072
    <2>1. x * n >= (-128) * n
      BY <1>2, SMT
    <2>2. (-128) * n >= -3072
      BY <1>2, SMT
    <2>3. QED
      BY <1>2, <2>1, <2>2, SMT
  <1> HIDE DEF p
  <1>4. p \div 2400 \in Int /\ p \div 2400 >= -2
    BY <1>3, SMT
  <1>5. QED
    BY <1>4 DEF Adjustment, p, x, n

\* A failed relay does not outrank a good one that is no slower.
LEMMA GoodBeforeBad ==
  ASSUME HelpInv, ContextInv, RankInv, NEW good \in included \ missed, NEW bad \in missed \ included,
         Overdue(relayStats[good].submit) <= Overdue(relayStats[bad].submit),
         Overdue(relayStats[good].finalize) <= Overdue(relayStats[bad].finalize)
  PROVE  Score(good) <= Score(bad) /\ ClusterScore(good) <= ClusterScore(bad)
  <1> DEFINE s == relayStats[good]
             t == relayStats[bad]
  <1>1. good \in Relays /\ bad \in Relays /\ Tried(good) /\ Tried(bad) /\ RelayRank(good) /\ RelayRank(bad)
    <2>1. good \in Relays /\ bad \in Relays
      BY DEF RankInv
    <2>2. RelayRank(good) /\ RelayRank(bad)
      BY <2>1 DEF RankInv
    <2>3. QED
      BY <2>1, <2>2 DEF RelayRank
  <1>2. Entry(good) = s /\ Entry(bad) = t
    BY <1>1 DEF Entry
  <1>3. IsRecord(s) /\ s.accept \in Nat /\ Averaged(s)
    BY <1>1, <1>2, EntryAveraged
  <1>4. IsRecord(t) /\ t.accept \in Nat /\ Averaged(t)
    BY <1>1, <1>2, EntryAveraged
  <1>5. PICK n \in {2, 3, 4} : GoodAt(s, n)
    BY <1>1, <1>2 DEF RelayRank, GoodSoFar
  <1>6. Settled(t) \/ InFlight(t)
    BY <1>1, <1>2 DEF RelayRank, BadSoFar
  <1>7. Overdue(s.submit) <= Overdue(t.submit) /\ Overdue(s.finalize) <= Overdue(t.finalize)
    OBVIOUS
  <1> DEFINE x == SubmitCost(s) + LackCost(s) + LossCost(s)
             y == SubmitCost(t) + LackCost(t) + LossCost(t)
             po == Unit(One - s.capture)
             qo == Unit(One - t.capture)
             su == Overdue(s.submit)
             fi == Overdue(s.finalize)
             tu == Overdue(t.submit)
             ti == Overdue(t.finalize)
  <1>8. Score(good) = ScoreOf(s) /\ Score(bad) = ScoreOf(t)
    BY <1>1, ScoreOfTried
  <1> HIDE DEF s, t
  <1>9. x \in Int /\ y \in Int
    <2>1. SubmitCost(s) \in Int /\ LossCost(s) \in Int /\ LackCost(s) \in Int
      BY <1>3, CostsAre
    <2>2. SubmitCost(t) \in Int /\ LossCost(t) \in Int /\ LackCost(t) \in Int
      BY <1>4, CostsAre
    <2>3. QED
      BY <2>1, <2>2
  <1>10. po \in Nat /\ qo \in Nat /\ su \in Nat /\ fi \in Nat /\ tu \in Nat /\ ti \in Nat
    BY <1>3, <1>4, RecordRates
  <1>11. x + 192 * po <= 13670528
    BY <1>3, <1>5, GoodCost
  <1>12. y >= 14195782
    BY <1>4, <1>6, BadCost
  <1>13. /\ Cost(s) = x + 192 * po + 780 * su + 584 * fi
         /\ Cost(t) = y + 192 * qo + 780 * tu + 584 * ti
    BY DEF Cost
  <1>14. su <= tu /\ fi <= ti
    BY <1>7
  <1> HIDE DEF x, y, po, qo, su, fi, tu, ti
  <1>15. Cost(s) + 24800 <= Cost(t)
    BY <1>9, <1>10, <1>11, <1>12, <1>13, <1>14, SMT
  <1>16. ScoreOf(s) \in Int /\ ScoreOf(t) \in Int /\ ScoreOf(s) + 2 <= ScoreOf(t)
    BY <1>3, <1>4, <1>15, ScoreFromCost
  <1> DEFINE a == Adjustment(contextStats[good])
             b == Adjustment(contextStats[bad])
  <1>17. a \in Int /\ a <= 0
    <2>1. ContextOk(contextStats[good]) /\ GoodContext(contextStats[good])
      BY <1>1 DEF ContextInv, RelayRank
    <2>2. QED
      BY <2>1, GoodAdjustment
  <1>18. b \in Int /\ b >= -2
    <2>1. ContextOk(contextStats[bad]) /\ BadContext(contextStats[bad])
      BY <1>1 DEF ContextInv, RelayRank
    <2>2. QED
      BY <2>1, BadAdjustment
  <1>19. ClusterScore(good) = Clamped(ScoreOf(s) + a) /\ ClusterScore(bad) = Clamped(ScoreOf(t) + b)
    BY <1>8, InClusterIs DEF ClusterScore
  <1> HIDE DEF a, b
  <1>20. ScoreOf(s) + a \in Int /\ ScoreOf(t) + b \in Int /\ ScoreOf(s) + a <= ScoreOf(t) + b
    BY <1>16, <1>17, <1>18
  <1>21. QED
    BY <1>8, <1>16, <1>19, <1>20, ClampedGrows

\* FailedRelayNotFirst, for any relays, whatever latencies and captures were measured and any number of
\* outcomes: RankInv keeps the cost of every record without failures, once it has an inclusion, below
\* that of every record without inclusions, by more than the rounding of relay_quote and
\* relay_quote_for_cluster takes.
THEOREM PolicyRanksFailuresLast == PolicySpec => []FailedRelayNotFirst
  <1>1. HelpInv /\ ContextInv /\ RankInv => FailedRelayNotFirst
    BY GoodBeforeBad DEF FailedRelayNotFirst
  <1>2. QED
    BY <1>1, PolicyKeepsHelpInv, PolicyKeepsContext, PolicyKeepsRank, PTL

===========================================================================
