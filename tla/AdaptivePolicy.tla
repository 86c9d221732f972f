-------------------------- MODULE AdaptivePolicy --------------------------
(***************************************************************************)
(* What the adaptive policy learns from the execution engine: a record of  *)
(* every relay, one of the whole fleet and one per relay and cluster, all  *)
(* of them moving averages, and from these the scores relays are ranked by *)
(* and the market regime that sets the thresholds of the preflight.  Every *)
(* call brings the latency it measured.  Rates are in 1/10000 and rounded  *)
(* down; latencies are in percent of their target.                         *)
(***************************************************************************)
EXTENDS Integers

CONSTANTS Relays,
          Latencies,        \* what a submission or a receipt may take
          Captures,         \* what an inclusion may realize of the expected profit
          Markets,          \* readings: density, cluster heat, gas pressure, lookup latency
          MaxOutcomes       \* bound: calls of the engine

One == 10000

ASSUME PolicyAssumption ==
  /\ Latencies \subseteq Nat /\ Captures \subseteq 0..(One + One \div 4) /\ MaxOutcomes \in Nat
  /\ \A m \in Markets : m.density \in Nat /\ m.heat \in Nat /\ m.gas \in Nat /\ m.lookup \in Nat

VARIABLES relayStats,       \* relay_stats, Untried for a relay without an entry
          fleetStats,       \* the policy's own averages
          contextStats,     \* relay_context_stats of one cluster
          flying,           \* the relay whose bundle waits for its receipt, if any
          outcomes,         \* calls made so far
          included, missed  \* relays with a successful inclusion; with a failure or a timeout

policyVars == <<relayStats, fleetStats, contextStats, flying, outcomes, included, missed>>

Fast(current, sample) == (4 * current + sample) \div 5            \* EWMA_FAST
Slow(current, sample) == (23 * current + 2 * sample) \div 25      \* EWMA_SLOW
Unit(x)               == IF x < 0 THEN 0 ELSE IF x > One THEN One ELSE x

NewStats == [submit |-> 100, finalize |-> 100, accept |-> 7600, reject |-> 1600,
             inclusion |-> 5800, miss |-> 1400, revert |-> 800, capture |-> 8200]
NewFleet == [submit |-> 100, finalize |-> 100, accept |-> 7600, reject |-> 1600,
             inclusion |-> 5800, miss |-> 1400, revert |-> 800, capture |-> 8200,
             failure |-> 1800, timeout |-> 800]
NewContext == [inclusion |-> 5800, miss |-> 1400, revert |-> 800, capture |-> 8200, samples |-> 0]
Untried    == [NewStats EXCEPT !.accept = -1]

Tried(r)  == relayStats[r].accept # -1
Entry(r)  == IF Tried(r) THEN relayStats[r] ELSE NewStats        \* entry().or_insert_with
Quoted(r) == IF Tried(r) THEN relayStats[r]
             ELSE [k \in DOMAIN NewStats |-> fleetStats[k]]      \* relay_quote of an unknown relay

PolicyInit ==
  /\ relayStats = [r \in Relays |-> Untried]
  /\ fleetStats = NewFleet
  /\ contextStats = [r \in Relays |-> NewContext]
  /\ flying = {} /\ outcomes = 0 /\ included = {} /\ missed = {}
-----------------------------------------------------------------------------
\* What each outcome does to a record, a relay's or the fleet's.
Accepted(s, latency) ==
  [s EXCEPT !.submit = Fast(@, latency), !.accept = Fast(@, One),
            !.reject = Fast(@, 0), !.miss = Fast(@, 0), !.revert = Fast(@, 0)]
\* Mutation: the refusal is not counted as a rejection.
RefusedOnly(s, latency) == [s EXCEPT !.submit = Fast(@, latency), !.accept = Fast(@, 0)]

Refused(s, latency) ==
  [s EXCEPT !.submit = Fast(@, latency), !.accept = Fast(@, 0), !.reject = Fast(@, One)]

\* Mutation: success and failure are swapped.
FinalInverted(s, success, latency, capture) ==
  [s EXCEPT !.finalize = Fast(@, latency), !.inclusion = Fast(@, IF success THEN 0 ELSE One),
            !.miss = Fast(@, 0), !.revert = Fast(@, IF success THEN One ELSE 0)]

Final(s, success, latency, capture) ==
  [s EXCEPT !.finalize = Fast(@, latency), !.inclusion = Fast(@, IF success THEN One ELSE 0),
            !.miss = Fast(@, 0), !.revert = Fast(@, IF success THEN 0 ELSE One),
            !.capture = Slow(@, capture)]
\* Mutation: a timeout counts as an answer.
TimedOutForgotten(s, latency) == [s EXCEPT !.finalize = Fast(@, latency), !.miss = Fast(@, 0), !.revert = Fast(@, 0)]

TimedOut(s, latency) ==
  [s EXCEPT !.finalize = Fast(@, latency), !.inclusion = Fast(@, 0), !.miss = Fast(@, One), !.revert = Fast(@, 0)]

\* The two rates only the fleet's record has.
Pressed(s, failed, timedOut) == [s EXCEPT !.failure = Fast(@, failed), !.timeout = Fast(@, timedOut)]

\* record_contextual_outcome: a refused submission counts as neither success, miss nor revert.
InContext(s, success, miss, revert, capture) ==
  [inclusion |-> Fast(s.inclusion, success), miss |-> Fast(s.miss, miss),
   revert |-> Fast(s.revert, revert), capture |-> Fast(s.capture, capture), samples |-> s.samples + 1]

Learn(r, own, fleet) ==
  /\ outcomes < MaxOutcomes /\ outcomes' = outcomes + 1
  /\ relayStats' = [relayStats EXCEPT ![r] = own]
  /\ fleetStats' = fleet

\* The outcome belongs to the cluster that is followed here, or to another one.
LearnContext(r, here, success, miss, revert, capture) ==
  contextStats' = IF here THEN [contextStats EXCEPT ![r] = InContext(@, success, miss, revert, capture)]
                  ELSE contextStats

\* The engine handles one opportunity at a time: refusals, then an acceptance, which aborts the other
\* submissions, and its receipt or timeout before the next opportunity.
SubmitAccepted(r, latency) ==
  /\ flying = {} /\ flying' = {r}
  /\ Learn(r, Accepted(Entry(r), latency), Accepted(fleetStats, latency))
  /\ UNCHANGED <<contextStats, included, missed>>

SubmitRefused(r, latency, here) ==
  /\ flying = {}
  /\ Learn(r, Refused(Entry(r), latency), [Refused(fleetStats, latency) EXCEPT !.failure = Fast(@, One)])
  /\ LearnContext(r, here, 0, 0, 0, 0)
  /\ missed' = missed \cup {r}
  /\ UNCHANGED <<flying, included>>

Included(r, latency, capture, here) ==
  /\ r \in flying /\ flying' = {}
  /\ Learn(r, Final(Entry(r), TRUE, latency, capture), Pressed(Final(fleetStats, TRUE, latency, capture), 0, 0))
  /\ LearnContext(r, here, One, 0, 0, capture)
  /\ included' = included \cup {r}
  /\ UNCHANGED missed

\* A reverted transaction has paid its gas: the profit is negative and the capture nothing.
Reverted(r, latency, here) ==
  /\ r \in flying /\ flying' = {}
  /\ Learn(r, Final(Entry(r), FALSE, latency, 0), Pressed(Final(fleetStats, FALSE, latency, 0), One, 0))
  /\ LearnContext(r, here, 0, 0, One, 0)
  /\ missed' = missed \cup {r}
  /\ UNCHANGED included

ReceiptTimeout(r, latency, here) ==
  /\ r \in flying /\ flying' = {}
  /\ Learn(r, TimedOut(Entry(r), latency), Pressed(TimedOut(fleetStats, latency), One, One))
  /\ LearnContext(r, here, 0, One, 0, 0)
  /\ missed' = missed \cup {r}
  /\ UNCHANGED included

PolicyNext ==
  \E r \in Relays, latency \in Latencies :
    \/ SubmitAccepted(r, latency)
    \/ \E here \in BOOLEAN :
         \/ SubmitRefused(r, latency, here)
         \/ \E capture \in Captures : Included(r, latency, capture, here)
         \/ Reverted(r, latency, here)
         \/ ReceiptTimeout(r, latency, here)

PolicySpec == PolicyInit /\ [][PolicyNext]_policyVars
-----------------------------------------------------------------------------
\* Scores.  A lower score is a better relay.
Overdue(latency) == Unit(((latency - 100) * One) \div 200)

\* builder_path_pressure_for_relay; the fleet's own pressure has three other weights.
Pressure(s, reject, revert, poor) ==
  Unit((s.reject * reject + (One - s.accept) * 12 + (One - s.inclusion) * 12 + s.miss * 24
          + s.revert * revert + Overdue(s.submit) * 10 + Overdue(s.finalize) * 8
          + Unit(One - s.capture) * poor) \div 100)
RelayPressure(r) == IF Tried(r) THEN Pressure(relayStats[r], 26, 14, 4) ELSE Pressure(fleetStats, 24, 16, 6)

\* relay_quote.
Score(r) ==
  LET q == Quoted(r)
  IN  (RelayPressure(r) * 48 + (One - q.accept) * 20 + q.miss * 14 + q.revert * 8
         + (One - q.inclusion) * 5 + Overdue(q.submit) * 3 + Overdue(q.finalize) * 2) \div 100

\* relay_quote_for_cluster: a cluster's record counts in full after 24 outcomes.
Confidence(c)    == IF c.samples < 24 THEN c.samples ELSE 24
InCluster(score, c) ==
  LET s == score + ((22 * c.miss + 10 * c.revert - 6 * c.inclusion) * Confidence(c)) \div 2400
  IN  IF s < 0 THEN 0 ELSE IF s > 2 * One THEN 2 * One ELSE s
ClusterScore(r)  == InCluster(Score(r), contextStats[r])

\* market_regime as preflight_score asks for it, 0 calm .. 3 toxic, from the fleet's own record.
PreflightRegime(f, m) ==
  LET failure == Unit((f.failure * 65 + f.timeout * 35) \div 100)
      poor    == Unit(One - f.capture)
      builder == Pressure(f, 24, 16, 6)
      latency == (Overdue(m.lookup) * 55 + Overdue(f.submit) * 25 + Overdue(f.finalize) * 20) \div 100
      stress  == Unit((m.density * 20 + m.heat * 20 + m.gas * 10 + latency * 12
                         + failure * 14 + poor * 10 + builder * 14) \div 100)
  IN  IF stress >= 8200 \/ failure >= 7200 \/ poor >= 6200 \/ builder >= 7200 THEN 3
      ELSE IF stress >= 5800 \/ m.heat >= 5500 \/ m.gas >= 5200 \/ builder >= 4800 THEN 2
      ELSE IF stress >= 3000 THEN 1 ELSE 0
-----------------------------------------------------------------------------
\* The three ways a submission can end are averaged separately, on different occasions and with a
\* decay at submission as well; they still never add up to more than one, and acceptance and
\* refusal stay complementary.  The comparisons of the scores rest on it.
RatesAreShares ==
  \A r \in Relays : Tried(r) =>
    /\ relayStats[r].inclusion + relayStats[r].miss + relayStats[r].revert <= One
    /\ relayStats[r].accept + relayStats[r].reject \in 9200 - 2 * outcomes .. One

Refusal(r) == \E latency \in Latencies, here \in BOOLEAN : SubmitRefused(r, latency, here)
Timeout(r) == \E latency \in Latencies, here \in BOOLEAN : ReceiptTimeout(r, latency, here)

\* The call brought none of the record's latency averages down.
NoFaster(after, before) == after.submit >= before.submit /\ after.finalize >= before.finalize

\* A timeout never improves the score of the relay it happened to, global or of any cluster, although
\* it lowers the relay's revert rate in both records, and neither does a refusal improve the global
\* one, unless they were faster than the relay's average.  (The cluster's score a refusal may improve:
\* it counts there as a sample that was neither a miss nor a revert.)  Only an untried relay can gain
\* more: its first outcome replaces the fleet's record by the built-in one.
BadOutcomeNeverPromotes ==
  [][\A r \in Relays : Tried(r) /\ NoFaster(relayStats'[r], relayStats[r]) =>
       /\ Refusal(r) \/ Timeout(r) => Score(r)' >= Score(r)
       /\ Timeout(r) => ClusterScore(r)' >= ClusterScore(r)]_policyVars

\* Nor does it relax the regime of the preflight, and with it the thresholds of what is looked at
\* further, for any reading of the mempool, unless it was faster than the fleet's average.
BadOutcomeNeverRelaxes ==
  [][\A r \in Relays : (Refusal(r) \/ Timeout(r)) /\ NoFaster(fleetStats', fleetStats) =>
       \A m \in Markets : PreflightRegime(fleetStats', m) >= PreflightRegime(fleetStats, m)]_policyVars

\* What record_submit_failure and record_receipt_timeout learn of the outcome, its latency apart,
\* helps neither the relay's rank nor the thresholds of the next preflight.
BadOutcomeNeverHelps == BadOutcomeNeverPromotes /\ BadOutcomeNeverRelaxes

\* A relay that has only ever refused, reverted or lost bundles is not ranked before one with
\* inclusions and nothing else, globally or for the cluster, also while a bundle of it is in flight
\* (its acceptance has lowered the miss and revert rates), if it has not been the faster one.
FailedRelayNotFirst ==
  \A good \in included \ missed, bad \in missed \ included :
    /\ Overdue(relayStats[good].submit) <= Overdue(relayStats[bad].submit)
    /\ Overdue(relayStats[good].finalize) <= Overdue(relayStats[bad].finalize)
    => Score(good) <= Score(bad) /\ ClusterScore(good) <= ClusterScore(bad)
===========================================================================
