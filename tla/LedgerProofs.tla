---------------------------- MODULE LedgerProofs ----------------------------
(* What every implementation of Ledger inherits.                            *)
EXTENDS Ledger, TLAPS

LEMMA LedgerStep ==
    ASSUME TypeOK, CountedOnce, [Next]_vars
    PROVE  TypeOK' /\ CountedOnce'
<1> USE DEF TypeOK, CountedOnce
<1>1. ASSUME NEW c \in Counters, Record(c) PROVE TypeOK' /\ CountedOnce'
    BY <1>1 DEF Record
<1>2. ASSUME NEW c \in Counters, Persist(c) PROVE TypeOK' /\ CountedOnce'
  <2>1. PICK n \in 1..buffered[c] :
           /\ buffered' = [buffered EXCEPT ![c] = @ - n]
           /\ durable' = [durable EXCEPT ![c] = @ + n]
      BY <1>2 DEF Persist
  <2>2. UNCHANGED <<recorded, faults, expirations>>
      BY <1>2 DEF Persist
  <2>3. buffered[c] - n \in Nat /\ durable[c] + n \in Nat
      BY <2>1
  <2>4. QED
      BY <2>1, <2>2, <2>3
<1>3. CASE Lose
    BY <1>3 DEF Lose
<1>4. CASE Expire
    BY <1>4 DEF Expire
<1>5. CASE UNCHANGED vars
    BY <1>5 DEF vars
<1>6. QED
    BY <1>1, <1>2, <1>3, <1>4, <1>5 DEF Next

\* No event is ever counted twice, and while nothing has failed and nothing
\* has expired, none is missing.
THEOREM LedgerCountsOnce == Spec => []CountedOnce
<1>1. Init => TypeOK /\ CountedOnce
    BY DEF Init, TypeOK, CountedOnce
<1>2. TypeOK /\ CountedOnce /\ [Next]_vars => TypeOK' /\ CountedOnce'
    BY LedgerStep
<1>3. QED
    BY <1>1, <1>2, PTL DEF Spec
=============================================================================
