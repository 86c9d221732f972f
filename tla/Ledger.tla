------------------------------- MODULE Ledger -------------------------------
(* What the telemetry store promises about its counters, without buffers,   *)
(* flushes or databases: an event is counted at most once, it leaves the    *)
(* buffer only for the store or by a fault, and it leaves the store only by *)
(* retention.  Module Telemetry implements it.                              *)
EXTENDS Naturals

CONSTANT Counters

VARIABLES
    recorded,   \* events counted since the first start
    buffered,   \* of these, the ones only memory knows of
    durable,    \* the ones the store has
    faults,     \* failed writes and crashes
    expirations \* removals by retention

vars == <<recorded, buffered, durable, faults, expirations>>
counts == <<recorded, buffered, durable>>

Init ==
    /\ recorded = [c \in Counters |-> 0]
    /\ buffered = [c \in Counters |-> 0]
    /\ durable = [c \in Counters |-> 0]
    /\ faults = 0 /\ expirations = 0

Record(c) ==
    /\ recorded' = [recorded EXCEPT ![c] = @ + 1]
    /\ buffered' = [buffered EXCEPT ![c] = @ + 1]
    /\ UNCHANGED <<durable, faults, expirations>>

Persist(c) ==
    /\ \E n \in 1..buffered[c] :
         /\ buffered' = [buffered EXCEPT ![c] = @ - n]
         /\ durable' = [durable EXCEPT ![c] = @ + n]
    /\ UNCHANGED <<recorded, faults, expirations>>

Lose ==
    /\ buffered' \in [Counters -> Nat]
    /\ \A c \in Counters : buffered'[c] <= buffered[c]
    /\ faults' = faults + 1
    /\ UNCHANGED <<recorded, durable, expirations>>

Expire ==
    /\ durable' \in [Counters -> Nat]
    /\ \A c \in Counters : durable'[c] <= durable[c]
    /\ expirations' = expirations + 1
    /\ UNCHANGED <<recorded, buffered, faults>>

Next ==
    \/ \E c \in Counters : Record(c) \/ Persist(c)
    \/ Lose
    \/ Expire

Spec == Init /\ [][Next]_vars

TypeOK ==
    /\ recorded \in [Counters -> Nat]
    /\ buffered \in [Counters -> Nat]
    /\ durable \in [Counters -> Nat]
    /\ faults \in Nat /\ expirations \in Nat

\* No event is counted twice, and without faults and retention none is
\* missing.
CountedOnce ==
    \A c \in Counters :
        /\ buffered[c] + durable[c] <= recorded[c]
        /\ faults = 0 /\ expirations = 0 => buffered[c] + durable[c] = recorded[c]
=============================================================================
