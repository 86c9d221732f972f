---------------------------- MODULE GasPricing ----------------------------
(***************************************************************************)
(* The fee fields of an executor transaction.  dynamic_gas_price raises the *)
(* gas price of the send context by basis points that depend on the relay's *)
(* record and on the context, and caps the result; sign_executor_transaction*)
(* turns that price into the fee fields it signs.  The cap is applied in the*)
(* first step only: what the second may add to it is what is stated here.  *)
(***************************************************************************)
EXTENDS Integers

CONSTANTS GasPrices,   \* gas prices a send context can carry
          BaseFees,    \* base fees of the pending block
          GasCaps,     \* MEV_MAX_GAS_PRICE_GWEI, when one is configured
          Overpays     \* the configured gas_overpay_* basis points

ASSUME GasAssumption ==
  /\ GasPrices \subseteq Nat /\ BaseFees \subseteq Nat /\ GasCaps \subseteq Nat
  /\ Overpays \subseteq [base : Nat, miss : Nat, revert : Nat, failure : Nat, max : Nat]

VARIABLE signed        \* the last transaction signed, with the price it was signed at

Uncapped == -1         \* no gas cap configured
Legacy   == -1         \* no base fee known: a legacy transaction
Bps      == 10000

\* What the code reads of the best relay's quote: its record, or no relay at all.
RelayRecords == [miss : BOOLEAN, revert : BOOLEAN, failing : BOOLEAN]
NoRelay      == [miss |-> FALSE, revert |-> FALSE, failing |-> FALSE]

Contexts == {"toxic", "priority", "neutral"}

Larger(a, b)  == IF a >= b THEN a ELSE b
Smaller(a, b) == IF a <= b THEN a ELSE b

RelayBps(o, relay) ==
  (IF relay.miss THEN o.miss ELSE 0) + (IF relay.revert THEN o.revert ELSE 0)
    + (IF relay.failing THEN o.failure ELSE 0)

ContextBps(o, context) ==
  CASE context = "toxic"    -> o.miss \div 2
    [] context = "priority" -> o.base \div 2
    [] context = "neutral"  -> 0

ExtraBps(o, relay, context) ==
  Smaller(o.base + RelayBps(o, relay) + ContextBps(o, context), o.max)

Capped(price, cap) == IF cap = Uncapped THEN price ELSE Smaller(price, cap)

DynamicGasPrice(price, cap, extra) == Capped((price * (Bps + extra)) \div Bps, cap)

PriorityFee(price, baseFee) ==
  Larger(IF price >= baseFee THEN price - baseFee ELSE 0, price \div 4)

\* Mutation: the base fee is not added.
MaxFeeRecapped(price, baseFee) == price

MaxFee(price, baseFee) == Larger(baseFee + PriorityFee(price, baseFee), price)

\* The fee fields that are signed; a legacy transaction has the price alone.
Fees(price, baseFee) ==
  IF baseFee = Legacy THEN [maxFee |-> price, priority |-> price]
  ELSE [maxFee |-> MaxFee(price, baseFee), priority |-> PriorityFee(price, baseFee)]

NoTx == [cap |-> Uncapped, baseFee |-> Legacy, price |-> 0, maxFee |-> 0, priority |-> 0]

GasInit == signed = NoTx

Sign ==
  \E base \in GasPrices, cap \in GasCaps \cup {Uncapped}, fee \in BaseFees \cup {Legacy},
     o \in Overpays, relay \in RelayRecords \cup {NoRelay}, context \in Contexts :
    LET price == DynamicGasPrice(base, cap, ExtraBps(o, relay, context))
        fees  == Fees(price, fee)
    IN  signed' = [cap |-> cap, baseFee |-> fee, price |-> price,
                   maxFee |-> fees.maxFee, priority |-> fees.priority]

GasNext == Sign
GasSpec == GasInit /\ [][GasNext]_signed
-----------------------------------------------------------------------------
GasTypeOK ==
  signed \in [cap : Nat \cup {Uncapped}, baseFee : Nat \cup {Legacy},
              price : Nat, maxFee : Nat, priority : Nat]

\* What is signed can exceed the configured cap, because sign_executor_transaction adds the
\* priority fee to the base fee after the cap was applied; but never by more than a quarter of
\* the cap above the base fee, and only while the base fee is itself above three quarters of it.
OverCapOnlyNearBaseFee ==
  signed.cap # Uncapped /\ signed.maxFee > signed.cap =>
    /\ signed.baseFee # Legacy
    /\ signed.maxFee <= signed.baseFee + signed.cap \div 4
    /\ 4 * signed.baseFee > 3 * signed.cap

\* The other side of that choice: whatever the cap, a transaction is signed that the pending block
\* can include and the network accepts - its maximum fee covers the base fee, and its priority fee
\* does not exceed the maximum fee.  Capping the maximum fee again would break the first.
SignedIsIncludable ==
  signed.baseFee # Legacy =>
    signed.maxFee >= signed.baseFee + signed.price \div 4 /\ signed.priority <= signed.maxFee

\* What dynamic_gas_price and sign_executor_transaction sign between them is within reach of the
\* cap and includable, although each looks at only one of the two.
FeesAreSound == OverCapOnlyNearBaseFee /\ SignedIsIncludable
===========================================================================
