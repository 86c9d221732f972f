--------------------------- MODULE LookupBudget ---------------------------
(***************************************************************************)
(* How many pending hashes a second the runtime looks up.  should_enqueue  *)
(* counts what it accepted in a one second window and compares it with a   *)
(* budget computed from the health of the RPC fleet, which it looks at no  *)
(* more than every 900 ms.  Time passes in ticks of a few hundred ms.      *)
(***************************************************************************)
EXTENDS Integers, FiniteSets

CONSTANTS Endpoints,     \* the read endpoints of the fleet
          Capacity,      \* read_capacity_per_sec of each
          Modes,         \* the opportunity modes
          Configured,    \* MEV_PENDING_LOOKUP_MAX_PER_SEC, when set
          WindowTicks,   \* ticks after which the window starts over (1 s)
          RefreshTicks,  \* ticks after which the pressure is read again (900 ms)
          MaxOffers      \* bound: hashes accepted in one window

ASSUME LookupAssumption ==
  /\ IsFiniteSet(Endpoints) /\ Capacity \in [Endpoints -> Nat]
  /\ Modes \subseteq {"conservative", "aggressive", "scavenger"} /\ Configured \subseteq Nat
  /\ WindowTicks \in Nat /\ RefreshTicks \in Nat \ {0}

VARIABLES health,        \* what a fleet snapshot says of each endpoint
          pressure,      \* the pressure the budget is computed from, as last read
          pressureAge,   \* ticks since it was read
          windowAge,     \* ticks since the window started
          accepted,      \* accepted_in_window
          blind,         \* ticks for which no endpoint has been readable
          limits         \* the mode and the configured limit of this run

lookupVars == <<health, pressure, pressureAge, windowAge, accepted, blind, limits>>

Unset == 0    \* MEV_PENDING_LOOKUP_MAX_PER_SEC is not set

\* failing: errors but no cooldown running; cooling: errors and a cooldown; limited: a rate limit.
Healths == {"ok", "failing", "cooling", "limited", "disabled"}

Readable(h) == {e \in Endpoints : h[e] \in {"ok", "failing"}}
Limited(h)  == {e \in Endpoints : h[e] = "limited"}
Failing(h)  == {e \in Endpoints : h[e] \in {"failing", "cooling", "limited"}}

\* The reads a second that a set of endpoints can serve, one by one.
Slots(S) == UNION {{e} \X (1..Capacity[e]) : e \in S}

RpcLookupPressure(h) ==
  [available |-> Cardinality(Readable(h)),
   capacity  |-> Cardinality(Slots(Readable(h))),
   limited   |-> Cardinality(Limited(h)),
   failing   |-> Cardinality(Failing(h))]

Base(mode)     == CASE mode = "conservative" -> 60 [] mode = "aggressive" -> 90 [] mode = "scavenger" -> 25
CapFloor(mode) == CASE mode = "conservative" -> 8  [] mode = "aggressive" -> 10 [] mode = "scavenger" -> 4

Clamped(n, lo, hi) == IF n < lo THEN lo ELSE IF n > hi THEN hi ELSE n
Lesser(a, b)  == IF a <= b THEN a ELSE b
Greater(a, b) == IF a >= b THEN a ELSE b

\* What the fleet can serve bounds the wish, configured or not.
BaseBudget(mode, configured, p) ==
  Lesser(IF configured = Unset THEN Base(mode) ELSE Clamped(configured, 1, 1000),
         Greater(p.capacity, CapFloor(mode)))

\* pressure_multiplier, in percent.
ConfiguredPercent(p) ==
  CASE p.available = 0             -> 5
    [] p.available > 0 /\ p.limited > 0 -> 25
    [] p.available > 0 /\ p.limited = 0 /\ p.failing > p.available -> 60
    [] OTHER -> 100

UnconfiguredPercent(p) ==
  CASE p.available = 0                  -> 3
    [] p.available = 1 /\ p.limited > 0 -> 18
    [] (p.available = 1 /\ p.limited = 0) \/ (p.available > 1 /\ p.limited > 0) -> 28
    [] p.available > 1 /\ p.limited = 0 /\ p.failing > p.available -> 45
    [] OTHER -> 100

PressurePercent(configured, p) ==
  IF configured = Unset THEN UnconfiguredPercent(p) ELSE ConfiguredPercent(p)

BudgetFloor(p) == IF p.available = 0 THEN 4 ELSE 10

\* effective_pending_lookup_budget_for_mode; adding 50 before dividing is f64::round.
EffectiveBudget(mode, configured, p) ==
  Greater((BaseBudget(mode, configured, p) * PressurePercent(configured, p) + 50) \div 100,
          BudgetFloor(p))
-----------------------------------------------------------------------------
DefaultPressure == [available |-> 1, capacity |-> 25, limited |-> 0, failing |-> 0]

\* The default pressure is never used: its clock starts two seconds in the past.
LookupInit ==
  /\ health = [e \in Endpoints |-> "ok"]
  /\ pressure = DefaultPressure
  /\ pressureAge = RefreshTicks /\ windowAge = 0
  /\ accepted = 0 /\ blind = 0
  /\ limits = [mode |-> "scavenger", configured |-> Unset]

\* Mutation: the pressure is renewed only with the window.
CurrentPressureCached ==
  IF pressureAge >= RefreshTicks /\ windowAge >= WindowTicks THEN RpcLookupPressure(health) ELSE pressure

CurrentPressure == IF pressureAge >= RefreshTicks THEN RpcLookupPressure(health) ELSE pressure
CurrentWindow   == IF windowAge >= WindowTicks THEN 0 ELSE accepted

Budget == EffectiveBudget(limits.mode, limits.configured, CurrentPressure)

\* One call of should_enqueue; queueFull: a sixteenth of the decode queue or less is left.
ShouldEnqueue(queueFull) ==
  LET allowed == CurrentWindow < Budget /\ ~queueFull
  IN  /\ CurrentWindow < MaxOffers
      /\ accepted' = CurrentWindow + (IF allowed THEN 1 ELSE 0)
      /\ windowAge' = IF windowAge >= WindowTicks THEN 0 ELSE windowAge
      /\ pressure' = CurrentPressure
      /\ pressureAge' = IF pressureAge >= RefreshTicks THEN 0 ELSE pressureAge
      /\ UNCHANGED <<health, blind, limits>>

LookupTick ==
  /\ windowAge' = Lesser(windowAge + 1, WindowTicks)
  /\ pressureAge' = Lesser(pressureAge + 1, RefreshTicks)
  /\ blind' = IF Readable(health) = {} THEN Lesser(blind + 1, RefreshTicks) ELSE 0
  /\ UNCHANGED <<health, pressure, accepted, limits>>

\* The fleet and the dashboard change what the budget is computed from.
EndpointChanges(e, h) ==
  /\ health[e] # h
  /\ health' = [health EXCEPT ![e] = h]
  /\ blind' = IF Readable(health') = {} THEN blind ELSE 0
  /\ UNCHANGED <<pressure, pressureAge, windowAge, accepted, limits>>

ModeSwitch(mode) ==
  /\ limits.mode # mode
  /\ limits' = [limits EXCEPT !.mode = mode]
  /\ UNCHANGED <<health, pressure, pressureAge, windowAge, accepted, blind>>

\* The process starts over, in an environment with another limit.
LookupRestart(configured) ==
  /\ limits.configured # configured
  /\ limits' = [limits EXCEPT !.configured = configured]
  /\ pressure' = DefaultPressure /\ pressureAge' = RefreshTicks
  /\ windowAge' = 0 /\ accepted' = 0
  /\ UNCHANGED <<health, blind>>

LookupNext ==
  \/ \E full \in BOOLEAN : ShouldEnqueue(full)
  \/ LookupTick
  \/ \E e \in Endpoints, h \in Healths : EndpointChanges(e, h)
  \/ \E mode \in Modes : ModeSwitch(mode)
  \/ \E c \in Configured \cup {Unset} : LookupRestart(c)

LookupSpec == LookupInit /\ [][LookupNext]_lookupVars
-----------------------------------------------------------------------------
Severity(h) == CASE h = "ok" -> 0 [] h = "failing" -> 1 [] h = "cooling" -> 2 [] h = "limited" -> 3

\* An endpoint that degrades never raises the budget, in any mode and for any configured limit,
\* although the budget is a product of a falling capacity and of a multiplier chosen by comparing
\* three counts.  (Disabling an endpoint is left out: it also stops counting as a failing one, and
\* the multiplier can rise from 60 to 100 percent.)
DegradingNeverRaisesBudget ==
  [][\A e \in Endpoints :
       health[e] # "disabled" /\ health'[e] # "disabled" /\ Severity(health'[e]) > Severity(health[e])
         => \A mode \in Modes, c \in Configured \cup {Unset} :
              EffectiveBudget(mode, c, RpcLookupPressure(health'))
                <= EffectiveBudget(mode, c, RpcLookupPressure(health))]_health

\* The pressure is up to 900 ms old.  Once no endpoint has been readable for that long, no more
\* than four lookups are accepted in a window, whatever was configured.
BlindRuntimeSheds ==
  [][blind >= RefreshTicks /\ accepted' > accepted => accepted' <= 4]_lookupVars

\* should_enqueue follows the health of the fleet: no loss of health raises its budget, and a
\* fleet nobody can read from closes it, though the pressure it works with is old.
BudgetFollowsHealth == DegradingNeverRaisesBudget /\ BlindRuntimeSheds
===========================================================================
