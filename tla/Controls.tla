----------------------------- MODULE Controls -----------------------------
(***************************************************************************)
(* The dashboard's control requests: pause, opportunity mode, thresholds.  *)
(* Each handler changes the value the engine reads and then, under other   *)
(* locks, writes a copy of it into the dashboard's state and an event about*)
(* it into the list the page shows.  The copies are left out: a snapshot   *)
(* takes all three settings from where the engine reads them.  The events  *)
(* are the operator's record of what was asked, so the model keeps what    *)
(* the newest one of this run says of each setting (the list holds 50).    *)
(* The thresholds handler first reads the current ones to fill in the      *)
(* fields the request leaves out.  The handlers run on a multi-threaded    *)
(* executor and share no lock.                                             *)
(***************************************************************************)
EXTENDS Integers

CONSTANTS Handlers,       \* requests that can be in progress together
          Fields,         \* the threshold fields
          Values,         \* values a request can carry for a field, valid or not
          OpportunityModes,
          InitialMode,
          InitialValue,   \* the thresholds of the configuration
          MaxRequests     \* bound: requests received

ASSUME ControlsAssumption == InitialValue \in Values /\ InitialValue > 0 /\ InitialMode \in OpportunityModes

VARIABLES effective,      \* what the engine reads: the atomic flag and the two locked values
          logged,         \* what the newest event about each setting says; the configuration before any
          request,        \* what each handler is doing
          received,
          unordered       \* settings last written by requests that overlapped

controlVars == <<effective, logged, request, received, unordered>>

Settings == {"paused", "mode", "thresholds"}
Absent   == -1            \* a field the request leaves out
BadMode  == "unknown"     \* a mode that does not parse
Quiet    == [setting |-> "none", value |-> Absent, fields |-> {}, phase |-> "idle",
             outdated |-> FALSE, overlapped |-> FALSE]

ControlsInit ==
  /\ effective = [paused |-> FALSE, mode |-> InitialMode, thresholds |-> [f \in Fields |-> InitialValue]]
  /\ logged = effective
  /\ request = [h \in Handlers |-> Quiet]
  /\ received = 0 /\ unordered = {}

\* Mutation: missing fields fall back to the initial values.
MergedWithDefaults(asked) == [f \in Fields |-> IF asked[f] = Absent THEN InitialValue ELSE asked[f]]

\* The thresholds a request asks for, the fields it leaves out taken from those in force now.
Merged(asked) == [f \in Fields |-> IF asked[f] = Absent THEN effective.thresholds[f] ELSE asked[f]]

Positive(thresholds) == \A f \in Fields : thresholds[f] > 0

Accept(h, setting, value, fields) ==
  request' = [request EXCEPT ![h] = [setting |-> setting, value |-> value, fields |-> fields,
                                     phase |-> "apply", outdated |-> FALSE, overlapped |-> FALSE]]

Arrives(h) == request[h].phase = "idle" /\ received < MaxRequests /\ received' = received + 1

PauseRequest(h, paused) ==
  /\ Arrives(h) /\ Accept(h, "paused", paused, {})
  /\ UNCHANGED <<effective, logged, unordered>>

\* A mode that does not parse is answered with an error and changes nothing.
ModeRequest(h, mode) ==
  /\ Arrives(h)
  /\ IF mode = BadMode THEN UNCHANGED request ELSE Accept(h, "mode", mode, {})
  /\ UNCHANGED <<effective, logged, unordered>>

\* The current thresholds are read here and written in Apply, under two holds of the lock.
ThresholdRequest(h, asked) ==
  /\ Arrives(h)
  /\ IF Positive(Merged(asked))
       THEN Accept(h, "thresholds", Merged(asked), {f \in Fields : asked[f] # Absent})
       ELSE UNCHANGED request
  /\ UNCHANGED <<effective, logged, unordered>>

InPhase(h, setting, phase) == request[h].setting = setting /\ request[h].phase = phase

Apply(h) ==
  LET s == request[h].setting
      others == {g \in Handlers \ {h} : request[g].setting = s}
      raced == {g \in others : request[g].phase = "log"}
  IN  /\ request[h].phase = "apply"
      /\ effective' = [effective EXCEPT ![s] = request[h].value]
      /\ request' = [g \in Handlers |->
           CASE g = h -> [request[g] EXCEPT !.phase = "log", !.overlapped = (raced # {})]
             [] g \in others -> [request[g] EXCEPT !.outdated = (request[g].phase = "apply"),
                                                   !.overlapped = @ \/ g \in raced]
             [] OTHER -> request[g]]
      /\ UNCHANGED <<logged, received, unordered>>

\* Mutation: the new setting is not announced.
LogForgotten(h) ==
  /\ request[h].phase = "log"
  /\ request' = [request EXCEPT ![h] = Quiet]
  /\ UNCHANGED <<effective, logged, received, unordered>>

\* The event: the newest about this setting from now on.
Log(h) ==
  LET s == request[h].setting
  IN  /\ request[h].phase = "log"
      /\ logged' = [logged EXCEPT ![s] = request[h].value]
      /\ unordered' = IF request[h].overlapped THEN unordered \cup {s} ELSE unordered \ {s}
      /\ request' = [request EXCEPT ![h] = Quiet]
      /\ UNCHANGED <<effective, received>>

ControlsNext ==
  \E h \in Handlers :
    \/ \E paused \in BOOLEAN : PauseRequest(h, paused)
    \/ \E mode \in OpportunityModes \cup {BadMode} : ModeRequest(h, mode)
    \/ \E asked \in [Fields -> Values \cup {Absent}] : ThresholdRequest(h, asked)
    \/ Apply(h)
    \/ Log(h)

ControlsSpec == ControlsInit /\ [][ControlsNext]_controlVars
-----------------------------------------------------------------------------
\* The value is written under one lock and the event that announces it under another.  Whenever no
\* handler is between the two, the newest event about a setting names the value in force, unless the
\* last requests for that setting overlapped there: then the log ends with a value not in use.
LogNamesEffective ==
  \A s \in Settings :
    (\A h \in Handlers : ~InPhase(h, s, "log")) /\ s \notin unordered => logged[s] = effective[s]

\* A thresholds request writes all fields, the ones it was not asked to change included.  It undoes
\* another request's change only if that one was applied after it had read the current thresholds.
UpdateLostOnlyByRace ==
  [][\A h \in Handlers :
       InPhase(h, "thresholds", "apply") /\ request'[h].phase = "log" /\ ~request[h].outdated
         => \A f \in Fields \ request[h].fields : effective'.thresholds[f] = effective.thresholds[f]]_controlVars
===========================================================================
