------------------------------- MODULE Incidents -------------------------------
(***************************************************************************)
(* Operational incidents of the beta: recording one under a signed policy, *)
(* counting the minutes the game was available, protecting streaks, and    *)
(* delivering only on fresh evidence of the content controls. Instants are *)
(* minutes. A signature is what the authority says of it; the shapes of    *)
(* the inputs, which the code checks field by field, are left out.         *)
(***************************************************************************)
EXTENDS Integers, Sequences, FiniteSets

CONSTANTS
  Rules,           \* the rules of the signed policy: a function to [platform, preserve]
  Scopes,
  DayMinutes,      \* minutes in a day
  Start, End,      \* the observation window
  Num, Den,        \* the target rate: 99/100 in the code
  MaxAge,          \* how old evidence may be: five minutes
  MaxTime, MaxIncidents, MaxVersion,   \* bounds of the model
  None

Minutes == Start..(End - 1)

\* Assumed of the constants, and evaluated where the module is composed.
WindowAssumption == Start \in Nat /\ End \in Nat /\ Start < End /\ DayMinutes \in Nat \ {0}
TargetAssumption == Num \in Nat /\ Den \in Nat
BoundAssumption == MaxAge \in Nat /\ MaxTime \in Nat /\ MaxVersion \in Nat

VARIABLES
  incidents,     \* recorded: [rule, start, end, scope], the end may be None
  observed,      \* per minute of the window: None, or [status, by]
  now,
  control,       \* control[n]: the instant from which version n is the current one
  evidence,      \* observations of the control: [version, at]
  delivered      \* None or the last delivery: [version, at]

vars == <<incidents, observed, now, control, evidence, delivered>>
-----------------------------------------------------------------------------
(* parseRule: the treatment follows from the classification.               *)
Parses(rule) == Rules[rule].preserve = Rules[rule].platform

(* recordOperationalIncident: attested by the release operator who owns    *)
(* the decision, between the start and the acceptance.                     *)
Record(rule, start, end, scope, signer, attestedAt, acceptedAt) ==
  /\ Parses(rule)
  /\ start <= acceptedAt
  /\ end # None => end >= start
  /\ signer = "decision owner"
  /\ start <= attestedAt /\ attestedAt <= acceptedAt
  /\ Cardinality(incidents) < MaxIncidents
  /\ incidents' = incidents \cup {[rule |-> rule, start |-> start, end |-> end, scope |-> scope]}
  /\ UNCHANGED <<observed, now, control, evidence, delivered>>

(* evaluateAvailability of the evidence for one scope, a minute at a time. *)
(* A minute is PLATFORM_INVALID by an incident that covers it.             *)
Observe(minute, status, by) ==
  /\ observed[minute] = None
  /\ observed' = [observed EXCEPT ![minute] = [status |-> status, by |-> by]]
  /\ UNCHANGED <<incidents, now, control, evidence, delivered>>

ObserveInvalid(minute, scope, i) ==
  /\ Rules[i.rule].platform
  /\ i.scope = scope
  /\ i.start <= minute /\ minute < (IF i.end = None THEN End ELSE i.end)
  /\ Observe(minute, "PLATFORM_INVALID", i)

Missing == {m \in Minutes : observed[m] = None}
Available == {m \in Minutes \ Missing : observed[m].status = "AVAILABLE"}

AvailabilityStatus ==
  IF Missing # {} THEN "INDETERMINATE"
  ELSE IF Cardinality(Available) * Den >= Num * (End - Start) THEN "PASS" ELSE "FAIL"

\* Fault: only the day an incident began on is protected.
StreakPreservedThatDay(i, scope, dayStart) ==
  /\ i.scope = scope
  /\ dayStart <= i.start /\ i.start < dayStart + DayMinutes
  /\ Rules[i.rule].platform /\ Rules[i.rule].preserve

\* evaluateStreakProtection of the day that starts at dayStart.
StreakPreserved(i, scope, dayStart) ==
  /\ i.scope = scope
  /\ i.start < dayStart + DayMinutes
  /\ i.end = None \/ i.end > dayStart
  /\ Rules[i.rule].platform /\ Rules[i.rule].preserve
-----------------------------------------------------------------------------
(* executeFreshDelivery. The caller says which version of the control it   *)
(* expects; the verifier confirms that the evidence is genuine.            *)
Deliver(e, expected, verified) ==
  /\ e.version = expected
  /\ verified
  /\ now - e.at >= 0 /\ now - e.at <= MaxAge
  /\ delivered' = [version |-> expected, at |-> now]
  /\ UNCHANGED <<incidents, observed, now, control, evidence>>

ObserveControl ==
  /\ evidence' = evidence \cup {[version |-> Len(control), at |-> now]}
  /\ UNCHANGED <<incidents, observed, now, control, delivered>>

ChangeControl ==
  /\ Len(control) < MaxVersion
  /\ control' = Append(control, now)
  /\ UNCHANGED <<incidents, observed, now, evidence, delivered>>

Tick ==
  /\ now < MaxTime
  /\ now' = now + 1
  /\ UNCHANGED <<incidents, observed, control, evidence, delivered>>
-----------------------------------------------------------------------------
Init ==
  /\ incidents = {}
  /\ observed = [m \in Minutes |-> None]
  /\ now = 0
  /\ control = <<0>>
  /\ evidence = {}
  /\ delivered = None

AvailabilityNext ==
  \/ \E r \in DOMAIN Rules, s, t, u \in 0..MaxTime, e \in (0..MaxTime) \cup {None}, scope \in Scopes,
       signer \in {"decision owner", "other"} : Record(r, s, e, scope, signer, t, u)
  \/ \E m \in Minutes, status \in {"AVAILABLE", "UNAVAILABLE"} : Observe(m, status, None)
  \/ \E m \in Minutes, scope \in Scopes, i \in incidents : ObserveInvalid(m, scope, i)

DeliveryNext ==
  \/ Tick \/ ObserveControl \/ ChangeControl
  \/ \E e \in evidence, v \in 1..MaxVersion, ok \in BOOLEAN : Deliver(e, v, ok)

Next == AvailabilityNext \/ DeliveryNext
Spec == Init /\ [][Next]_vars
-----------------------------------------------------------------------------
(* Properties.                                                             *)

TypeOK ==
  /\ \A i \in incidents : i.rule \in DOMAIN Rules /\ i.scope \in Scopes
  /\ \A m \in Minutes \ Missing : observed[m].by \in incidents \cup {None}
  /\ delivered # None => delivered.version \in 1..Len(control)

(* An outage is never excused twice: a minute the platform spoilt counts   *)
(* against the availability, and whoever it was spoilt for on that day     *)
(* keeps the streak (evaluateAvailability, evaluateStreakProtection).      *)
OutagesAreAccountedFor ==
  /\ \A m \in Minutes \ Missing :
       LET i == observed[m].by
       IN i # None => StreakPreserved(i, i.scope, (m \div DayMinutes) * DayMinutes)
  /\ AvailabilityStatus = "PASS" =>
       Cardinality(Minutes \ Available) * Den <= (Den - Num) * (End - Start)

(* Delivery stops soon after the controls changed: nothing is delivered    *)
(* under a version that was replaced longer ago than evidence may be old   *)
(* (executeFreshDelivery).                                                 *)
StaleControlStops ==
  delivered # None /\ delivered.version < Len(control) =>
    delivered.at <= control[delivered.version + 1] + MaxAge
=============================================================================
