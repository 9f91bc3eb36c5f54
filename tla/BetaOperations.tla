---------------------------- MODULE BetaOperations ----------------------------
(***************************************************************************)
(* The operations of the closed beta: its calendar and gate, the manifests *)
(* and sessions of its days, enrollment, withdrawals and the deletions     *)
(* they ask for, legal holds, the consent ledger, complaints, incidents    *)
(* and restores.                                                           *)
(*                                                                         *)
(* In the code these parts share no state: each gets what it needs of the  *)
(* others as an argument, which its module lets range over everything a    *)
(* caller may hold. A behaviour here therefore is one of some part, with   *)
(* the others at rest; the interleaving of two parts adds nothing.         *)
(***************************************************************************)
EXTENDS Integers, Sequences, FiniteSets

CONSTANTS
  \* the calendar and the gate
  Day, GraceHours, Half, Criteria, Reports, Decisions, LastDay, MaxAudits,
  \* manifests
  Days, LineageIds, VersionIds, Rounds, Positions, Mode, ModeCount,
  Participants, SessionIds,
  \* sessions
  PlayRounds, MaxClues, Points, LineageVersions, PlayedVersion, Corrections, Disputed,
  DayEnd, Grace, LastTime,
  \* enrollment
  Invitations, EnrolledLineages, Digests, Blank, Hours, MaxReissues,
  \* withdrawals and holds
  Lineages, CaseIds, Deadline, MaxEntries, HoldDays, ReviewDays, RetentionDays, Instants,
  \* consent
  PolicyVersions, Persons, Policies, Kinds,
  \* complaints
  Severities, AcknowledgementDue, QuarantineDue, DecisionDue, Editor, SafetyReviewer,
  Reviewers, Credentials, MaxEvents,
  \* incidents
  Rules, Scopes, DayMinutes, ObservedFrom, ObservedTo, Num, Den, MaxAge, LastMinute,
  MaxIncidents, MaxVersion,
  \* restores
  RestoreIds, Copies, Ledgers, ORDER, Operators, Verifier, Actors, Watermarks, Known,
  MaxApplied,
  Times,   \* instants of complaints and restores
  None

VARIABLES
  part,
  now, evaluations, authorization,
  lineages, bindings,
  status, state, elsewhere, view, clock,
  signed, invitations, credentials, enrollments, revocations,
  withdrawn, committed, revoked, cases,
  hold,
  policies, facts, consent, eligibility, analysis,
  complaint, snapshot, history,
  incidents, observed, minute, control, evidence, delivered,
  states, vault

gate == <<now, evaluations, authorization>>
book == <<lineages, bindings>>
session == <<status, state, elsewhere, view, clock>>
enrollment == <<signed, invitations, credentials, enrollments, revocations>>
withdrawals == <<withdrawn, committed, revoked, cases>>
ledger == <<policies, facts, consent, eligibility, analysis>>
complaints == <<complaint, snapshot, history>>
outages == <<incidents, observed, minute, control, evidence, delivered>>
restores == <<states, vault>>

vars == <<part, gate, book, session, enrollment, withdrawals, hold, ledger, complaints, outages,
          restores>>

Gate == INSTANCE Day8Gate WITH Grace <- GraceHours, MaxTime <- LastDay
Book == INSTANCE ManifestBook
Session == INSTANCE SessionResults WITH Rounds <- PlayRounds, IssuedVersion <- PlayedVersion,
                                       MaxTime <- LastTime, now <- clock
Enrolling == INSTANCE Enrollment WITH Lineages <- EnrolledLineages
Withdrawal == INSTANCE Withdrawals WITH Times <- Instants
Holds == INSTANCE LegalHolds WITH Times <- Instants
Ledger == INSTANCE ParticipantLedger WITH Versions <- PolicyVersions
Complaint == INSTANCE ComplaintCases
Outage == INSTANCE Incidents WITH Start <- ObservedFrom, End <- ObservedTo,
                                  MaxTime <- LastMinute, now <- minute
Restore == INSTANCE RestoreCoordinator WITH Current <- Known

\* The assumptions of the parts about their constants.
ASSUME OperationsAssumption ==
  /\ Gate!CalendarAssumption /\ Gate!ReportAssumption
  /\ Gate!TimeAssumption /\ Gate!NoneAssumption
  /\ Book!ModeAssumption /\ Book!NoneAssumption
  /\ Session!PointsAssumption /\ Session!VersionAssumption
  /\ Session!RoundAssumption /\ Session!TimeAssumption
  /\ Enrolling!EnrollmentAssumption
  /\ Withdrawal!DeadlineAssumption /\ Withdrawal!TimeAssumption /\ Withdrawal!NoneAssumption
  /\ Holds!PeriodAssumption /\ Holds!TimeAssumption
  /\ Ledger!VersionAssumption /\ Ledger!PolicyAssumption /\ Ledger!KindAssumption
  /\ Complaint!DueAssumption /\ Complaint!NoneAssumption
  /\ Outage!WindowAssumption /\ Outage!TargetAssumption /\ Outage!BoundAssumption
  /\ Restore!ActorAssumption /\ Restore!OrderAssumption /\ Restore!TimeAssumption
  /\ Restore!NoneAssumption
-----------------------------------------------------------------------------
Parts == {"gate", "book", "session", "enrollment", "withdrawal", "hold", "ledger", "complaint",
          "availability", "delivery", "restore"}

Init ==
  /\ part \in Parts
  /\ Gate!Init /\ Book!Init /\ Session!Init /\ Enrolling!Init /\ Withdrawal!Init
  /\ Holds!Init /\ Ledger!Init /\ Complaint!Init /\ Outage!Init /\ Restore!Init

GateStep ==
  /\ part = "gate" /\ Gate!Next
  /\ UNCHANGED <<part, book, session, enrollment, withdrawals, hold, ledger, complaints,
                 outages, restores>>
BookStep ==
  /\ part = "book" /\ Book!Next
  /\ UNCHANGED <<part, gate, session, enrollment, withdrawals, hold, ledger, complaints,
                 outages, restores>>
SessionStep ==
  /\ part = "session" /\ Session!Next
  /\ UNCHANGED <<part, gate, book, enrollment, withdrawals, hold, ledger, complaints,
                 outages, restores>>
EnrollmentStep ==
  /\ part = "enrollment" /\ Enrolling!Next
  /\ UNCHANGED <<part, gate, book, session, withdrawals, hold, ledger, complaints,
                 outages, restores>>
WithdrawalStep ==
  /\ part = "withdrawal" /\ Withdrawal!Next
  /\ UNCHANGED <<part, gate, book, session, enrollment, hold, ledger, complaints,
                 outages, restores>>
HoldStep ==
  /\ part = "hold" /\ Holds!Next
  /\ UNCHANGED <<part, gate, book, session, enrollment, withdrawals, ledger, complaints,
                 outages, restores>>
LedgerStep ==
  /\ part = "ledger" /\ Ledger!Next
  /\ UNCHANGED <<part, gate, book, session, enrollment, withdrawals, hold, complaints,
                 outages, restores>>
ComplaintStep ==
  /\ part = "complaint" /\ Complaint!Next
  /\ UNCHANGED <<part, gate, book, session, enrollment, withdrawals, hold, ledger,
                 outages, restores>>
OutageStep ==
  /\ \/ part = "availability" /\ Outage!AvailabilityNext
     \/ part = "delivery" /\ Outage!DeliveryNext
  /\ UNCHANGED <<part, gate, book, session, enrollment, withdrawals, hold, ledger, complaints,
                 restores>>
RestoreStep ==
  /\ part = "restore" /\ Restore!Next
  /\ UNCHANGED <<part, gate, book, session, enrollment, withdrawals, hold, ledger, complaints,
                 outages>>

Next ==
  \/ GateStep \/ BookStep \/ SessionStep \/ EnrollmentStep \/ WithdrawalStep \/ HoldStep
  \/ LedgerStep \/ ComplaintStep \/ OutageStep \/ RestoreStep

Spec == Init /\ [][Next]_vars
-----------------------------------------------------------------------------
(* What the parts promise, one invariant each; their modules say more of   *)
(* the conjuncts. A part at rest is in its initial state.                  *)

(* The second half of the beta opens on evidence, and no two days at once  *)
(* (evaluateDay7Gate, authorizeDay8, evaluateReleaseWindow).               *)
SecondHalfIsEarned == part = "gate" => Gate!OpensOnEvidence /\ Gate!OneDayOpen

(* Nobody plays a round in two sessions, and a round that was taken out    *)
(* stays out, before and after sessions were issued (ManifestBook).        *)
RoundsArePlayedOnce == part = "book" => Book!NoRoundTwice /\ Book!RemovedRoundsStayOut

(* Results show what was scored, and corrections reach those who answered  *)
(* (SessionResultsView over an authoritative state).                       *)
ResultsAreHonest == part = "session" => Session!ViewIsHonest /\ Session!CorrectionsReachAnswers

(* A token, a lineage and an enrollment mean one participant, and only the *)
(* last token sent works, through reissues and revocations that fail       *)
(* halfway (ClosedBetaEnrollment).                                         *)
TokensIdentifyParticipants ==
  part = "enrollment" =>
    /\ Enrolling!OneLiveToken /\ Enrolling!TokensIdentify
    /\ Enrolling!LineagesIdentify /\ Enrolling!EnrollmentsAreEarned

(* A withdrawal is whole or not there, and its case does not lie about     *)
(* deadlines (WithdrawalCoordinator, DeletionCase).                        *)
WithdrawalsAreKept == part = "withdrawal" => Withdrawal!WithdrawnIsWhole /\ Withdrawal!MissesMatchStatus

(* A hold keeps nothing for longer than its renewals allow                 *)
(* (createLegalHold, renewLegalHold, applyLegalHold).                      *)
HoldsRunOut == part = "hold" => Holds!HoldsRunOut

(* Whether play counts follows from the facts, in whatever order they came *)
(* (ParticipantStateLedger).                                               *)
AnalysisFollowsFacts == part = "ledger" => Ledger!AnalysisFollowsFacts /\ Ledger!ActivationIsEarned

(* A complaint is decided in order and by others, and its snapshot agrees  *)
(* with its history (ComplaintCase).                                       *)
ComplaintsAreDecidedInOrder == part = "complaint" => Complaint!DecidedInOrder /\ Complaint!SnapshotIsHistory

(* A minute that counts as spoilt by the platform counts as unavailable    *)
(* and protects the streak; nothing is delivered long after the controls   *)
(* changed (evaluateAvailability, evaluateStreakProtection,                *)
(* executeFreshDelivery).                                                  *)
OutagesAreAccountedFor ==
  part \in {"availability", "delivery"} => Outage!OutagesAreAccountedFor /\ Outage!StaleControlStops

(* A restored copy is exposed only after every ledger was applied          *)
(* (RestoreCoordinator).                                                   *)
ExposedIsReconciled == part = "restore" => Restore!ExposedIsReconciled

(* What was settled stays settled, whatever is asked for afterwards: the   *)
(* accepted decision of the gate, the version a session was issued, the    *)
(* points of an answer, a revoked invitation, an exclusion, what a restore *)
(* exposed.                                                                *)
SettledStaysSettled ==
  /\ Gate!AcceptedOnce
  /\ Book!SessionsKeepTheirVersion
  /\ Session!AnswersAreSettled
  /\ Enrolling!RevocationIsFinal
  /\ Ledger!DecisionsStand
  /\ Restore!ExposedOnce

(* A test of the gate says that denials leave its history readable, and    *)
(* the first accepted decision in force (authorizeDay8).                   *)
HistoryReadable == part = "gate" => Gate!HistoryReadable
=============================================================================
