------------------------------ MODULE Day8Gate ------------------------------
(***************************************************************************)
(* The continuation gate of the closed beta. Days 1..Half run on a fixed   *)
(* calendar. Then the beta pauses until a signed report on the first half  *)
(* has been evaluated and an operator had the signed decision to open      *)
(* accepted; the days of the second half count from the next midnight.     *)
(*                                                                         *)
(* The authorization is one stored value, read and written inside a        *)
(* transaction of the store; everything it says is parsed and verified     *)
(* again when it is read. A denied attempt is stored too. Instants are     *)
(* integers, midnights the multiples of Day, and a signature is what the   *)
(* authority says of it.                                                   *)
(***************************************************************************)
EXTENDS Integers, Sequences, FiniteSets

CONSTANTS
  Day, Grace,    \* the length of a day, and of the grace after it
  Half,          \* the number of days before the pause (as many follow it)
  Criteria,      \* the measures of the gate: a function from ids to rules
  Reports,       \* the signed reports: [id, version, at, observed]
  Decisions,     \* the decisions an operator may hand in
  MaxTime, MaxAudits,
  None

\* Assumed of the constants, and evaluated where the module is composed.
CalendarAssumption ==
  /\ Day \in Nat /\ Grace \in Nat /\ 0 < Grace /\ Grace < Day
  /\ Half \in Nat \ {0}

\* Only one report is signed as this version of this id.
ReportAssumption ==
  \A r, q \in Reports : r.id = q.id /\ r.version = q.version => r = q

TimeAssumption == (\A r \in Reports : r.at \in Nat) /\ (\A d \in Decisions : d.at \in Nat)

VARIABLES
  now,            \* the server's clock
  evaluations,    \* the evaluations made so far
  authorization   \* the stored authorization, or None

vars == <<now, evaluations, authorization>>
-----------------------------------------------------------------------------
(* The calendar.                                                           *)

Ordinals == 1..(2 * Half)
DayStart(n) == (n - 1) * Day
FreezeAt == DayStart(Half) + Day + Grace

NextMidnight(t) == ((t \div Day) + 1) * Day

(* Outcome of one measure. A rule has [source, comparator, num, den,       *)
(* minDenominator, minResponses, maxMissing]; its threshold is num/den.    *)
(* An observation is None (unavailable) or [numerator, denominator,        *)
(* missing, responses].                                                    *)
WellFormed(rule, o) ==
  o # None /\ rule.source = "RATE" => o.numerator <= o.denominator

Insufficient(rule, o) ==
  \/ rule.source = "RATE" /\ o.denominator = 0
  \/ o.denominator < rule.minDenominator
  \/ o.responses < rule.minResponses
  \/ o.missing > rule.maxMissing

Meets(rule, o) ==
  LET value == o.numerator * rule.den
      bound == rule.num * (IF rule.source = "RATE" THEN o.denominator ELSE 1)
  IN CASE rule.comparator = "AT_LEAST" -> value >= bound
       [] rule.comparator = "AT_MOST"  -> value <= bound
       [] OTHER                        -> value = bound

CriterionOutcome(rule, o) ==
  IF o = None \/ Insufficient(rule, o) THEN "INDETERMINATE"
  ELSE IF Meets(rule, o) THEN "PASS" ELSE "FAIL"

Overall(outcomes) ==
  IF "FAIL" \in outcomes THEN "FAIL"
  ELSE IF "INDETERMINATE" \in outcomes THEN "INDETERMINATE" ELSE "PASS"

RecommendationFor(outcome) ==
  CASE outcome = "PASS" -> "OPEN" [] outcome = "FAIL" -> "DO_NOT_OPEN" [] OTHER -> "PAUSE"

(* A report is evaluated if it was signed after the freeze, observes every *)
(* measure, and its claims reproduce; claims that do not make the          *)
(* evaluation throw, so only the recomputed values appear in the result.   *)
Evaluable(r) ==
  /\ r.at >= FreezeAt
  /\ \A c \in DOMAIN Criteria : WellFormed(Criteria[c], r.observed[c])

Evaluation(r) ==
  [report |-> r.id, version |-> r.version, at |-> r.at,
   recommendation |->
     RecommendationFor(Overall({CriterionOutcome(Criteria[c], r.observed[c]) :
                                  c \in DOMAIN Criteria}))]
-----------------------------------------------------------------------------
(* Decisions. A decision has [id, key, verdict, report, version,           *)
(* signature, at, role, authenticated, rationale]; the signature is        *)
(* "valid", "forged" or "missing", an empty key is "". Equal decisions     *)
(* have equal digests.                                                     *)

\* A rationale is None or [report, signedBy, at, verified]: it names no version.
\* Fault: it may have been signed before the report was.
RationaleOfAnyAge(r, e, at) ==
  /\ r # None
  /\ r.report = e.report /\ r.signedBy = "Don" /\ r.verified
  /\ r.at <= at

ValidRationale(r, e, at) ==
  /\ r # None
  /\ r.report = e.report /\ r.signedBy = "Don" /\ r.verified
  /\ e.at <= r.at /\ r.at <= at

AuthorizationReason(d, e) ==
  IF d.role # "RELEASE_OPERATOR" THEN "RELEASE_OPERATOR_REQUIRED"
  ELSE IF ~d.authenticated THEN "AUTHENTICATED_RELEASE_OPERATOR_REQUIRED"
  ELSE IF d.key = "" THEN "IDEMPOTENCY_KEY_REQUIRED"
  ELSE IF d.signature = "missing" THEN "DON_SIGNATURE_REQUIRED"
  ELSE IF d.signature = "forged" THEN "DECISION_SIGNATURE_INVALID"
  ELSE IF e = None THEN "REPORT_EVALUATION_INVALID"
  ELSE IF d.verdict # "OPEN" THEN "OPEN_DECISION_REQUIRED"
  ELSE IF d.report # e.report \/ d.version # e.version THEN "REPORT_REFERENCE_MISMATCH"
  ELSE IF d.at < e.at THEN "DECISION_CHRONOLOGY_INVALID"
  ELSE IF e.recommendation # "OPEN" /\ ~ValidRationale(d.rationale, e, d.at)
       THEN "SIGNED_DEPARTURE_RATIONALE_REQUIRED"
  ELSE "NONE"
-----------------------------------------------------------------------------
(* The stored authorization: [decision, audits], where decision is the     *)
(* accepted decision or None and an audit is [decision, reason]; the       *)
(* reason of the accepted one is "NONE". The operator's role is filed as   *)
(* "INVALID" when it is no text, which "untyped" stands for.               *)

Reasons ==
  {"NONE", "RELEASE_OPERATOR_REQUIRED", "AUTHENTICATED_RELEASE_OPERATOR_REQUIRED",
   "IDEMPOTENCY_KEY_REQUIRED", "DON_SIGNATURE_REQUIRED", "DECISION_SIGNATURE_INVALID",
   "REPORT_EVALUATION_INVALID", "OPEN_DECISION_REQUIRED", "REPORT_REFERENCE_MISMATCH",
   "DECISION_CHRONOLOGY_INVALID", "SIGNED_DEPARTURE_RATIONALE_REQUIRED",
   "IDEMPOTENCY_REPLAY_DRIFT", "DAY8_ALREADY_AUTHORIZED"}
Audit == [decision : Decisions, reason : Reasons]
Authorization == [decision : Decisions \cup {None}, audits : Seq(Audit)]

NoneAssumption == None \notin Decisions \cup Authorization

Allowed(a) == a # None /\ a.decision # None
Day8Start(a) == NextMidnight(a.decision.at)

AuditParses(entry) ==
  LET d == entry.decision
  IN /\ d.role # "untyped"
     /\ entry.reason \notin {"DON_SIGNATURE_REQUIRED", "DECISION_SIGNATURE_INVALID"}
          => d.signature = "valid"
     /\ entry.reason = "DON_SIGNATURE_REQUIRED" => d.signature = "missing"
     /\ entry.reason = "DECISION_SIGNATURE_INVALID" => d.signature # "valid"

AcceptedAudits(a) == {n \in DOMAIN a.audits : a.audits[n].reason = "NONE"}

\* Can the stored value be read back, by a caller who holds the evaluation e?
Parses(a, e) ==
  /\ \A n \in DOMAIN a.audits : AuditParses(a.audits[n])
  /\ IF a.decision = None
     THEN AcceptedAudits(a) = {}
     ELSE /\ e # None
          /\ a.decision.report = e.report /\ a.decision.version = e.version
          /\ e.recommendation # "OPEN" => ValidRationale(a.decision.rationale, e, a.decision.at)
          /\ \E n \in DOMAIN a.audits :
               AcceptedAudits(a) = {n} /\ a.audits[n].decision = a.decision

History(a) == IF a = None THEN <<>> ELSE a.audits

\* Fault: a denied attempt takes the accepted decision with it.
DeniedForGood(a, d, reason) ==
  [decision |-> None, audits |-> Append(History(a), [decision |-> d, reason |-> reason])]

Denied(a, d, reason) ==
  [decision |-> IF Allowed(a) THEN a.decision ELSE None,
   audits |-> Append(History(a), [decision |-> d, reason |-> reason])]

Accepted(a, d) ==
  [decision |-> d, audits |-> Append(History(a), [decision |-> d, reason |-> "NONE"])]

(* What the transaction leaves in the store. An accepted decision that is  *)
(* handed in again changes nothing.                                        *)
Authorized(a, d, e) ==
  LET reason == AuthorizationReason(d, e)
  IN IF Allowed(a)
     THEN IF reason = "NONE" /\ d = a.decision THEN a
          ELSE IF reason = "NONE" /\ d.key = a.decision.key
               THEN Denied(a, d, "IDEMPOTENCY_REPLAY_DRIFT")
          ELSE Denied(a, d, IF reason = "NONE" THEN "DAY8_ALREADY_AUTHORIZED" ELSE reason)
     ELSE IF reason = "NONE" THEN Accepted(a, d) ELSE Denied(a, d, reason)
-----------------------------------------------------------------------------
(* The window of a day, and the answer to a request of a session.          *)

WindowStart(n) ==
  IF n <= Half THEN DayStart(n) ELSE Day8Start(authorization) + (n - Half - 1) * Day
WindowEnd(n) == WindowStart(n) + Day
GraceEnd(n) == WindowEnd(n) + Grace

Terminal == {"COMPLETED", "EXPIRED", "WITHDRAWN"}

(* May a session of day n with this status do the action now? A session    *)
(* that has ended may be read; that is asked before the start of its day.  *)
ReleaseAllowed(n, action, status, credentialIssued) ==
  /\ n > Half => Allowed(authorization)
  /\ n \in {1} \cup ((Half + 1)..(2 * Half)) \/ status \notin Terminal => now >= WindowStart(n)
  /\ IF status \in Terminal THEN action = "READ"
     ELSE \/ now < WindowEnd(n) /\ (action = "ISSUE" \/ credentialIssued)
          \/ now >= WindowEnd(n) /\ now < GraceEnd(n) /\ action # "ISSUE" /\ credentialIssued

\* The status a session of day n is in after its request was answered.
ResultingStatus(n, action, status) ==
  IF /\ status \notin Terminal /\ action # "ISSUE"
     /\ (n > Half => Allowed(authorization)) /\ now >= GraceEnd(n)
  THEN "EXPIRED" ELSE status
-----------------------------------------------------------------------------
Init ==
  /\ now = 0
  /\ evaluations = {}
  /\ authorization = None

Tick ==
  /\ now < MaxTime
  /\ now' = now + 1
  /\ UNCHANGED <<evaluations, authorization>>

\* evaluateDay7Gate: the result is registered for its trust domain.
EvaluateDay7Gate(r) ==
  /\ r.at <= now /\ Evaluable(r)
  /\ evaluations' = evaluations \cup {Evaluation(r)}
  /\ UNCHANGED <<now, authorization>>

(* authorizeDay8, by a caller who holds the evaluation e or none. The      *)
(* transaction aborts when what is stored does not parse; otherwise the    *)
(* new value is stored, and parsed again for the caller, who may get an    *)
(* error although the value stays. Nothing dates a decision by the clock.  *)
AuthorizeDay8(d, e) ==
  /\ Len(History(authorization)) < MaxAudits
  /\ authorization # None => Parses(authorization, e)
  /\ authorization' = Authorized(authorization, d, e)
  /\ UNCHANGED <<now, evaluations>>

Next ==
  \/ Tick
  \/ \E r \in Reports : EvaluateDay7Gate(r)
  \/ \E d \in Decisions, e \in evaluations \cup {None} : AuthorizeDay8(d, e)

Spec == Init /\ [][Next]_vars
-----------------------------------------------------------------------------
(* Properties.                                                             *)

TypeOK ==
  /\ now \in 0..MaxTime
  /\ evaluations \subseteq {Evaluation(r) : r \in Reports}
  /\ authorization \in {None} \cup Authorization

(* The second half opens on evidence: a report version signed after the    *)
(* freeze and before the decision, in which every measure was sufficiently *)
(* observed and met its threshold, or a verified rationale about that      *)
(* report. A rationale names no version, but one that was signed before    *)
(* this version of the report does not count (evaluateDay7Gate,            *)
(* authorizeDay8, validateRationale).                                      *)
OpensOnEvidence ==
  Allowed(authorization) =>
    LET d == authorization.decision
    IN \E r \in Reports :
         /\ r.id = d.report /\ r.version = d.version
         /\ FreezeAt <= r.at /\ r.at <= d.at
         /\ \/ \A c \in DOMAIN Criteria :
                 /\ r.observed[c] # None
                 /\ ~Insufficient(Criteria[c], r.observed[c])
                 /\ Meets(Criteria[c], r.observed[c])
            \/ /\ d.rationale # None
               /\ d.rationale.report = r.id /\ d.rationale.verified
               /\ r.at <= d.rationale.at /\ d.rationale.at <= d.at

(* At no time are two days open for new sessions, and no day of the second *)
(* half is while one of the first still takes answers: the pause separates *)
(* the grace of day 7 from day 8, whenever the decision came               *)
(* (evaluateReleaseWindow, nextMidnight).                                  *)
OneDayOpen ==
  \A n, m \in Ordinals :
    /\ n # m
    /\ ReleaseAllowed(n, "ISSUE", "NOT_STARTED", FALSE)
    => /\ ~ReleaseAllowed(m, "ISSUE", "NOT_STARTED", FALSE)
       /\ n <= Half \/ m > Half \/ ~ReleaseAllowed(m, "WRITE_EVENT", "IN_PROGRESS", TRUE)

(* The first accepted decision is final: later attempts only add to the    *)
(* audits, and a day that closed stays closed, its unfinished sessions     *)
(* expired (authorizeDay8, evaluateReleaseWindow).                         *)
AcceptedOnce ==
  [][/\ Allowed(authorization) =>
          /\ authorization'.decision = authorization.decision
          /\ AcceptedAudits(authorization') = AcceptedAudits(authorization)
     /\ History(authorization) = SubSeq(History(authorization'), 1, Len(History(authorization)))
     /\ \A n \in Ordinals : (n <= Half \/ Allowed(authorization)) /\ now >= GraceEnd(n)
          => /\ ~ReleaseAllowed(n, "WRITE_EVENT", "IN_PROGRESS", TRUE)'
             /\ (ResultingStatus(n, "READ", "IN_PROGRESS") = "EXPIRED")']_vars

(* What a test of the gate says: the authorization can be read, and later  *)
(* attempts be answered, through any denials (by a caller who holds the    *)
(* evaluation it rests on).                                                *)
HistoryReadable ==
  authorization # None =>
    \E r \in Reports : Parses(authorization, Evaluation(r))
=============================================================================
