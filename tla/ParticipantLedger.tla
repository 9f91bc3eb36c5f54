--------------------------- MODULE ParticipantLedger ---------------------------
(***************************************************************************)
(* Consent. A registry of signed policies answers whether somebody may be  *)
(* invited; a ledger of facts per participant says whether their play      *)
(* counts for the analysis, by the latest analysis record in it. The       *)
(* ledger is an immutable value of which the caller keeps the latest. Of   *)
(* the facts only these matter: which kinds there are, and the policy of   *)
(* the last valid consent and of the last valid eligibility.               *)
(***************************************************************************)
EXTENDS Integers

CONSTANTS
  Versions,      \* policy versions
  Persons,       \* who may be invited: [jurisdiction, relationship, conflicts, tester, external]
  Policies,      \* signed policies: [version, from, signedAt, jurisdictions, relationships,
                 \*   conflicts, external]
  Kinds,         \* the kinds of facts that come in
  Times, None

\* Assumed of the constants, and evaluated where the module is composed.
VersionAssumption == None \notin Versions
PolicyAssumption ==
  /\ Times \subseteq Int /\ None \notin Times
  /\ \A p \in Policies : p.from \in Int /\ p.signedAt \in Int

VARIABLES
  policies,     \* the registered policies
  facts,        \* the kinds of facts recorded
  consent, eligibility,   \* the policy version of the last valid one, or None
  analysis      \* the last analysis record: [state, reason]

vars == <<policies, facts, consent, eligibility, analysis>>
-----------------------------------------------------------------------------
(* The registry.                                                           *)

Register(policy) ==
  /\ \A p \in policies : p.version # policy.version
  /\ policies' = policies \cup {policy}
  /\ UNCHANGED <<facts, consent, eligibility, analysis>>

Applicable(p, person) ==
  /\ person.jurisdiction \in p.jurisdictions
  /\ person.relationship \in p.relationships
  /\ person.conflicts \cap p.conflicts = {}
  /\ ~person.tester
  /\ p.external => person.external

InvitationDecision(version, person, at) ==
  IF version = None THEN "POLICY_ABSENT"
  ELSE IF ~\E p \in policies : p.version = version THEN "POLICY_UNKNOWN"
  ELSE LET p == CHOOSE q \in policies : q.version = version
       IN IF at = None THEN "POLICY_INAPPLICABLE"
          ELSE IF at < p.from \/ at < p.signedAt THEN "POLICY_NOT_EFFECTIVE"
          ELSE IF Applicable(p, person) THEN "ALLOWED" ELSE "POLICY_INAPPLICABLE"
-----------------------------------------------------------------------------
(* The ledger.                                                             *)

\* exclusionReason: the facts that exclude, and the reason each stands for.
ExclusionReason ==
  [INELIGIBLE |-> "INVALID_ELIGIBILITY", TESTER |-> "OPERATIONAL_TESTER",
   WITHDRAWAL_RECORDED |-> "AUTHENTICATED_WITHDRAWAL",
   DUPLICATE_LINEAGE_RECORDED |-> "DUPLICATE_LINEAGE",
   SIGNED_INTEGRITY_EXCLUSION |-> "SIGNED_INTEGRITY_EXCLUSION"]
Exclusions == DOMAIN ExclusionReason

\* OTHER stands for the facts nothing depends on, an invalid consent among them.
KindAssumption ==
  Kinds \subseteq Exclusions \cup
    {"INVITATION_RECORDED", "ENROLLMENT_RECORDED", "CONSENTED", "ELIGIBLE", "NOT_TESTER",
     "SESSION_STARTED", "ACTIVATED", "OTHER"}

AnalysisEligible(kinds) == {"CONSENTED", "ELIGIBLE", "NOT_TESTER", "SESSION_STARTED"} \subseteq kinds

ActivationEligible ==
  /\ {"INVITATION_RECORDED", "ENROLLMENT_RECORDED"} \subseteq facts
  /\ consent # None /\ consent = eligibility

\* Fault: who is in cannot be excluded any more.
AnalysisOnce(kind, kinds) ==
  IF analysis.state # "PENDING" THEN analysis
  ELSE IF kind \in Exclusions THEN [state |-> "EXCLUDED", reason |-> ExclusionReason[kind]]
  ELSE IF AnalysisEligible(kinds) THEN [state |-> "INCLUDED", reason |-> None] ELSE analysis

(* The latest analysis record after a fact of this kind: a new one when it *)
(* excludes or completes what the analysis needs.                          *)
AnalysisAfter(kind, kinds) ==
  IF kind \in Exclusions /\ analysis.state # "EXCLUDED"
  THEN [state |-> "EXCLUDED", reason |-> ExclusionReason[kind]]
  ELSE IF analysis.state = "PENDING" /\ AnalysisEligible(kinds)
  THEN [state |-> "INCLUDED", reason |-> None]
  ELSE analysis

RecordFact(kind, version) ==
  /\ kind = "ACTIVATED" => ActivationEligible
  /\ facts' = facts \cup {kind}
  /\ consent' = IF kind = "CONSENTED" THEN version ELSE consent
  /\ eligibility' = IF kind = "ELIGIBLE" THEN version ELSE eligibility
  /\ analysis' = AnalysisAfter(kind, facts \cup {kind})
  /\ UNCHANGED policies
-----------------------------------------------------------------------------
Init ==
  /\ policies = {}
  /\ facts = {}
  /\ consent = None /\ eligibility = None
  /\ analysis = [state |-> "PENDING", reason |-> None]

Next ==
  \/ \E p \in Policies : Register(p)
  \/ \E kind \in Kinds, v \in Versions : RecordFact(kind, v)

Spec == Init /\ [][Next]_vars
-----------------------------------------------------------------------------
(* Properties.                                                             *)

TypeOK ==
  /\ policies \subseteq Policies /\ facts \subseteq Kinds
  /\ consent \in Versions \cup {None} /\ eligibility \in Versions \cup {None}
  /\ analysis.state \in {"PENDING", "INCLUDED", "EXCLUDED"}

(* The analysis state does not depend on the order the facts came in:      *)
(* whoever has an exclusion is out for good, whoever has none and all that *)
(* the analysis needs is in, and nobody else is (record).                  *)
AnalysisFollowsFacts ==
  analysis.state = IF facts \cap Exclusions # {} THEN "EXCLUDED"
                   ELSE IF AnalysisEligible(facts) THEN "INCLUDED" ELSE "PENDING"

(* The first exclusion is the one on record, once included is pending      *)
(* never again, and who was allowed to be invited stays so: a policy is    *)
(* neither replaced nor does it run out (record, register,                 *)
(* invitationDecision).                                                    *)
DecisionsStand ==
  [][/\ analysis.state = "EXCLUDED" => analysis' = analysis
     /\ analysis.state = "INCLUDED" => analysis'.state # "PENDING"
     /\ \A v \in Versions, person \in Persons, t, u \in Times :
          t <= u /\ InvitationDecision(v, person, t) = "ALLOWED"
            => InvitationDecision(v, person, u)' = "ALLOWED"]_vars

(* Only somebody who was invited, enrolled, consented and found eligible   *)
(* under a policy is ever activated (isActivationEligible).                *)
ActivationIsEarned ==
  "ACTIVATED" \in facts =>
    {"INVITATION_RECORDED", "ENROLLMENT_RECORDED", "CONSENTED", "ELIGIBLE"} \subseteq facts
=============================================================================
