-------------------------- MODULE ParticipantAccess --------------------------
(***************************************************************************)
(* A participant's way in: the enrollment registry and the registry of     *)
(* daily credentials, composed. Two things join them.                      *)
(*                                                                         *)
(* The operator who issues a daily credential takes its lineage from       *)
(* gameplayLineageFor. And revoking an invitation calls the cascade port,  *)
(* which calls cascadeRevoke with the daily credentials the caller named   *)
(* as descendants. The port is an interface in the source; what it can do  *)
(* is throw before it calls cascadeRevoke, have cascadeRevoke throw (a     *)
(* named credential is not a descendant), or throw after it (the reveal    *)
(* credentials come next). Enrollment has marked everything by then, and   *)
(* audits the revocation only if the port returns. Revoking again is       *)
(* allowed at any time.                                                    *)
(*                                                                         *)
(* Enrollment keeps the id of an invitation as it was given, the daily     *)
(* registry keeps it trimmed and compares it untrimmed: an invitation with *)
(* blanks around its id gets daily credentials that no cascade finds.      *)
(***************************************************************************)
EXTENDS Integers, Sequences

CONSTANTS
  Invitations, Lineages, Digests, Blank, Hours, MaxReissues,
  Ids, Approved, Days, Manifests, Transitions, Notice, Rounds, Keys,
  Trim, Joined, KeyOf, RoundOf, IssueRequests, UseRequests, MaxNesting, None

VARIABLES
  signed, invitations, credentials, enrollments, revocations,
  records, issuedDays, withdrawn, spentKeys, corrected, applying, starts, plays, asked,
  issuedFor,    \* history: the invitation each daily credential was issued for
  descendants   \* history: the ones there were when a revocation was audited

E == INSTANCE Enrollment
D == INSTANCE DailyCredentials

ASSUME InvitationAssumption ==
  /\ E!EnrollmentAssumption
  /\ D!CredentialAssumption
  /\ None \notin Lineages \cup Invitations

enrollmentVars == <<signed, invitations, credentials, enrollments, revocations>>
dailyVars ==
  <<records, issuedDays, withdrawn, spentKeys, corrected, applying, starts, plays, asked>>
accessVars == <<issuedFor, descendants>>
vars == <<enrollmentVars, dailyVars, accessVars>>
-----------------------------------------------------------------------------
(* What the registries do by themselves.                                   *)

EnrollmentStep ==
  /\ \/ \E rule \in {"COHORT", "ADULT_POLICY"} : E!RecordRule(rule)
     \/ \E i \in Invitations, l \in Lineages, d \in Digests \cup {Blank}, at \in Hours :
          E!IssueInvitation(i, l, d, at)
     \/ \E i \in Invitations, at \in Hours : \E n \in DOMAIN credentials[i] : E!Enroll(i, n, at)
     \/ \E i \in Invitations, d \in Digests \cup {Blank}, at \in Hours : E!Reissue(i, d, at)
  /\ UNCHANGED <<dailyVars, accessVars>>

DailyStep ==
  /\ \/ \E q \in UseRequests : D!Authorize(q)
     \/ D!Finish
     \/ \E id \in Ids : D!Revoke(id)
     \/ \E l \in Lineages : D!Withdraw(l)
     \/ \E id \in Ids, r \in Rounds : D!Correct(id, r)
  /\ UNCHANGED <<enrollmentVars, accessVars>>
-----------------------------------------------------------------------------
(* What joins them.                                                        *)

IssuedFor(q) == issuedFor' = [issuedFor EXCEPT ![Trim[q.id]] = q.invitation]

IssueDailyUnenrolled(q) == \* Fault: the lineage is taken as the caller gives it.
  /\ D!Issue(q)
  /\ IssuedFor(q)
  /\ UNCHANGED <<enrollmentVars, descendants>>

IssueDaily(q) ==
  /\ q.lineage = E!GameplayLineage(q.invitation)
  /\ D!Issue(q)
  /\ IssuedFor(q)
  /\ UNCHANGED <<enrollmentVars, descendants>>

\* The daily credentials of an invitation, whatever the registry calls it.
DailyCredentialsOf(i) == {id \in Ids : issuedFor[id] = i}

(* The port revoked the daily credentials; it returns, and the revocation  *)
(* is audited, or it throws on what comes next.                            *)
Revoke(i, named, portReturns) ==
  /\ E!RevokeInvitation(i, portReturns)
  /\ D!CascadeRevoke(i, invitations[i].lineage, named)
  /\ descendants' = IF portReturns THEN [descendants EXCEPT ![i] = @ \cup DailyCredentialsOf(i)]
                    ELSE descendants
  /\ UNCHANGED issuedFor

\* The port throws before a daily credential is revoked.
RevokeFails(i) ==
  /\ E!RevokeInvitation(i, FALSE)
  /\ UNCHANGED <<dailyVars, accessVars>>
-----------------------------------------------------------------------------
Init ==
  /\ E!Init /\ D!Init
  /\ issuedFor = [id \in Ids |-> None]
  /\ descendants = [i \in Invitations |-> {}]

Next ==
  \/ EnrollmentStep
  \/ DailyStep
  \/ \E q \in IssueRequests : IssueDaily(q)
  \/ \E i \in Invitations, named \in SUBSET Ids, portReturns \in BOOLEAN :
       Revoke(i, named, portReturns)
  \/ \E i \in Invitations : RevokeFails(i)

Spec == Init /\ [][Next]_vars
-----------------------------------------------------------------------------
(* Properties.                                                             *)

\* Every variable keeps its type.
TypeOK ==
  /\ E!TypeOK /\ D!TypeOK
  /\ issuedFor \in [Ids -> Invitations \cup {None}]
  /\ descendants \in [Invitations -> SUBSET Ids]

(* An audited revocation has reached every daily credential there was for  *)
(* the invitation, the ones the caller did not name included, and none of  *)
(* them works again, whatever was tried and failed before: if the id of    *)
(* the invitation has no blanks around it (revokeInvitation, issue,        *)
(* cascadeRevoke).                                                         *)
RevocationReachesDescendants ==
  \A i \in revocations :
    /\ invitations[i].status = "REVOKED"
    /\ Trim[i] = i => \A id \in descendants[i] : D!Dead(id)

(* The contract: "Invite revocation shall cascade to every descendant      *)
(* daily-session and reveal credential" (FR-025). An audited one has       *)
(* reached every daily credential of its invitation.                       *)
EveryRevocationCascades ==
  \A i \in revocations : \A id \in descendants[i] : D!Dead(id)

(* An invitation has one daily credential for a day, through reissues and  *)
(* repeated enrollments, and however its id is written: its lineage is the *)
(* same for good and is no other invitation's, and the daily registry      *)
(* counts by lineage.                                                      *)
OneCredentialPerInvitationAndDay ==
  \A c, d \in Ids :
    /\ D!Issued(c) /\ D!Issued(d)
    /\ issuedFor[c] = issuedFor[d] /\ records[c].day = records[d].day
    => c = d

(* Whoever plays was enrolled: the credential of every running mutation    *)
(* was issued for an invitation with its lineage and an enrollment.        *)
OnlyTheEnrolledPlay ==
  \A n \in DOMAIN applying :
    LET id == applying[n].id  i == issuedFor[id]
    IN i # None /\ enrollments[i] # None /\ invitations[i].lineage = records[id].lineage
=============================================================================
