----------------------------- MODULE Enrollment -----------------------------
(***************************************************************************)
(* The enrollment registry: invitations with their participant lineage,    *)
(* the one-time credentials sent for them, enrollment, reissue, and the    *)
(* revocation of an invitation.                                            *)
(*                                                                         *)
(* Its operations are not atomic in their failures: a lineage and its      *)
(* invitation are on file before the first credential is made, a reissue   *)
(* revokes the old credential before it makes the new one, and making one  *)
(* may throw (the generated token is blank, or its digest is not unique).  *)
(* A revocation has marked everything here before it calls the port that   *)
(* revokes what descends from the invitation elsewhere, and the port may   *)
(* throw; what was marked stays marked.                                    *)
(*                                                                         *)
(* Instants are hours, as the callers claim them. Only the two audit       *)
(* entries a reader could rely on are kept (the audited revocations).      *)
(***************************************************************************)
EXTENDS Integers, Sequences

CONSTANTS
  Invitations,
  Lineages,       \* what the lineage id generator can return
  Digests,        \* digests of the tokens the token generator can return
  Blank,          \* a generated token or digest that is blank
  Hours,          \* instants callers claim
  MaxReissues,    \* bound on the credentials of an invitation, after the first
  None

VARIABLES
  signed,         \* the rules on file: COHORT, ADULT_POLICY
  invitations,    \* #invitations, with the lineage of each
  credentials,    \* the credentials of each invitation, in the order made
  enrollments,    \* #enrollments
  revocations     \* the invitations with an INVITATION_REVOKED audit entry

enrollmentVars == <<signed, invitations, credentials, enrollments, revocations>>

Invitation == [lineage : Lineages, status : {"ISSUED", "ENROLLED", "REVOKED"}]
Credential == [digest : Digests, expiresAt : Int, status : {"ACTIVE", "USED", "REVOKED"}]
EnrollmentRecord == [credential : Nat \ {0}, at : Hours]

\* Assumed of the constants, and evaluated where the module is composed.
EnrollmentAssumption ==
  /\ Hours \subseteq Int
  /\ MaxReissues \in Nat
  /\ Blank \notin Digests
  /\ None \notin Invitation \cup EnrollmentRecord

Invited(i) == invitations[i] # None
LineageTaken(l) == \E i \in Invitations : Invited(i) /\ invitations[i].lineage = l
DigestTaken(d) == \E i \in Invitations : \E n \in DOMAIN credentials[i] : credentials[i][n].digest = d
-----------------------------------------------------------------------------
(* The credentials of an invitation as the operations leave them.          *)

Usable(d) == d # Blank /\ ~DigestTaken(d)
NewCredential(d, at) == [digest |-> d, expiresAt |-> at + 72, status |-> "ACTIVE"]

\* Fault: a reissue leaves its predecessors active.
KeepPredecessors(cs) == cs
RevokeActive(cs) ==
  [n \in DOMAIN cs |-> IF cs[n].status = "ACTIVE" THEN [cs[n] EXCEPT !.status = "REVOKED"] ELSE cs[n]]
RevokeAll(cs) == [n \in DOMAIN cs |-> [cs[n] EXCEPT !.status = "REVOKED"]]
WithNew(cs, d, at) == IF Usable(d) THEN Append(cs, NewCredential(d, at)) ELSE cs
-----------------------------------------------------------------------------
RecordRule(rule) ==
  /\ signed' = signed \cup {rule}
  /\ UNCHANGED <<invitations, credentials, enrollments, revocations>>

(* A new invitation of a new lineage. With an unusable token the call      *)
(* throws, and leaves an invitation without a credential.                  *)
IssueInvitation(i, l, d, at) ==
  /\ signed = {"COHORT", "ADULT_POLICY"}
  /\ ~Invited(i) /\ ~LineageTaken(l)
  /\ invitations' = [invitations EXCEPT ![i] = [lineage |-> l, status |-> "ISSUED"]]
  /\ credentials' = [credentials EXCEPT ![i] = WithNew(@, d, at)]
  /\ UNCHANGED <<signed, enrollments, revocations>>

(* Enrollment with the token of credential n of invitation i, which is the *)
(* one credential with that digest.                                        *)
Enroll(i, n, at) ==
  /\ credentials[i][n].status = "ACTIVE"
  /\ at < credentials[i][n].expiresAt
  /\ invitations[i].status # "REVOKED"
  /\ credentials' = [credentials EXCEPT ![i][n].status = "USED"]
  /\ invitations' = [invitations EXCEPT ![i].status = "ENROLLED"]
  /\ enrollments' = [enrollments EXCEPT ![i] = [credential |-> n, at |-> at]]
  /\ UNCHANGED <<signed, revocations>>

(* A reissue whose verification holds. With an unusable token the call     *)
(* throws, and the old credential is revoked all the same.                 *)
Reissue(i, d, at) ==
  /\ Invited(i) /\ invitations[i].status # "REVOKED"
  /\ Len(credentials[i]) <= MaxReissues
  /\ credentials' = [credentials EXCEPT ![i] = WithNew(RevokeActive(@), d, at)]
  /\ UNCHANGED <<signed, invitations, enrollments, revocations>>

(* The port's part of a revocation is left to the module that composes it: *)
(* portReturns says whether the port did, or threw.                        *)
RevokeInvitation(i, portReturns) ==
  /\ Invited(i)
  /\ invitations' = [invitations EXCEPT ![i].status = "REVOKED"]
  /\ credentials' = [credentials EXCEPT ![i] = RevokeAll(@)]
  /\ revocations' = IF portReturns THEN revocations \cup {i} ELSE revocations
  /\ UNCHANGED <<signed, enrollments>>

\* Fault: an invitation is enough, enrolled or not.
LineageOfInvited(i) == IF Invited(i) THEN invitations[i].lineage ELSE None
\* What gameplayLineageFor answers, or None where it throws.
GameplayLineage(i) ==
  IF Invited(i) /\ enrollments[i] # None THEN invitations[i].lineage ELSE None
-----------------------------------------------------------------------------
Init ==
  /\ signed = {}
  /\ invitations = [i \in Invitations |-> None]
  /\ credentials = [i \in Invitations |-> << >>]
  /\ enrollments = [i \in Invitations |-> None]
  /\ revocations = {}

Next ==
  \/ \E rule \in {"COHORT", "ADULT_POLICY"} : RecordRule(rule)
  \/ \E i \in Invitations, l \in Lineages, d \in Digests \cup {Blank}, at \in Hours :
       IssueInvitation(i, l, d, at)
  \/ \E i \in Invitations, at \in Hours : \E n \in DOMAIN credentials[i] : Enroll(i, n, at)
  \/ \E i \in Invitations, d \in Digests \cup {Blank}, at \in Hours : Reissue(i, d, at)
  \/ \E i \in Invitations, portReturns \in BOOLEAN : RevokeInvitation(i, portReturns)

Spec == Init /\ [][Next]_enrollmentVars
-----------------------------------------------------------------------------
(* Properties.                                                             *)

\* Every variable keeps its type.
TypeOK ==
  /\ signed \subseteq {"COHORT", "ADULT_POLICY"}
  /\ invitations \in [Invitations -> Invitation \cup {None}]
  /\ credentials \in [Invitations -> Seq(Credential)]
  /\ enrollments \in [Invitations -> EnrollmentRecord \cup {None}]
  /\ revocations \subseteq Invitations

Status(i, n) == credentials[i][n].status

(* An invitation has one live token at most, the last one sent, through    *)
(* reissues that fail halfway included; and a revoked invitation has none. *)
OneLiveToken ==
  \A i \in Invitations : \A n \in DOMAIN credentials[i] :
    Status(i, n) = "ACTIVE" =>
      /\ n = Len(credentials[i])
      /\ Invited(i) /\ invitations[i].status # "REVOKED"

(* A token means one credential, of one invitation: enroll takes the first *)
(* credential it finds with a digest, and there is no second.              *)
TokensIdentify ==
  \A i, j \in Invitations : \A n \in DOMAIN credentials[i], k \in DOMAIN credentials[j] :
    credentials[i][n].digest = credentials[j][k].digest => i = j /\ n = k

(* Two invitations never share a lineage, so that what is done to one      *)
(* participant is never done to another.                                   *)
LineagesIdentify ==
  \A i, j \in Invitations :
    Invited(i) /\ Invited(j) /\ invitations[i].lineage = invitations[j].lineage => i = j

(* An enrollment was made with a credential of its own invitation, before  *)
(* it expired, and used it up.                                             *)
EnrollmentsAreEarned ==
  \A i \in Invitations : enrollments[i] # None =>
    LET n == enrollments[i].credential
    IN /\ n \in DOMAIN credentials[i]
       /\ enrollments[i].at < credentials[i][n].expiresAt
       /\ Status(i, n) # "ACTIVE"
       /\ invitations[i].status # "ISSUED"

(* Revocation is final: nobody enrolls with a revoked invitation, and no   *)
(* credential comes back to life.                                          *)
RevocationIsFinal ==
  [][\A i \in Invitations : Invited(i) =>
       /\ invitations'[i].lineage = invitations[i].lineage
       /\ \A n \in DOMAIN credentials[i] :
            Status(i, n) # "ACTIVE" => Status(i, n)' # "ACTIVE"
       /\ invitations[i].status = "REVOKED" =>
            /\ invitations'[i].status = "REVOKED"
            /\ enrollments'[i] = enrollments[i]]_enrollmentVars
=============================================================================
