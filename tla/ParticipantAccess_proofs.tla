---------------------- MODULE ParticipantAccess_proofs ----------------------
(***************************************************************************)
(* Proofs about ParticipantAccess: the two registries together, for any    *)
(* invitations, lineages and daily credentials.                            *)
(*                                                                         *)
(* What joins the registries is that neither takes anything back. An       *)
(* invitation keeps its lineage and its enrollment, and all that changes   *)
(* of a daily credential is its status. So the lineage a credential was    *)
(* issued for stays the one its invitation has, and counting credentials   *)
(* by lineage is counting them by invitation; and what a cascade found     *)
(* dead stays dead, whatever fails, or is revoked again, later on. That a  *)
(* cascade finds a credential needs the id its record kept, which is the   *)
(* trimmed one, to be the id of its invitation.                            *)
(***************************************************************************)
EXTENDS ParticipantAccess, TLAPS

\* Credentials are made for an invitation on file.
CredentialsAreSent == \A i \in Invitations : E!Invited(i) \/ credentials[i] = << >>

(* A daily credential was issued for an enrolled invitation, is of its     *)
(* lineage, and has its trimmed id. Nothing else was issued.               *)
RecordsAreEnrolled ==
  \A id \in Ids :
    /\ D!Issued(id) =>
         /\ issuedFor[id] \in Invitations
         /\ E!Invited(issuedFor[id]) /\ enrollments[issuedFor[id]] # None
         /\ invitations[issuedFor[id]].lineage = records[id].lineage
         /\ records[id].invitation = Trim[issuedFor[id]]
    /\ ~D!Issued(id) => issuedFor[id] = None

\* The day of every record on file is marked as issued.
RecordsMarkTheirDay ==
  \A id \in Ids : D!Issued(id) => <<records[id].lineage, records[id].day>> \in issuedDays

\* What runs, runs with an issued credential.
UsesAreIssued == \A n \in DOMAIN applying : D!Issued(applying[n].id)

RevocationsAreMarked ==
  \A i \in revocations : E!Invited(i) /\ invitations[i].status = "REVOKED"

\* What an audit counts as descendants was issued for the invitation.
DescendantsAreIssued ==
  \A i \in Invitations : \A id \in descendants[i] : D!Issued(id) /\ issuedFor[id] = i

\* The daily credentials of an audited invitation without blanks are dead.
DescendantsAreDead ==
  \A i \in Invitations : Trim[i] = i => \A id \in descendants[i] : D!Dead(id)

IInv ==
  /\ TypeOK
  /\ CredentialsAreSent
  /\ RecordsAreEnrolled
  /\ RecordsMarkTheirDay
  /\ D!OneCredentialPerDay
  /\ UsesAreIssued
  /\ RevocationsAreMarked
  /\ DescendantsAreIssued
  /\ DescendantsAreDead

\* The enrollment registry takes nothing back.
KeepsInvitations ==
  \A i \in Invitations :
    /\ E!Invited(i) =>
         /\ E!Invited(i)'
         /\ invitations'[i].lineage = invitations[i].lineage
         /\ invitations[i].status = "REVOKED" => invitations'[i].status = "REVOKED"
    /\ enrollments[i] # None => enrollments'[i] # None

\* Nor does the other one: all that changes of a record is that it is revoked.
KeepsRecords ==
  \A id \in Ids :
    /\ D!Issued(id) =>
         /\ D!Issued(id)'
         /\ records'[id] \in {records[id], [records[id] EXCEPT !.status = "REVOKED"]}
    /\ D!Issued(id)' => D!Issued(id)
-----------------------------------------------------------------------------
(* The enrollment registry.                                                *)

\* An invitation with another status is the same invitation otherwise.
LEMMA InvitationStatus ==
  ASSUME NEW v \in E!Invitation, NEW s \in {"ISSUED", "ENROLLED", "REVOKED"}
  PROVE  LET w == [v EXCEPT !.status = s]
         IN w \in E!Invitation /\ w.lineage = v.lineage /\ w.status = s
BY DEF E!Invitation

LEMMA InvitationsAreNotNone == None \notin E!Invitation /\ None \notin E!EnrollmentRecord
BY InvitationAssumption DEF E!EnrollmentAssumption

\* What the operations make of an invitation's credentials are credentials.
LEMMA CredentialsStayCredentials ==
  ASSUME NEW cs \in Seq(E!Credential)
  PROVE  /\ E!RevokeActive(cs) \in Seq(E!Credential)
         /\ E!RevokeAll(cs) \in Seq(E!Credential)
<1>1. /\ DOMAIN cs = 1..Len(cs) /\ Len(cs) \in Nat
      /\ \A n \in DOMAIN cs : cs[n] \in E!Credential
  OBVIOUS
<1>2. \A c \in E!Credential : [c EXCEPT !.status = "REVOKED"] \in E!Credential
  BY DEF E!Credential
<1>3. ASSUME NEW f, DOMAIN f = DOMAIN cs, f = [n \in DOMAIN cs |-> f[n]],
             \A n \in DOMAIN cs : f[n] \in E!Credential
      PROVE  f \in Seq(E!Credential)
  <2>1. f \in [1..Len(cs) -> E!Credential]
    BY <1>1, <1>3
  <2>2. QED
    BY <1>1, <2>1
<1>4. E!RevokeActive(cs) \in Seq(E!Credential)
  BY <1>1, <1>2, <1>3 DEF E!RevokeActive
<1>5. E!RevokeAll(cs) \in Seq(E!Credential)
  BY <1>1, <1>2, <1>3 DEF E!RevokeAll
<1>6. QED
  BY <1>4, <1>5

LEMMA SentCredentialsAreCredentials ==
  ASSUME NEW cs \in Seq(E!Credential), NEW d \in Digests \cup {Blank}, NEW at \in Hours
  PROVE  E!WithNew(cs, d, at) \in Seq(E!Credential)
<1>1. CASE E!Usable(d)
  <2>1. d \in Digests /\ at \in Int
    BY <1>1, InvitationAssumption DEF E!Usable, E!EnrollmentAssumption
  <2>2. E!NewCredential(d, at) \in E!Credential
    BY <2>1 DEF E!NewCredential, E!Credential
  <2>3. QED
    BY <1>1, <2>2 DEF E!WithNew
<1>2. CASE ~E!Usable(d)
  BY <1>2 DEF E!WithNew
<1>3. QED
  BY <1>1, <1>2

\* What every operation of the registry keeps.
EnrollmentKept ==
  E!TypeOK' /\ CredentialsAreSent' /\ KeepsInvitations

\* An invitation is issued for an id that had none.
LEMMA IssueInvitationKeeps ==
  ASSUME IInv, NEW i \in Invitations, NEW l \in Lineages, NEW d \in Digests \cup {Blank},
         NEW at \in Hours, E!IssueInvitation(i, l, d, at)
  PROVE  EnrollmentKept
<1> DEFINE v == [lineage |-> l, status |-> "ISSUED"]
           cs == E!WithNew(credentials[i], d, at)
<1>1. E!TypeOK
  BY DEF IInv, TypeOK
<1>2. v \in E!Invitation /\ v # None
  BY InvitationsAreNotNone DEF E!Invitation
<1>3. credentials[i] \in Seq(E!Credential)
  BY <1>1 DEF E!TypeOK
<1>4. cs \in Seq(E!Credential)
  BY <1>3, SentCredentialsAreCredentials
<1>5. /\ ~E!Invited(i)
      /\ invitations' = [invitations EXCEPT ![i] = v]
      /\ credentials' = [credentials EXCEPT ![i] = cs]
      /\ UNCHANGED <<signed, enrollments, revocations>>
  BY DEF E!IssueInvitation
<1> HIDE DEF v, cs
<1>6. E!TypeOK'
  BY <1>1, <1>2, <1>4, <1>5 DEF E!TypeOK
<1>7. /\ invitations'[i] = v
      /\ \A j \in Invitations : j # i =>
           invitations'[j] = invitations[j] /\ credentials'[j] = credentials[j]
  BY <1>1, <1>5 DEF E!TypeOK
<1>8. CredentialsAreSent'
  BY <1>2, <1>7 DEF IInv, CredentialsAreSent, E!Invited
<1>9. KeepsInvitations
  BY <1>5, <1>7 DEF KeepsInvitations, E!Invited
<1>10. QED
  BY <1>6, <1>8, <1>9 DEF EnrollmentKept

\* Whoever enrolls has a credential, and so an invitation.
LEMMA EnrollKeeps ==
  ASSUME IInv, NEW i \in Invitations, NEW at \in Hours, NEW n \in DOMAIN credentials[i],
         E!Enroll(i, n, at)
  PROVE  EnrollmentKept
<1> DEFINE v == [invitations[i] EXCEPT !.status = "ENROLLED"]
           c == [credentials[i][n] EXCEPT !.status = "USED"]
           cs == [credentials[i] EXCEPT ![n] = c]
           e == [credential |-> n, at |-> at]
<1>1. E!TypeOK
  BY DEF IInv, TypeOK
<1>2. credentials[i] \in Seq(E!Credential)
  BY <1>1 DEF E!TypeOK
<1>3. n \in Nat \ {0} /\ credentials[i][n] \in E!Credential
  BY <1>2
<1>4. c \in E!Credential
  BY <1>3 DEF E!Credential
<1>5. e \in E!EnrollmentRecord /\ e # None
  BY <1>3, InvitationsAreNotNone DEF E!EnrollmentRecord
<1>6. E!Invited(i) /\ invitations[i] \in E!Invitation /\ invitations[i].status # "REVOKED"
  <2>1. credentials[i] # << >>
    OBVIOUS
  <2>2. E!Invited(i)
    BY <2>1 DEF IInv, CredentialsAreSent
  <2>3. QED
    BY <1>1, <2>2 DEF E!TypeOK, E!Invited, E!Enroll
<1>7. v \in E!Invitation /\ v # None /\ v.lineage = invitations[i].lineage
  BY <1>6, InvitationStatus, InvitationsAreNotNone
<1>8. /\ credentials' = [credentials EXCEPT ![i] = cs]
      /\ invitations' = [invitations EXCEPT ![i] = v]
      /\ enrollments' = [enrollments EXCEPT ![i] = e]
      /\ UNCHANGED <<signed, revocations>>
  BY DEF E!Enroll
<1> HIDE DEF v, c, e
<1>9. cs \in Seq(E!Credential)
  BY <1>2, <1>4
<1> HIDE DEF cs
<1>10. E!TypeOK'
  BY <1>1, <1>5, <1>7, <1>8, <1>9 DEF E!TypeOK
<1>11. /\ invitations'[i] = v /\ enrollments'[i] = e
       /\ \A j \in Invitations : j # i =>
            /\ invitations'[j] = invitations[j] /\ credentials'[j] = credentials[j]
            /\ enrollments'[j] = enrollments[j]
  BY <1>1, <1>8 DEF E!TypeOK
<1>12. CredentialsAreSent'
  BY <1>7, <1>11 DEF IInv, CredentialsAreSent, E!Invited
<1>13. KeepsInvitations
  BY <1>5, <1>6, <1>7, <1>11 DEF KeepsInvitations, E!Invited
<1>14. QED
  BY <1>10, <1>12, <1>13 DEF EnrollmentKept

\* A reissue touches the credentials of an invitation on file.
LEMMA ReissueKeeps ==
  ASSUME IInv, NEW i \in Invitations, NEW d \in Digests \cup {Blank}, NEW at \in Hours,
         E!Reissue(i, d, at)
  PROVE  EnrollmentKept
<1> DEFINE cs == E!WithNew(E!RevokeActive(credentials[i]), d, at)
<1>1. E!TypeOK
  BY DEF IInv, TypeOK
<1>2. credentials[i] \in Seq(E!Credential)
  BY <1>1 DEF E!TypeOK
<1>3. cs \in Seq(E!Credential)
  BY <1>2, CredentialsStayCredentials, SentCredentialsAreCredentials
<1>4. /\ E!Invited(i)
      /\ credentials' = [credentials EXCEPT ![i] = cs]
      /\ UNCHANGED <<signed, invitations, enrollments, revocations>>
  BY DEF E!Reissue
<1> HIDE DEF cs
<1>5. E!TypeOK'
  BY <1>1, <1>3, <1>4 DEF E!TypeOK
<1>6. CredentialsAreSent'
  BY <1>1, <1>4 DEF IInv, CredentialsAreSent, E!Invited, E!TypeOK
<1>7. KeepsInvitations
  BY <1>4 DEF KeepsInvitations, E!Invited
<1>8. QED
  BY <1>5, <1>6, <1>7 DEF EnrollmentKept

\* A revocation marks its invitation, whether the port returns or throws.
LEMMA RevokeInvitationKeeps ==
  ASSUME IInv, NEW i \in Invitations, NEW portReturns \in BOOLEAN,
         E!RevokeInvitation(i, portReturns)
  PROVE  EnrollmentKept /\ RevocationsAreMarked'
<1> DEFINE v == [invitations[i] EXCEPT !.status = "REVOKED"]
           cs == E!RevokeAll(credentials[i])
<1>1. E!TypeOK
  BY DEF IInv, TypeOK
<1>2. E!Invited(i) /\ invitations[i] \in E!Invitation
  BY <1>1 DEF E!TypeOK, E!Invited, E!RevokeInvitation
<1>3. /\ v \in E!Invitation /\ v # None
      /\ v.lineage = invitations[i].lineage /\ v.status = "REVOKED"
  BY <1>2, InvitationStatus, InvitationsAreNotNone
<1>4. cs \in Seq(E!Credential)
  <2>1. credentials[i] \in Seq(E!Credential)
    BY <1>1 DEF E!TypeOK
  <2>2. QED
    BY <2>1, CredentialsStayCredentials
<1>5. /\ invitations' = [invitations EXCEPT ![i] = v]
      /\ credentials' = [credentials EXCEPT ![i] = cs]
      /\ revocations' = revocations \/ revocations' = revocations \cup {i}
      /\ UNCHANGED <<signed, enrollments>>
  BY DEF E!RevokeInvitation
<1> HIDE DEF v, cs
<1>6. E!TypeOK'
  BY <1>1, <1>3, <1>4, <1>5 DEF E!TypeOK
<1>7. /\ invitations'[i] = v
      /\ \A j \in Invitations : j # i =>
           invitations'[j] = invitations[j] /\ credentials'[j] = credentials[j]
  BY <1>1, <1>5 DEF E!TypeOK
<1>8. CredentialsAreSent'
  BY <1>3, <1>7 DEF IInv, CredentialsAreSent, E!Invited
<1>9. KeepsInvitations
  BY <1>2, <1>3, <1>5, <1>7 DEF KeepsInvitations, E!Invited
<1>10. RevocationsAreMarked'
  BY <1>1, <1>3, <1>5, <1>7 DEF IInv, RevocationsAreMarked, E!TypeOK, E!Invited
<1>11. QED
  BY <1>6, <1>8, <1>9, <1>10 DEF EnrollmentKept

\* The operations of the enrollment registry by themselves.
LEMMA EnrollmentStepKeeps ==
  ASSUME IInv, EnrollmentStep
  PROVE  EnrollmentKept /\ revocations' = revocations
<1>1. ASSUME NEW rule \in {"COHORT", "ADULT_POLICY"}, E!RecordRule(rule)
      PROVE  EnrollmentKept
  <2>1. /\ UNCHANGED <<invitations, credentials, enrollments, revocations>>
        /\ signed' = signed \cup {rule}
    BY <1>1 DEF E!RecordRule
  <2>2. E!TypeOK'
    BY <2>1 DEF IInv, TypeOK, E!TypeOK
  <2>3. QED
    BY <2>1, <2>2 DEF IInv, EnrollmentKept, CredentialsAreSent, KeepsInvitations, E!Invited
<1>2. EnrollmentKept
  BY <1>1, IssueInvitationKeeps, EnrollKeeps, ReissueKeeps DEF EnrollmentStep
<1>3. revocations' = revocations
  BY DEF EnrollmentStep, E!RecordRule, E!IssueInvitation, E!Enroll, E!Reissue
<1>4. QED
  BY <1>2, <1>3

(* What was true of the credentials on file and of the audited revocations *)
(* stays true, whatever the registry does.                                 *)
LEMMA EnrollmentKeepsTheRest ==
  ASSUME IInv, EnrollmentKept, RevocationsAreMarked', UNCHANGED <<dailyVars, accessVars>>
  PROVE  IInv'
<1>1. /\ records' = records /\ issuedDays' = issuedDays /\ withdrawn' = withdrawn
      /\ spentKeys' = spentKeys /\ corrected' = corrected /\ applying' = applying
      /\ starts' = starts /\ plays' = plays /\ asked' = asked
      /\ issuedFor' = issuedFor /\ descendants' = descendants
  BY DEF dailyVars, accessVars
<1>2. TypeOK'
  BY <1>1 DEF IInv, EnrollmentKept, TypeOK, D!TypeOK
<1>4. RecordsAreEnrolled'
  BY <1>1 DEF IInv, EnrollmentKept, RecordsAreEnrolled, KeepsInvitations, D!Issued
<1>5. DescendantsAreDead' /\ DescendantsAreIssued'
  BY <1>1 DEF IInv, DescendantsAreDead, DescendantsAreIssued, D!Dead, D!Issued
<1>6. QED
  BY <1>1, <1>2, <1>4, <1>5
     DEF IInv, EnrollmentKept, RecordsMarkTheirDay, D!OneCredentialPerDay, UsesAreIssued,
         D!Issued

\* A step of the enrollment registry alone marks no revocation.
LEMMA UnauditedStepsKeep ==
  ASSUME IInv, KeepsInvitations, revocations' = revocations
  PROVE  RevocationsAreMarked'
<1>1. revocations \subseteq Invitations
  BY DEF IInv, TypeOK, E!TypeOK
<1>2. QED
  BY <1>1 DEF IInv, KeepsInvitations, RevocationsAreMarked
-----------------------------------------------------------------------------
(* The registry of daily credentials.                                      *)

\* A revoked record is a record like the one before.
LEMMA RevokedRecord ==
  ASSUME NEW c \in D!Record
  PROVE  LET r == [c EXCEPT !.status = "REVOKED"]
         IN /\ r \in D!Record /\ r # None /\ r.status = "REVOKED"
            /\ r.invitation = c.invitation /\ r.lineage = c.lineage /\ r.day = c.day
<1>1. LET r == [c EXCEPT !.status = "REVOKED"]
      IN /\ r \in D!Record /\ r.status = "REVOKED"
         /\ r.invitation = c.invitation /\ r.lineage = c.lineage /\ r.day = c.day
  BY DEF D!Record
<1>2. None \notin D!Record
  BY InvitationAssumption DEF D!CredentialAssumption
<1>3. QED
  BY <1>1, <1>2

\* What a request names is in the sets the requests are drawn from.
LEMMA Requests ==
  /\ \A q \in IssueRequests :
       /\ q.id \in Ids /\ q.invitation \in Invitations /\ q.lineage \in Lineages
       /\ q.day \in Days /\ q.manifest \in Manifests /\ q.permitted \in SUBSET Transitions
       /\ q.at \in Int
  /\ \A q \in UseRequests :
       q \in D!UseRequest /\ q.id \in Ids /\ q.key \in Keys /\ q.round \in Rounds
<1>1. /\ IssueRequests \subseteq D!IssueRequest /\ UseRequests \subseteq D!UseRequest
  BY InvitationAssumption DEF D!CredentialAssumption
<1>2. \A q \in D!IssueRequest :
        /\ q.id \in Ids /\ q.invitation \in Invitations /\ q.lineage \in Lineages
        /\ q.day \in Days /\ q.manifest \in Manifests /\ q.permitted \in SUBSET Transitions
        /\ q.at \in Int
  BY DEF D!IssueRequest
<1>3. \A q \in D!UseRequest : q.id \in Ids /\ q.key \in Keys /\ q.round \in Rounds
  BY DEF D!UseRequest
<1>4. QED
  BY <1>1, <1>2, <1>3

\* What runs was asked for with a known credential id.
LEMMA RunningRequests ==
  ASSUME D!TypeOK
  PROVE  \A n \in DOMAIN applying : applying[n] \in D!UseRequest /\ applying[n].id \in Ids
<1>1. applying \in Seq(D!UseRequest)
  BY DEF D!TypeOK
<1>2. \A n \in DOMAIN applying : applying[n] \in D!UseRequest
  BY <1>1
<1>3. \A q \in D!UseRequest : q.id \in Ids
  BY DEF D!UseRequest
<1>4. QED
  BY <1>2, <1>3

(* A step that only revokes records, and leaves the other variables the    *)
(* invariant relates to them, keeps what it says of the records.           *)
LEMMA RevocationKeepsRecords ==
  ASSUME IInv, KeepsRecords, records' \in [Ids -> D!Record \cup {None}],
         UNCHANGED <<issuedDays, withdrawn, spentKeys, corrected, applying, starts, plays, asked>>
  PROVE  /\ D!TypeOK'
         /\ RecordsMarkTheirDay' /\ D!OneCredentialPerDay' /\ UsesAreIssued'
         /\ \A id \in Ids :
              /\ D!Issued(id)' <=> D!Issued(id)
              /\ D!Issued(id) =>
                   /\ records'[id].invitation = records[id].invitation
                   /\ records'[id].lineage = records[id].lineage
              /\ D!Dead(id) => D!Dead(id)'
<1>1. \A id \in Ids : D!Issued(id) => records[id] \in D!Record
  BY DEF IInv, TypeOK, D!TypeOK, D!Issued
<1>2. \A id \in Ids :
        /\ D!Issued(id)' <=> D!Issued(id)
        /\ D!Issued(id) =>
             /\ records'[id].invitation = records[id].invitation
             /\ records'[id].lineage = records[id].lineage
             /\ records'[id].day = records[id].day
             /\ records[id].status = "REVOKED" => records'[id].status = "REVOKED"
  <2> SUFFICES ASSUME NEW id \in Ids, D!Issued(id)
               PROVE  /\ records'[id].invitation = records[id].invitation
                      /\ records'[id].lineage = records[id].lineage
                      /\ records'[id].day = records[id].day
                      /\ records[id].status = "REVOKED" => records'[id].status = "REVOKED"
    BY DEF KeepsRecords
  <2> DEFINE r == [records[id] EXCEPT !.status = "REVOKED"]
  <2>1. records'[id] = records[id] \/ records'[id] = r
    BY DEF KeepsRecords
  <2>2. /\ r.status = "REVOKED" /\ r.invitation = records[id].invitation
        /\ r.lineage = records[id].lineage /\ r.day = records[id].day
    BY <1>1, RevokedRecord
  <2> HIDE DEF r
  <2>3. QED
    BY <2>1, <2>2
<1>3. D!TypeOK'
  BY DEF IInv, TypeOK, D!TypeOK
<1>4. RecordsMarkTheirDay'
  BY <1>2 DEF IInv, RecordsMarkTheirDay
<1>5. D!OneCredentialPerDay'
  BY <1>2 DEF IInv, D!OneCredentialPerDay
<1>6. UsesAreIssued'
  <2>1. \A n \in DOMAIN applying : applying[n].id \in Ids
    BY RunningRequests DEF IInv, TypeOK
  <2>2. QED
    BY <1>2, <2>1 DEF IInv, UsesAreIssued
<1>7. \A id \in Ids : D!Dead(id) => D!Dead(id)'
  BY <1>2 DEF D!Dead
<1>8. QED
  BY <1>2, <1>3, <1>4, <1>5, <1>6, <1>7

(* Revoking one credential, or what descends from an invitation, only      *)
(* revokes.                                                                *)
LEMMA RevokeOnlyRevokes ==
  ASSUME IInv, NEW id \in Ids, D!Revoke(id)
  PROVE  KeepsRecords /\ records' \in [Ids -> D!Record \cup {None}]
<1> DEFINE r == [records[id] EXCEPT !.status = "REVOKED"]
<1>1. records \in [Ids -> D!Record \cup {None}] /\ D!Issued(id)
  BY DEF IInv, TypeOK, D!TypeOK, D!Revoke
<1>2. r \in D!Record /\ r # None
  BY <1>1, RevokedRecord DEF D!Issued
<1>3. records' = [records EXCEPT ![id] = r]
  BY DEF D!Revoke
<1>4. KeepsRecords
  BY <1>1, <1>2, <1>3 DEF KeepsRecords, D!Issued
<1> HIDE DEF r
<1>5. QED
  BY <1>1, <1>2, <1>3, <1>4

LEMMA CascadeOnlyRevokes ==
  ASSUME IInv, NEW i, NEW l, NEW named, D!CascadeRevoke(i, l, named)
  PROVE  /\ KeepsRecords /\ records' \in [Ids -> D!Record \cup {None}]
         /\ \A id \in Ids : D!Descends(id, i, l) => D!Dead(id)'
<1>1. records \in [Ids -> D!Record \cup {None}]
  BY DEF IInv, TypeOK, D!TypeOK
<1>2. \A id \in Ids : D!Descends(id, i, l) => D!Issued(id) /\ records[id] \in D!Record
  BY <1>1 DEF D!Descends, D!Issued
<1>3. \A id \in Ids : D!Descends(id, i, l) =>
        LET r == [records[id] EXCEPT !.status = "REVOKED"]
        IN r \in D!Record /\ r # None /\ r.status = "REVOKED"
  BY <1>2, RevokedRecord
<1>4. \A id \in Ids :
        records'[id] = IF D!Descends(id, i, l)
                       THEN [records[id] EXCEPT !.status = "REVOKED"] ELSE records[id]
  BY DEF D!CascadeRevoke
<1>5. records' \in [Ids -> D!Record \cup {None}]
  BY <1>1, <1>3 DEF D!CascadeRevoke
<1>6. KeepsRecords
  BY <1>2, <1>3, <1>4 DEF KeepsRecords, D!Issued
<1>7. \A id \in Ids : D!Descends(id, i, l) => D!Dead(id)'
  BY <1>3, <1>4 DEF D!Dead, D!Issued
<1>8. QED
  BY <1>5, <1>6, <1>7
-----------------------------------------------------------------------------
(* The steps of the composition.                                           *)

\* An issue adds the first credential of its lineage for its day.
LEMMA IssueDailyPreservesIInv ==
  ASSUME IInv, NEW q \in IssueRequests, IssueDaily(q)
  PROVE  IInv'
<1> DEFINE r == D!NewRecord(q)
           i == q.invitation
           new == Trim[q.id]
<1>1. /\ new \in Ids /\ Trim[i] \in Invitations /\ Trim[q.manifest] \in Manifests
  BY Requests, InvitationAssumption DEF D!CredentialAssumption, D!TrimsWithin
<1>2. /\ i \in Invitations /\ q.lineage \in Lineages
      /\ q.day \in Days /\ q.day \in Nat /\ q.at \in Int
      /\ q.permitted \in SUBSET Transitions
  <2>1. Days \subseteq Nat
    BY InvitationAssumption DEF D!CredentialAssumption
  <2>2. /\ i \in Invitations /\ q.lineage \in Lineages
        /\ q.day \in Days /\ q.at \in Int /\ q.permitted \in SUBSET Transitions
    BY Requests
  <2>3. q.day \in Nat
    BY <2>1, <2>2
  <2>4. QED
    BY <2>2, <2>3
<1>3. r \in D!Record /\ r # None
  <2>1. D!Expiry(q.at, q.day) \in Int
    BY <1>2 DEF D!Expiry, D!Earlier, D!DayStart
  <2>2. QED
    BY <1>1, <1>2, <2>1, InvitationAssumption
       DEF D!CredentialAssumption, D!NewRecord, D!Record
<1>4. r.invitation = Trim[i] /\ r.lineage = q.lineage /\ r.day = q.day
  BY DEF D!NewRecord
<1>5. /\ records' = [records EXCEPT ![new] = r] /\ records[new] = None
      /\ issuedFor' = [issuedFor EXCEPT ![new] = i]
      /\ q.lineage \in Approved
      /\ <<q.lineage, q.day>> \notin issuedDays
      /\ issuedDays' = issuedDays \cup {<<q.lineage, q.day>>}
      /\ UNCHANGED <<withdrawn, spentKeys, corrected, applying, starts, plays, asked>>
      /\ UNCHANGED <<signed, invitations, credentials, enrollments, revocations, descendants>>
  BY DEF IssueDaily, IssuedFor, D!Issue, D!histories, enrollmentVars
<1>6. E!Invited(i) /\ enrollments[i] # None /\ invitations[i].lineage = q.lineage
  BY <1>2, InvitationAssumption DEF IssueDaily, E!GameplayLineage
<1> HIDE DEF r, i, new
<1>7. /\ \A id \in Ids : id # new =>
           records'[id] = records[id] /\ issuedFor'[id] = issuedFor[id]
      /\ records'[new] = r /\ issuedFor'[new] = i
  BY <1>1, <1>5 DEF IInv, TypeOK, D!TypeOK
<1>8. TypeOK'
  <2>1. issuedFor' \in [Ids -> Invitations \cup {None}]
    BY <1>1, <1>2, <1>5 DEF IInv, TypeOK
  <2>2. D!TypeOK'
    BY <1>1, <1>2, <1>3, <1>5 DEF IInv, TypeOK, D!TypeOK
  <2>3. QED
    BY <1>5, <2>1, <2>2 DEF IInv, TypeOK, E!TypeOK
<1>9. RecordsAreEnrolled'
  <2> SUFFICES ASSUME NEW id \in Ids
               PROVE  /\ D!Issued(id)' =>
                           /\ issuedFor'[id] \in Invitations
                           /\ E!Invited(issuedFor[id])' /\ enrollments'[issuedFor'[id]] # None
                           /\ invitations'[issuedFor'[id]].lineage = records'[id].lineage
                           /\ records'[id].invitation = Trim[issuedFor'[id]]
                      /\ ~D!Issued(id)' => issuedFor'[id] = None
    BY DEF RecordsAreEnrolled
  <2>1. CASE id = new
    BY <1>2, <1>3, <1>4, <1>5, <1>6, <1>7, <2>1 DEF D!Issued, E!Invited
  <2>2. CASE id # new
    BY <1>5, <1>7, <2>2 DEF IInv, RecordsAreEnrolled, D!Issued, E!Invited
  <2>3. QED
    BY <2>1, <2>2
<1>10. RecordsMarkTheirDay'
  BY <1>4, <1>5, <1>7 DEF IInv, RecordsMarkTheirDay, D!Issued
<1>11. D!OneCredentialPerDay'
  BY <1>4, <1>5, <1>7 DEF IInv, D!OneCredentialPerDay, RecordsMarkTheirDay, D!Issued
<1>12. UsesAreIssued'
  <2>1. \A n \in DOMAIN applying : applying[n].id \in Ids /\ applying[n].id # new
    BY <1>5, RunningRequests DEF IInv, TypeOK, UsesAreIssued, D!Issued
  <2>2. QED
    BY <1>5, <1>7, <2>1 DEF IInv, UsesAreIssued, D!Issued
<1>13. DescendantsAreDead' /\ DescendantsAreIssued'
  <2>1. \A j \in Invitations : \A id \in descendants[j] : id \in Ids /\ id # new
    BY <1>5 DEF IInv, TypeOK, DescendantsAreIssued, D!Issued
  <2>2. QED
    BY <1>5, <1>7, <2>1 DEF IInv, DescendantsAreDead, DescendantsAreIssued, D!Dead, D!Issued
<1>14. QED
  BY <1>5, <1>8, <1>9, <1>10, <1>11, <1>12, <1>13
     DEF IInv, CredentialsAreSent, RevocationsAreMarked, E!Invited

\* An authorization needs an issued credential.
LEMMA AuthorizePreservesIInv ==
  ASSUME IInv, NEW q \in UseRequests, D!Authorize(q), UNCHANGED <<enrollmentVars, accessVars>>
  PROVE  IInv'
<1>1. /\ q \in D!UseRequest /\ q.id \in Ids /\ <<q.id, q.key>> \in Ids \X Keys
      /\ <<q.id, q.round>> \in Ids \X Rounds
  BY Requests
<1>2. KeyOf[<<q.id, q.key>>] \in Joined
  BY <1>1, InvitationAssumption DEF D!CredentialAssumption
<1>3. /\ D!Issued(q.id)
      /\ spentKeys' = spentKeys \cup {KeyOf[<<q.id, q.key>>]}
      /\ applying' = Append(applying, q)
      /\ starts' = [starts EXCEPT ![<<q.id, q.key>>] = @ + 1]
      /\ UNCHANGED <<records, issuedDays, withdrawn, corrected, asked>>
      /\ UNCHANGED <<signed, invitations, credentials, enrollments, revocations, issuedFor,
                     descendants>>
  BY DEF D!Authorize, D!Permits, D!Spend, enrollmentVars, accessVars
<1>4. plays' = plays \/ plays' = [plays EXCEPT ![<<q.id, q.round>>] = @ + 1]
  BY DEF D!Authorize
<1>5. applying \in Seq(D!UseRequest)
  BY DEF IInv, TypeOK, D!TypeOK
<1>6. /\ applying' \in Seq(D!UseRequest)
      /\ \A n \in DOMAIN applying' :
           \/ n \in DOMAIN applying /\ applying'[n] = applying[n]
           \/ applying'[n] = q
  BY <1>1, <1>3, <1>5
<1>7. TypeOK'
  <2>1. /\ plays \in [Ids \X Rounds -> Nat] /\ starts \in [Ids \X Keys -> Nat]
        /\ spentKeys \subseteq Joined
    BY DEF IInv, TypeOK, D!TypeOK
  <2>2. plays' \in [Ids \X Rounds -> Nat]
    BY <1>1, <1>4, <2>1
  <2>3. starts' \in [Ids \X Keys -> Nat]
    BY <1>1, <1>3, <2>1
  <2>4. D!TypeOK'
    BY <1>2, <1>3, <1>6, <2>1, <2>2, <2>3 DEF IInv, TypeOK, D!TypeOK
  <2>5. QED
    BY <1>3, <2>4 DEF IInv, TypeOK, E!TypeOK
<1>8. UsesAreIssued'
  BY <1>3, <1>6 DEF IInv, UsesAreIssued, D!Issued
<1>9. QED
  BY <1>3, <1>7, <1>8
     DEF IInv, CredentialsAreSent, RecordsAreEnrolled, RecordsMarkTheirDay,
         D!OneCredentialPerDay, RevocationsAreMarked, DescendantsAreIssued,
         DescendantsAreDead,
         D!Issued, D!Dead, E!Invited

\* When the innermost mutation ends, the ones around it are as they were.
LEMMA FinishPreservesIInv ==
  ASSUME IInv, D!Finish, UNCHANGED <<enrollmentVars, accessVars>>
  PROVE  IInv'
<1>1. /\ applying \in Seq(D!UseRequest) /\ applying # << >>
      /\ applying' = SubSeq(applying, 1, Len(applying) - 1)
      /\ UNCHANGED <<records, issuedDays, withdrawn, spentKeys, corrected, starts, plays, asked>>
      /\ UNCHANGED <<signed, invitations, credentials, enrollments, revocations, issuedFor,
                     descendants>>
  BY DEF IInv, TypeOK, D!TypeOK, D!Finish, D!registry, D!histories,
         enrollmentVars, accessVars
<1>2. /\ applying' \in Seq(D!UseRequest)
      /\ \A n \in DOMAIN applying' : n \in DOMAIN applying /\ applying'[n] = applying[n]
  BY <1>1
<1>3. TypeOK'
  BY <1>1, <1>2 DEF IInv, TypeOK, E!TypeOK, D!TypeOK
<1>4. UsesAreIssued'
  BY <1>1, <1>2 DEF IInv, UsesAreIssued, D!Issued
<1>5. QED
  BY <1>1, <1>3, <1>4
     DEF IInv, CredentialsAreSent, RecordsAreEnrolled, RecordsMarkTheirDay,
         D!OneCredentialPerDay, RevocationsAreMarked, DescendantsAreIssued,
         DescendantsAreDead,
         D!Issued, D!Dead, E!Invited

\* Revoking one credential leaves every other fact as it was.
LEMMA RevokePreservesIInv ==
  ASSUME IInv, NEW id \in Ids, D!Revoke(id), UNCHANGED <<enrollmentVars, accessVars>>
  PROVE  IInv'
<1>1. /\ UNCHANGED <<issuedDays, withdrawn, spentKeys, corrected, applying, starts, plays, asked>>
      /\ UNCHANGED <<signed, invitations, credentials, enrollments, revocations, issuedFor,
                     descendants>>
  BY DEF D!Revoke, D!histories, enrollmentVars, accessVars
<1>2. /\ D!TypeOK'
      /\ RecordsMarkTheirDay' /\ D!OneCredentialPerDay' /\ UsesAreIssued'
      /\ \A c \in Ids :
           /\ D!Issued(c)' <=> D!Issued(c)
           /\ D!Issued(c) =>
                /\ records'[c].invitation = records[c].invitation
                /\ records'[c].lineage = records[c].lineage
           /\ D!Dead(c) => D!Dead(c)'
  BY <1>1, RevokeOnlyRevokes, RevocationKeepsRecords
<1>3. TypeOK'
  BY <1>1, <1>2 DEF IInv, TypeOK, E!TypeOK
<1>4. RecordsAreEnrolled'
  BY <1>1, <1>2 DEF IInv, RecordsAreEnrolled, E!Invited
<1>5. DescendantsAreDead' /\ DescendantsAreIssued'
  BY <1>1, <1>2 DEF IInv, TypeOK, DescendantsAreDead, DescendantsAreIssued
<1>6. QED
  BY <1>1, <1>2, <1>3, <1>4, <1>5 DEF IInv, CredentialsAreSent, RevocationsAreMarked, E!Invited

\* A withdrawal or a correction touches no record and no use.
LEMMA MarksPreserveIInv ==
  ASSUME IInv,
         \/ \E l \in Lineages : D!Withdraw(l)
         \/ \E id \in Ids, r \in Rounds : D!Correct(id, r),
         UNCHANGED <<enrollmentVars, accessVars>>
  PROVE  IInv'
<1>1. \A id \in Ids, r \in Rounds : RoundOf[<<id, Trim[r]>>] \in Joined
  BY InvitationAssumption DEF D!CredentialAssumption, D!TrimsWithin
<1>2. /\ withdrawn' \subseteq Lineages /\ corrected' \subseteq Joined
      /\ withdrawn \subseteq withdrawn' /\ asked' \subseteq Ids \X Rounds
      /\ UNCHANGED <<records, issuedDays, spentKeys, applying, starts, plays>>
  <2>1. CASE \E l \in Lineages : D!Withdraw(l)
    BY <2>1 DEF IInv, TypeOK, D!TypeOK, D!Withdraw, D!histories
  <2>2. CASE \E id \in Ids, r \in Rounds : D!Correct(id, r)
    <3>1. PICK id \in Ids, r \in Rounds : D!Correct(id, r)
      BY <2>2
    <3>2. QED
      BY <1>1, <3>1 DEF IInv, TypeOK, D!TypeOK, D!Correct
  <2>3. QED
    BY <2>1, <2>2
<1>3. UNCHANGED <<signed, invitations, credentials, enrollments, revocations, issuedFor,
                  descendants>>
  BY DEF enrollmentVars, accessVars
<1>4. TypeOK'
  BY <1>2, <1>3 DEF IInv, TypeOK, E!TypeOK, D!TypeOK
<1>5. QED
  BY <1>2, <1>3, <1>4
     DEF IInv, CredentialsAreSent, RecordsAreEnrolled, RecordsMarkTheirDay,
         D!OneCredentialPerDay, UsesAreIssued, RevocationsAreMarked, DescendantsAreIssued,
         DescendantsAreDead, D!Issued, D!Dead, E!Invited

(* A revocation whose port has revoked the descendants. What the audit     *)
(* found is dead when it is written, named by the caller or not.           *)
LEMMA RevokeInvitationPreservesIInv ==
  ASSUME IInv, NEW i \in Invitations, NEW named \in SUBSET Ids, NEW portReturns \in BOOLEAN,
         Revoke(i, named, portReturns)
  PROVE  IInv'
<1> DEFINE found == DailyCredentialsOf(i)
<1>1. /\ E!RevokeInvitation(i, portReturns)
      /\ D!CascadeRevoke(i, invitations[i].lineage, named)
      /\ \/ descendants' = descendants
         \/ descendants' = [descendants EXCEPT ![i] = @ \cup found]
      /\ issuedFor' = issuedFor
  BY DEF Revoke
<1>2. /\ found \subseteq Ids
      /\ \A id \in found : D!Issued(id) /\ issuedFor[id] = i
      /\ Trim[i] = i => \A id \in found : D!Descends(id, i, invitations[i].lineage)
  <2>1. i # None
    BY InvitationAssumption
  <2>2. QED
    BY <2>1 DEF IInv, RecordsAreEnrolled, DailyCredentialsOf, D!Descends
<1>3. EnrollmentKept /\ RevocationsAreMarked'
  BY <1>1, RevokeInvitationKeeps
<1>4. /\ KeepsRecords /\ records' \in [Ids -> D!Record \cup {None}]
      /\ Trim[i] = i => \A id \in found : D!Dead(id)'
  BY <1>1, <1>2, CascadeOnlyRevokes
<1>5. UNCHANGED <<issuedDays, withdrawn, spentKeys, corrected, applying, starts, plays, asked>>
  BY <1>1 DEF D!CascadeRevoke, D!histories
<1>6. /\ D!TypeOK'
      /\ RecordsMarkTheirDay' /\ D!OneCredentialPerDay' /\ UsesAreIssued'
      /\ \A c \in Ids :
           /\ D!Issued(c)' <=> D!Issued(c)
           /\ D!Issued(c) =>
                /\ records'[c].invitation = records[c].invitation
                /\ records'[c].lineage = records[c].lineage
           /\ D!Dead(c) => D!Dead(c)'
  BY <1>4, <1>5, RevocationKeepsRecords
<1>7. /\ descendants \in [Invitations -> SUBSET Ids]
      /\ issuedFor \in [Ids -> Invitations \cup {None}]
  BY DEF IInv, TypeOK
<1>8. TypeOK'
  BY <1>1, <1>2, <1>3, <1>6, <1>7 DEF EnrollmentKept, TypeOK
<1>9. RecordsAreEnrolled'
  BY <1>1, <1>3, <1>6 DEF IInv, EnrollmentKept, RecordsAreEnrolled, KeepsInvitations
<1>10. DescendantsAreDead' /\ DescendantsAreIssued'
  BY <1>1, <1>2, <1>4, <1>6, <1>7 DEF IInv, DescendantsAreDead, DescendantsAreIssued
<1>11. QED
  BY <1>3, <1>6, <1>8, <1>9, <1>10 DEF IInv, EnrollmentKept
-----------------------------------------------------------------------------
\* Initially nobody is invited, and nothing is issued.
THEOREM InitEstablishesIInv == Init => IInv
<1> SUFFICES ASSUME Init PROVE IInv
  OBVIOUS
<1>1. E!TypeOK
  BY DEF Init, E!Init, E!TypeOK
<1>2. D!TypeOK
  BY DEF Init, D!Init, D!TypeOK
<1>3. TypeOK
  BY <1>1, <1>2 DEF Init, TypeOK
<1>4. \A id \in Ids : ~D!Issued(id)
  BY DEF Init, D!Init, D!Issued
<1>5. /\ \A i \in Invitations : credentials[i] = << >>
      /\ applying = << >> /\ revocations = {}
      /\ \A i \in Invitations : descendants[i] = {}
      /\ \A id \in Ids : issuedFor[id] = None
  BY DEF Init, E!Init, D!Init
<1>6. QED
  BY <1>3, <1>4, <1>5
     DEF IInv, CredentialsAreSent, RecordsAreEnrolled, RecordsMarkTheirDay,
         D!OneCredentialPerDay, UsesAreIssued, RevocationsAreMarked, DescendantsAreIssued,
         DescendantsAreDead

\* Every step of the composition preserves the invariant.
THEOREM NextPreservesIInv == IInv /\ [Next]_vars => IInv'
<1> SUFFICES ASSUME IInv, [Next]_vars PROVE IInv'
  OBVIOUS
<1>1. CASE EnrollmentStep
  <2>1. EnrollmentKept /\ revocations' = revocations
    BY <1>1, EnrollmentStepKeeps
  <2>2. RevocationsAreMarked'
    BY <2>1, UnauditedStepsKeep DEF EnrollmentKept
  <2>3. UNCHANGED <<dailyVars, accessVars>>
    BY <1>1 DEF EnrollmentStep
  <2>4. QED
    BY <2>1, <2>2, <2>3, EnrollmentKeepsTheRest
<1>2. CASE DailyStep
  BY <1>2, AuthorizePreservesIInv, FinishPreservesIInv, RevokePreservesIInv, MarksPreserveIInv
     DEF DailyStep
<1>3. CASE \E q \in IssueRequests : IssueDaily(q)
  BY <1>3, IssueDailyPreservesIInv
<1>4. CASE \E i \in Invitations, named \in SUBSET Ids, portReturns \in BOOLEAN :
             Revoke(i, named, portReturns)
  BY <1>4, RevokeInvitationPreservesIInv
<1>5. CASE \E i \in Invitations : RevokeFails(i)
  BY <1>5, RevokeInvitationKeeps, EnrollmentKeepsTheRest DEF RevokeFails
<1>6. CASE UNCHANGED vars
  <2>1. /\ UNCHANGED <<signed, invitations, credentials, enrollments, revocations, issuedFor,
                     descendants>>
        /\ UNCHANGED <<records, issuedDays, withdrawn, spentKeys, corrected, applying,
                       starts, plays, asked>>
    BY <1>6 DEF vars, enrollmentVars, dailyVars, accessVars
  <2>2. TypeOK'
    BY <2>1 DEF IInv, TypeOK, E!TypeOK, D!TypeOK
  <2>3. QED
    BY <2>1, <2>2
       DEF IInv, CredentialsAreSent, RecordsAreEnrolled, RecordsMarkTheirDay,
           D!OneCredentialPerDay, UsesAreIssued, RevocationsAreMarked, DescendantsAreIssued,
         DescendantsAreDead,
           D!Issued, D!Dead, E!Invited
<1>7. QED
  BY <1>1, <1>2, <1>3, <1>4, <1>5, <1>6 DEF Next

\* The invariant holds in every state of every run.
THEOREM IInvAlways == Spec => []IInv
  BY InitEstablishesIInv, NextPreservesIInv, PTL DEF Spec
-----------------------------------------------------------------------------
\* Every variable keeps its type.
THEOREM TypeCorrect == Spec => []TypeOK
<1>1. IInv => TypeOK
  BY DEF IInv
<1>2. QED
  BY <1>1, IInvAlways, PTL

(* An audited revocation has reached every daily credential there was, and *)
(* none of them works again, whatever port threw before or after, if the   *)
(* id of the invitation has no blanks around it (revokeInvitation, issue,  *)
(* cascadeRevoke).                                                         *)
THEOREM RevocationAlwaysReaches == Spec => []RevocationReachesDescendants
<1>1. IInv => RevocationReachesDescendants
  <2>1. IInv => revocations \subseteq Invitations
    BY DEF IInv, TypeOK, E!TypeOK
  <2>2. QED
    BY <2>1 DEF IInv, RevocationsAreMarked, DescendantsAreIssued,
         DescendantsAreDead, RevocationReachesDescendants
<1>2. QED
  BY <1>1, IInvAlways, PTL

(* An invitation gets one daily credential for a day, because it keeps its *)
(* lineage through every reissue and repeated enrollment (issue, enroll).  *)
THEOREM OneCredentialForEachInvitation == Spec => []OneCredentialPerInvitationAndDay
<1>1. IInv => OneCredentialPerInvitationAndDay
  BY DEF IInv, RecordsAreEnrolled, D!OneCredentialPerDay, OneCredentialPerInvitationAndDay
<1>2. QED
  BY <1>1, IInvAlways, PTL

(* Whoever plays was enrolled: a credential is issued for the lineage that *)
(* gameplayLineageFor answers, and an enrollment is never taken back.      *)
THEOREM PlayersAreEnrolled == Spec => []OnlyTheEnrolledPlay
<1>1. IInv => OnlyTheEnrolledPlay
  <2>1. IInv => \A n \in DOMAIN applying : applying[n].id \in Ids
    BY RunningRequests DEF IInv, TypeOK
  <2>2. QED
    BY <2>1, InvitationAssumption DEF IInv, UsesAreIssued, RecordsAreEnrolled, OnlyTheEnrolledPlay
<1>2. QED
  BY <1>1, IInvAlways, PTL
-----------------------------------------------------------------------------
(* Each registry does in company what it does alone.                       *)

(* A run of the composition is a run of either registry: what is shown of  *)
(* one of them alone holds of the two together, whoever calls them.        *)
THEOREM RunsOfEitherRegistry == Spec => E!Spec /\ D!Spec
<1>1. Init => E!Init /\ D!Init
  BY DEF Init
<1>2. IInv /\ [Next]_vars => [E!Next]_(E!enrollmentVars)
  <2> SUFFICES ASSUME IInv, [Next]_vars PROVE E!Next \/ UNCHANGED E!enrollmentVars
    OBVIOUS
  <2>1. CASE EnrollmentStep
    BY <2>1 DEF EnrollmentStep, E!Next
  <2>2. CASE DailyStep \/ \E q \in IssueRequests : IssueDaily(q)
    BY <2>2 DEF DailyStep, IssueDaily, enrollmentVars, E!enrollmentVars
  <2>3. CASE \E i \in Invitations, named \in SUBSET Ids, portReturns \in BOOLEAN :
               Revoke(i, named, portReturns)
    BY <2>3 DEF Revoke, E!Next
  <2>4. CASE \E i \in Invitations : RevokeFails(i)
    BY <2>4 DEF RevokeFails, E!Next
  <2>5. CASE UNCHANGED vars
    BY <2>5 DEF vars, enrollmentVars, E!enrollmentVars
  <2>6. QED
    BY <2>1, <2>2, <2>3, <2>4, <2>5 DEF Next
<1>3. IInv /\ [Next]_vars => [D!Next]_(D!vars)
  <2> SUFFICES ASSUME IInv, [Next]_vars PROVE D!Next \/ UNCHANGED D!vars
    OBVIOUS
  <2>1. CASE EnrollmentStep \/ \E i \in Invitations : RevokeFails(i)
    BY <2>1 DEF EnrollmentStep, RevokeFails, dailyVars, D!vars, D!registry,
           D!histories
  <2>2. CASE DailyStep
    BY <2>2 DEF DailyStep, D!Next
  <2>3. CASE \E q \in IssueRequests : IssueDaily(q)
    BY <2>3 DEF IssueDaily, D!Next
  <2>4. ASSUME NEW i \in Invitations, NEW named \in SUBSET Ids, NEW portReturns \in BOOLEAN,
               Revoke(i, named, portReturns)
        PROVE  D!Next
    <3>1. invitations[i] \in E!Invitation
      BY <2>4 DEF IInv, TypeOK, E!TypeOK, Revoke, E!RevokeInvitation, E!Invited
    <3>2. invitations[i].lineage \in Lineages
      BY <3>1 DEF E!Invitation
    <3>3. D!CascadeRevoke(i, invitations[i].lineage, named)
      BY <2>4 DEF Revoke
    <3>4. QED
      BY <3>2, <3>3 DEF D!Next
  <2>5. CASE UNCHANGED vars
    BY <2>5 DEF vars, dailyVars, D!vars, D!registry, D!histories
  <2>6. QED
    BY <2>1, <2>2, <2>3, <2>4, <2>5 DEF Next
<1>4. QED
  BY <1>1, <1>2, <1>3, IInvAlways, PTL DEF Spec, E!Spec, D!Spec
=============================================================================
