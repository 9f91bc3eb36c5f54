---------------------- MODULE DailyCredentials_proofs ----------------------
(***************************************************************************)
(* Proofs about DailyCredentials, for any number of credentials, keys and  *)
(* instants, and whatever pairs the joined keys confuse.                   *)
(*                                                                         *)
(* Two marks carry the argument. A key is spent before its mutation runs,  *)
(* so that every key that ever ran is in spentKeys; and a day is marked    *)
(* when its credential is issued, so that every record on file has its     *)
(* lineage and day in issuedDays. Both sets only grow. That a use stays in *)
(* scope needs the record to be the one it was checked against: all that   *)
(* ever changes of a record is its status.                                 *)
(***************************************************************************)
EXTENDS DailyCredentials, TLAPS

\* A mutation that ran had its key spent, and ran once.
RunsAreSpent ==
  \A ik \in Ids \X Keys :
    starts[ik] <= 1 /\ (starts[ik] # 0 => KeyOf[ik] \in spentKeys)

\* The day of every record on file is marked as issued.
RecordsMarkTheirDay ==
  \A id \in Ids : Issued(id) => <<records[id].lineage, records[id].day>> \in issuedDays

\* The expiry of a record is the one computed when it was issued.
ExpiryIsFixed ==
  \A id \in Ids : Issued(id) =>
    records[id].expiresAt = Expiry(records[id].issuedAt, records[id].day)

IInv ==
  /\ TypeOK
  /\ RunsAreSpent
  /\ RecordsMarkTheirDay
  /\ ExpiryIsFixed
  /\ OneCredentialPerDay
  /\ UsesStayInScope

\* All that a record in use can change to is a revoked one.
KeepsRecords ==
  \A id \in Ids :
    /\ Issued(id) => /\ Issued(id)'
                     /\ records'[id] \in {records[id], [records[id] EXCEPT !.status = "REVOKED"]}
    /\ Issued(id)' => Issued(id)
-----------------------------------------------------------------------------
\* A lifetime ends within the grace hour and within 26 hours of the issue.
LEMMA ExpiryBounds ==
  ASSUME NEW at \in Int, NEW d \in Nat
  PROVE  Expiry(at, d) \in Int /\ Expiry(at, d) <= 24 * d + 25 /\ Expiry(at, d) <= at + 26
BY DEF Expiry, Earlier, DayStart

\* A revoked record is a record like the one before.
LEMMA RevokedRecord ==
  ASSUME NEW c \in Record
  PROVE  LET r == [c EXCEPT !.status = "REVOKED"]
         IN /\ r \in Record
            /\ r.lineage = c.lineage /\ r.day = c.day /\ r.manifest = c.manifest
            /\ r.invitation = c.invitation /\ r.permitted = c.permitted
            /\ r.issuedAt = c.issuedAt /\ r.expiresAt = c.expiresAt
            /\ r.status = "REVOKED"
BY DEF Record

\* What runs was asked for with a known credential id.
LEMMA RunningRequests ==
  ASSUME TypeOK
  PROVE  \A n \in DOMAIN applying : applying[n] \in UseRequest /\ applying[n].id \in Ids
<1>1. applying \in Seq(UseRequest)
  BY DEF TypeOK
<1>2. \A n \in DOMAIN applying : applying[n] \in UseRequest
  BY <1>1
<1>3. \A q \in UseRequest : q.id \in Ids
  BY DEF UseRequest
<1>4. QED
  BY <1>2, <1>3

(* A step that only revokes records, and leaves the other variables the    *)
(* invariant relates to them, keeps the invariant.                         *)
LEMMA RevocationKeepsIInv ==
  ASSUME IInv, KeepsRecords, records' \in [Ids -> Record \cup {None}],
         UNCHANGED <<issuedDays, withdrawn, spentKeys, corrected, applying, histories>>
  PROVE  IInv'
<1>1. \A id \in Ids : Issued(id) => records[id] \in Record
  BY DEF IInv, TypeOK, Issued
<1>2. \A id \in Ids :
        /\ Issued(id)' <=> Issued(id)
        /\ Issued(id) =>
             /\ records'[id].lineage = records[id].lineage
             /\ records'[id].day = records[id].day
             /\ records'[id].manifest = records[id].manifest
             /\ records'[id].permitted = records[id].permitted
             /\ records'[id].issuedAt = records[id].issuedAt
             /\ records'[id].expiresAt = records[id].expiresAt
  BY <1>1, RevokedRecord DEF KeepsRecords
<1>3. TypeOK'
  BY DEF IInv, TypeOK, histories
<1>4. RunsAreSpent'
  BY DEF IInv, RunsAreSpent, histories
<1>5. RecordsMarkTheirDay'
  BY <1>2 DEF IInv, RecordsMarkTheirDay
<1>6. ExpiryIsFixed'
  BY <1>2 DEF IInv, ExpiryIsFixed
<1>7. OneCredentialPerDay'
  BY <1>2 DEF IInv, OneCredentialPerDay
<1>8. UsesStayInScope'
  <2>1. \A n \in DOMAIN applying : applying[n].id \in Ids
    BY RunningRequests DEF IInv
  <2>2. QED
    BY <1>2, <2>1 DEF IInv, UsesStayInScope
<1>9. QED
  BY <1>3, <1>4, <1>5, <1>6, <1>7, <1>8 DEF IInv
-----------------------------------------------------------------------------
\* Initially nothing is issued and nothing runs.
THEOREM InitEstablishesIInv == Init => IInv
BY DEF Init, IInv, TypeOK, RunsAreSpent, RecordsMarkTheirDay, ExpiryIsFixed,
       OneCredentialPerDay, UsesStayInScope, Issued

\* An issue adds the first credential of its lineage for its day.
LEMMA IssuePreservesIInv ==
  ASSUME IInv, NEW q \in IssueRequests, Issue(q)
  PROVE  IInv'
<1> DEFINE r == NewRecord(q)
           new == Trim[q.id]
<1>1. /\ q \in IssueRequest /\ q.at \in Int /\ q.day \in Days /\ q.day \in Nat
      /\ new \in Ids /\ Trim[q.invitation] \in Invitations /\ Trim[q.manifest] \in Manifests
  BY CredentialAssumption DEF IssueRequest, TrimsWithin
<1>2. Expiry(q.at, q.day) \in Int
  BY <1>1, ExpiryBounds
<1>3. r \in Record /\ r # None
  BY <1>1, <1>2, CredentialAssumption DEF NewRecord, Record, IssueRequest
<1>4. /\ r.lineage = q.lineage /\ r.day = q.day
      /\ r.expiresAt = Expiry(r.issuedAt, r.day)
  BY DEF NewRecord
<1>5. /\ records' = [records EXCEPT ![new] = r] /\ records[new] = None
      /\ q.lineage \in Approved
      /\ <<q.lineage, q.day>> \notin issuedDays
      /\ issuedDays' = issuedDays \cup {<<q.lineage, q.day>>}
      /\ UNCHANGED <<withdrawn, spentKeys, corrected, applying, starts, plays, asked>>
  BY DEF Issue, histories
<1> HIDE DEF r, new
<1>6. /\ \A id \in Ids : id # new => records'[id] = records[id]
      /\ records'[new] = r
  BY <1>1, <1>5 DEF IInv, TypeOK
<1>7. TypeOK'
  BY <1>1, <1>3, <1>5 DEF IInv, TypeOK
<1>8. RunsAreSpent'
  BY <1>5 DEF IInv, RunsAreSpent
<1>9. RecordsMarkTheirDay'
  BY <1>4, <1>5, <1>6 DEF IInv, RecordsMarkTheirDay, Issued
<1>10. ExpiryIsFixed'
  BY <1>4, <1>6 DEF IInv, ExpiryIsFixed, Issued
<1>11. OneCredentialPerDay'
  BY <1>4, <1>5, <1>6 DEF IInv, OneCredentialPerDay, RecordsMarkTheirDay, Issued
<1>12. UsesStayInScope'
  <2>1. \A n \in DOMAIN applying : applying[n].id \in Ids /\ applying[n].id # new
    BY <1>5, RunningRequests DEF IInv, UsesStayInScope, Issued
  <2>2. QED
    BY <1>5, <1>6, <2>1 DEF IInv, UsesStayInScope, Issued
<1>13. QED
  BY <1>7, <1>8, <1>9, <1>10, <1>11, <1>12 DEF IInv

\* An authorization spends a new key and runs in its credential's scope.
LEMMA AuthorizePreservesIInv ==
  ASSUME IInv, NEW q \in UseRequests, Authorize(q)
  PROVE  IInv'
<1> DEFINE c == records[q.id]
<1>1. /\ q \in UseRequest /\ q.id \in Ids /\ q.key \in Keys /\ q.round \in Rounds /\ q.at \in Int
      /\ q.day \in Nat
  BY CredentialAssumption DEF UseRequest
<1>2. /\ KeyOf[<<q.id, q.key>>] \notin spentKeys
      /\ spentKeys' = spentKeys \cup {KeyOf[<<q.id, q.key>>]}
      /\ applying' = Append(applying, q)
      /\ starts' = [starts EXCEPT ![<<q.id, q.key>>] = @ + 1]
      /\ UNCHANGED <<records, issuedDays, withdrawn, corrected, asked>>
  BY DEF Authorize, Spend
<1>3. <<q.id, q.key>> \in Ids \X Keys /\ KeyOf[<<q.id, q.key>>] \in Joined
  BY <1>1, CredentialAssumption
<1>4. starts[<<q.id, q.key>>] = 0
  BY <1>2, <1>3 DEF IInv, RunsAreSpent
<1>5. TypeOK'
  <2>1. plays' \in [Ids \X Rounds -> Nat]
    BY <1>1 DEF Authorize, IInv, TypeOK
  <2>2. applying' \in Seq(UseRequest)
    BY <1>1, <1>2 DEF IInv, TypeOK
  <2>3. QED
    BY <1>2, <1>3, <2>1, <2>2 DEF IInv, TypeOK
<1>6. RunsAreSpent'
  <2> SUFFICES ASSUME NEW ik \in Ids \X Keys
               PROVE  starts'[ik] <= 1 /\ (starts'[ik] # 0 => KeyOf[ik] \in spentKeys')
    BY DEF RunsAreSpent
  <2>1. starts \in [Ids \X Keys -> Nat]
    BY DEF IInv, TypeOK
  <2>2. CASE ik = <<q.id, q.key>>
    BY <1>2, <1>4, <2>1, <2>2
  <2>3. CASE ik # <<q.id, q.key>>
    BY <1>2, <2>1, <2>3 DEF IInv, RunsAreSpent
  <2>4. QED
    BY <2>2, <2>3
<1>7. /\ Issued(q.id) /\ q.lineage = c.lineage /\ q.day = c.day /\ q.manifest = c.manifest
      /\ q.at < c.expiresAt /\ q.transition \in c.permitted
  BY DEF Authorize, Permits
<1>8. c \in Record /\ c.issuedAt \in Int /\ c.expiresAt \in Int /\ c.day \in Nat
  BY <1>1, <1>7, CredentialAssumption DEF IInv, TypeOK, Issued, Record
<1>9. c.expiresAt = Expiry(c.issuedAt, c.day) /\ c.lineage \in Approved
  BY <1>1, <1>7 DEF IInv, TypeOK, ExpiryIsFixed, RecordsMarkTheirDay
<1>10. q.at < 24 * c.day + 25 /\ q.at < c.issuedAt + 26
  <2> HIDE DEF c
  <2>1. c.expiresAt <= 24 * c.day + 25 /\ c.expiresAt <= c.issuedAt + 26
    BY <1>8, <1>9, ExpiryBounds
  <2>2. QED
    BY <1>1, <1>7, <1>8, <2>1
<1>11. UsesStayInScope'
  <2>1. applying \in Seq(UseRequest)
    BY DEF IInv, TypeOK
  <2>2. \A n \in DOMAIN applying' :
          \/ n \in DOMAIN applying /\ applying'[n] = applying[n]
          \/ applying'[n] = q
    BY <1>2, <2>1
  <2>3. QED
    BY <1>2, <1>7, <1>9, <1>10, <2>2 DEF IInv, UsesStayInScope, Issued
<1>12. RecordsMarkTheirDay' /\ ExpiryIsFixed' /\ OneCredentialPerDay'
  BY <1>2 DEF IInv, RecordsMarkTheirDay, ExpiryIsFixed, OneCredentialPerDay, Issued
<1>13. QED
  BY <1>5, <1>6, <1>11, <1>12 DEF IInv

\* When the innermost mutation ends, the ones around it are as they were.
LEMMA FinishPreservesIInv ==
  ASSUME IInv, Finish
  PROVE  IInv'
<1>1. /\ applying \in Seq(UseRequest) /\ applying # << >>
      /\ applying' = SubSeq(applying, 1, Len(applying) - 1)
      /\ UNCHANGED <<records, issuedDays, withdrawn, spentKeys, corrected, starts, plays, asked>>
  BY DEF IInv, TypeOK, Finish, registry, histories
<1>2. /\ applying' \in Seq(UseRequest)
      /\ \A n \in DOMAIN applying' : n \in DOMAIN applying /\ applying'[n] = applying[n]
  BY <1>1
<1>3. TypeOK'
  BY <1>1, <1>2 DEF IInv, TypeOK
<1>4. UsesStayInScope'
  BY <1>1, <1>2 DEF IInv, UsesStayInScope, Issued
<1>5. QED
  BY <1>1, <1>3, <1>4 DEF IInv, RunsAreSpent, RecordsMarkTheirDay, ExpiryIsFixed,
                          OneCredentialPerDay, Issued

\* Revoking one credential only revokes.
LEMMA RevokePreservesIInv ==
  ASSUME IInv, NEW id \in Ids, Revoke(id)
  PROVE  IInv' /\ KeepsRecords
<1>1. records \in [Ids -> Record \cup {None}] /\ records[id] \in Record
  BY DEF IInv, TypeOK, Revoke, Issued
<1>2. [records[id] EXCEPT !.status = "REVOKED"] \in Record
  BY <1>1, RevokedRecord
<1>3. records' = [records EXCEPT ![id] = [records[id] EXCEPT !.status = "REVOKED"]]
  BY DEF Revoke
<1>4. records' \in [Ids -> Record \cup {None}] /\ KeepsRecords
  BY <1>1, <1>2, <1>3, CredentialAssumption DEF KeepsRecords, Issued
<1>5. QED
  BY <1>4, RevocationKeepsIInv DEF Revoke

\* Revoking the descendants of an invitation only revokes.
LEMMA CascadePreservesIInv ==
  ASSUME IInv, NEW i, NEW l, NEW named, CascadeRevoke(i, l, named)
  PROVE  IInv' /\ KeepsRecords
<1>1. records \in [Ids -> Record \cup {None}]
  BY DEF IInv, TypeOK
<1>2. \A id \in Ids : Descends(id, i, l) => records[id] \in Record
  BY <1>1 DEF Descends, Issued
<1>3. \A id \in Ids : Descends(id, i, l) => [records[id] EXCEPT !.status = "REVOKED"] \in Record
  BY <1>2, RevokedRecord
<1>4. \A id \in Ids :
        records'[id] = IF Descends(id, i, l)
                       THEN [records[id] EXCEPT !.status = "REVOKED"] ELSE records[id]
  BY DEF CascadeRevoke
<1>5. records' \in [Ids -> Record \cup {None}]
  BY <1>1, <1>3 DEF CascadeRevoke
<1>6. KeepsRecords
  BY <1>1, <1>3, <1>4, CredentialAssumption DEF KeepsRecords, Issued, Descends
<1>7. QED
  BY <1>5, <1>6, RevocationKeepsIInv DEF CascadeRevoke

\* A withdrawal or a correction touches no record and no use.
LEMMA MarksPreserveIInv ==
  ASSUME IInv,
         \/ \E l \in Lineages : Withdraw(l)
         \/ \E id \in Ids, r \in Rounds : Correct(id, r)
  PROVE  IInv'
<1>1. \A r \in Rounds : Trim[r] \in Rounds
  BY CredentialAssumption DEF TrimsWithin
<1>2. \A id \in Ids, r \in Rounds : RoundOf[<<id, Trim[r]>>] \in Joined
  BY <1>1, CredentialAssumption
<1>3. /\ withdrawn' \subseteq Lineages /\ corrected' \subseteq Joined
      /\ asked' \subseteq Ids \X Rounds
      /\ UNCHANGED <<records, issuedDays, spentKeys, applying, starts, plays>>
  <2>1. CASE \E l \in Lineages : Withdraw(l)
    BY <2>1 DEF IInv, TypeOK, Withdraw, histories
  <2>2. ASSUME NEW id \in Ids, NEW r \in Rounds, Correct(id, r)
        PROVE  /\ withdrawn' \subseteq Lineages /\ corrected' \subseteq Joined
               /\ asked' \subseteq Ids \X Rounds
               /\ UNCHANGED <<records, issuedDays, spentKeys, applying, starts, plays>>
    BY <1>2, <2>2 DEF IInv, TypeOK, Correct
  <2>3. QED
    BY <2>1, <2>2
<1>4. QED
  BY <1>3 DEF IInv, TypeOK, RunsAreSpent, RecordsMarkTheirDay, ExpiryIsFixed,
              OneCredentialPerDay, UsesStayInScope, Issued

\* Every step of the specification preserves the invariant.
THEOREM NextPreservesIInv == IInv /\ [Next]_vars => IInv'
<1> SUFFICES ASSUME IInv, [Next]_vars PROVE IInv'
  OBVIOUS
<1>1. CASE \E q \in IssueRequests : Issue(q)
  BY <1>1, IssuePreservesIInv
<1>2. CASE \E q \in UseRequests : Authorize(q)
  BY <1>2, AuthorizePreservesIInv
<1>3. CASE Finish
  BY <1>3, FinishPreservesIInv
<1>4. CASE \E id \in Ids : Revoke(id)
  BY <1>4, RevokePreservesIInv
<1>5. CASE \E i \in Invitations, l \in Lineages, named \in SUBSET Ids : CascadeRevoke(i, l, named)
  BY <1>5, CascadePreservesIInv
<1>6. CASE \/ \E l \in Lineages : Withdraw(l)
           \/ \E id \in Ids, r \in Rounds : Correct(id, r)
  BY <1>6, MarksPreserveIInv
<1>7. CASE UNCHANGED vars
  BY <1>7 DEF vars, registry, histories, IInv, TypeOK, RunsAreSpent, RecordsMarkTheirDay, ExpiryIsFixed,
              OneCredentialPerDay, UsesStayInScope, Issued
<1>8. QED
  BY <1>1, <1>2, <1>3, <1>4, <1>5, <1>6, <1>7 DEF Next

\* The invariant holds in every state of every run.
THEOREM IInvAlways == Spec => []IInv
  BY InitEstablishesIInv, NextPreservesIInv, PTL DEF Spec
-----------------------------------------------------------------------------
\* Every variable keeps its type.
THEOREM TypeCorrect == Spec => []TypeOK
<1>1. IInv => TypeOK
  BY DEF IInv
<1>2. QED
  BY <1>1, IInvAlways, PTL

(* A mutation key runs its mutation at most once, however applications     *)
(* nest and whatever they do: repeated use of a key is one transition at   *)
(* most (authorizeAndApply).                                               *)
THEOREM KeysApplyOnce == Spec => []OneApplicationPerKey
<1>1. IInv => OneApplicationPerKey
  BY DEF IInv, RunsAreSpent, OneApplicationPerKey
<1>2. QED
  BY <1>1, IInvAlways, PTL

\* A lineage gets one credential for a day (issue).
THEOREM OneCredentialForEachDay == Spec => []OneCredentialPerDay
<1>1. IInv => OneCredentialPerDay
  BY DEF IInv
<1>2. QED
  BY <1>1, IInvAlways, PTL

(* Whatever runs, runs within the lifetime and the scope of a credential   *)
(* of an approved lineage.                                                 *)
THEOREM UsesAlwaysInScope == Spec => []UsesStayInScope
<1>1. IInv => UsesStayInScope
  BY DEF IInv
<1>2. QED
  BY <1>1, IInvAlways, PTL

\* No step changes more of a record than to revoke it, or adds more than one.
LEMMA RecordsOnlyGetRevoked ==
  ASSUME IInv, [Next]_vars
  PROVE  \A id \in Ids : Issued(id) =>
           /\ Issued(id)'
           /\ records'[id].lineage = records[id].lineage
           /\ records[id].status = "REVOKED" => records'[id].status = "REVOKED"
<1>1. records \in [Ids -> Record \cup {None}]
  BY DEF IInv, TypeOK
<1>2. ASSUME NEW q \in IssueRequests, Issue(q)
      PROVE  \A id \in Ids : Issued(id) => records'[id] = records[id]
  BY <1>1, <1>2 DEF Issue, Issued
<1>3. ASSUME KeepsRecords
      PROVE  \A id \in Ids : Issued(id) =>
               /\ Issued(id)'
               /\ records'[id].lineage = records[id].lineage
               /\ records[id].status = "REVOKED" => records'[id].status = "REVOKED"
  <2> SUFFICES ASSUME NEW id \in Ids, Issued(id)
               PROVE  /\ Issued(id)'
                      /\ records'[id].lineage = records[id].lineage
                      /\ records[id].status = "REVOKED" => records'[id].status = "REVOKED"
    OBVIOUS
  <2>1. records[id] \in Record
    BY <1>1 DEF Issued
  <2>2. Issued(id)' /\ records'[id] \in {records[id], [records[id] EXCEPT !.status = "REVOKED"]}
    BY <1>3 DEF KeepsRecords
  <2>3. QED
    BY <2>1, <2>2, RevokedRecord
<1>4. CASE \E id \in Ids : Revoke(id)
  BY <1>3, <1>4, RevokePreservesIInv
<1>5. CASE \E i \in Invitations, l \in Lineages, named \in SUBSET Ids : CascadeRevoke(i, l, named)
  BY <1>3, <1>5, CascadePreservesIInv
<1>6. CASE UNCHANGED records
  BY <1>6 DEF Issued
<1>7. QED
  BY <1>2, <1>4, <1>5, <1>6
     DEF Next, vars, registry, Issued, Authorize, Finish, Withdraw, Correct

(* A credential that was revoked, or whose participant withdrew, stays     *)
(* dead, and no mutation starts with it: the marks are only ever added to. *)
THEOREM DeadStaysDead == Spec => DeadCredentialsStayDead
<1>1. IInv /\ [Next]_vars =>
        [\A id \in Ids : Dead(id) =>
           /\ Dead(id)'
           /\ \A k \in Keys : starts'[<<id, k>>] = starts[<<id, k>>]]_vars
  <2> SUFFICES ASSUME IInv, [Next]_vars, NEW id \in Ids, Dead(id)
               PROVE  Dead(id)' /\ \A k \in Keys : starts'[<<id, k>>] = starts[<<id, k>>]
    OBVIOUS
  <2>1. withdrawn \subseteq withdrawn'
    BY DEF Next, vars, registry, Issue, Authorize, Finish, Revoke, CascadeRevoke, Withdraw, Correct
  <2>2. Dead(id)'
    BY <2>1, RecordsOnlyGetRevoked DEF Dead
  <2>3. ASSUME NEW q \in UseRequests, Authorize(q)
        PROVE  \A k \in Keys : starts'[<<id, k>>] = starts[<<id, k>>]
    <3>1. q.id # id
      BY <2>3 DEF Authorize, Permits, Dead
    <3>2. starts \in [Ids \X Keys -> Nat]
      BY DEF IInv, TypeOK
    <3>3. QED
      BY <2>3, <3>1, <3>2 DEF Authorize
  <2>4. ASSUME UNCHANGED starts
        PROVE  \A k \in Keys : starts'[<<id, k>>] = starts[<<id, k>>]
    BY <2>4
  <2>5. QED
    BY <2>2, <2>3, <2>4
       DEF Next, vars, histories, Issue, Finish, Revoke, CascadeRevoke, Withdraw, Correct
<1>2. QED
  BY <1>1, IInvAlways, PTL DEF Spec, DeadCredentialsStayDead

-----------------------------------------------------------------------------
\* Every correction that was recorded closes the round under its trimmed name.
CorrectionsClose ==
  \A id \in Ids, r \in Rounds : <<id, r>> \in asked => ClosedRound(id, Trim[r])

\* Corrections are recorded as they are asked for, and none is taken back.
LEMMA CorrectionsStay == CorrectionsClose /\ [Next]_vars => CorrectionsClose'
<1> SUFFICES ASSUME CorrectionsClose, [Next]_vars PROVE CorrectionsClose'
  OBVIOUS
<1>1. ASSUME NEW id \in Ids, NEW r \in Rounds, Correct(id, r)
      PROVE  CorrectionsClose'
  BY <1>1 DEF Correct, CorrectionsClose, ClosedRound
<1>2. CASE UNCHANGED <<corrected, asked>>
  BY <1>2 DEF CorrectionsClose, ClosedRound
<1>3. QED
  BY <1>1, <1>2
     DEF Next, vars, registry, histories, Issue, Authorize, Finish, Revoke, CascadeRevoke, Withdraw

THEOREM CorrectionsCloseAlways == Spec => []CorrectionsClose
<1>1. Init => CorrectionsClose
  BY DEF Init, CorrectionsClose
<1>2. QED
  BY <1>1, CorrectionsStay, PTL DEF Spec

(* Once a correction was recorded, the round under its trimmed name takes  *)
(* no further play: corrections are never taken back, and with one a round *)
(* is open for its notice only (recordRoundCorrection, authorizeAndApply). *)
THEOREM CorrectedStaysClosed == Spec => CorrectedRoundsTakeNoPlay
<1>1. IInv /\ CorrectionsClose /\ [Next]_vars =>
        [\A id \in Ids, r \in Rounds : <<id, r>> \in asked =>
           plays'[<<id, Trim[r]>>] = plays[<<id, Trim[r]>>]]_vars
  <2> SUFFICES ASSUME IInv, CorrectionsClose, [Next]_vars,
                      NEW id \in Ids, NEW s \in Rounds, <<id, s>> \in asked
               PROVE  plays'[<<id, Trim[s]>>] = plays[<<id, Trim[s]>>]
    OBVIOUS
  <2> DEFINE r == Trim[s]
  <2>1. r \in Rounds /\ ClosedRound(id, r)
    BY CredentialAssumption DEF CorrectionsClose, TrimsWithin
  <2> HIDE DEF r
  <2>2. ASSUME NEW q \in UseRequests, Authorize(q)
        PROVE  plays'[<<id, r>>] = plays[<<id, r>>]
    <3>1. plays \in [Ids \X Rounds -> Nat]
      BY DEF IInv, TypeOK
    <3>2. CASE q.id = id /\ q.round = r
      BY <2>1, <2>2, <3>2 DEF Authorize, Permits
    <3>3. CASE <<q.id, q.round>> # <<id, r>>
      BY <2>1, <2>2, <3>1, <3>3 DEF Authorize
    <3>4. QED
      BY <3>2, <3>3
  <2>3. CASE UNCHANGED plays
    BY <2>3
  <2>4. plays'[<<id, r>>] = plays[<<id, r>>]
    BY <2>2, <2>3
       DEF Next, vars, histories, Issue, Finish, Revoke, CascadeRevoke, Withdraw, Correct
  <2>5. QED
    BY <2>4 DEF r
<1>2. QED
  BY <1>1, IInvAlways, CorrectionsCloseAlways, PTL DEF Spec, CorrectedRoundsTakeNoPlay
=============================================================================
