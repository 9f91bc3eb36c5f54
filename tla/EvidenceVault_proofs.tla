------------------------ MODULE EvidenceVault_proofs ------------------------
(***************************************************************************)
(* Proofs about EvidenceVault, for any evidence, backups, operators and    *)
(* ledgers, and any length of the audit trail.                             *)
(*                                                                         *)
(* The tombstones carry the argument. Evidence that is marked deleted is   *)
(* not kept, and the trail mentions the deletion of nothing else. So what  *)
(* is stored, read or deleted has no deletion on the trail, which is what  *)
(* keeps the trail true when an entry is appended; and a restore, which    *)
(* passes over tombstones and stops at what is kept, brings only evidence  *)
(* that is absent, which is what EvidenceLifecycle asks of it.             *)
(***************************************************************************)
EXTENDS EvidenceVault, TLAPS, WellFoundedInduction

\* What was deleted is gone.
DeletedAreGone == \A e \in deleted : ~Kept(e)

\* The trail tells of no deletion that did not happen.
DeletionsAreTrue ==
  \A n \in DOMAIN audits : audits[n].kind = "DELETED" => audits[n].subject \in deleted

IInv ==
  /\ TypeOK
  /\ DeletedAreGone
  /\ DeletionsAreTrue
  /\ AuditTrailIsTrue
-----------------------------------------------------------------------------
\* A set of instants that is not empty has an earliest one.
LEMMA Earliest ==
  ASSUME NEW T \in SUBSET Nat, T # {}
  PROVE  \E t \in T : \A s \in T : t <= s
<1> DEFINE R == {ss \in Nat \X Nat : ss[1] < ss[2]}
<1>1. IsWellFoundedOn(R, Nat)
  BY NatLessThanWellFounded DEF OpToRel
<1>2. PICK x \in T : \A y \in T : ~ (<<y, x>> \in R)
  BY <1>1, WFMin
<1>3. ASSUME NEW s \in T PROVE x <= s
  <2>1. ~ (<<s, x>> \in R)
    BY <1>2
  <2>2. x \in Nat /\ s \in Nat
    OBVIOUS
  <2>3. ~ (s < x)
    BY <2>1, <2>2
  <2>4. QED
    BY <2>2, <2>3
<1>4. QED
  BY <1>3

\* What store makes of a request is a record.
LEMMA StoredRecord ==
  ASSUME NEW q \in StoreRequests, q.events # {}
  PROVE  [version |-> q.version, allowed |-> q.allowed,
          deadline |-> RetentionDeadline(q.events), hold |-> q.hold] \in Record
<1>1. q \in StoreRequest /\ Retention \in Nat
  BY VaultAssumption
<1>2. q.events \in SUBSET Nat
  BY <1>1 DEF StoreRequest
<1>3. \E t \in q.events : \A s \in q.events : t <= s
  BY <1>2, Earliest
<1>4. (CHOOSE t \in q.events : \A s \in q.events : t <= s) \in Nat
  BY <1>2, <1>3
<1>5. RetentionDeadline(q.events) \in Nat
  BY <1>1, <1>4 DEF RetentionDeadline
<1>6. QED
  BY <1>1, <1>5 DEF StoreRequest, Record

\* A restore only brings entries of its own, of evidence that is absent.
LEMMA BroughtAreAbsent ==
  ASSUME TypeOK, NEW r \in RestoreIds, Open(r), NEW n \in Brought(r)
  PROVE  LET entry == restores[r].entries[n]
         IN /\ n \in DOMAIN restores[r].entries
            /\ entry \in Entry
            /\ entry.evidence \in Evidence /\ entry.record \in Record
            /\ entry.evidence \notin deleted
            /\ ~Kept(entry.evidence)
<1>1. restores[r].entries \in Seq(Entry)
  BY DEF TypeOK, Open, Restore
<1>2. /\ n \in DOMAIN restores[r].entries
      /\ \A m \in 1 .. n : ~Blocked(r, m)
      /\ restores[r].entries[n].evidence \notin deleted
  BY DEF Brought, Reached
<1>3. restores[r].entries[n] \in Entry /\ n \in 1 .. n
  BY <1>1, <1>2
<1>4. ~Blocked(r, n)
  BY <1>2, <1>3
<1>5. ~Kept(restores[r].entries[n].evidence)
  BY <1>2, <1>4 DEF Blocked
<1>6. QED
  BY <1>2, <1>3, <1>5 DEF Entry

\* No two of the entries it brings are of the same evidence.
LEMMA BroughtOnce ==
  ASSUME TypeOK, NEW r \in RestoreIds, Open(r), NEW m \in Brought(r), NEW n \in Brought(r),
         restores[r].entries[m].evidence = restores[r].entries[n].evidence
  PROVE  m = n
<1>1. restores[r].entries \in Seq(Entry)
  BY DEF TypeOK, Open, Restore
<1>2. ASSUME NEW i \in Brought(r), NEW j \in Brought(r), i < j,
             restores[r].entries[i].evidence = restores[r].entries[j].evidence
      PROVE  FALSE
  <2>1. /\ i \in DOMAIN restores[r].entries /\ j \in DOMAIN restores[r].entries
        /\ \A k \in 1 .. j : ~Blocked(r, k)
        /\ restores[r].entries[j].evidence \notin deleted
    BY DEF Brought, Reached
  <2>2. i \in 1 .. j - 1 /\ j \in 1 .. j
    BY <1>1, <1>2, <2>1
  <2>3. Blocked(r, j)
    BY <1>2, <2>1, <2>2 DEF Blocked
  <2>4. QED
    BY <2>1, <2>2, <2>3
<1>3. m \in DOMAIN restores[r].entries /\ n \in DOMAIN restores[r].entries
  BY DEF Brought, Reached
<1>4. m \in Nat /\ n \in Nat
  BY <1>1, <1>3
<1>5. m < n \/ n < m \/ m = n
  BY <1>4
<1>6. QED
  BY <1>2, <1>5

(* What a restore does to the records, whether it gets to its end or not.  *)
LEMMA Completion ==
  ASSUME TypeOK, NEW op \in Operators, NEW r \in RestoreIds, CompleteRestore(op, r)
  PROVE  /\ records' \in [Evidence -> Record \cup {None}]
         /\ \A n \in Brought(r) :
              records'[restores[r].entries[n].evidence] = restores[r].entries[n].record
         /\ \A e \in Evidence :
              \/ records'[e] = records[e]
              \/ \E n \in Brought(r) : restores[r].entries[n].evidence = e
<1>0. Open(r) /\ records' = [e \in Evidence |->
        IF \E n \in Brought(r) : restores[r].entries[n].evidence = e
        THEN BroughtRecord(r, e) ELSE records[e]]
  BY DEF CompleteRestore
<1>1. ASSUME NEW n \in Brought(r)
      PROVE  /\ restores[r].entries[n].evidence \in Evidence
             /\ BroughtRecord(r, restores[r].entries[n].evidence) = restores[r].entries[n].record
             /\ restores[r].entries[n].record \in Record
  <2> DEFINE e == restores[r].entries[n].evidence
             k == CHOOSE i \in Brought(r) : restores[r].entries[i].evidence = e
  <2>1. k \in Brought(r) /\ restores[r].entries[k].evidence = e
    OBVIOUS
  <2>2. k = n
    BY <1>0, <2>1, BroughtOnce
  <2>3. BroughtRecord(r, e) = restores[r].entries[n].record
    BY <2>2 DEF BroughtRecord
  <2>4. QED
    BY <1>0, <2>3, BroughtAreAbsent
<1>2. \A n \in Brought(r) :
        records'[restores[r].entries[n].evidence] = restores[r].entries[n].record
  BY <1>0, <1>1
<1>3. ASSUME NEW e \in Evidence
      PROVE  IF \E n \in Brought(r) : restores[r].entries[n].evidence = e
             THEN records'[e] \in Record ELSE records'[e] = records[e]
  BY <1>0, <1>1, <1>2
<1>4. \A e \in Evidence : records'[e] \in Record \cup {None}
  BY <1>3 DEF TypeOK
<1>5. QED
  BY <1>0, <1>2, <1>3, <1>4
-----------------------------------------------------------------------------
\* Appending to the trail keeps its type and its earlier entries.
LEMMA AppendedEntry ==
  ASSUME TypeOK, NEW subject \in Evidence \cup RestoreIds, NEW op \in Operators,
         NEW kind \in Kinds, Audited(subject, op, kind)
  PROVE  /\ audits' \in Seq(Audit)
         /\ Len(audits') = Len(audits) + 1
         /\ DOMAIN audits' = DOMAIN audits \cup {Len(audits) + 1}
         /\ \A n \in DOMAIN audits : audits'[n] = audits[n]
         /\ audits'[Len(audits) + 1] = [subject |-> subject, operator |-> op, kind |-> kind]
<1> DEFINE a == [subject |-> subject, operator |-> op, kind |-> kind]
<1>1. a \in Audit /\ audits \in Seq(Audit) /\ audits' = Append(audits, a)
  BY DEF TypeOK, Audit, Audited
<1> HIDE DEF a
<1>2. /\ audits' \in Seq(Audit)
      /\ Len(audits') = Len(audits) + 1
      /\ DOMAIN audits' = DOMAIN audits \cup {Len(audits) + 1}
      /\ \A n \in DOMAIN audits : audits'[n] = audits[n]
      /\ audits'[Len(audits) + 1] = a
  BY <1>1
<1>3. QED
  BY <1>2 DEF a

\* A sequence one element longer, and one element shorter.
LEMMA OneMore ==
  ASSUME NEW S, NEW s \in Seq(S), NEW x \in S
  PROVE  /\ Append(s, x) \in Seq(S)
         /\ DOMAIN Append(s, x) = DOMAIN s \cup {Len(s) + 1}
         /\ \A n \in DOMAIN s : Append(s, x)[n] = s[n]
         /\ Append(s, x)[Len(s) + 1] = x
OBVIOUS

LEMMA OneLess ==
  ASSUME NEW S, NEW s \in Seq(S), s # << >>
  PROVE  LET t == SubSeq(s, 1, Len(s) - 1)
         IN /\ t \in Seq(S)
            /\ DOMAIN t \subseteq DOMAIN s
            /\ \A n \in DOMAIN t : t[n] = s[n]
OBVIOUS

\* Every variable keeps its type: one step.
LEMMA TypeStep == TypeOK /\ [Next]_vars => TypeOK'
<1> SUFFICES ASSUME TypeOK, [Next]_vars PROVE TypeOK'
  OBVIOUS
<1>a. /\ \A e \in Evidence : Kept(e) => records[e] \in Record
      /\ \A r \in RestoreIds : Open(r) => restores[r] \in Restore
  BY DEF TypeOK, Kept, Open
<1>1. ASSUME NEW op \in Operators, NEW q \in StoreRequests, Store(op, q) PROVE TypeOK'
  <2>1. q.evidence \in Evidence
    BY VaultAssumption DEF StoreRequest
  <2>2. [version |-> q.version, allowed |-> q.allowed,
         deadline |-> RetentionDeadline(q.events), hold |-> q.hold] \in Record
    BY <1>1, StoredRecord DEF Store
  <2>3. records' \in [Evidence -> Record \cup {None}]
    BY <1>1, <2>1, <2>2 DEF Store, TypeOK
  <2>4. audits' \in Seq(Audit)
    BY <1>1, <2>1, AppendedEntry DEF Store, Kinds
  <2>5. QED
    BY <1>1, <2>3, <2>4 DEF Store, TypeOK
<1>2. ASSUME NEW op \in Operators, NEW e \in Evidence, Read(op, e) PROVE TypeOK'
  <2>1. audits' \in Seq(Audit)
    BY <1>2, AppendedEntry DEF Read, Kinds
  <2>2. Reading(op, e) \in Callback
    BY DEF Reading, TypeOK, Callback
  <2>3. readings' \in Seq(Callback)
    <3>1. readings \in Seq(Callback)
      BY DEF TypeOK
    <3>2. QED
      BY <1>2, <2>2, <3>1 DEF Read
  <2>4. QED
    BY <1>2, <2>1, <2>3 DEF Read, TypeOK
<1>3. ASSUME NEW op \in Operators, NEW e \in Evidence, NEW purposeKnown \in BOOLEAN,
             Refuse(op, e, purposeKnown)
      PROVE  TypeOK'
  <2>1. audits' \in Seq(Audit)
    BY <1>3, AppendedEntry DEF Refuse, Kinds
  <2>2. QED
    BY <1>3, <2>1 DEF Refuse, TypeOK
<1>4. ASSUME FinishReading PROVE TypeOK'
  <2>1. readings' \in Seq(Callback)
    BY <1>4, OneLess DEF FinishReading, TypeOK
  <2>2. QED
    BY <1>4, <2>1 DEF FinishReading, TypeOK
<1>5. ASSUME NEW op \in Operators, NEW e \in Evidence, NEW blank \in BOOLEAN,
             Delete(op, e, blank)
      PROVE  TypeOK'
  <2>1. audits' \in Seq(Audit)
    <3>1. CASE blank
      BY <1>5, <3>1 DEF Delete, TypeOK
    <3>2. CASE ~blank
      BY <1>5, <3>2, AppendedEntry DEF Delete, Kinds
    <3>3. QED
      BY <3>1, <3>2
  <2>2. QED
    BY <1>5, <2>1 DEF Delete, TypeOK
<1>6. ASSUME NEW op \in Operators, NEW r \in RestoreIds, NEW b \in Backups,
             BeginRestore(op, r, b)
      PROVE  TypeOK'
  <2>1. [initiator |-> op, entries |-> b, replayed |-> {}] \in Restore
    BY <1>6, VaultAssumption DEF BeginRestore, HasRole, Restore
  <2>2. audits' \in Seq(Audit)
    BY <1>6, AppendedEntry DEF BeginRestore, Kinds
  <2>3. QED
    BY <1>6, <2>1, <2>2 DEF BeginRestore, TypeOK
<1>7. ASSUME NEW op \in Operators, NEW r \in RestoreIds, NEW l \in Ledgers,
             RecordLedgerReplay(op, r, l)
      PROVE  TypeOK'
  <2>1. restores[r] \in Restore
    BY <1>a, <1>7 DEF RecordLedgerReplay
  <2>2. [restores[r] EXCEPT !.replayed = @ \cup {l}] \in Restore
    BY <2>1 DEF Restore
  <2>3. restores' \in [RestoreIds -> Restore \cup {None}]
    BY <1>7, <2>2 DEF RecordLedgerReplay, TypeOK
  <2>4. QED
    BY <1>7, <2>3 DEF RecordLedgerReplay, TypeOK
<1>8. ASSUME NEW op \in Operators, NEW r \in RestoreIds, CompleteRestore(op, r)
      PROVE  TypeOK'
  <2>1. records' \in [Evidence -> Record \cup {None}]
    BY <1>8, Completion
  <2>2. audits' \in Seq(Audit) /\ restores' \in [RestoreIds -> Restore \cup {None}]
    <3>1. CASE Reached(r) = DOMAIN restores[r].entries
      <4>1. Audited(r, op, "RESTORE_RECONCILIATION_PASSED")
        BY <1>8, <3>1 DEF CompleteRestore
      <4>2. audits' \in Seq(Audit)
        BY <4>1, AppendedEntry DEF Kinds
      <4>3. QED
        BY <1>8, <3>1, <4>2 DEF CompleteRestore, TypeOK
    <3>2. CASE Reached(r) # DOMAIN restores[r].entries
      BY <1>8, <3>2 DEF CompleteRestore, TypeOK
    <3>3. QED
      BY <3>1, <3>2
  <2>3. QED
    BY <1>8, <2>1, <2>2 DEF CompleteRestore, TypeOK
<1>9. CASE Tick
  BY <1>9, VaultAssumption DEF Tick, TypeOK, Instants
<1>10. CASE UNCHANGED vars
  BY <1>10 DEF vars, TypeOK
<1>11. QED
  BY <1>1, <1>2, <1>3, <1>4, <1>5, <1>6, <1>7, <1>8, <1>9, <1>10 DEF Next

\* TypeOK, for every value of the constants.
THEOREM TypeCorrect == Spec => []TypeOK
<1>1. Init => TypeOK
  BY VaultAssumption DEF Init, TypeOK, Instants
<1>2. QED
  BY <1>1, TypeStep, PTL DEF Spec
-----------------------------------------------------------------------------
\* An entry that is no deletion of deleted evidence keeps the trail true.
LEMMA TrailGrows ==
  ASSUME IInv, NEW subject \in Evidence \cup RestoreIds, NEW op \in Operators,
         NEW kind \in Kinds, Audited(subject, op, kind),
         kind # "ACCESS_DENIED" => subject \notin deleted
  PROVE  NothingFollowsADeletion'
<1> SUFFICES ASSUME NEW m \in DOMAIN audits', NEW n \in DOMAIN audits', m < n,
                    audits'[m].kind = "DELETED", audits'[n].subject = audits'[m].subject
             PROVE  audits'[n].kind = "ACCESS_DENIED"
  BY DEF NothingFollowsADeletion
<1>1. TypeOK /\ DeletionsAreTrue /\ NothingFollowsADeletion
  BY DEF IInv, AuditTrailIsTrue
<1>2. /\ DOMAIN audits' = DOMAIN audits \cup {Len(audits) + 1}
      /\ \A i \in DOMAIN audits : audits'[i] = audits[i]
      /\ audits'[Len(audits) + 1] = [subject |-> subject, operator |-> op, kind |-> kind]
  BY <1>1, AppendedEntry
<1>3. DOMAIN audits = 1 .. Len(audits) /\ Len(audits) \in Nat
  BY <1>1 DEF TypeOK
<1>4. m \in DOMAIN audits
  BY <1>2, <1>3
<1>5. CASE n \in DOMAIN audits
  BY <1>1, <1>2, <1>4, <1>5 DEF NothingFollowsADeletion
<1>6. CASE n = Len(audits) + 1
  <2>1. audits[m].subject \in deleted
    BY <1>1, <1>2, <1>4 DEF DeletionsAreTrue
  <2>2. subject \in deleted
    BY <1>2, <1>4, <1>6, <2>1
  <2>3. QED
    BY <1>2, <1>6, <2>2
<1>7. QED
  BY <1>2, <1>5, <1>6

\* A trail that keeps its entries accounts for the callbacks there were.
LEMMA ReadingsStayAudited ==
  ASSUME ReadingsAreAudited, DOMAIN readings' \subseteq DOMAIN readings,
         \A n \in DOMAIN readings' : readings'[n] = readings[n],
         \A n \in DOMAIN audits : n \in DOMAIN audits' /\ audits'[n] = audits[n]
  PROVE  ReadingsAreAudited'
BY DEF ReadingsAreAudited

\* The invariant is kept by a step that changes neither evidence nor trail.
LEMMA QuietStep ==
  ASSUME IInv, TypeOK', UNCHANGED <<records, deleted, audits>>,
         DOMAIN readings' \subseteq DOMAIN readings,
         \A n \in DOMAIN readings' : readings'[n] = readings[n]
  PROVE  IInv'
<1>1. ReadingsAreAudited'
  BY ReadingsStayAudited DEF IInv, AuditTrailIsTrue
<1>2. NothingFollowsADeletion' /\ DeletedAreGone' /\ DeletionsAreTrue'
  BY DEF IInv, AuditTrailIsTrue, NothingFollowsADeletion, DeletedAreGone, DeletionsAreTrue, Kept
<1>3. QED
  BY <1>1, <1>2 DEF IInv, AuditTrailIsTrue

(* It is kept by a step that appends one entry, if the entry tells of a    *)
(* deletion only when there is one, and the callbacks stay.                *)
LEMMA AuditedStep ==
  ASSUME IInv, TypeOK', DeletedAreGone', deleted \subseteq deleted',
         NEW subject \in Evidence \cup RestoreIds, NEW op \in Operators,
         NEW kind \in Kinds, Audited(subject, op, kind),
         kind # "ACCESS_DENIED" => subject \notin deleted,
         kind = "DELETED" => subject \in deleted',
         ReadingsAreAudited'
  PROVE  IInv'
<1>1. TypeOK /\ DeletionsAreTrue
  BY DEF IInv
<1>2. NothingFollowsADeletion'
  BY TrailGrows
<1>3. DeletionsAreTrue'
  <2> SUFFICES ASSUME NEW n \in DOMAIN audits', audits'[n].kind = "DELETED"
               PROVE  audits'[n].subject \in deleted'
    BY DEF DeletionsAreTrue
  <2>1. /\ DOMAIN audits' = DOMAIN audits \cup {Len(audits) + 1}
        /\ \A i \in DOMAIN audits : audits'[i] = audits[i]
        /\ audits'[Len(audits) + 1] = [subject |-> subject, operator |-> op, kind |-> kind]
    BY <1>1, AppendedEntry
  <2>2. CASE n \in DOMAIN audits
    BY <1>1, <2>1, <2>2 DEF DeletionsAreTrue
  <2>3. CASE n = Len(audits) + 1
    BY <2>1, <2>3
  <2>4. QED
    BY <2>1, <2>2, <2>3
<1>4. QED
  BY <1>2, <1>3 DEF IInv, AuditTrailIsTrue

\* The entry of a callback that starts is new, so it is no other's.
LEMMA ReadingStarts ==
  ASSUME IInv, NEW op \in Operators, NEW e \in Evidence, Audited(e, op, "ACCESS_GRANTED"),
         readings' = Append(readings, Reading(op, e))
  PROVE  ReadingsAreAudited'
<1>1. /\ readings \in Seq(Callback) /\ audits \in Seq(Audit) /\ ReadingsAreAudited
      /\ TypeOK
  BY DEF IInv, TypeOK, AuditTrailIsTrue
<1>2. Reading(op, e) \in Callback
  BY <1>1 DEF Reading, Callback
<1>3. /\ DOMAIN readings' = DOMAIN readings \cup {Len(readings) + 1}
      /\ \A n \in DOMAIN readings : readings'[n] = readings[n]
      /\ readings'[Len(readings) + 1] = Reading(op, e)
  BY <1>1, <1>2, OneMore
<1>4. /\ DOMAIN audits' = DOMAIN audits \cup {Len(audits) + 1}
      /\ \A i \in DOMAIN audits : audits'[i] = audits[i]
      /\ audits'[Len(audits) + 1] =
           [subject |-> e, operator |-> op, kind |-> "ACCESS_GRANTED"]
  BY <1>1, AppendedEntry DEF Kinds
<1>5. Len(audits) + 1 \notin DOMAIN audits
  BY <1>1
<1>6. \A n \in DOMAIN readings : readings[n].auditId \in DOMAIN audits
  BY <1>1 DEF ReadingsAreAudited
<1>7. ASSUME NEW m \in DOMAIN readings', NEW n \in DOMAIN readings',
             readings'[n].auditId = readings'[m].auditId
      PROVE  n = m
  <2>1. CASE m \in DOMAIN readings /\ n \in DOMAIN readings
    BY <1>1, <1>3, <1>7, <2>1 DEF ReadingsAreAudited
  <2>2. \A k \in DOMAIN readings : readings[k].auditId # Reading(op, e).auditId
    BY <1>5, <1>6 DEF Reading
  <2>3. QED
    BY <1>3, <1>7, <2>1, <2>2
<1>8. ASSUME NEW m \in DOMAIN readings'
      PROVE  LET id == readings'[m].auditId
             IN /\ id \in DOMAIN audits'
                /\ audits'[id] = [subject |-> readings'[m].evidence,
                                  operator |-> readings'[m].operator,
                                  kind |-> "ACCESS_GRANTED"]
  <2>1. CASE m \in DOMAIN readings
    BY <1>1, <1>3, <1>4, <2>1 DEF ReadingsAreAudited
  <2>2. CASE m = Len(readings) + 1
    BY <1>3, <1>4, <2>2 DEF Reading
  <2>3. QED
    BY <1>3, <2>1, <2>2
<1>9. QED
  BY <1>7, <1>8 DEF ReadingsAreAudited
-----------------------------------------------------------------------------
\* The invariant is inductive.
LEMMA IInvStep == IInv /\ [Next]_vars => IInv'
<1> SUFFICES ASSUME IInv, [Next]_vars PROVE IInv'
  OBVIOUS
<1>t. TypeOK /\ TypeOK' /\ DeletedAreGone /\ ReadingsAreAudited
  BY TypeStep DEF IInv, AuditTrailIsTrue
<1>e. /\ \A e \in Evidence : Kept(e) => e \notin deleted
      /\ \A r \in RestoreIds : r \notin deleted
  BY <1>t, VaultAssumption DEF DeletedAreGone, TypeOK
\* A step that leaves the callbacks alone and at most appends to the trail.
<1>r. ASSUME readings' = readings,
             \/ UNCHANGED audits
             \/ \E subject \in Evidence \cup RestoreIds, op \in Operators, kind \in Kinds :
                  Audited(subject, op, kind)
      PROVE  ReadingsAreAudited'
  <2>1. \A n \in DOMAIN audits : n \in DOMAIN audits' /\ audits'[n] = audits[n]
    BY <1>r, <1>t, AppendedEntry
  <2>2. QED
    BY <1>r, <1>t, <2>1, ReadingsStayAudited
<1>1. ASSUME NEW op \in Operators, NEW q \in StoreRequests, Store(op, q) PROVE IInv'
  <2>1. /\ q.evidence \in Evidence /\ q.evidence \notin deleted
        /\ Audited(q.evidence, op, "STORED")
    BY <1>1, VaultAssumption DEF Store, StoreRequest
  <2>2. DeletedAreGone'
    BY <1>1, <1>t, <2>1 DEF Store, DeletedAreGone, Kept, TypeOK
  <2>3. ReadingsAreAudited'
    BY <1>1, <1>r, <2>1 DEF Store, Kinds
  <2>4. QED
    BY <1>1, <1>t, <2>1, <2>2, <2>3, AuditedStep DEF Store, Kinds
<1>2. ASSUME NEW op \in Operators, NEW e \in Evidence, Read(op, e) PROVE IInv'
  <2>1. Audited(e, op, "ACCESS_GRANTED") /\ e \notin deleted
    BY <1>2, <1>e DEF Read, MayRead
  <2>2. DeletedAreGone'
    BY <1>2, <1>t DEF Read, DeletedAreGone, Kept
  <2>3. ReadingsAreAudited'
    <3>1. CASE readings' = Append(readings, Reading(op, e))
      BY <2>1, <3>1, ReadingStarts
    <3>2. CASE UNCHANGED readings
      BY <1>r, <2>1, <3>2 DEF Kinds
    <3>3. QED
      BY <1>2, <3>1, <3>2 DEF Read
  <2>4. QED
    BY <1>2, <1>t, <2>1, <2>2, <2>3, AuditedStep DEF Read, Kinds
<1>3. ASSUME NEW op \in Operators, NEW e \in Evidence, NEW purposeKnown \in BOOLEAN,
             Refuse(op, e, purposeKnown)
      PROVE  IInv'
  <2>1. Audited(e, op, "ACCESS_DENIED")
    BY <1>3 DEF Refuse
  <2>2. DeletedAreGone'
    BY <1>3, <1>t DEF Refuse, DeletedAreGone, Kept
  <2>3. ReadingsAreAudited'
    BY <1>3, <1>r, <2>1 DEF Refuse, Kinds
  <2>4. QED
    BY <1>3, <1>t, <2>1, <2>2, <2>3, AuditedStep DEF Refuse, Kinds
<1>4. ASSUME FinishReading PROVE IInv'
  <2>1. DOMAIN readings' \subseteq DOMAIN readings /\ \A n \in DOMAIN readings' : readings'[n] = readings[n]
    BY <1>4, <1>t, OneLess DEF FinishReading, TypeOK
  <2>2. QED
    BY <1>4, <1>t, <2>1, QuietStep DEF FinishReading
<1>5. ASSUME NEW op \in Operators, NEW e \in Evidence, NEW blank \in BOOLEAN,
             Delete(op, e, blank)
      PROVE  IInv'
  <2>1. e \notin deleted /\ deleted' = deleted \cup {e} /\ readings' = readings
    BY <1>5, <1>e DEF Delete
  <2>2. DeletedAreGone'
    BY <1>5, <1>t DEF Delete, DeletedAreGone, Kept, TypeOK
  <2>3. CASE blank
    <3>1. UNCHANGED audits
      BY <1>5, <2>3 DEF Delete
    <3>2. NothingFollowsADeletion' /\ DeletionsAreTrue'
      BY <2>1, <3>1 DEF IInv, AuditTrailIsTrue, NothingFollowsADeletion, DeletionsAreTrue
    <3>3. QED
      BY <1>r, <1>t, <2>1, <2>2, <3>1, <3>2 DEF IInv, AuditTrailIsTrue
  <2>4. CASE ~blank
    <3>1. Audited(e, op, "DELETED")
      BY <1>5, <2>4 DEF Delete
    <3>2. ReadingsAreAudited'
      BY <1>r, <2>1, <3>1 DEF Kinds
    <3>3. QED
      BY <1>t, <2>1, <2>2, <3>1, <3>2, AuditedStep DEF Kinds
  <2>5. QED
    BY <2>3, <2>4
<1>6. ASSUME NEW op \in Operators, NEW r \in RestoreIds, NEW b \in Backups,
             BeginRestore(op, r, b)
      PROVE  IInv'
  <2>1. Audited(r, op, "RESTORE_QUARANTINE_CREATED")
    BY <1>6 DEF BeginRestore
  <2>2. DeletedAreGone'
    BY <1>6, <1>t DEF BeginRestore, DeletedAreGone, Kept
  <2>3. ReadingsAreAudited'
    BY <1>6, <1>r, <2>1 DEF BeginRestore, Kinds
  <2>4. QED
    BY <1>6, <1>t, <1>e, <2>1, <2>2, <2>3, AuditedStep DEF BeginRestore, Kinds
<1>7. ASSUME NEW op \in Operators, NEW r \in RestoreIds, NEW l \in Ledgers,
             RecordLedgerReplay(op, r, l)
      PROVE  IInv'
  BY <1>7, <1>t, QuietStep DEF RecordLedgerReplay
<1>8. ASSUME NEW op \in Operators, NEW r \in RestoreIds, CompleteRestore(op, r)
      PROVE  IInv'
  <2>1. Open(r) /\ deleted' = deleted /\ readings' = readings
    BY <1>8 DEF CompleteRestore
  <2>2. DeletedAreGone'
    <3>1. ASSUME NEW e \in deleted PROVE records'[e] = records[e]
      <4>1. \A n \in Brought(r) : restores[r].entries[n].evidence # e
        BY <1>t, <2>1, BroughtAreAbsent
      <4>2. QED
        BY <1>8, <1>t, <4>1, Completion DEF TypeOK
    <3>2. QED
      BY <1>t, <2>1, <3>1 DEF DeletedAreGone, Kept
  <2>3. CASE UNCHANGED audits
    <3>1. NothingFollowsADeletion' /\ DeletionsAreTrue'
      BY <2>1, <2>3 DEF IInv, AuditTrailIsTrue, NothingFollowsADeletion, DeletionsAreTrue
    <3>2. QED
      BY <1>r, <1>t, <2>1, <2>2, <2>3, <3>1 DEF IInv, AuditTrailIsTrue
  <2>4. CASE Audited(r, op, "RESTORE_RECONCILIATION_PASSED")
    <3>1. ReadingsAreAudited'
      BY <1>r, <2>1, <2>4 DEF Kinds
    <3>2. QED
      BY <1>t, <1>e, <2>1, <2>2, <2>4, <3>1, AuditedStep DEF Kinds
  <2>5. QED
    BY <1>8, <2>3, <2>4 DEF CompleteRestore
<1>9. CASE Tick
  BY <1>9, <1>t, QuietStep DEF Tick
<1>10. CASE UNCHANGED vars
  BY <1>10, <1>t, QuietStep DEF vars
<1>11. QED
  BY <1>1, <1>2, <1>3, <1>4, <1>5, <1>6, <1>7, <1>8, <1>9, <1>10 DEF Next

LEMMA Inductive == Spec => []IInv
<1>1. Init => TypeOK
  BY VaultAssumption DEF Init, TypeOK, Instants
<1>2. Init => IInv
  BY <1>1 DEF Init, IInv, DeletedAreGone, DeletionsAreTrue, AuditTrailIsTrue,
              NothingFollowsADeletion, ReadingsAreAudited
<1>3. QED
  BY <1>2, IInvStep, PTL DEF Spec

(* AuditTrailIsTrue, for every value of the constants: whatever is         *)
(* restored, nothing on the trail follows the deletion of its evidence,    *)
(* and every callback has an entry of its own.                             *)
THEOREM TrailStaysTrue == Spec => []AuditTrailIsTrue
<1>1. IInv => AuditTrailIsTrue
  BY DEF IInv
<1>2. QED
  BY <1>1, Inductive, PTL

(* Refined, for every value of the constants: the vault implements         *)
(* EvidenceLifecycle, also when calls stop halfway.                        *)
THEOREM ImplementsLifecycle == Spec => Refined
<1> DEFINE keptNow == [e \in Evidence |-> IF e \in deleted THEN Tombstone ELSE records[e]]
<1>1. Init => Lifecycle!Init
  BY DEF Init, Lifecycle!Init
<1>2. IInv /\ IInv' /\ [Next]_vars => [Lifecycle!Next]_keptNow
  <2> SUFFICES ASSUME IInv, IInv', [Next]_vars
               PROVE  Lifecycle!Next \/ UNCHANGED keptNow
    OBVIOUS
  <2>t. TypeOK /\ TypeOK' /\ DeletedAreGone /\ DeletedAreGone'
    BY DEF IInv
  <2>k. keptNow' \in [Evidence -> Record \cup {None, Tombstone}]
    BY <2>t DEF TypeOK
  <2>1. ASSUME NEW op \in Operators, NEW q \in StoreRequests, Store(op, q)
        PROVE  Lifecycle!Next
    <3>1. /\ q.evidence \in Evidence /\ q.evidence \notin deleted /\ ~Kept(q.evidence)
          /\ deleted' = deleted
      BY <2>1, VaultAssumption DEF Store, StoreRequest
    <3>2. records'[q.evidence] \in Record
      BY <2>1, <2>t, <3>1, StoredRecord DEF Store, TypeOK
    <3>3. \A e \in Evidence : e # q.evidence => records'[e] = records[e]
      BY <2>1, <2>t DEF Store, TypeOK
    <3>4. Lifecycle!Admit({q.evidence})
      BY <2>k, <3>1, <3>2, <3>3 DEF Lifecycle!Admit, Kept
    <3>5. QED
      BY <3>1, <3>4 DEF Lifecycle!Next
  <2>2. ASSUME NEW op \in Operators, NEW e \in Evidence, NEW blank \in BOOLEAN,
               Delete(op, e, blank)
        PROVE  Lifecycle!Next
    <3>1. Kept(e) /\ e \notin deleted /\ records[e] \in Record /\ deleted' = deleted \cup {e}
      BY <2>2, <2>t DEF Delete, DeletedAreGone, Kept, TypeOK
    <3>2. \A x \in Evidence : x # e => records'[x] = records[x]
      BY <2>2, <2>t DEF Delete, TypeOK
    <3>3. Lifecycle!Erase(e)
      BY <3>1, <3>2 DEF Lifecycle!Erase
    <3>4. QED
      BY <3>3 DEF Lifecycle!Next
  <2>3. ASSUME NEW op \in Operators, NEW r \in RestoreIds, CompleteRestore(op, r)
        PROVE  Lifecycle!Next
    <3> DEFINE S == {restores[r].entries[n].evidence : n \in Brought(r)}
    <3>1. Open(r) /\ deleted' = deleted
      BY <2>3 DEF CompleteRestore
    <3>2. ASSUME NEW e \in S
          PROVE  /\ e \in Evidence /\ e \notin deleted /\ ~Kept(e)
                 /\ records'[e] \in Record
      <4>1. PICK n \in Brought(r) : restores[r].entries[n].evidence = e
        OBVIOUS
      <4>2. QED
        BY <2>3, <2>t, <3>1, <4>1, BroughtAreAbsent, Completion
    <3>3. \A e \in Evidence \ S : records'[e] = records[e]
      BY <2>3, <2>t, Completion
    <3>4. S \in SUBSET Evidence
      BY <3>2
    <3> HIDE DEF S
    <3>5. \A e \in S : keptNow[e] = None
      BY <3>2 DEF Kept
    <3>6. \A e \in Evidence :
            IF e \in S THEN keptNow'[e] \in Record ELSE keptNow'[e] = keptNow[e]
      BY <3>1, <3>2, <3>3
    <3>7. QED
      BY <2>k, <3>4, <3>5, <3>6 DEF Lifecycle!Admit, Lifecycle!Next
  <2>4. CASE UNCHANGED <<records, deleted>>
    BY <2>4
  <2>5. QED
    BY <2>1, <2>2, <2>3, <2>4
       DEF Next, vars, Read, Refuse, FinishReading, BeginRestore, RecordLedgerReplay, Tick
<1>3. QED
  BY <1>1, <1>2, Inductive, PTL DEF Spec, Refined, Lifecycle!Spec
-----------------------------------------------------------------------------
(* QuarantineIsKept, for every value of the constants: nothing is kept     *)
(* that was not stored or released by a restore with all its replays.      *)
THEOREM QuarantineAlwaysKept == Spec => QuarantineIsKept
<1>1. TypeOK /\ [Next]_vars =>
        [\A e \in Evidence : ~Kept(e) /\ Kept(e)' =>
           \/ \E op \in Operators : audits' =
                Append(audits, [subject |-> e, operator |-> op, kind |-> "STORED"])
           \/ \E r \in RestoreIds :
                /\ Open(r) /\ restores[r].replayed = Ledgers
                /\ \E n \in DOMAIN restores[r].entries :
                     restores[r].entries[n] = [evidence |-> e, record |-> records'[e]]]_vars
  <2> SUFFICES ASSUME TypeOK, Next, NEW e \in Evidence, ~Kept(e), Kept(e)'
               PROVE  \/ \E op \in Operators : audits' =
                           Append(audits, [subject |-> e, operator |-> op, kind |-> "STORED"])
                      \/ \E r \in RestoreIds :
                           /\ Open(r) /\ restores[r].replayed = Ledgers
                           /\ \E n \in DOMAIN restores[r].entries :
                                restores[r].entries[n] = [evidence |-> e, record |-> records'[e]]
    OBVIOUS
  <2>1. ASSUME NEW op \in Operators, NEW q \in StoreRequests, Store(op, q)
        PROVE  audits' = Append(audits, [subject |-> e, operator |-> op, kind |-> "STORED"])
    <3>1. q.evidence = e
      BY <2>1 DEF Store, Kept, TypeOK
    <3>2. QED
      BY <2>1, <3>1 DEF Store, Audited
  <2>2. ASSUME NEW op \in Operators, NEW r \in RestoreIds, CompleteRestore(op, r)
        PROVE  /\ Open(r) /\ restores[r].replayed = Ledgers
               /\ \E n \in DOMAIN restores[r].entries :
                    restores[r].entries[n] = [evidence |-> e, record |-> records'[e]]
    <3>1. Open(r) /\ restores[r].replayed = Ledgers
      BY <2>2 DEF CompleteRestore
    <3>2. PICK n \in Brought(r) : restores[r].entries[n].evidence = e
      BY <2>2, Completion DEF Kept
    <3>3. /\ n \in DOMAIN restores[r].entries /\ restores[r].entries[n] \in Entry
          /\ records'[e] = restores[r].entries[n].record
      BY <2>2, <3>1, <3>2, BroughtAreAbsent, Completion
    <3>4. QED
      BY <3>1, <3>2, <3>3 DEF Entry
  <2>3. ~ UNCHANGED records
    BY DEF Kept
  <2>4. ASSUME NEW op \in Operators, NEW x \in Evidence, NEW blank \in BOOLEAN,
               Delete(op, x, blank)
        PROVE  FALSE
    BY <2>4 DEF Delete, Kept, TypeOK
  <2>5. QED
    BY <2>1, <2>2, <2>3, <2>4
       DEF Next, Read, Refuse, FinishReading, BeginRestore, RecordLedgerReplay, Tick
<1>2. QED
  BY <1>1, TypeCorrect, PTL DEF Spec, QuarantineIsKept

(* CompletionIsWhole, for every value of the constants: a restore is       *)
(* closed by a second reviewer, in a step that brings all of it.           *)
THEOREM CompletionAlwaysWhole == Spec => CompletionIsWhole
<1>1. TypeOK /\ [Next]_vars =>
        [\A r \in RestoreIds : Open(r) /\ ~Open(r)' =>
           /\ \A n \in DOMAIN restores[r].entries :
                LET entry == restores[r].entries[n]
                IN \/ entry.evidence \in deleted
                   \/ ~Kept(entry.evidence) /\ records'[entry.evidence] = entry.record
           /\ \E op \in Named \ {restores[r].initiator} : audits' =
                Append(audits, [subject |-> r, operator |-> op,
                                kind |-> "RESTORE_RECONCILIATION_PASSED"])]_vars
  <2> SUFFICES ASSUME TypeOK, Next, NEW r \in RestoreIds, Open(r), ~Open(r)'
               PROVE
                 /\ \A n \in DOMAIN restores[r].entries :
                      LET entry == restores[r].entries[n]
                      IN \/ entry.evidence \in deleted
                         \/ ~Kept(entry.evidence) /\ records'[entry.evidence] = entry.record
                 /\ \E op \in Named \ {restores[r].initiator} : audits' =
                      Append(audits, [subject |-> r, operator |-> op,
                                      kind |-> "RESTORE_RECONCILIATION_PASSED"])
    OBVIOUS
  <2>1. ASSUME NEW op \in Operators, NEW x \in RestoreIds, CompleteRestore(op, x)
        PROVE  /\ x = r /\ Reached(r) = DOMAIN restores[r].entries
               /\ op \in Named \ {restores[r].initiator}
               /\ audits' = Append(audits, [subject |-> r, operator |-> op,
                                            kind |-> "RESTORE_RECONCILIATION_PASSED"])
    <3>1. x = r /\ Reached(r) = DOMAIN restores[r].entries
      BY <2>1 DEF CompleteRestore, Open, TypeOK
    <3>2. QED
      BY <2>1, <3>1 DEF CompleteRestore, HasRole, Audited
  <2>2. PICK op \in Operators : CompleteRestore(op, r)
    <3>1. ASSUME NEW op \in Operators, NEW x \in RestoreIds, NEW b \in Backups,
                 BeginRestore(op, x, b)
          PROVE  FALSE
      <4>1. [initiator |-> op, entries |-> b, replayed |-> {}] # None
        BY <3>1, VaultAssumption DEF BeginRestore, HasRole, Restore
      <4>2. QED
        BY <3>1, <4>1 DEF BeginRestore, Open, TypeOK
    <3>2. ASSUME NEW op \in Operators, NEW x \in RestoreIds, NEW l \in Ledgers,
                 RecordLedgerReplay(op, x, l)
          PROVE  FALSE
      <4>1. restores[x] \in Restore
        BY <3>2 DEF RecordLedgerReplay, Open, TypeOK
      <4>2. [restores[x] EXCEPT !.replayed = @ \cup {l}] \in Restore
        BY <4>1 DEF Restore
      <4>3. [restores[x] EXCEPT !.replayed = @ \cup {l}] # None
        BY <4>2, VaultAssumption
      <4>4. QED
        BY <3>2, <4>3 DEF RecordLedgerReplay, Open, TypeOK
    <3>3. ~ UNCHANGED restores
      BY DEF Open
    <3>4. QED
      BY <2>1, <3>1, <3>2, <3>3 DEF Next, Store, Read, Refuse, FinishReading, Delete, Tick
  <2>3. ASSUME NEW n \in DOMAIN restores[r].entries,
               restores[r].entries[n].evidence \notin deleted
        PROVE  LET entry == restores[r].entries[n]
               IN ~Kept(entry.evidence) /\ records'[entry.evidence] = entry.record
    <3>1. n \in Brought(r)
      BY <2>1, <2>2, <2>3 DEF Brought
    <3>2. QED
      BY <2>2, <3>1, BroughtAreAbsent, Completion
  <2>4. QED
    BY <2>1, <2>2, <2>3
<1>2. QED
  BY <1>1, TypeCorrect, PTL DEF Spec, CompletionIsWhole
=============================================================================
