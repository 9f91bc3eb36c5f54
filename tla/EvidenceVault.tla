---------------------------- MODULE EvidenceVault ----------------------------
(***************************************************************************)
(* The vault of restricted evidence: storing, reading, deleting, and the   *)
(* restores that wait in quarantine until four ledgers were replayed and a *)
(* second reviewer completes them.                                         *)
(*                                                                         *)
(* Evidence is read by a callback. It runs inside withEvidenceAccess and   *)
(* may call the vault again before it returns, so the readings in progress *)
(* form a stack. Two calls can throw after they have changed something:    *)
(* deleteEvidence, when a destination is blank, and completeRestore, when  *)
(* an entry is already kept. Any other call that throws changes nothing    *)
(* and is no step. Operators date their calls with the time it is.         *)
(*                                                                         *)
(* Plaintext, envelopes and minimization metadata are the version of a     *)
(* record. The encryption provider is external: it seals, or storing       *)
(* throws; it unseals, or a granted reading does not start.                *)
(***************************************************************************)
EXTENDS Naturals, Sequences

CONSTANTS
  Evidence, Versions, RestoreIds,
  Operators,        \* whoever calls, with or without a name
  Named,            \* the operators with an id and a name
  RolesOf,          \* the roles of each
  Ledgers,          \* REQUIRED_RESTORE_LEDGERS
  StoreRequests,    \* what custodians ask to be stored
  Backups,          \* the lists of entries restores are begun with
  Retention,        \* days from the earliest retention event to the deadline
  HoldLimit,        \* days a legal hold may last without counsel
  MaxTime,          \* bound on the clock
  MaxAudits,        \* bound on the audit trail
  MaxNesting,       \* bound on readings that nest in one another
  None,
  Tombstone         \* what deleted evidence is to EvidenceLifecycle

Instants == 0 .. MaxTime
Roles == {"EVIDENCE_CUSTODIAN", "RIGHTS_REVIEWER", "SECURITY_REVIEWER"}

\* A hold that ends after it starts, and lasts only so long without a renewal.
LegalHold ==
  {h \in [startsAt : Nat, expiresAt : Nat, renewed : BOOLEAN] :
     /\ h.startsAt < h.expiresAt
     /\ h.expiresAt > h.startsAt + HoldLimit => h.renewed}

Record ==
  [version : Versions, allowed : SUBSET Roles, deadline : Nat, hold : LegalHold \cup {None}]
Entry == [evidence : Evidence, record : Record]
StoreRequest ==
  [evidence : Evidence, version : Versions, allowed : SUBSET Roles,
   events : SUBSET Nat, hold : LegalHold \cup {None}]
Restore == [initiator : Named, entries : Seq(Entry), replayed : SUBSET Ledgers]
Kinds ==
  {"STORED", "ACCESS_GRANTED", "ACCESS_DENIED", "DELETED",
   "RESTORE_QUARANTINE_CREATED", "RESTORE_RECONCILIATION_PASSED"}
Audit == [subject : Evidence \cup RestoreIds, operator : Operators, kind : Kinds]
\* A callback that holds the plaintext, and the audit entry of its access.
Callback == [evidence : Evidence, operator : Operators, auditId : Nat]

ASSUME VaultAssumption ==
  /\ Named \subseteq Operators
  /\ RolesOf \in [Operators -> SUBSET Roles]
  /\ StoreRequests \subseteq StoreRequest
  /\ Backups \subseteq Seq(Entry)
  /\ Evidence \cap RestoreIds = {}  \* the trail files both under evidenceId
  /\ Retention \in Nat /\ HoldLimit \in Nat
  /\ MaxTime \in Nat /\ MaxAudits \in Nat /\ MaxNesting \in Nat
  /\ None \notin Record \cup Restore \cup LegalHold

VARIABLES
  now,
  records,   \* #records
  deleted,   \* #deletedEvidenceIds
  restores,  \* #restores
  audits,    \* #audits
  readings   \* the callbacks that hold plaintext, innermost last

vars == <<now, records, deleted, restores, audits, readings>>

Kept(e) == records[e] # None
Open(r) == restores[r] # None
HasRole(op, role) == op \in Named /\ role \in RolesOf[op]

Audited(subject, op, kind) ==
  /\ Len(audits) < MaxAudits
  /\ audits' = Append(audits, [subject |-> subject, operator |-> op, kind |-> kind])
-----------------------------------------------------------------------------
(* Storing and reading.                                                    *)

\* Ninety days after the earliest of the events.
RetentionDeadline(events) ==
  (CHOOSE t \in events : \A s \in events : t <= s) + Retention

Store(op, q) ==
  /\ HasRole(op, "EVIDENCE_CUSTODIAN")
  /\ ~Kept(q.evidence) /\ q.evidence \notin deleted
  /\ q.allowed # {} /\ q.events # {}
  /\ records' = [records EXCEPT ![q.evidence] =
       [version |-> q.version, allowed |-> q.allowed,
        deadline |-> RetentionDeadline(q.events), hold |-> q.hold]]
  /\ Audited(q.evidence, op, "STORED")
  /\ UNCHANGED <<now, deleted, restores, readings>>

\* That the purpose of a request is one the vault knows is a choice here.
MayRead(op, e, purposeKnown) ==
  /\ op \in Named
  /\ Kept(e)
  /\ RolesOf[op] \cap records[e].allowed # {}
  /\ purposeKnown
  /\ now < records[e].deadline

Reading(op, e) == [evidence |-> e, operator |-> op, auditId |-> Len(audits) + 1]

ReadUnaudited(op, e) == \* Fault: the access is audited once the callback has returned.
  /\ MayRead(op, e, TRUE)
  /\ Len(readings) < MaxNesting
  /\ readings' = Append(readings, Reading(op, e))
  /\ UNCHANGED <<now, records, deleted, restores, audits>>

\* The access is audited, then the envelope unsealed, unless that throws.
Read(op, e) ==
  /\ MayRead(op, e, TRUE)
  /\ Len(readings) < MaxNesting
  /\ Audited(e, op, "ACCESS_GRANTED")
  /\ \/ readings' = Append(readings, Reading(op, e))
     \/ UNCHANGED readings
  /\ UNCHANGED <<now, records, deleted, restores>>

Refuse(op, e, purposeKnown) ==
  /\ ~MayRead(op, e, purposeKnown)
  /\ Audited(e, op, "ACCESS_DENIED")
  /\ UNCHANGED <<now, records, deleted, restores, readings>>

\* The innermost callback returns or throws, and its plaintext is gone.
FinishReading ==
  /\ readings # << >>
  /\ readings' = SubSeq(readings, 1, Len(readings) - 1)
  /\ UNCHANGED <<now, records, deleted, restores, audits>>
-----------------------------------------------------------------------------
(* Deleting.                                                               *)

Held(e) == records[e].hold # None /\ records[e].hold.expiresAt > now

\* With a blank destination the call throws after the evidence is gone.
Delete(op, e, blank) ==
  /\ HasRole(op, "EVIDENCE_CUSTODIAN")
  /\ Kept(e) /\ ~Held(e)
  /\ records' = [records EXCEPT ![e] = None]
  /\ deleted' = deleted \cup {e}
  /\ IF blank THEN UNCHANGED audits ELSE Audited(e, op, "DELETED")
  /\ UNCHANGED <<now, restores, readings>>
-----------------------------------------------------------------------------
(* Restoring.                                                              *)

BeginRestore(op, r, entries) ==
  /\ HasRole(op, "SECURITY_REVIEWER")
  /\ ~Open(r)
  /\ restores' = [restores EXCEPT ![r] =
       [initiator |-> op, entries |-> entries, replayed |-> {}]]
  /\ Audited(r, op, "RESTORE_QUARANTINE_CREATED")
  /\ UNCHANGED <<now, records, deleted, readings>>

RecordLedgerReplay(op, r, ledger) ==
  /\ HasRole(op, "SECURITY_REVIEWER")
  /\ Open(r)
  /\ restores' = [restores EXCEPT ![r].replayed = @ \cup {ledger}]
  /\ UNCHANGED <<now, records, deleted, audits, readings>>

\* Fault: an entry that is already kept is passed over.
NeverBlocked(r, n) == FALSE
\* An entry that is kept already, or that an earlier one has brought, throws.
Blocked(r, n) ==
  LET entries == restores[r].entries  e == entries[n].evidence
  IN e \notin deleted /\ (Kept(e) \/ \E m \in 1 .. n - 1 : entries[m].evidence = e)

\* The entries the loop gets through, and those of them it brings back.
Reached(r) == {n \in DOMAIN restores[r].entries : \A m \in 1 .. n : ~Blocked(r, m)}
BroughtOverTombstones(r) == Reached(r) \* Fault: what was deleted comes back.
Brought(r) == {n \in Reached(r) : restores[r].entries[n].evidence \notin deleted}
BroughtRecord(r, e) ==
  restores[r].entries[CHOOSE n \in Brought(r) : restores[r].entries[n].evidence = e].record

CompleteUnreplayed(op, r) == \* Fault: the replays of the ledgers are not asked for.
  /\ HasRole(op, "SECURITY_REVIEWER")
  /\ Open(r)
  /\ op # restores[r].initiator
  /\ records' = [e \in Evidence |->
       IF \E n \in Brought(r) : restores[r].entries[n].evidence = e
       THEN BroughtRecord(r, e) ELSE records[e]]
  /\ IF Reached(r) = DOMAIN restores[r].entries
     THEN /\ restores' = [restores EXCEPT ![r] = None]
          /\ Audited(r, op, "RESTORE_RECONCILIATION_PASSED")
     ELSE UNCHANGED <<restores, audits>>
  /\ UNCHANGED <<now, deleted, readings>>

(* The restore is closed and audited only when the loop got to its end; if *)
(* not, what it has brought back stays and the restore stays open.         *)
CompleteRestore(op, r) ==
  /\ HasRole(op, "SECURITY_REVIEWER")
  /\ Open(r)
  /\ restores[r].replayed = Ledgers
  /\ op # restores[r].initiator
  /\ records' = [e \in Evidence |->
       IF \E n \in Brought(r) : restores[r].entries[n].evidence = e
       THEN BroughtRecord(r, e) ELSE records[e]]
  /\ IF Reached(r) = DOMAIN restores[r].entries
     THEN /\ restores' = [restores EXCEPT ![r] = None]
          /\ Audited(r, op, "RESTORE_RECONCILIATION_PASSED")
     ELSE UNCHANGED <<restores, audits>>
  /\ UNCHANGED <<now, deleted, readings>>
-----------------------------------------------------------------------------
Tick ==
  /\ now < MaxTime
  /\ now' = now + 1
  /\ UNCHANGED <<records, deleted, restores, audits, readings>>

Init ==
  /\ now = 0
  /\ records = [e \in Evidence |-> None]
  /\ deleted = {}
  /\ restores = [r \in RestoreIds |-> None]
  /\ audits = << >>
  /\ readings = << >>

Next ==
  \/ \E op \in Operators, q \in StoreRequests : Store(op, q)
  \/ \E op \in Operators, e \in Evidence : Read(op, e)
  \/ \E op \in Operators, e \in Evidence, purposeKnown \in BOOLEAN : Refuse(op, e, purposeKnown)
  \/ FinishReading
  \/ \E op \in Operators, e \in Evidence, blank \in BOOLEAN : Delete(op, e, blank)
  \/ \E op \in Operators, r \in RestoreIds, b \in Backups : BeginRestore(op, r, b)
  \/ \E op \in Operators, r \in RestoreIds, l \in Ledgers : RecordLedgerReplay(op, r, l)
  \/ \E op \in Operators, r \in RestoreIds : CompleteRestore(op, r)
  \/ Tick

Spec == Init /\ [][Next]_vars
-----------------------------------------------------------------------------
(* Properties.                                                             *)

\* Every variable keeps its type.
TypeOK ==
  /\ now \in Instants
  /\ records \in [Evidence -> Record \cup {None}]
  /\ deleted \subseteq Evidence
  /\ restores \in [RestoreIds -> Restore \cup {None}]
  /\ audits \in Seq(Audit)
  /\ readings \in Seq(Callback)

(* The vault implements EvidenceLifecycle: through deletions, restores and *)
(* restores that stop halfway, evidence that was deleted stays so and what *)
(* is kept is never overwritten (deletedEvidenceIds and the checks of      *)
(* store and of the loop of completeRestore).                              *)
Lifecycle == INSTANCE EvidenceLifecycle WITH
  Contents <- Record, Absent <- None, Deleted <- Tombstone,
  kept <- [e \in Evidence |-> IF e \in deleted THEN Tombstone ELSE records[e]]
Refined == Lifecycle!Spec

(* Data in quarantine cannot be reached (NFR-013 of the contract): what    *)
(* begins to be kept was stored in that step, or comes from a restore all  *)
(* of whose ledgers have been replayed, even if that restore stops halfway *)
(* (completeRestore).                                                      *)
QuarantineIsKept ==
  [][\A e \in Evidence : ~Kept(e) /\ Kept(e)' =>
       \/ \E op \in Operators : audits' =
            Append(audits, [subject |-> e, operator |-> op, kind |-> "STORED"])
       \/ \E r \in RestoreIds :
            /\ Open(r) /\ restores[r].replayed = Ledgers
            /\ \E n \in DOMAIN restores[r].entries :
                 restores[r].entries[n] = [evidence |-> e, record |-> records'[e]]]_vars

(* A restore that is closed was completed by someone other than whoever    *)
(* began it, and brought all of its entries in that one step, save those   *)
(* deleted in the meantime; so one that stopped halfway is not closed      *)
(* until what it brought has been deleted again (completeRestore).         *)
CompletionIsWhole ==
  [][\A r \in RestoreIds : Open(r) /\ ~Open(r)' =>
       /\ \A n \in DOMAIN restores[r].entries :
            LET entry == restores[r].entries[n]
            IN \/ entry.evidence \in deleted
               \/ ~Kept(entry.evidence) /\ records'[entry.evidence] = entry.record
       /\ \E op \in Named \ {restores[r].initiator} : audits' =
            Append(audits, [subject |-> r, operator |-> op,
                            kind |-> "RESTORE_RECONCILIATION_PASSED"])]_vars

NothingFollowsADeletion ==
  \A m, n \in DOMAIN audits :
    m < n /\ audits[m].kind = "DELETED" /\ audits[n].subject = audits[m].subject
      => audits[n].kind = "ACCESS_DENIED"
ReadingsAreAudited ==
  \A m \in DOMAIN readings :
    LET id == readings[m].auditId
    IN /\ id \in DOMAIN audits
       /\ audits[id] = [subject |-> readings[m].evidence,
                        operator |-> readings[m].operator, kind |-> "ACCESS_GRANTED"]
       /\ \A n \in DOMAIN readings : readings[n].auditId = id => n = m

(* The trail is a true story of the evidence: after its deletion nothing   *)
(* is stored, read or deleted under its id, whatever is restored; and a    *)
(* callback that holds plaintext has its own entry, also when it was       *)
(* called from within another one (withEvidenceAccess, deleteEvidence).    *)
AuditTrailIsTrue == NothingFollowsADeletion /\ ReadingsAreAudited

(* The contract: privileged actions require "append-only audit records for *)
(* [...] deletion, restore" (NFR-006).                                     *)
DeletionsAreAudited ==
  \A e \in deleted : \E n \in DOMAIN audits :
    audits[n].subject = e /\ audits[n].kind = "DELETED"
=============================================================================
