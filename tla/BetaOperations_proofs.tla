------------------------ MODULE BetaOperations_proofs ------------------------
(***************************************************************************)
(* Proofs about the operations of the beta, part by part, for any values   *)
(* of their constants. A part is disturbed by its own steps only, so each  *)
(* invariant is proved of the part's own actions and carried over to the   *)
(* steps of the whole.                                                     *)
(***************************************************************************)
EXTENDS BetaOperations, SequenceTheorems, FiniteSetTheorems, WellFoundedInduction, TLAPS

-----------------------------------------------------------------------------
(* The consent ledger.                                                     *)

\* A consent or an eligibility on file was recorded as a fact.
LedgerInv ==
  /\ Ledger!AnalysisFollowsFacts
  /\ Ledger!ActivationIsEarned
  /\ consent # None => "CONSENTED" \in facts
  /\ eligibility # None => "ELIGIBLE" \in facts

LEMMA ExclusionKinds ==
  Ledger!Exclusions = {"INELIGIBLE", "TESTER", "WITHDRAWAL_RECORDED",
                       "DUPLICATE_LINEAGE_RECORDED", "SIGNED_INTEGRITY_EXCLUSION"}
BY DEF Ledger!Exclusions, Ledger!ExclusionReason

LEMMA LedgerInit ==
  ASSUME Ledger!Init PROVE LedgerInv
BY DEF Ledger!Init, LedgerInv, Ledger!AnalysisFollowsFacts, Ledger!ActivationIsEarned,
       Ledger!AnalysisEligible

\* A record follows from all facts: one that excludes, or completes, changes it.
LEMMA AnalysisAfterFollows ==
  ASSUME Ledger!AnalysisFollowsFacts, NEW kind
  PROVE  Ledger!AnalysisAfter(kind, facts \cup {kind}).state =
           IF (facts \cup {kind}) \cap Ledger!Exclusions # {} THEN "EXCLUDED"
           ELSE IF Ledger!AnalysisEligible(facts \cup {kind}) THEN "INCLUDED" ELSE "PENDING"
<1>1. CASE kind \in Ledger!Exclusions
  BY <1>1 DEF Ledger!AnalysisAfter, Ledger!AnalysisFollowsFacts
<1>2. CASE kind \notin Ledger!Exclusions
  <2>1. (facts \cup {kind}) \cap Ledger!Exclusions = facts \cap Ledger!Exclusions
    BY <1>2
  <2>2. Ledger!AnalysisEligible(facts) => Ledger!AnalysisEligible(facts \cup {kind})
    BY DEF Ledger!AnalysisEligible
  <2>3. QED
    BY <1>2, <2>1, <2>2 DEF Ledger!AnalysisAfter, Ledger!AnalysisFollowsFacts
<1>3. QED
  BY <1>1, <1>2

LEMMA LedgerNext ==
  ASSUME LedgerInv, Ledger!Next PROVE LedgerInv'
<1>1. ASSUME NEW p \in Policies, Ledger!Register(p)
      PROVE  LedgerInv'
  BY <1>1 DEF LedgerInv, Ledger!Register, Ledger!AnalysisFollowsFacts, Ledger!ActivationIsEarned,
              Ledger!AnalysisEligible
<1>2. ASSUME NEW kind \in Kinds, NEW v \in PolicyVersions, Ledger!RecordFact(kind, v)
      PROVE  LedgerInv'
  <2>1. Ledger!AnalysisFollowsFacts'
    <3>1. analysis' = Ledger!AnalysisAfter(kind, facts \cup {kind}) /\ facts' = facts \cup {kind}
      BY <1>2 DEF Ledger!RecordFact
    <3>2. QED
      BY <3>1, AnalysisAfterFollows DEF LedgerInv, Ledger!AnalysisFollowsFacts, Ledger!AnalysisEligible
  <2>2. Ledger!ActivationIsEarned'
    BY <1>2 DEF LedgerInv, Ledger!RecordFact, Ledger!ActivationEligible, Ledger!ActivationIsEarned
  <2>3. /\ consent' # None => "CONSENTED" \in facts'
        /\ eligibility' # None => "ELIGIBLE" \in facts'
    BY <1>2 DEF LedgerInv, Ledger!RecordFact
  <2>4. QED
    BY <2>1, <2>2, <2>3 DEF LedgerInv
<1>3. QED
  BY <1>1, <1>2 DEF Ledger!Next

(* Whether play counts follows from the facts, in whatever order they      *)
(* came, and only the enrolled who consented are ever activated            *)
(* (ParticipantStateLedger.record).                                        *)
THEOREM AnalysisAlwaysFollows == Spec => []AnalysisFollowsFacts
<1>1. Init => LedgerInv
  BY LedgerInit DEF Init
<1>2. LedgerInv /\ [Next]_vars => LedgerInv'
  <2> SUFFICES ASSUME LedgerInv, [Next]_vars PROVE LedgerInv'
    OBVIOUS
  <2>1. CASE LedgerStep
    BY <2>1, LedgerNext DEF LedgerStep
  <2>2. CASE UNCHANGED ledger
    BY <2>2 DEF ledger, LedgerInv, Ledger!AnalysisFollowsFacts, Ledger!ActivationIsEarned,
                Ledger!AnalysisEligible
  <2>3. QED
    BY <2>1, <2>2 DEF Next, vars, GateStep, BookStep, SessionStep, EnrollmentStep, WithdrawalStep,
                      HoldStep, ComplaintStep, OutageStep, RestoreStep
<1>3. LedgerInv => AnalysisFollowsFacts
  BY DEF LedgerInv, AnalysisFollowsFacts
<1>4. QED
  BY <1>1, <1>2, <1>3, PTL DEF Spec
-----------------------------------------------------------------------------
(* Restores.                                                               *)

\* The vault did what the state says: exposed is what reconciliation included.
Kept(id) ==
  /\ states[id] # None =>
       /\ vault[id].sealed
       /\ states[id].reconciledAt # None =>
            /\ Restore!Complete(id)
            /\ Restore!EndsWithOrder(vault[id].applied)
            /\ states[id].included = states[id].copies \ Restore!Excluded(id)
  /\ vault[id].exposed # None =>
       /\ states[id] # None /\ states[id].reconciledAt # None
       /\ vault[id].exposed = states[id].included

RestoreInv == Restore!TypeOK /\ \A id \in RestoreIds : Kept(id)

\* Whatever was applied before, ORDER applied after it is at the end.
LEMMA OrderAtTheEnd ==
  ASSUME NEW s \in Seq(Ledgers) PROVE Restore!EndsWithOrder(s \o ORDER) /\ s \o ORDER \in Seq(Ledgers)
<1>1. ORDER \in Seq(Ledgers)
  BY OperationsAssumption DEF Restore!OrderAssumption
<1>2. /\ s \o ORDER \in Seq(Ledgers)
      /\ Len(s \o ORDER) = Len(s) + Len(ORDER)
      /\ Len(s) \in Nat /\ Len(ORDER) \in Nat
  BY <1>1, ConcatProperties, LenProperties
<1>3. SubSeq(s \o ORDER, Len(s) + 1, Len(s) + Len(ORDER)) = ORDER
  <2>1. CASE Len(ORDER) = 0
    <3>1. ORDER = << >>
      BY <1>1, <2>1, EmptySeq
    <3>2. Len(s) + Len(ORDER) < Len(s) + 1
      BY <1>2, <2>1
    <3>3. QED
      BY <1>2, <3>1, <3>2, SubSeqEmpty
  <2>2. CASE Len(ORDER) # 0
    <3>1. /\ Len(s) + 1 \in Len(s) + 1 .. Len(s) + Len(ORDER)
          /\ Len(s) + Len(ORDER) \in Len(s) + 1 .. Len(s) + Len(ORDER)
      BY <1>2, <2>2
    <3>2. SubSeq(s \o ORDER, Len(s) + 1, Len(s) + Len(ORDER))
            = SubSeq(ORDER, (Len(s) + 1) - Len(s), (Len(s) + Len(ORDER)) - Len(s))
      BY <1>1, <3>1, SubSeqOfConcat2
    <3>3. (Len(s) + 1) - Len(s) = 1 /\ (Len(s) + Len(ORDER)) - Len(s) = Len(ORDER)
      BY <1>2
    <3>4. QED
      BY <1>1, <3>2, <3>3, SubSeqFull
  <2>3. QED
    BY <2>1, <2>2
<1>4. Len(s \o ORDER) - Len(ORDER) + 1 = Len(s) + 1
  BY <1>2
<1>5. QED
  BY <1>2, <1>3, <1>4 DEF Restore!EndsWithOrder

LEMMA RestoreInit ==
  ASSUME Restore!Init PROVE RestoreInv
<1>1. Restore!TypeOK
  <2> DEFINE nothing == << >>
  <2>1. nothing \in Seq(Ledgers)
    BY EmptySeq
  <2>2. states \in [RestoreIds -> {None} \cup Restore!Restoration]
    BY DEF Restore!Init
  <2> DEFINE Untouched == [sealed |-> FALSE, applied |-> nothing, exposed |-> None]
             Vault == [sealed : BOOLEAN, applied : Seq(Ledgers), exposed : (SUBSET Copies) \cup {None}]
  <2>3. Untouched \in Vault
    <3> HIDE DEF nothing
    <3>1. QED
      BY <2>1
  <2>4. vault = [id \in RestoreIds |-> Untouched]
    BY DEF Restore!Init
  <2>5. vault \in [RestoreIds -> Vault]
    <3> HIDE DEF Untouched, Vault
    <3>1. QED
      BY <2>3, <2>4
  <2>6. QED
    BY <2>2, <2>5 DEF Restore!TypeOK
<1>2. \A id \in RestoreIds : Kept(id)
  BY DEF Restore!Init, Kept
<1>3. QED
  BY <1>1, <1>2 DEF RestoreInv

\* What a restore is depends on its own state and on its part of the vault.
LEMMA OthersKept ==
  ASSUME NEW id \in RestoreIds, Kept(id), states'[id] = states[id], vault'[id] = vault[id]
  PROVE  Kept(id)'
BY DEF Kept, Restore!Complete, Restore!Excluded, Restore!EndsWithOrder

LEMMA BeginKept ==
  ASSUME RestoreInv, NEW id \in RestoreIds, NEW actor \in Actors, NEW at \in Times,
         NEW copies \in SUBSET Copies, NEW port \in Restore!Answers,
         Restore!Begin(id, actor, copies, at, port)
  PROVE  RestoreInv'
<1> DEFINE fresh == [copies |-> copies, startedAt |-> at, evidence |-> [g \in Ledgers |-> None],
                     reconciledAt |-> None, released |-> FALSE, included |-> {}]
<1>1. fresh \in Restore!Restoration
  BY DEF Restore!Restoration
<1>2. /\ states' = IF port # "done" THEN states ELSE [states EXCEPT ![id] = fresh]
      /\ vault' = IF port = "refused" THEN vault ELSE [vault EXCEPT ![id].sealed = TRUE]
      /\ states[id] = None
  BY DEF Restore!Begin
<1>3. fresh.reconciledAt = None
  OBVIOUS
<1> HIDE DEF fresh
<1>4. Restore!TypeOK'
  BY <1>1, <1>2 DEF RestoreInv, Restore!TypeOK
<1>5. ASSUME NEW j \in RestoreIds PROVE Kept(j)'
  <2>1. CASE j # id
    <3>1. states'[j] = states[j] /\ vault'[j] = vault[j]
      BY <1>2, <2>1 DEF RestoreInv, Restore!TypeOK
    <3>2. QED
      BY <3>1, OthersKept DEF RestoreInv
  <2>2. CASE j = id
    <3>1. vault'[id].exposed = None
      BY <1>2 DEF RestoreInv, Restore!TypeOK, Kept
    <3>2. states'[id] # None => vault'[id].sealed /\ states'[id].reconciledAt = None
      BY <1>2, <1>3 DEF RestoreInv, Restore!TypeOK, Restore!Answers
    <3>3. QED
      BY <2>2, <3>1, <3>2 DEF Kept
  <2>3. QED
    BY <2>1, <2>2
<1>6. QED
  BY <1>4, <1>5 DEF RestoreInv

LEMMA ReplayKept ==
  ASSUME RestoreInv, NEW id \in RestoreIds, NEW actor \in Actors, NEW at \in Times,
         NEW g \in Ledgers, NEW w \in Watermarks, NEW effects \in SUBSET Copies,
         Restore!RecordReplay(id, actor, g, w, effects, at)
  PROVE  RestoreInv'
<1> DEFINE entry == [effects |-> effects, at |-> at]
           replayed == [states[id] EXCEPT !.evidence[g] = entry]
<1>1. /\ states[id] # None /\ states[id] \in Restore!Restoration
      /\ states[id].evidence[g] = None
      /\ vault' = vault
      /\ states' = [states EXCEPT ![id] = replayed]
  BY DEF Restore!RecordReplay, RestoreInv, Restore!TypeOK
<1>2. entry \in Restore!Evidence
  BY DEF Restore!Evidence
<1> HIDE DEF entry
<1>3. replayed \in Restore!Restoration
  BY <1>1, <1>2 DEF Restore!Restoration
<1>4. states[id].reconciledAt = None
  BY <1>1 DEF RestoreInv, Kept, Restore!Complete
<1>5. replayed.reconciledAt = None
  BY <1>1, <1>4 DEF Restore!Restoration
<1> HIDE DEF replayed
<1>6. Restore!TypeOK'
  BY <1>1, <1>3 DEF RestoreInv, Restore!TypeOK
<1>7. ASSUME NEW j \in RestoreIds PROVE Kept(j)'
  <2>1. CASE j # id
    BY <1>1, <2>1, OthersKept DEF RestoreInv, Restore!TypeOK
  <2>2. CASE j = id
    <3>1. states'[id].reconciledAt = None
      BY <1>1, <1>5 DEF RestoreInv, Restore!TypeOK
    <3>2. vault'[id].exposed = None /\ vault'[id].sealed
      BY <1>1, <1>4 DEF RestoreInv, Kept
    <3>3. QED
      BY <2>2, <3>1, <3>2 DEF Kept
  <2>3. QED
    BY <2>1, <2>2
<1>8. QED
  BY <1>6, <1>7 DEF RestoreInv

\* Before the reconciliation nothing is exposed and the ledgers may be applied.
LEMMA ReconcilableState ==
  ASSUME RestoreInv, NEW id \in RestoreIds, NEW actor, NEW at, Restore!Reconcilable(id, actor, at)
  PROVE  /\ states[id] # None /\ states[id] \in Restore!Restoration
         /\ states[id].reconciledAt = None /\ Restore!Complete(id)
         /\ vault[id].exposed = None /\ vault[id].sealed
BY DEF Restore!Reconcilable, RestoreInv, Restore!TypeOK, Kept

LEMMA ReconcileKept ==
  ASSUME RestoreInv, NEW id \in RestoreIds, NEW actor \in Actors, NEW at \in Times,
         Restore!Reconcile(id, actor, at)
  PROVE  RestoreInv'
<1> DEFINE included == states[id].copies \ Restore!Excluded(id)
           reconciled == [states[id] EXCEPT !.reconciledAt = at, !.included = included]
           applied == vault[id].applied \o ORDER
<1>1. /\ states[id] # None /\ states[id] \in Restore!Restoration
      /\ states[id].reconciledAt = None /\ Restore!Complete(id)
      /\ vault[id].exposed = None /\ vault[id].sealed
  BY ReconcilableState DEF Restore!Reconcile
<1>2. /\ vault' = [vault EXCEPT ![id].applied = applied]
      /\ states' = [states EXCEPT ![id] = reconciled]
  BY <1>1 DEF Restore!Reconcile, Restore!Apply, RestoreInv, Restore!TypeOK
<1>3. applied \in Seq(Ledgers) /\ Restore!EndsWithOrder(applied)
  BY OrderAtTheEnd DEF RestoreInv, Restore!TypeOK
<1>4. reconciled \in Restore!Restoration
  BY <1>1 DEF Restore!Restoration
<1>5. /\ reconciled.copies = states[id].copies /\ reconciled.evidence = states[id].evidence
      /\ reconciled.included = included
  BY <1>1 DEF Restore!Restoration
<1> HIDE DEF reconciled, applied
<1>6. states'[id] = reconciled /\ vault'[id] = [vault[id] EXCEPT !.applied = applied]
  BY <1>2 DEF RestoreInv, Restore!TypeOK
<1>7. Restore!TypeOK'
  BY <1>2, <1>3, <1>4 DEF RestoreInv, Restore!TypeOK
<1>8. ASSUME NEW j \in RestoreIds PROVE Kept(j)'
  <2>1. CASE j # id
    BY <1>2, <2>1, OthersKept DEF RestoreInv, Restore!TypeOK
  <2>2. CASE j = id
    <3>1. /\ vault'[id].exposed = None /\ vault'[id].sealed /\ vault'[id].applied = applied
      BY <1>1, <1>6 DEF RestoreInv, Restore!TypeOK
    <3>2. Restore!Complete(id)' /\ Restore!Excluded(id)' = Restore!Excluded(id)
      BY <1>1, <1>5, <1>6 DEF Restore!Complete, Restore!Excluded
    <3>3. Restore!EndsWithOrder(vault'[id].applied)
      BY <1>3, <3>1
    <3>4. states'[id].included = states'[id].copies \ Restore!Excluded(id)'
      BY <1>5, <1>6, <3>2
    <3>5. QED
      BY <2>2, <3>1, <3>2, <3>3, <3>4 DEF Kept, Restore!EndsWithOrder
  <2>3. QED
    BY <2>1, <2>2
<1>9. QED
  BY <1>7, <1>8 DEF RestoreInv

LEMMA ReconcileThrowsKept ==
  ASSUME RestoreInv, NEW id \in RestoreIds, NEW actor \in Actors, NEW at \in Times,
         NEW n \in 0..Len(ORDER), Restore!ReconcileThrows(id, actor, at, n)
  PROVE  RestoreInv'
<1> DEFINE applied == vault[id].applied \o SubSeq(ORDER, 1, n)
<1>1. /\ states[id].reconciledAt = None /\ vault[id].exposed = None /\ vault[id].sealed
  BY ReconcilableState DEF Restore!ReconcileThrows
<1>2. vault' = [vault EXCEPT ![id].applied = applied] /\ states' = states
  BY DEF Restore!ReconcileThrows, Restore!Apply, RestoreInv, Restore!TypeOK
<1>3. applied \in Seq(Ledgers)
  <2>1. ORDER \in Seq(Ledgers) /\ Len(ORDER) \in Nat
    BY OperationsAssumption, LenProperties DEF Restore!OrderAssumption
  <2>2. \A i \in 1..n : ORDER[i] \in Ledgers
    BY <2>1, ElementOfSeq
  <2>3. SubSeq(ORDER, 1, n) \in Seq(Ledgers)
    BY <2>1, <2>2, SubSeqProperties
  <2>4. QED
    BY <2>3, ConcatProperties DEF RestoreInv, Restore!TypeOK
<1> HIDE DEF applied
<1>4. Restore!TypeOK'
  BY <1>2, <1>3 DEF RestoreInv, Restore!TypeOK
<1>5. ASSUME NEW j \in RestoreIds PROVE Kept(j)'
  <2>1. CASE j # id
    BY <1>2, <2>1, OthersKept DEF RestoreInv, Restore!TypeOK
  <2>2. CASE j = id
    <3>1. vault'[id].exposed = None /\ vault'[id].sealed
      BY <1>1, <1>2 DEF RestoreInv, Restore!TypeOK
    <3>2. QED
      BY <1>1, <1>2, <2>2, <3>1 DEF Kept
  <2>3. QED
    BY <2>1, <2>2
<1>6. QED
  BY <1>4, <1>5 DEF RestoreInv

LEMMA ReleaseKept ==
  ASSUME RestoreInv, NEW id \in RestoreIds, NEW actor \in Actors, NEW at \in Times,
         NEW port \in Restore!Answers, Restore!Release(id, actor, at, port)
  PROVE  RestoreInv'
<1> DEFINE released == [states[id] EXCEPT !.released = TRUE]
<1>1. /\ states[id] # None /\ states[id].reconciledAt # None
      /\ states[id] \in Restore!Restoration
      /\ states' = IF port = "done" THEN [states EXCEPT ![id] = released] ELSE states
      /\ vault' = IF port = "refused" THEN vault
                  ELSE [vault EXCEPT ![id].exposed = states[id].included]
  BY DEF Restore!Release, RestoreInv, Restore!TypeOK
<1>2. /\ released \in Restore!Restoration
      /\ released.copies = states[id].copies /\ released.evidence = states[id].evidence
      /\ released.included = states[id].included
      /\ released.reconciledAt = states[id].reconciledAt
      /\ states[id].included \in SUBSET Copies
  BY <1>1 DEF Restore!Restoration
<1>3. None \notin Restore!Restoration
  BY OperationsAssumption DEF Restore!NoneAssumption
<1> HIDE DEF released
<1>4. Restore!TypeOK'
  BY <1>1, <1>2 DEF RestoreInv, Restore!TypeOK
<1>5. ASSUME NEW j \in RestoreIds PROVE Kept(j)'
  <2>1. CASE j # id
    <3>1. states'[j] = states[j] /\ vault'[j] = vault[j]
      BY <1>1, <2>1 DEF RestoreInv, Restore!TypeOK
    <3>2. QED
      BY <3>1, OthersKept DEF RestoreInv
  <2>2. CASE j = id
    <3>1. states'[id] = IF port = "done" THEN released ELSE states[id]
      BY <1>1 DEF RestoreInv, Restore!TypeOK
    <3>2. /\ vault'[id].sealed = vault[id].sealed /\ vault'[id].applied = vault[id].applied
          /\ vault'[id].exposed \in {vault[id].exposed, states[id].included}
      BY <1>1 DEF RestoreInv, Restore!TypeOK
    <3>3. /\ states'[id] # None /\ states'[id].copies = states[id].copies
          /\ states'[id].evidence = states[id].evidence
          /\ states'[id].included = states[id].included
          /\ states'[id].reconciledAt = states[id].reconciledAt
      BY <1>1, <1>2, <1>3, <3>1
    <3>4. /\ Restore!Complete(id)' <=> Restore!Complete(id)
          /\ Restore!Excluded(id)' = Restore!Excluded(id)
      BY <3>3 DEF Restore!Complete, Restore!Excluded
    <3>5. Restore!EndsWithOrder(vault[id].applied)' <=> Restore!EndsWithOrder(vault[id].applied)
      BY <3>2 DEF Restore!EndsWithOrder
    <3>6. /\ vault[id].sealed /\ Restore!Complete(id)
          /\ Restore!EndsWithOrder(vault[id].applied)
          /\ states[id].included = states[id].copies \ Restore!Excluded(id)
          /\ vault[id].exposed # None => vault[id].exposed = states[id].included
      BY <1>1 DEF RestoreInv, Kept
    <3>7. QED
      BY <1>1, <2>2, <3>2, <3>3, <3>4, <3>5, <3>6 DEF Kept
  <2>3. QED
    BY <2>1, <2>2
<1>6. QED
  BY <1>4, <1>5 DEF RestoreInv

LEMMA RestoreNext ==
  ASSUME RestoreInv, Restore!Next PROVE RestoreInv'
BY BeginKept, ReplayKept, ReconcileKept, ReconcileThrowsKept, ReleaseKept DEF Restore!Next

(* The vault exposes nothing before every ledger was applied in order, and *)
(* then no copy a ledger excludes, whatever calls of it throw              *)
(* (RestoreCoordinator.reconcile, release).                                *)
THEOREM ExposedAlwaysReconciled == Spec => []ExposedIsReconciled
<1>1. Init => RestoreInv
  BY RestoreInit DEF Init
<1>2. RestoreInv /\ [Next]_vars => RestoreInv'
  <2> SUFFICES ASSUME RestoreInv, [Next]_vars PROVE RestoreInv'
    OBVIOUS
  <2>1. CASE RestoreStep
    BY <2>1, RestoreNext DEF RestoreStep
  <2>2. CASE UNCHANGED restores
    <3>1. states' = states /\ vault' = vault
      BY <2>2 DEF restores
    <3>2. QED
      BY <3>1, OthersKept DEF RestoreInv, Restore!TypeOK
  <2>3. QED
    BY <2>1, <2>2 DEF Next, vars, GateStep, BookStep, SessionStep, EnrollmentStep, WithdrawalStep,
                      HoldStep, LedgerStep, ComplaintStep, OutageStep
<1>3. RestoreInv => ExposedIsReconciled
  BY DEF RestoreInv, Restore!TypeOK, Kept, ExposedIsReconciled, Restore!ExposedIsReconciled,
         Restore!Restoration
<1>4. QED
  BY <1>1, <1>2, <1>3, PTL DEF Spec
-----------------------------------------------------------------------------
(* Withdrawals.                                                            *)

\* An entry is marked as missed exactly when its step was late, and a dated step is entered once.
Dated(c) ==
  cases[c] # None =>
    /\ \A e \in cases[c].history :
         e.missed <=> e.step \in Withdrawal!DatedSteps /\ e.at > Withdrawal!Due(c, e.step)
    /\ \A e, f \in cases[c].history :
         e.step = f.step /\ e.step \in Withdrawal!DatedSteps => e = f

WithdrawalInv ==
  /\ Withdrawal!TypeOK
  /\ Withdrawal!WithdrawnIsWhole
  /\ \A c \in CaseIds : Dated(c)

LEMMA WithdrawalInit ==
  ASSUME Withdrawal!Init PROVE WithdrawalInv
BY DEF Withdrawal!Init, WithdrawalInv, Withdrawal!TypeOK, Withdrawal!WithdrawnIsWhole,
       Withdrawal!OptionalTelemetryAllowed, Dated

\* A case depends on nothing but itself.
LEMMA OtherCases ==
  ASSUME NEW c \in CaseIds, Dated(c), cases'[c] = cases[c]
  PROVE  Dated(c)'
BY DEF Dated, Withdrawal!Due

LEMMA WithdrawKept ==
  ASSUME WithdrawalInv, NEW l \in Lineages, NEW c \in CaseIds, NEW at \in Instants,
         Withdrawal!Withdraw(l, c, at)
  PROVE  WithdrawalInv'
<1> DEFINE no == FALSE
           opening == [step |-> "CASE_OPENED", at |-> at, missed |-> no]
           opened == [openedAt |-> at, history |-> {opening}]
<1>1. /\ cases[c] = None
      /\ committed' = committed \cup {<<l, c>>} /\ revoked' = revoked \cup {l}
      /\ withdrawn' = [withdrawn EXCEPT ![l] = c]
      /\ cases' = [cases EXCEPT ![c] = opened]
  BY DEF Withdrawal!Withdraw
<1>2. opening \in Withdrawal!Entry /\ opening.step = "CASE_OPENED" /\ ~opening.missed
  BY DEF Withdrawal!Entry
<1> HIDE DEF opening, no
<1>3. opened \in Withdrawal!Case /\ opened.history = {opening}
  BY <1>2 DEF Withdrawal!Case
<1> HIDE DEF opened
<1>4. c # None /\ opened # None
  BY <1>3, OperationsAssumption DEF Withdrawal!NoneAssumption
<1>5. Withdrawal!TypeOK'
  BY <1>1, <1>3 DEF WithdrawalInv, Withdrawal!TypeOK
<1>6. Withdrawal!WithdrawnIsWhole'
  <2>1. \A d \in CaseIds : cases[d] # None => cases'[d] # None
    BY <1>1, <1>4 DEF WithdrawalInv, Withdrawal!TypeOK
  <2>2. cases'[c] # None
    BY <1>1, <1>4 DEF WithdrawalInv, Withdrawal!TypeOK
  <2>3. ASSUME NEW k \in Lineages
        PROVE  /\ withdrawn'[k] # None =>
                    <<k, withdrawn'[k]>> \in committed' /\ k \in revoked' /\ cases'[withdrawn'[k]] # None
               /\ (\E d \in CaseIds : <<k, d>> \in committed') => withdrawn'[k] # None
    <3>1. CASE k = l
      BY <1>1, <1>4, <2>2, <3>1 DEF WithdrawalInv, Withdrawal!TypeOK
    <3>2. CASE k # l
      <4>1. withdrawn'[k] = withdrawn[k]
        BY <1>1, <3>2 DEF WithdrawalInv, Withdrawal!TypeOK
      <4>2. \A d : <<k, d>> \in committed' => <<k, d>> \in committed
        BY <1>1, <3>2
      <4>3. withdrawn[k] # None => withdrawn[k] \in CaseIds
        BY DEF WithdrawalInv, Withdrawal!TypeOK
      <4>4. /\ withdrawn[k] # None =>
                 <<k, withdrawn[k]>> \in committed /\ k \in revoked /\ cases[withdrawn[k]] # None
            /\ (\E d \in CaseIds : <<k, d>> \in committed) => withdrawn[k] # None
        BY DEF WithdrawalInv, Withdrawal!WithdrawnIsWhole, Withdrawal!OptionalTelemetryAllowed
      <4>5. withdrawn[k] # None => cases'[withdrawn[k]] # None
        BY <2>1, <4>3, <4>4
      <4>6. QED
        BY <1>1, <4>1, <4>2, <4>4, <4>5
    <3>3. QED
      BY <3>1, <3>2
  <2>4. QED
    BY <2>3 DEF Withdrawal!WithdrawnIsWhole, Withdrawal!OptionalTelemetryAllowed
<1>7. ASSUME NEW d \in CaseIds PROVE Dated(d)'
  <2>1. CASE d # c
    BY <1>1, <2>1, OtherCases DEF WithdrawalInv, Withdrawal!TypeOK
  <2>2. CASE d = c
    <3>1. cases'[c] = opened
      BY <1>1 DEF WithdrawalInv, Withdrawal!TypeOK
    <3>2. QED
      BY <1>2, <1>3, <2>2, <3>1 DEF Dated, Withdrawal!DatedSteps
  <2>3. QED
    BY <2>1, <2>2
<1>8. QED
  BY <1>5, <1>6, <1>7 DEF WithdrawalInv

LEMMA WithdrawThrowsKept ==
  ASSUME WithdrawalInv, NEW l \in Lineages, NEW after \in BOOLEAN, NEW ok \in BOOLEAN,
         Withdrawal!WithdrawThrows(l, after, ok)
  PROVE  WithdrawalInv'
<1>1. /\ withdrawn' = withdrawn /\ committed' = committed /\ cases' = cases
      /\ revoked' \in {revoked, revoked \cup {l}}
  BY DEF Withdrawal!WithdrawThrows
<1>2. Withdrawal!TypeOK' /\ Withdrawal!WithdrawnIsWhole'
  BY <1>1 DEF WithdrawalInv, Withdrawal!TypeOK, Withdrawal!WithdrawnIsWhole,
              Withdrawal!OptionalTelemetryAllowed
<1>3. \A c \in CaseIds : Dated(c)'
  BY <1>1, OtherCases DEF WithdrawalInv
<1>4. QED
  BY <1>2, <1>3 DEF WithdrawalInv

LEMMA RecordKept ==
  ASSUME WithdrawalInv, NEW c \in CaseIds, NEW step \in Withdrawal!Steps, NEW at \in Instants,
         Withdrawal!Record(c, step, at)
  PROVE  WithdrawalInv'
<1> DEFINE late == step \in Withdrawal!DatedSteps /\ at > Withdrawal!Due(c, step)
           entry == [step |-> step, at |-> at, missed |-> late]
           recorded == [cases[c] EXCEPT !.history = @ \cup {entry}]
<1>1. /\ cases[c] # None
      /\ step \in Withdrawal!FinalSteps => ~Withdrawal!Entered(c, step)
      /\ cases' = [cases EXCEPT ![c] = recorded]
      /\ withdrawn' = withdrawn /\ committed' = committed /\ revoked' = revoked
  BY DEF Withdrawal!Record
<1>2. late \in BOOLEAN
  OBVIOUS
<1>3. late <=> step \in Withdrawal!DatedSteps /\ at > Withdrawal!Due(c, step)
  OBVIOUS
<1> HIDE DEF late
<1>4. /\ entry \in Withdrawal!Entry
      /\ entry.step = step /\ entry.at = at /\ entry.missed = late
  BY <1>2 DEF Withdrawal!Entry
<1> HIDE DEF entry
<1>5. cases[c] \in Withdrawal!Case
  BY <1>1 DEF WithdrawalInv, Withdrawal!TypeOK
<1>6. /\ recorded \in Withdrawal!Case
      /\ recorded.openedAt = cases[c].openedAt /\ recorded.history = cases[c].history \cup {entry}
  BY <1>4, <1>5 DEF Withdrawal!Case
<1> HIDE DEF recorded
<1>7. recorded # None
  BY <1>6, OperationsAssumption DEF Withdrawal!NoneAssumption
<1>8. Withdrawal!TypeOK'
  BY <1>1, <1>6 DEF WithdrawalInv, Withdrawal!TypeOK
<1>9. Withdrawal!WithdrawnIsWhole'
  <2>1. \A d \in CaseIds : cases[d] # None => cases'[d] # None
    BY <1>1, <1>7 DEF WithdrawalInv, Withdrawal!TypeOK
  <2>2. \A l \in Lineages : withdrawn[l] # None => withdrawn[l] \in CaseIds
    BY DEF WithdrawalInv, Withdrawal!TypeOK
  <2>3. QED
    BY <1>1, <2>1, <2>2
       DEF WithdrawalInv, Withdrawal!WithdrawnIsWhole, Withdrawal!OptionalTelemetryAllowed
<1>10. ASSUME NEW d \in CaseIds PROVE Dated(d)'
  <2>1. CASE d # c
    BY <1>1, <2>1, OtherCases DEF WithdrawalInv, Withdrawal!TypeOK
  <2>2. CASE d = c
    <3>1. cases'[c] = recorded
      BY <1>1 DEF WithdrawalInv, Withdrawal!TypeOK
    <3>2. \A s : Withdrawal!Due(c, s)' = Withdrawal!Due(c, s)
      BY <1>6, <3>1 DEF Withdrawal!Due
    <3>3. \A e \in cases[c].history :
            e.missed <=> e.step \in Withdrawal!DatedSteps /\ e.at > Withdrawal!Due(c, e.step)
      BY <1>1 DEF WithdrawalInv, Dated
    <3>4. \A e, f \in cases[c].history :
            e.step = f.step /\ e.step \in Withdrawal!DatedSteps => e = f
      BY <1>1 DEF WithdrawalInv, Dated
    <3>5. entry.missed <=> entry.step \in Withdrawal!DatedSteps /\ entry.at > Withdrawal!Due(c, entry.step)
      BY <1>3, <1>4
    <3>6. step \in Withdrawal!DatedSteps => \A e \in cases[c].history : e.step # step
      BY <1>1 DEF Withdrawal!FinalSteps, Withdrawal!Entered
    <3>7. \A e \in cases'[c].history : e.missed <=>
            e.step \in Withdrawal!DatedSteps /\ e.at > Withdrawal!Due(c, e.step)'
      BY <1>6, <3>1, <3>2, <3>3, <3>5
    <3>8. \A e, f \in cases'[c].history :
            e.step = f.step /\ e.step \in Withdrawal!DatedSteps => e = f
      BY <1>4, <1>6, <3>1, <3>4, <3>6
    <3>9. QED
      BY <2>2, <3>7, <3>8 DEF Dated
  <2>3. QED
    BY <2>1, <2>2
<1>11. QED
  BY <1>8, <1>9, <1>10 DEF WithdrawalInv

\* With one entry for the step, it was overdue from its deadline until that entry.
LEMMA DatedMatchesStatus ==
  ASSUME Withdrawal!TypeOK, \A c \in CaseIds : Dated(c) PROVE Withdrawal!MissesMatchStatus
<1> SUFFICES ASSUME NEW c \in CaseIds, cases[c] # None,
                    NEW entry \in cases[c].history, entry.step \in Withdrawal!DatedSteps
             PROVE  /\ entry.step \in Withdrawal!DeadlineMisses(c)
                         <=> entry.at > Withdrawal!Due(c, entry.step)
                    /\ \A t \in Instants : Withdrawal!Overdue(c, entry.step, t)
                         <=> Withdrawal!Due(c, entry.step) < t /\ t < entry.at
  BY DEF Withdrawal!MissesMatchStatus
<1>1. \A e \in cases[c].history : e.step = entry.step => e = entry
  BY DEF Dated
<1>2. entry.missed <=> entry.at > Withdrawal!Due(c, entry.step)
  <2>1. entry.missed <=> entry.step \in Withdrawal!DatedSteps /\ entry.at > Withdrawal!Due(c, entry.step)
    BY Zenon DEF Dated
  <2>2. QED
    BY <2>1
<1>3. entry.step \in Withdrawal!DeadlineMisses(c) <=> entry.at > Withdrawal!Due(c, entry.step)
  <2>1. entry.step \in Withdrawal!DeadlineMisses(c)
          <=> \E e \in cases[c].history : e.missed /\ e.step = entry.step
    BY Zenon DEF Withdrawal!DeadlineMisses
  <2>2. (\E e \in cases[c].history : e.missed /\ e.step = entry.step) <=> entry.missed
    BY <1>1, Zenon
  <2>3. QED
    BY <1>2, <2>1, <2>2, Zenon
<1>4. cases[c] \in Withdrawal!Case
  BY DEF Withdrawal!TypeOK
<1>5. entry.at \in Int
  BY <1>4, OperationsAssumption DEF Withdrawal!Case, Withdrawal!Entry, Withdrawal!TimeAssumption
<1>6. Withdrawal!Due(c, entry.step) \in Int
  <2>1. cases[c].openedAt \in Int
    BY <1>4, OperationsAssumption DEF Withdrawal!Case, Withdrawal!TimeAssumption
  <2>2. Deadline[entry.step] \in Nat
    BY OperationsAssumption DEF Withdrawal!DeadlineAssumption
  <2>3. QED
    BY <2>1, <2>2 DEF Withdrawal!Due
<1>7. ASSUME NEW t \in Instants
      PROVE  Withdrawal!Overdue(c, entry.step, t) <=> Withdrawal!Due(c, entry.step) < t /\ t < entry.at
  <2>1. t \in Int
    BY OperationsAssumption DEF Withdrawal!TimeAssumption
  <2>2. Withdrawal!Overdue(c, entry.step, t)
          <=> t > Withdrawal!Due(c, entry.step) /\ ~(entry.at <= t)
    BY <1>1 DEF Withdrawal!Overdue
  <2>3. QED
    BY <1>5, <1>6, <2>1, <2>2
<1>8. QED
  BY <1>3, <1>7

(* A withdrawal is whole or not there, and what its case says of deadlines *)
(* agrees with its entries, in whatever order they were made               *)
(* (WithdrawalCoordinator.withdraw, DeletionCase).                         *)
THEOREM WithdrawalsAlwaysKept == Spec => []WithdrawalsAreKept
<1>1. Init => WithdrawalInv
  BY WithdrawalInit DEF Init
<1>2. WithdrawalInv /\ [Next]_vars => WithdrawalInv'
  <2> SUFFICES ASSUME WithdrawalInv, [Next]_vars PROVE WithdrawalInv'
    OBVIOUS
  <2>1. CASE WithdrawalStep
    BY <2>1, WithdrawKept, WithdrawThrowsKept, RecordKept DEF WithdrawalStep, Withdrawal!Next
  <2>2. CASE UNCHANGED withdrawals
    <3>1. /\ withdrawn' = withdrawn /\ committed' = committed /\ revoked' = revoked
          /\ cases' = cases
      BY <2>2 DEF withdrawals
    <3>2. \A c \in CaseIds : Dated(c)'
      BY <3>1, OtherCases DEF WithdrawalInv
    <3>3. QED
      BY <3>1, <3>2 DEF WithdrawalInv, Withdrawal!TypeOK, Withdrawal!WithdrawnIsWhole,
                        Withdrawal!OptionalTelemetryAllowed
  <2>3. QED
    BY <2>1, <2>2 DEF Next, vars, GateStep, BookStep, SessionStep, EnrollmentStep, HoldStep,
                      LedgerStep, ComplaintStep, OutageStep, RestoreStep
<1>3. WithdrawalInv => WithdrawalsAreKept
  BY DatedMatchesStatus DEF WithdrawalInv, WithdrawalsAreKept
<1>4. QED
  BY <1>1, <1>2, <1>3, PTL DEF Spec
-----------------------------------------------------------------------------
(* Legal holds.                                                            *)

\* A hold ends within a period after the review clock was last reset.
HoldInv ==
  /\ Holds!TypeOK
  /\ hold # None =>
       /\ hold.startedAt <= hold.nextReviewAt - ReviewDays
       /\ hold.expiresAt <= hold.nextReviewAt - ReviewDays + HoldDays
       /\ hold.expiresAt > hold.startedAt + HoldDays => hold.counsel

LEMMA HoldNumbers ==
  /\ HoldDays \in Nat /\ ReviewDays \in Nat /\ Instants \subseteq Int
  /\ \A class \in DOMAIN RetentionDays : RetentionDays[class] \in Nat
BY OperationsAssumption DEF Holds!PeriodAssumption, Holds!TimeAssumption

LEMMA HoldNext ==
  ASSUME HoldInv, Holds!Next PROVE HoldInv'
<1>1. PICK s \in Instants, t \in Instants : Holds!CreateLegalHold(s, t) \/ Holds!RenewLegalHold(s, t)
  BY DEF Holds!Next
<1>2. s \in Int /\ t \in Int
  BY HoldNumbers
<1>3. CASE Holds!CreateLegalHold(s, t)
  <2> DEFINE no == FALSE
             created == [startedAt |-> s, expiresAt |-> t, nextReviewAt |-> s + ReviewDays, counsel |-> no]
  <2>1. hold' = created /\ s < t /\ t <= s + HoldDays
    BY <1>3 DEF Holds!CreateLegalHold
  <2>2. /\ created \in [startedAt : Instants, expiresAt : Instants, nextReviewAt : Int,
                        counsel : BOOLEAN]
        /\ created.startedAt = s /\ created.expiresAt = t /\ created.nextReviewAt = s + ReviewDays
    BY <1>2, HoldNumbers
  <2> HIDE DEF created
  <2>3. QED
    BY <1>2, <2>1, <2>2, HoldNumbers DEF HoldInv, Holds!TypeOK
<1>4. CASE Holds!RenewLegalHold(s, t)
  <2> DEFINE yes == TRUE
             renewed == [startedAt |-> hold.startedAt, expiresAt |-> t,
                         nextReviewAt |-> s + ReviewDays, counsel |-> yes]
  <2>1. hold # None /\ hold \in [startedAt : Instants, expiresAt : Instants,
                                    nextReviewAt : Int, counsel : BOOLEAN]
    BY <1>4 DEF Holds!RenewLegalHold, HoldInv, Holds!TypeOK
  <2>2. hold' = renewed
    BY <1>4, <2>1 DEF Holds!RenewLegalHold
  <2>3. hold.startedAt <= s /\ s < t /\ t <= s + HoldDays
    BY <1>4 DEF Holds!RenewLegalHold
  <2>4. /\ renewed \in [startedAt : Instants, expiresAt : Instants, nextReviewAt : Int,
                        counsel : BOOLEAN]
        /\ renewed.startedAt = hold.startedAt /\ renewed.expiresAt = t
        /\ renewed.nextReviewAt = s + ReviewDays /\ renewed.counsel
    BY <1>2, <2>1, HoldNumbers
  <2>5. hold.startedAt \in Int
    BY <2>1, HoldNumbers
  <2> HIDE DEF renewed
  <2>6. QED
    BY <1>2, <2>2, <2>3, <2>4, <2>5, HoldNumbers DEF HoldInv, Holds!TypeOK
<1>5. QED
  BY <1>1, <1>3, <1>4

LEMMA HoldsEnd ==
  ASSUME HoldInv PROVE Holds!HoldsRunOut
<1> SUFFICES ASSUME hold # None,
                    NEW class \in DOMAIN RetentionDays, NEW first \in Instants, NEW second \in Instants,
                    NEW inScope \in BOOLEAN
             PROVE  /\ Holds!RetentionDeadline(class, first, second) <= first + RetentionDays[class]
                    /\ Holds!EffectiveDeadline(Holds!RetentionDeadline(class, first, second), inScope)
                         # Holds!RetentionDeadline(class, first, second)
                       => /\ inScope
                          /\ hold.expiresAt > Holds!RetentionDeadline(class, first, second)
                          /\ Holds!EffectiveDeadline(Holds!RetentionDeadline(class, first, second), inScope)
                               = hold.expiresAt
  BY DEF HoldInv, Holds!HoldsRunOut
<1>1. first \in Int /\ second \in Int /\ RetentionDays[class] \in Nat
  BY HoldNumbers
<1>2. Holds!RetentionDeadline(class, first, second) <= first + RetentionDays[class]
  BY <1>1 DEF Holds!RetentionDeadline
<1>3. QED
  BY <1>2 DEF Holds!EffectiveDeadline

(* A copy kept because of a hold goes within a period of the last review,  *)
(* and beyond the first period only with a counsel's name                  *)
(* (createLegalHold, renewLegalHold, applyLegalHold).                      *)
THEOREM HoldsAlwaysRunOut == Spec => []HoldsRunOut
<1>1. Init => HoldInv
  BY DEF Init, Holds!Init, HoldInv, Holds!TypeOK
<1>2. HoldInv /\ [Next]_vars => HoldInv'
  <2> SUFFICES ASSUME HoldInv, [Next]_vars PROVE HoldInv'
    OBVIOUS
  <2>1. CASE HoldStep
    BY <2>1, HoldNext DEF HoldStep
  <2>2. CASE UNCHANGED hold
    BY <2>2 DEF HoldInv, Holds!TypeOK
  <2>3. QED
    BY <2>1, <2>2 DEF Next, vars, GateStep, BookStep, SessionStep, EnrollmentStep, WithdrawalStep,
                      LedgerStep, ComplaintStep, OutageStep, RestoreStep
<1>3. HoldInv => HoldsRunOut
  BY HoldsEnd DEF HoldsRunOut
<1>4. QED
  BY <1>1, <1>2, <1>3, PTL DEF Spec
-----------------------------------------------------------------------------
(* Enrollment.                                                             *)

\* Credentials are made for an invitation on file.
CredentialsAreSent == \A i \in Invitations : Enrolling!Invited(i) \/ credentials[i] = << >>

EnrollmentInv ==
  /\ Enrolling!TypeOK
  /\ CredentialsAreSent
  /\ Enrolling!OneLiveToken
  /\ Enrolling!TokensIdentify
  /\ Enrolling!LineagesIdentify
  /\ Enrolling!EnrollmentsAreEarned

\* An invitation with another status is the same invitation otherwise.
LEMMA InvitationStatus ==
  ASSUME NEW v \in Enrolling!Invitation, NEW s \in {"ISSUED", "ENROLLED", "REVOKED"}
  PROVE  LET w == [v EXCEPT !.status = s]
         IN w \in Enrolling!Invitation /\ w.lineage = v.lineage /\ w.status = s
BY DEF Enrolling!Invitation

LEMMA EnrollmentConstants ==
  /\ None \notin Enrolling!Invitation /\ None \notin Enrolling!EnrollmentRecord
  /\ Hours \subseteq Int
BY OperationsAssumption DEF Enrolling!EnrollmentAssumption

\* What a credential can become: the same token with a status that is not ACTIVE.
Retired(c, old) ==
  /\ c \in Enrolling!Credential
  /\ c.digest = old.digest /\ c.expiresAt = old.expiresAt /\ c.status # "ACTIVE"

LEMMA RetiredCredential ==
  ASSUME NEW c \in Enrolling!Credential, NEW s \in {"USED", "REVOKED"}
  PROVE  Retired([c EXCEPT !.status = s], c)
BY DEF Enrolling!Credential, Retired

\* Revoking the active credentials, or all of them, leaves none active.
LEMMA RevokedCredentials ==
  ASSUME NEW cs \in Seq(Enrolling!Credential),
         NEW f \in {Enrolling!RevokeActive(cs), Enrolling!RevokeAll(cs)}
  PROVE  /\ f \in Seq(Enrolling!Credential) /\ Len(f) = Len(cs) /\ DOMAIN f = DOMAIN cs
         /\ \A n \in DOMAIN cs : Retired(f[n], cs[n])
<1>1. /\ DOMAIN cs = 1..Len(cs) /\ Len(cs) \in Nat
      /\ \A n \in DOMAIN cs : cs[n] \in Enrolling!Credential
  OBVIOUS
<1>2. \A n \in DOMAIN cs : Retired([cs[n] EXCEPT !.status = "REVOKED"], cs[n])
  BY <1>1, RetiredCredential
<1>3. f = [n \in DOMAIN cs |-> f[n]]
  BY DEF Enrolling!RevokeActive, Enrolling!RevokeAll
<1>4. \A n \in DOMAIN cs : Retired(f[n], cs[n])
  <2> SUFFICES ASSUME NEW n \in DOMAIN cs PROVE Retired(f[n], cs[n])
    OBVIOUS
  <2>1. \/ f[n] = [cs[n] EXCEPT !.status = "REVOKED"]
        \/ cs[n].status # "ACTIVE" /\ f[n] = cs[n]
    BY DEF Enrolling!RevokeActive, Enrolling!RevokeAll
  <2>2. CASE f[n] = [cs[n] EXCEPT !.status = "REVOKED"]
    BY <1>2, <2>2
  <2>3. CASE cs[n].status # "ACTIVE" /\ f[n] = cs[n]
    BY <1>1, <2>3 DEF Retired
  <2>4. QED
    BY <2>1, <2>2, <2>3
<1>5. \A n \in DOMAIN cs : f[n] \in Enrolling!Credential
  BY <1>4 DEF Retired
<1>6. f \in [1..Len(cs) -> Enrolling!Credential]
  BY <1>1, <1>3, <1>5
<1>7. f \in Seq(Enrolling!Credential) /\ Len(f) = Len(cs) /\ DOMAIN f = DOMAIN cs
  BY <1>1, <1>6
<1>8. QED
  BY <1>4, <1>7

\* A token that is sent is one nobody has, and the last one.
LEMMA SentCredential ==
  ASSUME NEW cs \in Seq(Enrolling!Credential), NEW d \in Digests \cup {Blank}, NEW at \in Hours,
         NEW w, w = Enrolling!WithNew(cs, d, at)
  PROVE  \/ w = cs
         \/ \E c \in Enrolling!Credential :
              w = Append(cs, c) /\ c.digest = d /\ ~Enrolling!DigestTaken(d)
<1>1. CASE Enrolling!Usable(d)
  <2>1. d \in Digests /\ at \in Int /\ ~Enrolling!DigestTaken(d)
    BY <1>1, EnrollmentConstants DEF Enrolling!Usable
  <2>2. /\ Enrolling!NewCredential(d, at) \in Enrolling!Credential
        /\ Enrolling!NewCredential(d, at).digest = d
    BY <2>1 DEF Enrolling!NewCredential, Enrolling!Credential
  <2>3. w = Append(cs, Enrolling!NewCredential(d, at))
    BY <1>1 DEF Enrolling!WithNew
  <2>4. QED
    BY <2>1, <2>2, <2>3
<1>2. CASE ~Enrolling!Usable(d)
  BY <1>2 DEF Enrolling!WithNew
<1>3. QED
  BY <1>1, <1>2

(* What a step makes of one invitation, the others being as they were: its *)
(* credentials are the old ones with some retired, and at most one more,   *)
(* whose token nobody has.                                                 *)
OthersAsTheyWere(i) ==
  \A j \in Invitations : j # i =>
    /\ invitations'[j] = invitations[j] /\ credentials'[j] = credentials[j]
    /\ enrollments'[j] = enrollments[j]

CredentialsFollow(i) ==
  LET cs == credentials[i]  cn == credentials'[i]
  IN /\ cn \in Seq(Enrolling!Credential)
     /\ \A n \in DOMAIN cs : n \in DOMAIN cn /\ (cn[n] = cs[n] \/ Retired(cn[n], cs[n]))
     /\ \A n \in DOMAIN cn : n \notin DOMAIN cs =>
          /\ n = Len(cn)
          /\ \A j \in Invitations : \A k \in DOMAIN credentials[j] :
               credentials[j][k].digest # cn[n].digest

InvitationFollows(i) ==
  /\ Enrolling!Invited(i)'
  /\ Enrolling!Invited(i) =>
       /\ invitations'[i].lineage = invitations[i].lineage
       /\ invitations[i].status = "REVOKED" =>
            invitations'[i].status = "REVOKED" /\ enrollments'[i] = enrollments[i]
  /\ ~Enrolling!Invited(i) => ~Enrolling!LineageTaken(invitations'[i].lineage)

LiveOne(i) ==
  \A n \in DOMAIN credentials[i] : Enrolling!Status(i, n) = "ACTIVE" =>
    /\ n = Len(credentials[i])
    /\ Enrolling!Invited(i) /\ invitations[i].status # "REVOKED"

Earned(i) ==
  enrollments[i] # None =>
    LET n == enrollments[i].credential
    IN /\ n \in DOMAIN credentials[i]
       /\ enrollments[i].at < credentials[i][n].expiresAt
       /\ Enrolling!Status(i, n) # "ACTIVE"
       /\ invitations[i].status # "ISSUED"

\* What the step promises beyond one invitation follows from these.
LEMMA OneInvitationChanged ==
  ASSUME EnrollmentInv, NEW i \in Invitations, Enrolling!TypeOK',
         OthersAsTheyWere(i), CredentialsFollow(i), InvitationFollows(i), LiveOne(i)', Earned(i)'
  PROVE  EnrollmentInv'
<1>1. CredentialsAreSent'
  BY DEF EnrollmentInv, CredentialsAreSent, OthersAsTheyWere, InvitationFollows, Enrolling!Invited
<1>2. Enrolling!OneLiveToken'
  BY DEF EnrollmentInv, Enrolling!OneLiveToken, OthersAsTheyWere, LiveOne, Enrolling!Status,
         Enrolling!Invited
<1>3. Enrolling!EnrollmentsAreEarned'
  BY DEF EnrollmentInv, Enrolling!EnrollmentsAreEarned, OthersAsTheyWere, Earned, Enrolling!Status
<1>4. Enrolling!LineagesIdentify'
  BY DEF EnrollmentInv, Enrolling!LineagesIdentify, OthersAsTheyWere, InvitationFollows,
         Enrolling!LineageTaken, Enrolling!Invited
<1>5. \A n \in DOMAIN credentials'[i] :
        \/ n \in DOMAIN credentials[i] /\ credentials'[i][n].digest = credentials[i][n].digest
        \/ /\ n = Len(credentials'[i])
           /\ \A j \in Invitations : \A k \in DOMAIN credentials[j] :
                credentials[j][k].digest # credentials'[i][n].digest
  BY DEF CredentialsFollow, Retired
<1>6. Enrolling!TokensIdentify'
  <2> SUFFICES ASSUME NEW j \in Invitations, NEW l \in Invitations,
                      NEW n \in DOMAIN credentials'[j], NEW k \in DOMAIN credentials'[l],
                      credentials'[j][n].digest = credentials'[l][k].digest
               PROVE  j = l /\ n = k
    BY DEF Enrolling!TokensIdentify
  <2>1. \A h \in Invitations : h # i => credentials'[h] = credentials[h]
    BY DEF OthersAsTheyWere
  <2>2. CASE j # i /\ l # i
    BY <2>1, <2>2 DEF EnrollmentInv, Enrolling!TokensIdentify
  <2>3. CASE j = i /\ l # i
    BY <1>5, <2>1, <2>3 DEF EnrollmentInv, Enrolling!TokensIdentify
  <2>4. CASE j # i /\ l = i
    BY <1>5, <2>1, <2>4 DEF EnrollmentInv, Enrolling!TokensIdentify
  <2>5. CASE j = i /\ l = i
    BY <1>5, <2>5 DEF EnrollmentInv, Enrolling!TokensIdentify
  <2>6. QED
    BY <2>2, <2>3, <2>4, <2>5
<1>7. QED
  BY <1>1, <1>2, <1>3, <1>4, <1>6 DEF EnrollmentInv

LEMMA IssueInvitationKept ==
  ASSUME EnrollmentInv, NEW i \in Invitations, NEW l \in EnrolledLineages,
         NEW d \in Digests \cup {Blank}, NEW at \in Hours,
         Enrolling!IssueInvitation(i, l, d, at)
  PROVE  /\ EnrollmentInv'
         /\ OthersAsTheyWere(i) /\ CredentialsFollow(i) /\ InvitationFollows(i)
<1> DEFINE v == [lineage |-> l, status |-> "ISSUED"]
           w == Enrolling!WithNew(credentials[i], d, at)
<1>1. Enrolling!TypeOK
  BY DEF EnrollmentInv
<1>2. v \in Enrolling!Invitation /\ v # None /\ v.lineage = l /\ v.status = "ISSUED"
  BY EnrollmentConstants DEF Enrolling!Invitation
<1>3. /\ ~Enrolling!Invited(i) /\ ~Enrolling!LineageTaken(l)
      /\ invitations' = [invitations EXCEPT ![i] = v]
      /\ credentials' = [credentials EXCEPT ![i] = w]
      /\ UNCHANGED <<signed, enrollments, revocations>>
  BY DEF Enrolling!IssueInvitation
<1>4. credentials[i] = << >>
  BY <1>3 DEF EnrollmentInv, CredentialsAreSent
<1>5. credentials[i] \in Seq(Enrolling!Credential)
  BY <1>1 DEF Enrolling!TypeOK
<1>6. \/ w = << >>
      \/ \E c \in Enrolling!Credential :
           w = <<c>> /\ c.digest = d /\ ~Enrolling!DigestTaken(d)
  <2>1. \/ w = credentials[i]
        \/ \E c \in Enrolling!Credential :
             w = Append(credentials[i], c) /\ c.digest = d /\ ~Enrolling!DigestTaken(d)
    BY <1>5, SentCredential
  <2>2. \A c : Append(<< >>, c) = <<c>>
    OBVIOUS
  <2>3. QED
    BY <1>4, <2>1, <2>2
<1> HIDE DEF v, w
<1>7. /\ invitations'[i] = v /\ credentials'[i] = w
      /\ OthersAsTheyWere(i)
  BY <1>1, <1>3 DEF Enrolling!TypeOK, OthersAsTheyWere
<1>8. w \in Seq(Enrolling!Credential) /\ \A n \in DOMAIN w : n = 1 /\ n = Len(w)
  <2>1. CASE w = << >>
    BY <2>1
  <2>2. ASSUME NEW c \in Enrolling!Credential, w = <<c>>
        PROVE  w \in Seq(Enrolling!Credential) /\ \A n \in DOMAIN w : n = 1 /\ n = Len(w)
    BY <2>2
  <2>3. QED
    BY <1>6, <2>1, <2>2
<1>9. Enrolling!TypeOK'
  BY <1>1, <1>2, <1>3, <1>8 DEF Enrolling!TypeOK
<1>10. CredentialsFollow(i)
  <2>1. \A n \in DOMAIN w : \A j \in Invitations : \A k \in DOMAIN credentials[j] :
          credentials[j][k].digest # w[n].digest
    BY <1>6, <1>8 DEF Enrolling!DigestTaken
  <2>2. QED
    BY <1>4, <1>7, <1>8, <2>1 DEF CredentialsFollow
<1>11. InvitationFollows(i)
  BY <1>2, <1>3, <1>7 DEF InvitationFollows, Enrolling!Invited
<1>12. LiveOne(i)'
  BY <1>2, <1>7, <1>8 DEF LiveOne, Enrolling!Invited
<1>13. Earned(i)'
  BY <1>3, <1>4 DEF EnrollmentInv, Enrolling!EnrollmentsAreEarned, Earned
<1>14. QED
  BY <1>7, <1>9, <1>10, <1>11, <1>12, <1>13, OneInvitationChanged

LEMMA EnrollKept ==
  ASSUME EnrollmentInv, NEW i \in Invitations, NEW at \in Hours, NEW n \in DOMAIN credentials[i],
         Enrolling!Enroll(i, n, at)
  PROVE  /\ EnrollmentInv'
         /\ OthersAsTheyWere(i) /\ CredentialsFollow(i) /\ InvitationFollows(i)
<1> DEFINE v == [invitations[i] EXCEPT !.status = "ENROLLED"]
           c == [credentials[i][n] EXCEPT !.status = "USED"]
           w == [credentials[i] EXCEPT ![n] = c]
           e == [credential |-> n, at |-> at]
<1>1. Enrolling!TypeOK
  BY DEF EnrollmentInv
<1>2. credentials[i] \in Seq(Enrolling!Credential)
  BY <1>1 DEF Enrolling!TypeOK
<1>3. /\ n \in Nat \ {0} /\ credentials[i][n] \in Enrolling!Credential
      /\ credentials[i][n].status = "ACTIVE" /\ at < credentials[i][n].expiresAt
  BY <1>2 DEF Enrolling!Enroll
<1>4. Retired(c, credentials[i][n])
  BY <1>3, RetiredCredential
<1>5. /\ e \in Enrolling!EnrollmentRecord /\ e # None
      /\ e.credential = n /\ e.at = at
  BY <1>3, EnrollmentConstants DEF Enrolling!EnrollmentRecord
<1>6. /\ Enrolling!Invited(i) /\ invitations[i] \in Enrolling!Invitation
      /\ invitations[i].status # "REVOKED" /\ n = Len(credentials[i])
  BY <1>1, <1>3 DEF EnrollmentInv, Enrolling!OneLiveToken, Enrolling!Status, Enrolling!TypeOK,
                    Enrolling!Invited
<1>7. /\ v \in Enrolling!Invitation /\ v # None
      /\ v.lineage = invitations[i].lineage /\ v.status = "ENROLLED"
  BY <1>6, InvitationStatus, EnrollmentConstants
<1>8. /\ credentials' = [credentials EXCEPT ![i] = w]
      /\ invitations' = [invitations EXCEPT ![i] = v]
      /\ enrollments' = [enrollments EXCEPT ![i] = e]
      /\ UNCHANGED <<signed, revocations>>
  BY DEF Enrolling!Enroll
<1> HIDE DEF v, c, e
<1>9. /\ w \in Seq(Enrolling!Credential) /\ Len(w) = Len(credentials[i])
      /\ DOMAIN w = DOMAIN credentials[i]
      /\ w[n] = c /\ \A k \in DOMAIN w : k # n => w[k] = credentials[i][k]
  BY <1>2, <1>4 DEF Retired
<1> HIDE DEF w
<1>10. Enrolling!TypeOK'
  BY <1>1, <1>5, <1>7, <1>8, <1>9 DEF Enrolling!TypeOK
<1>11. /\ invitations'[i] = v /\ enrollments'[i] = e /\ credentials'[i] = w
       /\ OthersAsTheyWere(i)
  BY <1>1, <1>8 DEF Enrolling!TypeOK, OthersAsTheyWere
<1>12. CredentialsFollow(i)
  BY <1>4, <1>9, <1>11 DEF CredentialsFollow
<1>13. InvitationFollows(i)
  BY <1>6, <1>7, <1>11 DEF InvitationFollows, Enrolling!Invited
<1>14. LiveOne(i)'
  <2>1. \A k \in DOMAIN w : w[k].status # "ACTIVE"
    BY <1>4, <1>6, <1>9 DEF EnrollmentInv, Enrolling!OneLiveToken, Enrolling!Status, Retired
  <2>2. QED
    BY <1>11, <2>1 DEF LiveOne, Enrolling!Status
<1>15. Earned(i)'
  BY <1>3, <1>4, <1>5, <1>7, <1>9, <1>11 DEF Earned, Enrolling!Status, Retired
<1>16. QED
  BY <1>10, <1>11, <1>12, <1>13, <1>14, <1>15, OneInvitationChanged

LEMMA ReissueKept ==
  ASSUME EnrollmentInv, NEW i \in Invitations, NEW d \in Digests \cup {Blank}, NEW at \in Hours,
         Enrolling!Reissue(i, d, at)
  PROVE  /\ EnrollmentInv'
         /\ OthersAsTheyWere(i) /\ CredentialsFollow(i) /\ InvitationFollows(i)
<1> DEFINE cs == credentials[i]
           f == Enrolling!RevokeActive(cs)
           w == Enrolling!WithNew(f, d, at)
<1>1. Enrolling!TypeOK
  BY DEF EnrollmentInv
<1>2. cs \in Seq(Enrolling!Credential)
  BY <1>1 DEF Enrolling!TypeOK
<1>3. /\ f \in Seq(Enrolling!Credential) /\ Len(f) = Len(cs) /\ DOMAIN f = DOMAIN cs
      /\ \A n \in DOMAIN cs : Retired(f[n], cs[n])
  BY <1>2, RevokedCredentials
<1>4. \/ w = f
      \/ \E c \in Enrolling!Credential :
           w = Append(f, c) /\ c.digest = d /\ ~Enrolling!DigestTaken(d)
  BY <1>3, SentCredential
<1>5. /\ Enrolling!Invited(i) /\ invitations[i].status # "REVOKED"
      /\ credentials' = [credentials EXCEPT ![i] = w]
      /\ UNCHANGED <<signed, invitations, enrollments, revocations>>
  BY DEF Enrolling!Reissue
<1> HIDE DEF w, f
<1>6. /\ credentials'[i] = w /\ OthersAsTheyWere(i)
      /\ invitations'[i] = invitations[i] /\ enrollments'[i] = enrollments[i]
  BY <1>1, <1>5 DEF Enrolling!TypeOK, OthersAsTheyWere
<1>7. /\ w \in Seq(Enrolling!Credential)
      /\ \A n \in DOMAIN cs : n \in DOMAIN w /\ w[n] = f[n]
      /\ \A n \in DOMAIN w : n \notin DOMAIN cs =>
           n = Len(w) /\ w[n].digest = d /\ ~Enrolling!DigestTaken(d)
  <2>1. CASE w = f
    BY <1>3, <2>1
  <2>2. ASSUME NEW c \in Enrolling!Credential,
               w = Append(f, c), c.digest = d, ~Enrolling!DigestTaken(d)
        PROVE  /\ w \in Seq(Enrolling!Credential)
               /\ \A n \in DOMAIN cs : n \in DOMAIN w /\ w[n] = f[n]
               /\ \A n \in DOMAIN w : n \notin DOMAIN cs =>
                    n = Len(w) /\ w[n].digest = d /\ ~Enrolling!DigestTaken(d)
    BY <1>3, <2>2
  <2>3. QED
    BY <1>4, <2>1, <2>2
<1>8. Enrolling!TypeOK'
  BY <1>1, <1>5, <1>7 DEF Enrolling!TypeOK
<1>9. CredentialsFollow(i)
  BY <1>3, <1>6, <1>7 DEF CredentialsFollow, Enrolling!DigestTaken
<1>10. InvitationFollows(i)
  BY <1>5 DEF InvitationFollows, Enrolling!Invited
<1>11. LiveOne(i)'
  BY <1>3, <1>5, <1>6, <1>7 DEF LiveOne, Enrolling!Status, Enrolling!Invited, Retired
<1>12. Earned(i)'
  BY <1>3, <1>6, <1>7
     DEF EnrollmentInv, Enrolling!EnrollmentsAreEarned, Earned, Enrolling!Status, Retired
<1>13. QED
  BY <1>6, <1>8, <1>9, <1>10, <1>11, <1>12, OneInvitationChanged

LEMMA RevokeInvitationKept ==
  ASSUME EnrollmentInv, NEW i \in Invitations, NEW portReturns \in BOOLEAN,
         Enrolling!RevokeInvitation(i, portReturns)
  PROVE  /\ EnrollmentInv'
         /\ OthersAsTheyWere(i) /\ CredentialsFollow(i) /\ InvitationFollows(i)
<1> DEFINE v == [invitations[i] EXCEPT !.status = "REVOKED"]
           w == Enrolling!RevokeAll(credentials[i])
<1>1. Enrolling!TypeOK
  BY DEF EnrollmentInv
<1>2. credentials[i] \in Seq(Enrolling!Credential)
  BY <1>1 DEF Enrolling!TypeOK
<1>3. Enrolling!Invited(i) /\ invitations[i] \in Enrolling!Invitation
  BY <1>1 DEF Enrolling!TypeOK, Enrolling!Invited, Enrolling!RevokeInvitation
<1>4. /\ v \in Enrolling!Invitation /\ v # None
      /\ v.lineage = invitations[i].lineage /\ v.status = "REVOKED"
  BY <1>3, InvitationStatus, EnrollmentConstants
<1>5. /\ w \in Seq(Enrolling!Credential) /\ DOMAIN w = DOMAIN credentials[i]
      /\ \A n \in DOMAIN credentials[i] : Retired(w[n], credentials[i][n])
  BY <1>2, RevokedCredentials
<1>6. /\ invitations' = [invitations EXCEPT ![i] = v]
      /\ credentials' = [credentials EXCEPT ![i] = w]
      /\ revocations' = revocations \/ revocations' = revocations \cup {i}
      /\ UNCHANGED <<signed, enrollments>>
  BY DEF Enrolling!RevokeInvitation
<1> HIDE DEF v, w
<1>7. /\ invitations'[i] = v /\ credentials'[i] = w /\ enrollments'[i] = enrollments[i]
      /\ OthersAsTheyWere(i)
  BY <1>1, <1>6 DEF Enrolling!TypeOK, OthersAsTheyWere
<1>8. Enrolling!TypeOK'
  BY <1>1, <1>4, <1>5, <1>6 DEF Enrolling!TypeOK
<1>9. CredentialsFollow(i)
  BY <1>5, <1>7 DEF CredentialsFollow
<1>10. InvitationFollows(i)
  BY <1>3, <1>4, <1>7 DEF InvitationFollows, Enrolling!Invited
<1>11. LiveOne(i)'
  BY <1>5, <1>7 DEF LiveOne, Enrolling!Status, Retired
<1>12. Earned(i)'
  BY <1>4, <1>5, <1>7
     DEF EnrollmentInv, Enrolling!EnrollmentsAreEarned, Earned, Enrolling!Status, Retired
<1>13. QED
  BY <1>7, <1>8, <1>9, <1>10, <1>11, <1>12, OneInvitationChanged

\* What is settled of an invitation in a step.
RevocationStays ==
  \A i \in Invitations : Enrolling!Invited(i) =>
    /\ invitations'[i].lineage = invitations[i].lineage
    /\ \A n \in DOMAIN credentials[i] :
         Enrolling!Status(i, n) # "ACTIVE" => Enrolling!Status(i, n)' # "ACTIVE"
    /\ invitations[i].status = "REVOKED" =>
         /\ invitations'[i].status = "REVOKED"
         /\ enrollments'[i] = enrollments[i]

LEMMA OneInvitationSettled ==
  ASSUME NEW i \in Invitations,
         OthersAsTheyWere(i), CredentialsFollow(i), InvitationFollows(i)
  PROVE  RevocationStays
<1>1. \A n \in DOMAIN credentials[i] :
        Enrolling!Status(i, n) # "ACTIVE" => credentials'[i][n].status # "ACTIVE"
  BY DEF CredentialsFollow, Retired, Enrolling!Status
<1>2. QED
  BY <1>1 DEF RevocationStays, OthersAsTheyWere, InvitationFollows, Enrolling!Status

LEMMA EnrollmentNext ==
  ASSUME EnrollmentInv, Enrolling!Next
  PROVE  EnrollmentInv' /\ RevocationStays
<1>1. ASSUME NEW rule \in {"COHORT", "ADULT_POLICY"}, Enrolling!RecordRule(rule)
      PROVE  EnrollmentInv' /\ RevocationStays
  <2>1. /\ signed' = signed \cup {rule}
        /\ invitations' = invitations /\ credentials' = credentials
        /\ enrollments' = enrollments /\ revocations' = revocations
    BY <1>1 DEF Enrolling!RecordRule
  <2>2. Enrolling!TypeOK'
    BY <2>1 DEF EnrollmentInv, Enrolling!TypeOK
  <2>3. QED
    BY <2>1, <2>2
       DEF EnrollmentInv, CredentialsAreSent, Enrolling!OneLiveToken, Enrolling!TokensIdentify,
           Enrolling!LineagesIdentify, Enrolling!EnrollmentsAreEarned, Enrolling!Invited,
           Enrolling!Status, RevocationStays
<1>2. ASSUME NEW i \in Invitations, NEW l \in EnrolledLineages, NEW d \in Digests \cup {Blank},
             NEW at \in Hours, Enrolling!IssueInvitation(i, l, d, at)
      PROVE  EnrollmentInv' /\ RevocationStays
  BY <1>2, IssueInvitationKept, OneInvitationSettled
<1>3. ASSUME NEW i \in Invitations, NEW at \in Hours, NEW n \in DOMAIN credentials[i],
             Enrolling!Enroll(i, n, at)
      PROVE  EnrollmentInv' /\ RevocationStays
  BY <1>3, EnrollKept, OneInvitationSettled
<1>4. ASSUME NEW i \in Invitations, NEW d \in Digests \cup {Blank}, NEW at \in Hours,
             Enrolling!Reissue(i, d, at)
      PROVE  EnrollmentInv' /\ RevocationStays
  BY <1>4, ReissueKept, OneInvitationSettled
<1>5. ASSUME NEW i \in Invitations, NEW portReturns \in BOOLEAN,
             Enrolling!RevokeInvitation(i, portReturns)
      PROVE  EnrollmentInv' /\ RevocationStays
  BY <1>5, RevokeInvitationKept, OneInvitationSettled
<1>6. QED
  BY <1>1, <1>2, <1>3, <1>4, <1>5 DEF Enrolling!Next

LEMMA EnrollmentInit == Init => EnrollmentInv
<1> SUFFICES ASSUME Init PROVE EnrollmentInv
  OBVIOUS
<1>1. /\ signed = {} /\ revocations = {}
      /\ invitations = [i \in Invitations |-> None]
      /\ credentials = [i \in Invitations |-> << >>]
      /\ enrollments = [i \in Invitations |-> None]
  BY DEF Init, Enrolling!Init
<1>2. Enrolling!TypeOK
  BY <1>1 DEF Enrolling!TypeOK
<1>3. QED
  BY <1>1, <1>2
     DEF EnrollmentInv, CredentialsAreSent, Enrolling!OneLiveToken, Enrolling!TokensIdentify,
         Enrolling!LineagesIdentify, Enrolling!EnrollmentsAreEarned, Enrolling!Invited

LEMMA EnrollmentSteps == EnrollmentInv /\ [Next]_vars => EnrollmentInv'
<1> SUFFICES ASSUME EnrollmentInv, [Next]_vars PROVE EnrollmentInv'
  OBVIOUS
<1>1. CASE EnrollmentStep
  BY <1>1, EnrollmentNext DEF EnrollmentStep
<1>2. CASE UNCHANGED enrollment
  <2>1. /\ signed' = signed /\ invitations' = invitations /\ credentials' = credentials
        /\ enrollments' = enrollments /\ revocations' = revocations
    BY <1>2 DEF enrollment
  <2>2. Enrolling!TypeOK'
    BY <2>1 DEF EnrollmentInv, Enrolling!TypeOK
  <2>3. QED
    BY <2>1, <2>2
       DEF EnrollmentInv, CredentialsAreSent, Enrolling!OneLiveToken, Enrolling!TokensIdentify,
           Enrolling!LineagesIdentify, Enrolling!EnrollmentsAreEarned, Enrolling!Invited,
           Enrolling!Status
<1>3. QED
  BY <1>1, <1>2 DEF Next, vars, GateStep, BookStep, SessionStep, WithdrawalStep, HoldStep,
                    LedgerStep, ComplaintStep, OutageStep, RestoreStep

(* A token, a lineage and an enrollment mean one participant, and only the *)
(* last token sent works, through reissues and revocations that fail       *)
(* halfway (ClosedBetaEnrollment).                                         *)
THEOREM TokensAlwaysIdentify == Spec => []TokensIdentifyParticipants
<1>1. EnrollmentInv => TokensIdentifyParticipants
  BY DEF EnrollmentInv, TokensIdentifyParticipants
<1>2. QED
  BY <1>1, EnrollmentInit, EnrollmentSteps, PTL DEF Spec
-----------------------------------------------------------------------------
(* The gate and the calendar.                                              *)

\* The second half opens on evidence; an evaluation is of a report signed after the freeze.
GateInv ==
  /\ now \in Nat
  /\ \A e \in evaluations : \E r \in Reports : Gate!Evaluable(r) /\ e = Gate!Evaluation(r)
  /\ authorization # None => authorization \in Gate!Authorization
  /\ Gate!OpensOnEvidence

LEMMA GateConstants ==
  /\ Day \in Nat /\ GraceHours \in Nat /\ 0 < GraceHours /\ GraceHours < Day
  /\ Half \in Nat \ {0} /\ Gate!FreezeAt \in Nat
  /\ \A r \in Reports : r.at \in Nat
  /\ \A d \in Decisions : d.at \in Nat
  /\ None \notin Gate!Authorization /\ None \notin Decisions
<1>1. /\ Day \in Nat /\ GraceHours \in Nat /\ 0 < GraceHours /\ GraceHours < Day
      /\ Half \in Nat \ {0}
  BY OperationsAssumption DEF Gate!CalendarAssumption
<1>2. Gate!FreezeAt \in Nat
  <2>1. Half - 1 \in Nat
    BY <1>1
  <2>2. (Half - 1) * Day \in Nat
    BY <1>1, <2>1
  <2>3. QED
    BY <1>1, <2>2 DEF Gate!FreezeAt, Gate!DayStart
<1>3. /\ \A r \in Reports : r.at \in Nat
      /\ \A d \in Decisions : d.at \in Nat
      /\ None \notin Gate!Authorization /\ None \notin Decisions
  BY OperationsAssumption DEF Gate!TimeAssumption, Gate!NoneAssumption
<1>4. QED
  BY <1>1, <1>2, <1>3

LEMMA NextMidnightIsLater ==
  ASSUME NEW t \in Nat, NEW D \in Nat, 0 < D
  PROVE  ((t \div D) + 1) * D \in Nat /\ t < ((t \div D) + 1) * D
<1> DEFINE q == t \div D
<1>1. q \in Int /\ t % D \in 0..(D - 1) /\ t = D * q + (t % D)
  OBVIOUS
<1>2. q \in Nat
  OBVIOUS
<1> HIDE DEF q
<1>3. (q + 1) * D = D * q + D
  BY <1>1
<1>4. QED
  BY <1>1, <1>2, <1>3

LEMMA MultiplesApart ==
  ASSUME NEW a \in Nat, NEW b \in Nat, NEW D \in Nat, a < b
  PROVE  a * D \in Nat /\ b * D \in Nat /\ a * D + D <= b * D
OBVIOUS

\* A decision to open day 8 that is not refused rests on its report.
LEMMA AcceptedOnEvidence ==
  ASSUME NEW d \in Decisions, NEW r \in Reports, Gate!Evaluable(r),
         Gate!AuthorizationReason(d, Gate!Evaluation(r)) = "NONE"
  PROVE  /\ r.id = d.report /\ r.version = d.version
         /\ Gate!FreezeAt <= r.at /\ r.at <= d.at
         /\ \/ \A c \in DOMAIN Criteria :
                 /\ r.observed[c] # None
                 /\ ~Gate!Insufficient(Criteria[c], r.observed[c])
                 /\ Gate!Meets(Criteria[c], r.observed[c])
            \/ /\ d.rationale # None
               /\ d.rationale.report = r.id /\ d.rationale.verified
               /\ r.at <= d.rationale.at /\ d.rationale.at <= d.at
<1> DEFINE e == Gate!Evaluation(r)
           outcome(c) == Gate!CriterionOutcome(Criteria[c], r.observed[c])
           outcomes == {outcome(c) : c \in DOMAIN Criteria}
<1>1. /\ e.report = r.id /\ e.version = r.version /\ e.at = r.at
      /\ e.recommendation = Gate!RecommendationFor(Gate!Overall(outcomes))
  BY DEF Gate!Evaluation
<1> HIDE DEF e
<1>2. /\ d.report = e.report /\ d.version = e.version /\ ~(d.at < e.at)
      /\ e.recommendation # "OPEN" => Gate!ValidRationale(d.rationale, e, d.at)
  BY DEF Gate!AuthorizationReason, e
<1>3. /\ r.id = d.report /\ r.version = d.version /\ Gate!FreezeAt <= r.at /\ r.at <= d.at
  BY <1>1, <1>2, GateConstants DEF Gate!Evaluable
<1>4. ASSUME e.recommendation = "OPEN", NEW c \in DOMAIN Criteria
      PROVE  /\ r.observed[c] # None
             /\ ~Gate!Insufficient(Criteria[c], r.observed[c])
             /\ Gate!Meets(Criteria[c], r.observed[c])
  <2>1. outcome(c) \in outcomes
    OBVIOUS
  <2> HIDE DEF outcomes
  <2>2. "FAIL" \notin outcomes /\ "INDETERMINATE" \notin outcomes
    BY <1>1, <1>4 DEF Gate!RecommendationFor, Gate!Overall
  <2>3. outcome(c) = "PASS"
    BY <2>1, <2>2 DEF Gate!CriterionOutcome
  <2>4. QED
    BY <2>3 DEF Gate!CriterionOutcome
<1>5. CASE e.recommendation = "OPEN"
  BY <1>3, <1>4, <1>5
<1>6. CASE e.recommendation # "OPEN"
  BY <1>1, <1>2, <1>3, <1>6 DEF Gate!ValidRationale
<1>7. QED
  BY <1>5, <1>6

LEMMA ReasonIsOne ==
  ASSUME NEW d, NEW e PROVE Gate!AuthorizationReason(d, e) \in Gate!Reasons
BY DEF Gate!AuthorizationReason, Gate!Reasons

\* An attempt adds to the history, and leaves an accepted decision as it was.
HistoryGoesOn ==
  \/ authorization' = authorization
  \/ \E x \in Gate!Audit :
       /\ authorization' \in Gate!Authorization
       /\ authorization'.audits = Append(Gate!History(authorization), x)
       /\ Gate!Allowed(authorization) =>
            authorization'.decision = authorization.decision /\ x.reason # "NONE"

LEMMA AuthorizeKept ==
  ASSUME GateInv, NEW d \in Decisions, NEW e \in evaluations \cup {None},
         Gate!AuthorizeDay8(d, e)
  PROVE  GateInv' /\ HistoryGoesOn
<1> DEFINE reason == Gate!AuthorizationReason(d, e)
           h == Gate!History(authorization)
<1>1. /\ authorization' = Gate!Authorized(authorization, d, e)
      /\ now' = now /\ evaluations' = evaluations
  BY DEF Gate!AuthorizeDay8
<1>2. h \in Seq(Gate!Audit)
  BY DEF GateInv, Gate!History, Gate!Authorization
<1>3. authorization # None => authorization.decision \in Decisions \cup {None}
  BY DEF GateInv, Gate!Authorization
<1>4. reason \in Gate!Reasons
  BY ReasonIsOne
<1>5. ASSUME NEW why \in Gate!Reasons, why # "NONE",
             authorization' = Gate!Denied(authorization, d, why)
      PROVE  GateInv' /\ HistoryGoesOn
  <2> DEFINE x == [decision |-> d, reason |-> why]
             kept == IF Gate!Allowed(authorization) THEN authorization.decision ELSE None
             a == [decision |-> kept, audits |-> Append(h, x)]
  <2>1. authorization' = a
    BY <1>5 DEF Gate!Denied
  <2>2. x \in Gate!Audit /\ x.reason # "NONE"
    BY <1>5 DEF Gate!Audit
  <2>3. kept \in Decisions \cup {None}
    BY <1>3 DEF Gate!Allowed
  <2> HIDE DEF x
  <2>4. Append(h, x) \in Seq(Gate!Audit)
    BY <1>2, <2>2
  <2> HIDE DEF kept, h
  <2>5. a \in Gate!Authorization /\ a.decision = kept /\ a.audits = Append(h, x)
    BY <2>3, <2>4 DEF Gate!Authorization
  <2> HIDE DEF a
  <2>6. Gate!Allowed(authorization)' <=> Gate!Allowed(authorization)
    BY <2>1, <2>5, GateConstants DEF Gate!Allowed, kept
  <2>7. Gate!Allowed(authorization) => authorization'.decision = authorization.decision
    BY <2>1, <2>5 DEF kept
  <2>8. Gate!OpensOnEvidence'
    BY <2>6, <2>7 DEF GateInv, Gate!OpensOnEvidence
  <2>9. QED
    BY <1>1, <2>1, <2>2, <2>5, <2>7, <2>8 DEF GateInv, HistoryGoesOn, h
<1>6. CASE ~Gate!Allowed(authorization) /\ reason = "NONE"
  <2> DEFINE x == [decision |-> d, reason |-> "NONE"]
             a == [decision |-> d, audits |-> Append(h, x)]
  <2>1. authorization' = a
    BY <1>1, <1>6 DEF Gate!Authorized, Gate!Accepted
  <2>2. x \in Gate!Audit
    BY DEF Gate!Audit, Gate!Reasons
  <2> HIDE DEF x
  <2>3. Append(h, x) \in Seq(Gate!Audit)
    BY <1>2, <2>2
  <2> HIDE DEF h
  <2>4. a \in Gate!Authorization /\ a.decision = d /\ a.audits = Append(h, x)
    BY <2>3 DEF Gate!Authorization
  <2> HIDE DEF a
  <2>5. e # None
    BY <1>6 DEF Gate!AuthorizationReason
  <2>6. PICK r \in Reports : Gate!Evaluable(r) /\ e = Gate!Evaluation(r)
    BY <2>5 DEF GateInv
  <2>7. Gate!OpensOnEvidence'
    BY <1>6, <2>1, <2>4, <2>6, AcceptedOnEvidence DEF Gate!OpensOnEvidence
  <2>8. QED
    BY <1>1, <1>6, <2>1, <2>2, <2>4, <2>7 DEF GateInv, HistoryGoesOn, h
<1>7. CASE authorization' = authorization
  BY <1>1, <1>7 DEF GateInv, HistoryGoesOn, Gate!OpensOnEvidence
<1>8. QED
  <2>1. {"IDEMPOTENCY_REPLAY_DRIFT", "DAY8_ALREADY_AUTHORIZED"} \subseteq Gate!Reasons
    BY DEF Gate!Reasons
  <2> HIDE DEF reason
  <2>2. authorization' =
          IF Gate!Allowed(authorization)
          THEN IF reason = "NONE" /\ d = authorization.decision THEN authorization
               ELSE IF reason = "NONE" /\ d.key = authorization.decision.key
                    THEN Gate!Denied(authorization, d, "IDEMPOTENCY_REPLAY_DRIFT")
               ELSE Gate!Denied(authorization, d,
                      IF reason = "NONE" THEN "DAY8_ALREADY_AUTHORIZED" ELSE reason)
          ELSE IF reason = "NONE" THEN Gate!Accepted(authorization, d)
               ELSE Gate!Denied(authorization, d, reason)
    BY <1>1 DEF Gate!Authorized, reason
  <2>3. QED
    BY <1>4, <1>5, <1>6, <1>7, <2>1, <2>2

LEMMA GateNext ==
  ASSUME GateInv, Gate!Next
  PROVE  GateInv' /\ HistoryGoesOn /\ now <= now'
<1>1. CASE Gate!Tick
  BY <1>1 DEF GateInv, Gate!Tick, HistoryGoesOn, Gate!OpensOnEvidence
<1>2. ASSUME NEW r \in Reports, Gate!EvaluateDay7Gate(r)
      PROVE  GateInv' /\ HistoryGoesOn /\ now <= now'
  BY <1>2 DEF GateInv, Gate!EvaluateDay7Gate, HistoryGoesOn, Gate!OpensOnEvidence
<1>3. ASSUME NEW d \in Decisions, NEW e \in evaluations \cup {None}, Gate!AuthorizeDay8(d, e)
      PROVE  GateInv' /\ HistoryGoesOn /\ now <= now'
  <2>1. GateInv' /\ HistoryGoesOn
    BY <1>3, AuthorizeKept
  <2>2. now' = now /\ now \in Nat
    BY <1>3 DEF GateInv, Gate!AuthorizeDay8
  <2>3. QED
    BY <2>1, <2>2
<1>4. QED
  BY <1>1, <1>2, <1>3 DEF Gate!Next

\* Where the windows are: those of the first half end before those of the second start.
LEMMA WindowsApart ==
  ASSUME GateInv
  PROVE  /\ \A n \in 1..Half : Gate!WindowStart(n) = (n - 1) * Day /\ Gate!WindowStart(n) \in Nat
                               /\ Gate!WindowStart(n) + Day + GraceHours <= Gate!FreezeAt
         /\ Gate!Allowed(authorization) =>
              /\ Gate!Day8Start(authorization) \in Nat
              /\ Gate!FreezeAt < Gate!Day8Start(authorization)
              /\ \A n \in (Half + 1)..(2 * Half) :
                   /\ Gate!WindowStart(n) = Gate!Day8Start(authorization) + (n - Half - 1) * Day
                   /\ (n - Half - 1) * Day \in Nat
<1>1. ASSUME NEW n \in 1..Half
      PROVE  Gate!WindowStart(n) = (n - 1) * Day /\ Gate!WindowStart(n) \in Nat
             /\ Gate!WindowStart(n) + Day + GraceHours <= Gate!FreezeAt
  <2>1. /\ n <= Half /\ n - 1 \in Nat /\ Half - 1 \in Nat
        /\ Day \in Nat /\ n \in Nat /\ Half \in Nat
    BY GateConstants
  <2>2. Gate!WindowStart(n) = (n - 1) * Day
    BY <2>1 DEF Gate!WindowStart, Gate!DayStart
  <2>3. (n - 1) * Day \in Nat /\ (Half - 1) * Day \in Nat /\ (n - 1) * Day <= (Half - 1) * Day
    <3>1. CASE n = Half
      BY <2>1, <3>1
    <3>2. CASE n # Half
      <4>1. n - 1 < Half - 1
        BY <2>1, <3>2
      <4>2. /\ (n - 1) * Day \in Nat /\ (Half - 1) * Day \in Nat
            /\ (n - 1) * Day + Day <= (Half - 1) * Day
        BY <2>1, <4>1, MultiplesApart
      <4>3. QED
        BY <2>1, <4>2
    <3>3. QED
      BY <3>1, <3>2
  <2>4. QED
    BY <2>2, <2>3, GateConstants DEF Gate!FreezeAt, Gate!DayStart
<1>2. ASSUME Gate!Allowed(authorization)
      PROVE  /\ Gate!Day8Start(authorization) \in Nat
             /\ Gate!FreezeAt < Gate!Day8Start(authorization)
  <2>1. authorization.decision \in Decisions
    BY <1>2 DEF GateInv, Gate!Allowed, Gate!Authorization
  <2>2. authorization.decision.at \in Nat /\ Gate!FreezeAt <= authorization.decision.at
    BY <1>2, <2>1, GateConstants DEF GateInv, Gate!OpensOnEvidence
  <2>3. QED
    BY <2>2, GateConstants, NextMidnightIsLater DEF Gate!Day8Start, Gate!NextMidnight
<1>3. ASSUME NEW n \in (Half + 1)..(2 * Half)
      PROVE  /\ Gate!WindowStart(n) = Gate!Day8Start(authorization) + (n - Half - 1) * Day
             /\ (n - Half - 1) * Day \in Nat
  <2>1. ~(n <= Half) /\ n - Half - 1 \in Nat /\ Day \in Nat
    BY GateConstants
  <2>2. QED
    BY <2>1 DEF Gate!WindowStart
<1>4. QED
  BY <1>1, <1>2, <1>3

\* The days that may be opened, in order: one ends before the next starts.
LEMMA DaysApart ==
  ASSUME GateInv, NEW n \in Gate!Ordinals, NEW m \in Gate!Ordinals, n < m,
         n > Half \/ m > Half => Gate!Allowed(authorization)
  PROVE  /\ Gate!WindowStart(n) \in Nat /\ Gate!WindowStart(m) \in Nat
         /\ Gate!WindowStart(n) + Day <= Gate!WindowStart(m)
<1>1. /\ n \in 1..Half \/ n \in (Half + 1)..(2 * Half)
      /\ m \in 1..Half \/ m \in (Half + 1)..(2 * Half)
  BY GateConstants DEF Gate!Ordinals
<1>2. CASE m \in 1..Half
  <2>1. n \in 1..Half /\ n - 1 \in Nat /\ m - 1 \in Nat /\ n - 1 < m - 1 /\ Day \in Nat
    BY <1>1, <1>2, GateConstants
  <2>2. (n - 1) * Day + Day <= (m - 1) * Day
    BY <2>1, MultiplesApart
  <2>3. QED
    BY <1>2, <2>1, <2>2, WindowsApart
<1>3. CASE n \in 1..Half /\ m \in (Half + 1)..(2 * Half)
  <2>1. m > Half
    BY <1>3, GateConstants
  <2> DEFINE s == Gate!Day8Start(authorization)
             k == (m - Half - 1) * Day
  <2>2. s \in Nat /\ Gate!FreezeAt < s /\ Gate!WindowStart(m) = s + k /\ k \in Nat
    BY <1>3, <2>1, WindowsApart
  <2>3. /\ Gate!WindowStart(n) \in Nat
        /\ Gate!WindowStart(n) + Day + GraceHours <= Gate!FreezeAt
    BY <1>3, WindowsApart
  <2> HIDE DEF s, k
  <2>4. QED
    BY <2>2, <2>3, GateConstants
<1>4. CASE n \in (Half + 1)..(2 * Half) /\ m \in (Half + 1)..(2 * Half)
  <2>1. /\ n > Half /\ n - Half - 1 \in Nat /\ m - Half - 1 \in Nat
        /\ n - Half - 1 < m - Half - 1 /\ Day \in Nat
    BY <1>4, GateConstants
  <2>2. (n - Half - 1) * Day + Day <= (m - Half - 1) * Day
    BY <2>1, MultiplesApart
  <2> DEFINE s == Gate!Day8Start(authorization)
             j == (n - Half - 1) * Day
             k == (m - Half - 1) * Day
  <2>3. /\ s \in Nat /\ Gate!WindowStart(n) = s + j /\ Gate!WindowStart(m) = s + k
        /\ j \in Nat /\ k \in Nat
    BY <1>4, <2>1, WindowsApart
  <2> HIDE DEF s, j, k
  <2>4. j + Day <= k
    BY <2>2 DEF j, k
  <2>5. QED
    BY <2>1, <2>3, <2>4
<1>5. QED
  BY <1>1, <1>2, <1>3, <1>4, GateConstants

LEMMA OnlyOneDayOpen ==
  ASSUME GateInv PROVE Gate!OneDayOpen
<1> DEFINE Open(n) == Gate!ReleaseAllowed(n, "ISSUE", "NOT_STARTED", FALSE)
           Answers(n) == Gate!ReleaseAllowed(n, "WRITE_EVENT", "IN_PROGRESS", TRUE)
<1>1. ASSUME NEW n \in Gate!Ordinals, Open(n)
      PROVE  /\ n > Half => Gate!Allowed(authorization)
             /\ now >= Gate!WindowStart(n) /\ now < Gate!WindowStart(n) + Day
  BY <1>1 DEF Gate!ReleaseAllowed, Gate!Terminal, Gate!WindowEnd
<1>2. ASSUME NEW n \in Gate!Ordinals, Answers(n)
      PROVE  now < Gate!WindowStart(n) + Day \/ now < Gate!WindowStart(n) + Day + GraceHours
  BY <1>2 DEF Gate!ReleaseAllowed, Gate!Terminal, Gate!WindowEnd, Gate!GraceEnd
<1> HIDE DEF Open, Answers
<1>3. now \in Nat
  BY DEF GateInv
<1>4. ASSUME NEW n \in Gate!Ordinals, NEW m \in Gate!Ordinals, n < m, Open(n), Open(m)
      PROVE  FALSE
  <2>1. n > Half \/ m > Half => Gate!Allowed(authorization)
    BY <1>1, <1>4
  <2>2. /\ Gate!WindowStart(n) \in Nat /\ Gate!WindowStart(m) \in Nat
        /\ Gate!WindowStart(n) + Day <= Gate!WindowStart(m)
    BY <1>4, <2>1, DaysApart
  <2>3. now < Gate!WindowStart(n) + Day /\ now >= Gate!WindowStart(m)
    BY <1>1, <1>4
  <2>4. QED
    BY <1>3, <2>2, <2>3, GateConstants
<1>5. ASSUME NEW n \in Gate!Ordinals, NEW m \in Gate!Ordinals, Open(n), Answers(m),
             ~(n <= Half), ~(m > Half)
      PROVE  FALSE
  <2>1. n \in (Half + 1)..(2 * Half) /\ m \in 1..Half /\ n > Half
    BY <1>5, GateConstants DEF Gate!Ordinals
  <2> DEFINE s == Gate!Day8Start(authorization)
             k == (n - Half - 1) * Day
  <2>2. /\ s \in Nat /\ Gate!FreezeAt < s /\ Gate!WindowStart(n) = s + k /\ k \in Nat
    BY <1>1, <1>5, <2>1, WindowsApart
  <2>3. /\ Gate!WindowStart(m) \in Nat
        /\ Gate!WindowStart(m) + Day + GraceHours <= Gate!FreezeAt
    BY <2>1, WindowsApart
  <2> HIDE DEF s, k
  <2>4. now >= Gate!WindowStart(n)
    BY <1>1, <1>5
  <2>5. now < Gate!WindowStart(m) + Day \/ now < Gate!WindowStart(m) + Day + GraceHours
    BY <1>2, <1>5
  <2>6. QED
    BY <1>3, <2>2, <2>3, <2>4, <2>5, GateConstants
<1>6. ASSUME NEW n \in Gate!Ordinals, NEW m \in Gate!Ordinals, n # m, Open(n)
      PROVE  ~Open(m) /\ (n <= Half \/ m > Half \/ ~Answers(m))
  <2>1. n < m \/ m < n
    BY <1>6, GateConstants DEF Gate!Ordinals
  <2>2. QED
    BY <1>4, <1>5, <1>6, <2>1
<1>7. QED
  BY <1>6 DEF Gate!OneDayOpen, Open, Answers

LEMMA GateInit == Init => GateInv
BY GateConstants DEF Init, Gate!Init, GateInv, Gate!OpensOnEvidence, Gate!Allowed

LEMMA GateSteps == GateInv /\ [Next]_vars => GateInv' /\ HistoryGoesOn /\ now <= now'
<1> SUFFICES ASSUME GateInv, [Next]_vars PROVE GateInv' /\ HistoryGoesOn /\ now <= now'
  OBVIOUS
<1>1. CASE GateStep
  BY <1>1, GateNext DEF GateStep
<1>2. CASE UNCHANGED gate
  <2>1. now' = now /\ evaluations' = evaluations /\ authorization' = authorization
    BY <1>2 DEF gate
  <2>2. QED
    BY <2>1 DEF GateInv, HistoryGoesOn, Gate!OpensOnEvidence
<1>3. QED
  BY <1>1, <1>2 DEF Next, vars, BookStep, SessionStep, EnrollmentStep, WithdrawalStep, HoldStep,
                    LedgerStep, ComplaintStep, OutageStep, RestoreStep

(* The second half of the beta opens on evidence, and no two days at once  *)
(* (evaluateDay7Gate, authorizeDay8, evaluateReleaseWindow).               *)
THEOREM SecondHalfAlwaysEarned == Spec => []SecondHalfIsEarned
<1>1. GateInv => SecondHalfIsEarned
  BY OnlyOneDayOpen DEF GateInv, SecondHalfIsEarned
<1>2. QED
  BY <1>1, GateInit, GateSteps, PTL DEF Spec

\* What is settled of the gate in a step.
LEMMA GateSettled ==
  ASSUME GateInv, GateInv', HistoryGoesOn, now <= now'
  PROVE  /\ Gate!Allowed(authorization) =>
              /\ authorization'.decision = authorization.decision
              /\ Gate!AcceptedAudits(authorization') = Gate!AcceptedAudits(authorization)
         /\ Gate!History(authorization) =
              SubSeq(Gate!History(authorization'), 1, Len(Gate!History(authorization)))
         /\ \A n \in Gate!Ordinals :
              (n <= Half \/ Gate!Allowed(authorization)) /\ now >= Gate!GraceEnd(n)
              => /\ ~Gate!ReleaseAllowed(n, "WRITE_EVENT", "IN_PROGRESS", TRUE)'
                 /\ (Gate!ResultingStatus(n, "READ", "IN_PROGRESS") = "EXPIRED")'
<1> DEFINE h == Gate!History(authorization)
           g == Gate!History(authorization')
<1>1. h \in Seq(Gate!Audit)
  BY DEF GateInv, Gate!History, Gate!Authorization
<1>2. \/ g = h
      \/ \E x \in Gate!Audit :
           g = Append(h, x) /\ (Gate!Allowed(authorization) => x.reason # "NONE")
  BY GateConstants DEF HistoryGoesOn, Gate!History
<1>3. Gate!Allowed(authorization) =>
        /\ authorization'.decision = authorization.decision /\ authorization' # None
        /\ authorization.audits = h /\ authorization'.audits = g
  BY GateConstants DEF HistoryGoesOn, Gate!History, Gate!Allowed
<1> HIDE DEF h, g
<1>4. h = SubSeq(g, 1, Len(h))
  <2>1. CASE g = h
    BY <1>1, <2>1
  <2>2. ASSUME NEW x \in Gate!Audit, g = Append(h, x) PROVE h = SubSeq(g, 1, Len(h))
    BY <1>1, <2>2
  <2>3. QED
    BY <1>2, <2>1, <2>2
<1>5. ASSUME Gate!Allowed(authorization)
      PROVE  Gate!AcceptedAudits(authorization') = Gate!AcceptedAudits(authorization)
  <2>1. CASE g = h
    BY <1>3, <1>5, <2>1 DEF Gate!AcceptedAudits
  <2>2. ASSUME NEW x \in Gate!Audit, g = Append(h, x), x.reason # "NONE"
        PROVE  {n \in DOMAIN g : g[n].reason = "NONE"} = {n \in DOMAIN h : h[n].reason = "NONE"}
    <3>1. /\ DOMAIN g = 1..(Len(h) + 1) /\ DOMAIN h = 1..Len(h) /\ Len(h) \in Nat
          /\ g[Len(h) + 1] = x /\ \A n \in 1..Len(h) : g[n] = h[n]
      BY <1>1, <2>2
    <3>2. QED
      BY <2>2, <3>1
  <2>3. QED
    BY <1>2, <1>3, <1>5, <2>1, <2>2 DEF Gate!AcceptedAudits
<1>6. ASSUME NEW n \in Gate!Ordinals, n <= Half \/ Gate!Allowed(authorization),
             now >= Gate!GraceEnd(n)
      PROVE  /\ ~Gate!ReleaseAllowed(n, "WRITE_EVENT", "IN_PROGRESS", TRUE)'
             /\ (Gate!ResultingStatus(n, "READ", "IN_PROGRESS") = "EXPIRED")'
  <2>1. n \in 1..Half \/ n \in (Half + 1)..(2 * Half)
    BY GateConstants DEF Gate!Ordinals
  <2>2. n > Half => Gate!Allowed(authorization) /\ Gate!Allowed(authorization)'
    BY <1>3, <1>6, <2>1, GateConstants DEF Gate!Allowed
  <2>3. Gate!WindowStart(n)' = Gate!WindowStart(n)
    BY <1>3, <2>1, <2>2, GateConstants DEF Gate!WindowStart, Gate!Day8Start
  <2>4. Gate!WindowStart(n) \in Nat
    <3>1. CASE n \in 1..Half
      BY <3>1, WindowsApart
    <3>2. CASE n \in (Half + 1)..(2 * Half)
      <4> DEFINE s == Gate!Day8Start(authorization)
                 k == (n - Half - 1) * Day
      <4>1. n > Half
        BY <3>2, GateConstants
      <4>2. s \in Nat /\ k \in Nat /\ Gate!WindowStart(n) = s + k
        BY <2>2, <3>2, <4>1, WindowsApart
      <4> HIDE DEF s, k
      <4>3. QED
        BY <4>2
    <3>3. QED
      BY <2>1, <3>1, <3>2
  <2>5. /\ now' >= Gate!WindowStart(n) + Day + GraceHours
        /\ now' >= Gate!WindowStart(n) + Day
    BY <1>6, <2>4, GateConstants DEF GateInv, Gate!GraceEnd, Gate!WindowEnd
  <2>6. ~(now' < Gate!WindowEnd(n)') /\ ~(now' < Gate!GraceEnd(n)') /\ now' >= Gate!GraceEnd(n)'
    BY <2>3, <2>4, <2>5, GateConstants DEF GateInv, Gate!GraceEnd, Gate!WindowEnd
  <2>7. ~Gate!ReleaseAllowed(n, "WRITE_EVENT", "IN_PROGRESS", TRUE)'
    BY <2>6 DEF Gate!ReleaseAllowed, Gate!Terminal
  <2>8. (Gate!ResultingStatus(n, "READ", "IN_PROGRESS") = "EXPIRED")'
    BY <2>2, <2>6 DEF Gate!ResultingStatus, Gate!Terminal
  <2>9. QED
    BY <2>7, <2>8
<1>7. QED
  BY <1>3, <1>4, <1>5, <1>6 DEF h, g
-----------------------------------------------------------------------------
(* The manifest book.                                                      *)

\* The n-th manifest version of a day.
Nth(d, n) == lineages[d].versions[n]
Numbers(d) == DOMAIN lineages[d].versions

\* No two versions share their id, and versions of two days share no round.
VersionsApart ==
  \A d, e \in Days : Book!HasLineage(d) /\ Book!HasLineage(e) =>
    \A n \in Numbers(d), m \in Numbers(e) :
      /\ Nth(d, n).id = Nth(e, m).id => d = e /\ n = m
      /\ d # e => \A p, q \in Positions : Nth(d, n).rounds[p] # Nth(e, m).rounds[q]

RoundsDistinct ==
  \A d \in Days : Book!HasLineage(d) =>
    \A n \in Numbers(d), p, q \in Positions :
      Nth(d, n).rounds[p] = Nth(d, n).rounds[q] => p = q

\* A session was issued a version of its day, and is the participant's only one that day.
BindingsListed ==
  \A s \in SessionIds : bindings[s] # None =>
    /\ Book!HasLineage(bindings[s].day)
    /\ \E n \in Numbers(bindings[s].day) : Nth(bindings[s].day, n).id = bindings[s].version

OneSessionADay ==
  \A s, t \in SessionIds :
    /\ s # t /\ bindings[s] # None /\ bindings[t] # None
    /\ bindings[s].participant = bindings[t].participant
    => bindings[s].day # bindings[t].day

\* What a version left out of the one before it is in no later one.
ReplacedStaysOut ==
  \A d \in Days : Book!HasLineage(d) =>
    \A n \in Numbers(d) \ {1} :
      \E p \in Positions :
        /\ \A q \in Positions : q # p => Nth(d, n).rounds[q] = Nth(d, n - 1).rounds[q]
        /\ \A m \in Numbers(d), q \in Positions :
             n <= m => Nth(d, m).rounds[q] # Nth(d, n - 1).rounds[p]

BookInv ==
  /\ Book!TypeOK /\ VersionsApart /\ RoundsDistinct /\ BindingsListed /\ OneSessionADay
  /\ ReplacedStaysOut

LEMMA BookNone ==
  None \notin Book!Lineage /\ None \notin Book!Binding
BY OperationsAssumption DEF Book!NoneAssumption

LEMMA BookTypes ==
  ASSUME BookInv
  PROVE  /\ \A d \in Days : Book!HasLineage(d) =>
              /\ lineages[d].id \in LineageIds
              /\ lineages[d].versions \in Seq(Book!ManifestVersion)
              /\ Len(lineages[d].versions) \in Nat \ {0}
              /\ Numbers(d) = 1..Len(lineages[d].versions)
              /\ \A n \in Numbers(d) : Nth(d, n) \in Book!ManifestVersion
         /\ \A s \in SessionIds : bindings[s] # None => bindings[s] \in Book!Binding
<1>1. ASSUME NEW d \in Days, Book!HasLineage(d)
      PROVE  /\ lineages[d].id \in LineageIds
             /\ lineages[d].versions \in Seq(Book!ManifestVersion)
             /\ lineages[d].versions # << >>
  BY <1>1 DEF BookInv, Book!TypeOK, Book!HasLineage, Book!Lineage
<1>2. ASSUME NEW d \in Days, Book!HasLineage(d)
      PROVE  /\ Len(lineages[d].versions) \in Nat \ {0}
             /\ Numbers(d) = 1..Len(lineages[d].versions)
             /\ \A n \in Numbers(d) : Nth(d, n) \in Book!ManifestVersion
  <2> DEFINE vs == lineages[d].versions
  <2>1. vs \in Seq(Book!ManifestVersion) /\ vs # << >>
    BY <1>1, <1>2
  <2> HIDE DEF vs
  <2>2. Len(vs) \in Nat \ {0} /\ DOMAIN vs = 1..Len(vs)
        /\ \A n \in DOMAIN vs : vs[n] \in Book!ManifestVersion
    BY <2>1, LenProperties, EmptySeq, ElementOfSeq
  <2>3. QED
    BY <2>2 DEF vs, Numbers, Nth
<1>3. \A s \in SessionIds : bindings[s] # None => bindings[s] \in Book!Binding
  BY DEF BookInv, Book!TypeOK
<1>4. QED
  BY <1>1, <1>2, <1>3

\* Every round of a version is scheduled.
LEMMA ScheduledRounds ==
  ASSUME BookInv, NEW d \in Days, Book!HasLineage(d)
  PROVE  /\ Book!Current(d) = Nth(d, Len(lineages[d].versions))
         /\ \A n \in Numbers(d), q \in Positions : Nth(d, n).rounds[q] \in Book!Scheduled(d)
         /\ \A n \in Numbers(d) : Nth(d, n) \in Book!Versions(d)
BY DEF Book!Current, Nth, Numbers, Book!Scheduled, Book!Versions, Book!RoundsOf

\* What becomes of the book when the version v is added to a day.
VersionAdded(day, v) ==
  LET last == Len(lineages[day].versions)
  IN /\ \A d \in Days : Book!HasLineage(d)' = Book!HasLineage(d)
     /\ \A d \in Days \ {day} : lineages'[d] = lineages[d]
     /\ \A d \in Days \ {day} : Book!HasLineage(d) => Numbers(d)' = Numbers(d)
     /\ Numbers(day)' = Numbers(day) \cup {last + 1}
     /\ Len(lineages'[day].versions) = last + 1
     /\ \A d \in Days : Book!HasLineage(d) => \A n \in Numbers(d) : Nth(d, n)' = Nth(d, n)
     /\ lineages'[day].versions[last + 1] = v

LEMMA PromoteAdds ==
  ASSUME BookInv, NEW day \in Days, NEW version \in VersionIds, NEW p \in Positions,
         NEW kind \in {"RESERVE_PROMOTION", "CORRECTION"}, NEW replacement \in Rounds,
         Book!PromoteVersion(day, version, kind, p, replacement)
  PROVE  \E v \in Book!ManifestVersion :
           /\ VersionAdded(day, v)
           /\ v.id = version /\ v.kind = kind
           /\ v.rounds = [Book!Current(day).rounds EXCEPT ![p] = replacement]
           /\ \A a, b \in Positions : v.rounds[a] = v.rounds[b] => a = b
           /\ lineages' \in [Days -> Book!Lineage \cup {None}]
           /\ lineages'[day].versions # << >>
<1> DEFINE vs == lineages[day].versions
           last == Len(vs)
           next == [Book!Current(day).rounds EXCEPT ![p] = replacement]
           v == Book!Version(version, kind, next)
           after == [lineages[day] EXCEPT !.versions = Append(@, v)]
<1>1. Book!HasLineage(day) /\ lineages' = [lineages EXCEPT ![day] = after]
      /\ Book!ValidRounds(next)
  BY DEF Book!PromoteVersion
<1>2. /\ vs \in Seq(Book!ManifestVersion) /\ last \in Nat \ {0} /\ DOMAIN vs = 1..last
      /\ \A n \in DOMAIN vs : vs[n] \in Book!ManifestVersion
      /\ lineages[day] \in Book!Lineage
  BY <1>1, BookTypes DEF BookInv, Book!TypeOK, Book!HasLineage, Numbers, Nth
<1>3. next \in [Positions -> Rounds]
  BY <1>1, <1>2 DEF Book!Current, Book!ManifestVersion
<1>4. v \in Book!ManifestVersion /\ v.id = version /\ v.kind = kind /\ v.rounds = next
  BY <1>3 DEF Book!Version, Book!ManifestVersion
<1>5. \A a, b \in Positions : v.rounds[a] = v.rounds[b] => a = b
  BY <1>1, <1>4 DEF Book!ValidRounds
<1> HIDE DEF v
<1>6. /\ Append(vs, v) \in Seq(Book!ManifestVersion) /\ Len(Append(vs, v)) = last + 1
      /\ DOMAIN Append(vs, v) = (1..last) \cup {last + 1}
      /\ \A n \in 1..last : Append(vs, v)[n] = vs[n]
      /\ Append(vs, v)[last + 1] = v
      /\ Append(vs, v) # << >>
  BY <1>2, <1>4, AppendProperties, LenProperties
<1>7. after \in Book!Lineage /\ after.versions = Append(vs, v)
  BY <1>2, <1>6 DEF Book!Lineage
<1> HIDE DEF after
<1>8. lineages' \in [Days -> Book!Lineage \cup {None}]
      /\ lineages'[day] = after
      /\ \A d \in Days \ {day} : lineages'[d] = lineages[d]
  BY <1>1, <1>7 DEF BookInv, Book!TypeOK
<1>9. after # None
  BY <1>7, BookNone
<1>10. lineages'[day].versions = Append(vs, v)
  BY <1>7, <1>8
<1> HIDE DEF vs
<1>11. VersionAdded(day, v)
  <2>1. \A d \in Days : Book!HasLineage(d)' = Book!HasLineage(d)
    BY <1>1, <1>8, <1>9 DEF Book!HasLineage
  <2>2. \A d \in Days \ {day} : Book!HasLineage(d) => Numbers(d)' = Numbers(d)
    BY <1>8 DEF Numbers
  <2>3. Numbers(day)' = Numbers(day) \cup {last + 1}
    BY <1>2, <1>6, <1>10 DEF Numbers, vs
  <2>4. Len(lineages'[day].versions) = last + 1 /\ lineages'[day].versions[last + 1] = v
    BY <1>6, <1>10
  <2>5. \A d \in Days : Book!HasLineage(d) => \A n \in Numbers(d) : Nth(d, n)' = Nth(d, n)
    <3>1. ASSUME NEW n \in Numbers(day) PROVE Nth(day, n)' = Nth(day, n)
      <4>1. n \in 1..last /\ Nth(day, n) = vs[n]
        BY <1>2 DEF Numbers, Nth, vs
      <4>2. Nth(day, n)' = Append(vs, v)[n]
        BY <1>10 DEF Nth
      <4>3. QED
        BY <4>1, <4>2, <1>6
    <3>2. \A d \in Days \ {day} : \A n \in Numbers(d) : Nth(d, n)' = Nth(d, n)
      BY <1>8 DEF Nth
    <3>3. QED
      BY <3>1, <3>2
  <2>6. QED
    BY <1>8, <2>1, <2>2, <2>3, <2>4, <2>5 DEF VersionAdded, vs
<1>12. QED
  BY <1>4, <1>5, <1>6, <1>8, <1>10, <1>11

\* The new version is unlike the others, and no one was issued it.
LEMMA AddedKeepsApart ==
  ASSUME BookInv, NEW day \in Days, Book!HasLineage(day), NEW v \in Book!ManifestVersion,
         NEW p \in Positions, VersionAdded(day, v), UNCHANGED bindings,
         Book!VersionIdAvailable(v.id),
         v.rounds[p] \notin Book!Scheduled(day), Book!RoundsAvailable({v.rounds[p]}, day),
         \A q \in Positions : q # p => v.rounds[q] = Book!Current(day).rounds[q],
         \A a, b \in Positions : v.rounds[a] = v.rounds[b] => a = b
  PROVE  VersionsApart' /\ RoundsDistinct' /\ BindingsListed' /\ OneSessionADay'
         /\ ReplacedStaysOut'
<1> DEFINE last == Len(lineages[day].versions)
<1>1. /\ Numbers(day) = 1..last /\ last \in Nat \ {0}
      /\ \A n \in Numbers(day) : n \in Nat
  BY BookTypes
<1>2. /\ last \in Numbers(day) /\ last + 1 \notin Numbers(day) /\ last + 1 \in Numbers(day)'
      /\ \A n \in Numbers(day)' : n \in Numbers(day) \/ n = last + 1
  BY <1>1 DEF VersionAdded
<1>3. lineages'[day].versions[last + 1] = v
  BY DEF VersionAdded
<1> HIDE DEF last
<1>4. ASSUME NEW d \in Days, Book!HasLineage(d)', NEW n \in Numbers(d)'
      PROVE  /\ Book!HasLineage(d)
             /\ \/ n \in Numbers(d) /\ Nth(d, n)' = Nth(d, n)
                \/ d = day /\ n = last + 1 /\ Nth(d, n)' = v
  <2>1. Book!HasLineage(d)
    BY <1>4 DEF VersionAdded
  <2>2. CASE d = day /\ n = last + 1
    BY <2>1, <2>2, <1>3 DEF Nth
  <2>3. CASE ~(d = day /\ n = last + 1)
    <3>1. n \in Numbers(d)
      BY <1>2, <1>4, <2>1, <2>3 DEF VersionAdded
    <3>2. QED
      BY <3>1, <2>1 DEF VersionAdded
  <2>4. QED
    BY <2>2, <2>3
<1>5. ASSUME NEW d \in Days, Book!HasLineage(d), NEW n \in Numbers(d)
      PROVE  /\ Nth(d, n).id # v.id
             /\ \A q \in Positions : Nth(d, n).rounds[q] # v.rounds[p]
             /\ d # day => \A a, b \in Positions : Nth(d, n).rounds[a] # v.rounds[b]
  <2>1. Nth(d, n).id # v.id
    BY <1>5, ScheduledRounds DEF Book!VersionIdAvailable
  <2>2. \A q \in Positions : Nth(d, n).rounds[q] # v.rounds[p]
    BY <1>5, ScheduledRounds DEF Book!RoundsAvailable
  <2>3. ASSUME d # day, NEW a \in Positions, NEW b \in Positions
        PROVE  Nth(d, n).rounds[a] # v.rounds[b]
    <3>1. CASE b = p
      BY <3>1, <2>2
    <3>2. CASE b # p
      <4>1. v.rounds[b] = Nth(day, last).rounds[b]
        BY <3>2, ScheduledRounds DEF last
      <4>2. QED
        BY <4>1, <1>2, <1>5, <2>3 DEF BookInv, VersionsApart
    <3>3. QED
      BY <3>1, <3>2
  <2>4. QED
    BY <2>1, <2>2, <2>3
<1>6. VersionsApart'
  <2> SUFFICES ASSUME NEW d \in Days, NEW e \in Days, Book!HasLineage(d)', Book!HasLineage(e)',
                      NEW n \in Numbers(d)', NEW m \in Numbers(e)'
               PROVE  /\ Nth(d, n)'.id = Nth(e, m)'.id => d = e /\ n = m
                      /\ d # e => \A a, b \in Positions :
                                    Nth(d, n)'.rounds[a] # Nth(e, m)'.rounds[b]
    BY DEF VersionsApart
  <2>1. Book!HasLineage(d) /\ Book!HasLineage(e)
    BY <1>4
  <2>2. CASE n \in Numbers(d) /\ Nth(d, n)' = Nth(d, n)
    <3>1. CASE m \in Numbers(e) /\ Nth(e, m)' = Nth(e, m)
      BY <2>1, <2>2, <3>1 DEF BookInv, VersionsApart
    <3>2. CASE e = day /\ m = last + 1 /\ Nth(e, m)' = v
      <4>1. Nth(d, n).id # v.id
        BY <2>1, <2>2, <1>5
      <4>2. d # e => \A a, b \in Positions : Nth(d, n).rounds[a] # v.rounds[b]
        BY <2>1, <2>2, <3>2, <1>5
      <4>3. QED
        BY <2>2, <3>2, <4>1, <4>2
    <3>3. QED
      BY <1>4, <3>1, <3>2
  <2>3. CASE d = day /\ n = last + 1 /\ Nth(d, n)' = v
    <3>1. CASE m \in Numbers(e) /\ Nth(e, m)' = Nth(e, m)
      <4>1. Nth(e, m).id # v.id
        BY <2>1, <3>1, <1>5
      <4>2. d # e => \A a, b \in Positions : Nth(e, m).rounds[b] # v.rounds[a]
        BY <2>1, <2>3, <3>1, <1>5
      <4>3. QED
        BY <2>3, <3>1, <4>1, <4>2
    <3>2. CASE e = day /\ m = last + 1 /\ Nth(e, m)' = v
      BY <2>3, <3>2
    <3>3. QED
      BY <1>4, <3>1, <3>2
  <2>4. QED
    BY <1>4, <2>2, <2>3
<1>7. RoundsDistinct'
  <2> SUFFICES ASSUME NEW d \in Days, Book!HasLineage(d)', NEW n \in Numbers(d)',
                      NEW a \in Positions, NEW b \in Positions
               PROVE  Nth(d, n)'.rounds[a] = Nth(d, n)'.rounds[b] => a = b
    BY DEF RoundsDistinct
  <2>1. QED
    BY <1>4 DEF BookInv, RoundsDistinct
<1>8. BindingsListed'
  <2> SUFFICES ASSUME NEW s \in SessionIds, bindings[s] # None
               PROVE  /\ Book!HasLineage(bindings[s].day)'
                      /\ \E n \in Numbers(bindings[s].day)' :
                           Nth(bindings[s].day, n)'.id = bindings[s].version
    BY DEF BindingsListed
  <2>1. PICK d \in Days : d = bindings[s].day /\ Book!HasLineage(d)
    BY BookTypes DEF BookInv, BindingsListed, Book!Binding
  <2>2. PICK n \in Numbers(d) : Nth(d, n).id = bindings[s].version
    BY <2>1 DEF BookInv, BindingsListed
  <2>3. Book!HasLineage(d)' /\ n \in Numbers(d)' /\ Nth(d, n)' = Nth(d, n)
    <3>1. Book!HasLineage(d)' /\ Nth(d, n)' = Nth(d, n)
      BY <2>1, <2>2 DEF VersionAdded
    <3>2. n \in Numbers(d)'
      BY <2>1, <2>2 DEF VersionAdded
    <3>3. QED
      BY <3>1, <3>2
  <2>4. QED
    BY <2>1, <2>2, <2>3
<1>9. OneSessionADay'
  BY DEF BookInv, OneSessionADay
<1>10. ReplacedStaysOut'
  <2> SUFFICES ASSUME NEW d \in Days, Book!HasLineage(d)', NEW n \in Numbers(d)', n # 1
               PROVE  \E a \in Positions :
                 /\ \A q \in Positions : q # a => Nth(d, n)'.rounds[q] = Nth(d, n - 1)'.rounds[q]
                 /\ \A m \in Numbers(d)', q \in Positions :
                      n <= m => Nth(d, m)'.rounds[q] # Nth(d, n - 1)'.rounds[a]
    BY DEF ReplacedStaysOut
  <2>1. Book!HasLineage(d)
    BY <1>4
  <2>2. CASE n \in Numbers(d) /\ Nth(d, n)' = Nth(d, n)
    <3>1. PICK a \in Positions :
                 /\ \A q \in Positions : q # a => Nth(d, n).rounds[q] = Nth(d, n - 1).rounds[q]
                 /\ \A m \in Numbers(d), q \in Positions :
                      n <= m => Nth(d, m).rounds[q] # Nth(d, n - 1).rounds[a]
      BY <2>1, <2>2 DEF BookInv, ReplacedStaysOut
    <3>2. n - 1 \in Numbers(d) /\ n \in Nat
      BY <2>1, <2>2, BookTypes
    <3>3. Nth(d, n - 1)' = Nth(d, n - 1)
      BY <2>1, <3>2 DEF VersionAdded
    <3>4. ASSUME NEW m \in Numbers(d)', NEW q \in Positions, n <= m
          PROVE  Nth(d, m)'.rounds[q] # Nth(d, n - 1).rounds[a]
      <4>1. CASE m \in Numbers(d) /\ Nth(d, m)' = Nth(d, m)
        BY <4>1, <3>1, <3>4
      <4>2. CASE d = day /\ m = last + 1 /\ Nth(d, m)' = v
        <5>1. CASE q = p
          BY <4>2, <5>1, <1>5, <2>1, <3>2
        <5>2. CASE q # p
          <6>1. v.rounds[q] = Nth(day, last).rounds[q]
            BY <5>2, ScheduledRounds DEF last
          <6>2. last \in Numbers(d) /\ n <= last
            BY <1>1, <1>2, <2>2, <4>2
          <6>3. QED
            BY <6>1, <6>2, <3>1, <4>2
        <5>3. QED
          BY <5>1, <5>2
      <4>3. QED
        BY <1>4, <4>1, <4>2
    <3>5. QED
      BY <2>2, <3>1, <3>3, <3>4
  <2>3. CASE d = day /\ n = last + 1 /\ Nth(d, n)' = v
    <3>1. n - 1 = last /\ last \in Numbers(d) /\ last \in Nat
      BY <2>3, <1>1, <1>2
    <3>2. Nth(d, n - 1)' = Nth(day, last) /\ Book!Current(day) = Nth(day, last)
      BY <3>1, <2>1, <2>3, ScheduledRounds DEF VersionAdded, last
    <3>3. \A q \in Positions : q # p => Nth(d, n)'.rounds[q] = Nth(d, n - 1)'.rounds[q]
      BY <2>3, <3>2
    <3>4. ASSUME NEW m \in Numbers(d)', NEW q \in Positions, n <= m
          PROVE  Nth(d, m)'.rounds[q] # Nth(d, n - 1)'.rounds[p]
      <4>1. m = last + 1
        BY <1>1, <1>2, <2>3, <3>4
      <4>2. Nth(d, m)' = v
        BY <4>1, <2>3
      <4>3. CASE q = p
        BY <4>2, <4>3, <3>1, <3>2, <1>5, <2>3
      <4>4. CASE q # p
        BY <4>2, <4>4, <3>1, <3>2, <2>1, <2>3 DEF BookInv, RoundsDistinct
      <4>5. QED
        BY <4>3, <4>4
    <3>5. QED
      BY <3>3, <3>4
  <2>4. QED
    BY <1>4, <2>2, <2>3
<1>11. QED
  BY <1>6, <1>7, <1>8, <1>9, <1>10

LEMMA PromoteKept ==
  ASSUME BookInv, NEW day \in Days, NEW version \in VersionIds, NEW p \in Positions,
         NEW kind \in {"RESERVE_PROMOTION", "CORRECTION"}, NEW replacement \in Rounds,
         Book!PromoteVersion(day, version, kind, p, replacement)
  PROVE  BookInv'
<1>1. PICK v \in Book!ManifestVersion :
           /\ VersionAdded(day, v)
           /\ v.id = version /\ v.kind = kind
           /\ v.rounds = [Book!Current(day).rounds EXCEPT ![p] = replacement]
           /\ \A a, b \in Positions : v.rounds[a] = v.rounds[b] => a = b
           /\ lineages' \in [Days -> Book!Lineage \cup {None}]
           /\ lineages'[day].versions # << >>
  BY PromoteAdds
<1>2. /\ Book!HasLineage(day) /\ Book!VersionIdAvailable(version)
      /\ replacement \notin Book!Scheduled(day) /\ Book!RoundsAvailable({replacement}, day)
      /\ bindings' = bindings
  BY DEF Book!PromoteVersion
<1>3. Book!Current(day) \in Book!ManifestVersion
  BY <1>2, BookTypes, ScheduledRounds
<1>4. Book!Current(day).rounds \in [Positions -> Rounds]
  BY <1>3 DEF Book!ManifestVersion
<1>5. /\ v.rounds[p] = replacement
      /\ \A q \in Positions : q # p => v.rounds[q] = Book!Current(day).rounds[q]
  BY <1>1, <1>4
<1>6. VersionsApart' /\ RoundsDistinct' /\ BindingsListed' /\ OneSessionADay'
      /\ ReplacedStaysOut'
  <2>1. /\ Book!VersionIdAvailable(v.id) /\ v.rounds[p] \notin Book!Scheduled(day)
        /\ Book!RoundsAvailable({v.rounds[p]}, day)
    BY <1>1, <1>2, <1>5
  <2>2. /\ VersionAdded(day, v)
        /\ \A a, b \in Positions : v.rounds[a] = v.rounds[b] => a = b
    BY <1>1
  <2>3. QED
    BY <2>1, <2>2, <1>2, <1>5, AddedKeepsApart
<1>7. Book!TypeOK'
  <2>1. \A d \in Days : Book!HasLineage(d)' => lineages'[d].versions # << >>
    BY <1>1 DEF VersionAdded, BookInv, Book!TypeOK
  <2>2. QED
    BY <2>1, <1>1, <1>2 DEF BookInv, Book!TypeOK
<1>8. QED
  BY <1>6, <1>7 DEF BookInv

LEMMA CreateKept ==
  ASSUME BookInv, NEW day \in Days, NEW id \in LineageIds, NEW version \in VersionIds,
         NEW rounds \in [Positions -> Rounds], Book!CreateLineage(day, id, version, rounds)
  PROVE  BookInv'
<1> DEFINE v == Book!Version(version, "INITIAL_RELEASE", rounds)
           lineage == [id |-> id, versions |-> <<v>>]
<1>1. /\ ~Book!HasLineage(day) /\ Book!VersionIdAvailable(version)
      /\ Book!RoundsAvailable({rounds[p] : p \in Positions}, day) /\ Book!ValidRounds(rounds)
      /\ lineages' = [lineages EXCEPT ![day] = lineage]
      /\ bindings' = bindings
  BY DEF Book!CreateLineage
<1>2. v \in Book!ManifestVersion /\ v.id = version /\ v.rounds = rounds
  BY DEF Book!Version, Book!ManifestVersion
<1> HIDE DEF v
<1>3. lineage \in Book!Lineage /\ lineage.versions = <<v>>
  BY <1>2 DEF Book!Lineage
<1> HIDE DEF lineage
<1>4. lineage # None
  BY <1>3, BookNone
<1>5. lineages' \in [Days -> Book!Lineage \cup {None}] /\ lineages'[day] = lineage
      /\ \A d \in Days \ {day} : lineages'[d] = lineages[d]
  BY <1>1, <1>3 DEF BookInv, Book!TypeOK
<1>6. /\ Book!HasLineage(day)' /\ Numbers(day)' = {1} /\ Nth(day, 1)' = v
      /\ Len(lineages'[day].versions) = 1 /\ lineages'[day].versions # << >>
  <2>1. lineages'[day].versions = <<v>>
    BY <1>3, <1>5
  <2>2. DOMAIN <<v>> = {1} /\ <<v>>[1] = v /\ Len(<<v>>) = 1 /\ <<v>> # << >>
    OBVIOUS
  <2>3. Book!HasLineage(day)'
    BY <1>4, <1>5 DEF Book!HasLineage
  <2>4. QED
    BY <2>1, <2>2, <2>3 DEF Numbers, Nth
<1>7. \A d \in Days \ {day} : /\ Book!HasLineage(d)' = Book!HasLineage(d)
                               /\ Numbers(d)' = Numbers(d) /\ \A n : Nth(d, n)' = Nth(d, n)
  BY <1>5 DEF Book!HasLineage, Numbers, Nth
<1>8. ASSUME NEW d \in Days, Book!HasLineage(d), NEW n \in Numbers(d)
      PROVE  /\ d # day /\ Nth(d, n).id # v.id
             /\ \A p, q \in Positions : Nth(d, n).rounds[p] # v.rounds[q]
  <2>1. d # day
    BY <1>1, <1>8
  <2>2. Nth(d, n).id # v.id
    BY <1>1, <1>2, <1>8, ScheduledRounds DEF Book!VersionIdAvailable
  <2>3. \A p, q \in Positions : Nth(d, n).rounds[p] # v.rounds[q]
    BY <1>1, <1>2, <1>8, <2>1, ScheduledRounds DEF Book!RoundsAvailable
  <2>4. QED
    BY <2>1, <2>2, <2>3
<1>9. Book!TypeOK'
  BY <1>1, <1>5, <1>6, <1>7 DEF BookInv, Book!TypeOK
<1>10. VersionsApart'
  <2> SUFFICES ASSUME NEW d \in Days, NEW e \in Days, Book!HasLineage(d)', Book!HasLineage(e)',
                      NEW n \in Numbers(d)', NEW m \in Numbers(e)'
               PROVE  /\ Nth(d, n)'.id = Nth(e, m)'.id => d = e /\ n = m
                      /\ d # e => \A a, b \in Positions :
                                    Nth(d, n)'.rounds[a] # Nth(e, m)'.rounds[b]
    BY DEF VersionsApart
  <2>1. CASE d # day /\ e # day
    BY <2>1, <1>7 DEF BookInv, VersionsApart
  <2>2. CASE d = day /\ e # day
    BY <2>2, <1>6, <1>7, <1>8
  <2>3. CASE d # day /\ e = day
    BY <2>3, <1>6, <1>7, <1>8
  <2>4. CASE d = day /\ e = day
    BY <2>4, <1>6
  <2>5. QED
    BY <2>1, <2>2, <2>3, <2>4
<1>11. RoundsDistinct'
  <2> SUFFICES ASSUME NEW d \in Days, Book!HasLineage(d)', NEW n \in Numbers(d)',
                      NEW a \in Positions, NEW b \in Positions
               PROVE  Nth(d, n)'.rounds[a] = Nth(d, n)'.rounds[b] => a = b
    BY DEF RoundsDistinct
  <2>1. CASE d # day
    BY <2>1, <1>7 DEF BookInv, RoundsDistinct
  <2>2. CASE d = day
    BY <2>2, <1>1, <1>2, <1>6 DEF Book!ValidRounds
  <2>3. QED
    BY <2>1, <2>2
<1>12. BindingsListed'
  <2> SUFFICES ASSUME NEW s \in SessionIds, bindings[s] # None
               PROVE  /\ Book!HasLineage(bindings[s].day)'
                      /\ \E n \in Numbers(bindings[s].day)' :
                           Nth(bindings[s].day, n)'.id = bindings[s].version
    BY <1>1 DEF BindingsListed
  <2>1. PICK d \in Days : d = bindings[s].day /\ Book!HasLineage(d)
    BY BookTypes DEF BookInv, BindingsListed, Book!Binding
  <2>2. PICK n \in Numbers(d) : Nth(d, n).id = bindings[s].version
    BY <2>1 DEF BookInv, BindingsListed
  <2>3. Book!HasLineage(d)' /\ n \in Numbers(d)' /\ Nth(d, n)' = Nth(d, n)
    BY <2>1, <1>1, <1>7
  <2>4. QED
    BY <2>1, <2>2, <2>3, <1>1
<1>13. OneSessionADay'
  BY <1>1 DEF BookInv, OneSessionADay
<1>14. ReplacedStaysOut'
  <2> SUFFICES ASSUME NEW d \in Days, Book!HasLineage(d)', NEW n \in Numbers(d)', n # 1
               PROVE  \E a \in Positions :
                 /\ \A q \in Positions : q # a => Nth(d, n)'.rounds[q] = Nth(d, n - 1)'.rounds[q]
                 /\ \A m \in Numbers(d)', q \in Positions :
                      n <= m => Nth(d, m)'.rounds[q] # Nth(d, n - 1)'.rounds[a]
    BY DEF ReplacedStaysOut
  <2>1. d # day
    BY <1>6
  <2>2. QED
    BY <2>1, <1>7 DEF BookInv, ReplacedStaysOut
<1>15. QED
  BY <1>9, <1>10, <1>11, <1>12, <1>13, <1>14 DEF BookInv

LEMMA IssueKept ==
  ASSUME BookInv, NEW opened \in SessionIds, NEW participant \in Participants, NEW day \in Days,
         Book!IssueSession(opened, participant, day)
  PROVE  BookInv'
<1> DEFINE last == Len(lineages[day].versions)
           binding == [participant |-> participant, day |-> day, version |-> Nth(day, last).id]
<1>1. /\ bindings[opened] = None /\ Book!HasLineage(day)
      /\ \A s \in SessionIds :
           bindings[s] # None => bindings[s].participant # participant \/ bindings[s].day # day
      /\ bindings' = [bindings EXCEPT ![opened] = binding]
      /\ lineages' = lineages
  BY ScheduledRounds DEF Book!IssueSession
<1>2. /\ last \in Numbers(day) /\ last \in Nat \ {0} /\ Nth(day, last) \in Book!ManifestVersion
      /\ Numbers(day) = 1..last
  BY <1>1, BookTypes
<1>3. binding \in Book!Binding /\ binding.day = day /\ binding.participant = participant
      /\ binding.version = Nth(day, last).id
  BY <1>2 DEF Book!Binding, Book!ManifestVersion
<1>4. binding # None
  BY <1>3, BookNone
<1> HIDE DEF binding
<1>5. /\ bindings' \in [SessionIds -> Book!Binding \cup {None}] /\ bindings'[opened] = binding
      /\ \A s \in SessionIds \ {opened} : bindings'[s] = bindings[s]
  BY <1>1, <1>3 DEF BookInv, Book!TypeOK
<1>6. /\ \A d : Book!HasLineage(d)' = Book!HasLineage(d) /\ Numbers(d)' = Numbers(d)
      /\ \A d, n : Nth(d, n)' = Nth(d, n)
  BY <1>1 DEF Book!HasLineage, Numbers, Nth
<1>7. Book!TypeOK'
  BY <1>1, <1>5, <1>6 DEF BookInv, Book!TypeOK
<1>8. VersionsApart' /\ RoundsDistinct'
  BY <1>6 DEF BookInv, VersionsApart, RoundsDistinct
<1>9. ReplacedStaysOut'
  BY <1>6 DEF BookInv, ReplacedStaysOut
<1>10. BindingsListed'
  <2> SUFFICES ASSUME NEW s \in SessionIds, bindings'[s] # None
               PROVE  /\ Book!HasLineage(bindings'[s].day)
                      /\ \E n \in Numbers(bindings'[s].day) :
                           Nth(bindings'[s].day, n).id = bindings'[s].version
    BY <1>1 DEF BindingsListed, Book!HasLineage, Numbers, Nth
  <2>1. CASE s = opened
    BY <2>1, <1>1, <1>2, <1>3, <1>5
  <2>2. CASE s # opened
    BY <2>2, <1>5 DEF BookInv, BindingsListed
  <2>3. QED
    BY <2>1, <2>2
<1>11. OneSessionADay'
  <2> SUFFICES ASSUME NEW s \in SessionIds, NEW t \in SessionIds, s # t,
                      bindings'[s] # None, bindings'[t] # None,
                      bindings'[s].participant = bindings'[t].participant
               PROVE  bindings'[s].day # bindings'[t].day
    BY DEF OneSessionADay
  <2>1. CASE s = opened
    BY <2>1, <1>1, <1>3, <1>5
  <2>2. CASE t = opened
    BY <2>2, <1>1, <1>3, <1>5
  <2>3. CASE s # opened /\ t # opened
    BY <2>3, <1>5 DEF BookInv, OneSessionADay
  <2>4. QED
    BY <2>1, <2>2, <2>3
<1>12. QED
  BY <1>7, <1>8, <1>9, <1>10, <1>11 DEF BookInv

LEMMA BookNext ==
  ASSUME BookInv, Book!Next PROVE BookInv'
<1>1. ASSUME NEW d \in Days, NEW l \in LineageIds, NEW v \in VersionIds,
             NEW rounds \in [Positions -> Rounds], Book!CreateLineage(d, l, v, rounds)
      PROVE  BookInv'
  BY <1>1, CreateKept
<1>2. ASSUME NEW d \in Days, NEW v \in VersionIds,
             NEW kind \in {"RESERVE_PROMOTION", "CORRECTION"},
             NEW p \in Positions, NEW r \in Rounds, Book!PromoteVersion(d, v, kind, p, r)
      PROVE  BookInv'
  BY <1>2, PromoteKept
<1>3. ASSUME NEW s \in SessionIds, NEW q \in Participants, NEW d \in Days,
             Book!IssueSession(s, q, d)
      PROVE  BookInv'
  BY <1>3, IssueKept
<1>4. QED
  BY <1>1, <1>2, <1>3 DEF Book!Next

LEMMA BookInit == Init => BookInv
<1> SUFFICES ASSUME Book!Init PROVE BookInv
  BY DEF Init
<1>1. (\A d \in Days : ~Book!HasLineage(d)) /\ (\A s \in SessionIds : bindings[s] = None)
  BY DEF Book!Init, Book!HasLineage
<1>2. Book!TypeOK
  BY <1>1 DEF Book!Init, Book!TypeOK
<1>3. QED
  BY <1>1, <1>2 DEF BookInv, VersionsApart, RoundsDistinct, BindingsListed, OneSessionADay,
                    ReplacedStaysOut, Book!Init

LEMMA BookSteps == BookInv /\ [Next]_vars => BookInv'
<1> SUFFICES ASSUME BookInv, [Next]_vars PROVE BookInv'
  OBVIOUS
<1>1. CASE BookStep
  BY <1>1, BookNext DEF BookStep
<1>2. CASE UNCHANGED book
  <2>1. lineages' = lineages /\ bindings' = bindings
    BY <1>2 DEF book
  <2>2. Book!TypeOK'
    BY <2>1 DEF BookInv, Book!TypeOK, Book!HasLineage
  <2>3. VersionsApart' /\ RoundsDistinct' /\ BindingsListed' /\ OneSessionADay'
    BY <2>1 DEF BookInv, VersionsApart, RoundsDistinct, BindingsListed, OneSessionADay,
                Book!HasLineage, Numbers, Nth
  <2>4. ReplacedStaysOut'
    BY <2>1 DEF BookInv, ReplacedStaysOut, Book!HasLineage, Numbers, Nth
  <2>5. QED
    BY <2>2, <2>3, <2>4 DEF BookInv
<1>3. QED
  BY <1>1, <1>2 DEF Next, vars, GateStep, SessionStep, EnrollmentStep, WithdrawalStep, HoldStep,
                    LedgerStep, ComplaintStep, OutageStep, RestoreStep

\* The version of a session is the one of its id, and it is in the lineage of its day.
LEMMA SessionsVersion ==
  ASSUME BookInv, NEW s \in SessionIds, bindings[s] # None
  PROVE  \E n \in Numbers(bindings[s].day) :
           /\ Nth(bindings[s].day, n).id = bindings[s].version
           /\ Book!IssuedVersion(s) = Nth(bindings[s].day, n)
<1> DEFINE d == bindings[s].day
<1>1. d \in Days /\ Book!HasLineage(d)
  BY BookTypes DEF BookInv, BindingsListed, Book!Binding
<1>2. PICK n \in Numbers(d) : Nth(d, n).id = bindings[s].version
  BY DEF BookInv, BindingsListed
<1>3. Nth(d, n) \in Book!Versions(d)
  BY <1>1, ScheduledRounds
<1>4. ASSUME NEW v \in Book!Versions(d), v.id = bindings[s].version PROVE v = Nth(d, n)
  <2>1. PICK m \in Numbers(d) : v = Nth(d, m)
    BY DEF Book!Versions, Numbers, Nth
  <2>2. m = n
    BY <1>1, <1>2, <1>4, <2>1 DEF BookInv, VersionsApart
  <2>3. QED
    BY <2>1, <2>2
<1>5. Book!IssuedVersion(s) = Nth(d, n)
  BY <1>2, <1>3, <1>4 DEF Book!IssuedVersion
<1>6. QED
  BY <1>2, <1>5

LEMMA BookKeepsApart == BookInv => Book!NoRoundTwice
<1> SUFFICES ASSUME BookInv, NEW s \in SessionIds, NEW t \in SessionIds, s # t,
                    bindings[s] # None, bindings[t] # None,
                    bindings[s].participant = bindings[t].participant,
                    NEW r \in Book!RoundsOf(Book!IssuedVersion(s)),
                    r \in Book!RoundsOf(Book!IssuedVersion(t))
             PROVE  FALSE
  BY DEF Book!NoRoundTwice
<1>1. bindings[s].day # bindings[t].day
  BY DEF BookInv, OneSessionADay
<1>2. PICK n \in Numbers(bindings[s].day) : Book!IssuedVersion(s) = Nth(bindings[s].day, n)
  BY SessionsVersion
<1>3. PICK m \in Numbers(bindings[t].day) : Book!IssuedVersion(t) = Nth(bindings[t].day, m)
  BY SessionsVersion
<1>4. PICK p \in Positions : r = Nth(bindings[s].day, n).rounds[p]
  BY <1>2 DEF Book!RoundsOf
<1>5. PICK q \in Positions : r = Nth(bindings[t].day, m).rounds[q]
  BY <1>3 DEF Book!RoundsOf
<1>6. /\ bindings[s].day \in Days /\ Book!HasLineage(bindings[s].day)
      /\ bindings[t].day \in Days /\ Book!HasLineage(bindings[t].day)
  BY BookTypes DEF BookInv, BindingsListed, Book!Binding
<1>7. \A a, b \in Positions :
        Nth(bindings[s].day, n).rounds[a] # Nth(bindings[t].day, m).rounds[b]
  <2>1. n \in Numbers(bindings[s].day) /\ m \in Numbers(bindings[t].day)
    BY <1>2, <1>3
  <2>2. QED
    BY <2>1, <1>1, <1>6 DEF BookInv, VersionsApart
<1>8. QED
  BY <1>4, <1>5, <1>7

LEMMA BookKeepsOut == BookInv => Book!RemovedRoundsStayOut
<1> SUFFICES ASSUME BookInv, NEW d \in Days, Book!HasLineage(d),
                    NEW n \in 2..Len(lineages[d].versions)
             PROVE  LET removed == Book!RoundsOf(Nth(d, n - 1)) \ Book!RoundsOf(Nth(d, n))
                    IN /\ removed # {}
                       /\ \A e \in Days : Book!HasLineage(e) =>
                            removed \cap Book!RoundsOf(Book!Current(e)) = {}
  BY DEF Book!RemovedRoundsStayOut, Nth
<1> DEFINE last == Len(lineages[d].versions)
<1>1. /\ last \in Nat \ {0} /\ Numbers(d) = 1..last /\ Book!Current(d) = Nth(d, last)
  BY BookTypes, ScheduledRounds
<1>2. /\ n \in Numbers(d) /\ n # 1 /\ n - 1 \in Numbers(d)
      /\ last \in Numbers(d) /\ n <= last /\ n <= n
  BY <1>1
<1> HIDE DEF last
<1>3. PICK p \in Positions :
        /\ \A q \in Positions : q # p => Nth(d, n).rounds[q] = Nth(d, n - 1).rounds[q]
        /\ \A m \in Numbers(d), q \in Positions :
             n <= m => Nth(d, m).rounds[q] # Nth(d, n - 1).rounds[p]
  BY <1>2 DEF BookInv, ReplacedStaysOut
<1>4. \A q \in Positions : /\ Nth(d, n).rounds[q] # Nth(d, n - 1).rounds[p]
                           /\ Nth(d, last).rounds[q] # Nth(d, n - 1).rounds[p]
  BY <1>2, <1>3
<1>5. Nth(d, n - 1).rounds[p] \in Book!RoundsOf(Nth(d, n - 1)) \ Book!RoundsOf(Nth(d, n))
  BY <1>4 DEF Book!RoundsOf
<1>6. ASSUME NEW r \in Book!RoundsOf(Nth(d, n - 1)) \ Book!RoundsOf(Nth(d, n)),
             NEW e \in Days, Book!HasLineage(e)
      PROVE  r \notin Book!RoundsOf(Book!Current(e))
  <2>1. PICK q \in Positions : r = Nth(d, n - 1).rounds[q]
    BY <1>6 DEF Book!RoundsOf
  <2>2. CASE e = d
    <3>1. q = p
      BY <1>3, <1>6, <2>1 DEF Book!RoundsOf
    <3>2. QED
      BY <1>1, <1>4, <2>1, <2>2, <3>1 DEF Book!RoundsOf
  <2>3. CASE e # d
    <3>1. Len(lineages[e].versions) \in Numbers(e)
          /\ Book!Current(e) = Nth(e, Len(lineages[e].versions))
      BY <1>6, BookTypes, ScheduledRounds
    <3>2. \A b \in Positions : Book!Current(e).rounds[b] # r
      BY <1>2, <1>6, <2>1, <2>3, <3>1 DEF BookInv, VersionsApart
    <3>3. QED
      BY <3>2 DEF Book!RoundsOf
  <2>4. QED
    BY <2>2, <2>3
<1>7. QED
  BY <1>5, <1>6

(* Nobody plays a round in two sessions, whatever was promoted in between, *)
(* before or after a session was issued, and a round that was taken out of *)
(* a manifest comes back in no version to issue (ManifestBook).            *)
THEOREM RoundsAlwaysPlayedOnce == Spec => []RoundsArePlayedOnce
<1>1. BookInv => RoundsArePlayedOnce
  BY BookKeepsApart, BookKeepsOut DEF RoundsArePlayedOnce
<1>2. QED
  BY <1>1, BookInit, BookSteps, PTL DEF Spec

\* The versions of a book are only added to.
VersionsStay ==
  /\ \A d \in Days : Book!HasLineage(d) =>
       /\ Book!HasLineage(d)'
       /\ \A n \in Numbers(d) : n \in Numbers(d)' /\ Nth(d, n)' = Nth(d, n)
  /\ \A s \in SessionIds : bindings[s] # None => bindings'[s] = bindings[s]

LEMMA BookStays ==
  ASSUME BookInv, Book!Next PROVE VersionsStay
<1>1. ASSUME NEW d \in Days, NEW l \in LineageIds, NEW v \in VersionIds,
             NEW rounds \in [Positions -> Rounds], Book!CreateLineage(d, l, v, rounds)
      PROVE  VersionsStay
  <2>1. ~Book!HasLineage(d) /\ bindings' = bindings
    BY <1>1 DEF Book!CreateLineage
  <2>2. \A e \in Days \ {d} : lineages'[e] = lineages[e]
    BY <1>1 DEF BookInv, Book!TypeOK, Book!CreateLineage
  <2>3. QED
    BY <2>1, <2>2 DEF VersionsStay, Book!HasLineage, Numbers, Nth
<1>2. ASSUME NEW d \in Days, NEW v \in VersionIds,
             NEW kind \in {"RESERVE_PROMOTION", "CORRECTION"},
             NEW p \in Positions, NEW r \in Rounds, Book!PromoteVersion(d, v, kind, p, r)
      PROVE  VersionsStay
  <2>1. bindings' = bindings
    BY <1>2 DEF Book!PromoteVersion
  <2>2. PICK w \in Book!ManifestVersion :
           /\ VersionAdded(d, w)
           /\ w.id = v /\ w.kind = kind
           /\ w.rounds = [Book!Current(d).rounds EXCEPT ![p] = r]
           /\ \A a, b \in Positions : w.rounds[a] = w.rounds[b] => a = b
           /\ lineages' \in [Days -> Book!Lineage \cup {None}]
           /\ lineages'[d].versions # << >>
    BY <1>2, PromoteAdds
  <2>3. QED
    BY <2>1, <2>2 DEF VersionsStay, VersionAdded
<1>3. ASSUME NEW s \in SessionIds, NEW q \in Participants, NEW d \in Days,
             Book!IssueSession(s, q, d)
      PROVE  VersionsStay
  <2>1. /\ lineages' = lineages /\ bindings[s] = None
        /\ \A t \in SessionIds \ {s} : bindings'[t] = bindings[t]
    BY <1>3 DEF BookInv, Book!TypeOK, Book!IssueSession
  <2>2. QED
    BY <2>1 DEF VersionsStay, Book!HasLineage, Numbers, Nth
<1>4. QED
  BY <1>1, <1>2, <1>3 DEF Book!Next

SessionsFindTheirVersion ==
  \A s \in SessionIds : bindings[s] # None =>
    \E n \in Numbers(bindings[s].day) :
      /\ Nth(bindings[s].day, n).id = bindings[s].version
      /\ Book!IssuedVersion(s) = Nth(bindings[s].day, n)

LEMMA SessionsFind == BookInv => SessionsFindTheirVersion
BY SessionsVersion DEF SessionsFindTheirVersion

\* What a session was issued at is not changed.
BookSettled ==
  \A s \in SessionIds : bindings[s] # None =>
    /\ bindings'[s] = bindings[s]
    /\ Book!IssuedVersion(s) = Book!IssuedVersion(s)'

LEMMA BookSettles == BookInv /\ BookInv' /\ [Book!Next]_book => BookSettled
<1> SUFFICES ASSUME BookInv, BookInv', [Book!Next]_book, NEW s \in SessionIds, bindings[s] # None
             PROVE  /\ bindings'[s] = bindings[s]
                    /\ Book!IssuedVersion(s) = Book!IssuedVersion(s)'
  BY DEF BookSettled
<1>1. CASE Book!Next
  <2>1. VersionsStay
    BY <1>1, BookStays
  <2>2. bindings'[s] = bindings[s]
    BY <2>1 DEF VersionsStay
  <2>3. SessionsFindTheirVersion'
    BY SessionsFind, PTL
  <2>4. PICK d \in Days : d = bindings[s].day /\ Book!HasLineage(d)
    BY BookTypes DEF BookInv, BindingsListed, Book!Binding
  <2>5. PICK n \in Numbers(d) : Nth(d, n).id = bindings[s].version
                                /\ Book!IssuedVersion(s) = Nth(d, n)
    BY <2>4, SessionsVersion
  <2>6. PICK m \in Numbers(d)' : Nth(d, m)'.id = bindings[s].version
                                 /\ Book!IssuedVersion(s)' = Nth(d, m)'
    BY <2>2, <2>3, <2>4 DEF SessionsFindTheirVersion
  <2>7. Book!HasLineage(d)' /\ n \in Numbers(d)' /\ Nth(d, n)' = Nth(d, n)
    BY <2>1, <2>4, <2>5 DEF VersionsStay
  <2>8. m = n
    BY <2>4, <2>5, <2>6, <2>7 DEF BookInv, VersionsApart
  <2>9. QED
    BY <2>2, <2>5, <2>6, <2>7, <2>8
<1>2. CASE UNCHANGED book
  BY <1>2 DEF book, Book!IssuedVersion, Book!Versions
<1>3. QED
  BY <1>1, <1>2
-----------------------------------------------------------------------------
(* Complaints.                                                             *)

\* A step past its deadline carries its rationale.
Late(e) ==
  LET late(kind, due) == e.event = kind /\ e.at > complaint.receivedAt + due
  IN \/ late("ACKNOWLEDGED", AcknowledgementDue[complaint.severity])
     \/ Complaint!Urgent /\ late("QUARANTINED", QuarantineDue[complaint.severity])
     \/ late("DECIDED", DecisionDue[complaint.severity])

DecisionsFollow ==
  \A n \in Complaint!Of("DECIDED") :
    /\ \E m \in Complaint!Of("ACKNOWLEDGED") : m < n
    /\ Complaint!Urgent => \E m \in Complaint!Of("QUARANTINED") : m < n
    /\ n + 1 \in Complaint!Of("COMPLETED")

Ordered ==
  complaint # None =>
    /\ DecisionsFollow
    /\ Complaint!Of("QUARANTINED") # {} => Complaint!Urgent
    /\ snapshot.decision # None => snapshot.decision.reviewer \notin {Editor, SafetyReviewer}
    /\ \A n \in DOMAIN history : Late(history[n]) => history[n].rationale

\* The value is that of the last event of the kind.
LatestIs(value, kind) ==
  \/ Complaint!Of(kind) = {} /\ value = None
  \/ \E n \in Complaint!Of(kind) :
       (\A m \in Complaint!Of(kind) : m <= n) /\ value = history[n].at

\* One explicit revocation for each of the revoked credentials, and none is left out.
RevocationsCounted ==
  \E f \in [DOMAIN snapshot.revoked -> Complaint!Of("CREDENTIAL_REVOKED")] :
    {f[n] : n \in DOMAIN f} = Complaint!Of("CREDENTIAL_REVOKED")

ComplaintInv ==
  /\ Complaint!TypeOK
  /\ complaint = None => history = << >> /\ snapshot.decision = None
  /\ Ordered
  /\ LatestIs(snapshot.acknowledgement, "ACKNOWLEDGED")
  /\ LatestIs(snapshot.quarantine, "QUARANTINED")
  /\ (snapshot.decision = None) <=> (Complaint!Of("DECIDED") = {})
  /\ RevocationsCounted

\* An event at the end of the history is the last one of its kind.
LEMMA EventAdded ==
  ASSUME history \in Seq(Complaint!Event), NEW e \in Complaint!Event, history' = history \o <<e>>
  PROVE  /\ history' \in Seq(Complaint!Event)
         /\ Len(history) \in Nat /\ DOMAIN history = 1..Len(history)
         /\ Len(history') = Len(history) + 1 /\ DOMAIN history' = 1..(Len(history) + 1)
         /\ \A n \in DOMAIN history : history'[n] = history[n]
         /\ history'[Len(history) + 1] = e
         /\ \A kind : Complaint!Of(kind)' = IF kind = e.event
                                            THEN Complaint!Of(kind) \cup {Len(history) + 1}
                                            ELSE Complaint!Of(kind)
<1> DEFINE h == history
           g == history'
<1>1. h \in Seq(Complaint!Event) /\ g = h \o <<e>>
  OBVIOUS
<1> HIDE DEF h, g
<1>2. <<e>> \in Seq(Complaint!Event) /\ Len(<<e>>) = 1 /\ <<e>>[1] = e
  OBVIOUS
<1>3. g \in Seq(Complaint!Event) /\ Len(g) = Len(h) + 1
  BY <1>1, <1>2, ConcatProperties
<1>4. Len(h) \in Nat /\ DOMAIN h = 1..Len(h) /\ DOMAIN g = 1..(Len(h) + 1)
  BY <1>1, <1>3, LenProperties
<1>5. \A n \in 1..(Len(h) + 1) : g[n] = IF n <= Len(h) THEN h[n] ELSE e
  BY <1>1, <1>2, <1>4, ConcatProperties
<1>6. (\A n \in DOMAIN h : g[n] = h[n]) /\ g[Len(h) + 1] = e
  <2> DEFINE k == Len(h)
  <2>1. k \in Nat /\ DOMAIN h = 1..k
    BY <1>4
  <2>2. \A n \in 1..(k + 1) : g[n] = IF n <= k THEN h[n] ELSE e
    BY <1>5
  <2> HIDE DEF k
  <2>3. ASSUME NEW n \in 1..k PROVE g[n] = h[n]
    <3>1. n \in 1..(k + 1) /\ n <= k
      BY <2>1
    <3>2. QED
      BY <2>2, <3>1
  <2>4. g[k + 1] = e
    <3>1. k + 1 \in 1..(k + 1) /\ ~(k + 1 <= k)
      BY <2>1
    <3>2. QED
      BY <2>2, <3>1
  <2>5. QED
    BY <2>1, <2>3, <2>4 DEF k
<1>7. ASSUME NEW kind
      PROVE  {n \in DOMAIN g : g[n].event = kind}
               = IF kind = e.event THEN {n \in DOMAIN h : h[n].event = kind} \cup {Len(h) + 1}
                 ELSE {n \in DOMAIN h : h[n].event = kind}
  BY <1>4, <1>6
<1>8. QED
  BY <1>3, <1>4, <1>6, <1>7 DEF h, g, Complaint!Of

LEMMA InOrder == Ordered => Complaint!DecidedInOrder
BY DEF Complaint!DecidedInOrder, Ordered, DecisionsFollow, Late

\* What one more event, of a complaint that was received, does to the order.
LEMMA EventInOrder ==
  ASSUME ComplaintInv, complaint # None, UNCHANGED complaint, NEW e \in Complaint!Event,
         history' = history \o <<e>>, e.event # "DECIDED",
         e.event = "QUARANTINED" => Complaint!Urgent,
         Late(e) => e.rationale,
         snapshot'.decision = snapshot.decision
  PROVE  Ordered'
<1>1. history \in Seq(Complaint!Event)
  BY DEF ComplaintInv, Complaint!TypeOK, Complaint!Event
<1>2. /\ Len(history) \in Nat /\ DOMAIN history = 1..Len(history)
      /\ DOMAIN history' = 1..(Len(history) + 1)
      /\ \A n \in DOMAIN history : history'[n] = history[n]
      /\ history'[Len(history) + 1] = e
      /\ \A kind : Complaint!Of(kind) \subseteq Complaint!Of(kind)'
      /\ Complaint!Of("DECIDED")' = Complaint!Of("DECIDED")
      /\ Complaint!Of("QUARANTINED")' # {} =>
           Complaint!Of("QUARANTINED") # {} \/ e.event = "QUARANTINED"
  <2> HIDE DEF Complaint!Event
  <2>1. QED
    BY <1>1, EventAdded
<1>3. /\ DecisionsFollow
      /\ Complaint!Of("QUARANTINED") # {} => Complaint!Urgent
      /\ snapshot.decision # None => snapshot.decision.reviewer \notin {Editor, SafetyReviewer}
      /\ \A n \in DOMAIN history : Late(history[n]) => history[n].rationale
  BY DEF ComplaintInv, Ordered
<1>4. Complaint!Urgent' = Complaint!Urgent
  BY DEF Complaint!Urgent
<1>5. DecisionsFollow'
  BY <1>2, <1>3, <1>4 DEF DecisionsFollow
<1>6. \A n \in DOMAIN history' : Late(history[n])' => history'[n].rationale
  <2> SUFFICES ASSUME NEW n \in DOMAIN history' PROVE Late(history[n])' => history'[n].rationale
    OBVIOUS
  <2>1. CASE n \in DOMAIN history
    <3>1. history'[n] = history[n] /\ (Late(history[n]) => history[n].rationale)
      BY <2>1, <1>2, <1>3
    <3>2. Late(history[n])' = Late(history[n])
      BY <3>1, <1>4 DEF Late
    <3>3. QED
      BY <3>1, <3>2
  <2>2. CASE n = Len(history) + 1
    <3>1. history'[n] = e
      BY <2>2, <1>2
    <3>2. Late(history[n])' = Late(e)
      BY <3>1, <1>4 DEF Late
    <3>3. QED
      BY <3>1, <3>2
  <2>3. QED
    BY <2>1, <2>2, <1>2
<1>7. QED
  BY <1>2, <1>3, <1>4, <1>5, <1>6 DEF Ordered

LEMMA DecisionAdded ==
  ASSUME history \in Seq(Complaint!Event), NEW e \in Complaint!Event, NEW f \in Complaint!Event,
         history' = history \o <<e, f>>, e.event = "DECIDED", f.event = "COMPLETED"
  PROVE  /\ history' \in Seq(Complaint!Event)
         /\ Len(history) \in Nat /\ DOMAIN history = 1..Len(history)
         /\ DOMAIN history' = 1..(Len(history) + 2)
         /\ \A n \in DOMAIN history : history'[n] = history[n]
         /\ history'[Len(history) + 1] = e /\ history'[Len(history) + 2] = f
         /\ Complaint!Of("DECIDED")' = Complaint!Of("DECIDED") \cup {Len(history) + 1}
         /\ Len(history) + 2 \in Complaint!Of("COMPLETED")'
         /\ Complaint!Of("COMPLETED") \subseteq Complaint!Of("COMPLETED")'
         /\ \A kind : kind \notin {"DECIDED", "COMPLETED"} =>
              Complaint!Of(kind)' = Complaint!Of(kind)
<1> DEFINE h == history
           g == history'
           es == <<e, f>>
<1>1. h \in Seq(Complaint!Event) /\ g = h \o es
  OBVIOUS
<1>2. es \in Seq(Complaint!Event) /\ Len(es) = 2 /\ es[1] = e /\ es[2] = f
  OBVIOUS
<1> HIDE DEF h, g, es
<1>3. g \in Seq(Complaint!Event) /\ Len(g) = Len(h) + 2
  <2>1. h \o es \in Seq(Complaint!Event) /\ Len(h \o es) = Len(h) + Len(es)
    BY <1>1, <1>2, ConcatProperties
  <2>2. QED
    BY <2>1, <1>1, <1>2
<1>4. Len(h) \in Nat /\ DOMAIN h = 1..Len(h) /\ DOMAIN g = 1..(Len(h) + 2)
  BY <1>1, <1>3, LenProperties
<1>5. \A n \in 1..(Len(h) + 2) : g[n] = IF n <= Len(h) THEN h[n] ELSE es[n - Len(h)]
  BY <1>1, <1>2, <1>4, ConcatProperties
<1>6. (\A n \in DOMAIN h : g[n] = h[n]) /\ g[Len(h) + 1] = e /\ g[Len(h) + 2] = f
  <2>1. \A n \in DOMAIN h : g[n] = h[n]
    BY <1>4, <1>5
  <2>2. g[Len(h) + 1] = es[1]
    <3>1. Len(h) + 1 \in 1..(Len(h) + 2) /\ ~(Len(h) + 1 <= Len(h)) /\ Len(h) + 1 - Len(h) = 1
      BY <1>4
    <3>2. QED
      BY <3>1, <1>5
  <2>3. g[Len(h) + 2] = es[2]
    <3>1. Len(h) + 2 \in 1..(Len(h) + 2) /\ ~(Len(h) + 2 <= Len(h)) /\ Len(h) + 2 - Len(h) = 2
      BY <1>4
    <3>2. QED
      BY <3>1, <1>5
  <2>4. QED
    BY <2>1, <2>2, <2>3, <1>2
<1>7. {n \in DOMAIN g : g[n].event = "DECIDED"}
         = {n \in DOMAIN h : h[n].event = "DECIDED"} \cup {Len(h) + 1}
  BY <1>4, <1>6
<1>8. /\ Len(h) + 2 \in {n \in DOMAIN g : g[n].event = "COMPLETED"}
      /\ {n \in DOMAIN h : h[n].event = "COMPLETED"}
           \subseteq {n \in DOMAIN g : g[n].event = "COMPLETED"}
  BY <1>4, <1>6
<1>9. ASSUME NEW kind, kind \notin {"DECIDED", "COMPLETED"}
      PROVE  {n \in DOMAIN g : g[n].event = kind} = {n \in DOMAIN h : h[n].event = kind}
  BY <1>4, <1>6, <1>9
<1>10. QED
  BY <1>3, <1>4, <1>6, <1>7, <1>8, <1>9 DEF h, g, Complaint!Of

\* The kinds of which the snapshot shows the last event.
LEMMA LatestAdded ==
  ASSUME history \in Seq(Complaint!Event), NEW e \in Complaint!Event,
         history' = history \o <<e>>, NEW kind, NEW x
  PROVE  /\ kind = e.event /\ x = e.at => LatestIs(x, kind)'
         /\ kind # e.event /\ LatestIs(x, kind) => LatestIs(x, kind)'
<1> HIDE DEF Complaint!Event
<1>1. /\ Len(history) \in Nat /\ DOMAIN history = 1..Len(history)
      /\ \A n \in DOMAIN history : history'[n] = history[n]
      /\ history'[Len(history) + 1] = e
      /\ Complaint!Of(kind)' = IF kind = e.event THEN Complaint!Of(kind) \cup {Len(history) + 1}
                               ELSE Complaint!Of(kind)
  BY EventAdded
<1>2. Complaint!Of(kind) \subseteq DOMAIN history
  BY DEF Complaint!Of
<1>3. ASSUME kind = e.event, x = e.at PROVE LatestIs(x, kind)'
  <2> DEFINE last == Len(history) + 1
  <2>1. last \in Complaint!Of(kind)' /\ \A m \in Complaint!Of(kind)' : m <= last
    BY <1>1, <1>2, <1>3
  <2>2. x = history'[last].at
    BY <1>1, <1>3
  <2> HIDE DEF last
  <2>3. \E n \in Complaint!Of(kind)' : (\A m \in Complaint!Of(kind)' : m <= n)
                                        /\ x = history'[n].at
    BY <2>1, <2>2
  <2>4. QED
    BY <2>3 DEF LatestIs
<1>4. ASSUME kind # e.event, LatestIs(x, kind) PROVE LatestIs(x, kind)'
  BY <1>1, <1>2, <1>4 DEF LatestIs
<1>5. QED
  BY <1>3, <1>4

LEMMA RevocationAdded ==
  ASSUME history \in Seq(Complaint!Event), NEW e \in Complaint!Event,
         history' = history \o <<e>>, RevocationsCounted,
         snapshot.revoked \in Seq(Credentials),
         NEW c, e.event = "CREDENTIAL_REVOKED" => c \in Credentials,
         IF e.event = "CREDENTIAL_REVOKED"
         THEN snapshot'.revoked = Append(snapshot.revoked, c)
         ELSE snapshot'.revoked = snapshot.revoked
  PROVE  RevocationsCounted'
<1> DEFINE of == Complaint!Of("CREDENTIAL_REVOKED")
           after == Complaint!Of("CREDENTIAL_REVOKED")'
           old == snapshot.revoked
           longer == snapshot'.revoked
           last == Len(history) + 1
<1> HIDE DEF Complaint!Event
<1>1. PICK f \in [DOMAIN old -> of] : {f[n] : n \in DOMAIN f} = of
  BY DEF RevocationsCounted
<1>2. CASE e.event = "CREDENTIAL_REVOKED"
  <2>1. after = of \cup {last}
    BY <1>2, EventAdded
  <2>2. longer = Append(old, c)
    BY <1>2
  <2>3. old \in Seq(Credentials) /\ c \in Credentials
    BY <1>2
  <2> HIDE DEF old, longer, of, after, last
  <2>4. Len(old) \in Nat /\ DOMAIN old = 1..Len(old) /\ DOMAIN longer = 1..(Len(old) + 1)
    BY <2>2, <2>3, AppendProperties, LenProperties
  <2> DEFINE g == [n \in DOMAIN longer |-> IF n <= Len(old) THEN f[n] ELSE last]
  <2>5. g \in [DOMAIN longer -> after]
    BY <1>1, <2>1, <2>4
  <2>6. {g[n] : n \in DOMAIN g} = after
    <3>1. \A n \in DOMAIN old : n \in DOMAIN g /\ g[n] = f[n]
      BY <2>4
    <3>2. Len(old) + 1 \in DOMAIN g /\ g[Len(old) + 1] = last
      BY <2>4
    <3>3. \A n \in DOMAIN g : g[n] \in after
      BY <2>5
    <3>4. \A y \in of : \E n \in DOMAIN f : f[n] = y
      BY <1>1
    <3> HIDE DEF g
    <3>5. \A y \in after : \E n \in DOMAIN g : g[n] = y
      BY <1>1, <2>1, <3>1, <3>2, <3>4
    <3>6. QED
      BY <3>3, <3>5
  <2>7. \E k \in [DOMAIN longer -> after] : {k[n] : n \in DOMAIN k} = after
    <3> HIDE DEF g
    <3>1. QED
      BY <2>5, <2>6
  <2>8. QED
    BY <2>7 DEF RevocationsCounted, longer, after
<1>3. CASE e.event # "CREDENTIAL_REVOKED"
  <2>1. after = of
    BY <1>3, EventAdded
  <2>2. longer = old
    BY <1>3
  <2>3. QED
    BY <1>1, <2>1, <2>2 DEF RevocationsCounted
<1>4. QED
  BY <1>2, <1>3

LEMMA StepIsEvent ==
  ASSUME NEW kind \in {"RECEIVED", "ACKNOWLEDGED", "QUARANTINED", "CREDENTIAL_REVOKED",
                      "DECIDED", "COMPLETED"},
         NEW at \in Times, NEW rationale \in BOOLEAN
  PROVE  /\ Complaint!Step(kind, at, rationale) \in Complaint!Event
         /\ Complaint!Step(kind, at, rationale).event = kind
         /\ Complaint!Step(kind, at, rationale).at = at
         /\ Complaint!Step(kind, at, rationale).rationale = rationale
<1>1. Complaint!Step(kind, at, rationale) \in Complaint!Event
  BY Zenon DEF Complaint!Step, Complaint!Event
<1>2. Complaint!Step(kind, at, rationale).rationale = rationale
  BY Zenon DEF Complaint!Step
<1>3. /\ Complaint!Step(kind, at, rationale).event = kind
      /\ Complaint!Step(kind, at, rationale).at = at
  BY DEF Complaint!Step
<1>4. QED
  BY <1>1, <1>2, <1>3

LEMMA OpenKept ==
  ASSUME ComplaintInv, NEW severity \in Severities, NEW credible \in BOOLEAN, NEW at \in Times,
         Complaint!Open(severity, credible, at)
  PROVE  ComplaintInv'
<1> DEFINE received == [severity |-> severity, credible |-> credible, receivedAt |-> at]
           e == Complaint!Step("RECEIVED", at, FALSE)
<1>1. /\ complaint = None /\ history = << >> /\ snapshot.decision = None
      /\ complaint' = received /\ history' = <<e>> /\ snapshot' = snapshot
  BY DEF Complaint!Open, ComplaintInv
<1>2. e \in Complaint!Event /\ e.event = "RECEIVED" /\ e.at = at
  <2>1. FALSE \in BOOLEAN
    BY Zenon
  <2>2. e \in Complaint!Event
    BY <2>1, StepIsEvent DEF e
  <2>3. QED
    BY <2>2 DEF e, Complaint!Step
<1>3. received \in Complaint!Received /\ received # None
  BY OperationsAssumption DEF Complaint!Received, Complaint!NoneAssumption
<1> HIDE DEF e, received
<1>4. <<e>> \in Seq(Complaint!Event) /\ DOMAIN <<e>> = {1} /\ <<e>>[1] = e
  BY <1>2
<1>5. Complaint!TypeOK'
  BY <1>1, <1>3, <1>4 DEF ComplaintInv, Complaint!TypeOK, Complaint!Event
<1>6. \A kind : kind # "RECEIVED" => Complaint!Of(kind) = {} /\ Complaint!Of(kind)' = {}
  BY <1>1, <1>2, <1>4 DEF Complaint!Of
<1>7. Ordered'
  <2>1. ~Late(history[1])'
    BY <1>1, <1>2, <1>4 DEF Late
  <2>2. \A n \in DOMAIN history' : n = 1
    BY <1>1, <1>4
  <2>3. DecisionsFollow'
    BY <1>6 DEF DecisionsFollow
  <2>4. \A n \in DOMAIN history' : Late(history[n])' => history'[n].rationale
    BY <2>1, <2>2
  <2>5. QED
    BY <2>3, <2>4, <1>1, <1>6 DEF Ordered
<1>8. LatestIs(snapshot.acknowledgement, "ACKNOWLEDGED")'
      /\ LatestIs(snapshot.quarantine, "QUARANTINED")'
  BY <1>1, <1>6 DEF ComplaintInv, LatestIs
<1>9. RevocationsCounted'
  BY <1>1, <1>6 DEF ComplaintInv, RevocationsCounted
<1>10. (snapshot'.decision = None) <=> (Complaint!Of("DECIDED")' = {})
  BY <1>1, <1>6
<1>11. complaint' # None
  BY <1>1, <1>3
<1>12. QED
  BY <1>5, <1>7, <1>8, <1>9, <1>10, <1>11 DEF ComplaintInv

\* One more event, of a complaint that was received, and the snapshot after it.
LEMMA EntryKept ==
  ASSUME ComplaintInv, complaint # None, UNCHANGED complaint, NEW e \in Complaint!Event,
         history' = history \o <<e>>, e.event # "DECIDED",
         e.event = "QUARANTINED" => Complaint!Urgent, Late(e) => e.rationale,
         NEW c, e.event = "CREDENTIAL_REVOKED" => c \in Credentials,
         snapshot' \in [acknowledgement : Times \cup {None}, quarantine : Times \cup {None},
                        decision : Complaint!Decision \cup {None}, revoked : Seq(Credentials)],
         snapshot'.decision = snapshot.decision,
         snapshot'.acknowledgement = IF e.event = "ACKNOWLEDGED" THEN e.at
                                     ELSE snapshot.acknowledgement,
         snapshot'.quarantine = IF e.event = "QUARANTINED" THEN e.at ELSE snapshot.quarantine,
         snapshot'.revoked = IF e.event = "CREDENTIAL_REVOKED" THEN Append(snapshot.revoked, c)
                             ELSE snapshot.revoked
  PROVE  ComplaintInv'
<1> HIDE DEF Complaint!Event
<1>1. history \in Seq(Complaint!Event) /\ snapshot.revoked \in Seq(Credentials)
  BY DEF ComplaintInv, Complaint!TypeOK, Complaint!Event
<1>2. Ordered'
  BY EventInOrder
<1>3. Complaint!TypeOK'
  <2>1. history' \in Seq(Complaint!Event)
    BY <1>1, EventAdded
  <2>2. QED
    BY <2>1 DEF Complaint!TypeOK, ComplaintInv, Complaint!Event
<1>4. LatestIs(snapshot.acknowledgement, "ACKNOWLEDGED")'
  <2>1. PICK x : x = snapshot'.acknowledgement
    OBVIOUS
  <2>2. LatestIs(x, "ACKNOWLEDGED")'
    <3>1. CASE e.event = "ACKNOWLEDGED"
      BY <3>1, <2>1, <1>1, LatestAdded
    <3>2. CASE e.event # "ACKNOWLEDGED"
      <4>1. LatestIs(x, "ACKNOWLEDGED")
        BY <3>2, <2>1 DEF ComplaintInv
      <4>2. QED
        BY <3>2, <4>1, <1>1, LatestAdded
    <3>3. QED
      BY <3>1, <3>2
  <2>3. QED
    BY <2>1, <2>2 DEF LatestIs
<1>5. LatestIs(snapshot.quarantine, "QUARANTINED")'
  <2>1. PICK x : x = snapshot'.quarantine
    OBVIOUS
  <2>2. LatestIs(x, "QUARANTINED")'
    <3>1. CASE e.event = "QUARANTINED"
      BY <3>1, <2>1, <1>1, LatestAdded
    <3>2. CASE e.event # "QUARANTINED"
      <4>1. LatestIs(x, "QUARANTINED")
        BY <3>2, <2>1 DEF ComplaintInv
      <4>2. QED
        BY <3>2, <4>1, <1>1, LatestAdded
    <3>3. QED
      BY <3>1, <3>2
  <2>3. QED
    BY <2>1, <2>2 DEF LatestIs
<1>6. RevocationsCounted'
  <2>1. RevocationsCounted
    BY DEF ComplaintInv
  <2>2. QED
    BY <1>1, <2>1, RevocationAdded
<1>7. (snapshot'.decision = None) <=> (Complaint!Of("DECIDED")' = {})
  <2>1. Complaint!Of("DECIDED")' = Complaint!Of("DECIDED")
    BY <1>1, EventAdded
  <2>2. (snapshot.decision = None) <=> (Complaint!Of("DECIDED") = {})
    BY DEF ComplaintInv
  <2>3. QED
    BY <2>1, <2>2
<1>8. QED
  BY <1>2, <1>3, <1>4, <1>5, <1>6, <1>7 DEF ComplaintInv

LEMMA DecideKept ==
  ASSUME ComplaintInv, NEW reviewer \in Reviewers, NEW at \in Times, NEW completedAt \in Times,
         NEW rationale \in BOOLEAN, Complaint!Decide(reviewer, at, completedAt, rationale)
  PROVE  ComplaintInv'
<1> DEFINE e == Complaint!Step("DECIDED", at, rationale)
           f == Complaint!Step("COMPLETED", completedAt, FALSE)
           decision == [at |-> at, reviewer |-> reviewer]
           last == Len(history)
<1>1. /\ complaint # None /\ complaint' = complaint /\ history' = history \o <<e, f>>
      /\ reviewer \notin {Editor, SafetyReviewer} /\ snapshot.acknowledgement # None
      /\ Complaint!Urgent => snapshot.quarantine # None
      /\ at > complaint.receivedAt + DecisionDue[complaint.severity] => rationale
      /\ snapshot' = [snapshot EXCEPT !.decision = decision]
  BY DEF Complaint!Decide, Complaint!Enter, Complaint!MayDecide, Complaint!Explained
<1>2. /\ e \in Complaint!Event /\ e.event = "DECIDED" /\ e.at = at /\ e.rationale = rationale
      /\ f \in Complaint!Event /\ f.event = "COMPLETED"
  <2>1. FALSE \in BOOLEAN
    BY Zenon
  <2>2. e \in Complaint!Event /\ e.event = "DECIDED" /\ e.at = at /\ e.rationale = rationale
    BY StepIsEvent DEF e
  <2>3. f \in Complaint!Event /\ f.event = "COMPLETED"
    BY <2>1, StepIsEvent DEF f
  <2>4. QED
    BY <2>2, <2>3
<1>3. decision \in Complaint!Decision /\ decision # None /\ decision.reviewer = reviewer
  BY OperationsAssumption DEF Complaint!Decision, Complaint!NoneAssumption
<1> HIDE DEF e, f, decision
<1>4. /\ snapshot' \in [acknowledgement : Times \cup {None}, quarantine : Times \cup {None},
                        decision : Complaint!Decision \cup {None}, revoked : Seq(Credentials)]
      /\ snapshot'.decision = decision
      /\ snapshot'.acknowledgement = snapshot.acknowledgement
      /\ snapshot'.quarantine = snapshot.quarantine /\ snapshot'.revoked = snapshot.revoked
  BY <1>1, <1>3 DEF ComplaintInv, Complaint!TypeOK
<1>5. history \in Seq(Complaint!Event)
  BY DEF ComplaintInv, Complaint!TypeOK, Complaint!Event
<1> HIDE DEF last
<1>6. /\ history' \in Seq(Complaint!Event) /\ last \in Nat /\ DOMAIN history = 1..last
      /\ DOMAIN history' = 1..(last + 2)
      /\ \A n \in DOMAIN history : history'[n] = history[n]
      /\ history'[last + 1] = e /\ history'[last + 2] = f
      /\ Complaint!Of("DECIDED")' = Complaint!Of("DECIDED") \cup {last + 1}
      /\ last + 2 \in Complaint!Of("COMPLETED")'
      /\ Complaint!Of("COMPLETED") \subseteq Complaint!Of("COMPLETED")'
      /\ \A kind : kind \notin {"DECIDED", "COMPLETED"} =>
           Complaint!Of(kind)' = Complaint!Of(kind)
  BY <1>1, <1>2, <1>5, DecisionAdded DEF last
<1>7. \A kind : Complaint!Of(kind) \subseteq 1..last
  BY <1>6 DEF Complaint!Of
<1>8. /\ Complaint!Of("ACKNOWLEDGED") # {}
      /\ Complaint!Urgent => Complaint!Of("QUARANTINED") # {}
  BY <1>1 DEF ComplaintInv, LatestIs
<1>9. Complaint!Urgent' = Complaint!Urgent
  BY <1>1 DEF Complaint!Urgent
<1>10. Ordered'
  <2>1. /\ DecisionsFollow
        /\ Complaint!Of("QUARANTINED") # {} => Complaint!Urgent
        /\ \A n \in DOMAIN history : Late(history[n]) => history[n].rationale
    BY <1>1 DEF ComplaintInv, Ordered
  <2>2. DecisionsFollow'
    <3> SUFFICES ASSUME NEW n \in Complaint!Of("DECIDED")'
                 PROVE  /\ \E m \in Complaint!Of("ACKNOWLEDGED")' : m < n
                        /\ Complaint!Urgent' => \E m \in Complaint!Of("QUARANTINED")' : m < n
                        /\ n + 1 \in Complaint!Of("COMPLETED")'
      BY DEF DecisionsFollow
    <3>1. CASE n \in Complaint!Of("DECIDED")
      BY <3>1, <2>1, <1>6, <1>9 DEF DecisionsFollow
    <3>2. CASE n = last + 1
      <4>1. \A m \in 1..last : m < n
        BY <3>2, <1>6
      <4>2. (\E m \in Complaint!Of("ACKNOWLEDGED")' : m < n)
            /\ (Complaint!Urgent' => \E m \in Complaint!Of("QUARANTINED")' : m < n)
        BY <4>1, <1>6, <1>7, <1>8, <1>9
      <4>3. n + 1 = last + 2
        BY <3>2, <1>6
      <4>4. QED
        BY <4>2, <4>3, <1>6
    <3>3. QED
      BY <3>1, <3>2, <1>6
  <2>3. ASSUME NEW n \in DOMAIN history' PROVE Late(history[n])' => history'[n].rationale
    <3>1. CASE n \in DOMAIN history
      <4>1. history'[n] = history[n]
        BY <3>1, <1>6
      <4>2. Late(history[n])' = Late(history[n])
        BY <4>1, <1>1, <1>9 DEF Late
      <4>3. QED
        BY <3>1, <4>1, <4>2, <2>1
    <3>2. CASE n = last + 1
      <4>1. history'[n] = e
        BY <3>2, <1>6
      <4>2. QED
        BY <4>1, <1>1, <1>2 DEF Late
    <3>3. CASE n = last + 2
      <4>1. history'[n] = f
        BY <3>3, <1>6
      <4>2. QED
        BY <4>1, <1>2 DEF Late
    <3>4. QED
      BY <3>1, <3>2, <3>3, <1>6
  <2>4. Complaint!Of("QUARANTINED")' = Complaint!Of("QUARANTINED")
    BY <1>6
  <2>5. QED
    BY <2>1, <2>2, <2>3, <2>4, <1>1, <1>3, <1>4, <1>9 DEF Ordered
<1>11. LatestIs(snapshot.acknowledgement, "ACKNOWLEDGED")'
       /\ LatestIs(snapshot.quarantine, "QUARANTINED")'
  BY <1>4, <1>6, <1>7 DEF ComplaintInv, LatestIs
<1>12. RevocationsCounted'
  <2>1. Complaint!Of("CREDENTIAL_REVOKED")' = Complaint!Of("CREDENTIAL_REVOKED")
    BY <1>6
  <2>2. snapshot'.revoked = snapshot.revoked /\ RevocationsCounted
    BY <1>4 DEF ComplaintInv
  <2>3. QED
    BY <2>1, <2>2 DEF RevocationsCounted
<1>13. Complaint!TypeOK'
  BY <1>1, <1>4, <1>6 DEF ComplaintInv, Complaint!TypeOK, Complaint!Event
<1>14. (snapshot'.decision = None) <=> (Complaint!Of("DECIDED")' = {})
  BY <1>3, <1>4, <1>6
<1>15. complaint' # None
  BY <1>1
<1>16. QED
  BY <1>10, <1>11, <1>12, <1>13, <1>14, <1>15 DEF ComplaintInv

LEMMA ComplaintNext ==
  ASSUME ComplaintInv, Complaint!Next PROVE ComplaintInv'
<1> PICK t \in Times :
      \/ \E s \in Severities, c \in BOOLEAN : Complaint!Open(s, c, t)
      \/ \E r \in BOOLEAN : Complaint!Acknowledge(t, r) \/ Complaint!Quarantine(t, r)
      \/ \E c \in Credentials : Complaint!ExplicitlyRevokeCredential(c, t)
      \/ \E who \in Reviewers, u \in Times, r \in BOOLEAN : Complaint!Decide(who, t, u, r)
  BY DEF Complaint!Next
<1>1. snapshot \in [acknowledgement : Times \cup {None}, quarantine : Times \cup {None},
                    decision : Complaint!Decision \cup {None}, revoked : Seq(Credentials)]
  BY DEF ComplaintInv, Complaint!TypeOK
<1>2. CASE \E s \in Severities, c \in BOOLEAN : Complaint!Open(s, c, t)
  BY <1>2, OpenKept
<1>3. ASSUME NEW r \in BOOLEAN, Complaint!Acknowledge(t, r) PROVE ComplaintInv'
  <2> DEFINE e == Complaint!Step("ACKNOWLEDGED", t, r)
  <2>1. /\ e \in Complaint!Event /\ e.event = "ACKNOWLEDGED" /\ e.at = t /\ e.rationale = r
    BY StepIsEvent
  <2>2. /\ complaint # None /\ complaint' = complaint /\ history' = history \o <<e>>
        /\ t > complaint.receivedAt + AcknowledgementDue[complaint.severity] => r
        /\ snapshot' = [snapshot EXCEPT !.acknowledgement = t]
    BY <1>3 DEF Complaint!Acknowledge, Complaint!Enter, Complaint!Explained
  <2> HIDE DEF e
  <2>3. Late(e) => e.rationale
    BY <2>1, <2>2 DEF Late
  <2>4. /\ snapshot' \in [acknowledgement : Times \cup {None}, quarantine : Times \cup {None},
                          decision : Complaint!Decision \cup {None}, revoked : Seq(Credentials)]
        /\ snapshot'.acknowledgement = t /\ snapshot'.quarantine = snapshot.quarantine
        /\ snapshot'.decision = snapshot.decision /\ snapshot'.revoked = snapshot.revoked
    BY <1>1, <2>2
  <2>5. QED
    BY <2>1, <2>2, <2>3, <2>4, EntryKept
<1>4. ASSUME NEW r \in BOOLEAN, Complaint!Quarantine(t, r) PROVE ComplaintInv'
  <2> DEFINE e == Complaint!Step("QUARANTINED", t, r)
  <2>1. /\ e \in Complaint!Event /\ e.event = "QUARANTINED" /\ e.at = t /\ e.rationale = r
    BY StepIsEvent
  <2>2. /\ complaint # None /\ complaint' = complaint /\ history' = history \o <<e>>
        /\ Complaint!Urgent
        /\ t > complaint.receivedAt + QuarantineDue[complaint.severity] => r
        /\ snapshot' = [snapshot EXCEPT !.quarantine = t]
    BY <1>4 DEF Complaint!Quarantine, Complaint!Enter, Complaint!Explained
  <2> HIDE DEF e
  <2>3. Late(e) => e.rationale
    BY <2>1, <2>2 DEF Late
  <2>4. /\ snapshot' \in [acknowledgement : Times \cup {None}, quarantine : Times \cup {None},
                          decision : Complaint!Decision \cup {None}, revoked : Seq(Credentials)]
        /\ snapshot'.quarantine = t /\ snapshot'.acknowledgement = snapshot.acknowledgement
        /\ snapshot'.decision = snapshot.decision /\ snapshot'.revoked = snapshot.revoked
    BY <1>1, <2>2
  <2>5. QED
    BY <2>1, <2>2, <2>3, <2>4, EntryKept
<1>5. ASSUME NEW c \in Credentials, Complaint!ExplicitlyRevokeCredential(c, t) PROVE ComplaintInv'
  <2> DEFINE e == Complaint!Step("CREDENTIAL_REVOKED", t, FALSE)
  <2>1. FALSE \in BOOLEAN
    BY Zenon
  <2>2. e \in Complaint!Event
    BY <2>1, StepIsEvent
  <2>3. e.event = "CREDENTIAL_REVOKED" /\ e.at = t
    BY DEF Complaint!Step
  <2>4. /\ complaint # None /\ complaint' = complaint /\ history' = history \o <<e>>
        /\ snapshot' = [snapshot EXCEPT !.revoked = Append(@, c)]
    BY <1>5 DEF Complaint!ExplicitlyRevokeCredential, Complaint!Enter
  <2> HIDE DEF e
  <2>5. Append(snapshot.revoked, c) \in Seq(Credentials)
    BY <1>1
  <2>6. ~Late(e)
    BY <2>3 DEF Late
  <2>7. QED
    BY <1>1, <2>2, <2>3, <2>4, <2>5, <2>6, EntryKept
<1>6. CASE \E who \in Reviewers, u \in Times, r \in BOOLEAN : Complaint!Decide(who, t, u, r)
  BY <1>6, DecideKept
<1>7. QED
  BY <1>2, <1>3, <1>4, <1>5, <1>6

LEMMA ComplaintInit == Init => ComplaintInv
<1> SUFFICES ASSUME Complaint!Init PROVE ComplaintInv
  BY DEF Init
<1>1. /\ complaint = None /\ history = << >>
      /\ snapshot = [acknowledgement |-> None, quarantine |-> None, decision |-> None,
                     revoked |-> << >>]
  BY DEF Complaint!Init
<1>2. \A kind : Complaint!Of(kind) = {}
  BY <1>1 DEF Complaint!Of
<1>3. Complaint!TypeOK
  BY <1>1 DEF Complaint!TypeOK
<1>4. RevocationsCounted
  <2> DEFINE f == [n \in {} |-> 0]
  <2>1. DOMAIN snapshot.revoked = {}
    BY <1>1
  <2>2. f \in [{} -> {}] /\ {f[n] : n \in DOMAIN f} = {}
    OBVIOUS
  <2> HIDE DEF f
  <2>3. QED
    BY <1>2, <2>1, <2>2 DEF RevocationsCounted
<1>5. QED
  BY <1>1, <1>2, <1>3, <1>4 DEF ComplaintInv, Ordered, LatestIs

LEMMA ComplaintSteps == ComplaintInv /\ [Next]_vars => ComplaintInv'
<1> SUFFICES ASSUME ComplaintInv, [Next]_vars PROVE ComplaintInv'
  OBVIOUS
<1>1. CASE ComplaintStep
  BY <1>1, ComplaintNext DEF ComplaintStep
<1>2. CASE UNCHANGED complaints
  <2>1. complaint' = complaint /\ snapshot' = snapshot /\ history' = history
    BY <1>2 DEF complaints
  <2>2. \A kind : Complaint!Of(kind)' = Complaint!Of(kind)
    BY <2>1 DEF Complaint!Of
  <2>3. Complaint!Urgent' = Complaint!Urgent
    BY <2>1 DEF Complaint!Urgent
  <2>4. Ordered'
    BY <2>1, <2>2, <2>3 DEF ComplaintInv, Ordered, DecisionsFollow, Late
  <2>5. RevocationsCounted'
    BY <2>1, <2>2 DEF ComplaintInv, RevocationsCounted
  <2>6. Complaint!TypeOK'
    BY <2>1 DEF ComplaintInv, Complaint!TypeOK
  <2>7. QED
    BY <2>1, <2>2, <2>4, <2>5, <2>6 DEF ComplaintInv, LatestIs
<1>3. QED
  BY <1>1, <1>2 DEF Next, vars, GateStep, BookStep, SessionStep, EnrollmentStep, WithdrawalStep,
                    HoldStep, LedgerStep, OutageStep, RestoreStep

LEMMA ShownIsLatest ==
  ASSUME ComplaintInv, NEW kind, NEW x, LatestIs(x, kind)
  PROVE  x = IF Complaint!Of(kind) = {} THEN None
             ELSE history[CHOOSE n \in Complaint!Of(kind) : \A m \in Complaint!Of(kind) : m <= n].at
<1>1. \A n \in Complaint!Of(kind) : n \in Nat
  <2>1. DOMAIN history = 1..Len(history) /\ Len(history) \in Nat
    BY LenProperties DEF ComplaintInv, Complaint!TypeOK
  <2>2. QED
    BY <2>1 DEF Complaint!Of
<1>2. ASSUME NEW n \in Complaint!Of(kind), \A m \in Complaint!Of(kind) : m <= n
      PROVE  n = CHOOSE l \in Complaint!Of(kind) : \A m \in Complaint!Of(kind) : m <= l
  <2>1. \A l \in Complaint!Of(kind) : (\A m \in Complaint!Of(kind) : m <= l) => l = n
    BY <1>1, <1>2
  <2>2. QED
    BY <1>2, <2>1
<1>3. QED
  BY <1>2 DEF LatestIs

(* A complaint is decided in order and by others than its first judges,    *)
(* late steps carry their rationale, and what its snapshot shows is what   *)
(* its history says (ComplaintCase).                                       *)
THEOREM ComplaintsAlwaysDecidedInOrder == Spec => []ComplaintsAreDecidedInOrder
<1>1. ComplaintInv => Complaint!SnapshotIsHistory
  <2> SUFFICES ASSUME ComplaintInv PROVE Complaint!SnapshotIsHistory
    OBVIOUS
  <2>1. /\ LatestIs(snapshot.acknowledgement, "ACKNOWLEDGED")
        /\ LatestIs(snapshot.quarantine, "QUARANTINED")
        /\ (snapshot.decision = None) <=> (Complaint!Of("DECIDED") = {})
        /\ RevocationsCounted
    BY DEF ComplaintInv
  <2>2. (snapshot.decision = None) = (Complaint!Of("DECIDED") = {})
    BY <2>1
  <2>3. QED
    BY <2>1, <2>2, ShownIsLatest DEF Complaint!SnapshotIsHistory, RevocationsCounted
<1>2. ComplaintInv => ComplaintsAreDecidedInOrder
  BY <1>1, InOrder DEF ComplaintInv, ComplaintsAreDecidedInOrder
<1>3. QED
  BY <1>2, ComplaintInit, ComplaintSteps, PTL DEF Spec
-----------------------------------------------------------------------------
(* Incidents.                                                              *)

\* The recorded incidents follow the signed rules, and excuse minutes they cover.
AvailabilityInv ==
  /\ incidents \subseteq [rule : DOMAIN Rules, start : 0..LastMinute,
                          end : (0..LastMinute) \cup {None}, scope : Scopes]
  /\ \A i \in incidents : Rules[i.rule].preserve = Rules[i.rule].platform
  /\ DOMAIN observed = Outage!Minutes
  /\ \A m \in Outage!Minutes : observed[m] # None /\ observed[m].by # None =>
       LET i == observed[m].by
       IN /\ i \in incidents /\ Rules[i.rule].platform
          /\ i.start <= m /\ (i.end = None \/ m < i.end)

\* Evidence is of a version that was current at its instant, and so is a delivery, nearly.
DeliveryInv ==
  /\ minute \in Nat /\ control \in Seq(Nat) /\ control # << >>
  /\ evidence \subseteq [version : 1..Len(control), at : 0..minute]
  /\ \A e \in evidence : e.version < Len(control) => e.at <= control[e.version + 1]
  /\ delivered # None =>
       /\ delivered \in [version : 1..Len(control), at : 0..minute]
       /\ delivered.version < Len(control) => delivered.at <= control[delivered.version + 1] + MaxAge

LEMMA OutageConstants ==
  /\ ObservedFrom \in Nat /\ ObservedTo \in Nat /\ ObservedFrom < ObservedTo
  /\ DayMinutes \in Nat \ {0} /\ Num \in Nat /\ Den \in Nat
  /\ MaxAge \in Nat /\ LastMinute \in Nat
  /\ Outage!Minutes = ObservedFrom..(ObservedTo - 1)
BY OperationsAssumption DEF Outage!WindowAssumption, Outage!TargetAssumption,
     Outage!BoundAssumption, Outage!Minutes

LEMMA RecordIncidentKept ==
  ASSUME AvailabilityInv, NEW r \in DOMAIN Rules, NEW s \in 0..LastMinute,
         NEW e \in (0..LastMinute) \cup {None}, NEW scope \in Scopes, NEW signer,
         NEW t \in 0..LastMinute, NEW u \in 0..LastMinute,
         Outage!Record(r, s, e, scope, signer, t, u)
  PROVE  AvailabilityInv'
<1> DEFINE new == [rule |-> r, start |-> s, end |-> e, scope |-> scope]
<1>1. /\ Rules[r].preserve = Rules[r].platform /\ incidents' = incidents \cup {new}
      /\ observed' = observed
  BY DEF Outage!Record, Outage!Parses
<1>2. /\ new \in [rule : DOMAIN Rules, start : 0..LastMinute,
                  end : (0..LastMinute) \cup {None}, scope : Scopes]
      /\ new.rule = r
  OBVIOUS
<1> HIDE DEF new
<1>3. QED
  BY <1>1, <1>2 DEF AvailabilityInv

LEMMA ObserveKept ==
  ASSUME AvailabilityInv, NEW m \in Outage!Minutes, NEW mark, NEW by,
         Outage!Observe(m, mark, by),
         by # None =>
           /\ by \in incidents /\ Rules[by.rule].platform
           /\ by.start <= m /\ (by.end = None \/ m < by.end)
  PROVE  AvailabilityInv'
<1>1. /\ observed' = [observed EXCEPT ![m] = [status |-> mark, by |-> by]]
      /\ incidents' = incidents
  BY DEF Outage!Observe
<1>2. /\ DOMAIN observed' = Outage!Minutes /\ observed'[m].by = by
      /\ \A k \in Outage!Minutes \ {m} : observed'[k] = observed[k]
  BY <1>1 DEF AvailabilityInv
<1>3. ASSUME NEW k \in Outage!Minutes, observed'[k] # None, observed'[k].by # None
      PROVE  LET i == observed'[k].by
             IN /\ i \in incidents /\ Rules[i.rule].platform
                /\ i.start <= k /\ (i.end = None \/ k < i.end)
  <2>1. CASE k = m
    BY <2>1, <1>2, <1>3
  <2>2. CASE k # m
    BY <2>2, <1>2, <1>3 DEF AvailabilityInv
  <2>3. QED
    BY <2>1, <2>2
<1>4. QED
  BY <1>1, <1>2, <1>3 DEF AvailabilityInv

LEMMA AvailabilitySteps ==
  ASSUME AvailabilityInv, Outage!AvailabilityNext PROVE AvailabilityInv'
<1>1. ASSUME NEW r \in DOMAIN Rules, NEW s \in 0..LastMinute, NEW t \in 0..LastMinute,
             NEW u \in 0..LastMinute, NEW e \in (0..LastMinute) \cup {None}, NEW scope \in Scopes,
             NEW signer \in {"decision owner", "other"},
             Outage!Record(r, s, e, scope, signer, t, u)
      PROVE  AvailabilityInv'
  BY <1>1, RecordIncidentKept
<1>2. ASSUME NEW m \in Outage!Minutes, NEW mark \in {"AVAILABLE", "UNAVAILABLE"},
             Outage!Observe(m, mark, None)
      PROVE  AvailabilityInv'
  BY <1>2, ObserveKept
<1>3. ASSUME NEW m \in Outage!Minutes, NEW scope \in Scopes, NEW i \in incidents,
             Outage!ObserveInvalid(m, scope, i)
      PROVE  AvailabilityInv'
  <2>1. /\ Rules[i.rule].platform /\ i.start <= m /\ (i.end = None \/ m < i.end)
        /\ Outage!Observe(m, "PLATFORM_INVALID", i)
    BY <1>3 DEF Outage!ObserveInvalid
  <2>2. QED
    BY <2>1, ObserveKept
<1>4. QED
  BY <1>1, <1>2, <1>3 DEF Outage!AvailabilityNext

\* A minute lies in its day.
LEMMA DayOfMinute ==
  ASSUME NEW m \in Nat, NEW d \in Nat \ {0}
  PROVE  (m \div d) * d \in Nat /\ (m \div d) * d <= m /\ m < (m \div d) * d + d
<1>1. m = d * (m \div d) + (m % d) /\ m % d \in 0..(d - 1) /\ m \div d \in Nat
  OBVIOUS
<1> DEFINE q == m \div d
           r == m % d
<1>2. q \in Nat /\ r \in 0..(d - 1) /\ m = d * q + r
  BY <1>1
<1> HIDE DEF q, r
<1>3. q * d \in Nat /\ q * d <= m /\ m < q * d + d
  BY <1>2
<1>4. QED
  BY <1>3 DEF q

LEMMA OutagesCount == AvailabilityInv => Outage!OutagesAreAccountedFor
<1> SUFFICES ASSUME AvailabilityInv PROVE Outage!OutagesAreAccountedFor
  OBVIOUS
<1>1. ASSUME NEW m \in Outage!Minutes, observed[m] # None, observed[m].by # None
      PROVE  Outage!StreakPreserved(observed[m].by, observed[m].by.scope,
                                    (m \div DayMinutes) * DayMinutes)
  <2> DEFINE i == observed[m].by
             day == (m \div DayMinutes) * DayMinutes
  <2>1. /\ i \in incidents /\ Rules[i.rule].platform
        /\ i.start <= m /\ (i.end = None \/ m < i.end)
    BY <1>1 DEF AvailabilityInv
  <2>2. i.start \in Nat /\ (i.end = None \/ i.end \in Nat)
    <3>1. i \in [rule : DOMAIN Rules, start : 0..LastMinute,
                 end : (0..LastMinute) \cup {None}, scope : Scopes]
      BY <2>1 DEF AvailabilityInv
    <3> HIDE DEF i
    <3>2. i.start \in 0..LastMinute /\ i.end \in (0..LastMinute) \cup {None}
      BY <3>1
    <3>3. QED
      BY <3>2, OutageConstants
  <2>3. m \in Nat /\ day \in Nat /\ day <= m /\ m < day + DayMinutes /\ DayMinutes \in Nat
    BY DayOfMinute, OutageConstants
  <2> HIDE DEF i, day
  <2>4. i.start < day + DayMinutes /\ (i.end = None \/ i.end > day)
    BY <2>1, <2>2, <2>3
  <2>5. Rules[i.rule].preserve
    <3>1. Rules[i.rule].preserve = Rules[i.rule].platform
      BY <2>1, Zenon DEF AvailabilityInv
    <3>2. QED
      BY <2>1, <3>1, Zenon
  <2>6. Outage!StreakPreserved(i, i.scope, day)
    BY <2>1, <2>4, <2>5 DEF Outage!StreakPreserved
  <2>7. QED
    BY <2>6 DEF i, day
<1>2. ASSUME Outage!AvailabilityStatus = "PASS"
      PROVE  Outage!Cardinality(Outage!Minutes \ Outage!Available) * Den
               <= (Den - Num) * (ObservedTo - ObservedFrom)
  <2> DEFINE all == Outage!Minutes
             some == Outage!Available
             span == ObservedTo - ObservedFrom
  <2>1. Outage!Cardinality(some) * Den >= Num * span
    BY <1>2 DEF Outage!AvailabilityStatus
  <2>2. IsFiniteSet(all) /\ Cardinality(all) = span
    BY FS_Interval, OutageConstants
  <2>3. some \subseteq all
    BY DEF Outage!Available
  <2>4. /\ Outage!Cardinality(some) = Cardinality(some)
        /\ Outage!Cardinality(all \ some) = Cardinality(all \ some)
    BY DEF Outage!Cardinality, Cardinality
  <2> HIDE DEF all, some
  <2>5. /\ IsFiniteSet(some) /\ Cardinality(some) \in Nat
        /\ Cardinality(all \ some) = span - Cardinality(some)
    <3>1. all \cap some = some
      BY <2>3
    <3>2. IsFiniteSet(some) /\ Cardinality(some) \in Nat
      BY <2>2, <2>3, FS_Subset, FS_CardinalityType
    <3>3. Cardinality(all \ some) = Cardinality(all) - Cardinality(all \cap some)
      BY <2>2, FS_Difference
    <3>4. QED
      BY <2>2, <3>1, <3>2, <3>3
  <2> DEFINE c == Cardinality(some)
  <2>6. c \in Nat /\ span \in Nat /\ Den \in Nat /\ Num \in Nat /\ c * Den >= Num * span
    BY <2>1, <2>4, <2>5, OutageConstants
  <2> HIDE DEF c, span
  <2>7. (span - c) * Den <= (Den - Num) * span
    BY <2>6
  <2>8. QED
    BY <2>4, <2>5, <2>7 DEF c, span, all, some
<1>3. QED
  BY <1>1, <1>2 DEF Outage!OutagesAreAccountedFor, Outage!Missing

LEMMA DeliverySteps ==
  ASSUME DeliveryInv, Outage!DeliveryNext PROVE DeliveryInv'
<1> DEFINE last == Len(control)
<1>1. last \in Nat \ {0} /\ DOMAIN control = 1..last /\ \A n \in 1..last : control[n] \in Nat
  BY LenProperties, EmptySeq, ElementOfSeq DEF DeliveryInv
<1>2. CASE Outage!Tick
  BY <1>2 DEF Outage!Tick, DeliveryInv
<1>3. CASE Outage!ObserveControl
  <2> DEFINE new == [version |-> last, at |-> minute]
  <2>1. /\ evidence' = evidence \cup {new}
        /\ minute' = minute /\ control' = control /\ delivered' = delivered
    BY <1>3 DEF Outage!ObserveControl
  <2>2. new \in [version : 1..last, at : 0..minute] /\ new.version = last
    BY <1>1 DEF DeliveryInv
  <2> HIDE DEF new
  <2>3. \A e \in evidence' : e.version < last => e.at <= control[e.version + 1]
    BY <1>1, <2>1, <2>2 DEF DeliveryInv
  <2>4. evidence' \subseteq [version : 1..last, at : 0..minute]
    BY <2>1, <2>2 DEF DeliveryInv
  <2>5. QED
    BY <2>1, <2>3, <2>4 DEF DeliveryInv
<1>4. CASE Outage!ChangeControl
  <2>1. /\ control' = Append(control, minute)
        /\ minute' = minute /\ evidence' = evidence /\ delivered' = delivered
    BY <1>4 DEF Outage!ChangeControl
  <2> DEFINE new == Append(control, minute)
  <2>2. /\ new \in Seq(Nat) /\ Len(new) = last + 1 /\ new # << >>
        /\ \A n \in 1..last : new[n] = control[n]
        /\ new[last + 1] = minute
    <3> DEFINE c == control
    <3>1. c \in Seq(Nat) /\ minute \in Nat
      BY DEF DeliveryInv
    <3> HIDE DEF c
    <3>2. /\ Append(c, minute) \in Seq(Nat) /\ Len(Append(c, minute)) = Len(c) + 1
          /\ \A n \in 1..Len(c) : Append(c, minute)[n] = c[n]
          /\ Append(c, minute)[Len(c) + 1] = minute
          /\ Append(c, minute) # << >>
      BY <3>1, AppendProperties, LenProperties
    <3>3. QED
      BY <3>2 DEF c
  <2> HIDE DEF new, last
  <2>3. ASSUME NEW e \in [version : 1..last, at : 0..minute],
               NEW age \in Nat, e.version < last => e.at <= control[e.version + 1] + age
        PROVE  e.version < last + 1 => e.at <= new[e.version + 1] + age
    <3>1. e.version \in 1..last /\ e.at \in Nat /\ e.at <= minute /\ minute \in Nat
      BY <2>3 DEF DeliveryInv
    <3>2. CASE e.version = last
      BY <3>1, <3>2, <2>2
    <3>3. CASE e.version < last
      <4>1. e.version + 1 \in 1..last
        BY <1>1, <3>1, <3>3
      <4>2. QED
        BY <4>1, <3>3, <2>2, <2>3
    <3>4. QED
      BY <1>1, <3>1, <3>2, <3>3
  <2>4. /\ evidence \subseteq [version : 1..last, at : 0..minute]
        /\ \A e \in evidence : e.version < last => e.at <= control[e.version + 1]
    BY DEF DeliveryInv, last
  <2>5. ASSUME NEW e \in evidence, e.version < last + 1 PROVE e.at <= new[e.version + 1]
    <3>1. e.version \in 1..last /\ e.at \in Nat
      BY <2>4 DEF DeliveryInv
    <3>2. e.version + 1 \in 1..(last + 1)
      BY <1>1, <3>1
    <3>3. new[e.version + 1] \in Nat /\ (e.version < last => control[e.version + 1] \in Nat)
      BY <1>1, <2>2, <3>1, <3>2 DEF DeliveryInv
    <3>4. e.version < last => e.at <= control[e.version + 1] + 0
      BY <2>4, <3>1, <3>3
    <3>5. e.at <= new[e.version + 1] + 0
      BY <2>3, <2>4, <2>5, <3>4
    <3>6. QED
      BY <3>3, <3>5
  <2>6. ASSUME delivered # None
        PROVE  /\ delivered \in [version : 1..(last + 1), at : 0..minute]
               /\ delivered.version < last + 1 =>
                    delivered.at <= new[delivered.version + 1] + MaxAge
    <3>1. /\ delivered \in [version : 1..last, at : 0..minute]
          /\ delivered.version < last => delivered.at <= control[delivered.version + 1] + MaxAge
      BY <2>6 DEF DeliveryInv, last
    <3>2. 1..last \subseteq 1..(last + 1)
      BY <1>1
    <3>3. QED
      BY <3>1, <3>2, <2>3, OutageConstants
  <2>7. evidence \subseteq [version : 1..(last + 1), at : 0..minute]
    BY <1>1, <2>4
  <2>8. QED
    BY <2>1, <2>2, <2>5, <2>6, <2>7 DEF DeliveryInv, new, last
<1>5. ASSUME NEW e \in evidence, NEW v \in 1..MaxVersion, NEW ok \in BOOLEAN,
             Outage!Deliver(e, v, ok)
      PROVE  DeliveryInv'
  <2> DEFINE new == [version |-> v, at |-> minute]
  <2>1. /\ e.version = v /\ minute - e.at <= MaxAge /\ delivered' = new
        /\ control' = control /\ minute' = minute /\ evidence' = evidence
    BY <1>5 DEF Outage!Deliver
  <2>2. /\ e.version \in 1..last /\ e.at \in 0..minute /\ minute \in Nat
        /\ e.version < last => e.at <= control[e.version + 1]
    BY DEF DeliveryInv
  <2>3. new \in [version : 1..last, at : 0..minute] /\ new.version = v /\ new.at = minute
    BY <2>1, <2>2
  <2> HIDE DEF new
  <2>4. ASSUME v < last PROVE minute <= control[v + 1] + MaxAge
    <3>1. v + 1 \in 1..last
      BY <1>1, <2>1, <2>2, <2>4
    <3>2. control[v + 1] \in Nat
      BY <1>1, <3>1
    <3>3. QED
      BY <2>1, <2>2, <2>4, <3>2, OutageConstants
  <2>5. QED
    BY <2>1, <2>3, <2>4 DEF DeliveryInv
<1>6. QED
  BY <1>2, <1>3, <1>4, <1>5 DEF Outage!DeliveryNext

\* A step of the availability part leaves the delivery part, and the other way around.
LEMMA OutageSteps ==
  AvailabilityInv /\ DeliveryInv /\ [Next]_vars => AvailabilityInv' /\ DeliveryInv'
<1> SUFFICES ASSUME AvailabilityInv, DeliveryInv, [Next]_vars
             PROVE  AvailabilityInv' /\ DeliveryInv'
  OBVIOUS
<1>1. ASSUME UNCHANGED <<incidents, observed>> PROVE AvailabilityInv'
  BY <1>1 DEF AvailabilityInv
<1>2. ASSUME UNCHANGED <<minute, control, evidence, delivered>> PROVE DeliveryInv'
  BY <1>2 DEF DeliveryInv
<1>3. CASE Outage!AvailabilityNext
  <2>1. UNCHANGED <<minute, control, evidence, delivered>>
    BY <1>3 DEF Outage!AvailabilityNext, Outage!Record, Outage!ObserveInvalid, Outage!Observe
  <2>2. QED
    BY <1>2, <1>3, <2>1, AvailabilitySteps
<1>4. CASE Outage!DeliveryNext
  <2>1. UNCHANGED <<incidents, observed>>
    BY <1>4 DEF Outage!DeliveryNext, Outage!Tick, Outage!ObserveControl, Outage!ChangeControl,
                Outage!Deliver
  <2>2. QED
    BY <1>1, <1>4, <2>1, DeliverySteps
<1>5. CASE UNCHANGED outages
  BY <1>1, <1>2, <1>5 DEF outages
<1>6. QED
  BY <1>3, <1>4, <1>5 DEF Next, vars, GateStep, BookStep, SessionStep, EnrollmentStep,
       WithdrawalStep, HoldStep, LedgerStep, ComplaintStep, OutageStep, RestoreStep

LEMMA OutageInit == Init => AvailabilityInv /\ DeliveryInv
<1> SUFFICES ASSUME Outage!Init PROVE AvailabilityInv /\ DeliveryInv
  BY DEF Init
<1>1. AvailabilityInv
  BY DEF Outage!Init, AvailabilityInv
<1>2. DeliveryInv
  BY DEF Outage!Init, DeliveryInv
<1>3. QED
  BY <1>1, <1>2

(* A minute the platform spoilt counts against the availability and is     *)
(* excused to whoever it was spoilt for, and nothing is delivered under a  *)
(* version replaced longer ago than evidence may be old                    *)
(* (evaluateAvailability, evaluateStreakProtection, executeFreshDelivery). *)
THEOREM OutagesAlwaysAccountedFor == Spec => []OutagesAreAccountedFor
<1>1. DeliveryInv => Outage!StaleControlStops
  BY DEF DeliveryInv, Outage!StaleControlStops
<1>2. AvailabilityInv /\ DeliveryInv => OutagesAreAccountedFor
  BY <1>1, OutagesCount DEF OutagesAreAccountedFor
<1>3. QED
  BY <1>2, OutageInit, OutageSteps, PTL DEF Spec
-----------------------------------------------------------------------------
(* Sums over finite sets.                                                  *)

LEMMA LeastNatural ==
  ASSUME NEW T, T \subseteq Nat, T # {}
  PROVE  \E x \in T : \A y \in T : x <= y
<1> DEFINE R == OpToRel(<, Nat)
<1>1. IsWellFoundedOn(R, Nat)
  BY NatLessThanWellFounded
<1>2. \A x, y \in Nat : <<x, y>> \in R <=> x < y
  BY DEF OpToRel
<1> HIDE DEF R
<1>3. PICK x \in T : \A y \in T : ~(<<y, x>> \in R)
  BY <1>1, WFMin
<1>4. \A y \in T : x <= y
  <2> SUFFICES ASSUME NEW y \in T PROVE x <= y
    OBVIOUS
  <2>1. x \in Nat /\ y \in Nat
    OBVIOUS
  <2>2. ~(y < x)
    BY <1>2, <1>3, <2>1
  <2>3. QED
    BY <2>1, <2>2
<1>5. QED
  BY <1>4

\* One element of the set is taken, and the sum over the others is in the table.
Some(s) == CHOOSE x \in s : TRUE
SumFrom(w, f, s) == IF s = {} THEN 0 ELSE w[Some(s)] + f[s \ {Some(s)}]

SumTable(w, f, S) == f = [s \in SUBSET S |-> SumFrom(w, f, s)]

LEMMA OneTaken ==
  ASSUME NEW S, IsFiniteSet(S), NEW s \in SUBSET S, s # {}
  PROVE  /\ Some(s) \in s /\ s \ {Some(s)} \in SUBSET S
         /\ IsFiniteSet(s) /\ Cardinality(s) \in Nat \ {0}
         /\ Cardinality(s \ {Some(s)}) = Cardinality(s) - 1
<1>1. Some(s) \in s
  BY DEF Some
<1>2. IsFiniteSet(s) /\ Cardinality(s) \in Nat
  BY FS_Subset, FS_CardinalityType
<1>3. Cardinality(s) # 0
  BY <1>1, <1>2, FS_EmptySet
<1>4. Cardinality(s \ {Some(s)}) = Cardinality(s) - 1
  BY <1>1, <1>2, FS_RemoveElement
<1>5. QED
  BY <1>1, <1>2, <1>3, <1>4

\* A table of the sums over the parts of a finite set exists.
LEMMA SumsExist ==
  ASSUME NEW S, IsFiniteSet(S), NEW w
  PROVE  \E f : SumTable(w, f, S)
<1> DEFINE Small(k) == {s \in SUBSET S : Cardinality(s) <= k}
           Table(k) == \E f : f = [s \in Small(k) |-> SumFrom(w, f, s)]
           T == {k \in Nat : ~Table(k)}
<1>1. T = {}
  <2> SUFFICES ASSUME T # {} PROVE FALSE
    OBVIOUS
  <2> HIDE DEF Table
  <2>1. PICK k \in T : \A l \in T : k <= l
    BY LeastNatural
  <2>2. k \in Nat /\ ~Table(k)
    OBVIOUS
  <2>3. CASE k = 0
    <3> DEFINE f == [s \in Small(0) |-> 0]
    <3>1. ASSUME NEW s \in Small(0) PROVE s = {}
      <4>1. s # {} => Cardinality(s) \in Nat \ {0}
        BY OneTaken
      <4>2. QED
        BY <4>1
    <3>2. f = [s \in Small(0) |-> SumFrom(w, f, s)]
      BY <3>1 DEF SumFrom
    <3> HIDE DEF f
    <3>3. Table(0)
      BY <3>2 DEF Table
    <3>4. QED
      BY <2>2, <2>3, <3>3
  <2>4. CASE k # 0
    <3>1. k - 1 \in Nat /\ k - 1 \notin T
      BY <2>1, <2>2, <2>4
    <3>2. Table(k - 1)
      BY <3>1
    <3>3. PICK f : f = [s \in Small(k - 1) |-> SumFrom(w, f, s)]
      BY <3>2 DEF Table
    <3> DEFINE g == [s \in Small(k) |-> SumFrom(w, f, s)]
    <3>4. ASSUME NEW s \in Small(k - 1) PROVE s \in Small(k) /\ g[s] = f[s]
      <4>1. Cardinality(s) \in Nat
        BY FS_Subset, FS_CardinalityType
      <4>2. s \in Small(k)
        BY <4>1, <2>2
      <4>3. f[s] = SumFrom(w, f, s)
        <5> HIDE DEF Small
        <5>1. QED
          BY <3>3
      <4>4. QED
        BY <4>2, <4>3
    <3>5. ASSUME NEW s \in Small(k) PROVE SumFrom(w, g, s) = SumFrom(w, f, s)
      <4>1. CASE s = {}
        BY <4>1 DEF SumFrom
      <4>2. CASE s # {}
        <5>1. s \ {Some(s)} \in Small(k - 1)
          BY <4>2, <2>2, OneTaken
        <5>2. g[s \ {Some(s)}] = f[s \ {Some(s)}]
          BY <5>1, <3>4
        <5> HIDE DEF g
        <5>3. QED
          BY <5>2 DEF SumFrom
      <4>3. QED
        BY <4>1, <4>2
    <3>6. g = [s \in Small(k) |-> SumFrom(w, g, s)]
      BY <3>5
    <3> HIDE DEF g
    <3>7. Table(k)
      BY <3>6 DEF Table
    <3>8. QED
      BY <2>2, <3>7
  <2>5. QED
    BY <2>3, <2>4
<1>2. Cardinality(S) \in Nat
  BY FS_CardinalityType
<1>3. Small(Cardinality(S)) = SUBSET S
  BY FS_Subset
<1>4. Table(Cardinality(S))
  <2> HIDE DEF Table
  <2>1. QED
    BY <1>1, <1>2
<1>5. QED
  <2> HIDE DEF Small
  <2>1. QED
    BY <1>3, <1>4 DEF SumTable

\* Of two tables, the one whose weights are at most those of the other has the lower sums.
LEMMA SumsOrdered ==
  ASSUME NEW S, IsFiniteSet(S), NEW v, NEW w, NEW f, NEW g,
         \A x \in S : v[x] \in Nat /\ w[x] \in Nat /\ v[x] <= w[x],
         SumTable(v, f, S), SumTable(w, g, S)
  PROVE  f[S] \in Nat /\ g[S] \in Nat /\ f[S] <= g[S]
<1> DEFINE Fine(s) == f[s] \in Nat /\ g[s] \in Nat /\ f[s] <= g[s]
           T == {k \in Nat : \E s \in SUBSET S : Cardinality(s) = k /\ ~Fine(s)}
<1>1. T = {}
  <2> SUFFICES ASSUME T # {} PROVE FALSE
    OBVIOUS
  <2>1. PICK k \in T : \A l \in T : k <= l
    BY LeastNatural
  <2>2. PICK s \in SUBSET S : Cardinality(s) = k /\ ~Fine(s)
    OBVIOUS
  <2>3. f[s] = SumFrom(v, f, s) /\ g[s] = SumFrom(w, g, s)
    BY DEF SumTable
  <2>4. CASE s = {}
    BY <2>2, <2>3, <2>4 DEF SumFrom
  <2>5. CASE s # {}
    <3> DEFINE t == s \ {Some(s)}
    <3>1. /\ Some(s) \in S /\ t \in SUBSET S /\ k \in Nat /\ Cardinality(t) = k - 1
          /\ k - 1 \in Nat
      BY <2>2, <2>5, OneTaken
    <3>2. Fine(t)
      <4> HIDE DEF T
      <4>1. k - 1 \notin T
        BY <2>1, <3>1
      <4> USE DEF T
      <4> HIDE DEF t, Fine
      <4>2. QED
        BY <3>1, <4>1
    <3>3. f[s] = v[Some(s)] + f[t] /\ g[s] = w[Some(s)] + g[t]
      BY <2>3, <2>5 DEF SumFrom
    <3> HIDE DEF t
    <3>4. v[Some(s)] \in Nat /\ w[Some(s)] \in Nat /\ v[Some(s)] <= w[Some(s)]
      BY <3>1
    <3>5. QED
      BY <2>2, <3>2, <3>3, <3>4
  <2>6. QED
    BY <2>4, <2>5
<1>2. Cardinality(S) \in Nat /\ S \in SUBSET S
  BY FS_CardinalityType
<1>3. QED
  BY <1>1, <1>2
-----------------------------------------------------------------------------
(* Sessions and their results.                                             *)

Score == {None} \cup 0..Points[0]
Correction == {"ACTIVE"} \cup Corrections
Standing ==
  [interaction : {"UNSEEN", "OPEN", "ANSWERED", "REVEALED"}, correction : Correction,
   clues : 0..MaxClues, score : Score]
ShownRound ==
  [answered : BOOLEAN, revealed : BOOLEAN, correction : Correction, acknowledged : BOOLEAN,
   score : Score]
Recorded ==
  [round : PlayRounds, branch : {"POST_ANSWER", "ISSUED_UNANSWERED"},
   versions : {LineageVersions, {PlayedVersion}}]
View ==
  [status : {"IN_PROGRESS", "COMPLETED", "EXPIRED"}, started : BOOLEAN,
   answered : SUBSET PlayRounds, rounds : [PlayRounds -> ShownRound], last : {None} \cup Recorded]

SessionTyped ==
  /\ status \in {"NOT_STARTED", "IN_PROGRESS", "COMPLETED", "EXPIRED", "WITHDRAWN"}
  /\ state \in [PlayRounds -> Standing]
  /\ elsewhere \subseteq PlayRounds
  /\ clock \in Nat
  /\ view # None => view \in View

\* What the view shows is still so, and what it recorded of a correction agrees with it.
ShownIsSo ==
  view # None =>
    /\ view.status # "IN_PROGRESS" => status = view.status
    /\ view.answered \subseteq elsewhere
    /\ \A r \in PlayRounds :
         /\ view.rounds[r].score # None => state[r].score = view.rounds[r].score
         /\ view.rounds[r].answered => Session!Answered(r)

SessionInv == SessionTyped /\ ShownIsSo /\ Session!CorrectionsReachAnswers

LEMMA SessionConstants ==
  /\ MaxClues \in Nat /\ Points \in [0..MaxClues -> Nat] /\ Points[0] \in Nat
  /\ \A n \in 0..MaxClues : Points[n] \in 0..Points[0]
  /\ "ACTIVE" \notin Corrections /\ IsFiniteSet(PlayRounds) /\ Disputed \subseteq PlayRounds
  /\ DayEnd \in Nat /\ Grace \in Nat /\ LastTime \in Nat
<1>1. /\ MaxClues \in Nat /\ Points \in [0..MaxClues -> Nat]
      /\ \A n, m \in 0..MaxClues : n <= m => Points[m] <= Points[n]
  BY OperationsAssumption DEF Session!PointsAssumption
<1>2. \A n \in 0..MaxClues : Points[n] \in Nat /\ 0 \in 0..MaxClues /\ 0 <= n
  BY <1>1
<1>3. \A n \in 0..MaxClues : Points[n] \in 0..Points[0]
  BY <1>1, <1>2
<1>4. Points[0] \in Nat
  BY <1>1
<1>5. /\ "ACTIVE" \notin Corrections /\ IsFiniteSet(PlayRounds) /\ Disputed \subseteq PlayRounds
      /\ DayEnd \in Nat /\ Grace \in Nat /\ LastTime \in Nat
  BY OperationsAssumption
     DEF Session!VersionAssumption, Session!RoundAssumption, Session!TimeAssumption,
         Session!IsFiniteSet, IsFiniteSet
<1>6. QED
  BY <1>1, <1>3, <1>4, <1>5

\* The points of the rounds that count, and the most they may be.
ScoreOf(r) == IF view.rounds[r].score = None THEN 0 ELSE view.rounds[r].score
ScoreFrom(f, s) == IF s = {} THEN 0 ELSE ScoreOf(Some(s)) + f[s \ {Some(s)}]
ScoreTable == CHOOSE f : f = [s \in SUBSET Session!Counted |-> ScoreFrom(f, s)]
MaximumFrom(f, s) == IF s = {} THEN 0 ELSE Points[0] + f[s \ {Some(s)}]
MaximumTable == CHOOSE f : f = [s \in SUBSET Session!Counted |-> MaximumFrom(f, s)]

\* The score shown is at most what the rounds that count are worth.
LEMMA ScoreWithinMaximum ==
  ASSUME SessionTyped, view # None
  PROVE  Session!CurrentScore <= Session!AttainableMaximum
<1> DEFINE C == Session!Counted
           v == [r \in C |-> ScoreOf(r)]
           w == [r \in C |-> Points[0]]
<1>1. IsFiniteSet(C) /\ C \subseteq PlayRounds
  BY SessionConstants, FS_Subset DEF Session!Counted
<1>2. ASSUME NEW r \in C PROVE v[r] \in Nat /\ w[r] \in Nat /\ v[r] <= w[r]
  <2>1. view.rounds[r].score \in Score
    BY <1>1 DEF SessionTyped, View, ShownRound
  <2>2. QED
    BY <2>1, SessionConstants DEF Score, ScoreOf
<1>3. ASSUME NEW f, NEW s \in SUBSET C
      PROVE  ScoreFrom(f, s) = SumFrom(v, f, s) /\ MaximumFrom(f, s) = SumFrom(w, f, s)
  <2>1. s # {} => Some(s) \in C
    BY <1>1, OneTaken
  <2>2. s # {} => v[Some(s)] = ScoreOf(Some(s)) /\ w[Some(s)] = Points[0]
    BY <2>1
  <2> HIDE DEF v, w
  <2>3. QED
    BY <2>2 DEF ScoreFrom, MaximumFrom, SumFrom
<1> HIDE DEF v, w, C
<1>4. PICK f : SumTable(v, f, C)
  BY <1>1, SumsExist
<1>5. PICK g : SumTable(w, g, C)
  BY <1>1, SumsExist
<1>6. f = [s \in SUBSET C |-> ScoreFrom(f, s)] /\ g = [s \in SUBSET C |-> MaximumFrom(g, s)]
  BY <1>3, <1>4, <1>5 DEF SumTable
<1>7. /\ ScoreTable = [s \in SUBSET C |-> ScoreFrom(ScoreTable, s)]
      /\ MaximumTable = [s \in SUBSET C |-> MaximumFrom(MaximumTable, s)]
  BY <1>6 DEF ScoreTable, MaximumTable, C
<1>8. SumTable(v, ScoreTable, C) /\ SumTable(w, MaximumTable, C)
  BY <1>3, <1>7 DEF SumTable
<1>9. ScoreTable[C] <= MaximumTable[C]
  BY <1>1, <1>2, <1>8, SumsOrdered
<1>10. Session!CurrentScore = ScoreTable[C]
  BY DEF Session!CurrentScore, Session!Total, Session!MapThenSumSet, Session!MapThenFoldSet,
         ScoreTable, ScoreFrom, Some, ScoreOf, C
<1>11. Session!AttainableMaximum = MaximumTable[C]
  BY DEF Session!AttainableMaximum, Session!Total, Session!MapThenSumSet, Session!MapThenFoldSet,
         MaximumTable, MaximumFrom, Some, C
<1>12. QED
  BY <1>9, <1>10, <1>11

LEMMA ViewHonest ==
  ASSUME SessionInv PROVE Session!ViewIsHonest
<1> SUFFICES ASSUME view # None PROVE Session!ViewIsHonest
  BY DEF Session!ViewIsHonest
<1>1. Session!Access = "READ_ONLY" => \A r \in PlayRounds : ~Session!AcceptsAnswer(r)
  BY SessionConstants
     DEF SessionInv, SessionTyped, ShownIsSo, Session!Access, Session!AcceptsAnswer,
         Session!Answerable
<1>2. Session!CurrentScore <= Session!AttainableMaximum
  BY ScoreWithinMaximum DEF SessionInv
<1>3. \A r \in PlayRounds : view.rounds[r].score # None => view.rounds[r].score = state[r].score
  BY DEF SessionInv, ShownIsSo
<1>4. Session!CanComplete => \A r \in PlayRounds :
        \/ view.rounds[r].revealed /\ view.rounds[r].correction = "ACTIVE"
        \/ view.rounds[r].acknowledged /\ Session!StreakProtected
  BY DEF Session!CanComplete, Session!StreakProtected, Session!Counted
<1>5. QED
  BY <1>1, <1>2, <1>3, <1>4 DEF Session!ViewIsHonest

LEMMA SessionStart == Init => SessionInv
<1> SUFFICES ASSUME Init PROVE SessionInv
  OBVIOUS
<1>1. /\ status = "NOT_STARTED" /\ state = [r \in PlayRounds |-> Session!Fresh]
      /\ elsewhere = {} /\ view = None /\ clock = 0
  BY DEF Init, Session!Init
<1>2. Session!Fresh \in Standing
  BY SessionConstants DEF Session!Fresh, Standing, Correction, Score
<1>3. SessionTyped
  BY <1>1, <1>2 DEF SessionTyped
<1>4. QED
  BY <1>1, <1>3 DEF SessionInv, ShownIsSo, Session!CorrectionsReachAnswers

LEMMA OneRoundChanged ==
  ASSUME SessionInv, NEW r \in PlayRounds, NEW v \in Standing,
         state' = [state EXCEPT ![r] = v],
         Session!Answered(r) => v.interaction \in {"ANSWERED", "REVEALED"},
         state[r].score # None => v.score = state[r].score,
         UNCHANGED <<status, elsewhere, view, clock>>
  PROVE  SessionInv'
<1>1. /\ status' = status /\ elsewhere' = elsewhere /\ view' = view /\ clock' = clock
  OBVIOUS
<1>2. state' \in [PlayRounds -> Standing]
  BY DEF SessionInv, SessionTyped
<1>3. \A q \in PlayRounds :
        /\ Session!Answered(q) => Session!Answered(q)'
        /\ state[q].score # None => state'[q].score = state[q].score
  BY DEF SessionInv, SessionTyped, Session!Answered
<1>4. SessionTyped'
  BY <1>1, <1>2 DEF SessionInv, SessionTyped
<1>5. ShownIsSo'
  BY <1>1, <1>3 DEF SessionInv, ShownIsSo
<1>6. Session!CorrectionsReachAnswers'
  <2> SUFFICES ASSUME view # None, view.last # None
               PROVE  Session!CorrectionsReachAnswers'
    BY <1>1 DEF Session!CorrectionsReachAnswers
  <2>1. view.last.round \in PlayRounds
    BY DEF SessionInv, SessionTyped, View, Recorded
  <2>2. QED
    BY <1>1, <1>3, <2>1 DEF SessionInv, Session!CorrectionsReachAnswers, Session!Counted
<1>7. QED
  BY <1>4, <1>5, <1>6 DEF SessionInv

LEMMA RoundActionsKept ==
  ASSUME SessionInv, NEW r \in PlayRounds,
         \/ Session!OpenInteraction(r) \/ Session!RevealClue(r) \/ Session!RevealAnswer(r)
         \/ \E right \in BOOLEAN : Session!AcceptAnswer(r, right)
         \/ \E c \in Corrections : Session!SetCorrectionStatus(r, c)
  PROVE  SessionInv'
<1>1. state[r] \in Standing /\ state \in [PlayRounds -> Standing]
  BY DEF SessionInv, SessionTyped
<1>2. CASE Session!OpenInteraction(r)
  <2> DEFINE v == [state[r] EXCEPT !.interaction = "OPEN"]
  <2>1. state' = [state EXCEPT ![r] = v] /\ UNCHANGED <<status, elsewhere, view, clock>>
    BY <1>1, <1>2 DEF Session!OpenInteraction
  <2>2. v \in Standing /\ v.score = state[r].score /\ ~Session!Answered(r)
    BY <1>1, <1>2 DEF Session!OpenInteraction, Session!Answered, Standing
  <2> HIDE DEF v
  <2>3. QED
    BY <2>1, <2>2, OneRoundChanged
<1>3. CASE Session!RevealClue(r)
  <2> DEFINE v == [state[r] EXCEPT !.clues = state[r].clues + 1]
  <2>1. state' = [state EXCEPT ![r] = v] /\ UNCHANGED <<status, elsewhere, view, clock>>
    BY <1>1, <1>3 DEF Session!RevealClue
  <2>2. state[r].clues + 1 \in 0..MaxClues
    BY <1>1, <1>3, SessionConstants DEF Session!RevealClue, Standing
  <2>3. v \in Standing /\ v.score = state[r].score /\ v.interaction = state[r].interaction
    BY <1>1, <2>2 DEF Standing
  <2> HIDE DEF v
  <2>4. QED
    BY <2>1, <2>3, OneRoundChanged DEF Session!Answered
<1>4. CASE Session!RevealAnswer(r)
  <2> DEFINE v == [state[r] EXCEPT !.interaction = "REVEALED"]
  <2>1. state' = [state EXCEPT ![r] = v] /\ UNCHANGED <<status, elsewhere, view, clock>>
    BY <1>1, <1>4 DEF Session!RevealAnswer
  <2>2. v \in Standing /\ v.score = state[r].score /\ v.interaction = "REVEALED"
    BY <1>1 DEF Standing
  <2> HIDE DEF v
  <2>3. QED
    BY <2>1, <2>2, OneRoundChanged
<1>5. ASSUME NEW right \in BOOLEAN, Session!AcceptAnswer(r, right) PROVE SessionInv'
  <2> DEFINE points == IF right THEN Points[state[r].clues] ELSE 0
             v == [state[r] EXCEPT !.interaction = "ANSWERED", !.score = points]
  <2>1. state' = [state EXCEPT ![r] = v] /\ UNCHANGED <<status, elsewhere, view, clock>>
    BY <1>1, <1>5 DEF Session!AcceptAnswer
  <2>2. points \in Score
    <3>1. state[r].clues \in 0..MaxClues
      BY <1>1 DEF Standing
    <3>2. QED
      BY <3>1, SessionConstants DEF Score
  <2>3. state[r].score = None
    BY <1>5 DEF Session!AcceptAnswer, Session!AcceptsAnswer
  <2> HIDE DEF points
  <2>4. v \in Standing /\ v.interaction = "ANSWERED"
    BY <1>1, <2>2 DEF Standing
  <2> HIDE DEF v
  <2>5. QED
    BY <2>1, <2>3, <2>4, OneRoundChanged
<1>6. ASSUME NEW c \in Corrections, Session!SetCorrectionStatus(r, c) PROVE SessionInv'
  <2> DEFINE v == [state[r] EXCEPT !.correction = c]
  <2>1. state' = [state EXCEPT ![r] = v] /\ UNCHANGED <<status, elsewhere, view, clock>>
    BY <1>1, <1>6 DEF Session!SetCorrectionStatus
  <2>2. v \in Standing /\ v.score = state[r].score /\ v.interaction = state[r].interaction
    BY <1>1 DEF Standing, Correction
  <2> HIDE DEF v
  <2>3. QED
    BY <2>1, <2>2, OneRoundChanged DEF Session!Answered
<1>7. QED
  BY <1>2, <1>3, <1>4, <1>5, <1>6

LEMMA ResultsCreateKept ==
  ASSUME SessionInv, Session!Create PROVE SessionInv'
<1> DEFINE shown == [r \in PlayRounds |-> Session!Fact(r)]
           v == [status |-> status, started |-> TRUE, answered |-> elsewhere, rounds |-> shown,
                 last |-> None]
<1>1. /\ status \in {"IN_PROGRESS", "COMPLETED", "EXPIRED"} /\ view' = v
      /\ status' = status /\ state' = state /\ elsewhere' = elsewhere /\ clock' = clock
  BY DEF Session!Create
<1>2. ASSUME NEW r \in PlayRounds
      PROVE  /\ Session!Fact(r) \in ShownRound /\ Session!Fact(r).score = state[r].score
             /\ Session!Fact(r).answered => Session!Answered(r)
  <2> DEFINE a == Session!Answered(r)
             b == state[r].interaction = "REVEALED"
  <2>1. a \in BOOLEAN /\ b \in BOOLEAN /\ FALSE \in BOOLEAN
    <3>1. a \in BOOLEAN
      BY DEF Session!Answered
    <3>2. b \in BOOLEAN
      OBVIOUS
    <3>3. FALSE \in BOOLEAN
      BY Zenon
    <3>4. QED
      BY <3>1, <3>2, <3>3
  <2>2. state[r] \in Standing
    BY DEF SessionInv, SessionTyped
  <2>3. state[r].correction \in Correction /\ state[r].score \in Score
    BY <2>2 DEF Standing
  <2>4. Session!Fact(r) = [answered |-> a, revealed |-> b, correction |-> state[r].correction,
                           acknowledged |-> FALSE, score |-> state[r].score]
    BY Zenon DEF Session!Fact
  <2> HIDE DEF a, b
  <2>5. Session!Fact(r).answered = a
    BY <2>4
  <2>6. Session!Fact(r) \in ShownRound /\ Session!Fact(r).score = state[r].score
    BY <2>1, <2>3, <2>4 DEF ShownRound
  <2>7. Session!Fact(r).answered => Session!Answered(r)
    BY <2>5 DEF a
  <2>8. QED
    BY <2>6, <2>7
<1>3. shown \in [PlayRounds -> ShownRound]
  BY <1>2
<1>4. \A r \in PlayRounds : shown[r] = Session!Fact(r)
  OBVIOUS
<1> HIDE DEF shown
<1>5. v \in View
  BY <1>1, <1>3 DEF View, SessionInv, SessionTyped
<1>6. v.status = status /\ v.answered = elsewhere /\ v.rounds = shown /\ v.last = None
  OBVIOUS
<1> HIDE DEF v
<1>7. SessionTyped'
  BY <1>1, <1>5 DEF SessionInv, SessionTyped
<1>8. ShownIsSo'
  BY <1>1, <1>2, <1>4, <1>6 DEF ShownIsSo, Session!Answered
<1>9. Session!CorrectionsReachAnswers'
  BY <1>1, <1>6 DEF Session!CorrectionsReachAnswers
<1>10. QED
  BY <1>7, <1>8, <1>9 DEF SessionInv

LEMMA CorrectRoundKept ==
  ASSUME SessionInv, NEW r \in PlayRounds, NEW c \in Corrections, Session!CorrectRound(r, c)
  PROVE  SessionInv'
<1> DEFINE w == [view.rounds[r] EXCEPT !.correction = c, !.acknowledged = FALSE]
           shown == [view.rounds EXCEPT ![r] = w]
           branch == Session!Branch(r)
           l == [round |-> r, branch |-> branch,
                 versions |-> IF branch = "POST_ANSWER" THEN LineageVersions
                              ELSE {PlayedVersion}]
           v == [view EXCEPT !.rounds = shown, !.last = l]
<1>1. /\ view # None /\ view \in View
      /\ status' = status /\ state' = state /\ elsewhere' = elsewhere /\ clock' = clock
  BY DEF Session!CorrectRound, SessionInv, SessionTyped
<1>2. view.rounds \in [PlayRounds -> ShownRound] /\ view.rounds[r] \in ShownRound
  BY <1>1 DEF View
<1>3. view' = v
  BY <1>1, <1>2 DEF Session!CorrectRound, View, ShownRound
<1>4. /\ w \in ShownRound /\ w.correction = c
      /\ w.answered = view.rounds[r].answered /\ w.score = view.rounds[r].score
  <2>1. FALSE \in BOOLEAN
    BY Zenon
  <2>2. QED
    BY <1>2, <2>1 DEF ShownRound, Correction
<1> HIDE DEF w
<1>5. /\ shown \in [PlayRounds -> ShownRound] /\ shown[r] = w
      /\ \A q \in PlayRounds : q # r => shown[q] = view.rounds[q]
  BY <1>2, <1>4
<1> HIDE DEF shown
<1>6. branch \in {"POST_ANSWER", "ISSUED_UNANSWERED"}
  BY DEF Session!Branch
<1>7. branch = "POST_ANSWER" <=> view.rounds[r].answered \/ r \in view.answered
  BY DEF Session!Branch
<1> HIDE DEF branch
<1>8. /\ l \in Recorded /\ l.round = r /\ l.branch = branch
      /\ branch = "POST_ANSWER" => l.versions = LineageVersions
  BY <1>6 DEF Recorded
<1> HIDE DEF l
<1>9. /\ v \in View /\ v.rounds = shown /\ v.last = l
      /\ v.status = view.status /\ v.answered = view.answered
  BY <1>1, <1>5, <1>8 DEF View
<1> HIDE DEF v
<1>10. SessionTyped'
  BY <1>1, <1>3, <1>9 DEF SessionInv, SessionTyped
<1>11. \A q \in PlayRounds : /\ shown[q].score = view.rounds[q].score
                             /\ shown[q].answered = view.rounds[q].answered
  BY <1>4, <1>5
<1>12. ShownIsSo'
  BY <1>1, <1>3, <1>9, <1>11 DEF SessionInv, ShownIsSo, Session!Answered
<1>13. /\ r \notin Session!Counted'
       /\ view'.last.versions = LineageVersions
            \/ (~view'.rounds[r].answered /\ r \notin view'.answered)
       /\ view'.last.branch = "POST_ANSWER" => Session!Answered(r)' \/ r \in elsewhere'
  <2>1. r \notin Session!Counted'
    BY <1>3, <1>4, <1>5, <1>9, SessionConstants DEF Session!Counted
  <2>2. view'.last.versions = LineageVersions
          \/ (~view'.rounds[r].answered /\ r \notin view'.answered)
    BY <1>3, <1>7, <1>8, <1>9, <1>11
  <2>3. view'.last.branch = "POST_ANSWER" => Session!Answered(r)' \/ r \in elsewhere'
    BY <1>1, <1>3, <1>7, <1>8, <1>9 DEF SessionInv, ShownIsSo, Session!Answered
  <2>4. QED
    BY <2>1, <2>2, <2>3
<1>14. Session!CorrectionsReachAnswers'
  <2>1. view'.last.round = r
    BY <1>3, <1>8, <1>9
  <2>2. QED
    BY <1>13, <2>1 DEF Session!CorrectionsReachAnswers
<1>15. QED
  BY <1>10, <1>12, <1>14 DEF SessionInv

LEMMA AcknowledgeKept ==
  ASSUME SessionInv, NEW r \in PlayRounds, Session!AcknowledgeNotice(r)
  PROVE  SessionInv'
<1> DEFINE w == [view.rounds[r] EXCEPT !.acknowledged = TRUE]
           shown == [view.rounds EXCEPT ![r] = w]
           v == [view EXCEPT !.rounds = shown]
<1>1. /\ view # None /\ view \in View
      /\ status' = status /\ state' = state /\ elsewhere' = elsewhere /\ clock' = clock
  BY DEF Session!AcknowledgeNotice, SessionInv, SessionTyped
<1>2. view.rounds \in [PlayRounds -> ShownRound] /\ view.rounds[r] \in ShownRound
  BY <1>1 DEF View
<1>3. view' = v
  BY <1>1, <1>2 DEF Session!AcknowledgeNotice, View, ShownRound
<1>4. /\ w \in ShownRound /\ w.correction = view.rounds[r].correction
      /\ w.answered = view.rounds[r].answered /\ w.score = view.rounds[r].score
  <2>1. TRUE \in BOOLEAN
    BY Zenon
  <2>2. QED
    BY <1>2, <2>1 DEF ShownRound
<1> HIDE DEF w
<1>5. /\ shown \in [PlayRounds -> ShownRound]
      /\ \A q \in PlayRounds : /\ shown[q].score = view.rounds[q].score
                               /\ shown[q].answered = view.rounds[q].answered
                               /\ shown[q].correction = view.rounds[q].correction
  BY <1>2, <1>4
<1> HIDE DEF shown
<1>6. /\ v \in View /\ v.rounds = shown /\ v.last = view.last
      /\ v.status = view.status /\ v.answered = view.answered
  BY <1>1, <1>5 DEF View
<1> HIDE DEF v
<1>7. SessionTyped'
  BY <1>1, <1>3, <1>6 DEF SessionInv, SessionTyped
<1>8. ShownIsSo'
  BY <1>1, <1>3, <1>5, <1>6 DEF SessionInv, ShownIsSo, Session!Answered
<1>9. Session!CorrectionsReachAnswers'
  <2> SUFFICES ASSUME view.last # None PROVE Session!CorrectionsReachAnswers'
    BY <1>3, <1>6 DEF Session!CorrectionsReachAnswers
  <2>1. view.last.round \in PlayRounds
    BY <1>1 DEF View, Recorded
  <2>2. QED
    BY <1>1, <1>3, <1>5, <1>6, <2>1
       DEF SessionInv, Session!CorrectionsReachAnswers, Session!Counted, Session!Answered
<1>10. QED
  BY <1>7, <1>8, <1>9 DEF SessionInv

LEMMA SessionNext ==
  ASSUME SessionInv, Session!Next PROVE SessionInv'
<1>1. ASSUME NEW r \in PlayRounds,
             \/ Session!OpenInteraction(r) \/ Session!RevealClue(r) \/ Session!RevealAnswer(r)
             \/ \E right \in BOOLEAN : Session!AcceptAnswer(r, right)
      PROVE  SessionInv'
  BY <1>1, RoundActionsKept
<1>2. ASSUME NEW r \in Disputed, Session!AnsweredElsewhere(r) PROVE SessionInv'
  <2>1. /\ elsewhere' = elsewhere \cup {r} /\ r \in PlayRounds
        /\ status' = status /\ state' = state /\ view' = view /\ clock' = clock
    BY <1>2, SessionConstants DEF Session!AnsweredElsewhere
  <2>2. QED
    BY <2>1 DEF SessionInv, SessionTyped, ShownIsSo, Session!CorrectionsReachAnswers,
                Session!Counted, Session!Answered
<1>3. ASSUME NEW r \in Disputed, Session!AcknowledgeNotice(r) PROVE SessionInv'
  BY <1>3, SessionConstants, AcknowledgeKept
<1>4. ASSUME NEW r \in Disputed, NEW c \in Corrections,
             Session!SetCorrectionStatus(r, c) \/ Session!CorrectRound(r, c)
      PROVE  SessionInv'
  BY <1>4, SessionConstants, RoundActionsKept, CorrectRoundKept
<1>5. ASSUME NEW target \in {"IN_PROGRESS", "COMPLETED", "EXPIRED", "WITHDRAWN"},
             Session!SetSessionStatus(target)
      PROVE  SessionInv'
  <2>1. /\ <<status, target>> \in Session!SessionTransitions
        /\ status' = target /\ elsewhere' = elsewhere
        /\ state' = state /\ view' = view /\ clock' = clock
    BY <1>5 DEF Session!SetSessionStatus
  <2>2. status \in {"NOT_STARTED", "IN_PROGRESS"}
    BY <2>1 DEF Session!SessionTransitions
  <2>3. view # None => view.status \in {"IN_PROGRESS", "COMPLETED", "EXPIRED"}
    BY DEF SessionInv, SessionTyped, View
  <2>4. view # None => view.status = "IN_PROGRESS"
    BY <2>2, <2>3 DEF SessionInv, ShownIsSo
  <2>5. QED
    BY <2>1, <2>4 DEF SessionInv, SessionTyped, ShownIsSo, Session!CorrectionsReachAnswers,
                      Session!Counted, Session!Answered
<1>6. CASE Session!Create
  BY <1>6, ResultsCreateKept
<1>7. CASE Session!Tick
  <2>1. /\ clock' = clock + 1 /\ status' = status /\ elsewhere' = elsewhere
        /\ state' = state /\ view' = view
    BY <1>7 DEF Session!Tick
  <2>2. clock' \in Nat
    BY <2>1 DEF SessionInv, SessionTyped
  <2>3. QED
    BY <2>1, <2>2 DEF SessionInv, SessionTyped, ShownIsSo, Session!CorrectionsReachAnswers,
                      Session!Counted, Session!Answered
<1>8. QED
  BY <1>1, <1>2, <1>3, <1>4, <1>5, <1>6, <1>7 DEF Session!Next

LEMMA SessionSteps == SessionInv /\ [Next]_vars => SessionInv'
<1> SUFFICES ASSUME SessionInv, [Next]_vars PROVE SessionInv'
  OBVIOUS
<1>1. CASE SessionStep
  BY <1>1, SessionNext DEF SessionStep
<1>2. CASE UNCHANGED session
  <2>1. /\ status' = status /\ elsewhere' = elsewhere
        /\ state' = state /\ view' = view /\ clock' = clock
    BY <1>2 DEF session
  <2>2. QED
    BY <2>1 DEF SessionInv, SessionTyped, ShownIsSo, Session!CorrectionsReachAnswers,
                Session!Counted, Session!Answered
<1>3. QED
  BY <1>1, <1>2 DEF Next, vars, GateStep, BookStep, EnrollmentStep, WithdrawalStep, HoldStep,
                    LedgerStep, ComplaintStep, OutageStep, RestoreStep

(* Results show what was scored, and corrections reach those who answered  *)
(* (SessionResultsView over an authoritative state).                       *)
THEOREM ResultsAlwaysHonest == Spec => []ResultsAreHonest
<1>1. SessionInv => ResultsAreHonest
  BY ViewHonest DEF SessionInv, ResultsAreHonest
<1>2. QED
  BY <1>1, SessionStart, SessionSteps, PTL DEF Spec
-----------------------------------------------------------------------------
(* What was settled stays settled.                                         *)

SessionSettled ==
  \A r \in PlayRounds :
    IF Session!Answered(r)
    THEN Session!Answered(r)' /\ state'[r].score = state[r].score
                              /\ state'[r].clues = state[r].clues
    ELSE Session!Answered(r)' => /\ status = "IN_PROGRESS" /\ state[r].correction = "ACTIVE"
                                 /\ clock < DayEnd + Grace

\* A round of which nothing but the correction changes stays answered or not.
LEMMA SessionSettles == SessionInv /\ [Session!Next]_session => SessionSettled
<1> SUFFICES ASSUME SessionInv, [Session!Next]_session PROVE SessionSettled
  OBVIOUS
<1>1. state \in [PlayRounds -> Standing]
  BY DEF SessionInv, SessionTyped
<1>2. ASSUME NEW q \in PlayRounds, Session!OpenInteraction(q) \/ Session!RevealClue(q)
      PROVE  SessionSettled
  BY <1>1, <1>2 DEF SessionSettled, Standing, Session!OpenInteraction, Session!RevealClue,
                    Session!Answerable, Session!Answered
<1>3. ASSUME NEW q \in PlayRounds, Session!RevealAnswer(q) PROVE SessionSettled
  BY <1>1, <1>3 DEF SessionSettled, Standing, Session!RevealAnswer, Session!Answered
<1>4. ASSUME NEW q \in PlayRounds, NEW right \in BOOLEAN, Session!AcceptAnswer(q, right)
      PROVE  SessionSettled
  <2> DEFINE points == IF right THEN Points[state[q].clues] ELSE 0
             v == [state[q] EXCEPT !.interaction = "ANSWERED", !.score = points]
  <2>1. /\ Session!AcceptsAnswer(q) /\ state' = [state EXCEPT ![q] = v]
    BY <1>1, <1>4 DEF Session!AcceptAnswer
  <2> HIDE DEF v
  <2>2. ~Session!Answered(q) /\ \A r \in PlayRounds : r # q => state'[r] = state[r]
    BY <1>1, <2>1 DEF Session!AcceptsAnswer, Session!Answerable, Session!Answered
  <2>3. QED
    BY <2>1, <2>2 DEF SessionSettled, Session!AcceptsAnswer, Session!Answerable, Session!Answered
<1>5. ASSUME NEW q \in PlayRounds, NEW c \in Corrections, Session!SetCorrectionStatus(q, c)
      PROVE  SessionSettled
  BY <1>1, <1>5 DEF SessionSettled, Standing, Session!SetCorrectionStatus, Session!Answered
<1>6. CASE state' = state
  BY <1>6 DEF SessionSettled, Session!Answered
<1>7. QED
  <2>1. ASSUME NEW r \in Disputed, NEW c \in Corrections,
               Session!AnsweredElsewhere(r) \/ Session!AcknowledgeNotice(r)
                 \/ Session!CorrectRound(r, c)
        PROVE  state' = state
    BY <2>1 DEF Session!AnsweredElsewhere, Session!AcknowledgeNotice, Session!CorrectRound
  <2>2. ASSUME NEW r \in Disputed,
               Session!AnsweredElsewhere(r) \/ Session!AcknowledgeNotice(r)
        PROVE  state' = state
    BY <2>2 DEF Session!AnsweredElsewhere, Session!AcknowledgeNotice
  <2>3. ASSUME NEW target, Session!SetSessionStatus(target) PROVE state' = state
    BY <2>3 DEF Session!SetSessionStatus
  <2>4. Session!Create \/ Session!Tick \/ UNCHANGED session => state' = state
    BY DEF Session!Create, Session!Tick, session
  <2>5. Disputed \subseteq PlayRounds
    BY SessionConstants
  <2>6. QED
    BY <1>2, <1>3, <1>4, <1>5, <1>6, <2>1, <2>2, <2>3, <2>4, <2>5 DEF Session!Next

\* The registry has one policy of a version.
PoliciesApart ==
  /\ policies \subseteq Policies
  /\ \A p, q \in policies : p.version = q.version => p = q

LEMMA PoliciesStayApart ==
  ASSUME PoliciesApart, [Ledger!Next]_ledger
  PROVE  PoliciesApart' /\ policies \subseteq policies'
<1>1. ASSUME NEW p \in Policies, Ledger!Register(p)
      PROVE  PoliciesApart' /\ policies \subseteq policies'
  BY <1>1 DEF PoliciesApart, Ledger!Register
<1>2. ASSUME NEW kind \in Kinds, NEW v \in PolicyVersions, Ledger!RecordFact(kind, v)
      PROVE  PoliciesApart' /\ policies \subseteq policies'
  BY <1>2 DEF PoliciesApart, Ledger!RecordFact
<1>3. CASE UNCHANGED ledger
  BY <1>3 DEF ledger, PoliciesApart
<1>4. QED
  BY <1>1, <1>2, <1>3 DEF Ledger!Next

LedgerSettled ==
  /\ analysis.state = "EXCLUDED" => analysis' = analysis
  /\ analysis.state = "INCLUDED" => analysis'.state # "PENDING"
  /\ \A v \in PolicyVersions, person \in Persons, t, u \in Times :
       t <= u /\ Ledger!InvitationDecision(v, person, t) = "ALLOWED"
         => Ledger!InvitationDecision(v, person, u)' = "ALLOWED"

LEMMA LedgerSettles ==
  ASSUME LedgerInv, PoliciesApart, [Ledger!Next]_ledger PROVE LedgerSettled
<1>1. PoliciesApart' /\ policies \subseteq policies'
  BY PoliciesStayApart
<1>2. /\ analysis.state = "EXCLUDED" => analysis' = analysis
      /\ analysis.state = "INCLUDED" => analysis'.state # "PENDING"
  <2>1. analysis' = analysis \/ \E kind \in Kinds :
          analysis' = Ledger!AnalysisAfter(kind, facts \cup {kind})
    BY DEF Ledger!Next, Ledger!Register, Ledger!RecordFact, ledger
  <2>2. ASSUME NEW kind \in Kinds, NEW a, a = Ledger!AnalysisAfter(kind, facts \cup {kind})
        PROVE  /\ analysis.state = "EXCLUDED" => a = analysis
               /\ analysis.state = "INCLUDED" => a.state # "PENDING"
    <3>1. CASE analysis.state = "EXCLUDED"
      BY <2>2, <3>1 DEF Ledger!AnalysisAfter
    <3>2. CASE analysis.state = "INCLUDED" /\ kind \in Ledger!Exclusions
      BY <2>2, <3>2 DEF Ledger!AnalysisAfter
    <3>3. CASE analysis.state = "INCLUDED" /\ kind \notin Ledger!Exclusions
      BY <2>2, <3>3 DEF Ledger!AnalysisAfter
    <3>4. QED
      BY <3>1, <3>2, <3>3
  <2>3. QED
    BY <2>1, <2>2
<1>3. ASSUME NEW v \in PolicyVersions, NEW person \in Persons, NEW t \in Times, NEW u \in Times,
             t <= u, Ledger!InvitationDecision(v, person, t) = "ALLOWED"
      PROVE  Ledger!InvitationDecision(v, person, u)' = "ALLOWED"
  <2> DEFINE q == CHOOSE p \in policies : p.version = v
  <2>1. v # None /\ \E p \in policies : p.version = v
    BY <1>3 DEF Ledger!InvitationDecision
  <2>2. q \in policies /\ q.version = v
    BY <2>1
  <2>3. ~(t < q.from \/ t < q.signedAt) /\ Ledger!Applicable(q, person)
    BY <1>3, <2>1 DEF Ledger!InvitationDecision
  <2> HIDE DEF q
  <2>4. q \in policies' /\ \A p \in policies' : p.version = v => p = q
    BY <1>1, <2>2 DEF PoliciesApart
  <2>5. (CHOOSE p \in policies' : p.version = v) = q
    BY <2>2, <2>4
  <2>6. /\ q \in Policies /\ q.from \in Int /\ q.signedAt \in Int
        /\ t \in Int /\ u \in Int /\ u # None
    BY <2>2, OperationsAssumption DEF PoliciesApart, Ledger!PolicyAssumption
  <2>7. ~(u < q.from \/ u < q.signedAt)
    BY <1>3, <2>3, <2>6
  <2>8. QED
    BY <2>1, <2>2, <2>3, <2>4, <2>5, <2>6, <2>7
       DEF Ledger!InvitationDecision, Ledger!Applicable
<1>4. QED
  BY <1>2, <1>3 DEF LedgerSettled

RestoreSettled ==
  \A id \in RestoreIds : vault[id].exposed # None =>
    /\ vault'[id] = vault[id]
    /\ states'[id].evidence = states[id].evidence

LEMMA RestoreSettles == RestoreInv /\ [Restore!Next]_restores => RestoreSettled
<1> SUFFICES ASSUME RestoreInv, [Restore!Next]_restores,
                    NEW id \in RestoreIds, vault[id].exposed # None
             PROVE  vault'[id] = vault[id] /\ states'[id].evidence = states[id].evidence
  BY DEF RestoreSettled
<1>1. /\ states[id] # None /\ states[id] \in Restore!Restoration
      /\ states[id].reconciledAt # None /\ Restore!Complete(id)
      /\ vault[id].exposed = states[id].included
      /\ vault[id] \in [sealed : BOOLEAN, applied : Seq(Ledgers),
                        exposed : (SUBSET Copies) \cup {None}]
      /\ DOMAIN states = RestoreIds /\ DOMAIN vault = RestoreIds
  BY DEF RestoreInv, Kept, Restore!TypeOK
<1>2. CASE UNCHANGED restores
  BY <1>2 DEF restores
<1>3. ASSUME NEW k \in RestoreIds, NEW actor \in Actors, NEW at \in Times,
             NEW copies \in SUBSET Copies, NEW p \in Restore!Answers,
             Restore!Begin(k, actor, copies, at, p)
      PROVE  vault'[id] = vault[id] /\ states'[id].evidence = states[id].evidence
  BY <1>1, <1>3 DEF Restore!Begin
<1>4. ASSUME NEW k \in RestoreIds, NEW actor \in Actors, NEW at \in Times,
             NEW g \in Ledgers, NEW w \in Watermarks, NEW effects \in SUBSET Copies,
             Restore!RecordReplay(k, actor, g, w, effects, at)
      PROVE  vault'[id] = vault[id] /\ states'[id].evidence = states[id].evidence
  <2>1. k # id
    BY <1>1, <1>4 DEF Restore!RecordReplay, Restore!Complete
  <2>2. QED
    BY <1>1, <1>4, <2>1 DEF Restore!RecordReplay
<1>5. ASSUME NEW k \in RestoreIds, NEW actor \in Actors, NEW at \in Times,
             \/ Restore!Reconcile(k, actor, at)
             \/ \E n \in 0..Len(ORDER) : Restore!ReconcileThrows(k, actor, at, n)
      PROVE  vault'[id] = vault[id] /\ states'[id].evidence = states[id].evidence
  <2>1. k # id
    BY <1>1, <1>5 DEF Restore!Reconcile, Restore!ReconcileThrows, Restore!Reconcilable
  <2>2. QED
    BY <1>1, <1>5, <2>1 DEF Restore!Reconcile, Restore!ReconcileThrows, Restore!Apply
<1>6. ASSUME NEW k \in RestoreIds, NEW actor \in Actors, NEW at \in Times,
             NEW p \in Restore!Answers, Restore!Release(k, actor, at, p)
      PROVE  vault'[id] = vault[id] /\ states'[id].evidence = states[id].evidence
  <2>1. CASE k # id
    BY <1>1, <1>6, <2>1 DEF Restore!Release
  <2>2. CASE k = id
    <3>1. [vault[id] EXCEPT !.exposed = vault[id].exposed] = vault[id]
      BY <1>1
    <3>2. vault'[id] = vault[id]
      <4>1. \/ vault' = vault
            \/ vault' = [vault EXCEPT ![id].exposed = vault[id].exposed]
        BY <1>1, <1>6, <2>2 DEF Restore!Release
      <4>2. vault' = vault \/ vault'[id] = [vault[id] EXCEPT !.exposed = vault[id].exposed]
        BY <1>1, <4>1
      <4>3. QED
        BY <3>1, <4>2
    <3>3. \/ states' = states
          \/ states' = [states EXCEPT ![id].released = TRUE]
      BY <1>6, <2>2 DEF Restore!Release
    <3>4. states' = states \/ states'[id] = [states[id] EXCEPT !.released = TRUE]
      BY <1>1, <3>3
    <3>5. states'[id].evidence = states[id].evidence
      BY <1>1, <3>4 DEF Restore!Restoration
    <3>6. QED
      BY <3>2, <3>5
  <2>3. QED
    BY <2>1, <2>2
<1>7. QED
  BY <1>2, <1>3, <1>4, <1>5, <1>6 DEF Restore!Next

GateSettledStep ==
  /\ Gate!Allowed(authorization) =>
       /\ authorization'.decision = authorization.decision
       /\ Gate!AcceptedAudits(authorization') = Gate!AcceptedAudits(authorization)
  /\ Gate!History(authorization) =
       SubSeq(Gate!History(authorization'), 1, Len(Gate!History(authorization)))
  /\ \A n \in Gate!Ordinals :
       (n <= Half \/ Gate!Allowed(authorization)) /\ now >= Gate!GraceEnd(n)
       => /\ ~Gate!ReleaseAllowed(n, "WRITE_EVENT", "IN_PROGRESS", TRUE)'
          /\ (Gate!ResultingStatus(n, "READ", "IN_PROGRESS") = "EXPIRED")'

\* In every step each part goes on by a step of its own, or rests.
LEMMA PartSteps ==
  [Next]_vars => /\ [Gate!Next]_gate /\ [Book!Next]_book /\ [Session!Next]_session
                 /\ [Enrolling!Next]_enrollment /\ [Ledger!Next]_ledger /\ [Restore!Next]_restores
<1> SUFFICES ASSUME [Next]_vars
             PROVE  /\ [Gate!Next]_gate /\ [Book!Next]_book /\ [Session!Next]_session
                    /\ [Enrolling!Next]_enrollment /\ [Ledger!Next]_ledger
                    /\ [Restore!Next]_restores
  OBVIOUS
<1>1. [Gate!Next]_gate
  BY DEF Next, vars, GateStep, BookStep, SessionStep, EnrollmentStep, WithdrawalStep, HoldStep,
         LedgerStep, ComplaintStep, OutageStep, RestoreStep
<1>2. [Book!Next]_book
  BY DEF Next, vars, GateStep, BookStep, SessionStep, EnrollmentStep, WithdrawalStep, HoldStep,
         LedgerStep, ComplaintStep, OutageStep, RestoreStep
<1>3. [Session!Next]_session
  BY DEF Next, vars, GateStep, BookStep, SessionStep, EnrollmentStep, WithdrawalStep, HoldStep,
         LedgerStep, ComplaintStep, OutageStep, RestoreStep
<1>4. [Enrolling!Next]_enrollment
  BY DEF Next, vars, GateStep, BookStep, SessionStep, EnrollmentStep, WithdrawalStep, HoldStep,
         LedgerStep, ComplaintStep, OutageStep, RestoreStep
<1>5. [Ledger!Next]_ledger
  BY DEF Next, vars, GateStep, BookStep, SessionStep, EnrollmentStep, WithdrawalStep, HoldStep,
         LedgerStep, ComplaintStep, OutageStep, RestoreStep
<1>6. [Restore!Next]_restores
  BY DEF Next, vars, GateStep, BookStep, SessionStep, EnrollmentStep, WithdrawalStep, HoldStep,
         LedgerStep, ComplaintStep, OutageStep, RestoreStep
<1>7. QED
  BY <1>1, <1>2, <1>3, <1>4, <1>5, <1>6

SettledInv ==
  /\ GateInv /\ BookInv /\ SessionInv /\ EnrollmentInv
  /\ LedgerInv /\ PoliciesApart /\ RestoreInv

LEMMA AllSettle ==
  SettledInv /\ SettledInv' /\ [Next]_vars =>
    /\ [GateSettledStep]_(Gate!vars) /\ [BookSettled]_(Book!vars)
    /\ [SessionSettled]_(Session!vars) /\ [RevocationStays]_(Enrolling!enrollmentVars)
    /\ [LedgerSettled]_(Ledger!vars) /\ [RestoreSettled]_(Restore!vars)
<1> SUFFICES ASSUME SettledInv, SettledInv', [Next]_vars
             PROVE  /\ GateSettledStep /\ BookSettled /\ SessionSettled
                    /\ RevocationStays \/ UNCHANGED Enrolling!enrollmentVars
                    /\ LedgerSettled /\ RestoreSettled
  OBVIOUS
<1>1. GateSettledStep
  BY GateSteps, GateSettled DEF SettledInv, GateSettledStep
<1>2. BookSettled
  BY PartSteps, BookSettles DEF SettledInv
<1>3. SessionSettled
  BY PartSteps, SessionSettles DEF SettledInv
<1>4. RevocationStays \/ UNCHANGED Enrolling!enrollmentVars
  BY PartSteps, EnrollmentNext DEF SettledInv, enrollment, Enrolling!enrollmentVars
<1>5. LedgerSettled
  BY PartSteps, LedgerSettles DEF SettledInv
<1>6. RestoreSettled
  BY PartSteps, RestoreSettles DEF SettledInv
<1>7. QED
  BY <1>1, <1>2, <1>3, <1>4, <1>5, <1>6

LEMMA SettledInit == Init => SettledInv
<1>1. Init => LedgerInv /\ RestoreInv
  BY LedgerInit, RestoreInit DEF Init
<1>2. Init => PoliciesApart
  BY DEF Init, Ledger!Init, PoliciesApart
<1>3. QED
  BY <1>1, <1>2, GateInit, BookInit, SessionStart, EnrollmentInit DEF SettledInv

LEMMA SettledSteps == SettledInv /\ [Next]_vars => SettledInv'
<1> SUFFICES ASSUME SettledInv, [Next]_vars PROVE SettledInv'
  OBVIOUS
<1>1. GateInv' /\ BookInv' /\ SessionInv' /\ EnrollmentInv'
  BY GateSteps, BookSteps, SessionSteps, EnrollmentSteps DEF SettledInv
<1>2. LedgerInv'
  <2>1. CASE Ledger!Next
    BY <2>1, LedgerNext DEF SettledInv
  <2>2. CASE UNCHANGED ledger
    BY <2>2 DEF ledger, SettledInv, LedgerInv, Ledger!AnalysisFollowsFacts,
                Ledger!ActivationIsEarned, Ledger!AnalysisEligible
  <2>3. QED
    BY <2>1, <2>2, PartSteps
<1>3. PoliciesApart'
  BY PartSteps, PoliciesStayApart DEF SettledInv
<1>4. RestoreInv'
  <2>1. CASE Restore!Next
    BY <2>1, RestoreNext DEF SettledInv
  <2>2. CASE UNCHANGED restores
    <3>1. states' = states /\ vault' = vault
      BY <2>2 DEF restores
    <3>2. \A id \in RestoreIds : Kept(id)'
      BY <3>1, OthersKept DEF SettledInv, RestoreInv
    <3>3. QED
      BY <3>1, <3>2 DEF SettledInv, RestoreInv, Restore!TypeOK
  <2>3. QED
    BY <2>1, <2>2, PartSteps
<1>5. QED
  BY <1>1, <1>2, <1>3, <1>4 DEF SettledInv

(* What was settled stays settled, whatever is asked for afterwards: the   *)
(* accepted decision of the gate, the version a session was issued, the    *)
(* points of an answer, a revoked invitation, an exclusion, what a restore *)
(* exposed (authorizeDay8, ManifestBook, acceptAnswer,                     *)
(* ClosedBetaEnrollment, ParticipantStateLedger, RestoreCoordinator).      *)
THEOREM SettledAlwaysStays == Spec => SettledStaysSettled
<1>1. SettledInv /\ SettledInv' /\ [Next]_vars =>
        /\ [GateSettledStep]_(Gate!vars) /\ [BookSettled]_(Book!vars)
        /\ [SessionSettled]_(Session!vars) /\ [RevocationStays]_(Enrolling!enrollmentVars)
        /\ [LedgerSettled]_(Ledger!vars) /\ [RestoreSettled]_(Restore!vars)
  BY AllSettle
<1>2. Spec => /\ [][GateSettledStep]_(Gate!vars) /\ [][BookSettled]_(Book!vars)
              /\ [][SessionSettled]_(Session!vars)
              /\ [][RevocationStays]_(Enrolling!enrollmentVars)
              /\ [][LedgerSettled]_(Ledger!vars) /\ [][RestoreSettled]_(Restore!vars)
  BY <1>1, SettledInit, SettledSteps, PTL DEF Spec
<1>3. Spec => Gate!AcceptedOnce
  BY <1>2, PTL DEF Gate!AcceptedOnce, GateSettledStep
<1>4. Spec => Book!SessionsKeepTheirVersion
  BY <1>2, PTL DEF Book!SessionsKeepTheirVersion, BookSettled
<1>5. Spec => Session!AnswersAreSettled
  BY <1>2, PTL DEF Session!AnswersAreSettled, SessionSettled
<1>6. Spec => Enrolling!RevocationIsFinal
  BY <1>2, PTL DEF Enrolling!RevocationIsFinal, RevocationStays
<1>7. Spec => Ledger!DecisionsStand
  BY <1>2, PTL DEF Ledger!DecisionsStand, LedgerSettled
<1>8. Spec => Restore!ExposedOnce
  BY <1>2, PTL DEF Restore!ExposedOnce, RestoreSettled
<1>9. QED
  BY <1>3, <1>4, <1>5, <1>6, <1>7, <1>8 DEF SettledStaysSettled
=============================================================================
