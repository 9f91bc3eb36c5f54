-------------------------- MODULE RestoreCoordinator --------------------------
(***************************************************************************)
(* Restoring a backup under seal. The copies of a backup are restored into *)
(* a sealed vault; the ledgers are replayed against them, in the order     *)
(* ORDER, by a configured operator; a verifier who is none of them         *)
(* releases the copies no ledger objects to. The vault is a port: a call   *)
(* that throws may have taken effect or not. What is refused changes       *)
(* nothing but the audit entries, which are left out. Ids are without      *)
(* blanks around them: begin trims those of the copies, and the effects of *)
(* a ledger are compared as they are written.                              *)
(***************************************************************************)
EXTENDS Integers, Sequences, FiniteSets

CONSTANTS
  RestoreIds, Copies,
  Ledgers, ORDER,       \* the ledgers, and the order they are applied in
  Operators, Verifier, Actors,
  Watermarks, Current,  \* the watermark of each ledger when the coordinator was made
  Times,
  MaxApplied,           \* bound of the model: ledgers the vault is ever asked to apply
  None

\* Assumed of the constants, and evaluated where the module is composed.
ActorAssumption == Operators \subseteq Actors /\ Verifier \in Actors \ Operators
OrderAssumption == ORDER \in Seq(Ledgers) /\ Ledgers = {ORDER[n] : n \in 1..Len(ORDER)}
TimeAssumption == Times \subseteq Int

Evidence == [effects : SUBSET Copies, at : Times]
Restoration ==
  [copies : SUBSET Copies, startedAt : Times, evidence : [Ledgers -> Evidence \cup {None}],
   reconciledAt : Times \cup {None}, released : BOOLEAN, included : SUBSET Copies]
NoneAssumption == None \notin Restoration

VARIABLES
  states,   \* per restore: None or its Restoration
  vault     \* per restore, what the vault did: [sealed, applied, exposed]

vars == <<states, vault>>
-----------------------------------------------------------------------------
(* evidence[ledger] is None or [effects, at]: the copies the ledger        *)
(* excludes (withdrawn, nonconsenting, deleted or revoked) and an instant. *)

Complete(id) == \A g \in Ledgers : states[id].evidence[g] # None
Excluded(id) == UNION {states[id].evidence[g].effects : g \in Ledgers}

\* How a call of the vault ends: done, thrown without effect, thrown after it.
Answers == {"done", "refused", "lost"}

\* begin. A vault that throws after it sealed leaves no state; begin may be called again.
Begin(id, actor, copies, at, port) ==
  /\ actor \in Operators
  /\ states[id] = None
  /\ vault' = IF port = "refused" THEN vault ELSE [vault EXCEPT ![id].sealed = TRUE]
  /\ states' = IF port # "done" THEN states
               ELSE [states EXCEPT ![id] =
                 [copies |-> copies, startedAt |-> at, evidence |-> [g \in Ledgers |-> None],
                  reconciledAt |-> None, released |-> FALSE, included |-> {}]]

\* recordReplay: a replay that passed, at the watermark the coordinator knows.
RecordReplay(id, actor, ledger, watermark, effects, at) ==
  /\ actor \in Operators
  /\ states[id] # None
  /\ at >= states[id].startedAt
  /\ watermark = Current[ledger]
  /\ states[id].evidence[ledger] = None
  /\ states' = [states EXCEPT ![id].evidence[ledger] = [effects |-> effects, at |-> at]]
  /\ UNCHANGED vault

(* reconcile. The ledgers are applied one after the other. The n-th call   *)
(* may throw, with its effect or without, and the restore stays pending:   *)
(* the next attempt applies all of them again.                             *)
Reconcilable(id, actor, at) ==
  /\ actor \in Operators
  /\ states[id] # None
  /\ states[id].reconciledAt = None
  /\ Complete(id)
  /\ \A g \in Ledgers : at >= states[id].evidence[g].at

Apply(id, ledgers) ==
  /\ Len(vault[id].applied) + Len(ledgers) <= MaxApplied
  /\ vault' = [vault EXCEPT ![id].applied = @ \o ledgers]

Reconcile(id, actor, at) ==
  /\ Reconcilable(id, actor, at)
  /\ Apply(id, ORDER)
  /\ states' = [states EXCEPT ![id].reconciledAt = at,
                              ![id].included = states[id].copies \ Excluded(id)]

\* Fault: the restore is marked reconciled before the ledgers are applied.
ReconcileThrowsMarked(id, actor, at, n) ==
  /\ Reconcilable(id, actor, at)
  /\ Apply(id, SubSeq(ORDER, 1, n))
  /\ states' = [states EXCEPT ![id].reconciledAt = at,
                              ![id].included = states[id].copies \ Excluded(id)]

ReconcileThrows(id, actor, at, n) ==
  /\ Reconcilable(id, actor, at)
  /\ Apply(id, SubSeq(ORDER, 1, n))
  /\ UNCHANGED states

Release(id, actor, at, port) ==
  /\ actor = Verifier
  /\ states[id] # None
  /\ ~states[id].released
  /\ states[id].reconciledAt # None
  /\ at >= states[id].reconciledAt
  /\ vault' = IF port = "refused" THEN vault
              ELSE [vault EXCEPT ![id].exposed = states[id].included]
  /\ states' = IF port = "done" THEN [states EXCEPT ![id].released = TRUE] ELSE states
-----------------------------------------------------------------------------
Init ==
  /\ states = [id \in RestoreIds |-> None]
  /\ vault = [id \in RestoreIds |-> [sealed |-> FALSE, applied |-> <<>>, exposed |-> None]]

Next ==
  \E id \in RestoreIds, actor \in Actors, at \in Times :
    \/ \E copies \in SUBSET Copies, p \in Answers : Begin(id, actor, copies, at, p)
    \/ \E g \in Ledgers, w \in Watermarks, effects \in SUBSET Copies :
         RecordReplay(id, actor, g, w, effects, at)
    \/ Reconcile(id, actor, at)
    \/ \E n \in 0..Len(ORDER) : ReconcileThrows(id, actor, at, n)
    \/ \E p \in Answers : Release(id, actor, at, p)

Spec == Init /\ [][Next]_vars
-----------------------------------------------------------------------------
(* Properties.                                                             *)

TypeOK ==
  /\ states \in [RestoreIds -> {None} \cup Restoration]
  /\ vault \in [RestoreIds ->
       [sealed : BOOLEAN, applied : Seq(Ledgers), exposed : (SUBSET Copies) \cup {None}]]

\* ORDER is applied as a whole, after anything that failed attempts left.
EndsWithOrder(s) ==
  /\ Len(s) >= Len(ORDER)
  /\ SubSeq(s, Len(s) - Len(ORDER) + 1, Len(s)) = ORDER

(* The vault exposes nothing before an attempt applied every ledger, in    *)
(* their order, and then no copy a ledger excludes: also when a call of    *)
(* the vault throws in between, or its answer is lost and the call is made *)
(* again (reconcile, release).                                             *)
ExposedIsReconciled ==
  \A id \in RestoreIds : vault[id].exposed # None =>
    /\ states[id] # None /\ vault[id].sealed
    /\ EndsWithOrder(vault[id].applied)
    /\ Complete(id) /\ vault[id].exposed \cap Excluded(id) = {}
    /\ vault[id].exposed \subseteq states[id].copies

(* Releasing again after an answer was lost exposes what was exposed, and  *)
(* nothing is replayed or applied behind an exposed restore (release).     *)
ExposedOnce ==
  [][\A id \in RestoreIds : vault[id].exposed # None =>
       /\ vault'[id] = vault[id]
       /\ states'[id].evidence = states[id].evidence]_vars
=============================================================================
