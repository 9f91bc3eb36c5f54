----------------------------- MODULE Withdrawals -----------------------------
(***************************************************************************)
(* Withdrawal from the beta: the coordinator that commits a withdrawal     *)
(* with its cascade of revoked credentials, and the case that keeps track  *)
(* of the deletion. Instants are integers; the store's transaction and the *)
(* cascade are ports, of which the coordinator assumes that a commit       *)
(* applies the whole bundle or throws, and that a rollback gives back what *)
(* the same plan took. Lineages are without blanks around them: withdraw   *)
(* trims what it is given and the readers do not.                          *)
(***************************************************************************)
EXTENDS Integers, FiniteSets

CONSTANTS
  Lineages, CaseIds,
  Deadline,      \* days until each dated step is due: 7, 30 and 35 in the code
  Times,
  MaxEntries,    \* bound of the model: entries in the histories of all cases
  None

DatedSteps == {"ACKNOWLEDGED", "ACTIVE_STORES_COMPLETED", "BACKUPS_AGED_OUT"}
FinalSteps == DatedSteps \cup {"DERIVED_RECORDS_COMPLETED"}
Steps == FinalSteps \cup {"PROVIDER_PROPAGATED"}

\* Assumed of the constants, and evaluated where the module is composed.
DeadlineAssumption == Deadline \in [DatedSteps -> Nat]
TimeAssumption == Times \subseteq Int

Entry == [step : Steps \cup {"CASE_OPENED"}, at : Times, missed : BOOLEAN]
Case == [openedAt : Times, history : SUBSET Entry]
NoneAssumption == None \notin CaseIds \cup Case

VARIABLES
  withdrawn,   \* per lineage: None or the deletion case of its withdrawal
  committed,   \* the bundles the store has: <<lineage, case>>
  revoked,     \* the lineages whose credentials are revoked
  cases        \* per case: None or a Case

vars == <<withdrawn, committed, revoked, cases>>
-----------------------------------------------------------------------------
(* The deletion case. An entry of its history is [step, at, missed], where *)
(* missed stands for the DEADLINE_MISSED entry put in with a late step.    *)
(* What the case answers does not depend on the order of the entries.      *)

Due(c, step) == cases[c].openedAt + Deadline[step]
Entered(c, step) == \E entry \in cases[c].history : entry.step = step
Entries == UNION {{c} \X cases[c].history : c \in {d \in CaseIds : cases[d] # None}}

Record(c, step, at) ==
  /\ cases[c] # None /\ Cardinality(Entries) < MaxEntries
  /\ at >= cases[c].openedAt
  /\ step \in FinalSteps => ~Entered(c, step)
  /\ cases' = [cases EXCEPT ![c].history = @ \cup
       {[step |-> step, at |-> at, missed |-> step \in DatedSteps /\ at > Due(c, step)]}]
  /\ UNCHANGED <<withdrawn, committed, revoked>>

DeadlineMisses(c) == {entry.step : entry \in {e \in cases[c].history : e.missed}}

\* Fault: late on the day itself.
OverdueOnTheDay(c, step, at) ==
  /\ at >= Due(c, step)
  /\ ~\E entry \in cases[c].history : entry.step = step /\ entry.at <= at

\* statusAt: what was overdue at an instant, by what had happened until then.
Overdue(c, step, at) ==
  /\ at > Due(c, step)
  /\ ~\E entry \in cases[c].history : entry.step = step /\ entry.at <= at
-----------------------------------------------------------------------------
(* The coordinator: authenticates, opens a case under a fresh id, prepares *)
(* the cascade and commits. A commit that throws, before or after it       *)
(* applied the cascade, is rolled back; the rollback may throw as well.    *)
Withdraw(l, c, at) ==
  /\ cases[c] = None
  /\ committed' = committed \cup {<<l, c>>}
  /\ revoked' = revoked \cup {l}
  /\ withdrawn' = [withdrawn EXCEPT ![l] = c]
  /\ cases' = [cases EXCEPT ![c] =
       [openedAt |-> at, history |-> {[step |-> "CASE_OPENED", at |-> at, missed |-> FALSE]}]]

WithdrawThrows(l, afterCascade, rolledBack) ==
  /\ revoked' = IF afterCascade /\ ~rolledBack THEN revoked \cup {l} ELSE revoked
  /\ UNCHANGED <<withdrawn, committed, cases>>

OptionalTelemetryAllowed(l) == withdrawn[l] = None
-----------------------------------------------------------------------------
Init ==
  /\ withdrawn = [l \in Lineages |-> None]
  /\ committed = {}
  /\ revoked = {}
  /\ cases = [c \in CaseIds |-> None]

Next ==
  \/ \E l \in Lineages, c \in CaseIds, t \in Times : Withdraw(l, c, t)
  \/ \E l \in Lineages, after, ok \in BOOLEAN : WithdrawThrows(l, after, ok)
  \/ \E c \in CaseIds, s \in Steps, t \in Times : Record(c, s, t)

Spec == Init /\ [][Next]_vars
-----------------------------------------------------------------------------
(* Properties.                                                             *)

TypeOK ==
  /\ withdrawn \in [Lineages -> CaseIds \cup {None}]
  /\ revoked \subseteq Lineages /\ committed \subseteq Lineages \X CaseIds
  /\ cases \in [CaseIds -> {None} \cup Case]

(* The coordinator calls a participant withdrawn, and processes nothing    *)
(* optional for them, only when the store has the bundle, the credentials  *)
(* are revoked and the case is open; a withdrawal that is asked for again  *)
(* and fails takes none of that back (WithdrawalCoordinator.withdraw).     *)
WithdrawnIsWhole ==
  \A l \in Lineages :
    /\ ~OptionalTelemetryAllowed(l) =>
         <<l, withdrawn[l]>> \in committed /\ l \in revoked /\ cases[withdrawn[l]] # None
    /\ (\E c \in CaseIds : <<l, c>> \in committed) => ~OptionalTelemetryAllowed(l)

(* The history of a case and its status agree: a deadline is on record as  *)
(* missed exactly when the step came late, and until it came the status    *)
(* called it overdue at every instant after the deadline, although steps   *)
(* may be entered in another order than they happened                      *)
(* (DeletionCase.record, deadlines, statusAt).                             *)
MissesMatchStatus ==
  \A c \in CaseIds : cases[c] # None =>
    \A entry \in {e \in cases[c].history : e.step \in DatedSteps} :
      /\ entry.step \in DeadlineMisses(c) <=> entry.at > Due(c, entry.step)
      /\ \A t \in Times : Overdue(c, entry.step, t) <=> Due(c, entry.step) < t /\ t < entry.at
=============================================================================
