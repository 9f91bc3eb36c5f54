---------------------------- MODULE ComplaintCases ----------------------------
(***************************************************************************)
(* One complaint about published content. A case is an immutable value of  *)
(* which the caller keeps the latest: a snapshot that holds the latest     *)
(* acknowledgement, quarantine and decision, and a history of all events.  *)
(* The instants are given by the caller and need not increase; an event of *)
(* the same kind may be entered again. Instants are hours.                 *)
(***************************************************************************)
EXTENDS Integers, Sequences

CONSTANTS
  Severities,
  AcknowledgementDue, QuarantineDue, DecisionDue,  \* of each severity; None: no quarantine
  Editor, SafetyReviewer, Reviewers,               \* who decided first, who may decide now
  Credentials,
  Times,
  MaxEvents,      \* bound of the model: events in the history
  None

\* Assumed of the constants, and evaluated where the module is composed.
DueAssumption ==
  /\ AcknowledgementDue \in [Severities -> Nat] /\ DecisionDue \in [Severities -> Nat]
  /\ \A s \in Severities : QuarantineDue[s] = None \/ QuarantineDue[s] \in Nat

Received == [severity : Severities, credible : BOOLEAN, receivedAt : Times]
Event ==
  [event : {"RECEIVED", "ACKNOWLEDGED", "QUARANTINED", "CREDENTIAL_REVOKED", "DECIDED", "COMPLETED"},
   at : Times, rationale : BOOLEAN]
Decision == [at : Times, reviewer : Reviewers]
NoneAssumption == None \notin Received /\ None \notin Decision

VARIABLES
  complaint,    \* None or what was received
  snapshot,     \* [acknowledgement, quarantine, decision, revoked]
  history       \* a sequence of events

vars == <<complaint, snapshot, history>>
-----------------------------------------------------------------------------
Urgent == complaint.credible /\ QuarantineDue[complaint.severity] # None

\* A late step needs a rationale.
Explained(at, due, rationale) == at > complaint.receivedAt + due => rationale

Enter(events) ==
  /\ complaint # None
  /\ Len(history) + Len(events) <= MaxEvents
  /\ history' = history \o events
  /\ UNCHANGED complaint

Step(kind, at, rationale) == [event |-> kind, at |-> at, rationale |-> rationale]

Open(severity, credible, at) ==
  /\ complaint = None
  /\ complaint' = [severity |-> severity, credible |-> credible, receivedAt |-> at]
  /\ history' = <<Step("RECEIVED", at, FALSE)>>
  /\ UNCHANGED snapshot

Acknowledge(at, rationale) ==
  /\ Enter(<<Step("ACKNOWLEDGED", at, rationale)>>)
  /\ Explained(at, AcknowledgementDue[complaint.severity], rationale)
  /\ snapshot' = [snapshot EXCEPT !.acknowledgement = at]

Quarantine(at, rationale) ==
  /\ Enter(<<Step("QUARANTINED", at, rationale)>>)
  /\ Urgent
  /\ Explained(at, QuarantineDue[complaint.severity], rationale)
  /\ snapshot' = [snapshot EXCEPT !.quarantine = at]

ExplicitlyRevokeCredential(credential, at) ==
  /\ Enter(<<Step("CREDENTIAL_REVOKED", at, FALSE)>>)
  /\ snapshot' = [snapshot EXCEPT !.revoked = Append(@, credential)]

\* Fault: a decision waits for the acknowledgement alone.
MayDecideAtOnce(reviewer) ==
  reviewer \notin {Editor, SafetyReviewer} /\ snapshot.acknowledgement # None

MayDecide(reviewer) ==
  /\ reviewer \notin {Editor, SafetyReviewer}
  /\ snapshot.acknowledgement # None
  /\ Urgent => snapshot.quarantine # None

Decide(reviewer, at, completedAt, rationale) ==
  /\ Enter(<<Step("DECIDED", at, rationale), Step("COMPLETED", completedAt, FALSE)>>)
  /\ MayDecide(reviewer)
  /\ Explained(at, DecisionDue[complaint.severity], rationale)
  /\ snapshot' = [snapshot EXCEPT !.decision = [at |-> at, reviewer |-> reviewer]]

Init ==
  /\ complaint = None
  /\ snapshot = [acknowledgement |-> None, quarantine |-> None, decision |-> None, revoked |-> <<>>]
  /\ history = <<>>

Next ==
  \E t \in Times :
    \/ \E s \in Severities, c \in BOOLEAN : Open(s, c, t)
    \/ \E r \in BOOLEAN : Acknowledge(t, r) \/ Quarantine(t, r)
    \/ \E c \in Credentials : ExplicitlyRevokeCredential(c, t)
    \/ \E who \in Reviewers, u \in Times, r \in BOOLEAN : Decide(who, t, u, r)

Spec == Init /\ [][Next]_vars
-----------------------------------------------------------------------------
(* Properties.                                                             *)

Of(kind) == {n \in DOMAIN history : history[n].event = kind}

TypeOK ==
  /\ complaint \in Received \cup {None}
  /\ snapshot \in [acknowledgement : Times \cup {None}, quarantine : Times \cup {None},
                   decision : Decision \cup {None}, revoked : Seq(Credentials)]
  /\ history \in Seq(Event)

(* Nothing is decided out of order or in the wrong hands: before the first *)
(* decision in the history the complaint was acknowledged and, when it is  *)
(* credible and critical or high, quarantined; nothing else is ever        *)
(* quarantined; a decision is not by those who made the first one; every   *)
(* step past its deadline carries its rationale (ComplaintCase).           *)
DecidedInOrder ==
  complaint # None =>
    /\ \A n \in Of("DECIDED") :
         /\ \E m \in Of("ACKNOWLEDGED") : m < n
         /\ Urgent => \E m \in Of("QUARANTINED") : m < n
         /\ n + 1 \in Of("COMPLETED")
    /\ Of("QUARANTINED") # {} => Urgent
    /\ snapshot.decision # None => snapshot.decision.reviewer \notin {Editor, SafetyReviewer}
    /\ \A n \in DOMAIN history :
         LET late(kind, due) == history[n].event = kind /\ history[n].at > complaint.receivedAt + due
         IN \/ late("ACKNOWLEDGED", AcknowledgementDue[complaint.severity])
            \/ Urgent /\ late("QUARANTINED", QuarantineDue[complaint.severity])
            \/ late("DECIDED", DecisionDue[complaint.severity])
            => history[n].rationale

(* The snapshot is what the history says: the last event of its kind, and  *)
(* as many revoked credentials as there were explicit revocations, for a   *)
(* quarantine revokes none (ComplaintCase.quarantine).                     *)
SnapshotIsHistory ==
  LET latest(kind) == CHOOSE n \in Of(kind) : \A m \in Of(kind) : m <= n
      shows(value, kind) == value = IF Of(kind) = {} THEN None ELSE history[latest(kind)].at
  IN /\ shows(snapshot.acknowledgement, "ACKNOWLEDGED")
     /\ shows(snapshot.quarantine, "QUARANTINED")
     /\ (snapshot.decision = None) = (Of("DECIDED") = {})
     /\ \E f \in [DOMAIN snapshot.revoked -> Of("CREDENTIAL_REVOKED")] :
          {f[n] : n \in DOMAIN f} = Of("CREDENTIAL_REVOKED")
=============================================================================
