-------------------------- MODULE DailyCredentials --------------------------
(***************************************************************************)
(* The registry of daily-session credentials: who may issue them, when     *)
(* they stop working, and the one place where an authoritative mutation is *)
(* allowed and applied.                                                    *)
(*                                                                         *)
(* The mutation is a callback that runs inside authorizeAndApply. It may   *)
(* call the registry again (another authorization, a revocation) before it *)
(* returns, so the applications in progress form a stack; and it may       *)
(* throw. Every instant is what the caller says it is: the registry has no *)
(* clock, and nothing makes the instants of successive calls increase.     *)
(*                                                                         *)
(* What is kept of an issue or of a correction has its ids trimmed; what a *)
(* later call names is looked up as it is written (text, Trim). An id with *)
(* blanks around it is an id of its own wherever nothing trims it, and the *)
(* books of rounds and of invitations do not.                              *)
(*                                                                         *)
(* Instants are hours, day d begins at 24 * d. The audit trail is left     *)
(* out: no decision reads it. A call the registry refuses changes nothing  *)
(* else and is no step.                                                    *)
(***************************************************************************)
EXTENDS Integers, Sequences

CONSTANTS
  Ids,             \* credential ids
  Invitations,
  Lineages,        \* participant lineages
  Approved,        \* the lineages the registry was constructed with
  Days,            \* beta days
  Manifests,       \* manifest versions
  Transitions,     \* what a credential can permit
  Notice,          \* the transition CORRECTION_NOTICE
  Rounds,
  Keys,            \* mutation keys
  Trim,            \* the id that is left of an id without the blanks around it
  Joined,          \* what "credential:key" and "credential:round" can read
  KeyOf, RoundOf,  \* how they are joined; different pairs may read the same
  IssueRequests,   \* the issue calls operators make
  UseRequests,     \* the authorization calls participants make
  MaxNesting,      \* bound on applications that nest in one another
  None

IssueRequest ==
  [id : Ids, invitation : Invitations, lineage : Lineages, day : Days,
   manifest : Manifests, permitted : SUBSET Transitions, at : Int]
UseRequest ==
  [id : Ids, lineage : Lineages, day : Days, manifest : Manifests,
   transition : Transitions, round : Rounds, key : Keys, at : Int,
   secretsMatch : BOOLEAN]

(* The fields of a credential record. Which token it has is abstracted to  *)
(* whether the digests of a request match (secretsMatch).                  *)
Record ==
  [invitation : Invitations, lineage : Lineages, day : Days, manifest : Manifests,
   permitted : SUBSET Transitions, issuedAt : Int, expiresAt : Int,
   status : {"ACTIVE", "REVOKED"}]

TrimsWithin(S) == \A x \in S : Trim[x] \in S /\ Trim[Trim[x]] = Trim[x]

ASSUME CredentialAssumption ==
  /\ TrimsWithin(Ids) /\ TrimsWithin(Invitations)
  /\ TrimsWithin(Manifests) /\ TrimsWithin(Rounds)
  /\ Approved \subseteq Lineages
  /\ Days \subseteq Nat
  /\ KeyOf \in [Ids \X Keys -> Joined] /\ RoundOf \in [Ids \X Rounds -> Joined]
  /\ IssueRequests \subseteq IssueRequest
  /\ UseRequests \subseteq UseRequest
  /\ MaxNesting \in Nat
  /\ None \notin Record

VARIABLES
  records,     \* #records
  issuedDays,  \* #issuedDays
  withdrawn,   \* #withdrawnLineages
  spentKeys,   \* #mutationKeys
  corrected,   \* the keys of #roundCorrections
  applying,    \* the requests whose mutation is running, innermost last
  starts,      \* history: how often a mutation ran for each credential and key
  plays,       \* history: how often one other than a notice ran for each round
  asked        \* history: the credentials and rounds a correction was recorded for

registry == <<records, issuedDays, withdrawn, spentKeys, corrected>>
histories == <<starts, plays, asked>>
vars == <<registry, applying, histories>>

-----------------------------------------------------------------------------
(* Issue.                                                                  *)

DayStart(d) == 24 * d
Earlier(s, t) == IF s < t THEN s ELSE t
\* Fault: the lifetime of 26 hours is not cut at the end of the grace hour.
ExpiryWithoutGraceEnd(at, d) == at + 26
Expiry(at, d) == Earlier(at + 26, DayStart(d) + 25)

NewRecord(q) ==
  [invitation |-> Trim[q.invitation], lineage |-> q.lineage, day |-> q.day,
   manifest |-> Trim[q.manifest], permitted |-> q.permitted, issuedAt |-> q.at,
   expiresAt |-> Expiry(q.at, q.day), status |-> "ACTIVE"]

IssueWithoutDayMark(q) == \* Fault: the lineage's day is not marked as issued.
  /\ q.lineage \in Approved
  /\ <<q.lineage, q.day>> \notin issuedDays
  /\ q.permitted # {}
  /\ records[Trim[q.id]] = None
  /\ records' = [records EXCEPT ![Trim[q.id]] = NewRecord(q)]
  /\ UNCHANGED <<issuedDays, withdrawn, spentKeys, corrected, applying, histories>>

Issue(q) ==
  /\ q.lineage \in Approved
  /\ <<q.lineage, q.day>> \notin issuedDays
  /\ q.permitted # {}
  /\ records[Trim[q.id]] = None
  /\ records' = [records EXCEPT ![Trim[q.id]] = NewRecord(q)]
  /\ issuedDays' = issuedDays \cup {<<q.lineage, q.day>>}
  /\ UNCHANGED <<withdrawn, spentKeys, corrected, applying, histories>>
-----------------------------------------------------------------------------
(* Use.                                                                    *)

Issued(id) == records[id] # None
Dead(id) ==
  Issued(id) /\ (records[id].status = "REVOKED" \/ records[id].lineage \in withdrawn)
\* A round is looked up under the name it is played by.
ClosedRound(id, r) == RoundOf[<<id, r>>] \in corrected

PermitsAfterWithdrawal(q) == \* Fault: the withdrawal of the participant is not looked up.
  /\ Issued(q.id)
  /\ q.secretsMatch
  /\ LET c == records[q.id]
     IN /\ q.lineage = c.lineage /\ q.day = c.day /\ q.manifest = c.manifest
        /\ c.status # "REVOKED"
        /\ q.at < c.expiresAt
        /\ q.transition \in c.permitted
  /\ ClosedRound(q.id, q.round) => q.transition = Notice

\* The checks of authorizeAndApply before the rate limiter is asked.
Permits(q) ==
  /\ Issued(q.id)
  /\ q.secretsMatch
  /\ LET c == records[q.id]
     IN /\ q.lineage = c.lineage /\ q.day = c.day /\ q.manifest = c.manifest
        /\ c.status # "REVOKED"
        /\ c.lineage \notin withdrawn
        /\ q.at < c.expiresAt
        /\ q.transition \in c.permitted
  /\ ClosedRound(q.id, q.round) => q.transition = Notice

\* Fault: the key is not spent before the mutation runs.
SpendNothing(q) == UNCHANGED spentKeys
Spend(q) == spentKeys' = spentKeys \cup {KeyOf[<<q.id, q.key>>]}

(* The rate limiter lets the request through, its key is new and is spent, *)
(* and the mutation starts.                                                *)
Authorize(q) ==
  /\ Len(applying) < MaxNesting
  /\ Permits(q)
  /\ KeyOf[<<q.id, q.key>>] \notin spentKeys
  /\ Spend(q)
  /\ applying' = Append(applying, q)
  /\ starts' = [starts EXCEPT ![<<q.id, q.key>>] = @ + 1]
  /\ plays' = IF q.transition = Notice THEN plays ELSE [plays EXCEPT ![<<q.id, q.round>>] = @ + 1]
  /\ UNCHANGED <<records, issuedDays, withdrawn, corrected, asked>>

\* The innermost mutation returns (ALLOWED) or throws (MUTATION_FAILED).
Finish ==
  /\ applying # << >>
  /\ applying' = SubSeq(applying, 1, Len(applying) - 1)
  /\ UNCHANGED <<registry, histories>>
-----------------------------------------------------------------------------
(* The ends of a credential, by a credential operator.                     *)

Revoke(id) ==
  /\ Issued(id)
  /\ records' = [records EXCEPT ![id].status = "REVOKED"]
  /\ UNCHANGED <<issuedDays, withdrawn, spentKeys, corrected, applying, histories>>

Descends(id, i, l) == Issued(id) /\ records[id].invitation = i /\ records[id].lineage = l

CascadeRevokeNamed(i, l, named) == \* Fault: only the named descendants are revoked.
  /\ \A id \in named : Descends(id, i, l)
  /\ records' = [id \in Ids |-> IF id \in named
                                THEN [records[id] EXCEPT !.status = "REVOKED"]
                                ELSE records[id]]
  /\ UNCHANGED <<issuedDays, withdrawn, spentKeys, corrected, applying, histories>>

(* The caller names descendants, and every one it names must be one. What  *)
(* is revoked is all of them, named or not.                                *)
CascadeRevoke(i, l, named) ==
  /\ \A id \in named : Descends(id, i, l)
  /\ records' = [id \in Ids |-> IF Descends(id, i, l)
                                THEN [records[id] EXCEPT !.status = "REVOKED"]
                                ELSE records[id]]
  /\ UNCHANGED <<issuedDays, withdrawn, spentKeys, corrected, applying, histories>>

Withdraw(l) ==
  /\ withdrawn' = withdrawn \cup {l}
  /\ UNCHANGED <<records, issuedDays, spentKeys, corrected, applying, histories>>

CorrectForgettingOthers(id, r) == \* Fault: a correction replaces earlier ones.
  /\ Issued(id)
  /\ corrected' = {RoundOf[<<id, Trim[r]>>]}
  /\ asked' = asked \cup {<<id, r>>}
  /\ UNCHANGED <<records, issuedDays, withdrawn, spentKeys, applying, starts, plays>>

\* A correction is recorded for the round under its trimmed name.
Correct(id, r) ==
  /\ Issued(id)
  /\ corrected' = corrected \cup {RoundOf[<<id, Trim[r]>>]}
  /\ asked' = asked \cup {<<id, r>>}
  /\ UNCHANGED <<records, issuedDays, withdrawn, spentKeys, applying, starts, plays>>
-----------------------------------------------------------------------------
Init ==
  /\ records = [id \in Ids |-> None]
  /\ issuedDays = {}
  /\ withdrawn = {}
  /\ spentKeys = {}
  /\ corrected = {}
  /\ applying = << >>
  /\ starts = [ik \in Ids \X Keys |-> 0]
  /\ plays = [ir \in Ids \X Rounds |-> 0]
  /\ asked = {}

Next ==
  \/ \E q \in IssueRequests : Issue(q)
  \/ \E q \in UseRequests : Authorize(q)
  \/ Finish
  \/ \E id \in Ids : Revoke(id)
  \/ \E i \in Invitations, l \in Lineages, named \in SUBSET Ids : CascadeRevoke(i, l, named)
  \/ \E l \in Lineages : Withdraw(l)
  \/ \E id \in Ids, r \in Rounds : Correct(id, r)

Spec == Init /\ [][Next]_vars
-----------------------------------------------------------------------------
(* Properties.                                                             *)

\* Every variable keeps its type.
TypeOK ==
  /\ records \in [Ids -> Record \cup {None}]
  /\ issuedDays \subseteq Approved \X Days
  /\ withdrawn \subseteq Lineages
  /\ spentKeys \subseteq Joined
  /\ corrected \subseteq Joined
  /\ applying \in Seq(UseRequest)
  /\ starts \in [Ids \X Keys -> Nat]
  /\ plays \in [Ids \X Rounds -> Nat]
  /\ asked \subseteq Ids \X Rounds

(* A mutation key runs its mutation once, even when the first application  *)
(* throws halfway or calls authorizeAndApply with the same key again       *)
(* before it has returned (mutationKeys).                                  *)
OneApplicationPerKey == \A ik \in Ids \X Keys : starts[ik] <= 1

(* A lineage has one credential for a day, whatever became of the first    *)
(* one (issuedDays, and what it remembers of revoked credentials).         *)
OneCredentialPerDay ==
  \A c, d \in Ids :
    /\ Issued(c) /\ Issued(d)
    /\ records[c].lineage = records[d].lineage /\ records[c].day = records[d].day
    => c = d

(* Whatever runs, runs for an instant within the day and its grace hour    *)
(* and within 26 hours of the issue, in the scope of its credential.       *)
UsesStayInScope ==
  \A n \in DOMAIN applying :
    LET q == applying[n]  c == records[q.id]
    IN /\ Issued(q.id)
       /\ q.at < 24 * c.day + 25 /\ q.at < c.issuedAt + 26
       /\ q.lineage = c.lineage /\ q.day = c.day /\ q.manifest = c.manifest
       /\ q.transition \in c.permitted /\ c.lineage \in Approved

(* A credential that was revoked, alone or with its invitation, or whose   *)
(* participant withdrew, is dead for good, and no mutation starts with it. *)
DeadCredentialsStayDead ==
  [][\A id \in Ids : Dead(id) =>
       /\ Dead(id)'
       /\ \A k \in Keys : starts'[<<id, k>>] = starts[<<id, k>>]]_vars

(* Once a correction was recorded, the round under its trimmed name takes  *)
(* no further play, whatever is corrected after it (recordRoundCorrection, *)
(* authorizeAndApply). Where an id has no blanks around it that is the     *)
(* round the operator named.                                               *)
CorrectedRoundsTakeNoPlay ==
  [][\A id \in Ids, r \in Rounds : <<id, r>> \in asked =>
       plays'[<<id, Trim[r]>>] = plays[<<id, Trim[r]>>]]_vars
=============================================================================
