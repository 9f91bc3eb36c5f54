---------------------------- MODULE ManifestBook ----------------------------
(***************************************************************************)
(* Which rounds a session plays. Each day has one lineage of manifest      *)
(* versions; the last version is the one new sessions are issued. A        *)
(* session is bound for good to the version it was issued. A version is    *)
(* replaced, one round at a time, by a reserve or by a correction, before  *)
(* or after a session was issued it: the book does not ask why.            *)
(*                                                                         *)
(* The book is an immutable value: an operation returns the next book. The *)
(* module follows the book of a caller who always goes on with the latest. *)
(***************************************************************************)
EXTENDS Integers, Sequences, FiniteSets

CONSTANTS
  Days,          \* active days
  LineageIds, VersionIds,
  Rounds,        \* round ids
  Positions,     \* 1..5 in the code
  Mode,          \* the mode of each round
  ModeCount,     \* how many rounds of each mode a version has: 3 and 2 in the code
  Participants, SessionIds,
  None

\* Assumed of the constants, and evaluated where the module is composed.
ModeAssumption == Mode \in [Rounds -> DOMAIN ModeCount]

ManifestVersion ==
  [id : VersionIds, kind : {"INITIAL_RELEASE", "RESERVE_PROMOTION", "CORRECTION"},
   rounds : [Positions -> Rounds]]
Lineage == [id : LineageIds, versions : Seq(ManifestVersion)]
Binding == [participant : Participants, day : Days, version : VersionIds]

NoneAssumption == None \notin Lineage /\ None \notin Binding

VARIABLES
  lineages,     \* per day: None or a lineage, with at least one version
  bindings      \* per session: None or a binding

vars == <<lineages, bindings>>
-----------------------------------------------------------------------------
Versions(d) == {lineages[d].versions[n] : n \in DOMAIN lineages[d].versions}
Current(d) == lineages[d].versions[Len(lineages[d].versions)]
RoundsOf(version) == {version.rounds[p] : p \in Positions}
Scheduled(d) == UNION {RoundsOf(v) : v \in Versions(d)}
HasLineage(d) == lineages[d] # None

VersionIdAvailable(id) ==
  \A d \in Days : HasLineage(d) => \A v \in Versions(d) : v.id # id

\* Fault: versions that are no longer issued are forgotten.
RoundsAvailableNow(rs, day) ==
  \A d \in Days \ {day} : HasLineage(d) => rs \cap RoundsOf(Current(d)) = {}

RoundsAvailable(rs, day) ==
  \A d \in Days \ {day} : HasLineage(d) => rs \cap Scheduled(d) = {}

\* validateRounds: every position once, distinct rounds, the modes in their numbers.
ValidRounds(rounds) ==
  /\ \A p, q \in Positions : rounds[p] = rounds[q] => p = q
  /\ \A m \in DOMAIN ModeCount :
       Cardinality({p \in Positions : Mode[rounds[p]] = m}) = ModeCount[m]

Version(id, kind, rounds) == [id |-> id, kind |-> kind, rounds |-> rounds]
-----------------------------------------------------------------------------
Init ==
  /\ lineages = [d \in Days |-> None]
  /\ bindings = [s \in SessionIds |-> None]

CreateLineage(day, id, version, rounds) ==
  /\ ~HasLineage(day)
  /\ \A d \in Days : HasLineage(d) => lineages[d].id # id
  /\ VersionIdAvailable(version)
  /\ RoundsAvailable({rounds[p] : p \in Positions}, day)
  /\ ValidRounds(rounds)
  /\ lineages' = [lineages EXCEPT
       ![day] = [id |-> id, versions |-> <<Version(version, "INITIAL_RELEASE", rounds)>>]]
  /\ UNCHANGED bindings

\* promoteVersion: a version with one round replaced becomes the one to issue.
PromoteVersion(day, version, kind, p, replacement) ==
  /\ HasLineage(day)
  /\ VersionIdAvailable(version)
  /\ replacement \notin Scheduled(day)
  /\ RoundsAvailable({replacement}, day)
  /\ LET next == [Current(day).rounds EXCEPT ![p] = replacement]
     IN /\ ValidRounds(next)
        /\ lineages' = [lineages EXCEPT
             ![day].versions = Append(@, Version(version, kind, next))]
  /\ UNCHANGED bindings

\* issueSession, at an instant of that day.
IssueSession(session, participant, day) ==
  /\ bindings[session] = None
  /\ \A s \in SessionIds :
       bindings[s] # None => bindings[s].participant # participant \/ bindings[s].day # day
  /\ HasLineage(day)
  /\ bindings' = [bindings EXCEPT
       ![session] = [participant |-> participant, day |-> day, version |-> Current(day).id]]
  /\ UNCHANGED lineages

Next ==
  \/ \E d \in Days, l \in LineageIds, v \in VersionIds, rounds \in [Positions -> Rounds] :
       CreateLineage(d, l, v, rounds)
  \/ \E d \in Days, v \in VersionIds, kind \in {"RESERVE_PROMOTION", "CORRECTION"},
       p \in Positions, r \in Rounds : PromoteVersion(d, v, kind, p, r)
  \/ \E s \in SessionIds, q \in Participants, d \in Days : IssueSession(s, q, d)

Spec == Init /\ [][Next]_vars
-----------------------------------------------------------------------------
(* Properties.                                                             *)

IssuedVersion(s) ==
  CHOOSE v \in Versions(bindings[s].day) : v.id = bindings[s].version

TypeOK ==
  /\ lineages \in [Days -> Lineage \cup {None}]
  /\ \A d \in Days : HasLineage(d) => lineages[d].versions # <<>>
  /\ bindings \in [SessionIds -> Binding \cup {None}]

(* Nobody plays a round twice: two sessions of one participant share no    *)
(* round, whatever was promoted in between (issueSession, createLineage,   *)
(* promoteVersion).                                                        *)
NoRoundTwice ==
  \A s, t \in SessionIds :
    /\ s # t /\ bindings[s] # None /\ bindings[t] # None
    /\ bindings[s].participant = bindings[t].participant
    => RoundsOf(IssuedVersion(s)) \cap RoundsOf(IssuedVersion(t)) = {}

(* A round that was once taken out comes back in the version to issue of   *)
(* no day, whatever is promoted or created later (promoteVersion,          *)
(* createLineage).                                                         *)
RemovedRoundsStayOut ==
  \A d \in Days : HasLineage(d) =>
    \A n \in 2..Len(lineages[d].versions) :
      LET removed == RoundsOf(lineages[d].versions[n - 1]) \ RoundsOf(lineages[d].versions[n])
      IN /\ removed # {}
         /\ \A e \in Days : HasLineage(e) => removed \cap RoundsOf(Current(e)) = {}

(* A version is never changed and a session keeps the one it was issued    *)
(* (ManifestBook).                                                         *)
SessionsKeepTheirVersion ==
  [][\A s \in SessionIds : bindings[s] # None =>
       /\ bindings'[s] = bindings[s]
       /\ IssuedVersion(s) = IssuedVersion(s)']_vars
=============================================================================
