---------------------------- MODULE ArtifactStore ----------------------------
(***************************************************************************)
(* publishArtifact: the file operations that replace the artifact of the   *)
(* local experiment. Each of them may throw, which starts the rollback,    *)
(* whose operations may throw too; and at any time the machine may stop.   *)
(*                                                                         *)
(* A directory entry holds an artifact, told apart by a number, or nothing. *)
(* Entries changed since the last sync of the directory may or may not be  *)
(* there after a crash, each by itself; a file that was not synced may be  *)
(* torn. Every publication has names of its own for its temporary file and *)
(* its backup, so that what a crash left of an earlier one is not in the   *)
(* way.                                                                    *)
(***************************************************************************)
EXTENDS Integers

CONSTANTS
  MaxPublications,   \* bound on the publications that are tried
  Missing,           \* no such entry
  Torn               \* a file of which only a part reached the disk

\* Assumed of the constants, and evaluated where the module is composed.
ArtifactAssumption ==
  /\ MaxPublications \in Nat
  /\ Missing \notin Nat \cup {Torn} /\ Torn \notin Nat

VARIABLES
  step,       \* the operation publishArtifact is about to do
  entries,    \* the directory, as a process sees it: target, temporary, backup
  durable,    \* the directory as it is on the disk
  flushed,    \* the artifact was written and synced
  holds,      \* PublicationState: temporary, backup, published
  previous,   \* what the target was when the publication began, seen or on the disk
  artifact,   \* the artifact that is published
  outcome     \* of the last publication

storeVars == <<step, entries, durable, flushed, holds, previous, artifact, outcome>>

Names == {"target", "temporary", "backup"}
Content == 0..MaxPublications
Nothing == [temporary |-> FALSE, backup |-> FALSE, published |-> FALSE]
-----------------------------------------------------------------------------
(* The steps of publishArtifact and of cleanupFailure, in their order.     *)

Following ==
  [open |-> "write", write |-> "sync", sync |-> "openDirectory", openDirectory |-> "link",
   link |-> "syncBackup", syncBackup |-> "rename", rename |-> "syncTarget",
   syncTarget |-> "unlinkBackup"]

Begin ==
  /\ step = "idle" /\ artifact < MaxPublications
  /\ step' = "open"
  /\ artifact' = artifact + 1
  /\ previous' = {entries["target"], durable["target"]}
  /\ entries' = [entries EXCEPT !["temporary"] = Missing, !["backup"] = Missing]
  /\ durable' = [durable EXCEPT !["temporary"] = Missing, !["backup"] = Missing]
  /\ holds' = Nothing /\ flushed' = FALSE /\ outcome' = "running"

(* Creates the temporary file. *)
Open ==
  /\ step = "open"
  /\ entries' = [entries EXCEPT !["temporary"] = artifact]
  /\ holds' = [holds EXCEPT !.temporary = TRUE]
  /\ UNCHANGED <<durable, flushed>>

Write ==
  /\ step \in {"write", "openDirectory"}
  /\ UNCHANGED <<entries, durable, flushed, holds>>

\* Fault: the file is closed and renamed without having been synced.
SyncNothing ==
  /\ step = "sync"
  /\ UNCHANGED <<entries, durable, holds, flushed>>
SyncFile ==
  /\ step = "sync"
  /\ flushed' = TRUE
  /\ UNCHANGED <<entries, durable, holds>>

(* A second link to the target, unless there is none yet.                  *)
Link ==
  /\ step = "link"
  /\ entries' = [entries EXCEPT !["backup"] = entries["target"]]
  /\ holds' = [holds EXCEPT !.backup = entries["target"] # Missing]
  /\ UNCHANGED <<durable, flushed>>

SyncDirectory ==
  /\ step \in {"syncBackup", "syncTarget"}
  /\ durable' = entries
  /\ UNCHANGED <<entries, flushed, holds>>

Rename ==
  /\ step = "rename"
  /\ entries' = [entries EXCEPT !["target"] = entries["temporary"], !["temporary"] = Missing]
  /\ holds' = [holds EXCEPT !.temporary = FALSE, !.published = TRUE]
  /\ UNCHANGED <<durable, flushed>>

Succeed ==
  /\ Open \/ Write \/ SyncFile \/ Link \/ SyncDirectory \/ Rename
  /\ step' = Following[step]
  /\ UNCHANGED <<previous, artifact, outcome>>

(* The last step drops the backup, and the publication is done.            *)
Finish ==
  /\ step = "unlinkBackup"
  /\ entries' = [entries EXCEPT !["backup"] = Missing]
  /\ holds' = [holds EXCEPT !.backup = FALSE]
  /\ step' = "idle" /\ outcome' = "PUBLISHED"
  /\ UNCHANGED <<durable, flushed, previous, artifact>>

(* An operation throws: what is undone depends on how far it got.          *)
Throw ==
  /\ step \in DOMAIN Following \cup {"unlinkBackup"}
  /\ step = "unlinkBackup" => holds.backup
  /\ step' = IF holds.published THEN "rollBack" ELSE "dropTemporary"
  /\ UNCHANGED <<entries, durable, flushed, holds, previous, artifact, outcome>>

\* Fault: the target is removed, whether there is a backup or not.
RollBackToNothing ==
  /\ step = "rollBack"
  /\ entries' = [entries EXCEPT !["target"] = Missing, !["backup"] = Missing]
  /\ holds' = [holds EXCEPT !.published = FALSE, !.backup = FALSE]
  /\ step' = "syncRollBack"
  /\ UNCHANGED <<durable, flushed, previous, artifact, outcome>>

(* The backup is put back, or the first artifact removed.                  *)
RollBack ==
  /\ step = "rollBack"
  /\ entries' = IF holds.backup
                THEN [entries EXCEPT !["target"] = entries["backup"], !["backup"] = Missing]
                ELSE [entries EXCEPT !["target"] = Missing]
  /\ holds' = [holds EXCEPT !.published = FALSE, !.backup = FALSE]
  /\ step' = "syncRollBack"
  /\ UNCHANGED <<durable, flushed, previous, artifact, outcome>>

SyncRollBack ==
  /\ step = "syncRollBack"
  /\ durable' = entries
  /\ step' = "idle" /\ outcome' = "PUBLICATION_FAILED"
  /\ UNCHANGED <<entries, flushed, holds, previous, artifact>>

RollBackFails ==
  /\ step \in {"rollBack", "syncRollBack"}
  /\ step' = "idle" /\ outcome' = "ROLLBACK_FAILED"
  /\ UNCHANGED <<entries, durable, flushed, holds, previous, artifact>>

(* Nothing was replaced yet: temporary file and backup are removed, if     *)
(* they can be, and the directory synced, if it can be.                    *)
CleanUp(dropped, synced) ==
  /\ step = "dropTemporary"
  /\ dropped \subseteq {"temporary", "backup"}
  /\ entries' = [n \in Names |-> IF n \in dropped THEN Missing ELSE entries[n]]
  /\ durable' = IF synced THEN entries' ELSE durable
  /\ step' = "idle" /\ outcome' = "PUBLICATION_FAILED"
  /\ UNCHANGED <<flushed, holds, previous, artifact>>

(* The machine stops and comes back: each entry is as it was last seen, or *)
(* as it was last synced, and an artifact that was not synced may be torn. *)
OnDisk(c) == IF c = artifact /\ ~flushed THEN {c, Torn} ELSE {c}
Crash ==
  /\ outcome \notin {"none", "CRASHED"}
  /\ \E kept \in SUBSET Names :
       \E found \in [Names -> Content \cup {Missing, Torn}] :
         /\ \A n \in Names : found[n] \in OnDisk(IF n \in kept THEN entries[n] ELSE durable[n])
         /\ entries' = found /\ durable' = found
  /\ step' = "idle" /\ outcome' = "CRASHED"
  /\ UNCHANGED <<flushed, holds, previous, artifact>>
-----------------------------------------------------------------------------
Init ==
  /\ step = "idle" /\ outcome = "none"
  /\ previous \in {{Missing}, {0}}
  /\ entries \in [Names -> {Missing, 0}]
  /\ entries["target"] \in previous /\ entries["temporary"] = Missing /\ entries["backup"] = Missing
  /\ durable = entries
  /\ flushed = FALSE /\ holds = Nothing /\ artifact = 0

Next ==
  \/ Begin \/ Succeed \/ Finish \/ Throw \/ RollBack \/ SyncRollBack \/ RollBackFails
  \/ \E dropped \in SUBSET Names, synced \in BOOLEAN : CleanUp(dropped, synced)
  \/ Crash

Spec == Init /\ [][Next]_storeVars
-----------------------------------------------------------------------------
(* Properties.                                                             *)

\* Every variable keeps its type.
TypeOK ==
  /\ step \in DOMAIN Following \cup {"idle", "unlinkBackup", "rollBack", "syncRollBack", "dropTemporary"}
  /\ entries \in [Names -> Content \cup {Missing, Torn}]
  /\ durable \in [Names -> Content \cup {Missing, Torn}]
  /\ flushed \in BOOLEAN
  /\ holds \in [temporary : BOOLEAN, backup : BOOLEAN, published : BOOLEAN]
  /\ previous \subseteq Content \cup {Missing, Torn}
  /\ artifact \in Content
  /\ outcome \in {"none", "running", "PUBLISHED", "PUBLICATION_FAILED", "ROLLBACK_FAILED", "CRASHED"}

(* Whatever throws and whenever the machine stops, the target is the whole *)
(* artifact it was before or the whole new one; it is the new one, also    *)
(* after a crash to come, when the call returned, and the old one when it  *)
(* threw PUBLICATION_FAILED.                                               *)
TargetIsWhole ==
  LET held == {entries["target"], durable["target"]}
  IN  /\ held \subseteq previous \cup {artifact}
      /\ Torn \notin held
      /\ outcome = "PUBLISHED" => held = {artifact}
      /\ outcome = "PUBLICATION_FAILED" => held \subseteq previous
=============================================================================
