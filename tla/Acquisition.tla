---------------------------- MODULE Acquisition ----------------------------
(***************************************************************************)
(* The operator command that acquires source material: it walks a pinned   *)
(* repository, stores every verified object, pauses at a rate limit and is *)
(* resumed by hand, and either completes a draft or rolls back. Several    *)
(* commands share one content-addressed store and one audit chain, and     *)
(* nothing but exclusive file creation keeps them apart.                   *)
(*                                                                         *)
(* A logical run is what a descriptor, its policies and its operator hash  *)
(* to: the same descriptor gives the same logical run, however often it is *)
(* started. An event of the audit chain is identified by its logical run,  *)
(* type, subject and reason, is dated with the receipt time of its command *)
(* and is refused when it is on the chain already or older than the last   *)
(* one. A put, a removal and an append are each one step, although an      *)
(* append creates its file before it writes it. Whatever else may go wrong *)
(* in them is a fault that the model chooses.                              *)
(***************************************************************************)
EXTENDS Integers, Sequences, FiniteSets

CONSTANTS
  Commands,   \* invocations of the operator command
  Runs,       \* logical runs
  Objects,    \* git trees and blobs
  Needs,      \* the objects each run walks over, in order
  MaxTime,    \* bound on the clock, in the seconds of receipt times
  MaxLive,    \* bound on the commands that run at a time
  Faults,     \* bound on what fails for no reason of its own: in a behaviour, one kind of these
  MaxBegun,   \* bound on the commands of a behaviour, for each of these kinds
  None

ASSUME AcquisitionAssumption ==
  /\ Needs \in [Runs -> Seq(Objects)]
  /\ MaxTime \in Nat /\ MaxLive \in Nat /\ MaxBegun \in [Faults -> Nat]
  /\ Faults \subseteq {"none", "put", "remove", "append", "crash"}

Times == 0..MaxTime
Verified == [object : Objects, own : BOOLEAN]          \* a StoredGitObject
Pauses == [run : Runs, after : Nat, stored : Seq(Verified)]
Artifacts == [kind : {"draft", "checkpoint", "index"}, run : Runs, time : Times]

\* What is stored under one kind is never read back as another.
ASSUME KindAssumption ==
  None \notin Pauses /\ \A o \in Objects : o \notin Artifacts /\ o \notin Pauses

EventTypes == {"RAW_OBJECT_CREATED", "RAW_OBJECT_DELETED", "RUN_PAUSED", "RUN_RESUMED",
               "DRAFT_COMPLETED"}

VARIABLES
  fault,      \* what may fail in this behaviour
  clock,      \* the host's clock
  store,      \* what is in the encrypted store
  audit,      \* the identities of the audit events
  latest,     \* the time of the last audit event
  cmd,        \* the state of each command
  makers,     \* history: the runs that ever created an object
  stray       \* history: the objects published by a put that threw

vars == <<fault, clock, store, audit, latest, cmd, makers, stray>>
-----------------------------------------------------------------------------
(* The state of a command.                                                 *)

Phases == {"idle", "resume", "source", "start", "walk", "record", "undo",
           "complete", "underive", "rollback", "cleanup", "pause", "note", "ended", "crashed"}
Failures == {"UNDO_REJECTED", "ROLLBACK_REJECTED", "CLEANUP_REJECTED", "CHECKPOINT_REJECTED"}
Reports == {"NONE", "DRAFT", "PAUSED", "REJECTED"} \cup Failures

Command ==
  [pc : Phases,
   run : Runs \cup {None}, time : Times,
   pause : Pauses \cup {None},   \* the pause checkpoint at hand
   from : Pauses \cup {None},    \* the pause checkpoint it was resumed from
   known : Seq(Verified),        \* the verified objects, in order
   own : BOOLEAN,                \* whether it created what it is noting
   made : SUBSET Artifacts,      \* the artifacts it created
   step : 1..3,                  \* the artifact that is next
   todo : SUBSET (Objects \cup Artifacts), \* what it has still to remove
   report : Reports]             \* what it will tell the operator

Fresh ==
  [pc |-> "idle", run |-> None, time |-> 0, pause |-> None, from |-> None, known |-> << >>,
   own |-> FALSE, made |-> {}, step |-> 1, todo |-> {}, report |-> "NONE"]

Active(c) == cmd[c].pc \notin {"idle", "ended", "crashed"}
MayBegin(c) ==
  /\ cmd[c].pc = "idle"
  /\ Cardinality({d \in Commands : Active(d)}) < MaxLive
  /\ Cardinality({d \in Commands : cmd[d].pc # "idle"}) < MaxBegun[fault]
Become(c, s) == cmd' = [cmd EXCEPT ![c] = s]

\* Fault: every verified object counts as created by the run.
OwnedOrReused(known) == {known[n].object : n \in DOMAIN known}
Owned(known) == {known[n].object : n \in {m \in DOMAIN known : known[m].own}}

Derived(r, t) ==
  <<[kind |-> "draft", run |-> r, time |-> t],
    [kind |-> "checkpoint", run |-> r, time |-> 0],
    [kind |-> "index", run |-> r, time |-> t]>>

\* The last of items in a sequence: what was created last is removed first.
LastOf(items, sequence) ==
  sequence[CHOOSE n \in DOMAIN sequence :
             /\ sequence[n] \in items
             /\ \A m \in DOMAIN sequence : sequence[m] \in items => m <= n]

Rejected(s, report) == [s EXCEPT !.pc = "rollback", !.todo = Owned(s.known), !.report = report]
\* Fault: a command that failed beside the orchestration leaves what it created.
CleaningNothing(s, report) == [s EXCEPT !.pc = "cleanup", !.todo = {}, !.report = report]
Cleaning(s, report) == [s EXCEPT !.pc = "cleanup", !.todo = Owned(s.known), !.report = report]
\* A command that is over leaves its report, and no other state than what it was about.
Ended(s, report) ==
  [Fresh EXCEPT !.pc = "ended", !.run = s.run, !.pause = s.pause, !.from = s.from,
                !.report = report]
Crashed(s) ==
  [Fresh EXCEPT !.pc = "crashed", !.run = s.run, !.pause = s.pause, !.from = s.from]
-----------------------------------------------------------------------------
(* The store and the audit chain.                                          *)

Stored(item) == store' = store \cup {item}
\* A put that throws may have published the object before it did.
PutThrows(item) == fault = "put" /\ store' \in {store, store \cup {item}}

\* A removal answers false when there is nothing to remove, and may throw after it removed.
Removed(item) == item \in store /\ store' = store \ {item}
Absent(item) == item \notin store /\ UNCHANGED store
RemoveThrows(item) == fault = "remove" /\ store' \in {store, store \ {item}}

\* What the identity of an event is the hash of.
Event(s, type, subject, reason, ordinal) ==
  [run |-> s.run, type |-> type, subject |-> subject, reason |-> reason, ordinal |-> ordinal]
\* Fault: an event that is on the chain is appended again.
AppendedAgain(s, e) == s.time >= latest /\ audit' = audit \cup {e} /\ latest' = s.time
Appended(s, e) ==
  /\ e \notin audit /\ s.time >= latest
  /\ audit' = audit \cup {e}
  /\ latest' = s.time
\* An append that throws may have written the event before it did.
Refused(s, e) ==
  \/ (e \in audit \/ s.time < latest) /\ UNCHANGED <<audit, latest>>
  \/ fault = "append" /\ (Appended(s, e) \/ UNCHANGED <<audit, latest>>)

(* A raw object is removed, and the event that says so is appended if it   *)
(* can be; a refusal goes unnoticed.                                       *)
Deleted(s, o, reason, ordinal) ==
  LET e == Event(s, "RAW_OBJECT_DELETED", o, reason, ordinal)
  IN /\ Removed(o)
     /\ Appended(s, e) \/ Refused(s, e)
-----------------------------------------------------------------------------
(* Starting, resuming, and the source receipt.                             *)

Run(c, r) ==
  /\ MayBegin(c)
  /\ Become(c, [Fresh EXCEPT !.pc = "source", !.run = r, !.time = clock])
  /\ UNCHANGED <<fault, clock, store, audit, latest, makers, stray>>

(* The checkpoint is read, its time has come, and every object it lists is *)
(* read back. A checkpoint that fails any of this is refused, with no      *)
(* other effect.                                                           *)
Resume(c, k) ==
  /\ MayBegin(c)
  /\ k \in store /\ clock >= k.after
  /\ \A n \in DOMAIN k.stored : k.stored[n].object \in store
  /\ Become(c, [Fresh EXCEPT !.pc = "resume", !.run = k.run, !.time = clock,
                             !.pause = k, !.known = k.stored])
  /\ UNCHANGED <<fault, clock, store, audit, latest, makers, stray>>

(* The audit is opened and the resumption noted in it; if either fails,    *)
(* the objects the run created are removed.                                *)
NoteResume(c) ==
  LET s == cmd[c]  e == Event(s, "RUN_RESUMED", s.pause, "NONE", 0)
  IN /\ s.pc = "resume"
     /\ \/ Appended(s, e) /\ Become(c, [s EXCEPT !.pc = "source", !.from = s.pause])
        \/ Refused(s, e) /\ Become(c, Cleaning(s, "REJECTED"))
     /\ UNCHANGED <<fault, clock, store, makers, stray>>

(* The commit receipt is acquired and the state opened, or not. A command  *)
(* that resumed has objects to clean up then.                              *)
Source(c) ==
  LET s == cmd[c]
  IN /\ s.pc = "source"
     /\ \/ Become(c, [s EXCEPT !.pc = IF s.from = None THEN "start" ELSE "walk"])
        \/ Become(c, IF s.from = None THEN Ended(s, "REJECTED") ELSE Cleaning(s, "REJECTED"))
     /\ UNCHANGED <<fault, clock, store, audit, latest, makers, stray>>

(* RUN_STARTED names the receipt, which holds the date of the response, so *)
(* it is refused as a duplicate or not.                                    *)
Start(c) ==
  LET s == cmd[c]
  IN /\ s.pc = "start"
     /\ \/ s.time >= latest /\ latest' = s.time /\ Become(c, [s EXCEPT !.pc = "walk"])
        \/ UNCHANGED latest /\ Become(c, Ended(s, "REJECTED"))
     /\ UNCHANGED <<fault, clock, store, audit, makers, stray>>
-----------------------------------------------------------------------------
(* The walk: every object is loaded, put, noted, and then known.           *)

Put(c) ==
  LET s == cmd[c]  o == Needs[s.run][Len(s.known) + 1]
  IN /\ s.pc = "walk" /\ Len(s.known) < Len(Needs[s.run])
     /\ \/ /\ Stored(o)
           /\ Become(c, [s EXCEPT !.pc = "record", !.own = o \notin store])
           /\ UNCHANGED stray
        \/ /\ PutThrows(o)
           /\ Become(c, Rejected(s, "REJECTED"))
           /\ stray' = IF store' = store THEN stray ELSE stray \cup {o}
     /\ makers' = IF store' = store THEN makers ELSE [makers EXCEPT ![o] = @ \cup {s.run}]
     /\ UNCHANGED <<fault, clock, audit, latest>>

\* Fault: only an object that the run created is noted.
NoteCreatedObject(c) ==
  LET s == cmd[c]  o == Needs[s.run][Len(s.known) + 1]
      e == Event(s, "RAW_OBJECT_CREATED", o, "STORED", Len(s.known))
  IN /\ s.pc = "record"
     /\ IF s.own THEN Appended(s, e) ELSE UNCHANGED <<audit, latest>>
     /\ Become(c, [s EXCEPT !.pc = "walk", !.own = FALSE,
                            !.known = Append(@, [object |-> o, own |-> s.own])])
     /\ UNCHANGED <<fault, clock, store, makers, stray>>

NoteObject(c) ==
  LET s == cmd[c]  o == Needs[s.run][Len(s.known) + 1]
      e == Event(s, "RAW_OBJECT_CREATED", o, IF s.own THEN "STORED" ELSE "REUSED", Len(s.known))
  IN /\ s.pc = "record"
     /\ \/ /\ Appended(s, e)
           /\ Become(c, [s EXCEPT !.pc = "walk", !.own = FALSE,
                                  !.known = Append(@, [object |-> o, own |-> s.own])])
        \/ /\ Refused(s, e)
           /\ Become(c, IF s.own THEN [s EXCEPT !.pc = "undo"] ELSE Rejected(s, "REJECTED"))
     /\ UNCHANGED <<fault, clock, store, makers, stray>>

\* The object that could not be noted is removed again; nothing notes that either.
Undo(c) ==
  LET s == cmd[c]  o == Needs[s.run][Len(s.known) + 1]  t == [s EXCEPT !.own = FALSE]
  IN /\ s.pc = "undo"
     /\ \/ Removed(o) /\ Become(c, Rejected(t, "REJECTED"))
        \/ (Absent(o) \/ RemoveThrows(o)) /\ Become(c, Rejected(t, "UNDO_REJECTED"))
     /\ UNCHANGED <<fault, clock, audit, latest, makers, stray>>

(* A request fails, a limit is crossed, no candidate is eligible, or the   *)
(* license or the evidence is rejected.                                    *)
Reject(c) ==
  /\ cmd[c].pc = "walk" /\ cmd[c].step = 1
  /\ Become(c, Rejected(cmd[c], "REJECTED"))
  /\ UNCHANGED <<fault, clock, store, audit, latest, makers, stray>>
-----------------------------------------------------------------------------
(* The draft and the two artifacts that go with it.                        *)

\* The draft holds the receipt time and so does its index, by the draft's hash.
Derive(c) ==
  LET s == cmd[c]  a == Derived(s.run, s.time)[s.step]
      t == [s EXCEPT !.made = IF a \in store THEN @ ELSE @ \cup {a}]
  IN /\ s.pc = "walk" /\ Len(s.known) = Len(Needs[s.run])
     /\ \/ /\ Stored(a)
           /\ Become(c, IF s.step = 3 THEN [t EXCEPT !.pc = "complete"]
                        ELSE [t EXCEPT !.step = @ + 1])
        \/ /\ PutThrows(a)
           /\ Become(c, [s EXCEPT !.pc = "underive", !.todo = s.made])
     /\ UNCHANGED <<fault, clock, audit, latest, makers, stray>>

Complete(c) ==
  LET s == cmd[c]  e == Event(s, "DRAFT_COMPLETED", Derived(s.run, s.time)[3], "NONE", 0)
  IN /\ s.pc = "complete"
     /\ \/ Appended(s, e) /\ Become(c, Ended(s, "DRAFT"))
        \/ Refused(s, e) /\ Become(c, [s EXCEPT !.pc = "underive", !.todo = s.made])
     /\ UNCHANGED <<fault, clock, store, makers, stray>>

\* The artifacts are removed until one of them cannot be.
Underive(c) ==
  LET s == cmd[c]  a == LastOf(s.todo, Derived(s.run, s.time))
  IN /\ s.pc = "underive"
     /\ \/ s.todo = {} /\ UNCHANGED store /\ Become(c, Rejected(s, "REJECTED"))
        \/ s.todo # {} /\ Removed(a) /\ Become(c, [s EXCEPT !.todo = @ \ {a}])
        \/ s.todo # {} /\ (Absent(a) \/ RemoveThrows(a))
           /\ Become(c, Rejected(s, "UNDO_REJECTED"))
     /\ UNCHANGED <<fault, clock, audit, latest, makers, stray>>
-----------------------------------------------------------------------------
(* Rejection: the orchestration rolls back what the run created, and the   *)
(* command then cleans up the same objects once more.                      *)

Rollback(c) ==
  LET s == cmd[c]  o == LastOf(s.todo, Needs[s.run])
      ordinal == Cardinality(Owned(s.known)) - Cardinality(s.todo)
  IN /\ s.pc = "rollback" /\ s.todo # {}
     /\ \/ Deleted(s, o, "ROLLBACK", ordinal) /\ Become(c, [s EXCEPT !.todo = @ \ {o}])
        \/ /\ Absent(o) \/ RemoveThrows(o)
           /\ Become(c, [s EXCEPT !.todo = @ \ {o}, !.report = "ROLLBACK_REJECTED"])
           /\ UNCHANGED <<audit, latest>>
     /\ UNCHANGED <<fault, clock, makers, stray>>

\* RUN_REJECTED is appended if it can be, unless a removal failed.
RollbackEnds(c) ==
  LET s == cmd[c]
  IN /\ s.pc = "rollback" /\ s.todo = {}
     /\ Become(c, Cleaning(s, s.report))
     /\ \/ s.report # "ROLLBACK_REJECTED" /\ s.time >= latest /\ latest' = s.time
        \/ UNCHANGED latest
     /\ UNCHANGED <<fault, clock, store, audit, makers, stray>>

\* Here an object that is gone already is no failure.
Cleanup(c) ==
  LET s == cmd[c]  o == LastOf(s.todo, Needs[s.run])
  IN /\ s.pc = "cleanup" /\ s.todo # {}
     /\ \/ Deleted(s, o, "CLEANUP", 0) /\ Become(c, [s EXCEPT !.todo = @ \ {o}])
        \/ /\ Absent(o)
           /\ Become(c, [s EXCEPT !.todo = @ \ {o}])
           /\ UNCHANGED <<audit, latest>>
        \/ /\ RemoveThrows(o)
           /\ Become(c, [s EXCEPT !.todo = @ \ {o}, !.report = "CLEANUP_REJECTED"])
           /\ UNCHANGED <<audit, latest>>
     /\ UNCHANGED <<fault, clock, makers, stray>>

CleanupEnds(c) ==
  /\ cmd[c].pc = "cleanup" /\ cmd[c].todo = {}
  /\ Become(c, Ended(cmd[c], cmd[c].report))
  /\ UNCHANGED <<fault, clock, store, audit, latest, makers, stray>>
-----------------------------------------------------------------------------
(* A rate limit, met in the source receipt or in the walk.                 *)

Pause(c) ==
  LET s == cmd[c]
  IN /\ \/ s.pc = "source"
        \/ s.pc = "walk" /\ Len(s.known) < Len(Needs[s.run])
     /\ Become(c, [s EXCEPT !.pc = "pause",
                            !.pause = [run |-> s.run, after |-> clock + 1, stored |-> s.known]])
     /\ UNCHANGED <<fault, clock, store, audit, latest, makers, stray>>

(* The checkpoint is made, unless its instant has passed by now, and put.  *)
(* In the first case the command throws as it is.                          *)
PutPause(c) ==
  LET s == cmd[c]
  IN /\ s.pc = "pause"
     /\ \/ /\ s.pause.after <= clock
           /\ Become(c, Ended(s, "CHECKPOINT_REJECTED"))
           /\ UNCHANGED store
        \/ /\ s.pause.after > clock /\ Stored(s.pause)
           /\ Become(c, [s EXCEPT !.pc = "note", !.own = s.pause \notin store])
        \/ /\ s.pause.after > clock /\ PutThrows(s.pause)
           /\ Become(c, Cleaning(s, "REJECTED"))
     /\ UNCHANGED <<fault, clock, audit, latest, makers, stray>>

NotePause(c) ==
  LET s == cmd[c]  e == Event(s, "RUN_PAUSED", s.pause, "NONE", 0)
  IN /\ s.pc = "note"
     /\ \/ Appended(s, e) /\ UNCHANGED store /\ Become(c, Ended(s, "PAUSED"))
        \/ /\ Refused(s, e)
           /\ IF s.own THEN Removed(s.pause) \/ Absent(s.pause) \/ RemoveThrows(s.pause)
              ELSE UNCHANGED store
           /\ Become(c, Cleaning(s, "REJECTED"))
     /\ UNCHANGED <<fault, clock, makers, stray>>
-----------------------------------------------------------------------------
Crash(c) ==
  /\ fault = "crash" /\ Active(c)
  /\ Become(c, Crashed(cmd[c]))
  /\ UNCHANGED <<fault, clock, store, audit, latest, makers, stray>>

Tick ==
  /\ clock < MaxTime
  /\ clock' = clock + 1
  /\ UNCHANGED <<fault, store, audit, latest, cmd, makers, stray>>

Init ==
  /\ fault \in Faults
  /\ clock = 0
  /\ store = {}
  /\ audit = {}
  /\ latest = 0
  /\ cmd = [c \in Commands |-> Fresh]
  /\ makers = [o \in Objects |-> {}]
  /\ stray = {}

Step(c) ==
  \/ \E r \in Runs : Run(c, r)
  \/ \E d \in Commands : cmd[d].report = "PAUSED" /\ Resume(c, cmd[d].pause)
  \/ NoteResume(c) \/ Source(c) \/ Start(c)
  \/ Put(c) \/ NoteObject(c) \/ Undo(c) \/ Reject(c)
  \/ Derive(c) \/ Complete(c) \/ Underive(c)
  \/ Rollback(c) \/ RollbackEnds(c) \/ Cleanup(c) \/ CleanupEnds(c)
  \/ Pause(c) \/ PutPause(c) \/ NotePause(c)
  \/ Crash(c)

Next == Tick \/ \E c \in Commands : Step(c)

Spec == Init /\ [][Next]_vars
-----------------------------------------------------------------------------
(* Properties.                                                             *)

\* Every variable keeps its type.
TypeOK ==
  /\ fault \in Faults /\ clock \in Times /\ latest \in Times
  /\ store \subseteq Objects \cup Artifacts \cup {cmd[c].pause : c \in Commands}
  /\ \A e \in audit : e.run \in Runs /\ e.type \in EventTypes
  /\ cmd \in [Commands -> Command]
  /\ makers \in [Objects -> SUBSET Runs]
  /\ stray \subseteq Objects

Drafts == {e \in audit : e.type = "DRAFT_COMPLETED"}

(* Behind every completed draft the chain has an event, by the same run,   *)
(* for every object the draft was made from: created or found again, in    *)
(* this command or before a pause.                                         *)
DraftsAreAudited ==
  \A d \in Drafts : \A n \in DOMAIN Needs[d.run] :
    \E e \in audit : /\ e.type = "RAW_OBJECT_CREATED"
                     /\ e.run = d.run /\ e.subject = Needs[d.run][n]

(* An object leaves the store by a command of a run that created it once:  *)
(* an object that a run found there survives the rejection of that run,    *)
(* through pauses and resumptions.                                         *)
RollbackSparesReused ==
  [][\A o \in Objects : o \in store /\ o \notin store' =>
       \E c \in Commands : cmd'[c] # cmd[c] /\ cmd[c].run \in makers[o]]_vars

Holds(c, o) ==
  /\ Active(c)
  /\ \/ o \in Owned(cmd[c].known)
     \/ cmd[c].pc \in {"record", "undo"} /\ cmd[c].own
        /\ o = Needs[cmd[c].run][Len(cmd[c].known) + 1]

\* A checkpoint that is still to be resumed.
Waits(c) ==
  /\ cmd[c].report = "PAUSED" /\ cmd[c].pause \in store
  /\ Event(cmd[c], "RUN_RESUMED", cmd[c].pause, "NONE", 0) \notin audit

(* No object is left behind in silence. One that is in the store belongs   *)
(* to a command at work, to a checkpoint still to be resumed, or to a      *)
(* completed draft; or a command of a run that created it crashed or told  *)
(* its operator that it failed to clean up; or a put threw and left it.    *)
NothingLeftInSilence ==
  \A o \in Objects \cap store :
    \/ \E c \in Commands : Holds(c, o)
    \/ \E c \in Commands : Waits(c) /\ o \in Owned(cmd[c].pause.stored)
    \/ \E d \in Drafts : \E n \in DOMAIN Needs[d.run] : Needs[d.run][n] = o
    \/ \E c \in Commands : /\ cmd[c].run \in makers[o]
                           /\ cmd[c].pc = "crashed" \/ cmd[c].report \in Failures
    \/ o \in stray

(* A checkpoint is resumed once, whoever else has its reference: of two    *)
(* commands one is refused before it goes on.                              *)
ResumedOnce ==
  \A c, d \in Commands : cmd[c].from # None /\ cmd[c].from = cmd[d].from => c = d

(* The contract: "Repeating or resuming a run shall not create a second    *)
(* raw object or draft for the same immutable source identity and hashes"  *)
(* (NFR-022).                                                              *)
OneDraftPerRun == \A d, e \in Drafts : d.run = e.run => d = e
=============================================================================
