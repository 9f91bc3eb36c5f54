-------------------------- MODULE Acquisition_proofs --------------------------
(***************************************************************************)
(* Proofs about the acquisition commands, for any number of commands, runs *)
(* and objects, any clock and any of the faults. The inductive invariant   *)
(* says of each command what its state owes to the chain and the makers    *)
(* (Sound), of the chain what its events say (EventsSound), and of the     *)
(* objects a run created that they are in one pair of hands (OwnerInv).    *)
(***************************************************************************)
EXTENDS Acquisition, WellFoundedInduction, TLAPS

-----------------------------------------------------------------------------
(* What the chain says of a checkpoint, of an object and of a run.         *)

PauseEvent(p, type) ==
  [run |-> p.run, type |-> type, subject |-> p, reason |-> "NONE", ordinal |-> 0]
PausedEvent(p) == PauseEvent(p, "RUN_PAUSED")
ResumedEvent(p) == PauseEvent(p, "RUN_RESUMED")
CreatedEvent(r, n) ==
  [run |-> r, type |-> "RAW_OBJECT_CREATED", subject |-> Needs[r][n],
   reason |-> "STORED", ordinal |-> n - 1]
NotedIn(a, r, o) == \E e \in a : e.type = "RAW_OBJECT_CREATED" /\ e.run = r /\ e.subject = o

-----------------------------------------------------------------------------
(* The inductive invariant, of one command in a state s, on a chain a, by  *)
(* the makers m, at the instant k.                                         *)

\* The verified objects are the first ones the run needs, each noted on the chain; one that
\* is the run's own was made by it, and noted as such at its place.
KnownSound(r, known, a, m) ==
  /\ Len(known) <= Len(Needs[r])
  /\ \A n \in DOMAIN known :
       /\ known[n].object = Needs[r][n]
       /\ NotedIn(a, r, known[n].object)
       /\ known[n].own => r \in m[known[n].object] /\ CreatedEvent(r, n) \in a

\* The object at hand.
AtHand(s) == Needs[s.run][Len(s.known) + 1]

PlaceSound(s, a, m) ==
  /\ s.pc = "idle" => s = Fresh
  /\ s.pc # "idle" => s.run \in Runs /\ KnownSound(s.run, s.known, a, m)
  /\ s.pc \in {"record", "undo"} =>
       /\ Len(s.known) < Len(Needs[s.run])
       /\ s.own => s.run \in m[AtHand(s)]
  /\ s.pc = "undo" => s.own
  /\ s.pc = "complete" => Len(s.known) = Len(Needs[s.run])
  /\ s.pc = "start" \/ (s.pc = "source" /\ s.from = None) => s.known = << >>

TodoSound(s) ==
  /\ s.made \subseteq {Derived(s.run, s.time)[n] : n \in 1..3}
  /\ s.pc = "underive" => s.todo \subseteq s.made
  /\ s.pc \in {"rollback", "cleanup"} => s.todo \subseteq Owned(s.known)
  /\ s.pc \notin {"rollback", "cleanup", "ended"} => s.report = "NONE"

PauseSound(s, a, m, k) ==
  /\ s.pause # None => s.pause.run = s.run /\ KnownSound(s.run, s.pause.stored, a, m)
  /\ s.from # None => s.from.run = s.run /\ ResumedEvent(s.from) \in a
  /\ s.report = "PAUSED" => s.pc = "ended" /\ s.pause # None /\ PausedEvent(s.pause) \in a
  /\ s.pc = "resume" =>
       /\ s.pause # None /\ s.known = s.pause.stored
       /\ PausedEvent(s.pause) \in a /\ k >= s.pause.after
  /\ s.pc \in {"pause", "note"} => s.pause # None /\ s.pause.stored = s.known

CommandSound(s, a, m, k) == PlaceSound(s, a, m) /\ TodoSound(s) /\ PauseSound(s, a, m, k)

\* Where a command no longer changes the checkpoint at hand.
Resting == {"note", "cleanup", "ended", "crashed"}
Kept == {cmd[c].pause : c \in {d \in Commands : cmd[d].pc \in Resting}}

TypeInv ==
  /\ fault \in Faults /\ clock \in Times /\ latest \in Times
  /\ store \subseteq Objects \cup Artifacts \cup Kept
  /\ \A e \in audit : e.run \in Runs /\ e.type \in EventTypes
  /\ cmd \in [Commands -> Command]
  /\ makers \in [Objects -> SUBSET Runs]
  /\ stray \subseteq Objects

Sound == \A c \in Commands : CommandSound(cmd[c], audit, makers, clock)

-----------------------------------------------------------------------------
(* Lemmas about the operators.                                             *)

\* A set of natural numbers with a member has a least one.
LEMMA LeastNatural ==
  ASSUME NEW T, T \subseteq Nat, T # {}
  PROVE  \E x \in T : \A y \in T : x <= y
<1> DEFINE R == OpToRel(<, Nat)
<1>1. IsWellFoundedOn(R, Nat)
  BY NatLessThanWellFounded
<1>2. \A x, y \in Nat : <<x, y>> \in R <=> x < y
  BY DEF OpToRel
<1> HIDE DEF R
<1>3. PICK x \in T : \A y \in T : ~(<<y, x>> \in R)
  BY <1>1, WFMin
<1>4. \A y \in T : x <= y
  <2> SUFFICES ASSUME NEW y \in T PROVE x <= y
    OBVIOUS
  <2>1. x \in Nat /\ y \in Nat
    OBVIOUS
  <2>2. ~(y < x)
    BY <1>2, <1>3, <2>1
  <2>3. QED
    BY <2>1, <2>2
<1>5. QED
  BY <1>4

\* Of items that are all in a sequence, the last is one of them.
LEMMA LastOfTaken ==
  ASSUME NEW S, NEW sequence \in Seq(S), NEW items, items # {},
         \A i \in items : \E n \in DOMAIN sequence : sequence[n] = i
  PROVE  LastOf(items, sequence) \in items
<1> DEFINE At == {n \in DOMAIN sequence : sequence[n] \in items}
           T == {Len(sequence) - n : n \in At}
<1>1. Len(sequence) \in Nat /\ DOMAIN sequence = 1..Len(sequence)
  OBVIOUS
<1>2. T \subseteq Nat
  BY <1>1
<1>3. T # {}
  <2>1. PICK i : i \in items
    OBVIOUS
  <2>2. PICK n \in DOMAIN sequence : sequence[n] = i
    BY <2>1
  <2>3. n \in At
    BY <2>1, <2>2
  <2>4. QED
    BY <2>3
<1>4. PICK x \in T : \A y \in T : x <= y
  BY <1>2, <1>3, LeastNatural
<1>5. PICK n \in At : x = Len(sequence) - n
  BY <1>4
<1>6. n \in DOMAIN sequence /\ sequence[n] \in items
  BY <1>5
<1>7. \A m \in DOMAIN sequence : sequence[m] \in items => m <= n
  <2> SUFFICES ASSUME NEW m \in DOMAIN sequence, sequence[m] \in items PROVE m <= n
    OBVIOUS
  <2>1. Len(sequence) - m \in T
    OBVIOUS
  <2>2. x <= Len(sequence) - m
    BY <1>4, <2>1
  <2>3. QED
    BY <1>1, <1>5, <1>6, <2>2
<1>8. QED
  BY <1>6, <1>7 DEF LastOf

LEMMA OwnedMembers ==
  ASSUME NEW known \in Seq(Verified)
  PROVE  /\ Owned(known) \subseteq Objects
         /\ \A o : o \in Owned(known) <=>
                     \E n \in DOMAIN known : known[n].own /\ known[n].object = o
<1>1. \A n \in DOMAIN known : known[n] \in Verified
  OBVIOUS
<1>2. QED
  BY <1>1 DEF Owned, Verified

\* What a step may leave of a command.
LEMMA CommandShape ==
  ASSUME NEW s \in Command
  PROVE  /\ s = [pc |-> s.pc, run |-> s.run, time |-> s.time, pause |-> s.pause,
                 from |-> s.from, known |-> s.known, own |-> s.own, made |-> s.made,
                 step |-> s.step, todo |-> s.todo, report |-> s.report]
         /\ s.pc \in Phases /\ s.run \in Runs \cup {None} /\ s.time \in Times
         /\ s.pause \in Pauses \cup {None} /\ s.from \in Pauses \cup {None}
         /\ s.known \in Seq(Verified) /\ s.own \in BOOLEAN /\ s.made \subseteq Artifacts
         /\ s.step \in 1..3 /\ s.todo \subseteq Objects \cup Artifacts /\ s.report \in Reports
BY DEF Command

LEMMA FreshTyped == Fresh \in Command
<1>1. 0 \in Times
  BY AcquisitionAssumption DEF Times
<1>2. << >> \in Seq(Verified)
  OBVIOUS
<1>3. QED
  BY <1>1, <1>2 DEF Fresh, Command, Phases, Reports

LEMMA RejectedTyped ==
  ASSUME NEW s \in Command, NEW report \in Reports
  PROVE  Rejected(s, report) \in Command /\ Cleaning(s, report) \in Command
<1>1. Owned(s.known) \subseteq Objects
  BY OwnedMembers, CommandShape
<1>2. QED
  BY <1>1 DEF Rejected, Cleaning, Command, Phases

LEMMA EndedTyped ==
  ASSUME NEW s \in Command, NEW report \in Reports
  PROVE  Ended(s, report) \in Command /\ Crashed(s) \in Command
BY FreshTyped, CommandShape DEF Ended, Crashed, Command, Phases

LEMMA DerivedTyped ==
  ASSUME NEW r \in Runs, NEW t \in Times, NEW n \in 1..3
  PROVE  Derived(r, t)[n] \in Artifacts
<1>1. 0 \in Times
  BY AcquisitionAssumption DEF Times
<1>2. n = 1 \/ n = 2 \/ n = 3
  OBVIOUS
<1>3. QED
  BY <1>1, <1>2 DEF Derived, Artifacts

LEMMA NeedsTyped ==
  ASSUME NEW r \in Runs
  PROVE  /\ Needs[r] \in Seq(Objects) /\ Len(Needs[r]) \in Nat
         /\ \A n \in 1..Len(Needs[r]) : Needs[r][n] \in Objects
         /\ DOMAIN Needs[r] = 1..Len(Needs[r])
BY AcquisitionAssumption

\* A command becomes what it becomes, and no other changes.
LEMMA Becomes ==
  ASSUME TypeInv, NEW c \in Commands, NEW t, Become(c, t)
  PROVE  /\ cmd'[c] = t /\ \A d \in Commands \ {c} : cmd'[d] = cmd[d]
         /\ t \in Command => cmd' \in [Commands -> Command]
BY DEF TypeInv, Become

-----------------------------------------------------------------------------
(* Types.                                                                  *)

\* Enough of a step to see that the store stays typed.
LEMMA StoreTyped ==
  ASSUME TypeInv, NEW c \in Commands, NEW t, Become(c, t), NEW X,
         X \subseteq Objects \cup Artifacts \cup (IF t.pc \in Resting THEN {t.pause} ELSE {}),
         store' \subseteq store \cup X,
         cmd[c].pc \in Resting => t.pc \in Resting /\ t.pause = cmd[c].pause
  PROVE  store' \subseteq Objects \cup Artifacts \cup Kept'
<1>1. cmd'[c] = t /\ \A d \in Commands \ {c} : cmd'[d] = cmd[d]
  BY Becomes
<1>2. Kept \subseteq Kept'
  <2> SUFFICES ASSUME NEW d \in Commands, cmd[d].pc \in Resting
               PROVE  cmd[d].pause \in Kept'
    BY DEF Kept
  <2>1. cmd'[d].pc \in Resting /\ cmd'[d].pause = cmd[d].pause
    BY <1>1
  <2>2. QED
    BY <2>1 DEF Kept
<1>3. t.pc \in Resting => t.pause \in Kept'
  BY <1>1 DEF Kept
<1>4. QED
  BY <1>2, <1>3 DEF TypeInv

\* A step that turns a command into a typed state keeps the types.
LEMMA StepTyped ==
  ASSUME TypeInv, NEW c \in Commands, NEW t, Become(c, t), t \in Command, NEW X,
         X \subseteq Objects \cup Artifacts \cup (IF t.pc \in Resting THEN {t.pause} ELSE {}),
         store' \subseteq store \cup X,
         cmd[c].pc \in Resting => t.pc \in Resting /\ t.pause = cmd[c].pause,
         fault' = fault, clock' = clock, latest' \in Times,
         \A e \in audit' \ audit : e.run \in Runs /\ e.type \in EventTypes,
         makers' \in [Objects -> SUBSET Runs], stray' \subseteq Objects
  PROVE  TypeInv'
<1>1. store' \subseteq Objects \cup Artifacts \cup Kept'
  BY StoreTyped
<1>2. cmd' \in [Commands -> Command]
  BY Becomes
<1>3. QED
  BY <1>1, <1>2 DEF TypeInv

\* The chain after an append that may have been refused.
LEMMA Audited ==
  ASSUME TypeInv, NEW s \in Command, NEW e, Appended(s, e) \/ Refused(s, e)
  PROVE  /\ latest' \in Times /\ audit \subseteq audit'
         /\ audit' = audit \/ (audit' = audit \cup {e} /\ e \notin audit)
BY DEF Appended, Refused, Command, TypeInv

LEMMA RunTyped ==
  ASSUME TypeInv, NEW c \in Commands, NEW r \in Runs, Run(c, r)
  PROVE  TypeInv'
<1> DEFINE t == [Fresh EXCEPT !.pc = "source", !.run = r, !.time = clock]
<1>1. t \in Command
  BY FreshTyped, CommandShape DEF Command, Phases, TypeInv
<1>2. Become(c, t) /\ cmd[c].pc = "idle"
  BY DEF Run, MayBegin
<1>3. /\ fault' = fault /\ clock' = clock /\ latest' = latest /\ store' = store
      /\ audit' = audit /\ makers' = makers /\ stray' = stray
  BY DEF Run
<1> HIDE DEF t
<1>4. QED
  BY <1>1, <1>2, <1>3, StepTyped DEF TypeInv, Resting

LEMMA ResumeTyped ==
  ASSUME TypeInv, NEW c \in Commands, NEW k \in Pauses, Resume(c, k)
  PROVE  TypeInv'
<1> DEFINE t == [Fresh EXCEPT !.pc = "resume", !.run = k.run, !.time = clock,
                             !.pause = k, !.known = k.stored]
<1>1. t \in Command
  BY FreshTyped, CommandShape DEF Command, Phases, TypeInv, Pauses
<1>2. Become(c, t) /\ cmd[c].pc = "idle"
  BY DEF Resume, MayBegin
<1>3. /\ fault' = fault /\ clock' = clock /\ latest' = latest /\ store' = store
      /\ audit' = audit /\ makers' = makers /\ stray' = stray
  BY DEF Resume
<1> HIDE DEF t
<1>4. QED
  BY <1>1, <1>2, <1>3, StepTyped DEF TypeInv, Resting

LEMMA NoteResumeTyped ==
  ASSUME TypeInv, Sound, NEW c \in Commands, NoteResume(c)
  PROVE  TypeInv'
<1> DEFINE s == cmd[c]
           e == Event(s, "RUN_RESUMED", s.pause, "NONE", 0)
<1>1. s \in Command /\ s.pc = "resume" /\ s.run \in Runs
  BY DEF TypeInv, NoteResume, Sound, CommandSound, PlaceSound
<1>2. /\ fault' = fault /\ clock' = clock /\ store' = store
      /\ makers' = makers /\ stray' = stray /\ (Appended(s, e) \/ Refused(s, e))
  BY DEF NoteResume
<1>3. e.run \in Runs /\ e.type \in EventTypes
  BY <1>1 DEF Event, EventTypes
<1>4. \E t \in Command : Become(c, t)
  <2>1. [s EXCEPT !.pc = "source", !.from = s.pause] \in Command
    BY <1>1, CommandShape DEF Command, Phases
  <2>2. Cleaning(s, "REJECTED") \in Command
    BY <1>1, RejectedTyped DEF Reports
  <2>3. QED
    BY <2>1, <2>2 DEF NoteResume
<1>5. PICK t \in Command : Become(c, t)
  BY <1>4
<1> HIDE DEF e, s
<1>6. latest' \in Times /\ \A f \in audit' \ audit : f.run \in Runs /\ f.type \in EventTypes
  BY <1>1, <1>2, <1>3, Audited
<1>7. cmd[c].pc \notin Resting
  BY <1>1 DEF Resting, s
<1>8. QED
  BY <1>2, <1>5, <1>6, <1>7, StepTyped DEF TypeInv

LEMMA SourceTyped ==
  ASSUME TypeInv, NEW c \in Commands, Source(c)
  PROVE  TypeInv'
<1> DEFINE s == cmd[c]
<1>1. s \in Command /\ s.pc = "source"
  BY DEF TypeInv, Source
<1>2. /\ fault' = fault /\ clock' = clock /\ latest' = latest /\ store' = store
      /\ audit' = audit /\ makers' = makers /\ stray' = stray
  BY DEF Source
<1>3. \E t \in Command : Become(c, t)
  <2>1. [s EXCEPT !.pc = "start"] \in Command /\ [s EXCEPT !.pc = "walk"] \in Command
    BY <1>1, CommandShape DEF Command, Phases
  <2>2. Cleaning(s, "REJECTED") \in Command /\ Ended(s, "REJECTED") \in Command
    BY <1>1, RejectedTyped, EndedTyped DEF Reports
  <2>3. QED
    BY <2>1, <2>2 DEF Source
<1>4. PICK t \in Command : Become(c, t)
  BY <1>3
<1>5. cmd[c].pc \notin Resting
  BY <1>1 DEF Resting
<1> HIDE DEF s
<1>6. QED
  BY <1>2, <1>4, <1>5, StepTyped DEF TypeInv

LEMMA StartTyped ==
  ASSUME TypeInv, NEW c \in Commands, Start(c)
  PROVE  TypeInv'
<1> DEFINE s == cmd[c]
<1>1. s \in Command /\ s.pc = "start"
  BY DEF TypeInv, Start
<1>2. /\ fault' = fault /\ clock' = clock /\ store' = store
      /\ audit' = audit /\ makers' = makers /\ stray' = stray
      /\ (latest' = latest \/ latest' = s.time)
  BY DEF Start
<1>3. \E t \in Command : Become(c, t)
  <2>1. [s EXCEPT !.pc = "walk"] \in Command
    BY <1>1, CommandShape DEF Command, Phases
  <2>2. Ended(s, "REJECTED") \in Command
    BY <1>1, EndedTyped DEF Reports
  <2>3. QED
    BY <2>1, <2>2 DEF Start
<1>4. PICK t \in Command : Become(c, t)
  BY <1>3
<1>5. cmd[c].pc \notin Resting /\ s.time \in Times
  BY <1>1, CommandShape DEF Resting
<1> HIDE DEF s
<1>6. latest' \in Times
  BY <1>2, <1>5 DEF TypeInv
<1>7. QED
  BY <1>2, <1>4, <1>5, <1>6, StepTyped DEF TypeInv

\* The object at hand while the walk is not over.
LEMMA NextTyped ==
  ASSUME NEW s \in Command, s.run \in Runs, Len(s.known) < Len(Needs[s.run])
  PROVE  AtHand(s) \in Objects
BY NeedsTyped, CommandShape DEF AtHand

LEMMA PutTyped ==
  ASSUME TypeInv, Sound, NEW c \in Commands, Put(c)
  PROVE  TypeInv'
<1> DEFINE s == cmd[c]
           o == Needs[s.run][Len(s.known) + 1]
<1>1. s \in Command /\ s.pc = "walk" /\ s.run \in Runs
  BY DEF TypeInv, Put, Sound, CommandSound, PlaceSound
<1>2. o \in Objects
  BY <1>1, NextTyped DEF Put, AtHand
<1>3. /\ fault' = fault /\ clock' = clock /\ audit' = audit /\ latest' = latest
      /\ store' \subseteq store \cup {o}
      /\ stray' = stray \/ stray' = stray \cup {o}
      /\ makers' = makers \/ makers' = [makers EXCEPT ![o] = @ \cup {s.run}]
  BY DEF Put, Stored, PutThrows
<1>4. \E t \in Command : Become(c, t)
  <2>1. [s EXCEPT !.pc = "record", !.own = o \notin store] \in Command
    BY <1>1, CommandShape DEF Command, Phases
  <2>2. Rejected(s, "REJECTED") \in Command
    BY <1>1, RejectedTyped DEF Reports
  <2>3. QED
    BY <2>1, <2>2 DEF Put
<1>5. PICK t \in Command : Become(c, t)
  BY <1>4
<1>6. cmd[c].pc \notin Resting
  BY <1>1 DEF Resting
<1>7. s.run \in Runs
  BY <1>1
<1> HIDE DEF s, o
<1>8. makers' \in [Objects -> SUBSET Runs] /\ stray' \subseteq Objects
  BY <1>2, <1>3, <1>7 DEF TypeInv
<1>9. latest' \in Times
  BY <1>3 DEF TypeInv
<1>10. QED
  BY <1>2, <1>3, <1>5, <1>6, <1>8, <1>9, StepTyped

LEMMA NoteObjectTyped ==
  ASSUME TypeInv, Sound, NEW c \in Commands, NoteObject(c)
  PROVE  TypeInv'
<1> DEFINE s == cmd[c]
           o == Needs[s.run][Len(s.known) + 1]
           e == Event(s, "RAW_OBJECT_CREATED", o, IF s.own THEN "STORED" ELSE "REUSED",
                      Len(s.known))
<1>1. s \in Command /\ s.pc = "record" /\ s.run \in Runs /\ Len(s.known) < Len(Needs[s.run])
  BY DEF TypeInv, NoteObject, Sound, CommandSound, PlaceSound
<1>2. o \in Objects
  BY <1>1, NextTyped DEF AtHand
<1>3. /\ fault' = fault /\ clock' = clock /\ store' = store
      /\ makers' = makers /\ stray' = stray /\ (Appended(s, e) \/ Refused(s, e))
  BY DEF NoteObject
<1>4. e.run \in Runs /\ e.type \in EventTypes
  BY <1>1 DEF Event, EventTypes
<1>5. \E t \in Command : Become(c, t)
  <2>1. [s EXCEPT !.pc = "undo"] \in Command
    BY <1>1, CommandShape DEF Command, Phases
  <2>2. Rejected(s, "REJECTED") \in Command
    BY <1>1, RejectedTyped DEF Reports
  <2>3. [s EXCEPT !.pc = "walk", !.own = FALSE,
                  !.known = Append(@, [object |-> o, own |-> s.own])] \in Command
    <3>1. [object |-> o, own |-> s.own] \in Verified
      BY <1>1, <1>2, CommandShape DEF Verified
    <3>2. Append(s.known, [object |-> o, own |-> s.own]) \in Seq(Verified)
      BY <1>1, <3>1, CommandShape
    <3>3. QED
      BY <1>1, <3>2, CommandShape DEF Command, Phases
  <2>4. QED
    BY <2>1, <2>2, <2>3 DEF NoteObject
<1>6. PICK t \in Command : Become(c, t)
  BY <1>5
<1>7. cmd[c].pc \notin Resting
  BY <1>1 DEF Resting
<1> HIDE DEF e, s, o
<1>8. latest' \in Times /\ \A f \in audit' \ audit : f.run \in Runs /\ f.type \in EventTypes
  BY <1>1, <1>3, <1>4, Audited
<1>9. QED
  BY <1>3, <1>6, <1>7, <1>8, StepTyped DEF TypeInv

LEMMA UndoTyped ==
  ASSUME TypeInv, NEW c \in Commands, Undo(c)
  PROVE  TypeInv'
<1> DEFINE s == cmd[c]
<1>1. s \in Command /\ s.pc = "undo"
  BY DEF TypeInv, Undo
<1>2. /\ fault' = fault /\ clock' = clock /\ latest' = latest /\ store' \subseteq store
      /\ audit' = audit /\ makers' = makers /\ stray' = stray
  BY DEF Undo, Removed, Absent, RemoveThrows
<1>3. \E t \in Command : Become(c, t)
  <2>1. [s EXCEPT !.own = FALSE] \in Command
    BY <1>1, CommandShape DEF Command
  <2>2. \A report \in {"REJECTED", "UNDO_REJECTED"} :
          Rejected([s EXCEPT !.own = FALSE], report) \in Command
    BY <2>1, RejectedTyped DEF Reports, Failures
  <2>3. QED
    BY <2>2 DEF Undo
<1>4. PICK t \in Command : Become(c, t)
  BY <1>3
<1>5. cmd[c].pc \notin Resting
  BY <1>1 DEF Resting
<1> HIDE DEF s
<1>6. QED
  BY <1>2, <1>4, <1>5, StepTyped DEF TypeInv

LEMMA RejectTyped ==
  ASSUME TypeInv, NEW c \in Commands, Reject(c)
  PROVE  TypeInv'
<1>1. cmd[c] \in Command /\ cmd[c].pc = "walk"
  BY DEF TypeInv, Reject
<1>2. /\ fault' = fault /\ clock' = clock /\ latest' = latest /\ store' = store
      /\ audit' = audit /\ makers' = makers /\ stray' = stray
  BY DEF Reject
<1>3. PICK t \in Command : Become(c, t)
  BY <1>1, RejectedTyped DEF Reports, Reject
<1>4. cmd[c].pc \notin Resting
  BY <1>1 DEF Resting
<1>5. QED
  BY <1>2, <1>3, <1>4, StepTyped DEF TypeInv

LEMMA DeriveTyped ==
  ASSUME TypeInv, Sound, NEW c \in Commands, Derive(c)
  PROVE  TypeInv'
<1> DEFINE s == cmd[c]
           a == Derived(s.run, s.time)[s.step]
           u == [s EXCEPT !.made = IF a \in store THEN @ ELSE @ \cup {a}]
<1>1. s \in Command /\ s.pc = "walk" /\ s.run \in Runs
  BY DEF TypeInv, Derive, Sound, CommandSound, PlaceSound
<1>2. a \in Artifacts
  BY <1>1, DerivedTyped, CommandShape
<1>3. /\ fault' = fault /\ clock' = clock /\ audit' = audit /\ latest' = latest
      /\ makers' = makers /\ stray' = stray /\ store' \subseteq store \cup {a}
  BY DEF Derive, Stored, PutThrows
<1>4. \E t \in Command : Become(c, t)
  <2>1. u \in Command /\ u.step = s.step
    BY <1>1, <1>2, CommandShape DEF Command
  <2>2. [u EXCEPT !.pc = "complete"] \in Command
    BY <2>1, CommandShape DEF Command, Phases
  <2>3. s.step # 3 => [u EXCEPT !.step = @ + 1] \in Command
    <3>1. s.step # 3 => s.step + 1 \in 1..3
      BY <1>1, CommandShape
    <3>2. QED
      BY <2>1, <3>1, CommandShape DEF Command
  <2>4. [s EXCEPT !.pc = "underive", !.todo = s.made] \in Command
    BY <1>1, CommandShape DEF Command, Phases
  <2>5. QED
    BY <2>2, <2>3, <2>4 DEF Derive
<1>5. PICK t \in Command : Become(c, t)
  BY <1>4
<1>6. cmd[c].pc \notin Resting
  BY <1>1 DEF Resting
<1> HIDE DEF s, a, u
<1>7. QED
  BY <1>2, <1>3, <1>5, <1>6, StepTyped DEF TypeInv

LEMMA CompleteTyped ==
  ASSUME TypeInv, Sound, NEW c \in Commands, Complete(c)
  PROVE  TypeInv'
<1> DEFINE s == cmd[c]
           e == Event(s, "DRAFT_COMPLETED", Derived(s.run, s.time)[3], "NONE", 0)
<1>1. s \in Command /\ s.pc = "complete" /\ s.run \in Runs
  BY DEF TypeInv, Complete, Sound, CommandSound, PlaceSound
<1>2. /\ fault' = fault /\ clock' = clock /\ store' = store
      /\ makers' = makers /\ stray' = stray /\ (Appended(s, e) \/ Refused(s, e))
  BY DEF Complete
<1>3. e.run \in Runs /\ e.type \in EventTypes
  BY <1>1 DEF Event, EventTypes
<1>4. \E t \in Command : Become(c, t)
  <2>1. [s EXCEPT !.pc = "underive", !.todo = s.made] \in Command
    BY <1>1, CommandShape DEF Command, Phases
  <2>2. Ended(s, "DRAFT") \in Command
    BY <1>1, EndedTyped DEF Reports
  <2>3. QED
    BY <2>1, <2>2 DEF Complete
<1>5. PICK t \in Command : Become(c, t)
  BY <1>4
<1>6. cmd[c].pc \notin Resting
  BY <1>1 DEF Resting
<1> HIDE DEF e, s
<1>7. latest' \in Times /\ \A f \in audit' \ audit : f.run \in Runs /\ f.type \in EventTypes
  BY <1>1, <1>2, <1>3, Audited
<1>8. QED
  BY <1>2, <1>5, <1>6, <1>7, StepTyped DEF TypeInv

LEMMA UnderiveTyped ==
  ASSUME TypeInv, NEW c \in Commands, Underive(c)
  PROVE  TypeInv'
<1> DEFINE s == cmd[c]
           a == LastOf(s.todo, Derived(s.run, s.time))
<1>1. s \in Command /\ s.pc = "underive"
  BY DEF TypeInv, Underive
<1>2. /\ fault' = fault /\ clock' = clock /\ latest' = latest /\ store' \subseteq store
      /\ audit' = audit /\ makers' = makers /\ stray' = stray
  BY DEF Underive, Removed, Absent, RemoveThrows
<1>3. \E t \in Command : Become(c, t)
  <2>1. Rejected(s, "REJECTED") \in Command /\ Rejected(s, "UNDO_REJECTED") \in Command
    BY <1>1, RejectedTyped DEF Reports, Failures
  <2>2. [s EXCEPT !.todo = @ \ {a}] \in Command
    BY <1>1, CommandShape DEF Command
  <2>3. QED
    BY <2>1, <2>2 DEF Underive
<1>4. PICK t \in Command : Become(c, t)
  BY <1>3
<1>5. cmd[c].pc \notin Resting
  BY <1>1 DEF Resting
<1> HIDE DEF s, a
<1>6. QED
  BY <1>2, <1>4, <1>5, StepTyped DEF TypeInv

\* A deletion leaves the store smaller and the chain typed.
LEMMA DeletedTyped ==
  ASSUME TypeInv, NEW s \in Command, s.run \in Runs, NEW o, NEW reason, NEW ordinal,
         Deleted(s, o, reason, ordinal)
  PROVE  /\ o \in store /\ store' = store \ {o} /\ latest' \in Times /\ audit \subseteq audit'
         /\ \A e \in audit' \ audit : e.run \in Runs /\ e.type = "RAW_OBJECT_DELETED"
<1> DEFINE e == Event(s, "RAW_OBJECT_DELETED", o, reason, ordinal)
<1>1. Removed(o) /\ (Appended(s, e) \/ Refused(s, e))
  BY DEF Deleted
<1>2. e.run = s.run /\ e.type = "RAW_OBJECT_DELETED"
  BY DEF Event
<1> HIDE DEF e
<1>3. QED
  BY <1>1, <1>2, Audited DEF Removed

LEMMA RollbackTyped ==
  ASSUME TypeInv, Sound, NEW c \in Commands, Rollback(c)
  PROVE  TypeInv'
<1> DEFINE s == cmd[c]
           o == LastOf(s.todo, Needs[s.run])
           ordinal == Cardinality(Owned(s.known)) - Cardinality(s.todo)
<1>1. s \in Command /\ s.pc = "rollback" /\ s.run \in Runs
  BY DEF TypeInv, Rollback, Sound, CommandSound, PlaceSound
<1>2. /\ fault' = fault /\ clock' = clock /\ makers' = makers /\ stray' = stray
      /\ \/ Deleted(s, o, "ROLLBACK", ordinal)
         \/ (Absent(o) \/ RemoveThrows(o)) /\ UNCHANGED <<audit, latest>>
  BY DEF Rollback
<1>3. \E t \in Command : Become(c, t)
  <2>1. [s EXCEPT !.todo = @ \ {o}] \in Command
    BY <1>1, CommandShape DEF Command
  <2>2. [s EXCEPT !.todo = @ \ {o}, !.report = "ROLLBACK_REJECTED"] \in Command
    BY <1>1, CommandShape DEF Command, Reports, Failures
  <2>3. QED
    BY <2>1, <2>2 DEF Rollback
<1>4. PICK t \in Command : Become(c, t)
  BY <1>3
<1>5. cmd[c].pc \notin Resting
  BY <1>1 DEF Resting
<1> HIDE DEF s, o, ordinal
<1>6. /\ store' \subseteq store /\ latest' \in Times
      /\ \A e \in audit' \ audit : e.run \in Runs /\ e.type \in EventTypes
  BY <1>1, <1>2, DeletedTyped DEF TypeInv, EventTypes, Absent, RemoveThrows
<1>7. QED
  BY <1>2, <1>4, <1>5, <1>6, StepTyped DEF TypeInv

LEMMA RollbackEndsTyped ==
  ASSUME TypeInv, NEW c \in Commands, RollbackEnds(c)
  PROVE  TypeInv'
<1> DEFINE s == cmd[c]
<1>1. s \in Command /\ s.pc = "rollback" /\ s.time \in Times /\ s.report \in Reports
  BY CommandShape DEF TypeInv, RollbackEnds
<1>2. /\ fault' = fault /\ clock' = clock /\ store' = store
      /\ audit' = audit /\ makers' = makers /\ stray' = stray
      /\ Become(c, Cleaning(s, s.report))
  BY DEF RollbackEnds
<1>3. latest' \in Times
  BY <1>1 DEF RollbackEnds, TypeInv
<1>4. Cleaning(s, s.report) \in Command
  BY <1>1, RejectedTyped
<1>5. cmd[c].pc \notin Resting
  BY <1>1 DEF Resting
<1>6. QED
  BY <1>2, <1>3, <1>4, <1>5, StepTyped DEF TypeInv

LEMMA CleanupTyped ==
  ASSUME TypeInv, Sound, NEW c \in Commands, Cleanup(c)
  PROVE  TypeInv'
<1> DEFINE s == cmd[c]
           o == LastOf(s.todo, Needs[s.run])
<1>1. s \in Command /\ s.pc = "cleanup" /\ s.run \in Runs
  BY DEF TypeInv, Cleanup, Sound, CommandSound, PlaceSound
<1>2. /\ fault' = fault /\ clock' = clock /\ makers' = makers /\ stray' = stray
      /\ \/ Deleted(s, o, "CLEANUP", 0)
         \/ (Absent(o) \/ RemoveThrows(o)) /\ UNCHANGED <<audit, latest>>
  BY DEF Cleanup
<1>3. \E t \in Command : Become(c, t) /\ t.pc = "cleanup" /\ t.pause = s.pause
  <2>1. [s EXCEPT !.todo = @ \ {o}] \in Command
    BY <1>1, CommandShape DEF Command
  <2>2. [s EXCEPT !.todo = @ \ {o}, !.report = "CLEANUP_REJECTED"] \in Command
    BY <1>1, CommandShape DEF Command, Reports, Failures
  <2>3. \A t \in {[s EXCEPT !.todo = @ \ {o}],
                  [s EXCEPT !.todo = @ \ {o}, !.report = "CLEANUP_REJECTED"]} :
          t.pc = "cleanup" /\ t.pause = s.pause
    BY <1>1, CommandShape DEF Command
  <2>4. QED
    BY <2>1, <2>2, <2>3 DEF Cleanup
<1>4. PICK t \in Command : Become(c, t) /\ t.pc = "cleanup" /\ t.pause = cmd[c].pause
  BY <1>3
<1> HIDE DEF s, o
<1>5. /\ store' \subseteq store /\ latest' \in Times
      /\ \A e \in audit' \ audit : e.run \in Runs /\ e.type \in EventTypes
  BY <1>1, <1>2, DeletedTyped DEF TypeInv, EventTypes, Absent, RemoveThrows
<1>6. t.pc \in Resting
  BY <1>4 DEF Resting
<1>7. QED
  BY <1>2, <1>4, <1>5, <1>6, StepTyped DEF TypeInv

LEMMA CleanupEndsTyped ==
  ASSUME TypeInv, NEW c \in Commands, CleanupEnds(c)
  PROVE  TypeInv'
<1> DEFINE t == Ended(cmd[c], cmd[c].report)
<1>1. cmd[c] \in Command /\ cmd[c].report \in Reports
  BY CommandShape DEF TypeInv
<1>2. /\ fault' = fault /\ clock' = clock /\ store' = store /\ latest' = latest
      /\ audit' = audit /\ makers' = makers /\ stray' = stray /\ Become(c, t)
  BY DEF CleanupEnds
<1>3. t \in Command
  BY <1>1, EndedTyped
<1>4. t.pc \in Resting /\ t.pause = cmd[c].pause
  BY DEF Ended, Fresh, Resting
<1> HIDE DEF t
<1>5. QED
  BY <1>2, <1>3, <1>4, StepTyped DEF TypeInv

LEMMA PauseTyped ==
  ASSUME TypeInv, Sound, NEW c \in Commands, Pause(c)
  PROVE  TypeInv'
<1> DEFINE s == cmd[c]
           p == [run |-> s.run, after |-> clock + 1, stored |-> s.known]
           t == [s EXCEPT !.pc = "pause", !.pause = p]
<1>1. s \in Command /\ s.pc \in {"source", "walk"} /\ s.run \in Runs
  BY DEF TypeInv, Pause, Sound, CommandSound, PlaceSound
<1>2. /\ fault' = fault /\ clock' = clock /\ store' = store /\ latest' = latest
      /\ audit' = audit /\ makers' = makers /\ stray' = stray /\ Become(c, t)
  BY DEF Pause
<1>3. p \in Pauses
  <2>1. clock + 1 \in Nat
    BY AcquisitionAssumption DEF TypeInv, Times
  <2>2. QED
    BY <1>1, <2>1, CommandShape DEF Pauses
<1>4. t \in Command
  BY <1>1, <1>3, CommandShape DEF Command, Phases
<1>5. cmd[c].pc \notin Resting
  BY <1>1 DEF Resting
<1> HIDE DEF s, p, t
<1>6. QED
  BY <1>2, <1>4, <1>5, StepTyped DEF TypeInv

LEMMA PutPauseTyped ==
  ASSUME TypeInv, NEW c \in Commands, PutPause(c)
  PROVE  TypeInv'
<1> DEFINE s == cmd[c]
           n == [s EXCEPT !.pc = "note", !.own = s.pause \notin store]
<1>1. s \in Command /\ s.pc = "pause"
  BY DEF TypeInv, PutPause
<1>2. /\ fault' = fault /\ clock' = clock /\ latest' = latest
      /\ audit' = audit /\ makers' = makers /\ stray' = stray
  BY DEF PutPause
<1>3. \E t \in Command : /\ Become(c, t)
                         /\ \/ store' \subseteq store
                            \/ /\ store' \subseteq store \cup {s.pause}
                               /\ t.pc \in Resting /\ t.pause = s.pause
  <2>1. n \in Command /\ n.pc \in Resting /\ n.pause = s.pause
    BY <1>1, CommandShape DEF Command, Phases, Resting
  <2>2. Ended(s, "CHECKPOINT_REJECTED") \in Command
    BY <1>1, EndedTyped DEF Reports, Failures
  <2>3. /\ Cleaning(s, "REJECTED") \in Command
        /\ Cleaning(s, "REJECTED").pc \in Resting /\ Cleaning(s, "REJECTED").pause = s.pause
    BY <1>1, RejectedTyped, CommandShape DEF Reports, Cleaning, Resting, Command
  <2>4. QED
    BY <2>1, <2>2, <2>3 DEF PutPause, Stored, PutThrows
<1>4. PICK t \in Command : /\ Become(c, t)
                           /\ \/ store' \subseteq store
                              \/ /\ store' \subseteq store \cup {s.pause}
                                 /\ t.pc \in Resting /\ t.pause = s.pause
  BY <1>3
<1>5. cmd[c].pc \notin Resting
  BY <1>1 DEF Resting
<1>6. latest' \in Times
  BY <1>2 DEF TypeInv
<1> HIDE DEF s, n
<1>7. CASE store' \subseteq store
  BY <1>2, <1>4, <1>5, <1>6, <1>7, StepTyped DEF TypeInv
<1>8. CASE store' \subseteq store \cup {s.pause} /\ t.pc \in Resting /\ t.pause = s.pause
  <2>1. store' \subseteq store \cup {t.pause}
    BY <1>8
  <2>2. {t.pause} \subseteq Objects \cup Artifacts
                              \cup (IF t.pc \in Resting THEN {t.pause} ELSE {})
    BY <1>8
  <2>3. QED
    BY <1>2, <1>4, <1>5, <1>6, <2>1, <2>2, StepTyped DEF TypeInv
<1>9. QED
  BY <1>4, <1>7, <1>8

LEMMA NotePauseTyped ==
  ASSUME TypeInv, Sound, NEW c \in Commands, NotePause(c)
  PROVE  TypeInv'
<1> DEFINE s == cmd[c]
           e == Event(s, "RUN_PAUSED", s.pause, "NONE", 0)
<1>1. s \in Command /\ s.pc = "note" /\ s.run \in Runs
  BY DEF TypeInv, NotePause, Sound, CommandSound, PlaceSound
<1>2. /\ fault' = fault /\ clock' = clock /\ store' \subseteq store
      /\ makers' = makers /\ stray' = stray /\ (Appended(s, e) \/ Refused(s, e))
  BY DEF NotePause, Removed, Absent, RemoveThrows
<1>3. e.run \in Runs /\ e.type \in EventTypes
  BY <1>1 DEF Event, EventTypes
<1>4. \E t \in Command : Become(c, t) /\ t.pc \in Resting /\ t.pause = s.pause
  <2>1. /\ Cleaning(s, "REJECTED") \in Command
        /\ Cleaning(s, "REJECTED").pc \in Resting /\ Cleaning(s, "REJECTED").pause = s.pause
    BY <1>1, RejectedTyped, CommandShape DEF Reports, Cleaning, Resting, Command
  <2>2. /\ Ended(s, "PAUSED") \in Command
        /\ Ended(s, "PAUSED").pc \in Resting /\ Ended(s, "PAUSED").pause = s.pause
    BY <1>1, EndedTyped DEF Reports, Ended, Fresh, Resting
  <2>3. QED
    BY <2>1, <2>2 DEF NotePause
<1>5. PICK t \in Command : Become(c, t) /\ t.pc \in Resting /\ t.pause = s.pause
  BY <1>4
<1>6. t.pause = cmd[c].pause
  BY <1>5
<1> HIDE DEF e, s
<1>7. latest' \in Times /\ \A f \in audit' \ audit : f.run \in Runs /\ f.type \in EventTypes
  BY <1>1, <1>2, <1>3, Audited
<1>8. QED
  BY <1>2, <1>5, <1>6, <1>7, StepTyped DEF TypeInv

LEMMA CrashTyped ==
  ASSUME TypeInv, NEW c \in Commands, Crash(c)
  PROVE  TypeInv'
<1>1. cmd[c] \in Command
  BY DEF TypeInv
<1>2. /\ fault' = fault /\ clock' = clock /\ store' = store /\ latest' = latest
      /\ audit' = audit /\ makers' = makers /\ stray' = stray /\ Become(c, Crashed(cmd[c]))
  BY DEF Crash
<1>3. Crashed(cmd[c]) \in Command
  BY <1>1, EndedTyped DEF Reports
<1>4. Crashed(cmd[c]).pc \in Resting /\ Crashed(cmd[c]).pause = cmd[c].pause
  BY DEF Crashed, Fresh, Resting
<1>5. QED
  BY <1>2, <1>3, <1>4, StepTyped DEF TypeInv

LEMMA TickTyped ==
  ASSUME TypeInv, Tick
  PROVE  TypeInv'
<1>1. clock' \in Times
  BY AcquisitionAssumption DEF Tick, TypeInv, Times
<1>2. Kept' = Kept
  BY DEF Tick, Kept
<1>3. QED
  BY <1>1, <1>2 DEF Tick, TypeInv

\* A checkpoint that is resumed is one.
LEMMA ResumedPause ==
  ASSUME TypeInv, Sound, NEW d \in Commands, cmd[d].report = "PAUSED"
  PROVE  cmd[d].pause \in Pauses
BY CommandShape DEF TypeInv, Sound, CommandSound, PauseSound

LEMMA NextTypes ==
  ASSUME TypeInv, Sound, [Next]_vars
  PROVE  TypeInv'
<1>1. CASE Tick
  BY <1>1, TickTyped
<1>2. ASSUME NEW c \in Commands, Step(c)
      PROVE  TypeInv'
  <2>1. CASE \E r \in Runs : Run(c, r)
    BY <2>1, RunTyped
  <2>2. CASE \E d \in Commands : cmd[d].report = "PAUSED" /\ Resume(c, cmd[d].pause)
    BY <2>2, ResumeTyped, ResumedPause
  <2>3. CASE NoteResume(c) \/ Source(c) \/ Start(c) \/ Put(c) \/ NoteObject(c) \/ Undo(c)
    BY <2>3, NoteResumeTyped, SourceTyped, StartTyped, PutTyped, NoteObjectTyped, UndoTyped
  <2>4. CASE Reject(c) \/ Derive(c) \/ Complete(c) \/ Underive(c) \/ Rollback(c)
    BY <2>4, RejectTyped, DeriveTyped, CompleteTyped, UnderiveTyped, RollbackTyped
  <2>5. CASE RollbackEnds(c) \/ Cleanup(c) \/ CleanupEnds(c)
    BY <2>5, RollbackEndsTyped, CleanupTyped, CleanupEndsTyped
  <2>6. CASE Pause(c) \/ PutPause(c) \/ NotePause(c) \/ Crash(c)
    BY <2>6, PauseTyped, PutPauseTyped, NotePauseTyped, CrashTyped
  <2>7. QED
    BY <1>2, <2>1, <2>2, <2>3, <2>4, <2>5, <2>6 DEF Step
<1>3. CASE UNCHANGED vars
  <2>1. Kept' = Kept
    BY <1>3 DEF vars, Kept
  <2>2. QED
    BY <1>3, <2>1 DEF vars, TypeInv
<1>4. QED
  BY <1>1, <1>2, <1>3 DEF Next

-----------------------------------------------------------------------------
(* Every command stays sound.                                              *)

Grown(m, n) == \A o \in Objects : m[o] \subseteq n[o]

LEMMA KnownGrows ==
  ASSUME NEW r, NEW known \in Seq(Verified), NEW a, NEW b, NEW m, NEW n,
         KnownSound(r, known, a, m), a \subseteq b, Grown(m, n)
  PROVE  KnownSound(r, known, b, n)
<1>1. \A i \in DOMAIN known : known[i].object \in Objects
  <2>1. \A i \in DOMAIN known : known[i] \in Verified
    OBVIOUS
  <2>2. QED
    BY <2>1 DEF Verified
<1>2. \A i \in DOMAIN known : NotedIn(b, r, known[i].object)
  BY DEF KnownSound, NotedIn
<1>3. QED
  BY <1>1, <1>2 DEF KnownSound, Grown

LEMMA CommandGrows ==
  ASSUME NEW s \in Command, NEW a, NEW b, NEW m, NEW n, NEW k \in Int, NEW l \in Int,
         CommandSound(s, a, m, k), a \subseteq b, Grown(m, n), k <= l
  PROVE  CommandSound(s, b, n, l)
<1>1. PlaceSound(s, b, n)
  <2>1. s.pc # "idle" => KnownSound(s.run, s.known, b, n)
    BY KnownGrows, CommandShape DEF CommandSound, PlaceSound
  <2>2. s.pc \in {"record", "undo"} => AtHand(s) \in Objects
    BY NextTyped DEF CommandSound, PlaceSound
  <2>3. QED
    BY <2>1, <2>2 DEF CommandSound, PlaceSound, Grown
<1>2. PauseSound(s, b, n, l)
  <2>1. s.pause # None => KnownSound(s.run, s.pause.stored, b, n)
    <3>1. s.pause # None => s.pause.stored \in Seq(Verified)
      BY CommandShape DEF Pauses
    <3>2. QED
      BY <3>1, KnownGrows DEF CommandSound, PauseSound
  <2>2. s.pc = "resume" => l >= s.pause.after
    <3>1. s.pc = "resume" => s.pause.after \in Nat
      BY CommandShape DEF Pauses, CommandSound, PauseSound
    <3>2. QED
      BY <3>1 DEF CommandSound, PauseSound
  <2>3. QED
    BY <2>1, <2>2 DEF CommandSound, PauseSound
<1>3. QED
  BY <1>1, <1>2 DEF CommandSound

\* A step that turns a command into a sound state leaves every command sound.
LEMMA Lift ==
  ASSUME TypeInv, Sound, NEW c \in Commands, NEW t, Become(c, t), clock' = clock,
         audit \subseteq audit', Grown(makers, makers'),
         CommandSound(t, audit', makers', clock)
  PROVE  Sound'
<1>1. clock \in Int
  BY AcquisitionAssumption DEF TypeInv, Times
<1>2. ASSUME NEW d \in Commands
      PROVE  CommandSound(cmd'[d], audit', makers', clock')
  <2>1. CASE d = c
    BY <2>1, Becomes
  <2>2. CASE d # c
    <3>1. cmd'[d] = cmd[d] /\ cmd[d] \in Command /\ CommandSound(cmd[d], audit, makers, clock)
      BY <2>2, Becomes DEF TypeInv, Sound
    <3>2. QED
      BY <1>1, <3>1, CommandGrows
  <2>3. QED
    BY <2>1, <2>2
<1>3. QED
  BY <1>2 DEF Sound

LEMMA NothingKnown ==
  ASSUME NEW r \in Runs, NEW a, NEW m
  PROVE  KnownSound(r, << >>, a, m)
<1>1. Len(<< >>) = 0 /\ DOMAIN << >> = {}
  OBVIOUS
<1>2. QED
  BY <1>1, NeedsTyped DEF KnownSound

LEMMA RejectedSound ==
  ASSUME NEW s \in Command, NEW a, NEW m, NEW k, CommandSound(s, a, m, k), s.pc # "idle",
         NEW report, report # "PAUSED"
  PROVE  /\ CommandSound(Rejected(s, report), a, m, k)
         /\ CommandSound(Cleaning(s, report), a, m, k)
<1> DEFINE t == Rejected(s, report)
           u == Cleaning(s, report)
<1>1. /\ t.pc = "rollback" /\ t.run = s.run /\ t.time = s.time /\ t.pause = s.pause
      /\ t.from = s.from /\ t.known = s.known /\ t.made = s.made /\ t.todo = Owned(s.known)
      /\ t.report = report
  BY CommandShape DEF Rejected, Command
<1>2. /\ u.pc = "cleanup" /\ u.run = s.run /\ u.time = s.time /\ u.pause = s.pause
      /\ u.from = s.from /\ u.known = s.known /\ u.made = s.made /\ u.todo = Owned(s.known)
      /\ u.report = report
  BY CommandShape DEF Cleaning, Command
<1> HIDE DEF t, u
<1>3. PlaceSound(t, a, m) /\ PlaceSound(u, a, m)
  BY <1>1, <1>2 DEF CommandSound, PlaceSound
<1>4. TodoSound(t) /\ TodoSound(u)
  BY <1>1, <1>2 DEF CommandSound, TodoSound
<1>5. PauseSound(t, a, m, k) /\ PauseSound(u, a, m, k)
  BY <1>1, <1>2 DEF CommandSound, PauseSound
<1>6. QED
  BY <1>3, <1>4, <1>5 DEF CommandSound, t, u

LEMMA EndedSound ==
  ASSUME NEW s \in Command, NEW a, NEW m, NEW k, CommandSound(s, a, m, k), s.pc # "idle",
         NEW report, report = "PAUSED" => s.pause # None /\ PausedEvent(s.pause) \in a
  PROVE  /\ CommandSound(Ended(s, report), a, m, k)
         /\ CommandSound(Crashed(s), a, m, k)
<1> DEFINE t == Ended(s, report)
           u == Crashed(s)
<1>1. /\ t.pc = "ended" /\ t.run = s.run /\ t.pause = s.pause /\ t.from = s.from
      /\ t.known = << >> /\ t.made = {} /\ t.report = report
  BY DEF Ended, Fresh
<1>2. /\ u.pc = "crashed" /\ u.run = s.run /\ u.pause = s.pause /\ u.from = s.from
      /\ u.known = << >> /\ u.made = {} /\ u.report = "NONE"
  BY DEF Crashed, Fresh
<1> HIDE DEF t, u
<1>3. PlaceSound(t, a, m) /\ PlaceSound(u, a, m)
  BY <1>1, <1>2, NothingKnown DEF CommandSound, PlaceSound
<1>4. TodoSound(t) /\ TodoSound(u)
  BY <1>1, <1>2 DEF TodoSound
<1>5. PauseSound(t, a, m, k) /\ PauseSound(u, a, m, k)
  BY <1>1, <1>2 DEF CommandSound, PauseSound
<1>6. QED
  BY <1>3, <1>4, <1>5 DEF CommandSound, t, u

LEMMA SameMakers ==
  ASSUME makers' = makers
  PROVE  Grown(makers, makers')
BY DEF Grown

\* What is known of a command before its step.
LEMMA Before ==
  ASSUME TypeInv, Sound, NEW c \in Commands
  PROVE  cmd[c] \in Command /\ CommandSound(cmd[c], audit, makers, clock) /\ clock \in Int
BY AcquisitionAssumption DEF TypeInv, Sound, Times

LEMMA RunSound ==
  ASSUME TypeInv, Sound, NEW c \in Commands, NEW r \in Runs, Run(c, r)
  PROVE  Sound'
<1> DEFINE t == [Fresh EXCEPT !.pc = "source", !.run = r, !.time = clock]
<1>1. /\ t.pc = "source" /\ t.run = r /\ t.known = << >> /\ t.pause = None /\ t.from = None
      /\ t.made = {} /\ t.report = "NONE"
  BY DEF Fresh
<1>2. /\ Become(c, t) /\ clock' = clock /\ audit' = audit /\ makers' = makers
  BY DEF Run
<1> HIDE DEF t
<1>3. CommandSound(t, audit, makers, clock)
  BY <1>1, NothingKnown DEF CommandSound, PlaceSound, TodoSound, PauseSound
<1>4. QED
  BY <1>2, <1>3, Lift, SameMakers

LEMMA ResumeSound ==
  ASSUME TypeInv, Sound, NEW c \in Commands, NEW d \in Commands, cmd[d].report = "PAUSED",
         Resume(c, cmd[d].pause)
  PROVE  Sound'
<1> DEFINE k == cmd[d].pause
           t == [Fresh EXCEPT !.pc = "resume", !.run = k.run, !.time = clock,
                             !.pause = k, !.known = k.stored]
<1>1. /\ t.pc = "resume" /\ t.run = k.run /\ t.known = k.stored /\ t.pause = k
      /\ t.from = None /\ t.made = {} /\ t.report = "NONE"
  BY DEF Fresh
<1>2. /\ Become(c, t) /\ clock' = clock /\ audit' = audit /\ makers' = makers /\ clock >= k.after
  BY DEF Resume
<1>3. /\ k # None /\ k \in Pauses /\ k.run \in Runs /\ KnownSound(k.run, k.stored, audit, makers)
      /\ PausedEvent(k) \in audit
  BY ResumedPause, Before DEF CommandSound, PauseSound, Pauses
<1> HIDE DEF t, k
<1>4. CommandSound(t, audit, makers, clock)
  BY <1>1, <1>2, <1>3 DEF CommandSound, PlaceSound, TodoSound, PauseSound
<1>5. QED
  BY <1>2, <1>4, Lift, SameMakers

LEMMA NoteResumeSound ==
  ASSUME TypeInv, Sound, NEW c \in Commands, NoteResume(c)
  PROVE  Sound'
<1> DEFINE s == cmd[c]
           e == Event(s, "RUN_RESUMED", s.pause, "NONE", 0)
           t == [s EXCEPT !.pc = "source", !.from = s.pause]
<1>1. /\ s \in Command /\ s.pc = "resume" /\ CommandSound(s, audit, makers, clock)
      /\ clock \in Int
  BY Before DEF NoteResume
<1>2. /\ clock' = clock /\ makers' = makers /\ (Appended(s, e) \/ Refused(s, e))
  BY DEF NoteResume
<1>3. audit \subseteq audit'
  BY <1>1, <1>2, Audited
<1>4. CommandSound(s, audit', makers, clock)
  BY <1>1, <1>3, CommandGrows DEF Grown
<1>5. CASE Appended(s, e) /\ Become(c, t)
  <2>1. /\ t.pc = "source" /\ t.run = s.run /\ t.time = s.time /\ t.known = s.known
        /\ t.pause = s.pause /\ t.from = s.pause /\ t.made = s.made /\ t.report = s.report
    BY <1>1, CommandShape
  <2>2. ResumedEvent(s.pause) \in audit' /\ s.pause # None
    <3>1. e \in audit' /\ s.pause.run = s.run /\ s.pause # None
      BY <1>1, <1>5 DEF Appended, CommandSound, PauseSound
    <3>2. QED
      BY <3>1 DEF Event, ResumedEvent, PauseEvent
  <2> HIDE DEF t, e
  <2>3. s.report = "NONE"
    BY <1>1 DEF CommandSound, TodoSound
  <2> HIDE DEF s
  <2>4. CommandSound(t, audit', makers, clock)
    BY <1>1, <1>4, <2>1, <2>2, <2>3 DEF CommandSound, PlaceSound, TodoSound, PauseSound
  <2>5. QED
    BY <1>2, <1>3, <1>5, <2>4, Lift, SameMakers
<1>6. CASE Become(c, Cleaning(s, "REJECTED"))
  <2>1. CommandSound(Cleaning(s, "REJECTED"), audit', makers, clock)
    BY <1>1, <1>4, RejectedSound
  <2>2. QED
    BY <1>2, <1>3, <1>6, <2>1, Lift, SameMakers
<1>7. QED
  BY <1>5, <1>6 DEF NoteResume

LEMMA SourceSound ==
  ASSUME TypeInv, Sound, NEW c \in Commands, Source(c)
  PROVE  Sound'
<1> DEFINE s == cmd[c]
           t == [s EXCEPT !.pc = IF s.from = None THEN "start" ELSE "walk"]
<1>1. s \in Command /\ s.pc = "source" /\ CommandSound(s, audit, makers, clock)
  BY Before DEF Source
<1>2. clock' = clock /\ audit' = audit /\ makers' = makers
  BY DEF Source
<1>3. CommandSound(t, audit, makers, clock)
  <2>1. /\ t.pc = (IF s.from = None THEN "start" ELSE "walk")
        /\ t.run = s.run /\ t.time = s.time /\ t.known = s.known
        /\ t.pause = s.pause /\ t.from = s.from /\ t.made = s.made /\ t.report = s.report
    BY <1>1, CommandShape
  <2> HIDE DEF t, s
  <2>2. QED
    BY <1>1, <2>1 DEF CommandSound, PlaceSound, TodoSound, PauseSound
<1>4. /\ CommandSound(Ended(s, "REJECTED"), audit, makers, clock)
      /\ CommandSound(Cleaning(s, "REJECTED"), audit, makers, clock)
  BY <1>1, EndedSound, RejectedSound
<1>5. PICK u : Become(c, u) /\ CommandSound(u, audit, makers, clock)
  BY <1>3, <1>4 DEF Source
<1>6. QED
  BY <1>2, <1>5, Lift, SameMakers

LEMMA StartSound ==
  ASSUME TypeInv, Sound, NEW c \in Commands, Start(c)
  PROVE  Sound'
<1> DEFINE s == cmd[c]
           t == [s EXCEPT !.pc = "walk"]
<1>1. s \in Command /\ s.pc = "start" /\ CommandSound(s, audit, makers, clock)
  BY Before DEF Start
<1>2. clock' = clock /\ audit' = audit /\ makers' = makers
  BY DEF Start
<1>3. CommandSound(t, audit, makers, clock)
  <2>1. /\ t.pc = "walk" /\ t.run = s.run /\ t.time = s.time /\ t.known = s.known
        /\ t.pause = s.pause /\ t.from = s.from /\ t.made = s.made /\ t.report = s.report
    BY <1>1, CommandShape
  <2> HIDE DEF t, s
  <2>2. QED
    BY <1>1, <2>1 DEF CommandSound, PlaceSound, TodoSound, PauseSound
<1>4. CommandSound(Ended(s, "REJECTED"), audit, makers, clock)
  BY <1>1, EndedSound
<1>5. PICK u : Become(c, u) /\ CommandSound(u, audit, makers, clock)
  BY <1>3, <1>4 DEF Start
<1>6. QED
  BY <1>2, <1>5, Lift, SameMakers

LEMMA PutSound ==
  ASSUME TypeInv, Sound, NEW c \in Commands, Put(c)
  PROVE  Sound'
<1> DEFINE s == cmd[c]
           o == Needs[s.run][Len(s.known) + 1]
           t == [s EXCEPT !.pc = "record", !.own = o \notin store]
<1>1. /\ s \in Command /\ s.pc = "walk" /\ CommandSound(s, audit, makers, clock)
      /\ clock \in Int /\ s.run \in Runs /\ Len(s.known) < Len(Needs[s.run])
  BY Before DEF Put, CommandSound, PlaceSound
<1>2. o \in Objects /\ o = AtHand(s)
  BY <1>1, NextTyped DEF AtHand
<1>3. /\ clock' = clock /\ audit' = audit
      /\ makers' = (IF store' = store THEN makers ELSE [makers EXCEPT ![o] = @ \cup {s.run}])
  BY DEF Put
<1>4. Grown(makers, makers')
  BY <1>2, <1>3 DEF Grown, TypeInv
<1>5. CommandSound(s, audit, makers', clock)
  BY <1>1, <1>4, CommandGrows
<1>6. CASE Stored(o) /\ Become(c, t)
  <2>1. o \notin store => s.run \in makers'[o]
    BY <1>2, <1>3, <1>6 DEF Stored, TypeInv
  <2>2. /\ t.pc = "record" /\ t.run = s.run /\ t.time = s.time /\ t.known = s.known
        /\ t.pause = s.pause /\ t.from = s.from /\ t.made = s.made /\ t.report = s.report
        /\ t.own = (o \notin store)
    BY <1>1, CommandShape
  <2>3. AtHand(t) = o
    BY <2>2 DEF AtHand
  <2> HIDE DEF t, o
  <2>4. t.own => s.run \in makers'[AtHand(t)]
    BY <2>1, <2>2, <2>3
  <2> HIDE DEF s
  <2>5. CommandSound(t, audit, makers', clock)
    BY <1>1, <1>5, <2>2, <2>4 DEF CommandSound, PlaceSound, TodoSound, PauseSound
  <2>6. QED
    BY <1>3, <1>4, <1>6, <2>5, Lift
<1>7. CASE Become(c, Rejected(s, "REJECTED"))
  <2>1. CommandSound(Rejected(s, "REJECTED"), audit, makers', clock)
    BY <1>1, <1>5, RejectedSound
  <2>2. QED
    BY <1>3, <1>4, <1>7, <2>1, Lift
<1>8. QED
  BY <1>6, <1>7 DEF Put

\* One more object is known.
LEMMA KnownExtends ==
  ASSUME NEW r \in Runs, NEW known \in Seq(Verified), NEW a, NEW m, NEW v \in Verified,
         KnownSound(r, known, a, m), Len(known) < Len(Needs[r]),
         v.object = Needs[r][Len(known) + 1], NotedIn(a, r, v.object),
         v.own => r \in m[v.object] /\ CreatedEvent(r, Len(known) + 1) \in a
  PROVE  KnownSound(r, Append(known, v), a, m)
<1> DEFINE more == Append(known, v)
<1>1. /\ Len(more) = Len(known) + 1 /\ DOMAIN more = 1..Len(known) + 1
      /\ more[Len(known) + 1] = v
      /\ \A n \in 1..Len(known) : more[n] = known[n]
      /\ DOMAIN known = 1..Len(known) /\ Len(known) \in Nat
  OBVIOUS
<1>2. Len(more) <= Len(Needs[r])
  BY <1>1, NeedsTyped
<1> HIDE DEF more
<1>3. ASSUME NEW n \in DOMAIN more
      PROVE  /\ more[n].object = Needs[r][n]
             /\ NotedIn(a, r, more[n].object)
             /\ more[n].own => r \in m[more[n].object] /\ CreatedEvent(r, n) \in a
  <2>1. CASE n = Len(known) + 1
    BY <1>1, <2>1
  <2>2. CASE n # Len(known) + 1
    <3>1. n \in DOMAIN known /\ more[n] = known[n]
      BY <1>1, <2>2
    <3>2. QED
      BY <3>1 DEF KnownSound
  <2>3. QED
    BY <2>1, <2>2
<1>4. KnownSound(r, more, a, m)
  BY <1>2, <1>3 DEF KnownSound
<1>5. QED
  BY <1>4 DEF more

LEMMA NoteObjectSound ==
  ASSUME TypeInv, Sound, NEW c \in Commands, NoteObject(c)
  PROVE  Sound'
<1> DEFINE s == cmd[c]
           o == Needs[s.run][Len(s.known) + 1]
           e == Event(s, "RAW_OBJECT_CREATED", o, IF s.own THEN "STORED" ELSE "REUSED",
                      Len(s.known))
           v == [object |-> o, own |-> s.own]
           t == [s EXCEPT !.pc = "walk", !.own = FALSE, !.known = Append(@, v)]
           u == [s EXCEPT !.pc = "undo"]
<1>1. /\ s \in Command /\ s.pc = "record" /\ CommandSound(s, audit, makers, clock)
      /\ clock \in Int /\ s.run \in Runs /\ Len(s.known) < Len(Needs[s.run])
      /\ s.known \in Seq(Verified) /\ s.own \in BOOLEAN
  BY Before, CommandShape DEF NoteObject, CommandSound, PlaceSound
<1>2. o \in Objects /\ o = AtHand(s)
  BY <1>1, NextTyped DEF AtHand
<1>3. /\ clock' = clock /\ makers' = makers /\ (Appended(s, e) \/ Refused(s, e))
  BY DEF NoteObject
<1>4. audit \subseteq audit'
  BY <1>1, <1>3, Audited
<1>5. CommandSound(s, audit', makers, clock)
  BY <1>1, <1>4, CommandGrows DEF Grown
<1>6. CASE Appended(s, e) /\ Become(c, t)
  <2>1. /\ t.pc = "walk" /\ t.run = s.run /\ t.time = s.time /\ t.known = Append(s.known, v)
        /\ t.pause = s.pause /\ t.from = s.from /\ t.made = s.made /\ t.report = s.report
    BY <1>1, CommandShape
  <2>2. e \in audit'
    BY <1>6 DEF Appended
  <2>3. NotedIn(audit', s.run, o)
    BY <2>2 DEF NotedIn, Event
  <2>4. s.own => CreatedEvent(s.run, Len(s.known) + 1) \in audit'
    <3>1. Len(s.known) + 1 - 1 = Len(s.known)
      BY <1>1
    <3>2. s.own => e = CreatedEvent(s.run, Len(s.known) + 1)
      BY <3>1 DEF Event, CreatedEvent
    <3>3. QED
      BY <2>2, <3>2
  <2>5. s.own => s.run \in makers[o]
    BY <1>1, <1>2 DEF CommandSound, PlaceSound
  <2>6. v \in Verified /\ v.object = o /\ v.own = s.own
    BY <1>1, <1>2 DEF Verified
  <2>7. KnownSound(s.run, s.known, audit', makers)
    BY <1>1, <1>5 DEF CommandSound, PlaceSound
  <2> HIDE DEF t, v, e
  <2>8. KnownSound(s.run, Append(s.known, v), audit', makers)
    BY <1>1, <2>3, <2>4, <2>5, <2>6, <2>7, KnownExtends
  <2> HIDE DEF s, o
  <2>9. CommandSound(t, audit', makers, clock)
    BY <1>1, <1>5, <2>1, <2>8 DEF CommandSound, PlaceSound, TodoSound, PauseSound
  <2>10. QED
    BY <1>3, <1>4, <1>6, <2>9, Lift, SameMakers
<1>7. CASE Become(c, IF s.own THEN u ELSE Rejected(s, "REJECTED"))
  <2>1. /\ u.pc = "undo" /\ u.run = s.run /\ u.time = s.time /\ u.known = s.known
        /\ u.pause = s.pause /\ u.from = s.from /\ u.made = s.made /\ u.report = s.report
        /\ u.own = s.own
    BY <1>1, CommandShape
  <2>2. AtHand(u) = AtHand(s)
    BY <2>1 DEF AtHand
  <2>3. CommandSound(Rejected(s, "REJECTED"), audit', makers, clock)
    BY <1>1, <1>5, RejectedSound
  <2> HIDE DEF u, s, o, e
  <2>4. s.own => CommandSound(u, audit', makers, clock)
    BY <1>1, <1>5, <2>1, <2>2 DEF CommandSound, PlaceSound, TodoSound, PauseSound
  <2>5. QED
    BY <1>3, <1>4, <1>7, <2>3, <2>4, Lift, SameMakers
<1>8. QED
  BY <1>6, <1>7 DEF NoteObject

\* What an undo has still to do with its object is of no account to the rest.
LEMMA UndoSound ==
  ASSUME TypeInv, Sound, NEW c \in Commands, Undo(c)
  PROVE  Sound'
<1> DEFINE s == cmd[c]
           t == [s EXCEPT !.own = FALSE]
<1>1. s \in Command /\ s.pc = "undo" /\ CommandSound(s, audit, makers, clock)
  BY Before DEF Undo
<1>2. clock' = clock /\ audit' = audit /\ makers' = makers
  BY DEF Undo
<1>3. \A report : Rejected(t, report) = [Rejected(s, report) EXCEPT !.own = FALSE]
  BY <1>1 DEF Rejected, Command
<1>4. ASSUME NEW report \in {"REJECTED", "UNDO_REJECTED"}
      PROVE  CommandSound(Rejected(t, report), audit, makers, clock)
  <2> DEFINE u == Rejected(s, report)
             w == Rejected(t, report)
  <2>1. CommandSound(u, audit, makers, clock)
    BY <1>1, RejectedSound
  <2>2. /\ u.pc = "rollback" /\ w.pc = u.pc /\ w.run = u.run /\ w.time = u.time
        /\ w.known = u.known /\ w.pause = u.pause /\ w.from = u.from /\ w.made = u.made
        /\ w.todo = u.todo /\ w.report = u.report
    BY <1>1, <1>3, CommandShape DEF Rejected
  <2> HIDE DEF u, w
  <2>3. CommandSound(w, audit, makers, clock)
    BY <2>1, <2>2 DEF CommandSound, PlaceSound, TodoSound, PauseSound
  <2>4. QED
    BY <2>3 DEF w
<1>5. PICK w : Become(c, w) /\ CommandSound(w, audit, makers, clock)
  BY <1>4 DEF Undo
<1>6. QED
  BY <1>2, <1>5, Lift, SameMakers

LEMMA RejectSound ==
  ASSUME TypeInv, Sound, NEW c \in Commands, Reject(c)
  PROVE  Sound'
<1>1. cmd[c] \in Command /\ cmd[c].pc = "walk" /\ CommandSound(cmd[c], audit, makers, clock)
  BY Before DEF Reject
<1>2. /\ clock' = clock /\ audit' = audit /\ makers' = makers
      /\ Become(c, Rejected(cmd[c], "REJECTED"))
  BY DEF Reject
<1>3. CommandSound(Rejected(cmd[c], "REJECTED"), audit, makers, clock)
  BY <1>1, RejectedSound
<1>4. QED
  BY <1>2, <1>3, Lift, SameMakers

LEMMA DeriveSound ==
  ASSUME TypeInv, Sound, NEW c \in Commands, Derive(c)
  PROVE  Sound'
<1> DEFINE s == cmd[c]
           a == Derived(s.run, s.time)[s.step]
           u == [s EXCEPT !.made = IF a \in store THEN @ ELSE @ \cup {a}]
           t == IF s.step = 3 THEN [u EXCEPT !.pc = "complete"] ELSE [u EXCEPT !.step = @ + 1]
           w == [s EXCEPT !.pc = "underive", !.todo = s.made]
<1>1. /\ s \in Command /\ s.pc = "walk" /\ CommandSound(s, audit, makers, clock)
      /\ Len(s.known) = Len(Needs[s.run])
  BY Before DEF Derive
<1>2. clock' = clock /\ audit' = audit /\ makers' = makers
  BY DEF Derive
<1>3. CommandSound(t, audit, makers, clock)
  <2>1. /\ u.pc = "walk" /\ u.run = s.run /\ u.time = s.time /\ u.known = s.known
        /\ u.pause = s.pause /\ u.from = s.from /\ u.report = s.report
        /\ u.made \in {s.made, s.made \cup {a}}
    BY <1>1, CommandShape
  <2>2. /\ t.pc \in {"walk", "complete"} /\ t.run = s.run /\ t.time = s.time
        /\ t.known = s.known /\ t.pause = s.pause /\ t.from = s.from /\ t.report = s.report
        /\ t.made \in {s.made, s.made \cup {a}}
    BY <1>1, CommandShape
  <2>3. a \in {Derived(s.run, s.time)[n] : n \in 1..3}
    BY <1>1, CommandShape
  <2> HIDE DEF t, u, a, s
  <2>4. PlaceSound(t, audit, makers) /\ PauseSound(t, audit, makers, clock)
    BY <1>1, <2>2 DEF CommandSound, PlaceSound, PauseSound
  <2>5. TodoSound(t)
    BY <1>1, <2>2, <2>3 DEF CommandSound, TodoSound
  <2>6. QED
    BY <2>4, <2>5 DEF CommandSound
<1>4. CommandSound(w, audit, makers, clock)
  <2>1. /\ w.pc = "underive" /\ w.run = s.run /\ w.time = s.time /\ w.known = s.known
        /\ w.pause = s.pause /\ w.from = s.from /\ w.made = s.made /\ w.report = s.report
        /\ w.todo = s.made
    BY <1>1, CommandShape
  <2> HIDE DEF w, s
  <2>2. QED
    BY <1>1, <2>1 DEF CommandSound, PlaceSound, TodoSound, PauseSound
<1>5. PICK x : Become(c, x) /\ CommandSound(x, audit, makers, clock)
  <2>1. Become(c, t) \/ Become(c, w)
    BY DEF Derive
  <2> HIDE DEF t, w
  <2>2. QED
    BY <1>3, <1>4, <2>1
<1>6. QED
  BY <1>2, <1>5, Lift, SameMakers

LEMMA CompleteSound ==
  ASSUME TypeInv, Sound, NEW c \in Commands, Complete(c)
  PROVE  Sound'
<1> DEFINE s == cmd[c]
           e == Event(s, "DRAFT_COMPLETED", Derived(s.run, s.time)[3], "NONE", 0)
           w == [s EXCEPT !.pc = "underive", !.todo = s.made]
<1>1. /\ s \in Command /\ s.pc = "complete" /\ CommandSound(s, audit, makers, clock)
      /\ clock \in Int
  BY Before DEF Complete
<1>2. /\ clock' = clock /\ makers' = makers /\ (Appended(s, e) \/ Refused(s, e))
  BY DEF Complete
<1>3. audit \subseteq audit'
  BY <1>1, <1>2, Audited
<1>4. CommandSound(s, audit', makers, clock)
  BY <1>1, <1>3, CommandGrows DEF Grown
<1>5. CommandSound(w, audit', makers, clock)
  <2>1. /\ w.pc = "underive" /\ w.run = s.run /\ w.time = s.time /\ w.known = s.known
        /\ w.pause = s.pause /\ w.from = s.from /\ w.made = s.made /\ w.report = s.report
        /\ w.todo = s.made
    BY <1>1, CommandShape
  <2> HIDE DEF w, s, e
  <2>2. QED
    BY <1>1, <1>4, <2>1 DEF CommandSound, PlaceSound, TodoSound, PauseSound
<1>6. CommandSound(Ended(s, "DRAFT"), audit', makers, clock)
  BY <1>1, <1>4, EndedSound
<1>7. PICK x : Become(c, x) /\ CommandSound(x, audit', makers, clock)
  BY <1>5, <1>6 DEF Complete
<1>8. QED
  BY <1>2, <1>3, <1>7, Lift, SameMakers

LEMMA UnderiveSound ==
  ASSUME TypeInv, Sound, NEW c \in Commands, Underive(c)
  PROVE  Sound'
<1> DEFINE s == cmd[c]
           a == LastOf(s.todo, Derived(s.run, s.time))
           t == [s EXCEPT !.todo = @ \ {a}]
<1>1. s \in Command /\ s.pc = "underive" /\ CommandSound(s, audit, makers, clock)
  BY Before DEF Underive
<1>2. clock' = clock /\ audit' = audit /\ makers' = makers
  BY DEF Underive
<1>3. CommandSound(t, audit, makers, clock)
  <2>1. /\ t.pc = "underive" /\ t.run = s.run /\ t.time = s.time /\ t.known = s.known
        /\ t.pause = s.pause /\ t.from = s.from /\ t.made = s.made /\ t.report = s.report
        /\ t.todo \subseteq s.todo
    BY <1>1, CommandShape
  <2> HIDE DEF t, s
  <2>2. QED
    BY <1>1, <2>1 DEF CommandSound, PlaceSound, TodoSound, PauseSound
<1>4. \A report \in {"REJECTED", "UNDO_REJECTED"} :
        CommandSound(Rejected(s, report), audit, makers, clock)
  BY <1>1, RejectedSound
<1>5. PICK x : Become(c, x) /\ CommandSound(x, audit, makers, clock)
  <2> HIDE DEF t
  <2>1. \/ Become(c, t)
        \/ Become(c, Rejected(s, "REJECTED")) \/ Become(c, Rejected(s, "UNDO_REJECTED"))
    BY DEF Underive, t
  <2>2. QED
    BY <1>3, <1>4, <2>1
<1>6. QED
  BY <1>2, <1>5, Lift, SameMakers

LEMMA RollbackSound ==
  ASSUME TypeInv, Sound, NEW c \in Commands, Rollback(c)
  PROVE  Sound'
<1> DEFINE s == cmd[c]
           o == LastOf(s.todo, Needs[s.run])
           ordinal == Cardinality(Owned(s.known)) - Cardinality(s.todo)
           t == [s EXCEPT !.todo = @ \ {o}]
           u == [s EXCEPT !.todo = @ \ {o}, !.report = "ROLLBACK_REJECTED"]
<1>1. /\ s \in Command /\ s.pc = "rollback" /\ CommandSound(s, audit, makers, clock)
      /\ clock \in Int /\ s.run \in Runs
  BY Before DEF Rollback, CommandSound, PlaceSound
<1>2. /\ clock' = clock /\ makers' = makers
      /\ Deleted(s, o, "ROLLBACK", ordinal) \/ UNCHANGED <<audit, latest>>
      /\ Become(c, t) \/ Become(c, u)
  BY DEF Rollback
<1>3. /\ t.pc = "rollback" /\ t.run = s.run /\ t.time = s.time /\ t.known = s.known
      /\ t.pause = s.pause /\ t.from = s.from /\ t.made = s.made /\ t.report = s.report
      /\ t.todo \subseteq s.todo
  BY <1>1, CommandShape
<1>4. /\ u.pc = "rollback" /\ u.run = s.run /\ u.time = s.time /\ u.known = s.known
      /\ u.pause = s.pause /\ u.from = s.from /\ u.made = s.made
      /\ u.report = "ROLLBACK_REJECTED" /\ u.todo \subseteq s.todo
  BY <1>1, CommandShape
<1> HIDE DEF t, u, s, o, ordinal
<1>5. audit \subseteq audit'
  BY <1>1, <1>2, DeletedTyped
<1>6. CommandSound(s, audit', makers, clock)
  BY <1>1, <1>5, CommandGrows DEF Grown
<1>7. CommandSound(t, audit', makers, clock) /\ CommandSound(u, audit', makers, clock)
  BY <1>1, <1>3, <1>4, <1>6 DEF CommandSound, PlaceSound, TodoSound, PauseSound
<1>8. QED
  BY <1>2, <1>5, <1>7, Lift, SameMakers

LEMMA RollbackEndsSound ==
  ASSUME TypeInv, Sound, NEW c \in Commands, RollbackEnds(c)
  PROVE  Sound'
<1> DEFINE s == cmd[c]
<1>1. s \in Command /\ s.pc = "rollback" /\ CommandSound(s, audit, makers, clock)
  BY Before DEF RollbackEnds
<1>2. /\ clock' = clock /\ audit' = audit /\ makers' = makers
      /\ Become(c, Cleaning(s, s.report))
  BY DEF RollbackEnds
<1>3. s.report # "PAUSED"
  BY <1>1 DEF CommandSound, PauseSound
<1>4. CommandSound(Cleaning(s, s.report), audit, makers, clock)
  BY <1>1, <1>3, RejectedSound
<1>5. QED
  BY <1>2, <1>4, Lift, SameMakers

LEMMA CleanupSound ==
  ASSUME TypeInv, Sound, NEW c \in Commands, Cleanup(c)
  PROVE  Sound'
<1> DEFINE s == cmd[c]
           o == LastOf(s.todo, Needs[s.run])
           t == [s EXCEPT !.todo = @ \ {o}]
           u == [s EXCEPT !.todo = @ \ {o}, !.report = "CLEANUP_REJECTED"]
<1>1. /\ s \in Command /\ s.pc = "cleanup" /\ CommandSound(s, audit, makers, clock)
      /\ clock \in Int /\ s.run \in Runs
  BY Before DEF Cleanup, CommandSound, PlaceSound
<1>2. /\ clock' = clock /\ makers' = makers
      /\ Deleted(s, o, "CLEANUP", 0) \/ UNCHANGED <<audit, latest>>
      /\ Become(c, t) \/ Become(c, u)
  BY DEF Cleanup
<1>3. /\ t.pc = "cleanup" /\ t.run = s.run /\ t.time = s.time /\ t.known = s.known
      /\ t.pause = s.pause /\ t.from = s.from /\ t.made = s.made /\ t.report = s.report
      /\ t.todo \subseteq s.todo
  BY <1>1, CommandShape
<1>4. /\ u.pc = "cleanup" /\ u.run = s.run /\ u.time = s.time /\ u.known = s.known
      /\ u.pause = s.pause /\ u.from = s.from /\ u.made = s.made
      /\ u.report = "CLEANUP_REJECTED" /\ u.todo \subseteq s.todo
  BY <1>1, CommandShape
<1> HIDE DEF t, u, s, o
<1>5. audit \subseteq audit'
  BY <1>1, <1>2, DeletedTyped
<1>6. CommandSound(s, audit', makers, clock)
  BY <1>1, <1>5, CommandGrows DEF Grown
<1>7. CommandSound(t, audit', makers, clock) /\ CommandSound(u, audit', makers, clock)
  BY <1>1, <1>3, <1>4, <1>6 DEF CommandSound, PlaceSound, TodoSound, PauseSound
<1>8. QED
  BY <1>2, <1>5, <1>7, Lift, SameMakers

LEMMA CleanupEndsSound ==
  ASSUME TypeInv, Sound, NEW c \in Commands, CleanupEnds(c)
  PROVE  Sound'
<1> DEFINE s == cmd[c]
<1>1. s \in Command /\ s.pc = "cleanup" /\ CommandSound(s, audit, makers, clock)
  BY Before DEF CleanupEnds
<1>2. clock' = clock /\ audit' = audit /\ makers' = makers /\ Become(c, Ended(s, s.report))
  BY DEF CleanupEnds
<1>3. s.report # "PAUSED"
  BY <1>1 DEF CommandSound, PauseSound
<1>4. CommandSound(Ended(s, s.report), audit, makers, clock)
  BY <1>1, <1>3, EndedSound
<1>5. QED
  BY <1>2, <1>4, Lift, SameMakers

LEMMA PauseIsSound ==
  ASSUME TypeInv, Sound, NEW c \in Commands, Pause(c)
  PROVE  Sound'
<1> DEFINE s == cmd[c]
           p == [run |-> s.run, after |-> clock + 1, stored |-> s.known]
           t == [s EXCEPT !.pc = "pause", !.pause = p]
<1>1. /\ s \in Command /\ s.pc \in {"source", "walk"} /\ CommandSound(s, audit, makers, clock)
      /\ p # None
  <2>1. p \in Pauses
    <3>1. clock + 1 \in Nat
      BY AcquisitionAssumption DEF TypeInv, Times
    <3>2. s.run \in Runs /\ s.known \in Seq(Verified)
      BY Before, CommandShape DEF Pause, CommandSound, PlaceSound
    <3>3. QED
      BY <3>1, <3>2 DEF Pauses
  <2>2. QED
    BY <2>1, Before, KindAssumption DEF Pause
<1>2. clock' = clock /\ audit' = audit /\ makers' = makers /\ Become(c, t)
  BY DEF Pause
<1>3. /\ t.pc = "pause" /\ t.run = s.run /\ t.time = s.time /\ t.known = s.known
      /\ t.pause = p /\ t.from = s.from /\ t.made = s.made /\ t.report = s.report
      /\ p.run = s.run /\ p.stored = s.known
  BY <1>1, CommandShape
<1> HIDE DEF t, s, p
<1>4. CommandSound(t, audit, makers, clock)
  BY <1>1, <1>3 DEF CommandSound, PlaceSound, TodoSound, PauseSound
<1>5. QED
  BY <1>2, <1>4, Lift, SameMakers

LEMMA PutPauseSound ==
  ASSUME TypeInv, Sound, NEW c \in Commands, PutPause(c)
  PROVE  Sound'
<1> DEFINE s == cmd[c]
           t == [s EXCEPT !.pc = "note", !.own = s.pause \notin store]
<1>1. s \in Command /\ s.pc = "pause" /\ CommandSound(s, audit, makers, clock)
  BY Before DEF PutPause
<1>2. clock' = clock /\ audit' = audit /\ makers' = makers
  BY DEF PutPause
<1>3. /\ t.pc = "note" /\ t.run = s.run /\ t.time = s.time /\ t.known = s.known
      /\ t.pause = s.pause /\ t.from = s.from /\ t.made = s.made /\ t.report = s.report
  BY <1>1, CommandShape
<1>4. /\ CommandSound(Ended(s, "CHECKPOINT_REJECTED"), audit, makers, clock)
      /\ CommandSound(Cleaning(s, "REJECTED"), audit, makers, clock)
  BY <1>1, EndedSound, RejectedSound
<1>5. \/ Become(c, t) \/ Become(c, Ended(s, "CHECKPOINT_REJECTED"))
      \/ Become(c, Cleaning(s, "REJECTED"))
  BY DEF PutPause
<1> HIDE DEF t, s
<1>6. CommandSound(t, audit, makers, clock)
  BY <1>1, <1>3 DEF CommandSound, PlaceSound, TodoSound, PauseSound
<1>7. QED
  BY <1>2, <1>4, <1>5, <1>6, Lift, SameMakers

LEMMA NotePauseSound ==
  ASSUME TypeInv, Sound, NEW c \in Commands, NotePause(c)
  PROVE  Sound'
<1> DEFINE s == cmd[c]
           e == Event(s, "RUN_PAUSED", s.pause, "NONE", 0)
<1>1. /\ s \in Command /\ s.pc = "note" /\ CommandSound(s, audit, makers, clock)
      /\ clock \in Int /\ s.pause # None /\ s.pause.run = s.run
  BY Before DEF NotePause, CommandSound, PauseSound
<1>2. /\ clock' = clock /\ makers' = makers
      /\ \/ Appended(s, e) /\ Become(c, Ended(s, "PAUSED"))
         \/ Refused(s, e) /\ Become(c, Cleaning(s, "REJECTED"))
  BY DEF NotePause
<1>3. e = PausedEvent(s.pause)
  BY <1>1 DEF Event, PausedEvent, PauseEvent
<1> HIDE DEF e, s
<1>4. audit \subseteq audit' /\ (Appended(s, e) => e \in audit')
  BY <1>1, <1>2, Audited DEF Appended
<1>5. CommandSound(s, audit', makers, clock)
  BY <1>1, <1>4, CommandGrows DEF Grown
<1>6. CommandSound(Cleaning(s, "REJECTED"), audit', makers, clock)
  BY <1>1, <1>5, RejectedSound
<1>7. Appended(s, e) => CommandSound(Ended(s, "PAUSED"), audit', makers, clock)
  BY <1>1, <1>3, <1>4, <1>5, EndedSound
<1>8. QED
  BY <1>2, <1>4, <1>6, <1>7, Lift, SameMakers

LEMMA CrashSound ==
  ASSUME TypeInv, Sound, NEW c \in Commands, Crash(c)
  PROVE  Sound'
<1>1. cmd[c] \in Command /\ cmd[c].pc # "idle" /\ CommandSound(cmd[c], audit, makers, clock)
  BY Before DEF Crash, Active
<1>2. clock' = clock /\ audit' = audit /\ makers' = makers /\ Become(c, Crashed(cmd[c]))
  BY DEF Crash
<1>3. CommandSound(Crashed(cmd[c]), audit, makers, clock)
  BY <1>1, EndedSound
<1>4. QED
  BY <1>2, <1>3, Lift, SameMakers

LEMMA TickSound ==
  ASSUME TypeInv, Sound, Tick
  PROVE  Sound'
<1>1. /\ cmd' = cmd /\ audit' = audit /\ makers' = makers /\ clock' = clock + 1
      /\ clock \in Int /\ clock' \in Int
  BY AcquisitionAssumption DEF Tick, TypeInv, Times
<1>2. ASSUME NEW d \in Commands
      PROVE  CommandSound(cmd[d], audit, makers, clock')
  BY <1>1, Before, CommandGrows DEF Grown
<1>3. QED
  BY <1>1, <1>2 DEF Sound

LEMMA NextSound ==
  ASSUME TypeInv, Sound, [Next]_vars
  PROVE  Sound'
<1>1. CASE Tick
  BY <1>1, TickSound
<1>2. ASSUME NEW c \in Commands, Step(c)
      PROVE  Sound'
  <2>1. CASE \E r \in Runs : Run(c, r)
    BY <2>1, RunSound
  <2>2. CASE \E d \in Commands : cmd[d].report = "PAUSED" /\ Resume(c, cmd[d].pause)
    BY <2>2, ResumeSound
  <2>3. CASE NoteResume(c) \/ Source(c) \/ Start(c) \/ Put(c) \/ NoteObject(c) \/ Undo(c)
    BY <2>3, NoteResumeSound, SourceSound, StartSound, PutSound, NoteObjectSound, UndoSound
  <2>4. CASE Reject(c) \/ Derive(c) \/ Complete(c) \/ Underive(c) \/ Rollback(c)
    BY <2>4, RejectSound, DeriveSound, CompleteSound, UnderiveSound, RollbackSound
  <2>5. CASE RollbackEnds(c) \/ Cleanup(c) \/ CleanupEnds(c)
    BY <2>5, RollbackEndsSound, CleanupSound, CleanupEndsSound
  <2>6. CASE Pause(c) \/ PutPause(c) \/ NotePause(c) \/ Crash(c)
    BY <2>6, PauseIsSound, PutPauseSound, NotePauseSound, CrashSound
  <2>7. QED
    BY <1>2, <2>1, <2>2, <2>3, <2>4, <2>5, <2>6 DEF Step
<1>3. CASE UNCHANGED vars
  BY <1>3 DEF vars, Sound
<1>4. QED
  BY <1>1, <1>2, <1>3 DEF Next

LEMMA InitSound ==
  ASSUME Init
  PROVE  TypeInv /\ Sound
<1>1. 0 \in Times
  BY AcquisitionAssumption DEF Times
<1>2. TypeInv
  BY <1>1, FreshTyped DEF Init, TypeInv
<1>3. CommandSound(Fresh, audit, makers, clock)
  BY DEF Fresh, CommandSound, PlaceSound, TodoSound, PauseSound
<1>4. QED
  BY <1>2, <1>3 DEF Init, Sound

LEMMA Basics == Spec => [](TypeInv /\ Sound)
<1>1. Init => TypeInv /\ Sound
  BY InitSound
<1>2. TypeInv /\ Sound /\ [Next]_vars => (TypeInv /\ Sound)'
  BY NextTypes, NextSound
<1>3. QED
  BY <1>1, <1>2, PTL DEF Spec

\* Every variable keeps its type.
THEOREM TypeCorrect == Spec => []TypeOK
<1>1. TypeInv => TypeOK
  BY DEF TypeInv, TypeOK, Kept
<1>2. QED
  BY <1>1, Basics, PTL

-----------------------------------------------------------------------------
(* What a step may add to the chain, and what it may take from the store.  *)

\* An event of a step is one that its command was about to append.
Due(s, e) ==
  \/ s.pc = "resume" /\ e = ResumedEvent(s.pause)
  \/ s.pc = "note" /\ e = PausedEvent(s.pause)
  \/ s.pc = "record" /\ e.type = "RAW_OBJECT_CREATED"
  \/ s.pc = "complete" /\ e.type = "DRAFT_COMPLETED" /\ e.run = s.run
  \/ e.type = "RAW_OBJECT_DELETED"

LEMMA AppendedIsDue ==
  ASSUME TypeInv, NEW s \in Command, NEW e, Appended(s, e) \/ Refused(s, e), Due(s, e)
  PROVE  audit \subseteq audit' /\ \A f \in audit' \ audit : Due(s, f)
BY Audited

LEMMA Chain ==
  ASSUME TypeInv, Sound, NEW c \in Commands, Step(c)
  PROVE  audit \subseteq audit' /\ \A e \in audit' \ audit : Due(cmd[c], e)
<1> DEFINE s == cmd[c]
<1>1. s \in Command /\ CommandSound(s, audit, makers, clock)
  BY Before
<1>2. CASE NoteResume(c)
  <2> DEFINE e == Event(s, "RUN_RESUMED", s.pause, "NONE", 0)
  <2>1. s.pc = "resume" /\ (Appended(s, e) \/ Refused(s, e))
    BY <1>2 DEF NoteResume
  <2>2. e = ResumedEvent(s.pause)
    BY <1>1, <2>1 DEF Event, ResumedEvent, PauseEvent, CommandSound, PauseSound
  <2> HIDE DEF e
  <2>3. QED
    BY <1>1, <2>1, <2>2, AppendedIsDue DEF Due
<1>3. CASE NotePause(c)
  <2> DEFINE e == Event(s, "RUN_PAUSED", s.pause, "NONE", 0)
  <2>1. s.pc = "note" /\ (Appended(s, e) \/ Refused(s, e))
    BY <1>3 DEF NotePause
  <2>2. e = PausedEvent(s.pause)
    BY <1>1, <2>1 DEF Event, PausedEvent, PauseEvent, CommandSound, PauseSound
  <2> HIDE DEF e
  <2>3. QED
    BY <1>1, <2>1, <2>2, AppendedIsDue DEF Due
<1>4. CASE NoteObject(c)
  <2> DEFINE o == Needs[s.run][Len(s.known) + 1]
             e == Event(s, "RAW_OBJECT_CREATED", o, IF s.own THEN "STORED" ELSE "REUSED",
                        Len(s.known))
  <2>1. s.pc = "record" /\ (Appended(s, e) \/ Refused(s, e))
    BY <1>4 DEF NoteObject
  <2>2. e.type = "RAW_OBJECT_CREATED"
    BY DEF Event
  <2> HIDE DEF e
  <2>3. QED
    BY <1>1, <2>1, <2>2, AppendedIsDue DEF Due
<1>5. CASE Complete(c)
  <2> DEFINE e == Event(s, "DRAFT_COMPLETED", Derived(s.run, s.time)[3], "NONE", 0)
  <2>1. s.pc = "complete" /\ (Appended(s, e) \/ Refused(s, e))
    BY <1>5 DEF Complete
  <2>2. e.type = "DRAFT_COMPLETED" /\ e.run = s.run
    BY DEF Event
  <2> HIDE DEF e
  <2>3. QED
    BY <1>1, <2>1, <2>2, AppendedIsDue DEF Due
<1>6. CASE Rollback(c) \/ Cleanup(c)
  <2> DEFINE o == LastOf(s.todo, Needs[s.run])
             ordinal == Cardinality(Owned(s.known)) - Cardinality(s.todo)
  <2>1. \/ Deleted(s, o, "ROLLBACK", ordinal) \/ Deleted(s, o, "CLEANUP", 0)
        \/ UNCHANGED <<audit, latest>>
    BY <1>6 DEF Rollback, Cleanup
  <2>2. s.run \in Runs
    BY <1>1, <1>6 DEF Rollback, Cleanup, CommandSound, PlaceSound
  <2> HIDE DEF o, ordinal
  <2>3. QED
    BY <1>1, <2>1, <2>2, DeletedTyped DEF Due
<1>7. CASE \/ \E r \in Runs : Run(c, r)
           \/ \E d \in Commands : cmd[d].report = "PAUSED" /\ Resume(c, cmd[d].pause)
           \/ Source(c) \/ Start(c) \/ Put(c) \/ Undo(c) \/ Reject(c)
           \/ Derive(c) \/ Underive(c) \/ RollbackEnds(c) \/ CleanupEnds(c)
           \/ Pause(c) \/ PutPause(c) \/ Crash(c)
  <2>1. audit' = audit
    BY <1>7 DEF Run, Resume, Source, Start, Put, Undo, Reject, Derive, Underive, RollbackEnds,
                CleanupEnds, Pause, PutPause, Crash
  <2>2. QED
    BY <2>1
<1>8. QED
  BY <1>2, <1>3, <1>4, <1>5, <1>6, <1>7 DEF Step

\* What a command removes: the object it could not note, its artifacts, what it has still to
\* remove, or a checkpoint of its own.
LEMMA Removal ==
  ASSUME TypeInv, Sound, NEW c \in Commands, Step(c), NEW x \in store, x \notin store'
  PROVE  \/ cmd[c].pc = "undo" /\ x = AtHand(cmd[c]) /\ cmd'[c].pc = "rollback"
         \/ cmd[c].pc = "underive" /\ x \in Artifacts
         \/ /\ cmd[c].pc \in {"rollback", "cleanup"} /\ cmd'[c].pc = cmd[c].pc
            /\ x \in cmd[c].todo /\ cmd'[c].todo = cmd[c].todo \ {x}
         \/ /\ cmd[c].pc = "note" /\ x = cmd[c].pause /\ NotePause(c)
            /\ cmd'[c] = Cleaning(cmd[c], "REJECTED")
<1> DEFINE s == cmd[c]
<1>1. s \in Command /\ CommandSound(s, audit, makers, clock)
  BY Before
<1>2. CASE Undo(c)
  <2> DEFINE o == Needs[s.run][Len(s.known) + 1]
             t == [s EXCEPT !.own = FALSE]
  <2>1. /\ s.pc = "undo" /\ (Removed(o) \/ Absent(o) \/ RemoveThrows(o))
        /\ Become(c, Rejected(t, "REJECTED")) \/ Become(c, Rejected(t, "UNDO_REJECTED"))
    BY <1>2 DEF Undo
  <2>2. x = o
    BY <2>1 DEF Removed, Absent, RemoveThrows
  <2>3. \A report : Rejected(t, report).pc = "rollback"
    BY <1>1, CommandShape DEF Rejected
  <2>4. cmd'[c].pc = "rollback"
    BY <2>1, <2>3, Becomes
  <2>5. QED
    BY <2>1, <2>2, <2>4 DEF AtHand
<1>3. CASE Underive(c)
  <2> DEFINE a == LastOf(s.todo, Derived(s.run, s.time))
  <2>1. s.pc = "underive" /\ s.todo # {} /\ x = a
    BY <1>3 DEF Underive, Removed, Absent, RemoveThrows
  <2>2. /\ s.todo \subseteq {Derived(s.run, s.time)[n] : n \in 1..3}
        /\ s.run \in Runs /\ s.time \in Times
    BY <1>1, <2>1, CommandShape DEF CommandSound, TodoSound, PlaceSound
  <2>3. s.todo \subseteq Artifacts
    BY <2>2, DerivedTyped
  <2>4. Derived(s.run, s.time) \in Seq(Artifacts) /\ DOMAIN Derived(s.run, s.time) = 1..3
    <3>1. Len(Derived(s.run, s.time)) = 3
      BY DEF Derived
    <3>2. Derived(s.run, s.time) \in Seq(Artifacts)
      <4>1. \A n \in 1..3 : Derived(s.run, s.time)[n] \in Artifacts
        BY <2>2, DerivedTyped
      <4>2. /\ Derived(s.run, s.time)[1] \in Artifacts /\ Derived(s.run, s.time)[2] \in Artifacts
            /\ Derived(s.run, s.time)[3] \in Artifacts
        BY <4>1
      <4>3. QED
        BY <4>2 DEF Derived
    <3>3. QED
      BY <3>1, <3>2
  <2>5. \A i \in s.todo : \E n \in DOMAIN Derived(s.run, s.time) : Derived(s.run, s.time)[n] = i
    BY <2>2, <2>4
  <2>6. a \in s.todo
    BY <2>1, <2>4, <2>5, LastOfTaken
  <2>7. QED
    BY <2>1, <2>3, <2>6
<1>4. CASE Rollback(c) \/ Cleanup(c)
  <2> DEFINE o == LastOf(s.todo, Needs[s.run])
  <2>1. /\ s.pc \in {"rollback", "cleanup"} /\ s.todo # {}
        /\ x = o
        /\ \/ Become(c, [s EXCEPT !.todo = @ \ {o}])
           \/ Become(c, [s EXCEPT !.todo = @ \ {o}, !.report = "ROLLBACK_REJECTED"])
           \/ Become(c, [s EXCEPT !.todo = @ \ {o}, !.report = "CLEANUP_REJECTED"])
    BY <1>4 DEF Rollback, Cleanup, Deleted, Removed, Absent, RemoveThrows
  <2>2. /\ s.todo \subseteq Owned(s.known) /\ s.run \in Runs
        /\ KnownSound(s.run, s.known, audit, makers)
    BY <1>1, <2>1 DEF CommandSound, TodoSound, PlaceSound
  <2>3. \A i \in s.todo : \E n \in DOMAIN Needs[s.run] : Needs[s.run][n] = i
    <3>1. \A i \in s.todo : \E n \in DOMAIN s.known : Needs[s.run][n] = i
      BY <1>1, <2>2, OwnedMembers, CommandShape DEF KnownSound
    <3>2. DOMAIN s.known \subseteq DOMAIN Needs[s.run]
      BY <1>1, <2>2, NeedsTyped, CommandShape DEF KnownSound
    <3>3. QED
      BY <3>1, <3>2
  <2>4. o \in s.todo
    BY <2>1, <2>2, <2>3, LastOfTaken, NeedsTyped
  <2>5. cmd'[c].pc = s.pc /\ cmd'[c].todo = s.todo \ {o}
    <3> HIDE DEF o
    <3>1. cmd'[c] \in {[s EXCEPT !.todo = @ \ {o}],
                       [s EXCEPT !.todo = @ \ {o}, !.report = "ROLLBACK_REJECTED"],
                       [s EXCEPT !.todo = @ \ {o}, !.report = "CLEANUP_REJECTED"]}
      BY <2>1, Becomes
    <3>2. QED
      BY <1>1, <3>1, CommandShape
  <2>6. QED
    BY <2>1, <2>4, <2>5
<1>5. CASE NotePause(c)
  <2>1. s.pc = "note" /\ x = s.pause /\ Become(c, Cleaning(s, "REJECTED"))
    BY <1>5 DEF NotePause, Removed, Absent, RemoveThrows
  <2>2. QED
    BY <1>5, <2>1, Becomes
<1>6. CASE \/ \E r \in Runs : Run(c, r)
           \/ \E d \in Commands : cmd[d].report = "PAUSED" /\ Resume(c, cmd[d].pause)
           \/ NoteResume(c) \/ Source(c) \/ Start(c) \/ Put(c) \/ NoteObject(c) \/ Reject(c)
           \/ Derive(c) \/ Complete(c) \/ RollbackEnds(c) \/ CleanupEnds(c)
           \/ Pause(c) \/ PutPause(c) \/ Crash(c)
  <2>1. store \subseteq store'
    BY <1>6 DEF Run, Resume, NoteResume, Source, Start, Put, NoteObject, Reject, Derive, Complete,
                RollbackEnds, CleanupEnds, Pause, PutPause, Crash, Stored, PutThrows
  <2>2. QED
    BY <2>1
<1>7. QED
  BY <1>2, <1>3, <1>4, <1>5, <1>6 DEF Step

-----------------------------------------------------------------------------
(* Reused objects are spared.                                              *)

\* What a command owns was made by its run.
LEMMA OwnMade ==
  ASSUME NEW s \in Command, NEW a, NEW m, NEW k, CommandSound(s, a, m, k), s.pc # "idle",
         NEW o \in Owned(s.known)
  PROVE  s.run \in m[o]
BY OwnedMembers, CommandShape DEF CommandSound, PlaceSound, KnownSound

(* A command takes from the store what its run made, as far as that is an  *)
(* object: rollbackTraversal and cleanupRunOwnedObjects pass over what the *)
(* run found there.                                                        *)
THEOREM RollbackAlwaysSparesReused == Spec => RollbackSparesReused
<1> DEFINE Spared == \A o \in Objects : o \in store /\ o \notin store' =>
                       \E c \in Commands : cmd'[c] # cmd[c] /\ cmd[c].run \in makers[o]
<1>1. ASSUME TypeInv, Sound, Next, NEW o \in Objects, o \in store, o \notin store'
      PROVE  \E c \in Commands : cmd'[c] # cmd[c] /\ cmd[c].run \in makers[o]
  <2>1. PICK c \in Commands : Step(c)
    BY <1>1 DEF Next, Tick
  <2>2. cmd[c] \in Command /\ CommandSound(cmd[c], audit, makers, clock)
    BY <1>1, Before
  <2>3. cmd[c].pause \in Pauses \cup {None} /\ o \notin Artifacts /\ o \notin Pauses
    BY <2>2, CommandShape, KindAssumption
  <2>4. CASE cmd[c].pc = "undo" /\ o = AtHand(cmd[c]) /\ cmd'[c].pc = "rollback"
    <3>1. cmd[c].own /\ cmd[c].run \in makers[o]
      BY <2>2, <2>4 DEF CommandSound, PlaceSound
    <3>2. cmd'[c] # cmd[c]
      BY <2>4
    <3>3. QED
      BY <3>1, <3>2
  <2>5. CASE cmd[c].pc \in {"rollback", "cleanup"} /\ o \in cmd[c].todo
             /\ cmd'[c].todo = cmd[c].todo \ {o}
    <3>1. o \in Owned(cmd[c].known) /\ cmd[c].pc # "idle"
      BY <2>2, <2>5 DEF CommandSound, TodoSound
    <3>2. cmd[c].run \in makers[o]
      BY <2>2, <3>1, OwnMade
    <3>3. cmd'[c] # cmd[c]
      BY <2>5
    <3>4. QED
      BY <3>2, <3>3
  <2>6. cmd[c].pc = "note" => cmd[c].pause # None
    BY <2>2 DEF CommandSound, PauseSound
  <2>7. QED
    BY <1>1, <2>1, <2>3, <2>4, <2>5, <2>6, Removal
<1>2. TypeInv /\ Sound /\ [Next]_vars => [Spared]_vars
  BY <1>1
<1>3. Spec => [][Spared]_vars
  BY <1>2, Basics, PTL DEF Spec
<1>4. QED
  BY <1>3 DEF RollbackSparesReused

-----------------------------------------------------------------------------
(* What the events of the chain say.                                       *)

EventSound(e, a, k) ==
  /\ e.type = "RUN_PAUSED" => e.subject \in Pauses /\ e = PausedEvent(e.subject)
  /\ e.type = "RUN_RESUMED" =>
       /\ e.subject \in Pauses /\ e = ResumedEvent(e.subject)
       /\ PausedEvent(e.subject) \in a /\ k >= e.subject.after
  /\ e.type = "DRAFT_COMPLETED" =>
       \A n \in DOMAIN Needs[e.run] : NotedIn(a, e.run, Needs[e.run][n])
EventsSound == \A e \in audit : EventSound(e, audit, clock)

LEMMA EventGrows ==
  ASSUME NEW e, NEW a, NEW b, NEW k \in Int, NEW l \in Int, EventSound(e, a, k),
         a \subseteq b, k <= l
  PROVE  EventSound(e, b, l)
<1>1. e.subject \in Pauses => e.subject.after \in Int
  BY DEF Pauses
<1>2. \A r, o : NotedIn(a, r, o) => NotedIn(b, r, o)
  BY DEF NotedIn
<1>3. QED
  BY <1>1, <1>2 DEF EventSound

LEMMA StepClock ==
  ASSUME NEW c, Step(c)
  PROVE  clock' = clock
BY DEF Step, Run, Resume, NoteResume, Source, Start, Put, NoteObject, Undo, Reject, Derive,
       Complete, Underive, Rollback, RollbackEnds, Cleanup, CleanupEnds, Pause, PutPause,
       NotePause, Crash

LEMMA PauseEvents ==
  ASSUME NEW p
  PROVE  /\ PausedEvent(p).type = "RUN_PAUSED" /\ PausedEvent(p).subject = p
         /\ PausedEvent(p).run = p.run
         /\ ResumedEvent(p).type = "RUN_RESUMED" /\ ResumedEvent(p).subject = p
         /\ ResumedEvent(p).run = p.run
BY DEF PausedEvent, ResumedEvent, PauseEvent

LEMMA NextEvents ==
  ASSUME TypeInv, Sound, EventsSound, [Next]_vars
  PROVE  EventsSound'
<1>1. clock \in Int /\ clock' \in Int
  <2>1. TypeInv'
    BY NextTypes
  <2>2. QED
    BY <2>1, AcquisitionAssumption DEF TypeInv, Times
<1>2. CASE Tick
  <2>1. audit' = audit /\ clock <= clock'
    BY <1>1, <1>2 DEF Tick
  <2>2. QED
    BY <1>1, <2>1, EventGrows DEF EventsSound
<1>3. ASSUME NEW c \in Commands, Step(c)
      PROVE  EventsSound'
  <2> DEFINE s == cmd[c]
  <2>1. /\ s \in Command /\ CommandSound(s, audit, makers, clock) /\ clock' = clock
        /\ audit \subseteq audit' /\ \A e \in audit' \ audit : Due(s, e)
    BY <1>3, Before, Chain, StepClock
  <2>2. s.pc \in {"resume", "note"} => s.pause \in Pauses
    BY <2>1, CommandShape DEF CommandSound, PauseSound
  <2>3. ASSUME NEW e \in audit'
        PROVE  EventSound(e, audit', clock)
    <3>1. CASE e \in audit
      BY <1>1, <2>1, <3>1, EventGrows DEF EventsSound
    <3>2. CASE s.pc = "resume" /\ e = ResumedEvent(s.pause)
      <4>1. clock >= s.pause.after /\ PausedEvent(s.pause) \in audit
        BY <2>1, <3>2 DEF CommandSound, PauseSound
      <4>2. QED
        BY <2>1, <2>2, <3>2, <4>1, PauseEvents DEF EventSound
    <3>3. CASE s.pc = "note" /\ e = PausedEvent(s.pause)
      BY <2>2, <3>3, PauseEvents DEF EventSound
    <3>4. CASE e.type \in {"RAW_OBJECT_CREATED", "RAW_OBJECT_DELETED"}
      BY <3>4 DEF EventSound
    <3>5. CASE s.pc = "complete" /\ e.type = "DRAFT_COMPLETED" /\ e.run = s.run
      <4>1. KnownSound(s.run, s.known, audit, makers) /\ Len(s.known) = Len(Needs[s.run])
            /\ s.run \in Runs /\ s.known \in Seq(Verified)
        BY <2>1, <3>5, CommandShape DEF CommandSound, PlaceSound
      <4>2. DOMAIN Needs[s.run] = DOMAIN s.known
        BY <4>1, NeedsTyped
      <4>3. \A n \in DOMAIN Needs[s.run] : NotedIn(audit, s.run, Needs[s.run][n])
        BY <4>1, <4>2 DEF KnownSound
      <4>4. \A r, o : NotedIn(audit, r, o) => NotedIn(audit', r, o)
        BY <2>1 DEF NotedIn
      <4>5. QED
        BY <3>5, <4>3, <4>4 DEF EventSound
    <3>6. QED
      BY <2>1, <3>1, <3>2, <3>3, <3>4, <3>5 DEF Due
  <2>4. QED
    BY <2>1, <2>3 DEF EventsSound
<1>4. CASE UNCHANGED vars
  BY <1>4 DEF vars, EventsSound
<1>5. QED
  BY <1>2, <1>3, <1>4 DEF Next

LEMMA Events == Spec => []EventsSound
<1>1. Init => EventsSound
  BY DEF Init, EventsSound
<1>2. TypeInv /\ Sound /\ EventsSound /\ [Next]_vars => EventsSound'
  BY NextEvents
<1>3. QED
  BY <1>1, <1>2, Basics, PTL DEF Spec

(* Every object of a completed draft was noted by its run, in whichever    *)
(* command: persist throws unless the event is on the chain, and a         *)
(* checkpoint lists only objects that were verified and noted.             *)
THEOREM DraftsAlwaysAudited == Spec => []DraftsAreAudited
<1>1. EventsSound => DraftsAreAudited
  BY DEF EventsSound, EventSound, DraftsAreAudited, Drafts, NotedIn
<1>2. QED
  BY <1>1, Events, PTL

LEMMA StepOthers ==
  ASSUME TypeInv, NEW c \in Commands, Step(c), NEW d \in Commands, d # c
  PROVE  cmd'[d] = cmd[d]
<1>1. \E t : Become(c, t)
  BY DEF Step, Run, Resume, NoteResume, Source, Start, Put, NoteObject, Undo, Reject, Derive,
         Complete, Underive, Rollback, RollbackEnds, Cleanup, CleanupEnds, Pause, PutPause,
         NotePause, Crash
<1>2. QED
  BY <1>1, Becomes

-----------------------------------------------------------------------------
(* How a command moves on.                                                 *)

\* At work on the walk or the draft, with the objects it knows in its hands.
Working ==
  {"source", "start", "walk", "record", "undo", "complete", "underive", "pause", "note"}

GivesUp(s, t) == t.pc \notin Working /\ t.from \in {None, s.from}
Begins(t) == t.pc = "source" /\ t.known = << >> /\ t.from = None
Goes(s, t) == s.pc \in Working /\ t.run = s.run /\ t.known = s.known /\ t.from = s.from
GoesOn(s, t) == Goes(s, t) /\ t.pc \notin {"pause", "note"}
Stops(s, t) ==
  /\ Goes(s, t) /\ s.pc \in {"source", "walk"} /\ t.pc = "pause"
  /\ t.pause = [run |-> s.run, after |-> clock + 1, stored |-> s.known]
Puts(s, t) ==
  Goes(s, t) /\ s.pc = "pause" /\ t.pc = "note" /\ t.pause = s.pause /\ s.pause \in store'
TakesUp(s, t) ==
  /\ s.pc = "resume" /\ t.pc = "source" /\ t.run = s.run /\ t.known = s.known /\ t.from = s.pause
  /\ ResumedEvent(s.pause) \notin audit /\ ResumedEvent(s.pause) \in audit'
LearnsOf(s, t) ==
  /\ s.pc = "record" /\ t.pc = "walk" /\ t.run = s.run /\ t.from = s.from
  /\ t.known = Append(s.known, [object |-> AtHand(s), own |-> s.own])
  /\ s.own => CreatedEvent(s.run, Len(s.known) + 1) \notin audit

LEMMA OverNow ==
  ASSUME NEW s \in Command, NEW report
  PROVE  /\ GivesUp(s, Rejected(s, report)) /\ GivesUp(s, Cleaning(s, report))
         /\ GivesUp(s, Ended(s, report)) /\ GivesUp(s, Crashed(s))
<1>1. /\ Rejected(s, report).pc = "rollback" /\ Rejected(s, report).from = s.from
      /\ Cleaning(s, report).pc = "cleanup" /\ Cleaning(s, report).from = s.from
      /\ Ended(s, report).pc = "ended" /\ Ended(s, report).from = s.from
      /\ Crashed(s).pc = "crashed" /\ Crashed(s).from = s.from
  BY CommandShape DEF Rejected, Cleaning, Ended, Crashed, Fresh
<1>2. QED
  BY <1>1 DEF GivesUp, Working

LEMMA Moves ==
  ASSUME TypeInv, Sound, NEW c \in Commands, Step(c)
  PROVE  \/ GivesUp(cmd[c], cmd'[c]) \/ Begins(cmd'[c]) \/ GoesOn(cmd[c], cmd'[c])
         \/ Stops(cmd[c], cmd'[c]) \/ Puts(cmd[c], cmd'[c])
         \/ TakesUp(cmd[c], cmd'[c]) \/ LearnsOf(cmd[c], cmd'[c])
<1> DEFINE s == cmd[c]
<1>1. s \in Command /\ CommandSound(s, audit, makers, clock)
  BY Before
<1>2. \A t : Become(c, t) => cmd'[c] = t
  BY Becomes
<1>3. CASE \E r \in Runs : Run(c, r)
  <2>1. PICK r \in Runs : Run(c, r)
    BY <1>3
  <2>2. cmd'[c] = [Fresh EXCEPT !.pc = "source", !.run = r, !.time = clock]
    BY <1>2, <2>1 DEF Run
  <2>3. QED
    BY <2>2 DEF Fresh, Begins
<1>4. CASE \E d \in Commands : cmd[d].report = "PAUSED" /\ Resume(c, cmd[d].pause)
  <2>1. PICK k : Resume(c, k)
    BY <1>4
  <2>2. cmd'[c] = [Fresh EXCEPT !.pc = "resume", !.run = k.run, !.time = clock,
                                !.pause = k, !.known = k.stored]
    BY <1>2, <2>1 DEF Resume
  <2>3. QED
    BY <2>2 DEF Fresh, GivesUp, Working
<1>5. CASE NoteResume(c)
  <2> DEFINE e == Event(s, "RUN_RESUMED", s.pause, "NONE", 0)
             t == [s EXCEPT !.pc = "source", !.from = s.pause]
  <2>1. s.pc = "resume" /\ e = ResumedEvent(s.pause)
    BY <1>1, <1>5 DEF NoteResume, Event, ResumedEvent, PauseEvent, CommandSound, PauseSound
  <2>2. \/ Appended(s, e) /\ cmd'[c] = t
        \/ cmd'[c] = Cleaning(s, "REJECTED")
    BY <1>2, <1>5 DEF NoteResume
  <2>3. t.pc = "source" /\ t.run = s.run /\ t.known = s.known /\ t.from = s.pause
    BY <1>1, CommandShape
  <2>4. Appended(s, e) => e \notin audit /\ e \in audit'
    BY DEF Appended
  <2> HIDE DEF t, e
  <2>5. QED
    BY <1>1, <2>1, <2>2, <2>3, <2>4, OverNow DEF TakesUp
<1>6. CASE NoteObject(c)
  <2> DEFINE o == Needs[s.run][Len(s.known) + 1]
             e == Event(s, "RAW_OBJECT_CREATED", o, IF s.own THEN "STORED" ELSE "REUSED",
                        Len(s.known))
             t == [s EXCEPT !.pc = "walk", !.own = FALSE,
                            !.known = Append(@, [object |-> o, own |-> s.own])]
             u == [s EXCEPT !.pc = "undo"]
  <2>1. s.pc = "record" /\ s.known \in Seq(Verified)
    BY <1>1, <1>6, CommandShape DEF NoteObject
  <2>2. \/ Appended(s, e) /\ cmd'[c] = t
        \/ cmd'[c] = u \/ cmd'[c] = Rejected(s, "REJECTED")
    BY <1>2, <1>6 DEF NoteObject
  <2>3. s.own => e = CreatedEvent(s.run, Len(s.known) + 1)
    <3>1. Len(s.known) + 1 - 1 = Len(s.known)
      BY <2>1
    <3>2. QED
      BY <3>1 DEF Event, CreatedEvent
  <2>4. Appended(s, e) => e \notin audit
    BY DEF Appended
  <2>5. /\ t.run = s.run /\ t.from = s.from /\ t.pc = "walk"
        /\ t.known = Append(s.known, [object |-> AtHand(s), own |-> s.own])
        /\ u.pc = "undo" /\ u.run = s.run /\ u.from = s.from /\ u.known = s.known
    BY <1>1, CommandShape DEF AtHand
  <2>6. s.pc \in Working
    BY <2>1 DEF Working
  <2> HIDE DEF t, u, e, o
  <2>7. QED
    BY <1>1, <2>1, <2>2, <2>3, <2>4, <2>5, <2>6, OverNow DEF LearnsOf, GoesOn, Goes
<1>7. CASE Source(c) \/ Start(c) \/ Reject(c) \/ Complete(c) \/ RollbackEnds(c) \/ CleanupEnds(c)
           \/ Crash(c)
  <2>1. \/ cmd'[c] \in {[s EXCEPT !.pc = "start"], [s EXCEPT !.pc = "walk"],
                        [s EXCEPT !.pc = "underive", !.todo = s.made]}
             /\ s.pc \in {"source", "start", "complete"}
        \/ \E report : cmd'[c] \in {Rejected(s, report), Cleaning(s, report), Ended(s, report),
                                    Crashed(s)}
    BY <1>2, <1>7 DEF Source, Start, Reject, Complete, RollbackEnds, CleanupEnds, Crash
  <2>2. CASE cmd'[c] \in {[s EXCEPT !.pc = "start"], [s EXCEPT !.pc = "walk"],
                          [s EXCEPT !.pc = "underive", !.todo = s.made]}
             /\ s.pc \in {"source", "start", "complete"}
    BY <1>1, <2>2, CommandShape DEF GoesOn, Goes, Working
  <2>3. QED
    BY <1>1, <2>1, <2>2, OverNow
<1>8. CASE Put(c)
  <2>1. \/ s.pc = "walk" /\ \E own : cmd'[c] = [s EXCEPT !.pc = "record", !.own = own]
        \/ cmd'[c] = Rejected(s, "REJECTED")
    BY <1>2, <1>8 DEF Put
  <2>2. CASE s.pc = "walk" /\ \E own : cmd'[c] = [s EXCEPT !.pc = "record", !.own = own]
    BY <1>1, <2>2, CommandShape DEF GoesOn, Goes, Working
  <2>3. QED
    BY <1>1, <2>1, <2>2, OverNow
<1>9. CASE Undo(c)
  <2> DEFINE t == [s EXCEPT !.own = FALSE]
  <2>1. cmd'[c] = Rejected(t, "REJECTED") \/ cmd'[c] = Rejected(t, "UNDO_REJECTED")
    BY <1>2, <1>9 DEF Undo
  <2>2. t \in Command /\ t.from = s.from
    BY <1>1, CommandShape DEF Command
  <2> HIDE DEF t
  <2>3. GivesUp(t, cmd'[c])
    BY <2>1, <2>2, OverNow
  <2>4. QED
    BY <2>2, <2>3 DEF GivesUp
<1>10. CASE Derive(c)
  <2> DEFINE a == Derived(s.run, s.time)[s.step]
             u == [s EXCEPT !.made = IF a \in store THEN @ ELSE @ \cup {a}]
             t == IF s.step = 3 THEN [u EXCEPT !.pc = "complete"] ELSE [u EXCEPT !.step = @ + 1]
             w == [s EXCEPT !.pc = "underive", !.todo = s.made]
  <2>1. s.pc = "walk" /\ (cmd'[c] = t \/ cmd'[c] = w)
    BY <1>2, <1>10 DEF Derive
  <2>2. /\ t.pc \in {"walk", "complete"} /\ t.run = s.run /\ t.known = s.known
        /\ t.from = s.from
        /\ w.pc = "underive" /\ w.run = s.run /\ w.known = s.known /\ w.from = s.from
    BY <1>1, <2>1, CommandShape
  <2> HIDE DEF t, w
  <2>3. QED
    BY <2>1, <2>2 DEF GoesOn, Goes, Working
<1>11. CASE Underive(c)
  <2>1. \/ s.pc = "underive" /\ \E a : cmd'[c] = [s EXCEPT !.todo = @ \ {a}]
        \/ \E report : cmd'[c] = Rejected(s, report)
    BY <1>2, <1>11 DEF Underive
  <2>2. CASE s.pc = "underive" /\ \E a : cmd'[c] = [s EXCEPT !.todo = @ \ {a}]
    BY <1>1, <2>2, CommandShape DEF GoesOn, Goes, Working
  <2>3. QED
    BY <1>1, <2>1, <2>2, OverNow
<1>12. CASE Rollback(c) \/ Cleanup(c)
  <2>1. /\ s.pc \in {"rollback", "cleanup"}
        /\ \E o : cmd'[c] \in {[s EXCEPT !.todo = @ \ {o}],
                               [s EXCEPT !.todo = @ \ {o}, !.report = "ROLLBACK_REJECTED"],
                               [s EXCEPT !.todo = @ \ {o}, !.report = "CLEANUP_REJECTED"]}
    BY <1>2, <1>12 DEF Rollback, Cleanup
  <2>2. cmd'[c].pc = s.pc /\ cmd'[c].from = s.from
    BY <1>1, <2>1, CommandShape
  <2>3. QED
    BY <2>1, <2>2 DEF GivesUp, Working
<1>13. CASE Pause(c)
  <2> DEFINE p == [run |-> s.run, after |-> clock + 1, stored |-> s.known]
  <2>1. s.pc \in {"source", "walk"} /\ cmd'[c] = [s EXCEPT !.pc = "pause", !.pause = p]
    BY <1>2, <1>13 DEF Pause
  <2> HIDE DEF p
  <2>2. /\ cmd'[c].pc = "pause" /\ cmd'[c].pause = p /\ cmd'[c].run = s.run
        /\ cmd'[c].known = s.known /\ cmd'[c].from = s.from
    BY <1>1, <2>1, CommandShape
  <2>3. QED
    BY <2>1, <2>2 DEF Stops, Goes, Working, p
<1>14. CASE PutPause(c)
  <2> DEFINE t == [s EXCEPT !.pc = "note", !.own = s.pause \notin store]
  <2>1. /\ s.pc = "pause"
        /\ \/ cmd'[c] = t /\ s.pause \in store'
           \/ \E report : cmd'[c] \in {Cleaning(s, report), Ended(s, report)}
    BY <1>2, <1>14 DEF PutPause, Stored
  <2>2. /\ t.pc = "note" /\ t.pause = s.pause /\ t.run = s.run
        /\ t.known = s.known /\ t.from = s.from
    BY <1>1, CommandShape
  <2> HIDE DEF t
  <2>3. QED
    BY <1>1, <2>1, <2>2, OverNow DEF Puts, Goes, Working
<1>15. CASE NotePause(c)
  <2>1. \E report : cmd'[c] \in {Cleaning(s, report), Ended(s, report)}
    BY <1>2, <1>15 DEF NotePause
  <2>2. QED
    BY <1>1, <2>1, OverNow
<1>16. QED
  BY <1>3, <1>4, <1>5, <1>6, <1>7, <1>8, <1>9, <1>10, <1>11, <1>12, <1>13, <1>14,
     <1>15 DEF Step

-----------------------------------------------------------------------------
(* A checkpoint is resumed once.                                           *)

LEMMA NextResumedOnce ==
  ASSUME TypeInv, Sound, ResumedOnce, [Next]_vars
  PROVE  ResumedOnce'
<1>1. CASE UNCHANGED cmd
  BY <1>1 DEF ResumedOnce
<1>2. ASSUME NEW c \in Commands, Step(c)
      PROVE  ResumedOnce'
  <2>1. \A d \in Commands : d # c => cmd'[d] = cmd[d]
    BY <1>2, StepOthers
  <2>2. cmd[c] \in Command /\ CommandSound(cmd[c], audit, makers, clock)
    BY Before
  <2>3. CASE cmd'[c].from \in {None, cmd[c].from}
    BY <2>1, <2>3 DEF ResumedOnce
  <2>4. CASE TakesUp(cmd[c], cmd'[c])
    <3>1. ASSUME NEW d \in Commands, d # c, cmd[d].from # None, cmd[d].from = cmd'[c].from
          PROVE  FALSE
      <4>1. ResumedEvent(cmd[d].from) \in audit
        BY <3>1, Before DEF CommandSound, PauseSound
      <4>2. QED
        BY <2>4, <3>1, <4>1 DEF TakesUp
    <3>2. QED
      BY <2>1, <3>1 DEF ResumedOnce
  <2>5. QED
    BY <1>2, <2>3, <2>4, Moves DEF GivesUp, Begins, GoesOn, Goes, Stops, Puts, LearnsOf
<1>3. QED
  BY <1>1, <1>2 DEF Next, Tick, vars

(* RUN_RESUMED names the checkpoint and the chain takes no event twice, so *)
(* of two commands that resume a checkpoint the second is refused.         *)
THEOREM ResumedAtMostOnce == Spec => []ResumedOnce
<1>1. Init => ResumedOnce
  BY DEF Init, Fresh, ResumedOnce
<1>2. TypeInv /\ Sound /\ ResumedOnce /\ [Next]_vars => ResumedOnce'
  BY NextResumedOnce
<1>3. QED
  BY <1>1, <1>2, Basics, PTL DEF Spec

-----------------------------------------------------------------------------
(* What a run created is in one pair of hands: of one command at work, or  *)
(* of one checkpoint that is still to be resumed.                          *)

Owning(s, n) == s.pc \in Working /\ n \in DOMAIN s.known /\ s.known[n].own
Offered == {p \in Pauses : PausedEvent(p) \in audit /\ ResumedEvent(p) \notin audit}
Offering(p, n) == n \in DOMAIN p.stored /\ p.stored[n].own

OneCommand ==
  \A c, d \in Commands : c # d /\ cmd[c].run = cmd[d].run =>
    \A n : ~(Owning(cmd[c], n) /\ Owning(cmd[d], n))
CommandOrPause ==
  \A c \in Commands, p \in Offered : p.run = cmd[c].run =>
    \A n : ~(Owning(cmd[c], n) /\ Offering(p, n))
OnePause ==
  \A p, q \in Offered : p # q /\ p.run = q.run =>
    \A n : ~(Offering(p, n) /\ Offering(q, n))
OfferedKnown == \A p \in Offered : p.run \in Runs /\ KnownSound(p.run, p.stored, audit, makers)

\* A checkpoint that is about to be noted has not been, and is there.
PauseIsNew ==
  \A c \in Commands : cmd[c].pc \in {"pause", "note"} =>
    \A n : Owning(cmd[c], n) => PausedEvent(cmd[c].pause) \notin audit
PauseIsKept ==
  \A c \in Commands : cmd[c].pc = "note" =>
    \A n : Owning(cmd[c], n) => cmd[c].pause \in store

OwnerInv ==
  /\ OneCommand /\ CommandOrPause /\ OnePause /\ OfferedKnown /\ PauseIsNew /\ PauseIsKept

LEMMA OwningNext ==
  ASSUME TypeInv, Sound, NEW c \in Commands, Step(c), NEW n, Owning(cmd'[c], n)
  PROVE  /\ cmd'[c].run = cmd[c].run
         /\ \/ Owning(cmd[c], n)
            \/ /\ cmd[c].pause \in Offered /\ cmd[c].pause.run = cmd[c].run
               /\ Offering(cmd[c].pause, n) /\ ResumedEvent(cmd[c].pause) \in audit'
            \/ CreatedEvent(cmd[c].run, n) \notin audit
<1> DEFINE s == cmd[c]  t == cmd'[c]
<1>1. s \in Command /\ CommandSound(s, audit, makers, clock)
  BY Before
<1>2. CASE GivesUp(s, t) \/ Begins(t)
  BY <1>2 DEF Owning, GivesUp, Begins
<1>3. CASE GoesOn(s, t) \/ Stops(s, t) \/ Puts(s, t)
  BY <1>3 DEF Owning, GoesOn, Stops, Puts, Goes
<1>4. CASE TakesUp(s, t)
  <2>1. /\ s.pause \in Pauses /\ s.pause.run = s.run /\ s.known = s.pause.stored
        /\ PausedEvent(s.pause) \in audit
    BY <1>1, <1>4, CommandShape DEF TakesUp, CommandSound, PauseSound
  <2>2. s.pause \in Offered /\ ResumedEvent(s.pause) \in audit' /\ t.run = s.run
    BY <1>4, <2>1 DEF TakesUp, Offered
  <2>3. Offering(s.pause, n)
    BY <1>4, <2>1 DEF Owning, Offering, TakesUp
  <2>4. QED
    BY <2>1, <2>2, <2>3
<1>5. CASE LearnsOf(s, t)
  <2> DEFINE v == [object |-> AtHand(s), own |-> s.own]
  <2>1. /\ t.known = Append(s.known, v) /\ s.known \in Seq(Verified) /\ t.run = s.run
        /\ s.pc \in Working /\ v.own = s.own
    BY <1>1, <1>5, CommandShape DEF LearnsOf, Working
  <2> HIDE DEF v, s, t
  <2>2. CASE n = Len(s.known) + 1
    <3>1. t.known[n] = v
      BY <2>1, <2>2
    <3>2. QED
      BY <1>5, <2>1, <2>2, <3>1 DEF LearnsOf, Owning, s, t
  <2>3. CASE n # Len(s.known) + 1
    <3>1. n \in DOMAIN s.known /\ t.known[n] = s.known[n]
      <4>1. n \in DOMAIN t.known
        BY DEF Owning, t
      <4>2. QED
        BY <2>1, <2>3, <4>1
    <3>2. QED
      BY <2>1, <3>1 DEF Owning, s, t
  <2>4. QED
    BY <2>2, <2>3
<1>6. QED
  BY <1>2, <1>3, <1>4, <1>5, Moves

\* A command at "note" is done with it in its step.
LEMMA NoteEnds ==
  ASSUME TypeInv, Sound, NEW c \in Commands, Step(c), cmd[c].pc = "note"
  PROVE  cmd'[c].pc \notin Working
<1>1. NotePause(c) \/ Crash(c)
  BY DEF Step, Run, Resume, MayBegin, NoteResume, Source, Start, Put, NoteObject, Undo, Reject,
         Derive, Complete, Underive, Rollback, RollbackEnds, Cleanup, CleanupEnds, Pause, PutPause
<1>2. \E report : cmd'[c] \in {Cleaning(cmd[c], report), Ended(cmd[c], report), Crashed(cmd[c])}
  BY <1>1, Becomes DEF NotePause, Crash
<1>3. QED
  BY <1>2, Before, OverNow DEF GivesUp

LEMMA OfferedNext ==
  ASSUME TypeInv, Sound, NEW c \in Commands, Step(c), NEW p \in Offered'
  PROVE  \/ p \in Offered
         \/ /\ cmd[c].pc = "note" /\ p = cmd[c].pause /\ p.run = cmd[c].run
            /\ p.stored = cmd[c].known /\ cmd'[c].pc \notin Working
<1>1. /\ p \in Pauses /\ PausedEvent(p) \in audit' /\ ResumedEvent(p) \notin audit'
      /\ audit \subseteq audit' /\ \A e \in audit' \ audit : Due(cmd[c], e)
  BY Chain DEF Offered
<1>2. CASE PausedEvent(p) \in audit
  BY <1>1, <1>2 DEF Offered
<1>3. CASE PausedEvent(p) \notin audit
  <2>1. Due(cmd[c], PausedEvent(p))
    BY <1>1, <1>3
  <2>2. cmd[c].pc = "note" /\ PausedEvent(p) = PausedEvent(cmd[c].pause)
    BY <2>1, PauseEvents DEF Due
  <2>3. p = cmd[c].pause
    BY <2>2, PauseEvents
  <2>4. CommandSound(cmd[c], audit, makers, clock)
    BY Before
  <2>5. QED
    BY <2>2, <2>3, <2>4, NoteEnds DEF CommandSound, PauseSound
<1>4. QED
  BY <1>2, <1>3

\* What a command owns, or a checkpoint offers, was noted as created.
LEMMA OwningNoted ==
  ASSUME TypeInv, Sound, NEW c \in Commands, NEW n, Owning(cmd[c], n)
  PROVE  CreatedEvent(cmd[c].run, n) \in audit
BY Before DEF Owning, Working, CommandSound, PlaceSound, KnownSound

LEMMA MakersGrow ==
  ASSUME TypeInv, Sound, NEW c \in Commands, Step(c)
  PROVE  Grown(makers, makers')
<1>1. CASE makers' = makers
  BY <1>1 DEF Grown
<1>2. CASE makers' # makers
  <2>1. Put(c)
    BY <1>2 DEF Step, Run, Resume, NoteResume, Source, Start, NoteObject, Undo, Reject, Derive,
                Complete, Underive, Rollback, RollbackEnds, Cleanup, CleanupEnds, Pause,
                PutPause, NotePause, Crash
  <2> DEFINE o == Needs[cmd[c].run][Len(cmd[c].known) + 1]
  <2>2. makers' = [makers EXCEPT ![o] = @ \cup {cmd[c].run}]
    BY <1>2, <2>1 DEF Put
  <2>3. QED
    BY <2>2 DEF Grown, TypeInv
<1>3. QED
  BY <1>1, <1>2

LEMMA NextOneCommand ==
  ASSUME TypeInv, Sound, OwnerInv, NEW c \in Commands, Step(c), NEW d \in Commands, d # c,
         cmd'[c].run = cmd[d].run, NEW n, Owning(cmd'[c], n)
  PROVE  ~Owning(cmd[d], n)
BY OwningNext, OwningNoted DEF OwnerInv, OneCommand, CommandOrPause

LEMMA NextOwners ==
  ASSUME TypeInv, Sound, OwnerInv, NEW c \in Commands, Step(c)
  PROVE  OneCommand' /\ CommandOrPause' /\ OnePause' /\ OfferedKnown'
<1>1. \A d \in Commands : d # c => cmd'[d] = cmd[d]
  BY StepOthers
<1>2. /\ OneCommand /\ CommandOrPause /\ OnePause /\ OfferedKnown
      /\ audit \subseteq audit'
  BY Chain DEF OwnerInv
<1>3. OneCommand'
  <2> SUFFICES ASSUME NEW d \in Commands, NEW e \in Commands, d # e, cmd'[d].run = cmd'[e].run,
                      NEW n, Owning(cmd'[d], n), Owning(cmd'[e], n)
               PROVE  FALSE
    BY DEF OneCommand
  <2>1. CASE d = c
    BY <1>1, <2>1, NextOneCommand
  <2>2. CASE e = c
    BY <1>1, <2>2, NextOneCommand
  <2>3. CASE d # c /\ e # c
    BY <1>1, <1>2, <2>3 DEF OneCommand
  <2>4. QED
    BY <2>1, <2>2, <2>3
<1>4. CommandOrPause'
  <2> SUFFICES ASSUME NEW d \in Commands, NEW p \in Offered', p.run = cmd'[d].run,
                      NEW n, Owning(cmd'[d], n), Offering(p, n)
               PROVE  FALSE
    BY DEF CommandOrPause
  <2>1. CASE p \in Offered /\ d # c
    BY <1>1, <1>2, <2>1 DEF CommandOrPause
  <2>2. CASE p \in Offered /\ d = c
    <3>1. CreatedEvent(p.run, n) \in audit
      BY <1>2, <2>2 DEF OfferedKnown, KnownSound, Offering
    <3>2. cmd[c].run = p.run /\ ~Owning(cmd[c], n)
      BY <1>2, <2>2, OwningNext DEF CommandOrPause
    <3>3. /\ cmd[c].pause \in Offered /\ cmd[c].pause.run = cmd[c].run
          /\ Offering(cmd[c].pause, n) /\ ResumedEvent(cmd[c].pause) \in audit'
      BY <2>2, <3>1, <3>2, OwningNext
    <3>4. p # cmd[c].pause
      BY <3>3 DEF Offered
    <3>5. QED
      BY <1>2, <2>2, <3>2, <3>3, <3>4 DEF OnePause
  <2>3. CASE p \notin Offered
    <3>1. /\ cmd[c].pc = "note" /\ p.run = cmd[c].run /\ p.stored = cmd[c].known
          /\ cmd'[c].pc \notin Working
      BY <2>3, OfferedNext
    <3>2. d # c
      BY <3>1 DEF Owning
    <3>3. Owning(cmd[c], n)
      BY <3>1 DEF Owning, Offering, Working
    <3>4. QED
      BY <1>1, <1>2, <3>1, <3>2, <3>3 DEF OneCommand
  <2>4. QED
    BY <2>1, <2>2, <2>3
<1>5. OnePause'
  <2> SUFFICES ASSUME NEW p \in Offered', NEW q \in Offered', p # q, p.run = q.run,
                      NEW n, Offering(p, n), Offering(q, n)
               PROVE  FALSE
    BY DEF OnePause
  <2>1. ASSUME NEW x \in Offered', x \notin Offered, NEW y \in Offered, x.run = y.run,
               Offering(x, n), Offering(y, n)
        PROVE  FALSE
    <3>1. cmd[c].pc = "note" /\ x.run = cmd[c].run /\ x.stored = cmd[c].known
      BY <2>1, OfferedNext
    <3>2. Owning(cmd[c], n)
      BY <2>1, <3>1 DEF Owning, Offering, Working
    <3>3. QED
      BY <1>2, <2>1, <3>1, <3>2 DEF CommandOrPause
  <2>2. CASE p \in Offered /\ q \in Offered
    BY <1>2, <2>2 DEF OnePause
  <2>3. CASE p \notin Offered /\ q \notin Offered
    BY <2>3, OfferedNext
  <2>4. QED
    BY <2>1, <2>2, <2>3
<1>6. OfferedKnown'
  <2> SUFFICES ASSUME NEW p \in Offered'
               PROVE  p.run \in Runs /\ KnownSound(p.run, p.stored, audit', makers')
    BY DEF OfferedKnown
  <2>1. p.stored \in Seq(Verified)
    BY DEF Offered, Pauses
  <2>2. p.run \in Runs /\ KnownSound(p.run, p.stored, audit, makers)
    <3>1. CASE p \in Offered
      BY <1>2, <3>1 DEF OfferedKnown
    <3>2. CASE p \notin Offered
      <4>1. cmd[c].pc = "note" /\ p.run = cmd[c].run /\ p.stored = cmd[c].known
        BY <3>2, OfferedNext
      <4>2. QED
        BY <4>1, Before DEF CommandSound, PlaceSound
    <3>3. QED
      BY <3>1, <3>2
  <2>3. Grown(makers, makers')
    BY MakersGrow
  <2>4. QED
    BY <1>2, <2>1, <2>2, <2>3, KnownGrows
<1>7. QED
  BY <1>3, <1>4, <1>5, <1>6

\* Two commands with the same checkpoint at hand own the same.
LEMMA SamePause ==
  ASSUME TypeInv, Sound, OneCommand, NEW c \in Commands, NEW d \in Commands, c # d,
         cmd[c].pc \in {"pause", "note"}, cmd[d].pc \in {"pause", "note"},
         cmd[c].pause = cmd[d].pause, NEW n
  PROVE  ~Owning(cmd[d], n)
<1>1. /\ cmd[c].run = cmd[d].run /\ cmd[c].known = cmd[d].known
  BY Before DEF CommandSound, PauseSound
<1>2. Owning(cmd[d], n) => Owning(cmd[c], n)
  BY <1>1 DEF Owning, Working
<1>3. QED
  BY <1>1, <1>2 DEF OneCommand

LEMMA PauseKinds ==
  ASSUME NEW p \in Pauses
  PROVE  p \notin Artifacts /\ p \notin Objects
<1>1. p \notin Artifacts
  <2>1. DOMAIN p = {"run", "after", "stored"}
    BY DEF Pauses
  <2>2. \A a \in Artifacts : DOMAIN a = {"kind", "run", "time"}
    BY DEF Artifacts
  <2>3. QED
    BY <2>1, <2>2
<1>2. QED
  BY <1>1, KindAssumption

\* A step that removes a checkpoint has it at hand.
LEMMA PauseRemoval ==
  ASSUME TypeInv, Sound, NEW c \in Commands, Step(c), NEW p \in Pauses, p \in store,
         p \notin store'
  PROVE  cmd[c].pc = "note" /\ cmd[c].pause = p
<1>1. cmd[c] \in Command /\ CommandSound(cmd[c], audit, makers, clock)
  BY Before
<1>2. p \notin Artifacts /\ p \notin Objects
  BY PauseKinds
<1>3. cmd[c].pc = "undo" => AtHand(cmd[c]) \in Objects
  BY <1>1, NextTyped DEF CommandSound, PlaceSound
<1>4. cmd[c].pc \in {"rollback", "cleanup"} => cmd[c].todo \subseteq Objects
  BY <1>1, OwnedMembers, CommandShape DEF CommandSound, TodoSound
<1>5. QED
  BY <1>1, <1>2, <1>3, <1>4, Removal

LEMMA NextPauses ==
  ASSUME TypeInv, Sound, EventsSound, OwnerInv, NEW c \in Commands, Step(c)
  PROVE  PauseIsNew' /\ PauseIsKept'
<1> DEFINE s == cmd[c]  t == cmd'[c]
<1>1. \A d \in Commands : d # c => cmd'[d] = cmd[d]
  BY StepOthers
<1>2. OneCommand /\ CommandOrPause /\ PauseIsNew /\ PauseIsKept
  BY DEF OwnerInv
<1>3. /\ audit \subseteq audit' /\ \A e \in audit' \ audit : Due(s, e)
      /\ s \in Command /\ CommandSound(s, audit, makers, clock)
  BY Chain, Before
<1>4. t.pc \in {"pause", "note"} => Stops(s, t) \/ Puts(s, t)
  BY Moves DEF GivesUp, Working, Begins, GoesOn, TakesUp, LearnsOf
<1>5. ASSUME NEW n, Owning(t, n), t.pc \in {"pause", "note"}
      PROVE  PausedEvent(t.pause) \notin audit'
  <2>1. Owning(s, n) /\ s.pc # "note"
    BY <1>4, <1>5 DEF Stops, Puts, Goes, Owning
  <2>2. PausedEvent(t.pause) \notin audit' \ audit
    <3>1. ~Due(s, PausedEvent(t.pause))
      BY <2>1, PauseEvents DEF Due
    <3>2. QED
      BY <1>3, <3>1
  <2>3. CASE Puts(s, t)
    BY <1>2, <2>1, <2>2, <2>3 DEF PauseIsNew, Puts
  <2>4. CASE Stops(s, t)
    <3> DEFINE p == [run |-> s.run, after |-> clock + 1, stored |-> s.known]
    <3>1. t.pause = p /\ p.run = s.run /\ Offering(p, n)
      BY <2>1, <2>4 DEF Stops, Offering, Owning
    <3>2. p \in Pauses /\ clock \in Int /\ p.after = clock + 1
      <4>1. clock + 1 \in Nat /\ clock \in Int
        BY AcquisitionAssumption DEF TypeInv, Times
      <4>2. s.run \in Runs /\ s.known \in Seq(Verified)
        BY <1>3, <2>4, CommandShape DEF Stops, CommandSound, PlaceSound
      <4>3. QED
        BY <4>1, <4>2 DEF Pauses
    <3> HIDE DEF p
    <3>3. p \notin Offered
      BY <1>2, <2>1, <3>1 DEF CommandOrPause
    <3>4. ResumedEvent(p) \notin audit
      <4>1. ResumedEvent(p) \in audit => clock >= p.after
        BY PauseEvents DEF EventsSound, EventSound
      <4>2. QED
        BY <3>2, <4>1
    <3>5. QED
      BY <2>2, <3>1, <3>2, <3>3, <3>4 DEF Offered
  <2>5. QED
    BY <1>4, <1>5, <2>3, <2>4
<1>6. ASSUME NEW d \in Commands, d # c, cmd[d].pc \in {"pause", "note"},
             NEW n, Owning(cmd[d], n)
      PROVE  PausedEvent(cmd[d].pause) \notin audit'
  <2>1. PausedEvent(cmd[d].pause) \notin audit
    BY <1>2, <1>6 DEF PauseIsNew
  <2>2. Due(s, PausedEvent(cmd[d].pause)) => s.pc = "note" /\ s.pause = cmd[d].pause
    BY PauseEvents DEF Due
  <2>3. ~(s.pc = "note" /\ s.pause = cmd[d].pause)
    BY <1>2, <1>6, SamePause
  <2>4. QED
    BY <1>3, <2>1, <2>2, <2>3
<1>7. PauseIsNew'
  BY <1>1, <1>5, <1>6 DEF PauseIsNew
<1>8. ASSUME NEW d \in Commands, d # c, cmd[d].pc = "note", NEW n, Owning(cmd[d], n)
      PROVE  cmd[d].pause \in store'
  <2>1. cmd[d].pause \in store /\ cmd[d].pause \in Pauses
    BY <1>2, <1>8, Before, CommandShape DEF PauseIsKept, CommandSound, PauseSound
  <2>2. ~(s.pc = "note" /\ s.pause = cmd[d].pause)
    BY <1>2, <1>8, SamePause
  <2>3. QED
    BY <2>1, <2>2, PauseRemoval
<1>9. t.pc = "note" => t.pause \in store'
  BY <1>4 DEF Stops, Puts
<1>10. PauseIsKept'
  BY <1>1, <1>8, <1>9 DEF PauseIsKept
<1>11. QED
  BY <1>7, <1>10

LEMMA Owners == Spec => []OwnerInv
<1>1. Init => OwnerInv
  <2> SUFFICES ASSUME Init PROVE OwnerInv
    OBVIOUS
  <2>1. Offered = {}
    BY DEF Init, Offered
  <2>2. \A c \in Commands : \A n : ~Owning(cmd[c], n)
    BY DEF Init, Fresh, Owning, Working
  <2>3. QED
    BY <2>1, <2>2 DEF OwnerInv, OneCommand, CommandOrPause, OnePause, OfferedKnown, PauseIsNew,
                      PauseIsKept
<1>2. ASSUME TypeInv, Sound, EventsSound, OwnerInv, [Next]_vars
      PROVE  OwnerInv'
  <2>1. CASE UNCHANGED <<cmd, audit, makers, store>>
    <3>1. cmd' = cmd /\ audit' = audit /\ makers' = makers /\ store' = store
      BY <2>1
    <3>2. Offered' = Offered
      BY <3>1 DEF Offered
    <3>3. OneCommand' /\ CommandOrPause' /\ OnePause'
      BY <1>2, <3>1, <3>2 DEF OwnerInv, OneCommand, CommandOrPause, OnePause
    <3>4. OfferedKnown' /\ PauseIsNew' /\ PauseIsKept'
      BY <1>2, <3>1, <3>2 DEF OwnerInv, OfferedKnown, PauseIsNew, PauseIsKept
    <3>5. QED
      BY <3>3, <3>4 DEF OwnerInv
  <2>2. ASSUME NEW c \in Commands, Step(c)
        PROVE  OwnerInv'
    BY <1>2, <2>2, NextOwners, NextPauses DEF OwnerInv
  <2>3. QED
    BY <1>2, <2>1, <2>2 DEF Next, Tick, vars
<1>3. TypeInv /\ Sound /\ EventsSound /\ OwnerInv /\ [Next]_vars => OwnerInv'
  BY <1>2
<1>4. QED
  BY <1>1, <1>3, Basics, Events, PTL DEF Spec

-----------------------------------------------------------------------------
(* Nothing is left in silence.                                             *)

\* A command that still answers for an object.
Keeps(c, o) ==
  /\ Active(c)
  /\ \/ cmd[c].pc # "cleanup" /\ o \in Owned(cmd[c].known)
     \/ cmd[c].pc = "cleanup" /\ o \in cmd[c].todo
     \/ cmd[c].pc \in {"record", "undo"} /\ cmd[c].own /\ o = AtHand(cmd[c])
Waiting(c, o) == Waits(c) /\ o \in Owned(cmd[c].pause.stored)
Drafted(o) == \E d \in Drafts : \E n \in DOMAIN Needs[d.run] : Needs[d.run][n] = o
Blamed(c, o) ==
  /\ cmd[c].run \in makers[o]
  /\ cmd[c].pc = "crashed" \/ cmd[c].report \in Failures

Answered(o) ==
  \/ \E c \in Commands : Keeps(c, o)
  \/ \E c \in Commands : Waiting(c, o)
  \/ Drafted(o)
  \/ \E c \in Commands : Blamed(c, o)
  \/ o \in stray
Accounted == \A o \in Objects \cap store : Answered(o)

\* What a command keeps, its run made.
LEMMA KeptMade ==
  ASSUME TypeInv, Sound, NEW c \in Commands, NEW o, Keeps(c, o)
  PROVE  cmd[c].run \in makers[o] /\ cmd[c].pc \notin {"idle", "ended", "crashed"}
<1>1. /\ cmd[c] \in Command /\ CommandSound(cmd[c], audit, makers, clock)
      /\ cmd[c].pc \notin {"idle", "ended", "crashed"}
  BY Before DEF Keeps, Active
<1>2. CASE o \in Owned(cmd[c].known)
  BY <1>1, <1>2, OwnMade
<1>3. CASE cmd[c].pc = "cleanup" /\ o \in cmd[c].todo
  BY <1>1, <1>3, OwnMade DEF CommandSound, TodoSound
<1>4. CASE cmd[c].pc \in {"record", "undo"} /\ cmd[c].own /\ o = AtHand(cmd[c])
  BY <1>1, <1>4 DEF CommandSound, PlaceSound
<1>5. QED
  BY <1>1, <1>2, <1>3, <1>4 DEF Keeps

\* The states that keep what the command knows.
LEMMA KeepsAs ==
  ASSUME NEW c \in Commands, NEW o,
         cmd'[c].pc \notin {"idle", "ended", "crashed"},
         \/ cmd'[c].pc # "cleanup" /\ o \in Owned(cmd'[c].known)
         \/ cmd'[c].pc = "cleanup" /\ o \in cmd'[c].todo
         \/ cmd'[c].pc \in {"record", "undo"} /\ cmd'[c].own /\ o = AtHand(cmd'[c])
  PROVE  Keeps(c, o)'
BY DEF Keeps, Active, AtHand

LEMMA KeepsRejected ==
  ASSUME NEW c \in Commands, NEW s \in Command, NEW report, NEW o \in Owned(s.known),
         cmd'[c] = Rejected(s, report) \/ cmd'[c] = Cleaning(s, report)
  PROVE  Keeps(c, o)'
<1>1. /\ Rejected(s, report).pc = "rollback" /\ Rejected(s, report).known = s.known
      /\ Cleaning(s, report).pc = "cleanup" /\ Cleaning(s, report).todo = Owned(s.known)
  BY CommandShape DEF Rejected, Cleaning
<1>2. QED
  BY <1>1, KeepsAs

\* A command that fails, or crashes, is blamed.
LEMMA BlamedAs ==
  ASSUME TypeInv, Sound, NEW c \in Commands, Step(c), NEW o \in Objects,
         cmd[c].run \in makers[o], cmd'[c].run = cmd[c].run,
         cmd'[c].pc = "crashed" \/ cmd'[c].report \in Failures
  PROVE  Blamed(c, o)'
BY MakersGrow DEF Blamed, Grown

\* In the walk, in its source receipt and in the draft.
LEMMA KeepsWalking ==
  ASSUME TypeInv, Sound, OwnerInv, NEW c \in Commands,
         NoteResume(c) \/ Source(c) \/ Start(c) \/ Put(c) \/ Reject(c),
         NEW o, Keeps(c, o)
  PROVE  Keeps(c, o)'
<1> DEFINE s == cmd[c]
<1>1. s \in Command /\ CommandSound(s, audit, makers, clock)
  BY Before
<1>2. \A t : Become(c, t) => cmd'[c] = t
  BY Becomes
<1>3. s.pc \in {"resume", "source", "start", "walk"}
  BY DEF NoteResume, Source, Start, Put, Reject
<1>4. o \in Owned(s.known)
  BY <1>3 DEF Keeps
<1>5. s.known # << >>
  BY <1>1, <1>4, OwnedMembers, CommandShape
<1>6. \/ \E report : cmd'[c] \in {Rejected(s, report), Cleaning(s, report)}
      \/ \E own : cmd'[c] \in {[s EXCEPT !.pc = "source", !.from = s.pause],
                               [s EXCEPT !.pc = "walk"],
                               [s EXCEPT !.pc = "record", !.own = own]}
  <2>1. s.pc # "start" /\ (s.pc = "source" => s.from # None)
    BY <1>1, <1>5 DEF CommandSound, PlaceSound
  <2>2. QED
    BY <1>2, <2>1 DEF NoteResume, Source, Start, Put, Reject
<1>7. CASE \E own : cmd'[c] \in {[s EXCEPT !.pc = "source", !.from = s.pause],
                                 [s EXCEPT !.pc = "walk"],
                                 [s EXCEPT !.pc = "record", !.own = own]}
  <2>1. cmd'[c].pc \in {"source", "walk", "record"} /\ cmd'[c].known = s.known
    BY <1>1, <1>7, CommandShape
  <2>2. QED
    BY <1>4, <2>1, KeepsAs
<1>8. QED
  BY <1>1, <1>4, <1>6, <1>7, KeepsRejected

LEMMA KeepsNoting ==
  ASSUME TypeInv, Sound, NEW c \in Commands, NoteObject(c), NEW o, Keeps(c, o)
  PROVE  Keeps(c, o)'
<1> DEFINE s == cmd[c]
           v == [object |-> AtHand(s), own |-> s.own]
           t == [s EXCEPT !.pc = "walk", !.own = FALSE, !.known = Append(@, v)]
           u == [s EXCEPT !.pc = "undo"]
<1>1. s \in Command /\ s.pc = "record" /\ s.run \in Runs /\ Len(s.known) < Len(Needs[s.run])
  BY Before DEF NoteObject, CommandSound, PlaceSound
<1>2. \/ cmd'[c] = t
      \/ cmd'[c] = u /\ s.own
      \/ cmd'[c] = Rejected(s, "REJECTED") /\ ~s.own
  BY Becomes DEF NoteObject, AtHand
<1>3. o \in Owned(s.known) \/ (s.own /\ o = AtHand(s))
  BY <1>1 DEF Keeps
<1>4. CASE cmd'[c] = t
  <2>1. s.known \in Seq(Verified) /\ v \in Verified /\ v.own = s.own /\ v.object = AtHand(s)
    BY <1>1, NextTyped, CommandShape DEF Verified
  <2>2. t.pc = "walk" /\ t.known = Append(s.known, v)
    BY <1>1, CommandShape
  <2> HIDE DEF v, t, s
  <2>3. Append(s.known, v) \in Seq(Verified)
    BY <2>1
  <2>4. /\ DOMAIN Append(s.known, v) = 1..Len(s.known) + 1 /\ Len(s.known) \in Nat
        /\ Append(s.known, v)[Len(s.known) + 1] = v
        /\ \A n \in DOMAIN s.known : Append(s.known, v)[n] = s.known[n]
        /\ DOMAIN s.known = 1..Len(s.known)
    BY <2>1
  <2>5. o \in Owned(Append(s.known, v))
    <3>1. CASE o \in Owned(s.known)
      <4>1. PICK n \in DOMAIN s.known : s.known[n].own /\ s.known[n].object = o
        BY <2>1, <3>1, OwnedMembers
      <4>2. n \in DOMAIN Append(s.known, v) /\ Append(s.known, v)[n] = s.known[n]
        BY <2>4, <4>1
      <4>3. QED
        BY <2>3, <4>1, <4>2, OwnedMembers
    <3>2. CASE s.own /\ o = AtHand(s)
      <4>1. Len(s.known) + 1 \in DOMAIN Append(s.known, v)
        BY <2>4
      <4>2. v.own /\ v.object = o
        BY <2>1, <3>2
      <4>3. \E n \in DOMAIN Append(s.known, v) :
              Append(s.known, v)[n].own /\ Append(s.known, v)[n].object = o
        BY <2>4, <4>1, <4>2
      <4>4. QED
        BY <2>3, <4>3, OwnedMembers
    <3>3. QED
      BY <1>3, <3>1, <3>2
  <2>6. QED
    BY <1>4, <2>2, <2>5, KeepsAs
<1>5. CASE cmd'[c] = u /\ s.own
  <2>1. u.pc = "undo" /\ u.known = s.known /\ u.own = s.own /\ u.run = s.run
    BY <1>1, CommandShape
  <2>2. AtHand(u) = AtHand(s)
    BY <2>1 DEF AtHand
  <2> HIDE DEF u, s
  <2>3. QED
    BY <1>3, <1>5, <2>1, <2>2, KeepsAs
<1>6. CASE cmd'[c] = Rejected(s, "REJECTED") /\ ~s.own
  BY <1>1, <1>3, <1>6, KeepsRejected
<1>7. QED
  BY <1>2, <1>4, <1>5, <1>6

LEMMA KeepsUndoing ==
  ASSUME TypeInv, Sound, NEW c \in Commands, Undo(c), NEW o \in Objects, Keeps(c, o),
         o \in store'
  PROVE  Keeps(c, o)' \/ Blamed(c, o)'
<1> DEFINE s == cmd[c]
           x == Needs[s.run][Len(s.known) + 1]
           t == [s EXCEPT !.own = FALSE]
<1>1. s \in Command /\ s.pc = "undo" /\ x = AtHand(s)
  BY Before DEF Undo, AtHand
<1>2. \/ Removed(x) /\ cmd'[c] = Rejected(t, "REJECTED")
      \/ (Absent(x) \/ RemoveThrows(x)) /\ cmd'[c] = Rejected(t, "UNDO_REJECTED")
  BY Becomes DEF Undo
<1>3. t \in Command /\ t.known = s.known /\ t.run = s.run
  BY <1>1, CommandShape DEF Command
<1>4. o \in Owned(s.known) \/ o = x
  BY <1>1 DEF Keeps
<1> HIDE DEF t, x, s
<1>5. CASE o \in Owned(s.known)
  BY <1>2, <1>3, <1>5, KeepsRejected
<1>6. CASE o = x
  <2>1. cmd'[c] = Rejected(t, "UNDO_REJECTED")
    BY <1>2, <1>6 DEF Removed
  <2>2. cmd'[c].report \in Failures /\ cmd'[c].run = s.run
    BY <1>3, <2>1, CommandShape DEF Rejected, Failures
  <2>3. s.run \in makers[o]
    BY KeptMade DEF s
  <2>4. QED
    BY <2>2, <2>3, BlamedAs DEF Step, s
<1>7. QED
  BY <1>4, <1>5, <1>6

LEMMA KeepsDrafting ==
  ASSUME TypeInv, Sound, NEW c \in Commands, Derive(c) \/ Complete(c) \/ Underive(c),
         NEW o, Keeps(c, o)
  PROVE  Keeps(c, o)' \/ Drafted(o)'
<1> DEFINE s == cmd[c]
<1>1. /\ s \in Command /\ s.pc \in {"walk", "complete", "underive"}
      /\ CommandSound(s, audit, makers, clock)
  BY Before DEF Derive, Complete, Underive
<1>2. o \in Owned(s.known)
  BY <1>1 DEF Keeps
<1>3. \A t : Become(c, t) => cmd'[c] = t
  BY Becomes
<1>4. CASE Derive(c)
  <2> DEFINE a == Derived(s.run, s.time)[s.step]
             u == [s EXCEPT !.made = IF a \in store THEN @ ELSE @ \cup {a}]
             t == IF s.step = 3 THEN [u EXCEPT !.pc = "complete"] ELSE [u EXCEPT !.step = @ + 1]
             w == [s EXCEPT !.pc = "underive", !.todo = s.made]
  <2>1. s.pc = "walk" /\ (cmd'[c] = t \/ cmd'[c] = w)
    BY <1>3, <1>4 DEF Derive
  <2>2. /\ t.pc \in {"walk", "complete"} /\ t.known = s.known
        /\ w.pc = "underive" /\ w.known = s.known
    BY <1>1, <2>1, CommandShape
  <2> HIDE DEF t, w
  <2>3. QED
    BY <1>2, <2>1, <2>2, KeepsAs
<1>5. CASE Complete(c)
  <2> DEFINE e == Event(s, "DRAFT_COMPLETED", Derived(s.run, s.time)[3], "NONE", 0)
             w == [s EXCEPT !.pc = "underive", !.todo = s.made]
  <2>1. s.pc = "complete" /\ (Appended(s, e) \/ cmd'[c] = w)
    BY <1>3, <1>5 DEF Complete
  <2>2. w.pc = "underive" /\ w.known = s.known
    BY <1>1, CommandShape
  <2>3. CASE Appended(s, e)
    <3>1. e \in Drafts' /\ e.run = s.run
      BY <2>3 DEF Appended, Drafts, Event
    <3>2. PICK n \in DOMAIN s.known : s.known[n].own /\ s.known[n].object = o
      BY <1>1, <1>2, OwnedMembers, CommandShape
    <3>3. n \in DOMAIN Needs[s.run] /\ Needs[s.run][n] = o
      BY <1>1, <2>1, <3>2, NeedsTyped, CommandShape DEF CommandSound, PlaceSound, KnownSound
    <3>4. QED
      BY <3>1, <3>3 DEF Drafted
  <2>4. CASE cmd'[c] = w
    <3> HIDE DEF w
    <3>1. QED
      BY <1>2, <2>2, <2>4, KeepsAs
  <2>5. QED
    BY <2>1, <2>3, <2>4
<1>6. CASE Underive(c)
  <2>1. \/ s.pc = "underive" /\ \E a : cmd'[c] = [s EXCEPT !.todo = @ \ {a}]
        \/ \E report : cmd'[c] = Rejected(s, report)
    BY <1>3, <1>6 DEF Underive
  <2>2. CASE s.pc = "underive" /\ \E a : cmd'[c] = [s EXCEPT !.todo = @ \ {a}]
    <3>1. cmd'[c].pc = "underive" /\ cmd'[c].known = s.known
      BY <1>1, <2>2, CommandShape
    <3>2. QED
      BY <1>2, <3>1, KeepsAs
  <2>3. QED
    BY <1>1, <1>2, <2>1, <2>2, KeepsRejected
<1>7. QED
  BY <1>4, <1>5, <1>6

\* In the rejection.
LEMMA KeepsRemoving ==
  ASSUME TypeInv, Sound, NEW c \in Commands, Rollback(c) \/ RollbackEnds(c), NEW o, Keeps(c, o)
  PROVE  Keeps(c, o)'
<1> DEFINE s == cmd[c]
<1>1. s \in Command /\ s.pc = "rollback" /\ o \in Owned(s.known)
  BY Before DEF Rollback, RollbackEnds, Keeps
<1>2. CASE Rollback(c)
  <2>1. \E x : cmd'[c] \in {[s EXCEPT !.todo = @ \ {x}],
                            [s EXCEPT !.todo = @ \ {x}, !.report = "ROLLBACK_REJECTED"]}
    BY <1>2, Becomes DEF Rollback
  <2>2. cmd'[c].pc = "rollback" /\ cmd'[c].known = s.known
    BY <1>1, <2>1, CommandShape
  <2>3. QED
    BY <1>1, <2>2, KeepsAs
<1>3. CASE RollbackEnds(c)
  <2>1. cmd'[c] = Cleaning(s, s.report)
    BY <1>3, Becomes DEF RollbackEnds
  <2>2. QED
    BY <1>1, <2>1, KeepsRejected
<1>4. QED
  BY <1>2, <1>3

LEMMA KeepsCleaning ==
  ASSUME TypeInv, Sound, NEW c \in Commands, Cleanup(c), NEW o \in Objects, Keeps(c, o),
         o \in store'
  PROVE  Keeps(c, o)' \/ Blamed(c, o)'
<1> DEFINE s == cmd[c]
           x == LastOf(s.todo, Needs[s.run])
           t == [s EXCEPT !.todo = @ \ {x}]
           u == [s EXCEPT !.todo = @ \ {x}, !.report = "CLEANUP_REJECTED"]
<1>1. s \in Command /\ s.pc = "cleanup" /\ o \in s.todo
  BY Before DEF Cleanup, Keeps
<1>2. \/ (x \notin store') /\ cmd'[c] = t
      \/ cmd'[c] = u
  BY Becomes DEF Cleanup, Deleted, Removed, Absent
<1>3. t.pc = "cleanup" /\ t.todo = s.todo \ {x}
  BY <1>1, CommandShape
<1>4. u.pc = "cleanup" /\ u.run = s.run /\ u.report \in Failures
  BY <1>1, CommandShape DEF Failures
<1> HIDE DEF t, u, x, s
<1>5. CASE x \notin store' /\ cmd'[c] = t
  <2>1. o \in t.todo
    BY <1>1, <1>3, <1>5
  <2>2. QED
    BY <1>3, <1>5, <2>1, KeepsAs
<1>6. CASE cmd'[c] = u
  <2>1. s.run \in makers[o]
    BY KeptMade DEF s
  <2>2. QED
    BY <1>4, <1>6, <2>1, BlamedAs DEF Step, s
<1>7. QED
  BY <1>2, <1>5, <1>6

LEMMA KeepsPausing ==
  ASSUME TypeInv, Sound, NEW c \in Commands, Pause(c) \/ PutPause(c), NEW o \in Objects,
         Keeps(c, o)
  PROVE  Keeps(c, o)' \/ Blamed(c, o)'
<1> DEFINE s == cmd[c]
<1>1. s \in Command /\ s.pc \in {"source", "walk", "pause"} /\ o \in Owned(s.known)
  BY Before DEF Pause, PutPause, Keeps
<1>2. \/ \E p, own : cmd'[c] \in {[s EXCEPT !.pc = "pause", !.pause = p],
                                  [s EXCEPT !.pc = "note", !.own = own]}
      \/ cmd'[c] = Cleaning(s, "REJECTED")
      \/ cmd'[c] = Ended(s, "CHECKPOINT_REJECTED")
  BY Becomes DEF Pause, PutPause
<1>3. CASE \E p, own : cmd'[c] \in {[s EXCEPT !.pc = "pause", !.pause = p],
                                    [s EXCEPT !.pc = "note", !.own = own]}
  <2>1. cmd'[c].pc \in {"pause", "note"} /\ cmd'[c].known = s.known
    BY <1>1, <1>3, CommandShape
  <2>2. QED
    BY <1>1, <2>1, KeepsAs
<1>4. CASE cmd'[c] = Cleaning(s, "REJECTED")
  BY <1>1, <1>4, KeepsRejected
<1>5. CASE cmd'[c] = Ended(s, "CHECKPOINT_REJECTED")
  <2>1. cmd'[c].run = s.run /\ cmd'[c].report \in Failures
    BY <1>5 DEF Ended, Failures
  <2>2. s.run \in makers[o]
    BY KeptMade
  <2>3. QED
    BY <2>1, <2>2, BlamedAs DEF Step
<1>6. QED
  BY <1>2, <1>3, <1>4, <1>5

LEMMA KeepsPaused ==
  ASSUME TypeInv, Sound, EventsSound, OwnerInv, NEW c \in Commands, NotePause(c), NEW o,
         Keeps(c, o)
  PROVE  Keeps(c, o)' \/ Waiting(c, o)'
<1> DEFINE s == cmd[c]
           e == Event(s, "RUN_PAUSED", s.pause, "NONE", 0)
<1>1. /\ s \in Command /\ s.pc = "note" /\ o \in Owned(s.known)
      /\ CommandSound(s, audit, makers, clock)
  BY Before DEF NotePause, Keeps
<1>2. /\ s.pause # None /\ s.pause \in Pauses /\ s.pause.run = s.run /\ s.pause.stored = s.known
  BY <1>1, CommandShape DEF CommandSound, PauseSound
<1>3. \/ Appended(s, e) /\ UNCHANGED store /\ cmd'[c] = Ended(s, "PAUSED")
      \/ cmd'[c] = Cleaning(s, "REJECTED")
  BY Becomes DEF NotePause
<1>4. CASE cmd'[c] = Cleaning(s, "REJECTED")
  BY <1>1, <1>4, KeepsRejected
<1>5. CASE Appended(s, e) /\ UNCHANGED store /\ cmd'[c] = Ended(s, "PAUSED")
  <2>1. /\ cmd'[c].report = "PAUSED" /\ cmd'[c].pause = s.pause /\ cmd'[c].run = s.run
    BY <1>5 DEF Ended
  <2>2. PICK n : Owning(s, n)
    BY <1>1, OwnedMembers, CommandShape DEF Owning, Working
  <2>3. s.pause \in store' /\ PausedEvent(s.pause) \notin audit
    BY <1>1, <1>5, <2>2 DEF OwnerInv, PauseIsNew, PauseIsKept
  <2>4. ResumedEvent(s.pause) \notin audit
    BY <2>3, PauseEvents DEF EventsSound, EventSound
  <2>5. e = PausedEvent(s.pause) /\ e # ResumedEvent(s.pause)
    BY <1>2, PauseEvents DEF Event, PausedEvent, PauseEvent
  <2>6. ResumedEvent(s.pause) \notin audit'
    BY <1>5, <2>4, <2>5 DEF Appended
  <2>7. Event(cmd'[c], "RUN_RESUMED", cmd'[c].pause, "NONE", 0) = ResumedEvent(s.pause)
    BY <1>2, <2>1 DEF Event, ResumedEvent, PauseEvent
  <2>8. Waits(c)'
    BY <2>1, <2>3, <2>6, <2>7 DEF Waits
  <2>9. o \in Owned(cmd'[c].pause.stored)
    BY <1>1, <1>2, <2>1
  <2>10. QED
    BY <2>8, <2>9 DEF Waiting
<1>6. QED
  BY <1>3, <1>4, <1>5

LEMMA KeepsCrashing ==
  ASSUME TypeInv, Sound, NEW c \in Commands, Crash(c), NEW o \in Objects, Keeps(c, o)
  PROVE  Blamed(c, o)'
<1>1. cmd'[c] = Crashed(cmd[c])
  BY Becomes DEF Crash
<1>2. cmd'[c].pc = "crashed" /\ cmd'[c].run = cmd[c].run
  BY <1>1 DEF Crashed, Fresh
<1>3. QED
  BY <1>2, KeptMade, BlamedAs DEF Step

LEMMA KeepsNext ==
  ASSUME TypeInv, Sound, EventsSound, OwnerInv, NEW c \in Commands, Step(c), NEW o \in Objects,
         Keeps(c, o), o \in store'
  PROVE  Answered(o)'
<1>1. CASE NoteResume(c) \/ Source(c) \/ Start(c) \/ Put(c) \/ Reject(c)
  BY <1>1, KeepsWalking DEF Answered
<1>2. CASE NoteObject(c)
  BY <1>2, KeepsNoting DEF Answered
<1>3. CASE Undo(c)
  BY <1>3, KeepsUndoing DEF Answered
<1>4. CASE Derive(c) \/ Complete(c) \/ Underive(c)
  BY <1>4, KeepsDrafting DEF Answered
<1>5. CASE Rollback(c) \/ RollbackEnds(c)
  BY <1>5, KeepsRemoving DEF Answered
<1>6. CASE Cleanup(c)
  BY <1>6, KeepsCleaning DEF Answered
<1>7. CASE CleanupEnds(c)
  BY <1>7 DEF CleanupEnds, Keeps
<1>8. CASE Pause(c) \/ PutPause(c)
  BY <1>8, KeepsPausing DEF Answered
<1>9. CASE NotePause(c)
  BY <1>9, KeepsPaused DEF Answered
<1>10. CASE Crash(c)
  BY <1>10, KeepsCrashing DEF Answered
<1>11. cmd[c].pc # "idle"
  BY KeptMade
<1>12. QED
  BY <1>1, <1>2, <1>3, <1>4, <1>5, <1>6, <1>7, <1>8, <1>9, <1>10, <1>11
     DEF Step, Run, Resume, MayBegin

\* A checkpoint goes on waiting, or the command that resumes it answers for its objects.
LEMMA WaitingNext ==
  ASSUME TypeInv, Sound, EventsSound, OwnerInv, NEW c \in Commands, Step(c), NEW d \in Commands,
         NEW o \in Objects, Waiting(d, o)
  PROVE  Answered(o)'
<1> DEFINE p == cmd[d].pause
<1>1. /\ cmd[d].report = "PAUSED" /\ p \in store /\ o \in Owned(p.stored)
      /\ Event(cmd[d], "RUN_RESUMED", p, "NONE", 0) \notin audit
  BY DEF Waiting, Waits
<1>2. /\ cmd[d].pc = "ended" /\ p \in Pauses /\ PausedEvent(p) \in audit /\ p.run = cmd[d].run
  BY <1>1, Before, CommandShape DEF CommandSound, PauseSound
<1>3. Event(cmd[d], "RUN_RESUMED", p, "NONE", 0) = ResumedEvent(p)
  BY <1>2 DEF Event, ResumedEvent, PauseEvent
<1>4. d # c
  BY <1>2 DEF Step, Run, Resume, MayBegin, NoteResume, Source, Start, Put, NoteObject, Undo,
              Reject, Derive, Complete, Underive, Rollback, RollbackEnds, Cleanup, CleanupEnds,
              Pause, PutPause, NotePause, Crash, Active
<1>5. cmd'[d] = cmd[d]
  BY <1>4, StepOthers
<1>6. p \in store'
  <2>1. ASSUME cmd[c].pc = "note", cmd[c].pause = p
        PROVE  FALSE
    <3>1. cmd[c].known = p.stored /\ cmd[c].known \in Seq(Verified)
      BY <2>1, Before, CommandShape DEF CommandSound, PauseSound
    <3>2. PICK n : Owning(cmd[c], n)
      BY <1>1, <2>1, <3>1, OwnedMembers DEF Owning, Working
    <3>3. QED
      BY <1>2, <2>1, <3>2 DEF OwnerInv, PauseIsNew
  <2>2. QED
    BY <1>1, <1>2, <2>1, PauseRemoval
<1>7. CASE ResumedEvent(p) \notin audit'
  <2>1. Waits(d)'
    BY <1>1, <1>3, <1>5, <1>6, <1>7 DEF Waits, Event
  <2>2. Waiting(d, o)'
    BY <1>1, <1>5, <2>1 DEF Waiting
  <2>3. QED
    BY <2>2 DEF Answered
<1>8. CASE ResumedEvent(p) \in audit'
  <2>1. Due(cmd[c], ResumedEvent(p))
    BY <1>1, <1>3, <1>8, Chain
  <2>2. cmd[c].pc = "resume" /\ cmd[c].pause = p
    BY <2>1, PauseEvents DEF Due
  <2>3. cmd[c].known = p.stored
    BY <2>2, Before DEF CommandSound, PauseSound
  <2>4. Keeps(c, o)
    BY <1>1, <2>2, <2>3 DEF Keeps, Active
  <2>5. NoteResume(c) \/ Crash(c)
    BY <2>2 DEF Step, Run, Resume, MayBegin, Source, Start, Put, NoteObject, Undo, Reject,
                Derive, Complete, Underive, Rollback, RollbackEnds, Cleanup, CleanupEnds,
                Pause, PutPause, NotePause
  <2>6. QED
    BY <2>4, <2>5, KeepsWalking, KeepsCrashing DEF Answered
<1>9. QED
  BY <1>7, <1>8

\* A command that is to be blamed stays so.
LEMMA BlamedNext ==
  ASSUME TypeInv, Sound, NEW c \in Commands, Step(c), NEW d \in Commands, NEW o \in Objects,
         Blamed(d, o)
  PROVE  Blamed(d, o)'
<1>1. CASE d # c
  BY <1>1, StepOthers, MakersGrow DEF Blamed, Grown
<1>2. CASE d = c
  <2> DEFINE s == cmd[c]
  <2>1. s \in Command /\ CommandSound(s, audit, makers, clock)
    BY Before
  <2>2. s.pc # "crashed" /\ s.pc # "ended"
    BY DEF Step, Run, Resume, MayBegin, NoteResume, Source, Start, Put, NoteObject, Undo,
           Reject, Derive, Complete, Underive, Rollback, RollbackEnds, Cleanup, CleanupEnds,
           Pause, PutPause, NotePause, Crash, Active
  <2>3. s.report \in Failures /\ s.run \in makers[o] /\ s.pc \in {"rollback", "cleanup"}
    BY <1>2, <2>1, <2>2 DEF Blamed, CommandSound, TodoSound, Failures
  <2>4. Rollback(c) \/ RollbackEnds(c) \/ Cleanup(c) \/ CleanupEnds(c) \/ Crash(c)
    BY <2>3 DEF Step, Run, Resume, MayBegin, NoteResume, Source, Start, Put, NoteObject, Undo,
                Reject, Derive, Complete, Underive, Pause, PutPause, NotePause
  <2>5. \/ \E x : cmd'[c] \in {[s EXCEPT !.todo = @ \ {x}],
                               [s EXCEPT !.todo = @ \ {x}, !.report = "ROLLBACK_REJECTED"],
                               [s EXCEPT !.todo = @ \ {x}, !.report = "CLEANUP_REJECTED"]}
        \/ cmd'[c] \in {Cleaning(s, s.report), Ended(s, s.report), Crashed(s)}
    BY <2>4, Becomes DEF Rollback, RollbackEnds, Cleanup, CleanupEnds, Crash
  <2>6. cmd'[c].run = s.run /\ (cmd'[c].pc = "crashed" \/ cmd'[c].report \in Failures)
    <3>1. CASE \E x : cmd'[c] \in {[s EXCEPT !.todo = @ \ {x}],
                                 [s EXCEPT !.todo = @ \ {x}, !.report = "ROLLBACK_REJECTED"],
                                 [s EXCEPT !.todo = @ \ {x}, !.report = "CLEANUP_REJECTED"]}
      BY <2>1, <2>3, <3>1, CommandShape DEF Failures
    <3>2. CASE cmd'[c] \in {Cleaning(s, s.report), Ended(s, s.report), Crashed(s)}
      BY <2>1, <2>3, <3>2, CommandShape DEF Cleaning, Ended, Crashed, Fresh
    <3>3. QED
      BY <2>5, <3>1, <3>2
  <2>7. QED
    BY <1>2, <2>3, <2>6, BlamedAs
<1>3. QED
  BY <1>1, <1>2

\* An object that is new in the store is its command's, or was left there by a put.
LEMMA Addition ==
  ASSUME TypeInv, Sound, NEW c \in Commands, Step(c), NEW o \in Objects, o \notin store,
         o \in store'
  PROVE  Keeps(c, o)' \/ o \in stray'
<1> DEFINE s == cmd[c]
<1>1. s \in Command /\ CommandSound(s, audit, makers, clock)
  BY Before
<1>2. CASE Put(c)
  <2> DEFINE x == Needs[s.run][Len(s.known) + 1]
             t == [s EXCEPT !.pc = "record", !.own = x \notin store]
  <2>1. \/ Stored(x) /\ cmd'[c] = t
        \/ PutThrows(x) /\ stray' = IF store' = store THEN stray ELSE stray \cup {x}
    BY <1>2, Becomes DEF Put
  <2>2. o = x
    BY <2>1 DEF Stored, PutThrows
  <2>3. CASE PutThrows(x) /\ stray' = IF store' = store THEN stray ELSE stray \cup {x}
    BY <2>2, <2>3
  <2>4. CASE Stored(x) /\ cmd'[c] = t
    <3>1. /\ t.pc = "record" /\ t.run = s.run /\ t.known = s.known
          /\ t.own = (x \notin store)
      BY <1>1, CommandShape
    <3>2. AtHand(t) = x
      BY <3>1 DEF AtHand
    <3> HIDE DEF t, x
    <3>3. t.own
      BY <2>2, <3>1
    <3>4. QED
      BY <2>2, <2>4, <3>1, <3>2, <3>3, KeepsAs
  <2>5. QED
    BY <2>1, <2>3, <2>4
<1>3. CASE Derive(c)
  <2>1. Derived(s.run, s.time)[s.step] \in Artifacts
    BY <1>1, <1>3, DerivedTyped, CommandShape DEF Derive, CommandSound, PlaceSound
  <2>2. o \in Artifacts
    BY <1>3, <2>1 DEF Derive, Stored, PutThrows
  <2>3. QED
    BY <2>2, KindAssumption
<1>4. CASE PutPause(c)
  <2>1. s.pause \in Pauses
    BY <1>1, <1>4, CommandShape DEF PutPause, CommandSound, PauseSound
  <2>2. o = s.pause
    BY <1>4 DEF PutPause, Stored, PutThrows
  <2>3. QED
    BY <2>1, <2>2, KindAssumption
<1>5. CASE \/ \E r \in Runs : Run(c, r)
           \/ \E d \in Commands : cmd[d].report = "PAUSED" /\ Resume(c, cmd[d].pause)
           \/ NoteResume(c) \/ Source(c) \/ Start(c) \/ NoteObject(c) \/ Undo(c) \/ Reject(c)
           \/ Complete(c) \/ Underive(c) \/ Rollback(c) \/ RollbackEnds(c) \/ Cleanup(c)
           \/ CleanupEnds(c) \/ Pause(c) \/ NotePause(c) \/ Crash(c)
  <2>1. store' \subseteq store
    BY <1>5 DEF Run, Resume, NoteResume, Source, Start, NoteObject, Undo, Reject, Complete,
                Underive, Rollback, RollbackEnds, Cleanup, CleanupEnds, Pause, NotePause, Crash,
                Deleted, Removed, Absent, RemoveThrows
  <2>2. QED
    BY <2>1
<1>6. QED
  BY <1>2, <1>3, <1>4, <1>5 DEF Step

LEMMA NextAccounted ==
  ASSUME TypeInv, Sound, EventsSound, OwnerInv, Accounted, [Next]_vars
  PROVE  Accounted'
<1>1. CASE UNCHANGED <<store, cmd, audit, makers, stray>>
  BY <1>1 DEF Accounted, Answered, Keeps, Active, AtHand, Waiting, Waits, Drafted, Drafts, Blamed
<1>2. ASSUME NEW c \in Commands, Step(c), NEW o \in Objects, o \in store'
      PROVE  Answered(o)'
  <2>1. CASE o \notin store
    BY <1>2, <2>1, Addition DEF Answered
  <2>2. CASE o \in store
    <3>1. Answered(o)
      BY <2>2 DEF Accounted
    <3>2. ASSUME NEW d \in Commands, Keeps(d, o)
          PROVE  Answered(o)'
      <4>1. CASE d = c
        BY <1>2, <3>2, <4>1, KeepsNext
      <4>2. CASE d # c
        <5>1. cmd'[d] = cmd[d]
          BY <1>2, <4>2, StepOthers
        <5>2. Keeps(d, o)'
          BY <3>2, <5>1 DEF Keeps, Active, AtHand
        <5>3. QED
          BY <5>2 DEF Answered
      <4>3. QED
        BY <4>1, <4>2
    <3>3. ASSUME NEW d \in Commands, Waiting(d, o)
          PROVE  Answered(o)'
      BY <1>2, <3>3, WaitingNext
    <3>4. CASE Drafted(o)
      <4>1. Drafts \subseteq Drafts'
        BY <1>2, Chain DEF Drafts
      <4>2. QED
        BY <3>4, <4>1 DEF Drafted, Answered
    <3>5. ASSUME NEW d \in Commands, Blamed(d, o)
          PROVE  Answered(o)'
      BY <1>2, <3>5, BlamedNext DEF Answered
    <3>6. CASE o \in stray
      <4>1. stray \subseteq stray'
        BY <1>2 DEF Step, Run, Resume, NoteResume, Source, Start, Put, NoteObject, Undo, Reject,
                    Derive, Complete, Underive, Rollback, RollbackEnds, Cleanup, CleanupEnds,
                    Pause, PutPause, NotePause, Crash
      <4>2. QED
        BY <3>6, <4>1 DEF Answered
    <3>7. QED
      BY <3>1, <3>2, <3>3, <3>4, <3>5, <3>6 DEF Answered
  <2>3. QED
    BY <2>1, <2>2
<1>3. ASSUME NEW c \in Commands, Step(c)
      PROVE  Accounted'
  BY <1>2, <1>3 DEF Accounted
<1>4. QED
  BY <1>1, <1>3 DEF Next, Tick, vars

(* An object in the store is answered for: by a command at work, by a      *)
(* checkpoint still to be resumed, by a draft, by a command that crashed   *)
(* or told of its failure, or by a put that threw. The rejection of        *)
(* runOperatorCommand removes the rest.                                    *)
THEOREM NothingStaysInSilence == Spec => []NothingLeftInSilence
<1>1. Init => Accounted
  BY DEF Init, Accounted
<1>2. TypeInv /\ Sound /\ EventsSound /\ OwnerInv /\ Accounted /\ [Next]_vars => Accounted'
  BY NextAccounted
<1>3. ASSUME TypeInv, Sound, Accounted
      PROVE  NothingLeftInSilence
  <2>1. ASSUME NEW c \in Commands, NEW o, Keeps(c, o)
        PROVE  Holds(c, o)
    <3>1. cmd[c].pc = "cleanup" => cmd[c].todo \subseteq Owned(cmd[c].known)
      BY <1>3, Before DEF CommandSound, TodoSound
    <3>2. QED
      BY <2>1, <3>1 DEF Keeps, Holds, AtHand
  <2>2. QED
    BY <1>3, <2>1 DEF Accounted, Answered, Waiting, Drafted, Blamed, NothingLeftInSilence
<1>4. TypeInv /\ Sound /\ Accounted => NothingLeftInSilence
  BY <1>3
<1>5. QED
  BY <1>1, <1>2, <1>4, Basics, Events, Owners, PTL DEF Spec
===============================================================================
