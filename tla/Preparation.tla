----------------------------- MODULE Preparation -----------------------------
(***************************************************************************)
(* prepareLocalExperiment: three provenance sources and two language       *)
(* sources are selected, bound to one snapshot, described in a report and  *)
(* published. A run that throws anywhere, or stops, leaves the report and  *)
(* the artifact as they are; the next run starts anew.                     *)
(*                                                                         *)
(* Of a candidate the model keeps its source, by which duplicates are      *)
(* known, and whether its commit message carries a marker. What a stage    *)
(* answers about a candidate is any answer.                                *)
(***************************************************************************)
EXTENDS Integers, Sequences, FiniteSets, SequencesExt

CONSTANTS
  Sources,         \* source identities, profile.deduplication
  Configurations,  \* profile.stack.configurations, in order
  BlobAttempts,    \* capacity.blobAttempts
  MaxCandidates,   \* bound on the answers of the commit search
  MaxPreparations  \* bound on the runs

\* Assumed of the constants, and evaluated where the module is composed.
PreparationAssumption ==
  /\ {BlobAttempts, MaxCandidates, MaxPreparations} \subseteq Nat
  /\ Configurations \in [1..2 -> STRING]

VARIABLES
  phase,       \* what the run does next
  attempt,     \* which run it is, counted from 1
  seen,        \* candidates of the pool that were looked at
  provenance,  \* selected by selectGitHub
  language,    \* selected by selectStack
  turn,        \* the configuration selectStack is at
  blobs,       \* capacity meter: blobAttempts
  report,      \* the run whose report is on the disk
  published    \* the run whose artifact is on the disk, composed of its selections

preparationVars == <<phase, attempt, seen, provenance, language, turn, blobs, report, published>>

Candidate == [source : Sources, marked : BOOLEAN]
Selection == [source : Sources, language : Range(Configurations)]
Outcomes(candidates) == {candidates[i].marked : i \in DOMAIN candidates}
Enough(candidates) == Len(candidates) >= 3 /\ Outcomes(candidates) = BOOLEAN
CollidesWithSelected(c, selected) == \E i \in DOMAIN selected : selected[i].source = c.source
-----------------------------------------------------------------------------
Begin ==
  /\ phase \in {"idle", "done", "failed"} /\ attempt < MaxPreparations
  /\ phase' = "github"
  /\ attempt' = attempt + 1
  /\ seen' = 0 /\ provenance' = <<>> /\ language' = <<>> /\ turn' = 1 /\ blobs' = 0
  /\ UNCHANGED <<report, published>>

(* The next candidate of the pool is bound and admitted, and selected if   *)
(* no selected one has its source; or one of these steps rejects it.       *)
Consider(c, admitted) ==
  /\ phase = "github" /\ seen < MaxCandidates /\ ~Enough(provenance)
  /\ seen' = seen + 1
  /\ provenance' = IF admitted /\ ~CollidesWithSelected(c, provenance)
                   THEN Append(provenance, c) ELSE provenance
  /\ UNCHANGED <<phase, attempt, language, turn, blobs, report, published>>

\* The first of either outcome, and the first of the others.
Required(candidates) ==
  LET First(m) == CHOOSE i \in DOMAIN candidates :
                    /\ candidates[i].marked = m
                    /\ \A j \in 1..(i - 1) : candidates[j].marked # m
      both == {First(TRUE), First(FALSE)}
      third == CHOOSE i \in DOMAIN candidates \ both : \A j \in 1..(i - 1) : j \in both
  IN  both \cup {third}
\* Three places, in the order in which they were selected.
InOrder(places) ==
  CHOOSE order \in [1..3 -> places] : \A m, n \in 1..3 : m < n => order[m] < order[n]
SelectGitHub ==
  /\ phase = "github" /\ Enough(provenance)
  /\ provenance' = [n \in 1..3 |-> provenance[InOrder(Required(provenance))[n]]]
  /\ phase' = "stack"
  /\ UNCHANGED <<attempt, seen, language, turn, blobs, report, published>>

(* The next row of the configuration: its blob is fetched, revalidated and *)
(* screened, and selected if no source was used before. Each row counts as *)
(* an attempt; one attempt too many ends the run.                          *)
TryRow(c, eligible) ==
  LET chosen == [source |-> c, language |-> Configurations[turn]]
      accepted == eligible /\ ~CollidesWithSelected(chosen, provenance \o language)
  IN  /\ phase = "stack" /\ turn \in DOMAIN Configurations /\ blobs < BlobAttempts
      /\ blobs' = blobs + 1
      /\ language' = IF accepted THEN Append(language, chosen) ELSE language
      /\ turn' = IF accepted THEN turn + 1 ELSE turn
      /\ UNCHANGED <<phase, attempt, seen, provenance, report, published>>

RowsRunOut ==
  /\ phase = "stack" /\ turn \in DOMAIN Configurations
  /\ turn' = turn + 1
  /\ UNCHANGED <<phase, attempt, seen, provenance, language, blobs, report, published>>

(* The bindings are made again for the snapshot of all accepted answers,   *)
(* rounds are generated and the artifact composed; the report comes first. *)
WriteReport ==
  /\ phase = "stack" /\ turn \notin DOMAIN Configurations /\ Len(language) = 2
  /\ report' = attempt
  /\ phase' = "publish"
  /\ UNCHANGED <<attempt, seen, provenance, language, turn, blobs, published>>

Publish ==
  /\ phase = "publish"
  /\ published' = attempt
  \* publishArtifact may throw after the new artifact is in its place
  /\ phase' \in {"done", "failed"}
  /\ UNCHANGED <<attempt, seen, provenance, language, turn, blobs, report>>

(* Any step throws, or the process ends.                                   *)
Fail ==
  /\ phase \in {"github", "stack", "publish"}
  /\ phase' = "failed"
  /\ UNCHANGED <<attempt, seen, provenance, language, turn, blobs, report, published>>
-----------------------------------------------------------------------------
Init ==
  /\ phase = "idle" /\ attempt = 0
  /\ seen = 0 /\ provenance = <<>> /\ language = <<>> /\ turn = 1 /\ blobs = 0
  /\ report = 0 /\ published = 0

Next ==
  \/ Begin \/ SelectGitHub \/ RowsRunOut \/ WriteReport \/ Publish \/ Fail
  \/ \E s \in Sources, m, admitted \in BOOLEAN : Consider([source |-> s, marked |-> m], admitted)
  \/ \E s \in Sources, eligible \in BOOLEAN : TryRow(s, eligible)

Spec == Init /\ [][Next]_preparationVars
-----------------------------------------------------------------------------
(* Properties.                                                             *)

\* Every variable keeps its type.
TypeOK ==
  /\ phase \in {"idle", "github", "stack", "publish", "done", "failed"}
  /\ attempt \in 0..MaxPreparations /\ report \in 0..attempt /\ published \in 0..attempt
  /\ seen \in 0..MaxCandidates /\ blobs \in 0..BlobAttempts /\ turn \in 1..3
  /\ provenance \in Seq(Candidate) /\ language \in Seq(Selection)

(* An artifact is never newer than the report, and of the same run when    *)
(* the command succeeded. It holds three provenance sources, marked and    *)
(* unmarked, and one source for each stack configuration; no source twice. *)
ExperimentIsWhole ==
  LET all == provenance \o language
  IN  /\ published <= report
      /\ phase = "done" => published = attempt /\ report = attempt
      /\ published > 0 /\ published = attempt =>
           /\ Len(provenance) = 3 /\ Outcomes(provenance) = BOOLEAN
           /\ [n \in DOMAIN language |-> language[n].language] = Configurations
           /\ \A i, j \in DOMAIN all : all[i].source = all[j].source => i = j
=============================================================================
