----------------------------- MODULE ContentWork -----------------------------
(***************************************************************************)
(* The work on the content: the local experiment is prepared over bounded  *)
(* requests and published; an acquisition is authorized and walks its      *)
(* source; what was acquired is reviewed, promoted and admitted to the     *)
(* inventory; what was played is measured.                                 *)
(*                                                                         *)
(* These are commands and libraries that run on their own and meet in      *)
(* files and arguments, which their modules let range over everything a    *)
(* caller may hold. A behaviour here is one of some part, with the others  *)
(* at rest.                                                                *)
(***************************************************************************)
EXTENDS Integers, Sequences, FiniteSets

CONSTANTS
  \* publication and preparation of the experiment
  MaxPublications, Missing, Torn,
  ExperimentSources, Configurations, BlobAttempts, MaxCandidates, MaxPreparations,
  \* its requests
  Keys, Searches, Concurrent, RequestLimit, PageLimit, RunRetries, MaxWait, MaxTotalWait,
  Waits, MaxStages,
  \* the walk of a source
  Repositories, Subtree, Rules, Supported, Excluded, LicenceNames, MaxTreeEntries,
  MaxSelectedBlobs, MaxRequests, MaxResponseBytes, Sizes, MaxPauses,
  MaxDiffLines, Ineligible, ContextLines, MaxExcerpt,
  \* evidence, review and readiness
  DraftInputs, Catalogues, CandidateSets, Records, NameLists, Opinions, Selections,
  MaxReviews, MaxResults,
  \* authorizations
  Requests, Entries, Registers, Bindings, Regimes, Skew, MaxTime, MaxRuns, None,
  \* measurement
  Players, BetaDays, Plans, RoundMode, OpportunitySets, MaxInstant

VARIABLES
  part,
  step, entries, durable, flushed, holds, previous, artifact, outcome,
  stagePhase, attempt, seen, provenance, language, turn, attempts, report, published,
  calls, lease, meter, pages, retry, responses, received, stage, accepted, failed, replay,
  repository, phase, side, cursor, pending, selected, counted, trees, blobs, identities,
  transport, candidate, pauses,
  records, reviews, certified, promotions, inventory,
  time, controls, descriptor, run, pause, sources, regime,
  plan, log, disposition, excludedAt, instant

store == <<step, entries, durable, flushed, holds, previous, artifact, outcome>>
preparation ==
  <<stagePhase, attempt, seen, provenance, language, turn, attempts, report, published>>
requesting ==
  <<calls, lease, meter, pages, retry, responses, received, stage, accepted, failed, replay>>
walk ==
  <<repository, phase, side, cursor, pending, selected, counted, trees, blobs, identities,
    transport, candidate, pauses>>
corpus == <<records, reviews, certified, promotions, inventory>>
authorizations == <<time, controls, descriptor, run, pause, sources, regime>>
measurement == <<plan, log, disposition, excludedAt, instant>>

vars == <<part, store, preparation, requesting, walk, corpus, authorizations, measurement>>

Store == INSTANCE ArtifactStore
Preparing == INSTANCE Preparation WITH Sources <- ExperimentSources, phase <- stagePhase,
                                       blobs <- attempts
Runtime == INSTANCE RequestRuntime WITH transport <- meter
Walk == INSTANCE SourceWalk
Content == INSTANCE Corpus
Authorization == INSTANCE Authorizations
Measure == INSTANCE Measurement

\* The assumptions of the parts about their constants.
ASSUME WorkAssumption ==
  /\ Store!ArtifactAssumption /\ Preparing!PreparationAssumption /\ Runtime!RuntimeAssumption
  /\ Walk!SourceWalkAssumption /\ Content!CorpusAssumption
  /\ Authorization!AuthorizationsAssumption /\ Measure!MeasurementAssumption
-----------------------------------------------------------------------------
Parts == {"artifact", "preparation", "requests", "walk", "corpus", "run", "regime", "measurement"}

\* A part at rest has one of its initial states.
Init ==
  /\ part \in Parts
  /\ Store!Init /\ (part # "artifact" => previous = {0})
  /\ Preparing!Init
  /\ Runtime!Init
  /\ Walk!Init /\ (part # "walk" => repository = CHOOSE r \in Repositories : TRUE)
  /\ Content!Init /\ (part # "corpus" =>
                       records = Content!Unreviewed(CHOOSE r \in Records : TRUE))
  /\ Authorization!Init /\ (part # "run" => controls = CHOOSE r \in Registers : TRUE)
  /\ Measure!Init /\ (part # "measurement" => plan = CHOOSE p \in Plans : TRUE)

StoreStep ==
  /\ part = "artifact" /\ Store!Next
  /\ UNCHANGED <<part, preparation, requesting, walk, corpus, authorizations, measurement>>
PreparationStep ==
  /\ part = "preparation" /\ Preparing!Next
  /\ UNCHANGED <<part, store, requesting, walk, corpus, authorizations, measurement>>
RuntimeStep ==
  /\ part = "requests" /\ Runtime!Next
  /\ UNCHANGED <<part, store, preparation, walk, corpus, authorizations, measurement>>
WalkStep ==
  /\ part = "walk" /\ Walk!Next
  /\ UNCHANGED <<part, store, preparation, requesting, corpus, authorizations, measurement>>
CorpusStep ==
  /\ part = "corpus" /\ Content!Next
  /\ UNCHANGED <<part, store, preparation, requesting, walk, authorizations, measurement>>
AuthorizationStep ==
  /\ \/ part = "run" /\ Authorization!RunNext
     \/ part = "regime" /\ Authorization!RegimeNext
  /\ UNCHANGED <<part, store, preparation, requesting, walk, corpus, measurement>>
MeasurementStep ==
  /\ part = "measurement" /\ Measure!Next
  /\ UNCHANGED <<part, store, preparation, requesting, walk, corpus, authorizations>>

Next ==
  \/ StoreStep \/ PreparationStep \/ RuntimeStep \/ WalkStep \/ CorpusStep
  \/ AuthorizationStep \/ MeasurementStep

Spec == Init /\ [][Next]_vars
-----------------------------------------------------------------------------
(* What the parts promise, one invariant each; their modules say more of   *)
(* the conjuncts.                                                          *)

(* The published experiment is the old one or the new one, whatever throws *)
(* and whenever the machine stops, and is composed of one complete set of  *)
(* selections (publishArtifact, prepareLocalExperiment).                   *)
ExperimentIsWhole ==
  /\ part = "artifact" => Store!TargetIsWhole
  /\ part = "preparation" => Preparing!ExperimentIsWhole

(* Whatever the walk of a source keeps is the object of its identity,      *)
(* through cut answers, false answers and pauses (walkRevision,            *)
(* loadedObjects).                                                         *)
KeptIsVerified == part = "walk" => Walk!KeptIsVerified

(* A draft comes from the whole of the approved subtree of both revisions  *)
(* (walkRevision, executeOrchestration).                                   *)
RevisionIsWhole == part = "walk" => Walk!RevisionIsWhole

(* The material of the experiment and of its drafts is whole: what is      *)
(* published, what is kept of a source, and what is selected from it.      *)
MaterialIsWhole == ExperimentIsWhole /\ KeptIsVerified /\ RevisionIsWhole

(* Every request in flight and every answer is counted as sent, within the *)
(* limits, whatever overlaps, and a replay reads what was accepted         *)
(* (createPreparationRuntime, createRequestLease, performRequest).         *)
RequestsAreAccountedFor == part = "requests" => Runtime!RequestsAreAccountedFor

(* What is promoted, certified or ready was reviewed by four people, and a *)
(* ready entry is what was promoted, if it was                             *)
(* (createLanguageAmbiguityEligibility, promoteAcquisitionDraft,           *)
(* evaluateCorpusReadiness).                                               *)
InventoryIsReviewed == part = "corpus" => Content!InventoryIsReviewed

(* Every source was received for a request that its registers permitted    *)
(* (authorizeExecutionDescriptor, SourceRegimeControl).                    *)
RunsAreAuthorized == part \in {"run", "regime"} => Authorization!RunsAreAuthorized

(* Every measure is one of what was authoritative and visible              *)
(* (calculateCoherenceMeasures, sharedPromiseComprehension).               *)
MeasuresAreSound == part = "measurement" => Measure!MeasuresAreSound
=============================================================================
