# CodeGuessr in TLA+

CodeGuessr is a guessing game about code: a player sees a snippet and names its
language, or says whether an agent wrote it, and may buy clues with points. The
repository holds the deployed page with its server action, a set of server
registries for a closed beta (invitations, daily credentials, protected reveals,
evidence, withdrawals), the domain rules they share, and operator tools that
acquire the source material. This directory models the parts of it whose
correctness depends on an order of events, checks them with TLC and proves the
most important properties for every size with TLAPS.

    tlc -config MC_RoundReveal.cfg MC_RoundReveal      # a run
    tlapm RoundReveal_proofs.tla                       # the proofs of a module

## The system

| Part | State | Operations | What is hard |
|---|---|---|---|
| Arcade page (`apps/game/src/components/arcade`, `demo/demo-game.ts`) | session on the screen, selection, busy and error flags; nothing on the server | choose, hint, submit, next, restart; the server action answers or fails | asynchronous call answered from a closure; lost replies and retries; score kept by the client |
| Flows and round play (`modes/*/server`, `domain/round`) | immutable values | accept a clue, accept an answer, reveal | old values can be used again |
| Reveal authority (`server/reveal`) | entitlement, used | issue, authorize | many callers, one release; checks after consumption |
| Daily credentials (`server/security`) | records, issued days, spent keys, corrections, withdrawals | issue, authorizeAndApply, revoke, cascadeRevoke, withdraw, correct | mutations that call back or throw; times claimed by callers |
| Enrollment (`server/identity/enrollment`) | cohort rule, invitations, credentials, enrollments | record rule, issue, enroll, reissue, revoke | operations that fail halfway |
| Acquisition command (`ops/content/acquire`, `content/src/acquisition`) | encrypted object store, audit chain, pause checkpoints; per command its verified objects | run, pause, resume, roll back, clean up | concurrent commands without locks, crashes, rate limits, writes that throw after taking effect |
| Consent, withdrawal, deletion cases (`identity/consent`, `privacy/withdrawal`) | ledgers and immutable cases | record, withdraw, step | commit and rollback across ports |
| Evidence vault and restore (`content/vault`, `privacy/providers`) | records, tombstones, restores | store, read, delete, begin and complete a restore, replay ledgers | readings that call back; operations that throw halfway |
| Complaints, incidents, release gate (`content/corrections`, `operations`) | immutable cases | ordered steps with deadlines | deadlines, independence of roles |
| Session, results, manifests (`domain/session`, `results`, `manifest`) | immutable values | transitions, corrections, promotion, issue | two values of one session, versions replaced while sessions run |
| Experiment preparation (`ops/poc/prepare`) | response cache, counters, report and artifact files | fetch with retries, replay, publish | timeouts, shared budgets, partial publication |
| Run authorization, source walk (`content/src/acquisition`) | registers, descriptors, checkpoint; kept objects | authorize, resume; walk, screen, choose | registers revised while a command holds a copy, cut answers, rate limits |
| Content rules (`content/src/{evidence,review,promotion,readiness,...}`) | none: pure checks of what they are handed | review, certify, promote, assess | mixtures of versions, one person in two roles |
| Measurement (`measurement`) | none: formulas over a log | coherence, scores, denominators | boundaries, corrections and withdrawals before and after |

How they interact. The page calls the server action and carries its own score.
A flow asks an authority for the payload of an accepted answer. The operator who
issues a daily credential takes the participant's lineage from the enrollment
registry, and revoking an invitation calls the daily registry through a port.
Commands of the acquisition share the store and the chain, and only exclusive
file creation keeps them apart. Withdrawal prepares a cascade over the
credentials and commits it with its facts; the vault, the restore coordinator
and the legal holds share copies. `PROJECT.json` lists every component with its
status, and every hazard at its line.

What makes each part correct:

- page: a run scores its rounds in order, once each, for the clues shown; a call
  always ends and can always be answered;
- authority and flows: one release for an authority, within its entitlement,
  points by the rules and for the certified candidate;
- daily credentials: a mutation key runs once, one credential a day, nothing runs
  outside lifetime and scope, dead credentials stay dead;
- enrollment: one live token, tokens and lineages identify, revocation is final
  and, once audited, has reached everything that descended from the invitation;
- acquisition: a draft's objects are all on the chain, a run removes only what it
  created, nothing stays behind in silence, a checkpoint is resumed once;
- vault: evidence is kept with one content and deleted for good, data in
  quarantine is out of reach until its ledgers were replayed, a restore is closed
  only as a whole, the audit trail tells what happened;
- session, results, manifests: corrected rounds leave score and completion
  consistent, a session keeps the manifest version it was issued, nobody plays a
  round twice;
- withdrawal, holds, consent: what is on file agrees with what was done, a hold
  runs out, the analysis state follows from the facts whatever their order;
- gate, complaints, incidents, restore: the second half opens on signed evidence,
  decisions come in order from somebody else, no outage is excused twice, nothing
  is exposed before all ledgers were applied;
- acquisition work: a source is received only for what two people had approved,
  every object is verified, the inventory was reviewed by four people;
- preparation: budgets hold and the artifact is whole through crashes. (A report
  of success does not mean a published artifact: it is written first,
  `prepare/index.ts:178`, and nothing takes it back.)

## Modules

| Module | Models | Checked by |
|---|---|---|
| `ScoredRun` | what a run of the game promises | refined by `ArcadeSession` |
| `ArcadeSession` | the page and its server action | run `arcade`, `ArcadeSession_proofs` |
| `RoundReveal` | flows, round play and reveal authorities | run `reveal`, `RoundReveal_proofs` |
| `DailyCredentials` | the registry of daily credentials | run `credentials`, `DailyCredentials_proofs` |
| `Enrollment` | the enrollment registry | runs `operations` and `access` |
| `ParticipantAccess` | both registries with the cascade port and the lineage lookup | runs `access` and `padded_revocation`, `ParticipantAccess_proofs` |
| `Acquisition` | the operator command over store and chain | runs `acquisition` and `draft_repeated`, `Acquisition_proofs` |
| `EvidenceLifecycle` | what the vault promises of the evidence | refined by `EvidenceVault` |
| `EvidenceVault` | the vault, with its quarantined restores | runs `vault` and `deletion_unaudited`, `EvidenceVault_proofs` |
| `BetaOperations` | composes the next nine and `Enrollment` | runs `operations` and `gate_unreadable`, `BetaOperations_proofs` |
| `Day8Gate` | calendar, evaluation of day 7, authorization of day 8 | |
| `ManifestBook` | lineages of manifests, promotions of a version, issue | |
| `SessionResults` | a session and the view of its results | |
| `Withdrawals` | the withdrawal cascade and the deletion cases | |
| `LegalHolds` | retention deadlines and holds | |
| `ParticipantLedger` | policies, consent, the analysis state | |
| `ComplaintCases` | a complaint from receipt to decision | |
| `Incidents` | outages, availability, streaks, delivery | |
| `RestoreCoordinator` | ledgers replayed against a sealed backup | |
| `ContentWork` | composes the rest | run `content`, `ContentWork_proofs` |
| `ArtifactStore` | publication of the experiment, file by file | |
| `Preparation` | selection of the five sources of an experiment | |
| `RequestRuntime` | meter, bounded transport, retries, replay | |
| `SourceWalk` | the walk of two trees, screening, the choice of a draft | |
| `ChangedLines` | the lines a commit changed, against a reference definition | used by `SourceWalk` |
| `Corpus` | evidence, reviews, certificates, promotion, inventory | |
| `Authorizations` | registers, descriptors, the authorization of a run, source regimes | |
| `Measurement` | event logs and the formulas over them | |

`ArcadeSession`. `session`, `selection`, `busy` and `error` are the React state;
`call` is the request in flight together with the session the submit handler
closed over; `shown` is a history variable, the clues that were on the screen in
the current round. `Resolve` computes the next session from the closure, as the
code does, and not from the screen. That the two agree follows from what is
enabled while a call is in flight, and is what the properties are about. The
server keeps nothing, so it is the predicate `ServerAccepts` and the function
`ServerReveal`. A call may be lost before or after the server ran: to the page
both are `Reject`.

`RoundReveal`. A holder is a caller with a flow value; two holders of one round
are a fork of it. An authority is one mutable object. Denials come in the order
of the code, and consumption before the re-checks that may throw: a release that
a flow then refuses leaves `released` at one and no outcome.

`DailyCredentials`. Mutations are callbacks, so `applying` is a stack: any
operation may happen inside a mutation, `Finish` returns from the innermost.
Keys are spent before the mutation runs. The keys the registry composes of a
credential id and a mutation key or round go through `KeyOf` and `RoundOf`,
which need not be injective, as a join with a colon need not be. Instants are
hours and whatever the caller claims. The registry trims the ids it keeps of an
issue and of a correction (`text`, `daily-credentials.ts:93`) and looks up what a
later call names as it is written, so `Trim` says which id is left of an id with
blanks around it: a credential is kept under the trimmed id with the trimmed id of
its invitation, a correction under the trimmed id of its round (`asked` remembers the
id as it was given), while uses and cascades name ids of any kind. Nothing else trims
the ids of rounds and invitations, so both kinds reach the registry.

`Enrollment`. Each operation is one step that may succeed or throw where the code
can, and leaves what the code has written by then: an invitation without a live
credential, a reissue that only revoked. `ParticipantAccess` takes the two
registries' modules by INSTANCE and adds the port: in `Revoke` the cascade came
through, and the port returned, so that the revocation is audited, or threw on what
came next (`portReturns`); in `RevokeFails` the port threw before. `issuedFor`
remembers the invitation each daily credential was issued for as enrollment writes
it, and `descendants` those there were at each audited revocation: the properties are
about these, and not about the id the registry kept.

`Acquisition`. A command is a process with a `pc`; every await that touches the
store or the chain is a step of its own, and `Tick` moves the clock. An event is
its identity (what the code hashes), so a duplicate is refused for the same
reason. `fault` chooses, once for a behaviour, what fails for no reason of its
own: puts that throw with or without having published, removals likewise, appends
likewise, or crashes. Refusals that have a reason (duplicate or older events,
removed objects, a limit that is over) happen in every behaviour. A fault of each
kind may strike any number of times; kinds are not combined, so no behaviour has both
a crash and a failing append. A put, a removal and an append are single steps. A put
takes effect by a rename and a removal by an unlink. An append creates its file empty
(`audit.ts:211`) and writes it next (216): another command that reads the chain in
between, or after a crash in between, finds a file that is no record and is refused.
That moment, and the lock and staging files of the store, are not modelled. A command
that ends with an error has told the operator so, and no more: for a checkpoint that
could not be put on file the command line prints only `COMMAND_REJECTED`
(`acquire/index.ts:475`), so what stays behind is announced without being named. Fetching, authorizing and
screening are choices between success, rejection and a rate limit.

`EvidenceVault`. The variables are the private fields of the class, plus
`readings`: the callbacks that hold plaintext, innermost last, since a callback
may call the vault again before `withEvidenceAccess` returns. A call that throws
is a step only if it has changed something by then. That is `Delete` with a blank
destination, after the evidence is gone, and `CompleteRestore` when it meets an
entry that is already kept: what the loop brought before stays, and the restore
stays open. A record's plaintext, envelope and minimization are one `version`.
Operators date their calls with the clock. The trail files evidence ids and
restore ids in one field; the module assumes that they differ. `EvidenceLifecycle`
sees a piece of evidence as absent, kept with a content, or deleted.

`BetaOperations` and `ContentWork`. The parts composed in each share no state in
the code: each receives what it needs of the others as an argument, and each
module lets these arguments range over what a caller may hold, inconsistent and
outdated values included, as far as its constants offer them. Where a function only
works on facts its caller states (`promoteReserveBeforeIssue` on the number of sessions
issued, `quarantineAffectedRound` on the rounds affected) it is not modelled. So a behaviour of a composition is one of some part, with
the others at rest; interleaving two parts could not show more. The exceptions
really do share something and are composed action by action: the two registries in
`ParticipantAccess`, the store and the chain in `Acquisition`. What a part assumes of
its constants is a definition of its module, and the composition assumes them all.
The compositions' invariants carry one name for each part and are conjunctions of
properties stated beside the part.

`Day8Gate` keeps the stored authorization as the sequence of attempts that the
code serializes; `Parses` is what reading it back verifies. A departure rationale names
a report and no version (`validateRationale`): one signed after a new version of the
report counts for it, whichever version its author had read. `ManifestBook` and
`SessionResults` follow a caller who goes on with the latest value; a version of a
manifest is promoted before or after sessions were issued it, since the book does not
ask. Lineages and copy ids are taken without blanks around them: `withdraw` trims the
lineage (`withdrawal.ts:151`) and its readers do not (167 to 169), `begin` trims copy
ids (`providers.ts:145`) and the effects of a ledger are not trimmed (160 and 175).
`SessionResults` has both values of a session, the state and the view, since the
view is made once and then lives its own life. `Withdrawals` takes the store and the
cascade as ports that do all or throw. `RestoreCoordinator` gives every call of its
vault three outcomes: done, refused, or done and thrown. `ArtifactStore` takes a
publication apart into its file operations, each of which may throw, and has two
directories, the one processes see and the one on the disk; a crash keeps, of each
entry that was not synced, either. In `RequestRuntime` an answer may arrive after
the stage that asked for it has thrown. `SourceWalk` gives GitHub's answer to each
request: the object, a cut one, another one, a rate limit or none. `Corpus` lets
every check be called with any mixture of versions of draft, record, catalogue and
reviews, and the readiness check with any receipt, whether a promotion gave it or
somebody wrote it; the reviewers of a record are compared as the code does, by the
line of text their ids are joined to (`Joined`), and a name may hold the separator. An
inventory may be authentic or synthetic, and only the entries of the first are held to
a class and a receipt. `Measurement` takes exclusions with the instant they take effect
and opportunities to return with their flags as the inputs they are; it refuses what
the code refuses, an exclusion after the boundary and an opportunity without a start
included. It leaves out the interviews, whether an answer was right, the reasons of
exclusions and the versions an input binds. In `Authorizations` the registers are revised between any two steps of a
command.

## Runs

| Run | Instance | Shows |
|---|---|---|
| `arcade` | five rounds, two clues, a right and a wrong candidate: the sizes of the served catalogue; nothing else is bounded | the run on the screen implements `ScoredRun`; rounds are paid for the clues shown; a call in flight can be answered and ends |
| `reveal` | two holders, two authorities, a round of each mode, two sessions, instants 0..3 around the entitlement [1, 3) | one release and one outcome for an authority; outcomes within the entitlement; points earned |
| `credentials` | two credentials that may share invitation, lineage or day, and one written with a blank; two rounds that differ in a blank, two colliding keys, nesting of two | every property of the registry, at both cuts of a lifetime (hours 23 and 25) |
| `access` | two invitations whose ids differ in a blank, three daily credentials | an audited revocation has reached all descendants, if the id has no blanks around it; one credential for an invitation and day; only the enrolled play |
| `padded_revocation` | the same | violated: the audited revocation of an invitation with a blank before its id leaves its daily credential alive |
| `acquisition` | two runs that share an object; two commands, three if nothing fails; two instants; every kind of fault | reused objects survive, nothing is left in silence, drafts are audited, a checkpoint is resumed once |
| `draft_repeated` | two commands, one at a time, no faults | violated: the repeat of a completed run completes a second draft |
| `vault` | two pieces of evidence in two versions, one restore at a time, two of the four ledgers, a custodian, two security reviewers and a caller without a name; two instants around a deadline and the end of a hold | the vault implements `EvidenceLifecycle`; quarantine is kept; a closed restore is whole; the trail is true |
| `deletion_unaudited` | the same | violated: a deletion with a blank destination leaves no audit entry |
| `operations` | gate: two days to a half of two hours each, four reports (met, missed, unclear, premature) and ten decisions; manifests: two days, five rounds, three versions, two sessions; results: two rounds, one disputed, with one clue; enrollment: two invitations and three digests, one reissue, hours 0 and 72; withdrawals: a lineage and two cases with deadlines 0, 1 and 2; holds: periods of two and one; consent: three policies and ten kinds of facts; complaints: two severities, three reviewers; incidents: three rules, a window of three minutes, three control versions; restore: two copies, two ledgers | every part keeps its promise and what it has settled |
| `gate_unreadable` | the same | violated: a denied attempt makes the stored authorization unreadable |
| `content` | publications: two, with a crash anywhere; requests: two keys, two at once, limits of four requests, one page, one retry and one unit of waiting; preparation: five sources, four candidates; walk: flat repositories with texts of up to three lines over two letters, an unlicensed one, markers and bots, and a deep one with a shared directory and a submodule, one pause; corpus: two evidence versions, six opinions, one of them of somebody whose name holds the separator, three lists of reviewers, any receipt, five reviews, two results; authorizations: five entries in two registers, clock 0..3, skew 1; measurement: two players, two days, two rounds, instants 0 and 1, three sets of opportunities | every part keeps its promise |

Why the bounds are enough. The hazards of the page come from one call and its
closure; five rounds are what is served. A double release takes two callers, or
one caller and two authorities, so two of each. The registry's hazards take two
credentials, a key used within its own use (a stack of two) and two keys that
read alike; a third would repeat these. Reissue failures take two invitations
that compete for a digest. In the composition one credential is named by the
revoker, one is found by the cascade and one belongs to the other invitation. In
the acquisition, one run must find what another stored, so two runs with a
common object, in either order; a double resumption takes three commands. In the
vault, a restore that stops halfway takes a backup of two entries, and the code
treats its ledgers alike, so two of them show a restore with some replayed; a
trail of four entries holds a store, a begun restore, a deletion and what
follows. 
In the compositions each part is as small as its hazard allows. A round can come
back only through a promotion on its own day or another, so two days, and three
versions, since the second replacement must find what the first took out. An answer
in another session takes a second version of a lineage. A deadline is missed, met or
met on the day, hence deadlines apart by one. A stale control takes the version
before the last and an observation of it. A ledger left out shows with two ledgers,
a copy exposed wrongly with two copies. A retry leak takes two requests at once and
a stage that throws with both in flight. The walk pauses once, anywhere, and walks
again; `ChangedLines` is compared with its reference on all pairs of texts of the
flat repositories. Four people approve one version: one opinion is missing, one is
of a person who has another role, one is a refusal.

The bounds in guards are constants of their modules, all named `Max...` or `Last...`:
`MaxLive`, `MaxBegun`, `MaxTime`, `MaxNesting`, `MaxReissues`, `MaxAudits`,
`MaxEntries`, `MaxEvents`, `MaxIncidents`, `MaxVersion`, `MaxApplied`,
`LastDay`, `LastTime` and `LastMinute`, `MaxPublications`, `MaxPreparations`,
`MaxCandidates`, `MaxStages`, `MaxPauses`, `MaxReviews`, `MaxResults`, `MaxRuns`,
`MaxInstant`. Others with such a name (`MaxClues`, `MaxTreeEntries`,
`MaxSelectedBlobs`, `MaxRequests`, `MaxResponseBytes`, `MaxDiffLines`, `MaxExcerpt`,
`MaxWait`, `MaxTotalWait`, `MaxAge`) are limits of the code.

`acquisition` and `draft_repeated` do not check deadlock, since commands may all
have ended, `vault` does not, since its trail may be full, and the compositions do
not, since a part may be done; the others do.

Three of the runs refute a sentence of the contracts in `docs/` (`padded_revocation`,
`draft_repeated`, `deletion_unaudited`), and `gate_unreadable` refutes a test's;
`PROJECT.json` quotes them. Three more sentences of the contracts do not hold in the
models, and have no run of their own. The product contract says that credentials
"shall not be issued after the day ends" (FR-004): `Issue` gives one at any instant,
and `UsesStayInScope` is what holds of it. It says that `VOID` and `CONTENT_WITHDRAWN`
"reject new answers" (FR-008): a correction is kept under the trimmed id of its round and
looked up untrimmed, so a corrected round whose id has a blank around it is still
played, and `CorrectedRoundsTakeNoPlay` speaks of the trimmed round. The contract of the
acquisition counts a licensed item "only after promotion" (line 144): `Assess` admits
one that nobody promoted, with a receipt written by hand, and `InventoryIsReviewed`
compares an entry with the promotions there were. Further facts the models made visible,
about which no sentence in the repository says otherwise: the rollback of the run that created an object
takes it from a completed draft of another run that reused it; after a failed run
whose objects were rolled back, a repeat of it is refused at the first object it
stores again, because its creation event is a duplicate; deletions whose event is
refused go unnoticed on the chain; a second resumption of a checkpoint is
refused, but its cleanup removes the objects of the first; a restore that stopped
halfway has made evidence readable without a `RESTORE` entry on the trail, and
cannot be completed until what it brought has been deleted.

## Fairness

Only `ArcadeSession` assumes any: a submitted call ends, by an answer or by an
error (weak fairness of `Resolve \/ Reject`). A server action is a fetch, and
the browser settles its promise one way or the other. Nothing is assumed of the
player. The other modules state safety alone: their registries are synchronous,
an operator command may be killed at any time, and nothing in the repository
schedules what an operator does next.

## Proofs

For every value of the constants that meets the modules' assumptions:

- `ArcadeSession_proofs`: `TypeOK`, `ProgressMatchesPosition`,
  `RoundPaysForCluesShown`, `RunRefined`, the refinement of `ScoredRun`, and
  `PendingCallIsAnswerable`. The invariant `IInv` adds to the type that the session a
  call closed over is the session on the screen (`CallIsFresh`) and that the clues
  shown are the ones in the session (`CluesStay`): without these `Resolve` could
  overwrite anything. That a call can be answered takes a lemma about sums: each
  finished round adds zero or what its clues leave, so the score the client carries is
  one of those the server admits for that position.
- `RoundReveal_proofs`: `TypeOK`, `OneReleasePerAuthority`,
  `OutcomeWithinEntitlement`, `PointsAreEarned`. The strengthening ties what was
  released to `used`, and each flow's points to its own clues.
- `DailyCredentials_proofs`: `TypeOK`, `OneApplicationPerKey`,
  `OneCredentialPerDay`, `UsesStayInScope`, `DeadCredentialsStayDead`,
  `CorrectedRoundsTakeNoPlay`. `IInv` adds that whatever started is spent
  (`RunsAreSpent`), that a record marks its day (`RecordsMarkTheirDay`) and that its
  expiry is what its issue fixed (`ExpiryIsFixed`). The proofs do not need the composed
  keys to be injective, nor `Trim` to do anything but give ids that it leaves as they
  are. `CorrectedRoundsTakeNoPlay` takes that whatever was asked for is kept
  under its trimmed name.
- `ParticipantAccess_proofs`: `RevocationReachesDescendants`,
  `OneCredentialPerInvitationAndDay`, `OnlyTheEnrolledPlay`. The composition is shown
  to behave, seen from each registry, as that registry's own module, so that both
  modules' invariants hold of it; a lineage then belongs to one invitation for good,
  a record's lineage agrees with an enrollment of the invitation it was issued for, and
  its invitation is that one, trimmed; so where an id is its own trimmed form the
  cascade finds every record that was issued for it. An invitation is audited only
  after its cascade has returned.
- `Acquisition_proofs`: all four invariants of the run. `Sound` is an invariant of
  one command at each of its steps (what it has, what it made, what it still has to
  roll back), `EventsSound` of one event of the chain. What keeps commands apart is
  `OwnerInv`: an object that was created without a completed draft is in one pair of
  hands, a command's or a checkpoint's, and a creation event or a resumption event
  occurs once, since the chain refuses duplicates.
- `EvidenceVault_proofs`: `TypeOK`, `AuditTrailIsTrue`, `QuarantineIsKept`,
  `CompletionIsWhole` and `Refined`, the refinement of `EvidenceLifecycle`. `IInv`
  adds that evidence with a tombstone is not kept (`DeletedAreGone`) and that the
  trail tells of no deletion that did not happen (`DeletionsAreTrue`): so whatever
  a step stores, reads or deletes has no deletion on the trail, and a restore,
  which passes over tombstones, brings only what was absent.
- `BetaOperations_proofs`: all ten invariants of the run and its action property. A
  part is disturbed by its own steps only, so each invariant is proved of the part's
  actions and carried over to the others by one step. The strengthenings, part by part:
  a consent on file came with its fact; a reconciled restore was sealed and complete,
  and stays so while ports throw; an entry is marked as missed exactly when its step
  was late; a hold ends within a period of its last review; an invitation that is
  active, with its credential, is nobody else's, through reissues that fail halfway;
  the stored authorization begins with the report it names, its versions after the
  freeze; a round is in the versions of one lineage only; each step of
  a complaint is in its history at its instant; a streak is preserved on a day on which
  some outage in a minute of it said so; the answers in a view are answers of its
  session. `RoundsArePlayedOnce` and `OutagesAreAccountedFor` rest on counting, with
  sums over finite sets and the principle of the least number.
- `ContentWork_proofs`: all invariants of the run.
  `RunIsPermitted` says that a command past its authorization was permitted at the
  instant it read, and that one past the checkpoint is the paused run; two approvals
  that cover both roles and name two people give each role its own person
  (`TwoApprovers`), and as many reviewers as roles means none twice
  (`EligibleIsReviewed`), both by counting. `CorpusInv` adds that reviews and what a version
  binds stay, so that what was reviewed once is reviewed for good, and that an authentic
  receipt and a promotion of one version repeat the same record, so that they agree. For
  the requests the two counts of requests in flight are the number of calls in that
  phase, those that outlive their stage included; and what was answered or is in flight
  was counted as sent (`Answered`). For the publication `StoreInv` says at each file operation what a
  process sees under each name and what the disk may hold; for the selection,
  `Selecting` that what was chosen so far does not collide, and that the three that are
  kept have both outcomes. `KeptInv` says that an answer is kept once it is verified,
  and stays. For the walk `RevisionInv` says that the selected files and the stack
  stand for the files of the approved subtree, each once and no path below another
  (`StackOK`, `Parted`), and that the cursor is at the only tree the names so far lead
  to (`AtOnly`). What is recursive there (the files of a tree, the table of common
  lengths, the changed lines) is a function, which is shown to be the fixed point of
  its equation by the least number over a height (`FixedPoint`, `SameByHeight`,
  `InductionByHeight`); so a tree's files are those of its entries, and the lines
  called changed are the fewest that can be (`ChangesAreLeast`). For the measures, every event of a log is grounded in earlier ones
  (`Grounded`) and every two agree (`Compatible`), which makes each boundary
  measurable whenever its exclusions are in effect and its opportunities follow starts; then every formula is shown to read the same of two logs that differ in
  events of excluded participants only (`Erased`).

The assumptions are sizes (at least one round, at most two clues, days and instants
are natural numbers), that an id without blanks around it is its own trimmed form, that
of one opportunity an input says one thing, that the answer is a candidate, that requests come from the
typed sets, that evidence ids are no restore ids, that identities of different kinds
differ, that an entry's approvals are a finite set, that an experiment has two
languages, that a round's position is one of five, and that `None` is not a record.
A repository has finitely many trees, holds what its entries name and has no cycles,
since a tree is identified by what it holds; names and lines are strings, and the
rules of attribution are a finite set.
The bounds in guards are arbitrary.

Only model-checked: liveness (`CallEnds`), which is out of the prover's reach.

## Plan

Modelled, in this order: the page, the reveal, the credentials; enrollment, access,
acquisition; the vault; the operations of the beta; the work on the content. What is
left:

1. To state: an abstract session that `SessionResults` implements.
2. Lock and staging files of the encrypted store, below the level of `Acquisition`.

## Not modelled

Validation of static data (catalogues, policy and provider registers, the documents
of source evidence, rights and reviews, surveys and defects), parsing and hashing,
encryption, wording and layout: they keep no state that two events could meet in.
The stack workers and the local experiment reader are processes that succeed or
fail, and appear as such in `Preparation`. Of the encrypted store and the audit
chain the file operations inside a put or an append. Of Stack Overflow items their
coverage. Of the inventory its shape (how many entries of which
mode). The schemas of the operators' arguments and files, whose errors end a command
before it has done anything.
