------------------------- MODULE ContentWork_proofs -------------------------
(***************************************************************************)
(* Proofs about the work on the content, for any registers, requests,      *)
(* evidence and reviews. As the parts run apart, an invariant is proved of *)
(* the actions of its own part and carried over to the steps of the whole. *)
(***************************************************************************)
EXTENDS ContentWork, FiniteSetTheorems, SequenceTheorems, WellFoundedInduction, TLAPS

-----------------------------------------------------------------------------
(* Authorizations.                                                         *)

\* Sets are counted alike in the part and here.
LEMMA SameCount ==
  ASSUME NEW S
  PROVE  /\ Authorization!IsFiniteSet(S) <=> IsFiniteSet(S)
         /\ Authorization!Cardinality(S) = Cardinality(S)
<1>1. Authorization!IsFiniteSet(S) <=> IsFiniteSet(S)
  BY DEF Authorization!IsFiniteSet, IsFiniteSet
<1>2. Authorization!Cardinality(S) = Cardinality(S)
  BY DEF Authorization!Cardinality, Cardinality
<1>3. QED
  BY <1>1, <1>2

\* Of two approvals that cover both roles and name two people, each has its role.
LEMMA TwoApprovers ==
  ASSUME NEW entry \in Entries, NEW t, Authorization!Approved(entry, t),
         entry.class \in Authorization!Classes
  PROVE  \E a, b \in entry.approvals :
           /\ a.who # b.who /\ {a.role, b.role} = Authorization!RolesOf(entry.class)
           /\ a.at <= t /\ b.at <= t
<1> DEFINE S == entry.approvals
<1>1. IsFiniteSet(S) /\ Cardinality(S) = 2
  BY WorkAssumption, SameCount
     DEF Authorization!AuthorizationsAssumption, Authorization!Approved
<1> DEFINE x == IF entry.class = "OPERATOR" THEN "Release Operator" ELSE "Don"
           y == IF entry.class = "OPERATOR" THEN "Security Reviewer" ELSE "Rights/Safety Reviewer"
<1>2. x # y /\ Authorization!RolesOf(entry.class) = {x, y}
  BY DEF Authorization!RolesOf
<1>3. PICK a \in S, b \in S : a.role = x /\ b.role = y
  BY <1>2 DEF Authorization!Approved
<1>4. IsFiniteSet({a}) /\ Cardinality({a}) = 1 /\ Cardinality({a.who}) = 1
  BY FS_Singleton
<1>5. b \notin {a}
  BY <1>2, <1>3
<1>6. Cardinality({a, b}) = 2
  <2>1. Cardinality({a} \cup {b}) = Cardinality({a}) + 1
    BY <1>4, <1>5, FS_AddElement
  <2>2. {a} \cup {b} = {a, b}
    OBVIOUS
  <2>3. QED
    BY <1>4, <2>1, <2>2
<1>7. S = {a, b}
  BY <1>1, <1>3, <1>6, FS_Subset
<1>8. a.who # b.who
  <2> SUFFICES ASSUME a.who = b.who PROVE FALSE
    OBVIOUS
  <2> DEFINE names == {approval.who : approval \in S}
  <2>1. names = {a.who}
    BY <1>7
  <2>2. Authorization!Cardinality(names) = 2
    BY DEF Authorization!Approved
  <2> HIDE DEF names
  <2>3. Cardinality(names) = 2
    BY <2>2, SameCount
  <2>4. QED
    BY <1>4, <2>1, <2>3
<1>9. QED
  BY <1>2, <1>3, <1>8 DEF Authorization!Approved

\* A descriptor that is authorized against a register in force is permitted by it.
LEMMA AuthorizedIsPermitted ==
  ASSUME NEW d, NEW t, d.register \in Registers, Authorization!Authorized(d, t)
  PROVE  \A class \in Authorization!Classes :
           Authorization!Permits(d.register, class, d.request, t)
<1> SUFFICES ASSUME NEW class \in Authorization!Classes
             PROVE  Authorization!Permits(d.register, class, d.request, t)
  OBVIOUS
<1>1. PICK entry \in Authorization!Bound(d.register, class, d.binding[class]) :
        /\ Authorization!Valid(entry, t) /\ Authorization!Approved(entry, t)
        /\ d.request \in entry.permits
  BY DEF Authorization!Authorized
<1>2. entry \in d.register /\ entry \in Entries /\ entry.class = class
  BY WorkAssumption DEF Authorization!AuthorizationsAssumption, Authorization!Bound
<1>3. \E a, b \in entry.approvals :
        /\ a.who # b.who /\ {a.role, b.role} = Authorization!RolesOf(class)
        /\ a.at <= t /\ b.at <= t
  BY <1>1, <1>2, TwoApprovers
<1>4. QED
  BY <1>1, <1>2, <1>3 DEF Authorization!Permits, Authorization!Valid

(* A command past its authorization is permitted; one that resumes and has *)
(* passed the checkpoint is the paused run, and its checkpoint stays.      *)
Permitted(r) ==
  \A class \in Authorization!Classes :
    Authorization!Permits(r.bindings.register, class, r.bindings.request, r.at)
RunIsPermitted ==
  run # None =>
    /\ run = [mode |-> run.mode, at |-> run.at, phase |-> run.phase, bindings |-> run.bindings]
    /\ run.at \in Int
    /\ run.phase \in {"loading", "loaded", "resuming", "asking", "working"}
    /\ run.phase \in {"resuming", "asking"} => Permitted(run)
    /\ run.mode = "resume" => pause # None
    /\ run.phase = "asking" /\ run.mode = "resume" =>
         pause.bindings = run.bindings /\ pause.after <= time
RegimeIsChosen ==
  regime # None =>
    /\ regime = [selected |-> regime.selected, started |-> regime.started]
    /\ regime.selected \in Regimes
    /\ Authorization!RegimeIsSound(regime.selected)
    /\ regime.started # None => regime.started \in Int /\ regime.selected.at <= regime.started

AuthorizationInv ==
  /\ time \in Int /\ controls \in Registers
  /\ pause # None => pause.after \in Int
  /\ RunIsPermitted
  /\ RegimeIsChosen
  /\ Authorization!RunsAreAuthorized

LEMMA AuthorizationInit ==
  ASSUME Authorization!Init PROVE AuthorizationInv
BY DEF Authorization!Init, AuthorizationInv, RunIsPermitted, RegimeIsChosen,
       Authorization!RunsAreAuthorized

\* What has been received depends on nothing else; a pause outlasts the tick of the clock.
LEMMA Undisturbed ==
  ASSUME AuthorizationInv, UNCHANGED <<sources, regime>>
  PROVE  RegimeIsChosen' /\ Authorization!RunsAreAuthorized'
BY DEF AuthorizationInv, RegimeIsChosen, Authorization!RunsAreAuthorized

LEMMA RunNextKept ==
  ASSUME AuthorizationInv, Authorization!RunNext PROVE AuthorizationInv'
<1> USE DEF AuthorizationInv
<1>1. CASE Authorization!Tick
  BY <1>1, Undisturbed DEF Authorization!Tick, RunIsPermitted, Permitted
<1>2. ASSUME NEW register \in Registers, Authorization!Publish(register)
      PROVE  AuthorizationInv'
  BY <1>2, Undisturbed DEF Authorization!Publish, RunIsPermitted, Permitted
<1>3. ASSUME NEW request \in Requests, NEW binding \in Bindings,
             Authorization!Describe(request, binding)
      PROVE  AuthorizationInv'
  BY <1>3, Undisturbed DEF Authorization!Describe, RunIsPermitted, Permitted
<1>4. ASSUME NEW mode \in {"run", "resume"}, Authorization!Begin(mode)
      PROVE  AuthorizationInv'
  BY <1>4, Undisturbed DEF Authorization!Begin, RunIsPermitted
<1>5. CASE Authorization!LoadDescriptor
  BY <1>5, Undisturbed DEF Authorization!LoadDescriptor, RunIsPermitted
<1>6. CASE Authorization!AuthorizeExecution
  <2>1. CASE run.bindings.register = controls /\ Authorization!Authorized(run.bindings, run.at)
    <3> DEFINE next == IF run.mode = "resume" THEN "resuming" ELSE "asking"
    <3>1. Permitted(run)
      BY <2>1, AuthorizedIsPermitted DEF Permitted
    <3>2. /\ run'.phase = next /\ run'.mode = run.mode /\ run'.at = run.at
          /\ run'.bindings = run.bindings
          /\ run' = [mode |-> run.mode, at |-> run.at, phase |-> next, bindings |-> run.bindings]
      BY <1>6, <2>1 DEF Authorization!AuthorizeExecution, RunIsPermitted
    <3>3. Permitted(run)'
      BY <3>1, <3>2 DEF Permitted
    <3>4. run.at \in Int /\ next \in {"resuming", "asking"}
          /\ (next = "asking" => run.mode # "resume")
          /\ (run.mode = "resume" => pause # None) /\ pause' = pause
      BY <1>6 DEF Authorization!AuthorizeExecution, RunIsPermitted
    <3> HIDE DEF next
    <3>5. RunIsPermitted'
      BY <3>2, <3>3, <3>4 DEF RunIsPermitted
    <3>6. QED
      BY <1>6, <3>5, Undisturbed DEF Authorization!AuthorizeExecution
  <2>2. CASE ~(run.bindings.register = controls /\ Authorization!Authorized(run.bindings, run.at))
    <3>1. run' = None
      BY <1>6, <2>2 DEF Authorization!AuthorizeExecution
    <3>2. QED
      BY <1>6, <3>1, Undisturbed DEF Authorization!AuthorizeExecution, RunIsPermitted
  <2>3. QED
    BY <2>1, <2>2
<1>7. CASE Authorization!ResumeRun
  BY <1>7, Undisturbed DEF Authorization!ResumeRun, Authorization!Ready, RunIsPermitted, Permitted
<1>8. CASE Authorization!Receive
  <2>1. RunIsPermitted'
    BY <1>8 DEF Authorization!Receive, RunIsPermitted, Permitted
  <2>2. RegimeIsChosen'
    BY <1>8 DEF Authorization!Receive, RegimeIsChosen
  <2>3. Authorization!RunsAreAuthorized'
    BY <1>8 DEF Authorization!Receive, Authorization!RunsAreAuthorized, RunIsPermitted, Permitted
  <2>4. QED
    BY <1>8, <2>1, <2>2, <2>3 DEF Authorization!Receive
<1>9. ASSUME NEW after \in 1..MaxTime, Authorization!PauseRun(after)
      PROVE  AuthorizationInv'
  BY <1>9, Undisturbed DEF Authorization!PauseRun, RunIsPermitted
<1>10. CASE Authorization!End
  BY <1>10, Undisturbed DEF Authorization!End, RunIsPermitted
<1>11. QED
  BY <1>1, <1>2, <1>3, <1>4, <1>5, <1>6, <1>7, <1>8, <1>9, <1>10 DEF Authorization!RunNext

LEMMA RegimeNextKept ==
  ASSUME AuthorizationInv, Authorization!RegimeNext PROVE AuthorizationInv'
<1> USE DEF AuthorizationInv
<1>1. ASSUME NEW r \in Regimes, Authorization!SelectRegime(r)
      PROVE  AuthorizationInv'
  BY <1>1 DEF Authorization!SelectRegime, RunIsPermitted, Permitted, RegimeIsChosen,
              Authorization!RunsAreAuthorized
<1>2. ASSUME NEW at \in 0..MaxTime, Authorization!StartInvitations(at)
      PROVE  AuthorizationInv'
  <2>1. /\ regime' = [selected |-> regime.selected, started |-> at]
        /\ regime.selected.at <= at /\ at \in Int /\ regime # None
    BY <1>2, WorkAssumption
       DEF Authorization!StartInvitations, RegimeIsChosen, Authorization!AuthorizationsAssumption
  <2>2. RegimeIsChosen'
    BY <2>1 DEF RegimeIsChosen, Authorization!RegimeIsSound
  <2>3. regime.selected.selection = "stack-overflow-enabled" =>
          regime.selected.signed <= at /\ regime.selected.effective <= at
    <3>1. ASSUME regime.selected.selection = "stack-overflow-enabled"
          PROVE  /\ {regime.selected.at, regime.selected.signed, regime.selected.effective} \subseteq Int
                 /\ regime.selected.signed <= regime.selected.at
                 /\ regime.selected.effective <= regime.selected.at
      BY <2>1, <3>1, WorkAssumption
         DEF RegimeIsChosen, Authorization!RegimeIsSound, Authorization!AuthorizationsAssumption
    <3>2. QED
      BY <2>1, <3>1
  <2>4. Authorization!RunsAreAuthorized'
    BY <1>2, <2>1, <2>3 DEF Authorization!StartInvitations, Authorization!RunsAreAuthorized
  <2>5. QED
    BY <1>2, <2>2, <2>4 DEF Authorization!StartInvitations, RunIsPermitted, Permitted
<1>3. QED
  BY <1>1, <1>2 DEF Authorization!RegimeNext

(* Every source was received for a request two people had approved for     *)
(* each of its registers, and invitations start under a regime with its    *)
(* rights, whoever revises registers or resumes runs meanwhile             *)
(* (authorizeExecutionDescriptor, authorizeRateLimitResume,                *)
(* SourceRegimeControl).                                                   *)
THEOREM RunsAlwaysAuthorized == Spec => []RunsAreAuthorized
<1>1. Init => AuthorizationInv
  BY AuthorizationInit DEF Init
<1>2. AuthorizationInv /\ [Next]_vars => AuthorizationInv'
  <2> SUFFICES ASSUME AuthorizationInv, [Next]_vars PROVE AuthorizationInv'
    OBVIOUS
  <2>1. CASE AuthorizationStep
    BY <2>1, RunNextKept, RegimeNextKept DEF AuthorizationStep
  <2>2. CASE UNCHANGED authorizations
    <3>1. /\ time' = time /\ controls' = controls /\ run' = run /\ pause' = pause
          /\ sources' = sources /\ regime' = regime
      BY <2>2 DEF authorizations
    <3>2. QED
      BY <3>1, Undisturbed DEF AuthorizationInv, RunIsPermitted, Permitted
  <2>3. QED
    BY <2>1, <2>2 DEF Next, vars, StoreStep, PreparationStep, RuntimeStep, WalkStep, CorpusStep,
                      MeasurementStep
<1>3. AuthorizationInv => RunsAreAuthorized
  BY DEF AuthorizationInv, RunsAreAuthorized
<1>4. QED
  BY <1>1, <1>2, <1>3, PTL DEF Spec

-----------------------------------------------------------------------------
(* Evidence, reviews and the inventory.                                    *)

LEMMA SameCountOfPeople ==
  ASSUME NEW S PROVE Content!Cardinality(S) = Cardinality(S)
BY DEF Content!Cardinality, Cardinality

LEMMA RolesAreFinite == IsFiniteSet(Content!Roles)
<1>1. Content!Roles =
        ((({} \cup {"content-editor"}) \cup {"technical-reviewer-a"})
           \cup {"technical-reviewer-b"}) \cup {"rights-safety-reviewer"}
  BY DEF Content!Roles, Content!InOrder
<1>2. QED
  BY <1>1, FS_EmptySet, FS_AddElement

\* As many people as roles: no one has two.
LEMMA EligibleIsReviewed ==
  ASSUME NEW v, NEW mode, NEW panel \in Content!Panels, Content!Eligible(panel, v, mode)
  PROVE  Content!ReviewedBy(Content!Reviewers(panel), v, mode)
<1> DEFINE people == Content!Reviewers(panel)
           names == {people[role] : role \in Content!Roles}
<1>1. Content!Cardinality(names) = Content!Cardinality(Content!Roles)
  BY DEF Content!Eligible
<1>2. people \in Surjection(Content!Roles, names)
  BY DEF Content!Reviewers, Surjection
<1>3. ASSUME NEW r \in Content!Roles
      PROVE  \E review \in reviews :
               /\ review.version = v /\ review.opinion.role = r
               /\ review.opinion.who = people[r] /\ review.opinion.decision = "approve"
               /\ mode \in review.opinion.qualified /\ ~review.opinion.conflict
  <2> DEFINE chosen == CHOOSE review \in panel : review.opinion.role = r
  <2>1. panel \subseteq reviews /\ {review.opinion.role : review \in panel} = Content!Roles
    BY DEF Content!Panels
  <2>2. chosen \in panel /\ chosen.opinion.role = r
    BY <2>1
  <2>3. people[r] = chosen.opinion.who
    BY DEF Content!Reviewers
  <2> HIDE DEF chosen, people
  <2>4. Content!Approves(chosen, v, mode)
    BY <2>2 DEF Content!Eligible
  <2>5. QED
    BY <2>1, <2>2, <2>3, <2>4 DEF Content!Approves
<1> HIDE DEF people, names
<1>4. Cardinality(names) = Cardinality(Content!Roles)
  BY <1>1, SameCountOfPeople
<1>5. IsFiniteSet(names)
  BY <1>2, RolesAreFinite, FS_Surjection
<1>6. people \in Injection(Content!Roles, names)
  BY <1>2, <1>4, <1>5, RolesAreFinite, FS_SurjSameCardinalityImpliesInj
<1>7. \A r, s \in Content!Roles : people[r] = people[s] => r = s
  BY <1>6 DEF Injection, IsInjective
<1>8. QED
  BY <1>3, <1>7 DEF Content!ReviewedBy, people

(* The records keep their form.                                            *)
Formed ==
  records = [v \in DOMAIN records |->
    [source |-> records[v].source, purpose |-> records[v].purpose,
     attested |-> records[v].attested, draft |-> records[v].draft,
     catalogue |-> records[v].catalogue, reviewers |-> records[v].reviewers,
     state |-> records[v].state]]

(* A promotion and an entry are of a record, and what they say of it is    *)
(* what it says itself.                                                    *)
OfRecord(p) ==
  /\ p.receipt.version \in DOMAIN records
  /\ p.receipt = Content!Receipt(p.receipt.version, p.receipt.draft, p.receipt.catalogue)
  /\ p.receipt.catalogue \in Catalogues
  /\ records[p.receipt.version].source = "licensed-github"
  /\ records[p.receipt.version].purpose = Content!Purpose[p.receipt.mode]
InRecord(entry) ==
  /\ entry.version \in DOMAIN records /\ entry.mode \in Content!Modes
  /\ records[entry.version].source \in Content!AllowedSources(entry.selection)
  /\ entry.ready =>
       /\ Content!InActiveClass(entry.version, entry.mode, entry.receipt)
       /\ entry.receipt \in Content!Receipts

CorpusInv ==
  /\ Formed
  /\ \A p \in promotions :
       /\ OfRecord(p) /\ Content!PromotedAsBound(p)
       /\ Content!ReviewedBy(p.reviewers, p.receipt.version, p.receipt.mode)
  /\ \A entry \in inventory :
       InRecord(entry) /\ Content!ReviewedBy(entry.reviewers, entry.version, entry.mode)
  /\ \A certificate \in certified :
       Content!ReviewedBy(certificate.reviewers, certificate.version, "language")

\* The purpose of a record is that of one mode.
LEMMA OneMode ==
  ASSUME NEW m \in Content!Modes, NEW n \in Content!Modes,
         Content!Purpose[m] = Content!Purpose[n]
  PROVE  m = n
BY DEF Content!Modes, Content!Purpose

\* A receipt for a ready entry repeats what the promotion's repeats.
LEMMA ReceiptsAgree ==
  ASSUME NEW p, NEW entry, OfRecord(p), Content!PromotedAsBound(p), InRecord(entry), entry.ready,
         p.receipt.version = entry.version
  PROVE  p.receipt = entry.receipt
<1> DEFINE v == entry.version
           record == records[v]
           receipt == entry.receipt
<1>1. /\ receipt # None /\ receipt.version = v /\ receipt.mode = entry.mode
      /\ receipt.purpose = record.purpose /\ record.purpose = Content!Purpose[entry.mode]
      /\ receipt.draft = record.draft /\ receipt.catalogue = record.catalogue
  BY DEF OfRecord, InRecord, Content!InActiveClass, Content!ReceiptBinds
<1>2. receipt = [version |-> receipt.version, draft |-> receipt.draft,
                 catalogue |-> receipt.catalogue, mode |-> receipt.mode,
                 purpose |-> receipt.purpose]
  BY <1>1 DEF InRecord, Content!Receipts
<1>3. p.receipt = [version |-> v, draft |-> p.receipt.draft, catalogue |-> p.receipt.catalogue,
                   mode |-> p.receipt.mode, purpose |-> record.purpose]
      /\ p.receipt.mode = p.receipt.catalogue.mode
  BY DEF OfRecord, Content!Receipt
<1>4. p.receipt.mode \in Content!Modes /\ record.purpose = Content!Purpose[p.receipt.mode]
  BY <1>3, WorkAssumption DEF OfRecord, Content!CorpusAssumption
<1>5. p.receipt.mode = entry.mode
  BY <1>1, <1>4, OneMode DEF InRecord
<1>6. QED
  <2>1. p.receipt.draft = receipt.draft /\ p.receipt.catalogue = receipt.catalogue
    BY <1>1 DEF Content!PromotedAsBound
  <2> HIDE DEF v, record, receipt
  <2>2. QED
    BY <1>1, <1>2, <1>3, <1>5, <2>1 DEF receipt

LEMMA CorpusSafe == CorpusInv => Content!InventoryIsReviewed
<1> SUFFICES ASSUME CorpusInv PROVE Content!InventoryIsReviewed
  OBVIOUS
<1>1. ASSUME NEW entry \in inventory PROVE Content!EnteredAsPromoted(entry)
  <2>1. InRecord(entry)
    BY DEF CorpusInv
  <2>2. entry.ready => \A p \in promotions :
          p.receipt.version = entry.version => p.receipt = entry.receipt
    BY <2>1, ReceiptsAgree DEF CorpusInv
  <2>3. entry.ready => (entry.mode = "language" =>
                          records[entry.version].source = "licensed-github")
    BY <2>1 DEF InRecord, Content!InActiveClass
  <2>4. QED
    BY <2>1, <2>2, <2>3 DEF InRecord, Content!EnteredAsPromoted
<1>2. QED
  BY <1>1 DEF CorpusInv, Content!InventoryIsReviewed

LEMMA OneRecord ==
  ASSUME Formed, NEW v \in DOMAIN records
  PROVE  records[v] =
           [source |-> records[v].source, purpose |-> records[v].purpose,
            attested |-> records[v].attested, draft |-> records[v].draft,
            catalogue |-> records[v].catalogue, reviewers |-> records[v].reviewers,
            state |-> records[v].state]
BY DEF Formed

LEMMA CorpusInit ==
  ASSUME Content!Init PROVE CorpusInv
BY DEF Content!Init, Content!Unreviewed, CorpusInv, Formed

\* The fields a promotion or an entry rests on.
SameRecord(v) ==
  /\ records'[v].source = records[v].source /\ records'[v].purpose = records[v].purpose
  /\ records'[v].attested = records[v].attested /\ records'[v].draft = records[v].draft
  /\ records'[v].catalogue = records[v].catalogue

\* What a step writes to the records disturbs no result, nor do further reviews.
LEMMA ResultStays ==
  ASSUME reviews \subseteq reviews', DOMAIN records' = DOMAIN records,
         \A v \in DOMAIN records : SameRecord(v)
  PROVE  /\ \A people, v, mode : Content!ReviewedBy(people, v, mode) =>
                                 Content!ReviewedBy(people, v, mode)'
         /\ \A p : OfRecord(p) /\ Content!PromotedAsBound(p) =>
                   OfRecord(p)' /\ Content!PromotedAsBound(p)'
         /\ \A entry : InRecord(entry) => InRecord(entry)'
<1>1. ASSUME NEW people, NEW v, NEW mode, Content!ReviewedBy(people, v, mode)
      PROVE  Content!ReviewedBy(people, v, mode)'
  BY <1>1 DEF Content!ReviewedBy
<1>2. ASSUME NEW p, OfRecord(p), Content!PromotedAsBound(p)
      PROVE  OfRecord(p)' /\ Content!PromotedAsBound(p)'
  BY <1>2 DEF OfRecord, Content!PromotedAsBound, Content!Receipt, SameRecord
<1>3. ASSUME NEW entry, InRecord(entry) PROVE InRecord(entry)'
  BY <1>3 DEF InRecord, Content!InActiveClass, Content!ReceiptBinds, Content!Receipts,
              Content!Versions, SameRecord
<1>4. QED
  BY <1>1, <1>2, <1>3

LEMMA ResultsStay ==
  ASSUME CorpusInv, UNCHANGED <<certified, promotions, inventory>>, reviews \subseteq reviews',
         DOMAIN records' = DOMAIN records, Formed',
         \A v \in DOMAIN records : SameRecord(v)
  PROVE  CorpusInv'
BY ResultStays DEF CorpusInv

LEMMA SameResults ==
  ASSUME UNCHANGED <<records, reviews>>
  PROVE  /\ Formed => Formed'
         /\ \A people, v, mode : Content!ReviewedBy(people, v, mode) =>
                                 Content!ReviewedBy(people, v, mode)'
         /\ \A p : OfRecord(p) /\ Content!PromotedAsBound(p) =>
                   OfRecord(p)' /\ Content!PromotedAsBound(p)'
         /\ \A entry : InRecord(entry) => InRecord(entry)'
<1>1. Formed => Formed'
  BY DEF Formed
<1>2. QED
  BY <1>1, ResultStays DEF SameRecord

\* A record with other reviewers or in another state.
Written(v, people, state) ==
  [source |-> records[v].source, purpose |-> records[v].purpose,
   attested |-> records[v].attested, draft |-> records[v].draft,
   catalogue |-> records[v].catalogue, reviewers |-> people, state |-> state]

LEMMA WriteKept ==
  ASSUME CorpusInv, NEW v \in DOMAIN records, NEW people, NEW state,
         records' = [records EXCEPT ![v] = Written(v, people, state)],
         UNCHANGED <<reviews, certified, promotions, inventory>>
  PROVE  CorpusInv'
<1> DEFINE written == Written(v, people, state)
<1>1. /\ written = [source |-> written.source, purpose |-> written.purpose,
           attested |-> written.attested, draft |-> written.draft,
           catalogue |-> written.catalogue, reviewers |-> written.reviewers,
           state |-> written.state]
      /\ written.source = records[v].source /\ written.purpose = records[v].purpose
      /\ written.attested = records[v].attested /\ written.draft = records[v].draft
      /\ written.catalogue = records[v].catalogue
  BY DEF Written
<1> HIDE DEF written
<1>2. /\ DOMAIN records' = DOMAIN records /\ records'[v] = written
      /\ \A w \in DOMAIN records : w # v => records'[w] = records[w]
      /\ records' = [w \in DOMAIN records' |-> records'[w]]
  BY DEF CorpusInv, Formed, written
<1>3. ASSUME NEW w \in DOMAIN records
      PROVE  /\ records'[w] =
                  [source |-> records'[w].source, purpose |-> records'[w].purpose,
                   attested |-> records'[w].attested, draft |-> records'[w].draft,
                   catalogue |-> records'[w].catalogue, reviewers |-> records'[w].reviewers,
                   state |-> records'[w].state]
             /\ SameRecord(w)
  <2>1. CASE w = v
    BY <1>1, <1>2, <2>1 DEF SameRecord
  <2>2. CASE w # v
    BY <1>2, <2>2, OneRecord DEF CorpusInv, SameRecord
  <2>3. QED
    BY <2>1, <2>2
<1>4. Formed'
  BY <1>2, <1>3 DEF Formed
<1>5. QED
  BY <1>2, <1>3, <1>4, ResultsStay

\* A certificate, promotion or entry more is as good as those before.
LEMMA CertifyKept ==
  ASSUME CorpusInv, NEW v \in DOMAIN records, NEW panel \in Content!Panels,
         NEW candidates \in CandidateSets, Content!Certify(v, panel, candidates)
  PROVE  CorpusInv'
<1> DEFINE certificate == [version |-> v, candidates |-> candidates,
                           reviewers |-> Content!Reviewers(panel)]
<1>1. /\ certified' = certified \cup {certificate}
      /\ UNCHANGED <<records, reviews, promotions, inventory>>
      /\ Content!ReviewedBy(certificate.reviewers, certificate.version, "language")
  BY EligibleIsReviewed DEF Content!Certify
<1> HIDE DEF certificate
<1>2. QED
  BY <1>1, SameResults DEF CorpusInv

LEMMA PromoteKept ==
  ASSUME CorpusInv, NEW v \in DOMAIN records, NEW panel \in Content!Panels,
         NEW draft \in Content!Drafts, NEW catalogue \in Catalogues,
         Content!Promote(v, panel, draft, catalogue)
  PROVE  CorpusInv'
<1> DEFINE p == [receipt |-> Content!Receipt(v, draft, catalogue),
                 reviewers |-> Content!Reviewers(panel), claim |-> Content!PublicClaim(draft)]
<1>1. /\ promotions' = promotions \cup {p}
      /\ UNCHANGED <<records, reviews, certified, inventory>>
  BY DEF Content!Promote
<1>2. /\ p.receipt = Content!Receipt(v, draft, catalogue)
      /\ p.receipt.version = v /\ p.receipt.draft = draft /\ p.receipt.catalogue = catalogue
      /\ p.receipt.mode = catalogue.mode
  BY DEF Content!Receipt
<1>3. records[v].source = "licensed-github" /\ Content!Continuous(v, draft, catalogue)
  BY DEF Content!Promote
<1>4. Content!ReviewedBy(p.reviewers, p.receipt.version, p.receipt.mode)
  BY <1>2, EligibleIsReviewed DEF Content!Promote
<1>5. p.claim = "model" => draft.kind = "NAMED_MODEL_RECORDED"
  BY DEF Content!PublicClaim
<1> HIDE DEF p
<1>6. OfRecord(p)
  BY <1>2, <1>3 DEF OfRecord, Content!Continuous, Content!InMode
<1>7. Content!PromotedAsBound(p)
  BY <1>2, <1>3, <1>5 DEF Content!PromotedAsBound, Content!Continuous, Content!InMode
<1>8. QED
  BY <1>1, <1>4, <1>6, <1>7, SameResults DEF CorpusInv

LEMMA AssessKept ==
  ASSUME CorpusInv, NEW v \in DOMAIN records, NEW panel \in Content!Panels,
         NEW mode \in Content!Modes, NEW selection \in Selections,
         Content!Assess(v, panel, mode, selection)
  PROVE  CorpusInv'
<1>1. PICK fixtureKind \in {"SYNTHETIC_TEST_ONLY", "REVISION_7_AUTHENTIC"},
           receipt \in Content!Receipts :
        /\ fixtureKind = "REVISION_7_AUTHENTIC" => Content!InActiveClass(v, mode, receipt)
        /\ inventory' = inventory \cup
             {[version |-> v, mode |-> mode, selection |-> selection,
               reviewers |-> Content!Reviewers(panel),
               ready |-> fixtureKind = "REVISION_7_AUTHENTIC",
               receipt |-> IF fixtureKind = "REVISION_7_AUTHENTIC" THEN receipt ELSE None]}
  BY DEF Content!Assess
<1> DEFINE entry == [version |-> v, mode |-> mode, selection |-> selection,
                     reviewers |-> Content!Reviewers(panel),
                     ready |-> fixtureKind = "REVISION_7_AUTHENTIC",
                     receipt |-> IF fixtureKind = "REVISION_7_AUTHENTIC" THEN receipt ELSE None]
<1>2. /\ inventory' = inventory \cup {entry}
      /\ UNCHANGED <<records, reviews, certified, promotions>>
  BY <1>1 DEF Content!Assess
<1>3. entry.version = v /\ entry.mode = mode /\ entry.selection = selection
  OBVIOUS
<1>4. Content!ReviewedBy(entry.reviewers, entry.version, entry.mode)
  BY EligibleIsReviewed DEF Content!Assess
<1>5. entry.ready =>
        Content!InActiveClass(v, mode, entry.receipt) /\ entry.receipt \in Content!Receipts
  BY <1>1
<1> HIDE DEF entry
<1>6. InRecord(entry)
  BY <1>3, <1>5 DEF InRecord, Content!Assess
<1>7. QED
  BY <1>2, <1>4, <1>6, SameResults DEF CorpusInv

LEMMA CorpusNext ==
  ASSUME CorpusInv, Content!Next PROVE CorpusInv'
<1> SUFFICES ASSUME NEW v \in DOMAIN records,
                    \/ Content!CorrectEvidence(v)
                    \/ \E opinion \in Opinions : Content!Review(v, opinion)
                    \/ \E names \in NameLists : Content!CompleteEvidence(v, names)
                    \/ \E panel \in Content!Panels :
                         \/ \E candidates \in CandidateSets : Content!Certify(v, panel, candidates)
                         \/ \E draft \in Content!Drafts, catalogue \in Catalogues :
                              Content!Promote(v, panel, draft, catalogue)
                         \/ \E mode \in Content!Modes, selection \in Selections :
                              Content!Assess(v, panel, mode, selection)
             PROVE  CorpusInv'
  BY DEF Content!Next, Content!Versions
<1>1. CASE Content!CorrectEvidence(v)
  <2>1. /\ records' = [records EXCEPT ![v] = [records[v] EXCEPT !.state = "WITHDRAWN"]]
        /\ UNCHANGED <<reviews, certified, promotions, inventory>>
    BY <1>1 DEF Content!CorrectEvidence
  <2>2. [records[v] EXCEPT !.state = "WITHDRAWN"] = Written(v, records[v].reviewers, "WITHDRAWN")
    BY OneRecord DEF CorpusInv, Written
  <2>3. QED
    BY <2>1, <2>2, WriteKept
<1>2. ASSUME NEW opinion \in Opinions, Content!Review(v, opinion)
      PROVE  CorpusInv'
  <2>1. UNCHANGED <<records, certified, promotions, inventory>> /\ reviews \subseteq reviews'
    BY <1>2 DEF Content!Review
  <2>2. QED
    BY <2>1, ResultsStay DEF CorpusInv, Formed, SameRecord
<1>3. ASSUME NEW names \in NameLists, Content!CompleteEvidence(v, names)
      PROVE  CorpusInv'
  <2> DEFINE signed == [records[v] EXCEPT !.reviewers = names]
             closed == [signed EXCEPT !.state = "ACTIVE"]
  <2>1. records' = [records EXCEPT ![v] = closed]
        /\ UNCHANGED <<reviews, certified, promotions, inventory>>
    BY <1>3 DEF Content!CompleteEvidence
  <2>2. signed = [source |-> records[v].source, purpose |-> records[v].purpose,
                  attested |-> records[v].attested, draft |-> records[v].draft,
                  catalogue |-> records[v].catalogue, reviewers |-> names,
                  state |-> records[v].state]
    BY OneRecord DEF CorpusInv
  <2> HIDE DEF signed
  <2>3. closed = Written(v, names, "ACTIVE")
    BY <2>2 DEF Written
  <2> HIDE DEF closed
  <2>4. QED
    BY <2>1, <2>3, WriteKept
<1>4. QED
  BY <1>1, <1>2, <1>3, CertifyKept, PromoteKept, AssessKept

(* Whatever versions, lists of names and receipts the checks are given,    *)
(* every promotion, entry and certificate is of one version that four      *)
(* people approved for its mode; what was promoted is what its evidence    *)
(* binds, and no ready entry contradicts a promotion of its version        *)
(* (promoteAcquisitionDraft, createPublicationEligibility,                 *)
(* createLanguageAmbiguityEligibility, evaluateCorpusReadiness).           *)
THEOREM InventoryAlwaysReviewed == Spec => []InventoryIsReviewed
<1>1. Init => CorpusInv
  BY CorpusInit DEF Init
<1>2. CorpusInv /\ [Next]_vars => CorpusInv'
  <2> SUFFICES ASSUME CorpusInv, [Next]_vars PROVE CorpusInv'
    OBVIOUS
  <2>1. CASE CorpusStep
    BY <2>1, CorpusNext DEF CorpusStep
  <2>2. CASE UNCHANGED corpus
    <3>1. /\ records' = records /\ reviews' = reviews /\ certified' = certified
          /\ promotions' = promotions /\ inventory' = inventory
      BY <2>2 DEF corpus
    <3>2. QED
      BY <3>1, ResultsStay DEF CorpusInv, Formed, SameRecord
  <2>3. QED
    BY <2>1, <2>2 DEF Next, vars, StoreStep, PreparationStep, RuntimeStep, WalkStep,
                      AuthorizationStep, MeasurementStep
<1>3. CorpusInv => InventoryIsReviewed
  BY CorpusSafe DEF InventoryIsReviewed
<1>4. QED
  BY <1>1, <1>2, <1>3, PTL DEF Spec

-----------------------------------------------------------------------------
(* Requests: the members of a sequence that are in a set.                  *)

Among(cs, G) == {i \in DOMAIN cs : cs[i] \in G}

LEMMA AmongCounted ==
  ASSUME NEW C, NEW cs \in Seq(C), NEW G
  PROVE  IsFiniteSet(Among(cs, G)) /\ Cardinality(Among(cs, G)) \in Nat
<1>1. Among(cs, G) \in SUBSET (1..Len(cs)) /\ Len(cs) \in Nat
  BY DEF Among
<1>2. IsFiniteSet(1..Len(cs))
  BY <1>1, FS_Interval
<1>3. QED
  BY <1>1, <1>2, FS_Subset, FS_CardinalityType

LEMMA AmongAppended ==
  ASSUME NEW C, NEW cs \in Seq(C), NEW c \in C, NEW G
  PROVE  /\ Append(cs, c) \in Seq(C)
         /\ Cardinality(Among(Append(cs, c), G)) =
              Cardinality(Among(cs, G)) + (IF c \in G THEN 1 ELSE 0)
<1>1. /\ Append(cs, c) \in Seq(C) /\ Len(cs) \in Nat /\ DOMAIN cs = 1..Len(cs)
      /\ DOMAIN Append(cs, c) = 1..(Len(cs) + 1) /\ Append(cs, c)[Len(cs) + 1] = c
      /\ \A i \in 1..Len(cs) : Append(cs, c)[i] = cs[i]
  OBVIOUS
<1>2. CASE c \in G
  <2>1. Among(Append(cs, c), G) = Among(cs, G) \cup {Len(cs) + 1}
    BY <1>1, <1>2 DEF Among
  <2>2. Len(cs) + 1 \notin Among(cs, G)
    BY <1>1 DEF Among
  <2>3. QED
    BY <1>1, <1>2, <2>1, <2>2, AmongCounted, FS_AddElement
<1>3. CASE c \notin G
  <2>1. Among(Append(cs, c), G) = Among(cs, G)
    BY <1>1, <1>3 DEF Among
  <2>2. QED
    BY <1>1, <1>3, <2>1, AmongCounted
<1>4. QED
  BY <1>2, <1>3

LEMMA MembersRemoved ==
  ASSUME NEW C, NEW cs \in Seq(C), NEW i \in DOMAIN cs
  PROVE  /\ Runtime!RemoveAt(cs, i) \in Seq(C)
         /\ DOMAIN Runtime!RemoveAt(cs, i) = 1..(Len(cs) - 1)
         /\ \A j \in 1..(Len(cs) - 1) :
              Runtime!RemoveAt(cs, i)[j] = IF j < i THEN cs[j] ELSE cs[j + 1]
<1>1. Len(cs) \in Nat /\ i \in 1..Len(cs) /\ DOMAIN cs = 1..Len(cs)
  OBVIOUS
<1> DEFINE a == SubSeq(cs, 1, i - 1)
           b == SubSeq(cs, i + 1, Len(cs))
<1>2. /\ a \in Seq(C) /\ Len(a) = i - 1 /\ \A j \in 1..(i - 1) : a[j] = cs[j]
  BY <1>1
<1>3. /\ b \in Seq(C) /\ Len(b) = Len(cs) - i /\ \A j \in 1..(Len(cs) - i) : b[j] = cs[i + j]
  BY <1>1
<1>4. Runtime!RemoveAt(cs, i) = a \o b
  BY DEF Runtime!RemoveAt
<1> HIDE DEF a, b
<1>5. /\ a \o b \in Seq(C) /\ Len(a \o b) = Len(cs) - 1
      /\ DOMAIN (a \o b) = 1..(Len(cs) - 1)
      /\ \A j \in 1..(Len(cs) - 1) : (a \o b)[j] = IF j <= Len(a) THEN a[j] ELSE b[j - Len(a)]
  <2>1. /\ a \o b \in Seq(C) /\ Len(a \o b) = Len(a) + Len(b)
        /\ \A j \in 1..(Len(a) + Len(b)) :
             (a \o b)[j] = IF j <= Len(a) THEN a[j] ELSE b[j - Len(a)]
    BY <1>2, <1>3, ConcatProperties
  <2>2. Len(a) + Len(b) = Len(cs) - 1
    BY <1>1, <1>2, <1>3
  <2>3. DOMAIN (a \o b) = 1..Len(a \o b)
    BY <2>1
  <2>4. QED
    BY <2>1, <2>2, <2>3
<1>6. ASSUME NEW j \in 1..(Len(cs) - 1)
      PROVE  (a \o b)[j] = IF j < i THEN cs[j] ELSE cs[j + 1]
  <2>1. CASE j < i
    <3>1. j \in 1..(i - 1) /\ j <= Len(a)
      BY <1>1, <1>2, <2>1
    <3>2. QED
      BY <1>2, <1>5, <2>1, <3>1
  <2>2. CASE ~(j < i)
    <3>1. j - Len(a) \in 1..(Len(cs) - i) /\ i + (j - Len(a)) = j + 1 /\ ~(j <= Len(a))
      BY <1>1, <1>2, <2>2
    <3>2. QED
      BY <1>3, <1>5, <2>2, <3>1
  <2>3. QED
    BY <2>1, <2>2
<1>7. QED
  BY <1>4, <1>5, <1>6

LEMMA AmongRemoved ==
  ASSUME NEW C, NEW cs \in Seq(C), NEW i \in DOMAIN cs, NEW G
  PROVE  Cardinality(Among(Runtime!RemoveAt(cs, i), G)) =
           Cardinality(Among(cs, G)) - (IF cs[i] \in G THEN 1 ELSE 0)
<1> DEFINE rest == Runtime!RemoveAt(cs, i)
           S == Among(rest, G)
           T == Among(cs, G) \ {i}
           f == [j \in S |-> IF j < i THEN j ELSE j + 1]
<1>1. /\ Len(cs) \in Nat /\ i \in 1..Len(cs) /\ DOMAIN cs = 1..Len(cs)
      /\ rest \in Seq(C) /\ DOMAIN rest = 1..(Len(cs) - 1)
      /\ \A j \in 1..(Len(cs) - 1) : rest[j] = IF j < i THEN cs[j] ELSE cs[j + 1]
  BY MembersRemoved
<1> HIDE DEF rest
<1>2. f \in [S -> T]
  BY <1>1 DEF Among
<1>3. \A j, k \in S : f[j] = f[k] => j = k
  BY <1>1 DEF Among
<1>4. ASSUME NEW k \in T PROVE \E j \in S : f[j] = k
  <2> DEFINE j == IF k < i THEN k ELSE k - 1
  <2>1. k \in 1..Len(cs) /\ k # i /\ cs[k] \in G
    BY <1>1 DEF Among
  <2>2. j \in 1..(Len(cs) - 1) /\ rest[j] = cs[k]
    BY <1>1, <2>1
  <2>3. j \in S
    BY <1>1, <2>1, <2>2 DEF Among
  <2>4. f[j] = k
    BY <1>1, <2>1, <2>3
  <2>5. QED
    BY <2>3, <2>4
<1>5. f \in Bijection(S, T)
  <2> HIDE DEF f, S, T
  <2>1. QED
    BY <1>2, <1>3, <1>4 DEF Bijection, Injection, Surjection, IsInjective
<1>6. IsFiniteSet(S) /\ IsFiniteSet(Among(cs, G)) /\ Cardinality(Among(cs, G)) \in Nat
  BY <1>1, AmongCounted
<1>7. Cardinality(T) = Cardinality(S)
  BY <1>5, <1>6, FS_Bijection DEF ExistsBijection
<1>8. Cardinality(T) = IF i \in Among(cs, G) THEN Cardinality(Among(cs, G)) - 1
                       ELSE Cardinality(Among(cs, G))
  BY <1>6, FS_RemoveElement
<1>9. i \in Among(cs, G) <=> cs[i] \in G
  BY DEF Among
<1>10. QED
  BY <1>6, <1>7, <1>8, <1>9 DEF rest

LEMMA AmongReplaced ==
  ASSUME NEW C, NEW cs \in Seq(C), NEW i \in DOMAIN cs, NEW c \in C, NEW G
  PROVE  /\ [cs EXCEPT ![i] = c] \in Seq(C)
         /\ Cardinality(Among([cs EXCEPT ![i] = c], G)) =
              Cardinality(Among(cs, G)) - (IF cs[i] \in G THEN 1 ELSE 0)
                                        + (IF c \in G THEN 1 ELSE 0)
<1> DEFINE other == [cs EXCEPT ![i] = c]
           S == Among(cs, G) \ {i}
<1>1. /\ other \in Seq(C) /\ DOMAIN other = DOMAIN cs /\ other[i] = c
      /\ \A j \in DOMAIN cs \ {i} : other[j] = cs[j]
  OBVIOUS
<1>2. IsFiniteSet(Among(cs, G)) /\ Cardinality(Among(cs, G)) \in Nat
  BY AmongCounted
<1>3. /\ IsFiniteSet(S)
      /\ Cardinality(S) = Cardinality(Among(cs, G)) - (IF cs[i] \in G THEN 1 ELSE 0)
  <2>1. i \in Among(cs, G) <=> cs[i] \in G
    BY DEF Among
  <2>2. QED
    BY <1>2, <2>1, FS_RemoveElement
<1>4. Cardinality(S) \in Nat
  BY <1>3, FS_CardinalityType
<1> HIDE DEF other
<1>5. CASE c \in G
  <2>1. Among(other, G) = S \cup {i}
    BY <1>1, <1>5 DEF Among
  <2>2. Cardinality(S \cup {i}) = Cardinality(S) + 1
    BY <1>3, FS_AddElement
  <2>3. QED
    BY <1>1, <1>2, <1>3, <1>5, <2>1, <2>2 DEF other
<1>6. CASE c \notin G
  <2>1. Among(other, G) = S
    BY <1>1, <1>6 DEF Among
  <2> HIDE DEF S
  <2>2. QED
    BY <1>1, <1>2, <1>3, <1>4, <1>6, <2>1 DEF other
<1>7. QED
  BY <1>5, <1>6

\* Calls in flight, and those that are tried again.
Flown == {c \in Runtime!Call : c.phase = "flying"}
Tried == {c \in Runtime!Call : c.tries = 1}

\* What the counters owe to the calls.
Counts(cs, leased, sent, runs, waited) ==
  /\ leased.active = Cardinality(Among(cs, Flown))
  /\ sent.active = Cardinality(Among(cs, Flown))
  /\ leased.active <= Concurrent
  /\ sent.count <= leased.count /\ leased.count <= RequestLimit
  /\ Cardinality(Among(cs, Tried)) <= runs
  /\ runs <= RunRetries /\ waited <= MaxTotalWait

\* What was accepted of the answers, when no stage threw: those of every stage that ended, and
\* no call is under way when none is open.
Settled ==
  /\ replay.on => ~stage.open
  /\ ~failed =>
       /\ ~stage.open => calls = << >>
       /\ 1..(IF stage.open THEN stage.offset ELSE received) \subseteq accepted
       /\ replay.read \subseteq accepted

RuntimeTyped ==
  /\ Runtime!TypeOK
  /\ \A i \in DOMAIN calls : calls[i].cached \in Seq(1..received)
  /\ replay \in [on : BOOLEAN, cursors : [Keys -> Nat], read : SUBSET (1..received)]

RuntimeInv ==
  /\ RuntimeTyped
  /\ Counts(calls, lease, meter, retry.runs, retry.waited)
  /\ Settled

LEMMA FlyingAmong ==
  ASSUME calls \in Seq(Runtime!Call)
  PROVE  /\ Runtime!Flying = Among(calls, Flown)
         /\ {i \in DOMAIN calls : calls[i].tries = 1} = Among(calls, Tried)
<1>1. \A i \in DOMAIN calls : calls[i] \in Runtime!Call
  OBVIOUS
<1>2. QED
  BY <1>1 DEF Runtime!Flying, Among, Flown, Tried

LEMMA CardinalityAlike ==
  ASSUME NEW S
  PROVE  Runtime!Cardinality(S) = Cardinality(S)
  BY DEF Runtime!Cardinality, Cardinality

\* An answer more leaves the earlier ones what they were.
LEMMA AnswersWiden ==
  ASSUME NEW n \in Nat, NEW s \in Seq(1..n)
  PROVE  s \in Seq(1..(n + 1))
<1>1. \A j \in 1..Len(s) : s[j] \in 1..(n + 1)
  OBVIOUS
<1>2. QED
  BY <1>1, LenProperties, SeqDef

-----------------------------------------------------------------------------
(* The counters, through asking, answering and failing.                    *)

LEMMA Limits ==
  /\ Concurrent \in Nat /\ RequestLimit \in Nat /\ PageLimit \in Nat /\ RunRetries \in Nat
  /\ MaxWait \in Nat /\ MaxTotalWait \in Nat /\ Waits \subseteq Nat /\ MaxStages \in Nat
  BY WorkAssumption DEF Runtime!RuntimeAssumption

LEMMA AskedCounted ==
  ASSUME NEW others \in Seq(Runtime!Call), NEW k \in Keys, NEW tries \in 0..1,
         RuntimeTyped, Runtime!Asked(k, others, tries),
         Counts(others, lease, meter, retry.runs - tries, retry.waited),
         retry.runs <= RunRetries
  PROVE  /\ calls' \in Seq(Runtime!Call)
         /\ \A i \in DOMAIN calls' :
              \/ i \in DOMAIN others /\ calls'[i] = others[i]
              \/ calls'[i].cached = responses[k]
         /\ lease' \in [active : Nat, count : Nat] /\ meter' \in [active : Nat, count : Nat]
         /\ Counts(calls', lease', meter', retry.runs, retry.waited)
<1>1. responses[k] \in Seq(1..received) /\ received \in Nat
  BY DEF RuntimeTyped, Runtime!TypeOK
<1>2. lease \in [active : Nat, count : Nat] /\ meter \in [active : Nat, count : Nat]
  BY DEF RuntimeTyped, Runtime!TypeOK
<1>3. retry.runs \in Nat /\ retry.waited \in Nat
  BY DEF RuntimeTyped, Runtime!TypeOK
<1>4. /\ Cardinality(Among(others, Flown)) \in Nat /\ Cardinality(Among(others, Tried)) \in Nat
  BY AmongCounted
<1>5. /\ lease.active = Cardinality(Among(others, Flown))
      /\ meter.active = Cardinality(Among(others, Flown))
      /\ lease.active <= Concurrent
      /\ meter.count <= lease.count /\ lease.count <= RequestLimit
      /\ Cardinality(Among(others, Tried)) <= retry.runs - tries
      /\ retry.runs - tries <= RunRetries /\ retry.waited <= MaxTotalWait
  BY DEF Counts
<1>6. lease.active \in Nat /\ lease.count \in Nat /\ meter.active \in Nat /\ meter.count \in Nat
  BY <1>2
<1>7. CASE Runtime!Fly(k, others, tries)
  <2> DEFINE c == [key |-> k, phase |-> "flying", cached |-> responses[k], tries |-> tries]
  <2>1. c \in Runtime!Call
    <3>1. responses[k] \in Seq(Nat)
      <4>1. \A j \in 1..Len(responses[k]) : responses[k][j] \in Nat
        BY <1>1
      <4>2. QED
        BY <1>1, <4>1, LenProperties, SeqDef
    <3>2. QED
      BY <3>1 DEF Runtime!Call
  <2>2. /\ calls' = Append(others, c)
        /\ lease' = [active |-> lease.active + 1, count |-> lease.count + 1]
        /\ meter' = [active |-> meter.active + 1, count |-> meter.count + 1]
        /\ lease.active < Concurrent /\ lease.count < RequestLimit
    BY <1>7 DEF Runtime!Fly, Runtime!Started, Runtime!Known, Runtime!Room
  <2>3. c \in Flown /\ (c \in Tried <=> tries = 1) /\ c.cached = responses[k]
    BY <2>1 DEF Flown, Tried
  <2> HIDE DEF c
  <2>4. /\ calls' \in Seq(Runtime!Call)
        /\ Cardinality(Among(calls', Flown)) = Cardinality(Among(others, Flown)) + 1
        /\ Cardinality(Among(calls', Tried)) =
             Cardinality(Among(others, Tried)) + (IF tries = 1 THEN 1 ELSE 0)
    BY <2>1, <2>2, <2>3, AmongAppended
  <2>5. \A i \in DOMAIN calls' : \/ i \in DOMAIN others /\ calls'[i] = others[i]
                                 \/ calls'[i].cached = responses[k]
    BY <2>1, <2>2, <2>3
  <2>6. /\ lease'.active = lease.active + 1 /\ lease'.count = lease.count + 1
        /\ meter'.active = meter.active + 1 /\ meter'.count = meter.count + 1
        /\ lease' \in [active : Nat, count : Nat] /\ meter' \in [active : Nat, count : Nat]
    BY <1>2, <2>2
  <2>7. Counts(calls', lease', meter', retry.runs, retry.waited)
    <3> DEFINE flown == Cardinality(Among(others, Flown))
               tried == Cardinality(Among(others, Tried))
               flownNow == Cardinality(Among(calls', Flown))
               triedNow == Cardinality(Among(calls', Tried))
    <3>1. flownNow = flown + 1 /\ triedNow = tried + (IF tries = 1 THEN 1 ELSE 0)
      BY <2>4
    <3>2. lease.active < Concurrent /\ lease.count < RequestLimit
      BY <2>2
    <3> HIDE DEF flown, tried, flownNow, triedNow
    <3>3. flown \in Nat /\ tried \in Nat /\ lease.active = flown /\ meter.active = flown
          /\ tried <= retry.runs - tries
      BY <1>4, <1>5 DEF flown, tried
    <3>4. lease'.active = flownNow /\ meter'.active = flownNow
      BY <2>6, <3>1, <3>3
    <3>5. /\ lease'.active <= Concurrent /\ meter'.count <= lease'.count
          /\ lease'.count <= RequestLimit
      BY <1>5, <1>6, <2>6, <3>2, Limits
    <3>6. triedNow <= retry.runs
      BY <1>3, <3>1, <3>3
    <3>7. QED
      BY <1>5, <3>4, <3>5, <3>6 DEF Counts, flownNow, triedNow
  <2>8. QED
    BY <2>4, <2>5, <2>6, <2>7
<1>8. CASE Runtime!Refused(others)
  <2>1. /\ calls' = others /\ meter' = meter /\ lease' = [lease EXCEPT !.count = @ + 1]
        /\ lease.count < RequestLimit
    BY <1>8 DEF Runtime!Refused, Runtime!Room
  <2>2. /\ lease'.active = lease.active /\ lease'.count = lease.count + 1
        /\ lease' \in [active : Nat, count : Nat]
    BY <1>2, <2>1
  <2>3. Counts(calls', lease', meter', retry.runs, retry.waited)
    <3>1. lease.count < RequestLimit
      BY <2>1
    <3>2. Cardinality(Among(others, Tried)) <= retry.runs
      BY <1>4, <1>3, <1>5
    <3>3. lease'.active <= Concurrent /\ meter.count <= lease'.count /\ lease'.count <= RequestLimit
      BY <1>5, <1>6, <2>2, <3>1, Limits
    <3>4. QED
      BY <1>5, <2>1, <2>2, <3>2, <3>3 DEF Counts
  <2>4. QED
    BY <1>2, <2>1, <2>2, <2>3
<1>9. QED
  BY <1>7, <1>8 DEF Runtime!Asked

LEMMA RuntimeFields ==
  ASSUME RuntimeTyped
  PROVE  /\ calls \in Seq(Runtime!Call) /\ received \in Nat
         /\ responses \in [Keys -> Seq(1..received)]
         /\ \A i \in DOMAIN calls :
              /\ calls[i] \in Runtime!Call /\ calls[i].key \in Keys /\ calls[i].tries \in 0..1
              /\ calls[i].phase \in {"flying", "sleeping"}
              /\ calls[i].cached \in Seq(1..received)
<1>1. /\ calls \in Seq(Runtime!Call) /\ received \in Nat
      /\ responses \in [Keys -> Seq(1..received)]
      /\ \A i \in DOMAIN calls : calls[i].cached \in Seq(1..received)
  BY DEF RuntimeTyped, Runtime!TypeOK
<1>2. \A i \in DOMAIN calls : calls[i] \in Runtime!Call
  BY <1>1
<1>3. \A c \in Runtime!Call :
        c.key \in Keys /\ c.tries \in 0..1 /\ c.phase \in {"flying", "sleeping"}
  BY DEF Runtime!Call
<1>4. QED
  BY <1>1, <1>2, <1>3

LEMMA CallsFewer ==
  ASSUME RuntimeTyped, NEW i \in DOMAIN calls
  PROVE  /\ Runtime!RemoveAt(calls, i) \in Seq(Runtime!Call)
         /\ \A j \in DOMAIN Runtime!RemoveAt(calls, i) :
              \E n \in DOMAIN calls : Runtime!RemoveAt(calls, i)[j] = calls[n]
         /\ Cardinality(Among(Runtime!RemoveAt(calls, i), Flown)) =
              Cardinality(Among(calls, Flown)) - (IF calls[i].phase = "flying" THEN 1 ELSE 0)
         /\ Cardinality(Among(Runtime!RemoveAt(calls, i), Tried)) =
              Cardinality(Among(calls, Tried)) - calls[i].tries
<1>1. calls \in Seq(Runtime!Call)
  BY RuntimeFields
<1>2. /\ calls[i] \in Flown <=> calls[i].phase = "flying"
      /\ calls[i] \in Tried <=> calls[i].tries = 1
      /\ calls[i].tries \in 0..1
  BY RuntimeFields DEF Flown, Tried
<1>3. /\ Runtime!RemoveAt(calls, i) \in Seq(Runtime!Call)
      /\ \A j \in DOMAIN Runtime!RemoveAt(calls, i) :
           Runtime!RemoveAt(calls, i)[j] = calls[j] \/ Runtime!RemoveAt(calls, i)[j] = calls[j + 1]
      /\ DOMAIN Runtime!RemoveAt(calls, i) = 1..(Len(calls) - 1)
  BY <1>1, MembersRemoved
<1>4. \A j \in DOMAIN Runtime!RemoveAt(calls, i) :
           j \in DOMAIN calls /\ j + 1 \in DOMAIN calls
  BY <1>1, <1>3
<1>5. /\ Cardinality(Among(Runtime!RemoveAt(calls, i), Flown)) =
           Cardinality(Among(calls, Flown)) - (IF calls[i] \in Flown THEN 1 ELSE 0)
      /\ Cardinality(Among(Runtime!RemoveAt(calls, i), Tried)) =
           Cardinality(Among(calls, Tried)) - (IF calls[i] \in Tried THEN 1 ELSE 0)
  BY <1>1, AmongRemoved
<1>6. Cardinality(Among(calls, Tried)) \in Nat
  BY <1>1, AmongCounted
<1> HIDE DEF Flown, Tried
<1>7. (IF calls[i] \in Tried THEN 1 ELSE 0) = calls[i].tries
  BY <1>2
<1>8. QED
  BY <1>2, <1>3, <1>4, <1>5, <1>7

LEMMA IssueKept == ASSUME RuntimeInv, NEW k \in Keys, Runtime!Issue(k) PROVE RuntimeInv'
<1>1. /\ stage.open \/ failed
      /\ Runtime!Asked(k, calls, 0)
      /\ UNCHANGED <<pages, retry, responses, received, stage, accepted, failed, replay>>
  BY DEF Runtime!Issue
<1>2. calls \in Seq(Runtime!Call) /\ received \in Nat /\ responses[k] \in Seq(1..received)
  BY RuntimeFields DEF RuntimeInv
<1>3. Counts(calls, lease, meter, retry.runs - 0, retry.waited) /\ retry.runs <= RunRetries
  <2>1. retry.runs \in Nat
    BY DEF RuntimeInv, RuntimeTyped, Runtime!TypeOK
  <2>2. retry.runs - 0 = retry.runs
    BY <2>1
  <2>3. QED
    BY <2>2 DEF RuntimeInv, Counts
<1>4. /\ calls' \in Seq(Runtime!Call)
      /\ \A i \in DOMAIN calls' :
              \/ i \in DOMAIN calls /\ calls'[i] = calls[i]
              \/ calls'[i].cached = responses[k]
      /\ lease' \in [active : Nat, count : Nat] /\ meter' \in [active : Nat, count : Nat]
      /\ Counts(calls', lease', meter', retry.runs, retry.waited)
  BY <1>1, <1>2, <1>3, AskedCounted, 0 \in 0..1 DEF RuntimeInv
<1>5. \A i \in DOMAIN calls' : calls'[i].cached \in Seq(1..received)
  BY <1>2, <1>4 DEF RuntimeInv, RuntimeTyped
<1>6. RuntimeTyped'
  BY <1>1, <1>4, <1>5 DEF RuntimeInv, RuntimeTyped, Runtime!TypeOK
<1>7. Settled'
  BY <1>1 DEF RuntimeInv, Settled
<1>8. QED
  BY <1>1, <1>4, <1>6, <1>7 DEF RuntimeInv

LEMMA WakeKept ==
  ASSUME RuntimeInv, NEW i \in DOMAIN calls, Runtime!Wake(i) PROVE RuntimeInv'
<1> DEFINE others == Runtime!RemoveAt(calls, i)
           k == calls[i].key
           tries == calls[i].tries
<1>1. /\ calls[i].phase = "sleeping"
      /\ \/ Runtime!Asked(k, others, tries)
         \/ calls' = others /\ lease' = lease /\ meter' = meter
      /\ UNCHANGED <<pages, retry, responses, received, stage, accepted, failed, replay>>
  BY DEF Runtime!Wake
<1>2. /\ calls \in Seq(Runtime!Call) /\ received \in Nat /\ k \in Keys /\ tries \in 0..1
      /\ responses[k] \in Seq(1..received)
  BY RuntimeFields DEF RuntimeInv
<1>3. /\ others \in Seq(Runtime!Call)
      /\ \A j \in DOMAIN others : \E n \in DOMAIN calls : others[j] = calls[n]
      /\ Cardinality(Among(others, Flown)) = Cardinality(Among(calls, Flown))
      /\ Cardinality(Among(others, Tried)) = Cardinality(Among(calls, Tried)) - tries
  <2>1. Cardinality(Among(calls, Flown)) \in Nat
    BY <1>2, AmongCounted
  <2>2. QED
    BY <1>1, <2>1, CallsFewer DEF RuntimeInv
<1> HIDE DEF others, k, tries
<1>4. /\ Counts(others, lease, meter, retry.runs - tries, retry.waited)
      /\ Counts(others, lease, meter, retry.runs, retry.waited)
      /\ retry.runs <= RunRetries
  <2>1. retry.runs \in Nat
    BY DEF RuntimeInv, RuntimeTyped, Runtime!TypeOK
  <2>2. Cardinality(Among(calls, Tried)) \in Nat
    BY <1>2, AmongCounted
  <2> DEFINE tried == Cardinality(Among(calls, Tried))
             triedNow == Cardinality(Among(others, Tried))
  <2>3. /\ tried \in Nat /\ triedNow = tried - tries /\ tried <= retry.runs
        /\ retry.runs <= RunRetries
    BY <1>3, <2>2 DEF RuntimeInv, Counts
  <2> HIDE DEF tried, triedNow
  <2>4. triedNow <= retry.runs - tries /\ triedNow <= retry.runs
        /\ retry.runs - tries <= RunRetries
    BY <1>2, <2>1, <2>3, Limits
  <2>5. QED
    BY <1>3, <2>3, <2>4 DEF RuntimeInv, Counts, triedNow
<1>5. /\ calls' \in Seq(Runtime!Call)
      /\ \A j \in DOMAIN calls' :
              \/ j \in DOMAIN others /\ calls'[j] = others[j]
              \/ calls'[j].cached = responses[k]
      /\ lease' \in [active : Nat, count : Nat] /\ meter' \in [active : Nat, count : Nat]
      /\ Counts(calls', lease', meter', retry.runs, retry.waited)
  <2>1. CASE Runtime!Asked(k, others, tries)
    BY <1>2, <1>3, <1>4, <2>1, AskedCounted DEF RuntimeInv
  <2>2. CASE calls' = others /\ lease' = lease /\ meter' = meter
    BY <1>3, <1>4, <2>2 DEF RuntimeInv, RuntimeTyped, Runtime!TypeOK
  <2>3. QED
    BY <1>1, <2>1, <2>2
<1>6. \A j \in DOMAIN calls' : calls'[j].cached \in Seq(1..received)
  BY <1>2, <1>3, <1>5 DEF RuntimeInv, RuntimeTyped
<1>7. RuntimeTyped'
  BY <1>1, <1>5, <1>6 DEF RuntimeInv, RuntimeTyped, Runtime!TypeOK
<1>8. Settled'
  <2>1. calls # << >>
    BY <1>2
  <2>2. ~failed => stage.open
    BY <2>1 DEF RuntimeInv, Settled
  <2>3. QED
    BY <1>1, <2>2 DEF RuntimeInv, Settled
<1>9. QED
  BY <1>1, <1>5, <1>7, <1>8 DEF RuntimeInv

\* One call less, with its lease given back if it was in flight.
LEMMA FewerCounted ==
  ASSUME RuntimeInv, NEW i \in Runtime!Flying
  PROVE  /\ lease.active - 1 \in Nat /\ meter.active - 1 \in Nat
         /\ Runtime!Ended(lease) \in [active : Nat, count : Nat]
         /\ Runtime!Ended(meter) \in [active : Nat, count : Nat]
         /\ Counts(Runtime!RemoveAt(calls, i), Runtime!Ended(lease), Runtime!Ended(meter),
                   retry.runs, retry.waited)
<1> DEFINE others == Runtime!RemoveAt(calls, i)
           flown == Cardinality(Among(calls, Flown))
           tried == Cardinality(Among(calls, Tried))
           flownNow == Cardinality(Among(others, Flown))
           triedNow == Cardinality(Among(others, Tried))
<1>1. lease \in [active : Nat, count : Nat] /\ meter \in [active : Nat, count : Nat]
  BY DEF RuntimeInv, RuntimeTyped, Runtime!TypeOK
<1>2. retry.runs \in Nat
  BY DEF RuntimeInv, RuntimeTyped, Runtime!TypeOK
<1>3. calls \in Seq(Runtime!Call) /\ i \in DOMAIN calls /\ calls[i].phase = "flying"
      /\ calls[i].tries \in 0..1
  BY RuntimeFields DEF RuntimeInv, Runtime!Flying
<1>4. /\ others \in Seq(Runtime!Call)
      /\ flownNow = flown - 1 /\ triedNow = tried - calls[i].tries
  BY <1>3, CallsFewer DEF RuntimeInv
<1>5. flown \in Nat /\ tried \in Nat
  BY <1>3, AmongCounted
<1>6. flownNow \in Nat
  BY <1>4, AmongCounted
<1>7. /\ lease.active = flown /\ meter.active = flown /\ lease.active <= Concurrent
      /\ meter.count <= lease.count /\ lease.count <= RequestLimit
      /\ tried <= retry.runs /\ retry.runs <= RunRetries /\ retry.waited <= MaxTotalWait
  BY DEF RuntimeInv, Counts
<1> HIDE DEF others, flown, tried, flownNow, triedNow
<1>8. lease.active - 1 = flownNow /\ meter.active - 1 = flownNow /\ flownNow <= Concurrent
  BY <1>4, <1>5, <1>7, Limits
<1>9. triedNow <= retry.runs
  BY <1>2, <1>3, <1>4, <1>5, <1>7
<1>10. /\ Runtime!Ended(lease).active = flownNow /\ Runtime!Ended(lease).count = lease.count
       /\ Runtime!Ended(meter).active = flownNow /\ Runtime!Ended(meter).count = meter.count
       /\ Runtime!Ended(lease) \in [active : Nat, count : Nat]
       /\ Runtime!Ended(meter) \in [active : Nat, count : Nat]
  BY <1>1, <1>6, <1>8 DEF Runtime!Ended
<1>11. Counts(others, Runtime!Ended(lease), Runtime!Ended(meter), retry.runs, retry.waited)
  BY <1>7, <1>8, <1>9, <1>10 DEF Counts, flownNow, triedNow
<1>12. QED
  BY <1>6, <1>8, <1>10, <1>11 DEF others

\* While a call is under way and nothing failed, a stage is open and nothing is replayed.
LEMMA UnderWay ==
  ASSUME RuntimeInv, NEW i \in DOMAIN calls
  PROVE  ~failed => stage.open /\ ~replay.on
<1>1. calls # << >>
  BY RuntimeFields DEF RuntimeInv
<1>2. QED
  BY <1>1 DEF RuntimeInv, Settled

LEMMA AnswerKept ==
  ASSUME RuntimeInv, NEW i \in DOMAIN calls, Runtime!Answer(i) PROVE RuntimeInv'
<1> DEFINE k == calls[i].key
<1>1. /\ i \in Runtime!Flying
      /\ received' = received + 1
      /\ responses' = [responses EXCEPT ![k] = Append(calls[i].cached, received + 1)]
      /\ pages' = IF k \in Searches /\ pages < PageLimit THEN pages + 1 ELSE pages
      /\ calls' = Runtime!RemoveAt(calls, i)
      /\ lease' = Runtime!Ended(lease) /\ meter' = Runtime!Ended(meter)
      /\ UNCHANGED <<retry, stage, accepted, failed, replay>>
  BY DEF Runtime!Answer
<1>2. /\ received \in Nat /\ k \in Keys /\ responses \in [Keys -> Seq(1..received)]
      /\ calls[i].cached \in Seq(1..received)
  BY RuntimeFields DEF RuntimeInv
<1>3. /\ calls' \in Seq(Runtime!Call)
      /\ \A j \in DOMAIN calls' : \E n \in DOMAIN calls : calls'[j] = calls[n]
  BY <1>1, CallsFewer DEF RuntimeInv
<1>4. \A j \in DOMAIN calls' : calls'[j].cached \in Seq(1..received')
  <2> SUFFICES ASSUME NEW j \in DOMAIN calls' PROVE calls'[j].cached \in Seq(1..received')
    OBVIOUS
  <2>1. PICK n \in DOMAIN calls : calls'[j] = calls[n]
    BY <1>3
  <2>2. calls[n].cached \in Seq(1..received)
    BY RuntimeFields DEF RuntimeInv
  <2>3. QED
    BY <1>1, <1>2, <2>1, <2>2, AnswersWiden
<1>5. responses' \in [Keys -> Seq(1..received')]
  <2>1. \A h \in Keys : responses[h] \in Seq(1..(received + 1))
    BY <1>2, AnswersWiden
  <2>2. Append(calls[i].cached, received + 1) \in Seq(1..(received + 1))
    <3>1. calls[i].cached \in Seq(1..(received + 1)) /\ received + 1 \in 1..(received + 1)
      BY <1>2, AnswersWiden
    <3>2. QED
      BY <3>1
  <2>3. QED
    BY <1>1, <1>2, <2>1, <2>2
<1>6. /\ retry \in [runs : Nat, waited : Nat] /\ pages \in 0..PageLimit
      /\ stage \in [open : BOOLEAN, offset : 0..received, count : 0..MaxStages]
      /\ accepted \subseteq 1..received /\ failed \in BOOLEAN
      /\ replay \in [on : BOOLEAN, cursors : [Keys -> Nat], read : SUBSET (1..received)]
  BY DEF RuntimeInv, RuntimeTyped, Runtime!TypeOK
<1>7. pages' \in 0..PageLimit
  BY <1>1, <1>6, Limits
<1>8. /\ stage \in [open : BOOLEAN, offset : 0..(received + 1), count : 0..MaxStages]
      /\ accepted \subseteq 1..(received + 1)
      /\ replay \in [on : BOOLEAN, cursors : [Keys -> Nat], read : SUBSET (1..(received + 1))]
  <2>1. 0..received \subseteq 0..(received + 1) /\ 1..received \subseteq 1..(received + 1)
    BY <1>2
  <2> HIDE DEF k
  <2>2. stage \in [open : BOOLEAN, offset : 0..(received + 1), count : 0..MaxStages]
    BY <1>6, <2>1
  <2>3. replay \in [on : BOOLEAN, cursors : [Keys -> Nat], read : SUBSET (1..(received + 1))]
    BY <1>6, <2>1
  <2>4. QED
    BY <1>6, <2>1, <2>2, <2>3
<1>9. /\ lease' \in [active : Nat, count : Nat] /\ meter' \in [active : Nat, count : Nat]
      /\ Counts(calls', lease', meter', retry'.runs, retry'.waited)
  BY <1>1, FewerCounted
<1> HIDE DEF k
<1>10. RuntimeTyped'
  <2>1. received' \in Nat /\ replay'.on \in BOOLEAN
    BY <1>1, <1>2, <1>6
  <2>2. /\ stage' \in [open : BOOLEAN, offset : 0..received', count : 0..MaxStages]
        /\ accepted' \subseteq 1..received' /\ failed' \in BOOLEAN
        /\ replay' \in [on : BOOLEAN, cursors : [Keys -> Nat], read : SUBSET (1..received')]
        /\ retry' \in [runs : Nat, waited : Nat]
    BY <1>1, <1>6, <1>8
  <2>3. QED
    BY <1>3, <1>4, <1>5, <1>7, <1>9, <2>1, <2>2 DEF RuntimeTyped, Runtime!TypeOK
<1>11. Settled'
  BY <1>1, UnderWay DEF RuntimeInv, Settled
<1>12. QED
  BY <1>9, <1>10, <1>11 DEF RuntimeInv

LEMMA FailKept ==
  ASSUME RuntimeInv, NEW i \in DOMAIN calls, Runtime!Fail(i) PROVE RuntimeInv'
<1>1. /\ i \in Runtime!Flying
      /\ lease' = Runtime!Ended(lease) /\ meter' = Runtime!Ended(meter)
      /\ Runtime!GiveUp(i) \/ \E w \in Waits : Runtime!TryAgain(i, w)
      /\ UNCHANGED <<pages, responses, received, stage, accepted, failed, replay>>
  BY DEF Runtime!Fail
<1>2. /\ lease' \in [active : Nat, count : Nat] /\ meter' \in [active : Nat, count : Nat]
  BY <1>1, FewerCounted
<1>3. Settled'
  BY <1>1, UnderWay DEF RuntimeInv, Settled
<1>4. CASE Runtime!GiveUp(i)
  <2>1. calls' = Runtime!RemoveAt(calls, i) /\ retry' = retry
    BY <1>4 DEF Runtime!GiveUp
  <2>2. /\ calls' \in Seq(Runtime!Call)
        /\ \A j \in DOMAIN calls' : \E n \in DOMAIN calls : calls'[j] = calls[n]
    BY <2>1, CallsFewer DEF RuntimeInv
  <2>3. \A j \in DOMAIN calls' : calls'[j].cached \in Seq(1..received)
    BY <2>2, RuntimeFields DEF RuntimeInv
  <2>4. RuntimeTyped'
    BY <1>1, <1>2, <2>1, <2>2, <2>3 DEF RuntimeInv, RuntimeTyped, Runtime!TypeOK
  <2>5. Counts(calls', lease', meter', retry'.runs, retry'.waited)
    BY <1>1, <2>1, FewerCounted
  <2>6. QED
    BY <1>3, <2>4, <2>5 DEF RuntimeInv
<1>5. ASSUME NEW w \in Waits, Runtime!TryAgain(i, w) PROVE RuntimeInv'
  <2> DEFINE c == [key |-> calls[i].key, phase |-> "sleeping", cached |-> << >>, tries |-> 1]
  <2>1. /\ calls[i].tries = 0 /\ retry.runs < RunRetries /\ retry.waited + w <= MaxTotalWait
        /\ retry' = [runs |-> retry.runs + 1, waited |-> retry.waited + w]
        /\ calls' = [calls EXCEPT ![i].phase = "sleeping", ![i].tries = 1, ![i].cached = << >>]
    BY <1>5 DEF Runtime!TryAgain, Runtime!MayRetry
  <2>2. /\ calls \in Seq(Runtime!Call) /\ calls[i] \in Runtime!Call /\ received \in Nat
        /\ calls[i].phase = "flying"
    BY <1>1, RuntimeFields DEF RuntimeInv, Runtime!Flying
  <2>3. calls' = [calls EXCEPT ![i] = c]
    <3> DEFINE c1 == [calls[i] EXCEPT !.phase = "sleeping"]
               c2 == [c1 EXCEPT !.tries = 1]
               c3 == [c2 EXCEPT !.cached = << >>]
    <3>1. c3 = c
      <4> DEFINE s == calls[i]
      <4>1. s \in Runtime!Call
        BY <2>2
      <4> HIDE DEF s
      <4>2. s = [key |-> s.key, phase |-> s.phase, cached |-> s.cached, tries |-> s.tries]
        BY <4>1 DEF Runtime!Call
      <4> DEFINE s1 == [s EXCEPT !.phase = "sleeping"]
                 s2 == [s1 EXCEPT !.tries = 1]
      <4>3. s1 = [key |-> s.key, phase |-> "sleeping", cached |-> s.cached, tries |-> s.tries]
        BY <4>2
      <4> HIDE DEF s1
      <4>4. s2 = [key |-> s.key, phase |-> "sleeping", cached |-> s.cached, tries |-> 1]
        BY <4>3
      <4> HIDE DEF s2
      <4>5. [s2 EXCEPT !.cached = << >>] =
              [key |-> s.key, phase |-> "sleeping", cached |-> << >>, tries |-> 1]
        BY <4>4
      <4>6. QED
        BY <4>5 DEF s, s1, s2
    <3>2. calls' = [calls EXCEPT ![i] = c3]
      BY <2>1, <2>2
    <3>3. QED
      BY <3>1, <3>2
  <2>4. /\ c \in Runtime!Call /\ c \notin Flown /\ c \in Tried /\ c.cached = << >>
        /\ calls[i] \in Flown /\ calls[i] \notin Tried
    <3>1. calls[i].key \in Keys /\ << >> \in Seq(Nat)
      BY <2>2 DEF Runtime!Call
    <3>2. c \in Runtime!Call
      BY <3>1 DEF Runtime!Call
    <3>3. QED
      BY <2>1, <2>2, <3>2 DEF Flown, Tried
  <2> HIDE DEF c
  <2> DEFINE flown == Cardinality(Among(calls, Flown))
             tried == Cardinality(Among(calls, Tried))
             flownNow == Cardinality(Among(calls', Flown))
             triedNow == Cardinality(Among(calls', Tried))
  <2>5. calls' \in Seq(Runtime!Call)
    BY <2>2, <2>3, <2>4, AmongReplaced
  <2>6. flownNow = flown - 1 + 0
    BY <2>2, <2>3, <2>4, AmongReplaced
  <2>7. triedNow = tried - 0 + 1
    BY <2>2, <2>3, <2>4, AmongReplaced
  <2>8. \A j \in DOMAIN calls' : calls'[j].cached \in Seq(1..received)
    <3>1. \A j \in DOMAIN calls' : j \in DOMAIN calls /\ (calls'[j] = calls[j] \/ calls'[j] = c)
      BY <2>2, <2>3
    <3>2. << >> \in Seq(1..received)
      OBVIOUS
    <3>3. QED
      BY <2>4, <3>1, <3>2, RuntimeFields DEF RuntimeInv
  <2>9. retry.runs \in Nat /\ retry.waited \in Nat /\ w \in Nat
    BY Limits DEF RuntimeInv, RuntimeTyped, Runtime!TypeOK
  <2>10. /\ retry' \in [runs : Nat, waited : Nat]
         /\ retry'.runs = retry.runs + 1 /\ retry'.waited = retry.waited + w
    BY <2>1, <2>9
  <2>11. RuntimeTyped'
    BY <1>1, <1>2, <2>5, <2>8, <2>10 DEF RuntimeInv, RuntimeTyped, Runtime!TypeOK
  <2>12. Counts(calls', lease', meter', retry'.runs, retry'.waited)
    <3> DEFINE others == Cardinality(Among(Runtime!RemoveAt(calls, i), Flown))
    <3>1. /\ lease'.active = others /\ meter'.active = others /\ lease'.active <= Concurrent
          /\ meter'.count <= lease'.count /\ lease'.count <= RequestLimit
      BY <1>1, FewerCounted DEF Counts
    <3>2. others = flown - 1
      BY <2>2, CallsFewer DEF RuntimeInv
    <3>3. flown \in Nat /\ tried \in Nat /\ tried <= retry.runs
      BY <2>2, AmongCounted DEF RuntimeInv, Counts
    <3> HIDE DEF others, flown, tried, flownNow, triedNow
    <3>4. others = flownNow
      BY <2>6, <3>2, <3>3
    <3>5. triedNow <= retry'.runs /\ retry'.runs <= RunRetries /\ retry'.waited <= MaxTotalWait
      BY <2>1, <2>7, <2>9, <2>10, <3>3, Limits
    <3>6. QED
      BY <3>1, <3>4, <3>5 DEF Counts, flownNow, triedNow
  <2>13. QED
    BY <1>3, <2>11, <2>12 DEF RuntimeInv
<1>6. QED
  BY <1>1, <1>4, <1>5

\* What no step of a stage or of the replay touches.
LEMMA CallsUntouched ==
  ASSUME RuntimeInv, calls' = calls, lease' = lease, meter' = meter, pages' = pages,
         retry' = retry, responses' = responses, received' = received
  PROVE  /\ RuntimeTyped' <=>
              /\ stage' \in [open : BOOLEAN, offset : 0..received, count : 0..MaxStages]
              /\ accepted' \subseteq 1..received /\ failed' \in BOOLEAN
              /\ replay' \in [on : BOOLEAN, cursors : [Keys -> Nat], read : SUBSET (1..received)]
         /\ Counts(calls', lease', meter', retry'.runs, retry'.waited)
<1>1. Counts(calls', lease', meter', retry'.runs, retry'.waited)
  BY DEF RuntimeInv
<1>2. ASSUME NEW r \in [on : BOOLEAN, cursors : [Keys -> Nat], read : SUBSET (1..received)]
      PROVE  r.on \in BOOLEAN
  OBVIOUS
<1>3. QED
  BY <1>1, <1>2 DEF RuntimeInv, RuntimeTyped, Runtime!TypeOK

LEMMA StagesKept ==
  ASSUME RuntimeInv, Runtime!OpenStage \/ Runtime!EndStage \/ Runtime!FailStage
  PROVE  RuntimeInv'
<1>1. /\ received \in Nat /\ accepted \subseteq 1..received /\ failed \in BOOLEAN
      /\ stage \in [open : BOOLEAN, offset : 0..received, count : 0..MaxStages]
      /\ replay \in [on : BOOLEAN, cursors : [Keys -> Nat], read : SUBSET (1..received)]
  BY DEF RuntimeInv, RuntimeTyped, Runtime!TypeOK
<1>2. /\ replay.on => ~stage.open
      /\ ~failed =>
           /\ ~stage.open => calls = << >>
           /\ 1..(IF stage.open THEN stage.offset ELSE received) \subseteq accepted
           /\ replay.read \subseteq accepted
  BY DEF RuntimeInv, Settled
<1>3. stage.offset \in 0..received /\ stage.count \in 0..MaxStages
  BY <1>1
<1>4. CASE Runtime!OpenStage
  <2>1. /\ ~stage.open /\ ~replay.on /\ stage.count < MaxStages
        /\ stage' = [open |-> TRUE, offset |-> received, count |-> stage.count + 1]
        /\ UNCHANGED <<calls, lease, meter, pages, retry, responses, received, accepted, failed,
                       replay>>
    BY <1>4 DEF Runtime!OpenStage
  <2>2. stage.count + 1 \in 0..MaxStages
    BY <1>3, <2>1, Limits
  <2>3. RuntimeTyped' /\ Counts(calls', lease', meter', retry'.runs, retry'.waited)
    BY <1>1, <2>1, <2>2, CallsUntouched
  <2>4. Settled'
    BY <1>2, <2>1 DEF Settled
  <2>5. QED
    BY <2>3, <2>4 DEF RuntimeInv
<1>5. CASE Runtime!EndStage
  <2>1. /\ stage.open /\ (failed \/ calls = << >>)
        /\ accepted' = accepted \cup (stage.offset + 1)..received
        /\ stage' = [stage EXCEPT !.open = FALSE]
        /\ UNCHANGED <<calls, lease, meter, pages, retry, responses, received, failed, replay>>
    BY <1>5 DEF Runtime!EndStage
  <2>2. accepted' \subseteq 1..received
    BY <1>1, <1>3, <2>1
  <2>3. stage' \in [open : BOOLEAN, offset : 0..received, count : 0..MaxStages] /\ ~stage'.open
    BY <1>1, <2>1
  <2>4. RuntimeTyped' /\ Counts(calls', lease', meter', retry'.runs, retry'.waited)
    BY <1>1, <2>1, <2>2, <2>3, CallsUntouched
  <2>5. 1..stage.offset \subseteq accepted => 1..received \subseteq accepted'
    BY <1>1, <1>3, <2>1
  <2>6. Settled'
    BY <1>2, <2>1, <2>3, <2>5 DEF Settled
  <2>7. QED
    BY <2>4, <2>6 DEF RuntimeInv
<1>6. CASE Runtime!FailStage
  <2>1. /\ failed' = TRUE /\ stage.open
        /\ stage' = [stage EXCEPT !.open = FALSE]
        /\ UNCHANGED <<calls, lease, meter, pages, retry, responses, received, accepted, replay>>
    BY <1>6 DEF Runtime!FailStage
  <2>2. stage' \in [open : BOOLEAN, offset : 0..received, count : 0..MaxStages] /\ ~stage'.open
    BY <1>1, <2>1
  <2>3. RuntimeTyped' /\ Counts(calls', lease', meter', retry'.runs, retry'.waited)
    BY <1>1, <2>1, <2>2, CallsUntouched
  <2>4. Settled'
    BY <2>1, <2>2 DEF Settled
  <2>5. QED
    BY <2>3, <2>4 DEF RuntimeInv
<1>7. QED
  BY <1>4, <1>5, <1>6

LEMMA BeginReplayKept == ASSUME RuntimeInv, Runtime!BeginReplay PROVE RuntimeInv'
<1>1. /\ ~stage.open /\ ~replay.on
      /\ replay' = [on |-> TRUE, cursors |-> [k \in Keys |-> 0], read |-> {}]
      /\ UNCHANGED <<calls, lease, meter, pages, retry, responses, received, stage, accepted,
                     failed>>
  BY DEF Runtime!BeginReplay
<1>2. [k \in Keys |-> 0] \in [Keys -> Nat]
  OBVIOUS
<1>3. replay' \in [on : BOOLEAN, cursors : [Keys -> Nat], read : SUBSET (1..received)]
      /\ replay'.read = {}
  BY <1>1, <1>2
<1>4. /\ accepted \subseteq 1..received /\ failed \in BOOLEAN
      /\ stage \in [open : BOOLEAN, offset : 0..received, count : 0..MaxStages]
  BY DEF RuntimeInv, RuntimeTyped, Runtime!TypeOK
<1>5. RuntimeTyped' /\ Counts(calls', lease', meter', retry'.runs, retry'.waited)
  BY <1>1, <1>3, <1>4, CallsUntouched
<1>6. Settled'
  BY <1>1, <1>3 DEF RuntimeInv, Settled
<1>7. QED
  BY <1>5, <1>6 DEF RuntimeInv

\* A replayed answer is one that arrived; if nothing failed, all of them were accepted.
LEMMA TakeReads ==
  ASSUME RuntimeInv, NEW k \in Keys, Runtime!Take(k)
  PROVE  /\ replay.on
         /\ replay' \in [on : BOOLEAN, cursors : [Keys -> Nat], read : SUBSET (1..received)]
         /\ replay'.on
         /\ ~failed => replay'.read \subseteq accepted
<1> DEFINE at == replay.cursors[k] + 1
           answer == responses[k][at]
<1>1. /\ replay.on /\ at \in DOMAIN responses[k]
      /\ replay' = [replay EXCEPT !.cursors[k] = at, !.read = @ \cup {answer}]
  BY DEF Runtime!Take
<1>2. /\ responses[k] \in Seq(1..received) /\ received \in Nat
      /\ replay \in [on : BOOLEAN, cursors : [Keys -> Nat], read : SUBSET (1..received)]
  BY DEF RuntimeInv, RuntimeTyped, Runtime!TypeOK
<1>3. answer \in 1..received
  BY <1>1, <1>2
<1>4. replay.cursors \in [Keys -> Nat] /\ at \in Nat
  BY <1>2
<1> HIDE DEF at, answer
<1> DEFINE moved == [replay EXCEPT !.cursors[k] = at]
<1>5. replay' = [moved EXCEPT !.read = @ \cup {answer}]
  BY <1>1
<1>6. /\ moved \in [on : BOOLEAN, cursors : [Keys -> Nat], read : SUBSET (1..received)]
      /\ moved.read = replay.read /\ moved.on = replay.on
  BY <1>2, <1>4
<1> HIDE DEF moved
<1>7. /\ replay' \in [on : BOOLEAN, cursors : [Keys -> Nat], read : SUBSET (1..received)]
      /\ replay'.read = replay.read \cup {answer} /\ replay'.on = replay.on
  BY <1>3, <1>5, <1>6
<1>8. ~failed => 1..received \subseteq accepted /\ replay.read \subseteq accepted
  BY <1>1 DEF RuntimeInv, Settled
<1>9. QED
  BY <1>1, <1>3, <1>7, <1>8

LEMMA ReplayKept == ASSUME RuntimeInv, NEW k \in Keys, Runtime!Replay(k) PROVE RuntimeInv'
<1>1. /\ Runtime!Take(k)
      /\ UNCHANGED <<calls, lease, meter, pages, retry, responses, received, stage, accepted,
                     failed>>
  BY DEF Runtime!Replay, Runtime!Take
<1>2. /\ accepted \subseteq 1..received /\ failed \in BOOLEAN
      /\ stage \in [open : BOOLEAN, offset : 0..received, count : 0..MaxStages]
  BY DEF RuntimeInv, RuntimeTyped, Runtime!TypeOK
<1>3. RuntimeTyped' /\ Counts(calls', lease', meter', retry'.runs, retry'.waited)
  BY <1>1, <1>2, TakeReads, CallsUntouched
<1>4. Settled'
  BY <1>1, TakeReads DEF RuntimeInv, Settled
<1>5. QED
  BY <1>3, <1>4 DEF RuntimeInv

LEMMA StraggleKept ==
  ASSUME RuntimeInv, NEW i \in DOMAIN calls, Runtime!Straggle(i) PROVE RuntimeInv'
<1>1. /\ calls[i].phase = "sleeping" /\ calls' = Runtime!RemoveAt(calls, i)
      /\ Runtime!Take(calls[i].key)
      /\ UNCHANGED <<lease, meter, pages, retry, responses, received, stage, accepted, failed>>
  BY DEF Runtime!Straggle, Runtime!Take
<1>2. /\ calls \in Seq(Runtime!Call) /\ calls[i].key \in Keys /\ calls[i].tries \in 0..1
  BY RuntimeFields DEF RuntimeInv
<1>3. /\ replay.on /\ replay'.on
      /\ replay' \in [on : BOOLEAN, cursors : [Keys -> Nat], read : SUBSET (1..received)]
      /\ ~failed => replay'.read \subseteq accepted
  BY <1>1, <1>2, TakeReads
<1>4. /\ calls' \in Seq(Runtime!Call)
      /\ \A j \in DOMAIN calls' : \E n \in DOMAIN calls : calls'[j] = calls[n]
  BY <1>1, CallsFewer DEF RuntimeInv
<1>5. \A j \in DOMAIN calls' : calls'[j].cached \in Seq(1..received)
  BY <1>4, RuntimeFields DEF RuntimeInv
<1>6. replay'.on \in BOOLEAN
  BY <1>3
<1>7. RuntimeTyped'
  BY <1>1, <1>3, <1>4, <1>5, <1>6 DEF RuntimeInv, RuntimeTyped, Runtime!TypeOK
<1>8. Counts(calls', lease', meter', retry'.runs, retry'.waited)
  <2> DEFINE flown == Cardinality(Among(calls, Flown))
             tried == Cardinality(Among(calls, Tried))
             flownNow == Cardinality(Among(calls', Flown))
             triedNow == Cardinality(Among(calls', Tried))
  <2>1. flown \in Nat /\ tried \in Nat
    BY <1>2, AmongCounted
  <2>2. flownNow = flown - 0 /\ triedNow = tried - calls[i].tries
    BY <1>1, CallsFewer DEF RuntimeInv
  <2>3. retry.runs \in Nat /\ tried <= retry.runs
    BY DEF RuntimeInv, RuntimeTyped, Runtime!TypeOK, Counts
  <2> HIDE DEF flown, tried, flownNow, triedNow
  <2>4. flownNow = flown /\ triedNow <= retry.runs
    BY <1>2, <2>1, <2>2, <2>3
  <2>5. QED
    BY <1>1, <2>4 DEF RuntimeInv, Counts, flown, flownNow, triedNow
<1>9. Settled'
  BY <1>1, <1>3, UnderWay DEF RuntimeInv, Settled
<1>10. QED
  BY <1>7, <1>8, <1>9 DEF RuntimeInv

LEMMA RuntimeInit == Runtime!Init => RuntimeInv
<1> SUFFICES ASSUME Runtime!Init PROVE RuntimeInv
  OBVIOUS
<1>1. /\ calls = << >> /\ lease = [active |-> 0, count |-> 0] /\ meter = [active |-> 0, count |-> 0]
      /\ pages = 0 /\ retry = [runs |-> 0, waited |-> 0] /\ responses = [k \in Keys |-> << >>]
      /\ received = 0 /\ stage = [open |-> FALSE, offset |-> 0, count |-> 0]
      /\ accepted = {} /\ failed = FALSE
      /\ replay = [on |-> FALSE, cursors |-> [k \in Keys |-> 0], read |-> {}]
  BY DEF Runtime!Init, Runtime!Meter
<1>2. [k \in Keys |-> 0] \in [Keys -> Nat] /\ << >> \in Seq(Runtime!Call)
  OBVIOUS
<1>3. [k \in Keys |-> << >>] \in [Keys -> Seq(1..0)]
  OBVIOUS
<1>4. RuntimeTyped
  <2>1. stage \in [open : BOOLEAN, offset : 0..0, count : 0..MaxStages] /\ pages \in 0..PageLimit
    BY <1>1, Limits
  <2>2. replay \in [on : BOOLEAN, cursors : [Keys -> Nat], read : SUBSET (1..0)]
    BY <1>1, <1>2
  <2>3. /\ lease \in [active : Nat, count : Nat] /\ meter \in [active : Nat, count : Nat]
        /\ retry \in [runs : Nat, waited : Nat]
    BY <1>1
  <2>4. /\ responses \in [Keys -> Seq(1..received)] /\ received \in Nat
        /\ accepted \subseteq 1..received /\ failed \in BOOLEAN /\ replay.on \in BOOLEAN
    BY <1>1, <1>3
  <2>5. calls \in Seq(Runtime!Call) /\ \A i \in DOMAIN calls : FALSE
    BY <1>1, <1>2
  <2>6. QED
    BY <1>1, <2>1, <2>2, <2>3, <2>4, <2>5 DEF RuntimeTyped, Runtime!TypeOK
<1>5. Counts(calls, lease, meter, retry.runs, retry.waited)
  <2>1. Among(calls, Flown) = {} /\ Among(calls, Tried) = {}
    BY <1>1 DEF Among
  <2>2. Cardinality(Among(calls, Flown)) = 0 /\ Cardinality(Among(calls, Tried)) = 0
    BY <2>1, FS_EmptySet
  <2>3. QED
    BY <1>1, <2>2, Limits DEF Counts
<1>6. Settled
  <2>1. 1..0 = {}
    OBVIOUS
  <2>2. QED
    BY <1>1, <2>1 DEF Settled
<1>7. QED
  BY <1>4, <1>5, <1>6 DEF RuntimeInv

LEMMA RuntimeNext == RuntimeInv /\ Runtime!Next => RuntimeInv'
<1> SUFFICES ASSUME RuntimeInv, Runtime!Next PROVE RuntimeInv'
  OBVIOUS
<1>1. CASE Runtime!OpenStage \/ Runtime!EndStage \/ Runtime!FailStage
  BY <1>1, StagesKept
<1>2. CASE Runtime!BeginReplay
  BY <1>2, BeginReplayKept
<1>3. ASSUME NEW k \in Keys, Runtime!Issue(k) \/ Runtime!Replay(k) PROVE RuntimeInv'
  BY <1>3, IssueKept, ReplayKept
<1>4. ASSUME NEW i \in DOMAIN calls,
             Runtime!Wake(i) \/ Runtime!Straggle(i) \/ Runtime!Answer(i) \/ Runtime!Fail(i)
      PROVE  RuntimeInv'
  BY <1>4, WakeKept, StraggleKept, AnswerKept, FailKept
<1>5. QED
  BY <1>1, <1>2, <1>3, <1>4 DEF Runtime!Next

\* What arrived or is in flight was counted as sent, and a page is that of an answer.
Answered == received + meter.active <= meter.count /\ pages <= received

LEMMA AnsweredNext == RuntimeInv /\ Answered /\ Runtime!Next => Answered'
<1> SUFFICES ASSUME RuntimeInv, Answered, Runtime!Next PROVE Answered'
  OBVIOUS
<1>1. /\ meter \in [active : Nat, count : Nat] /\ received \in Nat /\ pages \in Nat
      /\ received + meter.active <= meter.count /\ pages <= received
  BY Limits DEF RuntimeInv, RuntimeTyped, Runtime!TypeOK, Answered
<1>2. /\ Runtime!Started(meter).active = meter.active + 1
      /\ Runtime!Started(meter).count = meter.count + 1
      /\ Runtime!Ended(meter).active = meter.active - 1
      /\ Runtime!Ended(meter).count = meter.count
  BY <1>1 DEF Runtime!Started, Runtime!Ended
<1>3. ASSUME meter' \in {meter, Runtime!Started(meter)}, received' = received, pages' = pages
      PROVE  Answered'
  BY <1>1, <1>2, <1>3 DEF Answered
<1>4. CASE Runtime!OpenStage \/ Runtime!EndStage \/ Runtime!FailStage \/ Runtime!BeginReplay
  BY <1>3, <1>4 DEF Runtime!OpenStage, Runtime!EndStage, Runtime!FailStage, Runtime!BeginReplay
<1>5. ASSUME NEW k \in Keys, Runtime!Issue(k) \/ Runtime!Replay(k) PROVE Answered'
  BY <1>3, <1>5 DEF Runtime!Issue, Runtime!Asked, Runtime!Fly, Runtime!Refused, Runtime!Replay,
                    Runtime!Take
<1>6. ASSUME NEW i \in DOMAIN calls, Runtime!Wake(i) \/ Runtime!Straggle(i) PROVE Answered'
  BY <1>3, <1>6 DEF Runtime!Wake, Runtime!Asked, Runtime!Fly, Runtime!Refused, Runtime!Straggle,
                    Runtime!Take
<1>7. ASSUME NEW i \in DOMAIN calls, Runtime!Answer(i) PROVE Answered'
  <2>1. /\ received' = received + 1 /\ meter' = Runtime!Ended(meter)
        /\ pages' \in {pages, pages + 1}
    BY <1>7 DEF Runtime!Answer
  <2>2. QED
    BY <1>1, <1>2, <2>1 DEF Answered
<1>8. ASSUME NEW i \in DOMAIN calls, Runtime!Fail(i) PROVE Answered'
  <2>1. received' = received /\ pages' = pages /\ meter' = Runtime!Ended(meter)
    BY <1>8 DEF Runtime!Fail
  <2>2. QED
    BY <1>1, <1>2, <2>1 DEF Answered
<1>9. QED
  BY <1>4, <1>5, <1>6, <1>7, <1>8 DEF Runtime!Next

(* Both counters of requests agree with the requests in flight and stay    *)
(* within the limits, however many stages, calls and retries overlap;      *)
(* what arrived was counted as sent; and a replay in which nothing had     *)
(* failed reads accepted answers alone (createPreparationRuntime,          *)
(* createRequestLease, createRetryController).                             *)
THEOREM RequestsAlwaysAccountedFor == Spec => []RequestsAreAccountedFor
<1>1. Init => RuntimeInv /\ Answered
  BY RuntimeInit DEF Init, Runtime!Init, Runtime!Meter, Answered
<1>2. RuntimeInv /\ Answered /\ [Next]_vars => RuntimeInv' /\ Answered'
  <2> SUFFICES ASSUME RuntimeInv, Answered, [Next]_vars PROVE RuntimeInv' /\ Answered'
    OBVIOUS
  <2>1. CASE RuntimeStep
    BY <2>1, RuntimeNext, AnsweredNext DEF RuntimeStep
  <2>2. CASE UNCHANGED requesting
    <3>1. /\ calls' = calls /\ lease' = lease /\ meter' = meter /\ pages' = pages
          /\ retry' = retry /\ responses' = responses /\ received' = received
          /\ stage' = stage /\ accepted' = accepted /\ failed' = failed /\ replay' = replay
      BY <2>2 DEF requesting
    <3>2. QED
      BY <3>1, CallsUntouched DEF RuntimeInv, RuntimeTyped, Settled, Runtime!TypeOK, Answered
  <2>3. QED
    BY <2>1, <2>2 DEF Next, vars, StoreStep, PreparationStep, WalkStep, CorpusStep,
                      AuthorizationStep, MeasurementStep
<1>3. RuntimeInv /\ Answered => RequestsAreAccountedFor
  <2> SUFFICES ASSUME RuntimeInv, Answered PROVE Runtime!RequestsAreAccountedFor
    BY DEF RequestsAreAccountedFor
  <2>1. /\ Runtime!Flying = Among(calls, Flown)
        /\ {i \in DOMAIN calls : calls[i].tries = 1} = Among(calls, Tried)
    BY FlyingAmong, RuntimeFields DEF RuntimeInv
  <2>2. /\ Runtime!Cardinality(Runtime!Flying) = Cardinality(Among(calls, Flown))
        /\ Runtime!Cardinality({i \in DOMAIN calls : calls[i].tries = 1}) =
             Cardinality(Among(calls, Tried))
    BY <2>1, CardinalityAlike
  <2>3. replay.read \subseteq 1..received
    BY DEF RuntimeInv, RuntimeTyped
  <2>4. received + Cardinality(Among(calls, Flown)) <= meter.count
        /\ pages <= received /\ pages <= PageLimit
    <3>1. meter.active = Cardinality(Among(calls, Flown)) /\ pages \in 0..PageLimit
      BY DEF RuntimeInv, RuntimeTyped, Runtime!TypeOK, Counts
    <3>2. QED
      BY <3>1, Limits DEF Answered
  <2>5. QED
    BY <2>2, <2>3, <2>4 DEF RuntimeInv, Counts, Settled, Runtime!RequestsAreAccountedFor
<1>4. QED
  BY <1>1, <1>2, <1>3, PTL DEF Spec

-----------------------------------------------------------------------------
(* The published experiment.                                               *)

\* What the target is, to a process and on the disk.
Held == {entries["target"], durable["target"]}
Replacing == {"syncTarget", "unlinkBackup", "rollBack"}
BackedUp == {"syncBackup", "rename", "syncTarget", "unlinkBackup", "rollBack"}
PastSync == {"openDirectory", "link", "syncBackup", "rename"} \cup Replacing \cup {"syncRollBack"}

\* Between two steps: what is published is new, and the target is one of the two, which is
\* flushed before it is the target; a backup is what the target was, or there was no target.
StoreInv ==
  /\ Store!TypeOK
  /\ previous \subseteq Store!Content \cup {Missing}
  /\ outcome # "none" => \A c \in previous : c # artifact /\ (c = Missing \/ c < artifact)
  /\ Held \subseteq previous \cup {artifact}
  /\ outcome = "none" => step = "idle" /\ artifact = 0 /\ previous \subseteq {0, Missing}
  /\ step = "idle" <=> outcome # "running"
  /\ outcome # "none" /\ artifact \in Held => flushed
  /\ step \in PastSync => flushed
  /\ step # "idle" => (holds.published <=> step \in Replacing)
  /\ step \notin Replacing \cup {"idle", "syncRollBack"} => Held \subseteq previous
  /\ step \in {"write", "sync", "openDirectory", "link", "syncBackup", "rename"} =>
       entries["temporary"] = artifact
  /\ step \in BackedUp => (holds.backup <=> entries["backup"] # Missing)
  /\ step \in {"syncBackup", "rename"} => entries["backup"] = entries["target"]
  /\ step \in Replacing => entries["backup"] \in previous
  /\ step \in {"syncTarget", "unlinkBackup"} => entries["target"] = artifact
  /\ step = "unlinkBackup" => durable["target"] = artifact
  /\ step = "syncRollBack" => entries["target"] \in previous
  /\ outcome = "PUBLISHED" => Held = {artifact}
  /\ outcome = "PUBLICATION_FAILED" => Held \subseteq previous

LEMMA ArtifactConstants ==
  /\ MaxPublications \in Nat
  /\ Missing \notin Nat \cup {Torn} /\ Torn \notin Nat
BY WorkAssumption DEF Store!ArtifactAssumption

LEMMA StoreInit == Store!Init => StoreInv
<1> SUFFICES ASSUME Store!Init PROVE StoreInv
  OBVIOUS
<1>1. /\ step = "idle" /\ outcome = "none" /\ durable = entries /\ flushed = FALSE
      /\ holds = Store!Nothing /\ artifact = 0 /\ previous \in {{Missing}, {0}}
      /\ entries \in [Store!Names -> {Missing, 0}] /\ entries["target"] \in previous
  BY DEF Store!Init
<1>2. 0 \in Store!Content
  BY ArtifactConstants DEF Store!Content
<1>3. Store!TypeOK
  BY <1>1, <1>2 DEF Store!TypeOK, Store!Nothing, Store!Names
<1>4. Held \subseteq previous
  BY <1>1 DEF Held
<1>5. QED
  BY <1>1, <1>2, <1>3, <1>4 DEF StoreInv, PastSync, Replacing, BackedUp

LEMMA BeginKept == ASSUME StoreInv, Store!Begin PROVE StoreInv'
<1>1. /\ step = "idle" /\ artifact < MaxPublications /\ step' = "open"
      /\ artifact' = artifact + 1 /\ previous' = Held
      /\ entries' = [entries EXCEPT !["temporary"] = Missing, !["backup"] = Missing]
      /\ durable' = [durable EXCEPT !["temporary"] = Missing, !["backup"] = Missing]
      /\ holds' = Store!Nothing /\ flushed' = FALSE /\ outcome' = "running"
  BY DEF Store!Begin, Held
<1>2. /\ artifact \in 0..MaxPublications /\ artifact' \in 0..MaxPublications
      /\ entries \in [Store!Names -> Store!Content \cup {Missing, Torn}]
      /\ durable \in [Store!Names -> Store!Content \cup {Missing, Torn}]
  BY <1>1, ArtifactConstants DEF StoreInv, Store!TypeOK, Store!Content
<1>3. /\ entries' \in [Store!Names -> Store!Content \cup {Missing, Torn}]
      /\ durable' \in [Store!Names -> Store!Content \cup {Missing, Torn}]
      /\ Held' = Held
  BY <1>1, <1>2 DEF Held, Store!Names
<1>4. \A c \in Held : c \in Store!Content \cup {Missing} /\ (c = Missing \/ c <= artifact)
  <2> SUFFICES ASSUME NEW c \in Held
               PROVE  c \in Store!Content \cup {Missing} /\ (c = Missing \/ c <= artifact)
    OBVIOUS
  <2>1. c = artifact \/ c \in previous
    BY DEF StoreInv
  <2>2. CASE c = artifact
    BY <1>2, <2>2 DEF Store!Content
  <2>3. CASE c \in previous
    <3>1. c = Missing \/ c < artifact \/ c = 0
      BY <2>3 DEF StoreInv
    <3>2. c \in Store!Content \cup {Missing}
      BY <2>3 DEF StoreInv
    <3>3. QED
      BY <1>2, <3>1, <3>2 DEF Store!Content
  <2>4. QED
    BY <2>1, <2>2, <2>3
<1>5. \A c \in previous' : c # artifact' /\ (c = Missing \/ c < artifact')
  BY <1>1, <1>2, <1>4, ArtifactConstants DEF Store!Content
<1>6. Store!TypeOK'
  <2>1. /\ step' \in DOMAIN Store!Following /\ artifact' \in Store!Content
        /\ holds' \in [temporary : BOOLEAN, backup : BOOLEAN, published : BOOLEAN]
    BY <1>1, <1>2 DEF Store!Following, Store!Nothing, Store!Content
  <2>2. QED
    BY <1>1, <1>3, <1>4, <2>1 DEF Store!TypeOK
<1>7. ~holds'.published
  BY <1>1 DEF Store!Nothing
<1>8. artifact' \notin Held'
  BY <1>1, <1>3, <1>5
<1>9. QED
  BY <1>1, <1>3, <1>4, <1>5, <1>6, <1>7, <1>8 DEF StoreInv, PastSync, Replacing, BackedUp

LEMMA SucceedKept == ASSUME StoreInv, Store!Succeed PROVE StoreInv'
<1> DEFINE Types(e, d, h) ==
      /\ e \in [Store!Names -> Store!Content \cup {Missing, Torn}]
      /\ d \in [Store!Names -> Store!Content \cup {Missing, Torn}]
      /\ h \in [temporary : BOOLEAN, backup : BOOLEAN, published : BOOLEAN]
<1>1. /\ previous' = previous /\ artifact' = artifact /\ outcome' = outcome
      /\ step' = Store!Following[step]
      /\ Store!Open \/ Store!Write \/ Store!SyncFile \/ Store!Link \/ Store!SyncDirectory
         \/ Store!Rename
  BY DEF Store!Succeed
<1>2. Types(entries, durable, holds) /\ artifact \in Store!Content /\ flushed \in BOOLEAN
  BY DEF StoreInv, Store!TypeOK
<1>3. outcome # "none" /\ \A c \in previous : c # artifact
  BY <1>1 DEF StoreInv, Store!Open, Store!Write, Store!SyncFile, Store!Link,
              Store!SyncDirectory, Store!Rename
<1>4. ASSUME Types(entries', durable', holds'), flushed' \in BOOLEAN,
             step' \in DOMAIN Store!Following \cup {"unlinkBackup"}
      PROVE  Store!TypeOK'
  BY <1>1, <1>2, <1>4 DEF StoreInv, Store!TypeOK
<1>5. CASE Store!Open
  <2>1. /\ step = "open" /\ step' = "write" /\ durable' = durable /\ flushed' = flushed
        /\ entries' = [entries EXCEPT !["temporary"] = artifact]
        /\ holds' = [holds EXCEPT !.temporary = TRUE]
    BY <1>1, <1>5 DEF Store!Open, Store!Following
  <2>2. Types(entries', durable', holds')
    BY <1>2, <2>1 DEF Store!Names
  <2>3. /\ Held' = Held /\ entries'["temporary"] = artifact
        /\ holds'.published = holds.published
    BY <1>2, <2>1 DEF Held, Store!Names
  <2>4. QED
    BY <1>1, <1>2, <1>3, <1>4, <2>1, <2>2, <2>3
    DEF StoreInv, PastSync, Replacing, BackedUp, Store!Following
<1>6. CASE Store!Write
  <2>1. /\ \/ step = "write" /\ step' = "sync"
           \/ step = "openDirectory" /\ step' = "link"
        /\ entries' = entries /\ durable' = durable /\ flushed' = flushed /\ holds' = holds
    BY <1>1, <1>6 DEF Store!Write, Store!Following
  <2>2. Held' = Held
    BY <2>1 DEF Held
  <2>3. QED
    BY <1>1, <1>2, <1>3, <1>4, <2>1, <2>2
    DEF StoreInv, PastSync, Replacing, BackedUp, Store!Following
<1>7. CASE Store!SyncFile
  <2>1. /\ step = "sync" /\ step' = "openDirectory"
        /\ entries' = entries /\ durable' = durable /\ flushed' = TRUE /\ holds' = holds
    BY <1>1, <1>7 DEF Store!SyncFile, Store!Following
  <2>2. Held' = Held
    BY <2>1 DEF Held
  <2>3. QED
    BY <1>1, <1>2, <1>3, <1>4, <2>1, <2>2
    DEF StoreInv, PastSync, Replacing, BackedUp, Store!Following
<1>8. CASE Store!Link
  <2>1. /\ step = "link" /\ step' = "syncBackup" /\ durable' = durable /\ flushed' = flushed
        /\ entries' = [entries EXCEPT !["backup"] = entries["target"]]
        /\ holds' = [holds EXCEPT !.backup = entries["target"] # Missing]
    BY <1>1, <1>8 DEF Store!Link, Store!Following
  <2>2. Types(entries', durable', holds')
    BY <1>2, <2>1 DEF Store!Names
  <2>3. /\ Held' = Held /\ entries'["temporary"] = entries["temporary"]
        /\ entries'["target"] = entries["target"] /\ entries'["backup"] = entries["target"]
    BY <1>2, <2>1 DEF Held, Store!Names
  <2>4. holds'.published = holds.published /\ holds'.backup = (entries["target"] # Missing)
    BY <1>2, <2>1
  <2>5. QED
    BY <1>1, <1>2, <1>3, <1>4, <2>1, <2>2, <2>3, <2>4
    DEF StoreInv, PastSync, Replacing, BackedUp, Store!Following
<1>9. CASE Store!SyncDirectory
  <2>1. /\ \/ step = "syncBackup" /\ step' = "rename"
           \/ step = "syncTarget" /\ step' = "unlinkBackup"
        /\ durable' = entries /\ entries' = entries /\ flushed' = flushed /\ holds' = holds
    BY <1>1, <1>9 DEF Store!SyncDirectory, Store!Following
  <2>2. Held' = {entries["target"]} /\ entries["target"] \in Held
    BY <2>1 DEF Held
  <2>3. Types(entries', durable', holds')
    BY <1>2, <2>1
  <2>4. QED
    BY <1>1, <1>2, <1>3, <1>4, <2>1, <2>2, <2>3
    DEF StoreInv, PastSync, Replacing, BackedUp, Store!Following
<1>10. CASE Store!Rename
  <2>1. /\ step = "rename" /\ step' = "syncTarget" /\ durable' = durable /\ flushed' = flushed
        /\ entries' = [entries EXCEPT !["target"] = entries["temporary"],
                                      !["temporary"] = Missing]
        /\ holds' = [holds EXCEPT !.temporary = FALSE, !.published = TRUE]
    BY <1>1, <1>10 DEF Store!Rename, Store!Following
  <2>2. Types(entries', durable', holds')
    BY <1>2, <2>1 DEF Store!Names
  <2>3. entries["temporary"] = artifact /\ flushed /\ Held \subseteq previous
    BY <2>1 DEF StoreInv, PastSync, Replacing
  <2>4. /\ entries'["target"] = artifact /\ entries'["backup"] = entries["backup"]
        /\ Held' = {artifact, durable["target"]} /\ durable["target"] \in previous
        /\ entries["target"] \in previous
    BY <1>2, <2>1, <2>3 DEF Held, Store!Names
  <2>5. holds'.published /\ holds'.backup = holds.backup
    BY <1>2, <2>1
  <2>6. QED
    BY <1>1, <1>2, <1>3, <1>4, <2>1, <2>2, <2>3, <2>4, <2>5
    DEF StoreInv, PastSync, Replacing, BackedUp, Store!Following
<1>11. QED
  BY <1>1, <1>5, <1>6, <1>7, <1>8, <1>9, <1>10

LEMMA UndoKept ==
  ASSUME StoreInv, Store!Finish \/ Store!Throw \/ Store!RollBack \/ Store!SyncRollBack
                   \/ Store!RollBackFails
  PROVE  StoreInv'
<1>1. /\ entries \in [Store!Names -> Store!Content \cup {Missing, Torn}]
      /\ durable \in [Store!Names -> Store!Content \cup {Missing, Torn}]
      /\ holds \in [temporary : BOOLEAN, backup : BOOLEAN, published : BOOLEAN]
      /\ outcome # "none" /\ \A c \in previous : c # artifact
  BY DEF StoreInv, Store!TypeOK, Store!Finish, Store!Throw, Store!RollBack,
         Store!SyncRollBack, Store!RollBackFails, Store!Following
<1>2. CASE Store!Finish
  <2>1. /\ step = "unlinkBackup" /\ step' = "idle" /\ outcome' = "PUBLISHED"
        /\ entries' = [entries EXCEPT !["backup"] = Missing]
        /\ holds' = [holds EXCEPT !.backup = FALSE]
        /\ durable' = durable /\ flushed' = flushed /\ previous' = previous
        /\ artifact' = artifact
    BY <1>2 DEF Store!Finish
  <2>2. /\ entries' \in [Store!Names -> Store!Content \cup {Missing, Torn}]
        /\ entries'["target"] = entries["target"]
    BY <1>1, <2>1 DEF Store!Names
  <2>3. holds' \in [temporary : BOOLEAN, backup : BOOLEAN, published : BOOLEAN]
    BY <1>1, <2>1
  <2>4. Held' = {artifact} /\ flushed
    BY <2>1, <2>2 DEF StoreInv, Held, PastSync, Replacing
  <2>5. Store!TypeOK'
    BY <1>1, <2>1, <2>2, <2>3 DEF StoreInv, Store!TypeOK
  <2>6. QED
    BY <1>1, <2>1, <2>4, <2>5 DEF StoreInv, PastSync, Replacing, BackedUp
<1>3. CASE Store!Throw
  <2>1. /\ step \in DOMAIN Store!Following \cup {"unlinkBackup"}
        /\ step' = IF holds.published THEN "rollBack" ELSE "dropTemporary"
        /\ entries' = entries /\ durable' = durable /\ flushed' = flushed /\ holds' = holds
        /\ previous' = previous /\ artifact' = artifact /\ outcome' = outcome
    BY <1>3 DEF Store!Throw
  <2>2. Held' = Held /\ step # "idle"
    BY <2>1 DEF Held, Store!Following
  <2>3. CASE holds.published
    <3>1. step \in {"syncTarget", "unlinkBackup"} /\ step' = "rollBack"
      BY <2>1, <2>2, <2>3 DEF StoreInv, Replacing, Store!Following
    <3>2. QED
      BY <1>1, <2>1, <2>2, <2>3, <3>1 DEF StoreInv, Store!TypeOK, PastSync, Replacing, BackedUp
  <2>4. CASE ~holds.published
    <3>1. step \notin Replacing \cup {"idle", "syncRollBack"} /\ step' = "dropTemporary"
      BY <2>1, <2>2, <2>4 DEF StoreInv, Replacing, Store!Following
    <3>2. QED
      BY <1>1, <2>1, <2>2, <2>4, <3>1 DEF StoreInv, Store!TypeOK, PastSync, Replacing, BackedUp
  <2>5. QED
    BY <2>3, <2>4
<1>4. CASE Store!RollBack
  <2>1. /\ step = "rollBack" /\ step' = "syncRollBack"
        /\ entries' = IF holds.backup
                      THEN [entries EXCEPT !["target"] = entries["backup"], !["backup"] = Missing]
                      ELSE [entries EXCEPT !["target"] = Missing]
        /\ holds' = [holds EXCEPT !.published = FALSE, !.backup = FALSE]
        /\ durable' = durable /\ flushed' = flushed /\ previous' = previous
        /\ artifact' = artifact /\ outcome' = outcome
    BY <1>4 DEF Store!RollBack
  <2>2. /\ entries["backup"] \in previous /\ flushed
        /\ holds.backup <=> entries["backup"] # Missing
    BY <2>1 DEF StoreInv, PastSync, Replacing, BackedUp
  <2>3. /\ entries' \in [Store!Names -> Store!Content \cup {Missing, Torn}]
        /\ entries'["target"] = entries["backup"]
    BY <1>1, <2>1, <2>2 DEF Store!Names
  <2>4. /\ holds' \in [temporary : BOOLEAN, backup : BOOLEAN, published : BOOLEAN]
        /\ ~holds'.published
    BY <1>1, <2>1
  <2>5. Held' \subseteq previous \cup {artifact}
    BY <2>1, <2>2, <2>3 DEF StoreInv, Held
  <2>6. Store!TypeOK'
    BY <2>1, <2>3, <2>4 DEF StoreInv, Store!TypeOK
  <2>7. QED
    BY <1>1, <2>1, <2>2, <2>3, <2>4, <2>5, <2>6 DEF StoreInv, PastSync, Replacing, BackedUp
<1>5. CASE Store!SyncRollBack
  <2>1. /\ step = "syncRollBack" /\ step' = "idle" /\ outcome' = "PUBLICATION_FAILED"
        /\ durable' = entries /\ entries' = entries /\ flushed' = flushed /\ holds' = holds
        /\ previous' = previous /\ artifact' = artifact
    BY <1>5 DEF Store!SyncRollBack
  <2>2. Held' \subseteq previous
    BY <2>1 DEF StoreInv, Held
  <2>3. QED
    BY <1>1, <2>1, <2>2 DEF StoreInv, Store!TypeOK, PastSync, Replacing, BackedUp
<1>6. CASE Store!RollBackFails
  <2>1. /\ step \in {"rollBack", "syncRollBack"} /\ step' = "idle"
        /\ outcome' = "ROLLBACK_FAILED"
        /\ durable' = durable /\ entries' = entries /\ flushed' = flushed /\ holds' = holds
        /\ previous' = previous /\ artifact' = artifact
    BY <1>6 DEF Store!RollBackFails
  <2>2. Held' = Held /\ flushed
    BY <2>1 DEF StoreInv, Held, PastSync, Replacing
  <2>3. QED
    BY <1>1, <2>1, <2>2 DEF StoreInv, Store!TypeOK, PastSync, Replacing, BackedUp
<1>7. QED
  BY <1>2, <1>3, <1>4, <1>5, <1>6

LEMMA CleanUpKept ==
  ASSUME StoreInv, NEW dropped, NEW synced, Store!CleanUp(dropped, synced)
  PROVE  StoreInv'
<1>1. /\ step = "dropTemporary" /\ dropped \subseteq {"temporary", "backup"}
      /\ entries' = [n \in Store!Names |-> IF n \in dropped THEN Missing ELSE entries[n]]
      /\ durable' = IF synced THEN entries' ELSE durable
      /\ step' = "idle" /\ outcome' = "PUBLICATION_FAILED"
      /\ flushed' = flushed /\ holds' = holds /\ previous' = previous /\ artifact' = artifact
  BY DEF Store!CleanUp
<1>2. /\ entries \in [Store!Names -> Store!Content \cup {Missing, Torn}]
      /\ durable \in [Store!Names -> Store!Content \cup {Missing, Torn}]
      /\ Held \subseteq previous /\ outcome # "none"
  BY <1>1 DEF StoreInv, Store!TypeOK, Replacing
<1>3. /\ entries' \in [Store!Names -> Store!Content \cup {Missing, Torn}]
      /\ durable' \in [Store!Names -> Store!Content \cup {Missing, Torn}]
      /\ entries'["target"] = entries["target"]
  BY <1>1, <1>2 DEF Store!Names
<1>4. Held' \subseteq previous
  BY <1>1, <1>2, <1>3 DEF Held
<1>5. Store!TypeOK'
  BY <1>1, <1>3 DEF StoreInv, Store!TypeOK
<1>6. QED
  BY <1>1, <1>2, <1>4, <1>5 DEF StoreInv, PastSync, Replacing, BackedUp

LEMMA CrashKept == ASSUME StoreInv, Store!Crash PROVE StoreInv'
<1>1. /\ outcome \notin {"none", "CRASHED"} /\ step' = "idle" /\ outcome' = "CRASHED"
      /\ flushed' = flushed /\ holds' = holds /\ previous' = previous /\ artifact' = artifact
  BY DEF Store!Crash
<1>2. PICK kept \in SUBSET Store!Names,
           found \in [Store!Names -> Store!Content \cup {Missing, Torn}] :
        /\ \A n \in Store!Names :
             found[n] \in Store!OnDisk(IF n \in kept THEN entries[n] ELSE durable[n])
        /\ entries' = found /\ durable' = found
  BY DEF Store!Crash
<1>3. PICK c \in Held : found["target"] \in Store!OnDisk(c)
  BY <1>2 DEF Held, Store!Names
<1>4. c = artifact => flushed
  BY <1>1, <1>3 DEF StoreInv
<1>5. found["target"] \in Held
  BY <1>3, <1>4 DEF Store!OnDisk
<1>6. Held' \subseteq Held
  BY <1>2, <1>5 DEF Held
<1>7. Store!TypeOK'
  BY <1>1, <1>2 DEF StoreInv, Store!TypeOK
<1>8. QED
  BY <1>1, <1>6, <1>7 DEF StoreInv, PastSync, Replacing, BackedUp

LEMMA StoreNext == StoreInv /\ Store!Next => StoreInv'
BY BeginKept, SucceedKept, UndoKept, CleanUpKept, CrashKept DEF Store!Next

LEMMA StoreSafe == StoreInv => Store!TargetIsWhole
<1> SUFFICES ASSUME StoreInv PROVE Store!TargetIsWhole
  OBVIOUS
<1>1. Torn \notin Store!Content \cup {Missing}
  BY ArtifactConstants DEF Store!Content
<1>2. Held \subseteq Store!Content \cup {Missing}
  BY DEF StoreInv, Store!TypeOK
<1>3. QED
  BY <1>1, <1>2 DEF StoreInv, Held, Store!TargetIsWhole

-----------------------------------------------------------------------------
(* The preparation of the experiment.                                      *)

\* The least number of a set.
LEMMA LeastNatural ==
  ASSUME NEW T, T \subseteq Nat, T # {}
  PROVE  \E x \in T : \A y \in T : x <= y
<1> DEFINE R == OpToRel(<, Nat)
<1>1. IsWellFoundedOn(R, Nat)
  BY NatLessThanWellFounded
<1>2. \A x, y \in Nat : <<x, y>> \in R <=> x < y
  BY DEF OpToRel
<1> HIDE DEF R
<1>3. PICK x \in T : \A y \in T : ~(<<y, x>> \in R)
  BY <1>1, WFMin
<1>4. \A y \in T : x <= y
  <2> SUFFICES ASSUME NEW y \in T PROVE x <= y
    OBVIOUS
  <2>1. x \in Nat /\ y \in Nat /\ ~(y < x)
    BY <1>2, <1>3
  <2>2. QED
    BY <2>1
<1>5. QED
  BY <1>4

\* No source twice, in either sequence and between the two.
Apart(s, t) ==
  /\ \A i, j \in DOMAIN s : s[i].source = s[j].source => i = j
  /\ \A i, j \in DOMAIN t : t[i].source = t[j].source => i = j
  /\ \A i \in DOMAIN s, j \in DOMAIN t : s[i].source # t[j].source

\* Three sources, marked and unmarked, before the language sources, which follow their
\* configurations as far as these came.
Chosen(s) == Len(s) = 3 /\ Preparing!Outcomes(s) = BOOLEAN
Ordered(t) == \A n \in DOMAIN t : n \in 1..2 /\ t[n].language = Configurations[n]
Selecting ==
  /\ Apart(provenance, language)
  /\ stagePhase = "github" => language = << >> /\ turn = 1
  /\ stagePhase = "stack" => Chosen(provenance) /\ Len(language) <= turn - 1 /\ turn <= 3
  /\ stagePhase = "stack" /\ Len(language) = turn - 1 => Ordered(language)
  /\ stagePhase = "publish" \/ (published > 0 /\ published = attempt) =>
       Chosen(provenance) /\ Len(language) = 2 /\ Ordered(language)

PreparationInv ==
  /\ stagePhase \in {"idle", "github", "stack", "publish", "done", "failed"}
  /\ attempt \in Nat /\ report \in Nat /\ published \in Nat /\ turn \in Nat \ {0}
  /\ provenance \in Seq(Preparing!Candidate) /\ language \in Seq(Preparing!Selection)
  /\ published <= report /\ report <= attempt
  /\ stagePhase \in {"github", "stack"} => report < attempt
  /\ stagePhase = "publish" => report = attempt /\ published < attempt
  /\ stagePhase = "done" => published = attempt
  /\ Selecting

LEMMA ConfigurationsAreTwo == Configurations \in [1..2 -> STRING]
BY WorkAssumption DEF Preparing!PreparationAssumption

\* What is in a sequence is in it when another one follows.
LEMMA Joined ==
  ASSUME NEW X, NEW Y, NEW s \in Seq(X), NEW t \in Seq(Y)
  PROVE  /\ s \o t \in Seq(X \cup Y)
         /\ DOMAIN (s \o t) = 1..(Len(s) + Len(t))
         /\ DOMAIN s = 1..Len(s) /\ DOMAIN t = 1..Len(t) /\ Len(s) \in Nat /\ Len(t) \in Nat
         /\ \A i \in 1..Len(s) : i \in DOMAIN (s \o t) /\ (s \o t)[i] = s[i]
         /\ \A i \in 1..Len(t) :
              Len(s) + i \in DOMAIN (s \o t) /\ (s \o t)[Len(s) + i] = t[i]
<1>1. s \in Seq(X \cup Y) /\ t \in Seq(X \cup Y)
  OBVIOUS
<1> DEFINE k == Len(s)
           l == Len(t)
<1>2. DOMAIN s = 1..k /\ DOMAIN t = 1..l /\ k \in Nat /\ l \in Nat
  BY <1>1, LenProperties
<1>3. /\ s \o t \in Seq(X \cup Y) /\ Len(s \o t) = k + l
      /\ \A i \in 1..(k + l) : (s \o t)[i] = IF i <= k THEN s[i] ELSE t[i - k]
  BY <1>1, ConcatProperties
<1>4. DOMAIN (s \o t) = 1..(k + l)
  BY <1>3, LenProperties
<1> HIDE DEF k, l
<1>5. ASSUME NEW i \in 1..k PROVE i \in DOMAIN (s \o t) /\ (s \o t)[i] = s[i]
  <2>1. i \in 1..(k + l) /\ i <= k
    BY <1>2
  <2>2. QED
    BY <1>3, <1>4, <2>1
<1>6. ASSUME NEW i \in 1..l PROVE k + i \in DOMAIN (s \o t) /\ (s \o t)[k + i] = t[i]
  <2>1. k + i \in 1..(k + l) /\ ~(k + i <= k) /\ (k + i) - k = i
    BY <1>2
  <2>2. QED
    BY <1>3, <1>4, <2>1
<1>7. QED
  BY <1>2, <1>3, <1>4, <1>5, <1>6 DEF k, l

LEMMA ApartTogether ==
  ASSUME NEW X, NEW Y, NEW s \in Seq(X), NEW t \in Seq(Y), Apart(s, t)
  PROVE  \A i, j \in DOMAIN (s \o t) : (s \o t)[i].source = (s \o t)[j].source => i = j
<1> DEFINE all == s \o t
           k == Len(s)
           l == Len(t)
<1>1. /\ DOMAIN all = 1..(k + l) /\ DOMAIN s = 1..k /\ DOMAIN t = 1..l
      /\ k \in Nat /\ l \in Nat
      /\ \A i \in 1..k : all[i] = s[i]
      /\ \A i \in 1..l : all[k + i] = t[i]
  BY Joined
<1> HIDE DEF all, k, l
<1>2. ASSUME NEW i \in DOMAIN all
      PROVE  \/ i \in DOMAIN s /\ all[i] = s[i]
             \/ \E n \in DOMAIN t : i = k + n /\ all[i] = t[n]
  <2>1. CASE i <= k
    BY <1>1, <2>1
  <2>2. CASE ~(i <= k)
    <3>1. i - k \in 1..l /\ i = k + (i - k)
      BY <1>1, <2>2
    <3>2. QED
      BY <1>1, <3>1
  <2>3. QED
    BY <2>1, <2>2
<1>3. ASSUME NEW i \in DOMAIN all, NEW j \in DOMAIN all, all[i].source = all[j].source
      PROVE  i = j
  BY <1>2, <1>3 DEF Apart
<1>4. QED
  BY <1>3 DEF all

LEMMA NotTaken ==
  ASSUME NEW X, NEW Y, NEW s \in Seq(X), NEW t \in Seq(Y), NEW c,
         ~Preparing!CollidesWithSelected(c, s \o t)
  PROVE  /\ \A i \in DOMAIN s : s[i].source # c.source
         /\ \A i \in DOMAIN t : t[i].source # c.source
<1>1. \A i \in DOMAIN (s \o t) : (s \o t)[i].source # c.source
  BY DEF Preparing!CollidesWithSelected
<1>2. ASSUME NEW i \in DOMAIN s PROVE s[i].source # c.source
  <2>1. i \in DOMAIN (s \o t) /\ (s \o t)[i] = s[i]
    BY Joined
  <2>2. QED
    BY <1>1, <2>1
<1>3. ASSUME NEW i \in DOMAIN t PROVE t[i].source # c.source
  <2>1. Len(s) + i \in DOMAIN (s \o t) /\ (s \o t)[Len(s) + i] = t[i]
    BY Joined
  <2>2. QED
    BY <1>1, <2>1
<1>4. QED
  BY <1>2, <1>3

LEMMA Appended ==
  ASSUME NEW X, NEW s \in Seq(X), NEW c \in X
  PROVE  /\ Append(s, c) \in Seq(X) /\ Len(Append(s, c)) = Len(s) + 1 /\ Len(s) \in Nat
         /\ \A i \in DOMAIN Append(s, c) :
              \/ i \in DOMAIN s /\ Append(s, c)[i] = s[i]
              \/ i = Len(s) + 1 /\ i \notin DOMAIN s /\ Append(s, c)[i] = c
<1> DEFINE k == Len(s)
<1>1. /\ Append(s, c) \in Seq(X) /\ Len(Append(s, c)) = k + 1
      /\ \A i \in 1..k : Append(s, c)[i] = s[i]
      /\ Append(s, c)[k + 1] = c
  BY AppendProperties
<1>2. k \in Nat /\ DOMAIN s = 1..k /\ DOMAIN Append(s, c) = 1..(k + 1)
  BY <1>1, LenProperties
<1> HIDE DEF k
<1>3. \A i \in 1..(k + 1) : i \in 1..k \/ (i = k + 1 /\ i \notin 1..k)
  BY <1>2
<1>4. QED
  BY <1>1, <1>2, <1>3 DEF k

\* One more language source keeps all apart.
LEMMA ApartAppended ==
  ASSUME NEW X, NEW Y, NEW s \in Seq(X), NEW t \in Seq(Y), NEW c \in Y, Apart(s, t),
         \A i \in DOMAIN s : s[i].source # c.source,
         \A i \in DOMAIN t : t[i].source # c.source
  PROVE  Apart(s, Append(t, c))
<1> DEFINE u == Append(t, c)
<1>1. \A i \in DOMAIN u :
        \/ i \in DOMAIN t /\ u[i] = t[i]
        \/ i = Len(t) + 1 /\ i \notin DOMAIN t /\ u[i] = c
  BY Appended
<1> HIDE DEF u
<1>2. \A i, j \in DOMAIN u : u[i].source = u[j].source => i = j
  BY <1>1 DEF Apart
<1>3. \A i \in DOMAIN s, j \in DOMAIN u : s[i].source # u[j].source
  BY <1>1 DEF Apart
<1>4. QED
  BY <1>2, <1>3 DEF Apart, u

\* Three places in ascending order.
LEMMA ThreeInOrder ==
  ASSUME NEW a \in Nat, NEW b \in Nat, NEW c \in Nat, a # b, a # c, b # c
  PROVE  LET o == Preparing!InOrder({a, b, c})
         IN  /\ o \in [1..3 -> {a, b, c}]
             /\ \A m, n \in 1..3 : m < n => o[m] < o[n]
<1> DEFINE Ascending(o) == \A m, n \in 1..3 : m < n => o[m] < o[n]
<1>1. ASSUME NEW x \in Nat, NEW y \in Nat, NEW z \in Nat, x < y, y < z
      PROVE  \E o \in [1..3 -> {x, y, z}] : Ascending(o)
  <2> DEFINE o == [i \in 1..3 |-> IF i = 1 THEN x ELSE IF i = 2 THEN y ELSE z]
  <2>1. o \in [1..3 -> {x, y, z}] /\ o[1] = x /\ o[2] = y /\ o[3] = z
    OBVIOUS
  <2> HIDE DEF o
  <2>2. ASSUME NEW m \in 1..3, NEW n \in 1..3, m < n PROVE o[m] < o[n]
    <3>1. (m = 1 /\ n = 2) \/ (m = 1 /\ n = 3) \/ (m = 2 /\ n = 3)
      BY <2>2
    <3>2. QED
      BY <1>1, <2>1, <3>1
  <2>3. QED
    BY <2>1, <2>2
<1>2. \E o \in [1..3 -> {a, b, c}] : Ascending(o)
  <2>1. \/ a < b /\ b < c
        \/ a < c /\ c < b
        \/ b < a /\ a < c
        \/ b < c /\ c < a
        \/ c < a /\ a < b
        \/ c < b /\ b < a
    OBVIOUS
  <2>2. /\ {a, c, b} = {a, b, c} /\ {b, a, c} = {a, b, c} /\ {b, c, a} = {a, b, c}
        /\ {c, a, b} = {a, b, c} /\ {c, b, a} = {a, b, c}
    OBVIOUS
  <2> HIDE DEF Ascending
  <2>3. CASE a < b /\ b < c
    BY <1>1, <2>3
  <2>4. CASE a < c /\ c < b
    BY <1>1, <2>2, <2>4
  <2>5. CASE b < a /\ a < c
    BY <1>1, <2>2, <2>5
  <2>6. CASE b < c /\ c < a
    BY <1>1, <2>2, <2>6
  <2>7. CASE c < a /\ a < b
    BY <1>1, <2>2, <2>7
  <2>8. CASE c < b /\ b < a
    BY <1>1, <2>2, <2>8
  <2>9. QED
    BY <2>1, <2>3, <2>4, <2>5, <2>6, <2>7, <2>8
<1>3. QED
  BY <1>2 DEF Preparing!InOrder

\* The first of either outcome and the first of the others are three.
LEMMA RequiredAreThree ==
  ASSUME NEW s \in Seq(Preparing!Candidate), Preparing!Enough(s)
  PROVE  \E a, b, c \in DOMAIN s :
           /\ a # b /\ a # c /\ b # c
           /\ Preparing!Required(s) = {a, b, c}
           /\ s[a].marked = TRUE /\ s[b].marked = FALSE
<1> DEFINE Opens(m, i) == s[i].marked = m /\ \A j \in 1..(i - 1) : s[j].marked # m
           First(m) == CHOOSE i \in DOMAIN s : Opens(m, i)
           both == {First(TRUE), First(FALSE)}
           third == CHOOSE i \in DOMAIN s \ both : \A j \in 1..(i - 1) : j \in both
           k == Len(s)
<1>1. DOMAIN s = 1..k /\ k \in Nat /\ k >= 3
  BY LenProperties DEF Preparing!Enough
<1>2. ASSUME NEW m \in BOOLEAN PROVE \E i \in DOMAIN s : s[i].marked = m
  <2>1. {s[i].marked : i \in DOMAIN s} = BOOLEAN
    BY DEF Preparing!Enough, Preparing!Outcomes
  <2>2. QED
    BY <2>1, Zenon
<1>3. Preparing!Required(s) = both \cup {third}
  BY DEF Preparing!Required
<1> HIDE DEF k
<1>4. ASSUME NEW m \in BOOLEAN PROVE First(m) \in DOMAIN s /\ Opens(m, First(m))
  <2> DEFINE T == {i \in DOMAIN s : s[i].marked = m}
  <2>1. T # {} /\ T \subseteq Nat
    BY <1>1, <1>2
  <2>2. PICK x \in T : \A y \in T : x <= y
    <3> HIDE DEF T, Opens
    <3> QED
      BY <2>1, LeastNatural
  <2>3. ASSUME NEW j \in 1..(x - 1) PROVE s[j].marked # m
    <3>1. j \in DOMAIN s /\ ~(x <= j)
      BY <1>1, <2>2
    <3>2. QED
      BY <2>2, <3>1
  <2>4. QED
    BY <2>2, <2>3
<1>5. /\ First(TRUE) \in DOMAIN s /\ s[First(TRUE)].marked = TRUE
      /\ First(FALSE) \in DOMAIN s /\ s[First(FALSE)].marked = FALSE
  BY <1>4
<1> HIDE DEF First
<1>6. PICK x, y : x = First(TRUE) /\ y = First(FALSE)
  OBVIOUS
<1>7. both = {x, y} /\ x \in DOMAIN s /\ s[x].marked = TRUE /\ y \in DOMAIN s
      /\ s[y].marked = FALSE /\ x # y
  BY <1>5, <1>6
<1> HIDE DEF both
<1>8. third \in DOMAIN s \ {x, y}
  <2> DEFINE T == DOMAIN s \ {x, y}
  <2>1. T \subseteq Nat
    BY <1>1
  <2>2. T # {}
    <3>1. 1 \in DOMAIN s /\ 2 \in DOMAIN s /\ 3 \in DOMAIN s
      BY <1>1
    <3>2. 1 \notin {x, y} \/ 2 \notin {x, y} \/ 3 \notin {x, y}
      OBVIOUS
    <3>3. QED
      BY <3>1, <3>2
  <2>3. PICK z \in T : \A n \in T : z <= n
    <3> HIDE DEF T
    <3> QED
      BY <2>1, <2>2, LeastNatural
  <2>4. ASSUME NEW j \in 1..(z - 1) PROVE j \in {x, y}
    <3>1. j \in DOMAIN s /\ ~(z <= j)
      BY <1>1, <2>3
    <3>2. QED
      BY <2>3, <3>1
  <2>5. QED
    BY <1>7, <2>3, <2>4
<1> HIDE DEF third
<1>9. Preparing!Required(s) = {x, y, third}
  BY <1>3, <1>7
<1>10. QED
  BY <1>7, <1>8, <1>9

LEMMA SelectionIsWhole ==
  ASSUME NEW s \in Seq(Preparing!Candidate), Preparing!Enough(s), Apart(s, << >>), NEW t,
         t = [n \in 1..3 |-> s[Preparing!InOrder(Preparing!Required(s))[n]]]
  PROVE  t \in Seq(Preparing!Candidate) /\ Chosen(t) /\ Apart(t, << >>)
<1>1. PICK a, b, c \in DOMAIN s :
        /\ a # b /\ a # c /\ b # c
        /\ Preparing!Required(s) = {a, b, c}
        /\ s[a].marked = TRUE /\ s[b].marked = FALSE
  BY RequiredAreThree
<1> DEFINE o == Preparing!InOrder({a, b, c})
<1>2. a \in Nat /\ b \in Nat /\ c \in Nat
  BY LenProperties
<1>3. o \in [1..3 -> {a, b, c}] /\ \A m, n \in 1..3 : m < n => o[m] < o[n]
  BY <1>1, <1>2, ThreeInOrder
<1>4. t = [n \in 1..3 |-> s[o[n]]]
  BY <1>1
<1> HIDE DEF o
<1>5. \A n \in 1..3 : o[n] \in DOMAIN s /\ o[n] \in Nat /\ s[o[n]] \in Preparing!Candidate
  BY <1>1, <1>2, <1>3
<1>6. t \in Seq(Preparing!Candidate) /\ Len(t) = 3 /\ DOMAIN t = 1..3
  BY <1>4, <1>5
<1>7. o[1] < o[2] /\ o[1] < o[3] /\ o[2] < o[3]
  BY <1>3
<1>8. (\E n \in 1..3 : o[n] = a) /\ (\E n \in 1..3 : o[n] = b)
  <2>1. /\ o[1] \in {a, b, c} /\ o[2] \in {a, b, c} /\ o[3] \in {a, b, c}
        /\ o[1] # o[2] /\ o[1] # o[3] /\ o[2] # o[3]
    BY <1>2, <1>3, <1>5, <1>7
  <2>2. /\ a = o[1] \/ a = o[2] \/ a = o[3]
        /\ b = o[1] \/ b = o[2] \/ b = o[3]
    BY <2>1
  <2>3. QED
    BY <2>2
<1>9. Preparing!Outcomes(t) = BOOLEAN
  <2>1. PICK n \in 1..3, m \in 1..3 : o[n] = a /\ o[m] = b
    BY <1>8
  <2>2. t[n].marked = TRUE /\ t[m].marked = FALSE
    BY <1>1, <1>4, <2>1
  <2>3. \A i \in DOMAIN t : t[i].marked \in BOOLEAN
    BY <1>4, <1>5, <1>6 DEF Preparing!Candidate
  <2>4. Preparing!Outcomes(t) \subseteq BOOLEAN
    BY <2>3 DEF Preparing!Outcomes
  <2>5. TRUE \in Preparing!Outcomes(t) /\ FALSE \in Preparing!Outcomes(t)
    <3>1. n \in DOMAIN t /\ m \in DOMAIN t
      BY <1>6
    <3>2. QED
      BY <2>2, <3>1, Zenon DEF Preparing!Outcomes
  <2>6. QED
    BY <2>4, <2>5
<1>10. Apart(t, << >>)
  <2>1. ASSUME NEW i \in 1..3, NEW j \in 1..3, o[i] = o[j] PROVE i = j
    BY <1>3, <1>5, <2>1
  <2>2. ASSUME NEW i \in 1..3, NEW j \in 1..3, t[i].source = t[j].source PROVE i = j
    <3>1. s[o[i]].source = s[o[j]].source
      BY <1>4, <2>2
    <3>2. o[i] = o[j]
      BY <1>5, <3>1 DEF Apart
    <3>3. QED
      BY <2>1, <3>2
  <2>3. DOMAIN << >> = {}
    OBVIOUS
  <2>4. QED
    BY <1>6, <2>2, <2>3 DEF Apart
<1>11. QED
  BY <1>6, <1>9, <1>10 DEF Chosen
-----------------------------------------------------------------------------
LEMMA PreparationInit == Preparing!Init => PreparationInv
<1> SUFFICES ASSUME Preparing!Init PROVE PreparationInv
  OBVIOUS
<1>1. /\ stagePhase = "idle" /\ attempt = 0 /\ provenance = << >> /\ language = << >>
      /\ turn = 1 /\ report = 0 /\ published = 0
  BY DEF Preparing!Init
<1>2. Selecting
  BY <1>1 DEF Selecting, Apart
<1>3. << >> \in Seq(Preparing!Candidate) /\ << >> \in Seq(Preparing!Selection)
  OBVIOUS
<1>4. QED
  BY <1>1, <1>2, <1>3 DEF PreparationInv

LEMMA ConsiderKept ==
  ASSUME PreparationInv, NEW c \in Preparing!Candidate, NEW admitted \in BOOLEAN,
         Preparing!Consider(c, admitted)
  PROVE  PreparationInv'
<1>1. /\ stagePhase = "github" /\ stagePhase' = "github" /\ attempt' = attempt
      /\ language' = language /\ turn' = turn /\ report' = report /\ published' = published
      /\ \/ provenance' = provenance
         \/ /\ provenance' = Append(provenance, c)
            /\ ~Preparing!CollidesWithSelected(c, provenance)
  BY DEF Preparing!Consider
<1>2. /\ language = << >> /\ turn = 1 /\ Apart(provenance, language)
      /\ report < attempt /\ published < attempt
  BY <1>1 DEF PreparationInv, Selecting
<1>3. provenance \in Seq(Preparing!Candidate)
  BY DEF PreparationInv
<1>4. CASE provenance' = provenance
  BY <1>1, <1>2, <1>4 DEF PreparationInv, Selecting
<1>5. CASE /\ provenance' = Append(provenance, c)
           /\ ~Preparing!CollidesWithSelected(c, provenance)
  <2>1. \A i \in DOMAIN provenance : provenance[i].source # c.source
    BY <1>5 DEF Preparing!CollidesWithSelected
  <2>2. /\ Append(provenance, c) \in Seq(Preparing!Candidate)
        /\ Apart(<< >>, Append(provenance, c))
    BY <1>2, <1>3, <2>1, Appended, ApartAppended DEF Apart
  <2>3. Apart(provenance', language')
    BY <1>1, <1>2, <1>5, <2>2 DEF Apart
  <2>4. QED
    BY <1>1, <1>2, <1>5, <2>2, <2>3 DEF PreparationInv, Selecting
<1>6. QED
  BY <1>1, <1>4, <1>5

LEMMA SelectGitHubKept == ASSUME PreparationInv, Preparing!SelectGitHub PROVE PreparationInv'
<1>1. /\ stagePhase = "github" /\ stagePhase' = "stack" /\ attempt' = attempt
      /\ language' = language /\ turn' = turn /\ report' = report /\ published' = published
      /\ Preparing!Enough(provenance)
      /\ provenance' =
           [n \in 1..3 |-> provenance[Preparing!InOrder(Preparing!Required(provenance))[n]]]
  BY DEF Preparing!SelectGitHub
<1>2. /\ language = << >> /\ turn = 1 /\ Apart(provenance, language)
      /\ report < attempt /\ published < attempt
  BY <1>1 DEF PreparationInv, Selecting
<1>3. /\ provenance' \in Seq(Preparing!Candidate) /\ Chosen(provenance')
      /\ Apart(provenance', << >>)
  BY <1>1, <1>2, SelectionIsWhole DEF PreparationInv
<1>4. QED
  BY <1>1, <1>2, <1>3 DEF PreparationInv, Selecting, Chosen, Ordered

LEMMA TryRowKept ==
  ASSUME PreparationInv, NEW c \in ExperimentSources, NEW eligible \in BOOLEAN,
         Preparing!TryRow(c, eligible)
  PROVE  PreparationInv'
<1> DEFINE row == [source |-> c, language |-> Configurations[turn]]
<1>1. /\ stagePhase = "stack" /\ turn \in 1..2 /\ stagePhase' = stagePhase
      /\ attempt' = attempt /\ provenance' = provenance /\ report' = report
      /\ published' = published
      /\ \/ language' = language /\ turn' = turn
         \/ /\ language' = Append(language, row) /\ turn' = turn + 1
            /\ ~Preparing!CollidesWithSelected(row, provenance \o language)
  BY ConfigurationsAreTwo DEF Preparing!TryRow
<1>2. /\ provenance \in Seq(Preparing!Candidate) /\ language \in Seq(Preparing!Selection)
      /\ Chosen(provenance) /\ Len(language) <= turn - 1 /\ Apart(provenance, language)
      /\ report < attempt /\ published < attempt
      /\ Len(language) = turn - 1 => Ordered(language)
  BY <1>1 DEF PreparationInv, Selecting
<1>3. CASE language' = language /\ turn' = turn
  BY <1>1, <1>2, <1>3 DEF PreparationInv, Selecting
<1>4. CASE /\ language' = Append(language, row) /\ turn' = turn + 1
           /\ ~Preparing!CollidesWithSelected(row, provenance \o language)
  <2>1. row \in Preparing!Selection
    BY <1>1, ConfigurationsAreTwo DEF Preparing!Selection, Preparing!Range
  <2>2. row.source = c /\ row.language = Configurations[turn]
    OBVIOUS
  <2> HIDE DEF row
  <2>3. /\ language' \in Seq(Preparing!Selection) /\ Len(language') = Len(language) + 1
        /\ Len(language) \in Nat
        /\ \A i \in DOMAIN language' :
             \/ i \in DOMAIN language /\ language'[i] = language[i]
             \/ i = Len(language) + 1 /\ i \notin DOMAIN language /\ language'[i] = row
    BY <1>2, <1>4, <2>1, Appended
  <2>4. Apart(provenance, language')
    BY <1>2, <1>4, <2>1, NotTaken, ApartAppended
  <2>5. Len(language') <= turn' - 1 /\ turn' <= 3 /\ turn' \in Nat \ {0}
    BY <1>1, <1>2, <1>4, <2>3
  <2>6. ASSUME Len(language') = turn' - 1 PROVE Ordered(language')
    <3>1. Len(language) = turn - 1
      BY <1>1, <1>4, <2>3, <2>6
    <3>2. Ordered(language)
      BY <1>2, <3>1
    <3>3. ASSUME NEW i \in DOMAIN language'
          PROVE  i \in 1..2 /\ language'[i].language = Configurations[i]
      <4>1. CASE i \in DOMAIN language /\ language'[i] = language[i]
        BY <3>2, <4>1 DEF Ordered
      <4>2. CASE i = Len(language) + 1 /\ language'[i] = row
        <5>1. i = turn
          BY <1>1, <3>1, <4>2
        <5>2. QED
          BY <1>1, <2>2, <4>2, <5>1
      <4>3. QED
        BY <2>3, <4>1, <4>2
    <3>4. QED
      BY <3>3 DEF Ordered
  <2>7. QED
    BY <1>1, <1>2, <2>3, <2>4, <2>5, <2>6 DEF PreparationInv, Selecting
<1>5. QED
  BY <1>1, <1>3, <1>4

LEMMA OthersKept ==
  ASSUME PreparationInv,
         Preparing!Begin \/ Preparing!RowsRunOut \/ Preparing!WriteReport
           \/ Preparing!Publish \/ Preparing!Fail
  PROVE  PreparationInv'
<1>1. CASE Preparing!Begin
  <2>1. /\ stagePhase' = "github" /\ attempt' = attempt + 1 /\ provenance' = << >>
        /\ language' = << >> /\ turn' = 1 /\ report' = report /\ published' = published
    BY <1>1 DEF Preparing!Begin
  <2>2. Apart(provenance', language')
    BY <2>1 DEF Apart
  <2>3. provenance' \in Seq(Preparing!Candidate) /\ language' \in Seq(Preparing!Selection)
    BY <2>1
  <2>4. report < attempt' /\ published < attempt'
    BY <2>1 DEF PreparationInv
  <2>5. QED
    BY <2>1, <2>2, <2>3, <2>4 DEF PreparationInv, Selecting
<1>2. CASE Preparing!RowsRunOut
  <2>1. /\ stagePhase = "stack" /\ turn \in 1..2 /\ stagePhase' = stagePhase
        /\ turn' = turn + 1 /\ attempt' = attempt /\ provenance' = provenance
        /\ language' = language /\ report' = report /\ published' = published
    BY <1>2, ConfigurationsAreTwo DEF Preparing!RowsRunOut
  <2>2. language \in Seq(Preparing!Selection) /\ Len(language) <= turn - 1
    BY <2>1 DEF PreparationInv, Selecting
  <2>3. Len(language) \in Nat
    BY <2>2, LenProperties
  <2>4. Len(language) <= turn' - 1 /\ Len(language) # turn' - 1 /\ turn' <= 3
    BY <2>1, <2>2, <2>3
  <2>5. published < attempt /\ turn' \in Nat \ {0}
    BY <2>1 DEF PreparationInv
  <2>6. QED
    BY <2>1, <2>4, <2>5 DEF PreparationInv, Selecting
<1>3. CASE Preparing!WriteReport
  <2>1. /\ stagePhase = "stack" /\ turn \notin 1..2 /\ Len(language) = 2
        /\ stagePhase' = "publish" /\ report' = attempt /\ turn' = turn
        /\ attempt' = attempt /\ provenance' = provenance /\ language' = language
        /\ published' = published
    BY <1>3, ConfigurationsAreTwo DEF Preparing!WriteReport
  <2>2. turn = 3 /\ report < attempt /\ published < attempt
    BY <2>1 DEF PreparationInv, Selecting
  <2>3. Chosen(provenance) /\ Ordered(language)
    BY <2>1, <2>2 DEF PreparationInv, Selecting
  <2>4. QED
    BY <2>1, <2>2, <2>3 DEF PreparationInv, Selecting
<1>4. CASE Preparing!Publish
  <2>1. /\ stagePhase = "publish" /\ stagePhase' \in {"done", "failed"} /\ published' = attempt
        /\ attempt' = attempt /\ provenance' = provenance /\ language' = language
        /\ turn' = turn /\ report' = report
    BY <1>4 DEF Preparing!Publish
  <2>2. QED
    BY <2>1 DEF PreparationInv, Selecting
<1>5. CASE Preparing!Fail
  <2>1. /\ stagePhase' = "failed"
        /\ attempt' = attempt /\ provenance' = provenance /\ language' = language
        /\ turn' = turn /\ report' = report /\ published' = published
    BY <1>5 DEF Preparing!Fail
  <2>2. QED
    BY <2>1 DEF PreparationInv, Selecting
<1>6. QED
  BY <1>1, <1>2, <1>3, <1>4, <1>5

LEMMA PreparationNext == PreparationInv /\ Preparing!Next => PreparationInv'
<1> SUFFICES ASSUME PreparationInv, Preparing!Next PROVE PreparationInv'
  OBVIOUS
<1>1. ASSUME NEW s \in ExperimentSources, NEW m \in BOOLEAN, NEW admitted \in BOOLEAN,
             Preparing!Consider([source |-> s, marked |-> m], admitted)
      PROVE  PreparationInv'
  <2>1. [source |-> s, marked |-> m] \in Preparing!Candidate
    BY DEF Preparing!Candidate
  <2>2. QED
    BY <1>1, <2>1, ConsiderKept
<1>2. QED
  BY <1>1, SelectGitHubKept, TryRowKept, OthersKept DEF Preparing!Next

LEMMA PreparationSafe == PreparationInv => Preparing!ExperimentIsWhole
<1> SUFFICES ASSUME PreparationInv PROVE Preparing!ExperimentIsWhole
  OBVIOUS
<1>1. published <= report /\ (stagePhase = "done" => published = attempt /\ report = attempt)
  BY DEF PreparationInv
<1>2. ASSUME published > 0, published = attempt
      PROVE  /\ Len(provenance) = 3 /\ Preparing!Outcomes(provenance) = BOOLEAN
             /\ [n \in DOMAIN language |-> language[n].language] = Configurations
  <2>1. Chosen(provenance) /\ Len(language) = 2 /\ Ordered(language)
    BY <1>2 DEF PreparationInv, Selecting
  <2>2. DOMAIN language = 1..2
    BY <2>1, LenProperties DEF PreparationInv
  <2>3. QED
    BY <2>1, <2>2, ConfigurationsAreTwo DEF Chosen, Ordered
<1>3. \A i, j \in DOMAIN (provenance \o language) :
        (provenance \o language)[i].source = (provenance \o language)[j].source => i = j
  BY ApartTogether DEF PreparationInv, Selecting
<1>4. QED
  BY <1>1, <1>2, <1>3 DEF Preparing!ExperimentIsWhole

(* The target of a publication is the whole old artifact or the whole new  *)
(* one, whatever throws and whenever the machine stops; and what is        *)
(* published holds three provenance sources, marked and unmarked, and one  *)
(* source for each configuration, no source twice (publishArtifact,        *)
(* prepareLocalExperiment).                                                *)
THEOREM ExperimentAlwaysWhole == Spec => []ExperimentIsWhole
<1>1. Init => StoreInv /\ PreparationInv
  BY StoreInit, PreparationInit DEF Init
<1>2. StoreInv /\ PreparationInv /\ [Next]_vars => StoreInv' /\ PreparationInv'
  <2> SUFFICES ASSUME StoreInv, PreparationInv, [Next]_vars
               PROVE  StoreInv' /\ PreparationInv'
    OBVIOUS
  <2>1. ASSUME UNCHANGED store PROVE StoreInv'
    BY <2>1 DEF store, StoreInv, Store!TypeOK, Held
  <2>2. ASSUME UNCHANGED preparation PROVE PreparationInv'
    BY <2>2 DEF preparation, PreparationInv, Selecting
  <2>3. CASE StoreStep
    BY <2>2, <2>3, StoreNext DEF StoreStep
  <2>4. CASE PreparationStep
    BY <2>1, <2>4, PreparationNext DEF PreparationStep
  <2>5. CASE UNCHANGED store /\ UNCHANGED preparation
    BY <2>1, <2>2, <2>5
  <2>6. QED
    BY <2>3, <2>4, <2>5 DEF Next, vars, RuntimeStep, WalkStep, CorpusStep, AuthorizationStep,
                            MeasurementStep
<1>3. StoreInv /\ PreparationInv => ExperimentIsWhole
  BY StoreSafe, PreparationSafe DEF ExperimentIsWhole
<1>4. QED
  BY <1>1, <1>2, <1>3, PTL DEF Spec

-----------------------------------------------------------------------------
(* What a walk keeps.                                                      *)

\* The object that was loaded is the one of the repository.
TreeKept(id) == id \in DOMAIN trees /\ trees[id].entries = repository.trees[id]
BlobKept(id) == id \in DOMAIN blobs /\ blobs[id] = repository.blobs[id]
Verified(o) == (o.kind = "tree" /\ TreeKept(o.id)) \/ (o.kind = "blob" /\ BlobKept(o.id))

Entered(s) == selected[s] \in Seq(Walk!Range(selected[s]))
KeptInv ==
  /\ phase \in {"resolve", "walk", "select", "licence", "done", "rejected", "paused"}
  /\ side \in Walk!Sides
  /\ selected = [s \in Walk!Sides |-> selected[s]]
  /\ \A s \in Walk!Sides :
       Entered(s) /\ \A file \in Walk!Range(selected[s]) : BlobKept(file.id)
  /\ \A o \in identities : Verified(o)
  /\ phase \in {"licence", "done"} =>
       BlobKept(candidate.child) /\ BlobKept(candidate.parent)
  /\ phase = "done" =>
       /\ {Walk!Object("blob", id) : id \in {candidate.child, candidate.parent}}
            \subseteq identities
       /\ \E o \in identities : o.kind = "blob" /\ o.id = Walk!LicenceId

LEMMA ObjectFields ==
  ASSUME NEW kind, NEW id
  PROVE  Walk!Object(kind, id).kind = kind /\ Walk!Object(kind, id).id = id
BY DEF Walk!Object

LEMMA WalkInit == Walk!Init => KeptInv
<1> SUFFICES ASSUME Walk!Init PROVE KeptInv
  OBVIOUS
<1>1. /\ phase = "resolve" /\ side = "child" /\ identities = {}
      /\ selected = [s \in Walk!Sides |-> << >>]
  BY DEF Walk!Init
<1>2. Walk!Range(<< >>) = {} /\ << >> \in Seq({})
  BY DEF Walk!Range
<1>3. QED
  BY <1>1, <1>2 DEF KeptInv, Entered, Walk!Sides

\* What a step of a walk with the same objects and files leaves is kept.
LEMMA StillKept ==
  ASSUME KeptInv, UNCHANGED <<repository, trees, blobs>>,
         \A o \in identities' : o \in identities \/ Verified(o),
         side' \in Walk!Sides, selected' = selected,
         phase' \in {"resolve", "walk", "select", "rejected", "paused"}
  PROVE  KeptInv'
<1>1. /\ \A id : TreeKept(id)' <=> TreeKept(id)
      /\ \A id : BlobKept(id)' <=> BlobKept(id)
  BY DEF TreeKept, BlobKept
<1>2. ASSUME NEW o \in identities' PROVE Verified(o)'
  <2>1. Verified(o)
    BY DEF KeptInv
  <2>2. QED
    BY <1>1, <2>1 DEF Verified
<1>3. \A s \in Walk!Sides :
        Entered(s)' /\ \A file \in Walk!Range(selected'[s]) : BlobKept(file.id)'
  BY <1>1 DEF KeptInv, Entered
<1>4. QED
  BY <1>2, <1>3 DEF KeptInv

\* What is loaded replaces nothing.
LEMMA LoadedMore ==
  ASSUME KeptInv, NEW phase1 \in {phase, "paused", "rejected"}, phase' = phase1,
         UNCHANGED <<repository, side, selected, identities, candidate>>,
         phase # "done", phase1 # "done",
         \A id \in DOMAIN trees : id \in DOMAIN trees' /\ trees'[id] = trees[id],
         \A id \in DOMAIN blobs : id \in DOMAIN blobs' /\ blobs'[id] = blobs[id]
  PROVE  KeptInv'
<1>1. /\ \A id : TreeKept(id) => TreeKept(id)'
      /\ \A id : BlobKept(id) => BlobKept(id)'
  BY DEF TreeKept, BlobKept
<1>2. ASSUME NEW o \in identities' PROVE Verified(o)'
  <2>1. Verified(o)
    BY DEF KeptInv
  <2>2. QED
    BY <1>1, <2>1 DEF Verified
<1>3. \A s \in Walk!Sides :
        Entered(s)' /\ \A file \in Walk!Range(selected'[s]) : BlobKept(file.id)'
  BY <1>1 DEF KeptInv, Entered
<1>4. QED
  BY <1>1, <1>2, <1>3 DEF KeptInv

LEMMA RequestKept == ASSUME KeptInv, Walk!Request PROVE KeptInv'
<1>1. PICK object \in Walk!Wanted :
        /\ ~Walk!Cached(object)
        /\ \E reply \in Walk!Replies :
             CASE Walk!Verdict(reply) = "accepted" ->
                    /\ IF object.kind = "tree" THEN Walk!LoadTree(object.id)
                       ELSE Walk!LoadBlob(object.id)
                    /\ UNCHANGED <<phase, pauses>>
               [] Walk!Verdict(reply) = "paused" ->
                    /\ pauses < MaxPauses
                    /\ phase' = "paused" /\ pauses' = pauses + 1
                    /\ UNCHANGED <<trees, blobs>>
               [] OTHER -> phase' = "rejected" /\ UNCHANGED <<pauses, trees, blobs>>
        /\ UNCHANGED <<repository, side, selected, identities, candidate>>
  BY DEF Walk!Request
<1>2. \/ /\ IF object.kind = "tree" THEN Walk!LoadTree(object.id) ELSE Walk!LoadBlob(object.id)
         /\ phase' = phase
      \/ phase' \in {"paused", "rejected"} /\ trees' = trees /\ blobs' = blobs
  BY <1>1
<1>3. phase # "done"
  BY <1>1 DEF Walk!Wanted
<1>4. /\ \A id \in DOMAIN trees : id \in DOMAIN trees' /\ trees'[id] = trees[id]
      /\ \A id \in DOMAIN blobs : id \in DOMAIN blobs' /\ blobs'[id] = blobs[id]
  <2>1. CASE trees' = trees /\ blobs' = blobs
    BY <2>1
  <2>2. CASE object.kind = "tree" /\ Walk!LoadTree(object.id)
    <3>1. object.id \notin DOMAIN trees
      BY <1>1, <2>2 DEF Walk!Cached
    <3>2. PICK answer : trees' = Walk!Loaded(trees, object.id, answer) /\ blobs' = blobs
      BY <2>2 DEF Walk!LoadTree
    <3>3. QED
      BY <3>1, <3>2 DEF Walk!Loaded
  <2>3. CASE object.kind # "tree" /\ Walk!LoadBlob(object.id)
    <3>1. object.id \notin DOMAIN blobs
      BY <1>1, <2>3 DEF Walk!Cached
    <3>2. PICK answer : blobs' = Walk!Loaded(blobs, object.id, answer) /\ trees' = trees
      BY <2>3 DEF Walk!LoadBlob
    <3>3. QED
      BY <3>1, <3>2 DEF Walk!Loaded
  <2>4. QED
    BY <1>2, <2>1, <2>2, <2>3
<1>5. QED
  BY <1>1, <1>2, <1>3, <1>4, LoadedMore

LEMMA RejectKept == ASSUME KeptInv, Walk!Reject PROVE KeptInv'
BY StillKept DEF Walk!Reject, KeptInv

LEMMA ResolveKept == ASSUME KeptInv, Walk!ResolveApprovedSubtree PROVE KeptInv'
<1>1. CASE Walk!Reject
  BY <1>1, RejectKept
<1>2. CASE ~Walk!Reject
  <2>1. /\ phase = "resolve" /\ Walk!HasWanted /\ Walk!TreeVerified(cursor.id)
        /\ Walk!PersistVerified(Walk!Object("tree", cursor.id), << >>)
        /\ phase' \in {phase, "walk"} /\ UNCHANGED <<repository, side, selected, trees, blobs>>
    BY <1>2 DEF Walk!ResolveApprovedSubtree
  <2>2. Walk!Cached(Walk!Object("tree", cursor.id))
    BY <2>1 DEF Walk!HasWanted, Walk!Wanted
  <2>3. TreeKept(cursor.id)
    BY <2>1, <2>2, ObjectFields DEF TreeKept, Walk!Cached, Walk!TreeVerified, Walk!TreeIdentity
  <2>4. \A o \in identities' : o \in identities \/ o = Walk!Object("tree", cursor.id)
    BY <2>1 DEF Walk!PersistVerified
  <2>5. Verified(Walk!Object("tree", cursor.id))
    BY <2>3, ObjectFields DEF Verified
  <2>6. QED
    BY <2>1, <2>4, <2>5, StillKept DEF KeptInv
<1>3. QED
  BY <1>1, <1>2

LEMMA VisitTreeKept == ASSUME KeptInv, Walk!VisitTree PROVE KeptInv'
<1>1. CASE Walk!Reject
  BY <1>1, RejectKept
<1>2. CASE ~Walk!Reject
  <2> DEFINE id == Walk!Last(pending).id
             path == Walk!Last(pending).path
  <2>1. /\ phase = "walk" /\ pending # << >> /\ Walk!Last(pending).kind = "tree"
        /\ Walk!HasWanted /\ Walk!TreeVerified(id)
        /\ Walk!PersistVerified(Walk!Object("tree", id), path)
        /\ UNCHANGED <<phase, repository, side, selected, trees, blobs>>
    BY <1>2 DEF Walk!VisitTree
  <2>2. Walk!Cached(Walk!Object("tree", id))
    BY <2>1 DEF Walk!HasWanted, Walk!Wanted
  <2> HIDE DEF id, path
  <2>3. TreeKept(id)
    BY <2>1, <2>2, ObjectFields DEF TreeKept, Walk!Cached, Walk!TreeVerified, Walk!TreeIdentity
  <2>4. \A o \in identities' : o \in identities \/ o = Walk!Object("tree", id)
    BY <2>1 DEF Walk!PersistVerified
  <2>5. Verified(Walk!Object("tree", id))
    BY <2>3, ObjectFields DEF Verified
  <2>6. QED
    BY <2>1, <2>4, <2>5, StillKept DEF KeptInv
<1>3. QED
  BY <1>1, <1>2

LEMMA VisitBlobKept == ASSUME KeptInv, Walk!VisitBlob PROVE KeptInv'
<1>1. CASE Walk!Reject
  BY <1>1, RejectKept
<1>2. CASE ~Walk!Reject
  <2> DEFINE id == Walk!Last(pending).id
             path == Walk!Last(pending).path
             file == [path |-> path, id |-> id]
  <2>1. /\ phase = "walk" /\ pending # << >> /\ Walk!Last(pending).kind = "blob"
        /\ Walk!HasWanted /\ Walk!BlobVerified(id)
        /\ Walk!PersistVerified(Walk!Object("blob", id), path)
        /\ selected' = [selected EXCEPT ![side] = Append(@, file)]
        /\ UNCHANGED <<phase, repository, side, trees, blobs>>
    BY <1>2 DEF Walk!VisitBlob
  <2>2. Walk!Cached(Walk!Object("blob", id))
    BY <2>1 DEF Walk!HasWanted, Walk!Wanted
  <2>3. file.id = id
    OBVIOUS
  <2> HIDE DEF id, path, file
  <2>4. BlobKept(id)
    BY <2>1, <2>2, ObjectFields DEF BlobKept, Walk!Cached, Walk!BlobVerified
  <2>5. \A o \in identities' : o \in identities \/ o = Walk!Object("blob", id)
    BY <2>1 DEF Walk!PersistVerified
  <2>6. Verified(Walk!Object("blob", id))
    BY <2>4, ObjectFields DEF Verified
  <2>7. /\ \A x : TreeKept(x)' <=> TreeKept(x)
        /\ \A x : BlobKept(x)' <=> BlobKept(x)
    BY <2>1 DEF TreeKept, BlobKept
  <2>8. ASSUME NEW o \in identities' PROVE Verified(o)'
    <3>1. Verified(o)
      BY <2>5, <2>6 DEF KeptInv
    <3>2. QED
      BY <2>7, <3>1 DEF Verified
  <2>9. /\ side \in Walk!Sides /\ selected = [s \in Walk!Sides |-> selected[s]]
        /\ selected[side] \in Seq(Walk!Range(selected[side]))
    BY DEF KeptInv, Entered
  <2>10. /\ selected' = [s \in Walk!Sides |-> selected'[s]]
         /\ selected'[side] = Append(selected[side], file)
         /\ \A s \in Walk!Sides : s # side => selected'[s] = selected[s]
    BY <2>1, <2>9
  <2> DEFINE before == selected[side]
             T == Walk!Range(before) \cup {file}
             after == Append(before, file)
  <2>11. before \in Seq(T) /\ file \in T
    BY <2>9
  <2>12. /\ after \in Seq(T) /\ Len(after) = Len(before) + 1
         /\ \A i \in DOMAIN after : after[i] \in T
    <3> HIDE DEF T, before
    <3>1. QED
      BY <2>11, Appended
  <2>13. after \in Seq(Walk!Range(after))
    <3>1. after \in [1..Len(after) -> T] /\ DOMAIN after = 1..Len(after) /\ Len(after) \in Nat
      BY <2>12, LenProperties
    <3> HIDE DEF after, T
    <3>2. \A i \in 1..Len(after) : after[i] \in Walk!Range(after)
      BY <3>1 DEF Walk!Range
    <3>3. QED
      BY <3>1, <3>2
  <2>14. \A x \in Walk!Range(after) : x = file \/ x \in Walk!Range(before)
    BY <2>12 DEF Walk!Range
  <2>15. /\ selected'[side] \in Seq(Walk!Range(selected'[side]))
         /\ \A x \in Walk!Range(selected'[side]) : BlobKept(x.id)
    <3>1. \A x \in Walk!Range(before) : BlobKept(x.id)
      BY <2>9 DEF KeptInv
    <3> HIDE DEF before, after
    <3>2. \A x \in Walk!Range(after) : BlobKept(x.id)
      BY <2>3, <2>4, <2>14, <3>1
    <3>3. after = selected'[side]
      BY <2>10 DEF before, after
    <3>4. QED
      BY <2>13, <3>2, <3>3
  <2> HIDE DEF before, after, T
  <2>16. ASSUME NEW s \in Walk!Sides
         PROVE  Entered(s)' /\ \A x \in Walk!Range(selected'[s]) : BlobKept(x.id)'
    <3>1. CASE s = side
      BY <2>7, <2>15, <3>1 DEF Entered
    <3>2. CASE s # side
      BY <2>7, <2>10, <3>2 DEF KeptInv, Entered
    <3>3. QED
      BY <3>1, <3>2
  <2>17. QED
    BY <2>1, <2>8, <2>9, <2>10, <2>16 DEF KeptInv
<1>3. QED
  BY <1>1, <1>2

LEMMA SelectCandidateKept == ASSUME KeptInv, Walk!SelectCandidate PROVE KeptInv'
<1>1. CASE Walk!Reject
  BY <1>1, RejectKept
<1>2. CASE ~Walk!Reject
  <2>1. /\ phase' = "licence"
        /\ UNCHANGED <<repository, side, selected, trees, blobs, identities>>
        /\ \E c \in Walk!Eligible : \E p \in Walk!Range(selected["parent"]) :
             candidate'.child = c.id /\ candidate'.parent = p.id
    BY <1>2 DEF Walk!SelectCandidate
  <2>2. BlobKept(candidate'.child) /\ BlobKept(candidate'.parent)
    BY <2>1 DEF KeptInv, Walk!Eligible, Walk!Sides
  <2>3. /\ \A id : TreeKept(id)' <=> TreeKept(id)
        /\ \A id : BlobKept(id)' <=> BlobKept(id)
    BY <2>1 DEF TreeKept, BlobKept
  <2>4. ASSUME NEW o \in identities' PROVE Verified(o)'
    <3>1. Verified(o)
      BY <2>1 DEF KeptInv
    <3>2. QED
      BY <2>3, <3>1 DEF Verified
  <2>5. \A s \in Walk!Sides :
          Entered(s)' /\ \A file \in Walk!Range(selected'[s]) : BlobKept(file.id)'
    BY <2>1, <2>3 DEF KeptInv, Entered
  <2>6. QED
    BY <2>1, <2>2, <2>3, <2>4, <2>5 DEF KeptInv
<1>3. QED
  BY <1>1, <1>2

LEMMA SnapshotsKept == ASSUME KeptInv, Walk!PersistSnapshots PROVE KeptInv'
<1>1. CASE Walk!Reject
  BY <1>1, RejectKept
<1>2. CASE ~Walk!Reject
  <2> DEFINE kept == {candidate.child, candidate.parent, Walk!LicenceId}
  <2>1. /\ phase = "licence" /\ Walk!HasWanted /\ Walk!Cardinality(Walk!Licences) = 1
        /\ Walk!LicenceAdmitted /\ phase' = "done"
        /\ identities' = identities \cup {Walk!Object("blob", id) : id \in kept}
        /\ UNCHANGED <<repository, side, selected, trees, blobs, candidate>>
    BY <1>2 DEF Walk!PersistSnapshots
  <2>2. Walk!Cached(Walk!Object("blob", Walk!LicenceId))
    BY <2>1 DEF Walk!HasWanted, Walk!Wanted
  <2>3. BlobKept(Walk!LicenceId)
    BY <2>1, <2>2, ObjectFields
    DEF BlobKept, Walk!Cached, Walk!LicenceAdmitted, Walk!BlobVerified
  <2>4. \A id \in kept : BlobKept(id)
    BY <2>1, <2>3 DEF KeptInv
  <2>5. /\ \A id : TreeKept(id)' <=> TreeKept(id)
        /\ \A id : BlobKept(id)' <=> BlobKept(id)
    BY <2>1 DEF TreeKept, BlobKept
  <2>6. ASSUME NEW o \in identities' PROVE Verified(o)'
    <3>1. Verified(o)
      BY <2>1, <2>4, ObjectFields DEF KeptInv, Verified
    <3>2. QED
      BY <2>5, <3>1 DEF Verified
  <2>7. \A s \in Walk!Sides :
          Entered(s)' /\ \A file \in Walk!Range(selected'[s]) : BlobKept(file.id)'
    BY <2>1, <2>5 DEF KeptInv, Entered
  <2>8. Walk!LicenceId' = Walk!LicenceId
    BY <2>1 DEF Walk!LicenceId, Walk!Licences, Walk!RootEntries
  <2>9. /\ Walk!Object("blob", Walk!LicenceId) \in identities'
        /\ {Walk!Object("blob", id) : id \in {candidate.child, candidate.parent}}
             \subseteq identities'
    BY <2>1
  <2>10. \E o \in identities' : o.kind = "blob" /\ o.id = Walk!LicenceId'
    BY <2>8, <2>9, ObjectFields
  <2>11. BlobKept(candidate.child)' /\ BlobKept(candidate.parent)'
    BY <2>1, <2>4, <2>5
  <2>12. QED
    BY <2>1, <2>6, <2>7, <2>9, <2>10, <2>11 DEF KeptInv
<1>3. QED
  BY <1>1, <1>2

\* A resumed run has what was kept.
LEMMA ResumeKept == ASSUME KeptInv, Walk!Resume PROVE KeptInv'
<1> DEFINE kept(kind) == {object.id : object \in {o \in identities : o.kind = kind}}
<1>1. /\ phase' = "resolve" /\ side' = "child" /\ selected' = [s \in Walk!Sides |-> << >>]
      /\ trees' = [id \in kept("tree") |-> trees[id]]
      /\ blobs' = [id \in kept("blob") |-> blobs[id]]
      /\ UNCHANGED <<repository, identities>>
  BY DEF Walk!Resume
<1>2. ASSUME NEW o \in identities' PROVE Verified(o)'
  <2>1. o \in identities /\ Verified(o)
    BY <1>1 DEF KeptInv
  <2>2. CASE o.kind = "tree" /\ TreeKept(o.id)
    BY <1>1, <2>1, <2>2 DEF Verified, TreeKept
  <2>3. CASE o.kind = "blob" /\ BlobKept(o.id)
    BY <1>1, <2>1, <2>3 DEF Verified, BlobKept
  <2>4. QED
    BY <2>1, <2>2, <2>3 DEF Verified
<1>3. Walk!Range(<< >>) = {} /\ << >> \in Seq({})
  BY DEF Walk!Range
<1>4. QED
  BY <1>1, <1>2, <1>3 DEF KeptInv, Entered, Walk!Sides

\* Steps of other parts.
LEMMA WalkUntouched == ASSUME KeptInv, UNCHANGED walk PROVE KeptInv'
<1>1. /\ repository' = repository /\ phase' = phase /\ side' = side /\ selected' = selected
      /\ trees' = trees /\ blobs' = blobs /\ identities' = identities
      /\ candidate' = candidate
  BY DEF walk
<1>2. /\ \A id : TreeKept(id)' <=> TreeKept(id)
      /\ \A id : BlobKept(id)' <=> BlobKept(id)
  BY <1>1 DEF TreeKept, BlobKept
<1>3. ASSUME NEW o \in identities' PROVE Verified(o)'
  <2>1. Verified(o)
    BY <1>1 DEF KeptInv
  <2>2. QED
    BY <1>2, <2>1 DEF Verified
<1>4. \A s \in Walk!Sides :
        Entered(s)' /\ \A file \in Walk!Range(selected'[s]) : BlobKept(file.id)'
  BY <1>1, <1>2 DEF KeptInv, Entered
<1>5. Walk!LicenceId' = Walk!LicenceId
  BY <1>1 DEF Walk!LicenceId, Walk!Licences, Walk!RootEntries
<1>6. BlobKept(candidate.child)' <=> BlobKept(candidate.child)
  BY <1>1, <1>2
<1>7. BlobKept(candidate.parent)' <=> BlobKept(candidate.parent)
  BY <1>1, <1>2
<1>8. QED
  BY <1>1, <1>3, <1>4, <1>5, <1>6, <1>7 DEF KeptInv

LEMMA WalkNext == KeptInv /\ Walk!Next => KeptInv'
<1> SUFFICES ASSUME KeptInv, Walk!Next PROVE KeptInv'
  OBVIOUS
<1>1. CASE Walk!RequestRefused \/ Walk!PersistThrows
  BY <1>1, RejectKept DEF Walk!RequestRefused, Walk!PersistThrows
<1>2. CASE Walk!WalkEnds
  BY <1>2, StillKept DEF Walk!WalkEnds, KeptInv, Walk!Sides
<1>3. CASE Walk!WalkOver
  BY <1>3, WalkUntouched DEF Walk!WalkOver, Walk!walkVars, walk
<1>4. QED
  BY <1>1, <1>2, <1>3, RequestKept, ResolveKept, VisitTreeKept, VisitBlobKept,
     SelectCandidateKept, SnapshotsKept, ResumeKept DEF Walk!Next

(* Whatever a walk keeps is the whole object of its identity, through cut  *)
(* answers, false answers and pauses, and a draft keeps the files of its   *)
(* candidate and the licence (walkRevision, loadedObjects).                *)
THEOREM KeptAlwaysVerified == Spec => []KeptIsVerified
<1>1. Init => KeptInv
  BY WalkInit DEF Init
<1>2. KeptInv /\ [Next]_vars => KeptInv'
  <2> SUFFICES ASSUME KeptInv, [Next]_vars PROVE KeptInv'
    OBVIOUS
  <2>1. CASE WalkStep
    BY <2>1, WalkNext DEF WalkStep
  <2>2. CASE UNCHANGED walk
    BY <2>2, WalkUntouched
  <2>3. QED
    BY <2>1, <2>2 DEF Next, vars, StoreStep, PreparationStep, RuntimeStep, CorpusStep,
                      AuthorizationStep, MeasurementStep
<1>3. KeptInv => KeptIsVerified
  <2> SUFFICES ASSUME KeptInv PROVE Walk!KeptIsVerified
    BY DEF KeptIsVerified
  <2>1. ASSUME NEW o \in identities
        PROVE  IF o.kind = "tree"
               THEN o.id \in DOMAIN trees /\ trees[o.id].entries = repository.trees[o.id]
               ELSE o.id \in DOMAIN blobs /\ blobs[o.id] = repository.blobs[o.id]
    BY DEF KeptInv, Verified, TreeKept, BlobKept
  <2>2. QED
    BY <2>1 DEF KeptInv, Walk!KeptIsVerified
<1>4. QED
  BY <1>1, <1>2, <1>3, PTL DEF Spec

-----------------------------------------------------------------------------
(* The changed lines.                                                      *)

\* Two functions agree at a place, if they do at lower places; and what an operator makes of
\* functions at a place rests on lower places.
AgreeUpwards(S, height, g, h) ==
  \A x \in S : (\A y \in S : height[y] < height[x] => g[y] = h[y]) => g[x] = h[x]
RestsOnLower(S, V, height, bound, F) ==
  /\ height \in [S -> Nat] /\ bound \in Nat /\ \A x \in S : height[x] < bound
  /\ F \in [[S -> V] -> [S -> V]] /\ V # {}
  /\ \A g, h \in [S -> V], x \in S :
       (\A y \in S : height[y] < height[x] => g[y] = h[y]) => F[g][x] = F[h][x]

LEMMA FixedPoint ==
  ASSUME NEW S, NEW V, NEW height, NEW bound, NEW F, RestsOnLower(S, V, height, bound, F)
  PROVE  \E g \in [S -> V] : g = F[g]
<1>0. /\ height \in [S -> Nat] /\ bound \in Nat /\ \A x \in S : height[x] < bound
      /\ F \in [[S -> V] -> [S -> V]]
      /\ \A g, h \in [S -> V], x \in S :
           (\A y \in S : height[y] < height[x] => g[y] = h[y]) => F[g][x] = F[h][x]
  BY DEF RestsOnLower
<1>9. PICK start : start \in [S -> V]
  <2>1. PICK v : v \in V
    BY DEF RestsOnLower
  <2>2. [x \in S |-> v] \in [S -> V]
    BY <2>1
  <2>3. QED
    BY <2>2
<1> DEFINE Fixed(n, g) == \A x \in S : height[x] < n => g[x] = F[g][x]
           T == {n \in Nat : \A g \in [S -> V] : ~Fixed(n, g)}
<1>1. T = {}
  <2> SUFFICES ASSUME T # {} PROVE FALSE
    OBVIOUS
  <2>1. T \subseteq Nat
    OBVIOUS
  <2> HIDE DEF T
  <2>2. PICK n \in T : \A k \in T : n <= k
    BY <2>1, LeastNatural
  <2>3. n \in Nat /\ \A g \in [S -> V] : ~Fixed(n, g)
    BY <2>2 DEF T
  <2>4. n # 0
    <3> SUFFICES ASSUME n = 0 PROVE FALSE
      OBVIOUS
    <3>1. Fixed(0, start)
      BY <1>0
    <3> HIDE DEF Fixed
    <3>2. QED
      BY <1>9, <2>3, <3>1
  <2>5. n - 1 \in Nat /\ n - 1 \notin T
    BY <2>2, <2>3, <2>4
  <2>6. PICK g \in [S -> V] : Fixed(n - 1, g)
    <3> HIDE DEF Fixed
    <3>1. QED
      BY <2>5 DEF T
  <2>7. F[g] \in [S -> V]
    BY <1>0
  <2>8. Fixed(n, F[g])
    <3> SUFFICES ASSUME NEW x \in S, height[x] < n PROVE F[g][x] = F[F[g]][x]
      OBVIOUS
    <3>1. \A y \in S : height[y] < height[x] => g[y] = F[g][y]
      <4> SUFFICES ASSUME NEW y \in S, height[y] < height[x] PROVE g[y] = F[g][y]
        OBVIOUS
      <4>1. height[y] \in Nat /\ height[x] \in Nat
        BY <1>0
      <4>2. height[y] < n - 1
        BY <2>3, <4>1
      <4>3. QED
        BY <2>6, <4>2
    <3>2. QED
      BY <1>0, <2>7, <3>1
  <2> HIDE DEF Fixed
  <2>9. QED
    BY <2>3, <2>7, <2>8
<1>2. PICK g \in [S -> V] : Fixed(bound, g)
  <2> HIDE DEF Fixed
  <2>1. QED
    BY <1>0, <1>1
<1>3. F[g] \in [S -> V]
  BY <1>0
<1>4. \A x \in S : g[x] = F[g][x]
  BY <1>0, <1>2
<1>5. g = F[g]
  BY <1>2, <1>3, <1>4
<1>6. QED
  BY <1>5

\* Two functions are the same, if at each place they are when they are at lower places.
LEMMA SameByHeight ==
  ASSUME NEW S, NEW height \in [S -> Nat], NEW g, NEW h,
         AgreeUpwards(S, height, g, h)
  PROVE  \A x \in S : g[x] = h[x]
<1> DEFINE T == {height[x] : x \in {y \in S : g[y] # h[y]}}
<1> SUFFICES ASSUME T # {} PROVE FALSE
  OBVIOUS
<1>1. T \subseteq Nat
  OBVIOUS
<1> HIDE DEF T
<1>2. PICK n \in T : \A k \in T : n <= k
  BY <1>1, LeastNatural
<1>3. PICK x \in S : g[x] # h[x] /\ height[x] = n
  BY <1>2 DEF T
<1>4. PICK y \in S : height[y] < height[x] /\ g[y] # h[y]
  BY <1>3 DEF AgreeUpwards
<1>5. height[y] \in T /\ height[y] \in Nat /\ n \in Nat
  BY <1>1, <1>2, <1>4 DEF T
<1>6. QED
  BY <1>2, <1>3, <1>4, <1>5

\* The places of two texts, and how far they are from the end.
LEMMA PlaceFields ==
  ASSUME NEW parent, NEW child, Len(parent) \in Nat, Len(child) \in Nat,
         NEW at \in Walk!Places(parent, child)
  PROVE  /\ at[1] \in 1..(Len(parent) + 1) /\ at[2] \in 1..(Len(child) + 1)
         /\ at = <<at[1], at[2]>>
BY DEF Walk!Places

LEMMA PlaceMade ==
  ASSUME NEW parent, NEW child, Len(parent) \in Nat, Len(child) \in Nat,
         NEW i \in 1..(Len(parent) + 1), NEW j \in 1..(Len(child) + 1)
  PROVE  <<i, j>> \in Walk!Places(parent, child) /\ <<i, j>>[1] = i /\ <<i, j>>[2] = j
BY DEF Walk!Places

Distance(parent, child) ==
  [at \in Walk!Places(parent, child) |-> (Len(parent) + 1 - at[1]) + (Len(child) + 1 - at[2])]

LEMMA DistanceBounded ==
  ASSUME NEW parent, NEW child, Len(parent) \in Nat, Len(child) \in Nat
  PROVE  /\ Distance(parent, child) \in [Walk!Places(parent, child) -> Nat]
         /\ \A at \in Walk!Places(parent, child) :
              Distance(parent, child)[at] < Len(parent) + Len(child) + 1
         /\ \A i \in 1..(Len(parent) + 1), j \in 1..(Len(child) + 1) :
              Distance(parent, child)[<<i, j>>] = (Len(parent) + 1 - i) + (Len(child) + 1 - j)
<1> DEFINE S == Walk!Places(parent, child)
           d(i, j) == (Len(parent) + 1 - i) + (Len(child) + 1 - j)
<1>1. \A i \in 1..(Len(parent) + 1), j \in 1..(Len(child) + 1) :
        d(i, j) \in Nat /\ d(i, j) < Len(parent) + Len(child) + 1
  OBVIOUS
<1>2. \A at \in S : at[1] \in 1..(Len(parent) + 1) /\ at[2] \in 1..(Len(child) + 1)
  BY PlaceFields
<1>3. Distance(parent, child) = [at \in S |-> d(at[1], at[2])]
  BY DEF Distance
<1>4. \A i \in 1..(Len(parent) + 1), j \in 1..(Len(child) + 1) :
        <<i, j>> \in S /\ <<i, j>>[1] = i /\ <<i, j>>[2] = j
  BY PlaceMade
<1> HIDE DEF S, d
<1>5. \A at \in S : d(at[1], at[2]) \in Nat /\ d(at[1], at[2]) < Len(parent) + Len(child) + 1
  BY <1>1, <1>2
<1>6. /\ Distance(parent, child) \in [S -> Nat]
      /\ \A at \in S : Distance(parent, child)[at] < Len(parent) + Len(child) + 1
  BY <1>3, <1>5
<1>7. \A i \in 1..(Len(parent) + 1), j \in 1..(Len(child) + 1) :
        Distance(parent, child)[<<i, j>>] = d(i, j)
  BY <1>3, <1>4
<1>8. QED
  BY <1>6, <1>7 DEF S, d

LengthAt(parent, child, g, at) ==
  IF at[1] > Len(parent) \/ at[2] > Len(child) THEN 0
  ELSE IF parent[at[1]] = child[at[2]] THEN 1 + g[<<at[1] + 1, at[2] + 1>>]
  ELSE Walk!Larger(g[<<at[1] + 1, at[2]>>], g[<<at[1], at[2] + 1>>])

\* From a place within both texts there are three next ones, which are nearer the end.
LEMMA NextPlaces ==
  ASSUME NEW parent, NEW child, Len(parent) \in Nat, Len(child) \in Nat,
         NEW at \in Walk!Places(parent, child)
  PROVE  /\ ~(at[1] > Len(parent)) =>
              /\ <<at[1] + 1, at[2]>> \in Walk!Places(parent, child)
              /\ Distance(parent, child)[<<at[1] + 1, at[2]>>] < Distance(parent, child)[at]
         /\ ~(at[2] > Len(child)) =>
              /\ <<at[1], at[2] + 1>> \in Walk!Places(parent, child)
              /\ Distance(parent, child)[<<at[1], at[2] + 1>>] < Distance(parent, child)[at]
         /\ ~(at[1] > Len(parent)) /\ ~(at[2] > Len(child)) =>
              /\ <<at[1] + 1, at[2] + 1>> \in Walk!Places(parent, child)
              /\ Distance(parent, child)[<<at[1] + 1, at[2] + 1>>] < Distance(parent, child)[at]
<1>1. PICK i \in 1..(Len(parent) + 1), j \in 1..(Len(child) + 1) :
        at = <<i, j>> /\ at[1] = i /\ at[2] = j
  BY PlaceFields
<1>2. ASSUME NEW a \in 1..(Len(parent) + 1), NEW b \in 1..(Len(child) + 1), a + b > i + j
      PROVE  /\ <<a, b>> \in Walk!Places(parent, child)
             /\ Distance(parent, child)[<<a, b>>] < Distance(parent, child)[at]
  <2>1. /\ Distance(parent, child)[<<a, b>>] = (Len(parent) + 1 - a) + (Len(child) + 1 - b)
        /\ Distance(parent, child)[at] = (Len(parent) + 1 - i) + (Len(child) + 1 - j)
    BY <1>1, DistanceBounded
  <2>2. QED
    BY <1>2, <2>1, PlaceMade
<1>3. /\ ~(i > Len(parent)) => i + 1 \in 1..(Len(parent) + 1) /\ (i + 1) + j > i + j
      /\ ~(j > Len(child)) => j + 1 \in 1..(Len(child) + 1) /\ i + (j + 1) > i + j
      /\ (i + 1) + (j + 1) > i + j
  OBVIOUS
<1>4. QED
  BY <1>1, <1>2, <1>3

LEMMA LengthsDefined ==
  ASSUME NEW parent, NEW child, Len(parent) \in Nat, Len(child) \in Nat
  PROVE  /\ Walk!Lengths(parent, child) \in [Walk!Places(parent, child) -> Nat]
         /\ \A at \in Walk!Places(parent, child) :
              Walk!Lengths(parent, child)[at] =
                LengthAt(parent, child, Walk!Lengths(parent, child), at)
<1> DEFINE S == Walk!Places(parent, child)
           F == [g \in [S -> Nat] |-> [at \in S |-> LengthAt(parent, child, g, at)]]
<1>1. ASSUME NEW g \in [S -> Nat], NEW at \in S
      PROVE  LengthAt(parent, child, g, at) \in Nat
  <2>1. ~(at[1] > Len(parent)) /\ ~(at[2] > Len(child)) =>
          /\ <<at[1] + 1, at[2]>> \in S /\ <<at[1], at[2] + 1>> \in S
          /\ <<at[1] + 1, at[2] + 1>> \in S
    BY NextPlaces
  <2> HIDE DEF S
  <2>2. QED
    BY <2>1 DEF LengthAt, Walk!Larger
<1>2. F \in [[S -> Nat] -> [S -> Nat]]
  BY <1>1
<1>5. /\ Distance(parent, child) \in [S -> Nat]
      /\ \A at \in S : Distance(parent, child)[at] < Len(parent) + Len(child) + 1
      /\ Len(parent) + Len(child) + 1 \in Nat
  BY DistanceBounded
<1> DEFINE D == Distance(parent, child)
           N == Len(parent) + Len(child) + 1
<1>6. ASSUME NEW g, NEW h, NEW x \in S, \A y \in S : D[y] < D[x] => g[y] = h[y]
      PROVE  LengthAt(parent, child, g, x) = LengthAt(parent, child, h, x)
  <2>1. ~(x[1] > Len(parent)) /\ ~(x[2] > Len(child)) =>
          /\ g[<<x[1] + 1, x[2]>>] = h[<<x[1] + 1, x[2]>>]
          /\ g[<<x[1], x[2] + 1>>] = h[<<x[1], x[2] + 1>>]
          /\ g[<<x[1] + 1, x[2] + 1>>] = h[<<x[1] + 1, x[2] + 1>>]
    BY <1>6, NextPlaces
  <2>2. QED
    BY <2>1 DEF LengthAt
<1>7. PICK g \in [S -> Nat] : g = F[g]
  <2>1. \A h, k \in [S -> Nat], x \in S :
          (\A y \in S : D[y] < D[x] => h[y] = k[y]) => F[h][x] = F[k][x]
    BY <1>6
  <2>2. D \in [S -> Nat] /\ N \in Nat /\ \A x \in S : D[x] < N
    BY <1>5
  <2> HIDE DEF F, S, D, N
  <2>3. RestsOnLower(S, Nat, D, N, F)
    BY <1>2, <2>1, <2>2 DEF RestsOnLower
  <2>4. QED
    BY <2>3, FixedPoint
<1>8. g = [at \in S |-> LengthAt(parent, child, g, at)]
  BY <1>7
<1> DEFINE L == Walk!Lengths(parent, child)
<1>9. L = CHOOSE f : f = [at \in S |-> LengthAt(parent, child, f, at)]
  BY DEF Walk!Lengths, LengthAt
<1>10. L = [at \in S |-> LengthAt(parent, child, L, at)]
  BY <1>8, <1>9
<1>11. \A x \in S : L[x] = g[x]
  <2> HIDE DEF S, D, L
  <2>1. D \in [S -> Nat]
    BY <1>5 DEF D
  <2>2. AgreeUpwards(S, D, L, g)
    BY <1>6, <1>8, <1>10 DEF AgreeUpwards
  <2>3. QED
    BY <2>1, <2>2, SameByHeight
<1>12. L \in [S -> Nat]
  <2> HIDE DEF S, L
  <2>1. L = [at \in S |-> g[at]]
    BY <1>10, <1>11
  <2>2. QED
    BY <2>1
<1>13. QED
  BY <1>10, <1>12

ChangedAt(parent, child, g, at) ==
  IF at[2] > Len(child) THEN {}
  ELSE IF at[1] > Len(parent) THEN {at[2]} \cup g[<<at[1], at[2] + 1>>]
  ELSE IF parent[at[1]] = child[at[2]] THEN g[<<at[1] + 1, at[2] + 1>>]
  ELSE IF Walk!Lengths(parent, child)[<<at[1] + 1, at[2]>>]
            >= Walk!Lengths(parent, child)[<<at[1], at[2] + 1>>]
       THEN g[<<at[1] + 1, at[2]>>]
  ELSE {at[2]} \cup g[<<at[1], at[2] + 1>>]

LEMMA ChangedDefined ==
  ASSUME NEW parent, NEW child, Len(parent) \in Nat, Len(child) \in Nat
  PROVE  \E R \in [Walk!Places(parent, child) -> SUBSET (1..Len(child))] :
           /\ Walk!ChangedChildIndexes(parent, child) = R[<<1, 1>>]
           /\ \A at \in Walk!Places(parent, child) : R[at] = ChangedAt(parent, child, R, at)
<1> DEFINE S == Walk!Places(parent, child)
           V == SUBSET (1..Len(child))
           F == [g \in [S -> V] |-> [at \in S |-> ChangedAt(parent, child, g, at)]]
           D == Distance(parent, child)
           N == Len(parent) + Len(child) + 1
           R == CHOOSE f : f = [at \in S |-> ChangedAt(parent, child, f, at)]
<1>1. ASSUME NEW g \in [S -> V], NEW at \in S
      PROVE  ChangedAt(parent, child, g, at) \in V
  <2>1. /\ ~(at[2] > Len(child)) => /\ <<at[1], at[2] + 1>> \in S
                                    /\ at[2] \in 1..Len(child)
        /\ ~(at[1] > Len(parent)) /\ ~(at[2] > Len(child)) =>
             <<at[1] + 1, at[2]>> \in S /\ <<at[1] + 1, at[2] + 1>> \in S
    BY NextPlaces, PlaceFields
  <2>2. \A x \in S : g[x] \in V
    OBVIOUS
  <2>3. \A x \in S : at[2] \in 1..Len(child) => {at[2]} \cup g[x] \in V
    BY <2>2
  <2> HIDE DEF S, V
  <2>4. {} \in V
    BY DEF V
  <2>5. QED
    BY <2>1, <2>2, <2>3, <2>4 DEF ChangedAt
<1>2. F \in [[S -> V] -> [S -> V]]
  <2> HIDE DEF S, V
  <2>1. QED
    BY <1>1
<1>3. ASSUME NEW g, NEW h, NEW x \in S, \A y \in S : D[y] < D[x] => g[y] = h[y]
      PROVE  ChangedAt(parent, child, g, x) = ChangedAt(parent, child, h, x)
  <2>1. /\ ~(x[2] > Len(child)) => g[<<x[1], x[2] + 1>>] = h[<<x[1], x[2] + 1>>]
        /\ ~(x[1] > Len(parent)) /\ ~(x[2] > Len(child)) =>
             /\ g[<<x[1] + 1, x[2]>>] = h[<<x[1] + 1, x[2]>>]
             /\ g[<<x[1] + 1, x[2] + 1>>] = h[<<x[1] + 1, x[2] + 1>>]
    BY <1>3, NextPlaces
  <2>2. QED
    BY <2>1 DEF ChangedAt
<1>4. D \in [S -> Nat] /\ N \in Nat /\ \A x \in S : D[x] < N
  BY DistanceBounded
<1>5. PICK g \in [S -> V] : g = F[g]
  <2>1. \A h, k \in [S -> V], x \in S :
          (\A y \in S : D[y] < D[x] => h[y] = k[y]) => F[h][x] = F[k][x]
    <3> HIDE DEF S, V, D
    <3>1. QED
      BY <1>3
  <2>2. V # {}
    OBVIOUS
  <2> HIDE DEF F, S, D, N, V
  <2>3. RestsOnLower(S, V, D, N, F)
    BY <1>2, <1>4, <2>1, <2>2 DEF RestsOnLower
  <2>4. QED
    BY <2>3, FixedPoint
<1>6. Walk!ChangedChildIndexes(parent, child) = R[<<1, 1>>]
  BY DEF Walk!ChangedChildIndexes, ChangedAt
<1> HIDE DEF S, V, D, N
<1>7. g = [at \in S |-> ChangedAt(parent, child, g, at)]
  BY <1>5
<1>8. R = [at \in S |-> ChangedAt(parent, child, R, at)]
  BY <1>7
<1> HIDE DEF R
<1>9. \A x \in S : R[x] = g[x]
  <2>1. AgreeUpwards(S, D, R, g)
    BY <1>3, <1>7, <1>8 DEF AgreeUpwards
  <2>2. QED
    BY <1>4, <2>1, SameByHeight
<1>10. R \in [S -> V]
  <2>1. R = [at \in S |-> g[at]]
    BY <1>8, <1>9
  <2>2. QED
    BY <2>1
<1>11. \A at \in S : R[at] = ChangedAt(parent, child, R, at)
  BY <1>8
<1>12. QED
  BY <1>6, <1>10, <1>11 DEF S, V

\* What holds at a place if it holds at lower ones, holds.
Hereditary(S, height, T) ==
  \A x \in S : (\A y \in S : height[y] < height[x] => y \in T) => x \in T
LEMMA InductionByHeight ==
  ASSUME NEW S, NEW height \in [S -> Nat], NEW T, Hereditary(S, height, T)
  PROVE  \A x \in S : x \in T
<1> DEFINE G == {height[x] : x \in {y \in S : y \notin T}}
<1> SUFFICES ASSUME G # {} PROVE FALSE
  OBVIOUS
<1>1. G \subseteq Nat
  OBVIOUS
<1> HIDE DEF G
<1>2. PICK n \in G : \A k \in G : n <= k
  BY <1>1, LeastNatural
<1>3. PICK x \in S : x \notin T /\ height[x] = n
  BY <1>2 DEF G
<1>4. PICK y \in S : height[y] < height[x] /\ y \notin T
  BY <1>3 DEF Hereditary
<1>5. height[y] \in G /\ height[y] \in Nat /\ n \in Nat
  BY <1>1, <1>2, <1>4 DEF G
<1>6. QED
  BY <1>2, <1>3, <1>4, <1>5

\* Lines that are kept have places in the parent from a line on, in their order.
Placed(place, kept, i, parent, child) ==
  /\ place \in [kept -> i..Len(parent)]
  /\ \A k \in kept : parent[place[k]] = child[k]
  /\ \A k, l \in kept : k < l => place[k] < place[l]
OccursFrom(kept, i, parent, child) == \E place : Placed(place, kept, i, parent, child)

LEMMA OccursLess ==
  ASSUME NEW parent, NEW child, Len(parent) \in Nat, NEW i \in Nat, NEW e \in Nat, e <= i,
         NEW kept, NEW sub, sub \subseteq kept, OccursFrom(kept, i, parent, child)
  PROVE  OccursFrom(sub, e, parent, child)
<1>1. PICK place : Placed(place, kept, i, parent, child)
  BY DEF OccursFrom
<1>2. i..Len(parent) \subseteq e..Len(parent)
  OBVIOUS
<1>3. place \in [kept -> i..Len(parent)]
  BY <1>1 DEF Placed
<1> DEFINE fewer == [k \in sub |-> place[k]]
<1>4. fewer \in [sub -> e..Len(parent)]
  BY <1>2, <1>3
<1>5. \A k \in sub : parent[fewer[k]] = child[k]
  BY <1>1 DEF Placed
<1>6. \A k, l \in sub : k < l => fewer[k] < fewer[l]
  BY <1>1 DEF Placed
<1>7. Placed(fewer, sub, e, parent, child)
  BY <1>4, <1>5, <1>6 DEF Placed
<1>8. QED
  BY <1>7 DEF OccursFrom

LEMMA OccursTail ==
  ASSUME NEW parent, NEW child, Len(parent) \in Nat, NEW i \in Nat, NEW j \in Nat,
         NEW kept, kept \subseteq Nat, NEW x \in kept, \A k \in kept : x <= k,
         OccursFrom(kept, i, parent, child)
  PROVE  \E at \in i..Len(parent) :
           parent[at] = child[x] /\ OccursFrom(kept \ {x}, at + 1, parent, child)
<1>1. PICK place : Placed(place, kept, i, parent, child)
  BY DEF OccursFrom
<1>2. /\ place \in [kept -> i..Len(parent)] /\ parent[place[x]] = child[x]
      /\ \A k \in kept : parent[place[k]] = child[k]
      /\ \A k, l \in kept : k < l => place[k] < place[l]
  BY <1>1 DEF Placed
<1>3. place[x] \in i..Len(parent)
  BY <1>2
<1> DEFINE rest == kept \ {x}
           fewer == [k \in rest |-> place[k]]
<1>4. ASSUME NEW k \in rest PROVE place[k] \in (place[x] + 1)..Len(parent)
  <2>1. k \in Nat /\ x \in Nat /\ x <= k /\ x # k
    OBVIOUS
  <2>2. x < k
    BY <2>1
  <2>3. place[x] < place[k] /\ place[k] \in i..Len(parent)
    BY <1>2, <2>2
  <2>4. QED
    BY <1>3, <2>3
<1>5. Placed(fewer, rest, place[x] + 1, parent, child)
  <2>1. fewer \in [rest -> (place[x] + 1)..Len(parent)]
    BY <1>4
  <2>2. \A k \in rest : parent[fewer[k]] = child[k]
    BY <1>2
  <2>3. \A k, l \in rest : k < l => fewer[k] < fewer[l]
    BY <1>2
  <2>4. QED
    BY <2>1, <2>2, <2>3 DEF Placed
<1>6. QED
  BY <1>2, <1>3, <1>5 DEF OccursFrom

LEMMA OccursHead ==
  ASSUME NEW parent, NEW child, Len(parent) \in Nat, NEW i \in Nat, i <= Len(parent),
         NEW j \in Nat, parent[i] = child[j],
         NEW kept, kept \subseteq Nat, \A k \in kept : j < k,
         OccursFrom(kept, i + 1, parent, child)
  PROVE  OccursFrom(kept \cup {j}, i, parent, child)
<1>1. PICK place : Placed(place, kept, i + 1, parent, child)
  BY DEF OccursFrom
<1>2. /\ place \in [kept -> (i + 1)..Len(parent)]
      /\ \A k \in kept : parent[place[k]] = child[k]
      /\ \A k, l \in kept : k < l => place[k] < place[l]
  BY <1>1 DEF Placed
<1> DEFINE more == [k \in kept \cup {j} |-> IF k = j THEN i ELSE place[k]]
<1>3. \A k \in kept : k # j /\ place[k] \in i..Len(parent) /\ i < place[k]
  BY <1>2
<1>4. more[j] = i /\ \A k \in kept : more[k] = place[k]
  BY <1>3
<1>5. more \in [kept \cup {j} -> i..Len(parent)]
  BY <1>3
<1> HIDE DEF more
<1>6. \A k \in kept \cup {j} : parent[more[k]] = child[k]
  BY <1>2, <1>4
<1>7. ASSUME NEW k \in kept \cup {j}, NEW l \in kept \cup {j}, k < l
      PROVE  more[k] < more[l]
  <2>1. l \in kept
    <3>1. ~(j < j)
      OBVIOUS
    <3>2. ASSUME NEW n \in kept PROVE ~(n < j)
      <4>1. n \in Nat /\ j < n
        OBVIOUS
      <4>2. QED
        BY <4>1
    <3>3. QED
      BY <1>7, <3>1, <3>2
  <2>2. QED
    BY <1>2, <1>3, <1>4, <1>7, <2>1
<1>8. Placed(more, kept \cup {j}, i, parent, child)
  BY <1>5, <1>6, <1>7 DEF Placed
<1>9. QED
  BY <1>8 DEF OccursFrom

\* Sets are counted alike in the walk and here.
LEMMA SameCountOfLines ==
  ASSUME NEW S
  PROVE  Walk!Cardinality(S) = Cardinality(S)
BY DEF Walk!Cardinality, Walk!IsFiniteSet, Cardinality, IsFiniteSet

LEMMA LinesFinite ==
  ASSUME NEW n \in Nat, NEW kept, kept \subseteq 1..n
  PROVE  /\ IsFiniteSet(kept) /\ Cardinality(kept) \in Nat
         /\ Cardinality((1..n) \ kept) = n - Cardinality(kept)
<1>1. IsFiniteSet(1..n) /\ Cardinality(1..n) = n
  <2>1. 1 \in Int /\ n \in Int /\ (1 > n => n = 0) /\ n - 1 + 1 = n
    OBVIOUS
  <2>2. IsFiniteSet(1..n) /\ Cardinality(1..n) = IF 1 > n THEN 0 ELSE n - 1 + 1
    BY <2>1, FS_Interval, Zenon
  <2>3. QED
    BY <2>1, <2>2
<1>2. IsFiniteSet(kept)
  BY <1>1, FS_Subset
<1>3. (1..n) \cap kept = kept
  OBVIOUS
<1>4. Cardinality((1..n) \ kept) = Cardinality(1..n) - Cardinality((1..n) \cap kept)
  BY <1>1, FS_Difference
<1>5. QED
  BY <1>1, <1>2, <1>3, <1>4, FS_CardinalityType

\* From two places on, no more lines can be kept than the table says.
LEMMA NoMoreInCommon ==
  ASSUME NEW parent, NEW child, Len(parent) \in Nat, Len(child) \in Nat,
         NEW i0 \in 1..(Len(parent) + 1), NEW j0 \in 1..(Len(child) + 1),
         NEW kept0, kept0 \subseteq j0..Len(child), OccursFrom(kept0, i0, parent, child)
  PROVE  Cardinality(kept0) <= Walk!Lengths(parent, child)[<<i0, j0>>]
<1> DEFINE S == Walk!Places(parent, child)
           D == Distance(parent, child)
           L == Walk!Lengths(parent, child)
           m == Len(parent)
           n == Len(child)
           Most(i, j) == \A kept : kept \subseteq j..n /\ OccursFrom(kept, i, parent, child) =>
                                     Cardinality(kept) <= L[<<i, j>>]
           T == {at \in S : Most(at[1], at[2])}
<1>1. L \in [S -> Nat] /\ \A at \in S : L[at] = LengthAt(parent, child, L, at)
  BY LengthsDefined
<1>2. D \in [S -> Nat]
  BY DistanceBounded
<1>3. ASSUME NEW at \in S, \A y \in S : D[y] < D[at] => y \in T
      PROVE  at \in T
  <2>1. PICK i \in 1..(m + 1), j \in 1..(n + 1) : at = <<i, j>> /\ at[1] = i /\ at[2] = j
    BY PlaceFields
  <2>2. /\ L[<<i, j>>] \in Nat
        /\ L[<<i, j>>] = IF i > m \/ j > n THEN 0
                         ELSE IF parent[i] = child[j] THEN 1 + L[<<i + 1, j + 1>>]
                         ELSE Walk!Larger(L[<<i + 1, j>>], L[<<i, j + 1>>])
    BY <1>1, <2>1 DEF LengthAt
  <2>3. ~(i > m) /\ ~(j > n) =>
          /\ Most(i + 1, j) /\ Most(i, j + 1) /\ Most(i + 1, j + 1)
          /\ L[<<i + 1, j>>] \in Nat /\ L[<<i, j + 1>>] \in Nat /\ L[<<i + 1, j + 1>>] \in Nat
    <3>1. ~(i > m) /\ ~(j > n) =>
            /\ <<i + 1, j>> \in S /\ <<i, j + 1>> \in S /\ <<i + 1, j + 1>> \in S
            /\ D[<<i + 1, j>>] < D[at] /\ D[<<i, j + 1>>] < D[at] /\ D[<<i + 1, j + 1>>] < D[at]
      BY <2>1, NextPlaces
    <3>2. \A a, b : <<a, b>> \in T => Most(a, b)
      <4> HIDE DEF Most
      <4>1. \A a, b : <<a, b>>[1] = a /\ <<a, b>>[2] = b
        OBVIOUS
      <4>2. QED
        BY <4>1
    <3> HIDE DEF S, D, T, Most, L
    <3>3. QED
      BY <1>1, <1>3, <3>1, <3>2
  <2> HIDE DEF L
  <2>4. ASSUME NEW kept, kept \subseteq j..n, OccursFrom(kept, i, parent, child)
        PROVE  Cardinality(kept) <= L[<<i, j>>]
    <3>1. kept \subseteq 1..n /\ kept \subseteq Nat
      BY <2>4
    <3>2. IsFiniteSet(kept) /\ Cardinality(kept) \in Nat
      BY <3>1, LinesFinite
    <3>3. CASE kept = {}
      BY <2>2, <3>3, FS_EmptySet
    <3>4. CASE kept # {}
      <4>1. PICK x \in kept : \A k \in kept : x <= k
        BY <3>1, <3>4, LeastNatural
      <4>2. PICK p \in i..m : /\ parent[p] = child[x]
                              /\ OccursFrom(kept \ {x}, p + 1, parent, child)
        <5>1. i \in Nat /\ j \in Nat
          OBVIOUS
        <5> HIDE DEF Most, T, S, D
        <5>2. QED
          BY <2>4, <3>1, <4>1, <5>1, OccursTail
      <4> DEFINE rest == kept \ {x}
      <4>3. Cardinality(rest) = Cardinality(kept) - 1
        BY <3>2, FS_RemoveElement
      <4>4. /\ ~(i > m) /\ ~(j > n) /\ x \in j..n /\ p \in i..m /\ p + 1 \in Nat
            /\ i + 1 <= p + 1 /\ i + 1 \in Nat
        BY <2>4, <4>1, <4>2
      <4>5. rest \subseteq (j + 1)..n
        <5> SUFFICES ASSUME NEW k \in rest PROVE k \in (j + 1)..n
          OBVIOUS
        <5>1. k \in j..n /\ x <= k /\ x # k
          BY <2>4, <4>1
        <5>2. QED
          BY <4>4, <5>1
      <4>6. OccursFrom(rest, i + 1, parent, child)
        BY <4>2, <4>4, OccursLess
      <4>7. CASE parent[i] = child[j]
        <5>1. Cardinality(rest) <= L[<<i + 1, j + 1>>]
          BY <2>3, <4>4, <4>5, <4>6
        <5>2. L[<<i, j>>] = 1 + L[<<i + 1, j + 1>>] /\ L[<<i + 1, j + 1>>] \in Nat
          BY <2>2, <2>3, <4>4, <4>7
        <5> HIDE DEF rest
        <5>3. QED
          BY <3>2, <4>3, <5>1, <5>2
      <4>8. CASE parent[i] # child[j]
        <5>1. /\ L[<<i, j>>] = Walk!Larger(L[<<i + 1, j>>], L[<<i, j + 1>>])
              /\ L[<<i + 1, j>>] \in Nat /\ L[<<i, j + 1>>] \in Nat
          BY <2>2, <2>3, <4>4, <4>8
        <5>2. L[<<i + 1, j>>] <= L[<<i, j>>] /\ L[<<i, j + 1>>] <= L[<<i, j>>]
          BY <5>1 DEF Walk!Larger
        <5>3. L[<<i, j>>] \in Nat
          BY <2>2
        <5>4. CASE x = j
          <6>1. p # i
            BY <4>2, <4>8, <5>4
          <6>2. OccursFrom(kept, i + 1, parent, child)
            <7>1. p \in Nat /\ i + 1 <= p /\ p <= m /\ x \in Nat
              BY <4>4, <6>1
            <7>2. \A k \in rest : x < k
              <8> SUFFICES ASSUME NEW k \in rest PROVE x < k
                OBVIOUS
              <8>1. k \in Nat /\ x <= k /\ x # k
                BY <3>1, <4>1
              <8>2. QED
                BY <7>1, <8>1
            <7>3. rest \subseteq Nat /\ rest \cup {x} = kept
              BY <3>1, <4>1
            <7>4. OccursFrom(rest \cup {x}, p, parent, child)
              BY <4>2, <7>1, <7>2, <7>3, OccursHead
            <7>5. QED
              BY <4>4, <7>1, <7>3, <7>4, OccursLess
          <6>3. Cardinality(kept) <= L[<<i + 1, j>>]
            BY <2>3, <2>4, <4>4, <6>2
          <6>4. QED
            BY <3>2, <5>1, <5>2, <5>3, <6>3
        <5>5. CASE x # j
          <6>1. kept \subseteq (j + 1)..n
            <7> SUFFICES ASSUME NEW k \in kept PROVE k \in (j + 1)..n
              OBVIOUS
            <7>1. k \in j..n /\ x <= k
              BY <2>4, <4>1
            <7>2. QED
              BY <4>4, <5>5, <7>1
          <6>2. Cardinality(kept) <= L[<<i, j + 1>>]
            BY <2>3, <2>4, <4>4, <6>1
          <6>3. QED
            BY <3>2, <5>1, <5>2, <5>3, <6>2
        <5>6. QED
          BY <5>4, <5>5
      <4>9. QED
        BY <4>7, <4>8
    <3>5. QED
      BY <3>3, <3>4
  <2>5. Most(at[1], at[2])
    BY <2>1, <2>4
  <2> HIDE DEF Most
  <2>6. QED
    BY <2>5
<1>4. <<i0, j0>> \in S /\ <<i0, j0>>[1] = i0 /\ <<i0, j0>>[2] = j0
  BY PlaceMade
<1>5. <<i0, j0>> \in T
  <2> HIDE DEF S, D, T
  <2>1. Hereditary(S, D, T)
    BY <1>3 DEF Hereditary
  <2>2. QED
    BY <1>2, <1>4, <2>1, InductionByHeight
<1>6. Most(i0, j0)
  <2> HIDE DEF Most
  <2>1. QED
    BY <1>4, <1>5
<1>7. QED
  BY <1>6

\* The lines that are not changed from two places on are in both texts, as many as the table
\* says.
Unchanged(parent, child, R, i, j) == (j..Len(child)) \ R[<<i, j>>]
WellKept(parent, child, R, i, j) ==
  /\ R[<<i, j>>] \subseteq j..Len(child)
  /\ OccursFrom(Unchanged(parent, child, R, i, j), i, parent, child)
  /\ Cardinality(Unchanged(parent, child, R, i, j)) = Walk!Lengths(parent, child)[<<i, j>>]

\* One place, given what is kept from the next ones.
LEMMA KeptFromHere ==
  ASSUME NEW parent, NEW child, Len(parent) \in Nat, Len(child) \in Nat,
         NEW i \in 1..(Len(parent) + 1), NEW j \in 1..(Len(child) + 1), NEW R, NEW L,
         L = Walk!Lengths(parent, child), L[<<i, j>>] \in Nat,
         L[<<i, j>>] = IF i > Len(parent) \/ j > Len(child) THEN 0
                       ELSE IF parent[i] = child[j] THEN 1 + L[<<i + 1, j + 1>>]
                       ELSE Walk!Larger(L[<<i + 1, j>>], L[<<i, j + 1>>]),
         R[<<i, j>>] = IF j > Len(child) THEN {}
                       ELSE IF i > Len(parent) THEN {j} \cup R[<<i, j + 1>>]
                       ELSE IF parent[i] = child[j] THEN R[<<i + 1, j + 1>>]
                       ELSE IF L[<<i + 1, j>>] >= L[<<i, j + 1>>] THEN R[<<i + 1, j>>]
                       ELSE {j} \cup R[<<i, j + 1>>],
         ~(j > Len(child)) =>
           /\ WellKept(parent, child, R, i, j + 1)
           /\ L[<<i, j + 1>>] \in Nat
           /\ i > Len(parent) => L[<<i, j + 1>>] = 0,
         ~(i > Len(parent)) /\ ~(j > Len(child)) =>
           /\ WellKept(parent, child, R, i + 1, j) /\ WellKept(parent, child, R, i + 1, j + 1)
           /\ L[<<i + 1, j>>] \in Nat /\ L[<<i + 1, j + 1>>] \in Nat
  PROVE  WellKept(parent, child, R, i, j)
<1> DEFINE m == Len(parent)
           n == Len(child)
           here == Unchanged(parent, child, R, i, j)
<1>1. i \in Nat /\ j \in Nat /\ m \in Nat /\ n \in Nat /\ 1 <= i /\ 1 <= j
  OBVIOUS
<1>2. CASE j > n
  <2>1. R[<<i, j>>] = {} /\ L[<<i, j>>] = 0 /\ j..n = {}
    BY <1>1, <1>2
  <2>2. here = {}
    BY <2>1 DEF Unchanged
  <2>3. Placed([k \in {} |-> i], {}, i, parent, child)
    BY DEF Placed
  <2>4. QED
    BY <2>1, <2>2, <2>3, FS_EmptySet DEF WellKept, OccursFrom
<1>3. ASSUME ~(j > n), R[<<i, j>>] = {j} \cup R[<<i, j + 1>>], L[<<i, j>>] = L[<<i, j + 1>>]
      PROVE  WellKept(parent, child, R, i, j)
  <2>1. j..n = {j} \cup ((j + 1)..n) /\ j \notin (j + 1)..n
    BY <1>1, <1>3
  <2>2. /\ R[<<i, j + 1>>] \subseteq (j + 1)..n
        /\ OccursFrom(Unchanged(parent, child, R, i, j + 1), i, parent, child)
        /\ Cardinality(Unchanged(parent, child, R, i, j + 1)) = L[<<i, j + 1>>]
    BY <1>3 DEF WellKept
  <2>3. here = Unchanged(parent, child, R, i, j + 1)
    BY <1>3, <2>1, <2>2 DEF Unchanged
  <2>4. R[<<i, j>>] \subseteq j..n
    BY <1>3, <2>1, <2>2
  <2>5. QED
    BY <1>3, <2>2, <2>3, <2>4 DEF WellKept
<1>4. CASE ~(j > n) /\ i > m
  BY <1>3, <1>4
<1>5. CASE ~(j > n) /\ ~(i > m) /\ parent[i] = child[j]
  <2> DEFINE next == Unchanged(parent, child, R, i + 1, j + 1)
  <2>1. j..n = {j} \cup ((j + 1)..n) /\ j \notin (j + 1)..n
    BY <1>1, <1>5
  <2>2. /\ R[<<i + 1, j + 1>>] \subseteq (j + 1)..n /\ OccursFrom(next, i + 1, parent, child)
        /\ Cardinality(next) = L[<<i + 1, j + 1>>]
    BY <1>5 DEF WellKept
  <2>3. /\ R[<<i, j>>] = R[<<i + 1, j + 1>>] /\ L[<<i, j>>] = 1 + L[<<i + 1, j + 1>>]
        /\ L[<<i + 1, j + 1>>] \in Nat
    BY <1>5
  <2>4. here = next \cup {j} /\ j \notin next
    BY <2>1, <2>2, <2>3 DEF Unchanged
  <2>5. next \subseteq (j + 1)..n
    BY DEF Unchanged
  <2>6. next \subseteq 1..n /\ next \subseteq Nat /\ \A k \in next : j < k
    BY <1>1, <2>5
  <2>7. IsFiniteSet(next)
    BY <1>1, <2>6, LinesFinite
  <2>8. Cardinality(here) = Cardinality(next) + 1
    BY <2>4, <2>7, FS_AddElement
  <2> HIDE DEF next
  <2>9. OccursFrom(here, i, parent, child)
    <3>1. i <= Len(parent) /\ parent[i] = child[j]
      BY <1>1, <1>5
    <3>2. OccursFrom(next \cup {j}, i, parent, child)
      BY <1>1, <2>2, <2>6, <3>1, OccursHead
    <3>3. QED
      BY <2>4, <3>2
  <2>10. R[<<i, j>>] \subseteq j..n
    BY <2>1, <2>2, <2>3
  <2>11. Cardinality(here) = L[<<i, j>>]
    BY <2>2, <2>3, <2>8
  <2>12. QED
    BY <2>9, <2>10, <2>11 DEF WellKept
<1>6. CASE ~(j > n) /\ ~(i > m) /\ parent[i] # child[j]
  <2>1. L[<<i, j>>] = Walk!Larger(L[<<i + 1, j>>], L[<<i, j + 1>>])
    BY <1>6
  <2>2. CASE L[<<i + 1, j>>] >= L[<<i, j + 1>>]
    <3>1. R[<<i, j>>] = R[<<i + 1, j>>]
      BY <1>6, <2>2
    <3>2. L[<<i, j>>] = L[<<i + 1, j>>]
      BY <1>6, <2>1, <2>2 DEF Walk!Larger
    <3>3. here = Unchanged(parent, child, R, i + 1, j)
      BY <3>1 DEF Unchanged
    <3>4. /\ R[<<i + 1, j>>] \subseteq j..n /\ OccursFrom(here, i + 1, parent, child)
          /\ Cardinality(here) = L[<<i + 1, j>>]
      BY <1>6, <3>3 DEF WellKept
    <3> HIDE DEF here
    <3>5. OccursFrom(here, i, parent, child)
      <4>1. i + 1 \in Nat /\ i <= i + 1 /\ here \subseteq here
        BY <1>1
      <4>2. QED
        BY <1>1, <3>4, <4>1, OccursLess
    <3>6. QED
      BY <3>1, <3>2, <3>4, <3>5 DEF WellKept, here
  <2>3. CASE ~(L[<<i + 1, j>>] >= L[<<i, j + 1>>])
    <3>1. R[<<i, j>>] = {j} \cup R[<<i, j + 1>>]
      BY <1>6, <2>3
    <3>2. L[<<i, j>>] = L[<<i, j + 1>>]
      BY <1>6, <2>1, <2>3 DEF Walk!Larger
    <3>3. QED
      BY <1>3, <1>6, <3>1, <3>2
  <2>4. QED
    BY <2>2, <2>3
<1>7. QED
  BY <1>2, <1>4, <1>5, <1>6

LEMMA UnchangedAreKept ==
  ASSUME NEW parent, NEW child, Len(parent) \in Nat, Len(child) \in Nat,
         NEW R \in [Walk!Places(parent, child) -> SUBSET (1..Len(child))],
         \A at \in Walk!Places(parent, child) : R[at] = ChangedAt(parent, child, R, at)
  PROVE  WellKept(parent, child, R, 1, 1)
<1> DEFINE S == Walk!Places(parent, child)
           D == Distance(parent, child)
           L == Walk!Lengths(parent, child)
           m == Len(parent)
           n == Len(child)
           T == {at \in S : WellKept(parent, child, R, at[1], at[2])}
<1>1. L \in [S -> Nat] /\ \A at \in S : L[at] = LengthAt(parent, child, L, at)
  BY LengthsDefined
<1>2. D \in [S -> Nat]
  BY DistanceBounded
<1>3. \A a, b : <<a, b>>[1] = a /\ <<a, b>>[2] = b
  OBVIOUS
<1>4. \A a, b : <<a, b>> \in T => WellKept(parent, child, R, a, b)
  BY <1>3
<1>5. ASSUME NEW at \in S, \A y \in S : D[y] < D[at] => y \in T
      PROVE  at \in T
  <2>1. PICK i \in 1..(m + 1), j \in 1..(n + 1) : at = <<i, j>> /\ at[1] = i /\ at[2] = j
    BY PlaceFields
  <2>2. /\ L[<<i, j>>] \in Nat
        /\ L[<<i, j>>] = IF i > m \/ j > n THEN 0
                         ELSE IF parent[i] = child[j] THEN 1 + L[<<i + 1, j + 1>>]
                         ELSE Walk!Larger(L[<<i + 1, j>>], L[<<i, j + 1>>])
    BY <1>1, <2>1 DEF LengthAt
  <2>3. R[<<i, j>>] = IF j > n THEN {}
                      ELSE IF i > m THEN {j} \cup R[<<i, j + 1>>]
                      ELSE IF parent[i] = child[j] THEN R[<<i + 1, j + 1>>]
                      ELSE IF L[<<i + 1, j>>] >= L[<<i, j + 1>>] THEN R[<<i + 1, j>>]
                      ELSE {j} \cup R[<<i, j + 1>>]
    BY <2>1 DEF ChangedAt
  <2>4. /\ ~(j > n) => <<i, j + 1>> \in S /\ D[<<i, j + 1>>] < D[at]
        /\ ~(i > m) /\ ~(j > n) =>
             /\ <<i + 1, j>> \in S /\ <<i + 1, j + 1>> \in S
             /\ D[<<i + 1, j>>] < D[at] /\ D[<<i + 1, j + 1>>] < D[at]
    BY <2>1, NextPlaces
  <2> HIDE DEF S, D, T
  <2>5. ~(j > n) =>
           /\ WellKept(parent, child, R, i, j + 1)
           /\ L[<<i, j + 1>>] \in Nat
    BY <1>1, <1>4, <1>5, <2>4
  <2>6. ~(j > n) /\ i > m => L[<<i, j + 1>>] = 0
    <3>1. ~(j > n) => L[<<i, j + 1>>] = LengthAt(parent, child, L, <<i, j + 1>>)
      BY <1>1, <2>4
    <3>2. QED
      BY <1>3, <3>1 DEF LengthAt
  <2>7. ~(i > m) /\ ~(j > n) =>
           /\ WellKept(parent, child, R, i + 1, j) /\ WellKept(parent, child, R, i + 1, j + 1)
           /\ L[<<i + 1, j>>] \in Nat /\ L[<<i + 1, j + 1>>] \in Nat
    BY <1>1, <1>4, <1>5, <2>4
  <2>8. WellKept(parent, child, R, i, j)
    BY <2>2, <2>3, <2>5, <2>6, <2>7, KeptFromHere
  <2>9. QED
    BY <2>1, <2>8 DEF T
<1>6. <<1, 1>> \in S
  BY PlaceMade
<1>7. <<1, 1>> \in T
  <2> HIDE DEF S, D, T
  <2>1. Hereditary(S, D, T)
    BY <1>5 DEF Hereditary
  <2>2. QED
    BY <1>2, <1>6, <2>1, InductionByHeight
<1>8. QED
  BY <1>4, <1>7

\* What is reported as changed is the least that could be.
LEMMA ChangesAreLeast ==
  ASSUME NEW lines, NEW parent \in Seq(lines), NEW child \in Seq(lines)
  PROVE  Walk!ChangesLeast(parent, child)
<1>1. /\ Len(parent) \in Nat /\ DOMAIN parent = 1..Len(parent)
      /\ Len(child) \in Nat /\ DOMAIN child = 1..Len(child)
  OBVIOUS
<1>2. PICK R \in [Walk!Places(parent, child) -> SUBSET (1..Len(child))] :
        /\ Walk!ChangedChildIndexes(parent, child) = R[<<1, 1>>]
        /\ \A at \in Walk!Places(parent, child) : R[at] = ChangedAt(parent, child, R, at)
  BY <1>1, ChangedDefined
<1> DEFINE changed == Walk!ChangedChildIndexes(parent, child)
           n == Len(child)
<1>3. WellKept(parent, child, R, 1, 1)
  BY <1>1, <1>2, UnchangedAreKept
<1>4. /\ changed \subseteq 1..n /\ OccursFrom((1..n) \ changed, 1, parent, child)
      /\ Cardinality((1..n) \ changed) = Walk!Lengths(parent, child)[<<1, 1>>]
  BY <1>2, <1>3 DEF WellKept, Unchanged
<1> HIDE DEF changed
<1>5. \A kept : Walk!OccursIn(kept, parent, child) <=> OccursFrom(kept, 1, parent, child)
  <2>1. \A kept : Walk!OccursIn(kept, parent, child) <=>
                    \E place \in [kept -> 1..Len(parent)] : Placed(place, kept, 1, parent, child)
    BY <1>1 DEF Walk!OccursIn, Placed
  <2>2. QED
    BY <2>1 DEF OccursFrom, Placed
<1>6. ASSUME NEW kept \in SUBSET (1..n), OccursFrom(kept, 1, parent, child)
      PROVE  Walk!Cardinality(kept) <= n - Walk!Cardinality(changed)
  <2>1. 1 \in 1..(Len(parent) + 1) /\ 1 \in 1..(Len(child) + 1)
    BY <1>1
  <2>2. Cardinality(kept) <= Walk!Lengths(parent, child)[<<1, 1>>]
    BY <1>1, <1>6, <2>1, NoMoreInCommon
  <2>3. Cardinality((1..n) \ changed) = n - Cardinality(changed)
    BY <1>1, <1>4, LinesFinite
  <2>4. QED
    BY <1>4, <2>2, <2>3, SameCountOfLines
<1>7. QED
  BY <1>1, <1>4, <1>5, <1>6 DEF Walk!ChangesLeast, changed

-----------------------------------------------------------------------------
(* The files of a tree.                                                    *)

FileRecords == [path : Seq(STRING), id : DOMAIN repository.blobs]

HeldBy(g, id) ==
  UNION {Walk!OfEntry(entry, g) : entry \in Walk!Range(repository.trees[id])}

LEMMA RepositoryShape ==
  ASSUME repository \in Repositories
  PROVE  /\ IsFiniteSet(DOMAIN repository.trees)
         /\ \A id \in DOMAIN repository.trees :
              /\ repository.trees[id] \in Seq(Walk!Range(repository.trees[id]))
              /\ \A entry \in Walk!Range(repository.trees[id]) :
                   /\ entry.name \in STRING
                   /\ entry.type = "tree" => entry.id \in DOMAIN repository.trees
                   /\ entry.type = "blob" => entry.id \in DOMAIN repository.blobs
         /\ \A s \in Walk!Sides : repository.root[s] \in DOMAIN repository.trees
         /\ \A id \in DOMAIN repository.blobs : repository.blobs[id].text \in Seq(STRING)
         /\ Walk!WithoutCycles(repository)
<1>1. Walk!Closed(repository) /\ Walk!WithoutCycles(repository)
  BY WorkAssumption DEF Walk!SourceWalkAssumption
<1>2. IsFiniteSet(DOMAIN repository.trees)
  BY <1>1 DEF Walk!Closed, Walk!IsFiniteSet, IsFiniteSet
<1>3. \A s \in Walk!Sides : repository.root[s] \in DOMAIN repository.trees
  BY <1>1 DEF Walk!Closed, Walk!Sides
<1>4. QED
  BY <1>1, <1>2, <1>3 DEF Walk!Closed

LEMMA EntryTyped ==
  ASSUME repository \in Repositories, NEW g \in [DOMAIN repository.trees -> SUBSET FileRecords],
         NEW id \in DOMAIN repository.trees, NEW entry \in Walk!Range(repository.trees[id])
  PROVE  Walk!OfEntry(entry, g) \subseteq FileRecords
<1>1. /\ entry.name \in STRING
      /\ entry.type = "tree" => entry.id \in DOMAIN repository.trees
      /\ entry.type = "blob" => entry.id \in DOMAIN repository.blobs
  BY RepositoryShape
<1>2. \A path \in Seq(STRING) : <<entry.name>> \o path \in Seq(STRING)
  BY <1>1
<1>3. <<entry.name>> \in Seq(STRING)
  BY <1>1
<1>4. CASE entry.type = "blob"
  <2>1. Walk!OfEntry(entry, g) = {[path |-> <<entry.name>>, id |-> entry.id]}
    BY <1>4 DEF Walk!OfEntry
  <2>2. QED
    BY <1>1, <1>3, <1>4, <2>1 DEF FileRecords
<1>5. CASE entry.type = "tree"
  <2>1. Walk!OfEntry(entry, g) =
          {[path |-> <<entry.name>> \o file.path, id |-> file.id] : file \in g[entry.id]}
    BY <1>5 DEF Walk!OfEntry
  <2>2. g[entry.id] \subseteq FileRecords
    BY <1>1, <1>5
  <2>3. ASSUME NEW file \in g[entry.id]
        PROVE  [path |-> <<entry.name>> \o file.path, id |-> file.id] \in FileRecords
    <3>1. file.path \in Seq(STRING) /\ file.id \in DOMAIN repository.blobs
      BY <2>2 DEF FileRecords
    <3>2. <<entry.name>> \o file.path \in Seq(STRING)
      BY <1>2, <3>1
    <3>3. QED
      BY <3>1, <3>2 DEF FileRecords
  <2>4. QED
    BY <2>1, <2>3
<1>6. CASE entry.type \notin {"blob", "tree"}
  BY <1>6 DEF Walk!OfEntry
<1>7. QED
  BY <1>4, <1>5, <1>6

LEMMA FilesDefined ==
  ASSUME repository \in Repositories
  PROVE  /\ Walk!Files \in [DOMAIN repository.trees -> SUBSET FileRecords]
         /\ \A id \in DOMAIN repository.trees : Walk!Files[id] = HeldBy(Walk!Files, id)
<1> DEFINE S == DOMAIN repository.trees
           V == SUBSET FileRecords
           N == Cardinality(S) + 1
           F == [g \in [S -> V] |-> [id \in S |-> HeldBy(g, id)]]
           L == Walk!Files
<1>1. PICK height \in [S -> 0..Walk!Cardinality(S)] :
        \A id \in S : \A entry \in Walk!Range(repository.trees[id]) :
          entry.type = "tree" => height[entry.id] < height[id]
  BY RepositoryShape DEF Walk!WithoutCycles
<1>2. height \in [S -> Nat] /\ N \in Nat /\ \A x \in S : height[x] < N
  <2>1. Cardinality(S) \in Nat /\ Walk!Cardinality(S) = Cardinality(S)
    BY RepositoryShape, FS_CardinalityType, SameCountOfLines
  <2>2. \A x \in S : height[x] \in Nat /\ height[x] <= Cardinality(S)
    BY <2>1
  <2> HIDE DEF S
  <2>3. height \in [S -> Nat]
    BY <2>2
  <2>4. QED
    BY <2>1, <2>2, <2>3
<1>3. ASSUME NEW g \in [S -> V], NEW id \in S, NEW entry \in Walk!Range(repository.trees[id])
      PROVE  Walk!OfEntry(entry, g) \in V
  BY EntryTyped
<1>4. ASSUME NEW g \in [S -> V], NEW id \in S PROVE HeldBy(g, id) \in V
  <2> HIDE DEF S
  <2>1. QED
    BY <1>3 DEF HeldBy
<1>5. F \in [[S -> V] -> [S -> V]]
  <2> HIDE DEF S, V
  <2>1. QED
    BY <1>4
<1>6. ASSUME NEW g, NEW h, NEW x \in S, \A y \in S : height[y] < height[x] => g[y] = h[y]
      PROVE  HeldBy(g, x) = HeldBy(h, x)
  <2>1. ASSUME NEW entry \in Walk!Range(repository.trees[x])
        PROVE  Walk!OfEntry(entry, g) = Walk!OfEntry(entry, h)
    <3>1. entry.type = "tree" => entry.id \in S /\ height[entry.id] < height[x]
      BY <1>1, RepositoryShape
    <3>2. entry.type = "tree" => g[entry.id] = h[entry.id]
      BY <1>6, <3>1
    <3>3. QED
      BY <3>2 DEF Walk!OfEntry
  <2>2. QED
    BY <2>1 DEF HeldBy
<1>7. PICK g \in [S -> V] : g = F[g]
  <2>1. \A h, k \in [S -> V], x \in S :
          (\A y \in S : height[y] < height[x] => h[y] = k[y]) => F[h][x] = F[k][x]
    <3> HIDE DEF S, V
    <3>1. QED
      BY <1>6
  <2>2. V # {}
    OBVIOUS
  <2> HIDE DEF F, S, N, V
  <2>3. RestsOnLower(S, V, height, N, F)
    BY <1>2, <1>5, <2>1, <2>2 DEF RestsOnLower
  <2>4. QED
    BY <2>3, FixedPoint
<1>8. L = CHOOSE f : f = [id \in S |-> HeldBy(f, id)]
  BY DEF Walk!Files, HeldBy
<1> HIDE DEF S, V, N, L
<1>9. g = [id \in S |-> HeldBy(g, id)]
  BY <1>7
<1>10. L = [id \in S |-> HeldBy(L, id)]
  BY <1>8, <1>9
<1>11. \A x \in S : L[x] = g[x]
  <2>1. AgreeUpwards(S, height, L, g)
    BY <1>6, <1>9, <1>10 DEF AgreeUpwards
  <2>2. QED
    BY <1>2, <2>1, SameByHeight
<1>12. L \in [S -> V]
  <2>1. L = [id \in S |-> g[id]]
    BY <1>10, <1>11
  <2>2. QED
    BY <2>1
<1>13. \A id \in S : L[id] = HeldBy(L, id)
  BY <1>10
<1>14. QED
  BY <1>12, <1>13 DEF S, V, L

-----------------------------------------------------------------------------
(* The way to the approved subtree.                                        *)

LEMMA ReachesRoot ==
  ASSUME repository \in Repositories, NEW s \in Walk!Sides
  PROVE  \A id : Walk!Reaches(s, 0, id) <=> id = repository.root[s]
<1>1. repository.root[s] \in DOMAIN repository.trees
  BY RepositoryShape
<1>2. \A id : Walk!Reaches(s, 0, id) => id = repository.root[s]
  BY DEF Walk!Reaches
<1>3. Walk!Reaches(s, 0, repository.root[s])
  <2> DEFINE via == [m \in 0..0 |-> repository.root[s]]
  <2>1. via \in [0..0 -> DOMAIN repository.trees] /\ via[0] = repository.root[s]
    BY <1>1
  <2>2. \A m \in 1..0 : Walk!Leads(via[m - 1], Subtree[m], via[m])
    OBVIOUS
  <2> HIDE DEF via
  <2>3. QED
    BY <2>1, <2>2 DEF Walk!Reaches
<1>4. QED
  BY <1>2, <1>3

LEMMA ReachesOn ==
  ASSUME repository \in Repositories, NEW s, NEW n \in Nat, NEW id
  PROVE  Walk!Reaches(s, n + 1, id) <=>
           \E from \in DOMAIN repository.trees :
             Walk!Reaches(s, n, from) /\ Walk!Leads(from, Subtree[n + 1], id)
<1>1. ASSUME Walk!Reaches(s, n + 1, id)
      PROVE  \E from \in DOMAIN repository.trees :
               Walk!Reaches(s, n, from) /\ Walk!Leads(from, Subtree[n + 1], id)
  <2>1. PICK via \in [0..(n + 1) -> DOMAIN repository.trees] :
          /\ via[0] = repository.root[s] /\ via[n + 1] = id
          /\ \A m \in 1..(n + 1) : Walk!Leads(via[m - 1], Subtree[m], via[m])
    BY <1>1 DEF Walk!Reaches
  <2> DEFINE before == [m \in 0..n |-> via[m]]
  <2>2. 0..n \subseteq 0..(n + 1) /\ 1..n \subseteq 1..(n + 1)
        /\ \A m \in 1..n : m - 1 \in 0..n /\ m \in 0..n
    OBVIOUS
  <2>3. 0 \in 0..n /\ n \in 0..n /\ n + 1 \in 1..(n + 1) /\ (n + 1) - 1 = n
    OBVIOUS
  <2>4. before \in [0..n -> DOMAIN repository.trees] /\ before[0] = repository.root[s]
        /\ before[n] = via[n] /\ via[n] \in DOMAIN repository.trees
    BY <2>1, <2>2, <2>3
  <2>5. \A m \in 1..n : Walk!Leads(before[m - 1], Subtree[m], before[m])
    BY <2>1, <2>2
  <2>6. Walk!Leads(via[n], Subtree[n + 1], id)
    BY <2>1, <2>3
  <2> HIDE DEF before
  <2>7. Walk!Reaches(s, n, via[n])
    BY <2>4, <2>5 DEF Walk!Reaches
  <2>8. QED
    BY <2>4, <2>6, <2>7
<1>2. ASSUME NEW from \in DOMAIN repository.trees, Walk!Reaches(s, n, from),
             Walk!Leads(from, Subtree[n + 1], id)
      PROVE  Walk!Reaches(s, n + 1, id)
  <2>1. PICK via \in [0..n -> DOMAIN repository.trees] :
          /\ via[0] = repository.root[s] /\ via[n] = from
          /\ \A m \in 1..n : Walk!Leads(via[m - 1], Subtree[m], via[m])
    BY <1>2 DEF Walk!Reaches
  <2>2. id \in DOMAIN repository.trees
    BY <1>2, RepositoryShape DEF Walk!Leads
  <2> DEFINE longer == [m \in 0..(n + 1) |-> IF m = n + 1 THEN id ELSE via[m]]
  <2>3. \A m \in 0..(n + 1) : m = n + 1 \/ m \in 0..n
    OBVIOUS
  <2>4. longer \in [0..(n + 1) -> DOMAIN repository.trees]
    BY <2>2, <2>3
  <2>5. longer[0] = repository.root[s] /\ longer[n + 1] = id /\ longer[n] = from
    BY <2>1
  <2>6. \A m \in 1..(n + 1) : Walk!Leads(longer[m - 1], Subtree[m], longer[m])
    <3> SUFFICES ASSUME NEW m \in 1..(n + 1)
                 PROVE  Walk!Leads(longer[m - 1], Subtree[m], longer[m])
      OBVIOUS
    <3>1. CASE m = n + 1
      <4>1. m - 1 = n
        BY <3>1
      <4>2. longer[m - 1] = from /\ longer[m] = id
        BY <2>5, <3>1, <4>1
      <4> HIDE DEF longer
      <4>3. QED
        BY <1>2, <3>1, <4>2
    <3>2. CASE m # n + 1
      <4>1. /\ m \in 1..n /\ m \in 0..(n + 1) /\ m - 1 \in 0..(n + 1)
            /\ m - 1 # n + 1
        BY <3>2
      <4>2. longer[m - 1] = via[m - 1] /\ longer[m] = via[m]
        BY <3>2, <4>1
      <4> HIDE DEF longer
      <4>3. QED
        BY <2>1, <4>1, <4>2
    <3>3. QED
      BY <3>1, <3>2
  <2> HIDE DEF longer
  <2>7. QED
    BY <2>4, <2>5, <2>6 DEF Walk!Reaches
<1>3. QED
  BY <1>1, <1>2

\* A walk is at the tree that the names so far lead to, and no other.
AtOnly(s, n, id) == \A other : Walk!Reaches(s, n, other) <=> other = id

LEMMA OneStepDown ==
  ASSUME repository \in Repositories, NEW s \in Walk!Sides, NEW n \in Nat, NEW id,
         AtOnly(s, n, id), id \in DOMAIN repository.trees,
         NEW k \in DOMAIN repository.trees[id],
         repository.trees[id][k].name = Subtree[n + 1],
         repository.trees[id][k].type = "tree",
         \A i, j \in DOMAIN repository.trees[id] :
           repository.trees[id][i].name = repository.trees[id][j].name => i = j
  PROVE  /\ AtOnly(s, n + 1, repository.trees[id][k].id)
         /\ repository.trees[id][k].id \in DOMAIN repository.trees
<1>1. repository.trees[id][k] \in Walk!Range(repository.trees[id])
  BY DEF Walk!Range
<1>2. repository.trees[id][k].id \in DOMAIN repository.trees
  BY <1>1, RepositoryShape
<1>3. \A to : Walk!Leads(id, Subtree[n + 1], to) <=> to = repository.trees[id][k].id
  BY <1>1 DEF Walk!Leads, Walk!Range
<1>4. \A to : Walk!Reaches(s, n + 1, to) <=> Walk!Leads(id, Subtree[n + 1], to)
  BY ReachesOn DEF AtOnly
<1>5. QED
  BY <1>2, <1>3, <1>4 DEF AtOnly

LEMMA ApprovedIs ==
  ASSUME NEW s, NEW id \in DOMAIN repository.trees, AtOnly(s, Len(Subtree), id)
  PROVE  Walk!Approved(s) = id
BY DEF AtOnly, Walk!Approved

-----------------------------------------------------------------------------
(* The stack of a walk.                                                    *)

\* No path below the one is a path below the other.
Parted(S, x, y) == \A u, v \in Seq(S) : x \o u # y \o v

LEMMA PartedSame ==
  ASSUME NEW S, NEW x \in Seq(S), NEW y \in Seq(S), Parted(S, x, y)
  PROVE  Parted(S, y, x) /\ x # y
<1>1. << >> \in Seq(S)
  OBVIOUS
<1>2. QED
  BY <1>1 DEF Parted

LEMMA JoinedInOrder ==
  ASSUME NEW S, NEW s \in Seq(S), NEW t \in Seq(S), NEW u \in Seq(S)
  PROVE  s \o t \in Seq(S) /\ (s \o t) \o u = s \o (t \o u)
<1>1. s \o t \in Seq(S)
  BY ConcatProperties
<1>2. QED
  BY <1>1, ConcatAssociative

LEMMA FirstIsFirst ==
  ASSUME NEW S, NEW x \in Seq(S), NEW u \in Seq(S), NEW v \in Seq(S), NEW m \in S, NEW n \in S,
         Append(x, m) \o u = Append(x, n) \o v
  PROVE  m = n
<1>1. <<m>> \in Seq(S) /\ <<n>> \in Seq(S)
  OBVIOUS
<1>2. Append(x, m) = x \o <<m>> /\ Append(x, n) = x \o <<n>>
  BY AppendIsConcat
<1>3. /\ (x \o <<m>>) \o u = x \o (<<m>> \o u) /\ <<m>> \o u \in Seq(S)
      /\ (x \o <<n>>) \o v = x \o (<<n>> \o v) /\ <<n>> \o v \in Seq(S)
  BY <1>1, JoinedInOrder
<1>4. <<m>> \o u = <<n>> \o v
  BY <1>2, <1>3, ConcatSimplifications
<1>5. ASSUME NEW name \in S, NEW w \in Seq(S) PROVE (<<name>> \o w)[1] = name
  OBVIOUS
<1>6. QED
  BY <1>4, <1>5

LEMMA PartedBelow ==
  ASSUME NEW S, NEW x \in Seq(S), NEW y \in Seq(S), NEW a \in Seq(S), Parted(S, x, y)
  PROVE  Parted(S, x \o a, y)
<1> SUFFICES ASSUME NEW u \in Seq(S), NEW v \in Seq(S) PROVE (x \o a) \o u # y \o v
  BY DEF Parted
<1>1. a \o u \in Seq(S)
  BY ConcatProperties
<1>2. (x \o a) \o u = x \o (a \o u)
  BY ConcatAssociative
<1>3. QED
  BY <1>1, <1>2 DEF Parted

LEMMA PartedNames ==
  ASSUME NEW S, NEW x \in Seq(S), NEW m \in S, NEW n \in S, m # n
  PROVE  Parted(S, Append(x, m), Append(x, n))
BY FirstIsFirst DEF Parted

LEMMA PartedAppended ==
  ASSUME NEW S, NEW x \in Seq(S), NEW y \in Seq(S), NEW m \in S, Parted(S, x, y)
  PROVE  Parted(S, Append(x, m), y) /\ Parted(S, y, Append(x, m))
<1>1. Append(x, m) = x \o <<m>>
  BY AppendIsConcat
<1>2. <<m>> \in Seq(S)
  OBVIOUS
<1>3. Parted(S, Append(x, m), y)
  BY <1>1, <1>2, PartedBelow
<1>4. Append(x, m) \in Seq(S)
  BY AppendProperties
<1>5. QED
  BY <1>3, <1>4, PartedSame

\* What is outstanding, and the files that it stands for.
Items(T, B) ==
  [kind : {"tree"}, path : Seq(STRING), id : T] \cup [kind : {"blob"}, path : Seq(STRING), id : B]
FilesOf(B) == [path : Seq(STRING), id : B]
Spread(g, o) ==
  IF o.kind = "tree" THEN {[path |-> o.path \o file.path, id |-> file.id] : file \in g[o.id]}
  ELSE {[path |-> o.path, id |-> o.id]}

\* The files that were selected and those that are outstanding are the whole, each once.
StackOK(T, B, g, stack, files, whole) ==
  /\ stack \in Seq(Items(T, B)) /\ files \in Seq(FilesOf(B))
  /\ \A i, j \in DOMAIN stack : i # j => Parted(STRING, stack[i].path, stack[j].path)
  /\ \A i \in DOMAIN stack, k \in DOMAIN files : Parted(STRING, stack[i].path, files[k].path)
  /\ \A k, l \in DOMAIN files : files[k].path = files[l].path => k = l
  /\ \A f : f \in whole <=> \/ \E k \in DOMAIN files : f = files[k]
                            \/ \E i \in DOMAIN stack : f \in Spread(g, stack[i])

LEMMA ItemFields ==
  ASSUME NEW T, NEW B, NEW o \in Items(T, B)
  PROVE  /\ o.path \in Seq(STRING) /\ o.kind \in {"tree", "blob"}
         /\ o.kind = "tree" => o.id \in T
         /\ o.kind = "blob" => o.id \in B
BY DEF Items

\* Below the path of another.
Within(o, top) ==
  \A y \in Seq(STRING) :
    Parted(STRING, top.path, y) => Parted(STRING, o.path, y) /\ Parted(STRING, y, o.path)

\* The top of the stack gives way to its children, which follow what was below it.
Children(g, top, kids) ==
  /\ \A i \in DOMAIN kids : Within(kids[i], top)
  /\ \A i, j \in DOMAIN kids : i # j => Parted(STRING, kids[i].path, kids[j].path)
  /\ \A f : f \in Spread(g, top) <=> \E i \in DOMAIN kids : f \in Spread(g, kids[i])

LEMMA FrontFields ==
  ASSUME NEW S, NEW s \in Seq(S), s # << >>
  PROVE  /\ Walk!Front(s) \in Seq(S) /\ Len(s) \in Nat \ {0}
         /\ DOMAIN s = 1..Len(s) /\ Len(Walk!Front(s)) = Len(s) - 1
         /\ DOMAIN Walk!Front(s) = 1..(Len(s) - 1)
         /\ \A i \in DOMAIN Walk!Front(s) :
              i \in DOMAIN s /\ i # Len(s) /\ Walk!Front(s)[i] = s[i]
         /\ \A i \in DOMAIN s : i = Len(s) \/ i \in DOMAIN Walk!Front(s)
         /\ Walk!Last(s) = s[Len(s)] /\ Len(s) \in DOMAIN s /\ Walk!Last(s) \in S
<1> DEFINE n == Len(s)
           t == SubSeq(s, 1, n - 1)
<1>1. n \in Nat \ {0} /\ DOMAIN s = 1..n
  BY EmptySeq, LenProperties
<1>2. \A i \in 1..n : s[i] \in S
  BY ElementOfSeq
<1> HIDE DEF n
<1>3. \A i \in 1..(n - 1) : i \in 1..n /\ i # n
  BY <1>1
<1>4. 1 \in Int /\ n - 1 \in Int /\ \A i \in 1..(n - 1) : s[i] \in S /\ i \in 1..n /\ i # n
  <2>1. 1 \in Int /\ n - 1 \in Int
    BY <1>1
  <2>2. QED
    BY <1>2, <1>3, <2>1
<1>5. /\ t \in Seq(S) /\ Len(t) = IF 1 <= n - 1 THEN (n - 1) - 1 + 1 ELSE 0
      /\ \A i \in 1..((n - 1) - 1 + 1) : t[i] = s[1 + i - 1]
  BY <1>4, SubSeqProperties
<1>6. Len(t) = n - 1
  BY <1>1, <1>5
<1>7. \A i \in 1..(n - 1) : t[i] = s[i]
  BY <1>1, <1>5
<1>8. DOMAIN t = 1..(n - 1)
  BY <1>5, <1>6, LenProperties
<1>9. Walk!Front(s) = t /\ Walk!Last(s) = s[n]
  BY DEF Walk!Front, Walk!Last, n
<1>10. n \in 1..n /\ \A i \in 1..n : i = n \/ i \in 1..(n - 1)
  BY <1>1
<1>11. s[n] \in S
  BY <1>2, <1>10 DEF n
<1> HIDE DEF t
<1>12. QED
  BY <1>1, <1>4, <1>5, <1>6, <1>7, <1>8, <1>9, <1>10, <1>11 DEF n

\* What is in two sequences, one after the other.
LEMMA InJoined ==
  ASSUME NEW S, NEW s \in Seq(S), NEW t \in Seq(S)
  PROVE  /\ s \o t \in Seq(S)
         /\ \A i \in DOMAIN (s \o t) :
              \/ i \in DOMAIN s /\ (s \o t)[i] = s[i]
              \/ i \notin DOMAIN s /\ \E n \in DOMAIN t : i = Len(s) + n /\ (s \o t)[i] = t[n]
         /\ \A i \in DOMAIN s : i \in DOMAIN (s \o t) /\ (s \o t)[i] = s[i]
         /\ \A n \in DOMAIN t : \E i \in DOMAIN (s \o t) : (s \o t)[i] = t[n]
<1>1. /\ s \o t \in Seq(S) /\ Len(s) \in Nat /\ Len(t) \in Nat
      /\ DOMAIN (s \o t) = 1..(Len(s) + Len(t))
      /\ DOMAIN s = 1..Len(s) /\ DOMAIN t = 1..Len(t)
      /\ \A i \in 1..Len(s) : i \in DOMAIN (s \o t) /\ (s \o t)[i] = s[i]
      /\ \A i \in 1..Len(t) :
           Len(s) + i \in DOMAIN (s \o t) /\ (s \o t)[Len(s) + i] = t[i]
  <2>1. s \o t \in Seq(S)
    BY ConcatProperties
  <2>2. QED
    BY <2>1, Joined
<1> DEFINE k == Len(s)
           l == Len(t)
           all == s \o t
<1> HIDE DEF k, l, all
<1>2. ASSUME NEW i \in 1..(k + l)
      PROVE  \/ i \in 1..k
             \/ i \notin 1..k /\ i - k \in 1..l /\ i = k + (i - k)
  BY <1>1 DEF k, l
<1>3. \A i \in DOMAIN all :
        \/ i \in DOMAIN s /\ all[i] = s[i]
        \/ i \notin DOMAIN s /\ \E n \in DOMAIN t : i = k + n /\ all[i] = t[n]
  <2> SUFFICES ASSUME NEW i \in DOMAIN all
               PROVE  \/ i \in DOMAIN s /\ all[i] = s[i]
                      \/ i \notin DOMAIN s /\ \E n \in DOMAIN t : i = k + n /\ all[i] = t[n]
    OBVIOUS
  <2>1. \/ i \in 1..k
        \/ i \notin 1..k /\ i - k \in 1..l /\ i = k + (i - k)
    BY <1>1, <1>2 DEF k, l, all
  <2>2. /\ i \in 1..k => all[i] = s[i]
        /\ i - k \in 1..l => all[k + (i - k)] = t[i - k]
    BY <1>1 DEF k, l, all
  <2>3. DOMAIN s = 1..k /\ DOMAIN t = 1..l
    BY <1>1 DEF k, l
  <2>4. QED
    BY <2>1, <2>2, <2>3
<1>4. QED
  BY <1>1, <1>3 DEF k, l, all

LEMMA StackStart ==
  ASSUME NEW T, NEW B, NEW g, NEW o \in Items(T, B)
  PROVE  StackOK(T, B, g, <<o>>, << >>, Spread(g, o))
<1>1. DOMAIN <<o>> = {1} /\ <<o>>[1] = o /\ <<o>> \in Seq(Items(T, B))
  OBVIOUS
<1>2. DOMAIN << >> = {} /\ << >> \in Seq(FilesOf(B))
  OBVIOUS
<1>3. QED
  BY <1>1, <1>2 DEF StackOK

LEMMA StackEnd ==
  ASSUME NEW T, NEW B, NEW g, NEW files, NEW whole, StackOK(T, B, g, << >>, files, whole)
  PROVE  /\ Walk!Range(files) = whole
         /\ \A c, f \in whole : c.path = f.path => c = f
         /\ whole \subseteq FilesOf(B)
<1>1. DOMAIN << >> = {}
  OBVIOUS
<1>2. \A f : f \in whole <=> \E k \in DOMAIN files : f = files[k]
  BY <1>1 DEF StackOK
<1>3. \A k \in DOMAIN files : files[k] \in FilesOf(B)
  <2>1. files \in Seq(FilesOf(B))
    BY DEF StackOK
  <2>2. QED
    BY <2>1, ElementOfSeq, LenProperties
<1>4. Walk!Range(files) = whole
  BY <1>2 DEF Walk!Range
<1>5. \A k, l \in DOMAIN files : files[k].path = files[l].path => k = l
  BY DEF StackOK
<1>6. QED
  BY <1>2, <1>3, <1>4, <1>5

LEMMA SpreadsBelow ==
  ASSUME NEW T, NEW B, NEW g \in [T -> SUBSET FilesOf(B)], NEW o \in Items(T, B),
         NEW f \in Spread(g, o)
  PROVE  /\ f \in FilesOf(B)
         /\ \E rest \in Seq(STRING) : f.path = o.path \o rest
<1>1. CASE o.kind = "tree"
  <2>1. o.path \in Seq(STRING) /\ o.id \in T
    BY <1>1, ItemFields
  <2>2. PICK file \in g[o.id] : f = [path |-> o.path \o file.path, id |-> file.id]
    BY <1>1 DEF Spread
  <2>3. file \in FilesOf(B)
    BY <2>1, <2>2
  <2>4. file.path \in Seq(STRING) /\ file.id \in B
    BY <2>3 DEF FilesOf
  <2>5. o.path \o file.path \in Seq(STRING)
    BY <2>1, <2>4, ConcatProperties
  <2>6. f.path = o.path \o file.path /\ f \in FilesOf(B)
    BY <2>2, <2>4, <2>5 DEF FilesOf
  <2>7. QED
    BY <2>4, <2>6
<1>2. CASE o.kind # "tree"
  <2>1. o.path \in Seq(STRING) /\ o.id \in B
    BY <1>2, ItemFields
  <2>2. f = [path |-> o.path, id |-> o.id]
    BY <1>2 DEF Spread
  <2>3. o.path \o << >> = o.path /\ << >> \in Seq(STRING)
    BY <2>1, ConcatEmptySeq, EmptySeq
  <2>4. f.path = o.path /\ f \in FilesOf(B)
    BY <2>1, <2>2 DEF FilesOf
  <2>5. QED
    BY <2>3, <2>4
<1>3. QED
  BY <1>1, <1>2

\* The top gives way to its children.
LEMMA TopReplaced ==
  ASSUME NEW T, NEW B, NEW g, NEW stack, NEW files, NEW whole,
         StackOK(T, B, g, stack, files, whole), stack # << >>,
         NEW kids \in Seq(Items(T, B)), Children(g, Walk!Last(stack), kids)
  PROVE  StackOK(T, B, g, Walk!Front(stack) \o kids, files, whole)
<1> DEFINE I == Items(T, B)
           front == Walk!Front(stack)
           top == Walk!Last(stack)
           next == front \o kids
           n == Len(stack)
<1>1. /\ stack \in Seq(I) /\ files \in Seq(FilesOf(B))
      /\ \A i, j \in DOMAIN stack : i # j => Parted(STRING, stack[i].path, stack[j].path)
      /\ \A i \in DOMAIN stack, k \in DOMAIN files : Parted(STRING, stack[i].path, files[k].path)
      /\ \A k, l \in DOMAIN files : files[k].path = files[l].path => k = l
      /\ \A f : f \in whole <=> \/ \E k \in DOMAIN files : f = files[k]
                                \/ \E i \in DOMAIN stack : f \in Spread(g, stack[i])
  BY DEF StackOK
<1>2. /\ front \in Seq(I)
      /\ \A i \in DOMAIN front : i \in DOMAIN stack /\ i # n /\ front[i] = stack[i]
      /\ \A i \in DOMAIN stack : i = n \/ i \in DOMAIN front
      /\ top = stack[n] /\ n \in DOMAIN stack /\ top \in I
  BY <1>1, FrontFields
<1>3. /\ next \in Seq(I)
      /\ \A i \in DOMAIN next :
           \/ i \in DOMAIN front /\ next[i] = front[i]
           \/ /\ i \notin DOMAIN front
              /\ \E m \in DOMAIN kids : i = Len(front) + m /\ next[i] = kids[m]
      /\ \A i \in DOMAIN front : i \in DOMAIN next /\ next[i] = front[i]
      /\ \A m \in DOMAIN kids : \E i \in DOMAIN next : next[i] = kids[m]
  BY <1>2, InJoined
<1>4. top.path \in Seq(STRING)
  BY <1>2, ItemFields
<1>5. /\ \A i \in DOMAIN kids : Within(kids[i], top)
      /\ \A i, j \in DOMAIN kids : i # j => Parted(STRING, kids[i].path, kids[j].path)
      /\ \A f : f \in Spread(g, top) <=> \E i \in DOMAIN kids : f \in Spread(g, kids[i])
  BY DEF Children
<1> HIDE DEF I, front, top, next, n
<1>6. /\ \A i \in DOMAIN stack : stack[i].path \in Seq(STRING)
      /\ \A k \in DOMAIN files : files[k].path \in Seq(STRING)
  <2>1. \A i \in DOMAIN stack : stack[i] \in I
    BY <1>1, ElementOfSeq, LenProperties
  <2>2. \A k \in DOMAIN files : files[k] \in FilesOf(B)
    BY <1>1, ElementOfSeq, LenProperties
  <2>3. QED
    BY <2>1, <2>2, ItemFields DEF I, FilesOf
<1>7. ASSUME NEW m \in DOMAIN kids, NEW y \in Seq(STRING), Parted(STRING, top.path, y)
      PROVE  Parted(STRING, kids[m].path, y) /\ Parted(STRING, y, kids[m].path)
  BY <1>5, <1>7 DEF Within
<1>8. ASSUME NEW i \in DOMAIN next, NEW j \in DOMAIN next, i # j
      PROVE  Parted(STRING, next[i].path, next[j].path)
  <2>1. CASE i \in DOMAIN front /\ j \in DOMAIN front
    BY <1>1, <1>2, <1>3, <1>8, <2>1
  <2>2. CASE i \in DOMAIN front /\ j \notin DOMAIN front
    <3>1. PICK m \in DOMAIN kids : next[j] = kids[m]
      BY <1>3, <2>2
    <3>2. i \in DOMAIN stack /\ i # n /\ next[i] = stack[i]
      BY <1>2, <1>3, <2>2
    <3>3. Parted(STRING, top.path, stack[i].path)
      BY <1>1, <1>2, <3>2
    <3>4. QED
      BY <1>6, <1>7, <3>1, <3>2, <3>3
  <2>3. CASE i \notin DOMAIN front /\ j \in DOMAIN front
    <3>1. PICK m \in DOMAIN kids : next[i] = kids[m]
      BY <1>3, <2>3
    <3>2. j \in DOMAIN stack /\ j # n /\ next[j] = stack[j]
      BY <1>2, <1>3, <2>3
    <3>3. Parted(STRING, top.path, stack[j].path)
      BY <1>1, <1>2, <3>2
    <3>4. QED
      BY <1>6, <1>7, <3>1, <3>2, <3>3
  <2>4. CASE i \notin DOMAIN front /\ j \notin DOMAIN front
    <3>1. PICK k \in DOMAIN kids, l \in DOMAIN kids :
            /\ i = Len(front) + k /\ next[i] = kids[k]
            /\ j = Len(front) + l /\ next[j] = kids[l]
      BY <1>3, <2>4
    <3>2. k # l
      BY <1>8, <3>1
    <3>3. QED
      BY <1>5, <3>1, <3>2
  <2>5. QED
    BY <2>1, <2>2, <2>3, <2>4
<1>9. ASSUME NEW i \in DOMAIN next, NEW k \in DOMAIN files
      PROVE  Parted(STRING, next[i].path, files[k].path)
  <2>1. CASE i \in DOMAIN front
    BY <1>1, <1>2, <1>3, <2>1
  <2>2. CASE i \notin DOMAIN front
    <3>1. PICK m \in DOMAIN kids : next[i] = kids[m]
      BY <1>3, <2>2
    <3>2. Parted(STRING, top.path, files[k].path)
      BY <1>1, <1>2
    <3>3. QED
      BY <1>6, <1>7, <3>1, <3>2
  <2>3. QED
    BY <2>1, <2>2
<1>10. ASSUME NEW f
       PROVE  (\E i \in DOMAIN stack : f \in Spread(g, stack[i]))
                <=> \E i \in DOMAIN next : f \in Spread(g, next[i])
  <2>1. ASSUME NEW i \in DOMAIN stack, f \in Spread(g, stack[i])
        PROVE  \E j \in DOMAIN next : f \in Spread(g, next[j])
    <3>1. CASE i \in DOMAIN front
      BY <1>2, <1>3, <2>1, <3>1
    <3>2. CASE i = n
      <4>1. PICK m \in DOMAIN kids : f \in Spread(g, kids[m])
        BY <1>2, <1>5, <2>1, <3>2
      <4>2. QED
        BY <1>3, <4>1
    <3>3. QED
      BY <1>2, <3>1, <3>2
  <2>2. ASSUME NEW i \in DOMAIN next, f \in Spread(g, next[i])
        PROVE  \E j \in DOMAIN stack : f \in Spread(g, stack[j])
    BY <1>2, <1>3, <1>5, <2>2
  <2>3. QED
    BY <2>1, <2>2
<1>11. /\ next \in Seq(I) /\ files \in Seq(FilesOf(B))
       /\ \A k, l \in DOMAIN files : files[k].path = files[l].path => k = l
       /\ \A f : f \in whole <=> \/ \E k \in DOMAIN files : f = files[k]
                                 \/ \E i \in DOMAIN next : f \in Spread(g, next[i])
  BY <1>1, <1>3, <1>10
<1>12. StackOK(T, B, g, next, files, whole)
  BY <1>8, <1>9, <1>11 DEF StackOK, I
<1>13. QED
  BY <1>12 DEF next, front

\* A file on the top is selected.
LEMMA TopSelected ==
  ASSUME NEW T, NEW B, NEW g, NEW stack, NEW files, NEW whole,
         StackOK(T, B, g, stack, files, whole), stack # << >>,
         Walk!Last(stack).kind = "blob"
  PROVE  StackOK(T, B, g, Walk!Front(stack),
                 Append(files, [path |-> Walk!Last(stack).path, id |-> Walk!Last(stack).id]), whole)
<1> DEFINE I == Items(T, B)
           front == Walk!Front(stack)
           top == Walk!Last(stack)
           file == [path |-> top.path, id |-> top.id]
           more == Append(files, file)
           n == Len(stack)
<1> HIDE DEF file, more
<1>1. /\ stack \in Seq(I) /\ files \in Seq(FilesOf(B))
      /\ \A i, j \in DOMAIN stack : i # j => Parted(STRING, stack[i].path, stack[j].path)
      /\ \A i \in DOMAIN stack, k \in DOMAIN files : Parted(STRING, stack[i].path, files[k].path)
      /\ \A k, l \in DOMAIN files : files[k].path = files[l].path => k = l
      /\ \A f : f \in whole <=> \/ \E k \in DOMAIN files : f = files[k]
                                \/ \E i \in DOMAIN stack : f \in Spread(g, stack[i])
  BY DEF StackOK
<1>2. /\ front \in Seq(I)
      /\ \A i \in DOMAIN front : i \in DOMAIN stack /\ i # n /\ front[i] = stack[i]
      /\ \A i \in DOMAIN stack : i = n \/ i \in DOMAIN front
      /\ top = stack[n] /\ n \in DOMAIN stack /\ top \in I
  <2>1. stack \in Seq(I)
    BY <1>1
  <2> HIDE DEF I
  <2>2. QED
    BY <2>1, FrontFields
<1>3. top.path \in Seq(STRING) /\ top.id \in B
  BY <1>2, ItemFields
<1>4. file \in FilesOf(B) /\ file.path = top.path
  BY <1>3 DEF FilesOf, file
<1>5. Spread(g, top) = {file}
  BY DEF Spread, file
<1>6. /\ more \in Seq(FilesOf(B))
      /\ \A k \in DOMAIN more :
           \/ k \in DOMAIN files /\ more[k] = files[k]
           \/ k \notin DOMAIN files /\ k = Len(files) + 1 /\ more[k] = file
      /\ \A k \in DOMAIN files : k \in DOMAIN more /\ more[k] = files[k]
      /\ \E k \in DOMAIN more : more[k] = file
  <2> USE DEF more
  <2>1. /\ more \in Seq(FilesOf(B)) /\ Len(more) = Len(files) + 1 /\ Len(files) \in Nat
        /\ \A k \in DOMAIN more :
             \/ k \in DOMAIN files /\ more[k] = files[k]
             \/ k = Len(files) + 1 /\ k \notin DOMAIN files /\ more[k] = file
    BY <1>1, <1>4, Appended
  <2>2. /\ \A k \in 1..Len(files) : more[k] = files[k]
        /\ more[Len(files) + 1] = file
    BY <1>1, <1>4, AppendProperties
  <2>3. DOMAIN files = 1..Len(files) /\ DOMAIN more = 1..(Len(files) + 1)
    BY <1>1, <2>1, LenProperties
  <2> HIDE DEF more
  <2>4. Len(files) + 1 \in DOMAIN more /\ \A k \in DOMAIN files : k \in DOMAIN more
    BY <2>1, <2>3
  <2>5. QED
    BY <2>1, <2>2, <2>3, <2>4
<1> HIDE DEF I, front, top, file, more, n
<1>7. /\ \A i \in DOMAIN stack : stack[i].path \in Seq(STRING)
      /\ \A k \in DOMAIN files : files[k].path \in Seq(STRING)
  <2>1. \A i \in DOMAIN stack : stack[i] \in I
    BY <1>1, ElementOfSeq, LenProperties
  <2>2. \A k \in DOMAIN files : files[k] \in FilesOf(B)
    BY <1>1, ElementOfSeq, LenProperties
  <2>3. QED
    BY <2>1, <2>2, ItemFields DEF I, FilesOf
<1>8. \A i, j \in DOMAIN front : i # j => Parted(STRING, front[i].path, front[j].path)
  BY <1>1, <1>2
<1>9. ASSUME NEW i \in DOMAIN front, NEW k \in DOMAIN more
      PROVE  Parted(STRING, front[i].path, more[k].path)
  BY <1>1, <1>2, <1>4, <1>6
<1>10. \A k \in DOMAIN files : files[k].path # file.path
  <2> SUFFICES ASSUME NEW k \in DOMAIN files PROVE files[k].path # file.path
    OBVIOUS
  <2>1. Parted(STRING, top.path, files[k].path)
    BY <1>1, <1>2
  <2>2. QED
    BY <1>3, <1>4, <1>7, <2>1, PartedSame
<1>11. \A k, l \in DOMAIN more : more[k].path = more[l].path => k = l
  BY <1>1, <1>6, <1>10
<1>12. \A f : f \in whole <=> \/ \E k \in DOMAIN more : f = more[k]
                              \/ \E i \in DOMAIN front : f \in Spread(g, front[i])
  <2> SUFFICES ASSUME NEW f
               PROVE  f \in whole <=> \/ \E k \in DOMAIN more : f = more[k]
                                      \/ \E i \in DOMAIN front : f \in Spread(g, front[i])
    OBVIOUS
  <2>1. (\E k \in DOMAIN more : f = more[k]) <=> (\E k \in DOMAIN files : f = files[k]) \/ f = file
    BY <1>6
  <2>2. (\E i \in DOMAIN stack : f \in Spread(g, stack[i]))
          <=> (\E i \in DOMAIN front : f \in Spread(g, front[i])) \/ f = file
    BY <1>2, <1>5
  <2>3. QED
    BY <1>1, <2>1, <2>2
<1>13. StackOK(T, B, g, front, more, whole)
  BY <1>2, <1>6, <1>8, <1>9, <1>11, <1>12 DEF StackOK, I
<1>14. QED
  BY <1>13 DEF front, more, file, top

\* What is selected and what is outstanding have nothing in common.
LEMMA StackMeans ==
  ASSUME NEW T, NEW B, NEW g \in [T -> SUBSET FilesOf(B)], NEW stack, NEW files, NEW whole,
         StackOK(T, B, g, stack, files, whole)
  PROVE  LET outstanding == UNION {Spread(g, o) : o \in Walk!Range(stack)}
         IN /\ Walk!Range(files) \cup outstanding = whole
            /\ Walk!Range(files) \cap outstanding = {}
            /\ Walk!IsInjective(files) /\ Walk!IsInjective(stack)
<1> DEFINE I == Items(T, B)
           outstanding == UNION {Spread(g, o) : o \in Walk!Range(stack)}
<1>1. /\ stack \in Seq(I) /\ files \in Seq(FilesOf(B))
      /\ \A i, j \in DOMAIN stack : i # j => Parted(STRING, stack[i].path, stack[j].path)
      /\ \A i \in DOMAIN stack, k \in DOMAIN files : Parted(STRING, stack[i].path, files[k].path)
      /\ \A k, l \in DOMAIN files : files[k].path = files[l].path => k = l
      /\ \A f : f \in whole <=> \/ \E k \in DOMAIN files : f = files[k]
                                \/ \E i \in DOMAIN stack : f \in Spread(g, stack[i])
  BY DEF StackOK
<1>2. \A i \in DOMAIN stack : stack[i] \in I
  BY <1>1, ElementOfSeq, LenProperties
<1>3. \A k \in DOMAIN files : files[k] \in FilesOf(B)
  BY <1>1, ElementOfSeq, LenProperties
<1>4. /\ \A f : f \in Walk!Range(files) <=> \E k \in DOMAIN files : f = files[k]
      /\ \A f : f \in outstanding <=> \E i \in DOMAIN stack : f \in Spread(g, stack[i])
  BY DEF Walk!Range
<1> HIDE DEF I, outstanding
<1>5. /\ \A i \in DOMAIN stack : stack[i].path \in Seq(STRING)
      /\ \A k \in DOMAIN files : files[k].path \in Seq(STRING)
  BY <1>2, <1>3, ItemFields DEF I, FilesOf
<1>6. Walk!Range(files) \cup outstanding = whole
  BY <1>1, <1>4
<1>7. Walk!Range(files) \cap outstanding = {}
  <2> SUFFICES ASSUME NEW k \in DOMAIN files, NEW i \in DOMAIN stack,
                      files[k] \in Spread(g, stack[i])
               PROVE  FALSE
    BY <1>4
  <2>1. PICK rest \in Seq(STRING) : files[k].path = stack[i].path \o rest
    BY <1>2, SpreadsBelow DEF I
  <2>2. files[k].path \o << >> = files[k].path /\ << >> \in Seq(STRING)
    BY <1>5, ConcatEmptySeq, EmptySeq
  <2>3. Parted(STRING, stack[i].path, files[k].path)
    BY <1>1
  <2>4. QED
    BY <2>1, <2>2, <2>3 DEF Parted
<1>8. Walk!IsInjective(files)
  BY <1>1 DEF Walk!IsInjective
<1>9. Walk!IsInjective(stack)
  <2> SUFFICES ASSUME NEW i \in DOMAIN stack, NEW j \in DOMAIN stack, stack[i] = stack[j], i # j
               PROVE  FALSE
    BY DEF Walk!IsInjective
  <2>1. Parted(STRING, stack[i].path, stack[j].path)
    BY <1>1
  <2>2. QED
    BY <1>5, <2>1, PartedSame
<1>10. QED
  BY <1>6, <1>7, <1>8, <1>9 DEF outstanding

-----------------------------------------------------------------------------
(* The revisions of a draft.                                               *)

\* The files and the stack are the whole of the approved subtree.
Stacked(files, s, stack) ==
  StackOK(DOMAIN repository.trees, DOMAIN repository.blobs, Walk!Files, stack, files,
          Walk!Below(Subtree, Walk!Approved(s)))
AtCursor(s, at) ==
  /\ at.depth \in 1..Len(Subtree) /\ at.id \in DOMAIN repository.trees
  /\ AtOnly(s, at.depth - 1, at.id)
CandidateFits(chosen, children, parents) ==
  \E c \in Walk!Range(children), p \in Walk!Range(parents) :
    /\ chosen.path = c.path /\ chosen.child = c.id /\ chosen.parent = p.id /\ c.path = p.path
    /\ \/ repository.purpose = "LANGUAGE_CANDIDATE" /\ chosen.rules = {}
       \/ c.id # p.id /\ Walk!Cardinality(chosen.rules) = 1

RevisionInv ==
  /\ KeptInv
  /\ repository \in Repositories
  /\ phase = "resolve" => AtCursor(side, cursor) /\ selected[side] = << >>
  /\ phase = "walk" => Stacked(selected[side], side, pending)
  /\ phase \in {"resolve", "walk"} =>
       IF side = "child" THEN selected["parent"] = << >>
       ELSE Stacked(selected["child"], "child", << >>)
  /\ phase \in {"select", "licence", "done"} =>
       \A s \in Walk!Sides : Stacked(selected[s], s, << >>)
  /\ phase \in {"licence", "done"} =>
       CandidateFits(candidate, selected["child"], selected["parent"])

\* What rests on the repository alone stays as it is.
LEMMA SameRepository ==
  ASSUME repository' = repository
  PROVE  /\ \A files, s, stack : Stacked(files, s, stack)' <=> Stacked(files, s, stack)
         /\ \A s, at : AtCursor(s, at)' <=> AtCursor(s, at)
         /\ \A chosen, children, parents :
              CandidateFits(chosen, children, parents)' <=> CandidateFits(chosen, children, parents)
<1>1. Walk!Files' = Walk!Files
  BY DEF Walk!Files
<1>2. \A s, n, id : Walk!Reaches(s, n, id)' <=> Walk!Reaches(s, n, id)
  BY DEF Walk!Reaches, Walk!Leads
<1>3. \A s : Walk!Approved(s)' = Walk!Approved(s)
  BY <1>2 DEF Walk!Approved
<1>4. \A path, id : Walk!Below(path, id)' = Walk!Below(path, id)
  BY <1>1 DEF Walk!Below
<1>5. ASSUME NEW s
      PROVE  Walk!Below(Subtree, Walk!Approved(s))' = Walk!Below(Subtree, Walk!Approved(s))
  BY <1>3, <1>4
<1>6. \A files, s, stack : Stacked(files, s, stack)' <=> Stacked(files, s, stack)
  BY <1>1, <1>5 DEF Stacked
<1>7. \A s, n, id : AtOnly(s, n, id)' <=> AtOnly(s, n, id)
  BY <1>2 DEF AtOnly
<1>8. \A s, at : AtCursor(s, at)' <=> AtCursor(s, at)
  BY <1>7 DEF AtCursor
<1>9. \A chosen, children, parents :
        CandidateFits(chosen, children, parents)' <=> CandidateFits(chosen, children, parents)
  BY DEF CandidateFits
<1>10. QED
  BY <1>6, <1>8, <1>9

LEMMA AtTheRoot ==
  ASSUME repository \in Repositories, NEW s \in Walk!Sides
  PROVE  AtCursor(s, [id |-> repository.root[s], depth |-> 1])
<1>1. AtOnly(s, 0, repository.root[s])
  BY ReachesRoot DEF AtOnly
<1>2. repository.root[s] \in DOMAIN repository.trees
  BY RepositoryShape
<1>3. 1 \in 1..Len(Subtree) /\ 1 - 1 = 0
  <2>1. Subtree \in Seq(STRING) /\ Len(Subtree) > 0
    BY WorkAssumption DEF Walk!SourceWalkAssumption
  <2>2. Len(Subtree) \in Nat
    BY <2>1, LenProperties
  <2>3. QED
    BY <2>1, <2>2
<1>4. QED
  BY <1>1, <1>2, <1>3 DEF AtCursor

\* The order of the children does not matter.
LEMMA ReversedChildren ==
  ASSUME NEW S, NEW kids \in Seq(S), NEW g, NEW top, Children(g, top, kids)
  PROVE  Walk!Reverse(kids) \in Seq(S) /\ Children(g, top, Walk!Reverse(kids))
<1> DEFINE n == Len(kids)
           flip == [i \in 1..n |-> (n - i) + 1]
           back == Walk!Reverse(kids)
<1>1. n \in Nat /\ DOMAIN kids = 1..n /\ \A i \in 1..n : kids[i] \in S
  BY LenProperties, ElementOfSeq
<1>2. back = [i \in 1..n |-> kids[(n - i) + 1]]
  BY DEF Walk!Reverse
<1> HIDE DEF n, back
<1>3. /\ \A i \in 1..n : flip[i] \in 1..n /\ flip[flip[i]] = i
      /\ \A i, j \in 1..n : i # j => flip[i] # flip[j]
  BY <1>1
<1>4. \A i \in 1..n : back[i] = kids[flip[i]]
  BY <1>2, <1>3
<1>5. DOMAIN back = 1..n /\ back \in [1..n -> S]
  <2>1. \A i \in 1..n : (n - i) + 1 \in 1..n
    BY <1>1
  <2>2. \A i \in 1..n : kids[(n - i) + 1] \in S
    BY <1>1, <2>1
  <2>3. QED
    BY <1>2, <2>2
<1>6. back \in Seq(S)
  BY <1>1, <1>5
<1> HIDE DEF flip
<1>7. \A i \in DOMAIN back : Within(back[i], top)
  BY <1>1, <1>3, <1>4, <1>5 DEF Children
<1>8. \A i, j \in DOMAIN back : i # j => Parted(STRING, back[i].path, back[j].path)
  BY <1>1, <1>3, <1>4, <1>5 DEF Children
<1>9. \A f : f \in Spread(g, top) <=> \E i \in DOMAIN back : f \in Spread(g, back[i])
  <2> SUFFICES ASSUME NEW f
               PROVE  (\E i \in DOMAIN kids : f \in Spread(g, kids[i]))
                        <=> \E i \in DOMAIN back : f \in Spread(g, back[i])
    BY DEF Children
  <2>1. ASSUME NEW i \in DOMAIN kids, f \in Spread(g, kids[i])
        PROVE  \E j \in DOMAIN back : f \in Spread(g, back[j])
    <3>1. flip[i] \in DOMAIN back /\ back[flip[i]] = kids[i]
      BY <1>1, <1>3, <1>4, <1>5
    <3>2. QED
      BY <2>1, <3>1
  <2>2. ASSUME NEW i \in DOMAIN back, f \in Spread(g, back[i])
        PROVE  \E j \in DOMAIN kids : f \in Spread(g, kids[j])
    <3>1. flip[i] \in DOMAIN kids /\ back[i] = kids[flip[i]]
      BY <1>1, <1>3, <1>4, <1>5
    <3>2. QED
      BY <2>2, <3>1
  <2>3. QED
    BY <2>1, <2>2
<1>10. QED
  BY <1>6, <1>7, <1>8, <1>9 DEF Children, back

LEMMA NamedBelow ==
  ASSUME NEW S, NEW path \in Seq(S), NEW name \in S
  PROVE  /\ Append(path, name) = path \o <<name>>
         /\ \A q \in Seq(S) : Append(path, name) \o q = path \o (<<name>> \o q)
<1>1. Append(path, name) = path \o <<name>>
  BY AppendIsConcat
<1>2. <<name>> \in Seq(S)
  OBVIOUS
<1>3. QED
  BY <1>1, <1>2, ConcatAssociative

\* An entry on the stack stands for the files that it stands for in its tree.
EntryStands(g, path, entry) ==
  \A f : f \in Spread(g, Walk!Pending(entry.type, Append(path, entry.name), entry.id)) <=>
           \E file \in Walk!OfEntry(entry, g) : f = [path |-> path \o file.path, id |-> file.id]

LEMMA EntrySpreads ==
  ASSUME NEW T, NEW B, NEW g \in [T -> SUBSET FilesOf(B)], NEW path \in Seq(STRING),
         NEW entry, entry.name \in STRING, entry.type \in {"blob", "tree"},
         entry.type = "tree" => entry.id \in T
  PROVE  EntryStands(g, path, entry)
<1> SUFFICES ASSUME NEW f
             PROVE  f \in Spread(g, Walk!Pending(entry.type, Append(path, entry.name), entry.id))
                      <=> \E file \in Walk!OfEntry(entry, g) :
                            f = [path |-> path \o file.path, id |-> file.id]
  BY DEF EntryStands
<1> DEFINE x == entry.id
           name == entry.name
           o == Walk!Pending(entry.type, Append(path, name), x)
           below == Append(path, name)
<1>1. o.kind = entry.type /\ o.path = below /\ o.id = x
  BY DEF Walk!Pending
<1>2. /\ below = path \o <<name>>
      /\ \A q \in Seq(STRING) : below \o q = path \o (<<name>> \o q)
  BY NamedBelow
<1> HIDE DEF o, below, x
<1>3. CASE entry.type = "blob"
  <2>1. Walk!OfEntry(entry, g) = {[path |-> <<name>>, id |-> x]}
    BY <1>3 DEF Walk!OfEntry, x
  <2>2. Spread(g, o) = {[path |-> path \o <<name>>, id |-> x]}
    BY <1>1, <1>2, <1>3 DEF Spread
  <2>3. QED
    BY <2>1, <2>2 DEF o, below, x
<1>4. CASE entry.type = "tree"
  <2>1. x \in T
    BY <1>4 DEF x
  <2>2. g[x] \subseteq FilesOf(B)
    BY <2>1
  <2>3. \A file \in g[x] : file.path \in Seq(STRING)
    BY <2>2 DEF FilesOf
  <2>4. Spread(g, o) = {[path |-> below \o file.path, id |-> file.id] : file \in g[x]}
    BY <1>1, <1>4 DEF Spread
  <2>5. Walk!OfEntry(entry, g) =
          {[path |-> <<name>> \o file.path, id |-> file.id] : file \in g[x]}
    BY <1>4 DEF Walk!OfEntry, x
  <2>6. \A file \in g[x] : below \o file.path = path \o (<<name>> \o file.path)
    BY <1>2, <2>3
  <2>7. f \in Spread(g, o) <=>
          \E file \in g[x] : f = [path |-> path \o (<<name>> \o file.path), id |-> file.id]
    BY <2>4, <2>6
  <2>8. ASSUME NEW file \in g[x], f = [path |-> path \o (<<name>> \o file.path), id |-> file.id]
        PROVE  \E held \in Walk!OfEntry(entry, g) :
                 f = [path |-> path \o held.path, id |-> held.id]
    <3> DEFINE held == [path |-> <<name>> \o file.path, id |-> file.id]
    <3>1. held \in Walk!OfEntry(entry, g)
      BY <2>5
    <3>2. held.path = <<name>> \o file.path /\ held.id = file.id
      OBVIOUS
    <3> HIDE DEF held
    <3>3. QED
      BY <2>8, <3>1, <3>2
  <2>9. ASSUME NEW held \in Walk!OfEntry(entry, g),
               f = [path |-> path \o held.path, id |-> held.id]
        PROVE  \E file \in g[x] : f = [path |-> path \o (<<name>> \o file.path), id |-> file.id]
    <3>1. PICK file \in g[x] : held = [path |-> <<name>> \o file.path, id |-> file.id]
      BY <2>5
    <3>2. held.path = <<name>> \o file.path /\ held.id = file.id
      BY <3>1
    <3>3. QED
      BY <2>9, <3>2
  <2>10. QED
    BY <2>7, <2>8, <2>9 DEF o, below, x
<1>5. QED
  BY <1>3, <1>4

\* The entries of a tree stand for the files that the tree stands for.
ChildrenOf(top, held) ==
  [n \in DOMAIN held |->
     Walk!Pending(held[n].type, Append(top.path, held[n].name), held[n].id)]

LEMMA TreeSpreads ==
  ASSUME repository \in Repositories,
         NEW top \in Items(DOMAIN repository.trees, DOMAIN repository.blobs), top.kind = "tree",
         NEW held, held = repository.trees[top.id],
         \A m, n \in DOMAIN held : held[m].name = held[n].name => m = n,
         \A n \in DOMAIN held : held[n].type \in {"blob", "tree"}
  PROVE  /\ ChildrenOf(top, held) \in Seq(Items(DOMAIN repository.trees, DOMAIN repository.blobs))
         /\ Children(Walk!Files, top, ChildrenOf(top, held))
<1> DEFINE T == DOMAIN repository.trees
           B == DOMAIN repository.blobs
           kids == ChildrenOf(top, held)
           path == top.path
<1>1. top.id \in T /\ path \in Seq(STRING)
  BY ItemFields
<1>2. held \in Seq(Walk!Range(held))
  BY <1>1, RepositoryShape
<1>3. \A n \in DOMAIN held :
        /\ held[n] \in Walk!Range(held) /\ held[n].name \in STRING
        /\ held[n].type = "tree" => held[n].id \in T
        /\ held[n].type = "blob" => held[n].id \in B
  <2>1. \A entry \in Walk!Range(held) :
          /\ entry.name \in STRING
          /\ entry.type = "tree" => entry.id \in T
          /\ entry.type = "blob" => entry.id \in B
    BY <1>1, RepositoryShape
  <2>2. \A n \in DOMAIN held : held[n] \in Walk!Range(held)
    BY DEF Walk!Range
  <2>3. QED
    BY <2>1, <2>2
<1>4. DOMAIN held = 1..Len(held) /\ Len(held) \in Nat
  BY <1>2, LenProperties
<1>5. /\ DOMAIN kids = DOMAIN held
      /\ \A n \in DOMAIN held :
           kids[n].kind = held[n].type /\ kids[n].id = held[n].id
           /\ kids[n].path = Append(path, held[n].name)
  BY DEF ChildrenOf, Walk!Pending
<1>6. \A n \in DOMAIN held : Append(path, held[n].name) \in Seq(STRING)
  BY <1>1, <1>3, AppendProperties
<1>7. \A n \in DOMAIN held : kids[n] \in Items(T, B)
  <2> SUFFICES ASSUME NEW n \in DOMAIN held PROVE kids[n] \in Items(T, B)
    OBVIOUS
  <2>1. kids[n] = [kind |-> held[n].type, path |-> Append(path, held[n].name),
                   id |-> held[n].id]
    BY DEF ChildrenOf, Walk!Pending
  <2>2. held[n].type \in {"blob", "tree"}
    OBVIOUS
  <2>3. QED
    BY <1>3, <1>6, <2>1, <2>2 DEF Items
<1>8. kids \in Seq(Items(T, B))
  <2>1. kids = [n \in 1..Len(held) |-> kids[n]]
    BY <1>4, <1>5 DEF ChildrenOf
  <2> HIDE DEF kids, T, B
  <2>2. kids \in [1..Len(held) -> Items(T, B)]
    BY <1>4, <1>7, <2>1
  <2>3. QED
    BY <1>4, <2>2
<1>9. ASSUME NEW i \in DOMAIN kids PROVE Within(kids[i], top)
  <2>1. held[i].name \in STRING /\ kids[i].path = Append(path, held[i].name)
    BY <1>3, <1>5
  <2> HIDE DEF kids
  <2>2. ASSUME NEW y \in Seq(STRING), Parted(STRING, path, y)
        PROVE  Parted(STRING, kids[i].path, y) /\ Parted(STRING, y, kids[i].path)
    BY <1>1, <2>1, <2>2, PartedAppended
  <2>3. QED
    BY <2>2 DEF Within
<1>10. ASSUME NEW i \in DOMAIN kids, NEW j \in DOMAIN kids, i # j
       PROVE  Parted(STRING, kids[i].path, kids[j].path)
  <2>1. /\ held[i].name \in STRING /\ kids[i].path = Append(path, held[i].name)
        /\ held[j].name \in STRING /\ kids[j].path = Append(path, held[j].name)
    BY <1>3, <1>5
  <2>2. held[i].name # held[j].name
    BY <1>5, <1>10
  <2> HIDE DEF kids
  <2>3. QED
    BY <1>1, <2>1, <2>2, PartedNames
<1>11. ASSUME NEW f
       PROVE  f \in Spread(Walk!Files, top)
                <=> \E i \in DOMAIN kids : f \in Spread(Walk!Files, kids[i])
  <2>1. Spread(Walk!Files, top) =
          {[path |-> path \o file.path, id |-> file.id] : file \in Walk!Files[top.id]}
    BY DEF Spread
  <2>2. \A file : file \in Walk!Files[top.id] <=>
                    \E n \in DOMAIN held : file \in Walk!OfEntry(held[n], Walk!Files)
    <3>1. Walk!Files[top.id] = UNION {Walk!OfEntry(entry, Walk!Files) : entry \in Walk!Range(held)}
      BY <1>1, FilesDefined DEF HeldBy
    <3>2. \A entry : entry \in Walk!Range(held) <=> \E n \in DOMAIN held : entry = held[n]
      BY DEF Walk!Range
    <3>3. QED
      BY <3>1, <3>2
  <2>3. ASSUME NEW n \in DOMAIN held
        PROVE  f \in Spread(Walk!Files, kids[n]) <=>
                 \E file \in Walk!OfEntry(held[n], Walk!Files) :
                   f = [path |-> path \o file.path, id |-> file.id]
    <3>1. /\ held[n].name \in STRING /\ held[n].type \in {"blob", "tree"}
          /\ held[n].type = "tree" => held[n].id \in T
      BY <1>3
    <3>2. Walk!Files \in [T -> SUBSET FilesOf(B)]
      BY FilesDefined DEF FileRecords, FilesOf
    <3>3. kids[n] = Walk!Pending(held[n].type, Append(path, held[n].name), held[n].id)
      BY DEF ChildrenOf
    <3> HIDE DEF kids, path, T, B
    <3>4. path \in Seq(STRING)
      BY <1>1
    <3>5. EntryStands(Walk!Files, path, held[n])
      BY <3>1, <3>2, <3>4, EntrySpreads
    <3>6. QED
      BY <3>3, <3>5 DEF EntryStands
  <2> HIDE DEF kids, path
  <2>4. QED
    BY <1>5, <2>1, <2>2, <2>3
<1>12. QED
  BY <1>8, <1>9, <1>10, <1>11 DEF Children

LEMMA RevisionInit == Walk!Init => RevisionInv
<1> SUFFICES ASSUME Walk!Init PROVE RevisionInv
  OBVIOUS
<1>1. /\ repository \in Repositories /\ phase = "resolve" /\ side = "child"
      /\ cursor = [id |-> repository.root["child"], depth |-> 1]
      /\ selected = [s \in Walk!Sides |-> << >>]
  BY DEF Walk!Init
<1>2. "child" \in Walk!Sides /\ "parent" \in Walk!Sides
  BY DEF Walk!Sides
<1>3. AtCursor(side, cursor)
  BY <1>1, <1>2, AtTheRoot
<1>4. KeptInv
  BY WalkInit
<1>5. QED
  BY <1>1, <1>2, <1>3, <1>4 DEF RevisionInv

\* A run that is rejected, or paused, claims nothing.
LEMMA AtRest ==
  ASSUME RevisionInv, KeptInv', UNCHANGED repository, phase' \in {"rejected", "paused"}
  PROVE  RevisionInv'
BY DEF RevisionInv

LEMMA RejectRevised == ASSUME RevisionInv, KeptInv', Walk!Reject PROVE RevisionInv'
BY AtRest DEF Walk!Reject

\* Where the walk stands still, it claims the same.
LEMMA StandsStill ==
  ASSUME RevisionInv, KeptInv',
         UNCHANGED <<repository, phase, side, cursor, pending, selected, candidate>>
  PROVE  RevisionInv'
BY SameRepository DEF RevisionInv

LEMMA RequestRevised == ASSUME RevisionInv, KeptInv', Walk!Request PROVE RevisionInv'
<1>1. /\ \E object \in Walk!Wanted, reply \in Walk!Replies :
           CASE Walk!Verdict(reply) = "accepted" ->
                  /\ IF object.kind = "tree" THEN Walk!LoadTree(object.id)
                     ELSE Walk!LoadBlob(object.id)
                  /\ UNCHANGED <<phase, pauses>>
             [] Walk!Verdict(reply) = "paused" ->
                  /\ pauses < MaxPauses
                  /\ phase' = "paused" /\ pauses' = pauses + 1
                  /\ UNCHANGED <<trees, blobs>>
             [] OTHER -> phase' = "rejected" /\ UNCHANGED <<pauses, trees, blobs>>
      /\ UNCHANGED <<repository, side, cursor, pending, selected, candidate>>
  BY DEF Walk!Request
<1>2. phase' = phase \/ phase' \in {"paused", "rejected"}
  BY <1>1
<1>3. QED
  BY <1>1, <1>2, AtRest, StandsStill

LEMMA ResolveRevised ==
  ASSUME RevisionInv, KeptInv', Walk!ResolveApprovedSubtree PROVE RevisionInv'
<1>1. CASE Walk!Reject
  BY <1>1, RejectRevised
<1>2. CASE ~Walk!Reject
  <2>1. PICK n \in Walk!Found(cursor.id, Subtree[cursor.depth]) :
          /\ phase = "resolve" /\ Walk!HasWanted /\ Walk!TreeVerified(cursor.id)
          /\ cursor' = [id |-> trees[cursor.id].entries[n].id, depth |-> cursor.depth + 1]
          /\ \/ cursor.depth < Len(Subtree) /\ UNCHANGED <<phase, pending>>
             \/ /\ ~(cursor.depth < Len(Subtree)) /\ phase' = "walk"
                /\ pending' = <<Walk!Pending("tree", Subtree, trees[cursor.id].entries[n].id)>>
          /\ UNCHANGED <<repository, side, selected, candidate>>
    BY <1>2 DEF Walk!ResolveApprovedSubtree
  <2> DEFINE held == repository.trees[cursor.id]
             d == cursor.depth
             id == held[n].id
  <2>2. /\ repository \in Repositories /\ AtCursor(side, cursor) /\ selected[side] = << >>
        /\ side \in Walk!Sides
    BY <2>1 DEF RevisionInv, KeptInv
  <2>3. trees[cursor.id].entries = held
    BY <2>1 DEF Walk!TreeVerified, Walk!TreeIdentity
  <2>4. /\ n \in DOMAIN held /\ held[n].name = Subtree[d] /\ held[n].type = "tree"
        /\ \A i, j \in DOMAIN held : held[i].name = held[j].name => i = j
    BY <2>1, <2>3 DEF Walk!Found, Walk!TreeVerified
  <2>5. /\ d \in 1..Len(Subtree) /\ cursor.id \in DOMAIN repository.trees
        /\ AtOnly(side, d - 1, cursor.id)
    BY <2>2 DEF AtCursor
  <2>6. Len(Subtree) \in Nat
    BY WorkAssumption, LenProperties DEF Walk!SourceWalkAssumption
  <2>7. d - 1 \in Nat /\ (d - 1) + 1 = d /\ (d + 1) - 1 = d /\ d \in Nat
        /\ (d < Len(Subtree) => d + 1 \in 1..Len(Subtree))
        /\ (~(d < Len(Subtree)) => d = Len(Subtree))
    BY <2>5, <2>6
  <2>8. AtOnly(side, d, id) /\ id \in DOMAIN repository.trees
    <3>1. held[n].name = Subtree[(d - 1) + 1]
      BY <2>4, <2>7
    <3>2. AtOnly(side, (d - 1) + 1, id) /\ id \in DOMAIN repository.trees
      <4> DEFINE k == d - 1
      <4>1. k \in Nat /\ AtOnly(side, k, cursor.id) /\ held[n].name = Subtree[k + 1]
        BY <2>5, <2>7, <3>1
      <4> HIDE DEF k, d
      <4>2. AtOnly(side, k + 1, id) /\ id \in DOMAIN repository.trees
        BY <2>2, <2>4, <2>5, <4>1, OneStepDown
      <4>3. QED
        BY <4>2 DEF k
    <3>3. QED
      BY <2>7, <3>2
  <2> DEFINE at == [id |-> id, depth |-> d + 1]
             start == <<Walk!Pending("tree", Subtree, id)>>
  <2>9. cursor' = at
    BY <2>1, <2>3
  <2>10. phase \in {"resolve", "walk"} =>
           IF side = "child" THEN selected["parent"] = << >>
           ELSE Stacked(selected["child"], "child", << >>)
    BY <2>1 DEF RevisionInv
  <2>11. CASE d < Len(Subtree)
    <3>1. AtCursor(side, at)
      BY <2>7, <2>8, <2>11 DEF AtCursor
    <3> HIDE DEF at, d
    <3>2. AtCursor(side, cursor)'
      BY <2>1, <2>9, <3>1, SameRepository
    <3>3. /\ phase' = "resolve" /\ repository' = repository /\ side' = side
          /\ selected' = selected
      BY <2>1, <2>11 DEF d
    <3>4. (IF side = "child" THEN selected["parent"] = << >>
           ELSE Stacked(selected["child"], "child", << >>))'
      BY <2>1, <2>10, <3>3, SameRepository
    <3>5. QED
      BY <2>2, <3>2, <3>3, <3>4 DEF RevisionInv
  <2>12. CASE ~(d < Len(Subtree))
    <3>1. AtOnly(side, Len(Subtree), id)
      BY <2>7, <2>8, <2>12
    <3>2. Walk!Approved(side) = id
      BY <2>8, <3>1, ApprovedIs
    <3> DEFINE o == Walk!Pending("tree", Subtree, id)
    <3>3. o \in Items(DOMAIN repository.trees, DOMAIN repository.blobs)
      BY <2>8, WorkAssumption DEF Walk!SourceWalkAssumption, Items, Walk!Pending
    <3>4. Spread(Walk!Files, o) = Walk!Below(Subtree, id)
      BY DEF Spread, Walk!Below, Walk!Pending
    <3> HIDE DEF o
    <3>5. Stacked(<< >>, side, <<o>>)
      BY <3>2, <3>3, <3>4, StackStart DEF Stacked
    <3>6. pending' = <<o>> /\ phase' = "walk" /\ repository' = repository /\ side' = side
          /\ selected' = selected
      BY <2>1, <2>3, <2>12 DEF o
    <3>7. Stacked(selected[side], side, pending)'
      BY <2>2, <3>5, <3>6, SameRepository
    <3>8. (IF side = "child" THEN selected["parent"] = << >>
           ELSE Stacked(selected["child"], "child", << >>))'
      BY <2>1, <2>10, <3>6, SameRepository
    <3>9. QED
      BY <2>2, <3>6, <3>7, <3>8 DEF RevisionInv
  <2>13. QED
    BY <2>11, <2>12
<1>3. QED
  BY <1>1, <1>2

LEMMA VisitTreeRevised == ASSUME RevisionInv, KeptInv', Walk!VisitTree PROVE RevisionInv'
<1>1. CASE Walk!Reject
  BY <1>1, RejectRevised
<1>2. CASE ~Walk!Reject
  <2> DEFINE top == Walk!Last(pending)
             held == repository.trees[top.id]
             kids == ChildrenOf(top, held)
             next == Walk!Front(pending) \o Walk!Reverse(kids)
  <2>1. /\ phase = "walk" /\ pending # << >> /\ top.kind = "tree"
        /\ Walk!TreeVerified(top.id)
        /\ \A n \in DOMAIN trees[top.id].entries : Walk!Regular(trees[top.id].entries[n])
        /\ pending' = Walk!Front(pending) \o Walk!Reverse(ChildrenOf(top, trees[top.id].entries))
        /\ UNCHANGED <<repository, phase, side, cursor, selected, candidate>>
    BY <1>2 DEF Walk!VisitTree, ChildrenOf
  <2>2. trees[top.id].entries = held
    BY <2>1 DEF Walk!TreeVerified, Walk!TreeIdentity
  <2>3. /\ \A m, n \in DOMAIN held : held[m].name = held[n].name => m = n
        /\ \A n \in DOMAIN held : held[n].type \in {"blob", "tree"}
        /\ pending' = next
    BY <2>1, <2>2 DEF Walk!TreeVerified, Walk!Regular
  <2>4. repository \in Repositories /\ Stacked(selected[side], side, pending)
        /\ IF side = "child" THEN selected["parent"] = << >>
           ELSE Stacked(selected["child"], "child", << >>)
    BY <2>1 DEF RevisionInv
  <2> DEFINE T == DOMAIN repository.trees
             B == DOMAIN repository.blobs
             whole == Walk!Below(Subtree, Walk!Approved(side))
  <2>5. StackOK(T, B, Walk!Files, pending, selected[side], whole)
    BY <2>4 DEF Stacked
  <2>6. top \in Items(T, B)
    <3>1. pending \in Seq(Items(T, B))
      BY <2>5 DEF StackOK
    <3> HIDE DEF T, B
    <3>2. QED
      BY <2>1, <3>1, FrontFields
  <2>7. kids \in Seq(Items(T, B)) /\ Children(Walk!Files, top, kids)
    <3> HIDE DEF top, kids
    <3>1. QED
      BY <2>1, <2>3, <2>4, <2>6, TreeSpreads DEF kids
  <2>8. Walk!Reverse(kids) \in Seq(Items(T, B)) /\ Children(Walk!Files, top, Walk!Reverse(kids))
    <3> HIDE DEF top, kids, T, B
    <3>1. QED
      BY <2>7, ReversedChildren
  <2>9. StackOK(T, B, Walk!Files, next, selected[side], whole)
    <3> HIDE DEF kids, T, B, whole
    <3>1. QED
      BY <2>1, <2>5, <2>8, TopReplaced
  <2>10. Stacked(selected[side], side, next)
    BY <2>9 DEF Stacked
  <2> HIDE DEF next, kids, held, top, T, B, whole
  <2>11. Stacked(selected[side], side, pending)'
    BY <2>1, <2>3, <2>10, SameRepository
  <2>12. (IF side = "child" THEN selected["parent"] = << >>
          ELSE Stacked(selected["child"], "child", << >>))'
    BY <2>1, <2>4, SameRepository
  <2>13. QED
    BY <2>1, <2>4, <2>11, <2>12 DEF RevisionInv
<1>3. QED
  BY <1>1, <1>2

LEMMA VisitBlobRevised == ASSUME RevisionInv, KeptInv', Walk!VisitBlob PROVE RevisionInv'
<1>1. CASE Walk!Reject
  BY <1>1, RejectRevised
<1>2. CASE ~Walk!Reject
  <2> DEFINE top == Walk!Last(pending)
             more == Append(selected[side], [path |-> top.path, id |-> top.id])
  <2>1. /\ phase = "walk" /\ pending # << >> /\ top.kind = "blob"
        /\ selected' = [selected EXCEPT ![side] = more]
        /\ pending' = Walk!Front(pending)
        /\ UNCHANGED <<repository, phase, side, cursor, candidate>>
    BY <1>2 DEF Walk!VisitBlob
  <2>2. /\ repository \in Repositories /\ Stacked(selected[side], side, pending)
        /\ IF side = "child" THEN selected["parent"] = << >>
           ELSE Stacked(selected["child"], "child", << >>)
        /\ side \in Walk!Sides /\ selected = [s \in Walk!Sides |-> selected[s]]
    BY <2>1 DEF RevisionInv, KeptInv
  <2>3. Stacked(more, side, Walk!Front(pending))
    BY <2>1, <2>2, TopSelected DEF Stacked
  <2> HIDE DEF more, top
  <2>4. selected'[side] = more /\ \A s \in Walk!Sides : s # side => selected'[s] = selected[s]
    BY <2>1, <2>2
  <2>5. Stacked(selected[side], side, pending)'
    BY <2>1, <2>3, <2>4, SameRepository
  <2>6. (IF side = "child" THEN selected["parent"] = << >>
         ELSE Stacked(selected["child"], "child", << >>))'
    BY <2>1, <2>2, <2>4, SameRepository DEF Walk!Sides
  <2>7. QED
    BY <2>1, <2>2, <2>5, <2>6 DEF RevisionInv
<1>3. QED
  BY <1>1, <1>2

LEMMA WalkEndsRevised == ASSUME RevisionInv, KeptInv', Walk!WalkEnds PROVE RevisionInv'
<1>1. /\ phase = "walk" /\ pending = << >>
      /\ UNCHANGED <<repository, pending, selected, candidate>>
      /\ \/ /\ side = "child" /\ side' = "parent" /\ phase' = "resolve"
            /\ cursor' = [id |-> repository.root["parent"], depth |-> 1]
         \/ side # "child" /\ phase' = "select" /\ UNCHANGED <<side, cursor>>
  BY DEF Walk!WalkEnds
<1>2. /\ repository \in Repositories /\ side \in Walk!Sides
      /\ Stacked(selected[side], side, << >>)
      /\ IF side = "child" THEN selected["parent"] = << >>
         ELSE Stacked(selected["child"], "child", << >>)
  BY <1>1 DEF RevisionInv, KeptInv
<1>3. CASE side = "child"
  <2>1. AtCursor("parent", [id |-> repository.root["parent"], depth |-> 1])
    BY <1>2, AtTheRoot DEF Walk!Sides
  <2>2. AtCursor(side, cursor)'
    BY <1>1, <1>3, <2>1, SameRepository
  <2>3. Stacked(selected["child"], "child", << >>)'
    BY <1>1, <1>2, <1>3, SameRepository
  <2>4. QED
    BY <1>1, <1>2, <1>3, <2>2, <2>3 DEF RevisionInv
<1>4. CASE side # "child"
  <2>1. side = "parent"
    BY <1>2, <1>4 DEF Walk!Sides
  <2>2. \A s \in Walk!Sides : Stacked(selected[s], s, << >>)
    BY <1>2, <2>1 DEF Walk!Sides
  <2>3. \A s \in Walk!Sides : Stacked(selected[s], s, << >>)'
    BY <1>1, <2>2, SameRepository
  <2>4. phase' = "select" /\ repository' = repository
    BY <1>1, <1>4
  <2>5. QED
    BY <1>2, <2>3, <2>4 DEF RevisionInv
<1>5. QED
  BY <1>3, <1>4

\* The rule of attribution is one.
LEMMA OneRule ==
  ASSUME repository.purpose # "LANGUAGE_CANDIDATE", Walk!Attributed
  PROVE  Walk!Cardinality({rule.id : rule \in Walk!Recognized}) = 1
<1>1. Cardinality(Walk!Recognized) = 1
  BY SameCountOfLines DEF Walk!Attributed
<1>2. IsFiniteSet(Walk!Recognized)
  <2>1. IsFiniteSet(Rules)
    BY WorkAssumption DEF Walk!SourceWalkAssumption, Walk!IsFiniteSet, IsFiniteSet
  <2>2. Walk!Recognized \subseteq Rules
    BY DEF Walk!Recognized
  <2>3. QED
    BY <2>1, <2>2, FS_Subset
<1>3. PICK rule : Walk!Recognized = {rule}
  BY <1>1, <1>2, FS_Singleton
<1>4. {r.id : r \in Walk!Recognized} = {rule.id}
  BY <1>3
<1>5. QED
  BY <1>4, FS_Singleton, SameCountOfLines

LEMMA SelectCandidateRevised ==
  ASSUME RevisionInv, KeptInv', Walk!SelectCandidate PROVE RevisionInv'
<1>1. CASE Walk!Reject
  BY <1>1, RejectRevised
<1>2. CASE ~Walk!Reject
  <2> DEFINE rules == IF repository.purpose = "LANGUAGE_CANDIDATE" THEN {}
                      ELSE {rule.id : rule \in Walk!Recognized}
  <2>1. /\ phase = "select" /\ Walk!Attributed /\ phase' = "licence"
        /\ UNCHANGED <<repository, side, cursor, pending, selected>>
        /\ \E c \in Walk!Eligible :
             \E p \in {q \in Walk!Range(selected["parent"]) : q.path = c.path} :
               candidate' = [path |-> c.path, child |-> c.id, parent |-> p.id, rules |-> rules]
    BY <1>2 DEF Walk!SelectCandidate
  <2>2. PICK c \in Walk!Eligible, p \in Walk!Range(selected["parent"]) :
          /\ p.path = c.path
          /\ candidate' = [path |-> c.path, child |-> c.id, parent |-> p.id, rules |-> rules]
    BY <2>1
  <2>3. c \in Walk!Range(selected["child"])
        /\ \E q \in Walk!Range(selected["parent"]) : q.path = c.path /\ Walk!Changed(c, q)
    BY DEF Walk!Eligible
  <2>4. repository \in Repositories /\ \A s \in Walk!Sides : Stacked(selected[s], s, << >>)
    BY <2>1 DEF RevisionInv
  <2>5. \A q, r \in Walk!Range(selected["parent"]) : q.path = r.path => q = r
    <3>1. StackOK(DOMAIN repository.trees, DOMAIN repository.blobs, Walk!Files, << >>,
                  selected["parent"], Walk!Below(Subtree, Walk!Approved("parent")))
      BY <2>4 DEF Stacked, Walk!Sides
    <3>2. QED
      BY <3>1, StackEnd
  <2>6. Walk!Changed(c, p)
    BY <2>2, <2>3, <2>5
  <2>7. \/ repository.purpose = "LANGUAGE_CANDIDATE" /\ rules = {}
        \/ c.id # p.id /\ Walk!Cardinality(rules) = 1
    <3>1. CASE repository.purpose = "LANGUAGE_CANDIDATE"
      BY <3>1
    <3>2. CASE repository.purpose # "LANGUAGE_CANDIDATE"
      <4>1. Walk!Reconstructs(blobs[p.id].text, blobs[c.id].text)
        BY <2>6, <3>2 DEF Walk!Changed
      <4>2. c.id # p.id
        BY <4>1 DEF Walk!Reconstructs
      <4>3. QED
        BY <2>1, <3>2, <4>2, OneRule
    <3>3. QED
      BY <3>1, <3>2
  <2> HIDE DEF rules
  <2>8. /\ candidate'.path = c.path /\ candidate'.child = c.id /\ candidate'.parent = p.id
        /\ candidate'.rules = rules
    BY <2>2
  <2>9. CandidateFits(candidate', selected["child"], selected["parent"])
    BY <2>2, <2>3, <2>7, <2>8 DEF CandidateFits
  <2>10. CandidateFits(candidate, selected["child"], selected["parent"])'
    BY <2>1, <2>9, SameRepository
  <2>11. \A s \in Walk!Sides : Stacked(selected[s], s, << >>)'
    BY <2>1, <2>4, SameRepository
  <2>12. QED
    BY <2>1, <2>4, <2>10, <2>11 DEF RevisionInv
<1>3. QED
  BY <1>1, <1>2

LEMMA SnapshotsRevised ==
  ASSUME RevisionInv, KeptInv', Walk!PersistSnapshots PROVE RevisionInv'
<1>1. CASE Walk!Reject
  BY <1>1, RejectRevised
<1>2. CASE ~Walk!Reject
  <2>1. /\ phase = "licence" /\ phase' = "done"
        /\ UNCHANGED <<repository, side, selected, candidate>>
    BY <1>2 DEF Walk!PersistSnapshots
  <2>2. /\ repository \in Repositories /\ \A s \in Walk!Sides : Stacked(selected[s], s, << >>)
        /\ CandidateFits(candidate, selected["child"], selected["parent"])
    BY <2>1 DEF RevisionInv
  <2>3. \A s \in Walk!Sides : Stacked(selected[s], s, << >>)'
    BY <2>1, <2>2, SameRepository
  <2>4. CandidateFits(candidate, selected["child"], selected["parent"])'
    BY <2>1, <2>2, SameRepository
  <2>5. QED
    BY <2>1, <2>2, <2>3, <2>4 DEF RevisionInv
<1>3. QED
  BY <1>1, <1>2

\* A resumed run walks again from the root of the first revision.
LEMMA ResumeRevised == ASSUME RevisionInv, KeptInv', Walk!Resume PROVE RevisionInv'
<1>1. /\ phase' = "resolve" /\ side' = "child" /\ repository' = repository
      /\ cursor' = [id |-> repository.root["child"], depth |-> 1]
      /\ selected' = [s \in Walk!Sides |-> << >>]
  BY DEF Walk!Resume
<1>2. repository \in Repositories
  BY DEF RevisionInv
<1>3. "child" \in Walk!Sides /\ "parent" \in Walk!Sides
  BY DEF Walk!Sides
<1>4. AtCursor("child", [id |-> repository.root["child"], depth |-> 1])
  BY <1>2, <1>3, AtTheRoot
<1>5. AtCursor(side, cursor)'
  BY <1>1, <1>4, SameRepository
<1>6. selected'["child"] = << >> /\ selected'["parent"] = << >>
  BY <1>1, <1>3
<1>7. QED
  BY <1>1, <1>2, <1>5, <1>6 DEF RevisionInv

LEMMA RevisionUntouched == ASSUME RevisionInv, UNCHANGED walk PROVE RevisionInv'
BY WalkUntouched, StandsStill DEF walk, RevisionInv

LEMMA RevisionNext == RevisionInv /\ Walk!Next => RevisionInv'
<1> SUFFICES ASSUME RevisionInv, Walk!Next PROVE RevisionInv'
  OBVIOUS
<1>1. KeptInv'
  BY WalkNext DEF RevisionInv
<1>2. CASE Walk!RequestRefused \/ Walk!PersistThrows
  BY <1>1, <1>2, RejectRevised DEF Walk!RequestRefused, Walk!PersistThrows
<1>3. CASE Walk!WalkOver
  BY <1>3, RevisionUntouched DEF Walk!WalkOver, Walk!walkVars, walk
<1>4. QED
  BY <1>1, <1>2, <1>3, RequestRevised, ResolveRevised, VisitTreeRevised, VisitBlobRevised,
     WalkEndsRevised, SelectCandidateRevised, SnapshotsRevised, ResumeRevised DEF Walk!Next

LEMMA RevisionSafe == RevisionInv => Walk!RevisionIsWhole
<1> SUFFICES ASSUME RevisionInv PROVE Walk!RevisionIsWhole
  OBVIOUS
<1> DEFINE T == DOMAIN repository.trees
           B == DOMAIN repository.blobs
           whole(s) == Walk!Below(Subtree, Walk!Approved(s))
<1>1. repository \in Repositories
  BY DEF RevisionInv
<1>2. Walk!Files \in [T -> SUBSET FilesOf(B)]
  BY <1>1, FilesDefined DEF FileRecords, FilesOf
<1>3. ASSUME phase = "walk"
      PROVE  /\ Walk!Range(selected[side]) \cup Walk!Outstanding = whole(side)
             /\ Walk!Range(selected[side]) \cap Walk!Outstanding = {}
             /\ Walk!IsInjective(selected[side]) /\ Walk!IsInjective(pending)
  <2>1. StackOK(T, B, Walk!Files, pending, selected[side], whole(side))
    BY <1>3 DEF RevisionInv, Stacked
  <2>2. Walk!Outstanding = UNION {Spread(Walk!Files, o) : o \in Walk!Range(pending)}
    <3>1. \A o : Spread(Walk!Files, o) = IF o.kind = "tree" THEN Walk!Below(o.path, o.id)
                                         ELSE {[path |-> o.path, id |-> o.id]}
      BY DEF Spread, Walk!Below
    <3>2. QED
      BY <3>1 DEF Walk!Outstanding
  <2> HIDE DEF T, B, whole
  <2>3. QED
    BY <1>2, <2>1, <2>2, StackMeans
<1>4. ASSUME phase = "done"
      PROVE  /\ \A s \in Walk!Sides : Walk!Range(selected[s]) = whole(s)
             /\ \E c \in whole("child"), p \in whole("parent") :
                  /\ candidate.path = c.path /\ candidate.child = c.id /\ candidate.parent = p.id
                  /\ c.path = p.path
                  /\ \/ repository.purpose = "LANGUAGE_CANDIDATE" /\ candidate.rules = {}
                     \/ c.id # p.id /\ Walk!Cardinality(candidate.rules) = 1
                  /\ Walk!ChangesLeast(repository.blobs[p.id].text, repository.blobs[c.id].text)
  <2>1. ASSUME NEW s \in Walk!Sides
        PROVE  Walk!Range(selected[s]) = whole(s) /\ whole(s) \subseteq FilesOf(B)
    <3>1. StackOK(T, B, Walk!Files, << >>, selected[s], whole(s))
      BY <1>4 DEF RevisionInv, Stacked
    <3> HIDE DEF T, B, whole
    <3>2. QED
      BY <3>1, StackEnd
  <2>2. "child" \in Walk!Sides /\ "parent" \in Walk!Sides
    BY DEF Walk!Sides
  <2>3. CandidateFits(candidate, selected["child"], selected["parent"])
    BY <1>4 DEF RevisionInv
  <2>4. PICK c \in Walk!Range(selected["child"]), p \in Walk!Range(selected["parent"]) :
          /\ candidate.path = c.path /\ candidate.child = c.id /\ candidate.parent = p.id
          /\ c.path = p.path
          /\ \/ repository.purpose = "LANGUAGE_CANDIDATE" /\ candidate.rules = {}
             \/ c.id # p.id /\ Walk!Cardinality(candidate.rules) = 1
    BY <2>3 DEF CandidateFits
  <2>5. c \in whole("child") /\ p \in whole("parent")
    BY <2>1, <2>2
  <2>6. c.id \in B /\ p.id \in B
    BY <2>1, <2>2, <2>5 DEF FilesOf
  <2>7. repository.blobs[p.id].text \in Seq(STRING) /\ repository.blobs[c.id].text \in Seq(STRING)
    BY <1>1, <2>6, RepositoryShape
  <2>8. Walk!ChangesLeast(repository.blobs[p.id].text, repository.blobs[c.id].text)
    BY <2>7, ChangesAreLeast
  <2> HIDE DEF whole, B
  <2>9. QED
    BY <2>1, <2>4, <2>5, <2>8
<1>5. QED
  BY <1>3, <1>4 DEF Walk!RevisionIsWhole

(* While a revision is walked, the files that were selected and those that *)
(* are outstanding are those of its approved subtree, each once; and a     *)
(* draft that is done has a file of both revisions, changed in no more     *)
(* lines than it must be and under one rule of attribution (walkRevision,  *)
(* executeOrchestration, reconstructChangedLines).                         *)
THEOREM RevisionAlwaysWhole == Spec => []RevisionIsWhole
<1>1. Init => RevisionInv
  BY RevisionInit DEF Init
<1>2. RevisionInv /\ [Next]_vars => RevisionInv'
  <2> SUFFICES ASSUME RevisionInv, [Next]_vars PROVE RevisionInv'
    OBVIOUS
  <2>1. CASE WalkStep
    BY <2>1, RevisionNext DEF WalkStep
  <2>2. CASE UNCHANGED walk
    BY <2>2, RevisionUntouched
  <2>3. QED
    BY <2>1, <2>2 DEF Next, vars, StoreStep, PreparationStep, RuntimeStep, CorpusStep,
                      AuthorizationStep, MeasurementStep
<1>3. RevisionInv => RevisionIsWhole
  BY RevisionSafe DEF RevisionIsWhole
<1>4. QED
  BY <1>1, <1>2, <1>3, PTL DEF Spec

(* The material of the experiment and of its drafts is always whole: what  *)
(* is published, what is kept of a source and what is selected from it.    *)
THEOREM MaterialAlwaysWhole == Spec => []MaterialIsWhole
<1>1. ExperimentIsWhole /\ KeptIsVerified /\ RevisionIsWhole => MaterialIsWhole
  BY DEF MaterialIsWhole
<1>2. QED
  BY <1>1, ExperimentAlwaysWhole, KeptAlwaysVerified, RevisionAlwaysWhole, PTL

-----------------------------------------------------------------------------
(* The measures.                                                           *)

OfRounds == {"ROUND_DISPLAYED", "CLUE_REVEALED", "ANSWER_ACCEPTED", "REVEAL_AUTHORIZED",
             "CORRECTION_NOTICE_ACKNOWLEDGED"}
Ends == {"SESSION_COMPLETED", "SESSION_EXPIRED"}
OfSessions == Ends \cup {"SESSION_STARTED"}

\* An event of these sessions that was accepted by an instant.
Shaped(e, p, now) ==
  /\ e.family \in OfRounds \cup OfSessions \cup {"ROUND_CORRECTED"}
  /\ e.accepted \in Nat /\ e.at \in Nat /\ e.accepted <= now /\ e.accepted <= e.at
  /\ e.family # "ROUND_CORRECTED" => e.at = e.accepted /\ e.session \in DOMAIN p
  /\ e.family = "ROUND_CORRECTED" => e.session = << >>
  /\ e.family \in OfRounds => e.round \in p[e.session]
  /\ e.family \in OfSessions => e.round = 0
  /\ e.family = "CLUE_REVEALED" => e.detail \in 1..2
  /\ e.family = "SESSION_COMPLETED" => e.detail \in 0..5

\* In a log, an event of a family and a key, no later than an instant.
By(L, family, session, round, time1) ==
  \E f \in L : f.family = family /\ f.session = session /\ f.round = round /\ f.at <= time1

\* What an event rests on came before it: what it answers, and before a round is displayed or
\* a session completes, the reveals and corrections of the rounds before.
Grounded(e, L, p) ==
  /\ e.family \in {"ROUND_DISPLAYED"} \cup Ends => By(L, "SESSION_STARTED", e.session, 0, e.at)
  /\ e.family \in {"ANSWER_ACCEPTED", "CLUE_REVEALED", "CORRECTION_NOTICE_ACKNOWLEDGED"} =>
       By(L, "ROUND_DISPLAYED", e.session, e.round, e.at)
  /\ e.family = "REVEAL_AUTHORIZED" => By(L, "ANSWER_ACCEPTED", e.session, e.round, e.at)
  /\ e.family = "CORRECTION_NOTICE_ACKNOWLEDGED" =>
       By(L, "ROUND_CORRECTED", << >>, e.round, e.at)
  /\ e.family \in {"ROUND_DISPLAYED", "SESSION_COMPLETED"} =>
       \A q \in p[e.session] :
         \/ e.family = "ROUND_DISPLAYED" /\ ~(q < e.round)
         \/ By(L, "REVEAL_AUTHORIZED", e.session, q, e.at)
         \/ By(L, "ROUND_CORRECTED", << >>, q, e.at)

\* Two events of a log: a key occurs once, but for clues; a session ends once and after its
\* events, and a round takes no clue after its answer.
Compatible(e, f) ==
  /\ e.family = f.family /\ e.family # "CLUE_REVEALED"
       /\ e.session = f.session /\ e.round = f.round => e = f
  /\ e.session = f.session /\ e.family # "ROUND_CORRECTED" /\ f.family \in Ends =>
       e.at <= f.at /\ (e.family \in Ends => e.family = f.family)
  /\ e.family = "CLUE_REVEALED" /\ f.family = "ANSWER_ACCEPTED"
       /\ e.session = f.session /\ e.round = f.round => e.at <= f.at

LogOK(L, p, now) ==
  /\ \A e \in L : Shaped(e, p, now) /\ Grounded(e, L, p)
  /\ \A e, f \in L : Compatible(e, f)

MeasurementInv ==
  /\ plan \in Plans /\ instant \in Nat
  /\ disposition \in [Measure!Seated -> {"PENDING", "INCLUDED", "EXCLUDED"}]
  /\ LogOK(log, plan, instant)

LEMMA PlansAreFive ==
  ASSUME NEW p \in Plans, NEW s \in DOMAIN p
  PROVE  p[s] \subseteq 1..5 /\ s \in Players \X BetaDays /\ BetaDays \subseteq Nat
BY WorkAssumption DEF Measure!MeasurementAssumption

-----------------------------------------------------------------------------
\* A log at a boundary is measured, with exclusions in effect and opportunities after starts.
LEMMA MeasuredAtBoundary ==
  ASSUME MeasurementInv, NEW b \in 0..instant, NEW opportunities,
         ~Measure!ExcludedLater(disposition, b),
         ~Measure!Unfounded(Measure!Observed(log, b), opportunities)
  PROVE  ~Measure!Rejected(Measure!Observed(log, b), disposition, opportunities, b)
<1> DEFINE O == Measure!Observed(log, b)
<1>1. \A e \in O :
        e \in log /\ e.accepted <= b /\ Shaped(e, plan, instant) /\ Grounded(e, log, plan)
  BY DEF MeasurementInv, LogOK, Measure!Observed
<1>2. \A e, f \in O : Compatible(e, f)
  BY DEF MeasurementInv, LogOK, Measure!Observed
<1>3. b \in Nat /\ instant \in Nat
  BY DEF MeasurementInv
<1>4. \A f \in log : Shaped(f, plan, instant)
  BY DEF MeasurementInv, LogOK
<1>5. ASSUME NEW e \in O, NEW f \in log, f.at <= e.at, e.family # "ROUND_CORRECTED"
      PROVE  f \in O
  <2>1. e.at = e.accepted /\ e.accepted <= b /\ e.accepted \in Nat
    BY <1>1, <1>5 DEF Shaped
  <2>2. f.accepted <= f.at /\ f.accepted \in Nat /\ f.at \in Nat
    BY <1>4 DEF Shaped
  <2>3. f.accepted <= b /\ f.at <= b
    BY <1>3, <1>5, <2>1, <2>2
  <2>4. QED
    BY <2>3 DEF Measure!Observed
<1> HIDE DEF O
<1>6. ASSUME NEW e \in O, e.family # "ROUND_CORRECTED", NEW family, NEW session, NEW round,
             By(log, family, session, round, e.at)
      PROVE  By(O, family, session, round, e.at)
  BY <1>5, <1>6 DEF By
<1>7. ASSUME NEW e \in O PROVE Measure!Parses(e)
  <2>1. Shaped(e, plan, instant)
    BY <1>1
  <2>2. e.family = "ROUND_DISPLAYED" => e.round \in 1..5
    BY <2>1, PlansAreFive DEF Shaped, OfRounds, MeasurementInv
  <2>3. QED
    BY <2>1, <2>2 DEF Shaped, Measure!Parses
<1>8. ~Measure!JoinsFail(O)
  <2>1. ASSUME NEW family \in {"ROUND_DISPLAYED", "ANSWER_ACCEPTED", "REVEAL_AUTHORIZED"}
        PROVE  ~Measure!Twice(O, family, Measure!SameRound)
    BY <1>2 DEF Measure!Twice, Measure!SameRound, Measure!Of, Compatible
  <2>2. ~Measure!Orphaned(O, "ANSWER_ACCEPTED", "ROUND_DISPLAYED", Measure!SameRound)
    BY <1>1, <1>6 DEF Measure!Orphaned, Measure!SameRound, Measure!Of, Grounded, By
  <2>3. ~Measure!Orphaned(O, "REVEAL_AUTHORIZED", "ANSWER_ACCEPTED", Measure!SameRound)
    BY <1>1, <1>6 DEF Measure!Orphaned, Measure!SameRound, Measure!Of, Grounded, By
  <2>4. ~Measure!Orphaned(O, "CLUE_REVEALED", "ROUND_DISPLAYED", Measure!SameRound)
    BY <1>1, <1>6 DEF Measure!Orphaned, Measure!SameRound, Measure!Of, Grounded, By
  <2>5. ~Measure!After(O, "CLUE_REVEALED", "ANSWER_ACCEPTED", Measure!SameRound)
    <3> SUFFICES ASSUME NEW e \in O, NEW f \in O, e.family = "CLUE_REVEALED",
                        f.family = "ANSWER_ACCEPTED", Measure!SameRound(e, f), e.at > f.at
                 PROVE  FALSE
      BY DEF Measure!After, Measure!Of
    <3>1. e.at <= f.at /\ e.at \in Nat /\ f.at \in Nat
      BY <1>1, <1>2 DEF Compatible, Measure!SameRound, Shaped
    <3>2. QED
      BY <3>1
  <2>6. QED
    BY <2>1, <2>2, <2>3, <2>4, <2>5 DEF Measure!JoinsFail
<1>9. ~Measure!CompletionFails(O)
  <2> DEFINE Correction(e, f) == e.round = f.round
  <2>1. ASSUME NEW family \in OfSessions PROVE ~Measure!Twice(O, family, Measure!SameSession)
    <3>1. \A e \in O : e.family = family => e.round = 0 /\ e.family # "CLUE_REVEALED"
      BY <1>1 DEF Shaped, OfSessions, Ends
    <3>2. QED
      BY <1>2, <3>1 DEF Measure!Twice, Measure!SameSession, Measure!Of, Compatible
  <2>2. ASSUME NEW e \in Measure!Of(O, "SESSION_COMPLETED"),
               NEW f \in Measure!Of(O, "SESSION_EXPIRED")
        PROVE  ~Measure!SameSession(e, f)
    <3>1. Compatible(e, f) /\ e.family = "SESSION_COMPLETED" /\ f.family = "SESSION_EXPIRED"
      BY <1>2 DEF Measure!Of
    <3>2. QED
      BY <3>1 DEF Compatible, Ends, Measure!SameSession
  <2>3. ASSUME NEW end \in Ends
        PROVE  /\ ~Measure!Orphaned(O, end, "SESSION_STARTED", Measure!SameSession)
               /\ ~Measure!After(O, "REVEAL_AUTHORIZED", end, Measure!SameSession)
    <3>1. ASSUME NEW e \in O, e.family = end
          PROVE  By(O, "SESSION_STARTED", e.session, 0, e.at)
      BY <1>1, <1>6, <3>1 DEF Grounded, Ends
    <3>2. ~Measure!Orphaned(O, end, "SESSION_STARTED", Measure!SameSession)
      BY <3>1 DEF Measure!Orphaned, Measure!SameSession, Measure!Of, By
    <3>3. ASSUME NEW e \in O, NEW f \in O, e.family = "REVEAL_AUTHORIZED", f.family = end,
                 Measure!SameSession(e, f)
          PROVE  ~(e.at > f.at)
      <4>1. e.at <= f.at /\ e.at \in Nat /\ f.at \in Nat
        BY <1>1, <1>2, <3>3 DEF Compatible, Measure!SameSession, Shaped
      <4>2. QED
        BY <4>1
    <3>4. ~Measure!After(O, "REVEAL_AUTHORIZED", end, Measure!SameSession)
      BY <3>3 DEF Measure!After, Measure!Of
    <3>5. QED
      BY <3>2, <3>4
  <2>4. ~Measure!Twice(O, "ROUND_CORRECTED", Correction)
    <3>1. \A e \in O : e.family = "ROUND_CORRECTED" => e.session = << >>
      BY <1>1 DEF Shaped
    <3>2. QED
      BY <1>2, <3>1 DEF Measure!Twice, Measure!Of, Compatible
  <2>5. ~Measure!Twice(O, "CORRECTION_NOTICE_ACKNOWLEDGED", Measure!SameRound)
    BY <1>2 DEF Measure!Twice, Measure!SameRound, Measure!Of, Compatible
  <2>6. ~Measure!Orphaned(O, "CORRECTION_NOTICE_ACKNOWLEDGED", "ROUND_DISPLAYED",
                          Measure!SameRound)
    BY <1>1, <1>6 DEF Measure!Orphaned, Measure!SameRound, Measure!Of, Grounded, By
  <2>7. ~Measure!Orphaned(O, "CORRECTION_NOTICE_ACKNOWLEDGED", "ROUND_CORRECTED", Correction)
    <3>1. ASSUME NEW e \in O, e.family = "CORRECTION_NOTICE_ACKNOWLEDGED"
          PROVE  By(O, "ROUND_CORRECTED", << >>, e.round, e.at)
      BY <1>1, <1>6, <3>1 DEF Grounded
    <3>2. QED
      BY <3>1 DEF Measure!Orphaned, Measure!Of, By
  <2>8. ~Measure!After(O, "CORRECTION_NOTICE_ACKNOWLEDGED", "SESSION_COMPLETED",
                       Measure!SameSession)
    <3> SUFFICES ASSUME NEW e \in O, NEW f \in O,
                        e.family = "CORRECTION_NOTICE_ACKNOWLEDGED",
                        f.family = "SESSION_COMPLETED", Measure!SameSession(e, f), e.at > f.at
                 PROVE  FALSE
      BY DEF Measure!After, Measure!Of
    <3>1. e.at <= f.at /\ e.at \in Nat /\ f.at \in Nat
      BY <1>1, <1>2 DEF Compatible, Measure!SameSession, Shaped, Ends
    <3>2. QED
      BY <3>1
  <2>9. QED
    BY <2>1, <2>2, <2>3, <2>4, <2>5, <2>6, <2>7, <2>8
    DEF Measure!CompletionFails, OfSessions, Ends
<1>10. ~Measure!CluesFail(O)
  <2> SUFFICES ASSUME NEW d \in O
               PROVE  {e.detail : e \in {c \in Measure!Of(O, "CLUE_REVEALED") :
                                          Measure!SameRound(c, d)}} \in {{}, {1}, {2}, {1, 2}}
    BY DEF Measure!CluesFail, Measure!Of
  <2> DEFINE N == {e.detail : e \in {c \in Measure!Of(O, "CLUE_REVEALED") :
                                       Measure!SameRound(c, d)}}
  <2>1. N \subseteq {1, 2}
    <3>1. \A e \in O : e.family = "CLUE_REVEALED" => e.detail \in {1, 2}
      BY <1>1 DEF Shaped
    <3>2. QED
      BY <3>1 DEF Measure!Of
  <2> HIDE DEF N
  <2>2. N \in {{}, {1}, {2}, {1, 2}}
    BY <2>1
  <2>3. QED
    BY <2>2 DEF N
<1>11. ~Measure!TransitionFails(O, disposition)
  <2> SUFFICES ASSUME NEW d \in Measure!ActiveDisplays(O), NEW e \in Measure!Following(O, d),
                      NEW r \in Measure!Of(O, "REVEAL_AUTHORIZED"),
                      Measure!SameRound(r, d), e.at < r.at
               PROVE  FALSE
    BY DEF Measure!TransitionFails, Measure!InState
  <2>1. /\ d \in O /\ d.family = "ROUND_DISPLAYED" /\ d.round \notin Measure!Corrections(O)
        /\ e \in O /\ e.family = "ROUND_DISPLAYED" /\ e.session = d.session
        /\ d.round < e.round
        /\ r \in O /\ r.family = "REVEAL_AUTHORIZED" /\ r.session = d.session
        /\ r.round = d.round
    <3>1. e.round > d.round /\ e \in O /\ e.family = "ROUND_DISPLAYED" /\ e.session = d.session
      BY DEF Measure!Following, Measure!Displays, Measure!Of, Measure!SameSession
    <3>2. /\ d \in O /\ d.family = "ROUND_DISPLAYED" /\ d.round \notin Measure!Corrections(O)
      BY DEF Measure!ActiveDisplays, Measure!Displays, Measure!Of
    <3>3. QED
      BY <3>1, <3>2 DEF Measure!Of, Measure!SameRound
  <2>2. d.round \in plan[e.session]
    BY <1>1, <2>1 DEF Shaped, OfRounds
  <2>3. \/ By(log, "REVEAL_AUTHORIZED", e.session, d.round, e.at)
        \/ By(log, "ROUND_CORRECTED", << >>, d.round, e.at)
    BY <1>1, <2>1, <2>2 DEF Grounded
  <2>4. ~By(log, "ROUND_CORRECTED", << >>, d.round, e.at)
    <3>1. \A f \in O : f.family = "ROUND_CORRECTED" => f.round # d.round
      BY <2>1 DEF Measure!Corrections, Measure!Of
    <3>2. e.family # "ROUND_CORRECTED"
      BY <2>1
    <3>3. ~By(O, "ROUND_CORRECTED", << >>, d.round, e.at)
      BY <3>1 DEF By
    <3>4. e \in O
      BY <2>1
    <3>5. QED
      BY <1>6, <3>2, <3>3, <3>4
  <2>5. PICK f \in O : /\ f.family = "REVEAL_AUTHORIZED" /\ f.session = e.session
                       /\ f.round = d.round /\ f.at <= e.at
    BY <1>6, <2>1, <2>3, <2>4 DEF By
  <2>6. f = r
    BY <1>2, <2>1, <2>5 DEF Compatible
  <2>7. e.at \in Nat /\ r.at \in Nat
    BY <1>1, <2>1 DEF Shaped
  <2>8. QED
    BY <2>5, <2>6, <2>7
<1>12. QED
  BY <1>7, <1>8, <1>9, <1>10, <1>11 DEF Measure!Rejected, O

\* The log with one event more.
LEMMA LogGrows ==
  ASSUME NEW L, NEW p, NEW now \in Nat, LogOK(L, p, now),
         NEW n, Shaped(n, p, now), Grounded(n, L, p),
         \A e \in L : Compatible(e, n) /\ Compatible(n, e)
  PROVE  LogOK(L \cup {n}, p, now)
<1>1. ASSUME NEW family, NEW session, NEW round, NEW limit,
             By(L, family, session, round, limit)
      PROVE  By(L \cup {n}, family, session, round, limit)
  BY <1>1 DEF By
<1>2. ASSUME NEW e, Grounded(e, L, p) PROVE Grounded(e, L \cup {n}, p)
  BY <1>1, <1>2 DEF Grounded
<1>3. Compatible(n, n)
  BY DEF Compatible, Shaped
<1>4. QED
  BY <1>2, <1>3 DEF LogOK

\* An event of a session that is running, or that starts it.
LEMMA SessionEvent ==
  ASSUME MeasurementInv, NEW n, Shaped(n, plan, instant), Grounded(n, log, plan),
         n.family # "ROUND_CORRECTED", n.at = instant,
         \A e \in log : e.family \in Ends => e.session # n.session,
         n.family # "CLUE_REVEALED" =>
           \A e \in log :
             ~(e.family = n.family /\ e.session = n.session /\ e.round = n.round),
         n.family = "CLUE_REVEALED" =>
           \A e \in log :
             ~(e.family = "ANSWER_ACCEPTED" /\ e.session = n.session /\ e.round = n.round)
  PROVE  LogOK(log \cup {n}, plan, instant)
<1>1. instant \in Nat /\ LogOK(log, plan, instant)
  BY DEF MeasurementInv
<1>2. ASSUME NEW e \in log PROVE Compatible(e, n) /\ Compatible(n, e)
  <2>1. Shaped(e, plan, instant)
    BY <1>1 DEF LogOK
  <2>2. e.family # "ROUND_CORRECTED" => e.at <= n.at
    BY <1>1, <2>1 DEF Shaped
  <2>3. Compatible(e, n)
    BY <2>2 DEF Compatible
  <2>4. Compatible(n, e)
    BY DEF Compatible
  <2>5. QED
    BY <2>3, <2>4
<1>3. QED
  BY <1>1, <1>2, LogGrows

LEMMA HappenedBy ==
  ASSUME MeasurementInv
  PROVE  /\ \A family, s, r : Measure!Has(family, s, r) /\ family # "ROUND_CORRECTED" =>
              By(log, family, s, r, instant)
         /\ \A r : Measure!CorrectedNow(r) => By(log, "ROUND_CORRECTED", << >>, r, instant)
<1>1. \A e \in log : Shaped(e, plan, instant)
  BY DEF MeasurementInv, LogOK
<1>2. ASSUME NEW family, NEW s, NEW r, Measure!Has(family, s, r), family # "ROUND_CORRECTED"
      PROVE  By(log, family, s, r, instant)
  BY <1>1, <1>2 DEF Measure!Has, By, Shaped
<1>3. ASSUME NEW r, Measure!CorrectedNow(r) PROVE By(log, "ROUND_CORRECTED", << >>, r, instant)
  BY <1>1, <1>3 DEF Measure!CorrectedNow, Measure!Of, By, Shaped
<1>4. QED
  BY <1>2, <1>3

LEMMA NotEnded ==
  ASSUME MeasurementInv, NEW s, ~Measure!Ended(s)
  PROVE  \A e \in log : e.family \in Ends => e.session # s
<1>1. \A e \in log : e.family \in Ends => e.round = 0
  BY DEF MeasurementInv, LogOK, Shaped, OfSessions
<1>2. QED
  BY <1>1 DEF Measure!Ended, Measure!Has, Ends

\* A new event has its fields, and the log has it.
LEMMA AcceptedEvent ==
  ASSUME NEW family, NEW s, NEW r, NEW detail, NEW at,
         Measure!Accept(Measure!Event(family, s, r, detail, at))
  PROVE  \E n : /\ n.family = family /\ n.session = s /\ n.round = r /\ n.detail = detail
                /\ n.at = at /\ n.accepted = instant
                /\ log' = log \cup {n} /\ plan' = plan /\ disposition' = disposition
                /\ instant' = instant
<1> DEFINE n == Measure!Event(family, s, r, detail, at)
<1>1. /\ n.family = family /\ n.session = s /\ n.round = r /\ n.detail = detail
      /\ n.at = at /\ n.accepted = instant
  BY DEF Measure!Event
<1>2. /\ log' = log \cup {n} /\ plan' = plan /\ disposition' = disposition
      /\ instant' = instant
  BY DEF Measure!Accept
<1>3. QED
  BY <1>1, <1>2

LEMMA StartKept ==
  ASSUME MeasurementInv, NEW s \in Measure!Sessions, Measure!Start(s) PROVE MeasurementInv'
<1>1. PICK n : /\ n.family = "SESSION_STARTED" /\ n.session = s /\ n.round = 0
               /\ n.at = instant /\ n.accepted = instant
               /\ log' = log \cup {n} /\ plan' = plan /\ disposition' = disposition
               /\ instant' = instant
  BY AcceptedEvent DEF Measure!Start
<1>2. \A e \in log : ~(e.family = "SESSION_STARTED" /\ e.session = s /\ e.round = 0)
  BY DEF Measure!Start, Measure!Has
<1>3. \A e \in log : e.family \in Ends => e.session # s
  BY <1>2 DEF MeasurementInv, LogOK, Grounded, By
<1>4. Shaped(n, plan, instant)
  BY <1>1 DEF Shaped, MeasurementInv, Measure!Sessions, OfRounds, OfSessions, Ends
<1>5. Grounded(n, log, plan)
  BY <1>1 DEF Grounded, Ends
<1>6. LogOK(log', plan, instant)
  BY <1>1, <1>2, <1>3, <1>4, <1>5, SessionEvent
<1>7. QED
  BY <1>1, <1>6 DEF MeasurementInv, Measure!Seated, Measure!Sessions

LEMMA RoundKept ==
  ASSUME MeasurementInv, NEW s \in Measure!Sessions, NEW r \in plan[s],
         Measure!Display(s, r) \/ Measure!AcceptAnswer(s, r) \/ Measure!AuthorizeReveal(s, r)
           \/ Measure!Acknowledge(s, r) \/ \E number \in 1..2 : Measure!RevealClue(s, r, number)
  PROVE  MeasurementInv'
<1>1. \E family \in OfRounds, detail \in 0..2 :
        /\ Measure!Accept(Measure!Event(family, s, r, detail, instant))
        /\ family = "CLUE_REVEALED" => detail \in 1..2 /\ ~Measure!Has("ANSWER_ACCEPTED", s, r)
        /\ family # "CLUE_REVEALED" => ~Measure!Has(family, s, r)
        /\ family \in {"ANSWER_ACCEPTED", "CLUE_REVEALED", "CORRECTION_NOTICE_ACKNOWLEDGED"} =>
             Measure!Has("ROUND_DISPLAYED", s, r)
        /\ family = "REVEAL_AUTHORIZED" => Measure!Has("ANSWER_ACCEPTED", s, r)
        /\ family = "CORRECTION_NOTICE_ACKNOWLEDGED" => Measure!CorrectedNow(r)
        /\ family = "ROUND_DISPLAYED" =>
             \A q \in plan[s] :
               q < r => Measure!Has("REVEAL_AUTHORIZED", s, q) \/ Measure!CorrectedNow(q)
  <2>1. CASE Measure!Display(s, r)
    BY <2>1 DEF Measure!Display, OfRounds
  <2>2. CASE Measure!AcceptAnswer(s, r)
    BY <2>2 DEF Measure!AcceptAnswer, Measure!Playable, OfRounds
  <2>3. CASE Measure!AuthorizeReveal(s, r)
    BY <2>3 DEF Measure!AuthorizeReveal, OfRounds
  <2>4. CASE Measure!Acknowledge(s, r)
    BY <2>4 DEF Measure!Acknowledge, OfRounds
  <2>5. ASSUME NEW number \in 1..2, Measure!RevealClue(s, r, number)
        PROVE  /\ Measure!Accept(Measure!Event("CLUE_REVEALED", s, r, number, instant))
               /\ ~Measure!Has("ANSWER_ACCEPTED", s, r) /\ Measure!Has("ROUND_DISPLAYED", s, r)
    BY <2>5 DEF Measure!RevealClue, Measure!Playable
  <2>6. \A number \in 1..2 : number \in 0..2
    OBVIOUS
  <2>7. CASE \E number \in 1..2 : Measure!RevealClue(s, r, number)
    BY <2>5, <2>6, <2>7 DEF OfRounds
  <2>8. QED
    BY <2>1, <2>2, <2>3, <2>4, <2>7
<1>2. Measure!Running(s)
  BY DEF Measure!Display, Measure!AcceptAnswer, Measure!Playable, Measure!AuthorizeReveal,
         Measure!Acknowledge, Measure!RevealClue
<1>3. PICK family \in OfRounds, detail \in 0..2 :
        /\ Measure!Accept(Measure!Event(family, s, r, detail, instant))
        /\ family = "CLUE_REVEALED" => detail \in 1..2 /\ ~Measure!Has("ANSWER_ACCEPTED", s, r)
        /\ family # "CLUE_REVEALED" => ~Measure!Has(family, s, r)
        /\ family \in {"ANSWER_ACCEPTED", "CLUE_REVEALED", "CORRECTION_NOTICE_ACKNOWLEDGED"} =>
             By(log, "ROUND_DISPLAYED", s, r, instant)
        /\ family = "REVEAL_AUTHORIZED" => By(log, "ANSWER_ACCEPTED", s, r, instant)
        /\ family = "CORRECTION_NOTICE_ACKNOWLEDGED" =>
             By(log, "ROUND_CORRECTED", << >>, r, instant)
        /\ family = "ROUND_DISPLAYED" =>
             \A q \in plan[s] :
               q < r => \/ By(log, "REVEAL_AUTHORIZED", s, q, instant)
                        \/ By(log, "ROUND_CORRECTED", << >>, q, instant)
  BY <1>1, HappenedBy
<1>4. PICK n : /\ n.family = family /\ n.session = s /\ n.round = r /\ n.detail = detail
               /\ n.at = instant /\ n.accepted = instant
               /\ log' = log \cup {n} /\ plan' = plan /\ disposition' = disposition
               /\ instant' = instant
  BY <1>3, AcceptedEvent
<1>5. /\ By(log, "SESSION_STARTED", s, 0, instant)
      /\ \A e \in log : e.family \in Ends => e.session # s
  BY <1>2, HappenedBy, NotEnded DEF Measure!Running
<1>6. Shaped(n, plan, instant)
  BY <1>3, <1>4 DEF Shaped, MeasurementInv, Measure!Sessions, OfRounds, OfSessions, Ends
<1>7. Grounded(n, log, plan)
  BY <1>3, <1>4, <1>5 DEF Grounded, Ends, OfRounds
<1>8. n.family # "ROUND_CORRECTED"
  BY <1>4 DEF OfRounds
<1>9. LogOK(log', plan, instant)
  BY <1>3, <1>4, <1>5, <1>6, <1>7, <1>8, SessionEvent DEF Measure!Has
<1>10. QED
  BY <1>4, <1>9 DEF MeasurementInv, Measure!Seated, Measure!Sessions

LEMMA EndKept ==
  ASSUME MeasurementInv, NEW s \in Measure!Sessions, Measure!Complete(s) \/ Measure!Expire(s)
  PROVE  MeasurementInv'
<1> DEFINE rounds == {r \in plan[s] : ~Measure!CorrectedNow(r)}
<1>1. Measure!Cardinality(rounds) \in 0..5
  <2>1. rounds \subseteq 1..5
    BY PlansAreFive DEF MeasurementInv, Measure!Sessions
  <2> HIDE DEF rounds
  <2>2. IsFiniteSet(1..5) /\ Cardinality(1..5) = 5
    <3>1. 1 \in Int /\ 5 \in Int
      OBVIOUS
    <3>2. IsFiniteSet(1..5) /\ Cardinality(1..5) = IF 1 > 5 THEN 0 ELSE 5 - 1 + 1
      BY <3>1, FS_Interval, Zenon
    <3>3. QED
      BY <3>2
  <2>3. Cardinality(rounds) \in Nat /\ Cardinality(rounds) <= 5
    BY <2>1, <2>2, FS_Subset, FS_CardinalityType
  <2>4. Measure!Cardinality(rounds) = Cardinality(rounds)
    BY DEF Measure!Cardinality, Cardinality
  <2>5. QED
    BY <2>3, <2>4
<1>2. PICK family \in Ends, detail \in 0..5 :
        /\ Measure!Accept(Measure!Event(family, s, 0, detail, instant))
        /\ family = "SESSION_COMPLETED" =>
             \A q \in plan[s] : \/ By(log, "REVEAL_AUTHORIZED", s, q, instant)
                                \/ By(log, "ROUND_CORRECTED", << >>, q, instant)
  <2>1. CASE Measure!Complete(s)
    <3>1. \A q \in plan[s] : Measure!CorrectedNow(q) \/ Measure!Has("REVEAL_AUTHORIZED", s, q)
      BY <2>1 DEF Measure!Complete
    <3>2. Measure!Accept(Measure!Event("SESSION_COMPLETED", s, 0, Measure!Cardinality(rounds),
                                       instant))
      BY <2>1 DEF Measure!Complete
    <3>3. QED
      BY <1>1, <3>1, <3>2, HappenedBy DEF Ends
  <2>2. CASE Measure!Expire(s)
    <3>1. Measure!Accept(Measure!Event("SESSION_EXPIRED", s, 0, 0, instant)) /\ 0 \in 0..5
      BY <2>2 DEF Measure!Expire
    <3>2. QED
      BY <3>1 DEF Ends
  <2>3. QED
    BY <2>1, <2>2
<1>3. Measure!Running(s)
  BY DEF Measure!Complete, Measure!Expire
<1>4. PICK n : /\ n.family = family /\ n.session = s /\ n.round = 0 /\ n.detail = detail
               /\ n.at = instant /\ n.accepted = instant
               /\ log' = log \cup {n} /\ plan' = plan /\ disposition' = disposition
               /\ instant' = instant
  BY <1>2, AcceptedEvent
<1>5. /\ By(log, "SESSION_STARTED", s, 0, instant)
      /\ \A e \in log : e.family \in Ends => e.session # s
  BY <1>3, HappenedBy, NotEnded DEF Measure!Running
<1>6. Shaped(n, plan, instant)
  BY <1>2, <1>4 DEF Shaped, MeasurementInv, Measure!Sessions, OfRounds, OfSessions, Ends
<1>7. Grounded(n, log, plan)
  BY <1>2, <1>4, <1>5 DEF Grounded, Ends
<1>8. n.family # "ROUND_CORRECTED" /\ n.family # "CLUE_REVEALED" /\ n.family \in Ends
  BY <1>4 DEF Ends
<1>9. LogOK(log', plan, instant)
  BY <1>4, <1>5, <1>6, <1>7, <1>8, SessionEvent
<1>10. QED
  BY <1>4, <1>9 DEF MeasurementInv, Measure!Seated, Measure!Sessions

LEMMA CorrectKept ==
  ASSUME MeasurementInv, NEW r \in Measure!AllRounds, NEW effectiveAt \in 0..MaxInstant,
         Measure!Correct(r, effectiveAt)
  PROVE  MeasurementInv'
<1>1. PICK n : /\ n.family = "ROUND_CORRECTED" /\ n.session = << >> /\ n.round = r
               /\ n.at = effectiveAt /\ n.accepted = instant
               /\ log' = log \cup {n} /\ plan' = plan /\ disposition' = disposition
               /\ instant' = instant
  BY AcceptedEvent DEF Measure!Correct
<1>2. effectiveAt \in Nat /\ instant <= effectiveAt /\ instant \in Nat
  BY DEF Measure!Correct, MeasurementInv
<1>3. Shaped(n, plan, instant) /\ Grounded(n, log, plan)
  BY <1>1, <1>2 DEF Shaped, Grounded, OfRounds, OfSessions, Ends
<1>4. \A e \in log : e.family = "ROUND_CORRECTED" => e.round # r
  BY DEF Measure!Correct, Measure!Of
<1>5. \A e \in log : Compatible(e, n) /\ Compatible(n, e)
  BY <1>1, <1>4 DEF Compatible, Ends
<1>6. LogOK(log', plan, instant)
  BY <1>1, <1>2, <1>3, <1>5, LogGrows DEF MeasurementInv
<1>7. QED
  BY <1>1, <1>6 DEF MeasurementInv, Measure!Seated, Measure!Sessions

LEMMA MeasurementNext == MeasurementInv /\ Measure!Next => MeasurementInv'
<1> SUFFICES ASSUME MeasurementInv, Measure!Next PROVE MeasurementInv'
  OBVIOUS
<1>1. ASSUME NEW p \in Measure!Seated, NEW effectiveAt,
             Measure!Include(p) \/ Measure!Exclude(p, effectiveAt)
      PROVE  MeasurementInv'
  <2>1. /\ plan' = plan /\ log' = log /\ instant' = instant
        /\ disposition' \in [Measure!Seated -> {"PENDING", "INCLUDED", "EXCLUDED"}]
    BY <1>1 DEF Measure!Include, Measure!Exclude, MeasurementInv
  <2>2. QED
    BY <2>1 DEF MeasurementInv, Measure!Seated, Measure!Sessions
<1>2. CASE Measure!Pass
  <2>1. /\ plan' = plan /\ log' = log /\ instant' = instant + 1 /\ disposition' = disposition
        /\ instant \in Nat
    BY <1>2 DEF Measure!Pass, MeasurementInv
  <2>2. \A e : Shaped(e, plan, instant) => Shaped(e, plan, instant + 1)
    BY <2>1 DEF Shaped
  <2>3. LogOK(log, plan, instant + 1)
    BY <2>2 DEF MeasurementInv, LogOK
  <2>4. QED
    BY <2>1, <2>3 DEF MeasurementInv, Measure!Seated, Measure!Sessions
<1>3. QED
  BY <1>1, <1>2, StartKept, RoundKept, EndKept, CorrectKept DEF Measure!Next

LEMMA MeasurementInit == Measure!Init => MeasurementInv
<1> SUFFICES ASSUME Measure!Init PROVE MeasurementInv
  OBVIOUS
<1>1. LogOK(log, plan, instant)
  BY DEF Measure!Init, LogOK
<1>2. QED
  BY <1>1 DEF Measure!Init, MeasurementInv

\* F is E without events of participants that are excluded; of the others both have the same.
Counted == {"INCLUDED", "MISSING"}
Erased(E, F, disp) ==
  /\ F \subseteq E
  /\ Measure!Corrections(E) = Measure!Corrections(F)
  /\ \A x \in E :
       x.family # "ROUND_CORRECTED" /\ Measure!State(x.session[1], disp) \in Counted =>
         /\ x \in F
         /\ \A e : e.session = x.session => (e \in E <=> e \in F)
         /\ \A e, n : e.session = <<x.session[1], n>> => (e \in E <=> e \in F)

LEMMA MixedSessionAlike ==
  ASSUME NEW E, NEW F, NEW disp, Erased(E, F, disp)
  PROVE  Measure!MixedSessionCompletion(E, disp) = Measure!MixedSessionCompletion(F, disp)
<1> DEFINE starts(L) == Measure!Of(L, "SESSION_STARTED")
           inView(L) == Measure!InState(starts(L), "INCLUDED", disp)
           missing(L) == Measure!InState(starts(L), "MISSING", disp)
           shown(L, s) == {d \in Measure!Of(L, "ROUND_DISPLAYED") : Measure!SameSession(d, s)}
           active(L, s) == {d \in shown(L, s) : d.round \notin Measure!Corrections(L)}
           revealed(L, s) == {d \in active(L, s) : \E r \in Measure!Of(L, "REVEAL_AUTHORIZED") :
                                                     Measure!SameRound(r, d)}
           noticed(L, s) == \A d \in shown(L, s) \ active(L, s) :
                              \E a \in Measure!Of(L, "CORRECTION_NOTICE_ACKNOWLEDGED") :
                                Measure!SameRound(a, d)
           ends(L, s, family) == {c \in Measure!Of(L, family) : Measure!SameSession(c, s)}
           Done(L, s) == \E c \in ends(L, s, "SESSION_COMPLETED") :
                           /\ noticed(L, s) /\ c.detail = Measure!Cardinality(revealed(L, s))
                           /\ c.detail = Measure!Cardinality(active(L, s))
           Over(L, s) == /\ ends(L, s, "SESSION_COMPLETED") = {}
                         /\ ends(L, s, "SESSION_EXPIRED") # {}
           completed(L) == {s \in inView(L) : Done(L, s)}
           expired(L) == {s \in inView(L) : Over(L, s)}
<1>1. inView(E) = inView(F) /\ missing(E) = missing(F)
  BY DEF Erased, Counted, Measure!InState, Measure!Of
<1>2. ASSUME NEW s \in inView(E)
      PROVE  /\ \A family : ends(E, s, family) = ends(F, s, family)
             /\ shown(E, s) = shown(F, s) /\ active(E, s) = active(F, s)
             /\ revealed(E, s) = revealed(F, s) /\ (noticed(E, s) <=> noticed(F, s))
  <2>1. /\ \A e : e.session = s.session => (e \in E <=> e \in F)
        /\ Measure!Corrections(E) = Measure!Corrections(F)
    BY DEF Erased, Counted, Measure!InState, Measure!Of
  <2>2. \A family : ends(E, s, family) = ends(F, s, family)
    BY <2>1 DEF Measure!Of, Measure!SameSession
  <2>3. shown(E, s) = shown(F, s) /\ active(E, s) = active(F, s)
    BY <2>1, <2>2
  <2>4. ASSUME NEW d \in shown(E, s), NEW family
        PROVE  \A r : r \in Measure!Of(E, family) /\ Measure!SameRound(r, d) <=>
                      r \in Measure!Of(F, family) /\ Measure!SameRound(r, d)
    BY <2>1 DEF Measure!Of, Measure!SameSession, Measure!SameRound
  <2>5. revealed(E, s) = revealed(F, s)
    BY <2>3, <2>4
  <2>6. noticed(E, s) <=> noticed(F, s)
    BY <2>3, <2>4
  <2>7. QED
    BY <2>2, <2>3, <2>5, <2>6
<1>3. completed(E) = completed(F) /\ expired(E) = expired(F)
  <2> HIDE DEF shown, active, revealed, noticed, ends
  <2>1. ASSUME NEW s \in inView(E)
        PROVE  (Done(E, s) <=> Done(F, s)) /\ (Over(E, s) <=> Over(F, s))
    BY <1>2
  <2> HIDE DEF Done, Over, inView
  <2>2. QED
    BY <1>1, <2>1
<1>4. /\ Measure!MixedSessionCompletion(E, disp) =
           Measure!Metric(starts(E), inView(E), completed(E),
                          missing(E) \cup (inView(E) \ (completed(E) \cup expired(E))))
      /\ Measure!MixedSessionCompletion(F, disp) =
           Measure!Metric(starts(F), inView(F), completed(F),
                          missing(F) \cup (inView(F) \ (completed(F) \cup expired(F))))
  BY DEF Measure!MixedSessionCompletion
<1> HIDE DEF completed, expired, inView, missing
<1>5. QED
  BY <1>1, <1>3, <1>4 DEF Measure!Metric

\* The others are those of the opportunities whose participant is not excluded.
LEMMA VoluntaryReturnAlike ==
  ASSUME NEW E, NEW F, NEW disp, Erased(E, F, disp), NEW all, NEW others,
         others \subseteq all,
         \A o \in all : Measure!State(o.session[1], disp) \in Counted => o \in others,
         ~Measure!Unfounded(E, all)
  PROVE  Measure!VoluntaryReturn(E, disp, all) = Measure!VoluntaryReturn(F, disp, others)
<1> DEFINE inState(set, state) == Measure!InState(set, state, disp)
           entitled(set) == {o \in inState(set, "INCLUDED") :
                               /\ "platformIncidentBlocked" \notin o.flags
                               /\ {"consented", "eligible", "unrevoked"} \subseteq o.flags}
           inView(set) == {o \in entitled(set) : "fullWindowObserved" \in o.flags}
           returned(L, set) == {o \in inView(set) : Measure!Began(L, o.session[1], o.next)}
           missing(set) == inState(set, "MISSING") \cup (entitled(set) \ inView(set))
<1>1. /\ inState(all, "INCLUDED") = inState(others, "INCLUDED")
      /\ inState(all, "MISSING") = inState(others, "MISSING")
  BY DEF Counted, Measure!InState
<1>2. ASSUME NEW o \in inState(all, "INCLUDED"), NEW n
      PROVE  Measure!Began(E, o.session[1], n) <=> Measure!Began(F, o.session[1], n)
  <2>1. o \in all /\ Measure!State(o.session[1], disp) \in Counted
    BY <1>2 DEF Counted, Measure!InState
  <2>2. PICK x \in E : /\ x.family = "SESSION_STARTED"
                       /\ x.session = <<o.session[1], o.session[2]>>
    BY <2>1 DEF Measure!Unfounded, Measure!Began, Measure!Of
  <2>3. x.session[1] = o.session[1]
    BY <2>2
  <2>4. \A e : e.session = <<o.session[1], n>> => (e \in E <=> e \in F)
    BY <2>1, <2>2, <2>3 DEF Erased
  <2>5. QED
    BY <2>4 DEF Measure!Began, Measure!Of
<1> HIDE DEF inState
<1>3. entitled(all) = entitled(others)
  BY <1>1
<1>4. entitled(all) \subseteq inState(all, "INCLUDED")
  OBVIOUS
<1> HIDE DEF entitled
<1>5. inView(all) = inView(others) /\ inView(all) \subseteq inState(all, "INCLUDED")
  BY <1>3, <1>4
<1> HIDE DEF inView
<1>6. returned(E, all) = returned(F, others) /\ missing(all) = missing(others)
  BY <1>1, <1>2, <1>3, <1>5
<1>7. \A L, set : Measure!VoluntaryReturn(L, disp, set) =
                    Measure!Metric(set, inView(set), returned(L, set), missing(set))
  BY DEF Measure!VoluntaryReturn, inState, entitled, inView
<1> HIDE DEF missing, returned
<1>8. QED
  BY <1>5, <1>6, <1>7 DEF Measure!Metric

\* What is read of the session and of the round of a unit.
LEMMA UnitAlike ==
  ASSUME NEW E, NEW F, NEW disp, Erased(E, F, disp), NEW x \in E,
         x.family # "ROUND_CORRECTED", Measure!State(x.session[1], disp) \in Counted
  PROVE  /\ \A family : {e \in Measure!Of(E, family) : Measure!SameSession(e, x)} =
                          {e \in Measure!Of(F, family) : Measure!SameSession(e, x)}
         /\ \A family : {e \in Measure!Of(E, family) : Measure!SameRound(e, x)} =
                          {e \in Measure!Of(F, family) : Measure!SameRound(e, x)}
         /\ Measure!Revealed(E, x) <=> Measure!Revealed(F, x)
         /\ Measure!EndedIn(E, x) <=> Measure!EndedIn(F, x)
         /\ Measure!Following(E, x) = Measure!Following(F, x)
         /\ Measure!FirstLater(E, x) = Measure!FirstLater(F, x)
<1>1. /\ \A e : e.session = x.session => (e \in E <=> e \in F)
      /\ Measure!Corrections(E) = Measure!Corrections(F)
  BY DEF Erased
<1>2. \A family : {e \in Measure!Of(E, family) : Measure!SameSession(e, x)} =
                    {e \in Measure!Of(F, family) : Measure!SameSession(e, x)}
  BY <1>1 DEF Measure!Of, Measure!SameSession
<1>3. \A family : {e \in Measure!Of(E, family) : Measure!SameRound(e, x)} =
                    {e \in Measure!Of(F, family) : Measure!SameRound(e, x)}
  BY <1>1 DEF Measure!Of, Measure!SameRound
<1>4. Measure!Revealed(E, x) <=> Measure!Revealed(F, x)
  BY <1>1 DEF Measure!Of, Measure!SameRound, Measure!Revealed
<1>5. Measure!EndedIn(E, x) <=> Measure!EndedIn(F, x)
  BY <1>1 DEF Measure!Of, Measure!SameSession, Measure!EndedIn
<1>6. {e \in Measure!Displays(E) : Measure!SameSession(e, x) /\ e.round > x.round} =
        {e \in Measure!Displays(F) : Measure!SameSession(e, x) /\ e.round > x.round}
  BY <1>1 DEF Measure!Of, Measure!SameSession, Measure!Displays
<1>7. Measure!Following(E, x) = Measure!Following(F, x)
  BY <1>1, <1>6 DEF Measure!Following
<1>8. Measure!FirstLater(E, x) = Measure!FirstLater(F, x)
  <2>1. \A e : e \in Measure!Displays(E) /\ Measure!SameSession(e, x) <=>
               e \in Measure!Displays(F) /\ Measure!SameSession(e, x)
    BY <1>1 DEF Measure!Of, Measure!SameSession, Measure!Displays
  <2>2. QED
    BY <2>1 DEF Measure!FirstLater
<1>9. QED
  BY <1>2, <1>3, <1>4, <1>5, <1>7, <1>8

\* The displays of rounds that are not corrected, by the state of their participants.
LEMMA DisplaysAlike ==
  ASSUME NEW E, NEW F, NEW disp, Erased(E, F, disp), NEW st \in Counted
  PROVE  /\ Measure!InState(Measure!ActiveDisplays(E), st, disp) =
              Measure!InState(Measure!ActiveDisplays(F), st, disp)
         /\ \A d \in Measure!InState(Measure!ActiveDisplays(E), st, disp) :
              /\ d \in E /\ d.family # "ROUND_CORRECTED"
              /\ Measure!State(d.session[1], disp) \in Counted
BY DEF Erased, Measure!InState, Measure!ActiveDisplays, Measure!Displays, Measure!Of

LEMMA ModesAlike ==
  ASSUME NEW E, NEW F, NEW disp, Erased(E, F, disp), NEW mode
  PROVE  /\ Measure!ModeAbandonment(mode, E, disp) = Measure!ModeAbandonment(mode, F, disp)
         /\ Measure!ModeClueUse(mode, E, disp) = Measure!ModeClueUse(mode, F, disp)
<1> DEFINE units(L) == {d \in Measure!ActiveDisplays(L) : RoundMode[d.round] = mode}
           inView(L) == Measure!InState(units(L), "INCLUDED", disp)
           missing(L) == Measure!InState(units(L), "MISSING", disp)
<1>1. \A L : /\ inView(L) = {d \in Measure!InState(Measure!ActiveDisplays(L), "INCLUDED", disp) :
                               RoundMode[d.round] = mode}
             /\ missing(L) = {d \in Measure!InState(Measure!ActiveDisplays(L), "MISSING", disp) :
                                RoundMode[d.round] = mode}
  BY DEF Measure!InState
<1>2. inView(E) = inView(F) /\ missing(E) = missing(F)
  <2>1. \A st \in Counted : Measure!InState(Measure!ActiveDisplays(E), st, disp) =
                             Measure!InState(Measure!ActiveDisplays(F), st, disp)
    BY DisplaysAlike
  <2>2. "INCLUDED" \in Counted /\ "MISSING" \in Counted
    BY DEF Counted
  <2> HIDE DEF inView, missing
  <2>3. QED
    BY <1>1, <2>1, <2>2
<1>3. ASSUME NEW d \in inView(E)
      PROVE  /\ \A family : {e \in Measure!Of(E, family) : Measure!SameSession(e, d)} =
                              {e \in Measure!Of(F, family) : Measure!SameSession(e, d)}
             /\ \A family : {e \in Measure!Of(E, family) : Measure!SameRound(e, d)} =
                              {e \in Measure!Of(F, family) : Measure!SameRound(e, d)}
             /\ Measure!EndedIn(E, d) <=> Measure!EndedIn(F, d)
  <2>1. /\ d \in E /\ d.family # "ROUND_CORRECTED"
        /\ Measure!State(d.session[1], disp) \in Counted
    BY <1>1, DisplaysAlike DEF Counted
  <2>2. QED
    BY <2>1, UnitAlike
<1>4. Measure!ModeAbandonment(mode, E, disp) = Measure!ModeAbandonment(mode, F, disp)
  <2> DEFINE expiry(L, d) == {e \in Measure!Of(L, "SESSION_EXPIRED") : Measure!SameSession(e, d)}
             Ans(L, d) == \E a \in Measure!Of(L, "ANSWER_ACCEPTED") :
                            Measure!SameRound(a, d) /\ \A e \in expiry(L, d) : a.at <= e.at
             Left(L, d) == \E e \in expiry(L, d) : d.at <= e.at
             answered(L) == {d \in inView(L) : Ans(L, d)}
             abandoned(L) == {d \in inView(L) \ answered(L) : Left(L, d)}
  <2>1. ASSUME NEW d \in inView(E)
        PROVE  (Ans(E, d) <=> Ans(F, d)) /\ (Left(E, d) <=> Left(F, d))
    <3>1. expiry(E, d) = expiry(F, d)
      BY <1>3
    <3>2. {e \in Measure!Of(E, "ANSWER_ACCEPTED") : Measure!SameRound(e, d)} =
            {e \in Measure!Of(F, "ANSWER_ACCEPTED") : Measure!SameRound(e, d)}
      BY <1>3
    <3> HIDE DEF expiry, inView
    <3>3. QED
      BY <3>1, <3>2
  <2> HIDE DEF Ans, Left, inView
  <2>2. answered(E) = answered(F) /\ abandoned(E) = abandoned(F)
    BY <1>2, <2>1
  <2>3. \A L : Measure!ModeAbandonment(mode, L, disp) =
                 Measure!Metric(units(L), inView(L), abandoned(L),
                                missing(L) \cup (inView(L) \ (answered(L) \cup abandoned(L))))
    BY DEF Measure!ModeAbandonment, Ans, Left, inView
  <2> HIDE DEF answered, abandoned, missing
  <2>4. QED
    BY <1>2, <2>2, <2>3 DEF Measure!Metric
<1>5. Measure!ModeClueUse(mode, E, disp) = Measure!ModeClueUse(mode, F, disp)
  <2> DEFINE Has1(L, family, d) == \E c \in Measure!Of(L, family) : Measure!SameRound(c, d)
             clued(L) == {d \in inView(L) : Has1(L, "CLUE_REVEALED", d)}
             answered(L) == {d \in inView(L) : Has1(L, "ANSWER_ACCEPTED", d)}
             open(L) == {d \in inView(L) \ (clued(L) \cup answered(L)) : ~Measure!EndedIn(L, d)}
  <2>1. ASSUME NEW d \in inView(E), NEW family
        PROVE  Has1(E, family, d) <=> Has1(F, family, d)
    BY <1>3
  <2>2. \A d \in inView(E) : Measure!EndedIn(E, d) <=> Measure!EndedIn(F, d)
    BY <1>3
  <2> HIDE DEF Has1, inView
  <2>3. clued(E) = clued(F) /\ answered(E) = answered(F) /\ open(E) = open(F)
    BY <1>2, <2>1, <2>2
  <2>4. \A L : Measure!ModeClueUse(mode, L, disp) =
                 Measure!Metric(units(L), inView(L), clued(L), missing(L) \cup open(L))
    BY DEF Measure!ModeClueUse, Has1, inView
  <2> HIDE DEF clued, answered, open, missing
  <2>5. QED
    BY <1>2, <2>3, <2>4 DEF Measure!Metric
<1>6. QED
  BY <1>4, <1>5

LEMMA TransitionAlike ==
  ASSUME NEW E, NEW F, NEW disp, Erased(E, F, disp)
  PROVE  Measure!TransitionContinuation(E, disp) = Measure!TransitionContinuation(F, disp)
<1> DEFINE units(L) == {d \in Measure!ActiveDisplays(L) : d.round <= 4 /\ Measure!Revealed(L, d)}
           inView(L) == Measure!InState(units(L), "INCLUDED", disp)
           missing(L) == Measure!InState(units(L), "MISSING", disp)
           continued(L) == {d \in inView(L) : Measure!Following(L, d) # {}}
           into(L) == UNION {Measure!FirstLater(L, d) \cup Measure!Following(L, d) :
                               d \in inView(L)}
           open(L) == {d \in inView(L) \ continued(L) : ~Measure!EndedIn(L, d)}
           unrevealed(L) == {d \in Measure!Unrevealed(L, disp) : d.round <= 4 /\ d \notin into(L)}
           active(L, st) == Measure!InState(Measure!ActiveDisplays(L), st, disp)
<1>1. "INCLUDED" \in Counted /\ "MISSING" \in Counted
  BY DEF Counted
<1>2. \A st \in Counted : active(E, st) = active(F, st)
  BY DisplaysAlike
<1>3. ASSUME NEW st \in Counted, NEW d \in active(E, st)
      PROVE  /\ Measure!Revealed(E, d) <=> Measure!Revealed(F, d)
             /\ Measure!EndedIn(E, d) <=> Measure!EndedIn(F, d)
             /\ Measure!Following(E, d) = Measure!Following(F, d)
             /\ Measure!FirstLater(E, d) = Measure!FirstLater(F, d)
  <2>1. /\ d \in E /\ d.family # "ROUND_CORRECTED"
        /\ Measure!State(d.session[1], disp) \in Counted
    BY DisplaysAlike
  <2>2. QED
    BY <2>1, UnitAlike
<1>4. \A L : /\ inView(L) = {d \in active(L, "INCLUDED") :
                               d.round <= 4 /\ Measure!Revealed(L, d)}
             /\ missing(L) = {d \in active(L, "MISSING") :
                                d.round <= 4 /\ Measure!Revealed(L, d)}
             /\ Measure!Unrevealed(L, disp) = {d \in active(L, "INCLUDED") :
                                                 ~Measure!Revealed(L, d)}
  BY DEF Measure!InState, Measure!Unrevealed
<1> HIDE DEF active, inView, missing
<1>5. /\ inView(E) = inView(F) /\ missing(E) = missing(F)
      /\ Measure!Unrevealed(E, disp) = Measure!Unrevealed(F, disp)
  BY <1>1, <1>2, <1>3, <1>4
<1>6. ASSUME NEW d \in inView(E)
      PROVE  /\ Measure!EndedIn(E, d) <=> Measure!EndedIn(F, d)
             /\ Measure!Following(E, d) = Measure!Following(F, d)
             /\ Measure!FirstLater(E, d) = Measure!FirstLater(F, d)
  BY <1>1, <1>3, <1>4
<1>7. continued(E) = continued(F) /\ into(E) = into(F)
  BY <1>5, <1>6
<1> HIDE DEF continued, into
<1>8. open(E) = open(F) /\ unrevealed(E) = unrevealed(F)
  BY <1>5, <1>6, <1>7
<1>9. \A L : Measure!TransitionContinuation(L, disp) =
               Measure!Metric(units(L), inView(L), continued(L),
                              missing(L) \cup open(L) \cup unrevealed(L))
  BY DEF Measure!TransitionContinuation, continued, into, inView, missing
<1> HIDE DEF open, unrevealed
<1>10. QED
  BY <1>5, <1>7, <1>8, <1>9 DEF Measure!Metric

LEMMA ChanceAlike ==
  ASSUME NEW E, NEW F, NEW disp, Erased(E, F, disp), NEW mode
  PROVE  Measure!ChanceAware(mode, E, disp) = Measure!ChanceAware(mode, F, disp)
<1> DEFINE units(L) == {a \in Measure!Of(L, "ANSWER_ACCEPTED") :
                          /\ RoundMode[a.round] = mode
                          /\ a.round \notin Measure!Corrections(L)}
           inView(L) == Measure!InState(units(L), "INCLUDED", disp)
           missing(L) == Measure!InState(units(L), "MISSING", disp)
           revealed(L) == {a \in inView(L) : Measure!Revealed(L, a)}
<1>1. inView(E) = inView(F) /\ missing(E) = missing(F)
  BY DEF Erased, Counted, Measure!InState, Measure!Of
<1>2. ASSUME NEW a \in inView(E)
      PROVE  Measure!Revealed(E, a) <=> Measure!Revealed(F, a)
  <2>1. a \in E /\ a.family # "ROUND_CORRECTED" /\ Measure!State(a.session[1], disp) \in Counted
    BY DEF Counted, Measure!InState, Measure!Of
  <2>2. QED
    BY <2>1, UnitAlike
<1>3. \A L : Measure!ChanceAware(mode, L, disp) =
               Measure!Metric(units(L), inView(L), revealed(L),
                              missing(L) \cup (inView(L) \ revealed(L)))
  BY DEF Measure!ChanceAware
<1> HIDE DEF inView, missing
<1>4. revealed(E) = revealed(F)
  BY <1>1, <1>2
<1> HIDE DEF revealed
<1>5. QED
  BY <1>1, <1>3, <1>4 DEF Measure!Metric

LEMMA MeasuresAlike ==
  ASSUME NEW E, NEW F, NEW disp, Erased(E, F, disp)
  PROVE  Measure!Measures(E, disp) = Measure!Measures(F, disp)
<1>1. [m \in Measure!Modes |-> <<Measure!ModeAbandonment(m, E, disp),
                                  Measure!ModeClueUse(m, E, disp)>>] =
      [m \in Measure!Modes |-> <<Measure!ModeAbandonment(m, F, disp),
                                  Measure!ModeClueUse(m, F, disp)>>]
  BY ModesAlike
<1>2. QED
  BY <1>1, MixedSessionAlike, TransitionAlike DEF Measure!Measures

-----------------------------------------------------------------------------
\* The log without the events of the excluded, at a boundary and as a whole.
LEMMA ExcludedErased ==
  ASSUME MeasurementInv, NEW gone,
         gone = {p \in Measure!Seated : disposition[p] = "EXCLUDED"},
         NEW left, left = {e \in log : e.session = << >> \/ e.session[1] \notin gone}
  PROVE  /\ Erased(log, left, disposition)
         /\ \A b \in 0..instant :
              Erased(Measure!Observed(log, b), Measure!Observed(left, b), disposition)
<1>1. ASSUME NEW e \in log
      PROVE  /\ e.family = "ROUND_CORRECTED" => e.session = << >>
             /\ e.family # "ROUND_CORRECTED" => e.session \in DOMAIN plan
  BY DEF MeasurementInv, LogOK, Shaped
<1>2. ASSUME NEW s \in DOMAIN plan
      PROVE  s[1] \in Measure!Seated /\ s # << >> /\ s = <<s[1], s[2]>>
  <2>1. s \in Players \X BetaDays
    BY PlansAreFive DEF MeasurementInv
  <2>2. s = <<s[1], s[2]>>
    BY <2>1
  <2>3. <<s[1], s[2]>> # << >>
    OBVIOUS
  <2>4. QED
    BY <2>2, <2>3 DEF Measure!Seated, Measure!Sessions
<1>3. ASSUME NEW x \in log, x.family # "ROUND_CORRECTED",
             Measure!State(x.session[1], disposition) \in Counted
      PROVE  x.session[1] \notin gone /\ x.session # << >>
  <2>1. x.session # << >>
    BY <1>1, <1>2, <1>3
  <2>2. disposition[x.session[1]] # "EXCLUDED"
    BY <1>3 DEF Measure!State, Counted
  <2>3. QED
    BY <2>1, <2>2
<1>4. ASSUME NEW e \in log, e.session # << >>, e.session[1] \notin gone
      PROVE  e \in left
  BY <1>4
<1>5. \A e \in log : e.family = "ROUND_CORRECTED" => e \in left
  BY <1>1
<1>6. left \subseteq log
  OBVIOUS
<1>7. \A x, n : <<x, n>>[1] = x /\ <<x, n>> # << >>
  OBVIOUS
<1>8. ASSUME NEW E, NEW F, E \subseteq log, F = E \cap left
      PROVE  Erased(E, F, disposition)
  <2>1. Measure!Corrections(E) = Measure!Corrections(F)
    BY <1>5, <1>8 DEF Measure!Corrections, Measure!Of
  <2>2. ASSUME NEW x \in E, x.family # "ROUND_CORRECTED",
               Measure!State(x.session[1], disposition) \in Counted
        PROVE  /\ x \in F
               /\ \A e : e.session = x.session => (e \in E <=> e \in F)
               /\ \A e, n : e.session = <<x.session[1], n>> => (e \in E <=> e \in F)
    <3>1. x.session[1] \notin gone /\ x.session # << >>
      BY <1>3, <1>8, <2>2
    <3>2. \A e : e.session = x.session => (e \in E <=> e \in F)
      BY <1>4, <1>8, <3>1
    <3>3. ASSUME NEW e, NEW n, e.session = <<x.session[1], n>>, e \in E
          PROVE  e \in F
      <4>1. e.session[1] = x.session[1] /\ e.session # << >>
        BY <1>7, <3>3
      <4>2. e \in left
        BY <1>4, <1>8, <3>1, <3>3, <4>1
      <4>3. QED
        BY <1>8, <3>3, <4>2
    <3>4. QED
      BY <1>8, <2>2, <3>2, <3>3
  <2>3. QED
    BY <1>8, <2>1, <2>2 DEF Erased
<1>9. Erased(log, left, disposition)
  BY <1>6, <1>8
<1>10. ASSUME NEW b \in 0..instant
       PROVE  Erased(Measure!Observed(log, b), Measure!Observed(left, b), disposition)
  <2>1. /\ Measure!Observed(log, b) \subseteq log
        /\ Measure!Observed(left, b) = Measure!Observed(log, b) \cap left
    BY <1>6 DEF Measure!Observed
  <2>2. QED
    BY <1>8, <2>1
<1>11. QED
  BY <1>9, <1>10

LEMMA ExcludedLeaveNoTrace ==
  ASSUME MeasurementInv
  PROVE  Measure!ExclusionErases
<1> DEFINE gone == {p \in Measure!Seated : disposition[p] = "EXCLUDED"}
           left == {e \in log : e.session = << >> \/ e.session[1] \notin gone}
<1>1. /\ Erased(log, left, disposition)
      /\ \A b \in 0..instant :
           Erased(Measure!Observed(log, b), Measure!Observed(left, b), disposition)
  BY ExcludedErased
<1> HIDE DEF left, gone
<1>2. \A b \in 0..instant : Measure!Measures(Measure!Observed(log, b), disposition) =
                            Measure!Measures(Measure!Observed(left, b), disposition)
  BY <1>1, MeasuresAlike
<1>3. \A m \in Measure!Modes : Measure!ChanceAware(m, log, disposition) =
                               Measure!ChanceAware(m, left, disposition)
  BY <1>1, ChanceAlike
<1>4. ASSUME NEW b \in 0..instant, NEW opportunities \in OpportunitySets,
             ~Measure!Unfounded(Measure!Observed(log, b), opportunities)
      PROVE  Measure!VoluntaryReturn(Measure!Observed(log, b), disposition, opportunities) =
             Measure!VoluntaryReturn(Measure!Observed(left, b), disposition,
                                     {o \in opportunities : o.session[1] \notin gone})
  <2> DEFINE E == Measure!Observed(log, b)
             others == {o \in opportunities : o.session[1] \notin gone}
  <2>1. others \subseteq opportunities
    OBVIOUS
  <2>2. ASSUME NEW o \in opportunities, Measure!State(o.session[1], disposition) \in Counted
        PROVE  o \in others
    BY <2>2 DEF Counted, Measure!State, gone
  <2>3. QED
    BY <1>1, <1>4, <2>1, <2>2, VoluntaryReturnAlike
<1>5. QED
  BY <1>2, <1>3, <1>4 DEF Measure!ExclusionErases, gone, left

\* When no session runs, a display is of a session that ended, and was answered or abandoned.
LEMMA DisplaysSettled ==
  ASSUME MeasurementInv, \A s \in Measure!Sessions : ~Measure!Running(s),
         NEW O, O = Measure!Observed(log, instant), NEW d \in Measure!ActiveDisplays(O)
  PROVE  /\ d.session[1] \in Measure!Seated
         /\ Measure!EndedIn(O, d)
         /\ \/ \E a \in Measure!Of(O, "ANSWER_ACCEPTED") :
                 /\ Measure!SameRound(a, d)
                 /\ \A e \in {x \in Measure!Of(O, "SESSION_EXPIRED") : Measure!SameSession(x, d)} :
                      a.at <= e.at
            \/ \E e \in {x \in Measure!Of(O, "SESSION_EXPIRED") : Measure!SameSession(x, d)} :
                 d.at <= e.at
<1>1. /\ d \in O /\ d \in log /\ d.family = "ROUND_DISPLAYED"
      /\ d.round \notin Measure!Corrections(O)
  BY DEF Measure!ActiveDisplays, Measure!Displays, Measure!Of, Measure!Observed
<1>2. /\ \A e \in log : Shaped(e, plan, instant) /\ Grounded(e, log, plan)
      /\ \A e, f \in log : Compatible(e, f)
      /\ instant \in Nat
  BY DEF MeasurementInv, LogOK
<1>3. \A e \in log : e.family # "ROUND_CORRECTED" => e \in O
  BY <1>2 DEF Measure!Observed, Shaped
<1>4. d.session \in DOMAIN plan /\ d.round \in plan[d.session]
  BY <1>1, <1>2 DEF Shaped, OfRounds
<1>5. d.session[1] \in Measure!Seated
  BY <1>4 DEF Measure!Seated, Measure!Sessions
<1>6. Measure!Has("SESSION_STARTED", d.session, 0)
  BY <1>1, <1>2 DEF Grounded, By, Measure!Has
<1>7. PICK e \in log : e.family \in Ends /\ e.session = d.session
  BY <1>4, <1>6 DEF Measure!Running, Measure!Ended, Measure!Has, Measure!Sessions, Ends
<1>8. e \in O /\ d.at <= e.at
  <2>1. e.family # "ROUND_CORRECTED"
    BY <1>7 DEF Ends
  <2>2. d.at <= e.at
    BY <1>1, <1>2, <1>7 DEF Compatible
  <2>3. QED
    BY <1>3, <2>1, <2>2
<1>9. Measure!EndedIn(O, d)
  BY <1>7, <1>8 DEF Measure!EndedIn, Measure!Of, Measure!SameSession, Ends
<1>10. CASE e.family = "SESSION_EXPIRED"
  BY <1>5, <1>7, <1>8, <1>9, <1>10 DEF Measure!Of, Measure!SameSession
<1>11. CASE e.family = "SESSION_COMPLETED"
  <2>1. \/ By(log, "REVEAL_AUTHORIZED", d.session, d.round, e.at)
        \/ By(log, "ROUND_CORRECTED", << >>, d.round, e.at)
    BY <1>2, <1>4, <1>7, <1>11 DEF Grounded
  <2>2. e.at = e.accepted /\ e.accepted <= instant /\ e.accepted \in Nat
    BY <1>2, <1>11 DEF Shaped
  <2>3. ~By(log, "ROUND_CORRECTED", << >>, d.round, e.at)
    <3> SUFFICES ASSUME NEW f \in log, f.family = "ROUND_CORRECTED", f.round = d.round,
                        f.at <= e.at
                 PROVE  FALSE
      BY DEF By
    <3>1. f.accepted <= f.at /\ f.accepted \in Nat /\ f.at \in Nat
      BY <1>2 DEF Shaped
    <3>2. f.accepted <= instant /\ f.at <= instant
      BY <1>2, <2>2, <3>1
    <3>3. f \in O
      BY <3>2 DEF Measure!Observed
    <3>4. QED
      BY <1>1, <3>3 DEF Measure!Corrections, Measure!Of
  <2>4. PICK r \in log : /\ r.family = "REVEAL_AUTHORIZED" /\ r.session = d.session
                         /\ r.round = d.round
    BY <2>1, <2>3 DEF By
  <2>5. PICK a \in log : /\ a.family = "ANSWER_ACCEPTED" /\ a.session = d.session
                         /\ a.round = d.round
    BY <1>2, <2>4 DEF Grounded, By
  <2>6. a \in Measure!Of(O, "ANSWER_ACCEPTED") /\ Measure!SameRound(a, d)
    BY <1>3, <2>5 DEF Measure!Of, Measure!SameRound
  <2>7. ASSUME NEW x \in Measure!Of(O, "SESSION_EXPIRED"), Measure!SameSession(x, d)
        PROVE  FALSE
    <3>1. x \in log /\ x.family = "SESSION_EXPIRED" /\ x.session = e.session
      BY <1>7, <2>7 DEF Measure!Of, Measure!SameSession, Measure!Observed
    <3>2. Compatible(e, x)
      BY <1>2, <3>1
    <3>3. QED
      BY <1>11, <3>1, <3>2 DEF Compatible, Ends
  <2>8. QED
    BY <1>5, <1>9, <2>6, <2>7
<1>12. QED
  BY <1>7, <1>10, <1>11 DEF Ends

LEMMA EndedAreSettled ==
  ASSUME MeasurementInv
  PROVE  Measure!EndedIsSettled
<1> SUFFICES ASSUME \A s \in Measure!Sessions : ~Measure!Running(s), NEW m \in Measure!Modes
             PROVE  LET O == Measure!Observed(log, instant)
                        unknown == {d \in Measure!ActiveDisplays(O) :
                                      /\ RoundMode[d.round] = m
                                      /\ disposition[d.session[1]] = "PENDING"}
                    IN  /\ Measure!ModeAbandonment(m, O, disposition).missing =
                             Measure!Cardinality(unknown)
                        /\ Measure!ModeClueUse(m, O, disposition).missing =
                             Measure!Cardinality(unknown)
  BY DEF Measure!EndedIsSettled
<1> DEFINE O == Measure!Observed(log, instant)
           units == {d \in Measure!ActiveDisplays(O) : RoundMode[d.round] = m}
           unknown == {d \in Measure!ActiveDisplays(O) :
                         RoundMode[d.round] = m /\ disposition[d.session[1]] = "PENDING"}
           inView == Measure!InState(units, "INCLUDED", disposition)
           missing == Measure!InState(units, "MISSING", disposition)
           expiry(d) == {e \in Measure!Of(O, "SESSION_EXPIRED") : Measure!SameSession(e, d)}
           Ans(d) == \E a \in Measure!Of(O, "ANSWER_ACCEPTED") :
                       Measure!SameRound(a, d) /\ \A e \in expiry(d) : a.at <= e.at
           Left(d) == \E e \in expiry(d) : d.at <= e.at
           answered == {d \in inView : Ans(d)}
           abandoned == {d \in inView \ answered : Left(d)}
           Used(d, family) == \E c \in Measure!Of(O, family) : Measure!SameRound(c, d)
           clued == {d \in inView : Used(d, "CLUE_REVEALED")}
           replied == {d \in inView : Used(d, "ANSWER_ACCEPTED")}
           open == {d \in inView \ (clued \cup replied) : ~Measure!EndedIn(O, d)}
<1>1. ASSUME NEW d \in Measure!ActiveDisplays(O)
      PROVE  d.session[1] \in Measure!Seated /\ Measure!EndedIn(O, d) /\ (Ans(d) \/ Left(d))
  BY DisplaysSettled
<1>2. missing = unknown
  <2>1. \A p \in Measure!Seated : Measure!State(p, disposition) = "MISSING" <=>
                                    disposition[p] = "PENDING"
    BY DEF MeasurementInv, Measure!State
  <2> HIDE DEF O
  <2>2. QED
    BY <1>1, <2>1 DEF Measure!InState
<1>3. /\ Measure!ModeAbandonment(m, O, disposition) =
           Measure!Metric(units, inView, abandoned,
                          missing \cup (inView \ (answered \cup abandoned)))
      /\ Measure!ModeClueUse(m, O, disposition) =
           Measure!Metric(units, inView, clued, missing \cup open)
  BY DEF Measure!ModeAbandonment, Measure!ModeClueUse
<1>4. inView \subseteq Measure!ActiveDisplays(O)
  BY DEF Measure!InState
<1> HIDE DEF O, inView, missing, unknown, Ans, Left, Used, units
<1>5. inView \ (answered \cup abandoned) = {}
  BY <1>1, <1>4
<1>6. open = {}
  BY <1>1, <1>4
<1> HIDE DEF answered, abandoned, open, clued
<1>7. missing \cup (inView \ (answered \cup abandoned)) = unknown /\ missing \cup open = unknown
  BY <1>2, <1>5, <1>6
<1>8. /\ Measure!ModeAbandonment(m, O, disposition) =
           Measure!Metric(units, inView, abandoned, unknown)
      /\ Measure!ModeClueUse(m, O, disposition) =
           Measure!Metric(units, inView, clued, unknown)
  BY <1>3, <1>7
<1>9. \A hits : Measure!Metric(units, inView, hits, unknown).missing =
                  Measure!Cardinality(unknown)
  BY DEF Measure!Metric
<1>10. /\ Measure!ModeAbandonment(m, O, disposition).missing = Measure!Cardinality(unknown)
       /\ Measure!ModeClueUse(m, O, disposition).missing = Measure!Cardinality(unknown)
  BY <1>8, <1>9
<1>11. QED
  BY <1>10 DEF O, unknown

-----------------------------------------------------------------------------
LEMMA MeasurementUntouched == MeasurementInv /\ UNCHANGED measurement => MeasurementInv'
<1> SUFFICES ASSUME MeasurementInv, UNCHANGED measurement PROVE MeasurementInv'
  OBVIOUS
<1>1. UNCHANGED <<plan, log, disposition, excludedAt, instant>>
  BY DEF measurement
<1>2. QED
  BY <1>1 DEF MeasurementInv, Measure!Seated, Measure!Sessions

(* A log of sessions is measured at every boundary by which its exclusions *)
(* are in effect, whoever is excluded leaves no trace in a measure, and of *)
(* a session that has ended nothing is missing but a disposition           *)
(* (calculateCoherenceMeasures).                                           *)
THEOREM MeasuresAlwaysSound == Spec => []MeasuresAreSound
<1>1. Init => MeasurementInv
  BY MeasurementInit DEF Init
<1>2. MeasurementInv /\ [Next]_vars => MeasurementInv'
  <2> SUFFICES ASSUME MeasurementInv, [Next]_vars PROVE MeasurementInv'
    OBVIOUS
  <2>1. CASE MeasurementStep
    BY <2>1, MeasurementNext DEF MeasurementStep
  <2>2. CASE UNCHANGED measurement
    BY <2>2, MeasurementUntouched
  <2>3. QED
    BY <2>1, <2>2 DEF Next, vars, StoreStep, PreparationStep, RuntimeStep, WalkStep, CorpusStep,
                      AuthorizationStep
<1>3. MeasurementInv => MeasuresAreSound
  <2> SUFFICES ASSUME MeasurementInv PROVE Measure!MeasuresAreSound
    BY DEF MeasuresAreSound
  <2>1. Measure!LegalLogsAreMeasured
    BY MeasuredAtBoundary DEF Measure!LegalLogsAreMeasured
  <2>2. QED
    BY <2>1, ExcludedLeaveNoTrace, EndedAreSettled DEF Measure!MeasuresAreSound
<1>4. QED
  BY <1>1, <1>2, <1>3, PTL DEF Spec
=============================================================================
