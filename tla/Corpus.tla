------------------------------- MODULE Corpus -------------------------------
(***************************************************************************)
(* The way of one item into the corpus of the beta: its acquisition draft, *)
(* the catalogue entry written for it, the evidence records that bind      *)
(* them, the reviews of those records, the language certificate, the       *)
(* promotion and the readiness check of the inventory.                     *)
(*                                                                         *)
(* Each check is a pure function of what it is given, and the one who      *)
(* calls it may hold any version of every piece, so a check is given any   *)
(* mixture of them. A hash stands for the content it is taken of: two      *)
(* drafts with one hash are one draft. An evidence version names one       *)
(* record: what it binds never changes; its reviewers and its state are    *)
(* filled in later.                                                        *)
(***************************************************************************)
EXTENDS Integers, Sequences, FiniteSets, SequencesExt

CONSTANTS
  DraftInputs,   \* [purpose, kind, diff, language]: what the acquisition offers as a draft
  Catalogues,    \* [mode, answer]: catalogue entries an editor may write
  CandidateSets, \* versions of the answers a language round offers
  Records,       \* [evidence versions -> what each binds] an editor may write
  NameLists,     \* lists of reviewers an editor may write into a record
  Opinions,      \* [role, who, qualified, decision, conflict]: reviews somebody may give
  Selections,    \* source regimes the readiness check may be given
  MaxReviews,    \* bound on the reviews given
  MaxResults,    \* bound on the certificates, promotions and entries
  None

Modes == {"language", "provenance"}
Purpose == [mode \in Modes |-> IF mode = "language" THEN "LANGUAGE_CANDIDATE"
                               ELSE "RECORDED_AGENT_PARTICIPATION_CANDIDATE"]

\* Assumed of the constants, and evaluated where the module is composed.
CorpusAssumption ==
  /\ MaxReviews \in Nat /\ MaxResults \in Nat
  /\ \A catalogue \in Catalogues : catalogue.mode \in Modes

VARIABLES
  records,    \* evidence records, by version
  reviews,    \* reviews given, each to an evidence version
  certified,  \* language certificates
  promotions, \* what was promoted, with the receipt it was given
  inventory   \* entries that passed the readiness check

corpusVars == <<records, reviews, certified, promotions, inventory>>

InOrder == <<"content-editor", "technical-reviewer-a", "technical-reviewer-b",
             "rights-safety-reviewer">>
Roles == {InOrder[i] : i \in 1..4}
TechnicalRoles == {"technical-reviewer-a", "technical-reviewer-b"}
Versions == DOMAIN records
Room == Cardinality(certified) + Cardinality(promotions) + Cardinality(inventory) < MaxResults
-----------------------------------------------------------------------------
(* createAcquisitionDraft: a draft for the language mode carries a         *)
(* proposal and no diff or marker; one of recorded agent participation     *)
(* carries a marker and a diff and no proposal.                            *)

Compatible(input) ==
  \/ /\ input.purpose = "LANGUAGE_CANDIDATE"
     /\ input.kind = "LANGUAGE_ONLY_NOT_APPLICABLE"
     /\ ~input.diff /\ input.language # "none"
  \/ /\ input.purpose = "RECORDED_AGENT_PARTICIPATION_CANDIDATE"
     /\ input.kind \in {"NAMED_MODEL_RECORDED", "AGENT_RECORDED"}
     /\ input.diff /\ input.language = "none"

Drafts == {input \in DraftInputs : Compatible(input)}
-----------------------------------------------------------------------------
(* What people do: reviews, and the completion and correction of records.  *)
(* Nothing ties the reviewers a record lists to the reviews given.         *)

Review(v, opinion) ==
  /\ Cardinality(reviews) < MaxReviews
  /\ reviews' = reviews \cup {[version |-> v, opinion |-> opinion]}
  /\ UNCHANGED <<records, certified, promotions, inventory>>

CompleteEvidence(v, names) ==
  /\ records[v].state = "PENDING"
  /\ records' = [records EXCEPT ![v] = [@ EXCEPT !.reviewers = names, !.state = "ACTIVE"]]
  /\ UNCHANGED <<reviews, certified, promotions, inventory>>

CorrectEvidence(v) ==
  /\ records[v].state = "ACTIVE"
  /\ records' = [records EXCEPT ![v].state = "WITHDRAWN"]
  /\ UNCHANGED <<reviews, certified, promotions, inventory>>
-----------------------------------------------------------------------------
(* createPublicationEligibility: a panel of one review for each role, for  *)
(* an item of this mode. An opinion holds the modes its reviewer is        *)
(* qualified for in that role.                                             *)

Panels ==
  {panel \in SUBSET reviews :
     Cardinality(panel) = 4 /\ {review.opinion.role : review \in panel} = Roles}
Reviewers(panel) ==
  [role \in Roles |-> (CHOOSE review \in panel : review.opinion.role = role).opinion.who]

Approves(review, v, mode) ==
  /\ mode \in review.opinion.qualified
  /\ review.opinion.decision = "approve"
  /\ ~review.opinion.conflict
  /\ review.version = v

\* Fault: one person reviews in two roles.
EligibleByAnyone(panel, v, mode) == \A review \in panel : Approves(review, v, mode)
Eligible(panel, v, mode) ==
  /\ \A review \in panel : Approves(review, v, mode)
  /\ Cardinality({Reviewers(panel)[role] : role \in Roles}) = Cardinality(Roles)

(* createLanguageAmbiguityEligibility: both technical reviewers, the same  *)
(* as for publication, find the correct candidate of one candidate set the *)
(* only defensible one, and the rights reviewer disposes of deceptive      *)
(* controls in it. answers holds what each of them was shown and found.    *)
Answering == TechnicalRoles \cup {"rights-safety-reviewer"}
Certifies(answers, people, candidates) ==
  /\ \A role \in Answering : answers[role].who = people[role] /\ answers[role].shown = candidates
  /\ \A role \in TechnicalRoles : answers[role].alone

Certify(v, panel, candidates) ==
  /\ Room
  /\ Eligible(panel, v, "language")
  /\ \E who \in {Reviewers(panel), [role \in Roles |-> Reviewers(panel)["content-editor"]]} :
     \E shown \in [Answering -> CandidateSets], alone \in BOOLEAN :
       Certifies([role \in Answering |-> [who |-> who[role], shown |-> shown[role], alone |-> alone]],
                 Reviewers(panel), candidates)
  /\ certified' = certified \cup {[version |-> v, candidates |-> candidates,
                                   reviewers |-> Reviewers(panel)]}
  /\ UNCHANGED <<records, reviews, promotions, inventory>>
-----------------------------------------------------------------------------
(* A record is active, and the reviewers it lists, written one after the   *)
(* other with a separator, read as those of the panel do. A name is the    *)
(* sequence of its characters, as few as matter: one that holds the        *)
(* separator may be read as two. The panel is taken in the order of the    *)
(* roles; for another order the record would list the names in that one.   *)

Joined(names, separator) ==
  FoldLeft(LAMBDA line, name : IF line = <<>> THEN name ELSE line \o <<separator>> \o name,
           <<>>, names)
Listed(people, v, separator) ==
  Joined([i \in 1..4 |-> people[InOrder[i]]], separator) = Joined(records[v].reviewers, separator)
Active(panel, v, separator) ==
  records[v].state = "ACTIVE" /\ Listed(Reviewers(panel), v, separator)
-----------------------------------------------------------------------------
(* promoteAcquisitionDraft. The purpose of a record settles the status of  *)
(* its marker, and the other way round.                                    *)

(* The draft's purpose and marker are the record's and those of the        *)
(* catalogue's mode; the catalogue's correct answer is the language the    *)
(* draft proposed.                                                         *)
InMode(v, draft, catalogue) ==
  /\ draft.purpose = records[v].purpose
  /\ records[v].purpose = Purpose[catalogue.mode]
  /\ catalogue.mode = "language" => draft.language = catalogue.answer

Continuous(v, draft, catalogue) ==
  records[v].draft = draft /\ records[v].catalogue = catalogue /\ InMode(v, draft, catalogue)

PublicClaim(draft) ==
  CASE draft.kind = "NAMED_MODEL_RECORDED" -> "model"
    [] draft.kind = "AGENT_RECORDED" -> "agent"
    [] OTHER -> "none"

Receipt(v, draft, catalogue) ==
  [version |-> v, draft |-> draft, catalogue |-> catalogue, mode |-> catalogue.mode,
   purpose |-> records[v].purpose]

Promote(v, panel, draft, catalogue) ==
  /\ Room
  /\ records[v].source = "licensed-github"
  /\ Eligible(panel, v, catalogue.mode) /\ Active(panel, v, "|")
  /\ Continuous(v, draft, catalogue)
  /\ promotions' = promotions \cup {[receipt |-> Receipt(v, draft, catalogue),
                                     reviewers |-> Reviewers(panel), claim |-> PublicClaim(draft)]}
  /\ UNCHANGED <<records, reviews, certified, inventory>>
-----------------------------------------------------------------------------
(* evaluateCorpusReadiness of one entry, under the regime it is given. The *)
(* mode and the receipt are what the inventory says of the entry, and      *)
(* anyone may write a receipt. Items of Stack Overflow, whose coverage is  *)
(* a check of its own, are not among the records.                          *)

AllowedSources(selection) ==
  CASE selection = "licensed-github-vs-project-controlled" -> {"licensed-github", "project-owned-human"}
    [] selection = "project-owned-fallback" -> {"project-owned-human", "model-output"}
    [] selection = "stack-overflow-enabled" -> {"model-output", "stack-overflow"}

Receipts ==
  [version : Versions, draft : Drafts, catalogue : Catalogues, mode : Modes,
   purpose : {Purpose[mode] : mode \in Modes}] \cup {None}

(* What the receipt of a promoted item must repeat of the entry and of its *)
(* record.                                                                 *)
ReceiptBinds(receipt, v, mode) ==
  /\ receipt # None
  /\ receipt.version = v
  /\ receipt.mode = mode
  /\ receipt.purpose = records[v].purpose
  /\ receipt.draft = records[v].draft /\ receipt.catalogue = records[v].catalogue

(* An authentic inventory is of licensed items with a receipt and, in the  *)
(* provenance mode, of human work whose author attests it.                 *)
InActiveClass(v, mode, receipt) ==
  \/ /\ records[v].source = "licensed-github"
     /\ records[v].purpose = Purpose[mode]
     /\ ReceiptBinds(receipt, v, mode)
  \/ /\ mode = "provenance"
     /\ records[v].source = "project-owned-human"
     /\ records[v].attested
     /\ receipt = None

Assess(v, panel, mode, selection) ==
  /\ Room
  /\ records[v].source \in AllowedSources(selection)
  /\ Eligible(panel, v, mode) /\ Active(panel, v, "NUL")
  /\ \E fixtureKind \in {"SYNTHETIC_TEST_ONLY", "REVISION_7_AUTHENTIC"}, receipt \in Receipts :
       /\ fixtureKind = "REVISION_7_AUTHENTIC" => InActiveClass(v, mode, receipt)
       /\ inventory' = inventory \cup
            {[version |-> v, mode |-> mode, selection |-> selection, reviewers |-> Reviewers(panel),
              ready |-> fixtureKind = "REVISION_7_AUTHENTIC",
              receipt |-> IF fixtureKind = "REVISION_7_AUTHENTIC" THEN receipt ELSE None]}
  /\ UNCHANGED <<records, reviews, certified, promotions>>
-----------------------------------------------------------------------------
Unreviewed(written) ==
  [v \in DOMAIN written |->
     [source |-> written[v].source, purpose |-> written[v].purpose,
      attested |-> written[v].attested, draft |-> written[v].draft,
      catalogue |-> written[v].catalogue, reviewers |-> <<>>, state |-> "PENDING"]]

Init ==
  /\ \E written \in Records : records = Unreviewed(written)
  /\ reviews = {} /\ certified = {} /\ promotions = {} /\ inventory = {}

Next ==
  \E v \in Versions :
    \/ CorrectEvidence(v)
    \/ \E opinion \in Opinions : Review(v, opinion)
    \/ \E names \in NameLists : CompleteEvidence(v, names)
    \/ \E panel \in Panels :
         \/ \E candidates \in CandidateSets : Certify(v, panel, candidates)
         \/ \E draft \in Drafts, catalogue \in Catalogues : Promote(v, panel, draft, catalogue)
         \/ \E mode \in Modes, selection \in Selections : Assess(v, panel, mode, selection)

Spec == Init /\ [][Next]_corpusVars
-----------------------------------------------------------------------------
(* Properties.                                                             *)

\* Every variable keeps its type.
TypeOK ==
  /\ \A v \in Versions : records[v].state \in {"PENDING", "ACTIVE", "WITHDRAWN"}
  /\ reviews \subseteq [version : Versions, opinion : Opinions]
  /\ \A p \in promotions : p.receipt \in Receipts \ {None}
  /\ \A entry \in inventory :
       entry.version \in Versions /\ entry.selection \in Selections /\ entry.receipt \in Receipts

(* Four people, one in each role, approved this version, each qualified    *)
(* for the role in this mode and without a conflict.                       *)
ReviewedBy(people, v, mode) ==
  /\ \A r, s \in Roles : people[r] = people[s] => r = s
  /\ \A r \in Roles : \E review \in reviews :
       /\ review.version = v /\ review.opinion.role = r /\ review.opinion.who = people[r]
       /\ review.opinion.decision = "approve"
       /\ mode \in review.opinion.qualified /\ ~review.opinion.conflict

(* What was promoted is what the evidence binds: its answer is the one the *)
(* draft found, and no reveal names a model no marker named.               *)
PromotedAsBound(p) ==
  LET record == records[p.receipt.version]
  IN  /\ p.receipt.draft = record.draft /\ p.receipt.catalogue = record.catalogue
      /\ p.receipt.mode = p.receipt.catalogue.mode
      /\ p.receipt.mode = "language" => p.receipt.catalogue.answer = record.draft.language
      /\ p.claim = "model" => record.draft.kind = "NAMED_MODEL_RECORDED"

(* An entry is of a source its regime admits. One of an authentic          *)
(* inventory is, in the language mode, a licensed item, and an item that   *)
(* was promoted at any time is in it as it was promoted, in the mode and   *)
(* with the receipt of its promotion.                                      *)
EnteredAsPromoted(entry) ==
  LET source == records[entry.version].source
  IN  /\ source \in AllowedSources(entry.selection)
      /\ entry.ready => (entry.mode = "language" => source = "licensed-github")
      /\ entry.ready => \A p \in promotions :
            p.receipt.version = entry.version => p.receipt = entry.receipt

(* Whatever mixture of versions, lists and receipts the checks are given,  *)
(* and whatever the record lists as its reviewers: what was promoted is    *)
(* what the evidence binds, an entry of the inventory is what was promoted *)
(* if it was, and for each of them, certificates too, four people approved *)
(* that very version for its mode (createPublicationEligibility,           *)
(* createLanguageAmbiguityEligibility, promoteAcquisitionDraft,            *)
(* evaluateCorpusReadiness).                                               *)
InventoryIsReviewed ==
  /\ \A p \in promotions :
       PromotedAsBound(p) /\ ReviewedBy(p.reviewers, p.receipt.version, p.receipt.mode)
  /\ \A entry \in inventory :
       EnteredAsPromoted(entry) /\ ReviewedBy(entry.reviewers, entry.version, entry.mode)
  /\ \A certificate \in certified :
       ReviewedBy(certificate.reviewers, certificate.version, "language")
=============================================================================
