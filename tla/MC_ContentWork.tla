--------------------------- MODULE MC_ContentWork ---------------------------
(* One small instance of every part, see the README for the bounds.        *)
EXTENDS ContentWork

MCConfigurations == <<"Python", "TypeScript">>

\* The walk. Small repositories differ in the texts of one file before and after, in the
\* commit, or in the licence; a deep one has a directory that occurs twice, an excluded name,
\* a file that does not pass the screen and, in a variant, a submodule.
Entry(n, t, i) == [name |-> n, type |-> t, id |-> i]
File(safe, text) == [safe |-> safe, text |-> text]
Commit(lines, bot) == [lines |-> lines, bot |-> bot]
MarkerRule(i, k, m, c, named) ==
  [id |-> i, kind |-> k, mark |-> m, classification |-> c, named |-> named, documented |-> TRUE]
MCRules ==
  {MarkerRule("r1", "marker", "m1", "NAMED_MODEL_RECORDED", TRUE),
   MarkerRule("r2", "verified-bot", "bot", "AGENT_RECORDED", FALSE),
   MarkerRule("r3", "marker", "m2", "AGENT_RECORDED", TRUE)}
Roots == [child |-> "t1", parent |-> "t2"]
Flat(before, after) ==
  [purpose |-> "RECORDED_AGENT_PARTICIPATION_CANDIDATE", root |-> Roots, licensed |-> TRUE,
   commit |-> Commit({"m1"}, "none"),
   trees |-> [t \in {"t1", "t2", "t3", "t4"} |->
     CASE t = "t1" -> <<Entry("src", "tree", "t3"), Entry("LICENSE", "blob", "l")>>
       [] t = "t2" -> <<Entry("src", "tree", "t4")>>
       [] t = "t3" -> <<Entry("x.ts", "blob", "b1")>>
       [] OTHER -> <<Entry("x.ts", "blob", "b2")>>],
   blobs |-> [b \in {"b1", "b2", "l"} |->
     CASE b = "b1" -> File(TRUE, after) [] b = "b2" -> File(TRUE, before)
       [] OTHER -> File(FALSE, <<"l">>)]]
Deep(leaf) ==
  [purpose |-> "LANGUAGE_CANDIDATE", root |-> Roots, licensed |-> TRUE,
   commit |-> Commit({}, "none"),
   trees |-> [t \in {"t1", "t2", "t3", "t4", "t5"} |->
     CASE t = "t1" -> <<Entry("LICENSE", "blob", "l"), Entry("src", "tree", "t3"),
                        Entry("x", "symlink", "s")>>
       [] t = "t2" -> <<Entry("src", "tree", "t4")>>
       [] t = "t3" -> <<Entry("docs", "tree", "t5"), Entry("lib", "tree", "t5"),
                        Entry("x.ts", "blob", "b2")>>
       [] t = "t4" -> <<Entry("lib", "tree", "t5"), Entry("x.ts", "blob", "b2")>>
       [] OTHER -> <<Entry("x.ts", "blob", "b1"), leaf>>],
   blobs |-> [b \in {"b1", "b2", "l"} |-> File(b # "b2", <<b>>)]]
Texts == UNION {[1..n -> {"a", "b"}] : n \in 1..3} \cup {<<"#">>, <<"a", "#", "b">>}
MCRepositories ==
  {Flat(before, after) : before, after \in Texts}
    \cup {[Flat(<<"a">>, <<"b">>) EXCEPT !.commit = c] :
            c \in {Commit({"m2"}, "none"), Commit({"m1"}, "bot"), Commit({}, "bot"),
                   Commit({}, "none")}}
    \cup {[Flat(<<"a">>, <<"b">>) EXCEPT !.licensed = FALSE]}
    \cup {Deep(Entry("y.ts", "blob", "b2")), Deep(Entry("y", "submodule", "s"))}
MCSubtree == <<"src">>

\* Evidence, reviews and promotions. The rights reviewer's name holds a separator.
Opinion(r, w, q, d) == [role |-> r, who |-> w, qualified |-> q, decision |-> d, conflict |-> FALSE]
Both == {"language", "provenance"}
MCOpinions ==
  {Opinion("content-editor", <<"e">>, Both, "approve"),
   Opinion("technical-reviewer-a", <<"a">>, Both, "approve"),
   Opinion("technical-reviewer-b", <<"b">>, Both, "approve"),
   Opinion("technical-reviewer-b", <<"a">>, {"language"}, "approve"),
   Opinion("rights-safety-reviewer", <<"r", "|", "s">>, Both, "approve"),
   Opinion("rights-safety-reviewer", <<"r", "|", "s">>, Both, "reject")}
MCNameLists ==
  {<<<<"e">>, <<"a">>, <<"b">>, <<"r", "|", "s">>>>, <<<<"e">>, <<"a">>, <<"a">>, <<"r", "|", "s">>>>,
   <<<<"e">>, <<"a">>, <<"b", "|", "r">>, <<"s">>>>}
Draft(p, k, f, l) == [purpose |-> p, kind |-> k, diff |-> f, language |-> l]
LanguageDraft == Draft("LANGUAGE_CANDIDATE", "LANGUAGE_ONLY_NOT_APPLICABLE", FALSE, "rust")
MarkerDraft == Draft("RECORDED_AGENT_PARTICIPATION_CANDIDATE", "NAMED_MODEL_RECORDED", TRUE, "none")
MCDraftInputs ==
  {LanguageDraft, MarkerDraft,
   Draft("RECORDED_AGENT_PARTICIPATION_CANDIDATE", "AGENT_RECORDED", FALSE, "none"),
   Draft("LANGUAGE_CANDIDATE", "LANGUAGE_ONLY_NOT_APPLICABLE", TRUE, "go")}
Catalogue(m, a) == [mode |-> m, answer |-> a]
Rust == Catalogue("language", "rust")
Go == Catalogue("language", "go")
Provenance == Catalogue("provenance", "none")
MCCatalogues == {Rust, Go, Provenance}
Record(s, p, t, d, c) == [source |-> s, purpose |-> p, attested |-> t, draft |-> d, catalogue |-> c]
Licensed(d, c) == Record("licensed-github", d.purpose, FALSE, d, c)
Human(t) == Record("project-owned-human", None, t, None, Provenance)
MCRecords ==
  {<<Licensed(LanguageDraft, Rust), Licensed(LanguageDraft, Go)>>,
   <<Licensed(MarkerDraft, Provenance), Human(TRUE)>>,
   <<Human(FALSE)>>}

\* Authorizations: entries approved by two people, in time, too late or by one alone.
Approval(r, w, t) == [role |-> r, who |-> w, at |-> t]
PolicyApprovals(t) == {Approval("Don", "d", t), Approval("Rights/Safety Reviewer", "r", t)}
OperatorApprovals == {Approval("Release Operator", "o", 0), Approval("Security Reviewer", "s", 0)}
OneAlone == {Approval("Release Operator", "o", 0), Approval("Security Reviewer", "o", 0)}
Approved(c, i, p, f, th, a) ==
  [class |-> c, id |-> i, permits |-> p, from |-> f, through |-> th, approvals |-> a]
Repository == Approved("REPOSITORY_ADMISSION", 1, {"q", "r"}, 0, None, PolicyApprovals(0))
Attribution == Approved("ATTRIBUTION_MARKER", 2, {"q", "r"}, 0, None, PolicyApprovals(0))
LateAttribution == Approved("ATTRIBUTION_MARKER", 2, {"q", "r"}, 0, None, PolicyApprovals(1))
Operator == Approved("OPERATOR", 1, {"q"}, 0, 1, OperatorApprovals)
LoneOperator == Approved("OPERATOR", 2, {"q", "r"}, 1, None, OneAlone)
MCEntries == {Repository, Attribution, LateAttribution, Operator, LoneOperator}
MCRegisters ==
  {{Repository, Attribution, Operator, LoneOperator}, {Repository, LateAttribution, Operator}}
MCBindings ==
  {[c \in {"REPOSITORY_ADMISSION", "ATTRIBUTION_MARKER", "OPERATOR"} |->
      CASE c = "REPOSITORY_ADMISSION" -> 1 [] c = "ATTRIBUTION_MARKER" -> 2 [] OTHER -> i] :
     i \in {1, 2}}
Regime(s, a, g, e) == [selection |-> s, at |-> a, signed |-> g, effective |-> e]
MCRegimes ==
  {Regime("licensed-github-vs-project-controlled", 1, None, None),
   Regime("stack-overflow-enabled", 1, 0, 1), Regime("stack-overflow-enabled", 0, 0, 1)}

\* Measurement: a player with two days, two players who meet on one, and sessions without
\* rounds.
MCRoundMode == [r \in {1, 2} |-> IF r = 2 THEN "language" ELSE "provenance"]
MCPlans ==
  {[s \in {<<"p1", 1>>} |-> {1, 2}],
   [s \in {<<"p1", 1>>, <<"p2", 1>>} |-> IF s[1] = "p1" THEN {1} ELSE {}],
   [s \in {<<"p1", 1>>, <<"p1", 2>>, <<"p2", 2>>} |-> {}]}
\* Opportunities to return: one that counts, and those of two players of which one counts.
Entitled == {"consented", "eligible", "unrevoked"}
Return(p, d, n, flags) == [session |-> <<p, d>>, next |-> n, flags |-> flags]
MCOpportunitySets ==
  {{}, {Return("p1", 1, 2, Entitled \cup {"fullWindowObserved"})},
   {Return("p1", 1, 2, Entitled), Return("p2", 2, 1, Entitled \cup {"fullWindowObserved"}),
    Return("p1", 2, 1, Entitled \cup {"fullWindowObserved", "platformIncidentBlocked"})}}
=============================================================================
