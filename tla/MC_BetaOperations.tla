-------------------------- MODULE MC_BetaOperations --------------------------
(* One small instance of every part, see the README for the bounds.        *)
EXTENDS BetaOperations

\* The gate: two measures; reports that meet them, miss one,
\* are unclear in a second version, or came too early.
Rule(source, comparator, num) ==
  [source |-> source, comparator |-> comparator, num |-> num, den |-> 2,
   minDenominator |-> 1, minResponses |-> 1, maxMissing |-> 0]
Seen(n, d, missing) == [numerator |-> n, denominator |-> d, missing |-> missing, responses |-> d]
MCCriteria == [floor |-> Rule("RATE", "AT_LEAST", 1), defects |-> Rule("RAW_NUMERATOR", "EQUAL", 0)]
Report(r, v, at, f, d) ==
  [id |-> r, version |-> v, at |-> at, observed |-> [floor |-> f, defects |-> d]]
MCReports ==
  {Report("met", 1, 5, Seen(1, 2, 0), Seen(0, 2, 0)),
   Report("missed", 1, 6, Seen(1, 2, 0), Seen(1, 2, 0)),
   Report("missed", 2, 7, Seen(2, 2, 1), Seen(0, 2, 0)),
   Report("early", 1, 4, Seen(2, 2, 0), Seen(0, 2, 0))}
Decision(k, r, at) ==
  [id |-> k, key |-> k, verdict |-> "OPEN", report |-> r, version |-> 1, signature |-> "valid",
   at |-> at, role |-> "RELEASE_OPERATOR", authenticated |-> TRUE, rationale |-> None]
Why(r, at) == [report |-> r, signedBy |-> "Don", at |-> at, verified |-> TRUE]
Good == Decision("k1", "met", 5)
Second == [Decision("k3", "missed", 8) EXCEPT !.version = 2]
MCDecisions ==
  {Good, [Good EXCEPT !.id = "again"], [Good EXCEPT !.key = "k2", !.at = 6],
   [Good EXCEPT !.report = "missed", !.at = 6],
   [Good EXCEPT !.report = "missed", !.at = 7, !.rationale = Why("missed", 6)],
   [Second EXCEPT !.rationale = Why("missed", 6)],
   [Second EXCEPT !.rationale = Why("missed", 7)],
   [Good EXCEPT !.role = "CONTENT_OPERATOR"],
   [Good EXCEPT !.report = "early", !.at = 4],
   [Good EXCEPT !.signature = "missing", !.authenticated = FALSE],
   [Good EXCEPT !.signature = "forged"]}

\* Manifests of two rounds, one of each mode.
MCMode == [r1 |-> "L", r2 |-> "P", r3 |-> "P", r4 |-> "P", r5 |-> "L"]
MCModeCount == [L |-> 1, P |-> 1]

MCPoints == [n \in 0..MaxClues |-> 3 - n]

MCDeadline == [ACKNOWLEDGED |-> 0, ACTIVE_STORES_COMPLETED |-> 1, BACKUPS_AGED_OUT |-> 2]
MCRetention == [RAW_GAMEPLAY_OR_RECRUITMENT_BRIDGE |-> 1, PROVIDER_CDN_APP_LOG |-> 1,
                TEMP_EXPORT_OR_SUPPORT |-> 0, PROJECT_BACKUP |-> 2]

\* Two policies of one version, of which one can be registered, and one of another.
Policy == [version |-> "v1", from |-> 0, signedAt |-> 1, jurisdictions |-> {"x"},
           relationships |-> {"none"}, conflicts |-> {"c"}, external |-> TRUE]
MCPolicies == {Policy, [Policy EXCEPT !.from = 1, !.external = FALSE],
               [Policy EXCEPT !.version = "v2", !.jurisdictions = {"y"}]}
MCPersons == [jurisdiction : {"x", "y"}, relationship : {"none"}, conflicts : {{}, {"c"}},
              tester : {FALSE}, external : BOOLEAN]

MCAcknowledgement == [s \in Severities |-> 1]
MCQuarantine == [CRITICAL |-> 1, LOW |-> None]
MCDecision == [CRITICAL |-> 1, LOW |-> 2]

MCRules == [outage |-> [platform |-> TRUE, preserve |-> TRUE],
            content |-> [platform |-> FALSE, preserve |-> FALSE],
            unclear |-> [platform |-> FALSE, preserve |-> TRUE]]

MCOrder == <<"WITHDRAWAL", "DELETION">>
MCKnown == [g \in Ledgers |-> "w2"]
==============================================================================
