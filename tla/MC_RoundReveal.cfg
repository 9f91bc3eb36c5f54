CONSTANTS
  language = language
  provenance = provenance
  s1 = s1
  s2 = s2
  here = here
  elsewhere = elsewhere
  a1 = a1
  a2 = a2
  Holders = {h1, h2}
  Rounds = {language, provenance}
  LanguageRounds = {language}
  Sessions = {s1, s2}
  HomeSession = s1
  ClueCount <- MCClueCount
  Scopes = {here, elsewhere}
  Answers = {a1, a2}
  Candidates = {right, wrong}
  Correct = right
  Authorities = {x1, x2}
  Entitlements <- MCEntitlements
  Requests <- MCRequests
  MaxTime = 3
  Malformed = Malformed
  None = None
SYMMETRY Symmetry
SPECIFICATION Spec
CHECK_DEADLOCK FALSE
INVARIANTS OneReleasePerAuthority OutcomeWithinEntitlement PointsAreEarned
