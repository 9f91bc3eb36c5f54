CONSTANTS
  None = None
  Day = 2
  GraceHours = 1
  Half = 2
  LastDay = 13
  MaxAudits = 2
  Criteria <- MCCriteria
  Reports <- MCReports
  Decisions <- MCDecisions
  Days = {1, 2}
  LineageIds = {"l1", "l2"}
  VersionIds = {"m1", "m2", "m3"}
  Rounds = {"r1", "r2", "r3", "r4", "r5"}
  Positions = {1, 2}
  Mode <- MCMode
  ModeCount <- MCModeCount
  Participants = {"p1"}
  SessionIds = {"s1", "s2"}
  PlayRounds = {"r1", "r2"}
  MaxClues = 1
  Points <- MCPoints
  LineageVersions = {"m1", "m2"}
  PlayedVersion = "m1"
  Corrections = {"VOID"}
  Disputed = {"r1"}
  DayEnd = 0
  Grace = 1
  LastTime = 1
  Invitations = {"i1", "i2"}
  EnrolledLineages = {"p1", "p2"}
  Digests = {"d1", "d2", "d3"}
  Blank = Blank
  Hours = {0, 72}
  MaxReissues = 1
  Lineages = {"l1"}
  CaseIds = {"c1", "c2"}
  Deadline <- MCDeadline
  MaxEntries = 4
  HoldDays = 2
  ReviewDays = 1
  RetentionDays <- MCRetention
  Instants = {0, 1, 2, 3, 4}
  PolicyVersions = {"v1", "v2"}
  Persons <- MCPersons
  Policies <- MCPolicies
  Kinds = {"CONSENTED", "ELIGIBLE", "NOT_TESTER", "SESSION_STARTED", "INVITATION_RECORDED", "ENROLLMENT_RECORDED", "ACTIVATED", "OTHER", "INELIGIBLE", "WITHDRAWAL_RECORDED"}
  Severities = {"CRITICAL", "LOW"}
  AcknowledgementDue <- MCAcknowledgement
  QuarantineDue <- MCQuarantine
  DecisionDue <- MCDecision
  Editor = "editor"
  SafetyReviewer = "safety"
  Reviewers = {"editor", "safety", "independent"}
  Credentials = {"c"}
  MaxEvents = 5
  Rules <- MCRules
  Scopes = {"s"}
  DayMinutes = 2
  ObservedFrom = 1
  ObservedTo = 4
  Num = 2
  Den = 3
  MaxAge = 1
  LastMinute = 4
  MaxIncidents = 1
  MaxVersion = 3
  RestoreIds = {"r"}
  Copies = {"c1", "c2"}
  Ledgers = {"WITHDRAWAL", "DELETION"}
  ORDER <- MCOrder
  Operators = {"operator"}
  Verifier = "verifier"
  Actors = {"operator", "verifier"}
  Watermarks = {"w1", "w2"}
  Known <- MCKnown
  MaxApplied = 5
  Times = {0, 2}
SPECIFICATION Spec
INVARIANT HistoryReadable
CHECK_DEADLOCK FALSE
