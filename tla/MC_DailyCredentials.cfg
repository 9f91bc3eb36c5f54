CONSTANTS
  c1 = c1
  c2 = c2
  c3 = c3
  i1 = i1
  i2 = i2
  p1 = p1
  p2 = p2
  m = m
  play = play
  notice = notice
  r1 = r1
  r2 = r2
  k1 = k1
  k2 = k2
  Ids = {c1, c2, c3}
  Invitations = {i1, i2}
  Lineages = {p1, p2}
  Approved = {p1, p2}
  Days = {0, 1}
  Manifests = {m}
  Transitions = {play, notice}
  Notice = notice
  Rounds = {r1, r2}
  Keys = {k1, k2}
  Trim <- MCTrim
  Joined <- MCJoined
  KeyOf <- MCKeyOf
  RoundOf <- MCRoundOf
  IssueRequests <- MCIssueRequests
  UseRequests <- MCUseRequests
  MaxNesting = 2
  None = None
SPECIFICATION Spec
INVARIANTS OneApplicationPerKey OneCredentialPerDay UsesStayInScope
PROPERTIES DeadCredentialsStayDead CorrectedRoundsTakeNoPlay
