CONSTANTS
  c1 = c1
  c2 = c2
  c3 = c3
  i1 = i1
  i2 = i2
  p1 = p1
  p2 = p2
  m = m
  play = play
  notice = notice
  r1 = r1
  k1 = k1
  Invitations = {i1, i2}
  Lineages = {p1, p2}
  Digests = {d1, d2}
  Blank = Blank
  Hours = {0}
  MaxReissues = 1
  Ids = {c1, c2, c3}
  Approved = {p1, p2}
  Days = {0, 1}
  Manifests = {m}
  Transitions = {play, notice}
  Notice = notice
  Rounds = {r1}
  Keys = {k1}
  Trim <- MCTrim
  Joined <- MCJoined
  KeyOf <- MCKeyOf
  RoundOf <- MCRoundOf
  IssueRequests <- MCIssueRequests
  UseRequests <- MCUseRequests
  MaxNesting = 1
  None = None
SPECIFICATION Spec
INVARIANT EveryRevocationCascades
