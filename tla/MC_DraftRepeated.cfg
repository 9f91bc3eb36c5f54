SPECIFICATION Spec
CONSTANTS
  c1 = c1
  c2 = c2
  c3 = c3
  r1 = r1
  r2 = r2
  o1 = o1
  o2 = o2
  None = None
  Commands = {c1, c2}
  Runs = {r1, r2}
  Objects = {o1, o2}
  Needs <- MCNeeds
  MaxTime = 1
  MaxLive = 1
  Faults = {"none"}
  MaxBegun <- MCMaxBegun
INVARIANTS OneDraftPerRun
CHECK_DEADLOCK FALSE
