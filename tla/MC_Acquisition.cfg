SPECIFICATION Spec
CONSTANTS
  c1 = c1
  c2 = c2
  c3 = c3
  r1 = r1
  r2 = r2
  o1 = o1
  o2 = o2
  None = None
  Commands = {c1, c2, c3}
  Runs = {r1, r2}
  Objects = {o1, o2}
  Needs <- MCNeeds
  MaxTime = 1
  MaxLive = 2
  Faults = {"none", "put", "remove", "append", "crash"}
  MaxBegun <- MCMaxBegun
SYMMETRY Symmetry
INVARIANTS DraftsAreAudited NothingLeftInSilence ResumedOnce
PROPERTIES RollbackSparesReused
CHECK_DEADLOCK FALSE
