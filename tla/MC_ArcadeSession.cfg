CONSTANTS
  Rounds = 5
  Clues = 2
  Candidates = {right, wrong}
  Correct = right
  None = None
SPECIFICATION Spec
INVARIANTS ProgressMatchesPosition PendingCallIsAnswerable
PROPERTIES RoundPaysForCluesShown CallEnds RunRefined
