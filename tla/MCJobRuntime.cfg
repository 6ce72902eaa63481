SPECIFICATION Spec
CONSTANTS
  Runs = {r1, r2}
  Workers = {w1, w2}
  MaxAttempts = 2
  MaxRetries = 1
  None = None
SYMMETRY Symmetry
INVARIANTS TypeOK OneLiveAttempt RunsMatchAttempts AttemptBudget
PROPERTIES NoRevival
