SPECIFICATION Spec
CONSTANTS
  Runs = {r1, r2, r3}
  Workers = {w1, w2}
  MaxAttempts = 2
  MaxRetries = 1
  TTL = 2
  None = None
SYMMETRY Symmetry
INVARIANTS HandlersExclude TrackedIsOwn
