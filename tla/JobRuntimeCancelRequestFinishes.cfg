SPECIFICATION FairSpec
CONSTANTS
  Runs = {r1}
  Workers = {w1, w2}
  MaxAttempts = 2
  MaxRetries = 1
  None = None
PROPERTY CancelRequestFinishes
