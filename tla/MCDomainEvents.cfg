SPECIFICATION FairSpec
CONSTANTS
  MaxEvents = 2
  MaxAttempts = 2
  MaxFaults = 2
  MaxOrders = 2
CHECK_DEADLOCK FALSE
INVARIANTS TypeOK CursorIsExact CompensatedWasApplied
PROPERTIES EffectsInOrder EventSettles
