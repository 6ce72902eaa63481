SPECIFICATION Spec
CONSTANTS
  MaxEvents = 1
  MaxAttempts = 2
  MaxFaults = 2
  MaxOrders = 0
CHECK_DEADLOCK FALSE
INVARIANTS AppliedIsTerminal
