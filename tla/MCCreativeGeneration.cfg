SPECIFICATION GenerationSpec
CONSTANTS
  Requests = {r1, r2}
  Cancels = {x1}
  Handlers = {h1, h2}
  Sources = {"callback"}
  Stores = {"prisma", "memory"}
  MaxFaults = 1
  None = None
  Dispatches = {r1, r2}
  Threshold = 2
  ControlVersions = 3
  CircuitVersions = 6
  MaxPending = 1
  Pollers = {h1, h2}
  MaxReads = 3
  RetryVersions = 8
CHECK_DEADLOCK FALSE
CONSTRAINT Bounds
SYMMETRY Symmetry
INVARIANTS GenerationTypeOK DispatchedOnce SettledHasOutputs BooksFollowRecord DoneIsDone OneProbe RetryBudget
PROPERTIES AppliedStays ReservationsCloseOnce RecoveryIsEarned
