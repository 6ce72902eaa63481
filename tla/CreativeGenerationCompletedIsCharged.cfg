SPECIFICATION Spec
CONSTANTS
  Requests = {r1}
  Cancels = {x1}
  Handlers = {h1}
  Sources = {"callback"}
  Stores = {"prisma"}
  MaxFaults = 0
  None = None
CHECK_DEADLOCK FALSE
INVARIANTS CompletedIsCharged
