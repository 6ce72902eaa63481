SPECIFICATION Spec
CONSTANTS
  c1 = c1
  c2 = c2
  Creators = {c1, c2}
  q1 = q1
  q2 = q2
  Requests = {q1, q2}
  a1 = a1
  Admins = {a1}
  MaxSubs = 3
  None = None
CHECK_DEADLOCK FALSE
SYMMETRY Symmetry
INVARIANTS TypeOK SettledByStatus WorkIsAssignees
PROPERTIES TerminalStays AssigneeStays
