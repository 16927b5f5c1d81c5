CONSTANTS
  p1 = p1
  p2 = p2
  NULL = NULL
  Controllers = {c1, c2}
  Processes = {p1, p2}
  Handles <- MCHandles
  Repertoire <- OneTest
SPECIFICATION Spec
INVARIANT ClosedHandleRevoked
CHECK_DEADLOCK FALSE
