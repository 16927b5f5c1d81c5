CONSTANTS
  p1 = p1
  p2 = p2
  NULL = NULL
  Controllers = {c1}
  Processes = {p1, p2}
  Handles <- MCHandles
  Repertoire <- FeederAndOff
SPECIFICATION Spec
PROPERTY OffClearsOverride
CHECK_DEADLOCK FALSE
