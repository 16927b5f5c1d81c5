CONSTANTS
  p1 = p1
  p2 = p2
  NULL = NULL
  Controllers = {c1}
  Processes = {p1, p2}
  Handles <- MCHandles
  Repertoire <- MCRepertoire

SPECIFICATION Spec

INVARIANTS
  TypeOK
  DrivenByItsProgram
  SuccessMeansHeld
  HeldFlagExact

PROPERTIES
  BusyRetryTakesNothing
  SessionPromise
  SessionGivenBack
  FeederStopsWhenRevoked

CHECK_DEADLOCK FALSE
