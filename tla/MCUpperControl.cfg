SPECIFICATION Spec
CONSTANTS
  FileObjects = {f1, f2}
  Requests = {r1}
  Reports = {a}
  Power = power
  Removal = removal
  NoFile = noFile
  NoReport = noReport
  NoRequest = noRequest
  IoctlCodes = {"ACQUIRE", "RELEASE", "ON", "OFF", "INJECT", "QUERY_OBSERVATION"}
  RequestKinds = {"hid"}
  Removable = TRUE
  MaxPacket = 1
  MaxPending = 0
SYMMETRY Symmetry
INVARIANTS SessionConsistent NoOverrideOutsideD0 ClosedHandleOwnsNothing
PROPERTIES OthersKeepOut SessionPromise
