SPECIFICATION Spec
CONSTANTS
  FileObjects = {f1}
  Requests = {}
  Reports = {a}
  Power = power
  Removal = removal
  NoFile = noFile
  NoReport = noReport
  NoRequest = noRequest
  IoctlCodes = {"QUERY_OBSERVATION"}
  RequestKinds = {}
  Removable = FALSE
  MaxPacket = 1
  MaxPending = 1
PROPERTY ObservationIsReal
