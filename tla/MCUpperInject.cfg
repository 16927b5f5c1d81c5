SPECIFICATION Spec
CONSTANTS
  FileObjects = {f1}
  Requests = {}
  Reports = {a}
  Power = power
  Removal = removal
  NoFile = noFile
  NoReport = noReport
  NoRequest = noRequest
  IoctlCodes = {"ACQUIRE", "ON", "INJECT"}
  RequestKinds = {}
  Removable = FALSE
  MaxPacket = 1
  MaxPending = 1
PROPERTY InjectNeedsOwnership
