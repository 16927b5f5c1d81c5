SPECIFICATION Spec
CONSTANTS
  FileObjects = {f1}
  Requests = {r1}
  Reports = {a}
  Power = power
  Removal = removal
  NoFile = noFile
  NoReport = noReport
  NoRequest = noRequest
  IoctlCodes = {"ACQUIRE", "ON", "OFF"}
  RequestKinds = {"xinput"}
  Removable = FALSE
  MaxPacket = 1
  MaxPending = 1
INVARIANT PendingCountNotNegative
