SPECIFICATION Spec
CONSTANTS
  FileObjects = {f1}
  Requests = {}
  Reports = {a}
  Power = power
  Removal = removal
  NoFile = noFile
  NoReport = noReport
  NoRequest = noRequest
  IoctlCodes = {"ACQUIRE"}
  RequestKinds = {}
  Removable = FALSE
  MaxPacket = 1
  MaxPending = 1
INVARIANT RevokedOnD0Exit
