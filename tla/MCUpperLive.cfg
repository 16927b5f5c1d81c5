SPECIFICATION FairSpec
CONSTANTS
  FileObjects = {f1}
  Requests = {r1}
  Reports = {a}
  Power = power
  Removal = removal
  NoFile = noFile
  NoReport = noReport
  NoRequest = noRequest
  IoctlCodes = {"ACQUIRE", "RELEASE", "ON", "OFF", "INJECT"}
  RequestKinds = {"xinput"}
  Removable = TRUE
  MaxPacket = 1
  MaxPending = 1
PROPERTIES HandlersReturn ParkedReadReleased ParkedReadServed
