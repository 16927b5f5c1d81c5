SPECIFICATION HSpec
CONSTANTS
  FileObjects = {f1}
  Requests = {r1, r2}
  Reports = {a, b}
  Power = power
  Removal = removal
  NoFile = noFile
  NoReport = noReport
  NoRequest = noRequest
  IoctlCodes = {"ACQUIRE", "RELEASE", "ON", "OFF", "INJECT", "QUERY_OBSERVATION"}
  RequestKinds = {"xinput", "hid"}
  Removable = FALSE
  MaxPacket = 2
  MaxPending = 1
SYMMETRY Symmetry
INVARIANTS TypeOK EachRequestOneOwner NoStrandedRead
PROPERTIES InjectedOnlyUnderOverride NativeOnlyWithoutOverride
