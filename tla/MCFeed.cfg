CONSTANTS
  Stray = Stray
  NoReport = NoReport
  Keys <- MCKeys
  Moves <- MCMoves
  Datagrams <- MCDatagrams
  MacroFiles <- MCMacroFiles
  Shapes <- MCShapes
  HardwareIds <- MCHardwareIds
  Feeders = {"keyboard", "testkeys", "mouse", "network", "macro", "config", "script"}
  Tools = {"QuickVerify", "XInputAutoVerify", "reader"}
  MaxInputs = 2
  MaxQueue = 2
  ClockMod = 5
  MaxAge = 4
  MaxTouches = 1
  MaxPower = 2
  MaxSent = 1
  PacketMod = 3

SPECIFICATION Spec

INVARIANTS
  TypeOK
  UndisturbedPasses
  PassSawInjected
  NobodyWaits

PROPERTIES
  FeedReachesPad
  MacroFollowsClock
  ObservationFaithful
  FiltersAgree
  VerifierEnds

CHECK_DEADLOCK FALSE
