SPECIFICATION Spec
CONSTANTS
  Mirrors = {"m1", "m2"}
  Setups <- MCSetups
  MirrorChoices <- MCMirrorChoices
  Size = 4
  SegSize = 3
  PieceLen = 3
  SaveSegSize = 1
  Connections = {1, 2}
  MaxMirrors = 1
  MaxTries = 2
  MaxFaults = 1
  MaxCommands = 1
INVARIANT RestoredFinishedIsWhole
CHECK_DEADLOCK FALSE
