SPECIFICATION FairSpec
CONSTANTS
  Mirrors = {"m1", "m2"}
  Setups <- MCSetups
  MirrorChoices <- MCMirrorChoices
  Size = 5
  SegSize = 2
  PieceLen = 2
  SaveSegSize = 1
  Connections = {1, 2}
  MaxMirrors = 1
  MaxTries = 2
  MaxFaults = 1
  MaxCommands = 1
INVARIANTS ChunksFit
PROPERTIES KeepsChunks WantedIsFinished
CHECK_DEADLOCK FALSE
