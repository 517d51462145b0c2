SPECIFICATION Spec
CONSTANTS
  Types = {"sha1", "md5", "md4"}
  FileSize = 3
  VerifierSetups <- MCVerifierSetups
  IntHalf = 128
  MaxAsked = 3
  MaxEdits = 1
  Sigs = {"a", "b"}
  FingerprintKeys = {"k1", "k2"}
  KeyServers <- MCServers
  KeySetups <- MCKeySetups
  MaxVerified = 2
  MaxChanges = 1
  MaxUrlPriority = 5
  MaxPreference = 3
  Decoded <- MCDecoded
  BadNames <- MCBadNames
  Documents <- MCDocuments
  Formats = {"meta4", "metalink", "other"}
  GeneralEdits <- MCGeneralEdits
  FileInputs <- MCFileInputs
  Drops <- MCDrops
  DragInputs <- MCDragInputs
  MaxFiles = 2
  MaxSessions = 2
  MaxInputs = 2
INVARIANTS VerifierFits CreatorFits
PROPERTIES RequestsAreAnswered OneDownloadPerKey MissingKeysArrive DroppedAreAdded
CHECK_DEADLOCK FALSE
