SPECIFICATION Spec
CONSTANTS
  FileOrder <- MCFiles
  Metalinks <- MCMetalinks
  Existing <- MCExisting
  SimultaneousFiles = 1
  MaxTroubles = 1
  MaxOrders = 1
  Urls = {"u", "v"}
  FileNames = {"a", "b"}
  FileOf <- MCFileOf
  GroupNames = {"G"}
  Lists <- MCLists
  Starts <- MCStarts
  MaxItems = 3
  MaxGroups = 2
  MaxEdits = 1
  MaxCrashes = 1
  Torrents <- MCTorrents
  MaxFetches = 2
  MaxMishaps = 2
  MaxCommands = 2
  StreamLength = 3
  ThreadsSetting = 2
  MaxMmsMishaps = 1
  SourceOrder <- MCSources
  Malformed = {"x"}
  Slow = {"v", "w", "x"}
  Local <- MCLocal
  NameOf <- MCNames
  Folders = {"Downloads", "G"}
  Matching = {"v"}
  GroupFolder = "G"
  Typed <- MCTyped
  AddingSetups <- MCAddingSetups
  Requests <- MCRequests
  MaxRequests = 2
  MaxInputs = 1
  MaxOthers = 1
INVARIANTS FinishedHasAllFiles FinishedHasEveryPart SourcesAreHandled
PROPERTIES FilesArrive ListIsSaved RestoresTheList TorrentArrives DownloadEnds AcceptedAsShown
CHECK_DEADLOCK FALSE
