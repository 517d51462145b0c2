SPECIFICATION Spec
CONSTANTS
  FileOrder <- MCFileOrder
  FileSizes <- MCFileSizes
  NewNames = {"a", "x"}
  Directories <- MCDirectories
  FileSetups <- MCFileSetups
  MaxFileEvents = 2
  MaxFileActs = 2
  Deletions <- MCDeletions
  Histories <- MCHistories
  Hosts <- MCHosts
  Ages <- MCAges
  MaxDeletions = 1
  RangeTypes = {"Size", "Host"}
  MaxHistoryClicks = 2
  MaxDays = 1
  Texts = {"", "u", "v", "t"}
  Usable = {"u", "v"}
  Patterns = {"p", "q"}
  MatchesOf <- MCMatchesOf
  DefaultPatterns <- MCDefaultPatterns
  MaxPatterns = 3
  MaxActs = 6
  LinkTexts = {"v.avi", "h.html", "w", "bad"}
  About <- MCAbout
  LinkFiles <- MCLinkFiles
  Filters = {"", "v"}
  Matching <- MCMatching
  MaxClicks = 2
  MaxImports = 2
  Downloads = {"a", "b"}
  Directory <- MCDirectory
  Listable = {"dir"}
  Endings = {"a"}
  Listings <- MCListings
  Documents <- MCDocuments
  DigestLength <- MCDigestLength
  RowChanges <- MCRowChanges
  SearchRows <- MCSearchRows
  Pages <- MCPages
  MaxRows = 3
  MaxPages = 2
  MaxDeleted = 1
  Urls = {"u", "v", "w", "bad"}
  Sourceable = {"u", "v", "w"}
  Connections = {0, 2}
  Segments = 1
  StartMirrors <- MCStartMirrors
  MaxMirrorRows = 3
  MaxMirrorEvents = 1
  MaxMirrorClicks = 3
  Groups <- MCGroups
  NoTransfer = "none"
  StartOrders <- MCStartOrders
  NewTransfers = {"n"}
  MaxMoves = 2
  Addresses = {"t", "u"}
  Global = "global"
  Resuming = {"t"}
  MaxHappens = 6
  Transfers = {"a", "b", "c"}
  LimitGroups = {"g", "h"}
  Order <- MCOrder
  Capable = {"a", "b"}
  Speeds = {0, 40}
  Limits = {0, 6, 60}
  StartLimits = {0}
  StartGroups <- MCStartGroups
  MaxLimitEvents = 3
  Files <- MCTorrentFiles
  FileChunks <- MCFileChunks
  TorrentKinds = {TRUE, FALSE}
  FirstTrackers <- MCFirstTrackers
  FirstCustom = {"u"}
  FirstSeeds <- MCFirstSeeds
  NewTrackers = {"v"}
  NewSeeds = {"w"}
  MaxDetailClicks = 5
  MaxSwarmEvents = 1
INVARIANTS FilesFit HistoryFits ImportIsShown SearchesFit
  RowsMatchQueue TrackerShowsRunning LimitsFollowSettings DetailsFollowTorrent
PROPERTIES PastesAsArranged ClosedAsShown PriorityMovesSelection
CHECK_DEADLOCK FALSE
