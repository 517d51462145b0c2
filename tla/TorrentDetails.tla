--------------------------- MODULE TorrentDetails ---------------------------
(***************************************************************************)
(* What a window shows of a torrent: the advanced details, with the tree   *)
(* of its files, its trackers and its web seeds                            *)
(* (src/transfer-plugins/bittorrent/advanceddetails), and the item of a    *)
(* torrent of one file in the settings of its transfer (bttransfer.cpp).   *)
(*                                                                         *)
(* The views keep rows of their own beside the lists of libktorrent, which *)
(* the same window changes.  BTTransfer, and not the Monitor of the        *)
(* window, hears of the progress of a file, and does nothing about it      *)
(* (bttransfer.h), so the tree shows what was there when it was made.      *)
(***************************************************************************)
EXTENDS Integers, Sequences, FiniteSets, SequencesExt

CONSTANTS
  Files,            \* the files of the torrent, as <<directory, ..., name>>
  FileChunks,       \* file |-> its chunks; neighbours share one
  TorrentKinds,     \* of BOOLEAN: does it have several files
  FirstTrackers,    \* the trackers at the start, in the order of libktorrent
  FirstCustom,      \* those of them that the user has added
  FirstSeeds,       \* its web seeds
  NewTrackers,      \* what the user may add
  NewSeeds,
  MaxDetailClicks,  \* bound: clicks
  MaxSwarmEvents    \* bound: chunks, answers of trackers

Chunks == UNION {FileChunks[f] : f \in Files}
Priorities == {"first", "normal", "last", "onlyseed", "excluded"}

ASSUME DetailsAssumption ==
  /\ Files \subseteq Seq(STRING) /\ <<>> \notin Files
  /\ \A f, g \in Files : IsPrefix(f, g) => f = g
  /\ \A f \in Files : IsFiniteSet(FileChunks[f]) /\ FileChunks[f] # {}
  /\ TorrentKinds \subseteq BOOLEAN
  /\ FirstTrackers \in Seq(ToSet(FirstTrackers)) /\ IsInjective(FirstTrackers)
  /\ FirstCustom \subseteq ToSet(FirstTrackers)
  /\ FirstSeeds \in Seq(ToSet(FirstSeeds))
  /\ {MaxDetailClicks, MaxSwarmEvents} \subseteq Nat

VARIABLES
  swarm,     \* what libktorrent has: files, trackers, web seeds
  details,   \* the BTAdvancedDetailsWidget
  item,      \* the status the item of the only file shows, "none" before it is made
  scan,      \* the ScanDlg
  clicked,   \* clicks so far
  happens,   \* events so far
  slipped,   \* history: the remove button was on for a tracker that cannot be removed
  lost       \* history: files that lost data

detailVars == <<swarm, details, item, scan, clicked, happens, slipped, lost>>

----------------------------------------------------------------------------
(* The tree of the files                                                   *)

\* The nodes are the prefixes of the paths; <<>> is the root.
TreeNodes == UNION {{SubSeq(f, 1, n) : n \in 0 .. Len(f)} : f \in Files}
Under(node) == {f \in Files : IsPrefix(node, f)}
UnderAny(nodes) == UNION {Under(n) : n \in nodes}

Wanted(f) == swarm.prio[f] \notin {"onlyseed", "excluded"}
Complete == swarm.have = Chunks

\* checkState: a directory is what its children have in common.
CheckState(node) ==
  CASE \A f \in Under(node) : Wanted(f) -> "checked"
    [] \A f \in Under(node) : ~Wanted(f) -> "unchecked"
    [] OTHER -> "partially"

\* initPercentage: a file has what was downloaded, a directory what is not only seeded.
OnlySeedChunks == {c \in Chunks : \A f \in Files : c \in FileChunks[f] => swarm.prio[f] = "onlyseed"}
Percentage(node) ==
  LET chunks == UNION {FileChunks[f] : f \in Under(node)}
      here == IF node \in Files THEN swarm.have ELSE swarm.have \ OnlySeedChunks
  IN  CASE here = {} -> 0
        [] here # {} /\ here = Chunks -> 100
        [] OTHER -> (100 * Cardinality(chunks \cap here)) \div Cardinality(chunks)

\* changeTC of the view makes the model of the tree.
TreeShown == [n \in TreeNodes |-> Percentage(n)]
\* displayData: there is a percentage for what is to be downloaded.
ShowsPercent(f) == swarm.prio[f] \notin {"onlyseed", "excluded"}

----------------------------------------------------------------------------
(* The rows of the views                                                   *)

\* TrackerModel::Item: what is shown is kept until an update.
TrackerItem(trk) == [trk |-> trk, shown |-> "nothing"]
TrackerRows == [i \in DOMAIN swarm.trackers |-> TrackerItem(swarm.trackers[i])]
ItemUpdated(row) == [row EXCEPT !.shown = swarm.answer[row.trk]]

Closed == [open |-> FALSE, tab |-> "files", percent |-> <<>>, rows |-> <<>>, current |-> 0, canRemove |-> FALSE,
           canChange |-> FALSE, seeds |-> 0, seed |-> 0, canRemoveSeed |-> FALSE]

\* currentChanged; 0 is no row.
CurrentChanged(d, current) ==
  LET trk == d.rows[current].trk
  IN  [d EXCEPT !.current = current,
                !.canChange = current # 0 /\ swarm.running /\ Len(d.rows) > 1 /\ trk \notin swarm.disabled,
                !.canRemove = current # 0 /\ trk \in swarm.custom]

\* A mutant: only the new row is given a tracker.
InsertRowAtEnd(rows, trackers) == Append(rows, TrackerItem(Last(trackers)))

\* insertRows: the rows take the trackers in their new order, a new row what is left.
InsertRows(rows, trackers) ==
  [i \in DOMAIN trackers |-> IF i \in DOMAIN rows THEN [rows[i] EXCEPT !.trk = trackers[i]] ELSE TrackerItem(trackers[i])]

\* changeTC of the models, the selection goes without a signal.
ResetTrackers(d, trackers) ==
  [d EXCEPT !.rows = [i \in DOMAIN trackers |-> TrackerItem(trackers[i])], !.current = 0]
ResetSeeds(d, n) == [d EXCEPT !.seeds = n, !.seed = 0]

\* fileModel and updateFilesStatus, for a torrent of one file.
ItemStatus(s) ==
  CASE s.have = Chunks -> "Finished"
    [] s.have # Chunks /\ s.running -> "Running"
    [] OTHER -> "Stopped"
FilesStatus(s) == IF item = "none" THEN item ELSE ItemStatus(s)

----------------------------------------------------------------------------
(* Actions of the user                                                     *)

Clicks ==
  /\ clicked < MaxDetailClicks /\ clicked' = clicked + 1 /\ UNCHANGED happens /\ scan = "none"

Shows(d) == details' = d /\ UNCHANGED <<swarm, item, scan, slipped, lost>>

\* The views of a new window.
Opened == [Closed EXCEPT !.open = TRUE, !.percent = TreeShown, !.rows = TrackerRows, !.seeds = Len(swarm.seeds)]

\* createAdvancedDetails.
OpenDetails == Clicks /\ ~details.open /\ Shows(Opened)

\* hideEvent and removeAdvancedDetails.
CloseDetails == Clicks /\ details.open /\ Shows(Closed)

ShowTab(tab) == Clicks /\ details.open /\ tab # details.tab /\ Shows([details EXCEPT !.tab = tab])

OnTab(tab) == Clicks /\ details.open /\ details.tab = tab

SelectTracker(i) == OnTab("trackers") /\ i \in DOMAIN details.rows /\ Shows(CurrentChanged(details, i))

\* addClicked; libktorrent has an order of its own.
AddTracker(trk, place) ==
  /\ OnTab("trackers") /\ trk \notin ToSet(swarm.trackers)
  /\ LET trackers == InsertAt(swarm.trackers, place, trk)
     IN  /\ swarm' = [swarm EXCEPT !.trackers = trackers, !.custom = @ \cup {trk}]
         /\ details' = [details EXCEPT !.rows = InsertRows(@, trackers)]
  /\ UNCHANGED <<item, scan, slipped, lost>>

\* removeRows; libktorrent keeps a tracker that is the torrent's own.
Removed(trk) ==
  IF trk \in swarm.custom
  THEN [swarm EXCEPT !.trackers = RemoveFirst(@, trk), !.custom = @ \ {trk}]
  ELSE swarm

\* removeClicked; the view makes another row the current one before.
RemoveTracker(next) ==
  /\ OnTab("trackers") /\ details.canRemove /\ details.current # 0
  /\ IF Len(details.rows) = 1 THEN next = 0 ELSE next \in DOMAIN details.rows \ {details.current}
  /\ LET trk == details.rows[details.current].trk
         d == CurrentChanged(details, next)
     IN  /\ details' = [d EXCEPT !.rows = RemoveAt(@, details.current),
                                 !.current = IF @ > details.current THEN @ - 1 ELSE @]
         /\ swarm' = Removed(trk)
         /\ slipped' = (slipped \/ trk \notin swarm.custom)
  /\ UNCHANGED <<item, scan, lost>>

\* restoreClicked: those of the user are gone.
RestoreTrackers ==
  /\ OnTab("trackers")
  /\ \E trackers \in SetToSeqs(ToSet(swarm.trackers) \ swarm.custom) :
       /\ swarm' = [swarm EXCEPT !.trackers = trackers, !.custom = {}]
       /\ details' = ResetTrackers(details, trackers)
  /\ slipped' = FALSE /\ UNCHANGED <<item, scan, lost>>

\* TrackerModel::setData, the tick of a tracker.
TickTracker(i) ==
  /\ OnTab("trackers") /\ i \in DOMAIN details.rows
  /\ LET trk == details.rows[i].trk
     IN  swarm' = [swarm EXCEPT !.disabled = IF trk \in @ THEN @ \ {trk} ELSE @ \cup {trk}]
  /\ UNCHANGED <<details, item, scan, slipped, lost>>

\* addWebSeed; libktorrent knows each once.
AddWebSeed(seed) ==
  /\ OnTab("seeds") /\ seed \notin ToSet(swarm.seeds)
  /\ swarm' = [swarm EXCEPT !.seeds = Append(@, seed)]
  /\ details' = ResetSeeds(details, Len(swarm.seeds) + 1)
  /\ UNCHANGED <<item, scan, slipped, lost>>

UserCreated(i) == swarm.seeds[i] \notin ToSet(FirstSeeds)

\* selectionChanged.
SelectSeed(i) ==
  /\ OnTab("seeds") /\ i \in 1 .. details.seeds
  /\ Shows([details EXCEPT !.seed = i, !.canRemoveSeed = UserCreated(i)])

\* removeWebSeed.
RemoveWebSeed ==
  /\ OnTab("seeds") /\ details.canRemoveSeed /\ details.seed # 0
  /\ LET left == IF UserCreated(details.seed) THEN RemoveAt(swarm.seeds, details.seed) ELSE swarm.seeds
     IN  /\ swarm' = [swarm EXCEPT !.seeds = left]
         /\ details' = ResetSeeds(details, Len(left))
  /\ UNCHANGED <<item, scan, slipped, lost>>

\* setPriority of libktorrent: what only excluded files have is deleted.
SetPriorities(prio) ==
  LET kept == UNION {FileChunks[f] : f \in {f \in Files : prio[f] # "excluded"}}
      fewer == {f \in Files : prio[f] = "excluded" /\ swarm.prio[f] # "excluded"}
      have == IF fewer = {} THEN swarm.have ELSE swarm.have \cap kept
  IN  /\ swarm' = [swarm EXCEPT !.prio = prio, !.have = have]
      /\ lost' = lost \cup {f \in Files : FileChunks[f] \cap swarm.have # FileChunks[f] \cap have}
      /\ UNCHANGED <<details, item, scan, slipped>>

\* setCheckState: the tick of a node is for all the files below.
TickNode(node) ==
  /\ OnTab("files") /\ swarm.multi
  /\ SetPriorities([f \in Files |->
       CASE f \notin Under(node) \/ (CheckState(node) # "checked" /\ Wanted(f)) -> swarm.prio[f]
         [] f \in Under(node) /\ CheckState(node) # "checked" /\ ~Wanted(f) -> "normal"
         [] OTHER -> "onlyseed"])

\* showContextMenu: for one file, what is not its priority yet.
Offered(nodes, p) ==
  OnTab("files") /\ swarm.multi /\ \A f \in Files : nodes = {f} => swarm.prio[f] # p

\* IWFileTreeModel::setData, for all the files below.
SetData(nodes, p) == SetPriorities([f \in Files |-> IF f \in UnderAny(nodes) THEN p ELSE swarm.prio[f]])

ChangePriority(nodes, p) == p # "excluded" /\ Offered(nodes, p) /\ SetData(nodes, p)
\* Asked whether to lose the data, the user agrees.
DeleteFiles(nodes) == Offered(nodes, "excluded") /\ SetData(nodes, "excluded")

\* fileModel, when the settings of the transfer are opened.
OpenTorrentSettings ==
  /\ Clicks /\ ~swarm.multi /\ item = "none" /\ item' = ItemStatus(swarm)
  /\ UNCHANGED <<swarm, details, scan, slipped, lost>>

\* startTorrent and stopTorrent.
StartOrStop ==
  /\ Clicks /\ swarm' = [swarm EXCEPT !.running = ~@]
  /\ item' = FilesStatus(swarm') /\ UNCHANGED <<details, scan, slipped, lost>>

\* createScanDlg; the dialog is modal.
OpenScan ==
  /\ Clicks /\ scan' = "running" /\ UNCHANGED <<swarm, details, item, slipped, lost>>

\* reject with the job under way, or accept after it.
CloseScan ==
  /\ scan # "none" /\ scan' = "none"
  /\ UNCHANGED <<swarm, details, item, clicked, happens, slipped, lost>>

----------------------------------------------------------------------------
(* What happens to the torrent                                             *)

SwarmEvent == happens < MaxSwarmEvents /\ happens' = happens + 1 /\ UNCHANGED clicked

ChunkArrives(c) ==
  /\ SwarmEvent /\ swarm.running /\ c \notin swarm.have
  /\ \E f \in Files : c \in FileChunks[f] /\ Wanted(f)
  /\ swarm' = [swarm EXCEPT !.have = @ \cup {c}]
  /\ UNCHANGED <<details, item, scan, slipped, lost>>

TrackerAnswers(trk) ==
  /\ SwarmEvent /\ trk \in ToSet(swarm.trackers) \ swarm.disabled /\ swarm.answer[trk] = "nothing"
  /\ swarm' = [swarm EXCEPT !.answer[trk] = "peers"]
  /\ UNCHANGED <<details, item, scan, slipped, lost>>

\* The check of the data ends; some may be found broken.
ScanEnds(have) ==
  /\ scan = "running" /\ scan' = "done" /\ have \subseteq swarm.have
  /\ swarm' = [swarm EXCEPT !.have = have]
  /\ lost' = lost \cup {f \in Files : FileChunks[f] \cap swarm.have # FileChunks[f] \cap have}
  /\ UNCHANGED <<details, item, clicked, happens, slipped>>

\* updateTorrent: the tab of the trackers is updated when it is the one
\* that is shown, the item at every twelfth time.
UpdateTorrent ==
  /\ swarm.running
  /\ details' = IF details.open /\ details.tab = "trackers"
                THEN [details EXCEPT !.rows = [i \in DOMAIN @ |-> ItemUpdated(@[i])]] ELSE details
  /\ item' \in {item, FilesStatus(swarm)}
  /\ details' # details \/ item' # item
  /\ UNCHANGED <<swarm, scan, clicked, happens, slipped, lost>>

DetailsInit ==
  /\ \E multi \in TorrentKinds :
       swarm = [multi |-> multi, running |-> TRUE, have |-> {}, prio |-> [f \in Files |-> "normal"],
                trackers |-> FirstTrackers, custom |-> FirstCustom, disabled |-> {}, seeds |-> FirstSeeds,
                answer |-> [t \in ToSet(FirstTrackers) \cup NewTrackers |-> "nothing"]]
  /\ details = Closed /\ item = "none" /\ scan = "none" /\ clicked = 0 /\ happens = 0
  /\ slipped = FALSE /\ lost = {}

DetailsNext ==
  \/ OpenDetails \/ CloseDetails \/ RestoreTrackers \/ RemoveWebSeed \/ OpenTorrentSettings \/ StartOrStop
  \/ OpenScan \/ CloseScan \/ UpdateTorrent
  \/ \E tab \in {"files", "trackers", "seeds"} : ShowTab(tab)
  \/ \E i \in DOMAIN details.rows : SelectTracker(i) \/ TickTracker(i)
  \/ \E trk \in NewTrackers, place \in 1 .. Len(swarm.trackers) + 1 : AddTracker(trk, place)
  \/ \E next \in 0 .. Len(details.rows) : RemoveTracker(next)
  \/ \E seed \in NewSeeds : AddWebSeed(seed)
  \/ \E i \in 1 .. details.seeds : SelectSeed(i)
  \/ \E node \in TreeNodes : TickNode(node)
  \/ \E nodes \in SUBSET TreeNodes \ {{}} : DeleteFiles(nodes) \/ \E p \in Priorities : ChangePriority(nodes, p)
  \/ \E c \in Chunks : ChunkArrives(c)
  \/ \E trk \in ToSet(swarm.trackers) : TrackerAnswers(trk)
  \/ \E have \in SUBSET swarm.have : ScanEnds(have)

----------------------------------------------------------------------------
(* Properties                                                              *)

\* Each row of the trackers stands for the tracker at its place in the list of
\* libktorrent, unless the user removed one that cannot be removed; there is a row
\* for each web seed; no file is shown to have more than it has, unless data was
\* lost; and the item of the only file is not running in a stopped torrent
\* (trackermodel.cpp, webseedsmodel.cpp, iwfiletreemodel.cpp, bttransfer.cpp).
DetailsFollowTorrent ==
  /\ details.open =>
       /\ slipped \/ [i \in DOMAIN details.rows |-> details.rows[i].trk] = swarm.trackers
       /\ details.seeds = Len(swarm.seeds)
       /\ \A f \in {f \in Files \ lost : ShowsPercent(f)} :
            details.percent[f] * Cardinality(FileChunks[f]) <= 100 * Cardinality(FileChunks[f] \cap swarm.have)
  /\ item = "Running" => swarm.running
  /\ item = "Finished" /\ lost = {} => Complete
=============================================================================
