---------------------------- MODULE TransferFiles ----------------------------
(***************************************************************************)
(* The files of a metalink: the tree the dialogs show (FileModel), the      *)
(* DataSourceFactory of each file under the URL of its destination          *)
(* (AbstractMetalink), and what the user changes in both: the selection,    *)
(* names (RenameFile) and the directory (TransferSettingsDialog, D-Bus).    *)
(* When files run is left to Metalink.                                      *)
(*                                                                         *)
(* An item of the tree is the path it was created with, a URL a directory   *)
(* followed by the path of names below it.                                  *)
(***************************************************************************)
EXTENDS Integers, FiniteSetsExt, SequencesExt, TLC

CONSTANTS
  FileOrder,    \* the files as QHash lists them: a sequence of paths
  FileSizes,    \* the size of each
  NewNames,     \* the names the user may give to a file
  Directories,  \* the directories the user may choose; the first is the one at first
  FileSetups,   \* how it begins: the files to download, those whose size is known, and
                \* those that exist already, [do, known, there]
  MaxFileActs,      \* bound: what the user does
  MaxFileEvents     \* bound: sizes found and files started

ASSUME TransferFilesAssumption ==
  /\ {MaxFileActs, MaxFileEvents} \subseteq Nat /\ Len(Directories) > 0
  /\ \A f, g \in Range(FileOrder) : f # g => ~IsPrefix(f, g)

VARIABLES
  files,     \* the metalink: the tree, the factories and their keys
  dialogs,   \* the dialogs that are open
  there,     \* the destinations where a file is
  fileActs, fileEvents,
  misled     \* history: files whose item, key and destination the code parts, see FilesAreFound

filesVars == <<files, dialogs, there, fileActs, fileEvents, misled>>

FilePaths == Range(FileOrder)
Items     == UNION {{SubSeq(f, 1, n) : n \in 0 .. Len(f)} : f \in FilePaths}
Parent(i) == Front(i)
Children(i) == {c \in Items : c # <<>> /\ Parent(c) = i}
\* The children of an item in their order, and the items above one, the root last.
Place(i)     == Min({k \in DOMAIN FileOrder : IsPrefix(i, FileOrder[k])})
Ancestors(i) == [k \in 1 .. Len(i) |-> SubSeq(i, 1, Len(i) - k)]
Below(i)     == {j \in Items : IsPrefix(i, j)}

----------------------------------------------------------------------------
(* FileModel.  m is its state: the names, ticks, sizes and statuses of the  *)
(* items, the cache of items by URL, and m_checkStateChanged.               *)

PathOf(m, i) == [k \in 1 .. Len(i) |-> m.name[SubSeq(i, 1, k)]]
UrlOf(m, i)  == <<m.dir>> \o PathOf(m, i)

Named(url, name) == [url EXCEPT ![Len(url)] = name]

\* getItem without its cache: a part that no child is called like is passed over,
\* those of another directory too.
Descend(m, i, part) ==
  LET named == {c \in Children(i) : m.name[c] = part}
  IN  IF named = {} THEN i
      ELSE CHOOSE c \in named : \A d \in named : Place(c) <= Place(d)

\* The item of a URL, <<>> for none, and the model that has looked it up.
ItemAt(m, url) ==
  IF url \in DOMAIN m.cache THEN m.cache[url]
  ELSE FoldLeft(LAMBDA i, part : Descend(m, i, part), <<>>, Tail(url))
LookedUp(m, url) ==
  IF ItemAt(m, url) = <<>> THEN m ELSE [m EXCEPT !.cache = (url :> ItemAt(m, url)) @@ @]

\* checkParents: a directory whose items differ is not ticked.
CheckParents(ticked, i, state) ==
  LET up(a, p) == LET s == IF \A c \in Children(p) : a.ticked[c] = a.state THEN a.state ELSE FALSE
                  IN  [ticked |-> [a.ticked EXCEPT ![p] = s], state |-> s]
  IN  FoldLeft(up, [ticked |-> ticked, state |-> state], Ancestors(i)).ticked

CheckChildren(ticked, i, state) == [j \in Items |-> IF j \in Below(i) THEN state ELSE ticked[j]]

\* setData of a check state.
Tick(m, i, state) ==
  [m EXCEPT !.ticked = CheckChildren(CheckParents([@ EXCEPT ![i] = state], i, state), i, state),
            !.changed = TRUE]

\* setData of a size, of the item at a URL: the directories above change as much.
SetSize(m, url, size) ==
  LET i    == ItemAt(m, url)
      more == size - m.size[i]
  IN  IF i = <<>> THEN m
      ELSE [LookedUp(m, url) EXCEPT !.size =
              [j \in Items |-> IF j = i THEN size ELSE IF i \in Below(j) THEN @[j] + more ELSE @[j]]]

\* setData of a status, which directories have not.
SetFileStatus(m, url, status) ==
  LET i == ItemAt(m, url)
  IN  IF i \in FilePaths THEN [LookedUp(m, url) EXCEPT !.status[i] = status] ELSE LookedUp(m, url)

\* FileModel::rename.
Renamed(m, f, name) ==
  [m EXCEPT !.cache = [u \in DOMAIN @ \ {UrlOf(m, f)} |-> @[u]], !.name[f] = name]

----------------------------------------------------------------------------
(* AbstractMetalink.  s is its state: `model`, the factories `fac`, `keys`   *)
(* of m_dataSourceFactory, and `own`, the directory of m_dest.              *)

\* fileModel(): what the factories know is shown, in the order of their keys.
Show(s) ==
  LET show(m, f) ==
        LET d == s.fac[f]
            n == SetFileStatus(SetSize(m, d.dest, d.size), d.dest, d.status)
        IN  IF d.doDownload THEN n ELSE Tick(LookedUp(n, d.dest), ItemAt(n, d.dest), FALSE)
  IN  [s EXCEPT !.model = FoldLeft(show, @, FileOrder)]

\* slotDataSourceFactoryChange of a factory: updateStatus, recalculateTotalSize.
StatusChanged(s, f) == [s EXCEPT !.model = SetFileStatus(@, s.fac[f].dest, s.fac[f].status)]
SizeChanged(s, f)   == [s EXCEPT !.model = SetSize(@, s.fac[f].dest, s.fac[f].size)]

\* DataSourceFactory::setNewDestination: once the download is initialized the file
\* would be moved, were it looked for by its path and not by its URL.
SetNewDestination(s, f, url) ==
  IF s.fac[f].init THEN s ELSE [s EXCEPT !.fac[f].dest = url]

MoveKey(keys, from, to) == [u \in (DOMAIN keys \ {from}) \cup {to} |-> IF u = to THEN keys[from] ELSE keys[u]]

\* slotRename.
SlotRename(s, from, to) ==
  IF from \notin DOMAIN s.keys THEN s
  ELSE SetNewDestination([s EXCEPT !.keys = MoveKey(@, from, to)], s.keys[from], to)

\* setDirectory: the path of m_dest becomes a whole URL, so that its directory is
\* not part of any destination when the directory changes again.
Into(s, url, dir) == IF Head(url) = s.own THEN <<dir>> \o Tail(url) ELSE url

SetDirectory(s, dir) ==
  LET urls == [f \in FilePaths |-> Into(s, s.fac[f].dest, dir)]
      kept == Range(s.keys)
      move(t, f) == IF f \notin kept THEN t
                    ELSE [SetNewDestination(t, f, urls[f]) EXCEPT !.keys = (urls[f] :> f) @@ @]
  IN  IF dir = s.own THEN s
      ELSE [FoldLeft(move, [s EXCEPT !.keys = <<>>, !.model.dir = dir, !.model.cache = <<>>], FileOrder)
              EXCEPT !.own = "mangled"]

\* DataSourceFactory::setDoDownload; starting again is left to the next step.
SetDoDownloadOf(s, f, do) ==
  LET stops == ~do /\ s.fac[f].status = "Running"
      t     == [s EXCEPT !.fac[f].doDownload = do, !.fac[f].status = IF stops THEN "Stopped" ELSE @]
  IN  IF stops THEN StatusChanged(t, f) ELSE t

\* untickAllFiles: the items below the root, and with them all others.
UntickAll(s) ==
  [s EXCEPT !.model = FoldLeft(LAMBDA m, f : Tick(m, SubSeq(f, 1, 1), FALSE), @, FileOrder)]

AsksAbout(s, f) ==
  LET url == UrlOf(s.model, f)
  IN  s.model.ticked[f] /\ s.fac[s.keys[url]].status # "Running" /\ url \in there

\* A mutant: a file that is skipped is downloaded all the same.
SelectItemSkipped(s, f, reply) ==
  LET url == UrlOf(s.model, f)
  IN  CASE url \notin DOMAIN s.keys \/ s.stop -> s
        [] OTHER -> SetDoDownloadOf(IF AsksAbout(s, f) /\ reply = "skip"
                                    THEN [s EXCEPT !.model = Tick(@, f, FALSE)] ELSE s,
                                    s.keys[url], s.model.ticked[f])

\* filesSelected for one item.  `reply`: what the user answers if a file is there
\* already; another name goes to the factory and its key, but not to the item,
\* since setData is given the column as its role.
SelectItem(s, f, reply) ==
  LET url == UrlOf(s.model, f)
      g   == s.keys[url]
      to  == Named(url, reply)
  IN  CASE s.stop -> s
        [] ~s.stop /\ (IF url \in DOMAIN s.keys THEN s.fac[g].status = "Finished" ELSE TRUE) -> s
        [] OTHER ->
           IF ~AsksAbout(s, f) \/ reply = "overwrite" THEN SetDoDownloadOf(s, g, s.model.ticked[f])
           ELSE CASE reply = "skip"   -> SetDoDownloadOf([s EXCEPT !.model = Tick(@, f, FALSE)], g, FALSE)
                  [] reply = "cancel" -> [s EXCEPT !.stop = TRUE]
                  [] OTHER -> [SetNewDestination(SetDoDownloadOf(s, g, TRUE), g, to)
                                 EXCEPT !.keys = MoveKey(@, url, to)]

\* filesSelected, with the replies to all its questions.
FilesSelected(s, reply) ==
  LET t == FoldLeft(LAMBDA a, f : SelectItem(a, f, reply[f]), s, FileOrder)
      known == SelectSeq(FileOrder, LAMBDA f : f \in Range(t.keys))
  IN  IF ~t.stop THEN t
      ELSE FoldLeft(LAMBDA a, f : SetDoDownloadOf(a, f, FALSE), UntickAll([t EXCEPT !.stop = FALSE]), known)

\* stopWatchCheckState.
StopWatching(s, reply) ==
  LET t == IF s.model.changed THEN FilesSelected(s, reply) ELSE s IN [t EXCEPT !.model.changed = FALSE]

----------------------------------------------------------------------------
(* Actions                                                                 *)

Act   == fileActs < MaxFileActs /\ fileActs' = fileActs + 1 /\ UNCHANGED fileEvents
Event == fileEvents < MaxFileEvents /\ fileEvents' = fileEvents + 1 /\ UNCHANGED fileActs

\* Files that the user has given another name, or another place, apart from
\* their item: by a name that is somebody else's, or after they were created.
Sharing(s, url) == {g \in FilePaths : UrlOf(s.model, g) = url \/ s.fac[g].dest = url}
Misnamed(s, f, url) ==
  IF s.fac[f].init \/ Sharing(s, url) \ {f} # {} \/ f \in misled THEN {f} \cup Sharing(s, url) ELSE {}

\* DataSourceFactory finds out the size, starts, stops and finishes a file.
FileSizeFound(f) ==
  /\ files.fac[f].size = 0 /\ Event
  /\ files' = SizeChanged([files EXCEPT !.fac[f].size = FileSizes[f]], f)
  /\ UNCHANGED <<dialogs, there, misled>>

FileStatusChanges(f) ==
  /\ \/ /\ Event /\ files.fac[f].doDownload /\ files.fac[f].status = "Stopped"
        /\ files' = StatusChanged([files EXCEPT !.fac[f].status = "Running", !.fac[f].init = TRUE], f)
        /\ there' = there \cup {files.fac[f].dest}
     \/ /\ files.fac[f].status = "Running"
        /\ \E status \in {"Stopped", "Finished"} :
             files' = StatusChanged([files EXCEPT !.fac[f].status = status], f)
        /\ UNCHANGED <<there, fileActs, fileEvents>>
  /\ UNCHANGED <<dialogs, misled>>

\* TransferSettingsDialog is opened, and FileSelectionDlg shown for a new metalink.
OpenSettings ==
  /\ "settings" \notin dialogs
  /\ dialogs' = dialogs \cup {"settings"} /\ files' = [files EXCEPT !.model.changed = FALSE]
  /\ UNCHANGED <<there, fileActs, fileEvents, misled>>

UserTicksItem ==
  /\ dialogs # {} /\ Act
  /\ \E i \in Items \ {<<>>} : files' = [files EXCEPT !.model = Tick(@, i, ~@.ticked[i])]
  /\ UNCHANGED <<dialogs, there, misled>>

\* RenameFile.  The name the file has already would make slotRename use a key that
\* it has just removed.
UserRenamesFile ==
  /\ "settings" \in dialogs /\ Act
  /\ \E f \in FilePaths, name \in NewNames :
       LET from == UrlOf(files.model, f)
           to   == Named(from, name)
       IN  /\ to # from
           /\ files' = SlotRename([files EXCEPT !.model = Renamed(@, f, name)], from, to)
           /\ misled' = misled \cup Misnamed(files, f, to)
  /\ UNCHANGED <<dialogs, there>>

\* What setDirectory does not take along.
LeftBehind(s, dir) ==
  CASE dir = s.own -> {}
    [] s.own = "mangled" \/ misled # {} -> FilePaths
    [] OTHER -> {f \in FilePaths : s.fac[f].init}

DBusSetsDirectory ==
  /\ Act
  /\ \E dir \in Range(Directories) :
       files' = SetDirectory(files, dir) /\ misled' = misled \cup LeftBehind(files, dir)
  /\ UNCHANGED <<dialogs, there>>

\* The answers to the questions of filesSelected, the same for all but one file;
\* they do not matter if there is none.
Replies == {"overwrite", "skip", "cancel"} \cup NewNames
AllAnswers ==
  {[g \in FilePaths |-> IF g = f THEN r ELSE q] : f \in FilePaths, r \in Replies, q \in {"overwrite", "skip"}}
SelectionAnswers(s) ==
  IF \E f \in FilePaths : UrlOf(s.model, f) \in DOMAIN s.keys /\ AsksAbout(s, f) THEN AllAnswers
  ELSE {[f \in FilePaths |-> "overwrite"]}

\* A file that gets its new name in such an answer, and those it shares it with.
Answered(s, reply) ==
  UNION {{f} \cup Sharing(s, Named(UrlOf(s.model, f), reply[f])) :
           f \in {g \in FilePaths : reply[g] \in NewNames /\ UrlOf(s.model, g) \in DOMAIN s.keys /\ AsksAbout(s, g)}}

\* save() of the directory entered and slotFinished, in either order: QDialog's
\* accepted and finished.  `dir` is the one of before if the dialog is rejected.
CloseSettings ==
  /\ "settings" \in dialogs /\ dialogs' = dialogs \ {"settings"}
  /\ \E dir \in Range(Directories) \cup {files.own} : \E saveFirst \in {TRUE, dir = files.own} :
       /\ IF dir = files.own THEN UNCHANGED <<fileActs, fileEvents>> ELSE Act
       /\ LET s == IF saveFirst THEN SetDirectory(files, dir) ELSE files
          IN  \E reply \in SelectionAnswers(s) :
             LET t == StopWatching(s, reply)
             IN  /\ files' = IF saveFirst THEN t ELSE SetDirectory(t, dir)
                 /\ misled' = misled \cup LeftBehind(IF saveFirst THEN files ELSE t, dir)
                                     \cup (IF s.model.changed THEN Answered(s, reply) ELSE {})
  /\ UNCHANGED there

\* fileDlgFinished.
CloseSelection ==
  /\ "selection" \in dialogs /\ dialogs' = dialogs \ {"selection"}
  /\ \E accepted \in BOOLEAN :
       LET s == IF accepted THEN files ELSE UntickAll(files)
       IN  \E reply \in SelectionAnswers(s) :
             files' = FilesSelected(s, reply) /\ misled' = misled \cup Answered(s, reply)
  /\ UNCHANGED <<there, fileActs, fileEvents>>

----------------------------------------------------------------------------
NewModel ==
  [dir |-> Directories[1], name |-> [i \in Items |-> IF i = <<>> THEN "root" ELSE Last(i)],
   ticked |-> [i \in Items |-> TRUE], size |-> [i \in Items |-> 0],
   status |-> [f \in FilePaths |-> "Stopped"], cache |-> <<>>, changed |-> FALSE]

\* The files of a metalink just read, or of a transfer that was restored.
FirstUrl(f) == <<Directories[1]>> \o f
NewFile(f, do, known) ==
  [dest |-> FirstUrl(f), size |-> IF known THEN FileSizes[f] ELSE 0,
   status |-> "Stopped", init |-> FALSE, doDownload |-> do]

FilesInit ==
  /\ \E s \in FileSetups :
       /\ files = Show([model |-> NewModel, own |-> Directories[1], stop |-> FALSE,
                        fac  |-> [f \in FilePaths |-> NewFile(f, f \in s.do, f \in s.known)],
                        keys |-> [u \in {FirstUrl(f) : f \in FilePaths} |-> Tail(u)]])
       /\ there = {FirstUrl(f) : f \in s.there}
  /\ dialogs \in {{}, {"selection"}} /\ fileActs = 0 /\ fileEvents = 0 /\ misled = {}

FilesNext ==
  \/ (\E f \in FilePaths : FileSizeFound(f) \/ FileStatusChanges(f))
  \/ OpenSettings \/ UserTicksItem \/ UserRenamesFile \/ DBusSetsDirectory
  \/ CloseSettings \/ CloseSelection

----------------------------------------------------------------------------
(* Properties                                                              *)

\* A directory is ticked exactly if all in it is, and as large as what is in it,
\* whatever files and directories were ticked and sizes found, in any order.
DirectoriesFit ==
  \A i \in Items \ FilePaths :
    /\ files.model.ticked[i] <=> \A c \in Children(i) : files.model.ticked[c]
    /\ misled = {} => files.model.size[i] = SumFunctionOnSet(files.model.size, Children(i))

\* Every file is found by what is known of it: its destination is where its item
\* is shown, leads to that item, and is the key of its factory; and the item
\* shows what the factory does.  Not the files that were renamed after they had
\* been created, or to a name of another one or one in use on disk, or were moved
\* after that or twice: there the code loses the one or the other (`misled`).
FilesAreFound ==
  /\ \A f \in FilePaths \ misled :
       LET url == UrlOf(files.model, f)
       IN  /\ files.fac[f].dest = url /\ ItemAt(files.model, url) = f
           /\ url \in DOMAIN files.keys /\ files.keys[url] = f
  /\ misled = {} => \A f \in FilePaths : files.model.status[f] = files.fac[f].status
                                         /\ files.model.size[f] = files.fac[f].size

\* Outside the dialogs the files that are downloaded are the ones ticked, finished
\* ones apart: whatever was answered about files that exist, and also if both
\* dialogs were open and one was rejected.
SelectionIsDone ==
  dialogs = {} /\ misled = {} =>
    \A f \in FilePaths : files.fac[f].status # "Finished" => (files.fac[f].doDownload <=> files.model.ticked[f])

\* The files' items, factories and keys agree, in each of these three ways.
FilesFit == DirectoriesFit /\ FilesAreFound /\ SelectionIsDone
=============================================================================
