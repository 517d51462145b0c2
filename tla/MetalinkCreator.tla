--------------------------- MODULE MetalinkCreator ---------------------------
(***************************************************************************)
(* The assistant that writes metalinks (ui/metalinkcreator): its pages, the *)
(* dialog for one file with its list of mirrors (FileDlg, UrlWidget,        *)
(* MirrorModel), files and directories dropped on it (DirectoryHandler,     *)
(* DragDlg), and the thread that computes their checksums                   *)
(* (FileHandlerThread).  What it saves may be opened in a later session.    *)
(***************************************************************************)
EXTENDS MetalinkDocument

CONSTANTS
  Documents,     \* the metalink files to start from, with NoDocument if none is
  Formats,       \* the ends of the name to save under
  GeneralEdits,  \* what the user may enter on the general page
  FileInputs,    \* what the user may enter for a file, [name, size, data, urls]
  Drops,         \* what the user may drop: files and directories with files
  DragInputs,    \* what the user may enter for dropped files, [types, partial, urls, data]
  MaxFiles,      \* bound: files in a metalink
  MaxSessions,   \* bound: times the assistant is opened
  MaxInputs     \* bound: changes of the user

ASSUME CreatorAssumption == {MaxFiles, MaxSessions, MaxInputs} \subseteq Nat /\ NoDocument \in Documents

VARIABLES
  creator,   \* the assistant
  hashing,   \* FileHandlerThread
  signals,   \* signals of the thread on their way
  saved,     \* the metalink file, and the metalink that was saved as it
  sessions,
  doubled    \* history: a file was added under a name that is there already

creatorVars == <<creator, hashing, signals, saved, sessions, doubled>>

\* `given` and `missed` are history: what was given, and what when the thread ended.
IdleThread == [state |-> "idle", queue |-> <<>>, files |-> <<>>, batch |-> <<>>, given |-> {}, missed |-> {}]
NoTemp == [urls |-> <<>>, languages |-> <<>>]
NewCreator(doc) ==
  [page |-> "introduction", load |-> doc, metalink |-> EmptyMetalink, general |-> <<>>, rows |-> <<>>,
   need |-> 0, back |-> FALSE, finish |-> FALSE, dialog |-> <<>>,
   found |-> <<>>, jobs |-> <<>>, drags |-> 0, temp |-> NoTemp, changes |-> 0, added |-> {}]

Row(f) == [name |-> f.name, icon |-> ~ResourcesValid(f)]
Needed(rows) == Cardinality({i \in DOMAIN rows : rows[i].icon})

\* slotUpdateAssistantButtons, for the page `to` that is entered ("none": the call
\* that follows a change of the files).
Buttons(c, to) ==
  [c EXCEPT !.back = to # "general",
            !.finish = MetalinkValid(c.metalink) /\ hashing'.state = "idle"]

----------------------------------------------------------------------------
(* The general page                                                        *)

\* GeneralWidget::load: a date that is not set is shown as now, and off.
ShownDate(d) ==
  IF d.dt = "" THEN [on |-> FALSE, dt |-> "now", offsetOn |-> TRUE, offset |-> "01:00", negative |-> FALSE]
  ELSE [on |-> TRUE, dt |-> d.dt, offsetOn |-> d.offset # "", offset |-> d.offset, negative |-> d.negative]
ShownGeneral(m) ==
  [origin |-> m.origin, dynamic |-> m.dynamic, date |-> [k \in DateKinds |-> ShownDate(m.date[k])]]

\* GeneralWidget::save never asks for the sign; clear() has kept the old one.
EnteredDate(old, d) ==
  IF d.on THEN [ClearDate(old) EXCEPT !.dt = d.dt, !.offset = IF d.offsetOn THEN d.offset ELSE ""]
  ELSE ClearDate(old)
SaveGeneral(m, g) ==
  [m EXCEPT !.origin = g.origin, !.dynamic = g.dynamic,
            !.date = [k \in DateKinds |-> EnteredDate(@[k], g.date[k])]]

\* MetalinkCreator::load, each time the introduction is left: what is read is added
\* to the metalink there is, and every file of that to the rows.
Load(c) ==
  LET m == LoadDocument(c.metalink, c.load)
      new == [i \in DOMAIN m.files |-> Row(m.files[i])]
  IN  [c EXCEPT !.metalink = m, !.general = ShownGeneral(m), !.rows = @ \o new, !.need = @ + Needed(new)]

----------------------------------------------------------------------------
(* One file                                                                *)

\* MirrorModel::addMirror: one row for a URL, the newest.
AddMirror(mirrors, u) ==
  IF u.link.ok THEN Append(SelectSeq(mirrors, LAMBDA v : v.link # u.link), u) ELSE mirrors

\* UrlWidget::init, and save after what the user adds to it.
Mirrors(urls)    == FoldLeft(AddMirror, <<>>, urls)
MirrorsEntered(f, urls) == FoldLeft(AddMirror, Mirrors(f.urls), urls)

\* FileDlg::slotOkClicked.  No language can be read from the list, so "" is set.
OkClicked(f, input) ==
  [ClearFile(f) EXCEPT !.name = input.name, !.size = input.size,
     !.data = [input.data EXCEPT !.languages = <<"">>], !.urls = MirrorsEntered(f, input.urls),
     !.metaurls = f.metaurls, !.hashes = f.hashes, !.pieces = f.pieces]

NamesIn(rows) == {rows[i].name : i \in DOMAIN rows}

\* FileDlg::slotUpdateOkButton, with the names there were when it was opened.
OkEnabled(d, input) ==
  input.name # "" /\ MirrorsEntered(d.file, input.urls) # <<>> /\ input.name \notin d.names

FirstNamed(files, name) == SelectInSeq(files, LAMBDA f : f.name = name)

\* A mutant: the count of files without URLs is not lowered.
RemoveFileRowCounted(c, i) ==
  LET k == FirstNamed(c.metalink.files, c.rows[i].name)
  IN  [c EXCEPT !.rows = RemoveAt(@, i), !.metalink.files = IF k = 0 THEN @ ELSE RemoveAt(@, k)]

\* slotRemoveFile for one row: the first file of its name goes.
RemoveFileRow(c, i) ==
  LET k == FirstNamed(c.metalink.files, c.rows[i].name)
  IN  IF k = 0 THEN [c EXCEPT !.rows = RemoveAt(@, i)]
      ELSE [c EXCEPT !.rows = RemoveAt(@, i), !.metalink.files = RemoveAt(@, k),
                     !.need = IF c.rows[i].icon THEN @ - 1 ELSE @]

\* slotAddFile(file), for a result of the thread; nobody looks for the name.
AddResult(c, f) ==
  [c EXCEPT !.rows = Append(@, Row(f)), !.metalink.files = Append(@, f),
            !.need = IF ResourcesValid(f) THEN @ ELSE @ + 1, !.added = @ \cup {f.name}]

\* slotAddFile and slotFileEdited, when the dialog is accepted.
DialogDone(c, f) ==
  IF c.dialog.row = 0
  THEN [c EXCEPT !.rows = Append(@, [name |-> f.name, icon |-> FALSE]), !.metalink.files = Append(@, f),
                 !.dialog = <<>>]
  ELSE [c EXCEPT !.rows[c.dialog.row] = [name |-> f.name, icon |-> FALSE],
                 !.need = IF c.rows[c.dialog.row].icon THEN @ - 1 ELSE @,
                 !.metalink.files[c.dialog.at] = f, !.dialog = <<>>]

----------------------------------------------------------------------------
(* Actions of the user                                                     *)

\* The dialog of a file keeps the rest of the application from input.
Input(page) == creator.page = page /\ creator.dialog = <<>>
Change      == creator.changes < MaxInputs
Edited(c) == [c EXCEPT !.changes = @ + 1]

LeavesIntroduction ==
  /\ Input("introduction")
  /\ Len(creator.metalink.files) < MaxFiles
  /\ UNCHANGED <<hashing, signals, saved, sessions>>
  /\ LET c == Load(creator)
     IN  /\ doubled' = (doubled \/ creator.metalink.files # <<>> \/ ~DistinctNames(c.metalink))
         /\ creator' = Buttons([c EXCEPT !.page = "general"], "general")

Turns(from, to) ==
  /\ Input(from)
  /\ UNCHANGED <<hashing, signals, saved, sessions, doubled>>
  /\ creator' = Buttons([creator EXCEPT !.page = to], to)

\* Back to the introduction, if a change of the files has enabled the button.
TurnsPage == Turns("general", "files") \/ Turns("files", "general")
             \/ (creator.back /\ Turns("general", "introduction"))

EditsGeneral(g) ==
  /\ Input("general") /\ Change
  /\ creator' = Edited([creator EXCEPT !.general = g])
  /\ UNCHANGED <<hashing, signals, saved, sessions, doubled>>

Opens(row, at, f) ==
  /\ Change
  /\ creator' = Edited([creator EXCEPT !.dialog =
                  [row |-> row, at |-> at, file |-> f, names |-> NamesIn(creator.rows) \ {f.name}]])
  /\ UNCHANGED <<hashing, signals, saved, sessions, doubled>>

AddClicked == Input("files") /\ Len(creator.metalink.files) < MaxFiles /\ Opens(0, 0, EmptyFile)

FileProperties ==
  /\ Input("files")
  /\ \E i \in DOMAIN creator.rows :
       LET k == FirstNamed(creator.metalink.files, creator.rows[i].name)
       IN  k # 0 /\ Opens(i, k, creator.metalink.files[k])

DialogAccepted(input) ==
  /\ creator.dialog # <<>> /\ OkEnabled(creator.dialog, input)
  /\ LET d == creator.dialog
         f == OkClicked(IF d.row = 0 THEN EmptyFile ELSE creator.metalink.files[d.at], input)
     IN  /\ doubled' = (doubled \/ f.name \in NamesIn(creator.rows) \ {d.file.name})
         /\ UNCHANGED <<hashing, signals, saved, sessions>>
         /\ creator' = Buttons(DialogDone(creator, f), "none")

DialogRejected ==
  /\ creator.dialog # <<>>
  /\ creator' = [creator EXCEPT !.dialog = <<>>]
  /\ UNCHANGED <<hashing, signals, saved, sessions, doubled>>

RemoveFiles ==
  /\ Input("files") /\ Change
  /\ UNCHANGED <<hashing, signals, saved, sessions, doubled>>
  /\ \E i \in DOMAIN creator.rows : creator' = Edited(Buttons(RemoveFileRow(creator, i), "none"))

----------------------------------------------------------------------------
(* Dropped files                                                           *)

\* evaluateFileProcess: with all directories listed the dialog is opened.
Evaluate(c) == IF c.jobs = <<>> /\ c.found # <<>> THEN [c EXCEPT !.drags = @ + 1, !.temp = NoTemp] ELSE c

\* DirectoryHandler::slotFiles; directories are listed by jobs of their own.
SlotFiles(c, drop) ==
  LET plain == SelectSeq(drop, LAMBDA d : ~d.dir)
  IN  Evaluate([c EXCEPT !.found = @ \o FlattenSeq([i \in DOMAIN plain |-> plain[i].files]),
                         !.jobs = @ \o SelectSeq(drop, LAMBDA d : d.dir)])

DropsFiles(drop) ==
  /\ Input("files") /\ Change
  /\ creator' = Edited(SlotFiles(creator, drop))
  /\ UNCHANGED <<hashing, signals, saved, sessions, doubled>>

\* slotDirEntries and slotFinished.  The URL made of a directory's is none, so that no
\* checksum can be computed.
DirListed ==
  /\ creator.page # "closed"
  /\ \E j \in DOMAIN creator.jobs :
       LET entries == creator.jobs[j].files
       IN  creator' = Evaluate([creator EXCEPT !.jobs = RemoveAt(@, j),
             !.found = @ \o [i \in DOMAIN entries |-> [entries[i] EXCEPT !.readable = FALSE]]])
  /\ UNCHANGED <<hashing, signals, saved, sessions, doubled>>

\* FileHandlerThread::setData.  A thread that has seen the end of the queue but still
\* runs is not started again.
GiveToThread(t, batch) ==
  [t EXCEPT !.queue = Append(@, batch), !.state = IF @ = "idle" THEN "looking" ELSE @,
            !.given = @ \cup {f.name : f \in Range(batch.files)},
            !.missed = IF t.state = "ending" THEN @ \cup {f.name : f \in Range(batch.files)} ELSE @]

\* DragDlg::slotFinished and slotHandleDropped: the first dialog that is accepted
\* takes all files, with the mirrors and languages of those accepted since one opened.
DragAccepted(input) ==
  /\ creator.page # "closed" /\ creator.dialog = <<>> /\ creator.drags > 0
  /\ LET temp == [urls |-> creator.temp.urls \o Mirrors(input.urls),
                  languages |-> Append(creator.temp.languages, "")]
     IN  /\ hashing' = GiveToThread(hashing,
              [files |-> creator.found, types |-> input.types, partial |-> input.partial, urls |-> temp.urls,
               data |-> [input.data EXCEPT !.languages = temp.languages]])
         /\ creator' = [creator EXCEPT !.drags = @ - 1, !.found = <<>>, !.temp = temp]
  /\ UNCHANGED <<signals, saved, sessions, doubled>>

\* The files stay, for the next dialog.
DragRejected ==
  /\ creator.page # "closed" /\ creator.dialog = <<>> /\ creator.drags > 0
  /\ creator' = [creator EXCEPT !.drags = @ - 1]
  /\ UNCHANGED <<hashing, signals, saved, sessions, doubled>>

----------------------------------------------------------------------------
(* The thread                                                              *)

\* The mirror's URL and the name are put together as a path: what comes out is no URL.
Mirrored(u)     == [u EXCEPT !.link = [@ EXCEPT !.ok = FALSE]]
Hashes(f, b)    == [t \in IF f.readable THEN b.types ELSE {} |-> "hash"]
PiecesOf(f, b)  == IF b.partial /\ f.readable
                   THEN [i \in 1..Cardinality(b.types) |->
                           [type |-> SetToSeq(b.types)[i], length |-> 1, hashes |-> <<"hash">>]]
                   ELSE <<>>
ResultFor(f, b) ==
  [EmptyFile EXCEPT !.name = f.name, !.size = f.size, !.data = b.data,
     !.urls = [i \in DOMAIN b.urls |-> Mirrored(b.urls[i])],
     !.hashes = Hashes(f, b), !.pieces = PiecesOf(f, b)]

\* A mutant: only one batch is taken in a run.
ThreadTakesOne ==
  /\ hashing.state = "looking"
  /\ hashing' = IF hashing.queue = <<>> \/ hashing.batch # <<>> THEN [hashing EXCEPT !.state = "ending"]
                ELSE [hashing EXCEPT !.state = "working", !.batch = Head(hashing.queue), !.files = Head(hashing.queue).files,
                                     !.queue = Tail(@)]
  /\ UNCHANGED <<creator, signals, saved, sessions, doubled>>

ThreadTakes ==
  /\ hashing.state = "looking"
  /\ hashing' = IF hashing.queue = <<>> THEN [hashing EXCEPT !.state = "ending"]
                ELSE [hashing EXCEPT !.state = "working", !.batch = Head(hashing.queue),
                                     !.files = Head(hashing.queue).files, !.queue = Tail(@)]
  /\ UNCHANGED <<creator, signals, saved, sessions, doubled>>

ThreadHandles ==
  /\ hashing.state = "working"
  /\ IF hashing.files = <<>>
     THEN hashing' = [hashing EXCEPT !.state = "looking"] /\ UNCHANGED signals
     ELSE /\ hashing' = [hashing EXCEPT !.files = Tail(@)]
          /\ signals' = Append(signals, ResultFor(Head(hashing.files), hashing.batch))
  /\ UNCHANGED <<creator, saved, sessions, doubled>>

\* The signal `finished` is taken after all signals.
ThreadEnds ==
  /\ hashing.state = "ending"
  /\ hashing' = [hashing EXCEPT !.state = "idle", !.batch = <<>>]
  /\ signals' = Append(signals, EmptyFile)
  /\ UNCHANGED <<creator, saved, sessions, doubled>>

TakeResult ==
  /\ signals # <<>>
  /\ signals' = Tail(signals)
  /\ UNCHANGED <<hashing, saved, sessions>>
  /\ LET f == Head(signals)
     IN  /\ doubled' = (doubled \/ f.name \in NamesIn(creator.rows))
         /\ creator' = Buttons(IF f = EmptyFile THEN creator ELSE AddResult(creator, f), "none")

----------------------------------------------------------------------------
(* Saving, and the next session                                            *)

\* The assistant closes, and with it the thread and what it has not given back.
Finish(format) ==
  /\ creator.page \in {"general", "files"} /\ creator.dialog = <<>> /\ creator.finish
  /\ LET m == SaveGeneral(creator.metalink, creator.general)
     IN  saved' = [doc |-> SaveDocument(m, format), of |-> m, format |-> format]
  /\ creator' = [NewCreator(NoDocument) EXCEPT !.page = "closed", !.changes = creator.changes]
  /\ hashing' = IdleThread /\ signals' = <<>> /\ doubled' = FALSE
  /\ UNCHANGED sessions

OpensAgain ==
  /\ creator.page = "closed" /\ sessions < MaxSessions
  /\ creator' = [NewCreator(saved.doc) EXCEPT !.changes = creator.changes]
  /\ sessions' = sessions + 1
  /\ UNCHANGED <<hashing, signals, saved, doubled>>

CreatorInit ==
  /\ \E doc \in Documents : creator = NewCreator(doc)
  /\ hashing = IdleThread /\ signals = <<>> /\ sessions = 1 /\ doubled = FALSE
  /\ saved = [doc |-> NoDocument, of |-> EmptyMetalink, format |-> "none"]

CreatorNext ==
  \/ LeavesIntroduction \/ TurnsPage \/ AddClicked \/ FileProperties \/ DialogRejected \/ RemoveFiles
  \/ (\E g \in GeneralEdits : EditsGeneral(g)) \/ (\E i \in FileInputs : DialogAccepted(i))
  \/ (\E d \in Drops : DropsFiles(d)) \/ DirListed \/ (\E i \in DragInputs : DragAccepted(i)) \/ DragRejected
  \/ ThreadTakes \/ ThreadHandles \/ ThreadEnds \/ TakeResult
  \/ (\E f \in Formats : Finish(f)) \/ OpensAgain

\* The thread runs on, and its signals are taken.
CreatorFairness == WF_creatorVars(ThreadTakes \/ ThreadHandles \/ ThreadEnds) /\ WF_creatorVars(TakeResult)

----------------------------------------------------------------------------
(* Properties                                                              *)

\* What a form keeps of a metalink.  Of both: links that are whole, priorities up to
\* the largest, names as they are decoded.  4.0 drops the dynamic mark of a metalink
\* without an origin.  3.0 tells torrents by their names, drops other metaurls and
\* several operating systems, and gives a date without an offset that of UTC.
KeptUrls(us, max) == LET whole == SelectSeq(us, LAMBDA u : u.link.ok)
                     IN  [i \in DOMAIN whole |-> [whole[i] EXCEPT !.priority = Capped(@, max)]]
KeptFile(f) ==
  [f EXCEPT !.name = Decoded[@], !.urls = KeptUrls(@, MaxUrlPriority), !.metaurls = KeptUrls(@, MaxUrlPriority)]
KeptFile_v3(f) ==
  LET all == KeptUrls(f.urls \o [i \in DOMAIN SelectSeq(f.metaurls, LAMBDA u : u.type = "torrent") |->
               LET u == SelectSeq(f.metaurls, LAMBDA v : v.type = "torrent")[i]
               IN  Url(u.link, u.priority, "")], MaxPreference)
      torrents == SelectSeq(all, LAMBDA u : u.link.torrent)
  IN  [f EXCEPT !.name = Decoded[@], !.urls = SelectSeq(all, LAMBDA u : ~u.link.torrent),
                !.metaurls = [i \in DOMAIN torrents |-> Metaurl(torrents[i].link, torrents[i].priority, "torrent")],
                !.data.oses = IF Len(@) > 1 THEN <<>> ELSE @]
KeptDate(d, none) ==
  IF d.dt = "" THEN NoDate
  ELSE IF d.offset = "" THEN [d EXCEPT !.offset = none, !.negative = FALSE] ELSE d
Kept(m) ==
  [m EXCEPT !.dynamic = @ /\ m.origin # "", !.date = [k \in DateKinds |-> KeptDate(@[k], "")],
            !.files = [i \in DOMAIN @ |-> KeptFile(@[i])]]
Kept_v3(m) ==
  [m EXCEPT !.date = [k \in DateKinds |-> KeptDate(@[k], "00:00")],
            !.files = [i \in DOMAIN @ |-> KeptFile_v3(@[i])]]

\* A metalink that was saved reads back as it was, up to what its form cannot say,
\* whatever was loaded, entered, dropped or removed before (Metalink::save and load,
\* Metalink_v3::save and load).
SavedReadsBack ==
  /\ saved.format = "meta4"    => LoadDocument(EmptyMetalink, saved.doc) = Kept(saved.of)
  /\ saved.format = "metalink" => LoadDocument(EmptyMetalink, saved.doc) = Kept_v3(saved.of)

\* The list the user sees is the list of files that will be saved, and the files
\* without a mirror are those with an icon and those that are counted, with signals
\* of the thread coming in at any time; as long as no name comes up twice.
RowsMatchFiles ==
  ~doubled =>
    /\ creator.rows = [i \in DOMAIN creator.metalink.files |-> Row(creator.metalink.files[i])]
    /\ creator.need = Needed(creator.rows)

\* What the user sees is what gets saved, and what was saved is what is read.
CreatorFits == SavedReadsBack /\ RowsMatchFiles

\* Again and again every dropped file that was given to the thread has got into the
\* metalink, unless the assistant is closed, or the file was given to the thread in
\* the moment it ended (setData then starts nothing).
DroppedAreAdded ==
  []<>(creator.page = "closed" \/ hashing.given \ hashing.missed \subseteq creator.added)
=============================================================================
