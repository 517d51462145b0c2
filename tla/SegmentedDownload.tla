------------------------- MODULE SegmentedDownload -------------------------
(***************************************************************************)
(* One file fetched in pieces from several mirrors: DataSourceFactory      *)
(* (src/core/datasourcefactory.cpp), its MultiSegKioDataSources and their  *)
(* Segments (src/transfer-plugins/multisegmentkio), and the transfer that  *)
(* owns the factory, TransferMultiSegKio.                                  *)
(*                                                                         *)
(* All of it runs in one thread, and a signal calls its slots at once: the *)
(* operators below take the memory of the download, a record `d`, and      *)
(* return it as the function of the same name leaves it, the slots it      *)
(* reaches included.  What arrives from outside (a job's answer, a timer,  *)
(* a user's command) is an action.  The file's contents and the saved list *)
(* outlive the program.                                                    *)
(*                                                                         *)
(* Sizes are in units smaller than a chunk.  Chunks are numbered from 0,   *)
(* chunk c holds the units from c * SegSize on.  A datum is the number of  *)
(* the unit it is the content of, or Corrupt.                              *)
(***************************************************************************)
EXTENDS Integers, SequencesExt, FiniteSetsExt, TLC

CONSTANTS
  Mirrors,      \* the URLs
  Setups,       \* [server: what each URL's server does, first: the URL to start
                \* with, case: see Cases]
  Size,         \* the size of the file on the servers, in units
  SegSize,      \* m_segSize
  PieceLen,     \* length of the pieces with checksums, 0 if there are none
  SaveSegSize,  \* Segment writes when it holds more than this
  Connections,  \* the numbers of parallel connections a user may ask for
  MaxMirrors,   \* m_maxMirrorsUsed at first
  MaxTries,     \* attempts to hand the rest over (100 in the code)
  MirrorChoices, \* the mirrors a user may set
  MaxFaults,    \* bound: connections that fail, crashes, and the like
  MaxCommands   \* bound: commands of the user

ServerKinds == {"good", "noresume", "corrupt", "wrongsize", "nosize"}
\* The size may be known from a metalink, the URL may be ftp, and the file of an
\* earlier download may be in the way.
Cases       == {"plain", "known", "ftp", "old file"}

ASSUME SegmentAssumption ==
  /\ {Size, SegSize, MaxMirrors, MaxTries} \subseteq Nat \ {0}
  /\ {PieceLen, SaveSegSize, MaxFaults, MaxCommands} \subseteq Nat
  /\ Connections \subseteq Nat \ {0} /\ Connections # {} /\ IsFiniteSet(Connections)
  /\ IsFiniteSet(Mirrors)
  /\ \A new \in MirrorChoices : /\ DOMAIN new \subseteq Mirrors /\ DOMAIN new # {}
                               /\ new \in [DOMAIN new -> BOOLEAN \X Nat]
  /\ Setups \subseteq [server : [Mirrors -> ServerKinds], first : Mirrors, case : Cases]

VARIABLES
  server,    \* what the server of each URL does
  dl,        \* the memory of the factory, its sources and its transfer
  wanted,    \* the policy of the transfer lets it run
  faults,    \* faults so far
  commands,  \* commands so far
  tainted    \* history: the known ways in which a wrong file came about

vars == <<server, dl, wanted, faults, commands, tainted>>

Corrupt == -1
Units   == 0 .. Size - 1

\* DataSourceFactory::init: the number of chunks, rounded up.
NumChunks == (Size \div SegSize) + (IF Size % SegSize = 0 THEN 0 ELSE 1)
Chunks    == 0 .. NumChunks - 1

ChunkUnits(c) == {u \in Units : u \div SegSize = c}

\* The last chunk holds the rest, if there is one.
LastSegSize(end) ==
  IF end + 1 = NumChunks /\ Size % SegSize # 0 THEN Size % SegSize ELSE SegSize

Statuses == {"Stopped", "Running", "Finished", "Aborted"}

(***************************************************************************)
(* Segment: the chunks cur .. end are its own; off is the next unit to     *)
(* write, buf what was received and not handed over yet, pos the next unit *)
(* its job receives.                                                       *)
(***************************************************************************)
NewSegment(range, last) ==
  [cur     |-> range[1],
   end     |-> range[2],
   off     |-> SegSize * range[1],
   segLeft |-> IF range[1] = range[2] THEN last ELSE SegSize,
   left    |-> SegSize * (range[2] - range[1]) + last,
   last    |-> last,
   buf     |-> <<>>,
   job     |-> "none",
   pos     |-> 0,
   resume  |-> TRUE,
   running |-> FALSE,
   finding |-> FALSE,
   timers  |-> 0,
   tries   |-> 0]

\* The segment that findFileSize() adds, for the range (-1, -1).
FindingSegment ==
  [NewSegment(<<0, 0>>, SegSize) EXCEPT !.segLeft = 0, !.left = 0, !.finding = TRUE]

Unfinished(s) == s.end - s.cur

\* createTransfer makes a suspended job, which only a segment that was not
\* running resumes.
StartTransfer(s) ==
  LET t == IF s.job # "none" THEN s
           ELSE [s EXCEPT !.job = "suspended", !.pos = s.off, !.resume = @ /\ s.off = 0]
  IN  IF s.running THEN t ELSE [t EXCEPT !.running = TRUE, !.job = "active"]

\* The killed job's result clears the buffer; without a job nothing does.
StopTransfer(s) ==
  IF s.job = "none" THEN [s EXCEPT !.running = FALSE]
  ELSE [s EXCEPT !.running = FALSE, !.job = "none", !.buf = <<>>]

\* Half of the chunks, rounded up, are given away.  The job is suspended meanwhile
\* and then resumed, also one that had not been resumed before.
Freed(s) == (Unfinished(s) + 2) \div 2
SplitSegment(s) ==
  [s EXCEPT !.end = s.end - Freed(s), !.last = SegSize,
            !.left = s.left - (SegSize * (Freed(s) - 1) + s.last),
            !.job = IF @ = "none" THEN @ ELSE "active"]

MergeSegment(s, last, range) ==
  [s EXCEPT !.end = range[2], !.last = last,
            !.left = s.left + SegSize * (range[2] - range[1]) + last]

\* What is left of the current chunk c of s once n units were handed over and
\* the chunks before c finished.
LeftOf(s, n, c) ==
  s.segLeft - n + (IF c = s.cur THEN 0
                   ELSE SegSize * (c - s.cur - 1) + (IF c = s.end THEN s.last ELSE SegSize))

\* The chunks that are finished once n more units are handed over.
FinishedBy(s, n) == {c \in s.cur .. s.end : LeftOf(s, n, c) <= 0}

(***************************************************************************)
(* MultiSegKioDataSource                                                   *)
(***************************************************************************)
NewSource(conns, supposed) ==
  [par |-> conns, supposed |-> supposed, started |-> FALSE, segs |-> <<>>]

StartSource(s) ==
  [s EXCEPT !.started = TRUE,
            !.segs = [i \in DOMAIN s.segs |-> StartTransfer(s.segs[i])]]

\* At most one segment looks for the size.
Finding(s) == {i \in DOMAIN s.segs : s.segs[i].finding}
StopSource(s) ==
  LET kept == IF Finding(s) = {} THEN s.segs ELSE RemoveAt(s.segs, Min(Finding(s)))
  IN  [s EXCEPT !.started = FALSE,
                !.segs = [i \in DOMAIN kept |-> StopTransfer(kept[i])]]

AssignedSegments(s) == {<<s.segs[i].cur, s.segs[i].end>> : i \in DOMAIN s.segs}
ChangeNeeded(s)     == s.par - Len(s.segs)

AddSegments(s, range) ==
  LET new == NewSegment(range, LastSegSize(range[2]))
  IN  [s EXCEPT !.segs = Append(@, IF s.started THEN StartTransfer(new) ELSE new)]

CountUnfinishedSegments(s) == Max({0} \cup {Unfinished(s.segs[i]) : i \in DOMAIN s.segs})

\* The first of the segments with the most unfinished chunks, 0 if none has any.
MostUnfinishedSegments(s) ==
  IF CountUnfinishedSegments(s) = 0 THEN 0
  ELSE Min({i \in DOMAIN s.segs : Unfinished(s.segs[i]) = CountUnfinishedSegments(s)})

(***************************************************************************)
(* DataSourceFactory: the chunks and who fetches them                      *)
(***************************************************************************)
\* foreach: op is called for one after the other.
InTurn(op(_, _), d, s) ==
  LET after[n \in 0 .. Len(s)] == IF n = 0 THEN d ELSE op(after[n - 1], s[n])
  IN  after[Len(s)]

RangeSet(range)   == range[1] .. range[2]
Used(d)           == DOMAIN d.src
\* A QHash has an order of its own.
UsedInOrder(d)    == SetToSeq(Used(d))
AssignNeeded(d)   == \A m \in Used(d) : d.src[m].segs = <<>>
InitChunks(d)     == [d EXCEPT !.chunks = d.size # 0]

\* BitSet::getContinuousRange(.., false): the first run of chunks not started.
FirstUnstarted(d) ==
  LET first == Min(Chunks \ d.started)
  IN  <<first, Max({c \in Chunks : \A b \in first .. c : b \notin d.started})>>

\* A mirror with the most unfinished chunks in one segment.
SplitTarget(d) ==
  CHOOSE t \in Used(d) : \A m \in Used(d) :
    CountUnfinishedSegments(d.src[m]) <= CountUnfinishedSegments(d.src[t])

CanSplit(d) == \E m \in Used(d) : CountUnfinishedSegments(d.src[m]) > 0

\* One call of assignSegments: it gives m a run of chunks that nobody fetches,
\* or half of somebody's.
Give(d, m, range) ==
  [d EXCEPT !.started = @ \cup RangeSet(range), !.src[m] = AddSegments(@, range)]
Split(d, t, i, m) ==
  LET s == d.src[t].segs[i]
  IN  Give([d EXCEPT !.src[t].segs[i] = SplitSegment(s)], m, <<s.end - Freed(s) + 1, s.end>>)
SplitOf(d, t, m) == Split(d, t, MostUnfinishedSegments(d.src[t]), m)

AssignOnce(d, m) ==
  IF d.finished = Chunks \/ ChangeNeeded(d.src[m]) <= 0 THEN d
  ELSE IF d.started # Chunks THEN Give(d, m, FirstUnstarted(d))
  ELSE IF CanSplit(d) THEN SplitOf(d, SplitTarget(d), m) ELSE d

\* assignSegments calls itself while the source has connections to spare.
AssignSegments(d, m) ==
  IF ~d.chunks THEN [d EXCEPT !.assignTried = TRUE]
  ELSE InTurn(AssignOnce, d, [n \in 1 .. NumChunks + 1 |-> m])

AssignAll(d) == InTurn(AssignSegments, d, UsedInOrder(d))

\* a mutant: the chunks are not free again
RemoveMirrorKeepingChunks(d, m) ==
  IF m \notin Used(d) THEN d
  ELSE [d EXCEPT !.src    = [x \in Used(d) \ {m} |-> d.src[x]],
                 !.unused = Append(@, <<m, d.src[m].par>>)]

\* A mirror's segments are stopped and their chunks free again; when that
\* leaves nobody fetching, another mirror gets work.
Detach(d, m, s) ==
  [d EXCEPT !.src     = [x \in Used(d) \ {m} |-> d.src[x]],
            !.unused  = Append(@, <<m, s.par>>),
            !.started = @ \ UNION {RangeSet(r) : r \in AssignedSegments(s)}]
AssignFirst(d) ==
  IF AssignNeeded(d) /\ Used(d) # {} THEN AssignSegments(d, UsedInOrder(d)[1]) ELSE d
Reassign(d) == IF d.status = "Running" THEN AssignFirst(d) ELSE d
RemoveMirror(d, m) ==
  Reassign(IF m \in Used(d) THEN Detach(d, m, StopSource(d.src[m])) ELSE d)

\* MultiSegKioDataSource::removeConnection, as long as there are too many.
RemoveConnection(d, m) ==
  LET i == MostUnfinishedSegments(d.src[m])
  IN  IF i = 0 THEN d
      ELSE [d EXCEPT !.src[m].segs = RemoveAt(@, i),
                     !.started = @ \ (d.src[m].segs[i].cur .. d.src[m].segs[i].end)]

RemoveConnections(d, m) ==
  InTurn(RemoveConnection, d, [n \in 1 .. -ChangeNeeded(d.src[m]) |-> m])

StartAssigned(d, m) ==
  IF ~d.assignTried /\ ~d.startTried /\ d.put = "open" /\ d.status = "Running"
  THEN [d EXCEPT !.src[m] = StartSource(@)] ELSE d
AddSource(d, m, conns) ==
  LET at == {i \in DOMAIN d.unused : d.unused[i][1] = m}
  IN  StartAssigned(
        AssignSegments([d EXCEPT !.unused = IF at = {} THEN @ ELSE RemoveAt(@, Min(at)),
                                 !.src = [x \in Used(d) \cup {m} |->
                                   IF x = m THEN NewSource(conns, d.sizeDefined) ELSE @[x]]], m), m)

\* `defined` says that the user has chosen: then the limit makes room.
FitConnections(d, m) ==
  IF ChangeNeeded(d.src[m]) > 0 THEN AssignSegments(d, m) ELSE RemoveConnections(d, m)
AddMirror(d, m, used, conns, defined) ==
  IF ~used
  THEN IF m \in Used(d) THEN RemoveMirror(d, m)
       ELSE [d EXCEPT !.unused = Append(@, <<m, conns>>)]
  ELSE IF m \in Used(d)
  THEN FitConnections([d EXCEPT !.src[m].par = conns], m)
  ELSE IF defined \/ Cardinality(Used(d)) < d.max
  THEN AddSource([d EXCEPT !.max = IF Cardinality(Used(d)) < @ THEN @
                                   ELSE Cardinality(Used(d)) + 1], m, conns)
  ELSE [d EXCEPT !.unused = Append(@, <<m, conns>>)]

AddFirstUnused(d) ==
  LET next == Head(d.unused)
  IN  AddMirror([d EXCEPT !.unused = Tail(@)], next[1], TRUE, next[2], TRUE)

\* A mirror as the user or a saved list names it: its URL, whether it is used, and
\* its connections.
AddListed(d, c) == AddMirror(d, c[1], c[2], c[3], TRUE)

\* `new` maps a mirror to whether it is used and to its connections.
SetMirrors(d, new) ==
  LET kept == [InTurn(RemoveMirror, d, SetToSeq(Used(d) \ DOMAIN new)) EXCEPT !.unused = <<>>]
  IN  InTurn(AddListed, kept, SetToSeq({<<m, new[m][1], new[m][2]>> : m \in DOMAIN new}))

(***************************************************************************)
(* Errors of a segment.  The last segment of a mirror takes the mirror     *)
(* along; otherwise the mirror has one connection less, and the chunks go  *)
(* to the segment before them, or to whoever is assigned them.             *)
(***************************************************************************)
BrokenSegments(d, m, range) ==
  IF ~d.chunks THEN d ELSE RemoveMirror([d EXCEPT !.started = @ \ RangeSet(range)], m)

SlotFreeSegments(d, m, range) == AssignSegments([d EXCEPT !.started = @ \ RangeSet(range)], m)

TryMerge(d, m, range, last) ==
  LET before == {j \in DOMAIN d.src[m].segs : d.src[m].segs[j].end + 1 = range[1]}
  IN  IF before = {} THEN SlotFreeSegments(d, m, range)
      ELSE [d EXCEPT !.src[m].segs[Min(before)] = MergeSegment(@, last, range)]

SlotError(d, m, i) ==
  LET s     == d.src[m].segs[i]
      range == <<s.cur, s.end>>
  IN  IF Len(d.src[m].segs) = 1
      THEN BrokenSegments([d EXCEPT !.src[m].segs = <<>>], m, range)
      ELSE TryMerge([d EXCEPT !.src[m].segs = RemoveAt(@, i),
                              !.src[m].par = IF @ > 1 THEN @ - 1 ELSE @], m, range, s.last)

(***************************************************************************)
(* Handing data over.  The factory takes one buffer at a time; a chunk     *)
(* counts as finished when its data is taken, which is before it is in     *)
(* the file.                                                               *)
(***************************************************************************)
TakesData(d) == ~d.blocked /\ d.put = "open"

\* a mutant: the factory is done as soon as nothing is left to assign
FinishedSegmentEarly(d, m, i) ==
  IF d.started = Chunks THEN [d EXCEPT !.src[m].segs = RemoveAt(@, i), !.done = TRUE]
  ELSE AssignSegments([d EXCEPT !.src[m].segs = RemoveAt(@, i)], m)

\* finishedSegment: the last chunk of a segment ends the segment.
FinishedSegment(d, m, i) ==
  IF d.finished = Chunks THEN [d EXCEPT !.src[m].segs = RemoveAt(@, i), !.done = TRUE]
  ELSE AssignSegments([d EXCEPT !.src[m].segs = RemoveAt(@, i), !.done = FALSE], m)

Written(s, over) ==
  LET n   == Len(s.buf)
      cur == IF s.end \in over THEN s.end ELSE s.cur + Cardinality(over)
  IN  [s EXCEPT !.buf = <<>>, !.off = @ + n, !.cur = cur,
                !.segLeft = IF s.finding THEN @ - n ELSE LeftOf(s, n, cur),
                !.left = IF s.finding THEN @ ELSE @ - n]
SlotWriteData(d, m, i, over) ==
  LET s == d.src[m].segs[i]
  IN  [d EXCEPT !.blocked = TRUE, !.temp = s.buf, !.tempOff = s.off, !.finished = @ \cup over,
                !.src[m].segs[i] = Written(s, over)]
WriteBuffer(d, m, i) ==
  LET s    == d.src[m].segs[i]
      over == IF s.finding THEN {} ELSE FinishedBy(s, Len(s.buf))
  IN  IF s.buf = <<>> \/ ~TakesData(d) THEN d
      ELSE IF s.end \in over THEN FinishedSegment(SlotWriteData(d, m, i, over), m, i)
      ELSE SlotWriteData(d, m, i, over)

\* The rest of a segment, tried until the factory takes it.  A segment that
\* never learnt the size ends the download.
SlotWriteRest(d, m, i) ==
  LET s    == d.src[m].segs[i]
      over == WriteBuffer([d EXCEPT !.src[m].segs[i].tries = 0], m, i)
  IN  IF s.buf = <<>> THEN d
      ELSE IF TakesData(d)
      THEN IF s.finding THEN [over EXCEPT !.src[m] = StopSource(@), !.done = TRUE] ELSE over
      ELSE IF s.tries + 1 >= MaxTries THEN SlotError(d, m, i)
      ELSE [d EXCEPT !.src[m].segs[i] = [s EXCEPT !.tries = @ + 1, !.timers = @ + 1]]

(***************************************************************************)
(* The status, which the transfer copies; a finished ftp download asks for *)
(* the file's date first.                                                  *)
(***************************************************************************)
SlotDataSourceFactoryChange(d, status) ==
  IF status = "Finished" /\ d.ftp THEN [d EXCEPT !.stat = TRUE] ELSE [d EXCEPT !.tstatus = status]

ChangeStatus(d, status) ==
  SlotDataSourceFactoryChange(
    IF status # "Finished" THEN [d EXCEPT !.status = status]
    ELSE [d EXCEPT !.status = status,
                   !.downloaded = IF d.size # 0 THEN d.size ELSE @,
                   !.size = IF d.size # 0 THEN @ ELSE d.downloaded,
                   !.foundOnFinish = @ \/ (d.size = 0 /\ d.downloaded # 0),
                   !.verified = "running"],
    status)

FindFileSize(d) ==
  IF d.size # 0 \/ Used(d) = {} THEN d
  ELSE LET m == UsedInOrder(d)[1]
       IN  ChangeStatus([d EXCEPT !.src[m].segs = Append(@, StartTransfer(FindingSegment))],
                        "Running")

NoFile    == [u \in Units |-> "absent"]
EmptyFile == [u \in Units |-> "none"]

\* start() gets one step further each time and is called again by the answer
\* it waits for; `creatable` says whether the file can be created.
WithFile(d) ==
  [d EXCEPT !.initialized = TRUE, !.file = IF @ = NoFile THEN EmptyFile ELSE @]
Opened(d) == InitChunks(WithFile(d))
FindOnce(d) ==
  IF d.findTried \/ Used(d) = {} THEN d ELSE FindFileSize([d EXCEPT !.findTried = TRUE])
AssignAny(d) ==
  IF Used(d) = {} /\ d.unused # <<>> THEN AddFirstUnused(d) ELSE AssignFirst(d)
AssignTried(d) == IF d.assignTried THEN AssignAll([d EXCEPT !.assignTried = FALSE]) ELSE d
StartSources(d) ==
  [d EXCEPT !.src = [m \in Used(d) |-> StartSource(d.src[m])], !.startTried = FALSE]

Start(d, creatable) ==
  IF d.status = "Finished" THEN d
  ELSE IF ~d.doDownload THEN [d EXCEPT !.startTried = TRUE]
  ELSE IF ~d.initialized /\ d.file # NoFile
  THEN [d EXCEPT !.startTried = TRUE, !.removing = TRUE]
  ELSE IF ~creatable /\ d.file = NoFile
  THEN ChangeStatus([d EXCEPT !.startTried = TRUE, !.initialized = TRUE], "Aborted")
  ELSE IF d.put = "none" THEN [WithFile(d) EXCEPT !.put = "opening", !.startTried = TRUE]
  ELSE IF d.put = "lost" THEN [WithFile(d) EXCEPT !.put = "reopening", !.startTried = TRUE]
  ELSE IF d.put = "opening" THEN [Opened(d) EXCEPT !.startTried = TRUE]
  ELSE IF d.size = 0 THEN [FindOnce(Opened(d)) EXCEPT !.startTried = TRUE]
  ELSE ChangeStatus(StartSources(AssignTried(AssignAny(Opened(d)))), "Running")

Stop(d) ==
  IF d.status = "Finished" THEN d
  ELSE ChangeStatus([d EXCEPT !.src = [m \in Used(d) |-> StopSource(d.src[m])],
                              !.startTried = FALSE, !.findTried = FALSE], "Stopped")

StartIfTried(d) == IF d.startTried THEN Start(d, TRUE) ELSE d

(***************************************************************************)
(* Repair of what the verification found broken.                           *)
(***************************************************************************)
PieceUnits(p)    == {u \in Units : u \div PieceLen = p}
Pieces           == IF PieceLen = 0 THEN {} ELSE {u \div PieceLen : u \in Units}
BrokenPieces(d)  == {p \in Pieces : \E u \in PieceUnits(p) : d.file[u] # "right"}

\* slotRepair: the chunks of a piece, counted from the one it starts in.
\* BitSet::setRange does nothing for a range that ends behind the last chunk.
RepairRange(p) ==
  LET start == (p * PieceLen) \div SegSize
      end   == ((PieceLen + SegSize - 1) \div SegSize) - 1 + start
  IN  IF end \in Chunks THEN start .. end ELSE {}

ForgetBroken(d, again) ==
  IF ~d.chunks THEN [d EXCEPT !.downloaded = 0]
  ELSE [d EXCEPT !.started = @ \ again, !.finished = @ \ again,
                 !.downloaded = SegSize * Cardinality(d.finished \ again)]
RemoveMirrors(d) == InTurn(RemoveMirror, [d EXCEPT !.repairing = FALSE], UsedInOrder(d))

SlotRepair(d, pieces) ==
  LET again == IF pieces = {} THEN Chunks ELSE UNION {RepairRange(p) : p \in pieces}
  IN  Start([AddFirstUnused(RemoveMirrors(ForgetBroken(d, again))) EXCEPT !.status = "Stopped"],
            TRUE)

(***************************************************************************)
(* Saving and loading                                                      *)
(***************************************************************************)
\* A download as TransferMultiSegKio::init makes it, of the mirror m and with
\* the size a metalink gave, if known.
NewDownload(m, known, ftp, file) ==
  LET d == [size |-> IF known THEN Size ELSE 0, sizeDefined |-> known, chunks |-> FALSE,
            started |-> {}, finished |-> {}, downloaded |-> 0, done |-> FALSE,
            blocked |-> FALSE, temp |-> <<>>, tempOff |-> 0, put |-> "none",
            startTried |-> FALSE, findTried |-> FALSE, assignTried |-> FALSE,
            removing |-> FALSE, initialized |-> FALSE, doDownload |-> TRUE,
            foundOnFinish |-> FALSE, max |-> MaxMirrors, src |-> <<>>, unused |-> <<>>,
            source |-> m, status |-> "Stopped", tstatus |-> "Stopped", ftp |-> ftp,
            stat |-> FALSE, verified |-> "no", repairing |-> FALSE, file |-> file]
  IN  IF m \in Mirrors THEN AddMirror(d, m, TRUE, Max(Connections), FALSE) ELSE d

ProcessedSize(d) ==
  LET last == NumChunks - 1
  IN  IF ~d.chunks \/ d.foundOnFinish THEN d.downloaded
      ELSE SegSize * Cardinality(d.finished \ {last})
           + (IF last \in d.finished THEN LastSegSize(last) ELSE 0)

SaveOf(d) ==
  [total |-> d.size, downloaded |-> d.downloaded, processed |-> ProcessedSize(d),
   chunks |-> d.chunks /\ ~d.foundOnFinish, finished |-> d.finished,
   sizeDefined |-> d.sizeDefined, foundOnFinish |-> d.foundOnFinish,
   doDownload |-> d.doDownload, initialized |-> d.initialized, max |-> d.max,
   source |-> d.source, urls |-> [m \in Used(d) |-> d.src[m].par], unused |-> d.unused]

\* Transfer::load takes a transfer with as many bytes as its size as finished;
\* the factory goes by the chunks.
Load(s, d) ==
  LET fresh == NewDownload(s.source, FALSE, d.ftp, d.file)
      e     == InitChunks([fresh EXCEPT
                 !.size = s.total, !.downloaded = s.processed, !.sizeDefined = s.sizeDefined,
                 !.foundOnFinish = s.foundOnFinish, !.doDownload = s.doDownload,
                 !.initialized = s.initialized, !.max = s.max,
                 !.started = IF s.chunks THEN s.finished ELSE {},
                 !.finished = IF s.chunks THEN s.finished ELSE {},
                 !.tstatus = IF s.total = s.downloaded /\ s.total # 0 THEN "Finished" ELSE @])
      used  == InTurn(AddListed, e, SetToSeq({<<m, TRUE, s.urls[m]>> : m \in DOMAIN s.urls}))
  IN  InTurn(AddListed, used,
             [n \in DOMAIN s.unused |-> <<s.unused[n][1], FALSE, s.unused[n][2]>>])

(***************************************************************************)
(* Actions.  A step that may take a while to be asked for does not count;  *)
(* a fault and a command do.                                               *)
(***************************************************************************)
SegmentIds == UNION {{m} \X DOMAIN dl.src[m].segs : m \in Used(dl)}
Segment(id) == dl.src[id[1]].segs[id[2]]

\* A job whose next unit does not follow on what its segment holds.
Misplaced(s) == s.job # "none" /\ s.pos # s.off + Len(s.buf)

Becomes(d) ==
  /\ dl' = d /\ server' = server
  /\ tainted' = tainted \cup
       (IF \E m \in Used(d) : \E i \in DOMAIN d.src[m].segs : Misplaced(d.src[m].segs[i])
        THEN {"buffer kept"} ELSE {})

Fault   == faults < MaxFaults /\ faults' = faults + 1 /\ UNCHANGED <<commands, wanted>>
NoFault == UNCHANGED <<faults, commands, wanted>>

\* The job of a segment reports the size of the file, before any of its data.
AwaitsSize(m, s) ==
  \/ s.finding /\ s.off = 0 /\ server[m] # "nosize"
  \/ ~s.finding /\ server[m] = "wrongsize" /\ dl.src[m].supposed

SlotFoundFileSize(m, i) ==
  LET s     == dl.src[m].segs[i]
      found == [s EXCEPT !.finding = FALSE, !.end = NumChunks - 1, !.left = Size,
                         !.last = LastSegSize(NumChunks - 1),
                         !.segLeft = IF NumChunks = 1 THEN LastSegSize(0) ELSE SegSize]
  IN  StartIfTried([InitChunks([dl EXCEPT !.size = Size])
                      EXCEPT !.started = Chunks, !.src[m].segs[i] = found])

JobSize(id) ==
  LET m == id[1] s == Segment(id)
  IN  /\ s.job = "active" /\ AwaitsSize(m, s)
      /\ Becomes(IF s.finding THEN SlotFoundFileSize(m, id[2]) ELSE RemoveMirror(dl, m))
      /\ NoFault

\* n units arrive.
JobData(id, n) ==
  LET m     == id[1]
      s     == Segment(id)
      buf   == s.buf \o [k \in 1 .. n |->
                           IF server[m] \in {"corrupt", "wrongsize"} THEN Corrupt ELSE s.pos + k - 1]
      full  == ~s.finding /\ s.left # 0 /\ Len(buf) >= s.left
      t     == IF full THEN [s EXCEPT !.buf = SubSeq(buf, 1, s.left), !.job = "none"]
               ELSE [s EXCEPT !.buf = buf, !.pos = @ + n]
      d     == [dl EXCEPT !.src[m].segs[id[2]] = t]
  IN  /\ s.job = "active" /\ ~AwaitsSize(m, s) /\ s.pos + n <= Size
      /\ Becomes(IF s.off # 0 /\ ~s.resume /\ server[m] = "noresume" THEN SlotError(dl, m, id[2])
                 ELSE IF full THEN SlotWriteRest(d, m, id[2])
                 ELSE IF Len(buf) > SaveSegSize THEN WriteBuffer(d, m, id[2])
                 ELSE d)
      /\ NoFault

\* The job ends: at the end of the file, or too early; or it fails.
JobEnds(id) ==
  LET s == Segment(id)
      d == [dl EXCEPT !.src[id[1]].segs[id[2]].job = "none"]
  IN  /\ s.job = "active" /\ ~AwaitsSize(id[1], s)
      /\ Becomes(IF s.buf # <<>> /\ s.finding THEN SlotWriteRest(d, id[1], id[2]) ELSE d)
      /\ IF s.pos = Size THEN NoFault ELSE ~s.finding /\ Fault

JobFails(id) ==
  /\ Segment(id).job = "active"
  /\ Becomes(SlotError(dl, id[1], id[2]))
  /\ Fault

\* slotWriteRest, 50 ms later.  A file that takes nothing for all the tries is a
\* fault.
GivesUp(s) == s.buf # <<>> /\ ~TakesData(dl) /\ s.tries + 1 >= MaxTries

RestTimer(id) ==
  /\ Segment(id).timers > 0
  /\ Becomes(SlotWriteRest([dl EXCEPT !.src[id[1]].segs[id[2]].timers = @ - 1], id[1], id[2]))
  /\ IF GivesUp(Segment(id)) THEN Fault ELSE NoFault

\* The job that writes the file.
PutOpen ==
  /\ dl.put \in {"opening", "reopening"}
  /\ Becomes(StartIfTried(InitChunks([dl EXCEPT !.put = "open"])))
  /\ NoFault

Store(d) ==
  [d EXCEPT !.file = [u \in Units |->
     IF u \notin d.tempOff .. d.tempOff + Len(d.temp) - 1 THEN @[u]
     ELSE CASE d.temp[u - d.tempOff + 1] = u       -> "right"
            [] d.temp[u - d.tempOff + 1] = Corrupt -> "corrupt"
            [] OTHER                               -> "misplaced"]]

\* What is written again is counted again; more than Size is all the same.
Counted(n) == IF n > Size THEN Size + 1 ELSE n

\* a mutant: m_blocked stays set
PutWrittenBlocked ==
  /\ dl.temp # <<>> /\ dl.put = "open"
  /\ Becomes([IF dl.done THEN ChangeStatus(Store(dl), "Finished") ELSE Store(dl)
                EXCEPT !.temp = <<>>])
  /\ NoFault

PutWritten ==
  LET d == [Store(dl) EXCEPT !.downloaded = Counted(@ + Len(dl.temp))]
      e == IF dl.done THEN ChangeStatus([d EXCEPT !.put = "none"], "Finished") ELSE d
  IN  /\ dl.temp # <<>> /\ dl.put = "open"
      /\ Becomes([e EXCEPT !.blocked = FALSE, !.temp = <<>>, !.tempOff = 0])
      /\ NoFault

\* It fails: nobody connects to its result, only to its destruction.  A file that
\* was open once keeps m_open and m_blocked; only the job is gone.
PutFails ==
  /\ dl.put \in {"opening", "reopening"} \/ dl.temp # <<>>
  /\ dl' = [dl EXCEPT !.put = IF @ = "opening" THEN "none" ELSE "lost", !.temp = <<>>]
  /\ server' = server
  /\ tainted' = tainted \cup {"write failed"}
  /\ Fault

FileRemoved ==
  /\ dl.removing
  /\ LET d == [dl EXCEPT !.removing = FALSE, !.file = NoFile, !.startTried = FALSE]
     IN  Becomes(IF dl.startTried THEN Start(d, TRUE) ELSE d)
  /\ NoFault

\* Commands.  TransferMultiSegKio looks at its own status.
Command(d) ==
  /\ commands < MaxCommands /\ commands' = commands + 1
  /\ Becomes(d)
  /\ UNCHANGED faults

StartTransferCommand(creatable) ==
  /\ dl.tstatus \notin {"Running", "Finished"}
  /\ wanted' = TRUE
  /\ Command(Start(dl, creatable))

StopTransferCommand ==
  /\ wanted' = FALSE
  /\ Command(IF dl.tstatus \in {"Stopped", "Finished"} THEN dl ELSE Stop(dl))

SetAvailableMirrors(new) ==
  LET usedNew == SetToSeq({m \in DOMAIN new : new[m][1]})
  IN  /\ Command([SetMirrors(dl, new) EXCEPT
                    !.source = IF usedNew = <<>> THEN "none" ELSE Head(usedNew)])
      /\ UNCHANGED wanted

SlotSearchUrls(m) ==
  /\ Command(AddMirror(dl, m, TRUE, Max(Connections), FALSE))
  /\ UNCHANGED wanted

SetDoDownload(b) ==
  /\ b # dl.doDownload
  /\ LET d == [dl EXCEPT !.doDownload = b]
     IN  Command(IF b THEN StartIfTried(d) ELSE IF d.status = "Running" THEN Stop(d) ELSE d)
  /\ UNCHANGED wanted

\* slotVerified: a file that is not right may be repaired.
Verified ==
  /\ dl.verified = "running"
  /\ Becomes([dl EXCEPT !.verified =
                IF \A u \in Units : dl.file[u] = "right" THEN "yes" ELSE "broken"])
  /\ NoFault

Repair ==
  /\ dl.verified = "broken" /\ ~dl.repairing
  /\ Command([dl EXCEPT !.done = FALSE, !.repairing = TRUE])
  /\ UNCHANGED wanted

BrokenPiecesFound ==
  /\ dl.repairing
  /\ Becomes(SlotRepair(dl, BrokenPieces(dl)))
  /\ NoFault

SlotStatResult ==
  /\ dl.stat
  /\ Becomes([dl EXCEPT !.stat = FALSE, !.tstatus = "Finished"])
  /\ NoFault

\* The scheduler starts what may run, and restarts what receives nothing.
SchedulerStarts ==
  /\ wanted /\ dl.tstatus \in {"Stopped", "Aborted"}
  /\ Becomes(Start(dl, TRUE))
  /\ NoFault

UnderWay(d) ==
  \/ d.temp # <<>> \/ d.put \in {"opening", "reopening"} \/ d.removing
  \/ \E m \in Used(d) : \E i \in DOMAIN d.src[m].segs :
       d.src[m].segs[i].job = "active" \/ d.src[m].segs[i].timers > 0

SchedulerRestarts ==
  /\ dl.tstatus = "Running" /\ ~UnderWay(dl)
  /\ Becomes(Start(Stop(dl), TRUE))
  /\ NoFault

\* KGet saves the list when it quits, and after every change of a status: a
\* crash right after a save is the same.  The write under way may get through.
SaveAndRestart(through) ==
  LET d == Load(SaveOf(dl), IF through THEN Store(dl) ELSE dl)
  IN  /\ dl' = d /\ server' = server
      /\ tainted' = tainted
           \cup (IF \E c \in d.finished : \E u \in ChunkUnits(c) : d.file[u] \in {"none", "absent"}
                 THEN {"saved ahead"} ELSE {})
           \cup (IF d.finished = Chunks THEN {"saved whole"} ELSE {})
           \cup (IF d.tstatus = "Finished" /\ d.chunks /\ d.finished # Chunks THEN {"counted twice"} ELSE {})
      /\ Fault

----------------------------------------------------------------------------
Init ==
  /\ \E s \in Setups :
       /\ server = s.server
       /\ dl = NewDownload(s.first, s.case = "known", s.case = "ftp",
                           IF s.case = "old file" THEN [u \in Units |-> "old"] ELSE NoFile)
  /\ wanted = TRUE /\ faults = 0 /\ commands = 0 /\ tainted = {}

DownloadEvents == \E id \in SegmentIds :
  \/ JobSize(id) \/ (\E n \in 1 .. 2 : JobData(id, n)) \/ JobEnds(id) \/ JobFails(id)
  \/ RestTimer(id)

Files == PutOpen \/ PutWritten \/ PutFails \/ FileRemoved \/ SlotStatResult

Commands ==
  \/ (\E c \in BOOLEAN : StartTransferCommand(c)) \/ StopTransferCommand
  \/ (\E new \in MirrorChoices : SetAvailableMirrors(new))
  \/ (\E m \in Mirrors : SlotSearchUrls(m)) \/ (\E b \in BOOLEAN : SetDoDownload(b))
  \/ Repair

Next ==
  \/ DownloadEvents \/ Files \/ Commands \/ Verified \/ BrokenPiecesFound
  \/ SchedulerStarts \/ SchedulerRestarts
  \/ (\E through \in BOOLEAN : SaveAndRestart(through))

Spec == Init /\ [][Next]_vars

----------------------------------------------------------------------------
Fetched(id) == Segment(id).cur .. Segment(id).end
Sought    == \E id \in SegmentIds : Segment(id).finding

\* A chunk that is started and not finished belongs to exactly one segment of
\* one mirror, through splits, merges, errors, mirrors that come and go, stops
\* and restarts: no chunk is fetched twice at a time, and none is left out
\* (assignSegments, removeMirror, slotFreeSegments, brokenSegments).
EveryChunkIsSomebodys ==
  dl.chunks /\ ~Sought =>
    /\ \A a, b \in SegmentIds : a # b => Fetched(a) \cap Fetched(b) = {}
    /\ dl.started \ dl.finished = UNION {Fetched(id) : id \in SegmentIds}

\* A segment's counters agree with its chunks: what is left of the current one,
\* and of all of them, ends where they end, the shorter last chunk included
\* (split, merge and finished write all four).
CountersFitChunks ==
  \A id \in SegmentIds :
    LET s == Segment(id)
    IN  ~s.finding =>
          /\ s.off + s.left = SegSize * s.end + LastSegSize(s.end)
          /\ s.off + s.segLeft = SegSize * s.cur + LastSegSize(s.cur)

\* A download that calls itself finished has the whole file: each unit holds what
\* a server sent for it.  `tainted` lists the ways it does not hold.
FinishedIsWhole ==
  "Finished" \in {dl.status, dl.tstatus} =>
    tainted # {} \/ \A u \in Units : dl.file[u] \in {"right", "corrupt"}

\* A transfer restored as finished (Transfer::load) has the whole file.
RestoredFinishedIsWhole ==
  dl.tstatus = "Finished" => \A u \in Units : dl.file[u] \in {"right", "corrupt"}

\* A transfer that is stopped receives nothing.
StoppedIsIdle ==
  dl.tstatus = "Stopped" => \A id \in SegmentIds : Segment(id).job # "active"

\* Chunks, segments and the transfer's status agree, in each of these four ways.
ChunksFit == EveryChunkIsSomebodys /\ CountersFitChunks /\ FinishedIsWhole /\ StoppedIsIdle

\* The download as ChunkLife sees it.  Until the size is known all of it is one
\* stretch.
ChunkState(c) ==
  LET absent == {u \in ChunkUnits(c) : dl.file[u] \in {"none", "absent"}}
      whole  == dl.status = "Finished"
  IN  CASE ~dl.chunks -> IF whole THEN "stored" ELSE IF dl.done THEN "held" ELSE "fetching"
        [] dl.chunks /\ c \notin dl.finished -> IF c \in dl.started THEN "fetching" ELSE "missing"
        [] dl.chunks /\ c \in dl.finished ->
             IF absent = {} THEN "stored"
             ELSE IF absent \subseteq dl.tempOff .. dl.tempOff + Len(dl.temp) - 1 THEN "held"
             ELSE "lost"

Life == INSTANCE ChunkLife WITH
  Chunk <- Chunks, state <- [c \in Chunks |-> ChunkState(c)], due <- dl.done,
  complete <- dl.status = "Finished"

\* Refinement: whatever the mirrors, connections, errors and commands, the chunks
\* live as ChunkLife says; in particular the download completes only after every
\* chunk was handed over, and when what was handed over is stored.
KeepsChunks == Life!Spec

(***************************************************************************)
(* Fairness: jobs of a server that answers send what they have, timers     *)
(* run out, the jobs that write, delete and examine files answer, and the  *)
(* scheduler's timer runs.  The predicates say when such a step is         *)
(* possible and changes something; the failures and the user owe nothing.  *)
(***************************************************************************)
Jobs       == \E id \in SegmentIds :
  JobSize(id) \/ (\E n \in 1 .. 2 : JobData(id, n)) \/ (Segment(id).pos = Size /\ JobEnds(id))
JobsMove   == \E id \in SegmentIds : Segment(id).job = "active"

Timers     == \E id \in SegmentIds : RestTimer(id)
TimersRun  == \E id \in SegmentIds :
  Segment(id).timers > 0 /\ (GivesUp(Segment(id)) => faults < MaxFaults)

Answers    == PutOpen \/ PutWritten \/ FileRemoved \/ SlotStatResult \/ BrokenPiecesFound
Awaited    == \/ dl.put \in {"opening", "reopening"} \/ dl.temp # <<>>
              \/ dl.removing \/ dl.stat \/ dl.repairing

Scheduling == SchedulerStarts \/ SchedulerRestarts
Schedules  == \/ wanted /\ dl.tstatus \in {"Stopped", "Aborted"} /\ Start(dl, TRUE) # dl
              \/ dl.tstatus = "Running" /\ ~UnderWay(dl) /\ Start(Stop(dl), TRUE) # dl

Fairness ==
  /\ []<>~JobsMove  \/ []<><<Jobs>>_vars
  /\ []<>~TimersRun \/ []<><<Timers>>_vars
  /\ []<>~Awaited   \/ []<><<Answers>>_vars
  /\ []<>~Schedules \/ []<><<Scheduling>>_vars

FairSpec == Spec /\ Fairness

\* Every server names the size, and one of the known mirrors works.
KnowsGood(d) ==
  /\ \A m \in Mirrors : server[m] # "nosize"
  /\ \E m \in Used(d) \cup {d.unused[i][1] : i \in DOMAIN d.unused} : server[m] = "good"

\* A download that stays wanted, with a good mirror among those it knows, ends
\* up finished however its other mirrors fail: no chunk waits for ever for a
\* mirror, a connection, a write or a start that was put off.
WantedIsFinished ==
  <>[](wanted /\ dl.doDownload /\ KnowsGood(dl) /\ tainted \cap {"write failed", "saved whole"} = {})
    => <>(dl.tstatus = "Finished")
=============================================================================
