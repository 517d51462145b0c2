# Models and proofs of KGet

TLA+ modules that model KGet, TLC configurations that check them on small
instances, and proofs of what holds for every instance. The source is the
reference: each definition names, in `PROJECT.json` under `map`, the lines it
translates. Paths below are relative to the repository, the plug-ins' to
`transfer-plugins/`.

## The system

KGet is a download manager. One thread, the Qt event loop, runs nearly all of
it; downloads are asynchronous KIO jobs, and some parts add threads.

| Component | State | Operations | What makes it correct | Module |
|---|---|---|---|---|
| `Scheduler` | queues, a failure record per job, suspension, connection, the failure timer | `updateQueue`, `start`, `stop`, notifications, `timerEvent` | the first jobs entitled to run do run, up to the limit; stalled ones yield; nothing starts while suspended or offline | `Scheduler`, `JobFailure` |
| `Job`, `JobQueue` | status, policy, error; list and status of a queue | `setStatus`, `setPolicy`, `setError`; `append`, `insert`, `remove`, `move` | every change notifies the scheduler; a job is in one list, once | `Scheduler` |
| `TransferTreeModel`, priorities | rows beside the queues, pending changes | add, delete, move, drop, coalesced notifications | rows and queues agree; a selection moves as a whole | `GroupOrder`, `Scheduler` |
| `TransferGroup`, `TransferGroupScheduler` | limits set and in force, on three levels | calculate and share limits | a limit reaches all it is for | `SpeedLimits` |
| `KGet`, `GenericObserver` | the list in memory and on disk | load, save, add, delete, import, after-finish action | the list survives restarts and crashes | `TransferList`, `Scheduler` |
| `NewTransferDialog`, `UrlChecker`, `MostLocalUrlJob`, `FileDeleter` | requests, jobs, open questions, the dialog | check, ask, accept, rename, replace | no source is lost; what is accepted is what was shown | `Adding` |
| `TransferKio` | a copy job, a move | start, stop, results, `repair` | status and copy job agree | `Scheduler` |
| `TransferMultiSegKio`, `DataSourceFactory`, `MultiSegKioDataSource`, `Segment` | started and finished chunks, mirrors, the job that writes | assign, split, free, write, repair, save | no chunk is skipped or misplaced | `SegmentedDownload`, `ChunkLife` |
| `AbstractMetalink`, `MetalinkXml`, `MetalinkHttp` | factories, count of current files | choose files, start, verify, restart | every wanted file arrives, a few at a time | `Metalink`, `TransferFiles` |
| `BTTransfer` and its windows | a torrent control; rows of files, trackers, seeds | fetch, start, move, errors | it arrives; rows follow the torrent | `Torrent`, `TorrentDetails` |
| `MmsTransfer`, `MmsDownload`, `MmsThread` | parts and threads | split, read, retry with fewer | the threads' end is the download's | `MmsDownload`, `Scheduler` |
| `Verifier`, `VerificationThread` | checksums, three lists under a mutex | verify, broken pieces | one right answer per request | `Verification` |
| `Signature`, `SignatureThread`, `KeyDownloader` | keys being fetched, servers tried | verify, fetch, retry | each signature gets its answer | `Keys` |
| `FileModel`, `RenameFile`, `TransferSettingsDialog` | the tree of files and what is ticked | select, rename, new directory | tree and factories agree | `TransferFiles` |
| `MirrorSettings` | a copy of the mirrors | edit, close | closing does what was shown | `Mirrors` |
| checksum and mirror search | listings, who waits for them, two settings pages | register, listing, parse | every download gets what the listing holds | `Searches` |
| `TransferHistoryStore`, `TransferHistory` | rows on disk and in the dialog | save, load, delete, clear, expire | the history is kept and shown | `History` |
| `LinkImporter`, `KGetLinkView`, `DropTarget` | links, rows, filters, animations | import, tick, start, drop | the view shows the import asked for | `Links` |
| clipboard watch, `AutoPasteModel` | last content, ordered patterns | check, edit, move, apply | the first match decides | `AutoPaste` |
| `KUiServerJobs` and its adapters | jobs registered, suspensions asked for | changed, removed, settings | the tracker shows what runs | `JobTracker` |
| `MetalinkCreator` with its dialogs and thread | a document, rows, counters | pages, drops, checksums, save | what is shown is saved and read back | `MetalinkCreator`, `MetalinkDocument` |

How they interact. A user command, a timer, a D-Bus call or a signal of a KIO
job is one event. Its handler calls down into jobs and queues, and each of
them reports back *synchronously*: `Job::setStatus` calls
`Scheduler::jobChangedEvent`, that calls `updateQueue`, which calls `start()`
and `stop()` of other jobs, and those set their status again. There is no
preemption, except where a thread of KGet's own runs (verification, signatures,
checksums of the creator, the history's, link import, mms). What is hard is:

* re-entrancy: an update is dropped while another one loops (a static flag), and
  objects are half-way through a change when somebody looks at them;
* late answers: a job's answer, a thread's signal or a timer comes after what it
  is about was stopped, moved, replaced or restarted; a modal question and
  `KJob::exec()` run the event loop in the middle of a handler;
* copies: rows, lists of mirrors, files and trackers, addresses of transfers are
  held beside the originals, which change;
* counters: current files, waiting mirrors, slots, retries, running threads;
* restarts: the transfer list, the partial files and a few lists of chunks, parts
  and checksums are all that survives.

## Modules

Three styles, as the code asks for them.

`Scheduler` has one action per call: the order of calls on one stack *is* its
subject.

* `handler` is the event being handled ("none" in the event loop) and `calls` the
  calls it has still to make, innermost first. An event action (`UserStart`,
  `Network`, `Result`, ...) is enabled in the event loop only and pushes what its
  handler calls; each `Call...` action makes one call and pushes the calls that one
  makes. So a statement that follows a call in the source runs after everything the
  call set off, e.g. `slotResultEnd`, the part of `TransferKio::slotResult` after
  its `setStatus`.
* `updateQueue`'s loop is a state of its own (`updating`, `pos`, the two counters),
  one step per job. What its `start()` and `stop()` would ask for is left out,
  because the static flag drops it.
* `MmsJobs` and `FtpJobs` say which plug-in and which kind of source a job has. A KIO
  job or a download thread is one Boolean, `worker`; its signals are events that may
  come while it is there, or (stat jobs) while one is counted in `statJobs`. Sizes and
  speeds are Booleans too: what matters is whether data arrives (`speed`) and whether
  all of it has (`complete`).
* `Destroy` models the deletion of objects; a job that does not exist keeps the
  values of a new one, so that `Add` may reuse its address.
* `Init` is the state after `KGet::load`, its updates still to run, for every status of
  the groups and every saved policy.

`JobFailure` is the failure automaton of one job, as pure definitions.

`SegmentedDownload`, `Metalink`, `Torrent`, `TransferList`, `Adding`, `TransferFiles`,
`GroupOrder`, ... model memory as a record and each function as an operator that takes
the record and returns it as the function leaves it, the slots its signals reach included.
What comes from outside is an action: a job's data and end, a timer, a user's command, an
answer to a question, a crash. Where the event loop runs inside a handler (`Adding`) a
stack says what is done when the question on top is answered.

`Verification`, `Keys`, `MmsDownload`, `History`, `MetalinkCreator` and `Links` have
threads. A step of a thread is what it does while it holds a mutex, or between two
holdings; signals between threads are queues that the event loop empties.
`QThread::isRunning()` stays true from the last look at the work until the thread has
ended, which is a state of its own.

What surrounds a module is external and as free as the code leaves it: `Torrent` and
`Metalink` may be started and stopped by the scheduler whenever their policy lets it; a
server sends, stops, fails, or sends the wrong size or content; libktorrent, GpgME, key
servers and the desktop answer in any of the ways the code distinguishes. `Metalink` sees
the files it downloads as statuses with the steps that `SegmentedDownload` has inside.

Abstract specification: `ChunkLife` says what any download in chunks promises, with five
kinds of steps over the chunks' states; `KeepsChunks == Life!Spec` in `SegmentedDownload`
is the refinement, under the mapping `ChunkState`. A download is *due* once every chunk was
handed over, and only a due one completes; being fetched again does not end it, because in
the code neither a repair nor a second search for the size clears `m_finished` while a write
is under way (see the disagreements).

`MCScheduler`, `MCSegments`, `MCChecks`, `MCTransfers` and `MCDialogs` hold the instances.
The last three put several modules that share nothing side by side: `part` is chosen
at the start, and a behaviour is one of that part, while the others stay in one state, so
that the graph is the union of the parts and not their product.

Definitions commented "a mutant" change the one below them the way a bug in the code
would. They are no part of the model; they show that a property depends on the code it is
about.

## Runs

| Run | Instance | Properties |
|---|---|---|
| `commands` | 2 transfers in a group, a second group, limits "none" and 1, all commands, network, end and failure of downloads | `TypeOK`, `NoStartWithoutUpdate`, `IdleIsSettled`, `EverythingStops`, `HandlersReturn` |
| `failures` | 3 transfers in a group, limit 1, stalls, data, errors, the timer | `UpdateAllocates`, `TickRestoresLimit`, `StalledJobsYield` |
| `lists` | 2 transfers (one ftp), 2 groups, added, deleted, moved in and between groups | `JobsListedOnce`, `TransfersAreListed` |
| `plugins` | a `TransferKio` and a `MmsTransfer`, limit 1, all worker events, file moves (two at a time), repair, network | `WorkersFit` |
| `segments` | 3 chunks, 2 mirrors (one of them works, the other works, cannot resume, sends garbage, the wrong size or none), 1 or 2 connections, one fault or restart, one command | `ChunksFit`, `KeepsChunks`, `WantedIsFinished` |
| `checks` | a verifier with 3 units and up to 3 requests; 2 signatures, 2 keys, 2 servers; the creator with 2 files and 2 sessions | `VerifierFits`, `RequestsAreAnswered`, `OneDownloadPerKey`, `MissingKeysArrive`, `CreatorFits`, `DroppedAreAdded` |
| `transfers` | a metalink of 2 files, one at a time; a list of up to 3 transfers in 2 groups; a torrent; a stream read by 2 threads; 2 requests of up to 2 URLs each | `FinishedHasAllFiles`, `FilesArrive`, `ListIsSaved`, `RestoresTheList`, `TorrentArrives`, `FinishedHasEveryPart`, `DownloadEnds`, `SourcesAreHandled`, `AcceptedAsShown` |
| `dialogs` | ten parts, each with two or three of what it is about | `FilesFit`, `HistoryFits`, `PastesAsArranged`, `ImportIsShown`, `SearchesFit`, `ClosedAsShown`, `RowsMatchQueue`, `PriorityMovesSelection`, `TrackerShowsRunning`, `LimitsFollowSettings`, `DetailsFollowTorrent` |
| `running_has_worker`, `finished_is_complete`, `deleted_group_takes_moved`, `restored_finished_is_whole` | as small as the case needs | a disagreement with the code's own documentation each, below |

A property whose name ends in "Fit" or "Settled" is a conjunction of named parts that are
one question about one module; each part is stated on its own, with its comment, above it.

`UpdateAllocates` is the central one of the scheduler: it compares the state in which an
update ends with a definition of the allocation that knows no loop (`Ahead`, `HasSlot`,
`Allocated`). `AllocatedWhenIdle` says that nobody forgets to ask for an update: in
the event loop another one would change nothing. Of the downloads they are `KeepsChunks`
and `WantedIsFinished`: what was handed over stays, and whatever fails, a mirror that works
is enough.

### Bounds

Scheduler: two transfers compete for one slot, which is the smallest case in which order,
limit and policies interact; a third one makes the waiting limit (twice the running one)
bite, in `failures`. Two groups are enough for a move, and for suspended commands that
leave one group to be updated after the other. `StallTime` (5 in the code),
`ReconnectDelay` (15), `ReconnectRetries` (10) and `RetryPeriod` (10) are parameters; the
runs take 1 or 2, 2, 1 and 3 or 10. The failure count is wrapped past the retries, where the
code looks at it modulo `RetryPeriod` only, so this loses nothing. `MaxStats` bounds the stat
jobs in flight before another event than their answer is taken (1 in `lists`, 0 elsewhere:
then one may be in flight when an event comes); `MaxMoves` (2 in `plugins`) the moves of one `.part` file
that overlap.

`HandlersReturn` is a question about cycles, so it belongs to `commands`, where every call is on the stack
at some time: `setPolicy`, the starts and stops of handlers and of queues, suspension, moves between
places and groups of two transfers.

Segments: `Size`, `SegSize` and `PieceLen` are in units smaller than a chunk, 5, 2 and 2: the
last chunk is shorter, a segment has up to three chunks and can be split, and a datum ends
inside a chunk. `MaxTries` (100 in the code) is 2. `MaxFaults` counts everything the world does
wrong (errors, broken connections, failed writes, restarts), `MaxCommands` everything the
user does; one of each may come at any moment, hence in any order to each other.

Verifier: a third request is the one that starts the thread again for one that came while it ended.
`StreamLength` of `MmsDownload` is assumed to fit an int (`MaxInt`): the parts have int places, the length has
not, and the parts of a longer stream end too early for it ever to be Finished.

The others: `Max...` constants in the modules' CONSTANTS say what each bounds. Two requests,
threads, mirrors, files or signatures are the least in which one can be taken for another,
and the counts of the user's and the world's acts (1 to 6) are those at which every mutant
of the code is found and TLC is done in a minute or two. `MaxUrlPriority`, `MaxPreference`
(999999 and 100 in the code) are 5 and 3, larger than every value in the instance but one.

### Fairness

One thread means that handlers and loops run to their end, that Qt starves no timer, and
that the event loop delivers what was posted.

* `Scheduler`: weak fairness of the loop and the calls, strong fairness of the timer (other
  handlers may come in between).
* `SegmentedDownload`, `Metalink`: jobs of a server that answers go on, timers run out, the
  jobs that write and examine files answer, the scheduler's updates and its stall timeout
  come. Written as "it is again and again not possible, or it happens again and again",
  where *possible* is a predicate: `ENABLED` of steps this long is too slow for TLC.
* `Verification`, `Keys`, `MetalinkCreator`, `MmsDownload`: threads that can go on do, and
  their signals are taken.
* `TransferList`: changes are delivered and the save timer fires. `Torrent`: fetches and
  moves end, and a control that runs has all of it at last.
* None for users, failures and crashes, and none in `dialogs`. In particular the question whether a
  key shall be downloaded need not be answered: `MissingKeysArrive` asks nothing while it is open.

### Deadlock

`commands`, `lists` and `plugins` check for it. In the others the system may stop: all
transfers are finished, or the bounded user has done all that is allowed.

## Disagreements

Shown by a run of their own:

* `RunningHasWorker`: an error of the copy job restarts the transfer inside `slotResult`,
  with the job that has just failed; the transfer is then Running without a job until the
  stall timeout (`kio/transferKio.cpp:169`).
* `FinishedIsComplete`: the stat job of an ftp transfer makes it Finished even if it was
  stopped or failed (`kio/transferKio.cpp:310`).
* `TransfersAreListed` with moves and deleted groups: a transfer is destroyed with the group
  it was created in, though another one lists it (`core/transfertreemodel.cpp:412`).
* `RestoredFinishedIsWhole`: bytes fetched twice are counted twice, and a download that lacks
  a chunk is restored as finished (`core/transfer.cpp:246`).

The properties of the passing runs that meet these are stated or instantiated around them:
`IdleIsSettled` without moves between groups or of files, `TransfersAreListed` without deleted
groups, `WorkersFit` for other sources than ftp and without moves of a file that overlap. What each property
leaves of its hazard is said in the hazard's note in `PROJECT.json`.

Met while modelling, and part of the models; where a property would fail for one, it leaves the
case out and its comment says so (a set like `spoilt`, `tainted`, `astray`, `missed`, `misled`,
`stale` or `slipped` remembers that it happened). By module:

* `Scheduler`: a moved transfer's new group is updated before the job belongs to it, so it is
  not started (`core/transfertreemodel.cpp:412`). An aborted job is entitled to run at
  once: the update that its own abort triggers restarts it, and the reconnect delay is not waited
  for (`core/scheduler.cpp:320`). `stop()` of a job over the limit resets a
  `NotSolveable` error, so it is started later (300). `m_failedJobs` keeps the record of a deleted
  job under its address (394). `Scheduler::stop` leaves transfers with policy Start running (233).
  `setError` sets the status, which runs an update, before the error's type
  (`core/job.cpp:67`). `TransferKio::repair` calls `start()` while Finished, which does nothing
  (`kio/transferKio.cpp:327`). The retries are counted in ticks and timeouts, and a job over them
  is stopped by one timeout in ten (`core/scheduler.cpp:379`). `setNewDestination` accepts a second move to
  another device while one is under way; the end of the first clears `m_movingFile` and starts the
  copy job while the other still moves the file (`kio/transferKio.cpp:52`, 83; `overlapped`).
* `SegmentedDownload`: a segment keeps its buffer over stop and start
  (`multisegmentkio/segment.cpp:172`). Chunks are saved as finished while their write is pending.
  Mirrors that name no size start each other for ever. A put job that fails leaves `m_blocked`
  and `m_open` set: a later start believes that the file is open. Splitting a segment resumes its job if
  it was suspended (`multisegmentkio/segment.cpp:315`). A repair asked for twice through D-Bus ends Finished with nothing fetched
  (`dbus/dbustransferwrapper.cpp:168`). A stop while the put job opens is ignored. A factory's
  status is not restored (`core/datasourcefactory.cpp:989`). Two ways in which a download becomes
  finished while segments still run: its server names no size, and it is stopped and started
  while the last write is under way, which begins a second search for the size
  (`core/datasourcefactory.cpp:149`, 709); or a repair is asked for while what the repair before
  it fetches again is written, and clears chunks with `m_finished` set (832).
* `Verification`: a request that comes while the thread ends is not started
  (`core/verificationthread.cpp:53`, the same in `signaturethread.cpp:56`); it is answered together with the
  next request, if one comes. `findBrokenPieces`
  appends to lists that `verify` fills differently (58). `addChecksum` keeps a row's "verified"
  mark. The offset of a broken piece is an int times an int (165), wrong beyond 2 GiB.
* `Keys`: when all servers failed the key counts as still being fetched; a server that returns
  another key is asked again without end. The question whether to download a key is modal and runs the
  event loop: the key that is fetched is the one the signature names by the time of the answer
  (`core/signature.cpp:229`).
* `Metalink`: of the questions about files that exist, "cancel" at one takes back those before it, and a new
  name for a file that was begun changes nothing (`metalink/abstractmetalink.cpp:493`). They are modal; what
  comes during them is taken after them in the model. A metalink whose download fails leaves the transfer Running (`metalink/metalinkxml.cpp:81`).
  `m_metalinkJustDownloaded` is not initialised (`metalinkxml.h:58`). "Download again" of a
  dynamic one initialises it twice. A choice that takes longer than the stall timeout is overtaken
  by a start. Unticking the last unfinished file leaves it Stopped. A condition is always true
  (`abstractmetalink.cpp:548`).
* `TransferFiles`: renaming a file to the name it has aborts KGet (a null factory,
  `abstractmetalink.cpp:348`); to its sibling's, overwrites that one's factory. A directory move of a
  file in use never takes the branch meant for it (`core/datasourcefactory.cpp:786`). Reselecting asks
  whether to overwrite the transfer's own partial file. Cancelling unticks finished files.
* `Torrent`: `slotStoppedByError` stops, which may restart, and sets the error then
  (`bittorrent/bttransfer.cpp:487`). A fetch that fails is not noticed. A new directory set while
  nothing runs leaves `m_movingFile` set for ever; the directory it has already, or a second one while
  libktorrent still moves the files, clears it (169). That libktorrent refuses a second move, and starts
  nothing while it moves, is assumed. `newDestResult` sets Running whatever the policy is.
* `TorrentDetails`: after a row shifted, "remove" takes the row of a tracker that libktorrent keeps.
  Percentages do not move while the window is open (`bttransfer.h:139`). The settings dialog of a
  torrent of several files is empty (`bttransfer.cpp:733`).
* `MmsDownload`: a timer is started from another thread; `m_amountThreads` goes down to -1; a
  stop while connecting is not passed on; what a read failed to get is counted as read; a retry
  starts a transfer that the user stopped.
* `TransferList`: with an empty list nobody observes the changes (`core/kget.cpp:518`); an import creates a
  second observer. Changes of policies and groups are not saved. Groups of equal names are merged. A
  list of URLs with one valid one adds the first of the list (318). `redownloadTransfer` deletes before it
  adds.
* `Adding`: "two of them that run under one number" in `SourcesAreHandled`: URLs whose
  local URL need not be looked up are handled, and their questions asked, before
  `++m_nextJobId` (`ui/newtransferdialog.cpp:571`), so that a D-Bus call that comes in
  during the question gets the same number and the two requests share, and clear, one entry. The check of
  the input runs an event loop (299), so "OK" may see a state that is no longer shown. A folder given
  by the settings for local files is not used (554). Existing transfers are deleted before the user
  confirms the rest. A name made unique is so on disk only, not among the transfers.
* `GroupOrder`: selected rows are sorted by row, then by group, and the place of the last one is not
  reset at the next group: "if only Transfers at the top are select do not change their order"
  (`mainwindow.cpp:874`) fails over several groups, and "top" reverses. Several transfers dropped behind one of
  themselves change their order.
* `SpeedLimits`: speeds in B/s are compared with limits in KiB/s (`core/transfergroup.cpp:243`); a share that
  rounds to 0 lifts the limit; limits are not recalculated when transfers start or stop; one running
  transfer that cannot be limited disables those of its group; the brake of the share ratio
  is overwritten (`core/kget.cpp:1426`).
* `JobTracker`: suspended in the tracker and started before the tick, a transfer stays there when it
  finishes; "stop" there is ignored once; a transfer deleted in between stays with a deleted adapter.
* `AutoPaste`: "OK" and "Apply" write the patterns only if another setting was changed as well, as they
  hang on `settingsChanged` (`conf/integrationpreferences.cpp:68`); what was not written is lost when the
  dialog closes. Several dialogs may be open at once (`mainwindow.cpp:599`); the model has one. "Defaults" changes the settings at once, a "Cancel" after it loses the patterns
  (`conf/autopastemodel.cpp:341`).
* `Links`: importing a remote file finds nothing; while it is copied the event loop runs, and the copy that
  returns starts whatever importer there is by then (`ui/linkview/kget_linkview.cpp:394`); closing the view while an import runs aborts KGet;
  an import that is overtaken shows a part when it ends; hidden rows that are ticked are downloaded.
* `Searches`: a mirror search for an empty name takes each link that ends in "/"; a directory whose
  listing failed is not tried again, and those that wait for it wait for ever; while the file of an earlier
  listing is deleted the event loop runs, and a directory may get two jobs
  (`checksumsearch/checksumsearchtransferdatasource.cpp:63`); the settings pages append when loaded again.
* `Mirrors`: closing in any way writes the copy back; connections of a mirror that is not ticked are lost.
* `History`: `daysTo` is compared as another type than it has, so all is from "a long time ago"
  (`ui/history/rangetreewidget.cpp:44`); a deletion loads twice; two of `XmlStore`'s threads may
  overlap and lose rows; the XML store never expires anything; sizes of 2 GiB and more wrap.
* `MetalinkCreator`: the sign of a time zone is not stored (`ui/metalinkcreator/generalwidget.cpp`); files
  dropped in the moment the thread ends wait for the next ones (`filehandler.cpp:40`); "back" and
  "next" add the read files twice; saving truncates the file before the extension is checked.
  `MetalinkDocument`: names are decoded when read and not encoded when written; what each version
  drops is listed in `MetalinkCreator` at `Kept` and `Kept_v3`.

## Proofs

All theorems hold for every value of the constants that satisfies the modules' named
assumptions. Eight modules hold them: `SchedulerProofs` and `WorkerProofs` about `Scheduler`,
the second on top of the first; `MirrorProofs`, `ReceiveProofs` and `SegmentProofs`, each on top
of the one before it, about `SegmentedDownload`; and `TransferProofs`, `CheckProofs` and
`DialogProofs` about the models of the runs `transfers`, `checks` and `dialogs`. Each has a lemma
for each helper, one for each action or group of actions, and a theorem whose last step is
temporal.

### The scheduler

| Theorem | States | Invariant |
|---|---|---|
| `TypeCorrect` | `Spec => []TypeOK` | `IInv` |
| `StartsNeedUpdate` | `Spec => NoStartWithoutUpdate` | `IInv` |
| `AllocationCorrect` | `Spec /\ []JobsListedOnce => []UpdateAllocates` | `LoopOK` |
| `ListedOnce` | `GroupsKept => (Spec => []JobsListedOnce)` | `LInv` |
| `AllocationAlways` | `GroupsKept => (Spec => []UpdateAllocates)` | the two before |
| `WorkersAlwaysFit` | `GroupsKept => (Spec => []WorkersFit)` | `WInv` |
| `TransfersAlwaysListed` | `GroupsKept => (Spec => []TransfersAreListed)` | `RInv` |
| `CommandsStopEverything` | `GroupsKept => (Spec => EverythingStops)` | `EInv` |
| `NothingForgotten` | `Orderly => (Spec => []IdleIsSettled)` | `SInv`, `TimerOK` |

`TypeOK` is not inductive: a call on the stack could start a job, or a
"returned" handler could have calls left. `IInv` adds `HandlerOK` (the handler is
"none" exactly when the stack is empty and no update loops), `UpdateOK` (an update
loops only while updates are allowed; nothing that changes this can run while it
loops) and `StackOK`: outside the handlers of plug-in events every pending call is
*quiet*, i.e. neither a `start()` nor a change to Running. The argument for
`StartsNeedUpdate`: with updates off no update loops, by `UpdateOK`; the only other
steps that make a job Running are a `start()` or a status change taken from the
stack, and by `StackOK` these are there only in a plug-in's handler.

`AllocationCorrect` is about `updateQueue`'s loop, which counts as it goes, stops
asking once a limit is reached, and starts and stops jobs while it counts. Its
invariant is `LoopOK`: the places the loop has passed are allocated, and either the
limits are not reached and the counters are what the definition counts ahead of the
loop's position (`Ahead`), or they are reached and the position has no slot. Then no
later place has one either: a running job counts for both limits and a waiting one
for the second, so the counts never fall along the list (`NoSlotComesBack`). A step
starts or stops one job and keeps what the jobs before it are entitled to, which needs
that the job is not among them (`OthersKept`). That is the theorem's hypothesis
`JobsListedOnce`, which `ListedOnce` discharges.

`GroupsKept` says that the instance does not have both the deletion of groups and
moves between them. With both the property does not hold: a moved transfer is
destroyed with its first group while the other still lists it (the run
`deleted_group_takes_moved`), and a new one may get its address. That no list has a
job twice depends on what the handlers on the stack are about to do, as `append`
and `insert` look at nothing. `LInv` therefore says of the stack
(`CallsOK`) that either all its calls leave the lists alone (`Ordinary`), or some
calls that call only updates (`Modest`) are followed by one of seven changes
(`Pending`), each with what is known by then: a transfer about to be appended or
inserted is listed nowhere (`Unlisted`), one about to be destroyed neither. Between
the insertion of a moved transfer and `setJobQueue` it still names its old queue;
at all other times each listed job names the queue that lists it (`Home`).

`WorkersFit` is broken within handlers and repaired by their end. `WInv` says which
repair is due: `Owned` (workers, moves and promised retries belong to transfers that
exist), and of the stack that its upper part is `Plain` (it leaves no copy job without a
Running transfer) and its bottom is nothing, a `start()`, the end of `slotResult` or the
change to Moving (`Ending`), with `Steady` saying for each of these which transfer is
excused; or the handler has just begun (`Beginning`).
`MovesOK` adds that a move under way is the only one of its file and keeps `m_movingFile` set, unless
moves of the file have overlapped (`overlapped`), about which the property says nothing.

`RInv` is `Once` (no group twice), `HeldOK` (each transfer names a group that exists and
lists it, or a call on the stack will list or destroy it: `Owes`) and the shape of the
calls. `EInv` says what stopping everything still owes: in the user's command each
transfer's group is stopped or will be, its policy is not Start or a call will take it back,
and it does not run or a call, or the update under way, will stop it (`StopOK`); after a
lost connection the same of `stopJobs` (`LossOK`). It rests on `RInv`, because a transfer that
no group lists would not be reached.

`NothingForgotten` is the converse of `AllocationAlways`: that updates are right is of little
use if one is forgotten. `SInv` says that each group is `Allocated`, is being updated, has
its update on the stack, has a transfer about to be stopped (`Halts`; a stop updates), or is
stopped as a whole (`Calm`). A step must not disturb what an allocated group's slots depend on
(`Undisturbed`, `AllocationKept`), or leave an update behind. `Orderly` excludes the events
for which the code does not do this: a move to another group, the end of a file move or of an mms
check that lets a refused `start()` succeed, `slotBrokenUrl`, and data of an ftp transfer that
its stat job has finished. For each of these TLC shows a state in the event loop that is
not allocated when it is left in; the instances `commands` and `failures` satisfy `Orderly`,
and it implies `GroupsKept`. That the failure timer runs is `TimerOK`, apart from the rest.

### The segments

`ChunksAlwaysFit` (`SegmentProofs`) is `Spec => []ChunksFit`: for any size of the file, of its
chunks and of the pieces of data, any mirrors with any faults, and any commands and
restarts, (1) a chunk that is started and not finished belongs to exactly one segment, (2) each
segment's four counters end where its chunks end, (3) a finished download has the whole file
unless one of the ways in `tainted` was taken, (4) a stopped one receives nothing.

`ChunksFit` looks at the chunks, the segments and the file; whether it survives a step depends on
what is in the segments' buffers, on its way to the file, and set aside in the lists of mirrors. The
inductive invariant `IInv` is `Sound`, of any download record, and `Placed`:

* `Typed`: the segments are from a set `G`, and the mirrors' states "started" from a set `started`. These
  are parameters because functions like `assignSegments`, `removeMirror` and `slotFreeSegments` do the
  same to segments of any kind, as long as the kind is `Closed`: a new, split, merged, stopped or
  started segment is of it too. So what they do is proved once, for every `G` (`MirrorProofs`), and
  used with the strongest one, `Good`. What they leave alone is in `Variants`: they change the mirrors, the
  started chunks and three more fields of the download.
* `Good`: the counters agree (`Fitting`), a stopped transfer's segment has no job, one that looks
  for the size was told to, and `DataFits`: what a segment has in its buffer belongs where it will be
  written, and all of its chunks before that point is in the file or on its way.
* `Parted`: the mirrors' segments share no chunk with each other or with the finished ones, every
  chunk that is started and not finished is in one of them, and what they fetch counts as started.
  A repair clears the started chunks and stops the mirrors one by one: until it is through, only
  `Loose` holds, which is `Parted` without its last part.
* `Known` and `Sane`: a mirror is left, in use or set aside; a file with chunks has a size; a finished
  download has no put job; factory and transfer agree on whether they run.
* `FileFits`, as long as nothing is `tainted`: what the put job was handed is what belongs at its
  offset; each finished chunk and, when the factory is done, each unit is in the file or handed over;
  a finished status means that nothing is left to write.
* `Placed`: a job that is active reads the file from where its segment's buffer ends.

None of these can be left out. Without `DataFits` a write could put another chunk's data into the
file and (3) fail much later; without the parts of `FileFits` about what is on its way to the file the
end of a write could make the transfer finished with units missing; without `Placed` a job could bring
data for another place. `assignSegments` calls itself, and other functions go through the mirrors or the
segments in turn: in the model these are folds (`InTurn`), and one lemma, `TurnsExist`, gives the
sequence of the downloads in between, over which the proofs go by induction on the natural numbers.

### The others

| Theorem | Module | States of the model | Invariant |
|---|---|---|---|
| `FinishedIsRead` | `TransferProofs` | `MmsDownload`: `FinishedHasEveryPart` | `MmsInv` |
| `VerifierIsRight` | `CheckProofs` | `Verification`: `VerifierFits` | `VInv` |
| `KeysAreFetchedOnce` | `CheckProofs` | `Keys`: `OneDownloadPerKey` | `KInv` |
| `TrackerIsRight` | `DialogProofs` | `JobTracker`: `TrackerShowsRunning` | `TrackerInv` |
| `DetailsAreRight` | `DialogProofs` | `TorrentDetails`: `DetailsFollowTorrent` | `DetailsInv` |
| `PastesAreWanted` | `DialogProofs` | `AutoPaste`: `PastesAsArranged` | `PasteInv` |
| `NobodyWaitsInVain` | `DialogProofs` | `Searches`: `WaitersHaveAJob` | `WaitInv` |

* `FinishedIsRead`: `MmsTransfer` compares two numbers, the length of the stream and the readings
  counted. `MmsInv` says why the count cannot be too large: parts do not overlap, a
  thread is ahead of what is known of it by exactly the readings on their way, in that order,
  and as much as is counted, in memory or in the file, was tried outside of what is left.
* `VerifierIsRight`: the three lists of the thread are, in step, the requests without an
  answer (`Aligned`), the one that is hashed before them, unless a search was asked for, whose
  lists have another shape (`SearchReady`). Where a search and a request overlap (`spoilt`) the
  code mixes the lists and the model's property says nothing. Offsets are right as long as the
  file's size is less than half of an int's range, the assumption of the module; beyond that
  they wrap.
* `KeysAreFetchedOnce`: while a key is fetched somebody waits for it, so whoever asks joins
  them; the next server is the first one that was not tried.
* `TrackerIsRight`: a job in the tracker is that of a transfer that runs, of one whose change
  has not been told yet, or of one that was suspended there.
* `DetailsAreRight`: as long as no row of a tracker that libktorrent keeps was removed (`slipped`),
  rows and trackers agree place by place; the percentages lag behind the chunks, and
  never run ahead of them (`NoFileExceeds`).
* `PastesAreWanted`: an action property, from the invariant that the page's rows are in the
  order the user means and the settings in the order applied, and written, last, which needs that an arrow moves
  its row by one place whatever `moveItem` makes of it (`MovedByOne`).
* `NobodyWaitsInVain` is one half of `SearchesFit`: a listing that is waited for has a job, or a call of
  `registerSearch` that will make one when its event loop has ended, or has failed.
  The other half is computed by a fold.

### What is not proved

* Liveness (`StalledJobsYield`, `HandlersReturn`, `WantedIsFinished`, `RequestsAreAnswered`,
  `MissingKeysArrive`, `DroppedAreAdded`, `FilesArrive`, `ListIsSaved`, `TorrentArrives`,
  `DownloadEnds`): the back-ends have no rule for fairness.
* That `SegmentedDownload` implements `ChunkLife` (`KeepsChunks`): `ChunksAlwaysFit` proves what it rests
  on, but each step would have to be shown to be one of the five kinds, in every phase of
  a write, and that is model-checked.
* What folds and `SelectSeq` compute from lists of any length:
  `FinishedHasAllFiles`, `RestoresTheList`, `SourcesAreHandled`, `AcceptedAsShown`, `CreatorFits`,
  `FilesFit`, `HistoryFits`, `ImportIsShown`, `ClosedAsShown`, `RowsMatchQueue`,
  `PriorityMovesSelection`, `LimitsFollowSettings`. These are model-checked.
* `TickRestoresLimit` is model-checked too.

## Plan

In this order:

1. That the steps of `SegmentedDownload` are steps of `ChunkLife`, from the invariant of
   `ChunksAlwaysFit`.
2. `TickRestoresLimit` for any transfers, and `RestoresTheList`.
3. The composition of `Metalink` with `SegmentedDownload` in place of its files' statuses.
4. An abstract scheduler (a set of entitled jobs and the slots they get, one step per update), which
   `Scheduler` implements; `AllocationCorrect` and `NothingForgotten` are its main lemmas.

## Not modelled

* Code the build leaves out: `metalink/metalink.cpp`, `bittorrent/btdatasource.cpp`, `btcache.cpp`,
  `btchunkselector.cpp`.
* Drawing, layout, wording, notifications, tray, tool bars, translations; the tree of groups in the
  preferences; the choice of a plug-in by URL, which has no state.
* Views of libktorrent's peers and chunks, changing the current tracker, the scan of existing data.
* Parsers' texts: web pages, link patterns, XML syntax, time zones and languages. What they decide is
  modelled, how they read it is not.
* `DataSourceFactory::setNewDestination` while it downloads (in `TransferFiles` only its paths), and two
  requests under one number in `Adding`.
* Amounts, percentages and remaining times, except where a decision is taken from them.
