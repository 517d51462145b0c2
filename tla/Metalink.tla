------------------------------ MODULE Metalink ------------------------------
(***************************************************************************)
(* A transfer of several files described by a metalink: AbstractMetalink   *)
(* with its two kinds, MetalinkXml, which first fetches the metalink, and  *)
(* MetalinkHttp, which finds it in the headers of its URL                  *)
(* (src/transfer-plugins/metalink).  It has a DataSourceFactory for each   *)
(* file; SegmentedDownload models what is inside one, here it is its       *)
(* status and the steps that change it.                                    *)
(*                                                                         *)
(* All runs in one thread and signals are calls, so the operators take the *)
(* memory of the transfer, a record `m`, and return it as the function of  *)
(* the same name leaves it, its slots included.                            *)
(***************************************************************************)
EXTENDS Integers, SequencesExt, FiniteSetsExt, TLC

CONSTANTS
  FileOrder,          \* the files, in the order of the hash of factories
  SimultaneousFiles,  \* the setting
  Metalinks,          \* [kind, doc, local: the source is a local file]
  Existing,           \* the files that are on the disk at first, sets of them
  MaxTroubles,        \* bound: failures, restarts
  MaxOrders           \* bound: commands of the user

Files == Range(FileOrder)
Docs  == {"valid", "dynamic", "invalid", "no urls"}

ASSUME MetalinkAssumption ==
  /\ SimultaneousFiles \in Nat \ {0} /\ {MaxTroubles, MaxOrders} \subseteq Nat
  /\ Metalinks \subseteq [kind : {"xml", "http"}, doc : Docs, local : BOOLEAN]
  /\ Existing \subseteq SUBSET Files

VARIABLES
  metalink,  \* the memory of the transfer and the files on the disk
  allowed,   \* the policy of the transfer lets it run
  troubles,  \* failures so far
  orders,    \* commands so far
  spoilt     \* history: what has led the transfer astray, see the properties

metalinkVars == <<metalink, allowed, troubles, orders, spoilt>>

\* MetalinkHttp has one file only.
FilesOf(kind) == IF kind = "xml" THEN FileOrder ELSE <<Head(FileOrder)>>
InOrder(m)    == FilesOf(m.kind)

\* A DataSourceFactory as it is created; mirrors: it has any.
Factory(mirrors) ==
  [status |-> "Stopped", doDownload |-> TRUE, startTried |-> FALSE, put |-> "none",
   removing |-> FALSE, initialized |-> FALSE, mirrors |-> mirrors, whole |-> FALSE,
   check |-> "no", repairing |-> FALSE]

\* `gen` holds the factories of each time the metalink was read: m_dataSourceFactory
\* is the last one, the ones before are not deleted and still report.
Factories(m) == Last(m.gen)
Wanted(m)    == IF m.gen = <<>> THEN {} ELSE {f \in DOMAIN Factories(m) : Factories(m)[f].doDownload}
Put(m, g, f, factory) == [m EXCEPT !.gen[g][f] = factory]

\* Job::setStatus; a job that stops running makes the scheduler look.
SetMetalinkStatus(m, s) == [m EXCEPT !.status = s, !.due = @ \/ (s # m.status /\ s # "Running")]

----------------------------------------------------------------------------
(* Files start and stop, and the transfer follows                          *)

RunningFiles(m) == {f \in Wanted(m) : Factories(m)[f].status = "Running"}
AllFinished(m)  == \A f \in Wanted(m) : Factories(m)[f].status = "Finished"

\* A file stopped or failed: the transfer goes on while another one runs.
Recount(m, s) ==
  LET c == [m EXCEPT !.current = Cardinality(RunningFiles(m))]
  IN  IF c.current = 0 THEN SetMetalinkStatus(c, s) ELSE c

\* updateStatus for the statuses that start no other file.
UpdateStatus(m, s) == IF s \in {"Stopped", "Aborted"} THEN Recount(m, s) ELSE SetMetalinkStatus(m, s)

Report(m, g, f, factory) == UpdateStatus(Put(m, g, f, factory), factory.status)

\* DataSourceFactory::start.  A file that was never begun replaces what is there.
StartFile(m, g, f) ==
  LET d == m.gen[g][f]
      begun == [d EXCEPT !.initialized = TRUE, !.startTried = TRUE]
  IN  CASE d.status = "Finished" -> m
        [] d.status # "Finished" /\ ~d.doDownload -> Put(m, g, f, [d EXCEPT !.startTried = TRUE])
        [] d.status # "Finished" /\ d.doDownload /\ ~d.initialized /\ f \in m.disk ->
             Put(m, g, f, [d EXCEPT !.startTried = TRUE, !.removing = TRUE])
        [] OTHER ->
             CASE ~m.device -> Report(m, g, f, [begun EXCEPT !.status = "Aborted"])
               [] m.device /\ d.put = "none" ->
                    [Put(m, g, f, [begun EXCEPT !.put = "opening"]) EXCEPT !.disk = @ \cup {f}]
               [] m.device /\ (d.put = "opening" \/ (d.put = "open" /\ ~d.mirrors)) -> Put(m, g, f, begun)
               [] m.device /\ d.put = "open" /\ d.mirrors ->
                    Report(m, g, f, [begun EXCEPT !.startTried = FALSE, !.status = "Running"])

\* DataSourceFactory::stop.
StopFile(m, g, f) ==
  LET d == m.gen[g][f]
  IN  IF d.status = "Finished" THEN m
      ELSE Report(m, g, f, [d EXCEPT !.startTried = FALSE, !.status = "Stopped"])

\* DataSourceFactory::setDoDownload.
SetDoDownload(m, g, f, do) ==
  LET d == m.gen[g][f]
      n == Put(m, g, f, [d EXCEPT !.doDownload = do])
  IN  CASE d.doDownload = do -> m
        [] d.doDownload # do /\ do -> IF d.startTried THEN StartFile(n, g, f) ELSE n
        [] d.doDownload # do /\ ~do -> IF d.status = "Running" THEN StopFile(n, g, f) ELSE n

Startable(m, f) ==
  Factories(m)[f].doDownload /\ Factories(m)[f].status \notin {"Finished", "Running"}

\* A mutant: a file that was tried before is passed over.
StartNextUntried(m, f) ==
  IF m.current < SimultaneousFiles /\ Startable(m, f) /\ ~Factories(m)[f].startTried
  THEN StartFile([m EXCEPT !.current = @ + 1], Len(m.gen), f)
  ELSE m

\* The limit is asked of m_currentFiles, which also counts files not running yet.
StartNext(m, f) ==
  IF m.current < SimultaneousFiles /\ Startable(m, f)
  THEN StartFile([m EXCEPT !.current = @ + 1], Len(m.gen), f)
  ELSE m

StartMetalink(m) == IF m.ready THEN FoldLeft(StartNext, m, InOrder(m)) ELSE m

\* updateStatus for a file that finished: its place goes to the next one.
NextFile(m) == StartMetalink([m EXCEPT !.current = @ - 1])

FileFinished(m) ==
  LET n == IF m.current > 0 THEN NextFile(m) ELSE m
  IN  IF AllFinished(n) THEN SetMetalinkStatus(n, "Finished") ELSE n

\* AbstractMetalink::stop.  Before the metalink is read it does nothing.
StopMetalink(m) ==
  IF m.ready
  THEN FoldLeft(LAMBDA n, f : StopFile(n, Len(n.gen), f), [m EXCEPT !.current = 0], InOrder(m))
  ELSE m

----------------------------------------------------------------------------
(* Fetching and reading the metalink                                       *)

DownloadMetalink(m) == SetMetalinkStatus([m EXCEPT !.just = TRUE, !.fetching = @ + 1], "Running")

\* metalinkInit once the metalink is valid: a factory for each file, and a dialog
\* to choose among them.  MetalinkHttp asks nothing.
ReadMetalink(m) ==
  [m EXCEPT !.ready = TRUE, !.gen = Append(@, [f \in Range(InOrder(m)) |-> Factory(TRUE)]),
            !.dialogs = IF m.kind = "xml" /\ m.just THEN @ + 1 ELSE @]

\* `again`: the user wants the newest version of a dynamic metalink.
AsksForNewer(m, again) == again /\ m.doc = "dynamic" /\ (m.local \/ ~m.just)

MetalinkInit(m, again) ==
  CASE m.doc \in {"invalid", "no urls"} -> SetMetalinkStatus(m, "Aborted")
    [] AsksForNewer(m, again) ->
         DownloadMetalink([m EXCEPT !.located = FALSE, !.local = FALSE, !.doc = "valid"])
    [] OTHER -> ReadMetalink(m)

InitWorks(m, again) == m.doc \notin {"invalid", "no urls"} /\ ~AsksForNewer(m, again)

\* MetalinkXml::start: when reading did not work, for whatever reason, the metalink
\* is fetched.
StartXml(m, again) ==
  CASE m.ready -> StartMetalink(m)
    [] ~m.ready /\ ~m.located -> DownloadMetalink(m)
    [] ~m.ready /\ m.located ->
         IF InitWorks(m, again) THEN StartMetalink(MetalinkInit(m, again))
         ELSE DownloadMetalink(MetalinkInit(m, again))

\* MetalinkHttp::start.  The factory that load() made hides that no URL works.
StartHttp(m) ==
  CASE m.ready -> StartMetalink(m)
    [] ~m.ready /\ m.doc = "no urls" -> StartMetalink([m EXCEPT !.ready = TRUE])
    [] OTHER -> StartMetalink(ReadMetalink(m))

MetalinkStart(m, again) == IF m.kind = "xml" THEN StartXml(m, again) ELSE StartHttp(m)

----------------------------------------------------------------------------
(* The user chooses files                                                  *)

\* A file that is there is asked about unless it is running or finished.
Conflicts(m, ticks, f) ==
  f \in ticks /\ f \in m.disk /\ Factories(m)[f].status \notin {"Running", "Finished"}

\* What the user may answer about one; AutoSkip and OverwriteAll say "skip" and
\* "overwrite" of the rest too.
ConflictReplies == {"overwrite", "skip", "rename", "cancel"}
Replies(m, ticks) ==
  IF m.gen = <<>> THEN {}
  ELSE [{f \in DOMAIN Factories(m) : Conflicts(m, ticks, f)} -> ConflictReplies]
Replied(replies, f, reply) == f \in DOMAIN replies /\ replies[f] = reply

\* setNewDestination: a file that was not begun goes where nothing is yet.  Of one
\* that was begun the old place is asked for by its URL, which no file has as its
\* name, so that it stays.
RenameFile(m, f) ==
  IF Factories(m)[f].initialized THEN m ELSE [m EXCEPT !.disk = @ \ {f}]

SelectFile(m, ticks, replies, f) ==
  IF Factories(m)[f].status = "Finished" THEN m
  ELSE LET n == SetDoDownload(m, Len(m.gen), f, f \in ticks /\ ~Replied(replies, f, "skip"))
       IN  IF Replied(replies, f, "rename") THEN RenameFile(n, f) ELSE n

\* Cancelling the question about one file gives up all of them, also those chosen
\* before it.
CancelAll(m) == FoldLeft(LAMBDA n, f : SetDoDownload(n, Len(n.gen), f, FALSE), m, InOrder(m))

Select(m, ticks, replies) ==
  LET cancels == {i \in DOMAIN InOrder(m) : Replied(replies, InOrder(m)[i], "cancel")}
      asked   == IF cancels = {} THEN InOrder(m) ELSE SubSeq(InOrder(m), 1, Min(cancels) - 1)
      n       == FoldLeft(LAMBDA x, f : SelectFile(x, ticks, replies, f), m, asked)
  IN  IF cancels = {} THEN n ELSE CancelAll(n)

NumSelected(m) == Cardinality({f \in Wanted(m) : Factories(m)[f].status # "Finished"})

\* A mutant: a finished transfer is not told of new files.
SelectedQuietly(m) == IF NumSelected(m) > 0 /\ m.status # "Finished" THEN Recount(m, "Stopped") ELSE m

\* The tail of filesSelected: the change has no sender, which counts as a file
\* that stopped.
Selected(m) == IF NumSelected(m) > 0 THEN Recount(m, "Stopped") ELSE m

FilesChosen(m, ticks, replies) == Selected(Select(m, ticks, replies))

DialogResult(m, accepted) ==
  IF accepted /\ NumSelected(m) > 0 THEN StartMetalink(m) ELSE SetMetalinkStatus(m, "Stopped")

\* Without an OK no file is ticked.
FileDlgFinished(m, accepted, ticks, replies) ==
  DialogResult(FilesChosen([m EXCEPT !.dialogs = @ - 1], ticks, replies), accepted)

----------------------------------------------------------------------------
(* Saving and restarting                                                   *)

\* DataSourceFactory::load restores no status.
LoadFile(d) ==
  [d EXCEPT !.status = "Stopped", !.startTried = FALSE, !.put = "none", !.removing = FALSE,
            !.check = IF @ = "running" THEN "no" ELSE @, !.repairing = FALSE]

\* Transfer::load compares the sizes of the wanted files.
LoadedStatus(m) ==
  IF Wanted(m) # {} /\ \A f \in Wanted(m) : Factories(m)[f].whole THEN "Finished" ELSE "Stopped"

\* m_metalinkJustDownloaded is not initialized: `just` is what happens to be there.
LoadMetalink(m, just) ==
  [m EXCEPT !.status = LoadedStatus(m), !.just = just, !.fetching = 0, !.dialogs = 0, !.current = 0,
            !.due = TRUE,
            !.ready = m.gen # <<>> /\ \A f \in DOMAIN Factories(m) : Factories(m)[f].mirrors,
            !.gen = IF m.gen = <<>> THEN <<>>
                    ELSE <<[f \in DOMAIN Factories(m) |-> LoadFile(Factories(m)[f])]>>]

----------------------------------------------------------------------------
(* Actions                                                                 *)

Created(s, there) ==
  [kind |-> s.kind, doc |-> s.doc, local |-> s.local, status |-> "Stopped", ready |-> FALSE,
   located |-> FALSE, just |-> FALSE, fetching |-> 0, dialogs |-> 0, current |-> 0, due |-> TRUE,
   gen |-> IF s.kind = "http" THEN <<[f \in Range(FilesOf(s.kind)) |-> Factory(FALSE)]>> ELSE <<>>,
   disk |-> there, device |-> TRUE]

Becomes(m) == metalink' = m
Quiet      == UNCHANGED <<allowed, troubles, orders, spoilt>>
Order      == orders < MaxOrders /\ orders' = orders + 1 /\ UNCHANGED troubles
Trouble    == troubles < MaxTroubles /\ troubles' = troubles + 1 /\ UNCHANGED <<allowed, orders>>

\* An update of the queue.  It may come at any time, as other transfers come and go.
SchedulerUpdates(again) ==
  /\ allowed /\ metalink.status \in {"Stopped", "Aborted"}
  /\ Becomes(MetalinkStart([metalink EXCEPT !.due = FALSE], again))
  /\ Quiet

\* A transfer that receives nothing is stopped after a while, and one that failed too.
Receiving(m) ==
  \E g \in DOMAIN m.gen : \E f \in DOMAIN m.gen[g] :
    LET d == m.gen[g][f]
    IN  d.put = "opening" \/ d.removing \/ (d.status = "Running" /\ ~d.whole)

Fails(m) == m.status = "Aborted" \/ (m.status = "Running" /\ ~Receiving(m))

FailureTimeout ==
  /\ Fails(metalink)
  /\ Becomes(StopMetalink(metalink))
  /\ Quiet

\* TransferHandler::start makes the scheduler look, also for a transfer allowed before.
UserStarts ==
  /\ ~(allowed /\ metalink.due) /\ allowed' = TRUE
  /\ Becomes([metalink EXCEPT !.due = TRUE])
  /\ spoilt' = spoilt \ {"unnoticed"}
  /\ Order

\* The scheduler stops what runs; a transfer whose files are still being opened
\* is not running yet.
UserStops ==
  /\ allowed /\ allowed' = FALSE
  /\ Becomes(IF metalink.status = "Running" THEN StopMetalink(metalink) ELSE metalink)
  /\ Order /\ UNCHANGED spoilt

UserTicks(ticks, replies) ==
  /\ metalink.gen # <<>> /\ metalink.ready
  /\ Becomes(FilesChosen(metalink, ticks, replies))
  /\ spoilt' = spoilt \cup (IF metalink.status \in {"Stopped", "Aborted"} THEN {"unnoticed"} ELSE {})
  /\ Order /\ UNCHANGED allowed

DialogAnswered(accepted, ticks, replies) ==
  /\ metalink.dialogs > 0 /\ (accepted \/ ticks = {})
  /\ Becomes(FileDlgFinished(metalink, accepted, ticks, replies))
  /\ Quiet

MetalinkFetched(again) ==
  /\ metalink.fetching > 0
  /\ Becomes(MetalinkInit([metalink EXCEPT !.fetching = @ - 1, !.located = TRUE], again))
  /\ Quiet

\* Nobody is connected to Download's finishedWithError.
FetchFails ==
  /\ metalink.fetching > 0
  /\ Becomes([metalink EXCEPT !.fetching = @ - 1])
  /\ spoilt' = spoilt \cup {"not fetched"}
  /\ Trouble

\* DataSourceFactory::slotOpen, slotRemovedFile and the write of the last data,
\* and the answers of its verifier.
PutOpen(g, f) ==
  LET d == metalink.gen[g][f]
      m == Put(metalink, g, f, [d EXCEPT !.put = "open"])
  IN  /\ d.put = "opening"
      /\ Becomes(IF d.startTried THEN StartFile(m, g, f) ELSE m)
      /\ Quiet

SlotRemovedFile(g, f) ==
  LET d == metalink.gen[g][f]
      m == [Put(metalink, g, f, [d EXCEPT !.removing = FALSE, !.startTried = FALSE]) EXCEPT !.disk = @ \ {f}]
  IN  /\ d.removing
      /\ Becomes(IF d.startTried THEN StartFile(m, g, f) ELSE m)
      /\ Quiet

FileComplete(g, f) ==
  LET d == metalink.gen[g][f]
  IN  /\ d.status = "Running" /\ d.put = "open" /\ ~d.whole
      /\ Becomes(FileFinished(Put(metalink, g, f, [d EXCEPT !.status = "Finished", !.put = "none",
                                                             !.whole = TRUE, !.check = "running"])))
      /\ Quiet

\* repair: the files that are wanted and not verified, by the user's choice.
Repaired(m) ==
  [m EXCEPT !.gen[Len(m.gen)] =
     [f \in DOMAIN @ |-> IF @[f].doDownload /\ @[f].check = "broken" THEN [@[f] EXCEPT !.repairing = TRUE]
                      ELSE @[f]]]

Verified(g, f) ==
  LET d == metalink.gen[g][f]
  IN  /\ d.check = "running"
      /\ Becomes(Put(metalink, g, f, [d EXCEPT !.check = "ok"]))
      /\ Quiet

\* slotVerified asks whether to repair once the whole transfer is finished.
NotVerified(g, f, repair) ==
  LET d == metalink.gen[g][f]
      m == Put(metalink, g, f, [d EXCEPT !.check = "broken"])
  IN  /\ d.check = "running"
      /\ Becomes(IF repair /\ m.status = "Finished" THEN Repaired(m) ELSE m)
      /\ Trouble /\ UNCHANGED spoilt

UserRepairs ==
  /\ metalink.gen # <<>> /\ Repaired(metalink) # metalink
  /\ Becomes(Repaired(metalink))
  /\ Order /\ UNCHANGED <<allowed, spoilt>>

\* DataSourceFactory::slotRepair starts the file whatever the limit is.
SlotRepair(g, f) ==
  LET d == metalink.gen[g][f]
  IN  /\ d.repairing
      /\ Becomes(StartFile(Put(metalink, g, f, [d EXCEPT !.repairing = FALSE, !.status = "Stopped",
                                                         !.whole = FALSE]), g, f))
      /\ Quiet

DeviceLost ==
  /\ metalink.device
  /\ Becomes([metalink EXCEPT !.device = FALSE])
  /\ Trouble /\ UNCHANGED spoilt

DeviceBack ==
  /\ ~metalink.device
  /\ Becomes([metalink EXCEPT !.device = TRUE])
  /\ Quiet

MetalinkRestart(just) ==
  /\ Becomes(LoadMetalink(metalink, just))
  /\ spoilt' = spoilt \cup
       (IF metalink.gen # <<>> /\ \E f \in DOMAIN Factories(metalink) : Factories(metalink)[f].whole
        THEN {"finished before"} ELSE {})
  /\ Trouble

----------------------------------------------------------------------------
MetalinkInitially ==
  /\ \E s \in Metalinks, there \in Existing : metalink = Created(s, there)
  /\ allowed = TRUE /\ troubles = 0 /\ orders = 0 /\ spoilt = {}

FileEvents == \E g \in DOMAIN metalink.gen : \E f \in DOMAIN metalink.gen[g] :
  \/ PutOpen(g, f) \/ SlotRemovedFile(g, f) \/ FileComplete(g, f)
  \/ Verified(g, f) \/ (\E r \in BOOLEAN : NotVerified(g, f, r)) \/ SlotRepair(g, f)

UserActs ==
  \/ UserStarts \/ UserStops \/ UserRepairs
  \/ \E ticks \in SUBSET Files : \E replies \in Replies(metalink, ticks) :
       UserTicks(ticks, replies) \/ (\E a \in BOOLEAN : DialogAnswered(a, ticks, replies))

MetalinkNext ==
  \/ FileEvents \/ UserActs \/ FailureTimeout
  \/ (\E again \in BOOLEAN : SchedulerUpdates(again) \/ MetalinkFetched(again))
  \/ FetchFails \/ DeviceLost \/ DeviceBack
  \/ (\E just \in BOOLEAN : MetalinkRestart(just))

----------------------------------------------------------------------------
\* A metalink that calls itself finished has every file the user wants, also when
\* the selection changes, files fail, or KGet restarts.  A file that is repaired
\* is opened again before it reports that it runs.
FinishedHasAllFiles ==
  metalink.status = "Finished" =>
    \A f \in Wanted(metalink) :
      LET d == Factories(metalink)[f] IN d.whole \/ (d.put = "opening" /\ d.startTried)

(***************************************************************************)
(* Fairness: jobs and the verification thread answer, servers send, the    *)
(* scheduler looks when it was told to and finds what receives nothing.    *)
(* The predicates say when such a step is possible.                        *)
(***************************************************************************)
SomeFile(P(_)) == \E g \in DOMAIN metalink.gen : \E f \in DOMAIN metalink.gen[g] : P(metalink.gen[g][f])
Answering      == SomeFile(LAMBDA d : d.put = "opening" \/ d.removing \/ d.check = "running" \/ d.repairing
                                      \/ (d.status = "Running" /\ d.put = "open" /\ ~d.whole))
Scheduled      == metalink.due /\ allowed /\ metalink.status \in {"Stopped", "Aborted"}
TimedOut       == Fails(metalink) /\ StopMetalink(metalink) # metalink

MetalinkFairness ==
  /\ []<>~Answering \/ []<><<FileEvents>>_metalinkVars
  /\ []<>(metalink.fetching = 0) \/ []<><<\E again \in BOOLEAN : MetalinkFetched(again)>>_metalinkVars
  /\ []<>~Scheduled \/ []<><<\E again \in BOOLEAN : SchedulerUpdates(again)>>_metalinkVars
  /\ []<>~TimedOut \/ []<><<FailureTimeout>>_metalinkVars

\* A file that stays wanted in a transfer that may run is downloaded, whatever
\* happened to the count of current files: the stall timeout makes up for it.  Not
\* if the metalink could not be fetched, or a file had been finished before a
\* restart: that one is then started again, has nothing to receive and keeps its place.
FilesArrive ==
  \A f \in Files :
    <>[](/\ allowed /\ metalink.device /\ metalink.dialogs = 0 /\ metalink.fetching = 0
         /\ metalink.ready /\ f \in Wanted(metalink) /\ Factories(metalink)[f].mirrors
         /\ spoilt \cap {"not fetched", "finished before", "unnoticed"} = {})
      => <>(metalink.ready /\ f \in Wanted(metalink) /\ Factories(metalink)[f].status = "Finished")
=============================================================================
