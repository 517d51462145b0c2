------------------------------ MODULE Torrent ------------------------------
(***************************************************************************)
(* A transfer of a torrent: BTTransfer                                     *)
(* (src/transfer-plugins/bittorrent/bttransfer.cpp), which fetches the     *)
(* .torrent file and has a TorrentControl of libktorrent download and seed *)
(* what it describes.                                                      *)
(*                                                                         *)
(* A change of the status makes the scheduler look at the queue within the *)
(* call, which may start or stop the transfer on the spot.  Operators take *)
(* the memory of the transfer, a record `t`; the ones that end in "Now"    *)
(* are what the scheduler itself calls, and it does not look again then.   *)
(***************************************************************************)
EXTENDS Integers, FiniteSets

CONSTANTS
  Torrents,       \* [local: the source is a file here, doc: what the .torrent is]
  MaxFetches,     \* bound: fetches of the .torrent at a time
  MaxMishaps,     \* bound: errors, restarts
  MaxCommands     \* bound: commands of the user

ASSUME TorrentAssumption ==
  /\ Torrents \subseteq [local : BOOLEAN, doc : {"good", "bad", "missing"}]
  /\ {MaxFetches, MaxMishaps, MaxCommands} \subseteq Nat

VARIABLES
  torrent,   \* the memory of the transfer and of its TorrentControl
  mishaps,   \* errors so far
  commands,  \* commands so far
  astray     \* history: what has led the transfer astray, see the properties

torrentVars == <<torrent, mishaps, commands, astray>>

\* control: the TorrentControl, and whether it runs; older: one that is no
\* longer `torrent`, but not deleted; place: what the scheduler makes of the job;
\* moving: m_movingFile; shift: libktorrent moves the files, and whether it starts
\* the torrent then.
NewTorrent(local, doc, place, complete) ==
  [status |-> "Stopped", error |-> "AutomaticRetry", local |-> local, doc |-> doc,
   control |-> "none", older |-> FALSE, timer |-> FALSE, complete |-> complete, finished |-> FALSE,
   fetching |-> 0, moving |-> FALSE, shift |-> "no", dialog |-> FALSE, place |-> place,
   changed |-> FALSE]

----------------------------------------------------------------------------
(* The calls of the scheduler                                              *)

\* Job::setStatus: leaving Aborted clears the error.
SetTorrentStatus(t, s) ==
  [t EXCEPT !.status = s,
            !.error = IF t.status = "Aborted" /\ s # "Aborted" THEN "AutomaticRetry" ELSE @,
            !.changed = @ \/ (s # t.status /\ s # "Running")]

\* startTorrent, with slotDownloadFinished if nothing is left to download.  libktorrent
\* starts nothing whose files it moves.
StartTorrent(t) ==
  LET s == [t EXCEPT !.control = IF t.shift # "no" /\ @ = "idle" THEN @ ELSE "running",
                     !.timer = TRUE, !.finished = @ \/ t.complete]
  IN  SetTorrentStatus(s, IF t.complete THEN "FinishedKeepAlive" ELSE "Running")

\* Nobody deletes the control that was there.
Replaced(t) == [t EXCEPT !.older = @ \/ t.control # "none", !.control = "none"]

\* The second half of btTransferInit: a TorrentControl is made and started.
CreateTorrent(t) ==
  IF t.doc = "bad"
  THEN [SetTorrentStatus(Replaced(t), "Aborted") EXCEPT !.error = "NotSolveable"]
  ELSE StartTorrent(Replaced(t))

\* btTransferInit and setError as the scheduler gets to see them.
NotFound(t) == [SetTorrentStatus(t, "Aborted") EXCEPT !.error = "NotSolveable", !.dialog = TRUE]
InitNow(t) == IF t.doc = "missing" THEN NotFound(t) ELSE CreateTorrent(SetTorrentStatus(t, "Stopped"))

\* start.
StartNow(t) ==
  CASE t.moving -> t
    [] ~t.moving /\ t.control # "none" -> StartTorrent(t)
    [] ~t.moving /\ t.control = "none" /\ t.local -> InitNow(t)
    [] ~t.moving /\ t.control = "none" /\ ~t.local ->
         SetTorrentStatus([t EXCEPT !.fetching = IF @ < MaxFetches THEN @ + 1 ELSE @], "Stopped")

\* stop and stopTorrent; m_ready is FALSE before there is a control.
StopNow(t) ==
  IF t.moving \/ t.control = "none" THEN t
  ELSE SetTorrentStatus([t EXCEPT !.control = "idle", !.timer = FALSE], "Stopped")

\* The part of Scheduler::updateQueue that is about this job.
ShouldBeRunning(t) ==
  t.place = "may run" /\ (t.status = "Aborted" => t.error = "AutomaticRetry")

Updated(t) ==
  LET active == t.status \in {"Running", "FinishedKeepAlive"}
      n == CASE t.place = "over limit" \/ (active /\ ~ShouldBeRunning(t)) -> StopNow(t)
             [] t.place # "over limit" /\ ~active /\ ShouldBeRunning(t) -> StartNow(t)
             [] OTHER -> t
  IN  [n EXCEPT !.changed = FALSE]

\* The scheduler looks where the status has changed.
Seen(t) == IF t.changed THEN Updated(t) ELSE t

----------------------------------------------------------------------------
(* The same, called by others                                              *)

\* Job::setError: the status is seen before the type of the error is set.
SetError(t, type) == [Seen(SetTorrentStatus(t, "Aborted")) EXCEPT !.error = type]

\* btTransferInit; "Analyzing torrent...." may start the transfer already.
BtTransferInit(t) ==
  LET s == Seen(SetTorrentStatus(t, "Stopped"))
  IN  CASE t.doc = "missing" -> [SetError(t, "NotSolveable") EXCEPT !.dialog = TRUE]
        [] t.doc = "bad"  -> SetError(Replaced(s), "NotSolveable")
        [] t.doc = "good" -> Seen(CreateTorrent(s))

Does(n) == torrent' = n /\ UNCHANGED astray

----------------------------------------------------------------------------
(* Actions                                                                 *)

\* An update of the queue for another job's sake.
QueueUpdated ==
  /\ torrent' = Updated(torrent) /\ torrent' # torrent /\ UNCHANGED astray
  /\ UNCHANGED <<mishaps, commands>>

\* The .torrent file is here; BTTransfer::btTransferInit is called with it.
TorrentFetched ==
  /\ torrent.fetching > 0
  /\ Does(BtTransferInit([torrent EXCEPT !.fetching = @ - 1, !.local = TRUE]))
  /\ UNCHANGED <<mishaps, commands>>

\* finishedWithError is not connected.
TorrentNotFetched ==
  /\ torrent.fetching > 0 /\ mishaps < MaxMishaps /\ mishaps' = mishaps + 1
  /\ torrent' = [torrent EXCEPT !.fetching = @ - 1]
  /\ astray' = astray \cup {"not fetched"}
  /\ UNCHANGED commands

\* The control has everything: slotDownloadFinished.
DownloadFinished ==
  /\ torrent.control = "running" /\ ~torrent.complete /\ ~torrent.moving
  /\ Does(Seen(SetTorrentStatus([torrent EXCEPT !.complete = TRUE, !.finished = TRUE], "FinishedKeepAlive")))
  /\ UNCHANGED <<mishaps, commands>>

\* slotStoppedByError: stop() and setError() both let the scheduler look.
StoppedByError ==
  /\ torrent.control = "running" /\ ~torrent.moving /\ mishaps < MaxMishaps /\ mishaps' = mishaps + 1
  /\ LET n == SetError(Seen(StopNow([torrent EXCEPT !.control = "idle"])), "NotSolveable")
     IN  /\ torrent' = n
         /\ astray' = astray \cup (IF n.control = "running" THEN {"error"} ELSE {})
  /\ UNCHANGED commands

\* The stall timeout of the scheduler.
StallTimeout ==
  /\ torrent.status = "Running" /\ mishaps < MaxMishaps /\ mishaps' = mishaps + 1
  /\ Does(Seen(StopNow(torrent)))
  /\ UNCHANGED commands

\* libktorrent has moved the files and starts the torrent again if it ran; only a
\* start emits aboutToBeStarted, which newDestResult waits for.
Shifted(t) == [t EXCEPT !.shift = "no", !.control = IF t.shift = "resume" THEN "running" ELSE @]

\* A mutant: the end of the move is not heard of.
FilesMovedUnheard ==
  /\ torrent.shift # "no"
  /\ Does(Shifted(torrent))
  /\ UNCHANGED <<mishaps, commands>>

FilesMoved ==
  /\ torrent.shift # "no"
  /\ Does(IF torrent.shift = "resume"
          THEN SetTorrentStatus([Shifted(torrent) EXCEPT !.moving = FALSE], "Running")
          ELSE Shifted(torrent))
  /\ UNCHANGED <<mishaps, commands>>

TorrentRestart ==
  /\ mishaps < MaxMishaps /\ mishaps' = mishaps + 1
  /\ torrent' = Updated(NewTorrent(torrent.local, torrent.doc, torrent.place, torrent.complete))
  /\ astray' = {}
  /\ UNCHANGED commands

\* The commands of the user.
SetPlace ==
  \E place \in {"may run", "stopped", "over limit"} \ {torrent.place} :
    Does(Updated([torrent EXCEPT !.place = place]))

\* setDirectory of a transfer whose torrent is there.  The destination that it has
\* already (`other` is FALSE), or libktorrent not done with the move before, clears
\* m_movingFile.
SetDirectory ==
  /\ torrent.control # "none"
  /\ \E other \in BOOLEAN :
       LET ran == torrent.control = "running"
           s   == [torrent EXCEPT !.moving = TRUE, !.shift = IF ran THEN "resume" ELSE "stay",
                                  !.control = "idle"]
       IN  IF other /\ torrent.shift = "no"
           THEN /\ torrent' = Seen(SetTorrentStatus(s, "Stopped"))
                /\ astray' = astray \cup (IF ran THEN {} ELSE {"moved"})
           ELSE Does([torrent EXCEPT !.moving = FALSE])

\* resolveError: the user chooses another .torrent file, whatever the policy is.
ResolveError ==
  /\ torrent.dialog
  /\ \E doc \in {"good", "bad"} :
       Does(BtTransferInit([torrent EXCEPT !.dialog = FALSE, !.doc = doc, !.local = TRUE]))

\* filesSelected of a single file starts or stops behind the scheduler's back.
TorrentFilesSelected ==
  /\ torrent.control # "none" /\ ~torrent.complete
  /\ \E do \in BOOLEAN : Does(Seen(IF do THEN StartNow(torrent) ELSE StopNow(torrent)))

UserCommands ==
  /\ commands < MaxCommands /\ commands' = commands + 1
  /\ SetPlace \/ SetDirectory \/ ResolveError \/ TorrentFilesSelected
  /\ UNCHANGED mishaps

TorrentInit ==
  /\ \E s \in Torrents : torrent = Updated(NewTorrent(s.local, s.doc, "may run", FALSE))
  /\ mishaps = 0 /\ commands = 0 /\ astray = {}

TorrentNext ==
  \/ QueueUpdated \/ TorrentFetched \/ TorrentNotFetched \/ DownloadFinished \/ StoppedByError
  \/ StallTimeout \/ FilesMoved \/ TorrentRestart \/ UserCommands

\* Fetches end, and a control that runs has it all at last.
TorrentFairness ==
  WF_torrentVars(TorrentFetched) /\ WF_torrentVars(DownloadFinished) /\ WF_torrentVars(FilesMoved)

----------------------------------------------------------------------------
(* Properties                                                              *)

\* A torrent that may run is complete in the end, after stops, moves, stalls and
\* restarts in any order.  Not if its .torrent could not be fetched, which nobody
\* is told of; nor after an error, which is not retried; nor if it was moved while
\* it did not run, when the end of the move is never noticed.
TorrentArrives ==
  <>[](/\ torrent.place = "may run" /\ torrent.doc = "good" /\ torrent.error = "AutomaticRetry"
       /\ astray \cap {"error", "moved", "not fetched"} = {})
    => <>torrent.complete
=============================================================================
