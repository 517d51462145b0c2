------------------------------ MODULE JobTracker ------------------------------
(***************************************************************************)
(* The desktop's job tracker: KUiServerJobs shows the running transfers     *)
(* there, each by its KGetKJobAdapter or all by one KGetGlobalJob, as the   *)
(* transfer model tells it of changes, and passes on what the user asks for *)
(* there.  A handler is known by its address, which a new one may get.      *)
(***************************************************************************)
EXTENDS FiniteSets, Functions, Naturals

CONSTANTS
  Addresses,   \* of handlers
  Global,      \* the null pointer under which the global job is registered
  Resuming,    \* the addresses whose transfer has Cap_Resuming
  MaxHappens   \* bound: what happens

ASSUME JobTrackerAssumption == Global \notin Addresses /\ Resuming \subseteq Addresses /\ MaxHappens \in Nat

VARIABLES
  status,    \* of the transfers that there are: running, stopped or finished
  changed,   \* TransferTreeModel::m_changedTransfers
  stopping,  \* those that were asked to stop and still run
  shownJobs,      \* KUiServerJobs: [registered, invalid, suspendRequested]
  suspended, \* the transfers whose adapter is suspended, as KJob notes it
  paused,    \* history: those suspended in the tracker since they were registered there
  showAs,  \* [integration, global]: EnableKUIServerIntegration, ExportGlobalJob
  happened

trackerVars == <<status, changed, stopping, shownJobs, suspended, paused, showAs, happened>>

Running(st) == {t \in DOMAIN st : st[t] = "running"}

----------------------------------------------------------------------------
(* KUiServerJobs                                                           *)

ExistRunningTransfers(st, j) == Running(st) \ j.invalid # {}

ShouldBeShown(t, st, j, set) ==
  /\ set.integration
  /\ IF t = Global THEN set.global /\ ExistRunningTransfers(st, j)
     ELSE ~set.global /\ t \in Running(st)

Register(j, t) == [j EXCEPT !.registered = @ \cup {t}]

\* unregisterJob: what was to be suspended is kept once.
Unregister(j, t) ==
  IF t \notin j.registered THEN j
  ELSE IF t \in j.suspendRequested THEN [j EXCEPT !.suspendRequested = @ \ {t}]
  ELSE [j EXCEPT !.registered = @ \ {t}]

Unregisters(j, t) == t \in j.registered /\ t \notin j.suspendRequested

\* The loops of the slots: every one of ts is shown or not.
ShowTransfers(j, ts, st, set) ==
  LET shown == {t \in ts : ShouldBeShown(t, st, j, set)}
      hidden == ts \ shown
  IN  [j EXCEPT !.registered = (@ \cup shown) \ (hidden \ j.suspendRequested),
                !.suspendRequested = @ \ (hidden \cap j.registered)]

ShowGlobal(j, st, set) ==
  IF ShouldBeShown(Global, st, j, set) THEN Register(j, Global) ELSE Unregister(j, Global)

TrackerSettingsChanged(j, st, set) == ShowGlobal(ShowTransfers(j, DOMAIN st, st, set), st, set)

SlotTransfersAdded(j, ts, st, set) ==
  ShowGlobal([j EXCEPT !.registered = @ \cup {t \in ts : ShouldBeShown(t, st, j, set)}], st, set)

\* A mutant: a transfer that is removed counts as running.
RemovedStillCounted(j, t, st, set) == ShowGlobal(Unregister(j, t), st, set)

\* m_invalidTransfers is never cleared.
SlotTransferAboutToBeRemoved(j, t, st, set) ==
  LET gone == [j EXCEPT !.invalid = @ \cup {t}]
  IN  ShowGlobal(Unregister(gone, t), st, set)

SlotTransfersChanged(j, ts, st, set) ==
  IF ~set.integration THEN j ELSE ShowGlobal(ShowTransfers(j, ts, st, set), st, set)

----------------------------------------------------------------------------
(* What happens                                                            *)

TrackerEvent == happened < MaxHappens /\ happened' = happened + 1

\* The adapters that are still registered keep what the user did to them.
Keeps(j) == paused' = paused \cap j.registered

TransferAdded ==
  \E t \in Addresses \ DOMAIN status, s \in {"running", "stopped"} :
    /\ TrackerEvent
    /\ status' = [u \in DOMAIN status \cup {t} |-> IF u = t THEN s ELSE status[u]]
    /\ shownJobs' = SlotTransfersAdded(shownJobs, {t}, status', showAs)
    /\ suspended' = suspended \ {t}
    /\ UNCHANGED <<changed, stopping, paused, showAs>>

\* delTransfers: the model forgets the change, then the transfer is deleted.
TransferRemoved ==
  \E t \in DOMAIN status :
    /\ TrackerEvent
    /\ shownJobs' = SlotTransferAboutToBeRemoved(shownJobs, t, status, showAs)
    /\ status' = Restrict(status, DOMAIN status \ {t})
    /\ changed' = changed \ {t} /\ stopping' = stopping \ {t} /\ Keeps(shownJobs')
    /\ UNCHANGED <<suspended, showAs>>

\* The transfer goes on, is started by the scheduler, fails or ends: setTransferChange posts it.
TransferChanges ==
  \E t \in DOMAIN status :
    /\ TrackerEvent
    /\ \E s \in {"running", "stopped", "finished"} :
         /\ status' = [status EXCEPT ![t] = s]
         /\ stopping' = IF s = "running" THEN stopping ELSE stopping \ {t}
    /\ changed' = changed \cup {t}
    /\ UNCHANGED <<shownJobs, suspended, paused, showAs>>

\* timerEvent of the model, transfersChangedEvent
ModelReports ==
  /\ changed # {} /\ changed' = {}
  /\ shownJobs' = SlotTransfersChanged(shownJobs, changed, status, showAs) /\ Keeps(shownJobs')
  /\ UNCHANGED <<status, stopping, suspended, showAs, happened>>

\* KGet::settingsChanged after the preferences were applied
ChangeSettings ==
  /\ TrackerEvent
  /\ showAs' \in [integration : BOOLEAN, global : BOOLEAN] \ {showAs}
  /\ shownJobs' = TrackerSettingsChanged(shownJobs, status, showAs') /\ Keeps(shownJobs')
  /\ UNCHANGED <<status, changed, stopping, suspended>>

\* TransferHandler::stop: those that run stop at once, or say later that they have.
Stop(ts) ==
  \E late \in SUBSET (ts \cap Running(status)) :
    LET now == (ts \cap Running(status)) \ late
    IN  /\ status' = [t \in DOMAIN status |-> IF t \in now THEN "stopped" ELSE status[t]]
        /\ changed' = changed \cup now
        /\ stopping' = stopping \cup late

\* TransferHandler::start
Start(t) ==
  /\ status' = [status EXCEPT ![t] = IF @ = "stopped" THEN "running" ELSE @]
  /\ changed' = IF status[t] = "stopped" THEN changed \cup {t} ELSE changed
  /\ UNCHANGED stopping

\* doKill of an adapter that is shown: slotRequestStop.
KillInTracker ==
  \E t \in shownJobs.registered \cap DOMAIN status :
    /\ TrackerEvent /\ shownJobs' = Unregister(shownJobs, t) /\ Keeps(shownJobs')
    /\ IF Unregisters(shownJobs, t) THEN Stop({t}) ELSE UNCHANGED <<status, changed, stopping>>
    /\ UNCHANGED <<suspended, showAs>>

\* doKill of the global job: all transfers are stopped.
KillGlobal ==
  /\ Global \in shownJobs.registered /\ TrackerEvent
  /\ shownJobs' = Unregister(shownJobs, Global) /\ Stop(DOMAIN status)
  /\ UNCHANGED <<suspended, paused, showAs>>

\* KJob::suspend, doSuspend and slotRequestSuspend
SuspendInTracker ==
  \E t \in shownJobs.registered \cap DOMAIN status \cap Resuming :
    /\ t \notin suspended /\ TrackerEvent
    /\ shownJobs' = [shownJobs EXCEPT !.suspendRequested = @ \cup {t}]
    /\ suspended' = suspended \cup {t} /\ paused' = paused \cup {t}
    /\ Stop({t}) /\ UNCHANGED showAs

\* KJob::resume, doResume and slotRequestResume
ResumeInTracker ==
  \E t \in shownJobs.registered \cap DOMAIN status \cap suspended :
    /\ TrackerEvent /\ suspended' = suspended \ {t}
    /\ Start(t) /\ UNCHANGED <<shownJobs, paused, showAs>>

\* The user starts or stops it in KGet.
UserCommand ==
  \E t \in DOMAIN status :
    /\ TrackerEvent /\ (Start(t) \/ Stop({t}))
    /\ UNCHANGED <<shownJobs, suspended, paused, showAs>>

TrackerInit ==
  /\ status = [t \in {} |-> "stopped"] /\ changed = {} /\ stopping = {}
  /\ shownJobs = [registered |-> {}, invalid |-> {}, suspendRequested |-> {}]
  /\ suspended = {} /\ paused = {} /\ happened = 0
  /\ showAs \in [integration : BOOLEAN, global : BOOLEAN]

TrackerNext ==
  \/ TransferAdded \/ TransferRemoved \/ TransferChanges \/ ModelReports \/ ChangeSettings
  \/ KillInTracker \/ KillGlobal \/ SuspendInTracker \/ ResumeInTracker \/ UserCommand

----------------------------------------------------------------------------
(* What must hold                                                          *)

\* Once the model has told of all changes, the tracker shows what runs: every running transfer
\* of an integrated desktop has its job, unless it was told to stop, and every job shown is of
\* a running transfer or was suspended there (which keeps it, for longer than it is suspended);
\* the global job is shown only while a transfer runs, whatever was removed.
TrackerShowsRunning ==
  changed = {} =>
    /\ \A t \in DOMAIN status :
         /\ ShouldBeShown(t, status, shownJobs, showAs) => t \in shownJobs.registered \cup stopping
         /\ t \in shownJobs.registered => ShouldBeShown(t, status, shownJobs, showAs) \/ t \in paused
    /\ Global \in shownJobs.registered => showAs.global /\ Running(status) # {}
================================================================================
