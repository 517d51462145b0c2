------------------------------ MODULE Scheduler ------------------------------
(***************************************************************************)
(* KGet's scheduler with everything that runs on its call stack: Scheduler,*)
(* JobQueue and Job, the TransferHandler and TransferGroup operations the  *)
(* user reaches, TransferTreeModel's moves and removals, and the two       *)
(* simplest transfer plug-ins, TransferKio and MmsTransfer.                *)
(*                                                                         *)
(* All of it runs in one thread, called from the Qt event loop.  One event *)
(* (a click, a timer, a signal of a worker) is one handler; a handler is a *)
(* nest of synchronous calls that re-enter the scheduler.  The model keeps *)
(* that nest explicitly: `calls' holds the calls the running handler has   *)
(* still to make, innermost first, and one step makes one call.  The loop  *)
(* of Scheduler::updateQueue takes one step per job; while it runs, every  *)
(* nested updateQueue is dropped, which is what its static flag does.      *)
(***************************************************************************)
EXTENDS JobFailure, Sequences, FiniteSets, SequencesExt

CONSTANTS
    Jobs,            \* transfer objects (their addresses)
    Queues,          \* transfer groups (their addresses)
    MmsJobs,         \* the jobs that are MmsTransfers; the others are TransferKios
    FtpJobs,         \* the TransferKios whose source is an ftp URL
    NoJob, NoQueue,  \* null pointers
    ConnectionLimits,\* the values Settings::maxConnections() may take
    Restored,        \* the transfer list KGet::load reads: the jobs of each group
    SavedPolicies,   \* the policies they were saved with
    Events,          \* the events that occur: a part of EventNames
    MaxStats,        \* bound: stat jobs in flight per job before other events wait
    MaxMoves         \* bound: moves of the .part file under way per job

KioJobs == Jobs \ MmsJobs

EventNames ==
    {"start", "stop", "startSelected", "stopSelected", "groupStart", "groupStop",
     "startAll", "stopAll", "offlineModeOn", "offlineModeOff", "network", "settings", "timer",
     "add", "delete", "move", "moveToGroup", "addGroup", "delGroup",
     "speed", "data", "result", "error", "statResult", "newDestination",
     "newDestResult", "repair", "brokenUrl", "connectionsErrors", "mmsResult"}

ASSUME SchedulerAssumption ==
    /\ IsFiniteSet(Jobs) /\ IsFiniteSet(Queues) /\ Queues # {}
    /\ MmsJobs \subseteq Jobs
    /\ FtpJobs \subseteq KioJobs
    /\ NoJob \notin Jobs /\ NoQueue \notin Queues
    /\ ConnectionLimits \subseteq Nat /\ ConnectionLimits # {}
    /\ Restored \in [Queues -> Seq(Jobs)]
    /\ \A q1, q2 \in Queues : \A i \in DOMAIN Restored[q1], k \in DOMAIN Restored[q2] :
           Restored[q1][i] = Restored[q2][k] => q1 = q2 /\ i = k
    /\ SavedPolicies \subseteq {"Start", "Stop", "None"}
    /\ Events \subseteq EventNames
    /\ MaxStats \in Nat /\ MaxMoves \in Nat

Statuses    == {"Running", "Stopped", "Aborted", "Finished", "FinishedKeepAlive", "Moving"}
Policies    == {"Start", "Stop", "None"}
ErrorTypes  == {"AutomaticRetry", "ManualSolve", "NotSolveable"}
QueueStatus == {"Running", "Stopped"}

VARIABLES
    \* Job and the plug-ins
    alive,      \* the transfers that exist
    status,     \* m_status
    policy,     \* m_policy
    errorType,  \* m_error.type
    jobQueue,   \* m_jobQueue
    owner,      \* the QObject parent: the group the transfer was created in
    worker,     \* m_copyjob or m_mmsdownload is set
    speed,      \* m_downloadSpeed > 0
    moving,     \* TransferKio::m_movingFile
    moves,      \* KIO::file_move jobs of the .part file under way
    overlapped, \* a move was asked for while one was under way (since there was none)
    retry,      \* MmsTransfer::m_retryDownload
    complete,   \* m_downloadedSize = m_totalSize # 0
    statJobs,   \* KIO::stat jobs of an ftp transfer in flight
    \* JobQueue
    jobs,       \* m_jobs
    qstatus,    \* m_status
    \* Scheduler
    queues,     \* m_queues
    failures,   \* m_failedJobs
    suspended,  \* m_isSuspended
    connected,  \* m_hasConnection
    timer,      \* m_failureCheckTimer # 0
    limit,      \* Settings::maxConnections()
    \* the call stack
    handler,    \* the event being handled, "none" in the event loop
    calls,      \* what the handler still calls, innermost first
    updating,   \* the queue updateQueue loops over, NoQueue when updatingQueue is false
    pos,        \* the loop's position
    runningJobs, waitingJobs  \* the loop's counters

moveVars   == <<moving, moves, overlapped>>
pluginVars == <<worker, speed, moving, moves, overlapped, retry, complete, statJobs>>
statusVars == <<status, errorType, timer>>
jobVars    == <<alive, policy, jobQueue, owner>>
queueVars  == <<jobs, qstatus, queues>>
schedVars  == <<failures, suspended, connected, limit>>
loopVars   == <<updating, pos, runningJobs, waitingJobs>>
vars == <<pluginVars, statusVars, jobVars, queueVars, schedVars, loopVars, handler, calls>>

-----------------------------------------------------------------------------
(* The calls a handler can have pending.                                   *)

JobOps == {"start", "stop", "handlerStart", "handlerStop", "failureCheck",
           "slotResultEnd", "remove", "destroy"}
QueueOps == {"update", "queueStart", "queueStop", "stopJobs", "stopHandlers",
             "checkJobs", "delQueue"}

Calls ==
         [op : JobOps, job : Jobs]
    \cup [op : QueueOps, queue : Queues]
    \cup [op : {"setPolicy"}, job : Jobs, policy : Policies]
    \cup [op : {"resetPolicy"}, job : Jobs, queue : Queues]
    \cup [op : {"setStatus"}, job : Jobs, status : Statuses]
    \cup [op : {"setErrorType"}, job : Jobs, type : ErrorTypes]
    \cup [op : {"append", "setJobQueue"}, job : Jobs, queue : Queues]
    \cup [op : {"moveTransfer", "insert"}, job : Jobs, queue : Queues, after : Jobs \cup {NoJob}]
    \cup [op : {"setSpeed"}, job : Jobs, working : BOOLEAN]
    \cup [op : {"setSuspended"}, suspended : BOOLEAN]

OnJob(op, j)   == [op |-> op, job |-> j]
OnQueue(op, q) == [op |-> op, queue |-> q]
ForJobs(op, s)   == [i \in DOMAIN s |-> OnJob(op, s[i])]
ForQueues(op)    == [i \in DOMAIN queues |-> OnQueue(op, queues[i])]
SetPolicy(j, p)  == [op |-> "setPolicy", job |-> j, policy |-> p]
SetStatusTo(j, s) == [op |-> "setStatus", job |-> j, status |-> s]
SetSuspended(b)  == [op |-> "setSuspended", suspended |-> b]

\* The event loop hands an event to its handler, which makes these calls.
\* MaxStats bounds the stat jobs an ftp transfer can pile up.
Handle(event, todo) ==
    /\ handler = "none"
    /\ event \in Events
    /\ event # "statResult" => \A j \in Jobs : statJobs[j] <= MaxStats
    /\ calls' = todo
    /\ handler' = IF todo = <<>> THEN "none" ELSE event
    /\ UNCHANGED loopVars

\* The handler makes its next call, if that is op, and the call makes others.
Calling(op) == updating = NoQueue /\ calls # <<>> /\ Head(calls).op = op
Return(nested) ==
    /\ calls' = nested \o Tail(calls)
    /\ handler' = IF nested \o Tail(calls) = <<>> THEN "none" ELSE handler
Call(nested) == Return(nested) /\ UNCHANGED loopVars

-----------------------------------------------------------------------------
(* Lists of jobs.  A job is at most once in a list (JobsListedOnce).       *)

IndexOf(s, j) == CHOOSE i \in DOMAIN s : s[i] = j
WithoutNothing(s, j) == s \* a mutant: removeAll is forgotten
Without(s, j) == IF j \in ToSet(s) THEN RemoveAt(s, IndexOf(s, j)) ELSE s
\* QList::insert(indexOf(after) + 1, job): in front if there is no `after'
InsertAfter(s, j, after) ==
    InsertAt(s, IF after \in ToSet(s) THEN IndexOf(s, after) + 1 ELSE 1, j)

-----------------------------------------------------------------------------
(* Scheduler: what a job is entitled to.                                   *)

\* JobQueue::maxSimultaneousJobs
MaxSimultaneousJobs == IF limit = 0 THEN 1000 ELSE limit

ShouldUpdate == ~suspended /\ connected

ShouldBeRunning(j) ==
    /\ IF qstatus[jobQueue[j]] = "Stopped" THEN policy[j] = "Start" ELSE policy[j] # "Stop"
    /\ status[j] # "Finished"
    /\ status[j] = "Aborted" => errorType[j] = "AutomaticRetry"

\* a mutant: waiting jobs do not count
WithinLimitOfRunning == runningJobs < MaxSimultaneousJobs
WithinLimit ==
    /\ runningJobs < MaxSimultaneousJobs
    /\ runningJobs + waitingJobs < 2 * MaxSimultaneousJobs

-----------------------------------------------------------------------------
(* Job: the fields a status change assigns, and the update it asks for.    *)

AssignStatus(j, s) ==
    /\ status' = [status EXCEPT ![j] = s]
    /\ errorType' = [errorType EXCEPT ![j] =
                        IF status[j] = "Aborted" /\ s # "Aborted" THEN "AutomaticRetry" ELSE @]
    /\ timer' = (timer \/ status[j] # s)

\* jobChangedEvent(Job *, Job::Status): only a job that does not run frees a slot
AfterStatusNothing(j, s) == <<>> \* a mutant: a freed slot is not noticed
AfterStatus(j, s) ==
    IF status[j] # s /\ s # "Running" THEN <<OnQueue("update", jobQueue[j])>> ELSE <<>>

-----------------------------------------------------------------------------
(* The plug-ins' start() and stop().                                       *)

\* MmsTransfer::start returns while the old download thread winds down,
\* TransferKio::start while the file is moved.
CanStart(j) ==
    /\ status[j] # "Finished"
    /\ IF j \in MmsJobs THEN ~worker[j] ELSE ~moving[j]

CanStop(j) == status[j] \notin {"Stopped", "Finished"}

PluginStart(j) ==
    /\ IF CanStart(j)
       THEN AssignStatus(j, "Running") /\ worker' = [worker EXCEPT ![j] = TRUE]
       ELSE UNCHANGED <<statusVars, worker>>
    /\ UNCHANGED <<speed, moveVars, retry, complete, statJobs>>

\* TransferKio kills its copy job, and the slotResult this emits starts the
\* stat job of an ftp source; MmsTransfer only asks its thread to end.
PluginStop(j) ==
    /\ IF CanStop(j)
       THEN /\ AssignStatus(j, "Stopped")
            /\ speed' = [speed EXCEPT ![j] = FALSE]
            /\ worker' = [worker EXCEPT ![j] = @ /\ j \in MmsJobs]
            /\ statJobs' = [statJobs EXCEPT ![j] = IF j \in FtpJobs /\ worker[j] THEN @ + 1 ELSE @]
       ELSE UNCHANGED <<statusVars, speed, worker, statJobs>>
    /\ UNCHANGED <<moveVars, retry, complete>>

AfterStop(j) == IF CanStop(j) THEN AfterStatus(j, "Stopped") ELSE <<>>

-----------------------------------------------------------------------------
(* Scheduler::updateQueue.                                                 *)

BeginLoop(q) ==
    /\ updating' = q
    /\ pos' = 1
    /\ calls' = Tail(calls)
    /\ UNCHANGED <<runningJobs, waitingJobs, handler>>

\* a mutant: shouldUpdate() is not asked
CallUpdateAlways ==
    /\ Calling("update")
    /\ BeginLoop(Head(calls).queue)
    /\ UNCHANGED <<pluginVars, statusVars, jobVars, queueVars, schedVars>>
CallUpdate ==
    /\ Calling("update")
    /\ IF ShouldUpdate THEN BeginLoop(Head(calls).queue) ELSE Call(<<>>)
    /\ UNCHANGED <<pluginVars, statusVars, jobVars, queueVars, schedVars>>

LoopJob == jobs[updating][pos]
Looping == updating # NoQueue /\ pos <= Len(jobs[updating])
IsActive(j) == status[j] \in {"Running", "FinishedKeepAlive"}

\* a mutant: the loop does not advance past a job that takes no slot
NextJobStuck(takesSlot) ==
    /\ pos' = IF takesSlot THEN pos + 1 ELSE pos
    /\ UNCHANGED <<jobVars, queueVars, schedVars, updating, runningJobs, waitingJobs, handler, calls>>

\* the job takes a running or a waiting slot, depending on its last failure
NextJob(takesSlot) ==
    /\ pos' = pos + 1
    /\ runningJobs' = IF takesSlot /\ CountsAsRunning(failures[LoopJob])
                      THEN runningJobs + 1 ELSE runningJobs
    /\ waitingJobs' = IF takesSlot /\ ~CountsAsRunning(failures[LoopJob])
                      THEN waitingJobs + 1 ELSE waitingJobs
    /\ UNCHANGED <<jobVars, queueVars, schedVars, updating, handler, calls>>

KeepRunning ==
    /\ Looping /\ WithinLimit
    /\ IsActive(LoopJob) /\ ShouldBeRunning(LoopJob)
    /\ NextJob(TRUE)
    /\ UNCHANGED <<pluginVars, statusVars>>

StopUnwanted ==
    /\ Looping /\ WithinLimit
    /\ IsActive(LoopJob) /\ ~ShouldBeRunning(LoopJob)
    /\ PluginStop(LoopJob)
    /\ NextJob(FALSE)

\* The job takes a slot even if its start() does nothing.  (A plug-in whose
\* start() goes straight to FinishedKeepAlive would take a waiting slot.)
StartWanted ==
    /\ Looping /\ WithinLimit
    /\ ~IsActive(LoopJob) /\ ShouldBeRunning(LoopJob)
    /\ PluginStart(LoopJob)
    /\ NextJob(TRUE)

LeaveStopped ==
    /\ Looping /\ WithinLimit
    /\ ~IsActive(LoopJob) /\ ~ShouldBeRunning(LoopJob)
    /\ NextJob(FALSE)
    /\ UNCHANGED <<pluginVars, statusVars>>

StopOverLimit ==
    /\ Looping /\ ~WithinLimit
    /\ PluginStop(LoopJob)
    /\ NextJob(FALSE)

\* a mutant: the counters keep their values for the next update
UpdateDoneWithoutReset ==
    /\ updating # NoQueue /\ pos > Len(jobs[updating])
    /\ updating' = NoQueue
    /\ pos' = 0
    /\ handler' = IF calls = <<>> THEN "none" ELSE handler
    /\ UNCHANGED <<pluginVars, statusVars, jobVars, queueVars, schedVars, calls, runningJobs, waitingJobs>>
UpdateDone ==
    /\ updating # NoQueue /\ pos > Len(jobs[updating])
    /\ updating' = NoQueue
    /\ pos' = 0 /\ runningJobs' = 0 /\ waitingJobs' = 0
    /\ handler' = IF calls = <<>> THEN "none" ELSE handler
    /\ UNCHANGED <<pluginVars, statusVars, jobVars, queueVars, schedVars, calls>>

UpdateLoop ==
    \/ KeepRunning \/ StopUnwanted \/ StartWanted
    \/ LeaveStopped \/ StopOverLimit \/ UpdateDone

-----------------------------------------------------------------------------
(* Calls on a job and on its handler.                                      *)

CallStart ==
    /\ Calling("start")
    /\ PluginStart(Head(calls).job)
    /\ Call(<<>>)
    /\ UNCHANGED <<jobVars, queueVars, schedVars>>

CallStop ==
    /\ Calling("stop")
    /\ PluginStop(Head(calls).job)
    /\ Call(AfterStop(Head(calls).job))
    /\ UNCHANGED <<jobVars, queueVars, schedVars>>

CallSetStatus ==
    /\ Calling("setStatus")
    /\ LET c == Head(calls) IN
       AssignStatus(c.job, c.status) /\ Call(AfterStatus(c.job, c.status))
    /\ UNCHANGED <<pluginVars, jobVars, queueVars, schedVars>>

CallSetErrorType ==
    /\ Calling("setErrorType")
    /\ errorType' = [errorType EXCEPT ![Head(calls).job] = Head(calls).type]
    /\ Call(<<>>)
    /\ UNCHANGED <<pluginVars, status, timer, jobVars, queueVars, schedVars>>

CallSetPolicy ==
    /\ Calling("setPolicy")
    /\ LET c == Head(calls) IN
       /\ policy' = [policy EXCEPT ![c.job] = c.policy]
       /\ Call(IF policy[c.job] # c.policy THEN <<OnQueue("update", jobQueue[c.job])>> ELSE <<>>)
    /\ UNCHANGED <<pluginVars, statusVars, alive, jobQueue, owner, queueVars, schedVars>>

\* a mutant: the copy job is not forgotten
CallSlotResultEndKeepsJob ==
    /\ Calling("slotResultEnd")
    /\ Call(<<>>)
    /\ UNCHANGED <<pluginVars, statusVars, jobVars, queueVars, schedVars>>

\* the last part of TransferKio::slotResult, after its setStatus
CallSlotResultEnd ==
    /\ Calling("slotResultEnd")
    /\ LET j == Head(calls).job IN
       /\ worker' = [worker EXCEPT ![j] = FALSE]
       /\ statJobs' = [statJobs EXCEPT ![j] = IF j \in FtpJobs THEN @ + 1 ELSE @]
    /\ Call(<<>>)
    /\ UNCHANGED <<speed, moveVars, retry, complete, statusVars, jobVars, queueVars, schedVars>>

CallSetSpeed ==
    /\ Calling("setSpeed")
    /\ speed' = [speed EXCEPT ![Head(calls).job] = Head(calls).working]
    /\ Call(<<>>)
    /\ UNCHANGED <<worker, moveVars, retry, complete, statJobs, statusVars, jobVars, queueVars, schedVars>>

\* a call that changes no data itself
Delegate(nested) ==
    /\ Call(nested)
    /\ UNCHANGED <<pluginVars, statusVars, jobVars, queueVars, schedVars>>

MoveTransfer(j, q, after) ==
    [op |-> "moveTransfer", job |-> j, queue |-> q, after |-> after]

CallHandlerStart ==
    /\ Calling("handlerStart")
    /\ LET j == Head(calls).job IN
       Delegate(IF qstatus[jobQueue[j]] = "Running"
                THEN <<SetPolicy(j, "None"), MoveTransfer(j, jobQueue[j], NoJob)>>
                ELSE <<SetPolicy(j, "Start")>>)

CallHandlerStop ==
    /\ Calling("handlerStop")
    /\ LET j == Head(calls).job IN
       Delegate(<<SetPolicy(j, IF qstatus[jobQueue[j]] = "Stopped" THEN "None" ELSE "Stop")>>)

CallFailureCheck ==
    /\ Calling("failureCheck")
    /\ LET j == Head(calls).job
           f == NextFailure(failures[j], status[j] = "Running" /\ ~speed[j],
                            status[j] = "Aborted", errorType[j], speed[j])
       IN /\ failures' = [failures EXCEPT ![j] = Stored(f)]
          /\ Call(IF f.status = failures[j].status THEN <<>>
                  ELSE IF f.status = "Error" THEN <<OnJob("handlerStop", j)>>
                  ELSE IF StopsTheJob(f) THEN <<OnJob("stop", j)>>
                  ELSE <<OnQueue("update", jobQueue[j])>>)
    /\ UNCHANGED <<pluginVars, statusVars, jobVars, queueVars, suspended, connected, limit>>

-----------------------------------------------------------------------------
(* Calls on a queue, on the transfer list and on the scheduler.            *)

QueueStatusChange(q, s, thenCall) ==
    /\ qstatus' = [qstatus EXCEPT ![q] = s]
    /\ Call([i \in DOMAIN jobs[q] |->
                [op |-> "resetPolicy", job |-> jobs[q][i], queue |-> q]] \o <<thenCall>>)
    /\ UNCHANGED <<pluginVars, statusVars, jobVars, jobs, queues, schedVars>>

CallQueueStart ==
    /\ Calling("queueStart")
    /\ QueueStatusChange(Head(calls).queue, "Running", OnQueue("update", Head(calls).queue))

CallQueueStop ==
    /\ Calling("queueStop")
    /\ QueueStatusChange(Head(calls).queue, "Stopped", OnQueue("stopJobs", Head(calls).queue))

\* JobQueue::setStatus drops the policies that the new queue status implies.
CallResetPolicy ==
    /\ Calling("resetPolicy")
    /\ LET c == Head(calls) IN
       Delegate(IF status[c.job] = qstatus[c.queue] THEN <<SetPolicy(c.job, "None")>> ELSE <<>>)

\* the loops over a queue's jobs
CallForJobs ==
    \/ Calling("stopJobs") /\ Delegate(ForJobs("stop", jobs[Head(calls).queue]))
    \/ Calling("stopHandlers") /\ Delegate(ForJobs("handlerStop", jobs[Head(calls).queue]))
    \/ Calling("checkJobs") /\ Delegate(ForJobs("failureCheck", jobs[Head(calls).queue]))

\* JobQueue::append, remove, insert, move: each ends in a queue update.
Relist(q, list) ==
    /\ jobs' = [jobs EXCEPT ![q] = list]
    /\ UNCHANGED <<pluginVars, statusVars, jobVars, qstatus, queues, schedVars>>

CallAppend ==
    /\ Calling("append")
    /\ LET c == Head(calls) IN
       /\ Relist(c.queue, Append(jobs[c.queue], c.job))
       /\ Call(<<OnQueue("update", c.queue)>>)

CallRemove ==
    /\ Calling("remove")
    /\ LET j == Head(calls).job  q == jobQueue[j] IN
       /\ Relist(q, Without(jobs[q], j))
       /\ Call(<<OnQueue("update", q)>>)

CallInsert ==
    /\ Calling("insert")
    /\ LET c == Head(calls) IN
       /\ Relist(c.queue, InsertAfter(jobs[c.queue], c.job, c.after))
       /\ Call(<<OnQueue("update", c.queue)>>)

\* TransferTreeModel::moveTransfer.  Into another group, the job still has its
\* old queue while the new one is updated.
CallMoveTransfer ==
    /\ Calling("moveTransfer")
    /\ LET c == Head(calls)  j == c.job  q == c.queue  old == jobQueue[j] IN
       \/ /\ c.after = j \/ (c.after # NoJob /\ jobQueue[c.after] # q)
          /\ Delegate(<<>>)
       \/ /\ c.after # j /\ (c.after # NoJob => jobQueue[c.after] = q)
          /\ q = old
          /\ Relist(q, InsertAfter(Without(jobs[q], j), j, c.after))
          /\ Call(<<OnQueue("update", q)>>)
       \/ /\ c.after # j /\ (c.after # NoJob => jobQueue[c.after] = q)
          /\ q # old
          /\ Relist(old, Without(jobs[old], j))
          /\ Call(<<OnQueue("update", old),
                    [op |-> "insert", job |-> j, queue |-> q, after |-> c.after],
                    [op |-> "setJobQueue", job |-> j, queue |-> q]>>)

\* a mutant: m_jobQueue keeps its value
CallSetJobQueueForgotten ==
    /\ Calling("setJobQueue")
    /\ Call(<<>>)
    /\ UNCHANGED <<pluginVars, statusVars, jobVars, queueVars, schedVars>>
CallSetJobQueue ==
    /\ Calling("setJobQueue")
    /\ jobQueue' = [jobQueue EXCEPT ![Head(calls).job] = Head(calls).queue]
    /\ Call(<<>>)
    /\ UNCHANGED <<pluginVars, statusVars, alive, policy, owner, queueVars, schedVars>>

\* The objects are gone; their entries in m_failedJobs stay.
Destroy(gone) ==
    /\ alive' = alive \ gone
    /\ status' = [j \in Jobs |-> IF j \in gone THEN "Stopped" ELSE status[j]]
    /\ errorType' = [j \in Jobs |-> IF j \in gone THEN "AutomaticRetry" ELSE errorType[j]]
    /\ policy' = [j \in Jobs |-> IF j \in gone THEN "None" ELSE policy[j]]
    /\ worker' = [j \in Jobs |-> worker[j] /\ j \notin gone]
    /\ speed' = [j \in Jobs |-> speed[j] /\ j \notin gone]
    /\ moving' = [j \in Jobs |-> moving[j] /\ j \notin gone]
    /\ moves' = [j \in Jobs |-> IF j \in gone THEN 0 ELSE moves[j]]
    /\ overlapped' = [j \in Jobs |-> overlapped[j] /\ j \notin gone]
    /\ retry' = [j \in Jobs |-> retry[j] /\ j \notin gone]
    /\ complete' = [j \in Jobs |-> complete[j] /\ j \notin gone]
    /\ statJobs' = [j \in Jobs |-> IF j \in gone THEN 0 ELSE statJobs[j]]
    /\ UNCHANGED <<timer, jobQueue, owner, schedVars>>

CallDestroy ==
    /\ Calling("destroy")
    /\ Destroy({Head(calls).job})
    /\ Call(<<>>)
    /\ UNCHANGED queueVars

\* Scheduler::delQueue, then the deletion of the group and its QObject children
CallDelQueue ==
    /\ Calling("delQueue")
    /\ LET q == Head(calls).queue IN
       /\ queues' = Without(queues, q)
       /\ Destroy({j \in alive : owner[j] = q})
    /\ Call(<<>>)
    /\ UNCHANGED <<jobs, qstatus>>

CallSetSuspended ==
    /\ Calling("setSuspended")
    /\ LET s == Head(calls).suspended IN
       /\ suspended' = s
       /\ Call(IF s # suspended /\ ~s /\ connected THEN ForQueues("update") ELSE <<>>)
    /\ UNCHANGED <<pluginVars, statusVars, jobVars, queueVars, failures, connected, limit>>

HandlerCall ==
    \/ CallUpdate \/ CallStart \/ CallStop \/ CallSetStatus \/ CallSetErrorType
    \/ CallSetPolicy \/ CallSlotResultEnd \/ CallSetSpeed \/ CallHandlerStart
    \/ CallHandlerStop \/ CallFailureCheck \/ CallQueueStart \/ CallQueueStop
    \/ CallResetPolicy \/ CallForJobs \/ CallAppend \/ CallRemove \/ CallInsert
    \/ CallMoveTransfer \/ CallSetJobQueue \/ CallDestroy \/ CallDelQueue
    \/ CallSetSuspended

-----------------------------------------------------------------------------
(* Events: the user.                                                       *)

\* an event whose handler changes no data before its calls
Event(event, todo) ==
    /\ Handle(event, todo)
    /\ UNCHANGED <<pluginVars, statusVars, jobVars, queueVars, schedVars>>

Listed(q) == ToSet(jobs[q])

\* DBusTransferWrapper, KUiServerJobs
UserStart(j) == j \in alive /\ Event("start", <<OnJob("handlerStart", j)>>)
UserStop(j)  == j \in alive /\ Event("stop", <<OnJob("handlerStop", j)>>)

\* MainWindow::slotStartSelectedDownload and slotStopSelectedDownload, on one
\* transfer, on all transfers of a group, or on a group
Selections(op, queueOp) ==
         {<<OnJob(op, j)>> : j \in alive}
    \cup {ForJobs(op, jobs[q]) : q \in ToSet(queues)}
    \cup {<<OnQueue(queueOp, q)>> : q \in ToSet(queues)}

StartSelected(s) ==
    Event("startSelected", <<SetSuspended(TRUE)>> \o s \o <<SetSuspended(FALSE)>>)
StopSelected(s) ==
    Event("stopSelected", <<SetSuspended(TRUE)>> \o s \o <<SetSuspended(FALSE)>>)

\* the group's button in the transfer list
GroupStart(q) == q \in ToSet(queues) /\ Event("groupStart", <<OnQueue("queueStart", q)>>)
GroupStop(q)  == q \in ToSet(queues) /\ Event("groupStop", <<OnQueue("queueStop", q)>>)

\* KGet::setSchedulerRunning
SchedulerRunning(running) ==
    ForQueues("queueStop") \o (IF running THEN ForQueues("queueStart") ELSE <<>>)

\* a mutant: the scheduler stops the groups, but not the transfers started by hand
StopAllGroups == Event("stopAll", SchedulerRunning(FALSE))

StartAll == Event("startAll", SchedulerRunning(TRUE))
StopAll  == Event("stopAll", SchedulerRunning(FALSE) \o ForQueues("stopHandlers"))
\* DBusKGetWrapper::setOfflineMode
SetOfflineMode(offline) ==
    Event(IF offline THEN "offlineModeOn" ELSE "offlineModeOff", SchedulerRunning(offline))

\* KGet::createTransfers, of a new download (start as the caller says) or of an
\* element of a transfer list (with a policy, perhaps finished)
Add(j, q, s, p, start) ==
    /\ j \notin alive /\ q \in ToSet(queues)
    /\ s \in {"Stopped", "Finished"} /\ p \in Policies
    /\ start => s = "Stopped" /\ p = "None"
    /\ Handle("add", <<SetStatusTo(j, s), SetPolicy(j, p),
                       [op |-> "append", job |-> j, queue |-> q]>>
                     \o (IF start THEN <<OnJob("handlerStart", j)>> ELSE <<>>))
    /\ alive' = alive \cup {j}
    /\ jobQueue' = [jobQueue EXCEPT ![j] = q]
    /\ owner' = [owner EXCEPT ![j] = q]
    /\ complete' = [complete EXCEPT ![j] = s = "Finished"]
    /\ UNCHANGED <<worker, speed, moveVars, retry, statJobs, statusVars, policy, queueVars, schedVars>>

Delete(j) == j \in alive /\ Event("delete", <<OnJob("remove", j), OnJob("destroy", j)>>)

\* drag and drop in the transfer list
Move(j, q, after) ==
    /\ j \in alive /\ q \in ToSet(queues) /\ after \in Listed(q) \cup {NoJob}
    /\ Event(IF q = jobQueue[j] THEN "move" ELSE "moveToGroup", <<MoveTransfer(j, q, after)>>)

AddGroup(q) ==
    /\ q \notin ToSet(queues)
    /\ Handle("addGroup", <<>>)
    /\ queues' = Append(queues, q)
    /\ qstatus' = [qstatus EXCEPT ![q] = "Running"]
    /\ UNCHANGED <<pluginVars, statusVars, jobVars, jobs, schedVars>>

\* The user interface never deletes the last group.
DelGroup(q) ==
    /\ q \in ToSet(queues) /\ Len(queues) > 1
    /\ Handle("delGroup", <<OnQueue("update", q), OnQueue("delQueue", q)>>)
    /\ jobs' = [jobs EXCEPT ![q] = <<>>]
    /\ UNCHANGED <<pluginVars, statusVars, jobVars, qstatus, queues, schedVars>>

-----------------------------------------------------------------------------
(* Events: network, settings and the scheduler's timer.                    *)

Network(up) ==
    /\ connected # up
    /\ connected' = up
    /\ timer' = up
    /\ Handle("network", ForQueues(IF up THEN "update" ELSE "stopJobs"))
    /\ UNCHANGED <<pluginVars, status, errorType, jobVars, queueVars, failures, suspended, limit>>

SettingsChanged(n) ==
    /\ limit # n
    /\ limit' = n
    /\ Handle("settings", ForQueues("update"))
    /\ UNCHANGED <<pluginVars, statusVars, jobVars, queueVars, failures, suspended, connected>>

\* Without ShouldUpdate the tick does nothing.
TimerEvent ==
    /\ timer /\ ShouldUpdate
    /\ Event("timer", ForQueues("checkJobs"))

-----------------------------------------------------------------------------
(* Events: the worker of a TransferKio.                                    *)

\* slotTotalSize and slotProcessedSize
Data(j) ==
    /\ j \in KioJobs /\ worker[j] /\ status[j] # "Running"
    /\ Event("data", <<SetStatusTo(j, "Running")>>)

\* slotSpeed of both plug-ins
SetSpeed(j, b) == [op |-> "setSpeed", job |-> j, working |-> b]
Speed(j, b) ==
    /\ worker[j]
    /\ \/ /\ j \in KioJobs
          /\ speed[j] # b \/ status[j] # "Running"
          /\ Event("speed", <<SetStatusTo(j, IF status[j] # "Running" /\ moving[j]
                                             THEN "Moving" ELSE "Running"), SetSpeed(j, b)>>)
       \/ /\ j \in MmsJobs
          /\ speed[j] # (b /\ status[j] = "Running")
          /\ Event("speed", <<SetSpeed(j, b /\ status[j] = "Running")>>)

\* slotResult, when the copy job ends by itself
Result(j) ==
    /\ j \in KioJobs /\ worker[j]
    /\ complete' = [complete EXCEPT ![j] = TRUE]
    /\ speed' = [speed EXCEPT ![j] = FALSE]
    /\ Handle("result", <<SetStatusTo(j, "Finished"), OnJob("slotResultEnd", j)>>)
    /\ UNCHANGED <<worker, moveVars, retry, statJobs, statusVars, jobVars, queueVars, schedVars>>

Error(j) ==
    /\ j \in KioJobs /\ worker[j]
    /\ Event("error", <<SetStatusTo(j, "Aborted"), OnJob("slotResultEnd", j)>>)

\* slotStatResult
StatResult(j) ==
    /\ statJobs[j] > 0
    /\ statJobs' = [statJobs EXCEPT ![j] = @ - 1]
    /\ Handle("statResult", <<SetStatusTo(j, "Finished")>>)
    /\ UNCHANGED <<worker, speed, moveVars, retry, complete, statusVars, jobVars, queueVars, schedVars>>

\* setNewDestination, when there is a .part file to move: it does not ask whether
\* the file is being moved already
NewDestination(j) ==
    /\ j \in alive \cap KioJobs /\ moves[j] < MaxMoves /\ ~complete[j]
    /\ moving' = [moving EXCEPT ![j] = TRUE]
    /\ moves' = [moves EXCEPT ![j] = @ + 1]
    /\ overlapped' = [overlapped EXCEPT ![j] = @ \/ moves[j] > 0]
    /\ Handle("newDestination", <<OnJob("stop", j), SetStatusTo(j, "Moving")>>)
    /\ UNCHANGED <<worker, speed, retry, complete, statJobs, statusVars, jobVars, queueVars, schedVars>>

\* newDestResult, of any of the moves
NewDestResult(j) ==
    /\ moves[j] > 0
    /\ moving' = [moving EXCEPT ![j] = FALSE]
    /\ moves' = [moves EXCEPT ![j] = @ - 1]
    /\ overlapped' = [overlapped EXCEPT ![j] = @ /\ moves[j] > 1]
    /\ Handle("newDestResult", <<OnJob("start", j)>>)
    /\ UNCHANGED <<worker, speed, retry, complete, statJobs, statusVars, jobVars, queueVars, schedVars>>

\* repair, once the verifier found the finished file wrong
Repair(j) ==
    /\ j \in alive \cap KioJobs /\ status[j] = "Finished"
    /\ worker' = [worker EXCEPT ![j] = FALSE]
    /\ complete' = [complete EXCEPT ![j] = FALSE]
    /\ Handle("repair", <<OnJob("start", j)>>)
    /\ UNCHANGED <<speed, moveVars, retry, statJobs, statusVars, jobVars, queueVars, schedVars>>

-----------------------------------------------------------------------------
(* Events: the download thread of a MmsTransfer.                           *)

\* slotBrokenUrl: setError sets the status first, its type afterwards
BrokenUrl(j) ==
    /\ j \in MmsJobs /\ worker[j]
    /\ Event("brokenUrl", <<SetStatusTo(j, "Aborted"),
                            [op |-> "setErrorType", job |-> j, type |-> "NotSolveable"]>>)

\* slotConnectionsErrors (m_retryDownload is assigned after stop(), which does not
\* read it; no event comes in between)
ConnectionsErrors(j) ==
    /\ j \in MmsJobs /\ worker[j]
    /\ retry' = [retry EXCEPT ![j] = TRUE]
    /\ Handle("connectionsErrors", <<OnJob("stop", j)>>)
    /\ UNCHANGED <<worker, speed, moveVars, complete, statJobs, statusVars, jobVars, queueVars, schedVars>>

\* slotResult, with all of the file downloaded or not
MmsResult(j, all) ==
    /\ j \in MmsJobs /\ worker[j]
    /\ worker' = [worker EXCEPT ![j] = FALSE]
    /\ complete' = [complete EXCEPT ![j] = all]
    /\ speed' = [speed EXCEPT ![j] = @ /\ ~all]
    /\ retry' = [retry EXCEPT ![j] = FALSE]
    /\ Handle("mmsResult", (IF all THEN <<SetStatusTo(j, "Finished")>> ELSE <<>>)
                           \o (IF retry[j] THEN <<OnJob("start", j)>> ELSE <<>>))
    /\ UNCHANGED <<moveVars, statJobs, statusVars, jobVars, queueVars, schedVars>>

-----------------------------------------------------------------------------
(* The system starts while KGet::load adds the restored transfers.         *)

RestoredJobs == {j \in Jobs : \E q \in Queues : j \in ToSet(Restored[q])}
GroupOf(j) == CHOOSE q \in Queues : j \in ToSet(Restored[q]) \/ j \notin RestoredJobs

Init ==
    /\ alive = RestoredJobs
    /\ status = [j \in Jobs |-> "Stopped"]
    /\ policy \in [Jobs -> SavedPolicies \cup {"None"}]
    /\ \A j \in RestoredJobs : policy[j] \in SavedPolicies
    /\ \A j \in Jobs \ RestoredJobs : policy[j] = "None"
    /\ errorType = [j \in Jobs |-> "AutomaticRetry"]
    /\ jobQueue = [j \in Jobs |-> GroupOf(j)]
    /\ owner = [j \in Jobs |-> GroupOf(j)]
    /\ worker = [j \in Jobs |-> FALSE]
    /\ speed = [j \in Jobs |-> FALSE]
    /\ moving = [j \in Jobs |-> FALSE]
    /\ moves = [j \in Jobs |-> 0]
    /\ overlapped = [j \in Jobs |-> FALSE]
    /\ retry = [j \in Jobs |-> FALSE]
    /\ complete = [j \in Jobs |-> FALSE]
    /\ statJobs = [j \in Jobs |-> 0]
    /\ jobs = Restored
    /\ qstatus \in [Queues -> QueueStatus]
    /\ queues \in UNION {[1..n -> Queues] : n \in 1..Cardinality(Queues)}
    /\ IsInjective(queues)
    /\ \A q \in Queues : Restored[q] # <<>> => q \in ToSet(queues)
    /\ failures = [j \in Jobs |-> NoFailure]
    /\ suspended = FALSE
    /\ connected = TRUE
    /\ timer = FALSE
    /\ limit \in ConnectionLimits
    /\ handler = "load"
    /\ calls = ForQueues("update")
    /\ updating = NoQueue
    /\ pos = 0 /\ runningJobs = 0 /\ waitingJobs = 0

UserEvent ==
    \/ \E j \in Jobs : UserStart(j) \/ UserStop(j) \/ Delete(j) \/ NewDestination(j) \/ Repair(j)
    \/ \E s \in Selections("handlerStart", "queueStart") : StartSelected(s)
    \/ \E s \in Selections("handlerStop", "queueStop") : StopSelected(s)
    \/ \E q \in Queues : GroupStart(q) \/ GroupStop(q) \/ AddGroup(q) \/ DelGroup(q)
    \/ StartAll \/ StopAll
    \/ \E b \in BOOLEAN : SetOfflineMode(b)
    \/ \E j \in Jobs, q \in Queues, s \in Statuses, p \in Policies, b \in BOOLEAN :
           Add(j, q, s, p, b)
    \/ \E j \in Jobs, q \in Queues, after \in Jobs \cup {NoJob} : Move(j, q, after)
    \/ \E n \in ConnectionLimits : SettingsChanged(n)

WorkerEvent(j) ==
    \/ Data(j) \/ Result(j) \/ Error(j) \/ StatResult(j) \/ NewDestResult(j)
    \/ BrokenUrl(j) \/ ConnectionsErrors(j)
    \/ \E b \in BOOLEAN : Speed(j, b) \/ MmsResult(j, b)

Next ==
    \/ UpdateLoop
    \/ HandlerCall
    \/ UserEvent
    \/ \E j \in Jobs : WorkerEvent(j)
    \/ \E b \in BOOLEAN : Network(b)
    \/ TimerEvent

Spec == Init /\ [][Next]_vars

\* A handler runs to its end, and a timer that is due again and again is served
\* however many other events there are: nothing else is certain.
Fairness == WF_vars(UpdateLoop) /\ WF_vars(HandlerCall) /\ SF_vars(TimerEvent)

FairSpec == Spec /\ Fairness

-----------------------------------------------------------------------------
(* Properties.                                                             *)

PluginTypeOK ==
    /\ worker \in [Jobs -> BOOLEAN] /\ speed \in [Jobs -> BOOLEAN]
    /\ moving \in [Jobs -> BOOLEAN] /\ retry \in [Jobs -> BOOLEAN]
    /\ moves \in [Jobs -> Nat] /\ overlapped \in [Jobs -> BOOLEAN]
    /\ complete \in [Jobs -> BOOLEAN]
    /\ statJobs \in [Jobs -> Nat]

JobTypeOK ==
    /\ alive \subseteq Jobs
    /\ status \in [Jobs -> Statuses]
    /\ policy \in [Jobs -> Policies]
    /\ errorType \in [Jobs -> ErrorTypes]
    /\ jobQueue \in [Jobs -> Queues] /\ owner \in [Jobs -> Queues]

QueueTypeOK ==
    /\ jobs \in [Queues -> Seq(Jobs)]
    /\ qstatus \in [Queues -> QueueStatus]
    /\ queues \in Seq(Queues)

SchedTypeOK ==
    /\ failures \in [Jobs -> JobFailures]
    /\ suspended \in BOOLEAN /\ connected \in BOOLEAN /\ timer \in BOOLEAN
    /\ limit \in ConnectionLimits

LoopTypeOK ==
    /\ updating \in Queues \cup {NoQueue}
    /\ pos \in Nat /\ runningJobs \in Nat /\ waitingJobs \in Nat
    /\ updating = NoQueue => pos = 0 /\ runningJobs = 0 /\ waitingJobs = 0
    /\ updating # NoQueue => /\ pos \in 1..(Len(jobs[updating]) + 1)
                             /\ runningJobs + waitingJobs < pos

\* Types of the variables; and updateQueue's loop stays within its queue, its
\* counters starting from zero and counting no job twice.
TypeOK ==
    /\ PluginTypeOK /\ JobTypeOK /\ QueueTypeOK /\ SchedTypeOK
    /\ calls \in Seq(Calls)
    /\ handler \in EventNames \cup {"none", "load"}
    /\ LoopTypeOK

Idle == handler = "none"

\* The counters updateQueue has when it comes to position i, stated without the
\* loop: the jobs before i that are entitled to run and are not failing, and
\* those that are entitled to run and are.
Ahead(q, i, running) ==
    Cardinality({k \in 1..(i - 1) : /\ ShouldBeRunning(jobs[q][k])
                                    /\ CountsAsRunning(failures[jobs[q][k]]) = running})
HasSlot(q, i) ==
    /\ Ahead(q, i, TRUE) < MaxSimultaneousJobs
    /\ Ahead(q, i, TRUE) + Ahead(q, i, FALSE) < 2 * MaxSimultaneousJobs

\* The slots of q are given to its jobs in list order: a job runs exactly when
\* it is entitled to and a slot is left (unless its plug-in refuses to start).
Allocated(q) ==
    \A i \in DOMAIN jobs[q] :
        LET j == jobs[q][i]
            wanted == ShouldBeRunning(j) /\ HasSlot(q, i)
        IN /\ wanted => IsActive(j) \/ ~CanStart(j)
           /\ IsActive(j) => wanted

\* Whatever state updateQueue finds, its loop ends with the queue's slots
\* allocated by list order (scheduler.cpp, the loop and its comment).
UpdateAllocates ==
    updating # NoQueue /\ pos > Len(jobs[updating]) => Allocated(updating)

\* No trigger is missing: whenever KGet waits in the event loop and may update,
\* an update of any group would change nothing.
AllocatedWhenIdle ==
    Idle /\ ShouldUpdate => \A q \in ToSet(queues) : Allocated(q)

\* A job is in at most one list, at one place.
JobsListedOnce ==
    \A q1, q2 \in Queues : \A i \in DOMAIN jobs[q1], k \in DOMAIN jobs[q2] :
        jobs[q1][i] = jobs[q2][k] => q1 = q2 /\ i = k

\* "A transfer must always belong to a TransferGroup" (kget.cpp): in the event
\* loop, the groups list exactly the transfers that exist, each in its queue.
TransfersAreListed ==
    Idle => \A j \in Jobs :
        /\ j \in alive => jobQueue[j] \in ToSet(queues) /\ j \in Listed(jobQueue[j])
        /\ \A q \in Queues : j \in Listed(q) => j \in alive /\ jobQueue[j] = q

\* Without connection, or suspended, the scheduler starts nothing: a job comes
\* to run only through its plug-in's own events.
PluginEvents == {"newDestResult", "mmsResult", "repair", "data", "speed"}
NoStartWithoutUpdate ==
    [][~ShouldUpdate => \A j \in Jobs :
           status[j] # "Running" /\ status'[j] = "Running" => handler \in PluginEvents]_vars

\* A lost connection leaves no transfer running.
NetworkLossStopsAll ==
    [][handler = "network" /\ handler' = "none" /\ ~connected
           => \A j \in alive : status'[j] \notin {"Running", "Moving"}]_vars

\* MainWindow::slotStopAllDownload leaves no transfer running, and no update or
\* timer starts one again: none is entitled to run.
StopAllStopsAll ==
    [][handler = "stopAll" /\ handler' = "none"
           => \A j \in alive : status'[j] # "Running" /\ ~ShouldBeRunning(j)']_vars

\* Whatever stops everything leaves nothing running: the user, or a lost connection.
EverythingStops == StopAllStopsAll /\ NetworkLossStopsAll

\* As long as a transfer runs or waits for a retry, its failures are checked.
FailuresAreChecked ==
    Idle /\ connected /\ (\E j \in alive : status[j] \in {"Running", "Aborted"}) => timer

\* Nothing is forgotten in the event loop: neither an update nor the failure check
\* (Scheduler::updateQueue is triggered by each change that entitles a job).
IdleIsSettled == AllocatedWhenIdle /\ FailuresAreChecked

\* Every handler comes to its end: no chain of status, policy and queue
\* notifications goes on for ever.
HandlersReturn == handler # "none" ~> handler = "none"

\* Stalled jobs that run do not keep the others from their turn: a job that is
\* entitled to run but finds all slots taken by them is started before long.
\* (They still count: at most twice maxSimultaneousJobs run or wait.)
Starved(q, j) ==
    /\ j \in Listed(q) /\ status[j] = "Stopped" /\ ShouldBeRunning(j) /\ CanStart(j)
    /\ LET ahead == {k \in 1..(IndexOf(jobs[q], j) - 1) : ShouldBeRunning(jobs[q][k])} IN
       /\ Cardinality(ahead) < 2 * MaxSimultaneousJobs
       /\ \A k \in ahead : status[jobs[q][k]] = "Running" /\ ~speed[jobs[q][k]]
Unstarved(q, j) ==
    \/ status[j] = "Running" \/ ~ShouldBeRunning(j) \/ ~ShouldUpdate
    \/ \E k \in Listed(q) \ {j} : speed[k]
StalledJobsYield ==
    \A q \in Queues, j \in Jobs : Starved(q, j) /\ ShouldUpdate ~> Unstarved(q, j)

\* Jobs that recover from a stall may exceed the limit, but only until the next
\* tick: after it no queue has more jobs receiving data than maxSimultaneousJobs.
TickRestoresLimit ==
    [][handler = "timer" /\ handler' = "none" /\ ShouldUpdate
           => \A q \in ToSet(queues) :
                  Cardinality({j \in Listed(q) : status'[j] = "Running" /\ speed'[j]})
                  <= MaxSimultaneousJobs]_vars

\* TransferKio: a copy job lives only as long as its transfer is Running, through
\* every order of results, errors, stops, moves and restarts.  (Not for ftp: see
\* FinishedIsComplete.)
CopyJobOnlyWhileRunning ==
    Idle => \A j \in KioJobs \ FtpJobs : worker[j] => status[j] = "Running"

\* While the .part file of a transfer is moved, nothing downloads into it, unless a
\* second move was asked for meanwhile: then the end of the first clears m_movingFile
\* and starts the copy job while the other still moves the file (newDestResult).
NoDownloadWhileMoving ==
    Idle => \A j \in KioJobs \ FtpJobs : moves[j] > 0 /\ ~overlapped[j] => ~worker[j]

\* MmsTransfer: m_retryDownload is a promise that the ending thread's slotResult
\* keeps; it is never left over without a thread to end.
RetryHasThread == Idle => \A j \in MmsJobs : retry[j] => worker[j]

\* The plug-ins' workers fit their transfers: neither a copy job outlives Running or
\* writes a file that is moved, nor is a retry promised that no thread can keep.
WorkersFit == CopyJobOnlyWhileRunning /\ NoDownloadWhileMoving /\ RetryHasThread

\* job.h: Running means "the job is being executed".
RunningHasWorker ==
    Idle => \A j \in Jobs : status[j] = "Running" => worker[j]

\* job.h: Finished means "the job exited from its Running state successfully".
FinishedIsComplete ==
    Idle => \A j \in KioJobs : status[j] = "Finished" => complete[j]
=============================================================================
