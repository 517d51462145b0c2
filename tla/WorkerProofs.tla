----------------------------- MODULE WorkerProofs -----------------------------
(***************************************************************************)
(* The theorems about the transfers' workers and about the commands.       *)
(*                                                                         *)
(* The plug-ins' workers fit their transfers (WorkersFit): a copy job      *)
(* lives only while its transfer is Running and never writes a file that is*)
(* being moved, and a retry is promised only while a thread is left to keep*)
(* it.  This is about what a handler leaves behind, so the invariant says  *)
(* what the handler being run still has to repair.  It needs GroupsKept:   *)
(* otherwise updateQueue may start a transfer that was destroyed.          *)
(*                                                                         *)
(* Each transfer belongs to a group that lists it (TransfersAreListed) and *)
(* stopping everything stops everything (EverythingStops): what the user's *)
(* and the network's commands do to all transfers, they do by going        *)
(* through the groups' lists, so the second rests on the first.            *)
(*                                                                         *)
(* Nothing is forgotten in the event loop (IdleIsSettled): each change     *)
(* that entitles a transfer to run, or takes that from it, is followed by  *)
(* an update of its group before the handler ends, and while a transfer    *)
(* runs or waits its failures are checked.  Orderly names the events after *)
(* which the code does not update.                                         *)
(***************************************************************************)
EXTENDS SchedulerProofs

-----------------------------------------------------------------------------
(* The inductive invariant.                                                *)

\* The transfers that WorkersFit is about, apart from its promise of a retry.
Busy == KioJobs \ FtpJobs

\* Calls that leave no copy job without a Running transfer.
Plain ==
    {c \in Calls : /\ c.op \notin {"start", "slotResultEnd"}
                   /\ c.op = "setStatus" => c.job \notin Busy \/ c.status = "Running"}

\* Workers, moves and stat jobs belong to transfers that exist, and a promised
\* retry to a thread.
Owned ==
    \A j \in Jobs : /\ worker[j] \/ moving[j] => j \in alive
                    /\ retry[j] /\ j \in MmsJobs => worker[j]
                    /\ statJobs[j] # 0 => j \in FtpJobs

\* A copy job's transfer is Running, unless slotResult is about to forget the job,
\* and its file is not being moved, these transfers apart.
Steady(rest, but) ==
    \A j \in Busy : worker[j] => /\ status[j] = "Running" \/ rest = <<OnJob("slotResultEnd", j)>>
                                 /\ j \in but \/ ~moving[j]

\* What a handler does last, when it is not plain.
Ending(rest) ==
    \/ rest = <<>>
    \/ \E j \in alive : rest = <<OnJob("start", j)>>
    \/ \E j \in KioJobs : rest = <<OnJob("slotResultEnd", j)>>
    \/ \E j \in Busy : rest = <<SetStatusTo(j, "Moving")>> /\ moving[j]

\* slotResult and createTransfers begin with a change of status,
\* setNewDestination with a stop().
Beginning ==
    \/ /\ Steady(<<>>, {})
       /\ \E j \in Busy, s \in Statuses, more \in Seq(Calls) :
              /\ calls = <<SetStatusTo(j, s)>> \o more
              /\ more = <<OnJob("slotResultEnd", j)>> \/ (more \in Seq(Plain) /\ ~worker[j])
    \/ \E j \in Busy : /\ Steady(<<>>, {j}) /\ moving[j]
                       /\ calls = <<OnJob("stop", j), SetStatusTo(j, "Moving")>>

WorkCallsOK ==
    \/ \E above \in Seq(Plain), rest \in Seq(Calls) :
           calls = above \o rest /\ Ending(rest) /\ Steady(rest, {})
    \/ Beginning /\ updating = NoQueue

WInv == Owned /\ WorkCallsOK

\* Moves belong to transfers that exist, and the only one under way, when no second
\* was asked for, has m_movingFile set.
MovesOK ==
    \A j \in Jobs : moves[j] > 0 => /\ j \in alive
                                    /\ overlapped[j] \/ (moving[j] /\ moves[j] = 1)

-----------------------------------------------------------------------------
(* Lemmas about calls.                                                     *)

\* Lists of calls of certain operations belong to every set that has these.
LEMMA CallLists ==
    ASSUME IInv, NEW T, NEW ops, \A c \in Calls : c.op \in ops => c \in T
    PROVE  /\ \A op \in ops \cap JobOps : /\ \A j \in Jobs : OnJob(op, j) \in T
                                          /\ \A s \in Seq(Jobs) : ForJobs(op, s) \in Seq(T)
           /\ \A op \in ops \cap QueueOps : /\ \A q \in Queues : OnQueue(op, q) \in T
                                            /\ ForQueues(op) \in Seq(T)
           /\ "setPolicy" \in ops => \A j \in Jobs, p \in Policies : SetPolicy(j, p) \in T
           /\ "setStatus" \in ops => \A j \in Jobs, s \in Statuses : SetStatusTo(j, s) \in T
           /\ "setSuspended" \in ops => \A b \in BOOLEAN : SetSuspended(b) \in T
           /\ "setSpeed" \in ops => \A j \in Jobs, b \in BOOLEAN : SetSpeed(j, b) \in T
           /\ "moveTransfer" \in ops =>
                  \A j \in Jobs, q \in Queues, after \in Jobs \cup {NoJob} :
                      MoveTransfer(j, q, after) \in T
           /\ "insert" \in ops =>
                  \A j \in Jobs, q \in Queues, after \in Jobs \cup {NoJob} :
                      Insert(j, q, after) \in T
           /\ "append" \in ops => \A j \in Jobs, q \in Queues : AppendTo(j, q) \in T
           /\ "setJobQueue" \in ops => \A j \in Jobs, q \in Queues : AssignQueue(j, q) \in T
           /\ "resetPolicy" \in ops => \A j \in Jobs, q \in Queues :
                  [op |-> "resetPolicy", job |-> j, queue |-> q] \in T
           /\ "setErrorType" \in ops => \A j \in Jobs, t \in ErrorTypes :
                  [op |-> "setErrorType", job |-> j, type |-> t] \in T
<1>1. ASSUME NEW op \in ops \cap JobOps, NEW j \in Jobs PROVE OnJob(op, j) \in T
  <2>1. OnJob(op, j) \in Calls /\ OnJob(op, j).op = op
    BY DEF OnJob, Calls
  <2> QED
    BY <2>1
<1>2. ASSUME NEW op \in ops \cap QueueOps, NEW q \in Queues PROVE OnQueue(op, q) \in T
  <2>1. OnQueue(op, q) \in Calls /\ OnQueue(op, q).op = op
    BY DEF OnQueue, Calls
  <2> QED
    BY <2>1
<1>3. ASSUME NEW op \in ops \cap JobOps, NEW s \in Seq(Jobs) PROVE ForJobs(op, s) \in Seq(T)
  <2>1. \A i \in 1..Len(s) : OnJob(op, s[i]) \in T
    BY <1>1, LenProperties
  <2> QED
    BY <2>1, LenProperties DEF ForJobs
<1>4. ASSUME NEW op \in ops \cap QueueOps PROVE ForQueues(op) \in Seq(T)
  <2>1. queues \in Seq(Queues)
    BY DEF IInv, DataOK, QueueTypeOK
  <2>2. \A i \in 1..Len(queues) : OnQueue(op, queues[i]) \in T
    BY <1>2, <2>1, LenProperties
  <2> QED
    BY <2>1, <2>2, LenProperties DEF ForQueues
<1>5. /\ \A j \in Jobs, p \in Policies :
             SetPolicy(j, p) \in Calls /\ SetPolicy(j, p).op = "setPolicy"
      /\ \A j \in Jobs, s \in Statuses :
             SetStatusTo(j, s) \in Calls /\ SetStatusTo(j, s).op = "setStatus"
      /\ \A b \in BOOLEAN : SetSuspended(b) \in Calls /\ SetSuspended(b).op = "setSuspended"
      /\ \A j \in Jobs, b \in BOOLEAN : SetSpeed(j, b) \in Calls /\ SetSpeed(j, b).op = "setSpeed"
  BY DEF SetPolicy, SetStatusTo, SetSuspended, SetSpeed, Calls
<1>6. ASSUME NEW j \in Jobs, NEW q \in Queues
      PROVE  /\ \A after \in Jobs \cup {NoJob} :
                    /\ MoveTransfer(j, q, after) \in Calls
                    /\ MoveTransfer(j, q, after).op = "moveTransfer"
                    /\ Insert(j, q, after) \in Calls /\ Insert(j, q, after).op = "insert"
             /\ AppendTo(j, q) \in Calls /\ AppendTo(j, q).op = "append"
             /\ AssignQueue(j, q) \in Calls /\ AssignQueue(j, q).op = "setJobQueue"
             /\ [op |-> "resetPolicy", job |-> j, queue |-> q] \in Calls
  BY DEF MoveTransfer, Insert, AppendTo, AssignQueue, Calls
<1>7. \A j \in Jobs, t \in ErrorTypes : [op |-> "setErrorType", job |-> j, type |-> t] \in Calls
  BY DEF Calls
<1>8. /\ "setPolicy" \in ops => \A j \in Jobs, p \in Policies : SetPolicy(j, p) \in T
      /\ "setStatus" \in ops => \A j \in Jobs, s \in Statuses : SetStatusTo(j, s) \in T
      /\ "setSuspended" \in ops => \A b \in BOOLEAN : SetSuspended(b) \in T
      /\ "setSpeed" \in ops => \A j \in Jobs, b \in BOOLEAN : SetSpeed(j, b) \in T
  BY <1>5
<1>9. ASSUME NEW j \in Jobs, NEW q \in Queues
      PROVE  /\ \A after \in Jobs \cup {NoJob} :
                    /\ "moveTransfer" \in ops => MoveTransfer(j, q, after) \in T
                    /\ "insert" \in ops => Insert(j, q, after) \in T
             /\ "append" \in ops => AppendTo(j, q) \in T
             /\ "setJobQueue" \in ops => AssignQueue(j, q) \in T
             /\ "resetPolicy" \in ops => [op |-> "resetPolicy", job |-> j, queue |-> q] \in T
  BY <1>6
<1>10. "setErrorType" \in ops => \A j \in Jobs, t \in ErrorTypes :
           [op |-> "setErrorType", job |-> j, type |-> t] \in T
  BY <1>7
<1> QED
  BY <1>1, <1>2, <1>3, <1>4, <1>8, <1>9, <1>10

\* The calls that calls make: these, and those of a start and of a move.
NestedOps == {"update", "setPolicy", "handlerStop", "stop", "resetPolicy", "stopJobs",
              "failureCheck"}

\* A handler's next call.
LEMMA CallHead ==
    ASSUME IInv, HandlerCall
    PROVE  calls # <<>> /\ Head(calls) \in Calls /\ Tail(calls) \in Seq(Calls) /\ updating = NoQueue
<1>1. calls # <<>> /\ updating = NoQueue
  BY DEF HandlerCall, CallUpdate, CallStart, CallStop, CallSetStatus, CallSetErrorType,
         CallSetPolicy, CallSlotResultEnd, CallSetSpeed, CallHandlerStart, CallHandlerStop,
         CallFailureCheck, CallQueueStart, CallQueueStop, CallResetPolicy, CallForJobs,
         CallAppend, CallRemove, CallInsert, CallMoveTransfer, CallSetJobQueue, CallDestroy,
         CallDelQueue, CallSetSuspended, Calling
<1> QED
  BY <1>1, HeadTailProperties DEF IInv, StateOK

\* Whatever set has such calls has all the calls that a call makes.
LEMMA NestedCalls ==
    ASSUME IInv, NEW T, \A c \in Calls : c.op \in NestedOps => c \in T, HandlerCall,
           Head(calls).op = "handlerStart" =>
               MoveTransfer(Head(calls).job, jobQueue[Head(calls).job], NoJob) \in T,
           Head(calls).op = "moveTransfer" /\ Head(calls).queue # jobQueue[Head(calls).job] =>
               /\ Insert(Head(calls).job, Head(calls).queue, Head(calls).after) \in T
               /\ AssignQueue(Head(calls).job, Head(calls).queue) \in T
    PROVE  \E nested \in Seq(T) : calls' = nested \o Tail(calls)
<1> DEFINE c == Head(calls)
<1>0. /\ calls # <<>> /\ calls \in Seq(Calls) /\ c \in Calls /\ Tail(calls) \in Seq(Calls)
      /\ jobQueue \in [Jobs -> Queues] /\ jobs \in [Queues -> Seq(Jobs)]
  BY CallHead DEF IInv, StateOK, DataOK, JobTypeOK, QueueTypeOK
<1>1. /\ \A nested : Call(nested) => calls' = nested \o Tail(calls)
      /\ <<>> \o Tail(calls) = Tail(calls)
  BY <1>0, ConcatEmptySeq DEF Call, Return
<1>2. /\ \A q \in Queues : OnQueue("update", q) \in T /\ OnQueue("stopJobs", q) \in T
      /\ \A j \in Jobs : OnJob("handlerStop", j) \in T /\ OnJob("stop", j) \in T
      /\ \A op \in {"stop", "handlerStop", "failureCheck"}, s \in Seq(Jobs) :
             ForJobs(op, s) \in Seq(T)
      /\ ForQueues("update") \in Seq(T)
  BY CallLists DEF NestedOps, JobOps, QueueOps
<1>3. /\ \A j \in Jobs, p \in Policies : SetPolicy(j, p) \in T
      /\ \A j \in Jobs, q \in Queues : [op |-> "resetPolicy", job |-> j, queue |-> q] \in T
  BY CallLists DEF NestedOps
<1>4. <<>> \in Seq(T) /\ \A a \in T : <<a>> \in Seq(T)
  BY ShortSeq
<1>5. CASE \/ CallUpdate \/ CallStart \/ CallSetErrorType \/ CallSlotResultEnd \/ CallSetSpeed
           \/ CallSetJobQueue \/ CallDestroy \/ CallDelQueue
  <2>1. calls' = <<>> \o Tail(calls)
    BY <1>1, <1>5 DEF CallUpdate, CallStart, CallSetErrorType, CallSlotResultEnd, CallSetSpeed,
                      CallSetJobQueue, CallDestroy, CallDelQueue, BeginLoop
  <2> QED
    BY <1>4, <2>1
<1>6. CASE CallStop \/ CallSetStatus \/ CallSetPolicy
  <2>1. c.job \in Jobs
    BY <1>0, <1>6, CallFields DEF CallStop, CallSetStatus, CallSetPolicy, Calling, QueueOps
  <2>2. <<OnQueue("update", jobQueue[c.job])>> \in Seq(T)
    BY <1>0, <1>2, <1>4, <2>1
  <2>3. Call(<<OnQueue("update", jobQueue[c.job])>>) \/ Call(<<>>)
    BY <1>6 DEF CallStop, CallSetStatus, CallSetPolicy, AfterStop, AfterStatus
  <2> QED
    BY <1>1, <1>4, <2>2, <2>3
<1>7. CASE CallHandlerStart
  <2> DEFINE j == c.job
             restart == <<SetPolicy(j, "None"), MoveTransfer(j, jobQueue[j], NoJob)>>
  <2>1. j \in Jobs /\ c.op = "handlerStart"
    BY <1>0, <1>7, CallFields DEF CallHandlerStart, Calling, QueueOps
  <2>2. SetPolicy(j, "None") \in T /\ SetPolicy(j, "Start") \in T /\ MoveTransfer(j, jobQueue[j], NoJob) \in T
    BY <1>3, <2>1 DEF Policies
  <2>3. restart \in Seq(T) /\ <<SetPolicy(j, "Start")>> \in Seq(T)
    BY <2>2, ShortSeq
  <2>4. Call(restart) \/ Call(<<SetPolicy(j, "Start")>>)
    BY <1>7 DEF CallHandlerStart, Delegate
  <2> HIDE DEF restart
  <2> QED
    BY <1>1, <2>3, <2>4
<1>8. CASE CallHandlerStop \/ CallFailureCheck
  <2>1. c.job \in Jobs /\ jobQueue[c.job] \in Queues
    BY <1>0, <1>8, CallFields DEF CallHandlerStop, CallFailureCheck, Calling, QueueOps
  <2> DEFINE j == c.job
  <2>2. \A p \in Policies : <<SetPolicy(j, p)>> \in Seq(T)
    BY <1>3, <1>4, <2>1
  <2>3. /\ <<OnJob("handlerStop", j)>> \in Seq(T) /\ <<OnJob("stop", j)>> \in Seq(T)
        /\ <<OnQueue("update", jobQueue[j])>> \in Seq(T)
    BY <1>2, <1>4, <2>1
  <2>4. \/ \E p \in Policies : Call(<<SetPolicy(j, p)>>)
        \/ Call(<<>>) \/ Call(<<OnJob("handlerStop", j)>>)
        \/ Call(<<OnJob("stop", j)>>) \/ Call(<<OnQueue("update", jobQueue[j])>>)
    BY <1>8 DEF CallHandlerStop, CallFailureCheck, Delegate, Policies
  <2> HIDE DEF j
  <2> QED
    BY <1>1, <1>4, <2>2, <2>3, <2>4
<1>9. CASE CallQueueStart \/ CallQueueStop
  <2>1. PICK q \in Queues : q = c.queue
    BY <1>0, <1>9, CallFields DEF CallQueueStart, CallQueueStop, Calling, QueueOps
  <2>2. jobs[q] \in Seq(Jobs)
    BY <1>0
  <2> DEFINE resets == [i \in DOMAIN jobs[q] |->
                           [op |-> "resetPolicy", job |-> jobs[q][i], queue |-> q]]
  <2>3. resets \in Seq(T)
    <3>1. \A i \in 1..Len(jobs[q]) :
              [op |-> "resetPolicy", job |-> jobs[q][i], queue |-> q] \in T
      BY <1>3, <2>2, LenProperties
    <3> QED
      BY <2>2, <3>1, LenProperties
  <2>4. PICK then \in {"update", "stopJobs"} : Call(resets \o <<OnQueue(then, q)>>)
    BY <1>9, <2>1 DEF CallQueueStart, CallQueueStop, QueueStatusChange
  <2>5. <<OnQueue(then, q)>> \in Seq(T)
    BY <1>2, <1>4, <2>1
  <2> HIDE DEF resets
  <2> QED
    BY <1>1, <2>3, <2>4, <2>5, ConcatProperties
<1>10. CASE CallResetPolicy
  <2>1. c.job \in Jobs
    BY <1>0, <1>10, CallFields DEF CallResetPolicy, Calling, QueueOps
  <2>2. <<SetPolicy(c.job, "None")>> \in Seq(T)
    BY <1>3, <1>4, <2>1 DEF Policies
  <2>3. Call(<<SetPolicy(c.job, "None")>>) \/ Call(<<>>)
    BY <1>10 DEF CallResetPolicy, Delegate
  <2> QED
    BY <1>1, <1>4, <2>2, <2>3
<1>11. CASE CallForJobs \/ CallSetSuspended
  <2>1. CASE CallForJobs
    <3>1. c.queue \in Queues
      BY <1>0, <2>1, CallFields DEF CallForJobs, Calling, QueueOps
    <3>2. PICK op \in {"stop", "handlerStop", "failureCheck"} : Call(ForJobs(op, jobs[c.queue]))
      BY <2>1 DEF CallForJobs, Delegate
    <3>3. ForJobs(op, jobs[c.queue]) \in Seq(T)
      BY <1>0, <1>2, <3>1
    <3> QED
      BY <1>1, <3>2, <3>3
  <2>2. CASE CallSetSuspended
    BY <1>1, <1>2, <1>4, <2>2 DEF CallSetSuspended
  <2> QED
    BY <1>11, <2>1, <2>2
<1>12. CASE CallAppend \/ CallRemove \/ CallInsert
  <2>1. /\ c.op = "remove" => c.job \in Jobs
        /\ c.op \in {"append", "insert"} => c.queue \in Queues
    BY <1>0, CallFields DEF QueueOps
  <2>2. PICK q \in Queues : Call(<<OnQueue("update", q)>>)
    BY <1>0, <1>12, <2>1 DEF CallAppend, CallRemove, CallInsert, Calling
  <2> QED
    BY <1>1, <1>2, <1>4, <2>2
<1>13. CASE CallMoveTransfer
  <2>1. /\ c.op = "moveTransfer" /\ c.job \in Jobs /\ c.queue \in Queues
        /\ jobQueue[c.job] \in Queues
    BY <1>0, <1>13, CallFields DEF CallMoveTransfer, Calling, QueueOps
  <2> DEFINE moved == <<OnQueue("update", jobQueue[c.job]), Insert(c.job, c.queue, c.after),
                        AssignQueue(c.job, c.queue)>>
  <2>2. /\ c.queue # jobQueue[c.job] => moved \in Seq(T)
        /\ <<OnQueue("update", c.queue)>> \in Seq(T)
    BY <1>2, <2>1, ShortSeq
  <2>3. (c.queue # jobQueue[c.job] /\ Call(moved)) \/ Call(<<OnQueue("update", c.queue)>>) \/ Call(<<>>)
    BY <1>13 DEF CallMoveTransfer, Delegate, Insert, AssignQueue
  <2> HIDE DEF moved
  <2> QED
    BY <1>1, <1>4, <2>2, <2>3
<1> QED
  BY <1>5, <1>6, <1>7, <1>8, <1>9, <1>10, <1>11, <1>12, <1>13 DEF HandlerCall

\* The calls with which the user, the network, the settings and the timer begin.
CommandOps == {"handlerStart", "handlerStop", "queueStart", "queueStop", "setSuspended",
               "stopHandlers", "remove", "destroy", "update", "delQueue", "stopJobs",
               "checkJobs"}

CommandEvent ==
    \/ \E j \in Jobs : UserStart(j) \/ UserStop(j) \/ Delete(j)
    \/ \E s \in Selections("handlerStart", "queueStart") : StartSelected(s)
    \/ \E s \in Selections("handlerStop", "queueStop") : StopSelected(s)
    \/ \E q \in Queues : GroupStart(q) \/ GroupStop(q) \/ AddGroup(q) \/ DelGroup(q)
    \/ StartAll \/ StopAll
    \/ \E b \in BOOLEAN : SetOfflineMode(b)
    \/ \E j \in Jobs, q \in Queues, after \in Jobs \cup {NoJob} : Move(j, q, after)
    \/ \E n \in ConnectionLimits : SettingsChanged(n)
    \/ \E b \in BOOLEAN : Network(b)
    \/ TimerEvent

\* Whatever set has such calls, and those of the moves, has what a command calls.
LEMMA CommandCalls ==
    ASSUME IInv, NEW T, \A c \in Calls : c.op \in CommandOps => c \in T, CommandEvent,
           \A j \in alive, q \in ToSet(queues), after \in Jobs \cup {NoJob} :
               q = jobQueue[j] \/ "moveToGroup" \in Events => MoveTransfer(j, q, after) \in T
    PROVE  /\ \E event \in Events, todo \in Seq(T) : Handle(event, todo)
           /\ UNCHANGED <<pluginVars, status, errorType, alive, policy, jobQueue, owner>>
<1>1. /\ \A j \in Jobs : /\ OnJob("handlerStart", j) \in T /\ OnJob("handlerStop", j) \in T
                         /\ OnJob("remove", j) \in T /\ OnJob("destroy", j) \in T
      /\ \A op \in {"handlerStart", "handlerStop"}, s \in Seq(Jobs) : ForJobs(op, s) \in Seq(T)
      /\ \A q \in Queues : /\ OnQueue("queueStart", q) \in T /\ OnQueue("queueStop", q) \in T
                           /\ OnQueue("update", q) \in T /\ OnQueue("delQueue", q) \in T
      /\ \A op \in {"queueStart", "queueStop", "stopHandlers", "update", "stopJobs", "checkJobs"} :
             ForQueues(op) \in Seq(T)
  BY CallLists DEF CommandOps, JobOps, QueueOps
<1>2. \A b \in BOOLEAN : SetSuspended(b) \in T
  BY CallLists DEF CommandOps
<1>3. /\ alive \subseteq Jobs /\ jobs \in [Queues -> Seq(Jobs)] /\ ToSet(queues) \subseteq Queues
  <2>1. queues \in Seq(Queues)
    BY DEF IInv, DataOK, QueueTypeOK
  <2> QED
    BY <2>1, LenProperties DEF IInv, DataOK, JobTypeOK, QueueTypeOK, ToSet
<1>4. <<>> \in Seq(T) /\ (\A a \in T : <<a>> \in Seq(T)) /\ (\A a, b \in T : <<a, b>> \in Seq(T))
  BY ShortSeq
<1>5. ASSUME NEW op \in {"handlerStart", "handlerStop"}, NEW queueOp \in {"queueStart", "queueStop"},
             NEW s \in Selections(op, queueOp)
      PROVE  <<SetSuspended(TRUE)>> \o s \o <<SetSuspended(FALSE)>> \in Seq(T)
  <2>1. s \in Seq(T)
    <3>1. CASE \E j \in alive : s = <<OnJob(op, j)>>
      BY <1>1, <1>3, <1>4, <3>1
    <3>2. CASE \E q \in ToSet(queues) : s = ForJobs(op, jobs[q])
      BY <1>1, <1>3, <3>2
    <3>3. CASE \E q \in ToSet(queues) : s = <<OnQueue(queueOp, q)>>
      BY <1>1, <1>3, <1>4, <3>3
    <3> QED
      BY <3>1, <3>2, <3>3 DEF Selections
  <2>2. <<SetSuspended(TRUE)>> \in Seq(T) /\ <<SetSuspended(FALSE)>> \in Seq(T)
    BY <1>2, <1>4
  <2> QED
    BY <2>1, <2>2, ConcatProperties
<1>6. /\ \A b \in BOOLEAN : SchedulerRunning(b) \in Seq(T)
      /\ SchedulerRunning(FALSE) \o ForQueues("stopHandlers") \in Seq(T)
  <2>1. \A b \in BOOLEAN : SchedulerRunning(b) \in Seq(T)
    BY <1>1, <1>4, ConcatProperties DEF SchedulerRunning
  <2> QED
    BY <1>1, <2>1, ConcatProperties
<1>7. /\ \A j \in Jobs, op \in {"handlerStart", "handlerStop"} : <<OnJob(op, j)>> \in Seq(T)
      /\ \A j \in Jobs : <<OnJob("remove", j), OnJob("destroy", j)>> \in Seq(T)
      /\ \A q \in Queues : /\ <<OnQueue("queueStart", q)>> \in Seq(T)
                           /\ <<OnQueue("queueStop", q)>> \in Seq(T)
                           /\ <<OnQueue("update", q), OnQueue("delQueue", q)>> \in Seq(T)
      /\ \A j \in alive, q \in ToSet(queues), after \in Jobs \cup {NoJob} :
             q = jobQueue[j] \/ "moveToGroup" \in Events => <<MoveTransfer(j, q, after)>> \in Seq(T)
  BY <1>1, <1>4
<1>8. \E event \in Events, todo \in Seq(T) : Handle(event, todo)
  <2>1. CASE \E j \in Jobs : UserStart(j) \/ UserStop(j) \/ Delete(j)
    BY <1>7, <2>1 DEF UserStart, UserStop, Delete, Event, Handle
  <2>2. CASE \/ \E s \in Selections("handlerStart", "queueStart") : StartSelected(s)
             \/ \E s \in Selections("handlerStop", "queueStop") : StopSelected(s)
    BY <1>5, <2>2 DEF StartSelected, StopSelected, Event, Handle
  <2>3. CASE \E q \in Queues : GroupStart(q) \/ GroupStop(q) \/ AddGroup(q) \/ DelGroup(q)
    BY <1>4, <1>7, <2>3 DEF GroupStart, GroupStop, AddGroup, DelGroup, Event, Handle
  <2>4. CASE StartAll \/ StopAll \/ \E b \in BOOLEAN : SetOfflineMode(b)
    BY <1>6, <2>4 DEF StartAll, StopAll, SetOfflineMode, Event, Handle
  <2>5. CASE \E j \in Jobs, q \in Queues, after \in Jobs \cup {NoJob} : Move(j, q, after)
    BY <1>7, <2>5 DEF Move, Event, Handle
  <2>6. CASE \/ \E n \in ConnectionLimits : SettingsChanged(n)
             \/ \E b \in BOOLEAN : Network(b)
             \/ TimerEvent
    BY <1>1, <2>6 DEF SettingsChanged, Network, TimerEvent, Event, Handle
  <2> QED
    BY <2>1, <2>2, <2>3, <2>4, <2>5, <2>6 DEF CommandEvent
<1>9. UNCHANGED <<pluginVars, status, errorType, alive, policy, jobQueue, owner>>
  BY DEF CommandEvent, UserStart, UserStop, Delete, StartSelected, StopSelected, GroupStart,
         GroupStop, AddGroup, DelGroup, StartAll, StopAll, SetOfflineMode, Move, SettingsChanged,
         Network, TimerEvent, Event, pluginVars, statusVars, jobVars
<1> QED
  BY <1>8, <1>9

-----------------------------------------------------------------------------
(* start() and stop().                                                     *)

\* A start() that does something leaves a worker on a Running transfer, whose file
\* is not being moved.
LEMMA StartEffect ==
    ASSUME IInv, NEW j \in Jobs, PluginStart(j)
    PROVE  /\ UNCHANGED <<moving, retry, statJobs>>
           /\ \A k \in Jobs \ {j} : status'[k] = status[k] /\ worker'[k] = worker[k]
           /\ \/ status'[j] = status[j] /\ worker'[j] = worker[j]
              \/ status'[j] = "Running" /\ worker'[j] /\ (j \in KioJobs => ~moving[j])
<1>1. status \in [Jobs -> Statuses] /\ worker \in [Jobs -> BOOLEAN]
  BY DEF IInv, DataOK, JobTypeOK, PluginTypeOK
<1>2. CASE CanStart(j)
  <2>1. status' = [status EXCEPT ![j] = "Running"] /\ worker' = [worker EXCEPT ![j] = TRUE]
    BY <1>2 DEF PluginStart, AssignStatus
  <2> QED
    BY <1>1, <1>2, <2>1 DEF PluginStart, moveVars, CanStart, KioJobs
<1>3. CASE ~CanStart(j)
  BY <1>3 DEF PluginStart, moveVars, statusVars
<1> QED
  BY <1>2, <1>3

\* A stop() that does something leaves the transfer Stopped, without a copy job.
LEMMA StopEffect ==
    ASSUME IInv, NEW j \in Jobs, PluginStop(j)
    PROVE  /\ UNCHANGED <<moving, retry>>
           /\ \A k \in Jobs \ {j} : status'[k] = status[k] /\ worker'[k] = worker[k]
           /\ \A k \in Jobs : statJobs'[k] # 0 => statJobs[k] # 0 \/ k \in FtpJobs
           /\ \/ ~CanStop(j) /\ status'[j] = status[j] /\ worker'[j] = worker[j]
              \/ status'[j] = "Stopped" /\ worker'[j] = (worker[j] /\ j \in MmsJobs)
<1>1. /\ status \in [Jobs -> Statuses] /\ worker \in [Jobs -> BOOLEAN]
      /\ statJobs \in [Jobs -> Nat]
  BY DEF IInv, DataOK, JobTypeOK, PluginTypeOK
<1>2. CASE CanStop(j)
  <2>1. /\ status' = [status EXCEPT ![j] = "Stopped"]
        /\ worker' = [worker EXCEPT ![j] = @ /\ j \in MmsJobs]
        /\ statJobs' = [statJobs EXCEPT ![j] = IF j \in FtpJobs /\ worker[j] THEN @ + 1 ELSE @]
    BY <1>2 DEF PluginStop, AssignStatus
  <2>2. worker'[j] = (worker[j] /\ j \in MmsJobs)
    BY <1>1, <2>1, Zenon
  <2> QED
    BY <1>1, <1>2, <2>1, <2>2 DEF PluginStop, moveVars
<1>3. CASE ~CanStop(j)
  BY <1>3 DEF PluginStop, moveVars, statusVars
<1> QED
  BY <1>2, <1>3

\* start() harms no worker.
LEMMA StartKept ==
    ASSUME IInv, Owned, NEW rest, Steady(rest, {}), NEW j \in alive, PluginStart(j), UNCHANGED alive
    PROVE  Owned' /\ Steady(rest, {})' /\ UNCHANGED moving
<1>1. j \in Jobs
  BY DEF IInv, DataOK, JobTypeOK
<1>2. Owned'
  BY <1>1, StartEffect DEF Owned
<1>3. Steady(rest, {})'
  BY <1>1, StartEffect DEF Steady, Busy, KioJobs
<1> QED
  BY <1>1, <1>2, <1>3, StartEffect

\* stop() neither, and it makes up for a move that began while the copy job was running.
LEMMA StopKept ==
    ASSUME IInv, Owned, NEW rest, NEW j \in Jobs, PluginStop(j), UNCHANGED alive,
           Steady(rest, {}) \/ (rest = <<>> /\ Steady(rest, {j}))
    PROVE  Owned' /\ Steady(rest, {})' /\ UNCHANGED moving
<1>1. Owned'
  BY StopEffect DEF Owned, KioJobs
<1>2. status[j] = "Running" => CanStop(j)
  BY DEF CanStop
<1>3. ASSUME NEW k \in Busy, worker'[k]
      PROVE  /\ status'[k] = "Running" \/ rest = <<OnJob("slotResultEnd", k)>>
             /\ ~moving'[k]
  <2>1. k \in Jobs /\ k \notin MmsJobs
    BY DEF Busy, KioJobs
  <2>2. CASE k # j
    BY <1>3, <2>1, <2>2, StopEffect DEF Steady
  <2>3. CASE k = j
    <3>1. ~CanStop(j) /\ status'[j] = status[j] /\ worker[j]
      BY <1>3, <2>1, <2>3, StopEffect
    <3>2. rest # <<>>
      BY <1>2, <1>3, <2>3, <3>1 DEF Steady
    <3> QED
      BY <1>3, <2>3, <3>1, <3>2, StopEffect DEF Steady
  <2> QED
    BY <2>2, <2>3
<1> QED
  BY <1>1, <1>3, StopEffect DEF Steady

\* updateQueue's loop starts only transfers that exist.
LEMMA LoopFit == IInv /\ LInv /\ WInv /\ UpdateLoop => WInv'
<1> SUFFICES ASSUME IInv, LInv, WInv, UpdateLoop PROVE WInv'
  OBVIOUS
<1>1. PICK above \in Seq(Plain), rest \in Seq(Calls) :
          calls = above \o rest /\ Ending(rest) /\ Steady(rest, {})
  BY DEF WInv, WorkCallsOK, UpdateLoop, KeepRunning, StopUnwanted, StartWanted, LeaveStopped,
         StopOverLimit, UpdateDone, Looping
<1>2. UNCHANGED <<calls, alive>> /\ Plain' = Plain
  BY DEF Plain, UpdateLoop, KeepRunning, StopUnwanted, StartWanted, LeaveStopped,
         StopOverLimit, UpdateDone, NextJob, jobVars
<1>3. Owned' /\ Steady(rest, {})' /\ UNCHANGED moving
  <2>1. CASE KeepRunning \/ LeaveStopped \/ UpdateDone
    BY <1>1, <2>1 DEF WInv, KeepRunning, LeaveStopped, UpdateDone, NextJob, pluginVars,
                      statusVars, jobVars, Owned, Steady
  <2>2. CASE StartWanted \/ StopUnwanted \/ StopOverLimit
    <3>1. Looping
      BY <2>2 DEF StartWanted, StopUnwanted, StopOverLimit
    <3>2. LoopJob \in Jobs
      BY <3>1, LoopJobType
    <3>3. LoopJob \in alive
      <4>1. updating \in Queues /\ pos \in DOMAIN jobs[updating]
        BY <3>1 DEF Looping, IInv, StateOK, LoopTypeOK, DataOK, QueueTypeOK
      <4> QED
        BY <4>1 DEF LInv, ListsOK, Listed, ToSet, LoopJob
    <3>4. PICK j \in alive : j = LoopJob /\ j \in Jobs
      BY <3>2, <3>3
    <3> QED
      BY <1>1, <1>2, <2>2, <3>4, StartKept, StopKept
         DEF WInv, StartWanted, StopUnwanted, StopOverLimit
  <2> QED
    BY <2>1, <2>2 DEF UpdateLoop
<1>4. Ending(rest)'
  BY <1>1, <1>2, <1>3 DEF Ending
<1> QED
  BY <1>1, <1>2, <1>3, <1>4 DEF WInv, WorkCallsOK

-----------------------------------------------------------------------------
(* The calls.                                                              *)

\* A call is plain, or begins or ends what a handler does.
LEMMA CallsTop ==
    ASSUME IInv, WInv, calls # <<>>
    PROVE  \/ /\ Head(calls) \in Plain
              /\ \E above \in Seq(Plain), rest \in Seq(Calls) :
                     Tail(calls) = above \o rest /\ Ending(rest) /\ Steady(rest, {})
           \/ Ending(calls) /\ Steady(calls, {})
           \/ Beginning
<1>1. ASSUME NEW above \in Seq(Plain), NEW rest \in Seq(Calls), calls = above \o rest,
             Ending(rest), Steady(rest, {})
      PROVE  \/ /\ Head(calls) \in Plain
                /\ \E a \in Seq(Plain) : Tail(calls) = a \o rest
             \/ calls = rest
  <2>1. Plain \subseteq Calls /\ above \in Seq(Calls)
    BY SeqMonotonic DEF Plain
  <2>2. CASE above = <<>>
    BY <1>1, <2>2, ConcatEmptySeq
  <2>3. CASE above # <<>>
    BY <1>1, <2>1, <2>3, HeadOfJoined, HeadTailProperties
  <2> QED
    BY <2>2, <2>3
<1> QED
  BY <1>1 DEF WInv, WorkCallsOK

\* How a handler begins.
LEMMA BeginningTop ==
    ASSUME Beginning
    PROVE  \/ /\ Steady(<<>>, {})
              /\ \E j \in Busy, s \in Statuses, more \in Seq(Calls) :
                     /\ Head(calls) = SetStatusTo(j, s) /\ Tail(calls) = more
                     /\ more = <<OnJob("slotResultEnd", j)>> \/ (more \in Seq(Plain) /\ ~worker[j])
           \/ \E j \in Busy : /\ Steady(<<>>, {j}) /\ moving[j]
                              /\ Head(calls) = OnJob("stop", j)
                              /\ Tail(calls) = <<SetStatusTo(j, "Moving")>>
<1>1. ASSUME NEW j \in Busy, NEW s \in Statuses, NEW more \in Seq(Calls),
             calls = <<SetStatusTo(j, s)>> \o more
      PROVE  Head(calls) = SetStatusTo(j, s) /\ Tail(calls) = more
  <2> DEFINE a == SetStatusTo(j, s)
  <2>1. a \in Calls
    BY StartCalls DEF Busy, KioJobs
  <2> HIDE DEF a
  <2>2. <<a>> \in Seq(Calls) /\ <<a>> # <<>> /\ Head(<<a>>) = a /\ Tail(<<a>>) = <<>>
    BY <2>1, ShortSeq
  <2>3. Head(<<a>> \o more) = a /\ Tail(<<a>> \o more) = <<>> \o more
    BY <2>2, HeadOfJoined
  <2>4. <<>> \o more = more
    BY ConcatEmptySeq
  <2> QED
    BY <1>1, <2>3, <2>4 DEF a
<1>2. ASSUME NEW j \in Busy, calls = <<OnJob("stop", j), SetStatusTo(j, "Moving")>>
      PROVE  Head(calls) = OnJob("stop", j) /\ Tail(calls) = <<SetStatusTo(j, "Moving")>>
  BY <1>2, LastCalls
<1> QED
  BY <1>1, <1>2 DEF Beginning

\* Which begins by a change of status, which by a stop().
LEMMA BeginningOp ==
    ASSUME Beginning, NEW j
    PROVE  /\ Head(calls).op \in {"setStatus", "stop"}
           /\ (\E s : Head(calls) = SetStatusTo(j, s)) =>
                  /\ Steady(<<>>, {}) /\ j \in Busy
                  /\ \/ Tail(calls) = <<OnJob("slotResultEnd", j)>>
                     \/ Tail(calls) \in Seq(Plain) /\ ~worker[j]
           /\ Head(calls) = OnJob("stop", j) =>
                  /\ Steady(<<>>, {j}) /\ j \in Busy /\ moving[j]
                  /\ Tail(calls) = <<SetStatusTo(j, "Moving")>>
<1>1. /\ \A k, s : /\ SetStatusTo(k, s).op = "setStatus" /\ SetStatusTo(k, s).job = k
                   /\ SetStatusTo(k, s) # OnJob("stop", j)
      /\ \A k : /\ OnJob("stop", k).op = "stop" /\ OnJob("stop", k).job = k
                /\ \A s : OnJob("stop", k) # SetStatusTo(j, s)
  BY DEF SetStatusTo, OnJob
<1>2. CASE /\ Steady(<<>>, {})
           /\ \E k \in Busy, s \in Statuses, more \in Seq(Calls) :
                  /\ Head(calls) = SetStatusTo(k, s) /\ Tail(calls) = more
                  /\ more = <<OnJob("slotResultEnd", k)>> \/ (more \in Seq(Plain) /\ ~worker[k])
  <2>1. PICK k \in Busy, s \in Statuses :
            /\ Head(calls) = SetStatusTo(k, s)
            /\ \/ Tail(calls) = <<OnJob("slotResultEnd", k)>>
               \/ Tail(calls) \in Seq(Plain) /\ ~worker[k]
    BY <1>2
  <2>2. \A r : Head(calls) = SetStatusTo(j, r) => k = j
    BY <1>1, <2>1
  <2> QED
    BY <1>1, <1>2, <2>1, <2>2
<1>3. CASE \E k \in Busy : /\ Steady(<<>>, {k}) /\ moving[k]
                           /\ Head(calls) = OnJob("stop", k)
                           /\ Tail(calls) = <<SetStatusTo(k, "Moving")>>
  <2>1. PICK k \in Busy : /\ Steady(<<>>, {k}) /\ moving[k]
                          /\ Head(calls) = OnJob("stop", k)
                          /\ Tail(calls) = <<SetStatusTo(k, "Moving")>>
    BY <1>3
  <2>2. Head(calls) = OnJob("stop", j) => k = j
    BY <1>1, <2>1
  <2> QED
    BY <1>1, <2>1, <2>2
<1> QED
  BY <1>2, <1>3, BeginningTop

\* Calls that a plain call may make are plain.
LEMMA NestedPlain ==
    ASSUME IInv, HandlerCall
    PROVE  \E nested \in Seq(Plain) : calls' = nested \o Tail(calls)
<1> DEFINE c == Head(calls)
<1>1. \A x \in Calls : x.op \in NestedOps => x \in Plain
  BY DEF Plain, NestedOps
<1>2. \A x \in Calls : x.op \in {"moveTransfer", "insert", "setJobQueue"} => x \in Plain
  BY DEF Plain
<1>3. c \in Calls /\ jobQueue \in [Jobs -> Queues]
  BY CallHead DEF IInv, DataOK, JobTypeOK
<1>4. c.op = "handlerStart" => MoveTransfer(c.job, jobQueue[c.job], NoJob) \in Plain
  BY <1>2, <1>3, CallLists, CallFields DEF QueueOps
<1>5. c.op = "moveTransfer" => /\ Insert(c.job, c.queue, c.after) \in Plain
                               /\ AssignQueue(c.job, c.queue) \in Plain
  BY <1>2, <1>3, CallLists, CallFields DEF QueueOps
<1> QED
  BY <1>1, <1>4, <1>5, NestedCalls

\* What remains after a plain call.
LEMMA PlainCall ==
    ASSUME IInv, Owned', NEW nested \in Seq(Plain), calls' = nested \o Tail(calls),
           NEW above \in Seq(Plain), NEW rest \in Seq(Calls), Tail(calls) = above \o rest,
           Ending(rest)', Steady(rest, {})'
    PROVE  WInv'
<1>1. Plain' = Plain /\ Plain \subseteq Calls
  BY DEF Plain
<1>2. nested \in Seq(Calls) /\ above \in Seq(Calls) /\ rest \in Seq(Calls)
  BY <1>1, SeqMonotonic
<1>3. calls' = (nested \o above) \o rest
  <2>1. nested \o (above \o rest) = (nested \o above) \o rest
    BY ONLY <1>2, RegroupCalls
  <2> QED
    BY <2>1
<1>4. nested \o above \in Seq(Plain)
  BY ConcatProperties
<1> QED
  BY <1>1, <1>3, <1>4 DEF WInv, WorkCallsOK

\* The calls that touch no worker.
Working == {"start", "stop", "setStatus", "slotResultEnd", "destroy", "delQueue"}

\* A call that touches no worker keeps the workers' invariant.
LEMMA OtherFit ==
    ASSUME IInv, WInv, HandlerCall, Head(calls).op \notin Working
    PROVE  WInv'
<1>1. calls # <<>> /\ UNCHANGED <<worker, moving, retry, statJobs, status, alive>>
  BY DEF moveVars, HandlerCall, CallUpdate, CallStart, CallStop, CallSetStatus, CallSetErrorType,
         CallSetPolicy, CallSlotResultEnd, CallSetSpeed, CallHandlerStart, CallHandlerStop,
         CallFailureCheck, CallQueueStart, CallQueueStop, CallResetPolicy, CallForJobs,
         CallAppend, CallRemove, CallInsert, CallMoveTransfer, CallSetJobQueue, CallDestroy,
         CallDelQueue, CallSetSuspended, Calling, Working, Delegate, QueueStatusChange, Relist,
         pluginVars, statusVars, jobVars
<1>2. PICK nested \in Seq(Plain) : calls' = nested \o Tail(calls)
  BY NestedPlain
<1>3. ~Ending(calls)
  BY <1>1, LastCalls DEF Ending, Working, OnJob, SetStatusTo
<1>4. ~Beginning
  BY BeginningOp DEF Working
<1>5. PICK above \in Seq(Plain), rest \in Seq(Calls) :
          Tail(calls) = above \o rest /\ Ending(rest) /\ Steady(rest, {})
  BY <1>1, <1>3, <1>4, CallsTop
<1>6. Owned' /\ Ending(rest)' /\ Steady(rest, {})'
  BY <1>1, <1>5 DEF WInv, Owned, Ending, Steady
<1> QED
  BY <1>2, <1>5, <1>6, PlainCall

\* Plain calls alone remain.
LEMMA PlainRest ==
    ASSUME Owned', Steady(<<>>, {})', calls' \in Seq(Plain)
    PROVE  WInv'
<1>1. Plain' = Plain /\ Plain \subseteq Calls
  BY DEF Plain
<1>2. calls' \in Seq(Calls) /\ <<>> \in Seq(Calls)
  BY <1>1, SeqMonotonic, ShortSeq
<1>3. calls' = calls' \o <<>>
  BY <1>2, ConcatEmptySeq
<1>4. Ending(<<>>)'
  BY DEF Ending
<1> QED
  BY <1>1, <1>2, <1>3, <1>4 DEF WInv, WorkCallsOK

\* start() of a transfer, the last call of a handler.
LEMMA StartFit == IInv /\ WInv /\ CallStart => WInv'
<1> SUFFICES ASSUME IInv, WInv, CallStart PROVE WInv'
  OBVIOUS
<1>1. calls # <<>> /\ Head(calls).op = "start" /\ calls' = <<>> \o Tail(calls)
  BY DEF CallStart, Calling, Call, Return
<1>2. Head(calls) \notin Plain /\ ~Beginning
  BY <1>1, BeginningOp DEF Plain
<1>3. PICK rest \in Seq(Calls) : rest = calls /\ Ending(rest) /\ Steady(rest, {})
  BY <1>1, <1>2, CallsTop DEF IInv, StateOK
<1>4. PICK j \in alive : rest = <<OnJob("start", j)>>
  BY <1>1, <1>3, LastCalls DEF Ending, OnJob, SetStatusTo
<1>5. PluginStart(j) /\ UNCHANGED alive
  BY <1>3, <1>4, LastCalls DEF CallStart, OnJob, jobVars
<1>6. Owned' /\ Steady(rest, {})'
  BY <1>3, <1>5, StartKept DEF WInv
<1>7. \A k \in Busy : rest # <<OnJob("slotResultEnd", k)>>
  BY <1>1, <1>3, LastCalls DEF OnJob
<1>8. Steady(<<>>, {})'
  BY <1>6, <1>7 DEF Steady
<1>9. calls' \in Seq(Plain)
  <2>1. calls' = <<>>
    BY <1>1, <1>3, <1>4, LastCalls
  <2> QED
    BY <2>1, ShortSeq
<1> QED
  BY <1>6, <1>8, <1>9, PlainRest

\* stop() of a transfer: of the one whose file is about to be moved, or of another.
LEMMA StopFit == IInv /\ WInv /\ CallStop => WInv'
<1> SUFFICES ASSUME IInv, WInv, CallStop PROVE WInv'
  OBVIOUS
<1>1. PICK j \in Jobs : Head(calls) = OnJob("stop", j) /\ PluginStop(j) /\ UNCHANGED alive
  <2>1. Head(calls) \in Calls /\ Head(calls).op = "stop"
    BY HeadFields DEF CallStop, IInv
  <2>2. Head(calls) = OnJob("stop", Head(calls).job) /\ Head(calls).job \in Jobs
    BY <2>1 DEF Calls, OnJob, JobOps, QueueOps
  <2> QED
    BY <2>2 DEF CallStop, jobVars
<1>2. PICK nested \in Seq(Plain) : calls' = nested \o Tail(calls)
  BY NestedPlain DEF HandlerCall
<1>3. calls # <<>> /\ Owned /\ Head(calls).op = "stop"
  BY <1>1 DEF CallStop, Calling, WInv, OnJob
<1>4. ~Ending(calls)
  BY <1>3, LastCalls DEF Ending, OnJob, SetStatusTo
<1>5. ASSUME NEW above \in Seq(Plain), NEW rest \in Seq(Calls),
             Tail(calls) = above \o rest, Ending(rest), Steady(rest, {})
      PROVE  WInv'
  <2>1. Owned' /\ Steady(rest, {})' /\ UNCHANGED moving
    BY <1>1, <1>3, <1>5, StopKept
  <2>2. Ending(rest)'
    BY <1>1, <1>5, <2>1 DEF Ending
  <2> QED
    BY <1>2, <1>5, <2>1, <2>2, PlainCall
<1>6. CASE Beginning
  <2>1. /\ j \in Busy /\ Steady(<<>>, {j}) /\ moving[j]
        /\ Tail(calls) = <<SetStatusTo(j, "Moving")>>
    BY <1>1, <1>6, BeginningOp
  <2>2. Owned' /\ Steady(<<>>, {})' /\ UNCHANGED moving
    BY <1>1, <1>3, <2>1, StopKept
  <2> DEFINE rest == <<SetStatusTo(j, "Moving")>>
  <2>3. Ending(rest)' /\ Steady(rest, {})'
    BY <2>1, <2>2 DEF Ending, Steady
  <2>4. rest \in Seq(Calls) /\ <<>> \in Seq(Plain) /\ <<>> \o rest = rest
    <3>1. SetStatusTo(j, "Moving") \in Calls
      BY StartCalls DEF Statuses
    <3> QED
      BY <3>1, ShortSeq, ConcatEmptySeq
  <2>5. Tail(calls) = <<>> \o rest
    BY <2>1, <2>4
  <2> HIDE DEF rest
  <2> QED
    BY <1>2, <2>2, <2>3, <2>4, <2>5, PlainCall
<1> QED
  BY <1>3, <1>4, <1>5, <1>6, CallsTop

\* A change of status: it leaves a copy job without Running only when slotResult is
\* about to forget it, or there is none.
LEMMA SetStatusFit == IInv /\ WInv /\ CallSetStatus => WInv'
<1> SUFFICES ASSUME IInv, WInv, CallSetStatus PROVE WInv'
  OBVIOUS
<1>1. PICK j \in Jobs, s \in Statuses :
          /\ Head(calls) = SetStatusTo(j, s) /\ calls # <<>>
          /\ status' = [status EXCEPT ![j] = s]
          /\ UNCHANGED <<worker, moving, retry, statJobs, alive>>
  <2>1. Head(calls) \in Calls /\ Head(calls).op = "setStatus"
    BY HeadFields DEF CallSetStatus, IInv
  <2>2. /\ Head(calls) = SetStatusTo(Head(calls).job, Head(calls).status)
        /\ Head(calls).job \in Jobs /\ Head(calls).status \in Statuses
    BY <2>1 DEF Calls, SetStatusTo, JobOps, QueueOps
  <2> QED
    BY <2>2 DEF CallSetStatus, AssignStatus, Calling, pluginVars, jobVars
<1>2. PICK nested \in Seq(Plain) : calls' = nested \o Tail(calls)
  BY NestedPlain DEF HandlerCall
<1>3. /\ Owned' /\ \A rest : Ending(rest) => Ending(rest)'
      /\ status'[j] = s /\ \A k \in Jobs \ {j} : status'[k] = status[k]
  BY <1>1 DEF WInv, Owned, Ending, IInv, DataOK, JobTypeOK
<1>4. ASSUME Head(calls) \in Plain, NEW above \in Seq(Plain), NEW rest \in Seq(Calls),
             Tail(calls) = above \o rest, Ending(rest), Steady(rest, {})
      PROVE  WInv'
  <2>1. j \notin Busy \/ s = "Running"
    BY <1>1, <1>4 DEF Plain, SetStatusTo
  <2>2. Steady(rest, {})'
    BY <1>1, <1>3, <1>4, <2>1 DEF Steady, Busy, KioJobs
  <2> QED
    BY <1>2, <1>3, <1>4, <2>2, PlainCall
<1>5. ASSUME Ending(calls), Steady(calls, {}) PROVE WInv'
  <2>1. calls = <<SetStatusTo(j, "Moving")>> /\ j \in Busy /\ moving[j]
    BY <1>1, <1>5, LastCalls DEF Ending, OnJob, SetStatusTo
  <2>2. \A k \in Busy : calls # <<OnJob("slotResultEnd", k)>>
    BY <1>1, LastCalls DEF OnJob, SetStatusTo
  <2>3. Steady(<<>>, {})'
    BY <1>1, <1>3, <1>5, <2>1, <2>2 DEF Steady, Busy, KioJobs
  <2>4. calls' \in Seq(Plain)
    <3>1. Tail(calls) = <<>>
      BY <2>1, LastCalls
    <3> QED
      BY <1>2, <3>1, ConcatEmptySeq
  <2> QED
    BY <1>3, <2>3, <2>4, PlainRest
<1>6. CASE Beginning
  <2>1. PICK more \in Seq(Calls) : more = Tail(calls)
    BY <1>1, HeadTailProperties DEF IInv, StateOK
  <2>4. /\ Steady(<<>>, {}) /\ j \in Busy
        /\ more = <<OnJob("slotResultEnd", j)>> \/ (more \in Seq(Plain) /\ ~worker[j])
    BY <1>1, <1>6, <2>1, BeginningOp
  <2>2. CASE more = <<OnJob("slotResultEnd", j)>>
    <3>1. Ending(more)' /\ Steady(more, {})'
      BY <1>1, <1>3, <2>2, <2>4 DEF Ending, Steady, Busy, KioJobs
    <3>2. Tail(calls) = <<>> \o more /\ <<>> \in Seq(Plain)
      BY <2>1, ConcatEmptySeq, ShortSeq
    <3> QED
      BY <1>2, <1>3, <3>1, <3>2, PlainCall
  <2>3. CASE more \in Seq(Plain) /\ ~worker[j]
    <3>1. Steady(<<>>, {})'
      BY <1>1, <1>3, <2>3, <2>4 DEF Steady, Busy, KioJobs
    <3>2. calls' \in Seq(Plain)
      BY <1>2, <2>1, <2>3, ConcatProperties
    <3> QED
      BY <1>3, <3>1, <3>2, PlainRest
  <2> QED
    BY <2>2, <2>3, <2>4
<1> QED
  BY <1>1, <1>4, <1>5, <1>6, CallsTop

\* slotResult forgets the copy job.
LEMMA ResultEndFit == IInv /\ WInv /\ CallSlotResultEnd => WInv'
<1> SUFFICES ASSUME IInv, WInv, CallSlotResultEnd PROVE WInv'
  OBVIOUS
<1>1. calls # <<>> /\ Head(calls).op = "slotResultEnd" /\ calls' = <<>> \o Tail(calls)
  BY DEF CallSlotResultEnd, Calling, Call, Return
<1>2. Head(calls) \notin Plain /\ ~Beginning
  BY <1>1, BeginningOp DEF Plain
<1>3. Ending(calls) /\ Steady(calls, {})
  BY <1>1, <1>2, CallsTop
<1>4. PICK j \in KioJobs : calls = <<OnJob("slotResultEnd", j)>>
  BY <1>1, <1>3, LastCalls DEF Ending, OnJob, SetStatusTo
<1>5. /\ worker' = [worker EXCEPT ![j] = FALSE]
      /\ statJobs' = [statJobs EXCEPT ![j] = IF j \in FtpJobs THEN @ + 1 ELSE @]
      /\ UNCHANGED <<moving, retry, status, alive>>
  <2>1. Head(calls).job = j
    BY <1>4, LastCalls DEF OnJob
  <2> QED
    BY <2>1 DEF CallSlotResultEnd, moveVars, statusVars, jobVars
<1>6. /\ worker \in [Jobs -> BOOLEAN] /\ statJobs \in [Jobs -> Nat] /\ j \in Jobs
      /\ \A k \in Busy : calls = <<OnJob("slotResultEnd", k)>> => k = j
  BY <1>4, LastCalls DEF IInv, DataOK, PluginTypeOK, KioJobs, OnJob
<1>7. Owned'
  BY <1>5, <1>6 DEF WInv, Owned, KioJobs
<1>8. Steady(<<>>, {})'
  BY <1>3, <1>5, <1>6 DEF Steady, Busy, KioJobs
<1>9. calls' \in Seq(Plain)
  <2>1. calls' = <<>>
    BY <1>1, <1>4, LastCalls
  <2> QED
    BY <2>1, ShortSeq
<1> QED
  BY <1>7, <1>8, <1>9, PlainRest

\* The destruction of a transfer or of a group's, the last call of a handler.
LEMMA DestroyFit == IInv /\ LInv /\ WInv /\ (CallDestroy \/ CallDelQueue) => WInv'
<1> SUFFICES ASSUME IInv, LInv, WInv, CallDestroy \/ CallDelQueue PROVE WInv'
  OBVIOUS
<1>1. PICK op \in {"destroy", "delQueue"} : Calling(op)
  BY DEF CallDestroy, CallDelQueue
<1>2. calls # <<>> /\ Head(calls).op = op
  BY <1>1 DEF Calling
<1>3. Pending(calls)
  BY <1>1, TouchingCall DEF Touching
<1>4. Destroying(calls) \/ Ungrouping(calls)
  BY <1>2, <1>3, PendingOp
<1>5. Tail(calls) = <<>>
  BY <1>4, LastCalls DEF Destroying, Ungrouping
<1>6. calls' = <<>>
  <2>1. calls' = <<>> \o Tail(calls)
    BY DEF CallDestroy, CallDelQueue, Call, Return
  <2>2. <<>> \o <<>> = <<>>
    OBVIOUS
  <2> QED
    BY <1>5, <2>1, <2>2
<1>7. PICK gone : Destroy(gone)
  BY DEF CallDestroy, CallDelQueue
<1>8. Steady(<<>>, {})
  <2>1. ~Beginning
    BY <1>2, BeginningOp
  <2>2. ~Ending(calls)
    BY <1>2, LastCalls DEF Ending, OnJob, SetStatusTo
  <2>3. PICK above \in Seq(Plain), rest \in Seq(Calls) :
            Tail(calls) = above \o rest /\ Steady(rest, {})
    BY <1>2, <2>1, <2>2, CallsTop
  <2>4. rest = <<>>
    <3>1. above \in Seq(Calls)
      BY SeqMonotonic DEF Plain
    <3>2. above \o rest = <<>>
      BY <1>5, <2>3
    <3> QED
      BY <3>1, <3>2, ConcatProperties, EmptySeq, LenProperties
  <2> QED
    BY <2>3, <2>4
<1>9. Owned' /\ Steady(<<>>, {})'
  BY <1>7, <1>8 DEF Destroy, WInv, Owned, Steady, Busy, KioJobs
<1> QED
  BY <1>6, <1>9, PlainRest, ShortSeq

\* Every call keeps the workers' invariant.
LEMMA CallFit == IInv /\ LInv /\ WInv /\ HandlerCall => WInv'
<1> SUFFICES ASSUME IInv, LInv, WInv, HandlerCall PROVE WInv'
  OBVIOUS
<1>1. CASE Head(calls).op \notin Working
  BY <1>1, OtherFit
<1>2. CASE Head(calls).op \in Working
  BY <1>2, StartFit, StopFit, SetStatusFit, ResultEndFit, DestroyFit
     DEF HandlerCall, CallUpdate, CallStart, CallStop, CallSetStatus, CallSetErrorType,
         CallSetPolicy, CallSlotResultEnd, CallSetSpeed, CallHandlerStart, CallHandlerStop,
         CallFailureCheck, CallQueueStart, CallQueueStop, CallResetPolicy, CallForJobs,
         CallAppend, CallRemove, CallInsert, CallMoveTransfer, CallSetJobQueue, CallDestroy,
         CallDelQueue, CallSetSuspended, Calling, Working
<1> QED
  BY <1>1, <1>2

-----------------------------------------------------------------------------
(* The events.                                                             *)

\* In the event loop no handler has anything to repair.
LEMMA IdleFit ==
    ASSUME IInv, WInv, handler = "none"
    PROVE  Owned /\ Steady(<<>>, {}) /\ updating = NoQueue
<1>1. calls = <<>> /\ updating = NoQueue
  BY DEF IInv, StateOK, HandlerOK
<1>2. ASSUME NEW above \in Seq(Calls), NEW rest \in Seq(Calls), calls = above \o rest
      PROVE  above = <<>> /\ rest = <<>>
  <2>1. above \o rest = <<>>
    BY <1>1, <1>2
  <2> QED
    BY <2>1, ConcatProperties, EmptySeq, LenProperties
<1>3. Seq(Plain) \subseteq Seq(Calls)
  BY SeqMonotonic DEF Plain
<1>4. ~Beginning
  <2>1. ASSUME NEW j \in Busy, NEW s \in Statuses, NEW more \in Seq(Calls),
               calls = <<SetStatusTo(j, s)>> \o more
        PROVE  FALSE
    <3>1. SetStatusTo(j, s) \in Calls
      BY StartCalls DEF Busy, KioJobs
    <3> QED
      BY <1>2, <2>1, <3>1, ShortSeq
  <2>2. \A a, b : calls # <<a, b>>
    BY <1>1
  <2> QED
    BY <2>1, <2>2 DEF Beginning
<1>5. Steady(<<>>, {})
  BY <1>2, <1>3, <1>4 DEF WInv, WorkCallsOK
<1> QED
  BY <1>1, <1>5 DEF WInv

\* An event whose handler ends as described.
LEMMA EndingEvent ==
    ASSUME Owned', NEW event, NEW above \in Seq(Plain), NEW rest \in Seq(Calls),
           Handle(event, above \o rest), Ending(rest)', Steady(rest, {})'
    PROVE  WInv'
<1>1. calls' = above \o rest /\ Plain' = Plain
  BY DEF Handle, Plain
<1> QED
  BY <1>1 DEF WInv, WorkCallsOK

\* An event that promises nothing to the workers keeps their invariant, if their own
\* parts are kept.
LEMMA PlainEvent ==
    ASSUME IInv, WInv, NEW event, NEW todo \in Seq(Plain), Handle(event, todo),
           Owned', Steady(<<>>, {})'
    PROVE  WInv'
BY PlainRest DEF Handle

\* The user, the network, the settings and the timer.
LEMMA CommandFit == IInv /\ WInv /\ CommandEvent => WInv'
<1> SUFFICES ASSUME IInv, WInv, CommandEvent PROVE WInv'
  OBVIOUS
<1>1. /\ \A c \in Calls : c.op \in CommandOps \cup {"moveTransfer"} => c \in Plain
      /\ alive \subseteq Jobs /\ ToSet(queues) \subseteq Queues
  <2>1. queues \in Seq(Queues) /\ alive \subseteq Jobs
    BY DEF IInv, DataOK, QueueTypeOK, JobTypeOK
  <2> QED
    BY <2>1, LenProperties DEF Plain, CommandOps, ToSet
<1>6. \A j \in alive, q \in ToSet(queues), after \in Jobs \cup {NoJob} :
          MoveTransfer(j, q, after) \in Plain
  BY <1>1, CallLists
<1>2. PICK event \in Events, todo \in Seq(Plain) : Handle(event, todo)
  BY <1>1, <1>6, CommandCalls
<1>3. UNCHANGED <<worker, moving, retry, statJobs, status, alive>>
  BY <1>1, <1>6, CommandCalls DEF pluginVars
<1>4. handler = "none"
  BY <1>2 DEF Handle
<1>5. Owned' /\ Steady(<<>>, {})'
  BY <1>3, <1>4, IdleFit DEF Owned, Steady
<1> QED
  BY <1>2, <1>5, PlainEvent

\* Three calls are one and two others.
LEMMA Triple == \A a, b, c : <<a>> \o <<b, c>> = <<a, b, c>>
<1> SUFFICES ASSUME NEW a, NEW b, NEW c PROVE <<a>> \o <<b, c>> = <<a, b, c>>
  OBVIOUS
<1>1. <<a>> \in Seq({a, b, c}) /\ <<b, c>> \in Seq({a, b, c}) /\ <<a, b, c>> \in Seq({a, b, c})
  OBVIOUS
<1> DEFINE s == <<a>> \o <<b, c>>
<1>2. s \in Seq({a, b, c}) /\ Len(s) = 3 /\ s[1] = a /\ s[2] = b /\ s[3] = c
  BY <1>1, ConcatProperties
<1> DEFINE t == <<a, b, c>>
<1>3. t \in Seq({a, b, c}) /\ Len(t) = 3 /\ t[1] = a /\ t[2] = b /\ t[3] = c
  OBVIOUS
<1> HIDE DEF s, t
<1>4. s = t
  BY <1>2, <1>3, SeqEqual
<1> QED
  BY <1>4 DEF s, t

\* A new transfer: it has no worker, whatever status it is created with.
LEMMA AddFit ==
    ASSUME IInv, WInv, NEW j \in Jobs, NEW q \in Queues, NEW s \in Statuses, NEW p \in Policies,
           NEW start \in BOOLEAN, Add(j, q, s, p, start)
    PROVE  WInv'
<1> DEFINE a == SetStatusTo(j, s)
           b == SetPolicy(j, p)
           c == AppendTo(j, q)
           last == IF start THEN <<OnJob("handlerStart", j)>> ELSE <<>>
           more == <<b, c>> \o last
<1>1. a \in Calls /\ b \in Plain /\ c \in Plain /\ OnJob("handlerStart", j) \in Plain
  <2>1. \A x \in Calls : x.op \in {"setPolicy", "append", "handlerStart"} => x \in Plain
    BY DEF Plain
  <2>2. b \in Plain /\ c \in Plain
    BY <2>1, CallLists
  <2>3. OnJob("handlerStart", j) \in Plain
    BY <2>1, CallLists DEF JobOps
  <2> QED
    BY <2>2, <2>3, StartCalls
<1>2. Plain \subseteq Calls /\ Seq(Plain) \subseteq Seq(Calls)
  BY SeqMonotonic DEF Plain
<1>3. Handle("add", <<a, b, c>> \o last)
  BY DEF Add, AppendTo
<1>4. last \in Seq(Plain)
  BY <1>1, ShortSeq
<1>5. j \notin alive /\ alive' = alive \cup {j} /\ UNCHANGED <<worker, moving, retry, statJobs, status>>
  BY DEF Add, moveVars, statusVars
<1> HIDE DEF a, b, c, last
<1>6. more \in Seq(Plain) /\ <<a, b, c>> \o last = <<a>> \o more
  <2>1. <<a>> \in Seq(Calls) /\ <<b, c>> \in Seq(Calls) /\ <<b, c>> \in Seq(Plain)
    BY <1>1, <1>2, ShortSeq
  <2>2. <<a>> \o <<b, c>> = <<a, b, c>>
    BY Triple
  <2>4. last \in Seq(Calls)
    BY <1>2, <1>4
  <2>3. <<a>> \o (<<b, c>> \o last) = (<<a>> \o <<b, c>>) \o last
    BY ONLY <2>1, <2>4, RegroupCalls
  <2> QED
    BY <1>4, <2>1, <2>2, <2>3, ConcatProperties
<1> HIDE DEF more
<1>7. Handle("add", <<a>> \o more) /\ Plain' = Plain
  BY <1>3, <1>6 DEF Plain
<1>8. Owned' /\ Steady(<<>>, {})' /\ ~worker[j] /\ updating = NoQueue
  <2>1. Owned /\ Steady(<<>>, {}) /\ updating = NoQueue
    BY <1>3, IdleFit DEF Handle
  <2> QED
    BY <1>5, <2>1 DEF Owned, Steady
<1>9. CASE j \in Busy
  <2>1. calls' = <<a>> \o more /\ UNCHANGED updating /\ ~worker'[j]
    BY <1>5, <1>7, <1>8 DEF Handle, loopVars
  <2>2. Beginning'
    BY <1>2, <1>6, <1>7, <1>8, <1>9, <2>1 DEF Beginning, a
  <2> QED
    BY <1>8, <2>1, <2>2 DEF WInv, WorkCallsOK
<1>10. CASE j \notin Busy
  <2>1. a \in Plain
    BY <1>1, <1>10 DEF Plain, a, SetStatusTo
  <2>2. <<a>> \o more \in Seq(Plain)
    BY <1>6, <2>1, ShortSeq, ConcatProperties
  <2> QED
    BY <1>7, <1>8, <2>2, PlainEvent
<1> QED
  BY <1>9, <1>10

\* A worker that reports, ends or fails, a stat job's answer, a move that begins or
\* ends, and a repair.
LEMMA WorkerFit ==
    ASSUME IInv, WInv, MovesOK,
           NEW j \in Jobs, WorkerEvent(j) \/ NewDestination(j) \/ Repair(j)
    PROVE  WInv'
<1>1. /\ Owned /\ Steady(<<>>, {}) /\ updating = NoQueue /\ UNCHANGED updating
      /\ UNCHANGED <<status, alive>>
  <2>1. handler = "none" /\ UNCHANGED <<updating, status, alive>>
    BY DEF WorkerEvent, Data, Speed, Result, Error, StatResult, NewDestResult, BrokenUrl,
           ConnectionsErrors, MmsResult, NewDestination, Repair, Event, Handle, loopVars,
           statusVars, jobVars
  <2> QED
    BY <2>1, IdleFit
<1>2. Plain' = Plain /\ Plain \subseteq Calls
  BY DEF Plain
<1>3. /\ worker \in [Jobs -> BOOLEAN] /\ moving \in [Jobs -> BOOLEAN]
      /\ retry \in [Jobs -> BOOLEAN] /\ statJobs \in [Jobs -> Nat] /\ alive \subseteq Jobs
  BY DEF IInv, DataOK, PluginTypeOK, JobTypeOK
<1>4. /\ \A s \in Statuses : /\ SetStatusTo(j, s) \in Calls
                             /\ j \notin Busy \/ s = "Running" => SetStatusTo(j, s) \in Plain
      /\ \A b \in BOOLEAN : SetSpeed(j, b) \in Plain
      /\ OnJob("stop", j) \in Plain
      /\ [op |-> "setErrorType", job |-> j, type |-> "NotSolveable"] \in Plain
  <2>1. \A c \in Calls : c.op \in {"setSpeed", "stop", "setErrorType"} => c \in Plain
    BY DEF Plain
  <2>2. \A s \in Statuses : /\ SetStatusTo(j, s) \in Calls
                            /\ j \notin Busy \/ s = "Running" => SetStatusTo(j, s) \in Plain
    BY StartCalls DEF Plain, SetStatusTo
  <2>3. \A b \in BOOLEAN : SetSpeed(j, b) \in Plain
    BY <2>1, CallLists
  <2>4. OnJob("stop", j) \in Plain
    BY <2>1, CallLists DEF JobOps
  <2>5. [op |-> "setErrorType", job |-> j, type |-> "NotSolveable"] \in Plain
    BY <2>1, CallLists DEF ErrorTypes
  <2> QED
    BY <2>2, <2>3, <2>4, <2>5
<1>5. /\ \A s \in Statuses : j \notin Busy \/ s = "Running" =>
             /\ <<SetStatusTo(j, s)>> \in Seq(Plain)
             /\ \A b \in BOOLEAN : <<SetStatusTo(j, s), SetSpeed(j, b)>> \in Seq(Plain)
      /\ \A b \in BOOLEAN : <<SetSpeed(j, b)>> \in Seq(Plain)
      /\ <<OnJob("stop", j)>> \in Seq(Plain)
  <2>1. ASSUME NEW s \in Statuses, j \notin Busy \/ s = "Running"
        PROVE  /\ <<SetStatusTo(j, s)>> \in Seq(Plain)
               /\ \A b \in BOOLEAN : <<SetStatusTo(j, s), SetSpeed(j, b)>> \in Seq(Plain)
    <3>1. SetStatusTo(j, s) \in Plain /\ \A b \in BOOLEAN : SetSpeed(j, b) \in Plain
      BY <1>4, <2>1
    <3> QED
      BY <3>1, ShortSeq
  <2>2. /\ \A b \in BOOLEAN : <<SetSpeed(j, b)>> \in Seq(Plain)
        /\ <<OnJob("stop", j)>> \in Seq(Plain)
    BY <1>4, ShortSeq
  <2> QED
    BY <2>1, <2>2
<1>6. OnJob("start", j) \in Calls /\ OnJob("slotResultEnd", j) \in Calls
  BY DEF OnJob, Calls, JobOps
<1>7. <<>> \in Seq(Plain) /\ <<OnJob("start", j)>> \in Seq(Calls) /\ <<OnJob("slotResultEnd", j)>> \in Seq(Calls)
  BY <1>6, ShortSeq
<1>8. ASSUME UNCHANGED <<worker, moving, retry, statJobs>>
      PROVE  Owned' /\ Steady(<<>>, {})'
  BY <1>1, <1>8 DEF Owned, Steady
<1>9. CASE Data(j)
  BY <1>5, <1>8, <1>9, PlainEvent DEF Data, Event, Statuses, pluginVars
<1>10. ASSUME NEW b \in BOOLEAN, Speed(j, b) PROVE WInv'
  <2> DEFINE now == IF status[j] # "Running" /\ moving[j] THEN "Moving" ELSE "Running"
             works == b /\ status[j] = "Running"
  <2>1. now \in Statuses /\ works \in BOOLEAN
    BY DEF Statuses
  <2>2. \/ worker[j] /\ j \in KioJobs /\ Event("speed", <<SetStatusTo(j, now), SetSpeed(j, b)>>)
        \/ Event("speed", <<SetSpeed(j, works)>>)
    BY <1>10 DEF Speed
  <2>3. worker[j] => j \notin Busy \/ now = "Running"
    BY <1>1 DEF Steady
  <2>4. Owned' /\ Steady(<<>>, {})'
    BY <1>8, <1>10 DEF Speed, Event, pluginVars
  <2> HIDE DEF now, works
  <2>5. CASE worker[j] /\ j \in KioJobs /\ Event("speed", <<SetStatusTo(j, now), SetSpeed(j, b)>>)
    BY <1>5, <2>1, <2>3, <2>4, <2>5, PlainEvent DEF Event
  <2>6. CASE Event("speed", <<SetSpeed(j, works)>>)
    BY <1>5, <2>1, <2>4, <2>6, PlainEvent DEF Event
  <2> QED
    BY <2>2, <2>5, <2>6
<1>11. CASE Result(j) \/ Error(j)
  <2>1. PICK s \in {"Finished", "Aborted"}, event \in {"result", "error"} :
            /\ Handle(event, <<SetStatusTo(j, s), OnJob("slotResultEnd", j)>>)
            /\ j \in KioJobs /\ UNCHANGED <<worker, moving, retry, statJobs>>
    BY <1>11 DEF Result, moveVars, Error, Event, pluginVars
  <2> DEFINE rest == <<OnJob("slotResultEnd", j)>>
  <2>2. Owned' /\ Steady(<<>>, {})' /\ Steady(rest, {})'
    BY <1>1, <1>8, <2>1 DEF Steady
  <2>3. <<SetStatusTo(j, s)>> \o rest = <<SetStatusTo(j, s), OnJob("slotResultEnd", j)>>
    BY Pair
  <2>4. Handle(event, <<SetStatusTo(j, s)>> \o rest)
    BY <2>1, <2>3
  <2>5. rest \in Seq(Calls) /\ Ending(rest)' /\ s \in Statuses
    BY <1>7, <2>1 DEF Ending, Statuses
  <2>6. CASE j \in Busy
    <3>1. calls' = <<SetStatusTo(j, s)>> \o rest
      BY <2>4 DEF Handle
    <3>2. Beginning'
      BY <2>2, <2>5, <2>6, <3>1 DEF Beginning
    <3> QED
      BY <1>1, <2>2, <3>2 DEF WInv, WorkCallsOK
  <2>7. CASE j \notin Busy
    <3>1. <<SetStatusTo(j, s)>> \in Seq(Plain)
      BY <1>5, <2>5, <2>7
    <3> HIDE DEF rest
    <3> QED
      BY <2>2, <2>4, <2>5, <3>1, EndingEvent
  <2> QED
    BY <2>6, <2>7
<1>12. CASE StatResult(j)
  <2>1. /\ statJobs[j] # 0 /\ statJobs' = [statJobs EXCEPT ![j] = @ - 1]
        /\ Handle("statResult", <<SetStatusTo(j, "Finished")>>) /\ UNCHANGED <<worker, moving, retry>>
    BY <1>3, <1>12 DEF StatResult, moveVars
  <2>2. j \in FtpJobs
    BY <1>1, <2>1 DEF Owned
  <2>3. Owned' /\ Steady(<<>>, {})'
    BY <1>1, <1>3, <2>1, <2>2 DEF Owned, Steady
  <2>4. <<SetStatusTo(j, "Finished")>> \in Seq(Plain)
    BY <1>5, <2>2 DEF Busy, Statuses
  <2> QED
    BY <2>1, <2>3, <2>4, PlainEvent
<1>13. CASE NewDestResult(j) \/ Repair(j)
  <2>1. PICK event \in {"newDestResult", "repair"} : Handle(event, <<OnJob("start", j)>>)
    BY <1>13 DEF NewDestResult, Repair
  <2>2. /\ \A k \in Jobs : /\ worker'[k] => worker[k]
                           /\ moving'[k] => moving[k]
                           /\ k \in MmsJobs => worker'[k] = worker[k]
        /\ UNCHANGED <<retry, statJobs>> /\ j \in alive
    BY <1>1, <1>3, <1>13 DEF NewDestResult, Repair, MovesOK, Owned, KioJobs, moveVars
  <2> DEFINE rest == <<OnJob("start", j)>>
  <2>3. Owned' /\ Steady(rest, {})'
    <3>1. Owned'
      BY <1>1, <2>2 DEF Owned, KioJobs
    <3>2. Steady(rest, {})'
      BY <1>1, <2>2 DEF Steady, Busy, KioJobs
    <3> QED
      BY <3>1, <3>2
  <2>4. Ending(rest)' /\ rest \in Seq(Calls)
    BY <1>1, <1>7, <2>2 DEF Ending
  <2>5. Handle(event, <<>> \o rest)
    BY <2>1, <2>4, ConcatEmptySeq
  <2> HIDE DEF rest
  <2> QED
    BY <1>7, <2>3, <2>4, <2>5, EndingEvent
<1>14. CASE NewDestination(j)
  <2> DEFINE todo == <<OnJob("stop", j), SetStatusTo(j, "Moving")>>
  <2>1. /\ j \in alive /\ Handle("newDestination", todo)
        /\ moving' = [moving EXCEPT ![j] = TRUE] /\ UNCHANGED <<worker, retry, statJobs>>
    BY <1>14 DEF NewDestination
  <2>2. Owned' /\ Steady(<<>>, {j})'
    BY <1>1, <1>3, <2>1 DEF Owned, Steady, Busy, KioJobs
  <2>3. moving'[j]
    BY <1>3, <2>1
  <2>4. CASE j \in Busy
    <3>1. calls' = todo
      BY <2>1 DEF Handle
    <3>2. Beginning'
      BY <2>2, <2>3, <2>4, <3>1 DEF Beginning
    <3> QED
      BY <1>1, <2>2, <3>2 DEF WInv, WorkCallsOK
  <2>5. CASE j \notin Busy
    <3>1. todo \in Seq(Plain)
      <4>1. SetStatusTo(j, "Moving") \in Plain
        BY <1>4, <2>5 DEF Statuses
      <4> QED
        BY <1>4, <4>1, ShortSeq
    <3>2. Steady(<<>>, {})'
      BY <2>2, <2>5 DEF Steady
    <3> HIDE DEF todo
    <3> QED
      BY <2>1, <2>2, <3>1, <3>2, PlainEvent
  <2> QED
    BY <2>4, <2>5
<1>15. CASE BrokenUrl(j) \/ ConnectionsErrors(j)
  <2>1. j \in MmsJobs /\ j \notin Busy /\ worker[j]
    BY <1>15 DEF BrokenUrl, ConnectionsErrors, Busy, KioJobs
  <2>2. UNCHANGED <<worker, moving, statJobs>> /\ \A k \in Jobs : retry'[k] => retry[k] \/ k = j
    BY <1>3, <1>15 DEF BrokenUrl, ConnectionsErrors, moveVars, Event, pluginVars
  <2>3. Owned' /\ Steady(<<>>, {})'
    BY <1>1, <2>1, <2>2 DEF Owned, Steady
  <2> DEFINE abort == <<SetStatusTo(j, "Aborted"),
                        [op |-> "setErrorType", job |-> j, type |-> "NotSolveable"]>>
  <2>4. abort \in Seq(Plain)
    <3>1. SetStatusTo(j, "Aborted") \in Plain
      BY <1>4, <2>1 DEF Statuses
    <3> QED
      BY <1>4, <3>1, ShortSeq
  <2>5. Handle("brokenUrl", abort) \/ Handle("connectionsErrors", <<OnJob("stop", j)>>)
    BY <1>15 DEF BrokenUrl, ConnectionsErrors, Event
  <2> HIDE DEF abort
  <2> QED
    BY <1>5, <2>3, <2>4, <2>5, PlainEvent
<1>16. ASSUME NEW b \in BOOLEAN, MmsResult(j, b) PROVE WInv'
  <2> DEFINE finish == IF b THEN <<SetStatusTo(j, "Finished")>> ELSE <<>>
             restart == IF retry[j] THEN <<OnJob("start", j)>> ELSE <<>>
  <2>1. /\ j \in MmsJobs /\ j \notin Busy /\ j \in alive
        /\ Handle("mmsResult", finish \o restart)
        /\ worker' = [worker EXCEPT ![j] = FALSE] /\ retry' = [retry EXCEPT ![j] = FALSE]
        /\ UNCHANGED <<moving, statJobs>>
    BY <1>1, <1>16 DEF MmsResult, moveVars, Busy, KioJobs, Owned
  <2>2. Owned' /\ Steady(restart, {})'
    BY <1>1, <1>3, <2>1 DEF Owned, Steady, Busy, KioJobs
  <2>3. finish \in Seq(Plain) /\ restart \in Seq(Calls)
    BY <1>5, <1>7, <2>1, ShortSeq DEF Statuses
  <2>4. Ending(restart)'
    BY <1>1, <2>1 DEF Ending
  <2>5. PICK rest : rest = restart
    OBVIOUS
  <2>6. Steady(rest, {})' /\ Ending(rest)'
    BY <1>1, <1>3, <2>1, <2>4, <2>5 DEF Owned, Steady, Busy, KioJobs, Ending
  <2> HIDE DEF finish, restart
  <2> QED
    BY <2>1, <2>2, <2>3, <2>5, <2>6, EndingEvent
<1> QED
  BY <1>9, <1>10, <1>11, <1>12, <1>13, <1>14, <1>15, <1>16 DEF WorkerEvent

-----------------------------------------------------------------------------
(* The theorem.                                                            *)

\* Restored transfers have no workers.
LEMMA InitFit == IInv /\ Init => WInv
<1> SUFFICES ASSUME IInv, Init PROVE WInv
  OBVIOUS
<1>1. Owned /\ Steady(<<>>, {})
  BY DEF Init, Owned, Steady, Busy, KioJobs
<1>2. \A c \in Calls : c.op \in CommandOps => c \in Plain
  BY DEF Plain, CommandOps
<1>3. calls \in Seq(Plain)
  BY <1>2, CallLists DEF Init, CommandOps, QueueOps
<1>4. calls \o <<>> = calls /\ <<>> \in Seq(Calls)
  BY <1>3, ConcatEmptySeq, ShortSeq
<1>5. Ending(<<>>)
  BY DEF Ending
<1> QED
  BY <1>1, <1>3, <1>4, <1>5 DEF WInv, WorkCallsOK

\* Every step of the specification keeps the invariant of the workers.
LEMMA NextFit == IInv /\ LInv /\ MovesOK /\ WInv /\ [Next]_vars => WInv'
<1> SUFFICES ASSUME IInv, LInv, MovesOK, WInv, [Next]_vars PROVE WInv'
  OBVIOUS
<1>1. CASE UNCHANGED vars
  <2>1. UNCHANGED <<worker, moving, retry, statJobs, status, alive, calls, updating>>
    BY <1>1 DEF vars, pluginVars, statusVars, jobVars, loopVars
  <2>2. Owned' /\ (\A rest, but : Steady(rest, but) => Steady(rest, but)')
        /\ (\A rest : Ending(rest) => Ending(rest)') /\ Plain' = Plain
    BY <2>1 DEF WInv, Owned, Steady, Ending, Plain
  <2>3. Beginning => Beginning'
    BY <2>1, <2>2 DEF Beginning
  <2> QED
    BY <2>1, <2>2, <2>3 DEF WInv, WorkCallsOK
<1>2. CASE UserEvent
  BY <1>2, CommandFit, WorkerFit, AddFit DEF UserEvent, CommandEvent
<1>3. CASE TimerEvent \/ \E b \in BOOLEAN : Network(b)
  BY <1>3, CommandFit DEF CommandEvent
<1> QED
  BY <1>1, <1>2, <1>3, LoopFit, CallFit, WorkerFit DEF Next

\* Every step keeps what is known of the moves.
LEMMA MovesKept == IInv /\ MovesOK /\ [Next]_vars => MovesOK'
<1> SUFFICES ASSUME IInv, MovesOK, [Next]_vars PROVE MovesOK'
  OBVIOUS
<1>1. /\ moving \in [Jobs -> BOOLEAN] /\ overlapped \in [Jobs -> BOOLEAN]
      /\ moves \in [Jobs -> Nat] /\ alive \subseteq Jobs
  BY DEF IInv, DataOK, PluginTypeOK, JobTypeOK
<1>2. ASSUME UNCHANGED moveVars, alive \subseteq alive' PROVE MovesOK'
  BY <1>2 DEF MovesOK, moveVars
<1>3. ASSUME NEW j \in Jobs, PluginStart(j) \/ PluginStop(j) PROVE UNCHANGED moveVars
  BY <1>3 DEF PluginStart, PluginStop
<1>4. CASE UpdateLoop
  <2>1. UNCHANGED moveVars
    BY <1>3, <1>4, LoopJobType
       DEF UpdateLoop, KeepRunning, StopUnwanted, StartWanted, LeaveStopped, StopOverLimit,
           UpdateDone, pluginVars, moveVars
  <2>2. UNCHANGED alive
    BY <1>4 DEF UpdateLoop, KeepRunning, StopUnwanted, StartWanted, LeaveStopped, StopOverLimit,
                UpdateDone, NextJob, jobVars
  <2> QED
    BY <1>2, <2>1, <2>2
<1>5. CASE HandlerCall
  <2>1. CASE CallDestroy \/ CallDelQueue
    <3>1. PICK gone : Destroy(gone)
      BY <2>1 DEF CallDestroy, CallDelQueue
    <3> QED
      BY <1>1, <3>1 DEF Destroy, MovesOK
  <2>2. CASE CallStart \/ CallStop
    <3>1. Head(calls).job \in Jobs
      BY <1>5, <2>2, CallHead, CallFields DEF CallStart, CallStop, Calling, QueueOps
    <3> QED
      BY <1>2, <1>3, <2>2, <3>1 DEF CallStart, CallStop, jobVars
  <2>3. CASE UNCHANGED <<moveVars, alive>>
    BY <1>2, <2>3
  <2> QED
    BY <1>5, <2>1, <2>2, <2>3
       DEF HandlerCall, CallUpdate, CallSetStatus, CallSetErrorType, CallSetPolicy,
           CallSlotResultEnd, CallSetSpeed, CallHandlerStart, CallHandlerStop,
           CallFailureCheck, CallQueueStart, CallQueueStop, CallResetPolicy, CallForJobs,
           CallAppend, CallRemove, CallInsert, CallMoveTransfer, CallSetJobQueue,
           CallSetSuspended, Delegate, QueueStatusChange, Relist, pluginVars, moveVars, jobVars
<1>6. ASSUME NEW j \in Jobs, NewDestination(j) PROVE MovesOK'
  <2>1. /\ j \in alive /\ UNCHANGED alive
        /\ moving' = [moving EXCEPT ![j] = TRUE] /\ moves' = [moves EXCEPT ![j] = @ + 1]
        /\ overlapped' = [overlapped EXCEPT ![j] = overlapped[j] \/ moves[j] > 0]
    BY <1>6 DEF NewDestination, jobVars
  <2>2. moving'[j] /\ moves'[j] = moves[j] + 1 /\ (moves[j] > 0 => overlapped'[j])
    BY <1>1, <2>1
  <2>3. \A k \in Jobs \ {j} : /\ moving'[k] = moving[k] /\ moves'[k] = moves[k]
                              /\ overlapped'[k] = overlapped[k]
    BY <1>1, <2>1
  <2>4. moves[j] \in Nat
    BY <1>1
  <2> QED
    BY <2>1, <2>2, <2>3, <2>4 DEF MovesOK
<1>7. ASSUME NEW j \in Jobs, NewDestResult(j) PROVE MovesOK'
  <2>1. /\ moves[j] > 0 /\ UNCHANGED alive
        /\ moving' = [moving EXCEPT ![j] = FALSE] /\ moves' = [moves EXCEPT ![j] = @ - 1]
        /\ overlapped' = [overlapped EXCEPT ![j] = overlapped[j] /\ moves[j] > 1]
    BY <1>7 DEF NewDestResult, jobVars
  <2>2. moves'[j] = moves[j] - 1 /\ (overlapped[j] /\ moves[j] > 1 => overlapped'[j])
    BY <1>1, <2>1
  <2>3. \A k \in Jobs \ {j} : /\ moving'[k] = moving[k] /\ moves'[k] = moves[k]
                              /\ overlapped'[k] = overlapped[k]
    BY <1>1, <2>1
  <2>4. moves[j] \in Nat
    BY <1>1
  <2> QED
    BY <2>1, <2>2, <2>3, <2>4 DEF MovesOK
<1>8. ASSUME NEW j \in Jobs, WorkerEvent(j) \/ Repair(j) PROVE MovesOK'
  <2>1. NewDestResult(j) \/ UNCHANGED <<moveVars, alive>>
    BY <1>8 DEF WorkerEvent, Data, Speed, Result, Error, StatResult, BrokenUrl,
                ConnectionsErrors, MmsResult, Repair, Event, pluginVars, moveVars, jobVars
  <2> QED
    BY <1>2, <1>7, <2>1
<1>9. CASE UserEvent
  <2>1. ASSUME NEW j \in Jobs, NEW q \in Queues, NEW s \in Statuses, NEW p \in Policies,
               NEW b \in BOOLEAN, Add(j, q, s, p, b)
        PROVE  UNCHANGED moveVars /\ alive \subseteq alive'
    BY <2>1 DEF Add
  <2>2. \/ \E j \in Jobs, q \in Queues, s \in Statuses, p \in Policies, b \in BOOLEAN :
               Add(j, q, s, p, b)
        \/ \E j \in Jobs : NewDestination(j) \/ Repair(j)
        \/ UNCHANGED <<moveVars, alive>>
    BY <1>9, ZenonT(30)
       DEF UserEvent, UserStart, UserStop, Delete, StartSelected, StopSelected, GroupStart,
           GroupStop, AddGroup, DelGroup, StartAll, StopAll, SetOfflineMode, Move,
           SettingsChanged, Event, pluginVars, moveVars, jobVars
  <2>3. CASE UNCHANGED <<moveVars, alive>>
    BY <1>2, <2>3
  <2> QED
    BY <1>2, <1>6, <1>8, <2>1, <2>2, <2>3
<1>10. CASE UNCHANGED vars \/ TimerEvent \/ \E b \in BOOLEAN : Network(b)
  <2>1. UNCHANGED <<moveVars, alive>>
    BY <1>10 DEF vars, TimerEvent, Network, Event, pluginVars, moveVars, jobVars
  <2> QED
    BY <1>2, <2>1
<1> QED
  BY <1>4, <1>5, <1>8, <1>9, <1>10 DEF Next

\* Between handlers a TransferKio's copy job means that the transfer is Running and
\* its file is not being moved, unless a second move was asked for while one was under
\* way, and an MmsTransfer's promised retry has a thread to keep it (transferKio.cpp,
\* mmstransfer.cpp), whatever the order in which results, errors, moves, repairs, stops
\* and updates come.
THEOREM WorkersAlwaysFit == GroupsKept => (Spec => []WorkersFit)
<1> SUFFICES ASSUME GroupsKept PROVE Spec => []WorkersFit
  OBVIOUS
<1>1. IInv /\ WInv /\ MovesOK => WorkersFit
  <2> SUFFICES ASSUME IInv, WInv, MovesOK, Idle PROVE WorkersFit
    BY DEF WorkersFit, CopyJobOnlyWhileRunning, NoDownloadWhileMoving, RetryHasThread
  <2>1. Owned /\ Steady(<<>>, {})
    BY IdleFit DEF Idle
  <2>2. \A j \in Busy : j \in Jobs /\ (moves[j] > 0 /\ ~overlapped[j] => moving[j])
    BY DEF MovesOK, Busy, KioJobs
  <2> QED
    BY <2>1, <2>2, SchedulerAssumption
       DEF WorkersFit, CopyJobOnlyWhileRunning, NoDownloadWhileMoving, RetryHasThread, Owned,
           Steady, Busy
<1>2. IInv /\ Init => LInv /\ WInv /\ MovesOK
  BY InitListed, InitFit DEF Init, MovesOK
<1>3. IInv /\ LInv /\ WInv /\ MovesOK /\ [Next]_vars => LInv' /\ WInv' /\ MovesOK'
  BY NextListed, NextFit, MovesKept
<1> QED
  BY <1>1, <1>2, <1>3, Invariance, PTL DEF Spec

-----------------------------------------------------------------------------
(* The inductive invariant of TransfersAreListed.                          *)

InCalls(c) == c \in ToSet(calls)

\* A call that will list the transfer in its group, or destroy it.
Owes(j) ==
    \/ InCalls(AppendTo(j, jobQueue[j])) \/ InCalls(OnJob("destroy", j))
    \/ InCalls(OnQueue("delQueue", jobQueue[j]))
    \/ \E q \in Queues, after \in Jobs \cup {NoJob} : InCalls(Insert(j, q, after))
    \/ \E q \in Queues : InCalls(AssignQueue(j, q)) /\ j \in Listed(q)

\* Each transfer names a group that exists and lists it, or is about to.
HeldOK ==
    \A j \in alive : /\ jobQueue[j] \in ToSet(queues)
                     /\ j \in Listed(jobQueue[j]) \/ Owes(j)

\* Calls that bring a transfer only into a group that exists.
Grouped ==
    {c \in Calls : c.op \in {"insert", "setJobQueue", "moveTransfer"} => c.queue \in ToSet(queues)}

RInv == Once(queues) /\ HeldOK /\ calls \in Seq(Grouped)

-----------------------------------------------------------------------------
(* Lemmas about what is still to be called.                                *)

\* What two lists joined hold, a list's head and its tail, and short lists; and what
\* type a list has by what it holds.
LEMMA ToSetJoined ==
    ASSUME NEW S, NEW s \in Seq(S), NEW t \in Seq(S)
    PROVE  ToSet(s \o t) = ToSet(s) \cup ToSet(t)
<1>1. /\ s \o t \in Seq(S) /\ Len(s \o t) = Len(s) + Len(t)
      /\ \A i \in 1..(Len(s) + Len(t)) : (s \o t)[i] = IF i <= Len(s) THEN s[i] ELSE t[i - Len(s)]
  BY ConcatProperties
<1>2. Len(s) \in Nat /\ Len(t) \in Nat /\ DOMAIN s = 1..Len(s) /\ DOMAIN t = 1..Len(t)
  BY LenProperties
<1>3. DOMAIN (s \o t) = 1..(Len(s) + Len(t))
  BY <1>1, LenProperties
<1>4. ASSUME NEW x \in ToSet(s \o t) PROVE x \in ToSet(s) \cup ToSet(t)
  BY <1>1, <1>2, <1>3 DEF ToSet
<1>5. ASSUME NEW x \in ToSet(s) PROVE x \in ToSet(s \o t)
  BY <1>1, <1>2, <1>3 DEF ToSet
<1>6. ASSUME NEW x \in ToSet(t) PROVE x \in ToSet(s \o t)
  <2>1. PICK i \in 1..Len(t) : x = t[i]
    BY <1>2 DEF ToSet
  <2>2. i + Len(s) \in 1..(Len(s) + Len(t)) /\ ~(i + Len(s) <= Len(s)) /\ (i + Len(s)) - Len(s) = i
    BY <1>2
  <2>3. (s \o t)[i + Len(s)] = x
    BY <1>1, <2>1, <2>2
  <2> QED
    BY <1>3, <2>2, <2>3 DEF ToSet
<1> QED
  BY <1>4, <1>5, <1>6

\* What a list holds is its head and what its tail holds.
LEMMA ToSetHead ==
    ASSUME NEW S, NEW s \in Seq(S), s # <<>>
    PROVE  ToSet(s) = {Head(s)} \cup ToSet(Tail(s))
<1>1. /\ Len(s) \in Nat \ {0} /\ DOMAIN s = 1..Len(s) /\ Head(s) = s[1]
      /\ Tail(s) \in Seq(S) /\ Len(Tail(s)) = Len(s) - 1 /\ DOMAIN Tail(s) = 1..(Len(s) - 1)
      /\ \A i \in 1..(Len(s) - 1) : Tail(s)[i] = s[i + 1]
  BY LenProperties, HeadTailProperties, EmptySeq
<1>2. ASSUME NEW x \in ToSet(s) PROVE x \in {Head(s)} \cup ToSet(Tail(s))
  <2>1. PICK i \in 1..Len(s) : x = s[i]
    BY <1>1 DEF ToSet
  <2>2. CASE i = 1
    BY <1>1, <2>1, <2>2
  <2>3. CASE i # 1
    <3>1. i - 1 \in 1..(Len(s) - 1) /\ (i - 1) + 1 = i
      BY <1>1, <2>3
    <3> QED
      BY <1>1, <2>1, <3>1 DEF ToSet
  <2> QED
    BY <2>2, <2>3
<1>3. ASSUME NEW x \in ToSet(Tail(s)) PROVE x \in ToSet(s)
  <2>1. PICK i \in 1..(Len(s) - 1) : x = Tail(s)[i]
    BY <1>1 DEF ToSet
  <2>2. i + 1 \in 1..Len(s)
    BY <1>1
  <2> QED
    BY <1>1, <2>1, <2>2 DEF ToSet
<1>4. Head(s) \in ToSet(s)
  BY <1>1 DEF ToSet
<1> QED
  BY <1>2, <1>3, <1>4

\* A list's type is what it holds.
LEMMA ToSetType ==
    ASSUME NEW S, NEW s \in Seq(S)
    PROVE  ToSet(s) \subseteq S /\ (\A T : ToSet(s) \subseteq T => s \in Seq(T))
<1>1. DOMAIN s = 1..Len(s) /\ Len(s) \in Nat
  BY LenProperties
<1>2. ASSUME NEW T, ToSet(s) \subseteq T PROVE s \in Seq(T)
  <2>1. \A i \in 1..Len(s) : s[i] \in T
    BY <1>1, <1>2 DEF ToSet
  <2> QED
    BY <1>1, <2>1
<1> QED
  BY <1>1, <1>2 DEF ToSet

\* What the short lists hold.
LEMMA ToSetShort ==
    /\ ToSet(<<>>) = {} /\ (\A a : ToSet(<<a>>) = {a}) /\ (\A a, b : ToSet(<<a, b>>) = {a, b})
    /\ \A a, b, c : ToSet(<<a, b, c>>) = {a, b, c}
BY DEF ToSet

\* A call that was pending is made or still is; what it calls keeps to groups that
\* exist.
LEMMA CallsAfter ==
    ASSUME IInv, LInv, RInv, HandlerCall
    PROVE  /\ calls' \in Seq(Grouped)
           /\ \A c : InCalls(c) => c = Head(calls) \/ InCalls(c)'
           /\ \A c : c \in ToSet(Tail(calls)) => InCalls(c)'
<1> DEFINE c == Head(calls)
<1>1. calls # <<>> /\ c \in Calls /\ calls \in Seq(Calls) /\ Tail(calls) \in Seq(Calls)
  BY CallHead DEF IInv, StateOK
<1>2. c \in Grouped /\ Tail(calls) \in Seq(Grouped)
  BY <1>1, HeadTailProperties DEF RInv
<1>3. \A x \in Calls : x.op \in NestedOps => x \in Grouped
  BY DEF Grouped, NestedOps
<1>4. c.op = "handlerStart" => MoveTransfer(c.job, jobQueue[c.job], NoJob) \in Grouped
  <2> SUFFICES ASSUME c.op = "handlerStart"
               PROVE  MoveTransfer(c.job, jobQueue[c.job], NoJob) \in Grouped
    OBVIOUS
  <2>1. Calling("handlerStart")
    BY CallHead DEF Calling
  <2>2. c.job \in alive /\ c.job \in Jobs /\ jobQueue[c.job] \in Queues
    BY <2>1, HandlerStartAlive DEF IInv, DataOK, JobTypeOK
  <2>3. jobQueue[c.job] \in ToSet(queues)
    BY <2>2 DEF RInv, HeldOK
  <2> QED
    BY <2>2, <2>3 DEF Grouped, MoveTransfer, Calls
<1>5. c.op = "moveTransfer" => /\ Insert(c.job, c.queue, c.after) \in Grouped
                               /\ AssignQueue(c.job, c.queue) \in Grouped
  <2> SUFFICES ASSUME c.op = "moveTransfer"
               PROVE  /\ Insert(c.job, c.queue, c.after) \in Grouped
                      /\ AssignQueue(c.job, c.queue) \in Grouped
    OBVIOUS
  <2>1. /\ c.job \in Jobs /\ c.queue \in Queues /\ c.after \in Jobs \cup {NoJob}
        /\ c.queue \in ToSet(queues)
    BY <1>1, <1>2, CallFields DEF Grouped, QueueOps
  <2>2. Insert(c.job, c.queue, c.after) \in Calls /\ AssignQueue(c.job, c.queue) \in Calls
    BY <2>1 DEF Insert, AssignQueue, Calls
  <2> QED
    BY <2>1, <2>2 DEF Grouped, Insert, AssignQueue
<1>6. PICK nested \in Seq(Grouped) : calls' = nested \o Tail(calls)
  BY <1>3, <1>4, <1>5, NestedCalls
<1>7. ToSet(calls') = ToSet(nested) \cup ToSet(Tail(calls))
  BY <1>2, <1>6, ToSetJoined
<1>8. ToSet(calls) = {c} \cup ToSet(Tail(calls))
  BY <1>1, ToSetHead
<1>9. calls' \in Seq(Grouped)
  BY <1>2, <1>6, ConcatProperties
<1> QED
  BY <1>7, <1>8, <1>9 DEF InCalls

\* What a transfer owes it still owes after a call about something else.
LEMMA StillOwes ==
    ASSUME IInv, LInv, RInv, HandlerCall, NEW j, Owes(j), UNCHANGED jobQueue,
           \A q \in Queues : j \in Listed(q) => j \in Listed(q)',
           \/ Head(calls).op \notin Touching \ {"remove"}
           \/ Head(calls).op \in {"append", "insert"} /\ Head(calls).job # j
    PROVE  Owes(j)'
<1>1. /\ \A q : /\ AppendTo(j, q).op = "append" /\ AppendTo(j, q).job = j
                /\ OnQueue("delQueue", q).op = "delQueue"
                /\ AssignQueue(j, q).op = "setJobQueue"
      /\ \A q, after : Insert(j, q, after).op = "insert" /\ Insert(j, q, after).job = j
      /\ OnJob("destroy", j).op = "destroy"
  BY DEF AppendTo, OnQueue, AssignQueue, Insert, OnJob
<1>2. Head(calls) # AppendTo(j, jobQueue[j]) /\ Head(calls) # OnJob("destroy", j)
      /\ Head(calls) # OnQueue("delQueue", jobQueue[j])
      /\ \A q \in Queues : /\ Head(calls) # AssignQueue(j, q)
                           /\ \A after : Head(calls) # Insert(j, q, after)
  BY <1>1 DEF Touching
<1> QED
  BY <1>2, CallsAfter DEF Owes

\* The lists keep the transfers that they hold, one perhaps apart that is listed or
\* owed a place.
LEMMA HeldKept ==
    ASSUME IInv, LInv, RInv, HandlerCall, UNCHANGED <<alive, jobQueue, queues>>, NEW but,
           \A k \in alive \ {but}, q \in Queues : k \in Listed(q) => k \in Listed(q)',
           \/ Head(calls).op \notin Touching \ {"remove"}
           \/ Head(calls).op \in {"append", "insert"} /\ Head(calls).job = but,
           but \in alive => but \in Listed(jobQueue[but])' \/ Owes(but)'
    PROVE  RInv'
<1>1. Once(queues)' /\ Grouped' = Grouped
  BY DEF RInv, Once, Grouped
<1>2. ASSUME NEW j \in alive PROVE j \in Listed(jobQueue[j])' \/ Owes(j)'
  <2>1. jobQueue[j] \in Queues
    BY DEF IInv, DataOK, JobTypeOK
  <2>2. CASE j = but
    BY <2>2
  <2>3. CASE j # but /\ j \in Listed(jobQueue[j])
    BY <2>1, <2>3
  <2>4. CASE j # but /\ Owes(j)
    BY <2>4, StillOwes
  <2> QED
    BY <2>2, <2>3, <2>4 DEF RInv, HeldOK
<1>3. HeldOK'
  BY <1>2 DEF RInv, HeldOK
<1> QED
  BY <1>1, <1>3, CallsAfter DEF RInv

\* A call that leaves all lists alone.
LEMMA OtherHeld ==
    ASSUME IInv, LInv, RInv, HandlerCall, Head(calls).op \notin Touching \cup {"moveTransfer"}
    PROVE  RInv'
<1>1. UNCHANGED <<alive, jobQueue, queues, jobs>>
  BY DEF HandlerCall, CallUpdate, CallStart, CallStop, CallSetStatus, CallSetErrorType,
         CallSetPolicy, CallSlotResultEnd, CallSetSpeed, CallHandlerStart, CallHandlerStop,
         CallFailureCheck, CallQueueStart, CallQueueStop, CallResetPolicy, CallForJobs,
         CallAppend, CallRemove, CallInsert, CallMoveTransfer, CallSetJobQueue, CallDestroy,
         CallDelQueue, CallSetSuspended, Calling, Touching, Delegate, QueueStatusChange,
         jobVars, queueVars
<1>2. NoJob \notin alive
  BY SchedulerAssumption DEF IInv, DataOK, JobTypeOK
<1> QED
  BY <1>1, <1>2, HeldKept DEF Listed

\* JobQueue::append and insert list the transfer; it then is in its queue, or will be.
LEMMA AppendHeld == IInv /\ LInv /\ RInv /\ CallAppend => RInv'
<1> SUFFICES ASSUME IInv, LInv, RInv, CallAppend PROVE RInv'
  OBVIOUS
<1>1. PICK j \in alive, q \in Queues, list \in Seq(Jobs) :
          /\ q = jobQueue[j] /\ Head(calls) = AppendTo(j, q)
          /\ ToSet(list) = Listed(q) \cup {j} /\ Relist(q, list)
  BY AppendCall
<1>2. /\ Listed(q)' = Listed(q) \cup {j} /\ \A p \in Queues \ {q} : Listed(p)' = Listed(p)
      /\ UNCHANGED <<alive, jobQueue, queues>>
  BY <1>1, Relisted DEF Relist
<1>3. Head(calls).op = "append" /\ Head(calls).job = j
  BY <1>1 DEF AppendTo
<1>4. HandlerCall
  BY DEF HandlerCall
<1> QED
  BY <1>1, <1>2, <1>3, <1>4, HeldKept

\* TransferGroup::insert lists the moved transfer in its new group.
LEMMA InsertHeld == IInv /\ LInv /\ RInv /\ CallInsert => RInv'
<1> SUFFICES ASSUME IInv, LInv, RInv, CallInsert PROVE RInv'
  OBVIOUS
<1>1. PICK j \in alive, q \in Queues, after \in Jobs \cup {NoJob}, list \in Seq(Jobs) :
          /\ Head(calls) = Insert(j, q, after)
          /\ calls' = <<OnQueue("update", q)>> \o <<AssignQueue(j, q)>>
          /\ ToSet(list) = Listed(q) \cup {j} /\ Relist(q, list)
  BY InsertCall
<1>2. /\ Listed(q)' = Listed(q) \cup {j} /\ \A p \in Queues \ {q} : Listed(p)' = Listed(p)
      /\ UNCHANGED <<alive, jobQueue, queues>>
  BY <1>1, Relisted DEF Relist
<1>3. Head(calls).op = "insert" /\ Head(calls).job = j
  BY <1>1 DEF Insert
<1>4. HandlerCall
  BY DEF HandlerCall
<1>5. InCalls(AssignQueue(j, q))'
  <2>1. calls' = <<OnQueue("update", q), AssignQueue(j, q)>>
    BY <1>1, Pair
  <2>2. ToSet(calls') = {OnQueue("update", q), AssignQueue(j, q)}
    BY <2>1, ToSetShort
  <2> QED
    BY <2>2 DEF InCalls
<1>6. Owes(j)'
  BY <1>2, <1>5 DEF Owes
<1> QED
  BY <1>2, <1>3, <1>4, <1>6, HeldKept

\* JobQueue::remove takes the transfer out that is then destroyed.
LEMMA RemoveHeld == IInv /\ LInv /\ RInv /\ CallRemove => RInv'
<1> SUFFICES ASSUME IInv, LInv, RInv, CallRemove PROVE RInv'
  OBVIOUS
<1>1. PICK j \in Jobs, q \in Queues :
          /\ Relist(q, Without(jobs[q], j))
          /\ calls' = <<OnQueue("update", q)>> \o <<OnJob("destroy", j)>>
  BY RemoveCall
<1>2. /\ \A k \in alive \ {j}, p \in Queues : k \in Listed(p) => k \in Listed(p)'
      /\ UNCHANGED <<alive, jobQueue, queues>>
  <2>1. jobs[q] \in Seq(Jobs) /\ Once(jobs[q])
    BY DEF IInv, DataOK, QueueTypeOK, LInv, ListsOK
  <2>2. Without(jobs[q], j) \in Seq(Jobs) /\ ToSet(Without(jobs[q], j)) = Listed(q) \ {j}
    BY <2>1, WithoutOnce DEF Listed
  <2>3. /\ Listed(q)' = Listed(q) \ {j} /\ \A p \in Queues \ {q} : Listed(p)' = Listed(p)
        /\ UNCHANGED <<alive, jobQueue>>
    BY <1>1, <2>2, Relisted
  <2> QED
    BY <1>1, <2>3 DEF Relist
<1>3. Head(calls).op = "remove" /\ HandlerCall
  BY DEF CallRemove, Calling, HandlerCall
<1>4. Owes(j)'
  <2>1. calls' = <<OnQueue("update", q), OnJob("destroy", j)>>
    BY <1>1, Pair
  <2>2. ToSet(calls') = {OnQueue("update", q), OnJob("destroy", j)}
    BY <2>1, ToSetShort
  <2> QED
    BY <2>2 DEF InCalls, Owes
<1> QED
  BY <1>2, <1>3, <1>4, HeldKept

\* TransferTreeModel::moveTransfer keeps the transfer in its list, or is about to
\* insert it into another.
LEMMA MoveHeld == IInv /\ LInv /\ RInv /\ CallMoveTransfer => RInv'
<1> SUFFICES ASSUME IInv, LInv, RInv, CallMoveTransfer PROVE RInv'
  OBVIOUS
<1>1. PICK j \in alive, q \in Queues, after \in Jobs \cup {NoJob}, old \in Queues :
          /\ old = jobQueue[j]
          /\ \/ Delegate(<<>>)
             \/ q = old /\ Relist(q, InsertAfter(Without(jobs[q], j), j, after))
             \/ /\ q # old /\ Relist(old, Without(jobs[old], j))
                /\ calls' = <<OnQueue("update", old)>> \o <<Insert(j, q, after), AssignQueue(j, q)>>
  BY MoveCall, ZenonT(30)
<1>2. /\ Head(calls).op \notin Touching \ {"remove"} /\ HandlerCall
      /\ j \in Jobs /\ jobs[old] \in Seq(Jobs) /\ Once(jobs[old])
  BY DEF CallMoveTransfer, Calling, HandlerCall, Touching, IInv, DataOK, JobTypeOK, QueueTypeOK,
         LInv, ListsOK
<1> DEFINE others == Without(jobs[old], j)
           list == InsertAfter(others, j, after)
<1>3. others \in Seq(Jobs) /\ Once(others) /\ ToSet(others) = Listed(old) \ {j}
  BY <1>2, WithoutOnce DEF Listed
<1>4. list \in Seq(Jobs) /\ ToSet(list) = Listed(old) \cup {j}
  <2> HIDE DEF others
  <2> QED
    BY <1>2, <1>3, InsertOnce
<1>5. NoJob \notin alive
  BY SchedulerAssumption DEF IInv, DataOK, JobTypeOK
<1>6. CASE Delegate(<<>>)
  <2>1. UNCHANGED <<alive, jobQueue, queues, jobs>>
    BY <1>6 DEF Delegate, jobVars, queueVars
  <2> QED
    BY <1>2, <1>5, <2>1, HeldKept DEF Listed
<1>7. CASE q = old /\ Relist(q, InsertAfter(Without(jobs[q], j), j, after))
  <2>1. Relist(old, list)
    BY <1>7
  <2> HIDE DEF list
  <2>2. /\ Listed(old)' = Listed(old) \cup {j}
        /\ \A p \in Queues \ {old} : Listed(p)' = Listed(p)
        /\ UNCHANGED <<alive, jobQueue>>
    BY <1>4, <2>1, Relisted
  <2>3. /\ \A k \in alive, p \in Queues : k \in Listed(p) => k \in Listed(p)'
        /\ UNCHANGED queues
    BY <2>1, <2>2 DEF Relist
  <2> QED
    BY <1>2, <1>5, <2>2, <2>3, HeldKept
<1>8. CASE /\ Relist(old, others)
           /\ calls' = <<OnQueue("update", old)>> \o <<Insert(j, q, after), AssignQueue(j, q)>>
  <2> HIDE DEF others
  <2>1. /\ Listed(old)' = Listed(old) \ {j}
        /\ \A p \in Queues \ {old} : Listed(p)' = Listed(p)
        /\ UNCHANGED <<alive, jobQueue>>
    BY <1>3, <1>8, Relisted
  <2>2. /\ \A k \in alive \ {j}, p \in Queues : k \in Listed(p) => k \in Listed(p)'
        /\ UNCHANGED queues
    BY <1>8, <2>1 DEF Relist
  <2>3. calls' = <<OnQueue("update", old), Insert(j, q, after), AssignQueue(j, q)>>
    BY <1>8, Triple
  <2>4. ToSet(calls') = {OnQueue("update", old), Insert(j, q, after), AssignQueue(j, q)}
    BY <2>3, ToSetShort
  <2>5. Owes(j)'
    BY <2>4 DEF InCalls, Owes
  <2> QED
    BY <1>2, <2>1, <2>2, <2>5, HeldKept
<1> QED
  BY <1>1, <1>6, <1>7, <1>8

\* What a handler's last call can owe a transfer.
LEMMA LastOwes ==
    ASSUME NEW c, calls = <<c>>, NEW j, Owes(j)
    PROVE  \/ c.op \in {"append", "destroy", "insert"} /\ c.job = j
           \/ c = OnQueue("delQueue", jobQueue[j])
           \/ \E q \in Queues : c = AssignQueue(j, q) /\ j \in Listed(q)
<1>1. ToSet(calls) = {c}
  BY ToSetShort
<1>2. \A x : InCalls(x) => x = c
  BY <1>1 DEF InCalls
<1>3. /\ \A q : AppendTo(j, q).op = "append" /\ AppendTo(j, q).job = j
      /\ OnJob("destroy", j).op = "destroy" /\ OnJob("destroy", j).job = j
      /\ \A q, after : Insert(j, q, after).op = "insert" /\ Insert(j, q, after).job = j
  BY DEF AppendTo, OnJob, Insert
<1> QED
  BY <1>2, <1>3 DEF Owes

\* Job::setQueue gives the transfer the group that lists it.
LEMMA AssignHeld == IInv /\ LInv /\ RInv /\ CallSetJobQueue => RInv'
<1> SUFFICES ASSUME IInv, LInv, RInv, CallSetJobQueue PROVE RInv'
  OBVIOUS
<1>1. PICK j \in alive, q \in Queues :
          /\ \A p \in Queues \ {q} : j \notin Listed(p)
          /\ calls = <<AssignQueue(j, q)>> /\ calls' = <<>>
          /\ jobQueue' = [jobQueue EXCEPT ![j] = q] /\ UNCHANGED <<alive, owner, jobs, queues>>
  BY AssignCall
<1>2. alive \subseteq Jobs /\ jobQueue \in [Jobs -> Queues]
  BY DEF IInv, DataOK, JobTypeOK
<1>3. q \in ToSet(queues)
  <2>1. Head(calls) = AssignQueue(j, q) /\ Head(calls) \in Grouped
    BY <1>1, LastCalls, HeadTailProperties DEF RInv
  <2> QED
    BY <2>1 DEF Grouped, AssignQueue
<1>4. ASSUME NEW k \in alive, Owes(k) PROVE k = j /\ j \in Listed(q)
  <2>1. PICK c : c = AssignQueue(j, q)
    OBVIOUS
  <2>2. /\ c.op = "setJobQueue" /\ c.job = j /\ c.queue = q
        /\ \A p : OnQueue("delQueue", p).op = "delQueue"
        /\ \A p : AssignQueue(k, p).job = k /\ AssignQueue(k, p).queue = p
    BY <2>1 DEF AssignQueue, OnQueue
  <2>3. calls = <<c>>
    BY <1>1, <2>1
  <2> QED
    BY <1>4, <2>2, <2>3, LastOwes
<1>5. ASSUME NEW k \in alive PROVE jobQueue'[k] \in ToSet(queues) /\ k \in Listed(jobQueue'[k])
  <2>1. jobQueue[k] \in ToSet(queues) /\ (k \in Listed(jobQueue[k]) \/ Owes(k)) /\ jobQueue[k] \in Queues
    BY <1>2 DEF RInv, HeldOK
  <2>2. CASE k # j
    BY <1>1, <1>2, <1>4, <2>1, <2>2
  <2>3. CASE k = j
    BY <1>1, <1>2, <1>3, <1>4, <2>1, <2>3
  <2> QED
    BY <2>2, <2>3
<1>6. HeldOK'
  BY <1>1, <1>5 DEF HeldOK, Listed
<1>7. Once(queues)' /\ calls' \in Seq(Grouped')
  BY <1>1, ShortSeq DEF RInv, Once
<1> QED
  BY <1>6, <1>7 DEF RInv

\* The deletion of a transfer leaves the others listed.
LEMMA DestroyHeld == IInv /\ LInv /\ RInv /\ CallDestroy => RInv'
<1> SUFFICES ASSUME IInv, LInv, RInv, CallDestroy PROVE RInv'
  OBVIOUS
<1>1. PICK j \in Jobs : /\ calls = <<OnJob("destroy", j)>> /\ calls' = <<>>
                        /\ Destroy({j}) /\ UNCHANGED queueVars
  BY DestroyCall
<1>2. alive' = alive \ {j} /\ UNCHANGED <<jobQueue, jobs, queues>>
  BY <1>1 DEF Destroy, queueVars
<1>3. ASSUME NEW k \in alive \ {j} PROVE ~Owes(k)
  <2>1. PICK c : c = OnJob("destroy", j)
    OBVIOUS
  <2>2. /\ c.op = "destroy" /\ c.job = j
        /\ \A p : OnQueue("delQueue", p).op = "delQueue" /\ AssignQueue(k, p).op = "setJobQueue"
    BY <2>1 DEF AssignQueue, OnQueue, OnJob
  <2>3. calls = <<c>>
    BY <1>1, <2>1
  <2> QED
    BY <2>2, <2>3, LastOwes
<1>4. HeldOK'
  BY <1>2, <1>3 DEF RInv, HeldOK, Listed
<1>5. Once(queues)' /\ calls' \in Seq(Grouped')
  BY <1>1, <1>2, ShortSeq DEF RInv, Once
<1> QED
  BY <1>4, <1>5 DEF RInv

\* So does the deletion of a group, with all transfers that name it.
LEMMA DelQueueHeld == IInv /\ LInv /\ RInv /\ CallDelQueue => RInv'
<1> SUFFICES ASSUME IInv, LInv, RInv, CallDelQueue PROVE RInv'
  OBVIOUS
<1>1. PICK q, gone :
          /\ q \in Queues
          /\ calls = <<OnQueue("delQueue", q)>> /\ calls' = <<>>
          /\ Destroy(gone) /\ UNCHANGED jobs /\ queues' = Without(queues, q)
          /\ gone = {j \in alive : jobQueue[j] = q}
  BY DelQueueCall
<1>2. alive' = alive \ gone /\ UNCHANGED <<jobQueue, jobs>>
  BY <1>1 DEF Destroy
<1>3. Once(queues') /\ ToSet(queues') = ToSet(queues) \ {q}
  BY <1>1, WithoutOnce DEF RInv, IInv, DataOK, QueueTypeOK
<1>4. ASSUME NEW k \in alive \ gone PROVE ~Owes(k)
  <2>1. PICK c : c = OnQueue("delQueue", q)
    OBVIOUS
  <2>2. /\ c.op = "delQueue" /\ c.queue = q
        /\ \A p : OnQueue("delQueue", p).queue = p /\ AssignQueue(k, p).op = "setJobQueue"
    BY <2>1 DEF AssignQueue, OnQueue
  <2>3. calls = <<c>>
    BY <1>1, <2>1
  <2>4. jobQueue[k] # q
    BY <1>1
  <2> QED
    BY <2>2, <2>3, <2>4, LastOwes
<1>5. HeldOK'
  BY <1>1, <1>2, <1>3, <1>4 DEF RInv, HeldOK, Listed
<1>6. Once(queues)' /\ calls' \in Seq(Grouped')
  BY <1>1, <1>3, ShortSeq DEF Once
<1> QED
  BY <1>5, <1>6 DEF RInv

\* Every call of a handler.
LEMMA CallHeld == IInv /\ LInv /\ RInv /\ HandlerCall => RInv'
<1> SUFFICES ASSUME IInv, LInv, RInv, HandlerCall PROVE RInv'
  OBVIOUS
<1>1. CASE Head(calls).op \notin Touching \cup {"moveTransfer"}
  BY <1>1, OtherHeld
<1>2. CASE Head(calls).op \in Touching \cup {"moveTransfer"}
  BY <1>2, AppendHeld, InsertHeld, RemoveHeld, MoveHeld, AssignHeld, DestroyHeld, DelQueueHeld
     DEF HandlerCall, CallUpdate, CallStart, CallStop, CallSetStatus, CallSetErrorType,
         CallSetPolicy, CallSlotResultEnd, CallSetSpeed, CallHandlerStart, CallHandlerStop,
         CallFailureCheck, CallQueueStart, CallQueueStop, CallResetPolicy, CallForJobs,
         CallAppend, CallRemove, CallInsert, CallMoveTransfer, CallSetJobQueue, CallDestroy,
         CallDelQueue, CallSetSuspended, Calling, Touching
<1> QED
  BY <1>1, <1>2

-----------------------------------------------------------------------------
(* The events.                                                             *)

\* What the events of the plug-ins' workers call.
WorkerOps == {"start", "stop", "setStatus", "setSpeed", "setErrorType", "slotResultEnd"}

\* The calls that an event of a worker makes; it changes no list and no status itself.
LEMMA WorkerCalls ==
    ASSUME IInv, NEW T, \A c \in Calls : c.op \in WorkerOps => c \in T,
           NEW j \in Jobs, WorkerEvent(j) \/ NewDestination(j) \/ Repair(j)
    PROVE  /\ \E event \in Events, todo \in Seq(T) : Handle(event, todo)
           /\ UNCHANGED <<statusVars, jobVars, queueVars, schedVars>>
<1>1. /\ \A s \in Statuses : SetStatusTo(j, s) \in T
      /\ \A op \in {"start", "stop", "slotResultEnd"} : OnJob(op, j) \in T
      /\ \A b \in BOOLEAN : SetSpeed(j, b) \in T
      /\ [op |-> "setErrorType", job |-> j, type |-> "NotSolveable"] \in T
  BY CallLists DEF WorkerOps, JobOps, ErrorTypes
<1>2. ASSUME Data(j) PROVE \E event \in Events, todo \in Seq(T) : Handle(event, todo)
  <2>1. <<SetStatusTo(j, "Running")>> \in Seq(T)
    BY <1>1, ShortSeq DEF Statuses
  <2> QED
    BY <1>2, <2>1 DEF Data, Event, Handle
<1>3. ASSUME NEW b \in BOOLEAN, Speed(j, b)
      PROVE  \E event \in Events, todo \in Seq(T) : Handle(event, todo)
  <2> DEFINE now == IF status[j] # "Running" /\ moving[j] THEN "Moving" ELSE "Running"
             works == b /\ status[j] = "Running"
  <2>1. now \in Statuses /\ works \in BOOLEAN
    BY DEF Statuses
  <2>2. \/ Event("speed", <<SetStatusTo(j, now), SetSpeed(j, b)>>)
        \/ Event("speed", <<SetSpeed(j, works)>>)
    BY <1>3 DEF Speed
  <2> HIDE DEF now, works
  <2>3. <<SetStatusTo(j, now), SetSpeed(j, b)>> \in Seq(T) /\ <<SetSpeed(j, works)>> \in Seq(T)
    BY <1>1, <2>1, ShortSeq
  <2> QED
    BY <2>2, <2>3 DEF Event, Handle
<1>4. ASSUME Result(j) \/ Error(j) \/ StatResult(j)
      PROVE  \E event \in Events, todo \in Seq(T) : Handle(event, todo)
  <2>1. \A s \in Statuses : /\ <<SetStatusTo(j, s)>> \in Seq(T)
                            /\ <<SetStatusTo(j, s), OnJob("slotResultEnd", j)>> \in Seq(T)
    BY <1>1, ShortSeq
  <2> QED
    BY <1>4, <2>1 DEF Result, Error, StatResult, Event, Handle, Statuses
<1>5. ASSUME NewDestination(j) \/ NewDestResult(j) \/ Repair(j)
      PROVE  \E event \in Events, todo \in Seq(T) : Handle(event, todo)
  <2>1. /\ <<OnJob("stop", j), SetStatusTo(j, "Moving")>> \in Seq(T)
        /\ <<OnJob("start", j)>> \in Seq(T)
    BY <1>1, ShortSeq DEF Statuses
  <2> QED
    BY <1>5, <2>1 DEF NewDestination, NewDestResult, Repair, Handle
<1>6. ASSUME BrokenUrl(j) \/ ConnectionsErrors(j)
      PROVE  \E event \in Events, todo \in Seq(T) : Handle(event, todo)
  <2>1. /\ <<SetStatusTo(j, "Aborted"), [op |-> "setErrorType", job |-> j, type |-> "NotSolveable"]>>
           \in Seq(T)
        /\ <<OnJob("stop", j)>> \in Seq(T)
    BY <1>1, ShortSeq DEF Statuses
  <2> QED
    BY <1>6, <2>1 DEF BrokenUrl, ConnectionsErrors, Event, Handle
<1>7. ASSUME NEW b \in BOOLEAN, MmsResult(j, b)
      PROVE  \E event \in Events, todo \in Seq(T) : Handle(event, todo)
  <2> DEFINE finish == IF b THEN <<SetStatusTo(j, "Finished")>> ELSE <<>>
             restart == IF retry[j] THEN <<OnJob("start", j)>> ELSE <<>>
  <2>1. finish \in Seq(T) /\ restart \in Seq(T)
    BY <1>1, ShortSeq DEF Statuses
  <2>2. Handle("mmsResult", finish \o restart)
    BY <1>7 DEF MmsResult
  <2> HIDE DEF finish, restart
  <2>3. finish \o restart \in Seq(T)
    BY <2>1, ConcatProperties
  <2> QED
    BY <2>2, <2>3 DEF Handle
<1>8. UNCHANGED <<statusVars, jobVars, queueVars, schedVars>>
  BY DEF WorkerEvent, Data, Speed, Result, Error, StatResult, NewDestResult, BrokenUrl,
         ConnectionsErrors, MmsResult, NewDestination, Repair, Event
<1> QED
  BY <1>2, <1>3, <1>4, <1>5, <1>6, <1>7, <1>8 DEF WorkerEvent

\* In the event loop each transfer is listed in its group.
LEMMA IdleHeld ==
    ASSUME IInv, RInv, handler = "none"
    PROVE  \A j \in alive : jobQueue[j] \in ToSet(queues) /\ j \in Listed(jobQueue[j])
<1>1. calls = <<>>
  BY DEF IInv, StateOK, HandlerOK
<1>2. \A j : ~Owes(j)
  BY <1>1, ToSetShort DEF Owes, InCalls
<1> QED
  BY <1>2 DEF RInv, HeldOK

\* An event that leaves transfers, lists and groups as they are.
LEMMA SameHeld ==
    ASSUME IInv, RInv, NEW event, NEW todo \in Seq(Grouped), Handle(event, todo),
           UNCHANGED <<alive, jobQueue, queues, jobs>>
    PROVE  RInv'
<1>1. handler = "none" /\ calls' = todo /\ Grouped' = Grouped
  BY DEF Handle, Grouped
<1>2. HeldOK'
  BY <1>1, IdleHeld DEF HeldOK, Listed
<1> QED
  BY <1>1, <1>2 DEF RInv, Once

\* The user, the network, the settings and the timer.
LEMMA CommandHeld == IInv /\ RInv /\ CommandEvent => RInv'
<1> SUFFICES ASSUME IInv, RInv, CommandEvent PROVE RInv'
  OBVIOUS
<1>1. /\ \A c \in Calls : c.op \in CommandOps => c \in Grouped
      /\ alive \subseteq Jobs /\ queues \in Seq(Queues) /\ ToSet(queues) \subseteq Queues
  <2>1. queues \in Seq(Queues) /\ alive \subseteq Jobs
    BY DEF IInv, DataOK, QueueTypeOK, JobTypeOK
  <2> QED
    BY <2>1, LenProperties DEF Grouped, CommandOps, ToSet
<1>2. ASSUME NEW j \in alive, NEW q \in ToSet(queues), NEW after \in Jobs \cup {NoJob}
      PROVE  MoveTransfer(j, q, after) \in Grouped
  BY <1>1 DEF Grouped, MoveTransfer, Calls
<1>3. PICK event \in Events, todo \in Seq(Grouped) : Handle(event, todo)
  BY <1>1, <1>2, CommandCalls
<1>4. UNCHANGED <<alive, jobQueue>>
  BY <1>1, <1>2, CommandCalls
<1>5. handler = "none" /\ calls' = todo
  BY <1>3 DEF Handle
<1>6. CASE UNCHANGED <<queues, jobs>>
  BY <1>3, <1>4, <1>6, SameHeld
<1>7. ASSUME NEW q \in Queues, AddGroup(q) PROVE RInv'
  <2>1. q \notin ToSet(queues) /\ queues' = Append(queues, q) /\ jobs' = jobs /\ calls' = <<>>
    BY <1>7 DEF AddGroup, Handle
  <2>2. Once(queues') /\ ToSet(queues') = ToSet(queues) \cup {q}
    BY <1>1, <2>1, AppendOnce DEF RInv
  <2>3. HeldOK'
    BY <1>4, <1>5, <2>1, <2>2, IdleHeld DEF HeldOK, Listed
  <2> QED
    BY <2>1, <2>2, <2>3, ShortSeq DEF RInv, Once
<1>8. ASSUME NEW q \in Queues, DelGroup(q) PROVE RInv'
  <2>1. /\ jobs' = [jobs EXCEPT ![q] = <<>>] /\ UNCHANGED queues
        /\ calls' = <<OnQueue("update", q), OnQueue("delQueue", q)>>
    BY <1>8 DEF DelGroup, Handle
  <2>2. InCalls(OnQueue("delQueue", q))'
    <3>1. ToSet(calls') = {OnQueue("update", q), OnQueue("delQueue", q)}
      BY <2>1, ToSetShort
    <3> QED
      BY <3>1 DEF InCalls
  <2>3. \A p \in Queues \ {q} : Listed(p)' = Listed(p)
    BY <2>1 DEF Listed, IInv, DataOK, QueueTypeOK
  <2>4. ASSUME NEW j \in alive PROVE j \in Listed(jobQueue[j])' \/ Owes(j)'
    <3>1. jobQueue[j] \in Queues /\ j \in Listed(jobQueue[j])
      BY <1>1, <1>5, IdleHeld
    <3>2. CASE jobQueue[j] = q
      BY <1>4, <2>2, <3>2 DEF Owes
    <3>3. CASE jobQueue[j] # q
      BY <1>4, <2>3, <3>1, <3>3
    <3> QED
      BY <3>2, <3>3
  <2>5. HeldOK'
    BY <1>4, <1>5, <2>1, <2>4, IdleHeld DEF HeldOK
  <2>6. Grouped' = Grouped /\ Once(queues)'
    BY <2>1 DEF Grouped, RInv, Once
  <2> QED
    BY <1>5, <2>5, <2>6 DEF RInv
<1>9. \/ UNCHANGED <<queues, jobs>> \/ \E q \in Queues : AddGroup(q) \/ DelGroup(q)
  BY DEF CommandEvent, UserStart, UserStop, Delete, StartSelected, StopSelected, GroupStart,
         GroupStop, StartAll, StopAll, SetOfflineMode, Move, SettingsChanged, Network,
         TimerEvent, Event, queueVars
<1> QED
  BY <1>6, <1>7, <1>8, <1>9

\* The workers' events, and a new transfer that is about to be listed.
LEMMA WorkerHeld ==
    ASSUME IInv, RInv, NEW j \in Jobs, WorkerEvent(j) \/ NewDestination(j) \/ Repair(j)
    PROVE  RInv'
<1>1. \A c \in Calls : c.op \in WorkerOps => c \in Grouped
  BY DEF Grouped, WorkerOps
<1>2. PICK event \in Events, todo \in Seq(Grouped) : Handle(event, todo)
  BY <1>1, WorkerCalls
<1>3. UNCHANGED <<alive, jobQueue, queues, jobs>>
  BY <1>1, WorkerCalls DEF jobVars, queueVars
<1> QED
  BY <1>2, <1>3, SameHeld

\* A transfer added is owed its place in the group's list.
LEMMA AddHeld ==
    ASSUME IInv, RInv, NEW j \in Jobs, NEW q \in Queues, NEW s \in Statuses, NEW p \in Policies,
           NEW start \in BOOLEAN, Add(j, q, s, p, start)
    PROVE  RInv'
<1> DEFINE begin == <<SetStatusTo(j, s), SetPolicy(j, p), AppendTo(j, q)>>
           last == IF start THEN <<OnJob("handlerStart", j)>> ELSE <<>>
<1>1. /\ handler = "none" /\ calls' = begin \o last /\ q \in ToSet(queues) /\ j \notin alive
      /\ alive' = alive \cup {j} /\ jobQueue' = [jobQueue EXCEPT ![j] = q]
      /\ UNCHANGED <<queues, jobs>>
  BY DEF Add, Handle, AppendTo, queueVars
<1>2. begin \in Seq(Grouped) /\ last \in Seq(Grouped)
  <2>1. \A c \in Calls : c.op \in {"setStatus", "setPolicy", "append", "handlerStart"} => c \in Grouped
    BY DEF Grouped
  <2>2. /\ SetStatusTo(j, s) \in Grouped /\ SetPolicy(j, p) \in Grouped
        /\ AppendTo(j, q) \in Grouped
    BY <2>1, CallLists
  <2>3. OnJob("handlerStart", j) \in Grouped
    BY <2>1, CallLists DEF JobOps
  <2> QED
    BY <2>2, <2>3, ShortSeq
<1>3. ToSet(begin) = {SetStatusTo(j, s), SetPolicy(j, p), AppendTo(j, q)}
  BY ToSetShort
<1> HIDE DEF begin, last
<1>4. calls' \in Seq(Grouped) /\ ToSet(calls') = ToSet(begin) \cup ToSet(last)
  BY <1>1, <1>2, ToSetJoined, ConcatProperties
<1>5. InCalls(AppendTo(j, q))'
  BY <1>3, <1>4 DEF InCalls
<1>6. alive \subseteq Jobs /\ jobQueue \in [Jobs -> Queues]
  BY DEF IInv, DataOK, JobTypeOK
<1>7. Owes(j)'
  BY <1>1, <1>5, <1>6 DEF Owes
<1>8. HeldOK'
  BY <1>1, <1>6, <1>7, IdleHeld DEF HeldOK, Listed
<1>9. Grouped' = Grouped /\ Once(queues)'
  BY <1>1 DEF Grouped, RInv, Once
<1> QED
  BY <1>4, <1>8, <1>9 DEF RInv

-----------------------------------------------------------------------------
(* The first theorem.                                                      *)

\* The restored transfers are in the restored groups.
LEMMA InitHeld == IInv /\ Init => RInv
<1> SUFFICES ASSUME IInv, Init PROVE RInv
  OBVIOUS
<1>1. Once(queues)
  BY DEF Init, IsInjective, Once
<1>2. ASSUME NEW j \in alive PROVE jobQueue[j] \in ToSet(queues) /\ j \in Listed(jobQueue[j])
  <2>1. j \in Jobs /\ (\E q \in Queues : j \in ToSet(Restored[q])) /\ jobQueue[j] = GroupOf(j)
    BY DEF Init, RestoredJobs
  <2>2. GroupOf(j) \in Queues /\ j \in ToSet(Restored[GroupOf(j)])
    BY <2>1 DEF GroupOf, RestoredJobs
  <2>3. Restored[GroupOf(j)] # <<>>
    BY <2>2, ToSetShort
  <2> QED
    BY <2>1, <2>2, <2>3 DEF Init, Listed
<1>3. HeldOK
  BY <1>2 DEF HeldOK
<1>4. \A c \in Calls : c.op \in CommandOps => c \in Grouped
  BY DEF Grouped, CommandOps
<1>5. calls \in Seq(Grouped)
  BY <1>4, CallLists DEF Init, CommandOps, QueueOps
<1> QED
  BY <1>1, <1>3, <1>5 DEF RInv

\* Every step of the specification keeps the invariant.
LEMMA NextHeld == IInv /\ LInv /\ RInv /\ [Next]_vars => RInv'
<1> SUFFICES ASSUME IInv, LInv, RInv, [Next]_vars PROVE RInv'
  OBVIOUS
<1>1. CASE UpdateLoop \/ UNCHANGED vars
  <2>1. UNCHANGED <<alive, jobQueue, queues, jobs, calls>>
    BY <1>1 DEF UpdateLoop, KeepRunning, StopUnwanted, StartWanted, LeaveStopped, StopOverLimit,
                UpdateDone, NextJob, jobVars, queueVars, vars
  <2>2. (\A j : Owes(j)' <=> Owes(j)) /\ Grouped' = Grouped
    BY <2>1 DEF Owes, InCalls, Listed, Grouped
  <2> QED
    BY <2>1, <2>2 DEF RInv, Once, HeldOK, Listed
<1>2. CASE UserEvent
  BY <1>2, CommandHeld, WorkerHeld, AddHeld DEF UserEvent, CommandEvent
<1>3. CASE TimerEvent \/ \E b \in BOOLEAN : Network(b)
  BY <1>3, CommandHeld DEF CommandEvent
<1> QED
  BY <1>1, <1>2, <1>3, CallHeld, WorkerHeld DEF Next

\* "A transfer must always belong to a TransferGroup" (kget.cpp, createTransfers and
\* delGroup): between handlers the groups list exactly the transfers that exist, each
\* in the queue that it names.
THEOREM TransfersAlwaysListed == GroupsKept => (Spec => []TransfersAreListed)
<1> SUFFICES ASSUME GroupsKept PROVE Spec => []TransfersAreListed
  OBVIOUS
<1>1. IInv /\ LInv /\ RInv => TransfersAreListed
  <2> SUFFICES ASSUME IInv, LInv, RInv, Idle PROVE TransfersAreListed
    BY DEF TransfersAreListed
  <2>1. Home({}) /\ \A j \in alive : jobQueue[j] \in ToSet(queues) /\ j \in Listed(jobQueue[j])
    BY IdleHome, IdleHeld DEF Idle
  <2> QED
    BY <2>1 DEF TransfersAreListed, Home, LInv, ListsOK
<1>2. IInv /\ Init => LInv /\ RInv
  BY InitListed, InitHeld
<1>3. IInv /\ LInv /\ RInv /\ [Next]_vars => LInv' /\ RInv'
  BY NextListed, NextHeld
<1> QED
  BY <1>1, <1>2, <1>3, Invariance, PTL DEF Spec

-----------------------------------------------------------------------------
(* What stops everything: the invariants of the user's command and of the  *)
(* lost connection.                                                        *)

\* The calls of MainWindow::slotStopAllDownload: none starts a transfer.
StopOps == {"queueStop", "stopHandlers", "resetPolicy", "setPolicy", "stopJobs", "stop",
            "handlerStop", "update"}
Stopping == {c \in Calls : c.op \in StopOps /\ (c.op = "setPolicy" => c.policy # "Start")}

\* A transfer's group is stopped, or will be.
GroupStops(j) == qstatus[jobQueue[j]] = "Stopped" \/ InCalls(OnQueue("queueStop", jobQueue[j]))

\* A transfer is not started by hand, or what started it will be taken back.
Unforced(j) ==
    \/ policy[j] # "Start"
    \/ InCalls(OnQueue("stopHandlers", jobQueue[j])) \/ InCalls(OnJob("handlerStop", j))
    \/ \E p \in Policies : InCalls(SetPolicy(j, p))

\* A transfer does not run, or will be stopped: by its group, or by an update once
\* its policy has been taken back.
ToUpdate(j) ==
    updating = jobQueue[j] /\ \E i \in DOMAIN jobs[updating] : i >= pos /\ jobs[updating][i] = j
Ceases(j) ==
    \/ status[j] # "Running"
    \/ InCalls(OnQueue("queueStop", jobQueue[j])) \/ InCalls(OnQueue("stopJobs", jobQueue[j]))
    \/ InCalls(OnJob("stop", j))
    \/ /\ ShouldUpdate
       /\ policy[j] = "Start" \/ InCalls(OnQueue("update", jobQueue[j])) \/ ToUpdate(j)

StopOK == calls \in Seq(Stopping) /\ \A j \in alive : GroupStops(j) /\ Unforced(j) /\ Ceases(j)

\* Without connection each transfer has stopped, or will be told to.
LossOps == {"stopJobs", "stop", "update"}
LossOK ==
    /\ calls \in Seq({c \in Calls : c.op \in LossOps})
    /\ \A j \in alive : \/ status[j] \notin {"Running", "Moving"}
                        \/ InCalls(OnQueue("stopJobs", jobQueue[j])) \/ InCalls(OnJob("stop", j))

EInv ==
    /\ handler = "stopAll" => StopOK
    /\ handler = "network" /\ ~connected => LossOK

-----------------------------------------------------------------------------
(* Lemmas about these calls.                                               *)

\* What was to be called is, or still is to be; what a call calls is to be called.
LEMMA AfterCall ==
    ASSUME NEW T, calls \in Seq(T), calls # <<>>, NEW nested \in Seq(T),
           calls' = nested \o Tail(calls)
    PROVE  /\ calls' \in Seq(T)
           /\ \A c : InCalls(c) => c = Head(calls) \/ InCalls(c)'
           /\ \A c \in ToSet(nested) : InCalls(c)'
<1>1. Tail(calls) \in Seq(T)
  BY HeadTailProperties
<1>2. ToSet(calls') = ToSet(nested) \cup ToSet(Tail(calls)) /\ calls' \in Seq(T)
  <2>1. PICK rest \in Seq(T) : rest = Tail(calls)
    BY <1>1
  <2>2. ToSet(nested \o rest) = ToSet(nested) \cup ToSet(rest)
    BY ONLY nested \in Seq(T), rest \in Seq(T), ToSetJoined
  <2>3. nested \o rest \in Seq(T)
    BY ONLY nested \in Seq(T), rest \in Seq(T), ConcatProperties
  <2> QED
    BY <2>1, <2>2, <2>3
<1>3. ToSet(calls) = {Head(calls)} \cup ToSet(Tail(calls))
  BY ToSetHead
<1> QED
  BY <1>2, <1>3 DEF InCalls

\* A call for each job of a list, or for each group, is made for each.
LEMMA ForEach ==
    /\ \A op, s : \A j \in ToSet(s) : OnJob(op, j) \in ToSet(ForJobs(op, s))
    /\ \A op : \A q \in ToSet(queues) : OnQueue(op, q) \in ToSet(ForQueues(op))
<1>1. ASSUME NEW op, NEW s, NEW j \in ToSet(s) PROVE OnJob(op, j) \in ToSet(ForJobs(op, s))
  BY DEF ToSet, ForJobs
<1>2. ASSUME NEW op, NEW q \in ToSet(queues) PROVE OnQueue(op, q) \in ToSet(ForQueues(op))
  BY DEF ToSet, ForQueues
<1> QED
  BY <1>1, <1>2

\* What the calls are named for.
LEMMA CallParts ==
    /\ \A op, q : OnQueue(op, q).op = op /\ OnQueue(op, q).queue = q
    /\ \A op, j : OnJob(op, j).op = op /\ OnJob(op, j).job = j
    /\ \A j, p : /\ SetPolicy(j, p).op = "setPolicy" /\ SetPolicy(j, p).job = j
                 /\ SetPolicy(j, p).policy = p
BY DEF OnQueue, OnJob, SetPolicy

\* While nothing is added, deleted or moved, each transfer is listed in its group.
LEMMA ListedNow ==
    ASSUME RInv, NEW T, calls \in Seq(T),
           \A c \in T : c.op \notin {"append", "destroy", "delQueue", "insert", "setJobQueue"}
    PROVE  \A j \in alive : jobQueue[j] \in ToSet(queues) /\ j \in Listed(jobQueue[j])
<1>1. \A c : InCalls(c) => c.op \notin {"append", "destroy", "delQueue", "insert", "setJobQueue"}
  BY ToSetType DEF InCalls
<1>2. ASSUME NEW j PROVE ~Owes(j)
  <2>1. /\ \A q : AppendTo(j, q).op = "append" /\ AssignQueue(j, q).op = "setJobQueue"
        /\ \A q, after : Insert(j, q, after).op = "insert"
    BY DEF AppendTo, AssignQueue, Insert
  <2> QED
    BY <1>1, <2>1, CallParts DEF Owes
<1> QED
  BY <1>2 DEF RInv, HeldOK

-----------------------------------------------------------------------------
(* The user's command.                                                     *)

\* What a call does for a transfer that is to be stopped: what it takes back stays
\* taken back, and what it does not do itself it calls for.
Serves(j, nested) ==
    LET c == Head(calls)  q == jobQueue[j] IN
    /\ qstatus[q] = "Stopped" \/ c = OnQueue("queueStop", q) => qstatus'[q] = "Stopped"
    /\ policy[j] # "Start" \/ (\E p \in Policies : c = SetPolicy(j, p)) => policy'[j] # "Start"
    /\ status[j] # "Running" \/ c = OnJob("stop", j) => status'[j] # "Running"
    /\ ShouldUpdate /\ policy[j] = "Start" /\ policy'[j] # "Start" =>
           OnQueue("update", q) \in ToSet(nested)
    /\ c = OnQueue("queueStop", q) => OnQueue("stopJobs", q) \in ToSet(nested)
    /\ c = OnQueue("stopHandlers", q) => OnJob("handlerStop", j) \in ToSet(nested)
    /\ c = OnJob("handlerStop", j) => \E p \in Policies : SetPolicy(j, p) \in ToSet(nested)
    /\ c = OnQueue("stopJobs", q) => OnJob("stop", j) \in ToSet(nested)

\* A call that serves each transfer keeps the command's invariant.
LEMMA ServedStop ==
    ASSUME IInv, StopOK, calls # <<>>, updating = NoQueue,
           NEW nested \in Seq(Stopping), calls' = nested \o Tail(calls),
           UNCHANGED <<alive, jobQueue, suspended, connected>>,
           Head(calls).op # "update" \/ ~ShouldUpdate, \A j \in alive : Serves(j, nested)
    PROVE  StopOK'
<1>1. /\ calls' \in Seq(Stopping) /\ \A c : InCalls(c) => c = Head(calls) \/ InCalls(c)'
      /\ \A c \in ToSet(nested) : InCalls(c)'
  BY AfterCall DEF StopOK
<1>2. Stopping' = Stopping /\ (ShouldUpdate' <=> ShouldUpdate)
  BY DEF Stopping, ShouldUpdate
<1>3. ASSUME NEW j \in alive PROVE GroupStops(j)' /\ Unforced(j)' /\ Ceases(j)'
  <2>1. GroupStops(j) /\ Unforced(j) /\ Ceases(j) /\ Serves(j, nested)
    BY DEF StopOK
  <2>2. GroupStops(j)'
    BY <1>1, <2>1 DEF GroupStops, Serves, InCalls
  <2>3. Unforced(j)'
    BY <1>1, <2>1 DEF Unforced, Serves, InCalls
  <2>4. CASE \/ status[j] # "Running" \/ InCalls(OnQueue("queueStop", jobQueue[j]))
             \/ InCalls(OnQueue("stopJobs", jobQueue[j])) \/ InCalls(OnJob("stop", j))
    BY <1>1, <2>1, <2>2, <2>3, <2>4 DEF Ceases, Serves, InCalls
  <2>5. CASE ShouldUpdate /\ policy[j] = "Start"
    BY <1>1, <1>2, <2>1, <2>2, <2>3, <2>5 DEF Ceases, Serves, InCalls
  <2>6. CASE ShouldUpdate /\ InCalls(OnQueue("update", jobQueue[j]))
    <3>1. Head(calls) # OnQueue("update", jobQueue[j])
      BY <2>6, CallParts
    <3> QED
      BY <1>1, <1>2, <2>2, <2>3, <2>6, <3>1 DEF Ceases, InCalls
  <2>7. ~ToUpdate(j)
    BY SchedulerAssumption DEF ToUpdate, IInv, DataOK, JobTypeOK
  <2> QED
    BY <2>1, <2>4, <2>5, <2>6, <2>7 DEF Ceases
<1> QED
  BY <1>1, <1>2, <1>3 DEF StopOK

\* What the user's command may call.
LEMMA StoppingCalls ==
    ASSUME IInv
    PROVE  /\ \A op \in StopOps \cap JobOps : /\ \A j \in Jobs : OnJob(op, j) \in Stopping
                                              /\ \A s \in Seq(Jobs) : ForJobs(op, s) \in Seq(Stopping)
           /\ \A op \in StopOps \cap QueueOps : /\ \A q \in Queues : OnQueue(op, q) \in Stopping
                                                /\ ForQueues(op) \in Seq(Stopping)
           /\ \A j \in Jobs, p \in Policies \ {"Start"} : SetPolicy(j, p) \in Stopping
           /\ \A j \in Jobs, q \in Queues : [op |-> "resetPolicy", job |-> j, queue |-> q] \in Stopping
<1>1. \A x \in Calls : x.op \in StopOps \ {"setPolicy"} => x \in Stopping
  BY DEF Stopping
<1>2. /\ \A op \in StopOps \cap JobOps : /\ \A j \in Jobs : OnJob(op, j) \in Stopping
                                         /\ \A s \in Seq(Jobs) : ForJobs(op, s) \in Seq(Stopping)
      /\ \A op \in StopOps \cap QueueOps : /\ \A q \in Queues : OnQueue(op, q) \in Stopping
                                           /\ ForQueues(op) \in Seq(Stopping)
  BY <1>1, CallLists DEF JobOps, QueueOps
<1>3. \A j \in Jobs, q \in Queues : [op |-> "resetPolicy", job |-> j, queue |-> q] \in Stopping
  BY DEF Stopping, Calls, StopOps
<1>4. \A j \in Jobs, p \in Policies \ {"Start"} : SetPolicy(j, p) \in Stopping
  BY DEF Stopping, Calls, StopOps, SetPolicy
<1> QED
  BY <1>2, <1>3, <1>4

\* The state of the user's command at each call.
LEMMA StopState ==
    ASSUME IInv, RInv, StopOK, HandlerCall
    PROVE  /\ calls # <<>> /\ updating = NoQueue /\ Head(calls) \in Stopping
           /\ \/ CallUpdate \/ CallStop \/ CallSetPolicy \/ CallHandlerStop \/ CallQueueStop
              \/ CallResetPolicy \/ CallForJobs
           /\ \A j \in alive : /\ j \in Jobs /\ jobQueue[j] \in Queues
                               /\ jobQueue[j] \in ToSet(queues) /\ j \in Listed(jobQueue[j])
           /\ \A q \in Queues : jobs[q] \in Seq(Jobs)
<1>1. calls # <<>> /\ updating = NoQueue /\ Head(calls) \in Stopping
  BY CallHead, HeadTailProperties DEF StopOK
<1>2. \A x \in Stopping :
          x.op \notin {"append", "destroy", "delQueue", "insert", "setJobQueue"}
  BY DEF Stopping, StopOps
<1>3. \A j \in alive : jobQueue[j] \in ToSet(queues) /\ j \in Listed(jobQueue[j])
  BY <1>2, ListedNow DEF StopOK
<1>4. Head(calls).op \in StopOps
  BY <1>1 DEF Stopping
<1>5. \/ CallUpdate \/ CallStop \/ CallSetPolicy \/ CallHandlerStop \/ CallQueueStop
      \/ CallResetPolicy \/ CallForJobs
  BY <1>4
     DEF HandlerCall, CallStart, CallSetStatus, CallSetErrorType, CallSlotResultEnd, CallSetSpeed,
         CallHandlerStart, CallFailureCheck, CallQueueStart, CallAppend, CallRemove, CallInsert,
         CallMoveTransfer, CallSetJobQueue, CallDestroy, CallDelQueue, CallSetSuspended,
         Calling, StopOps
<1> QED
  BY <1>1, <1>3, <1>5 DEF IInv, DataOK, JobTypeOK, QueueTypeOK

\* JobQueue::stop and the loops over a group's transfers.
LEMMA QueueStopCeases == IInv /\ RInv /\ StopOK /\ CallQueueStop => StopOK'
<1> SUFFICES ASSUME IInv, RInv, StopOK, CallQueueStop PROVE StopOK'
  OBVIOUS
<1>1. HandlerCall /\ Head(calls).op = "queueStop"
  BY DEF HandlerCall, CallQueueStop, Calling
<1>2. PICK q \in Queues : q = Head(calls).queue
  BY <1>1, StopState, CallFields DEF Stopping, QueueOps
<1> DEFINE reset == [i \in DOMAIN jobs[q] |-> [op |-> "resetPolicy", job |-> jobs[q][i], queue |-> q]]
           nested == reset \o <<OnQueue("stopJobs", q)>>
<1>3. reset \in Seq(Stopping)
  <2>1. jobs[q] \in Seq(Jobs)
    BY <1>1, StopState
  <2>2. \A i \in 1..Len(jobs[q]) :
            [op |-> "resetPolicy", job |-> jobs[q][i], queue |-> q] \in Stopping
    BY <2>1, StoppingCalls, LenProperties
  <2> QED
    BY <2>1, <2>2, LenProperties
<1>4. calls' = nested \o Tail(calls) /\ qstatus' = [qstatus EXCEPT ![q] = "Stopped"]
      /\ UNCHANGED <<pluginVars, statusVars, jobVars, schedVars>>
  BY <1>2 DEF CallQueueStop, QueueStatusChange, Call, Return
<1> HIDE DEF reset
<1>5. <<OnQueue("stopJobs", q)>> \in Seq(Stopping)
  BY StoppingCalls DEF StopOps, QueueOps
<1>6. nested \in Seq(Stopping) /\ OnQueue("stopJobs", q) \in ToSet(nested)
  <2>1. ToSet(nested) = ToSet(reset) \cup ToSet(<<OnQueue("stopJobs", q)>>)
    BY <1>3, <1>5, ToSetJoined
  <2>2. ToSet(<<OnQueue("stopJobs", q)>>) = {OnQueue("stopJobs", q)}
    BY ToSetShort
  <2> QED
    BY <1>3, <1>5, <2>1, <2>2, ConcatProperties
<1> HIDE DEF nested
<1>7. ASSUME NEW j \in alive PROVE Serves(j, nested)
  <2>1. qstatus'[jobQueue[j]] = IF jobQueue[j] = q THEN "Stopped" ELSE qstatus[jobQueue[j]]
    BY <1>1, <1>4, StopState DEF IInv, DataOK, QueueTypeOK
  <2> QED
    BY <1>1, <1>2, <1>4, <1>6, <2>1, CallParts DEF Serves, jobVars, statusVars
<1> QED
  BY <1>1, <1>4, <1>6, <1>7, StopState, ServedStop DEF jobVars, schedVars

\* What a queue does to each of its jobs stops them all.
LEMMA ForJobsCeases == IInv /\ RInv /\ StopOK /\ CallForJobs => StopOK'
<1> SUFFICES ASSUME IInv, RInv, StopOK, CallForJobs PROVE StopOK'
  OBVIOUS
<1>1. HandlerCall /\ Head(calls).op \in {"stopJobs", "stopHandlers"}
  <2>1. HandlerCall
    BY DEF HandlerCall
  <2>2. Head(calls).op # "checkJobs"
    BY <2>1, StopState DEF Stopping, StopOps
  <2> QED
    BY <2>1, <2>2 DEF CallForJobs, Calling
<1>2. PICK q \in Queues : q = Head(calls).queue
  BY <1>1, StopState, CallFields DEF Stopping, QueueOps
<1> DEFINE op == IF Head(calls).op = "stopJobs" THEN "stop" ELSE "handlerStop"
           nested == ForJobs(op, jobs[q])
<1>3. op \in StopOps \cap JobOps
  BY DEF StopOps, JobOps
<1>4. calls' = nested \o Tail(calls)
      /\ UNCHANGED <<pluginVars, statusVars, jobVars, queueVars, schedVars>>
  BY <1>1, <1>2 DEF CallForJobs, Calling, Delegate, Call, Return
<1>5. nested \in Seq(Stopping) /\ \A j \in Listed(q) : OnJob(op, j) \in ToSet(nested)
  BY <1>1, <1>3, StopState, StoppingCalls, ForEach DEF Listed
<1> HIDE DEF nested
<1>6. ASSUME NEW j \in alive PROVE Serves(j, nested)
  <2>1. jobQueue[j] = q => OnJob(op, j) \in ToSet(nested)
    BY <1>1, <1>5, StopState
  <2> QED
    BY <1>1, <1>2, <1>4, <2>1, CallParts DEF Serves, jobVars, statusVars, queueVars
<1> QED
  BY <1>1, <1>4, <1>5, <1>6, StopState, ServedStop DEF jobVars, schedVars

\* What these call takes a transfer's policy back.
LEMMA PolicyCeases ==
    ASSUME IInv, RInv, StopOK, CallHandlerStop \/ CallResetPolicy \/ CallSetPolicy
    PROVE  StopOK'
<1>1. HandlerCall /\ Head(calls).op \in {"handlerStop", "resetPolicy", "setPolicy"}
  BY DEF HandlerCall, CallHandlerStop, CallResetPolicy, CallSetPolicy, Calling
<1>2. Head(calls) \in Stopping /\ Head(calls) \in Calls
  BY <1>1, StopState DEF Stopping
<1>3. PICK j \in Jobs : j = Head(calls).job
  BY <1>1, <1>2, CallFields DEF QueueOps
<1>4. jobQueue[j] \in Queues /\ policy \in [Jobs -> Policies]
  BY DEF IInv, DataOK, JobTypeOK
<1>5. /\ <<>> \in Seq(Stopping) /\ <<OnQueue("update", jobQueue[j])>> \in Seq(Stopping)
      /\ \A p \in Policies \ {"Start"} : <<SetPolicy(j, p)>> \in Seq(Stopping)
  BY <1>4, StoppingCalls, ShortSeq DEF StopOps, QueueOps
<1>6. CASE CallHandlerStop \/ CallResetPolicy
  <2>1. PICK p, nested :
            /\ p \in Policies \ {"Start"} /\ nested \in {<<>>, <<SetPolicy(j, p)>>}
            /\ Delegate(nested) /\ calls' = nested \o Tail(calls)
            /\ CallHandlerStop => nested = <<SetPolicy(j, p)>>
    <3> DEFINE kept == IF qstatus[jobQueue[j]] = "Stopped" THEN "None" ELSE "Stop"
    <3>1. kept \in Policies \ {"Start"} /\ "None" \in Policies \ {"Start"}
      BY DEF Policies
    <3>2. CASE CallHandlerStop
      <4>1. Delegate(<<SetPolicy(j, kept)>>)
        BY <1>3, <3>2 DEF CallHandlerStop
      <4> HIDE DEF kept
      <4> QED
        BY <3>1, <4>1 DEF Delegate, Call, Return
    <3>3. CASE CallResetPolicy
      <4>1. ~CallHandlerStop
        BY <3>3 DEF CallHandlerStop, CallResetPolicy, Calling
      <4>2. Delegate(<<SetPolicy(j, "None")>>) \/ Delegate(<<>>)
        BY <1>3, <3>3 DEF CallResetPolicy
      <4> QED
        BY <3>1, <4>1, <4>2 DEF Delegate, Call, Return
    <3> QED
      BY <1>6, <3>2, <3>3
  <2>2. UNCHANGED <<pluginVars, statusVars, jobVars, queueVars, schedVars>>
    BY <2>1 DEF Delegate
  <2>3. CallHandlerStop => SetPolicy(j, p) \in ToSet(nested)
    BY <2>1, ToSetShort
  <2>4. Head(calls).op = "resetPolicy" \/ CallHandlerStop
    BY <1>6 DEF CallResetPolicy, Calling
  <2>5. ASSUME NEW k \in alive PROVE Serves(k, nested)
    <3>1. Head(calls) # OnQueue("queueStop", jobQueue[k]) /\ Head(calls).op \in {"resetPolicy", "handlerStop"}
      BY <2>4, CallParts DEF CallHandlerStop, Calling
    <3>2. /\ \A op \in {"queueStop", "stopHandlers", "stopJobs"} :
               Head(calls) # OnQueue(op, jobQueue[k])
          /\ Head(calls) # OnJob("stop", k) /\ \A q \in Policies : Head(calls) # SetPolicy(k, q)
      BY <3>1, CallParts
    <3>3. Head(calls) = OnJob("handlerStop", k) => k = j /\ SetPolicy(j, p) \in ToSet(nested)
      BY <1>3, <2>3, <2>4, CallParts
    <3>4. p \in Policies
      BY <2>1
    <3> QED
      BY <2>2, <3>2, <3>3, <3>4 DEF Serves, jobVars, statusVars, queueVars
  <2> QED
    BY <1>1, <1>5, <2>1, <2>2, <2>5, StopState, ServedStop DEF jobVars, schedVars
<1>7. CASE CallSetPolicy
  <2>1. PICK p \in Policies \ {"Start"}, nested \in {<<>>, <<OnQueue("update", jobQueue[j])>>} :
            /\ policy' = [policy EXCEPT ![j] = p] /\ calls' = nested \o Tail(calls)
            /\ policy[j] # p => nested = <<OnQueue("update", jobQueue[j])>>
    <3>1. Head(calls).policy \in Policies \ {"Start"}
      BY <1>2, <1>7, CallFields DEF Stopping, CallSetPolicy, Calling
    <3> QED
      BY <1>3, <1>7, <3>1 DEF CallSetPolicy, Call, Return
  <2>2. UNCHANGED <<pluginVars, statusVars, alive, jobQueue, queueVars, schedVars>>
        /\ Head(calls).op = "setPolicy"
    BY <1>7 DEF CallSetPolicy, Calling
  <2>3. policy[j] # p => OnQueue("update", jobQueue[j]) \in ToSet(nested)
    BY <2>1, ToSetShort
  <2>4. \A k \in Jobs : policy'[k] = IF k = j THEN p ELSE policy[k]
    BY <1>4, <2>1
  <2>5. ASSUME NEW k \in alive PROVE Serves(k, nested)
    <3>1. k \in Jobs
      BY DEF IInv, DataOK, JobTypeOK
    <3> QED
      BY <1>3, <2>2, <2>3, <2>4, <3>1, CallParts DEF Serves, statusVars, queueVars
  <2> QED
    BY <1>1, <1>5, <2>1, <2>2, <2>5, StopState, ServedStop DEF schedVars
<1> QED
  BY <1>6, <1>7

\* Job::stop.
LEMMA StopCeases == IInv /\ RInv /\ StopOK /\ CallStop => StopOK'
<1> SUFFICES ASSUME IInv, RInv, StopOK, CallStop PROVE StopOK'
  OBVIOUS
<1>1. HandlerCall /\ Head(calls).op = "stop"
  BY DEF HandlerCall, CallStop, Calling
<1>2. PICK j \in Jobs : j = Head(calls).job
  BY <1>1, StopState, CallFields DEF Stopping, QueueOps
<1>3. PluginStop(j) /\ UNCHANGED <<jobVars, queueVars, schedVars>>
      /\ calls' = AfterStop(j) \o Tail(calls)
  BY <1>2 DEF CallStop, Call, Return
<1>4. /\ \A k \in Jobs \ {j} : status'[k] = status[k]
      /\ status'[j] # "Running"
  BY <1>3, StopEffect DEF CanStop
<1>5. AfterStop(j) \in Seq(Stopping)
  <2>1. jobQueue[j] \in Queues
    BY DEF IInv, DataOK, JobTypeOK
  <2>2. <<>> \in Seq(Stopping) /\ <<OnQueue("update", jobQueue[j])>> \in Seq(Stopping)
    BY <2>1, StoppingCalls, ShortSeq DEF StopOps, QueueOps
  <2> QED
    BY <2>2 DEF AfterStop, AfterStatus
<1>6. ASSUME NEW k \in alive PROVE Serves(k, AfterStop(j))
  <2>1. k \in Jobs
    BY DEF IInv, DataOK, JobTypeOK
  <2> QED
    BY <1>1, <1>2, <1>3, <1>4, <2>1, CallParts DEF Serves, jobVars, queueVars
<1> QED
  BY <1>1, <1>3, <1>5, <1>6, StopState, ServedStop DEF jobVars, schedVars

\* An update that is not allowed does nothing; one that is comes to each of the
\* group's transfers.
LEMMA UpdateCeases == IInv /\ RInv /\ StopOK /\ CallUpdate => StopOK'
<1> SUFFICES ASSUME IInv, RInv, StopOK, CallUpdate PROVE StopOK'
  OBVIOUS
<1>1. HandlerCall /\ Head(calls).op = "update"
  BY DEF HandlerCall, CallUpdate, Calling
<1>2. UNCHANGED <<pluginVars, statusVars, jobVars, queueVars, schedVars>>
  BY DEF CallUpdate
<1>3. CASE ~ShouldUpdate
  <2>1. calls' = <<>> \o Tail(calls)
    BY <1>3 DEF CallUpdate, Call, Return
  <2>2. ASSUME NEW k \in alive PROVE Serves(k, <<>>)
    BY <1>1, <1>2, <1>3, CallParts DEF Serves, jobVars, statusVars, queueVars
  <2>3. <<>> \in Seq(Stopping)
    BY ShortSeq
  <2> QED
    BY <1>1, <1>2, <1>3, <2>1, <2>2, <2>3, StopState, ServedStop DEF jobVars, schedVars
<1>4. CASE ShouldUpdate
  <2>1. PICK q : q = Head(calls).queue
    OBVIOUS
  <2>2. calls' = Tail(calls) /\ updating' = q /\ pos' = 1
    BY <1>4, <2>1 DEF CallUpdate, BeginLoop
  <2>3. calls' \in Seq(Stopping) /\ \A c : InCalls(c) => c = Head(calls) \/ c \in ToSet(calls')
    <3>1. calls # <<>>
      BY <1>1, StopState
    <3> QED
      BY <2>2, <3>1, HeadTailProperties, ToSetHead DEF StopOK, InCalls
  <2>4. Stopping' = Stopping /\ (ShouldUpdate' <=> ShouldUpdate)
    BY <1>2 DEF Stopping, ShouldUpdate, schedVars
  <2>5. ASSUME NEW j \in alive PROVE GroupStops(j)' /\ Unforced(j)' /\ Ceases(j)'
    <3>1. GroupStops(j) /\ Unforced(j) /\ Ceases(j)
      BY DEF StopOK
    <3>2. GroupStops(j)' /\ Unforced(j)'
      BY <1>1, <1>2, <2>3, <3>1, CallParts
         DEF GroupStops, Unforced, InCalls, jobVars, queueVars
    <3>3. q = jobQueue[j] => ToUpdate(j)'
      <4>1. j \in Listed(jobQueue[j]) /\ jobs[jobQueue[j]] \in Seq(Jobs)
        BY <1>1, StopState
      <4> QED
        BY <1>2, <2>2, <4>1, LenProperties DEF ToUpdate, Listed, ToSet, jobVars, queueVars
    <3>4. ~ToUpdate(j)
      BY <1>1, StopState, SchedulerAssumption DEF ToUpdate
    <3>5. Head(calls) = OnQueue("update", jobQueue[j]) => q = jobQueue[j]
      BY <2>1, CallParts
    <3>6. Ceases(j)'
      BY <1>1, <1>2, <1>4, <2>3, <2>4, <3>1, <3>3, <3>4, <3>5, CallParts
         DEF Ceases, InCalls, jobVars, statusVars
    <3> QED
      BY <3>2, <3>6
  <2> QED
    BY <1>2, <2>3, <2>4, <2>5 DEF StopOK, jobVars
<1> QED
  BY <1>3, <1>4

\* Every call of the user's command.
LEMMA StopCallKept == IInv /\ RInv /\ StopOK /\ HandlerCall => StopOK'
BY StopState, QueueStopCeases, ForJobsCeases, PolicyCeases, StopCeases, UpdateCeases

\* A step of the update loop runs no transfer but the one it has come to, and that
\* one only if it is entitled to run.
LEMMA LoopRuns ==
    ASSUME IInv, UpdateLoop, Looping
    PROVE  /\ UNCHANGED <<jobVars, queueVars, schedVars, calls, updating>> /\ pos' = pos + 1
           /\ \A k \in Jobs \ {LoopJob} : status'[k] = status[k]
           /\ status'[LoopJob] # "Running" \/ ShouldBeRunning(LoopJob)
<1>1. LoopJob \in Jobs
  BY LoopJobType
<1>2. ~UpdateDone
  BY LenProperties DEF Looping, UpdateDone, IInv, DataOK, QueueTypeOK, StateOK, LoopTypeOK
<1>3. CASE KeepRunning \/ LeaveStopped
  BY <1>3 DEF KeepRunning, LeaveStopped, NextJob, statusVars, IsActive
<1>4. CASE StartWanted
  BY <1>1, <1>4, StartEffect DEF StartWanted, NextJob
<1>5. CASE StopUnwanted \/ StopOverLimit
  BY <1>1, <1>5, StopEffect DEF StopUnwanted, StopOverLimit, NextJob, CanStop
<1> QED
  BY <1>2, <1>3, <1>4, <1>5 DEF UpdateLoop

\* The loop starts no transfer that would then not be stopped, and stops those it
\* was to stop.
LEMMA LoopCeases == IInv /\ StopOK /\ UpdateLoop => StopOK'
<1> SUFFICES ASSUME IInv, StopOK, UpdateLoop PROVE StopOK'
  OBVIOUS
<1>1. UNCHANGED <<jobVars, queueVars, schedVars, calls>>
  BY DEF UpdateLoop, KeepRunning, StopUnwanted, StartWanted, LeaveStopped, StopOverLimit,
         UpdateDone, NextJob
<1>2. ShouldUpdate /\ ShouldUpdate' /\ Stopping' = Stopping
  <2>1. updating # NoQueue
    BY DEF UpdateLoop, KeepRunning, StopUnwanted, StartWanted, LeaveStopped, StopOverLimit,
           UpdateDone, Looping
  <2> QED
    BY <1>1, <2>1 DEF IInv, UpdateOK, ShouldUpdate, schedVars, Stopping
<1>3. ASSUME NEW j \in alive PROVE GroupStops(j)' /\ Unforced(j)' /\ Ceases(j)'
  <2>1. GroupStops(j) /\ Unforced(j) /\ Ceases(j) /\ j \in Jobs
    BY DEF StopOK, IInv, DataOK, JobTypeOK
  <2>2. GroupStops(j)' /\ Unforced(j)'
    BY <1>1, <2>1 DEF GroupStops, Unforced, InCalls, jobVars, queueVars
  <2>3. ShouldBeRunning(j) => policy[j] = "Start" \/ InCalls(OnQueue("queueStop", jobQueue[j]))
    BY <2>1 DEF ShouldBeRunning, GroupStops
  <2>4. status'[j] # "Running" \/ ShouldBeRunning(j) => Ceases(j)'
    BY <1>1, <1>2, <2>3 DEF Ceases, InCalls, jobVars
  <2>5. CASE UpdateDone
    <3>1. ~ToUpdate(j)
      BY <2>5, LenProperties
         DEF UpdateDone, ToUpdate, IInv, DataOK, QueueTypeOK, StateOK, LoopTypeOK
    <3>2. Ceases(j)'
      BY <1>1, <1>2, <2>1, <2>5, <3>1 DEF UpdateDone, Ceases, InCalls, jobVars, statusVars
    <3> QED
      BY <2>2, <3>2
  <2>6. CASE Looping /\ j = LoopJob
    BY <2>2, <2>4, <2>6, LoopRuns
  <2>7. CASE Looping /\ j # LoopJob
    <3>1. status'[j] = status[j] /\ UNCHANGED updating /\ pos' = pos + 1
      BY <2>1, <2>7, LoopRuns
    <3>2. ToUpdate(j) => ToUpdate(j)'
      <4>1. SUFFICES ASSUME ToUpdate(j) PROVE ToUpdate(j)'
        OBVIOUS
      <4>2. PICK i \in DOMAIN jobs[updating] : i >= pos /\ jobs[updating][i] = j
        BY <4>1 DEF ToUpdate
      <4>3. i # pos
        BY <2>7, <4>2 DEF LoopJob
      <4>4. i >= pos + 1
        BY <4>2, <4>3, <2>7, LenProperties
           DEF Looping, IInv, DataOK, QueueTypeOK, StateOK, LoopTypeOK
      <4> QED
        BY <1>1, <3>1, <4>1, <4>2, <4>4 DEF ToUpdate, jobVars, queueVars
    <3>3. Ceases(j)'
      BY <1>1, <1>2, <2>1, <3>1, <3>2 DEF Ceases, InCalls, jobVars
    <3> QED
      BY <2>2, <3>3
  <2> QED
    BY <2>5, <2>6, <2>7
       DEF UpdateLoop, KeepRunning, StopUnwanted, StartWanted, LeaveStopped, StopOverLimit
<1> QED
  BY <1>1, <1>2, <1>3 DEF StopOK, jobVars

-----------------------------------------------------------------------------
(* The lost connection.                                                    *)

\* Without connection nothing but the groups' JobQueue::stop is called, and each
\* transfer it has not come to is still to be told.
LEMMA LossCallKept == IInv /\ RInv /\ LossOK /\ ~connected /\ HandlerCall => LossOK'
<1> SUFFICES ASSUME IInv, RInv, LossOK, ~connected, HandlerCall PROVE LossOK'
  OBVIOUS
<1> DEFINE Lost == {c \in Calls : c.op \in LossOps}
<1>1. calls # <<>> /\ Head(calls) \in Lost /\ calls \in Seq(Lost)
  BY CallHead, HeadTailProperties DEF LossOK
<1>2. \A j \in alive : j \in Jobs /\ jobQueue[j] \in Queues /\ j \in Listed(jobQueue[j])
  <2>1. \A x \in Lost : x.op \notin {"append", "destroy", "delQueue", "insert", "setJobQueue"}
    BY DEF LossOps
  <2> HIDE DEF Lost
  <2> QED
    BY <1>1, <2>1, ListedNow DEF IInv, DataOK, JobTypeOK
<1>3. /\ \A j \in Jobs : OnJob("stop", j) \in Lost
      /\ \A s \in Seq(Jobs) : ForJobs("stop", s) \in Seq(Lost)
      /\ \A q \in Queues : OnQueue("update", q) \in Lost
  <2>1. \A x \in Calls : x.op \in LossOps => x \in Lost
    OBVIOUS
  <2> HIDE DEF Lost
  <2> QED
    BY <2>1, CallLists DEF LossOps, JobOps, QueueOps
<1>4. Lost' = Lost
  BY DEF LossOps
<1>5. CallUpdate \/ CallStop \/ (CallForJobs /\ Head(calls).op = "stopJobs")
  BY <1>1
     DEF LossOps, HandlerCall, CallStart, CallSetStatus, CallSetErrorType, CallSetPolicy,
         CallSlotResultEnd, CallSetSpeed, CallHandlerStart, CallHandlerStop, CallFailureCheck,
         CallQueueStart, CallQueueStop, CallResetPolicy, CallForJobs, CallAppend, CallRemove,
         CallInsert, CallMoveTransfer, CallSetJobQueue, CallDestroy, CallDelQueue,
         CallSetSuspended, Calling
<1> DEFINE Told(j, c) == c = OnQueue("stopJobs", jobQueue[j]) \/ c = OnJob("stop", j)
<1>6. ASSUME NEW nested \in Seq(Lost), calls' = nested \o Tail(calls), UNCHANGED <<alive, jobQueue>>,
             \A j \in alive :
                 /\ status[j] \notin {"Running", "Moving"} => status'[j] \notin {"Running", "Moving"}
                 /\ Told(j, Head(calls)) => \/ status'[j] \notin {"Running", "Moving"}
                                            \/ OnJob("stop", j) \in ToSet(nested)
      PROVE  LossOK'
  <2> HIDE DEF Lost
  <2>1. /\ calls' \in Seq(Lost) /\ \A c : InCalls(c) => c = Head(calls) \/ InCalls(c)'
        /\ \A c \in ToSet(nested) : InCalls(c)'
    BY <1>1, <1>6, AfterCall
  <2>2. ASSUME NEW j \in alive
        PROVE  \/ status'[j] \notin {"Running", "Moving"}
               \/ OnQueue("stopJobs", jobQueue[j]) \in ToSet(calls')
               \/ OnJob("stop", j) \in ToSet(calls')
    BY <1>6, <2>1 DEF LossOK, InCalls
  <2>3. calls' \in Seq({c \in Calls : c.op \in LossOps})
    BY <2>1 DEF Lost
  <2> QED
    BY <1>6, <2>2, <2>3 DEF LossOK, InCalls
<1> HIDE DEF Lost
<1>7. CASE CallUpdate
  <2>1. calls' = <<>> \o Tail(calls) /\ Head(calls).op = "update"
    BY <1>7 DEF CallUpdate, ShouldUpdate, Call, Return, Calling
  <2>2. \A j \in alive : ~Told(j, Head(calls))
    BY <2>1, CallParts
  <2>3. UNCHANGED <<alive, jobQueue, status>> /\ <<>> \in Seq(Lost)
    BY <1>7, ShortSeq DEF CallUpdate, jobVars, statusVars
  <2> HIDE DEF Told
  <2> QED
    BY <1>6, <2>1, <2>2, <2>3
<1>8. CASE CallStop
  <2>1. PICK k \in Jobs : k = Head(calls).job
    BY <1>1, <1>8, CallFields DEF Lost, CallStop, Calling, QueueOps
  <2>2. /\ PluginStop(k) /\ UNCHANGED <<alive, jobQueue>> /\ calls' = AfterStop(k) \o Tail(calls)
        /\ Head(calls).op = "stop"
    BY <1>8, <2>1 DEF CallStop, Call, Return, jobVars, Calling
  <2>3. AfterStop(k) \in Seq(Lost)
    <3>1. jobQueue[k] \in Queues
      BY DEF IInv, DataOK, JobTypeOK
    <3>2. <<>> \in Seq(Lost) /\ <<OnQueue("update", jobQueue[k])>> \in Seq(Lost)
      BY <1>3, <3>1, ShortSeq
    <3> QED
      BY <3>2 DEF AfterStop, AfterStatus
  <2>4. /\ \A j \in Jobs \ {k} : status'[j] = status[j]
        /\ status'[k] \notin {"Running", "Moving"}
    BY <2>2, StopEffect DEF CanStop
  <2>5. \A j \in alive : Told(j, Head(calls)) => j = k
    BY <2>1, <2>2, CallParts
  <2> HIDE DEF Told
  <2> QED
    BY <1>2, <1>6, <2>2, <2>3, <2>4, <2>5
<1>9. CASE CallForJobs /\ Head(calls).op = "stopJobs"
  <2>1. PICK q \in Queues : q = Head(calls).queue
    BY <1>1, <1>9, CallFields DEF Lost, QueueOps
  <2> DEFINE nested == ForJobs("stop", jobs[q])
  <2>2. calls' = nested \o Tail(calls) /\ UNCHANGED <<alive, jobQueue, status>>
    BY <1>9, <2>1 DEF CallForJobs, Calling, Delegate, Call, Return, jobVars, statusVars
  <2>3. nested \in Seq(Lost) /\ \A j \in Listed(q) : OnJob("stop", j) \in ToSet(nested)
    BY <1>3, ForEach DEF Listed, IInv, DataOK, QueueTypeOK
  <2>4. \A j \in alive : Told(j, Head(calls)) => j \in Listed(q)
    BY <1>2, <1>9, <2>1, CallParts
  <2> HIDE DEF nested, Told
  <2> QED
    BY <1>6, <2>2, <2>3, <2>4
<1> QED
  BY <1>5, <1>7, <1>8, <1>9

-----------------------------------------------------------------------------
(* The second theorem.                                                     *)

\* The command and the loss of the connection begin with a call for each group.
LEMMA CommandCeases ==
    ASSUME IInv, RInv, CommandEvent
    PROVE  EInv'
<1>1. handler = "none" /\ \A j \in alive : jobQueue[j] \in ToSet(queues)
  <2>1. \E event, todo : Handle(event, todo)
    BY DEF CommandEvent, UserStart, UserStop, Delete, StartSelected, StopSelected, GroupStart,
           GroupStop, StartAll, StopAll, SetOfflineMode, Move, SettingsChanged, Network,
           TimerEvent, AddGroup, DelGroup, Event
  <2> QED
    BY <2>1, IdleHeld DEF Handle
<1>2. queues \in Seq(Queues)
  BY DEF IInv, DataOK, QueueTypeOK
<1>3. CASE StopAll
  <2> DEFINE groups == ForQueues("queueStop")
             hands == ForQueues("stopHandlers")
  <2>1. groups \in Seq(Stopping) /\ hands \in Seq(Stopping)
    BY StoppingCalls DEF StopOps, QueueOps
  <2>2. groups \o <<>> = groups
    BY <2>1, ConcatEmptySeq
  <2>3. calls' = groups \o hands /\ UNCHANGED <<alive, jobQueue>>
        /\ (handler' = "stopAll" \/ handler' = "none")
    BY <1>3, <2>2 DEF StopAll, SchedulerRunning, Event, Handle, jobVars
  <2>4. ToSet(calls') = ToSet(groups) \cup ToSet(hands) /\ calls' \in Seq(Stopping)
    <3> HIDE DEF groups, hands
    <3> QED
      BY <2>1, <2>3, ToSetJoined, ConcatProperties
  <2>5. \A j \in alive : /\ OnQueue("queueStop", jobQueue[j]) \in ToSet(calls')
                         /\ OnQueue("stopHandlers", jobQueue[j]) \in ToSet(calls')
    BY <1>1, <2>4, ForEach
  <2>6. Stopping' = Stopping
    BY DEF Stopping
  <2> QED
    BY <2>3, <2>4, <2>5, <2>6 DEF EInv, StopOK, GroupStops, Unforced, Ceases, InCalls
<1>4. CASE Network(FALSE)
  <2>1. calls' = ForQueues("stopJobs") /\ handler' # "stopAll" /\ UNCHANGED <<alive, jobQueue>>
    BY <1>4 DEF Network, Handle, jobVars
  <2>2. \A j \in alive : OnQueue("stopJobs", jobQueue[j]) \in ToSet(calls')
    BY <1>1, <2>1, ForEach
  <2>3. calls' \in Seq({c \in Calls : c.op \in LossOps})
    <3>1. PICK T : T = {c \in Calls : c.op \in LossOps}
      OBVIOUS
    <3>2. \A c \in Calls : c.op \in LossOps => c \in T
      BY <3>1
    <3> QED
      BY <2>1, <3>1, <3>2, CallLists DEF LossOps, QueueOps
  <2> QED
    BY <2>1, <2>2, <2>3 DEF EInv, LossOK, InCalls
<1>5. CASE ~StopAll /\ ~Network(FALSE)
  <2>1. CASE Network(TRUE)
    BY <2>1 DEF Network, Handle, EInv
  <2>2. CASE ~Network(TRUE)
    <3>1. \/ \E j \in Jobs : UserStart(j) \/ UserStop(j) \/ Delete(j)
          \/ \E s \in Selections("handlerStart", "queueStart") : StartSelected(s)
          \/ \E s \in Selections("handlerStop", "queueStop") : StopSelected(s)
          \/ \E q \in Queues : GroupStart(q) \/ GroupStop(q) \/ AddGroup(q) \/ DelGroup(q)
          \/ StartAll \/ SetOfflineMode(TRUE) \/ SetOfflineMode(FALSE)
          \/ \E j \in Jobs, q \in Queues, after \in Jobs \cup {NoJob} : Move(j, q, after)
          \/ \E n \in ConnectionLimits : SettingsChanged(n)
          \/ TimerEvent
      BY <1>5, <2>2 DEF CommandEvent
    <3>2. handler' # "stopAll" /\ handler' # "network"
      BY <3>1 DEF UserStart, UserStop, Delete, StartSelected, StopSelected, GroupStart, GroupStop,
                  StartAll, SetOfflineMode, Move, SettingsChanged, TimerEvent, AddGroup, DelGroup,
                  Event, Handle
    <3> QED
      BY <3>2 DEF EInv
  <2> QED
    BY <2>1, <2>2
<1> QED
  BY <1>3, <1>4, <1>5

\* Every step of the specification keeps the invariant.
LEMMA NextCeases == IInv /\ RInv /\ EInv /\ [Next]_vars => EInv'
<1> SUFFICES ASSUME IInv, RInv, EInv, [Next]_vars PROVE EInv'
  OBVIOUS
<1>1. CASE HandlerCall
  <2>1. handler' \in {handler, "none"} /\ connected' = connected
    BY <1>1 DEF HandlerCall, CallUpdate, CallStart, CallStop, CallSetStatus, CallSetErrorType,
         CallSetPolicy, CallSlotResultEnd, CallSetSpeed, CallHandlerStart, CallHandlerStop,
         CallFailureCheck, CallQueueStart, CallQueueStop, CallResetPolicy, CallForJobs,
         CallAppend, CallRemove, CallInsert, CallMoveTransfer, CallSetJobQueue, CallDestroy,
         CallDelQueue, CallSetSuspended, Delegate, QueueStatusChange, Relist, Destroy,
         BeginLoop, Call, Return, schedVars
  <2> QED
    BY <1>1, <2>1, StopCallKept, LossCallKept DEF EInv
<1>2. CASE UpdateLoop
  <2>1. handler' \in {handler, "none"} /\ updating # NoQueue /\ connected' = connected
    BY <1>2 DEF UpdateLoop, KeepRunning, StopUnwanted, StartWanted, LeaveStopped, StopOverLimit,
                UpdateDone, NextJob, Looping, schedVars
  <2>2. connected
    BY <2>1 DEF IInv, UpdateOK, ShouldUpdate
  <2> QED
    BY <1>2, <2>1, <2>2, LoopCeases DEF EInv
<1>3. CASE UNCHANGED vars
  <2>1. /\ UNCHANGED <<handler, connected, calls, alive, jobQueue, qstatus, policy, status>>
        /\ UNCHANGED <<suspended, updating, pos, jobs>>
    BY <1>3 DEF vars, statusVars, jobVars, queueVars, schedVars, loopVars
  <2> QED
    BY <2>1 DEF EInv, StopOK, LossOK, GroupStops, Unforced, Ceases, ToUpdate, ShouldUpdate, InCalls,
                Stopping
<1>4. ASSUME NEW j \in Jobs, WorkerEvent(j) \/ NewDestination(j) \/ Repair(j) PROVE EInv'
  <2>1. handler' # "stopAll" /\ handler' # "network"
    BY <1>4 DEF WorkerEvent, Data, Speed, Result, Error, StatResult, NewDestResult, BrokenUrl,
                ConnectionsErrors, MmsResult, NewDestination, Repair, Event, Handle
  <2> QED
    BY <2>1 DEF EInv
<1>5. ASSUME NEW j \in Jobs, NEW q \in Queues, NEW s \in Statuses, NEW p \in Policies,
             NEW start \in BOOLEAN, Add(j, q, s, p, start)
      PROVE  EInv'
  BY <1>5 DEF Add, Handle, EInv
<1>6. CASE UserEvent
  BY <1>4, <1>5, <1>6, CommandCeases DEF UserEvent, CommandEvent
<1>7. CASE TimerEvent \/ \E b \in BOOLEAN : Network(b)
  BY <1>7, CommandCeases DEF CommandEvent
<1> QED
  BY <1>1, <1>2, <1>3, <1>4, <1>6, <1>7 DEF Next

\* What a handler has left to call once it is done, its transfers have not.
LEMMA CeasedAtEnd ==
    ASSUME IInv', handler' = "none"
    PROVE  /\ StopOK' => \A j \in alive' : status'[j] # "Running" /\ ~ShouldBeRunning(j)'
           /\ LossOK' => \A j \in alive' : status'[j] \notin {"Running", "Moving"}
<1>1. calls' = <<>> /\ updating' = NoQueue
  BY DEF IInv, StateOK, HandlerOK
<1>2. \A c : c \notin ToSet(calls')
  BY <1>1, ToSetShort
<1>3. ASSUME StopOK', NEW j \in alive' PROVE status'[j] # "Running" /\ ~ShouldBeRunning(j)'
  <2>1. GroupStops(j)' /\ Unforced(j)' /\ Ceases(j)'
    BY <1>3 DEF StopOK
  <2>2. qstatus'[jobQueue'[j]] = "Stopped" /\ policy'[j] # "Start"
    BY <1>2, <2>1 DEF GroupStops, Unforced, InCalls
  <2>3. ~ToUpdate(j)'
    BY <1>1, <1>3, SchedulerAssumption DEF ToUpdate, IInv, DataOK, JobTypeOK
  <2>4. status'[j] # "Running"
    BY <1>2, <2>1, <2>2, <2>3 DEF Ceases, InCalls
  <2> QED
    BY <2>2, <2>4 DEF ShouldBeRunning
<1>4. ASSUME LossOK', NEW j \in alive' PROVE status'[j] \notin {"Running", "Moving"}
  BY <1>2, <1>4 DEF LossOK, InCalls
<1> QED
  BY <1>3, <1>4

\* The end of either handler.
LEMMA StopsAtEnd ==
    ASSUME IInv, RInv, EInv, IInv', [Next]_vars, handler' = "none"
    PROVE  /\ handler = "stopAll" =>
                  \A j \in alive : status'[j] # "Running" /\ ~ShouldBeRunning(j)'
           /\ handler = "network" /\ ~connected =>
                  \A j \in alive : status'[j] \notin {"Running", "Moving"}
<1> SUFFICES ASSUME handler \in {"stopAll", "network"}
             PROVE  /\ handler = "stopAll" =>
                           \A j \in alive : status'[j] # "Running" /\ ~ShouldBeRunning(j)'
                    /\ handler = "network" /\ ~connected =>
                           \A j \in alive : status'[j] \notin {"Running", "Moving"}
  OBVIOUS
<1>1. HandlerCall \/ UpdateLoop
  <2>1. handler # "none" /\ handler' # handler
    OBVIOUS
  <2>2. ~UNCHANGED vars
    BY <2>1 DEF vars
  <2>3. ~UserEvent
    <3>1. \A event, todo : ~Handle(event, todo)
      BY <2>1 DEF Handle
    <3>2. \A j \in Jobs, q \in Queues, s \in Statuses, p \in Policies, b \in BOOLEAN :
              ~Add(j, q, s, p, b)
      BY <3>1 DEF Add
    <3> QED
      BY <3>1, <3>2
         DEF UserEvent, UserStart, UserStop, Delete, NewDestination, Repair, StartSelected,
             StopSelected, GroupStart, GroupStop, AddGroup, DelGroup, StartAll, StopAll,
             SetOfflineMode, Move, SettingsChanged, Event
  <2>4. \A j \in Jobs : ~WorkerEvent(j)
    BY <2>1 DEF WorkerEvent, Data, Speed, Result, Error, StatResult, NewDestResult, BrokenUrl,
                ConnectionsErrors, MmsResult, Event, Handle
  <2>5. ~TimerEvent /\ \A b \in BOOLEAN : ~Network(b)
    BY <2>1 DEF TimerEvent, Network, Event, Handle
  <2> QED
    BY <2>2, <2>3, <2>4, <2>5 DEF Next
<1>2. CASE handler = "stopAll"
  <2>1. StopOK' /\ UNCHANGED alive
    <3>1. CASE HandlerCall
      BY <1>2, <3>1, StopCallKept, StopState
         DEF EInv, CallUpdate, CallStop, CallSetPolicy, CallHandlerStop, CallQueueStop,
             CallResetPolicy, CallForJobs, QueueStatusChange, Delegate, jobVars
    <3>2. CASE UpdateLoop
      BY <1>2, <3>2, LoopCeases
         DEF EInv, UpdateLoop, KeepRunning, StopUnwanted, StartWanted, LeaveStopped,
             StopOverLimit, UpdateDone, NextJob, jobVars
    <3> QED
      BY <1>1, <3>1, <3>2
  <2> QED
    BY <1>2, <2>1, CeasedAtEnd
<1>3. CASE handler = "network" /\ ~connected
  <2>1. HandlerCall
    <3>1. updating = NoQueue
      BY <1>3 DEF IInv, UpdateOK, ShouldUpdate
    <3> QED
      BY <1>1, <3>1 DEF UpdateLoop, KeepRunning, StopUnwanted, StartWanted, LeaveStopped,
                        StopOverLimit, UpdateDone, Looping
  <2>2. Head(calls).op \in LossOps
    BY <1>3, <2>1, CallHead, HeadTailProperties DEF EInv, LossOK
  <2>3. UNCHANGED alive
    BY <2>1, <2>2
       DEF LossOps, HandlerCall, CallUpdate, CallStart, CallStop, CallSetStatus, CallSetErrorType,
           CallSetPolicy, CallSlotResultEnd, CallSetSpeed, CallHandlerStart, CallHandlerStop,
           CallFailureCheck, CallQueueStart, CallQueueStop, CallResetPolicy, CallForJobs,
           CallAppend, CallRemove, CallInsert, CallMoveTransfer, CallSetJobQueue, CallDestroy,
           CallDelQueue, CallSetSuspended, Calling, Delegate, jobVars
  <2> QED
    BY <1>3, <2>1, <2>3, LossCallKept, CeasedAtEnd DEF EInv
<1> QED
  BY <1>2, <1>3

\* MainWindow::slotStopAllDownload and Scheduler::setHasNetworkConnection: when
\* they return, no transfer runs, and after the user's command none is entitled to.
THEOREM CommandsStopEverything == GroupsKept => (Spec => EverythingStops)
<1> SUFFICES ASSUME GroupsKept PROVE Spec => EverythingStops
  OBVIOUS
<1>1. IInv /\ Init => LInv /\ RInv /\ EInv
  <2>1. Init => EInv
    BY DEF Init, EInv
  <2> QED
    BY <2>1, InitListed, InitHeld
<1>2. IInv /\ LInv /\ RInv /\ EInv /\ [Next]_vars => LInv' /\ RInv' /\ EInv'
  BY NextListed, NextHeld, NextCeases
<1>3. IInv /\ RInv /\ EInv /\ IInv' /\ [Next]_vars =>
          /\ [handler = "stopAll" /\ handler' = "none"
                  => \A j \in alive : status'[j] # "Running" /\ ~ShouldBeRunning(j)']_vars
          /\ [handler = "network" /\ handler' = "none" /\ ~connected
                  => \A j \in alive : status'[j] \notin {"Running", "Moving"}]_vars
  BY StopsAtEnd
<1> QED
  BY <1>1, <1>2, <1>3, Invariance, PTL
     DEF Spec, EverythingStops, StopAllStopsAll, NetworkLossStopsAll

-----------------------------------------------------------------------------
(* Nothing is forgotten.                                                   *)

\* The instance has none of the events that change what updateQueue looks at and ask
\* for no update after it.  moveTransfer into another group updates that group before
\* the transfer names it; newDestResult and mmsResult let a start() succeed that was
\* refused; slotBrokenUrl sets the error's type after the update.  And the stat job of
\* an ftp transfer finishes it while its copy job, which slotProcessedSize and
\* slotSpeed would bring back to Running, still lives.
Orderly ==
    /\ Events \cap {"moveToGroup", "newDestResult", "mmsResult", "brokenUrl"} = {}
    /\ FtpJobs = {} \/ Events \cap {"data", "speed"} = {}

-----------------------------------------------------------------------------
(* The inductive invariant.                                                *)

ResetPolicy(j, q) == [op |-> "resetPolicy", job |-> j, queue |-> q]

\* Calls that start no transfer but through an update, and move none to another group.
Fine ==
    {c \in Calls : /\ c.op \notin {"start", "setErrorType", "insert", "setJobQueue"}
                   /\ c.op = "setStatus" => c.status # "Running"
                   /\ c.op = "slotResultEnd" => c.job \in KioJobs
                   /\ c.op = "moveTransfer" => c.queue = jobQueue[c.job]}

\* Or calls that change nothing: slotSpeed's setStatus, and repair's start().
FineOK ==
    \/ calls \in Seq(Fine)
    \/ /\ updating = NoQueue
       /\ \/ \E j \in Jobs, b \in BOOLEAN :
                 status[j] = "Running" /\ calls = <<SetStatusTo(j, "Running"), SetSpeed(j, b)>>
          \/ \E j \in Jobs : ~CanStart(j) /\ calls = <<OnJob("start", j)>>

\* m_failedJobs holds valid records only.
FailuresOK == \A j \in Jobs : failures[j] = NoFailure \/ IsValid(failures[j])

\* A transfer of the group is about to be stopped, which updates the group.
Halts(q) ==
    \E j \in Listed(q) : CanStop(j) /\ (InCalls(OnJob("stop", j)) \/ InCalls(OnQueue("stopJobs", q)))

\* The group is stopped with all its transfers, and none is started by hand any more.
Calm(q) ==
    /\ qstatus[q] = "Stopped"
    /\ \A j \in Listed(q) :
           /\ ~CanStop(j)
           /\ \/ status[j] = "Finished" \/ policy[j] # "Start"
              \/ InCalls(ResetPolicy(j, q)) \/ InCalls(SetPolicy(j, "None"))

\* The group's slots are as they should be, or will be when the handler ends.
Settled(q) ==
    Allocated(q) \/ updating = q \/ InCalls(OnQueue("update", q)) \/ Halts(q) \/ Calm(q)

SInv ==
    /\ FineOK /\ FailuresOK
    /\ ShouldUpdate => \A q \in ToSet(queues) : Settled(q)

-----------------------------------------------------------------------------
(* What the allocation depends on.                                         *)

\* A step leaves alone all that makes the group's allocation right.
Undisturbed(q) ==
    /\ jobs'[q] = jobs[q] /\ qstatus'[q] = qstatus[q] /\ limit' = limit
    /\ \A j \in Listed(q) :
           /\ status'[j] = status[j] /\ errorType'[j] = errorType[j]
           /\ policy'[j] = policy[j] /\ jobQueue'[j] = jobQueue[j]
           /\ CanStart(j)' => CanStart(j)
           /\ ShouldBeRunning(j) =>
                  CountsAsRunning(failures'[j]) = CountsAsRunning(failures[j])

\* What stands at a place of a list is listed.
LEMMA ListedAt ==
    ASSUME IInv, NEW q \in Queues
    PROVE  /\ jobs[q] \in Seq(Jobs) /\ Listed(q) \subseteq Jobs
           /\ \A i \in DOMAIN jobs[q] : jobs[q][i] \in Listed(q)
           /\ \A i \in DOMAIN jobs[q] : i \in Nat \ {0} /\ \A k \in 1..(i - 1) : k \in DOMAIN jobs[q]
<1>1. jobs[q] \in Seq(Jobs)
  BY DEF IInv, DataOK, QueueTypeOK
<1>2. Len(jobs[q]) \in Nat /\ DOMAIN jobs[q] = 1..Len(jobs[q])
  BY <1>1, LenProperties
<1>3. Listed(q) \subseteq Jobs
  BY <1>1, ToSetType DEF Listed
<1> QED
  BY <1>1, <1>2, <1>3 DEF Listed, ToSet

\* Then it stays right.
LEMMA AllocationKept ==
    ASSUME IInv, Home({}), NEW q \in Queues, Undisturbed(q), Allocated(q)
    PROVE  Allocated(q)'
<1>1. /\ \A i \in DOMAIN jobs[q] : jobs[q][i] \in Listed(q)
      /\ \A i \in DOMAIN jobs[q] : i \in Nat \ {0} /\ \A k \in 1..(i - 1) : k \in DOMAIN jobs[q]
  BY ListedAt
<1>2. ASSUME NEW j \in Listed(q)
      PROVE  /\ ShouldBeRunning(j)' <=> ShouldBeRunning(j)
             /\ IsActive(j)' <=> IsActive(j)
             /\ CanStart(j)' => CanStart(j)
             /\ ShouldBeRunning(j) =>
                    CountsAsRunning(failures[j])' = CountsAsRunning(failures[j])
  <2>1. jobQueue[j] = q
    BY DEF Home
  <2> QED
    BY <2>1 DEF Undisturbed, ShouldBeRunning, IsActive, CountsAsRunning
<1>3. MaxSimultaneousJobs' = MaxSimultaneousJobs /\ jobs'[q] = jobs[q]
  BY DEF MaxSimultaneousJobs, Undisturbed
<1>4. ASSUME NEW i \in DOMAIN jobs[q]
      PROVE  HasSlot(q, i)' <=> HasSlot(q, i)
  <2>1. ASSUME NEW r \in BOOLEAN PROVE Ahead(q, i, r)' = Ahead(q, i, r)
    <3>1. ASSUME NEW k \in 1..(i - 1)
          PROVE  (ShouldBeRunning(jobs[q][k])' /\ CountsAsRunning(failures[jobs[q][k]])' = r)
                 <=> (ShouldBeRunning(jobs[q][k]) /\ CountsAsRunning(failures[jobs[q][k]]) = r)
      <4>1. PICK j \in Listed(q) : j = jobs[q][k]
        BY <1>1
      <4>2. /\ ShouldBeRunning(j)' <=> ShouldBeRunning(jobs[q][k])'
            /\ CountsAsRunning(failures[j])' = CountsAsRunning(failures[jobs[q][k]])'
        BY <1>3, <4>1 DEF ShouldBeRunning, CountsAsRunning
      <4> QED
        BY <1>2, <4>1, <4>2
    <3> QED
      BY <1>3, <3>1 DEF Ahead
  <2> QED
    BY <1>3, <2>1 DEF HasSlot
<1>5. ASSUME NEW i \in DOMAIN jobs[q]
      PROVE  AllocatedAt(q, i)'
  <2>1. PICK j \in Listed(q) : j = jobs[q][i]
    BY <1>1
  <2>2. AllocatedAt(q, i)
    BY DEF Allocated, AllocatedAt
  <2>3. /\ ShouldBeRunning(j)' <=> ShouldBeRunning(j)
        /\ IsActive(j)' <=> IsActive(j)
        /\ CanStart(j)' => CanStart(j)
    BY <1>2
  <2> QED
    BY <1>3, <1>4, <2>1, <2>2, <2>3 DEF AllocatedAt
<1> QED
  BY <1>3, <1>5 DEF Allocated, AllocatedAt

-----------------------------------------------------------------------------
(* What is still to be called.                                             *)

\* The calls' names, again.
LEMMA MoreParts ==
    /\ \A j, q : /\ ResetPolicy(j, q).op = "resetPolicy" /\ ResetPolicy(j, q).job = j
                 /\ ResetPolicy(j, q).queue = q
                 /\ AssignQueue(j, q).op = "setJobQueue" /\ AppendTo(j, q).op = "append"
    /\ \A j, q, after : Insert(j, q, after).op = "insert"
    /\ \A j, s : /\ SetStatusTo(j, s).op = "setStatus" /\ SetStatusTo(j, s).job = j
                 /\ SetStatusTo(j, s).status = s
    /\ \A j, b : SetSpeed(j, b).op = "setSpeed" /\ SetSpeed(j, b).job = j
    /\ \A b : SetSuspended(b).op = "setSuspended" /\ SetSuspended(b).suspended = b
BY DEF ResetPolicy, AssignQueue, AppendTo, Insert, SetStatusTo, SetSpeed, SetSuspended

\* No transfer moves to another group.
LEMMA NoneMoves ==
    ASSUME FineOK, NEW c, InCalls(c)
    PROVE  c.op \notin {"insert", "setJobQueue"}
<1>1. CASE calls \in Seq(Fine)
  <2>1. c \in Fine
    BY <1>1, ToSetType DEF InCalls
  <2> QED
    BY <2>1 DEF Fine
<1>2. CASE \E j, b : calls = <<SetStatusTo(j, "Running"), SetSpeed(j, b)>>
  <2>1. PICK j, b : calls = <<SetStatusTo(j, "Running"), SetSpeed(j, b)>>
    BY <1>2
  <2>2. c \in {SetStatusTo(j, "Running"), SetSpeed(j, b)}
    BY <2>1, ToSetShort DEF InCalls
  <2> QED
    BY <2>2, MoreParts
<1>3. CASE \E j : calls = <<OnJob("start", j)>>
  <2>1. PICK j : calls = <<OnJob("start", j)>>
    BY <1>3
  <2>2. c = OnJob("start", j)
    BY <2>1, ToSetShort DEF InCalls
  <2> QED
    BY <2>2, CallParts
<1> QED
  BY <1>1, <1>2, <1>3 DEF FineOK

\* So each listed transfer always names the group that lists it.
LEMMA AlwaysHome ==
    ASSUME IInv, LInv, FineOK
    PROVE  Home({})
<1>1. ASSUME NEW above \in Seq(Modest), NEW rest \in Seq(Calls), calls = above \o rest,
             Assigning(rest)
      PROVE  FALSE
  <2>1. PICK j, q : rest = <<AssignQueue(j, q)>>
    BY <1>1 DEF Assigning
  <2>2. above \in Seq(Calls)
    BY ModestCalls
  <2>3. ToSet(calls) = ToSet(above) \cup ToSet(rest)
    BY <1>1, <2>2, ToSetJoined
  <2>4. InCalls(AssignQueue(j, q))
    BY <2>1, <2>3, ToSetShort DEF InCalls
  <2> QED
    BY <2>4, NoneMoves, MoreParts
<1> QED
  BY <1>1 DEF LInv, CallsOK, Pending

\* The next call, if it is one of those the invariant restricts.
LEMMA NextIsFine ==
    ASSUME IInv, FineOK, calls # <<>>
    PROVE  LET c == Head(calls) IN
           /\ c.op \notin {"setErrorType", "insert", "setJobQueue"}
           /\ c.op = "start" => ~CanStart(c.job)
           /\ c.op = "setStatus" /\ c.status = "Running" => status[c.job] = "Running"
           /\ c.op = "slotResultEnd" => c.job \in KioJobs
           /\ c.op = "moveTransfer" => c.queue = jobQueue[c.job]
<1>1. CASE calls \in Seq(Fine)
  <2>1. Head(calls) \in Fine
    BY <1>1, HeadTailProperties
  <2> QED
    BY <2>1 DEF Fine
<1>2. CASE \E j, b : status[j] = "Running" /\ calls = <<SetStatusTo(j, "Running"), SetSpeed(j, b)>>
  <2>1. PICK j, b : status[j] = "Running" /\ calls = <<SetStatusTo(j, "Running"), SetSpeed(j, b)>>
    BY <1>2
  <2>2. Head(calls) = SetStatusTo(j, "Running")
    BY <2>1
  <2> QED
    BY <2>1, <2>2, MoreParts
<1>3. CASE \E j : ~CanStart(j) /\ calls = <<OnJob("start", j)>>
  <2>1. PICK j : ~CanStart(j) /\ calls = <<OnJob("start", j)>>
    BY <1>3
  <2>2. Head(calls) = OnJob("start", j)
    BY <2>1
  <2> QED
    BY <2>1, <2>2, CallParts
<1> QED
  BY <1>1, <1>2, <1>3 DEF FineOK

\* What a call calls is as restricted, and pending calls are made or still pending.
LEMMA CallsStayFine ==
    ASSUME IInv, FineOK, HandlerCall
    PROVE  /\ FineOK'
           /\ \A c : InCalls(c) => c = Head(calls) \/ InCalls(c)'
<1>1. calls # <<>> /\ Head(calls) \in Calls /\ Tail(calls) \in Seq(Calls)
  BY CallHead
<1>2. \A c \in Calls : c.op \in NestedOps => c \in Fine
  BY DEF Fine, NestedOps
<1>3. Head(calls).op = "handlerStart" =>
          MoveTransfer(Head(calls).job, jobQueue[Head(calls).job], NoJob) \in Fine
  <2> SUFFICES ASSUME Head(calls).op = "handlerStart"
               PROVE  MoveTransfer(Head(calls).job, jobQueue[Head(calls).job], NoJob) \in Fine
    OBVIOUS
  <2>1. PICK j \in Jobs : j = Head(calls).job
    BY <1>1, CallFields DEF QueueOps
  <2>2. jobQueue[j] \in Queues
    BY DEF IInv, DataOK, JobTypeOK
  <2> QED
    BY <2>1, <2>2 DEF Fine, MoveTransfer, Calls
<1>4. Head(calls).op = "moveTransfer" => Head(calls).queue = jobQueue[Head(calls).job]
  BY <1>1, NextIsFine
<1>5. PICK nested \in Seq(Fine) : calls' = nested \o Tail(calls)
  BY <1>2, <1>3, <1>4, NestedCalls
<1>6. /\ \A c : InCalls(c) => c = Head(calls) \/ InCalls(c)'
  <2>1. nested \in Seq(Calls)
    BY SeqMonotonic DEF Fine
  <2>2. calls \in Seq(Calls)
    BY DEF IInv, StateOK
  <2> QED
    BY <1>1, <1>5, <2>1, <2>2, AfterCall
<1>7. Fine' = Fine
  <2>1. UNCHANGED jobQueue
    <3>1. Head(calls).op # "setJobQueue"
      BY <1>1, NextIsFine
    <3> QED
      BY <3>1
         DEF HandlerCall, CallUpdate, CallStart, CallStop, CallSetStatus, CallSetErrorType,
             CallSetPolicy, CallSlotResultEnd, CallSetSpeed, CallHandlerStart, CallHandlerStop,
             CallFailureCheck, CallQueueStart, CallQueueStop, CallResetPolicy, CallForJobs,
             CallAppend, CallRemove, CallInsert, CallMoveTransfer, CallSetJobQueue, CallDestroy,
             CallDelQueue, CallSetSuspended, Calling, Delegate, QueueStatusChange, Relist,
             Destroy, jobVars
  <2> QED
    BY <2>1 DEF Fine
<1>8. Tail(calls) \in Seq(Fine)
  <2>1. CASE calls \in Seq(Fine)
    BY <1>1, <2>1, HeadTailProperties
  <2>2. CASE \E j \in Jobs, b \in BOOLEAN : calls = <<SetStatusTo(j, "Running"), SetSpeed(j, b)>>
    <3>1. PICK j \in Jobs, b \in BOOLEAN : calls = <<SetStatusTo(j, "Running"), SetSpeed(j, b)>>
      BY <2>2
    <3>2. Tail(calls) = <<SetSpeed(j, b)>>
      BY <3>1, LastCalls
    <3>3. SetSpeed(j, b) \in Fine
      BY <1>2 DEF Fine, SetSpeed, Calls
    <3> QED
      BY <3>2, <3>3, ShortSeq
  <2>3. CASE \E j \in Jobs : calls = <<OnJob("start", j)>>
    <3>1. Tail(calls) = <<>>
      BY <2>3, LastCalls
    <3> QED
      BY <3>1, ShortSeq
  <2> QED
    BY <2>1, <2>2, <2>3 DEF FineOK
<1>9. calls' \in Seq(Fine)
  BY <1>5, <1>8, ConcatProperties
<1> QED
  BY <1>6, <1>7, <1>9 DEF FineOK

-----------------------------------------------------------------------------
(* What a call does to a group that is settled.                            *)

\* A call that settles for the group what it takes from the stack.
Honours(c, q) ==
    /\ c = OnQueue("update", q) => updating' = q
    /\ c = OnQueue("stopJobs", q) => \A j \in Listed(q) : InCalls(OnJob("stop", j))'
    /\ \A j \in Listed(q) :
           /\ c = OnJob("stop", j) => ~CanStop(j)
           /\ c = SetPolicy(j, "None") => policy[j] # "Start"
           /\ c = ResetPolicy(j, q) /\ Calm(q) =>
                  status[j] = "Finished" \/ InCalls(SetPolicy(j, "None"))'

\* If it leaves alone what the allocation depends on, the group stays settled.
LEMMA SettledKept ==
    ASSUME IInv, Home({}), NEW q \in Queues, Settled(q), updating # q, Undisturbed(q),
           NEW c, \A x : InCalls(x) => x = c \/ InCalls(x)', Honours(c, q)
    PROVE  Settled(q)'
<1>1. \A j \in Listed(q) : CanStop(j)' <=> CanStop(j)
  BY DEF Undisturbed, CanStop
<1>2. Listed(q)' = Listed(q)
  BY DEF Undisturbed, Listed
<1>3. CASE Allocated(q)
  BY <1>3, AllocationKept DEF Settled
<1>4. CASE InCalls(OnQueue("update", q))
  BY <1>4 DEF Settled, Honours, InCalls
<1>5. CASE Halts(q)
  <2>1. PICK j \in Listed(q) : CanStop(j) /\ (InCalls(OnJob("stop", j)) \/ InCalls(OnQueue("stopJobs", q)))
    BY <1>5 DEF Halts
  <2>2. InCalls(OnJob("stop", j))' \/ InCalls(OnQueue("stopJobs", q))'
    BY <2>1 DEF Honours
  <2>3. j \in Listed(q)' /\ CanStop(j)'
    BY <1>1, <1>2, <2>1
  <2>4. Halts(q)'
    BY <2>2, <2>3 DEF Halts, InCalls
  <2> QED
    BY <2>4 DEF Settled
<1>6. CASE Calm(q)
  <2>1. ASSUME NEW j \in Listed(q)
        PROVE  /\ ~CanStop(j)'
               /\ \/ status'[j] = "Finished" \/ policy'[j] # "Start"
                  \/ InCalls(ResetPolicy(j, q))' \/ InCalls(SetPolicy(j, "None"))'
    <3>1. /\ ~CanStop(j)
          /\ \/ status[j] = "Finished" \/ policy[j] # "Start"
             \/ InCalls(ResetPolicy(j, q)) \/ InCalls(SetPolicy(j, "None"))
      BY <1>6 DEF Calm
    <3>2. status'[j] = status[j] /\ policy'[j] = policy[j]
      BY DEF Undisturbed
    <3> QED
      BY <1>1, <1>6, <3>1, <3>2 DEF Honours
  <2>2. qstatus'[q] = "Stopped"
    BY <1>6 DEF Calm, Undisturbed
  <2>3. Calm(q)'
    BY <1>2, <2>1, <2>2 DEF Calm, InCalls
  <2> QED
    BY <2>3 DEF Settled
<1> QED
  BY <1>3, <1>4, <1>5, <1>6 DEF Settled

\* Calls that leave every group alone, whatever they take from the stack.
LEMMA Idles ==
    ASSUME NEW c, c.op \notin {"update", "stopJobs", "stop", "setPolicy", "resetPolicy"}, NEW q
    PROVE  Honours(c, q)
BY CallParts, MoreParts DEF Honours

\* What a call calls is to be called.
LEMMA NestedNow ==
    ASSUME IInv, HandlerCall, NEW nested \in Seq(Calls), calls' = nested \o Tail(calls)
    PROVE  \A c \in ToSet(nested) : InCalls(c)'
<1>1. calls \in Seq(Calls) /\ calls # <<>>
  BY CallHead DEF IInv, StateOK
<1> QED
  BY <1>1, AfterCall

\* A call that ends in an update of the group settles it.
LEMMA UpdateSettles ==
    ASSUME IInv, HandlerCall, NEW q \in Queues, Call(<<OnQueue("update", q)>>)
    PROVE  Settled(q)'
<1>1. OnQueue("update", q) \in Calls
  BY DEF OnQueue, Calls, QueueOps
<1>2. <<OnQueue("update", q)>> \in Seq(Calls)
  BY <1>1, ShortSeq
<1>3. OnQueue("update", q) \in ToSet(<<OnQueue("update", q)>>)
  BY ToSetShort
<1>4. InCalls(OnQueue("update", q))'
  BY <1>2, <1>3, NestedNow DEF Call, Return
<1> QED
  BY <1>4 DEF Settled, InCalls

\* A transfer that a group does not list is none of its concern.
LEMMA Elsewhere ==
    ASSUME Home({}), NEW q \in Queues, NEW j, q # jobQueue[j]
    PROVE  j \notin Listed(q)
BY DEF Home

\* Calls on a transfer: stop() and setStatus.
LEMMA StatusSettles ==
    ASSUME IInv, LInv, SInv, CallStop \/ CallSetStatus, ShouldUpdate',
           NEW q \in Queues, Settled(q)
    PROVE  Settled(q)'
<1> DEFINE c == Head(calls)
<1>1. /\ HandlerCall /\ calls # <<>> /\ c \in Calls /\ updating = NoQueue /\ Home({})
      /\ Listed(q) \subseteq Jobs
  BY CallHead, AlwaysHome, ListedAt DEF HandlerCall, SInv
<1>2. updating # q
  BY <1>1, SchedulerAssumption
<1>3. PICK j \in Jobs : j = c.job /\ jobQueue[j] \in Queues
  <2>1. c.job \in Jobs
    BY <1>1, CallFields DEF CallStop, CallSetStatus, Calling, QueueOps
  <2> QED
    BY <2>1 DEF IInv, DataOK, JobTypeOK
<1>4. \A x : InCalls(x) => x = c \/ InCalls(x)'
  BY <1>1, CallsStayFine DEF SInv
<1>5. /\ UNCHANGED <<moving, jobVars, queueVars, schedVars>>
      /\ \A k \in Jobs \ {j} : /\ status'[k] = status[k] /\ errorType'[k] = errorType[k]
                               /\ worker'[k] = worker[k]
  BY <1>3 DEF CallStop, CallSetStatus, PluginStop, AssignStatus, pluginVars, moveVars, statusVars, IInv,
              DataOK, JobTypeOK, PluginTypeOK
<1>6. j \notin Listed(q) => Undisturbed(q)
  BY <1>1, <1>5 DEF Undisturbed, jobVars, queueVars, schedVars, CanStart, CountsAsRunning
<1>7. CASE CallStop /\ CanStop(j)
  <2>1. Call(<<OnQueue("update", jobQueue[j])>>)
    BY <1>3, <1>7 DEF CallStop, AfterStop, AfterStatus, CanStop
  <2>2. CASE q = jobQueue[j]
    BY <1>1, <2>1, <2>2, UpdateSettles
  <2>3. CASE q # jobQueue[j]
    <3>1. j \notin Listed(q)
      BY <1>1, <2>3, Elsewhere
    <3>2. Honours(c, q)
      <4>1. c.op = "stop"
        BY <1>7 DEF CallStop, Calling
      <4> QED
        BY <1>3, <3>1, <4>1, CallParts, MoreParts DEF Honours
    <3> QED
      BY <1>1, <1>2, <1>4, <1>6, <3>1, <3>2, SettledKept
  <2> QED
    BY <2>2, <2>3
<1>8. CASE CallStop /\ ~CanStop(j)
  <2>1. UNCHANGED <<status, errorType, worker>>
    BY <1>3, <1>8 DEF CallStop, PluginStop, statusVars
  <2>2. Undisturbed(q)
    BY <1>5, <2>1 DEF Undisturbed, jobVars, queueVars, schedVars, CanStart, CountsAsRunning
  <2>3. Honours(c, q)
    <3>1. c.op = "stop"
      BY <1>8 DEF CallStop, Calling
    <3> QED
      BY <1>3, <1>8, <3>1, CallParts, MoreParts DEF Honours
  <2> QED
    BY <1>1, <1>2, <1>4, <2>2, <2>3, SettledKept
<1>9. CASE CallSetStatus
  <2>1. c.op = "setStatus"
    BY <1>9 DEF CallSetStatus, Calling
  <2>2. Honours(c, q)
    BY <2>1, Idles
  <2>3. c.status = "Running" => status[j] = "Running"
    BY <1>1, <1>3, <2>1, NextIsFine DEF SInv
  <2>4. CASE c.status # status[j]
    <3>1. Call(<<OnQueue("update", jobQueue[j])>>)
      BY <1>3, <1>9, <2>3, <2>4 DEF CallSetStatus, AfterStatus
    <3>2. CASE q = jobQueue[j]
      BY <1>1, <3>1, <3>2, UpdateSettles
    <3>3. CASE q # jobQueue[j]
      BY <1>1, <1>2, <1>4, <1>6, <2>2, <3>3, Elsewhere, SettledKept
    <3> QED
      BY <3>2, <3>3
  <2>5. CASE c.status = status[j]
    <3>1. status' = status /\ errorType' = errorType /\ worker' = worker
      BY <1>3, <1>9, <2>5
         DEF CallSetStatus, AssignStatus, pluginVars, IInv, DataOK, JobTypeOK
    <3>2. Undisturbed(q)
      BY <1>5, <3>1 DEF Undisturbed, jobVars, queueVars, schedVars, CanStart, CountsAsRunning
    <3> QED
      BY <1>1, <1>2, <1>4, <2>2, <3>2, SettledKept
  <2> QED
    BY <2>4, <2>5
<1> QED
  BY <1>7, <1>8, <1>9

\* JobFailure: a record that keeps its status keeps the slot that its job takes; Error
\* means that the job has no right to one, and a timeout that it can be stopped.
LEMMA FailureChange ==
    ASSUME NEW f \in JobFailures, f = NoFailure \/ IsValid(f),
           NEW stalled \in BOOLEAN, NEW aborted \in BOOLEAN, NEW type, NEW working \in BOOLEAN,
           NEW next, next = NextFailure(f, stalled, aborted, type, working)
    PROVE  /\ next.status = f.status => CountsAsRunning(Stored(next)) = CountsAsRunning(f)
           /\ next.status # f.status /\ next.status = "Error" => aborted /\ type # "AutomaticRetry"
           /\ next.status # f.status /\ StopsTheJob(next) => stalled \/ aborted
<1>1. CASE stalled
  <2>1. next = StalledFailure(f)
    BY <1>1 DEF NextFailure
  <2>2. next.status \in StallStatuses /\ next.time # -1
    BY <2>1, FailureAssumption
       DEF StalledFailure, StallStatuses, JobFailures, FailureStatuses
  <2> QED
    BY <1>1, <2>2 DEF Stored, IsValid, CountsAsRunning, StallStatuses
<1>2. CASE ~stalled /\ aborted
  <2>1. next = AbortedFailure(f, type)
    BY <1>2 DEF NextFailure
  <2>2. /\ next.status = "Error" => type # "AutomaticRetry"
        /\ next.status \in {"Error", "Abort", "AbortTimeout"}
    BY <2>1 DEF AbortedFailure, JobFailures
  <2>3. next.status = f.status => CountsAsRunning(Stored(next)) = CountsAsRunning(f)
    <3>1. next.status = f.status => next.time # -1
      <4>1. f.status = "None" => next.status # "None"
        BY <2>2
      <4>2. f.status # "None" => f.time \in Nat
        BY DEF IsValid, NoFailure, JobFailures
      <4> QED
        BY <2>1, <4>1, <4>2 DEF AbortedFailure, JobFailures
    <3> QED
      BY <2>2, <3>1 DEF Stored, IsValid, CountsAsRunning
  <2> QED
    BY <1>2, <2>2, <2>3
<1>3. CASE ~stalled /\ ~aborted
  <2>1. next = f \/ next = NoFailure
    BY <1>3 DEF NextFailure
  <2> QED
    BY <2>1 DEF Stored, IsValid, NoFailure, CountsAsRunning, StopsTheJob
<1> QED
  BY <1>1, <1>2, <1>3

\* Scheduler::timerEvent's check of a transfer.
LEMMA CheckSettles ==
    ASSUME IInv, LInv, SInv, CallFailureCheck, ShouldUpdate', NEW q \in Queues, Settled(q)
    PROVE  Settled(q)'
<1> DEFINE c == Head(calls)
<1>1. /\ HandlerCall /\ calls # <<>> /\ c \in Calls /\ c.op = "failureCheck"
      /\ updating = NoQueue /\ Home({}) /\ Listed(q) \subseteq Jobs
  BY CallHead, AlwaysHome, ListedAt DEF HandlerCall, SInv, CallFailureCheck, Calling
<1>2. updating # q
  BY <1>1, SchedulerAssumption
<1>3. PICK j \in Jobs : j = c.job /\ jobQueue[j] \in Queues
  <2>1. c.job \in Jobs
    BY <1>1, CallFields DEF QueueOps
  <2> QED
    BY <2>1 DEF IInv, DataOK, JobTypeOK
<1>4. \A x : InCalls(x) => x = c \/ InCalls(x)'
  BY <1>1, CallsStayFine DEF SInv
<1>5. Honours(c, q)
  BY <1>1, Idles
<1> DEFINE f == failures[j]
           stalled == status[j] = "Running" /\ ~speed[j]
           aborted == status[j] = "Aborted"
<1>6. PICK next : next = NextFailure(f, stalled, aborted, errorType[j], speed[j])
  OBVIOUS
<1>7. /\ next.status = f.status => CountsAsRunning(Stored(next)) = CountsAsRunning(f)
      /\ next.status # f.status /\ next.status = "Error" => aborted /\ errorType[j] # "AutomaticRetry"
      /\ next.status # f.status /\ StopsTheJob(next) => stalled \/ aborted
  <2>1. f \in JobFailures /\ (f = NoFailure \/ IsValid(f)) /\ speed[j] \in BOOLEAN
    BY DEF IInv, DataOK, SchedTypeOK, PluginTypeOK, SInv, FailuresOK
  <2>2. stalled \in BOOLEAN /\ aborted \in BOOLEAN
    OBVIOUS
  <2> HIDE DEF f, stalled, aborted
  <2> QED
    BY <1>6, <2>1, <2>2, FailureChange
<1>8. /\ failures' = [failures EXCEPT ![j] = Stored(next)]
      /\ Call(IF next.status = f.status THEN <<>>
              ELSE IF next.status = "Error" THEN <<OnJob("handlerStop", j)>>
              ELSE IF StopsTheJob(next) THEN <<OnJob("stop", j)>>
              ELSE <<OnQueue("update", jobQueue[j])>>)
      /\ UNCHANGED <<pluginVars, statusVars, jobVars, queueVars, limit>>
  BY <1>3, <1>6 DEF CallFailureCheck
<1>9. /\ \A k \in Jobs \ {j} : failures'[k] = failures[k]
      /\ failures'[j] = Stored(next)
  BY <1>8 DEF IInv, DataOK, SchedTypeOK
<1> HIDE DEF c, f, stalled, aborted
<1>10. ASSUME j \in Listed(q) /\ ShouldBeRunning(j) =>
                  CountsAsRunning(Stored(next)) = CountsAsRunning(f)
       PROVE  Settled(q)'
  <2>1. ASSUME NEW k \in Listed(q), ShouldBeRunning(k)
        PROVE  CountsAsRunning(failures'[k]) = CountsAsRunning(failures[k])
    BY <1>1, <1>9, <1>10, <2>1 DEF f
  <2>2. Undisturbed(q)
    BY <1>8, <2>1 DEF Undisturbed, pluginVars, statusVars, jobVars, queueVars, CanStart
  <2> QED
    BY <1>1, <1>2, <1>4, <1>5, <2>2, SettledKept
<1>11. CASE q # jobQueue[j]
  BY <1>1, <1>10, <1>11, Elsewhere
<1>12. CASE next.status = f.status
  BY <1>7, <1>10, <1>12
<1>13. CASE next.status # f.status /\ next.status = "Error"
  <2>1. ~ShouldBeRunning(j)
    BY <1>7, <1>13 DEF aborted, ShouldBeRunning
  <2> QED
    BY <1>10, <2>1
<1>14. CASE q = jobQueue[j] /\ next.status # f.status /\ next.status # "Error" /\ StopsTheJob(next)
  <2>1. CASE j \in Listed(q)
    <3>1. CanStop(j)
      BY <1>7, <1>14 DEF stalled, aborted, CanStop
    <3>2. <<OnJob("stop", j)>> \in Seq(Calls) /\ OnJob("stop", j) \in ToSet(<<OnJob("stop", j)>>)
      <4>1. OnJob("stop", j) \in Calls
        BY DEF OnJob, Calls, JobOps
      <4> QED
        BY <4>1, ShortSeq, ToSetShort
    <3>3. Call(<<OnJob("stop", j)>>)
      BY <1>8, <1>14
    <3>4. InCalls(OnJob("stop", j))'
      BY <1>1, <3>2, <3>3, NestedNow DEF Call, Return
    <3>5. CanStop(j)' /\ j \in Listed(q)'
      BY <1>8, <2>1, <3>1 DEF CanStop, Listed, statusVars, queueVars
    <3>6. Halts(q)'
      BY <3>4, <3>5 DEF Halts, InCalls
    <3> QED
      BY <3>6 DEF Settled
  <2>2. CASE j \notin Listed(q)
    BY <1>10, <2>2
  <2> QED
    BY <2>1, <2>2
<1>15. CASE q = jobQueue[j] /\ next.status # f.status /\ next.status # "Error" /\ ~StopsTheJob(next)
  <2>1. Call(<<OnQueue("update", q)>>)
    BY <1>8, <1>15
  <2> QED
    BY <1>1, <2>1, UpdateSettles
<1> QED
  BY <1>11, <1>12, <1>13, <1>14, <1>15

\* JobQueue::setStatus, the loops over a queue's jobs, and what the first undoes.
LEMMA QueueSettles ==
    ASSUME IInv, LInv, SInv, CallQueueStart \/ CallQueueStop \/ CallResetPolicy \/ CallForJobs,
           NEW q \in Queues, Settled(q)
    PROVE  Settled(q)'
<1> DEFINE c == Head(calls)
<1>1. /\ HandlerCall /\ calls # <<>> /\ c \in Calls /\ updating = NoQueue /\ Home({})
      /\ Listed(q) \subseteq Jobs /\ jobs[q] \in Seq(Jobs) /\ Tail(calls) \in Seq(Calls)
  BY CallHead, AlwaysHome, ListedAt DEF HandlerCall, SInv
<1>2. updating # q
  BY <1>1, SchedulerAssumption
<1>3. \A x : InCalls(x) => x = c \/ InCalls(x)'
  BY <1>1, CallsStayFine DEF SInv
<1>4. /\ UNCHANGED <<pluginVars, statusVars, jobVars, schedVars, jobs>>
      /\ Listed(q)' = Listed(q) /\ \A j : CanStop(j)' <=> CanStop(j)
  BY DEF CallQueueStart, CallQueueStop, CallResetPolicy, CallForJobs, QueueStatusChange, Delegate,
         queueVars, Listed, CanStop, statusVars
<1>5. qstatus'[q] = qstatus[q] => Undisturbed(q)
  BY <1>4 DEF Undisturbed, pluginVars, statusVars, jobVars, schedVars, CanStart, CountsAsRunning
<1>6. CASE CallQueueStart \/ CallQueueStop
  <2>1. PICK p \in Queues : p = c.queue
    BY <1>1, <1>6, CallFields DEF CallQueueStart, CallQueueStop, Calling, QueueOps
  <2>2. CASE q # p
    <3>1. qstatus'[q] = qstatus[q]
      BY <1>6, <2>1, <2>2 DEF CallQueueStart, CallQueueStop, QueueStatusChange, IInv, DataOK, QueueTypeOK
    <3>2. Honours(c, q)
      <4>1. c.op \in {"queueStart", "queueStop"}
        BY <1>6 DEF CallQueueStart, CallQueueStop, Calling
      <4> QED
        BY <4>1, Idles
    <3> QED
      BY <1>1, <1>2, <1>3, <1>5, <3>1, <3>2, SettledKept
  <2>3. CASE q = p
    <3> DEFINE resets == [i \in DOMAIN jobs[q] |-> ResetPolicy(jobs[q][i], q)]
    <3>1. resets \in Seq(Calls) /\ \A j \in Listed(q) : ResetPolicy(j, q) \in ToSet(resets)
      <4>1. \A j \in Jobs : ResetPolicy(j, q) \in Calls
        BY DEF ResetPolicy, Calls
      <4>2. \A i \in 1..Len(jobs[q]) : jobs[q][i] \in Jobs
        BY <1>1
      <4>3. resets \in Seq(Calls)
        BY <1>1, <4>1, <4>2, LenProperties
      <4> QED
        BY <4>3 DEF Listed, ToSet
    <3>2. PICK then \in {"update", "stopJobs"} :
              /\ calls' = (resets \o <<OnQueue(then, q)>>) \o Tail(calls)
              /\ then = "stopJobs" => qstatus'[q] = "Stopped"
      <4>1. PICK then \in {"update", "stopJobs"}, s \in QueueStatus :
                /\ QueueStatusChange(q, s, OnQueue(then, q))
                /\ then = "stopJobs" => s = "Stopped"
        BY <1>6, <2>1, <2>3 DEF CallQueueStart, CallQueueStop, QueueStatus
      <4>2. calls' = (resets \o <<OnQueue(then, q)>>) \o Tail(calls)
        BY <4>1 DEF QueueStatusChange, Call, Return, ResetPolicy
      <4>3. qstatus'[q] = s
        BY <4>1 DEF QueueStatusChange, IInv, DataOK, QueueTypeOK
      <4> QED
        BY <4>1, <4>2, <4>3
    <3>3. PICK last : last = OnQueue(then, q)
      OBVIOUS
    <3>4. <<last>> \in Seq(Calls) /\ ToSet(<<last>>) = {last}
      <4>1. last \in Calls
        BY <3>3 DEF OnQueue, Calls, QueueOps
      <4> QED
        BY <4>1, ShortSeq, ToSetShort
    <3> HIDE DEF resets
    <3>5. /\ resets \o <<last>> \in Seq(Calls)
          /\ ToSet(resets \o <<last>>) = ToSet(resets) \cup {last}
      <4>1. resets \in Seq(Calls) /\ <<last>> \in Seq(Calls)
        BY <3>1, <3>4
      <4>2. ToSet(resets \o <<last>>) = ToSet(resets) \cup ToSet(<<last>>)
        BY <4>1, ToSetJoined
      <4>3. resets \o <<last>> \in Seq(Calls)
        BY <4>1, ConcatProperties
      <4> QED
        BY <3>4, <4>2, <4>3
    <3>6. calls' = (resets \o <<last>>) \o Tail(calls)
      BY <3>2, <3>3
    <3>7. InCalls(last)' /\ \A j \in Listed(q) : InCalls(ResetPolicy(j, q))'
      BY <1>1, <3>1, <3>5, <3>6, NestedNow
    <3>8. CASE then = "update"
      BY <3>3, <3>7, <3>8 DEF Settled, InCalls
    <3>9. CASE then = "stopJobs"
      <4>1. CASE \E j \in Listed(q) : CanStop(j)
        <5>1. Halts(q)'
          BY <1>4, <3>3, <3>7, <3>9, <4>1 DEF Halts, InCalls
        <5> QED
          BY <5>1 DEF Settled
      <4>2. CASE \A j \in Listed(q) : ~CanStop(j)
        <5>1. Calm(q)'
          BY <1>4, <3>2, <3>7, <3>9, <4>2 DEF Calm, InCalls
        <5> QED
          BY <5>1 DEF Settled
      <4> QED
        BY <4>1, <4>2
    <3> QED
      BY <3>8, <3>9
  <2> QED
    BY <2>2, <2>3
<1>7. CASE CallResetPolicy \/ CallForJobs
  <2>1. Undisturbed(q)
    BY <1>5, <1>7 DEF CallResetPolicy, CallForJobs, Delegate, queueVars
  <2>2. CASE CallResetPolicy
    <3>1. c.op = "resetPolicy"
      BY <2>2 DEF CallResetPolicy, Calling
    <3>2. ASSUME NEW j \in Listed(q), c = ResetPolicy(j, q), Calm(q), status[j] # "Finished"
          PROVE  InCalls(SetPolicy(j, "None"))'
      <4>1. status[j] = qstatus[q]
        BY <3>2 DEF Calm, CanStop
      <4>2. c.job = j /\ c.queue = q
        BY <3>2, MoreParts
      <4>3. Call(<<SetPolicy(j, "None")>>)
        BY <2>2, <4>1, <4>2 DEF CallResetPolicy, Delegate
      <4>4. SetPolicy(j, "None") \in Calls
        BY <1>1 DEF SetPolicy, Calls, Policies
      <4>5. /\ <<SetPolicy(j, "None")>> \in Seq(Calls)
            /\ SetPolicy(j, "None") \in ToSet(<<SetPolicy(j, "None")>>)
        BY <4>4, ShortSeq, ToSetShort
      <4> QED
        BY <1>1, <4>3, <4>5, NestedNow DEF Call, Return
    <3>3. Honours(c, q)
      BY <3>1, <3>2, CallParts DEF Honours
    <3> QED
      BY <1>1, <1>2, <1>3, <2>1, <3>3, SettledKept
  <2>3. CASE CallForJobs
    <3>1. /\ c.op \in {"stopJobs", "stopHandlers", "checkJobs"}
          /\ c.op = "stopJobs" => Call(ForJobs("stop", jobs[c.queue]))
      BY <2>3 DEF CallForJobs, Calling, Delegate
    <3>2. ASSUME c = OnQueue("stopJobs", q), NEW j \in Listed(q)
          PROVE  InCalls(OnJob("stop", j))'
      <4>1. Call(ForJobs("stop", jobs[q]))
        BY <3>1, <3>2, CallParts
      <4>2. OnJob("stop", j) \in ToSet(ForJobs("stop", jobs[q]))
        BY ForEach DEF Listed
      <4>3. ForJobs("stop", jobs[q]) \in Seq(Calls)
        <5>1. \A x \in Calls : x.op \in {"stop"} => x \in Calls
          OBVIOUS
        <5> QED
          BY <1>1, <5>1, CallLists DEF JobOps
      <4> QED
        BY <1>1, <4>1, <4>2, <4>3, NestedNow DEF Call, Return
    <3>3. Honours(c, q)
      BY <3>1, <3>2, CallParts, MoreParts DEF Honours
    <3> QED
      BY <1>1, <1>2, <1>3, <2>1, <3>3, SettledKept
  <2> QED
    BY <1>7, <2>2, <2>3
<1> QED
  BY <1>6, <1>7

\* Job::setPolicy.
LEMMA PolicySettles ==
    ASSUME IInv, LInv, SInv, CallSetPolicy, NEW q \in Queues, Settled(q)
    PROVE  Settled(q)'
<1> DEFINE c == Head(calls)
<1>1. /\ HandlerCall /\ calls # <<>> /\ c \in Calls /\ c.op = "setPolicy"
      /\ updating = NoQueue /\ Home({}) /\ Listed(q) \subseteq Jobs
  BY CallHead, AlwaysHome, ListedAt DEF HandlerCall, SInv, CallSetPolicy, Calling
<1>2. updating # q
  BY <1>1, SchedulerAssumption
<1>3. PICK j \in Jobs : j = c.job /\ jobQueue[j] \in Queues
  <2>1. c.job \in Jobs
    BY <1>1, CallFields DEF QueueOps
  <2> QED
    BY <2>1 DEF IInv, DataOK, JobTypeOK
<1>4. \A x : InCalls(x) => x = c \/ InCalls(x)'
  BY <1>1, CallsStayFine DEF SInv
<1>5. /\ UNCHANGED <<pluginVars, statusVars, jobQueue, queueVars, schedVars>>
      /\ \A k \in Jobs \ {j} : policy'[k] = policy[k]
  BY <1>3 DEF CallSetPolicy, IInv, DataOK, JobTypeOK
<1>6. (\A k \in Listed(q) : policy'[k] = policy[k]) => Undisturbed(q)
  BY <1>5 DEF Undisturbed, pluginVars, statusVars, queueVars, schedVars, CanStart, CountsAsRunning
<1>7. CASE policy[j] # c.policy
  <2>1. Call(<<OnQueue("update", jobQueue[j])>>)
    BY <1>3, <1>7 DEF CallSetPolicy
  <2>2. CASE q = jobQueue[j]
    BY <1>1, <2>1, <2>2, UpdateSettles
  <2>3. CASE q # jobQueue[j]
    <3>1. j \notin Listed(q)
      BY <1>1, <2>3, Elsewhere
    <3>2. Honours(c, q)
      BY <1>1, <1>3, <3>1, CallParts, MoreParts DEF Honours
    <3> QED
      BY <1>1, <1>2, <1>4, <1>5, <1>6, <3>1, <3>2, SettledKept
  <2> QED
    BY <2>2, <2>3
<1>8. CASE policy[j] = c.policy
  <2>1. policy' = policy
    BY <1>3, <1>8 DEF CallSetPolicy, IInv, DataOK, JobTypeOK
  <2>2. Undisturbed(q)
    BY <1>6, <2>1
  <2>3. Honours(c, q)
    BY <1>1, <1>3, <1>8, CallParts, MoreParts DEF Honours
  <2> QED
    BY <1>1, <1>2, <1>4, <2>2, <2>3, SettledKept
<1> QED
  BY <1>7, <1>8

\* JobQueue::append, remove and move.
LEMMA ListSettles ==
    ASSUME IInv, LInv, SInv, CallAppend \/ CallRemove \/ CallMoveTransfer,
           NEW q \in Queues, Settled(q)
    PROVE  Settled(q)'
<1> DEFINE c == Head(calls)
<1>1. /\ HandlerCall /\ calls # <<>> /\ c \in Calls
      /\ c.op \in {"append", "remove", "moveTransfer"}
      /\ updating = NoQueue /\ Home({})
  BY CallHead, AlwaysHome
     DEF HandlerCall, SInv, CallAppend, CallRemove, CallMoveTransfer, Calling
<1>2. updating # q
  BY <1>1, SchedulerAssumption
<1>3. \A x : InCalls(x) => x = c \/ InCalls(x)'
  BY <1>1, CallsStayFine DEF SInv
<1>4. Honours(c, q)
  BY <1>1, Idles
<1>5. UNCHANGED <<pluginVars, statusVars, jobVars, qstatus, schedVars>>
  <2>1. CallMoveTransfer => c.queue = jobQueue[c.job]
    BY <1>1, NextIsFine DEF SInv, CallMoveTransfer, Calling
  <2> QED
    BY <2>1 DEF CallAppend, CallRemove, CallMoveTransfer, Delegate, Relist, queueVars
<1>6. jobs'[q] = jobs[q] => Undisturbed(q)
  BY <1>5 DEF Undisturbed, pluginVars, statusVars, jobVars, schedVars, CanStart, CountsAsRunning
<1>7. ASSUME NEW p \in Queues, NEW list, Relist(p, list), Call(<<OnQueue("update", p)>>)
      PROVE  Settled(q)'
  <2>1. CASE q = p
    BY <1>1, <1>7, <2>1, UpdateSettles
  <2>2. CASE q # p
    <3>1. jobs'[q] = jobs[q]
      BY <1>7, <2>2 DEF Relist, IInv, DataOK, QueueTypeOK
    <3> QED
      BY <1>1, <1>2, <1>3, <1>4, <1>6, <3>1, SettledKept
  <2> QED
    BY <2>1, <2>2
<1>8. /\ c.job \in Jobs /\ jobQueue[c.job] \in Queues
      /\ c.op \in {"append", "moveTransfer"} => c.queue \in Queues
  BY <1>1, CallFields DEF QueueOps, IInv, DataOK, JobTypeOK
<1>9. CASE CallAppend
  BY <1>7, <1>8, <1>9 DEF CallAppend, Calling
<1>10. CASE CallRemove
  BY <1>7, <1>8, <1>10 DEF CallRemove
<1>11. CASE CallMoveTransfer
  <2>1. c.op = "moveTransfer"
    BY <1>11 DEF CallMoveTransfer, Calling
  <2>2. c.queue = jobQueue[c.job] /\ c.queue \in Queues
    BY <1>1, <1>8, <2>1, NextIsFine DEF SInv
  <2>3. \/ Delegate(<<>>)
        \/ \E list : Relist(c.queue, list) /\ Call(<<OnQueue("update", c.queue)>>)
    BY <1>11, <2>2 DEF CallMoveTransfer
  <2>4. CASE Delegate(<<>>)
    <3>1. jobs'[q] = jobs[q]
      BY <2>4 DEF Delegate, queueVars
    <3> QED
      BY <1>1, <1>2, <1>3, <1>4, <1>6, <3>1, SettledKept
  <2> QED
    BY <1>7, <2>2, <2>3, <2>4
<1> QED
  BY <1>9, <1>10, <1>11

\* Scheduler::updateQueue begins, or is dropped where nothing may be updated.
LEMMA BeginSettles ==
    ASSUME IInv, LInv, SInv, CallUpdate, ShouldUpdate', NEW q \in Queues, Settled(q)
    PROVE  Settled(q)'
<1> DEFINE c == Head(calls)
<1>1. /\ HandlerCall /\ calls # <<>> /\ c \in Calls /\ c.op = "update"
      /\ updating = NoQueue /\ Home({})
  BY CallHead, AlwaysHome DEF HandlerCall, SInv, CallUpdate, Calling
<1>2. updating # q
  BY <1>1, SchedulerAssumption
<1>3. \A x : InCalls(x) => x = c \/ InCalls(x)'
  BY <1>1, CallsStayFine DEF SInv
<1>4. updating' = c.queue
  BY DEF CallUpdate, ShouldUpdate, schedVars, BeginLoop
<1>5. Undisturbed(q)
  BY DEF CallUpdate, Undisturbed, pluginVars, statusVars, jobVars, queueVars, schedVars, CanStart,
         CountsAsRunning
<1>6. Honours(c, q)
  BY <1>1, <1>4, CallParts, MoreParts DEF Honours
<1> QED
  BY <1>1, <1>2, <1>3, <1>5, <1>6, SettledKept

\* Calls that touch nothing an allocation depends on, and the deletion of transfers,
\* which no group lists any more.
LEMMA OthersSettle ==
    ASSUME IInv, LInv, SInv,
           \/ CallStart \/ CallSlotResultEnd \/ CallSetSpeed \/ CallHandlerStart
           \/ CallHandlerStop \/ CallDestroy \/ CallDelQueue \/ (CallSetSuspended /\ ShouldUpdate),
           NEW q \in Queues, Settled(q)
    PROVE  Settled(q)'
<1> DEFINE c == Head(calls)
<1>1. /\ HandlerCall /\ calls # <<>> /\ c \in Calls
      /\ c.op \in {"start", "slotResultEnd", "setSpeed", "handlerStart", "handlerStop", "destroy",
                   "delQueue", "setSuspended"}
      /\ updating = NoQueue /\ Home({}) /\ Listed(q) \subseteq Jobs
  BY CallHead, AlwaysHome, ListedAt
     DEF HandlerCall, SInv, CallStart, CallSlotResultEnd, CallSetSpeed, CallHandlerStart,
         CallHandlerStop, CallDestroy, CallDelQueue, CallSetSuspended, Calling
<1>2. updating # q
  BY <1>1, SchedulerAssumption
<1>3. \A x : InCalls(x) => x = c \/ InCalls(x)'
  BY <1>1, CallsStayFine DEF SInv
<1>4. Honours(c, q)
  BY <1>1, Idles
<1>5. Undisturbed(q)
  <2>1. CASE CallStart
    <3>1. ~CanStart(c.job)
      BY <1>1, <2>1, NextIsFine DEF SInv, CallStart, Calling
    <3> QED
      BY <2>1, <3>1 DEF CallStart, moveVars, PluginStart, statusVars, jobVars, queueVars, schedVars,
                        Undisturbed, CanStart, CountsAsRunning
  <2>2. CASE CallSlotResultEnd
    <3>1. c.job \in KioJobs
      BY <1>1, <2>2, NextIsFine DEF SInv, CallSlotResultEnd, Calling
    <3>2. \A j \in MmsJobs : worker'[j] = worker[j]
      BY <2>2, <3>1, SchedulerAssumption
         DEF CallSlotResultEnd, KioJobs, IInv, DataOK, PluginTypeOK
    <3> QED
      BY <2>2, <3>2 DEF CallSlotResultEnd, moveVars, statusVars, jobVars, queueVars, schedVars,
                        Undisturbed, CanStart, CountsAsRunning
  <2>3. CASE CallSetSpeed \/ CallHandlerStart \/ CallHandlerStop \/ CallSetSuspended
    BY <2>3 DEF CallSetSpeed, CallHandlerStart, CallHandlerStop, CallSetSuspended, Delegate,
                pluginVars, moveVars, statusVars, jobVars, queueVars, schedVars, Undisturbed, CanStart,
                CountsAsRunning
  <2>4. CASE CallDestroy \/ CallDelQueue
    <3>1. PICK gone : /\ Destroy(gone) /\ UNCHANGED <<jobs, qstatus>>
                      /\ \A j \in gone : j \notin Listed(q)
      <4>1. CASE CallDestroy
        <5>1. PICK j \in Jobs : Unlisted(j) /\ Destroy({j}) /\ UNCHANGED queueVars
          BY <4>1, DestroyCall
        <5> QED
          BY <5>1 DEF Unlisted, queueVars
      <4>2. CASE CallDelQueue
        <5>1. PICK gone : Destroy(gone) /\ \A j \in gone : Unlisted(j)
          BY <4>2, DelQueueCall
        <5> QED
          BY <4>2, <5>1 DEF Unlisted, CallDelQueue
      <4> QED
        BY <2>4, <4>1, <4>2
    <3>2. ASSUME NEW j \in Listed(q)
          PROVE  /\ status'[j] = status[j] /\ errorType'[j] = errorType[j]
                 /\ policy'[j] = policy[j] /\ (worker'[j] <=> worker[j]) /\ (moving'[j] <=> moving[j])
      BY <1>1, <3>1 DEF Destroy
    <3> QED
      BY <3>1, <3>2 DEF Destroy, schedVars, Undisturbed, CanStart, CountsAsRunning
  <2> QED
    BY <2>1, <2>2, <2>3, <2>4
<1> QED
  BY <1>1, <1>2, <1>3, <1>4, <1>5, SettledKept

-----------------------------------------------------------------------------
(* Every call, and every step of the loop.                                 *)

\* No call adds a group.
LEMMA GroupsLeft ==
    ASSUME IInv, LInv, RInv, HandlerCall
    PROVE  ToSet(queues') \subseteq ToSet(queues) /\ ToSet(queues) \subseteq Queues
<1>1. queues \in Seq(Queues) /\ Once(queues)
  BY DEF IInv, DataOK, QueueTypeOK, RInv
<1>2. ToSet(queues) \subseteq Queues
  BY <1>1, ToSetType
<1>3. CASE CallDelQueue
  BY <1>1, <1>2, <1>3, WithoutOnce DEF CallDelQueue
<1>4. CASE ~CallDelQueue
  <2>1. UNCHANGED queues
    BY <1>4
       DEF HandlerCall, CallUpdate, CallStart, CallStop, CallSetStatus, CallSetErrorType,
           CallSetPolicy, CallSlotResultEnd, CallSetSpeed, CallHandlerStart, CallHandlerStop,
           CallFailureCheck, CallQueueStart, CallQueueStop, CallResetPolicy, CallForJobs,
           CallAppend, CallRemove, CallInsert, CallMoveTransfer, CallSetJobQueue, CallDestroy,
           CallSetSuspended, Delegate, QueueStatusChange, Relist, queueVars
  <2> QED
    BY <1>2, <2>1
<1> QED
  BY <1>2, <1>3, <1>4

\* Only its check changes a transfer's record, and stores none that is not valid.
LEMMA FailuresKept ==
    ASSUME IInv, FailuresOK, HandlerCall
    PROVE  FailuresOK'
<1>1. CASE CallFailureCheck
  <2>1. PICK j, f : failures' = [failures EXCEPT ![j] = Stored(f)]
    BY <1>1 DEF CallFailureCheck
  <2>2. Stored(f) = NoFailure \/ IsValid(Stored(f))
    BY DEF Stored
  <2>3. \A k \in Jobs : failures'[k] = failures[k] \/ failures'[k] = Stored(f)
    BY <2>1 DEF IInv, DataOK, SchedTypeOK
  <2> QED
    BY <2>2, <2>3 DEF FailuresOK
<1>2. CASE ~CallFailureCheck
  <2>1. UNCHANGED failures
    BY <1>2
       DEF HandlerCall, CallUpdate, CallStart, CallStop, CallSetStatus, CallSetErrorType,
           CallSetPolicy, CallSlotResultEnd, CallSetSpeed, CallHandlerStart, CallHandlerStop,
           CallFailureCheck, CallQueueStart, CallQueueStop, CallResetPolicy, CallForJobs,
           CallAppend, CallRemove, CallInsert, CallMoveTransfer, CallSetJobQueue, CallDestroy,
           CallDelQueue, CallSetSuspended, Delegate, QueueStatusChange, Relist, Destroy,
           schedVars
  <2> QED
    BY <2>1 DEF FailuresOK
<1> QED
  BY <1>1, <1>2

\* Each call keeps the groups settled, and where updates are allowed again all groups
\* are updated.
LEMMA CallSettles == IInv /\ LInv /\ RInv /\ SInv /\ HandlerCall => SInv'
<1> SUFFICES ASSUME IInv, LInv, RInv, SInv, HandlerCall PROVE SInv'
  OBVIOUS
<1>1. FineOK' /\ FailuresOK'
  BY CallsStayFine, FailuresKept DEF SInv
<1>2. ToSet(queues') \subseteq ToSet(queues) /\ ToSet(queues) \subseteq Queues
  BY GroupsLeft
<1>3. ASSUME ShouldUpdate', NEW q \in ToSet(queues') PROVE Settled(q)'
  <2>1. q \in Queues /\ q \in ToSet(queues)
    BY <1>2, <1>3
  <2>2. CASE ~ShouldUpdate
    <3>1. CallSetSuspended
      <4>1. ~CallSetSuspended => UNCHANGED <<suspended, connected>>
        BY DEF HandlerCall, CallUpdate, CallStart, CallStop, CallSetStatus, CallSetErrorType,
               CallSetPolicy, CallSlotResultEnd, CallSetSpeed, CallHandlerStart,
               CallHandlerStop, CallFailureCheck, CallQueueStart, CallQueueStop, CallResetPolicy,
               CallForJobs, CallAppend, CallRemove, CallInsert, CallMoveTransfer,
               CallSetJobQueue, CallDestroy, CallDelQueue, Delegate, QueueStatusChange, Relist,
               Destroy, schedVars
      <4> QED
        BY <1>3, <2>2, <4>1 DEF ShouldUpdate
    <3>2. suspended' = Head(calls).suspended /\ connected' = connected /\ suspended # suspended'
      BY <1>3, <2>2, <3>1 DEF CallSetSuspended, ShouldUpdate, IInv, DataOK, SchedTypeOK
    <3>3. Call(ForQueues("update"))
      BY <1>3, <3>1, <3>2 DEF CallSetSuspended, ShouldUpdate
    <3>4. ForQueues("update") \in Seq(Calls)
      <4>1. \A x \in Calls : x.op \in {"update"} => x \in Calls
        OBVIOUS
      <4> QED
        BY <4>1, CallLists DEF QueueOps
    <3>5. OnQueue("update", q) \in ToSet(ForQueues("update"))
      BY <2>1, ForEach
    <3>6. InCalls(OnQueue("update", q))'
      BY <3>3, <3>4, <3>5, NestedNow DEF Call, Return
    <3> QED
      BY <3>6 DEF Settled, InCalls
  <2>3. CASE ShouldUpdate
    <3>1. Settled(q)
      BY <2>1, <2>3 DEF SInv
    <3>2. ~CallSetErrorType /\ ~CallInsert /\ ~CallSetJobQueue
      BY NextIsFine DEF SInv, CallSetErrorType, CallInsert, CallSetJobQueue, Calling
    <3> QED
      BY <1>3, <2>1, <2>3, <3>1, <3>2, StatusSettles, CheckSettles, QueueSettles, PolicySettles,
         ListSettles, BeginSettles, OthersSettle
         DEF HandlerCall
  <2> QED
    BY <2>2, <2>3
<1> QED
  BY <1>1, <1>3 DEF SInv

\* updateQueue's loop leaves its queue allocated, and the other queues alone.
LEMMA LoopSettles == IInv /\ LInv /\ RInv /\ SInv /\ LoopOK /\ UpdateLoop => SInv'
<1> SUFFICES ASSUME IInv, LInv, RInv, SInv, LoopOK, UpdateLoop PROVE SInv'
  OBVIOUS
<1>1. UNCHANGED <<calls, jobVars, queueVars, schedVars>> /\ updating # NoQueue
  BY DEF UpdateLoop, KeepRunning, StopUnwanted, StartWanted, LeaveStopped, StopOverLimit,
         UpdateDone, NextJob, Looping
<1>2. JobsListedOnce /\ Home({}) /\ ToSet(queues) \subseteq Queues
  <2>1. queues \in Seq(Queues)
    BY DEF IInv, DataOK, QueueTypeOK
  <2> QED
    BY <2>1, ListedFact, AlwaysHome, ToSetType DEF SInv
<1>3. FailuresOK'
  BY <1>1 DEF SInv, FailuresOK, schedVars
<1>4. ASSUME NEW q \in ToSet(queues'), ShouldUpdate' PROVE Settled(q)'
  <2>1. q \in Queues /\ q \in ToSet(queues) /\ Settled(q)
    BY <1>1, <1>2, <1>4 DEF SInv, ShouldUpdate, schedVars, queueVars
  <2>2. CASE UpdateDone
    <3>1. CASE q = updating
      <4>1. Allocated(q)
        BY <2>2, <3>1, LoopAllocates DEF UpdateDone, UpdateAllocates
      <4>2. Undisturbed(q)
        BY <2>2 DEF UpdateDone, Undisturbed, pluginVars, statusVars, jobVars, queueVars, schedVars,
                    CanStart, CountsAsRunning
      <4> QED
        BY <1>2, <2>1, <4>1, <4>2, AllocationKept DEF Settled
    <3>2. CASE q # updating
      <4>1. Undisturbed(q)
        BY <2>2 DEF UpdateDone, Undisturbed, pluginVars, statusVars, jobVars, queueVars, schedVars,
                    CanStart, CountsAsRunning
      <4>2. \A x : InCalls(x) => InCalls(x)'
        BY <1>1 DEF InCalls
      <4>3. Honours(OnQueue("update", updating), q)
        BY <3>2, CallParts, MoreParts DEF Honours
      <4> QED
        BY <1>2, <2>1, <3>2, <4>1, <4>2, <4>3, SettledKept
    <3> QED
      BY <3>1, <3>2
  <2>3. CASE ~UpdateDone
    <3>1. Looping /\ updating' = updating
      BY <2>3 DEF UpdateLoop, KeepRunning, StopUnwanted, StartWanted, LeaveStopped, StopOverLimit,
                  NextJob
    <3>2. CASE q = updating
      BY <3>1, <3>2 DEF Settled
    <3>3. CASE q # updating
      <4>1. PICK j \in Jobs : j = LoopJob /\ j \notin Listed(q)
        <5>1. LoopJob \in Jobs
          BY <3>1, LoopJobType
        <5>2. updating \in Queues /\ pos \in DOMAIN jobs[updating]
          BY <3>1 DEF Looping, IInv, StateOK, LoopTypeOK, DataOK, QueueTypeOK
        <5>3. LoopJob \notin Listed(q)
          BY <1>2, <2>1, <3>3, <5>2 DEF JobsListedOnce, Listed, ToSet, LoopJob
        <5> QED
          BY <5>1, <5>3
      <4>2. /\ \A k \in Jobs \ {j} : /\ status'[k] = status[k] /\ errorType'[k] = errorType[k]
                                     /\ worker'[k] = worker[k]
            /\ UNCHANGED moving
        <5>1. \/ PluginStart(j) \/ PluginStop(j) \/ UNCHANGED <<pluginVars, statusVars>>
          BY <2>3, <4>1 DEF UpdateLoop, KeepRunning, StopUnwanted, StartWanted, LeaveStopped,
                            StopOverLimit
        <5>2. CASE UNCHANGED <<pluginVars, statusVars>>
          BY <5>2 DEF pluginVars, statusVars
        <5>3. CASE PluginStart(j)
          BY <5>3 DEF PluginStart, moveVars, AssignStatus, statusVars, IInv, DataOK, JobTypeOK, PluginTypeOK
        <5>4. CASE PluginStop(j)
          BY <5>4 DEF PluginStop, moveVars, AssignStatus, statusVars, IInv, DataOK, JobTypeOK, PluginTypeOK
        <5> QED
          BY <5>1, <5>2, <5>3, <5>4
      <4>3. Listed(q) \subseteq Jobs
        BY <2>1, ListedAt
      <4>4. Undisturbed(q)
        BY <1>1, <4>1, <4>2, <4>3
           DEF Undisturbed, jobVars, queueVars, schedVars, CanStart, CountsAsRunning
      <4>5. \A x : InCalls(x) => InCalls(x)'
        BY <1>1 DEF InCalls
      <4>6. Honours(OnQueue("update", updating), q)
        BY <3>3, CallParts, MoreParts DEF Honours
      <4> QED
        BY <1>2, <2>1, <3>3, <4>4, <4>5, <4>6, SettledKept
    <3> QED
      BY <3>2, <3>3
  <2> QED
    BY <2>2, <2>3
<1>5. FineOK'
  <2>1. calls \in Seq(Fine)
    BY <1>1 DEF SInv, FineOK
  <2>2. Fine' = Fine /\ calls' = calls
    BY <1>1 DEF Fine, jobVars
  <2> QED
    BY <2>1, <2>2 DEF FineOK
<1> QED
  BY <1>3, <1>4, <1>5 DEF SInv

-----------------------------------------------------------------------------
(* The events.                                                             *)

\* In the event loop nothing is to be called any more: the groups are allocated.
LEMMA IdleAllocated ==
    ASSUME IInv, LInv, SInv, handler = "none"
    PROVE  /\ calls = <<>> /\ updating = NoQueue /\ Home({}) /\ ToSet(queues) \subseteq Queues
           /\ ShouldUpdate => \A q \in ToSet(queues) : Allocated(q)
<1>1. calls = <<>> /\ updating = NoQueue /\ Home({}) /\ ToSet(queues) \subseteq Queues
  <2>1. queues \in Seq(Queues)
    BY DEF IInv, DataOK, QueueTypeOK
  <2> QED
    BY <2>1, AlwaysHome, ToSetType DEF IInv, StateOK, HandlerOK, SInv
<1>2. ASSUME ShouldUpdate, NEW q \in ToSet(queues) PROVE Allocated(q)
  <2>1. q \in Queues /\ q # updating /\ Settled(q)
    BY <1>1, <1>2, SchedulerAssumption DEF SInv
  <2>2. \A c : ~InCalls(c)
    BY <1>1, ToSetShort DEF InCalls
  <2>3. CASE Calm(q)
    <3>1. ASSUME NEW j \in Listed(q) PROVE ~ShouldBeRunning(j) /\ ~IsActive(j)
      <4>1. jobQueue[j] = q
        BY <1>1, <2>1 DEF Home
      <4> QED
        BY <2>2, <2>3, <4>1 DEF Calm, CanStop, ShouldBeRunning, IsActive
    <3>2. \A i \in DOMAIN jobs[q] : jobs[q][i] \in Listed(q)
      BY <2>1, ListedAt
    <3> QED
      BY <3>1, <3>2 DEF Allocated
  <2> QED
    BY <2>1, <2>2, <2>3 DEF Settled, Halts
<1> QED
  BY <1>1, <1>2

\* An event that leaves a group alone, or that updates it, keeps it settled.
LEMMA EventSettles ==
    ASSUME IInv, LInv, SInv, handler = "none", FineOK', UNCHANGED failures,
           \A q \in ToSet(queues') :
               ShouldUpdate' => \/ ShouldUpdate /\ q \in ToSet(queues) /\ Undisturbed(q)
                                \/ InCalls(OnQueue("update", q))' \/ Allocated(q)'
    PROVE  SInv'
<1>1. ASSUME ShouldUpdate', NEW q \in ToSet(queues') PROVE Settled(q)'
  <2>1. CASE ShouldUpdate /\ q \in ToSet(queues) /\ Undisturbed(q)
    BY <2>1, IdleAllocated, AllocationKept DEF Settled
  <2>2. CASE InCalls(OnQueue("update", q))' \/ Allocated(q)'
    BY <2>2 DEF Settled, InCalls
  <2> QED
    BY <1>1, <2>1, <2>2
<1>2. FailuresOK'
  BY DEF SInv, FailuresOK
<1> QED
  BY <1>1, <1>2 DEF SInv

\* The user, the network, the settings and the timer.
LEMMA CommandSettles ==
    ASSUME Orderly, IInv, LInv, RInv, SInv, CommandEvent
    PROVE  SInv'
<1>1. \A c \in Calls : c.op \in CommandOps => c \in Fine
  BY DEF CommandOps, Fine
<1>2. ASSUME NEW j \in alive, NEW q \in ToSet(queues), NEW after \in Jobs \cup {NoJob},
             q = jobQueue[j] \/ "moveToGroup" \in Events
      PROVE  MoveTransfer(j, q, after) \in Fine
  <2>1. j \in Jobs /\ q = jobQueue[j] /\ q \in Queues
    BY <1>2 DEF Orderly, IInv, DataOK, JobTypeOK
  <2> QED
    BY <2>1 DEF Fine, MoveTransfer, Calls
<1>3. PICK event \in Events, todo \in Seq(Fine) : Handle(event, todo)
  BY <1>1, <1>2, CommandCalls
<1>4. UNCHANGED <<pluginVars, status, errorType, alive, policy, jobQueue, owner>>
  BY <1>1, <1>2, CommandCalls
<1>5. handler = "none" /\ FineOK'
  <2>1. Fine' = Fine
    BY <1>4 DEF Fine
  <2> QED
    BY <1>3, <2>1 DEF Handle, FineOK
<1>6. /\ Home({}) /\ ToSet(queues) \subseteq Queues /\ calls = <<>>
      /\ \A q : InCalls(OnQueue("update", q))' <=> OnQueue("update", q) \in ToSet(calls')
  BY <1>5, IdleAllocated DEF InCalls
<1>7. CASE \E b \in BOOLEAN, n \in ConnectionLimits : Network(b) \/ SettingsChanged(n)
  <2>1. UNCHANGED <<queueVars, failures, suspended>> /\ (ShouldUpdate' => calls' = ForQueues("update"))
    BY <1>7 DEF Network, SettingsChanged, Handle, ShouldUpdate
  <2>2. \A q \in ToSet(queues') : ShouldUpdate' => InCalls(OnQueue("update", q))'
    BY <1>6, <2>1, ForEach DEF queueVars
  <2> QED
    BY <1>5, <2>1, <2>2, EventSettles
<1>8. CASE \E p \in Queues : AddGroup(p)
  <2>1. PICK p \in Queues : AddGroup(p)
    BY <1>8
  <2>2. /\ UNCHANGED <<jobs, schedVars>> /\ queues' = Append(queues, p) /\ p \notin ToSet(queues)
        /\ \A q \in Queues \ {p} : qstatus'[q] = qstatus[q]
    BY <2>1 DEF AddGroup, IInv, DataOK, QueueTypeOK
  <2>3. ToSet(queues') = ToSet(queues) \cup {p}
    <3>1. queues \in Seq(Queues) /\ Once(queues)
      BY DEF IInv, DataOK, QueueTypeOK, RInv
    <3> QED
      BY <2>2, <3>1, AppendOnce
  <2>4. Listed(p) = {}
    <3>1. \A j \in Listed(p) : j \in alive /\ jobQueue[j] = p
      BY <1>6 DEF Home, LInv, ListsOK
    <3> QED
      BY <1>5, <2>2, <3>1, IdleHeld
  <2>5. Allocated(p)'
    <3>1. DOMAIN jobs[p] = {}
      BY <2>4, ListedAt
    <3> QED
      BY <2>2, <3>1 DEF Allocated
  <2>6. ASSUME NEW q \in ToSet(queues), q # p PROVE Undisturbed(q)
    BY <1>4, <1>6, <2>2, <2>6 DEF Undisturbed, pluginVars, schedVars, CanStart, CountsAsRunning
  <2> QED
    BY <1>5, <2>2, <2>3, <2>5, <2>6, EventSettles DEF ShouldUpdate, schedVars
<1>9. CASE \E p \in Queues : DelGroup(p)
  <2>1. PICK p \in Queues : DelGroup(p)
    BY <1>9
  <2>2. /\ UNCHANGED <<schedVars, queues, qstatus>> /\ \A q \in Queues \ {p} : jobs'[q] = jobs[q]
        /\ calls' = <<OnQueue("update", p), OnQueue("delQueue", p)>>
    BY <2>1 DEF DelGroup, Handle, IInv, DataOK, QueueTypeOK
  <2>3. InCalls(OnQueue("update", p))'
    BY <1>6, <2>2, ToSetShort
  <2>4. ASSUME NEW q \in ToSet(queues), q # p PROVE Undisturbed(q)
    BY <1>4, <1>6, <2>2, <2>4 DEF Undisturbed, pluginVars, schedVars, CanStart, CountsAsRunning
  <2> QED
    BY <1>5, <2>2, <2>3, <2>4, EventSettles DEF ShouldUpdate, schedVars
<1>10. CASE UNCHANGED <<queueVars, schedVars>>
  <2>1. ASSUME NEW q \in ToSet(queues) PROVE Undisturbed(q)
    BY <1>4, <1>10 DEF Undisturbed, pluginVars, queueVars, schedVars, CanStart, CountsAsRunning
  <2> QED
    BY <1>5, <1>10, <2>1, EventSettles DEF ShouldUpdate, queueVars, schedVars
<1>11. \/ UNCHANGED <<queueVars, schedVars>>
       \/ \E p \in Queues : AddGroup(p) \/ DelGroup(p)
       \/ \E b \in BOOLEAN, n \in ConnectionLimits : Network(b) \/ SettingsChanged(n)
  BY SchedulerAssumption
     DEF CommandEvent, UserStart, UserStop, Delete, StartSelected, StopSelected, GroupStart,
         GroupStop, StartAll, StopAll, SetOfflineMode, Move, TimerEvent, Event
<1> QED
  BY <1>7, <1>8, <1>9, <1>10, <1>11

\* A copy job that reports leaves its transfer Running as it is, and one that repairs
\* a finished file starts nothing; all else that the workers tell updates the group.
LEMMA WorkerCallsFine ==
    ASSUME Orderly, IInv, WInv, NEW j \in Jobs, WorkerEvent(j) \/ NewDestination(j) \/ Repair(j)
    PROVE  FineOK'
<1>1. handler = "none" /\ UNCHANGED <<status, jobVars>>
  <2>1. handler = "none"
    BY DEF WorkerEvent, Data, Speed, Result, Error, StatResult, NewDestResult, BrokenUrl,
           ConnectionsErrors, MmsResult, NewDestination, Repair, Event, Handle
  <2>2. UNCHANGED <<status, jobVars>>
    BY DEF WorkerEvent, Data, Speed, Result, Error, StatResult, NewDestResult, BrokenUrl,
           ConnectionsErrors, MmsResult, NewDestination, Repair, Event, statusVars
  <2> QED
    BY <2>1, <2>2
<1>2. updating = NoQueue /\ (FtpJobs = {} => \A k \in KioJobs : worker[k] => status[k] = "Running")
  <2>1. updating = NoQueue /\ Steady(<<>>, {})
    BY <1>1, IdleFit
  <2> QED
    BY <2>1 DEF Steady, Busy
<1>3. Fine' = Fine
  BY <1>1 DEF Fine, jobVars
<1>4. ASSUME NEW event, NEW todo \in Seq(Fine), Handle(event, todo) PROVE FineOK'
  BY <1>3, <1>4 DEF Handle, FineOK
<1>5. /\ \A s \in Statuses \ {"Running"} : SetStatusTo(j, s) \in Fine
      /\ \A b \in BOOLEAN : SetSpeed(j, b) \in Fine
      /\ OnJob("stop", j) \in Fine
      /\ j \in KioJobs => OnJob("slotResultEnd", j) \in Fine
  BY DEF Fine, SetStatusTo, SetSpeed, OnJob, Calls, JobOps
<1>6. ASSUME Data(j) PROVE FALSE
  BY <1>2, <1>6 DEF Data, Event, Handle, Orderly
<1>7. ASSUME NEW b \in BOOLEAN, Speed(j, b) PROVE FineOK'
  <2>1. CASE j \in MmsJobs
    <3>1. PICK works \in BOOLEAN : Event("speed", <<SetSpeed(j, works)>>)
      <4>1. (b /\ status[j] = "Running") \in BOOLEAN
        OBVIOUS
      <4> QED
        BY <1>7, <2>1, <4>1 DEF Speed, KioJobs
    <3>2. <<SetSpeed(j, works)>> \in Seq(Fine)
      BY <1>5, ShortSeq
    <3> QED
      BY <1>4, <3>1, <3>2 DEF Event
  <2>2. CASE j \notin MmsJobs
    <3>1. status[j] = "Running"
      BY <1>2, <1>7, <2>2 DEF Speed, Event, Handle, Orderly
    <3>2. calls' = <<SetStatusTo(j, "Running"), SetSpeed(j, b)>> /\ UNCHANGED updating
      BY <1>7, <2>2, <3>1 DEF Speed, Event, Handle, loopVars
    <3> QED
      BY <1>1, <1>2, <3>1, <3>2 DEF FineOK
  <2> QED
    BY <2>1, <2>2
<1>8. ASSUME Result(j) \/ Error(j) \/ StatResult(j) PROVE FineOK'
  <2>1. /\ \A s \in Statuses \ {"Running"} : <<SetStatusTo(j, s)>> \in Seq(Fine)
        /\ j \in KioJobs => \A s \in Statuses \ {"Running"} :
               <<SetStatusTo(j, s), OnJob("slotResultEnd", j)>> \in Seq(Fine)
    BY <1>5, ShortSeq
  <2> QED
    BY <1>4, <1>8, <2>1 DEF Result, Error, StatResult, Event, Statuses
<1>9. ASSUME NewDestination(j) PROVE FineOK'
  <2>1. <<OnJob("stop", j), SetStatusTo(j, "Moving")>> \in Seq(Fine)
    BY <1>5, ShortSeq DEF Statuses
  <2> QED
    BY <1>4, <1>9, <2>1 DEF NewDestination
<1>10. ASSUME ConnectionsErrors(j) PROVE FineOK'
  <2>1. <<OnJob("stop", j)>> \in Seq(Fine)
    BY <1>5, ShortSeq
  <2> QED
    BY <1>4, <1>10, <2>1 DEF ConnectionsErrors
<1>11. ASSUME Repair(j) PROVE FineOK'
  <2>1. calls' = <<OnJob("start", j)>> /\ updating' = NoQueue /\ status'[j] = "Finished"
    BY <1>1, <1>2, <1>11 DEF Repair, Handle, loopVars
  <2>2. ~CanStart(j)'
    BY <2>1 DEF CanStart
  <2> QED
    BY <2>1, <2>2 DEF FineOK
<1>12. /\ ~NewDestResult(j) /\ ~BrokenUrl(j) /\ \A b \in BOOLEAN : ~MmsResult(j, b)
  BY DEF Orderly, NewDestResult, BrokenUrl, MmsResult, Event, Handle
<1> QED
  BY <1>6, <1>7, <1>8, <1>9, <1>10, <1>11, <1>12 DEF WorkerEvent

\* The workers' events.
LEMMA WorkerSettles ==
    ASSUME Orderly, IInv, LInv, WInv, SInv,
           NEW j \in Jobs, WorkerEvent(j) \/ NewDestination(j) \/ Repair(j)
    PROVE  SInv'
<1>1. FineOK' /\ handler = "none" /\ UNCHANGED <<statusVars, jobVars, queueVars, schedVars>>
  <2>1. handler = "none" /\ UNCHANGED <<statusVars, jobVars, queueVars, schedVars>>
    <3>1. \A c \in Calls : c.op \in WorkerOps => c \in Calls
      OBVIOUS
    <3> QED
      BY <3>1, WorkerCalls DEF Handle
  <2> QED
    BY <2>1, WorkerCallsFine
<1>2. /\ \A k \in MmsJobs : worker'[k] = worker[k]
      /\ \A k \in Jobs : moving'[k] = moving[k] \/ moving'[k]
  BY SchedulerAssumption
     DEF WorkerEvent, Data, Speed, Result, Error, StatResult, NewDestResult, BrokenUrl,
         ConnectionsErrors, MmsResult, NewDestination, Repair, Event, Handle, pluginVars, moveVars, Orderly,
         KioJobs, IInv, DataOK, PluginTypeOK
<1>3. ToSet(queues) \subseteq Queues
  BY <1>1, IdleAllocated
<1>4. ASSUME NEW q \in ToSet(queues) PROVE Undisturbed(q)
  <2>1. \A k \in Listed(q) : CanStart(k)' => CanStart(k)
    <3>1. Listed(q) \subseteq Jobs
      BY <1>3, ListedAt
    <3> QED
      BY <1>1, <1>2, <3>1 DEF CanStart, statusVars
  <2> QED
    BY <1>1, <2>1 DEF Undisturbed, statusVars, jobVars, queueVars, schedVars, CountsAsRunning
<1> QED
  BY <1>1, <1>4, EventSettles DEF ShouldUpdate, queueVars, schedVars

\* A new transfer: no group lists it until it is appended, and then its group updates.
LEMMA AddSettles ==
    ASSUME IInv, LInv, SInv, NEW j \in Jobs, NEW q \in Queues, NEW s \in Statuses,
           NEW p \in Policies, NEW start \in BOOLEAN, Add(j, q, s, p, start)
    PROVE  SInv'
<1> DEFINE begin == <<SetStatusTo(j, s), SetPolicy(j, p), AppendTo(j, q)>>
           last == IF start THEN <<OnJob("handlerStart", j)>> ELSE <<>>
<1>1. /\ handler = "none" /\ calls' = begin \o last /\ j \notin alive /\ s # "Running"
      /\ \A k \in Jobs \ {j} : jobQueue'[k] = jobQueue[k]
      /\ UNCHANGED <<worker, moving, statusVars, policy, queueVars, schedVars>>
  BY DEF Add, moveVars, Handle, AppendTo, IInv, DataOK, JobTypeOK
<1>2. FineOK'
  <2>1. \A c \in Calls : c.op \in {"setPolicy", "append", "handlerStart"} => c \in Fine'
    BY DEF Fine
  <2>2. SetPolicy(j, p) \in Fine' /\ AppendTo(j, q) \in Fine'
    BY <2>1, CallLists
  <2>3. OnJob("handlerStart", j) \in Fine'
    BY <2>1, CallLists DEF JobOps
  <2>4. SetStatusTo(j, s) \in Fine'
    BY <1>1 DEF Fine, SetStatusTo, Calls
  <2>5. begin \in Seq(Fine') /\ last \in Seq(Fine')
    BY <2>2, <2>3, <2>4, ShortSeq
  <2> HIDE DEF begin, last
  <2>6. begin \o last \in Seq(Fine')
    BY <2>5, ConcatProperties
  <2> QED
    BY <1>1, <2>6 DEF FineOK
<1>3. Home({}) /\ ToSet(queues) \subseteq Queues
  BY <1>1, IdleAllocated
<1>4. ASSUME NEW r \in ToSet(queues) PROVE Undisturbed(r)
  <2>1. Listed(r) \subseteq Jobs \ {j}
    <3>1. Listed(r) \subseteq Jobs /\ Listed(r) \subseteq alive
      BY <1>3, ListedAt DEF LInv, ListsOK, Home
    <3> QED
      BY <1>1, <3>1
  <2> QED
    BY <1>1, <2>1 DEF Undisturbed, statusVars, queueVars, schedVars, CanStart, CountsAsRunning
<1> QED
  BY <1>1, <1>2, <1>4, EventSettles DEF ShouldUpdate, queueVars, schedVars

-----------------------------------------------------------------------------
(* The failure check's timer.                                              *)

\* While KGet is online, a transfer that has had another status than Stopped or the
\* one it was loaded with has started the timer, which only a lost connection stops.
TimerOK == connected /\ ~timer => \A j \in Jobs : status[j] \notin {"Running", "Aborted"}

\* Whatever changes a transfer's status starts the timer, or leaves it neither Running
\* nor Aborted.
LEMMA TimerStep ==
    ASSUME IInv, TimerOK, connected' => connected,
           \/ UNCHANGED <<status, timer>>
           \/ \E j \in Jobs, s \in Statuses : AssignStatus(j, s)
           \/ UNCHANGED timer /\ \A j \in Jobs : status'[j] \in {status[j], "Stopped"}
    PROVE  TimerOK'
<1>1. status \in [Jobs -> Statuses] /\ timer \in BOOLEAN
  BY DEF IInv, DataOK, JobTypeOK, SchedTypeOK
<1>2. ASSUME NEW j \in Jobs, NEW s \in Statuses, AssignStatus(j, s) PROVE TimerOK'
  BY <1>1, <1>2 DEF TimerOK, AssignStatus
<1>3. CASE UNCHANGED <<status, timer>>
  BY <1>3 DEF TimerOK
<1>4. CASE UNCHANGED timer /\ \A j \in Jobs : status'[j] \in {status[j], "Stopped"}
  BY <1>1, <1>4 DEF TimerOK
<1> QED
  BY <1>2, <1>3, <1>4

\* Every step of the specification keeps it.
LEMMA TimerKept == IInv /\ TimerOK /\ [Next]_vars => TimerOK'
<1> SUFFICES ASSUME IInv, TimerOK, [Next]_vars PROVE TimerOK'
  OBVIOUS
<1>1. ASSUME NEW j \in Jobs, PluginStart(j) \/ PluginStop(j), UNCHANGED connected PROVE TimerOK'
  <2>1. UNCHANGED <<status, timer>> \/ \E s \in Statuses : AssignStatus(j, s)
    BY <1>1 DEF PluginStart, PluginStop, statusVars, Statuses
  <2> QED
    BY <1>1, <2>1, TimerStep
<1>2. CASE UpdateLoop
  <2>1. UNCHANGED connected
    BY <1>2 DEF UpdateLoop, KeepRunning, StopUnwanted, StartWanted, LeaveStopped, StopOverLimit,
                UpdateDone, NextJob, schedVars
  <2>2. CASE UNCHANGED statusVars
    BY <2>1, <2>2, TimerStep DEF statusVars
  <2>3. CASE Looping /\ (PluginStart(LoopJob) \/ PluginStop(LoopJob))
    BY <1>1, <2>1, <2>3, LoopJobType
  <2> QED
    BY <1>2, <2>2, <2>3 DEF UpdateLoop, KeepRunning, StopUnwanted, StartWanted, LeaveStopped,
                            StopOverLimit, UpdateDone
<1>3. CASE HandlerCall
  <2>1. UNCHANGED connected
    BY <1>3
       DEF HandlerCall, CallUpdate, CallStart, CallStop, CallSetStatus, CallSetErrorType,
           CallSetPolicy, CallSlotResultEnd, CallSetSpeed, CallHandlerStart, CallHandlerStop,
           CallFailureCheck, CallQueueStart, CallQueueStop, CallResetPolicy, CallForJobs,
           CallAppend, CallRemove, CallInsert, CallMoveTransfer, CallSetJobQueue, CallDestroy,
           CallDelQueue, CallSetSuspended, Delegate, QueueStatusChange, Relist, Destroy,
           schedVars
  <2>2. calls # <<>> /\ Head(calls) \in Calls
    BY <1>3, CallHead
  <2>3. CASE CallStart \/ CallStop
    <3>1. Head(calls).job \in Jobs
      BY <2>2, <2>3, CallFields DEF CallStart, CallStop, Calling, QueueOps
    <3> QED
      BY <1>1, <2>1, <2>3, <3>1 DEF CallStart, CallStop
  <2>4. CASE CallSetStatus
    <3>1. Head(calls).job \in Jobs /\ Head(calls).status \in Statuses
      BY <2>2, <2>4, CallFields DEF CallSetStatus, Calling, QueueOps
    <3> QED
      BY <2>1, <2>4, <3>1, TimerStep DEF CallSetStatus
  <2>5. CASE CallDestroy \/ CallDelQueue
    <3>1. UNCHANGED timer /\ \A j \in Jobs : status'[j] \in {status[j], "Stopped"}
      BY <2>5 DEF CallDestroy, CallDelQueue, Destroy
    <3> QED
      BY <2>1, <3>1, TimerStep
  <2>6. CASE UNCHANGED <<status, timer>>
    BY <2>1, <2>6, TimerStep
  <2> QED
    BY <1>3, <2>3, <2>4, <2>5, <2>6
       DEF HandlerCall, CallUpdate, CallSetErrorType, CallSetPolicy, CallSlotResultEnd,
           CallSetSpeed, CallHandlerStart, CallHandlerStop, CallFailureCheck, CallQueueStart,
           CallQueueStop, CallResetPolicy, CallForJobs, CallAppend, CallRemove, CallInsert,
           CallMoveTransfer, CallSetJobQueue, CallSetSuspended, Delegate, QueueStatusChange,
           Relist, statusVars
<1>4. CASE \E b \in BOOLEAN : Network(b)
  BY <1>4 DEF Network, TimerOK
<1>5. CASE UNCHANGED <<status, timer, connected>>
  BY <1>5, TimerStep
<1>6. ASSUME NEW j \in Jobs, WorkerEvent(j) \/ NewDestination(j) \/ Repair(j)
      PROVE  UNCHANGED <<status, timer, connected>>
  BY <1>6 DEF WorkerEvent, Data, Speed, Result, Error, StatResult, NewDestResult, BrokenUrl,
              ConnectionsErrors, MmsResult, NewDestination, Repair, Event, statusVars, schedVars
<1>7. CASE UserEvent
  <2>1. UNCHANGED <<status, timer, connected>>
    BY <1>6, <1>7, ZenonT(30)
       DEF UserEvent, UserStart, UserStop, Delete, StartSelected, StopSelected, GroupStart,
           GroupStop, AddGroup, DelGroup, StartAll, StopAll, SetOfflineMode, Add, Move,
           SettingsChanged, Event, statusVars, schedVars
  <2> QED
    BY <1>5, <2>1
<1>8. CASE UNCHANGED vars \/ TimerEvent
  BY <1>5, <1>8 DEF vars, TimerEvent, Event, statusVars, schedVars
<1> QED
  BY <1>2, <1>3, <1>4, <1>5, <1>6, <1>7, <1>8 DEF Next

-----------------------------------------------------------------------------
(* The theorem.                                                            *)

\* KGet::load updates every group.
LEMMA InitSettles == IInv /\ Init => SInv /\ TimerOK /\ LoopOK
<1> SUFFICES ASSUME IInv, Init PROVE SInv /\ TimerOK /\ LoopOK
  OBVIOUS
<1>1. TimerOK /\ LoopOK /\ FailuresOK /\ calls = ForQueues("update")
  BY DEF Init, TimerOK, LoopOK, FailuresOK
<1>2. FineOK
  <2>1. \A c \in Calls : c.op \in {"update"} => c \in Fine
    BY DEF Fine
  <2>2. ForQueues("update") \in Seq(Fine)
    BY <2>1, CallLists DEF QueueOps
  <2> QED
    BY <1>1, <2>2 DEF FineOK
<1>3. ASSUME NEW q \in ToSet(queues) PROVE Settled(q)
  BY <1>1, ForEach DEF Settled, InCalls
<1> QED
  BY <1>1, <1>2, <1>3 DEF SInv

\* Every step of the specification keeps the groups settled.
LEMMA NextSettles ==
    Orderly /\ IInv /\ LInv /\ WInv /\ RInv /\ LoopOK /\ SInv /\ [Next]_vars => SInv'
<1> SUFFICES ASSUME Orderly, IInv, LInv, WInv, RInv, LoopOK, SInv, [Next]_vars PROVE SInv'
  OBVIOUS
<1>1. CASE UNCHANGED vars
  <2>1. UNCHANGED <<pluginVars, status, errorType, jobVars, queueVars, schedVars, calls, updating>>
    BY <1>1 DEF vars, statusVars, loopVars
  <2>2. FineOK'
    BY <2>1 DEF SInv, FineOK, Fine, CanStart, pluginVars, jobVars
  <2>3. FailuresOK'
    BY <2>1 DEF SInv, FailuresOK, schedVars
  <2>4. ASSUME ShouldUpdate', NEW q \in ToSet(queues') PROVE Settled(q)'
    <3>1. Settled(q) /\ q \in Queues /\ Home({})
      <4>1. queues \in Seq(Queues)
        BY DEF IInv, DataOK, QueueTypeOK
      <4> QED
        BY <2>1, <2>4, <4>1, ToSetType, AlwaysHome DEF SInv, ShouldUpdate, queueVars, schedVars
    <3>2. Undisturbed(q)
      BY <2>1 DEF Undisturbed, pluginVars, jobVars, queueVars, schedVars, CanStart, CountsAsRunning
    <3>3. CASE updating = q
      BY <2>1, <3>3 DEF Settled
    <3>4. CASE updating # q
      <4>1. \A x : InCalls(x) => x = SetSuspended(TRUE) \/ InCalls(x)'
        BY <2>1 DEF InCalls
      <4>2. Honours(SetSuspended(TRUE), q)
        BY Idles, MoreParts
      <4> QED
        BY <3>1, <3>2, <3>4, <4>1, <4>2, SettledKept
    <3> QED
      BY <3>3, <3>4
  <2> QED
    BY <2>2, <2>3, <2>4 DEF SInv
<1>2. CASE UserEvent
  BY <1>2, CommandSettles, WorkerSettles, AddSettles DEF UserEvent, CommandEvent
<1>3. CASE TimerEvent \/ \E b \in BOOLEAN : Network(b)
  BY <1>3, CommandSettles DEF CommandEvent
<1> QED
  BY <1>1, <1>2, <1>3, LoopSettles, CallSettles, WorkerSettles DEF Next

\* Scheduler::updateQueue is called after each change that entitles a transfer to run
\* or takes that from it, and the timer runs as long as a transfer runs or waits for a
\* retry: whenever KGet waits in the event loop, the slots of every group are allocated
\* in list order, and no failure goes unchecked.
THEOREM NothingForgotten == Orderly => (Spec => []IdleIsSettled)
<1> SUFFICES ASSUME Orderly PROVE Spec => []IdleIsSettled
  OBVIOUS
<1>1. GroupsKept
  BY DEF Orderly, GroupsKept
<1>2. IInv /\ Init => LInv /\ WInv /\ MovesOK /\ RInv /\ LoopOK /\ SInv /\ TimerOK
  BY InitListed, InitFit, InitHeld, InitSettles DEF Init, MovesOK
<1>3. IInv /\ LInv /\ WInv /\ MovesOK /\ RInv /\ LoopOK /\ SInv /\ TimerOK /\ [Next]_vars
          => LInv' /\ WInv' /\ MovesOK' /\ RInv' /\ LoopOK' /\ SInv' /\ TimerOK'
  BY <1>1, NextListed, NextFit, MovesKept, NextHeld, ListedFact, LoopNextOK, NextSettles, TimerKept
<1>4. IInv /\ LInv /\ SInv /\ TimerOK => IdleIsSettled
  <2> SUFFICES ASSUME IInv, LInv, SInv, TimerOK PROVE IdleIsSettled
    OBVIOUS
  <2>1. AllocatedWhenIdle
    BY IdleAllocated DEF AllocatedWhenIdle, Idle
  <2>2. FailuresAreChecked
    BY DEF FailuresAreChecked, TimerOK, IInv, DataOK, JobTypeOK
  <2> QED
    BY <2>1, <2>2 DEF IdleIsSettled
<1> QED
  BY <1>2, <1>3, <1>4, Invariance, PTL DEF Spec
===============================================================================
