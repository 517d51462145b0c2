--------------------------- MODULE SchedulerProofs ---------------------------
(***************************************************************************)
(* Proofs about Scheduler, for every value of its constants.               *)
(*                                                                         *)
(* The theorems on the lists say that each transfer is listed once,        *)
(* whatever is added, deleted and moved (JobsListedOnce), and so that      *)
(* updateQueue's loop always allocates the slots by list order             *)
(* (UpdateAllocates).  Both need GroupsKept: a transfer that was moved is  *)
(* destroyed with the group it was created in, and a new one may get its   *)
(* address while the other group still lists it.                           *)
(***************************************************************************)
EXTENDS Scheduler, SequenceTheorems, FiniteSetTheorems, TLAPS

-----------------------------------------------------------------------------
(* Lemmas about lists.                                                     *)

\* A part of a list, from any position to any other within it, is such a list.
LEMMA PartType ==
    ASSUME NEW S, NEW s \in Seq(S), NEW m \in Int, NEW n \in Int, 1 <= m, n <= Len(s)
    PROVE  SubSeq(s, m, n) \in Seq(S)
<1>1. \A i \in m..n : s[i] \in S
  BY LenProperties
<1> QED
  BY <1>1, SubSeqProperties

\* The place of a list's element is one of its places.
LEMMA IndexOfType ==
    ASSUME NEW S, NEW s \in Seq(S), NEW j \in ToSet(s)
    PROVE  IndexOf(s, j) \in 1..Len(s)
BY LenProperties DEF IndexOf, ToSet

\* A list without one element is a list of the same type.
LEMMA WithoutType ==
    ASSUME NEW S, NEW s \in Seq(S), NEW j
    PROVE  Without(s, j) \in Seq(S)
<1>1. CASE j \notin ToSet(s)
  BY <1>1 DEF Without
<1>2. CASE j \in ToSet(s)
  <2> DEFINE n == IndexOf(s, j)
  <2>1. n \in 1..Len(s)
    BY <1>2, IndexOfType
  <2> HIDE DEF n
  <2>2. SubSeq(s, 1, n - 1) \in Seq(S) /\ SubSeq(s, n + 1, Len(s)) \in Seq(S)
    BY <2>1, PartType, LenProperties
  <2>3. RemoveAt(s, n) \in Seq(S)
    BY <2>2, ConcatProperties DEF RemoveAt
  <2> QED
    BY <1>2, <2>3 DEF Without, n
<1> QED
  BY <1>1, <1>2

\* So is a list with one element more, wherever it goes.
LEMMA InsertAfterType ==
    ASSUME NEW S, NEW s \in Seq(S), NEW j \in S, NEW after
    PROVE  InsertAfter(s, j, after) \in Seq(S)
<1> DEFINE n == IF after \in ToSet(s) THEN IndexOf(s, after) + 1 ELSE 1
<1>1. n \in 1..(Len(s) + 1)
  BY IndexOfType, LenProperties
<1> HIDE DEF n
<1>2. SubSeq(s, 1, n - 1) \in Seq(S) /\ SubSeq(s, n, Len(s)) \in Seq(S)
  BY <1>1, PartType, LenProperties
<1>3. <<j>> \in Seq(S)
  OBVIOUS
<1>4. SubSeq(s, 1, n - 1) \o <<j>> \in Seq(S)
  BY <1>2, <1>3, ConcatProperties
<1>5. InsertAt(s, n, j) \in Seq(S)
  BY <1>2, <1>4, ConcatProperties DEF InsertAt
<1> QED
  BY <1>5 DEF InsertAfter, n

-----------------------------------------------------------------------------
(* The inductive invariant.                                                *)

\* The calls that bring no job to Running by themselves: only an update of a
\* queue, a plug-in's event or its restart after a move does.
Quiet ==
    {c \in Calls : c.op # "start" /\ (c.op = "setStatus" => c.status # "Running")}

\* A handler is being run exactly while it has calls left or an update loops.
HandlerOK == handler = "none" <=> (calls = <<>> /\ updating = NoQueue)

\* updateQueue loops only while updates are allowed.
UpdateOK == updating # NoQueue => ShouldUpdate

\* What is still to be called starts a job only in a plug-in's handler.
StackOK == handler \notin PluginEvents => calls \in Seq(Quiet)

DataOK  == PluginTypeOK /\ JobTypeOK /\ QueueTypeOK /\ SchedTypeOK
StateOK ==
    /\ calls \in Seq(Calls)
    /\ handler \in EventNames \cup {"none", "load"}
    /\ LoopTypeOK /\ HandlerOK /\ StackOK

IInv == DataOK /\ StateOK /\ UpdateOK

-----------------------------------------------------------------------------
(* Lemmas about calls.                                                     *)

\* Short lists have the type of their elements.
LEMMA ShortSeq ==
    ASSUME NEW S
    PROVE  /\ <<>> \in Seq(S)
           /\ \A a \in S : <<a>> \in Seq(S)
           /\ \A a, b \in S : <<a, b>> \in Seq(S)
           /\ \A a, b, c \in S : <<a, b, c>> \in Seq(S)
OBVIOUS

\* Lists put together are the same list however the parts are grouped.
LEMMA Regroup ==
    ASSUME NEW S, NEW a \in Seq(S), NEW b \in Seq(S), NEW c \in Seq(S)
    PROVE  a \o (b \o c) = (a \o b) \o c
OBVIOUS

LEMMA RegroupCalls ==
    \A a, b, c \in Seq(Calls) : a \o (b \o c) = (a \o b) \o c
<1> SUFFICES ASSUME NEW S, S = Calls
             PROVE  \A a, b, c \in Seq(S) : a \o (b \o c) = (a \o b) \o c
  OBVIOUS
<1> QED
  BY ONLY Regroup

\* Quiet calls are calls, whole lists of them too.
LEMMA QuietSeq == Quiet \subseteq Calls /\ Seq(Quiet) \subseteq Seq(Calls)
<1>1. Quiet \subseteq Calls
  BY DEF Quiet
<1> QED
  BY <1>1, SeqMonotonic

\* The calls that handlers make of others: all but start() and a status change
\* to Running are quiet.
LEMMA QuietCalls ==
    /\ \A op \in JobOps \ {"start"}, j \in Jobs : OnJob(op, j) \in Quiet
    /\ \A op \in QueueOps, q \in Queues : OnQueue(op, q) \in Quiet
    /\ \A j \in Jobs, p \in Policies : SetPolicy(j, p) \in Quiet
    /\ \A j \in Jobs, s \in Statuses \ {"Running"} : SetStatusTo(j, s) \in Quiet
    /\ \A j \in Jobs, q \in Queues :
           /\ [op |-> "resetPolicy", job |-> j, queue |-> q] \in Quiet
           /\ [op |-> "append", job |-> j, queue |-> q] \in Quiet
           /\ [op |-> "setJobQueue", job |-> j, queue |-> q] \in Quiet
    /\ \A j \in Jobs, q \in Queues, after \in Jobs \cup {NoJob} :
           /\ MoveTransfer(j, q, after) \in Quiet
           /\ [op |-> "insert", job |-> j, queue |-> q, after |-> after] \in Quiet
    /\ \A j \in Jobs, t \in ErrorTypes : [op |-> "setErrorType", job |-> j, type |-> t] \in Quiet
    /\ \A j \in Jobs, b \in BOOLEAN : SetSpeed(j, b) \in Quiet
    /\ \A b \in BOOLEAN : SetSuspended(b) \in Quiet
BY DEF Quiet, Calls, OnJob, OnQueue, SetPolicy, SetStatusTo, MoveTransfer, SetSpeed, SetSuspended,
       JobOps, QueueOps, Policies, Statuses, ErrorTypes

\* The other two are calls.
LEMMA StartCalls ==
    \A j \in Jobs : /\ OnJob("start", j) \in Calls
                    /\ \A s \in Statuses : SetStatusTo(j, s) \in Calls
BY DEF Calls, OnJob, SetStatusTo, JobOps

\* One call for each job of a list, or for each queue.
LEMMA ForAllCalls ==
    /\ \A op \in JobOps \ {"start"}, s \in Seq(Jobs) : ForJobs(op, s) \in Seq(Quiet)
    /\ queues \in Seq(Queues) => \A op \in QueueOps : ForQueues(op) \in Seq(Quiet)
<1>1. ASSUME NEW op \in JobOps \ {"start"}, NEW s \in Seq(Jobs)
      PROVE  ForJobs(op, s) \in Seq(Quiet)
  <2>1. \A i \in 1..Len(s) : OnJob(op, s[i]) \in Quiet
    BY QuietCalls, LenProperties
  <2> QED
    BY <2>1, LenProperties DEF ForJobs
<1>2. ASSUME queues \in Seq(Queues), NEW op \in QueueOps
      PROVE  ForQueues(op) \in Seq(Quiet)
  <2>1. \A i \in 1..Len(queues) : OnQueue(op, queues[i]) \in Quiet
    BY <1>2, QuietCalls, LenProperties
  <2> QED
    BY <1>2, <2>1, LenProperties DEF ForQueues
<1> QED
  BY <1>1, <1>2

\* The fields of a call have the types its operation needs.
LEMMA CallFields ==
    ASSUME NEW c \in Calls
    PROVE  /\ c.op \notin QueueOps \cup {"setSuspended"} => c.job \in Jobs
           /\ c.op \in QueueOps \cup {"resetPolicy", "append", "setJobQueue", "moveTransfer", "insert"}
              => c.queue \in Queues
           /\ c.op = "setPolicy" => c.policy \in Policies
           /\ c.op = "setStatus" => c.status \in Statuses
           /\ c.op = "setErrorType" => c.type \in ErrorTypes
           /\ c.op \in {"moveTransfer", "insert"} => c.after \in Jobs \cup {NoJob}
           /\ c.op = "setSpeed" => c.working \in BOOLEAN
           /\ c.op = "setSuspended" => c.suspended \in BOOLEAN
BY DEF Calls, JobOps, QueueOps

\* A call that makes only quiet calls keeps the stack in order.
LEMMA CallStep ==
    ASSUME StateOK, NEW op, Calling(op), NEW nested \in Seq(Quiet), Call(nested)
    PROVE  StateOK' /\ updating' = NoQueue /\ UNCHANGED loopVars
<1>1. Tail(calls) \in Seq(Calls) /\ calls # <<>> /\ updating = NoQueue
  BY HeadTailProperties DEF StateOK, Calling
<1>2. calls' \in Seq(Calls)
  BY <1>1, QuietSeq, ConcatProperties DEF Call, Return
<1>3. handler' \in EventNames \cup {"none", "load"}
  BY DEF StateOK, Call, Return
<1>4. LoopTypeOK' /\ UNCHANGED loopVars
  BY <1>1 DEF StateOK, LoopTypeOK, Call, loopVars
<1>5. HandlerOK'
  BY <1>1 DEF StateOK, HandlerOK, Call, Return, loopVars
<1>6. StackOK'
  <2>1. CASE handler' = "none"
    BY <2>1, <1>5, EmptySeq DEF StackOK, HandlerOK
  <2>2. CASE handler' = handler /\ handler \notin PluginEvents
    <3>1. Tail(calls) \in Seq(Quiet)
      BY <2>2, <1>1, HeadTailProperties DEF StateOK, StackOK
    <3> QED
      BY <3>1, ConcatProperties DEF StackOK, Call, Return
  <2> QED
    BY <2>1, <2>2 DEF Call, Return, StackOK
<1> QED
  BY <1>1, <1>2, <1>3, <1>4, <1>5, <1>6 DEF StateOK, loopVars

\* An event whose handler makes only quiet calls, unless it is a plug-in's.
LEMMA HandleStep ==
    ASSUME StateOK, NEW event, NEW todo \in Seq(Calls),
           event \notin PluginEvents => todo \in Seq(Quiet), Handle(event, todo)
    PROVE  StateOK' /\ updating' = NoQueue /\ UNCHANGED loopVars
<1>1. updating = NoQueue /\ calls' = todo /\ UNCHANGED loopVars
  BY DEF StateOK, HandlerOK, Handle
<1>2. handler' \in EventNames \cup {"none", "load"} /\ event # "none"
  BY SchedulerAssumption DEF Handle, EventNames
<1>3. LoopTypeOK'
  BY <1>1 DEF StateOK, LoopTypeOK, loopVars
<1>4. HandlerOK'
  BY <1>1, <1>2 DEF HandlerOK, Handle, loopVars
<1>5. StackOK'
  BY <1>1, <1>4, EmptySeq DEF StackOK, HandlerOK, Handle
<1> QED
  BY <1>1, <1>2, <1>3, <1>4, <1>5 DEF StateOK, loopVars

-----------------------------------------------------------------------------
(* The plug-ins' start() and stop(), and the failure automaton.            *)

\* The failure automaton stays within its records.
LEMMA FailureType ==
    ASSUME NEW f \in JobFailures, NEW stalled \in BOOLEAN, NEW aborted \in BOOLEAN,
           NEW type, NEW working \in BOOLEAN
    PROVE  Stored(NextFailure(f, stalled, aborted, type, working)) \in JobFailures
<1>1. StalledFailure(f) \in JobFailures
  BY FailureAssumption
     DEF StalledFailure, Count, JobFailures, FailureStatuses, StallStatuses
<1>2. AbortedFailure(f, type) \in JobFailures
  BY FailureAssumption DEF AbortedFailure, Count, JobFailures, FailureStatuses
<1>3. NoFailure \in JobFailures
  BY DEF NoFailure, JobFailures, FailureStatuses
<1> QED
  BY <1>1, <1>2, <1>3 DEF NextFailure, Stored

\* A status change keeps the types.
LEMMA AssignStatusType ==
    ASSUME DataOK, NEW j \in Jobs, NEW s \in Statuses, AssignStatus(j, s)
    PROVE  /\ status' \in [Jobs -> Statuses] /\ errorType' \in [Jobs -> ErrorTypes]
           /\ timer' \in BOOLEAN
BY DEF DataOK, JobTypeOK, SchedTypeOK, AssignStatus, ErrorTypes

\* So does start() of a job.
LEMMA PluginStartType ==
    ASSUME DataOK, NEW j \in Jobs, PluginStart(j), UNCHANGED <<jobVars, queueVars, schedVars>>
    PROVE  DataOK'
<1>1. PluginTypeOK'
  BY DEF DataOK, PluginTypeOK, PluginStart, moveVars
<1>2. status' \in [Jobs -> Statuses] /\ errorType' \in [Jobs -> ErrorTypes] /\ timer' \in BOOLEAN
  BY AssignStatusType DEF PluginStart, Statuses, statusVars, DataOK, JobTypeOK, SchedTypeOK
<1> QED
  BY <1>1, <1>2 DEF DataOK, JobTypeOK, QueueTypeOK, SchedTypeOK, jobVars, queueVars, schedVars

\* So does stop() of a job.
LEMMA PluginStopType ==
    ASSUME DataOK, NEW j \in Jobs, PluginStop(j), UNCHANGED <<jobVars, queueVars, schedVars>>
    PROVE  DataOK'
<1>1. worker' \in [Jobs -> BOOLEAN]
  <2> DEFINE kept == worker[j] /\ j \in MmsJobs
  <2>1. kept \in BOOLEAN
    OBVIOUS
  <2>2. worker' = worker \/ worker' = [worker EXCEPT ![j] = kept]
    BY DEF PluginStop
  <2> HIDE DEF kept
  <2> QED
    BY <2>1, <2>2 DEF DataOK, PluginTypeOK
<1>2. PluginTypeOK'
  <2>1. statJobs' \in [Jobs -> Nat]
    BY DEF DataOK, PluginTypeOK, PluginStop
  <2>2. speed' \in [Jobs -> BOOLEAN]
    BY DEF DataOK, PluginTypeOK, PluginStop
  <2> QED
    BY <1>1, <2>1, <2>2 DEF DataOK, PluginTypeOK, PluginStop, moveVars
<1>3. status' \in [Jobs -> Statuses] /\ errorType' \in [Jobs -> ErrorTypes] /\ timer' \in BOOLEAN
  BY AssignStatusType DEF PluginStop, Statuses, statusVars, DataOK, JobTypeOK, SchedTypeOK
<1> QED
  BY <1>2, <1>3 DEF DataOK, JobTypeOK, QueueTypeOK, SchedTypeOK, jobVars, queueVars, schedVars

\* What a status change or a stop() asks for is quiet.
LEMMA AfterStatusType ==
    ASSUME DataOK, NEW j \in Jobs, NEW s
    PROVE  AfterStatus(j, s) \in Seq(Quiet) /\ AfterStop(j) \in Seq(Quiet)
BY QuietCalls DEF DataOK, JobTypeOK, AfterStatus, AfterStop, QueueOps

\* Data that does not change keeps its types.
LEMMA SameData ==
    ASSUME DataOK, UNCHANGED <<pluginVars, statusVars, jobVars, queueVars, schedVars>>
    PROVE  DataOK'
BY DEF DataOK, PluginTypeOK, JobTypeOK, QueueTypeOK, SchedTypeOK,
       pluginVars, statusVars, jobVars, queueVars, schedVars

-----------------------------------------------------------------------------
(* The initial states and the update loop.                                 *)

\* The invariant holds initially, with load's updates pending.
LEMMA InitOK == Init => IInv
<1> SUFFICES ASSUME Init PROVE IInv
  OBVIOUS
<1> USE DEF Init
<1>1. \A j \in Jobs : GroupOf(j) \in Queues
  BY SchedulerAssumption DEF GroupOf, RestoredJobs
<1>2. PICK n \in 1..Cardinality(Queues) : queues \in [1..n -> Queues]
  OBVIOUS
<1>3. queues \in Seq(Queues) /\ Len(queues) = n
  BY <1>2, SchedulerAssumption, FS_CardinalityType
<1>4. PluginTypeOK
  BY DEF PluginTypeOK
<1>5. JobTypeOK
  BY <1>1, SchedulerAssumption DEF JobTypeOK, RestoredJobs, Statuses, ErrorTypes, Policies
<1>6. QueueTypeOK
  BY <1>3, SchedulerAssumption DEF QueueTypeOK
<1>7. SchedTypeOK
  BY DEF SchedTypeOK, NoFailure, JobFailures, FailureStatuses
<1>8. ForQueues("update") \in Seq(Quiet)
  BY <1>3, ForAllCalls DEF QueueOps
<1>9. calls # <<>>
  <2>1. 1 \in DOMAIN queues
    BY <1>2
  <2> QED
    BY <2>1 DEF ForQueues
<1>10. LoopTypeOK /\ HandlerOK /\ StackOK
  BY <1>8, <1>9, SchedulerAssumption DEF LoopTypeOK, HandlerOK, StackOK
<1> QED
  BY <1>4, <1>5, <1>6, <1>7, <1>8, <1>10, QuietSeq DEF IInv, DataOK, StateOK, UpdateOK

\* A step of the loop to the next job.
LEMMA NextJobOK ==
    ASSUME IInv, Looping, NEW slot \in BOOLEAN, NextJob(slot)
    PROVE  StateOK' /\ UpdateOK'
<1>1. LoopTypeOK'
  BY DEF IInv, DataOK, QueueTypeOK, StateOK, LoopTypeOK, Looping, NextJob, queueVars
<1>2. HandlerOK' /\ StackOK' /\ UpdateOK'
  BY DEF IInv, StateOK, HandlerOK, StackOK, UpdateOK, ShouldUpdate, NextJob, schedVars
<1> QED
  BY <1>1, <1>2 DEF IInv, StateOK, NextJob

\* The loop looks at jobs.
LEMMA LoopJobType ==
    ASSUME IInv, Looping
    PROVE  LoopJob \in Jobs
BY LenProperties DEF IInv, DataOK, QueueTypeOK, StateOK, LoopTypeOK, Looping, LoopJob

\* Every step of the update loop keeps the invariant.
LEMMA UpdateLoopOK == IInv /\ UpdateLoop => IInv'
<1> SUFFICES ASSUME IInv, UpdateLoop PROVE IInv'
  OBVIOUS
<1> USE DEF IInv
<1>1. CASE KeepRunning
  BY <1>1, NextJobOK, SameData DEF KeepRunning, NextJob
<1>2. CASE StopUnwanted
  BY <1>2, NextJobOK, PluginStopType, LoopJobType DEF StopUnwanted, NextJob
<1>3. CASE StartWanted
  BY <1>3, NextJobOK, PluginStartType, LoopJobType DEF StartWanted, NextJob
<1>4. CASE LeaveStopped
  BY <1>4, NextJobOK, SameData DEF LeaveStopped, NextJob
<1>5. CASE StopOverLimit
  BY <1>5, NextJobOK, PluginStopType, LoopJobType DEF StopOverLimit, NextJob
<1>6. CASE UpdateDone
  <2>1. DataOK'
    BY <1>6, SameData DEF UpdateDone
  <2>2. LoopTypeOK' /\ HandlerOK' /\ UpdateOK'
    BY <1>6 DEF UpdateDone, StateOK, LoopTypeOK, HandlerOK, UpdateOK
  <2>3. StackOK'
    BY <1>6, EmptySeq DEF UpdateDone, StateOK, StackOK
  <2> QED
    BY <1>6, <2>1, <2>2, <2>3 DEF UpdateDone, StateOK
<1> QED
  BY <1>1, <1>2, <1>3, <1>4, <1>5, <1>6 DEF UpdateLoop

-----------------------------------------------------------------------------
(* The calls of a handler.                                                 *)

\* The invariant gives a handler's next call its fields, and the update it may
\* start its state.
LEMMA HeadFields ==
    ASSUME StateOK, NEW op, Calling(op)
    PROVE  Head(calls) \in Calls /\ Head(calls).op = op
BY HeadTailProperties DEF StateOK, Calling

\* A call that calls only quiet ones and keeps the data's types is fine.
LEMMA CallOK ==
    ASSUME IInv, DataOK', NEW op, Calling(op), NEW nested \in Seq(Quiet), Call(nested)
    PROVE  IInv'
BY CallStep DEF IInv, UpdateOK

\* Delegating changes no data at all.
LEMMA DelegateOK ==
    ASSUME IInv, NEW op, Calling(op), NEW nested \in Seq(Quiet), Delegate(nested)
    PROVE  IInv'
BY CallOK, SameData DEF IInv, Delegate

\* The steps that call a job's start(), stop() or setters.
LEMMA JobCallsOK ==
    ASSUME IInv,
           \/ CallStart \/ CallStop \/ CallSetStatus \/ CallSetErrorType \/ CallSetPolicy
           \/ CallSlotResultEnd \/ CallSetSpeed
    PROVE  IInv'
<1> USE DEF IInv
<1> DEFINE c == Head(calls)
<1>0. <<>> \in Seq(Quiet)
  BY EmptySeq
<1>1. CASE CallStart
  <2>1. c.job \in Jobs
    BY <1>1, HeadFields, CallFields DEF CallStart, QueueOps
  <2> QED
    BY <1>0, <1>1, <2>1, CallOK, PluginStartType DEF CallStart
<1>2. CASE CallStop
  <2>1. c.job \in Jobs
    BY <1>2, HeadFields, CallFields DEF CallStop, QueueOps
  <2> QED
    BY <1>2, <2>1, CallOK, PluginStopType, AfterStatusType DEF CallStop
<1>3. CASE CallSetStatus
  <2>1. c.job \in Jobs /\ c.status \in Statuses
    BY <1>3, HeadFields, CallFields DEF CallSetStatus, QueueOps
  <2>2. DataOK'
    BY <1>3, <2>1, AssignStatusType
       DEF CallSetStatus, moveVars, DataOK, PluginTypeOK, JobTypeOK, QueueTypeOK, SchedTypeOK,
           pluginVars, jobVars, queueVars, schedVars
  <2> QED
    BY <1>3, <2>1, <2>2, CallOK, AfterStatusType DEF CallSetStatus
<1>4. CASE CallSetErrorType
  <2>1. c.job \in Jobs /\ c.type \in ErrorTypes
    BY <1>4, HeadFields, CallFields DEF CallSetErrorType, QueueOps
  <2>2. DataOK'
    BY <1>4, <2>1
       DEF CallSetErrorType, DataOK, PluginTypeOK, JobTypeOK, QueueTypeOK, SchedTypeOK,
           pluginVars, jobVars, queueVars, schedVars
  <2> QED
    BY <1>0, <1>4, <2>2, CallOK DEF CallSetErrorType
<1>5. CASE CallSetPolicy
  <2>1. c.job \in Jobs /\ c.policy \in Policies
    BY <1>5, HeadFields, CallFields DEF CallSetPolicy, QueueOps
  <2>2. DataOK'
    BY <1>5, <2>1
       DEF CallSetPolicy, DataOK, PluginTypeOK, JobTypeOK, QueueTypeOK, SchedTypeOK,
           pluginVars, statusVars, queueVars, schedVars
  <2>3. (IF policy[c.job] # c.policy THEN <<OnQueue("update", jobQueue[c.job])>> ELSE <<>>)
        \in Seq(Quiet)
    BY <1>0, <2>1, QuietCalls DEF DataOK, JobTypeOK, QueueOps
  <2> QED
    BY <1>5, <2>2, <2>3, CallOK DEF CallSetPolicy
<1>6. CASE CallSlotResultEnd
  <2>1. c.job \in Jobs
    BY <1>6, HeadFields, CallFields DEF CallSlotResultEnd, QueueOps
  <2>2. DataOK'
    BY <1>6, <2>1
       DEF CallSlotResultEnd, moveVars, DataOK, PluginTypeOK, JobTypeOK, QueueTypeOK, SchedTypeOK,
           statusVars, jobVars, queueVars, schedVars
  <2> QED
    BY <1>0, <1>6, <2>2, CallOK DEF CallSlotResultEnd
<1>7. CASE CallSetSpeed
  <2>1. c.job \in Jobs /\ c.working \in BOOLEAN
    BY <1>7, HeadFields, CallFields DEF CallSetSpeed, QueueOps
  <2>2. DataOK'
    BY <1>7, <2>1
       DEF CallSetSpeed, moveVars, DataOK, PluginTypeOK, JobTypeOK, QueueTypeOK, SchedTypeOK,
           statusVars, jobVars, queueVars, schedVars
  <2> QED
    BY <1>0, <1>7, <2>2, CallOK DEF CallSetSpeed
<1> QED
  BY <1>1, <1>2, <1>3, <1>4, <1>5, <1>6, <1>7

\* The steps that call a transfer's handler or the failure check.
LEMMA TransferHandlerCallsOK ==
    ASSUME IInv, CallHandlerStart \/ CallHandlerStop \/ CallFailureCheck
    PROVE  IInv'
<1> USE DEF IInv
<1> DEFINE c == Head(calls)
<1>1. CASE CallHandlerStart
  <2>1. c.job \in Jobs /\ jobQueue[c.job] \in Queues
    BY <1>1, HeadFields, CallFields DEF CallHandlerStart, QueueOps, DataOK, JobTypeOK
  <2> HIDE DEF c
  <2>2. \A p \in Policies : SetPolicy(c.job, p) \in Quiet
    BY <2>1, QuietCalls
  <2>3. MoveTransfer(c.job, jobQueue[c.job], NoJob) \in Quiet
    BY <2>1, QuietCalls
  <2>4. /\ <<SetPolicy(c.job, "None"), MoveTransfer(c.job, jobQueue[c.job], NoJob)>> \in Seq(Quiet)
        /\ <<SetPolicy(c.job, "Start")>> \in Seq(Quiet)
    BY <2>2, <2>3, ShortSeq DEF Policies
  <2> QED
    BY <1>1, <2>4, DelegateOK DEF CallHandlerStart, c
<1>2. CASE CallHandlerStop
  <2>1. c.job \in Jobs
    BY <1>2, HeadFields, CallFields DEF CallHandlerStop, QueueOps
  <2>2. \A p \in {"None", "Stop"} : <<SetPolicy(c.job, p)>> \in Seq(Quiet)
    BY <2>1, QuietCalls DEF Policies
  <2> QED
    BY <1>2, <2>2, DelegateOK DEF CallHandlerStop
<1>3. CASE CallFailureCheck
  <2>0. c.job \in Jobs
    <3>1. Calling("failureCheck")
      BY <1>3 DEF CallFailureCheck
    <3> QED
      BY <3>1, HeadFields, CallFields DEF QueueOps
  <2> DEFINE j == c.job
             f == NextFailure(failures[j], status[j] = "Running" /\ ~speed[j],
                              status[j] = "Aborted", errorType[j], speed[j])
             nested == IF f.status = failures[j].status THEN <<>>
                       ELSE IF f.status = "Error" THEN <<OnJob("handlerStop", j)>>
                       ELSE IF StopsTheJob(f) THEN <<OnJob("stop", j)>>
                       ELSE <<OnQueue("update", jobQueue[j])>>
  <2>1. /\ j \in Jobs /\ jobQueue[j] \in Queues /\ speed[j] \in BOOLEAN
        /\ failures[j] \in JobFailures
    <3> HIDE DEF c
    <3> QED
      BY <2>0 DEF DataOK, JobTypeOK, PluginTypeOK, SchedTypeOK
  <2>2. Stored(f) \in JobFailures
    BY <2>1, FailureType
  <2>3. failures' = [failures EXCEPT ![j] = Stored(f)] /\ Call(nested)
    BY <1>3 DEF CallFailureCheck
  <2>4. nested \in Seq(Quiet)
    <3> HIDE DEF f, j
    <3>1. <<>> \in Seq(Quiet)
      BY EmptySeq
    <3>2. <<OnJob("handlerStop", j)>> \in Seq(Quiet) /\ <<OnJob("stop", j)>> \in Seq(Quiet)
      BY <2>1, QuietCalls DEF JobOps
    <3>3. <<OnQueue("update", jobQueue[j])>> \in Seq(Quiet)
      BY <2>1, QuietCalls DEF QueueOps
    <3> QED
      BY <3>1, <3>2, <3>3
  <2> HIDE DEF f, nested
  <2>5. UNCHANGED <<pluginVars, statusVars, jobVars, queueVars, suspended, connected, limit>>
    BY <1>3 DEF CallFailureCheck
  <2> HIDE DEF j
  <2>6. DataOK'
    BY <2>1, <2>2, <2>3, <2>5
       DEF DataOK, PluginTypeOK, JobTypeOK, QueueTypeOK, SchedTypeOK,
           pluginVars, statusVars, jobVars, queueVars
  <2> QED
    BY <1>3, <2>3, <2>4, <2>6, CallOK DEF CallFailureCheck
<1> QED
  BY <1>1, <1>2, <1>3

\* The steps that change a queue's status or loop over its jobs.
LEMMA QueueCallsOK ==
    ASSUME IInv, CallQueueStart \/ CallQueueStop \/ CallResetPolicy \/ CallForJobs
    PROVE  IInv'
<1> USE DEF IInv
<1> DEFINE c == Head(calls)
<1>1. ASSUME NEW q \in Queues, NEW s \in QueueStatus, NEW then \in Quiet,
             NEW op, Calling(op), QueueStatusChange(q, s, then)
      PROVE  IInv'
  <2> DEFINE resets == [i \in DOMAIN jobs[q] |->
                           [op |-> "resetPolicy", job |-> jobs[q][i], queue |-> q]]
  <2>1. jobs[q] \in Seq(Jobs)
    BY DEF DataOK, QueueTypeOK
  <2>2. \A i \in 1..Len(jobs[q]) :
            [op |-> "resetPolicy", job |-> jobs[q][i], queue |-> q] \in Quiet
    BY <2>1, QuietCalls, LenProperties
  <2>3. resets \in Seq(Quiet)
    BY <2>1, <2>2, LenProperties
  <2>4. resets \o <<then>> \in Seq(Quiet)
    <3> HIDE DEF resets
    <3> QED
      BY <2>3, ShortSeq, ConcatProperties
  <2>5. DataOK'
    BY <1>1 DEF QueueStatusChange, DataOK, PluginTypeOK, JobTypeOK, QueueTypeOK, SchedTypeOK,
                pluginVars, statusVars, jobVars, schedVars
  <2> QED
    BY <1>1, <2>4, <2>5, CallOK DEF QueueStatusChange
<1>2. ASSUME CallQueueStart PROVE IInv'
  <2>1. Calling("queueStart") /\ QueueStatusChange(c.queue, "Running", OnQueue("update", c.queue))
    BY <1>2 DEF CallQueueStart
  <2>2. c.queue \in Queues
    BY <2>1, HeadFields, CallFields DEF QueueOps
  <2>3. OnQueue("update", c.queue) \in Quiet
    BY <2>2, QuietCalls DEF QueueOps
  <2> QED
    BY <1>1, <2>1, <2>2, <2>3 DEF QueueStatus
<1>3. ASSUME CallQueueStop PROVE IInv'
  <2>1. Calling("queueStop") /\ QueueStatusChange(c.queue, "Stopped", OnQueue("stopJobs", c.queue))
    BY <1>3 DEF CallQueueStop
  <2>2. c.queue \in Queues
    BY <2>1, HeadFields, CallFields DEF QueueOps
  <2>3. OnQueue("stopJobs", c.queue) \in Quiet
    BY <2>2, QuietCalls DEF QueueOps
  <2> QED
    BY <1>1, <2>1, <2>2, <2>3 DEF QueueStatus
<1>4. ASSUME CallResetPolicy PROVE IInv'
  <2>1. Calling("resetPolicy")
    BY <1>4 DEF CallResetPolicy
  <2>2. c.job \in Jobs
    BY <2>1, HeadFields, CallFields DEF QueueOps
  <2>3. SetPolicy(c.job, "None") \in Quiet
    BY <2>2, QuietCalls DEF Policies
  <2>4. <<SetPolicy(c.job, "None")>> \in Seq(Quiet) /\ <<>> \in Seq(Quiet)
    BY <2>3, ShortSeq
  <2> QED
    BY <1>4, <2>1, <2>4, DelegateOK DEF CallResetPolicy
<1>5. ASSUME CallForJobs PROVE IInv'
  <2>1. PICK op \in {"stopJobs", "stopHandlers", "checkJobs"},
             jobOp \in {"stop", "handlerStop", "failureCheck"} :
            Calling(op) /\ Delegate(ForJobs(jobOp, jobs[c.queue]))
    BY <1>5 DEF CallForJobs
  <2>2. c.queue \in Queues
    BY <2>1, HeadFields, CallFields DEF QueueOps
  <2>3. jobs[c.queue] \in Seq(Jobs)
    BY <2>2 DEF DataOK, QueueTypeOK
  <2>4. ForJobs(jobOp, jobs[c.queue]) \in Seq(Quiet)
    BY <2>3, ForAllCalls DEF JobOps
  <2> QED
    BY <2>1, <2>4, DelegateOK
<1> QED
  BY <1>2, <1>3, <1>4, <1>5

\* Replacing a queue's list by another list of jobs.
LEMMA RelistType ==
    ASSUME IInv, NEW q \in Queues, NEW list \in Seq(Jobs), Relist(q, list)
    PROVE  DataOK'
BY DEF IInv, Relist, DataOK, PluginTypeOK, JobTypeOK, QueueTypeOK, SchedTypeOK,
       pluginVars, statusVars, jobVars, schedVars

\* The steps that change a queue's list.
LEMMA ListCallsOK ==
    ASSUME IInv, CallAppend \/ CallRemove \/ CallInsert \/ CallMoveTransfer
    PROVE  IInv'
<1> USE DEF IInv
<1> DEFINE c == Head(calls)
<1>1. ASSUME NEW q \in Queues
      PROVE  jobs[q] \in Seq(Jobs) /\ <<OnQueue("update", q)>> \in Seq(Quiet)
  BY QuietCalls, ShortSeq DEF DataOK, QueueTypeOK, QueueOps
<1>2. ASSUME CallAppend PROVE IInv'
  <2>1. Calling("append")
    BY <1>2 DEF CallAppend
  <2>2. c.job \in Jobs /\ c.queue \in Queues
    BY <2>1, HeadFields, CallFields DEF QueueOps
  <2>3. Append(jobs[c.queue], c.job) \in Seq(Jobs)
    BY <1>1, <2>2
  <2> QED
    BY <1>1, <1>2, <2>1, <2>2, <2>3, RelistType, CallOK DEF CallAppend
<1>3. ASSUME CallRemove PROVE IInv'
  <2>1. Calling("remove")
    BY <1>3 DEF CallRemove
  <2>2. c.job \in Jobs
    BY <2>1, HeadFields, CallFields DEF QueueOps
  <2>3. jobQueue[c.job] \in Queues
    BY <2>2 DEF DataOK, JobTypeOK
  <2>4. Without(jobs[jobQueue[c.job]], c.job) \in Seq(Jobs)
    BY <1>1, <2>3, WithoutType
  <2> QED
    BY <1>1, <1>3, <2>1, <2>3, <2>4, RelistType, CallOK DEF CallRemove
<1>4. ASSUME CallInsert PROVE IInv'
  <2>1. Calling("insert")
    BY <1>4 DEF CallInsert
  <2>2. c.job \in Jobs /\ c.queue \in Queues
    BY <2>1, HeadFields, CallFields DEF QueueOps
  <2>3. InsertAfter(jobs[c.queue], c.job, c.after) \in Seq(Jobs)
    BY <1>1, <2>2, InsertAfterType
  <2> QED
    BY <1>1, <1>4, <2>1, <2>2, <2>3, RelistType, CallOK DEF CallInsert
<1>5. ASSUME CallMoveTransfer PROVE IInv'
  <2> DEFINE j == c.job  q == c.queue  old == jobQueue[j]
  <2>1. Calling("moveTransfer")
    BY <1>5 DEF CallMoveTransfer
  <2>2. j \in Jobs /\ q \in Queues /\ c.after \in Jobs \cup {NoJob}
    BY <2>1, HeadFields, CallFields DEF QueueOps
  <2>3. old \in Queues
    BY <2>2 DEF DataOK, JobTypeOK
  <2>4. CASE Delegate(<<>>)
    BY <2>1, <2>4, ShortSeq, DelegateOK
  <2>5. CASE /\ Relist(q, InsertAfter(Without(jobs[q], j), j, c.after))
             /\ Call(<<OnQueue("update", q)>>)
    <3>1. InsertAfter(Without(jobs[q], j), j, c.after) \in Seq(Jobs)
      BY <1>1, <2>2, WithoutType, InsertAfterType
    <3> QED
      BY <1>1, <2>1, <2>2, <2>5, <3>1, RelistType, CallOK
  <2>6. CASE /\ Relist(old, Without(jobs[old], j))
             /\ Call(<<OnQueue("update", old),
                       [op |-> "insert", job |-> j, queue |-> q, after |-> c.after],
                       [op |-> "setJobQueue", job |-> j, queue |-> q]>>)
    <3>1. Without(jobs[old], j) \in Seq(Jobs)
      BY <1>1, <2>3, WithoutType
    <3>2. /\ OnQueue("update", old) \in Quiet
          /\ [op |-> "insert", job |-> j, queue |-> q, after |-> c.after] \in Quiet
          /\ [op |-> "setJobQueue", job |-> j, queue |-> q] \in Quiet
      BY <2>2, <2>3, QuietCalls DEF QueueOps
    <3>3. <<OnQueue("update", old),
            [op |-> "insert", job |-> j, queue |-> q, after |-> c.after],
            [op |-> "setJobQueue", job |-> j, queue |-> q]>> \in Seq(Quiet)
      BY <3>2, ShortSeq
    <3> QED
      BY <2>1, <2>3, <2>6, <3>1, <3>3, RelistType, CallOK
  <2> QED
    BY <1>5, <2>4, <2>5, <2>6 DEF CallMoveTransfer
<1> QED
  BY <1>2, <1>3, <1>4, <1>5

\* Deleting transfers keeps the types.
LEMMA DestroyType ==
    ASSUME IInv, NEW gone, Destroy(gone), QueueTypeOK'
    PROVE  DataOK'
<1>1. PluginTypeOK'
  <2>1. statJobs' \in [Jobs -> Nat]
    BY DEF IInv, DataOK, PluginTypeOK, Destroy
  <2> QED
    BY <2>1 DEF IInv, DataOK, PluginTypeOK, Destroy
<1>2. JobTypeOK' /\ SchedTypeOK'
  BY DEF IInv, DataOK, JobTypeOK, SchedTypeOK, Destroy, Statuses, Policies, ErrorTypes, schedVars
<1> QED
  BY <1>1, <1>2 DEF DataOK

\* The other steps: setting a job's queue, deletions, suspension, an update.
LEMMA OtherCallsOK ==
    ASSUME IInv, CallSetJobQueue \/ CallDestroy \/ CallDelQueue \/ CallSetSuspended \/ CallUpdate
    PROVE  IInv'
<1> USE DEF IInv
<1> DEFINE c == Head(calls)
<1>0. <<>> \in Seq(Quiet)
  BY ShortSeq
<1>1. ASSUME CallSetJobQueue PROVE IInv'
  <2>1. Calling("setJobQueue")
    BY <1>1 DEF CallSetJobQueue
  <2>2. c.job \in Jobs /\ c.queue \in Queues
    BY <2>1, HeadFields, CallFields DEF QueueOps
  <2>3. DataOK'
    BY <1>1, <2>2
       DEF CallSetJobQueue, DataOK, PluginTypeOK, JobTypeOK, QueueTypeOK, SchedTypeOK,
           pluginVars, statusVars, queueVars, schedVars
  <2> QED
    BY <1>0, <1>1, <2>1, <2>3, CallOK DEF CallSetJobQueue
<1>2. ASSUME CallDestroy PROVE IInv'
  <2>1. QueueTypeOK'
    BY <1>2 DEF CallDestroy, DataOK, QueueTypeOK, queueVars
  <2>2. DataOK'
    BY <1>2, <2>1, DestroyType DEF CallDestroy
  <2> QED
    BY <1>0, <1>2, <2>2, CallOK DEF CallDestroy
<1>3. ASSUME CallDelQueue PROVE IInv'
  <2>1. QueueTypeOK'
    BY <1>3, WithoutType DEF CallDelQueue, DataOK, QueueTypeOK
  <2>2. DataOK'
    BY <1>3, <2>1, DestroyType DEF CallDelQueue
  <2> QED
    BY <1>0, <1>3, <2>2, CallOK DEF CallDelQueue
<1>4. ASSUME CallSetSuspended PROVE IInv'
  <2>1. Calling("setSuspended")
    BY <1>4 DEF CallSetSuspended
  <2>2. c.suspended \in BOOLEAN
    BY <2>1, HeadFields, CallFields
  <2>3. DataOK'
    BY <1>4, <2>2
       DEF CallSetSuspended, DataOK, PluginTypeOK, JobTypeOK, QueueTypeOK, SchedTypeOK,
           pluginVars, statusVars, jobVars, queueVars
  <2>4. ForQueues("update") \in Seq(Quiet)
    BY ForAllCalls DEF DataOK, QueueTypeOK, QueueOps
  <2> QED
    BY <1>0, <1>4, <2>1, <2>3, <2>4, CallOK DEF CallSetSuspended
<1>5. ASSUME CallUpdate PROVE IInv'
  <2>1. Calling("update") /\ DataOK'
    BY <1>5, SameData DEF CallUpdate
  <2>2. CASE Call(<<>>)
    BY <1>0, <2>1, <2>2, CallOK
  <2>3. CASE BeginLoop(c.queue) /\ ShouldUpdate
    <3>1. c.queue \in Queues
      BY <2>1, HeadFields, CallFields DEF QueueOps
    <3>2. Tail(calls) \in Seq(Calls) /\ calls # <<>> /\ updating = NoQueue
      BY <2>1, HeadTailProperties DEF StateOK, Calling
    <3>3. jobs' = jobs /\ ShouldUpdate'
      BY <1>5, <2>3 DEF CallUpdate, queueVars, schedVars, ShouldUpdate
    <3>4. Len(jobs[c.queue]) \in Nat
      BY <3>1, LenProperties DEF DataOK, QueueTypeOK
    <3>5. LoopTypeOK'
      BY <2>3, <3>1, <3>2, <3>3, <3>4, SchedulerAssumption DEF BeginLoop, StateOK, LoopTypeOK
    <3>6. StackOK'
      BY <2>3, <3>2, HeadTailProperties DEF BeginLoop, StateOK, StackOK
    <3>7. HandlerOK' /\ UpdateOK'
      BY <2>3, <3>1, <3>2, <3>3, SchedulerAssumption DEF BeginLoop, StateOK, HandlerOK, UpdateOK
    <3> QED
      BY <2>1, <2>3, <3>2, <3>5, <3>6, <3>7 DEF BeginLoop, StateOK
  <2> QED
    BY <1>5, <2>2, <2>3 DEF CallUpdate
<1> QED
  BY <1>1, <1>2, <1>3, <1>4, <1>5

\* Every call of a handler.
LEMMA HandlerCallOK == IInv /\ HandlerCall => IInv'
BY JobCallsOK, TransferHandlerCallsOK, QueueCallsOK, ListCallsOK, OtherCallsOK DEF HandlerCall

-----------------------------------------------------------------------------
(* The events.                                                             *)

\* An event keeps the invariant if its handler's data keeps the types and its
\* calls are quiet, or those of a plug-in.
LEMMA EventOK ==
    ASSUME IInv, DataOK', NEW event, NEW todo \in Seq(Calls),
           event \notin PluginEvents => todo \in Seq(Quiet), Handle(event, todo)
    PROVE  IInv'
BY HandleStep DEF IInv, UpdateOK

\* So does an event whose handler only makes quiet calls.
LEMMA PlainEventOK ==
    ASSUME IInv, NEW event, NEW todo \in Seq(Quiet), Event(event, todo)
    PROVE  IInv'
BY EventOK, SameData, QuietSeq DEF IInv, Event

\* What the user does to the transfers he selected is quiet.
LEMMA SelectionsType ==
    ASSUME IInv, NEW op \in JobOps \ {"start"}, NEW queueOp \in QueueOps,
           NEW s \in Selections(op, queueOp), NEW a \in BOOLEAN, NEW b \in BOOLEAN
    PROVE  <<SetSuspended(a)>> \o s \o <<SetSuspended(b)>> \in Seq(Quiet)
<1>1. s \in Seq(Quiet)
  <2>1. CASE \E j \in alive : s = <<OnJob(op, j)>>
    BY <2>1, QuietCalls, ShortSeq DEF IInv, DataOK, JobTypeOK
  <2>2. CASE \E q \in ToSet(queues) : s = ForJobs(op, jobs[q]) \/ s = <<OnQueue(queueOp, q)>>
    <3>1. PICK q \in ToSet(queues) : s = ForJobs(op, jobs[q]) \/ s = <<OnQueue(queueOp, q)>>
      BY <2>2
    <3>2. q \in Queues /\ jobs[q] \in Seq(Jobs)
      BY LenProperties DEF IInv, DataOK, QueueTypeOK, ToSet
    <3> QED
      BY <3>1, <3>2, ForAllCalls, QuietCalls, ShortSeq
  <2> QED
    BY <2>1, <2>2 DEF Selections
<1>2. <<SetSuspended(a)>> \in Seq(Quiet) /\ <<SetSuspended(b)>> \in Seq(Quiet)
  BY QuietCalls, ShortSeq
<1> QED
  BY <1>1, <1>2, ConcatProperties

\* Starting and stopping, of one transfer, of several, of groups and of all.
LEMMA CommandsOK ==
    ASSUME IInv,
           \/ \E j \in Jobs : UserStart(j) \/ UserStop(j) \/ Delete(j)
           \/ \E s \in Selections("handlerStart", "queueStart") : StartSelected(s)
           \/ \E s \in Selections("handlerStop", "queueStop") : StopSelected(s)
           \/ \E q \in Queues : GroupStart(q) \/ GroupStop(q)
           \/ StartAll \/ StopAll
           \/ \E b \in BOOLEAN : SetOfflineMode(b)
    PROVE  IInv'
<1>1. ASSUME NEW j \in Jobs, UserStart(j) \/ UserStop(j) \/ Delete(j) PROVE IInv'
  <2>1. \A op \in {"handlerStart", "handlerStop", "remove", "destroy"} : OnJob(op, j) \in Quiet
    BY QuietCalls DEF JobOps
  <2>2. /\ <<OnJob("handlerStart", j)>> \in Seq(Quiet) /\ <<OnJob("handlerStop", j)>> \in Seq(Quiet)
        /\ <<OnJob("remove", j), OnJob("destroy", j)>> \in Seq(Quiet)
    BY <2>1, ShortSeq
  <2> QED
    BY <1>1, <2>2, PlainEventOK DEF UserStart, UserStop, Delete
<1>2. ASSUME NEW s \in Selections("handlerStart", "queueStart"), StartSelected(s) PROVE IInv'
  BY <1>2, SelectionsType, PlainEventOK DEF StartSelected, JobOps, QueueOps
<1>3. ASSUME NEW s \in Selections("handlerStop", "queueStop"), StopSelected(s) PROVE IInv'
  BY <1>3, SelectionsType, PlainEventOK DEF StopSelected, JobOps, QueueOps
<1>4. ASSUME NEW q \in Queues, GroupStart(q) \/ GroupStop(q) PROVE IInv'
  <2>1. <<OnQueue("queueStart", q)>> \in Seq(Quiet) /\ <<OnQueue("queueStop", q)>> \in Seq(Quiet)
    BY QuietCalls, ShortSeq DEF QueueOps
  <2> QED
    BY <1>4, <2>1, PlainEventOK DEF GroupStart, GroupStop
<1>5. /\ \A b \in BOOLEAN : SchedulerRunning(b) \in Seq(Quiet)
      /\ ForQueues("stopHandlers") \in Seq(Quiet)
  BY ForAllCalls, ConcatProperties, ShortSeq
     DEF SchedulerRunning, IInv, DataOK, QueueTypeOK, QueueOps
<1>6. ASSUME StartAll \/ StopAll PROVE IInv'
  BY <1>5, <1>6, ConcatProperties, PlainEventOK DEF StartAll, StopAll
<1>7. ASSUME NEW b \in BOOLEAN, SetOfflineMode(b) PROVE IInv'
  BY <1>5, <1>7, PlainEventOK DEF SetOfflineMode
<1> QED
  BY <1>1, <1>2, <1>3, <1>4, <1>6, <1>7

\* Adding, moving and grouping transfers, and the settings.
LEMMA ListEventsOK ==
    ASSUME IInv,
           \/ \E q \in Queues : AddGroup(q) \/ DelGroup(q)
           \/ \E j \in Jobs, q \in Queues, s \in Statuses, p \in Policies, b \in BOOLEAN :
                  Add(j, q, s, p, b)
           \/ \E j \in Jobs, q \in Queues, after \in Jobs \cup {NoJob} : Move(j, q, after)
           \/ \E n \in ConnectionLimits : SettingsChanged(n)
    PROVE  IInv'
<1> USE DEF IInv
<1>1. ASSUME NEW q \in Queues, AddGroup(q) PROVE IInv'
  <2>1. Append(queues, q) \in Seq(Queues)
    BY DEF DataOK, QueueTypeOK
  <2>2. DataOK'
    BY <1>1, <2>1
       DEF AddGroup, DataOK, PluginTypeOK, JobTypeOK, QueueTypeOK, SchedTypeOK, QueueStatus,
           pluginVars, statusVars, jobVars, schedVars
  <2>3. <<>> \in Seq(Quiet) /\ Handle("addGroup", <<>>)
    BY <1>1, ShortSeq DEF AddGroup
  <2> QED
    BY <2>2, <2>3, EventOK, QuietSeq
<1>2. ASSUME NEW q \in Queues, DelGroup(q) PROVE IInv'
  <2>1. DataOK'
    BY <1>2, ShortSeq
       DEF DelGroup, DataOK, PluginTypeOK, JobTypeOK, QueueTypeOK, SchedTypeOK,
           pluginVars, statusVars, jobVars, schedVars
  <2>2. <<OnQueue("update", q), OnQueue("delQueue", q)>> \in Seq(Quiet)
    BY QuietCalls, ShortSeq DEF QueueOps
  <2> QED
    BY <1>2, <2>1, <2>2, EventOK, QuietSeq DEF DelGroup
<1>3. ASSUME NEW j \in Jobs, NEW q \in Queues, NEW s \in Statuses, NEW p \in Policies,
             NEW b \in BOOLEAN, Add(j, q, s, p, b)
      PROVE  IInv'
  <2>1. DataOK'
    BY <1>3
       DEF Add, moveVars, DataOK, PluginTypeOK, JobTypeOK, QueueTypeOK, SchedTypeOK,
           statusVars, queueVars, schedVars
  <2>2. /\ SetStatusTo(j, s) \in Quiet /\ SetPolicy(j, p) \in Quiet
        /\ [op |-> "append", job |-> j, queue |-> q] \in Quiet
        /\ OnJob("handlerStart", j) \in Quiet
    BY <1>3, QuietCalls DEF Add, JobOps, Statuses
  <2> DEFINE add == <<SetStatusTo(j, s), SetPolicy(j, p),
                      [op |-> "append", job |-> j, queue |-> q]>>
             start == IF b THEN <<OnJob("handlerStart", j)>> ELSE <<>>
  <2>3. add \in Seq(Quiet) /\ start \in Seq(Quiet)
    BY <2>2, ShortSeq
  <2>4. Handle("add", add \o start)
    BY <1>3 DEF Add
  <2> HIDE DEF add, start
  <2>5. add \o start \in Seq(Quiet)
    BY <2>3, ConcatProperties
  <2> QED
    BY <2>1, <2>4, <2>5, EventOK, QuietSeq
<1>4. ASSUME NEW j \in Jobs, NEW q \in Queues, NEW after \in Jobs \cup {NoJob}, Move(j, q, after)
      PROVE  IInv'
  <2>1. <<MoveTransfer(j, q, after)>> \in Seq(Quiet)
    BY QuietCalls, ShortSeq
  <2> QED
    BY <1>4, <2>1, PlainEventOK DEF Move
<1>5. ASSUME NEW n \in ConnectionLimits, SettingsChanged(n) PROVE IInv'
  <2>1. DataOK'
    BY <1>5
       DEF SettingsChanged, DataOK, PluginTypeOK, JobTypeOK, QueueTypeOK, SchedTypeOK,
           pluginVars, statusVars, jobVars, queueVars
  <2>2. ForQueues("update") \in Seq(Quiet)
    BY ForAllCalls DEF DataOK, QueueTypeOK, QueueOps
  <2> QED
    BY <1>5, <2>1, <2>2, EventOK, QuietSeq DEF SettingsChanged
<1> QED
  BY <1>1, <1>2, <1>3, <1>4, <1>5

\* The network and the timer.
LEMMA SystemEventsOK ==
    ASSUME IInv, TimerEvent \/ \E b \in BOOLEAN : Network(b)
    PROVE  IInv'
<1> USE DEF IInv
<1>1. \A op \in QueueOps : ForQueues(op) \in Seq(Quiet)
  BY ForAllCalls DEF DataOK, QueueTypeOK
<1>2. ASSUME TimerEvent PROVE IInv'
  BY <1>1, <1>2, PlainEventOK DEF TimerEvent, QueueOps
<1>3. ASSUME NEW b \in BOOLEAN, Network(b) PROVE IInv'
  <2>1. DataOK'
    BY <1>3
       DEF Network, DataOK, PluginTypeOK, JobTypeOK, QueueTypeOK, SchedTypeOK,
           pluginVars, jobVars, queueVars
  <2> QED
    BY <1>1, <1>3, <2>1, EventOK, QuietSeq DEF Network, QueueOps
<1> QED
  BY <1>2, <1>3

\* The events of the plug-ins' workers: only those of PluginEvents call start() or
\* make a job Running.
LEMMA WorkerEventsOK ==
    ASSUME IInv, NEW j \in Jobs, WorkerEvent(j) \/ NewDestination(j) \/ Repair(j)
    PROVE  IInv'
<1> USE DEF IInv
<1>1. /\ \A s \in Statuses \ {"Running"} : SetStatusTo(j, s) \in Quiet
      /\ OnJob("slotResultEnd", j) \in Quiet /\ OnJob("stop", j) \in Quiet
  BY QuietCalls DEF JobOps
<1>2. /\ \A s \in Statuses : SetStatusTo(j, s) \in Calls
      /\ OnJob("start", j) \in Calls
      /\ \A b \in BOOLEAN : SetSpeed(j, b) \in Calls
  BY StartCalls, QuietCalls, QuietSeq
<1>3. ASSUME NEW event \in PluginEvents, NEW todo \in Seq(Calls), Handle(event, todo), DataOK'
      PROVE  IInv'
  BY <1>3, EventOK
<1>4. ASSUME NEW event, NEW todo \in Seq(Quiet), Handle(event, todo), DataOK'
      PROVE  IInv'
  BY <1>4, EventOK, QuietSeq
<1>5. ASSUME UNCHANGED <<statusVars, jobVars, queueVars, schedVars>>, PluginTypeOK'
      PROVE  DataOK'
  BY <1>5 DEF DataOK, JobTypeOK, QueueTypeOK, SchedTypeOK, statusVars, jobVars, queueVars, schedVars
<1>6. ASSUME Data(j) PROVE IInv'
  <2>1. <<SetStatusTo(j, "Running")>> \in Seq(Calls)
    BY <1>2, ShortSeq DEF Statuses
  <2> QED
    BY <1>3, <1>6, <2>1, SameData DEF Data, Event, PluginEvents
<1>7. ASSUME NEW b \in BOOLEAN, Speed(j, b) PROVE IInv'
  <2>1. /\ \A s \in Statuses : <<SetStatusTo(j, s), SetSpeed(j, b)>> \in Seq(Calls)
        /\ \A a \in BOOLEAN : <<SetSpeed(j, a)>> \in Seq(Calls)
    BY <1>2, ShortSeq
  <2>2. PICK todo \in Seq(Calls) : Event("speed", todo)
    <3> DEFINE now == IF status[j] # "Running" /\ moving[j] THEN "Moving" ELSE "Running"
               works == b /\ status[j] = "Running"
    <3>1. now \in Statuses /\ works \in BOOLEAN
      BY DEF Statuses
    <3>2. Event("speed", <<SetStatusTo(j, now), SetSpeed(j, b)>>)
          \/ Event("speed", <<SetSpeed(j, works)>>)
      BY <1>7 DEF Speed
    <3> HIDE DEF now, works
    <3> QED
      BY <2>1, <3>1, <3>2
  <2> QED
    BY <1>3, <2>2, SameData DEF Event, PluginEvents
<1>8. ASSUME Result(j) \/ StatResult(j) PROVE IInv'
  <2>1. PluginTypeOK'
    <3>1. CASE Result(j)
      BY <3>1 DEF Result, moveVars, DataOK, PluginTypeOK
    <3>2. CASE StatResult(j)
      <4>1. statJobs' \in [Jobs -> Nat]
        BY <3>2 DEF StatResult, DataOK, PluginTypeOK
      <4> QED
        BY <3>2, <4>1 DEF StatResult, moveVars, DataOK, PluginTypeOK
    <3> QED
      BY <1>8, <3>1, <3>2
  <2>2. DataOK'
    BY <1>5, <1>8, <2>1 DEF Result, StatResult
  <2>3. /\ <<SetStatusTo(j, "Finished"), OnJob("slotResultEnd", j)>> \in Seq(Quiet)
        /\ <<SetStatusTo(j, "Finished")>> \in Seq(Quiet)
    BY <1>1, ShortSeq DEF Statuses
  <2> QED
    BY <1>4, <1>8, <2>2, <2>3 DEF Result, StatResult
<1>9. ASSUME Error(j) \/ BrokenUrl(j) PROVE IInv'
  <2>1. [op |-> "setErrorType", job |-> j, type |-> "NotSolveable"] \in Quiet
    BY QuietCalls DEF ErrorTypes
  <2>2. /\ <<SetStatusTo(j, "Aborted"), OnJob("slotResultEnd", j)>> \in Seq(Quiet)
        /\ <<SetStatusTo(j, "Aborted"),
             [op |-> "setErrorType", job |-> j, type |-> "NotSolveable"]>> \in Seq(Quiet)
    BY <1>1, <2>1, ShortSeq DEF Statuses
  <2> QED
    BY <1>9, <2>2, PlainEventOK DEF Error, BrokenUrl
<1>10. ASSUME NewDestination(j) \/ ConnectionsErrors(j) PROVE IInv'
  <2>1. PluginTypeOK'
    <3>1. CASE NewDestination(j)
      <4>1. /\ moves' \in [Jobs -> Nat] /\ moving' \in [Jobs -> BOOLEAN]
            /\ overlapped' \in [Jobs -> BOOLEAN]
        <5> DEFINE again == overlapped[j] \/ moves[j] > 0
        <5>1. again \in BOOLEAN
          BY DEF DataOK, PluginTypeOK
        <5>2. overlapped' = [overlapped EXCEPT ![j] = again]
          BY <3>1 DEF NewDestination
        <5> HIDE DEF again
        <5>3. overlapped' \in [Jobs -> BOOLEAN]
          BY <5>1, <5>2 DEF DataOK, PluginTypeOK
        <5> QED
          BY <3>1, <5>3 DEF NewDestination, DataOK, PluginTypeOK
      <4> QED
        BY <3>1, <4>1 DEF NewDestination, DataOK, PluginTypeOK
    <3>2. CASE ConnectionsErrors(j)
      BY <3>2 DEF ConnectionsErrors, moveVars, DataOK, PluginTypeOK
    <3> QED
      BY <1>10, <3>1, <3>2
  <2>2. DataOK'
    BY <1>5, <1>10, <2>1 DEF NewDestination, ConnectionsErrors
  <2>3. /\ <<OnJob("stop", j), SetStatusTo(j, "Moving")>> \in Seq(Quiet)
        /\ <<OnJob("stop", j)>> \in Seq(Quiet)
    BY <1>1, ShortSeq DEF Statuses
  <2> QED
    BY <1>4, <1>10, <2>2, <2>3 DEF NewDestination, ConnectionsErrors
<1>11. ASSUME NewDestResult(j) \/ Repair(j) PROVE IInv'
  <2>1. PluginTypeOK'
    <3>1. CASE NewDestResult(j)
      <4>1. /\ moves' \in [Jobs -> Nat] /\ moving' \in [Jobs -> BOOLEAN]
            /\ overlapped' \in [Jobs -> BOOLEAN]
        <5> DEFINE left == overlapped[j] /\ moves[j] > 1
        <5>1. left \in BOOLEAN
          BY DEF DataOK, PluginTypeOK
        <5>2. overlapped' = [overlapped EXCEPT ![j] = left]
          BY <3>1 DEF NewDestResult
        <5> HIDE DEF left
        <5>3. overlapped' \in [Jobs -> BOOLEAN]
          BY <5>1, <5>2 DEF DataOK, PluginTypeOK
        <5> QED
          BY <3>1, <5>3 DEF NewDestResult, DataOK, PluginTypeOK
      <4> QED
        BY <3>1, <4>1 DEF NewDestResult, DataOK, PluginTypeOK
    <3>2. CASE Repair(j)
      BY <3>2 DEF Repair, moveVars, DataOK, PluginTypeOK
    <3> QED
      BY <1>11, <3>1, <3>2
  <2>2. DataOK'
    BY <1>5, <1>11, <2>1 DEF NewDestResult, Repair
  <2>3. <<OnJob("start", j)>> \in Seq(Calls)
    BY <1>2, ShortSeq
  <2> QED
    BY <1>3, <1>11, <2>2, <2>3 DEF NewDestResult, Repair, PluginEvents
<1>12. ASSUME NEW b \in BOOLEAN, MmsResult(j, b) PROVE IInv'
  <2> DEFINE slower == speed[j] /\ ~b
             finish == IF b THEN <<SetStatusTo(j, "Finished")>> ELSE <<>>
             restart == IF retry[j] THEN <<OnJob("start", j)>> ELSE <<>>
  <2>1. speed' = [speed EXCEPT ![j] = slower] /\ slower \in BOOLEAN
    BY <1>12 DEF MmsResult
  <2>2. speed' \in [Jobs -> BOOLEAN]
    <3> HIDE DEF slower
    <3> QED
      BY <2>1 DEF DataOK, PluginTypeOK
  <2>3. PluginTypeOK'
    BY <1>12, <2>2 DEF MmsResult, moveVars, DataOK, PluginTypeOK
  <2>4. DataOK'
    BY <1>5, <1>12, <2>3 DEF MmsResult
  <2>5. finish \in Seq(Calls) /\ restart \in Seq(Calls)
    BY <1>2, ShortSeq DEF Statuses
  <2>6. Handle("mmsResult", finish \o restart)
    BY <1>12 DEF MmsResult
  <2> HIDE DEF finish, restart
  <2>7. finish \o restart \in Seq(Calls)
    BY <2>5, ConcatProperties
  <2> QED
    BY <1>3, <2>4, <2>6, <2>7 DEF PluginEvents
<1> QED
  BY <1>6, <1>7, <1>8, <1>9, <1>10, <1>11, <1>12 DEF WorkerEvent

\* Every event of the user.
LEMMA UserEventOK == IInv /\ UserEvent => IInv'
<1> SUFFICES ASSUME IInv, UserEvent PROVE IInv'
  OBVIOUS
<1>1. CASE \E j \in Jobs :
               UserStart(j) \/ UserStop(j) \/ Delete(j) \/ NewDestination(j) \/ Repair(j)
  BY <1>1, CommandsOK, WorkerEventsOK
<1>2. CASE \/ \E s \in Selections("handlerStart", "queueStart") : StartSelected(s)
           \/ \E s \in Selections("handlerStop", "queueStop") : StopSelected(s)
           \/ StartAll \/ StopAll
           \/ \E b \in BOOLEAN : SetOfflineMode(b)
  BY <1>2, CommandsOK
<1>3. CASE \E q \in Queues : GroupStart(q) \/ GroupStop(q) \/ AddGroup(q) \/ DelGroup(q)
  BY <1>3, CommandsOK, ListEventsOK
<1>4. CASE \/ \E j \in Jobs, q \in Queues, s \in Statuses, p \in Policies, b \in BOOLEAN :
                  Add(j, q, s, p, b)
           \/ \E j \in Jobs, q \in Queues, after \in Jobs \cup {NoJob} : Move(j, q, after)
           \/ \E n \in ConnectionLimits : SettingsChanged(n)
  BY <1>4, ListEventsOK
<1> QED
  BY <1>1, <1>2, <1>3, <1>4 DEF UserEvent

-----------------------------------------------------------------------------
(* The theorems.                                                           *)

\* Every step of the specification keeps the invariant.
LEMMA NextOK == IInv /\ [Next]_vars => IInv'
<1> SUFFICES ASSUME IInv, [Next]_vars PROVE IInv'
  OBVIOUS
<1>1. CASE UNCHANGED vars
  <2>1. DataOK'
    BY <1>1, SameData DEF IInv, vars
  <2>2. StateOK' /\ UpdateOK'
    BY <1>1
       DEF vars, loopVars, queueVars, schedVars, IInv, StateOK, LoopTypeOK, HandlerOK, StackOK,
           UpdateOK, ShouldUpdate
  <2> QED
    BY <2>1, <2>2 DEF IInv
<1>2. CASE Next
  BY <1>2, UpdateLoopOK, HandlerCallOK, UserEventOK, WorkerEventsOK, SystemEventsOK DEF Next
<1> QED
  BY <1>1, <1>2

\* The invariant holds in every reachable state.
THEOREM Invariance == Spec => []IInv
<1> QED
  BY InitOK, NextOK, PTL DEF Spec

\* Every variable keeps its type, and updateQueue's loop stays within its queue,
\* its counters counting no job twice (scheduler.cpp, updateQueue).
THEOREM TypeCorrect == Spec => []TypeOK
<1>1. IInv => TypeOK
  BY DEF IInv, DataOK, StateOK, TypeOK
<1> QED
  BY <1>1, Invariance, PTL

\* While updates are off, no loop runs; then only start() and a change of status
\* to Running make a job run, and only a plug-in's handler has those on its stack.
LEMMA OnlyPluginsStart ==
    ASSUME IInv, ~ShouldUpdate, [Next]_vars, NEW j \in Jobs,
           status[j] # "Running", status'[j] = "Running"
    PROVE  handler \in PluginEvents
<1> USE DEF IInv
<1>1. updating = NoQueue
  BY DEF UpdateOK
<1>2. CASE UNCHANGED status
  BY <1>2
<1>3. CASE CallStart \/ CallSetStatus
  <2>1. PICK op \in {"start", "setStatus"} : Calling(op)
    BY <1>3 DEF CallStart, CallSetStatus
  <2>2. Head(calls) \in Calls /\ Head(calls).op = op
    BY <2>1, HeadFields
  <2>3. Head(calls) \notin Quiet
    <3>1. CASE CallStart
      BY <3>1 DEF CallStart, Calling, Quiet
    <3>2. CASE CallSetStatus
      <4>1. Head(calls).op = "setStatus" /\ AssignStatus(Head(calls).job, Head(calls).status)
        BY <3>2 DEF CallSetStatus, Calling
      <4>2. Head(calls).job \in Jobs
        BY <2>2, <4>1, CallFields DEF QueueOps
      <4>3. Head(calls).status = "Running"
        BY <4>1, <4>2 DEF AssignStatus, DataOK, JobTypeOK
      <4> QED
        BY <4>1, <4>3 DEF Quiet
    <3> QED
      BY <1>3, <3>1, <3>2
  <2>4. calls \notin Seq(Quiet)
    BY <2>1, <2>3, HeadTailProperties DEF Calling
  <2> QED
    BY <2>4 DEF StateOK, StackOK
<1>4. CASE CallStop
  <2>1. Head(calls).job \in Jobs
    <3>1. Calling("stop")
      BY <1>4 DEF CallStop
    <3> QED
      BY <3>1, HeadFields, CallFields DEF QueueOps
  <2> QED
    BY <1>4, <2>1 DEF CallStop, PluginStop, AssignStatus, DataOK, JobTypeOK, statusVars
<1>5. CASE CallDestroy \/ CallDelQueue
  BY <1>5 DEF CallDestroy, CallDelQueue, Destroy
<1>6. CASE HandlerCall /\ ~(CallStart \/ CallSetStatus \/ CallStop \/ CallDestroy \/ CallDelQueue)
  <2>1. UNCHANGED status
    BY <1>6
       DEF HandlerCall, CallUpdate, CallSetErrorType, CallSetPolicy, CallSlotResultEnd,
           CallSetSpeed, CallHandlerStart, CallHandlerStop, CallFailureCheck, CallQueueStart,
           CallQueueStop, CallResetPolicy, CallForJobs, CallAppend, CallRemove, CallInsert,
           CallMoveTransfer, CallSetJobQueue, CallSetSuspended, Delegate, Relist,
           QueueStatusChange, statusVars
  <2> QED
    BY <1>2, <2>1
<1>7. CASE UpdateLoop
  BY <1>1, <1>7
     DEF UpdateLoop, KeepRunning, StopUnwanted, StartWanted, LeaveStopped, StopOverLimit,
         UpdateDone, Looping
<1>8. CASE UserEvent \/ \E k \in Jobs : WorkerEvent(k)
  BY <1>2, <1>8, ZenonT(30)
     DEF UserEvent, UserStart, UserStop, Delete, NewDestination, Repair, StartSelected,
         StopSelected, GroupStart, GroupStop, AddGroup, DelGroup, StartAll, StopAll,
         SetOfflineMode, Add, Move, SettingsChanged, Event, WorkerEvent, Data, Result, Error,
         StatResult, NewDestResult, BrokenUrl, ConnectionsErrors, Speed, MmsResult, statusVars
<1>9. CASE TimerEvent \/ \E b \in BOOLEAN : Network(b)
  BY <1>2, <1>9 DEF TimerEvent, Network, Event, statusVars
<1>10. CASE UNCHANGED vars
  BY <1>2, <1>10 DEF vars, statusVars
<1> QED
  BY <1>3, <1>4, <1>5, <1>6, <1>7, <1>8, <1>9, <1>10 DEF Next

\* Suspended or without connection, no step of the scheduler makes a transfer
\* Running: only a plug-in's own event does (scheduler.h, shouldUpdate).
THEOREM StartsNeedUpdate == Spec => NoStartWithoutUpdate
<1>1. IInv /\ [Next]_vars
      => (~ShouldUpdate => \A j \in Jobs :
              status[j] # "Running" /\ status'[j] = "Running" => handler \in PluginEvents)
  BY OnlyPluginsStart
<1>2. IInv /\ [Next]_vars
      => [~ShouldUpdate => \A j \in Jobs :
              status[j] # "Running" /\ status'[j] = "Running" => handler \in PluginEvents]_vars
  BY <1>1
<1> QED
  BY <1>2, Invariance, PTL DEF Spec, NoStartWithoutUpdate

-----------------------------------------------------------------------------
(* That updateQueue allocates: its loop, which counts as it goes and stops *)
(* looking once a limit is reached, ends in the allocation that is defined *)
(* without a loop (UpdateAllocates), for any number of jobs, any limits and*)
(* any state it finds.                                                     *)

\* The job at place i of q runs exactly when it should.
AllocatedAt(q, i) ==
    LET j == jobs[q][i]
        wanted == ShouldBeRunning(j) /\ HasSlot(q, i)
    IN /\ wanted => IsActive(j) \/ ~CanStart(j)
       /\ IsActive(j) => wanted

\* The loop's invariant.  The places it has passed are allocated.  Below the limits
\* its counters are those of the definition; once a limit is reached they stand
\* still, but then no place from here on has a slot.
LoopOK ==
    updating # NoQueue =>
        /\ \A i \in 1..(pos - 1) : AllocatedAt(updating, i)
        /\ IF WithinLimit
           THEN /\ runningJobs = Ahead(updating, pos, TRUE)
                /\ waitingJobs = Ahead(updating, pos, FALSE)
           ELSE ~HasSlot(updating, pos)

-----------------------------------------------------------------------------
(* Counting.                                                               *)

\* A set of numbers up to n has one element more than its part below n, or none.
LEMMA CountStep ==
    ASSUME NEW n \in Nat \ {0}, NEW T \in SUBSET (1..n), NEW S, S = T \ {n}
    PROVE  /\ Cardinality(S) \in Nat
           /\ Cardinality(T) = Cardinality(S) + (IF n \in T THEN 1 ELSE 0)
<1>1. IsFiniteSet(T)
  <2>1. 1 \in Int /\ n \in Int
    OBVIOUS
  <2>2. IsFiniteSet(1..n)
    BY ONLY <2>1, FS_Interval
  <2> QED
    BY <2>2, FS_Subset
<1>2. IsFiniteSet(S) /\ Cardinality(S) = IF n \in T THEN Cardinality(T) - 1 ELSE Cardinality(T)
  BY <1>1, FS_RemoveElement
<1> QED
  BY <1>1, <1>2, FS_CardinalityType

\* What the definition counts ahead of the place after i: what it counts ahead of i,
\* and the job at i if that counts.  (Of the state after a step.)
LEMMA AheadStep ==
    ASSUME NEW q, NEW i \in Nat \ {0}, NEW running
    PROVE  /\ Ahead(q, i, running)' \in Nat
           /\ Ahead(q, i + 1, running)'
              = Ahead(q, i, running)'
                + (IF /\ ShouldBeRunning(jobs[q][i])'
                      /\ CountsAsRunning(failures[jobs[q][i]])' = running THEN 1 ELSE 0)
<1> DEFINE P(k) == /\ ShouldBeRunning(jobs[q][k])'
                   /\ CountsAsRunning(failures[jobs[q][k]])' = running
           T == {k \in 1..i : P(k)}
           S == {k \in 1..(i - 1) : P(k)}
<1>1. Ahead(q, i, running)' = Cardinality(S)
  BY DEF Ahead
<1>2. Ahead(q, i + 1, running)' = Cardinality(T)
  <2>1. (i + 1) - 1 = i
    OBVIOUS
  <2> QED
    BY <2>1 DEF Ahead
<1> HIDE DEF P
<1>3. T \in SUBSET (1..i) /\ S = T \ {i} /\ (i \in T <=> P(i))
  OBVIOUS
<1> HIDE DEF S, T
<1>4. /\ Cardinality(S) \in Nat
      /\ Cardinality(T) = Cardinality(S) + (IF P(i) THEN 1 ELSE 0)
  BY <1>3, CountStep
<1> QED
  BY <1>1, <1>2, <1>4 DEF P

\* At the first place nothing is ahead.
LEMMA AheadFirst ==
    ASSUME NEW q, NEW running
    PROVE  Ahead(q, 1, running)' = 0
<1>1. 1..(1 - 1) = {}
  OBVIOUS
<1>2. Ahead(q, 1, running)' = Cardinality({})
  BY <1>1 DEF Ahead
<1> QED
  BY <1>2, FS_EmptySet

\* Where the slots are used up, counting one job more leaves none.
LEMMA NoSlotComesBack ==
    ASSUME NEW a \in Nat, NEW b \in Nat, NEW m \in Nat, NEW x \in {0, 1}, NEW y \in {0, 1},
           ~(a < m /\ a + b < 2 * m)
    PROVE  ~(a + x < m /\ (a + x) + (b + y) < 2 * m)
OBVIOUS

-----------------------------------------------------------------------------
(* One step of the loop.                                                   *)

\* A step of the loop changes one job, and nothing that the allocation of the jobs
\* before it depends on.
LEMMA OthersKept ==
    ASSUME IInv, JobsListedOnce, NEW slot \in BOOLEAN, NextJob(slot),
           NEW q \in Queues, NEW p \in 1..Len(jobs[q]), NEW j, j = jobs[q][p],
           \A k \in Jobs : k # j => /\ status'[k] = status[k] /\ errorType'[k] = errorType[k]
                                    /\ worker'[k] = worker[k] /\ moving'[k] = moving[k],
           NEW i \in 1..(p - 1)
    PROVE  LET k == jobs[q][i] IN
           /\ ShouldBeRunning(k)' <=> ShouldBeRunning(k)
           /\ IsActive(k)' <=> IsActive(k)
           /\ CanStart(k)' <=> CanStart(k)
<1> DEFINE k == jobs[q][i]
<1>1. jobs[q] \in Seq(Jobs) /\ i \in DOMAIN jobs[q] /\ p \in DOMAIN jobs[q] /\ i # p
  BY LenProperties DEF IInv, DataOK, QueueTypeOK
<1>2. k \in Jobs /\ k # j
  BY <1>1, LenProperties DEF JobsListedOnce
<1>3. /\ status'[k] = status[k] /\ errorType'[k] = errorType[k]
      /\ worker'[k] = worker[k] /\ moving'[k] = moving[k]
  BY <1>2
<1> HIDE DEF k
<1> QED
  BY <1>3 DEF NextJob, jobVars, queueVars, ShouldBeRunning, IsActive, CanStart, k

\* Nor anything they are counted by.
LEMMA AheadKept ==
    ASSUME IInv, JobsListedOnce, NEW slot \in BOOLEAN, NextJob(slot),
           NEW q \in Queues, NEW p \in 1..Len(jobs[q]), NEW j, j = jobs[q][p],
           \A k \in Jobs : k # j => /\ status'[k] = status[k] /\ errorType'[k] = errorType[k]
                                    /\ worker'[k] = worker[k] /\ moving'[k] = moving[k],
           NEW i \in 1..p
    PROVE  /\ \A running \in BOOLEAN : Ahead(q, i, running)' = Ahead(q, i, running)
           /\ HasSlot(q, i)' <=> HasSlot(q, i)
<1>1. \A n \in 1..(p - 1) : ShouldBeRunning(jobs[q][n])' <=> ShouldBeRunning(jobs[q][n])
  BY OthersKept DEF NextJob, queueVars
<1>2. UNCHANGED <<jobs, failures, limit>>
  BY DEF NextJob, queueVars, schedVars
<1>3. ASSUME NEW running \in BOOLEAN
      PROVE  Ahead(q, i, running)' = Ahead(q, i, running)
  <2>1. \A n \in 1..(i - 1) : ShouldBeRunning(jobs[q][n])' <=> ShouldBeRunning(jobs[q][n])
    BY <1>1
  <2> QED
    BY <1>2, <2>1 DEF Ahead
<1>4. MaxSimultaneousJobs' = MaxSimultaneousJobs
  BY <1>2 DEF MaxSimultaneousJobs
<1>5. Ahead(q, i, TRUE)' = Ahead(q, i, TRUE) /\ Ahead(q, i, FALSE)' = Ahead(q, i, FALSE)
  BY <1>3
<1>6. HasSlot(q, i)' <=> HasSlot(q, i)
  BY <1>4, <1>5 DEF HasSlot
<1> QED
  BY <1>3, <1>6

\* A step keeps the loop's invariant if it brings its own job to what it should be
\* and counts it as the definition does.
LEMMA NextPlaceOK ==
    ASSUME IInv, LoopOK, JobsListedOnce, Looping, NEW slot \in BOOLEAN, NextJob(slot),
           NEW q \in Queues, NEW p \in 1..Len(jobs[q]), NEW j,
           q = updating, p = pos, j = jobs[q][p],
           \A k \in Jobs : k # j => /\ status'[k] = status[k] /\ errorType'[k] = errorType[k]
                                    /\ worker'[k] = worker[k] /\ moving'[k] = moving[k],
           (ShouldBeRunning(j)' /\ HasSlot(q, p)) => (IsActive(j)' \/ ~CanStart(j)'),
           IsActive(j)' => ShouldBeRunning(j)' /\ HasSlot(q, p),
           WithinLimit => (slot <=> ShouldBeRunning(j)'),
           ~WithinLimit => ~slot
    PROVE  LoopOK'
<1>0. updating' = q /\ pos' = p + 1 /\ UNCHANGED <<jobs, failures, limit>>
  BY DEF NextJob, queueVars, schedVars
<1>1. jobs[q] \in Seq(Jobs) /\ p \in Nat \ {0}
  BY LenProperties DEF IInv, DataOK, QueueTypeOK
<1>2. \A i \in 1..p : /\ \A running \in BOOLEAN : Ahead(q, i, running)' = Ahead(q, i, running)
                      /\ HasSlot(q, i)' <=> HasSlot(q, i)
  BY AheadKept
<1>3. ASSUME NEW i \in 1..(p - 1)
      PROVE  AllocatedAt(q, i)'
  <2> DEFINE k == jobs[q][i]
  <2>1. /\ ShouldBeRunning(k)' <=> ShouldBeRunning(k)
        /\ IsActive(k)' <=> IsActive(k)
        /\ CanStart(k)' <=> CanStart(k)
    BY OthersKept
  <2>2. HasSlot(q, i)' <=> HasSlot(q, i)
    BY <1>2
  <2>3. AllocatedAt(q, i)
    BY DEF LoopOK, Looping
  <2> QED
    BY <1>0, <2>1, <2>2, <2>3 DEF AllocatedAt
<1>4. AllocatedAt(q, p)'
  <2>1. HasSlot(q, p)' <=> HasSlot(q, p)
    BY <1>1, <1>2
  <2> QED
    BY <1>0, <2>1 DEF AllocatedAt
<1>5. \A i \in 1..p : AllocatedAt(q, i)'
  BY <1>1, <1>3, <1>4
<1> DEFINE counted == CountsAsRunning(failures[j])
           one(r) == IF ShouldBeRunning(j)' /\ counted = r THEN 1 ELSE 0
<1>6. \A r \in BOOLEAN : /\ Ahead(q, p, r) \in Nat
                         /\ Ahead(q, p + 1, r)' = Ahead(q, p, r) + one(r)
  <2> SUFFICES ASSUME NEW r \in BOOLEAN
               PROVE  /\ Ahead(q, p, r) \in Nat
                      /\ Ahead(q, p + 1, r)' = Ahead(q, p, r) + one(r)
    OBVIOUS
  <2>1. Ahead(q, p, r)' = Ahead(q, p, r)
    BY <1>1, <1>2
  <2>2. /\ Ahead(q, p, r)' \in Nat
        /\ Ahead(q, p + 1, r)'
           = Ahead(q, p, r)'
             + (IF /\ ShouldBeRunning(jobs[q][p])'
                   /\ CountsAsRunning(failures[jobs[q][p]])' = r THEN 1 ELSE 0)
    BY <1>1, AheadStep
  <2>3. CountsAsRunning(failures[jobs[q][p]])' = counted
    BY <1>0 DEF CountsAsRunning
  <2>4. ShouldBeRunning(jobs[q][p])' = ShouldBeRunning(j)'
    BY <1>0
  <2> QED
    BY <2>1, <2>2, <2>3, <2>4
<1>7. MaxSimultaneousJobs' = MaxSimultaneousJobs /\ MaxSimultaneousJobs \in Nat
  BY <1>0, SchedulerAssumption
     DEF MaxSimultaneousJobs, IInv, DataOK, SchedTypeOK
<1>8. one(TRUE) \in {0, 1} /\ one(FALSE) \in {0, 1} /\ counted \in BOOLEAN
  BY DEF CountsAsRunning
<1> DEFINE a == Ahead(q, p, TRUE)   a1 == Ahead(q, p + 1, TRUE)'
           b == Ahead(q, p, FALSE)  b1 == Ahead(q, p + 1, FALSE)'
           m == MaxSimultaneousJobs
<1>9. a \in Nat /\ b \in Nat /\ a1 = a + one(TRUE) /\ b1 = b + one(FALSE) /\ m \in Nat
  BY <1>6, <1>7
<1>10. /\ HasSlot(q, p) <=> (a < m /\ a + b < 2 * m)
       /\ HasSlot(q, p + 1)' <=> (a1 < m /\ a1 + b1 < 2 * m)
       /\ WithinLimit <=> (runningJobs < m /\ runningJobs + waitingJobs < 2 * m)
       /\ WithinLimit' <=> (runningJobs' < m /\ runningJobs' + waitingJobs' < 2 * m)
  BY <1>7 DEF HasSlot, WithinLimit
<1>11. CASE WithinLimit
  <2>1. runningJobs = a /\ waitingJobs = b
    BY <1>11 DEF LoopOK, Looping
  <2>2. runningJobs' = a + one(TRUE) /\ waitingJobs' = b + one(FALSE)
    <3>1. slot <=> ShouldBeRunning(j)'
      BY <1>11
    <3>2. LoopJob = j
      BY DEF LoopJob
    <3> HIDE DEF a, b
    <3> QED
      BY <1>8, <1>9, <2>1, <3>1, <3>2 DEF NextJob
  <2>3. runningJobs' = a1 /\ waitingJobs' = b1
    BY <1>9, <2>2
  <2>4. ~WithinLimit' => ~HasSlot(q, p + 1)'
    BY <1>10, <2>3
  <2> QED
    BY <1>0, <1>1, <1>5, <2>3, <2>4 DEF LoopOK
<1>12. CASE ~WithinLimit
  <2>1. ~HasSlot(q, p)
    BY <1>12 DEF LoopOK, Looping
  <2>2. runningJobs' = runningJobs /\ waitingJobs' = waitingJobs
    BY <1>12 DEF NextJob
  <2> HIDE DEF a, b, a1, b1, one, m, counted
  <2>3. ~WithinLimit'
    BY <1>10, <1>12, <2>2
  <2>4. ~HasSlot(q, p + 1)'
    <3>1. ~(a < m /\ a + b < 2 * m)
      BY <1>10, <2>1
    <3>2. ~(a1 < m /\ a1 + b1 < 2 * m)
      BY <1>8, <1>9, <3>1, NoSlotComesBack
    <3> QED
      BY <1>10, <3>2
  <2> QED
    BY <1>0, <1>1, <1>5, <2>3, <2>4 DEF LoopOK
<1> QED
  BY <1>11, <1>12

\* What stop() and start() do to a job: all that the allocation looks at.
LEMMA StopJob ==
    ASSUME IInv, NEW j \in Jobs, PluginStop(j), UNCHANGED <<jobVars, queueVars, schedVars>>
    PROVE  /\ \A k \in Jobs : k # j => /\ status'[k] = status[k] /\ errorType'[k] = errorType[k]
                                       /\ worker'[k] = worker[k] /\ moving'[k] = moving[k]
           /\ ~IsActive(j)'
           /\ IsActive(j) /\ ~ShouldBeRunning(j) => ~ShouldBeRunning(j)'
<1>1. status \in [Jobs -> Statuses] /\ errorType \in [Jobs -> ErrorTypes]
      /\ worker \in [Jobs -> BOOLEAN]
  BY DEF IInv, DataOK, JobTypeOK, PluginTypeOK
<1>2. CASE CanStop(j)
  <2>1. /\ status' = [status EXCEPT ![j] = "Stopped"]
        /\ \A k \in Jobs : k # j => errorType'[k] = errorType[k] /\ worker'[k] = worker[k]
        /\ moving' = moving
    BY <1>1, <1>2 DEF PluginStop, AssignStatus, moveVars
  <2> QED
    BY <1>1, <2>1 DEF IsActive, ShouldBeRunning, jobVars, queueVars
<1>3. CASE ~CanStop(j)
  BY <1>3 DEF PluginStop, CanStop, IsActive, statusVars, moveVars
<1> QED
  BY <1>2, <1>3

\* And start() of a job that should run.
LEMMA StartJob ==
    ASSUME IInv, NEW j \in Jobs, PluginStart(j), UNCHANGED <<jobVars, queueVars, schedVars>>,
           ShouldBeRunning(j)
    PROVE  /\ \A k \in Jobs : k # j => /\ status'[k] = status[k] /\ errorType'[k] = errorType[k]
                                       /\ worker'[k] = worker[k] /\ moving'[k] = moving[k]
           /\ IsActive(j)' \/ ~CanStart(j)'
           /\ ShouldBeRunning(j)'
<1>1. status \in [Jobs -> Statuses] /\ errorType \in [Jobs -> ErrorTypes]
      /\ worker \in [Jobs -> BOOLEAN]
  BY DEF IInv, DataOK, JobTypeOK, PluginTypeOK
<1>2. CASE CanStart(j)
  <2>1. /\ status' = [status EXCEPT ![j] = "Running"]
        /\ \A k \in Jobs : k # j => errorType'[k] = errorType[k] /\ worker'[k] = worker[k]
        /\ moving' = moving
    BY <1>1, <1>2 DEF PluginStart, AssignStatus, moveVars
  <2> QED
    BY <1>1, <2>1 DEF IsActive, ShouldBeRunning, jobVars, queueVars
<1>3. CASE ~CanStart(j)
  <2>1. UNCHANGED <<status, errorType, worker, moving>>
    BY <1>3 DEF PluginStart, statusVars, moveVars
  <2> QED
    BY <1>3, <2>1 DEF CanStart, ShouldBeRunning, jobVars, queueVars
<1> QED
  BY <1>2, <1>3

\* Every step of the loop keeps its invariant.
LEMMA LoopStepOK ==
    ASSUME IInv, LoopOK, JobsListedOnce, UpdateLoop
    PROVE  LoopOK'
<1>1. CASE UpdateDone
  BY <1>1 DEF UpdateDone, LoopOK
<1>2. CASE Looping
  <2>1. updating \in Queues /\ pos \in 1..Len(jobs[updating]) /\ LoopJob \in Jobs
    BY <1>2, LoopJobType
       DEF Looping, IInv, DataOK, QueueTypeOK, StateOK, LoopTypeOK
  <2>2. PICK q \in Queues, p \in 1..Len(jobs[updating]), j \in Jobs :
            q = updating /\ p = pos /\ j = LoopJob
    BY <2>1
  <2>3. j = jobs[q][p] /\ p \in 1..Len(jobs[q])
    BY <2>2 DEF LoopJob
  <2>4. WithinLimit => HasSlot(q, p)
    BY <1>2, <2>2 DEF Looping, LoopOK, WithinLimit, HasSlot
  <2>5. ~WithinLimit => ~HasSlot(q, p)
    BY <1>2, <2>2 DEF Looping, LoopOK
  <2>6. CASE KeepRunning
    <3>1. WithinLimit /\ NextJob(TRUE) /\ IsActive(j)' /\ ShouldBeRunning(j)'
      BY <2>2, <2>6
         DEF KeepRunning, NextJob, IsActive, ShouldBeRunning, statusVars, jobVars, queueVars
    <3>2. UNCHANGED <<status, errorType, worker, moving>>
      BY <2>6 DEF KeepRunning, statusVars, pluginVars
    <3> QED
      BY <1>2, <2>3, <2>2, <2>4, <3>1, <3>2, NextPlaceOK
  <2>7. CASE StopUnwanted
    <3>1. WithinLimit /\ NextJob(FALSE) /\ PluginStop(j) /\ IsActive(j) /\ ~ShouldBeRunning(j)
      BY <2>2, <2>7 DEF StopUnwanted
    <3>2. UNCHANGED <<jobVars, queueVars, schedVars>>
      BY <3>1 DEF NextJob
    <3>3. /\ \A k \in Jobs : k # j => /\ status'[k] = status[k] /\ errorType'[k] = errorType[k]
                                      /\ worker'[k] = worker[k] /\ moving'[k] = moving[k]
          /\ ~IsActive(j)' /\ ~ShouldBeRunning(j)'
      BY <3>1, <3>2, StopJob
    <3> QED
      BY <1>2, <2>3, <2>2, <3>1, <3>3, NextPlaceOK
  <2>8. CASE StartWanted
    <3>1. WithinLimit /\ NextJob(TRUE) /\ PluginStart(j) /\ ShouldBeRunning(j)
      BY <2>2, <2>8 DEF StartWanted
    <3>2. UNCHANGED <<jobVars, queueVars, schedVars>>
      BY <3>1 DEF NextJob
    <3>3. /\ \A k \in Jobs : k # j => /\ status'[k] = status[k] /\ errorType'[k] = errorType[k]
                                      /\ worker'[k] = worker[k] /\ moving'[k] = moving[k]
          /\ IsActive(j)' \/ ~CanStart(j)'
          /\ ShouldBeRunning(j)'
      BY <3>1, <3>2, StartJob
    <3> QED
      BY <1>2, <2>3, <2>2, <2>4, <3>1, <3>3, NextPlaceOK
  <2>9. CASE LeaveStopped
    <3>1. WithinLimit /\ NextJob(FALSE) /\ ~IsActive(j)' /\ ~ShouldBeRunning(j)'
      BY <2>2, <2>9
         DEF LeaveStopped, NextJob, IsActive, ShouldBeRunning, statusVars, jobVars, queueVars
    <3>2. UNCHANGED <<status, errorType, worker, moving>>
      BY <2>9 DEF LeaveStopped, statusVars, pluginVars
    <3> QED
      BY <1>2, <2>3, <2>2, <3>1, <3>2, NextPlaceOK
  <2>10. CASE StopOverLimit
    <3>1. ~WithinLimit /\ NextJob(FALSE) /\ PluginStop(j)
      BY <2>2, <2>10 DEF StopOverLimit
    <3>2. UNCHANGED <<jobVars, queueVars, schedVars>>
      BY <3>1 DEF NextJob
    <3>3. /\ \A k \in Jobs : k # j => /\ status'[k] = status[k] /\ errorType'[k] = errorType[k]
                                      /\ worker'[k] = worker[k] /\ moving'[k] = moving[k]
          /\ ~IsActive(j)'
      BY <3>1, <3>2, StopJob
    <3> QED
      BY <1>2, <2>3, <2>2, <2>5, <3>1, <3>3, NextPlaceOK
  <2> QED
    BY <1>1, <2>6, <2>7, <2>8, <2>9, <2>10 DEF UpdateLoop
<1> QED
  BY <1>1, <1>2
     DEF UpdateLoop, KeepRunning, StopUnwanted, StartWanted, LeaveStopped, StopOverLimit

-----------------------------------------------------------------------------
(* The other steps.                                                        *)

\* The loop begins where nothing is counted and nothing is passed.
LEMMA LoopBegins ==
    ASSUME IInv, CallUpdate
    PROVE  LoopOK'
<1>1. CASE Call(<<>>)
  BY <1>1, CallStep, EmptySeq DEF IInv, CallUpdate, LoopOK
<1>2. CASE BeginLoop(Head(calls).queue)
  <2>1. updating' = Head(calls).queue /\ pos' = 1 /\ runningJobs' = 0 /\ waitingJobs' = 0
    BY <1>2 DEF CallUpdate, Calling, BeginLoop, IInv, StateOK, LoopTypeOK
  <2>2. PICK q : updating' = q
    OBVIOUS
  <2>3. Ahead(q, 1, TRUE)' = 0 /\ Ahead(q, 1, FALSE)' = 0
    BY AheadFirst
  <2>4. HasSlot(q, 1)' <=> WithinLimit'
    BY <2>1, <2>3 DEF HasSlot, WithinLimit
  <2>5. \A i \in 1..(1 - 1) : AllocatedAt(q, i)'
    OBVIOUS
  <2> QED
    BY <2>1, <2>2, <2>3, <2>4, <2>5 DEF LoopOK
<1> QED
  BY <1>1, <1>2 DEF CallUpdate

\* No other call and no event is made while the loop runs, and none starts it.
LEMMA NoLoopBegins ==
    ASSUME IInv, \/ HandlerCall /\ ~CallUpdate
                 \/ UserEvent \/ TimerEvent
                 \/ \E j \in Jobs : WorkerEvent(j)
                 \/ \E b \in BOOLEAN : Network(b)
    PROVE  LoopOK'
<1>1. CASE HandlerCall /\ ~CallUpdate
  <2>1. updating = NoQueue /\ UNCHANGED loopVars
    BY <1>1
       DEF HandlerCall, CallStart, CallStop, CallSetStatus, CallSetErrorType, CallSetPolicy,
           CallSlotResultEnd, CallSetSpeed, CallHandlerStart, CallHandlerStop,
           CallFailureCheck, CallQueueStart, CallQueueStop, CallResetPolicy, CallForJobs,
           CallAppend, CallRemove, CallInsert, CallMoveTransfer, CallSetJobQueue,
           CallDestroy, CallDelQueue, CallSetSuspended, Delegate, QueueStatusChange,
           Calling, Call
  <2> QED
    BY <2>1 DEF LoopOK, loopVars
<1>2. CASE UserEvent \/ TimerEvent \/ (\E j \in Jobs : WorkerEvent(j)) \/ \E b \in BOOLEAN : Network(b)
  <2>1. \A event, todo : Event(event, todo) => Handle(event, todo)
    BY DEF Event
  <2>2. ASSUME UserEvent PROVE \E event, todo : Handle(event, todo)
    <3> DEFINE Handled == \E event, todo : Handle(event, todo)
    <3>1. \A j \in Jobs :
              UserStart(j) \/ UserStop(j) \/ Delete(j) \/ NewDestination(j) \/ Repair(j) => Handled
      BY <2>1 DEF UserStart, UserStop, Delete, NewDestination, Repair
    <3>2. \A s : StartSelected(s) \/ StopSelected(s) => Handled
      BY <2>1 DEF StartSelected, StopSelected
    <3>3. \A q : GroupStart(q) \/ GroupStop(q) \/ AddGroup(q) \/ DelGroup(q) => Handled
      BY <2>1 DEF GroupStart, GroupStop, AddGroup, DelGroup
    <3>4. \A b : StartAll \/ StopAll \/ SetOfflineMode(b) => Handled
      BY <2>1 DEF StartAll, StopAll, SetOfflineMode
    <3>5. \A j, q, after, n, s, p, b :
              Move(j, q, after) \/ SettingsChanged(n) \/ Add(j, q, s, p, b) => Handled
      BY <2>1 DEF Move, SettingsChanged, Add
    <3> HIDE DEF Handled
    <3>6. Handled
      BY <2>2, <3>1, <3>2, <3>3, <3>4, <3>5 DEF UserEvent
    <3> QED
      BY <3>6 DEF Handled
  <2>3. ASSUME TimerEvent \/ (\E j \in Jobs : WorkerEvent(j)) \/ \E b \in BOOLEAN : Network(b)
        PROVE  \E event, todo : Handle(event, todo)
    BY <2>1, <2>3, ZenonT(30)
       DEF WorkerEvent, Data, Result, Error, StatResult, NewDestResult, BrokenUrl,
           ConnectionsErrors, Speed, MmsResult, TimerEvent, Network
  <2>4. handler = "none" /\ UNCHANGED loopVars
    BY <1>2, <2>2, <2>3 DEF Handle
  <2>5. updating' = NoQueue
    BY <2>4 DEF IInv, StateOK, HandlerOK, loopVars
  <2> QED
    BY <2>5 DEF LoopOK
<1> QED
  BY <1>1, <1>2

\* Every step keeps the loop's invariant.
LEMMA LoopNextOK == IInv /\ JobsListedOnce /\ LoopOK /\ [Next]_vars => LoopOK'
<1> SUFFICES ASSUME IInv, JobsListedOnce, LoopOK, [Next]_vars PROVE LoopOK'
  OBVIOUS
<1>1. CASE UpdateLoop
  BY <1>1, LoopStepOK
<1>2. CASE CallUpdate
  BY <1>2, LoopBegins
<1>3. CASE UNCHANGED vars
  <2>1. /\ UNCHANGED <<updating, pos, runningJobs, waitingJobs, jobs, qstatus, failures, limit>>
        /\ UNCHANGED <<status, errorType, policy, jobQueue, worker, moving>>
    BY <1>3, ZenonT(30)
       DEF vars, pluginVars, statusVars, jobVars, queueVars, schedVars, loopVars
  <2> HIDE <1>3
  <2>2. \A j : /\ ShouldBeRunning(j)' = ShouldBeRunning(j)
              /\ CanStart(j)' = CanStart(j) /\ IsActive(j)' = IsActive(j)
    BY <2>1 DEF ShouldBeRunning, CanStart, IsActive
  <2>3. WithinLimit' = WithinLimit /\ MaxSimultaneousJobs' = MaxSimultaneousJobs
    BY <2>1 DEF WithinLimit, MaxSimultaneousJobs
  <2>4. \A q, i : /\ Ahead(q, i, TRUE)' = Ahead(q, i, TRUE)
                 /\ Ahead(q, i, FALSE)' = Ahead(q, i, FALSE)
    BY <2>1, <2>2 DEF Ahead
  <2>5. \A q, i : HasSlot(q, i)' = HasSlot(q, i)
    BY <2>3, <2>4 DEF HasSlot
  <2>6. \A q, i : AllocatedAt(q, i)' = AllocatedAt(q, i)
    BY <2>1, <2>2, <2>5 DEF AllocatedAt
  <2> QED
    BY <2>1, <2>3, <2>4, <2>5, <2>6 DEF LoopOK
<1> QED
  BY <1>1, <1>2, <1>3, NoLoopBegins DEF Next

\* Past the last place, the loop's invariant is what updateQueue promises.
LEMMA LoopAllocates == IInv /\ LoopOK => UpdateAllocates
<1> SUFFICES ASSUME IInv, LoopOK, updating # NoQueue, pos > Len(jobs[updating])
             PROVE  Allocated(updating)
  BY DEF UpdateAllocates
<1>1. jobs[updating] \in Seq(Jobs) /\ pos = Len(jobs[updating]) + 1
  BY LenProperties DEF IInv, DataOK, QueueTypeOK, StateOK, LoopTypeOK
<1>2. \A i \in DOMAIN jobs[updating] : AllocatedAt(updating, i)
  BY <1>1, LenProperties DEF LoopOK
<1> QED
  BY <1>2 DEF Allocated, AllocatedAt

\* As long as no list has a job twice, every update of a queue ends with its slots
\* given to its jobs in list order (scheduler.cpp, updateQueue), whatever the limits
\* and whatever state the update found.
THEOREM AllocationCorrect == Spec /\ []JobsListedOnce => []UpdateAllocates
<1>1. Init => LoopOK
  BY DEF Init, LoopOK
<1> QED
  BY <1>1, LoopNextOK, LoopAllocates, Invariance, PTL DEF Spec

-----------------------------------------------------------------------------
(* Each transfer is listed once.                                           *)

\* Groups are not deleted, or transfers are not moved from one to another.
GroupsKept == "delGroup" \notin Events \/ "moveToGroup" \notin Events

-----------------------------------------------------------------------------
(* The inductive invariant.                                                *)

Once(s) == \A i, k \in DOMAIN s : s[i] = s[k] => i = k

\* The transfers that are listed exist; none is twice in a list.
ListsOK == \A q \in Queues : Once(jobs[q]) /\ Listed(q) \subseteq alive

\* A transfer belongs to the group it was created in, unless it was moved.
OwnersOK == "delGroup" \in Events => \A j \in Jobs : owner[j] = jobQueue[j]

Unlisted(j) == \A q \in Queues : j \notin Listed(q)

\* Each listed job names the queue that lists it, these apart.
Home(but) == \A q \in Queues : \A j \in Listed(q) : j \in but \/ jobQueue[j] = q

\* Calls that change no list, or only move a transfer within its group.
Touching == {"append", "remove", "insert", "setJobQueue", "destroy", "delQueue"}
Ordinary ==
    {c \in Calls : /\ c.op \notin Touching
                   /\ c.op \in {"handlerStart", "moveTransfer"} => c.job \in alive
                   /\ c.op = "moveTransfer" => c.queue = jobQueue[c.job]}

\* Calls that only call their like: what runs before a list is changed.
Modest == {c \in Calls : c.op \in {"update", "setStatus", "setPolicy"}}

AppendTo(j, q)      == [op |-> "append", job |-> j, queue |-> q]
Insert(j, q, after) == [op |-> "insert", job |-> j, queue |-> q, after |-> after]
AssignQueue(j, q)   == [op |-> "setJobQueue", job |-> j, queue |-> q]

\* The ways in which a list is about to change, with what is known by then.
Adding(rest) ==
    \E j \in alive, more \in Seq(Ordinary) :
        rest = <<AppendTo(j, jobQueue[j])>> \o more /\ Unlisted(j)
Deleting(rest)   == \E j \in Jobs : rest = <<OnJob("remove", j), OnJob("destroy", j)>>
Destroying(rest) == \E j \in Jobs : rest = <<OnJob("destroy", j)>> /\ Unlisted(j)
Ungrouping(rest) ==
    "delGroup" \in Events /\ \E q \in Queues : rest = <<OnQueue("delQueue", q)>> /\ jobs[q] = <<>>
Moving(rest) ==
    \E j \in alive, q \in Queues, after \in Jobs \cup {NoJob} :
        rest = <<MoveTransfer(j, q, after)>> /\ ("delGroup" \in Events => q = jobQueue[j])
Inserting(rest) ==
    /\ "delGroup" \notin Events
    /\ \E j \in alive, q \in Queues, after \in Jobs \cup {NoJob} :
           rest = <<Insert(j, q, after), AssignQueue(j, q)>> /\ Unlisted(j)
Assigning(rest) ==
    /\ "delGroup" \notin Events
    /\ \E j \in alive, q \in Queues :
           /\ rest = <<AssignQueue(j, q)>>
           /\ Home({j}) /\ \A p \in Queues \ {q} : j \notin Listed(p)

Pending(rest) ==
    \/ /\ Home({})
       /\ \/ Adding(rest) \/ Deleting(rest) \/ Destroying(rest) \/ Ungrouping(rest)
          \/ Moving(rest) \/ Inserting(rest)
    \/ Assigning(rest)

\* Either no list is about to change, or one is once the calls above are made.
CallsOK ==
    \/ Home({}) /\ calls \in Seq(Ordinary)
    \/ \E above \in Seq(Modest), rest \in Seq(Calls) : calls = above \o rest /\ Pending(rest)

LInv == ListsOK /\ OwnersOK /\ CallsOK

-----------------------------------------------------------------------------
(* Lemmas about lists.                                                     *)

\* A part of a list, and two lists joined, place by place.
LEMMA PartOf ==
    ASSUME NEW S, NEW s \in Seq(S), NEW m \in 1..(Len(s) + 1), NEW n \in 0..Len(s), m <= n + 1
    PROVE  /\ SubSeq(s, m, n) \in Seq(S) /\ Len(SubSeq(s, m, n)) = n - m + 1
           /\ \A i \in 1..(n - m + 1) : SubSeq(s, m, n)[i] = s[i + (m - 1)]
<1>1. Len(s) \in Nat /\ \A i \in 1..Len(s) : s[i] \in S
  BY LenProperties
<1>2. m \in Int /\ n \in Int /\ \A i \in m..n : s[i] \in S
  BY <1>1
<1>3. /\ SubSeq(s, m, n) \in Seq(S)
      /\ Len(SubSeq(s, m, n)) = IF m <= n THEN n - m + 1 ELSE 0
      /\ \A i \in 1..(n - m + 1) : SubSeq(s, m, n)[i] = s[m + i - 1]
  BY <1>2, SubSeqProperties
<1>4. \A i \in 1..(n - m + 1) : m + i - 1 = i + (m - 1)
  BY <1>2
<1> QED
  BY <1>1, <1>2, <1>3, <1>4

\* The places of two lists joined.
LEMMA Joined ==
    ASSUME NEW S, NEW s \in Seq(S), NEW t \in Seq(S)
    PROVE  /\ s \o t \in Seq(S) /\ DOMAIN (s \o t) = 1..(Len(s) + Len(t))
           /\ \A i \in 1..(Len(s) + Len(t)) : (s \o t)[i] = IF i <= Len(s) THEN s[i] ELSE t[i - Len(s)]
BY ConcatProperties, LenProperties

\* Removing a job from a list that has it once leaves the others, once.
LEMMA WithoutOnce ==
    ASSUME NEW S, NEW s \in Seq(S), Once(s), NEW j
    PROVE  /\ Without(s, j) \in Seq(S) /\ Once(Without(s, j))
           /\ ToSet(Without(s, j)) = ToSet(s) \ {j}
<1>0. Without(s, j) \in Seq(S)
  BY WithoutType
<1>1. CASE j \notin ToSet(s)
  BY <1>0, <1>1 DEF Without
<1>2. CASE j \in ToSet(s)
  <2> DEFINE n == IndexOf(s, j)
             r == SubSeq(s, 1, n - 1)
             t == SubSeq(s, n + 1, Len(s))
             rest == r \o t
  <2>1. n \in 1..Len(s) /\ s[n] = j
    BY <1>2, LenProperties DEF IndexOf, ToSet
  <2>2. Without(s, j) = rest
    BY <1>2 DEF Without, RemoveAt
  <2> HIDE DEF n
  <2>3. Len(s) \in Nat /\ DOMAIN s = 1..Len(s) /\ \A i \in 1..Len(s) : s[i] \in S
    BY LenProperties
  <2>4. /\ r \in Seq(S) /\ Len(r) = n - 1
        /\ \A i \in 1..(n - 1) : r[i] = s[i]
    BY <2>1, <2>3, PartOf
  <2>5. /\ t \in Seq(S) /\ Len(t) = Len(s) - n
        /\ \A i \in 1..(Len(s) - n) : t[i] = s[i + n]
    <3>1. /\ n + 1 \in 1..(Len(s) + 1) /\ Len(s) \in 0..Len(s) /\ n + 1 <= Len(s) + 1
          /\ (n + 1) - 1 = n /\ Len(s) - (n + 1) + 1 = Len(s) - n
      BY <2>1, <2>3
    <3> HIDE DEF t
    <3> QED
      BY <3>1, PartOf DEF t
  <2> HIDE DEF r, t
  <2>6. /\ DOMAIN rest = 1..(Len(s) - 1)
        /\ \A i \in 1..(n - 1) : rest[i] = s[i]
        /\ \A i \in n..(Len(s) - 1) : rest[i] = s[i + 1]
    <3>1. /\ DOMAIN rest = 1..(Len(r) + Len(t))
          /\ \A i \in 1..(Len(r) + Len(t)) : rest[i] = IF i <= Len(r) THEN r[i] ELSE t[i - Len(r)]
      BY <2>4, <2>5, Joined
    <3> HIDE DEF rest
    <3>2. Len(r) = n - 1 /\ Len(r) + Len(t) = Len(s) - 1
      BY <2>1, <2>3, <2>4, <2>5
    <3>3. ASSUME NEW i \in 1..(n - 1) PROVE rest[i] = s[i]
      <4>1. i \in 1..(Len(r) + Len(t)) /\ i <= Len(r)
        BY <2>1, <2>3, <3>2
      <4> QED
        BY <2>4, <3>1, <4>1
    <3>4. ASSUME NEW i \in n..(Len(s) - 1) PROVE rest[i] = s[i + 1]
      <4>1. /\ i \in 1..(Len(r) + Len(t)) /\ ~(i <= Len(r))
            /\ i - Len(r) \in 1..(Len(s) - n) /\ i - Len(r) + n = i + 1
        BY <2>1, <2>3, <3>2
      <4> QED
        BY <2>5, <3>1, <4>1
    <3> QED
      BY <3>1, <3>2, <3>3, <3>4
  <2> HIDE DEF rest
  <2>7. Once(rest)
    <3>1. \A i \in 1..(Len(s) - 1) :
              \E m \in 1..Len(s) : rest[i] = s[m] /\ ((m = i /\ i < n) \/ (m = i + 1 /\ i >= n))
      <4>1. ASSUME NEW i \in 1..(Len(s) - 1), i < n PROVE i \in 1..Len(s) /\ rest[i] = s[i]
        BY <2>1, <2>3, <2>6, <4>1
      <4>2. ASSUME NEW i \in 1..(Len(s) - 1), i >= n PROVE i + 1 \in 1..Len(s) /\ rest[i] = s[i + 1]
        BY <2>1, <2>3, <2>6, <4>2
      <4> QED
        BY <2>1, <2>3, <4>1, <4>2
    <3>2. ASSUME NEW i \in 1..(Len(s) - 1), NEW k \in 1..(Len(s) - 1), rest[i] = rest[k]
          PROVE  i = k
      BY <2>1, <2>3, <3>1, <3>2, SMTT(30) DEF Once
    <3> QED
      BY <2>6, <3>2 DEF Once
  <2>8. ToSet(rest) = ToSet(s) \ {j}
    <3>1. \A x \in ToSet(rest) : x \in ToSet(s) \ {j}
      BY <2>1, <2>3, <2>6 DEF Once, ToSet
    <3>2. ASSUME NEW i \in 1..Len(s), s[i] # j PROVE s[i] \in ToSet(rest)
      <4>1. CASE i < n
        BY <2>1, <2>3, <2>6, <4>1 DEF ToSet
      <4>2. CASE i > n
        <5>1. i - 1 \in 1..(Len(s) - 1) /\ rest[i - 1] = s[i]
          BY <2>1, <2>3, <2>6, <4>2
        <5> QED
          BY <2>6, <5>1 DEF ToSet
      <4> QED
        BY <2>1, <2>3, <3>2, <4>1, <4>2
    <3> QED
      BY <2>3, <3>1, <3>2 DEF ToSet
  <2> QED
    BY <1>0, <2>2, <2>7, <2>8
<1> QED
  BY <1>1, <1>2

\* Inserting a job that a list lacks adds it, once.
LEMMA InsertOnce ==
    ASSUME NEW S, NEW s \in Seq(S), Once(s), NEW j \in S, j \notin ToSet(s), NEW after
    PROVE  /\ InsertAfter(s, j, after) \in Seq(S) /\ Once(InsertAfter(s, j, after))
           /\ ToSet(InsertAfter(s, j, after)) = ToSet(s) \cup {j}
<1> DEFINE n == IF after \in ToSet(s) THEN IndexOf(s, after) + 1 ELSE 1
           r == SubSeq(s, 1, n - 1)
           t == SubSeq(s, n, Len(s))
           front == r \o <<j>>
           all == front \o t
<1>1. n \in 1..(Len(s) + 1)
  BY IndexOfType, LenProperties
<1>2. InsertAfter(s, j, after) = all
  BY DEF InsertAfter, InsertAt
<1> HIDE DEF n
<1>3. Len(s) \in Nat /\ DOMAIN s = 1..Len(s) /\ \A i \in 1..Len(s) : s[i] \in S
  BY LenProperties
<1>4. /\ r \in Seq(S) /\ Len(r) = n - 1
      /\ \A i \in 1..(n - 1) : r[i] = s[i]
  BY <1>1, <1>3, PartOf
<1>5. /\ t \in Seq(S) /\ Len(t) = Len(s) - n + 1
      /\ \A i \in 1..(Len(s) - n + 1) : t[i] = s[i + (n - 1)]
  BY <1>1, <1>3, PartOf
<1>6. <<j>> \in Seq(S) /\ Len(<<j>>) = 1 /\ <<j>>[1] = j
  OBVIOUS
<1> HIDE DEF r, t
<1>7. /\ front \in Seq(S) /\ Len(front) = n
      /\ \A i \in 1..n : front[i] = IF i < n THEN s[i] ELSE j
  BY <1>1, <1>3, <1>4, <1>6, ConcatProperties
<1> HIDE DEF front
<1>8. /\ all \in Seq(S) /\ DOMAIN all = 1..(Len(s) + 1)
      /\ \A i \in 1..(Len(s) + 1) :
             all[i] = IF i < n THEN s[i] ELSE IF i = n THEN j ELSE s[i - 1]
  <2>1. /\ all \in Seq(S) /\ DOMAIN all = 1..(Len(s) + 1)
        /\ \A i \in 1..(Len(s) + 1) : all[i] = IF i <= n THEN front[i] ELSE t[i - n]
    <3>1. Len(front) = n /\ Len(front) + Len(t) = Len(s) + 1
      BY <1>1, <1>3, <1>5, <1>7
    <3>2. /\ all \in Seq(S) /\ DOMAIN all = 1..(Len(front) + Len(t))
          /\ \A i \in 1..(Len(front) + Len(t)) :
                 all[i] = IF i <= Len(front) THEN front[i] ELSE t[i - Len(front)]
      BY <1>5, <1>7, Joined
    <3> HIDE DEF all
    <3> QED
      BY <3>1, <3>2
  <2>2. ASSUME NEW i \in 1..(Len(s) + 1), i > n PROVE all[i] = s[i - 1]
    <3>1. i - n \in 1..(Len(s) - n + 1) /\ i - n + (n - 1) = i - 1 /\ ~(i <= n)
      BY <1>1, <1>3, <2>2
    <3> QED
      BY <1>5, <2>1, <3>1
  <2>3. ASSUME NEW i \in 1..(Len(s) + 1), i <= n PROVE all[i] = IF i < n THEN s[i] ELSE j
    BY <1>1, <1>3, <1>7, <2>1, <2>3
  <2> HIDE DEF all
  <2> QED
    BY <1>1, <1>3, <2>1, <2>2, <2>3
<1> HIDE DEF all
<1>9. \A i \in 1..Len(s) : s[i] # j
  BY <1>3 DEF ToSet
<1>10. Once(all)
  BY <1>1, <1>3, <1>8, <1>9 DEF Once
<1>11. ToSet(all) = ToSet(s) \cup {j}
  <2>1. \A x \in ToSet(all) : x \in ToSet(s) \cup {j}
    BY <1>1, <1>3, <1>8, SMTT(30) DEF ToSet
  <2>2. j \in ToSet(all)
    BY <1>1, <1>8 DEF ToSet
  <2>3. ASSUME NEW i \in 1..Len(s) PROVE s[i] \in ToSet(all)
    <3>1. CASE i < n
      BY <1>3, <1>8, <3>1 DEF ToSet
    <3>2. CASE i >= n
      <4>1. i + 1 \in 1..(Len(s) + 1) /\ all[i + 1] = s[i]
        BY <1>1, <1>3, <1>8, <3>2
      <4> QED
        BY <1>8, <4>1 DEF ToSet
    <3> QED
      BY <1>1, <3>1, <3>2
  <2> QED
    BY <1>3, <2>1, <2>2, <2>3 DEF ToSet
<1> QED
  BY <1>2, <1>8, <1>10, <1>11

\* So does appending it.
LEMMA AppendOnce ==
    ASSUME NEW S, NEW s \in Seq(S), Once(s), NEW j \in S, j \notin ToSet(s)
    PROVE  /\ Append(s, j) \in Seq(S) /\ Once(Append(s, j))
           /\ ToSet(Append(s, j)) = ToSet(s) \cup {j}
<1>1. Len(s) \in Nat /\ DOMAIN s = 1..Len(s)
  BY LenProperties
<1>2. /\ Append(s, j) \in Seq(S) /\ DOMAIN Append(s, j) = 1..(Len(s) + 1)
      /\ \A i \in 1..(Len(s) + 1) : Append(s, j)[i] = IF i <= Len(s) THEN s[i] ELSE j
  BY <1>1, AppendProperties, LenProperties
<1>3. Once(Append(s, j))
  BY <1>1, <1>2 DEF Once, ToSet
<1>4. ToSet(Append(s, j)) = ToSet(s) \cup {j}
  <2>1. \A i \in 1..Len(s) : s[i] \in ToSet(Append(s, j))
    BY <1>1, <1>2 DEF ToSet
  <2>2. j \in ToSet(Append(s, j))
    <3>1. Len(s) + 1 \in DOMAIN Append(s, j) /\ Append(s, j)[Len(s) + 1] = j
      BY <1>1, <1>2
    <3> QED
      BY <3>1 DEF ToSet
  <2>3. \A x \in ToSet(Append(s, j)) : x \in ToSet(s) \cup {j}
    BY <1>1, <1>2 DEF ToSet
  <2> QED
    BY <1>1, <2>1, <2>2, <2>3 DEF ToSet
<1> QED
  BY <1>2, <1>3, <1>4

\* Joining a list that is not empty and another one keeps its head.
LEMMA HeadOfJoined ==
    ASSUME NEW S, NEW s \in Seq(S), NEW t \in Seq(S), s # <<>>
    PROVE  Head(s \o t) = Head(s) /\ Tail(s \o t) = Tail(s) \o t
<1> DEFINE all == s \o t
           rest == Tail(s) \o t
<1>1. Len(s) \in Nat \ {0} /\ Len(t) \in Nat
  BY EmptySeq, LenProperties
<1>2. /\ all \in Seq(S) /\ Len(all) = Len(s) + Len(t)
      /\ \A i \in 1..(Len(s) + Len(t)) : all[i] = IF i <= Len(s) THEN s[i] ELSE t[i - Len(s)]
  BY ConcatProperties
<1>3. /\ Tail(s) \in Seq(S) /\ Len(Tail(s)) = Len(s) - 1
      /\ \A i \in 1..(Len(s) - 1) : Tail(s)[i] = s[i + 1]
  BY HeadTailProperties
<1>4. /\ rest \in Seq(S) /\ Len(rest) = Len(Tail(s)) + Len(t)
      /\ \A i \in 1..(Len(Tail(s)) + Len(t)) :
             rest[i] = IF i <= Len(Tail(s)) THEN Tail(s)[i] ELSE t[i - Len(Tail(s))]
  BY <1>3, ConcatProperties
<1> HIDE DEF all, rest
<1>5. all # <<>>
  BY <1>1, <1>2, EmptySeq
<1>6. /\ Tail(all) \in Seq(S) /\ Len(Tail(all)) = Len(all) - 1
      /\ \A i \in 1..(Len(all) - 1) : Tail(all)[i] = all[i + 1]
  BY <1>2, <1>5, HeadTailProperties
<1>7. Head(all) = Head(s)
  <2>1. all[1] = s[1]
    BY <1>1, <1>2
  <2> QED
    BY <2>1
<1>8. ASSUME NEW i \in 1..Len(rest) PROVE Tail(all)[i] = rest[i]
  <2>1. Tail(all)[i] = all[i + 1] /\ i + 1 \in 1..(Len(s) + Len(t))
    BY <1>1, <1>2, <1>3, <1>4, <1>6
  <2>2. CASE i <= Len(s) - 1
    <3>1. i \in 1..(Len(s) - 1) /\ i + 1 <= Len(s) /\ i \in 1..(Len(Tail(s)) + Len(t))
      BY <1>1, <1>3, <1>4, <2>2
    <3>2. all[i + 1] = s[i + 1] /\ rest[i] = Tail(s)[i]
      BY <1>2, <1>3, <1>4, <2>1, <2>2, <3>1
    <3> QED
      BY <1>3, <2>1, <3>1, <3>2
  <2>3. CASE i > Len(s) - 1
    <3>1. ~(i + 1 <= Len(s)) /\ i + 1 - Len(s) = i - (Len(s) - 1)
      BY <1>1, <2>3
    <3>2. all[i + 1] = t[i + 1 - Len(s)]
      BY <1>2, <2>1, <3>1
    <3>3. rest[i] = t[i - (Len(s) - 1)]
      BY <1>1, <1>3, <1>4, <2>3
    <3> QED
      BY <2>1, <3>1, <3>2, <3>3
  <2>4. Len(rest) \in Nat
    BY <1>1, <1>3, <1>4
  <2>5. i <= Len(s) - 1 \/ i > Len(s) - 1
    BY <1>1, <2>4
  <2> QED
    BY <2>2, <2>3, <2>5
<1>9. Tail(all) = rest
  BY <1>1, <1>2, <1>3, <1>4, <1>6, <1>8, SeqEqual
<1> QED
  BY <1>7, <1>9 DEF all, rest

-----------------------------------------------------------------------------
(* Lemmas about calls.                                                     *)

\* Calls that change no list.
LEMMA OrdinaryCalls ==
    ASSUME IInv
    PROVE  /\ \A op \in JobOps \ {"handlerStart", "remove", "destroy"}, j \in Jobs :
                  OnJob(op, j) \in Ordinary
           /\ \A j \in alive : /\ OnJob("handlerStart", j) \in Ordinary
                               /\ \A after \in Jobs \cup {NoJob} :
                                      MoveTransfer(j, jobQueue[j], after) \in Ordinary
           /\ \A op \in QueueOps \ {"delQueue"}, q \in Queues : OnQueue(op, q) \in Ordinary
           /\ \A j \in Jobs, p \in Policies : SetPolicy(j, p) \in Ordinary
           /\ \A j \in Jobs, s \in Statuses : SetStatusTo(j, s) \in Ordinary
           /\ \A j \in Jobs, q \in Queues :
                  [op |-> "resetPolicy", job |-> j, queue |-> q] \in Ordinary
           /\ \A j \in Jobs, t \in ErrorTypes :
                  [op |-> "setErrorType", job |-> j, type |-> t] \in Ordinary
           /\ \A j \in Jobs, b \in BOOLEAN : SetSpeed(j, b) \in Ordinary
           /\ \A b \in BOOLEAN : SetSuspended(b) \in Ordinary
<1>1. alive \subseteq Jobs /\ jobQueue \in [Jobs -> Queues]
  BY DEF IInv, DataOK, JobTypeOK
<1> QED
  BY <1>1, QuietCalls, StartCalls, QuietSeq
     DEF Ordinary, Touching, OnJob, OnQueue, SetPolicy, SetStatusTo, MoveTransfer, SetSpeed,
         SetSuspended, JobOps, QueueOps

\* Calls that call only their like.
LEMMA ModestCalls ==
    /\ \A q \in Queues : OnQueue("update", q) \in Modest
    /\ \A j \in Jobs, p \in Policies : SetPolicy(j, p) \in Modest
    /\ \A j \in Jobs, s \in Statuses : SetStatusTo(j, s) \in Modest
    /\ Modest \subseteq Ordinary /\ Modest \subseteq Calls /\ Ordinary \subseteq Calls
    /\ Seq(Modest) \subseteq Seq(Ordinary) /\ Seq(Modest) \subseteq Seq(Calls)
    /\ Seq(Ordinary) \subseteq Seq(Calls)
<1>1. /\ \A q \in Queues : OnQueue("update", q) \in Modest
      /\ \A j \in Jobs, p \in Policies : SetPolicy(j, p) \in Modest
      /\ \A j \in Jobs, s \in Statuses : SetStatusTo(j, s) \in Modest
  BY QuietCalls, StartCalls, QuietSeq
     DEF Modest, OnQueue, SetPolicy, SetStatusTo, QueueOps
<1>2. Modest \subseteq Ordinary /\ Modest \subseteq Calls /\ Ordinary \subseteq Calls
  BY DEF Modest, Ordinary, Touching
<1> QED
  BY <1>1, <1>2, SeqMonotonic

\* One ordinary call for each job of a list, or for each queue.
LEMMA OrdinaryLists ==
    ASSUME IInv
    PROVE  /\ \A op \in JobOps \ {"handlerStart", "remove", "destroy"}, s \in Seq(Jobs) :
                  ForJobs(op, s) \in Seq(Ordinary)
           /\ \A s \in Seq(alive) : ForJobs("handlerStart", s) \in Seq(Ordinary)
           /\ \A op \in QueueOps \ {"delQueue"} : ForQueues(op) \in Seq(Ordinary)
<1>1. ASSUME NEW op \in JobOps \ {"handlerStart", "remove", "destroy"}, NEW s \in Seq(Jobs)
      PROVE  ForJobs(op, s) \in Seq(Ordinary)
  <2>1. \A i \in 1..Len(s) : OnJob(op, s[i]) \in Ordinary
    BY OrdinaryCalls, LenProperties
  <2> QED
    BY <2>1, LenProperties DEF ForJobs
<1>2. ASSUME NEW s \in Seq(alive) PROVE ForJobs("handlerStart", s) \in Seq(Ordinary)
  <2>1. \A i \in 1..Len(s) : OnJob("handlerStart", s[i]) \in Ordinary
    BY OrdinaryCalls, LenProperties
  <2> QED
    BY <2>1, LenProperties DEF ForJobs
<1>3. ASSUME NEW op \in QueueOps \ {"delQueue"} PROVE ForQueues(op) \in Seq(Ordinary)
  <2>1. queues \in Seq(Queues)
    BY DEF IInv, DataOK, QueueTypeOK
  <2>2. \A i \in 1..Len(queues) : OnQueue(op, queues[i]) \in Ordinary
    BY <2>1, OrdinaryCalls, LenProperties
  <2> QED
    BY <2>1, <2>2, LenProperties DEF ForQueues
<1> QED
  BY <1>1, <1>2, <1>3

\* What is about to change a list is not an ordinary call that changes none.
LEMMA PendingHead ==
    ASSUME IInv, NEW rest, Pending(rest)
    PROVE  /\ rest \in Seq(Calls) /\ rest # <<>>
           /\ Head(rest).op \in Touching \cup {"moveTransfer"}
<1>1. alive \subseteq Jobs /\ jobQueue \in [Jobs -> Queues]
  BY DEF IInv, DataOK, JobTypeOK
<1>2. CASE Adding(rest)
  <2>1. PICK j \in alive, more \in Seq(Ordinary) : rest = <<AppendTo(j, jobQueue[j])>> \o more
    BY <1>2 DEF Adding
  <2>2. AppendTo(j, jobQueue[j]) \in Calls /\ AppendTo(j, jobQueue[j]).op = "append"
    BY <1>1 DEF AppendTo, Calls
  <2> DEFINE a == AppendTo(j, jobQueue[j])
  <2> HIDE DEF a
  <2>3. more \in Seq(Calls) /\ <<a>> \in Seq(Calls) /\ <<a>> # <<>> /\ Head(<<a>>) = a
    BY <2>2, ModestCalls, ShortSeq DEF a
  <2>4. rest \in Seq(Calls) /\ Head(rest) = a
    BY <2>1, <2>3, HeadOfJoined, ConcatProperties DEF a
  <2>5. rest # <<>>
    BY <2>1, <2>3, ConcatEqualIffEmpty DEF a
  <2> QED
    BY <2>2, <2>4, <2>5 DEF Touching, a
<1>3. CASE Deleting(rest) \/ Destroying(rest)
  <2>1. \A j \in Jobs : /\ OnJob("remove", j) \in Calls /\ OnJob("remove", j).op = "remove"
                        /\ OnJob("destroy", j) \in Calls /\ OnJob("destroy", j).op = "destroy"
    BY DEF OnJob, Calls, JobOps
  <2>2. PICK j \in Jobs : rest = <<OnJob("remove", j), OnJob("destroy", j)>> \/ rest = <<OnJob("destroy", j)>>
    BY <1>3 DEF Deleting, Destroying
  <2> DEFINE a == OnJob("remove", j)  b == OnJob("destroy", j)
  <2>3. a \in Calls /\ b \in Calls /\ {a.op, b.op} \subseteq Touching
    BY <2>1 DEF Touching
  <2>4. rest = <<a, b>> \/ rest = <<b>>
    BY <2>2
  <2> HIDE DEF a, b
  <2>5. CASE rest = <<a, b>>
    BY <2>3, <2>5, ShortSeq
  <2>6. CASE rest = <<b>>
    BY <2>3, <2>6, ShortSeq
  <2> QED
    BY <2>4, <2>5, <2>6
<1>4. CASE Ungrouping(rest)
  <2>1. \A q \in Queues : OnQueue("delQueue", q) \in Calls /\ OnQueue("delQueue", q).op = "delQueue"
    BY DEF OnQueue, Calls, QueueOps
  <2> QED
    BY <1>4, <2>1, ShortSeq DEF Ungrouping, Touching
<1>5. CASE Moving(rest)
  <2>1. \A j \in Jobs, q \in Queues, after \in Jobs \cup {NoJob} :
            MoveTransfer(j, q, after) \in Calls /\ MoveTransfer(j, q, after).op = "moveTransfer"
    BY DEF MoveTransfer, Calls
  <2> QED
    BY <1>1, <1>5, <2>1, ShortSeq DEF Moving
<1>6. ASSUME NEW j \in Jobs, NEW q \in Queues
      PROVE  /\ AssignQueue(j, q) \in Calls /\ AssignQueue(j, q).op = "setJobQueue"
             /\ \A after \in Jobs \cup {NoJob} :
                    Insert(j, q, after) \in Calls /\ Insert(j, q, after).op = "insert"
  BY DEF AssignQueue, Insert, Calls
<1>7. CASE Inserting(rest)
  BY <1>1, <1>6, <1>7, ShortSeq, SMTT(30) DEF Inserting, Touching
<1>8. CASE Assigning(rest)
  BY <1>1, <1>6, <1>8, ShortSeq DEF Assigning, Touching
<1> QED
  BY <1>2, <1>3, <1>4, <1>5, <1>7, <1>8 DEF Pending

\* A call either is an ordinary one among others, or begins what is about to
\* change a list, or is a modest one before it.
LEMMA CallsSplit ==
    ASSUME IInv, LInv, calls # <<>>
    PROVE  \/ Home({}) /\ Head(calls) \in Ordinary /\ Tail(calls) \in Seq(Ordinary)
           \/ Pending(calls)
           \/ /\ Head(calls) \in Modest
              /\ \E above \in Seq(Modest), rest \in Seq(Calls) :
                     Tail(calls) = above \o rest /\ Pending(rest)
<1>1. CASE Home({}) /\ calls \in Seq(Ordinary)
  BY <1>1, HeadTailProperties
<1>2. ASSUME NEW above \in Seq(Modest), NEW rest \in Seq(Calls),
             calls = above \o rest, Pending(rest)
      PROVE  \/ Pending(calls)
             \/ /\ Head(calls) \in Modest
                /\ \E a \in Seq(Modest) : Tail(calls) = a \o rest
  <2>1. CASE above = <<>>
    BY <1>2, <2>1, ConcatEmptySeq
  <2>2. CASE above # <<>>
    BY <1>2, <2>2, HeadOfJoined, HeadTailProperties, ModestCalls
  <2> QED
    BY <2>1, <2>2
<1> QED
  BY <1>1, <1>2 DEF LInv, CallsOK

\* What is about to change a list stays so while nothing it depends on changes.
LEMMA PendingKept ==
    ASSUME UNCHANGED <<alive, jobQueue, jobs>>, NEW rest, Pending(rest)
    PROVE  Pending(rest)'
<1>1. Ordinary' = Ordinary
  BY DEF Ordinary
<1>2. /\ \A but : Home(but) => Home(but)'
      /\ \A j : Unlisted(j) => Unlisted(j)'
      /\ \A q : Listed(q)' = Listed(q)
  BY DEF Home, Unlisted, Listed
<1>3. Adding(rest) => Adding(rest)'
  BY <1>1, <1>2 DEF Adding
<1>4. /\ Deleting(rest) => Deleting(rest)'
      /\ Destroying(rest) => Destroying(rest)'
      /\ Ungrouping(rest) => Ungrouping(rest)'
      /\ Moving(rest) => Moving(rest)'
  BY <1>2 DEF Deleting, Destroying, Ungrouping, Moving
<1>5. /\ Inserting(rest) => Inserting(rest)'
      /\ Assigning(rest) => Assigning(rest)'
  BY <1>2 DEF Inserting, Assigning
<1> QED
  BY <1>2, <1>3, <1>4, <1>5 DEF Pending

\* A call that leaves the lists alone and calls ordinary ones, modest ones if it
\* is modest.
LEMMA TameCall ==
    ASSUME IInv, LInv, NEW op, Calling(op), op \notin Touching \cup {"moveTransfer"},
           NEW nested \in Seq(Ordinary),
           op \in {"update", "setStatus", "setPolicy"} => nested \in Seq(Modest),
           calls' = nested \o Tail(calls), UNCHANGED <<alive, jobQueue, owner, jobs>>
    PROVE  LInv'
<1>1. ListsOK' /\ OwnersOK' /\ (Home({}) => Home({})')
  BY DEF LInv, ListsOK, OwnersOK, Listed, Home
<1>2. Ordinary' = Ordinary
  BY DEF Ordinary
<1>4. calls # <<>> /\ Head(calls).op = op
  BY DEF Calling
<1>5. CASE Home({}) /\ Head(calls) \in Ordinary /\ Tail(calls) \in Seq(Ordinary)
  BY <1>1, <1>2, <1>5, ConcatProperties DEF LInv, CallsOK
<1>6. CASE Pending(calls)
  BY <1>4, <1>6, PendingHead
<1>7. ASSUME Head(calls) \in Modest, NEW above \in Seq(Modest), NEW rest \in Seq(Calls),
             Tail(calls) = above \o rest, Pending(rest)
      PROVE  CallsOK'
  <2>1. nested \in Seq(Modest)
    BY <1>4, <1>7 DEF Modest
  <2>2. calls' = (nested \o above) \o rest
    <3>1. nested \in Seq(Calls) /\ above \in Seq(Calls)
      BY <1>7, <2>1, ModestCalls
    <3>2. rest \in Seq(Calls)
      OBVIOUS
    <3>3. nested \o (above \o rest) = (nested \o above) \o rest
      BY ONLY <3>1, <3>2, RegroupCalls
    <3> QED
      BY <1>7, <3>3
  <2>3. nested \o above \in Seq(Modest)
    BY <2>1, ConcatProperties
  <2> QED
    BY <1>7, <2>2, <2>3, PendingKept DEF CallsOK
<1> QED
  BY <1>1, <1>4, <1>5, <1>6, <1>7, CallsSplit DEF LInv

\* What is listed or told of a job while it is started.
LEMMA HandlerStartAlive ==
    ASSUME IInv, LInv, Calling("handlerStart")
    PROVE  Head(calls).job \in alive
<1>1. calls # <<>> /\ Head(calls).op = "handlerStart"
  BY DEF Calling
<1>2. ~Pending(calls)
  BY <1>1, PendingHead DEF Touching
<1>3. Head(calls) \notin Modest
  BY <1>1 DEF Modest
<1>4. Head(calls) \in Ordinary
  BY <1>1, <1>2, <1>3, CallsSplit
<1> QED
  BY <1>1, <1>4 DEF Ordinary

-----------------------------------------------------------------------------
(* The calls that leave the lists alone.                                   *)

\* What a status change or a stop() asks for is modest.
LEMMA AfterStatusModest ==
    ASSUME IInv, NEW j \in Jobs, NEW s
    PROVE  AfterStatus(j, s) \in Seq(Modest) /\ AfterStop(j) \in Seq(Modest)
BY ModestCalls, ShortSeq DEF IInv, DataOK, JobTypeOK, AfterStatus, AfterStop

\* A call that makes none.
LEMMA LastCall ==
    ASSUME IInv, LInv, NEW op, Calling(op), op \notin Touching \cup {"moveTransfer"},
           calls' = Tail(calls), UNCHANGED <<alive, jobQueue, owner, jobs>>
    PROVE  LInv'
<1>1. <<>> \in Seq(Ordinary) /\ <<>> \in Seq(Modest) /\ Tail(calls) \in Seq(Calls)
  BY ShortSeq, HeadTailProperties DEF IInv, StateOK, Calling
<1>2. <<>> \o Tail(calls) = Tail(calls)
  BY <1>1, ConcatEmptySeq
<1> QED
  BY <1>1, <1>2, TameCall

\* start(), stop(), the setters and an update.
LEMMA JobCallsListed ==
    ASSUME IInv, LInv,
           \/ CallUpdate \/ CallStart \/ CallStop \/ CallSetStatus \/ CallSetErrorType
           \/ CallSetPolicy \/ CallSlotResultEnd \/ CallSetSpeed
    PROVE  LInv'
<1> DEFINE c == Head(calls)
<1>0. /\ <<>> \in Seq(Ordinary) /\ <<>> \in Seq(Modest)
      /\ \A nested : Call(nested) => calls' = nested \o Tail(calls)
      /\ calls \in Seq(Calls)
  BY ShortSeq DEF Call, Return, IInv, StateOK
<1>1. CASE CallUpdate
  <2>1. Calling("update") /\ UNCHANGED <<alive, jobQueue, owner, jobs>>
    BY <1>1 DEF CallUpdate, jobVars, queueVars
  <2>2. calls' = Tail(calls) \/ calls' = <<>> \o Tail(calls)
    BY <1>0, <1>1 DEF CallUpdate, BeginLoop
  <2>3. <<>> \o Tail(calls) = Tail(calls)
    BY <1>0, <2>1, HeadTailProperties, ConcatEmptySeq DEF Calling
  <2> QED
    BY <2>1, <2>2, <2>3, LastCall DEF Touching
<1>2. CASE CallStart \/ CallSetErrorType \/ CallSlotResultEnd \/ CallSetSpeed
  <2>1. PICK op \in {"start", "setErrorType", "slotResultEnd", "setSpeed"} :
            Calling(op) /\ Call(<<>>) /\ UNCHANGED <<alive, jobQueue, owner, jobs>>
    BY <1>2 DEF CallStart, CallSetErrorType, CallSlotResultEnd, CallSetSpeed, jobVars, queueVars
  <2> QED
    BY <1>0, <2>1, TameCall DEF Touching
<1>3. CASE CallStop
  <2>1. Calling("stop") /\ Call(AfterStop(c.job)) /\ UNCHANGED <<alive, jobQueue, owner, jobs>>
    BY <1>3 DEF CallStop, jobVars, queueVars
  <2>2. AfterStop(c.job) \in Seq(Ordinary)
    BY <2>1, HeadFields, CallFields, AfterStatusModest, ModestCalls DEF IInv, QueueOps
  <2> DEFINE nested == AfterStop(c.job)
  <2>3. calls' = nested \o Tail(calls) /\ nested \in Seq(Ordinary)
    BY <1>0, <2>1, <2>2
  <2>4. "stop" \notin Touching \cup {"moveTransfer", "update", "setStatus", "setPolicy"}
    BY DEF Touching
  <2> HIDE DEF nested
  <2> QED
    BY <2>1, <2>3, <2>4, TameCall
<1>4. CASE CallSetStatus
  <2>1. /\ Calling("setStatus") /\ Call(AfterStatus(c.job, c.status))
        /\ UNCHANGED <<alive, jobQueue, owner, jobs>>
    BY <1>4 DEF CallSetStatus, jobVars, queueVars
  <2>2. AfterStatus(c.job, c.status) \in Seq(Modest)
    BY <2>1, HeadFields, CallFields, AfterStatusModest DEF IInv, QueueOps
  <2>3. /\ calls' = AfterStatus(c.job, c.status) \o Tail(calls)
        /\ AfterStatus(c.job, c.status) \in Seq(Ordinary)
    BY <1>0, <2>1, <2>2, ModestCalls
  <2> HIDE DEF c
  <2> QED
    BY <2>1, <2>2, <2>3, TameCall DEF Touching
<1>5. CASE CallSetPolicy
  <2> DEFINE nested == IF policy[c.job] # c.policy THEN <<OnQueue("update", jobQueue[c.job])>> ELSE <<>>
  <2>1. Calling("setPolicy") /\ Call(nested) /\ UNCHANGED <<alive, jobQueue, owner, jobs>>
    BY <1>5 DEF CallSetPolicy, queueVars
  <2>2. c.job \in Jobs
    BY <2>1, HeadFields, CallFields DEF IInv, QueueOps
  <2>3. nested \in Seq(Modest)
    BY <1>0, <2>2, ModestCalls, ShortSeq DEF IInv, DataOK, JobTypeOK
  <2> HIDE DEF nested
  <2> QED
    BY <1>0, <2>1, <2>3, TameCall, ModestCalls DEF Touching
<1> QED
  BY <1>1, <1>2, <1>3, <1>4, <1>5

\* The operations of a transfer's handler, of a queue and of the failure check.
LEMMA HandlerCallsListed ==
    ASSUME IInv, LInv,
           \/ CallHandlerStart \/ CallHandlerStop \/ CallFailureCheck \/ CallQueueStart
           \/ CallQueueStop \/ CallResetPolicy \/ CallForJobs \/ CallSetSuspended
    PROVE  LInv'
<1> DEFINE c == Head(calls)
<1>0. <<>> \in Seq(Ordinary)
  BY ShortSeq
<1>1. ASSUME NEW op \in {"handlerStart", "handlerStop", "failureCheck", "queueStart", "queueStop",
                         "resetPolicy", "stopJobs", "stopHandlers", "checkJobs", "setSuspended"},
             Calling(op), NEW nested \in Seq(Ordinary), Call(nested),
             UNCHANGED <<alive, jobQueue, owner, jobs>>
      PROVE  LInv'
  <2>1. calls' = nested \o Tail(calls)
    BY <1>1 DEF Call, Return
  <2> QED
    BY <1>1, <2>1, TameCall DEF Touching
<1>2. CASE CallHandlerStart
  <2> DEFINE j == c.job
             restart == <<SetPolicy(j, "None"), MoveTransfer(j, jobQueue[j], NoJob)>>
             start == <<SetPolicy(j, "Start")>>
  <2>1. /\ Calling("handlerStart") /\ (Call(restart) \/ Call(start))
        /\ UNCHANGED <<alive, jobQueue, owner, jobs>>
    BY <1>2 DEF CallHandlerStart, Delegate, jobVars, queueVars
  <2>2. j \in alive /\ j \in Jobs
    BY <2>1, HandlerStartAlive DEF IInv, DataOK, JobTypeOK
  <2> HIDE DEF j
  <2>3. SetPolicy(j, "None") \in Ordinary /\ MoveTransfer(j, jobQueue[j], NoJob) \in Ordinary
    BY <2>2, OrdinaryCalls DEF Policies
  <2>4. SetPolicy(j, "Start") \in Ordinary
    BY <2>2, OrdinaryCalls DEF Policies
  <2>5. restart \in Seq(Ordinary) /\ start \in Seq(Ordinary)
    BY <2>3, <2>4, ShortSeq
  <2> HIDE DEF restart, start
  <2> QED
    BY <1>1, <2>1, <2>5
<1>3. CASE CallHandlerStop
  <2>1. PICK p \in {"None", "Stop"} :
            /\ Calling("handlerStop") /\ Call(<<SetPolicy(c.job, p)>>)
            /\ UNCHANGED <<alive, jobQueue, owner, jobs>>
    BY <1>3 DEF CallHandlerStop, Delegate, jobVars, queueVars
  <2>2. c.job \in Jobs
    BY <2>1, HeadFields, CallFields DEF IInv, QueueOps
  <2>3. <<SetPolicy(c.job, p)>> \in Seq(Ordinary)
    BY <2>2, OrdinaryCalls, ShortSeq DEF Policies
  <2> QED
    BY <1>1, <2>1, <2>3
<1>4. CASE CallFailureCheck
  <2> DEFINE j == c.job
  <2>1. Calling("failureCheck") /\ UNCHANGED <<alive, jobQueue, owner, jobs>>
    BY <1>4 DEF CallFailureCheck, jobVars, queueVars
  <2>2. \/ Call(<<>>) \/ Call(<<OnJob("handlerStop", j)>>) \/ Call(<<OnJob("stop", j)>>)
        \/ Call(<<OnQueue("update", jobQueue[j])>>)
    BY <1>4 DEF CallFailureCheck
  <2>3. j \in Jobs /\ jobQueue[j] \in Queues
    BY <2>1, HeadFields, CallFields DEF IInv, DataOK, JobTypeOK, QueueOps
  <2> HIDE DEF j
  <2>4. /\ OnJob("handlerStop", j) \in Ordinary /\ OnJob("stop", j) \in Ordinary
        /\ OnQueue("update", jobQueue[j]) \in Ordinary
    BY <2>3, OrdinaryCalls DEF JobOps, QueueOps
  <2>5. /\ <<OnJob("handlerStop", j)>> \in Seq(Ordinary) /\ <<OnJob("stop", j)>> \in Seq(Ordinary)
        /\ <<OnQueue("update", jobQueue[j])>> \in Seq(Ordinary)
    BY <2>4, ShortSeq
  <2> QED
    BY <1>0, <1>1, <2>1, <2>2, <2>5
<1>5. ASSUME NEW q \in Queues, NEW s, NEW then \in Ordinary,
             NEW op \in {"queueStart", "queueStop"}, Calling(op), QueueStatusChange(q, s, then)
      PROVE  LInv'
  <2> DEFINE resets == [i \in DOMAIN jobs[q] |->
                           [op |-> "resetPolicy", job |-> jobs[q][i], queue |-> q]]
  <2>1. jobs[q] \in Seq(Jobs)
    BY DEF IInv, DataOK, QueueTypeOK
  <2>2. \A i \in 1..Len(jobs[q]) :
            [op |-> "resetPolicy", job |-> jobs[q][i], queue |-> q] \in Ordinary
    BY <2>1, OrdinaryCalls, LenProperties
  <2>3. resets \in Seq(Ordinary)
    BY <2>1, <2>2, LenProperties
  <2>4. resets \o <<then>> \in Seq(Ordinary)
    <3> HIDE DEF resets
    <3> QED
      BY <2>3, ShortSeq, ConcatProperties
  <2>5. Call(resets \o <<then>>) /\ UNCHANGED <<alive, jobQueue, owner, jobs>>
    BY <1>5 DEF QueueStatusChange, jobVars
  <2> HIDE DEF resets
  <2> QED
    BY <1>1, <1>5, <2>4, <2>5
<1>6. CASE CallQueueStart \/ CallQueueStop
  <2>1. PICK op \in {"queueStart", "queueStop"}, then \in {"update", "stopJobs"},
             s \in {"Running", "Stopped"} :
            Calling(op) /\ QueueStatusChange(c.queue, s, OnQueue(then, c.queue))
    BY <1>6 DEF CallQueueStart, CallQueueStop
  <2>2. c.queue \in Queues
    BY <2>1, HeadFields, CallFields DEF IInv, QueueOps
  <2>3. OnQueue(then, c.queue) \in Ordinary
    BY <2>2, OrdinaryCalls DEF QueueOps
  <2> QED
    BY <1>5, <2>1, <2>2, <2>3
<1>7. CASE CallResetPolicy
  <2>1. /\ Calling("resetPolicy") /\ (Call(<<SetPolicy(c.job, "None")>>) \/ Call(<<>>))
        /\ UNCHANGED <<alive, jobQueue, owner, jobs>>
    BY <1>7 DEF CallResetPolicy, Delegate, jobVars, queueVars
  <2>2. c.job \in Jobs
    BY <2>1, HeadFields, CallFields DEF IInv, QueueOps
  <2>3. <<SetPolicy(c.job, "None")>> \in Seq(Ordinary)
    BY <2>2, OrdinaryCalls, ShortSeq DEF Policies
  <2> QED
    BY <1>0, <1>1, <2>1, <2>3
<1>8. CASE CallForJobs
  <2>1. PICK op \in {"stopJobs", "stopHandlers", "checkJobs"},
             jobOp \in {"stop", "handlerStop", "failureCheck"} :
            /\ Calling(op) /\ Call(ForJobs(jobOp, jobs[c.queue]))
            /\ UNCHANGED <<alive, jobQueue, owner, jobs>>
    BY <1>8 DEF CallForJobs, Delegate, jobVars, queueVars
  <2>2. c.queue \in Queues
    BY <2>1, HeadFields, CallFields DEF IInv, QueueOps
  <2>3. jobs[c.queue] \in Seq(Jobs)
    BY <2>2 DEF IInv, DataOK, QueueTypeOK
  <2>4. ForJobs(jobOp, jobs[c.queue]) \in Seq(Ordinary)
    BY <2>3, OrdinaryLists DEF JobOps
  <2> QED
    BY <1>1, <2>1, <2>4
<1>9. CASE CallSetSuspended
  <2>1. /\ Calling("setSuspended") /\ (Call(ForQueues("update")) \/ Call(<<>>))
        /\ UNCHANGED <<alive, jobQueue, owner, jobs>>
    BY <1>9 DEF CallSetSuspended, jobVars, queueVars
  <2>2. ForQueues("update") \in Seq(Ordinary)
    BY OrdinaryLists DEF QueueOps
  <2> QED
    BY <1>0, <1>1, <2>1, <2>2
<1> QED
  BY <1>2, <1>3, <1>4, <1>6, <1>7, <1>8, <1>9

-----------------------------------------------------------------------------
(* The calls that change a list.                                           *)

\* Their place among the calls: first.
LEMMA TouchingCall ==
    ASSUME IInv, LInv, NEW op, Calling(op)
    PROVE  /\ op \in Touching => Pending(calls)
           /\ op = "moveTransfer" =>
                  \/ Pending(calls)
                  \/ Home({}) /\ Head(calls) \in Ordinary /\ Tail(calls) \in Seq(Ordinary)
<1>1. calls # <<>> /\ Head(calls).op = op
  BY DEF Calling
<1>2. op \in Touching => Head(calls) \notin Ordinary
  BY <1>1 DEF Ordinary
<1>3. op \in Touching \cup {"moveTransfer"} => Head(calls) \notin Modest
  BY <1>1 DEF Modest, Touching
<1> QED
  BY <1>1, <1>2, <1>3, CallsSplit

\* Which of the pending changes it is, its operation says.
LEMMA PendingOp ==
    ASSUME IInv, NEW rest, Pending(rest)
    PROVE  /\ Head(rest).op = "append"       => Home({}) /\ Adding(rest)
           /\ Head(rest).op = "remove"       => Home({}) /\ Deleting(rest)
           /\ Head(rest).op = "destroy"      => Home({}) /\ Destroying(rest)
           /\ Head(rest).op = "delQueue"     => Home({}) /\ Ungrouping(rest)
           /\ Head(rest).op = "moveTransfer" => Home({}) /\ Moving(rest)
           /\ Head(rest).op = "insert"       => Home({}) /\ Inserting(rest)
           /\ Head(rest).op = "setJobQueue"  => Assigning(rest)
<1>1. alive \subseteq Jobs /\ jobQueue \in [Jobs -> Queues]
  BY DEF IInv, DataOK, JobTypeOK
<1>2. Adding(rest) => Head(rest).op = "append"
  <2> SUFFICES ASSUME Adding(rest) PROVE Head(rest).op = "append"
    OBVIOUS
  <2>1. PICK j \in alive, more \in Seq(Ordinary) : rest = <<AppendTo(j, jobQueue[j])>> \o more
    BY DEF Adding
  <2> DEFINE a == AppendTo(j, jobQueue[j])
  <2>2. a \in Calls /\ a.op = "append"
    BY <1>1 DEF AppendTo, Calls
  <2> HIDE DEF a
  <2>3. more \in Seq(Calls) /\ <<a>> \in Seq(Calls) /\ <<a>> # <<>> /\ Head(<<a>>) = a
    BY <2>2, ModestCalls, ShortSeq
  <2>4. Head(rest) = a
    BY <2>1, <2>3, HeadOfJoined DEF a
  <2> QED
    BY <2>2, <2>4
<1>3. Deleting(rest) => Head(rest).op = "remove"
  BY DEF Deleting, OnJob
<1>4. Destroying(rest) => Head(rest).op = "destroy"
  BY DEF Destroying, OnJob
<1>5. Ungrouping(rest) => Head(rest).op = "delQueue"
  BY DEF Ungrouping, OnQueue
<1>6. Moving(rest) => Head(rest).op = "moveTransfer"
  BY DEF Moving, MoveTransfer
<1>7. Inserting(rest) => Head(rest).op = "insert"
  BY DEF Inserting, Insert
<1>8. Assigning(rest) => Head(rest).op = "setJobQueue"
  BY DEF Assigning, AssignQueue
<1> QED
  BY <1>2, <1>3, <1>4, <1>5, <1>6, <1>7, <1>8 DEF Pending

\* What a list comes to hold when it is replaced; the others stay.
LEMMA Relisted ==
    ASSUME IInv, NEW q \in Queues, NEW list \in Seq(Jobs), Relist(q, list)
    PROVE  /\ jobs'[q] = list /\ \A p \in Queues \ {q} : jobs'[p] = jobs[p]
           /\ Listed(q)' = ToSet(list) /\ \A p \in Queues \ {q} : Listed(p)' = Listed(p)
           /\ UNCHANGED <<alive, jobQueue, owner>>
<1>1. jobs \in [Queues -> Seq(Jobs)] /\ jobs' = [jobs EXCEPT ![q] = list]
  BY DEF IInv, DataOK, QueueTypeOK, Relist
<1>2. jobs'[q] = list /\ \A p \in Queues \ {q} : jobs'[p] = jobs[p]
  BY <1>1
<1> QED
  BY <1>2 DEF Listed, Relist, jobVars

\* Taking a job from a list leaves it in none, and the other jobs where they were.
LEMMA Delisted ==
    ASSUME IInv, LInv, Home({}), NEW j \in Jobs, Relist(jobQueue[j], Without(jobs[jobQueue[j]], j))
    PROVE  ListsOK' /\ Home({})' /\ Unlisted(j)' /\ UNCHANGED <<alive, jobQueue, owner>>
<1>0. PICK q \in Queues : q = jobQueue[j]
  BY DEF IInv, DataOK, JobTypeOK
<1>1. jobs[q] \in Seq(Jobs) /\ Once(jobs[q])
  BY DEF IInv, DataOK, QueueTypeOK, LInv, ListsOK
<1>2. /\ Without(jobs[q], j) \in Seq(Jobs) /\ Once(Without(jobs[q], j))
      /\ ToSet(Without(jobs[q], j)) = Listed(q) \ {j}
  BY <1>1, WithoutOnce DEF Listed
<1>3. /\ jobs'[q] = Without(jobs[q], j) /\ \A p \in Queues \ {q} : jobs'[p] = jobs[p]
      /\ Listed(q)' = Listed(q) \ {j} /\ \A p \in Queues \ {q} : Listed(p)' = Listed(p)
      /\ UNCHANGED <<alive, jobQueue, owner>>
  BY <1>0, <1>1, <1>2, Relisted
<1>4. ListsOK'
  BY <1>2, <1>3 DEF LInv, ListsOK
<1>5. Home({})'
  BY <1>3 DEF Home
<1>6. Unlisted(j)'
  BY <1>0, <1>3 DEF Unlisted, Home
<1> QED
  BY <1>3, <1>4, <1>5, <1>6

\* Putting a job that exists into a list, where it was not.
LEMMA Enlisted ==
    ASSUME IInv, LInv, NEW q \in Queues, NEW j \in alive, NEW list \in Seq(Jobs),
           Once(list), ToSet(list) = Listed(q) \cup {j}, Relist(q, list)
    PROVE  /\ ListsOK' /\ UNCHANGED <<alive, jobQueue, owner>>
           /\ Home({}) => Home({j})' /\ (jobQueue[j] = q => Home({})')
           /\ Unlisted(j) => \A p \in Queues \ {q} : j \notin Listed(p)'
<1>1. /\ jobs'[q] = list /\ \A p \in Queues \ {q} : jobs'[p] = jobs[p]
      /\ Listed(q)' = Listed(q) \cup {j} /\ \A p \in Queues \ {q} : Listed(p)' = Listed(p)
      /\ UNCHANGED <<alive, jobQueue, owner>>
  BY Relisted
<1>2. ListsOK'
  BY <1>1 DEF LInv, ListsOK
<1>3. Home({}) => Home({j})' /\ (jobQueue[j] = q => Home({})')
  BY <1>1 DEF Home
<1>4. Unlisted(j) => \A p \in Queues \ {q} : j \notin Listed(p)'
  BY <1>1 DEF Unlisted
<1> QED
  BY <1>1, <1>2, <1>3, <1>4

\* JobQueue::append of a new transfer: what is called, and what the list becomes.
LEMMA AppendCall ==
    ASSUME IInv, LInv, CallAppend
    PROVE  \E j \in alive, q \in Queues, more \in Seq(Ordinary), list \in Seq(Jobs) :
               /\ Home({}) /\ Unlisted(j) /\ q = jobQueue[j]
               /\ Head(calls) = AppendTo(j, q) /\ calls' = <<OnQueue("update", q)>> \o more
               /\ Once(list) /\ ToSet(list) = Listed(q) \cup {j} /\ Relist(q, list)
<1>1. Calling("append") /\ Home({}) /\ Adding(calls)
  BY TouchingCall, PendingOp DEF CallAppend, Calling, Touching
<1>2. PICK j \in alive, more \in Seq(Ordinary) :
          calls = <<AppendTo(j, jobQueue[j])>> \o more /\ Unlisted(j)
  BY <1>1 DEF Adding
<1>3. PICK q \in Queues : q = jobQueue[j] /\ j \in Jobs
  BY DEF IInv, DataOK, JobTypeOK
<1>4. Head(calls) = AppendTo(j, q) /\ Tail(calls) = more
  <2> DEFINE a == AppendTo(j, q)
  <2>1. a \in Calls /\ <<a>> \in Seq(Calls) /\ more \in Seq(Calls)
    BY <1>3, ModestCalls, ShortSeq DEF AppendTo, Calls
  <2> HIDE DEF a
  <2>2. Head(<<a>> \o more) = a /\ Tail(<<a>> \o more) = <<>> \o more
    BY <2>1, HeadOfJoined
  <2>3. <<>> \o more = more
    BY <2>1, ConcatEmptySeq
  <2> QED
    BY <1>2, <1>3, <2>2, <2>3 DEF a
<1>5. Relist(q, Append(jobs[q], j)) /\ calls' = <<OnQueue("update", q)>> \o more
  <2>1. Head(calls).job = j /\ Head(calls).queue = q
    BY <1>4 DEF AppendTo
  <2> QED
    BY <1>4, <2>1 DEF CallAppend, Call, Return
<1>6. /\ Append(jobs[q], j) \in Seq(Jobs) /\ Once(Append(jobs[q], j))
      /\ ToSet(Append(jobs[q], j)) = Listed(q) \cup {j}
  <2>1. jobs[q] \in Seq(Jobs) /\ Once(jobs[q]) /\ j \notin ToSet(jobs[q])
    BY <1>2, <1>3 DEF IInv, DataOK, QueueTypeOK, LInv, ListsOK, Unlisted, Listed
  <2> QED
    BY <1>3, <2>1, AppendOnce DEF Listed
<1> QED
  BY <1>1, <1>2, <1>3, <1>4, <1>5, <1>6

\* It lists the transfer in the queue that it names.
LEMMA AppendListed == IInv /\ LInv /\ CallAppend => LInv'
<1> SUFFICES ASSUME IInv, LInv, CallAppend PROVE LInv'
  OBVIOUS
<1>1. PICK j \in alive, q \in Queues, more \in Seq(Ordinary), list \in Seq(Jobs) :
          /\ Home({}) /\ q = jobQueue[j] /\ calls' = <<OnQueue("update", q)>> \o more
          /\ Once(list) /\ ToSet(list) = Listed(q) \cup {j} /\ Relist(q, list)
  BY AppendCall
<1>2. ListsOK' /\ Home({})' /\ UNCHANGED <<alive, jobQueue, owner>>
  BY <1>1, Enlisted
<1>3. calls' \in Seq(Ordinary)
  BY <1>1, ModestCalls, ShortSeq, ConcatProperties
<1>4. Ordinary' = Ordinary /\ OwnersOK'
  BY <1>2 DEF Ordinary, LInv, OwnersOK
<1> QED
  BY <1>2, <1>3, <1>4 DEF LInv, CallsOK

\* A call or two that are the last ones.
LEMMA LastCalls ==
    /\ \A a : Head(<<a>>) = a /\ Tail(<<a>>) = <<>>
    /\ \A a, b : Head(<<a, b>>) = a /\ Tail(<<a, b>>) = <<b>>
OBVIOUS

\* An update of a queue and then the rest of a change.
LEMMA UpdateThen ==
    ASSUME NEW q \in Queues, NEW rest \in Seq(Calls), calls' = <<OnQueue("update", q)>> \o rest,
           Pending(rest)'
    PROVE  CallsOK'
<1>1. <<OnQueue("update", q)>> \in Seq(Modest)
  BY ModestCalls, ShortSeq
<1>2. Modest' = Modest
  BY DEF Modest
<1> QED
  BY <1>1, <1>2 DEF CallsOK

\* JobQueue::remove, before the transfer is destroyed.
LEMMA RemoveCall ==
    ASSUME IInv, LInv, CallRemove
    PROVE  \E j \in Jobs, q \in Queues :
               /\ Home({}) /\ q = jobQueue[j] /\ Relist(q, Without(jobs[q], j))
               /\ calls' = <<OnQueue("update", q)>> \o <<OnJob("destroy", j)>>
<1>1. Calling("remove") /\ Home({}) /\ Deleting(calls)
  BY TouchingCall, PendingOp DEF CallRemove, Calling, Touching
<1>2. PICK j \in Jobs : calls = <<OnJob("remove", j), OnJob("destroy", j)>>
  BY <1>1 DEF Deleting
<1>3. PICK q \in Queues : q = jobQueue[j]
  BY DEF IInv, DataOK, JobTypeOK
<1>4. Head(calls).job = j /\ Tail(calls) = <<OnJob("destroy", j)>>
  BY <1>2, LastCalls DEF OnJob
<1> QED
  BY <1>1, <1>3, <1>4 DEF CallRemove, Call, Return

\* It leaves the transfer in no list.
LEMMA RemoveListed == IInv /\ LInv /\ CallRemove => LInv'
<1> SUFFICES ASSUME IInv, LInv, CallRemove PROVE LInv'
  OBVIOUS
<1>1. PICK j \in Jobs, q \in Queues :
          /\ Home({}) /\ q = jobQueue[j] /\ Relist(q, Without(jobs[q], j))
          /\ calls' = <<OnQueue("update", q)>> \o <<OnJob("destroy", j)>>
  BY RemoveCall
<1>2. ListsOK' /\ Home({})' /\ Unlisted(j)' /\ UNCHANGED <<alive, jobQueue, owner>>
  BY <1>1, Delisted
<1>3. Pending(<<OnJob("destroy", j)>>)'
  BY <1>2 DEF Pending, Destroying
<1>4. <<OnJob("destroy", j)>> \in Seq(Calls)
  BY ShortSeq DEF OnJob, Calls, JobOps
<1>5. CallsOK'
  BY <1>1, <1>3, <1>4, UpdateThen
<1> QED
  BY <1>2, <1>5 DEF LInv, OwnersOK

\* The transfers that go are listed nowhere.
LEMMA GoneListed ==
    ASSUME IInv, LInv, Home({}), NEW gone, Destroy(gone), \A j \in gone : Unlisted(j),
           jobs' = jobs, calls' = <<>>
    PROVE  LInv'
<1>1. alive' = alive \ gone /\ jobQueue' = jobQueue /\ owner' = owner
  BY DEF Destroy
<1>2. ListsOK'
  BY <1>1 DEF LInv, ListsOK, Listed, Unlisted
<1>3. Home({})' /\ OwnersOK'
  BY <1>1 DEF Home, Listed, LInv, OwnersOK
<1>4. CallsOK'
  BY <1>3, ShortSeq DEF CallsOK
<1> QED
  BY <1>2, <1>3, <1>4 DEF LInv

\* The deletion of a transfer, and of a group that is empty: a handler's last call.
LEMMA DestroyCall ==
    ASSUME IInv, LInv, CallDestroy
    PROVE  \E j \in Jobs : /\ Home({}) /\ Unlisted(j) /\ calls = <<OnJob("destroy", j)>>
                           /\ Destroy({j}) /\ UNCHANGED queueVars /\ calls' = <<>>
<1>0. <<>> \o <<>> = <<>>
  OBVIOUS
<1>1. Calling("destroy") /\ Home({}) /\ Destroying(calls)
  BY TouchingCall, PendingOp DEF CallDestroy, Calling, Touching
<1>2. PICK j \in Jobs : calls = <<OnJob("destroy", j)>> /\ Unlisted(j)
  BY <1>1 DEF Destroying
<1>3. Head(calls).job = j /\ Tail(calls) = <<>>
  BY <1>2, LastCalls DEF OnJob
<1>4. Destroy({j}) /\ calls' = <<>> /\ UNCHANGED queueVars
  BY <1>0, <1>3 DEF CallDestroy, Call, Return
<1> QED
  BY <1>1, <1>2, <1>4

\* TransferGroup's deletion with its jobs: they are gone from every list, the queue from
\* the scheduler's.
LEMMA DelQueueCall ==
    ASSUME IInv, LInv, CallDelQueue
    PROVE  \E q \in Queues : \E gone :
               /\ Home({}) /\ calls = <<OnQueue("delQueue", q)>> /\ calls' = <<>>
               /\ Destroy(gone) /\ UNCHANGED jobs /\ queues' = Without(queues, q)
               /\ gone = {j \in alive : jobQueue[j] = q} /\ \A j \in gone : Unlisted(j)
<1>0. <<>> \o <<>> = <<>>
  OBVIOUS
<1>1. Calling("delQueue") /\ Home({}) /\ Ungrouping(calls)
  BY TouchingCall, PendingOp DEF CallDelQueue, Calling, Touching
<1>2. PICK q \in Queues : calls = <<OnQueue("delQueue", q)>> /\ jobs[q] = <<>>
  BY <1>1 DEF Ungrouping
<1>3. Head(calls).queue = q /\ Tail(calls) = <<>>
  BY <1>2, LastCalls DEF OnQueue
<1> DEFINE gone == {j \in alive : owner[j] = q}
<1>4. Destroy(gone) /\ calls' = <<>> /\ UNCHANGED jobs /\ queues' = Without(queues, q)
  BY <1>0, <1>3 DEF CallDelQueue, Call, Return
<1>5. gone = {j \in alive : jobQueue[j] = q}
  BY <1>1 DEF Ungrouping, IInv, DataOK, JobTypeOK, LInv, OwnersOK
<1>6. \A j \in gone : Unlisted(j)
  BY <1>1, <1>2, <1>5 DEF Unlisted, Home, Listed, ToSet
<1> HIDE DEF gone
<1> QED
  BY <1>1, <1>2, <1>4, <1>5, <1>6

\* The calls that destroy transfers keep the lists' invariant.
LEMMA DestroyListed == IInv /\ LInv /\ (CallDestroy \/ CallDelQueue) => LInv'
BY DestroyCall, DelQueueCall, GoneListed DEF queueVars

\* TransferTreeModel::moveTransfer within a group: the job gets another place.
LEMMA ReorderListed ==
    ASSUME IInv, LInv, Home({}), NEW j \in alive, NEW q \in Queues, q = jobQueue[j], NEW after,
           Relist(q, InsertAfter(Without(jobs[q], j), j, after)),
           NEW more \in Seq(Ordinary), calls' = <<OnQueue("update", q)>> \o more
    PROVE  LInv'
<1>1. j \in Jobs /\ jobs[q] \in Seq(Jobs) /\ Once(jobs[q])
  BY DEF IInv, DataOK, JobTypeOK, QueueTypeOK, LInv, ListsOK
<1> DEFINE others == Without(jobs[q], j)
           list == InsertAfter(others, j, after)
<1>2. others \in Seq(Jobs) /\ Once(others) /\ ToSet(others) = Listed(q) \ {j}
  BY <1>1, WithoutOnce DEF Listed
<1> HIDE DEF others
<1>3. list \in Seq(Jobs) /\ Once(list) /\ ToSet(list) = Listed(q) \cup {j}
  BY <1>1, <1>2, InsertOnce
<1>4. Relist(q, list)
  BY DEF others
<1> HIDE DEF list
<1>5. ListsOK' /\ Home({})' /\ UNCHANGED <<alive, jobQueue, owner>>
  BY <1>3, <1>4, Enlisted
<1>6. calls' \in Seq(Ordinary)
  BY ModestCalls, ShortSeq, ConcatProperties
<1>7. Ordinary' = Ordinary /\ OwnersOK'
  BY <1>5 DEF Ordinary, LInv, OwnersOK
<1> QED
  BY <1>5, <1>6, <1>7 DEF LInv, CallsOK

\* Into another group, the job leaves its own; it is inserted after the update.
LEMMA LeaveListed ==
    ASSUME IInv, LInv, Home({}), "delGroup" \notin Events,
           NEW j \in alive, NEW q \in Queues, NEW after \in Jobs \cup {NoJob},
           NEW old \in Queues, old = jobQueue[j], Relist(old, Without(jobs[old], j)),
           calls' = <<OnQueue("update", old)>> \o <<Insert(j, q, after), AssignQueue(j, q)>>
    PROVE  LInv'
<1>1. j \in Jobs
  BY DEF IInv, DataOK, JobTypeOK
<1>2. ListsOK' /\ Home({})' /\ Unlisted(j)' /\ UNCHANGED <<alive, jobQueue, owner>>
  BY <1>1, Delisted
<1>3. Insert(j, q, after) \in Calls /\ AssignQueue(j, q) \in Calls
  BY <1>1 DEF Insert, AssignQueue, Calls
<1>4. <<Insert(j, q, after), AssignQueue(j, q)>> \in Seq(Calls)
  BY <1>3, ShortSeq
<1>5. Pending(<<Insert(j, q, after), AssignQueue(j, q)>>)'
  BY <1>2 DEF Pending, Inserting
<1>6. CallsOK'
  BY <1>4, <1>5, UpdateThen
<1> QED
  BY <1>2, <1>6 DEF LInv, OwnersOK

\* TransferTreeModel::moveTransfer: what is called, and what it does.
LEMMA MoveCall ==
    ASSUME IInv, LInv, CallMoveTransfer
    PROVE  \E j \in alive, q \in Queues, after \in Jobs \cup {NoJob}, old \in Queues,
              more \in Seq(Ordinary) :
               /\ Home({}) /\ old = jobQueue[j] /\ Tail(calls) = more
               /\ q # old => "delGroup" \notin Events
               /\ \/ Delegate(<<>>) /\ calls' = more
                  \/ /\ q = old /\ Relist(q, InsertAfter(Without(jobs[q], j), j, after))
                     /\ calls' = <<OnQueue("update", q)>> \o more
                  \/ /\ q # old /\ Relist(old, Without(jobs[old], j))
                     /\ calls' = <<OnQueue("update", old)>> \o <<Insert(j, q, after), AssignQueue(j, q)>>
<1>1. Calling("moveTransfer") /\ calls # <<>> /\ Head(calls).op = "moveTransfer"
  BY DEF CallMoveTransfer, Calling
<1>2. PICK j \in alive, q \in Queues, after \in Jobs \cup {NoJob}, more \in Seq(Ordinary) :
          /\ Home({}) /\ Tail(calls) = more
          /\ Head(calls).job = j /\ Head(calls).queue = q /\ Head(calls).after = after
          /\ (q # jobQueue[j] => more = <<>> /\ "delGroup" \notin Events)
  <2>1. CASE Home({}) /\ Head(calls) \in Ordinary /\ Tail(calls) \in Seq(Ordinary)
    <3>1. Head(calls).queue \in Queues /\ Head(calls).after \in Jobs \cup {NoJob}
      BY <1>1, HeadFields, CallFields DEF IInv
    <3>2. Head(calls).job \in alive /\ Head(calls).queue = jobQueue[Head(calls).job]
      BY <1>1, <2>1 DEF Ordinary
    <3> QED
      BY <2>1, <3>1, <3>2
  <2>2. CASE Pending(calls)
    <3>1. Home({}) /\ Moving(calls)
      BY <1>1, <2>2, PendingOp
    <3>2. PICK j \in alive, q \in Queues, after \in Jobs \cup {NoJob} :
              calls = <<MoveTransfer(j, q, after)>> /\ ("delGroup" \in Events => q = jobQueue[j])
      BY <3>1 DEF Moving
    <3>3. Head(calls) = MoveTransfer(j, q, after) /\ Tail(calls) = <<>>
      BY <3>2, LastCalls
    <3>4. Head(calls).job = j /\ Head(calls).queue = q /\ Head(calls).after = after
      BY <3>3 DEF MoveTransfer
    <3>5. <<>> \in Seq(Ordinary)
      BY ShortSeq
    <3> QED
      BY <3>1, <3>2, <3>3, <3>4, <3>5
  <2> QED
    BY <1>1, <2>1, <2>2, TouchingCall
<1>3. PICK old \in Queues : old = jobQueue[j]
  BY DEF IInv, DataOK, JobTypeOK
<1>4. more \in Seq(Calls)
  BY ModestCalls
<1>5. CASE Delegate(<<>>)
  <2>1. calls' = more
    BY <1>2, <1>4, <1>5, ConcatEmptySeq DEF Delegate, Call, Return
  <2> QED
    BY <1>2, <1>3, <1>5, <2>1
<1>6. CASE /\ q = old /\ Relist(q, InsertAfter(Without(jobs[q], j), j, after))
           /\ Call(<<OnQueue("update", q)>>)
  <2>1. calls' = <<OnQueue("update", q)>> \o more
    BY <1>2, <1>6 DEF Call, Return
  <2> QED
    BY <1>2, <1>3, <1>6, <2>1
<1>7. CASE /\ q # old /\ Relist(old, Without(jobs[old], j))
           /\ Call(<<OnQueue("update", old), Insert(j, q, after), AssignQueue(j, q)>>)
  <2>1. \A a, b, c : <<a, b, c>> \o <<>> = <<a>> \o <<b, c>>
    OBVIOUS
  <2>2. calls' = <<OnQueue("update", old)>> \o <<Insert(j, q, after), AssignQueue(j, q)>>
    BY <1>2, <1>3, <1>7, <2>1, SMTT(30) DEF Call, Return
  <2> QED
    BY <1>2, <1>3, <1>7, <2>2
<1> QED
  BY <1>2, <1>3, <1>5, <1>6, <1>7 DEF CallMoveTransfer, Insert, AssignQueue

\* The call that moves a transfer keeps the lists' invariant, if the groups are kept.
LEMMA MoveListed == IInv /\ LInv /\ CallMoveTransfer => LInv'
<1> SUFFICES ASSUME IInv, LInv, CallMoveTransfer PROVE LInv'
  OBVIOUS
<1>1. PICK j \in alive, q \in Queues, after \in Jobs \cup {NoJob}, old \in Queues,
           more \in Seq(Ordinary) :
          /\ Home({}) /\ old = jobQueue[j] /\ Tail(calls) = more
          /\ q # old => "delGroup" \notin Events
          /\ \/ Delegate(<<>>) /\ calls' = more
             \/ /\ q = old /\ Relist(q, InsertAfter(Without(jobs[q], j), j, after))
                /\ calls' = <<OnQueue("update", q)>> \o more
             \/ /\ q # old /\ Relist(old, Without(jobs[old], j))
                /\ calls' = <<OnQueue("update", old)>> \o <<Insert(j, q, after), AssignQueue(j, q)>>
  BY MoveCall
<1>2. CASE Delegate(<<>>) /\ calls' = more
  <2>1. UNCHANGED <<alive, jobQueue, owner, jobs>>
    BY <1>2 DEF Delegate, jobVars, queueVars
  <2>2. ListsOK' /\ OwnersOK' /\ Home({})'
    BY <1>1, <2>1 DEF LInv, ListsOK, OwnersOK, Listed, Home
  <2>3. Ordinary' = Ordinary
    BY <2>1 DEF Ordinary
  <2> QED
    BY <1>2, <2>2, <2>3 DEF LInv, CallsOK
<1>3. CASE /\ q = old /\ Relist(q, InsertAfter(Without(jobs[q], j), j, after))
           /\ calls' = <<OnQueue("update", q)>> \o more
  BY <1>1, <1>3, ReorderListed
<1>4. CASE /\ q # old /\ Relist(old, Without(jobs[old], j))
           /\ calls' = <<OnQueue("update", old)>> \o <<Insert(j, q, after), AssignQueue(j, q)>>
  BY <1>1, <1>4, LeaveListed
<1> QED
  BY <1>1, <1>2, <1>3, <1>4

\* JobQueue::insert, of a job that still names its old queue.
LEMMA InsertCall ==
    ASSUME IInv, LInv, CallInsert
    PROVE  \E j \in alive, q \in Queues, after \in Jobs \cup {NoJob}, list \in Seq(Jobs) :
               /\ Home({}) /\ "delGroup" \notin Events /\ Unlisted(j)
               /\ Head(calls) = Insert(j, q, after)
               /\ calls' = <<OnQueue("update", q)>> \o <<AssignQueue(j, q)>>
               /\ Once(list) /\ ToSet(list) = Listed(q) \cup {j} /\ Relist(q, list)
<1>1. Calling("insert") /\ Home({}) /\ Inserting(calls)
  BY TouchingCall, PendingOp DEF CallInsert, Calling, Touching
<1>2. PICK j \in alive, q \in Queues, after \in Jobs \cup {NoJob} :
          /\ calls = <<Insert(j, q, after), AssignQueue(j, q)>> /\ Unlisted(j)
          /\ "delGroup" \notin Events
  BY <1>1 DEF Inserting
<1>3. Head(calls) = Insert(j, q, after) /\ Tail(calls) = <<AssignQueue(j, q)>>
  BY <1>2, LastCalls
<1>4. Head(calls).job = j /\ Head(calls).queue = q /\ Head(calls).after = after
  BY <1>3 DEF Insert
<1> DEFINE list == InsertAfter(jobs[q], j, after)
<1>5. Relist(q, list) /\ calls' = <<OnQueue("update", q)>> \o <<AssignQueue(j, q)>>
  BY <1>3, <1>4 DEF CallInsert, Call, Return
<1>6. list \in Seq(Jobs) /\ Once(list) /\ ToSet(list) = Listed(q) \cup {j}
  <2>1. jobs[q] \in Seq(Jobs) /\ Once(jobs[q]) /\ j \in Jobs /\ j \notin ToSet(jobs[q])
    BY <1>2 DEF IInv, DataOK, JobTypeOK, QueueTypeOK, LInv, ListsOK, Unlisted, Listed
  <2> QED
    BY <2>1, InsertOnce DEF Listed
<1> HIDE DEF list
<1> QED
  BY <1>1, <1>2, <1>3, <1>5, <1>6

\* The call that inserts a moved transfer keeps the lists' invariant.
LEMMA InsertListed == IInv /\ LInv /\ CallInsert => LInv'
<1> SUFFICES ASSUME IInv, LInv, CallInsert PROVE LInv'
  OBVIOUS
<1>1. PICK j \in alive, q \in Queues, list \in Seq(Jobs) :
          /\ Home({}) /\ "delGroup" \notin Events /\ Unlisted(j)
          /\ calls' = <<OnQueue("update", q)>> \o <<AssignQueue(j, q)>>
          /\ Once(list) /\ ToSet(list) = Listed(q) \cup {j} /\ Relist(q, list)
  BY InsertCall
<1>2. /\ ListsOK' /\ UNCHANGED <<alive, jobQueue, owner>>
      /\ Home({j})' /\ \A p \in Queues \ {q} : j \notin Listed(p)'
  BY <1>1, Enlisted
<1>3. Pending(<<AssignQueue(j, q)>>)'
  BY <1>1, <1>2 DEF Pending, Assigning
<1>4. <<AssignQueue(j, q)>> \in Seq(Calls)
  BY ShortSeq DEF AssignQueue, Calls, IInv, DataOK, JobTypeOK
<1>5. CallsOK'
  BY <1>1, <1>3, <1>4, UpdateThen
<1> QED
  BY <1>2, <1>5 DEF LInv, OwnersOK

\* Job::setQueue: each listed job names its queue again.
LEMMA AssignCall ==
    ASSUME IInv, LInv, CallSetJobQueue
    PROVE  \E j \in alive, q \in Queues :
               /\ "delGroup" \notin Events
               /\ Home({j}) /\ \A p \in Queues \ {q} : j \notin Listed(p)
               /\ calls = <<AssignQueue(j, q)>> /\ calls' = <<>>
               /\ jobQueue' = [jobQueue EXCEPT ![j] = q] /\ UNCHANGED <<alive, owner, jobs, queues>>
<1>1. Calling("setJobQueue") /\ Assigning(calls)
  BY TouchingCall, PendingOp DEF CallSetJobQueue, Calling, Touching
<1>2. PICK j \in alive, q \in Queues :
          /\ calls = <<AssignQueue(j, q)>> /\ "delGroup" \notin Events
          /\ Home({j}) /\ \A p \in Queues \ {q} : j \notin Listed(p)
  BY <1>1 DEF Assigning
<1>3. Head(calls) = AssignQueue(j, q) /\ Tail(calls) = <<>>
  BY <1>2, LastCalls
<1>4. Head(calls).job = j /\ Head(calls).queue = q
  BY <1>3 DEF AssignQueue
<1>5. <<>> \o <<>> = <<>>
  OBVIOUS
<1>6. /\ jobQueue' = [jobQueue EXCEPT ![j] = q] /\ calls' = <<>>
      /\ UNCHANGED <<alive, owner, jobs, queues>>
  BY <1>3, <1>4, <1>5 DEF CallSetJobQueue, Call, Return, queueVars
<1> QED
  BY <1>2, <1>6

\* Job::setJobQueue keeps the lists' invariant: the job then names the list it is in.
LEMMA AssignListed == IInv /\ LInv /\ CallSetJobQueue => LInv'
<1> SUFFICES ASSUME IInv, LInv, CallSetJobQueue PROVE LInv'
  OBVIOUS
<1>1. PICK j \in alive, q \in Queues :
          /\ "delGroup" \notin Events /\ Home({j})
          /\ \A p \in Queues \ {q} : j \notin Listed(p)
          /\ jobQueue' = [jobQueue EXCEPT ![j] = q] /\ calls' = <<>>
          /\ UNCHANGED <<alive, owner, jobs>>
  BY AssignCall
<1>2. ListsOK' /\ OwnersOK'
  BY <1>1 DEF LInv, ListsOK, OwnersOK, Listed
<1>3. Home({})'
  <2>1. alive \subseteq Jobs /\ jobQueue \in [Jobs -> Queues] /\ jobs \in [Queues -> Seq(Jobs)]
    BY DEF IInv, DataOK, JobTypeOK, QueueTypeOK
  <2>2. ASSUME NEW p \in Queues, NEW k \in Listed(p) PROVE jobQueue'[k] = p
    <3>1. k \in alive
      BY <2>2 DEF LInv, ListsOK
    <3> QED
      BY <1>1, <2>1, <2>2, <3>1 DEF Home
  <2> QED
    BY <1>1, <2>2 DEF Home, Listed
<1>4. CallsOK'
  BY <1>1, <1>3, ShortSeq DEF CallsOK
<1> QED
  BY <1>2, <1>4 DEF LInv

\* Every call of a handler.
LEMMA HandlerCallListed == IInv /\ LInv /\ HandlerCall => LInv'
BY JobCallsListed, HandlerCallsListed, AppendListed, RemoveListed, DestroyListed, MoveListed,
   InsertListed, AssignListed DEF HandlerCall

-----------------------------------------------------------------------------
(* The events.                                                             *)

\* In the event loop no list is about to change.
LEMMA IdleHome ==
    ASSUME IInv, LInv, handler = "none"
    PROVE  Home({})
<1>1. calls = <<>>
  BY DEF IInv, StateOK, HandlerOK
<1>2. ASSUME NEW above \in Seq(Modest), NEW rest \in Seq(Calls), calls = above \o rest, Pending(rest)
      PROVE  FALSE
  <2>1. above \in Seq(Calls)
    BY ModestCalls
  <2>2. Len(above \o rest) = Len(above) + Len(rest) /\ Len(above) \in Nat /\ Len(rest) \in Nat
    BY <2>1, ConcatProperties, LenProperties
  <2>3. Len(above \o rest) = 0
    BY <1>1, <1>2
  <2>4. rest = <<>>
    BY <2>2, <2>3, EmptySeq
  <2> QED
    BY <1>2, <2>4, PendingHead
<1> QED
  BY <1>2 DEF LInv, CallsOK

\* An event whose handler changes no list, nor will.
LEMMA OrdinaryEvent ==
    ASSUME IInv, LInv, NEW event, NEW todo \in Seq(Ordinary), Handle(event, todo),
           UNCHANGED <<alive, jobQueue, owner, jobs>>
    PROVE  LInv'
<1>1. calls' = todo /\ Home({})
  BY IdleHome DEF Handle
<1>2. ListsOK' /\ OwnersOK' /\ Home({})' /\ Ordinary' = Ordinary
  BY <1>1 DEF LInv, ListsOK, OwnersOK, Listed, Home, Ordinary
<1> QED
  BY <1>1, <1>2 DEF LInv, CallsOK

\* An event whose handler is to change one.
LEMMA ChangingEvent ==
    ASSUME ListsOK', OwnersOK', NEW event, NEW above \in Seq(Modest), NEW rest \in Seq(Calls),
           Handle(event, above \o rest), Pending(rest)'
    PROVE  LInv'
<1>1. calls' = above \o rest /\ Modest' = Modest
  BY DEF Handle, Modest
<1> QED
  BY <1>1 DEF LInv, CallsOK

\* Starting and stopping, of one transfer, of several, of groups and of all.
LEMMA CommandsListed ==
    ASSUME IInv, LInv,
           \/ \E j \in Jobs : UserStart(j) \/ UserStop(j)
           \/ \E s \in Selections("handlerStart", "queueStart") : StartSelected(s)
           \/ \E s \in Selections("handlerStop", "queueStop") : StopSelected(s)
           \/ \E q \in Queues : GroupStart(q) \/ GroupStop(q)
           \/ StartAll \/ StopAll
           \/ \E b \in BOOLEAN : SetOfflineMode(b)
    PROVE  LInv'
<1>0. /\ alive \subseteq Jobs /\ jobs \in [Queues -> Seq(Jobs)] /\ queues \in Seq(Queues)
      /\ ToSet(queues) \subseteq Queues
  BY LenProperties DEF IInv, DataOK, JobTypeOK, QueueTypeOK, ToSet
<1>1. ASSUME NEW event, NEW todo \in Seq(Ordinary), Event(event, todo) PROVE LInv'
  BY <1>1, OrdinaryEvent DEF Event, jobVars, queueVars
<1>2. ASSUME NEW j \in Jobs, UserStart(j) \/ UserStop(j) PROVE LInv'
  <2>1. j \in alive
    BY <1>2 DEF UserStart, UserStop
  <2>2. OnJob("handlerStart", j) \in Ordinary /\ OnJob("handlerStop", j) \in Ordinary
    BY <2>1, OrdinaryCalls DEF JobOps
  <2>3. <<OnJob("handlerStart", j)>> \in Seq(Ordinary) /\ <<OnJob("handlerStop", j)>> \in Seq(Ordinary)
    BY <2>2, ShortSeq
  <2> QED
    BY <1>1, <1>2, <2>3 DEF UserStart, UserStop
<1>3. ASSUME NEW s \in Seq(Ordinary)
      PROVE  <<SetSuspended(TRUE)>> \o s \o <<SetSuspended(FALSE)>> \in Seq(Ordinary)
  <2>1. <<SetSuspended(TRUE)>> \in Seq(Ordinary) /\ <<SetSuspended(FALSE)>> \in Seq(Ordinary)
    BY OrdinaryCalls, ShortSeq
  <2> QED
    BY <2>1, ConcatProperties
<1>4. ASSUME NEW s \in Selections("handlerStart", "queueStart") PROVE s \in Seq(Ordinary)
  <2>1. CASE \E j \in alive : s = <<OnJob("handlerStart", j)>>
    BY <2>1, OrdinaryCalls, ShortSeq
  <2>2. CASE \E q \in ToSet(queues) : s = ForJobs("handlerStart", jobs[q])
    <3>1. PICK q \in Queues : s = ForJobs("handlerStart", jobs[q])
      BY <1>0, <2>2
    <3>2. jobs[q] \in Seq(Jobs) /\ ToSet(jobs[q]) \subseteq alive
      BY <1>0 DEF LInv, ListsOK, Listed
    <3>3. \A i \in 1..Len(jobs[q]) : jobs[q][i] \in alive
      BY <3>2, LenProperties DEF ToSet
    <3>4. jobs[q] \in Seq(alive)
      BY <3>2, <3>3, LenProperties
    <3> QED
      BY <3>1, <3>4, OrdinaryLists
  <2>3. CASE \E q \in ToSet(queues) : s = <<OnQueue("queueStart", q)>>
    BY <1>0, <2>3, OrdinaryCalls, ShortSeq DEF QueueOps
  <2> QED
    BY <2>1, <2>2, <2>3 DEF Selections
<1>5. ASSUME NEW s \in Selections("handlerStop", "queueStop") PROVE s \in Seq(Ordinary)
  <2>1. CASE \E j \in alive : s = <<OnJob("handlerStop", j)>>
    BY <1>0, <2>1, OrdinaryCalls, ShortSeq DEF JobOps
  <2>2. CASE \E q \in ToSet(queues) : s = ForJobs("handlerStop", jobs[q])
    BY <1>0, <2>2, OrdinaryLists DEF JobOps
  <2>3. CASE \E q \in ToSet(queues) : s = <<OnQueue("queueStop", q)>>
    BY <1>0, <2>3, OrdinaryCalls, ShortSeq DEF QueueOps
  <2> QED
    BY <2>1, <2>2, <2>3 DEF Selections
<1>6. ASSUME NEW q \in Queues, GroupStart(q) \/ GroupStop(q) PROVE LInv'
  <2>1. <<OnQueue("queueStart", q)>> \in Seq(Ordinary) /\ <<OnQueue("queueStop", q)>> \in Seq(Ordinary)
    BY OrdinaryCalls, ShortSeq DEF QueueOps
  <2> QED
    BY <1>1, <1>6, <2>1 DEF GroupStart, GroupStop
<1>7. /\ \A b \in BOOLEAN : SchedulerRunning(b) \in Seq(Ordinary)
      /\ ForQueues("stopHandlers") \in Seq(Ordinary)
  BY OrdinaryLists, ConcatProperties, ShortSeq DEF SchedulerRunning, QueueOps
<1>8. ASSUME StartAll \/ StopAll PROVE LInv'
  BY <1>1, <1>7, <1>8, ConcatProperties DEF StartAll, StopAll
<1>9. ASSUME NEW b \in BOOLEAN, SetOfflineMode(b) PROVE LInv'
  BY <1>1, <1>7, <1>9 DEF SetOfflineMode
<1> QED
  BY <1>1, <1>2, <1>3, <1>4, <1>5, <1>6, <1>8, <1>9 DEF StartSelected, StopSelected

\* The events of the plug-ins' workers.
LEMMA WorkerEventsListed ==
    ASSUME IInv, LInv, NEW j \in Jobs, WorkerEvent(j) \/ NewDestination(j) \/ Repair(j)
    PROVE  LInv'
<1>1. /\ \A s \in Statuses : SetStatusTo(j, s) \in Ordinary
      /\ \A op \in {"start", "stop", "slotResultEnd"} : OnJob(op, j) \in Ordinary
      /\ \A b \in BOOLEAN : SetSpeed(j, b) \in Ordinary
      /\ [op |-> "setErrorType", job |-> j, type |-> "NotSolveable"] \in Ordinary
  BY OrdinaryCalls DEF JobOps, ErrorTypes
<1>2. ASSUME NEW event, NEW todo \in Seq(Ordinary), Handle(event, todo),
             UNCHANGED <<jobVars, queueVars>>
      PROVE  LInv'
  BY <1>2, OrdinaryEvent DEF jobVars, queueVars
<1>3. ASSUME Data(j) PROVE LInv'
  <2>1. <<SetStatusTo(j, "Running")>> \in Seq(Ordinary)
    BY <1>1, ShortSeq DEF Statuses
  <2> QED
    BY <1>2, <1>3, <2>1 DEF Data, Event
<1>4. ASSUME NEW b \in BOOLEAN, Speed(j, b) PROVE LInv'
  <2> DEFINE now == IF status[j] # "Running" /\ moving[j] THEN "Moving" ELSE "Running"
             works == b /\ status[j] = "Running"
  <2>1. now \in Statuses /\ works \in BOOLEAN
    BY DEF Statuses
  <2>2. Event("speed", <<SetStatusTo(j, now), SetSpeed(j, b)>>) \/ Event("speed", <<SetSpeed(j, works)>>)
    BY <1>4 DEF Speed
  <2> HIDE DEF now, works
  <2>3. <<SetStatusTo(j, now), SetSpeed(j, b)>> \in Seq(Ordinary) /\ <<SetSpeed(j, works)>> \in Seq(Ordinary)
    BY <1>1, <2>1, ShortSeq
  <2> QED
    BY <1>2, <2>2, <2>3 DEF Event
<1>5. ASSUME Result(j) \/ Error(j) \/ StatResult(j) PROVE LInv'
  <2>1. \A s \in Statuses : /\ <<SetStatusTo(j, s)>> \in Seq(Ordinary)
                            /\ <<SetStatusTo(j, s), OnJob("slotResultEnd", j)>> \in Seq(Ordinary)
    BY <1>1, ShortSeq
  <2>2. PICK s \in Statuses : /\ \/ Handle("result", <<SetStatusTo(j, s), OnJob("slotResultEnd", j)>>)
                                 \/ Handle("error", <<SetStatusTo(j, s), OnJob("slotResultEnd", j)>>)
                                 \/ Handle("statResult", <<SetStatusTo(j, s)>>)
                              /\ UNCHANGED <<jobVars, queueVars>>
    BY <1>5 DEF Result, Error, StatResult, Event, Statuses
  <2> QED
    BY <1>2, <2>1, <2>2
<1>6. ASSUME NewDestination(j) \/ NewDestResult(j) \/ Repair(j) PROVE LInv'
  <2>1. /\ <<OnJob("stop", j), SetStatusTo(j, "Moving")>> \in Seq(Ordinary)
        /\ <<OnJob("start", j)>> \in Seq(Ordinary)
    BY <1>1, ShortSeq DEF Statuses
  <2> QED
    BY <1>2, <1>6, <2>1 DEF NewDestination, NewDestResult, Repair
<1>7. ASSUME BrokenUrl(j) \/ ConnectionsErrors(j) PROVE LInv'
  <2>1. /\ <<SetStatusTo(j, "Aborted"), [op |-> "setErrorType", job |-> j, type |-> "NotSolveable"]>>
           \in Seq(Ordinary)
        /\ <<OnJob("stop", j)>> \in Seq(Ordinary)
    BY <1>1, ShortSeq DEF Statuses
  <2> QED
    BY <1>2, <1>7, <2>1 DEF BrokenUrl, ConnectionsErrors, Event
<1>8. ASSUME NEW b \in BOOLEAN, MmsResult(j, b) PROVE LInv'
  <2> DEFINE finish == IF b THEN <<SetStatusTo(j, "Finished")>> ELSE <<>>
             restart == IF retry[j] THEN <<OnJob("start", j)>> ELSE <<>>
  <2>1. finish \in Seq(Ordinary) /\ restart \in Seq(Ordinary)
    BY <1>1, ShortSeq DEF Statuses
  <2>2. Handle("mmsResult", finish \o restart) /\ UNCHANGED <<jobVars, queueVars>>
    BY <1>8 DEF MmsResult
  <2> HIDE DEF finish, restart
  <2> QED
    BY <1>2, <2>1, <2>2, ConcatProperties
<1> QED
  BY <1>3, <1>4, <1>5, <1>6, <1>7, <1>8 DEF WorkerEvent

\* The network, the timer, the settings and a new group.
LEMMA SystemEventsListed ==
    ASSUME IInv, LInv,
           \/ TimerEvent \/ \E b \in BOOLEAN : Network(b)
           \/ \E n \in ConnectionLimits : SettingsChanged(n)
           \/ \E q \in Queues : AddGroup(q)
    PROVE  LInv'
<1>1. /\ <<>> \in Seq(Ordinary)
      /\ \A op \in {"update", "stopJobs", "checkJobs"} : ForQueues(op) \in Seq(Ordinary)
  BY OrdinaryLists, ShortSeq DEF QueueOps
<1>2. PICK event \in {"timer", "network", "settings", "addGroup"},
           todo \in {ForQueues("update"), ForQueues("stopJobs"), ForQueues("checkJobs"), <<>>} :
          Handle(event, todo) /\ UNCHANGED <<alive, jobQueue, owner, jobs>>
  BY DEF TimerEvent, Event, Network, SettingsChanged, AddGroup, jobVars, queueVars
<1> QED
  BY <1>1, <1>2, OrdinaryEvent

\* KGet::createTransfers: the transfer is in no list before it is appended.
LEMMA AddListed ==
    ASSUME IInv, LInv, NEW j \in Jobs, NEW q \in Queues, NEW s \in Statuses, NEW p \in Policies,
           NEW start \in BOOLEAN, Add(j, q, s, p, start)
    PROVE  LInv'
<1> DEFINE above == <<SetStatusTo(j, s), SetPolicy(j, p)>>
           more == IF start THEN <<OnJob("handlerStart", j)>> ELSE <<>>
           rest == <<AppendTo(j, q)>> \o more
<1>1. /\ alive' = alive \cup {j} /\ jobQueue' = [jobQueue EXCEPT ![j] = q]
      /\ owner' = [owner EXCEPT ![j] = q] /\ jobs' = jobs
      /\ handler = "none" /\ j \notin alive
      /\ calls' = <<SetStatusTo(j, s), SetPolicy(j, p), AppendTo(j, q)>> \o more
  BY DEF Add, Handle, AppendTo, queueVars
<1>2. alive \subseteq Jobs /\ jobQueue \in [Jobs -> Queues] /\ owner \in [Jobs -> Queues]
  BY DEF IInv, DataOK, JobTypeOK
<1>3. Home({}) /\ \A k \in Queues : Listed(k) \subseteq alive /\ Listed(k)' = Listed(k)
  BY <1>1, IdleHome DEF LInv, ListsOK, Listed
<1>4. ListsOK' /\ OwnersOK'
  BY <1>1, <1>2, <1>3 DEF LInv, ListsOK, OwnersOK
<1>5. Home({})' /\ Unlisted(j)' /\ j \in alive' /\ jobQueue'[j] = q
  BY <1>1, <1>2, <1>3 DEF Home, Unlisted
<1>6. OnJob("handlerStart", j) \in Calls /\ AppendTo(j, q) \in Calls
  BY DEF OnJob, AppendTo, Calls, JobOps
<1>7. OnJob("handlerStart", j) \in Ordinary'
  BY <1>5, <1>6 DEF Ordinary, Touching, OnJob
<1>8. more \in Seq(Ordinary') /\ more \in Seq(Calls) /\ <<AppendTo(j, q)>> \in Seq(Calls)
  BY <1>6, <1>7, ShortSeq
<1> HIDE DEF more
<1>9. above \in Seq(Modest) /\ rest \in Seq(Calls) /\ Modest' = Modest
  BY <1>8, ModestCalls, ShortSeq, ConcatProperties DEF Modest
<1>10. calls' = above \o rest
  <2>1. \A a, b, c : <<a, b, c>> = <<a, b>> \o <<c>>
    OBVIOUS
  <2>2. (above \o <<AppendTo(j, q)>>) \o more = above \o (<<AppendTo(j, q)>> \o more)
    <3>1. above \in Seq(Calls) /\ <<AppendTo(j, q)>> \in Seq(Calls) /\ more \in Seq(Calls)
      BY <1>8, <1>9, ModestCalls
    <3> QED
      BY ONLY <3>1, RegroupCalls
  <2> QED
    BY <1>1, <2>1, <2>2
<1>11. \E m \in Seq(Ordinary') : rest = <<AppendTo(j, q)>> \o m
  BY <1>8
<1> HIDE DEF rest, above
<1>12. Pending(rest)'
  BY <1>5, <1>11 DEF Pending, Adding
<1> QED
  BY <1>4, <1>9, <1>10, <1>12 DEF LInv, CallsOK

\* Two calls are one and another.
LEMMA Pair == \A a, b : <<a>> \o <<b>> = <<a, b>>
<1> SUFFICES ASSUME NEW a, NEW b PROVE <<a>> \o <<b>> = <<a, b>>
  OBVIOUS
<1>1. <<a>> \in Seq({a, b}) /\ <<b>> \in Seq({a, b}) /\ <<a, b>> \in Seq({a, b})
  OBVIOUS
<1> DEFINE s == <<a>> \o <<b>>
<1>2. s \in Seq({a, b}) /\ Len(s) = 2 /\ s[1] = a /\ s[2] = b
  BY <1>1, ConcatProperties
<1> DEFINE t == <<a, b>>
<1>3. t \in Seq({a, b}) /\ Len(t) = 2 /\ t[1] = a /\ t[2] = b
  OBVIOUS
<1> HIDE DEF s, t
<1>4. s = t
  BY <1>2, <1>3, SeqEqual
<1> QED
  BY <1>4 DEF s, t

\* Deleting a transfer, moving one, deleting a group with its transfers.
LEMMA ChangesListed ==
    ASSUME IInv, LInv, GroupsKept,
           \/ \E j \in Jobs : Delete(j)
           \/ \E j \in Jobs, q \in Queues, after \in Jobs \cup {NoJob} : Move(j, q, after)
           \/ \E q \in Queues : DelGroup(q)
    PROVE  LInv'
<1>0. <<>> \in Seq(Modest) /\ alive \subseteq Jobs
  BY ShortSeq DEF IInv, DataOK, JobTypeOK
<1>1. ASSUME NEW event, NEW rest \in Seq(Calls), Event(event, rest),
             Home({}) => Pending(rest)'
      PROVE  LInv'
  <2>1. UNCHANGED <<alive, jobQueue, owner, jobs>> /\ Handle(event, rest) /\ Home({})
    BY <1>1, IdleHome DEF Event, Handle, jobVars, queueVars
  <2>2. ListsOK' /\ OwnersOK'
    BY <2>1 DEF LInv, ListsOK, OwnersOK, Listed
  <2>3. <<>> \o rest = rest
    BY ConcatEmptySeq
  <2> QED
    BY <1>0, <1>1, <2>1, <2>2, <2>3, ChangingEvent
<1>2. ASSUME NEW j \in Jobs, Delete(j) PROVE LInv'
  <2> DEFINE rest == <<OnJob("remove", j), OnJob("destroy", j)>>
  <2>1. Event("delete", rest)
    BY <1>2 DEF Delete
  <2>2. UNCHANGED <<jobQueue, jobs>>
    BY <2>1 DEF Event, jobVars, queueVars
  <2>3. Home({}) => Pending(rest)'
    BY <2>2 DEF Pending, Deleting, Home, Listed
  <2>4. rest \in Seq(Calls)
    BY ShortSeq DEF OnJob, Calls, JobOps
  <2> HIDE DEF rest
  <2> QED
    BY <1>1, <2>1, <2>3, <2>4
<1>3. ASSUME NEW j \in Jobs, NEW q \in Queues, NEW after \in Jobs \cup {NoJob}, Move(j, q, after)
      PROVE  LInv'
  <2> DEFINE rest == <<MoveTransfer(j, q, after)>>
  <2>1. j \in alive /\ \/ q = jobQueue[j] /\ Event("move", rest)
                       \/ q # jobQueue[j] /\ Event("moveToGroup", rest)
    BY <1>3 DEF Move
  <2>2. UNCHANGED <<alive, jobQueue, jobs>>
    BY <2>1 DEF Event, jobVars, queueVars
  <2>3. "delGroup" \in Events => q = jobQueue[j]
    BY <2>1 DEF GroupsKept, Event, Handle
  <2>4. Moving(rest)'
    BY <2>1, <2>2, <2>3 DEF Moving
  <2>5. Home({}) => Pending(rest)'
    BY <2>2, <2>4 DEF Pending, Home, Listed
  <2>6. rest \in Seq(Calls)
    BY ShortSeq DEF MoveTransfer, Calls
  <2> HIDE DEF rest
  <2> QED
    BY <1>1, <2>1, <2>5, <2>6
<1>4. ASSUME NEW q \in Queues, DelGroup(q) PROVE LInv'
  <2> DEFINE above == <<OnQueue("update", q)>>
             rest == <<OnQueue("delQueue", q)>>
  <2>1. /\ Handle("delGroup", <<OnQueue("update", q), OnQueue("delQueue", q)>>)
        /\ jobs' = [jobs EXCEPT ![q] = <<>>] /\ UNCHANGED <<alive, jobQueue, owner>>
    BY <1>4 DEF DelGroup, jobVars
  <2>2. handler = "none" /\ "delGroup" \in Events
    BY <2>1 DEF Handle
  <2>3. above \o rest = <<OnQueue("update", q), OnQueue("delQueue", q)>>
    BY Pair
  <2>4. Handle("delGroup", above \o rest)
    BY <2>1, <2>3
  <2>5. jobs'[q] = <<>> /\ \A p \in Queues \ {q} : jobs'[p] = jobs[p]
    BY <2>1 DEF IInv, DataOK, QueueTypeOK
  <2>6. Home({})
    BY <2>2, IdleHome
  <2>7. ListsOK' /\ OwnersOK' /\ Home({})'
    BY <2>1, <2>5, <2>6 DEF LInv, ListsOK, OwnersOK, Listed, Home, Once, ToSet
  <2>8. above \in Seq(Modest) /\ rest \in Seq(Calls)
    BY ModestCalls, ShortSeq DEF OnQueue, Calls, QueueOps
  <2>9. Pending(rest)'
    BY <2>2, <2>5, <2>7 DEF Pending, Ungrouping
  <2> HIDE DEF above, rest
  <2> QED
    BY <2>4, <2>7, <2>8, <2>9, ChangingEvent
<1> QED
  BY <1>2, <1>3, <1>4

-----------------------------------------------------------------------------
(* The theorems.                                                           *)

\* A restored list holds each transfer once, in the group that it names.
LEMMA InitListed == IInv /\ Init => LInv
<1> SUFFICES ASSUME IInv, Init PROVE LInv
  OBVIOUS
<1>1. jobs = Restored /\ alive = RestoredJobs /\ jobQueue = owner
  BY DEF Init
<1>2. ASSUME NEW q \in Queues, NEW j \in Listed(q) PROVE j \in alive /\ jobQueue[j] = q
  <2>1. Restored[q] \in Seq(Jobs) /\ j \in ToSet(Restored[q])
    BY <1>1, SchedulerAssumption DEF Listed
  <2>2. j \in Jobs /\ j \in RestoredJobs
    BY <2>1, LenProperties DEF RestoredJobs, ToSet
  <2>3. GroupOf(j) \in Queues /\ j \in ToSet(Restored[GroupOf(j)])
    BY <2>1, <2>2 DEF GroupOf
  <2>4. GroupOf(j) = q
    BY <2>1, <2>3, SchedulerAssumption DEF ToSet
  <2> QED
    BY <1>1, <2>2, <2>4 DEF Init
<1>3. ListsOK
  <2>1. \A q \in Queues : Once(jobs[q])
    BY <1>1, SchedulerAssumption DEF Once
  <2> QED
    BY <1>2, <2>1 DEF ListsOK
<1>4. Home({})
  BY <1>2 DEF Home
<1>5. calls \in Seq(Ordinary)
  BY OrdinaryLists DEF Init, QueueOps
<1> QED
  BY <1>1, <1>3, <1>4, <1>5 DEF LInv, OwnersOK, CallsOK

\* The loop of updateQueue, and what changes nothing, leave lists and calls alone.
LEMMA SameListed ==
    ASSUME LInv, UpdateLoop \/ UNCHANGED vars
    PROVE  LInv'
<1>1. UNCHANGED <<alive, jobQueue, owner, jobs, calls>>
  BY DEF UpdateLoop, KeepRunning, StopUnwanted, StartWanted, LeaveStopped, StopOverLimit,
         UpdateDone, NextJob, jobVars, queueVars, vars
<1>2. ListsOK' /\ OwnersOK' /\ (\A but : Home(but)' <=> Home(but)) /\ Ordinary' = Ordinary
  BY <1>1 DEF LInv, ListsOK, OwnersOK, Listed, Home, Ordinary
<1>4. CallsOK'
  <2>1. Modest' = Modest
    BY DEF Modest
  <2> QED
    BY <1>1, <1>2, <2>1, PendingKept DEF LInv, CallsOK
<1> QED
  BY <1>2, <1>4 DEF LInv

\* Every step of the specification keeps the invariant of the lists.
LEMMA NextListed == GroupsKept /\ IInv /\ LInv /\ [Next]_vars => LInv'
<1> SUFFICES ASSUME GroupsKept, IInv, LInv, [Next]_vars PROVE LInv'
  OBVIOUS
<1>1. CASE UpdateLoop \/ UNCHANGED vars
  BY <1>1, SameListed
<1>2. CASE HandlerCall
  BY <1>2, HandlerCallListed
<1>3. CASE UserEvent
  BY <1>3, CommandsListed, WorkerEventsListed, SystemEventsListed, AddListed, ChangesListed
     DEF UserEvent
<1>4. CASE \E j \in Jobs : WorkerEvent(j)
  BY <1>4, WorkerEventsListed
<1>5. CASE TimerEvent \/ \E b \in BOOLEAN : Network(b)
  BY <1>5, SystemEventsListed
<1> QED
  BY <1>1, <1>2, <1>3, <1>4, <1>5 DEF Next

\* Each transfer is at most once in at most one list while its handlers run, but
\* for the instant at which a moved one still names its old queue; and that one
\* is in one list too.
LEMMA ListedFact == IInv /\ LInv => JobsListedOnce
<1> SUFFICES ASSUME IInv, LInv,
                    NEW q1 \in Queues, NEW q2 \in Queues,
                    NEW i \in DOMAIN jobs[q1], NEW k \in DOMAIN jobs[q2], jobs[q1][i] = jobs[q2][k]
             PROVE  q1 = q2 /\ i = k
  BY DEF JobsListedOnce
<1>1. PICK j : j = jobs[q1][i] /\ j \in Listed(q1) /\ j \in Listed(q2)
  BY DEF Listed, ToSet
<1>2. ASSUME NEW rest, Pending(rest) PROVE Home({}) \/ Assigning(rest)
  BY <1>2 DEF Pending
<1>3. Home({}) \/ \E rest : Assigning(rest)
  BY <1>2 DEF LInv, CallsOK
<1>4. q1 = q2
  <2>1. CASE Home({})
    BY <1>1, <2>1 DEF Home
  <2>2. ASSUME NEW rest, Assigning(rest) PROVE q1 = q2
    <3>1. PICK m \in alive, q \in Queues :
              Home({m}) /\ \A p \in Queues \ {q} : m \notin Listed(p)
      BY <2>2 DEF Assigning
    <3>2. CASE j = m
      BY <1>1, <3>1, <3>2
    <3>3. CASE j # m
      BY <1>1, <3>1, <3>3 DEF Home
    <3> QED
      BY <3>2, <3>3
  <2> QED
    BY <1>3, <2>1, <2>2
<1>5. i = k
  BY <1>4 DEF LInv, ListsOK, Once
<1> QED
  BY <1>4, <1>5

\* No transfer is listed twice (JobQueue::append, insert and remove, and
\* TransferTreeModel::moveTransfer): unless transfers are moved between groups and
\* groups are deleted too.
THEOREM ListedOnce == GroupsKept => (Spec => []JobsListedOnce)
<1> SUFFICES ASSUME GroupsKept PROVE Spec => []JobsListedOnce
  OBVIOUS
<1>1. IInv /\ Init => LInv
  BY InitListed
<1>2. IInv /\ LInv /\ [Next]_vars => LInv'
  BY NextListed
<1>3. IInv /\ LInv => JobsListedOnce
  BY ListedFact
<1> QED
  BY <1>1, <1>2, <1>3, Invariance, PTL DEF Spec

\* So updateQueue allocates the slots by list order, whatever state it finds
\* (scheduler.cpp, the loop of updateQueue): nothing is assumed but GroupsKept.
THEOREM AllocationAlways == GroupsKept => (Spec => []UpdateAllocates)
<1> SUFFICES ASSUME GroupsKept PROVE Spec => []UpdateAllocates
  OBVIOUS
<1>1. Spec => []JobsListedOnce
  BY ListedOnce
<1> QED
  BY <1>1, AllocationCorrect, PTL
==============================================================================
