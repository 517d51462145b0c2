----------------------------- MODULE JobFailure -----------------------------
(***************************************************************************)
(* The failure automaton of one job: Scheduler::JobFailure and the part of *)
(* Scheduler::timerEvent that computes a job's next failure record from    *)
(* its last one (core/scheduler.h, core/scheduler.cpp).  Pure definitions; *)
(* Scheduler.tla keeps one record per job and calls NextFailure every      *)
(* second.                                                                 *)
(***************************************************************************)
EXTENDS Integers

CONSTANTS
    StallTime,        \* m_stallTime: ticks until a stalled job counts as waiting (5 in the code)
    ReconnectDelay,   \* Settings::reconnectDelay(): m_stallTimeout and m_abortTimeout; the
                      \* settings dialog allows 10 and more
    ReconnectRetries, \* Settings::reconnectRetries()
    RetryPeriod       \* past the retries, only every so many failures count (10 in the code)

ASSUME FailureAssumption ==
    /\ StallTime \in Nat \ {0}
    /\ ReconnectDelay \in Nat /\ ReconnectDelay >= 2
    /\ ReconnectRetries \in Nat
    /\ RetryPeriod \in Nat \ {0}

\* Scheduler::FailureStatus
StallStatuses   == {"AboutToStall", "Stall", "StallTimeout"}
FailureStatuses == {"None", "Abort", "AbortTimeout", "Error"} \cup StallStatuses

JobFailures == [status : FailureStatuses, time : Nat \cup {-1}, count : Nat]

\* JobFailure's default constructor, also what m_failedJobs.value() returns
\* for a job that has no entry.
NoFailure == [status |-> "None", time |-> -1, count |-> 0]

\* JobFailure::isValid
IsValid(f) == f.status # "None" /\ f.time # -1

\* m_failedJobs[job].count grows for ever in the code.  Past the retries only its
\* distance from them modulo RetryPeriod matters (StopsTheJob): it is wrapped there.
Count(n) == IF n > ReconnectRetries + RetryPeriod THEN n - RetryPeriod ELSE n

\* A job that runs but receives nothing.
StalledFailure(f) ==
    LET time == f.time + 1 IN
    IF f.status \notin StallStatuses
    THEN [status |-> "AboutToStall", time |-> 0, count |-> 0]
    ELSE IF time >= StallTime + ReconnectDelay
    THEN [status |-> "StallTimeout", time |-> StallTime, count |-> Count(f.count + 1)]
    ELSE [status |-> IF time >= StallTime THEN "Stall" ELSE "AboutToStall",
          time   |-> time,
          count  |-> f.count]

\* A job in status Aborted.
AbortedFailure(f, errorType) ==
    IF errorType # "AutomaticRetry"
    THEN [f EXCEPT !.status = "Error"]
    ELSE IF f.status # "Abort"
    THEN [status |-> "Abort", time |-> 0, count |-> 0]
    ELSE IF f.time + 1 >= ReconnectDelay
    THEN [status |-> "AbortTimeout", time |-> 0, count |-> Count(f.count + 2)]
    ELSE [status |-> "Abort", time |-> f.time + 1, count |-> Count(f.count + 1)]

\* a mutant: a working job keeps its failure
NextFailureSticks(f, stalled, aborted, errorType, working) ==
    IF stalled THEN StalledFailure(f)
    ELSE IF aborted THEN AbortedFailure(f, errorType)
    ELSE f

\* The body of timerEvent's loop up to the store into m_failedJobs.
NextFailure(f, stalled, aborted, errorType, working) ==
    IF stalled THEN StalledFailure(f)
    ELSE IF aborted THEN AbortedFailure(f, errorType)
    ELSE IF working THEN NoFailure
    ELSE f

\* m_failedJobs[job] = failure, or m_failedJobs.remove(job).
Stored(f) == IF IsValid(f) THEN f ELSE NoFailure

\* Scheduler::updateQueue counts a job with such a record as running, any
\* other one as waiting.
CountsAlways(f) == TRUE \* a mutant: waiting jobs are not told apart
CountsAsRunning(f) == f.status \in {"None", "AboutToStall"}

\* jobChangedEvent(Job *, JobFailure): the timeouts that stop the job, for the
\* queue update to start it again.  Past the retries only one in RetryPeriod does.
StopsTheJob(f) ==
    /\ f.status \in {"StallTimeout", "AbortTimeout"}
    /\ f.count <= ReconnectRetries \/ (f.count - ReconnectRetries) % RetryPeriod = 0
=============================================================================
