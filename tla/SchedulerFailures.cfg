SPECIFICATION FairSpec
CONSTANTS
    j1 = j1
    j2 = j2
    j3 = j3
    q1 = q1
    q2 = q2
    Jobs = {j1, j2, j3}
    Queues = {q1}
    MmsJobs = {}
    FtpJobs = {}
    NoJob = NoJob
    NoQueue = NoQueue
    ConnectionLimits = {1}
    Restored <- ThreeJobsRestored
    SavedPolicies = {"None"}
    Events <- Failures
    MaxStats = 0
    MaxMoves = 2
    StallTime = 2
    ReconnectDelay = 2
    ReconnectRetries = 1
    RetryPeriod = 3
INVARIANT UpdateAllocates
PROPERTY TickRestoresLimit
PROPERTY StalledJobsYield
CHECK_DEADLOCK FALSE
