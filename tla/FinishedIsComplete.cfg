SPECIFICATION Spec
CONSTANTS
    j1 = j1
    j2 = j2
    j3 = j3
    q1 = q1
    q2 = q2
    Jobs = {j1, j2}
    Queues = {q1}
    MmsJobs = {}
    FtpJobs = {j1}
    NoJob = NoJob
    NoQueue = NoQueue
    ConnectionLimits = {1}
    Restored <- TwoJobsRestored
    SavedPolicies = {"None"}
    Events <- FtpOperations
    MaxStats = 0
    MaxMoves = 2
    StallTime = 1
    ReconnectDelay = 2
    ReconnectRetries = 1
    RetryPeriod = 10
INVARIANT FinishedIsComplete
