SPECIFICATION FairSpec
CONSTANTS
    j1 = j1
    j2 = j2
    j3 = j3
    q1 = q1
    q2 = q2
    Jobs = {j1, j2}
    Queues = {q1, q2}
    MmsJobs = {}
    FtpJobs = {}
    NoJob = NoJob
    NoQueue = NoQueue
    ConnectionLimits = {0, 1}
    Restored <- TwoJobsRestored
    SavedPolicies = {"None"}
    Events <- Commands
    MaxStats = 0
    MaxMoves = 2
    StallTime = 1
    ReconnectDelay = 2
    ReconnectRetries = 1
    RetryPeriod = 10
INVARIANT TypeOK
INVARIANT IdleIsSettled
PROPERTY NoStartWithoutUpdate
PROPERTY EverythingStops
PROPERTY HandlersReturn
