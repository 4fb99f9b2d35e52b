\* A worker beside other clients: what Run leaves behind, when a job completes,
\* and that locks are given up.
CONSTANTS
    k1 = k1
    WorkJobs <- MCWorkJobs
    Retries = 1
    MaxJobs = 1
    Outcomes <- SuccessOrPanic
    OthersReport <- Failures
SPECIFICATION FairSpec
INVARIANTS
    CleanExit
    CompletedOnlyAfterSuccess
    LocksBounded
PROPERTIES
    LocksRunOutAfterShutdown
    LocksGivenUp
    CancelReachesHandler
\* The worker has returned and the job has ended.
CHECK_DEADLOCK FALSE
