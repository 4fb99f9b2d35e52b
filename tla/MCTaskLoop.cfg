\* The slots of one task type, its shutdown, and that it is a GracefulPool.
CONSTANTS
    j1 = j1
    j2 = j2
    j3 = j3
    j4 = j4
    Jobs <- MCJobs
    MaxJobs <- MCMaxJobs
SPECIFICATION FairSpec
INVARIANTS
    TypeOK
    SlotsAccounted
    ConcurrencyBound
    ReleaseNeverBlocks
    InflightCounted
    CleanShutdown
PROPERTIES
    PolledJobsAreRun
    FreeSlotIsPolled
    ImplementsPool
\* The loop has returned and every handler has.
CHECK_DEADLOCK FALSE
