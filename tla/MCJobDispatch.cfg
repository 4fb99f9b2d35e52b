\* Two deliveries under one jobsCtx: what they may never do, what must happen
\* to them, and that dispatch implements Delivery.
CONSTANTS
    j1 = j1
    j2 = j2
    Jobs <- MCJobs
    Outcomes <- MCOutcomes
SPECIFICATION FairSpec
INVARIANTS
    TypeOK
    HeartbeatEndsBeforeReport
    LostLockNotReported
    HeartbeatUntilReturn
PROPERTIES
    NothingSentAfterTimeout
    ImplementsDelivery
    ReturnedDispatchEnds
    TimeoutSilencesHeartbeats
    ConflictCancelsHandler
\* All dispatches end, or the process has crashed.
CHECK_DEADLOCK FALSE
