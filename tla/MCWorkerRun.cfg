\* Registration, start and the times of the shutdown, for two task types.
CONSTANTS
    t1 = t1
    t2 = t2
    TaskTypes <- MCTaskTypes
    MaxJobs = 1
    ConfiguredTimeouts <- MCTimeouts
    DefaultTimeout = 2
    TokenWait = 1
    MaxTime = 5
SPECIFICATION FairSpec
INVARIANTS
    TypeOK
    RunReturnsInTime
    HandlersGetTheirTime
    RunWaitsForLoops
PROPERTY EveryTypePolled
\* Run has returned and the clock has reached its bound.
CHECK_DEADLOCK FALSE
