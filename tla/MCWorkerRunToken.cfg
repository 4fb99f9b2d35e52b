\* A poll that waits for the token provider's mutex does not stop.
CONSTANTS
    t1 = t1
    t2 = t2
    TaskTypes <- MCTaskTypes
    MaxJobs = 1
    ConfiguredTimeouts <- MCTimeouts
    DefaultTimeout = 2
    TokenWait = 1
    MaxTime = 5
SPECIFICATION Spec
INVARIANT PollingStopsAtOnce
CHECK_DEADLOCK FALSE
