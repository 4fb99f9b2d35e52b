\* A poll cut off by the shutdown leaves a job locked that nobody runs.
CONSTANTS
    j1 = j1
    j2 = j2
    j3 = j3
    j4 = j4
    Jobs <- MCJobs
    MaxJobs <- MCMaxJobs
SPECIFICATION Spec
INVARIANT HoldsOnlyRunning
CHECK_DEADLOCK FALSE
