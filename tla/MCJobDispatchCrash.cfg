\* A handler that returns a nil *BpmnError ends the process.
CONSTANTS
    j1 = j1
    j2 = j2
    Jobs <- MCJobs
    Outcomes <- MCOutcomes
SPECIFICATION Spec
INVARIANT NeverCrashes
CHECK_DEADLOCK FALSE
