\* Variables that JSON cannot encode: the job is never reported.
CONSTANTS
    j1 = j1
    j2 = j2
    Jobs <- MCJobs
    Outcomes <- MCOutcomes
SPECIFICATION Spec
INVARIANT ResultReported
CHECK_DEADLOCK FALSE
