\* The report of a delivery that lost its lock settles the next delivery.
CONSTANTS
    k1 = k1
    WorkJobs <- MCWorkJobs
    Retries = 1
    MaxJobs = 2
    Outcomes <- OnlyErrors
    OthersReport = {}
SPECIFICATION Spec
PROPERTY StaleReportNeverApplies
CHECK_DEADLOCK FALSE
