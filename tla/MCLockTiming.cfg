\* Locks kept by heartbeats: short and long ones, with a right and a wrong clock.
CONSTANTS
    MinLock = 8
    MaxLock = 22
    MinInterval = 1
    HbTimeout = 8
    ReportTimeout = 12
    Latency = 1
    Requests <- MCRequests
    Skews <- MCSkews
SPECIFICATION Spec
INVARIANTS
    TypeOK
    LockOutlastsWork
    LossNoticed
\* The report has ended.
CHECK_DEADLOCK FALSE
