SPECIFICATION Spec
CONSTANTS
    c1 = c1
    SweepCluster <- MCCluster
    Threshold <- MCThreshold
    MaxLog = 3
    MaxFailures = 1
    HardLimit = 2
    BatchSize = 2
INVARIANT RecordsKept
INVARIANT JoinCountsWork
INVARIANT ProjectionCurrent
PROPERTY ImplementsAuditLog
PROPERTY AcceptedBecomeDurable
CHECK_DEADLOCK FALSE
