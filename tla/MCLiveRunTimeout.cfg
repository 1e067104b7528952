SPECIFICATION RunSpec
CONSTANTS
    c1 = c1
    SweepCluster <- MCCluster
    Threshold <- MCThreshold
    MaxLog = 3
    MaxFailures = 1
    HardLimit = 2
    BatchSize = 1
INVARIANT TimeoutDrained
CHECK_DEADLOCK FALSE
