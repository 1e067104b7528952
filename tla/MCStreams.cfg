SPECIFICATION MCSpec
CONSTANTS
    c1 = c1
    c2 = c2
    Contract <- MCContract
    RequestType <- MCRequestType
    MaxAttempts = 2
    MaxFailures = 3
    MaxGenerations = 2
    MaxConnections = 3
INVARIANT TypeOK
INVARIANT DataAcknowledged
PROPERTY SignalMeansAll
PROPERTY RejectionFinal
PROPERTY AuthenticationEnds
CHECK_DEADLOCK FALSE
