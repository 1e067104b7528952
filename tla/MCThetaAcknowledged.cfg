SPECIFICATION Spec
CONSTANTS
    c1 = c1
    c2 = c2
    Contract <- MCContract
    RequestType <- MCRequestType
    MaxAttempts = 2
    MaxFailures = 3
    MaxGenerations = 2
INVARIANT AcknowledgedSignalled
CHECK_DEADLOCK FALSE
