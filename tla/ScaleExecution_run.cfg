\* Two nodes, one of them on a localhost list, and a host that may join; two
\* operations, one retry, and two disturbances of any kind.
SPECIFICATION FairSpec
CONSTANTS
    Nodes = {a, b, c}
    Masters = {a, b}
    InitNodes = {a, b}
    Loopback = {b}
    MaxOps = 2
    MaxRetries = 1
    MaxFaults = 2
INVARIANTS TypeOK OneAtATime
PROPERTIES JoinIsReal CleanupFindsStopped OperationEnds ScalesAsPlanned
CHECK_DEADLOCK FALSE
