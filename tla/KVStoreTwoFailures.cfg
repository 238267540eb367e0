\* Five nodes and one creation, at node 1.  Two of these may fail at any times
\* around it: 1 and 4, which hold the key, and 5, which is next in line.
CONSTANTS
    EN_GPSZ = 5
    Hash <- FiveHashes
    NumKeys = 1
    KeyHash <- OneKey
    v1 = v1
    Value = {v1}
    NoValue = NoValue
    PastEnd = {0}
    UnsetReplica = {TRUE, FALSE}
    Clients = {1}
    ClientOps = {"CREATE"}
    MaxOps = 1
    Sequential = TRUE
    CanFail = {1, 4, 5}
    MaxFailures = 2
    DetectAfter = 3
    DetectBy = 0
    Returns = FALSE
SPECIFICATION Spec
INVARIANT Survives
