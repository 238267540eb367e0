\* Four nodes, one of which may fail, and three operations one after the other.
CONSTANTS
    EN_GPSZ = 4
    Hash <- FourHashes
    NumKeys = 1
    KeyHash <- OneKey
    v1 = v1
    v2 = v2
    Value = {v1, v2}
    NoValue = NoValue
    PastEnd = {0}
    UnsetReplica = {TRUE, FALSE}
    Clients = {1}
    ClientOps = {"CREATE", "READ", "UPDATE"}
    MaxOps = 3
    Sequential = TRUE
    CanFail = {1, 2, 3, 4}
    MaxFailures = 1
    DetectAfter = 3
    DetectBy = 0
    Returns = FALSE
SPECIFICATION Spec
INVARIANT FreshReads
