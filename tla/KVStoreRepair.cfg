\* Four nodes, one of which may fail before, during or after a creation.
CONSTANTS
    EN_GPSZ = 4
    Hash <- FourHashes
    NumKeys = 1
    KeyHash <- OneKey
    v1 = v1
    Value = {v1}
    NoValue = NoValue
    PastEnd = {0}
    UnsetReplica = {TRUE, FALSE}
    Clients = {1}
    ClientOps = {"CREATE"}
    MaxOps = 1
    Sequential = TRUE
    CanFail = {1, 2, 3, 4}
    MaxFailures = 1
    DetectAfter = 3
    DetectBy = 0
    Returns = FALSE
SPECIFICATION Spec
INVARIANT ThreeCopies
