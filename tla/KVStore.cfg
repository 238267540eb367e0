\* Four nodes, one key held by 1, 4 and 3, two operations of any kind issued at
\* node 2 at any times, also in the same tick; that node, the key's first replica
\* or its last may fail.
CONSTANTS
    EN_GPSZ = 4
    Hash <- FourHashes
    NumKeys = 1
    KeyHash <- OneKey
    v1 = v1
    Value = {v1}
    NoValue = NoValue
    PastEnd = {0, 2}
    UnsetReplica = {TRUE, FALSE}
    Clients = {2}
    ClientOps = {"CREATE", "READ", "UPDATE", "DELETE"}
    MaxOps = 2
    Sequential = FALSE
    CanFail = {1, 2, 3}
    MaxFailures = 1
    DetectAfter = 3
    DetectBy = 0
    Returns = FALSE
SPECIFICATION Spec
INVARIANTS TypeOK OneVerdict QuorumBacked Answered Survives Restabilized
PROPERTY ImplementsTransactions
