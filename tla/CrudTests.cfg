\* Seven nodes, four of which the scripts fail.
CONSTANTS
    EN_GPSZ = 7
    Hash <- SevenHashes
    NumKeys = 3
    KeyHash <- ThreeKeys
    v1 = v1
    v2 = v2
    Value = {v1, v2}
    NoValue = NoValue
    PastEnd = {0, 2}
    UnsetReplica = {FALSE}
    Clients = {6}
    ClientOps = {"CREATE", "READ", "UPDATE", "DELETE"}
    MaxOps = 20
    Sequential = FALSE
    CanFail = {}
    MaxFailures = 4
    DetectAfter = 47
    DetectBy = 48
    Returns = FALSE
    CRUDTESTS = {"CREATE", "READ", "UPDATE", "DELETE"}
    NUMBER_OF_INSERTS = 2
    pairValue = v1
    newValue = v2
SPECIFICATION FairTestSpec
INVARIANTS TestOutcomes WaitsSuffice NeverExits Survives
PROPERTY Settles
