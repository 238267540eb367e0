\* Six nodes, two of which fail at the same time.
CONSTANTS
    EN_GPSZ = 6
    TFAIL = 5
    TREMOVE = 20
    TTL = 3
    MAX_PARTIAL_LIST_SIZE = 10
    StartsPerTick = 4
    TOTAL_RUNNING_TIME = 50
    CanFail = {5, 6}
    FailTimes = {12}
    MaxFailures = 2
    MaxEntries = 158
    Drawn <- Chain
SPECIFICATION ChainSpec
PROPERTY NoReturn
