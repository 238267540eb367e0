\* Three nodes with the program's own constants, all started at time 0
\* (STEP_RATE = .25), one of which may fail.
CONSTANTS
    EN_GPSZ = 3
    TFAIL = 5
    TREMOVE = 20
    TTL = 3
    MAX_PARTIAL_LIST_SIZE = 10
    StartsPerTick = 4
    TOTAL_RUNNING_TIME = 46
    CanFail = {1, 2, 3}
    FailTimes = {1, 2, 3, 10}
    MaxFailures = 1
    MaxEntries = 158
    Drawn <- AnyThree
SPECIFICATION Spec
INVARIANTS TypeOK NoInventedNews OwnEntry HeardWithin DetectedInTime
PROPERTIES NoFalseRemoval NoReturn ViewSpec
