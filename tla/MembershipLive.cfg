\* Liveness: three nodes started one per tick; one that has to join may fail, in
\* the middle of the joining or after it, or the introducer, when it has answered
\* one of them and not the other, or after both.  A JOINREP has not room for all
\* members, and gossip is not passed on.
CONSTANTS
    EN_GPSZ = 3
    TFAIL = 5
    TREMOVE = 20
    TTL = 1
    MAX_PARTIAL_LIST_SIZE = 2
    StartsPerTick = 1
    TOTAL_RUNNING_TIME = 38
    CanFail = {1, 2, 3}
    FailTimes = {2, 8}
    MaxFailures = 1
    MaxEntries = 158
    Drawn <- AnyThree
SPECIFICATION FairSpec
PROPERTIES EveryoneJoins FullView Completeness
