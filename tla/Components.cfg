CONSTANTS
    \* EmulNet: three nodes whose addresses differ as C strings, one message
    \* that is too big, and a buffer that three messages fill.
    Ids = {1, 2, 257}
    d1 = d1
    d2 = d2
    big = big
    Payload = {d1, d2, big}
    Oversized = {big}
    ENBUFFSIZE = 3
    MaxQueue = 1
    \* Ring: four nodes, the rings of two of them.
    Id = {1, 2, 3, 4}
    Position <- MCPosition
    KeyPosition <- MCKeyPosition
    Observers = {3, 4}
    \* MemberTable: the table of node 2 in a group of three.
    Group = {1, 2, 3}
    me = 2
    TFAIL = 1
    TREMOVE = 2
    MaxBeat = 2
    MaxTime = 3
    MaxNews = 2
    \* RandomPicks: five nodes, of which four may fail.
    GroupSize = 5
    \* Driver: from one node to the largest group for which the constants of
    \* the schedule fit: its last node is introduced at time 49.
    GroupSizes = {1, 2, 4, 5, 9, 33, 100, 197, 200}
    StartsPerTick = 4
SPECIFICATION FairPartSpec
INVARIANTS
    TypeOK FirstThree Neighbours OwnPosition NoTwins ImplementsTable GoodPicks RoundTrip
    JoinIsExact StoreWaits TestsHavePairs
PROPERTIES ReceivesAll IsBagNet ChangesWithMembers AlwaysReturns
