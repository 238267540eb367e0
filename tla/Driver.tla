-------------------------------- MODULE Driver --------------------------------
(* Application::run: when nodes are introduced, when the program takes the    *)
(* group for complete, when the store begins to run, and when test pairs are  *)
(* inserted and operations tested, for groups of any configured size.         *)
(*                                                                            *)
(* What the nodes do in mp1Run and mp2Run is the subject of Membership and    *)
(* KVStore, what the tests do that of CrudTests.                              *)
EXTENDS Integers, FiniteSets

CONSTANTS
    GroupSizes,         \* the sizes the configuration may ask for
    StartsPerTick       \* 1 / STEP_RATE: nodes introduced in one tick

ASSUME DriverAssumption == GroupSizes \subseteq Nat \ {0} /\ StartsPerTick \in Nat \ {0}

TOTAL_RUNNING_TIME == 700
INSERT_TIME == 100
TEST_TIME == 150
JOIN_WAIT == 50         \* the 50 in run

VARIABLES
    EN_GPSZ,                    \* the number of nodes, their indices from 0 on
    globaltime,                 \* the clock
    at,                         \* what run does next: "mp1Run", "join", "mp2Run" or "tick"
    started,                    \* the indices of the nodes that have been introduced
    nodeCount,                  \* what the driver has added up of them
    allNodesJoined,             \* run has found the group complete ...
    timeWhenAllNodesHaveJoined, \* ... at this time
    inserted,                   \* insertTestKVPairs has run
    storeRan                    \* history: the first time mp2Run was called, 0 before

joinVars == <<allNodesJoined, timeWhenAllNodesHaveJoined>>
driverVars == <<EN_GPSZ, globaltime, at, started, nodeCount, joinVars, inserted, storeRan>>

Index == 0 .. EN_GPSZ - 1
StartTime(i) == i \div StartsPerTick

(* Params::setparams adds up the indices of all nodes, mp1Run those of the    *)
(* nodes it introduces.                                                       *)
expectedCount == (EN_GPSZ * (EN_GPSZ - 1)) \div 2
Counted_One(new) == Cardinality(new)    \* mutant: nodeCount++
Counted(new) ==
    LET sum[k \in 0 .. EN_GPSZ] ==
            IF k = 0 THEN 0 ELSE sum[k - 1] + (IF k - 1 \in new THEN k - 1 ELSE 0)
    IN  sum[EN_GPSZ]

DriverInit ==
    /\ EN_GPSZ \in GroupSizes
    /\ globaltime = 0 /\ at = "mp1Run"
    /\ started = {} /\ nodeCount = 0
    /\ allNodesJoined = FALSE /\ timeWhenAllNodesHaveJoined = 0
    /\ inserted = FALSE /\ storeRan = 0

mp1Run ==
    /\ at = "mp1Run" /\ globaltime < TOTAL_RUNNING_TIME
    /\ LET new == {i \in Index : StartTime(i) = globaltime}
       IN  /\ started' = started \cup new
           /\ nodeCount' = nodeCount + Counted(new)
    /\ at' = "join"
    /\ UNCHANGED <<EN_GPSZ, globaltime, joinVars, inserted, storeRan>>

(* Wait for all nodes to join. *)
join ==
    /\ at = "join"
    /\ IF nodeCount = expectedCount /\ ~allNodesJoined
       THEN allNodesJoined' = TRUE /\ timeWhenAllNodesHaveJoined' = globaltime
       ELSE UNCHANGED joinVars
    /\ at' = IF globaltime > timeWhenAllNodesHaveJoined' + JOIN_WAIT THEN "mp2Run" ELSE "tick"
    /\ UNCHANGED <<EN_GPSZ, globaltime, started, nodeCount, inserted, storeRan>>

InsertsNow_After == globaltime = TEST_TIME      \* mutant
InsertsNow == globaltime = INSERT_TIME

mp2Run ==
    /\ at = "mp2Run"
    /\ storeRan' = IF storeRan = 0 THEN globaltime ELSE storeRan
    /\ inserted' = (inserted \/ InsertsNow)
    /\ at' = "tick"
    /\ UNCHANGED <<EN_GPSZ, globaltime, started, nodeCount, joinVars>>

tick ==
    /\ at = "tick"
    /\ globaltime' = globaltime + 1
    /\ at' = "mp1Run"
    /\ UNCHANGED <<EN_GPSZ, started, nodeCount, joinVars, inserted, storeRan>>

(* The run is over. *)
Finished == globaltime = TOTAL_RUNNING_TIME /\ UNCHANGED driverVars

DriverNext == mp1Run \/ join \/ mp2Run \/ tick \/ Finished

DriverSpec == DriverInit /\ [][DriverNext]_driverVars
-------------------------------------------------------------------------------
(* Properties.                                                                *)

(* The group is found complete when its last node is introduced, in the same  *)
(* tick, and not before.                                                      *)
JoinIsExact ==
    at \notin {"mp1Run", "join"} \/ (at = "mp1Run" /\ globaltime > 0) =>
        (allNodesJoined <=> started = Index)

(* "Wait for all nodes to join": the store does not run before every node has *)
(* been a member, or been joining, for JOIN_WAIT ticks.  (In a group of more  *)
(* than 208 it does: the wait is reckoned from 0 until everyone has joined.)  *)
StoreWaits ==
    storeRan # 0 => /\ started = Index
                    /\ \A i \in started : storeRan > StartTime(i) + JOIN_WAIT

(* Tests operate on pairs that have been inserted.  (With 201 nodes or more   *)
(* they do not: INSERT_TIME is over when the store begins to run.)            *)
TestsHavePairs == at = "mp2Run" /\ globaltime >= TEST_TIME => inserted
===============================================================================
