------------------------------ MODULE Membership ------------------------------
(* The membership protocol of MP1Node.cpp, run by Application::mp1Run over    *)
(* the emulated network.                                                      *)
(*                                                                            *)
(* The program is one thread that simulates EN_GPSZ nodes in lock step.  A    *)
(* tick of globaltime has three parts: every running node drains the network  *)
(* into its mp1q (recvLoop); then the nodes take a turn each, the last one    *)
(* first, in which a node is started, or handles every message of its queue   *)
(* (checkMessages) and does its periodic work (nodeLoopOps); then the driver  *)
(* may fail nodes and the clock advances.  What a node sends in a tick is     *)
(* received in the next one.                                                  *)
(*                                                                            *)
(* Abstractions.  A node is its id (1 .. EN_GPSZ; every port is 0).  A        *)
(* member table is a function from the known ids to their entries: the order  *)
(* of the vector is only read by the two places that send its first           *)
(* MAX_PARTIAL_LIST_SIZE entries.  The network and the queues are bags: the   *)
(* order in which ENrecv hands out the messages of a tick depends on what     *)
(* other nodes removed from the shared buffer, so a node handles its queue    *)
(* in any order.  rand() is any value it can return.  Timestamps are left out *)
(* of the messages whose receiver ignores them (all but JOINREP).             *)
EXTENDS Integers, FiniteSets, Bags

CONSTANTS
    EN_GPSZ,                \* number of nodes
    TFAIL,                  \* MP1Node.h: period of pings and of probes
    TREMOVE,                \* MP1Node.h: age at which an entry is erased
    TTL,                    \* MP1Node.h: hops of a gossip message
    MAX_PARTIAL_LIST_SIZE,  \* MP1Node.h: entries in a JOINREP
    StartsPerTick,          \* 1 / STEP_RATE: nodes started in one tick
    TOTAL_RUNNING_TIME,     \* Application.h: the run stops here
    CanFail,                \* the nodes the driver may fail ...
    FailTimes,              \* ... at the end of these ticks ...
    MaxFailures,            \* ... and at most so many of them
    MaxEntries,             \* entries that fit into MAX_MSG_SIZE with a probe
    Drawn                   \* node -> the ids its random choices may fall on

ASSUME GroupAssumption == EN_GPSZ \in Nat /\ EN_GPSZ >= 3
ASSUME TimeoutAssumption == TFAIL \in Nat \ {0} /\ TREMOVE \in Nat /\ TFAIL < TREMOVE
ASSUME LimitAssumption ==
    /\ TTL \in Nat \ {0}
    /\ MAX_PARTIAL_LIST_SIZE \in Nat \ {0}
    /\ StartsPerTick \in Nat \ {0}
    /\ TOTAL_RUNNING_TIME \in Nat /\ MaxEntries \in Nat
ASSUME DrawnAssumption == Drawn \in [1 .. EN_GPSZ -> SUBSET (1 .. EN_GPSZ)]

Node == 1 .. EN_GPSZ
Introducer == 1
NoAddr == 0                 \* the null Address of the messages that carry none

VARIABLES
    globaltime,     \* the simulated clock
    turn,           \* EN_GPSZ + 1: recvLoop is due; i: node i's turn; 0: end of the tick
    inited,         \* nodeStart has run
    inGroup,        \* the node is in the group
    bFailed,        \* the driver has failed the node
    heartbeat,      \* the node's own heartbeat counter
    pingCounter,    \* ticks left before the next ping
    memberList,     \* the node's table: known id -> [hb, ts]
    net,            \* messages in flight
    mp1q,           \* per node, the received messages it has not handled yet
    failTime        \* history: the tick at whose end the node failed

appVars  == <<globaltime, turn, inited, bFailed, failTime>>
nodeVars == <<inGroup, heartbeat, pingCounter, memberList>>
netVars  == <<net, mp1q>>
vars     == <<appVars, nodeVars, netVars>>

-------------------------------------------------------------------------------
(* Messages.  "list" is the piggybacked news: id -> heartbeat.                *)

JoinReq(S)   == [type : {"JOINREQ"}, to : Node, from : Node, list : [S -> Nat]]
JoinRep(S)   == [type : {"JOINREP"}, to : Node, list : [S -> Nat], ts : [S -> Nat]]
Direct(S)    == [type : {"PING", "ACK"}, to : Node, from : Node,
                 fromPingreq : {FALSE}, addr : {NoAddr}, list : [S -> Nat]]
Indirect(S)  == [type : {"PING", "ACK", "PINGREQ"}, to : Node, from : Node,
                 fromPingreq : {TRUE}, addr : Node, list : [S -> Nat]]
GossipMsg(S) == [type : {"GOSSIP"}, to : Node, ttl : 1 .. TTL, list : [S -> Nat]]

IsMessage(m) ==
    \E S \in SUBSET Node :
        m \in JoinReq(S) \cup JoinRep(S) \cup Direct(S) \cup Indirect(S) \cup GossipMsg(S)

IsTable(tab) == \E S \in SUBSET Node : tab \in [S -> [hb : Nat, ts : Nat]]

(* What is known of one id only. *)
Entry1(x, h) == [y \in {x} |-> h]

Heartbeats(tab) == [x \in DOMAIN tab |-> tab[x].hb]

(* The entries a node piggybacks: those heard of in the last TFAIL ticks. *)
Fresh_All(tab) == DOMAIN tab  \* mutant: no test of the age
Fresh(tab) == {x \in DOMAIN tab : globaltime - tab[x].ts <= TFAIL}
FreshNews_Stamps(tab) == [x \in Fresh(tab) |-> tab[x].ts]  \* mutant: the wrong field
FreshNews(tab) == [x \in Fresh(tab) |-> tab[x].hb]

(* The entries sent when at most MAX_PARTIAL_LIST_SIZE of the vector go: the  *)
(* first one is the sender's own, initThisNode put it there.                  *)
Firsts(i, tab) ==
    {S \in SUBSET DOMAIN tab :
        /\ i \in S
        /\ \/ Cardinality(DOMAIN tab) <= MAX_PARTIAL_LIST_SIZE /\ S = DOMAIN tab
           \/ Cardinality(DOMAIN tab) > MAX_PARTIAL_LIST_SIZE
              /\ Cardinality(S) = MAX_PARTIAL_LIST_SIZE}

(* getRandomAddress, then getRandomAddress(excludeid): two other ids, whether *)
(* in the table or not, started or not, failed or not.                        *)
Others(i) == Drawn[i] \ {i}
Pairs(i) == {{x, y} : x \in Others(i), y \in Others(i)} \ {{x} : x \in Node}

ProbeMsg(type, to, from, indirect, addr, tab) ==
    [type |-> type, to |-> to, from |-> from, fromPingreq |-> indirect,
     addr |-> addr, list |-> FreshNews(tab)]

(* sendGossip: the same message to the two nodes of a pair. *)
sendGossip(pair, ttl, list) ==
    {[type |-> "GOSSIP", to |-> x, ttl |-> ttl, list |-> list] : x \in pair}

(* The gossip about entries new to the table: a message of its own for each,  *)
(* to a pair of its own.                                                      *)
GossipEach(list, pick) ==
    UNION {sendGossip(pick[x], TTL, Entry1(x, list[x])) : x \in DOMAIN pick}

(* updateMemberList: an unknown id is added and a greater heartbeat replaces  *)
(* the known one, both stamped with the receiver's time.                      *)
Merge_NoCompare(tab, list) ==  \* mutant: known entries are overwritten
    [x \in DOMAIN tab \cup DOMAIN list |->
        IF x \in DOMAIN list THEN [hb |-> list[x], ts |-> globaltime] ELSE tab[x]]
Merge_Equal(tab, list) ==  \* mutant: >= instead of >
    [x \in DOMAIN tab \cup DOMAIN list |->
        IF x \in DOMAIN list /\ (x \in DOMAIN tab => list[x] >= tab[x].hb)
        THEN [hb |-> list[x], ts |-> globaltime]
        ELSE tab[x]]
Merge_Swapped(tab, list) ==  \* mutant: heartbeat and timestamp exchanged
    [x \in DOMAIN tab \cup DOMAIN list |->
        IF x \in DOMAIN list /\ (x \in DOMAIN tab => list[x] > tab[x].hb)
        THEN [hb |-> globaltime, ts |-> list[x]]
        ELSE tab[x]]
Merge(tab, list) ==
    [x \in DOMAIN tab \cup DOMAIN list |->
        IF x \in DOMAIN list /\ (x \in DOMAIN tab => list[x] > tab[x].hb)
        THEN [hb |-> list[x], ts |-> globaltime]
        ELSE tab[x]]

(* The merge of a JOINREP: an unknown id keeps the stamp of the sender. *)
MergeRaw_Replace(tab, list, stamps) ==  \* mutant: the table is cleared first
    [x \in DOMAIN list |-> [hb |-> list[x], ts |-> stamps[x]]]
MergeRaw(tab, list, stamps) ==
    [x \in DOMAIN tab \cup DOMAIN list |->
        IF x \notin DOMAIN tab
        THEN [hb |-> list[x], ts |-> stamps[x]]
        ELSE Merge(tab, list)[x]]

-------------------------------------------------------------------------------
(* The driver: Application::run and mp1Run.                                   *)

StartTime(i) == (i - 1) \div StartsPerTick

(* The test that guards recvLoop and nodeLoop. *)
Runs(i) == globaltime > StartTime(i) /\ ~bFailed[i]

Init ==
    /\ globaltime = 0
    /\ turn = EN_GPSZ + 1
    /\ inited = [i \in Node |-> FALSE]
    /\ inGroup = [i \in Node |-> FALSE]
    /\ bFailed = [i \in Node |-> FALSE]
    /\ heartbeat = [i \in Node |-> 0]
    /\ pingCounter = [i \in Node |-> 0]
    /\ memberList = [i \in Node |-> [x \in {} |-> [hb |-> 0, ts |-> 0]]]
    /\ net = EmptyBag
    /\ mp1q = [i \in Node |-> EmptyBag]
    /\ failTime = [i \in Node |-> 0]

(* The copies in B of the messages of S. *)
Among(B, S) == [m \in BagToSet(B) \cap S |-> B[m]]

Deliverable(i) == {m \in BagToSet(net) : m.to = i}
Undelivered == {m \in BagToSet(net) : ~Runs(m.to) /\ ~bFailed[m.to]}

(* Every running node moves its messages into its queue (queues are empty     *)
(* then: a running node has handled its own in the tick before).  What is     *)
(* addressed to a node that has not been started waits; what is addressed to  *)
(* a failed node is never received, and is forgotten here.                    *)
recvLoop ==
    /\ globaltime < TOTAL_RUNNING_TIME
    /\ turn = EN_GPSZ + 1
    /\ mp1q' = [i \in Node |-> IF Runs(i)
                               THEN mp1q[i] (+) Among(net, Deliverable(i))
                               ELSE mp1q[i]]
    /\ net' = Among(net, Undelivered)
    /\ turn' = EN_GPSZ
    /\ UNCHANGED <<globaltime, inited, bFailed, failTime, nodeVars>>

(* Node i's turn in the second loop of mp1Run. *)
HasTurn(i) == turn = i /\ turn' = i - 1

(* ENsend: a probe with too many entries is dropped without a sign.  (No other *)
(* message grows with the group.)                                             *)
Fits(m) == m.type \in {"PING", "ACK", "PINGREQ"} => Cardinality(DOMAIN m.list) <= MaxEntries
Send(ms) == net' = net (+) SetToBag({m \in ms : Fits(m)})

(* nodeStart = initThisNode, then introduceSelfToGroup. *)
nodeStart(i) ==
    /\ HasTurn(i)
    /\ globaltime = StartTime(i)
    /\ inited' = [inited EXCEPT ![i] = TRUE]
    /\ bFailed' = [bFailed EXCEPT ![i] = FALSE]
    /\ inGroup' = [inGroup EXCEPT ![i] = (i = Introducer)]
    /\ heartbeat' = [heartbeat EXCEPT ![i] = 0]
    /\ pingCounter' = [pingCounter EXCEPT ![i] = TFAIL]
    /\ memberList' = [memberList EXCEPT ![i] =
                        [x \in {i} |-> [hb |-> 0, ts |-> globaltime]]]
    /\ Send(IF i = Introducer THEN {}
            ELSE {[type |-> "JOINREQ", to |-> Introducer, from |-> i,
                   list |-> Entry1(i, 0)]})
    /\ UNCHANGED <<globaltime, failTime, mp1q>>

(* A node not started yet, or failed, does nothing in its turn. *)
SkipTurn(i) ==
    /\ HasTurn(i)
    /\ globaltime # StartTime(i)
    /\ ~Runs(i)
    /\ UNCHANGED <<globaltime, inited, bFailed, failTime, nodeVars, netVars>>

-------------------------------------------------------------------------------
(* nodeLoop: checkMessages pops the messages one by one into recvCallBack ... *)

(* i handles m, its table becomes tab and it sends ms. *)
Handle(i, m, tab, ms) ==
    /\ memberList' = [memberList EXCEPT ![i] = tab]
    /\ mp1q' = [mp1q EXCEPT ![i] = @ (-) SetToBag({m})]
    /\ Send(ms)
    /\ UNCHANGED <<appVars, heartbeat, pingCounter>>

Pops(i, m, types) ==
    /\ turn = i /\ Runs(i)
    /\ m \in BagToSet(mp1q[i])
    /\ m.type \in types

(* The choices of sendGossip for each entry of the news that is new. *)
Picks(i, list) == [DOMAIN list \ DOMAIN memberList[i] -> Pairs(i)]

recvJOINREQ(i) ==
    \E m \in BagToSet(mp1q[i]) :
      /\ Pops(i, m, {"JOINREQ"})
      /\ LET tab == Merge(memberList[i], m.list)
         IN  \E pick \in Picks(i, m.list), S \in Firsts(i, tab) :
               Handle(i, m, tab,
                      GossipEach(m.list, pick) \cup
                      {[type |-> "JOINREP", to |-> m.from,
                        list |-> [x \in S |-> tab[x].hb],
                        ts |-> [x \in S |-> tab[x].ts]]})
      /\ UNCHANGED inGroup

recvJOINREP_NotIn(i) ==  \* mutant: inGroup is not set
    \E m \in BagToSet(mp1q[i]) :
      /\ Pops(i, m, {"JOINREP"})
      /\ LET tab == MergeRaw(memberList[i], m.list, m.ts)
         IN  \E pair \in Pairs(i), S \in Firsts(i, tab) :
               Handle(i, m, tab,
                      sendGossip(pair, TTL, [x \in S |-> tab[x].hb]))
      /\ UNCHANGED inGroup
recvJOINREP(i) ==
    \E m \in BagToSet(mp1q[i]) :
      /\ Pops(i, m, {"JOINREP"})
      /\ LET tab == MergeRaw(memberList[i], m.list, m.ts)
         IN  \E pair \in Pairs(i), S \in Firsts(i, tab) :
               Handle(i, m, tab,
                      sendGossip(pair, TTL, [x \in S |-> tab[x].hb]))
      /\ inGroup' = [inGroup EXCEPT ![i] = TRUE]

(* PING, ACK and PINGREQ merge first, then answer from the merged table. *)
Answer_NoRelay(i, m, tab) ==  \* mutant: nothing is done for a PINGREQ
    IF m.type = "PING"
    THEN {ProbeMsg("ACK", m.from, i, m.fromPingreq,
                   IF m.fromPingreq THEN m.addr ELSE NoAddr, tab)}
    ELSE {}
Answer(i, m, tab) ==
    CASE m.type = "PING" ->
            {ProbeMsg("ACK", m.from, i, m.fromPingreq,
                      IF m.fromPingreq THEN m.addr ELSE NoAddr, tab)}
      [] m.type = "ACK" /\ m.fromPingreq ->
            {ProbeMsg("ACK", m.addr, i, FALSE, NoAddr, tab)}
      [] m.type = "PINGREQ" ->
            {ProbeMsg("PING", m.addr, i, TRUE, m.from, tab)}
      [] OTHER -> {}

recvProbe(i, type) ==
    \E m \in BagToSet(mp1q[i]) :
      /\ Pops(i, m, {type})
      /\ LET tab == Merge(memberList[i], m.list)
         IN  \E pick \in Picks(i, m.list) :
               Handle(i, m, tab, GossipEach(m.list, pick) \cup Answer(i, m, tab))
      /\ UNCHANGED inGroup

recvPING(i)    == recvProbe(i, "PING")
recvACK(i)     == recvProbe(i, "ACK")
recvPINGREQ(i) == recvProbe(i, "PINGREQ")

(* The message itself goes on, one hop poorer, to another pair. *)
recvGOSSIP_NoTTL(i) ==  \* mutant: passed on whatever its ttl
    \E m \in BagToSet(mp1q[i]) :
      /\ Pops(i, m, {"GOSSIP"})
      /\ \E pick \in Picks(i, m.list), pair \in Pairs(i) :
           Handle(i, m, Merge(memberList[i], m.list),
                  GossipEach(m.list, pick) \cup sendGossip(pair, m.ttl - 1, m.list))
      /\ UNCHANGED inGroup
recvGOSSIP(i) ==
    \E m \in BagToSet(mp1q[i]) :
      /\ Pops(i, m, {"GOSSIP"})
      /\ \E pick \in Picks(i, m.list), pair \in Pairs(i) :
           Handle(i, m, Merge(memberList[i], m.list),
                  GossipEach(m.list, pick) \cup
                  IF m.ttl - 1 > 0 THEN sendGossip(pair, m.ttl - 1, m.list) ELSE {})
      /\ UNCHANGED inGroup

-------------------------------------------------------------------------------
(* ... and, the queue empty, nodeLoopOps.                                     *)

Age(tab, x) == globaltime - tab[x].ts

(* Asked after indirectly: every TFAIL ticks of silence, before TREMOVE. *)
Suspects(i, tab) ==
    {x \in DOMAIN tab \ {i} : /\ Age(tab, x) >= TFAIL /\ Age(tab, x) < TREMOVE
                              /\ Age(tab, x) % TFAIL = 0}

Expired_TFAIL(i, tab) == {x \in DOMAIN tab \ {i} : Age(tab, x) > TFAIL}  \* mutant
Expired(i, tab) == {x \in DOMAIN tab \ {i} : Age(tab, x) > TREMOVE}

sendPingRequests(i, pick, tab) ==
    UNION {{ProbeMsg("PINGREQ", to, i, TRUE, x, tab) : to \in pick[x]} : x \in DOMAIN pick}

sendPing(i, target, tab) == {ProbeMsg("PING", to, i, FALSE, NoAddr, tab) : to \in target}

LoopDue(i) == turn = i /\ Runs(i) /\ BagToSet(mp1q[i]) = {}

nodeLoopOps(i) ==
    /\ LoopDue(i)
    /\ HasTurn(i)
    /\ inGroup[i]
    /\ heartbeat' = [heartbeat EXCEPT ![i] = @ + 1]
    /\ LET own == [memberList[i] EXCEPT ![i] = [hb |-> heartbeat[i] + 1, ts |-> globaltime]]
           tab == [x \in DOMAIN own \ Expired(i, own) |-> own[x]]
           pinging == pingCounter[i] <= 1
           targets == IF pinging THEN {{to} : to \in Others(i)} ELSE {{}}
       IN  /\ memberList' = [memberList EXCEPT ![i] = tab]
           /\ pingCounter' = [pingCounter EXCEPT ![i] = IF pinging THEN TFAIL ELSE @ - 1]
           /\ \E pick \in [Suspects(i, own) -> Pairs(i)], target \in targets :
                Send(sendPingRequests(i, pick, own) \cup sendPing(i, target, tab))
    /\ UNCHANGED <<globaltime, inited, bFailed, failTime, inGroup, mp1q>>

(* Out of the group, a node only handles its messages. *)
WaitForGroup(i) ==
    /\ LoopDue(i)
    /\ HasTurn(i)
    /\ ~inGroup[i]
    /\ UNCHANGED <<globaltime, inited, bFailed, failTime, nodeVars, netVars>>

-------------------------------------------------------------------------------
(* The end of a tick: the driver's tests set bFailed, then the clock moves.   *)

Fail(i) ==
    /\ turn = 0
    /\ globaltime \in FailTimes
    /\ i \in CanFail
    /\ inited[i] /\ ~bFailed[i]
    /\ Cardinality({j \in Node : bFailed[j]}) < MaxFailures
    /\ bFailed' = [bFailed EXCEPT ![i] = TRUE]
    /\ failTime' = [failTime EXCEPT ![i] = globaltime]
    /\ UNCHANGED <<globaltime, turn, inited, nodeVars, netVars>>

Tick ==
    /\ turn = 0
    /\ globaltime' = globaltime + 1
    /\ turn' = EN_GPSZ + 1
    /\ UNCHANGED <<inited, bFailed, failTime, nodeVars, netVars>>

NodeTurn(i) ==
    \/ nodeStart(i)
    \/ SkipTurn(i)
    \/ recvJOINREQ(i)
    \/ recvJOINREP(i)
    \/ recvPING(i)
    \/ recvACK(i)
    \/ recvPINGREQ(i)
    \/ recvGOSSIP(i)
    \/ nodeLoopOps(i)
    \/ WaitForGroup(i)

(* The run is over. *)
Finished == globaltime = TOTAL_RUNNING_TIME /\ UNCHANGED vars

Run == recvLoop \/ Tick \/ \E i \in Node : NodeTurn(i)

Next == Run \/ Finished \/ \E i \in Node : Fail(i)

(* The driver is one thread that always takes its next step; it need not fail *)
(* anybody.                                                                   *)
Spec == Init /\ [][Next]_vars
FairSpec == Spec /\ WF_vars(Run)
-------------------------------------------------------------------------------
(* Properties.                                                                *)

TypeOK ==
    /\ globaltime \in 0 .. TOTAL_RUNNING_TIME
    /\ turn \in 0 .. EN_GPSZ + 1
    /\ inited \in [Node -> BOOLEAN]
    /\ inGroup \in [Node -> BOOLEAN]
    /\ bFailed \in [Node -> BOOLEAN]
    /\ heartbeat \in [Node -> Nat]
    /\ pingCounter \in [Node -> 0 .. TFAIL]
    /\ DOMAIN memberList = Node /\ \A i \in Node : IsTable(memberList[i])
    /\ \A m \in BagToSet(net) : IsMessage(m)
    /\ DOMAIN mp1q = Node /\ \A i \in Node : \A m \in BagToSet(mp1q[i]) : IsMessage(m)
    /\ failTime \in [Node -> Nat]

PendingMessages == BagToSet(net) \cup UNION {BagToSet(mp1q[i]) : i \in Node}

(* News nobody invented: of started nodes, with heartbeats they have reached. *)
TrueNews(list) == \A x \in DOMAIN list : inited[x] /\ list[x] <= heartbeat[x]

(* However it is relayed, piggybacked and merged, what a table or a message   *)
(* says of a node is something that node has been: it was started, and its    *)
(* heartbeat counter has passed that value.                                   *)
NoInventedNews ==
    /\ \A i \in Node : TrueNews(Heartbeats(memberList[i]))
    /\ \A m \in PendingMessages : TrueNews(m.list)

(* Neither the merges nor the removals touch a node's own entry, through      *)
(* which (myPos) nodeLoopOps writes: it is there and has the node's own count.*)
OwnEntry ==
    \A i \in Node : inited[i] =>
        i \in DOMAIN memberList[i] /\ memberList[i][i].hb = heartbeat[i]

Members(i) == DOMAIN memberList[i]
Active(i) == inGroup[i] /\ ~bFailed[i]

(* The probes work: of a node that is up, a node in the group has never gone  *)
(* without news for longer than TFAIL ticks and one indirect round trip.      *)
HeardWithin ==
    \A i \in Node : \A x \in Members(i) :
        Active(i) /\ Active(x) => globaltime - memberList[i][x].ts <= TFAIL + 4

(* Accuracy: only a failed node is removed from a table. *)
NoFalseRemoval ==
    [][\A i \in Node : \A x \in Members(i) \ Members(i)' : bFailed[x]]_vars

(* The last news of a failed node are handled in the tick after it failed.    *)
(* They stay fresh, and are passed on to a node that had older ones, for      *)
(* TFAIL ticks and one tick of delivery per node; then TREMOVE ticks pass.    *)
DetectionBound == 1 + (EN_GPSZ - 2) * (TFAIL + 1) + TREMOVE + 1

(* Completeness, with a deadline: a failed node is out of every table. *)
DetectedInTime ==
    \A i, x \in Node :
        Active(i) /\ bFailed[x] /\ globaltime - failTime[x] > DetectionBound
            => x \notin Members(i)

(* A node that has been dead long enough to be removed is not added again by  *)
(* someone who still has fresh news of it.                                    *)
NoReturn ==
    [][\A i \in Node : \A x \in Members(i)' \ Members(i) :
        bFailed[x] => globaltime - failTime[x] <= TREMOVE]_vars

(* Every node gets into the group, unless the driver fails it, or has failed  *)
(* the introducer by the end of the tick in which the node sends its only     *)
(* JOINREQ.  An introducer that fails a tick later has answered.              *)
EveryoneJoins ==
    \A i \in Node :
        <>(\/ Active(i) \/ bFailed[i]
           \/ bFailed[Introducer] /\ failTime[Introducer] <= StartTime(i))

(* The tables of the members come to agree on who is up, and stay so. *)
FullView == <>[](\A i, x \in Node : Active(i) /\ Active(x) => x \in Members(i))

(* A failed node disappears from the table of every member for good. *)
Completeness ==
    \A i, x \in Node : bFailed[x] ~> [](Active(i) => x \notin Members(i))

(* The detailed protocol implements the abstract view. *)
View == INSTANCE MemberView WITH
            up <- inited,
            beat <- heartbeat,
            view <- [i \in Node |-> Heartbeats(memberList[i])]
ViewSpec == View!Spec
===============================================================================
