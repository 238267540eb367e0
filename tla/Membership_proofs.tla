-------------------------- MODULE Membership_proofs ---------------------------
(* Proofs about the membership protocol, for every group size, every timeout  *)
(* and every set of failures.                                                 *)
EXTENDS Membership, TLAPS, FiniteSetTheorems

(* A node has been started once its start time is past, or in the tick of its *)
(* start once its turn is over; and the clock only moves at the end of a tick.*)
Clock ==
    /\ \A i \in Node : inited[i] <=> \/ globaltime > StartTime(i)
                                     \/ globaltime = StartTime(i) /\ turn < i
    /\ turn <= EN_GPSZ => globaltime < TOTAL_RUNNING_TIME

(* A node that has not been started has not counted, nor joined. *)
Dormant == \A i \in Node : ~inited[i] => heartbeat[i] = 0 /\ ~inGroup[i]

(* The inductive invariant: what is handled next is typed and true, and the   *)
(* handler is a started node. *)
IInv == TypeOK /\ Clock /\ Dormant /\ OwnEntry /\ NoInventedNews

-------------------------------------------------------------------------------
(* Bags: what is in a bag after a message is put in or taken out.             *)

(* A set of messages put into a bag adds exactly those to what is in it       *)
(* (ENsend).                                                                  *)
LEMMA BagPut ==
    ASSUME NEW B, NEW S
    PROVE  BagToSet(B (+) SetToBag(S)) = BagToSet(B) \cup S
BY DEF BagToSet, SetToBag, (+)

(* Of the messages sent, what fits is in flight afterwards, and nothing else  *)
(* is added.                                                                  *)
LEMMA SendPuts ==
    ASSUME NEW ms, Send(ms)
    PROVE  BagToSet(net') \subseteq BagToSet(net) \cup ms
BY BagPut DEF Send

(* Taking a message out of a bag adds nothing to it (a pop of mp1q).          *)
LEMMA BagTake ==
    ASSUME NEW B, NEW m
    PROVE  BagToSet(B (-) SetToBag({m})) \subseteq BagToSet(B)
BY DEF BagToSet, SetToBag, (-)

(* The copies of some messages of a bag are the messages of both (recvLoop).  *)
LEMMA BagAmong ==
    ASSUME NEW B, NEW S
    PROVE  BagToSet(Among(B, S)) = BagToSet(B) \cap S
BY DEF BagToSet, Among

(* What is in the union of two bags is in one of them (recvLoop).             *)
LEMMA BagJoin ==
    ASSUME NEW B, NEW C
    PROVE  BagToSet(B (+) C) = BagToSet(B) \cup BagToSet(C)
BY DEF BagToSet, (+)

(* The introducer is a node, the null address is none.                        *)
LEMMA NodeFacts == /\ Introducer \in Node /\ NoAddr \notin Node /\ Node \subseteq Int
                   /\ \A i \in Node : StartTime(i) \in Nat
<1>1. EN_GPSZ \in Nat /\ EN_GPSZ >= 3
  BY GroupAssumption
<1>2. ASSUME NEW i \in Node PROVE StartTime(i) \in Nat
  <2>1. StartsPerTick \in Nat \ {0} /\ i - 1 \in Nat
    BY <1>1, LimitAssumption DEF Node
  <2>2. QED BY <2>1 DEF StartTime
<1>3. QED BY <1>1, <1>2 DEF Introducer, Node, NoAddr

-------------------------------------------------------------------------------
(* What the helpers of the protocol return.                                   *)

(* A message that is well formed and tells the truth. *)
Good(m) == IsMessage(m) /\ TrueNews(m.list)

(* A table that is well formed, tells the truth, and has i's own entry right. *)
GoodTable(i, tab) ==
    /\ IsTable(tab) /\ TrueNews(Heartbeats(tab))
    /\ i \in DOMAIN tab /\ tab[i].hb = heartbeat[i]

(* updateMemberList keeps a good table good when the news it is given are     *)
(* true.                                                                      *)
LEMMA MergeGood ==
    ASSUME TypeOK, NEW i \in Node, NEW tab, GoodTable(i, tab),
           NEW S \in SUBSET Node, NEW list \in [S -> Nat], TrueNews(list)
    PROVE  GoodTable(i, Merge(tab, list)) /\ DOMAIN Merge(tab, list) = DOMAIN tab \cup S
<1>1. PICK T \in SUBSET Node : tab \in [T -> [hb : Nat, ts : Nat]]
  BY DEF GoodTable, IsTable
<1>2. globaltime \in Nat /\ heartbeat \in [Node -> Nat]
  BY LimitAssumption DEF TypeOK
<1>3. /\ DOMAIN Merge(tab, list) = T \cup S
      /\ Merge(tab, list) \in [T \cup S -> [hb : Nat, ts : Nat]]
  BY <1>1, <1>2 DEF Merge
<1>4. IsTable(Merge(tab, list))
  BY <1>3 DEF IsTable
<1>5. ASSUME NEW x \in T \cup S
      PROVE  \/ x \in T /\ Merge(tab, list)[x].hb = tab[x].hb
             \/ x \in S /\ Merge(tab, list)[x].hb = list[x] /\ (x \in T => list[x] > tab[x].hb)
  BY <1>1, <1>2 DEF Merge
<1>6. ASSUME NEW x \in T PROVE inited[x] /\ tab[x].hb <= heartbeat[x]
  BY <1>1 DEF GoodTable, TrueNews, Heartbeats
<1>7. ASSUME NEW x \in S PROVE inited[x] /\ list[x] <= heartbeat[x]
  BY DEF TrueNews
<1>8. TrueNews(Heartbeats(Merge(tab, list)))
  BY <1>3, <1>5, <1>6, <1>7 DEF TrueNews, Heartbeats
<1>9. i \in T /\ tab[i].hb = heartbeat[i]
  BY <1>1 DEF GoodTable
<1>10. Merge(tab, list)[i].hb = heartbeat[i]
  BY <1>1, <1>2, <1>5, <1>7, <1>9
<1>11. QED BY <1>1, <1>3, <1>4, <1>8, <1>9, <1>10 DEF GoodTable

(* So does the merge of a JOINREP, whatever stamps it carries.                *)
LEMMA MergeRawGood ==
    ASSUME TypeOK, NEW i \in Node, NEW tab, GoodTable(i, tab),
           NEW S \in SUBSET Node, NEW list \in [S -> Nat], TrueNews(list),
           NEW stamps \in [S -> Nat]
    PROVE  GoodTable(i, MergeRaw(tab, list, stamps))
<1>1. PICK T \in SUBSET Node : tab \in [T -> [hb : Nat, ts : Nat]]
  BY DEF GoodTable, IsTable
<1>2. GoodTable(i, Merge(tab, list)) /\ DOMAIN Merge(tab, list) = T \cup S
  <2>1. DOMAIN tab = T
    BY <1>1
  <2>2. QED BY <2>1, MergeGood
<1>3. PICK U \in SUBSET Node : Merge(tab, list) \in [U -> [hb : Nat, ts : Nat]]
  BY <1>2 DEF GoodTable, IsTable
<1>4. U = T \cup S
  BY <1>2, <1>3
<1>5. MergeRaw(tab, list, stamps) =
        [x \in T \cup S |-> IF x \notin T THEN [hb |-> list[x], ts |-> stamps[x]]
                            ELSE Merge(tab, list)[x]]
  BY <1>1 DEF MergeRaw
<1>6. MergeRaw(tab, list, stamps) \in [T \cup S -> [hb : Nat, ts : Nat]]
  BY <1>3, <1>4, <1>5
<1>7. IsTable(MergeRaw(tab, list, stamps))
  BY <1>6 DEF IsTable
<1>8. ASSUME NEW x \in T \cup S
      PROVE  inited[x] /\ MergeRaw(tab, list, stamps)[x].hb <= heartbeat[x]
  <2>1. inited[x] /\ Merge(tab, list)[x].hb <= heartbeat[x]
    BY <1>2, <1>3, <1>4 DEF GoodTable, TrueNews, Heartbeats
  <2>2. x \in S => list[x] <= heartbeat[x]
    BY DEF TrueNews
  <2>3. QED BY <1>5, <2>1, <2>2
<1>9. TrueNews(Heartbeats(MergeRaw(tab, list, stamps)))
  BY <1>6, <1>8 DEF TrueNews, Heartbeats
<1>10. i \in T /\ Merge(tab, list)[i].hb = heartbeat[i]
  BY <1>1, <1>2 DEF GoodTable
<1>11. QED BY <1>5, <1>6, <1>7, <1>9, <1>10 DEF GoodTable

(* getRandomAddress only returns addresses of nodes.                          *)
LEMMA PairsOfNodes == \A i \in Node : \A p \in Pairs(i) : p \subseteq Node
BY DrawnAssumption DEF Pairs, Others, Node

(* sendGossip sends well-formed messages with true news when its list is      *)
(* true.                                                                      *)
LEMMA GossipGood ==
    ASSUME NEW pair \in SUBSET Node, NEW ttl \in 1 .. TTL,
           NEW S \in SUBSET Node, NEW list \in [S -> Nat], TrueNews(list)
    PROVE  \A m \in sendGossip(pair, ttl, list) : Good(m)
<1>1. ASSUME NEW x \in Node
      PROVE  Good([type |-> "GOSSIP", to |-> x, ttl |-> ttl, list |-> list])
  <2> DEFINE m == [type |-> "GOSSIP", to |-> x, ttl |-> ttl, list |-> list]
  <2>1. m \in GossipMsg(S)
    BY DEF GossipMsg
  <2>2. QED BY <2>1 DEF Good, IsMessage
<1>2. QED BY <1>1 DEF sendGossip

(* So does the gossip about every entry that is new to the table.             *)
LEMMA GossipEachGood ==
    ASSUME NEW i \in Node, NEW S \in SUBSET Node, NEW list \in [S -> Nat], TrueNews(list),
           NEW pick, pick \in Picks(i, list)
    PROVE  \A m \in GossipEach(list, pick) : Good(m)
<1>1. DOMAIN pick \subseteq S /\ \A x \in DOMAIN pick : pick[x] \in Pairs(i)
  BY DEF Picks
<1>2. ASSUME NEW x \in DOMAIN pick
      PROVE  \A m \in sendGossip(pick[x], TTL, Entry1(x, list[x])) : Good(m)
  <2>1. Entry1(x, list[x]) \in [{x} -> Nat] /\ {x} \in SUBSET Node
    BY <1>1 DEF Entry1
  <2>2. TrueNews(Entry1(x, list[x]))
    BY <1>1 DEF Entry1, TrueNews
  <2>3. TTL \in 1 .. TTL
    BY LimitAssumption
  <2>4. pick[x] \in SUBSET Node
    BY <1>1, PairsOfNodes
  <2>5. QED BY <2>1, <2>2, <2>3, <2>4, GossipGood
<1>3. QED BY <1>2 DEF GossipEach

(* What a node piggybacks is part of its table. *)
LEMMA FreshNewsShape ==
    ASSUME NEW tab, IsTable(tab)
    PROVE  \E S \in SUBSET Node : /\ S \subseteq DOMAIN tab
                                 /\ FreshNews(tab) \in [S -> Nat]
                                 /\ \A x \in S : FreshNews(tab)[x] = tab[x].hb
<1>1. PICK T \in SUBSET Node : tab \in [T -> [hb : Nat, ts : Nat]]
  BY DEF IsTable
<1>2. Fresh(tab) \in SUBSET Node /\ Fresh(tab) \subseteq DOMAIN tab
  BY <1>1 DEF Fresh
<1>3. FreshNews(tab) \in [Fresh(tab) -> Nat] /\ \A x \in Fresh(tab) : FreshNews(tab)[x] = tab[x].hb
  BY <1>1, <1>2 DEF FreshNews
<1>4. QED BY <1>2, <1>3

(* A well-formed message that carries the fresh entries of a table.           *)
Carries(m, tab) == IsMessage(m) /\ m.list = FreshNews(tab)

(* A probe is well formed when it carries an address exactly if it is indirect. *)
LEMMA ProbeShape ==
    ASSUME NEW i \in Node, NEW tab, IsTable(tab), NEW to \in Node,
           NEW type \in {"PING", "ACK", "PINGREQ"}, NEW indirect \in BOOLEAN, NEW addr,
           IF indirect THEN addr \in Node ELSE addr = NoAddr /\ type # "PINGREQ"
    PROVE  Carries(ProbeMsg(type, to, i, indirect, addr, tab), tab)
<1> DEFINE m == ProbeMsg(type, to, i, indirect, addr, tab)
<1>1. PICK S \in SUBSET Node : FreshNews(tab) \in [S -> Nat]
  BY FreshNewsShape
<1>2. CASE indirect
  <2>1. m \in Indirect(S)
    BY <1>1, <1>2 DEF ProbeMsg, Indirect
  <2>2. QED BY <1>1, <2>1 DEF Carries, IsMessage, ProbeMsg
<1>3. CASE ~indirect
  <2>1. m \in Direct(S)
    BY <1>1, <1>3 DEF ProbeMsg, Direct
  <2>2. QED BY <1>1, <2>1 DEF Carries, IsMessage, ProbeMsg
<1>4. QED BY <1>2, <1>3

(* A PING, ACK or PINGREQ to a node that carries entries of a good table is   *)
(* good.                                                                      *)
LEMMA ProbeGood ==
    ASSUME NEW i \in Node, NEW tab, GoodTable(i, tab), NEW to \in Node,
           NEW type \in {"PING", "ACK", "PINGREQ"}, NEW indirect \in BOOLEAN, NEW addr,
           IF indirect THEN addr \in Node ELSE addr = NoAddr /\ type # "PINGREQ"
    PROVE  Good(ProbeMsg(type, to, i, indirect, addr, tab))
<1>1. IsTable(tab)
  BY DEF GoodTable
<1>2. TrueNews(FreshNews(tab))
  BY <1>1, FreshNewsShape DEF GoodTable, TrueNews, Heartbeats
<1>3. Carries(ProbeMsg(type, to, i, indirect, addr, tab), tab)
  BY <1>1, ProbeShape
<1>4. QED BY <1>2, <1>3 DEF Good, Carries

-------------------------------------------------------------------------------
(* The invariant holds initially and every action keeps it.                   *)

(* The invariant holds before the first tick.                                 *)
LEMMA InitIInv == Init => IInv
<1> SUFFICES ASSUME Init PROVE IInv
  OBVIOUS
<1> USE DEF Init
<1>1. TypeOK
  <2>1. ASSUME NEW i \in Node PROVE IsTable(memberList[i])
    <3>1. memberList[i] \in [{} -> [hb : Nat, ts : Nat]]
      OBVIOUS
    <3>2. QED BY <3>1 DEF IsTable
  <2>2. BagToSet(net) = {} /\ \A i \in Node : BagToSet(mp1q[i]) = {}
    BY DEF BagToSet, EmptyBag, SetToBag
  <2>3. QED BY <2>1, <2>2, GroupAssumption, LimitAssumption, TimeoutAssumption DEF TypeOK
<1>2. Clock
  BY NodeFacts, GroupAssumption, LimitAssumption DEF Clock, Node
<1>3. Dormant /\ OwnEntry
  BY DEF Dormant, OwnEntry
<1>4. NoInventedNews
  BY DEF NoInventedNews, TrueNews, Heartbeats, PendingMessages, BagToSet, EmptyBag, SetToBag
<1>5. QED BY <1>1, <1>2, <1>3, <1>4 DEF IInv

(* What the invariant says of a message in a queue. *)
LEMMA PendingGood ==
    ASSUME IInv, NEW m \in PendingMessages
    PROVE  Good(m)
BY DEF IInv, TypeOK, NoInventedNews, PendingMessages, Good

(* Whoever receives or takes a turn of nodeLoop has run nodeStart.            *)
LEMMA RunningIsStarted ==
    ASSUME IInv, NEW i \in Node, Runs(i)
    PROVE  inited[i]
BY DEF IInv, Clock, Runs

(* A started node has a well-formed table with its own entry and true news.   *)
LEMMA StartedHasGoodTable ==
    ASSUME IInv, NEW i \in Node, inited[i]
    PROVE  GoodTable(i, memberList[i])
BY DEF IInv, TypeOK, OwnEntry, NoInventedNews, GoodTable

(* Handling a message keeps the invariant when the new table and the messages *)
(* sent are good. *)
LEMMA HandleKeepsIInv ==
    ASSUME IInv, NEW i \in Node, Runs(i), NEW m,
           NEW tab, GoodTable(i, tab), NEW ms, \A n \in ms : Good(n),
           Handle(i, m, tab, ms),
           inGroup' = inGroup \/ inGroup' = [inGroup EXCEPT ![i] = TRUE]
    PROVE  IInv'
<1> USE DEF Handle, appVars
<1>1. inited[i]
  BY RunningIsStarted
<1>2. BagToSet(net') \subseteq BagToSet(net) \cup ms
  BY SendPuts
<1>3. \A j \in Node : BagToSet(mp1q'[j]) \subseteq BagToSet(mp1q[j])
  BY BagTake DEF IInv, TypeOK
<1>4. \A n \in PendingMessages' : Good(n)
  BY <1>2, <1>3, PendingGood DEF PendingMessages
<1>5. \A j \in Node : memberList'[j] = IF j = i THEN tab ELSE memberList[j]
  BY DEF IInv, TypeOK
<1>6. TypeOK'
  <2>1. DOMAIN memberList' = Node /\ \A j \in Node : IsTable(memberList'[j])
    BY <1>5 DEF IInv, TypeOK, GoodTable
  <2>2. /\ \A n \in BagToSet(net') : IsMessage(n)
        /\ \A j \in Node : \A n \in BagToSet(mp1q'[j]) : IsMessage(n)
    BY <1>4 DEF PendingMessages, Good
  <2>3. DOMAIN mp1q' = Node /\ inGroup' \in [Node -> BOOLEAN]
    BY DEF IInv, TypeOK
  <2>4. QED BY <2>1, <2>2, <2>3 DEF IInv, TypeOK
<1>7. Clock'
  BY DEF IInv, Clock, StartTime
<1>8. Dormant'
  BY <1>1 DEF IInv, Dormant, TypeOK
<1>9. OwnEntry'
  BY <1>5 DEF IInv, OwnEntry, GoodTable
<1>10. NoInventedNews'
  <2>1. \A j \in Node : TrueNews(Heartbeats(memberList'[j]))
    BY <1>5 DEF IInv, NoInventedNews, GoodTable
  <2>2. \A n \in PendingMessages' : TrueNews(n.list)
    BY <1>4 DEF Good
  <2>3. QED BY <2>1, <2>2 DEF NoInventedNews, TrueNews, Heartbeats
<1>11. QED BY <1>6, <1>7, <1>8, <1>9, <1>10 DEF IInv

(* A handler starts from a message of the queue. *)
LEMMA PoppedGood ==
    ASSUME IInv, NEW i \in Node, NEW types, NEW m, Pops(i, m, types)
    PROVE  /\ Runs(i) /\ GoodTable(i, memberList[i])
           /\ Good(m) /\ m.type \in types
           /\ \E S \in SUBSET Node : m.list \in [S -> Nat]
<1>1. Runs(i) /\ m.type \in types /\ m \in PendingMessages
  BY DEF Pops, PendingMessages
<1>2. GoodTable(i, memberList[i])
  BY <1>1, RunningIsStarted, StartedHasGoodTable
<1>3. Good(m)
  BY <1>1, PendingGood
<1>4. \E S \in SUBSET Node : m.list \in [S -> Nat]
  BY <1>3 DEF Good, IsMessage, JoinReq, JoinRep, Direct, Indirect, GossipMsg
<1>5. QED BY <1>1, <1>2, <1>3, <1>4

(* The entries a JOINREP or a first gossip takes from the table are true      *)
(* news.                                                                      *)
LEMMA FirstsAreMembers ==
    ASSUME NEW i, NEW tab, GoodTable(i, tab), NEW S \in Firsts(i, tab)
    PROVE  /\ S \in SUBSET Node
           /\ [x \in S |-> tab[x].hb] \in [S -> Nat] /\ TrueNews([x \in S |-> tab[x].hb])
           /\ [x \in S |-> tab[x].ts] \in [S -> Nat]
<1>1. PICK T \in SUBSET Node : tab \in [T -> [hb : Nat, ts : Nat]]
  BY DEF GoodTable, IsTable
<1>2. S \subseteq T
  BY <1>1 DEF Firsts
<1>3. QED BY <1>1, <1>2 DEF GoodTable, TrueNews, Heartbeats

(* Handling a JOINREQ keeps the invariant.                                    *)
LEMMA JoinReqKeepsIInv ==
    ASSUME IInv, NEW i \in Node, recvJOINREQ(i)
    PROVE  IInv'
<1>1. PICK m \in BagToSet(mp1q[i]) :
        /\ Pops(i, m, {"JOINREQ"})
        /\ \E pick \in Picks(i, m.list), S \in Firsts(i, Merge(memberList[i], m.list)) :
             Handle(i, m, Merge(memberList[i], m.list),
                    GossipEach(m.list, pick) \cup
                    {[type |-> "JOINREP", to |-> m.from,
                      list |-> [x \in S |-> Merge(memberList[i], m.list)[x].hb],
                      ts |-> [x \in S |-> Merge(memberList[i], m.list)[x].ts]]})
  BY DEF recvJOINREQ
<1> DEFINE tab == Merge(memberList[i], m.list)
           reply(S) == [type |-> "JOINREP", to |-> m.from,
                        list |-> [x \in S |-> tab[x].hb], ts |-> [x \in S |-> tab[x].ts]]
<1>2. PICK pick \in Picks(i, m.list), S \in Firsts(i, tab) :
        Handle(i, m, tab, GossipEach(m.list, pick) \cup {reply(S)})
  BY <1>1
<1>3. /\ Runs(i) /\ GoodTable(i, memberList[i]) /\ Good(m) /\ m.type = "JOINREQ"
      /\ \E L \in SUBSET Node : m.list \in [L -> Nat]
  BY <1>1, PoppedGood
<1>4. GoodTable(i, tab)
  BY <1>3, MergeGood DEF IInv, Good
<1>5. \A n \in GossipEach(m.list, pick) : Good(n)
  BY <1>2, <1>3, GossipEachGood DEF Good
<1>6. Good(reply(S))
  <2>1. m.from \in Node
    BY <1>3 DEF Good, IsMessage, JoinReq, JoinRep, Direct, Indirect, GossipMsg
  <2>2. S \in SUBSET Node /\ reply(S) \in JoinRep(S) /\ TrueNews(reply(S).list)
    <3> HIDE DEF tab
    <3>1. QED BY <1>4, <2>1, FirstsAreMembers DEF JoinRep
  <2>3. QED BY <2>2 DEF Good, IsMessage
<1>7. inGroup' = inGroup
  BY DEF recvJOINREQ
<1> HIDE DEF tab, reply
<1>8. QED BY <1>2, <1>3, <1>4, <1>5, <1>6, <1>7, HandleKeepsIInv

(* Handling a JOINREP keeps the invariant.                                    *)
LEMMA JoinRepKeepsIInv ==
    ASSUME IInv, NEW i \in Node, recvJOINREP(i)
    PROVE  IInv'
<1>1. PICK m \in BagToSet(mp1q[i]) :
        /\ Pops(i, m, {"JOINREP"})
        /\ \E pair \in Pairs(i), S \in Firsts(i, MergeRaw(memberList[i], m.list, m.ts)) :
             Handle(i, m, MergeRaw(memberList[i], m.list, m.ts),
                    sendGossip(pair, TTL,
                               [x \in S |-> MergeRaw(memberList[i], m.list, m.ts)[x].hb]))
  BY DEF recvJOINREP
<1> DEFINE tab == MergeRaw(memberList[i], m.list, m.ts)
<1>2. PICK pair \in Pairs(i), S \in Firsts(i, tab) :
        Handle(i, m, tab, sendGossip(pair, TTL, [x \in S |-> tab[x].hb]))
  BY <1>1
<1>3. Runs(i) /\ GoodTable(i, memberList[i]) /\ Good(m) /\ m.type = "JOINREP"
  BY <1>1, PoppedGood
<1>4. \E L \in SUBSET Node : m.list \in [L -> Nat] /\ m.ts \in [L -> Nat]
  BY <1>3 DEF Good, IsMessage, JoinReq, JoinRep, Direct, Indirect, GossipMsg
<1>5. GoodTable(i, tab)
  BY <1>3, <1>4, MergeRawGood DEF IInv, Good
<1> HIDE DEF tab
<1>6. S \in SUBSET Node /\ [x \in S |-> tab[x].hb] \in [S -> Nat]
      /\ TrueNews([x \in S |-> tab[x].hb])
  BY <1>5, FirstsAreMembers
<1>7. pair \in SUBSET Node /\ TTL \in 1 .. TTL
  BY PairsOfNodes, LimitAssumption
<1>8. \A n \in sendGossip(pair, TTL, [x \in S |-> tab[x].hb]) : Good(n)
  BY <1>6, <1>7, GossipGood
<1>9. inGroup' = [inGroup EXCEPT ![i] = TRUE]
  BY DEF recvJOINREP
<1>10. QED BY <1>2, <1>3, <1>5, <1>8, <1>9, HandleKeepsIInv

(* What is answered goes to a node, never to the null address. *)
LEMMA AnswerGood ==
    ASSUME NEW i \in Node, NEW m, Good(m), m.type \in {"PING", "ACK", "PINGREQ"},
           NEW tab, GoodTable(i, tab)
    PROVE  \A n \in Answer(i, m, tab) : Good(n)
<1>1. /\ m.from \in Node /\ m.fromPingreq \in BOOLEAN
      /\ m.fromPingreq => m.addr \in Node
      /\ m.type = "PINGREQ" => m.fromPingreq
  BY DEF Good, IsMessage, JoinReq, JoinRep, Direct, Indirect, GossipMsg
<1>2. CASE m.type = "PING"
  <2>1. Answer(i, m, tab) = {ProbeMsg("ACK", m.from, i, m.fromPingreq,
                               IF m.fromPingreq THEN m.addr ELSE NoAddr, tab)}
    BY <1>2 DEF Answer
  <2>2. QED BY <1>1, <2>1, ProbeGood
<1>3. CASE m.type = "ACK" /\ m.fromPingreq
  <2>1. Answer(i, m, tab) = {ProbeMsg("ACK", m.addr, i, FALSE, NoAddr, tab)}
    BY <1>3 DEF Answer
  <2>2. m.addr \in Node
    BY <1>1, <1>3
  <2>3. Good(ProbeMsg("ACK", m.addr, i, FALSE, NoAddr, tab))
    BY <2>2, ProbeGood
  <2>4. QED BY <2>1, <2>3
<1>4. CASE m.type = "PINGREQ"
  <2>1. Answer(i, m, tab) = {ProbeMsg("PING", m.addr, i, TRUE, m.from, tab)}
    BY <1>4 DEF Answer
  <2>2. m.addr \in Node /\ m.from \in Node
    BY <1>1, <1>4
  <2>3. Good(ProbeMsg("PING", m.addr, i, TRUE, m.from, tab))
    BY <2>2, ProbeGood
  <2>4. QED BY <2>1, <2>3
<1>5. CASE m.type = "ACK" /\ ~m.fromPingreq
  BY <1>5 DEF Answer
<1>6. QED BY <1>2, <1>3, <1>4, <1>5

(* Handling a PING, an ACK or a PINGREQ keeps the invariant.                  *)
LEMMA ProbeKeepsIInv ==
    ASSUME IInv, NEW i \in Node, NEW type \in {"PING", "ACK", "PINGREQ"}, recvProbe(i, type)
    PROVE  IInv'
<1>1. PICK m \in BagToSet(mp1q[i]) :
        /\ Pops(i, m, {type})
        /\ \E pick \in Picks(i, m.list) :
             Handle(i, m, Merge(memberList[i], m.list),
                    GossipEach(m.list, pick) \cup Answer(i, m, Merge(memberList[i], m.list)))
  BY DEF recvProbe
<1> DEFINE tab == Merge(memberList[i], m.list)
<1>2. PICK pick \in Picks(i, m.list) :
        Handle(i, m, tab, GossipEach(m.list, pick) \cup Answer(i, m, tab))
  BY <1>1
<1>3. /\ Runs(i) /\ GoodTable(i, memberList[i]) /\ Good(m) /\ m.type = type
      /\ \E L \in SUBSET Node : m.list \in [L -> Nat]
  BY <1>1, PoppedGood
<1>4. GoodTable(i, tab)
  BY <1>3, MergeGood DEF IInv, Good
<1>5. \A n \in GossipEach(m.list, pick) : Good(n)
  BY <1>2, <1>3, GossipEachGood DEF Good
<1>6. \A n \in Answer(i, m, tab) : Good(n)
  BY <1>3, <1>4, AnswerGood
<1>7. inGroup' = inGroup
  BY DEF recvProbe
<1> HIDE DEF tab
<1>8. QED BY <1>2, <1>3, <1>4, <1>5, <1>6, <1>7, HandleKeepsIInv

(* Handling a GOSSIP keeps the invariant.                                     *)
LEMMA GossipKeepsIInv ==
    ASSUME IInv, NEW i \in Node, recvGOSSIP(i)
    PROVE  IInv'
<1>1. PICK m \in BagToSet(mp1q[i]) :
        /\ Pops(i, m, {"GOSSIP"})
        /\ \E pick \in Picks(i, m.list), pair \in Pairs(i) :
             Handle(i, m, Merge(memberList[i], m.list),
                    GossipEach(m.list, pick) \cup
                    IF m.ttl - 1 > 0 THEN sendGossip(pair, m.ttl - 1, m.list) ELSE {})
  BY DEF recvGOSSIP
<1> DEFINE tab == Merge(memberList[i], m.list)
           onward(pair) == IF m.ttl - 1 > 0 THEN sendGossip(pair, m.ttl - 1, m.list) ELSE {}
<1>2. PICK pick \in Picks(i, m.list), pair \in Pairs(i) :
        Handle(i, m, tab, GossipEach(m.list, pick) \cup onward(pair))
  BY <1>1
<1>3. /\ Runs(i) /\ GoodTable(i, memberList[i]) /\ Good(m) /\ m.type = "GOSSIP"
      /\ \E L \in SUBSET Node : m.list \in [L -> Nat]
  BY <1>1, PoppedGood
<1>4. GoodTable(i, tab)
  BY <1>3, MergeGood DEF IInv, Good
<1>5. \A n \in GossipEach(m.list, pick) : Good(n)
  BY <1>2, <1>3, GossipEachGood DEF Good
<1>6. \A n \in onward(pair) : Good(n)
  <2>1. m.ttl \in 1 .. TTL
    BY <1>3 DEF Good, IsMessage, JoinReq, JoinRep, Direct, Indirect, GossipMsg
  <2>2. m.ttl - 1 > 0 => m.ttl - 1 \in 1 .. TTL
    BY <2>1, LimitAssumption
  <2>3. pair \in SUBSET Node
    BY PairsOfNodes
  <2>4. QED BY <1>3, <2>2, <2>3, GossipGood DEF Good
<1>7. inGroup' = inGroup
  BY DEF recvGOSSIP
<1> HIDE DEF tab, onward
<1>8. QED BY <1>2, <1>3, <1>4, <1>5, <1>6, <1>7, HandleKeepsIInv

(* News stay true: no node is ever unstarted and no heartbeat goes back. *)
LEMMA NewsStayTrue ==
    ASSUME TypeOK, heartbeat' \in [Node -> Nat],
           \A x \in Node : (inited[x] => inited'[x]) /\ heartbeat[x] <= heartbeat'[x],
           NEW S \in SUBSET Node, NEW list \in [S -> Nat], TrueNews(list)
    PROVE  TrueNews(list)'
BY DEF TrueNews, TypeOK

(* A message stays good while it waits, since its news stay true.             *)
LEMMA PendingStayGood ==
    ASSUME IInv, heartbeat' \in [Node -> Nat],
           \A x \in Node : (inited[x] => inited'[x]) /\ heartbeat[x] <= heartbeat'[x],
           NEW m \in PendingMessages
    PROVE  IsMessage(m) /\ TrueNews(m.list)'
<1>1. Good(m)
  BY PendingGood
<1>2. \E S \in SUBSET Node : m.list \in [S -> Nat]
  BY <1>1 DEF Good, IsMessage, JoinReq, JoinRep, Direct, Indirect, GossipMsg
<1>3. QED BY <1>1, <1>2, NewsStayTrue DEF IInv, Good

(* A table that is not written stays true while others count on.              *)
LEMMA TableStaysTrue ==
    ASSUME IInv, heartbeat' \in [Node -> Nat],
           \A x \in Node : (inited[x] => inited'[x]) /\ heartbeat[x] <= heartbeat'[x],
           NEW j \in Node, memberList'[j] = memberList[j]
    PROVE  TrueNews(Heartbeats(memberList[j]))'
<1>1. PICK T \in SUBSET Node : memberList[j] \in [T -> [hb : Nat, ts : Nat]]
  BY DEF IInv, TypeOK, IsTable
<1>2. Heartbeats(memberList[j]) \in [T -> Nat] /\ TrueNews(Heartbeats(memberList[j]))
  BY <1>1 DEF IInv, NoInventedNews, Heartbeats
<1>3. \A x \in T : inited[x] /\ memberList[j][x].hb <= heartbeat[x]
  BY <1>1, <1>2 DEF TrueNews, Heartbeats
<1>4. QED BY <1>1, <1>3 DEF TrueNews, Heartbeats, IInv, TypeOK

(* nodeStart keeps the invariant.                                             *)
LEMMA StartKeepsIInv ==
    ASSUME IInv, NEW i \in Node, nodeStart(i)
    PROVE  IInv'
<1> DEFINE req == [type |-> "JOINREQ", to |-> Introducer, from |-> i, list |-> Entry1(i, 0)]
           ms == IF i = Introducer THEN {} ELSE {req}
           tab == [x \in {i} |-> [hb |-> 0, ts |-> globaltime]]
<1>1. /\ turn = i /\ turn' = i - 1 /\ globaltime = StartTime(i)
      /\ inited' = [inited EXCEPT ![i] = TRUE] /\ bFailed' = [bFailed EXCEPT ![i] = FALSE]
      /\ inGroup' = [inGroup EXCEPT ![i] = (i = Introducer)]
      /\ heartbeat' = [heartbeat EXCEPT ![i] = 0]
      /\ pingCounter' = [pingCounter EXCEPT ![i] = TFAIL]
      /\ memberList' = [memberList EXCEPT ![i] = tab]
      /\ Send(ms)
      /\ UNCHANGED <<globaltime, failTime, mp1q>>
  BY DEF nodeStart, HasTurn
<1>2. ~inited[i] /\ heartbeat[i] = 0 /\ heartbeat' = heartbeat
  <2>1. ~inited[i] /\ heartbeat[i] = 0
    BY <1>1, NodeFacts DEF IInv, Clock, Dormant
  <2>2. QED BY <1>1, <2>1 DEF IInv, TypeOK
<1>3. /\ heartbeat' \in [Node -> Nat]
      /\ \A x \in Node : (inited[x] => inited'[x]) /\ heartbeat[x] <= heartbeat'[x]
  BY <1>1, <1>2 DEF IInv, TypeOK
<1>5. \A n \in ms : IsMessage(n) /\ TrueNews(n.list)'
  <2>1. Entry1(i, 0) \in [{i} -> Nat] /\ {i} \in SUBSET Node
    BY DEF Entry1
  <2>2. req \in JoinReq({i})
    BY <2>1, NodeFacts DEF JoinReq
  <2>3. IsMessage(req)
    BY <2>1, <2>2 DEF IsMessage
  <2>4. TrueNews(req.list)'
    <3>1. inited'[i] /\ heartbeat'[i] = 0
      BY <1>1, <1>2 DEF IInv, TypeOK
    <3>2. QED BY <3>1 DEF TrueNews, Entry1
  <2>5. QED BY <2>3, <2>4
<1>6. BagToSet(net') \subseteq BagToSet(net) \cup ms
  BY <1>1, SendPuts
<1>7. \A n \in PendingMessages' : IsMessage(n) /\ TrueNews(n.list)'
  <2>1. PendingMessages' \subseteq PendingMessages \cup ms
    BY <1>1, <1>6 DEF PendingMessages
  <2>2. \A n \in PendingMessages : IsMessage(n) /\ TrueNews(n.list)'
    BY <1>3, PendingStayGood
  <2>3. QED BY <1>5, <2>1, <2>2
<1>8. \A j \in Node : memberList'[j] = IF j = i THEN tab ELSE memberList[j]
  BY <1>1 DEF IInv, TypeOK
<1>9. globaltime \in Nat
  BY LimitAssumption DEF IInv, TypeOK
<1>10. IsTable(tab)
  <2>1. tab \in [{i} -> [hb : Nat, ts : Nat]]
    BY <1>9
  <2>2. QED BY <2>1 DEF IsTable
<1>11. TypeOK'
  <2>1. DOMAIN memberList' = Node /\ \A j \in Node : IsTable(memberList'[j])
    BY <1>1, <1>8, <1>10 DEF IInv, TypeOK
  <2>2. /\ \A n \in BagToSet(net') : IsMessage(n)
        /\ \A j \in Node : \A n \in BagToSet(mp1q'[j]) : IsMessage(n)
    BY <1>7 DEF PendingMessages
  <2>3. turn' \in 0 .. EN_GPSZ + 1 /\ pingCounter' \in [Node -> 0 .. TFAIL]
    BY <1>1, TimeoutAssumption, GroupAssumption DEF IInv, TypeOK, Node
  <2>4. QED BY <1>1, <1>2, <2>1, <2>2, <2>3 DEF IInv, TypeOK
<1>12. Clock'
  BY <1>1, NodeFacts, GroupAssumption DEF IInv, TypeOK, Clock, StartTime, Node
<1>13. Dormant'
  BY <1>1, <1>2 DEF IInv, TypeOK, Dormant
<1>14. OwnEntry'
  BY <1>1, <1>2, <1>8 DEF IInv, TypeOK, OwnEntry
<1>15. NoInventedNews'
  <2>1. ASSUME NEW j \in Node PROVE TrueNews(Heartbeats(memberList[j]))'
    <3>1. CASE j = i
      <4>1. inited'[i] /\ heartbeat'[i] = 0 /\ memberList'[i] = tab
        BY <1>1, <1>2, <1>8 DEF IInv, TypeOK
      <4>2. QED BY <3>1, <4>1 DEF TrueNews, Heartbeats
    <3>2. CASE j # i
      BY <1>3, <1>8, <3>2, TableStaysTrue
    <3>3. QED BY <3>1, <3>2
  <2>2. QED BY <1>7, <2>1 DEF NoInventedNews
<1>16. QED BY <1>11, <1>12, <1>13, <1>14, <1>15 DEF IInv

(* The probes of nodeLoopOps go to nodes and carry entries of the table. *)
LEMMA LoopProbes ==
    ASSUME NEW i \in Node, NEW own, IsTable(own), NEW tab, IsTable(tab),
           NEW pick \in [Suspects(i, own) -> Pairs(i)], NEW target \in SUBSET Node,
           NEW n \in sendPingRequests(i, pick, own) \cup sendPing(i, target, tab)
    PROVE  IsMessage(n) /\ n.list \in {FreshNews(own), FreshNews(tab)}
<1>1. CASE n \in sendPingRequests(i, pick, own)
  <2>1. PICK x \in Suspects(i, own) : \E to \in pick[x] :
          n = ProbeMsg("PINGREQ", to, i, TRUE, x, own)
    BY <1>1 DEF sendPingRequests
  <2>2. PICK to \in pick[x] : n = ProbeMsg("PINGREQ", to, i, TRUE, x, own)
    BY <2>1
  <2>3. to \in Node /\ x \in Node
    BY <2>1, <2>2, PairsOfNodes DEF Suspects, IsTable
  <2>4. Carries(ProbeMsg("PINGREQ", to, i, TRUE, x, own), own)
    <3>1. "PINGREQ" \in {"PING", "ACK", "PINGREQ"} /\ TRUE \in BOOLEAN
      OBVIOUS
    <3>2. IF TRUE THEN x \in Node ELSE x = NoAddr /\ "PINGREQ" # "PINGREQ"
      BY <2>3
    <3>3. QED BY <2>3, <3>1, <3>2, ProbeShape
  <2>5. QED BY <2>2, <2>4 DEF Carries
<1>2. CASE n \in sendPing(i, target, tab)
  <2>1. PICK to \in Node : n = ProbeMsg("PING", to, i, FALSE, NoAddr, tab)
    BY <1>2 DEF sendPing
  <2>2. "PING" \in {"PING", "ACK", "PINGREQ"} /\ FALSE \in BOOLEAN /\ "PING" # "PINGREQ"
    OBVIOUS
  <2>3. Carries(ProbeMsg("PING", to, i, FALSE, NoAddr, tab), tab)
    <3>1. IF FALSE THEN NoAddr \in Node ELSE NoAddr = NoAddr /\ "PING" # "PINGREQ"
      BY <2>2
    <3>2. QED BY <2>1, <2>2, <3>1, ProbeShape
  <2>4. QED BY <2>1, <2>3 DEF Carries
<1>3. QED BY <1>1, <1>2

(* The turn of a node that is not started in it passes. *)
LEMMA TurnKeepsClock ==
    ASSUME IInv, NEW i \in Node, turn = i, turn' = i - 1,
           globaltime # StartTime(i), UNCHANGED <<globaltime, inited>>
    PROVE  Clock'
<1>1. ASSUME NEW j \in Node
      PROVE  inited[j] <=> \/ globaltime > StartTime(j)
                           \/ globaltime = StartTime(j) /\ i - 1 < j
  <2>1. i \in Nat /\ j \in Nat /\ StartTime(j) \in Nat
    BY NodeFacts, GroupAssumption DEF Node
  <2>2. inited[j] <=> \/ globaltime > StartTime(j)
                      \/ globaltime = StartTime(j) /\ i < j
    BY DEF IInv, Clock
  <2>3. j # i => (i - 1 < j <=> i < j)
    BY <2>1
  <2>4. QED BY <2>1, <2>2, <2>3
<1>2. globaltime < TOTAL_RUNNING_TIME
  BY GroupAssumption DEF IInv, Clock, Node
<1>3. QED BY <1>1, <1>2 DEF Clock, StartTime

(* The periodic work of nodeLoopOps keeps the invariant.                      *)
LEMMA LoopOpsKeepsIInv ==
    ASSUME IInv, NEW i \in Node, nodeLoopOps(i)
    PROVE  IInv'
<1>1. PICK own, tab, pick, target :
        /\ own = [memberList[i] EXCEPT ![i] = [hb |-> heartbeat[i] + 1, ts |-> globaltime]]
        /\ tab = [x \in DOMAIN own \ Expired(i, own) |-> own[x]]
        /\ memberList' = [memberList EXCEPT ![i] = tab]
        /\ pingCounter' = [pingCounter EXCEPT ![i] =
                             IF pingCounter[i] <= 1 THEN TFAIL ELSE pingCounter[i] - 1]
        /\ pick \in [Suspects(i, own) -> Pairs(i)] /\ target \in SUBSET Node
        /\ Send(sendPingRequests(i, pick, own) \cup sendPing(i, target, tab))
  <2>1. \A S \in {{to} : to \in Others(i)} : S \in SUBSET Node
    BY DrawnAssumption DEF Others, Node
  <2> QED
    BY <2>1 DEF nodeLoopOps
<1> DEFINE ms == sendPingRequests(i, pick, own) \cup sendPing(i, target, tab)
<1>2. /\ turn = i /\ turn' = i - 1 /\ Runs(i)
      /\ heartbeat' = [heartbeat EXCEPT ![i] = heartbeat[i] + 1]
      /\ UNCHANGED <<globaltime, inited, bFailed, failTime, inGroup, mp1q>>
  BY DEF nodeLoopOps, HasTurn, LoopDue
<1>3. /\ inited[i] /\ GoodTable(i, memberList[i])
      /\ globaltime \in Nat /\ heartbeat \in [Node -> Nat]
  BY <1>2, RunningIsStarted, StartedHasGoodTable, LimitAssumption DEF IInv, TypeOK
<1>4. /\ heartbeat' \in [Node -> Nat] /\ heartbeat'[i] = heartbeat[i] + 1
      /\ \A x \in Node : heartbeat[x] <= heartbeat'[x]
  BY <1>2, <1>3
<1>5. \A x \in Node : (inited[x] => inited'[x]) /\ heartbeat[x] <= heartbeat'[x]
  BY <1>2, <1>4
<1>6. PICK T \in SUBSET Node : memberList[i] \in [T -> [hb : Nat, ts : Nat]]
  BY <1>3 DEF GoodTable, IsTable
<1>7. /\ i \in T /\ own \in [T -> [hb : Nat, ts : Nat]] /\ own[i].hb = heartbeat'[i]
      /\ \A x \in T : inited[x] /\ own[x].hb <= heartbeat'[x]
  <2>1. i \in T /\ \A x \in T : inited[x] /\ memberList[i][x].hb <= heartbeat[x]
    BY <1>3, <1>6 DEF GoodTable, TrueNews, Heartbeats
  <2>2. own \in [T -> [hb : Nat, ts : Nat]] /\ own[i].hb = heartbeat'[i]
    BY <1>1, <1>3, <1>4, <1>6, <2>1
  <2>3. ASSUME NEW x \in T PROVE own[x].hb <= heartbeat'[x]
    BY <1>1, <1>3, <1>4, <1>6, <2>1
  <2>4. QED BY <2>1, <2>2, <2>3
<1>8. PICK U \in SUBSET T : /\ i \in U /\ tab \in [U -> [hb : Nat, ts : Nat]]
                           /\ \A x \in U : tab[x] = own[x]
  BY <1>1, <1>7 DEF Expired
<1>9. IsTable(own) /\ IsTable(tab)
  BY <1>6, <1>7, <1>8 DEF IsTable
<1>10. TrueNews(FreshNews(own))' /\ TrueNews(FreshNews(tab))'
  BY <1>2, <1>7, <1>8, <1>9, FreshNewsShape DEF TrueNews, FreshNews, Fresh
<1>11. \A n \in PendingMessages' : IsMessage(n) /\ TrueNews(n.list)'
  <2>1. BagToSet(net') \subseteq BagToSet(net) \cup ms
    <3>1. Send(ms)
      BY <1>1
    <3>2. QED BY <3>1, SendPuts
  <2>2. PendingMessages' \subseteq PendingMessages \cup ms
    BY <1>2, <2>1 DEF PendingMessages
  <2>3. ASSUME NEW n \in ms
        PROVE  IsMessage(n) /\ n.list \in {FreshNews(own), FreshNews(tab)}
    <3>1. /\ pick \in [Suspects(i, own) -> Pairs(i)] /\ target \in SUBSET Node
          /\ n \in sendPingRequests(i, pick, own) \cup sendPing(i, target, tab)
      BY <1>1
    <3>2. QED BY <1>9, <3>1, LoopProbes
  <2>4. FreshNews(own)' = FreshNews(own) /\ FreshNews(tab)' = FreshNews(tab)
    BY <1>2 DEF FreshNews, Fresh
  <2>5. \A n \in ms : TrueNews(n.list)'
    BY <1>10, <2>3, <2>4 DEF TrueNews
  <2>6. \A n \in PendingMessages : IsMessage(n) /\ TrueNews(n.list)'
    BY <1>4, <1>5, PendingStayGood
  <2>7. QED BY <2>2, <2>3, <2>5, <2>6
<1>12. \A j \in Node : memberList'[j] = IF j = i THEN tab ELSE memberList[j]
  BY <1>1 DEF IInv, TypeOK
<1>13. TypeOK'
  <2>1. DOMAIN memberList' = Node /\ \A j \in Node : IsTable(memberList'[j])
    BY <1>1, <1>9, <1>12 DEF IInv, TypeOK
  <2>2. /\ \A n \in BagToSet(net') : IsMessage(n)
        /\ \A j \in Node : \A n \in BagToSet(mp1q'[j]) : IsMessage(n)
    BY <1>11 DEF PendingMessages
  <2>3. turn' \in 0 .. EN_GPSZ + 1 /\ pingCounter' \in [Node -> 0 .. TFAIL]
    <3>1. turn' \in 0 .. EN_GPSZ + 1
      BY <1>2, GroupAssumption DEF Node
    <3>2. TFAIL \in Nat \ {0} /\ pingCounter \in [Node -> 0 .. TFAIL]
      BY TimeoutAssumption DEF IInv, TypeOK
    <3>3. pingCounter' \in [Node -> 0 .. TFAIL]
      BY <1>1, <3>2
    <3>4. QED BY <3>1, <3>3
  <2>4. QED BY <1>2, <1>4, <2>1, <2>2, <2>3 DEF IInv, TypeOK
<1>14. Clock'
  <2>1. globaltime # StartTime(i)
    BY <1>2, <1>3, NodeFacts DEF Runs
  <2>2. QED BY <1>2, <2>1, TurnKeepsClock
<1>15. Dormant'
  BY <1>2, <1>3 DEF IInv, Dormant, TypeOK
<1>16. OwnEntry'
  BY <1>2, <1>7, <1>8, <1>12 DEF IInv, OwnEntry, TypeOK
<1>17. NoInventedNews'
  <2>1. ASSUME NEW j \in Node PROVE TrueNews(Heartbeats(memberList[j]))'
    <3>1. CASE j = i
      <4>1. memberList'[i] = tab
        BY <1>12
      <4>2. QED BY <1>2, <1>7, <1>8, <3>1, <4>1 DEF TrueNews, Heartbeats
    <3>2. CASE j # i
      BY <1>4, <1>5, <1>12, <3>2, TableStaysTrue
    <3>3. QED BY <3>1, <3>2
  <2>2. QED BY <1>11, <2>1 DEF NoInventedNews
<1>18. QED BY <1>13, <1>14, <1>15, <1>16, <1>17 DEF IInv

(* The steps that change no table, send nothing and start nobody. *)
LEMMA DriverKeepsIInv ==
    ASSUME IInv, UNCHANGED <<inited, nodeVars>>, Clock',
           globaltime' \in 0 .. TOTAL_RUNNING_TIME, turn' \in 0 .. EN_GPSZ + 1,
           bFailed' \in [Node -> BOOLEAN], failTime' \in [Node -> Nat],
           DOMAIN mp1q' = Node, PendingMessages' \subseteq PendingMessages
    PROVE  IInv'
<1> USE DEF nodeVars
<1>1. \A n \in PendingMessages' : IsMessage(n) /\ TrueNews(n.list)
  BY PendingGood DEF Good
<1>2. /\ \A n \in BagToSet(net') : IsMessage(n)
      /\ \A j \in Node : \A n \in BagToSet(mp1q'[j]) : IsMessage(n)
  BY <1>1 DEF PendingMessages
<1>3. TypeOK'
  BY <1>2 DEF IInv, TypeOK
<1>4. Dormant' /\ OwnEntry'
  BY DEF IInv, Dormant, OwnEntry
<1>5. NoInventedNews'
  BY <1>1 DEF IInv, NoInventedNews, TrueNews, Heartbeats
<1>6. QED BY <1>3, <1>4, <1>5 DEF IInv

(* Moving messages from the network into the queues keeps the invariant.      *)
LEMMA RecvLoopKeepsIInv ==
    ASSUME IInv, recvLoop
    PROVE  IInv'
<1>1. /\ turn = EN_GPSZ + 1 /\ turn' = EN_GPSZ /\ globaltime < TOTAL_RUNNING_TIME
      /\ UNCHANGED <<globaltime, inited, bFailed, failTime, nodeVars>>
  BY DEF recvLoop
<1>2. BagToSet(net') \subseteq BagToSet(net)
  BY BagAmong DEF recvLoop
<1>3. DOMAIN mp1q' = Node
  BY DEF recvLoop
<1>4. ASSUME NEW j \in Node
      PROVE  BagToSet(mp1q'[j]) \subseteq BagToSet(mp1q[j]) \cup BagToSet(net)
  <2>1. mp1q'[j] = IF Runs(j) THEN mp1q[j] (+) Among(net, Deliverable(j)) ELSE mp1q[j]
    BY DEF recvLoop
  <2>2. BagToSet(mp1q[j] (+) Among(net, Deliverable(j)))
          = BagToSet(mp1q[j]) \cup (BagToSet(net) \cap Deliverable(j))
    BY BagJoin, BagAmong
  <2>3. QED BY <2>1, <2>2
<1>5. PendingMessages' \subseteq PendingMessages
  BY <1>2, <1>4 DEF PendingMessages
<1>6. Clock'
  BY <1>1, GroupAssumption DEF IInv, Clock, StartTime, Node
<1>7. QED BY <1>1, <1>3, <1>5, <1>6, GroupAssumption, DriverKeepsIInv DEF IInv, TypeOK

(* A turn in which nothing happens keeps the invariant.                       *)
LEMMA SkipKeepsIInv ==
    ASSUME IInv, NEW i \in Node, SkipTurn(i) \/ WaitForGroup(i)
    PROVE  IInv'
<1>1. /\ turn = i /\ turn' = i - 1 /\ globaltime # StartTime(i)
      /\ UNCHANGED <<globaltime, inited, bFailed, failTime, nodeVars, netVars>>
  BY NodeFacts DEF SkipTurn, WaitForGroup, HasTurn, LoopDue, Runs, IInv, TypeOK
<1>2. Clock'
  BY <1>1, TurnKeepsClock
<1>3. turn' \in 0 .. EN_GPSZ + 1
  BY <1>1, GroupAssumption DEF Node
<1>4. QED BY <1>1, <1>2, <1>3, DriverKeepsIInv DEF IInv, TypeOK, netVars, PendingMessages

(* Failing a node keeps the invariant.                                        *)
LEMMA FailKeepsIInv ==
    ASSUME IInv, NEW i \in Node, Fail(i)
    PROVE  IInv'
<1>1. /\ bFailed' = [bFailed EXCEPT ![i] = TRUE]
      /\ failTime' = [failTime EXCEPT ![i] = globaltime]
      /\ UNCHANGED <<globaltime, turn, inited, nodeVars, netVars>>
  BY DEF Fail
<1>2. Clock'
  BY <1>1 DEF IInv, Clock, StartTime
<1>3. bFailed' \in [Node -> BOOLEAN] /\ failTime' \in [Node -> Nat]
  BY <1>1, LimitAssumption DEF IInv, TypeOK
<1>4. QED BY <1>1, <1>2, <1>3, DriverKeepsIInv DEF IInv, TypeOK, netVars, PendingMessages

(* The advance of the clock keeps the invariant: every start that was due is  *)
(* over.                                                                      *)
LEMMA TickKeepsIInv ==
    ASSUME IInv, Tick
    PROVE  IInv'
<1>1. /\ turn = 0 /\ globaltime' = globaltime + 1 /\ turn' = EN_GPSZ + 1
      /\ UNCHANGED <<inited, bFailed, failTime, nodeVars, netVars>>
  BY DEF Tick
<1>2. globaltime' \in 0 .. TOTAL_RUNNING_TIME
  BY <1>1, GroupAssumption, LimitAssumption DEF IInv, TypeOK, Clock
<1>3. Clock'
  BY <1>1, NodeFacts, GroupAssumption, LimitAssumption DEF IInv, TypeOK, Clock, StartTime, Node
<1>4. turn' \in 0 .. EN_GPSZ + 1
  BY <1>1, GroupAssumption
<1>5. QED BY <1>1, <1>2, <1>3, <1>4, DriverKeepsIInv DEF IInv, TypeOK, netVars, PendingMessages

(* A step in which nothing changes keeps the invariant.                       *)
LEMMA StutterKeepsIInv ==
    ASSUME IInv, UNCHANGED vars
    PROVE  IInv'
<1>1. Clock'
  BY DEF IInv, Clock, StartTime, vars, appVars
<1>2. QED BY <1>1, DriverKeepsIInv DEF vars, appVars, nodeVars, netVars, IInv, TypeOK, PendingMessages

(* Every step of the program keeps the invariant.                             *)
LEMMA NextKeepsIInv ==
    ASSUME IInv, [Next]_vars
    PROVE  IInv'
<1>1. CASE recvLoop
  BY <1>1, RecvLoopKeepsIInv
<1>2. CASE Tick
  BY <1>2, TickKeepsIInv
<1>3. ASSUME NEW i \in Node, NodeTurn(i) PROVE IInv'
  <2>1. CASE nodeStart(i)
    BY <2>1, StartKeepsIInv
  <2>2. CASE SkipTurn(i) \/ WaitForGroup(i)
    BY <2>2, SkipKeepsIInv
  <2>3. CASE recvJOINREQ(i)
    BY <2>3, JoinReqKeepsIInv
  <2>4. CASE recvJOINREP(i)
    BY <2>4, JoinRepKeepsIInv
  <2>5. CASE recvPING(i) \/ recvACK(i) \/ recvPINGREQ(i)
    BY <2>5, ProbeKeepsIInv DEF recvPING, recvACK, recvPINGREQ
  <2>6. CASE recvGOSSIP(i)
    BY <2>6, GossipKeepsIInv
  <2>7. CASE nodeLoopOps(i)
    BY <2>7, LoopOpsKeepsIInv
  <2>8. QED BY <1>3, <2>1, <2>2, <2>3, <2>4, <2>5, <2>6, <2>7 DEF NodeTurn
<1>4. ASSUME NEW i \in Node, Fail(i) PROVE IInv'
  BY <1>4, FailKeepsIInv
<1>5. CASE UNCHANGED vars
  BY <1>5, StutterKeepsIInv
<1>6. QED BY <1>1, <1>2, <1>3, <1>4, <1>5 DEF Next, Run, Finished

(* The inductive invariant holds in every reachable state of the protocol.    *)
THEOREM Invariance == Spec => []IInv
<1>1. Init => IInv
  BY InitIInv
<1>2. IInv /\ [Next]_vars => IInv'
  BY NextKeepsIInv
<1>3. QED BY <1>1, <1>2, PTL DEF Spec

-------------------------------------------------------------------------------
(* The theorems about the reachable states.                                   *)

(* Every reachable state is typed.  In particular no message is ever sent to  *)
(* the null address that stands for "none" in a direct ping. *)
THEOREM TypeCorrect == Spec => []TypeOK
<1>1. IInv => TypeOK
  BY DEF IInv
<1>2. QED BY <1>1, Invariance, PTL

(* Tables and messages only speak of started nodes and of heartbeats those    *)
(* nodes have reached, whatever is relayed, reordered or delivered late.      *)
THEOREM NewsAreTrue == Spec => []NoInventedNews
<1>1. IInv => NoInventedNews
  BY DEF IInv
<1>2. QED BY <1>1, Invariance, PTL

(* A started node's own entry is in its table, with its own count, so myPos   *)
(* always has an entry to point to. *)
THEOREM OwnEntryKept == Spec => []OwnEntry
<1>1. IInv => OwnEntry
  BY DEF IInv
<1>2. QED BY <1>1, Invariance, PTL

-------------------------------------------------------------------------------
(* The protocol implements the abstract view.                                 *)

(* The initial states are initial states of the abstract view.                *)
LEMMA InitImplements == Init => View!Init
BY DEF Init, View!Init, Heartbeats

(* A table that takes over some news, and loses nothing, is an update of the view. *)
LEMMA MergeUpdates ==
    ASSUME TypeOK, NEW i \in Node, NEW tab, IsTable(tab),
           NEW S \in SUBSET Node, NEW list \in [S -> Nat], TrueNews(list)
    PROVE  View!Updates(Heartbeats(tab), Heartbeats(Merge(tab, list)))
<1>1. PICK T \in SUBSET Node : tab \in [T -> [hb : Nat, ts : Nat]]
  BY DEF IsTable
<1>2. DOMAIN Heartbeats(tab) = T /\ DOMAIN Heartbeats(Merge(tab, list)) = T \cup S
  BY <1>1 DEF Heartbeats, Merge
<1>3. ASSUME NEW x \in T \cup S
      PROVE  \/ x \in T /\ Heartbeats(Merge(tab, list))[x] = Heartbeats(tab)[x]
             \/ /\ x \in S /\ Heartbeats(Merge(tab, list))[x] = list[x]
                /\ x \in T => list[x] > Heartbeats(tab)[x]
  BY <1>1, <1>2 DEF Heartbeats, Merge
<1>4. ASSUME NEW x \in S PROVE inited[x] /\ list[x] \in 0 .. heartbeat[x]
  BY DEF TrueNews, TypeOK
<1>5. QED BY <1>2, <1>3, <1>4 DEF View!Updates

(* So is the table a JOINREP is merged into.                                  *)
LEMMA MergeRawUpdates ==
    ASSUME TypeOK, NEW i \in Node, NEW tab, IsTable(tab),
           NEW S \in SUBSET Node, NEW list \in [S -> Nat], TrueNews(list),
           NEW stamps \in [S -> Nat]
    PROVE  View!Updates(Heartbeats(tab), Heartbeats(MergeRaw(tab, list, stamps)))
<1>1. PICK T \in SUBSET Node : tab \in [T -> [hb : Nat, ts : Nat]]
  BY DEF IsTable
<1>2. DOMAIN Merge(tab, list) = T \cup S
  BY <1>1 DEF Merge
<1>3. ASSUME NEW x \in T \cup S
      PROVE  MergeRaw(tab, list, stamps)[x].hb = Merge(tab, list)[x].hb
  BY <1>1 DEF MergeRaw, Merge
<1>4. Heartbeats(MergeRaw(tab, list, stamps)) = Heartbeats(Merge(tab, list))
  BY <1>1, <1>2, <1>3 DEF Heartbeats, MergeRaw
<1>5. QED BY <1>4, MergeUpdates

(* A handled message is a Hear of the view. *)
LEMMA HandleIsHear ==
    ASSUME IInv, NEW i \in Node, Runs(i), NEW m, NEW tab, IsTable(tab), NEW ms,
           Handle(i, m, tab, ms), View!Updates(Heartbeats(memberList[i]), Heartbeats(tab))
    PROVE  View!Next
<1>1. UNCHANGED <<inited, heartbeat>> /\ inited[i]
  BY RunningIsStarted DEF Handle, appVars
<1>2. \A j \in Node : memberList'[j] = IF j = i THEN tab ELSE memberList[j]
  BY DEF Handle, IInv, TypeOK
<1>3. DOMAIN Heartbeats(tab) \subseteq Node
  BY DEF IsTable, Heartbeats
<1>4. View!Hear(i)
  BY <1>1, <1>2, <1>3 DEF View!Hear
<1>5. QED BY <1>4 DEF View!Next

(* nodeStart is a Boot of the view.                                           *)
LEMMA StartIsBoot ==
    ASSUME IInv, NEW i \in Node, nodeStart(i)
    PROVE  View!Next
<1>1. ~inited[i] /\ heartbeat[i] = 0
  BY NodeFacts DEF nodeStart, HasTurn, IInv, Clock, Dormant
<1>2. /\ inited' = [inited EXCEPT ![i] = TRUE] /\ heartbeat' = [heartbeat EXCEPT ![i] = 0]
      /\ memberList' = [memberList EXCEPT ![i] = [x \in {i} |-> [hb |-> 0, ts |-> globaltime]]]
  BY DEF nodeStart
<1>3. heartbeat' = heartbeat
  BY <1>1, <1>2 DEF IInv, TypeOK
<1>4. [j \in Node |-> Heartbeats(memberList[j])]'
        = [[j \in Node |-> Heartbeats(memberList[j])] EXCEPT ![i] = [x \in {i} |-> 0]]
  BY <1>2 DEF IInv, TypeOK, Heartbeats
<1>5. View!Boot(i)
  BY <1>1, <1>2, <1>3, <1>4 DEF View!Boot
<1>6. QED BY <1>5 DEF View!Next

(* nodeLoopOps is a Beat of the view: it counts, and removes only others.     *)
LEMMA LoopOpsIsBeat ==
    ASSUME IInv, NEW i \in Node, nodeLoopOps(i)
    PROVE  View!Next
<1> DEFINE own == [memberList[i] EXCEPT ![i] = [hb |-> heartbeat[i] + 1, ts |-> globaltime]]
           tab == [x \in DOMAIN own \ Expired(i, own) |-> own[x]]
           gone == Expired(i, own)
<1>1. /\ Runs(i) /\ inited' = inited
      /\ heartbeat' = [heartbeat EXCEPT ![i] = heartbeat[i] + 1]
      /\ memberList' = [memberList EXCEPT ![i] = tab]
  BY DEF nodeLoopOps, LoopDue
<1>2. inited[i] /\ GoodTable(i, memberList[i])
  BY <1>1, RunningIsStarted, StartedHasGoodTable
<1>3. PICK T \in SUBSET Node : memberList[i] \in [T -> [hb : Nat, ts : Nat]]
  BY <1>2 DEF GoodTable, IsTable
<1>4. i \in T /\ DOMAIN own = T
  BY <1>2, <1>3 DEF GoodTable
<1>5. gone \in SUBSET (T \ {i})
  BY <1>4 DEF Expired
<1>6. Heartbeats(tab) = [x \in T \ gone |-> IF x = i THEN heartbeat[i] + 1
                                            ELSE Heartbeats(memberList[i])[x]]
  BY <1>3, <1>4, <1>5 DEF Heartbeats
<1> DEFINE view == [j \in Node |-> Heartbeats(memberList[j])]
<1>7. view' = [view EXCEPT ![i] = Heartbeats(tab)]
  BY <1>1 DEF IInv, TypeOK, Heartbeats
<1>8. view[i] = Heartbeats(memberList[i]) /\ DOMAIN view[i] = T
  BY <1>3 DEF Heartbeats
<1> HIDE DEF tab, own, gone
<1>9. view' = [view EXCEPT ![i] = [x \in DOMAIN view[i] \ gone |->
                                     IF x = i THEN heartbeat[i] + 1 ELSE view[i][x]]]
  BY <1>6, <1>7, <1>8
<1>10. gone \in SUBSET (DOMAIN view[i] \ {i})
  BY <1>5, <1>8
<1>11. View!Beat(i)
  BY <1>1, <1>2, <1>9, <1>10 DEF View!Beat
<1>12. QED BY <1>11 DEF View!Next

(* Every handler of recvCallBack is a Hear of the view.                       *)
LEMMA HandlerIsHear ==
    ASSUME IInv, NEW i \in Node,
           \/ recvJOINREQ(i) \/ recvJOINREP(i) \/ recvPING(i) \/ recvACK(i)
           \/ recvPINGREQ(i) \/ recvGOSSIP(i)
    PROVE  View!Next
<1>1. PICK m, tab, ms :
        /\ m \in BagToSet(mp1q[i]) /\ Runs(i)
        /\ Handle(i, m, tab, ms)
        /\ \/ tab = Merge(memberList[i], m.list)
           \/ m.type = "JOINREP" /\ tab = MergeRaw(memberList[i], m.list, m.ts)
  <2>1. CASE recvJOINREQ(i)
    BY <2>1 DEF recvJOINREQ, Pops
  <2>2. CASE recvJOINREP(i)
    BY <2>2 DEF recvJOINREP, Pops
  <2>3. CASE recvPING(i) \/ recvACK(i) \/ recvPINGREQ(i)
    BY <2>3 DEF recvPING, recvACK, recvPINGREQ, recvProbe, Pops
  <2>4. CASE recvGOSSIP(i)
    BY <2>4 DEF recvGOSSIP, Pops
  <2>5. QED BY <2>1, <2>2, <2>3, <2>4
<1>2. Good(m)
  BY <1>1, PendingGood DEF PendingMessages
<1>3. PICK S \in SUBSET Node : m.list \in [S -> Nat] /\ (m.type = "JOINREP" => m.ts \in [S -> Nat])
  BY <1>2 DEF Good, IsMessage, JoinReq, JoinRep, Direct, Indirect, GossipMsg
<1>4. GoodTable(i, memberList[i])
  BY <1>1, RunningIsStarted, StartedHasGoodTable
<1>5. IsTable(tab) /\ View!Updates(Heartbeats(memberList[i]), Heartbeats(tab))
  <2>1. CASE tab = Merge(memberList[i], m.list)
    BY <1>2, <1>3, <1>4, <2>1, MergeGood, MergeUpdates DEF IInv, Good, GoodTable
  <2>2. CASE m.type = "JOINREP" /\ tab = MergeRaw(memberList[i], m.list, m.ts)
    BY <1>2, <1>3, <1>4, <2>2, MergeRawGood, MergeRawUpdates DEF IInv, Good, GoodTable
  <2>3. QED BY <1>1, <2>1, <2>2
<1>6. QED BY <1>1, <1>5, HandleIsHear

(* Every step of the protocol is a step of the view or changes no table.      *)
LEMMA StepImplements ==
    ASSUME IInv, [Next]_vars
    PROVE  View!Next \/ UNCHANGED View!viewVars
<1>1. ASSUME UNCHANGED <<inited, heartbeat, memberList>>
      PROVE  UNCHANGED View!viewVars
  BY <1>1 DEF View!viewVars, Heartbeats
<1>2. CASE recvLoop \/ Tick \/ \E i \in Node : Fail(i)
  BY <1>1, <1>2 DEF recvLoop, Tick, Fail, nodeVars
<1>3. CASE UNCHANGED vars
  BY <1>1, <1>3 DEF vars, appVars, nodeVars
<1>4. ASSUME NEW i \in Node, NodeTurn(i)
      PROVE  View!Next \/ UNCHANGED View!viewVars
  <2>1. CASE SkipTurn(i) \/ WaitForGroup(i)
    BY <1>1, <2>1 DEF SkipTurn, WaitForGroup, nodeVars
  <2>2. CASE nodeStart(i)
    BY <2>2, StartIsBoot
  <2>3. CASE nodeLoopOps(i)
    BY <2>3, LoopOpsIsBeat
  <2>4. QED BY <1>4, <2>1, <2>2, <2>3, HandlerIsHear DEF NodeTurn
<1>5. QED BY <1>2, <1>3, <1>4 DEF Next, Run, Finished

(* Every behaviour of the protocol is one of the abstract view: views grow by *)
(* true news only, news of a node are replaced by newer ones only, and a node *)
(* forgets others only in its own periodic work, and never itself.            *)
THEOREM ImplementsView == Spec => ViewSpec
<1>1. Init => View!Init
  BY InitImplements
<1>2. IInv /\ [Next]_vars => [View!Next]_(View!viewVars)
  BY StepImplements
<1>3. QED BY <1>1, <1>2, Invariance, PTL DEF Spec, ViewSpec, View!Spec

-------------------------------------------------------------------------------
(* The probes work: nobody who is up is removed.                              *)
(*                                                                            *)
(* What the program's own constants and test cases satisfy.                   *)

(* Every node is started so early that its JOINREP is handled before the      *)
(* oldest entry is TFAIL ticks old.                                           *)
StartsInTime == \A i \in Node : StartTime(i) + 2 <= TFAIL

(* The driver fails at most one node, and only after every JOINREQ has been   *)
(* handled.                                                                   *)
OneFailure == MaxFailures \in {0, 1}
FailsLater == \A t \in FailTimes : \A i \in Node : t > StartTime(i)

(* A probe has room for an entry of every node.                               *)
ProbesFit == EN_GPSZ <= MaxEntries

(* An entry is erased only when a probe about it has had the time to be       *)
(* answered.                                                                  *)
RemovesLate == TFAIL + 4 <= TREMOVE

(* A message is sent in one tick and due, that is, handled, in the next.      *)
Sent(m) == turn <= EN_GPSZ /\ m \in BagToSet(net)
Due(m) == \/ m \in BagToSet(mp1q[m.to])
          \/ turn = EN_GPSZ + 1 /\ m \in BagToSet(net)

(* The queues hold copies of messages for their node, and only while a        *)
(* running node has its turn before it.                                       *)
Queues ==
    /\ IsABag(net)
    /\ \A j \in Node : IsABag(mp1q[j])
    /\ \A j \in Node : \A m \in BagToSet(mp1q[j]) : m.to = j
Drained ==
    \A j \in Node : BagToSet(mp1q[j]) # {} => Runs(j) /\ j <= turn /\ turn <= EN_GPSZ

QInv == Queues /\ Drained

-------------------------------------------------------------------------------
(* Queues.                                                                    *)

(* Of the messages sent, what fits is in flight afterwards, with what was.    *)
LEMMA SendAdds ==
    ASSUME IsABag(net), NEW ms, Send(ms)
    PROVE  /\ IsABag(net')
           /\ BagToSet(net') = BagToSet(net) \cup {m \in ms : Fits(m)}
<1>. DEFINE S == {m \in ms : Fits(m)}
<1>1. net' = net (+) SetToBag(S)
  BY DEF Send
<1>2. BagToSet(net (+) SetToBag(S)) = BagToSet(net) \cup S
  BY BagPut
<1>. HIDE DEF S
<1>3. IsABag(net (+) SetToBag(S))
  BY DEF IsABag, SetToBag, (+), BagToSet
<1>. QED BY <1>1, <1>2, <1>3 DEF S

(* A message taken from a bag leaves the others there.                        *)
LEMMA BagTakes ==
    ASSUME NEW B, IsABag(B), NEW m
    PROVE  /\ IsABag(B (-) SetToBag({m}))
           /\ BagToSet(B (-) SetToBag({m})) \subseteq BagToSet(B)
           /\ \A x \in BagToSet(B) : x # m => x \in BagToSet(B (-) SetToBag({m}))
BY DEF IsABag, BagToSet, SetToBag, (-)

(* The bags that recvLoop builds.                                             *)
LEMMA BagMoves ==
    ASSUME NEW B, IsABag(B), NEW C, IsABag(C), NEW S
    PROVE  IsABag(Among(B, S)) /\ IsABag(C (+) Among(B, S))
BY DEF IsABag, BagToSet, Among, (+)

(* What recvLoop does: whatever is for a running node is in its queue, and    *)
(* only what is for a node that is not started yet stays in flight.           *)
LEMMA Received ==
    ASSUME IInv, QInv, recvLoop
    PROVE  /\ IsABag(net') /\ BagToSet(net') \subseteq BagToSet(net)
           /\ \A m \in BagToSet(net') : ~Runs(m.to) /\ ~bFailed[m.to]
           /\ \A j \in Node : /\ IsABag(mp1q'[j])
                              /\ BagToSet(mp1q'[j]) = IF Runs(j) THEN {m \in BagToSet(net) : m.to = j}
                                                      ELSE {}
<1>1. net' = Among(net, Undelivered) /\ IsABag(net) /\ turn = EN_GPSZ + 1
  BY DEF recvLoop, QInv, Queues
<1>2. BagToSet(net') = BagToSet(net) \cap Undelivered /\ IsABag(net')
  BY <1>1, BagAmong, BagMoves
<1>3. ASSUME NEW j \in Node
      PROVE  /\ IsABag(mp1q'[j])
             /\ BagToSet(mp1q'[j]) = IF Runs(j) THEN {m \in BagToSet(net) : m.to = j} ELSE {}
  <2>1. mp1q'[j] = IF Runs(j) THEN mp1q[j] (+) Among(net, Deliverable(j)) ELSE mp1q[j]
    BY DEF recvLoop
  <2>2. BagToSet(mp1q[j]) = {} /\ IsABag(mp1q[j])
    BY <1>1, GroupAssumption DEF QInv, Queues, Drained
  <2>3. BagToSet(mp1q[j] (+) Among(net, Deliverable(j))) = BagToSet(net) \cap Deliverable(j)
    BY <2>2, BagJoin, BagAmong
  <2>4. IsABag(mp1q[j] (+) Among(net, Deliverable(j)))
    BY <1>1, <2>2, BagMoves
  <2>5. BagToSet(net) \cap Deliverable(j) = {m \in BagToSet(net) : m.to = j}
    BY DEF Deliverable
  <2>. QED BY <2>1, <2>2, <2>3, <2>4, <2>5
<1>. QED BY <1>2, <1>3 DEF Undelivered

-------------------------------------------------------------------------------
(* The steps.                                                                 *)

(* n is a JOINREP with entries of tab, to someone. *)
Introduces(n, tab) ==
    /\ DOMAIN n.list \subseteq DOMAIN tab /\ DOMAIN n.ts = DOMAIN n.list
    /\ \A x \in DOMAIN n.list : n.list[x] = tab[x].hb /\ n.ts[x] = tab[x].ts

(* The six handlers: i handles m, its table becomes tab and it sends ms.      *)
Hears(i, m, tab, ms) ==
    /\ turn = i /\ Runs(i) /\ m \in BagToSet(mp1q[i])
    /\ Handle(i, m, tab, ms)
    /\ \/ /\ m.type = "JOINREP" /\ tab = MergeRaw(memberList[i], m.list, m.ts)
          /\ inGroup' = [inGroup EXCEPT ![i] = TRUE]
       \/ /\ m.type # "JOINREP" /\ tab = Merge(memberList[i], m.list)
          /\ inGroup' = inGroup
    /\ \A n \in ms : /\ n.type # "JOINREQ"
                     /\ n.type = "JOINREP" => /\ m.type = "JOINREQ" /\ n.to = m.from
                                              /\ Introduces(n, tab)
    /\ m.type = "JOINREQ" => \E n \in ms : n.type = "JOINREP" /\ n.to = m.from
    /\ m.type \in {"PING", "ACK", "PINGREQ"} => Answer(i, m, tab) \subseteq ms

Handles(i) ==
    \/ recvJOINREQ(i) \/ recvJOINREP(i) \/ recvPING(i) \/ recvACK(i)
    \/ recvPINGREQ(i) \/ recvGOSSIP(i)

(* No gossip is a JOINREQ or a JOINREP. *)
LEMMA GossipIsGossip ==
    ASSUME NEW list, NEW pick
    PROVE  \A n \in GossipEach(list, pick) : n.type = "GOSSIP"
BY DEF GossipEach, sendGossip

(* What is answered to a probe is a probe. *)
LEMMA AnswerIsProbe ==
    ASSUME NEW i, NEW m, NEW tab
    PROVE  m.type \in {"PING", "ACK", "PINGREQ"} =>
               \A n \in Answer(i, m, tab) : n.type \in {"PING", "ACK", "PINGREQ"}
<1>1. CASE m.type = "PING"
  BY <1>1 DEF Answer, ProbeMsg
<1>2. CASE m.type = "ACK" /\ m.fromPingreq
  BY <1>2 DEF Answer, ProbeMsg
<1>3. CASE m.type = "ACK" /\ ~m.fromPingreq
  BY <1>3 DEF Answer
<1>4. CASE m.type = "PINGREQ"
  BY <1>4 DEF Answer, ProbeMsg
<1>. QED BY <1>1, <1>2, <1>3, <1>4

(* Every handler is an instance of Hears.                                     *)
LEMMA HandlersHear ==
    ASSUME NEW i \in Node, Handles(i)
    PROVE  \E m, tab, ms : Hears(i, m, tab, ms)
<1>1. CASE recvJOINREQ(i)
  <2>1. PICK m \in BagToSet(mp1q[i]) :
          /\ Pops(i, m, {"JOINREQ"})
          /\ \E pick \in Picks(i, m.list), S \in Firsts(i, Merge(memberList[i], m.list)) :
               Handle(i, m, Merge(memberList[i], m.list),
                      GossipEach(m.list, pick) \cup
                      {[type |-> "JOINREP", to |-> m.from,
                        list |-> [x \in S |-> Merge(memberList[i], m.list)[x].hb],
                        ts |-> [x \in S |-> Merge(memberList[i], m.list)[x].ts]]})
    BY <1>1 DEF recvJOINREQ
  <2>. DEFINE tab == Merge(memberList[i], m.list)
              reply(S) == [type |-> "JOINREP", to |-> m.from,
                           list |-> [x \in S |-> tab[x].hb], ts |-> [x \in S |-> tab[x].ts]]
  <2>2. PICK pick \in Picks(i, m.list), S \in Firsts(i, tab) :
          Handle(i, m, tab, GossipEach(m.list, pick) \cup {reply(S)})
    BY <2>1
  <2>3. S \subseteq DOMAIN tab
    BY DEF Firsts
  <2>4. reply(S).type = "JOINREP" /\ reply(S).to = m.from /\ Introduces(reply(S), tab)
    BY <2>3 DEF Introduces
  <2>5. turn = i /\ Runs(i) /\ m.type = "JOINREQ" /\ inGroup' = inGroup
    BY <1>1, <2>1 DEF recvJOINREQ, Pops
  <2>6. tab = Merge(memberList[i], m.list)
    OBVIOUS
  <2>. DEFINE ms == GossipEach(m.list, pick) \cup {reply(S)}
  <2>. HIDE DEF tab, reply
  <2>7. \A n \in ms : /\ n.type # "JOINREQ"
                      /\ n.type = "JOINREP" => n.to = m.from /\ Introduces(n, tab)
    BY <2>4, GossipIsGossip
  <2>8. \E n \in ms : n.type = "JOINREP" /\ n.to = m.from
    BY <2>4
  <2>. HIDE DEF ms
  <2>9. Hears(i, m, tab, ms)
    BY <2>2, <2>5, <2>6, <2>7, <2>8 DEF Hears, ms
  <2>. QED BY <2>9
<1>2. CASE recvJOINREP(i)
  <2>1. PICK m \in BagToSet(mp1q[i]) :
          /\ Pops(i, m, {"JOINREP"})
          /\ \E pair \in Pairs(i), S \in Firsts(i, MergeRaw(memberList[i], m.list, m.ts)) :
               Handle(i, m, MergeRaw(memberList[i], m.list, m.ts),
                      sendGossip(pair, TTL,
                                 [x \in S |-> MergeRaw(memberList[i], m.list, m.ts)[x].hb]))
    BY <1>2 DEF recvJOINREP
  <2>. DEFINE tab == MergeRaw(memberList[i], m.list, m.ts)
  <2>. PICK pair \in Pairs(i), S \in Firsts(i, tab) :
          Handle(i, m, tab, sendGossip(pair, TTL, [x \in S |-> tab[x].hb]))
    BY <2>1
  <2>. DEFINE ms == sendGossip(pair, TTL, [x \in S |-> tab[x].hb])
  <2>2. /\ tab = MergeRaw(memberList[i], m.list, m.ts)
        /\ Handle(i, m, tab, ms) /\ \A n \in ms : n.type = "GOSSIP"
    BY DEF sendGossip
  <2>. HIDE DEF tab, ms
  <2>3. turn = i /\ Runs(i) /\ m.type = "JOINREP" /\ inGroup' = [inGroup EXCEPT ![i] = TRUE]
    BY <1>2, <2>1 DEF recvJOINREP, Pops
  <2>4. Hears(i, m, tab, ms)
    BY <2>2, <2>3 DEF Hears
  <2>. QED BY <2>4
<1>3. ASSUME NEW type \in {"PING", "ACK", "PINGREQ"}, recvProbe(i, type)
      PROVE  \E m, tab, ms : Hears(i, m, tab, ms)
  <2>1. PICK m \in BagToSet(mp1q[i]) :
          /\ Pops(i, m, {type})
          /\ \E pick \in Picks(i, m.list) :
               Handle(i, m, Merge(memberList[i], m.list),
                      GossipEach(m.list, pick) \cup Answer(i, m, Merge(memberList[i], m.list)))
    BY <1>3 DEF recvProbe
  <2>2. PICK tab, pick : /\ tab = Merge(memberList[i], m.list)
                         /\ Handle(i, m, tab, GossipEach(m.list, pick) \cup Answer(i, m, tab))
    BY <2>1
  <2>3. turn = i /\ Runs(i) /\ m.type = type /\ inGroup' = inGroup
    BY <1>3, <2>1 DEF recvProbe, Pops
  <2>. DEFINE ms == GossipEach(m.list, pick) \cup Answer(i, m, tab)
  <2>4. \A n \in ms : n.type \in {"PING", "ACK", "PINGREQ", "GOSSIP"}
    BY <2>3, GossipIsGossip, AnswerIsProbe
  <2>5. Answer(i, m, tab) \subseteq ms /\ Handle(i, m, tab, ms)
    BY <2>2
  <2>. HIDE DEF ms
  <2>6. Hears(i, m, tab, ms)
    BY <2>2, <2>3, <2>4, <2>5 DEF Hears
  <2>. QED BY <2>6
<1>4. CASE recvGOSSIP(i)
  <2>1. PICK m \in BagToSet(mp1q[i]) :
          /\ Pops(i, m, {"GOSSIP"})
          /\ \E pick \in Picks(i, m.list), pair \in Pairs(i) :
               Handle(i, m, Merge(memberList[i], m.list),
                      GossipEach(m.list, pick) \cup
                      IF m.ttl - 1 > 0 THEN sendGossip(pair, m.ttl - 1, m.list) ELSE {})
    BY <1>4 DEF recvGOSSIP
  <2>. DEFINE tab == Merge(memberList[i], m.list)
              on(pair) == IF m.ttl - 1 > 0 THEN sendGossip(pair, m.ttl - 1, m.list) ELSE {}
  <2>. PICK pick \in Picks(i, m.list), pair \in Pairs(i) :
          Handle(i, m, tab, GossipEach(m.list, pick) \cup on(pair))
    BY <2>1
  <2>. DEFINE onward == on(pair)
  <2>2. /\ tab = Merge(memberList[i], m.list)
        /\ \A n \in onward : n.type = "GOSSIP"
        /\ Handle(i, m, tab, GossipEach(m.list, pick) \cup onward)
    BY DEF sendGossip
  <2>. HIDE DEF tab, onward
  <2>3. turn = i /\ Runs(i) /\ m.type = "GOSSIP" /\ inGroup' = inGroup
    BY <1>4, <2>1 DEF recvGOSSIP, Pops
  <2>. DEFINE ms == GossipEach(m.list, pick) \cup onward
  <2>4. \A n \in ms : n.type = "GOSSIP"
    BY <2>2, GossipIsGossip
  <2>5. Handle(i, m, tab, ms)
    BY <2>2
  <2>. HIDE DEF ms
  <2>6. Hears(i, m, tab, ms)
    BY <2>2, <2>3, <2>4, <2>5 DEF Hears
  <2>. QED BY <2>6
<1>. QED BY <1>1, <1>2, <1>3, <1>4 DEF Handles, recvPING, recvACK, recvPINGREQ

(* A turn in which no message is handled: i is started, does its periodic     *)
(* work, or does nothing.                                                     *)
Passes(i) ==
    /\ turn = i /\ turn' = i - 1 /\ globaltime' = globaltime
    /\ mp1q' = mp1q /\ BagToSet(mp1q[i]) = {}
    /\ IsABag(net') /\ BagToSet(net) \subseteq BagToSet(net')

(* Such are the turns that are no handler's.                                  *)
LEMMA TurnsPass ==
    ASSUME IInv, QInv, NEW i \in Node,
           nodeStart(i) \/ SkipTurn(i) \/ WaitForGroup(i) \/ nodeLoopOps(i)
    PROVE  Passes(i)
<1>1. turn = i /\ turn' = i - 1 /\ globaltime' = globaltime /\ mp1q' = mp1q
  BY DEF nodeStart, SkipTurn, WaitForGroup, nodeLoopOps, HasTurn, netVars
<1>2. IsABag(net)
  BY DEF QInv, Queues
<1>3. BagToSet(mp1q[i]) = {}
  <2>1. CASE nodeStart(i) \/ SkipTurn(i)
    <3>1. ~Runs(i)
      BY <2>1, NodeFacts DEF nodeStart, SkipTurn, Runs
    <3>. QED BY <3>1 DEF QInv, Drained
  <2>2. CASE WaitForGroup(i) \/ nodeLoopOps(i)
    BY <2>2 DEF WaitForGroup, nodeLoopOps, LoopDue
  <2>. QED BY <2>1, <2>2
<1>4. IsABag(net') /\ BagToSet(net) \subseteq BagToSet(net')
  <2>1. CASE SkipTurn(i) \/ WaitForGroup(i)
    BY <1>2, <2>1 DEF SkipTurn, WaitForGroup, netVars
  <2>2. CASE nodeStart(i) \/ nodeLoopOps(i)
    <3>1. PICK ms : Send(ms)
      BY <2>2 DEF nodeStart, nodeLoopOps
    <3>. QED BY <1>2, <3>1, SendAdds
  <2>. QED BY <2>1, <2>2
<1>. QED BY <1>1, <1>3, <1>4 DEF Passes

(* What a handler does to the queues.                                         *)
LEMMA HearQueues ==
    ASSUME IInv, QInv, NEW i \in Node, NEW m, NEW tab, NEW ms, Hears(i, m, tab, ms)
    PROVE  /\ UNCHANGED <<appVars, heartbeat>> /\ turn = i /\ m.to = i
           /\ \A j \in Node : memberList'[j] = IF j = i THEN tab ELSE memberList[j]
           /\ IsABag(net') /\ BagToSet(net') = BagToSet(net) \cup {n \in ms : Fits(n)}
           /\ \A j \in Node :
                /\ IsABag(mp1q'[j]) /\ BagToSet(mp1q'[j]) \subseteq BagToSet(mp1q[j])
                /\ \A n \in BagToSet(mp1q[j]) : n # m \/ j # i => n \in BagToSet(mp1q'[j])
<1>1. /\ turn = i /\ Handle(i, m, tab, ms) /\ Send(ms) /\ m \in BagToSet(mp1q[i])
      /\ UNCHANGED <<appVars, heartbeat>>
      /\ mp1q' = [mp1q EXCEPT ![i] = mp1q[i] (-) SetToBag({m})]
      /\ memberList' = [memberList EXCEPT ![i] = tab]
  BY DEF Hears, Handle
<1>2. IsABag(net) /\ m.to = i /\ \A j \in Node : IsABag(mp1q[j])
  BY <1>1 DEF QInv, Queues
<1>3. IsABag(net') /\ BagToSet(net') = BagToSet(net) \cup {n \in ms : Fits(n)}
  BY <1>1, <1>2, SendAdds
<1>4. DOMAIN mp1q = Node /\ DOMAIN memberList = Node
  BY DEF IInv, TypeOK
<1>5. ASSUME NEW j \in Node
      PROVE  /\ IsABag(mp1q'[j]) /\ BagToSet(mp1q'[j]) \subseteq BagToSet(mp1q[j])
             /\ \A n \in BagToSet(mp1q[j]) : n # m \/ j # i => n \in BagToSet(mp1q'[j])
  <2>1. CASE j = i
    <3>1. mp1q'[j] = mp1q[i] (-) SetToBag({m})
      BY <1>1, <1>4, <2>1
    <3>2. /\ IsABag(mp1q[i] (-) SetToBag({m}))
          /\ BagToSet(mp1q[i] (-) SetToBag({m})) \subseteq BagToSet(mp1q[i])
          /\ \A x \in BagToSet(mp1q[i]) : x # m => x \in BagToSet(mp1q[i] (-) SetToBag({m}))
      BY <1>2, BagTakes
    <3>. QED BY <2>1, <3>1, <3>2
  <2>2. CASE j # i
    BY <1>1, <1>2, <1>4, <2>2
  <2>. QED BY <2>1, <2>2
<1>6. \A j \in Node : memberList'[j] = IF j = i THEN tab ELSE memberList[j]
  BY <1>1, <1>4
<1>. QED BY <1>1, <1>2, <1>3, <1>5, <1>6

(* The steps of the program, sorted by what they do to the messages.          *)
LEMMA StepCases ==
    ASSUME Next
    PROVE  \/ recvLoop \/ Tick \/ Finished
           \/ \E i \in Node : Fail(i) \/ Handles(i) \/ nodeStart(i) \/ SkipTurn(i)
                              \/ WaitForGroup(i) \/ nodeLoopOps(i)
BY DEF Next, Run, NodeTurn, Handles

(* QInv holds initially.                                                      *)
LEMMA InitQInv == Init => QInv
BY DEF Init, QInv, Queues, Drained, IsABag, EmptyBag, SetToBag, BagToSet

(* Every step keeps QInv.                                                     *)
LEMMA NextKeepsQInv ==
    ASSUME IInv, QInv, [Next]_vars
    PROVE  QInv'
<1>1. CASE recvLoop
  <2>1. /\ IsABag(net')
        /\ \A j \in Node : /\ IsABag(mp1q'[j])
                           /\ BagToSet(mp1q'[j]) = IF Runs(j) THEN {m \in BagToSet(net) : m.to = j}
                                                   ELSE {}
    BY <1>1, Received
  <2>2. turn' = EN_GPSZ /\ UNCHANGED <<globaltime, bFailed>>
    BY <1>1 DEF recvLoop
  <2>3. Queues'
    BY <2>1 DEF Queues
  <2>4. ASSUME NEW j \in Node, BagToSet(mp1q'[j]) # {}
        PROVE  Runs(j)' /\ j <= turn' /\ turn' <= EN_GPSZ
    <3>1. Runs(j)
      BY <2>1, <2>4
    <3>2. j <= EN_GPSZ /\ EN_GPSZ <= EN_GPSZ
      BY GroupAssumption DEF Node
    <3>. QED BY <2>2, <3>1, <3>2 DEF Runs, StartTime
  <2>. QED BY <2>3, <2>4 DEF QInv, Drained
<1>2. ASSUME turn = 0 \/ UNCHANGED <<turn, globaltime, bFailed>>, UNCHANGED netVars
      PROVE  QInv'
  <2>1. Queues'
    BY <1>2 DEF QInv, Queues, netVars
  <2>2. CASE turn = 0
    <3>1. \A j \in Node : BagToSet(mp1q'[j]) = {}
      BY <1>2, <2>2, GroupAssumption DEF QInv, Drained, Node, netVars
    <3>. QED BY <2>1, <3>1 DEF QInv, Drained
  <2>3. CASE UNCHANGED <<turn, globaltime, bFailed>>
    BY <1>2, <2>1, <2>3 DEF QInv, Drained, Runs, StartTime, netVars
  <2>. QED BY <1>2, <2>2, <2>3
<1>3. CASE Tick \/ (\E i \in Node : Fail(i)) \/ UNCHANGED vars \/ Finished
  BY <1>2, <1>3 DEF Tick, Fail, Finished, vars, appVars
<1>4. ASSUME NEW i \in Node, Handles(i)
      PROVE  QInv'
  <2>1. PICK m, tab, ms : Hears(i, m, tab, ms)
    BY <1>4, HandlersHear
  <2>2. /\ UNCHANGED appVars /\ IsABag(net')
        /\ \A j \in Node : IsABag(mp1q'[j]) /\ BagToSet(mp1q'[j]) \subseteq BagToSet(mp1q[j])
    BY <2>1, HearQueues
  <2>. QED BY <2>2 DEF QInv, Queues, Drained, Runs, StartTime, appVars
<1>5. ASSUME NEW i \in Node,
             nodeStart(i) \/ SkipTurn(i) \/ WaitForGroup(i) \/ nodeLoopOps(i)
      PROVE  QInv'
  <2>1. Passes(i)
    BY <1>5, TurnsPass
  <2>2. \A j \in Node \ {i} : bFailed'[j] = bFailed[j]
    BY <1>5 DEF nodeStart, SkipTurn, WaitForGroup, nodeLoopOps, IInv, TypeOK
  <2>3. Queues'
    BY <2>1 DEF Passes, QInv, Queues
  <2>4. ASSUME NEW j \in Node, BagToSet(mp1q'[j]) # {}
        PROVE  Runs(j)' /\ j <= turn' /\ turn' <= EN_GPSZ
    <3>1. j # i /\ Runs(j) /\ j <= i /\ i <= EN_GPSZ
      BY <2>1, <2>4 DEF Passes, QInv, Drained
    <3>2. j <= i - 1 /\ i - 1 <= EN_GPSZ
      BY <3>1, GroupAssumption DEF Node
    <3>3. Runs(j)'
      BY <2>1, <2>2, <3>1 DEF Runs, Passes, StartTime
    <3>. QED BY <2>1, <3>2, <3>3 DEF Passes
  <2>. QED BY <2>3, <2>4 DEF QInv, Drained
<1>. QED BY <1>1, <1>3, <1>4, <1>5, StepCases

(* The queues are as described in every reachable state.                      *)
LEMMA QueuesInvariant == Spec => []QInv
<1>. QED BY InitQInv, NextKeepsQInv, Invariance, PTL DEF Spec

-------------------------------------------------------------------------------
(* What a step does to one message.                                           *)

(* In a turn without a handler nothing is lost.                               *)
LEMMA PassMessages ==
    ASSUME NEW i \in Node, Passes(i), NEW n
    PROVE  (Sent(n) => Sent(n)') /\ (Due(n) => Due(n)')
<1>1. turn \in Int /\ turn <= EN_GPSZ /\ turn' = turn - 1 /\ EN_GPSZ \in Nat
  BY GroupAssumption DEF Passes, Node
<1>. QED BY <1>1 DEF Sent, Due, Passes

(* A handler takes its message only, and what it sends is on its way.         *)
LEMMA HearMessages ==
    ASSUME IInv, QInv, NEW i \in Node, NEW m, NEW tab, NEW ms, Hears(i, m, tab, ms), NEW n
    PROVE  /\ Sent(n) => Sent(n)'
           /\ Due(n) /\ n # m /\ n.to \in Node => Due(n)'
           /\ n \in ms /\ Fits(n) => Sent(n)'
<1>1. /\ turn = i /\ turn' = turn
      /\ BagToSet(net') = BagToSet(net) \cup {x \in ms : Fits(x)}
      /\ \A j \in Node : \A x \in BagToSet(mp1q[j]) : x # m \/ j # i => x \in BagToSet(mp1q'[j])
  BY HearQueues DEF appVars
<1>2. turn <= EN_GPSZ /\ turn # EN_GPSZ + 1
  BY <1>1, GroupAssumption DEF Node
<1>. QED BY <1>1, <1>2 DEF Sent, Due

(* When the clock moves, nothing is due any more, and what was sent is due.   *)
LEMMA TickMessages ==
    ASSUME QInv, Tick, NEW n, n.to \in Node
    PROVE  ~Due(n) /\ (Sent(n) => Due(n)')
<1>1. turn = 0 /\ turn' = EN_GPSZ + 1 /\ UNCHANGED netVars
  BY DEF Tick
<1>2. BagToSet(mp1q[n.to]) = {} /\ turn # EN_GPSZ + 1
  BY <1>1, GroupAssumption DEF QInv, Drained, Node
<1>. QED BY <1>1, <1>2 DEF Sent, Due, netVars

(* What is due to a running node gets into its queue.                         *)
LEMMA RecvMessages ==
    ASSUME IInv, QInv, recvLoop, NEW n, n.to \in Node
    PROVE  ~Sent(n) /\ (Due(n) /\ Runs(n.to) => Due(n)')
<1>1. turn = EN_GPSZ + 1
  BY DEF recvLoop
<1>2. ~Sent(n) /\ BagToSet(mp1q[n.to]) = {}
  BY <1>1, GroupAssumption DEF QInv, Drained, Sent
<1>3. Runs(n.to) => BagToSet(mp1q'[n.to]) = {m \in BagToSet(net) : m.to = n.to}
  BY Received
<1>4. Due(n) => n \in BagToSet(net)
  BY <1>2 DEF Due
<1>. QED BY <1>2, <1>3, <1>4 DEF Due

-------------------------------------------------------------------------------
(* The start of a run: who fails, and when the messages of a join are about.  *)

(* At most one node fails, and when it does everybody has been started and    *)
(* every JOINREQ handled.                                                     *)
FailedOnce == \A a, b \in Node : bFailed[a] /\ bFailed[b] => a = b
FailedLate ==
    \A a, i \in Node :
        bFailed[a] => globaltime > StartTime(i) /\ (turn > 0 => globaltime > StartTime(i) + 1)

(* The JOINREQ of a node started in tick t is sent in t and handled in t + 1, *)
(* in which the JOINREP is sent, which is handled in t + 2.                   *)
Wait == IF turn = EN_GPSZ + 1 THEN 1 ELSE 0
JoinTimes ==
    /\ \A m \in BagToSet(net) :
         /\ m.type = "JOINREQ" => m.to = Introducer /\ globaltime = StartTime(m.from) + Wait
         /\ m.type = "JOINREP" => globaltime = StartTime(m.to) + 1 + Wait
    /\ \A j \in Node : \A m \in BagToSet(mp1q[j]) :
         /\ m.type = "JOINREQ" => m.to = Introducer /\ globaltime = StartTime(m.from) + 1
         /\ m.type = "JOINREP" => globaltime = StartTime(m.to) + 2

(* A node that has not been started knows nobody, and one that has is in the  *)
(* group once it has handled its JOINREP, not earlier.                        *)
Blank == \A i \in Node : ~inited[i] => DOMAIN memberList[i] = {}
GroupTimes ==
    \A i \in Node \ {Introducer} :
        inGroup[i] => \/ globaltime > StartTime(i) + 2
                      \/ globaltime = StartTime(i) + 2 /\ turn <= i

StartInv == FailedOnce /\ FailedLate /\ JoinTimes /\ Blank /\ GroupTimes

(* The introducer is started first.                                           *)
LEMMA IntroducerFirst == StartTime(Introducer) = 0
<1>1. \A K \in Nat \ {0} : 0 \div K = 0
  OBVIOUS
<1>. QED BY <1>1, LimitAssumption DEF StartTime, Introducer

(* Nobody fails before everybody has been started.                            *)
LEMMA StartsKeepFailures ==
    ASSUME IInv, StartInv, NEW i \in Node, nodeStart(i)
    PROVE  bFailed' = bFailed /\ \A j \in Node : ~bFailed[j]
<1>1. globaltime = StartTime(i) /\ turn = i /\ bFailed' = [bFailed EXCEPT ![i] = FALSE]
  BY DEF nodeStart, HasTurn
<1>2. StartTime(i) \in Nat /\ i > 0
  BY NodeFacts, GroupAssumption DEF Node
<1>3. \A j \in Node : ~bFailed[j]
  BY <1>1, <1>2 DEF StartInv, FailedLate
<1>4. bFailed \in [Node -> BOOLEAN]
  BY DEF IInv, TypeOK
<1>. QED BY <1>1, <1>3, <1>4

(* The driver fails nobody when somebody has failed.                          *)
LEMMA FailFirst ==
    ASSUME OneFailure, NEW i \in Node, Fail(i)
    PROVE  \A j \in Node : ~bFailed[j]
<1>. DEFINE F == {j \in Node : bFailed[j]}
<1>1. Cardinality(F) < MaxFailures
  BY DEF Fail
<1>2. IsFiniteSet(Node)
  BY FS_Interval, GroupAssumption DEF Node
<1>3. IsFiniteSet(F)
  BY <1>2, FS_Subset
<1>4. Cardinality(F) \in Nat
  BY <1>3, FS_CardinalityType
<1>5. Cardinality(F) = 0
  BY <1>1, <1>4 DEF OneFailure
<1>6. F = {}
  BY <1>3, <1>5, FS_EmptySet
<1>. QED BY <1>6

(* StartInv holds initially.                                                  *)
LEMMA InitStartInv == Init => StartInv
<1>. SUFFICES ASSUME Init PROVE StartInv
  OBVIOUS
<1>1. FailedOnce /\ FailedLate /\ Blank /\ GroupTimes
  BY DEF Init, FailedOnce, FailedLate, Blank, GroupTimes
<1>2. BagToSet(net) = {} /\ \A j \in Node : BagToSet(mp1q[j]) = {}
  BY DEF Init, BagToSet, EmptyBag, SetToBag
<1>3. JoinTimes
  BY <1>2 DEF JoinTimes
<1>. QED BY <1>1, <1>3 DEF StartInv

(* Who fails, fails late and alone.                                           *)
LEMMA FailuresStay ==
    ASSUME OneFailure, FailsLater, IInv, StartInv, [Next]_vars
    PROVE  FailedOnce' /\ FailedLate'
<1>0. globaltime \in Nat /\ turn \in Nat /\ \A i \in Node : StartTime(i) \in Nat
  BY NodeFacts, LimitAssumption, GroupAssumption DEF IInv, TypeOK
<1>1. ASSUME bFailed' = bFailed, globaltime' = globaltime, turn' > 0 => turn > 0
      PROVE  FailedOnce' /\ FailedLate'
  BY <1>1 DEF StartInv, FailedOnce, FailedLate, StartTime
<1>2. CASE recvLoop
  BY <1>1, <1>2, GroupAssumption DEF recvLoop
<1>3. CASE Finished \/ UNCHANGED vars
  BY <1>1, <1>3 DEF Finished, vars, appVars
<1>4. ASSUME NEW i \in Node, Handles(i)
      PROVE  FailedOnce' /\ FailedLate'
  <2>1. UNCHANGED appVars
    BY <1>4, HandlersHear DEF Hears, Handle
  <2>. QED BY <1>1, <2>1 DEF appVars
<1>5. ASSUME NEW i \in Node, nodeStart(i) \/ SkipTurn(i) \/ WaitForGroup(i) \/ nodeLoopOps(i)
      PROVE  FailedOnce' /\ FailedLate'
  <2>1. turn = i /\ globaltime' = globaltime
    BY <1>5 DEF nodeStart, SkipTurn, WaitForGroup, nodeLoopOps, HasTurn
  <2>2. bFailed' = bFailed
    BY <1>5, StartsKeepFailures DEF SkipTurn, WaitForGroup, nodeLoopOps
  <2>3. turn > 0
    BY <2>1, GroupAssumption DEF Node
  <2>. QED BY <1>1, <2>1, <2>2, <2>3
<1>6. CASE Tick
  <2>1. turn = 0 /\ globaltime' = globaltime + 1 /\ bFailed' = bFailed
    BY <1>6 DEF Tick
  <2>2. ASSUME NEW a \in Node, NEW i \in Node, bFailed'[a]
        PROVE  globaltime' > StartTime(i) + 1
    <3>1. globaltime > StartTime(i)
      BY <2>1, <2>2 DEF StartInv, FailedLate
    <3>. QED BY <1>0, <2>1, <3>1
  <2>3. ASSUME NEW a \in Node, NEW i \in Node, bFailed'[a]
        PROVE  globaltime' > StartTime(i)
    <3>1. globaltime > StartTime(i)
      BY <2>1, <2>3 DEF StartInv, FailedLate
    <3>. QED BY <1>0, <2>1, <3>1
  <2>4. FailedOnce'
    BY <2>1 DEF StartInv, FailedOnce
  <2>. QED BY <2>2, <2>3, <2>4 DEF FailedLate, StartTime
<1>7. ASSUME NEW i \in Node, Fail(i)
      PROVE  FailedOnce' /\ FailedLate'
  <2>1. /\ turn = 0 /\ globaltime \in FailTimes /\ bFailed' = [bFailed EXCEPT ![i] = TRUE]
        /\ UNCHANGED <<globaltime, turn>>
    BY <1>7 DEF Fail
  <2>2. \A j \in Node : ~bFailed[j]
    BY <1>7, FailFirst
  <2>3. bFailed \in [Node -> BOOLEAN]
    BY DEF IInv, TypeOK
  <2>4. \A j \in Node : bFailed'[j] => j = i
    BY <2>1, <2>2, <2>3
  <2>5. \A j \in Node : globaltime' > StartTime(j)
    BY <2>1 DEF FailsLater
  <2>. QED BY <2>1, <2>4, <2>5 DEF FailedOnce, FailedLate, StartTime
<1>. QED BY <1>2, <1>3, <1>4, <1>5, <1>6, <1>7, StepCases

(* What nodeStart sends: a JOINREQ, unless the node is the introducer.        *)
LEMMA StartSends ==
    ASSUME IInv, QInv, NEW i \in Node, nodeStart(i)
    PROVE  /\ \A m \in BagToSet(net') \ BagToSet(net) :
                m.type = "JOINREQ" /\ m.to = Introducer /\ m.from = i
           /\ i # Introducer =>
                \E m \in BagToSet(net') : m.type = "JOINREQ" /\ m.to = Introducer /\ m.from = i
<1>. DEFINE req == [type |-> "JOINREQ", to |-> Introducer, from |-> i, list |-> Entry1(i, 0)]
            ms == IF i = Introducer THEN {} ELSE {req}
<1>1. IsABag(net) /\ Send(ms)
  BY DEF QInv, Queues, nodeStart
<1>2. \A n \in ms : n.type = "JOINREQ" /\ n.to = Introducer /\ n.from = i
  OBVIOUS
<1>3. i # Introducer => \E n \in ms : Fits(n)
  BY DEF Fits
<1>. HIDE DEF ms
<1>4. BagToSet(net') = BagToSet(net) \cup {n \in ms : Fits(n)}
  BY <1>1, SendAdds
<1>. QED BY <1>2, <1>3, <1>4

(* What nodeLoopOps sends: no message of a join.                              *)
LEMMA LoopSends ==
    ASSUME IInv, QInv, NEW i \in Node, nodeLoopOps(i)
    PROVE  \A m \in BagToSet(net') \ BagToSet(net) : m.type \in {"PING", "PINGREQ"}
<1>1. PICK own, tab, pick, target :
        Send(sendPingRequests(i, pick, own) \cup sendPing(i, target, tab))
  BY DEF nodeLoopOps
<1>. DEFINE ms == sendPingRequests(i, pick, own) \cup sendPing(i, target, tab)
<1>2. \A n \in ms : n.type \in {"PING", "PINGREQ"}
  BY DEF sendPingRequests, sendPing, ProbeMsg
<1>3. Send(ms) /\ IsABag(net)
  BY <1>1 DEF QInv, Queues
<1>. HIDE DEF ms
<1>4. BagToSet(net') = BagToSet(net) \cup {n \in ms : Fits(n)}
  BY <1>3, SendAdds
<1>. QED BY <1>2, <1>4

(* The messages of a join keep their times.                                   *)
LEMMA JoinTimesStay ==
    ASSUME IInv, QInv, StartInv, [Next]_vars
    PROVE  JoinTimes'
<1>0. /\ globaltime \in Nat /\ \A i \in Node : StartTime(i) \in Nat
      /\ Introducer \in Node /\ EN_GPSZ \in Nat
  BY NodeFacts, LimitAssumption, GroupAssumption DEF IInv, TypeOK
<1>00. \A m \in PendingMessages :
         (m.type = "JOINREQ" => m.from \in Node) /\ (m.type = "JOINREP" => m.to \in Node)
  BY PendingGood DEF Good, IsMessage, JoinReq, JoinRep, Direct, Indirect, GossipMsg
<1>. DEFINE Timed(m, gt, w) ==
              /\ m.type = "JOINREQ" => m.to = Introducer /\ gt = StartTime(m.from) + w
              /\ m.type = "JOINREP" => gt = StartTime(m.to) + 1 + w
<1>1. /\ \A m \in BagToSet(net) : Timed(m, globaltime, Wait)
      /\ \A j \in Node : \A m \in BagToSet(mp1q[j]) : Timed(m, globaltime, 1)
  BY <1>0, <1>00 DEF StartInv, JoinTimes, PendingMessages
<1>2. ASSUME /\ \A m \in BagToSet(net') : Timed(m, globaltime', Wait')
             /\ \A j \in Node : \A m \in BagToSet(mp1q'[j]) : Timed(m, globaltime', 1)
      PROVE  JoinTimes'
  <2>1. ASSUME NEW j \in Node, NEW m \in BagToSet(mp1q'[j]), m.type = "JOINREP"
        PROVE  globaltime' = StartTime(m.to) + 2
    <3>1. m \in PendingMessages' /\ IInv'
      BY <2>1, NextKeepsIInv DEF PendingMessages
    <3>2. Good(m)'
      BY <3>1 DEF IInv, TypeOK, NoInventedNews, PendingMessages, Good
    <3>3. m.to \in Node
      BY <2>1, <3>2 DEF Good, IsMessage, JoinReq, JoinRep, Direct, Indirect, GossipMsg
    <3>4. globaltime' = StartTime(m.to) + 1 + 1
      BY <1>2, <2>1
    <3>. QED BY <1>0, <3>3, <3>4
  <2>. QED BY <1>2, <2>1 DEF JoinTimes, StartTime
<1>3. CASE recvLoop
  <2>1. /\ BagToSet(net') \subseteq BagToSet(net)
        /\ \A m \in BagToSet(net') : ~Runs(m.to) /\ ~bFailed[m.to]
        /\ \A j \in Node : BagToSet(mp1q'[j]) \subseteq BagToSet(net)
    BY <1>3, Received
  <2>2. turn = EN_GPSZ + 1 /\ globaltime' = globaltime
    BY <1>3 DEF recvLoop
  <2>3. \A m \in BagToSet(net) : Timed(m, globaltime, 1)
    BY <1>1, <2>2 DEF Wait
  <2>4. ASSUME NEW m \in BagToSet(net')
        PROVE  m.type # "JOINREQ" /\ m.type # "JOINREP"
    <3>1. m \in PendingMessages /\ ~(globaltime > StartTime(m.to)) /\ Timed(m, globaltime, 1)
      BY <2>1, <2>3 DEF PendingMessages, Runs
    <3>2. m.type # "JOINREQ"
      <4>1. SUFFICES ASSUME m.type = "JOINREQ" PROVE FALSE
        OBVIOUS
      <4>2. StartTime(m.to) = 0 /\ StartTime(m.from) \in Nat /\ globaltime = StartTime(m.from) + 1
        BY <1>0, <1>00, <3>1, <4>1, IntroducerFirst
      <4>. QED BY <3>1, <4>2
    <3>3. m.type # "JOINREP"
      <4>1. SUFFICES ASSUME m.type = "JOINREP" PROVE FALSE
        OBVIOUS
      <4>2. StartTime(m.to) \in Nat /\ globaltime = StartTime(m.to) + 1 + 1
        BY <1>0, <1>00, <3>1, <4>1
      <4>. QED BY <3>1, <4>2
    <3>. QED BY <3>2, <3>3
  <2>. QED BY <1>2, <2>1, <2>2, <2>3, <2>4
<1>4. CASE Tick
  <2>1. turn = 0 /\ turn' = EN_GPSZ + 1 /\ globaltime' = globaltime + 1 /\ UNCHANGED netVars
    BY <1>4 DEF Tick
  <2>2. Wait = 0 /\ Wait' = 1
    BY <1>0, <2>1 DEF Wait
  <2>3. \A j \in Node : BagToSet(mp1q'[j]) = {}
    BY <2>1 DEF QInv, Drained, netVars, Node
  <2>4. ASSUME NEW m \in BagToSet(net') PROVE Timed(m, globaltime', Wait')
    <3>1. m \in PendingMessages /\ Timed(m, globaltime, 0)
      BY <1>1, <2>1, <2>2, <2>4 DEF PendingMessages, netVars
    <3>2. m.type = "JOINREQ" => StartTime(m.from) \in Nat
      BY <1>0, <1>00, <3>1
    <3>3. m.type = "JOINREP" => StartTime(m.to) \in Nat
      BY <1>0, <1>00, <3>1
    <3>. QED BY <1>0, <2>1, <2>2, <3>1, <3>2, <3>3
  <2>. QED BY <1>2, <2>3, <2>4
<1>5. ASSUME globaltime' = globaltime, Wait' = Wait, UNCHANGED netVars
      PROVE  JoinTimes'
  BY <1>1, <1>2, <1>5 DEF netVars
<1>6. CASE Finished \/ UNCHANGED vars \/ \E i \in Node : Fail(i)
  BY <1>5, <1>6 DEF Finished, vars, appVars, Fail, Wait
<1>7. ASSUME NEW i \in Node, Passes(i),
             \A m \in BagToSet(net') \ BagToSet(net) : Timed(m, globaltime, 0)
      PROVE  JoinTimes'
  <2>1. turn # EN_GPSZ + 1 /\ turn' # EN_GPSZ + 1 /\ globaltime' = globaltime /\ mp1q' = mp1q
    BY <1>7, GroupAssumption DEF Passes, Node
  <2>. QED BY <1>1, <1>2, <1>7, <2>1 DEF Wait
<1>8. ASSUME NEW i \in Node,
             nodeStart(i) \/ SkipTurn(i) \/ WaitForGroup(i) \/ nodeLoopOps(i)
      PROVE  JoinTimes'
  <2>1. Passes(i)
    BY <1>8, TurnsPass
  <2>2. ASSUME NEW m \in BagToSet(net') \ BagToSet(net) PROVE Timed(m, globaltime, 0)
    <3>1. CASE nodeStart(i)
      <4>1. m.type = "JOINREQ" /\ m.to = Introducer /\ m.from = i
        BY <3>1, StartSends
      <4>2. globaltime = StartTime(i) /\ StartTime(i) \in Nat
        BY <1>0, <3>1 DEF nodeStart
      <4>. QED BY <4>1, <4>2
    <3>2. CASE SkipTurn(i) \/ WaitForGroup(i)
      BY <3>2 DEF SkipTurn, WaitForGroup, netVars
    <3>3. CASE nodeLoopOps(i)
      BY <3>3, LoopSends
    <3>. QED BY <1>8, <3>1, <3>2, <3>3
  <2>. QED BY <1>7, <2>1, <2>2
<1>9. ASSUME NEW i \in Node, Handles(i)
      PROVE  JoinTimes'
  <2>1. PICK m, tab, ms : Hears(i, m, tab, ms)
    BY <1>9, HandlersHear
  <2>2. /\ turn = i /\ UNCHANGED appVars
        /\ BagToSet(net') = BagToSet(net) \cup {n \in ms : Fits(n)}
        /\ \A j \in Node : BagToSet(mp1q'[j]) \subseteq BagToSet(mp1q[j])
    BY <2>1, HearQueues
  <2>3. turn # EN_GPSZ + 1
    BY <2>2, GroupAssumption DEF Node
  <2>4. Wait = 0 /\ Wait' = 0 /\ globaltime' = globaltime
    BY <2>2, <2>3 DEF Wait, appVars
  <2>5. ASSUME NEW n \in ms PROVE Timed(n, globaltime, 0)
    <3>1. n.type # "JOINREQ" /\ (n.type = "JOINREP" => m.type = "JOINREQ" /\ n.to = m.from)
      BY <2>1 DEF Hears
    <3>2. m \in BagToSet(mp1q[i]) /\ m \in PendingMessages
      BY <2>1 DEF Hears, PendingMessages
    <3>3. n.type = "JOINREP" => globaltime = StartTime(n.to) + 1 /\ StartTime(n.to) \in Nat
      BY <1>0, <1>00, <1>1, <3>1, <3>2
    <3>. QED BY <3>1, <3>3
  <2>. QED BY <1>1, <1>2, <2>2, <2>4, <2>5
<1>. QED BY <1>3, <1>4, <1>6, <1>8, <1>9, StepCases

(* What a step does to the tables and to who is in the group.                 *)
LEMMA TableSteps ==
    ASSUME IInv, QInv, [Next]_vars
    PROVE  \/ UNCHANGED <<memberList, inGroup, inited>>
           \/ \E i \in Node : nodeStart(i) \/ nodeLoopOps(i) \/ Handles(i)
<1>1. CASE recvLoop \/ Tick \/ (\E i \in Node : Fail(i)) \/ Finished \/ UNCHANGED vars
  BY <1>1 DEF recvLoop, Tick, Fail, Finished, vars, appVars, nodeVars
<1>2. ASSUME NEW i \in Node, SkipTurn(i) \/ WaitForGroup(i)
      PROVE  UNCHANGED <<memberList, inGroup, inited>>
  BY <1>2 DEF SkipTurn, WaitForGroup, nodeVars
<1>. QED BY <1>1, <1>2, StepCases

(* A node that is not started knows nobody.                                   *)
LEMMA BlankStays ==
    ASSUME IInv, QInv, StartInv, [Next]_vars
    PROVE  Blank'
<1>0. DOMAIN memberList = Node /\ inited \in [Node -> BOOLEAN]
  BY DEF IInv, TypeOK
<1>1. CASE UNCHANGED <<memberList, inGroup, inited>>
  BY <1>1 DEF StartInv, Blank
<1>2. ASSUME NEW i \in Node, inited'[i], \A j \in Node \ {i} : /\ memberList'[j] = memberList[j]
                                                               /\ inited'[j] = inited[j]
      PROVE  Blank'
  BY <1>2 DEF StartInv, Blank
<1>3. ASSUME NEW i \in Node, nodeStart(i) PROVE Blank'
  <2>1. /\ inited' = [inited EXCEPT ![i] = TRUE]
        /\ memberList' = [memberList EXCEPT ![i] = [x \in {i} |-> [hb |-> 0, ts |-> globaltime]]]
    BY <1>3 DEF nodeStart
  <2>. QED BY <1>0, <1>2, <2>1
<1>4. ASSUME NEW i \in Node, nodeLoopOps(i) PROVE Blank'
  <2>1. inited[i] /\ inited' = inited
    BY <1>4, RunningIsStarted DEF nodeLoopOps, LoopDue
  <2>2. PICK tab : memberList' = [memberList EXCEPT ![i] = tab]
    BY <1>4 DEF nodeLoopOps
  <2>. QED BY <1>0, <1>2, <2>1, <2>2
<1>5. ASSUME NEW i \in Node, Handles(i) PROVE Blank'
  <2>1. PICK m, tab, ms : Hears(i, m, tab, ms)
    BY <1>5, HandlersHear
  <2>2. /\ Runs(i) /\ inited' = inited
        /\ \A j \in Node : memberList'[j] = IF j = i THEN tab ELSE memberList[j]
    BY <2>1, HearQueues DEF Hears, appVars
  <2>3. inited[i]
    BY <2>2, RunningIsStarted
  <2>. QED BY <1>2, <2>2, <2>3
<1>. QED BY <1>1, <1>3, <1>4, <1>5, TableSteps

(* Nobody is in the group before its JOINREP is handled.                      *)
LEMMA GroupTimesStay ==
    ASSUME IInv, QInv, StartInv, [Next]_vars
    PROVE  GroupTimes'
<1>0. /\ globaltime \in Nat /\ turn \in Nat /\ EN_GPSZ \in Nat
      /\ \A i \in Node : StartTime(i) \in Nat /\ i > 0 /\ i <= EN_GPSZ /\ i \in Nat
      /\ inGroup \in [Node -> BOOLEAN]
  BY NodeFacts, LimitAssumption, GroupAssumption DEF IInv, TypeOK, Node
<1>1. ASSUME inGroup' = inGroup, globaltime' = globaltime, turn' <= turn
      PROVE  GroupTimes'
  <2>1. ASSUME NEW j \in Node \ {Introducer}, inGroup'[j]
        PROVE  \/ globaltime' > StartTime(j) + 2
               \/ globaltime' = StartTime(j) + 2 /\ turn' <= j
    <3>1. \/ globaltime > StartTime(j) + 2
          \/ globaltime = StartTime(j) + 2 /\ turn <= j
      BY <1>1, <2>1 DEF StartInv, GroupTimes
    <3>2. turn' \in Int
      BY NextKeepsIInv DEF IInv, TypeOK
    <3>. QED BY <1>0, <1>1, <3>1, <3>2
  <2>. QED BY <2>1 DEF GroupTimes, StartTime
<1>2. CASE recvLoop
  BY <1>0, <1>1, <1>2 DEF recvLoop, nodeVars
<1>3. CASE Finished \/ UNCHANGED vars \/ \E i \in Node : Fail(i)
  <2>1. UNCHANGED <<inGroup, globaltime, turn>>
    BY <1>3 DEF Finished, vars, appVars, Fail, nodeVars
  <2>. QED BY <1>0, <1>1, <2>1
<1>4. ASSUME NEW i \in Node, SkipTurn(i) \/ WaitForGroup(i) \/ nodeLoopOps(i)
      PROVE  GroupTimes'
  BY <1>0, <1>1, <1>4 DEF SkipTurn, WaitForGroup, nodeLoopOps, HasTurn, nodeVars
<1>5. CASE Tick
  <2>1. turn = 0 /\ globaltime' = globaltime + 1 /\ inGroup' = inGroup
    BY <1>5 DEF Tick, nodeVars
  <2>2. ASSUME NEW j \in Node \ {Introducer}, inGroup'[j]
        PROVE  globaltime' > StartTime(j) + 2
    <3>1. globaltime >= StartTime(j) + 2
      BY <1>0, <2>1, <2>2 DEF StartInv, GroupTimes
    <3>. QED BY <1>0, <2>1, <3>1
  <2>. QED BY <2>2 DEF GroupTimes, StartTime
<1>6. ASSUME NEW i \in Node, nodeStart(i) PROVE GroupTimes'
  <2>1. /\ turn = i /\ turn' = i - 1 /\ globaltime' = globaltime
        /\ inGroup' = [inGroup EXCEPT ![i] = (i = Introducer)]
    BY <1>6 DEF nodeStart, HasTurn
  <2>2. ASSUME NEW j \in Node \ {Introducer}, inGroup'[j]
        PROVE  \/ globaltime' > StartTime(j) + 2
               \/ globaltime' = StartTime(j) + 2 /\ turn' <= j
    <3>1. j # i /\ inGroup[j]
      <4>1. j = i => inGroup'[j] = (i = Introducer)
        BY <1>0, <2>1
      <4>2. i # Introducer => (i = Introducer) = FALSE
        OBVIOUS
      <4>3. j # i
        BY <2>2, <4>1, <4>2
      <4>4. inGroup'[j] = inGroup[j]
        BY <1>0, <2>1, <4>3
      <4>. QED BY <2>2, <4>3, <4>4
    <3>2. \/ globaltime > StartTime(j) + 2
          \/ globaltime = StartTime(j) + 2 /\ turn <= j
      BY <3>1 DEF StartInv, GroupTimes
    <3>. QED BY <1>0, <2>1, <3>2
  <2>. QED BY <2>2 DEF GroupTimes, StartTime
<1>7. ASSUME NEW i \in Node, Handles(i) PROVE GroupTimes'
  <2>1. PICK m, tab, ms : Hears(i, m, tab, ms)
    BY <1>7, HandlersHear
  <2>2. turn = i /\ m.to = i /\ turn' = turn /\ globaltime' = globaltime /\ m \in BagToSet(mp1q[i])
    BY <2>1, HearQueues DEF appVars, Hears
  <2>3. CASE m.type # "JOINREP"
    <3>1. inGroup' = inGroup
      BY <2>1, <2>3 DEF Hears
    <3>. QED BY <1>0, <1>1, <2>2, <3>1
  <2>4. CASE m.type = "JOINREP"
    <3>1. inGroup' = [inGroup EXCEPT ![i] = TRUE]
      BY <2>1, <2>4 DEF Hears
    <3>2. globaltime = StartTime(i) + 2
      BY <2>2, <2>4 DEF StartInv, JoinTimes
    <3>3. ASSUME NEW j \in Node \ {Introducer}, inGroup'[j]
          PROVE  \/ globaltime' > StartTime(j) + 2
                 \/ globaltime' = StartTime(j) + 2 /\ turn' <= j
      <4>1. CASE j = i
        BY <1>0, <2>2, <3>2, <4>1
      <4>2. CASE j # i
        <5>1. inGroup[j]
          BY <1>0, <3>1, <3>3, <4>2
        <5>. QED BY <2>2, <5>1 DEF StartInv, GroupTimes
      <4>. QED BY <4>1, <4>2
    <3>. QED BY <3>3 DEF GroupTimes, StartTime
  <2>. QED BY <2>3, <2>4
<1>. QED BY <1>2, <1>3, <1>4, <1>5, <1>6, <1>7, StepCases

(* StartInv is an invariant when the driver fails at most one node, and late. *)
LEMMA StartInvariant == OneFailure /\ FailsLater => (Spec => []StartInv)
<1>1. ASSUME OneFailure /\ FailsLater
      PROVE  IInv /\ QInv /\ StartInv /\ [Next]_vars => StartInv'
  BY <1>1, FailuresStay, JoinTimesStay, BlankStays, GroupTimesStay DEF StartInv
<1>2. ASSUME OneFailure /\ FailsLater
      PROVE  Spec => []StartInv
  BY <1>1, <1>2, InitStartInv, Invariance, QueuesInvariant, PTL DEF Spec
<1>. QED BY <1>2

-------------------------------------------------------------------------------
(* Every node that is not failed gets into the group in the second tick after *)
(* its start.                                                                 *)

Knocks(i)    == \E m : Sent(m) /\ m.type = "JOINREQ" /\ m.from = i /\ m.to = Introducer
KnockDue(i)  == \E m : Due(m) /\ m.type = "JOINREQ" /\ m.from = i /\ m.to = Introducer
Invited(i)   == \E m : Sent(m) /\ m.type = "JOINREP" /\ m.to = i
InviteDue(i) == \E m : Due(m) /\ m.type = "JOINREP" /\ m.to = i

Joins(i) ==
    inited[i] /\ ~bFailed[i] =>
        /\ globaltime = StartTime(i) => Knocks(i)
        /\ globaltime = StartTime(i) + 1 => KnockDue(i) \/ Invited(i)
        /\ globaltime = StartTime(i) + 2 => inGroup[i] \/ InviteDue(i)
        /\ globaltime > StartTime(i) + 2 => inGroup[i]

JoinInv ==
    /\ inited[Introducer] => inGroup[Introducer]
    /\ \A i \in Node \ {Introducer} : Joins(i)

(* A turn without a handler keeps the messages of a join.                     *)
LEMMA PassJoins ==
    ASSUME NEW j \in Node, Passes(j), NEW i
    PROVE  /\ (Knocks(i) => Knocks(i)') /\ (KnockDue(i) => KnockDue(i)')
           /\ (Invited(i) => Invited(i)') /\ (InviteDue(i) => InviteDue(i)')
<1>1. \A m : (Sent(m) => Sent(m)') /\ (Due(m) => Due(m)')
  BY PassMessages
<1>. QED BY <1>1 DEF Knocks, KnockDue, Invited, InviteDue

(* The introducer is in the group.                                            *)
LEMMA IntroducerStays ==
    ASSUME IInv, QInv, JoinInv, [Next]_vars
    PROVE  inited'[Introducer] => inGroup'[Introducer]
<1>0. Introducer \in Node /\ inGroup \in [Node -> BOOLEAN] /\ inited \in [Node -> BOOLEAN]
  BY NodeFacts DEF IInv, TypeOK
<1>1. CASE UNCHANGED <<memberList, inGroup, inited>>
  BY <1>1 DEF JoinInv
<1>2. ASSUME NEW i \in Node, nodeStart(i)
      PROVE  inited'[Introducer] => inGroup'[Introducer]
  <2>1. /\ inited' = [inited EXCEPT ![i] = TRUE]
        /\ inGroup' = [inGroup EXCEPT ![i] = (i = Introducer)]
    BY <1>2 DEF nodeStart
  <2>2. CASE i = Introducer
    <3>1. inGroup'[Introducer] = (i = Introducer)
      BY <1>0, <2>1, <2>2
    <3>. QED BY <2>2, <3>1
  <2>3. CASE i # Introducer
    BY <1>0, <2>1, <2>3 DEF JoinInv
  <2>. QED BY <2>2, <2>3
<1>3. ASSUME NEW i \in Node, nodeLoopOps(i)
      PROVE  inited'[Introducer] => inGroup'[Introducer]
  BY <1>3 DEF nodeLoopOps, JoinInv
<1>4. ASSUME NEW i \in Node, Handles(i)
      PROVE  inited'[Introducer] => inGroup'[Introducer]
  <2>1. PICK m, tab, ms : Hears(i, m, tab, ms)
    BY <1>4, HandlersHear
  <2>2. inited' = inited /\ (inGroup' = inGroup \/ inGroup' = [inGroup EXCEPT ![i] = TRUE])
    BY <2>1 DEF Hears, Handle, appVars
  <2>. QED BY <1>0, <2>2 DEF JoinInv
<1>. QED BY <1>1, <1>2, <1>3, <1>4, TableSteps

(* Every step keeps a joining node on its way.                                *)
LEMMA JoinsStays ==
    ASSUME IInv, QInv, StartInv, JoinInv, [Next]_vars, NEW i \in Node \ {Introducer}
    PROVE  Joins(i)'
<1>0. /\ globaltime \in Nat /\ turn \in Nat /\ EN_GPSZ \in Nat /\ Introducer \in Node
      /\ i \in Nat /\ i > 0 /\ i <= EN_GPSZ /\ StartTime(i) \in Nat
      /\ inGroup \in [Node -> BOOLEAN] /\ bFailed \in [Node -> BOOLEAN]
      /\ inited \in [Node -> BOOLEAN]
  BY NodeFacts, LimitAssumption, GroupAssumption DEF IInv, TypeOK, Node
<1>1. inited[i] <=> \/ globaltime > StartTime(i)
                    \/ globaltime = StartTime(i) /\ turn < i
  BY DEF IInv, Clock
<1>2. inited[i] /\ ~bFailed[i] =>
        /\ globaltime = StartTime(i) => Knocks(i)
        /\ globaltime = StartTime(i) + 1 => KnockDue(i) \/ Invited(i)
        /\ globaltime = StartTime(i) + 2 => inGroup[i] \/ InviteDue(i)
        /\ globaltime > StartTime(i) + 2 => inGroup[i]
  BY DEF JoinInv, Joins
<1>3. ASSUME inited'[i] /\ ~bFailed'[i] =>
               /\ globaltime' = StartTime(i) => Knocks(i)'
               /\ globaltime' = StartTime(i) + 1 => KnockDue(i)' \/ Invited(i)'
               /\ globaltime' = StartTime(i) + 2 => inGroup'[i] \/ InviteDue(i)'
               /\ globaltime' > StartTime(i) + 2 => inGroup'[i]
      PROVE  Joins(i)'
  BY <1>3 DEF Joins, StartTime
<1>4. CASE recvLoop
  <2>1. /\ turn = EN_GPSZ + 1
        /\ UNCHANGED <<globaltime, inited, bFailed, inGroup>>
    BY <1>4 DEF recvLoop, nodeVars
  <2>2. inited[i] => globaltime > StartTime(i)
    BY <1>0, <1>1, <2>1
  <2>3. globaltime = StartTime(i) + 1 /\ ~bFailed[i] /\ inited[i] => KnockDue(i)'
    <3>1. SUFFICES ASSUME globaltime = StartTime(i) + 1, ~bFailed[i], inited[i]
                   PROVE  KnockDue(i)'
      OBVIOUS
    <3>2. ~Invited(i)
      BY <1>0, <1>4, RecvMessages DEF Invited
    <3>3. PICK m : Due(m) /\ m.type = "JOINREQ" /\ m.from = i /\ m.to = Introducer
      BY <1>2, <3>1, <3>2 DEF KnockDue
    <3>4. Runs(Introducer)
      <4>1. ~bFailed[Introducer]
        BY <1>0, <2>1, <3>1 DEF StartInv, FailedLate
      <4>. QED BY <1>0, <3>1, <4>1, IntroducerFirst DEF Runs
    <3>5. Due(m)'
      BY <1>0, <1>4, <3>3, <3>4, RecvMessages
    <3>. QED BY <3>3, <3>5 DEF KnockDue
  <2>4. globaltime = StartTime(i) + 2 /\ ~bFailed[i] /\ InviteDue(i) => InviteDue(i)'
    <3>1. SUFFICES ASSUME globaltime = StartTime(i) + 2, ~bFailed[i], InviteDue(i)
                   PROVE  InviteDue(i)'
      OBVIOUS
    <3>2. Runs(i)
      BY <1>0, <3>1 DEF Runs
    <3>3. \A m : m.to = i /\ Due(m) => Due(m)'
      BY <1>4, <3>2, RecvMessages
    <3>. QED BY <3>1, <3>3 DEF InviteDue
  <2>. QED BY <1>0, <1>2, <1>3, <2>1, <2>2, <2>3, <2>4
<1>5. CASE Tick
  <2>1. /\ turn = 0 /\ globaltime' = globaltime + 1
        /\ UNCHANGED <<inited, bFailed, inGroup>>
    BY <1>5 DEF Tick, nodeVars
  <2>2. inited[i] => globaltime >= StartTime(i)
    BY <1>0, <1>1
  <2>3. \A m : m.to \in Node => ~Due(m) /\ (Sent(m) => Due(m)')
    BY <1>5, TickMessages
  <2>4. /\ ~KnockDue(i) /\ ~InviteDue(i)
        /\ (Knocks(i) => KnockDue(i)') /\ (Invited(i) => InviteDue(i)')
    BY <1>0, <2>3 DEF Knocks, KnockDue, Invited, InviteDue
  <2>5. CASE ~(inited[i] /\ ~bFailed[i])
    BY <1>3, <2>1, <2>5
  <2>6. CASE globaltime = StartTime(i) /\ inited[i] /\ ~bFailed[i]
    <3>1. KnockDue(i)'
      BY <1>2, <2>4, <2>6
    <3>2. globaltime' = StartTime(i) + 1
      BY <2>1, <2>6
    <3>. QED BY <1>0, <1>3, <3>1, <3>2
  <2>7. CASE globaltime = StartTime(i) + 1 /\ inited[i] /\ ~bFailed[i]
    <3>1. InviteDue(i)'
      BY <1>2, <2>4, <2>7
    <3>2. globaltime' = StartTime(i) + 2
      BY <1>0, <2>1, <2>7
    <3>. QED BY <1>0, <1>3, <3>1, <3>2
  <2>8. CASE globaltime >= StartTime(i) + 2 /\ inited[i] /\ ~bFailed[i]
    <3>1. globaltime = StartTime(i) + 2 \/ globaltime > StartTime(i) + 2
      BY <1>0, <2>8
    <3>2. inGroup[i] /\ inGroup'[i]
      BY <1>2, <2>1, <2>4, <2>8, <3>1
    <3>3. globaltime' > StartTime(i) + 2
      BY <1>0, <2>1, <2>8
    <3>. QED BY <1>0, <1>3, <3>2, <3>3
  <2>. QED BY <1>0, <2>2, <2>5, <2>6, <2>7, <2>8
<1>6. ASSUME bFailed'[i] = bFailed[i] \/ bFailed'[i],
             UNCHANGED <<globaltime, turn, inited, nodeVars, netVars>>
      PROVE  Joins(i)'
  <2>1. \A m : Sent(m)' = Sent(m) /\ Due(m)' = Due(m)
    BY <1>6 DEF Sent, Due, netVars
  <2>2. /\ Knocks(i)' = Knocks(i) /\ KnockDue(i)' = KnockDue(i)
        /\ Invited(i)' = Invited(i) /\ InviteDue(i)' = InviteDue(i)
    BY <2>1 DEF Knocks, KnockDue, Invited, InviteDue
  <2>. QED BY <1>2, <1>3, <1>6, <2>2 DEF nodeVars
<1>7. CASE Finished \/ UNCHANGED vars
  BY <1>6, <1>7 DEF Finished, vars, appVars
<1>8. ASSUME NEW j \in Node, Fail(j) PROVE Joins(i)'
  <2>1. bFailed'[i] = bFailed[i] \/ bFailed'[i]
    BY <1>0, <1>8 DEF Fail
  <2>2. UNCHANGED <<globaltime, turn, inited, nodeVars, netVars>>
    BY <1>8 DEF Fail
  <2>. QED BY <1>6, <2>1, <2>2
<1>9. ASSUME NEW j \in Node,
             nodeStart(j) \/ SkipTurn(j) \/ WaitForGroup(j) \/ nodeLoopOps(j)
      PROVE  Joins(i)'
  <2>1. Passes(j)
    BY <1>9, TurnsPass
  <2>2. globaltime' = globaltime
    BY <2>1 DEF Passes
  <2>3. /\ (Knocks(i) => Knocks(i)') /\ (KnockDue(i) => KnockDue(i)')
        /\ (Invited(i) => Invited(i)') /\ (InviteDue(i) => InviteDue(i)')
    BY <2>1, PassJoins
  <2>4. CASE ~(nodeStart(j) /\ j = i)
    <3>1. inited'[i] = inited[i] /\ inGroup'[i] = inGroup[i] /\ bFailed'[i] = bFailed[i]
      BY <1>0, <1>9, <2>4 DEF nodeStart, SkipTurn, WaitForGroup, nodeLoopOps, nodeVars
    <3>2. CASE ~(inited[i] /\ ~bFailed[i])
      BY <1>3, <3>1, <3>2
    <3>3. CASE inited[i] /\ ~bFailed[i]
      <4>1. /\ globaltime = StartTime(i) => Knocks(i)'
            /\ globaltime = StartTime(i) + 1 => KnockDue(i)' \/ Invited(i)'
        BY <1>2, <2>3, <3>3
      <4>2. /\ globaltime = StartTime(i) + 2 => inGroup'[i] \/ InviteDue(i)'
            /\ globaltime > StartTime(i) + 2 => inGroup'[i]
        BY <1>2, <2>3, <3>1, <3>3
      <4>. QED BY <1>3, <2>2, <4>1, <4>2
    <3>. QED BY <3>2, <3>3
  <2>5. CASE nodeStart(j) /\ j = i
    <3>1. globaltime' = StartTime(i)
      BY <2>2, <2>5 DEF nodeStart
    <3>2. PICK m \in BagToSet(net') : m.type = "JOINREQ" /\ m.to = Introducer /\ m.from = i
      BY <2>5, StartSends
    <3>3. turn' <= EN_GPSZ
      BY <1>0, <2>1, <2>5 DEF Passes
    <3>4. Knocks(i)'
      BY <3>2, <3>3 DEF Knocks, Sent
    <3>. QED BY <1>0, <1>3, <3>1, <3>4
  <2>. QED BY <2>4, <2>5
<1>10. ASSUME NEW j \in Node, Handles(j) PROVE Joins(i)'
  <2>1. PICK m, tab, ms : Hears(j, m, tab, ms)
    BY <1>10, HandlersHear
  <2>2. /\ UNCHANGED appVars /\ m.to = j /\ m \in BagToSet(mp1q[j])
        /\ inGroup[i] => inGroup'[i]
    BY <1>0, <2>1, HearQueues DEF Hears
  <2>3. \A n : /\ Sent(n) => Sent(n)'
               /\ Due(n) /\ n # m /\ n.to \in Node => Due(n)'
               /\ n \in ms /\ Fits(n) => Sent(n)'
    BY <2>1, HearMessages
  <2>4. Knocks(i) => Knocks(i)'
    BY <2>3 DEF Knocks
  <2>5. Invited(i) => Invited(i)'
    BY <2>3 DEF Invited
  <2>6. KnockDue(i) => KnockDue(i)' \/ Invited(i)'
    <3>1. SUFFICES ASSUME KnockDue(i) PROVE KnockDue(i)' \/ Invited(i)'
      OBVIOUS
    <3>2. PICK n : Due(n) /\ n.type = "JOINREQ" /\ n.from = i /\ n.to = Introducer
      BY <3>1 DEF KnockDue
    <3>3. CASE n # m
      BY <1>0, <2>3, <3>2, <3>3 DEF KnockDue
    <3>4. CASE n = m
      <4>1. PICK r \in ms : r.type = "JOINREP" /\ r.to = m.from
        BY <2>1, <3>2, <3>4 DEF Hears
      <4>2. Fits(r)
        BY <4>1 DEF Fits
      <4>3. Sent(r)'
        BY <2>3, <4>1, <4>2
      <4>. QED BY <3>2, <3>4, <4>1, <4>3 DEF Invited
    <3>. QED BY <3>3, <3>4
  <2>7. InviteDue(i) => InviteDue(i)' \/ inGroup'[i]
    <3>1. SUFFICES ASSUME InviteDue(i) PROVE InviteDue(i)' \/ inGroup'[i]
      OBVIOUS
    <3>2. PICK n : Due(n) /\ n.type = "JOINREP" /\ n.to = i
      BY <3>1 DEF InviteDue
    <3>3. CASE n # m
      BY <2>3, <3>2, <3>3 DEF InviteDue
    <3>4. CASE n = m
      <4>1. j = i /\ inGroup' = [inGroup EXCEPT ![j] = TRUE]
        BY <2>1, <2>2, <3>2, <3>4 DEF Hears
      <4>. QED BY <1>0, <4>1
    <3>. QED BY <3>3, <3>4
  <2>. QED BY <1>2, <1>3, <2>2, <2>4, <2>5, <2>6, <2>7 DEF appVars
<1>. QED BY <1>4, <1>5, <1>7, <1>8, <1>9, <1>10, StepCases

(* JoinInv is an invariant under the same conditions.                         *)
LEMMA JoinInvariant == OneFailure /\ FailsLater => (Spec => []JoinInv)
<1>1. Init => JoinInv
  BY NodeFacts DEF Init, JoinInv, Joins
<1>2. IInv /\ QInv /\ StartInv /\ JoinInv /\ [Next]_vars => JoinInv'
  BY IntroducerStays, JoinsStays DEF JoinInv, Introducer
<1>3. ASSUME OneFailure /\ FailsLater
      PROVE  Spec => []JoinInv
  BY <1>1, <1>2, <1>3, Invariance, QueuesInvariant, StartInvariant, PTL DEF Spec
<1>. QED BY <1>3

-------------------------------------------------------------------------------
(* What a handler makes of the table.                                         *)

(* An entry of the merged table is the old one, or news stamped now, or an    *)
(* entry of a JOINREP with its stamp.                                         *)
KeepsEntry(i, tab, x) == x \in Members(i) /\ tab[x] = memberList[i][x]
NewsEntry(m, tab, x) == /\ x \in DOMAIN m.list
                        /\ tab[x] = [hb |-> m.list[x], ts |-> globaltime]
RawEntry(i, m, tab, x) == /\ m.type = "JOINREP" /\ x \in DOMAIN m.list /\ x \notin Members(i)
                          /\ tab[x] = [hb |-> m.list[x], ts |-> m.ts[x]]

(* updateMemberList entry by entry: what it keeps, replaces and adds.         *)
LEMMA MergeEntries ==
    ASSUME NEW old, IsTable(old), NEW S \in SUBSET Node, NEW list \in [S -> Nat],
           globaltime \in Nat
    PROVE  /\ DOMAIN Merge(old, list) = DOMAIN old \cup S
           /\ \A x \in DOMAIN old \cup S :
                \/ /\ x \in DOMAIN old /\ Merge(old, list)[x] = old[x]
                   /\ x \in S => old[x].hb >= list[x]
                \/ x \in S /\ Merge(old, list)[x] = [hb |-> list[x], ts |-> globaltime]
<1>1. PICK T \in SUBSET Node : old \in [T -> [hb : Nat, ts : Nat]]
  BY DEF IsTable
<1>2. DOMAIN Merge(old, list) = T \cup S
  BY <1>1 DEF Merge
<1>3. ASSUME NEW x \in T \cup S
      PROVE  \/ /\ x \in T /\ Merge(old, list)[x] = old[x]
                /\ x \in S => old[x].hb >= list[x]
             \/ x \in S /\ Merge(old, list)[x] = [hb |-> list[x], ts |-> globaltime]
  <2>1. Merge(old, list)[x] = IF x \in S /\ (x \in T => list[x] > old[x].hb)
                              THEN [hb |-> list[x], ts |-> globaltime]
                              ELSE old[x]
    BY <1>1 DEF Merge
  <2>2. x \in T => old[x].hb \in Nat
    BY <1>1
  <2>3. x \in S => list[x] \in Nat
    OBVIOUS
  <2>. QED BY <2>1, <2>2, <2>3
<1>. QED BY <1>1, <1>2, <1>3

(* The table a handler leaves, entry by entry.                                *)
LEMMA Merged ==
    ASSUME IInv, NEW i \in Node, NEW m, NEW tab, NEW ms, Hears(i, m, tab, ms)
    PROVE  /\ IsTable(tab) /\ Members(i) \subseteq DOMAIN tab /\ DOMAIN m.list \subseteq DOMAIN tab
           /\ \A x \in DOMAIN tab :
                KeepsEntry(i, tab, x) \/ NewsEntry(m, tab, x) \/ RawEntry(i, m, tab, x)
           /\ \A x \in DOMAIN m.list : tab[x].hb >= m.list[x]
           /\ i \in Members(i) /\ tab[i] = memberList[i][i]
<1>1. /\ Runs(i) /\ m \in PendingMessages
      /\ \/ m.type # "JOINREP" /\ tab = Merge(memberList[i], m.list)
         \/ m.type = "JOINREP" /\ tab = MergeRaw(memberList[i], m.list, m.ts)
  BY DEF Hears, PendingMessages
<1>2. Good(m) /\ GoodTable(i, memberList[i]) /\ TypeOK /\ globaltime \in Nat
  BY <1>1, PendingGood, RunningIsStarted, StartedHasGoodTable, LimitAssumption DEF IInv, TypeOK
<1>3. PICK S \in SUBSET Node :
        m.list \in [S -> Nat] /\ (m.type = "JOINREP" => m.ts \in [S -> Nat])
  BY <1>2 DEF Good, IsMessage, JoinReq, JoinRep, Direct, Indirect, GossipMsg
<1>4. TrueNews(m.list)
  BY <1>2 DEF Good
<1>5. PICK T \in SUBSET Node : memberList[i] \in [T -> [hb : Nat, ts : Nat]]
  BY <1>2 DEF GoodTable, IsTable
<1>. DEFINE old == memberList[i]
            new == Merge(old, m.list)
<1>6. /\ DOMAIN old = T /\ DOMAIN m.list = S /\ DOMAIN new = T \cup S
      /\ \A x \in T \cup S :
           \/ x \in T /\ new[x] = old[x] /\ (x \in S => old[x].hb >= m.list[x])
           \/ x \in S /\ new[x] = [hb |-> m.list[x], ts |-> globaltime]
  <2>1. IsTable(old) /\ DOMAIN old = T /\ DOMAIN m.list = S
    BY <1>2, <1>3, <1>5 DEF GoodTable
  <2>. HIDE DEF old
  <2>2. /\ DOMAIN Merge(old, m.list) = DOMAIN old \cup S
        /\ \A x \in DOMAIN old \cup S :
             \/ /\ x \in DOMAIN old /\ Merge(old, m.list)[x] = old[x]
                /\ x \in S => old[x].hb >= m.list[x]
             \/ x \in S /\ Merge(old, m.list)[x] = [hb |-> m.list[x], ts |-> globaltime]
    BY <1>2, <1>3, <2>1, MergeEntries
  <2>. QED BY <2>1, <2>2
<1>7. /\ DOMAIN tab = T \cup S
      /\ \A x \in T \cup S :
           \/ tab[x] = new[x]
           \/ m.type = "JOINREP" /\ x \notin T /\ tab[x] = [hb |-> m.list[x], ts |-> m.ts[x]]
  <2>1. CASE tab = new
    BY <1>6, <2>1
  <2>2. CASE m.type = "JOINREP" /\ tab = MergeRaw(memberList[i], m.list, m.ts)
    <3>1. tab = [x \in T \cup S |-> IF x \notin T THEN [hb |-> m.list[x], ts |-> m.ts[x]]
                                    ELSE new[x]]
      BY <1>6, <2>2 DEF MergeRaw
    <3>. QED BY <2>2, <3>1
  <2>. QED BY <1>1, <2>1, <2>2
<1>8. IsTable(tab) /\ i \in T
  <2>1. GoodTable(i, tab)
    BY <1>1, <1>2, <1>3, <1>4, MergeGood, MergeRawGood
  <2>. QED BY <1>2, <1>6, <2>1 DEF GoodTable
<1>. HIDE DEF new
<1>9. ASSUME NEW x \in S PROVE tab[x].hb >= m.list[x]
  <2>1. m.list[x] \in Nat
    BY <1>3
  <2>2. CASE tab[x] = new[x]
    <3>1. CASE new[x] = old[x] /\ old[x].hb >= m.list[x]
      BY <2>2, <3>1
    <3>2. CASE new[x] = [hb |-> m.list[x], ts |-> globaltime]
      BY <2>1, <2>2, <3>2
    <3>. QED BY <1>6, <3>1, <3>2
  <2>3. CASE tab[x] = [hb |-> m.list[x], ts |-> m.ts[x]]
    BY <2>1, <2>3
  <2>. QED BY <1>7, <2>2, <2>3
<1>10. ASSUME NEW x \in T \cup S
       PROVE  KeepsEntry(i, tab, x) \/ NewsEntry(m, tab, x) \/ RawEntry(i, m, tab, x)
  BY <1>6, <1>7 DEF KeepsEntry, NewsEntry, RawEntry, Members
<1>11. tab[i] = old[i]
  <2>1. tab[i] = new[i]
    BY <1>7, <1>8
  <2>2. i \in S => m.list[i] <= heartbeat[i]
    BY <1>4, <1>6 DEF TrueNews
  <2>3. GoodTable(i, new)
    BY <1>2, <1>3, <1>4, MergeGood DEF new
  <2>4. new[i] = old[i] \/ (i \in S /\ ~(m.list[i] <= old[i].hb))
    <3>1. new[i] = IF i \in S /\ (i \in T => m.list[i] > old[i].hb)
                   THEN [hb |-> m.list[i], ts |-> globaltime] ELSE old[i]
      BY <1>5, <1>6, <1>8 DEF new, Merge
    <3>2. old[i].hb \in Nat /\ (i \in S => m.list[i] \in Nat)
      BY <1>3, <1>5, <1>8
    <3>. QED BY <1>8, <3>1, <3>2
  <2>5. old[i].hb = heartbeat[i]
    BY <1>2 DEF GoodTable
  <2>. QED BY <2>1, <2>2, <2>4, <2>5
<1>. QED BY <1>6, <1>7, <1>8, <1>9, <1>10, <1>11 DEF Members

-------------------------------------------------------------------------------
(* Heartbeats are clocks: a node that is up counts once in every tick from    *)
(* the one in which it gets into the group.                                   *)

Birth(x) == IF x = Introducer THEN 0 ELSE StartTime(x) + 1
Beat(x, t) == IF t > Birth(x) THEN t - Birth(x) ELSE 0

(* The last tick in which x has had its turn. *)
Counted(x) == IF turn < x THEN globaltime ELSE globaltime - 1

Counts ==
    \A x \in Node : inited[x] => /\ heartbeat[x] <= Beat(x, Counted(x))
                                 /\ ~bFailed[x] => heartbeat[x] = Beat(x, Counted(x))

(* A node's own entry has the stamp of its last turn. *)
OwnFresh ==
    \A x \in Node : inited[x] /\ ~bFailed[x] =>
        \/ memberList[x][x].ts >= Counted(x)
        \/ memberList[x][x].ts >= StartTime(x) /\ Counted(x) <= StartTime(x) + 1

(* An entry is stamped no earlier than its node counted so far.               *)
Stamped(x, hb, ts) == ts <= globaltime /\ hb <= Beat(x, ts)
Stamps ==
    /\ \A i \in Node : \A x \in Members(i) :
         Stamped(x, memberList[i][x].hb, memberList[i][x].ts)
    /\ \A m \in PendingMessages : m.type = "JOINREP" =>
         \A x \in DOMAIN m.list : Stamped(x, m.list[x], m.ts[x])

HeartInv == Counts /\ OwnFresh /\ Stamps

(* Beat is a count that stands still until Birth and then counts the ticks.   *)
LEMMA BeatFacts ==
    ASSUME NEW x \in Node
    PROVE  /\ Birth(x) \in Nat /\ Birth(x) <= StartTime(x) + 1
           /\ \A t \in Int : Beat(x, t) \in Nat
           /\ \A t, u \in Int : t <= u => Beat(x, t) <= Beat(x, u)
           /\ \A t, u \in Int : u > Birth(x) /\ Beat(x, t) >= Beat(x, u) => t >= u
<1>1. StartTime(x) \in Nat
  BY NodeFacts
<1>. QED BY <1>1, IntroducerFirst DEF Birth, Beat

(* Only its own turn changes the last tick in which a node had its turn.      *)
LEMMA CountedStays ==
    ASSUME IInv, NEW x \in Node,
           \/ turn = EN_GPSZ + 1 /\ turn' = EN_GPSZ /\ globaltime' = globaltime
           \/ turn = 0 /\ turn' = EN_GPSZ + 1 /\ globaltime' = globaltime + 1
           \/ turn' = turn /\ globaltime' = globaltime
           \/ turn \in Node \ {x} /\ turn' = turn - 1 /\ globaltime' = globaltime
    PROVE  Counted(x)' = Counted(x)
<1>1. x \in Nat /\ x > 0 /\ x <= EN_GPSZ /\ globaltime \in Nat /\ turn \in Nat /\ EN_GPSZ \in Nat
  BY GroupAssumption, LimitAssumption DEF IInv, TypeOK, Node
<1>2. \A t \in Nat : t # x => (t - 1 < x <=> t < x)
  BY <1>1
<1>. QED BY <1>1, <1>2 DEF Counted

(* A turn is over: the tick has been had.                                     *)
LEMMA CountedTurn ==
    ASSUME IInv, NEW x \in Node, turn = x, turn' = x - 1, globaltime' = globaltime
    PROVE  Counted(x) = globaltime - 1 /\ Counted(x)' = globaltime
BY GroupAssumption DEF Counted, Node

(* A node that waits for its JOINREP has been started in the tick before.     *)
LEMMA WaitsShortly ==
    ASSUME IInv, QInv, StartInv, JoinInv, NEW i \in Node, WaitForGroup(i)
    PROVE  i # Introducer /\ globaltime = StartTime(i) + 1
<1>1. /\ turn = i /\ Runs(i) /\ BagToSet(mp1q[i]) = {} /\ ~inGroup[i]
      /\ globaltime > StartTime(i) /\ ~bFailed[i]
  BY DEF WaitForGroup, LoopDue, Runs
<1>2. inited[i] /\ globaltime \in Nat /\ StartTime(i) \in Nat
  BY <1>1, RunningIsStarted, NodeFacts, LimitAssumption DEF IInv, TypeOK
<1>3. i # Introducer
  BY <1>1, <1>2 DEF JoinInv
<1>4. ~InviteDue(i)
  BY <1>1, GroupAssumption DEF InviteDue, Due, Node
<1>5. /\ globaltime = StartTime(i) + 2 => inGroup[i] \/ InviteDue(i)
      /\ globaltime > StartTime(i) + 2 => inGroup[i]
  BY <1>1, <1>2, <1>3 DEF JoinInv, Joins
<1>. QED BY <1>1, <1>2, <1>3, <1>4, <1>5

(* Every step keeps the counts.                                               *)
LEMMA CountsStay ==
    ASSUME IInv, QInv, StartInv, JoinInv, HeartInv, [Next]_vars
    PROVE  Counts'
<1>0. /\ heartbeat \in [Node -> Nat] /\ bFailed \in [Node -> BOOLEAN]
      /\ inited \in [Node -> BOOLEAN] /\ globaltime \in Nat
      /\ \A x \in Node : StartTime(x) \in Nat
  BY NodeFacts, LimitAssumption DEF IInv, TypeOK
<1>. DEFINE Right(x) == inited'[x] => /\ heartbeat'[x] <= Beat(x, Counted(x)')
                                      /\ ~bFailed'[x] => heartbeat'[x] = Beat(x, Counted(x)')
<1>1. ASSUME \A x \in Node : Right(x) PROVE Counts'
  BY <1>1 DEF Counts, Beat, Birth, StartTime, Introducer
<1>2. ASSUME NEW x \in Node PROVE inited[x] => /\ heartbeat[x] <= Beat(x, Counted(x))
                                               /\ ~bFailed[x] => heartbeat[x] = Beat(x, Counted(x))
  BY DEF HeartInv, Counts
<1>3. ASSUME NEW x \in Node, inited'[x] = inited[x], heartbeat'[x] = heartbeat[x],
             bFailed[x] => bFailed'[x], Counted(x)' = Counted(x)
      PROVE  Right(x)
  BY <1>2, <1>3
<1>4. ASSUME NEW i \in Node, turn = i, turn' = i - 1, globaltime' = globaltime, NEW x \in Node \ {i}
      PROVE  Counted(x)' = Counted(x)
  BY <1>4, CountedStays
<1>5. CASE recvLoop
  <2>1. \A x \in Node : Counted(x)' = Counted(x)
    BY <1>5, CountedStays DEF recvLoop
  <2>2. UNCHANGED <<inited, heartbeat, bFailed>>
    BY <1>5 DEF recvLoop, nodeVars
  <2>. QED BY <1>1, <1>3, <2>1, <2>2
<1>6. CASE Tick
  <2>1. \A x \in Node : Counted(x)' = Counted(x)
    BY <1>6, CountedStays DEF Tick
  <2>2. UNCHANGED <<inited, heartbeat, bFailed>>
    BY <1>6 DEF Tick, nodeVars
  <2>. QED BY <1>1, <1>3, <2>1, <2>2
<1>7. CASE Finished \/ UNCHANGED vars
  <2>1. UNCHANGED <<inited, heartbeat, bFailed, turn, globaltime>>
    BY <1>7 DEF Finished, vars, appVars, nodeVars
  <2>2. \A x \in Node : Counted(x)' = Counted(x)
    BY <2>1, CountedStays
  <2>. QED BY <1>1, <1>3, <2>1, <2>2
<1>8. ASSUME NEW i \in Node, Fail(i) PROVE Counts'
  <2>1. UNCHANGED <<inited, heartbeat, turn, globaltime>> /\ bFailed' = [bFailed EXCEPT ![i] = TRUE]
    BY <1>8 DEF Fail, nodeVars
  <2>2. \A x \in Node : Counted(x)' = Counted(x)
    BY <2>1, CountedStays
  <2>. QED BY <1>0, <1>1, <1>3, <2>1, <2>2
<1>9. ASSUME NEW i \in Node, Handles(i) PROVE Counts'
  <2>1. UNCHANGED <<appVars, heartbeat>>
    BY <1>9, HandlersHear DEF Hears, Handle
  <2>2. \A x \in Node : Counted(x)' = Counted(x)
    BY <2>1, CountedStays DEF appVars
  <2>. QED BY <1>1, <1>3, <2>1, <2>2 DEF appVars
<1>10. ASSUME NEW i \in Node, nodeStart(i) PROVE Counts'
  <2>1. /\ turn = i /\ turn' = i - 1 /\ globaltime' = globaltime /\ globaltime = StartTime(i)
        /\ inited' = [inited EXCEPT ![i] = TRUE] /\ heartbeat' = [heartbeat EXCEPT ![i] = 0]
    BY <1>10 DEF nodeStart, HasTurn
  <2>2. bFailed' = bFailed
    BY <1>10, StartsKeepFailures
  <2>3. Right(i)
    <3>1. Counted(i)' = globaltime /\ heartbeat'[i] = 0
      BY <1>0, <2>1, CountedTurn
    <3>2. Beat(i, globaltime) = 0
      BY <1>0, <2>1, IntroducerFirst DEF Beat, Birth
    <3>. QED BY <3>1, <3>2
  <2>4. ASSUME NEW x \in Node \ {i} PROVE Right(x)
    <3>1. inited'[x] = inited[x] /\ heartbeat'[x] = heartbeat[x]
      BY <1>0, <2>1
    <3>2. Counted(x)' = Counted(x)
      BY <1>4, <2>1
    <3>. QED BY <1>3, <2>2, <3>1, <3>2
  <2>. QED BY <1>1, <2>3, <2>4
<1>11. ASSUME NEW i \in Node, SkipTurn(i) \/ WaitForGroup(i) PROVE Counts'
  <2>1. /\ turn = i /\ turn' = i - 1 /\ UNCHANGED <<globaltime, inited, heartbeat, bFailed>>
    BY <1>11 DEF SkipTurn, WaitForGroup, HasTurn, nodeVars
  <2>2. Counted(i) = globaltime - 1 /\ Counted(i)' = globaltime
    BY <2>1, CountedTurn
  <2>3. Beat(i, globaltime - 1) <= Beat(i, globaltime) /\ Beat(i, globaltime) \in Nat
        /\ Beat(i, globaltime - 1) \in Nat
    BY <1>0, BeatFacts
  <2>4. Right(i)
    <3>1. CASE WaitForGroup(i)
      <4>1. i # Introducer /\ globaltime = StartTime(i) + 1
        BY <3>1, WaitsShortly
      <4>2. Beat(i, globaltime) = 0 /\ Beat(i, globaltime - 1) = 0
        BY <1>0, <4>1 DEF Beat, Birth
      <4>. QED BY <1>2, <2>1, <2>2, <4>2
    <3>2. CASE SkipTurn(i)
      <4>1. inited[i] => bFailed[i]
        <5>1. globaltime # StartTime(i) /\ ~(globaltime > StartTime(i) /\ ~bFailed[i])
          BY <3>2 DEF SkipTurn, Runs
        <5>2. inited[i] => globaltime > StartTime(i) \/ globaltime = StartTime(i)
          BY DEF IInv, Clock
        <5>. QED BY <5>1, <5>2
      <4>2. heartbeat[i] \in Nat
        BY <1>0
      <4>3. inited[i] => heartbeat[i] <= Beat(i, globaltime - 1)
        BY <1>2, <2>2
      <4>. QED BY <2>1, <2>2, <2>3, <4>1, <4>2, <4>3
    <3>. QED BY <1>11, <3>1, <3>2
  <2>5. ASSUME NEW x \in Node \ {i} PROVE Right(x)
    BY <1>3, <1>4, <2>1
  <2>. QED BY <1>1, <2>4, <2>5
<1>12. ASSUME NEW i \in Node, nodeLoopOps(i) PROVE Counts'
  <2>1. /\ turn = i /\ turn' = i - 1 /\ UNCHANGED <<globaltime, inited, bFailed>>
        /\ heartbeat' = [heartbeat EXCEPT ![i] = heartbeat[i] + 1]
        /\ inGroup[i] /\ Runs(i) /\ globaltime > StartTime(i) /\ ~bFailed[i]
    BY <1>12 DEF nodeLoopOps, LoopDue, HasTurn, Runs
  <2>2. Counted(i) = globaltime - 1 /\ Counted(i)' = globaltime
    BY <2>1, CountedTurn
  <2>3. inited[i]
    BY <2>1, RunningIsStarted
  <2>4. heartbeat[i] = Beat(i, globaltime - 1)
    BY <1>2, <2>1, <2>2, <2>3
  <2>5. globaltime - 1 >= Birth(i)
    <3>1. CASE i = Introducer
      BY <1>0, <2>1, <3>1 DEF Birth
    <3>2. CASE i # Introducer
      <4>1. \/ globaltime > StartTime(i) + 2
            \/ globaltime = StartTime(i) + 2
        BY <2>1, <3>2 DEF StartInv, GroupTimes
      <4>. QED BY <1>0, <3>2, <4>1 DEF Birth
    <3>. QED BY <3>1, <3>2
  <2>6. Beat(i, globaltime) = Beat(i, globaltime - 1) + 1
    <3>1. Birth(i) \in Nat
      BY BeatFacts
    <3>. QED BY <1>0, <2>5, <3>1 DEF Beat
  <2>7. Right(i)
    <3>1. heartbeat'[i] = Beat(i, globaltime)
      BY <1>0, <2>1, <2>4, <2>6
    <3>2. Beat(i, globaltime) \in Nat
      BY <1>0, BeatFacts
    <3>. QED BY <2>2, <3>1, <3>2
  <2>8. ASSUME NEW x \in Node \ {i} PROVE Right(x)
    <3>1. heartbeat'[x] = heartbeat[x]
      BY <1>0, <2>1
    <3>. QED BY <1>3, <1>4, <2>1, <3>1
  <2>. QED BY <1>1, <2>7, <2>8
<1>. QED BY <1>5, <1>6, <1>7, <1>8, <1>9, <1>10, <1>11, <1>12, StepCases

(* The table that nodeLoopOps leaves: its own entry is renewed, and all it    *)
(* erases is old.                                                             *)
LEMMA LoopTable ==
    ASSUME IInv, NEW i \in Node, nodeLoopOps(i)
    PROVE  /\ \A j \in Node \ {i} : memberList'[j] = memberList[j]
           /\ DOMAIN memberList'[i] \subseteq Members(i)
           /\ i \in DOMAIN memberList'[i]
           /\ memberList'[i][i] = [hb |-> heartbeat'[i], ts |-> globaltime]
           /\ \A x \in DOMAIN memberList'[i] : x # i => memberList'[i][x] = memberList[i][x]
           /\ \A x \in Members(i) \ DOMAIN memberList'[i] :
                x # i /\ globaltime - memberList[i][x].ts > TREMOVE
<1>. DEFINE own == [memberList[i] EXCEPT ![i] = [hb |-> heartbeat[i] + 1, ts |-> globaltime]]
            tab == [x \in DOMAIN own \ Expired(i, own) |-> own[x]]
<1>1. /\ Runs(i) /\ heartbeat' = [heartbeat EXCEPT ![i] = heartbeat[i] + 1]
      /\ memberList' = [memberList EXCEPT ![i] = tab]
  BY DEF nodeLoopOps, LoopDue
<1>2. GoodTable(i, memberList[i]) /\ DOMAIN memberList = Node /\ heartbeat \in [Node -> Nat]
  BY <1>1, RunningIsStarted, StartedHasGoodTable DEF IInv, TypeOK
<1>3. PICK T \in SUBSET Node : memberList[i] \in [T -> [hb : Nat, ts : Nat]]
  BY <1>2 DEF GoodTable, IsTable
<1>4. i \in T /\ DOMAIN own = T /\ Members(i) = T
  BY <1>2, <1>3 DEF GoodTable, Members
<1>5. /\ own[i] = [hb |-> heartbeat[i] + 1, ts |-> globaltime]
      /\ \A x \in T : x # i => own[x] = memberList[i][x]
  BY <1>3, <1>4
<1>6. Expired(i, own) = {x \in T \ {i} : globaltime - own[x].ts > TREMOVE}
  BY <1>4 DEF Expired, Age
<1>7. heartbeat'[i] = heartbeat[i] + 1
  BY <1>1, <1>2
<1>. HIDE DEF own
<1>8. memberList'[i] = [x \in T \ Expired(i, own) |-> own[x]]
  BY <1>1, <1>2, <1>4
<1>9. \A j \in Node \ {i} : memberList'[j] = memberList[j]
  BY <1>1, <1>2
<1>10. DOMAIN memberList'[i] = T \ Expired(i, own) /\ i \notin Expired(i, own)
  BY <1>6, <1>8
<1>11. /\ memberList'[i][i] = own[i]
       /\ \A x \in DOMAIN memberList'[i] : memberList'[i][x] = own[x]
  BY <1>4, <1>8, <1>10
<1>12. \A x \in Members(i) \ DOMAIN memberList'[i] :
         x # i /\ globaltime - memberList[i][x].ts > TREMOVE
  BY <1>4, <1>5, <1>6, <1>10
<1>. QED BY <1>4, <1>5, <1>7, <1>9, <1>10, <1>11, <1>12

(* Every step keeps the own entries fresh.                                    *)
LEMMA OwnFreshStays ==
    ASSUME IInv, QInv, StartInv, JoinInv, HeartInv, [Next]_vars
    PROVE  OwnFresh'
<1>0. /\ DOMAIN memberList = Node /\ bFailed \in [Node -> BOOLEAN]
      /\ inited \in [Node -> BOOLEAN] /\ globaltime \in Nat
      /\ \A x \in Node : StartTime(x) \in Nat
  BY NodeFacts, LimitAssumption DEF IInv, TypeOK
<1>. DEFINE Right(x) == inited'[x] /\ ~bFailed'[x] =>
                          \/ memberList'[x][x].ts >= Counted(x)'
                          \/ memberList'[x][x].ts >= StartTime(x) /\ Counted(x)' <= StartTime(x) + 1
<1>1. ASSUME \A x \in Node : Right(x) PROVE OwnFresh'
  BY <1>1 DEF OwnFresh, StartTime
<1>2. ASSUME NEW x \in Node
      PROVE  inited[x] /\ ~bFailed[x] =>
                 \/ memberList[x][x].ts >= Counted(x)
                 \/ memberList[x][x].ts >= StartTime(x) /\ Counted(x) <= StartTime(x) + 1
  BY DEF HeartInv, OwnFresh
<1>3. ASSUME NEW x \in Node, inited'[x] = inited[x], memberList'[x][x] = memberList[x][x],
             bFailed[x] => bFailed'[x], Counted(x)' = Counted(x)
      PROVE  Right(x)
  BY <1>2, <1>3
<1>4. ASSUME NEW i \in Node, turn = i, turn' = i - 1, globaltime' = globaltime, NEW x \in Node \ {i}
      PROVE  Counted(x)' = Counted(x)
  BY <1>4, CountedStays
<1>5. CASE recvLoop \/ Tick \/ Finished \/ UNCHANGED vars \/ \E i \in Node : Fail(i)
  <2>1. /\ UNCHANGED <<inited, memberList>>
        /\ \A x \in Node : bFailed[x] => bFailed'[x]
    BY <1>0, <1>5 DEF recvLoop, Tick, Finished, vars, appVars, Fail, nodeVars
  <2>2. \/ turn = EN_GPSZ + 1 /\ turn' = EN_GPSZ /\ globaltime' = globaltime
        \/ turn = 0 /\ turn' = EN_GPSZ + 1 /\ globaltime' = globaltime + 1
        \/ turn' = turn /\ globaltime' = globaltime
    BY <1>5 DEF recvLoop, Tick, Finished, vars, appVars, Fail
  <2>3. \A x \in Node : Counted(x)' = Counted(x)
    BY <2>2, CountedStays
  <2>. QED BY <1>1, <1>3, <2>1, <2>3
<1>6. ASSUME NEW i \in Node, Handles(i) PROVE OwnFresh'
  <2>1. PICK m, tab, ms : Hears(i, m, tab, ms)
    BY <1>6, HandlersHear
  <2>2. /\ UNCHANGED appVars
        /\ \A j \in Node : memberList'[j] = IF j = i THEN tab ELSE memberList[j]
    BY <2>1 DEF Hears, Handle, IInv, TypeOK
  <2>3. tab[i] = memberList[i][i]
    BY <2>1, Merged
  <2>4. \A x \in Node : memberList'[x][x] = memberList[x][x]
    BY <2>2, <2>3
  <2>5. \A x \in Node : Counted(x)' = Counted(x)
    BY <2>2, CountedStays DEF appVars
  <2>. QED BY <1>1, <1>3, <2>2, <2>4, <2>5 DEF appVars
<1>7. ASSUME NEW i \in Node, nodeStart(i) PROVE OwnFresh'
  <2>1. /\ turn = i /\ turn' = i - 1 /\ globaltime' = globaltime
        /\ inited' = [inited EXCEPT ![i] = TRUE]
        /\ memberList' = [memberList EXCEPT ![i] = [x \in {i} |-> [hb |-> 0, ts |-> globaltime]]]
    BY <1>7 DEF nodeStart, HasTurn
  <2>2. bFailed' = bFailed
    BY <1>7, StartsKeepFailures
  <2>3. Right(i)
    <3>1. memberList'[i][i].ts = globaltime
      BY <1>0, <2>1
    <3>2. Counted(i)' = globaltime
      BY <2>1, CountedTurn
    <3>. QED BY <1>0, <3>1, <3>2
  <2>4. ASSUME NEW x \in Node \ {i} PROVE Right(x)
    <3>1. inited'[x] = inited[x] /\ memberList'[x] = memberList[x]
      BY <1>0, <2>1
    <3>. QED BY <1>3, <1>4, <2>1, <2>2, <3>1
  <2>. QED BY <1>1, <2>3, <2>4
<1>8. ASSUME NEW i \in Node, SkipTurn(i) \/ WaitForGroup(i) PROVE OwnFresh'
  <2>1. /\ turn = i /\ turn' = i - 1 /\ UNCHANGED <<globaltime, inited, memberList, bFailed>>
    BY <1>8 DEF SkipTurn, WaitForGroup, HasTurn, nodeVars
  <2>2. Counted(i) = globaltime - 1 /\ Counted(i)' = globaltime
    BY <2>1, CountedTurn
  <2>3. Right(i)
    <3>1. CASE WaitForGroup(i)
      <4>1. globaltime = StartTime(i) + 1
        BY <3>1, WaitsShortly
      <4>2. Runs(i) /\ inited[i] /\ ~bFailed[i]
        BY <3>1, RunningIsStarted DEF WaitForGroup, LoopDue, Runs
      <4>3. memberList[i][i].ts >= StartTime(i)
        BY <1>0, <1>2, <2>2, <4>1, <4>2
      <4>. QED BY <1>0, <2>1, <2>2, <4>1, <4>3
    <3>2. CASE SkipTurn(i)
      <4>1. globaltime # StartTime(i) /\ ~(globaltime > StartTime(i) /\ ~bFailed[i])
        BY <3>2 DEF SkipTurn, Runs
      <4>2. inited[i] => globaltime > StartTime(i) \/ globaltime = StartTime(i)
        BY DEF IInv, Clock
      <4>. QED BY <2>1, <4>1, <4>2
    <3>. QED BY <1>8, <3>1, <3>2
  <2>4. ASSUME NEW x \in Node \ {i} PROVE Right(x)
    BY <1>3, <1>4, <2>1
  <2>. QED BY <1>1, <2>3, <2>4
<1>9. ASSUME NEW i \in Node, nodeLoopOps(i) PROVE OwnFresh'
  <2>1. /\ turn = i /\ turn' = i - 1 /\ UNCHANGED <<globaltime, inited, bFailed>>
    BY <1>9 DEF nodeLoopOps, HasTurn
  <2>2. /\ memberList'[i][i] = [hb |-> heartbeat'[i], ts |-> globaltime]
        /\ \A j \in Node \ {i} : memberList'[j] = memberList[j]
    BY <1>9, LoopTable
  <2>3. Right(i)
    <3>1. memberList'[i][i].ts = globaltime
      BY <2>2
    <3>2. Counted(i)' = globaltime
      BY <2>1, CountedTurn
    <3>. QED BY <1>0, <3>1, <3>2
  <2>4. ASSUME NEW x \in Node \ {i} PROVE Right(x)
    BY <1>3, <1>4, <2>1, <2>2
  <2>. QED BY <1>1, <2>3, <2>4
<1>. QED BY <1>5, <1>6, <1>7, <1>8, <1>9, StepCases

(* No heartbeat is ahead of the clock. *)
LEMMA BeatNow ==
    ASSUME IInv, HeartInv, NEW x \in Node, inited[x]
    PROVE  heartbeat[x] <= Beat(x, globaltime)
<1>1. globaltime \in Nat /\ heartbeat[x] \in Nat
  BY LimitAssumption DEF IInv, TypeOK
<1>2. Counted(x) \in Int /\ Counted(x) <= globaltime
  BY <1>1 DEF Counted
<1>3. heartbeat[x] <= Beat(x, Counted(x))
  BY DEF HeartInv, Counts
<1>4. /\ Beat(x, Counted(x)) <= Beat(x, globaltime)
      /\ Beat(x, Counted(x)) \in Nat /\ Beat(x, globaltime) \in Nat
  BY <1>1, <1>2, BeatFacts
<1>. QED BY <1>1, <1>3, <1>4

(* The entries of a table and the stamps of a JOINREP are numbers.            *)
LEMMA StampTypes ==
    ASSUME IInv
    PROVE  /\ \A i \in Node : \A x \in Members(i) :
                x \in Node /\ memberList[i][x].ts \in Nat /\ memberList[i][x].hb \in Nat
           /\ \A m \in PendingMessages : m.type = "JOINREP" =>
                \A x \in DOMAIN m.list : m.ts[x] \in Nat
<1>1. ASSUME NEW i \in Node, NEW x \in Members(i)
      PROVE  x \in Node /\ memberList[i][x].ts \in Nat /\ memberList[i][x].hb \in Nat
  <2>1. PICK T \in SUBSET Node : memberList[i] \in [T -> [hb : Nat, ts : Nat]]
    BY DEF IInv, TypeOK, IsTable
  <2>. QED BY <2>1 DEF Members
<1>2. ASSUME NEW m \in PendingMessages, m.type = "JOINREP", NEW x \in DOMAIN m.list
      PROVE  m.ts[x] \in Nat
  <2>1. Good(m)
    BY PendingGood
  <2>2. PICK S \in SUBSET Node : m.list \in [S -> Nat] /\ m.ts \in [S -> Nat]
    BY <1>2, <2>1 DEF Good, IsMessage, JoinReq, JoinRep, Direct, Indirect, GossipMsg
  <2>. QED BY <2>2
<1>. QED BY <1>1, <1>2

(* Every step keeps the stamps.                                               *)
LEMMA StampsStay ==
    ASSUME IInv, QInv, StartInv, JoinInv, HeartInv, [Next]_vars
    PROVE  Stamps'
<1>0. globaltime \in Nat /\ DOMAIN memberList = Node /\ EN_GPSZ \in Nat
  BY LimitAssumption, GroupAssumption DEF IInv, TypeOK
<1>. DEFINE Right(x, hb, ts) == ts <= globaltime' /\ hb <= Beat(x, ts)
<1>1. ASSUME \A j \in Node : \A x \in DOMAIN memberList'[j] :
                 Right(x, memberList'[j][x].hb, memberList'[j][x].ts),
             \A m \in PendingMessages' : m.type = "JOINREP" =>
                 \A x \in DOMAIN m.list : Right(x, m.list[x], m.ts[x])
      PROVE Stamps'
  BY <1>1 DEF Stamps, Members, Stamped, Beat, Birth, StartTime, Introducer
<1>2. /\ \A j \in Node : \A x \in Members(j) :
           /\ memberList[j][x].ts <= globaltime /\ memberList[j][x].ts \in Nat
           /\ memberList[j][x].hb <= Beat(x, memberList[j][x].ts)
      /\ \A m \in PendingMessages : m.type = "JOINREP" =>
           \A x \in DOMAIN m.list : /\ m.ts[x] <= globaltime /\ m.ts[x] \in Nat
                                    /\ m.list[x] <= Beat(x, m.ts[x])
  BY StampTypes DEF HeartInv, Stamps, Stamped
<1>3. ASSUME globaltime' \in {globaltime, globaltime + 1}
      PROVE  /\ \A j \in Node : \A x \in Members(j) :
                  Right(x, memberList[j][x].hb, memberList[j][x].ts)
             /\ \A m \in PendingMessages : m.type = "JOINREP" =>
                  \A x \in DOMAIN m.list : Right(x, m.list[x], m.ts[x])
  <2>1. \A t \in Nat : t <= globaltime => t <= globaltime'
    BY <1>0, <1>3
  <2>. QED BY <1>2, <2>1
<1>. HIDE DEF Right
<1>4. ASSUME globaltime' \in {globaltime, globaltime + 1}, memberList' = memberList,
             PendingMessages' \subseteq PendingMessages
      PROVE  Stamps'
  BY <1>1, <1>3, <1>4 DEF Members
<1>5. CASE recvLoop
  <2>1. globaltime' = globaltime /\ memberList' = memberList
    BY <1>5 DEF recvLoop, nodeVars
  <2>2. /\ BagToSet(net') \subseteq BagToSet(net)
        /\ \A j \in Node : BagToSet(mp1q'[j]) \subseteq BagToSet(net)
    BY <1>5, Received
  <2>. QED BY <1>4, <2>1, <2>2 DEF PendingMessages
<1>6. CASE Tick \/ Finished \/ UNCHANGED vars \/ \E i \in Node : Fail(i) \/ SkipTurn(i) \/ WaitForGroup(i)
  <2>1. UNCHANGED <<memberList, net, mp1q>> /\ globaltime' \in {globaltime, globaltime + 1}
    BY <1>6 DEF Tick, Finished, vars, appVars, Fail, SkipTurn, WaitForGroup, nodeVars, netVars
  <2>. QED BY <1>4, <2>1 DEF PendingMessages
<1>7. ASSUME NEW i \in Node, globaltime' = globaltime, Passes(i),
             \A m \in BagToSet(net') \ BagToSet(net) : m.type # "JOINREP",
             \A j \in Node \ {i} : memberList'[j] = memberList[j],
             \A x \in DOMAIN memberList'[i] : Right(x, memberList'[i][x].hb, memberList'[i][x].ts)
      PROVE  Stamps'
  <2>1. \A m \in PendingMessages' : m.type = "JOINREP" => m \in PendingMessages
    BY <1>7 DEF PendingMessages, Passes
  <2>2. /\ \A j \in Node : \A x \in Members(j) :
             Right(x, memberList[j][x].hb, memberList[j][x].ts)
        /\ \A m \in PendingMessages : m.type = "JOINREP" =>
             \A x \in DOMAIN m.list : Right(x, m.list[x], m.ts[x])
    BY <1>3, <1>7
  <2>3. \A m \in PendingMessages' : m.type = "JOINREP" =>
             \A x \in DOMAIN m.list : Right(x, m.list[x], m.ts[x])
    BY <2>1, <2>2
  <2>4. \A j \in Node : \A x \in DOMAIN memberList'[j] :
             Right(x, memberList'[j][x].hb, memberList'[j][x].ts)
    <3>1. TAKE j \in Node
    <3>2. CASE j = i
      BY <1>7, <3>2
    <3>3. CASE j # i
      BY <1>7, <2>2, <3>3 DEF Members
    <3>. QED BY <3>2, <3>3
  <2>. QED BY <1>1, <2>3, <2>4
<1>8. ASSUME NEW i \in Node, nodeStart(i) PROVE Stamps'
  <2>1. /\ globaltime' = globaltime
        /\ memberList' = [memberList EXCEPT ![i] = [x \in {i} |-> [hb |-> 0, ts |-> globaltime]]]
    BY <1>8 DEF nodeStart
  <2>2. Passes(i)
    BY <1>8, TurnsPass
  <2>3. \A m \in BagToSet(net') \ BagToSet(net) : m.type # "JOINREP"
    BY <1>8, StartSends
  <2>4. memberList'[i] = [x \in {i} |-> [hb |-> 0, ts |-> globaltime]]
    BY <1>0, <2>1
  <2>5. Beat(i, globaltime) \in Nat
    BY <1>0, BeatFacts
  <2>6. \A x \in DOMAIN memberList'[i] : Right(x, memberList'[i][x].hb, memberList'[i][x].ts)
    BY <1>0, <2>1, <2>4, <2>5 DEF Right
  <2>7. \A j \in Node \ {i} : memberList'[j] = memberList[j]
    BY <1>0, <2>1
  <2>. QED BY <1>7, <2>1, <2>2, <2>3, <2>6, <2>7
<1>9. ASSUME NEW i \in Node, nodeLoopOps(i) PROVE Stamps'
  <2>1. turn = i /\ turn' = i - 1 /\ globaltime' = globaltime /\ inited' = inited /\ Runs(i)
    BY <1>9 DEF nodeLoopOps, HasTurn, LoopDue
  <2>2. Passes(i)
    BY <1>9, TurnsPass
  <2>3. \A m \in BagToSet(net') \ BagToSet(net) : m.type # "JOINREP"
    BY <1>9, LoopSends
  <2>4. /\ \A j \in Node \ {i} : memberList'[j] = memberList[j]
        /\ DOMAIN memberList'[i] \subseteq Members(i)
        /\ memberList'[i][i] = [hb |-> heartbeat'[i], ts |-> globaltime]
        /\ \A x \in DOMAIN memberList'[i] : x # i => memberList'[i][x] = memberList[i][x]
    BY <1>9, LoopTable
  <2>5. heartbeat'[i] <= Beat(i, globaltime)
    <3>1. Counts' /\ inited'[i]
      BY <2>1, RunningIsStarted, CountsStay
    <3>2. heartbeat'[i] <= Beat(i, Counted(i)')
      BY <3>1 DEF Counts, Beat, Birth, StartTime, Introducer
    <3>3. Counted(i)' = globaltime
      BY <2>1, CountedTurn
    <3>. QED BY <3>2, <3>3
  <2>6. ASSUME NEW x \in DOMAIN memberList'[i]
        PROVE  Right(x, memberList'[i][x].hb, memberList'[i][x].ts)
    <3>1. CASE x = i
      BY <1>0, <2>1, <2>4, <2>5, <3>1 DEF Right
    <3>2. CASE x # i
      <4>1. x \in Members(i) /\ memberList'[i][x] = memberList[i][x]
        BY <2>4, <3>2
      <4>2. Right(x, memberList[i][x].hb, memberList[i][x].ts)
        BY <1>3, <2>1, <4>1
      <4>. QED BY <4>1, <4>2
    <3>. QED BY <3>1, <3>2
  <2>. QED BY <1>7, <2>1, <2>2, <2>3, <2>4, <2>6
<1>10. ASSUME NEW i \in Node, Handles(i) PROVE Stamps'
  <2>1. PICK m, tab, ms : Hears(i, m, tab, ms)
    BY <1>10, HandlersHear
  <2>2. /\ globaltime' = globaltime /\ m \in PendingMessages
        /\ \A j \in Node : memberList'[j] = IF j = i THEN tab ELSE memberList[j]
        /\ BagToSet(net') \subseteq BagToSet(net) \cup ms
        /\ \A j \in Node : BagToSet(mp1q'[j]) \subseteq BagToSet(mp1q[j])
    BY <2>1, HearQueues DEF appVars, Hears, PendingMessages
  <2>3. /\ IsTable(tab)
        /\ \A x \in DOMAIN tab :
             KeepsEntry(i, tab, x) \/ NewsEntry(m, tab, x) \/ RawEntry(i, m, tab, x)
    BY <2>1, Merged
  <2>4. /\ \A j \in Node : \A x \in Members(j) :
             Right(x, memberList[j][x].hb, memberList[j][x].ts)
        /\ \A n \in PendingMessages : n.type = "JOINREP" =>
             \A x \in DOMAIN n.list : Right(x, n.list[x], n.ts[x])
    BY <1>3, <2>2
  <2>5. ASSUME NEW x \in DOMAIN tab PROVE Right(x, tab[x].hb, tab[x].ts)
    <3>1. CASE KeepsEntry(i, tab, x)
      BY <2>4, <3>1 DEF KeepsEntry
    <3>2. CASE NewsEntry(m, tab, x)
      <4>1. inited[x] /\ m.list[x] <= heartbeat[x]
        BY <2>2, <3>2 DEF IInv, NoInventedNews, TrueNews, NewsEntry
      <4>2. x \in Node
        BY <2>3 DEF IsTable
      <4>3. heartbeat[x] <= Beat(x, globaltime)
        BY <4>1, <4>2, BeatNow
      <4>4. m.list[x] <= Beat(x, globaltime)
        <5>1. heartbeat[x] \in Nat /\ Beat(x, globaltime) \in Nat
          BY <1>0, <4>2, BeatFacts DEF IInv, TypeOK
        <5>2. m.list[x] \in Nat
          <6>1. Good(m)
            BY <2>2, PendingGood
          <6>2. PICK S \in SUBSET Node : m.list \in [S -> Nat]
            BY <6>1 DEF Good, IsMessage, JoinReq, JoinRep, Direct, Indirect, GossipMsg
          <6>. QED BY <3>2, <6>2 DEF NewsEntry
        <5>. QED BY <4>1, <4>3, <5>1, <5>2
      <4>5. tab[x].hb = m.list[x] /\ tab[x].ts = globaltime
        BY <3>2 DEF NewsEntry
      <4>. QED BY <1>0, <2>2, <4>4, <4>5 DEF Right
    <3>3. CASE RawEntry(i, m, tab, x)
      <4>1. tab[x].hb = m.list[x] /\ tab[x].ts = m.ts[x] /\ Right(x, m.list[x], m.ts[x])
        BY <2>2, <2>4, <3>3 DEF RawEntry
      <4>. QED BY <4>1
    <3>. QED BY <2>3, <3>1, <3>2, <3>3
  <2>6. ASSUME NEW n \in PendingMessages', n.type = "JOINREP", NEW x \in DOMAIN n.list
        PROVE  Right(x, n.list[x], n.ts[x])
    <3>1. n \in PendingMessages \/ n \in ms
      BY <2>2 DEF PendingMessages
    <3>2. CASE n \in ms
      <4>1. Introduces(n, tab)
        BY <2>1, <2>6, <3>2 DEF Hears
      <4>2. x \in DOMAIN tab /\ n.list[x] = tab[x].hb /\ n.ts[x] = tab[x].ts
        BY <2>6, <4>1 DEF Introduces
      <4>. QED BY <2>5, <4>2
    <3>. QED BY <2>4, <2>6, <3>1, <3>2
  <2>7. ASSUME NEW j \in Node, NEW x \in DOMAIN memberList'[j]
        PROVE  Right(x, memberList'[j][x].hb, memberList'[j][x].ts)
    <3>1. CASE j = i
      BY <2>2, <2>5, <2>7, <3>1
    <3>2. CASE j # i
      BY <2>2, <2>4, <2>7, <3>2 DEF Members
    <3>. QED BY <3>1, <3>2
  <2>. QED BY <1>1, <2>6, <2>7
<1>. QED BY <1>5, <1>6, <1>8, <1>9, <1>10, StepCases

(* HeartInv is an invariant under the same conditions.                        *)
LEMMA HeartInvariant == OneFailure /\ FailsLater => (Spec => []HeartInv)
<1>1. Init => HeartInv
  <2>. SUFFICES ASSUME Init PROVE HeartInv
    OBVIOUS
  <2>1. PendingMessages = {}
    BY DEF Init, PendingMessages, BagToSet, EmptyBag, SetToBag
  <2>. QED BY <2>1 DEF Init, HeartInv, Counts, OwnFresh, Stamps, Members
<1>2. IInv /\ QInv /\ StartInv /\ JoinInv /\ HeartInv /\ [Next]_vars => HeartInv'
  BY CountsStay, OwnFreshStays, StampsStay DEF HeartInv
<1>3. ASSUME OneFailure /\ FailsLater
      PROVE  Spec => []HeartInv
  BY <1>1, <1>2, <1>3, Invariance, QueuesInvariant, StartInvariant, JoinInvariant, PTL DEF Spec
<1>. QED BY <1>3

-------------------------------------------------------------------------------
(* An indirect probe on its way: i asks a after x, a pings x, x answers a     *)
(* with its own entry, and a passes that on to i.                             *)

Tells(m, x, v) == x \in DOMAIN m.list /\ m.list[x] >= v

Req(m, i, x, a)    == m.type = "PINGREQ" /\ m.to = a /\ m.from = i /\ m.addr = x
Ping(m, i, x, a)   == m.type = "PING" /\ m.to = x /\ m.from = a /\ m.fromPingreq /\ m.addr = i
Ack(m, i, x, a, v) == m.type = "ACK" /\ m.to = a /\ m.fromPingreq /\ m.addr = i /\ Tells(m, x, v)
Res(m, i, x, v)    == m.type = "ACK" /\ m.to = i /\ ~m.fromPingreq /\ Tells(m, x, v)

(* k ticks after i asked, with v the heartbeat x has when it answers. *)
Chase(i, x, a, k, v) ==
    \E m : \/ k = 0 /\ Sent(m) /\ Req(m, i, x, a)
           \/ k = 1 /\ Due(m) /\ Req(m, i, x, a)
           \/ k = 1 /\ Sent(m) /\ Ping(m, i, x, a)
           \/ k = 2 /\ Due(m) /\ Ping(m, i, x, a)
           \/ k = 2 /\ Sent(m) /\ Ack(m, i, x, a, v)
           \/ k = 3 /\ Due(m) /\ Ack(m, i, x, a, v)
           \/ k = 3 /\ Sent(m) /\ Res(m, i, x, v)
           \/ k = 4 /\ Due(m) /\ Res(m, i, x, v)

(* What i has asked a about x, given the stamp ts of its entry of x. *)
Asked(i, x, a, ts) == Chase(i, x, a, globaltime - ts - TFAIL, Beat(x, ts + TFAIL + 1))

(* i has had its turn since its entry of x got TFAIL ticks old. *)
Silent(i, ts) == globaltime - ts >= TFAIL /\ ~(globaltime - ts = TFAIL /\ turn >= i)

(* Such an entry of a node that is up is being asked after: each of the two   *)
(* relays has failed or has the probe.                                        *)
Probed(i, x, ts) == \E P \in Pairs(i) : \A a \in P : bFailed[a] \/ Asked(i, x, a, ts)

ProbeInv ==
    \A i \in Node : \A x \in Members(i) \ {i} :
        ~bFailed[i] /\ ~bFailed[x] /\ Silent(i, memberList[i][x].ts)
            => Probed(i, x, memberList[i][x].ts)

(* A step that loses no message keeps a probe on its way.                     *)
LEMMA ChaseKept ==
    ASSUME \A m : (Sent(m) => Sent(m)') /\ (Due(m) => Due(m)'),
           NEW i, NEW x, NEW a, NEW k, NEW v, Chase(i, x, a, k, v)
    PROVE  Chase(i, x, a, k, v)'
<1>1. PICK m : \/ k = 0 /\ Sent(m) /\ Req(m, i, x, a)
               \/ k = 1 /\ Due(m) /\ Req(m, i, x, a)
               \/ k = 1 /\ Sent(m) /\ Ping(m, i, x, a)
               \/ k = 2 /\ Due(m) /\ Ping(m, i, x, a)
               \/ k = 2 /\ Sent(m) /\ Ack(m, i, x, a, v)
               \/ k = 3 /\ Due(m) /\ Ack(m, i, x, a, v)
               \/ k = 3 /\ Sent(m) /\ Res(m, i, x, v)
               \/ k = 4 /\ Due(m) /\ Res(m, i, x, v)
  BY DEF Chase
<1>2. (Sent(m) => Sent(m)') /\ (Due(m) => Due(m)')
  OBVIOUS
<1>. QED BY <1>1, <1>2 DEF Chase, Req, Ping, Ack, Res, Tells

(* In recvLoop a probe whose nodes run gets into their queues.                *)
LEMMA ChaseReceived ==
    ASSUME IInv, QInv, recvLoop, NEW i \in Node, NEW x \in Node, NEW a \in Node,
           Runs(i), Runs(x), Runs(a), NEW k, NEW v, Chase(i, x, a, k, v)
    PROVE  Chase(i, x, a, k, v)'
<1>1. PICK m : \/ k = 0 /\ Sent(m) /\ Req(m, i, x, a)
               \/ k = 1 /\ Due(m) /\ Req(m, i, x, a)
               \/ k = 1 /\ Sent(m) /\ Ping(m, i, x, a)
               \/ k = 2 /\ Due(m) /\ Ping(m, i, x, a)
               \/ k = 2 /\ Sent(m) /\ Ack(m, i, x, a, v)
               \/ k = 3 /\ Due(m) /\ Ack(m, i, x, a, v)
               \/ k = 3 /\ Sent(m) /\ Res(m, i, x, v)
               \/ k = 4 /\ Due(m) /\ Res(m, i, x, v)
  BY DEF Chase
<1>2. m.to \in {i, x, a}
  BY <1>1 DEF Req, Ping, Ack, Res
<1>3. m.to \in Node /\ Runs(m.to)
  BY <1>2
<1>4. ~Sent(m) /\ (Due(m) => Due(m)')
  BY <1>3, RecvMessages
<1>. QED BY <1>1, <1>4 DEF Chase, Req, Ping, Ack, Res, Tells

(* When the clock moves, a probe is one tick further; none is due any more.   *)
LEMMA ChaseTicks ==
    ASSUME IInv, QInv, Tick, NEW i \in Node, NEW x \in Node, NEW a \in Node,
           NEW k \in Int, NEW v, Chase(i, x, a, k, v)
    PROVE  Chase(i, x, a, k + 1, v)'
<1>1. PICK m : \/ k = 0 /\ Sent(m) /\ Req(m, i, x, a)
               \/ k = 1 /\ Due(m) /\ Req(m, i, x, a)
               \/ k = 1 /\ Sent(m) /\ Ping(m, i, x, a)
               \/ k = 2 /\ Due(m) /\ Ping(m, i, x, a)
               \/ k = 2 /\ Sent(m) /\ Ack(m, i, x, a, v)
               \/ k = 3 /\ Due(m) /\ Ack(m, i, x, a, v)
               \/ k = 3 /\ Sent(m) /\ Res(m, i, x, v)
               \/ k = 4 /\ Due(m) /\ Res(m, i, x, v)
  BY DEF Chase
<1>2. m.to \in {i, x, a}
  BY <1>1 DEF Req, Ping, Ack, Res
<1>3. m.to \in Node
  BY <1>2
<1>4. ~Due(m) /\ (Sent(m) => Due(m)')
  BY <1>3, TickMessages
<1>5. \/ k + 1 = 1 /\ Due(m)' /\ Req(m, i, x, a)
      \/ k + 1 = 2 /\ Due(m)' /\ Ping(m, i, x, a)
      \/ k + 1 = 3 /\ Due(m)' /\ Ack(m, i, x, a, v)
      \/ k + 1 = 4 /\ Due(m)' /\ Res(m, i, x, v)
  BY <1>1, <1>4
<1>. QED BY <1>5 DEF Chase, Req, Ping, Ack, Res, Tells

(* A probe has room for all it carries.                                       *)
LEMMA ProbeFits ==
    ASSUME ProbesFit, NEW tab, IsTable(tab), NEW type, NEW to, NEW from, NEW indirect, NEW addr
    PROVE  Fits(ProbeMsg(type, to, from, indirect, addr, tab))
<1>1. DOMAIN FreshNews(tab) \in SUBSET Node
  BY DEF FreshNews, Fresh, IsTable
<1>2. IsFiniteSet(Node) /\ Cardinality(Node) = EN_GPSZ /\ EN_GPSZ \in Nat
  <2>1. 1 \in Int /\ EN_GPSZ \in Int /\ EN_GPSZ >= 3 /\ EN_GPSZ \in Nat
    BY GroupAssumption
  <2>2. IsFiniteSet(1 .. EN_GPSZ)
        /\ Cardinality(1 .. EN_GPSZ) = IF 1 > EN_GPSZ THEN 0 ELSE EN_GPSZ - 1 + 1
    BY <2>1, FS_Interval
  <2>. QED BY <2>1, <2>2 DEF Node
<1>3. Cardinality(DOMAIN FreshNews(tab)) <= EN_GPSZ
  BY <1>1, <1>2, FS_Subset
<1>4. Cardinality(DOMAIN FreshNews(tab)) \in Nat
  BY <1>1, <1>2, FS_Subset, FS_CardinalityType
<1>5. Cardinality(DOMAIN FreshNews(tab)) <= MaxEntries
  BY <1>2, <1>3, <1>4, LimitAssumption DEF ProbesFit
<1>. QED BY <1>5 DEF Fits, ProbeMsg

(* A node that is up has been silent about itself for two ticks at most.      *)
LEMMA OwnAge ==
    ASSUME IInv, HeartInv, NEW x \in Node, inited[x], ~bFailed[x]
    PROVE  globaltime - memberList[x][x].ts <= 2
<1>1. /\ globaltime \in Nat /\ StartTime(x) \in Nat /\ x \in Members(x)
      /\ memberList[x][x].ts \in Nat
  BY NodeFacts, StampTypes, LimitAssumption DEF IInv, TypeOK, OwnEntry, Members
<1>2. Counted(x) \in Int /\ globaltime - 1 <= Counted(x)
  BY <1>1 DEF Counted
<1>3. \/ memberList[x][x].ts >= Counted(x)
      \/ memberList[x][x].ts >= StartTime(x) /\ Counted(x) <= StartTime(x) + 1
  BY DEF HeartInv, OwnFresh
<1>. QED BY <1>1, <1>2, <1>3

(* TFAIL is two ticks at least. *)
LEMMA FailTicks ==
    ASSUME StartsInTime
    PROVE  TFAIL >= 2 /\ TFAIL \in Nat /\ \A i \in Node : StartTime(i) + 2 <= TFAIL
<1>1. Introducer \in Node /\ StartTime(Introducer) = 0
  BY NodeFacts, IntroducerFirst
<1>2. TFAIL \in Nat
  BY TimeoutAssumption
<1>. QED BY <1>1, <1>2 DEF StartsInTime

(* What is answered to a probe is sent. *)
LEMMA AnswerSent ==
    ASSUME IInv, QInv, ProbesFit, NEW j \in Node, NEW m, NEW tab, NEW ms, Hears(j, m, tab, ms),
           m.type \in {"PING", "ACK", "PINGREQ"}, NEW n, n \in Answer(j, m, tab)
    PROVE  Sent(n)'
<1>1. IsTable(tab) /\ n \in ms
  BY Merged DEF Hears
<1>2. \A type, to, indirect, addr : Fits(ProbeMsg(type, to, j, indirect, addr, tab))
  BY <1>1, ProbeFits
<1>3. \E type, to, indirect, addr : n = ProbeMsg(type, to, j, indirect, addr, tab)
  BY DEF Answer
<1>4. Fits(n)
  BY <1>2, <1>3
<1>. QED BY <1>1, <1>4, HearMessages

(* A fresh entry of the table is told. *)
LEMMA FreshIsTold ==
    ASSUME NEW tab, NEW x \in DOMAIN tab, globaltime - tab[x].ts <= TFAIL,
           NEW v, tab[x].hb >= v,
           NEW type, NEW to, NEW from, NEW indirect, NEW addr
    PROVE  Tells(ProbeMsg(type, to, from, indirect, addr, tab), x, v)
<1>1. x \in Fresh(tab)
  BY DEF Fresh
<1>2. FreshNews(tab)[x] = tab[x].hb /\ x \in DOMAIN FreshNews(tab)
  BY <1>1 DEF FreshNews
<1>. QED BY <1>2 DEF Tells, ProbeMsg

(* a handles the PINGREQ: it pings x. *)
LEMMA ReqHeard ==
    ASSUME IInv, QInv, ProbesFit, NEW i \in Node, NEW x \in Node, NEW a \in Node,
           NEW m, NEW tab, NEW ms, Hears(a, m, tab, ms), Req(m, i, x, a), NEW v
    PROVE  Chase(i, x, a, 1, v)'
<1>1. m.type = "PINGREQ" /\ m.from = i /\ m.addr = x
  BY DEF Req
<1>2. ProbeMsg("PING", x, a, TRUE, i, tab) \in Answer(a, m, tab)
  BY <1>1 DEF Answer
<1>3. PICK n : n = ProbeMsg("PING", x, a, TRUE, i, tab)
  OBVIOUS
<1>4. Sent(n)'
  BY <1>1, <1>2, <1>3, AnswerSent
<1>5. Ping(n, i, x, a)
  BY <1>3 DEF Ping, ProbeMsg
<1>. QED BY <1>4, <1>5 DEF Chase, Ping

(* x handles the PING: it answers with its own entry, which is fresh and has  *)
(* the count of its last turn.                                                *)
LEMMA PingHeard ==
    ASSUME IInv, QInv, HeartInv, ProbesFit, StartsInTime,
           NEW i \in Node, NEW x \in Node, NEW a \in Node, ~bFailed[x],
           NEW m, NEW tab, NEW ms, Hears(x, m, tab, ms), Ping(m, i, x, a),
           NEW v, v = Beat(x, globaltime - 1)
    PROVE  Chase(i, x, a, 2, v)'
<1>1. m.type = "PING" /\ m.from = a /\ m.addr = i /\ m.fromPingreq
  BY DEF Ping
<1>2. ProbeMsg("ACK", a, x, m.fromPingreq, IF m.fromPingreq THEN m.addr ELSE NoAddr, tab)
        \in Answer(x, m, tab)
  BY <1>1 DEF Answer
<1>3. PICK n : n = ProbeMsg("ACK", a, x, m.fromPingreq,
                            IF m.fromPingreq THEN m.addr ELSE NoAddr, tab)
  OBVIOUS
<1>4. Sent(n)'
  BY <1>1, <1>2, <1>3, AnswerSent
<1>5. turn = x /\ Runs(x) /\ inited[x]
  BY RunningIsStarted DEF Hears
<1>6. x \in DOMAIN tab /\ tab[x] = memberList[x][x]
  BY Merged
<1>7. tab[x].hb = v
  <2>1. tab[x].hb = heartbeat[x]
    BY <1>5, <1>6 DEF IInv, OwnEntry
  <2>2. Counted(x) = globaltime - 1
    BY <1>5 DEF Counted, Node
  <2>3. heartbeat[x] = Beat(x, Counted(x))
    BY <1>5 DEF HeartInv, Counts
  <2>. QED BY <2>1, <2>2, <2>3
<1>8. globaltime - tab[x].ts <= TFAIL
  <2>1. globaltime - memberList[x][x].ts <= 2
    BY <1>5, OwnAge
  <2>2. globaltime \in Nat /\ memberList[x][x].ts \in Nat
    BY <1>5, StampTypes, LimitAssumption DEF IInv, TypeOK, OwnEntry, Members
  <2>. QED BY <1>6, <2>1, <2>2, FailTicks
<1>9. tab[x].hb >= v
  <2>1. globaltime - 1 \in Int
    BY LimitAssumption DEF IInv, TypeOK
  <2>2. v \in Nat
    BY <2>1, BeatFacts
  <2>. QED BY <1>7, <2>2
<1>10. Tells(n, x, v)
  BY <1>3, <1>6, <1>8, <1>9, FreshIsTold
<1>11. Ack(n, i, x, a, v)
  BY <1>1, <1>3, <1>10 DEF Ack, ProbeMsg
<1>. QED BY <1>4, <1>11 DEF Chase, Ack, Tells

(* a handles the ACK: it passes on an entry that is no older.                 *)
LEMMA AckHeard ==
    ASSUME IInv, QInv, HeartInv', ProbesFit, StartsInTime,
           NEW i \in Node, NEW x \in Node, NEW a \in Node, NEW t \in Nat,
           t > Birth(x), globaltime - t <= TFAIL, NEW v, v = Beat(x, t),
           NEW m, NEW tab, NEW ms, Hears(a, m, tab, ms), Ack(m, i, x, a, v)
    PROVE  Chase(i, x, a, 3, v)'
<1>1. m.type = "ACK" /\ m.addr = i /\ m.fromPingreq /\ Tells(m, x, v)
  BY DEF Ack
<1>2. ProbeMsg("ACK", i, a, FALSE, NoAddr, tab) \in Answer(a, m, tab)
  BY <1>1 DEF Answer
<1>3. PICK n : n = ProbeMsg("ACK", i, a, FALSE, NoAddr, tab)
  OBVIOUS
<1>4. Sent(n)'
  BY <1>1, <1>2, <1>3, AnswerSent
<1>5. /\ IsTable(tab) /\ x \in DOMAIN m.list /\ m.list[x] >= v
      /\ x \in DOMAIN tab /\ tab[x].hb >= m.list[x]
  BY <1>1, Merged DEF Tells
<1>6. tab[x].hb \in Nat /\ tab[x].ts \in Nat /\ m.list[x] \in Nat /\ v \in Nat
  <2>1. m \in PendingMessages
    BY DEF Hears, PendingMessages
  <2>2. PICK S \in SUBSET Node : m.list \in [S -> Nat]
    BY <2>1, PendingGood DEF Good, IsMessage, JoinReq, JoinRep, Direct, Indirect, GossipMsg
  <2>3. Beat(x, t) \in Nat
    BY BeatFacts
  <2>. QED BY <1>5, <2>2, <2>3 DEF IsTable
<1>7. tab[x].hb <= Beat(x, tab[x].ts)
  <2>1. memberList'[a] = tab
    BY HearQueues
  <2>2. Stamps'
    BY DEF HeartInv
  <2>3. \A y \in DOMAIN memberList'[a] : memberList'[a][y].hb <= Beat(y, memberList'[a][y].ts)
    BY <2>2 DEF Stamps, Stamped, Members, Beat, Birth, StartTime, Introducer
  <2>. QED BY <1>5, <2>1, <2>3
<1>8. tab[x].ts >= t
  <2>1. Beat(x, tab[x].ts) \in Nat
    <3>1. \A u \in Int : Beat(x, u) \in Nat
      BY BeatFacts
    <3>. QED BY <1>6, <3>1
  <2>2. Beat(x, tab[x].ts) >= Beat(x, t)
    BY <1>5, <1>6, <1>7, <2>1
  <2>3. \A u, w \in Int : w > Birth(x) /\ Beat(x, u) >= Beat(x, w) => u >= w
    BY BeatFacts
  <2>. QED BY <1>6, <2>2, <2>3
<1>9. globaltime - tab[x].ts <= TFAIL /\ tab[x].hb >= v
  <2>1. globaltime \in Nat /\ TFAIL \in Nat
    BY TimeoutAssumption, LimitAssumption DEF IInv, TypeOK
  <2>. QED BY <1>5, <1>6, <1>8, <2>1
<1>10. Tells(n, x, v)
  BY <1>3, <1>5, <1>9, FreshIsTold
<1>11. Res(n, i, x, v)
  BY <1>3, <1>10 DEF Res, ProbeMsg
<1>. QED BY <1>4, <1>11 DEF Chase, Res, Tells

(* A handler keeps a probe on its way, unless it ends it: i gets the answer.  *)
LEMMA ChaseHeard ==
    ASSUME IInv, QInv, HeartInv, HeartInv', ProbesFit, StartsInTime,
           NEW i \in Node, NEW x \in Node, NEW a \in Node, ~bFailed[x],
           NEW k \in Int, NEW t \in Nat, k = globaltime - t + 1, t > Birth(x),
           NEW v, v = Beat(x, t), Chase(i, x, a, k, v),
           NEW j \in Node, NEW m, NEW tab, NEW ms, Hears(j, m, tab, ms)
    PROVE  Chase(i, x, a, k, v)' \/ (j = i /\ Tells(m, x, v))
<1>0. /\ globaltime \in Nat /\ m.to = j
      /\ TFAIL >= 2 /\ TFAIL \in Nat
  BY HearQueues, FailTicks, LimitAssumption DEF IInv, TypeOK
<1>1. PICK n : \/ k = 0 /\ Sent(n) /\ Req(n, i, x, a)
               \/ k = 1 /\ Due(n) /\ Req(n, i, x, a)
               \/ k = 1 /\ Sent(n) /\ Ping(n, i, x, a)
               \/ k = 2 /\ Due(n) /\ Ping(n, i, x, a)
               \/ k = 2 /\ Sent(n) /\ Ack(n, i, x, a, v)
               \/ k = 3 /\ Due(n) /\ Ack(n, i, x, a, v)
               \/ k = 3 /\ Sent(n) /\ Res(n, i, x, v)
               \/ k = 4 /\ Due(n) /\ Res(n, i, x, v)
  BY DEF Chase
<1>2. n.to \in {i, x, a}
  BY <1>1 DEF Req, Ping, Ack, Res
<1>3. /\ Sent(n) => Sent(n)'
      /\ Due(n) /\ n # m /\ n.to \in Node => Due(n)'
  BY HearMessages
<1>4. CASE n # m \/ ~Due(n)
  <2>1. (Sent(n) => Sent(n)') /\ (Due(n) => Due(n)')
    BY <1>2, <1>3, <1>4
  <2>. QED BY <1>1, <2>1 DEF Chase, Req, Ping, Ack, Res, Tells
<1>5. CASE n = m /\ Due(n)
  <2>1. CASE \/ k = 0 /\ Sent(n) /\ Req(n, i, x, a)
             \/ k = 1 /\ Sent(n) /\ Ping(n, i, x, a)
             \/ k = 2 /\ Sent(n) /\ Ack(n, i, x, a, v)
             \/ k = 3 /\ Sent(n) /\ Res(n, i, x, v)
    BY <1>3, <2>1 DEF Chase, Req, Ping, Ack, Res, Tells
  <2>2. CASE k = 1 /\ Req(n, i, x, a)
    <3>1. j = a
      BY <1>0, <1>5, <2>2 DEF Req
    <3>2. Chase(i, x, a, 1, v)'
      BY <1>5, <2>2, <3>1, ReqHeard
    <3>. QED BY <2>2, <3>2
  <2>3. CASE k = 2 /\ Ping(n, i, x, a)
    <3>1. j = x
      BY <1>0, <1>5, <2>3 DEF Ping
    <3>2. t = globaltime - 1
      BY <1>0, <2>3
    <3>3. v = Beat(x, globaltime - 1)
      BY <3>2
    <3>4. Chase(i, x, a, 2, v)'
      BY <1>5, <2>3, <3>1, <3>3, PingHeard
    <3>. QED BY <2>3, <3>4
  <2>4. CASE k = 3 /\ Ack(n, i, x, a, v)
    <3>1. j = a
      BY <1>0, <1>5, <2>4 DEF Ack
    <3>2. globaltime - t <= TFAIL
      BY <1>0, <2>4
    <3>3. Chase(i, x, a, 3, v)'
      BY <1>5, <2>4, <3>1, <3>2, AckHeard
    <3>. QED BY <2>4, <3>3
  <2>5. CASE k = 4 /\ Res(n, i, x, v)
    BY <1>0, <1>5, <2>5 DEF Res
  <2>. QED BY <1>1, <2>1, <2>2, <2>3, <2>4, <2>5
<1>. QED BY <1>4, <1>5

-------------------------------------------------------------------------------
(* i asks two relays after x when its entry is TFAIL ticks old.               *)
LEMMA LoopAsks ==
    ASSUME IInv, QInv, ProbesFit, NEW i \in Node, nodeLoopOps(i),
           NEW x \in Members(i) \ {i}, globaltime - memberList[i][x].ts = TFAIL
    PROVE  \E P \in Pairs(i) : \A a \in P : \A v : Chase(i, x, a, 0, v)'
<1>. DEFINE own == [memberList[i] EXCEPT ![i] = [hb |-> heartbeat[i] + 1, ts |-> globaltime]]
            tab == [y \in DOMAIN own \ Expired(i, own) |-> own[y]]
<1>1. PICK pick, target :
        /\ pick \in [Suspects(i, own) -> Pairs(i)]
        /\ Send(sendPingRequests(i, pick, own) \cup sendPing(i, target, tab))
  BY DEF nodeLoopOps
<1>2. /\ Runs(i) /\ turn' = i - 1
      /\ GoodTable(i, memberList[i]) /\ heartbeat \in [Node -> Nat] /\ globaltime \in Nat
  BY RunningIsStarted, StartedHasGoodTable, LimitAssumption
     DEF IInv, TypeOK, nodeLoopOps, LoopDue, HasTurn
<1>3. PICK T \in SUBSET Node : memberList[i] \in [T -> [hb : Nat, ts : Nat]]
  BY <1>2 DEF GoodTable, IsTable
<1>4. /\ DOMAIN own = T /\ x \in T /\ own[x] = memberList[i][x]
      /\ own \in [T -> [hb : Nat, ts : Nat]]
  <2>1. i \in T /\ x \in T /\ heartbeat[i] + 1 \in Nat
    BY <1>2, <1>3 DEF GoodTable, Members
  <2>. QED BY <1>2, <1>3, <2>1
<1>5. IsTable(own)
  BY <1>4 DEF IsTable
<1>. HIDE DEF own, tab
<1>6. x \in Suspects(i, own)
  <2>1. Age(own, x) = TFAIL
    BY <1>4 DEF Age
  <2>2. TFAIL \in Nat \ {0} /\ TFAIL < TREMOVE /\ TFAIL >= TFAIL
    BY TimeoutAssumption
  <2>3. TFAIL % TFAIL = 0
    BY <2>2
  <2>. QED BY <1>4, <2>1, <2>2, <2>3 DEF Suspects
<1>7. PICK P \in Pairs(i) : P = pick[x]
  BY <1>1, <1>6
<1>8. ASSUME NEW a \in P, NEW v
      PROVE  Chase(i, x, a, 0, v)'
  <2>1. PICK n : n = ProbeMsg("PINGREQ", a, i, TRUE, x, own)
    OBVIOUS
  <2>2. n \in sendPingRequests(i, pick, own)
    <3>1. a \in pick[x] /\ x \in DOMAIN pick
      BY <1>1, <1>6, <1>7, <1>8
    <3>. DEFINE M(y, to) == ProbeMsg("PINGREQ", to, i, TRUE, y, own)
    <3>2. n = M(x, a)
      BY <2>1
    <3>. HIDE DEF M
    <3>3. n \in UNION {{M(y, to) : to \in pick[y]} : y \in DOMAIN pick}
      <4>1. n \in {M(x, to) : to \in pick[x]}
        BY <3>1, <3>2
      <4>2. {M(x, to) : to \in pick[x]} \in {{M(y, to) : to \in pick[y]} : y \in DOMAIN pick}
        BY <3>1
      <4>. QED BY <4>1, <4>2
    <3>. QED BY <3>3 DEF sendPingRequests, M
  <2>3. Fits(n)
    BY <1>5, <2>1, ProbeFits
  <2>4. n \in BagToSet(net')
    <3>. DEFINE ms == sendPingRequests(i, pick, own) \cup sendPing(i, target, tab)
    <3>1. n \in ms
      BY <2>2
    <3>2. IsABag(net) /\ Send(ms)
      BY <1>1 DEF QInv, Queues
    <3>. HIDE DEF ms
    <3>3. BagToSet(net') = BagToSet(net) \cup {y \in ms : Fits(y)}
      BY <3>2, SendAdds
    <3>. QED BY <2>3, <3>1, <3>3
  <2>5. Sent(n)'
    BY <1>2, <2>4, GroupAssumption DEF Sent, Node
  <2>6. Req(n, i, x, a)
    BY <2>1 DEF Req, ProbeMsg
  <2>. QED BY <2>5, <2>6 DEF Chase, Req
<1>. QED BY <1>7, <1>8

-------------------------------------------------------------------------------
(* Every step keeps ProbeInv.                                                 *)

(* The nodes that ProbeInv speaks of, with the stamp ts. *)
Needs(i, x, ts) ==
    /\ x \in Members(i) \ {i} /\ memberList[i][x].ts = ts
    /\ ~bFailed[i] /\ ~bFailed[x]
    /\ Silent(i, ts)

(* The relay a has been asked, in terms of the ticks since and of the         *)
(* heartbeat it will have told.                                               *)
LEMMA AskedMeans ==
    ASSUME NEW i, NEW x, NEW a, NEW ts, NEW k, NEW v, v = Beat(x, ts + TFAIL + 1)
    PROVE  /\ k = globaltime - ts - TFAIL => (Asked(i, x, a, ts) <=> Chase(i, x, a, k, v))
           /\ k = globaltime' - ts - TFAIL => (Asked(i, x, a, ts)' <=> Chase(i, x, a, k, v)')
<1>1. k = globaltime - ts - TFAIL => (Asked(i, x, a, ts) <=> Chase(i, x, a, k, v))
  BY DEF Asked
<1>2. k = globaltime' - ts - TFAIL => (Asked(i, x, a, ts)' <=> Chase(i, x, a, k, v)')
  BY DEF Asked, Beat, Birth, StartTime, Introducer
<1>. QED BY <1>1, <1>2

(* Probes that are kept keep the node probed. *)
LEMMA ProbedKept ==
    ASSUME NEW i \in Node, NEW x, NEW ts, Probed(i, x, ts),
           \A a \in Node : bFailed[a] => bFailed'[a],
           \A a \in Node : ~bFailed[a] /\ Asked(i, x, a, ts) => Asked(i, x, a, ts)'
    PROVE  Probed(i, x, ts)'
<1>1. PICK P \in Pairs(i) : \A a \in P : bFailed[a] \/ Asked(i, x, a, ts)
  BY DEF Probed
<1>2. P \subseteq Node
  BY PairsOfNodes
<1>3. \A a \in P : bFailed'[a] \/ Asked(i, x, a, ts)'
  BY <1>1, <1>2
<1>. QED BY <1>1, <1>3 DEF Probed, Pairs, Others, Node

(* A step in which no message is lost keeps what was probed. *)
LEMMA ProbedPasses ==
    ASSUME NEW i \in Node, NEW x, NEW ts, Probed(i, x, ts),
           \A a \in Node : bFailed[a] => bFailed'[a], globaltime' = globaltime,
           \A m : (Sent(m) => Sent(m)') /\ (Due(m) => Due(m)')
    PROVE  Probed(i, x, ts)'
<1>1. ASSUME NEW a \in Node, Asked(i, x, a, ts)
      PROVE  Asked(i, x, a, ts)'
  <2>1. PICK k, v : k = globaltime - ts - TFAIL /\ v = Beat(x, ts + TFAIL + 1)
    OBVIOUS
  <2>2. k = globaltime' - ts - TFAIL
    BY <2>1
  <2>3. Chase(i, x, a, k, v)
    BY <1>1, <2>1, AskedMeans
  <2>4. Chase(i, x, a, k, v)'
    BY <2>3, ChaseKept
  <2>. QED BY <2>1, <2>2, <2>4, AskedMeans
<1>. QED BY <1>1, ProbedKept

(* A silent entry is old enough for everybody to have been started. *)
LEMMA SilentRuns ==
    ASSUME IInv, StartsInTime, NEW ts \in Nat, globaltime - ts >= TFAIL
    PROVE  /\ \A j \in Node : ~bFailed[j] => Runs(j)
           /\ \A j \in Node : globaltime >= StartTime(j) + 2
<1>1. globaltime \in Nat /\ TFAIL \in Nat /\ \A j \in Node : StartTime(j) \in Nat
  BY NodeFacts, FailTicks, LimitAssumption DEF IInv, TypeOK
<1>2. \A j \in Node : globaltime >= StartTime(j) + 2
  BY <1>1, FailTicks
<1>. QED BY <1>1, <1>2 DEF Runs

(* The stamps that ProbeInv speaks of are numbers. *)
LEMMA NeedsTypes ==
    ASSUME IInv, NEW i \in Node, NEW x, NEW ts, Needs(i, x, ts)
    PROVE  x \in Node /\ ts \in Nat /\ globaltime \in Nat /\ TFAIL \in Nat /\ turn \in Int
<1>1. globaltime \in Nat /\ TFAIL \in Nat /\ turn \in Int
  BY LimitAssumption, TimeoutAssumption DEF IInv, TypeOK
<1>. QED BY <1>1, StampTypes DEF Needs

(* recvLoop keeps a probe on its way. *)
LEMMA ProbeReceived ==
    ASSUME IInv, IInv', QInv, ProbeInv, StartsInTime, recvLoop,
           NEW i \in Node, NEW x, NEW ts, Needs(i, x, ts)'
    PROVE  Probed(i, x, ts)'
<1>1. /\ x \in Node /\ ts \in Nat /\ globaltime \in Nat /\ TFAIL \in Nat
      /\ x \in Members(i) \ {i} /\ memberList[i][x].ts = ts
      /\ ~bFailed[i] /\ ~bFailed[x]
      /\ globaltime' = globaltime /\ bFailed' = bFailed
      /\ turn = EN_GPSZ + 1 /\ turn' = EN_GPSZ /\ EN_GPSZ \in Nat /\ i <= EN_GPSZ /\ i \in Nat
  <2>1. memberList' = memberList /\ globaltime' = globaltime /\ bFailed' = bFailed
    BY DEF recvLoop, nodeVars
  <2>2. turn = EN_GPSZ + 1 /\ turn' = EN_GPSZ /\ EN_GPSZ \in Nat /\ i <= EN_GPSZ /\ i \in Nat
    BY GroupAssumption DEF recvLoop, Node
  <2>3. globaltime \in Nat /\ TFAIL \in Nat
    BY LimitAssumption, TimeoutAssumption DEF IInv, TypeOK
  <2>4. x \in Members(i) \ {i} /\ memberList[i][x].ts = ts /\ ~bFailed[i] /\ ~bFailed[x]
    BY <2>1 DEF Needs, Members
  <2>. QED BY <2>1, <2>2, <2>3, <2>4, StampTypes
<1>2. globaltime - ts > TFAIL
  <2>1. globaltime' - ts >= TFAIL /\ ~(globaltime' - ts = TFAIL /\ turn' >= i)
    BY DEF Needs, Silent
  <2>. QED BY <1>1, <2>1
<1>3. Needs(i, x, ts)
  BY <1>1, <1>2 DEF Needs, Silent
<1>4. Probed(i, x, ts)
  BY <1>3 DEF ProbeInv, Needs
<1>5. ASSUME NEW a \in Node, ~bFailed[a], Asked(i, x, a, ts)
      PROVE  Asked(i, x, a, ts)'
  <2>1. PICK k, v : k = globaltime - ts - TFAIL /\ v = Beat(x, ts + TFAIL + 1)
    OBVIOUS
  <2>2. k = globaltime' - ts - TFAIL
    BY <1>1, <2>1
  <2>3. Chase(i, x, a, k, v)
    BY <1>5, <2>1, AskedMeans
  <2>4. Runs(i) /\ Runs(x) /\ Runs(a)
    BY <1>1, <1>2, <1>5, SilentRuns
  <2>5. Chase(i, x, a, k, v)'
    BY <1>1, <2>3, <2>4, ChaseReceived
  <2>. QED BY <2>1, <2>2, <2>5, AskedMeans
<1>. QED BY <1>1, <1>4, <1>5, ProbedKept

(* When the clock moves, the probes are one tick further. *)
LEMMA ProbeTicks ==
    ASSUME IInv, IInv', QInv, ProbeInv, Tick,
           NEW i \in Node, NEW x, NEW ts, Needs(i, x, ts)'
    PROVE  Probed(i, x, ts)'
<1>1. /\ x \in Node /\ ts \in Nat /\ globaltime \in Nat /\ TFAIL \in Nat
      /\ x \in Members(i) \ {i} /\ memberList[i][x].ts = ts
      /\ ~bFailed[i] /\ ~bFailed[x]
      /\ globaltime' = globaltime + 1 /\ bFailed' = bFailed
      /\ turn = 0 /\ turn' = EN_GPSZ + 1 /\ EN_GPSZ \in Nat /\ i <= EN_GPSZ /\ i \in Nat /\ i > 0
  <2>1. memberList' = memberList /\ globaltime' = globaltime + 1 /\ bFailed' = bFailed
    BY DEF Tick, nodeVars
  <2>2. turn = 0 /\ turn' = EN_GPSZ + 1 /\ EN_GPSZ \in Nat /\ i <= EN_GPSZ /\ i \in Nat /\ i > 0
    BY GroupAssumption DEF Tick, Node
  <2>3. globaltime \in Nat /\ TFAIL \in Nat
    BY LimitAssumption, TimeoutAssumption DEF IInv, TypeOK
  <2>4. x \in Members(i) \ {i} /\ memberList[i][x].ts = ts /\ ~bFailed[i] /\ ~bFailed[x]
    BY <2>1 DEF Needs, Members
  <2>. QED BY <2>1, <2>2, <2>3, <2>4, StampTypes
<1>2. globaltime - ts >= TFAIL
  <2>1. globaltime' - ts >= TFAIL /\ ~(globaltime' - ts = TFAIL /\ turn' >= i)
    BY DEF Needs, Silent
  <2>. QED BY <1>1, <2>1
<1>3. Needs(i, x, ts)
  BY <1>1, <1>2 DEF Needs, Silent
<1>4. Probed(i, x, ts)
  BY <1>3 DEF ProbeInv, Needs
<1>5. ASSUME NEW a \in Node, Asked(i, x, a, ts)
      PROVE  Asked(i, x, a, ts)'
  <2>1. PICK k, v : k = globaltime - ts - TFAIL /\ v = Beat(x, ts + TFAIL + 1)
    OBVIOUS
  <2>2. k \in Int /\ k + 1 = globaltime' - ts - TFAIL
    BY <1>1, <2>1
  <2>3. Chase(i, x, a, k, v)
    BY <1>5, <2>1, AskedMeans
  <2>4. Chase(i, x, a, k + 1, v)'
    BY <1>1, <2>2, <2>3, ChaseTicks
  <2>. QED BY <2>1, <2>2, <2>4, AskedMeans
<1>. QED BY <1>1, <1>4, <1>5, ProbedKept

(* A turn without a handler keeps the probes, and that of i sends those that  *)
(* are due.                                                                   *)
LEMMA ProbePasses ==
    ASSUME IInv, IInv', QInv, StartInv, JoinInv, ProbeInv, StartsInTime, ProbesFit, NEW j \in Node,
           nodeStart(j) \/ SkipTurn(j) \/ WaitForGroup(j) \/ nodeLoopOps(j),
           NEW i \in Node, NEW x, NEW ts, Needs(i, x, ts)'
    PROVE  Probed(i, x, ts)'
<1>1. Passes(j) /\ bFailed' = bFailed
  <2>1. bFailed' = bFailed
    BY StartsKeepFailures DEF SkipTurn, WaitForGroup, nodeLoopOps
  <2>. QED BY <2>1, TurnsPass
<1>2. /\ globaltime' = globaltime /\ turn = j /\ turn' = j - 1
      /\ globaltime \in Nat /\ TFAIL \in Nat /\ i \in Int /\ j \in Int
  BY <1>1, LimitAssumption, TimeoutAssumption DEF Passes, IInv, TypeOK, Node
<1>3. \A n : (Sent(n) => Sent(n)') /\ (Due(n) => Due(n)')
  BY <1>1, PassMessages
<1>4. /\ x \in DOMAIN memberList'[i] /\ x # i /\ memberList'[i][x].ts = ts
      /\ ~bFailed[i] /\ ~bFailed[x]
      /\ globaltime - ts >= TFAIL /\ ~(globaltime - ts = TFAIL /\ j - 1 >= i)
  <2>1. ~bFailed'[i] /\ ~bFailed'[x] /\ x \in DOMAIN memberList'[i] /\ x # i
        /\ memberList'[i][x].ts = ts
    BY DEF Needs, Members
  <2>2. globaltime' - ts >= TFAIL /\ ~(globaltime' - ts = TFAIL /\ turn' >= i)
    BY DEF Needs, Silent
  <2>. QED BY <1>1, <1>2, <2>1, <2>2
<1>5. x \in Node /\ ts \in Nat
  <2>1. PICK S \in SUBSET Node : memberList'[i] \in [S -> [hb : Nat, ts : Nat]]
    BY DEF IInv, TypeOK, IsTable
  <2>. QED BY <1>4, <2>1
<1>6. ASSUME Needs(i, x, ts)
      PROVE  Probed(i, x, ts)'
  <2>1. Probed(i, x, ts)
    BY <1>6 DEF ProbeInv, Needs
  <2>. QED BY <1>1, <1>2, <1>3, <2>1, ProbedPasses
<1>7. CASE j # i
  <2>1. memberList'[i] = memberList[i]
    <3>1. CASE nodeStart(j)
      <4>1. DOMAIN memberList = Node
        BY DEF IInv, TypeOK
      <4>. QED BY <1>7, <3>1, <4>1 DEF nodeStart
    <3>2. CASE nodeLoopOps(j)
      BY <1>7, <3>2, LoopTable
    <3>3. CASE SkipTurn(j) \/ WaitForGroup(j)
      BY <3>3 DEF SkipTurn, WaitForGroup, nodeVars
    <3>. QED BY <3>1, <3>2, <3>3
  <2>2. ~(globaltime - ts = TFAIL /\ turn >= i)
    BY <1>2, <1>4, <1>7
  <2>3. Needs(i, x, ts)
    BY <1>4, <2>1, <2>2 DEF Needs, Silent, Members
  <2>. QED BY <1>6, <2>3
<1>8. CASE j = i
  <2>1. ~bFailed[i] => Runs(i) /\ globaltime >= StartTime(i) + 2
    BY <1>4, <1>5, SilentRuns
  <2>2. CASE nodeStart(i)
    <3>1. DOMAIN memberList = Node
      BY DEF IInv, TypeOK
    <3>2. DOMAIN memberList'[i] = {i}
      BY <2>2, <3>1 DEF nodeStart
    <3>. QED BY <1>4, <3>2
  <2>3. CASE SkipTurn(i)
    BY <1>4, <2>1, <2>3 DEF SkipTurn
  <2>4. CASE WaitForGroup(i)
    <3>1. globaltime = StartTime(i) + 1 /\ StartTime(i) \in Nat
      BY <2>4, WaitsShortly, NodeFacts
    <3>. QED BY <1>4, <2>1, <3>1
  <2>5. CASE nodeLoopOps(i)
    <3>1. x \in Members(i) \ {i} /\ memberList[i][x].ts = ts
      BY <1>4, <2>5, LoopTable
    <3>2. CASE globaltime - ts = TFAIL
      <4>1. PICK P \in Pairs(i) : \A a \in P : \A v : Chase(i, x, a, 0, v)'
        BY <2>5, <3>1, <3>2, LoopAsks
      <4>2. ASSUME NEW a \in P
            PROVE  Asked(i, x, a, ts)'
        <5>1. PICK v : v = Beat(x, ts + TFAIL + 1)
          OBVIOUS
        <5>2. 0 = globaltime' - ts - TFAIL
          BY <1>2, <1>5, <3>2
        <5>3. Chase(i, x, a, 0, v)'
          BY <4>1, <4>2
        <5>. QED BY <5>1, <5>2, <5>3, AskedMeans
      <4>. QED BY <4>1, <4>2 DEF Probed, Pairs, Others, Node
    <3>3. CASE globaltime - ts # TFAIL
      <4>1. Needs(i, x, ts)
        BY <1>4, <3>1, <3>3 DEF Needs, Silent
      <4>. QED BY <1>6, <4>1
    <3>. QED BY <3>2, <3>3
  <2>. QED BY <1>8, <2>2, <2>3, <2>4, <2>5
<1>. QED BY <1>7, <1>8

(* A handler keeps the probes of a silent entry: what would renew the entry   *)
(* would end the silence.                                                     *)
LEMMA ProbeHeard ==
    ASSUME IInv, IInv', QInv, StartInv, HeartInv, HeartInv', ProbeInv, StartsInTime, ProbesFit,
           NEW j \in Node, NEW m, NEW tab, NEW ms, Hears(j, m, tab, ms),
           NEW i \in Node, NEW x, NEW ts, Needs(i, x, ts)'
    PROVE  Probed(i, x, ts)'
<1>1. /\ globaltime' = globaltime /\ turn' = turn /\ bFailed' = bFailed /\ turn = j /\ m.to = j
      /\ \A n \in Node : memberList'[n] = IF n = j THEN tab ELSE memberList[n]
  BY HearQueues DEF appVars
<1>2. /\ globaltime \in Nat /\ TFAIL \in Nat /\ i \in Int /\ j \in Int
      /\ \A n \in Node : StartTime(n) \in Nat
  BY NodeFacts, LimitAssumption, TimeoutAssumption DEF IInv, TypeOK, Node
<1>3. /\ x \in DOMAIN memberList'[i] /\ x # i /\ memberList'[i][x].ts = ts
      /\ ~bFailed[i] /\ ~bFailed[x]
      /\ globaltime - ts >= TFAIL /\ ~(globaltime - ts = TFAIL /\ turn >= i)
  <2>1. ~bFailed'[i] /\ ~bFailed'[x] /\ x \in DOMAIN memberList'[i] /\ x # i
        /\ memberList'[i][x].ts = ts
    BY DEF Needs, Members
  <2>2. globaltime' - ts >= TFAIL /\ ~(globaltime' - ts = TFAIL /\ turn' >= i)
    BY DEF Needs, Silent
  <2>. QED BY <1>1, <2>1, <2>2
<1>4. x \in Node /\ ts \in Nat
  <2>1. PICK S \in SUBSET Node : memberList'[i] \in [S -> [hb : Nat, ts : Nat]]
    BY DEF IInv, TypeOK, IsTable
  <2>. QED BY <1>3, <2>1
<1>5. j = i => KeepsEntry(i, tab, x)
  <2>1. SUFFICES ASSUME j = i
                 PROVE  KeepsEntry(i, tab, x)
    OBVIOUS
  <2>2. x \in DOMAIN tab /\ tab[x].ts = ts /\ globaltime - ts > TFAIL
    BY <1>1, <1>2, <1>3, <1>4, <2>1
  <2>3. KeepsEntry(i, tab, x) \/ NewsEntry(m, tab, x) \/ RawEntry(i, m, tab, x)
    BY <2>1, <2>2, Merged
  <2>4. ~NewsEntry(m, tab, x)
    BY <1>2, <2>2 DEF NewsEntry
  <2>5. ~RawEntry(i, m, tab, x)
    <3>1. m \in BagToSet(mp1q[i])
      BY <2>1 DEF Hears
    <3>2. m.type = "JOINREP" => globaltime = StartTime(i) + 2
      BY <1>1, <2>1, <3>1 DEF StartInv, JoinTimes
    <3>3. globaltime > StartTime(i) + 2
      BY <1>2, <1>4, <2>2, FailTicks
    <3>. QED BY <1>2, <3>2, <3>3 DEF RawEntry
  <2>. QED BY <2>3, <2>4, <2>5
<1>6. x \in Members(i) \ {i} /\ memberList[i][x].ts = ts
  BY <1>1, <1>3, <1>5 DEF KeepsEntry, Members
<1>7. Probed(i, x, ts)
  <2>1. Needs(i, x, ts)
    BY <1>3, <1>6 DEF Needs, Silent
  <2>. QED BY <2>1 DEF ProbeInv, Needs
<1>8. ASSUME NEW a \in Node, Asked(i, x, a, ts)
      PROVE  Asked(i, x, a, ts)'
  <2>1. PICK k, t, v : k = globaltime - ts - TFAIL /\ t = ts + TFAIL + 1 /\ v = Beat(x, t)
    OBVIOUS
  <2>2. v = Beat(x, ts + TFAIL + 1)
    BY <2>1
  <2>3. k = globaltime' - ts - TFAIL
    BY <1>1, <2>1
  <2>4. Chase(i, x, a, k, v)
    BY <1>8, <2>1, <2>2, AskedMeans
  <2>5. t \in Nat /\ k \in Int /\ k = globaltime - t + 1
    BY <1>2, <1>4, <2>1
  <2>6. t > Birth(x)
    <3>1. Birth(x) <= StartTime(x) + 1 /\ Birth(x) \in Nat
      BY <1>4, BeatFacts
    <3>2. StartTime(x) + 2 <= TFAIL /\ StartTime(x) \in Nat
      BY <1>2, <1>4, FailTicks
    <3>. QED BY <1>2, <1>4, <2>1, <3>1, <3>2
  <2>7. ~(j = i /\ Tells(m, x, v))
    <3>1. SUFFICES ASSUME j = i, Tells(m, x, v)
                   PROVE  FALSE
      OBVIOUS
    <3>2. memberList[i][x].hb >= v
      <4>1. x \in DOMAIN m.list /\ m.list[x] >= v
        BY <3>1 DEF Tells
      <4>2. tab[x].hb >= m.list[x] /\ tab[x] = memberList[i][x]
        BY <1>5, <3>1, <4>1, Merged DEF KeepsEntry
      <4>3. memberList[i][x].hb \in Nat
        BY <1>6, StampTypes
      <4>4. m.list[x] \in Nat
        <5>1. m \in PendingMessages
          BY DEF Hears, PendingMessages
        <5>2. PICK S \in SUBSET Node : m.list \in [S -> Nat]
          BY <5>1, PendingGood DEF Good, IsMessage, JoinReq, JoinRep, Direct, Indirect, GossipMsg
        <5>. QED BY <4>1, <5>2
      <4>5. v \in Nat
        BY <1>4, <2>1, <2>5, BeatFacts
      <4>. QED BY <4>1, <4>2, <4>3, <4>4, <4>5
    <3>3. memberList[i][x].hb <= Beat(x, ts)
      BY <1>6 DEF HeartInv, Stamps, Stamped
    <3>4. Beat(x, ts) >= Beat(x, t)
      <4>1. Beat(x, ts) \in Nat /\ Beat(x, t) \in Nat /\ memberList[i][x].hb \in Nat
        <5>1. \A u \in Int : Beat(x, u) \in Nat
          BY <1>4, BeatFacts
        <5>2. ts \in Int /\ t \in Int
          BY <1>4, <2>5
        <5>3. memberList[i][x].hb \in Nat
          BY <1>6, StampTypes
        <5>. QED BY <5>1, <5>2, <5>3
      <4>. QED BY <2>1, <3>2, <3>3, <4>1
    <3>5. \A u, w \in Int : w > Birth(x) /\ Beat(x, u) >= Beat(x, w) => u >= w
      BY <1>4, BeatFacts
    <3>6. ts >= t
      BY <1>4, <2>5, <2>6, <3>4, <3>5
    <3>. QED BY <1>2, <1>4, <2>1, <3>6
  <2>8. Chase(i, x, a, k, v)'
    BY <1>3, <1>4, <2>1, <2>4, <2>5, <2>6, <2>7, ChaseHeard
  <2>. QED BY <2>2, <2>3, <2>8, AskedMeans
<1>. QED BY <1>1, <1>7, <1>8, ProbedKept

(* Every step keeps ProbeInv. *)
LEMMA ProbeInvStays ==
    ASSUME IInv, IInv', QInv, StartInv, JoinInv, HeartInv, HeartInv', ProbeInv,
           StartsInTime, ProbesFit, [Next]_vars
    PROVE  ProbeInv'
<1>1. ASSUME NEW i \in Node, NEW x, NEW ts, Needs(i, x, ts)'
      PROVE  Probed(i, x, ts)'
  <2>1. CASE recvLoop
    BY <1>1, <2>1, ProbeReceived
  <2>2. CASE Tick
    BY <1>1, <2>2, ProbeTicks
  <2>3. CASE \E j \in Node : nodeStart(j) \/ SkipTurn(j) \/ WaitForGroup(j) \/ nodeLoopOps(j)
    BY <1>1, <2>3, ProbePasses
  <2>4. CASE \E j \in Node : Handles(j)
    <3>1. PICK j \in Node : Handles(j)
      BY <2>4
    <3>2. PICK m, tab, ms : Hears(j, m, tab, ms)
      BY <3>1, HandlersHear
    <3>. QED BY <1>1, <3>2, ProbeHeard
  <2>5. CASE (\E j \in Node : Fail(j)) \/ UNCHANGED vars
    <3>1. /\ globaltime' = globaltime /\ turn' = turn /\ memberList' = memberList
          /\ net' = net /\ mp1q' = mp1q
          /\ \A a \in Node : bFailed[a] => bFailed'[a]
      <4>1. CASE UNCHANGED vars
        BY <4>1 DEF vars, appVars, nodeVars, netVars
      <4>2. CASE \E j \in Node : Fail(j)
        <5>1. PICK j \in Node : Fail(j)
          BY <4>2
        <5>2. bFailed \in [Node -> BOOLEAN]
          BY DEF IInv, TypeOK
        <5>3. \A a \in Node : bFailed[a] => bFailed'[a]
          BY <5>1, <5>2, Zenon DEF Fail
        <5>. QED BY <5>1, <5>3 DEF Fail, nodeVars, netVars
      <4>. QED BY <2>5, <4>1, <4>2
    <3>2. \A n : (Sent(n) => Sent(n)') /\ (Due(n) => Due(n)')
      BY <3>1 DEF Sent, Due
    <3>3. Needs(i, x, ts)
      <4>1. x \in Members(i) \ {i} /\ memberList[i][x].ts = ts /\ ~bFailed'[i] /\ ~bFailed'[x]
        BY <1>1, <3>1 DEF Needs, Members
      <4>2. x \in Node
        BY <4>1, StampTypes
      <4>3. Silent(i, ts)
        BY <1>1, <3>1 DEF Needs, Silent
      <4>. QED BY <3>1, <4>1, <4>2, <4>3 DEF Needs
    <3>4. Probed(i, x, ts)
      BY <3>3 DEF ProbeInv, Needs
    <3>. QED BY <3>1, <3>2, <3>4, ProbedPasses
  <2>. QED BY <2>1, <2>2, <2>3, <2>4, <2>5, StepCases DEF Finished
<1>2. ASSUME NEW i \in Node, NEW x \in (Members(i) \ {i})',
             ~bFailed'[i], ~bFailed'[x], Silent(i, memberList[i][x].ts)'
      PROVE  Probed(i, x, memberList[i][x].ts)'
  <2>1. PICK ts : ts = memberList'[i][x].ts
    OBVIOUS
  <2>2. Needs(i, x, ts)'
    BY <1>2, <2>1 DEF Needs, Silent
  <2>3. Probed(i, x, ts)'
    BY <1>1, <2>2
  <2>. QED BY <2>1, <2>3
<1>. QED BY <1>2 DEF ProbeInv

(* With the timeouts and the step rate of the program, groups of up to 16     *)
(* nodes are started in time and answered in time.                            *)
LEMMA SmallGroupsAreInTime ==
    ASSUME TFAIL = 5, TREMOVE = 20, StartsPerTick = 4, MaxEntries = 158, EN_GPSZ <= 16
    PROVE  StartsInTime /\ ProbesFit /\ RemovesLate
<1>1. ASSUME NEW i \in Node
      PROVE  StartTime(i) + 2 <= TFAIL
  <2>1. i \in Int /\ i - 1 >= 0 /\ i - 1 <= 15
    BY GroupAssumption DEF Node
  <2>2. (i - 1) \div 4 <= 3 /\ (i - 1) \div 4 \in Int
    BY <2>1
  <2>. QED BY <2>2 DEF StartTime
<1>2. ProbesFit /\ RemovesLate
  BY GroupAssumption DEF ProbesFit, RemovesLate
<1>. QED BY <1>1, <1>2 DEF StartsInTime

(* The hypotheses under which the probes work, together. *)
ProbesInTime == OneFailure /\ FailsLater /\ StartsInTime /\ ProbesFit

(* All that the probes need. *)
AllInv == IInv /\ QInv /\ StartInv /\ JoinInv /\ HeartInv /\ ProbeInv

(* Nobody is probed before anybody is known. *)
LEMMA InitProbeInv == Init => ProbeInv
<1>1. SUFFICES ASSUME Init
               PROVE  \A i \in Node : Members(i) = {}
  BY DEF ProbeInv
<1>. QED BY <1>1 DEF Init, Members

(* Silent entries of nodes that are up are being asked after, in every        *)
(* reachable state.                                                           *)
LEMMA ProbeInvariant == ProbesInTime => (Spec => []AllInv)
<1>. SUFFICES ASSUME ProbesInTime
              PROVE  Spec => []AllInv
  OBVIOUS
<1>1. Init => ProbeInv
  BY InitProbeInv
<1>2. /\ IInv /\ QInv /\ StartInv /\ JoinInv /\ HeartInv /\ ProbeInv
      /\ IInv' /\ HeartInv' /\ [Next]_vars
      => ProbeInv'
  BY ProbeInvStays DEF ProbesInTime
<1>3. (Spec => []IInv) /\ (Spec => []QInv)
  BY Invariance, QueuesInvariant
<1>4. (Spec => []StartInv) /\ (Spec => []JoinInv) /\ (Spec => []HeartInv)
  BY StartInvariant, JoinInvariant, HeartInvariant DEF ProbesInTime
<1>. QED BY <1>1, <1>2, <1>3, <1>4, PTL DEF Spec, AllInv

(* A node that is up has had news of every other that is up.                  *)
LEMMA HeardSoon ==
    ASSUME AllInv, StartsInTime, NEW i \in Node, NEW x \in Members(i), ~bFailed[i], ~bFailed[x]
    PROVE  globaltime - memberList[i][x].ts <= TFAIL + 4
<1>1. /\ globaltime \in Nat /\ TFAIL \in Nat /\ memberList[i][x].ts \in Nat /\ x \in Node
  BY StampTypes, LimitAssumption, TimeoutAssumption DEF AllInv, IInv, TypeOK
<1>2. CASE x = i
  <2>1. inited[i]
    BY <1>2 DEF AllInv, StartInv, Blank, Members
  <2>2. globaltime - memberList[i][x].ts <= 2
    BY <1>2, <2>1, OwnAge DEF AllInv
  <2>. QED BY <1>1, <2>2
<1>3. CASE x # i
  <2>1. SUFFICES ASSUME globaltime - memberList[i][x].ts > TFAIL + 4
                 PROVE  FALSE
    BY <1>1
  <2>2. PICK ts : ts = memberList[i][x].ts
    OBVIOUS
  <2>3. Probed(i, x, ts)
    <3>1. Silent(i, ts)
      BY <1>1, <2>1, <2>2 DEF Silent
    <3>. QED BY <1>3, <2>2, <3>1 DEF AllInv, ProbeInv
  <2>4. PICK P \in Pairs(i) : \A a \in P : bFailed[a] \/ Asked(i, x, a, ts)
    BY <2>3 DEF Probed
  <2>5. PICK a, b \in Node : P = {a, b} /\ a # b
    <3>1. PICK a, b : P = {a, b} /\ a \in Others(i) /\ b \in Others(i)
      BY DEF Pairs
    <3>2. a \in Node /\ b \in Node
      BY <3>1, PairsOfNodes
    <3>3. a # b
      BY <3>1, <3>2 DEF Pairs
    <3>. QED BY <3>1, <3>2, <3>3
  <2>6. PICK c \in {a, b} : ~bFailed[c]
    BY <2>5 DEF AllInv, StartInv, FailedOnce
  <2>7. Asked(i, x, c, ts)
    BY <2>4, <2>5, <2>6
  <2>8. globaltime - ts - TFAIL \in {0, 1, 2, 3, 4}
    BY <2>7 DEF Asked, Chase
  <2>. QED BY <1>1, <2>1, <2>2, <2>8
<1>. QED BY <1>2, <1>3

(* The probes work: when nodes fail alone and not while others join, the      *)
(* joins are over before the oldest entry is TFAIL ticks old, and a probe has *)
(* room for everybody, a node in the group has news of every other that is    *)
(* no older than TFAIL ticks and one indirect round trip.                     *)
THEOREM ProbesWork == ProbesInTime => (Spec => []HeardWithin)
<1>. SUFFICES ASSUME ProbesInTime
              PROVE  Spec => []HeardWithin
  OBVIOUS
<1>1. AllInv => HeardWithin
  BY HeardSoon DEF HeardWithin, Active, ProbesInTime
<1>2. Spec => []AllInv
  BY ProbeInvariant
<1>. QED BY <1>1, <1>2, PTL

(* Then, if an entry is erased only after that long, only a failed node is    *)
(* removed from a table.                                                      *)
THEOREM OnlyFailedRemoved == ProbesInTime /\ RemovesLate => (Spec => NoFalseRemoval)
<1>. SUFFICES ASSUME ProbesInTime, RemovesLate
              PROVE  Spec => NoFalseRemoval
  OBVIOUS
<1>1. ASSUME AllInv, [Next]_vars, NEW i \in Node, NEW x \in Members(i) \ Members(i)'
      PROVE  bFailed[x]
  <2>1. memberList'[i] # memberList[i] /\ x \in Members(i) /\ x \notin DOMAIN memberList'[i]
    BY <1>1 DEF Members
  <2>2. PICK j \in Node : nodeStart(j) \/ nodeLoopOps(j) \/ Handles(j)
    BY <1>1, <2>1, TableSteps DEF AllInv
  <2>3. CASE nodeStart(j)
    <3>1. /\ memberList' = [memberList EXCEPT ![j] = [y \in {j} |-> [hb |-> 0, ts |-> globaltime]]]
          /\ DOMAIN memberList = Node
      BY <1>1, <2>3 DEF nodeStart, AllInv, IInv, TypeOK
    <3>2. i = j
      BY <2>1, <3>1
    <3>3. ~inited[j]
      BY <1>1, <2>3, NodeFacts DEF nodeStart, HasTurn, AllInv, IInv, Clock
    <3>4. Members(j) = {}
      BY <1>1, <3>3 DEF AllInv, StartInv, Blank, Members
    <3>. QED BY <2>1, <3>2, <3>4
  <2>4. CASE nodeLoopOps(j)
    <3>1. i = j
      BY <1>1, <2>1, <2>4, LoopTable DEF AllInv
    <3>2. globaltime - memberList[i][x].ts > TREMOVE /\ ~bFailed[i]
      BY <1>1, <2>1, <2>4, <3>1, LoopTable DEF AllInv, nodeLoopOps, LoopDue, Runs
    <3>3. /\ globaltime \in Nat /\ TFAIL \in Nat /\ TREMOVE \in Nat
          /\ memberList[i][x].ts \in Nat
      BY <1>1, StampTypes, LimitAssumption, TimeoutAssumption DEF AllInv, IInv, TypeOK
    <3>4. ~bFailed[x] => globaltime - memberList[i][x].ts <= TFAIL + 4
      BY <1>1, <3>2, HeardSoon DEF ProbesInTime
    <3>. QED BY <3>2, <3>3, <3>4 DEF RemovesLate
  <2>5. CASE Handles(j)
    <3>1. PICK m, tab, ms : Hears(j, m, tab, ms)
      BY <2>5, HandlersHear
    <3>2. memberList'[i] = IF i = j THEN tab ELSE memberList[i]
      BY <1>1, <3>1, HearQueues DEF AllInv
    <3>3. Members(j) \subseteq DOMAIN tab
      BY <1>1, <3>1, Merged DEF AllInv
    <3>. QED BY <2>1, <3>2, <3>3
  <2>. QED BY <2>2, <2>3, <2>4, <2>5
<1>2. AllInv /\ [Next]_vars => [\A i \in Node : \A x \in Members(i) \ Members(i)' : bFailed[x]]_vars
  BY <1>1
<1>3. Spec => []AllInv
  BY ProbeInvariant
<1>. QED BY <1>2, <1>3, PTL DEF Spec, NoFalseRemoval
===============================================================================
