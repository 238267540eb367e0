-------------------------------- MODULE KVStore --------------------------------
(* The key-value store of MP2Node.cpp, run by Application::mp2Run over a      *)
(* second emulated network.                                                   *)
(*                                                                            *)
(* Each tick has four parts.  The membership protocol runs (mp1Run) and may   *)
(* change the tables; then every running node, the first one first, rebuilds  *)
(* its ring from its table (updateRing, which may run the stabilization       *)
(* protocol) and receives; then every running node, the last one first,       *)
(* handles its queue (checkMessages); then the driver may issue client        *)
(* operations at nodes that are up, and fail nodes.                           *)
(*                                                                            *)
(* Abstractions.  Tables are sets of nodes, and of the membership protocol    *)
(* only what module Membership shows of it is assumed: when the store starts  *)
(* everyone is in every table, and only a node that has failed, and not just  *)
(* now, leaves one.  A position on the ring is a number; positions differ.    *)
(* Network and queues are bags, as in Membership.  A transaction id is its    *)
(* two parts, the type in its top three bits and the number; they do not wrap *)
(* (2^29 operations).  The value of a field that the code never initialises   *)
(* is any it can have.                                                        *)
EXTENDS Integers, Sequences, FiniteSets, Bags, SequencesExt

CONSTANTS
    EN_GPSZ,        \* number of nodes
    Hash,           \* node -> position on the ring
    NumKeys,        \* the keys are 1 .. NumKeys, in the order of their names
    KeyHash,        \* key -> position on the ring
    Value,          \* the values clients write
    NoValue,        \* the empty string
    PastEnd,        \* what may be read behind the end of the ring
    UnsetReplica,   \* whether a replica field never set may look like a replica type
    Clients,        \* the nodes at which the driver issues operations ...
    ClientOps,      \* ... of these types ...
    MaxOps,         \* ... and how many
    Sequential,     \* TRUE: only when the one before has been dealt with
    CanFail,        \* the nodes the driver may fail ...
    MaxFailures,    \* ... and how many of them
    DetectAfter,    \* ticks a failed node stays in the tables at least ...
    DetectBy,       \* ... and at most (0: as long as it likes)
    Returns         \* TRUE: a failed node may come back into a table

Node == 1 .. EN_GPSZ
Key == 1 .. NumKeys
Junk == 0                   \* an address nobody has

ASSUME RingAssumption ==
    /\ EN_GPSZ \in Nat \ {0} /\ NumKeys \in Nat
    /\ Hash \in [Node -> Nat] /\ KeyHash \in [Key -> Nat]
    /\ \A i, j \in Node : Hash[i] = Hash[j] => i = j
ASSUME ClientAssumption ==
    /\ Clients \subseteq Node /\ CanFail \subseteq Node
    /\ PastEnd \subseteq Node \cup {Junk} /\ PastEnd # {}
    /\ UnsetReplica \subseteq BOOLEAN /\ UnsetReplica # {}
    /\ NoValue \notin Value
    /\ ClientOps \subseteq {"CREATE", "READ", "UPDATE", "DELETE"}
    /\ MaxOps \in Nat /\ MaxFailures \in Nat
    /\ DetectAfter \in Nat /\ DetectBy \in Nat /\ (DetectBy # 0 => DetectBy >= DetectAfter)
    /\ Sequential \in BOOLEAN /\ Returns \in BOOLEAN

VARIABLES
    phase,          \* the part of the tick: "ring", "check" or "client"
    turn,           \* the last node that did something in it, 0 for nobody
    bFailed,        \* the driver has failed the node
    downFor,        \* ticks since the node failed, as far as they matter
    member,         \* the ids in the node's membership table
    ring,           \* the nodes on the node's ring
    ht,             \* the node's hash table: key -> value
    hasMyReplicas,  \* the node's successors at its last stabilization
    net,            \* messages in flight
    mp2q,           \* per node, the messages received
    g_transID,      \* the counter that all nodes share
    keyvalueMap,    \* shared too: transaction -> what it is about
    tally,          \* local to checkMessages: transaction -> its replies
    ops             \* history: transaction -> its course

driverVars == <<phase, turn>>
nodeVars   == <<ring, ht, hasMyReplicas>>
netVars    == <<net, mp2q>>
coordVars  == <<g_transID, keyvalueMap, tally, ops>>
failVars   == <<bFailed, downFor>>
vars       == <<driverVars, failVars, member, nodeVars, netVars, coordVars>>

Up == {i \in Node : ~bFailed[i]}

Put(f, x, y) == [z \in DOMAIN f \cup {x} |-> IF z = x THEN y ELSE f[z]]
Without(f, S) == [z \in DOMAIN f \ S |-> f[z]]

-------------------------------------------------------------------------------
(* The ring r of a node: a set of nodes, in the order of their positions.     *)

Rank(r, i) == Cardinality({j \in r : Hash[j] < Hash[i]})
At(r, p) == CHOOSE j \in r : Rank(r, j) = p % Cardinality(r)

(* The first node at or after the key's position, and the two after it. *)
Leader(r, k) == Cardinality({j \in r : Hash[j] < KeyHash[k]})
findNodes(r, k) ==
    IF Cardinality(r) < 3 THEN {} ELSE {At(r, Leader(r, k) + d) : d \in 0 .. 2}

(* The two successors.  The iterator of the second is wrapped when it is end()*)
(* but not when it is past that: for the last node of the ring what is read   *)
(* is memory behind the vector, an old ring's node or anything else.          *)
findNeighbors_One(r, i) == {<<At(r, Rank(r, i) + 1)>>}  \* mutant: i < 2
findNeighbors(r, i) ==
    {<<At(r, Rank(r, i) + 1), x>> :
        x \in IF Rank(r, i) + 2 <= Cardinality(r)
              THEN {At(r, Rank(r, i) + 2)}
              ELSE PastEnd}

-------------------------------------------------------------------------------
(* Messages.  "stab" says what the replica field is taken for: one of the     *)
(* three replica types, which marks the message as one of the stabilization   *)
(* protocol's, or some other number.                                          *)

(* generateCRUDId; and what decipherCRUDId makes of generateTransactionID.    *)
CRUDId(type, seq) == [type |-> type, seq |-> seq]
StabId(seq) == CRUDId("CREATE", seq)

Ids == [type : {"CREATE", "READ", "UPDATE", "DELETE"}, seq : Nat]
Requests == [type : {"CREATE", "READ", "UPDATE", "DELETE"}, id : Ids, from : Node,
             to : Node \cup {Junk}, key : Key, value : Value \cup {NoValue}, stab : BOOLEAN]
Replies == [type : {"REPLY"}, id : Ids, to : Node, success : BOOLEAN]
           \cup [type : {"READREPLY"}, id : Ids, to : Node, value : Value \cup {NoValue}]

ShouldHold_Not(i, r, k) == i \notin findNodes(r, k)  \* mutant: != end()
ShouldHold(i, r, k) == i \in findNodes(r, k)

(* The successors that were none at the last stabilization. *)
NewReplicas_Old(old, new) ==  \* mutant: != end()
    FlattenSeq([n \in DOMAIN new |-> IF new[n] \in ToSet(old) THEN <<new[n]>> ELSE <<>>])
NewReplicas(old, new) ==
    FlattenSeq([n \in DOMAIN new |-> IF new[n] \in ToSet(old) THEN <<>> ELSE <<new[n]>>])

(* What the stabilization protocol sends for one key: a copy to each of the   *)
(* new successors; or, when the node should not hold the key, a DELETE to     *)
(* itself.                                                                    *)
KeySends(i, r, old, new, k) ==
    IF k \notin DOMAIN ht[i] THEN <<>>
    ELSE IF ~ShouldHold(i, r, k)
    THEN <<[type |-> "DELETE", to |-> i, value |-> NoValue, key |-> k]>>
    ELSE [n \in DOMAIN NewReplicas(old, new) |->
             [type |-> "CREATE", to |-> NewReplicas(old, new)[n],
              value |-> ht[i][k], key |-> k]]

(* All of it, in order, each with the next transaction id. *)
StabilizationMessages(i, r, old, new) ==
    LET sends == FlattenSeq([k \in Key |-> KeySends(i, r, old, new, k)])
    IN  [n \in DOMAIN sends |->
            [type |-> sends[n].type, id |-> StabId(g_transID + n - 1), from |-> i,
             to |-> sends[n].to, key |-> sends[n].key, value |-> sends[n].value,
             stab |-> TRUE]]

-------------------------------------------------------------------------------

Init ==
    /\ phase = "client" /\ turn = 0
    /\ bFailed = [i \in Node |-> FALSE]
    /\ downFor = [i \in Node |-> 0]
    /\ member = [i \in Node |-> Node]
    /\ ring = [i \in Node |-> Node]
    /\ ht = [i \in Node |-> <<>>]
    /\ hasMyReplicas = [i \in Node |-> <<>>]
    /\ net = EmptyBag
    /\ mp2q = [i \in Node |-> EmptyBag]
    /\ g_transID = 0
    /\ keyvalueMap = <<>>
    /\ tally = <<>>
    /\ ops = <<>>

(* The copies in B of the messages of S. *)
Among(B, S) == [m \in BagToSet(B) \cap S |-> B[m]]
To(B, S) == {m \in BagToSet(B) : m.to \in S}

(* The clock advances and mp1Run runs: every table has the nodes that are up, *)
(* those that failed less than DetectAfter ticks ago, none of those for which *)
(* DetectBy ticks are over, and any of the others.  Messages to a node that   *)
(* is not up stay where they are for ever; they are forgotten here.           *)
DetectLast == IF DetectBy = 0 THEN DetectAfter ELSE DetectBy
Detectable == {x \in Node \ Up : downFor[x] >= DetectAfter}
Lingering == {x \in Detectable : DetectBy = 0 \/ downFor[x] < DetectBy}

mp1Run ==
    /\ phase = "client"
    /\ phase' = "ring" /\ turn' = 0
    /\ downFor' = [x \in Node |-> IF x \notin Up /\ downFor[x] < DetectLast
                                  THEN downFor[x] + 1 ELSE downFor[x]]
    /\ \E dead \in [Up -> SUBSET Lingering] :
          /\ ~Returns => \A i \in Up : dead[i] \subseteq member[i]
          /\ member' = [i \in Node |-> IF i \in Up THEN (Node \ Detectable) \cup dead[i]
                                                 ELSE member[i]]
    /\ net' = Among(net, To(net, Up))
    /\ UNCHANGED <<bFailed, nodeVars, mp2q, coordVars>>

(* The two loops of mp2Run.  The turn of a node with nothing to do (no change *)
(* of the ring and nothing to receive; an empty queue) is passed over.        *)
RingDue(i) == i \in Up /\ (ring[i] # member[i] \/ To(net, {i}) # {})
RingTurn(i) ==
    /\ phase = "ring" /\ i > turn /\ RingDue(i)
    /\ \A j \in turn + 1 .. i - 1 : ~RingDue(j)
    /\ turn' = i /\ phase' = phase

CheckDue(i) == i \in Up /\ (mp2q[i] # EmptyBag \/ (turn = i /\ DOMAIN tally # {}))
CheckTurn(i) ==
    /\ phase = "check" /\ CheckDue(i)
    /\ \A j \in i + 1 .. EN_GPSZ : ~CheckDue(j)
    /\ turn' = i /\ phase' = phase

loopEnds ==
    /\ turn' = 0
    /\ \/ /\ phase = "ring" /\ \A j \in turn + 1 .. EN_GPSZ : ~RingDue(j)
          /\ phase' = "check"
       \/ /\ phase = "check" /\ \A j \in Node : ~CheckDue(j)
          /\ phase' = "client"
    /\ UNCHANGED <<failVars, member, nodeVars, netVars, coordVars>>

(* recvLoop, from what is in flight after the node has sent ms. *)
recvLoop(i, ms) ==
    LET flight == net (+) ms
    IN  /\ mp2q' = [mp2q EXCEPT ![i] = @ (+) Among(flight, To(flight, {i}))]
        /\ net' = Among(flight, To(flight, (Node \cup {Junk}) \ {i}))

(* updateRing without stabilization, then recvLoop. *)
updateRing_KeepsRing(i) ==  \* mutant: the ring is only assigned with stabilization
    /\ RingTurn(i)
    /\ ring[i] = member[i] \/ DOMAIN ht[i] = {}
    /\ recvLoop(i, EmptyBag)
    /\ UNCHANGED <<failVars, member, ring, ht, hasMyReplicas, coordVars>>
updateRing(i) ==
    /\ RingTurn(i)
    /\ ring[i] = member[i] \/ DOMAIN ht[i] = {}
    /\ ring' = [ring EXCEPT ![i] = member[i]]
    /\ recvLoop(i, EmptyBag)
    /\ UNCHANGED <<failVars, member, ht, hasMyReplicas, coordVars>>

(* updateRing with stabilization, then recvLoop. *)
stabilizationProtocol(i) ==
    /\ RingTurn(i)
    /\ ring[i] # member[i] /\ DOMAIN ht[i] # {}
    /\ ring' = [ring EXCEPT ![i] = member[i]]
    /\ \E neighbors \in findNeighbors(member[i], i) :
          LET ms == StabilizationMessages(i, member[i], hasMyReplicas[i], neighbors)
          IN  /\ hasMyReplicas' = [hasMyReplicas EXCEPT ![i] = neighbors]
              /\ g_transID' = g_transID + Len(ms)
              /\ recvLoop(i, SetToBag(ToSet(ms)))
    /\ UNCHANGED <<failVars, member, ht, keyvalueMap, tally, ops>>

-------------------------------------------------------------------------------
(* checkMessages: the requests, at a replica.                                 *)

Pops(i, m, type) ==
    /\ CheckTurn(i)
    /\ m \in BagToSet(mp2q[i])
    /\ m.type = type
    /\ mp2q' = [mp2q EXCEPT ![i] = @ (-) SetToBag({m})]

Reply_Ok(m, ok) ==  \* mutant: success is not set
    [type |-> "REPLY", id |-> m.id, to |-> m.from, success |-> TRUE]
Reply(m, ok) == [type |-> "REPLY", id |-> m.id, to |-> m.from, success |-> ok]

(* i does what m asks, if ok, which leaves it with the table new; and answers *)
(* with the messages of answer.                                               *)
Serve(i, m, ok, new, answer) ==
    /\ ht' = IF ok THEN [ht EXCEPT ![i] = new] ELSE ht
    /\ net' = net (+) SetToBag(answer)
    /\ ops' = IF ok /\ answer # {} /\ m.type = m.id.type
              THEN [ops EXCEPT ![m.id].did = @ \cup {i}] ELSE ops
    /\ UNCHANGED <<failVars, member, ring, hasMyReplicas,
                   g_transID, keyvalueMap, tally>>

createKeyValue(i) ==
    \E m \in BagToSet(mp2q[i]) :
      /\ Pops(i, m, "CREATE")
      /\ LET ok == m.key \notin DOMAIN ht[i]
         IN  Serve(i, m, ok, Put(ht[i], m.key, m.value),
                   IF m.stab THEN {} ELSE {Reply(m, ok)})

readKey(i) ==
    \E m \in BagToSet(mp2q[i]) :
      /\ Pops(i, m, "READ")
      /\ LET ok == m.key \in DOMAIN ht[i]
         IN  Serve(i, m, ok, ht[i],
                   {[type |-> "READREPLY", id |-> m.id, to |-> m.from,
                     value |-> IF ok THEN ht[i][m.key] ELSE NoValue]})

updateKeyValue(i) ==
    \E m \in BagToSet(mp2q[i]) :
      /\ Pops(i, m, "UPDATE")
      /\ LET ok == m.key \in DOMAIN ht[i]
         IN  Serve(i, m, ok, Put(ht[i], m.key, m.value), {Reply(m, ok)})

(* A DELETE carries no replica type, whoever sent it: the receiver takes it   *)
(* for a message of the stabilization protocol or for a client's.             *)
deletekey(i) ==
    \E m \in BagToSet(mp2q[i]), stab \in UnsetReplica :
      /\ Pops(i, m, "DELETE")
      /\ LET ok == m.key \in DOMAIN ht[i]
         IN  Serve(i, m, ok, Without(ht[i], {m.key}),
                   IF stab THEN {} ELSE {Reply(m, ok)})

-------------------------------------------------------------------------------
(* checkMessages: the replies, at a coordinator.                              *)

quorumValue_One == 1    \* mutant
quorumValue == 2
expectedReplies == 3

(* The outcome of each transaction in S is logged. *)
Tell(S, ok, value) ==
    [id \in DOMAIN ops |->
        IF id \in S
        THEN [ops[id] EXCEPT !.told = Append(@, [ok |-> ok, value |-> value])]
        ELSE ops[id]]

Counts(id) == IF id \in DOMAIN tally THEN tally[id] ELSE [replies |-> 0, successes |-> 0]

(* A reply is counted.  The second success settles the transaction, and so    *)
(* does the third reply.  (Before it logs a failure the code looks up the     *)
(* successes by the number without the type, and erases the counts of that.)  *)
CountReply(m, ok, value) ==
    LET old == Counts(m.id)
        new == [replies |-> old.replies + 1,
                successes |-> old.successes + IF ok THEN 1 ELSE 0]
        bare == StabId(m.id.seq)
        all == Put(tally, m.id, new)
        known == m.id \in DOMAIN keyvalueMap
        won == known /\ new.successes >= quorumValue
        lost == known /\ ~won /\ new.replies = expectedReplies
        logged == lost /\ (bare \in DOMAIN all => all[bare].successes < quorumValue)
    IN  /\ tally' = IF won \/ lost THEN Without(all, {bare}) ELSE all
        /\ keyvalueMap' = IF won \/ lost THEN Without(keyvalueMap, {m.id}) ELSE keyvalueMap
        /\ ops' = IF won THEN Tell({m.id}, TRUE, value)
                  ELSE IF logged THEN Tell({m.id}, FALSE, NoValue) ELSE ops
        /\ UNCHANGED <<failVars, member, nodeVars, net, g_transID>>

recvREPLY(i) ==
    \E m \in BagToSet(mp2q[i]) :
      /\ Pops(i, m, "REPLY")
      /\ CountReply(m, m.success,
                    IF m.id \in DOMAIN keyvalueMap THEN keyvalueMap[m.id].value ELSE NoValue)

recvREADREPLY(i) ==
    \E m \in BagToSet(mp2q[i]) :
      /\ Pops(i, m, "READREPLY")
      /\ CountReply(m, m.value # NoValue, m.value)

(* The transactions with replies in this call that are not settled. *)
Unsettled_All == DOMAIN tally    \* mutant: not looked up in keyvalueMap
Unsettled_None == {}             \* mutant: no loop over replyCountMap
Unsettled == DOMAIN tally \cap DOMAIN keyvalueMap

(* The queue is empty: a failure is logged for those, which stay in the map.  *)
endOfMessages(i) ==
    /\ CheckTurn(i)
    /\ mp2q[i] = EmptyBag
    /\ ops' = Tell(Unsettled, FALSE, NoValue)
    /\ tally' = <<>>
    /\ UNCHANGED <<failVars, member, nodeVars, netVars, g_transID, keyvalueMap>>

-------------------------------------------------------------------------------
(* The driver: client operations and failures.                                *)

Quiet == net = EmptyBag /\ \A i \in Up : mp2q[i] = EmptyBag

(* clientCreate, clientRead, clientUpdate, clientDelete at node c.  The       *)
(* replica field of what clientCreate sends is not initialised.               *)
client(c, type, k, v) ==
    /\ phase = "client" /\ c \in Up \cap Clients
    /\ type \in ClientOps
    /\ v \in IF type \in {"CREATE", "UPDATE"} THEN Value ELSE {NoValue}
    /\ Cardinality(DOMAIN ops) < MaxOps
    /\ Sequential => Quiet
    /\ LET id == CRUDId(type, g_transID + 1)
           replicas == findNodes(ring[c], k)
       IN  /\ g_transID' = g_transID + 1
           /\ keyvalueMap' = Put(keyvalueMap, id, [key |-> k, value |-> v])
           /\ \E stab \in IF type = "CREATE" THEN UnsetReplica ELSE {FALSE} :
                 net' = net (+) SetToBag(
                    {[type |-> type, id |-> id, from |-> c, to |-> x,
                      key |-> k, value |-> v, stab |-> stab] : x \in replicas})
           /\ ops' = Put(ops, id, [key |-> k, value |-> v, coord |-> c,
                                   asked |-> replicas, did |-> {}, told |-> <<>>])
    /\ UNCHANGED <<phase, turn, failVars, member, nodeVars, mp2q, tally>>

fail(i) ==
    /\ phase = "client" /\ i \in Up \cap CanFail
    /\ Cardinality(Node \ Up) < MaxFailures
    /\ bFailed' = [bFailed EXCEPT ![i] = TRUE]
    /\ UNCHANGED <<phase, turn, downFor, member, nodeVars, netVars, coordVars>>

checkMessages(i) ==
    \/ createKeyValue(i)
    \/ readKey(i)
    \/ updateKeyValue(i)
    \/ deletekey(i)
    \/ recvREPLY(i)
    \/ recvREADREPLY(i)
    \/ endOfMessages(i)

(* What the nodes do in a tick, the driver's part apart. *)
Run ==
    \/ mp1Run
    \/ loopEnds
    \/ \E i \in Node :
          \/ updateRing(i)
          \/ stabilizationProtocol(i)
          \/ checkMessages(i)

Next ==
    \/ Run
    \/ \E i \in Node :
          \/ fail(i)
          \/ \E type \in ClientOps, k \in Key, v \in Value \cup {NoValue} : client(i, type, k, v)

Spec == Init /\ [][Next]_vars
-------------------------------------------------------------------------------
(* Properties.                                                                *)

PendingMessages == BagToSet(net) \cup UNION {BagToSet(mp2q[i]) : i \in Node}

TypeOK ==
    /\ phase \in {"ring", "check", "client"} /\ turn \in 0 .. EN_GPSZ
    /\ bFailed \in [Node -> BOOLEAN] /\ downFor \in [Node -> 0 .. DetectLast]
    /\ member \in [Node -> SUBSET Node] /\ ring \in [Node -> SUBSET Node]
    /\ \A i \in Node : DOMAIN ht[i] \subseteq Key /\ \A k \in DOMAIN ht[i] : ht[i][k] \in Value
    /\ \A i \in Node : Len(hasMyReplicas[i]) \in {0, 2}
    /\ \A m \in PendingMessages : m \in Requests \cup Replies
    /\ g_transID \in Nat
    /\ DOMAIN keyvalueMap \subseteq DOMAIN ops
    /\ DOMAIN ops \subseteq Ids

Succeeded(id) == \E n \in DOMAIN ops[id].told : ops[id].told[n].ok

(* The log never contradicts itself: a transaction is logged as a success at  *)
(* most once, and then never as a failure, before or after.  (All replies to  *)
(* a request reach the coordinator in one call of checkMessages, which is     *)
(* what makes counts local to the call sufficient.)                           *)
OneVerdict ==
    \A id \in DOMAIN ops : Succeeded(id) => Len(ops[id].told) = 1

(* A success is backed by a quorum: two replicas have done it.  (Creations    *)
(* are not covered: their ids can be those of stabilization messages.)        *)
QuorumBacked ==
    \A id \in DOMAIN ops :
        Succeeded(id) /\ id.type # "CREATE" => Cardinality(ops[id].did) >= 2

(* The same of creations. *)
CreationBacked ==
    \A id \in DOMAIN ops :
        Succeeded(id) /\ id.type = "CREATE" => Cardinality(ops[id].did) >= 2

(* More than that: operations but creations behave like those of module       *)
(* Transactions.  The replicas that do one do it before the verdict, and the  *)
(* verdict, given once, is exact: a success when two have done it, a failure  *)
(* when fewer have.                                                           *)
Told(id) ==
    IF ops[id].told = <<>> THEN "none"
    ELSE IF ops[id].told = <<[ok |-> FALSE, value |-> NoValue]>> THEN "failure"
    ELSE IF Len(ops[id].told) = 1 THEN "success" ELSE "several"
NoCreation == {id \in DOMAIN ops : id.type # "CREATE"}
T == INSTANCE Transactions WITH
        Replica <- Node, Quorum <- 2,
        asked   <- [id \in NoCreation |-> ops[id].asked],
        did     <- [id \in NoCreation |-> ops[id].did],
        verdict <- [id \in NoCreation |-> Told(id)]
ImplementsTransactions == T!Spec

InFlight(id) == \E m \in PendingMessages : m.id = id /\ m.to \in Up

(* Reads and updates get an answer: when nothing of one is in flight and its  *)
(* coordinator is up, a verdict has been logged, unless every node asked has  *)
(* failed.                                                                    *)
Answered ==
    \A id \in DOMAIN ops :
        /\ phase = "client" /\ id.type \in {"READ", "UPDATE"}
        /\ ops[id].coord \in Up /\ ops[id].asked \cap Up # {}
        /\ ~InFlight(id)
        => ops[id].told # <<>>

(* The keys that have been created and that nobody has tried to delete. *)
Stored == {ops[id].key : id \in {x \in DOMAIN ops : x.type = "CREATE" /\ Succeeded(x)}}
          \ {ops[id].key : id \in {x \in DOMAIN ops : x.type = "DELETE"}}

(* No creation that was logged as a success is lost. *)
Survives == \A k \in Stored : \E i \in Up : k \in DOMAIN ht[i]

(* Those that all three replicas asked had created. *)
StoredAtAll == {ops[id].key : id \in {x \in DOMAIN ops : x.type = "CREATE" /\ Cardinality(ops[x].did) = 3}}

Settled == phase = "client" /\ Quiet /\ \A i \in Up : ring[i] = Up

(* A read that is logged as a success has the value of the last write to the  *)
(* key that was logged as a success before the read was issued, or of a write *)
(* after that one.  (For a driver that issues one operation at a time, and    *)
(* deletes nothing.)                                                          *)
Writes(k) == {id \in DOMAIN ops : id.type \in {"CREATE", "UPDATE"} /\ ops[id].key = k}

FreshReads ==
    \A r \in DOMAIN ops : \A n \in DOMAIN ops[r].told :
        r.type = "READ" /\ ops[r].told[n].ok =>
            LET before == {w \in Writes(ops[r].key) : w.seq < r.seq}
            IN  \E w \in before :
                  /\ ops[w].value = ops[r].told[n].value
                  /\ \A x \in before : Succeeded(x) => x.seq <= w.seq

AllCopies(k) == \A i \in findNodes(Up, k) : k \in DOMAIN ht[i]

(* When everyone has noticed the failures, a key that had its three copies    *)
(* has three copies again, at the nodes that are its replicas now.  (With     *)
(* four nodes.  In a larger group the last node of the ring may have copied   *)
(* to nobody, see PastEnd.)                                                   *)
Restabilized == Settled => \A k \in Stored \cap StoredAtAll : AllCopies(k)

(* ... and so has every key whose creation was logged as a success.           *)
ThreeCopies == Settled => \A k \in Stored : AllCopies(k)

(* Stabilization comes to an end: whatever happens, again and again there is  *)
(* a tick in which all rings are right and nothing is left to handle; nodes   *)
(* do not go on sending each other copies and deletions.  (With a bound on    *)
(* the time that failed nodes stay in the tables, and the fairness of         *)
(* FairTestSpec in CrudTests.)                                                *)
Settles == []<>Settled
===============================================================================
