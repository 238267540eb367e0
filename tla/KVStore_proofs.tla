---------------------------- MODULE KVStore_proofs ----------------------------
(* Proofs about the key-value store, for every ring, every number of nodes,   *)
(* keys and operations, every set of failures and every course of detection.  *)
EXTENDS KVStore, DataLemmas

-------------------------------------------------------------------------------
(* The inductive invariant.                                                   *)

(* What TypeOK leaves open: the types of what the nodes keep.                 *)
OpRecord == [key : Key, value : Value \cup {NoValue}, coord : Node, asked : SUBSET Node,
             did : SUBSET Node, told : Seq([ok : BOOLEAN, value : Value \cup {NoValue}])]

(* A creation or an update has a value. *)
Carries(m) == m.type \in {"CREATE", "UPDATE"} => m.value \in Value

Shapes ==
    /\ DOMAIN ht = Node /\ DOMAIN hasMyReplicas = Node /\ DOMAIN mp2q = Node
    /\ IsABag(net) /\ \A i \in Node : IsABag(mp2q[i])
    /\ \A i \in Node : \A m \in BagToSet(mp2q[i]) : m.to = i
    /\ \A m \in PendingMessages : Carries(m)
    /\ \A i \in Node : i \in member[i]
    /\ \A id \in DOMAIN tally : tally[id] \in [replies : Nat, successes : Nat]
    /\ \A id \in DOMAIN keyvalueMap : keyvalueMap[id].value \in Value \cup {NoValue}
    /\ \A id \in DOMAIN ops : ops[id] \in OpRecord

(* Where the loops of mp2Run have got to: queues are empty but between a      *)
(* node's receive and its checkMessages, and counts are kept only during a    *)
(* checkMessages.                                                             *)
Schedule ==
    /\ \A i \in Node \ Up : BagToSet(mp2q[i]) = {}
    /\ phase = "client" => \A i \in Node : BagToSet(mp2q[i]) = {}
    /\ phase = "ring" => \A i \in Node : i > turn => BagToSet(mp2q[i]) = {}
    /\ phase = "check" /\ turn # 0 => \A i \in Node : i > turn => BagToSet(mp2q[i]) = {}
    /\ DOMAIN tally # {} => phase = "check" /\ turn \in Up

(* Ids are handed out once, and an operation is asked of three nodes at most. *)
Issue ==
    \A id \in DOMAIN ops :
        id.seq <= g_transID /\ Cardinality(ops[id].asked) <= expectedReplies

(* The requests and the replies of operations but creations, whose ids no     *)
(* stabilization message has.                                                 *)
IsAsk(m) == m.id.type # "CREATE" /\ m.type \in {"CREATE", "READ", "UPDATE", "DELETE"}
IsAnswer(m) == m.id.type # "CREATE" /\ m.type \in {"REPLY", "READREPLY"}

RequestOf(id, x) ==
    [type |-> id.type, id |-> id, from |-> ops[id].coord, to |-> x,
     key |-> ops[id].key, value |-> ops[id].value, stab |-> FALSE]

(* The requests of an operation are on their way, or received, in the tick    *)
(* after it has been issued, the replies in the tick after that; neither is   *)
(* there any more when a verdict is given, nor are requests when there are    *)
(* counts.                                                                    *)
AsksInFlight ==
    \A m \in BagToSet(net) : IsAsk(m) =>
        /\ m.id \in DOMAIN ops /\ m = RequestOf(m.id, m.to) /\ m.to \in ops[m.id].asked
        /\ net[m] = 1 /\ m \notin BagToSet(mp2q[m.to])
        /\ phase # "check" /\ (phase = "ring" => m.to \in Up /\ m.to > turn)
        /\ m.id \notin DOMAIN tally /\ ops[m.id].told = <<>>
AsksReceived ==
    \A i \in Node : \A m \in BagToSet(mp2q[i]) : IsAsk(m) =>
        /\ m.id \in DOMAIN ops /\ m = RequestOf(m.id, m.to) /\ m.to \in ops[m.id].asked
        /\ mp2q[i][m] = 1
        /\ m.id \notin DOMAIN tally /\ ops[m.id].told = <<>>
AnswersInFlight ==
    \A m \in BagToSet(net) : IsAnswer(m) =>
        /\ m.id \in DOMAIN ops /\ m.to = ops[m.id].coord
        /\ phase = "ring" => m.to \in Up /\ m.to > turn
        /\ m.id \notin DOMAIN tally /\ ops[m.id].told = <<>>
AnswersReceived ==
    \A i \in Node : \A m \in BagToSet(mp2q[i]) : IsAnswer(m) =>
        m.id \in DOMAIN ops /\ i = ops[m.id].coord

(* The stages exclude each other, but that some replicas may have answered    *)
(* when others have not yet handled the request, in the same part of a tick.  *)
Stages ==
    /\ \A m, n \in BagToSet(net) : IsAsk(m) /\ IsAnswer(n) => m.id # n.id
    /\ \A m \in BagToSet(net), i \in Node : \A n \in BagToSet(mp2q[i]) :
          (IsAsk(m) \/ IsAnswer(m)) /\ IsAnswer(n) => m.id # n.id
    /\ \A i, j \in Node : \A m \in BagToSet(mp2q[i]), n \in BagToSet(mp2q[j]) :
          IsAsk(m) /\ IsAnswer(n) => m.id # n.id
    /\ phase = "ring" =>
          \A m \in BagToSet(net), i \in Node : \A n \in BagToSet(mp2q[i]) :
              IsAnswer(m) /\ IsAsk(n) => m.id # n.id

(* Only its coordinator counts the replies to an operation, and stops when    *)
(* there are two successes.                                                   *)
Counting ==
    \A id \in DOMAIN tally : id.type # "CREATE" =>
        /\ id \in DOMAIN ops /\ turn = ops[id].coord
        /\ id \in DOMAIN keyvalueMap => tally[id].successes < quorumValue

(* A verdict is given once: either the operation is out of the map then, or   *)
(* all replies have been counted.                                             *)
Verdicts ==
    \A id \in NoCreation : ops[id].told # <<>> =>
        /\ Len(ops[id].told) = 1
        /\ \/ id \notin DOMAIN keyvalueMap
           \/ /\ id \notin DOMAIN tally
              /\ \A i \in Node : \A m \in BagToSet(mp2q[i]) : IsAnswer(m) => m.id # id
        /\ ops[id].told[1].ok => Cardinality(ops[id].did) >= quorumValue

(* The books: f has the reply of each replica that has replied, and counted   *)
(* those whose reply is no longer there.  The copies of a reply in flight and *)
(* received are as many as the replicas that sent it and are not counted; as  *)
(* long as something is there, the counts are of those that are.              *)
AnswersOf(id) == {m \in Replies : m.id = id /\ m.to = ops[id].coord}
Success(m) == IF m.type = "READREPLY" THEN m.value # NoValue ELSE m.success
Pending(id) == (\E m \in PendingMessages : m.id = id) \/ id \in DOMAIN tally
Account(id, f, counted) ==
    /\ counted \subseteq DOMAIN f /\ ops[id].did \subseteq DOMAIN f
    /\ \A x \in DOMAIN f : Success(f[x]) <=> x \in ops[id].did
    /\ \A m \in PendingMessages : IsAsk(m) /\ m.id = id => m.to \notin DOMAIN f
    /\ \A m \in AnswersOf(id) :
          Copies(m, net) + Copies(m, mp2q[ops[id].coord])
              = Cardinality({x \in DOMAIN f \ counted : f[x] = m})
    /\ Pending(id) => /\ Counts(id).replies = Cardinality(counted)
                      /\ Counts(id).successes = Cardinality(counted \cap ops[id].did)
Accounts ==
    \A id \in NoCreation :
        \E R \in SUBSET ops[id].asked :
            \E f \in [R -> AnswersOf(id)], counted \in SUBSET R : Account(id, f, counted)

Flow == /\ AsksInFlight /\ AsksReceived /\ AnswersInFlight /\ AnswersReceived
        /\ Stages /\ Counting /\ Verdicts

IInv == TypeOK /\ Shapes /\ Schedule /\ Issue /\ Flow /\ Accounts

-------------------------------------------------------------------------------
(* Rings and the replicas found on them.                                      *)

(* There are finitely many nodes, and the null address is none.               *)
LEMMA NodeFacts ==
    /\ IsFiniteSet(Node) /\ Node \subseteq Nat \ {0} /\ Junk \notin Node
    /\ \A S \in SUBSET Node : IsFiniteSet(S) /\ Cardinality(S) \in Nat
<1>1. EN_GPSZ \in Nat
  BY RingAssumption
<1>2. IsFiniteSet(Node)
  BY <1>1, FS_Interval DEF Node
<1>3. ASSUME NEW S \in SUBSET Node
      PROVE  IsFiniteSet(S) /\ Cardinality(S) \in Nat
  BY <1>2, <1>3, FS_Subset, FS_CardinalityType
<1>4. Node \subseteq Nat \ {0} /\ Junk \notin Node
  BY <1>1 DEF Node, Junk
<1>. QED BY <1>2, <1>3, <1>4

(* A part of a set of nodes is not larger than the set.                       *)
LEMMA SubsetCard ==
    ASSUME NEW S \in SUBSET Node, NEW R \in SUBSET S
    PROVE  /\ Cardinality(R) <= Cardinality(S)
           /\ Cardinality(R) = Cardinality(S) => R = S
BY NodeFacts, FS_Subset

(* Every place on a ring is taken, because positions differ.                  *)
LEMMA PlacesTaken ==
    ASSUME NEW r \in SUBSET Node, NEW n \in 0 .. Cardinality(r) - 1
    PROVE  \E j \in r : Rank(r, j) = n
<1>. DEFINE before(i) == {j \in r : Hash[j] < Hash[i]}
            N == Cardinality(r)
            rank == [j \in r |-> Rank(r, j)]
<1>1. N \in Nat /\ Hash \in [Node -> Nat]
  BY NodeFacts, RingAssumption
<1>2. ASSUME NEW i \in r
      PROVE  Rank(r, i) \in 0 .. N - 1
  <2>1. before(i) \in SUBSET r /\ i \notin before(i) /\ before(i) # r
    BY <1>1
  <2>2. Cardinality(before(i)) \in Nat /\ Cardinality(before(i)) <= N
    BY <2>1, NodeFacts, SubsetCard
  <2>3. Cardinality(before(i)) # N
    BY <2>1, SubsetCard
  <2>. QED BY <1>1, <2>2, <2>3 DEF Rank
<1>3. ASSUME NEW i \in r, NEW j \in r, Hash[i] < Hash[j]
      PROVE  Rank(r, i) # Rank(r, j)
  <2>1. before(i) \in SUBSET before(j) /\ i \in before(j) /\ i \notin before(i)
    BY <1>1, <1>3
  <2>2. before(j) \in SUBSET Node
    OBVIOUS
  <2>. QED BY <2>1, <2>2, SubsetCard DEF Rank
<1>4. rank \in Injection(r, 0 .. N - 1)
  <2>1. rank \in [r -> 0 .. N - 1]
    BY <1>2
  <2>2. ASSUME NEW i \in r, NEW j \in r, i # j
        PROVE  rank[i] # rank[j]
    <3>1. Hash[i] < Hash[j] \/ Hash[j] < Hash[i]
      BY <1>1, <2>2, RingAssumption
    <3>. QED BY <1>3, <3>1
  <2>. QED BY <2>1, <2>2 DEF Injection, IsInjective
<1>5. IsFiniteSet(0 .. N - 1) /\ Cardinality(0 .. N - 1) = Cardinality(r)
  BY <1>1, FS_Interval
<1>6. rank \in Surjection(r, 0 .. N - 1)
  BY <1>4, <1>5, FS_Injection
<1>7. PICK j \in r : rank[j] = n
  BY <1>6 DEF Surjection
<1>. QED BY <1>7

(* At finds a node of the ring.                                               *)
LEMMA AtInRing ==
    ASSUME NEW r \in SUBSET Node, r # {}, NEW p \in Nat
    PROVE  At(r, p) \in r
<1>1. Cardinality(r) \in Nat /\ Cardinality(r) # 0
  BY NodeFacts, FS_EmptySet
<1>2. p % Cardinality(r) \in 0 .. Cardinality(r) - 1
  BY <1>1
<1>3. \E j \in r : Rank(r, j) = p % Cardinality(r)
  BY <1>2, PlacesTaken
<1>. QED BY <1>3 DEF At

(* findNodes finds three nodes of the ring at most.                           *)
LEMMA ReplicasOnRing ==
    ASSUME NEW r \in SUBSET Node, NEW k \in Key
    PROVE  findNodes(r, k) \subseteq r /\ Cardinality(findNodes(r, k)) <= expectedReplies
<1>1. CASE Cardinality(r) < 3
  BY <1>1, FS_EmptySet DEF findNodes, expectedReplies
<1>2. CASE ~ (Cardinality(r) < 3)
  <2>. DEFINE L == Leader(r, k)
  <2>1. L \in Nat
    BY NodeFacts DEF Leader
  <2>2. r # {}
    BY <1>2, FS_EmptySet
  <2>. HIDE DEF L
  <2>3. findNodes(r, k) = ({At(r, L)} \cup {At(r, L + 1)}) \cup {At(r, L + 2)}
    <3>1. {At(r, L + d) : d \in 0 .. 2} = {At(r, L + 0), At(r, L + 1), At(r, L + 2)}
      <4>1. \A d : d \in 0 .. 2 <=> d = 0 \/ d = 1 \/ d = 2
        OBVIOUS
      <4>. QED BY <4>1, Zenon
    <3>2. L + 0 = L
      BY <2>1
    <3>3. findNodes(r, k) = {At(r, L + d) : d \in 0 .. 2}
      BY <1>2 DEF findNodes, L
    <3>. QED BY <3>1, <3>2, <3>3
  <2>4. At(r, L) \in r /\ At(r, L + 1) \in r /\ At(r, L + 2) \in r
    BY <2>1, <2>2, AtInRing
  <2>5. ASSUME NEW S \in SUBSET Node, NEW x \in Node
        PROVE  Cardinality(S \cup {x}) <= Cardinality(S) + 1
    <3>1. Cardinality(S) \in Nat /\ IsFiniteSet(S)
      BY NodeFacts
    <3>2. Cardinality(S \cup {x}) = IF x \in S THEN Cardinality(S) ELSE Cardinality(S) + 1
      BY <3>1, FS_AddElement
    <3>. QED BY <3>1, <3>2
  <2>6. Cardinality({At(r, L)}) = 1
    BY FS_Singleton
  <2>7. Cardinality({At(r, L)} \cup {At(r, L + 1)}) <= 2
    BY <2>4, <2>5, <2>6
  <2>8. {At(r, L)} \cup {At(r, L + 1)} \in SUBSET Node /\ At(r, L + 2) \in Node
    BY <2>4
  <2>9. Cardinality({At(r, L)} \cup {At(r, L + 1)}) \in Nat
    BY <2>8, NodeFacts
  <2>10. Cardinality(({At(r, L)} \cup {At(r, L + 1)}) \cup {At(r, L + 2)}) <= 3
    <3>1. Cardinality(({At(r, L)} \cup {At(r, L + 1)}) \cup {At(r, L + 2)}) \in Nat
      BY <2>4, NodeFacts
    <3>. QED BY <2>5, <2>7, <2>8, <2>9, <3>1
  <2>. QED BY <2>3, <2>4, <2>10 DEF expectedReplies
<1>. QED BY <1>1, <1>2

(* findNeighbors finds two addresses.                                         *)
LEMMA NeighborsType ==
    ASSUME NEW r \in SUBSET Node, NEW i \in r, NEW neighbors \in findNeighbors(r, i)
    PROVE  neighbors \in Seq(Node \cup {Junk}) /\ Len(neighbors) = 2
<1>1. Rank(r, i) \in Nat
  BY NodeFacts DEF Rank
<1>2. At(r, Rank(r, i) + 1) \in Node /\ At(r, Rank(r, i) + 2) \in Node
  BY <1>1, AtInRing
<1>3. PICK x \in Node \cup {Junk} : neighbors = <<At(r, Rank(r, i) + 1), x>>
  BY <1>2, ClientAssumption DEF findNeighbors
<1>. QED BY <1>2, <1>3

-------------------------------------------------------------------------------
(* What is sent and received.                                                 *)

(* The messages of the stabilization protocol are requests, and their ids     *)
(* look like those of creations.                                              *)
LEMMA StabilizationSends ==
    ASSUME TypeOK, Shapes, NEW i \in Node, NEW r \in SUBSET Node,
           NEW old, NEW new \in Seq(Node \cup {Junk}),
           NEW ms, ms = StabilizationMessages(i, r, old, new)
    PROVE  /\ Len(ms) \in Nat
           /\ \A m \in ToSet(ms) : /\ m \in Requests /\ m.id.type = "CREATE" /\ Carries(m)
                                   /\ m.id.seq \in g_transID .. g_transID + Len(ms) - 1
                                   /\ m.stab /\ m.type \in {"CREATE", "DELETE"}
                                   /\ m.type = "DELETE" => m.to = i /\ i \notin findNodes(r, m.key)
           /\ \A m, n \in ToSet(ms) : m.id = n.id => m = n
<1>. DEFINE Sends == [type : {"CREATE"}, to : Node \cup {Junk}, value : Value, key : Key]
                     \cup [type : {"DELETE"}, to : {i}, value : {NoValue},
                            key : {k \in Key : i \notin findNodes(r, k)}]
            sends == FlattenSeq([k \in Key |-> KeySends(i, r, old, new, k)])
            fresh == [n \in DOMAIN new |-> IF new[n] \in ToSet(old) THEN <<>> ELSE <<new[n]>>]
<1>1. NewReplicas(old, new) \in Seq(Node \cup {Junk})
  <2>1. Len(new) \in Nat /\ DOMAIN new = 1 .. Len(new)
    OBVIOUS
  <2>2. ASSUME NEW n \in DOMAIN new
        PROVE  fresh[n] \in Seq(Node \cup {Junk})
    <3>1. new[n] \in Node \cup {Junk}
      BY <2>1
    <3>2. \A X : \A x \in X : <<x>> \in Seq(X) /\ <<>> \in Seq(X)
      OBVIOUS
    <3>. QED BY <3>1, <3>2, Zenon
  <2>3. fresh \in Seq(Seq(Node \cup {Junk}))
    BY <2>1, <2>2
  <2>. QED BY <2>3, FlattenSeqType DEF NewReplicas
<1>2. ASSUME NEW k \in Key
      PROVE  KeySends(i, r, old, new, k) \in Seq(Sends)
  <2>1. CASE k \notin DOMAIN ht[i]
    BY <2>1 DEF KeySends
  <2>2. CASE k \in DOMAIN ht[i] /\ ~ ShouldHold(i, r, k)
    <3>1. [type |-> "DELETE", to |-> i, value |-> NoValue, key |-> k] \in Sends
      BY <2>2 DEF ShouldHold
    <3>. HIDE DEF Sends
    <3>2. <<[type |-> "DELETE", to |-> i, value |-> NoValue, key |-> k]>> \in Seq(Sends)
      BY <3>1
    <3>. QED BY <2>2, <3>2 DEF KeySends
  <2>3. CASE k \in DOMAIN ht[i] /\ ShouldHold(i, r, k)
    <3>. DEFINE send(n) == [type |-> "CREATE", to |-> NewReplicas(old, new)[n],
                            value |-> ht[i][k], key |-> k]
    <3>1. ht[i][k] \in Value
      BY <2>3 DEF TypeOK
    <3>2. \A n \in DOMAIN NewReplicas(old, new) : send(n) \in Sends
      BY <1>1, <3>1
    <3>3. Len(NewReplicas(old, new)) \in Nat
          /\ DOMAIN NewReplicas(old, new) = 1 .. Len(NewReplicas(old, new))
      BY <1>1
    <3>. HIDE DEF send, Sends
    <3>4. [n \in DOMAIN NewReplicas(old, new) |-> send(n)] \in Seq(Sends)
      BY <3>2, <3>3
    <3>. QED BY <2>3, <3>4 DEF KeySends, send
  <2>. QED BY <2>1, <2>2, <2>3
<1>3. sends \in Seq(Sends)
  <2>1. NumKeys \in Nat
    BY RingAssumption
  <2>. DEFINE ofKey(k) == KeySends(i, r, old, new, k)
  <2>2. \A k \in 1 .. NumKeys : ofKey(k) \in Seq(Sends)
    BY <1>2 DEF Key
  <2>. HIDE DEF ofKey, Sends
  <2>3. [k \in 1 .. NumKeys |-> ofKey(k)] \in Seq(Seq(Sends))
    BY <2>1, <2>2
  <2>4. FlattenSeq([k \in 1 .. NumKeys |-> ofKey(k)]) \in Seq(Sends)
    BY <2>3, FlattenSeqType
  <2>. QED BY <2>4 DEF ofKey, Key
<1>. HIDE DEF sends, Sends
<1>4. Len(sends) \in Nat /\ DOMAIN sends = 1 .. Len(sends)
      /\ \A n \in 1 .. Len(sends) : sends[n] \in Sends
  BY <1>3
<1>5. ms = [n \in DOMAIN sends |->
              [type |-> sends[n].type, id |-> StabId(g_transID + n - 1), from |-> i,
               to |-> sends[n].to, key |-> sends[n].key, value |-> sends[n].value,
               stab |-> TRUE]]
  BY DEF StabilizationMessages, sends
<1>6. Len(ms) = Len(sends)
  BY <1>4, <1>5
<1>7. ASSUME NEW m \in ToSet(ms)
      PROVE  /\ m \in Requests /\ m.id.type = "CREATE" /\ Carries(m)
             /\ m.id.seq \in g_transID .. g_transID + Len(ms) - 1
             /\ m.stab /\ m.type \in {"CREATE", "DELETE"}
             /\ m.type = "DELETE" => m.to = i /\ i \notin findNodes(r, m.key)
  <2>1. PICK n \in DOMAIN sends : m = ms[n]
    BY <1>5 DEF ToSet
  <2>2. g_transID + n - 1 \in Nat
    BY <1>4 DEF TypeOK
  <2>3. StabId(g_transID + n - 1) \in Ids /\ StabId(g_transID + n - 1).type = "CREATE"
    BY <2>2 DEF StabId, CRUDId, Ids
  <2>4. sends[n] \in Sends
    BY <1>4
  <2>5. StabId(g_transID + n - 1).seq \in g_transID .. g_transID + Len(ms) - 1
    BY <1>4, <1>6 DEF StabId, CRUDId, TypeOK
  <2>. QED BY <1>5, <2>1, <2>3, <2>4, <2>5 DEF Requests, Sends, Carries
<1>8. ASSUME NEW x \in ToSet(ms), NEW y \in ToSet(ms), x.id = y.id
      PROVE  x = y
  <2>1. PICK n \in DOMAIN sends : x = ms[n]
    BY <1>5 DEF ToSet
  <2>2. PICK l \in DOMAIN sends : y = ms[l]
    BY <1>5 DEF ToSet
  <2>3. g_transID + n - 1 = g_transID + l - 1
    BY <1>5, <1>8, <2>1, <2>2 DEF StabId, CRUDId
  <2>4. n = l
    BY <1>4, <2>3 DEF TypeOK
  <2>. QED BY <2>1, <2>2, <2>4
<1>. QED BY <1>4, <1>6, <1>7, <1>8

(* The messages of B that are in S, with their copies.                        *)
LEMMA BagAmong ==
    ASSUME NEW B, IsABag(B), NEW S
    PROVE  /\ IsABag(Among(B, S))
           /\ BagToSet(Among(B, S)) = BagToSet(B) \cap S
           /\ \A m : Copies(m, Among(B, S)) = IF m \in S THEN Copies(m, B) ELSE 0
BY DEF IsABag, BagToSet, Among, Copies

(* What recvLoop does: the node receives what is for it, all copies; the rest *)
(* stays in flight.                                                           *)
LEMMA Received ==
    ASSUME TypeOK, Shapes, NEW i \in Node, NEW B, IsABag(B),
           \A m \in BagToSet(B) : m \in Requests,
           recvLoop(i, B)
    PROVE  /\ IsABag(net') /\ DOMAIN mp2q' = Node /\ IsABag(mp2q'[i])
           /\ \A j \in Node \ {i} : mp2q'[j] = mp2q[j]
           /\ BagToSet(net') = {m \in BagToSet(net) \cup BagToSet(B) : m.to # i}
           /\ BagToSet(mp2q'[i]) = BagToSet(mp2q[i])
                                   \cup {m \in BagToSet(net) \cup BagToSet(B) : m.to = i}
           /\ \A m : Copies(m, net') = IF m.to = i THEN 0 ELSE Copies(m, net) + Copies(m, B)
           /\ \A m : Copies(m, mp2q'[i])
                 = Copies(m, mp2q[i]) + IF m.to = i THEN Copies(m, net) + Copies(m, B) ELSE 0
<1>. DEFINE flight == net (+) B
            mine == To(flight, {i})
            others == To(flight, (Node \cup {Junk}) \ {i})
<1>1. /\ IsABag(flight) /\ BagToSet(flight) = BagToSet(net) \cup BagToSet(B)
      /\ \A m : Copies(m, flight) = Copies(m, net) + Copies(m, B)
  BY BagJoin DEF Shapes
<1>2. \A m \in BagToSet(flight) : m.to \in Node \cup {Junk}
  BY <1>1 DEF TypeOK, PendingMessages, Requests, Replies
<1>. HIDE DEF flight
<1>3. mine = {m \in BagToSet(flight) : m.to = i} /\ others = {m \in BagToSet(flight) : m.to # i}
  BY <1>2 DEF To
<1>. HIDE DEF mine, others
<1>4. net' = Among(flight, others) /\ mp2q' = [mp2q EXCEPT ![i] = @ (+) Among(flight, mine)]
  BY DEF recvLoop, flight, mine, others
<1>5. mp2q'[i] = mp2q[i] (+) Among(flight, mine) /\ DOMAIN mp2q' = Node
      /\ \A j \in Node \ {i} : mp2q'[j] = mp2q[j]
  BY <1>4 DEF Shapes
<1>6. /\ IsABag(Among(flight, mine)) /\ BagToSet(Among(flight, mine)) = mine
      /\ \A m : Copies(m, Among(flight, mine)) = IF m \in mine THEN Copies(m, flight) ELSE 0
  BY <1>1, <1>3, BagAmong
<1>7. /\ IsABag(net') /\ BagToSet(net') = others
      /\ \A m : Copies(m, net') = IF m \in others THEN Copies(m, flight) ELSE 0
  BY <1>1, <1>3, <1>4, BagAmong
<1>8. \A m : m \notin BagToSet(flight) => Copies(m, flight) = 0
  BY DEF Copies
<1>9. \A m : /\ Copies(m, net') = IF m.to = i THEN 0 ELSE Copies(m, flight)
             /\ Copies(m, Among(flight, mine)) = IF m.to = i THEN Copies(m, flight) ELSE 0
  BY <1>3, <1>6, <1>7, <1>8
<1>10. /\ IsABag(mp2q'[i]) /\ BagToSet(mp2q'[i]) = BagToSet(mp2q[i]) \cup mine
       /\ \A m : Copies(m, mp2q'[i]) = Copies(m, mp2q[i]) + Copies(m, Among(flight, mine))
  BY <1>5, <1>6, BagJoin DEF Shapes
<1>. QED BY <1>1, <1>3, <1>5, <1>7, <1>9, <1>10

-------------------------------------------------------------------------------
(* The invariant holds initially.                                             *)
LEMMA InitIInv == Init => IInv
<1>. SUFFICES ASSUME Init PROVE IInv
  OBVIOUS
<1>1. /\ BagToSet(net) = {} /\ IsABag(net)
      /\ \A i \in Node : BagToSet(mp2q[i]) = {} /\ IsABag(mp2q[i])
  BY BagEmpty DEF Init
<1>2. PendingMessages = {}
  BY <1>1 DEF PendingMessages
<1>3. TypeOK
  <2>1. EN_GPSZ \in Nat /\ DetectLast \in Nat
    BY RingAssumption, ClientAssumption DEF DetectLast
  <2>2. \A i \in Node : DOMAIN ht[i] = {} /\ Len(hasMyReplicas[i]) = 0
    BY DEF Init
  <2>. QED BY <1>2, <2>1, <2>2 DEF Init, TypeOK
<1>4. Shapes
  BY <1>1, <1>2 DEF Init, Shapes
<1>5. Schedule /\ Issue
  BY <1>1 DEF Init, Schedule, Issue
<1>6. DOMAIN ops = {} /\ DOMAIN tally = {} /\ NoCreation = {}
  BY DEF Init, NoCreation
<1>. QED BY <1>1, <1>3, <1>4, <1>5, <1>6
         DEF IInv, Flow, AsksInFlight, AsksReceived, AnswersInFlight, AnswersReceived,
             Stages, Counting, Verdicts, Accounts

-------------------------------------------------------------------------------
(* The parts of the invariant that speak of the state only through the        *)
(* schedule, the messages of operations but creations, their counts and their *)
(* records.                                                                   *)

(* The messages that count: those of operations but creations.                *)
Ours(m) == IsAsk(m) \/ IsAnswer(m)

(* What is pending is a request or a reply, and ours unless its id is that of *)
(* a creation.                                                                *)
LEMMA PendingKinds ==
    ASSUME TypeOK, NEW m \in PendingMessages
    PROVE  /\ m \in Requests \/ m \in Replies
           /\ m.id \in Ids
           /\ m.id.type # "CREATE" => Ours(m)
           /\ m \in Requests => ~IsAnswer(m)
           /\ m \in Replies => ~IsAsk(m)
<1>1. m \in Requests \/ m \in Replies
  BY DEF TypeOK
<1>. QED BY <1>1 DEF Requests, Replies, Ours, IsAsk, IsAnswer

(* A turn of the first loop that sends B (updateRing, with or without         *)
(* stabilization), each message with a transaction number of its own.         *)
RingStep(i, B) ==
    /\ RingTurn(i)
    /\ IsABag(B)
    /\ \A m \in BagToSet(B) : m \in Requests /\ m.id.type = "CREATE" /\ Carries(m)
    /\ recvLoop(i, B)
    /\ ring' = [ring EXCEPT ![i] = member[i]]
    /\ hasMyReplicas' = hasMyReplicas
       \/ \E neighbors : /\ hasMyReplicas' = [hasMyReplicas EXCEPT ![i] = neighbors]
                         /\ Len(neighbors) = 2
    /\ g_transID' \in Nat /\ g_transID' >= g_transID
    /\ \A m \in BagToSet(B) : /\ m.id.seq >= g_transID /\ m.id.seq < g_transID'
                             /\ Copies(m, B) = 1
                             /\ \A n \in BagToSet(B) : n.id = m.id => n = m
    /\ UNCHANGED <<failVars, member, ht, keyvalueMap, tally, ops>>

(* A turn of the first loop keeps the types and the schedule: the node that   *)
(* has its turn is later than all that had theirs, and its queue was empty.   *)
LEMMA RingStepKeepsTypes ==
    ASSUME IInv, NEW i \in Node, NEW B, RingStep(i, B)
    PROVE  TypeOK' /\ Shapes' /\ Schedule' /\ Issue'
<1>. USE DEF RingStep
<1>1. /\ IsABag(net') /\ DOMAIN mp2q' = Node /\ IsABag(mp2q'[i])
      /\ \A j \in Node \ {i} : mp2q'[j] = mp2q[j]
      /\ BagToSet(net') = {m \in BagToSet(net) \cup BagToSet(B) : m.to # i}
      /\ BagToSet(mp2q'[i]) = BagToSet(mp2q[i])
                              \cup {m \in BagToSet(net) \cup BagToSet(B) : m.to = i}
  BY Received DEF IInv
<1>2. PendingMessages' \subseteq PendingMessages \cup BagToSet(B)
  BY <1>1 DEF PendingMessages
<1>3. TypeOK'
  <2>1. \A m \in PendingMessages' : m \in Requests \cup Replies
    BY <1>2 DEF IInv, TypeOK
  <2>2. i \in 0 .. EN_GPSZ
    BY RingAssumption DEF Node
  <2>3. ring' \in [Node -> SUBSET Node]
    BY DEF IInv, TypeOK
  <2>4. \A j \in Node : Len(hasMyReplicas'[j]) \in {0, 2}
    BY DEF IInv, TypeOK, Shapes
  <2>. QED BY <2>1, <2>2, <2>3, <2>4 DEF IInv, TypeOK, RingTurn, failVars
<1>4. Shapes'
  <2>1. \A m \in PendingMessages' : Carries(m)
    BY <1>2 DEF IInv, Shapes
  <2>. QED BY <1>1, <2>1 DEF IInv, TypeOK, Shapes, RingTurn, failVars
<1>5. Schedule'
  <2>1. phase = "ring" /\ phase' = "ring" /\ turn' = i /\ i > turn /\ i \in Up /\ Up' = Up
    BY DEF RingTurn, RingDue, Up, failVars
  <2>2. turn \in Int /\ \A j \in Node : j \in Int
    BY RingAssumption DEF IInv, TypeOK, Node
  <2>3. DOMAIN tally' = {}
    BY <2>1 DEF IInv, Schedule
  <2>4. \A j \in Node \ Up : BagToSet(mp2q'[j]) = {}
    BY <1>1, <2>1 DEF IInv, Schedule
  <2>5. \A j \in Node : j > i => BagToSet(mp2q'[j]) = {}
    BY <1>1, <2>1, <2>2 DEF IInv, Schedule
  <2>. QED BY <2>1, <2>3, <2>4, <2>5 DEF Schedule
<1>6. Issue'
  BY DEF IInv, Issue, TypeOK, Ids
<1>. QED BY <1>3, <1>4, <1>5, <1>6

(* It keeps the flow of messages: what was in flight to the node is in its    *)
(* queue now, and no message of an operation is sent.                         *)
LEMMA RingStepKeepsFlow ==
    ASSUME IInv, NEW i \in Node, NEW B, RingStep(i, B)
    PROVE  Flow'
<1>. USE DEF RingStep
<1>1. /\ phase = "ring" /\ phase' = "ring" /\ turn' = i /\ i > turn /\ i \in Up /\ Up' = Up
      /\ UNCHANGED <<tally, keyvalueMap, ops>> /\ DOMAIN tally = {}
      /\ BagToSet(mp2q[i]) = {}
  BY DEF RingTurn, RingDue, Up, failVars, IInv, Schedule
<1>2. /\ IsABag(net') /\ IsABag(mp2q'[i])
      /\ \A j \in Node \ {i} : mp2q'[j] = mp2q[j]
      /\ \A m : Ours(m) => /\ m \in BagToSet(net') <=> m \in BagToSet(net) /\ m.to # i
                           /\ m \in BagToSet(mp2q'[i]) <=> m \in BagToSet(net) /\ m.to = i
                           /\ Copies(m, net') = IF m.to = i THEN 0 ELSE Copies(m, net)
                           /\ m.to = i => Copies(m, mp2q'[i]) = Copies(m, net)
  <2>1. \A m \in BagToSet(B) : ~Ours(m)
    BY DEF Ours, IsAsk, IsAnswer
  <2>2. \A m : /\ Ours(m) => Copies(m, B) = 0
               /\ Copies(m, mp2q[i]) = 0 /\ Copies(m, net) \in Nat
    BY <1>1, <2>1, BagCopies DEF Copies, IInv, Shapes
  <2>. QED BY <1>1, <2>1, <2>2, Received DEF IInv
<1>3. \A m \in BagToSet(net) : Ours(m) => m.to \in Up /\ m.to > turn /\ m.to >= i
  <2>1. ASSUME NEW m \in BagToSet(net), Ours(m), ~ (m.to >= i)
        PROVE  FALSE
    <3>1. m.to \in Up /\ m.to > turn /\ m.to \in Node
      BY <1>1, <2>1 DEF IInv, Flow, AsksInFlight, AnswersInFlight, Ours, Up
    <3>2. m.to \in turn + 1 .. i - 1
      BY <2>1, <3>1, RingAssumption DEF IInv, TypeOK, Node
    <3>3. To(net, {m.to}) = {}
      BY <3>1, <3>2 DEF RingTurn, RingDue
    <3>. QED BY <3>3 DEF To
  <2>. QED BY <1>1, <2>1 DEF IInv, Flow, AsksInFlight, AnswersInFlight, Ours
<1>4. AsksInFlight'
  <2>. SUFFICES ASSUME NEW m \in BagToSet(net'), IsAsk(m)
                PROVE  /\ m.id \in DOMAIN ops /\ m = RequestOf(m.id, m.to) /\ m.to \in ops[m.id].asked
                       /\ net'[m] = 1 /\ m \notin BagToSet(mp2q'[m.to])
                       /\ m.to \in Up /\ m.to > i
                       /\ m.id \notin DOMAIN tally /\ ops[m.id].told = <<>>
    BY <1>1 DEF AsksInFlight, RequestOf
  <2>1. m \in BagToSet(net) /\ m.to # i /\ Copies(m, net') = Copies(m, net)
    BY <1>2 DEF Ours
  <2>2. m.to \in Up /\ m.to > i /\ m.to \in Node
    <3>1. m.to \in Up /\ m.to \in Node /\ m.to >= i
      BY <1>3, <2>1 DEF Ours, Up
    <3>. QED BY <2>1, <3>1, RingAssumption DEF Node
  <2>. QED BY <1>2, <2>1, <2>2 DEF IInv, Flow, AsksInFlight, Copies
<1>5. AsksReceived'
  <2>. SUFFICES ASSUME NEW j \in Node, NEW m \in BagToSet(mp2q'[j]), IsAsk(m)
                PROVE  /\ m.id \in DOMAIN ops /\ m = RequestOf(m.id, m.to) /\ m.to \in ops[m.id].asked
                       /\ mp2q'[j][m] = 1
                       /\ m.id \notin DOMAIN tally /\ ops[m.id].told = <<>>
    BY <1>1 DEF AsksReceived, RequestOf
  <2>1. CASE j # i
    BY <1>2, <2>1 DEF IInv, Flow, AsksReceived
  <2>2. CASE j = i
    <3>1. m \in BagToSet(net) /\ Copies(m, mp2q'[i]) = Copies(m, net)
      BY <1>2, <2>2 DEF Ours
    <3>. QED BY <2>2, <3>1 DEF IInv, Flow, AsksInFlight, Copies
  <2>. QED BY <2>1, <2>2
<1>6. AnswersInFlight'
  <2>. SUFFICES ASSUME NEW m \in BagToSet(net'), IsAnswer(m)
                PROVE  /\ m.id \in DOMAIN ops /\ m.to = ops[m.id].coord
                       /\ m.to \in Up /\ m.to > i
                       /\ m.id \notin DOMAIN tally /\ ops[m.id].told = <<>>
    BY <1>1 DEF AnswersInFlight
  <2>1. m \in BagToSet(net) /\ m.to # i
    BY <1>2 DEF Ours
  <2>2. m.to \in Up /\ m.to > i
    <3>1. m.to \in Up /\ m.to \in Node /\ m.to >= i
      BY <1>3, <2>1 DEF Ours, Up
    <3>. QED BY <2>1, <3>1, RingAssumption DEF Node
  <2>. QED BY <2>1, <2>2 DEF IInv, Flow, AnswersInFlight
<1>7. AnswersReceived'
  <2>. SUFFICES ASSUME NEW j \in Node, NEW m \in BagToSet(mp2q'[j]), IsAnswer(m)
                PROVE  m.id \in DOMAIN ops /\ j = ops[m.id].coord
    BY <1>1 DEF AnswersReceived
  <2>. QED BY <1>2 DEF IInv, Flow, AnswersReceived, AnswersInFlight, Ours
<1>8. Stages'
  <2>1. ASSUME NEW m \in BagToSet(net'), NEW n \in BagToSet(net'), IsAsk(m), IsAnswer(n)
        PROVE  m.id # n.id
    BY <1>2, <2>1 DEF IInv, Flow, Stages, Ours
  <2>2. ASSUME NEW m \in BagToSet(net'), NEW j \in Node, NEW n \in BagToSet(mp2q'[j]),
               Ours(m), IsAnswer(n)
        PROVE  m.id # n.id
    <3>1. m \in BagToSet(net) /\ m.to # i
      BY <1>2, <2>2
    <3>2. CASE j # i
      BY <1>2, <2>2, <3>1, <3>2 DEF IInv, Flow, Stages, Ours
    <3>3. CASE j = i
      <4>1. n \in BagToSet(net) /\ n.to = i
        BY <1>2, <2>2, <3>3 DEF Ours
      <4>2. CASE IsAsk(m)
        BY <2>2, <3>1, <4>1, <4>2 DEF IInv, Flow, Stages
      <4>3. CASE IsAnswer(m)
        BY <2>2, <3>1, <4>1, <4>3 DEF IInv, Flow, AnswersInFlight
      <4>. QED BY <2>2, <4>2, <4>3 DEF Ours
    <3>. QED BY <3>2, <3>3
  <2>3. ASSUME NEW j \in Node, NEW k \in Node,
               NEW m \in BagToSet(mp2q'[j]), NEW n \in BagToSet(mp2q'[k]), IsAsk(m), IsAnswer(n)
        PROVE  m.id # n.id
    <3>1. \/ m \in BagToSet(net)
          \/ j # i /\ m \in BagToSet(mp2q[j])
      BY <1>2, <2>3 DEF Ours
    <3>2. \/ n \in BagToSet(net)
          \/ k # i /\ n \in BagToSet(mp2q[k])
      BY <1>2, <2>3 DEF Ours
    <3>. QED BY <1>1, <2>3, <3>1, <3>2 DEF IInv, Flow, Stages
  <2>4. ASSUME NEW m \in BagToSet(net'), NEW j \in Node, NEW n \in BagToSet(mp2q'[j]),
               IsAnswer(m), IsAsk(n)
        PROVE  m.id # n.id
    <3>1. \/ n \in BagToSet(net)
          \/ j # i /\ n \in BagToSet(mp2q[j])
      BY <1>2, <2>4 DEF Ours
    <3>. QED BY <1>1, <1>2, <2>4, <3>1 DEF IInv, Flow, Stages, Ours
  <2>. QED BY <2>1, <2>2, <2>3, <2>4 DEF Stages, Ours
<1>9. Counting'
  BY <1>1 DEF Counting
<1>10. Verdicts'
  <2>. SUFFICES ASSUME NEW id \in NoCreation, ops[id].told # <<>>
                PROVE  /\ Len(ops[id].told) = 1
                       /\ \/ id \notin DOMAIN keyvalueMap
                          \/ /\ id \notin DOMAIN tally
                             /\ \A j \in Node : \A m \in BagToSet(mp2q'[j]) : IsAnswer(m) => m.id # id
                       /\ ops[id].told[1].ok => Cardinality(ops[id].did) >= quorumValue
    BY <1>1 DEF Verdicts, NoCreation
  <2>1. \A m \in BagToSet(net) : IsAnswer(m) => m.id # id
    BY DEF IInv, Flow, AnswersInFlight
  <2>2. (\A j \in Node : \A m \in BagToSet(mp2q[j]) : IsAnswer(m) => m.id # id)
        => (\A j \in Node : \A m \in BagToSet(mp2q'[j]) : IsAnswer(m) => m.id # id)
    BY <1>2, <2>1 DEF Ours
  <2>. QED BY <2>2 DEF IInv, Flow, Verdicts
<1>. QED BY <1>4, <1>5, <1>6, <1>7, <1>8, <1>9, <1>10 DEF Flow

(* The books of an operation stay as they are in a step that neither changes  *)
(* its record nor its counts, brings no messages of it, and keeps the copies  *)
(* of its replies.                                                            *)
LEMMA AccountsKept ==
    ASSUME NEW id \in NoCreation, id \in NoCreation', Accounts,
           ops'[id].asked = ops[id].asked, ops'[id].did = ops[id].did,
           ops'[id].coord = ops[id].coord,
           \A m \in PendingMessages' : m.id = id => m \in PendingMessages,
           \A m \in AnswersOf(id) :
              Copies(m, net') + Copies(m, mp2q'[ops[id].coord])
                  = Copies(m, net) + Copies(m, mp2q[ops[id].coord]),
           Pending(id)' => Pending(id) /\ Counts(id)' = Counts(id)
    PROVE  \E R \in SUBSET ops'[id].asked :
              \E f \in [R -> AnswersOf(id)'], counted \in SUBSET R : Account(id, f, counted)'
<1>1. PICK R \in SUBSET ops[id].asked :
         \E f \in [R -> AnswersOf(id)], counted \in SUBSET R : Account(id, f, counted)
  BY DEF Accounts
<1>2. PICK f \in [R -> AnswersOf(id)], counted \in SUBSET R : Account(id, f, counted)
  BY <1>1
<1>3. AnswersOf(id)' = AnswersOf(id)
  BY DEF AnswersOf
<1>4. Account(id, f, counted)'
  <2>1. counted \subseteq DOMAIN f /\ ops'[id].did \subseteq DOMAIN f
    BY <1>2 DEF Account
  <2>2. \A x \in DOMAIN f : Success(f[x]) <=> x \in ops'[id].did
    BY <1>2 DEF Account
  <2>3. \A m \in PendingMessages' : IsAsk(m) /\ m.id = id => m.to \notin DOMAIN f
    BY <1>2 DEF Account
  <2>4. \A m \in AnswersOf(id) :
           Copies(m, net') + Copies(m, mp2q'[ops'[id].coord])
              = Cardinality({x \in DOMAIN f \ counted : f[x] = m})
    BY <1>2 DEF Account
  <2>5. Pending(id)' => /\ Counts(id)'.replies = Cardinality(counted)
                        /\ Counts(id)'.successes = Cardinality(counted \cap ops'[id].did)
    BY <1>2 DEF Account
  <2>. QED BY <1>3, <2>1, <2>2, <2>3, <2>4, <2>5 DEF Account
<1>. QED BY <1>2, <1>3, <1>4

(* It keeps the books: copies of replies only move from the network into the  *)
(* queue of their coordinator.                                                *)
LEMMA RingStepKeepsAccounts ==
    ASSUME IInv, NEW i \in Node, NEW B, RingStep(i, B)
    PROVE  Accounts'
<1>. USE DEF RingStep
<1>1. UNCHANGED <<tally, ops>> /\ NoCreation' = NoCreation
  BY DEF NoCreation
<1>2. /\ \A j \in Node \ {i} : mp2q'[j] = mp2q[j]
      /\ BagToSet(net') \subseteq BagToSet(net) \cup BagToSet(B)
      /\ BagToSet(mp2q'[i]) \subseteq BagToSet(mp2q[i]) \cup BagToSet(net) \cup BagToSet(B)
      /\ \A m : Copies(m, net') = IF m.to = i THEN 0 ELSE Copies(m, net) + Copies(m, B)
      /\ \A m : Copies(m, mp2q'[i])
                   = Copies(m, mp2q[i]) + IF m.to = i THEN Copies(m, net) + Copies(m, B) ELSE 0
  BY Received DEF IInv
<1>3. ASSUME NEW id \in NoCreation
      PROVE  \E R \in SUBSET ops'[id].asked :
                \E f \in [R -> AnswersOf(id)'], counted \in SUBSET R : Account(id, f, counted)'
  <2>1. \A m \in PendingMessages' : m.id = id => m \in PendingMessages
    BY <1>2 DEF PendingMessages, NoCreation
  <2>2. ASSUME NEW m \in AnswersOf(id)
        PROVE  Copies(m, net') + Copies(m, mp2q'[ops[id].coord])
                  = Copies(m, net) + Copies(m, mp2q[ops[id].coord])
    <3>1. m.to = ops[id].coord /\ ops[id].coord \in Node /\ Copies(m, B) = 0
      BY DEF AnswersOf, NoCreation, IInv, Shapes, OpRecord, Copies
    <3>2. Copies(m, net) \in Nat /\ Copies(m, mp2q[ops[id].coord]) \in Nat
      BY <3>1, BagCopies DEF IInv, Shapes
    <3>. QED BY <1>2, <3>1, <3>2
  <2>3. Pending(id)' => Pending(id) /\ Counts(id)' = Counts(id)
    BY <1>1, <2>1 DEF Pending, Counts
  <2>. QED BY <1>1, <2>1, <2>2, <2>3, AccountsKept DEF IInv
<1>. QED BY <1>1, <1>3 DEF Accounts

(* What it sends are copies, and deletions to itself of what it should not    *)
(* hold on its new ring.                                                      *)
StabSends(i, B) ==
    \A m \in BagToSet(B) :
        /\ m.stab /\ m.type \in {"CREATE", "DELETE"}
        /\ m.type = "DELETE" => /\ m.to = i /\ ring[i] # member[i]
                               /\ i \notin findNodes(member[i], m.key)

(* Every turn of the first loop is such a step.                               *)
LEMMA RingTurnsAreSteps ==
    ASSUME IInv, NEW i \in Node, updateRing(i) \/ stabilizationProtocol(i)
    PROVE  \E B : RingStep(i, B) /\ StabSends(i, B)
<1>1. CASE updateRing(i)
  <2>1. IsABag(EmptyBag) /\ BagToSet(EmptyBag) = {}
    BY BagEmpty
  <2>2. RingStep(i, EmptyBag)
    BY <1>1, <2>1 DEF updateRing, RingStep, coordVars, IInv, TypeOK
  <2>. QED BY <2>1, <2>2 DEF StabSends
<1>2. CASE stabilizationProtocol(i)
  <2>1. PICK neighbors \in findNeighbors(member[i], i) :
           LET ms == StabilizationMessages(i, member[i], hasMyReplicas[i], neighbors)
           IN  /\ hasMyReplicas' = [hasMyReplicas EXCEPT ![i] = neighbors]
               /\ g_transID' = g_transID + Len(ms)
               /\ recvLoop(i, SetToBag(ToSet(ms)))
    BY <1>2 DEF stabilizationProtocol
  <2>. DEFINE ms == StabilizationMessages(i, member[i], hasMyReplicas[i], neighbors)
              B == SetToBag(ToSet(ms))
  <2>2. member[i] \in SUBSET Node /\ i \in member[i]
    BY DEF IInv, TypeOK, Shapes
  <2>3. neighbors \in Seq(Node \cup {Junk}) /\ Len(neighbors) = 2
    BY <2>2, NeighborsType
  <2>4. /\ Len(ms) \in Nat
        /\ \A m \in ToSet(ms) : /\ m \in Requests /\ m.id.type = "CREATE" /\ Carries(m)
                                /\ m.id.seq \in g_transID .. g_transID + Len(ms) - 1
                                /\ m.stab /\ m.type \in {"CREATE", "DELETE"}
                                /\ m.type = "DELETE" =>
                                      m.to = i /\ i \notin findNodes(member[i], m.key)
        /\ \A m, n \in ToSet(ms) : m.id = n.id => m = n
    BY <2>2, <2>3, StabilizationSends DEF IInv
  <2>5. IsABag(B) /\ BagToSet(B) = ToSet(ms) /\ \A m \in BagToSet(B) : Copies(m, B) = 1
    BY DEF IsABag, SetToBag, BagToSet, Copies
  <2>6. /\ hasMyReplicas' = [hasMyReplicas EXCEPT ![i] = neighbors]
        /\ g_transID' = g_transID + Len(ms)
        /\ recvLoop(i, B)
    BY <2>1
  <2>. HIDE DEF ms, B
  <2>7. g_transID' \in Nat /\ g_transID' >= g_transID
    BY <2>4, <2>6 DEF IInv, TypeOK
  <2>8. \A m \in BagToSet(B) : /\ m.id.seq >= g_transID /\ m.id.seq < g_transID'
                             /\ Copies(m, B) = 1
                             /\ \A n \in BagToSet(B) : n.id = m.id => n = m
    BY <2>4, <2>5, <2>6 DEF IInv, TypeOK
  <2>9. \A m \in BagToSet(B) : m \in Requests /\ m.id.type = "CREATE" /\ Carries(m)
    BY <2>4, <2>5
  <2>10. RingStep(i, B)
    BY <1>2, <2>3, <2>5, <2>6, <2>7, <2>8, <2>9 DEF stabilizationProtocol, RingStep
  <2>11. StabSends(i, B)
    BY <1>2, <2>4, <2>5 DEF stabilizationProtocol, StabSends
  <2>. QED BY <2>10, <2>11
<1>. QED BY <1>1, <1>2

(* A turn of the first loop keeps the invariant.                              *)
LEMMA RingTurnsKeepIInv ==
    ASSUME IInv, NEW i \in Node, updateRing(i) \/ stabilizationProtocol(i)
    PROVE  IInv'
<1>1. PICK B : RingStep(i, B)
  BY RingTurnsAreSteps
<1>. QED BY <1>1, RingStepKeepsTypes, RingStepKeepsFlow, RingStepKeepsAccounts DEF IInv

-------------------------------------------------------------------------------
(* mp1Run: the clock advances.  Nothing has been received in this part of the *)
(* tick, and what is forgotten are messages to nodes that are not up.         *)
LEMMA ClockKeepsIInv ==
    ASSUME IInv, mp1Run
    PROVE  IInv'
<1>1. /\ phase = "client" /\ phase' = "ring" /\ turn' = 0
      /\ UNCHANGED <<bFailed, nodeVars, mp2q, coordVars>> /\ Up' = Up
      /\ UNCHANGED <<ring, ht, hasMyReplicas, g_transID, keyvalueMap, tally, ops>>
  BY DEF mp1Run, Up, nodeVars, coordVars
<1>2. DOMAIN tally = {} /\ \A i \in Node : BagToSet(mp2q[i]) = {}
  BY <1>1 DEF IInv, Schedule
<1>3. /\ IsABag(net') /\ BagToSet(net') = {m \in BagToSet(net) : m.to \in Up}
      /\ \A m : Copies(m, net') = IF m \in To(net, Up) THEN Copies(m, net) ELSE 0
      /\ \A m : m.to \in Up => Copies(m, net') = Copies(m, net)
  <2>1. net' = Among(net, To(net, Up)) /\ IsABag(net)
    BY DEF mp1Run, IInv, Shapes
  <2>. QED BY <2>1, BagAmong DEF To, Copies
<1>4. TypeOK'
  <2>1. downFor' \in [Node -> 0 .. DetectLast]
    <3>1. DetectLast \in Nat
      BY ClientAssumption DEF DetectLast
    <3>. QED BY <3>1 DEF IInv, TypeOK, mp1Run
  <2>2. member' \in [Node -> SUBSET Node]
    BY DEF IInv, TypeOK, mp1Run, Lingering, Detectable
  <2>3. \A m \in PendingMessages' : m \in Requests \cup Replies
    BY <1>1, <1>3 DEF IInv, TypeOK, PendingMessages
  <2>. QED BY <1>1, <2>1, <2>2, <2>3, RingAssumption DEF IInv, TypeOK
<1>5. Shapes'
  <2>1. \A i \in Node : i \in member'[i]
    BY DEF IInv, Shapes, TypeOK, mp1Run, Detectable
  <2>2. \A m \in PendingMessages' : Carries(m)
    BY <1>1, <1>3 DEF IInv, Shapes, PendingMessages
  <2>. QED BY <1>1, <1>3, <2>1, <2>2 DEF IInv, Shapes
<1>6. Schedule' /\ Issue'
  BY <1>1, <1>2 DEF IInv, Schedule, Issue
<1>7. Flow'
  <2>1. \A i \in Node : \A m \in BagToSet(mp2q'[i]) : FALSE
    BY <1>1, <1>2
  <2>2. \A m \in BagToSet(net') : Ours(m) => m.to \in Up /\ m.to > turn'
    <3>1. \A i \in Up : i > 0
      BY RingAssumption DEF Up, Node
    <3>. QED BY <1>1, <1>3, <3>1
  <2>3. AsksInFlight'
    <3>. SUFFICES ASSUME NEW m \in BagToSet(net'), IsAsk(m)
                  PROVE  /\ m.id \in DOMAIN ops /\ m = RequestOf(m.id, m.to) /\ m.to \in ops[m.id].asked
                         /\ net'[m] = 1 /\ m.to \in Up /\ m.to > turn'
                         /\ m.id \notin DOMAIN tally /\ ops[m.id].told = <<>>
      BY <1>1, <1>2, <1>3, NodeFacts DEF AsksInFlight, RequestOf, Up
    <3>1. m \in BagToSet(net) /\ Copies(m, net') = Copies(m, net)
      BY <1>3
    <3>. QED BY <2>2, <3>1 DEF IInv, Flow, AsksInFlight, Copies, Ours
  <2>4. AnswersInFlight'
    <3>. SUFFICES ASSUME NEW m \in BagToSet(net'), IsAnswer(m)
                  PROVE  /\ m.id \in DOMAIN ops /\ m.to = ops[m.id].coord
                         /\ m.to \in Up /\ m.to > turn'
                         /\ m.id \notin DOMAIN tally /\ ops[m.id].told = <<>>
      BY <1>1 DEF AnswersInFlight
    <3>. QED BY <1>3, <2>2 DEF IInv, Flow, AnswersInFlight, Ours
  <2>5. Stages'
    BY <1>3, <2>1 DEF IInv, Flow, Stages
  <2>6. Verdicts'
    BY <1>1, <1>2 DEF IInv, Flow, Verdicts, NoCreation
  <2>. QED BY <1>1, <1>2, <2>1, <2>3, <2>4, <2>5, <2>6 DEF Flow, AsksReceived, AnswersReceived, Counting
<1>8. Accounts'
  <2>1. NoCreation' = NoCreation
    BY <1>1 DEF NoCreation
  <2>2. ASSUME NEW id \in NoCreation
        PROVE  \E R \in SUBSET ops'[id].asked :
                  \E f \in [R -> AnswersOf(id)'], counted \in SUBSET R : Account(id, f, counted)'
    <3>. DEFINE coord == ops[id].coord
    <3>1. coord \in Node /\ BagToSet(mp2q[coord]) = {}
      BY <1>2 DEF NoCreation, IInv, Shapes, OpRecord
    <3>2. \A m \in PendingMessages' : m.id = id => m \in PendingMessages
      BY <1>1, <1>3 DEF PendingMessages
    <3>3. Pending(id)' => Pending(id) /\ Counts(id)' = Counts(id)
      BY <1>1, <3>2 DEF Pending, Counts
    <3>4. CASE coord \in Up
      <4>1. \A m \in AnswersOf(id) :
               Copies(m, net') + Copies(m, mp2q'[coord]) = Copies(m, net) + Copies(m, mp2q[coord])
        BY <1>1, <1>3, <3>4 DEF AnswersOf
      <4>. QED BY <1>1, <2>1, <3>2, <3>3, <4>1, AccountsKept DEF IInv
    <3>5. CASE coord \notin Up
      <4>1. PICK R \in SUBSET ops[id].asked :
               \E f \in [R -> AnswersOf(id)], counted \in SUBSET R : Account(id, f, counted)
        BY DEF IInv, Accounts
      <4>2. PICK f \in [R -> AnswersOf(id)], counted \in SUBSET R : Account(id, f, counted)
        BY <4>1
      <4>3. AnswersOf(id)' = AnswersOf(id)
        BY <1>1 DEF AnswersOf
      <4>4. ASSUME NEW m \in AnswersOf(id)
            PROVE  Copies(m, net') = 0 /\ Copies(m, mp2q'[coord]) = 0 /\ Copies(m, mp2q[coord]) = 0
        BY <1>1, <1>3, <3>1, <3>5 DEF AnswersOf, To, Copies
      <4>5. ASSUME Pending(id)' PROVE counted = R
        <5>1. PICK m \in BagToSet(net) : m.id = id /\ m.to \in Up
          BY <1>1, <1>2, <1>3, <4>5 DEF Pending, PendingMessages
        <5>2. Ours(m) /\ ~IsAnswer(m)
          BY <3>5, <5>1, PendingKinds DEF IInv, Flow, AnswersInFlight, PendingMessages, NoCreation, Ours
        <5>3. IsAsk(m)
          BY <5>2 DEF Ours
        <5>4. \A x \in AnswersOf(id) : Copies(x, net) = 0
          BY <5>1, <5>3 DEF IInv, Flow, Stages, AnswersOf, IsAnswer, IsAsk, Copies, Replies
        <5>5. ASSUME NEW x \in R \ counted PROVE FALSE
          <6>1. f[x] \in AnswersOf(id) /\ x \in {y \in DOMAIN f \ counted : f[y] = f[x]}
            BY <5>5
          <6>2. Cardinality({y \in DOMAIN f \ counted : f[y] = f[x]}) = 0
            BY <4>2, <4>4, <5>4, <6>1 DEF Account
          <6>3. {y \in DOMAIN f \ counted : f[y] = f[x]} \in SUBSET Node
            BY DEF NoCreation, IInv, Shapes, OpRecord
          <6>. QED BY <6>1, <6>2, <6>3, NodeFacts, FS_EmptySet
        <5>. QED BY <5>5
      <4>6. Account(id, f, R)'
        <5>1. R \subseteq DOMAIN f /\ ops'[id].did \subseteq DOMAIN f
          BY <1>1, <4>2 DEF Account
        <5>2. \A x \in DOMAIN f : Success(f[x]) <=> x \in ops'[id].did
          BY <1>1, <4>2 DEF Account
        <5>3. \A m \in PendingMessages' : IsAsk(m) /\ m.id = id => m.to \notin DOMAIN f
          BY <3>2, <4>2 DEF Account
        <5>4. \A m \in AnswersOf(id) :
                 Copies(m, net') + Copies(m, mp2q'[ops'[id].coord])
                    = Cardinality({x \in DOMAIN f \ R : f[x] = m})
          <6>1. \A m : {x \in DOMAIN f \ R : f[x] = m} = {}
            OBVIOUS
          <6>. QED BY <1>1, <4>4, <6>1, FS_EmptySet
        <5>5. Pending(id)' => /\ Counts(id)'.replies = Cardinality(R)
                              /\ Counts(id)'.successes = Cardinality(R \cap ops'[id].did)
          BY <1>1, <3>3, <4>2, <4>5 DEF Account
        <5>. QED BY <4>3, <5>1, <5>2, <5>3, <5>4, <5>5 DEF Account
      <4>. QED BY <1>1, <4>3, <4>6
    <3>. QED BY <3>4, <3>5
  <2>. QED BY <2>1, <2>2 DEF Accounts
<1>. QED BY <1>4, <1>5, <1>6, <1>7, <1>8 DEF IInv

(* The two loops end: everything has been received, or handled.               *)
LEMMA LoopEndKeepsIInv ==
    ASSUME IInv, loopEnds
    PROVE  IInv'
<1>1. /\ turn' = 0 /\ Up' = Up
      /\ UNCHANGED <<bFailed, downFor, member, ring, ht, hasMyReplicas, net, mp2q,
                     g_transID, keyvalueMap, tally, ops>>
  BY DEF loopEnds, Up, failVars, nodeVars, netVars, coordVars
<1>2. /\ PendingMessages' = PendingMessages /\ NoCreation' = NoCreation
      /\ phase' \in {"check", "client"} /\ (phase' = "check" => phase = "ring")
      /\ phase' = "client" => phase = "check"
  BY <1>1 DEF PendingMessages, NoCreation, loopEnds
<1>3. DOMAIN tally = {}
  <2>1. CASE phase = "ring"
    BY <2>1 DEF IInv, Schedule
  <2>2. CASE phase = "check"
    BY <2>2 DEF IInv, Schedule, loopEnds, CheckDue, Up
  <2>. QED BY <2>1, <2>2 DEF loopEnds
<1>4. phase' = "client" => \A i \in Node : BagToSet(mp2q[i]) = {}
  <2>1. ASSUME phase' = "client", NEW i \in Node PROVE BagToSet(mp2q[i]) = {}
    <3>1. i \in Up => mp2q[i] = EmptyBag
      BY <2>1 DEF loopEnds, CheckDue
    <3>. QED BY <3>1, BagEmpty DEF IInv, Schedule
  <2>. QED BY <2>1
<1>5. phase' = "check" => \A m \in BagToSet(net) : ~IsAsk(m)
  <2>1. ASSUME phase' = "check", NEW m \in BagToSet(net), IsAsk(m) PROVE FALSE
    <3>1. phase = "ring" /\ \A j \in turn + 1 .. EN_GPSZ : ~RingDue(j)
      BY <2>1 DEF loopEnds
    <3>2. m.to \in Up /\ m.to > turn
      BY <2>1, <3>1 DEF IInv, Flow, AsksInFlight
    <3>3. m.to \in turn + 1 .. EN_GPSZ
      BY <3>2, RingAssumption DEF Up, Node, IInv, TypeOK
    <3>4. To(net, {m.to}) = {}
      BY <3>1, <3>2, <3>3 DEF RingDue
    <3>. QED BY <3>4 DEF To
  <2>. QED BY <2>1
<1>6. TypeOK' /\ Shapes' /\ Issue'
  <2>1. EN_GPSZ \in Nat
    BY RingAssumption
  <2>2. TypeOK'
    BY <1>1, <1>2, <2>1 DEF IInv, TypeOK
  <2>. QED BY <1>1, <1>2, <2>2 DEF IInv, Shapes, Issue
<1>7. Schedule'
  BY <1>1, <1>2, <1>3, <1>4 DEF IInv, Schedule
<1>8. Flow'
  <2>1. AsksInFlight'
    BY <1>1, <1>2, <1>5 DEF IInv, Flow, AsksInFlight, RequestOf
  <2>2. AsksReceived' /\ AnswersInFlight' /\ AnswersReceived'
    BY <1>1, <1>2 DEF IInv, Flow, AsksReceived, AnswersInFlight, AnswersReceived, RequestOf
  <2>3. Stages'
    BY <1>1, <1>2 DEF IInv, Flow, Stages
  <2>4. Counting' /\ Verdicts'
    BY <1>1, <1>2, <1>3 DEF IInv, Flow, Counting, Verdicts
  <2>. QED BY <2>1, <2>2, <2>3, <2>4 DEF Flow
<1>9. Accounts'
  <2>1. ASSUME NEW id \in NoCreation
        PROVE  \E R \in SUBSET ops'[id].asked :
                  \E f \in [R -> AnswersOf(id)'], counted \in SUBSET R : Account(id, f, counted)'
    <3>1. Pending(id)' => Pending(id) /\ Counts(id)' = Counts(id)
      BY <1>1, <1>2 DEF Pending, Counts
    <3>. QED BY <1>1, <1>2, <3>1, AccountsKept DEF IInv
  <2>. QED BY <1>1, <1>2, <2>1 DEF Accounts
<1>. QED BY <1>6, <1>7, <1>8, <1>9 DEF IInv

(* A node fails.                                                              *)
LEMMA FailKeepsIInv ==
    ASSUME IInv, NEW i \in Node, fail(i)
    PROVE  IInv'
<1>1. /\ phase = "client" /\ phase' = "client"
      /\ UNCHANGED <<turn, downFor, member, ring, ht, hasMyReplicas, net, mp2q,
                     g_transID, keyvalueMap, tally, ops>>
      /\ PendingMessages' = PendingMessages /\ NoCreation' = NoCreation
  BY DEF fail, nodeVars, netVars, coordVars, PendingMessages, NoCreation
<1>2. TypeOK' /\ Shapes' /\ Issue'
  <2>1. bFailed' \in [Node -> BOOLEAN]
    BY DEF fail, IInv, TypeOK
  <2>. QED BY <1>1, <2>1 DEF IInv, TypeOK, Shapes, Issue
<1>3. Schedule'
  BY <1>1 DEF IInv, Schedule
<1>4. Flow'
  <2>1. AsksInFlight' /\ AsksReceived' /\ AnswersInFlight' /\ AnswersReceived'
    BY <1>1 DEF IInv, Flow, AsksInFlight, AsksReceived, AnswersInFlight, AnswersReceived, RequestOf
  <2>2. Stages' /\ Counting' /\ Verdicts'
    BY <1>1 DEF IInv, Flow, Stages, Counting, Verdicts
  <2>. QED BY <2>1, <2>2 DEF Flow
<1>5. Accounts'
  <2>1. ASSUME NEW id \in NoCreation
        PROVE  \E R \in SUBSET ops'[id].asked :
                  \E f \in [R -> AnswersOf(id)'], counted \in SUBSET R : Account(id, f, counted)'
    <3>1. Pending(id)' => Pending(id) /\ Counts(id)' = Counts(id)
      BY <1>1 DEF Pending, Counts
    <3>. QED BY <1>1, <3>1, AccountsKept DEF IInv
  <2>. QED BY <1>1, <2>1 DEF Accounts
<1>. QED BY <1>2, <1>3, <1>4, <1>5 DEF IInv

-------------------------------------------------------------------------------
(* The driver issues an operation: its id is new.                             *)
LEMMA ClientKeepsIInv ==
    ASSUME IInv, NEW c \in Node, NEW type \in ClientOps, NEW k \in Key,
           NEW v \in Value \cup {NoValue}, client(c, type, k, v)
    PROVE  IInv'
<1>. PICK id : id = CRUDId(type, g_transID + 1)
  OBVIOUS
<1>. DEFINE replicas == findNodes(ring[c], k)
            record == [key |-> k, value |-> v, coord |-> c,
                       asked |-> replicas, did |-> {}, told |-> <<>>]
<1>1. /\ phase = "client" /\ phase' = "client" /\ c \in Up /\ Up' = Up
      /\ UNCHANGED <<turn, bFailed, downFor, member, ring, ht, hasMyReplicas, mp2q, tally>>
      /\ g_transID' = g_transID + 1
  BY DEF client, failVars, nodeVars, Up
<1>2. PICK stab \in IF type = "CREATE" THEN UnsetReplica ELSE {FALSE} :
         net' = net (+) SetToBag({[type |-> type, id |-> id, from |-> c, to |-> x,
                                   key |-> k, value |-> v, stab |-> stab] : x \in replicas})
  BY DEF client
<1>. DEFINE request(x) == [type |-> type, id |-> id, from |-> c, to |-> x,
                           key |-> k, value |-> v, stab |-> stab]
            sent == {request(x) : x \in replicas}
<1>3. /\ DOMAIN tally = {} /\ \A i \in Node : BagToSet(mp2q[i]) = {}
      /\ PendingMessages = BagToSet(net)
  BY <1>1 DEF IInv, Schedule, PendingMessages
<1>4. /\ type \in {"CREATE", "READ", "UPDATE", "DELETE"} /\ stab \in BOOLEAN
      /\ type # "CREATE" => stab = FALSE
  BY ClientAssumption
<1>5. replicas \subseteq Node /\ Cardinality(replicas) <= expectedReplies
  BY ReplicasOnRing DEF IInv, TypeOK
<1>6. id \in Ids /\ id.type = type /\ id.seq = g_transID + 1
  BY <1>4 DEF IInv, TypeOK, CRUDId, Ids
<1>7. id \notin DOMAIN ops
  BY <1>6 DEF IInv, TypeOK, Issue, Ids
<1>8. /\ DOMAIN ops' = DOMAIN ops \cup {id} /\ ops'[id] = record
      /\ \A x \in DOMAIN ops : ops'[x] = ops[x]
      /\ DOMAIN keyvalueMap' = DOMAIN keyvalueMap \cup {id}
      /\ keyvalueMap'[id].value = v
      /\ \A x \in DOMAIN keyvalueMap : x # id => keyvalueMap'[x] = keyvalueMap[x]
  BY <1>7 DEF client, Put
<1>9. /\ IsABag(net') /\ BagToSet(net') = BagToSet(net) \cup sent
      /\ \A m : Copies(m, net') = Copies(m, net) + IF m \in sent THEN 1 ELSE 0
  BY <1>2, BagPut DEF IInv, Shapes
<1>10. \A m \in sent : /\ m \in Requests /\ m.type = type /\ m.id = id /\ m.to \in replicas
                       /\ m = request(m.to)
                       /\ ~IsAnswer(m) /\ (IsAsk(m) => type # "CREATE") /\ Carries(m)
  <2>. SUFFICES ASSUME NEW x \in replicas
                PROVE  /\ request(x) \in Requests
                       /\ ~IsAnswer(request(x)) /\ (IsAsk(request(x)) => type # "CREATE")
                       /\ Carries(request(x))
    OBVIOUS
  <2>1. Carries(request(x))
    BY DEF client, Carries
  <2>. QED BY <1>4, <1>5, <1>6, <2>1 DEF Requests, IsAnswer, IsAsk
<1>. HIDE DEF sent, request, replicas
<1>11. \A m \in BagToSet(net) : Ours(m) => m.id # id /\ m.id \in DOMAIN ops
  BY <1>7 DEF IInv, Flow, AsksInFlight, AnswersInFlight, Ours
<1>12. \A m \in BagToSet(net') : IsAnswer(m) => m \in BagToSet(net)
  BY <1>9, <1>10
<1>13. TypeOK'
  <2>1. \A m \in PendingMessages' : m \in Requests \cup Replies
    BY <1>1, <1>3, <1>9, <1>10 DEF IInv, TypeOK, PendingMessages
  <2>2. DOMAIN keyvalueMap' \subseteq DOMAIN ops' /\ DOMAIN ops' \subseteq Ids
    BY <1>6, <1>8 DEF IInv, TypeOK
  <2>3. g_transID' \in Nat
    BY <1>1 DEF IInv, TypeOK
  <2>. QED BY <1>1, <2>1, <2>2, <2>3 DEF IInv, TypeOK
<1>14. Shapes'
  <2>1. record \in OpRecord
    BY <1>5 DEF OpRecord
  <2>2. \A x \in DOMAIN ops' : ops'[x] \in OpRecord
    BY <1>8, <2>1 DEF IInv, Shapes
  <2>3. \A x \in DOMAIN keyvalueMap' : keyvalueMap'[x].value \in Value \cup {NoValue}
    BY <1>8 DEF IInv, Shapes
  <2>4. \A m \in PendingMessages' : Carries(m)
    BY <1>1, <1>3, <1>9, <1>10 DEF IInv, Shapes, PendingMessages
  <2>. QED BY <1>1, <1>9, <2>2, <2>3, <2>4 DEF IInv, Shapes
<1>15. Schedule' /\ Issue'
  <2>1. Schedule'
    BY <1>1, <1>3 DEF Schedule
  <2>2. \A x \in DOMAIN ops : x.seq <= g_transID + 1
    BY DEF IInv, Issue, TypeOK, Ids
  <2>3. g_transID + 1 <= g_transID + 1
    BY DEF IInv, TypeOK
  <2>4. \A x \in DOMAIN ops' : x.seq <= g_transID' /\ Cardinality(ops'[x].asked) <= expectedReplies
    BY <1>1, <1>5, <1>6, <1>8, <2>2, <2>3 DEF IInv, Issue
  <2>. QED BY <2>1, <2>4 DEF Issue
<1>16. Flow'
  <2>1. AsksInFlight'
    <3>. SUFFICES ASSUME NEW m \in BagToSet(net'), IsAsk(m)
                  PROVE  /\ m.id \in DOMAIN ops' /\ m = RequestOf(m.id, m.to)'
                         /\ m.to \in ops'[m.id].asked
                         /\ net'[m] = 1 /\ ops'[m.id].told = <<>>
                         /\ m \notin BagToSet(mp2q[m.to])
      BY <1>1, <1>3 DEF AsksInFlight
    <3>1. CASE m \in sent
      <4>1. m.to \in Node /\ m = RequestOf(m.id, m.to)'
        BY <1>4, <1>5, <1>6, <1>8, <1>10, <3>1 DEF RequestOf, request
      <4>2. m \notin BagToSet(net)
        BY <1>10, <1>11, <3>1 DEF Ours
      <4>3. net'[m] = 1
        BY <1>9, <3>1, <4>2 DEF Copies
      <4>4. m.id = id /\ m.to \in replicas
        BY <1>10, <3>1
      <4>5. id \in DOMAIN ops' /\ ops'[id].asked = replicas /\ ops'[id].told = <<>>
        BY <1>8
      <4>6. m \notin BagToSet(mp2q[m.to])
        BY <1>3, <4>1
      <4>. QED BY <4>1, <4>3, <4>4, <4>5, <4>6
    <3>2. CASE m \notin sent
      <4>1. m \in BagToSet(net) /\ m.id \in DOMAIN ops
        BY <1>9, <1>11, <3>2 DEF Ours
      <4>2. Copies(m, net) \in Nat /\ Copies(m, net') = Copies(m, net)
        BY <1>9, <3>2, BagCopies DEF IInv, Shapes
      <4>3. net'[m] = net[m]
        BY <4>1, <4>2 DEF Copies
      <4>. QED BY <1>8, <4>1, <4>3 DEF IInv, Flow, AsksInFlight, RequestOf
    <3>. QED BY <3>1, <3>2
  <2>2. AnswersInFlight'
    BY <1>1, <1>8, <1>12 DEF IInv, Flow, AnswersInFlight
  <2>3. Stages'
    <3>1. \A m \in BagToSet(net'), n \in BagToSet(net') : IsAsk(m) /\ IsAnswer(n) => m.id # n.id
      BY <1>9, <1>10, <1>11, <1>12 DEF IInv, Flow, Stages, Ours
    <3>2. \A i \in Node : BagToSet(mp2q'[i]) = {}
      BY <1>1, <1>3
    <3>. QED BY <3>1, <3>2 DEF Stages
  <2>4. AsksReceived' /\ AnswersReceived' /\ Counting'
    BY <1>1, <1>3 DEF AsksReceived, AnswersReceived, Counting
  <2>5. Verdicts'
    <3>1. \A x \in NoCreation' : ops'[x].told # <<>> => x \in NoCreation /\ x # id
      BY <1>7, <1>8 DEF NoCreation
    <3>. QED BY <1>1, <1>3, <1>8, <3>1 DEF IInv, Flow, Verdicts, NoCreation
  <2>. QED BY <2>1, <2>2, <2>3, <2>4, <2>5 DEF Flow
<1>17. Accounts'
  <2>1. ASSUME NEW x \in NoCreation
        PROVE  \E R \in SUBSET ops'[x].asked :
                  \E f \in [R -> AnswersOf(x)'], counted \in SUBSET R : Account(x, f, counted)'
    <3>1. x \in DOMAIN ops /\ x # id /\ x \in NoCreation'
      BY <1>7, <1>8 DEF NoCreation
    <3>2. \A m \in PendingMessages' : m.id = x => m \in PendingMessages
      BY <1>1, <1>3, <1>9, <1>10, <3>1 DEF PendingMessages
    <3>3. Pending(x)' => Pending(x) /\ Counts(x)' = Counts(x)
      BY <1>1, <3>2 DEF Pending, Counts
    <3>4. ASSUME NEW m \in AnswersOf(x)
          PROVE  Copies(m, net') + Copies(m, mp2q'[ops[x].coord])
                     = Copies(m, net) + Copies(m, mp2q[ops[x].coord])
      <4>1. m \notin sent /\ Copies(m, net) \in Nat
        BY <1>10, <3>1, BagCopies DEF AnswersOf, IInv, Shapes
      <4>2. Copies(m, net') = Copies(m, net)
        BY <1>9, <4>1
      <4>. QED BY <1>1, <4>2
    <3>. QED BY <1>8, <3>1, <3>2, <3>3, <3>4, AccountsKept DEF IInv
  <2>2. ASSUME id \in NoCreation'
        PROVE  \E R \in SUBSET ops'[id].asked :
                  \E f \in [R -> AnswersOf(id)'], counted \in SUBSET R : Account(id, f, counted)'
    <3>. DEFINE f == [y \in {} |-> 0]
    <3>1. type # "CREATE"
      BY <1>6, <2>2 DEF NoCreation
    <3>2. f \in [{} -> AnswersOf(id)'] /\ DOMAIN f = {} /\ Cardinality({}) = 0
      BY FS_EmptySet
    <3>3. ASSUME NEW m \in AnswersOf(id)'
          PROVE  Copies(m, net') + Copies(m, mp2q'[ops'[id].coord])
                    = Cardinality({y \in DOMAIN f \ {} : f[y] = m})
      <4>1. IsAnswer(m) /\ m.id = id
        BY <1>6, <3>1 DEF AnswersOf, IsAnswer, Replies
      <4>2. Copies(m, net') = 0
        BY <1>11, <1>12, <4>1 DEF Ours, Copies
      <4>3. Copies(m, mp2q'[ops'[id].coord]) = 0
        BY <1>1, <1>3, <1>8 DEF Copies
      <4>4. {y \in DOMAIN f \ {} : f[y] = m} = {}
        OBVIOUS
      <4>. QED BY <3>2, <4>2, <4>3, <4>4
    <3>4. Counts(id)' = [replies |-> 0, successes |-> 0]
      BY <1>1, <1>3 DEF Counts
    <3>. HIDE DEF f
    <3>5. Account(id, f, {})'
      <4>1. {} \cap ops'[id].did = {}
        OBVIOUS
      <4>. QED BY <1>8, <3>2, <3>3, <3>4, <4>1 DEF Account
    <3>. QED BY <3>2, <3>5
  <2>3. \A x \in NoCreation' : x \in NoCreation \/ x = id
    BY <1>8 DEF NoCreation
  <2>. QED BY <2>1, <2>2, <2>3 DEF Accounts
<1>. QED BY <1>13, <1>14, <1>15, <1>16, <1>17 DEF IInv

-------------------------------------------------------------------------------
(* checkMessages.                                                             *)

(* Turns go from the last node to the first: a node whose turn it is handles  *)
(* its whole queue before the turn goes on, and nothing is left behind.  So   *)
(* whoever has counted replies has the turn.                                  *)
LEMMA CheckTurns ==
    ASSUME IInv, NEW i \in Node, CheckTurn(i)
    PROVE  /\ phase = "check" /\ phase' = "check" /\ turn' = i /\ i \in Up
           /\ \A j \in Node : j > i => BagToSet(mp2q[j]) = {}
           /\ DOMAIN tally # {} => i = turn
           /\ \A m \in BagToSet(net) : ~IsAsk(m)
<1>1. phase = "check" /\ phase' = "check" /\ turn' = i /\ i \in Up
  BY DEF CheckTurn, CheckDue
<1>2. EN_GPSZ \in Nat /\ turn \in 0 .. EN_GPSZ
  BY RingAssumption DEF IInv, TypeOK
<1>3. ASSUME NEW j \in Node, j > i
      PROVE  ~CheckDue(j)
  BY <1>2, <1>3 DEF CheckTurn, Node
<1>4. ASSUME NEW j \in Node, j > i
      PROVE  BagToSet(mp2q[j]) = {}
  <2>1. j \in Up => mp2q[j] = EmptyBag
    BY <1>3, <1>4 DEF CheckDue
  <2>. QED BY <2>1, BagEmpty DEF IInv, Schedule
<1>5. ASSUME DOMAIN tally # {}
      PROVE  i = turn
  <2>1. turn \in Up /\ turn \in Node /\ turn # 0 /\ CheckDue(turn)
    BY <1>1, <1>5, NodeFacts DEF IInv, Schedule, CheckDue, Up
  <2>2. ~ (turn > i)
    BY <1>3, <2>1
  <2>3. ASSUME i > turn PROVE FALSE
    <3>1. BagToSet(mp2q[i]) = {}
      BY <1>1, <2>1, <2>3 DEF IInv, Schedule
    <3>2. mp2q[i] = EmptyBag
      BY <3>1, BagEmpty DEF IInv, Shapes
    <3>. QED BY <1>2, <2>3, <3>2 DEF CheckTurn, CheckDue
  <2>. QED BY <1>2, <2>2, <2>3 DEF Node
<1>6. \A m \in BagToSet(net) : ~IsAsk(m)
  BY <1>1 DEF IInv, Flow, AsksInFlight
<1>. QED BY <1>1, <1>4, <1>5, <1>6

(* A message is popped.                                                       *)
LEMMA Popped ==
    ASSUME IInv, NEW i \in Node, NEW m, NEW type, Pops(i, m, type)
    PROVE  /\ m \in BagToSet(mp2q[i]) /\ m.to = i /\ m.type = type /\ m \in PendingMessages
           /\ DOMAIN mp2q' = Node /\ \A j \in Node : IsABag(mp2q'[j])
           /\ \A j \in Node : BagToSet(mp2q'[j]) \subseteq BagToSet(mp2q[j])
           /\ \A j \in Node \ {i} : mp2q'[j] = mp2q[j]
           /\ \A x : Copies(x, mp2q'[i]) = Copies(x, mp2q[i]) - IF x = m THEN 1 ELSE 0
<1>1. m \in BagToSet(mp2q[i]) /\ m.to = i /\ m.type = type /\ m \in PendingMessages
  BY DEF Pops, IInv, Shapes, PendingMessages
<1>2. mp2q' = [mp2q EXCEPT ![i] = @ (-) SetToBag({m})] /\ IsABag(mp2q[i])
  BY DEF Pops, IInv, Shapes
<1>3. /\ DOMAIN mp2q' = Node /\ mp2q'[i] = mp2q[i] (-) SetToBag({m})
      /\ \A j \in Node \ {i} : mp2q'[j] = mp2q[j]
  BY <1>2 DEF IInv, Shapes
<1>4. /\ IsABag(mp2q'[i]) /\ BagToSet(mp2q'[i]) \subseteq BagToSet(mp2q[i])
      /\ \A x : Copies(x, mp2q'[i]) = Copies(x, mp2q[i]) - IF x = m THEN 1 ELSE 0
  BY <1>1, <1>2, <1>3, BagTake
<1>. QED BY <1>1, <1>3, <1>4 DEF IInv, Shapes

(* A turn of the second loop keeps the schedule, whatever it sends, as long   *)
(* as it puts nothing into a queue.                                           *)
LEMMA CheckKeepsSchedule ==
    ASSUME IInv, NEW i \in Node, CheckTurn(i), bFailed' = bFailed,
           \A j \in Node : BagToSet(mp2q'[j]) \subseteq BagToSet(mp2q[j])
    PROVE  Schedule'
<1>1. Up' = Up
  BY DEF Up
<1>. QED BY <1>1, CheckTurns DEF IInv, Schedule

-------------------------------------------------------------------------------
(* A replica handles a request.                                               *)

(* What the four handlers have in common: the request is popped, answered     *)
(* truly or not at all (reads and updates always are), and i is noted as one  *)
(* that has done what was asked.                                              *)
Serves(i, m, answer) ==
    /\ Pops(i, m, m.type) /\ m.type \in {"CREATE", "READ", "UPDATE", "DELETE"}
    /\ \/ answer = {}
       \/ \E a \in Replies : answer = {a} /\ a.id = m.id /\ a.to = m.from
    /\ m.type \in {"READ", "UPDATE"} => answer # {}
    /\ net' = net (+) SetToBag(answer)
    /\ ops' = IF (\E a \in answer : Success(a)) /\ m.type = m.id.type
              THEN [ops EXCEPT ![m.id].did = @ \cup {i}] ELSE ops
    /\ DOMAIN ht' = Node
    /\ \A j \in Node : DOMAIN ht'[j] \subseteq Key /\ \A k \in DOMAIN ht'[j] : ht'[j][k] \in Value
    /\ UNCHANGED <<failVars, member, ring, hasMyReplicas, g_transID, keyvalueMap, tally>>

(* Nothing goes from its table but the key that is deleted; a creation puts   *)
(* its key there, and is answered unless it is for the stabilization.         *)
Stores(i, m, answer) ==
    /\ \A j \in Node \ {i} : ht'[j] = ht[j]
    /\ \A k \in DOMAIN ht[i] : k \in DOMAIN ht'[i] \/ (m.type = "DELETE" /\ k = m.key)
    /\ m.type = "CREATE" => /\ answer # {} => ~m.stab
                            /\ (\E a \in answer : Success(a)) =>
                                  m.key \notin DOMAIN ht[i] /\ m.key \in DOMAIN ht'[i]
    /\ m.type # "READ" => \A a \in answer : a.type = "REPLY"

(* A handler whose answer is a success when it says so is such a step.        *)
LEMMA ServeStep ==
    ASSUME IInv, NEW i \in Node, NEW m, NEW ok \in BOOLEAN, NEW new, NEW answer,
           Pops(i, m, m.type), m.type \in {"CREATE", "READ", "UPDATE", "DELETE"},
           \/ answer = {}
           \/ \E a \in Replies : /\ answer = {a} /\ a.id = m.id /\ a.to = m.from
                                 /\ Success(a) <=> ok,
           m.type \in {"READ", "UPDATE"} => answer # {},
           Serve(i, m, ok, new, answer),
           ok => DOMAIN new \subseteq Key /\ \A k \in DOMAIN new : new[k] \in Value
    PROVE  Serves(i, m, answer)
<1>1. (ok /\ answer # {}) <=> \E a \in answer : Success(a)
  OBVIOUS
<1>. QED BY <1>1 DEF Serve, Serves, IInv, TypeOK, Shapes

(* The request is popped.                                                     *)
LEMMA ServePopped ==
    ASSUME IInv, NEW i \in Node, NEW m, NEW answer, Serves(i, m, answer)
    PROVE  /\ m \in BagToSet(mp2q[i]) /\ m.to = i /\ m \in PendingMessages
           /\ DOMAIN mp2q' = Node /\ \A j \in Node : IsABag(mp2q'[j])
           /\ \A j \in Node : BagToSet(mp2q'[j]) \subseteq BagToSet(mp2q[j])
           /\ \A j \in Node \ {i} : mp2q'[j] = mp2q[j]
           /\ \A x : Copies(x, mp2q'[i]) = Copies(x, mp2q[i]) - IF x = m THEN 1 ELSE 0
<1>1. Pops(i, m, m.type)
  BY DEF Serves
<1>. QED BY <1>1, Popped

(* The four handlers of a replica are such steps.                             *)
LEMMA HandlersServe ==
    ASSUME IInv, NEW i \in Node,
           createKeyValue(i) \/ readKey(i) \/ updateKeyValue(i) \/ deletekey(i)
    PROVE  \E m, answer : Serves(i, m, answer) /\ Stores(i, m, answer)
<1>1. ASSUME NEW m \in BagToSet(mp2q[i]), m.type \in {"CREATE", "READ", "UPDATE", "DELETE"}
      PROVE  m \in Requests /\ m.id \in Ids /\ m.from \in Node /\ m.key \in Key
  <2>1. m \in PendingMessages
    BY DEF PendingMessages
  <2>2. m \in Requests \/ m \in Replies
    BY <2>1 DEF IInv, TypeOK
  <2>. QED BY <1>1, <2>2 DEF Requests, Replies
<1>2. /\ \A k \in DOMAIN ht[i] : ht[i][k] \in Value
      /\ DOMAIN ht[i] \subseteq Key
  BY DEF IInv, TypeOK
<1>3. ASSUME NEW m \in BagToSet(mp2q[i]), NEW ok \in BOOLEAN,
             m.type \in {"CREATE", "READ", "UPDATE", "DELETE"}
      PROVE  /\ Reply(m, ok) \in Replies
             /\ Reply(m, ok).id = m.id /\ Reply(m, ok).to = m.from
             /\ Success(Reply(m, ok)) <=> ok
  BY <1>1, <1>3 DEF Reply, Replies, Success
<1>4. ASSUME NEW m \in BagToSet(mp2q[i]), m.type \in {"CREATE", "UPDATE"}
      PROVE  /\ DOMAIN Put(ht[i], m.key, m.value) \subseteq Key
             /\ \A k \in DOMAIN Put(ht[i], m.key, m.value) : Put(ht[i], m.key, m.value)[k] \in Value
  <2>1. m.value \in Value
    BY <1>4 DEF IInv, Shapes, Carries, PendingMessages
  <2>. QED BY <1>1, <1>2, <1>4, <2>1 DEF Put
<1>5. CASE createKeyValue(i)
  <2>1. PICK m \in BagToSet(mp2q[i]) :
          /\ Pops(i, m, "CREATE")
          /\ Serve(i, m, m.key \notin DOMAIN ht[i], Put(ht[i], m.key, m.value),
                   IF m.stab THEN {} ELSE {Reply(m, m.key \notin DOMAIN ht[i])})
    BY <1>5 DEF createKeyValue
  <2>. DEFINE ok == m.key \notin DOMAIN ht[i]
              answer == IF m.stab THEN {} ELSE {Reply(m, ok)}
  <2>2. m.type = "CREATE" /\ ok \in BOOLEAN
    BY <2>1 DEF Pops
  <2>3. answer = {} \/ (answer = {Reply(m, ok)} /\ Reply(m, ok) \in Replies)
    BY <1>3, <2>2
  <2>4. Serves(i, m, answer)
    BY <1>3, <1>4, <2>1, <2>2, <2>3, ServeStep
  <2>5. answer # {} => ~m.stab /\ answer = {Reply(m, ok)} /\ (Success(Reply(m, ok)) <=> ok)
    BY <1>3, <2>2
  <2>6. DOMAIN ht = Node /\ ht' = IF ok THEN [ht EXCEPT ![i] = Put(ht[i], m.key, m.value)] ELSE ht
    BY <2>1 DEF Serve, IInv, Shapes
  <2>7. \A k \in DOMAIN ht[i] \cup {m.key} : k \in DOMAIN Put(ht[i], m.key, m.value)
    BY DEF Put
  <2>8. Reply(m, ok).type = "REPLY"
    BY DEF Reply
  <2>. HIDE DEF answer
  <2>9. Stores(i, m, answer)
    BY <2>2, <2>5, <2>6, <2>7, <2>8 DEF Stores
  <2>. QED BY <2>4, <2>9
<1>6. CASE readKey(i)
  <2>1. PICK m \in BagToSet(mp2q[i]) :
          /\ Pops(i, m, "READ")
          /\ LET ok == m.key \in DOMAIN ht[i]
             IN  Serve(i, m, ok, ht[i],
                       {[type |-> "READREPLY", id |-> m.id, to |-> m.from,
                         value |-> IF ok THEN ht[i][m.key] ELSE NoValue]})
    BY <1>6 DEF readKey
  <2>. DEFINE ok == m.key \in DOMAIN ht[i]
              a == [type |-> "READREPLY", id |-> m.id, to |-> m.from,
                    value |-> IF ok THEN ht[i][m.key] ELSE NoValue]
  <2>2. m.type = "READ" /\ ok \in BOOLEAN
    BY <2>1 DEF Pops
  <2>3. a \in Replies /\ a.id = m.id /\ a.to = m.from /\ (Success(a) <=> ok)
    BY <1>1, <1>2, <2>2, ClientAssumption DEF Replies, Success
  <2>4. Serve(i, m, ok, ht[i], {a})
    BY <2>1
  <2>. HIDE DEF ok, a
  <2>5. Serves(i, m, {a})
    BY <1>2, <2>1, <2>2, <2>3, <2>4, ServeStep
  <2>6. DOMAIN ht = Node /\ ht' = IF ok THEN [ht EXCEPT ![i] = ht[i]] ELSE ht
    BY <2>4 DEF Serve, IInv, Shapes
  <2>7. Stores(i, m, {a})
    BY <2>2, <2>6 DEF Stores
  <2>. QED BY <2>5, <2>7
<1>7. CASE updateKeyValue(i)
  <2>1. PICK m \in BagToSet(mp2q[i]) :
          /\ Pops(i, m, "UPDATE")
          /\ Serve(i, m, m.key \in DOMAIN ht[i], Put(ht[i], m.key, m.value),
                   {Reply(m, m.key \in DOMAIN ht[i])})
    BY <1>7 DEF updateKeyValue
  <2>2. m.type = "UPDATE" /\ (m.key \in DOMAIN ht[i]) \in BOOLEAN
    BY <2>1 DEF Pops
  <2>3. Serves(i, m, {Reply(m, m.key \in DOMAIN ht[i])})
    BY <1>3, <1>4, <2>1, <2>2, ServeStep
  <2>4. DOMAIN ht = Node /\ \/ ht' = [ht EXCEPT ![i] = Put(ht[i], m.key, m.value)]
                            \/ ht' = ht
    BY <2>1 DEF Serve, IInv, Shapes
  <2>5. \A k \in DOMAIN ht[i] : k \in DOMAIN Put(ht[i], m.key, m.value)
    BY DEF Put
  <2>6. Reply(m, m.key \in DOMAIN ht[i]).type = "REPLY"
    BY DEF Reply
  <2>7. Stores(i, m, {Reply(m, m.key \in DOMAIN ht[i])})
    BY <2>2, <2>4, <2>5, <2>6 DEF Stores
  <2>. QED BY <2>3, <2>7
<1>8. CASE deletekey(i)
  <2>1. PICK m \in BagToSet(mp2q[i]), stab \in UnsetReplica :
          /\ Pops(i, m, "DELETE")
          /\ Serve(i, m, m.key \in DOMAIN ht[i], Without(ht[i], {m.key}),
                   IF stab THEN {} ELSE {Reply(m, m.key \in DOMAIN ht[i])})
    BY <1>8 DEF deletekey
  <2>. DEFINE ok == m.key \in DOMAIN ht[i]
              answer == IF stab THEN {} ELSE {Reply(m, ok)}
  <2>2. m.type = "DELETE" /\ ok \in BOOLEAN
    BY <2>1 DEF Pops
  <2>3. answer = {} \/ (answer = {Reply(m, ok)} /\ Reply(m, ok) \in Replies)
    BY <1>3, <2>2
  <2>4. /\ DOMAIN Without(ht[i], {m.key}) \subseteq Key
        /\ \A k \in DOMAIN Without(ht[i], {m.key}) : Without(ht[i], {m.key})[k] \in Value
    BY <1>2 DEF Without
  <2>5. Serves(i, m, answer)
    BY <1>3, <2>1, <2>2, <2>3, <2>4, ServeStep
  <2>6. DOMAIN ht = Node /\ \/ ht' = [ht EXCEPT ![i] = Without(ht[i], {m.key})]
                            \/ ht' = ht
    BY <2>1 DEF Serve, IInv, Shapes
  <2>7. \A k \in DOMAIN ht[i] : k = m.key \/ k \in DOMAIN Without(ht[i], {m.key})
    BY DEF Without
  <2>8. Reply(m, ok).type = "REPLY"
    BY DEF Reply
  <2>9. \A a \in answer : a.type = "REPLY"
    BY <2>3, <2>8
  <2>. HIDE DEF answer
  <2>10. Stores(i, m, answer)
    BY <2>2, <2>6, <2>7, <2>9 DEF Stores
  <2>. QED BY <2>5, <2>10
<1>. QED BY <1>5, <1>6, <1>7, <1>8

(* What a handled request changes: of the records only that of its own        *)
(* operation ...                                                              *)
LEMMA ServeMarks ==
    ASSUME IInv, NEW i \in Node, NEW m, NEW answer, Serves(i, m, answer)
    PROVE  /\ DOMAIN ops' = DOMAIN ops
           /\ \A id \in DOMAIN ops :
                 /\ ops'[id] \in OpRecord
                 /\ ops'[id].key = ops[id].key /\ ops'[id].value = ops[id].value
                 /\ ops'[id].coord = ops[id].coord /\ ops'[id].asked = ops[id].asked
                 /\ ops'[id].told = ops[id].told
           /\ \A id \in DOMAIN ops : id # m.id => ops'[id].did = ops[id].did
           /\ m.id \in DOMAIN ops =>
                 ops'[m.id].did = IF m.type = m.id.type /\ \E a \in answer : Success(a)
                                  THEN ops[m.id].did \cup {i} ELSE ops[m.id].did
<1>. DEFINE does == (\E a \in answer : Success(a)) /\ m.type = m.id.type
<1>1. ops' = IF does THEN [ops EXCEPT ![m.id].did = @ \cup {i}] ELSE ops
  BY DEF Serves
<1>. HIDE DEF does
<1>2. \A id \in DOMAIN ops : ops[id] \in OpRecord
  BY DEF IInv, Shapes
<1>3. CASE does
  <2>1. /\ DOMAIN ops' = DOMAIN ops
        /\ \A id \in DOMAIN ops : id # m.id => ops'[id] = ops[id]
        /\ m.id \in DOMAIN ops => ops'[m.id] = [ops[m.id] EXCEPT !.did = ops[m.id].did \cup {i}]
    BY <1>1, <1>3
  <2>2. m.id \in DOMAIN ops =>
           /\ ops'[m.id] \in OpRecord
           /\ ops'[m.id].key = ops[m.id].key /\ ops'[m.id].value = ops[m.id].value
           /\ ops'[m.id].coord = ops[m.id].coord /\ ops'[m.id].asked = ops[m.id].asked
           /\ ops'[m.id].told = ops[m.id].told
           /\ ops'[m.id].did = ops[m.id].did \cup {i}
    <3>. SUFFICES ASSUME m.id \in DOMAIN ops,
                         NEW r \in OpRecord, r = ops[m.id],
                         NEW new, new = [r EXCEPT !.did = r.did \cup {i}]
                  PROVE  /\ new \in OpRecord
                         /\ new.key = r.key /\ new.value = r.value /\ new.coord = r.coord
                         /\ new.asked = r.asked /\ new.told = r.told
                         /\ new.did = r.did \cup {i}
      BY <1>2, <2>1
    <3>. QED BY DEF OpRecord
  <2>3. \A id \in DOMAIN ops :
           /\ ops'[id] \in OpRecord
           /\ ops'[id].key = ops[id].key /\ ops'[id].value = ops[id].value
           /\ ops'[id].coord = ops[id].coord /\ ops'[id].asked = ops[id].asked
           /\ ops'[id].told = ops[id].told
    BY <1>2, <2>1, <2>2
  <2>. QED BY <1>3, <2>1, <2>2, <2>3 DEF does
<1>4. CASE ~does
  BY <1>1, <1>2, <1>4 DEF does
<1>. QED BY <1>3, <1>4

(* ... and the answer is sent.                                                *)
LEMMA ServeChanges ==
    ASSUME IInv, NEW i \in Node, NEW m, NEW answer, Serves(i, m, answer)
    PROVE  /\ CheckTurn(i) /\ m \in Requests /\ Up' = Up
           /\ DOMAIN ops' = DOMAIN ops /\ NoCreation' = NoCreation
           /\ IsABag(net') /\ BagToSet(net') = BagToSet(net) \cup answer
           /\ \A x : Copies(x, net') = Copies(x, net) + IF x \in answer THEN 1 ELSE 0
           /\ \A a \in answer : a \in Replies /\ a.id = m.id /\ a.to = m.from
           /\ \A x \in BagToSet(net') : IsAsk(x) => x \in BagToSet(net)
<1>1. CheckTurn(i)
  BY DEF Pops, Serves
<1>2. m \in Requests
  <2>1. m \in PendingMessages
    BY ServePopped
  <2>. QED BY <2>1 DEF IInv, TypeOK, Requests, Replies, Serves
<1>3. DOMAIN ops' = DOMAIN ops /\ NoCreation' = NoCreation
  BY ServeMarks DEF NoCreation
<1>4. /\ IsABag(net') /\ BagToSet(net') = BagToSet(net) \cup answer
      /\ \A x : Copies(x, net') = Copies(x, net) + IF x \in answer THEN 1 ELSE 0
  BY BagPut DEF IInv, Shapes, Serves
<1>5. \A a \in answer : a \in Replies /\ a.id = m.id /\ a.to = m.from
  BY DEF Serves
<1>6. \A x \in BagToSet(net') : IsAsk(x) => x \in BagToSet(net)
  BY <1>4, <1>5 DEF IsAsk, Replies
<1>7. Up' = Up
  BY DEF Up, failVars, Serves
<1>. QED BY <1>1, <1>2, <1>3, <1>4, <1>5, <1>6, <1>7

(* A replica's handler keeps the types, the schedule and what was issued.     *)
LEMMA ServeKeepsTypes ==
    ASSUME IInv, NEW i \in Node, NEW m, NEW answer, Serves(i, m, answer)
    PROVE  TypeOK' /\ Shapes' /\ Schedule' /\ Issue'
<1>1. /\ CheckTurn(i) /\ m \in Requests /\ IsABag(net')
      /\ BagToSet(net') = BagToSet(net) \cup answer
      /\ \A a \in answer : a \in Replies /\ a.id = m.id /\ a.to = m.from
      /\ DOMAIN ops' = DOMAIN ops
  BY ServeChanges
<1>2. /\ phase = "check" /\ phase' = "check" /\ turn' = i /\ i \in Up
  BY <1>1, CheckTurns
<1>3. /\ DOMAIN mp2q' = Node /\ \A j \in Node : IsABag(mp2q'[j])
      /\ \A j \in Node : BagToSet(mp2q'[j]) \subseteq BagToSet(mp2q[j])
  BY ServePopped
<1>4. PendingMessages' \subseteq PendingMessages \cup answer
  BY <1>1, <1>3 DEF PendingMessages
<1>5. TypeOK'
  <2>1. i \in 0 .. EN_GPSZ
    BY RingAssumption DEF Node
  <2>2. \A x \in PendingMessages' : x \in Requests \cup Replies
    BY <1>1, <1>4 DEF IInv, TypeOK
  <2>. QED BY <1>1, <1>2, <2>1, <2>2 DEF IInv, TypeOK, Serves, failVars
<1>6. Shapes'
  <2>1. \A x \in PendingMessages' : Carries(x)
    BY <1>1, <1>4 DEF IInv, Shapes, Carries, Replies
  <2>2. \A id \in DOMAIN ops' : ops'[id] \in OpRecord
    BY ServeMarks
  <2>3. \A j \in Node : \A x \in BagToSet(mp2q'[j]) : x.to = j
    BY <1>3 DEF IInv, Shapes
  <2>. QED BY <1>1, <1>3, <2>1, <2>2, <2>3 DEF IInv, Shapes, Serves
<1>7. Schedule'
  BY <1>1, <1>3, CheckKeepsSchedule DEF Serves, failVars
<1>8. Issue'
  BY ServeMarks DEF IInv, Issue, Serves
<1>. QED BY <1>5, <1>6, <1>7, <1>8

(* It keeps the flow of messages: its reply goes to the coordinator while no  *)
(* other of the operation has been received there in this tick.               *)
LEMMA ServeKeepsFlow ==
    ASSUME IInv, NEW i \in Node, NEW m, NEW answer, Serves(i, m, answer)
    PROVE  Flow'
<1>1. /\ phase = "check" /\ phase' = "check" /\ turn' = i /\ i \in Up
      /\ DOMAIN tally # {} => i = turn
      /\ \A x \in BagToSet(net) : ~IsAsk(x)
  <2>1. CheckTurn(i)
    BY ServeChanges
  <2>. QED BY <2>1, CheckTurns
<1>2. /\ \A j \in Node : IsABag(mp2q'[j]) /\ BagToSet(mp2q'[j]) \subseteq BagToSet(mp2q[j])
      /\ \A j \in Node \ {i} : mp2q'[j] = mp2q[j]
      /\ \A x : Copies(x, mp2q'[i]) = Copies(x, mp2q[i]) - IF x = m THEN 1 ELSE 0
      /\ m \in BagToSet(mp2q[i])
  BY ServePopped
<1>3. /\ tally' = tally /\ keyvalueMap' = keyvalueMap
      /\ DOMAIN ops' = DOMAIN ops /\ NoCreation' = NoCreation
      /\ \A id \in DOMAIN ops :
            /\ ops'[id].key = ops[id].key /\ ops'[id].value = ops[id].value
            /\ ops'[id].coord = ops[id].coord /\ ops'[id].asked = ops[id].asked
            /\ ops'[id].told = ops[id].told
  BY ServeMarks DEF Serves, NoCreation
<1>4. /\ BagToSet(net') = BagToSet(net) \cup answer
      /\ \A a \in answer : a \in Replies /\ a.id = m.id /\ a.to = m.from
      /\ \A x \in BagToSet(net') : ~IsAsk(x)
  BY <1>1, ServeChanges
<1>5. \A a \in answer : IsAnswer(a) => IsAsk(m)
  BY <1>4 DEF IsAnswer, IsAsk, Serves
<1>6. AsksInFlight'
  BY <1>4 DEF AsksInFlight
<1>7. AsksReceived'
  <2>. SUFFICES ASSUME NEW j \in Node, NEW x \in BagToSet(mp2q'[j]), IsAsk(x)
                PROVE  /\ x.id \in DOMAIN ops /\ x = RequestOf(x.id, x.to)' /\ x.to \in ops'[x.id].asked
                       /\ mp2q'[j][x] = 1
                       /\ x.id \notin DOMAIN tally /\ ops'[x.id].told = <<>>
    BY <1>3 DEF AsksReceived
  <2>1. /\ x \in BagToSet(mp2q[j]) /\ x.id \in DOMAIN ops /\ x = RequestOf(x.id, x.to)
        /\ x.to \in ops[x.id].asked /\ mp2q[j][x] = 1
        /\ x.id \notin DOMAIN tally /\ ops[x.id].told = <<>>
    BY <1>2 DEF IInv, Flow, AsksReceived
  <2>2. mp2q'[j][x] = 1
    <3>1. CASE j # i
      BY <1>2, <2>1, <3>1
    <3>2. CASE j = i
      <4>1. Copies(x, mp2q'[i]) \in Nat /\ Copies(x, mp2q'[i]) > 0 /\ Copies(x, mp2q'[i]) = mp2q'[i][x]
        BY <1>2, <3>2, BagCopies DEF Copies
      <4>2. Copies(x, mp2q[i]) = 1
        BY <2>1, <3>2 DEF Copies
      <4>. QED BY <1>2, <3>2, <4>1, <4>2
    <3>. QED BY <3>1, <3>2
  <2>. QED BY <1>3, <2>1, <2>2 DEF RequestOf
<1>8. AnswersInFlight'
  <2>. SUFFICES ASSUME NEW x \in BagToSet(net'), IsAnswer(x)
                PROVE  /\ x.id \in DOMAIN ops /\ x.to = ops[x.id].coord
                       /\ x.id \notin DOMAIN tally /\ ops[x.id].told = <<>>
    BY <1>1, <1>3 DEF AnswersInFlight
  <2>1. CASE x \in BagToSet(net)
    BY <2>1 DEF IInv, Flow, AnswersInFlight
  <2>2. CASE x \in answer
    <3>1. /\ m.id \in DOMAIN ops /\ m = RequestOf(m.id, m.to)
          /\ m.id \notin DOMAIN tally /\ ops[m.id].told = <<>>
      BY <1>2, <1>5, <2>2 DEF IInv, Flow, AsksReceived
    <3>2. m.from = ops[m.id].coord
      BY <3>1 DEF RequestOf
    <3>. QED BY <1>4, <2>2, <3>1, <3>2
  <2>. QED BY <1>4, <2>1, <2>2
<1>9. AnswersReceived'
  BY <1>2, <1>3 DEF IInv, Flow, AnswersReceived
<1>10. Stages'
  <2>1. ASSUME NEW x \in BagToSet(net'), NEW j \in Node, NEW n \in BagToSet(mp2q'[j]),
               Ours(x), IsAnswer(n)
        PROVE  x.id # n.id
    <3>1. CASE x \in BagToSet(net)
      BY <1>2, <2>1, <3>1 DEF IInv, Flow, Stages, Ours
    <3>2. CASE x \in answer
      <4>1. IsAsk(m) /\ x.id = m.id
        BY <1>4, <1>5, <2>1, <3>2 DEF Ours
      <4>. QED BY <1>2, <2>1, <4>1 DEF IInv, Flow, Stages
    <3>. QED BY <1>4, <3>1, <3>2
  <2>2. \A j, k \in Node : \A x \in BagToSet(mp2q'[j]), n \in BagToSet(mp2q'[k]) :
           IsAsk(x) /\ IsAnswer(n) => x.id # n.id
    BY <1>2 DEF IInv, Flow, Stages
  <2>. QED BY <1>1, <1>4, <2>1, <2>2 DEF Stages, Ours
<1>11. Counting'
  BY <1>1, <1>3 DEF IInv, Flow, Counting
<1>12. \A id \in DOMAIN ops : id # m.id => ops'[id].did = ops[id].did
  BY ServeMarks
<1>13. Verdicts'
  <2>. SUFFICES ASSUME NEW id \in NoCreation, ops[id].told # <<>>
                PROVE  /\ Len(ops[id].told) = 1
                       /\ \/ id \notin DOMAIN keyvalueMap
                          \/ /\ id \notin DOMAIN tally
                             /\ \A j \in Node : \A x \in BagToSet(mp2q'[j]) : IsAnswer(x) => x.id # id
                       /\ ops[id].told[1].ok => Cardinality(ops'[id].did) >= quorumValue
    BY <1>3 DEF Verdicts, NoCreation
  <2>1. ops'[id].did = ops[id].did
    <3>1. id # m.id
      BY <1>2 DEF IInv, Flow, AsksReceived, IsAsk, NoCreation, Serves
    <3>2. id \in DOMAIN ops
      BY DEF NoCreation
    <3>. QED BY <1>12, <3>1, <3>2
  <2>. QED BY <1>2, <2>1 DEF IInv, Flow, Verdicts
<1>. QED BY <1>6, <1>7, <1>8, <1>9, <1>10, <1>11, <1>13 DEF Flow

(* The answer is entered into the books under the replica that gives it,      *)
(* which has no entry yet, because its request was still there.               *)
LEMMA ServeKeepsAccounts ==
    ASSUME IInv, NEW i \in Node, NEW m, NEW answer, Serves(i, m, answer)
    PROVE  Accounts'
<1>1. /\ \A j \in Node : IsABag(mp2q'[j]) /\ BagToSet(mp2q'[j]) \subseteq BagToSet(mp2q[j])
      /\ \A j \in Node \ {i} : mp2q'[j] = mp2q[j]
      /\ \A x : Copies(x, mp2q'[i]) = Copies(x, mp2q[i]) - IF x = m THEN 1 ELSE 0
      /\ m \in BagToSet(mp2q[i]) /\ m.to = i /\ m \in PendingMessages
  BY ServePopped
<1>2. /\ BagToSet(net') = BagToSet(net) \cup answer
      /\ \A x : Copies(x, net') = Copies(x, net) + IF x \in answer THEN 1 ELSE 0
      /\ \A a \in answer : a \in Replies /\ a.id = m.id /\ a.to = m.from
      /\ m \in Requests /\ NoCreation' = NoCreation
  BY ServeChanges
<1>3. /\ DOMAIN ops' = DOMAIN ops
      /\ \A id \in DOMAIN ops : ops'[id].coord = ops[id].coord /\ ops'[id].asked = ops[id].asked
      /\ \A id \in DOMAIN ops : id # m.id => ops'[id].did = ops[id].did
      /\ m.id \in DOMAIN ops =>
            ops'[m.id].did = IF m.type = m.id.type /\ \E a \in answer : Success(a)
                             THEN ops[m.id].did \cup {i} ELSE ops[m.id].did
  BY ServeMarks
<1>4. \A id : Counts(id)' = Counts(id) /\ tally' = tally
  BY DEF Counts, Serves
<1>5. ASSUME NEW j \in Node, NEW y \in Replies
      PROVE  Copies(y, mp2q'[j]) = Copies(y, mp2q[j])
  <2>1. y # m
    BY <1>2 DEF Replies, Requests
  <2>2. Copies(y, mp2q[i]) \in Nat
    BY BagCopies DEF IInv, Shapes
  <2>. QED BY <1>1, <2>1, <2>2
<1>6. ASSUME NEW id \in NoCreation, id # m.id \/ answer = {}
      PROVE  \E R \in SUBSET ops'[id].asked :
                \E f \in [R -> AnswersOf(id)'], counted \in SUBSET R : Account(id, f, counted)'
  <2>1. \A x \in PendingMessages' : x.id = id => x \in PendingMessages
    BY <1>1, <1>2, <1>6 DEF PendingMessages
  <2>2. ASSUME NEW y \in AnswersOf(id)
        PROVE  Copies(y, net') + Copies(y, mp2q'[ops[id].coord])
                  = Copies(y, net) + Copies(y, mp2q[ops[id].coord])
    <3>1. y \in Replies /\ y \notin answer /\ ops[id].coord \in Node /\ Copies(y, net) \in Nat
      BY <1>2, <1>6, BagCopies DEF AnswersOf, IInv, Shapes, OpRecord, NoCreation
    <3>. QED BY <1>2, <1>5, <3>1
  <2>3. Pending(id)' => Pending(id) /\ Counts(id)' = Counts(id)
    BY <1>4, <2>1 DEF Pending
  <2>4. ops'[id].asked = ops[id].asked /\ ops'[id].did = ops[id].did /\ ops'[id].coord = ops[id].coord
    BY <1>3, <1>6 DEF NoCreation
  <2>. QED BY <1>2, <2>1, <2>2, <2>3, <2>4, AccountsKept DEF IInv
<1>7. ASSUME NEW id \in NoCreation, id = m.id, NEW a \in Replies,
             answer = {a}, a.id = m.id, a.to = m.from
      PROVE  \E R \in SUBSET ops'[id].asked :
                \E f \in [R -> AnswersOf(id)'], counted \in SUBSET R : Account(id, f, counted)'
  <2>1. PICK R \in SUBSET ops[id].asked :
           \E f \in [R -> AnswersOf(id)], counted \in SUBSET R : Account(id, f, counted)
    BY DEF IInv, Accounts
  <2>2. PICK f \in [R -> AnswersOf(id)], counted \in SUBSET R : Account(id, f, counted)
    BY <2>1
  <2>. DEFINE R2 == R \cup {i}
              f2 == [x \in R2 |-> IF x = i THEN a ELSE f[x]]
              coord == ops[id].coord
  <2>3. IsAsk(m) /\ m = RequestOf(id, i) /\ i \in ops[id].asked /\ mp2q[i][m] = 1
    BY <1>1, <1>2, <1>7 DEF IInv, Flow, AsksReceived, IsAsk, NoCreation, Serves
  <2>4. i \notin R
    BY <1>1, <1>7, <2>2, <2>3 DEF Account
  <2>5. m.type = id.type /\ m.from = coord /\ coord \in Node /\ a.to = coord /\ a.id = id
    BY <1>7, <2>3 DEF RequestOf, IInv, Shapes, OpRecord, NoCreation
  <2>6. AnswersOf(id)' = AnswersOf(id) /\ a \in AnswersOf(id)
    BY <1>3, <1>7, <2>5 DEF AnswersOf, NoCreation
  <2>7. R2 \in SUBSET ops'[id].asked /\ counted \in SUBSET R2 /\ f2 \in [R2 -> AnswersOf(id)']
    BY <1>3, <2>3, <2>6 DEF NoCreation
  <2>8. ops'[id].did = IF Success(a) THEN ops[id].did \cup {i} ELSE ops[id].did
    BY <1>3, <1>7, <2>5 DEF NoCreation
  <2>9. Account(id, f2, counted)'
    <3>1. counted \subseteq DOMAIN f2 /\ ops'[id].did \subseteq DOMAIN f2
      BY <2>2, <2>8 DEF Account
    <3>2. \A x \in DOMAIN f2 : Success(f2[x]) <=> x \in ops'[id].did
      BY <2>2, <2>4, <2>8 DEF Account
    <3>3. ASSUME NEW x \in PendingMessages', IsAsk(x), x.id = id
          PROVE  x.to \notin DOMAIN f2
      <4>1. x \notin BagToSet(net')
        <5>1. CheckTurn(i)
          BY ServeChanges
        <5>2. \A y \in BagToSet(net) : ~IsAsk(y)
          BY <5>1, CheckTurns
        <5>. QED BY <3>3, <5>2, ServeChanges
      <4>2. PICK j \in Node : x \in BagToSet(mp2q'[j])
        BY <3>3, <4>1 DEF PendingMessages
      <4>3. x \in BagToSet(mp2q[j]) /\ x.to = j /\ x \in PendingMessages
        BY <1>1, <4>2 DEF IInv, Shapes, PendingMessages
      <4>4. x.to \notin R
        BY <2>2, <3>3, <4>3 DEF Account
      <4>5. ASSUME j = i PROVE FALSE
        <5>1. x = RequestOf(id, i)
          BY <3>3, <4>3, <4>5 DEF IInv, Flow, AsksReceived
        <5>2. Copies(m, mp2q'[i]) = 0
          BY <1>1, <2>3 DEF Copies
        <5>3. m \notin BagToSet(mp2q'[i])
          BY <1>1, <5>2, BagCopies
        <5>. QED BY <2>3, <4>2, <4>5, <5>1, <5>3
      <4>. QED BY <4>3, <4>4, <4>5
    <3>4. ASSUME NEW y \in AnswersOf(id)
          PROVE  Copies(y, net') + Copies(y, mp2q'[coord])
                    = Cardinality({x \in DOMAIN f2 \ counted : f2[x] = y})
      <4>. DEFINE old == {x \in DOMAIN f \ counted : f[x] = y}
      <4>1. old \in SUBSET Node /\ i \notin old /\ Cardinality(old) \in Nat /\ IsFiniteSet(old)
        <5>1. old \in SUBSET Node
          BY DEF IInv, Shapes, OpRecord, NoCreation
        <5>. QED BY <2>4, <5>1, NodeFacts
      <4>2. Copies(y, net) + Copies(y, mp2q[coord]) = Cardinality(old)
        BY <2>2 DEF Account
      <4>3. Copies(y, net) \in Nat /\ Copies(y, mp2q[coord]) \in Nat
        BY <2>5, BagCopies DEF IInv, Shapes
      <4>4. Copies(y, mp2q'[coord]) = Copies(y, mp2q[coord])
        BY <1>5, <2>5 DEF AnswersOf
      <4>5. Copies(y, net') = Copies(y, net) + IF y = a THEN 1 ELSE 0
        BY <1>2, <1>7
      <4>6. {x \in DOMAIN f2 \ counted : f2[x] = y} = IF y = a THEN old \cup {i} ELSE old
        BY <2>4
      <4>7. Cardinality(old \cup {i}) = Cardinality(old) + 1
        BY <4>1, FS_AddElement
      <4>. HIDE DEF old, f2
      <4>8. CASE y = a
        BY <4>2, <4>3, <4>4, <4>5, <4>6, <4>7, <4>8
      <4>9. CASE y # a
        <5>1. {x \in DOMAIN f2 \ counted : f2[x] = y} = old
          BY <4>6, <4>9
        <5>2. Copies(y, net') = Copies(y, net)
          BY <4>3, <4>5, <4>9
        <5>. QED BY <4>2, <4>4, <5>1, <5>2
      <4>. QED BY <4>8, <4>9
    <3>5. /\ Counts(id)'.replies = Cardinality(counted)
          /\ Counts(id)'.successes = Cardinality(counted \cap ops'[id].did)
      <4>1. Pending(id)
        BY <1>1, <1>7 DEF Pending
      <4>2. counted \cap ops'[id].did = counted \cap ops[id].did
        BY <2>4, <2>8
      <4>. QED BY <1>4, <2>2, <4>1, <4>2 DEF Account
    <3>6. ops'[id].coord = coord
      BY <1>3 DEF NoCreation
    <3>. HIDE DEF f2
    <3>. QED BY <2>6, <3>1, <3>2, <3>3, <3>4, <3>5, <3>6 DEF Account
  <2>. HIDE DEF f2, R2
  <2>. QED BY <2>7, <2>9
<1>8. answer = {} \/ \E a \in Replies : answer = {a} /\ a.id = m.id /\ a.to = m.from
  BY DEF Serves
<1>. QED BY <1>2, <1>6, <1>7, <1>8 DEF Accounts

-------------------------------------------------------------------------------
(* A coordinator counts a reply.                                              *)

(* What the two handlers have in common.                                      *)
CountsReply(i, m, value) ==
    /\ Pops(i, m, m.type) /\ m.type \in {"REPLY", "READREPLY"}
    /\ value \in Value \cup {NoValue}
    /\ CountReply(m, Success(m), value)

(* The reply is popped.                                                       *)
LEMMA CountPopped ==
    ASSUME IInv, NEW i \in Node, NEW m, NEW value, CountsReply(i, m, value)
    PROVE  /\ m \in BagToSet(mp2q[i]) /\ m.to = i /\ m \in PendingMessages
           /\ DOMAIN mp2q' = Node /\ \A j \in Node : IsABag(mp2q'[j])
           /\ \A j \in Node : BagToSet(mp2q'[j]) \subseteq BagToSet(mp2q[j])
           /\ \A j \in Node \ {i} : mp2q'[j] = mp2q[j]
           /\ \A x : Copies(x, mp2q'[i]) = Copies(x, mp2q[i]) - IF x = m THEN 1 ELSE 0
<1>1. Pops(i, m, m.type)
  BY DEF CountsReply
<1>. QED BY <1>1, Popped

(* The two handlers of a coordinator are such steps.                          *)
LEMMA HandlersCount ==
    ASSUME IInv, NEW i \in Node, recvREPLY(i) \/ recvREADREPLY(i)
    PROVE  \E m, value : CountsReply(i, m, value)
<1>1. CASE recvREPLY(i)
  <2>1. PICK m \in BagToSet(mp2q[i]) :
          /\ Pops(i, m, "REPLY")
          /\ CountReply(m, m.success,
                    IF m.id \in DOMAIN keyvalueMap THEN keyvalueMap[m.id].value ELSE NoValue)
    BY <1>1 DEF recvREPLY
  <2>2. m.type = "REPLY" /\ Success(m) = m.success
    BY <2>1 DEF Pops, Success
  <2>. PICK value :
         value = IF m.id \in DOMAIN keyvalueMap THEN keyvalueMap[m.id].value ELSE NoValue
    OBVIOUS
  <2>3. value \in Value \cup {NoValue}
    BY DEF IInv, Shapes
  <2>4. CountsReply(i, m, value)
    BY <2>1, <2>2, <2>3 DEF CountsReply
  <2>. QED BY <2>4
<1>2. CASE recvREADREPLY(i)
  <2>1. PICK m \in BagToSet(mp2q[i]) :
          Pops(i, m, "READREPLY") /\ CountReply(m, m.value # NoValue, m.value)
    BY <1>2 DEF recvREADREPLY
  <2>2. m.type = "READREPLY" /\ Success(m) = (m.value # NoValue)
    BY <2>1 DEF Pops, Success
  <2>3. m.value \in Value \cup {NoValue}
    <3>1. m \in PendingMessages
      BY DEF PendingMessages
    <3>. QED BY <2>2, <3>1 DEF IInv, TypeOK, Requests, Replies
  <2>4. CountsReply(i, m, m.value)
    BY <2>1, <2>2, <2>3 DEF CountsReply
  <2>. QED BY <2>4
<1>. QED BY <1>1, <1>2

(* What a counted reply changes: the counts and perhaps the verdict of its    *)
(* own operation; and the counts that an id of a creation has may go.         *)
NewCounts(m) == [replies |-> Counts(m.id).replies + 1,
                 successes |-> Counts(m.id).successes + IF Success(m) THEN 1 ELSE 0]
Wins(m) == m.id \in DOMAIN keyvalueMap /\ NewCounts(m).successes >= quorumValue
Loses(m) == m.id \in DOMAIN keyvalueMap /\ ~Wins(m) /\ NewCounts(m).replies = expectedReplies

(* What counting a reply does to the counts: those of its operation alone.    *)
LEMMA CountTallies ==
    ASSUME IInv, NEW i \in Node, NEW m, NEW value, CountsReply(i, m, value)
    PROVE  /\ NewCounts(m) \in [replies : Nat, successes : Nat]
           /\ \A id \in DOMAIN tally' : tally'[id] \in [replies : Nat, successes : Nat]
           /\ DOMAIN tally' \subseteq DOMAIN tally \cup {m.id}
           /\ \A id \in Ids : id.type # "CREATE" /\ id # m.id => Counts(id)' = Counts(id)
           /\ \A id \in DOMAIN tally : id.type # "CREATE" /\ id # m.id => tally'[id] = tally[id]
           /\ m.id.type # "CREATE" =>
                 m.id \in DOMAIN tally' /\ tally'[m.id] = NewCounts(m) /\ Counts(m.id)' = NewCounts(m)
<1>. DEFINE bare == StabId(m.id.seq)
            all == Put(tally, m.id, NewCounts(m))
<1>1. NewCounts(m) \in [replies : Nat, successes : Nat]
  BY DEF NewCounts, Counts, IInv, Shapes
<1>2. bare.type = "CREATE"
  BY DEF StabId, CRUDId
<1>3. tally' = IF Wins(m) \/ Loses(m) THEN Without(all, {bare}) ELSE all
  BY DEF CountsReply, CountReply, Wins, Loses, NewCounts
<1>. HIDE DEF bare
<1>4. /\ DOMAIN all = DOMAIN tally \cup {m.id} /\ all[m.id] = NewCounts(m)
      /\ \A id \in DOMAIN tally : id # m.id => all[id] = tally[id]
  BY DEF Put
<1>. HIDE DEF all
<1>5. /\ DOMAIN Without(all, {bare}) = DOMAIN all \ {bare}
      /\ \A id \in DOMAIN all \ {bare} : Without(all, {bare})[id] = all[id]
  BY DEF Without
<1>6. /\ DOMAIN tally' \subseteq DOMAIN all /\ \A id \in DOMAIN tally' : tally'[id] = all[id]
      /\ \A id \in DOMAIN all : id.type # "CREATE" => id \in DOMAIN tally'
  BY <1>2, <1>3, <1>5
<1>7. \A id \in DOMAIN tally' : tally'[id] \in [replies : Nat, successes : Nat]
  BY <1>1, <1>4, <1>6 DEF IInv, Shapes
<1>. QED BY <1>1, <1>4, <1>6, <1>7 DEF Counts

(* What counting a reply does to the records: at most a verdict is added, to  *)
(* that of its operation, and only by the reply that decides it.              *)
LEMMA CountRecords ==
    ASSUME IInv, NEW i \in Node, NEW m, NEW value, CountsReply(i, m, value)
    PROVE  /\ CheckTurn(i) /\ m \in Replies /\ m.id \in Ids /\ Up' = Up
           /\ DOMAIN ops' = DOMAIN ops /\ NoCreation' = NoCreation
           /\ UNCHANGED <<bFailed, downFor, member, ring, ht, hasMyReplicas, net, g_transID>>
           /\ \A id \in DOMAIN keyvalueMap : id # m.id => id \in DOMAIN keyvalueMap'
           /\ DOMAIN keyvalueMap' \subseteq DOMAIN keyvalueMap
           /\ \A id \in DOMAIN keyvalueMap' : keyvalueMap'[id] = keyvalueMap[id]
           /\ m.id \in DOMAIN keyvalueMap' <=> m.id \in DOMAIN keyvalueMap /\ ~Wins(m) /\ ~Loses(m)
           /\ \A id \in DOMAIN ops :
                 /\ ops'[id] \in OpRecord
                 /\ ops'[id].key = ops[id].key /\ ops'[id].value = ops[id].value
                 /\ ops'[id].coord = ops[id].coord /\ ops'[id].asked = ops[id].asked
                 /\ ops'[id].did = ops[id].did
           /\ \A id \in DOMAIN ops : id # m.id => ops'[id].told = ops[id].told
           /\ m.id \in DOMAIN ops =>
                 /\ Wins(m) => ops'[m.id].told = Append(ops[m.id].told, [ok |-> TRUE, value |-> value])
                 /\ ~Wins(m) => \/ ops'[m.id].told = ops[m.id].told
                                \/ /\ Loses(m)
                                   /\ ops'[m.id].told
                                         = Append(ops[m.id].told, [ok |-> FALSE, value |-> NoValue])
<1>1. /\ CheckTurn(i) /\ m \in PendingMessages /\ Up' = Up
      /\ UNCHANGED <<bFailed, downFor, member, ring, ht, hasMyReplicas, net, g_transID>>
  BY CountPopped DEF CountsReply, Pops, CountReply, failVars, nodeVars, Up
<1>2. m \in Replies /\ m.id \in Ids
  BY <1>1 DEF IInv, TypeOK, CountsReply, Requests, Replies
<1>3. keyvalueMap' = IF Wins(m) \/ Loses(m) THEN Without(keyvalueMap, {m.id}) ELSE keyvalueMap
  BY DEF CountsReply, CountReply, Wins, Loses, NewCounts
<1>4. /\ \A id \in DOMAIN keyvalueMap : id # m.id => id \in DOMAIN keyvalueMap'
      /\ DOMAIN keyvalueMap' \subseteq DOMAIN keyvalueMap
      /\ \A id \in DOMAIN keyvalueMap' : keyvalueMap'[id] = keyvalueMap[id]
      /\ m.id \in DOMAIN keyvalueMap' <=> m.id \in DOMAIN keyvalueMap /\ ~Wins(m) /\ ~Loses(m)
  <2>1. /\ DOMAIN Without(keyvalueMap, {m.id}) = DOMAIN keyvalueMap \ {m.id}
        /\ \A id \in DOMAIN keyvalueMap \ {m.id} :
              Without(keyvalueMap, {m.id})[id] = keyvalueMap[id]
    BY DEF Without
  <2>2. CASE Wins(m) \/ Loses(m)
    BY <1>3, <2>1, <2>2
  <2>3. CASE ~ (Wins(m) \/ Loses(m))
    <3>1. keyvalueMap' = keyvalueMap
      BY <1>3, <2>3
    <3>. QED BY <2>3, <3>1
  <2>. QED BY <2>2, <2>3
<1>5. \/ Wins(m) /\ ops' = Tell({m.id}, TRUE, value)
      \/ ~Wins(m) /\ Loses(m) /\ ops' = Tell({m.id}, FALSE, NoValue)
      \/ ~Wins(m) /\ ops' = ops
  BY DEF CountsReply, CountReply, Wins, Loses, NewCounts
<1>6. \A id \in DOMAIN ops : ops[id] \in OpRecord
  BY DEF IInv, Shapes
<1>7. ASSUME NEW ok \in BOOLEAN, NEW v \in Value \cup {NoValue}, ops' = Tell({m.id}, ok, v)
      PROVE  /\ DOMAIN ops' = DOMAIN ops
             /\ \A id \in DOMAIN ops :
                 /\ ops'[id] \in OpRecord
                 /\ ops'[id].key = ops[id].key /\ ops'[id].value = ops[id].value
                 /\ ops'[id].coord = ops[id].coord /\ ops'[id].asked = ops[id].asked
                 /\ ops'[id].did = ops[id].did
                 /\ ops'[id].told = IF id = m.id THEN Append(ops[id].told, [ok |-> ok, value |-> v])
                                    ELSE ops[id].told
  <2>1. DOMAIN ops' = DOMAIN ops
    BY <1>7 DEF Tell
  <2>2. ASSUME NEW id \in DOMAIN ops, id # m.id
        PROVE  ops'[id] = ops[id]
    BY <1>7, <2>2 DEF Tell
  <2>3. ASSUME m.id \in DOMAIN ops
        PROVE  /\ ops'[m.id] \in OpRecord
               /\ ops'[m.id].key = ops[m.id].key /\ ops'[m.id].value = ops[m.id].value
               /\ ops'[m.id].coord = ops[m.id].coord /\ ops'[m.id].asked = ops[m.id].asked
               /\ ops'[m.id].did = ops[m.id].did
               /\ ops'[m.id].told = Append(ops[m.id].told, [ok |-> ok, value |-> v])
    <3>1. PICK entry \in [ok : BOOLEAN, value : Value \cup {NoValue}] :
             entry = [ok |-> ok, value |-> v]
      BY <1>7
    <3>2. ops'[m.id] = [ops[m.id] EXCEPT !.told = Append(ops[m.id].told, [ok |-> ok, value |-> v])]
      BY <1>7, <2>3 DEF Tell
    <3>3. ops'[m.id] = [ops[m.id] EXCEPT !.told = Append(ops[m.id].told, entry)]
      BY <3>1, <3>2, Zenon
    <3>4. ASSUME NEW r \in OpRecord, NEW new, new = [r EXCEPT !.told = Append(r.told, entry)]
          PROVE  /\ new \in OpRecord /\ new.told = Append(r.told, entry)
                 /\ new.key = r.key /\ new.value = r.value /\ new.coord = r.coord
                 /\ new.asked = r.asked /\ new.did = r.did
      <4>1. r.told \in Seq([ok : BOOLEAN, value : Value \cup {NoValue}])
        BY DEF OpRecord
      <4>2. Append(r.told, entry) \in Seq([ok : BOOLEAN, value : Value \cup {NoValue}])
        BY <4>1
      <4>. QED BY <3>4, <4>2 DEF OpRecord
    <3>5. /\ ops'[m.id] \in OpRecord
          /\ ops'[m.id].key = ops[m.id].key /\ ops'[m.id].value = ops[m.id].value
          /\ ops'[m.id].coord = ops[m.id].coord /\ ops'[m.id].asked = ops[m.id].asked
          /\ ops'[m.id].did = ops[m.id].did
          /\ ops'[m.id].told = Append(ops[m.id].told, entry)
      BY <1>6, <2>3, <3>3, <3>4
    <3>. QED BY <3>1, <3>5, Zenon
  <2>. QED BY <1>6, <2>1, <2>2, <2>3
<1>8. value \in Value \cup {NoValue}
  BY DEF CountsReply
<1>9. /\ DOMAIN ops' = DOMAIN ops
      /\ \A id \in DOMAIN ops :
            /\ ops'[id] \in OpRecord
            /\ ops'[id].key = ops[id].key /\ ops'[id].value = ops[id].value
            /\ ops'[id].coord = ops[id].coord /\ ops'[id].asked = ops[id].asked
            /\ ops'[id].did = ops[id].did
      /\ \A id \in DOMAIN ops : id # m.id => ops'[id].told = ops[id].told
  <2>1. CASE \E ok \in BOOLEAN, v \in Value \cup {NoValue} : ops' = Tell({m.id}, ok, v)
    <3>1. PICK ok \in BOOLEAN, v \in Value \cup {NoValue} : ops' = Tell({m.id}, ok, v)
      BY <2>1
    <3>. QED BY <1>7, <3>1
  <2>2. CASE ops' = ops
    BY <1>6, <2>2
  <2>. QED BY <1>5, <1>8, <2>1, <2>2
<1>10. m.id \in DOMAIN ops =>
          /\ Wins(m) => ops'[m.id].told = Append(ops[m.id].told, [ok |-> TRUE, value |-> value])
          /\ ~Wins(m) => \/ ops'[m.id].told = ops[m.id].told
                         \/ /\ Loses(m)
                            /\ ops'[m.id].told
                                  = Append(ops[m.id].told, [ok |-> FALSE, value |-> NoValue])
  <2>1. CASE Wins(m) /\ ops' = Tell({m.id}, TRUE, value)
    BY <1>7, <1>8, <2>1
  <2>2. CASE ~Wins(m) /\ Loses(m) /\ ops' = Tell({m.id}, FALSE, NoValue)
    BY <1>7, <2>2
  <2>3. CASE ~Wins(m) /\ ops' = ops
    BY <2>3
  <2>. QED BY <1>5, <2>1, <2>2, <2>3
<1>. QED BY <1>1, <1>2, <1>4, <1>9, <1>10 DEF NoCreation

(* A reply that is there is in the books, not counted, under some replica;    *)
(* when it is counted the counts are those of the replicas counted and of     *)
(* those among them that have done what was asked.                            *)
LEMMA CountedBooks ==
    ASSUME IInv, NEW i \in Node, NEW m, NEW value, CountsReply(i, m, value), m.id.type # "CREATE"
    PROVE  /\ m.id \in NoCreation /\ i = ops[m.id].coord /\ m \in AnswersOf(m.id)
           /\ \E R \in SUBSET ops[m.id].asked :
                 \E f \in [R -> AnswersOf(m.id)], counted \in SUBSET R : \E x \in R \ counted :
                    /\ Account(m.id, f, counted) /\ f[x] = m
                    /\ NewCounts(m).replies = Cardinality(counted \cup {x})
                    /\ NewCounts(m).successes
                          = Cardinality((counted \cup {x}) \cap ops[m.id].did)
<1>1. /\ m \in BagToSet(mp2q[i]) /\ m.to = i /\ m \in PendingMessages /\ IsAnswer(m)
  BY CountPopped DEF CountsReply, IsAnswer
<1>2. m.id \in NoCreation /\ i = ops[m.id].coord
  BY <1>1 DEF IInv, Flow, AnswersReceived, NoCreation
<1>3. m \in AnswersOf(m.id)
  BY <1>1, <1>2, CountRecords DEF AnswersOf
<1>4. PICK R \in SUBSET ops[m.id].asked :
         \E f \in [R -> AnswersOf(m.id)], counted \in SUBSET R : Account(m.id, f, counted)
  BY <1>2 DEF IInv, Accounts
<1>5. PICK f \in [R -> AnswersOf(m.id)], counted \in SUBSET R : Account(m.id, f, counted)
  BY <1>4
<1>6. PICK x \in R \ counted : f[x] = m
  <2>. DEFINE entries == {y \in DOMAIN f \ counted : f[y] = m}
  <2>1. Copies(m, mp2q[i]) \in Nat /\ Copies(m, mp2q[i]) > 0 /\ Copies(m, net) \in Nat
    BY <1>1, BagCopies DEF IInv, Shapes
  <2>2. Cardinality(entries) = Copies(m, net) + Copies(m, mp2q[i])
    BY <1>2, <1>3, <1>5 DEF Account
  <2>. HIDE DEF entries
  <2>3. entries # {}
    <3>1. Cardinality(entries) # Cardinality({})
      BY <2>1, <2>2, FS_EmptySet
    <3>. QED BY <3>1
  <2>. QED BY <2>3 DEF entries
<1>7. /\ Counts(m.id).replies = Cardinality(counted)
      /\ Counts(m.id).successes = Cardinality(counted \cap ops[m.id].did)
      /\ Success(m) <=> x \in ops[m.id].did
  BY <1>1, <1>5, <1>6 DEF Account, Pending
<1>8. counted \in SUBSET Node /\ x \in Node
  BY <1>2 DEF NoCreation, IInv, Shapes, OpRecord
<1>9. Cardinality(counted \cup {x}) = Cardinality(counted) + 1
  BY <1>6, <1>8, NodeFacts, FS_AddElement
<1>10. Cardinality((counted \cup {x}) \cap ops[m.id].did)
          = Cardinality(counted \cap ops[m.id].did) + IF Success(m) THEN 1 ELSE 0
  <2>1. counted \cap ops[m.id].did \in SUBSET Node /\ IsFiniteSet(counted \cap ops[m.id].did)
    BY <1>8, NodeFacts
  <2>2. CASE x \in ops[m.id].did
    <3>1. (counted \cup {x}) \cap ops[m.id].did = (counted \cap ops[m.id].did) \cup {x}
      BY <2>2
    <3>2. x \notin counted \cap ops[m.id].did
      BY <1>6
    <3>3. Cardinality((counted \cap ops[m.id].did) \cup {x})
             = Cardinality(counted \cap ops[m.id].did) + 1
      BY <2>1, <3>2, FS_AddElement
    <3>. QED BY <1>7, <2>2, <3>1, <3>3
  <2>3. CASE x \notin ops[m.id].did
    <3>1. (counted \cup {x}) \cap ops[m.id].did = counted \cap ops[m.id].did
      BY <2>3
    <3>2. Cardinality(counted \cap ops[m.id].did) \in Nat
      BY <2>1, NodeFacts
    <3>3. ~Success(m)
      BY <1>7, <2>3
    <3>. QED BY <3>1, <3>2, <3>3
  <2>. QED BY <2>2, <2>3
<1>11. /\ NewCounts(m).replies = Cardinality(counted \cup {x})
       /\ NewCounts(m).successes = Cardinality((counted \cup {x}) \cap ops[m.id].did)
  BY <1>7, <1>9, <1>10 DEF NewCounts
<1>12. /\ Account(m.id, f, counted) /\ f[x] = m
       /\ NewCounts(m).replies = Cardinality(counted \cup {x})
       /\ NewCounts(m).successes = Cardinality((counted \cup {x}) \cap ops[m.id].did)
  BY <1>5, <1>6, <1>11
<1>13. \E g \in [R -> AnswersOf(m.id)], done \in SUBSET R : \E y \in R \ done :
          /\ Account(m.id, g, done) /\ g[y] = m
          /\ NewCounts(m).replies = Cardinality(done \cup {y})
          /\ NewCounts(m).successes = Cardinality((done \cup {y}) \cap ops[m.id].did)
  BY <1>12, Zenon
<1>. QED BY <1>2, <1>3, <1>13, Zenon

(* The second success is one of two replicas that have done it.               *)
LEMMA WinBacked ==
    ASSUME IInv, NEW i \in Node, NEW m, NEW value, CountsReply(i, m, value), m.id.type # "CREATE",
           Wins(m)
    PROVE  Cardinality(ops[m.id].did) >= quorumValue
<1>1. PICK S : NewCounts(m).successes = Cardinality(S \cap ops[m.id].did)
  BY CountedBooks
<1>2. ops[m.id].did \in SUBSET Node
  BY CountedBooks DEF NoCreation, IInv, Shapes, OpRecord
<1>3. Cardinality(S \cap ops[m.id].did) <= Cardinality(ops[m.id].did)
  BY <1>2, SubsetCard
<1>4. Cardinality(S \cap ops[m.id].did) \in Nat /\ Cardinality(ops[m.id].did) \in Nat
  BY <1>2, NodeFacts
<1>. QED BY <1>1, <1>3, <1>4 DEF Wins, quorumValue

(* No verdict has been given yet on an operation that is in the map when a    *)
(* reply to it is counted.                                                    *)
LEMMA CountedInTime ==
    ASSUME IInv, NEW i \in Node, NEW m, NEW value, CountsReply(i, m, value), m.id.type # "CREATE",
           m.id \in DOMAIN keyvalueMap
    PROVE  ops[m.id].told = <<>>
<1>1. m \in BagToSet(mp2q[i]) /\ IsAnswer(m)
  BY CountPopped DEF CountsReply, IsAnswer
<1>2. m.id \in NoCreation
  BY CountedBooks
<1>. QED BY <1>1, <1>2 DEF IInv, Flow, Verdicts

(* Counting a reply keeps the types, the schedule and what was issued.        *)
LEMMA CountKeepsTypes ==
    ASSUME IInv, NEW i \in Node, NEW m, NEW value, CountsReply(i, m, value)
    PROVE  TypeOK' /\ Shapes' /\ Schedule' /\ Issue'
<1>1. /\ CheckTurn(i) /\ m \in Replies /\ m.id \in Ids /\ Up' = Up
      /\ DOMAIN ops' = DOMAIN ops /\ NoCreation' = NoCreation
      /\ UNCHANGED <<bFailed, downFor, member, ring, ht, hasMyReplicas, net, g_transID>>
      /\ DOMAIN keyvalueMap' \subseteq DOMAIN keyvalueMap
      /\ \A id \in DOMAIN keyvalueMap' : keyvalueMap'[id] = keyvalueMap[id]
      /\ \A id \in DOMAIN ops : ops'[id] \in OpRecord /\ ops'[id].asked = ops[id].asked
  BY CountRecords
<1>2. phase = "check" /\ phase' = "check" /\ turn' = i /\ i \in Up
  BY <1>1, CheckTurns
<1>3. /\ DOMAIN mp2q' = Node /\ \A j \in Node : IsABag(mp2q'[j])
      /\ \A j \in Node : BagToSet(mp2q'[j]) \subseteq BagToSet(mp2q[j])
  BY CountPopped
<1>4. PendingMessages' \subseteq PendingMessages
  BY <1>1, <1>3 DEF PendingMessages
<1>5. TypeOK'
  <2>1. i \in 0 .. EN_GPSZ
    BY RingAssumption DEF Node
  <2>. QED BY <1>1, <1>2, <1>4, <2>1 DEF IInv, TypeOK
<1>6. Shapes'
  <2>1. \A id \in DOMAIN tally' : tally'[id] \in [replies : Nat, successes : Nat]
    BY CountTallies
  <2>2. \A j \in Node : \A x \in BagToSet(mp2q'[j]) : x.to = j
    BY <1>3 DEF IInv, Shapes
  <2>. QED BY <1>1, <1>3, <1>4, <2>1, <2>2 DEF IInv, Shapes
<1>7. Schedule' /\ Issue'
  BY <1>1, <1>3, CheckKeepsSchedule DEF IInv, Issue
<1>. QED BY <1>5, <1>6, <1>7

(* It keeps the flow of messages: it takes a reply and sends nothing.         *)
LEMMA CountKeepsFlow ==
    ASSUME IInv, NEW i \in Node, NEW m, NEW value, CountsReply(i, m, value)
    PROVE  Flow'
<1>1. /\ CheckTurn(i) /\ m \in Replies /\ m.id \in Ids
      /\ DOMAIN ops' = DOMAIN ops /\ NoCreation' = NoCreation /\ net' = net
      /\ \A id \in DOMAIN ops :
            /\ ops'[id].key = ops[id].key /\ ops'[id].value = ops[id].value
            /\ ops'[id].coord = ops[id].coord /\ ops'[id].asked = ops[id].asked
            /\ ops'[id].did = ops[id].did
      /\ \A id \in DOMAIN ops : id # m.id => ops'[id].told = ops[id].told
  BY CountRecords
<1>2. /\ phase = "check" /\ phase' = "check" /\ turn' = i /\ i \in Up
      /\ DOMAIN tally # {} => i = turn
      /\ \A x \in BagToSet(net) : ~IsAsk(x)
  BY <1>1, CheckTurns
<1>3. /\ \A j \in Node : IsABag(mp2q'[j]) /\ BagToSet(mp2q'[j]) \subseteq BagToSet(mp2q[j])
      /\ \A j \in Node \ {i} : mp2q'[j] = mp2q[j]
      /\ \A x : Copies(x, mp2q'[i]) = Copies(x, mp2q[i]) - IF x = m THEN 1 ELSE 0
      /\ m \in BagToSet(mp2q[i]) /\ m.to = i
  BY CountPopped
<1>4. m.id.type # "CREATE" => IsAnswer(m)
  BY DEF CountsReply, IsAnswer
<1>5. DOMAIN tally' \subseteq DOMAIN tally \cup {m.id}
  BY CountTallies
<1>6. ASSUME NEW j \in Node, NEW x \in BagToSet(mp2q[j]), IsAsk(x)
      PROVE  x.id # m.id
  BY <1>3, <1>4, <1>6 DEF IInv, Flow, Stages, IsAsk
<1>7. ASSUME NEW x \in BagToSet(net), IsAnswer(x)
      PROVE  x.id # m.id
  BY <1>3, <1>4, <1>7 DEF IInv, Flow, Stages, IsAnswer
<1>8. AsksInFlight'
  BY <1>1, <1>2 DEF AsksInFlight
<1>9. AsksReceived'
  <2>. SUFFICES ASSUME NEW j \in Node, NEW x \in BagToSet(mp2q'[j]), IsAsk(x)
                PROVE  /\ x.id \in DOMAIN ops' /\ x = RequestOf(x.id, x.to)' /\ x.to \in ops'[x.id].asked
                       /\ mp2q'[j][x] = 1
                       /\ x.id \notin DOMAIN tally' /\ ops'[x.id].told = <<>>
    BY DEF AsksReceived
  <2>1. /\ x \in BagToSet(mp2q[j]) /\ x.id \in DOMAIN ops /\ x = RequestOf(x.id, x.to)
        /\ x.to \in ops[x.id].asked /\ mp2q[j][x] = 1
        /\ x.id \notin DOMAIN tally /\ ops[x.id].told = <<>> /\ x.id # m.id
    BY <1>3, <1>6 DEF IInv, Flow, AsksReceived
  <2>2. mp2q'[j][x] = 1
    <3>1. CASE j # i
      BY <1>3, <2>1, <3>1
    <3>2. CASE j = i
      <4>1. Copies(x, mp2q'[i]) = Copies(x, mp2q[i]) - 0
        BY <1>3, <2>1
      <4>2. Copies(x, mp2q[i]) = 1
        BY <2>1, <3>2 DEF Copies
      <4>. QED BY <3>2, <4>1, <4>2 DEF Copies
    <3>. QED BY <3>1, <3>2
  <2>. QED BY <1>1, <1>5, <2>1, <2>2 DEF RequestOf
<1>10. AnswersInFlight'
  <2>. SUFFICES ASSUME NEW x \in BagToSet(net), IsAnswer(x)
                PROVE  /\ x.id \in DOMAIN ops' /\ x.to = ops'[x.id].coord
                       /\ x.id \notin DOMAIN tally' /\ ops'[x.id].told = <<>>
    BY <1>1, <1>2 DEF AnswersInFlight
  <2>1. /\ x.id \in DOMAIN ops /\ x.to = ops[x.id].coord
        /\ x.id \notin DOMAIN tally /\ ops[x.id].told = <<>> /\ x.id # m.id
    BY <1>7 DEF IInv, Flow, AnswersInFlight
  <2>. QED BY <1>1, <1>5, <2>1
<1>11. AnswersReceived'
  <2>1. \A j \in Node : \A x \in BagToSet(mp2q[j]) : IsAnswer(x) =>
           x.id \in DOMAIN ops /\ j = ops[x.id].coord
    BY DEF IInv, Flow, AnswersReceived
  <2>2. \A id \in DOMAIN ops : ops'[id].coord = ops[id].coord
    BY <1>1
  <2>3. DOMAIN ops' = DOMAIN ops /\ \A j \in Node : BagToSet(mp2q'[j]) \subseteq BagToSet(mp2q[j])
    BY <1>1, <1>3
  <2>4. ASSUME NEW j \in Node, NEW x \in BagToSet(mp2q'[j]), IsAnswer(x)
        PROVE  x.id \in DOMAIN ops' /\ j = ops'[x.id].coord
    BY <2>1, <2>2, <2>3, <2>4
  <2>. QED BY <2>4 DEF AnswersReceived
<1>12. Stages'
  BY <1>1, <1>2, <1>3 DEF IInv, Flow, Stages
<1>13. Counting'
  <2>. SUFFICES ASSUME NEW id \in DOMAIN tally', id.type # "CREATE"
                PROVE  /\ id \in DOMAIN ops' /\ i = ops'[id].coord
                       /\ id \in DOMAIN keyvalueMap' => tally'[id].successes < quorumValue
    BY <1>2 DEF Counting
  <2>1. CASE id = m.id
    <3>1. id \in DOMAIN ops /\ i = ops[id].coord
      BY <2>1, CountedBooks DEF NoCreation
    <3>2. tally'[id] = NewCounts(m) /\ NewCounts(m) \in [replies : Nat, successes : Nat]
      BY <2>1, CountTallies
    <3>3. id \in DOMAIN keyvalueMap' => id \in DOMAIN keyvalueMap /\ ~Wins(m)
      BY <2>1, CountRecords
    <3>. QED BY <1>1, <2>1, <3>1, <3>2, <3>3 DEF Wins, quorumValue
  <2>2. CASE id # m.id
    <3>1. id \in DOMAIN tally /\ tally'[id] = tally[id]
      BY <1>5, <2>2, CountTallies
    <3>2. id \in DOMAIN keyvalueMap' => id \in DOMAIN keyvalueMap
      BY CountRecords
    <3>. QED BY <1>1, <1>2, <3>1, <3>2 DEF IInv, Flow, Counting
  <2>. QED BY <2>1, <2>2
<1>14. Verdicts'
  <2>. SUFFICES ASSUME NEW id \in NoCreation, ops'[id].told # <<>>
                PROVE  /\ Len(ops'[id].told) = 1
                       /\ \/ id \notin DOMAIN keyvalueMap'
                          \/ /\ id \notin DOMAIN tally'
                             /\ \A j \in Node : \A x \in BagToSet(mp2q'[j]) : IsAnswer(x) => x.id # id
                       /\ ops'[id].told[1].ok => Cardinality(ops'[id].did) >= quorumValue
    BY <1>1 DEF Verdicts, NoCreation
  <2>1. DOMAIN keyvalueMap' \subseteq DOMAIN keyvalueMap
    BY CountRecords
  <2>2. CASE id # m.id
    <3>1. id \in DOMAIN ops /\ ops'[id].told = ops[id].told /\ ops'[id].did = ops[id].did
      BY <1>1, <2>2 DEF NoCreation
    <3>2. /\ Len(ops[id].told) = 1
          /\ ops[id].told[1].ok => Cardinality(ops[id].did) >= quorumValue
          /\ \/ id \notin DOMAIN keyvalueMap
             \/ /\ id \notin DOMAIN tally
                /\ \A j \in Node : \A x \in BagToSet(mp2q[j]) : IsAnswer(x) => x.id # id
      <4>1. ops[id].told # <<>>
        BY <3>1
      <4>. QED BY <4>1 DEF IInv, Flow, Verdicts
    <3>3. id \in DOMAIN tally' => id \in DOMAIN tally
      BY <1>5, <2>2
    <3>4. \A j \in Node : \A x \in BagToSet(mp2q'[j]) : x \in BagToSet(mp2q[j])
      BY <1>3
    <3>. QED BY <2>1, <3>1, <3>2, <3>3, <3>4
  <2>3. CASE id = m.id /\ id \notin DOMAIN keyvalueMap
    <3>1. ~Wins(m) /\ ~Loses(m) /\ m.id \in DOMAIN ops
      BY <2>3 DEF Wins, Loses, NoCreation
    <3>2. ops'[m.id].told = ops[m.id].told
      BY <3>1, CountRecords
    <3>. QED BY <1>1, <2>1, <2>3, <3>2 DEF IInv, Flow, Verdicts, NoCreation
  <2>4. CASE id = m.id /\ id \in DOMAIN keyvalueMap
    <3>1. ops[id].told = <<>>
      BY <2>4, CountedInTime DEF NoCreation
    <3>2. CASE Wins(m)
      <4>1. ops'[id].told = Append(<<>>, [ok |-> TRUE, value |-> value])
        <5>1. m.id \in DOMAIN ops
          BY <2>4 DEF NoCreation
        <5>2. ops'[m.id].told = Append(ops[m.id].told, [ok |-> TRUE, value |-> value])
          BY <3>2, <5>1, CountRecords
        <5>. QED BY <2>4, <3>1, <5>2
      <4>2. id \notin DOMAIN keyvalueMap'
        BY <2>4, <3>2, CountRecords
      <4>3. Cardinality(ops[id].did) >= quorumValue
        BY <2>4, <3>2, WinBacked DEF NoCreation
      <4>. QED BY <1>1, <4>1, <4>2, <4>3 DEF NoCreation
    <3>3. CASE ~Wins(m)
      <4>1. Loses(m) /\ ops'[id].told = Append(<<>>, [ok |-> FALSE, value |-> NoValue])
        <5>1. Loses(m) /\ ops'[m.id].told = Append(ops[m.id].told, [ok |-> FALSE, value |-> NoValue])
          BY <2>4, <3>1, <3>3, CountRecords DEF NoCreation
        <5>. QED BY <2>4, <3>1, <5>1
      <4>2. id \notin DOMAIN keyvalueMap'
        BY <2>4, <4>1, CountRecords
      <4>. QED BY <4>1, <4>2
    <3>. QED BY <3>2, <3>3
  <2>. QED BY <2>2, <2>3, <2>4
<1>. QED BY <1>8, <1>9, <1>10, <1>11, <1>12, <1>13, <1>14 DEF Flow

(* It keeps the books: the replica whose reply it was goes over to those that *)
(* are counted.                                                               *)
LEMMA CountKeepsAccounts ==
    ASSUME IInv, NEW i \in Node, NEW m, NEW value, CountsReply(i, m, value)
    PROVE  Accounts'
<1>1. /\ m \in Replies /\ m.id \in Ids
      /\ DOMAIN ops' = DOMAIN ops /\ NoCreation' = NoCreation /\ net' = net
      /\ \A id \in DOMAIN ops : /\ ops'[id].coord = ops[id].coord
                                /\ ops'[id].asked = ops[id].asked
                                /\ ops'[id].did = ops[id].did
  BY CountRecords
<1>2. /\ \A j \in Node : IsABag(mp2q'[j]) /\ BagToSet(mp2q'[j]) \subseteq BagToSet(mp2q[j])
      /\ \A j \in Node \ {i} : mp2q'[j] = mp2q[j]
      /\ \A x : Copies(x, mp2q'[i]) = Copies(x, mp2q[i]) - IF x = m THEN 1 ELSE 0
      /\ m \in BagToSet(mp2q[i])
  BY CountPopped
<1>3. PendingMessages' \subseteq PendingMessages
  BY <1>1, <1>2 DEF PendingMessages
<1>4. ASSUME NEW id \in NoCreation, id # m.id
      PROVE  \E R \in SUBSET ops'[id].asked :
                \E f \in [R -> AnswersOf(id)'], counted \in SUBSET R : Account(id, f, counted)'
  <2>1. id \in Ids /\ id.type # "CREATE"
    BY DEF NoCreation, IInv, TypeOK
  <2>2. Counts(id)' = Counts(id)
    BY <1>4, <2>1, CountTallies
  <2>3. DOMAIN tally' \subseteq DOMAIN tally \cup {m.id}
    BY CountTallies
  <2>4. Pending(id)' => Pending(id) /\ Counts(id)' = Counts(id)
    BY <1>3, <1>4, <2>2, <2>3 DEF Pending
  <2>5. ASSUME NEW y \in AnswersOf(id)
        PROVE  Copies(y, net') + Copies(y, mp2q'[ops[id].coord])
                  = Copies(y, net) + Copies(y, mp2q[ops[id].coord])
    <3>1. y # m /\ ops[id].coord \in Node /\ Copies(y, mp2q[i]) \in Nat
      BY <1>4, BagCopies DEF AnswersOf, NoCreation, IInv, Shapes, OpRecord
    <3>2. Copies(y, mp2q'[ops[id].coord]) = Copies(y, mp2q[ops[id].coord])
      BY <1>2, <3>1
    <3>. QED BY <1>1, <3>2
  <2>6. ops'[id].asked = ops[id].asked /\ ops'[id].did = ops[id].did /\ ops'[id].coord = ops[id].coord
    BY <1>1 DEF NoCreation
  <2>7. \A x \in PendingMessages' : x.id = id => x \in PendingMessages
    BY <1>3
  <2>. QED BY <1>1, <2>4, <2>5, <2>6, <2>7, AccountsKept DEF IInv
<1>5. ASSUME m.id \in NoCreation
      PROVE  \E R \in SUBSET ops'[m.id].asked :
                \E f \in [R -> AnswersOf(m.id)'], counted \in SUBSET R : Account(m.id, f, counted)'
  <2>. DEFINE id == m.id
              coord == ops[id].coord
  <2>1. id \in NoCreation /\ id.type # "CREATE"
    BY <1>5 DEF NoCreation
  <2>2. i = coord /\ coord \in Node /\ m \in AnswersOf(id)
    BY <2>1, CountedBooks
  <2>3. PICK R \in SUBSET ops[id].asked :
           \E f \in [R -> AnswersOf(id)], counted \in SUBSET R : \E x \in R \ counted :
              /\ Account(id, f, counted) /\ f[x] = m
              /\ NewCounts(m).replies = Cardinality(counted \cup {x})
              /\ NewCounts(m).successes = Cardinality((counted \cup {x}) \cap ops[id].did)
    BY <2>1, CountedBooks, Zenon
  <2>. PICK f \in [R -> AnswersOf(id)], counted \in SUBSET R : \E x \in R \ counted :
              /\ Account(id, f, counted) /\ f[x] = m
              /\ NewCounts(m).replies = Cardinality(counted \cup {x})
              /\ NewCounts(m).successes = Cardinality((counted \cup {x}) \cap ops[id].did)
    BY <2>3
  <2>4. PICK x \in R \ counted :
              /\ Account(id, f, counted) /\ f[x] = m
              /\ NewCounts(m).replies = Cardinality(counted \cup {x})
              /\ NewCounts(m).successes = Cardinality((counted \cup {x}) \cap ops[id].did)
    OBVIOUS
  <2>5. AnswersOf(id)' = AnswersOf(id)
    BY <1>1, <2>1 DEF AnswersOf, NoCreation
  <2>6. ops'[id].did = ops[id].did /\ ops'[id].asked = ops[id].asked /\ ops'[id].coord = coord
    BY <1>1, <2>1 DEF NoCreation
  <2>7. Account(id, f, counted \cup {x})'
    <3>1. /\ counted \cup {x} \subseteq DOMAIN f /\ ops'[id].did \subseteq DOMAIN f
          /\ \A y \in DOMAIN f : Success(f[y]) <=> y \in ops'[id].did
      BY <2>4, <2>6 DEF Account
    <3>2. \A y \in PendingMessages' : IsAsk(y) /\ y.id = id => y.to \notin DOMAIN f
      BY <1>3, <2>4 DEF Account
    <3>3. ASSUME NEW y \in AnswersOf(id)
          PROVE  Copies(y, net') + Copies(y, mp2q'[coord])
                    = Cardinality({z \in DOMAIN f \ (counted \cup {x}) : f[z] = y})
      <4>. DEFINE old == {z \in DOMAIN f \ counted : f[z] = y}
                  new == {z \in DOMAIN f \ (counted \cup {x}) : f[z] = y}
      <4>1. Copies(y, net) + Copies(y, mp2q[coord]) = Cardinality(old)
        BY <2>4 DEF Account
      <4>2. Copies(y, net) \in Nat /\ Copies(y, mp2q[coord]) \in Nat
        BY <2>2, BagCopies DEF IInv, Shapes
      <4>3. Copies(y, mp2q'[coord]) = Copies(y, mp2q[coord]) - IF y = m THEN 1 ELSE 0
        BY <1>2, <2>2
      <4>4. CASE y = m
        <5>1. new = old \ {x} /\ x \in old
          BY <2>4, <4>4
        <5>2. old \in SUBSET Node
          BY <2>1 DEF NoCreation, IInv, Shapes, OpRecord
        <5>3. Cardinality(old \ {x}) = Cardinality(old) - 1
          <6>1. IsFiniteSet(old)
            BY <5>2, NodeFacts
          <6>2. x \in old
            BY <5>1
          <6>. HIDE DEF old
          <6>. QED BY <6>1, <6>2, FS_RemoveElement
        <5>4. Copies(y, mp2q'[coord]) = Copies(y, mp2q[coord]) - 1
          BY <4>3, <4>4
        <5>5. Cardinality(new) = Cardinality(old) - 1
          BY <5>1, <5>3
        <5>. HIDE DEF old
        <5>. QED BY <1>1, <4>1, <4>2, <5>4, <5>5
      <4>5. CASE y # m
        <5>1. new = old
          BY <2>4, <4>5
        <5>2. Copies(y, mp2q'[coord]) = Copies(y, mp2q[coord])
          BY <4>2, <4>3, <4>5
        <5>. QED BY <1>1, <4>1, <5>1, <5>2
      <4>. QED BY <4>4, <4>5
    <3>4. /\ Counts(id)'.replies = Cardinality(counted \cup {x})
          /\ Counts(id)'.successes = Cardinality((counted \cup {x}) \cap ops'[id].did)
      <4>1. Counts(id)' = NewCounts(m)
        <5>1. m.id \in DOMAIN tally' /\ tally'[m.id] = NewCounts(m)
          BY <2>1, CountTallies
        <5>. QED BY <5>1 DEF Counts
      <4>. QED BY <2>4, <2>6, <4>1
    <3>5. \A y \in AnswersOf(id)' :
             Copies(y, net') + Copies(y, mp2q'[ops'[id].coord])
                = Cardinality({z \in DOMAIN f \ (counted \cup {x}) : f[z] = y})
      BY <2>5, <2>6, <3>3
    <3>. QED BY <3>1, <3>2, <3>4, <3>5 DEF Account
  <2>8. \E g \in [R -> AnswersOf(id)'], done \in SUBSET R : Account(id, g, done)'
    BY <2>4, <2>5, <2>7
  <2>. QED BY <2>6, <2>8
<1>6. ASSUME NEW id \in NoCreation
      PROVE  \E R \in SUBSET ops'[id].asked :
                \E f \in [R -> AnswersOf(id)'], counted \in SUBSET R : Account(id, f, counted)'
  <2>1. CASE id = m.id
    BY <1>5, <2>1, Zenon
  <2>2. CASE id # m.id
    BY <1>4, <2>2
  <2>. QED BY <2>1, <2>2
<1>. QED BY <1>1, <1>6 DEF Accounts

-------------------------------------------------------------------------------
(* The queue is empty, and failures are logged.                               *)
LEMMA EndKeepsIInv ==
    ASSUME IInv, NEW i \in Node, endOfMessages(i)
    PROVE  IInv'
<1>1. /\ CheckTurn(i) /\ mp2q[i] = EmptyBag /\ DOMAIN tally' = {}
      /\ UNCHANGED <<bFailed, downFor, member, ring, ht, hasMyReplicas, net, mp2q,
                     g_transID, keyvalueMap>>
      /\ ops' = Tell(Unsettled, FALSE, NoValue)
  BY DEF endOfMessages, failVars, nodeVars, netVars
<1>2. /\ phase = "check" /\ phase' = "check" /\ turn' = i /\ i \in Up
      /\ DOMAIN tally # {} => i = turn
      /\ \A x \in BagToSet(net) : ~IsAsk(x)
  BY <1>1, CheckTurns
<1>3. PendingMessages' = PendingMessages /\ BagToSet(mp2q[i]) = {}
  BY <1>1, BagEmpty DEF PendingMessages
<1>4. /\ DOMAIN ops' = DOMAIN ops
      /\ \A id \in DOMAIN ops : id \notin Unsettled => ops'[id] = ops[id]
      /\ \A id \in DOMAIN ops \cap Unsettled :
            ops'[id] = [ops[id] EXCEPT !.told = Append(ops[id].told, [ok |-> FALSE, value |-> NoValue])]
  BY <1>1 DEF Tell
<1>5. ASSUME NEW r \in OpRecord, NEW new,
             new = [r EXCEPT !.told = Append(r.told, [ok |-> FALSE, value |-> NoValue])]
      PROVE  /\ new \in OpRecord /\ new.told = Append(r.told, [ok |-> FALSE, value |-> NoValue])
             /\ new.key = r.key /\ new.value = r.value /\ new.coord = r.coord
             /\ new.asked = r.asked /\ new.did = r.did
  <2>1. r.told \in Seq([ok : BOOLEAN, value : Value \cup {NoValue}])
    BY DEF OpRecord
  <2>2. Append(r.told, [ok |-> FALSE, value |-> NoValue]) \in Seq([ok : BOOLEAN, value : Value \cup {NoValue}])
    BY <2>1
  <2>. QED BY <1>5, <2>2 DEF OpRecord
<1>6. ASSUME NEW id \in DOMAIN ops
      PROVE  /\ ops'[id] \in OpRecord
             /\ ops'[id].key = ops[id].key /\ ops'[id].value = ops[id].value
             /\ ops'[id].coord = ops[id].coord /\ ops'[id].asked = ops[id].asked
             /\ ops'[id].did = ops[id].did
             /\ id \notin DOMAIN tally => ops'[id].told = ops[id].told
             /\ id \notin Unsettled => ops'[id].told = ops[id].told
             /\ id \in Unsettled =>
                   ops'[id].told = Append(ops[id].told, [ok |-> FALSE, value |-> NoValue])
  <2>1. ops[id] \in OpRecord
    BY DEF IInv, Shapes
  <2>2. id \in Unsettled => id \in DOMAIN tally
    BY DEF Unsettled
  <2>3. CASE id \in Unsettled
    <3>1. ops'[id] = [ops[id] EXCEPT !.told = Append(ops[id].told, [ok |-> FALSE, value |-> NoValue])]
      BY <1>4, <2>3
    <3>2. /\ ops'[id] \in OpRecord
          /\ ops'[id].told = Append(ops[id].told, [ok |-> FALSE, value |-> NoValue])
          /\ ops'[id].key = ops[id].key /\ ops'[id].value = ops[id].value
          /\ ops'[id].coord = ops[id].coord /\ ops'[id].asked = ops[id].asked
          /\ ops'[id].did = ops[id].did
      BY <1>5, <2>1, <3>1
    <3>. QED BY <2>2, <2>3, <3>2
  <2>4. CASE id \notin Unsettled
    <3>1. ops'[id] = ops[id]
      BY <1>4, <2>4
    <3>. QED BY <2>1, <2>4, <3>1
  <2>. QED BY <2>3, <2>4
<1>7. NoCreation' = NoCreation
  BY <1>4 DEF NoCreation
(* Nothing of an operation that has counts is there any more. *)
<1>8. ASSUME NEW id \in NoCreation, id \in DOMAIN tally
      PROVE  \A m \in PendingMessages : m.id # id
  <2>1. i = ops[id].coord
    BY <1>2, <1>8 DEF IInv, Flow, Counting, NoCreation
  <2>2. ASSUME NEW m \in PendingMessages, m.id = id PROVE FALSE
    <3>1. Ours(m)
      BY <2>2, PendingKinds DEF IInv, NoCreation
    <3>2. m \notin BagToSet(net)
      BY <1>8, <2>2, <3>1 DEF Ours, IInv, Flow, AsksInFlight, AnswersInFlight
    <3>3. PICK j \in Node : m \in BagToSet(mp2q[j])
      BY <3>2 DEF PendingMessages
    <3>4. IsAnswer(m) /\ j = i
      BY <1>8, <2>1, <2>2, <3>1, <3>3 DEF Ours, IInv, Flow, AsksReceived, AnswersReceived
    <3>. QED BY <1>3, <3>3, <3>4
  <2>. QED BY <2>2
<1>9. TypeOK'
  <2>1. i \in 0 .. EN_GPSZ
    BY RingAssumption DEF Node
  <2>. QED BY <1>1, <1>2, <1>3, <1>4, <2>1 DEF IInv, TypeOK
<1>10. Shapes'
  BY <1>1, <1>3, <1>4, <1>6 DEF IInv, Shapes
<1>11. Schedule' /\ Issue'
  BY <1>1, <1>4, <1>6, CheckKeepsSchedule DEF IInv, Issue
<1>12. AsksInFlight' /\ Stages' /\ Counting'
  BY <1>1, <1>2 DEF AsksInFlight, IInv, Flow, Stages, Counting
<1>13. AsksReceived'
  <2>. SUFFICES ASSUME NEW j \in Node, NEW x \in BagToSet(mp2q[j]), IsAsk(x)
                PROVE  /\ x.id \in DOMAIN ops' /\ x = RequestOf(x.id, x.to)' /\ x.to \in ops'[x.id].asked
                       /\ mp2q[j][x] = 1 /\ ops'[x.id].told = <<>>
    BY <1>1 DEF AsksReceived
  <2>1. /\ x.id \in DOMAIN ops /\ x = RequestOf(x.id, x.to)
        /\ x.to \in ops[x.id].asked /\ mp2q[j][x] = 1
        /\ x.id \notin DOMAIN tally /\ ops[x.id].told = <<>>
    BY DEF IInv, Flow, AsksReceived
  <2>. QED BY <1>4, <1>6, <2>1 DEF RequestOf
<1>14. AnswersInFlight' /\ AnswersReceived'
  <2>1. \A x \in BagToSet(net) : IsAnswer(x) =>
           /\ x.id \in DOMAIN ops /\ x.to = ops[x.id].coord
           /\ x.id \notin DOMAIN tally /\ ops[x.id].told = <<>>
    BY DEF IInv, Flow, AnswersInFlight
  <2>2. AnswersInFlight'
    BY <1>1, <1>2, <1>4, <1>6, <2>1 DEF AnswersInFlight
  <2>3. AnswersReceived'
    <3>1. \A j \in Node : \A x \in BagToSet(mp2q[j]) : IsAnswer(x) =>
             x.id \in DOMAIN ops /\ j = ops[x.id].coord
      BY DEF IInv, Flow, AnswersReceived
    <3>2. /\ DOMAIN ops' = DOMAIN ops /\ \A id \in DOMAIN ops : ops'[id].coord = ops[id].coord
      BY <1>4, <1>6
    <3>3. mp2q' = mp2q
      BY <1>1
    <3>4. ASSUME NEW j \in Node, NEW x \in BagToSet(mp2q'[j]), IsAnswer(x)
          PROVE  x.id \in DOMAIN ops' /\ j = ops'[x.id].coord
      BY <3>1, <3>2, <3>3, <3>4
    <3>. QED BY <3>4 DEF AnswersReceived
  <2>. QED BY <2>2, <2>3
<1>15. Verdicts'
  <2>. SUFFICES ASSUME NEW id \in NoCreation, ops'[id].told # <<>>
                PROVE  /\ Len(ops'[id].told) = 1
                       /\ \/ id \notin DOMAIN keyvalueMap
                          \/ /\ id \notin DOMAIN tally'
                             /\ \A j \in Node : \A x \in BagToSet(mp2q[j]) : IsAnswer(x) => x.id # id
                       /\ ops'[id].told[1].ok => Cardinality(ops'[id].did) >= quorumValue
    BY <1>1, <1>7 DEF Verdicts, NoCreation
  <2>1. CASE id \in Unsettled
    <3>1. id \in DOMAIN tally /\ id \in DOMAIN keyvalueMap /\ id \in DOMAIN ops
      BY <2>1 DEF Unsettled, NoCreation
    <3>2. ops[id].told = <<>>
      BY <3>1 DEF IInv, Flow, Verdicts
    <3>3. ops'[id].told = Append(<<>>, [ok |-> FALSE, value |-> NoValue])
      BY <1>6, <2>1, <3>1, <3>2
    <3>4. \A j \in Node : \A x \in BagToSet(mp2q[j]) : x.id # id
      BY <1>8, <3>1 DEF PendingMessages
    <3>5. Len(ops'[id].told) = 1 /\ ~ops'[id].told[1].ok
      BY <3>3
    <3>. QED BY <1>1, <3>4, <3>5
  <2>2. CASE id \notin Unsettled
    <3>1. ops'[id].told = ops[id].told /\ ops'[id].did = ops[id].did
      BY <1>6, <2>2 DEF NoCreation
    <3>. QED BY <1>1, <3>1 DEF IInv, Flow, Verdicts
  <2>. QED BY <2>1, <2>2
<1>16. Accounts'
  <2>1. ASSUME NEW id \in NoCreation
        PROVE  \E R \in SUBSET ops'[id].asked :
                  \E f \in [R -> AnswersOf(id)'], counted \in SUBSET R : Account(id, f, counted)'
    <3>1. /\ ops'[id].asked = ops[id].asked /\ ops'[id].did = ops[id].did
          /\ ops'[id].coord = ops[id].coord
      BY <1>6 DEF NoCreation
    <3>2. Pending(id)' => id \notin DOMAIN tally
      BY <1>1, <1>3, <1>8 DEF Pending
    <3>3. Pending(id)' => Pending(id) /\ Counts(id)' = Counts(id)
      BY <1>1, <1>3, <3>2 DEF Pending, Counts
    <3>. QED BY <1>1, <1>3, <1>7, <3>1, <3>3, AccountsKept DEF IInv
  <2>. QED BY <1>7, <2>1 DEF Accounts
<1>. QED BY <1>9, <1>10, <1>11, <1>12, <1>13, <1>14, <1>15, <1>16 DEF IInv, Flow

-------------------------------------------------------------------------------
(* The theorems.                                                              *)

(* A step in which nothing changes keeps the invariant.                       *)
LEMMA StutterKeepsIInv ==
    ASSUME IInv, UNCHANGED vars
    PROVE  IInv'
<1>1. /\ UNCHANGED <<phase, turn, bFailed, downFor, member, ring, ht, hasMyReplicas, net, mp2q,
                     g_transID, keyvalueMap, tally, ops>>
  BY DEF vars, driverVars, failVars, nodeVars, netVars, coordVars
<1>2. PendingMessages' = PendingMessages /\ NoCreation' = NoCreation /\ Up' = Up
  BY <1>1 DEF PendingMessages, NoCreation, Up
<1>3. TypeOK' /\ Shapes' /\ Schedule' /\ Issue'
  BY <1>1, <1>2 DEF IInv, TypeOK, Shapes, Schedule, Issue
<1>4. AsksInFlight' /\ AsksReceived' /\ AnswersInFlight' /\ AnswersReceived'
  BY <1>1, <1>2 DEF IInv, Flow, AsksInFlight, AsksReceived, AnswersInFlight, AnswersReceived, RequestOf
<1>5. Stages' /\ Counting' /\ Verdicts'
  BY <1>1, <1>2 DEF IInv, Flow, Stages, Counting, Verdicts
<1>6. Accounts'
  <2>1. ASSUME NEW id \in NoCreation
        PROVE  \E R \in SUBSET ops'[id].asked :
                  \E f \in [R -> AnswersOf(id)'], counted \in SUBSET R : Account(id, f, counted)'
    <3>1. Pending(id)' => Pending(id) /\ Counts(id)' = Counts(id)
      BY <1>1, <1>2 DEF Pending, Counts
    <3>. QED BY <1>1, <1>2, <3>1, AccountsKept DEF IInv
  <2>. QED BY <1>2, <2>1 DEF Accounts
<1>. QED BY <1>3, <1>4, <1>5, <1>6 DEF IInv, Flow

(* Every step keeps the invariant.                                            *)
LEMMA NextKeepsIInv ==
    ASSUME IInv, [Next]_vars
    PROVE  IInv'
<1>1. ASSUME NEW i \in Node, checkMessages(i)
      PROVE  IInv'
  <2>1. CASE createKeyValue(i) \/ readKey(i) \/ updateKeyValue(i) \/ deletekey(i)
    <3>1. PICK m, answer : Serves(i, m, answer)
      BY <2>1, HandlersServe
    <3>. QED BY <3>1, ServeKeepsTypes, ServeKeepsFlow, ServeKeepsAccounts DEF IInv
  <2>2. CASE recvREPLY(i) \/ recvREADREPLY(i)
    <3>1. PICK m, value : CountsReply(i, m, value)
      BY <2>2, HandlersCount
    <3>. QED BY <3>1, CountKeepsTypes, CountKeepsFlow, CountKeepsAccounts DEF IInv
  <2>3. CASE endOfMessages(i)
    BY <2>3, EndKeepsIInv
  <2>. QED BY <1>1, <2>1, <2>2, <2>3 DEF checkMessages
<1>2. CASE Run
  BY <1>1, <1>2, ClockKeepsIInv, LoopEndKeepsIInv, RingTurnsKeepIInv DEF Run
<1>3. ASSUME NEW i \in Node,
             \/ fail(i)
             \/ \E type \in ClientOps, k \in Key, v \in Value \cup {NoValue} : client(i, type, k, v)
      PROVE  IInv'
  BY <1>3, FailKeepsIInv, ClientKeepsIInv
<1>4. CASE UNCHANGED vars
  BY <1>4, StutterKeepsIInv
<1>. QED BY <1>2, <1>3, <1>4 DEF Next

(* The inductive invariant holds in every reachable state: of the code of     *)
(* MP2Node.cpp it says where the messages of an operation can be in a tick,   *)
(* and that the counts of a coordinator are those of the replies it has had.  *)
THEOREM Invariance == Spec => []IInv
<1>1. Init => IInv
  BY InitIInv
<1>2. IInv /\ [Next]_vars => IInv'
  BY NextKeepsIInv
<1>. QED BY <1>1, <1>2, PTL DEF Spec

(* The state of the store keeps its types: tables hold values that clients    *)
(* wrote, messages are well-formed, and every id in the map was issued.       *)
THEOREM TypeCorrect == Spec => []TypeOK
<1>1. IInv => TypeOK
  BY DEF IInv
<1>. QED BY <1>1, Invariance, PTL

(* A success is backed by a quorum: at least two replicas have done a read,   *)
(* an update or a deletion that a coordinator logs as a success.              *)
THEOREM SuccessesAreBacked == Spec => []QuorumBacked
<1>1. IInv => QuorumBacked
  <2>. SUFFICES ASSUME IInv, NEW id \in DOMAIN ops, Succeeded(id), id.type # "CREATE"
                PROVE  Cardinality(ops[id].did) >= 2
    BY DEF QuorumBacked
  <2>1. id \in NoCreation /\ ops[id] \in OpRecord
    BY DEF NoCreation, IInv, Shapes
  <2>2. PICK n \in DOMAIN ops[id].told : ops[id].told[n].ok
    BY DEF Succeeded
  <2>3. ops[id].told \in Seq([ok : BOOLEAN, value : Value \cup {NoValue}])
    BY <2>1 DEF OpRecord
  <2>4. ops[id].told # <<>>
    BY <2>2
  <2>5. Len(ops[id].told) = 1 /\ (ops[id].told[1].ok => Cardinality(ops[id].did) >= quorumValue)
    BY <2>1, <2>4 DEF IInv, Flow, Verdicts
  <2>6. n = 1
    BY <2>2, <2>3, <2>5
  <2>. QED BY <2>2, <2>5, <2>6 DEF quorumValue
<1>. QED BY <1>1, Invariance, PTL

(* A read, an update or a deletion is logged once at most, as whatever: after *)
(* a verdict neither a late reply nor the end of a later call, which meets    *)
(* counts and transactions that were not erased (MP2Node.cpp:544, 611), gives *)
(* another.  (This is the part of OneVerdict that holds whatever the ids.)    *)
VerdictIsFinal == \A id \in NoCreation : Len(ops[id].told) <= 1
THEOREM VerdictsAreFinal == Spec => []VerdictIsFinal
<1>1. IInv => VerdictIsFinal
  <2>. SUFFICES ASSUME IInv, NEW id \in NoCreation PROVE Len(ops[id].told) <= 1
    BY DEF VerdictIsFinal
  <2>1. CASE ops[id].told = <<>>
    BY <2>1
  <2>2. CASE ops[id].told # <<>>
    <3>1. Len(ops[id].told) = 1
      BY <2>2 DEF IInv, Flow, Verdicts
    <3>. QED BY <3>1
  <2>. QED BY <2>1, <2>2
<1>. QED BY <1>1, Invariance, PTL

-------------------------------------------------------------------------------
(* The store implements Transactions: its steps are those of the abstract     *)
(* specification or change nothing of what that speaks of.                    *)

(* At first there are no transactions.                                        *)
LEMMA InitImplements == Init => T!Init
<1>. SUFFICES ASSUME Init PROVE T!Init
  OBVIOUS
<1>1. NoCreation = {}
  BY DEF Init, NoCreation
<1>2. \A g : [id \in {} |-> g[id]] = <<>>
  OBVIOUS
<1>. QED BY <1>1 DEF T!Init

(* A step that leaves the records of operations but creations alone.          *)
LEMMA SameTransactions ==
    ASSUME NoCreation' = NoCreation,
           \A id \in NoCreation : /\ ops'[id].asked = ops[id].asked
                                  /\ ops'[id].did = ops[id].did
                                  /\ ops'[id].told = ops[id].told
    PROVE  UNCHANGED T!transVars
BY DEF T!transVars, Told

(* The driver's issuing an operation is an Issue.                             *)
LEMMA ClientImplements ==
    ASSUME IInv, NEW c \in Node, NEW type \in ClientOps, NEW k \in Key,
           NEW v \in Value \cup {NoValue}, client(c, type, k, v)
    PROVE  T!Next \/ UNCHANGED T!transVars
<1>. PICK id : id = CRUDId(type, g_transID + 1)
  OBVIOUS
<1>. PICK replicas : replicas = findNodes(ring[c], k)
  OBVIOUS
<1>1. id.type = type /\ id.seq = g_transID + 1
  BY DEF CRUDId
<1>2. id \notin DOMAIN ops
  BY <1>1 DEF IInv, TypeOK, Issue, Ids
<1>3. replicas \in SUBSET Node
  BY ReplicasOnRing DEF IInv, TypeOK
<1>4. ops' = Put(ops, id, [key |-> k, value |-> v, coord |-> c,
                           asked |-> replicas, did |-> {}, told |-> <<>>])
  BY DEF client
<1>5. /\ DOMAIN ops' = DOMAIN ops \cup {id}
      /\ \A x \in DOMAIN ops : ops'[x] = ops[x]
      /\ ops'[id].asked = replicas /\ ops'[id].did = {} /\ ops'[id].told = <<>>
  BY <1>2, <1>4 DEF Put
<1>6. CASE type = "CREATE"
  <2>1. NoCreation' = NoCreation
    BY <1>1, <1>2, <1>5, <1>6 DEF NoCreation
  <2>. QED BY <1>5, <2>1, SameTransactions DEF NoCreation
<1>7. CASE type # "CREATE"
  <2>1. NoCreation' = NoCreation \cup {id} /\ id \notin NoCreation
    BY <1>1, <1>2, <1>5, <1>7 DEF NoCreation
  <2>2. \A x \in NoCreation : x # id /\ ops'[x] = ops[x]
    BY <1>2, <1>5 DEF NoCreation
  <2>3. \A x \in NoCreation : Told(x)' = Told(x)
    BY <2>2 DEF Told
  <2>4. Told(id)' = "none"
    BY <1>5 DEF Told
  <2>5. T!Issue(id, replicas)
    BY <1>5, <2>1, <2>2, <2>3, <2>4 DEF T!Issue, T!Issued, T!Extended
  <2>. QED BY <1>3, <2>1, <2>5 DEF T!Next
<1>. QED BY <1>6, <1>7

(* A replica's doing what is asked is a Do.                                   *)
LEMMA ServeImplements ==
    ASSUME IInv, NEW i \in Node, NEW m, NEW answer, Serves(i, m, answer)
    PROVE  T!Next \/ UNCHANGED T!transVars
<1>1. /\ DOMAIN ops' = DOMAIN ops /\ NoCreation' = NoCreation
      /\ \A id \in DOMAIN ops : ops'[id].asked = ops[id].asked /\ ops'[id].told = ops[id].told
      /\ \A id \in DOMAIN ops : id # m.id => ops'[id].did = ops[id].did
      /\ m.id \in DOMAIN ops =>
            ops'[m.id].did = IF m.type = m.id.type /\ \E a \in answer : Success(a)
                             THEN ops[m.id].did \cup {i} ELSE ops[m.id].did
  BY ServeMarks DEF NoCreation
<1>2. CASE m.id \in NoCreation /\ ops'[m.id].did # ops[m.id].did
  <2>1. m \in BagToSet(mp2q[i]) /\ m.to = i /\ m \in PendingMessages /\ IsAsk(m)
    BY <1>2, ServePopped DEF Serves, IsAsk, NoCreation
  <2>2. i \in ops[m.id].asked /\ ops[m.id].told = <<>>
    BY <2>1 DEF IInv, Flow, AsksReceived
  <2>3. ops'[m.id].did = ops[m.id].did \cup {i} /\ i \notin ops[m.id].did
    BY <1>1, <1>2 DEF NoCreation
  <2>4. \A id \in NoCreation : Told(id)' = Told(id)
    BY <1>1 DEF Told, NoCreation
  <2>5. Told(m.id) = "none"
    BY <2>2 DEF Told
  <2>6. T!Do(m.id, i)
    BY <1>1, <1>2, <2>2, <2>3, <2>4, <2>5 DEF T!Do, T!Issued, NoCreation
  <2>. QED BY <1>2, <2>6 DEF T!Next, T!Issued
<1>3. CASE ~ (m.id \in NoCreation /\ ops'[m.id].did # ops[m.id].did)
  BY <1>1, <1>3, SameTransactions DEF NoCreation
<1>. QED BY <1>2, <1>3

(* A declaration of the operations of a set, each of which had no verdict and *)
(* now has the one that the replicas that have done it call for.              *)
LEMMA DeclareImplements ==
    ASSUME NEW S \in SUBSET NoCreation, NoCreation' = NoCreation,
           \A id \in NoCreation : /\ ops'[id].asked = ops[id].asked
                                  /\ ops'[id].did = ops[id].did
                                  /\ id \notin S => ops'[id].told = ops[id].told,
           \A id \in S : /\ ops[id].told = <<>>
                         /\ Told(id)' = IF Cardinality(ops[id].did) >= 2 THEN "success" ELSE "failure"
    PROVE  T!Next
<1>1. \A id \in S : Told(id) = "none"
  BY DEF Told
<1>2. \A id \in NoCreation : id \notin S => Told(id)' = Told(id)
  BY DEF Told
<1>3. \A id \in NoCreation :
         Told(id)' = IF id \in S
                     THEN IF Cardinality(ops[id].did) >= 2 THEN "success" ELSE "failure"
                     ELSE Told(id)
  BY <1>2
<1>4. [id \in NoCreation |-> Told(id)]'
         = [id \in NoCreation |->
              IF id \in S THEN IF Cardinality(ops[id].did) >= 2 THEN "success" ELSE "failure"
              ELSE Told(id)]
  BY <1>3, Zenon
<1>5. /\ [id \in NoCreation |-> ops[id].asked]' = [id \in NoCreation |-> ops[id].asked]
      /\ [id \in NoCreation |-> ops[id].did]' = [id \in NoCreation |-> ops[id].did]
  BY Zenon
<1>6. T!Declare(S)
  <2>1. T!Issued = NoCreation
    BY DEF T!Issued
  <2>2. \A id \in S : [t \in NoCreation |-> Told(t)][id] = "none"
    BY <1>1
  <2>3. [t \in NoCreation |-> IF t \in S
                              THEN IF Cardinality(ops[t].did) >= 2 THEN "success" ELSE "failure"
                              ELSE Told(t)]
          = [t \in NoCreation |->
               IF t \notin S THEN [x \in NoCreation |-> Told(x)][t]
               ELSE IF Cardinality([x \in NoCreation |-> ops[x].did][t]) >= 2
                    THEN "success" ELSE "failure"]
    OBVIOUS
  <2>4. [t \in NoCreation |-> Told(t)]'
          = [t \in NoCreation |->
               IF t \notin S THEN [x \in NoCreation |-> Told(x)][t]
               ELSE IF Cardinality([x \in NoCreation |-> ops[x].did][t]) >= 2
                    THEN "success" ELSE "failure"]
    BY <1>4, <2>3
  <2>5. ASSUME NEW X PROVE T!Cardinality(X) = Cardinality(X)
    BY Zenon DEF T!Cardinality, Cardinality
  <2>. QED BY <1>5, <2>1, <2>2, <2>4, <2>5, Zenon DEF T!Declare
<1>. QED BY <1>6 DEF T!Next, T!Issued

(* Three replies are those of all replicas asked: when fewer than two of them *)
(* are successes, fewer than two replicas have done it.                       *)
LEMMA LossExact ==
    ASSUME IInv, NEW i \in Node, NEW m, NEW value, CountsReply(i, m, value), m.id.type # "CREATE",
           Loses(m)
    PROVE  ~ (Cardinality(ops[m.id].did) >= 2)
<1>1. m.id \in NoCreation
  BY CountedBooks
<1>2. PICK R \in SUBSET ops[m.id].asked :
         \E f \in [R -> AnswersOf(m.id)], counted \in SUBSET R : \E x \in R \ counted :
            /\ Account(m.id, f, counted) /\ f[x] = m
            /\ NewCounts(m).replies = Cardinality(counted \cup {x})
            /\ NewCounts(m).successes = Cardinality((counted \cup {x}) \cap ops[m.id].did)
  BY CountedBooks, Zenon
<1>3. PICK S \in SUBSET R : /\ ops[m.id].did \subseteq R
                            /\ NewCounts(m).replies = Cardinality(S)
                            /\ NewCounts(m).successes = Cardinality(S \cap ops[m.id].did)
  BY <1>2 DEF Account
<1>4. /\ ops[m.id].asked \in SUBSET Node /\ Cardinality(ops[m.id].asked) \in Nat
      /\ Cardinality(ops[m.id].asked) <= 3
  BY <1>1, NodeFacts DEF NoCreation, IInv, Issue, Shapes, OpRecord, expectedReplies
<1>5. Cardinality(S) = 3
  BY <1>3 DEF Loses, expectedReplies
<1>6. S \in SUBSET ops[m.id].asked
  OBVIOUS
<1>7. S = ops[m.id].asked
  BY <1>4, <1>5, <1>6, SubsetCard
<1>8. S \cap ops[m.id].did = ops[m.id].did
  BY <1>3, <1>7
<1>9. Cardinality(ops[m.id].did) = NewCounts(m).successes
  BY <1>3, <1>8
<1>. QED BY <1>9 DEF Loses, Wins, quorumValue

(* The verdict on a counted reply is a Declare of its operation.              *)
LEMMA CountImplements ==
    ASSUME IInv, NEW i \in Node, NEW m, NEW value, CountsReply(i, m, value)
    PROVE  T!Next \/ UNCHANGED T!transVars
<1>1. /\ DOMAIN ops' = DOMAIN ops /\ NoCreation' = NoCreation
      /\ \A id \in DOMAIN ops : ops'[id].asked = ops[id].asked /\ ops'[id].did = ops[id].did
      /\ \A id \in DOMAIN ops : id # m.id => ops'[id].told = ops[id].told
      /\ m.id \in DOMAIN ops =>
            /\ Wins(m) => ops'[m.id].told = Append(ops[m.id].told, [ok |-> TRUE, value |-> value])
            /\ ~Wins(m) => \/ ops'[m.id].told = ops[m.id].told
                           \/ /\ Loses(m)
                              /\ ops'[m.id].told
                                    = Append(ops[m.id].told, [ok |-> FALSE, value |-> NoValue])
  BY CountRecords
<1>2. CASE m.id \in NoCreation /\ ops'[m.id].told # ops[m.id].told
  <2>1. m.id.type # "CREATE" /\ m.id \in DOMAIN ops
    BY <1>2 DEF NoCreation
  <2>2. Wins(m) \/ (~Wins(m) /\ Loses(m))
    BY <1>1, <1>2, <2>1
  <2>3. ops[m.id].told = <<>>
    BY <2>1, <2>2, CountedInTime DEF Wins, Loses
  <2>4. Told(m.id)' = IF Cardinality(ops[m.id].did) >= 2 THEN "success" ELSE "failure"
    <3>1. CASE Wins(m)
      <4>1. ops'[m.id].told = Append(<<>>, [ok |-> TRUE, value |-> value])
        BY <1>1, <2>1, <2>3, <3>1
      <4>2. Told(m.id)' = "success"
        <5>1. ops'[m.id].told # <<>> /\ Len(ops'[m.id].told) = 1
          BY <4>1
        <5>2. ops'[m.id].told # <<[ok |-> FALSE, value |-> NoValue]>>
          <6>1. ops'[m.id].told[1].ok /\ ~ (<<[ok |-> FALSE, value |-> NoValue]>>[1].ok)
            BY <4>1
          <6>. QED BY <6>1
        <5>. QED BY <5>1, <5>2 DEF Told
      <4>. QED BY <2>1, <3>1, <4>2, WinBacked DEF quorumValue
    <3>2. CASE ~Wins(m) /\ Loses(m)
      <4>1. ops'[m.id].told = <<[ok |-> FALSE, value |-> NoValue]>>
        BY <1>1, <1>2, <2>1, <2>3, <3>2
      <4>2. Told(m.id)' = "failure"
        BY <4>1 DEF Told
      <4>. QED BY <2>1, <3>2, <4>2, LossExact
    <3>. QED BY <2>2, <3>1, <3>2
  <2>5. \A id \in {m.id} : /\ ops[id].told = <<>>
                           /\ Told(id)' = IF Cardinality(ops[id].did) >= 2 THEN "success" ELSE "failure"
    BY <2>3, <2>4
  <2>6. {m.id} \in SUBSET NoCreation
    BY <1>2
  <2>7. \A id \in NoCreation : /\ ops'[id].asked = ops[id].asked
                               /\ ops'[id].did = ops[id].did
                               /\ id \notin {m.id} => ops'[id].told = ops[id].told
    BY <1>1 DEF NoCreation
  <2>. QED BY <1>1, <2>5, <2>6, <2>7, DeclareImplements
<1>3. CASE ~ (m.id \in NoCreation /\ ops'[m.id].told # ops[m.id].told)
  BY <1>1, <1>3, SameTransactions DEF NoCreation
<1>. QED BY <1>2, <1>3

(* When the queue is empty nothing of an operation with counts is there any   *)
(* more (see EndKeepsIInv), so all replies are counted: the failures logged   *)
(* then are a Declare.                                                        *)
LEMMA EndImplements ==
    ASSUME IInv, NEW i \in Node, endOfMessages(i)
    PROVE  T!Next
<1>. DEFINE S == Unsettled \cap NoCreation
<1>1. ops' = Tell(Unsettled, FALSE, NoValue) /\ CheckTurn(i) /\ mp2q[i] = EmptyBag
  BY DEF endOfMessages
<1>2. /\ DOMAIN ops' = DOMAIN ops
      /\ \A id \in DOMAIN ops : id \notin Unsettled => ops'[id] = ops[id]
      /\ \A id \in DOMAIN ops \cap Unsettled :
            ops'[id] = [ops[id] EXCEPT !.told = Append(ops[id].told, [ok |-> FALSE, value |-> NoValue])]
  BY <1>1 DEF Tell
<1>3. NoCreation' = NoCreation
  BY <1>2 DEF NoCreation
<1>4. ASSUME NEW id \in NoCreation
      PROVE  /\ ops'[id].asked = ops[id].asked /\ ops'[id].did = ops[id].did
             /\ id \notin S => ops'[id].told = ops[id].told
             /\ id \in S => ops'[id].told = Append(ops[id].told, [ok |-> FALSE, value |-> NoValue])
  <2>1. id \in DOMAIN ops /\ ops[id] \in OpRecord
    BY DEF NoCreation, IInv, Shapes
  <2>2. CASE id \in Unsettled
    BY <1>2, <2>1, <2>2 DEF OpRecord
  <2>3. CASE id \notin Unsettled
    BY <1>2, <2>1, <2>3
  <2>. QED BY <2>2, <2>3
<1>5. ASSUME NEW id \in S
      PROVE  /\ ops[id].told = <<>>
             /\ Told(id)' = IF Cardinality(ops[id].did) >= 2 THEN "success" ELSE "failure"
  <2>1. /\ id \in NoCreation /\ id \in DOMAIN tally /\ id \in DOMAIN keyvalueMap
        /\ id \in DOMAIN ops /\ id.type # "CREATE"
    BY DEF Unsettled, NoCreation
  <2>2. ops[id].told = <<>>
    BY <2>1 DEF IInv, Flow, Verdicts
  <2>3. ops'[id].told = <<[ok |-> FALSE, value |-> NoValue]>>
    <3>1. id \in S
      BY <1>5
    <3>. HIDE DEF S
    <3>2. ops'[id].told = Append(ops[id].told, [ok |-> FALSE, value |-> NoValue])
      BY <1>4, <2>1, <3>1
    <3>. QED BY <2>2, <3>2
  <2>4. Told(id)' = "failure"
    BY <2>3 DEF Told
  <2>5. tally[id].successes < 2
    BY <2>1 DEF IInv, Flow, Counting, quorumValue
  <2>6. i = ops[id].coord /\ BagToSet(mp2q[i]) = {}
    <3>1. i = turn
      BY <1>1, <2>1, CheckTurns
    <3>. QED BY <1>1, <2>1, <3>1, BagEmpty DEF IInv, Flow, Counting
  <2>7. \A m \in AnswersOf(id) : Copies(m, net) = 0 /\ Copies(m, mp2q[ops[id].coord]) = 0
    <3>1. \A m \in AnswersOf(id) : IsAnswer(m) /\ m.id = id
      BY <2>1 DEF AnswersOf, IsAnswer, Replies
    <3>2. \A m \in AnswersOf(id) : m \notin BagToSet(net)
      BY <2>1, <3>1 DEF IInv, Flow, AnswersInFlight
    <3>. QED BY <2>6, <3>2 DEF Copies
  <2>8. PICK R \in SUBSET ops[id].asked :
           \E f \in [R -> AnswersOf(id)], counted \in SUBSET R : Account(id, f, counted)
    BY <2>1 DEF IInv, Accounts
  <2>9. PICK f \in [R -> AnswersOf(id)], counted \in SUBSET R : Account(id, f, counted)
    BY <2>8
  <2>10. ASSUME NEW x \in R \ counted PROVE FALSE
    <3>. DEFINE entries == {y \in DOMAIN f \ counted : f[y] = f[x]}
    <3>1. f[x] \in AnswersOf(id) /\ x \in entries
      BY <2>10
    <3>2. entries \in SUBSET Node
      BY <2>1 DEF IInv, Shapes, OpRecord
    <3>3. Cardinality(entries) = 0
      BY <2>7, <2>9, <3>1 DEF Account
    <3>. HIDE DEF entries
    <3>. QED BY <3>1, <3>2, <3>3, NodeFacts, FS_EmptySet
  <2>11. counted \cap ops[id].did = ops[id].did
    BY <2>9, <2>10 DEF Account
  <2>12. Cardinality(ops[id].did) = tally[id].successes
    BY <2>1, <2>9, <2>11 DEF Account, Pending, Counts
  <2>13. tally[id] \in [replies : Nat, successes : Nat]
    BY <2>1 DEF IInv, Shapes
  <2>14. ~ (Cardinality(ops[id].did) >= 2)
    BY <2>5, <2>12, <2>13
  <2>. QED BY <2>2, <2>4, <2>14
<1>. HIDE DEF S
<1>6. S \in SUBSET NoCreation
  BY DEF S
<1>. QED BY <1>3, <1>4, <1>5, <1>6, DeclareImplements

(* Every step of the store is one of Transactions or changes nothing there.   *)
LEMMA StepImplements ==
    ASSUME IInv, [Next]_vars
    PROVE  T!Next \/ UNCHANGED T!transVars
<1>1. ASSUME UNCHANGED ops
      PROVE  UNCHANGED T!transVars
  BY <1>1, SameTransactions DEF NoCreation
<1>2. ASSUME NEW i \in Node, checkMessages(i)
      PROVE  T!Next \/ UNCHANGED T!transVars
  <2>1. CASE createKeyValue(i) \/ readKey(i) \/ updateKeyValue(i) \/ deletekey(i)
    BY <2>1, HandlersServe, ServeImplements
  <2>2. CASE recvREPLY(i) \/ recvREADREPLY(i)
    BY <2>2, HandlersCount, CountImplements
  <2>3. CASE endOfMessages(i)
    BY <2>3, EndImplements
  <2>. QED BY <1>2, <2>1, <2>2, <2>3 DEF checkMessages
<1>3. CASE mp1Run \/ loopEnds \/ UNCHANGED vars
  BY <1>1, <1>3 DEF mp1Run, loopEnds, vars, coordVars
<1>4. ASSUME NEW i \in Node, updateRing(i) \/ stabilizationProtocol(i) \/ fail(i)
      PROVE  UNCHANGED T!transVars
  BY <1>1, <1>4 DEF updateRing, stabilizationProtocol, fail, coordVars
<1>5. ASSUME NEW i \in Node,
             \E type \in ClientOps, k \in Key, v \in Value \cup {NoValue} : client(i, type, k, v)
      PROVE  T!Next \/ UNCHANGED T!transVars
  BY <1>5, ClientImplements
<1>. QED BY <1>2, <1>3, <1>4, <1>5 DEF Next, Run

(* Operations but creations behave like those of Transactions: replicas do    *)
(* what is asked before the verdict, and the verdict, given once and for      *)
(* good, is a success if and only if two of them have done it.                *)
THEOREM StoreImplements == Spec => ImplementsTransactions
<1>1. Init => T!Init
  BY InitImplements
<1>2. IInv /\ [Next]_vars => [T!Next]_(T!transVars)
  BY StepImplements
<1>. QED BY <1>1, <1>2, Invariance, PTL DEF Spec, ImplementsTransactions, T!Spec
===============================================================================
