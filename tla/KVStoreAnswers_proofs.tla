------------------------ MODULE KVStoreAnswers_proofs -------------------------
(* Reads and updates get an answer, for every ring, every number of nodes,    *)
(* keys and operations, every set of failures and every course of detection;  *)
(* and creations survive one failure.                                         *)
EXTENDS KVStore_proofs

-------------------------------------------------------------------------------
(* What has to hold besides the invariant of KVStore_proofs.                  *)

(* Operations do not share transaction numbers, and at most one message has   *)
(* an id that is that of no operation: a stabilization message or the reply   *)
(* to it.  So such ids cannot get two successes, which would keep a failure   *)
(* from being logged (see CountReply).                                        *)
Strays ==
    /\ \A x, y \in DOMAIN ops : x.seq = y.seq => x = y
    /\ \A m \in PendingMessages : m.id \notin DOMAIN ops =>
          /\ m.id.seq < g_transID
          /\ Copies(m, net) <= 1
          /\ \A i \in Node : /\ Copies(m, mp2q[i]) <= 1
                             /\ m \in BagToSet(mp2q[i]) => m \notin BagToSet(net)
          /\ \A n \in PendingMessages : n.id = m.id => n = m
          /\ m.id \notin DOMAIN tally
    /\ \A id \in DOMAIN tally : id \notin DOMAIN ops => tally[id].successes <= 1

(* A read or an update without a verdict is in the map, and every replica     *)
(* that was asked is still to be asked, or a reply is to be counted or has    *)
(* been counted in this call; unless the replica or the coordinator failed.   *)
Waiting(id) ==
    id.type \in {"READ", "UPDATE"} /\ ops[id].coord \in Up /\ ops[id].told = <<>>
ToCome(id, x) ==
    \/ \E m \in PendingMessages : m.id = id /\ IsAsk(m) /\ m.to = x
    \/ \E m \in PendingMessages : m.id = id /\ IsAnswer(m)
    \/ id \in DOMAIN tally
Awaited ==
    \A id \in DOMAIN ops : Waiting(id) =>
        /\ id \in DOMAIN keyvalueMap
        /\ \A x \in ops[id].asked \cap Up : ToCome(id, x)

AInv == IInv /\ Strays /\ Awaited

-------------------------------------------------------------------------------
(* At first nothing has been issued and nothing is pending.                   *)
LEMMA InitAnswers == Init => Strays /\ Awaited
<1>. SUFFICES ASSUME Init PROVE Strays /\ Awaited
  OBVIOUS
<1>1. BagToSet(net) = {} /\ \A i \in Node : BagToSet(mp2q[i]) = {}
  BY BagEmpty DEF Init
<1>2. PendingMessages = {} /\ DOMAIN ops = {} /\ DOMAIN tally = {}
  BY <1>1 DEF PendingMessages, Init
<1>. QED BY <1>2 DEF Strays, Awaited

(* A step that neither moves nor makes messages of no operation, and leaves   *)
(* the operations and the counts alone, keeps what is said of such messages.  *)
LEMMA StraysKept ==
    ASSUME Strays, DOMAIN ops' = DOMAIN ops, tally' = tally, mp2q' = mp2q,
           g_transID' = g_transID,
           BagToSet(net') \subseteq BagToSet(net),
           \A m \in BagToSet(net') : Copies(m, net') = Copies(m, net)
    PROVE  Strays'
<1>1. PendingMessages' \subseteq PendingMessages
  BY DEF PendingMessages
<1>2. \A m \in PendingMessages' : Copies(m, net') = Copies(m, net) \/ Copies(m, net') = 0
  BY DEF Copies
<1>3. \A m \in PendingMessages' : m.id \notin DOMAIN ops => Copies(m, net') <= 1
  BY <1>1, <1>2 DEF Strays
<1>. QED BY <1>1, <1>3 DEF Strays

(* What is awaited stays so when nothing that counts goes away.               *)
LEMMA AwaitedKept ==
    ASSUME Awaited, Up' \subseteq Up, DOMAIN ops' = DOMAIN ops,
           \A id \in DOMAIN ops : /\ ops'[id].asked = ops[id].asked
                                  /\ ops'[id].coord = ops[id].coord
                                  /\ Waiting(id)' => /\ ops[id].told = <<>>
                                                     /\ id \in DOMAIN keyvalueMap
                                                           => id \in DOMAIN keyvalueMap',
           \A id \in DOMAIN ops : \A x \in Up' :
              Waiting(id)' /\ x \in ops[id].asked /\ ToCome(id, x) => ToCome(id, x)'
    PROVE  Awaited'
<1>. SUFFICES ASSUME NEW id \in DOMAIN ops, Waiting(id)'
              PROVE  /\ id \in DOMAIN keyvalueMap'
                     /\ \A x \in ops'[id].asked \cap Up' : ToCome(id, x)'
  BY DEF Awaited
<1>1. Waiting(id)
  BY DEF Waiting
<1>2. id \in DOMAIN keyvalueMap /\ \A x \in ops[id].asked \cap Up : ToCome(id, x)
  BY <1>1 DEF Awaited
<1>. QED BY <1>2

-------------------------------------------------------------------------------
(* The driver and the clock.                                                  *)

(* When the clock advances, only messages to nodes that are not up go away.   *)
LEMMA ClockKeepsAnswers ==
    ASSUME AInv, mp1Run
    PROVE  Strays' /\ Awaited'
<1>1. /\ UNCHANGED <<ops, tally, keyvalueMap, g_transID, mp2q>> /\ Up' = Up
      /\ net' = Among(net, To(net, Up)) /\ IsABag(net)
  BY DEF mp1Run, coordVars, Up, AInv, IInv, Shapes
<1>2. /\ BagToSet(net') = {m \in BagToSet(net) : m.to \in Up}
      /\ \A m \in BagToSet(net') : Copies(m, net') = Copies(m, net)
  BY <1>1, BagAmong DEF To
<1>3. Strays'
  BY <1>1, <1>2, StraysKept DEF AInv
<1>4. ASSUME NEW id \in DOMAIN ops, NEW x \in Up', Waiting(id)', ToCome(id, x)
      PROVE  ToCome(id, x)'
  <2>1. \A m \in PendingMessages : m.to \in Up => m \in PendingMessages'
    BY <1>1, <1>2 DEF PendingMessages, AInv, IInv, Shapes
  <2>2. \A m \in PendingMessages : m.id = id /\ IsAnswer(m) => m.to = ops[id].coord
    BY DEF AInv, IInv, Shapes, Flow, AnswersInFlight, AnswersReceived, PendingMessages
  <2>3. ops[id].coord \in Up
    BY <1>1, <1>4 DEF Waiting
  <2>. QED BY <1>1, <1>4, <2>1, <2>2, <2>3 DEF ToCome
<1>5. Awaited'
  BY <1>1, <1>4, AwaitedKept DEF AInv, Waiting
<1>. QED BY <1>3, <1>5

(* So does a step that changes the schedule or what is up, and no messages.   *)
LEMMA QuietKeepsAnswers ==
    ASSUME AInv, loopEnds \/ (\E i \in Node : fail(i)) \/ UNCHANGED vars
    PROVE  Strays' /\ Awaited'
<1>1. UNCHANGED <<ops, tally, keyvalueMap, g_transID, mp2q, net>> /\ Up' \subseteq Up
  BY DEF loopEnds, fail, vars, failVars, netVars, coordVars, Up, AInv, IInv, TypeOK
<1>2. Strays'
  BY <1>1, StraysKept DEF AInv
<1>3. PendingMessages' = PendingMessages
  BY <1>1 DEF PendingMessages
<1>4. Awaited'
  BY <1>1, <1>3, AwaitedKept DEF AInv, Waiting, ToCome
<1>. QED BY <1>2, <1>4

(* An operation that is issued has a transaction number of its own, and every *)
(* replica that is asked is to be asked.                                      *)
LEMMA ClientKeepsAnswers ==
    ASSUME AInv, NEW c \in Node, NEW type \in ClientOps, NEW k \in Key,
           NEW v \in Value \cup {NoValue}, client(c, type, k, v)
    PROVE  Strays' /\ Awaited'
<1>. PICK id : id = CRUDId(type, g_transID + 1)
  OBVIOUS
<1>. DEFINE replicas == findNodes(ring[c], k)
<1>1. /\ phase = "client" /\ Up' = Up /\ UNCHANGED <<mp2q, tally>>
      /\ g_transID' = g_transID + 1 /\ g_transID \in Nat
  BY DEF client, failVars, Up, AInv, IInv, TypeOK
<1>2. PICK stab \in IF type = "CREATE" THEN UnsetReplica ELSE {FALSE} :
         net' = net (+) SetToBag({[type |-> type, id |-> id, from |-> c, to |-> x,
                                   key |-> k, value |-> v, stab |-> stab] : x \in replicas})
  BY DEF client
<1>. DEFINE request(x) == [type |-> type, id |-> id, from |-> c, to |-> x,
                           key |-> k, value |-> v, stab |-> stab]
            sent == {request(x) : x \in replicas}
<1>3. DOMAIN tally = {} /\ \A i \in Node : BagToSet(mp2q[i]) = {}
  BY <1>1 DEF AInv, IInv, Schedule
<1>4. id.type = type /\ id.seq = g_transID + 1
  BY DEF CRUDId
<1>5. \A x \in DOMAIN ops : x.seq \in Nat /\ x.seq <= g_transID
  BY DEF AInv, IInv, TypeOK, Issue, Ids
<1>6. id \notin DOMAIN ops
  BY <1>1, <1>4, <1>5
<1>7. /\ DOMAIN ops' = DOMAIN ops \cup {id}
      /\ ops'[id] = [key |-> k, value |-> v, coord |-> c,
                     asked |-> replicas, did |-> {}, told |-> <<>>]
      /\ \A x \in DOMAIN ops : ops'[x] = ops[x]
      /\ DOMAIN keyvalueMap' = DOMAIN keyvalueMap \cup {id}
  BY <1>6 DEF client, Put
<1>8. /\ BagToSet(net') = BagToSet(net) \cup sent
      /\ \A m : Copies(m, net') = Copies(m, net) + IF m \in sent THEN 1 ELSE 0
  BY <1>2, BagPut DEF AInv, IInv, Shapes
<1>9. \A m \in sent : m.id = id
  OBVIOUS
<1>10. \A x \in replicas : request(x) \in sent /\ request(x).to = x /\ request(x).id = id
                           /\ (type \in {"READ", "UPDATE"} => IsAsk(request(x)))
  BY <1>4 DEF IsAsk
<1>. HIDE DEF sent, request
<1>11. PendingMessages' = PendingMessages \cup sent
  BY <1>1, <1>8 DEF PendingMessages
<1>12. Strays'
  <2>1. \A x, y \in DOMAIN ops' : x.seq = y.seq => x = y
    BY <1>1, <1>4, <1>5, <1>7 DEF AInv, Strays
  <2>2. ASSUME NEW m \in PendingMessages', m.id \notin DOMAIN ops'
        PROVE  /\ m \in PendingMessages /\ m.id \notin DOMAIN ops /\ m \notin sent
               /\ Copies(m, net') = Copies(m, net)
               /\ m \in BagToSet(net') <=> m \in BagToSet(net)
    <3>1. m \notin sent
      BY <1>7, <1>9, <2>2
    <3>2. Copies(m, net) \in Nat
      BY BagCopies DEF AInv, IInv, Shapes
    <3>. QED BY <1>7, <1>8, <1>11, <2>2, <3>1, <3>2
  <2>3. \A m \in PendingMessages' : m.id \notin DOMAIN ops' =>
           m.id \in Ids /\ m.id.seq < g_transID'
    <3>1. \A m \in PendingMessages : m.id \in Ids
      BY PendingKinds DEF AInv, IInv
    <3>. QED BY <1>1, <2>2, <3>1 DEF AInv, Strays, Ids
  <2>4. \A m, n \in PendingMessages' : m.id \notin DOMAIN ops' /\ n.id = m.id => n = m
    BY <2>2 DEF AInv, Strays
  <2>. QED BY <1>1, <1>3, <2>1, <2>2, <2>3, <2>4 DEF AInv, Strays
<1>13. ASSUME NEW x \in DOMAIN ops', Waiting(x)'
       PROVE  x \in DOMAIN keyvalueMap' /\ \A y \in ops'[x].asked \cap Up' : ToCome(x, y)'
  <2>1. CASE x = id
    BY <1>4, <1>7, <1>10, <1>11, <1>13, <2>1 DEF ToCome, Waiting
  <2>2. CASE x # id
    <3>1. x \in DOMAIN ops /\ Waiting(x) /\ ops'[x] = ops[x]
      BY <1>1, <1>7, <1>13, <2>2 DEF Waiting
    <3>. QED BY <1>1, <1>7, <1>11, <3>1 DEF AInv, Awaited, ToCome
  <2>. QED BY <2>1, <2>2
<1>. QED BY <1>12, <1>13 DEF Awaited

-------------------------------------------------------------------------------
(* The first loop of mp2Run.                                                  *)

(* A turn moves what is in flight to the node into its queue, and what it     *)
(* sends has new transaction numbers.                                         *)
LEMMA RingStepKeepsAnswers ==
    ASSUME AInv, NEW i \in Node, NEW B, RingStep(i, B)
    PROVE  Strays' /\ Awaited'
<1>1. /\ phase = "ring" /\ Up' = Up /\ UNCHANGED <<ops, tally, keyvalueMap>>
      /\ DOMAIN tally = {} /\ BagToSet(mp2q[i]) = {} /\ IsABag(B) /\ IsABag(net)
      /\ \A m \in BagToSet(B) : m \in Requests /\ m.id.type = "CREATE"
  BY DEF RingStep, RingTurn, failVars, Up, AInv, IInv, Schedule, Shapes
<1>2. /\ \A j \in Node \ {i} : mp2q'[j] = mp2q[j]
      /\ BagToSet(net') = {m \in BagToSet(net) \cup BagToSet(B) : m.to # i}
      /\ BagToSet(mp2q'[i]) = BagToSet(mp2q[i])
                              \cup {m \in BagToSet(net) \cup BagToSet(B) : m.to = i}
      /\ \A m : Copies(m, net') = IF m.to = i THEN 0 ELSE Copies(m, net) + Copies(m, B)
      /\ \A m : Copies(m, mp2q'[i])
                   = Copies(m, mp2q[i]) + IF m.to = i THEN Copies(m, net) + Copies(m, B) ELSE 0
  BY <1>1, Received DEF AInv, IInv, RingStep
<1>3. PendingMessages' = PendingMessages \cup BagToSet(B)
  BY <1>1, <1>2 DEF PendingMessages
<1>4. /\ g_transID \in Nat /\ g_transID' \in Nat /\ g_transID' >= g_transID
      /\ \A m \in BagToSet(B) : /\ m.id.seq >= g_transID /\ m.id.seq < g_transID'
                                /\ Copies(m, B) = 1
                                /\ \A n \in BagToSet(B) : n.id = m.id => n = m
  BY DEF RingStep, AInv, IInv, TypeOK
<1>5. \A m \in PendingMessages' : m.id \in Ids /\ m.id.seq \in Nat
  BY <1>1, <1>3, PendingKinds DEF AInv, IInv, Requests, Ids
<1>6. ASSUME NEW m \in PendingMessages', m.id \notin DOMAIN ops
      PROVE  /\ m.id.seq < g_transID'
             /\ m \in PendingMessages => m \notin BagToSet(B) /\ m.id.seq < g_transID
             /\ m \notin PendingMessages => m \in BagToSet(B)
             /\ \A n \in PendingMessages' : n.id = m.id => n = m
             /\ Copies(m, net) + Copies(m, B) \in {0, 1}
             /\ Copies(m, mp2q[i]) = 0
  <2>1. m \in PendingMessages => m.id.seq < g_transID
    BY <1>6 DEF AInv, Strays
  <2>2. m \in PendingMessages => m \notin BagToSet(B)
    BY <1>4, <1>5, <2>1
  <2>3. m.id.seq < g_transID'
    BY <1>3, <1>4, <1>5, <2>1
  <2>4. ASSUME NEW n \in PendingMessages', n.id = m.id
        PROVE  n = m
    <3>1. n \in PendingMessages => n.id.seq < g_transID
      BY <1>6, <2>4 DEF AInv, Strays
    <3>2. (m \in PendingMessages /\ n \in PendingMessages) \/ (m \in BagToSet(B) /\ n \in BagToSet(B))
      BY <1>3, <1>4, <1>5, <2>1, <2>4, <3>1
    <3>. QED BY <1>4, <1>6, <2>4, <3>2 DEF AInv, Strays
  <2>5. m \notin PendingMessages => m \in BagToSet(B) /\ Copies(m, net) = 0
    BY <1>3 DEF PendingMessages, Copies
  <2>6. m \notin BagToSet(B) => Copies(m, B) = 0
    BY DEF Copies
  <2>7. m \in PendingMessages => Copies(m, net) \in {0, 1}
    <3>1. Copies(m, net) \in Nat
      BY <1>1, BagCopies
    <3>. QED BY <1>6, <3>1 DEF AInv, Strays
  <2>8. Copies(m, mp2q[i]) = 0
    BY <1>1 DEF Copies
  <2>. QED BY <1>4, <2>1, <2>2, <2>3, <2>4, <2>5, <2>6, <2>7, <2>8
<1>7. Strays'
  <2>1. ASSUME NEW m \in PendingMessages', m.id \notin DOMAIN ops
        PROVE  /\ Copies(m, net') <= 1
               /\ \A j \in Node : /\ Copies(m, mp2q'[j]) <= 1
                                  /\ m \in BagToSet(mp2q'[j]) => m \notin BagToSet(net')
    <3>1. Copies(m, net') <= 1 /\ Copies(m, mp2q'[i]) <= 1
      BY <1>2, <1>6, <2>1
    <3>2. m \in BagToSet(mp2q'[i]) => m \notin BagToSet(net')
      BY <1>1, <1>2
    <3>3. ASSUME NEW j \in Node, j # i
          PROVE  /\ Copies(m, mp2q'[j]) <= 1
                 /\ m \in BagToSet(mp2q'[j]) => m \notin BagToSet(net')
      <4>1. m \in PendingMessages => /\ Copies(m, mp2q[j]) <= 1
                                     /\ m \in BagToSet(mp2q[j]) => m \notin BagToSet(net)
        BY <2>1 DEF AInv, Strays
      <4>2. m \in BagToSet(mp2q[j]) => m \in PendingMessages /\ m \notin BagToSet(B)
        BY <1>6, <2>1 DEF PendingMessages
      <4>3. m \notin BagToSet(mp2q[j]) => Copies(m, mp2q[j]) = 0
        BY DEF Copies
      <4>. QED BY <1>2, <3>3, <4>1, <4>2, <4>3
    <3>. QED BY <3>1, <3>2, <3>3
  <2>. QED BY <1>1, <1>6, <2>1 DEF AInv, Strays
<1>8. Awaited'
  BY <1>1, <1>3, AwaitedKept DEF AInv, Waiting, ToCome
<1>. QED BY <1>7, <1>8

-------------------------------------------------------------------------------
(* The second loop of mp2Run.                                                 *)

(* Of a message that is popped, when its id is that of no operation, nothing  *)
(* is left; and other messages stay.                                          *)
LEMMA PoppedStray ==
    ASSUME AInv, NEW i \in Node, NEW m, NEW type, Pops(i, m, type)
    PROVE  /\ \A x \in PendingMessages : x # m =>
                 \/ x \in BagToSet(net)
                 \/ \E j \in Node : x \in BagToSet(mp2q'[j])
           /\ m.id \notin DOMAIN ops =>
                 /\ m \notin BagToSet(net) /\ \A j \in Node : m \notin BagToSet(mp2q'[j])
           /\ \A x : \A j \in Node : Copies(x, mp2q'[j]) <= Copies(x, mp2q[j])
<1>1. /\ m \in BagToSet(mp2q[i]) /\ m.to = i /\ m \in PendingMessages
      /\ \A j \in Node : IsABag(mp2q'[j]) /\ IsABag(mp2q[j])
      /\ \A j \in Node : BagToSet(mp2q'[j]) \subseteq BagToSet(mp2q[j])
      /\ \A j \in Node \ {i} : mp2q'[j] = mp2q[j]
      /\ \A x : Copies(x, mp2q'[i]) = Copies(x, mp2q[i]) - IF x = m THEN 1 ELSE 0
  BY Popped DEF AInv, IInv, Shapes
<1>2. \A x : \A j \in Node : Copies(x, mp2q'[j]) \in Nat /\ Copies(x, mp2q[j]) \in Nat
  BY <1>1, BagCopies
<1>3. ASSUME NEW x \in PendingMessages, x # m
      PROVE  x \in BagToSet(net) \/ \E j \in Node : x \in BagToSet(mp2q'[j])
  <2>1. x \in BagToSet(net) \/ \E j \in Node : x \in BagToSet(mp2q[j])
    BY DEF PendingMessages
  <2>2. x \in BagToSet(mp2q[i]) => x \in BagToSet(mp2q'[i])
    <3>1. Copies(x, mp2q'[i]) = Copies(x, mp2q[i])
      BY <1>1, <1>2, <1>3
    <3>. QED BY <1>1, <3>1, BagCopies
  <2>. QED BY <1>1, <2>1, <2>2
<1>4. ASSUME m.id \notin DOMAIN ops
      PROVE  m \notin BagToSet(net) /\ \A j \in Node : m \notin BagToSet(mp2q'[j])
  <2>1. m \notin BagToSet(net) /\ Copies(m, mp2q[i]) <= 1
    BY <1>1, <1>4 DEF AInv, Strays
  <2>2. ~ (Copies(m, mp2q'[i]) > 0)
    BY <1>1, <1>2, <2>1
  <2>3. m \notin BagToSet(mp2q'[i])
    BY <1>1, <2>2, BagCopies
  <2>4. \A j \in Node \ {i} : m \notin BagToSet(mp2q[j])
    BY <1>1 DEF AInv, IInv, Shapes
  <2>. QED BY <1>1, <2>1, <2>3, <2>4
<1>. QED BY <1>1, <1>2, <1>3, <1>4

(* A replica's handler takes one message, and answers a read or an update.    *)
LEMMA ServeKeepsAnswers ==
    ASSUME AInv, NEW i \in Node, NEW m, NEW answer, Serves(i, m, answer)
    PROVE  Strays' /\ Awaited'
<1>1. /\ m \in PendingMessages /\ m.to = i /\ m \in BagToSet(mp2q[i])
      /\ \A j \in Node : BagToSet(mp2q'[j]) \subseteq BagToSet(mp2q[j])
  BY ServePopped DEF AInv
<1>2. /\ \A x \in PendingMessages : x # m =>
            x \in BagToSet(net) \/ \E j \in Node : x \in BagToSet(mp2q'[j])
      /\ m.id \notin DOMAIN ops =>
            m \notin BagToSet(net) /\ \A j \in Node : m \notin BagToSet(mp2q'[j])
      /\ \A x : \A j \in Node : Copies(x, mp2q'[j]) <= Copies(x, mp2q[j])
  <2>1. Pops(i, m, m.type)
    BY DEF Serves
  <2>. QED BY <2>1, PoppedStray
<1>3. /\ m \in Requests /\ Up' = Up /\ DOMAIN ops' = DOMAIN ops
      /\ BagToSet(net') = BagToSet(net) \cup answer
      /\ \A x : Copies(x, net') = Copies(x, net) + IF x \in answer THEN 1 ELSE 0
      /\ \A a \in answer : a \in Replies /\ a.id = m.id /\ a.to = m.from
      /\ UNCHANGED <<g_transID, keyvalueMap, tally>>
  BY ServeChanges DEF Serves, AInv
<1>4. /\ \A x \in answer : \A y \in answer : x = y
      /\ m.type \in {"READ", "UPDATE"} => answer # {}
  BY DEF Serves
<1>5. /\ \A x \in PendingMessages : x # m => x \in PendingMessages'
      /\ \A x \in answer : x \in PendingMessages'
      /\ \A x \in PendingMessages' : x \in PendingMessages \/ x \in answer
  BY <1>1, <1>2, <1>3 DEF PendingMessages
<1>6. \A x : /\ Copies(x, net) \in Nat
             /\ \A j \in Node : Copies(x, mp2q[j]) \in Nat /\ Copies(x, mp2q'[j]) \in Nat
  BY ServePopped, BagCopies DEF AInv, IInv, Shapes
<1>7. Strays'
  <2>1. ASSUME NEW x \in PendingMessages', x.id \notin DOMAIN ops
        PROVE  /\ x.id.seq < g_transID
               /\ Copies(x, net') <= 1
               /\ \A j \in Node : /\ Copies(x, mp2q'[j]) <= 1
                                  /\ x \in BagToSet(mp2q'[j]) => x \notin BagToSet(net')
               /\ \A y \in PendingMessages' : y.id = x.id => y = x
               /\ x.id \notin DOMAIN tally
    <3>1. CASE x.id # m.id
      <4>1. x \notin answer /\ x \in PendingMessages
        BY <1>3, <1>5, <3>1
      <4>2. Copies(x, net') = Copies(x, net) /\ (x \in BagToSet(net') <=> x \in BagToSet(net))
        BY <1>3, <1>6, <4>1
      <4>3. \A y \in PendingMessages' : y.id = x.id => y \in PendingMessages
        BY <1>3, <1>5, <3>1
      <4>4. \A j \in Node : /\ Copies(x, mp2q[j]) <= 1
                            /\ x \in BagToSet(mp2q[j]) => x \notin BagToSet(net)
        BY <2>1, <4>1 DEF AInv, Strays
      <4>5. \A j \in Node : Copies(x, mp2q'[j]) <= 1
        BY <1>2, <1>6, <4>4
      <4>. QED BY <1>1, <2>1, <4>1, <4>2, <4>3, <4>4, <4>5 DEF AInv, Strays
    <3>2. CASE x.id = m.id
      <4>1. \A y \in PendingMessages : y.id = m.id => y = m
        BY <1>1, <2>1, <3>2 DEF AInv, Strays
      <4>2. m \notin BagToSet(net) /\ \A j \in Node : m \notin BagToSet(mp2q'[j])
        BY <1>2, <2>1, <3>2
      <4>3. m \notin answer
        BY <1>3 DEF Requests, Replies
      <4>4. m \notin PendingMessages'
        BY <1>3, <4>2, <4>3 DEF PendingMessages
      <4>5. \A y \in PendingMessages' : y.id = m.id => y \in answer
        BY <1>5, <4>1, <4>4
      <4>6. x \in answer /\ x \notin PendingMessages
        BY <1>3, <3>2, <4>1, <4>3, <4>5
      <4>7. x \notin BagToSet(net) /\ \A j \in Node : x \notin BagToSet(mp2q'[j])
        BY <1>1, <4>6 DEF PendingMessages
      <4>8. Copies(x, net) = 0 /\ \A j \in Node : Copies(x, mp2q'[j]) = 0
        BY <4>7 DEF Copies
      <4>9. m.id.seq < g_transID /\ m.id \notin DOMAIN tally
        BY <1>1, <2>1, <3>2 DEF AInv, Strays
      <4>. QED BY <1>3, <1>4, <3>2, <4>5, <4>6, <4>7, <4>8, <4>9
    <3>. QED BY <3>1, <3>2
  <2>. QED BY <1>3, <2>1 DEF AInv, Strays
<1>8. ASSUME NEW id \in DOMAIN ops, NEW x \in Up', Waiting(id)', ToCome(id, x)
      PROVE  ToCome(id, x)'
  <2>1. CASE \E y \in PendingMessages : y.id = id /\ IsAsk(y) /\ y.to = x /\ y # m
    BY <1>5, <2>1 DEF ToCome
  <2>2. CASE m.id = id /\ IsAsk(m) /\ m.to = x
    <3>1. m.type = id.type
      BY <1>1, <2>2 DEF AInv, IInv, Flow, AsksReceived, RequestOf
    <3>2. answer # {}
      BY <1>4, <1>8, <3>1 DEF Waiting
    <3>3. PICK a \in answer : a.id = id /\ IsAnswer(a) /\ a \in PendingMessages'
      BY <1>3, <1>5, <2>2, <3>2 DEF Replies, IsAnswer, IsAsk
    <3>. QED BY <3>3 DEF ToCome
  <2>3. CASE \E y \in PendingMessages : y.id = id /\ IsAnswer(y)
    <3>1. ~IsAnswer(m)
      BY <1>3 DEF Requests, IsAnswer
    <3>. QED BY <1>5, <2>3, <3>1 DEF ToCome
  <2>. QED BY <1>3, <1>8, <2>1, <2>2, <2>3 DEF ToCome
<1>9. \A id \in DOMAIN ops : /\ ops'[id].asked = ops[id].asked /\ ops'[id].coord = ops[id].coord
                             /\ ops'[id].told = ops[id].told
  BY ServeMarks DEF AInv
<1>10. Awaited'
  BY <1>3, <1>8, <1>9, AwaitedKept DEF AInv, Waiting
<1>. QED BY <1>7, <1>10

(* The third reply decides: when it does not make two successes, a failure is *)
(* logged.                                                                    *)
LEMMA LossLogged ==
    ASSUME AInv, NEW i \in Node, NEW m, NEW value, CountsReply(i, m, value),
           m.id \in DOMAIN ops, m.id.type # "CREATE", Loses(m)
    PROVE  ops'[m.id].told = Append(ops[m.id].told, [ok |-> FALSE, value |-> NoValue])
<1>. DEFINE bare == StabId(m.id.seq)
            all == Put(tally, m.id, NewCounts(m))
<1>1. bare # m.id /\ bare.seq = m.id.seq
  BY DEF StabId, CRUDId
<1>2. bare \notin DOMAIN ops
  BY <1>1 DEF AInv, Strays
<1>3. bare \in DOMAIN all => all[bare].successes < quorumValue
  <2>1. bare \in DOMAIN tally => tally[bare].successes \in Nat /\ tally[bare].successes <= 1
    BY <1>2 DEF AInv, Strays, IInv, Shapes
  <2>2. bare \in DOMAIN all => bare \in DOMAIN tally /\ all[bare] = tally[bare]
    BY <1>1 DEF Put
  <2>. QED BY <2>1, <2>2 DEF quorumValue
<1>4. ~Wins(m) /\ (Loses(m) /\ (bare \in DOMAIN all => all[bare].successes < quorumValue))
  BY <1>3 DEF Loses
<1>5. ops' = Tell({m.id}, FALSE, NoValue)
  BY <1>4 DEF CountsReply, CountReply, Wins, Loses, NewCounts
<1>6. ops'[m.id] = [ops[m.id] EXCEPT !.told = Append(ops[m.id].told, [ok |-> FALSE, value |-> NoValue])]
  BY <1>5 DEF Tell
<1>. QED BY <1>6 DEF AInv, IInv, Shapes, OpRecord

(* A counted reply leaves its operation with a verdict, or in the map and     *)
(* with counts.                                                               *)
LEMMA CountKeepsAnswers ==
    ASSUME AInv, NEW i \in Node, NEW m, NEW value, CountsReply(i, m, value)
    PROVE  Strays' /\ Awaited'
<1>1. /\ m \in PendingMessages /\ m.to = i
      /\ \A j \in Node : BagToSet(mp2q'[j]) \subseteq BagToSet(mp2q[j])
  BY CountPopped DEF AInv
<1>2. /\ \A x \in PendingMessages : x # m =>
            x \in BagToSet(net) \/ \E j \in Node : x \in BagToSet(mp2q'[j])
      /\ m.id \notin DOMAIN ops =>
            m \notin BagToSet(net) /\ \A j \in Node : m \notin BagToSet(mp2q'[j])
      /\ \A x : \A j \in Node : Copies(x, mp2q'[j]) <= Copies(x, mp2q[j])
  <2>1. Pops(i, m, m.type)
    BY DEF CountsReply
  <2>. QED BY <2>1, PoppedStray
<1>3. /\ m \in Replies /\ Up' = Up /\ DOMAIN ops' = DOMAIN ops /\ UNCHANGED <<net, g_transID>>
      /\ \A id \in DOMAIN keyvalueMap : id # m.id => id \in DOMAIN keyvalueMap'
      /\ m.id \in DOMAIN keyvalueMap' <=> m.id \in DOMAIN keyvalueMap /\ ~Wins(m) /\ ~Loses(m)
      /\ \A id \in DOMAIN ops : ops'[id].coord = ops[id].coord /\ ops'[id].asked = ops[id].asked
      /\ \A id \in DOMAIN ops : id # m.id => ops'[id].told = ops[id].told
      /\ m.id \in DOMAIN ops =>
            /\ Wins(m) => ops'[m.id].told = Append(ops[m.id].told, [ok |-> TRUE, value |-> value])
            /\ ~Wins(m) => \/ ops'[m.id].told = ops[m.id].told
                           \/ /\ Loses(m)
                              /\ ops'[m.id].told
                                    = Append(ops[m.id].told, [ok |-> FALSE, value |-> NoValue])
  <2>1. IInv
    BY DEF AInv
  <2>2. /\ m \in Replies /\ Up' = Up /\ DOMAIN ops' = DOMAIN ops /\ UNCHANGED <<net, g_transID>>
        /\ \A id \in DOMAIN keyvalueMap : id # m.id => id \in DOMAIN keyvalueMap'
        /\ m.id \in DOMAIN keyvalueMap' <=> m.id \in DOMAIN keyvalueMap /\ ~Wins(m) /\ ~Loses(m)
    BY <2>1, CountRecords
  <2>3. /\ \A id \in DOMAIN ops : ops'[id].coord = ops[id].coord /\ ops'[id].asked = ops[id].asked
        /\ \A id \in DOMAIN ops : id # m.id => ops'[id].told = ops[id].told
    BY <2>1, CountRecords
  <2>4. m.id \in DOMAIN ops =>
          /\ Wins(m) => ops'[m.id].told = Append(ops[m.id].told, [ok |-> TRUE, value |-> value])
          /\ ~Wins(m) => \/ ops'[m.id].told = ops[m.id].told
                         \/ /\ Loses(m)
                            /\ ops'[m.id].told
                                  = Append(ops[m.id].told, [ok |-> FALSE, value |-> NoValue])
    BY <2>1, CountRecords
  <2>. QED BY <2>2, <2>3, <2>4
<1>4. /\ PendingMessages' \subseteq PendingMessages
      /\ \A x \in PendingMessages : x # m => x \in PendingMessages'
  <2>1. net' = net
    BY <1>3
  <2>2. PendingMessages' \subseteq PendingMessages
    BY <1>1, <2>1 DEF PendingMessages
  <2>3. \A x \in PendingMessages : x # m => x \in PendingMessages'
    <3>. SUFFICES ASSUME NEW x \in PendingMessages, x # m
                  PROVE  x \in PendingMessages'
      OBVIOUS
    <3>1. x \in BagToSet(net) \/ \E j \in Node : x \in BagToSet(mp2q'[j])
      BY <1>2
    <3>. QED BY <2>1, <3>1 DEF PendingMessages
  <2>. QED BY <2>2, <2>3
<1>5. /\ DOMAIN tally' \subseteq DOMAIN tally \cup {m.id}
      /\ \A id \in DOMAIN tally : id.type # "CREATE" => id \in DOMAIN tally'
      /\ m.id.type # "CREATE" => m.id \in DOMAIN tally'
      /\ \A id \in DOMAIN tally' : \/ id # m.id /\ id \in DOMAIN tally /\ tally'[id] = tally[id]
                                   \/ id = m.id /\ tally'[id] = NewCounts(m)
  <2>. DEFINE bare == StabId(m.id.seq)
              all == Put(tally, m.id, NewCounts(m))
  <2>1. bare.type = "CREATE"
    BY DEF StabId, CRUDId
  <2>2. tally' = IF Wins(m) \/ Loses(m) THEN Without(all, {bare}) ELSE all
    BY DEF CountsReply, CountReply, Wins, Loses, NewCounts
  <2>. HIDE DEF bare
  <2>3. /\ DOMAIN all = DOMAIN tally \cup {m.id} /\ all[m.id] = NewCounts(m)
        /\ \A id \in DOMAIN tally : id # m.id => all[id] = tally[id]
    BY DEF Put
  <2>. HIDE DEF all
  <2>4. /\ DOMAIN Without(all, {bare}) = DOMAIN all \ {bare}
        /\ \A id \in DOMAIN all \ {bare} : Without(all, {bare})[id] = all[id]
    BY DEF Without
  <2>. QED BY <2>1, <2>2, <2>3, <2>4
<1>6. Strays'
  <2>1. ASSUME NEW x \in PendingMessages', x.id \notin DOMAIN ops
        PROVE  /\ x.id # m.id /\ x \in PendingMessages
               /\ \A j \in Node : Copies(x, mp2q'[j]) <= 1
    <3>1. m \notin PendingMessages' \/ x.id # m.id
      BY <1>2, <1>3, <2>1 DEF PendingMessages
    <3>2. x.id # m.id
      BY <1>1, <1>4, <2>1, <3>1 DEF AInv, Strays
    <3>3. \A j \in Node : Copies(x, mp2q[j]) <= 1
      BY <1>4, <2>1 DEF AInv, Strays
    <3>4. \A j \in Node : Copies(x, mp2q[j]) \in Nat /\ Copies(x, mp2q'[j]) \in Nat
      BY CountPopped, BagCopies DEF AInv, IInv, Shapes
    <3>. QED BY <1>2, <1>4, <3>2, <3>3, <3>4
  <2>2. ASSUME NEW id \in DOMAIN tally', id \notin DOMAIN ops
        PROVE  tally'[id].successes <= 1
    <3>1. CASE id # m.id
      BY <1>5, <2>2, <3>1 DEF AInv, Strays
    <3>2. CASE id = m.id
      <4>1. m.id \notin DOMAIN tally
        BY <1>1, <2>2, <3>2 DEF AInv, Strays
      <4>2. NewCounts(m).successes <= 1
        BY <4>1 DEF NewCounts, Counts
      <4>. QED BY <1>5, <3>2, <4>2
    <3>. QED BY <3>1, <3>2
  <2>. QED BY <1>1, <1>3, <1>4, <1>5, <2>1, <2>2 DEF AInv, Strays
<1>7. ASSUME NEW id \in DOMAIN ops, Waiting(id)'
      PROVE  /\ ops[id].told = <<>> /\ (id \in DOMAIN keyvalueMap => id \in DOMAIN keyvalueMap')
             /\ \A x : ToCome(id, x) => ToCome(id, x)'
  <2>1. id.type # "CREATE" /\ ops'[id].told = <<>>
    BY <1>7 DEF Waiting
  <2>2. ops[id].told \in Seq([ok : BOOLEAN, value : Value \cup {NoValue}])
    BY DEF AInv, IInv, Shapes, OpRecord
  <2>3. \A y : Append(ops[id].told, y) # <<>>
    BY <2>2
  <2>4. ops[id].told = <<>> /\ (id = m.id => ~Wins(m) /\ ~Loses(m))
    <3>1. CASE id # m.id
      BY <1>3, <2>1, <3>1
    <3>2. CASE id = m.id
      <4>1. Loses(m) => ops'[m.id].told = Append(ops[m.id].told, [ok |-> FALSE, value |-> NoValue])
        BY <2>1, <3>2, LossLogged
      <4>2. ~Wins(m) /\ ~Loses(m)
        BY <1>3, <2>1, <2>3, <3>2, <4>1
      <4>3. ops[id].told = <<>>
        BY <1>3, <2>1, <2>3, <3>2, <4>2
      <4>. QED BY <3>2, <4>2, <4>3
    <3>. QED BY <3>1, <3>2
  <2>5. id \in DOMAIN keyvalueMap => id \in DOMAIN keyvalueMap'
    BY <1>3, <2>4
  <2>6. m.id = id => id \in DOMAIN tally'
    BY <1>5, <2>1
  <2>. QED BY <1>4, <1>5, <2>1, <2>4, <2>5, <2>6 DEF ToCome
<1>8. Awaited'
  BY <1>3, <1>7, AwaitedKept DEF AInv
<1>. QED BY <1>6, <1>8

(* When the queue is empty, everything with counts gets a verdict.            *)
LEMMA EndKeepsAnswers ==
    ASSUME AInv, NEW i \in Node, endOfMessages(i)
    PROVE  Strays' /\ Awaited'
<1>1. /\ UNCHANGED <<net, mp2q, g_transID, keyvalueMap>> /\ Up' = Up /\ DOMAIN tally' = {}
      /\ ops' = Tell(Unsettled, FALSE, NoValue)
  BY DEF endOfMessages, failVars, netVars, Up
<1>2. /\ DOMAIN ops' = DOMAIN ops /\ PendingMessages' = PendingMessages
      /\ \A id \in DOMAIN ops : id \notin Unsettled => ops'[id] = ops[id]
      /\ \A id \in DOMAIN ops \cap Unsettled :
            ops'[id] = [ops[id] EXCEPT !.told = Append(ops[id].told, [ok |-> FALSE, value |-> NoValue])]
  BY <1>1 DEF Tell, PendingMessages
<1>3. Strays'
  BY <1>1, <1>2 DEF AInv, Strays
<1>4. ASSUME NEW id \in DOMAIN ops
      PROVE  /\ ops'[id].asked = ops[id].asked /\ ops'[id].coord = ops[id].coord
             /\ ops'[id].told = <<>> => ops[id].told = <<>> /\ id \notin Unsettled
  <2>1. ops[id] \in OpRecord
    BY DEF AInv, IInv, Shapes
  <2>2. ASSUME NEW r \in OpRecord, NEW new,
               new = [r EXCEPT !.told = Append(r.told, [ok |-> FALSE, value |-> NoValue])]
        PROVE  new.asked = r.asked /\ new.coord = r.coord /\ new.told # <<>>
    <3>1. r.told \in Seq([ok : BOOLEAN, value : Value \cup {NoValue}])
      BY DEF OpRecord
    <3>2. Append(r.told, [ok |-> FALSE, value |-> NoValue]) # <<>>
      BY <3>1
    <3>. QED BY <2>2, <3>2 DEF OpRecord
  <2>. QED BY <1>2, <2>1, <2>2
<1>5. ASSUME NEW id \in DOMAIN ops, Waiting(id)'
      PROVE  /\ ops[id].told = <<>> /\ (id \in DOMAIN keyvalueMap => id \in DOMAIN keyvalueMap')
             /\ \A x : x \in ops[id].asked /\ x \in Up' /\ ToCome(id, x) => ToCome(id, x)'
  <2>1. ops[id].told = <<>> /\ id \notin Unsettled
    BY <1>4, <1>5 DEF Waiting
  <2>2. Waiting(id)
    BY <1>1, <1>4, <1>5, <2>1 DEF Waiting
  <2>3. id \in DOMAIN keyvalueMap /\ id \notin DOMAIN tally
    BY <2>1, <2>2 DEF AInv, Awaited, Unsettled
  <2>. QED BY <1>1, <1>2, <2>1, <2>3 DEF ToCome
<1>6. Awaited'
  BY <1>1, <1>2, <1>4, <1>5, AwaitedKept DEF AInv
<1>. QED BY <1>3, <1>6

(* Every step keeps what is awaited.                                          *)
LEMMA NextKeepsAnswers ==
    ASSUME AInv, [Next]_vars
    PROVE  AInv'
<1>1. ASSUME NEW i \in Node, checkMessages(i)
      PROVE  Strays' /\ Awaited'
  <2>1. CASE createKeyValue(i) \/ readKey(i) \/ updateKeyValue(i) \/ deletekey(i)
    BY <2>1, HandlersServe, ServeKeepsAnswers DEF AInv
  <2>2. CASE recvREPLY(i) \/ recvREADREPLY(i)
    BY <2>2, HandlersCount, CountKeepsAnswers DEF AInv
  <2>3. CASE endOfMessages(i)
    BY <2>3, EndKeepsAnswers
  <2>. QED BY <1>1, <2>1, <2>2, <2>3 DEF checkMessages
<1>2. ASSUME NEW i \in Node, updateRing(i) \/ stabilizationProtocol(i)
      PROVE  Strays' /\ Awaited'
  BY <1>2, RingTurnsAreSteps, RingStepKeepsAnswers DEF AInv
<1>3. ASSUME mp1Run \/ loopEnds \/ UNCHANGED vars \/ \E i \in Node : fail(i)
      PROVE  Strays' /\ Awaited'
  <2>1. CASE mp1Run
    BY <2>1, ClockKeepsAnswers
  <2>2. CASE loopEnds
    BY <2>2, QuietKeepsAnswers
  <2>3. CASE \E i \in Node : fail(i)
    BY <2>3, QuietKeepsAnswers
  <2>4. CASE UNCHANGED vars
    BY <2>4, QuietKeepsAnswers
  <2>. QED BY <1>3, <2>1, <2>2, <2>3, <2>4
<1>4. ASSUME NEW i \in Node,
             \E type \in ClientOps, k \in Key, v \in Value \cup {NoValue} : client(i, type, k, v)
      PROVE  Strays' /\ Awaited'
  BY <1>4, ClientKeepsAnswers
<1>5. Strays' /\ Awaited'
  <2>1. CASE Run
    BY <1>1, <1>2, <1>3, <2>1 DEF Run
  <2>2. CASE UNCHANGED vars
    BY <1>3, <2>2
  <2>3. CASE \E i \in Node :
                \/ fail(i)
                \/ \E type \in ClientOps, k \in Key, v \in Value \cup {NoValue} : client(i, type, k, v)
    BY <1>3, <1>4, <2>3
  <2>. QED BY <2>1, <2>2, <2>3 DEF Next
<1>. QED BY <1>5, NextKeepsIInv DEF AInv

(* Reads and updates get an answer: when nothing of one is in flight any more *)
(* and its coordinator is up, the coordinator has logged a verdict, unless    *)
(* every replica that was asked has failed.                                   *)
THEOREM ReadsAndUpdatesAreAnswered == Spec => []Answered
<1>1. Init => AInv
  BY InitIInv, InitAnswers DEF AInv
<1>2. AInv /\ [Next]_vars => AInv'
  BY NextKeepsAnswers
<1>3. AInv => Answered
  <2>. SUFFICES ASSUME AInv, NEW id \in DOMAIN ops, phase = "client",
                       id.type \in {"READ", "UPDATE"}, ops[id].coord \in Up,
                       NEW x \in ops[id].asked \cap Up, ~InFlight(id), ops[id].told = <<>>
                PROVE  FALSE
    BY DEF Answered
  <2>1. ToCome(id, x)
    BY DEF AInv, Awaited, Waiting
  <2>2. DOMAIN tally = {}
    BY DEF AInv, IInv, Schedule
  <2>3. \A m \in PendingMessages : m.id = id /\ IsAnswer(m) => m.to = ops[id].coord
    BY DEF AInv, IInv, Shapes, Flow, AnswersInFlight, AnswersReceived, PendingMessages
  <2>. QED BY <2>1, <2>2, <2>3 DEF ToCome, InFlight
<1>. QED BY <1>1, <1>2, <1>3, PTL DEF Spec

-------------------------------------------------------------------------------
(* Where a node and a key are on a ring.                                      *)

(* Where a node or a key is on a ring follows the order of positions.         *)
LEMMA RanksInOrder ==
    ASSUME NEW r \in SUBSET Node, NEW i \in r, NEW k \in Key
    PROVE  /\ Rank(r, i) \in 0 .. Cardinality(r) - 1 /\ Leader(r, k) \in 0 .. Cardinality(r)
           /\ \A j \in r : (Rank(r, i) < Rank(r, j)) <=> (Hash[i] < Hash[j])
           /\ \A j \in r : Rank(r, i) = Rank(r, j) => i = j
           /\ Rank(r, i) < Leader(r, k) <=> Hash[i] < KeyHash[k]
<1>. DEFINE before(h) == {j \in r : Hash[j] < h}
<1>1. /\ \A j \in r : Hash[j] \in Nat
      /\ KeyHash[k] \in Nat
      /\ \A j \in r : Hash[i] = Hash[j] => i = j
  BY RingAssumption
<1>2. ASSUME NEW g \in Nat, NEW h \in Nat
      PROVE  /\ Cardinality(before(g)) \in Nat /\ Cardinality(before(h)) \in Nat
             /\ Cardinality(before(g)) <= Cardinality(r)
             /\ g <= h => Cardinality(before(g)) <= Cardinality(before(h))
  <2>1. before(g) \in SUBSET Node /\ before(h) \in SUBSET Node /\ before(g) \in SUBSET r
    OBVIOUS
  <2>2. g <= h => before(g) \in SUBSET before(h)
    BY <1>1
  <2>. QED BY <2>1, <2>2, NodeFacts, SubsetCard
<1>3. ASSUME NEW g \in Nat, NEW h \in Nat, NEW j \in r, Hash[j] = g, g < h
      PROVE  Cardinality(before(g)) < Cardinality(before(h))
  <2>1. before(g) \in SUBSET before(h) /\ j \in before(h) /\ j \notin before(g)
    BY <1>1, <1>3
  <2>2. before(h) \in SUBSET Node
    OBVIOUS
  <2>3. Cardinality(before(g)) <= Cardinality(before(h)) /\ Cardinality(before(g)) # Cardinality(before(h))
    BY <2>1, <2>2, SubsetCard
  <2>. QED BY <1>2, <2>3
<1>4. /\ \A j \in r : Rank(r, j) = Cardinality(before(Hash[j]))
      /\ Leader(r, k) = Cardinality(before(KeyHash[k]))
  BY DEF Rank, Leader
<1>5. Rank(r, i) # Cardinality(r)
  <2>1. before(Hash[i]) \in SUBSET r /\ i \notin before(Hash[i])
    BY <1>1
  <2>. QED BY <1>4, <2>1, SubsetCard
<1>6. Cardinality(r) \in Nat
  BY NodeFacts
<1>. HIDE DEF before
<1>7. /\ Rank(r, i) \in Nat /\ Rank(r, i) <= Cardinality(r)
      /\ Leader(r, k) \in Nat /\ Leader(r, k) <= Cardinality(r)
  BY <1>1, <1>2, <1>4
<1>8. ASSUME NEW j \in r
      PROVE  /\ (Rank(r, i) < Rank(r, j)) <=> (Hash[i] < Hash[j])
             /\ Rank(r, i) = Rank(r, j) => i = j
  <2>1. Hash[i] \in Nat /\ Hash[j] \in Nat /\ (Hash[i] = Hash[j] => i = j)
    BY <1>1
  <2>2. Hash[i] < Hash[j] => Rank(r, i) < Rank(r, j)
    BY <1>3, <1>4, <2>1
  <2>3. Hash[j] < Hash[i] => Rank(r, j) < Rank(r, i)
    BY <1>3, <1>4, <2>1
  <2>4. Rank(r, i) \in Nat /\ Rank(r, j) \in Nat
    BY <1>2, <1>4, <2>1
  <2>. QED BY <2>1, <2>2, <2>3, <2>4
<1>9. Rank(r, i) < Leader(r, k) <=> Hash[i] < KeyHash[k]
  <2>1. Hash[i] < KeyHash[k] => Rank(r, i) < Leader(r, k)
    BY <1>1, <1>3, <1>4
  <2>2. KeyHash[k] <= Hash[i] => Leader(r, k) <= Rank(r, i)
    BY <1>1, <1>2, <1>4
  <2>. QED BY <1>1, <1>7, <2>1, <2>2
<1>. QED BY <1>5, <1>6, <1>7, <1>8, <1>9

(* When a node has gone from a ring, those behind it have moved up by one.    *)
LEMMA RanksWithout ==
    ASSUME NEW r \in SUBSET Node, NEW f \in r, NEW k \in Key
    PROVE  /\ Cardinality(r \ {f}) = Cardinality(r) - 1
           /\ \A j \in r \ {f} :
                Rank(r \ {f}, j) = Rank(r, j) - (IF Hash[f] < Hash[j] THEN 1 ELSE 0)
           /\ Leader(r \ {f}, k) = Leader(r, k) - (IF Hash[f] < KeyHash[k] THEN 1 ELSE 0)
<1>1. ASSUME NEW S \in SUBSET r
      PROVE  Cardinality(S \ {f}) = Cardinality(S) - (IF f \in S THEN 1 ELSE 0)
  <2>1. IsFiniteSet(S) /\ Cardinality(S) \in Nat
    BY NodeFacts
  <2>2. CASE f \in S
    BY <2>1, <2>2, FS_RemoveElement
  <2>3. CASE f \notin S
    <3>1. S \ {f} = S
      BY <2>3
    <3>. QED BY <2>1, <2>3, <3>1
  <2>. QED BY <2>2, <2>3
<1>2. Cardinality(r \ {f}) = Cardinality(r) - 1
  BY <1>1
<1>3. ASSUME NEW h
      PROVE  Cardinality({j \in r \ {f} : Hash[j] < h})
                = Cardinality({j \in r : Hash[j] < h}) - (IF Hash[f] < h THEN 1 ELSE 0)
  <2>. DEFINE S == {j \in r : Hash[j] < h}
  <2>1. S \in SUBSET r /\ S \ {f} = {j \in r \ {f} : Hash[j] < h} /\ (f \in S <=> Hash[f] < h)
    OBVIOUS
  <2>. HIDE DEF S
  <2>2. Cardinality(S \ {f}) = Cardinality(S) - (IF Hash[f] < h THEN 1 ELSE 0)
    BY <1>1, <2>1
  <2>. QED BY <2>1, <2>2 DEF S
<1>. QED BY <1>2, <1>3 DEF Rank, Leader

(* A node that is a replica stays one when another goes, as long as there are *)
(* three left.                                                                *)
LEMMA ReplicasStay ==
    ASSUME NEW r \in SUBSET Node, Cardinality(r) >= 4, NEW f \in r, NEW k \in Key
    PROVE  findNodes(r, k) \ {f} \subseteq findNodes(r \ {f}, k)
<1>. SUFFICES ASSUME NEW x \in findNodes(r, k), x # f
              PROVE  x \in findNodes(r \ {f}, k)
  OBVIOUS
<1>. DEFINE N == Cardinality(r)
            M == Cardinality(r \ {f})
            L == Leader(r, k)
            F == Rank(r, f)
            R == Rank(r, x)
            a == IF F < R THEN 1 ELSE 0
            b == IF F < L THEN 1 ELSE 0
<1>1. N \in Nat /\ N >= 4
  BY NodeFacts
<1>2. PICK d \in 0 .. 2 : x = At(r, L + d)
  BY <1>1 DEF findNodes
<1>3. L \in Nat /\ L <= N
  BY RanksInOrder, <1>1
<1>4. r # {}
  OBVIOUS
<1>5. x \in r /\ R = (L + d) % N
  <2>1. L + d \in Nat /\ (L + d) % N \in 0 .. N - 1
    BY <1>1, <1>3
  <2>2. \E j \in r : Rank(r, j) = (L + d) % N
    BY <2>1, PlacesTaken
  <2>. QED BY <1>2, <2>2 DEF At
<1>6. /\ F \in 0 .. N - 1 /\ R \in 0 .. N - 1 /\ F # R
      /\ (F < R <=> Hash[f] < Hash[x]) /\ (F < L <=> Hash[f] < KeyHash[k])
  BY <1>5, RanksInOrder
<1>7. M = N - 1 /\ Rank(r \ {f}, x) = R - a /\ Leader(r \ {f}, k) = L - b
  BY <1>5, <1>6, RanksWithout
<1>. HIDE DEF N, M, L, F, R
<1>8. R = L + d \/ R = L + d - N
  <2>1. L + d < 2 * N
    BY <1>1, <1>3
  <2>2. CASE L + d < N
    BY <1>1, <1>3, <1>5, <2>2
  <2>3. CASE L + d >= N
    <3>1. L + d - N \in 0 .. N - 1
      BY <1>1, <1>3, <2>1, <2>3
    <3>2. (L + d) % N = L + d - N
      BY <1>1, <1>3, <3>1
    <3>. QED BY <1>5, <3>2
  <2>. QED BY <1>3, <1>1, <2>2, <2>3
<1>9. \E e \in 0 .. 2 : L - b + e = R - a \/ L - b + e = R - a + M
  <2>1. CASE R = L + d
    <3>1. d + b - a \in 0 .. 2
      BY <1>1, <1>3, <1>6, <2>1
    <3>2. L - b + (d + b - a) = R - a
      BY <1>3, <1>6, <2>1
    <3>. QED BY <3>1, <3>2
  <2>2. CASE R = L + d - N
    <3>1. d - 1 + b - a \in 0 .. 2
      BY <1>1, <1>3, <1>6, <2>2
    <3>2. L - b + (d - 1 + b - a) = R - a + M
      BY <1>1, <1>3, <1>6, <1>7, <2>2
    <3>. QED BY <3>1, <3>2
  <2>. QED BY <1>8, <2>1, <2>2
<1>10. PICK e \in 0 .. 2 : L - b + e = R - a \/ L - b + e = R - a + M
  BY <1>9
<1>11. M \in Nat /\ M >= 3 /\ R - a \in 0 .. M - 1 /\ L - b + e \in Nat
  BY <1>1, <1>3, <1>6, <1>7, <1>10
<1>12. (L - b + e) % M = R - a
  <2>. DEFINE p == R - a
  <2>1. p \in 0 .. M - 1 /\ (L - b + e = p \/ L - b + e = p + M)
    BY <1>10, <1>11
  <2>. HIDE DEF p
  <2>2. p % M = p /\ (p + M) % M = p
    BY <1>11, <2>1
  <2>. QED BY <2>1, <2>2 DEF p
<1>13. /\ x \in r \ {f} /\ Rank(r \ {f}, x) = (L - b + e) % M
       /\ \A j \in r \ {f} : Rank(r \ {f}, j) = Rank(r \ {f}, x) => j = x
  BY <1>5, <1>7, <1>12, RanksInOrder
<1>14. At(r \ {f}, L - b + e) = x
  BY <1>13 DEF At, M
<1>15. ~(Cardinality(r \ {f}) < 3) /\ At(r \ {f}, Leader(r \ {f}, k) + e) = x
  BY <1>7, <1>11, <1>14 DEF M
<1>. QED BY <1>15 DEF findNodes

-------------------------------------------------------------------------------
(* Where a creation is, when one node fails at most.                          *)

(* One node fails at most and does not come back into a table once it has     *)
(* left one; and there are three nodes without it.                            *)
SingleFailure == MaxFailures <= 1 /\ ~Returns /\ EN_GPSZ >= 4

(* A table has all nodes or those that are up, and a ring is one of now or of *)
(* the time before the failure.                                               *)
Views ==
    /\ \A x, y \in Node \ Up : x = y
    /\ \A i \in Node : /\ member[i] \in {Node, Up}
                       /\ ring[i] = Node \/ ring[i] = member[i]
                       /\ member[i] # Node => \A x \in Node \ Up : downFor[x] >= DetectAfter

(* What carries the id of a creation: its requests; copies of the             *)
(* stabilization; replies; and deletions of the stabilization, which a node   *)
(* sends to itself in the tick in which they are handled, after the failure,  *)
(* when it is no replica among the nodes that are up.                         *)
IsMake(m) == m.type = "CREATE" /\ ~m.stab
IsUndo(m) == m.type = "DELETE" /\ m.id.type = "CREATE"
Creations ==
    /\ \A m \in PendingMessages :
          /\ m.id.type = "CREATE" => m.type \in {"CREATE", "DELETE", "REPLY"}
          /\ IsMake(m) => /\ m.id \in DOMAIN ops /\ m.id.type = "CREATE"
                          /\ m.key = ops[m.id].key /\ m.to \in ops[m.id].asked
          /\ IsUndo(m) => /\ Up # Node /\ m.to \notin findNodes(Up, m.key)
                          /\ m.id.seq < g_transID /\ m \notin BagToSet(net)
    /\ phase = "ring" => \A m \in BagToSet(net) :
          m.type = "REPLY" /\ m.id.type = "CREATE" => m.to \in Up /\ m.to > turn

(* A replica that was asked is one among the nodes that are up, or down; and  *)
(* one that has done it has the key, unless the key is to be deleted.         *)
Kept(id) == /\ id.type = "CREATE"
            /\ \A x \in DOMAIN ops : x.type = "DELETE" => ops[x].key # ops[id].key
Holders ==
    \A id \in DOMAIN ops : id.type = "CREATE" =>
        /\ ops[id].did \subseteq ops[id].asked
        /\ ops[id].asked \cap Up \subseteq findNodes(Up, ops[id].key)
        /\ Kept(id) => \A i \in ops[id].did \cap Up : ops[id].key \in DOMAIN ht[i]

(* A creation will survive the failure, or has survived it.                   *)
Backed(id) ==
    ops[id].did \cap Up # {} /\ (Up = Node => \A x \in Node : ops[id].did # {x})

(* Or it has too few successes to be logged as one: at most one in the call   *)
(* of checkMessages that comes, or is, and one in the next: that of the       *)
(* replica that failed, and later that of a deletion with the same id.        *)
Queued == UNION {BagToSet(mp2q[i]) : i \in Node}
IsYes(m, id) == m.type = "REPLY" /\ m.id = id /\ m.success
YesNet(id) == {m \in BagToSet(net) : IsYes(m, id)}
YesQueued(id) == {m \in Queued : IsYes(m, id)}
Undos(id) == {m \in Queued : IsUndo(m) /\ m.id = id}
Few(id) ==
    /\ Up = Node /\ ops[id].did = {} => YesNet(id) = {} /\ YesQueued(id) = {}
    /\ \A m, n \in YesNet(id) : m = n /\ Copies(m, net) <= 1
    /\ \A m, n \in YesQueued(id) : m = n /\ Copies(m, mp2q[m.to]) <= 1
    /\ \A m, n \in Undos(id) : m = n /\ Copies(m, mp2q[m.to]) <= 1
    /\ Counts(id).successes <= 1
    /\ YesQueued(id) # {} => Counts(id).successes = 0
    /\ phase = "check" => YesNet(id) = {} \/ Undos(id) = {}
    /\ phase # "check" => YesNet(id) = {} \/ YesQueued(id) = {}
Earned == \A id \in DOMAIN ops : Kept(id) => Backed(id) \/ (~Succeeded(id) /\ Few(id))

SInv == AInv /\ Views /\ Creations /\ Holders /\ Earned

(* So no creation that was logged as a success is lost.                       *)
LEMMA BackedSurvives == SInv => Survives
<1>. SUFFICES ASSUME SInv, NEW k \in Stored
              PROVE  \E i \in Up : k \in DOMAIN ht[i]
  BY DEF Survives
<1>1. PICK id \in DOMAIN ops : id.type = "CREATE" /\ Succeeded(id) /\ ops[id].key = k
  BY DEF Stored
<1>2. Kept(id)
  BY <1>1 DEF Kept, Stored
<1>3. Backed(id)
  BY <1>1, <1>2 DEF SInv, Earned
<1>4. PICK i \in ops[id].did \cap Up : TRUE
  BY <1>3 DEF Backed
<1>5. k \in DOMAIN ht[i]
  BY <1>1, <1>2, <1>4 DEF SInv, Holders
<1>. QED BY <1>4, <1>5

(* At first there is no operation, no message and no failure.                 *)
LEMMA InitCopies == Init => Views /\ Creations /\ Holders /\ Earned
<1>. SUFFICES ASSUME Init
              PROVE  Views /\ Creations /\ Holders /\ Earned
  OBVIOUS
<1>1. Up = Node
  BY DEF Init, Up
<1>2. PendingMessages = {} /\ DOMAIN ops = {}
  BY BagEmpty DEF Init, PendingMessages
<1>3. Views
  BY <1>1 DEF Init, Views
<1>4. Creations
  BY <1>2 DEF Init, Creations
<1>. QED BY <1>2, <1>3, <1>4 DEF Holders, Earned

-------------------------------------------------------------------------------
(* Steps that change none of the operations.                                  *)

(* Fewer messages and fewer counts are fewer successes.                       *)
LEMMA FewKept ==
    ASSUME NEW id, Few(id),
           ops'[id].did = ops[id].did, Up' \subseteq Up,
           phase' = phase \/ (phase # "check" /\ phase' # "check"),
           \A m \in YesNet(id)' : m \in YesNet(id) /\ (Copies(m, net) <= 1 => Copies(m, net') <= 1),
           \A m \in YesQueued(id)' :
              m \in YesQueued(id) /\ (Copies(m, mp2q[m.to]) <= 1 => Copies(m, mp2q'[m.to]) <= 1),
           \A m \in Undos(id)' :
              m \in Undos(id) /\ (Copies(m, mp2q[m.to]) <= 1 => Copies(m, mp2q'[m.to]) <= 1),
           Counts(id)'.successes = 0 \/ Counts(id)'.successes = Counts(id).successes
    PROVE  Few(id)'
<1>1. Up' = Node => Up = Node
  BY DEF Up
<1>2. Up' = Node /\ ops'[id].did = {} => YesNet(id)' = {} /\ YesQueued(id)' = {}
  BY <1>1 DEF Few
<1>3. \A m, n \in YesNet(id)' : m = n /\ Copies(m, net') <= 1
  BY DEF Few
<1>4. \A m, n \in YesQueued(id)' : m = n /\ Copies(m, mp2q'[m.to]) <= 1
  BY DEF Few
<1>5. \A m, n \in Undos(id)' : m = n /\ Copies(m, mp2q'[m.to]) <= 1
  BY DEF Few
<1>6. Counts(id)'.successes <= 1 /\ (YesQueued(id)' # {} => Counts(id)'.successes = 0)
  BY DEF Few
<1>7. /\ phase' = "check" => YesNet(id)' = {} \/ Undos(id)' = {}
      /\ phase' # "check" => YesNet(id)' = {} \/ YesQueued(id)' = {}
  BY DEF Few
<1>. QED BY <1>2, <1>3, <1>4, <1>5, <1>6, <1>7 DEF Few

(* Tables that lose nothing keep what the holders have.                       *)
LEMMA HoldersKept ==
    ASSUME Holders, Up' = Up, DOMAIN ops' = DOMAIN ops,
           \A id \in DOMAIN ops : /\ ops'[id].key = ops[id].key /\ ops'[id].asked = ops[id].asked
                                  /\ ops'[id].did = ops[id].did,
           \A i \in Up : \A k \in DOMAIN ht[i] : k \in DOMAIN ht'[i]
    PROVE  Holders'
<1>. SUFFICES ASSUME NEW id \in DOMAIN ops, id.type = "CREATE"
              PROVE  /\ ops'[id].did \subseteq ops'[id].asked
                     /\ ops'[id].asked \cap Up' \subseteq findNodes(Up', ops'[id].key)
                     /\ Kept(id)' => \A i \in ops'[id].did \cap Up' : ops'[id].key \in DOMAIN ht'[i]
  BY DEF Holders
<1>1. Kept(id)' => Kept(id)
  BY DEF Kept
<1>. QED BY <1>1 DEF Holders

(* What is earned stays so when no operation changes but for failures logged. *)
LEMMA EarnedKept ==
    ASSUME Earned, Up' = Up, DOMAIN ops' = DOMAIN ops,
           \A id \in DOMAIN ops : ops'[id].key = ops[id].key /\ ops'[id].did = ops[id].did,
           \A id \in DOMAIN ops : Succeeded(id)' => Succeeded(id),
           \A id \in DOMAIN ops : id.type = "CREATE" /\ Few(id) => Few(id)'
    PROVE  Earned'
<1>. SUFFICES ASSUME NEW id \in DOMAIN ops, Kept(id)', ~Backed(id)'
              PROVE  ~Succeeded(id)' /\ Few(id)'
  BY DEF Earned
<1>1. Kept(id)
  BY DEF Kept
<1>2. ~Backed(id)
  BY DEF Backed
<1>. QED BY <1>1, <1>2 DEF Earned, Kept

-------------------------------------------------------------------------------
(* The clock and the failure.                                                 *)

(* A node that has failed leaves the tables for good.                         *)
LEMMA ClockKeepsViews ==
    ASSUME SingleFailure, SInv, mp1Run
    PROVE  Views'
<1>1. Up' = Up /\ UNCHANGED ring /\ Up \subseteq Node
  BY DEF mp1Run, Up, nodeVars
<1>2. PICK dead \in [Up -> SUBSET Lingering] :
         /\ \A i \in Up : dead[i] \subseteq member[i]
         /\ member' = [i \in Node |-> IF i \in Up THEN (Node \ Detectable) \cup dead[i]
                                                 ELSE member[i]]
  BY DEF mp1Run, SingleFailure
<1>3. Lingering \subseteq Detectable /\ Detectable \subseteq Node \ Up
  BY DEF Lingering, Detectable
<1>4. DetectAfter \in Nat /\ DetectLast \in Nat /\ DetectLast >= DetectAfter
  BY ClientAssumption DEF DetectLast
<1>5. ASSUME NEW x \in Node \ Up
      PROVE  /\ downFor'[x] \in Nat /\ downFor[x] \in Nat /\ downFor'[x] >= downFor[x]
             /\ x \in Detectable <=> downFor[x] >= DetectAfter
  <2>1. downFor[x] \in Nat
    BY <1>4 DEF SInv, AInv, IInv, TypeOK
  <2>2. downFor'[x] = IF downFor[x] < DetectLast THEN downFor[x] + 1 ELSE downFor[x]
    BY <1>5 DEF mp1Run
  <2>. QED BY <2>1, <2>2 DEF Detectable
<1>6. ASSUME NEW i \in Node
      PROVE  /\ member'[i] \in {Node, Up}
             /\ ring[i] = Node \/ ring[i] = member'[i]
             /\ member'[i] # Node => \A x \in Node \ Up : downFor'[x] >= DetectAfter
  <2>1. /\ member[i] \in {Node, Up} /\ (ring[i] = Node \/ ring[i] = member[i])
        /\ member[i] # Node => \A x \in Node \ Up : downFor[x] >= DetectAfter
    BY DEF SInv, Views
  <2>2. member[i] # Node => \A x \in Node \ Up : downFor'[x] >= DetectAfter
    BY <1>4, <1>5, <2>1
  <2>3. CASE i \notin Up
    BY <1>2, <2>1, <2>2, <2>3
  <2>4. CASE i \in Up /\ Node = Up
    <3>1. Detectable = {} /\ dead[i] = {}
      BY <1>2, <1>3, <2>4
    <3>. QED BY <1>2, <2>1, <2>4, <3>1
  <2>5. CASE i \in Up /\ Node # Up
    <3>1. PICK f \in Node \ Up : Node \ Up = {f}
      BY <1>1, <2>5 DEF SInv, Views
    <3>2. member'[i] = (Node \ Detectable) \cup dead[i] /\ dead[i] \subseteq Detectable
          /\ dead[i] \subseteq member[i]
      BY <1>2, <1>3, <2>5
    <3>3. CASE f \notin Detectable
      <4>1. Detectable = {} /\ dead[i] = {}
        BY <1>3, <3>1, <3>2, <3>3
      <4>2. member'[i] = Node /\ ~(downFor[f] >= DetectAfter)
        BY <1>5, <3>2, <3>3, <4>1
      <4>3. member[i] = Node
        BY <2>1, <4>2
      <4>. QED BY <2>1, <4>2, <4>3
    <3>4. CASE f \in Detectable
      <4>1. Detectable = {f} /\ Node \ {f} = Up /\ (dead[i] = {} \/ dead[i] = {f})
        BY <1>1, <1>3, <3>1, <3>2, <3>4
      <4>2. CASE dead[i] = {}
        <5>1. member'[i] = Up /\ downFor[f] >= DetectAfter
          BY <1>5, <3>2, <3>4, <4>1, <4>2
        <5>2. \A x \in Node \ Up : downFor'[x] >= DetectAfter
          BY <1>4, <1>5, <3>1, <5>1
        <5>. QED BY <2>1, <5>1, <5>2
      <4>3. CASE dead[i] = {f}
        <5>1. member'[i] = Node /\ f \in member[i]
          BY <3>2, <4>1, <4>3
        <5>2. member[i] = Node
          BY <2>1, <5>1
        <5>. QED BY <2>1, <5>1, <5>2
      <4>. QED BY <4>1, <4>2, <4>3
    <3>. QED BY <3>3, <3>4
  <2>. QED BY <2>3, <2>4, <2>5
<1>. QED BY <1>1, <1>6 DEF Views, SInv

(* When the clock advances, only messages to nodes that are not up go away.   *)
LEMMA ClockKeepsCopies ==
    ASSUME SingleFailure, SInv, mp1Run
    PROVE  Views' /\ Creations' /\ Holders' /\ Earned'
<1>1. /\ phase = "client" /\ phase' = "ring" /\ turn' = 0 /\ Up' = Up
      /\ UNCHANGED <<mp2q, ht, ops, tally, g_transID>>
      /\ net' = Among(net, To(net, Up)) /\ IsABag(net)
  BY DEF mp1Run, Up, nodeVars, coordVars, SInv, AInv, IInv, Shapes
<1>2. BagToSet(net') = BagToSet(net) \cap To(net, Up)
  BY <1>1, BagAmong
<1>3. \A m \in BagToSet(net') : Copies(m, net') = Copies(m, net)
  BY <1>1, <1>2, BagAmong
<1>4. \A m \in BagToSet(net') : m \in BagToSet(net) /\ m.to \in Up /\ m.to > 0
  <2>1. \A x \in Up : x > 0
    BY NodeFacts DEF Up
  <2>. QED BY <1>2, <2>1 DEF To
<1>5. PendingMessages' \subseteq PendingMessages
  BY <1>1, <1>4 DEF PendingMessages
<1>6. Creations'
  BY <1>1, <1>4, <1>5 DEF SInv, Creations
<1>7. Holders'
  BY <1>1, HoldersKept DEF SInv
<1>8. ASSUME NEW id, Few(id)
      PROVE  Few(id)'
  <2>1. \A m \in YesNet(id)' : m \in YesNet(id) /\ Copies(m, net') = Copies(m, net)
    BY <1>3, <1>4 DEF YesNet
  <2>2. YesQueued(id)' = YesQueued(id) /\ Undos(id)' = Undos(id) /\ Counts(id)' = Counts(id)
    BY <1>1 DEF YesQueued, Undos, Queued, Counts
  <2>. QED BY <1>1, <1>8, <2>1, <2>2, FewKept
<1>9. Earned'
  BY <1>1, <1>8, EarnedKept DEF SInv, Succeeded
<1>. QED BY <1>6, <1>7, <1>9, ClockKeepsViews

(* The driver fails a node when all are up, and two nodes that have done a    *)
(* creation are more than that.                                               *)
LEMMA FailKeepsCopies ==
    ASSUME SingleFailure, SInv, NEW f \in Node, fail(f)
    PROVE  Views' /\ Creations' /\ Holders' /\ Earned'
<1>1. /\ phase = "client" /\ f \in Up
      /\ UNCHANGED <<phase, turn, downFor, member, ring, ht, net, mp2q, g_transID, tally, ops>>
      /\ Up' = Up \ {f}
  BY DEF fail, nodeVars, netVars, coordVars, Up, SInv, AInv, IInv, TypeOK
<1>2. Up = Node
  <2>1. Node \ Up \in SUBSET Node
    OBVIOUS
  <2>2. IsFiniteSet(Node \ Up) /\ Cardinality(Node \ Up) \in Nat
    BY <2>1, NodeFacts
  <2>3. Cardinality(Node \ Up) < MaxFailures /\ MaxFailures \in Nat /\ MaxFailures <= 1
    BY ClientAssumption DEF fail, SingleFailure
  <2>4. Cardinality(Node \ Up) = 0
    BY <2>2, <2>3
  <2>5. Node \ Up = {}
    BY <2>2, <2>4, FS_EmptySet
  <2>. QED BY <2>5 DEF Up
<1>3. Views'
  BY <1>1, <1>2 DEF SInv, Views
<1>4. PendingMessages' = PendingMessages
  BY <1>1 DEF PendingMessages
<1>5. Creations'
  BY <1>1, <1>2, <1>4 DEF SInv, Creations
<1>6. ASSUME NEW k \in Key
      PROVE  findNodes(Node, k) \ {f} \subseteq findNodes(Up', k)
  <2>1. Cardinality(Node) = EN_GPSZ /\ EN_GPSZ >= 4
    BY RingAssumption, FS_Interval DEF Node, SingleFailure
  <2>. QED BY <1>1, <1>2, <2>1, ReplicasStay
<1>7. ASSUME NEW id \in DOMAIN ops
      PROVE  ops[id].key \in Key /\ Kept(id)' = Kept(id) /\ Succeeded(id)' = Succeeded(id)
  <2>1. ops[id] \in OpRecord
    BY DEF SInv, AInv, IInv, Shapes
  <2>. QED BY <1>1, <2>1 DEF Kept, Succeeded, OpRecord
<1>8. Holders'
  <2>. SUFFICES ASSUME NEW id \in DOMAIN ops, id.type = "CREATE"
                PROVE  /\ ops[id].did \subseteq ops[id].asked
                       /\ ops[id].asked \cap Up' \subseteq findNodes(Up', ops[id].key)
                       /\ Kept(id) => \A i \in ops[id].did \cap Up' : ops[id].key \in DOMAIN ht[i]
    BY <1>1, <1>7 DEF Holders
  <2>1. /\ ops[id].did \subseteq ops[id].asked
        /\ ops[id].asked \cap Node \subseteq findNodes(Node, ops[id].key)
        /\ Kept(id) => \A i \in ops[id].did \cap Node : ops[id].key \in DOMAIN ht[i]
    BY <1>2 DEF SInv, Holders
  <2>2. findNodes(Node, ops[id].key) \ {f} \subseteq findNodes(Up', ops[id].key)
    BY <1>6, <1>7
  <2>. QED BY <1>1, <1>2, <2>1, <2>2
<1>9. ASSUME NEW id \in DOMAIN ops, Backed(id)
      PROVE  Backed(id)'
  <2>1. ops[id].did # {} /\ \A x \in Node : ops[id].did # {x}
    BY <1>2, <1>9 DEF Backed
  <2>2. ops[id].did \subseteq Node
    BY DEF SInv, AInv, IInv, Shapes, OpRecord
  <2>3. PICK y \in ops[id].did : y # f
    BY <2>1
  <2>4. Up' # Node /\ y \in Up'
    BY <1>1, <1>2, <2>2, <2>3
  <2>. QED BY <1>1, <2>3, <2>4 DEF Backed
<1>10. ASSUME NEW id, Few(id)
       PROVE  Few(id)'
  <2>1. YesNet(id)' = YesNet(id) /\ YesQueued(id)' = YesQueued(id) /\ Undos(id)' = Undos(id)
        /\ Counts(id)' = Counts(id)
    BY <1>1 DEF YesNet, YesQueued, Undos, Queued, Counts
  <2>. QED BY <1>1, <1>10, <2>1, FewKept
<1>11. Earned'
  BY <1>1, <1>7, <1>9, <1>10 DEF SInv, Earned
<1>. QED BY <1>3, <1>5, <1>8, <1>11

(* When a loop ends everything has been received, or everything handled.      *)
LEMMA LoopEndKeepsCopies ==
    ASSUME SInv, loopEnds
    PROVE  Views' /\ Creations' /\ Holders' /\ Earned'
<1>1. /\ UNCHANGED <<bFailed, downFor, member, ring, ht, net, mp2q, g_transID, tally, ops>>
      /\ Up' = Up /\ phase' # "ring"
  BY DEF loopEnds, failVars, nodeVars, netVars, coordVars, Up
<1>2. PendingMessages' = PendingMessages
  BY <1>1 DEF PendingMessages
<1>3. Views' /\ Creations'
  BY <1>1, <1>2 DEF SInv, Views, Creations
<1>4. Holders'
  BY <1>1, HoldersKept DEF SInv
<1>5. ASSUME NEW id, id.type = "CREATE", Few(id)
      PROVE  Few(id)'
  <2>1. YesNet(id)' = YesNet(id) /\ YesQueued(id)' = YesQueued(id) /\ Undos(id)' = Undos(id)
        /\ Counts(id)' = Counts(id)
    BY <1>1 DEF YesNet, YesQueued, Undos, Queued, Counts
  <2>2. CASE phase = "ring" /\ phase' = "check"
    <3>1. ASSUME NEW m \in YesNet(id)
          PROVE  FALSE
      <4>1. m \in BagToSet(net) /\ m.to \in Up /\ m.to > turn
        BY <1>5, <2>2 DEF SInv, Creations, YesNet, IsYes
      <4>2. m.to \in turn + 1 .. EN_GPSZ
        BY <4>1 DEF Up, Node, SInv, AInv, IInv, TypeOK
      <4>3. ~RingDue(m.to)
        BY <2>2, <4>2 DEF loopEnds
      <4>. QED BY <4>1, <4>3 DEF RingDue, To
    <3>2. YesNet(id) = {}
      BY <3>1
    <3>. QED BY <1>1, <1>5, <2>1, <2>2, <3>2 DEF Few
  <2>3. CASE phase = "check" /\ phase' = "client"
    <3>1. \A j \in Node : BagToSet(mp2q[j]) = {}
      BY <2>3, BagEmpty DEF loopEnds, CheckDue, SInv, AInv, IInv, Schedule
    <3>2. YesQueued(id) = {}
      BY <3>1 DEF YesQueued, Queued
    <3>. QED BY <1>1, <1>5, <2>1, <2>3, <3>2 DEF Few
  <2>. QED BY <2>2, <2>3 DEF loopEnds
<1>6. Earned'
  BY <1>1, <1>5, EarnedKept DEF SInv, Succeeded
<1>. QED BY <1>3, <1>4, <1>6

(* So does a step in which nothing changes.                                   *)
LEMMA StutterKeepsCopies ==
    ASSUME SInv, UNCHANGED vars
    PROVE  Views' /\ Creations' /\ Holders' /\ Earned'
<1>1. /\ UNCHANGED <<phase, turn, bFailed, downFor, member, ring, ht, net, mp2q, g_transID, tally, ops>>
      /\ Up' = Up
  BY DEF vars, driverVars, failVars, nodeVars, netVars, coordVars, Up
<1>2. PendingMessages' = PendingMessages
  BY <1>1 DEF PendingMessages
<1>3. Views' /\ Creations'
  BY <1>1, <1>2 DEF SInv, Views, Creations
<1>4. Holders'
  BY <1>1, HoldersKept DEF SInv
<1>5. ASSUME NEW id, Few(id)
      PROVE  Few(id)'
  <2>1. YesNet(id)' = YesNet(id) /\ YesQueued(id)' = YesQueued(id) /\ Undos(id)' = Undos(id)
        /\ Counts(id)' = Counts(id)
    BY <1>1 DEF YesNet, YesQueued, Undos, Queued, Counts
  <2>. QED BY <1>1, <1>5, <2>1, FewKept
<1>6. Earned'
  BY <1>1, <1>5, EarnedKept DEF SInv, Succeeded
<1>. QED BY <1>3, <1>4, <1>6

-------------------------------------------------------------------------------
(* The driver issues an operation.                                            *)

(* The replicas found on any ring are those that are found among the nodes    *)
(* that are up, or down.                                                      *)
LEMMA ReplicasUp ==
    ASSUME SingleFailure, SInv, NEW c \in Node, NEW k \in Key
    PROVE  findNodes(ring[c], k) \cap Up \subseteq findNodes(Up, k)
<1>1. ring[c] \in {Node, Up} /\ Up \subseteq Node /\ \A x, y \in Node \ Up : x = y
  BY DEF SInv, Views, Up
<1>2. CASE ring[c] = Up
  BY <1>2
<1>3. CASE ring[c] = Node /\ Up # Node
  <2>1. PICK f \in Node : f \notin Up
    BY <1>1, <1>3
  <2>2. Up = Node \ {f}
    BY <1>1, <2>1
  <2>3. Cardinality(Node) = EN_GPSZ /\ EN_GPSZ >= 4
    BY RingAssumption, FS_Interval DEF Node, SingleFailure
  <2>4. findNodes(Node, k) \ {f} \subseteq findNodes(Node \ {f}, k)
    BY <2>3, ReplicasStay
  <2>. QED BY <1>3, <2>1, <2>2, <2>4
<1>. QED BY <1>1, <1>2, <1>3

(* A new creation has not been done, and nothing has its id.                  *)
LEMMA ClientKeepsCopies ==
    ASSUME SingleFailure, SInv, NEW c \in Node, NEW type \in ClientOps, NEW k \in Key,
           NEW v \in Value \cup {NoValue}, client(c, type, k, v)
    PROVE  Views' /\ Creations' /\ Holders' /\ Earned'
<1>. PICK id : id = CRUDId(type, g_transID + 1)
  OBVIOUS
<1>. DEFINE replicas == findNodes(ring[c], k)
<1>1. /\ phase = "client" /\ phase' = "client" /\ Up' = Up
      /\ UNCHANGED <<downFor, member, ring, ht, mp2q, tally>>
      /\ g_transID' = g_transID + 1 /\ g_transID \in Nat
  BY DEF client, failVars, nodeVars, Up, SInv, AInv, IInv, TypeOK
<1>2. PICK stab \in IF type = "CREATE" THEN UnsetReplica ELSE {FALSE} :
         net' = net (+) SetToBag({[type |-> type, id |-> id, from |-> c, to |-> x,
                                   key |-> k, value |-> v, stab |-> stab] : x \in replicas})
  BY DEF client
<1>. DEFINE request(x) == [type |-> type, id |-> id, from |-> c, to |-> x,
                           key |-> k, value |-> v, stab |-> stab]
            sent == {request(x) : x \in replicas}
<1>3. DOMAIN tally = {} /\ \A i \in Node : BagToSet(mp2q[i]) = {}
  BY <1>1 DEF SInv, AInv, IInv, Schedule
<1>4. id.type = type /\ id.seq = g_transID + 1 /\ type \in {"CREATE", "READ", "UPDATE", "DELETE"}
  BY ClientAssumption DEF CRUDId
<1>5. \A x \in DOMAIN ops : x.seq \in Nat /\ x.seq <= g_transID
  BY DEF SInv, AInv, IInv, TypeOK, Issue, Ids
<1>6. id \notin DOMAIN ops
  BY <1>1, <1>4, <1>5
<1>7. /\ DOMAIN ops' = DOMAIN ops \cup {id}
      /\ ops'[id] = [key |-> k, value |-> v, coord |-> c,
                     asked |-> replicas, did |-> {}, told |-> <<>>]
      /\ \A x \in DOMAIN ops : ops'[x] = ops[x]
  BY <1>6 DEF client, Put
<1>8. /\ BagToSet(net') = BagToSet(net) \cup sent
      /\ \A m : Copies(m, net') = Copies(m, net) + IF m \in sent THEN 1 ELSE 0
  BY <1>2, BagPut DEF SInv, AInv, IInv, Shapes
<1>9. \A m \in sent : m.id = id /\ m.type = type /\ m.key = k /\ m.to \in replicas
  OBVIOUS
<1>. HIDE DEF sent, request
<1>10. PendingMessages' = PendingMessages \cup sent
  BY <1>1, <1>8 DEF PendingMessages
<1>11. \A m \in PendingMessages : m.id \in Ids /\ m.id.seq \in Nat /\ m.id.seq <= g_transID
  <2>. SUFFICES ASSUME NEW m \in PendingMessages
                PROVE  m.id \in Ids /\ m.id.seq \in Nat /\ m.id.seq <= g_transID
    OBVIOUS
  <2>1. m.id \in Ids
    BY PendingKinds DEF SInv, AInv, IInv
  <2>2. m.id \notin DOMAIN ops => m.id.seq < g_transID
    BY DEF SInv, AInv, Strays
  <2>. QED BY <1>1, <1>5, <2>1, <2>2 DEF Ids
<1>12. \A m \in PendingMessages : m.id # id /\ m \notin sent
  BY <1>1, <1>4, <1>9, <1>11
<1>13. Views'
  BY <1>1 DEF SInv, Views
<1>14. Creations'
  <2>. SUFFICES ASSUME NEW m \in PendingMessages'
                PROVE  /\ m.id.type = "CREATE" => m.type \in {"CREATE", "DELETE", "REPLY"}
                       /\ IsMake(m) => /\ m.id \in DOMAIN ops' /\ m.id.type = "CREATE"
                                       /\ m.key = ops'[m.id].key /\ m.to \in ops'[m.id].asked
                       /\ IsUndo(m) => /\ Up # Node /\ m.to \notin findNodes(Up, m.key)
                                       /\ m.id.seq < g_transID' /\ m \notin BagToSet(net')
    BY <1>1 DEF Creations
  <2>1. CASE m \in sent
    BY <1>4, <1>7, <1>9, <2>1 DEF IsMake, IsUndo
  <2>2. CASE m \in PendingMessages
    <3>1. /\ m.id.type = "CREATE" => m.type \in {"CREATE", "DELETE", "REPLY"}
          /\ IsMake(m) => /\ m.id \in DOMAIN ops /\ m.id.type = "CREATE"
                          /\ m.key = ops[m.id].key /\ m.to \in ops[m.id].asked
          /\ IsUndo(m) => /\ Up # Node /\ m.to \notin findNodes(Up, m.key)
                          /\ m.id.seq < g_transID /\ m \notin BagToSet(net)
      BY <2>2 DEF SInv, Creations
    <3>2. m \notin sent /\ m.id.seq \in Nat
      BY <1>11, <1>12, <2>2
    <3>. QED BY <1>1, <1>7, <1>8, <3>1, <3>2
  <2>. QED BY <1>10, <2>1, <2>2
<1>15. \A x \in DOMAIN ops : Kept(x)' => Kept(x)
  BY <1>7 DEF Kept
<1>16. Holders'
  <2>. SUFFICES ASSUME NEW x \in DOMAIN ops', x.type = "CREATE"
                PROVE  /\ ops'[x].did \subseteq ops'[x].asked
                       /\ ops'[x].asked \cap Up \subseteq findNodes(Up, ops'[x].key)
                       /\ Kept(x)' => \A i \in ops'[x].did \cap Up : ops'[x].key \in DOMAIN ht[i]
    BY <1>1 DEF Holders
  <2>1. CASE x \in DOMAIN ops
    BY <1>7, <1>15, <2>1 DEF SInv, Holders
  <2>2. CASE x = id
    BY <1>7, <2>2, ReplicasUp
  <2>. QED BY <1>7, <2>1, <2>2
<1>17. ASSUME NEW x, x \in DOMAIN ops, Few(x)
       PROVE  Few(x)'
  <2>1. ASSUME NEW m \in YesNet(x)'
        PROVE  m \in YesNet(x) /\ Copies(m, net') = Copies(m, net)
    <3>1. m.id = x /\ m \in BagToSet(net')
      BY DEF YesNet, IsYes
    <3>2. m \notin sent
      BY <1>6, <1>9, <1>17, <3>1
    <3>3. Copies(m, net) \in Nat
      BY BagCopies DEF SInv, AInv, IInv, Shapes
    <3>. QED BY <1>8, <3>2, <3>3 DEF YesNet
  <2>2. YesQueued(x)' = YesQueued(x) /\ Undos(x)' = Undos(x) /\ Counts(x)' = Counts(x)
    BY <1>1 DEF YesQueued, Undos, Queued, Counts
  <2>. QED BY <1>1, <1>7, <1>17, <2>1, <2>2, FewKept
<1>18. ASSUME type = "CREATE"
       PROVE  ~Succeeded(id)' /\ Few(id)'
  <2>1. ~Succeeded(id)'
    BY <1>7 DEF Succeeded
  <2>2. YesNet(id)' = {}
    <3>1. \A m \in sent : m.type # "REPLY"
      BY <1>9, <1>18
    <3>2. \A m \in BagToSet(net) : m.id # id
      BY <1>12 DEF PendingMessages
    <3>. QED BY <1>8, <3>1, <3>2 DEF YesNet, IsYes
  <2>3. YesQueued(id)' = {} /\ Undos(id)' = {}
    BY <1>1, <1>3 DEF YesQueued, Undos, Queued
  <2>4. Counts(id)'.successes = 0
    BY <1>1, <1>3 DEF Counts
  <2>. QED BY <2>1, <2>2, <2>3, <2>4 DEF Few
<1>19. Earned'
  <2>. SUFFICES ASSUME NEW x \in DOMAIN ops', Kept(x)', ~Backed(x)'
                PROVE  ~Succeeded(x)' /\ Few(x)'
    BY DEF Earned
  <2>1. CASE x \in DOMAIN ops
    <3>1. Kept(x) /\ ~Backed(x) /\ (Succeeded(x)' => Succeeded(x))
      BY <1>1, <1>7, <1>15, <2>1 DEF Backed, Succeeded
    <3>. QED BY <1>17, <2>1, <3>1 DEF SInv, Earned
  <2>2. CASE x = id
    BY <1>4, <1>18, <2>2 DEF Kept
  <2>. QED BY <1>7, <2>1, <2>2
<1>. QED BY <1>13, <1>14, <1>16, <1>19

-------------------------------------------------------------------------------
(* The first loop of mp2Run.                                                  *)

(* A turn moves what is in flight to the node into its queue; deletions with  *)
(* the id of a creation come from one stabilization at most, the first after  *)
(* it, and that follows a failure.                                            *)
LEMMA RingStepKeepsCopies ==
    ASSUME SInv, NEW i \in Node, NEW B, RingStep(i, B), StabSends(i, B)
    PROVE  Views' /\ Creations' /\ Holders' /\ Earned'
<1>1. /\ phase = "ring" /\ phase' = "ring" /\ turn' = i /\ i > turn /\ i \in Up /\ Up' = Up
      /\ UNCHANGED <<downFor, member, ht, ops, tally>>
      /\ ring' = [ring EXCEPT ![i] = member[i]]
      /\ DOMAIN tally = {} /\ BagToSet(mp2q[i]) = {} /\ IsABag(B) /\ IsABag(net)
      /\ \A m \in BagToSet(B) : m \in Requests /\ m.id.type = "CREATE"
      /\ \A j \in turn + 1 .. i - 1 : ~RingDue(j)
      /\ turn \in 0 .. EN_GPSZ
  BY DEF RingStep, RingTurn, RingDue, failVars, Up, SInv, AInv, IInv, Schedule, Shapes, TypeOK
<1>2. /\ \A j \in Node \ {i} : mp2q'[j] = mp2q[j]
      /\ BagToSet(net') = {m \in BagToSet(net) \cup BagToSet(B) : m.to # i}
      /\ BagToSet(mp2q'[i]) = {m \in BagToSet(net) \cup BagToSet(B) : m.to = i}
      /\ \A m : Copies(m, net') = IF m.to = i THEN 0 ELSE Copies(m, net) + Copies(m, B)
      /\ \A m : Copies(m, mp2q'[i])
                   = Copies(m, mp2q[i]) + IF m.to = i THEN Copies(m, net) + Copies(m, B) ELSE 0
  BY <1>1, Received DEF SInv, AInv, IInv, RingStep
<1>3. PendingMessages' = PendingMessages \cup BagToSet(B)
  BY <1>1, <1>2 DEF PendingMessages
<1>4. /\ g_transID \in Nat /\ g_transID' \in Nat /\ g_transID' >= g_transID
      /\ \A m \in BagToSet(B) : /\ m.id.seq \in Nat /\ m.id.seq >= g_transID /\ m.id.seq < g_transID'
                                /\ Copies(m, B) = 1
                                /\ \A n \in BagToSet(B) : n.id = m.id => n = m
  BY <1>1 DEF RingStep, SInv, AInv, IInv, TypeOK, Requests, Ids
<1>5. \A m : /\ m \notin BagToSet(B) => Copies(m, B) = 0
             /\ m \notin BagToSet(net) => Copies(m, net) = 0
             /\ Copies(m, mp2q[i]) = 0 /\ Copies(m, net) \in Nat /\ Copies(m, B) \in Nat
  BY <1>1, BagCopies DEF Copies
<1>6. \A m \in BagToSet(B) : m.type # "REPLY" /\ ~IsMake(m)
  BY DEF StabSends, IsMake
<1>7. \A m \in PendingMessages : IsUndo(m) =>
         /\ Up # Node /\ m.to \notin findNodes(Up, m.key)
         /\ m.id.seq < g_transID /\ m \notin BagToSet(net) /\ m.id.seq \in Nat
  <2>1. \A m \in PendingMessages : m.id \in Ids
    BY PendingKinds DEF SInv, AInv, IInv
  <2>. QED BY <2>1 DEF SInv, Creations, Ids
<1>8. \A m \in BagToSet(B) : IsUndo(m) =>
         m.to = i /\ Up # Node /\ m.to \notin findNodes(Up, m.key) /\ m \notin PendingMessages
  <2>. SUFFICES ASSUME NEW m \in BagToSet(B), IsUndo(m)
                PROVE  m.to = i /\ Up # Node /\ m.to \notin findNodes(Up, m.key) /\ m \notin PendingMessages
    OBVIOUS
  <2>1. m.to = i /\ ring[i] # member[i] /\ i \notin findNodes(member[i], m.key)
    BY DEF StabSends, IsUndo
  <2>2. member[i] = Up /\ Up # Node
    BY <2>1 DEF SInv, Views
  <2>3. m \notin PendingMessages
    BY <1>4, <1>7
  <2>. QED BY <2>1, <2>2, <2>3
<1>9. Views'
  <2>1. \A j \in Node : ring'[j] = IF j = i THEN member[i] ELSE ring[j]
    BY <1>1 DEF SInv, AInv, IInv, TypeOK
  <2>. QED BY <1>1, <2>1 DEF SInv, Views
<1>10. Creations'
  <2>1. ASSUME NEW m \in PendingMessages'
        PROVE  /\ m.id.type = "CREATE" => m.type \in {"CREATE", "DELETE", "REPLY"}
               /\ IsMake(m) => /\ m.id \in DOMAIN ops /\ m.id.type = "CREATE"
                               /\ m.key = ops[m.id].key /\ m.to \in ops[m.id].asked
               /\ IsUndo(m) => /\ Up # Node /\ m.to \notin findNodes(Up, m.key)
                               /\ m.id.seq < g_transID' /\ m \notin BagToSet(net')
    <3>1. CASE m \in BagToSet(B)
      BY <1>2, <1>4, <1>6, <1>8, <3>1 DEF StabSends
    <3>2. CASE m \in PendingMessages /\ m \notin BagToSet(B)
      <4>1. IsUndo(m) => m \notin BagToSet(net') /\ m.id.seq < g_transID'
        BY <1>2, <1>4, <1>7, <3>2
      <4>. QED BY <1>7, <3>2, <4>1 DEF SInv, Creations
    <3>. QED BY <1>3, <3>1, <3>2
  <2>2. ASSUME NEW m \in BagToSet(net'), m.type = "REPLY", m.id.type = "CREATE"
        PROVE  m.to \in Up /\ m.to > i
    <3>1. m \in BagToSet(net) /\ m.to # i
      BY <1>2, <1>6, <2>2
    <3>2. m.to \in Up /\ m.to > turn
      BY <1>1, <2>2, <3>1 DEF SInv, Creations
    <3>3. m.to \in Nat /\ i \in Nat
      BY <3>2, NodeFacts DEF Up
    <3>4. CASE m.to < i
      <4>1. m.to \in turn + 1 .. i - 1
        BY <1>1, <3>2, <3>3, <3>4
      <4>2. ~RingDue(m.to)
        BY <1>1, <4>1
      <4>. QED BY <3>1, <3>2, <4>2 DEF RingDue, To
    <3>. QED BY <3>1, <3>2, <3>3, <3>4
  <2>. QED BY <1>1, <2>1, <2>2 DEF Creations
<1>11. Holders'
  BY <1>1, HoldersKept DEF SInv
<1>12. ASSUME NEW id, Few(id)
       PROVE  Few(id)'
  <2>1. /\ \A m \in YesNet(id)' : m \in YesNet(id) /\ m.to # i /\ Copies(m, net') = Copies(m, net)
        /\ \A m \in YesQueued(id)' : \/ m \in YesNet(id) /\ m.to = i
                                     \/ m \in YesQueued(id)
    <3>1. ASSUME NEW m \in YesNet(id)'
          PROVE  m \in YesNet(id) /\ m.to # i /\ Copies(m, net') = Copies(m, net)
      <4>1. m \in BagToSet(net') /\ IsYes(m, id)
        BY DEF YesNet, IsYes
      <4>2. m \notin BagToSet(B)
        BY <1>6, <4>1 DEF IsYes
      <4>. QED BY <1>2, <1>5, <4>1, <4>2 DEF YesNet
    <3>2. ASSUME NEW m \in YesQueued(id)'
          PROVE  (m \in YesNet(id) /\ m.to = i) \/ m \in YesQueued(id)
      <4>1. PICK j \in Node : m \in BagToSet(mp2q'[j]) /\ IsYes(m, id)
        BY DEF YesQueued, Queued, IsYes
      <4>2. m \notin BagToSet(B)
        BY <1>6, <4>1 DEF IsYes
      <4>. QED BY <1>2, <4>1, <4>2 DEF YesNet, YesQueued, Queued
    <3>. QED BY <3>1, <3>2
  <2>2. \A m \in YesQueued(id) \cup Undos(id) : m.to \in Node /\ m.to # i /\ mp2q'[m.to] = mp2q[m.to]
    BY <1>1, <1>2 DEF YesQueued, Undos, Queued, SInv, AInv, IInv, Shapes
  <2>3. YesNet(id) = {} \/ YesQueued(id) = {}
    BY <1>1, <1>12 DEF Few
  <2>4. \A m, n \in YesNet(id) : m = n /\ Copies(m, net) <= 1
    BY <1>12 DEF Few
  <2>5. \A m, n \in YesNet(id)' : m = n /\ Copies(m, net') <= 1
    BY <2>1, <2>4
  <2>6. \A m, n \in YesQueued(id)' : m = n /\ Copies(m, mp2q'[m.to]) <= 1
    <3>1. ASSUME NEW m \in YesQueued(id)'
          PROVE  Copies(m, mp2q'[m.to]) <= 1
      <4>1. CASE m \in YesNet(id) /\ m.to = i
        <5>1. m \notin BagToSet(B)
          BY <1>6, <4>1 DEF YesNet, IsYes
        <5>. QED BY <1>2, <1>5, <2>4, <4>1, <5>1
      <4>2. CASE m \in YesQueued(id)
        BY <1>12, <2>2, <4>2 DEF Few
      <4>. QED BY <2>1, <3>1, <4>1, <4>2
    <3>2. \A m, n \in YesQueued(id) : m = n
      BY <1>12 DEF Few
    <3>. QED BY <2>1, <2>3, <2>4, <3>1, <3>2
  <2>7. \A m \in Undos(id)' : \/ m \in Undos(id) /\ m \in PendingMessages
                              \/ m \in BagToSet(B) /\ m.to = i
    <3>. SUFFICES ASSUME NEW m \in Undos(id)'
                  PROVE  \/ m \in Undos(id) /\ m \in PendingMessages
                         \/ m \in BagToSet(B) /\ m.to = i
      OBVIOUS
    <3>1. PICK j \in Node : m \in BagToSet(mp2q'[j]) /\ IsUndo(m) /\ m.id = id
      BY DEF Undos, Queued, IsUndo
    <3>2. CASE j = i
      <4>1. m \in BagToSet(mp2q'[i])
        BY <3>1, <3>2
      <4>2. m \in BagToSet(B) \/ m \in BagToSet(net)
        BY <1>2, <4>1
      <4>3. m \in BagToSet(net) => m \in PendingMessages
        BY DEF PendingMessages
      <4>. QED BY <1>7, <1>8, <3>1, <4>2, <4>3
    <3>3. CASE j # i
      <4>1. m \in BagToSet(mp2q[j])
        BY <1>2, <3>1, <3>3
      <4>2. m \in Queued /\ m \in PendingMessages
        BY <4>1 DEF Queued, PendingMessages
      <4>. QED BY <3>1, <4>2 DEF Undos
    <3>. QED BY <3>2, <3>3
  <2>8. \A m \in Undos(id)' : IsUndo(m) /\ m.id = id
    BY DEF Undos, IsUndo
  <2>9. \A m, n \in Undos(id)' : m = n /\ Copies(m, mp2q'[m.to]) <= 1
    <3>1. ASSUME NEW m \in Undos(id)', m \in Undos(id), m \in PendingMessages
          PROVE  id.seq < g_transID /\ Copies(m, mp2q'[m.to]) <= 1
      BY <1>7, <1>12, <2>2, <2>8, <3>1 DEF Few
    <3>2. ASSUME NEW m \in Undos(id)', m \in BagToSet(B), m.to = i
          PROVE  id.seq >= g_transID /\ Copies(m, mp2q'[m.to]) <= 1
      <4>1. m \notin BagToSet(net)
        BY <1>8, <2>8, <3>2 DEF PendingMessages
      <4>2. Copies(m, mp2q'[i]) = 1
        BY <1>2, <1>4, <1>5, <3>2, <4>1
      <4>. QED BY <1>4, <2>8, <3>2, <4>2
    <3>3. ASSUME NEW m \in Undos(id)', NEW n \in Undos(id)'
          PROVE  m = n
      <4>1. \/ m \in Undos(id) /\ n \in Undos(id)
            \/ m \in BagToSet(B) /\ n \in BagToSet(B)
            \/ id.seq < g_transID /\ id.seq >= g_transID
        BY <2>7, <3>1, <3>2
      <4>2. \A x, y \in Undos(id) : x = y
        BY <1>12 DEF Few
      <4>3. id.seq \in Nat
        BY <1>4, <1>7, <2>7, <2>8
      <4>. QED BY <1>4, <2>8, <4>1, <4>2, <4>3
    <3>. QED BY <2>7, <3>1, <3>2, <3>3
  <2>10. Counts(id)'.successes = 0
    BY <1>1 DEF Counts
  <2>11. Up' = Node /\ ops'[id].did = {} => YesNet(id)' = {} /\ YesQueued(id)' = {}
    <3>1. Up = Node /\ ops[id].did = {} => YesNet(id) = {} /\ YesQueued(id) = {}
      BY <1>12 DEF Few
    <3>. QED BY <1>1, <2>1, <3>1
  <2>12. YesNet(id)' = {} \/ YesQueued(id)' = {}
    BY <2>1, <2>3, <2>4
  <2>. QED BY <1>1, <2>5, <2>6, <2>9, <2>10, <2>11, <2>12 DEF Few
<1>13. Earned'
  BY <1>1, <1>12, EarnedKept DEF SInv, Succeeded
<1>. QED BY <1>9, <1>10, <1>11, <1>13

-------------------------------------------------------------------------------
(* The second loop of mp2Run.                                                 *)

(* A message that is popped is one less.                                      *)
LEMMA PoppedFewer ==
    ASSUME SInv, NEW i \in Node, NEW m, NEW type, Pops(i, m, type), NEW id
    PROVE  /\ m \in Queued /\ m.to = i /\ phase = "check" /\ phase' = "check"
           /\ Queued' \subseteq Queued
           /\ \A x \in Queued' : Copies(x, mp2q[x.to]) <= 1 => Copies(x, mp2q'[x.to]) <= 1
           /\ Copies(m, mp2q[m.to]) <= 1 => m \notin Queued'
           /\ \A x \in YesQueued(id)' : x \in YesQueued(id) /\ x \in Queued'
           /\ \A x \in Undos(id)' : x \in Undos(id) /\ x \in Queued'
<1>1. /\ m \in BagToSet(mp2q[i]) /\ m.to = i
      /\ \A j \in Node : IsABag(mp2q'[j]) /\ IsABag(mp2q[j])
      /\ \A j \in Node : BagToSet(mp2q'[j]) \subseteq BagToSet(mp2q[j])
      /\ \A j \in Node \ {i} : mp2q'[j] = mp2q[j]
      /\ \A x : Copies(x, mp2q'[i]) = Copies(x, mp2q[i]) - IF x = m THEN 1 ELSE 0
  BY Popped DEF SInv, AInv, IInv, Shapes
<1>2. phase = "check" /\ phase' = "check"
  BY CheckTurns DEF Pops, SInv, AInv
<1>3. m \in Queued /\ Queued' \subseteq Queued
  BY <1>1 DEF Queued
<1>4. \A x \in Queued : x.to \in Node /\ x \in BagToSet(mp2q[x.to])
  BY DEF Queued, SInv, AInv, IInv, Shapes
<1>5. \A x : \A j \in Node : Copies(x, mp2q'[j]) \in Nat /\ Copies(x, mp2q[j]) \in Nat
  BY <1>1, BagCopies
<1>6. ASSUME NEW x \in Queued', Copies(x, mp2q[x.to]) <= 1
      PROVE  Copies(x, mp2q'[x.to]) <= 1
  <2>1. x.to \in Node
    BY <1>3, <1>4
  <2>2. CASE x.to = i
    BY <1>1, <1>5, <1>6, <2>1, <2>2
  <2>3. CASE x.to # i
    BY <1>1, <1>6, <2>1, <2>3
  <2>. QED BY <2>2, <2>3
<1>7. ASSUME Copies(m, mp2q[m.to]) <= 1
      PROVE  m \notin Queued'
  <2>1. ~(Copies(m, mp2q'[i]) > 0)
    BY <1>1, <1>5, <1>7
  <2>2. m \notin BagToSet(mp2q'[i])
    BY <1>1, <2>1, BagCopies
  <2>3. \A j \in Node \ {i} : m \notin BagToSet(mp2q'[j])
    BY <1>1 DEF SInv, AInv, IInv, Shapes
  <2>. QED BY <2>2, <2>3 DEF Queued
<1>8. \A x \in YesQueued(id)' : x \in YesQueued(id) /\ x \in Queued'
  BY <1>3 DEF YesQueued, IsYes
<1>9. \A x \in Undos(id)' : x \in Undos(id) /\ x \in Queued'
  BY <1>3 DEF Undos, IsUndo
<1>. QED BY <1>1, <1>2, <1>3, <1>6, <1>7, <1>8, <1>9

(* What a replica's handler does to a creation.                               *)
LEMMA ServeKeepsHolders ==
    ASSUME SInv, NEW i \in Node, NEW m, NEW answer, Serves(i, m, answer), Stores(i, m, answer)
    PROVE  Views' /\ Creations' /\ Holders'
<1>1. /\ CheckTurn(i) /\ m \in Requests /\ Up' = Up /\ DOMAIN ops' = DOMAIN ops
      /\ BagToSet(net') = BagToSet(net) \cup answer
      /\ \A a \in answer : a \in Replies /\ a.id = m.id /\ a.to = m.from
      /\ UNCHANGED <<downFor, member, ring, g_transID, tally>>
  BY ServeChanges DEF Serves, failVars, SInv, AInv
<1>2. phase = "check" /\ phase' = "check" /\ i \in Up
  BY <1>1, CheckTurns DEF SInv, AInv
<1>3. /\ m \in BagToSet(mp2q[i]) /\ m.to = i /\ m \in PendingMessages
      /\ \A j \in Node : BagToSet(mp2q'[j]) \subseteq BagToSet(mp2q[j])
  BY ServePopped DEF SInv, AInv
<1>4. \A x \in PendingMessages' : x \in PendingMessages \/ x \in answer
  BY <1>1, <1>3 DEF PendingMessages
<1>5. /\ \A id \in DOMAIN ops : /\ ops'[id].key = ops[id].key /\ ops'[id].asked = ops[id].asked
                                /\ ops'[id].told = ops[id].told
      /\ \A id \in DOMAIN ops : id # m.id => ops'[id].did = ops[id].did
      /\ m.id \in DOMAIN ops =>
            ops'[m.id].did = IF m.type = m.id.type /\ \E a \in answer : Success(a)
                             THEN ops[m.id].did \cup {i} ELSE ops[m.id].did
  BY ServeMarks DEF SInv, AInv
<1>6. \A a \in answer : a.type \in {"REPLY", "READREPLY"} /\ ~IsMake(a) /\ ~IsUndo(a)
  BY <1>1 DEF Replies, IsMake, IsUndo
<1>7. \A x \in PendingMessages :
         /\ x.id.type = "CREATE" => x.type \in {"CREATE", "DELETE", "REPLY"}
         /\ IsMake(x) => /\ x.id \in DOMAIN ops /\ x.id.type = "CREATE"
                         /\ x.key = ops[x.id].key /\ x.to \in ops[x.id].asked
         /\ IsUndo(x) => /\ Up # Node /\ x.to \notin findNodes(Up, x.key)
                         /\ x.id.seq < g_transID /\ x \notin BagToSet(net)
  BY DEF SInv, Creations
<1>8. Views'
  BY <1>1 DEF SInv, Views
<1>9. m.type \in {"CREATE", "READ", "UPDATE", "DELETE"}
  BY DEF Serves
<1>10. Creations'
  <2>. SUFFICES ASSUME NEW x \in PendingMessages'
                PROVE  /\ x.id.type = "CREATE" => x.type \in {"CREATE", "DELETE", "REPLY"}
                       /\ IsMake(x) => /\ x.id \in DOMAIN ops' /\ x.id.type = "CREATE"
                                       /\ x.key = ops'[x.id].key /\ x.to \in ops'[x.id].asked
                       /\ IsUndo(x) => /\ Up # Node /\ x.to \notin findNodes(Up, x.key)
                                       /\ x.id.seq < g_transID' /\ x \notin BagToSet(net')
    BY <1>1, <1>2 DEF Creations
  <2>1. CASE x \in answer
    <3>1. x.id = m.id /\ x.type \in {"REPLY", "READREPLY"} /\ ~IsMake(x) /\ ~IsUndo(x)
      BY <1>1, <1>6, <2>1
    <3>2. m.id.type = "CREATE" => x.type = "REPLY"
      <4>1. m.id.type = "CREATE" => m.type # "READ"
        BY <1>3, <1>7
      <4>. QED BY <2>1, <4>1 DEF Stores
    <3>. QED BY <3>1, <3>2
  <2>2. CASE x \in PendingMessages /\ x \notin answer
    <3>1. IsUndo(x) => x \notin BagToSet(net')
      BY <1>1, <1>7, <2>2
    <3>. QED BY <1>1, <1>5, <1>7, <2>2, <3>1
  <2>. QED BY <1>4, <2>1, <2>2
<1>11. ASSUME NEW id \in DOMAIN ops, id.type = "CREATE"
       PROVE  /\ ops'[id].did \subseteq ops[id].asked
              /\ Kept(id) => \A j \in ops'[id].did \cap Up : ops[id].key \in DOMAIN ht'[j]
  <2>1. /\ ops[id].did \subseteq ops[id].asked
        /\ ops[id].asked \cap Up \subseteq findNodes(Up, ops[id].key)
        /\ Kept(id) => \A j \in ops[id].did \cap Up : ops[id].key \in DOMAIN ht[j]
    BY <1>11 DEF SInv, Holders
  <2>2. ASSUME NEW j \in ops[id].did \cap Up, Kept(id)
        PROVE  ops[id].key \in DOMAIN ht'[j]
    <3>1. ops[id].key \in DOMAIN ht[j] /\ j \in Node
      BY <2>1, <2>2 DEF Up
    <3>2. CASE j # i
      BY <3>1, <3>2 DEF Stores
    <3>3. CASE j = i
      <4>. SUFFICES ASSUME m.type = "DELETE", m.key = ops[id].key
                    PROVE  FALSE
        BY <3>1, <3>3 DEF Stores
      <4>1. CASE m.id.type = "CREATE"
        <5>1. i \notin findNodes(Up, ops[id].key)
          BY <1>3, <1>7, <4>1 DEF IsUndo
        <5>. QED BY <2>1, <2>2, <3>3, <5>1
      <4>2. CASE m.id.type # "CREATE"
        <5>1. IsAsk(m)
          BY <1>9, <4>2 DEF IsAsk
        <5>2. m.id \in DOMAIN ops /\ m = RequestOf(m.id, m.to)
          BY <1>3, <5>1 DEF SInv, AInv, IInv, Flow, AsksReceived
        <5>3. m.id.type = "DELETE" /\ ops[m.id].key = m.key
          BY <5>2 DEF RequestOf
        <5>. QED BY <2>2, <5>2, <5>3 DEF Kept
      <4>. QED BY <4>1, <4>2
    <3>. QED BY <3>2, <3>3
  <2>3. CASE ops'[id].did = ops[id].did
    BY <2>1, <2>2, <2>3
  <2>4. CASE ops'[id].did # ops[id].did
    <3>1. /\ id = m.id /\ m.type = "CREATE" /\ (\E a \in answer : Success(a))
          /\ ops'[id].did = ops[id].did \cup {i}
      BY <1>5, <1>11, <2>4
    <3>2. ~m.stab /\ m.key \in DOMAIN ht'[i]
      BY <3>1 DEF Stores
    <3>3. m.key = ops[id].key /\ i \in ops[id].asked
      BY <1>3, <1>7, <3>1, <3>2 DEF IsMake
    <3>. QED BY <2>1, <2>2, <3>1, <3>2, <3>3
  <2>. QED BY <2>3, <2>4
<1>12. Holders'
  <2>1. \A id \in DOMAIN ops : Kept(id)' => Kept(id)
    BY <1>1, <1>5 DEF Kept
  <2>. QED BY <1>1, <1>5, <1>11, <2>1 DEF SInv, Holders
<1>. QED BY <1>8, <1>10, <1>12

(* A replica that does a creation is up, so that another is needed only while *)
(* all are; and a deletion is answered when no success of the replica that    *)
(* failed is on its way any more.                                             *)
LEMMA ServeKeepsEarned ==
    ASSUME SInv, NEW i \in Node, NEW m, NEW answer, Serves(i, m, answer), Stores(i, m, answer)
    PROVE  Earned'
<1>1. /\ CheckTurn(i) /\ m \in Requests /\ Up' = Up /\ DOMAIN ops' = DOMAIN ops
      /\ BagToSet(net') = BagToSet(net) \cup answer
      /\ \A x : Copies(x, net') = Copies(x, net) + IF x \in answer THEN 1 ELSE 0
      /\ \A a \in answer : a \in Replies /\ a.id = m.id /\ a.to = m.from
      /\ UNCHANGED <<g_transID, tally>>
  BY ServeChanges DEF Serves, SInv, AInv
<1>2. Pops(i, m, m.type) /\ m.type \in {"CREATE", "READ", "UPDATE", "DELETE"} /\ i \in Up
  BY <1>1, CheckTurns DEF Serves, SInv, AInv
<1>3. m \in PendingMessages /\ m.to = i
  BY ServePopped DEF SInv, AInv
<1>4. /\ \A id \in DOMAIN ops : ops'[id].key = ops[id].key /\ ops'[id].told = ops[id].told
      /\ \A id \in DOMAIN ops : id # m.id => ops'[id].did = ops[id].did
      /\ m.id \in DOMAIN ops =>
            ops'[m.id].did = IF m.type = m.id.type /\ \E a \in answer : Success(a)
                             THEN ops[m.id].did \cup {i} ELSE ops[m.id].did
  BY ServeMarks DEF SInv, AInv
<1>5. \A x, y \in answer : x = y
  BY DEF Serves
<1>6. \A x : Copies(x, net) \in Nat /\ (x \notin BagToSet(net) => Copies(x, net) = 0)
  BY BagCopies DEF SInv, AInv, IInv, Shapes, Copies
<1>7. ASSUME NEW id
      PROVE  /\ m \in Queued /\ phase = "check" /\ phase' = "check"
             /\ \A x \in YesQueued(id)' :
                   /\ x \in YesQueued(id)
                   /\ Copies(x, mp2q[x.to]) <= 1 => Copies(x, mp2q'[x.to]) <= 1
             /\ \A x \in Undos(id)' :
                   /\ x \in Undos(id)
                   /\ Copies(x, mp2q[x.to]) <= 1 => Copies(x, mp2q'[x.to]) <= 1
             /\ Copies(m, mp2q[m.to]) <= 1 => m \notin Undos(id)'
             /\ Counts(id)' = Counts(id)
  <2>1. /\ m \in Queued /\ phase = "check" /\ phase' = "check"
        /\ \A x \in Queued' : Copies(x, mp2q[x.to]) <= 1 => Copies(x, mp2q'[x.to]) <= 1
        /\ Copies(m, mp2q[m.to]) <= 1 => m \notin Queued'
        /\ \A x \in YesQueued(id)' : x \in YesQueued(id) /\ x \in Queued'
        /\ \A x \in Undos(id)' : x \in Undos(id) /\ x \in Queued'
    BY <1>2, PoppedFewer
  <2>2. Counts(id)' = Counts(id)
    BY <1>1 DEF Counts
  <2>. QED BY <2>1, <2>2
<1>8. \A a \in answer : \A id : IsYes(a, id) => id = m.id /\ Success(a)
  BY <1>1 DEF IsYes, Success
<1>9. ASSUME NEW id \in DOMAIN ops, Few(id), ops'[id].did = ops[id].did,
             \A a \in answer : ~IsYes(a, id)
      PROVE  Few(id)'
  <2>1. ASSUME NEW x \in YesNet(id)'
        PROVE  x \in YesNet(id) /\ Copies(x, net') = Copies(x, net)
    <3>1. x \in BagToSet(net') /\ IsYes(x, id)
      BY DEF YesNet, IsYes
    <3>2. x \notin answer
      BY <1>9, <3>1
    <3>. QED BY <1>1, <1>6, <3>1, <3>2 DEF YesNet
  <2>. QED BY <1>1, <1>7, <1>9, <2>1, FewKept
<1>10. ASSUME NEW id \in DOMAIN ops, Kept(id), id = m.id, NEW a \in answer, IsYes(a, id),
              ~Backed(id), Few(id), ~Backed(id)'
       PROVE  Few(id)'
  <2>1. Success(a) /\ answer = {a} /\ id.type = "CREATE"
    BY <1>5, <1>8, <1>10 DEF Kept
  <2>2. m.type \in {"CREATE", "DELETE"}
    BY <1>2, <1>3, <1>10, <2>1 DEF SInv, Creations
  <2>3. \A x \in YesNet(id)' : x \in YesNet(id) \/ x = a
    BY <1>1, <2>1 DEF YesNet, IsYes
  <2>4. YesNet(id) = {} => Copies(a, net') <= 1
    <3>1. a \notin YesNet(id) => a \notin BagToSet(net)
      BY <1>10 DEF YesNet
    <3>. QED BY <1>1, <1>6, <3>1
  <2>5. CASE m.type = "CREATE"
    <3>1. ~m.stab /\ m.key \notin DOMAIN ht[i]
      BY <2>1, <2>5 DEF Stores
    <3>2. m.key = ops[id].key
      BY <1>3, <1>10, <2>5, <3>1 DEF SInv, Creations, IsMake
    <3>3. i \notin ops[id].did
      BY <1>2, <1>10, <2>1, <3>1, <3>2 DEF SInv, Holders
    <3>4. ops'[id].did = ops[id].did \cup {i}
      BY <1>4, <1>10, <2>1, <2>5
    <3>5. Up = Node /\ \E x \in Node : ops'[id].did = {x}
      BY <1>1, <1>2, <1>10, <3>4 DEF Backed
    <3>6. ops[id].did = {}
      BY <3>3, <3>4, <3>5
    <3>7. YesNet(id) = {} /\ YesQueued(id) = {}
      BY <1>10, <3>5, <3>6 DEF Few
    <3>8. Undos(id) = {}
      <4>1. \A x \in Queued : x \in PendingMessages
        BY DEF Queued, PendingMessages
      <4>2. \A x \in PendingMessages : ~IsUndo(x)
        BY <3>5 DEF SInv, Creations
      <4>. QED BY <4>1, <4>2 DEF Undos
    <3>9. YesQueued(id)' = {} /\ Undos(id)' = {}
      BY <1>7, <3>7, <3>8
    <3>10. \A x, y \in YesNet(id)' : x = y /\ Copies(x, net') <= 1
      BY <2>3, <2>4, <3>7
    <3>11. ops'[id].did # {} /\ Counts(id)'.successes <= 1
      BY <1>7, <1>10, <3>4 DEF Few
    <3>. QED BY <1>7, <3>9, <3>10, <3>11 DEF Few
  <2>6. CASE m.type = "DELETE"
    <3>1. IsUndo(m)
      BY <1>10, <2>1, <2>6 DEF IsUndo
    <3>2. m \in Undos(id) /\ Up # Node
      BY <1>3, <1>7, <1>10, <3>1 DEF Undos, SInv, Creations
    <3>3. YesNet(id) = {} /\ Copies(m, mp2q[m.to]) <= 1 /\ \A x \in Undos(id) : x = m
      BY <1>7, <1>10, <3>2 DEF Few
    <3>4. Undos(id)' = {}
      BY <1>7, <3>3
    <3>5. \A x, y \in YesNet(id)' : x = y /\ Copies(x, net') <= 1
      BY <2>3, <2>4, <3>3
    <3>6. \A x, y \in YesQueued(id)' : x = y /\ Copies(x, mp2q'[x.to]) <= 1
      BY <1>7, <1>10 DEF Few
    <3>7. Counts(id)'.successes <= 1 /\ (YesQueued(id)' # {} => Counts(id)'.successes = 0)
      BY <1>7, <1>10 DEF Few
    <3>. QED BY <1>1, <1>7, <3>2, <3>4, <3>5, <3>6, <3>7 DEF Few
  <2>. QED BY <2>2, <2>5, <2>6
<1>11. ASSUME NEW id \in DOMAIN ops, Kept(id), ~Backed(id)'
       PROVE  ~Backed(id) /\ ~Succeeded(id)' /\ Few(id)'
  <2>1. ops[id].did \subseteq ops'[id].did
    BY <1>4
  <2>2. ~Backed(id)
    <3>. SUFFICES ASSUME Backed(id)
                  PROVE  FALSE
      OBVIOUS
    <3>1. ops'[id].did \cap Up # {}
      BY <2>1 DEF Backed
    <3>2. PICK x \in Node : Up = Node /\ ops'[id].did = {x}
      BY <1>1, <1>11, <3>1 DEF Backed
    <3>3. ops[id].did = {x}
      BY <2>1, <3>2 DEF Backed
    <3>. QED BY <3>2, <3>3 DEF Backed
  <2>3. ~Succeeded(id) /\ Few(id)
    BY <1>11, <2>2 DEF SInv, Earned
  <2>4. ~Succeeded(id)'
    BY <1>4, <2>3 DEF Succeeded
  <2>5. CASE \E a \in answer : IsYes(a, id)
    BY <1>8, <1>10, <1>11, <2>2, <2>3, <2>4, <2>5
  <2>6. CASE \A a \in answer : ~IsYes(a, id)
    <3>1. ops'[id].did = ops[id].did
      <4>. SUFFICES ASSUME id = m.id, m.type = id.type, NEW a \in answer, Success(a)
                    PROVE  FALSE
        BY <1>4
      <4>1. m.type = "CREATE"
        BY <1>11 DEF Kept
      <4>2. a.type = "REPLY"
        BY <4>1 DEF Stores
      <4>3. IsYes(a, id)
        BY <1>1, <4>2 DEF IsYes, Success
      <4>. QED BY <2>6, <4>3
    <3>. QED BY <1>9, <2>2, <2>3, <2>4, <2>6, <3>1
  <2>. QED BY <2>5, <2>6
<1>12. \A id \in DOMAIN ops : Kept(id)' => Kept(id)
  BY <1>1, <1>4 DEF Kept
<1>. QED BY <1>1, <1>11, <1>12 DEF Earned

(* One success counted and none to come are not two, and one to come and none *)
(* counted neither.                                                           *)
LEMMA CountKeepsCopies ==
    ASSUME SInv, NEW i \in Node, NEW m, NEW value, CountsReply(i, m, value)
    PROVE  Views' /\ Creations' /\ Holders' /\ Earned'
<1>1. /\ CheckTurn(i) /\ m \in Replies /\ m.id \in Ids /\ Up' = Up
      /\ DOMAIN ops' = DOMAIN ops
      /\ UNCHANGED <<bFailed, downFor, member, ring, ht, hasMyReplicas, net, g_transID>>
  BY CountRecords DEF SInv, AInv
<1>2. /\ \A id \in DOMAIN ops : /\ ops'[id].key = ops[id].key /\ ops'[id].asked = ops[id].asked
                                /\ ops'[id].did = ops[id].did
      /\ \A id \in DOMAIN ops : id # m.id => ops'[id].told = ops[id].told
  BY CountRecords DEF SInv, AInv
<1>3. m.id \in DOMAIN ops /\ ~Wins(m) =>
         \/ ops'[m.id].told = ops[m.id].told
         \/ ops'[m.id].told = Append(ops[m.id].told, [ok |-> FALSE, value |-> NoValue])
  BY CountRecords DEF SInv, AInv
<1>4. /\ m \in PendingMessages /\ m.to = i
      /\ \A j \in Node : BagToSet(mp2q'[j]) \subseteq BagToSet(mp2q[j])
  BY CountPopped DEF SInv, AInv
<1>5. PendingMessages' \subseteq PendingMessages
  BY <1>1, <1>4 DEF PendingMessages
<1>6. Pops(i, m, m.type) /\ m.type \in {"REPLY", "READREPLY"}
  BY DEF CountsReply
<1>7. ASSUME NEW id
      PROVE  /\ m \in Queued /\ phase = "check" /\ phase' = "check"
             /\ \A x \in YesQueued(id)' :
                   /\ x \in YesQueued(id)
                   /\ Copies(x, mp2q[x.to]) <= 1 => Copies(x, mp2q'[x.to]) <= 1
             /\ \A x \in Undos(id)' :
                   /\ x \in Undos(id)
                   /\ Copies(x, mp2q[x.to]) <= 1 => Copies(x, mp2q'[x.to]) <= 1
             /\ Copies(m, mp2q[m.to]) <= 1 => m \notin YesQueued(id)'
             /\ YesNet(id)' = YesNet(id)
  <2>1. /\ m \in Queued /\ phase = "check" /\ phase' = "check"
        /\ \A x \in Queued' : Copies(x, mp2q[x.to]) <= 1 => Copies(x, mp2q'[x.to]) <= 1
        /\ Copies(m, mp2q[m.to]) <= 1 => m \notin Queued'
        /\ \A x \in YesQueued(id)' : x \in YesQueued(id) /\ x \in Queued'
        /\ \A x \in Undos(id)' : x \in Undos(id) /\ x \in Queued'
    BY <1>6, PoppedFewer
  <2>2. YesNet(id)' = YesNet(id)
    BY <1>1 DEF YesNet
  <2>. QED BY <2>1, <2>2
<1>8. ASSUME NEW id
      PROVE  /\ Counts(id).successes \in Nat
             /\ \/ Counts(id)'.successes = 0
                \/ /\ Counts(id)'.successes
                         = IF id = m.id THEN NewCounts(m).successes ELSE Counts(id).successes
  <2>. DEFINE bare == StabId(m.id.seq)
              all == Put(tally, m.id, NewCounts(m))
  <2>1. tally' = IF Wins(m) \/ Loses(m) THEN Without(all, {bare}) ELSE all
    BY DEF CountsReply, CountReply, Wins, Loses, NewCounts
  <2>. HIDE DEF bare
  <2>2. /\ DOMAIN all = DOMAIN tally \cup {m.id} /\ all[m.id] = NewCounts(m)
        /\ \A x \in DOMAIN tally : x # m.id => all[x] = tally[x]
    BY DEF Put
  <2>. HIDE DEF all
  <2>3. /\ DOMAIN Without(all, {bare}) = DOMAIN all \ {bare}
        /\ \A x \in DOMAIN all \ {bare} : Without(all, {bare})[x] = all[x]
    BY DEF Without
  <2>4. id \in DOMAIN tally' => tally'[id] = all[id] /\ id \in DOMAIN all
    BY <2>1, <2>3
  <2>5. id \notin DOMAIN tally' => Counts(id)'.successes = 0
    BY DEF Counts
  <2>6. id \in DOMAIN tally' => Counts(id)' = IF id = m.id THEN NewCounts(m) ELSE Counts(id)
    BY <2>2, <2>4 DEF Counts
  <2>7. Counts(id).successes \in Nat
    BY DEF Counts, SInv, AInv, IInv, Shapes
  <2>. QED BY <2>5, <2>6, <2>7
<1>9. Views'
  BY <1>1 DEF SInv, Views
<1>10. Creations'
  BY <1>1, <1>2, <1>5, <1>7 DEF SInv, Creations
<1>11. Holders'
  BY <1>1, <1>2, HoldersKept DEF SInv
<1>12. ASSUME NEW id \in DOMAIN ops, id.type = "CREATE", Few(id), ~(id = m.id /\ IsYes(m, id))
       PROVE  /\ Few(id)'
              /\ id = m.id => NewCounts(m).successes = Counts(id).successes
  <2>1. ASSUME id = m.id
        PROVE  NewCounts(m).successes = Counts(id).successes
    <3>1. m.type = "REPLY"
      BY <1>4, <1>6, <1>12, <2>1 DEF SInv, Creations
    <3>2. ~Success(m)
      BY <1>12, <2>1, <3>1 DEF IsYes, Success
    <3>3. NewCounts(m).successes = Counts(m.id).successes + 0
      BY <3>2 DEF NewCounts
    <3>4. Counts(m.id).successes \in Nat
      BY <1>8
    <3>. QED BY <2>1, <3>3, <3>4
  <2>. QED BY <1>1, <1>2, <1>7, <1>8, <1>12, <2>1, FewKept
<1>13. ASSUME NEW id \in DOMAIN ops, Few(id), id = m.id, IsYes(m, id)
       PROVE  Few(id)' /\ NewCounts(m).successes = 1
  <2>1. m \in YesQueued(id)
    BY <1>7, <1>13 DEF YesQueued
  <2>2. Counts(id).successes = 0 /\ Copies(m, mp2q[m.to]) <= 1 /\ \A x \in YesQueued(id) : x = m
    BY <1>13, <2>1 DEF Few
  <2>3. YesQueued(id)' = {}
    BY <1>7, <2>2
  <2>4. NewCounts(m).successes = 1
    BY <1>13, <2>2 DEF NewCounts, Success, IsYes
  <2>5. Counts(id)'.successes <= 1
    BY <1>8, <1>13, <2>4
  <2>6. \A x, y \in Undos(id)' : x = y /\ Copies(x, mp2q'[x.to]) <= 1
    BY <1>7, <1>13 DEF Few
  <2>7. YesNet(id) = {} \/ Undos(id)' = {}
    BY <1>7, <1>13 DEF Few
  <2>8. \A x, y \in YesNet(id) : x = y /\ Copies(x, net') <= 1
    BY <1>1, <1>13 DEF Few
  <2>9. Up' = Node /\ ops'[id].did = {} => YesNet(id)' = {} /\ YesQueued(id)' = {}
    BY <1>1, <1>2, <1>7, <1>13, <2>3 DEF Few
  <2>. QED BY <1>7, <2>3, <2>4, <2>5, <2>6, <2>7, <2>8, <2>9 DEF Few
<1>14. ASSUME NEW id \in DOMAIN ops, id.type = "CREATE", Few(id), ~Succeeded(id)
       PROVE  Few(id)' /\ ~Succeeded(id)'
  <2>1. Few(id)'
    BY <1>12, <1>13, <1>14
  <2>2. ops[id].told \in Seq([ok : BOOLEAN, value : Value \cup {NoValue}])
    BY DEF SInv, AInv, IInv, Shapes, OpRecord
  <2>3. CASE id # m.id
    BY <1>2, <1>14, <2>1, <2>3 DEF Succeeded
  <2>4. CASE id = m.id
    <3>1. NewCounts(m).successes <= 1
      <4>1. CASE IsYes(m, id)
        BY <1>13, <1>14, <2>4, <4>1
      <4>2. CASE ~IsYes(m, id)
        BY <1>12, <1>14, <2>4, <4>2 DEF Few
      <4>. QED BY <4>1, <4>2
    <3>2. ~Wins(m)
      <4>1. NewCounts(m).successes \in Nat
        BY <1>8 DEF NewCounts
      <4>. QED BY <3>1, <4>1 DEF Wins, quorumValue
    <3>3. \/ ops'[id].told = ops[id].told
          \/ ops'[id].told = Append(ops[id].told, [ok |-> FALSE, value |-> NoValue])
      BY <1>3, <2>4, <3>2
    <3>4. \A n \in DOMAIN ops'[id].told :
             ops'[id].told[n].ok => n \in DOMAIN ops[id].told /\ ops[id].told[n].ok
      BY <2>2, <3>3
    <3>5. Succeeded(id)' => Succeeded(id)
      BY <3>4 DEF Succeeded
    <3>. QED BY <1>14, <2>1, <3>5
  <2>. QED BY <2>3, <2>4
<1>15. Earned'
  <2>. SUFFICES ASSUME NEW id \in DOMAIN ops, Kept(id)', ~Backed(id)'
                PROVE  ~Succeeded(id)' /\ Few(id)'
    BY <1>1 DEF Earned
  <2>1. Kept(id) /\ ~Backed(id)
    BY <1>1, <1>2 DEF Kept, Backed
  <2>. QED BY <1>14, <2>1 DEF SInv, Earned, Kept
<1>. QED BY <1>9, <1>10, <1>11, <1>15

(* The failures that are logged at the end of a call are no successes, and    *)
(* the next call counts from none.                                            *)
LEMMA EndKeepsCopies ==
    ASSUME SInv, NEW i \in Node, endOfMessages(i)
    PROVE  Views' /\ Creations' /\ Holders' /\ Earned'
<1>1. /\ CheckTurn(i) /\ Up' = Up /\ tally' = <<>>
      /\ UNCHANGED <<bFailed, downFor, member, ring, ht, net, mp2q, g_transID>>
      /\ ops' = Tell(Unsettled, FALSE, NoValue)
  BY DEF endOfMessages, failVars, nodeVars, netVars, Up
<1>2. phase = "check" /\ phase' = "check" /\ turn' = i
  BY <1>1, CheckTurns DEF SInv, AInv
<1>3. /\ DOMAIN ops' = DOMAIN ops /\ PendingMessages' = PendingMessages
      /\ \A id \in DOMAIN ops : id \notin Unsettled => ops'[id] = ops[id]
      /\ \A id \in DOMAIN ops \cap Unsettled :
            ops'[id] = [ops[id] EXCEPT !.told = Append(ops[id].told, [ok |-> FALSE, value |-> NoValue])]
  BY <1>1 DEF Tell, PendingMessages
<1>4. ASSUME NEW id \in DOMAIN ops
      PROVE  /\ ops'[id].key = ops[id].key /\ ops'[id].asked = ops[id].asked
             /\ ops'[id].did = ops[id].did
             /\ Succeeded(id)' => Succeeded(id)
  <2>1. ops[id] \in OpRecord
    BY DEF SInv, AInv, IInv, Shapes
  <2>2. ASSUME NEW r \in OpRecord, NEW new,
               new = [r EXCEPT !.told = Append(r.told, [ok |-> FALSE, value |-> NoValue])]
        PROVE  /\ new.key = r.key /\ new.asked = r.asked /\ new.did = r.did
               /\ \A n \in DOMAIN new.told : new.told[n].ok => n \in DOMAIN r.told /\ r.told[n].ok
    <3>1. r.told \in Seq([ok : BOOLEAN, value : Value \cup {NoValue}])
      BY DEF OpRecord
    <3>2. new.told = Append(r.told, [ok |-> FALSE, value |-> NoValue])
      BY <2>2 DEF OpRecord
    <3>. QED BY <2>2, <3>1, <3>2 DEF OpRecord
  <2>3. CASE id \in Unsettled
    BY <1>3, <2>1, <2>2, <2>3 DEF Succeeded
  <2>4. CASE id \notin Unsettled
    BY <1>3, <2>4 DEF Succeeded
  <2>. QED BY <2>3, <2>4
<1>5. Views' /\ Creations'
  <2>1. Views'
    BY <1>1 DEF SInv, Views
  <2>2. phase' # "ring"
    BY <1>2
  <2>3. ASSUME NEW m \in PendingMessages'
        PROVE  /\ m.id.type = "CREATE" => m.type \in {"CREATE", "DELETE", "REPLY"}
               /\ IsMake(m) => /\ m.id \in DOMAIN ops' /\ m.id.type = "CREATE"
                               /\ m.key = ops'[m.id].key /\ m.to \in ops'[m.id].asked
               /\ IsUndo(m) => /\ Up' # Node /\ m.to \notin findNodes(Up', m.key)
                               /\ m.id.seq < g_transID' /\ m \notin BagToSet(net')
    <3>1. m \in PendingMessages /\ Creations
      BY <1>3, <2>3 DEF SInv
    <3>2. m.id.type = "CREATE" => m.type \in {"CREATE", "DELETE", "REPLY"}
      BY <3>1 DEF Creations
    <3>3. IsUndo(m) => /\ Up # Node /\ m.to \notin findNodes(Up, m.key)
                       /\ m.id.seq < g_transID /\ m \notin BagToSet(net)
      BY <3>1 DEF Creations
    <3>4. IsMake(m) => /\ m.id \in DOMAIN ops /\ m.id.type = "CREATE"
                       /\ m.key = ops[m.id].key /\ m.to \in ops[m.id].asked
      BY <3>1 DEF Creations
    <3>. QED BY <1>1, <1>3, <1>4, <3>2, <3>3, <3>4
  <2>. QED BY <2>1, <2>2, <2>3 DEF Creations
<1>6. Holders'
  BY <1>1, <1>3, <1>4, HoldersKept DEF SInv
<1>7. ASSUME NEW id \in DOMAIN ops, Few(id)
      PROVE  Few(id)'
  <2>1. YesNet(id)' = YesNet(id) /\ YesQueued(id)' = YesQueued(id) /\ Undos(id)' = Undos(id)
    BY <1>1 DEF YesNet, YesQueued, Undos, Queued
  <2>2. Counts(id)'.successes = 0
    BY <1>1 DEF Counts
  <2>. QED BY <1>1, <1>2, <1>4, <1>7, <2>1, <2>2, FewKept
<1>8. Earned'
  BY <1>1, <1>3, <1>4, <1>7, EarnedKept DEF SInv
<1>. QED BY <1>5, <1>6, <1>8

-------------------------------------------------------------------------------
(* Every step keeps the creations.                                            *)
LEMMA NextKeepsCopies ==
    ASSUME SingleFailure, SInv, [Next]_vars
    PROVE  SInv'
<1>1. ASSUME NEW i \in Node, checkMessages(i)
      PROVE  Views' /\ Creations' /\ Holders' /\ Earned'
  <2>1. CASE createKeyValue(i) \/ readKey(i) \/ updateKeyValue(i) \/ deletekey(i)
    <3>1. PICK m, answer : Serves(i, m, answer) /\ Stores(i, m, answer)
      BY <2>1, HandlersServe DEF SInv, AInv
    <3>. QED BY <3>1, ServeKeepsHolders, ServeKeepsEarned
  <2>2. CASE recvREPLY(i) \/ recvREADREPLY(i)
    BY <2>2, HandlersCount, CountKeepsCopies DEF SInv, AInv
  <2>3. CASE endOfMessages(i)
    BY <2>3, EndKeepsCopies
  <2>. QED BY <1>1, <2>1, <2>2, <2>3 DEF checkMessages
<1>2. ASSUME NEW i \in Node, updateRing(i) \/ stabilizationProtocol(i)
      PROVE  Views' /\ Creations' /\ Holders' /\ Earned'
  BY <1>2, RingTurnsAreSteps, RingStepKeepsCopies DEF SInv, AInv
<1>3. ASSUME NEW i \in Node,
             \/ fail(i)
             \/ \E type \in ClientOps, k \in Key, v \in Value \cup {NoValue} : client(i, type, k, v)
      PROVE  Views' /\ Creations' /\ Holders' /\ Earned'
  BY <1>3, FailKeepsCopies, ClientKeepsCopies
<1>4. Views' /\ Creations' /\ Holders' /\ Earned'
  <2>1. CASE mp1Run
    BY <2>1, ClockKeepsCopies
  <2>2. CASE loopEnds
    BY <2>2, LoopEndKeepsCopies
  <2>3. CASE \E i \in Node : updateRing(i) \/ stabilizationProtocol(i) \/ checkMessages(i)
    BY <1>1, <1>2, <2>3
  <2>4. CASE UNCHANGED vars
    BY <2>4, StutterKeepsCopies
  <2>. QED BY <1>3, <2>1, <2>2, <2>3, <2>4 DEF Next, Run
<1>. QED BY <1>4, NextKeepsAnswers DEF SInv

(* No key is lost to one failure: when at most one node fails, and does not   *)
(* come back into a table, a creation that was logged as a success has its    *)
(* key on a node that is up, unless a client has asked to delete the key.     *)
THEOREM CreationsSurvive == SingleFailure => (Spec => []Survives)
<1>. SUFFICES ASSUME SingleFailure
              PROVE  Spec => []Survives
  OBVIOUS
<1>1. Init => SInv
  BY InitIInv, InitAnswers, InitCopies DEF SInv, AInv
<1>2. SInv /\ [Next]_vars => SInv'
  BY NextKeepsCopies
<1>3. SInv => Survives
  BY BackedSurvives
<1>. QED BY <1>1, <1>2, <1>3, PTL DEF Spec
===============================================================================
