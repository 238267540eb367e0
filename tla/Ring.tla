--------------------------------- MODULE Ring ---------------------------------
(* The virtual ring of MP2Node.cpp as the code keeps it: a vector of nodes    *)
(* that updateRing sorts by hash code from the membership list, and the index *)
(* arithmetic of findNodes and findNeighbors on it.  KVStore has the ring as  *)
(* a set; this module is about what the vector adds: the order of the list,   *)
(* positions that two nodes share, and the ends of the vector.                *)
(*                                                                            *)
(* The membership list is whatever the membership protocol makes of it: new   *)
(* entries at the end, entries erased anywhere but at the node itself.        *)
EXTENDS Integers, Sequences, FiniteSets, SequencesExt

CONSTANTS
    Id,             \* the ids of the group
    Position,       \* id -> its hash code
    KeyPosition,    \* the positions of the keys
    Observers       \* the nodes whose rings are modelled

RING_SIZE == 512
Beyond == 0                 \* memory that is no element of the vector

ASSUME PositionAssumption ==
    /\ Id \subseteq Nat \ {Beyond} /\ Observers \subseteq Id
    /\ Position \in [Id -> 0 .. RING_SIZE - 1]
    /\ KeyPosition \subseteq 0 .. RING_SIZE - 1

VARIABLES
    curMemList, \* per observer, the ids in its membership list, in order
    ring        \* per observer, its ring

ringVars == <<curMemList, ring>>

-------------------------------------------------------------------------------

(* std::sort, which is insertion sort for the short vectors of an instance:   *)
(* an element goes behind all that are not greater.                           *)
Insert(r, x) ==
    InsertAt(r, 1 + Cardinality({n \in DOMAIN r : Position[r[n]] <= Position[x]}), x)
Sorted_Not(list) == list    \* mutant: not sorted
Sorted(list) ==
    LET sorted[n \in 0 .. Len(list)] ==
            IF n = 0 THEN <<>> ELSE Insert(sorted[n - 1], list[n])
    IN  sorted[Len(list)]

RingInit ==
    /\ curMemList = [i \in Observers |-> <<i>>]
    /\ ring = [i \in Observers |-> <<>>]

adds(i, x) ==
    /\ x \notin ToSet(curMemList[i])
    /\ curMemList' = [curMemList EXCEPT ![i] = Append(@, x)]
    /\ UNCHANGED ring

removes(i, n) ==
    /\ curMemList[i][n] # i
    /\ curMemList' = [curMemList EXCEPT ![i] = RemoveAt(@, n)]
    /\ UNCHANGED ring

updateRing(i) ==
    /\ ring' = [ring EXCEPT ![i] = Sorted(curMemList[i])]
    /\ UNCHANGED curMemList

RingNext ==
    \E i \in Observers :
        \/ \E x \in Id : adds(i, x)
        \/ \E n \in DOMAIN curMemList[i] : removes(i, n)
        \/ updateRing(i)

RingSpec == RingInit /\ [][RingNext]_ringVars

-------------------------------------------------------------------------------
(* The replicas of a key at position pos, in the ring r.                      *)

(* The three nodes from the n-th on. *)
Three(r, n) == [d \in 1 .. 3 |-> r[1 + ((n + d - 2) % Len(r))]]

findNodes_NoWrap(r, pos) ==     \* mutant: pos > max is not looked at
    IF Len(r) < 3 THEN <<>>
    ELSE LET from == {n \in DOMAIN r : pos <= Position[r[n]]}
         IN  IF from = {} THEN <<>>
             ELSE Three(r, CHOOSE n \in from : \A m \in from : n <= m)

findNodes(r, pos) ==
    IF Len(r) < 3 THEN <<>>
    ELSE IF pos <= Position[r[1]] \/ pos > Position[r[Len(r)]] THEN Three(r, 1)
    ELSE LET from == {n \in 2 .. Len(r) : pos <= Position[r[n]]}
         IN  Three(r, CHOOSE n \in from : \A m \in from : n <= m)

(* The neighbours of i, each found by moving an iterator: one that is end()   *)
(* becomes begin(), one before begin() is taken from the end.                 *)
Element(r, n) == IF n \in DOMAIN r THEN r[n] ELSE Beyond
MyPosition(r, i) == CHOOSE n \in DOMAIN r : r[n] = i

hasMyReplicas(r, i) ==
    [d \in 1 .. 2 |-> LET next == MyPosition(r, i) + d
                      IN  IF next = Len(r) + 1 THEN r[1] ELSE Element(r, next)]
haveReplicasOf_End(r, i) ==     \* mutant: end() - (begin() - prev) - 1
    [d \in 1 .. 2 |-> LET prev == MyPosition(r, i) - d
                      IN  Element(r, IF prev < 1 THEN Len(r) + prev - 1 ELSE prev)]
haveReplicasOf(r, i) ==
    [d \in 1 .. 2 |-> LET prev == MyPosition(r, i) - d
                      IN  Element(r, IF prev < 1 THEN Len(r) + prev ELSE prev)]

-------------------------------------------------------------------------------
(* Properties.                                                                *)

(* How far clockwise it is from one position to another, and the nodes of a   *)
(* set that are met before x.                                                 *)
Clockwise(from, to) == (to - from) % RING_SIZE
Before(S, pos, x) == {y \in S : Clockwise(pos, Position[y]) < Clockwise(pos, Position[x])}

(* The replicas of a key are the first three nodes that are met clockwise     *)
(* from its position, in that order, whatever the order of the list was; for  *)
(* a key before the first node, behind the last one, or at a node.            *)
FirstThree ==
    \A i \in Observers, pos \in KeyPosition :
        Len(ring[i]) >= 3 =>
            /\ Len(findNodes(ring[i], pos)) = 3
            /\ \A d \in 1 .. 3 :
                  Cardinality(Before(ToSet(ring[i]), pos, findNodes(ring[i], pos)[d])) = d - 1

(* The ring of a node changes, and with it the node stabilizes, only when     *)
(* its members do, also when one of them has left and come back in between.   *)
(* (For positions that differ.  Nodes 8 and 34 are the first two that share   *)
(* one, and are then in the order of the list.)                               *)
ChangesWithMembers ==
    [][\A i \in Observers : ring'[i] # ring[i] => ToSet(ring'[i]) # ToSet(ring[i])]_ringVars

(* The neighbours before a node are the two that come before it: those it     *)
(* comes first or second after.  The neighbours after it are those that hold  *)
(* the keys it is the first replica of; but the second neighbour of the last  *)
(* node of the ring is whatever is in the memory behind the vector.           *)
Neighbours ==
    \A i \in Observers :
        Len(ring[i]) >= 3 =>
            \A d \in 1 .. 2 :
                LET before == haveReplicasOf(ring[i], i)[d]
                    after == hasMyReplicas(ring[i], i)[d]
                IN  /\ before \in ToSet(ring[i]) \ {i}
                    /\ Cardinality(Before(ToSet(ring[i]) \ {before}, Position[before], i)) = d - 1
                    /\ after = IF d = 2 /\ i = ring[i][Len(ring[i])] THEN Beyond
                               ELSE findNodes(ring[i], Position[i])[d + 1]
===============================================================================
