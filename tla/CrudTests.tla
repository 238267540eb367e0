------------------------------ MODULE CrudTests ------------------------------
(* The test scripts of Application.cpp over the store: mp2Run inserts the     *)
(* test pairs at INSERT_TIME and from TEST_TIME on runs the test CRUDTEST     *)
(* names.  readTest and updateTest fail nodes between operations: a replica   *)
(* of the key, then two of those that are replicas by then, then a node that  *)
(* is none.                                                                   *)
(*                                                                            *)
(* The driver only looks at the clock: a step is taken in its tick, whether   *)
(* or not everyone has noticed the failures by then.                          *)
EXTENDS KVStore

CONSTANTS
    CRUDTESTS,          \* the tests, one of which the configuration names
    NUMBER_OF_INSERTS,  \* the test pairs are for the keys 1 .. NUMBER_OF_INSERTS
    pairValue,          \* the value of the pairs
    newValue            \* what updateTest writes

ASSUME TestAssumption ==
    /\ CRUDTESTS \subseteq {"CREATE", "READ", "UPDATE", "DELETE"}
    /\ NUMBER_OF_INSERTS \in 1 .. NumKeys - 1
    /\ {pairValue, newValue} \subseteq Value

VARIABLES
    todo,   \* what is left of the script
    now,    \* the time
    last,   \* history: the time of the last step ...
    asked   \* ... and the operations of the test, each with what may come of it

testVars == <<todo, now, last, asked>>

INSERT_TIME == 100
TEST_TIME == 150
STABILIZE_TIME_Short == 49   \* mutant: one tick less
STABILIZE_TIME == 50
FIRST_FAIL_TIME == 25
LAST_FAIL_TIME == 10

(* Two ticks after the last step of the longest test; the clock is not counted *)
(* beyond.                                                                    *)
LAST_TIME == TEST_TIME + FIRST_FAIL_TIME + 2 * STABILIZE_TIME + LAST_FAIL_TIME + 2

invalidKey == NumKeys

-------------------------------------------------------------------------------
(* A step: at a time, an operation with the verdicts its test allows, or the  *)
(* failure of nodes, chosen by how they stand to the key.                     *)

Op(at, type, k, v, may) ==
    [at |-> at, do |-> type, key |-> k, value |-> v, may |-> may]
FailNodes(at, which, k) ==
    [at |-> at, do |-> which, key |-> k, value |-> NoValue, may |-> {}]

(* Whether the replicas answer a CREATE or a DELETE may be a matter of what   *)
(* their memory holds.                                                        *)
Unless(unset) == IF TRUE \in UnsetReplica THEN unset ELSE {}

insertTestKVPairs ==
    [k \in 1 .. NUMBER_OF_INSERTS |->
        Op(INSERT_TIME, "CREATE", k, pairValue, {"success"} \cup Unless({"fail", "none"}))]

(* The iterator is advanced first, so the first key stays. *)
deleteTest ==
    [k \in 1 .. NUMBER_OF_INSERTS \div 2 |->
        Op(TEST_TIME, "DELETE", k + 1, NoValue, {"success"} \cup Unless({"fail", "none"}))]
    \o <<Op(TEST_TIME, "DELETE", invalidKey, NoValue, {"fail"} \cup Unless({"none"}))>>

(* readTest and updateTest are the same script, with another key. *)
replicaTest(type, k, v) ==
    LET T1 == TEST_TIME
        T2 == T1 + FIRST_FAIL_TIME
        T3 == T2 + STABILIZE_TIME
        T4 == T3 + STABILIZE_TIME
        T5 == T4 + LAST_FAIL_TIME
    IN  <<Op(T1, type, k, v, {"success"}),
          FailNodes(T2, "fail one", k),
          Op(T2, type, k, v, {"success"}),
          FailNodes(T3, "fail two", k),
          Op(T3, type, k, v, {"fail"}),
          Op(T4, type, k, v, {"success"}),
          FailNodes(T5, "fail another", k),
          Op(T5, type, k, v, {"success"}),
          Op(T5, type, invalidKey, v, {"fail"})>>

readTest == replicaTest("READ", 1, NoValue)
updateTest == replicaTest("UPDATE", 2, newValue)

Script(test) ==
    insertTestKVPairs \o
    CASE test = "CREATE" -> <<>>
      [] test = "READ"   -> readTest
      [] test = "UPDATE" -> updateTest
      [] test = "DELETE" -> deleteTest

(* The next step is of this tick, in which the nodes have had their turns. *)
Due == phase = "client" /\ todo # <<>> /\ Head(todo).at = now

-------------------------------------------------------------------------------
(* The nodes a step fails, {} when the driver exits, or never gets out of its *)
(* loop.  It asks a running node for the replicas of the key, in their order. *)

Replicas(r, k) ==
    [d \in 1 .. Cardinality(findNodes(r, k)) |-> At(r, Leader(r, k) + d - 1)]

(* Test 2: one scan over the nodes for the third replica; when it meets that  *)
(* one and it has failed, it goes on with the one before.                     *)
OneReplica(reps) ==
    LET Visit(s, i) ==
            IF s.found # {} \/ i # reps[s.at] THEN s
            ELSE IF i \in Up THEN [s EXCEPT !.found = {i}]
            ELSE [s EXCEPT !.at = IF @ > 1 THEN @ - 1 ELSE @]
    IN  FoldLeft(Visit, [at |-> 3, found |-> {}], [i \in Node |-> i]).found

(* Test 3: scan after scan, until there are two. *)
TwoReplicas(reps) ==
    {reps[d] : d \in {e \in DOMAIN reps :
        /\ reps[e] \in Up
        /\ Cardinality({f \in DOMAIN reps : f > e /\ reps[f] \in Up}) < 2
        /\ Cardinality({f \in DOMAIN reps : reps[f] \in Up}) >= 2}}

(* Test 4: the first running node that is no replica. *)
NonReplica_First(reps) ==   \* mutant: the loop ends with the first that runs
    {i \in Up \ ToSet(reps) : \A j \in 1 .. i - 1 : j \notin Up}
NonReplica(reps) ==
    {i \in Up \ ToSet(reps) : \A j \in 1 .. i - 1 : j \notin Up \/ j \in ToSet(reps)}

Victims(which, reps) ==
    CASE reps = <<>>             -> {}
      [] which = "fail one"     -> OneReplica(reps)
      [] which = "fail two"     -> TwoReplicas(reps)
      [] which = "fail another" -> NonReplica(reps)

-------------------------------------------------------------------------------

TestInit ==
    /\ Init
    /\ \E test \in CRUDTESTS : todo = Script(test)
    /\ now = INSERT_TIME /\ last = INSERT_TIME
    /\ asked = <<>>

NextStep == todo' = Tail(todo) /\ last' = now /\ UNCHANGED now

Fails ==
    /\ Due
    /\ Head(todo).do \in {"fail one", "fail two", "fail another"}
    /\ \E c \in Up :
          LET nodes == Victims(Head(todo).do, Replicas(ring[c], Head(todo).key))
          IN  /\ nodes # {}
              /\ bFailed' = [i \in Node |-> bFailed[i] \/ i \in nodes]
    /\ NextStep
    /\ UNCHANGED <<phase, turn, downFor, member, nodeVars, netVars, coordVars, asked>>

Operates ==
    /\ Due
    /\ Head(todo).do \in {"CREATE", "READ", "UPDATE", "DELETE"}
    /\ \E c \in Clients : client(c, Head(todo).do, Head(todo).key, Head(todo).value)
    /\ asked' = Append(asked, [id |-> CRUDId(Head(todo).do, g_transID + 1),
                               at |-> now, may |-> Head(todo).may])
    /\ NextStep

(* Nodes run while no step of the driver is due; a tick begins with mp1Run. *)
Runs ==
    /\ ~Due /\ Run
    /\ now' = IF phase = "client" /\ now < LAST_TIME THEN now + 1 ELSE now
    /\ UNCHANGED <<todo, last, asked>>

TestNext == Fails \/ Operates \/ Runs

(* The driver is one thread that always takes its next step.  (There always   *)
(* is one, so this is weak fairness.)                                         *)
TestSpec == TestInit /\ [][TestNext]_<<vars, testVars>>
FairTestSpec == TestSpec /\ []<><<TestNext>>_<<vars, testVars>>
-------------------------------------------------------------------------------
(* Properties.                                                                *)

(* What is logged of an operation; a read that does not log the value last    *)
(* written to its key is wrong.                                               *)
Verdict(id) ==
    IF ops[id].told = <<>> THEN "none"
    ELSE IF Len(ops[id].told) > 1 THEN "several"
    ELSE IF ~ops[id].told[1].ok THEN "fail"
    ELSE IF id.type = "READ" /\ ops[id].told[1].value # pairValue THEN "wrong"
    ELSE "success"

(* Two ticks after it was issued an operation has come out as mp2Run says of  *)
(* the tests (Application.cpp:254-321) and KVStoreGrader.sh looks for: with   *)
(* one replica failed it succeeds, right after two have failed it fails,      *)
(* STABILIZE_TIME later it succeeds again, and so it does right after a       *)
(* non-replica has failed, for reads with the right value; on a key that does *)
(* not exist it never succeeds.  The comment at the call after the            *)
(* non-replica (698 and 941) says that this one should fail: it contradicts   *)
(* those, and the code, which has all three replicas up then.                 *)
TestOutcomes ==
    phase = "client" =>
        \A n \in DOMAIN asked :
            now >= asked[n].at + 2 => Verdict(asked[n].id) \in asked[n].may

(* The waits are long enough: when a step comes STABILIZE_TIME after the one  *)
(* before, every node has noticed the failures, and copies, deletions and     *)
(* their replies have been handled.                                           *)
WaitsSuffice == Due /\ now - last >= STABILIZE_TIME => Settled

(* "The code can never reach here": whichever running node is asked, the      *)
(* replicas are there, and so are the nodes to fail.                          *)
NeverExits ==
    Due /\ Head(todo).do \in {"fail one", "fail two", "fail another"} =>
        \A c \in Up : Victims(Head(todo).do, Replicas(ring[c], Head(todo).key)) # {}
===============================================================================
