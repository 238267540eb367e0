----------------------------- MODULE RandomPicks -----------------------------
(* How the program picks nodes at random: it draws until what it has drawn    *)
(* will do.  A node that gossips or probes a suspect draws a node that is not *)
(* itself (getRandomAddress) and then one that is neither itself nor the      *)
(* first (getRandomAddress(excl)); a node that pings draws one; the test      *)
(* driver draws until it has a node that is up (findARandomNodeThatIsAlive).  *)
(* The program is one thread, so all nodes stand still while it draws.        *)
EXTENDS Integers, Sequences, FiniteSets, SequencesExt

CONSTANT GroupSize            \* number of nodes

ASSUME SizeAssumption == GroupSize \in Nat \ {0}

Peer == 1 .. GroupSize
Driver == 0

VARIABLES
    bFailed,    \* the nodes the driver has failed
    caller,     \* who draws: a node or the driver ...
    wants,      \* ... how many it needs; 0: nobody draws ...
    got,        \* ... and the ids it has
    toId        \* what rand() gave last

pickVars == <<bFailed, caller, wants, got, toId>>

PickInit == bFailed = {} /\ caller = Driver /\ wants = 0 /\ got = <<>> /\ toId = 1

Idle == wants = 0

Calls(who, n) ==
    /\ Idle
    /\ caller' = who /\ wants' = n /\ got' = <<>>
    /\ UNCHANGED <<bFailed, toId>>

sendGossip(i) == i \notin bFailed /\ Calls(i, 2)
sendPing(i) == i \notin bFailed /\ Calls(i, 1)
findARandomNodeThatIsAlive == Calls(Driver, 1)

fail(i) ==
    /\ Idle
    /\ i \notin bFailed /\ Cardinality(bFailed) < GroupSize - 1
    /\ bFailed' = bFailed \cup {i}
    /\ UNCHANGED <<caller, wants, got, toId>>

(* What ends the loop.  A node does not know who has failed, nor does it look *)
(* into its table; the driver reads bFailed.                                  *)
Suits_Up(x) ==        \* mutant: only running nodes will do
    x \notin bFailed /\ (caller # Driver => x # caller /\ x \notin ToSet(got))
Suits_Twice(x) ==     \* mutant: excl is not looked at
    IF caller = Driver THEN x \notin bFailed ELSE x # caller
Suits(x) ==
    IF caller = Driver THEN x \notin bFailed
    ELSE x # caller /\ x \notin ToSet(got)

(* One turn of the loop, in which rand() gives x. *)
Draws(x) ==
    /\ Len(got) < wants
    /\ toId' = x
    /\ got' = IF Suits(x) THEN Append(got, x) ELSE got
    /\ UNCHANGED <<bFailed, caller, wants>>

Returns ==
    /\ ~Idle /\ Len(got) = wants
    /\ wants' = 0
    /\ UNCHANGED <<bFailed, caller, got, toId>>

PickNext ==
    \/ \E i \in Peer : sendGossip(i) \/ sendPing(i) \/ fail(i) \/ Draws(i)
    \/ findARandomNodeThatIsAlive
    \/ Returns

(* A loop that goes on draws every id at some time; the thread goes on.       *)
PickSpec == PickInit /\ [][PickNext]_pickVars
PickFairness == WF_pickVars(Returns) /\ \A x \in Peer : WF_pickVars(Draws(x))
-------------------------------------------------------------------------------
(* Properties.                                                                *)

(* A gossip and a probe request go to two nodes, neither of them the sender;  *)
(* the driver operates at a node that is up.                                  *)
GoodPicks ==
    ~Idle /\ Len(got) = wants =>
        /\ Cardinality(ToSet(got)) = wants /\ ToSet(got) \subseteq Peer \ {caller}
        /\ caller = Driver => ToSet(got) \cap bFailed = {}

(* Whoever draws gets its nodes, however many have failed: nobody hangs the   *)
(* simulation.  (In a group of two there is no second target: sendGossip      *)
(* draws for ever.)                                                           *)
AlwaysReturns == ~Idle ~> Idle
===============================================================================
