---------------------------- MODULE MCMembership ----------------------------
(* Instances of Membership: which ids the random choices may fall on, and a   *)
(* guide that leads TLC to a long behaviour of the protocol.                  *)
EXTENDS Membership

AnyThree == [i \in 1 .. 3 |-> 1 .. 3]

-------------------------------------------------------------------------------
(* The guide only forbids: what the guided specification does, Spec does.  It *)
(* makes a node handle its queue in one fixed order.                          *)

First(q) == CHOOSE m \in BagToSet(q) : TRUE

InOrder ==
    turn \in Node /\ mp1q' # mp1q => mp1q'[turn] = mp1q[turn] (-) SetToBag({First(mp1q[turn])})

(* Nodes 5 and 6 fail.  The last news of 5 reach 1; 1, 2, 3 and 4 hand them   *)
(* on in turn, each when they are just fresh enough, in the probe requests    *)
(* about 5 itself, and send everything else to the failed nodes.              *)
Chain == <<{2, 5, 6}, {3, 5, 6}, {4, 5, 6}, {1, 5, 6}, {1, 6}, {1, 5}>>

AboutFive(m) == m.type = "PINGREQ" /\ m.addr = 5
NewMessages == {m \in BagToSet(net') : CopiesIn(m, net') > CopiesIn(m, net)}

Handed ==
    turn \in 1 .. 4 =>
        \A m \in NewMessages :
            /\ m.type = "GOSSIP" => m.to \in {5, 6}
            /\ m.type = "PING" /\ ~m.fromPingreq => m.to = 6
            /\ m.type = "PINGREQ" => (m.to = 5) = ~AboutFive(m) \/ m.to = 6

ChainSpec == Init /\ [][Next /\ InOrder /\ Handed]_vars
===============================================================================
