-------------------------------- MODULE BagNet --------------------------------
(* What the protocols assume of the emulated network: a message it accepts    *)
(* stays in flight until its addressee receives, and is then put once in the  *)
(* addressee's queue.  No order is promised: the network and the queues are   *)
(* bags, given by how many copies of each payload they have.                  *)
EXTENDS Integers

CONSTANTS Node, Payload

VARIABLES
    flight,  \* flight[a][d]: copies of d on their way to a
    inbox    \* inbox[a][d]: copies of d handed to a, which it has not handled

netVars == <<flight, inbox>>

Nothing == [d \in Payload |-> 0]

Init ==
    /\ flight = [a \in Node |-> Nothing]
    /\ inbox = [a \in Node |-> Nothing]

Send(a, d) ==
    /\ flight' = [flight EXCEPT ![a][d] = @ + 1]
    /\ UNCHANGED inbox

Receive(a) ==
    /\ flight' = [flight EXCEPT ![a] = Nothing]
    /\ inbox' = [inbox EXCEPT ![a] = [d \in Payload |-> inbox[a][d] + flight[a][d]]]

(* The node handles one of the messages in its queue. *)
Take(a) ==
    /\ \E d \in Payload : inbox[a][d] > 0 /\ inbox' = [inbox EXCEPT ![a][d] = @ - 1]
    /\ UNCHANGED flight

Next == \E a \in Node : Receive(a) \/ Take(a) \/ \E d \in Payload : Send(a, d)

Spec == Init /\ [][Next]_netVars
===============================================================================
