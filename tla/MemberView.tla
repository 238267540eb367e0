------------------------------ MODULE MemberView ------------------------------
(* What the membership layer promises the layers above it, with the messages  *)
(* abstracted away: every started node beats, and has a view of the group, a  *)
(* set of nodes each with a beat it had.                                      *)
(*                                                                            *)
(* A view only ever grows by news that are true (a started node, a beat it    *)
(* has reached), news of a node in the view only replace older news, and a    *)
(* node forgets others only when it beats itself, never itself.               *)
EXTENDS Integers

CONSTANT Node

VARIABLES
    up,     \* the node has been started
    beat,   \* its heartbeat
    view    \* the nodes it knows of, each with the last beat it heard of

viewVars == <<up, beat, view>>

Init ==
    /\ up = [i \in Node |-> FALSE]
    /\ beat = [i \in Node |-> 0]
    /\ view = [i \in Node |-> [x \in {} |-> 0]]

Boot(i) ==
    /\ ~up[i]
    /\ up' = [up EXCEPT ![i] = TRUE]
    /\ view' = [view EXCEPT ![i] = [x \in {i} |-> 0]]
    /\ UNCHANGED beat

(* new is old with some of its entries replaced by news, and news added. *)
Updates(old, new) ==
    /\ DOMAIN old \subseteq DOMAIN new
    /\ \A x \in DOMAIN new :
          \/ x \in DOMAIN old /\ new[x] = old[x]
          \/ /\ up[x] /\ new[x] \in 0 .. beat[x]
             /\ x \in DOMAIN old => new[x] > old[x]

Hear(i) ==
    /\ up[i]
    /\ \A j \in Node \ {i} : view'[j] = view[j]
    /\ DOMAIN view' = Node /\ DOMAIN view'[i] \subseteq Node
    /\ Updates(view[i], view'[i])
    /\ UNCHANGED <<up, beat>>

Beat(i) ==
    /\ up[i]
    /\ beat' = [beat EXCEPT ![i] = @ + 1]
    /\ \E gone \in SUBSET (DOMAIN view[i] \ {i}) :
          view' = [view EXCEPT ![i] = [x \in DOMAIN view[i] \ gone |->
                                         IF x = i THEN beat[i] + 1 ELSE view[i][x]]]
    /\ UNCHANGED up

Next == \E i \in Node : Boot(i) \/ Hear(i) \/ Beat(i)

Spec == Init /\ [][Next]_viewVars
===============================================================================
