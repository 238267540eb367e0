----------------------------- MODULE Transactions -----------------------------
(* What the store promises to whoever issues operations, with messages, turns *)
(* and counters abstracted away: an operation is asked of some replicas, some *)
(* of them do it, and then, for good, it is declared a success if a quorum of *)
(* them has done it and a failure otherwise.  Some are never declared.        *)
EXTENDS Integers, FiniteSets

CONSTANTS Replica, Quorum

VARIABLES
    asked,      \* transaction -> the replicas it is asked of
    did,        \* ... and those that have done it
    verdict     \* ... and what has been declared: "none", "success", "failure"

transVars == <<asked, did, verdict>>

Init == asked = <<>> /\ did = <<>> /\ verdict = <<>>

Issued == DOMAIN asked

Extended(f, t, y) == [x \in DOMAIN f \cup {t} |-> IF x = t THEN y ELSE f[x]]

Issue(t, S) ==
    /\ t \notin Issued
    /\ asked' = Extended(asked, t, S)
    /\ did' = Extended(did, t, {})
    /\ verdict' = Extended(verdict, t, "none")

Do(t, i) ==
    /\ t \in Issued /\ verdict[t] = "none"
    /\ i \in asked[t] \ did[t]
    /\ did' = [did EXCEPT ![t] = @ \cup {i}]
    /\ UNCHANGED <<asked, verdict>>

(* Several may be declared at once. *)
Declare(T) ==
    /\ \A t \in T : verdict[t] = "none"
    /\ verdict' = [t \in Issued |->
                      IF t \notin T THEN verdict[t]
                      ELSE IF Cardinality(did[t]) >= Quorum THEN "success" ELSE "failure"]
    /\ UNCHANGED <<asked, did>>

Next ==
    \/ \E t \in DOMAIN asked', S \in SUBSET Replica : Issue(t, S)
    \/ \E t \in Issued, i \in Replica : Do(t, i)
    \/ \E T \in SUBSET Issued : Declare(T)

Spec == Init /\ [][Next]_transVars
===============================================================================
