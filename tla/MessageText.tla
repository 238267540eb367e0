----------------------------- MODULE MessageText -----------------------------
(* The text in which messages of the store travel (Message.cpp): fields       *)
(* joined by the delimiter "::", split wherever it is found, in a format that *)
(* depends on the type.  An address is itself two numbers and a colon, and a  *)
(* key or a value is any string.                                              *)
(*                                                                            *)
(* A text is a sequence of characters: the colon, or one that stands for      *)
(* others.  A number is the one character of the same name.                   *)
EXTENDS Integers, Sequences, FiniteSets, SequencesExt

CONSTANTS
    Letter,     \* the characters of keys and values, the colon apart
    MaxLength   \* bound on their length

colon == ":"
delimiter == <<colon, colon>>
Text == SeqOf(Letter \cup {colon}, MaxLength)
Unset == <<"unset">>

(* enum MessageType and enum ReplicaType, as to_string writes them. *)
TypeNumber ==
    [CREATE |-> "0", READ |-> "1", UPDATE |-> "2", DELETE |-> "3", REPLY |-> "4", READREPLY |-> "5"]
Replica == {<<"0">>, <<"1">>, <<"2">>, <<"7">>}     \* 7: what a field never set may hold
Digit == {"0", "1", "2", "3", "4", "5", "7"}

TextAssumption == colon \notin Letter /\ MaxLength \in Nat

VARIABLES
    sent,       \* the message to be sent
    text,       \* what the network carries
    got         \* what the receiver makes of it

vars == <<sent, text, got>>

(* The constructors, with the fields that they set. *)
Fields(type, key, value, replica, success) ==
    [type |-> type, key |-> key, value |-> value, replica |-> replica, success |-> success]
Messages ==
    {Fields(type, k, v, r, Unset) : type \in {"CREATE", "UPDATE"}, k \in Text, v \in Text, r \in Replica}
    \cup {Fields(type, k, Unset, Unset, Unset) : type \in {"READ", "DELETE"}, k \in Text}
    \cup {Fields("REPLY", Unset, Unset, Unset, ok) : ok \in {<<"0">>, <<"1">>}}
    \cup {Fields("READREPLY", Unset, v, Unset, Unset) : v \in Text}

None == <<>>
Thrown == <<"exception">>

Init == sent \in Messages /\ text = None /\ got = None

-------------------------------------------------------------------------------

(* Transaction id and address of the sender come first, in every message.     *)
transID == <<"1">>
fromAddr == <<"2", colon, "0">>

Body(m) ==
    CASE m.type \in {"CREATE", "UPDATE"} ->
             m.key \o delimiter \o m.value \o delimiter \o m.replica
      [] m.type \in {"READ", "DELETE"}   -> m.key
      [] m.type = "REPLY"                -> m.success
      [] m.type = "READREPLY"            -> m.value

toString ==
    /\ text = None
    /\ text' = transID \o delimiter \o fromAddr \o delimiter
               \o <<TypeNumber[sent.type]>> \o delimiter \o Body(sent)
    /\ UNCHANGED <<sent, got>>

(* The fields, split at the first delimiter at or after a place, and so on    *)
(* from its end, which is where the second colon is skipped.                  *)
SplitAt(s, skips) ==
    LET Visit(acc, p) ==
            IF acc.skip THEN [acc EXCEPT !.skip = FALSE]
            ELSE IF p < Len(s) /\ s[p] = colon /\ s[p + 1] = colon
            THEN [fields |-> Append(acc.fields, acc.last), last |-> <<>>, skip |-> skips]
            ELSE [acc EXCEPT !.last = Append(@, s[p])]
        end == FoldLeft(Visit, [fields |-> <<>>, last |-> <<>>, skip |-> FALSE],
                        [p \in DOMAIN s |-> p])
    IN  Append(end.fields, end.last)
Split_One(s) == SplitAt(s, FALSE)   \* mutant: start = pos + 1
Split(s) == SplitAt(s, TRUE)

(* stoi reads the number a text begins with; there is an exception when it    *)
(* begins with none, and when a field is missing.                             *)
Number(s) == s # <<>> /\ s[1] \in Digit

ReadPair(type, tuple) ==
    IF Len(tuple) < 5 THEN Thrown
    ELSE IF Len(tuple) = 5 THEN Fields(type, tuple[4], tuple[5], Unset, Unset)
    ELSE IF ~Number(tuple[6]) THEN Thrown
    ELSE Fields(type, tuple[4], tuple[5], <<tuple[6][1]>>, Unset)

Message ==
    /\ text # None /\ got = None
    /\ LET tuple == Split(text)
           type == CHOOSE t \in DOMAIN TypeNumber : tuple[3] = <<TypeNumber[t]>>
       IN  got' = IF ~Number(tuple[3]) THEN Thrown
                  ELSE CASE type \in {"CREATE", "UPDATE"} -> ReadPair(type, tuple)
                         [] type \in {"READ", "DELETE"} ->
                                Fields(type, tuple[4], Unset, Unset, Unset)
                         [] type = "REPLY" ->
                                Fields(type, Unset, Unset, Unset,
                                       IF tuple[4] = <<"1">> THEN <<"1">> ELSE <<"0">>)
                         [] type = "READREPLY" ->
                                Fields(type, Unset, tuple[4], Unset, Unset)
    /\ UNCHANGED <<sent, text>>

Finished == got # None /\ UNCHANGED vars

Next == toString \/ Message \/ Finished

Spec == Init /\ [][Next]_vars
-------------------------------------------------------------------------------
(* Properties.                                                                *)

(* A string that the format can carry: no delimiter in it, and no colon at    *)
(* its end, which would make one with what follows.                           *)
Plain(s) ==
    /\ \A p \in 1 .. Len(s) - 1 : s[p] # colon \/ s[p + 1] # colon
    /\ s = <<>> \/ s[Len(s)] # colon

(* What is sent is what is received, for all keys and values that are plain,  *)
(* those that begin with a colon or have one in the middle included.          *)
RoundTrip == got # None /\ Plain(sent.key) /\ Plain(sent.value) => got = sent
===============================================================================
