------------------------------- MODULE EmulNet --------------------------------
(* The emulated network, EmulNet.cpp: one buffer shared by all nodes.         *)
(*                                                                            *)
(* ENsend appends to the buffer, or drops the message when the buffer is full *)
(* or the message is too big.  (The random drop is off: nothing calls the     *)
(* Application::fail that would set dropmsg.)  ENrecv scans the buffer from   *)
(* its end, and fills the hole a taken message leaves with the last message,  *)
(* so it neither keeps the order of what it takes nor that of what it leaves. *)
(* It compares addresses with strcmp.                                         *)
EXTENDS Integers, Sequences, FiniteSets, SequencesExt

CONSTANTS
    Ids,          \* the node ids of the group (an address is an id, port 0)
    Payload,      \* the messages
    Oversized,    \* those for which size + sizeof(en_msg) >= MAX_MSG_SIZE
    ENBUFFSIZE,   \* capacity of the buffer
    MaxQueue      \* bound: a node sends only while no queue is longer

MAX_NODES == 1000

ASSUME IdsAssumption == Ids \subseteq 1 .. MAX_NODES
ASSUME BufferAssumption ==
    Oversized \subseteq Payload /\ ENBUFFSIZE \in Nat /\ MaxQueue \in Nat

VARIABLES
    buff,   \* emulnet.buff[0 .. currbuffsize-1]
    queue   \* per node, the queue that enq fills

vars == <<buff, queue>>

(* strcmp reads an address up to its first zero byte.  The id is stored low   *)
(* byte first, and is below 2^16.                                             *)
CString(id) ==
    LET low == id % 256
        high == id \div 256
    IN  IF low = 0 THEN <<>> ELSE IF high = 0 THEN <<low>> ELSE <<low, high>>

SameAddress(a, b) == CString(a) = CString(b)

Init ==
    /\ buff = <<>>
    /\ queue = [a \in Ids |-> <<>>]

Accepts_OffByOne(d) == Len(buff) <= ENBUFFSIZE /\ d \notin Oversized  \* mutant
Accepts(d) == Len(buff) < ENBUFFSIZE /\ d \notin Oversized

ENsend(a, d) ==
    /\ \A b \in Ids : Len(queue[b]) <= MaxQueue
    /\ buff' = IF Accepts(d) THEN Append(buff, [to |-> a, data |-> d]) ELSE buff
    /\ UNCHANGED queue

(* buff[i] = buff[currbuffsize-1]; currbuffsize--; *)
SwapOut_Drop(b, i) == Front(b)  \* mutant: the hole is not filled
SwapOut(b, i) == Front([b EXCEPT ![i] = Last(b)])

(* The scan: scan[k] is the buffer and what was taken, in order, after the    *)
(* last k positions have been looked at.                                      *)
ScanFor_Forward(a) ==  \* mutant: from the front, over the initial length
    LET n == Len(buff)
        scan[k \in 0 .. n] ==
            IF k = 0 THEN [left |-> buff, taken |-> <<>>]
            ELSE LET s == scan[k - 1]
                 IN  IF k <= Len(s.left) /\ SameAddress(s.left[k].to, a)
                     THEN [left |-> SwapOut(s.left, k), taken |-> Append(s.taken, s.left[k].data)]
                     ELSE s
    IN  scan[n]

ScanFor(a) ==
    LET n == Len(buff)
        scan[k \in 0 .. n] ==
            IF k = 0 THEN [left |-> buff, taken |-> <<>>]
            ELSE LET s == scan[k - 1]
                     i == n - k + 1
                 IN  IF SameAddress(s.left[i].to, a)
                     THEN [left |-> SwapOut(s.left, i), taken |-> Append(s.taken, s.left[i].data)]
                     ELSE s
    IN  scan[n]

ENrecv(a) ==
    LET s == ScanFor(a)
    IN  /\ buff' = s.left
        /\ queue' = [queue EXCEPT ![a] = @ \o s.taken]

(* checkMessages pops the front of the queue. *)
Pop(a) ==
    /\ queue[a] # <<>>
    /\ queue' = [queue EXCEPT ![a] = Tail(@)]
    /\ UNCHANGED buff

Next == \E a \in Ids : ENrecv(a) \/ Pop(a) \/ \E d \in Payload : ENsend(a, d)

Spec == Init /\ [][Next]_vars

-------------------------------------------------------------------------------
(* Properties.                                                                *)

TypeOK ==
    /\ buff \in Seq([to : Ids, data : Payload \ Oversized])
    /\ Len(buff) <= ENBUFFSIZE
    /\ queue \in [Ids -> Seq(Payload \ Oversized)]

(* A receive leaves nothing behind for the receiver, although the scan moves  *)
(* messages to positions it may have passed.                                  *)
ReceivesAll ==
    [][\A a \in Ids : ENrecv(a) => ~\E i \in DOMAIN buff' : buff'[i].to = a]_vars

(* Nothing is handed to a node it is not addressed to, nothing is lost and    *)
(* nothing handed out twice: the buffer is the network the protocols assume.  *)
Number(x, s) == Cardinality({i \in DOMAIN s : s[i] = x})
Net == INSTANCE BagNet WITH
          Node <- Ids,
          flight <- [a \in Ids |-> [d \in Payload |-> Number([to |-> a, data |-> d], buff)]],
          inbox <- [a \in Ids |-> [d \in Payload |-> Number(d, queue[a])]]
IsBagNet == Net!Spec
===============================================================================
