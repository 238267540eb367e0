----------------------------- MODULE MemberTable -----------------------------
(* The membership table of one node as MP1Node.cpp keeps it: a vector of      *)
(* entries, searched from the front, and an iterator myPos that is to point   *)
(* to the node's own entry, which insertions and removals make invalid and    *)
(* which is rebuilt from its index.  Membership has the table as a function   *)
(* from ids to entries; here the vector is shown to implement it.             *)
(*                                                                            *)
(* The rest of the group is the news that may arrive: any about others, and   *)
(* about the node itself no more than it has said (NoInventedNews).           *)
EXTENDS Integers, Sequences, FiniteSets, SequencesExt

CONSTANTS
    Group,          \* the ids of the group
    me,             \* the one whose table this is
    TFAIL, TREMOVE, \* MP1Node.h
    MaxBeat,        \* bound on heartbeats
    MaxTime,        \* bound on the clock
    MaxNews         \* bound on the entries in a message

ASSUME TableAssumption ==
    /\ me \in Group /\ Group \subseteq Nat
    /\ TFAIL \in Nat /\ TREMOVE \in Nat
    /\ MaxBeat \in Nat /\ MaxTime \in Nat /\ MaxNews \in Nat

VARIABLES
    currtime,       \* the clock
    heartbeat,      \* the node's own counter
    memberList,     \* the vector of entries [id, hb, ts]
    myPos           \* the index that the iterator stands for

tableVars == <<currtime, heartbeat, memberList, myPos>>

Entry(x, h, t) == [id |-> x, hb |-> h, ts |-> t]

(* initMemberListTable, in nodeStart. *)
TableInit ==
    /\ currtime \in 0 .. MaxTime
    /\ heartbeat = 0
    /\ memberList = <<Entry(me, 0, currtime)>>
    /\ myPos = 1

(* What a message may carry: entries of different nodes, and in a JOINREP     *)
(* with old time stamps.                                                      *)
News(stamps) ==
    {s \in SeqOf([id : Group, hb : 0 .. MaxBeat, ts : stamps], MaxNews) :
        /\ \A n \in DOMAIN s : s[n].id = me => s[n].hb <= heartbeat
        /\ \A m, n \in DOMAIN s : s[m].id = s[n].id => m = n}

-------------------------------------------------------------------------------

Known_ButLast(list, x) ==   \* mutant: the search ends before the last entry
    \E n \in 1 .. Len(list) - 1 : list[n].id = x
Known(list, x) == \E n \in DOMAIN list : list[n].id = x

(* A greater heartbeat replaces the known one. *)
Refresh(list, e) ==
    [n \in DOMAIN list |-> IF list[n].id = e.id /\ e.hb > list[n].hb
                           THEN Entry(e.id, e.hb, currtime) ELSE list[n]]

(* The loops of updateMemberList and of the gossip handler add a new entry    *)
(* with the receiver's time, that of the JOINREP handler as it is.            *)
Learn(list, e) ==
    IF Known(list, e.id) THEN Refresh(list, e)
    ELSE Append(list, Entry(e.id, e.hb, currtime))
LearnRaw_Front(list, e) ==  \* mutant: push_front
    IF Known(list, e.id) THEN Refresh(list, e) ELSE <<e>> \o list
LearnRaw(list, e) ==
    IF Known(list, e.id) THEN Refresh(list, e) ELSE Append(list, e)

(* The list when it has learnt all the news of a message, one after the other. *)
AllLearnt(list, news) ==
    LET learnt[n \in 0 .. Len(news)] ==
            IF n = 0 THEN list ELSE Learn(learnt[n - 1], news[n])
    IN  learnt[Len(news)]
AllLearntRaw(list, news) ==
    LET learnt[n \in 0 .. Len(news)] ==
            IF n = 0 THEN list ELSE LearnRaw(learnt[n - 1], news[n])
    IN  learnt[Len(news)]

updateMemberList(news) ==
    /\ memberList' = AllLearnt(memberList, news)
    /\ UNCHANGED <<currtime, heartbeat, myPos>>

recvJOINREP(news) ==
    /\ memberList' = AllLearntRaw(memberList, news)
    /\ UNCHANGED <<currtime, heartbeat, myPos>>

(* The loop that erases.  What has not been looked at moves up by one when an *)
(* entry is erased; myPos keeps its place in the memory.                      *)
Stale(e) == currtime - e.ts > TREMOVE
EraseLoop_Skips(list) ==    \* mutant: ++it after erase, too
    LET Visit(kept, e) ==
            IF Len(kept.list) + 1 # myPos /\ Stale(e) /\ ~kept.skip
            THEN [kept EXCEPT !.skip = TRUE]
            ELSE [list |-> Append(kept.list, e), skip |-> FALSE]
    IN  FoldLeft(Visit, [list |-> <<>>, skip |-> FALSE], list).list
EraseLoop(list) ==
    LET kept[n \in 0 .. Len(list)] ==
            IF n = 0 THEN <<>>
            ELSE IF Len(kept[n - 1]) + 1 # myPos /\ Stale(list[n]) THEN kept[n - 1]
            ELSE Append(kept[n - 1], list[n])
    IN  kept[Len(list)]

(* The list once the node has written its new heartbeat through myPos. *)
Beaten == [memberList EXCEPT ![myPos].hb = heartbeat + 1, ![myPos].ts = currtime]

nodeLoopOps ==
    /\ heartbeat < MaxBeat
    /\ heartbeat' = heartbeat + 1
    /\ memberList' = EraseLoop(Beaten)
    /\ myPos' = IF myPos <= Len(memberList') THEN myPos ELSE Len(memberList') + 1
    /\ UNCHANGED currtime

timePasses ==
    /\ currtime < MaxTime
    /\ currtime' = currtime + 1
    /\ UNCHANGED <<heartbeat, memberList, myPos>>

TableNext ==
    \/ \E news \in News({currtime}) : updateMemberList(news)
    \/ \E news \in News({0, currtime}) : recvJOINREP(news)
    \/ nodeLoopOps
    \/ timePasses

TableSpec == TableInit /\ [][TableNext]_tableVars
-------------------------------------------------------------------------------
(* Properties.                                                                *)

(* myPos points to the node's own entry, with the count the node has.         *)
OwnPosition ==
    /\ myPos \in DOMAIN memberList
    /\ memberList[myPos].id = me /\ memberList[myPos].hb = heartbeat

(* No node has two entries.                                                   *)
NoTwins ==
    \A m, n \in DOMAIN memberList : memberList[m].id = memberList[n].id => m = n

(* The function a vector without twins stands for. *)
TableOf(list) ==
    [x \in {list[n].id : n \in DOMAIN list} |->
        LET n == CHOOSE n \in DOMAIN list : list[n].id = x
        IN  [hb |-> list[n].hb, ts |-> list[n].ts]]
Beats(news) == [x \in DOMAIN TableOf(news) |-> TableOf(news)[x].hb]
Stamps(news) == [x \in DOMAIN TableOf(news) |-> TableOf(news)[x].ts]

(* The operators of Membership; of its variables they read only the clock.    *)
M == INSTANCE Membership WITH
        EN_GPSZ <- Cardinality(Group), TTL <- 1, MAX_PARTIAL_LIST_SIZE <- 1,
        StartsPerTick <- 1, TOTAL_RUNNING_TIME <- MaxTime, CanFail <- {},
        FailTimes <- {}, MaxFailures <- 0, MaxEntries <- 1,
        Drawn <- [i \in Group |-> Group], turn <- 0, inited <- {}, inGroup <- {},
        bFailed <- {}, pingCounter <- 0, net <- {}, mp1q <- {}, failTime <- 0,
        globaltime <- currtime

(* Every operation on the vector does to the table what Membership says:      *)
(* merging the news of a message one after the other, in any order, is        *)
(* merging all of it at once, and the loop erases all that has expired and    *)
(* nothing else.                                                              *)
ImplementsTable ==
    LET table == TableOf(memberList)
        own == [table EXCEPT ![me] = [hb |-> heartbeat + 1, ts |-> currtime]]
    IN  /\ \A news \in News({currtime}) :
              TableOf(AllLearnt(memberList, news)) = M!Merge(table, Beats(news))
        /\ \A news \in News({0, currtime}) :
              TableOf(AllLearntRaw(memberList, news))
                  = M!MergeRaw(table, Beats(news), Stamps(news))
        /\ TableOf(EraseLoop(Beaten)) = [x \in DOMAIN own \ M!Expired(me, own) |-> own[x]]
===============================================================================
