-------------------------- MODULE MemberTable_proofs --------------------------
(* Proofs about the vector that MP1Node.cpp keeps its membership table in,    *)
(* for every group, all news and every length of a message: it is the table   *)
(* that Membership has.                                                       *)
EXTENDS MemberTable, DataLemmas

EntrySet == [id : Group, hb : Nat, ts : Nat]

(* A vector without twins, and the ids in it. *)
Twinless(list) == \A m, n \in DOMAIN list : list[m].id = list[n].id => m = n
IsList(list) == list \in Seq(EntrySet) /\ Twinless(list)
IdsIn(list) == {list[n].id : n \in DOMAIN list}

(* The node's own entry comes first. *)
OwnFirst(list) == list # <<>> /\ list[1].id = me /\ list[1].hb = heartbeat

(* The inductive invariant: the iterator never moves.                         *)
TableInv ==
    /\ currtime \in Nat /\ heartbeat \in Nat
    /\ IsList(memberList) /\ OwnFirst(memberList) /\ myPos = 1

(* What an entry of a vector tells about its node.                            *)
Told(e) == [hb |-> e.hb, ts |-> e.ts]
LEMMA TableTells ==
    ASSUME NEW list, Twinless(list)
    PROVE  /\ DOMAIN TableOf(list) = IdsIn(list)
           /\ \A n \in DOMAIN list : TableOf(list)[list[n].id] = Told(list[n])
           /\ TableOf(list) = [x \in IdsIn(list) |-> TableOf(list)[x]]
<1>1. DOMAIN TableOf(list) = IdsIn(list)
  BY DEF TableOf, IdsIn
<1>2. ASSUME NEW n \in DOMAIN list
      PROVE  TableOf(list)[list[n].id] = Told(list[n])
  <2>. DEFINE k == CHOOSE k \in DOMAIN list : list[k].id = list[n].id
  <2>1. k \in DOMAIN list /\ list[k].id = list[n].id
    OBVIOUS
  <2>2. k = n
    BY <2>1 DEF Twinless
  <2>3. TableOf(list)[list[n].id] = [hb |-> list[k].hb, ts |-> list[k].ts]
    BY DEF TableOf
  <2>. QED BY <2>2, <2>3 DEF Told
<1>3. TableOf(list) = [x \in IdsIn(list) |-> TableOf(list)[x]]
  BY DEF TableOf, IdsIn
<1>. QED BY <1>1, <1>2, <1>3

-------------------------------------------------------------------------------
(* Learning.                                                                  *)

(* What one piece of news does to a vector, as an answer to a join request    *)
(* (raw) or otherwise.                                                        *)
Stamped(raw, e) == IF raw THEN e ELSE Entry(e.id, e.hb, currtime)
Put(raw, list, e) == IF Known(list, e.id) THEN Refresh(list, e) ELSE Append(list, Stamped(raw, e))

LEMMA PutIsLearn ==
    ASSUME NEW list, NEW e
    PROVE  Put(FALSE, list, e) = Learn(list, e) /\ Put(TRUE, list, e) = LearnRaw(list, e)
BY DEF Put, Stamped, Learn, LearnRaw

(* The entry for x afterwards, given the table before. *)
Updated(raw, table, e) ==
    IF e.id \notin DOMAIN table THEN Told(Stamped(raw, e))
    ELSE IF e.hb > table[e.id].hb THEN [hb |-> e.hb, ts |-> currtime]
    ELSE table[e.id]

LEMMA PutInTable ==
    ASSUME currtime \in Nat, NEW raw \in BOOLEAN, NEW list, IsList(list), NEW e \in EntrySet
    PROVE  /\ IsList(Put(raw, list, e)) /\ IdsIn(Put(raw, list, e)) = IdsIn(list) \cup {e.id}
           /\ \A x \in IdsIn(list) \cup {e.id} :
                 TableOf(Put(raw, list, e))[x]
                     = IF x = e.id THEN Updated(raw, TableOf(list), e) ELSE TableOf(list)[x]
           /\ OwnFirst(list) /\ (e.id = me => e.hb <= heartbeat) /\ heartbeat \in Nat
                 => OwnFirst(Put(raw, list, e))
<1>. PICK r : r = Put(raw, list, e)
  OBVIOUS
<1>. PICK L \in Nat : L = Len(list) /\ DOMAIN list = 1 .. L
  BY DEF IsList
<1>1. \A n \in 1 .. L : list[n] \in EntrySet
  BY DEF IsList
<1>2. /\ DOMAIN TableOf(list) = IdsIn(list)
      /\ \A n \in 1 .. L : TableOf(list)[list[n].id] = Told(list[n])
  BY TableTells DEF IsList
<1>3. CASE Known(list, e.id)
  <2>1. r = [n \in 1 .. L |-> IF list[n].id = e.id /\ e.hb > list[n].hb
                              THEN Entry(e.id, e.hb, currtime) ELSE list[n]]
    BY <1>3 DEF Put, Refresh
  <2>2. \A n \in 1 .. L : r[n] \in EntrySet /\ r[n].id = list[n].id
    BY <1>1, <2>1 DEF Entry, EntrySet
  <2>3. r \in Seq(EntrySet) /\ DOMAIN r = 1 .. L
    BY <2>1, <2>2
  <2>4. Twinless(r)
    BY <2>2, <2>3 DEF IsList, Twinless
  <2>5. e.id \in IdsIn(list)
    BY <1>3 DEF Known, IdsIn
  <2>6. IdsIn(r) = IdsIn(list)
    BY <2>2, <2>3 DEF IdsIn
  <2>7. ASSUME NEW x \in IdsIn(list)
        PROVE  TableOf(r)[x] = IF x = e.id THEN Updated(raw, TableOf(list), e) ELSE TableOf(list)[x]
    <3>1. PICK n \in 1 .. L : x = list[n].id
      BY DEF IdsIn
    <3>2. TableOf(r)[x] = Told(r[n])
      BY <2>2, <2>3, <2>4, <3>1, TableTells
    <3>3. TableOf(list)[x] = Told(list[n]) /\ Told(list[n]).hb = list[n].hb
      BY <1>2, <3>1 DEF Told
    <3>4. CASE x = e.id /\ e.hb > list[n].hb
      <4>1. r[n] = Entry(e.id, e.hb, currtime)
        BY <2>1, <3>1, <3>4
      <4>2. Told(r[n]) = [hb |-> e.hb, ts |-> currtime]
        BY <4>1 DEF Told, Entry
      <4>. QED BY <1>2, <2>5, <3>2, <3>3, <3>4, <4>2 DEF Updated
    <3>5. CASE ~(x = e.id /\ e.hb > list[n].hb)
      <4>1. r[n] = list[n]
        BY <2>1, <3>1, <3>5
      <4>. QED BY <1>2, <2>5, <3>2, <3>3, <3>5, <4>1 DEF Updated
    <3>. QED BY <3>4, <3>5
  <2>8. OwnFirst(list) /\ (e.id = me => e.hb <= heartbeat) /\ heartbeat \in Nat => OwnFirst(r)
    <3>. SUFFICES ASSUME OwnFirst(list), e.id = me => e.hb <= heartbeat, heartbeat \in Nat
                  PROVE  OwnFirst(r)
      OBVIOUS
    <3>1. 1 \in 1 .. L
      BY DEF OwnFirst, IsList
    <3>2. r[1] = list[1]
      <4>1. ~(list[1].id = e.id /\ e.hb > list[1].hb)
        BY DEF OwnFirst, EntrySet
      <4>. QED BY <2>1, <3>1, <4>1
    <3>3. r # <<>>
      BY <2>3, <3>1
    <3>. QED BY <3>2, <3>3 DEF OwnFirst
  <2>. QED BY <2>3, <2>4, <2>5, <2>6, <2>7, <2>8 DEF IsList
<1>4. CASE ~Known(list, e.id)
  <2>. PICK a : a = Stamped(raw, e)
    OBVIOUS
  <2>1. a \in EntrySet /\ a.id = e.id
    BY DEF Stamped, Entry, EntrySet
  <2>2. r = Append(list, a)
    BY <1>4 DEF Put
  <2>3. /\ r \in Seq(EntrySet) /\ DOMAIN r = 1 .. L + 1 /\ r[L + 1] = a
        /\ \A n \in 1 .. L : r[n] = list[n]
    BY <2>1, <2>2 DEF IsList
  <2>4. \A n \in 1 .. L : list[n].id # e.id
    BY <1>4 DEF Known
  <2>5. Twinless(r)
    <3>1. \A m, n \in 1 .. L : list[m].id = list[n].id => m = n
      BY DEF IsList, Twinless
    <3>2. ASSUME NEW m \in 1 .. L + 1, NEW n \in 1 .. L + 1, r[m].id = r[n].id
          PROVE  m = n
      BY <2>1, <2>3, <2>4, <3>1, <3>2
    <3>. QED BY <2>3, <3>2 DEF Twinless
  <2>6. IdsIn(r) = IdsIn(list) \cup {e.id}
    BY <2>1, <2>3 DEF IdsIn
  <2>7. ASSUME NEW x \in IdsIn(list) \cup {e.id}
        PROVE  TableOf(r)[x] = IF x = e.id THEN Updated(raw, TableOf(list), e) ELSE TableOf(list)[x]
    <3>1. \A n \in 1 .. L + 1 : TableOf(r)[r[n].id] = Told(r[n])
      BY <2>3, <2>5, TableTells
    <3>2. CASE x = e.id
      <4>1. TableOf(r)[x] = Told(a)
        BY <2>1, <2>3, <3>1, <3>2
      <4>2. e.id \notin IdsIn(list)
        BY <2>4 DEF IdsIn
      <4>. QED BY <1>2, <3>2, <4>1, <4>2 DEF Updated
    <3>3. CASE x # e.id
      <4>1. PICK n \in 1 .. L : x = list[n].id
        BY <3>3 DEF IdsIn
      <4>2. n \in 1 .. L + 1 /\ r[n] = list[n]
        BY <2>3
      <4>3. TableOf(r)[x] = Told(list[n])
        BY <3>1, <4>1, <4>2
      <4>. QED BY <1>2, <3>3, <4>1, <4>3
    <3>. QED BY <3>2, <3>3
  <2>8. OwnFirst(list) => OwnFirst(r)
    <3>. SUFFICES ASSUME OwnFirst(list) PROVE OwnFirst(r)
      OBVIOUS
    <3>1. 1 \in 1 .. L
      BY DEF OwnFirst, IsList
    <3>2. r[1] = list[1] /\ r # <<>>
      BY <2>3, <3>1
    <3>. QED BY <3>2 DEF OwnFirst
  <2>. QED BY <2>3, <2>5, <2>6, <2>7, <2>8 DEF IsList
<1>. QED BY <1>3, <1>4

(* The vectors that the loop over the news of a message goes through.         *)
Learning(raw, list, news, f) ==
    /\ f[0] = list
    /\ \A n \in 1 .. Len(news) : f[n] = Put(raw, f[n - 1], news[n])

IsLearnt(list, news, f) ==
    f = [n \in 0 .. Len(news) |-> IF n = 0 THEN list ELSE Learn(f[n - 1], news[n])]
IsLearntRaw(list, news, f) ==
    f = [n \in 0 .. Len(news) |-> IF n = 0 THEN list ELSE LearnRaw(f[n - 1], news[n])]

IsPutting(raw, list, news, f) ==
    f = [n \in 0 .. Len(news) |-> IF n = 0 THEN list ELSE Put(raw, f[n - 1], news[n])]

LEMMA LearningExists ==
    ASSUME currtime \in Nat, NEW raw \in BOOLEAN, NEW list, IsList(list), NEW news \in Seq(EntrySet)
    PROVE  \E f : IsPutting(raw, list, news, f)
<1>. PICK N \in Nat : N = Len(news) /\ \A n \in 1 .. N : news[n] \in EntrySet
  OBVIOUS
<1>. DEFINE V == {l \in Seq(EntrySet) : Twinless(l)}
            G == [p \in (1 .. N) \X V |-> Put(raw, p[2], news[p[1]])]
<1>1. ASSUME NEW n \in 1 .. N, NEW l \in V PROVE Put(raw, l, news[n]) \in V
  <2>1. IsList(l) /\ news[n] \in EntrySet
    BY DEF IsList
  <2>2. IsList(Put(raw, l, news[n]))
    BY <2>1, PutInTable
  <2>. QED BY <2>2 DEF IsList
<1>2. G \in [(1 .. N) \X V -> V]
  <2>. HIDE DEF V
  <2>. QED BY <1>1
<1>3. list \in V
  BY DEF IsList
<1>4. PICK f \in [0 .. N -> V] : IsRecursion(f, list, G, N)
  <2>. HIDE DEF V, G
  <2>. QED BY <1>2, <1>3, RecursionExists
<1>5. f[0] = list /\ \A n \in 1 .. N : f[n] = G[<<n, f[n - 1]>>]
  BY <1>4 DEF IsRecursion
<1>6. ASSUME NEW n \in 1 .. N PROVE f[n] = Put(raw, f[n - 1], news[n])
  <2>1. n - 1 \in 0 .. N
    OBVIOUS
  <2>2. f[n - 1] \in V
    BY <1>4, <2>1
  <2>. HIDE DEF V
  <2>3. G[<<n, f[n - 1]>>] = Put(raw, f[n - 1], news[n])
    BY <2>2
  <2>. QED BY <1>5, <2>3
<1>. HIDE DEF V, G
<1>7. ASSUME NEW n \in 0 .. N
      PROVE  f[n] = IF n = 0 THEN list ELSE Put(raw, f[n - 1], news[n])
  <2>1. n = 0 \/ n \in 1 .. N
    OBVIOUS
  <2>. QED BY <1>5, <1>6, <2>1
<1>8. f = [n \in 0 .. N |-> f[n]]
  BY <1>4
<1>9. f = [n \in 0 .. N |-> IF n = 0 THEN list ELSE Put(raw, f[n - 1], news[n])]
  BY <1>7, <1>8
<1>. QED BY <1>9 DEF IsPutting

LEMMA AllLearntIs ==
    ASSUME currtime \in Nat, NEW list, IsList(list), NEW news \in Seq(EntrySet)
    PROVE  /\ \E f : Learning(FALSE, list, news, f) /\ AllLearnt(list, news) = f[Len(news)]
           /\ \E f : Learning(TRUE, list, news, f) /\ AllLearntRaw(list, news) = f[Len(news)]
<1>. PICK N \in Nat : N = Len(news)
  OBVIOUS
<1>1. \E f : Learning(FALSE, list, news, f) /\ AllLearnt(list, news) = f[Len(news)]
  <2>. DEFINE f == CHOOSE f : IsLearnt(list, news, f)
  <2>1. \E g : IsLearnt(list, news, g)
    <3>1. PICK g : IsPutting(FALSE, list, news, g)
      BY LearningExists
    <3>2. \A n : Put(FALSE, g[n - 1], news[n]) = Learn(g[n - 1], news[n])
      BY PutIsLearn
    <3>3. [n \in 0 .. N |-> IF n = 0 THEN list ELSE Put(FALSE, g[n - 1], news[n])]
              = [n \in 0 .. N |-> IF n = 0 THEN list ELSE Learn(g[n - 1], news[n])]
      BY <3>2
    <3>4. g = [n \in 0 .. N |-> IF n = 0 THEN list ELSE Learn(g[n - 1], news[n])]
      BY <3>1, <3>3 DEF IsPutting
    <3>. QED BY <3>4 DEF IsLearnt
  <2>2. IsLearnt(list, news, f)
    BY <2>1
  <2>3. AllLearnt(list, news) = f[N]
    BY DEF AllLearnt, IsLearnt
  <2>. HIDE DEF f
  <2>4. \A n \in 0 .. N : f[n] = IF n = 0 THEN list ELSE Learn(f[n - 1], news[n])
    BY <2>2 DEF IsLearnt
  <2>5. Learning(FALSE, list, news, f)
    <3>1. f[0] = list
      BY <2>4
    <3>2. ASSUME NEW n \in 1 .. N PROVE f[n] = Put(FALSE, f[n - 1], news[n])
      <4>1. n \in 0 .. N /\ n # 0
        OBVIOUS
      <4>2. Put(FALSE, f[n - 1], news[n]) = Learn(f[n - 1], news[n])
        BY PutIsLearn
      <4>. QED BY <2>4, <4>1, <4>2
    <3>. QED BY <3>1, <3>2 DEF Learning
  <2>. QED BY <2>3, <2>5
<1>2. \E f : Learning(TRUE, list, news, f) /\ AllLearntRaw(list, news) = f[Len(news)]
  <2>. DEFINE f == CHOOSE f : IsLearntRaw(list, news, f)
  <2>1. \E g : IsLearntRaw(list, news, g)
    <3>1. PICK g : IsPutting(TRUE, list, news, g)
      BY LearningExists
    <3>2. \A n : Put(TRUE, g[n - 1], news[n]) = LearnRaw(g[n - 1], news[n])
      BY PutIsLearn
    <3>3. [n \in 0 .. N |-> IF n = 0 THEN list ELSE Put(TRUE, g[n - 1], news[n])]
              = [n \in 0 .. N |-> IF n = 0 THEN list ELSE LearnRaw(g[n - 1], news[n])]
      BY <3>2
    <3>4. g = [n \in 0 .. N |-> IF n = 0 THEN list ELSE LearnRaw(g[n - 1], news[n])]
      BY <3>1, <3>3 DEF IsPutting
    <3>. QED BY <3>4 DEF IsLearntRaw
  <2>2. IsLearntRaw(list, news, f)
    BY <2>1
  <2>3. AllLearntRaw(list, news) = f[N]
    BY DEF AllLearntRaw, IsLearntRaw
  <2>. HIDE DEF f
  <2>4. \A n \in 0 .. N : f[n] = IF n = 0 THEN list ELSE LearnRaw(f[n - 1], news[n])
    BY <2>2 DEF IsLearntRaw
  <2>5. Learning(TRUE, list, news, f)
    <3>1. f[0] = list
      BY <2>4
    <3>2. ASSUME NEW n \in 1 .. N PROVE f[n] = Put(TRUE, f[n - 1], news[n])
      <4>1. n \in 0 .. N /\ n # 0
        OBVIOUS
      <4>2. Put(TRUE, f[n - 1], news[n]) = LearnRaw(f[n - 1], news[n])
        BY PutIsLearn
      <4>. QED BY <2>4, <4>1, <4>2
    <3>. QED BY <3>1, <3>2 DEF Learning
  <2>. QED BY <2>3, <2>5
<1>. QED BY <1>1, <1>2

(* The table when the first n pieces of news have been learnt.                *)
TableAfter(raw, table, news, n) ==
    LET heard == {news[k].id : k \in 1 .. n}
    IN  [x \in DOMAIN table \cup heard |->
            IF x \in heard
            THEN Updated(raw, table, news[CHOOSE k \in DOMAIN news : news[k].id = x])
            ELSE table[x]]

(* News about different nodes: each leaves alone what the others tell.        *)
LEMMA LearnsOneByOne ==
    ASSUME currtime \in Nat, heartbeat \in Nat, NEW raw \in BOOLEAN,
           NEW list, IsList(list), OwnFirst(list),
           NEW news, IsList(news), \A n \in DOMAIN news : news[n].id = me => news[n].hb <= heartbeat,
           NEW f, Learning(raw, list, news, f)
    PROVE  /\ IsList(f[Len(news)]) /\ OwnFirst(f[Len(news)])
           /\ TableOf(f[Len(news)]) = TableAfter(raw, TableOf(list), news, Len(news))
<1>. PICK N \in Nat : N = Len(news) /\ DOMAIN news = 1 .. N
  BY DEF IsList
<1>. DEFINE T == TableOf(list)
            Good == {n \in Nat : n <= N => /\ IsList(f[n]) /\ OwnFirst(f[n])
                                           /\ TableOf(f[n]) = TableAfter(raw, T, news, n)}
<1>1. 0 \in Good
  <2>1. f[0] = list
    BY DEF Learning
  <2>2. {news[k].id : k \in 1 .. 0} = {}
    OBVIOUS
  <2>3. DOMAIN T = IdsIn(list) /\ T = [x \in IdsIn(list) |-> T[x]]
    BY TableTells DEF IsList
  <2>4. TableAfter(raw, T, news, 0) = [x \in DOMAIN T |-> T[x]]
    BY <2>2 DEF TableAfter
  <2>. QED BY <2>1, <2>3, <2>4
<1>2. ASSUME NEW n \in 0 .. N - 1, n \in Good
      PROVE  n + 1 \in Good
  <2>. PICK l : l = f[n]
    OBVIOUS
  <2>. PICK r : r = f[n + 1]
    OBVIOUS
  <2>1. n + 1 \in 1 .. N /\ (n + 1) - 1 = n /\ n \in Nat /\ n <= N
    OBVIOUS
  <2>. PICK e \in EntrySet : e = news[n + 1]
    BY <2>1 DEF IsList
  <2>2. r = Put(raw, l, e)
    BY <2>1 DEF Learning
  <2>3. IsList(l) /\ OwnFirst(l) /\ TableOf(l) = TableAfter(raw, T, news, n)
    BY <1>2, <2>1
  <2>4. e.id = me => e.hb <= heartbeat
    BY <2>1
  <2>5. /\ IsList(r) /\ OwnFirst(r) /\ IdsIn(r) = IdsIn(l) \cup {e.id}
        /\ \A x \in IdsIn(l) \cup {e.id} :
              TableOf(r)[x] = IF x = e.id THEN Updated(raw, TableOf(l), e) ELSE TableOf(l)[x]
    BY <2>2, <2>3, <2>4, PutInTable
  <2>6. /\ DOMAIN TableOf(l) = IdsIn(l)
        /\ TableOf(r) = [x \in IdsIn(l) \cup {e.id} |-> TableOf(r)[x]]
    BY <2>3, <2>5, TableTells DEF IsList
  <2>. DEFINE heard == {news[k].id : k \in 1 .. n}
              more == {news[k].id : k \in 1 .. n + 1}
              Of(x) == news[CHOOSE k \in DOMAIN news : news[k].id = x]
  <2>7. more = heard \cup {e.id}
    BY <2>1
  <2>8. e.id \notin heard
    <3>1. ASSUME NEW k \in 1 .. n PROVE news[k].id # news[n + 1].id
      <4>1. k \in DOMAIN news /\ n + 1 \in DOMAIN news /\ k # n + 1
        BY <2>1
      <4>. QED BY <4>1 DEF IsList, Twinless
    <3>. QED BY <3>1
  <2>9. Of(e.id) = e
    <3>. DEFINE k == CHOOSE k \in DOMAIN news : news[k].id = e.id
    <3>1. k \in DOMAIN news /\ news[k].id = e.id
      BY <2>1
    <3>2. k = n + 1
      BY <2>1, <3>1 DEF IsList, Twinless
    <3>. QED BY <3>2
  <2>. HIDE DEF heard, more, Of
  <2>10. TableOf(l) = [x \in DOMAIN T \cup heard |->
                          IF x \in heard THEN Updated(raw, T, Of(x)) ELSE T[x]]
    BY <2>3 DEF TableAfter, heard, Of
  <2>11. TableAfter(raw, T, news, n + 1)
            = [x \in DOMAIN T \cup more |-> IF x \in more THEN Updated(raw, T, Of(x)) ELSE T[x]]
    BY DEF TableAfter, more, Of
  <2>12. IdsIn(l) = DOMAIN T \cup heard
    BY <2>6, <2>10
  <2>13. Updated(raw, TableOf(l), e) = Updated(raw, T, e)
    <3>1. e.id \in DOMAIN TableOf(l) <=> e.id \in DOMAIN T
      BY <2>8, <2>6, <2>12
    <3>2. e.id \in DOMAIN T => TableOf(l)[e.id] = T[e.id]
      BY <2>8, <2>10
    <3>. QED BY <3>1, <3>2 DEF Updated
  <2>14. ASSUME NEW x \in DOMAIN T \cup more
         PROVE  TableOf(r)[x] = IF x \in more THEN Updated(raw, T, Of(x)) ELSE T[x]
    <3>1. x \in IdsIn(l) \cup {e.id}
      BY <2>7, <2>12
    <3>2. CASE x = e.id
      BY <2>5, <2>7, <2>9, <2>13, <3>1, <3>2
    <3>3. CASE x # e.id
      <4>1. TableOf(r)[x] = TableOf(l)[x] /\ x \in DOMAIN T \cup heard
        BY <2>5, <2>12, <3>1, <3>3
      <4>2. TableOf(l)[x] = IF x \in heard THEN Updated(raw, T, Of(x)) ELSE T[x]
        BY <2>10, <4>1
      <4>. QED BY <2>7, <3>3, <4>1, <4>2
    <3>. QED BY <3>2, <3>3
  <2>15. IdsIn(l) \cup {e.id} = DOMAIN T \cup more
    BY <2>7, <2>12
  <2>16. TableOf(r) = TableAfter(raw, T, news, n + 1)
    <3>1. TableOf(r) = [x \in DOMAIN T \cup more |-> TableOf(r)[x]]
      BY <2>6, <2>15
    <3>2. [x \in DOMAIN T \cup more |-> TableOf(r)[x]]
            = [x \in DOMAIN T \cup more |-> IF x \in more THEN Updated(raw, T, Of(x)) ELSE T[x]]
      BY <2>14
    <3>. QED BY <2>11, <3>1, <3>2
  <2>. QED BY <2>1, <2>5, <2>16
<1>3. N \in Good
  <2>1. \A n \in 0 .. N - 1 : n \in Good => n + 1 \in Good
    BY <1>2
  <2>. HIDE DEF Good
  <2>2. \A n \in 0 .. N : n \in Good
    BY <1>1, <2>1, InductionUpTo
  <2>3. N \in 0 .. N
    OBVIOUS
  <2>. QED BY <2>2, <2>3
<1>. QED BY <1>3

(* Learnt one after the other, the news is merged as Membership merges it.    *)
LEMMA LearningMerges ==
    ASSUME NEW list, IsList(list), NEW news, IsList(news)
    PROVE  /\ TableAfter(FALSE, TableOf(list), news, Len(news))
                  = M!Merge(TableOf(list), Beats(news))
           /\ TableAfter(TRUE, TableOf(list), news, Len(news))
                  = M!MergeRaw(TableOf(list), Beats(news), Stamps(news))
<1>. DEFINE Of(x) == news[CHOOSE k \in DOMAIN news : news[k].id = x]
            K == IdsIn(news)
<1>. PICK T : T = TableOf(list)
  OBVIOUS
<1>1. {news[k].id : k \in 1 .. Len(news)} = K
  BY DEF IsList, IdsIn
<1>2. ASSUME NEW x \in K
      PROVE  /\ Of(x).id = x /\ Beats(news)[x] = Of(x).hb /\ Stamps(news)[x] = Of(x).ts
  <2>. DEFINE k == CHOOSE k \in DOMAIN news : news[k].id = x
  <2>1. k \in DOMAIN news /\ news[k].id = x
    BY DEF IdsIn
  <2>2. TableOf(news)[x] = Told(news[k]) /\ x \in DOMAIN TableOf(news)
    BY <2>1, TableTells DEF IsList
  <2>. QED BY <2>1, <2>2 DEF Told, Beats, Stamps
<1>3. DOMAIN Beats(news) = K /\ DOMAIN Stamps(news) = K
  BY TableTells DEF IsList, Beats, Stamps
<1>. HIDE DEF K
<1>. HIDE DEF Of
<1>4. ASSUME NEW raw \in BOOLEAN
      PROVE  TableAfter(raw, T, news, Len(news))
                = [x \in DOMAIN T \cup K |-> IF x \in K THEN Updated(raw, T, Of(x)) ELSE T[x]]
  BY <1>1 DEF TableAfter, Of
<1>5. ASSUME NEW x \in K
      PROVE  /\ Updated(FALSE, T, Of(x)) = IF x \in DOMAIN T => Beats(news)[x] > T[x].hb
                                           THEN [hb |-> Beats(news)[x], ts |-> currtime] ELSE T[x]
             /\ Updated(TRUE, T, Of(x)) = IF x \notin DOMAIN T
                                          THEN [hb |-> Beats(news)[x], ts |-> Stamps(news)[x]]
                                          ELSE Updated(FALSE, T, Of(x))
  BY <1>2 DEF Updated, Stamped, Told, Entry
<1>6. M!Merge(T, Beats(news)) = [x \in DOMAIN T \cup K |->
          IF x \in K THEN Updated(FALSE, T, Of(x)) ELSE T[x]]
  BY <1>3, <1>5 DEF M!Merge
<1>7. M!MergeRaw(T, Beats(news), Stamps(news)) = [x \in DOMAIN T \cup K |->
          IF x \in K THEN Updated(TRUE, T, Of(x)) ELSE T[x]]
  <2>1. ASSUME NEW x \in DOMAIN T \cup K
        PROVE  (IF x \notin DOMAIN T THEN [hb |-> Beats(news)[x], ts |-> Stamps(news)[x]]
                ELSE M!Merge(T, Beats(news))[x])
                   = IF x \in K THEN Updated(TRUE, T, Of(x)) ELSE T[x]
    BY <1>5, <1>6
  <2>. QED BY <1>3, <2>1 DEF M!MergeRaw
<1>. QED BY <1>4, <1>6, <1>7

(* What the model admits as the news of a message.                            *)
LEMMA NewsIs ==
    ASSUME heartbeat \in Nat, NEW S, S \subseteq Nat, NEW news \in News(S)
    PROVE  IsList(news) /\ \A n \in DOMAIN news : news[n].id = me => news[n].hb <= heartbeat
<1>1. news \in SeqOf([id : Group, hb : 0 .. MaxBeat, ts : S], MaxNews)
  BY DEF News
<1>2. PICK k \in 0 .. MaxNews : news \in [1 .. k -> [id : Group, hb : 0 .. MaxBeat, ts : S]]
  BY <1>1 DEF SeqOf
<1>3. [id : Group, hb : 0 .. MaxBeat, ts : S] \subseteq EntrySet
  <2>1. 0 .. MaxBeat \subseteq Nat
    OBVIOUS
  <2>. QED BY <2>1 DEF EntrySet
<1>4. news \in Seq(EntrySet)
  BY <1>2, <1>3, TableAssumption
<1>. QED BY <1>4 DEF News, IsList, Twinless

-------------------------------------------------------------------------------
(* Erasing.                                                                   *)

EntriesIn(list) == {list[n] : n \in DOMAIN list}

(* What is left of the first n entries: the node's own and those not stale.   *)
Left(list, n) == {list[k] : k \in {k \in 1 .. n : k = 1 \/ ~Stale(list[k])}}

Visited(kept, e) == IF Len(kept) + 1 # myPos /\ Stale(e) THEN kept ELSE Append(kept, e)
IsErasing(list, f) ==
    f = [n \in 0 .. Len(list) |-> IF n = 0 THEN <<>> ELSE Visited(f[n - 1], list[n])]

LEMMA ErasingExists ==
    ASSUME NEW list \in Seq(EntrySet)
    PROVE  \E f : IsErasing(list, f)
<1>. PICK N \in Nat : N = Len(list) /\ \A n \in 1 .. N : list[n] \in EntrySet
  OBVIOUS
<1>. DEFINE V == Seq(EntrySet)
            G == [p \in (1 .. N) \X V |-> Visited(p[2], list[p[1]])]
<1>1. ASSUME NEW n \in 1 .. N, NEW l \in V PROVE Visited(l, list[n]) \in V
  BY DEF Visited
<1>2. <<>> \in V
  OBVIOUS
<1>. HIDE DEF V
<1>3. G \in [(1 .. N) \X V -> V]
  BY <1>1
<1>4. PICK f \in [0 .. N -> V] : IsRecursion(f, <<>>, G, N)
  <2>. HIDE DEF G
  <2>. QED BY <1>2, <1>3, RecursionExists
<1>5. f[0] = <<>> /\ \A n \in 1 .. N : f[n] = G[<<n, f[n - 1]>>]
  BY <1>4 DEF IsRecursion
<1>6. ASSUME NEW n \in 1 .. N PROVE f[n] = Visited(f[n - 1], list[n])
  <2>1. f[n - 1] \in V
    OBVIOUS
  <2>2. G[<<n, f[n - 1]>>] = Visited(f[n - 1], list[n])
    BY <2>1
  <2>. QED BY <1>5, <2>2
<1>. HIDE DEF G
<1>7. ASSUME NEW n \in 0 .. N
      PROVE  f[n] = IF n = 0 THEN <<>> ELSE Visited(f[n - 1], list[n])
  <2>1. n = 0 \/ n \in 1 .. N
    OBVIOUS
  <2>. QED BY <1>5, <1>6, <2>1
<1>8. f = [n \in 0 .. N |-> f[n]]
  OBVIOUS
<1>9. f = [n \in 0 .. N |-> IF n = 0 THEN <<>> ELSE Visited(f[n - 1], list[n])]
  BY <1>7, <1>8
<1>. QED BY <1>9 DEF IsErasing

(* The vector r is what the loop makes of the first n entries.                *)
IsLeft(list, n, r) ==
    /\ IsList(r) /\ EntriesIn(r) = Left(list, n)
    /\ n = 0 => r = <<>>
    /\ n > 0 => r # <<>> /\ r[1] = list[1]

(* The iterator points to the first entry all the time, which stays.          *)
LEMMA ErasingLeaves ==
    ASSUME myPos = 1, NEW list, IsList(list), list # <<>>
    PROVE  LET r == EraseLoop(list)
           IN  IsList(r) /\ EntriesIn(r) = Left(list, Len(list)) /\ r # <<>> /\ r[1] = list[1]
<1>. PICK N \in Nat : N = Len(list) /\ DOMAIN list = 1 .. N /\ N > 0
  BY DEF IsList
<1>1. \A n \in 1 .. N : list[n] \in EntrySet
  BY DEF IsList
<1>. DEFINE f == CHOOSE f : IsErasing(list, f)
<1>2. IsErasing(list, f)
  BY ErasingExists DEF IsList
<1>3. EraseLoop(list) = f[N]
  BY DEF EraseLoop, IsErasing, Visited
<1>. HIDE DEF f
<1>4. f[0] = <<>> /\ \A n \in 1 .. N : f[n] = Visited(f[n - 1], list[n])
  BY <1>2 DEF IsErasing
<1>. DEFINE Good == {n \in Nat : n <= N => IsLeft(list, n, f[n])}
<1>5. 0 \in Good
  <2>. PICK r : r = f[0]
    OBVIOUS
  <2>1. r = <<>> /\ DOMAIN r = {} /\ r \in Seq(EntrySet)
    BY <1>4
  <2>2. IsList(r) /\ EntriesIn(r) = {}
    BY <2>1 DEF IsList, Twinless, EntriesIn
  <2>3. Left(list, 0) = {}
    BY DEF Left
  <2>4. IsLeft(list, 0, r)
    <3>1. EntriesIn(r) = Left(list, 0)
      BY <2>2, <2>3
    <3>2. 0 > 0 => r # <<>> /\ r[1] = list[1]
      OBVIOUS
    <3>3. 0 = 0 => r = <<>>
      BY <2>1
    <3>. QED BY <2>2, <3>1, <3>2, <3>3, Zenon DEF IsLeft
  <2>. QED BY <2>4
<1>6. ASSUME NEW n \in 0 .. N - 1, n \in Good
      PROVE  n + 1 \in Good
  <2>. PICK l : l = f[n]
    OBVIOUS
  <2>. PICK r : r = f[n + 1]
    OBVIOUS
  <2>1. n + 1 \in 1 .. N /\ (n + 1) - 1 = n /\ n \in Nat /\ n <= N
    OBVIOUS
  <2>. PICK e \in EntrySet : e = list[n + 1]
    BY <1>1, <2>1
  <2>2. r = Visited(l, e)
    BY <1>4, <2>1
  <2>3. /\ IsList(l) /\ EntriesIn(l) = Left(list, n)
        /\ n = 0 => l = <<>>
        /\ n > 0 => l # <<>> /\ l[1] = list[1]
    BY <1>6, <2>1 DEF IsLeft
  <2>. PICK L \in Nat : L = Len(l) /\ DOMAIN l = 1 .. L
    BY <2>3 DEF IsList
  <2>4. L = 0 <=> n = 0
    BY <2>3 DEF IsList
  <2>5. CASE n > 0 /\ Stale(e)
    <3>1. r = l
      BY <2>2, <2>4, <2>5 DEF Visited
    <3>2. Left(list, n + 1) = Left(list, n)
      BY <2>1, <2>5 DEF Left
    <3>3. IsLeft(list, n + 1, r)
      BY <2>1, <2>3, <2>5, <3>1, <3>2 DEF IsLeft
    <3>. QED BY <2>1, <3>3
  <2>6. CASE n = 0 \/ ~Stale(e)
    <3>1. r = Append(l, e)
      BY <2>2, <2>4, <2>6 DEF Visited
    <3>2. /\ r \in Seq(EntrySet) /\ DOMAIN r = 1 .. L + 1 /\ r[L + 1] = e
          /\ \A k \in 1 .. L : r[k] = l[k]
      BY <2>3, <3>1 DEF IsList
    <3>3. Left(list, n + 1) = Left(list, n) \cup {e}
      BY <2>1, <2>6 DEF Left
    <3>4. EntriesIn(r) = EntriesIn(l) \cup {e}
      <4>1. DOMAIN l \subseteq DOMAIN r /\ \A k \in DOMAIN l : r[k] = l[k]
        BY <3>2
      <4>2. L + 1 \in DOMAIN r /\ \A k \in DOMAIN r : k \in DOMAIN l \/ k = L + 1
        BY <3>2
      <4>3. \A x : x \in EntriesIn(r) => x \in EntriesIn(l) \cup {e}
        BY <3>2, <4>1, <4>2 DEF EntriesIn
      <4>4. \A x : x \in EntriesIn(l) \cup {e} => x \in EntriesIn(r)
        BY <3>2, <4>1, <4>2 DEF EntriesIn
      <4>. QED BY <4>3, <4>4
    <3>5. \A k \in 1 .. L : l[k].id # e.id
      <4>1. ASSUME NEW k \in 1 .. L PROVE l[k].id # e.id
        <5>1. l[k] \in Left(list, n)
          BY <2>3 DEF EntriesIn
        <5>2. PICK m \in 1 .. n : l[k] = list[m]
          BY <5>1 DEF Left
        <5>3. m \in DOMAIN list /\ n + 1 \in DOMAIN list /\ m # n + 1
          BY <2>1
        <5>. QED BY <5>2, <5>3 DEF IsList, Twinless
      <4>. QED BY <4>1
    <3>6. Twinless(r)
      <4>1. \A m, k \in 1 .. L : l[m].id = l[k].id => m = k
        BY <2>3 DEF IsList, Twinless
      <4>2. ASSUME NEW m \in 1 .. L + 1, NEW k \in 1 .. L + 1, r[m].id = r[k].id
            PROVE  m = k
        <5>1. CASE m \in 1 .. L /\ k \in 1 .. L
          BY <3>2, <4>1, <4>2, <5>1
        <5>2. CASE m \in 1 .. L /\ k = L + 1
          BY <3>2, <3>5, <4>2, <5>2
        <5>3. CASE m = L + 1 /\ k \in 1 .. L
          BY <3>2, <3>5, <4>2, <5>3
        <5>. QED BY <5>1, <5>2, <5>3
      <4>. QED BY <3>2, <4>2 DEF Twinless
    <3>7. r # <<>> /\ r[1] = list[1]
      BY <2>3, <2>4, <3>2
    <3>8. EntriesIn(r) = Left(list, n + 1) /\ IsList(r)
      BY <2>3, <3>2, <3>3, <3>4, <3>6 DEF IsList
    <3>9. IsLeft(list, n + 1, r)
      BY <2>1, <3>7, <3>8 DEF IsLeft
    <3>. QED BY <2>1, <3>9
  <2>. QED BY <2>1, <2>5, <2>6
<1>7. N \in Good
  <2>1. \A n \in 0 .. N - 1 : n \in Good => n + 1 \in Good
    BY <1>6
  <2>. HIDE DEF Good
  <2>2. \A n \in 0 .. N : n \in Good
    BY <1>5, <2>1, InductionUpTo
  <2>3. N \in 0 .. N
    OBVIOUS
  <2>. QED BY <2>2, <2>3
<1>8. IsLeft(list, N, f[N])
  BY <1>7
<1>. QED BY <1>3, <1>8 DEF IsLeft

(* Through myPos the node writes the first entry and no other.                *)
LEMMA BeatenIs ==
    ASSUME TableInv
    PROVE  /\ IsList(Beaten) /\ Beaten # <<>> /\ DOMAIN Beaten = DOMAIN memberList
           /\ Beaten[1] = Entry(me, heartbeat + 1, currtime)
           /\ \A n \in DOMAIN memberList \ {1} : Beaten[n] = memberList[n]
           /\ TableOf(Beaten) = [TableOf(memberList) EXCEPT
                                    ![me] = [hb |-> heartbeat + 1, ts |-> currtime]]
<1>. PICK list : list = memberList
  OBVIOUS
<1>. PICK b : b = Beaten
  OBVIOUS
<1>. PICK own : own = Entry(me, heartbeat + 1, currtime)
  OBVIOUS
<1>0. IsList(list) /\ OwnFirst(list) /\ myPos = 1 /\ heartbeat \in Nat /\ currtime \in Nat
  BY DEF TableInv
<1>. PICK N \in Nat : N = Len(list) /\ DOMAIN list = 1 .. N
  BY <1>0 DEF IsList
<1>1. \A n \in 1 .. N : list[n] \in EntrySet
  BY <1>0 DEF IsList
<1>2. 1 \in 1 .. N /\ list[1].id = me
  BY <1>0 DEF IsList, OwnFirst
<1>3. own \in EntrySet /\ own.id = me /\ Told(own) = [hb |-> heartbeat + 1, ts |-> currtime]
  BY <1>0, TableAssumption DEF Entry, EntrySet, Told
<1>4. [[list[1] EXCEPT !.hb = heartbeat + 1] EXCEPT !.ts = currtime] = own
  <2>. PICK e \in EntrySet : e = list[1]
    BY <1>1, <1>2
  <2>1. e = [id |-> me, hb |-> e.hb, ts |-> e.ts]
    BY <1>2 DEF EntrySet
  <2>2. [e EXCEPT !.hb = heartbeat + 1] = [id |-> me, hb |-> heartbeat + 1, ts |-> e.ts]
    BY <2>1
  <2>. PICK d : d = [id |-> me, hb |-> heartbeat + 1, ts |-> e.ts]
    OBVIOUS
  <2>3. [d EXCEPT !.ts = currtime] = [id |-> me, hb |-> heartbeat + 1, ts |-> currtime]
    OBVIOUS
  <2>. QED BY <2>2, <2>3 DEF Entry
<1>5. b = [list EXCEPT ![1] = own]
  <2>1. b = [[list EXCEPT ![1] = [@ EXCEPT !.hb = heartbeat + 1]]
                EXCEPT ![1] = [@ EXCEPT !.ts = currtime]]
    BY <1>0 DEF Beaten
  <2>. QED BY <1>2, <1>4, <2>1
<1>6. /\ DOMAIN b = 1 .. N /\ b[1] = own /\ \A n \in (1 .. N) \ {1} : b[n] = list[n]
      /\ b \in Seq(EntrySet) /\ b # <<>>
  BY <1>0, <1>2, <1>3, <1>5 DEF IsList
<1>7. \A n \in 1 .. N : b[n].id = list[n].id
  BY <1>2, <1>3, <1>6
<1>8. Twinless(b) /\ IdsIn(b) = IdsIn(list)
  BY <1>0, <1>6, <1>7 DEF IsList, Twinless, IdsIn
<1>9. TableOf(b) = [TableOf(list) EXCEPT ![me] = Told(own)]
  <2>. PICK T : T = TableOf(list)
    OBVIOUS
  <2>1. /\ DOMAIN T = IdsIn(list) /\ \A n \in 1 .. N : T[list[n].id] = Told(list[n])
        /\ T = [x \in IdsIn(list) |-> T[x]]
    BY <1>0, TableTells DEF IsList
  <2>2. /\ \A n \in 1 .. N : TableOf(b)[b[n].id] = Told(b[n])
        /\ TableOf(b) = [x \in IdsIn(list) |-> TableOf(b)[x]]
    BY <1>6, <1>8, TableTells
  <2>3. ASSUME NEW x \in IdsIn(list)
        PROVE  TableOf(b)[x] = IF x = me THEN Told(own) ELSE T[x]
    <3>1. PICK n \in 1 .. N : x = list[n].id
      BY DEF IdsIn
    <3>2. TableOf(b)[x] = Told(b[n])
      BY <1>7, <2>2, <3>1
    <3>3. n = 1 <=> x = me
      BY <1>0, <1>2, <3>1 DEF IsList, Twinless
    <3>. QED BY <1>6, <2>1, <3>1, <3>2, <3>3
  <2>4. [T EXCEPT ![me] = Told(own)] = [x \in IdsIn(list) |-> IF x = me THEN Told(own) ELSE T[x]]
    BY <2>1
  <2>5. TableOf(b) = [x \in IdsIn(list) |-> IF x = me THEN Told(own) ELSE T[x]]
    BY <2>2, <2>3
  <2>. QED BY <2>4, <2>5
<1>. QED BY <1>3, <1>6, <1>8, <1>9 DEF IsList

(* The loop erases all that has expired, and nothing else.                    *)
LEMMA ErasingIs ==
    ASSUME TableInv
    PROVE  LET table == TableOf(memberList)
               own == [table EXCEPT ![me] = [hb |-> heartbeat + 1, ts |-> currtime]]
           IN  TableOf(EraseLoop(Beaten)) = [x \in DOMAIN own \ M!Expired(me, own) |-> own[x]]
<1>. PICK b : b = Beaten
  OBVIOUS
<1>. PICK r : r = EraseLoop(Beaten)
  OBVIOUS
<1>. PICK own : own = TableOf(Beaten)
  OBVIOUS
<1>1. IsList(b) /\ b # <<>> /\ b[1].id = me
  BY BeatenIs DEF Entry
<1>. PICK N \in Nat : N = Len(b) /\ DOMAIN b = 1 .. N /\ N > 0
  BY <1>1 DEF IsList
<1>2. IsList(r) /\ EntriesIn(r) = Left(b, N)
  <2>1. myPos = 1
    BY DEF TableInv
  <2>. QED BY <1>1, <2>1, ErasingLeaves
<1>3. DOMAIN own = IdsIn(b) /\ \A n \in 1 .. N : own[b[n].id] = Told(b[n])
  BY <1>1, TableTells DEF IsList
<1>4. /\ \A n \in DOMAIN r : TableOf(r)[r[n].id] = Told(r[n])
      /\ TableOf(r) = [x \in IdsIn(r) |-> TableOf(r)[x]]
  BY <1>2, TableTells DEF IsList
<1>5. \A n \in 1 .. N : b[n].id = me <=> n = 1
  BY <1>1 DEF IsList, Twinless
<1>6. ASSUME NEW n \in 1 .. N
      PROVE  b[n].id \in M!Expired(me, own) <=> n # 1 /\ Stale(b[n])
  <2>1. b[n].id \in DOMAIN own
    BY <1>3 DEF IdsIn
  <2>2. own[b[n].id].ts = b[n].ts
    <3>1. own[b[n].id] = [hb |-> b[n].hb, ts |-> b[n].ts]
      BY <1>3 DEF Told
    <3>. QED BY <3>1
  <2>. QED BY <1>5, <2>1, <2>2 DEF M!Expired, M!Age, Stale
<1>7. IdsIn(r) = DOMAIN own \ M!Expired(me, own)
  <2>1. IdsIn(r) = {e.id : e \in EntriesIn(r)}
    BY DEF IdsIn, EntriesIn
  <2>2. ASSUME NEW e \in Left(b, N) PROVE e.id \in DOMAIN own \ M!Expired(me, own)
    <3>1. PICK n \in 1 .. N : e = b[n] /\ (n = 1 \/ ~Stale(b[n]))
      BY DEF Left
    <3>. QED BY <1>3, <1>6, <3>1 DEF IdsIn
  <2>3. ASSUME NEW x \in DOMAIN own \ M!Expired(me, own) PROVE \E e \in Left(b, N) : x = e.id
    <3>1. PICK n \in 1 .. N : x = b[n].id
      BY <1>3 DEF IdsIn
    <3>2. b[n] \in Left(b, N)
      BY <1>6, <3>1 DEF Left
    <3>. QED BY <3>1, <3>2
  <2>. QED BY <1>2, <2>1, <2>2, <2>3
<1>8. ASSUME NEW x \in IdsIn(r) PROVE TableOf(r)[x] = own[x]
  <2>1. PICK n \in DOMAIN r : x = r[n].id
    BY DEF IdsIn
  <2>2. r[n] \in Left(b, N)
    BY <1>2 DEF EntriesIn
  <2>3. PICK k \in 1 .. N : r[n] = b[k]
    BY <2>2 DEF Left
  <2>. QED BY <1>3, <1>4, <2>1, <2>3
<1>9. TableOf(r) = [x \in DOMAIN own \ M!Expired(me, own) |-> own[x]]
  BY <1>4, <1>7, <1>8
<1>. QED BY <1>9, BeatenIs

-------------------------------------------------------------------------------
(* The invariant and the theorems.                                            *)

LEMMA LearningKeeps ==
    ASSUME TableInv, NEW raw \in BOOLEAN, NEW S, S \subseteq Nat, NEW news \in News(S)
    PROVE  LET learnt == IF raw THEN AllLearntRaw(memberList, news) ELSE AllLearnt(memberList, news)
           IN  /\ IsList(learnt) /\ OwnFirst(learnt)
               /\ TableOf(learnt) = TableAfter(raw, TableOf(memberList), news, Len(news))
<1>1. /\ IsList(memberList) /\ OwnFirst(memberList)
      /\ currtime \in Nat /\ heartbeat \in Nat
  BY DEF TableInv
<1>2. IsList(news) /\ \A n \in DOMAIN news : news[n].id = me => news[n].hb <= heartbeat
  BY <1>1, NewsIs
<1>3. PICK f : Learning(FALSE, memberList, news, f) /\ AllLearnt(memberList, news) = f[Len(news)]
  BY <1>1, <1>2, AllLearntIs DEF IsList
<1>4. PICK g : Learning(TRUE, memberList, news, g) /\ AllLearntRaw(memberList, news) = g[Len(news)]
  BY <1>1, <1>2, AllLearntIs DEF IsList
<1>5. CASE raw = FALSE
  <2>1. /\ IsList(f[Len(news)]) /\ OwnFirst(f[Len(news)])
        /\ TableOf(f[Len(news)]) = TableAfter(FALSE, TableOf(memberList), news, Len(news))
    BY <1>1, <1>2, <1>3, LearnsOneByOne
  <2>. QED BY <1>3, <1>5, <2>1
<1>6. CASE raw = TRUE
  <2>1. /\ IsList(g[Len(news)]) /\ OwnFirst(g[Len(news)])
        /\ TableOf(g[Len(news)]) = TableAfter(TRUE, TableOf(memberList), news, Len(news))
    BY <1>1, <1>2, <1>4, LearnsOneByOne
  <2>. QED BY <1>4, <1>6, <2>1
<1>. QED BY <1>5, <1>6

LEMMA TableInitially ==
    ASSUME TableInit
    PROVE  TableInv
<1>1. Entry(me, 0, currtime) \in EntrySet /\ currtime \in Nat
  BY TableAssumption DEF TableInit, Entry, EntrySet
<1>2. memberList \in Seq(EntrySet) /\ DOMAIN memberList = {1} /\ memberList[1] = Entry(me, 0, currtime)
  BY <1>1 DEF TableInit
<1>3. Twinless(memberList)
  BY <1>2 DEF Twinless
<1>4. OwnFirst(memberList)
  BY <1>2 DEF OwnFirst, Entry, TableInit
<1>. QED BY <1>1, <1>2, <1>3, <1>4 DEF TableInv, IsList, TableInit

LEMMA TableSteps ==
    ASSUME TableInv, [TableNext]_tableVars
    PROVE  TableInv'
<1>0. /\ IsList(memberList) /\ OwnFirst(memberList) /\ myPos = 1
      /\ currtime \in Nat /\ heartbeat \in Nat
  BY DEF TableInv
<1>1. ASSUME NEW news \in News({currtime}), updateMemberList(news)
      PROVE  TableInv'
  <2>1. {currtime} \subseteq Nat /\ FALSE \in BOOLEAN
    BY <1>0
  <2>2. IsList(AllLearnt(memberList, news)) /\ OwnFirst(AllLearnt(memberList, news))
    BY <2>1, LearningKeeps
  <2>. QED BY <1>0, <1>1, <2>2 DEF updateMemberList, TableInv, IsList, OwnFirst, Twinless
<1>2. ASSUME NEW news \in News({0, currtime}), recvJOINREP(news)
      PROVE  TableInv'
  <2>1. {0, currtime} \subseteq Nat /\ TRUE \in BOOLEAN
    BY <1>0
  <2>2. IsList(AllLearntRaw(memberList, news)) /\ OwnFirst(AllLearntRaw(memberList, news))
    BY <2>1, LearningKeeps
  <2>. QED BY <1>0, <1>2, <2>2 DEF recvJOINREP, TableInv, IsList, OwnFirst, Twinless
<1>3. ASSUME nodeLoopOps
      PROVE  TableInv'
  <2>. PICK r : r = EraseLoop(Beaten)
    OBVIOUS
  <2>1. IsList(r) /\ r # <<>> /\ r[1] = Beaten[1]
    BY <1>0, BeatenIs, ErasingLeaves
  <2>2. r[1].id = me /\ r[1].hb = heartbeat + 1
    BY <2>1, BeatenIs DEF Entry
  <2>3. 1 <= Len(r)
    BY <2>1 DEF IsList
  <2>4. memberList' = r /\ heartbeat' = heartbeat + 1 /\ currtime' = currtime /\ myPos' = 1
    BY <1>0, <1>3, <2>3 DEF nodeLoopOps
  <2>. QED BY <1>0, <2>1, <2>2, <2>4 DEF TableInv, IsList, OwnFirst, Twinless
<1>4. CASE timePasses
  BY <1>0, <1>4 DEF timePasses, TableInv, IsList, OwnFirst, Twinless
<1>5. CASE UNCHANGED tableVars
  BY <1>0, <1>5 DEF tableVars, TableInv, IsList, OwnFirst, Twinless
<1>. QED BY <1>1, <1>2, <1>3, <1>4, <1>5 DEF TableNext

THEOREM TableInvariance == TableSpec => []TableInv
<1>1. TableInit => TableInv
  BY TableInitially
<1>2. TableInv /\ [TableNext]_tableVars => TableInv'
  BY TableSteps
<1>. QED BY <1>1, <1>2, PTL DEF TableSpec

(* Whatever is added, erased and rewritten, myPos, which insertions and       *)
(* removals make invalid and the code rebuilds from an index, points to the   *)
(* node's own entry, and that has the heartbeat the node counts: nobody makes *)
(* a node overwrite the entry of another (nodeLoopOps, MP1Node.cpp).          *)
THEOREM IteratorStaysOwn == TableSpec => []OwnPosition
<1>1. TableInv => OwnPosition
  <2>. SUFFICES ASSUME TableInv PROVE OwnPosition
    OBVIOUS
  <2>1. IsList(memberList) /\ OwnFirst(memberList) /\ myPos = 1
    BY DEF TableInv
  <2>2. 1 \in DOMAIN memberList
    BY <2>1 DEF IsList, OwnFirst
  <2>. QED BY <2>1, <2>2 DEF OwnPosition, OwnFirst
<1>. QED BY <1>1, TableInvariance, PTL

(* The searches of updateMemberList and of the handlers look at every entry   *)
(* before one is added, so that no node ever has two.                         *)
THEOREM EntriesAreUnique == TableSpec => []NoTwins
<1>1. TableInv => NoTwins
  BY DEF TableInv, IsList, Twinless, NoTwins
<1>. QED BY <1>1, TableInvariance, PTL

(* In every state the vector can be in, the loops over it do what Membership  *)
(* says of the table, for messages of any length about any nodes: learning    *)
(* the news one after the other, in any order, merges it all, and the loop    *)
(* that erases while it iterates removes all that has expired and nothing     *)
(* else.                                                                      *)
THEOREM VectorIsTable == TableSpec => []ImplementsTable
<1>1. ASSUME TableInv PROVE ImplementsTable
  <2>0. IsList(memberList) /\ currtime \in Nat /\ heartbeat \in Nat
    BY <1>1 DEF TableInv
  <2>1. ASSUME NEW news \in News({currtime})
        PROVE  TableOf(AllLearnt(memberList, news)) = M!Merge(TableOf(memberList), Beats(news))
    <3>1. {currtime} \subseteq Nat /\ FALSE \in BOOLEAN
      BY <2>0
    <3>2. TableOf(AllLearnt(memberList, news))
              = TableAfter(FALSE, TableOf(memberList), news, Len(news))
      BY <1>1, <3>1, LearningKeeps
    <3>3. IsList(news)
      BY <2>0, <3>1, NewsIs
    <3>. QED BY <2>0, <3>2, <3>3, LearningMerges
  <2>2. ASSUME NEW news \in News({0, currtime})
        PROVE  TableOf(AllLearntRaw(memberList, news))
                   = M!MergeRaw(TableOf(memberList), Beats(news), Stamps(news))
    <3>1. {0, currtime} \subseteq Nat /\ TRUE \in BOOLEAN
      BY <2>0
    <3>2. TableOf(AllLearntRaw(memberList, news))
              = TableAfter(TRUE, TableOf(memberList), news, Len(news))
      BY <1>1, <3>1, LearningKeeps
    <3>3. IsList(news)
      BY <2>0, <3>1, NewsIs
    <3>. QED BY <2>0, <3>2, <3>3, LearningMerges
  <2>. QED BY <1>1, <2>1, <2>2, ErasingIs DEF ImplementsTable
<1>2. TableInv => ImplementsTable
  BY <1>1
<1>. QED BY <1>2, TableInvariance, PTL
===============================================================================
