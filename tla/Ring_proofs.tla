----------------------------- MODULE Ring_proofs ------------------------------
(* Proofs about the vector that the store keeps the ring in, for every group, *)
(* every position of its nodes and of the keys, and every order of the        *)
(* membership list.                                                           *)
EXTENDS Ring, DataLemmas

(* No two nodes share a position.  (The first two that do are 8 and 34; what  *)
(* is proved of the order of the ring is for groups without such a pair.)     *)
DistinctPositions == \A x, y \in Id : Position[x] = Position[y] => x = y

Distinct(list) == \A m, n \in DOMAIN list : list[m] = list[n] => m = n

(* A vector in the order of the positions.                                    *)
IsRing(r) ==
    /\ r \in Seq(Id)
    /\ \A m, n \in DOMAIN r : m < n => Position[r[m]] < Position[r[n]]

(* The inductive invariant: no member is listed twice, a node never loses its *)
(* own entry, and a ring, however old the list it was made from, is in order. *)
RingInv ==
    /\ curMemList \in [Observers -> Seq(Id)] /\ ring \in [Observers -> Seq(Id)]
    /\ \A i \in Observers :
          /\ Distinct(curMemList[i]) /\ i \in ToSet(curMemList[i])
          /\ IsRing(ring[i]) /\ (ring[i] # <<>> => i \in ToSet(ring[i]))

-------------------------------------------------------------------------------
(* Sorting.                                                                   *)

(* An element put into a sequence at k.                                       *)
IsInsertion(S, r, k, x, s) ==
    /\ s \in Seq(S) /\ Len(s) = Len(r) + 1
    /\ \A j \in 1 .. Len(r) + 1 : s[j] = IF j < k THEN r[j] ELSE IF j = k THEN x ELSE r[j - 1]
LEMMA InsertedAt ==
    ASSUME NEW S, NEW r \in Seq(S), NEW x \in S, NEW k \in 1 .. Len(r) + 1
    PROVE  IsInsertion(S, r, k, x, InsertAt(r, k, x))
<1>1. PICK L : L = Len(r)
  OBVIOUS
<1>2. PICK a : a = SubSeq(r, 1, k - 1)
  OBVIOUS
<1>3. PICK b : b = SubSeq(r, k, L)
  OBVIOUS
<1>4. PICK c : c = a \o <<x>>
  OBVIOUS
<1>5. PICK d : d = c \o b
  OBVIOUS
<1>6. L \in Nat /\ k \in 1 .. L + 1
  BY <1>1
<1>7. a \in Seq(S) /\ Len(a) = k - 1 /\ \A j \in 1 .. k - 1 : a[j] = r[j]
  BY <1>1, <1>2, <1>6
<1>8. b \in Seq(S) /\ Len(b) = L - k + 1 /\ \A j \in 1 .. L - k + 1 : b[j] = r[k + j - 1]
  BY <1>1, <1>3, <1>6
<1>9. /\ c \in Seq(S) /\ Len(c) = k
      /\ \A j \in 1 .. k : c[j] = IF j < k THEN a[j] ELSE x
  BY <1>4, <1>6, <1>7
<1>10. /\ d \in Seq(S) /\ Len(d) = Len(c) + Len(b)
       /\ \A j \in 1 .. Len(c) + Len(b) : d[j] = IF j <= Len(c) THEN c[j] ELSE b[j - Len(c)]
  <2>1. b \in Seq(S) /\ c \in Seq(S)
    BY <1>8, <1>9
  <2>2. d \in Seq(S) /\ Len(d) = Len(c) + Len(b)
    BY <1>5, <2>1
  <2>3. \A j \in 1 .. Len(c) + Len(b) : d[j] = IF j <= Len(c) THEN c[j] ELSE b[j - Len(c)]
    BY <1>5, <2>1
  <2>. QED BY <2>2, <2>3
<1>11. /\ d \in Seq(S) /\ Len(d) = L + 1
       /\ \A j \in 1 .. L + 1 : d[j] = IF j <= k THEN c[j] ELSE b[j - k]
  <2>1. Len(c) = k /\ Len(c) + Len(b) = L + 1
    BY <1>6, <1>8, <1>9
  <2>. QED BY <1>10, <2>1
<1>12. ASSUME NEW j \in 1 .. L + 1
       PROVE  d[j] = IF j < k THEN r[j] ELSE IF j = k THEN x ELSE r[j - 1]
  <2>1. CASE j < k
    <3>1. j \in 1 .. k /\ j \in 1 .. k - 1 /\ j <= k
      BY <1>6, <2>1
    <3>. QED BY <1>7, <1>9, <1>11, <2>1, <3>1
  <2>2. CASE j = k
    <3>1. j \in 1 .. k /\ j <= k /\ ~(j < k)
      BY <1>6, <2>2
    <3>. QED BY <1>9, <1>11, <2>2, <3>1
  <2>3. CASE j > k
    <3>1. /\ j - k \in 1 .. L - k + 1 /\ k + (j - k) - 1 = j - 1
          /\ ~(j <= k) /\ ~(j < k) /\ j # k
      BY <1>6, <2>3
    <3>2. d[j] = b[j - k]
      BY <1>11, <3>1
    <3>3. b[j - k] = r[k + (j - k) - 1]
      BY <1>8, <3>1
    <3>. QED BY <3>1, <3>2, <3>3
  <2>. QED BY <1>6, <2>1, <2>2, <2>3
<1>13. InsertAt(r, k, x) = d
  BY <1>1, <1>2, <1>3, <1>4, <1>5 DEF InsertAt
<1>. QED BY <1>1, <1>11, <1>12, <1>13 DEF IsInsertion

(* Where an element goes: behind those that are before it.                    *)
LEMMA Place ==
    ASSUME NEW r, IsRing(r), NEW x \in Id
    PROVE  \E k \in 1 .. Len(r) + 1 :
              /\ Insert(r, x) = InsertAt(r, k, x)
              /\ \A n \in 1 .. k - 1 : Position[r[n]] <= Position[x]
              /\ \A n \in k .. Len(r) : Position[r[n]] > Position[x]
<1>. DEFINE L == Len(r)
            Behind == {n \in 1 .. L + 1 : n <= L => Position[r[n]] > Position[x]}
            before == {n \in DOMAIN r : Position[r[n]] <= Position[x]}
<1>1. /\ r \in Seq(Id) /\ L \in Nat /\ DOMAIN r = 1 .. L
      /\ \A n \in 1 .. L : r[n] \in Id
      /\ \A y \in Id : Position[y] \in Int
  BY PositionAssumption DEF IsRing
<1>2. PICK k \in Behind : \A n \in Behind : k <= n
  <2>1. Behind \in SUBSET Nat /\ L + 1 \in Behind
    BY <1>1
  <2>. HIDE DEF Behind
  <2>. QED BY <2>1, LeastNumber
<1>3. \A n \in 1 .. k - 1 : Position[r[n]] <= Position[x]
  <2>1. ASSUME NEW n \in 1 .. k - 1 PROVE Position[r[n]] <= Position[x]
    <3>1. n \in 1 .. L /\ n \notin Behind
      BY <1>1, <1>2
    <3>. QED BY <1>1, <3>1
  <2>. QED BY <2>1
<1>4. \A n \in k .. L : Position[r[n]] > Position[x]
  <2>1. ASSUME NEW n \in k .. L PROVE Position[r[n]] > Position[x]
    <3>1. k \in 1 .. L /\ n \in 1 .. L /\ Position[r[k]] > Position[x]
      BY <1>1, <1>2
    <3>2. n = k \/ Position[r[k]] < Position[r[n]]
      BY <1>1, <3>1 DEF IsRing
    <3>. QED BY <1>1, <3>1, <3>2
  <2>. QED BY <2>1
<1>5. Cardinality(before) = k - 1
  <2>1. k \in 1 .. L + 1
    OBVIOUS
  <2>2. before = 1 .. k - 1
    <3>1. ASSUME NEW n \in before PROVE n \in 1 .. k - 1
      BY <1>1, <1>4, <2>1
    <3>2. ASSUME NEW n \in 1 .. k - 1 PROVE n \in before
      BY <1>1, <1>3, <2>1
    <3>. QED BY <3>1, <3>2
  <2>3. Cardinality(1 .. k - 1) = k - 1
    BY <1>1, <2>1, FS_Interval
  <2>. QED BY <2>2, <2>3
<1>6. Insert(r, x) = InsertAt(r, k, x)
  <2>1. Insert(r, x) = InsertAt(r, 1 + Cardinality(before), x)
    BY DEF Insert
  <2>2. 1 + (k - 1) = k
    BY <1>1
  <2>. QED BY <1>5, <2>1, <2>2
<1>. QED BY <1>3, <1>4, <1>6

(* A new node in its place leaves the vector in order.                        *)
LEMMA InsertSorts ==
    ASSUME DistinctPositions,
           NEW r, IsRing(r), NEW x \in Id, x \notin ToSet(r)
    PROVE  IsRing(Insert(r, x)) /\ ToSet(Insert(r, x)) = ToSet(r) \cup {x}
<1>. PICK L : L = Len(r)
  OBVIOUS
<1>1. /\ r \in Seq(Id) /\ L \in Nat /\ DOMAIN r = 1 .. L
      /\ \A n \in 1 .. L : r[n] \in Id /\ r[n] # x /\ Position[r[n]] # Position[x]
      /\ \A y \in Id : Position[y] \in Int
  <2>1. r \in Seq(Id) /\ \A y \in Id : Position[y] \in Int
    BY PositionAssumption DEF IsRing
  <2>2. ASSUME NEW n \in 1 .. L
        PROVE  r[n] \in Id /\ r[n] # x /\ Position[r[n]] # Position[x]
    <3>1. n \in DOMAIN r /\ r[n] \in Id
      BY <2>1
    <3>2. r[n] \in ToSet(r)
      BY <3>1 DEF ToSet
    <3>. QED BY <3>1, <3>2 DEF DistinctPositions
  <2>. QED BY <2>1, <2>2
<1>2. PICK k \in 1 .. L + 1 :
          /\ Insert(r, x) = InsertAt(r, k, x)
          /\ \A n \in 1 .. k - 1 : Position[r[n]] <= Position[x]
          /\ \A n \in k .. L : Position[r[n]] > Position[x]
  BY Place
<1>. PICK s : s = Insert(r, x)
  OBVIOUS
<1>3. /\ s \in Seq(Id) /\ Len(s) = L + 1 /\ DOMAIN s = 1 .. L + 1
      /\ \A j \in 1 .. L + 1 : s[j] = IF j < k THEN r[j] ELSE IF j = k THEN x ELSE r[j - 1]
  <2>1. k \in 1 .. Len(r) + 1 /\ r \in Seq(Id)
    BY <1>1
  <2>2. IsInsertion(Id, r, k, x, s)
    BY <1>2, <2>1, InsertedAt
  <2>3. s \in Seq(Id) /\ Len(s) = L + 1
    BY <2>2 DEF IsInsertion
  <2>. QED BY <2>2, <2>3 DEF IsInsertion
<1>4. ASSUME NEW m \in 1 .. L + 1, NEW n \in 1 .. L + 1, m < n
      PROVE  Position[s[m]] < Position[s[n]]
  <2>1. \A i, j \in 1 .. L : i < j => Position[r[i]] < Position[r[j]]
    BY <1>1 DEF IsRing
  <2>2. CASE n < k
    BY <1>1, <1>2, <1>3, <1>4, <2>1, <2>2
  <2>3. CASE n = k
    <3>1. m \in 1 .. L /\ m \in 1 .. k - 1 /\ s[m] = r[m] /\ s[n] = x
      BY <1>1, <1>2, <1>3, <1>4, <2>3
    <3>2. Position[r[m]] <= Position[x] /\ Position[r[m]] # Position[x]
      BY <1>1, <1>2, <3>1
    <3>. QED BY <1>1, <3>1, <3>2
  <2>4. CASE n > k /\ m = k
    <3>1. n - 1 \in k .. L /\ s[n] = r[n - 1] /\ s[m] = x
      BY <1>1, <1>2, <1>3, <1>4, <2>4
    <3>. QED BY <1>1, <1>2, <3>1
  <2>5. CASE n > k /\ m < k
    <3>1. m \in 1 .. L /\ n - 1 \in 1 .. L /\ m < n - 1 /\ s[m] = r[m] /\ s[n] = r[n - 1]
      BY <1>1, <1>2, <1>3, <1>4, <2>5
    <3>. QED BY <2>1, <3>1
  <2>6. CASE m > k
    <3>1. m - 1 \in 1 .. L /\ n - 1 \in 1 .. L /\ m - 1 < n - 1 /\ s[m] = r[m - 1] /\ s[n] = r[n - 1]
      BY <1>1, <1>2, <1>3, <1>4, <2>6
    <3>. QED BY <2>1, <3>1
  <2>. QED BY <1>2, <1>4, <2>2, <2>3, <2>4, <2>5, <2>6
<1>5. ToSet(s) = ToSet(r) \cup {x}
  <2>1. ASSUME NEW y \in ToSet(s) PROVE y \in ToSet(r) \cup {x}
    <3>1. PICK j \in 1 .. L + 1 : y = s[j]
      BY <1>3 DEF ToSet
    <3>2. j < k => j \in 1 .. L
      BY <1>1, <1>2
    <3>3. j > k => j - 1 \in 1 .. L
      BY <1>1, <1>2
    <3>4. y = IF j < k THEN r[j] ELSE IF j = k THEN x ELSE r[j - 1]
      BY <1>3, <3>1
    <3>5. CASE j < k
      BY <1>1, <3>2, <3>4, <3>5 DEF ToSet
    <3>6. CASE j = k
      BY <3>4, <3>6
    <3>7. CASE j > k
      <4>1. y = r[j - 1] /\ j - 1 \in DOMAIN r
        BY <1>1, <3>3, <3>4, <3>7
      <4>. QED BY <4>1 DEF ToSet
    <3>. QED BY <3>5, <3>6, <3>7
  <2>2. ASSUME NEW n \in 1 .. L PROVE r[n] \in ToSet(s)
    <3>1. CASE n < k
      <4>1. n \in 1 .. L + 1 /\ s[n] = r[n]
        BY <1>1, <1>3, <3>1
      <4>. QED BY <1>3, <4>1 DEF ToSet
    <3>2. CASE n >= k
      <4>1. n + 1 \in 1 .. L + 1 /\ s[n + 1] = r[n]
        BY <1>1, <1>2, <1>3, <3>2
      <4>. QED BY <1>3, <4>1 DEF ToSet
    <3>. QED BY <1>2, <3>1, <3>2
  <2>3. x \in ToSet(s)
    BY <1>2, <1>3 DEF ToSet
  <2>. QED BY <1>1, <2>1, <2>2, <2>3 DEF ToSet
<1>6. IsRing(s)
  BY <1>3, <1>4 DEF IsRing
<1>. QED BY <1>5, <1>6

(* The n-th value of sorted in Sorted(list), from those before.               *)
SortStep(list, f, n) == IF n = 0 THEN <<>> ELSE Insert(f[n - 1], list[n])
IsSorting(list, f, n) == f = [k \in 0 .. n |-> SortStep(list, f, k)]

(* There are such values for a list of any length.                            *)
LEMMA SortingExists ==
    ASSUME NEW list, NEW n \in Nat
    PROVE  \E f : IsSorting(list, f, n)
<1>. DEFINE Defined == {m \in Nat : \E f : IsSorting(list, f, m)}
<1>1. 0 \in Defined
  <2>. DEFINE f == [k \in 0 .. 0 |-> <<>>]
  <2>1. \A k \in 0 .. 0 : SortStep(list, f, k) = <<>>
    BY DEF SortStep
  <2>2. f = [k \in 0 .. 0 |-> SortStep(list, f, k)]
    BY <2>1
  <2>. QED BY <2>2 DEF IsSorting
<1>2. ASSUME NEW m \in 0 .. n - 1, m \in Defined
      PROVE  m + 1 \in Defined
  <2>1. PICK g : IsSorting(list, g, m)
    BY <1>2
  <2>. DEFINE h == [k \in 0 .. m + 1 |-> IF k \in 0 .. m THEN g[k] ELSE SortStep(list, g, k)]
  <2>2. ASSUME NEW k \in 0 .. m + 1 PROVE h[k] = SortStep(list, h, k)
    <3>1. k = 0 \/ (k - 1 \in 0 .. m /\ h[k - 1] = g[k - 1])
      OBVIOUS
    <3>2. SortStep(list, g, k) = SortStep(list, h, k)
      BY <3>1 DEF SortStep
    <3>3. k \in 0 .. m => g[k] = SortStep(list, g, k)
      BY <2>1 DEF IsSorting
    <3>. QED BY <3>2, <3>3
  <2>3. IsSorting(list, h, m + 1)
    BY <2>2 DEF IsSorting
  <2>. QED BY <2>3
<1>3. \A m \in 0 .. n : m \in Defined
  <2>1. \A m \in 0 .. n - 1 : m \in Defined => m + 1 \in Defined
    BY <1>2
  <2>. HIDE DEF Defined
  <2>. QED BY <1>1, <2>1, InductionUpTo
<1>. QED BY <1>3

(* The members of a list, sorted, are the same nodes in order.                *)
LEMMA SortedIsRing ==
    ASSUME DistinctPositions, NEW list \in Seq(Id), Distinct(list)
    PROVE  IsRing(Sorted(list)) /\ ToSet(Sorted(list)) = ToSet(list)
<1>. DEFINE L == Len(list)
            sorted == CHOOSE f : IsSorting(list, f, L)
            Good == {n \in 0 .. L : /\ IsRing(sorted[n])
                                    /\ ToSet(sorted[n]) = {list[j] : j \in 1 .. n}}
<1>1. L \in Nat /\ DOMAIN list = 1 .. L /\ \A n \in 1 .. L : list[n] \in Id
  OBVIOUS
<1>2. IsSorting(list, sorted, L)
  <2>1. \E f : IsSorting(list, f, L)
    BY <1>1, SortingExists
  <2>. QED BY <2>1
<1>3. Sorted(list) = sorted[L]
  BY DEF Sorted, IsSorting, SortStep
<1>. HIDE DEF sorted
<1>4. \A n \in 0 .. L : sorted[n] = SortStep(list, sorted, n)
  BY <1>2 DEF IsSorting
<1>5. 0 \in Good
  <2>1. 0 \in 0 .. L
    BY <1>1
  <2>2. sorted[0] = <<>>
    BY <1>4, <2>1 DEF SortStep
  <2>3. IsRing(<<>>) /\ ToSet(<<>>) = {}
    BY DEF IsRing, ToSet
  <2>. QED BY <2>1, <2>2, <2>3
<1>6. ASSUME NEW n \in 0 .. L - 1, n \in Good
      PROVE  n + 1 \in Good
  <2>. PICK r : r = sorted[n]
    OBVIOUS
  <2>. PICK x : x = list[n + 1]
    OBVIOUS
  <2>1. n + 1 \in 0 .. L /\ n + 1 \in 1 .. L /\ (n + 1) - 1 = n /\ n + 1 # 0
    BY <1>1
  <2>2. sorted[n + 1] = Insert(r, x)
    BY <1>4, <2>1 DEF SortStep
  <2>3. IsRing(r) /\ ToSet(r) = {list[j] : j \in 1 .. n}
    BY <1>6
  <2>4. x \in Id /\ x \notin ToSet(r)
    <3>1. ASSUME NEW j \in 1 .. n PROVE list[j] # x
      <4>1. j \in 1 .. L /\ j # n + 1
        BY <1>1
      <4>. QED BY <1>1, <2>1, <4>1 DEF Distinct
    <3>. QED BY <1>1, <2>1, <2>3, <3>1
  <2>5. IsRing(Insert(r, x)) /\ ToSet(Insert(r, x)) = ToSet(r) \cup {x}
    BY <2>3, <2>4, InsertSorts
  <2>6. {list[j] : j \in 1 .. n} \cup {x} = {list[j] : j \in 1 .. n + 1}
    OBVIOUS
  <2>. QED BY <2>1, <2>2, <2>3, <2>5, <2>6
<1>7. \A n \in 0 .. L : n \in Good
  <2>1. \A n \in 0 .. L - 1 : n \in Good => n + 1 \in Good
    BY <1>6
  <2>. HIDE DEF Good, L
  <2>. QED BY <1>1, <1>5, <2>1, InductionUpTo
<1>8. IsRing(sorted[L]) /\ ToSet(sorted[L]) = {list[j] : j \in 1 .. L}
  <2>1. L \in 0 .. L
    BY <1>1
  <2>. QED BY <1>7, <2>1
<1>. QED BY <1>1, <1>3, <1>8 DEF ToSet

-------------------------------------------------------------------------------
(* A ring is determined by its members.                                       *)

(* The nodes before the n-th are n - 1.                                       *)
LEMMA NumberBefore ==
    ASSUME NEW r, IsRing(r), NEW n \in 1 .. Len(r) + 1
    PROVE  LET first == {r[m] : m \in 1 .. n - 1}
           IN  IsFiniteSet(first) /\ Cardinality(first) = n - 1
<1>. DEFINE first == {r[m] : m \in 1 .. n - 1}
            f == [m \in 1 .. n - 1 |-> r[m]]
<1>1. /\ r \in Seq(Id) /\ Len(r) \in Nat /\ DOMAIN r = 1 .. Len(r)
      /\ \A m \in 1 .. Len(r) : r[m] \in Id
      /\ \A y \in Id : Position[y] \in Int
  BY PositionAssumption DEF IsRing
<1>2. ASSUME NEW k \in 1 .. n - 1, NEW m \in 1 .. n - 1, r[k] = r[m]
      PROVE  k = m
  <2>1. k \in 1 .. Len(r) /\ m \in 1 .. Len(r)
    BY <1>1
  <2>2. /\ k < m => Position[r[k]] < Position[r[m]]
        /\ m < k => Position[r[m]] < Position[r[k]]
    BY <1>1, <2>1 DEF IsRing
  <2>. QED BY <1>1, <1>2, <2>1, <2>2
<1>3. f \in Bijection(1 .. n - 1, first)
  <2>1. f \in [1 .. n - 1 -> first] /\ \A y \in first : \E m \in 1 .. n - 1 : f[m] = y
    OBVIOUS
  <2>2. \A k, m \in 1 .. n - 1 : f[k] = f[m] => k = m
    BY <1>2
  <2>. HIDE DEF first, f
  <2>. QED BY <2>1, <2>2 DEF Bijection, Injection, IsInjective, Surjection
<1>4. IsFiniteSet(1 .. n - 1) /\ Cardinality(1 .. n - 1) = n - 1
  <2>1. n \in Nat /\ n - 1 \in Int /\ 1 \in Int
    BY <1>1
  <2>. QED BY <2>1, FS_Interval
<1>5. ExistsBijection(1 .. n - 1, first)
  BY <1>3 DEF ExistsBijection
<1>. HIDE DEF first
<1>6. IsFiniteSet(first) /\ Cardinality(first) = n - 1
  BY <1>4, <1>5, FS_Bijection
<1>. QED BY <1>6 DEF first

(* Two rings of the same members are the same.                                *)
LEMMA RingsAreSets ==
    ASSUME NEW r, IsRing(r), NEW s, IsRing(s), ToSet(r) = ToSet(s)
    PROVE  r = s
<1>. DEFINE Low(x) == {y \in ToSet(r) : Position[y] < Position[x]}
<1>1. ASSUME NEW q, IsRing(q), ToSet(q) = ToSet(r)
      PROVE  /\ q \in Seq(Id) /\ Len(q) \in Nat /\ DOMAIN q = 1 .. Len(q)
             /\ Cardinality(ToSet(r)) = Len(q)
             /\ \A n \in 1 .. Len(q) : q[n] \in ToSet(r) /\ Cardinality(Low(q[n])) = n - 1
  <2>1. q \in Seq(Id) /\ Len(q) \in Nat /\ DOMAIN q = 1 .. Len(q)
    BY <1>1 DEF IsRing
  <2>2. /\ ToSet(r) = {q[m] : m \in 1 .. Len(q)}
        /\ \A m \in 1 .. Len(q) : q[m] \in Id /\ Position[q[m]] \in Int
    <3>1. ToSet(q) = {q[m] : m \in 1 .. Len(q)}
      BY <2>1 DEF ToSet
    <3>2. \A m \in 1 .. Len(q) : q[m] \in Id
      BY <2>1
    <3>3. \A y \in Id : Position[y] \in Int
      BY PositionAssumption
    <3>. QED BY <1>1, <3>1, <3>2, <3>3
  <2>3. Cardinality(ToSet(r)) = Len(q)
    <3>1. Len(q) + 1 \in 1 .. Len(q) + 1 /\ (Len(q) + 1) - 1 = Len(q)
      BY <2>1
    <3>. QED BY <1>1, <2>2, <3>1, NumberBefore
  <2>4. ASSUME NEW n \in 1 .. Len(q)
        PROVE  q[n] \in ToSet(r) /\ Cardinality(Low(q[n])) = n - 1
    <3>1. \A m \in 1 .. Len(q) : Position[q[m]] < Position[q[n]] <=> m < n
      <4>1. ASSUME NEW m \in 1 .. Len(q) PROVE Position[q[m]] < Position[q[n]] <=> m < n
        <5>1. /\ m < n => Position[q[m]] < Position[q[n]]
              /\ n < m => Position[q[n]] < Position[q[m]]
          BY <1>1, <2>1 DEF IsRing
        <5>. QED BY <2>1, <2>2, <5>1
      <4>. QED BY <4>1
    <3>2. Low(q[n]) = {q[m] : m \in 1 .. n - 1}
      <4>1. \A m \in 1 .. n - 1 : m \in 1 .. Len(q) /\ m < n
        BY <2>1
      <4>2. \A m \in 1 .. Len(q) : m < n => m \in 1 .. n - 1
        BY <2>1
      <4>. QED BY <2>2, <3>1, <4>1, <4>2
    <3>3. n \in 1 .. Len(q) + 1
      BY <2>1
    <3>4. Cardinality({q[m] : m \in 1 .. n - 1}) = n - 1
      BY <1>1, <3>3, NumberBefore
    <3>. QED BY <2>2, <3>2, <3>4
  <2>. QED BY <2>1, <2>3, <2>4
<1>2. Len(r) = Len(s)
  BY <1>1
<1>3. ASSUME NEW n \in 1 .. Len(r) PROVE r[n] = s[n]
  <2>1. PICK m \in 1 .. Len(r) : r[m] = s[n]
    <3>1. s[n] \in ToSet(r) /\ DOMAIN r = 1 .. Len(r)
      BY <1>1, <1>2
    <3>. QED BY <3>1 DEF ToSet
  <2>2. Cardinality(Low(r[m])) = m - 1 /\ Cardinality(Low(s[n])) = n - 1
    BY <1>1, <1>2
  <2>3. m = n
    BY <1>1, <2>1, <2>2
  <2>. QED BY <2>1, <2>3
<1>. QED BY <1>1, <1>2, <1>3

-------------------------------------------------------------------------------
(* Round the ring.                                                            *)

(* The node e places behind the s-th, round the end of the vector.            *)
Nth(r, s, e) == r[1 + ((s + e - 1) % Len(r))]

(* From pos on, clockwise, the nodes are met in the order of the vector, if   *)
(* one begins with the s-th.                                                  *)
InOrder(r, s, pos) ==
    \A e, f \in 0 .. Len(r) - 1 :
        e < f => Clockwise(pos, Position[Nth(r, s, e)]) < Clockwise(pos, Position[Nth(r, s, f)])

OnRing(pos) == pos \in Int /\ 0 <= pos /\ pos <= 511

(* What the remainders are: an index wraps at most once, a distance too.      *)
LEMMA Wraps ==
    ASSUME NEW n \in Nat \ {0}, NEW k \in 0 .. n - 1
    PROVE  k % n = k /\ (n + k) % n = k
OBVIOUS

LEMMA ClockwiseIs ==
    ASSUME NEW from, NEW to, OnRing(from), OnRing(to)
    PROVE  /\ from <= to => Clockwise(from, to) = to - from
           /\ to < from => Clockwise(from, to) = to - from + 512
           /\ Clockwise(from, to) \in Int
<1>1. ASSUME NEW k \in -511 .. 511 PROVE k % 512 = IF k >= 0 THEN k ELSE k + 512
  OBVIOUS
<1>2. from \in Int /\ to \in Int /\ to - from \in -511 .. 511
  BY DEF OnRing
<1>3. Clockwise(from, to) = IF to - from >= 0 THEN to - from ELSE (to - from) + 512
  BY <1>1, <1>2 DEF Clockwise, RING_SIZE
<1>. QED BY <1>2, <1>3

(* From pos, what is at it or behind it is met in the order of the positions, *)
(* and before what is in front of it, which is met in that order, too.        *)
LEMMA NearerAndFarther ==
    ASSUME NEW pos, NEW p, NEW q, OnRing(pos), OnRing(p), OnRing(q)
    PROVE  /\ p < q /\ (q < pos \/ pos <= p) => Clockwise(pos, p) < Clockwise(pos, q)
           /\ q < pos /\ pos <= p => Clockwise(pos, p) < Clockwise(pos, q)
<1>1. /\ pos <= p => Clockwise(pos, p) = p - pos
      /\ p < pos => Clockwise(pos, p) = p - pos + 512
  BY ClockwiseIs
<1>2. /\ pos <= q => Clockwise(pos, q) = q - pos
      /\ q < pos => Clockwise(pos, q) = q - pos + 512
  BY ClockwiseIs
<1>. QED BY <1>1, <1>2 DEF OnRing

(* The positions of a ring.                                                   *)
LEMMA RingPositions ==
    ASSUME NEW r, IsRing(r)
    PROVE  /\ Len(r) \in Nat /\ DOMAIN r = 1 .. Len(r)
           /\ \A n \in 1 .. Len(r) : r[n] \in Id /\ OnRing(Position[r[n]])
           /\ \A m, n \in 1 .. Len(r) : m < n => Position[r[m]] < Position[r[n]]
<1>1. r \in Seq(Id) /\ \A m, n \in DOMAIN r : m < n => Position[r[m]] < Position[r[n]]
  BY DEF IsRing
<1>2. \A y \in Id : OnRing(Position[y])
  <2>1. Position \in [Id -> 0 .. 511]
    <3>1. RING_SIZE - 1 = 511
      BY DEF RING_SIZE
    <3>. QED BY <3>1, PositionAssumption
  <2>2. ASSUME NEW y \in Id PROVE OnRing(Position[y])
    <3>1. PICK p \in 0 .. 511 : p = Position[y]
      BY <2>1
    <3>. QED BY <3>1 DEF OnRing
  <2>. QED BY <2>2
<1>3. Len(r) \in Nat /\ DOMAIN r = 1 .. Len(r)
  BY <1>1
<1>4. \A n \in 1 .. Len(r) : r[n] \in Id
  BY <1>1
<1>. QED BY <1>1, <1>2, <1>3, <1>4

(* Which element the e-th behind the s-th is.                                 *)
LEMMA NthIs ==
    ASSUME NEW r, IsRing(r), NEW s \in 1 .. Len(r), NEW e \in 0 .. Len(r) - 1
    PROVE  /\ s + e <= Len(r) => s + e \in 1 .. Len(r) /\ Nth(r, s, e) = r[s + e]
           /\ s + e > Len(r) => /\ s + e - Len(r) \in 1 .. s - 1
                                /\ Nth(r, s, e) = r[s + e - Len(r)]
<1>. PICK L : L = Len(r)
  OBVIOUS
<1>1. L \in Nat \ {0} /\ s \in 1 .. L /\ e \in 0 .. L - 1
  BY DEF IsRing
<1>2. CASE s + e <= L
  <2>1. s + e - 1 \in 0 .. L - 1 /\ s + e \in 1 .. L /\ 1 + (s + e - 1) = s + e
    BY <1>1, <1>2
  <2>2. (s + e - 1) % L = s + e - 1
    BY <1>1, <2>1, Wraps
  <2>. QED BY <1>1, <1>2, <2>1, <2>2 DEF Nth
<1>3. CASE s + e > L
  <2>. PICK k : k = s + e - 1 - L
    OBVIOUS
  <2>1. k \in 0 .. L - 1 /\ s + e - 1 = L + k /\ 1 + k = s + e - L /\ s + e - L \in 1 .. s - 1
    BY <1>1, <1>3
  <2>2. (L + k) % L = k
    BY <1>1, <2>1, Wraps
  <2>. QED BY <1>1, <1>3, <2>1, <2>2 DEF Nth
<1>. QED BY <1>1, <1>2, <1>3

(* Every member is somewhere behind the s-th.                                 *)
LEMMA EveryoneIsBehind ==
    ASSUME NEW r, IsRing(r), NEW s \in 1 .. Len(r)
    PROVE  ToSet(r) = {Nth(r, s, e) : e \in 0 .. Len(r) - 1}
<1>. PICK L : L = Len(r)
  OBVIOUS
<1>1. L \in Nat /\ DOMAIN r = 1 .. L /\ s \in 1 .. L
  BY DEF IsRing
<1>2. ASSUME NEW e \in 0 .. L - 1 PROVE Nth(r, s, e) \in ToSet(r)
  <2>1. CASE s + e <= L
    <3>1. s + e \in 1 .. L
      BY <1>1, <2>1
    <3>2. Nth(r, s, e) = r[s + e]
      BY <2>1, NthIs
    <3>. QED BY <1>1, <3>1, <3>2 DEF ToSet
  <2>2. CASE s + e > L
    <3>1. s + e - L \in 1 .. L
      BY <1>1, <2>2
    <3>2. Nth(r, s, e) = r[s + e - L]
      BY <2>2, NthIs
    <3>. QED BY <1>1, <3>1, <3>2 DEF ToSet
  <2>. QED BY <1>1, <2>1, <2>2
<1>3. ASSUME NEW n \in 1 .. L PROVE \E e \in 0 .. L - 1 : r[n] = Nth(r, s, e)
  <2>1. CASE n >= s
    <3>1. n - s \in 0 .. L - 1 /\ s + (n - s) = n /\ s + (n - s) <= L
      BY <1>1, <2>1
    <3>2. Nth(r, s, n - s) = r[s + (n - s)]
      BY <3>1, NthIs
    <3>. QED BY <3>1, <3>2
  <2>2. CASE n < s
    <3>1. n + L - s \in 0 .. L - 1 /\ s + (n + L - s) > L /\ s + (n + L - s) - L = n
      BY <1>1, <2>2
    <3>2. Nth(r, s, n + L - s) = r[s + (n + L - s) - L]
      BY <3>1, NthIs
    <3>. QED BY <3>1, <3>2
  <2>. QED BY <1>1, <2>1, <2>2
<1>. QED BY <1>1, <1>2, <1>3 DEF ToSet

(* If the s-th is the first at or behind pos -- or all are before pos, and it *)
(* is the first of the vector -- the nodes are met from the s-th on.          *)
LEMMA FromTheFirst ==
    ASSUME NEW r, IsRing(r), NEW s \in 1 .. Len(r), NEW pos, OnRing(pos),
           \/ /\ \A n \in 1 .. s - 1 : Position[r[n]] < pos
              /\ \A n \in s .. Len(r) : pos <= Position[r[n]]
           \/ s = 1 /\ \A n \in 1 .. Len(r) : Position[r[n]] < pos
    PROVE  InOrder(r, s, pos)
<1>. PICK L : L = Len(r)
  OBVIOUS
<1>1. /\ L \in Nat /\ s \in 1 .. L
      /\ \A n : n \in 1 .. L => OnRing(Position[r[n]])
      /\ \A m, n : m \in 1 .. L /\ n \in 1 .. L /\ m < n => Position[r[m]] < Position[r[n]]
  BY RingPositions
<1>2. ASSUME NEW e \in 0 .. L - 1, NEW f \in 0 .. L - 1, e < f
      PROVE  Clockwise(pos, Position[Nth(r, s, e)]) < Clockwise(pos, Position[Nth(r, s, f)])
  <2>1. CASE s + f <= L
    <3>1. PICK m, n : m = s + e /\ n = s + f
      OBVIOUS
    <3>2. m \in 1 .. L /\ n \in 1 .. L /\ m < n /\ m \in s .. L /\ s + e <= L
      BY <1>1, <1>2, <2>1, <3>1
    <3>3. Nth(r, s, e) = r[m] /\ Nth(r, s, f) = r[n]
      BY <2>1, <3>1, <3>2, NthIs
    <3>4. OnRing(Position[r[m]]) /\ OnRing(Position[r[n]])
      BY <1>1, <3>2
    <3>5. Position[r[m]] < Position[r[n]]
      BY <1>1, <3>2
    <3>6. pos <= Position[r[m]] \/ Position[r[n]] < pos
      BY <3>2
    <3>. QED BY <3>3, <3>4, <3>5, <3>6, NearerAndFarther
  <2>2. CASE s + f > L
    <3>1. PICK n : n = s + f - L
      OBVIOUS
    <3>2. n \in 1 .. s - 1 /\ Nth(r, s, f) = r[n]
      BY <2>2, <3>1, NthIs
    <3>3. n \in 1 .. L /\ s # 1
      BY <1>1, <3>2
    <3>4. OnRing(Position[r[n]]) /\ Position[r[n]] < pos
      BY <1>1, <3>2, <3>3
    <3>5. CASE s + e <= L
      <4>1. PICK m : m = s + e
        OBVIOUS
      <4>2. m \in 1 .. L /\ m \in s .. L
        BY <1>1, <3>5, <4>1
      <4>3. Nth(r, s, e) = r[m]
        BY <3>5, <4>1, NthIs
      <4>4. OnRing(Position[r[m]]) /\ pos <= Position[r[m]]
        BY <1>1, <3>3, <4>2
      <4>. QED BY <3>2, <3>4, <4>3, <4>4, NearerAndFarther
    <3>6. CASE s + e > L
      <4>1. PICK m : m = s + e - L
        OBVIOUS
      <4>2. m \in 1 .. s - 1 /\ Nth(r, s, e) = r[m]
        BY <3>6, <4>1, NthIs
      <4>3. m \in 1 .. L /\ m < n
        BY <1>1, <1>2, <3>1, <4>1, <4>2
      <4>4. OnRing(Position[r[m]])
        BY <1>1, <4>3
      <4>5. Position[r[m]] < Position[r[n]]
        BY <1>1, <3>3, <4>3
      <4>. QED BY <3>2, <3>4, <4>2, <4>4, <4>5, NearerAndFarther
    <3>. QED BY <1>1, <3>5, <3>6
  <2>. QED BY <1>1, <2>1, <2>2
<1>. QED BY <1>2 DEF InOrder

(* Those met before the e-th are the ones from the first to the one before.   *)
LEMMA MetBefore ==
    ASSUME NEW r, IsRing(r), NEW s \in 1 .. Len(r),
           NEW pos, OnRing(pos), InOrder(r, s, pos), NEW e \in 0 .. Len(r) - 1
    PROVE  /\ Before(ToSet(r), pos, Nth(r, s, e)) = {Nth(r, s, f) : f \in 0 .. e - 1}
           /\ \A f \in 0 .. Len(r) - 1 : f # e => Nth(r, s, f) # Nth(r, s, e)
<1>. PICK L : L = Len(r)
  OBVIOUS
<1>. DEFINE far(f) == Clockwise(pos, Position[Nth(r, s, f)])
<1>1. L \in Nat /\ ToSet(r) = {Nth(r, s, f) : f \in 0 .. L - 1}
  BY EveryoneIsBehind DEF IsRing
<1>2. \A f \in 0 .. L - 1 : far(f) \in Int
  <2>1. ASSUME NEW f \in 0 .. L - 1 PROVE far(f) \in Int
    <3>1. OnRing(Position[Nth(r, s, f)])
      <4>1. Nth(r, s, f) \in ToSet(r)
        BY <1>1, <2>1
      <4>. QED BY <4>1, RingPositions DEF ToSet
    <3>. QED BY <3>1, ClockwiseIs
  <2>. QED BY <2>1
<1>3. \A f, g \in 0 .. L - 1 : f < g => far(f) < far(g)
  BY DEF InOrder
<1>. HIDE DEF far
<1>4. ASSUME NEW f \in 0 .. L - 1 PROVE far(f) < far(e) <=> f < e
  BY <1>1, <1>2, <1>3
<1>5. ASSUME NEW f \in 0 .. L - 1, f # e PROVE far(f) # far(e)
  <2>1. far(f) < far(e) \/ far(e) < far(f)
    BY <1>1, <1>3, <1>5
  <2>2. far(f) \in Int /\ far(e) \in Int
    BY <1>2
  <2>. QED BY <2>1, <2>2
<1>6. Before(ToSet(r), pos, Nth(r, s, e)) = {Nth(r, s, f) : f \in 0 .. e - 1}
  <2>1. \A f \in 0 .. e - 1 : f \in 0 .. L - 1 /\ f < e
    BY <1>1
  <2>2. \A f \in 0 .. L - 1 : f < e => f \in 0 .. e - 1
    BY <1>1
  <2>. QED BY <1>1, <1>4, <2>1, <2>2 DEF Before, far
<1>. QED BY <1>5, <1>6 DEF far

-------------------------------------------------------------------------------
(* What findNodes finds, and the neighbours.                                  *)

(* The wrap-around comparison and the scan of findNodes find the node from    *)
(* which on the others are met.                                               *)
LEMMA FindsFirst ==
    ASSUME NEW r, IsRing(r), Len(r) >= 3, NEW pos, OnRing(pos)
    PROVE  \E s \in 1 .. Len(r) :
              /\ findNodes(r, pos) = Three(r, s) /\ InOrder(r, s, pos)
              /\ \A n : n \in 1 .. Len(r) /\ pos = Position[r[n]] => s = n
<1>. DEFINE L == Len(r)
            from == {n \in 2 .. L : pos <= Position[r[n]]}
<1>1. /\ L \in Nat /\ 1 \in 1 .. L /\ L \in 1 .. L /\ pos \in Int
      /\ \A n : n \in 1 .. L => Position[r[n]] \in Int
      /\ \A m, n : m \in 1 .. L /\ n \in 1 .. L /\ m < n => Position[r[m]] < Position[r[n]]
  <2>1. L \in Nat /\ \A m, n : m \in 1 .. L /\ n \in 1 .. L /\ m < n => Position[r[m]] < Position[r[n]]
    BY RingPositions
  <2>2. \A n : n \in 1 .. L => Position[r[n]] \in Int
    BY RingPositions DEF OnRing
  <2>3. pos \in Int
    BY DEF OnRing
  <2>. QED BY <2>1, <2>2, <2>3
<1>2. Position[r[1]] \in Int /\ Position[r[L]] \in Int /\ pos \in Int
  BY <1>1
<1>3. CASE pos <= Position[r[1]]
  <2>1. findNodes(r, pos) = Three(r, 1)
    BY <1>1, <1>3 DEF findNodes
  <2>2. ASSUME NEW n, n \in 1 .. L
        PROVE  pos <= Position[r[n]] /\ (pos = Position[r[n]] => n = 1)
    <3>1. n = 1 \/ Position[r[1]] < Position[r[n]]
      <4>1. n = 1 \/ 1 < n
        BY <1>1, <2>2
      <4>. QED BY <1>1, <2>2, <4>1
    <3>2. Position[r[n]] \in Int
      BY <1>1, <2>2
    <3>. QED BY <1>2, <1>3, <3>1, <3>2
  <2>3. InOrder(r, 1, pos)
    <3>1. 1 \in 1 .. Len(r)
      BY <1>1
    <3>2. \A n \in 1 .. 1 - 1 : Position[r[n]] < pos
      OBVIOUS
    <3>3. \A n \in 1 .. Len(r) : pos <= Position[r[n]]
      BY <2>2
    <3>. HIDE DEF L, from
    <3>. QED BY <3>1, <3>2, <3>3, FromTheFirst
  <2>. QED BY <1>1, <2>1, <2>2, <2>3
<1>4. CASE pos > Position[r[L]]
  <2>1. findNodes(r, pos) = Three(r, 1)
    BY <1>1, <1>4 DEF findNodes
  <2>2. ASSUME NEW n, n \in 1 .. L
        PROVE  Position[r[n]] < pos /\ pos # Position[r[n]]
    <3>1. n = L \/ Position[r[n]] < Position[r[L]]
      <4>1. n = L \/ n < L
        BY <1>1, <2>2
      <4>. QED BY <1>1, <2>2, <4>1
    <3>2. Position[r[n]] \in Int
      BY <1>1, <2>2
    <3>. QED BY <1>2, <1>4, <3>1, <3>2
  <2>3. InOrder(r, 1, pos)
    BY <1>1, <2>2, FromTheFirst
  <2>. QED BY <1>1, <2>1, <2>2, <2>3
<1>5. CASE ~(pos <= Position[r[1]]) /\ ~(pos > Position[r[L]])
  <2>1. L \in from
    BY <1>1, <1>2, <1>5
  <2>2. PICK s \in from : \A n \in from : s <= n
    <3>1. from \in SUBSET Nat /\ from # {}
      BY <2>1
    <3>. HIDE DEF from
    <3>. QED BY <3>1, LeastNumber
  <2>3. s \in 1 .. L /\ s \in 2 .. L /\ pos <= Position[r[s]]
    BY <1>1
  <2>4. s = CHOOSE n \in from : \A m \in from : n <= m
    <3>1. \A n \in from : (\A m \in from : n <= m) => n = s
      <4>1. from \subseteq Int
        OBVIOUS
      <4>2. ASSUME NEW n \in from, \A m \in from : n <= m PROVE n = s
        <5>1. n <= s /\ s <= n /\ n \in Int /\ s \in Int
          BY <2>2, <4>1, <4>2
        <5>. QED BY <5>1
      <4>. QED BY <4>2
    <3>. HIDE DEF from
    <3>. QED BY <2>2, <3>1
  <2>5. findNodes(r, pos) = Three(r, s)
    BY <1>1, <1>5, <2>4 DEF findNodes
  <2>6. ASSUME NEW n, n \in 1 .. s - 1 PROVE Position[r[n]] < pos
    <3>1. n \in 1 .. L /\ n \notin from
      <4>1. n \in 1 .. L /\ ~(s <= n)
        BY <1>1, <2>3, <2>6
      <4>. QED BY <2>2, <4>1
    <3>2. Position[r[n]] \in Int
      BY <1>1, <3>1
    <3>3. n = 1 \/ n \in 2 .. L
      BY <3>1
    <3>4. n \in 2 .. L => ~(pos <= Position[r[n]])
      BY <3>1
    <3>. QED BY <1>2, <1>5, <3>2, <3>3, <3>4
  <2>7. ASSUME NEW n, n \in s .. L
        PROVE  pos <= Position[r[n]] /\ (pos = Position[r[n]] => n = s)
    <3>1. n \in 1 .. L /\ (n = s \/ s < n)
      BY <2>3, <2>7
    <3>2. n = s \/ Position[r[s]] < Position[r[n]]
      BY <1>1, <2>3, <3>1
    <3>3. Position[r[n]] \in Int /\ Position[r[s]] \in Int
      BY <1>1, <2>3, <3>1
    <3>. QED BY <1>2, <2>3, <3>2, <3>3
  <2>8. InOrder(r, s, pos)
    BY <2>3, <2>6, <2>7, FromTheFirst
  <2>9. ASSUME NEW n, n \in 1 .. L, pos = Position[r[n]] PROVE n = s
    <3>1. n \in 1 .. s - 1 \/ n \in s .. L
      BY <1>1, <2>3, <2>9
    <3>2. n \notin 1 .. s - 1
      <4>1. n \in 1 .. s - 1 => pos < pos
        BY <2>6, <2>9
      <4>. QED BY <1>2, <4>1
    <3>. QED BY <2>7, <2>9, <3>1, <3>2
  <2>. QED BY <2>3, <2>5, <2>8, <2>9
<1>. QED BY <1>3, <1>4, <1>5

(* Three in a row behind the s-th, and who is met before them.                *)
LEMMA ThreeInOrder ==
    ASSUME NEW r, IsRing(r), Len(r) >= 3, NEW s, s \in 1 .. Len(r),
           NEW pos, OnRing(pos), InOrder(r, s, pos)
    PROVE  /\ Len(Three(r, s)) = 3
           /\ \A d \in 1 .. 3 :
                 /\ Three(r, s)[d] = Nth(r, s, d - 1)
                 /\ Cardinality(Before(ToSet(r), pos, Three(r, s)[d])) = d - 1
<1>1. Len(r) \in Nat /\ 0 \in 0 .. Len(r) - 1 /\ 1 \in 0 .. Len(r) - 1 /\ 2 \in 0 .. Len(r) - 1
  BY RingPositions
<1>2. Len(Three(r, s)) = 3
  BY DEF Three
<1>3. ASSUME NEW d \in 1 .. 3 PROVE Three(r, s)[d] = Nth(r, s, d - 1)
  <2>1. s + (d - 1) - 1 = s + d - 2
    BY <1>1
  <2>. QED BY <2>1 DEF Three, Nth
<1>4. ASSUME NEW e \in 0 .. Len(r) - 1
      PROVE  /\ Before(ToSet(r), pos, Nth(r, s, e)) = {Nth(r, s, f) : f \in 0 .. e - 1}
             /\ \A f \in 0 .. Len(r) - 1 : f # e => Nth(r, s, f) # Nth(r, s, e)
  BY MetBefore
<1>5. Cardinality(Before(ToSet(r), pos, Nth(r, s, 0))) = 0
  <2>1. {Nth(r, s, f) : f \in 0 .. 0 - 1} = {}
    OBVIOUS
  <2>. QED BY <1>1, <1>4, <2>1, FS_EmptySet
<1>6. Cardinality(Before(ToSet(r), pos, Nth(r, s, 1))) = 1
  <2>1. {Nth(r, s, f) : f \in 0 .. 1 - 1} = {Nth(r, s, 0)}
    OBVIOUS
  <2>. QED BY <1>1, <1>4, <2>1, FS_Singleton
<1>7. Cardinality(Before(ToSet(r), pos, Nth(r, s, 2))) = 2
  <2>1. {Nth(r, s, f) : f \in 0 .. 2 - 1} = {Nth(r, s, 0), Nth(r, s, 1)}
    OBVIOUS
  <2>2. Nth(r, s, 0) # Nth(r, s, 1)
    BY <1>1, <1>4
  <2>3. Cardinality({Nth(r, s, 0), Nth(r, s, 1)}) = 2
    <3>1. IsFiniteSet({Nth(r, s, 0)}) /\ Cardinality({Nth(r, s, 0)}) = 1
      BY FS_Singleton
    <3>2. Cardinality({Nth(r, s, 0)} \cup {Nth(r, s, 1)}) = Cardinality({Nth(r, s, 0)}) + 1
      BY <2>2, <3>1, FS_AddElement
    <3>3. {Nth(r, s, 0)} \cup {Nth(r, s, 1)} = {Nth(r, s, 0), Nth(r, s, 1)}
      OBVIOUS
    <3>. QED BY <3>1, <3>2, <3>3
  <2>. QED BY <1>1, <1>4, <2>1, <2>3
<1>8. ASSUME NEW d \in 1 .. 3
      PROVE  Cardinality(Before(ToSet(r), pos, Three(r, s)[d])) = d - 1
  <2>1. d = 1 \/ d = 2 \/ d = 3
    OBVIOUS
  <2>2. 1 - 1 = 0 /\ 2 - 1 = 1 /\ 3 - 1 = 2
    OBVIOUS
  <2>. QED BY <1>3, <1>5, <1>6, <1>7, <2>1, <2>2
<1>. QED BY <1>2, <1>3, <1>8

-------------------------------------------------------------------------------
(* The invariant.                                                             *)

(* A list without its n-th entry.                                             *)
LEMMA Removed ==
    ASSUME NEW list \in Seq(Id), Distinct(list), NEW n, n \in DOMAIN list,
           NEW i, i \in ToSet(list), list[n] # i
    PROVE  /\ RemoveAt(list, n) \in Seq(Id) /\ Distinct(RemoveAt(list, n))
           /\ i \in ToSet(RemoveAt(list, n))
<1>1. PICK L : L = Len(list)
  OBVIOUS
<1>2. PICK a : a = SubSeq(list, 1, n - 1)
  OBVIOUS
<1>3. PICK b : b = SubSeq(list, n + 1, L)
  OBVIOUS
<1>4. PICK c : c = a \o b
  OBVIOUS
<1>5. L \in Nat /\ n \in 1 .. L /\ DOMAIN list = 1 .. L
  BY <1>1
<1>6. a \in Seq(Id) /\ Len(a) = n - 1 /\ \A j : j \in 1 .. n - 1 => a[j] = list[j]
  BY <1>1, <1>2, <1>5
<1>7. b \in Seq(Id) /\ Len(b) = L - n /\ \A j : j \in 1 .. L - n => b[j] = list[n + j]
  <2>1. n + 1 \in 1 .. L + 1
    BY <1>5
  <2>. QED BY <1>1, <1>3, <1>5, <2>1
<1>8. c \in Seq(Id) /\ Len(c) = Len(a) + Len(b) /\ DOMAIN c = 1 .. Len(c)
  <2>1. a \in Seq(Id) /\ b \in Seq(Id)
    BY <1>6, <1>7
  <2>. QED BY <1>4, <2>1
<1>9. \A j : j \in 1 .. Len(a) + Len(b) => c[j] = IF j <= Len(a) THEN a[j] ELSE b[j - Len(a)]
  BY <1>4, <1>6, <1>7
<1>10. Len(c) = L - 1
  BY <1>5, <1>6, <1>7, <1>8
<1>11. ASSUME NEW j, j \in 1 .. L - 1
       PROVE  c[j] = list[IF j < n THEN j ELSE j + 1]
  <2>1. CASE j < n
    <3>1. j \in 1 .. n - 1 /\ j <= Len(a) /\ j \in 1 .. Len(a) + Len(b)
      BY <1>5, <1>6, <1>7, <1>11, <2>1
    <3>. QED BY <1>6, <1>9, <2>1, <3>1
  <2>2. CASE ~(j < n)
    <3>1. /\ ~(j <= Len(a)) /\ j \in 1 .. Len(a) + Len(b)
          /\ j - Len(a) \in 1 .. L - n /\ n + (j - Len(a)) = j + 1
      BY <1>5, <1>6, <1>7, <1>11, <2>2
    <3>2. c[j] = b[j - Len(a)] /\ b[j - Len(a)] = list[n + (j - Len(a))]
      BY <1>7, <1>9, <3>1
    <3>. QED BY <2>2, <3>1, <3>2
  <2>. QED BY <2>1, <2>2
<1>12. Distinct(c)
  <2>1. ASSUME NEW j, NEW k, j \in 1 .. L - 1, k \in 1 .. L - 1, c[j] = c[k]
        PROVE  j = k
    <3>1. PICK x, y : x = (IF j < n THEN j ELSE j + 1) /\ y = (IF k < n THEN k ELSE k + 1)
      OBVIOUS
    <3>2. c[j] = list[x] /\ c[k] = list[y]
      BY <1>11, <2>1, <3>1
    <3>3. x \in 1 .. L /\ y \in 1 .. L /\ (x = y => j = k)
      BY <1>5, <2>1, <3>1
    <3>4. x = y
      BY <1>5, <2>1, <3>2, <3>3 DEF Distinct
    <3>. QED BY <3>3, <3>4
  <2>. QED BY <1>8, <1>10, <2>1 DEF Distinct
<1>13. i \in ToSet(c)
  <2>1. PICK m : m \in 1 .. L /\ list[m] = i
    BY <1>5 DEF ToSet
  <2>2. m # n
    BY <2>1
  <2>3. PICK j : j = IF m < n THEN m ELSE m - 1
    OBVIOUS
  <2>4. j \in 1 .. L - 1 /\ m = (IF j < n THEN j ELSE j + 1)
    BY <1>5, <2>1, <2>2, <2>3
  <2>5. c[j] = i
    BY <1>11, <2>1, <2>4
  <2>. QED BY <1>8, <1>10, <2>4, <2>5 DEF ToSet
<1>14. RemoveAt(list, n) = c
  BY <1>1, <1>2, <1>3, <1>4 DEF RemoveAt
<1>. QED BY <1>8, <1>12, <1>13, <1>14

(* A list with a new entry at its end.                                        *)
LEMMA Added ==
    ASSUME NEW list \in Seq(Id), Distinct(list), NEW x \in Id, x \notin ToSet(list)
    PROVE  /\ Append(list, x) \in Seq(Id) /\ Distinct(Append(list, x))
           /\ ToSet(list) \subseteq ToSet(Append(list, x))
<1>1. PICK L : L = Len(list)
  OBVIOUS
<1>2. PICK c : c = Append(list, x)
  OBVIOUS
<1>3. /\ L \in Nat /\ DOMAIN list = 1 .. L /\ c \in Seq(Id) /\ DOMAIN c = 1 .. L + 1
      /\ \A j : j \in 1 .. L => c[j] = list[j]
      /\ c[L + 1] = x
  BY <1>1, <1>2
<1>4. \A j : j \in 1 .. L => list[j] # x
  BY <1>3 DEF ToSet
<1>5. ASSUME NEW j, NEW k, j \in 1 .. L + 1, k \in 1 .. L + 1, c[j] = c[k]
      PROVE  j = k
  <2>1. (j \in 1 .. L \/ j = L + 1) /\ (k \in 1 .. L \/ k = L + 1)
    BY <1>3, <1>5
  <2>. QED BY <1>3, <1>4, <1>5, <2>1 DEF Distinct
<1>6. \A j : j \in 1 .. L => j \in 1 .. L + 1
  BY <1>3
<1>7. ToSet(list) \subseteq ToSet(c)
  BY <1>3, <1>6 DEF ToSet
<1>. QED BY <1>2, <1>3, <1>5, <1>7 DEF Distinct

LEMMA InitInOrder ==
    ASSUME RingInit
    PROVE  RingInv
<1>1. ASSUME NEW i \in Observers
      PROVE  /\ <<i>> \in Seq(Id) /\ Distinct(<<i>>) /\ i \in ToSet(<<i>>)
             /\ <<>> \in Seq(Id) /\ IsRing(<<>>)
  <2>1. i \in Id
    BY PositionAssumption
  <2>2. <<i>> \in Seq(Id) /\ DOMAIN <<i>> = {1} /\ <<i>>[1] = i
    BY <2>1
  <2>. QED BY <2>2 DEF Distinct, ToSet, IsRing
<1>. QED BY <1>1 DEF RingInit, RingInv

LEMMA NextInOrder ==
    ASSUME DistinctPositions, RingInv, [RingNext]_ringVars
    PROVE  RingInv'
<1>1. ASSUME NEW i \in Observers, NEW list, Distinct(list), i \in ToSet(list), list \in Seq(Id),
             curMemList' = [curMemList EXCEPT ![i] = list], UNCHANGED ring
      PROVE  RingInv'
  BY <1>1 DEF RingInv
<1>2. ASSUME NEW i \in Observers, NEW x \in Id, adds(i, x)
      PROVE  RingInv'
  <2>1. /\ curMemList[i] \in Seq(Id) /\ Distinct(curMemList[i])
        /\ i \in ToSet(curMemList[i]) /\ x \notin ToSet(curMemList[i])
    BY <1>2 DEF RingInv, adds
  <2>2. PICK list : list = Append(curMemList[i], x)
    OBVIOUS
  <2>3. list \in Seq(Id) /\ Distinct(list) /\ i \in ToSet(list)
    BY <2>1, <2>2, Added
  <2>4. curMemList' = [curMemList EXCEPT ![i] = list] /\ UNCHANGED ring
    BY <1>2, <2>2 DEF adds
  <2>. QED BY <1>1, <2>3, <2>4
<1>3. ASSUME NEW i \in Observers, NEW n \in DOMAIN curMemList[i], removes(i, n)
      PROVE  RingInv'
  <2>1. /\ curMemList[i] \in Seq(Id) /\ Distinct(curMemList[i])
        /\ i \in ToSet(curMemList[i]) /\ curMemList[i][n] # i
    BY <1>3 DEF RingInv, removes
  <2>2. PICK list : list = RemoveAt(curMemList[i], n)
    OBVIOUS
  <2>3. list \in Seq(Id) /\ Distinct(list) /\ i \in ToSet(list)
    BY <2>1, <2>2, Removed
  <2>4. curMemList' = [curMemList EXCEPT ![i] = list] /\ UNCHANGED ring
    BY <1>3, <2>2 DEF removes
  <2>. QED BY <1>1, <2>3, <2>4
<1>4. ASSUME NEW i \in Observers, updateRing(i)
      PROVE  RingInv'
  <2>1. curMemList[i] \in Seq(Id) /\ Distinct(curMemList[i]) /\ i \in ToSet(curMemList[i])
    BY DEF RingInv
  <2>2. PICK r : r = Sorted(curMemList[i])
    OBVIOUS
  <2>3. IsRing(r) /\ i \in ToSet(r)
    BY <2>1, <2>2, SortedIsRing
  <2>4. r \in Seq(Id)
    BY <2>3 DEF IsRing
  <2>5. ring' = [ring EXCEPT ![i] = r] /\ UNCHANGED curMemList
    BY <1>4, <2>2 DEF updateRing
  <2>. QED BY <2>3, <2>4, <2>5 DEF RingInv
<1>5. ASSUME UNCHANGED ringVars
      PROVE  RingInv'
  BY <1>5 DEF RingInv, ringVars
<1>. QED BY <1>2, <1>3, <1>4, <1>5 DEF RingNext

(* Whatever joins and leaves, and in whatever order the list has them, each   *)
(* node has every member once in its list, itself among them, and its ring is *)
(* in the order of the positions.                                             *)
THEOREM RingsAreInOrder == DistinctPositions => (RingSpec => []RingInv)
<1>. SUFFICES ASSUME DistinctPositions PROVE RingSpec => []RingInv
  OBVIOUS
<1>1. RingInit => RingInv
  BY InitInOrder
<1>2. RingInv /\ [RingNext]_ringVars => RingInv'
  BY NextInOrder
<1>. QED BY <1>1, <1>2, PTL DEF RingSpec

-------------------------------------------------------------------------------
(* The properties.                                                            *)

LEMMA KeysAreOnTheRing ==
    ASSUME NEW pos \in KeyPosition
    PROVE  OnRing(pos)
<1>1. KeyPosition \subseteq 0 .. 511
  <2>1. RING_SIZE - 1 = 511
    BY DEF RING_SIZE
  <2>. QED BY <2>1, PositionAssumption
<1>2. PICK p \in 0 .. 511 : p = pos
  BY <1>1
<1>. QED BY <1>2 DEF OnRing

(* findNodes gives, for every key and on every ring of three or more, the     *)
(* first three nodes clockwise from the key, in that order: its two           *)
(* comparisons with the ends of the vector, its scan and its remainders go    *)
(* round the ring once and stop nowhere else.                                 *)
THEOREM ReplicasAreFirstThree ==
    DistinctPositions => (RingSpec => []FirstThree)
<1>. SUFFICES ASSUME DistinctPositions PROVE RingSpec => []FirstThree
  OBVIOUS
<1>1. ASSUME RingInv PROVE FirstThree
  <2>1. ASSUME NEW i \in Observers, NEW pos \in KeyPosition, Len(ring[i]) >= 3
        PROVE  /\ Len(findNodes(ring[i], pos)) = 3
               /\ \A d \in 1 .. 3 : Cardinality(Before(ToSet(ring[i]), pos, findNodes(ring[i], pos)[d])) = d - 1
    <3>1. IsRing(ring[i]) /\ OnRing(pos)
      BY <1>1, KeysAreOnTheRing DEF RingInv
    <3>2. PICK s \in 1 .. Len(ring[i]) :
            findNodes(ring[i], pos) = Three(ring[i], s) /\ InOrder(ring[i], s, pos)
      BY <2>1, <3>1, FindsFirst
    <3>. QED BY <2>1, <3>1, <3>2, ThreeInOrder
  <2>. QED BY <2>1 DEF FirstThree
<1>2. RingInv => FirstThree
  BY <1>1
<1>. QED BY <1>2, RingsAreInOrder, PTL

(* From a node's own position on, the others are met as they follow it.       *)
LEMMA FromItself ==
    ASSUME NEW r, IsRing(r), NEW s, s \in 1 .. Len(r)
    PROVE  /\ OnRing(Position[r[s]]) /\ InOrder(r, s, Position[r[s]])
           /\ Nth(r, s, 0) = r[s]
<1>1. /\ Len(r) \in Nat
      /\ \A n : n \in 1 .. Len(r) => OnRing(Position[r[n]])
      /\ \A m, n : m \in 1 .. Len(r) /\ n \in 1 .. Len(r) /\ m < n => Position[r[m]] < Position[r[n]]
  BY RingPositions
<1>2. \A n : n \in 1 .. s - 1 => Position[r[n]] < Position[r[s]]
  <2>1. \A n : n \in 1 .. s - 1 => n \in 1 .. Len(r) /\ n < s
    BY <1>1
  <2>. QED BY <1>1, <2>1
<1>3. \A n : n \in s .. Len(r) => Position[r[s]] <= Position[r[n]]
  <2>1. ASSUME NEW n, n \in s .. Len(r) PROVE Position[r[s]] <= Position[r[n]]
    <3>1. n \in 1 .. Len(r) /\ (n = s \/ s < n)
      BY <1>1, <2>1
    <3>2. n = s \/ Position[r[s]] < Position[r[n]]
      BY <1>1, <3>1
    <3>3. Position[r[s]] \in Int /\ Position[r[n]] \in Int
      BY <1>1, <3>1 DEF OnRing
    <3>. QED BY <3>2, <3>3
  <2>. QED BY <2>1
<1>4. InOrder(r, s, Position[r[s]])
  BY <1>1, <1>2, <1>3, FromTheFirst
<1>5. Nth(r, s, 0) = r[s]
  <2>1. 0 \in 0 .. Len(r) - 1 /\ s + 0 = s /\ s + 0 <= Len(r)
    BY <1>1
  <2>. QED BY <2>1, NthIs
<1>. QED BY <1>1, <1>4, <1>5

(* Where a node is in its own ring.                                           *)
LEMMA OwnPlace ==
    ASSUME NEW r, IsRing(r), NEW i \in ToSet(r)
    PROVE  MyPosition(r, i) \in 1 .. Len(r) /\ r[MyPosition(r, i)] = i
<1>1. DOMAIN r = 1 .. Len(r)
  BY DEF IsRing
<1>2. \E n \in DOMAIN r : r[n] = i
  BY DEF ToSet
<1>. QED BY <1>1, <1>2 DEF MyPosition

(* The two neighbours before a node.                                          *)
PrecededBy(r, i, d, before) ==
    /\ before \in ToSet(r) \ {i}
    /\ Cardinality(Before(ToSet(r) \ {before}, Position[before], i)) = d - 1

LEMMA NeighboursBefore ==
    ASSUME NEW r, IsRing(r), Len(r) >= 3, NEW i \in ToSet(r), NEW d \in 1 .. 2
    PROVE  PrecededBy(r, i, d, haveReplicasOf(r, i)[d])
<1>. DEFINE L == Len(r)
            before == haveReplicasOf(r, i)[d]
<1>1. PICK p : p = MyPosition(r, i)
  OBVIOUS
<1>2. L \in Nat /\ DOMAIN r = 1 .. L /\ p \in 1 .. L /\ r[p] = i
  BY <1>1, OwnPlace, RingPositions
<1>3. PICK s : s = IF p - d < 1 THEN L + (p - d) ELSE p - d
  OBVIOUS
<1>4. s \in 1 .. L /\ d \in 0 .. L - 1 /\ (s + d = p \/ s + d = L + p)
  BY <1>2, <1>3
<1>5. before = r[s]
  BY <1>1, <1>2, <1>3, <1>4 DEF haveReplicasOf, Element
<1>6. i = Nth(r, s, d)
  <2>1. s + d <= L \/ s + d > L
    BY <1>2, <1>4
  <2>2. s + d <= L => s + d = p
    BY <1>2, <1>4
  <2>3. s + d > L => s + d - L = p
    BY <1>2, <1>4
  <2>. QED BY <1>2, <1>4, <2>1, <2>2, <2>3, NthIs
<1>7. /\ OnRing(Position[r[s]]) /\ InOrder(r, s, Position[r[s]])
      /\ Nth(r, s, 0) = r[s]
  BY <1>4, FromItself
<1>8. ASSUME NEW e \in 0 .. L - 1
      PROVE  /\ Before(ToSet(r), Position[r[s]], Nth(r, s, e)) = {Nth(r, s, f) : f \in 0 .. e - 1}
             /\ \A f \in 0 .. L - 1 : f # e => Nth(r, s, f) # Nth(r, s, e)
  BY <1>4, <1>7, MetBefore
<1>9. 0 \in 0 .. L - 1 /\ 1 \in 0 .. L - 1 /\ d # 0
  BY <1>2
<1>10. r[s] # i /\ r[s] \in ToSet(r)
  BY <1>2, <1>4, <1>6, <1>7, <1>8, <1>9 DEF ToSet
<1>11. Cardinality(Before(ToSet(r) \ {r[s]}, Position[r[s]], i)) = d - 1
  <2>1. Before(ToSet(r) \ {r[s]}, Position[r[s]], i)
           = {Nth(r, s, f) : f \in 0 .. d - 1} \ {Nth(r, s, 0)}
    <3>1. Before(ToSet(r) \ {r[s]}, Position[r[s]], i)
             = Before(ToSet(r), Position[r[s]], i) \ {r[s]}
      BY DEF Before
    <3>. QED BY <1>4, <1>6, <1>7, <1>8, <3>1
  <2>2. CASE d = 1
    <3>1. {Nth(r, s, f) : f \in 0 .. d - 1} \ {Nth(r, s, 0)} = {}
      BY <2>2
    <3>2. d - 1 = 0
      BY <2>2
    <3>. QED BY <2>1, <3>1, <3>2, FS_EmptySet
  <2>3. CASE d = 2
    <3>1. {Nth(r, s, f) : f \in 0 .. d - 1} = {Nth(r, s, 0), Nth(r, s, 1)}
      BY <2>3
    <3>2. Nth(r, s, 0) # Nth(r, s, 1)
      BY <1>8, <1>9
    <3>3. {Nth(r, s, f) : f \in 0 .. d - 1} \ {Nth(r, s, 0)} = {Nth(r, s, 1)}
      BY <3>1, <3>2
    <3>4. d - 1 = 1
      BY <2>3
    <3>. QED BY <2>1, <3>3, <3>4, FS_Singleton
  <2>. QED BY <2>2, <2>3
<1>. QED BY <1>5, <1>10, <1>11 DEF PrecededBy

(* The two neighbours after it.                                               *)
LEMMA NeighboursAfter ==
    ASSUME NEW r, IsRing(r), Len(r) >= 3, NEW i \in ToSet(r), NEW d \in 1 .. 2
    PROVE  hasMyReplicas(r, i)[d] = IF d = 2 /\ i = r[Len(r)] THEN Beyond
                                    ELSE findNodes(r, Position[i])[d + 1]
<1>. PICK L : L = Len(r)
  OBVIOUS
<1>1. PICK p : p = MyPosition(r, i)
  OBVIOUS
<1>2. L \in Nat /\ L >= 3 /\ DOMAIN r = 1 .. L /\ p \in 1 .. L /\ L \in 1 .. L /\ r[p] = i
  <2>1. L \in Nat /\ L >= 3 /\ DOMAIN r = 1 .. L
    BY RingPositions
  <2>2. p \in 1 .. L /\ r[p] = i
    BY <1>1, OwnPlace
  <2>. QED BY <2>1, <2>2
<1>3. hasMyReplicas(r, i)[d] = IF p + d = L + 1 THEN r[1] ELSE Element(r, p + d)
  BY <1>1 DEF hasMyReplicas
<1>4. findNodes(r, Position[i])[d + 1] = Nth(r, p, d)
  <2>1. OnRing(Position[i])
    BY <1>2, FromItself
  <2>2. PICK s \in 1 .. L : /\ findNodes(r, Position[i]) = Three(r, s)
                            /\ InOrder(r, s, Position[i])
                            /\ \A n : n \in 1 .. L /\ Position[i] = Position[r[n]] => s = n
    BY <2>1, FindsFirst
  <2>3. s = p
    BY <1>2, <2>2
  <2>4. d + 1 \in 1 .. 3 /\ (d + 1) - 1 = d
    OBVIOUS
  <2>5. Three(r, s)[d + 1] = Nth(r, s, (d + 1) - 1)
    BY <2>1, <2>2, <2>4, ThreeInOrder
  <2>. QED BY <2>2, <2>3, <2>4, <2>5
<1>5. i = r[L] <=> p = L
  <2>1. p < L => Position[r[p]] < Position[r[L]]
    BY <1>2, RingPositions
  <2>2. Position[r[p]] \in Int /\ (p < L \/ p = L)
    <3>1. OnRing(Position[r[p]])
      BY <1>2, RingPositions
    <3>2. p < L \/ p = L
      BY <1>2
    <3>. QED BY <3>1, <3>2 DEF OnRing
  <2>3. ASSUME p < L, r[p] = r[L] PROVE FALSE
    <3>1. Position[r[p]] < Position[r[p]]
      BY <2>1, <2>3
    <3>. QED BY <2>2, <3>1
  <2>. QED BY <1>2, <2>2, <2>3
<1>6. d \in 0 .. L - 1 /\ d \in {1, 2}
  BY <1>2
<1>7. CASE p + d <= L
  <2>1. p + d \in 1 .. L /\ p + d # L + 1 /\ p # L
    BY <1>2, <1>6, <1>7
  <2>2. Nth(r, p, d) = r[p + d]
    BY <1>2, <1>6, <1>7, NthIs
  <2>. QED BY <1>2, <1>3, <1>4, <1>5, <2>1, <2>2 DEF Element
<1>8. CASE p + d = L + 1
  <2>1. p + d > L /\ p + d - L = 1 /\ ~(d = 2 /\ p = L)
    BY <1>2, <1>6, <1>8
  <2>2. Nth(r, p, d) = r[1]
    BY <1>2, <1>6, <2>1, NthIs
  <2>. QED BY <1>3, <1>4, <1>5, <1>8, <2>1, <2>2
<1>9. CASE p + d > L + 1
  <2>1. d = 2 /\ p = L /\ p + d # L + 1 /\ p + d \notin 1 .. L
    BY <1>2, <1>6, <1>9
  <2>. QED BY <1>2, <1>3, <1>5, <2>1 DEF Element
<1>. QED BY <1>2, <1>6, <1>7, <1>8, <1>9

(* The iterators of findNeighbors, which wrap at either end of the vector,    *)
(* find the two nodes before and behind a node on every ring of three or      *)
(* more -- except that the second behind the last one is read from beyond the *)
(* vector.                                                                    *)
THEOREM NeighboursAreNext ==
    DistinctPositions => (RingSpec => []Neighbours)
<1>. SUFFICES ASSUME DistinctPositions PROVE RingSpec => []Neighbours
  OBVIOUS
<1>1. ASSUME RingInv PROVE Neighbours
  <2>1. ASSUME NEW i \in Observers, Len(ring[i]) >= 3
        PROVE  IsRing(ring[i]) /\ i \in ToSet(ring[i])
    <3>1. ring[i] # <<>>
      BY <2>1
    <3>. QED BY <1>1, <3>1 DEF RingInv
  <2>2. ASSUME NEW i \in Observers, Len(ring[i]) >= 3, NEW d \in 1 .. 2
        PROVE  LET before == haveReplicasOf(ring[i], i)[d]
                   after == hasMyReplicas(ring[i], i)[d]
               IN  /\ before \in ToSet(ring[i]) \ {i}
                   /\ Cardinality(Before(ToSet(ring[i]) \ {before}, Position[before], i)) = d - 1
                   /\ after = IF d = 2 /\ i = ring[i][Len(ring[i])] THEN Beyond
                              ELSE findNodes(ring[i], Position[i])[d + 1]
    <3>1. PICK r : r = ring[i]
      OBVIOUS
    <3>2. IsRing(r) /\ i \in ToSet(r) /\ Len(r) >= 3
      BY <2>1, <2>2, <3>1
    <3>3. PrecededBy(r, i, d, haveReplicasOf(r, i)[d])
      BY <3>2, NeighboursBefore
    <3>4. hasMyReplicas(r, i)[d] = IF d = 2 /\ i = r[Len(r)] THEN Beyond
                                   ELSE findNodes(r, Position[i])[d + 1]
      BY <3>2, NeighboursAfter
    <3>. QED BY <3>1, <3>3, <3>4 DEF PrecededBy
  <2>. QED BY <2>2 DEF Neighbours
<1>2. RingInv => Neighbours
  BY <1>1
<1>. QED BY <1>2, RingsAreInOrder, PTL

(* A node that sorts a list of the same members in another order has the same *)
(* ring as before, and does not stabilize.                                    *)
THEOREM RingsChangeWithMembers ==
    DistinctPositions => (RingSpec => ChangesWithMembers)
<1>. SUFFICES ASSUME DistinctPositions PROVE RingSpec => ChangesWithMembers
  OBVIOUS
<1>1. ASSUME RingInv, RingInv', NEW i \in Observers, ring'[i] # ring[i]
      PROVE  ToSet(ring'[i]) # ToSet(ring[i])
  BY <1>1, RingsAreSets DEF RingInv
<1>2. RingInv /\ RingInv'
        => [\A i \in Observers : ring'[i] # ring[i] => ToSet(ring'[i]) # ToSet(ring[i])]_ringVars
  BY <1>1
<1>. QED BY <1>2, RingsAreInOrder, PTL DEF ChangesWithMembers
===============================================================================
