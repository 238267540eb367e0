---------------------------- MODULE EmulNet_proofs ----------------------------
(* Proofs about the emulated network, for every set of nodes and payloads and *)
(* every capacity of the buffer.                                              *)
EXTENDS EmulNet, DataLemmas

-------------------------------------------------------------------------------
(* An element more or not.                                                    *)
LEMMA OneMore ==
    ASSUME NEW S, IsFiniteSet(S), NEW T, NEW x, NEW p, IF p THEN T = {x} /\ x \notin S ELSE T = {}
    PROVE  /\ IsFiniteSet(S \cup T)
           /\ Cardinality(S \cup T) = Cardinality(S) + IF p THEN 1 ELSE 0
<1>1. CASE p
  BY <1>1, FS_AddElement
<1>2. CASE ~p
  <2>1. S \cup T = S
    BY <1>2
  <2>2. Cardinality(S) \in Nat
    BY FS_CardinalityType
  <2>. QED BY <1>2, <2>1, <2>2
<1>. QED BY <1>1, <1>2

-------------------------------------------------------------------------------
(* How often something occurs in a sequence.                                  *)

(* It is counted by a number.                                                 *)
LEMMA NumberType ==
    ASSUME NEW S, NEW s \in Seq(S), NEW x
    PROVE  Number(x, s) \in Nat /\ IsFiniteSet({i \in DOMAIN s : s[i] = x})
<1>1. DOMAIN s = 1 .. Len(s) /\ Len(s) \in Nat
  OBVIOUS
<1>2. IsFiniteSet(1 .. Len(s))
  BY <1>1, FS_Interval
<1>3. {i \in DOMAIN s : s[i] = x} \in SUBSET (1 .. Len(s))
  BY <1>1
<1>4. IsFiniteSet({i \in DOMAIN s : s[i] = x})
  BY <1>2, <1>3, FS_Subset
<1>. QED BY <1>4, FS_CardinalityType DEF Number

(* What is not there occurs zero times, and what occurs is there.             *)
LEMMA NumberZero ==
    ASSUME NEW S, NEW s \in Seq(S), NEW x
    PROVE  Number(x, s) > 0 <=> \E i \in DOMAIN s : s[i] = x
<1>. DEFINE at == {i \in DOMAIN s : s[i] = x}
<1>1. Number(x, s) \in Nat /\ IsFiniteSet(at) /\ Number(x, s) = Cardinality(at)
  BY NumberType DEF Number
<1>2. Cardinality(at) = 0 <=> at = {}
  BY <1>1, FS_EmptySet
<1>. QED BY <1>1, <1>2

(* In two sequences together something occurs as often as in both.            *)
LEMMA NumberJoin ==
    ASSUME NEW S, NEW s \in Seq(S), NEW t \in Seq(S), NEW x
    PROVE  Number(x, s \o t) = Number(x, s) + Number(x, t)
<1>. DEFINE m == Len(s)
            n == Len(t)
            A == {i \in DOMAIN s : s[i] = x}
            B == {i \in DOMAIN t : t[i] = x}
            C == {i \in m + 1 .. m + n : (s \o t)[i] = x}
            shift == [i \in B |-> m + i]
<1>1. /\ m \in Nat /\ n \in Nat /\ DOMAIN s = 1 .. m /\ DOMAIN t = 1 .. n
      /\ s \o t \in Seq(S) /\ DOMAIN (s \o t) = 1 .. m + n
      /\ \A i \in 1 .. m : (s \o t)[i] = s[i]
      /\ \A i \in 1 .. n : (s \o t)[m + i] = t[i]
  OBVIOUS
<1>2. IsFiniteSet(A) /\ IsFiniteSet(B)
  BY NumberType
<1>3. {i \in DOMAIN (s \o t) : (s \o t)[i] = x} = A \cup C /\ A \cap C = {}
  BY <1>1
<1>4. shift \in Bijection(B, C)
  <2>1. shift \in [B -> C]
    BY <1>1
  <2>2. \A i, j \in B : shift[i] = shift[j] => i = j
    BY <1>1
  <2>3. ASSUME NEW c \in C PROVE \E i \in B : shift[i] = c
    <3>1. c - m \in 1 .. n /\ m + (c - m) = c
      BY <1>1
    <3>2. c - m \in B
      BY <1>1, <3>1
    <3>. QED BY <3>1, <3>2
  <2>. QED BY <2>1, <2>2, <2>3 DEF Bijection, Injection, IsInjective, Surjection
<1>5. IsFiniteSet(C) /\ Cardinality(C) = Cardinality(B)
  <2>1. ExistsBijection(B, C)
    BY <1>4 DEF ExistsBijection
  <2>. HIDE DEF B, C
  <2>. QED BY <1>2, <2>1, FS_Bijection
<1>. HIDE DEF A, C
<1>6. Cardinality(A \cup C) = Cardinality(A) + Cardinality(C)
  <2>1. Cardinality(A \cup C) = Cardinality(A) + Cardinality(C) - Cardinality(A \cap C)
    BY <1>2, <1>5, FS_Union
  <2>2. Cardinality(A \cap C) = 0
    BY <1>3, FS_EmptySet
  <2>. QED BY <1>2, <1>5, <2>1, <2>2, FS_CardinalityType
<1>. QED BY <1>3, <1>5, <1>6 DEF Number, A

(* Appending adds one occurrence of what is appended.                         *)
LEMMA NumberAppend ==
    ASSUME NEW S, NEW s \in Seq(S), NEW y \in S, NEW x
    PROVE  Number(x, Append(s, y)) = Number(x, s) + IF x = y THEN 1 ELSE 0
<1>1. <<y>> \in Seq(S) /\ Append(s, y) = s \o <<y>>
  OBVIOUS
<1>2. Number(x, <<y>>) = IF x = y THEN 1 ELSE 0
  <2>1. {i \in DOMAIN <<y>> : <<y>>[i] = x} = IF x = y THEN {1} ELSE {}
    OBVIOUS
  <2>. QED BY <2>1, FS_Singleton, FS_EmptySet DEF Number
<1>. QED BY <1>1, <1>2, NumberJoin

(* Popping takes one occurrence of the front.                                 *)
LEMMA NumberTail ==
    ASSUME NEW S, NEW s \in Seq(S), s # <<>>, NEW x
    PROVE  Number(x, Tail(s)) = Number(x, s) - IF x = Head(s) THEN 1 ELSE 0
<1>1. /\ Head(s) \in S /\ Tail(s) \in Seq(S) /\ s = <<Head(s)>> \o Tail(s)
      /\ <<>> \in Seq(S) /\ <<Head(s)>> = Append(<<>>, Head(s)) /\ <<Head(s)>> \in Seq(S)
  OBVIOUS
<1>2. Number(x, <<>>) = 0
  BY FS_EmptySet DEF Number
<1>3. Number(x, <<Head(s)>>) = IF x = Head(s) THEN 1 ELSE 0
  <2>1. Number(x, Append(<<>>, Head(s))) = Number(x, <<>>) + IF x = Head(s) THEN 1 ELSE 0
    BY <1>1, NumberAppend
  <2>. QED BY <1>1, <1>2, <2>1
<1>4. Number(x, s) = Number(x, <<Head(s)>>) + Number(x, Tail(s))
  BY <1>1, NumberJoin
<1>5. Number(x, Tail(s)) \in Nat
  BY <1>1, NumberType
<1>. QED BY <1>3, <1>4, <1>5

(* r is b without its i-th message, and with the last one in the hole.        *)
Swapped(b, i, r) ==
    /\ Len(r) = Len(b) - 1
    /\ \A j \in 1 .. Len(b) - 1 : r[j] = IF j = i THEN b[Len(b)] ELSE b[j]
    /\ \A x : Number(x, r) = Number(x, b) - IF x = b[i] THEN 1 ELSE 0

(* Filling the hole with the last message takes out the one that was there.   *)
LEMMA SwapsOut ==
    ASSUME NEW S, NEW b \in Seq(S), NEW i \in 1 .. Len(b)
    PROVE  SwapOut(b, i) \in Seq(S) /\ Swapped(b, i, SwapOut(b, i))
<1>. PICK L : L = Len(b)
  OBVIOUS
<1>. PICK r : r = SwapOut(b, i)
  OBVIOUS
<1>1. L \in Nat /\ L > 0 /\ i \in 1 .. L /\ DOMAIN b = 1 .. L /\ b[L] \in S
  OBVIOUS
<1>2. /\ r \in Seq(S) /\ Len(r) = L - 1 /\ DOMAIN r = 1 .. L - 1
      /\ \A j \in 1 .. L - 1 : r[j] = IF j = i THEN b[L] ELSE b[j]
  <2>. PICK c : c = [b EXCEPT ![i] = b[L]]
    OBVIOUS
  <2>1. /\ c \in Seq(S) /\ Len(c) = L
        /\ \A j \in 1 .. L - 1 : c[j] = IF j = i THEN b[L] ELSE b[j]
    BY <1>1
  <2>2. r = SubSeq(c, 1, L - 1)
    BY <2>1 DEF SwapOut, Front, Last
  <2>. QED BY <1>1, <2>1, <2>2
<1>3. ASSUME NEW x
      PROVE  Number(x, r) = Number(x, b) - IF x = b[i] THEN 1 ELSE 0
  <2>. DEFINE same == {j \in 1 .. L - 1 : j # i /\ b[j] = x}
  <2>. PICK here : here = IF b[i] = x THEN {i} ELSE {}
    OBVIOUS
  <2>. PICK last : last = IF i # L /\ b[L] = x THEN {L} ELSE {}
    OBVIOUS
  <2>. PICK moved : moved = IF i # L /\ b[L] = x THEN {i} ELSE {}
    OBVIOUS
  <2>1. IsFiniteSet(same) /\ Cardinality(same) \in Nat
    <3>1. L - 1 \in Int /\ 1 \in Int
      BY <1>1
    <3>2. IsFiniteSet(1 .. L - 1)
      BY <3>1, FS_Interval
    <3>3. same \in SUBSET (1 .. L - 1)
      OBVIOUS
    <3>. HIDE DEF same
    <3>. QED BY <3>2, <3>3, FS_Subset, FS_CardinalityType
  <2>2. {j \in DOMAIN r : r[j] = x} = same \cup moved
    BY <1>1, <1>2
  <2>3. {j \in DOMAIN b : b[j] = x} = (same \cup here) \cup last
    BY <1>1
  <2>4. i \notin same /\ (i # L /\ b[L] = x => L \notin same \cup here)
    BY <1>1
  <2>. HIDE DEF same
  <2>5. Cardinality(same \cup moved) = Cardinality(same) + IF i # L /\ b[L] = x THEN 1 ELSE 0
    BY <2>1, <2>4, OneMore
  <2>6. /\ Cardinality(same \cup here) = Cardinality(same) + IF b[i] = x THEN 1 ELSE 0
        /\ IsFiniteSet(same \cup here)
    BY <2>1, <2>4, OneMore
  <2>7. Cardinality((same \cup here) \cup last)
           = Cardinality(same \cup here) + IF i # L /\ b[L] = x THEN 1 ELSE 0
    BY <2>4, <2>6, OneMore
  <2>8. Number(x, r) = Cardinality(same) + IF i # L /\ b[L] = x THEN 1 ELSE 0
    BY <2>2, <2>5 DEF Number
  <2>9. Number(x, b) = (Cardinality(same) + IF b[i] = x THEN 1 ELSE 0)
                       + IF i # L /\ b[L] = x THEN 1 ELSE 0
    BY <2>3, <2>6, <2>7 DEF Number
  <2>. QED BY <2>1, <2>8, <2>9
<1>4. Swapped(b, i, r)
  BY <1>2, <1>3 DEF Swapped
<1>. QED BY <1>2, <1>4

-------------------------------------------------------------------------------
(* The invariant, and the scan.                                               *)

Data == Payload \ Oversized
Msg == [to : Ids, data : Data]

(* Nodes are told apart by their addresses.  (Groups of up to 255 nodes are;  *)
(* of the ids 1, 256 and 512 the last two are not.)                           *)
DistinctAddresses == \A a, b \in Ids : SameAddress(a, b) => a = b

(* The k-th value of scan in ScanFor(a), from those before.                   *)
ScanStep(a, f, k) ==
    IF k = 0 THEN [left |-> buff, taken |-> <<>>]
    ELSE LET s == f[k - 1]
             i == Len(buff) - k + 1
         IN  IF SameAddress(s.left[i].to, a)
             THEN [left |-> SwapOut(s.left, i), taken |-> Append(s.taken, s.left[i].data)]
             ELSE s
IsScan(a, f, n) == f = [k \in 0 .. n |-> ScanStep(a, f, k)]

(* There is a scan of any length.                                             *)
LEMMA ScanExists ==
    ASSUME NEW a, NEW n \in Nat
    PROVE  \E f : IsScan(a, f, n)
<1>. DEFINE Defined == {m \in Nat : \E f : IsScan(a, f, m)}
<1>1. 0 \in Defined
  <2>. DEFINE f == [k \in 0 .. 0 |-> [left |-> buff, taken |-> <<>>]]
  <2>1. \A k \in 0 .. 0 : ScanStep(a, f, k) = [left |-> buff, taken |-> <<>>]
    BY DEF ScanStep
  <2>2. f = [k \in 0 .. 0 |-> ScanStep(a, f, k)]
    BY <2>1
  <2>. QED BY <2>2 DEF IsScan
<1>2. ASSUME NEW m \in 0 .. n - 1, m \in Defined
      PROVE  m + 1 \in Defined
  <2>1. PICK g : IsScan(a, g, m)
    BY <1>2
  <2>. DEFINE h == [k \in 0 .. m + 1 |-> IF k \in 0 .. m THEN g[k] ELSE ScanStep(a, g, k)]
  <2>2. ASSUME NEW k \in 0 .. m + 1 PROVE h[k] = ScanStep(a, h, k)
    <3>1. k = 0 \/ (k - 1 \in 0 .. m /\ h[k - 1] = g[k - 1])
      OBVIOUS
    <3>2. ScanStep(a, g, k) = ScanStep(a, h, k)
      BY <3>1 DEF ScanStep
    <3>3. k \in 0 .. m => g[k] = ScanStep(a, g, k)
      BY <2>1 DEF IsScan
    <3>. QED BY <3>2, <3>3
  <2>3. IsScan(a, h, m + 1)
    BY <2>2 DEF IsScan
  <2>. QED BY <2>3
<1>3. \A m \in 0 .. n : m \in Defined
  <2>1. \A m \in 0 .. n - 1 : m \in Defined => m + 1 \in Defined
    BY <1>2
  <2>. HIDE DEF Defined
  <2>. QED BY <1>1, <2>1, InductionUpTo
<1>. QED BY <1>3

(* When the last k positions have been looked at, nothing behind the next one *)
(* is for a, whatever has been moved there; and when addresses are distinct   *)
(* every message is still there, or has been taken if it is for a.            *)
Scanned(a, s, k) ==
    /\ s.left \in Seq(Msg) /\ s.taken \in Seq(Data)
    /\ Len(s.left) <= Len(buff) /\ Len(s.left) >= Len(buff) - k
    /\ \A j \in Len(buff) - k + 1 .. Len(s.left) : ~SameAddress(s.left[j].to, a)
    /\ DistinctAddresses => \A m \in Msg :
          Number(m, s.left) + (IF m.to = a THEN Number(m.data, s.taken) ELSE 0) = Number(m, buff)

(* One position more.                                                         *)
LEMMA ScansOn ==
    ASSUME TypeOK, NEW a \in Ids, NEW k \in 0 .. Len(buff) - 1, NEW s, Scanned(a, s, k),
           NEW i, i = Len(buff) - (k + 1) + 1, SameAddress(s.left[i].to, a)
    PROVE  Scanned(a, [left |-> SwapOut(s.left, i), taken |-> Append(s.taken, s.left[i].data)], k + 1)
<1>. DEFINE l == SwapOut(s.left, i)
            t == Append(s.taken, s.left[i].data)
<1>. PICK n : n = Len(buff)
  OBVIOUS
<1>1. n \in Nat /\ k \in 0 .. n - 1 /\ i = n - k /\ buff \in Seq(Msg)
  BY DEF TypeOK, Msg, Data
<1>2. /\ s.left \in Seq(Msg) /\ s.taken \in Seq(Data)
      /\ Len(s.left) \in Nat /\ Len(s.left) <= n /\ Len(s.left) >= i
      /\ \A j \in i + 1 .. Len(s.left) : ~SameAddress(s.left[j].to, a)
  BY <1>1 DEF Scanned
<1>3. i \in 1 .. Len(s.left) /\ s.left[i] \in Msg /\ s.left[i].data \in Data
  <2>1. i \in 1 .. Len(s.left)
    BY <1>1, <1>2
  <2>2. s.left[i] \in Msg
    BY <1>2, <2>1
  <2>. QED BY <2>1, <2>2 DEF Msg
<1>4. /\ l \in Seq(Msg) /\ Len(l) = Len(s.left) - 1
      /\ \A j \in 1 .. Len(s.left) - 1 : l[j] = IF j = i THEN s.left[Len(s.left)] ELSE s.left[j]
      /\ \A x : Number(x, l) = Number(x, s.left) - IF x = s.left[i] THEN 1 ELSE 0
  <2>1. l \in Seq(Msg) /\ Swapped(s.left, i, l)
    BY <1>2, <1>3, SwapsOut
  <2>. QED BY <2>1 DEF Swapped
<1>5. t \in Seq(Data)
  BY <1>2, <1>3
<1>6. ASSUME DistinctAddresses, NEW m \in Msg
      PROVE  Number(m, l) + (IF m.to = a THEN Number(m.data, t) ELSE 0) = Number(m, buff)
  <2>1. Number(m, s.left) + (IF m.to = a THEN Number(m.data, s.taken) ELSE 0) = Number(m, buff)
    BY <1>6 DEF Scanned
  <2>2. Number(m.data, t) = Number(m.data, s.taken) + IF m.data = s.left[i].data THEN 1 ELSE 0
    BY <1>2, <1>3, NumberAppend
  <2>3. /\ Number(m, s.left) \in Nat /\ Number(m.data, s.taken) \in Nat
        /\ Number(m, l) = Number(m, s.left) - IF m = s.left[i] THEN 1 ELSE 0
    BY <1>2, <1>4, NumberType
  <2>4. s.left[i].to = a
    BY <1>3, <1>6 DEF DistinctAddresses, Msg
  <2>5. m = s.left[i] <=> m.to = a /\ m.data = s.left[i].data
    BY <1>3, <2>4 DEF Msg
  <2>. HIDE DEF l, t
  <2>6. CASE m.to = a
    BY <2>1, <2>2, <2>3, <2>5, <2>6
  <2>7. CASE m.to # a
    BY <2>1, <2>3, <2>5, <2>7
  <2>. QED BY <2>6, <2>7
<1>. HIDE DEF l, t
<1>7. ASSUME NEW j \in n - (k + 1) + 1 .. Len(l)
      PROVE  ~SameAddress(l[j].to, a)
  <2>1. j \in i .. Len(s.left) - 1 /\ j \in 1 .. Len(s.left) - 1
    BY <1>1, <1>2, <1>3, <1>4
  <2>2. CASE j = i
    <3>1. Len(s.left) \in i + 1 .. Len(s.left)
      BY <1>1, <1>2, <2>1
    <3>. QED BY <1>2, <1>4, <2>1, <2>2, <3>1
  <2>3. CASE j # i
    <3>1. j \in i + 1 .. Len(s.left)
      BY <1>1, <1>2, <2>1, <2>3
    <3>. QED BY <1>2, <1>4, <2>1, <2>3, <3>1
  <2>. QED BY <2>2, <2>3
<1>8. Len(l) <= n /\ Len(l) >= n - (k + 1)
  BY <1>1, <1>2, <1>4
<1>9. Scanned(a, [left |-> l, taken |-> t], k + 1)
  BY <1>4, <1>5, <1>6, <1>7, <1>8 DEF Scanned
<1>. QED BY <1>9 DEF l, t

(* So the scan takes all that is for a, and nothing else.                     *)
LEMMA ScansAll ==
    ASSUME TypeOK, NEW a \in Ids
    PROVE  Scanned(a, ScanFor(a), Len(buff))
<1>. DEFINE n == Len(buff)
            scan == CHOOSE f : IsScan(a, f, n)
            Good == {k \in 0 .. n : Scanned(a, scan[k], k)}
<1>1. n \in Nat /\ buff \in Seq(Msg)
  BY DEF TypeOK, Msg, Data
<1>2. IsScan(a, scan, n)
  <2>1. \E f : IsScan(a, f, n)
    BY <1>1, ScanExists
  <2>. QED BY <2>1
<1>3. ScanFor(a) = scan[n]
  BY DEF ScanFor, IsScan, ScanStep
<1>. HIDE DEF scan
<1>4. \A k \in 0 .. n : scan[k] = ScanStep(a, scan, k)
  BY <1>2 DEF IsScan
<1>5. 0 \in Good
  <2>1. scan[0] = [left |-> buff, taken |-> <<>>]
    <3>1. 0 \in 0 .. n
      BY <1>1
    <3>2. scan[0] = ScanStep(a, scan, 0)
      BY <1>4, <3>1
    <3>. QED BY <3>2 DEF ScanStep
  <2>2. ASSUME NEW x PROVE Number(x, <<>>) = 0 /\ Number(x, buff) \in Nat
    <3>1. {j \in DOMAIN <<>> : <<>>[j] = x} = {}
      OBVIOUS
    <3>2. Number(x, <<>>) = 0
      BY <3>1, FS_EmptySet DEF Number
    <3>. QED BY <1>1, <3>2, NumberType
  <2>3. Scanned(a, [left |-> buff, taken |-> <<>>], 0)
    BY <1>1, <2>2 DEF Scanned
  <2>. QED BY <1>1, <2>1, <2>3
<1>6. ASSUME NEW k \in 0 .. n - 1, k \in Good
      PROVE  k + 1 \in Good
  <2>. PICK s : s = scan[k]
    OBVIOUS
  <2>. PICK i : i = n - (k + 1) + 1
    OBVIOUS
  <2>1. Scanned(a, s, k)
    BY <1>6
  <2>2. k + 1 \in 0 .. n /\ (k + 1) - 1 = k /\ k + 1 # 0
    BY <1>1
  <2>3. scan[k + 1] = IF SameAddress(s.left[i].to, a)
                      THEN [left |-> SwapOut(s.left, i), taken |-> Append(s.taken, s.left[i].data)]
                      ELSE s
    BY <1>4, <2>2 DEF ScanStep
  <2>4. CASE SameAddress(s.left[i].to, a)
    BY <2>1, <2>2, <2>3, <2>4, ScansOn
  <2>5. CASE ~SameAddress(s.left[i].to, a)
    <3>1. \A j \in n - (k + 1) + 1 .. Len(s.left) : j = i \/ j \in n - k + 1 .. Len(s.left)
      BY <1>1, <2>1 DEF Scanned
    <3>2. Scanned(a, s, k + 1)
      BY <1>1, <2>1, <2>5, <3>1 DEF Scanned
    <3>. QED BY <2>2, <2>3, <2>5, <3>2
  <2>. QED BY <2>4, <2>5
<1>7. \A k \in 0 .. n : k \in Good
  <2>1. \A k \in 0 .. n - 1 : k \in Good => k + 1 \in Good
    BY <1>6
  <2>. HIDE DEF Good, n
  <2>. QED BY <1>1, <1>5, <2>1, InductionUpTo
<1>. QED BY <1>1, <1>3, <1>7

-------------------------------------------------------------------------------
(* What the buffer and the queues hold.                                       *)

LEMMA TypeInit == Init => TypeOK
<1>1. ASSUME Init PROVE TypeOK
  <2>1. buff = <<>> /\ Len(buff) = 0 /\ ENBUFFSIZE \in Nat
    BY <1>1, BufferAssumption DEF Init
  <2>2. queue \in [Ids -> Seq(Data)]
    BY <1>1 DEF Init
  <2>. QED BY <2>1, <2>2 DEF TypeOK, Data
<1>. QED BY <1>1

(* A receive hands on the messages it takes, and lets the buffer shrink.      *)
LEMMA ReceiveTypes ==
    ASSUME TypeOK, NEW a \in Ids, ENrecv(a)
    PROVE  TypeOK'
<1>. PICK s : s = ScanFor(a)
  OBVIOUS
<1>1. Scanned(a, s, Len(buff))
  BY ScansAll
<1>2. buff' = s.left /\ queue' = [queue EXCEPT ![a] = @ \o s.taken]
  BY DEF ENrecv
<1>3. buff' \in Seq(Msg) /\ Len(buff') <= ENBUFFSIZE
  <2>1. s.left \in Seq(Msg) /\ Len(s.left) <= Len(buff)
    BY <1>1 DEF Scanned
  <2>2. Len(buff) \in Nat /\ Len(s.left) \in Nat /\ Len(buff) <= ENBUFFSIZE /\ ENBUFFSIZE \in Nat
    BY <2>1, BufferAssumption DEF TypeOK
  <2>. QED BY <1>2, <2>1, <2>2
<1>4. queue' \in [Ids -> Seq(Data)]
  <2>1. queue[a] \in Seq(Data) /\ s.taken \in Seq(Data)
    BY <1>1 DEF Scanned, TypeOK, Data
  <2>2. queue[a] \o s.taken \in Seq(Data)
    BY <2>1
  <2>. QED BY <1>2, <2>2 DEF TypeOK, Data
<1>. QED BY <1>3, <1>4 DEF TypeOK, Msg, Data

(* A send appends, if there is room.                                          *)
LEMMA SendTypes ==
    ASSUME TypeOK, NEW a \in Ids, NEW d \in Payload, ENsend(a, d)
    PROVE  TypeOK'
<1>1. CASE Accepts(d)
  <2>1. [to |-> a, data |-> d] \in Msg /\ buff \in Seq(Msg)
    BY <1>1 DEF Accepts, Msg, Data, TypeOK
  <2>2. buff' = Append(buff, [to |-> a, data |-> d])
    BY <1>1 DEF ENsend
  <2>3. buff' \in Seq(Msg) /\ Len(buff') = Len(buff) + 1
    BY <2>1, <2>2
  <2>4. Len(buff') <= ENBUFFSIZE
    <3>1. Len(buff) < ENBUFFSIZE /\ ENBUFFSIZE \in Nat /\ Len(buff) \in Nat
      BY <1>1, <2>1, BufferAssumption DEF Accepts
    <3>. QED BY <2>3, <3>1
  <2>. QED BY <2>3, <2>4 DEF TypeOK, Msg, Data, ENsend
<1>2. CASE ~Accepts(d)
  BY <1>2 DEF ENsend, TypeOK
<1>. QED BY <1>1, <1>2

(* Handling a message shortens a queue.                                       *)
LEMMA PopTypes ==
    ASSUME TypeOK, NEW a \in Ids, Pop(a)
    PROVE  TypeOK'
<1>1. queue[a] \in Seq(Data) /\ queue[a] # <<>>
  BY DEF TypeOK, Data, Pop
<1>2. Tail(queue[a]) \in Seq(Data)
  BY <1>1
<1>3. queue' \in [Ids -> Seq(Data)] /\ buff' = buff
  BY <1>2 DEF Pop, TypeOK, Data
<1>. QED BY <1>3 DEF TypeOK, Data

LEMMA TypeNext == TypeOK /\ [Next]_vars => TypeOK'
<1>1. ASSUME TypeOK, NEW a \in Ids, ENrecv(a) PROVE TypeOK'
  BY <1>1, ReceiveTypes
<1>2. ASSUME TypeOK, NEW a \in Ids, NEW d \in Payload, ENsend(a, d) PROVE TypeOK'
  BY <1>2, SendTypes
<1>3. ASSUME TypeOK, NEW a \in Ids, Pop(a) PROVE TypeOK'
  BY <1>3, PopTypes
<1>4. ASSUME TypeOK, UNCHANGED vars PROVE TypeOK'
  BY <1>4 DEF TypeOK, vars
<1>. QED BY <1>1, <1>2, <1>3, <1>4 DEF Next

(* The buffer never holds more than ENBUFFSIZE messages, nor one that is too  *)
(* big; and what reaches a queue is what was sent, never a part of the buffer *)
(* that the scan had already given up.                                        *)
THEOREM TypeCorrect == Spec => []TypeOK
<1>. QED BY TypeInit, TypeNext, PTL DEF Spec

-------------------------------------------------------------------------------
(* ENrecv moves the last message of the buffer into the hole that a taken one *)
(* leaves, in the middle of its scan; it still leaves nothing behind for the  *)
(* receiver, even where strcmp confuses two addresses.                        *)
THEOREM ReceivesLeaveNothing == Spec => ReceivesAll
<1>1. ASSUME TypeOK, NEW a \in Ids, ENrecv(a), NEW i \in DOMAIN buff', buff'[i].to = a
      PROVE  FALSE
  <2>. PICK s : s = ScanFor(a)
    OBVIOUS
  <2>1. Scanned(a, s, Len(buff)) /\ buff' = s.left
    BY <1>1, ScansAll DEF ENrecv
  <2>2. s.left \in Seq(Msg) /\ Len(buff) \in Nat
    BY <1>1, <2>1 DEF Scanned, TypeOK
  <2>3. i \in Len(buff) - Len(buff) + 1 .. Len(s.left)
    BY <1>1, <2>1, <2>2
  <2>4. ~SameAddress(s.left[i].to, a)
    BY <2>1, <2>3 DEF Scanned
  <2>. QED BY <1>1, <2>1, <2>4 DEF SameAddress
<1>2. TypeOK => \A a \in Ids : ENrecv(a) => ~\E i \in DOMAIN buff' : buff'[i].to = a
  BY <1>1
<1>3. TypeOK /\ [Next]_vars => [\A a \in Ids : ENrecv(a) => ~\E i \in DOMAIN buff' : buff'[i].to = a]_vars
  BY <1>2
<1>. QED BY <1>3, TypeCorrect, PTL DEF Spec, ReceivesAll

-------------------------------------------------------------------------------
(* The buffer and the queues are a network of bags.                           *)

InFlight == [a \in Ids |-> [d \in Payload |-> Number([to |-> a, data |-> d], buff)]]
Handed == [a \in Ids |-> [d \in Payload |-> Number(d, queue[a])]]

(* An accepted message is one more in flight; a dropped one is never sent.    *)
LEMMA SendImplements ==
    ASSUME TypeOK, NEW a \in Ids, NEW d \in Payload, ENsend(a, d)
    PROVE  Net!Send(a, d) \/ UNCHANGED <<InFlight, Handed>>
<1>1. Handed' = Handed
  BY DEF ENsend, Handed, Number
<1>2. CASE Accepts(d)
  <2>. PICK new : new = [to |-> a, data |-> d]
    OBVIOUS
  <2>1. buff' = Append(buff, new) /\ buff \in Seq(Msg) /\ new \in Msg
    BY <1>2 DEF ENsend, Accepts, TypeOK, Msg, Data
  <2>2. ASSUME NEW b \in Ids, NEW e \in Payload
        PROVE  InFlight'[b][e] = InFlight[b][e] + IF b = a /\ e = d THEN 1 ELSE 0
    <3>. PICK x : x = [to |-> b, data |-> e]
      OBVIOUS
    <3>1. InFlight'[b][e] = Number(x, buff') /\ InFlight[b][e] = Number(x, buff)
      BY DEF InFlight
    <3>2. Number(x, Append(buff, new)) = Number(x, buff) + IF x = new THEN 1 ELSE 0
      BY <2>1, NumberAppend
    <3>3. x = new <=> b = a /\ e = d
      OBVIOUS
    <3>. QED BY <2>1, <3>1, <3>2, <3>3
  <2>3. \A b \in Ids, e \in Payload : InFlight[b][e] \in Nat
    BY <2>1, NumberType DEF InFlight
  <2>4. InFlight' = [InFlight EXCEPT ![a][d] = @ + 1]
    <3>1. /\ InFlight = [b \in Ids |-> [e \in Payload |-> InFlight[b][e]]]
          /\ InFlight' = [b \in Ids |-> [e \in Payload |-> InFlight'[b][e]]]
      BY DEF InFlight
    <3>. HIDE DEF InFlight
    <3>. QED BY <2>2, <2>3, <3>1
  <2>. QED BY <1>1, <2>4 DEF Net!Send, InFlight, Handed
<1>3. CASE ~Accepts(d)
  BY <1>1, <1>3 DEF ENsend, InFlight
<1>. QED BY <1>2, <1>3

(* What is left in flight when a has received, and what a has been handed.    *)
LEMMA ReceiveCounts ==
    ASSUME TypeOK, DistinctAddresses, NEW a \in Ids, ENrecv(a), NEW b \in Ids, NEW d \in Payload
    PROVE  /\ InFlight'[b][d] = IF b = a THEN 0 ELSE InFlight[b][d]
           /\ Handed'[b][d] = Handed[b][d] + IF b = a THEN InFlight[b][d] ELSE 0
<1>. PICK s : s = ScanFor(a)
  OBVIOUS
<1>. PICK x : x = [to |-> b, data |-> d]
  OBVIOUS
<1>1. /\ Scanned(a, s, Len(buff)) /\ buff' = s.left
      /\ queue' = [queue EXCEPT ![a] = @ \o s.taken]
  BY ScansAll DEF ENrecv
<1>2. /\ s.left \in Seq(Msg) /\ s.taken \in Seq(Data) /\ buff \in Seq(Msg)
      /\ queue \in [Ids -> Seq(Data)] /\ Len(buff) \in Nat
  BY <1>1 DEF Scanned, TypeOK, Msg, Data
<1>3. /\ InFlight[b][d] = Number(x, buff) /\ InFlight'[b][d] = Number(x, s.left)
      /\ Handed[b][d] = Number(d, queue[b])
      /\ Handed'[b][d] = Number(d, IF b = a THEN queue[a] \o s.taken ELSE queue[b])
  BY <1>1, <1>2 DEF InFlight, Handed
<1>4. /\ Number(x, buff) \in Nat /\ Number(x, s.left) \in Nat
      /\ Number(d, s.taken) \in Nat /\ Number(d, queue[b]) \in Nat
  BY <1>2, NumberType
<1>5. Number(d, queue[a] \o s.taken) = Number(d, queue[a]) + Number(d, s.taken)
  BY <1>2, NumberJoin
<1>6. b = a => Number(x, s.left) = 0
  <2>1. ASSUME b = a, NEW i \in DOMAIN s.left, s.left[i] = x
        PROVE  FALSE
    <3>1. i \in Len(buff) - Len(buff) + 1 .. Len(s.left)
      BY <1>2
    <3>2. ~SameAddress(s.left[i].to, a)
      BY <1>1, <3>1 DEF Scanned
    <3>. QED BY <2>1, <3>2 DEF SameAddress
  <2>2. b = a => ~\E i \in DOMAIN s.left : s.left[i] = x
    BY <2>1
  <2>3. Number(x, s.left) > 0 <=> \E i \in DOMAIN s.left : s.left[i] = x
    BY <1>2, NumberZero
  <2>. QED BY <1>4, <2>2, <2>3
<1>7. Number(x, s.left) + (IF b = a THEN Number(d, s.taken) ELSE 0) = Number(x, buff)
  <2>1. CASE x \in Msg
    <3>1. Number(x, s.left) + (IF x.to = a THEN Number(x.data, s.taken) ELSE 0) = Number(x, buff)
      BY <1>1, <2>1 DEF Scanned
    <3>. QED BY <3>1
  <2>2. CASE x \notin Msg
    <3>1. d \notin Data
      BY <2>2 DEF Msg
    <3>2. /\ ~\E i \in DOMAIN buff : buff[i] = x
          /\ ~\E i \in DOMAIN s.left : s.left[i] = x
          /\ ~\E i \in DOMAIN s.taken : s.taken[i] = d
      BY <1>2, <2>2, <3>1
    <3>3. Number(x, buff) = 0
      <4>1. Number(x, buff) > 0 <=> \E i \in DOMAIN buff : buff[i] = x
        BY <1>2, NumberZero
      <4>. QED BY <1>4, <3>2, <4>1
    <3>4. Number(x, s.left) = 0
      <4>1. Number(x, s.left) > 0 <=> \E i \in DOMAIN s.left : s.left[i] = x
        BY <1>2, NumberZero
      <4>. QED BY <1>4, <3>2, <4>1
    <3>5. Number(d, s.taken) = 0
      <4>1. Number(d, s.taken) > 0 <=> \E i \in DOMAIN s.taken : s.taken[i] = d
        BY <1>2, NumberZero
      <4>. QED BY <1>4, <3>2, <4>1
    <3>. QED BY <3>3, <3>4, <3>5
  <2>. QED BY <2>1, <2>2
<1>. QED BY <1>3, <1>4, <1>5, <1>6, <1>7

(* A receive hands all that is in flight for a node to it, once.              *)
LEMMA ReceiveImplements ==
    ASSUME TypeOK, DistinctAddresses, NEW a \in Ids, ENrecv(a)
    PROVE  Net!Receive(a)
<1>1. \A b \in Ids, d \in Payload :
          /\ InFlight'[b][d] = IF b = a THEN 0 ELSE InFlight[b][d]
          /\ Handed'[b][d] = Handed[b][d] + IF b = a THEN InFlight[b][d] ELSE 0
  BY ReceiveCounts
<1>2. /\ InFlight = [b \in Ids |-> [d \in Payload |-> InFlight[b][d]]]
      /\ InFlight' = [b \in Ids |-> [d \in Payload |-> InFlight'[b][d]]]
      /\ Handed = [b \in Ids |-> [d \in Payload |-> Handed[b][d]]]
      /\ Handed' = [b \in Ids |-> [d \in Payload |-> Handed'[b][d]]]
  BY DEF InFlight, Handed
<1>3. \A b \in Ids, d \in Payload : Handed[b][d] \in Nat
  <2>1. \A b \in Ids, d \in Payload : queue[b] \in Seq(Data)
    BY DEF TypeOK, Data
  <2>. QED BY <2>1, NumberType DEF Handed
<1>. PICK F, G, H, K : F = InFlight /\ G = InFlight' /\ H = Handed /\ K = Handed'
  OBVIOUS
<1>4. G = [F EXCEPT ![a] = [d \in Payload |-> 0]]
  BY <1>1, <1>2
<1>5. K = [H EXCEPT ![a] = [d \in Payload |-> H[a][d] + F[a][d]]]
  BY <1>1, <1>2, <1>3
<1>. QED BY <1>4, <1>5 DEF Net!Receive, Net!Nothing, InFlight, Handed

(* A node handles a message that it has been handed.                          *)
LEMMA PopImplements ==
    ASSUME TypeOK, NEW a \in Ids, Pop(a)
    PROVE  Net!Take(a)
<1>. PICK q : q = queue[a]
  OBVIOUS
<1>1. /\ q \in Seq(Data) /\ q # <<>> /\ buff' = buff /\ queue' = [queue EXCEPT ![a] = Tail(q)]
      /\ \A b \in Ids : queue[b] \in Seq(Data)
  BY DEF Pop, TypeOK, Data
<1>2. PICK e \in Payload : e = Head(q)
  BY <1>1 DEF Data
<1>3. InFlight' = InFlight
  BY <1>1 DEF InFlight
<1>4. \A b \in Ids, d \in Payload :
          /\ Handed[b][d] \in Nat
          /\ Handed'[b][d] = Handed[b][d] - IF b = a /\ d = e THEN 1 ELSE 0
  <2>1. ASSUME NEW b \in Ids, NEW d \in Payload
        PROVE  /\ Number(d, queue[b]) \in Nat
               /\ Number(d, queue'[b]) = Number(d, queue[b]) - IF b = a /\ d = e THEN 1 ELSE 0
    <3>1. Number(d, queue[b]) \in Nat
      BY <1>1, NumberType
    <3>2. CASE b = a
      <4>1. queue'[b] = Tail(q)
        BY <1>1, <3>2 DEF TypeOK
      <4>2. Number(d, Tail(q)) = Number(d, q) - IF d = Head(q) THEN 1 ELSE 0
        BY <1>1, NumberTail
      <4>. QED BY <1>2, <3>1, <3>2, <4>1, <4>2
    <3>3. CASE b # a
      BY <1>1, <3>1, <3>3 DEF TypeOK
    <3>. QED BY <3>2, <3>3
  <2>. QED BY <2>1 DEF Handed
<1>5. Handed[a][e] > 0
  <2>1. \E i \in DOMAIN q : q[i] = e
    BY <1>1, <1>2
  <2>2. Number(e, q) > 0
    BY <1>1, <2>1, NumberZero
  <2>. QED BY <2>2 DEF Handed
<1>6. Handed' = [Handed EXCEPT ![a][e] = @ - 1]
  <2>1. /\ Handed = [b \in Ids |-> [d \in Payload |-> Handed[b][d]]]
        /\ Handed' = [b \in Ids |-> [d \in Payload |-> Handed'[b][d]]]
    BY DEF Handed
  <2>. PICK H, K : H = Handed /\ K = Handed'
    OBVIOUS
  <2>2. K = [H EXCEPT ![a][e] = @ - 1]
    BY <1>4, <2>1
  <2>. QED BY <2>2
<1>. QED BY <1>3, <1>5, <1>6 DEF Net!Take, InFlight, Handed

(* The buffer implements the network that the protocols are modelled over:    *)
(* although ENrecv fills holes in the middle of its scan, every message that  *)
(* ENsend accepted is handed once to its addressee, and to nobody else -- in  *)
(* a group whose addresses strcmp tells apart.                                *)
THEOREM NetworkImplements == DistinctAddresses => (Spec => IsBagNet)
<1>. SUFFICES ASSUME DistinctAddresses PROVE Spec => IsBagNet
  OBVIOUS
<1>1. Init => Net!Init
  <2>1. \A x : Number(x, <<>>) = 0
    BY FS_EmptySet DEF Number
  <2>. QED BY <2>1 DEF Init, Net!Init, Net!Nothing
<1>2. TypeOK /\ [Next]_vars => [Net!Next]_(Net!netVars)
  <2>. SUFFICES ASSUME TypeOK, [Next]_vars PROVE [Net!Next]_(Net!netVars)
    OBVIOUS
  <2>1. ASSUME NEW a \in Ids, ENrecv(a) PROVE Net!Receive(a)
    BY <2>1, ReceiveImplements
  <2>2. ASSUME NEW a \in Ids, Pop(a) PROVE Net!Take(a)
    BY <2>2, PopImplements
  <2>3. ASSUME NEW a \in Ids, NEW d \in Payload, ENsend(a, d)
        PROVE  Net!Send(a, d) \/ UNCHANGED <<InFlight, Handed>>
    BY <2>3, SendImplements
  <2>4. ASSUME UNCHANGED vars PROVE UNCHANGED <<InFlight, Handed>>
    BY <2>4 DEF vars, InFlight, Handed
  <2>. QED BY <2>1, <2>2, <2>3, <2>4 DEF Next, Net!Next, Net!netVars, InFlight, Handed
<1>. QED BY <1>1, <1>2, TypeCorrect, PTL DEF Spec, IsBagNet, Net!Spec

(* Groups of up to 255 nodes are such: one byte of the id is the address, and *)
(* it is not zero.                                                            *)
THEOREM SmallGroupsAreDistinct == Ids \subseteq 1 .. 255 => DistinctAddresses
<1>1. ASSUME NEW a \in 1 .. 255 PROVE CString(a) = <<a>>
  <2>1. a % 256 = a /\ a \div 256 = 0
    BY SMT
  <2>. QED BY <2>1 DEF CString
<1>2. ASSUME Ids \subseteq 1 .. 255, NEW a \in Ids, NEW b \in Ids, SameAddress(a, b)
      PROVE  a = b
  <2>1. <<a>> = <<b>>
    BY <1>1, <1>2 DEF SameAddress
  <2>. QED BY <2>1
<1>. QED BY <1>2 DEF DistinctAddresses
===============================================================================
