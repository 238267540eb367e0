------------------------------ MODULE DataLemmas ------------------------------
(* Facts about the data that the models are built from and the library has no *)
(* theorem for: least numbers, from which whatever is defined by recursion on *)
(* a number is reasoned about; FlattenSeq; the copies of a message in a bag.  *)
EXTENDS Integers, Sequences, FiniteSets, Bags, SequencesExt,
        TLAPS, FiniteSetTheorems, WellFoundedInduction

-------------------------------------------------------------------------------
(* Numbers.                                                                   *)

(* Among numbers there is a least one.  (Stated of a set and not of a         *)
(* predicate, so that the provers can use it for induction: a property that   *)
(* some number lacks is lacked by a least one.)                               *)
LEMMA LeastNumber ==
    ASSUME NEW S \in SUBSET Nat, S # {}
    PROVE  \E n \in S : \A m \in S : n <= m
<1>. DEFINE T == {0 .. n : n \in S}
<1>1. IsWellFoundedOn(StrictSubsetOrdering(Nat), FiniteSubsetsOf(Nat))
  BY FS_StrictSubsetOrderingWellFounded
<1>2. T \subseteq FiniteSubsetsOf(Nat) /\ T # {}
  <2>1. ASSUME NEW n \in S PROVE 0 .. n \in SUBSET Nat /\ IsFiniteSet(0 .. n)
    BY FS_Interval
  <2>. QED BY <2>1 DEF FiniteSubsetsOf
<1>3. PICK I \in T : \A J \in T : ~ (<<J, I>> \in StrictSubsetOrdering(Nat))
  BY <1>1, <1>2, WFMin
<1>4. PICK n \in S : I = 0 .. n
  OBVIOUS
<1>5. ASSUME NEW m \in S, m < n PROVE FALSE
  <2>1. 0 .. m \in T
    OBVIOUS
  <2>2. 0 .. m \subseteq I /\ n \in I /\ n \notin 0 .. m
    BY <1>4, <1>5
  <2>3. 0 .. m \in SUBSET Nat /\ I \in SUBSET Nat /\ 0 .. m # I
    BY <1>4, <2>2
  <2>4. <<0 .. m, I>> \in StrictSubsetOrdering(Nat)
    BY <2>2, <2>3 DEF StrictSubsetOrdering
  <2>. QED BY <1>3, <2>1, <2>4
<1>. QED BY <1>5

(* Induction up to n, for the numbers in a set.                               *)
LEMMA InductionUpTo ==
    ASSUME NEW n \in Nat, NEW S, 0 \in S, \A m \in 0 .. n - 1 : m \in S => m + 1 \in S
    PROVE  \A m \in 0 .. n : m \in S
<1>. DEFINE Missing == (0 .. n) \ S
<1>1. SUFFICES ASSUME Missing # {} PROVE FALSE
  OBVIOUS
<1>2. PICK m \in Missing : \A k \in Missing : m <= k
  <2>1. Missing \in SUBSET Nat
    OBVIOUS
  <2>. HIDE DEF Missing
  <2>. QED BY <1>1, <2>1, LeastNumber
<1>3. m # 0 /\ m - 1 \in 0 .. n - 1 /\ m - 1 \notin Missing
  BY <1>2
<1>4. m - 1 \in S
  BY <1>3
<1>5. m \in S
  BY <1>3, <1>4
<1>. QED BY <1>2, <1>5

(* A function on 0 .. n whose value at each number is got from the one before *)
(* exists, for any way to get it.                                             *)
IsRecursion(f, b, G, n) == f[0] = b /\ \A k \in 1 .. n : f[k] = G[<<k, f[k - 1]>>]
LEMMA RecursionExists ==
    ASSUME NEW V, NEW b \in V, NEW n \in Nat, NEW G \in [(1 .. n) \X V -> V]
    PROVE  \E f \in [0 .. n -> V] : IsRecursion(f, b, G, n)
<1>. DEFINE Is(f, m) == f[0] = b /\ \A k \in 1 .. m : f[k] = G[<<k, f[k - 1]>>]
            Defined == {m \in Nat : m <= n => \E f \in [0 .. m -> V] : Is(f, m)}
<1>1. 0 \in Defined
  <2>. DEFINE f == [k \in 0 .. 0 |-> b]
  <2>1. f \in [0 .. 0 -> V] /\ Is(f, 0)
    OBVIOUS
  <2>. QED BY <2>1
<1>2. ASSUME NEW m \in 0 .. n - 1, m \in Defined
      PROVE  m + 1 \in Defined
  <2>1. PICK g \in [0 .. m -> V] : Is(g, m)
    BY <1>2
  <2>. DEFINE h == [k \in 0 .. m + 1 |-> IF k \in 0 .. m THEN g[k] ELSE G[<<m + 1, g[m]>>]]
  <2>2. m \in 0 .. m /\ m + 1 \in 1 .. n /\ m + 1 \notin 0 .. m /\ 0 \in 0 .. m
    OBVIOUS
  <2>3. g[m] \in V /\ G[<<m + 1, g[m]>>] \in V
    BY <2>2
  <2>4. h \in [0 .. m + 1 -> V]
    BY <2>3
  <2>5. ASSUME NEW k \in 1 .. m + 1 PROVE h[k] = G[<<k, h[k - 1]>>]
    <3>1. k - 1 \in 0 .. m /\ k \in 0 .. m + 1 /\ k - 1 \in 0 .. m + 1
      OBVIOUS
    <3>2. h[k - 1] = g[k - 1]
      BY <3>1
    <3>3. CASE k \in 1 .. m
      BY <2>1, <3>1, <3>2, <3>3
    <3>4. CASE k = m + 1
      BY <2>2, <3>1, <3>2, <3>4
    <3>. QED BY <3>3, <3>4
  <2>6. h[0] = b
    BY <2>1, <2>2
  <2>7. Is(h, m + 1)
    BY <2>5, <2>6
  <2>. HIDE DEF h, Is
  <2>. QED BY <2>4, <2>7
<1>3. \A m \in 0 .. n : m \in Defined
  <2>1. \A m \in 0 .. n - 1 : m \in Defined => m + 1 \in Defined
    BY <1>2
  <2>. HIDE DEF Defined
  <2>. QED BY <1>1, <2>1, InductionUpTo
<1>4. \E f \in [0 .. n -> V] : Is(f, n)
  BY <1>3
<1>. QED BY <1>4 DEF IsRecursion

-------------------------------------------------------------------------------
(* FlattenSeq, by the function with which the library defines it.             *)

Flattened(f, s, i) == IF i = 1 THEN s[i] ELSE f[i - 1] \o s[i]
IsFlattening(f, s, n) == f = [i \in 1 .. n |-> Flattened(f, s, i)]

(* There is such a function, for every length.                                *)
LEMMA FlatteningExists ==
    ASSUME NEW s, NEW n \in Nat
    PROVE  \E f : IsFlattening(f, s, n)
<1>. DEFINE Defined == {m \in Nat : \E f : IsFlattening(f, s, m)}
<1>1. 0 \in Defined
  <2>. DEFINE f == [i \in 1 .. 0 |-> 0]
  <2>1. f = [i \in 1 .. 0 |-> Flattened(f, s, i)]
    OBVIOUS
  <2>. QED BY <2>1 DEF IsFlattening
<1>2. ASSUME NEW m \in 0 .. n - 1, m \in Defined
      PROVE  m + 1 \in Defined
  <2>1. PICK g : IsFlattening(g, s, m)
    BY <1>2
  <2>. DEFINE h == [i \in 1 .. m + 1 |-> IF i \in 1 .. m THEN g[i] ELSE Flattened(g, s, i)]
  <2>2. ASSUME NEW i \in 1 .. m + 1 PROVE h[i] = Flattened(h, s, i)
    <3>1. i = 1 \/ i - 1 \in 1 .. m
      OBVIOUS
    <3>2. Flattened(g, s, i) = Flattened(h, s, i)
      BY <3>1 DEF Flattened
    <3>3. i \in 1 .. m => g[i] = Flattened(g, s, i)
      BY <2>1 DEF IsFlattening
    <3>. QED BY <3>2, <3>3
  <2>3. IsFlattening(h, s, m + 1)
    BY <2>2 DEF IsFlattening
  <2>. QED BY <2>3
<1>3. \A m \in 0 .. n : m \in Defined
  <2>1. \A m \in 0 .. n - 1 : m \in Defined => m + 1 \in Defined
    BY <1>2
  <2>. HIDE DEF Defined
  <2>. QED BY <1>1, <2>1, InductionUpTo
<1>. QED BY <1>3

(* Concatenating sequences of elements of X gives one.                        *)
LEMMA FlattenSeqType ==
    ASSUME NEW X, NEW s \in Seq(Seq(X))
    PROVE  FlattenSeq(s) \in Seq(X)
<1>1. CASE Len(s) = 0
  BY <1>1 DEF FlattenSeq
<1>2. CASE Len(s) # 0
  <2>. DEFINE flatten == CHOOSE f : IsFlattening(f, s, Len(s))
              Typed == {i \in Nat : i \in 1 .. Len(s) => flatten[i] \in Seq(X)}
  <2>1. IsFlattening(flatten, s, Len(s))
    <3>1. Len(s) \in Nat
      OBVIOUS
    <3>2. \E f : IsFlattening(f, s, Len(s))
      BY <3>1, FlatteningExists, Zenon
    <3>. QED BY <3>2
  <2>2. FlattenSeq(s) = flatten[Len(s)]
    BY <1>2 DEF FlattenSeq, IsFlattening, Flattened
  <2>. HIDE DEF flatten
  <2>3. 0 \in Typed
    OBVIOUS
  <2>4. ASSUME NEW m \in 0 .. Len(s) - 1, m \in Typed
        PROVE  m + 1 \in Typed
    <3>1. m + 1 \in 1 .. Len(s) /\ s[m + 1] \in Seq(X)
      OBVIOUS
    <3>2. flatten[m + 1] = IF m = 0 THEN s[m + 1] ELSE flatten[m] \o s[m + 1]
      <4>1. flatten[m + 1] = Flattened(flatten, s, m + 1)
        BY <2>1, <3>1 DEF IsFlattening
      <4>2. (m + 1) - 1 = m /\ (m + 1 = 1 <=> m = 0)
        OBVIOUS
      <4>. QED BY <4>1, <4>2 DEF Flattened
    <3>3. m # 0 => flatten[m] \in Seq(X)
      BY <2>4
    <3>4. flatten[m + 1] \in Seq(X)
      BY <3>1, <3>2, <3>3
    <3>. QED BY <3>4
  <2>5. \A m \in 0 .. Len(s) : m \in Typed
    <3>1. Len(s) \in Nat /\ \A m \in 0 .. Len(s) - 1 : m \in Typed => m + 1 \in Typed
      BY <2>4
    <3>. HIDE DEF Typed
    <3>. QED BY <2>3, <3>1, InductionUpTo
  <2>. QED BY <1>2, <2>2, <2>5
<1>. QED BY <1>1, <1>2
-------------------------------------------------------------------------------
(* The copies of a message in a bag.                                          *)

Copies(m, B) == IF m \in BagToSet(B) THEN B[m] ELSE 0

(* What bags of messages are: an empty one has no message.                    *)
LEMMA BagEmpty ==
    /\ IsABag(EmptyBag) /\ BagToSet(EmptyBag) = {}
    /\ \A B : IsABag(B) => (B = EmptyBag <=> BagToSet(B) = {})
    /\ \A m : Copies(m, EmptyBag) = 0
BY DEF IsABag, EmptyBag, SetToBag, BagToSet, Copies

(* A message is in a bag if and only if there is a copy of it.                *)
LEMMA BagCopies ==
    ASSUME NEW B, IsABag(B), NEW m
    PROVE  /\ Copies(m, B) \in Nat
           /\ m \in BagToSet(B) <=> Copies(m, B) > 0
BY DEF IsABag, BagToSet, Copies

(* Putting a set of messages in adds a copy of each.                          *)
LEMMA BagPut ==
    ASSUME NEW B, IsABag(B), NEW S
    PROVE  /\ IsABag(B (+) SetToBag(S))
           /\ BagToSet(B (+) SetToBag(S)) = BagToSet(B) \cup S
           /\ \A m : Copies(m, B (+) SetToBag(S))
                        = Copies(m, B) + IF m \in S THEN 1 ELSE 0
BY DEF IsABag, BagToSet, SetToBag, (+), Copies

(* Joining bags adds their copies up.                                         *)
LEMMA BagJoin ==
    ASSUME NEW B, IsABag(B), NEW C, IsABag(C)
    PROVE  /\ IsABag(B (+) C)
           /\ BagToSet(B (+) C) = BagToSet(B) \cup BagToSet(C)
           /\ \A m : Copies(m, B (+) C) = Copies(m, B) + Copies(m, C)
BY DEF IsABag, BagToSet, (+), Copies

(* Taking a message out takes one copy of it.                                 *)
LEMMA BagTake ==
    ASSUME NEW B, IsABag(B), NEW m \in BagToSet(B)
    PROVE  /\ IsABag(B (-) SetToBag({m}))
           /\ BagToSet(B (-) SetToBag({m})) \subseteq BagToSet(B)
           /\ \A x : Copies(x, B (-) SetToBag({m}))
                        = Copies(x, B) - IF x = m THEN 1 ELSE 0
BY DEF IsABag, BagToSet, SetToBag, (-), Copies
===============================================================================
