---------------------------- MODULE Driver_proofs -----------------------------
(* Proofs about what the program does by the clock and by chance: the         *)
(* schedule of Application::run for any group and any rate of introduction,   *)
(* and the loops that draw nodes at random, for any number of nodes.          *)
EXTENDS Driver, RandomPicks, DataLemmas

-------------------------------------------------------------------------------
(* Arithmetic.                                                                *)

(* Products of numbers are ordered like their factors.                        *)
LEMMA ProductsInOrder ==
    ASSUME NEW c \in Nat \ {0}, NEW a \in Nat, NEW b \in Nat
    PROVE  /\ c * a \in Nat /\ c * (a + 1) = c * a + c
           /\ a <= b <=> c * a <= c * b
           /\ a < b <=> c * a < c * b
<1>1. a <= b => c * a <= c * b
  <2>. SUFFICES ASSUME a <= b PROVE c * a <= c * b
    OBVIOUS
  <2>1. PICK d \in Nat : b = a + d
    <3>1. b - a \in Nat /\ b = a + (b - a)
      OBVIOUS
    <3>. QED BY <3>1
  <2>2. c * b = c * a + c * d /\ c * d \in Nat /\ c * a \in Nat
    BY <2>1
  <2>. QED BY <2>2
<1>2. b < a => c * b < c * a
  <2>. SUFFICES ASSUME b < a PROVE c * b < c * a
    OBVIOUS
  <2>1. PICK d \in Nat : a = b + 1 + d
    <3>1. a - b - 1 \in Nat /\ a = b + 1 + (a - b - 1)
      OBVIOUS
    <3>. QED BY <3>1
  <2>2. c * a = c * b + c + c * d /\ c * d \in Nat /\ c * b \in Nat
    BY <2>1
  <2>. QED BY <2>2
<1>3. b <= a => c * b <= c * a
  <2>. SUFFICES ASSUME b <= a PROVE c * b <= c * a
    OBVIOUS
  <2>1. PICK d \in Nat : a = b + d
    <3>1. a - b \in Nat /\ a = b + (a - b)
      OBVIOUS
    <3>. QED BY <3>1
  <2>2. c * a = c * b + c * d /\ c * d \in Nat /\ c * b \in Nat
    BY <2>1
  <2>. QED BY <2>2
<1>4. c * a \in Nat /\ c * b \in Nat /\ c * (a + 1) = c * a + c
  OBVIOUS
<1>5. a < b => c * a < c * b
  <2>. SUFFICES ASSUME a < b PROVE c * a < c * b
    OBVIOUS
  <2>1. PICK d \in Nat : b = a + 1 + d
    <3>1. b - a - 1 \in Nat /\ b = a + 1 + (b - a - 1)
      OBVIOUS
    <3>. QED BY <3>1
  <2>2. c * b = c * a + c + c * d /\ c * d \in Nat /\ c * a \in Nat
    BY <2>1
  <2>. QED BY <2>2
<1>. QED BY <1>1, <1>2, <1>3, <1>4, <1>5

(* Node i is introduced at time t if it is among the first StartsPerTick that *)
(* are left then.                                                             *)
LEMMA StartTimes ==
    ASSUME NEW i \in Nat, NEW t \in Nat
    PROVE  /\ StartTime(i) \in Nat
           /\ StartTime(i) <= t <=> i < StartsPerTick * (t + 1)
           /\ StartTime(i) < t <=> i < StartsPerTick * t
<1>. DEFINE S == StartsPerTick
<1>1. S \in Nat \ {0}
  BY DriverAssumption
<1>2. PICK q : q = StartTime(i)
  OBVIOUS
<1>3. q \in Nat /\ S * q <= i /\ i < S * (q + 1)
  <2>1. i \div S \in Nat /\ i % S \in 0 .. S - 1 /\ i = S * (i \div S) + (i % S)
    BY <1>1
  <2>2. S * (q + 1) = S * q + S
    BY <1>1, <1>2, <2>1 DEF StartTime
  <2>. QED BY <1>1, <1>2, <2>1, <2>2 DEF StartTime
<1>. HIDE DEF S
<1>4. q <= t => S * (q + 1) <= S * (t + 1)
  <2>1. q + 1 \in Nat /\ t + 1 \in Nat /\ (q <= t => q + 1 <= t + 1)
    BY <1>3
  <2>. QED BY <1>1, <2>1, ProductsInOrder
<1>5. t < q => S * (t + 1) <= S * q
  <2>1. t + 1 \in Nat /\ (t < q => t + 1 <= q)
    BY <1>3
  <2>. QED BY <1>1, <1>3, <2>1, ProductsInOrder
<1>6. q < t => S * (q + 1) <= S * t
  <2>1. q + 1 \in Nat /\ (q < t => q + 1 <= t)
    BY <1>3
  <2>. QED BY <1>1, <2>1, ProductsInOrder
<1>7. t <= q => S * t <= S * q
  BY <1>1, <1>3, ProductsInOrder
<1>8. S * (q + 1) \in Nat /\ S * q \in Nat /\ S * (t + 1) \in Nat /\ S * t \in Nat
  BY <1>1, <1>3
<1>. QED BY <1>2, <1>3, <1>4, <1>5, <1>6, <1>7, <1>8 DEF S

-------------------------------------------------------------------------------
(* Sums.                                                                      *)

(* What the loop of mp1Run adds up over k indices when it introduces those    *)
(* from lo to hi - 1: the difference of two triangular numbers.               *)
LEMMA CountedIs ==
    ASSUME EN_GPSZ \in Nat, NEW lo \in Nat, NEW hi \in Nat, lo <= hi, hi <= EN_GPSZ
    PROVE  /\ Counted(lo .. hi - 1) \in Nat
           /\ 2 * Counted(lo .. hi - 1) = hi * (hi - 1) - lo * (lo - 1)
<1>. DEFINE n == EN_GPSZ
            new == lo .. hi - 1
            Term(k) == IF k - 1 \in new THEN k - 1 ELSE 0
            Is(f) == f = [k \in 0 .. n |-> IF k = 0 THEN 0 ELSE f[k - 1] + Term(k)]
            sum == CHOOSE f : Is(f)
            Sum(k) == IF k <= lo THEN 0
                      ELSE IF k <= hi THEN k * (k - 1) - lo * (lo - 1)
                      ELSE hi * (hi - 1) - lo * (lo - 1)
            Good == {k \in Nat : k <= n => sum[k] \in Nat /\ 2 * sum[k] = Sum(k)}
<1>1. n \in Nat
  OBVIOUS
<1>2. Is(sum)
  <2>. DEFINE G == [p \in (1 .. n) \X Nat |-> p[2] + Term(p[1])]
  <2>1. G \in [(1 .. n) \X Nat -> Nat]
    OBVIOUS
  <2>2. PICK f \in [0 .. n -> Nat] : f[0] = 0 /\ \A k \in 1 .. n : f[k] = G[<<k, f[k - 1]>>]
    <3>. HIDE DEF G, n
    <3>1. 0 \in Nat
      OBVIOUS
    <3>2. \E f \in [0 .. n -> Nat] : IsRecursion(f, 0, G, n)
      BY <1>1, <2>1, <3>1, RecursionExists
    <3>. QED BY <3>2 DEF IsRecursion
  <2>3. ASSUME NEW k \in 1 .. n PROVE f[k] = f[k - 1] + Term(k)
    <3>1. k - 1 \in 0 .. n /\ f[k - 1] \in Nat
      OBVIOUS
    <3>2. <<k, f[k - 1]>> \in (1 .. n) \X Nat
      BY <3>1
    <3>3. G[<<k, f[k - 1]>>] = f[k - 1] + Term(k)
      BY <3>2
    <3>. QED BY <2>2, <3>3
  <2>. HIDE DEF Term
  <2>4. ASSUME NEW k \in 0 .. n PROVE f[k] = IF k = 0 THEN 0 ELSE f[k - 1] + Term(k)
    <3>1. CASE k = 0
      BY <2>2, <3>1
    <3>2. CASE k # 0
      <4>1. k \in 1 .. n
        BY <3>2
      <4>. QED BY <2>3, <3>2, <4>1
    <3>. QED BY <3>1, <3>2
  <2>5. f = [k \in 0 .. n |-> f[k]]
    OBVIOUS
  <2>6. Is(f)
    BY <2>4, <2>5
  <2>. QED BY <2>6
<1>3. Counted(new) = sum[n]
  BY DEF Counted
<1>. HIDE DEF sum
<1>4. sum[0] = 0 /\ \A k \in 1 .. n : sum[k] = sum[k - 1] + Term(k)
  <2>1. ASSUME NEW k \in 0 .. n PROVE sum[k] = IF k = 0 THEN 0 ELSE sum[k - 1] + Term(k)
    BY <1>2
  <2>. HIDE DEF Term, Is
  <2>2. 0 \in 0 .. n /\ \A k \in 1 .. n : k \in 0 .. n /\ k # 0
    BY <1>1
  <2>. QED BY <2>1, <2>2
<1>5. 0 \in Good
  BY <1>4
<1>6. ASSUME NEW k \in 0 .. n - 1, k \in Good
      PROVE  k + 1 \in Good
  <2>1. k + 1 \in 1 .. n /\ (k + 1) - 1 = k /\ k \in Nat
    OBVIOUS
  <2>2. sum[k + 1] = sum[k] + IF k \in new THEN k ELSE 0
    BY <1>4, <2>1
  <2>3. sum[k] \in Nat /\ 2 * sum[k] = Sum(k)
    BY <1>6
  <2>4. k \in new <=> lo <= k /\ k < hi
    BY <2>1
  <2>. HIDE DEF new
  <2>5. sum[k + 1] \in Nat
    BY <2>1, <2>2, <2>3
  <2>6. CASE k < lo
    BY <2>1, <2>2, <2>3, <2>4, <2>6
  <2>7. CASE k >= hi
    <3>1. k \notin new /\ sum[k + 1] = sum[k]
      BY <2>1, <2>2, <2>3, <2>4, <2>7
    <3>2. Sum(k + 1) = Sum(k)
      <4>1. CASE k = lo
        <5>1. hi = lo
          BY <2>7, <4>1
        <5>. QED BY <4>1, <5>1
      <4>2. CASE k # lo
        <5>1. ~(k <= lo) /\ ~(k + 1 <= lo) /\ ~(k + 1 <= hi)
          BY <2>1, <2>7, <4>2
        <5>2. k <= hi => k = hi
          BY <2>7
        <5>. QED BY <5>1, <5>2
      <4>. QED BY <4>1, <4>2
    <3>. QED BY <2>3, <2>5, <3>1, <3>2
  <2>8. CASE lo <= k /\ k < hi
    <3>1. sum[k + 1] = sum[k] + k
      BY <2>2, <2>4, <2>8
    <3>2. Sum(k + 1) = (k + 1) * k - lo * (lo - 1)
      BY <2>1, <2>8
    <3>3. Sum(k) = k * (k - 1) - lo * (lo - 1)
      BY <2>1, <2>8
    <3>4. (k + 1) * k = k * (k - 1) + 2 * k
      BY <2>1
    <3>5. k * (k - 1) \in Int /\ lo * (lo - 1) \in Int
      BY <2>1
    <3>6. 2 * sum[k + 1] = Sum(k + 1)
      <4>. HIDE DEF Sum
      <4>. PICK K, S, T, P, Q, A, B, C :
              /\ K = k /\ S = sum[k] /\ T = sum[k + 1] /\ P = Sum(k) /\ Q = Sum(k + 1)
              /\ A = k * (k - 1) /\ B = (k + 1) * k /\ C = lo * (lo - 1)
        OBVIOUS
      <4>1. K \in Nat /\ S \in Nat /\ 2 * S = P
        BY <2>1, <2>3
      <4>2. T = S + K /\ Q = B - C /\ P = A - C
        BY <3>1, <3>2, <3>3
      <4>3. B = A + 2 * K /\ A \in Int /\ C \in Int
        BY <3>4, <3>5
      <4>4. 2 * T = Q
        BY <4>1, <4>2, <4>3
      <4>. QED BY <4>4
    <3>. HIDE DEF Sum
    <3>. QED BY <2>1, <2>5, <3>6
  <2>. QED BY <2>1, <2>6, <2>7, <2>8
<1>7. n \in Good
  <2>1. \A k \in 0 .. n - 1 : k \in Good => k + 1 \in Good
    BY <1>6
  <2>. HIDE DEF Good, n
  <2>. QED BY <1>1, <1>5, <2>1, InductionUpTo
<1>8. Sum(n) = hi * (hi - 1) - lo * (lo - 1)
  <2>1. CASE n <= lo
    <3>1. lo = n /\ hi = n
      BY <2>1
    <3>. QED BY <3>1
  <2>2. CASE ~(n <= lo) /\ n <= hi
    <3>1. hi = n
      BY <2>2
    <3>. QED BY <2>2, <3>1
  <2>3. CASE ~(n <= lo) /\ ~(n <= hi)
    BY <2>3
  <2>. QED BY <2>1, <2>2, <2>3
<1>. QED BY <1>1, <1>3, <1>7, <1>8

(* The count that setparams expects is reached with the last node and not     *)
(* before; that the first node adds nothing does no harm, since it is there   *)
(* from the start.                                                            *)
LEMMA ExpectedIs ==
    ASSUME EN_GPSZ \in Nat \ {0}, NEW c \in Nat, NEW m \in 1 .. EN_GPSZ, 2 * c = m * (m - 1)
    PROVE  c = expectedCount <=> m = EN_GPSZ
<1>. DEFINE n == EN_GPSZ
<1>1. PICK e \in Nat : 2 * e = n * (n - 1)
  <2>1. /\ Counted(0 .. n - 1) \in Nat
        /\ 2 * Counted(0 .. n - 1) = n * (n - 1) - 0 * (0 - 1)
    BY CountedIs
  <2>. QED BY <2>1
<1>2. expectedCount = e
  <2>1. (2 * e) \div 2 = e
    OBVIOUS
  <2>. QED BY <1>1, <2>1 DEF expectedCount
<1>3. m < n => m * (m - 1) < n * (n - 1)
  <2>. SUFFICES ASSUME m < n PROVE m * (m - 1) < n * (n - 1)
    OBVIOUS
  <2>1. PICK d \in Nat : n = m + 1 + d
    <3>1. n - m - 1 \in Nat /\ n = m + 1 + (n - m - 1)
      OBVIOUS
    <3>. QED BY <3>1
  <2>2. n * (n - 1) = m * (m - 1) + 2 * m + 2 * (m * d) + d * d + d
    BY <2>1
  <2>3. m * d \in Nat /\ d * d \in Nat /\ m > 0
    OBVIOUS
  <2>. QED BY <2>2, <2>3
<1>. QED BY <1>1, <1>2, <1>3
-------------------------------------------------------------------------------
(* The schedule.                                                              *)

(* How many nodes have been introduced when mp1Run has been called t times,   *)
(* how often it and join have been.                                           *)
Introduced(t) == IF StartsPerTick * t <= EN_GPSZ THEN StartsPerTick * t ELSE EN_GPSZ
Rounds == IF at = "mp1Run" THEN globaltime ELSE globaltime + 1
Looks == IF at \in {"mp1Run", "join"} THEN globaltime ELSE globaltime + 1

(* The inductive invariant: nodes are introduced in the order of their        *)
(* indices, nodeCount is the sum of their indices, and the time at which all  *)
(* had joined is that of the first join that found everyone introduced.       *)
DriverInv ==
    /\ EN_GPSZ \in GroupSizes /\ globaltime \in Nat
    /\ at \in {"mp1Run", "join", "mp2Run", "tick"}
    /\ started = 0 .. Introduced(Rounds) - 1
    /\ nodeCount \in Nat
    /\ 2 * nodeCount = Introduced(Rounds) * (Introduced(Rounds) - 1)
    /\ timeWhenAllNodesHaveJoined \in Nat
    /\ allNodesJoined \in BOOLEAN
    /\ allNodesJoined <=> Introduced(Looks) = EN_GPSZ
    /\ allNodesJoined =>
          /\ Introduced(timeWhenAllNodesHaveJoined + 1) = EN_GPSZ
          /\ timeWhenAllNodesHaveJoined # 0 => Introduced(timeWhenAllNodesHaveJoined) # EN_GPSZ
    /\ ~allNodesJoined => timeWhenAllNodesHaveJoined = 0

(* More and more nodes are introduced, and the first ones at once.            *)
LEMMA IntroducedGrows ==
    ASSUME EN_GPSZ \in Nat \ {0}, NEW t \in Nat
    PROVE  /\ Introduced(t) \in Nat /\ Introduced(t) <= EN_GPSZ
           /\ Introduced(0) = 0 /\ Introduced(t + 1) >= 1
           /\ Introduced(t) <= Introduced(t + 1)
           /\ Introduced(t) = EN_GPSZ <=> EN_GPSZ <= StartsPerTick * t
<1>1. /\ StartsPerTick * t \in Nat /\ StartsPerTick >= 1 /\ StartsPerTick \in Nat
      /\ StartsPerTick * (t + 1) = StartsPerTick * t + StartsPerTick
      /\ StartsPerTick * 0 = 0
  BY DriverAssumption, ProductsInOrder
<1>2. PICK p \in Nat : p = StartsPerTick * t
  BY <1>1
<1>3. StartsPerTick * (t + 1) = p + StartsPerTick
  BY <1>1, <1>2
<1>. QED BY <1>1, <1>2, <1>3 DEF Introduced

(* The nodes that mp1Run introduces at time t are the next ones.              *)
LEMMA Newcomers ==
    ASSUME EN_GPSZ \in Nat \ {0}, NEW t \in Nat
    PROVE  {i \in Index : StartTime(i) = t} = Introduced(t) .. Introduced(t + 1) - 1
<1>1. ASSUME NEW i \in 0 .. EN_GPSZ - 1
      PROVE  /\ StartTime(i) = t <=> (StartsPerTick * t <= i /\ i < StartsPerTick * (t + 1))
  <2>1. i \in Nat /\ StartsPerTick * t \in Nat
    BY DriverAssumption
  <2>2. /\ StartTime(i) \in Nat
        /\ StartTime(i) <= t <=> i < StartsPerTick * (t + 1)
        /\ StartTime(i) < t <=> i < StartsPerTick * t
    BY <2>1, StartTimes
  <2>. QED BY <2>1, <2>2
<1>2. PICK p \in Nat : p = StartsPerTick * t
  BY DriverAssumption
<1>3. PICK q \in Nat : q = StartsPerTick * (t + 1)
  BY DriverAssumption
<1>4. p <= q
  BY <1>2, <1>3, DriverAssumption, ProductsInOrder
<1>5. PICK n \in Nat : n = EN_GPSZ
  OBVIOUS
<1>6. PICK a \in Nat : a = Introduced(t) /\ a = IF p <= n THEN p ELSE n
  BY <1>2, <1>5 DEF Introduced
<1>7. PICK b \in Nat : b = Introduced(t + 1) /\ b = IF q <= n THEN q ELSE n
  BY <1>3, <1>5 DEF Introduced
<1>8. ASSUME NEW i \in 0 .. n - 1
      PROVE  StartTime(i) = t <=> i \in a .. b - 1
  BY <1>1, <1>2, <1>3, <1>4, <1>5, <1>6, <1>7
<1>9. \A i \in a .. b - 1 : i \in 0 .. n - 1
  BY <1>6, <1>7
<1>. QED BY <1>5, <1>6, <1>7, <1>8, <1>9 DEF Index

LEMMA DriverStarts == DriverInit => DriverInv
<1>. SUFFICES ASSUME DriverInit PROVE DriverInv
  OBVIOUS
<1>1. EN_GPSZ \in GroupSizes /\ EN_GPSZ \in Nat \ {0}
  BY DriverAssumption DEF DriverInit
<1>2. Introduced(0) = 0
  BY <1>1, IntroducedGrows
<1>3. Rounds = 0 /\ Looks = 0
  BY DEF DriverInit, Rounds, Looks
<1>4. started = 0 .. 0 - 1 /\ 2 * nodeCount = 0 * (0 - 1)
  BY DEF DriverInit
<1>. QED BY <1>1, <1>2, <1>3, <1>4 DEF DriverInv, DriverInit

LEMMA DriverSteps ==
    ASSUME DriverInv, [DriverNext]_driverVars
    PROVE  DriverInv'
<1>. PICK t \in Nat : t = globaltime
  BY DEF DriverInv
<1>1. EN_GPSZ \in GroupSizes /\ EN_GPSZ \in Nat \ {0}
  BY DriverAssumption DEF DriverInv
<1>2. /\ Introduced(t) \in Nat /\ Introduced(t + 1) \in Nat
      /\ Introduced(t) <= Introduced(t + 1) /\ Introduced(t + 1) <= EN_GPSZ
      /\ Introduced(t + 1) >= 1
  <2>1. /\ Introduced(t) \in Nat
        /\ Introduced(t) <= Introduced(t + 1) /\ Introduced(t + 1) >= 1
    BY <1>1, IntroducedGrows
  <2>2. t + 1 \in Nat
    OBVIOUS
  <2>3. Introduced(t + 1) \in Nat /\ Introduced(t + 1) <= EN_GPSZ
    BY <1>1, <2>2, IntroducedGrows
  <2>. QED BY <2>1, <2>3
<1>3. CASE mp1Run
  <2>1. Rounds = t /\ Rounds' = t + 1 /\ Looks = t /\ Looks' = t /\ EN_GPSZ' = EN_GPSZ
    BY <1>3 DEF mp1Run, Rounds, Looks
  <2>2. Introduced(Rounds)' = Introduced(t + 1) /\ Introduced(Looks)' = Introduced(t)
        /\ \A x : Introduced(x)' = Introduced(x)
    BY <2>1 DEF Introduced
  <2>3. /\ started' = started \cup (Introduced(t) .. Introduced(t + 1) - 1)
        /\ nodeCount' = nodeCount + Counted(Introduced(t) .. Introduced(t + 1) - 1)
    <3>1. {i \in Index : StartTime(i) = t} = Introduced(t) .. Introduced(t + 1) - 1
      BY <1>1, Newcomers
    <3>. QED BY <1>3, <3>1 DEF mp1Run
  <2>4. started' = 0 .. Introduced(t + 1) - 1
    <3>1. started = 0 .. Introduced(t) - 1
      BY <2>1 DEF DriverInv
    <3>. QED BY <1>2, <2>3, <3>1
  <2>5. /\ nodeCount' \in Nat
        /\ 2 * nodeCount' = Introduced(t + 1) * (Introduced(t + 1) - 1)
    <3>1. PICK a \in Nat : a = Introduced(t)
      BY <1>2
    <3>2. PICK b \in Nat : b = Introduced(t + 1)
      BY <1>2
    <3>3. PICK c : c = Counted(a .. b - 1)
      OBVIOUS
    <3>4. c \in Nat /\ 2 * c = b * (b - 1) - a * (a - 1)
      BY <1>1, <1>2, <3>1, <3>2, <3>3, CountedIs
    <3>5. nodeCount \in Nat /\ 2 * nodeCount = a * (a - 1)
      BY <2>1, <3>1 DEF DriverInv
    <3>6. nodeCount' = nodeCount + c
      BY <2>3, <3>1, <3>2, <3>3
    <3>7. PICK x \in Int : x = a * (a - 1)
      OBVIOUS
    <3>8. PICK y \in Int : y = b * (b - 1)
      OBVIOUS
    <3>9. nodeCount' \in Nat /\ 2 * nodeCount' = y
      BY <3>4, <3>5, <3>6, <3>7, <3>8
    <3>. QED BY <3>2, <3>8, <3>9
  <2>6. at' = "join" /\ UNCHANGED <<globaltime, joinVars>>
    BY <1>3 DEF mp1Run
  <2>. QED BY <1>1, <2>1, <2>2, <2>4, <2>5, <2>6 DEF DriverInv, joinVars
<1>4. CASE join
  <2>1. /\ Rounds = t + 1 /\ Rounds' = t + 1 /\ Looks = t /\ Looks' = t + 1
        /\ EN_GPSZ' = EN_GPSZ
    BY <1>4 DEF join, Rounds, Looks
  <2>2. \A x : Introduced(x)' = Introduced(x)
    BY <2>1 DEF Introduced
  <2>3. nodeCount = expectedCount <=> Introduced(t + 1) = EN_GPSZ
    <3>1. nodeCount \in Nat /\ 2 * nodeCount = Introduced(t + 1) * (Introduced(t + 1) - 1)
      BY <2>1 DEF DriverInv
    <3>2. Introduced(t + 1) \in 1 .. EN_GPSZ
      BY <1>1, <1>2
    <3>. QED BY <1>1, <3>1, <3>2, ExpectedIs
  <2>4. Introduced(t) = EN_GPSZ => Introduced(t + 1) = EN_GPSZ
    BY <1>1, <1>2
  <2>5. /\ allNodesJoined \in BOOLEAN /\ timeWhenAllNodesHaveJoined \in Nat
        /\ allNodesJoined <=> Introduced(t) = EN_GPSZ
    BY <2>1 DEF DriverInv
  <2>6. /\ EN_GPSZ' \in GroupSizes /\ globaltime' \in Nat
        /\ at' \in {"mp1Run", "join", "mp2Run", "tick"}
        /\ started' = 0 .. Introduced(Rounds)' - 1
        /\ nodeCount' \in Nat
        /\ 2 * nodeCount' = Introduced(Rounds)' * (Introduced(Rounds)' - 1)
    <3>1. Introduced(Rounds)' = Introduced(Rounds)
      BY <2>1 DEF Introduced
    <3>. QED BY <1>4, <2>1, <3>1 DEF join, DriverInv
  <2>7. Introduced(Looks)' = Introduced(t + 1)
    BY <2>1 DEF Introduced
  <2>8. CASE nodeCount = expectedCount /\ ~allNodesJoined
    <3>1. allNodesJoined' = TRUE /\ timeWhenAllNodesHaveJoined' = t
      BY <1>4, <2>8 DEF join
    <3>2. Introduced(timeWhenAllNodesHaveJoined + 1)' = Introduced(t + 1)
          /\ Introduced(timeWhenAllNodesHaveJoined)' = Introduced(t)
      BY <2>1, <3>1 DEF Introduced
    <3>. QED BY <2>1, <2>3, <2>5, <2>6, <2>7, <2>8, <3>1, <3>2 DEF DriverInv
  <2>9. CASE ~(nodeCount = expectedCount /\ ~allNodesJoined)
    <3>1. UNCHANGED <<allNodesJoined, timeWhenAllNodesHaveJoined>>
      BY <1>4, <2>9 DEF join, joinVars
    <3>2. Introduced(timeWhenAllNodesHaveJoined + 1)' = Introduced(timeWhenAllNodesHaveJoined + 1)
          /\ Introduced(timeWhenAllNodesHaveJoined)' = Introduced(timeWhenAllNodesHaveJoined)
      BY <2>1, <3>1 DEF Introduced
    <3>. QED BY <2>1, <2>3, <2>4, <2>5, <2>6, <2>7, <2>9, <3>1, <3>2 DEF DriverInv
  <2>. QED BY <2>8, <2>9
<1>5. CASE mp2Run \/ UNCHANGED driverVars
  <2>1. /\ Rounds' = Rounds /\ Looks' = Looks /\ at' \in {"mp1Run", "join", "mp2Run", "tick"}
        /\ UNCHANGED <<EN_GPSZ, globaltime, started, nodeCount, allNodesJoined, timeWhenAllNodesHaveJoined>>
    BY <1>5 DEF mp2Run, driverVars, joinVars, Rounds, Looks, DriverInv
  <2>2. Introduced(Rounds)' = Introduced(Rounds) /\ Introduced(Looks)' = Introduced(Looks)
        /\ Introduced(timeWhenAllNodesHaveJoined + 1)' = Introduced(timeWhenAllNodesHaveJoined + 1)
        /\ Introduced(timeWhenAllNodesHaveJoined)' = Introduced(timeWhenAllNodesHaveJoined)
    BY <2>1 DEF Introduced
  <2>. QED BY <2>1, <2>2 DEF DriverInv
<1>6. CASE tick
  <2>1. /\ Rounds' = Rounds /\ Looks' = Looks /\ at' = "mp1Run" /\ globaltime' \in Nat
        /\ UNCHANGED <<EN_GPSZ, started, nodeCount, allNodesJoined, timeWhenAllNodesHaveJoined>>
    BY <1>6 DEF tick, joinVars, Rounds, Looks
  <2>2. Introduced(Rounds)' = Introduced(Rounds) /\ Introduced(Looks)' = Introduced(Looks)
        /\ Introduced(timeWhenAllNodesHaveJoined + 1)' = Introduced(timeWhenAllNodesHaveJoined + 1)
        /\ Introduced(timeWhenAllNodesHaveJoined)' = Introduced(timeWhenAllNodesHaveJoined)
    BY <2>1 DEF Introduced
  <2>. QED BY <2>1, <2>2 DEF DriverInv
<1>7. CASE Finished
  BY <1>5, <1>7 DEF Finished
<1>. QED BY <1>3, <1>4, <1>5, <1>6, <1>7 DEF DriverNext

LEMMA Scheduled == DriverSpec => []DriverInv
<1>. QED BY DriverStarts, DriverSteps, PTL DEF DriverSpec

(* The program takes the group for complete in the tick in which the last     *)
(* node is introduced, and not before, whatever the size of the group and the *)
(* rate of introduction.                                                      *)
THEOREM GroupIsComplete == DriverSpec => []JoinIsExact
<1>1. ASSUME DriverInv PROVE JoinIsExact
  <2>1. SUFFICES ASSUME at \notin {"mp1Run", "join"} \/ (at = "mp1Run" /\ globaltime > 0)
                 PROVE  allNodesJoined <=> started = Index
    BY DEF JoinIsExact
  <2>2. Looks = Rounds /\ Rounds \in Nat
    BY <1>1, <2>1 DEF DriverInv, Looks, Rounds
  <2>3. EN_GPSZ \in Nat \ {0}
    BY <1>1, DriverAssumption DEF DriverInv
  <2>4. PICK m \in Nat : m = Introduced(Rounds) /\ m <= EN_GPSZ
    BY <2>2, <2>3, IntroducedGrows
  <2>5. allNodesJoined <=> m = EN_GPSZ
    BY <1>1, <2>2, <2>4 DEF DriverInv
  <2>6. started = 0 .. m - 1
    BY <1>1, <2>4 DEF DriverInv
  <2>7. m # EN_GPSZ => EN_GPSZ - 1 \in Index /\ EN_GPSZ - 1 \notin started
    BY <2>3, <2>4, <2>6 DEF Index
  <2>. QED BY <2>5, <2>6, <2>7 DEF Index
<1>. QED BY <1>1, Scheduled, PTL

(* The wait of JOIN_WAIT ticks counts from 0 until all have joined: the store *)
(* runs too early unless all nodes are introduced by the tick after that.     *)
WaitFits == \A n \in GroupSizes : n <= StartsPerTick * (JOIN_WAIT + 2)

StoreInv ==
    /\ DriverInv
    /\ storeRan \in Nat
    /\ storeRan # 0 \/ at = "mp2Run" => allNodesJoined
    /\ storeRan # 0 => storeRan > timeWhenAllNodesHaveJoined + JOIN_WAIT
    /\ at = "mp2Run" => globaltime > timeWhenAllNodesHaveJoined + JOIN_WAIT

LEMMA StoreSteps ==
    ASSUME WaitFits, StoreInv, [DriverNext]_driverVars
    PROVE  StoreInv'
<1>1. DriverInv /\ DriverInv'
  BY DriverSteps DEF StoreInv
<1>. PICK t \in Nat : t = globaltime
  BY <1>1 DEF DriverInv
<1>2. CASE join
  <2>1. Looks = t /\ Looks' = t + 1 /\ globaltime' = t /\ storeRan' = storeRan
        /\ EN_GPSZ' = EN_GPSZ
    BY <1>2 DEF join, Looks
  <2>2. /\ allNodesJoined => allNodesJoined' /\ UNCHANGED timeWhenAllNodesHaveJoined
        /\ at' = IF globaltime > timeWhenAllNodesHaveJoined' + JOIN_WAIT THEN "mp2Run" ELSE "tick"
    BY <1>2 DEF join, joinVars
  <2>3. at' = "mp2Run" => allNodesJoined'
    <3>. SUFFICES ASSUME at' = "mp2Run", ~allNodesJoined' PROVE FALSE
      BY <1>1 DEF DriverInv
    <3>1. timeWhenAllNodesHaveJoined' = 0 /\ t >= 51
      BY <1>1, <2>2 DEF DriverInv, JOIN_WAIT
    <3>2. EN_GPSZ \in Nat \ {0} /\ EN_GPSZ <= StartsPerTick * 52
      BY <1>1, DriverAssumption DEF DriverInv, WaitFits, JOIN_WAIT
    <3>3. StartsPerTick * 52 <= StartsPerTick * (t + 1)
      <4>1. t + 1 \in Nat /\ 52 <= t + 1 /\ 52 \in Nat
        BY <3>1
      <4>. QED BY <4>1, DriverAssumption, ProductsInOrder
    <3>4. Introduced(t + 1) = EN_GPSZ
      BY <3>2, <3>3, DriverAssumption DEF Introduced
    <3>5. Introduced(Looks)' = Introduced(t + 1)
      BY <2>1 DEF Introduced
    <3>. QED BY <1>1, <3>4, <3>5, <2>1 DEF DriverInv
  <2>4. timeWhenAllNodesHaveJoined' \in Nat
    BY <1>1 DEF DriverInv
  <2>. QED BY <1>1, <2>1, <2>2, <2>3, <2>4 DEF StoreInv, JOIN_WAIT
<1>3. CASE mp2Run
  BY <1>1, <1>3 DEF mp2Run, joinVars, StoreInv
<1>4. CASE mp1Run \/ tick
  <2>1. /\ UNCHANGED <<allNodesJoined, timeWhenAllNodesHaveJoined, storeRan>>
        /\ at' # "mp2Run"
    BY <1>4 DEF mp1Run, tick, joinVars
  <2>. QED BY <1>1, <2>1 DEF StoreInv
<1>5. CASE Finished \/ UNCHANGED driverVars
  <2>1. /\ UNCHANGED <<allNodesJoined, timeWhenAllNodesHaveJoined, storeRan, globaltime, at>>
    BY <1>5 DEF Finished, driverVars, joinVars
  <2>. QED BY <1>1, <2>1 DEF StoreInv
<1>. QED BY <1>2, <1>3, <1>4, <1>5 DEF DriverNext

(* In every group that fits, the store first runs when every node has been    *)
(* introduced for more than JOIN_WAIT ticks.                                  *)
THEOREM StoreWaitsForAll == WaitFits => (DriverSpec => []StoreWaits)
<1>. SUFFICES ASSUME WaitFits PROVE DriverSpec => []StoreWaits
  OBVIOUS
<1>1. DriverInit => StoreInv
  BY DriverStarts DEF StoreInv, DriverInit
<1>2. StoreInv /\ [DriverNext]_driverVars => StoreInv'
  BY StoreSteps
<1>3. ASSUME StoreInv PROVE StoreWaits
  <2>1. SUFFICES ASSUME storeRan # 0
                 PROVE  started = Index /\ \A i \in started : storeRan > StartTime(i) + JOIN_WAIT
    BY DEF StoreWaits
  <2>2. PICK w \in Nat : w = timeWhenAllNodesHaveJoined
    BY <1>3 DEF StoreInv, DriverInv
  <2>3. storeRan \in Nat /\ storeRan > w + JOIN_WAIT /\ Introduced(w + 1) = EN_GPSZ
        /\ Introduced(Looks) = EN_GPSZ
    BY <1>3, <2>1, <2>2 DEF StoreInv, DriverInv
  <2>4. EN_GPSZ \in Nat \ {0} /\ Looks \in Nat /\ (Rounds = Looks \/ Rounds = Looks + 1)
    BY <1>3, DriverAssumption DEF StoreInv, DriverInv, Looks, Rounds
  <2>5. Introduced(Rounds) = EN_GPSZ
    <3>1. Introduced(Looks) <= Introduced(Looks + 1) /\ Introduced(Looks) \in Nat
      BY <2>4, IntroducedGrows
    <3>2. Looks + 1 \in Nat
      BY <2>4
    <3>3. Introduced(Looks + 1) <= EN_GPSZ /\ Introduced(Looks + 1) \in Nat
      BY <2>4, <3>2, IntroducedGrows
    <3>. QED BY <2>3, <2>4, <3>1, <3>3
  <2>6. started = Index
    BY <1>3, <2>5 DEF StoreInv, DriverInv, Index
  <2>7. EN_GPSZ <= StartsPerTick * (w + 1)
    <3>1. w + 1 \in Nat
      OBVIOUS
    <3>. QED BY <2>3, <2>4, <3>1, IntroducedGrows
  <2>8. ASSUME NEW i \in started PROVE storeRan > StartTime(i) + JOIN_WAIT
    <3>1. i \in Nat /\ i < EN_GPSZ
      BY <2>4, <2>6 DEF Index
    <3>2. StartsPerTick * (w + 1) \in Nat
      BY DriverAssumption
    <3>3. StartTime(i) \in Nat /\ StartTime(i) <= w
      BY <2>4, <2>7, <3>1, <3>2, StartTimes
    <3>. QED BY <2>3, <3>3 DEF JOIN_WAIT
  <2>. QED BY <2>6, <2>8
<1>. QED BY <1>1, <1>2, <1>3, PTL DEF DriverSpec

(* Pairs are inserted in the tick INSERT_TIME alone, which must come when the *)
(* store runs already.                                                        *)
InsertionFits == \A n \in GroupSizes : n <= StartsPerTick * (INSERT_TIME - JOIN_WAIT)

TestsInv ==
    /\ DriverInv
    /\ globaltime > INSERT_TIME \/ (globaltime = INSERT_TIME /\ at = "tick") => inserted

LEMMA TestsSteps ==
    ASSUME InsertionFits, TestsInv, [DriverNext]_driverVars
    PROVE  TestsInv'
<1>1. DriverInv /\ DriverInv'
  BY DriverSteps DEF TestsInv
<1>. PICK t \in Nat : t = globaltime
  BY <1>1 DEF DriverInv
<1>2. CASE join
  <2>1. Looks' = t + 1 /\ globaltime' = t /\ inserted' = inserted /\ EN_GPSZ' = EN_GPSZ
        /\ at' = IF t > timeWhenAllNodesHaveJoined' + JOIN_WAIT THEN "mp2Run" ELSE "tick"
    BY <1>2 DEF join, Looks
  <2>2. PICK w \in Nat : w = timeWhenAllNodesHaveJoined'
    BY <1>1 DEF DriverInv
  <2>3. EN_GPSZ \in Nat \ {0} /\ EN_GPSZ <= StartsPerTick * 50
    BY <1>1, DriverAssumption DEF DriverInv, InsertionFits, JOIN_WAIT, INSERT_TIME
  <2>4. w <= 49
    <3>. SUFFICES ASSUME w >= 50 PROVE FALSE
      OBVIOUS
    <3>1. Introduced(timeWhenAllNodesHaveJoined)' = Introduced(w)
      BY <2>1, <2>2 DEF Introduced
    <3>2. Introduced(w) # EN_GPSZ
      BY <1>1, <2>1, <2>2, <3>1 DEF DriverInv
    <3>3. StartsPerTick * 50 <= StartsPerTick * w
      <4>1. 50 \in Nat /\ 50 <= w
        OBVIOUS
      <4>. QED BY <4>1, DriverAssumption, ProductsInOrder
    <3>4. EN_GPSZ <= StartsPerTick * w
      BY <2>3, <3>3, DriverAssumption
    <3>. QED BY <2>3, <3>2, <3>4, IntroducedGrows
  <2>5. t = INSERT_TIME => at' = "mp2Run"
    <3>1. t = INSERT_TIME => t > w + JOIN_WAIT
      BY <2>4 DEF INSERT_TIME, JOIN_WAIT
    <3>. QED BY <2>1, <2>2, <3>1
  <2>. QED BY <1>1, <1>2, <2>1, <2>5 DEF TestsInv, join
<1>3. CASE mp2Run
  <2>1. globaltime' = t /\ inserted' = (inserted \/ t = INSERT_TIME)
    BY <1>3 DEF mp2Run, InsertsNow
  <2>2. t > INSERT_TIME => inserted
    BY DEF TestsInv
  <2>3. t = INSERT_TIME \/ t > INSERT_TIME \/ t < INSERT_TIME
    BY DEF INSERT_TIME
  <2>. QED BY <1>1, <2>1, <2>2 DEF TestsInv, INSERT_TIME
<1>4. CASE mp1Run
  BY <1>1, <1>4 DEF mp1Run, TestsInv
<1>5. CASE tick
  <2>1. globaltime' = t + 1 /\ at = "tick" /\ at' = "mp1Run" /\ inserted' = inserted
    BY <1>5 DEF tick
  <2>2. t + 1 > INSERT_TIME => t > INSERT_TIME \/ t = INSERT_TIME
    BY DEF INSERT_TIME
  <2>. QED BY <1>1, <2>1, <2>2 DEF TestsInv
<1>6. CASE Finished \/ UNCHANGED driverVars
  <2>1. UNCHANGED <<globaltime, at, inserted>>
    BY <1>6 DEF Finished, driverVars
  <2>. QED BY <1>1, <2>1 DEF TestsInv
<1>. QED BY <1>2, <1>3, <1>4, <1>5, <1>6 DEF DriverNext

(* In every group that fits, the pairs are there before the tests use them.   *)
THEOREM PairsAreThere == InsertionFits => (DriverSpec => []TestsHavePairs)
<1>. SUFFICES ASSUME InsertionFits PROVE DriverSpec => []TestsHavePairs
  OBVIOUS
<1>1. DriverInit => TestsInv
  BY DriverStarts DEF TestsInv, DriverInit, INSERT_TIME
<1>2. TestsInv /\ [DriverNext]_driverVars => TestsInv'
  BY TestsSteps
<1>3. TestsInv => TestsHavePairs
  BY DEF TestsInv, DriverInv, TestsHavePairs, INSERT_TIME, TEST_TIME
<1>. QED BY <1>1, <1>2, <1>3, PTL DEF DriverSpec

-------------------------------------------------------------------------------
(* Random nodes.                                                              *)

(* What a caller has drawn so far will do, while it draws.                    *)
PickInv ==
    /\ wants \in 0 .. 2 /\ got \in Seq(Peer) /\ bFailed \subseteq Peer
    /\ caller = Driver => wants <= 1
    /\ ~Idle =>
          /\ Len(got) <= wants
          /\ \A m, n \in DOMAIN got : got[m] = got[n] => m = n
          /\ caller \notin ToSet(got)
          /\ caller = Driver => ToSet(got) \cap bFailed = {}

LEMMA PickStarts == PickInit => PickInv
BY DEF PickInit, PickInv, Idle

LEMMA PickSteps ==
    ASSUME PickInv, [PickNext]_pickVars
    PROVE  PickInv'
<1>1. CASE \E i \in Peer : sendGossip(i) \/ sendPing(i)
  <2>1. PICK i \in Peer, n \in 1 .. 2 : Calls(i, n)
    BY <1>1 DEF sendGossip, sendPing
  <2>2. i # Driver
    BY SizeAssumption DEF Peer, Driver
  <2>. QED BY <2>1, <2>2 DEF Calls, PickInv, ToSet
<1>2. CASE findARandomNodeThatIsAlive
  <2>1. got' = <<>> /\ wants' = 1 /\ bFailed' = bFailed
    BY <1>2 DEF findARandomNodeThatIsAlive, Calls
  <2>2. ToSet(got') = {} /\ Len(got') = 0 /\ DOMAIN got' = {}
    BY <2>1 DEF ToSet
  <2>. QED BY <2>1, <2>2 DEF PickInv
<1>3. CASE \E i \in Peer : fail(i)
  BY <1>3 DEF fail, PickInv, Idle
<1>4. ASSUME NEW x \in Peer, Draws(x)
      PROVE  PickInv'
  <2>1. UNCHANGED <<bFailed, caller, wants>> /\ Len(got) < wants
    BY <1>4 DEF Draws
  <2>2. CASE ~Suits(x)
    <3>1. got' = got
      BY <1>4, <2>2 DEF Draws
    <3>. QED BY <2>1, <3>1 DEF PickInv, Idle
  <2>3. CASE Suits(x)
    <3>1. got' = Append(got, x) /\ ~Idle
      <4>1. Len(got) \in Nat /\ wants \in Nat
        BY DEF PickInv
      <4>. QED BY <1>4, <2>1, <2>3, <4>1 DEF Draws, Idle
    <3>2. PICK k \in Nat : k = Len(got) /\ DOMAIN got = 1 .. k
      BY DEF PickInv
    <3>3. /\ got' \in Seq(Peer) /\ Len(got') = k + 1 /\ DOMAIN got' = 1 .. k + 1
          /\ got'[k + 1] = x /\ \A n \in 1 .. k : got'[n] = got[n]
      BY <3>1, <3>2 DEF PickInv
    <3>4. ToSet(got') = ToSet(got) \cup {x}
      BY <3>2, <3>3 DEF ToSet
    <3>5. x \notin ToSet(got)
      <4>1. CASE caller = Driver
        <5>1. k = 0
          BY <2>1, <3>2, <4>1 DEF PickInv
        <5>. QED BY <3>2, <5>1 DEF ToSet
      <4>2. CASE caller # Driver
        BY <2>3, <4>2 DEF Suits
      <4>. QED BY <4>1, <4>2
    <3>6. x # caller /\ (caller = Driver => x \notin bFailed)
      <4>1. x # Driver
        BY SizeAssumption DEF Peer, Driver
      <4>. QED BY <2>3, <4>1 DEF Suits
    <3>7. \A m, n \in DOMAIN got' : got'[m] = got'[n] => m = n
      <4>1. \A n \in 1 .. k : got[n] # x
        BY <3>2, <3>5 DEF ToSet
      <4>2. \A m, n \in 1 .. k : got[m] = got[n] => m = n
        BY <3>1, <3>2 DEF PickInv
      <4>. QED BY <3>3, <4>1, <4>2
    <3>8. Len(got') <= wants /\ ~Idle'
      BY <2>1, <3>1, <3>2, <3>3 DEF PickInv, Idle
    <3>9. caller \notin ToSet(got') /\ (caller = Driver => ToSet(got') \cap bFailed = {})
      BY <3>1, <3>4, <3>6 DEF PickInv
    <3>. QED BY <2>1, <3>3, <3>7, <3>8, <3>9 DEF PickInv
  <2>. QED BY <2>2, <2>3
<1>5. CASE Returns
  BY <1>5 DEF Returns, PickInv, Idle
<1>6. CASE UNCHANGED pickVars
  BY <1>6 DEF pickVars, PickInv, Idle
<1>. QED BY <1>1, <1>2, <1>3, <1>4, <1>5, <1>6 DEF PickNext

(* Whoever asks for n random nodes gets n different ones, never itself; and   *)
(* the driver never a node that has failed.                                   *)
THEOREM PicksAreGood == PickSpec => []GoodPicks
<1>1. ASSUME PickInv PROVE GoodPicks
  <2>1. SUFFICES ASSUME ~Idle, Len(got) = wants
                 PROVE  /\ Cardinality(ToSet(got)) = wants /\ ToSet(got) \subseteq Peer \ {caller}
                        /\ caller = Driver => ToSet(got) \cap bFailed = {}
    BY DEF GoodPicks
  <2>2. ToSet(got) \subseteq Peer \ {caller} /\ (caller = Driver => ToSet(got) \cap bFailed = {})
    BY <1>1, <2>1 DEF PickInv, ToSet
  <2>3. CASE wants = 1
    <3>1. ToSet(got) = {got[1]}
      <4>1. DOMAIN got = 1 .. 1
        BY <1>1, <2>1, <2>3 DEF PickInv
      <4>. QED BY <4>1 DEF ToSet
    <3>. QED BY <2>2, <2>3, <3>1, FS_Singleton
  <2>4. CASE wants = 2
    <3>1. DOMAIN got = 1 .. 2
      BY <1>1, <2>1, <2>4 DEF PickInv
    <3>2. ToSet(got) = {got[1]} \cup {got[2]} /\ got[1] # got[2]
      BY <1>1, <2>1, <3>1 DEF PickInv, ToSet
    <3>3. IsFiniteSet({got[1]}) /\ Cardinality({got[1]}) = 1 /\ got[2] \notin {got[1]}
      BY <3>2, FS_Singleton
    <3>4. Cardinality(ToSet(got)) = 2
      BY <3>2, <3>3, FS_AddElement
    <3>. QED BY <2>2, <2>4, <3>4
  <2>5. wants = 1 \/ wants = 2
    BY <1>1, <2>1 DEF PickInv, Idle
  <2>. QED BY <2>3, <2>4, <2>5
<1>. QED BY <1>1, PickStarts, PickSteps, PTL DEF PickSpec
===============================================================================
