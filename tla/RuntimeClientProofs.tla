-------------------------- MODULE RuntimeClientProofs --------------------------
(***************************************************************************)
(* Theorems of the runtime client, for any gates, windows, emitters and    *)
(* queue: a measured gate lies above the room, events stay in order, the   *)
(* recording gates agree but for the lines on their way, a client is       *)
(* turned away only by what it left behind, verdicts follow payload and    *)
(* order.                                                                  *)
(***************************************************************************)
EXTENDS RuntimeClient, SequenceTheorems, FiniteSetTheorems,
        WellFoundedInduction, TLAPS

-----------------------------------------------------------------------------
\* Order statistics.

\* A set of numbers that is not empty has a least one.
LEMMA LeastNumber ==
  ASSUME NEW S, S \subseteq Nat, S # {}
  PROVE  \E n \in S : \A m \in S : n <= m
  <1>1. PICK R : IsWellFoundedOn(R, Nat) /\ R = {ss \in Nat \X Nat : ss[1] < ss[2]}
    BY Zenon, NatLessThanWellFounded DEF OpToRel
  <1>2. PICK n \in S : \A m \in S : <<m, n>> \notin R
    BY <1>1, WFMin
  <1>3. ASSUME NEW m \in S PROVE n <= m
    <2>1. m \in Nat /\ n \in Nat
      OBVIOUS
    <2>2. ~(m < n)
      BY <1>1, <1>2, <2>1
    <2> QED
      BY <2>1, <2>2
  <1> QED
    BY <1>3

LEMMA Ordered ==
  ASSUME NEW a \in Nat, NEW b \in Nat
  PROVE  /\ a < b \/ b <= a
         /\ a = b \/ a < b => a <= b
         /\ \A c \in Nat : a < b /\ b <= c => a <= c
  OBVIOUS

\* Of two numbers one is the less, or they are equal.
LEMMA Apart ==
  \A i, j \in Int : /\ i < j => i # j /\ ~(j < i)
                    /\ i < j \/ i = j \/ j < i
                    /\ ~(i < j) => j <= i
                    /\ \A k \in Int : (i < j /\ j < k => i < k) /\ (i <= j /\ j < k => i < k)
  OBVIOUS

\* The first n of n + 1 samples are in order.
Begun(samples, order, n) ==
  /\ samples \in [1..n + 1 -> Nat] /\ order \in [1..n -> 1..n]
  /\ \A i, j \in 1..n : i < j => order[i] # order[j] /\ samples[order[i]] <= samples[order[j]]

\* Samples one of which has been put behind those that are in order already.
LEMMA Inserted ==
  ASSUME NEW n \in Nat, NEW samples, NEW order, Begun(samples, order, n)
  PROVE  Orders(samples) # {}
  <1> DEFINE last == samples[n + 1]
             at(i) == samples[order[i]]
  <1>1. /\ n + 1 \in 1..n + 1 /\ last \in Nat
        /\ \A i \in 1..n : order[i] \in 1..n /\ at(i) \in Nat
    <2>1. \A i \in 1..n : order[i] \in 1..n
      BY DEF Begun
    <2>2. 1..n \subseteq 1..n + 1 /\ n + 1 \in 1..n + 1
      OBVIOUS
    <2>3. \A i \in 1..n + 1 : samples[i] \in Nat
      BY DEF Begun
    <2> QED
      BY <2>1, <2>2, <2>3
  <1>2. \A i, j \in 1..n : i < j => order[i] # order[j] /\ at(i) <= at(j)
    BY DEF Begun
  <1>3. DOMAIN samples = 1..n + 1
    BY DEF Begun
  <1> HIDE DEF last, at
  <1> DEFINE Above == {i \in 1..n : last < at(i)} \union {n + 1}
  <1>4. PICK k \in Above : \A i \in Above : k <= i
    <2>1. Above \subseteq Nat /\ n + 1 \in Above
      OBVIOUS
    <2> HIDE DEF Above
    <2> QED
      BY <2>1, LeastNumber
  <1>5. k \in 1..n + 1 /\ k \in Int
    BY <1>1
  <1>6. ASSUME NEW i \in 1..n, i < k PROVE at(i) <= last
    <2>1. i \in Int /\ k \in Int
      BY <1>5
    <2>2. ~(k <= i)
      BY <1>6, <2>1
    <2> HIDE DEF Above
    <2>3. i \notin Above
      BY <1>4, <2>2
    <2> USE DEF Above
    <2>4. ~(last < at(i))
      BY <2>3
    <2> QED
      BY <1>1, <2>4, Ordered
  <1>7. ASSUME NEW i \in 1..n, k <= i PROVE last <= at(i)
    <2>1. k # n + 1 /\ k \in 1..n /\ i \in Int
      BY <1>5, <1>7
    <2>2. last < at(k)
      BY <1>4, <2>1
    <2> HIDE DEF Above
    <2>3. k = i \/ k < i
      BY <1>5, <1>7, <2>1
    <2>4. k = i \/ at(k) <= at(i)
      BY <1>2, <2>1, <2>3
    <2>5. last \in Nat /\ at(i) \in Nat /\ at(k) \in Nat
      BY <1>1, <2>1
    <2>6. CASE k = i
      BY <2>2, <2>5, <2>6, Ordered
    <2>7. CASE at(k) <= at(i)
      BY <2>2, <2>5, <2>7, Ordered
    <2> QED
      BY <2>4, <2>6, <2>7
  <1> HIDE DEF Above
  <1> DEFINE new == [i \in 1..n + 1 |-> IF i < k THEN order[i] ELSE IF i = k THEN n + 1 ELSE order[i - 1]]
  <1>8. \A i \in 1..n + 1 :
          \/ i < k /\ i \in 1..n /\ new[i] = order[i]
          \/ i = k /\ new[i] = n + 1
          \/ k < i /\ i - 1 \in 1..n /\ new[i] = order[i - 1]
    BY <1>5
  <1>9. new \in [1..n + 1 -> 1..n + 1]
    <2> SUFFICES ASSUME NEW i \in 1..n + 1 PROVE new[i] \in 1..n + 1
      OBVIOUS
    <2> HIDE DEF new
    <2>1. 1..n \subseteq 1..n + 1
      OBVIOUS
    <2> QED
      BY <1>1, <1>8, <2>1
  <1> HIDE DEF new
  <1>10. ASSUME NEW i \in 1..n + 1, NEW j \in 1..n + 1, i < j
         PROVE  new[i] # new[j] /\ samples[new[i]] <= samples[new[j]]
    <2>1. i \in Int /\ j \in Int /\ k \in Int /\ ~(n + 1 \in 1..n)
      BY <1>5
    <2>2. CASE j < k
      <3>1. i < k /\ i # k /\ j # k /\ ~(k < i) /\ ~(k < j)
        BY Zenon, <1>10, <2>1, <2>2, Apart
      <3>2. new[i] = order[i] /\ new[j] = order[j] /\ i \in 1..n /\ j \in 1..n
        BY Zenon, <1>8, <3>1
      <3> QED
        BY Zenon, <1>2, <1>10, <3>2 DEF at
    <2>3. CASE j = k
      <3>1. i < k /\ i # k /\ ~(k < i) /\ ~(j < k) /\ ~(k < j)
        BY Zenon, <1>10, <2>1, <2>3, Apart
      <3>2. new[i] = order[i] /\ new[j] = n + 1 /\ i \in 1..n
        BY Zenon, <1>8, <2>3, <3>1
      <3>3. order[i] \in 1..n /\ at(i) <= last
        BY Zenon, <1>1, <1>6, <3>1, <3>2
      <3> QED
        BY Zenon, <2>1, <3>2, <3>3 DEF at, last
    <2>4. CASE k < j /\ i < k
      <3>1. i # k /\ j # k /\ ~(k < i) /\ ~(j < k)
        BY Zenon, <2>1, <2>4, Apart
      <3>2. new[i] = order[i] /\ new[j] = order[j - 1] /\ i \in 1..n /\ j - 1 \in 1..n
        BY Zenon, <1>8, <2>4, <3>1
      <3>3. i < j - 1
        BY <2>1, <2>4
      <3> QED
        BY Zenon, <1>2, <3>2, <3>3 DEF at
    <2>5. CASE i = k
      <3>1. ~(i < k) /\ ~(k < i) /\ k < j /\ j # k /\ ~(j < k)
        BY Zenon, <1>10, <2>1, <2>5, Apart
      <3>2. new[i] = n + 1 /\ new[j] = order[j - 1] /\ j - 1 \in 1..n
        BY Zenon, <1>8, <2>5, <3>1
      <3>3. k <= j - 1
        BY <2>1, <3>1
      <3>4. order[j - 1] \in 1..n /\ last <= at(j - 1)
        BY Zenon, <1>1, <1>7, <3>2, <3>3
      <3> QED
        BY Zenon, <2>1, <3>2, <3>4 DEF at, last
    <2>6. CASE k < i
      <3>1. k < j /\ i # k /\ j # k /\ ~(i < k) /\ ~(j < k)
        BY Zenon, <1>10, <2>1, <2>6, Apart
      <3>2. new[i] = order[i - 1] /\ new[j] = order[j - 1] /\ i - 1 \in 1..n /\ j - 1 \in 1..n
        BY Zenon, <1>8, <2>6, <3>1
      <3>3. i - 1 < j - 1
        BY <1>10, <2>1
      <3> QED
        BY Zenon, <1>2, <3>2, <3>3 DEF at
    <2> QED
      BY Zenon, <2>1, <2>2, <2>3, <2>4, <2>5, <2>6, Apart
  <1>11. new \in Orders(samples)
    BY <1>3, <1>9, <1>10 DEF Orders
  <1> QED
    BY <1>11

\* Samples can be put in order, by insertion.
LEMMA OrdersExist ==
  ASSUME NEW samples \in Seq(Nat)
  PROVE  Orders(samples) # {}
  <1> DEFINE Unordered == {n \in Nat : \E s \in [1..n -> Nat] : Orders(s) = {}}
  <1>1. Unordered = {}
    <2> SUFFICES ASSUME Unordered # {} PROVE FALSE
      OBVIOUS
    <2>1. PICK n \in Unordered : \A m \in Unordered : n <= m
      BY LeastNumber
    <2>2. PICK s \in [1..n -> Nat] : Orders(s) = {}
      BY <2>1
    <2>3. CASE n = 0
      <3>1. s \in Orders(s)
        BY <2>3 DEF Orders
      <3> QED
        BY <3>1, <2>2
    <2>4. CASE n > 0
      <3>1. n - 1 \in Nat /\ n - 1 \notin Unordered
        <4>1. n \in Nat
          OBVIOUS
        <4> HIDE DEF Unordered
        <4>2. n - 1 \in Nat /\ ~(n <= n - 1)
          BY <2>4, <4>1
        <4> QED
          BY <2>1, <4>2
      <3> DEFINE t == [i \in 1..n - 1 |-> s[i]]
      <3>2. t \in [1..n - 1 -> Nat]
        BY <3>1
      <3>3. PICK order \in Orders(t) : TRUE
        BY <3>1, <3>2
      <3>4. DOMAIN t = 1..n - 1
        OBVIOUS
      <3>5. order \in [1..n - 1 -> 1..n - 1]
        BY <3>3, <3>4 DEF Orders
      <3>6. \A i, j \in 1..n - 1 : i < j => order[i] # order[j] /\ s[order[i]] <= s[order[j]]
        BY <3>3, <3>4, <3>5 DEF Orders
      <3>7. n - 1 + 1 = n
        BY <2>1
      <3>8. Begun(s, order, n - 1)
        BY <3>5, <3>6, <3>7 DEF Begun
      <3> QED
        BY <3>1, <3>8, Inserted, <2>2
    <2> QED
      BY <2>1, <2>3, <2>4
  <1>2. samples \in [1..Len(samples) -> Nat] /\ Len(samples) \in Nat
    BY LenProperties
  <1> QED
    BY <1>1, <1>2

\* What is in order is a rearrangement.
LEMMA InOrder ==
  ASSUME NEW samples \in Seq(Nat)
  PROVE  \A i \in DOMAIN samples : \E j \in DOMAIN samples : Sorted(samples)[i] = samples[j]
  <1> DEFINE order == CHOOSE order \in Orders(samples) : TRUE
  <1>1. order \in Orders(samples)
    BY OrdersExist
  <1>2. Sorted(samples) = [i \in DOMAIN samples |-> samples[order[i]]]
    BY DEF Sorted
  <1> HIDE DEF order
  <1>3. order \in [DOMAIN samples -> DOMAIN samples]
    BY <1>1 DEF Orders
  <1>5. \A i \in DOMAIN samples : order[i] \in DOMAIN samples /\ Sorted(samples)[i] = samples[order[i]]
    BY <1>2, <1>3
  <1> QED
    BY <1>5

\* A percentile lies where its samples lie, interpolated or not.
LEMMA FloorBelow ==
  ASSUME NEW samples \in Seq(Nat), samples # <<>>, NEW bound \in Nat,
         \A i \in DOMAIN samples : 100 * samples[i] < bound
  PROVE  NoiseFloor(samples) \in Nat /\ NoiseFloor(samples) < bound
  <1> DEFINE n == Len(samples)
             rank == 9 * (n - 1)
             low == Sorted(samples)[rank \div 10 + 1]
             high == Sorted(samples)[rank \div 10 + 2]
  <1>1. n \in Nat \ {0} /\ DOMAIN samples = 1..n /\ \A i \in 1..n : samples[i] \in Nat
    BY LenProperties, EmptySeq
  <1>2. rank \div 10 + 1 \in 1..n /\ rank % 10 \in 0..9 /\ (rank % 10 # 0 => rank \div 10 + 2 \in 1..n)
    <2> HIDE DEF n
    <2> QED
      BY <1>1
  <1>3. \A p \in 1..n : Sorted(samples)[p] \in Nat /\ 100 * Sorted(samples)[p] < bound
    <2> TAKE p \in 1..n
    <2> DEFINE at == Sorted(samples)[p]
    <2>1. PICK i \in 1..n : at = samples[i]
      BY <1>1, InOrder
    <2> HIDE DEF at
    <2>2. at \in Nat /\ 100 * at < bound
      BY <1>1, <2>1
    <2> QED
      BY <2>2 DEF at
  <1>4. /\ low \in Nat /\ 100 * low < bound
        /\ rank % 10 # 0 => high \in Nat /\ 100 * high < bound
    <2> HIDE DEF n, rank
    <2> QED
      BY <1>2, <1>3
  <1>5. NoiseFloor(samples) = IF rank % 10 = 0 THEN 100 * low + 10 * (rank % 10) * (low - low)
                              ELSE 100 * low + 10 * (rank % 10) * (high - low)
    BY DEF NoiseFloor
  <1> DEFINE r == rank % 10
  <1>6. r \in 0..9
    BY <1>2
  <1> HIDE DEF low, high, r, rank
  <1>7. CASE r = 0
    BY <1>4, <1>5, <1>7 DEF r
  <1>8. CASE r # 0
    <2>1. high \in Nat /\ 100 * high < bound /\ NoiseFloor(samples) = 100 * low + 10 * r * (high - low)
      BY <1>4, <1>5, <1>8 DEF r
    <2>2. r \in {1, 2, 3, 4, 5, 6, 7, 8, 9}
      BY <1>6, <1>8
    <2> HIDE DEF n
    <2> QED
      BY <1>4, <2>1, <2>2
  <1> QED
    BY <1>7, <1>8

\* Samples have a bound, by induction on their number.
LEMMA SamplesBounded ==
  ASSUME NEW samples \in Seq(Nat)
  PROVE  \E bound \in Nat : \A i \in DOMAIN samples : 100 * samples[i] < bound
  <1> DEFINE Unbounded == {n \in Nat : \E s \in [1..n -> Nat] :
                             \A bound \in Nat : \E i \in 1..n : ~(100 * s[i] < bound)}
  <1>1. Unbounded = {}
    <2> SUFFICES ASSUME Unbounded # {} PROVE FALSE
      OBVIOUS
    <2>1. PICK n \in Unbounded : \A m \in Unbounded : n <= m
      BY LeastNumber
    <2>2. PICK s \in [1..n -> Nat] : \A bound \in Nat : \E i \in 1..n : ~(100 * s[i] < bound)
      BY <2>1
    <2>3. n \in Nat
      OBVIOUS
    <2>4. n # 0
      BY <2>2
    <2>5. n - 1 \in Nat /\ n - 1 \notin Unbounded
      <3> HIDE DEF Unbounded
      <3>1. n - 1 \in Nat /\ ~(n <= n - 1)
        BY <2>3, <2>4
      <3> QED
        BY <2>1, <3>1
    <2> DEFINE t == [i \in 1..n - 1 |-> s[i]]
    <2>6. t \in [1..n - 1 -> Nat] /\ \A i \in 1..n - 1 : t[i] = s[i]
      <3>1. 1..n - 1 \subseteq 1..n
        BY <2>3
      <3>2. \A i \in 1..n : s[i] \in Nat
        OBVIOUS
      <3> QED
        BY <3>1, <3>2
    <2>7. PICK b \in Nat : \A i \in 1..n - 1 : 100 * t[i] < b
      BY <2>5, <2>6
    <2>8. s[n] \in Nat
      BY <2>3, <2>4
    <2> DEFINE top == b + 100 * s[n] + 1
    <2>12. top \in Nat /\ b < top /\ 100 * s[n] < top
      <3> DEFINE last == s[n]
      <3>1. last \in Nat
        BY <2>8
      <3> HIDE DEF last, t, Unbounded
      <3>2. b + 100 * last + 1 \in Nat /\ b < b + 100 * last + 1 /\ 100 * last < b + 100 * last + 1
        BY <3>1
      <3> QED
        BY <3>2 DEF last
    <2> HIDE DEF top, t, Unbounded
    <2>9. PICK i \in 1..n : ~(100 * s[i] < top)
      BY <2>2, <2>12
    <2>10. i = n \/ i \in 1..n - 1
      BY <2>3
    <2>11. s[i] \in Nat
      OBVIOUS
    <2> QED
      BY <2>6, <2>7, <2>8, <2>9, <2>10, <2>11, <2>12
  <1>2. samples \in [1..Len(samples) -> Nat] /\ Len(samples) \in Nat /\ DOMAIN samples = 1..Len(samples)
    BY LenProperties
  <1>3. \E bound \in Nat : \A i \in 1..Len(samples) : 100 * samples[i] < bound
    <2> DEFINE n == Len(samples)
    <2> HIDE DEF n
    <2> SUFFICES \E bound \in Nat : \A i \in 1..n : 100 * samples[i] < bound
      BY DEF n
    <2> QED
      BY <1>1, <1>2 DEF n
  <1> QED
    BY <1>2, <1>3

\* Samples below a bound have a loudest one.
LEMMA LoudestBelow ==
  ASSUME NEW samples \in Seq(Nat), samples # <<>>, NEW bound \in Nat,
         \A i \in DOMAIN samples : 100 * samples[i] < bound
  PROVE  LET loudest == Max({samples[i] : i \in DOMAIN samples})
         IN  loudest \in Nat /\ 100 * loudest < bound
  <1> DEFINE Values == {samples[i] : i \in DOMAIN samples}
             Bounds == {b \in Nat : \A v \in Values : v <= b}
  <1>1. Values \subseteq Nat /\ Values # {} /\ \A v \in Values : 100 * v < bound
    <2>1. DOMAIN samples = 1..Len(samples) /\ Len(samples) \in Nat \ {0}
      BY LenProperties, EmptySeq
    <2>2. 1 \in DOMAIN samples
      BY <2>1
    <2> QED
      BY <2>1, <2>2
  <1> HIDE DEF Values
  <1>2. PICK b \in Bounds : \A c \in Bounds : b <= c
    <2>1. bound \in Bounds
      BY <1>1
    <2> HIDE DEF Bounds
    <2>2. Bounds \subseteq Nat
      BY DEF Bounds
    <2> QED
      BY <2>1, <2>2, LeastNumber
  <1>3. b \in Nat /\ \A v \in Values : v <= b
    OBVIOUS
  <1>4. b \in Values
    <2> SUFFICES ASSUME b \notin Values PROVE FALSE
      OBVIOUS
    <2>1. \A v \in Values : v \in Nat /\ v < b
      BY <1>1, <1>3
    <2>2. b - 1 \in Nat /\ \A v \in Values : v <= b - 1
      <3>1. PICK v \in Values : TRUE
        BY <1>1
      <3>2. b > 0
        BY <1>3, <2>1, <3>1
      <3>3. \A x \in Nat : x < b => x <= b - 1
        BY <1>3
      <3> QED
        BY <1>3, <2>1, <3>2, <3>3
    <2>3. b - 1 \in Bounds
      BY <2>2
    <2> HIDE DEF Bounds
    <2> QED
      BY <1>2, <1>3, <2>3
  <1>5. \A y \in Values : b >= y
    BY <1>1, <1>3
  <1> DEFINE loudest == Max(Values)
  <1>6. loudest \in Values
    <2> HIDE DEF Bounds
    <2> QED
      BY <1>4, <1>5 DEF Max
  <1> QED
    BY <1>1, <1>6 DEF Values

LEMMA MaxOfTwo ==
  ASSUME NEW a \in Int, NEW b \in Int
  PROVE  /\ Max({a, b}) = (IF a >= b THEN a ELSE b)
         /\ Min({a, b}) = (IF a <= b THEN a ELSE b)
  BY DEF Max, Min

\* A gate is within its range and above the floor it is made for.
LEMMA GateAboveFloor ==
  ASSUME NEW floor \in Nat
  PROVE  /\ DeriveSpeechGate(floor) \in GateMin..GateMax
         /\ floor < GateMax => floor < DeriveSpeechGate(floor)
  <1> DEFINE raised == (floor * 12) \div 10
             capped == Min({raised, GateMax})
  <1>1. raised \in Int /\ (floor >= 15000 => floor < raised)
    OBVIOUS
  <1>2. GateMin \in Int /\ GateMax \in Int
    BY DEF GateMin, GateMax
  <1> HIDE DEF raised
  <1>3. capped = IF raised <= GateMax THEN raised ELSE GateMax
    BY <1>1, <1>2, MaxOfTwo
  <1>4. capped \in Int
    BY <1>1, <1>2, <1>3
  <1> HIDE DEF capped
  <1>5. Max({GateMin, capped}) = IF GateMin >= capped THEN GateMin ELSE capped
    BY <1>2, <1>4, MaxOfTwo
  <1>6. DeriveSpeechGate(floor) = Max({GateMin, capped})
    BY DEF DeriveSpeechGate, capped, raised
  <1> DEFINE gate == DeriveSpeechGate(floor)
  <1>7. gate = IF GateMin >= capped THEN GateMin ELSE capped
    BY <1>5, <1>6
  <1> HIDE DEF gate
  <1>8. gate \in Int /\ 15000 <= gate /\ gate <= 250000
    BY <1>1, <1>3, <1>4, <1>7 DEF GateMin, GateMax
  <1>9. ASSUME floor < 250000 PROVE floor < gate
    <2>1. CASE floor < 15000
      BY <1>8, <2>1
    <2>2. CASE floor >= 15000
      <3>1. raised > 15000 /\ raised > floor
        BY <1>1, <2>2
      <3>2. capped > 15000 /\ capped > floor
        BY <1>1, <1>3, <1>9, <3>1 DEF GateMax
      <3> QED
        BY <1>4, <1>7, <3>2 DEF GateMin
    <2> QED
      BY <2>1, <2>2
  <1>10. GateMin <= gate /\ gate <= GateMax /\ (floor < GateMax => floor < gate)
    BY <1>8, <1>9 DEF GateMin, GateMax
  <1> QED
    BY <1>2, <1>8, <1>10 DEF gate

-----------------------------------------------------------------------------
\* The gate.

CalTypeOK ==
  /\ calPhase \in {"baseline", "observing", "running"}
  /\ observer \in [threshold : Nat, attempt : Nat, samples : Seq(Nat)]

\* A window is compared with no more than the loudest gate.
ThresholdInRange == observer.threshold <= GateMax

CalInv == CalTypeOK /\ ThresholdInRange /\ GateAboveRoom

LEMMA GateRange == GateMin \in Nat /\ GateMax \in Nat /\ SafetyFloor \in Nat /\ SafetyFloor <= GateMax
  BY DEF GateMin, GateMax, SafetyFloor

\* What a clean window gives.
LEMMA CleanWindow ==
  ASSUME NEW samples \in Seq(Nat), samples # <<>>, CalTypeOK, ThresholdInRange, ~Contaminated(samples)
  PROVE  LET result == Calibrated(samples)
         IN  /\ result.success
             /\ result.gate \in GateMin..GateMax
             /\ result.floor < result.gate
             /\ result.loudest <= GateMax
  <1>1. observer.threshold \in Nat /\ observer.threshold <= GateMax
    BY DEF CalTypeOK, ThresholdInRange
  <1>2. \A i \in DOMAIN samples : 100 * samples[i] < observer.threshold
    <2>1. \A i \in DOMAIN samples : samples[i] \in Nat /\ ~(100 * samples[i] >= observer.threshold)
      BY LenProperties DEF Contaminated
    <2> QED
      BY <1>1, <2>1
  <1> DEFINE floor == NoiseFloor(samples)
             loudest == Max({samples[i] : i \in DOMAIN samples})
  <1>3. floor \in Nat /\ floor < observer.threshold
    BY <1>1, <1>2, FloorBelow
  <1>4. loudest \in Nat /\ 100 * loudest < observer.threshold
    BY <1>1, <1>2, LoudestBelow
  <1>5. Calibrated(samples) = [success |-> TRUE, floor |-> floor, gate |-> DeriveSpeechGate(floor),
                               loudest |-> 100 * loudest]
    BY DEF Calibrated
  <1> HIDE DEF floor, loudest
  <1>6. floor < GateMax /\ 100 * loudest <= GateMax
    BY <1>1, <1>3, <1>4, GateRange
  <1> QED
    BY <1>3, <1>5, <1>6, GateAboveFloor

LEMMA CalInitInv == CalInit => CalInv
  BY GateRange DEF CalInit, CalInv, CalTypeOK, ThresholdInRange, GateAboveRoom, NewObserver

\* The threshold of a window is the gate of the baseline.
LEMMA BaselineStep == ASSUME CalInv, NEW rms \in Nat, Baseline(rms) PROVE CalInv'
  <1> DEFINE samples == Append(observer.samples, rms)
  <1>1. calPhase = "baseline" /\ observer.samples \in Seq(Nat) /\ samples \in Seq(Nat) /\ samples # <<>>
    <2>1. observer.samples \in Seq(Nat)
      BY DEF CalInv, CalTypeOK
    <2> QED
      BY <2>1, AppendProperties, EmptySeq DEF Baseline
  <1> HIDE DEF samples
  <1>2. CASE observer' = [observer EXCEPT !.samples = samples] /\ UNCHANGED calPhase
    BY <1>1, <1>2 DEF CalInv, CalTypeOK, ThresholdInRange, GateAboveRoom
  <1>3. CASE calPhase' = "observing" /\ observer' = NewObserver(BaselineThreshold(samples))
    <2>1. NoiseFloor(samples) \in Nat
      <3>1. samples \in Seq(Nat) /\ \E top \in Nat : \A i \in DOMAIN samples : 100 * samples[i] < top
        BY <1>1, SamplesBounded
      <3> QED
        BY <1>1, <3>1, FloorBelow
    <2>2. BaselineThreshold(samples) \in GateMin..GateMax
      BY <2>1, GateAboveFloor DEF BaselineThreshold
    <2>3. BaselineThreshold(samples) \in Nat /\ BaselineThreshold(samples) <= GateMax
      BY <2>2, GateRange
    <2> QED
      BY <1>3, <2>3 DEF CalInv, CalTypeOK, ThresholdInRange, GateAboveRoom, NewObserver
  <1> QED
    BY <1>2, <1>3 DEF Baseline, samples

\* A window is collected, succeeds or is given up.
LEMMA WindowStep ==
  ASSUME CalInv, NEW rms \in Nat, Observe(rms) \/ Recalibrate(rms)
  PROVE  CalInv'
  <1> DEFINE samples == Append(observer.samples, rms)
  <1>1. samples \in Seq(Nat) /\ samples # <<>>
    <2>1. observer.samples \in Seq(Nat)
      BY DEF CalInv, CalTypeOK
    <2> QED
      BY <2>1, AppendProperties, EmptySeq
  <1> HIDE DEF samples
  <1>2. calPhase' \in {"baseline", "observing", "running"}
    BY DEF Observe, Recalibrate, CalInv, CalTypeOK
  <1>3. CASE Collects(samples) /\ UNCHANGED calPhase
    <2>1. observer'.samples \in Seq(Nat) /\ observer' \in [threshold : Nat, attempt : Nat, samples : Seq(Nat)]
            /\ observer'.threshold = observer.threshold
      <3>1. <<>> \in Seq(Nat)
        BY EmptySeq
      <3>2. observer \in [threshold : Nat, attempt : Nat, samples : Seq(Nat)]
        BY DEF CalInv, CalTypeOK
      <3>3. CASE observer' = [observer EXCEPT !.samples = samples]
        BY <1>1, <3>2, <3>3
      <3>4. CASE observer' = [observer EXCEPT !.attempt = @ + 1, !.samples = <<>>]
        <4>1. observer.attempt + 1 \in Nat
          BY <3>2
        <4> QED
          BY <3>1, <3>2, <3>4, <4>1
      <3> QED
        BY <1>3, <3>3, <3>4 DEF Collects
    <2>2. calPhase' = calPhase /\ activeResult' = activeResult
      BY <1>3 DEF Collects
    <2> QED
      BY <1>2, <2>1, <2>2 DEF CalInv, CalTypeOK, ThresholdInRange, GateAboveRoom
  <1>4. CASE Succeeds(samples)
    <2>1. observer' = NoObserver /\ activeResult' = Calibrated(samples)
      BY <1>4 DEF Succeeds
    <2> DEFINE result == Calibrated(samples)
    <2>2. result.success /\ result.gate \in GateMin..GateMax /\ result.floor < result.gate
            /\ result.loudest <= GateMax
      BY <1>1, <1>4, CleanWindow DEF Succeeds, CalInv
    <2> HIDE DEF result
    <2>3. activeResult' = result
      BY <2>1 DEF result
    <2>4. GateAboveRoom'
      BY <2>2, <2>3 DEF GateAboveRoom
    <2>5. CalTypeOK' /\ ThresholdInRange'
      BY <1>2, <2>1, EmptySeq, GateRange DEF CalTypeOK, ThresholdInRange, NoObserver
    <2> QED
      BY <2>4, <2>5 DEF CalInv
  <1>5. CASE Exhausted(samples) /\ (activeResult' = Fallback \/ UNCHANGED <<activeResult, calPhase>>)
    <2>1. observer' = NoObserver
      BY <1>5 DEF Exhausted
    <2>3. GateAboveRoom'
      BY <1>5 DEF GateAboveRoom, CalInv, Fallback
    <2>4. CalTypeOK' /\ ThresholdInRange'
      BY <1>2, <2>1, EmptySeq, GateRange DEF CalTypeOK, ThresholdInRange, NoObserver
    <2> QED
      BY <2>3, <2>4 DEF CalInv
  <1> QED
    BY <1>3, <1>4, <1>5 DEF Observe, Recalibrate, samples

LEMMA CalStep == CalInv /\ [CalNext]_calVars => CalInv'
  <1> SUFFICES ASSUME CalInv, [CalNext]_calVars PROVE CalInv'
    OBVIOUS
  <1>1. ASSUME NEW rms \in Loudness, Baseline(rms) \/ Observe(rms) \/ Recalibrate(rms) PROVE CalInv'
    <2>1. rms \in Nat
      BY CalibrationAssumption
    <2> QED
      BY <1>1, <2>1, BaselineStep, WindowStep
  <1>2. CASE CaptureFails
    <2>1. calPhase' = "running" /\ observer' = NoObserver /\ activeResult' = Fallback
      BY <1>2 DEF CaptureFails
    <2>2. GateAboveRoom'
      BY <2>1 DEF GateAboveRoom, Fallback
    <2> QED
      BY <2>1, <2>2, EmptySeq, GateRange DEF CalInv, CalTypeOK, ThresholdInRange, NoObserver
  <1>3. CASE BeginRecalibration
    <2>1. calPhase' = calPhase /\ observer' = NewObserver(SafetyFloor) /\ activeResult' = activeResult
      BY <1>3 DEF BeginRecalibration
    <2> QED
      BY <2>1, EmptySeq, GateRange DEF CalInv, CalTypeOK, ThresholdInRange, GateAboveRoom, NewObserver
  <1>4. CASE UNCHANGED calVars
    BY <1>4 DEF calVars, CalInv, CalTypeOK, ThresholdInRange, GateAboveRoom
  <1> QED
    BY <1>1, <1>2, <1>3, <1>4 DEF CalNext

\* A gate that was measured lies above the noise floor of its window and in its range,
\* for any window, number of attempts and loudness: the threshold that calls a window
\* contaminated is never above the greatest gate, so a clean window's floor is below it
\* (_derive_speech_gate, is_contaminated, NoiseFloorSampler).
THEOREM GateKeepsRoomOut == ClientSpec => []GateAboveRoom
  <1>1. ClientInit => CalInv
    BY CalInitInv DEF ClientInit
  <1>2. CalInv /\ [ClientNext]_clientVars => CalInv'
    <2> SUFFICES ASSUME CalInv, [ClientNext]_clientVars PROVE CalInv'
      OBVIOUS
    <2>1. [CalNext]_calVars
      BY DEF ClientNext, Running, clientVars
    <2> QED
      BY <2>1, CalStep
  <1>3. CalInv => GateAboveRoom
    BY DEF CalInv
  <1> QED
    BY <1>1, <1>2, <1>3, PTL DEF ClientSpec

-----------------------------------------------------------------------------
\* The recording gate.

RecTypeOK ==
  /\ controlQueue \in Nat /\ controlPipe \in Nat
  /\ clientRec \in BOOLEAN /\ serverRec \in BOOLEAN /\ inHand \in BOOLEAN /\ drifted \in BOOLEAN

\* A line is in hand only on a connection.
HandEmpty == link # "open" => ~inHand

Even == OnTheWay % 2 = 0
Agree == serverRec = clientRec

\* The gates agree as far as the lines on their way say, even before the client knows
\* that it has been let in.
Matched == serverSide = "held" /\ ~drifted => (Agree <=> Even)

RecInv == RecTypeOK /\ HandEmpty /\ Matched

-----------------------------------------------------------------------------
\* The connection.

LinkTypeOK ==
  /\ link \in {"connecting", "dialing", "open", "backoff", "done"}
  /\ request \in {"none", "sent", "passed"} /\ answer \in {0, 101, 409, 503}
  /\ serverSide \in {"free", "held", "closed", "forsaken"}
  /\ closing \in BOOLEAN /\ closeCode \in {0, 1000, 1001, FatalClose} /\ ready \in BOOLEAN

\* A request has nothing of an earlier connection about it.
Asks ==
  /\ request # "none" => closeCode = 0 /\ ~closing /\ serverSide # "held"
  /\ request = "sent" => link = "dialing" /\ answer = 0

Answered ==
  /\ answer # 0 => link = "dialing"
  /\ answer \in {409, 503} => request = "none" /\ closeCode = 0 /\ ~closing /\ serverSide # "held"
  /\ answer = 503 => ~ready

Waits ==
  link \in {"connecting", "backoff"} => request = "none" /\ closeCode = 0 /\ ~closing /\ serverSide # "held"

\* What the gateway closes itself it frees first, unless the client stayed silent, which
\* is final, or the Shell has stopped.
Closes ==
  /\ closeCode # 0 \/ closing => serverSide # "held"
  /\ closeCode = 1000 \/ closing => serverSide # "closed"
  /\ closing => closeCode = 0
  /\ closeCode = 1001 => ~ready

\* Who asks again does not find a connection that the gateway has closed.
Freed == ready /\ (link \in {"connecting", "backoff"} \/ request = "sent") => serverSide # "closed"

LinkInv == LinkTypeOK /\ Asks /\ Answered /\ Waits /\ Closes /\ Freed

-----------------------------------------------------------------------------
\* The events.

Line == [session : Nat, emitter : Emitter, stamp : Nat, line : Nat \ {0}]

RelayTypeOK ==
  /\ serverSide \in {"free", "held", "closed", "forsaken"}
  /\ session \in Nat /\ clock \in Nat /\ written \in Nat
  /\ stamped \in [Emitter -> Nat]
  /\ eventPipe \in Seq(Line) /\ eventQueue \in Seq(Line)
  /\ store \in Seq(Line) /\ Len(store) <= 2
  /\ dropped \subseteq Nat

\* The event the client handled last, if it is of this session.
Seen(e) == store # <<>> /\ e = store[Len(store)] /\ e.session = session
Handled == IF store # <<>> /\ store[Len(store)].session = session THEN store[Len(store)].line ELSE 0

\* Lines of this session that the gateway has taken from the pipe.
Pumped == written - Len(eventPipe)

\* Nothing is on its way without a session.
Quiet ==
  serverSide = "free" =>
    /\ written = 0 /\ eventPipe = <<>> /\ eventQueue = <<>>
    /\ \A t \in Emitter : stamped[t] = 0

Sessions == \A i \in DOMAIN store : store[i].session <= session

\* The pipe holds the lines written last, in their order; the queue some of those before
\* them that the client has not handled, in their order; the others were dropped.
Numbering ==
  /\ Pumped \in Nat /\ (serverSide # "free" => Handled <= Pumped)
  /\ \A i \in DOMAIN eventPipe : eventPipe[i].session = session /\ eventPipe[i].line = Pumped + i
  /\ \A i \in DOMAIN eventQueue : /\ eventQueue[i].session = session
                                  /\ Handled < eventQueue[i].line /\ eventQueue[i].line <= Pumped
  /\ \A i, j \in DOMAIN eventQueue : i < j => eventQueue[i].line < eventQueue[j].line
  /\ \A n \in Nat : Handled < n /\ n <= Pumped =>
       n \in dropped \/ \E i \in DOMAIN eventQueue : eventQueue[i].line = n

\* A line of this session.
OnItsWay(e) ==
  \/ \E i \in DOMAIN eventPipe : e = eventPipe[i]
  \/ \E i \in DOMAIN eventQueue : e = eventQueue[i]
  \/ serverSide # "free" /\ Seen(e)

\* A thread's later line has the later stamp, and the one it is about to write the latest.
Stamps ==
  /\ \A e \in Line : OnItsWay(e) =>
       e.stamp <= clock /\ (stamped[e.emitter] > 0 => e.stamp < stamped[e.emitter])
  /\ \A e, f \in Line : OnItsWay(e) /\ OnItsWay(f) /\ e.emitter = f.emitter /\ e.line < f.line =>
       e.stamp < f.stamp
  /\ \A t \in Emitter : stamped[t] <= clock

\* What an earlier session left at the client was stamped before all of this one.
Earlier(e) ==
  /\ \A f \in Line : OnItsWay(f) => e.stamp < f.stamp
  /\ \A t \in Emitter : stamped[t] > 0 => e.stamp < stamped[t]

Later ==
  /\ \A i \in DOMAIN store : /\ store[i].stamp <= clock
                             /\ store[i].session < session => Earlier(store[i])
  /\ Len(store) = 2 /\ store[1].session < store[2].session => store[1].stamp < store[2].stamp

\* What EventsInOrder says, and that the client handles a thread's events as it stamped them.
Ordering ==
  /\ \A i \in DOMAIN eventQueue : eventQueue[i].session = session
  /\ Len(store) = 2 =>
       LET e == store[1]  f == store[2]
           next == IF e.session = f.session THEN e.line + 1 ELSE 1
       IN  /\ e.session < f.session \/ (e.session = f.session /\ e.line < f.line)
           /\ e.session = f.session /\ e.emitter = f.emitter => e.stamp < f.stamp
           /\ f.session = session /\ written > 0 => next..f.line - 1 \subseteq dropped

RelayInv == RelayTypeOK /\ Quiet /\ Sessions /\ Numbering /\ Stamps /\ Ordering /\ Later

LEMMA TailFacts ==
  ASSUME NEW S, NEW q \in Seq(S), q # <<>>
  PROVE  /\ Len(q) \in Nat \ {0} /\ DOMAIN q = 1..Len(q)
         /\ Head(q) \in S /\ Head(q) = q[1]
         /\ Tail(q) \in Seq(S) /\ Len(Tail(q)) = Len(q) - 1 /\ DOMAIN Tail(q) = 1..Len(q) - 1
         /\ \A i \in 1..Len(q) - 1 : i + 1 \in 1..Len(q) /\ Tail(q)[i] = q[i + 1]
  <1>1. Len(q) \in Nat \ {0} /\ DOMAIN q = 1..Len(q)
    BY LenProperties, EmptySeq
  <1>2. Tail(q) \in Seq(S) /\ Len(Tail(q)) = Len(q) - 1 /\ Head(q) \in S
    BY HeadTailProperties
  <1>3. DOMAIN Tail(q) = 1..Len(q) - 1
    BY <1>2, LenProperties
  <1>4. \A i \in 1..Len(q) - 1 : Tail(q)[i] = q[i + 1]
    BY <1>2, HeadTailProperties
  <1>5. \A i \in 1..Len(q) - 1 : i + 1 \in 1..Len(q)
    BY <1>1
  <1> QED
    BY <1>1, <1>2, <1>3, <1>4, <1>5

LEMMA AppendFacts ==
  ASSUME NEW S, NEW q \in Seq(S), NEW x \in S
  PROVE  /\ Len(q) \in Nat /\ DOMAIN q = 1..Len(q)
         /\ Append(q, x) \in Seq(S) /\ Append(q, x) # <<>>
         /\ Len(Append(q, x)) = Len(q) + 1 /\ DOMAIN Append(q, x) = 1..Len(q) + 1
         /\ \A i \in 1..Len(q) : Append(q, x)[i] = q[i]
         /\ Append(q, x)[Len(q) + 1] = x
         /\ \A i \in 1..Len(q) + 1 : i \in 1..Len(q) \/ i = Len(q) + 1
  <1>1. Len(q) \in Nat /\ DOMAIN q = 1..Len(q)
    BY LenProperties
  <1>2. /\ Append(q, x) \in Seq(S) /\ Append(q, x) # <<>>
        /\ Len(Append(q, x)) = Len(q) + 1
        /\ \A i \in 1..Len(q) : Append(q, x)[i] = q[i]
        /\ Append(q, x)[Len(q) + 1] = x
    BY AppendProperties
  <1>3. DOMAIN Append(q, x) = 1..Len(q) + 1
    BY <1>2, LenProperties
  <1>4. \A i \in 1..Len(q) + 1 : i \in 1..Len(q) \/ i = Len(q) + 1
    BY <1>1
  <1> QED
    BY <1>1, <1>2, <1>3, <1>4

\* What is on its way has been written.
LEMMA LinesWritten ==
  ASSUME RelayInv, NEW e \in Line, OnItsWay(e)
  PROVE  e.line \in Nat /\ e.line <= written
  <1>1. e.line \in Nat /\ Pumped \in Nat /\ written \in Nat /\ Len(eventPipe) \in Nat
        /\ Pumped = written - Len(eventPipe) /\ DOMAIN eventPipe = 1..Len(eventPipe)
    BY LenProperties DEF RelayInv, RelayTypeOK, Numbering, Line, Pumped
  <1>2. CASE \E i \in DOMAIN eventPipe : e = eventPipe[i]
    <2>1. PICK i \in 1..Len(eventPipe) : e.line = Pumped + i
      BY <1>1, <1>2 DEF RelayInv, Numbering
    <2> QED
      BY <1>1, <2>1
  <1>3. CASE \E i \in DOMAIN eventQueue : e = eventQueue[i]
    <2>1. e.line <= Pumped
      BY <1>3 DEF RelayInv, Numbering
    <2> QED
      BY <1>1, <2>1
  <1>4. CASE serverSide # "free" /\ Seen(e)
    <2>1. e.line <= Pumped
      BY <1>4 DEF RelayInv, Numbering, Seen, Handled
    <2> QED
      BY <1>1, <2>1
  <1> QED
    BY <1>2, <1>3, <1>4 DEF OnItsWay

\* As long as nothing new is on its way, the stamps stay as they are.
LEMMA StampsKept ==
  ASSUME Stamps, UNCHANGED <<clock, stamped>>, \A e \in Line : OnItsWay(e)' => OnItsWay(e)
  PROVE  Stamps'
  BY DEF Stamps

LEMMA LaterKept ==
  ASSUME Later, UNCHANGED <<clock, stamped, session, store>>, \A e \in Line : OnItsWay(e)' => OnItsWay(e)
  PROVE  Later'
  BY DEF Later, Earlier

\* The client's events are lines.
LEMMA StoredLines ==
  ASSUME RelayTypeOK
  PROVE  \A i \in DOMAIN store : store[i] \in Line /\ store[i].stamp \in Nat /\ store[i].session \in Nat
  <1>1. store \in Seq(Line)
    BY DEF RelayTypeOK
  <1>2. \A i \in DOMAIN store : store[i] \in Line
    BY <1>1, LenProperties, ElementOfSeq
  <1> QED
    BY <1>2 DEF Line

LEMMA RelayStutter ==
  ASSUME RelayInv, UNCHANGED relayVars, serverSide' = "free" <=> serverSide = "free",
         serverSide' \in {"free", "held", "closed", "forsaken"}
  PROVE  RelayInv'
  <1>1. RelayTypeOK' /\ Quiet' /\ Sessions' /\ Ordering'
    BY DEF RelayInv, relayVars, RelayTypeOK, Quiet, Sessions, Ordering
  <1>2. Numbering'
    BY DEF RelayInv, relayVars, Numbering, Pumped, Handled
  <1>3. Stamps'
    BY StampsKept DEF RelayInv, relayVars, OnItsWay, Seen
  <1>4. Later'
    BY LaterKept DEF RelayInv, relayVars, OnItsWay, Seen
  <1> QED
    BY <1>1, <1>2, <1>3, <1>4 DEF RelayInv

LEMMA StampStep ==
  ASSUME RelayInv, NEW t \in Emitter, Stamp(t), UNCHANGED serverSide, serverSide # "free"
  PROVE  RelayInv'
  <1>1. UNCHANGED <<session, written, eventPipe, eventQueue, dropped, store>>
    BY DEF Stamp
  <1>2. stamped[t] = 0 /\ clock' = clock + 1 /\ stamped' = [stamped EXCEPT ![t] = clock + 1]
    BY DEF Stamp
  <1>3. clock \in Nat /\ stamped \in [Emitter -> Nat]
    BY DEF RelayInv, RelayTypeOK
  <1>4. RelayTypeOK' /\ Quiet' /\ Sessions' /\ Ordering'
    <2>1. RelayTypeOK'
      BY <1>1, <1>2, <1>3 DEF RelayInv, RelayTypeOK
    <2> QED
      BY <1>1, <2>1 DEF RelayInv, Quiet, Sessions, Ordering
  <1>5. Numbering'
    BY <1>1 DEF RelayInv, Numbering, Pumped, Handled
  <1>6. Stamps'
    <2>1. \A e \in Line : OnItsWay(e)' <=> OnItsWay(e)
      BY <1>1 DEF OnItsWay, Seen
    <2>2. \A e \in Line : e.emitter \in Emitter /\ e.stamp \in Nat
      BY DEF Line
    <2>3. \A u \in Emitter : stamped'[u] = IF u = t THEN clock + 1 ELSE stamped[u]
      BY <1>2, <1>3
    <2>4. \A u \in Emitter : stamped'[u] <= clock'
      BY <1>2, <1>3, <2>3 DEF RelayInv, Stamps
    <2>5. \A e \in Line : OnItsWay(e) =>
            e.stamp <= clock' /\ (stamped'[e.emitter] > 0 => e.stamp < stamped'[e.emitter])
      <3> SUFFICES ASSUME NEW e \in Line, OnItsWay(e)
                   PROVE  e.stamp <= clock' /\ (stamped'[e.emitter] > 0 => e.stamp < stamped'[e.emitter])
        OBVIOUS
      <3>1. e.stamp <= clock /\ (stamped[e.emitter] > 0 => e.stamp < stamped[e.emitter])
        BY DEF RelayInv, Stamps
      <3>2. e.stamp \in Nat /\ e.emitter \in Emitter
        BY <2>2
      <3>3. e.stamp <= clock + 1 /\ e.stamp < clock + 1
        BY <1>3, <3>1, <3>2
      <3> QED
        BY <1>2, <2>3, <3>1, <3>2, <3>3
    <2> QED
      BY <2>1, <2>4, <2>5 DEF RelayInv, Stamps
  <1>7. Later'
    <2>1. \A e \in Line : OnItsWay(e)' <=> OnItsWay(e)
      BY <1>1 DEF OnItsWay, Seen
    <2>2. \A u \in Emitter : stamped'[u] = IF u = t THEN clock + 1 ELSE stamped[u]
      BY <1>2, <1>3
    <2>3. ASSUME NEW i \in DOMAIN store
          PROVE  store[i].stamp <= clock' /\ store[i].stamp < clock + 1
                 /\ (store[i].session < session => Earlier(store[i])')
      <3>1. store[i].stamp <= clock /\ store[i].stamp \in Nat
        BY StoredLines DEF RelayInv, Later
      <3>2. store[i].stamp <= clock + 1 /\ store[i].stamp < clock + 1
        BY <1>3, <3>1
      <3>3. ASSUME store[i].session < session PROVE Earlier(store[i])'
        <4>1. Earlier(store[i])
          BY <3>3 DEF RelayInv, Later
        <4> DEFINE stamp == store[i].stamp
        <4> HIDE DEF stamp
        <4>2. \A f \in Line : OnItsWay(f)' => stamp < f.stamp
          BY <2>1, <4>1 DEF Earlier, stamp
        <4>3. \A u \in Emitter : stamped'[u] > 0 => stamp < stamped'[u]
          BY <2>2, <3>2, <4>1 DEF Earlier, stamp
        <4> QED
          BY <1>1, <4>2, <4>3 DEF Earlier, stamp
      <3> QED
        BY <1>2, <3>2, <3>3
    <2> QED
      BY <1>1, <2>3 DEF RelayInv, Later
  <1> QED
    BY <1>4, <1>5, <1>6, <1>7 DEF RelayInv

LEMMA WriteLineStep ==
  ASSUME RelayInv, NEW t \in Emitter, WriteLine(t), UNCHANGED serverSide, serverSide # "free"
  PROVE  RelayInv'
  <1> DEFINE new == [session |-> session, emitter |-> t, stamp |-> stamped[t], line |-> written + 1]
  <1>1. /\ UNCHANGED <<session, clock, eventQueue, dropped, store>>
        /\ stamped[t] > 0 /\ stamped' = [stamped EXCEPT ![t] = 0]
        /\ written' = written + 1 /\ eventPipe' = Append(eventPipe, new)
    BY DEF WriteLine
  <1>2. RelayTypeOK /\ new \in Line /\ eventPipe \in Seq(Line) /\ written \in Nat
    BY DEF RelayInv, RelayTypeOK, Line
  <1>3. /\ new.session = session /\ new.emitter = t /\ new.stamp = stamped[t]
        /\ new.line = written + 1
    OBVIOUS
  <1> HIDE DEF new
  <1>4. /\ Len(eventPipe) \in Nat /\ DOMAIN eventPipe = 1..Len(eventPipe)
        /\ eventPipe' \in Seq(Line) /\ Len(eventPipe') = Len(eventPipe) + 1
        /\ DOMAIN eventPipe' = 1..Len(eventPipe) + 1
        /\ \A i \in 1..Len(eventPipe) : eventPipe'[i] = eventPipe[i]
        /\ eventPipe'[Len(eventPipe) + 1] = new
        /\ \A i \in 1..Len(eventPipe) + 1 : i \in 1..Len(eventPipe) \/ i = Len(eventPipe) + 1
    BY <1>1, <1>2, AppendFacts
  <1>5. RelayTypeOK'
    BY <1>1, <1>2, <1>4 DEF RelayTypeOK
  <1>6. Quiet' /\ Sessions'
    BY <1>1 DEF RelayInv, Quiet, Sessions
  <1>7. Pumped' = Pumped /\ Handled' = Handled
    BY <1>1, <1>2, <1>4 DEF Pumped, Handled
  <1>8. Numbering'
    <2>1. \A i \in DOMAIN eventPipe' : eventPipe'[i].session = session /\ eventPipe'[i].line = Pumped + i
      <3> SUFFICES ASSUME NEW i \in DOMAIN eventPipe'
                   PROVE  eventPipe'[i].session = session /\ eventPipe'[i].line = Pumped + i
        OBVIOUS
      <3>1. CASE i \in 1..Len(eventPipe)
        BY <1>4, <3>1 DEF RelayInv, Numbering
      <3>2. CASE i = Len(eventPipe) + 1
        BY <1>2, <1>3, <1>4, <3>2 DEF Pumped
      <3> QED
        BY <1>4, <3>1, <3>2
    <2> QED
      BY <1>1, <1>7, <2>1 DEF RelayInv, Numbering
  <1>9. Stamps'
    <2>1. \A e \in Line : OnItsWay(e)' => OnItsWay(e) \/ e = new
      BY <1>1, <1>4 DEF OnItsWay, Seen
    <2>2. \A e \in Line : e.emitter \in Emitter /\ e.stamp \in Nat /\ e.line \in Nat
      BY DEF Line
    <2>3. clock \in Nat /\ stamped \in [Emitter -> Nat] /\ stamped[t] \in Nat /\ stamped[t] <= clock
      BY <1>2 DEF RelayInv, RelayTypeOK, Stamps
    <2>4. \A u \in Emitter : stamped'[u] = IF u = t THEN 0 ELSE stamped[u]
      BY <1>1, <2>3
    <2>5. \A u \in Emitter : stamped'[u] <= clock'
      BY <1>1, <2>3, <2>4 DEF RelayInv, Stamps
    <2>6. ASSUME NEW e \in Line, OnItsWay(e)'
          PROVE  e.stamp <= clock' /\ (stamped'[e.emitter] > 0 => e.stamp < stamped'[e.emitter])
      <3>1. CASE OnItsWay(e)
        BY <1>1, <2>2, <2>4, <3>1 DEF RelayInv, Stamps
      <3>2. CASE e = new
        BY <1>1, <1>3, <2>3, <2>4, <3>2
      <3> QED
        BY <2>1, <2>6, <3>1, <3>2
    <2>7. ASSUME NEW e \in Line, NEW f \in Line, OnItsWay(e)', OnItsWay(f)',
                 e.emitter = f.emitter, e.line < f.line
          PROVE  e.stamp < f.stamp
      <3>1. CASE OnItsWay(e) /\ OnItsWay(f)
        BY <2>7, <3>1 DEF RelayInv, Stamps
      <3>2. CASE OnItsWay(e) /\ f = new
        BY <1>1, <1>3, <2>7, <3>2 DEF RelayInv, Stamps
      <3>3. CASE e = new
        <4>1. f = new \/ f.line <= written
          BY <2>1, <2>7, LinesWritten
        <4> QED
          BY <1>2, <1>3, <2>2, <2>7, <3>3, <4>1
      <3> QED
        BY <2>1, <2>7, <3>1, <3>2, <3>3
    <2> QED
      BY <2>5, <2>6, <2>7 DEF Stamps
  <1>10. Ordering'
    <2>1. ASSUME Len(store) = 2, store[2].session = session PROVE written > 0
      <3>1. store \in Seq(Line)
        BY <1>2 DEF RelayTypeOK
      <3>2. store # <<>> /\ store[2] \in Line
        <4>1. DOMAIN store = 1..2 /\ \A i \in 1..2 : store[i] \in Line
          BY <2>1, <3>1, LenProperties
        <4>2. Len(<<>>) = 0
          BY EmptySeq
        <4> QED
          <5>1. store[2] \in Line
            BY <4>1
          <5>2. store # <<>>
            BY <2>1, <4>2
          <5> QED
            BY <5>1, <5>2
      <3>3. OnItsWay(store[2])
        BY <2>1, <3>2 DEF OnItsWay, Seen
      <3>4. store[2].line \in Nat \ {0} /\ store[2].line <= written
        BY <3>2, <3>3, LinesWritten DEF Line
      <3> QED
        BY <1>2, <3>4
    <2> QED
      BY <1>1, <2>1 DEF RelayInv, Ordering
  <1>11. Later'
    <2>1. \A e \in Line : OnItsWay(e)' => OnItsWay(e) \/ e = new
      BY <1>1, <1>4 DEF OnItsWay, Seen
    <2>2. \A u \in Emitter : stamped'[u] = IF u = t THEN 0 ELSE stamped[u]
      BY <1>1, <1>2 DEF RelayTypeOK
    <2>3. ASSUME NEW i \in DOMAIN store, Earlier(store[i]) PROVE Earlier(store[i])'
      <3> DEFINE stamp == store[i].stamp
      <3> HIDE DEF stamp
      <3>1. \A f \in Line : OnItsWay(f)' => stamp < f.stamp
        BY <1>1, <1>3, <2>1, <2>3 DEF Earlier, stamp
      <3>2. \A u \in Emitter : stamped'[u] > 0 => stamp < stamped'[u]
        BY <2>2, <2>3 DEF Earlier, stamp
      <3> QED
        BY <1>1, <3>1, <3>2 DEF Earlier, stamp
    <2> QED
      BY <1>1, <2>3 DEF RelayInv, Later
  <1> QED
    BY <1>5, <1>6, <1>8, <1>9, <1>10, <1>11 DEF RelayInv

LEMMA PumpStep ==
  ASSUME RelayInv, PumpLine, UNCHANGED serverSide, serverSide # "free"
  PROVE  RelayInv'
  <1> DEFINE head == Head(eventPipe)
             room == Len(eventQueue) < EventQueueMax
  <1>1. /\ UNCHANGED <<session, clock, stamped, written, store>>
        /\ eventPipe # <<>> /\ eventPipe' = Tail(eventPipe)
        /\ IF room THEN eventQueue' = Append(eventQueue, head) /\ dropped' = dropped
                   ELSE dropped' = dropped \union {head.line} /\ eventQueue' = eventQueue
    BY DEF PumpLine
  <1>2. RelayTypeOK /\ eventPipe \in Seq(Line) /\ eventQueue \in Seq(Line) /\ written \in Nat
    BY DEF RelayInv, RelayTypeOK
  <1>3. /\ Len(eventPipe) \in Nat \ {0} /\ DOMAIN eventPipe = 1..Len(eventPipe)
        /\ head \in Line /\ head = eventPipe[1]
        /\ eventPipe' \in Seq(Line) /\ Len(eventPipe') = Len(eventPipe) - 1
        /\ DOMAIN eventPipe' = 1..Len(eventPipe) - 1
        /\ \A i \in 1..Len(eventPipe) - 1 : i + 1 \in 1..Len(eventPipe) /\ eventPipe'[i] = eventPipe[i + 1]
    BY <1>1, <1>2, TailFacts
  <1>4. head.session = session /\ head.line = Pumped + 1 /\ head.line \in Nat /\ Pumped \in Nat
    <2>1. 1 \in DOMAIN eventPipe
      BY <1>3
    <2>2. head.session = session /\ head.line = Pumped + 1 /\ Pumped \in Nat
      BY <1>3, <2>1 DEF RelayInv, Numbering
    <2>3. head.line \in Nat
      BY <1>3 DEF Line
    <2> QED
      BY <2>2, <2>3
  <1>0. /\ DOMAIN eventQueue = 1..Len(eventQueue) /\ Len(eventQueue) \in Nat
        /\ \A i \in DOMAIN eventQueue : eventQueue[i] \in Line /\ eventQueue[i].line \in Nat
    <2>1. DOMAIN eventQueue = 1..Len(eventQueue) /\ Len(eventQueue) \in Nat
      BY <1>2, LenProperties
    <2>2. \A i \in DOMAIN eventQueue : eventQueue[i] \in Line
      BY <1>2, <2>1, ElementOfSeq
    <2>3. \A e \in Line : e.line \in Nat
      BY DEF Line
    <2> QED
      BY <2>1, <2>2, <2>3
  <1> HIDE DEF head, room
  <1>5. room => /\ Len(eventQueue) \in Nat /\ DOMAIN eventQueue = 1..Len(eventQueue)
                /\ eventQueue' \in Seq(Line) /\ DOMAIN eventQueue' = 1..Len(eventQueue) + 1
                /\ \A i \in 1..Len(eventQueue) : eventQueue'[i] = eventQueue[i]
                /\ eventQueue'[Len(eventQueue) + 1] = head
                /\ \A i \in 1..Len(eventQueue) + 1 : i \in 1..Len(eventQueue) \/ i = Len(eventQueue) + 1
    <2>1. head \in Line
      BY <1>3
    <2>2. /\ Append(eventQueue, head) \in Seq(Line)
          /\ DOMAIN Append(eventQueue, head) = 1..Len(eventQueue) + 1
          /\ \A i \in 1..Len(eventQueue) : Append(eventQueue, head)[i] = eventQueue[i]
          /\ Append(eventQueue, head)[Len(eventQueue) + 1] = head
          /\ \A i \in 1..Len(eventQueue) + 1 : i \in 1..Len(eventQueue) \/ i = Len(eventQueue) + 1
      BY <1>2, <2>1, AppendFacts
    <2> QED
      BY <1>0, <1>1, <2>2
  <1>6. \A i \in DOMAIN eventQueue' :
          \/ i \in DOMAIN eventQueue /\ eventQueue'[i] = eventQueue[i]
          \/ eventQueue'[i] = head /\ \A j \in DOMAIN eventQueue : j < i
    BY <1>1, <1>5
  <1>7. RelayTypeOK'
    BY <1>1, <1>2, <1>3, <1>4, <1>5 DEF RelayTypeOK
  <1>8. Quiet' /\ Sessions'
    BY <1>1 DEF RelayInv, Quiet, Sessions
  <1>9. Pumped' = Pumped + 1 /\ Handled' = Handled
    BY <1>1, <1>2, <1>3 DEF Pumped, Handled
  <1>10. Handled \in Int /\ Handled <= Pumped
    <2>1. Handled <= Pumped
      BY DEF RelayInv, Numbering
    <2>2. store # <<>> => store[Len(store)] \in Line
      BY <1>2, LenProperties, EmptySeq DEF RelayTypeOK
    <2> QED
      BY <2>1, <2>2 DEF Handled, Line
  <1>11. Numbering'
    <2>1. Pumped' \in Nat /\ Handled' <= Pumped'
      BY <1>4, <1>9, <1>10
    <2>2. ASSUME NEW i \in DOMAIN eventPipe'
          PROVE  eventPipe'[i].session = session /\ eventPipe'[i].line = Pumped' + i
      <3>1. i + 1 \in DOMAIN eventPipe /\ eventPipe'[i] = eventPipe[i + 1] /\ i \in Nat
        BY <1>3, <2>2
      <3>2. eventPipe[i + 1].session = session /\ eventPipe[i + 1].line = Pumped + (i + 1)
        BY <3>1 DEF RelayInv, Numbering
      <3> QED
        BY <1>4, <1>9, <3>1, <3>2
    <2>3. ASSUME NEW i \in DOMAIN eventQueue'
          PROVE  /\ eventQueue'[i].session = session
                 /\ Handled < eventQueue'[i].line /\ eventQueue'[i].line <= Pumped + 1
      <3>1. CASE eventQueue'[i] = head
        BY <1>4, <1>10, <3>1
      <3>2. CASE i \in DOMAIN eventQueue /\ eventQueue'[i] = eventQueue[i]
        <4>1. /\ eventQueue[i].session = session /\ eventQueue[i].line \in Nat
              /\ Handled < eventQueue[i].line /\ eventQueue[i].line <= Pumped
          BY <1>0, <3>2 DEF RelayInv, Numbering
        <4> QED
          BY <1>4, <1>10, <3>2, <4>1
      <3> QED
        BY <1>6, <3>1, <3>2
    <2>4. ASSUME NEW i \in DOMAIN eventQueue', NEW j \in DOMAIN eventQueue', i < j
          PROVE  eventQueue'[i].line < eventQueue'[j].line
      <3>1. i \in Nat /\ j \in Nat /\ DOMAIN eventQueue \subseteq Nat
        BY <1>7, <1>2, <2>4, LenProperties DEF RelayTypeOK
      <3>2. CASE j \in DOMAIN eventQueue /\ eventQueue'[j] = eventQueue[j]
        <4>1. i \in DOMAIN eventQueue /\ eventQueue'[i] = eventQueue[i]
          BY <1>6, <2>4, <3>1, <3>2
        <4> QED
          BY <2>4, <3>2, <4>1 DEF RelayInv, Numbering
      <3>3. CASE eventQueue'[j] = head /\ i \in DOMAIN eventQueue /\ eventQueue'[i] = eventQueue[i]
        <4>1. eventQueue[i].line \in Nat /\ eventQueue[i].line <= Pumped
          BY <1>0, <3>3 DEF RelayInv, Numbering
        <4> QED
          BY <1>4, <3>3, <4>1
      <3>4. CASE \A k \in DOMAIN eventQueue : k < i
        <4>1. j \notin DOMAIN eventQueue
          BY <2>4, <3>1, <3>4
        <4>2. i \notin DOMAIN eventQueue
          BY <3>1, <3>4
        <4>3. room
          BY <1>1, <4>2
        <4>4. i = Len(eventQueue) + 1 /\ j = Len(eventQueue) + 1
          BY <1>5, <4>1, <4>2, <4>3
        <4> QED
          BY <2>4, <3>1, <4>4
      <3> QED
        BY <1>6, <3>2, <3>3, <3>4
    <2>5. ASSUME NEW n \in Nat, Handled < n, n <= Pumped + 1
          PROVE  n \in dropped' \/ \E i \in DOMAIN eventQueue' : eventQueue'[i].line = n
      <3>1. CASE n = Pumped + 1
        BY <1>1, <1>4, <1>5, <3>1
      <3>2. CASE n <= Pumped
        <4>1. n \in dropped \/ \E i \in DOMAIN eventQueue : eventQueue[i].line = n
          BY <2>5, <3>2 DEF RelayInv, Numbering
        <4>2. dropped \subseteq dropped'
          BY <1>1
        <4>3. \A i \in DOMAIN eventQueue : i \in DOMAIN eventQueue' /\ eventQueue'[i] = eventQueue[i]
          BY <1>1, <1>5
        <4> QED
          BY <4>1, <4>2, <4>3
      <3> QED
        BY <1>4, <2>5, <3>1, <3>2
    <2> QED
      BY <1>1, <1>9, <2>1, <2>2, <2>3, <2>4, <2>5 DEF Numbering
  <1>12. Stamps' /\ Later'
    <2>1. \E i \in DOMAIN eventPipe : head = eventPipe[i]
      BY <1>3
    <2>2. \A e : (\E i \in DOMAIN eventPipe' : e = eventPipe'[i]) => \E i \in DOMAIN eventPipe : e = eventPipe[i]
      BY <1>3
    <2>3. \A e : (\E i \in DOMAIN eventQueue' : e = eventQueue'[i])
                => e = head \/ \E i \in DOMAIN eventQueue : e = eventQueue[i]
      BY <1>6
    <2>4. \A e \in Line : OnItsWay(e)' => OnItsWay(e)
      BY <1>1, <2>1, <2>2, <2>3 DEF OnItsWay, Seen
    <2> QED
      BY <1>1, <2>4, StampsKept, LaterKept DEF RelayInv
  <1>13. Ordering'
    <2>1. \A i \in DOMAIN eventQueue' : eventQueue'[i].session = session'
      BY <1>11, <1>1 DEF Numbering
    <2>2. dropped \subseteq dropped'
      BY <1>1
    <2> QED
      BY <1>1, <2>1, <2>2 DEF RelayInv, Ordering
  <1> QED
    BY <1>7, <1>8, <1>11, <1>12, <1>13 DEF RelayInv

LEMMA DeliverStep ==
  ASSUME RelayInv, DeliverLine, UNCHANGED serverSide, serverSide # "free"
  PROVE  RelayInv'
  <1> DEFINE head == Head(eventQueue)
  <1>1. /\ UNCHANGED <<session, clock, stamped, written, eventPipe, dropped>>
        /\ eventQueue # <<>> /\ eventQueue' = Tail(eventQueue)
        /\ store' = IF Len(store) = 2 THEN <<store[2], head>> ELSE Append(store, head)
    BY DEF DeliverLine
  <1>2. RelayTypeOK /\ eventQueue \in Seq(Line) /\ store \in Seq(Line) /\ Len(store) <= 2
    BY DEF RelayInv, RelayTypeOK
  <1>3. /\ Len(eventQueue) \in Nat \ {0} /\ DOMAIN eventQueue = 1..Len(eventQueue)
        /\ head \in Line /\ head = eventQueue[1]
        /\ eventQueue' \in Seq(Line) /\ DOMAIN eventQueue' = 1..Len(eventQueue) - 1
        /\ \A i \in 1..Len(eventQueue) - 1 : i + 1 \in 1..Len(eventQueue) /\ eventQueue'[i] = eventQueue[i + 1]
    BY <1>1, <1>2, TailFacts
  <1>4. /\ head.session = session /\ head.line \in Nat /\ Pumped \in Nat
        /\ Handled < head.line /\ head.line <= Pumped
    <2>1. 1 \in DOMAIN eventQueue
      BY <1>3
    <2>2. /\ head.session = session /\ Pumped \in Nat
          /\ Handled < head.line /\ head.line <= Pumped
      BY <1>3, <2>1 DEF RelayInv, Numbering
    <2>3. head.line \in Nat
      BY <1>3 DEF Line
    <2> QED
      BY <2>2, <2>3
  <1> HIDE DEF head
  <1>5. /\ Len(store) \in 0..2 /\ DOMAIN store = 1..Len(store)
        /\ store' \in Seq(Line) /\ store' # <<>> /\ Len(store') \in 1..2 /\ store'[Len(store')] = head
        /\ DOMAIN store' = 1..Len(store')
        /\ Len(store') = 2 => store # <<>> /\ store'[1] = store[Len(store)]
    <2>1. Len(store) \in 0..2 /\ DOMAIN store = 1..Len(store) /\ \A i \in 1..Len(store) : store[i] \in Line
      <3>1. Len(store) \in Nat /\ DOMAIN store = 1..Len(store)
        BY <1>2, LenProperties
      <3>2. \A i \in 1..Len(store) : store[i] \in Line
        BY <1>2, ElementOfSeq
      <3> QED
        BY <1>2, <3>1, <3>2
    <2>2. CASE Len(store) = 2
      <3>1. store[2] \in Line /\ store # <<>> /\ store' = <<store[2], head>>
        <4>1. Len(<<>>) = 0
          BY EmptySeq
        <4>2. 2 \in 1..Len(store)
          BY <2>2
        <4>3. store[2] \in Line
          BY Zenon, <2>1, <4>2
        <4>4. store # <<>>
          BY <2>2, <4>1
        <4>5. store' = <<store[2], head>>
          BY Zenon, <1>1, <2>2
        <4> QED
          BY <4>3, <4>4, <4>5
      <3>2. store' \in Seq(Line) /\ Len(store') = 2 /\ store'[1] = store[2] /\ store'[2] = head /\ store' # <<>>
        BY <1>3, <3>1
      <3>3. DOMAIN store' = 1..2
        BY <3>2, LenProperties
      <3> QED
        BY <2>1, <2>2, <3>1, <3>2, <3>3
    <2>3. CASE Len(store) # 2
      <3>1. store' = Append(store, head)
        BY <1>1, <2>3
      <3>2. /\ store' \in Seq(Line) /\ store' # <<>> /\ Len(store') = Len(store) + 1
            /\ DOMAIN store' = 1..Len(store) + 1
            /\ \A i \in 1..Len(store) : store'[i] = store[i]
            /\ store'[Len(store) + 1] = head
        BY <1>2, <1>3, <3>1, AppendFacts
      <3>3. Len(store) = 1 => store # <<>> /\ store'[1] = store[1]
        <4>1. Len(<<>>) = 0
          BY EmptySeq
        <4> QED
          BY <2>1, <3>2, <4>1
      <3> QED
        BY <2>1, <2>3, <3>2, <3>3
    <2> QED
      BY <2>2, <2>3
  <1>6. RelayTypeOK'
    <2>1. eventQueue' \in Seq(Line) /\ store' \in Seq(Line)
      BY Zenon, <1>3, <1>5
    <2>2. Len(store') <= 2
      BY <1>5
    <2> QED
      BY Zenon, <1>1, <1>2, <2>1, <2>2 DEF RelayTypeOK
  <1>7. Handled' = head.line /\ Pumped' = Pumped
    BY <1>1, <1>4, <1>5 DEF Handled, Pumped
  <1>8. Quiet' /\ Sessions'
    <2>1. session \in Nat
      BY <1>2 DEF RelayTypeOK
    <2>2. ASSUME NEW i \in DOMAIN store' PROVE store'[i].session <= session
      <3>1. CASE i = Len(store')
        BY <1>4, <1>5, <2>1, <3>1
      <3>2. CASE i # Len(store')
        <4>1. i = 1 /\ Len(store') = 2 /\ store'[1] = store[Len(store)] /\ Len(store) \in DOMAIN store
          BY <1>5, <3>2, EmptySeq, <1>2
        <4> QED
          BY <4>1 DEF RelayInv, Sessions
      <3> QED
        BY <3>1, <3>2
    <2> QED
      BY <1>1, <2>2 DEF RelayInv, Quiet, Sessions
  <1>9. Numbering'
    <2>1. \A i \in DOMAIN eventQueue' : i + 1 \in DOMAIN eventQueue /\ eventQueue'[i] = eventQueue[i + 1]
                                     /\ 1 < i + 1 /\ i \in Nat
      BY <1>3
    <2>2. 1 \in DOMAIN eventQueue /\ eventQueue[1] = head
      BY <1>3
    <2>3. \A i \in DOMAIN eventQueue' : /\ eventQueue'[i].session = session
                                       /\ head.line < eventQueue'[i].line /\ eventQueue'[i].line <= Pumped
      BY <2>1, <2>2 DEF RelayInv, Numbering
    <2>4. \A i, j \in DOMAIN eventQueue' : i < j => eventQueue'[i].line < eventQueue'[j].line
      <3> SUFFICES ASSUME NEW i \in DOMAIN eventQueue', NEW j \in DOMAIN eventQueue', i < j
                   PROVE  eventQueue'[i].line < eventQueue'[j].line
        OBVIOUS
      <3>1. i + 1 \in DOMAIN eventQueue /\ j + 1 \in DOMAIN eventQueue /\ i + 1 < j + 1
        BY <2>1
      <3> QED
        BY <2>1, <3>1 DEF RelayInv, Numbering
    <2>5. ASSUME NEW n \in Nat, head.line < n, n <= Pumped
          PROVE  n \in dropped \/ \E i \in DOMAIN eventQueue' : eventQueue'[i].line = n
      <3>1. Handled < n
        <4>1. Handled \in Int
          <5>1. store # <<>> => store[Len(store)] \in Line
            BY <1>2, LenProperties, EmptySeq
          <5> QED
            BY <5>1 DEF Handled, Line
        <4> QED
          BY <1>4, <2>5, <4>1
      <3>2. n \in dropped \/ \E i \in DOMAIN eventQueue : eventQueue[i].line = n
        BY <2>5, <3>1 DEF RelayInv, Numbering
      <3>3. ASSUME NEW i \in DOMAIN eventQueue, eventQueue[i].line = n
            PROVE  i - 1 \in DOMAIN eventQueue' /\ eventQueue'[i - 1] = eventQueue[i]
        <4>1. i # 1
          BY <1>4, <2>2, <2>5, <3>3
        <4>2. i \in Nat /\ i - 1 \in 1..Len(eventQueue) - 1 /\ (i - 1) + 1 = i
          BY <1>3, <3>3, <4>1
        <4> QED
          BY <1>3, <4>2
      <3> QED
        BY <3>2, <3>3
    <2>6. \A i \in DOMAIN eventPipe : eventPipe[i].session = session /\ eventPipe[i].line = Pumped + i
      BY DEF RelayInv, Numbering
    <2> QED
      BY <1>1, <1>4, <1>7, <2>3, <2>4, <2>5, <2>6 DEF Numbering
  <1>10. Stamps'
    <2>1. \E i \in DOMAIN eventQueue : head = eventQueue[i]
      BY <1>3
    <2>2. \A e : (\E i \in DOMAIN eventQueue' : e = eventQueue'[i]) => \E i \in DOMAIN eventQueue : e = eventQueue[i]
      BY <1>3
    <2>3. \A e : Seen(e)' => e = head
      BY <1>5 DEF Seen
    <2>4. \A e \in Line : OnItsWay(e)' => OnItsWay(e)
      BY <1>1, <2>1, <2>2, <2>3 DEF OnItsWay
    <2> QED
      BY <1>1, <2>4, StampsKept DEF RelayInv
  <1>11. Ordering'
    <2>1. \A i \in DOMAIN eventQueue' : eventQueue'[i].session = session'
      BY <1>9, <1>1 DEF Numbering
    <2> SUFFICES ASSUME Len(store') = 2
                 PROVE  LET e == store'[1]  f == store'[2]
                            next == IF e.session = f.session THEN e.line + 1 ELSE 1
                        IN  /\ e.session < f.session \/ (e.session = f.session /\ e.line < f.line)
                            /\ e.session = f.session /\ e.emitter = f.emitter => e.stamp < f.stamp
                            /\ f.session = session' /\ written' > 0 => next..f.line - 1 \subseteq dropped'
      BY <2>1 DEF Ordering
    <2> DEFINE last == store[Len(store)]
    <2>2. store # <<>> /\ store'[1] = last /\ store'[2] = head
      BY <1>5
    <2>3. last \in Line /\ last.session \in Nat /\ last.line \in Nat /\ last.session <= session /\ session \in Nat
      <3>1. Len(store) \in DOMAIN store
        BY <1>2, <1>5, <2>2, EmptySeq
      <3>2. last \in Line
        BY <1>2, <1>5, <3>1, ElementOfSeq
      <3> QED
        BY <1>2, <3>1, <3>2 DEF RelayInv, RelayTypeOK, Sessions, Line
    <2> HIDE DEF last
    <2>4. Handled = IF last.session = session THEN last.line ELSE 0
      BY <2>2 DEF Handled, last
    <2>5. last.session < head.session \/ (last.session = head.session /\ last.line < head.line)
      BY <1>4, <2>3, <2>4
    <2>6. last.session = head.session /\ last.emitter = head.emitter => last.stamp < head.stamp
      <3>1. OnItsWay(head)
        BY <1>3 DEF OnItsWay
      <3>2. last.session = session => OnItsWay(last)
        BY <2>2 DEF OnItsWay, Seen, last
      <3> QED
        BY <1>3, <1>4, <2>3, <2>4, <3>1, <3>2 DEF RelayInv, Stamps
    <2>7. \A n \in (Handled + 1)..head.line - 1 : n \in dropped
      <3> SUFFICES ASSUME NEW n \in (Handled + 1)..head.line - 1 PROVE n \in dropped
        OBVIOUS
      <3>1. Handled \in Nat
        BY <2>3, <2>4
      <3>2. n \in Nat /\ Handled < n /\ n < head.line /\ n <= Pumped
        BY <1>4, <3>1
      <3>3. n \in dropped \/ \E i \in DOMAIN eventQueue : eventQueue[i].line = n
        BY <3>2 DEF RelayInv, Numbering
      <3>4. ASSUME NEW i \in DOMAIN eventQueue, eventQueue[i].line = n PROVE FALSE
        <4>1. i = 1 \/ (1 < i /\ 1 \in DOMAIN eventQueue)
          BY <1>3, <3>4
        <4>2. head.line <= eventQueue[i].line
          BY <1>3, <1>4, <3>2, <3>4, <4>1 DEF RelayInv, Numbering
        <4> QED
          BY <1>4, <3>2, <3>4, <4>2
      <3> QED
        BY <3>3, <3>4
    <2>8. (IF last.session = head.session THEN last.line + 1 ELSE 1) = Handled + 1
      BY <1>4, <2>4
    <2> QED
      BY <1>1, <2>2, <2>5, <2>6, <2>7, <2>8
  <1>12. Later'
    <2>1. OnItsWay(head)
      BY <1>3 DEF OnItsWay
    <2>2. \A e : Seen(e)' => e = head
      BY <1>5 DEF Seen
    <2>3. \A e : (\E i \in DOMAIN eventQueue' : e = eventQueue'[i]) => \E i \in DOMAIN eventQueue : e = eventQueue[i]
      BY <1>3
    <2>4. \A e \in Line : OnItsWay(e)' => OnItsWay(e)
      BY <1>1, <2>1, <2>2, <2>3 DEF OnItsWay
    <2>5. head.stamp <= clock /\ ~(head.session < session)
      <3>1. session \in Nat
        BY <1>2 DEF RelayTypeOK
      <3> QED
        BY <1>3, <1>4, <2>1, <3>1 DEF RelayInv, Stamps
    <2>6. \A i \in DOMAIN store' : store'[i] = head \/ (Len(store') = 2 /\ store'[i] = store[Len(store)])
      <3> SUFFICES ASSUME NEW i \in DOMAIN store'
                   PROVE  store'[i] = head \/ (Len(store') = 2 /\ store'[i] = store[Len(store)])
        OBVIOUS
      <3>1. i = Len(store') \/ (i = 1 /\ Len(store') = 2)
        BY <1>5
      <3> QED
        BY <1>5, <3>1
    <2>7. Len(store') = 2 => Len(store) \in DOMAIN store
      <3>1. store # <<>> => Len(store) # 0
        BY <1>2, EmptySeq
      <3> QED
        BY <1>5, <3>1
    <2>8. \A e : Earlier(e) =>
            /\ \A f \in Line : OnItsWay(f)' => e.stamp < f.stamp
            /\ \A t \in Emitter : stamped'[t] > 0 => e.stamp < stamped'[t]
      BY <1>1, <2>4 DEF Earlier
    <2>9. ASSUME NEW i \in DOMAIN store'
          PROVE  /\ store'[i].stamp <= clock'
                 /\ store'[i].session < session' =>
                      /\ \A f \in Line : OnItsWay(f)' => store'[i].stamp < f.stamp
                      /\ \A t \in Emitter : stamped'[t] > 0 => store'[i].stamp < stamped'[t]
      <3>1. CASE store'[i] = head
        BY <1>1, <2>5, <3>1
      <3>2. CASE Len(store') = 2 /\ store'[i] = store[Len(store)]
        <4> DEFINE e == store[Len(store)]
        <4>1. e.stamp <= clock /\ (e.session < session => Earlier(e))
          BY <2>7, <3>2 DEF RelayInv, Later
        <4>2. store'[i] = e
          BY <3>2
        <4> HIDE DEF e
        <4> QED
          BY <1>1, <2>8, <4>1, <4>2
      <3> QED
        BY <2>6, <3>1, <3>2
    <2>10. Len(store') = 2 /\ store'[1].session < store'[2].session => store'[1].stamp < store'[2].stamp
      <3> SUFFICES ASSUME Len(store') = 2, store'[1].session < store'[2].session
                   PROVE  store'[1].stamp < store'[2].stamp
        OBVIOUS
      <3>1. store'[2] = head /\ store'[1] = store[Len(store)] /\ Len(store) \in DOMAIN store
        BY <1>5, <2>7
      <3>2. Earlier(store[Len(store)])
        BY <1>4, <3>1 DEF RelayInv, Later
      <3> QED
        BY <1>3, <2>1, <3>1, <3>2 DEF Earlier
    <2> QED
      BY <2>9, <2>10 DEF Later, Earlier
  <1> QED
    BY <1>6, <1>8, <1>9, <1>10, <1>11, <1>12 DEF RelayInv

LEMMA BeginStep ==
  ASSUME RelayInv, BeginSession, serverSide = "free", serverSide' \in {"held", "forsaken"}
  PROVE  RelayInv'
  <1>1. /\ session' = session + 1 /\ session \in Nat
        /\ UNCHANGED <<clock, stamped, written, eventPipe, eventQueue, dropped, store>>
    BY DEF BeginSession, RelayInv, RelayTypeOK
  <1>2. written = 0 /\ eventPipe = <<>> /\ eventQueue = <<>>
    BY DEF RelayInv, Quiet
  <1>3. \A i \in DOMAIN store : store[i].session < session' /\ store[i].session # session'
    <2>1. store \in Seq(Line) /\ \A i \in DOMAIN store : store[i] \in Line
      BY LenProperties, ElementOfSeq DEF RelayInv, RelayTypeOK
    <2>2. \A i \in DOMAIN store : store[i].session \in Nat /\ store[i].session <= session
      BY <2>1 DEF RelayInv, Sessions, Line
    <2> QED
      BY <1>1, <2>2
  <1>4. store # <<>> => Len(store) \in DOMAIN store
    BY LenProperties, EmptySeq DEF RelayInv, RelayTypeOK
  <1>5. RelayTypeOK' /\ Quiet'
    BY <1>1 DEF RelayInv, RelayTypeOK, Quiet
  <1>6. Sessions'
    <2>1. store \in Seq(Line) /\ \A i \in DOMAIN store : store[i] \in Line
      BY LenProperties, ElementOfSeq DEF RelayInv, RelayTypeOK
    <2>2. \A i \in DOMAIN store : store[i].session \in Nat
      BY <2>1 DEF Line
    <2> QED
      BY <1>1, <1>3, <2>2 DEF Sessions
  <1>7. Handled' = 0 /\ Pumped' = 0 /\ \A e : ~ OnItsWay(e)'
    <2>1. Len(eventPipe) = 0 /\ DOMAIN eventPipe = {} /\ DOMAIN eventQueue = {}
      BY <1>2
    <2>2. Pumped' = 0
      <3>1. written' = 0 /\ Len(eventPipe') = 0
        BY <1>1, <1>2, <2>1
      <3> QED
        BY <3>1 DEF Pumped
    <2>3. Handled' = 0
      BY <1>1, <1>3, <1>4 DEF Handled
    <2>4. ASSUME NEW e, OnItsWay(e)' PROVE FALSE
      <3>1. ~ Seen(e)'
        BY <1>1, <1>3, <1>4 DEF Seen
      <3> QED
        BY <1>1, <2>1, <2>4, <3>1 DEF OnItsWay
    <2> QED
      BY <2>2, <2>3, <2>4
  <1>8. Numbering'
    <2>1. DOMAIN eventPipe' = {} /\ DOMAIN eventQueue' = {}
      BY <1>1, <1>2
    <2> QED
      BY <1>7, <2>1 DEF Numbering
  <1>9. Stamps'
    BY <1>1, <1>7 DEF RelayInv, Stamps
  <1>10. Ordering'
    <2>1. DOMAIN eventQueue' = {}
      BY <1>1, <1>2
    <2>2. Len(store) = 2 => store[2].session # session'
      <3>1. Len(store) = 2 => 2 \in DOMAIN store
        BY LenProperties DEF RelayInv, RelayTypeOK
      <3> QED
        BY <1>3, <3>1
    <2> QED
      BY <1>1, <2>1, <2>2 DEF RelayInv, Ordering
  <1>11. Later'
    <2>1. \A t \in Emitter : stamped[t] = 0
      BY DEF RelayInv, Quiet
    <2>2. \A e : Earlier(e)'
      BY <1>1, <1>7, <2>1 DEF Earlier
    <2> QED
      BY <1>1, <2>2 DEF RelayInv, Later
  <1> QED
    BY <1>5, <1>6, <1>8, <1>9, <1>10, <1>11 DEF RelayInv

LEMMA EndStep ==
  ASSUME RelayInv, EndSession, serverSide' = "free"
  PROVE  RelayInv'
  <1>1. /\ stamped' = [t \in Emitter |-> 0] /\ written' = 0
        /\ eventPipe' = <<>> /\ dropped' = {} /\ eventQueue' = <<>>
        /\ UNCHANGED <<session, clock, store>>
    BY DEF EndSession
  <1>2. RelayTypeOK'
    <2>1. eventPipe' \in Seq(Line) /\ eventQueue' \in Seq(Line)
      BY <1>1, EmptySeq
    <2>2. stamped' \in [Emitter -> Nat]
      BY <1>1
    <2> QED
      BY <1>1, <2>1, <2>2 DEF RelayInv, RelayTypeOK
  <1>3. Quiet' /\ Sessions'
    BY <1>1 DEF RelayInv, Quiet, Sessions
  <1>4. DOMAIN eventPipe' = {} /\ DOMAIN eventQueue' = {} /\ Pumped' = 0 /\ \A e : ~ OnItsWay(e)'
    <2>1. DOMAIN eventPipe' = {} /\ DOMAIN eventQueue' = {} /\ Len(eventPipe') = 0
      BY <1>1
    <2>2. Pumped' = 0
      <3>1. written' = 0 /\ Len(eventPipe') = 0
        BY <1>1, <2>1
      <3> QED
        BY <3>1 DEF Pumped
    <2>3. ASSUME NEW e, OnItsWay(e)' PROVE FALSE
      BY <2>1, <2>3 DEF OnItsWay
    <2> QED
      BY <2>1, <2>2, <2>3
  <1>5. Numbering'
    <2>1. Handled' \in Nat
      <3>1. store' # <<>> => store'[Len(store')] \in Line
        BY <1>2, LenProperties, EmptySeq DEF RelayTypeOK
      <3> QED
        BY <3>1 DEF Handled, Line
    <2> QED
      BY <1>4, <2>1 DEF Numbering
  <1>6. Stamps'
    BY <1>1, <1>4 DEF RelayInv, RelayTypeOK, Stamps
  <1>7. Ordering'
    BY <1>1, <1>4 DEF RelayInv, Ordering
  <1>8. Later'
    <2>1. \A e : Earlier(e)'
      BY <1>1, <1>4 DEF Earlier
    <2> QED
      BY <1>1, <2>1 DEF RelayInv, Later
  <1> QED
    BY <1>2, <1>3, <1>5, <1>6, <1>7, <1>8 DEF RelayInv

-----------------------------------------------------------------------------
\* The connection.

\* What a step of the link does to the events and to the slot they depend on.
LEMMA LinkRelaySteps ==
  ASSUME RelayInv, LinkNext
  PROVE  \/ /\ UNCHANGED relayVars /\ (serverSide' = "free" <=> serverSide = "free")
            /\ serverSide' \in {"free", "held", "closed", "forsaken"}
         \/ BeginSession /\ serverSide = "free" /\ serverSide' \in {"held", "forsaken"}
         \/ EndSession /\ serverSide' = "free"
         \/ /\ serverSide # "free" /\ UNCHANGED serverSide
            /\ (\E t \in Emitter : Stamp(t) \/ WriteLine(t)) \/ PumpLine \/ DeliverLine
  <1>0. serverSide \in {"free", "held", "closed", "forsaken"}
    BY DEF RelayInv, RelayTypeOK
  <1>1. CASE ClientStep
    <2>1. CASE Dial \/ LoopEnds \/ HandshakeEnds \/ Backoff
      BY <1>0, <2>1 DEF Dial, LoopEnds, HandshakeEnds, Backoff, slotVars
    <2>2. CASE HandshakeFails
      BY <1>0, <2>2 DEF HandshakeFails, Forsakes
    <2>3. CASE PumpEnds
      BY <1>0, <2>3 DEF PumpEnds, Forsakes
    <2> QED
      BY <1>1, <2>1, <2>2, <2>3 DEF ClientStep
  <1>2. CASE Stop
    BY <1>0, <1>2 DEF Stop, connVars, slotVars
  <1>3. CASE GatewayStep
    <2>1. CASE Answer \/ AnswerLate \/ ShellStops
      BY <1>0, <2>1 DEF Answer, AnswerLate, ShellStops, connVars, slotVars
    <2>2. CASE Claim
      BY <1>0, <2>2 DEF Claim, SlotTaken
    <2>3. CASE ClaimLate
      BY <1>0, <2>3 DEF ClaimLate, SlotTaken
    <2>4. CASE ChildGone \/ ServerNotices
      BY <2>4 DEF ChildGone, ServerNotices, Release
    <2>5. CASE ClosesNormally \/ ServerCloses
      BY <1>0, <2>5 DEF ClosesNormally, ServerCloses
    <2> QED
      BY <1>3, <2>1, <2>2, <2>3, <2>4, <2>5 DEF GatewayStep, RequestStep, CloseStep
  <1>4. CASE GateStep
    BY <1>0, <1>4 DEF GateStep, Toggle, TakeLine, SendControl, ChildToggles, connVars, slotVars
  <1>5. CASE Relay
    BY <1>5 DEF Relay, connVars, slotVars
  <1> QED
    BY <1>1, <1>2, <1>3, <1>4, <1>5 DEF LinkNext

LEMMA RelayInitInv == LinkInit => RelayInv
  <1> SUFFICES ASSUME LinkInit PROVE RelayInv
    OBVIOUS
  <1>1. /\ session = 0 /\ clock = 0 /\ written = 0 /\ serverSide = "free" /\ dropped = {}
        /\ stamped = [t \in Emitter |-> 0]
        /\ eventPipe = <<>> /\ eventQueue = <<>> /\ store = <<>>
    BY DEF LinkInit, RelayInit
  <1>2. /\ Len(store) = 0 /\ Len(eventPipe) = 0 /\ <<>> \in Seq(Line)
        /\ DOMAIN eventPipe = {} /\ DOMAIN eventQueue = {} /\ DOMAIN store = {}
    BY <1>1, EmptySeq
  <1>3. RelayTypeOK
    BY <1>1, <1>2 DEF RelayTypeOK
  <1>4. Quiet /\ Sessions /\ Ordering
    BY <1>1, <1>2 DEF Quiet, Sessions, Ordering
  <1>5. Numbering
    <2>1. Pumped = 0
      <3>1. written = 0 /\ Len(eventPipe) = 0
        BY <1>1, <1>2
      <3> QED
        BY <3>1 DEF Pumped
    <2>2. Handled = 0
      BY <1>1 DEF Handled
    <2> QED
      BY <1>1, <1>2, <2>1, <2>2 DEF Numbering
  <1>6. Stamps
    BY <1>1, <1>2 DEF Stamps, OnItsWay
  <1>7. Later
    BY <1>1, <1>2 DEF Later
  <1> QED
    BY <1>3, <1>4, <1>5, <1>6, <1>7 DEF RelayInv

\* A step of the client is one of the link or leaves the link alone, but for the Shell.
LEMMA ClientSteps ==
  ASSUME [ClientNext]_clientVars
  PROVE  LinkNext \/ ShellStops \/ UNCHANGED linkVars
  BY DEF ClientNext, Running, clientVars

LEMMA RelayStep == RelayInv /\ [ClientNext]_clientVars => RelayInv'
  <1> SUFFICES ASSUME RelayInv, [ClientNext]_clientVars PROVE RelayInv'
    OBVIOUS
  <1>1. CASE LinkNext
    <2>1. CASE /\ UNCHANGED relayVars /\ (serverSide' = "free" <=> serverSide = "free")
               /\ serverSide' \in {"free", "held", "closed", "forsaken"}
      BY <2>1, RelayStutter
    <2>2. CASE BeginSession /\ serverSide = "free" /\ serverSide' \in {"held", "forsaken"}
      BY <2>2, BeginStep
    <2>3. CASE EndSession /\ serverSide' = "free"
      BY <2>3, EndStep
    <2>4. ASSUME serverSide # "free", UNCHANGED serverSide,
                 (\E t \in Emitter : Stamp(t) \/ WriteLine(t)) \/ PumpLine \/ DeliverLine
          PROVE  RelayInv'
      BY <2>4, StampStep, WriteLineStep, PumpStep, DeliverStep
    <2> QED
      BY <1>1, <2>1, <2>2, <2>3, <2>4, LinkRelaySteps
  <1>2. CASE ShellStops \/ UNCHANGED linkVars
    <2>1. UNCHANGED <<relayVars, serverSide>>
      BY <1>2 DEF ShellStops, linkVars, connVars, slotVars
    <2>2. serverSide' \in {"free", "held", "closed", "forsaken"}
      BY <2>1 DEF RelayInv, RelayTypeOK
    <2> QED
      BY <2>1, <2>2, RelayStutter
  <1> QED
    BY <1>1, <1>2, ClientSteps

\* The client handles the events of its own child in their order, and misses only those
\* that found the queue full: for any number of threads, sessions and events, and any
\* size of the queue (_event_lock, a pipe and a queue per session, QueueFull).
THEOREM EventsStayInOrder == ClientSpec => []EventsInOrder
  <1>1. ClientInit => RelayInv
    BY RelayInitInv DEF ClientInit
  <1>2. RelayInv => EventsInOrder
    BY DEF RelayInv, Ordering, EventsInOrder
  <1> QED
    BY <1>1, <1>2, RelayStep, PTL DEF ClientSpec

-----------------------------------------------------------------------------
\* The connection, again.

LEMMA LinkInitInv == LinkInit => LinkInv
  <1> SUFFICES ASSUME LinkInit PROVE LinkInv
    OBVIOUS
  <1>1. /\ link = "connecting" /\ request = "none" /\ answer = 0 /\ serverSide = "free"
        /\ closing = FALSE /\ closeCode = 0 /\ ready = TRUE
    BY DEF LinkInit
  <1>2. LinkTypeOK
    BY <1>1 DEF LinkTypeOK
  <1>3. Asks /\ Answered /\ Waits /\ Closes /\ Freed
    BY <1>1 DEF Asks, Answered, Waits, Closes, Freed
  <1> QED
    BY <1>2, <1>3 DEF LinkInv

LEMMA LinkStutter == ASSUME LinkInv, UNCHANGED <<connVars, ready>> PROVE LinkInv'
  BY DEF connVars, runVars, requestVars, slotVars,
         LinkInv, LinkTypeOK, Asks, Answered, Waits, Closes, Freed

\* A client that leaves takes all that was said to it along.
LEMMA Leaves ==
  ASSUME LinkInv, Forsakes, link' \in {"backoff", "done"}, UNCHANGED ready
  PROVE  LinkInv'
  <1>1. /\ request' = "none" /\ answer' = 0 /\ closing' = FALSE /\ closeCode' = 0
        /\ serverSide' \in {"free", "forsaken"} /\ ready' = ready
    BY DEF Forsakes
  <1>2. LinkTypeOK'
    <2>1. ready \in BOOLEAN /\ closing \in BOOLEAN
      BY DEF LinkInv, LinkTypeOK
    <2>2. ready' \in BOOLEAN /\ closing' \in BOOLEAN
      BY Zenon, <1>1, <2>1
    <2> QED
      BY <1>1, <2>2 DEF LinkInv, LinkTypeOK, FatalClose
  <1>3. Asks' /\ Answered' /\ Waits' /\ Closes' /\ Freed'
    BY <1>1 DEF Asks, Answered, Waits, Closes, Freed
  <1> QED
    BY <1>2, <1>3 DEF LinkInv

LEMMA Retries ==
  ASSUME RetryUnlessStopped \/ \E why : Returns(why)
  PROVE  link' \in {"backoff", "done"}
  BY DEF RetryUnlessStopped, Retry, Returns

LEMMA ClientStepLink == ASSUME LinkInv, ClientStep PROVE LinkInv'
  <1>1. CASE Dial
    BY <1>1 DEF Dial, slotVars, LinkInv, LinkTypeOK, Asks, Answered, Waits, Closes, Freed
  <1>2. CASE LoopEnds
    BY <1>2 DEF LoopEnds, Returns, requestVars, slotVars,
                LinkInv, LinkTypeOK, Asks, Answered, Waits, Closes, Freed
  <1>3. CASE HandshakeEnds
    <2>1. /\ link = "dialing" /\ answer # 0 /\ answer' = 0 /\ UNCHANGED <<request, slotVars, ready>>
          /\ \/ answer = 101 /\ link' = "open"
             \/ answer \in {409, 503} /\ link' \in {"backoff", "done"}
      BY <1>3 DEF HandshakeEnds, RetryUnlessStopped, Retry, Returns
    <2>2. UNCHANGED <<serverSide, closing, closeCode>>
      BY <2>1 DEF slotVars
    <2>3. LinkTypeOK'
      BY <2>1, <2>2 DEF LinkInv, LinkTypeOK
    <2>4. Asks' /\ Answered' /\ Closes'
      BY <2>1, <2>2 DEF LinkInv, LinkTypeOK, Asks, Answered, Closes
    <2>5. Waits' /\ Freed'
      <3>1. CASE link' = "open"
        BY <2>1, <2>2, <3>1 DEF LinkInv, Asks, Answered, Waits, Freed
      <3>2. CASE answer \in {409, 503} /\ link' \in {"backoff", "done"}
        <4>1. request = "none" /\ closeCode = 0 /\ ~closing /\ serverSide # "held"
          BY <3>2 DEF LinkInv, Answered
        <4>2. link' = "backoff" => ~ready
          BY <1>3, <2>1, <3>2 DEF HandshakeEnds, Returns, LinkInv, Answered
        <4> QED
          BY <2>1, <2>2, <3>2, <4>1, <4>2 DEF Waits, Freed
      <3> QED
        BY <2>1, <3>1, <3>2
    <2> QED
      BY <2>3, <2>4, <2>5 DEF LinkInv
  <1>4. CASE HandshakeFails
    <2>1. Forsakes /\ link' \in {"backoff", "done"} /\ UNCHANGED ready
      BY <1>4, Retries DEF HandshakeFails
    <2> QED
      BY <2>1, Leaves
  <1>5. CASE Backoff
    BY <1>5 DEF Backoff, requestVars, slotVars, LinkInv, LinkTypeOK, Asks, Answered, Waits, Closes, Freed
  <1>6. CASE PumpEnds
    <2>1. CASE Forsakes
      <3>1. link' \in {"backoff", "done"} /\ UNCHANGED ready
        BY <1>6, Retries DEF PumpEnds, RetryUnlessStopped, Retry, Returns
      <3> QED
        BY <2>1, <3>1, Leaves
    <2>2. CASE ~Forsakes
      <3>1. /\ link = "open" /\ closeCode # 0 /\ closeCode' = 0
            /\ UNCHANGED <<request, answer, serverSide, closing, ready>>
            /\ link' = "done" \/ (closeCode # FatalClose /\ link' = "backoff")
        BY <1>6, <2>2 DEF PumpEnds, RetryUnlessStopped, Retry, Returns, requestVars
      <3> QED
        BY <3>1 DEF LinkInv, LinkTypeOK, Asks, Answered, Waits, Closes, Freed
    <2> QED
      BY <2>1, <2>2
  <1> QED
    BY <1>1, <1>2, <1>3, <1>4, <1>5, <1>6 DEF ClientStep

LEMMA GatewayStepLink == ASSUME LinkInv, GatewayStep PROVE LinkInv'
  <1>1. CASE Answer
    BY <1>1 DEF Answer, runVars, slotVars, LinkInv, LinkTypeOK, Asks, Answered, Waits, Closes, Freed
  <1>2. CASE Claim
    BY <1>2 DEF Claim, SlotTaken, FatalClose, runVars,
                LinkInv, LinkTypeOK, Asks, Answered, Waits, Closes, Freed
  <1>3. CASE AnswerLate
    BY <1>3 DEF AnswerLate, runVars, slotVars, LinkInv, LinkTypeOK, Asks, Answered, Waits, Closes, Freed
  <1>4. CASE ClaimLate
    BY <1>4 DEF ClaimLate, runVars, LinkInv, LinkTypeOK, Asks, Answered, Waits, Closes, Freed
  <1>5. CASE ChildGone
    BY <1>5 DEF ChildGone, Release, runVars, requestVars,
                LinkInv, LinkTypeOK, Asks, Answered, Waits, Closes, Freed
  <1>6. CASE ClosesNormally
    <2>1. /\ closing /\ closing' = FALSE /\ closeCode' = 1000
          /\ UNCHANGED <<link, request, answer, serverSide, ready>>
      BY <1>6 DEF ClosesNormally, runVars, requestVars
    <2>2. serverSide \notin {"held", "closed"} /\ request = "none" /\ link \notin {"connecting", "backoff"}
          /\ answer \in {0, 101}
      BY <2>1 DEF LinkInv, LinkTypeOK, Asks, Answered, Waits, Closes
    <2>3. LinkTypeOK'
      <3>1. ready \in BOOLEAN /\ closing \in BOOLEAN
        BY DEF LinkInv, LinkTypeOK
      <3>2. ready' \in BOOLEAN /\ closing' \in BOOLEAN
        BY Zenon, <2>1, <3>1
      <3> QED
        BY <2>1, <3>2 DEF LinkInv, LinkTypeOK, FatalClose
    <2>4. Asks' /\ Answered' /\ Waits' /\ Closes' /\ Freed'
      BY <2>1, <2>2 DEF LinkInv, Asks, Answered, Waits, Closes, Freed
    <2> QED
      BY <2>3, <2>4 DEF LinkInv
  <1>7. CASE ServerCloses
    BY <1>7 DEF ServerCloses, runVars, requestVars, FatalClose,
                LinkInv, LinkTypeOK, Asks, Answered, Waits, Closes, Freed
  <1>8. CASE ServerNotices
    BY <1>8 DEF ServerNotices, Release, runVars, requestVars,
                LinkInv, LinkTypeOK, Asks, Answered, Waits, Closes, Freed
  <1>9. CASE ShellStops
    <2>1. /\ ready /\ ready' = FALSE
          /\ UNCHANGED <<link, request, answer, serverSide, closing, closeCode>>
      BY <1>9 DEF ShellStops, connVars, runVars, requestVars, slotVars
    <2>2. LinkTypeOK'
      <3>1. ready \in BOOLEAN /\ closing \in BOOLEAN
        BY DEF LinkInv, LinkTypeOK
      <3>2. ready' \in BOOLEAN /\ closing' \in BOOLEAN
        BY Zenon, <2>1, <3>1
      <3> QED
        BY <2>1, <3>2 DEF LinkInv, LinkTypeOK, FatalClose
    <2>3. Asks' /\ Answered' /\ Waits' /\ Closes' /\ Freed'
      BY <2>1 DEF LinkInv, Asks, Answered, Waits, Closes, Freed
    <2> QED
      BY <2>2, <2>3 DEF LinkInv
  <1> QED
    BY <1>1, <1>2, <1>3, <1>4, <1>5, <1>6, <1>7, <1>8, <1>9 DEF GatewayStep, RequestStep, CloseStep

LEMMA LinkStep == LinkInv /\ [ClientNext]_clientVars => LinkInv'
  <1> SUFFICES ASSUME LinkInv, [ClientNext]_clientVars PROVE LinkInv'
    OBVIOUS
  <1>1. CASE LinkNext
    <2>1. CASE Stop \/ GateStep \/ Relay
      <3>1. UNCHANGED <<connVars, ready>>
        BY <2>1 DEF Stop, GateStep, Toggle, TakeLine, SendControl, ChildToggles, Relay
      <3> QED
        BY <3>1, LinkStutter
    <2> QED
      BY <1>1, <2>1, ClientStepLink, GatewayStepLink DEF LinkNext
  <1>2. CASE ShellStops
    BY <1>2, GatewayStepLink DEF GatewayStep
  <1>3. CASE UNCHANGED linkVars
    BY <1>3, LinkStutter DEF linkVars
  <1> QED
    BY <1>1, <1>2, <1>3, ClientSteps

\* A client is turned away for good only by a connection or a handshake it left behind:
\* for any numbers of attempts and cuts, and whatever order closes, requests, answers
\* and the stop come in (_handler's finally before the close frame, _process_request).
THEOREM RejectedWhileForsaken == ClientSpec => RejectedOnlyByForsaken
  <1>1. ClientInit => LinkInv
    BY LinkInitInv DEF ClientInit
  <1>2. LinkInv /\ [ClientNext]_clientVars =>
          [answer # 409 /\ answer' = 409 => serverSide = "forsaken"]_linkVars
    <2> SUFFICES ASSUME LinkInv, LinkNext \/ ShellStops, answer # 409, answer' = 409
                 PROVE  serverSide = "forsaken"
      BY ClientSteps
    <2>1. CASE Answer
      <3>1. request = "sent" /\ ready /\ serverSide # "free"
        BY <2>1 DEF Answer, SlotTaken
      <3> QED
        BY <3>1 DEF LinkInv, LinkTypeOK, Asks, Freed
    <2>2. CASE ClientStep
      <3>1. answer' \in {0, answer}
        BY <2>2 DEF ClientStep, Dial, LoopEnds, HandshakeEnds, HandshakeFails, Forsakes, Backoff,
                    PumpEnds, requestVars
      <3> QED
        BY <3>1
    <2>3. CASE Claim \/ AnswerLate \/ ClaimLate \/ CloseStep \/ ShellStops
      BY <2>3 DEF Claim, AnswerLate, ClaimLate, CloseStep, ChildGone, ClosesNormally, ServerCloses,
                  ServerNotices, ShellStops, connVars, requestVars
    <2>4. CASE Stop \/ GateStep \/ Relay
      BY <2>4 DEF Stop, GateStep, Toggle, TakeLine, SendControl, ChildToggles, Relay, connVars, requestVars
    <2> QED
      BY <2>1, <2>2, <2>3, <2>4 DEF LinkNext, GatewayStep, RequestStep
  <1> QED
    BY <1>1, <1>2, LinkStep, PTL DEF ClientSpec, RejectedOnlyByForsaken

-----------------------------------------------------------------------------
\* The recording gate, again.

\* A line more or less on its way.
LEMMA Parity ==
  ASSUME NEW n \in Nat
  PROVE  ((n + 1) % 2 = 0) <=> ~(n % 2 = 0)
  OBVIOUS

LEMMA OnTheWayType == RecTypeOK => OnTheWay \in Nat
  BY DEF RecTypeOK, OnTheWay

LEMMA RecInitInv == LinkInit => RecInv
  <1> SUFFICES ASSUME LinkInit PROVE RecInv
    OBVIOUS
  <1>1. /\ clientRec = TRUE /\ serverRec = TRUE /\ inHand = FALSE /\ drifted = FALSE
        /\ controlQueue = 0 /\ controlPipe = 0 /\ serverSide = "free"
    BY DEF LinkInit
  <1> QED
    BY <1>1 DEF RecInv, RecTypeOK, HandEmpty, Matched

\* A new connection of the client, or an end of the gateway's, leaves the gates alone.
LEMMA RecStutter ==
  ASSUME RecInv, UNCHANGED recVars,
         link' # "open" => link # "open", serverSide' = "held" => serverSide = "held"
  PROVE  RecInv'
  <1>1. RecTypeOK' /\ HandEmpty'
    BY DEF RecInv, recVars, RecTypeOK, HandEmpty
  <1>2. (Agree' <=> Agree) /\ (Even' <=> Even) /\ drifted' = drifted
    BY DEF recVars, Agree, Even, OnTheWay
  <1>3. Matched'
    BY <1>2 DEF RecInv, Matched
  <1> QED
    BY <1>1, <1>3 DEF RecInv

\* A new child's gate is open, and so many lines are on their way for it.
LEMMA ClaimStep == ASSUME RecInv, Claim PROVE RecInv'
  <1>1. UNCHANGED <<link, clientRec, controlQueue, inHand, controlPipe>>
    BY DEF Claim, runVars
  <1>2. (Even' <=> Even) /\ clientRec \in BOOLEAN /\ HandEmpty'
    BY <1>1 DEF RecInv, HandEmpty, RecTypeOK, Even, OnTheWay
  <1>3. CASE serverRec' = TRUE /\ drifted' = (clientRec # (OnTheWay % 2 = 0))
    <2>1. RecTypeOK'
      BY <1>1, <1>3 DEF RecInv, RecTypeOK
    <2>2. Agree' <=> clientRec
      BY <1>1, <1>2, <1>3 DEF Agree
    <2>3. ~drifted' => (clientRec <=> Even)
      BY <1>2, <1>3 DEF Even
    <2>4. Matched'
      BY <1>2, <2>2, <2>3 DEF Matched
    <2> QED
      BY <1>2, <2>1, <2>4 DEF RecInv
  <1>4. CASE UNCHANGED <<serverSide, serverRec, drifted>>
    BY <1>1, <1>4, RecStutter DEF Claim, recVars
  <1> QED
    BY <1>3, <1>4 DEF Claim

\* Behind a connection that is over, no child holds the client to the lines that went
\* with it.
LEMMA PumpEndsStep == ASSUME LinkInv, RecInv, PumpEnds PROVE RecInv'
  <1>1. /\ inHand' = FALSE /\ drifted' = (drifted \/ inHand) /\ controlPipe' = 0
        /\ UNCHANGED <<clientRec, controlQueue, serverRec>>
    BY DEF PumpEnds, TasksCancelled
  <1>2. serverSide' # "held"
    BY DEF PumpEnds, Forsakes, LinkInv, Closes
  <1>3. RecTypeOK' /\ HandEmpty'
    BY <1>1 DEF RecInv, RecTypeOK, HandEmpty
  <1> QED
    BY <1>2, <1>3 DEF RecInv, Matched

LEMMA GateStepKeeps == ASSUME RecInv, GateStep PROVE RecInv'
  <1>0. RecTypeOK /\ HandEmpty /\ Matched /\ OnTheWay \in Nat
    BY OnTheWayType DEF RecInv
  <1>1. UNCHANGED <<link, serverSide>>
    BY DEF GateStep, Toggle, TakeLine, SendControl, ChildToggles, connVars, runVars, slotVars
  <1>2. CASE Toggle
    <2>1. /\ clientRec' = ~clientRec /\ UNCHANGED <<inHand, controlPipe, serverRec>>
          /\ \/ controlQueue' = controlQueue + 1 /\ drifted' = drifted
             \/ drifted' = TRUE /\ controlQueue' = controlQueue
      BY <1>2 DEF Toggle
    <2>2. RecTypeOK' /\ HandEmpty'
      <3>1. controlQueue' \in Nat /\ clientRec' \in BOOLEAN /\ drifted' \in BOOLEAN
        <4>1. controlQueue \in Nat /\ controlQueue + 1 \in Nat /\ drifted \in BOOLEAN
          BY <1>0 DEF RecTypeOK
        <4>2. controlQueue' \in Nat
          BY <2>1, <4>1
        <4>3. clientRec' \in BOOLEAN /\ drifted' \in BOOLEAN
          BY <2>1, <4>1
        <4> QED
          BY <4>2, <4>3
      <3>2. HandEmpty'
        BY <1>0, <1>1, <2>1 DEF HandEmpty
      <3> QED
        BY <1>0, <2>1, <3>1, <3>2 DEF RecTypeOK
    <2>3. Agree' <=> ~Agree
      <3>1. clientRec \in BOOLEAN /\ serverRec \in BOOLEAN
        BY <1>0 DEF RecTypeOK
      <3> QED
        BY <2>1, <3>1 DEF Agree
    <2>4. ~drifted' => ~drifted /\ (Even' <=> ~Even)
      <3> SUFFICES ASSUME ~drifted' PROVE ~drifted /\ (Even' <=> ~Even)
        OBVIOUS
      <3>1. ~drifted /\ controlQueue' = controlQueue + 1
        BY <2>1
      <3>2. OnTheWay' = OnTheWay + 1
        BY <1>0, <2>1, <3>1 DEF OnTheWay, RecTypeOK
      <3> QED
        BY <1>0, <3>1, <3>2, Parity DEF Even
    <2>5. Matched'
      BY <1>0, <1>1, <2>3, <2>4 DEF Matched
    <2> QED
      BY <2>2, <2>5 DEF RecInv
  <1>3. CASE TakeLine \/ SendControl
    <2>1. /\ UNCHANGED <<clientRec, serverRec, drifted>>
          /\ \/ /\ ~inHand /\ controlQueue > 0 /\ link = "open" /\ inHand' = TRUE
                /\ controlQueue' = controlQueue - 1 /\ controlPipe' = controlPipe
             \/ inHand /\ inHand' = FALSE /\ controlPipe' = controlPipe + 1 /\ controlQueue' = controlQueue
      BY <1>3 DEF TakeLine, SendControl
    <2>2. RecTypeOK' /\ HandEmpty'
      <3>1. controlQueue' \in Nat /\ controlPipe' \in Nat
        BY <1>0, <2>1 DEF RecTypeOK
      <3>2. HandEmpty'
        BY <1>0, <1>1, <2>1 DEF HandEmpty
      <3> QED
        BY <1>0, <2>1, <3>1, <3>2 DEF RecTypeOK
    <2>3. OnTheWay' = OnTheWay
      BY <1>0, <2>1 DEF OnTheWay, RecTypeOK
    <2>4. (Agree' <=> Agree) /\ (Even' <=> Even)
      BY <2>1, <2>3 DEF Agree, Even
    <2>5. Matched'
      BY <1>0, <1>1, <2>1, <2>4 DEF Matched
    <2> QED
      BY <2>2, <2>5 DEF RecInv
  <1>4. CASE ChildToggles
    <2>1. /\ controlPipe > 0 /\ controlPipe' = controlPipe - 1 /\ serverRec' = ~serverRec
          /\ UNCHANGED <<clientRec, controlQueue, inHand, drifted>>
      BY <1>4 DEF ChildToggles
    <2>2. RecTypeOK' /\ HandEmpty'
      <3>1. controlQueue' \in Nat /\ controlPipe' \in Nat
        BY <1>0, <2>1 DEF RecTypeOK
      <3>2. HandEmpty'
        BY <1>0, <1>1, <2>1 DEF HandEmpty
      <3> QED
        BY <1>0, <2>1, <3>1, <3>2 DEF RecTypeOK
    <2>3. Agree' <=> ~Agree
      <3>1. clientRec \in BOOLEAN /\ serverRec \in BOOLEAN
        BY <1>0 DEF RecTypeOK
      <3> QED
        BY <2>1, <3>1 DEF Agree
    <2>4. Even' <=> ~Even
      <3>1. OnTheWay' + 1 = OnTheWay /\ OnTheWay' \in Nat
        BY <1>0, <2>1, <2>2 DEF OnTheWay, RecTypeOK
      <3> QED
        BY <3>1, Parity DEF Even
    <2>5. Matched'
      BY <1>0, <1>1, <2>1, <2>3, <2>4 DEF Matched
    <2> QED
      BY <2>2, <2>5 DEF RecInv
  <1> QED
    BY <1>2, <1>3, <1>4 DEF GateStep

LEMMA RecStep == LinkInv /\ RecInv /\ [ClientNext]_clientVars => RecInv'
  <1> SUFFICES ASSUME LinkInv, RecInv, [ClientNext]_clientVars PROVE RecInv'
    OBVIOUS
  <1>1. CASE LinkNext
    <2>1. CASE Dial \/ LoopEnds \/ HandshakeEnds \/ HandshakeFails \/ Backoff
      <3>1. UNCHANGED recVars /\ link # "open" /\ (serverSide' = "held" => serverSide = "held")
        BY <2>1 DEF Dial, LoopEnds, HandshakeEnds, HandshakeFails, Forsakes, Backoff, slotVars
      <3> QED
        BY <3>1, RecStutter
    <2>2. CASE PumpEnds
      BY <2>2, PumpEndsStep
    <2>3. CASE Claim
      BY <2>3, ClaimStep
    <2>4. CASE Stop \/ Answer \/ AnswerLate \/ ClaimLate \/ CloseStep \/ ShellStops
      <3>1. UNCHANGED <<recVars, link>> /\ (serverSide' = "held" => serverSide = "held")
        BY <2>4 DEF Stop, Answer, AnswerLate, ClaimLate, CloseStep, ChildGone, ClosesNormally, ServerCloses,
                    ServerNotices, ShellStops, Release, connVars, runVars, slotVars
      <3> QED
        BY <3>1, RecStutter
    <2>5. CASE GateStep
      BY <2>5, GateStepKeeps
    <2>6. CASE Relay
      <3>1. UNCHANGED <<recVars, link, serverSide>>
        BY <2>6 DEF Relay, connVars, runVars, slotVars
      <3> QED
        BY <3>1, RecStutter
    <2> QED
      BY <1>1, <2>1, <2>2, <2>3, <2>4, <2>5, <2>6 DEF LinkNext, ClientStep, GatewayStep, RequestStep
  <1>2. CASE ShellStops \/ UNCHANGED linkVars
    <2>1. UNCHANGED <<recVars, link, serverSide>>
      BY <1>2 DEF ShellStops, linkVars, connVars, runVars, slotVars
    <2> QED
      BY <2>1, RecStutter
  <1> QED
    BY <1>1, <1>2, ClientSteps

\* While a connection lasts the two recording gates differ by the lines on their way and
\* by nothing else, unless a line was lost or the session began with the client's gate
\* shut: for any number of presses, connections and places in the queue
\* (NotifyingEvent, _send_control, control_loop's toggle).
THEOREM GatesAgree == ClientSpec => []RecordingAgrees
  <1>1. ClientInit => LinkInv /\ RecInv
    BY LinkInitInv, RecInitInv DEF ClientInit
  <1>2. RecInv => RecordingAgrees
    BY Zenon DEF RecInv, Matched, RecordingAgrees, Connected, Agree, Even
  <1> QED
    BY <1>1, <1>2, LinkStep, RecStep, PTL DEF ClientSpec

-----------------------------------------------------------------------------
\* Verdicts.

\* One warning for each of three reasons.
LEMMA Warnings ==
  ASSUME NEW a \in BOOLEAN, NEW b \in BOOLEAN, NEW c \in BOOLEAN
  PROVE  Cardinality({w \in 1..3 : (w = 1 /\ a) \/ (w = 2 /\ b) \/ (w = 3 /\ c)})
           = (IF a THEN 1 ELSE 0) + (IF b THEN 1 ELSE 0) + (IF c THEN 1 ELSE 0)
  <1> DEFINE A == IF a THEN {1} ELSE {}
             B == IF b THEN A \union {2} ELSE A
             C == IF c THEN B \union {3} ELSE B
  <1>1. {w \in 1..3 : (w = 1 /\ a) \/ (w = 2 /\ b) \/ (w = 3 /\ c)} = C
    <2>1. \A w : w \in C <=> (w = 1 /\ a) \/ (w = 2 /\ b) \/ (w = 3 /\ c)
      OBVIOUS
    <2> HIDE DEF C
    <2>2. \A w : w \in 1..3 <=> w = 1 \/ w = 2 \/ w = 3
      OBVIOUS
    <2> QED
      BY <2>1, <2>2
  <1>2. IsFiniteSet(A) /\ Cardinality(A) = (IF a THEN 1 ELSE 0) /\ 2 \notin A /\ 3 \notin A
    <2>1. CASE a
      <3>1. A = {1}
        BY <2>1
      <3>2. IsFiniteSet({1}) /\ Cardinality({1}) = 1
        BY Zenon, FS_Singleton
      <3> HIDE DEF A
      <3> QED
        BY <2>1, <3>1, <3>2
    <2>2. CASE ~a
      BY <2>2, FS_EmptySet
    <2> QED
      BY <2>1, <2>2
  <1>3. /\ IsFiniteSet(B) /\ 3 \notin B
        /\ Cardinality(B) = (IF a THEN 1 ELSE 0) + (IF b THEN 1 ELSE 0)
    <2> HIDE DEF A
    <2>1. IsFiniteSet(A \union {2}) /\ Cardinality(A \union {2}) = Cardinality(A) + 1
      BY <1>2, FS_AddElement
    <2> QED
      BY <1>2, <2>1
  <1>4. Cardinality(C) = (IF a THEN 1 ELSE 0) + (IF b THEN 1 ELSE 0) + (IF c THEN 1 ELSE 0)
    <2> HIDE DEF B
    <2>1. Cardinality(B \union {3}) = Cardinality(B) + 1
      BY <1>3, FS_AddElement
    <2> QED
      BY <1>3, <2>1
  <1> QED
    BY <1>1, <1>4

\* Gap and fallback decide the level and the recommendation.
LEMMA Judged ==
  ASSUME NEW event, NEW last,
         NEW gap \in BOOLEAN, gap <=> PayloadReasons(event) \union OrderReasons(event, last) # {},
         NEW fallback \in BOOLEAN, fallback <=> FallbackDetected(event),
         fallback => event.type \in KnownTypes
  PROVE  LET result == Verify(event, last)
         IN  /\ (TrustLevel(TrustScore(result)) = "TRUSTED") <=> (~gap /\ ~fallback)
             /\ ReviewRequired(result) <=> (gap /\ fallback)
  <1> DEFINE unknown == event.type \notin KnownTypes
             result == Verify(event, last)
             warnings == (IF unknown THEN 1 ELSE 0) + (IF gap THEN 1 ELSE 0) + (IF fallback THEN 1 ELSE 0)
  <1>1. result = [gap |-> gap, fallback |-> fallback,
                  reliability |-> 100 - (IF gap THEN 50 ELSE 0) - (IF fallback THEN 30 ELSE 0),
                  warnings |-> warnings]
    <2>1. (PayloadReasons(event) \union OrderReasons(event, last) # {}) = gap
          /\ FallbackDetected(event) = fallback
      BY DEF FallbackDetected
    <2> DEFINE G == PayloadReasons(event) \union OrderReasons(event, last) # {}
               F == FallbackDetected(event)
               Found(g, f) ==
                 [gap |-> g, fallback |-> f,
                  reliability |-> 100 - (IF g THEN 50 ELSE 0) - (IF f THEN 30 ELSE 0),
                  warnings |-> Cardinality({w \in 1..3 : (w = 1 /\ event.type \notin KnownTypes) \/ (w = 2 /\ g) \/ (w = 3 /\ f)})]
    <2>3. result = Found(G, F)
      BY Zenon DEF Verify
    <2>4. G = gap /\ F = fallback
      BY <2>1
    <2>5. result = Found(gap, fallback)
      <3> HIDE DEF G, F, result, Found
      <3> QED
        BY Zenon, <2>3, <2>4
    <2>6. Found(gap, fallback).warnings = warnings
      <3> DEFINE number == Cardinality({w \in 1..3 : (w = 1 /\ unknown) \/ (w = 2 /\ gap) \/ (w = 3 /\ fallback)})
      <3>1. Found(gap, fallback).warnings = number
        BY Zenon
      <3>2. unknown \in BOOLEAN
        BY Zenon
      <3> HIDE DEF unknown, Found
      <3>3. number = warnings
        BY <3>2, Warnings
      <3> QED
        BY Zenon, <3>1, <3>3
    <2> DEFINE found == Found(gap, fallback)
    <2>7. found = [gap |-> gap, fallback |-> fallback,
                   reliability |-> 100 - (IF gap THEN 50 ELSE 0) - (IF fallback THEN 30 ELSE 0),
                   warnings |-> found.warnings]
      BY Zenon
    <2> HIDE DEF result, warnings, Found
    <2> QED
      BY <2>5, <2>6, <2>7
  <1>2. unknown \in BOOLEAN /\ (fallback => ~unknown)
    OBVIOUS
  <1> HIDE DEF result, unknown
  <1>3. TrustScore(result) =
          (100 - (IF gap THEN 50 ELSE 0) - (IF fallback THEN 30 ELSE 0)) \div 2 + 50
            - (IF gap THEN 20 ELSE 0) - (IF fallback THEN 20 ELSE 0) - 5 * warnings
    BY <1>1 DEF TrustScore
  <1>4. TrustScore(result) = IF gap THEN IF fallback THEN 10 ELSE IF unknown THEN 45 ELSE 50
                             ELSE IF fallback THEN 60 ELSE IF unknown THEN 95 ELSE 100
    BY <1>2, <1>3
  <1>5. result.gap = gap /\ result.fallback = fallback
    BY <1>1
  <1> QED
    BY <1>4, <1>5 DEF result, TrustLevel, ReviewRequired

\* A payload has nothing against it exactly if the contract does not know its type or it
\* is the contract's reply with a value in its range.
LEMMA Payloads ==
  ASSUME NEW raw \in RawEvents, NEW stamp, NEW number
  PROVE  LET event == Translate([type |-> raw.type, valid |-> raw.valid, fallback |-> raw.fallback,
                                 fields |-> raw.fields, stamp |-> stamp], number)
             complete == raw.type = "other" \/ (raw.type = "reply" /\ "finish_reason" \in raw.fields /\ raw.valid)
         IN  /\ PayloadReasons(event) = {} <=> complete
             /\ FallbackDetected(event) <=> raw.fallback
             /\ raw.fallback \in BOOLEAN
             /\ raw.fallback => event.type \in KnownTypes
             /\ event.stamp = stamp /\ event.sequence = number
  <1> DEFINE event == Translate([type |-> raw.type, valid |-> raw.valid, fallback |-> raw.fallback,
                                 fields |-> raw.fields, stamp |-> stamp], number)
             complete == raw.type = "other" \/ (raw.type = "reply" /\ "finish_reason" \in raw.fields /\ raw.valid)
  <1> SUFFICES /\ PayloadReasons(event) = {} <=> complete
               /\ FallbackDetected(event) <=> raw.fallback
               /\ raw.fallback \in BOOLEAN
               /\ raw.fallback => event.type \in KnownTypes
               /\ event.stamp = stamp /\ event.sequence = number
    OBVIOUS
  <1>1. event = [type |-> raw.type, fallback |-> raw.fallback, valid |-> raw.valid,
                 fields |-> {Renamed(raw.type, field) : field \in raw.fields},
                 stamp |-> stamp, sequence |-> number]
    BY DEF Translate
  <1>2. KnownTypes = {"transcript", "reply", "analysis", "latency", "status", "error"}
    BY DEF KnownTypes, EmittedFields
  <1>3. CASE \E t \in KnownTypes : raw = [type |-> t, valid |-> TRUE, fallback |-> FALSE, fields |-> EmittedFields[t]]
    <2>1. PICK t \in KnownTypes : raw = [type |-> t, valid |-> TRUE, fallback |-> FALSE, fields |-> EmittedFields[t]]
      BY <1>3
    <2>6. raw.type = t /\ raw.fields = EmittedFields[t] /\ raw.fallback = FALSE
      BY <2>1
    <2> HIDE DEF event
    <2>2. /\ event.type = t /\ raw.type = t /\ raw.fields = EmittedFields[t] /\ raw.fallback = FALSE
          /\ event.fallback = FALSE /\ event.stamp = stamp /\ event.sequence = number
          /\ event.fields = {Renamed(t, field) : field \in EmittedFields[t]}
      BY <1>1, <2>6
    <2>3. ~ (RequiredFields[t] \subseteq event.fields)
      <3>1. CASE t = "transcript"
        BY <2>2, <3>1 DEF RequiredFields, EmittedFields, Renamed
      <3>2. CASE t = "reply"
        BY <2>2, <3>2 DEF RequiredFields, EmittedFields, Renamed
      <3>3. CASE t = "analysis"
        BY <2>2, <3>3 DEF RequiredFields, EmittedFields, Renamed
      <3>4. CASE t = "latency"
        BY <2>2, <3>4 DEF RequiredFields, EmittedFields, Renamed
      <3>5. CASE t = "status"
        BY <2>2, <3>5 DEF RequiredFields, EmittedFields, Renamed
      <3>6. CASE t = "error"
        BY <2>2, <3>6 DEF RequiredFields, EmittedFields, Renamed
      <3> QED
        BY <1>2, <3>1, <3>2, <3>3, <3>4, <3>5, <3>6
    <2>4. PayloadReasons(event) # {}
      BY <2>2, <2>3 DEF PayloadReasons
    <2>5. ~ complete
      <3>1. t # "other"
        BY <1>2
      <3>2. t = "reply" => "finish_reason" \notin EmittedFields[t]
        BY DEF EmittedFields
      <3> QED
        BY <2>2, <3>1, <3>2
    <2> QED
      BY <2>2, <2>4, <2>5 DEF FallbackDetected
  <1>4. CASE \E ok, fb \in BOOLEAN :
               raw = [type |-> "reply", valid |-> ok, fallback |-> fb,
                      fields |-> EmittedFields["reply"] \union RequiredFields["reply"]]
    <2>1. PICK ok \in BOOLEAN, fb \in BOOLEAN :
            raw = [type |-> "reply", valid |-> ok, fallback |-> fb,
                   fields |-> EmittedFields["reply"] \union RequiredFields["reply"]]
      BY <1>4
    <2>2. /\ raw.type = "reply" /\ raw.valid = ok /\ raw.fallback = fb
          /\ raw.fields = EmittedFields["reply"] \union RequiredFields["reply"]
      BY <2>1
    <2>3. /\ event.type = "reply" /\ event.valid = ok /\ event.fallback = fb
          /\ event.stamp = stamp /\ event.sequence = number
      BY <1>1, <2>2
    <2>4. event.fields = raw.fields
      <3>1. \A field : Renamed("reply", field) = field
        BY DEF Renamed
      <3> QED
        BY <1>1, <2>2, <3>1
    <2>5. "finish_reason" \in event.fields /\ RequiredFields["reply"] \subseteq event.fields
      BY <2>2, <2>4 DEF RequiredFields
    <2> HIDE DEF event
    <2>6. PayloadReasons(event) = {} <=> ok
      BY <1>2, <2>3, <2>5 DEF PayloadReasons
    <2>7. complete <=> ok
      BY <2>2, <2>4, <2>5
    <2> QED
      BY <1>2, <2>2, <2>3, <2>5, <2>6, <2>7 DEF FallbackDetected
  <1>5. CASE raw = [type |-> "other", valid |-> TRUE, fallback |-> FALSE, fields |-> {"text"}]
    <2>1. event.type = "other" /\ raw.type = "other" /\ raw.fallback = FALSE
            /\ event.stamp = stamp /\ event.sequence = number
      BY <1>1, <1>5
    <2>2. "other" \notin KnownTypes
      BY <1>2
    <2> HIDE DEF event
    <2> QED
      BY <2>1, <2>2 DEF PayloadReasons, FallbackDetected
  <1>6. CASE raw = [type |-> "error", valid |-> TRUE, fallback |-> FALSE, fields |-> {}]
    <2>3. raw.type = "error" /\ raw.fallback = FALSE /\ raw.fields = {}
      BY <1>6
    <2> HIDE DEF event
    <2>1. /\ event.type = "error" /\ event.fallback = FALSE /\ event.fields = {}
          /\ event.stamp = stamp /\ event.sequence = number
      BY <1>1, <2>3
    <2>2. "error" \in KnownTypes
      BY <1>2
    <2> USE <2>3
    <2> QED
      BY <2>1, <2>2 DEF PayloadReasons, FallbackDetected
  <1> QED
    BY <1>3, <1>4, <1>5, <1>6 DEF RawEvents

\* An event is stamped before the one handled before it only if another thread stamped it.
LEMMA OvertakenByOthers ==
  ASSUME RelayInv, Len(store) = 2, store[2].stamp < store[1].stamp
  PROVE  store[2].emitter # store[1].emitter
  <1>1. 1 \in DOMAIN store /\ 2 \in DOMAIN store
    BY LenProperties DEF RelayInv, RelayTypeOK
  <1>2. /\ store[1].stamp \in Nat /\ store[2].stamp \in Nat
        /\ store[1].session \in Nat /\ store[2].session \in Nat
    BY <1>1, StoredLines DEF RelayInv
  <1>3. CASE store[1].session < store[2].session
    <2>1. store[1].stamp < store[2].stamp
      BY <1>3 DEF RelayInv, Later
    <2> QED
      BY <1>2, <2>1
  <1>4. CASE store[1].session = store[2].session
    <2>1. store[1].emitter = store[2].emitter => store[1].stamp < store[2].stamp
      BY <1>4 DEF RelayInv, Ordering
    <2> QED
      BY <1>2, <2>1
  <1> QED
    BY <1>3, <1>4 DEF RelayInv, Ordering

LEMMA Verdict ==
  ASSUME RelayInv, NEW i \in DOMAIN store, NEW raw \in RawEvents
  PROVE  LET Raw(j) == [type |-> raw.type, valid |-> raw.valid, fallback |-> raw.fallback,
                        fields |-> raw.fields, stamp |-> store[j].stamp]
             verdict == RunPipeline([j \in 1..i |-> Raw(j)], i)
             overtaken == i > 1 /\ store[i].stamp < store[i - 1].stamp
             complete == raw.type = "other" \/ (raw.type = "reply" /\ "finish_reason" \in raw.fields /\ raw.valid)
         IN  /\ (verdict.level = "TRUSTED") <=> (complete /\ ~raw.fallback /\ ~overtaken)
             /\ verdict.review <=> (raw.fallback /\ (overtaken \/ ~complete))
             /\ overtaken => store[i].emitter # store[i - 1].emitter
  <1> DEFINE Raw(j) == [type |-> raw.type, valid |-> raw.valid, fallback |-> raw.fallback,
                        fields |-> raw.fields, stamp |-> store[j].stamp]
             stream == [j \in 1..i |-> Raw(j)]
             verdict == RunPipeline(stream, i)
             overtaken == i > 1 /\ store[i].stamp < store[i - 1].stamp
             complete == raw.type = "other" \/ (raw.type = "reply" /\ "finish_reason" \in raw.fields /\ raw.valid)
             event == Translate(Raw(i), i)
             last == IF i = 1 THEN [stamp |-> 0, sequence |-> 0] ELSE Translate(Raw(i - 1), i - 1)
             gap == overtaken \/ ~complete
  <1> SUFFICES /\ (verdict.level = "TRUSTED") <=> (complete /\ ~raw.fallback /\ ~overtaken)
               /\ verdict.review <=> (raw.fallback /\ (overtaken \/ ~complete))
               /\ overtaken => store[i].emitter # store[i - 1].emitter
    OBVIOUS
  <1>1. /\ i = 1 \/ (i = 2 /\ Len(store) = 2)
        /\ store[i].stamp \in Nat /\ (i = 2 => store[1].stamp \in Nat)
    <2>3. store \in Seq(Line) /\ Len(store) <= 2
      BY DEF RelayInv, RelayTypeOK
    <2>1. DOMAIN store = 1..Len(store) /\ Len(store) \in 0..2
      <3>1. DOMAIN store = 1..Len(store) /\ Len(store) \in Nat
        BY <2>3, LenProperties
      <3> QED
        BY <2>3, <3>1
    <2>2. i \in 1..2 /\ (i = 2 => Len(store) = 2 /\ 1 \in DOMAIN store)
      BY <2>1
    <2> QED
      BY <2>2, StoredLines DEF RelayInv
  <1>2. /\ PayloadReasons(event) = {} <=> complete
        /\ FallbackDetected(event) <=> raw.fallback
        /\ raw.fallback \in BOOLEAN
        /\ raw.fallback => event.type \in KnownTypes
        /\ event.stamp = store[i].stamp /\ event.sequence = i
    BY Payloads
  <1>3. /\ i = 1 => last.stamp = 0 /\ last.sequence = 0
        /\ i = 2 => last.stamp = store[1].stamp /\ last.sequence = 1
    <2>1. i = 1 => last = [stamp |-> 0, sequence |-> 0]
      OBVIOUS
    <2>2. CASE i = 2
      <3>1. Translate(Raw(1), 1).stamp = store[1].stamp /\ Translate(Raw(1), 1).sequence = 1
        BY Payloads
      <3>2. last = Translate(Raw(1), 1)
        BY <2>2
      <3> HIDE DEF last, Raw
      <3> QED
        BY <2>2, <3>1, <3>2
    <2> HIDE DEF last
    <2> QED
      BY <2>1, <2>2
  <1>4. verdict = [result |-> Verify(event, last), level |-> TrustLevel(TrustScore(Verify(event, last))),
                   review |-> ReviewRequired(Verify(event, last))]
    <2>1. stream[i] = Raw(i) /\ (i # 1 => stream[i - 1] = Raw(i - 1))
      <3>1. i \in 1..i /\ (i # 1 => i - 1 \in 1..i)
        BY <1>1
      <3> HIDE DEF Raw
      <3> QED
        BY <3>1
    <2> HIDE DEF stream, Raw
    <2>2. last = IF i = 1 THEN [stamp |-> 0, sequence |-> 0] ELSE Translate(stream[i - 1], i - 1)
      BY <2>1
    <2>3. event = Translate(stream[i], i)
      BY <2>1
    <2> HIDE DEF last, event
    <2> QED
      BY <2>2, <2>3 DEF RunPipeline
  <1> HIDE DEF event, last, stream, Raw
  <1>5. OrderReasons(event, last) # {} <=> overtaken
    <2>1. CASE i = 1
      <3>1. ~ (event.stamp < last.stamp) /\ ~ (event.sequence < last.sequence)
        BY <1>1, <1>2, <1>3, <2>1
      <3>2. ~ overtaken
        BY <2>1
      <3> HIDE DEF overtaken
      <3> QED
        BY <3>1, <3>2 DEF OrderReasons
    <2>2. CASE i = 2
      <3>1. overtaken <=> event.stamp < last.stamp
        BY <1>2, <1>3, <2>2
      <3>2. ~ (event.sequence < last.sequence)
        BY <1>2, <1>3, <2>2
      <3> HIDE DEF overtaken
      <3> QED
        BY <3>1, <3>2 DEF OrderReasons
    <2> QED
      BY <1>1, <2>1, <2>2
  <1>6. gap \in BOOLEAN /\ (gap <=> PayloadReasons(event) \union OrderReasons(event, last) # {})
    BY <1>2, <1>5
  <1>7. /\ (TrustLevel(TrustScore(Verify(event, last))) = "TRUSTED") <=> (~gap /\ ~raw.fallback)
        /\ ReviewRequired(Verify(event, last)) <=> (gap /\ raw.fallback)
    <2> HIDE DEF gap
    <2> QED
      BY <1>2, <1>6, Judged
  <1>8. overtaken => store[i].emitter # store[i - 1].emitter
    BY <1>1, OvertakenByOthers
  <1>9. verdict.level = TrustLevel(TrustScore(Verify(event, last))) /\ verdict.review = ReviewRequired(Verify(event, last))
    BY <1>4
  <1> HIDE DEF verdict, overtaken, complete
  <1> QED
    BY <1>7, <1>8, <1>9

\* Whatever the sessions and threads an event comes from, it is trusted exactly if its
\* payload is all that the contract asks (or its type unknown), it is no fallback and it
\* was not overtaken; and only another thread's event overtakes it, never an earlier
\* session's (_check_ordering, _apply_trust_policy, one child at a time).
THEOREM VerdictsHold == ClientSpec => []VerdictsWarranted
  <1>1. ClientInit => RelayInv
    BY RelayInitInv DEF ClientInit
  <1>2. RelayInv => VerdictsWarranted
    BY Verdict DEF VerdictsWarranted
  <1> QED
    BY <1>1, <1>2, RelayStep, PTL DEF ClientSpec
=============================================================================
