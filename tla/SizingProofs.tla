---------------------------- MODULE SizingProofs ----------------------------
(***************************************************************************)
(* The sizing rule for every reading that fits the significand, every pool *)
(* bound, every units_per_pool and every precision: the float that the     *)
(* code takes the ceiling of never gives another count than the exact      *)
(* quotient does, and the count is the least that covers the units.        *)
(***************************************************************************)
EXTENDS MCSizing, FiniteSets, FiniteSetTheorems, TLAPS

\* Every set of naturals that is not empty has a least element: what stands for induction
\* here. The intervals below its elements are finite sets, which strict inclusion orders
\* well.
LEMMA Least ==
    ASSUME NEW T \in SUBSET Nat, T # {}
    PROVE  \E x \in T : \A y \in T : x <= y
<1> DEFINE Down == {0 .. x : x \in T}
<1>1. Down # {} /\ Down \subseteq FiniteSubsetsOf(Nat)
  <2>1. \A x \in T : 0 .. x \in SUBSET Nat /\ IsFiniteSet(0 .. x)
    BY FS_Interval
  <2> QED BY <2>1 DEF FiniteSubsetsOf
<1>2. PICK m \in Down : \A d \in Down : ~(<<d, m>> \in StrictSubsetOrdering(Nat))
  <2> HIDE DEF Down
  <2> QED
  BY <1>1, FS_StrictSubsetOrderingWellFounded, WFMin
<1>3. PICK x \in T : m = 0 .. x
  OBVIOUS
<1>4. ASSUME NEW y \in T, y < x PROVE FALSE
  <2>1. 0 .. y \subseteq 0 .. x /\ 0 .. y # 0 .. x /\ 0 .. y \in Down /\ 0 .. x \in SUBSET Nat /\ 0 .. y \in SUBSET Nat
    BY <1>4
  <2> QED BY <1>2, <1>3, <2>1 DEF StrictSubsetOrdering
<1> QED BY <1>4

\* Powers of two, counted as the subsets of an interval.
LEMMA Power ==
    /\ \A k \in Nat : PowerOfTwo(k) \in Nat \ {0} /\ PowerOfTwo(k) > k
    /\ PowerOfTwo(0) = 1 /\ PowerOfTwo(1) = 2
    /\ \A j, k \in Nat : PowerOfTwo(j + k) = PowerOfTwo(j) * PowerOfTwo(k)
<1>1. \A a \in Nat, k \in Nat :
        /\ IsFiniteSet((a + 1) .. (a + k)) /\ IsFiniteSet(SUBSET ((a + 1) .. (a + k)))
        /\ Cardinality(SUBSET ((a + 1) .. (a + k))) = PowerOfTwo(k)
  <2> SUFFICES ASSUME NEW a \in Nat, NEW k \in Nat
               PROVE  /\ IsFiniteSet((a + 1) .. (a + k)) /\ IsFiniteSet(SUBSET ((a + 1) .. (a + k)))
                      /\ Cardinality(SUBSET ((a + 1) .. (a + k))) = PowerOfTwo(k)
    OBVIOUS
  <2>1. IsFiniteSet((a + 1) .. (a + k)) /\ Cardinality((a + 1) .. (a + k)) = k
    BY FS_Interval
  <2> QED
    BY <2>1, FS_SUBSET DEF PowerOfTwo
<1>2. ASSUME NEW k \in Nat PROVE PowerOfTwo(k) \in Nat \ {0}
  <2> DEFINE parts == SUBSET ((0 + 1) .. (0 + k))
  <2>1. parts # {} /\ IsFiniteSet(parts) /\ Cardinality(parts) = PowerOfTwo(k)
    <3>1. 0 \in Nat
      OBVIOUS
    <3>2. parts # {}
      OBVIOUS
    <3> QED
      BY <1>1, <3>1, <3>2
  <2> HIDE DEF parts
  <2> QED
    BY <2>1, FS_EmptySet, FS_CardinalityType
<1>3. PowerOfTwo(0) = 1 /\ PowerOfTwo(1) = 2
  BY DEF PowerOfTwo
<1>4. ASSUME NEW j \in Nat, NEW k \in Nat PROVE PowerOfTwo(j + k) = PowerOfTwo(j) * PowerOfTwo(k)
  <2> DEFINE low == (0 + 1) .. (0 + j)
             high == (j + 1) .. (j + k)
             all == (0 + 1) .. (0 + (j + k))
             split == [s \in SUBSET all |-> <<s \cap low, s \cap high>>]
  <2>1. all = low \cup high /\ low \cap high = {}
    OBVIOUS
  <2>2. split \in Bijection(SUBSET all, (SUBSET low) \X (SUBSET high))
    <3> HIDE DEF low, high, all
    <3>1. split \in [SUBSET all -> (SUBSET low) \X (SUBSET high)]
      OBVIOUS
    <3>2. ASSUME NEW s \in SUBSET all, NEW t \in SUBSET all, split[s] = split[t] PROVE s = t
      BY <2>1, <3>2
    <3>3. ASSUME NEW l \in SUBSET low, NEW h \in SUBSET high
          PROVE  \E s \in SUBSET all : split[s] = <<l, h>>
      <4>1. l \cup h \in SUBSET all
        BY <2>1
      <4>2. (l \cup h) \cap low = l /\ (l \cup h) \cap high = h
        BY <2>1
      <4> QED
        BY <4>1, <4>2
    <3> HIDE DEF split
    <3>4. \A t \in (SUBSET low) \X (SUBSET high) : \E s \in SUBSET all : split[s] = t
      <4> DEFINE L == SUBSET low  H == SUBSET high  A == SUBSET all
      <4>1. \A l \in L, h \in H : \E s \in A : split[s] = <<l, h>>
        BY <3>3
      <4> HIDE DEF L, H, A
      <4>2. \A t \in L \X H : \E s \in A : split[s] = t
        BY <4>1
      <4> QED
        BY <4>2 DEF L, H, A
    <3>5. IsInjective(split)
      BY <3>1, <3>2 DEF IsInjective
    <3> QED
      BY <3>1, <3>4, <3>5 DEF Bijection, Injection, Surjection
  <2>3. IsFiniteSet(SUBSET all) /\ Cardinality(SUBSET all) = PowerOfTwo(j + k)
    <3>1. 0 \in Nat /\ j + k \in Nat
      OBVIOUS
    <3> HIDE DEF low, high, split
    <3> QED
      BY <1>1, <3>1
  <2>4. /\ IsFiniteSet(SUBSET low) /\ Cardinality(SUBSET low) = PowerOfTwo(j)
        /\ IsFiniteSet(SUBSET high) /\ Cardinality(SUBSET high) = PowerOfTwo(k)
    BY <1>1
  <2> HIDE DEF low, high, all, split
  <2>5. Cardinality(SUBSET all) = Cardinality((SUBSET low) \X (SUBSET high))
    BY <2>2, <2>3, FS_Bijection DEF ExistsBijection
  <2>6. Cardinality((SUBSET low) \X (SUBSET high)) = Cardinality(SUBSET low) * Cardinality(SUBSET high)
    BY <2>4, FS_Product
  <2> QED
    BY <2>3, <2>4, <2>5, <2>6
<1>5. ASSUME NEW k \in Nat PROVE PowerOfTwo(k) > k
  <2> SUFFICES ASSUME ~(PowerOfTwo(k) > k) PROVE FALSE
    OBVIOUS
  <2> DEFINE Bad == {x \in Nat : ~(PowerOfTwo(x) > x)}
  <2>1. PICK x \in Bad : \A y \in Bad : x <= y
    BY Least
  <2>2. x # 0
    BY <1>3
  <2>3. x - 1 \in Nat /\ x - 1 \notin Bad
    BY <2>1, <2>2
  <2>4. PowerOfTwo((x - 1) + 1) = PowerOfTwo(x - 1) * 2
    BY <1>3, <1>4, <2>3
  <2>5. (x - 1) + 1 = x
    OBVIOUS
  <2> QED
    BY <1>2, <2>2, <2>3, <2>4, <2>5
<1> QED
  BY <1>2, <1>3, <1>4, <1>5

-----------------------------------------------------------------------------
\* The ceiling is the one integer c with (c - 1) * d < n <= c * d.
LEMMA Ceiling ==
    ASSUME NEW n \in Int, NEW d \in Nat \ {0}
    PROVE  /\ CeilDiv(n, d) \in Int
           /\ (CeilDiv(n, d) - 1) * d < n /\ n <= CeilDiv(n, d) * d
           /\ \A c \in Int : (c - 1) * d < n /\ n <= c * d => c = CeilDiv(n, d)
<1> DEFINE low == (-n) \div d
<1>1. low \in Int /\ low * d <= -n /\ -n < (low + 1) * d
  OBVIOUS
<1>2. CeilDiv(n, d) = -low
  BY DEF CeilDiv
<1> HIDE DEF low
<1>3. (-low) * d = -(low * d) /\ (-low - 1) * d = -((low + 1) * d)
  BY <1>1
<1>4. ASSUME NEW c \in Int, (c - 1) * d < n, n <= c * d PROVE c = -low
  <2>1. (c - 1) * d < (-low) * d /\ (-low - 1) * d < c * d
    BY <1>1, <1>3, <1>4
  <2>2. c - 1 < -low /\ -low - 1 < c
    BY <1>1, <2>1
  <2> QED
    BY <1>1, <2>2
<1> QED
  BY <1>1, <1>2, <1>3, <1>4

\* Rounding never passes an integer on the far side of the quotient, and reaches the next
\* one from more than half way.
LEMMA Rounding ==
    ASSUME NEW n \in Nat, NEW d \in Nat \ {0}
    PROVE  /\ RoundHalfEven(n, d) \in Int
           /\ \A m \in Int : n <= m * d => RoundHalfEven(n, d) <= m
           /\ \A m \in Int : n >= m * d => RoundHalfEven(n, d) >= m
           /\ \A m \in Int : n > m * d /\ 2 * (n - m * d) > d => RoundHalfEven(n, d) > m
<1> DEFINE low == n \div d
           rem == n % d
<1>1. /\ low \in Int /\ rem \in Int /\ 0 <= rem /\ rem < d
      /\ n = low * d + rem
  OBVIOUS
<1>2. RoundHalfEven(n, d) \in {low, low + 1}
  BY DEF RoundHalfEven
<1>3. rem = 0 => RoundHalfEven(n, d) = low
  BY DEF RoundHalfEven
<1>4. 2 * rem > d => RoundHalfEven(n, d) = low + 1
  BY <1>1 DEF RoundHalfEven
<1> HIDE DEF low, rem
<1>5. ASSUME NEW m \in Int, n <= m * d PROVE RoundHalfEven(n, d) <= m
  <2>1. low <= m
    <3>1. low * d <= m * d
      BY <1>1, <1>5
    <3> QED BY <1>1, <3>1
  <2>2. low = m => rem = 0
    BY <1>1, <1>5
  <2> QED
    BY <1>1, <1>2, <1>3, <2>1, <2>2
<1>6. ASSUME NEW m \in Int, n >= m * d PROVE low >= m
  <2>1. m * d < (low + 1) * d
    BY <1>1, <1>6
  <2>2. m < low + 1
    BY <1>1, <2>1
  <2> QED
    BY <1>1, <2>2
<1>7. ASSUME NEW m \in Int, n > m * d, 2 * (n - m * d) > d PROVE RoundHalfEven(n, d) > m
  <2>1. low >= m
    BY <1>6, <1>7
  <2>2. low = m => 2 * rem > d
    BY <1>1, <1>7
  <2> QED
    BY <1>1, <1>2, <1>4, <2>1, <2>2
<1> QED
  BY <1>1, <1>2, <1>5, <1>6, <1>7

-----------------------------------------------------------------------------
\* Every quotient has an exponent that makes its significand one of precision bits: the
\* least power of two that brings a large quotient below them, or a small one up to them.
LEMMA Normalised ==
    ASSUME NEW n \in Nat \ {0}, NEW d \in Nat \ {0}, NEW precision \in Nat \ {0}
    PROVE  /\ Exponent(n, d, precision) \in Int
           /\ IsNormal(n, d, precision, Exponent(n, d, precision))
<1> DEFINE half == PowerOfTwo(precision - 1)
           full == PowerOfTwo(precision)
<1>1. half \in Nat \ {0} /\ full = 2 * half
  <2>1. precision - 1 \in Nat /\ (precision - 1) + 1 = precision
    OBVIOUS
  <2>2. PowerOfTwo((precision - 1) + 1) = PowerOfTwo(precision - 1) * PowerOfTwo(1)
    BY <2>1, Power
  <2> QED
    BY <2>1, <2>2, Power
<1> HIDE DEF half, full
<1>2. SUFFICES \E exp \in -(precision + d) .. n : IsNormal(n, d, precision, exp)
  BY DEF Exponent
<1>3. CASE n >= full * d
  <2> DEFINE Below == {k \in Nat : n < full * (d * PowerOfTwo(k))}
  <2>1. n \in Below
    <3>1. PowerOfTwo(n) \in Nat /\ PowerOfTwo(n) > n
      BY Power
    <3>2. d * PowerOfTwo(n) >= PowerOfTwo(n) /\ d * PowerOfTwo(n) \in Nat
      BY <3>1
    <3>3. full * (d * PowerOfTwo(n)) >= d * PowerOfTwo(n)
      BY <1>1, <3>2
    <3> QED
      BY <1>1, <3>1, <3>2, <3>3
  <2>2. PICK k \in Below : \A j \in Below : k <= j
    BY <2>1, Least
  <2>3. k \in Nat /\ k <= n /\ n < full * (d * PowerOfTwo(k))
    BY <2>1, <2>2
  <2>4. k # 0
    BY <1>1, <1>3, <2>3, Power
  <2>5. n >= full * (d * PowerOfTwo(k - 1))
    <3>1. k - 1 \in Nat /\ k - 1 \notin Below
      BY <2>2, <2>3, <2>4
    <3>2. PowerOfTwo(k - 1) \in Nat
      BY <3>1, Power
    <3> QED
      BY <1>1, <3>1, <3>2
  <2>6. PowerOfTwo(k) = 2 * PowerOfTwo(k - 1) /\ PowerOfTwo(k - 1) \in Nat
    <3>1. k - 1 \in Nat /\ (k - 1) + 1 = k
      BY <2>3, <2>4
    <3>2. PowerOfTwo((k - 1) + 1) = PowerOfTwo(k - 1) * PowerOfTwo(1)
      BY <3>1, Power
    <3> QED
      BY <3>1, <3>2, Power
  <2>7. full * (d * PowerOfTwo(k - 1)) = half * (d * PowerOfTwo(k))
    BY <1>1, <2>6
  <2>8. IsNormal(n, d, precision, k)
    BY <2>3, <2>5, <2>7 DEF IsNormal, Scaled, half, full
  <2> QED
    BY <2>3, <2>8
<1>4. CASE n < full * d
  <2> DEFINE Above == {k \in Nat : n * PowerOfTwo(k) >= half * d}
             most == (precision - 1) + d
  <2>1. most \in Above
    <3>1. most \in Nat /\ precision - 1 \in Nat
      OBVIOUS
    <3>2. PowerOfTwo(most) = half * PowerOfTwo(d)
      BY <3>1, Power DEF half
    <3>3. PowerOfTwo(d) \in Nat /\ PowerOfTwo(d) > d
      BY Power
    <3>4. half * PowerOfTwo(d) >= half * d /\ half * PowerOfTwo(d) \in Nat
      BY <1>1, <3>3
    <3>5. n * PowerOfTwo(most) >= half * PowerOfTwo(d)
      BY <3>2, <3>4
    <3> QED
      BY <1>1, <3>1, <3>2, <3>4, <3>5
  <2>2. PICK k \in Above : \A j \in Above : k <= j
    BY <2>1, Least
  <2>3. k \in Nat /\ k <= most /\ n * PowerOfTwo(k) >= half * d
    BY <2>1, <2>2
  <2>4. n * PowerOfTwo(k) < full * d
    <3>1. CASE k = 0
      BY <1>4, <3>1, Power
    <3>2. CASE k # 0
      <4>1. k - 1 \in Nat /\ (k - 1) + 1 = k /\ k - 1 \notin Above
        BY <2>2, <2>3, <3>2
      <4>2. PowerOfTwo((k - 1) + 1) = PowerOfTwo(k - 1) * PowerOfTwo(1)
        BY <4>1, Power
      <4>3. PowerOfTwo(k) = 2 * PowerOfTwo(k - 1) /\ PowerOfTwo(k - 1) \in Nat
        BY <4>1, <4>2, Power
      <4>4. n * PowerOfTwo(k - 1) < half * d
        BY <1>1, <4>1, <4>3
      <4>5. n * PowerOfTwo(k) = 2 * (n * PowerOfTwo(k - 1))
        BY <4>3
      <4>6. n * PowerOfTwo(k - 1) \in Nat /\ half * d \in Nat /\ full * d = 2 * (half * d)
        BY <1>1, <4>3
      <4> QED
        BY <4>4, <4>5, <4>6
    <3> QED
      BY <3>1, <3>2
  <2>5. CASE k = 0
    <3>1. n >= half * d /\ n < full * d
      BY <2>3, <2>4, <2>5, Power
    <3>2. IsNormal(n, d, precision, 0)
      <4>1. d * PowerOfTwo(0) = d
        BY Power
      <4> QED
        BY <3>1, <4>1 DEF IsNormal, Scaled, half, full
    <3> QED
      BY <3>2
  <2>6. CASE k # 0
    <3>1. IsNormal(n, d, precision, -k)
      BY <2>3, <2>4, <2>6 DEF IsNormal, Scaled, half, full
    <3> QED
      BY <2>3, <3>1
  <2> QED
    BY <2>5, <2>6
<1> QED
  BY <1>1, <1>3, <1>4

\* Units that fit the significand: the float has the ceiling of the quotient. A large
\* quotient is exact; and where it is a fraction, one unit moves it by more than
\* half of the distance between floats, so rounding does not reach the integer below.
LEMMA CeilFloatExact ==
    ASSUME NEW n \in Nat, NEW d \in Nat \ {0}, NEW precision \in Nat \ {0},
           n < PowerOfTwo(precision)
    PROVE  CeilFloatDiv(n, d, precision) = CeilDiv(n, d)
<1>1. CASE n = 0
  <2>1. (0 - 1) * d < 0 /\ 0 <= 0 * d
    OBVIOUS
  <2> QED
    BY <1>1, <2>1, Ceiling DEF CeilFloatDiv
<1>2. CASE n # 0
  <2> DEFINE half == PowerOfTwo(precision - 1)
             full == PowerOfTwo(precision)
             exp  == Exponent(n, d, precision)
             c    == CeilDiv(n, d)
  <2>1. half \in Nat \ {0} /\ full = 2 * half /\ n < full
    <3>1. precision - 1 \in Nat /\ (precision - 1) + 1 = precision
      OBVIOUS
    <3>2. PowerOfTwo((precision - 1) + 1) = PowerOfTwo(precision - 1) * PowerOfTwo(1)
      BY <3>1, Power
    <3> QED
      BY <3>1, <3>2, Power
  <2>2. exp \in Int /\ IsNormal(n, d, precision, exp)
    BY <1>2, Normalised
  <2>3. c \in Int /\ (c - 1) * d < n /\ n <= c * d
    <3>1. n \in Int
      OBVIOUS
    <3> QED
      BY <3>1, Ceiling
  <2> HIDE DEF half, full, exp, c
  <2>4. CASE exp >= 0
    <3> DEFINE scale == d * PowerOfTwo(exp)
    <3>1. PowerOfTwo(exp) \in Nat \ {0} /\ scale \in Nat \ {0}
      <4>1. exp \in Nat
        BY <2>2, <2>4
      <4>2. PowerOfTwo(exp) \in Nat \ {0}
        BY <4>1, Power
      <4> QED
        BY <4>2
    <3>2. half * scale <= n
      BY <2>2, <2>4 DEF IsNormal, Scaled, half
    <3>3. scale = 1
      <4> HIDE DEF scale
      <4>1. half * scale < 2 * half
        BY <2>1, <3>1, <3>2
      <4> QED
        BY <2>1, <3>1, <4>1
    <3>4. PowerOfTwo(exp) = 1 /\ d = 1
      BY <3>1, <3>3
    <3>5. RoundHalfEven(n, 1) = n
      <4>1. n <= n * 1 /\ n >= n * 1
        OBVIOUS
      <4>2. 1 \in Nat \ {0} /\ n \in Int
        OBVIOUS
      <4>3. RoundHalfEven(n, 1) <= n /\ RoundHalfEven(n, 1) >= n /\ RoundHalfEven(n, 1) \in Int
        BY <4>1, <4>2, Rounding
      <4> QED
        BY <4>3
    <3>6. CeilFloatDiv(n, d, precision) = n
      <4>1. CeilFloatDiv(n, d, precision) = RoundHalfEven(n, scale) * PowerOfTwo(exp)
        BY <1>2, <2>4 DEF CeilFloatDiv, Scaled, exp
      <4> QED
        BY <3>3, <3>4, <3>5, <4>1
    <3>7. c = n
      BY <2>3, <3>4
    <3> QED
      BY <3>6, <3>7 DEF c
  <2>5. CASE exp < 0
    <3> DEFINE step == PowerOfTwo(-exp)
               sig  == RoundHalfEven(n * step, d)
    <3>1. step \in Nat \ {0} /\ n * step \in Nat
      <4>1. -exp \in Nat
        BY <2>2, <2>5
      <4>2. PowerOfTwo(-exp) \in Nat \ {0}
        BY <4>1, Power
      <4> QED
        BY <4>2
    <3>2. half * d <= n * step
      BY <2>2, <2>5 DEF IsNormal, Scaled, half
    <3>3. CeilFloatDiv(n, d, precision) = CeilDiv(sig, step)
      BY <1>2, <2>2, <2>5 DEF CeilFloatDiv, Scaled, exp
    <3> HIDE DEF step
    <3>4. 2 * step > d
      <4>1. half * d < (2 * half) * step
        <5>1. n * step < full * step
          BY <2>1, <3>1
        <5> QED
          BY <2>1, <3>1, <3>2, <5>1
      <4>2. half * d < half * (2 * step)
        BY <2>1, <3>1, <4>1
      <4> QED
        BY <2>1, <3>1, <4>2
    <3>5. /\ c * step \in Int /\ (c - 1) * step \in Int
          /\ n * step <= (c * step) * d
          /\ n * step - ((c - 1) * step) * d >= step
      <4>1. n * step <= (c * d) * step
        BY <2>3, <3>1
      <4>2. (n - (c - 1) * d) * step >= step
        <5>1. n - (c - 1) * d >= 1 /\ n - (c - 1) * d \in Int
          BY <2>3
        <5> QED
          BY <3>1, <5>1
      <4> QED
        BY <2>3, <3>1, <4>1, <4>2
    <3>6. sig \in Int /\ sig <= c * step
      BY <3>1, <3>5, Rounding
    <3>7. (c - 1) * step < sig
      <4>1. n * step > ((c - 1) * step) * d /\ 2 * (n * step - ((c - 1) * step) * d) > d
        BY <3>1, <3>4, <3>5, <2>3
      <4> QED
        BY <3>1, <3>5, <4>1, Rounding
    <3>8. c = CeilDiv(sig, step)
      <4> HIDE DEF sig
      <4> QED
        BY <2>3, <3>1, <3>6, <3>7, Ceiling
    <3> QED
      BY <3>3, <3>8 DEF c
  <2> QED
    BY <2>2, <2>4, <2>5
<1> QED
  BY <1>1, <1>2

-----------------------------------------------------------------------------
\* What the provider answers and what the pool was built with.
Inputs ==
    /\ reading \in Readings
    /\ minPools \in Nat \ {0} /\ maxPools \in Nat /\ minPools <= maxPools
    /\ unitsPerPool \in Nat \ {0}

\* With units that fit the significand the code asks for the exact count.
LEMMA DesiredExact ==
    ASSUME Inputs, UnitCount(reading) < PowerOfTwo(Precision)
    PROVE  Desired = DesiredCount(reading, minPools, maxPools, unitsPerPool)
<1>1. UnitCount(reading) \in Nat /\ unitsPerPool \in Nat \ {0} /\ Precision \in Nat \ {0}
  BY SizingAssumption DEF Inputs, Readings, UnitCount
<1>2. CeilFloatDiv(UnitCount(reading), unitsPerPool, Precision)
        = CeilDiv(UnitCount(reading), unitsPerPool)
  BY <1>1, CeilFloatExact
<1> QED
  BY <1>2 DEF Desired, DesiredCountFloat, DesiredCount

\* What the code's validation lets in stays within its ranges.
LEMMA InputsHold == Spec => []Inputs
<1>1. Init => Inputs
  BY SizingAssumption DEF Init, Inputs, Readings
<1>2. Inputs /\ [Next]_vars => Inputs'
  BY DEF Inputs, Next, vars
<1> QED
  BY <1>1, <1>2, PTL DEF Spec

\* manager.py:823: taking math.ceil of the float quotient gives the exact count, for any
\* reading below 2^Precision and whatever the pool's parameters.
THEOREM FloatIsExactHolds == Spec => []FloatIsExact
<1>1. Inputs => FloatIsExact
  BY DesiredExact DEF FloatIsExact, PowerOfTwo
<1> QED
  BY <1>1, InputsHold, PTL

\* The count is the least that covers the units, within the pool's bounds, where all
\* readings fit the significand.
THEOREM LeastCoveringHolds ==
    ASSUME MaxUnits < 2^Precision
    PROVE  Spec => []LeastCoveringCount
<1>1. Inputs => LeastCoveringCount
  <2> SUFFICES ASSUME Inputs PROVE LeastCoveringCount
    OBVIOUS
  <2> DEFINE units == UnitCount(reading)
             c == CeilDiv(units, unitsPerPool)
  <2>1. units \in Nat /\ unitsPerPool \in Nat \ {0}
    BY DEF Inputs, Readings, UnitCount
  <2>2. units < PowerOfTwo(Precision)
    <3>1. PowerOfTwo(Precision) \in Nat \ {0} /\ MaxUnits < PowerOfTwo(Precision)
      BY SizingAssumption, Power DEF PowerOfTwo
    <3> QED
      BY <3>1, SizingAssumption DEF Inputs, Readings, UnitCount
  <2>3. Desired = DesiredCount(reading, minPools, maxPools, unitsPerPool)
    BY <2>2, DesiredExact
  <2>4. c \in Int /\ (c - 1) * unitsPerPool < units /\ units <= c * unitsPerPool
    <3>1. units \in Int
      BY <2>1
    <3> HIDE DEF units
    <3> QED
      BY <2>1, <3>1, Ceiling
  <2>5. Desired = IF (IF c > minPools THEN c ELSE minPools) < maxPools
                  THEN IF c > minPools THEN c ELSE minPools
                  ELSE maxPools
    BY <2>3 DEF DesiredCount
  <2> HIDE DEF units, c
  <2>6. \A n \in Int : n >= c => n * unitsPerPool >= units
    <3> SUFFICES ASSUME NEW n \in Int, n >= c PROVE n * unitsPerPool >= units
      OBVIOUS
    <3>1. n * unitsPerPool >= c * unitsPerPool
      BY <2>1, <2>4
    <3> QED
      BY <2>1, <2>4, <3>1
  <2>7. \A n \in Int : n < c => n * unitsPerPool < units
    <3> SUFFICES ASSUME NEW n \in Int, n < c PROVE n * unitsPerPool < units
      OBVIOUS
    <3>1. n * unitsPerPool <= (c - 1) * unitsPerPool
      BY <2>1, <2>4
    <3> QED
      BY <2>1, <2>4, <3>1
  <2>8. Desired \in minPools .. maxPools
    BY <2>4, <2>5 DEF Inputs
  <2>9. Desired * unitsPerPool >= units \/ Desired = maxPools
    BY <2>4, <2>5, <2>6, <2>8 DEF Inputs
  <2>10. Desired > minPools => (Desired - 1) * unitsPerPool < units /\ (Desired - 1) * unitsPerPool \in Int
    BY <2>1, <2>4, <2>5, <2>7, <2>8 DEF Inputs
  <2> QED
    BY <2>1, <2>8, <2>9, <2>10 DEF LeastCoveringCount, units
<1> QED
  BY <1>1, InputsHold, PTL

=============================================================================
