-------------------------- MODULE ValueTrackProofs --------------------------
(***************************************************************************)
(* What asmkit_analyze_inst_values reports is so, for every set of proper  *)
(* instructions, every start, every number of bits per width and programs  *)
(* of every length.                                                        *)
(*                                                                         *)
(* First the arithmetic (powers of two, remainders, bits), then the parts  *)
(* of an instruction, then per kind of instruction what the analysis       *)
(* reports and that it is right (Right), then conditions and predictions,  *)
(* and at the end the invariant TrackInv.                                  *)
(***************************************************************************)
EXTENDS ValueTrack, FiniteSetTheorems, SequenceTheorems, WellFoundedInduction, TLAPS

-----------------------------------------------------------------------------
(***************************************************************************)
(* Powers of two, remainders and bits.                                     *)
(***************************************************************************)

\* A property of 0 that passes on to the next number holds of all: the
\* principle of induction for sets instead of predicates.
LEMMA InductionOnSets ==
    ASSUME NEW S, 0 \in S, \A n \in Nat : n \in S => n + 1 \in S
    PROVE  Nat \subseteq S
<1>1. SUFFICES ASSUME Nat \ S # {}
               PROVE  FALSE
  OBVIOUS
<1>2. IsWellFoundedOn(OpToRel(<, Nat), Nat)
  BY NatLessThanWellFounded
<1>3. PICK m \in Nat \ S : \A y \in Nat \ S : ~(<<y, m>> \in OpToRel(<, Nat))
  BY <1>1, <1>2, WFMin, Zenon
<1>4. CASE m = 0
  BY <1>4
<1>5. CASE m # 0
  <2>1. m - 1 \in Nat /\ m - 1 < m
    BY <1>5
  <2>2. <<m - 1, m>> \in OpToRel(<, Nat)
    BY <2>1 DEF OpToRel
  <2>3. m - 1 \in S
    BY <1>3, <2>1, <2>2
  <2> QED BY <2>1, <2>3
<1> QED BY <1>4, <1>5

\* A power of two is positive and twice the one before.
LEMMA DoublePower ==
    ASSUME NEW n \in Nat
    PROVE  /\ 2 ^ n \in Nat \ {0} /\ 2 ^ 0 = 1
           /\ 2 ^ (n + 1) = 2 * 2 ^ n
<1> DEFINE A == 1..n
           new == n + 1
           With == {B \cup {new} : B \in SUBSET A}
<1>1. IsFiniteSet(A) /\ Cardinality(A) = n
  BY FS_Interval
<1>2. IsFiniteSet(A \cup {new}) /\ Cardinality(A \cup {new}) = n + 1
  BY <1>1, FS_AddElement
<1>3. IsFiniteSet(SUBSET A) /\ Cardinality(SUBSET A) = 2 ^ n
  BY <1>1, FS_SUBSET
<1>4. Cardinality(SUBSET (A \cup {new})) = 2 ^ (n + 1)
  BY <1>2, FS_SUBSET
<1>5. ExistsBijection(SUBSET A, With)
  <2> DEFINE f == [B \in SUBSET A |-> B \cup {new}]
  <2>1. f \in [SUBSET A -> With]
    OBVIOUS
  <2>2. ASSUME NEW B \in SUBSET A, NEW C \in SUBSET A, f[B] = f[C]
        PROVE  B = C
    <3>1. new \notin A
      OBVIOUS
    <3> QED BY <2>2, <3>1
  <2>3. \A w \in With : \E B \in SUBSET A : f[B] = w
    OBVIOUS
  <2> HIDE DEF f
  <2>4. f \in Bijection(SUBSET A, With)
    BY <2>1, <2>2, <2>3 DEF Bijection, Injection, Surjection, IsInjective
  <2> QED BY <2>4 DEF ExistsBijection
<1>6. IsFiniteSet(With) /\ Cardinality(With) = 2 ^ n
  BY <1>3, <1>5, FS_Bijection
<1>7. SUBSET (A \cup {new}) = (SUBSET A) \cup With
  <2>1. ASSUME NEW B \in SUBSET (A \cup {new}), new \in B
        PROVE  B \in With
    <3>1. B \ {new} \in SUBSET A /\ B = (B \ {new}) \cup {new}
      BY <2>1
    <3> QED BY <3>1
  <2>2. ASSUME NEW B \in SUBSET (A \cup {new}), new \notin B
        PROVE  B \in SUBSET A
    BY <2>2
  <2>3. ASSUME NEW B \in With
        PROVE  B \in SUBSET (A \cup {new})
    OBVIOUS
  <2> HIDE DEF With, new
  <2> QED BY <2>1, <2>2, <2>3
<1>8. (SUBSET A) \cap With = {}
  <2>1. new \notin A
    OBVIOUS
  <2> QED BY <2>1
<1>9. 2 ^ (n + 1) = 2 ^ n + 2 ^ n
  <2> HIDE DEF A, With
  <2>1. Cardinality((SUBSET A) \cup With)
          = Cardinality(SUBSET A) + Cardinality(With) - Cardinality((SUBSET A) \cap With)
    BY <1>3, <1>6, FS_Union
  <2>2. 2 ^ n \in Nat
    BY <1>3, FS_CardinalityType
  <2>3. Cardinality({}) = 0
    BY FS_EmptySet
  <2>4. Cardinality((SUBSET A) \cup With) = 2 ^ (n + 1)
    BY <1>4, <1>7
  <2>5. Cardinality((SUBSET A) \cap With) = 0
    BY <1>8, <2>3
  <2> QED BY <1>3, <1>6, <2>1, <2>2, <2>4, <2>5
<1>10. 2 ^ n \in Nat /\ 2 ^ n # 0
  <2>1. Cardinality(SUBSET A) # 0
    <3>1. {} \in SUBSET A
      OBVIOUS
    <3> QED BY <1>3, <3>1, FS_EmptySet
  <2> QED BY <1>3, <2>1, FS_CardinalityType
<1>11. 2 ^ 0 = 1
  BY SMT
<1> QED BY <1>9, <1>10, <1>11

\* Powers of two multiply by adding their exponents.
LEMMA PowerSum ==
    ASSUME NEW a \in Nat, NEW b \in Nat
    PROVE  2 ^ (a + b) = 2 ^ a * 2 ^ b
<1> DEFINE S == {n \in Nat : 2 ^ (a + n) = 2 ^ a * 2 ^ n}
<1>1. 0 \in S
  BY DoublePower
<1>2. ASSUME NEW n \in Nat, n \in S
      PROVE  n + 1 \in S
  <2>1. 2 ^ (a + n) = 2 ^ a * 2 ^ n
    BY <1>2
  <2>2. 2 ^ ((a + n) + 1) = 2 * 2 ^ (a + n)
    <3> a + n \in Nat
      OBVIOUS
    <3> QED BY DoublePower
  <2>3. 2 ^ (n + 1) = 2 * 2 ^ n /\ 2 ^ n \in Nat
    BY DoublePower
  <2>4. 2 ^ a \in Nat
    BY DoublePower
  <2>5. ASSUME NEW x \in Nat, NEW y \in Nat
        PROVE  2 * (x * y) = x * (2 * y)
    BY SMT
  <2>6. (a + n) + 1 = a + (n + 1)
    OBVIOUS
  <2>7. 2 ^ (a + (n + 1)) = 2 ^ a * 2 ^ (n + 1)
    BY <2>1, <2>2, <2>3, <2>4, <2>5, <2>6
  <2> QED BY <2>7
<1>3. Nat \subseteq S
  <2> HIDE DEF S
  <2> QED BY <1>1, <1>2, InductionOnSets
<1> QED BY <1>3

\* A higher power of two is a multiple of a lower one.
LEMMA PowerGrows ==
    ASSUME NEW a \in Nat, NEW b \in Nat, a <= b
    PROVE  /\ 2 ^ a <= 2 ^ b
           /\ \E k \in Nat \ {0} : 2 ^ b = 2 ^ a * k
<1>1. b - a \in Nat /\ a + (b - a) = b
  OBVIOUS
<1>2. 2 ^ b = 2 ^ a * 2 ^ (b - a)
  BY <1>1, PowerSum
<1>3. 2 ^ a \in Nat \ {0} /\ 2 ^ (b - a) \in Nat \ {0}
  BY <1>1, DoublePower
<1>4. ASSUME NEW x \in Nat \ {0}, NEW k \in Nat \ {0}
      PROVE  x <= x * k
  BY SMT
<1> QED BY <1>2, <1>3, <1>4

\* Quotient and remainder are those of any decomposition.
LEMMA ModUnique ==
    ASSUME NEW M \in Int, M > 0, NEW k \in Int, NEW r \in 0..(M - 1)
    PROVE  ((M * k) + r) % M = r /\ ((M * k) + r) \div M = k
  BY SMT

\* A number is its quotient's multiple and its remainder.
LEMMA ModSplit ==
    ASSUME NEW M \in Int, M > 0, NEW x \in Int
    PROVE  /\ x \div M \in Int /\ x % M \in 0..(M - 1)
           /\ x = (M * (x \div M)) + (x % M)
  BY SMT

\* Multiples of the modulus do not change the remainder.
LEMMA ModDrop ==
    ASSUME NEW M \in Int, M > 0, NEW x \in Int, NEW q \in Int
    PROVE  (x + (M * q)) % M = x % M
<1> DEFINE d == x \div M
           r == x % M
<1>1. d \in Int /\ r \in 0..(M - 1) /\ x = (M * d) + r
  BY ModSplit
<1> HIDE DEF d, r
<1>2. M * d \in Int /\ M * q \in Int /\ M * (d + q) = (M * d) + (M * q) /\ d + q \in Int
  BY <1>1, SMT
<1>3. x + (M * q) = (M * (d + q)) + r
  BY <1>1, <1>2, SMT
<1>4. ((M * (d + q)) + r) % M = r
  BY <1>1, <1>2, ModUnique
<1> QED BY <1>3, <1>4 DEF r

\* The low bits of a number are a value of that many bits.
LEMMA LowRange ==
    ASSUME NEW x \in Int, NEW b \in Nat
    PROVE  Low(x, b) \in 0..(2 ^ b - 1)
<1>1. 2 ^ b \in Nat \ {0}
  BY DoublePower
<1> QED BY <1>1, ModSplit DEF Low

\* A value of that many bits is its own low bits.
LEMMA LowSmall ==
    ASSUME NEW b \in Nat, NEW x \in 0..(2 ^ b - 1)
    PROVE  Low(x, b) = x
<1>1. 2 ^ b \in Nat \ {0}
  BY DoublePower
<1>2. ((2 ^ b * 0) + x) % (2 ^ b) = x
  BY <1>1, ModUnique
<1> QED BY <1>1, <1>2 DEF Low

\* The low bits of the low bits.
LEMMA LowLow ==
    ASSUME NEW a \in Nat, NEW b \in Nat, a <= b, NEW x \in Int
    PROVE  Low(Low(x, b), a) = Low(x, a) /\ Low(Low(x, a), b) = Low(x, a)
<1>1. PICK k \in Nat \ {0} : 2 ^ b = 2 ^ a * k
  BY PowerGrows
<1>2. 2 ^ a \in Nat \ {0} /\ 2 ^ b \in Nat \ {0} /\ 2 ^ a <= 2 ^ b
  BY DoublePower, PowerGrows
<1> DEFINE q == x \div (2 ^ b)
           r == x % (2 ^ b)
           m == 2 ^ a
<1>3. q \in Int /\ r \in 0..(2 ^ b - 1) /\ x = (2 ^ b * q) + r
  BY <1>2, ModSplit
<1> HIDE DEF q, r, m
<1>4. x = r + (m * (k * q)) /\ k * q \in Int
  <2>1. m * (k * q) = (m * k) * q /\ k * q \in Int
    BY <1>1, <1>2, <1>3, SMT DEF m
  <2> QED BY <1>1, <1>3, <2>1 DEF m
<1>5. x % m = r % m
  <2>1. m \in Int /\ m > 0 /\ r \in Int
    BY <1>2, <1>3 DEF m
  <2> QED BY <1>4, <2>1, ModDrop, Zenon
<1>6. Low(x, a) \in 0..(2 ^ b - 1)
  BY <1>2, LowRange
<1> QED BY <1>5, <1>6, LowSmall DEF Low, r, m

\* Sums, differences and products need the low bits of an operand only.
LEMMA LowSum ==
    ASSUME NEW b \in Nat, NEW x \in Int, NEW y \in Int
    PROVE  /\ Low(x + Low(y, b), b) = Low(x + y, b)
           /\ Low(x - Low(y, b), b) = Low(x - y, b)
           /\ Low(x * Low(y, b), b) = Low(x * y, b)
<1> DEFINE M == 2 ^ b
           q == y \div M
           r == y % M
<1>1. M \in Nat \ {0}
  BY DoublePower
<1> HIDE DEF M
<1>2. q \in Int /\ r \in Int /\ y = (M * q) + r
  BY <1>1, ModSplit
<1> HIDE DEF q, r
<1>3. M * q \in Int /\ x * r \in Int
  BY <1>1, <1>2, SMT
<1>4. x + y = (x + r) + (M * q)
  BY <1>1, <1>2, <1>3, SMT
<1>5. x - y = (x - r) + (M * (0 - q)) /\ 0 - q \in Int
  <2>1. M * (0 - q) = 0 - (M * q)
    BY <1>1, <1>2, SMT
  <2> QED BY <1>1, <1>2, <1>3, <2>1, SMT
<1>6. x * y = (x * r) + (M * (x * q)) /\ x * q \in Int
  <2>1. x * ((M * q) + r) = (x * r) + (M * (x * q)) /\ x * q \in Int
    BY <1>1, <1>2, SMT
  <2> QED BY <1>2, <2>1
<1>7. (x + y) % M = (x + r) % M
  <2>1. M \in Int /\ M > 0 /\ x + r \in Int
    BY <1>1, <1>2
  <2>2. q \in Int
    BY <1>2
  <2>3. ((x + r) + (M * (q))) % M = (x + r) % M
    BY <2>1, <2>2, ModDrop, Zenon
  <2> QED BY <2>3, <1>4
<1>8. (x - y) % M = (x - r) % M
  <2>1. M \in Int /\ M > 0 /\ x - r \in Int
    BY <1>1, <1>2
  <2>2. 0 - q \in Int
    BY <1>5
  <2>3. ((x - r) + (M * (0 - q))) % M = (x - r) % M
    BY <2>1, <2>2, ModDrop, Zenon
  <2> QED BY <2>3, <1>5
<1>9. (x * y) % M = (x * r) % M
  <2>1. M \in Int /\ M > 0
    BY <1>1
  <2>2. x * q \in Int
    BY <1>6
  <2>3. ((x * r) + (M * (x * q))) % M = (x * r) % M
    BY <1>3, <2>1, <2>2, ModDrop, Zenon
  <2> QED BY <2>3, <1>6
<1> QED BY <1>7, <1>8, <1>9 DEF Low, M, r

\* A bit of the low bits is a bit of the whole.
LEMMA BitOfLow ==
    ASSUME NEW b \in Nat, NEW n \in Nat, n < b, NEW y \in Int
    PROVE  BitAt(Low(y, b), n) = BitAt(y, n) /\ BitAt(y, n) \in 0..1
<1> DEFINE N == 2 ^ n
           d == b - (n + 1)
           K == 2 ^ d
           q == y \div (2 ^ b)
           r == y % (2 ^ b)
           e == r \div N
           s == r % N
<1>1. d \in Nat /\ b = (n + 1) + d
  OBVIOUS
<1>2. 2 ^ b = 2 ^ (n + 1) * K /\ 2 ^ (n + 1) = 2 * N
  BY <1>1, PowerSum, DoublePower
<1>3. N \in Nat \ {0} /\ K \in Nat \ {0} /\ 2 ^ b \in Nat \ {0}
  BY <1>1, DoublePower
<1>4. q \in Int /\ r \in 0..(2 ^ b - 1) /\ y = (2 ^ b * q) + r
  BY <1>3, ModSplit
<1>5. e \in Int /\ s \in 0..(N - 1) /\ r = (N * e) + s
  <2>1. N \in Int /\ N > 0 /\ r \in Int
    BY <1>3, <1>4
  <2> HIDE DEF N, r
  <2> QED BY <2>1, ModSplit
<1> HIDE DEF N, d, K, q, r, e, s
<1>6. 2 ^ b * q = N * (2 * (K * q)) /\ K * q \in Int
  <2>1. ((2 * N) * K) * q = N * (2 * (K * q)) /\ K * q \in Int
    BY <1>3, <1>4, SMT
  <2> QED BY <1>2, <2>1
<1>7. y = (N * ((2 * (K * q)) + e)) + s
  <2>1. N * ((2 * (K * q)) + e) = (N * (2 * (K * q))) + (N * e)
    BY <1>3, <1>5, <1>6, SMT
  <2>2. N * (2 * (K * q)) \in Int /\ N * e \in Int
    BY <1>3, <1>5, <1>6, SMT
  <2> QED BY <1>4, <1>5, <1>6, <2>1, <2>2
<1>8. y \div N = (2 * (K * q)) + e
  <2>1. (2 * (K * q)) + e \in Int
    BY <1>5, <1>6
  <2> QED BY <1>3, <1>5, <1>7, <2>1, ModUnique
<1>9. (e + (2 * (K * q))) % 2 = e % 2 /\ e % 2 \in 0..1
  BY <1>5, <1>6, ModDrop
<1>10. (2 * (K * q)) + e = e + (2 * (K * q))
  BY <1>5, <1>6
<1> QED BY <1>8, <1>9, <1>10 DEF BitAt, Low, N, r, e

-----------------------------------------------------------------------------
(***************************************************************************)
(* The arithmetic of the processor.                                        *)
(***************************************************************************)
Gates == [0..2 -> 0..1]

\* The tables of the three bitwise operations are such tables.
LEMMA GatesExist == Both \in Gates /\ Either \in Gates /\ Differ \in Gates
  BY DEF Gates, Both, Either, Differ

\* A gate applied bit by bit gives a number of as many bits.
LEMMA BitByBitRange ==
    ASSUME NEW bit \in Gates, NEW x \in Int, NEW y \in Int, NEW b \in Nat
    PROVE  BitByBit(bit, x, y, b) \in 0..(2 ^ b - 1)
<1> DEFINE term(n) == bit[BitAt(x, n - 1) + BitAt(y, n - 1)] * 2 ^ (n - 1)
           F(f, m) == [n \in 0..m |-> IF n = 0 THEN 0 ELSE f[n - 1] + term(n)]
           S == {m \in Nat : \E f : f = F(f, m)}
<1>1. 0 \in S
  <2> DEFINE g == [n \in 0..0 |-> 0]
  <2> g = F(g, 0)
    OBVIOUS
  <2> QED OBVIOUS
<1>2. ASSUME NEW m \in Nat, m \in S
      PROVE  m + 1 \in S
  <2>1. PICK f : f = F(f, m)
    BY <1>2
  <2> HIDE DEF term
  <2> DEFINE g == [n \in 0..(m + 1) |-> IF n = m + 1 THEN f[m] + term(m + 1) ELSE f[n]]
  <2>2. ASSUME NEW n \in 0..(m + 1)
        PROVE  g[n] = IF n = 0 THEN 0 ELSE g[n - 1] + term(n)
    <3>1. CASE n = m + 1
      <4>1. n # 0 /\ n - 1 = m /\ m \in 0..(m + 1) /\ m # m + 1
        BY <3>1
      <4>2. g[m] = f[m] /\ g[n] = f[m] + term(m + 1)
        BY <3>1, <4>1
      <4> QED BY <3>1, <4>1, <4>2
    <3>2. CASE n # m + 1
      <4>1. n \in 0..m
        BY <3>2
      <4>2. f[n] = IF n = 0 THEN 0 ELSE f[n - 1] + term(n)
        BY <2>1, <4>1
      <4>3. g[n] = f[n]
        BY <3>2
      <4>4. n # 0 => g[n - 1] = f[n - 1]
        BY <4>1
      <4> QED BY <4>2, <4>3, <4>4
    <3> QED BY <3>1, <3>2
  <2>3. g = F(g, m + 1)
    <3> g = [n \in 0..(m + 1) |-> g[n]]
      OBVIOUS
    <3> HIDE DEF g
    <3> QED BY <2>2
  <2> HIDE DEF F, g
  <2> QED BY <2>3
<1>3. PICK f : f = F(f, b)
  <2> HIDE DEF S
  <2>1. Nat \subseteq S
    BY <1>1, <1>2, InductionOnSets
  <2> QED BY <2>1 DEF S
<1> DEFINE c == CHOOSE h : h = F(h, b)
<1>4. c = F(c, b)
  <2> HIDE DEF F
  <2> QED BY <1>3
<1>5. BitByBit(bit, x, y, b) = c[b]
  BY DEF BitByBit
<1> HIDE DEF c
<1>6. \A n \in 0..b : c[n] = IF n = 0 THEN 0 ELSE c[n - 1] + term(n)
  BY <1>4
<1>7. ASSUME NEW n \in Nat \ {0}
      PROVE  term(n) = 0 \/ term(n) = 2 ^ (n - 1)
  <2>1. BitAt(x, n - 1) \in 0..1 /\ BitAt(y, n - 1) \in 0..1
    <3> n - 1 \in Nat /\ n \in Nat /\ n - 1 < n
      OBVIOUS
    <3> QED BY BitOfLow
  <2>2. bit[BitAt(x, n - 1) + BitAt(y, n - 1)] \in 0..1
    BY <2>1 DEF Gates
  <2>3. 2 ^ (n - 1) \in Nat
    <3> n - 1 \in Nat
      OBVIOUS
    <3> QED BY DoublePower
  <2> QED BY <2>2, <2>3
<1> HIDE DEF term
<1> DEFINE T == {n \in Nat : n <= b => c[n] \in 0..(2 ^ n - 1)}
<1>8. 0 \in T
  BY <1>6, DoublePower
<1>9. ASSUME NEW n \in Nat, n \in T
      PROVE  n + 1 \in T
  <2>1. SUFFICES ASSUME n + 1 <= b
                 PROVE  c[n + 1] \in 0..(2 ^ (n + 1) - 1)
    OBVIOUS
  <2>2. c[n] \in 0..(2 ^ n - 1)
    BY <1>9, <2>1
  <2>3. c[n + 1] = c[n] + term(n + 1)
    <3> n + 1 \in 0..b /\ n + 1 # 0 /\ (n + 1) - 1 = n
      BY <2>1
    <3> QED BY <1>6
  <2>4. term(n + 1) = 0 \/ term(n + 1) = 2 ^ n
    <3> n + 1 \in Nat \ {0} /\ (n + 1) - 1 = n
      OBVIOUS
    <3> QED BY <1>7
  <2>5. 2 ^ (n + 1) = 2 * 2 ^ n /\ 2 ^ n \in Nat
    BY DoublePower
  <2> QED BY <2>2, <2>3, <2>4, <2>5
<1>10. b \in T
  <2> HIDE DEF T
  <2> QED BY <1>8, <1>9, InductionOnSets
<1> QED BY <1>5, <1>10

\* A bitwise operation needs the low bits of an operand only.
LEMMA BitByBitLow ==
    ASSUME NEW bit, NEW x \in Int, NEW y \in Int, NEW b \in Nat
    PROVE  BitByBit(bit, x, Low(y, b), b) = BitByBit(bit, x, y, b)
<1> DEFINE F(f, z) == [n \in 0..b |-> IF n = 0 THEN 0
                            ELSE f[n - 1] + bit[BitAt(x, n - 1) + BitAt(z, n - 1)] * 2 ^ (n - 1)]
           c(z) == CHOOSE f : f = F(f, z)
<1>1. \A f : F(f, Low(y, b)) = F(f, y)
  <2>1. ASSUME NEW n \in 0..b, n # 0
        PROVE  BitAt(Low(y, b), n - 1) = BitAt(y, n - 1)
    <3> n - 1 \in Nat /\ n - 1 < b
      BY <2>1
    <3> QED BY BitOfLow
  <2> QED BY <2>1
<1>2. c(Low(y, b)) = c(y)
  <2> HIDE DEF F
  <2> QED BY <1>1, Zenon
<1>3. \A z : BitByBit(bit, x, z, b) = c(z)[b]
  BY DEF BitByBit
<1> HIDE DEF c
<1> QED BY <1>2, <1>3

\* A quotient is not greater than what is divided.
LEMMA DivRange ==
    ASSUME NEW m \in Nat \ {0}, NEW x \in Nat
    PROVE  x \div m \in 0..x
<1> DEFINE d == x \div m
           r == x % m
<1>1. d \in Int /\ r \in 0..(m - 1) /\ x = (m * d) + r
  BY ModSplit
<1> HIDE DEF d, r
<1>2. d >= 0
  <2>1. ASSUME d <= -1
        PROVE  m * d <= 0 - m
    BY <1>1, <2>1, SMT
  <2>2. m * d \in Int
    BY <1>1
  <2> QED BY <1>1, <2>1, <2>2
<1>3. d <= m * d /\ m * d \in Int
  BY <1>1, <1>2, SMT
<1>4. d \in 0..x
  BY <1>1, <1>2, <1>3
<1> QED BY <1>4 DEF d

\* A rotated value keeps its bits.
LEMMA RotatedRange ==
    ASSUME NEW b \in Nat, NEW x \in 0..(2 ^ b - 1), NEW n \in 0..b
    PROVE  Rotated(x, n, b) \in 0..(2 ^ b - 1)
<1> DEFINE P == 2 ^ n
           Q == 2 ^ (b - n)
           M == 2 ^ b
           d == x \div Q
           s == x % Q
<1>1. P \in Nat \ {0} /\ Q \in Nat \ {0} /\ M = Q * P
  <2>1. n \in Nat /\ b - n \in Nat /\ n + (b - n) = b
    OBVIOUS
  <2>2. M = P * Q
    BY <2>1, PowerSum
  <2>3. P \in Nat \ {0} /\ Q \in Nat \ {0}
    BY <2>1, DoublePower
  <2> QED BY <2>2, <2>3, SMT
<1>2. d \in Int /\ s \in 0..(Q - 1) /\ x = (Q * d) + s
  <2> HIDE DEF Q
  <2> QED BY <1>1, ModSplit
<1>3. x \in Nat /\ x < M
  BY <1>1
<1>4. d \in 0..x
  BY <1>1, <1>3, DivRange
<1> HIDE DEF P, Q, M, d, s
<1>5. d <= P - 1
  <2>1. SUFFICES ASSUME d >= P
                 PROVE  FALSE
    BY <1>1, <1>2
  <2>2. Q * d >= Q * P /\ Q * d \in Int /\ Q * P \in Int
    BY <1>1, <1>2, <2>1, SMT
  <2> QED BY <1>1, <1>2, <1>3, <2>2
<1>6. s * P \in 0..(M - P)
  <2>1. s * P >= 0 /\ s * P <= (Q - 1) * P /\ (Q - 1) * P = (Q * P) - P
    BY <1>1, <1>2, SMT
  <2> QED BY <1>1, <1>2, <2>1
<1>7. x * P = (M * d) + (s * P)
  <2>1. ((Q * d) + s) * P = ((Q * P) * d) + (s * P)
    BY <1>1, <1>2, SMT
  <2> QED BY <1>1, <1>2, <2>1
<1>8. (x * P) % M = s * P
  <2>1. M \in Int /\ M > 0 /\ s * P \in 0..(M - 1)
    BY <1>1, <1>6
  <2>2. ((M * d) + (s * P)) % M = s * P
    BY <1>2, <2>1, ModUnique, Zenon
  <2> QED BY <1>7, <2>2
<1>9. (s * P) + d \in 0..(M - 1)
  BY <1>1, <1>4, <1>5, <1>6
<1>10. Rotated(x, n, b) = (s * P) + d
  BY <1>8 DEF Rotated, Low, P, Q, M, d
<1> QED BY <1>9, <1>10 DEF M

\* What is computed fits its width.
LEMMA ComputeRange ==
    ASSUME NEW kind \in Operations, NEW b \in Nat \ {0}, NEW x \in 0..(2 ^ b - 1),
           NEW y \in Int, kind \in Shifts => y \in Nat
    PROVE  Compute(kind, x, y, b) \in 0..(2 ^ b - 1)
<1>0. /\ Compute("ADD", x, y, b) = Low(x + y, b)
      /\ Compute("SUB", x, y, b) = Low(x - y, b)
      /\ Compute("MUL", x, y, b) = Low(x * y, b)
      /\ Compute("AND", x, y, b) = BitByBit(Both, x, y, b)
      /\ Compute("OR", x, y, b)  = BitByBit(Either, x, y, b)
      /\ Compute("XOR", x, y, b) = BitByBit(Differ, x, y, b)
      /\ Compute("SHIFT_LEFT", x, y, b) = Low(x * 2 ^ y, b)
      /\ Compute("SHIFT_RIGHT_LOGICAL", x, y, b) = x \div 2 ^ y
      /\ Compute("SHIFT_RIGHT_ARITHMETIC", x, y, b) = Low(Signed(x, b) \div 2 ^ y, b)
      /\ Compute("ROTATE_LEFT", x, y, b)  = Rotated(x, y % b, b)
      /\ Compute("ROTATE_RIGHT", x, y, b) = Rotated(x, b - (y % b), b)
  BY DEF Compute
<1>1. x + y \in Int /\ x - y \in Int /\ x * y \in Int
  OBVIOUS
<1>2. CASE kind \in {"ADD", "SUB", "MUL"}
  <2>1. b \in Nat
    OBVIOUS
  <2>2. /\ Low(x + y, b) \in 0..(2 ^ b - 1)
        /\ Low(x - y, b) \in 0..(2 ^ b - 1)
        /\ Low(x * y, b) \in 0..(2 ^ b - 1)
    BY <1>1, <2>1, LowRange
  <2> QED BY <1>2, <2>2, <1>0
<1>3. CASE kind \in {"AND", "OR", "XOR"}
  <2>1. /\ BitByBit(Both, x, y, b) \in 0..(2 ^ b - 1)
        /\ BitByBit(Either, x, y, b) \in 0..(2 ^ b - 1)
        /\ BitByBit(Differ, x, y, b) \in 0..(2 ^ b - 1)
    <3> b \in Nat /\ x \in Int
      OBVIOUS
    <3> QED BY BitByBitRange, GatesExist
  <2> QED BY <1>3, <2>1, <1>0
<1>4. CASE kind \in {"SHIFT_LEFT", "SHIFT_RIGHT_LOGICAL", "SHIFT_RIGHT_ARITHMETIC"}
  <2>1. y \in Nat /\ 2 ^ y \in Nat \ {0}
    BY <1>4, DoublePower DEF Shifts
  <2>2. x * 2 ^ y \in Int
    BY <2>1
  <2>3. x \div 2 ^ y \in 0..x
    BY <2>1, DivRange
  <2>4. Signed(x, b) \in Int
    <3> 2 ^ b \in Int
      BY DoublePower
    <3> QED BY DEF Signed
  <2>5. Signed(x, b) \div 2 ^ y \in Int
    BY <2>1, <2>4
  <2>6. b \in Nat /\ x \in Nat /\ x < 2 ^ b /\ 2 ^ b \in Nat
    BY DoublePower
  <2>7. x \div 2 ^ y \in 0..(2 ^ b - 1)
    BY <2>3, <2>6
  <2>8. Low(x * 2 ^ y, b) \in 0..(2 ^ b - 1) /\ Low(Signed(x, b) \div 2 ^ y, b) \in 0..(2 ^ b - 1)
    BY <2>2, <2>5, <2>6, LowRange
  <2> QED BY <1>4, <2>7, <2>8, <1>0
<1>5. CASE kind \in {"ROTATE_LEFT", "ROTATE_RIGHT"}
  <2>1. y % b \in 0..(b - 1)
    OBVIOUS
  <2>2. y % b \in 0..b /\ b - (y % b) \in 0..b /\ b \in Nat
    BY <2>1
  <2>3. Rotated(x, y % b, b) \in 0..(2 ^ b - 1) /\ Rotated(x, b - (y % b), b) \in 0..(2 ^ b - 1)
    BY <2>2, RotatedRange
  <2> QED BY <1>5, <2>3, <1>0
<1> QED BY <1>2, <1>3, <1>4, <1>5 DEF Operations

\* An operand of more bits than the operation works on counts for its low bits.
LEMMA ComputeLow ==
    ASSUME NEW kind \in Operations \ Shifts, NEW b \in Nat, NEW x \in Int, NEW y \in Int
    PROVE  Compute(kind, x, Low(y, b), b) = Compute(kind, x, y, b)
<1>0. /\ Compute("ADD", x, y, b) = Low(x + y, b)
      /\ Compute("SUB", x, y, b) = Low(x - y, b)
      /\ Compute("MUL", x, y, b) = Low(x * y, b)
      /\ Compute("AND", x, y, b) = BitByBit(Both, x, y, b)
      /\ Compute("OR", x, y, b)  = BitByBit(Either, x, y, b)
      /\ Compute("XOR", x, y, b) = BitByBit(Differ, x, y, b)
      /\ Compute("ADD", x, Low(y, b), b) = Low(x + Low(y, b), b)
      /\ Compute("SUB", x, Low(y, b), b) = Low(x - Low(y, b), b)
      /\ Compute("MUL", x, Low(y, b), b) = Low(x * Low(y, b), b)
      /\ Compute("AND", x, Low(y, b), b) = BitByBit(Both, x, Low(y, b), b)
      /\ Compute("OR", x, Low(y, b), b)  = BitByBit(Either, x, Low(y, b), b)
      /\ Compute("XOR", x, Low(y, b), b) = BitByBit(Differ, x, Low(y, b), b)
  BY DEF Compute
<1>1. CASE kind \in {"ADD", "SUB", "MUL"}
  <2>1. /\ Low(x + Low(y, b), b) = Low(x + y, b)
        /\ Low(x - Low(y, b), b) = Low(x - y, b)
        /\ Low(x * Low(y, b), b) = Low(x * y, b)
    BY LowSum
  <2> QED BY <1>1, <2>1, <1>0
<1>2. CASE kind \in {"AND", "OR", "XOR"}
  <2>1. \A bit : BitByBit(bit, x, Low(y, b), b) = BitByBit(bit, x, y, b)
    BY BitByBitLow
  <2> QED BY <1>2, <2>1, <1>0
<1> QED BY <1>1, <1>2 DEF Operations, Shifts

-----------------------------------------------------------------------------
(***************************************************************************)
(* Registers and memory.                                                   *)
(***************************************************************************)
Word       == 0..(Top - 1)
Believable == {Unknown} \cup Word

\* Every width has its bits, and its values are values of the widest.
LEMMA WidthBits ==
    ASSUME NEW w \in DOMAIN BitsOf
    PROVE  /\ BitsOf[w] \in Nat \ {0} /\ BitsOf[w] <= BitsOf[64] /\ BitsOf[64] \in Nat
           /\ 2 ^ BitsOf[w] \in Nat \ {0} /\ 2 ^ BitsOf[w] <= Top /\ Top \in Nat \ {0}
           /\ 0..(2 ^ BitsOf[w] - 1) \subseteq Word
<1>1. BitsOf[w] \in Nat \ {0} /\ BitsOf[w] <= BitsOf[64] /\ BitsOf[64] \in Nat
  BY BitsAssumption
<1>2. 2 ^ BitsOf[w] \in Nat \ {0} /\ 2 ^ BitsOf[64] \in Nat \ {0}
  BY <1>1, DoublePower
<1>3. 2 ^ BitsOf[w] <= 2 ^ BitsOf[64]
  BY <1>1, PowerGrows
<1> QED BY <1>1, <1>2, <1>3 DEF Top, Word

\* Putting some low bits into a number: what is read back, and what is kept.
LEMMA Insert ==
    ASSUME NEW b \in Nat, NEW B \in Nat, b <= B, NEW old \in 0..(2 ^ B - 1),
           NEW v \in 0..(2 ^ b - 1), NEW n, n = (old - Low(old, b)) + v
    PROVE  /\ n \in 0..(2 ^ B - 1)
           /\ Low(n, b) = v
           /\ n - Low(n, b) = old - Low(old, b)
<1> DEFINE m == 2 ^ b
           d == old \div m
           r == old % m
<1>1. PICK k \in Nat \ {0} : 2 ^ B = 2 ^ b * k
  BY PowerGrows
<1>2. m \in Nat \ {0} /\ 2 ^ B \in Nat \ {0}
  BY DoublePower
<1>3. d \in Int /\ r \in 0..(m - 1) /\ old = (m * d) + r
  BY <1>2, ModSplit
<1>4. d \in 0..old
  BY <1>2, DivRange
<1>5. old < m * k /\ m * k = 2 ^ B
  BY <1>1, <1>2
<1>6. Low(old, b) = r
  BY DEF Low
<1> HIDE DEF m, d, r
<1>7. d <= k - 1
  <2>1. SUFFICES ASSUME d >= k
                 PROVE  FALSE
    BY <1>1, <1>3
  <2>2. m * d >= m * k /\ m * d \in Int /\ m * k \in Int
    BY <1>1, <1>2, <1>3, <2>1, SMT
  <2> QED BY <1>2, <1>3, <1>5, <2>2
<1>8. m * d >= 0 /\ m * d <= (m * k) - m /\ m * d \in Int
  <2>1. m * d <= m * (k - 1) /\ m * (k - 1) = (m * k) - m
    BY <1>1, <1>2, <1>3, <1>7, SMT
  <2>2. m * d >= 0
    BY <1>2, <1>4, SMT
  <2> QED BY <1>2, <1>3, <2>1, <2>2
<1>9. n = (m * d) + v /\ v \in 0..(m - 1)
  BY <1>3, <1>6, <1>8 DEF m
<1>10. n \in 0..(2 ^ B - 1)
  BY <1>2, <1>5, <1>8, <1>9
<1>11. Low(n, b) = v
  <2>1. ((m * d) + v) % m = v
    BY <1>2, <1>3, <1>9, ModUnique
  <2> QED BY <1>9, <2>1 DEF Low, m
<1> QED BY <1>3, <1>6, <1>8, <1>9, <1>10, <1>11

\* A register written through one of its names.
LEMMA MergeFacts ==
    ASSUME NEW reg, reg.width \in DOMAIN BitsOf, NEW old \in Word,
           NEW v \in 0..(2 ^ BitsOf[reg.width] - 1)
    PROVE  /\ Merge(old, reg, v) \in Word
           /\ Low(Merge(old, reg, v), BitsOf[reg.width]) = IF reg.fam = "zero" THEN 0 ELSE v
           /\ \A u \in 0..(2 ^ BitsOf[reg.width] - 1) :
                 Merge(Merge(old, reg, v), reg, u) = Merge(old, reg, u)
<1> DEFINE b == BitsOf[reg.width]
<1>1. b \in Nat /\ b <= BitsOf[64] /\ BitsOf[64] \in Nat /\ 0..(2 ^ b - 1) \subseteq Word
      /\ Top \in Nat \ {0} /\ 2 ^ b \in Nat \ {0}
  BY WidthBits
<1>2. CASE reg.fam = "zero"
  <2>1. Low(0, b) = 0
    BY <1>1, LowSmall
  <2> QED BY <1>1, <1>2, <2>1 DEF Merge, Word
<1>3. CASE reg.fam # "zero" /\ reg.width >= 32
  <2>1. Low(v, b) = v
    BY <1>1, LowSmall
  <2> QED BY <1>1, <1>3, <2>1 DEF Merge
<1>4. CASE reg.fam # "zero" /\ ~(reg.width >= 32)
  <2>0. PICK n : n = (old - Low(old, b)) + v
    OBVIOUS
  <2>1. old \in 0..(2 ^ BitsOf[64] - 1)
    BY DEF Word, Top
  <2>2. n \in 0..(2 ^ BitsOf[64] - 1) /\ Low(n, b) = v /\ n - Low(n, b) = old - Low(old, b)
    <3>1. v \in 0..(2 ^ b - 1)
      OBVIOUS
    <3>2. PICK B : B = BitsOf[64]
      OBVIOUS
    <3>3. B \in Nat /\ b \in Nat /\ b <= B /\ old \in 0..(2 ^ B - 1)
      BY <1>1, <2>1, <3>2
    <3> HIDE DEF b
    <3>4. n \in 0..(2 ^ B - 1) /\ Low(n, b) = v /\ n - Low(n, b) = old - Low(old, b)
      BY <2>0, <3>1, <3>3, Insert
    <3> QED BY <3>2, <3>4
  <2>3. \A u : Merge(old, reg, u) = (old - Low(old, b)) + u
    BY <1>4 DEF Merge
  <2>4. \A u : Merge(n, reg, u) = (n - Low(n, b)) + u
    BY <1>4 DEF Merge
  <2>5. Merge(old, reg, v) = n
    BY <2>0, <2>3
  <2> HIDE DEF b
  <2>6. \A u : Merge(n, reg, u) = Merge(old, reg, u)
    BY <2>2, <2>3, <2>4
  <2> QED BY <1>4, <2>2, <2>5, <2>6 DEF Word, Top, b
<1> QED BY <1>2, <1>3, <1>4

\* What an operand holds fits the width it is used at.
LEMMA FetchFacts ==
    ASSUME TrackTypeOK, NEW p \in Forms, NEW n \in Indices(p.inst)
    PROVE  Op(p, n).kind # "pcrel" =>
             /\ \E w \in DOMAIN BitsOf : Bits(p, n) = BitsOf[w]
             /\ Fetch(p, n) \in 0..(2 ^ Bits(p, n) - 1)
<1>1. OperandOK(Op(p, n)) /\ p.width \in DOMAIN BitsOf
  BY FormsAssumption DEF Proper
<1> SUFFICES ASSUME Op(p, n).kind # "pcrel"
             PROVE  /\ \E w \in DOMAIN BitsOf : Bits(p, n) = BitsOf[w]
                    /\ Fetch(p, n) \in 0..(2 ^ Bits(p, n) - 1)
  OBVIOUS
<1>2. PICK w \in DOMAIN BitsOf : Bits(p, n) = BitsOf[w]
  <2>1. CASE Op(p, n).kind = "imm" \/ Op(p, n).width = 0
    BY <1>1, <2>1 DEF Bits
  <2>2. CASE ~(Op(p, n).kind = "imm" \/ Op(p, n).width = 0)
    <3>1. Op(p, n).width \in DOMAIN BitsOf
      BY <1>1, <2>2 DEF OperandOK
    <3> QED BY <2>2, <3>1 DEF Bits
  <2> QED BY <2>1, <2>2
<1>3. Bits(p, n) \in Nat
  BY <1>2, WidthBits
<1>4. CASE Op(p, n).kind = "reg"
  <2>1. regs[Op(p, n).reg.fam] \in Int
    BY <1>1, <1>4, WidthBits DEF OperandOK, TrackTypeOK
  <2> QED BY <1>2, <1>3, <1>4, <2>1, LowRange DEF Fetch
<1>5. CASE Op(p, n).kind = "mem"
  <2>1. cells[Op(p, n).cell] \in Int
    BY <1>1, <1>5, WidthBits DEF OperandOK, TrackTypeOK
  <2> QED BY <1>2, <1>3, <1>5, <2>1, LowRange DEF Fetch
<1>6. CASE Op(p, n).kind = "imm"
  <2>1. Op(p, n).imm \in Int
    BY <1>1 DEF OperandOK
  <2> QED BY <1>2, <1>3, <1>6, <2>1, LowRange DEF Fetch
<1> QED BY <1>1, <1>2, <1>4, <1>5, <1>6 DEF OperandOK

\* What a reference to an operand says of it.
LEMMA OperandIs ==
    ASSUME NEW p \in Forms, NEW n \in Indices(p.inst)
    PROVE  /\ Operand(p.inst, n).kind = "operand" /\ Operand(p.inst, n).index = n
           /\ Operand(p.inst, n).width = Op(p, n).width
           /\ IsReg(p, n) => Operand(p.inst, n).reg = Op(p, n).reg
           /\ IsImm(p, n) => Operand(p.inst, n).imm = Op(p, n).imm
  BY DEF Operand, Ref, Op, Indices, IsReg, IsImm

\* What a client sees of a register or of memory is what is there, if it knows it.
LEMMA SeenFacts ==
    ASSUME TrackTypeOK, NEW p \in Forms, NEW n \in Indices(p.inst), NEW e
    PROVE  /\ IsReg(p, n) /\ e.know[Op(p, n).reg.fam] \in {Unknown, regs[Op(p, n).reg.fam]}
                => /\ Seen(p, e, Operand(p.inst, n)) \in {Unknown, Fetch(p, n)}
                   /\ e.know[Op(p, n).reg.fam] # Unknown
                        => Seen(p, e, Operand(p.inst, n)) # Unknown
           /\ IsMem(p, n) /\ e.cells[Op(p, n).cell] \in {Unknown, cells[Op(p, n).cell]}
                => /\ Seen(p, e, Operand(p.inst, n)) \in {Unknown, Fetch(p, n)}
                   /\ e.cells[Op(p, n).cell] # Unknown /\ Op(p, n).width # 0
                        => Seen(p, e, Operand(p.inst, n)) # Unknown
           /\ IsImm(p, n) => Seen(p, e, Operand(p.inst, n)) = Op(p, n).imm
<1> DEFINE r == Operand(p.inst, n)
<1>1. OperandOK(Op(p, n))
  BY FormsAssumption DEF Proper
<1>2. /\ r.kind = "operand" /\ r.index = n /\ r.width = Op(p, n).width
      /\ IsReg(p, n) => r.reg = Op(p, n).reg
      /\ IsImm(p, n) => r.imm = Op(p, n).imm
  BY OperandIs
<1>3. Fetch(p, n) # Unknown \/ Op(p, n).kind = "pcrel"
  <2> SUFFICES ASSUME Op(p, n).kind # "pcrel"
               PROVE  Fetch(p, n) # Unknown
    OBVIOUS
  <2>1. Bits(p, n) \in Nat
    BY FetchFacts, WidthBits
  <2>2. 2 ^ Bits(p, n) \in Nat
    BY <2>1, DoublePower
  <2>3. 0..(2 ^ Bits(p, n) - 1) \subseteq Int
    BY <2>2
  <2> QED BY <2>3, FetchFacts, UnknownAssumption
<1> HIDE DEF r
<1>4. ASSUME IsReg(p, n), e.know[Op(p, n).reg.fam] \in {Unknown, regs[Op(p, n).reg.fam]}
      PROVE  /\ Seen(p, e, r) \in {Unknown, Fetch(p, n)}
             /\ e.know[Op(p, n).reg.fam] # Unknown => Seen(p, e, r) # Unknown
  <2>1. Op(p, n).kind = "reg" /\ Op(p, n).width \in DOMAIN BitsOf /\ Op(p, n).width # 0
    BY <1>1, <1>4, BitsAssumption DEF IsReg, OperandOK
  <2>2. Seen(p, e, r) = LowIf(e.know[Op(p, n).reg.fam], Op(p, n).width)
    BY <1>2, <1>4, <2>1 DEF Seen
  <2>3. Fetch(p, n) = Low(regs[Op(p, n).reg.fam], BitsOf[Op(p, n).width])
    BY <2>1 DEF Fetch, Bits
  <2> QED BY <1>3, <1>4, <2>1, <2>2, <2>3 DEF LowIf
<1>5. ASSUME IsMem(p, n), e.cells[Op(p, n).cell] \in {Unknown, cells[Op(p, n).cell]}
      PROVE  /\ Seen(p, e, r) \in {Unknown, Fetch(p, n)}
             /\ e.cells[Op(p, n).cell] # Unknown /\ Op(p, n).width # 0
                  => Seen(p, e, r) # Unknown
  <2>1. Op(p, n).kind = "mem"
    BY <1>5 DEF IsMem
  <2>2. Seen(p, e, r) = LowIf(e.cells[Op(p, n).cell], Op(p, n).width)
    BY <1>2, <2>1 DEF Seen
  <2>3. Op(p, n).width # 0
          => Fetch(p, n) = Low(cells[Op(p, n).cell], BitsOf[Op(p, n).width])
    BY <2>1 DEF Fetch, Bits
  <2> QED BY <1>3, <1>5, <2>1, <2>2, <2>3 DEF LowIf
<1>6. IsImm(p, n) => Seen(p, e, r) = Op(p, n).imm
  BY <1>2 DEF Seen, IsImm
<1> QED BY <1>4, <1>5, <1>6 DEF r

\* An extended value has the bits it is extended to.
LEMMA ExtendedRange ==
    ASSUME NEW x \in Int, NEW from \in Nat, NEW to \in Nat, NEW signed
    PROVE  Extended(x, from, to, signed) \in 0..(2 ^ to - 1)
<1>1. Low(x, from) \in Int /\ 2 ^ from \in Int
  <2>1. 2 ^ from \in Nat
    BY DoublePower
  <2> QED BY <2>1, LowRange
<1>2. Signed(Low(x, from), from) \in Int
  BY <1>1 DEF Signed
<1>3. Low(Signed(Low(x, from), from), to) \in 0..(2 ^ to - 1) /\ Low(Low(x, from), to) \in 0..(2 ^ to - 1)
  BY <1>1, <1>2, LowRange
<1> QED BY <1>3 DEF Extended

HasDst(p) == IsReg(p, p.dst) \/ IsMem(p, p.dst)

\* What every form is, of all that Proper demands.
LEMMA ProperForm ==
    ASSUME NEW p \in Forms
    PROVE  /\ \A n \in Indices(p.inst) : OperandOK(Op(p, n))
           /\ p.width \in DOMAIN BitsOf /\ p.width # 0 /\ Len(p.inst.ops) \in Nat
           /\ Operates(p) \/ Copies(p) \/ Widens(p) \/ Loads(p) \/ Stores(p)
                \/ NamesAddress(p) \/ Alters(p) \/ Keeps(p)
           /\ Op(p, p.dst).kind # "pcrel" \/ ~HasDst(p)
<1>1. Proper(p)
  BY FormsAssumption
<1>2. p.width # 0
  BY <1>1, BitsAssumption DEF Proper
<1> QED BY <1>1, <1>2 DEF Proper, HasDst, IsReg, IsMem

\* The result of an instruction fits what it is written to.
LEMMA ResultRange ==
    ASSUME TrackTypeOK, NEW p \in Forms, HasDst(p)
    PROVE  /\ Result(p) \in 0..(2 ^ Bits(p, p.dst) - 1)
           /\ \E w \in DOMAIN BitsOf : Bits(p, p.dst) = BitsOf[w]
<1> DEFINE to == Bits(p, p.dst)
<1>1. p.dst \in Indices(p.inst) /\ Op(p, p.dst).kind # "pcrel"
  BY DEF HasDst, IsReg, IsMem
<1>2. PICK w \in DOMAIN BitsOf : to = BitsOf[w]
  BY <1>1, FetchFacts
<1>3. to \in Nat \ {0}
  BY <1>2, WidthBits
<1> HIDE DEF to
<1>4. ~Keeps(p)
  <2>1. p.dst # -1
    BY <1>1, ProperForm DEF Indices
  <2> QED BY <2>1 DEF Keeps
<1>5. ASSUME NEW n \in Indices(p.inst), Op(p, n).kind # "pcrel"
      PROVE  Fetch(p, n) \in Nat /\ Bits(p, n) \in Nat
  <2>1. \E v \in DOMAIN BitsOf : Bits(p, n) = BitsOf[v]
    BY <1>5, FetchFacts
  <2>2. Bits(p, n) \in Nat
    BY <2>1, WidthBits
  <2>3. Fetch(p, n) \in 0..(2 ^ Bits(p, n) - 1) /\ 2 ^ Bits(p, n) \in Nat
    BY <1>5, <2>2, FetchFacts, DoublePower
  <2> QED BY <2>2, <2>3
<1>6. CASE Operates(p)
  <2> DEFINE s1 == p.srcs[1]
             s2 == p.srcs[2]
  <2>1. p.dst = 0 /\ Op(p, 0).width = p.width /\ Op(p, s1).width = p.width
        /\ s1 \in Indices(p.inst) /\ Op(p, s1).kind \in {"reg", "mem"}
        /\ s2 \in Indices(p.inst) /\ Op(p, s2).kind \in {"reg", "mem", "imm"}
        /\ p.does \in Operations
    BY <1>6 DEF Operates, Writes, IsReg, IsMem, IsImm
  <2>2. Bits(p, s1) = BitsOf[p.width] /\ to = BitsOf[p.width]
    <3>1. Op(p, 0).kind # "imm"
      BY <1>1, <2>1 DEF HasDst, IsReg, IsMem
    <3> QED BY <2>1, <3>1, ProperForm DEF Bits, to
  <2>3. Fetch(p, s1) \in 0..(2 ^ to - 1) /\ Fetch(p, s2) \in Nat
    <3>1. Op(p, s1).kind # "pcrel" /\ Op(p, s2).kind # "pcrel"
      BY <2>1
    <3> HIDE DEF s1, s2
    <3>2. Fetch(p, s1) \in 0..(2 ^ Bits(p, s1) - 1)
      BY <2>1, <3>1, FetchFacts
    <3> QED BY <1>5, <2>1, <2>2, <3>1, <3>2
  <2>4. Compute(p.does, Fetch(p, s1), Fetch(p, s2), to) \in 0..(2 ^ to - 1)
    <3> HIDE DEF s1, s2
    <3> QED BY <1>3, <2>1, <2>3, ComputeRange
  <2>5. Result(p) = Compute(p.does, Fetch(p, s1), Fetch(p, s2), to)
    <3>1. p.does \notin {"move", "name", "opaque"}
      BY <2>1 DEF Operations
    <3> QED BY <2>1, <3>1 DEF Result, to
  <2> QED BY <1>2, <2>4, <2>5 DEF to
<1>7. CASE p.does = "move"
  <2>1. p.srcs[1] \in Indices(p.inst) /\ Op(p, p.srcs[1]).kind # "pcrel"
    <3>1. ~Operates(p) /\ ~NamesAddress(p) /\ ~Alters(p)
      BY <1>7 DEF Operates, NamesAddress, Alters, Operations
    <3>2. Copies(p) \/ Widens(p) \/ Loads(p) \/ Stores(p)
      BY <1>4, <3>1, ProperForm
    <3>3. CASE Stores(p)
      <4>1. PICK m \in {0, 1} : p.srcs = <<1 - m>> /\ (IsReg(p, 1 - m) \/ IsImm(p, 1 - m))
        BY <3>3 DEF Stores
      <4> QED BY <4>1 DEF IsReg, IsImm
    <3> QED BY <3>2, <3>3 DEF Copies, Widens, Loads, IsReg, IsMem, IsImm
  <2>2. Result(p) = Extended(Fetch(p, p.srcs[1]), Bits(p, p.srcs[1]), to, p.signed)
    BY <1>7 DEF Result, Operations, to
  <2>3. Fetch(p, p.srcs[1]) \in Int /\ Bits(p, p.srcs[1]) \in Nat
    BY <1>5, <2>1
  <2> QED BY <1>2, <1>3, <2>2, <2>3, ExtendedRange DEF to
<1>8. CASE NamesAddress(p)
  <2>1. Result(p) = Low(p.real, to) /\ p.real \in Int
    BY <1>8 DEF Result, NamesAddress, Operations, to
  <2> QED BY <1>2, <1>3, <2>1, LowRange DEF to
<1>9. CASE Alters(p)
  <2>1. p.does = "opaque" /\ p.srcs[1] \in Indices(p.inst) /\ Op(p, p.srcs[1]).kind # "pcrel"
    BY <1>9 DEF Alters
  <2>2. Result(p) = Low(Fetch(p, p.srcs[1]) + 1, to) /\ Fetch(p, p.srcs[1]) + 1 \in Int
    <3>1. Fetch(p, p.srcs[1]) \in Nat
      BY <1>5, <2>1
    <3> QED BY <2>1, <3>1 DEF Result, Operations, to
  <2> QED BY <1>2, <1>3, <2>2, LowRange DEF to
<1> QED BY <1>4, <1>6, <1>7, <1>8, <1>9, ProperForm DEF Copies, Widens, Loads, Stores

-----------------------------------------------------------------------------
(***************************************************************************)
(* The client follows the effects one by one.                              *)
(***************************************************************************)
LEMMA EffectedChain ==
    ASSUME NEW p, NEW effects, Len(effects) \in Nat
    PROVE  \E after : /\ after[0] = Start
                      /\ \A n \in 1..Len(effects) :
                            after[n] = Follow(p, after[n - 1], effects[n])
                      /\ Effected(p, effects) = after[Len(effects)]
<1> DEFINE step(e, n) == Follow(p, e, effects[n])
           F(f, m) == [n \in 0..m |-> IF n = 0 THEN Start ELSE step(f[n - 1], n)]
           S == {m \in Nat : \E f : f = F(f, m)}
           b == Len(effects)
<1>1. 0 \in S
  <2> DEFINE g == [n \in 0..0 |-> Start]
  <2> g = F(g, 0)
    OBVIOUS
  <2> QED OBVIOUS
<1>2. ASSUME NEW m \in Nat, m \in S
      PROVE  m + 1 \in S
  <2>1. PICK f : f = F(f, m)
    BY <1>2
  <2> HIDE DEF step
  <2> DEFINE g == [n \in 0..(m + 1) |-> IF n = m + 1 THEN step(f[m], m + 1) ELSE f[n]]
  <2>2. ASSUME NEW n \in 0..(m + 1)
        PROVE  g[n] = IF n = 0 THEN Start ELSE step(g[n - 1], n)
    <3>1. CASE n = m + 1
      <4>1. n # 0 /\ n - 1 = m /\ m \in 0..(m + 1) /\ m # m + 1
        BY <3>1
      <4>2. g[m] = f[m] /\ g[n] = step(f[m], m + 1)
        BY <3>1, <4>1
      <4> QED BY <3>1, <4>1, <4>2
    <3>2. CASE n # m + 1
      <4>1. n \in 0..m
        BY <3>2
      <4>2. f[n] = IF n = 0 THEN Start ELSE step(f[n - 1], n)
        BY <2>1, <4>1
      <4>3. g[n] = f[n]
        BY <3>2
      <4>4. n # 0 => g[n - 1] = f[n - 1]
        BY <4>1
      <4> QED BY <4>2, <4>3, <4>4
    <3> QED BY <3>1, <3>2
  <2>3. g = F(g, m + 1)
    <3> g = [n \in 0..(m + 1) |-> g[n]]
      OBVIOUS
    <3> HIDE DEF g
    <3> QED BY <2>2
  <2> HIDE DEF F, g
  <2> QED BY <2>3
<1>3. PICK f : f = F(f, b)
  <2> HIDE DEF S
  <2>1. Nat \subseteq S
    BY <1>1, <1>2, InductionOnSets
  <2> QED BY <2>1 DEF S
<1> DEFINE c == CHOOSE h : h = F(h, b)
<1>4. c = F(c, b)
  <2> HIDE DEF F
  <2> QED BY <1>3
<1>5. Effected(p, effects) = c[b]
  BY DEF Effected
<1> HIDE DEF c
<1>6. \A n \in 0..b : c[n] = IF n = 0 THEN Start ELSE step(c[n - 1], n)
  BY <1>4
<1>7. c[0] = Start /\ \A n \in 1..b : c[n] = Follow(p, c[n - 1], effects[n])
  BY <1>6
<1> QED BY <1>5, <1>7

\* Effects are followed one by one: none,
LEMMA EffectedNone ==
    ASSUME NEW p
    PROVE  Effected(p, <<>>) = Start
<1>1. Len(<<>>) = 0
  OBVIOUS
<1> QED BY <1>1, EffectedChain

\* one,
LEMMA EffectedOne ==
    ASSUME NEW p, NEW a
    PROVE  Effected(p, <<a>>) = Follow(p, Start, a)
<1> DEFINE s == <<a>>
<1>1. Len(s) = 1 /\ s[1] = a
  OBVIOUS
<1> HIDE DEF s
<1>2. PICK after : /\ after[0] = Start
                   /\ \A n \in 1..Len(s) : after[n] = Follow(p, after[n - 1], s[n])
                   /\ Effected(p, s) = after[Len(s)]
  <2>1. Len(s) \in Nat
    BY <1>1
  <2> QED BY <2>1, EffectedChain, Zenon
<1>3. /\ after[1] = Follow(p, after[0], a)
  BY <1>1, <1>2
<1> QED BY <1>1, <1>2, <1>3 DEF s

\* two,
LEMMA EffectedTwo ==
    ASSUME NEW p, NEW a, NEW b
    PROVE  Effected(p, <<a, b>>) = Follow(p, Follow(p, Start, a), b)
<1> DEFINE s == <<a, b>>
<1>1. Len(s) = 2 /\ s[1] = a /\ s[2] = b
  OBVIOUS
<1> HIDE DEF s
<1>2. PICK after : /\ after[0] = Start
                   /\ \A n \in 1..Len(s) : after[n] = Follow(p, after[n - 1], s[n])
                   /\ Effected(p, s) = after[Len(s)]
  <2>1. Len(s) \in Nat
    BY <1>1
  <2> QED BY <2>1, EffectedChain, Zenon
<1>3. /\ after[1] = Follow(p, after[0], a)
      /\ after[2] = Follow(p, after[1], b)
  BY <1>1, <1>2
<1> QED BY <1>1, <1>2, <1>3 DEF s

\* and four, as of a table branch.
LEMMA EffectedFour ==
    ASSUME NEW p, NEW a, NEW b, NEW c, NEW d
    PROVE  Effected(p, <<a, b, c, d>>) = Follow(p, Follow(p, Follow(p, Follow(p, Start, a), b), c), d)
<1> DEFINE s == <<a, b, c, d>>
<1>1. Len(s) = 4 /\ s[1] = a /\ s[2] = b /\ s[3] = c /\ s[4] = d
  OBVIOUS
<1> HIDE DEF s
<1>2. PICK after : /\ after[0] = Start
                   /\ \A n \in 1..Len(s) : after[n] = Follow(p, after[n - 1], s[n])
                   /\ Effected(p, s) = after[Len(s)]
  <2>1. Len(s) \in Nat
    BY <1>1
  <2> QED BY <2>1, EffectedChain, Zenon
<1>3. /\ after[1] = Follow(p, after[0], a)
      /\ after[2] = Follow(p, after[1], b)
      /\ after[3] = Follow(p, after[2], c)
      /\ after[4] = Follow(p, after[3], d)
  BY <1>1, <1>2
<1> QED BY <1>1, <1>2, <1>3 DEF s

Gone(p, e, f)     == \E n \in Lost(p, e) : Op(p, n).kind = "reg" /\ Op(p, n).reg.fam = f
GoneCell(p, e, c) == \E n \in Lost(p, e) : Op(p, n).kind = "mem" /\ Op(p, n).cell = c

\* What the effects say is so once the instruction has been executed, but for what
\* was written and not named.
Truthful(p, e) ==
    /\ \A f \in Families : Gone(p, e, f) \/ e.know[f] \in {Unknown, Written(p).regs[f]}
    /\ \A c \in Places : GoneCell(p, e, c) \/ e.cells[c] \in {Unknown, Written(p).cells[c]}

KnowsAll(e) ==
    /\ \A f \in Families : e.know[f] # Unknown
    /\ \A c \in Places : e.cells[c] # Unknown

Complete(p, e) == Lost(p, e) = {} /\ KnowsAll(e)

\* Before the effects the client knows what it knew.
LEMMA StartFacts ==
    ASSUME TrackTypeOK, KnowledgeHolds
    PROVE  /\ Start.know = know /\ Start.cells = kcells /\ Start.named = {} /\ Start.copied = 0
           /\ Start.temps = [n \in 0..2 |-> Unknown] /\ Start.target = Unknown
           /\ \A f \in Families : know[f] \in {Unknown, regs[f]} /\ regs[f] \in Word
           /\ \A c \in Places : kcells[c] \in {Unknown, cells[c]} /\ cells[c] \in Word
           /\ DOMAIN regs = Families /\ DOMAIN cells = Places
           /\ DOMAIN know = Families /\ DOMAIN kcells = Places
  BY DEF Start, TrackTypeOK, KnowledgeHolds, Word

\* What an instruction writes: its destination and nothing else.
LEMMA WrittenFacts ==
    ASSUME TrackTypeOK, KnowledgeHolds, NEW p \in Forms
    PROVE  /\ p.dst = -1 => Written(p).regs = regs /\ Written(p).cells = cells
           /\ IsReg(p, p.dst) =>
                 /\ Written(p).cells = cells
                 /\ \A f \in Families : Written(p).regs[f] =
                       IF f = Op(p, p.dst).reg.fam THEN Merge(regs[f], Op(p, p.dst).reg, Result(p))
                       ELSE regs[f]
           /\ IsMem(p, p.dst) =>
                 /\ Written(p).regs = regs
                 /\ \A c \in Places : Written(p).cells[c] =
                       IF c = Op(p, p.dst).cell
                       THEN (cells[c] - Low(cells[c], Bits(p, p.dst))) + Result(p)
                       ELSE cells[c]
<1> DEFINE o == Op(p, p.dst)
<1>1. HasDst(p) => p.dst >= 0 /\ ~(p.dst < 0) /\ OperandOK(o)
  BY ProperForm DEF HasDst, IsReg, IsMem, Indices
<1>2. p.dst = -1 => Written(p).regs = regs /\ Written(p).cells = cells
  BY DEF Written
<1>3. ASSUME IsReg(p, p.dst)
      PROVE  /\ Written(p).cells = cells
             /\ Written(p).regs = [regs EXCEPT ![o.reg.fam] = Merge(@, o.reg, Result(p))]
  BY <1>1, <1>3 DEF Written, HasDst, IsReg
<1>4. ASSUME IsMem(p, p.dst)
      PROVE  /\ Written(p).regs = regs
             /\ Written(p).cells
                  = [cells EXCEPT ![o.cell] = (@ - Low(@, Bits(p, p.dst))) + Result(p)]
  BY <1>1, <1>4 DEF Written, HasDst, IsMem
<1>5. DOMAIN regs = Families /\ DOMAIN cells = Places
  BY StartFacts
<1> HIDE DEF o
<1>6. ASSUME IsReg(p, p.dst), NEW f \in Families
      PROVE  Written(p).regs[f] = IF f = o.reg.fam THEN Merge(regs[f], o.reg, Result(p)) ELSE regs[f]
  BY <1>3, <1>5, <1>6
<1>7. ASSUME IsMem(p, p.dst), NEW c \in Places
      PROVE  Written(p).cells[c] = IF c = o.cell THEN (cells[c] - Low(cells[c], Bits(p, p.dst))) + Result(p)
                                   ELSE cells[c]
  BY <1>4, <1>5, <1>7
<1> QED BY <1>2, <1>3, <1>4, <1>6, <1>7 DEF o

Env(e) ==
    /\ e.know \in [Families -> Believable] /\ e.cells \in [Places -> Believable]
    /\ e = [know |-> e.know, cells |-> e.cells, temps |-> e.temps, target |-> e.target,
            copied |-> e.copied, named |-> e.named]

\* e2 is e with the value of an operand learned.
Learned(p, e, n, v, e2) ==
    /\ e2.named = e.named \cup {n}
    /\ IsReg(p, n) =>
          /\ e2.cells = e.cells
          /\ \A f \in Families : e2.know[f] =
                IF f = Op(p, n).reg.fam THEN MergeIf(e.know[f], Op(p, n).reg, v)
                ELSE e.know[f]
    /\ IsMem(p, n) =>
          /\ e2.know = e.know
          /\ \A c \in Places : e2.cells[c] =
                IF c = Op(p, n).cell
                THEN IF v = Unknown \/ Op(p, n).width = 0 \/ e.cells[c] = Unknown THEN Unknown
                     ELSE (e.cells[c] - Low(e.cells[c], BitsOf[Op(p, n).width]))
                             + Low(v, BitsOf[Op(p, n).width])
                ELSE e.cells[c]

\* What is learned of an operand: its value as the processor would merge it.
LEMMA LearnFacts ==
    ASSUME NEW p \in Forms, NEW n \in Indices(p.inst), NEW v, NEW e, Env(e),
           IsReg(p, n) \/ IsMem(p, n)
    PROVE  /\ Learned(p, e, n, v, Learn(p, e, Operand(p.inst, n), v))
           /\ Learn(p, e, Operand(p.inst, n), v).copied = e.copied
           /\ Learn(p, e, Operand(p.inst, n), v).temps = e.temps
<1> DEFINE r == Operand(p.inst, n)
<1>0. PICK e2 : e2 = Learn(p, e, r, v)
  OBVIOUS
<1>1. /\ r.kind = "operand" /\ r.index = n /\ r.width = Op(p, n).width
      /\ IsReg(p, n) => r.reg = Op(p, n).reg
  BY OperandIs
<1> HIDE DEF r
<1>2. ASSUME IsReg(p, n)
      PROVE  e2 = [e EXCEPT !.know[Op(p, n).reg.fam] = MergeIf(@, Op(p, n).reg, v),
                            !.named = @ \cup {n}]
  BY <1>0, <1>1, <1>2 DEF Learn, IsReg, r
<1>3. ASSUME IsMem(p, n)
      PROVE  e2 = [e EXCEPT !.cells[Op(p, n).cell] =
                        IF v = Unknown \/ Op(p, n).width = 0 \/ @ = Unknown THEN Unknown
                        ELSE (@ - Low(@, BitsOf[Op(p, n).width])) + Low(v, BitsOf[Op(p, n).width]),
                            !.named = @ \cup {n}]
  BY <1>0, <1>1, <1>3 DEF Learn, IsMem, r
<1> DEFINE K == e.know
           C == e.cells
<1>4. PICK T, G, P, N : e = [know |-> K, cells |-> C, temps |-> T, target |-> G,
                             copied |-> P, named |-> N]
  BY DEF Env
<1>5. ASSUME IsReg(p, n)
      PROVE  /\ e2.named = e.named \cup {n} /\ e2.copied = e.copied /\ e2.temps = e.temps /\ e2.cells = e.cells
             /\ e2.know = [K EXCEPT ![Op(p, n).reg.fam] = MergeIf(@, Op(p, n).reg, v)]
  BY <1>2, <1>4, <1>5
<1>6. ASSUME IsMem(p, n)
      PROVE  /\ e2.named = e.named \cup {n} /\ e2.copied = e.copied /\ e2.temps = e.temps /\ e2.know = e.know
             /\ e2.cells = [C EXCEPT ![Op(p, n).cell] =
                        IF v = Unknown \/ Op(p, n).width = 0 \/ @ = Unknown THEN Unknown
                        ELSE (@ - Low(@, BitsOf[Op(p, n).width])) + Low(v, BitsOf[Op(p, n).width])]
  BY <1>3, <1>4, <1>6
<1>7. K \in [Families -> Believable] /\ C \in [Places -> Believable]
  BY DEF Env
<1> HIDE DEF K, C
<1>8. ASSUME IsReg(p, n), NEW f \in Families
      PROVE  e2.know[f] = IF f = Op(p, n).reg.fam THEN MergeIf(K[f], Op(p, n).reg, v) ELSE K[f]
  BY <1>5, <1>7, <1>8
<1>9. ASSUME IsMem(p, n), NEW c \in Places
      PROVE  e2.cells[c] =
                IF c = Op(p, n).cell
                THEN IF v = Unknown \/ Op(p, n).width = 0 \/ C[c] = Unknown THEN Unknown
                     ELSE (C[c] - Low(C[c], BitsOf[Op(p, n).width])) + Low(v, BitsOf[Op(p, n).width])
                ELSE C[c]
  BY <1>6, <1>7, <1>9
<1>10. Learned(p, e, n, v, e2) /\ e2.copied = e.copied /\ e2.temps = e.temps
  BY <1>5, <1>6, <1>8, <1>9 DEF K, C, Learned
<1> QED BY <1>0, <1>10 DEF r

\* The client's knowledge at the start is well formed.
LEMMA StartIsEnv ==
    ASSUME TrackTypeOK, KnowledgeHolds
    PROVE  Env(Start)
  BY DEF Start, TrackTypeOK, Believable, Word, Env

\* A value is never the absence of one.
LEMMA WordIsKnown == Word \subseteq Int /\ Unknown \notin Word
<1>1. Top \in Nat
  <2> 64 \in DOMAIN BitsOf
    BY BitsAssumption
  <2> QED BY WidthBits
<1> QED BY <1>1, UnknownAssumption DEF Word

\* Nothing is lost when the destination has been named.
LEMMA NothingLost ==
    ASSUME NEW p \in Forms, Writes(p, p.dst), NEW e, p.dst \in e.named
    PROVE  Lost(p, e) = {}
  BY DEF Lost, Writes

\* An effect on the operand that is written, with the value that is written.
LEMMA OneEffect ==
    ASSUME TrackTypeOK, KnowledgeHolds, NEW p \in Forms, HasDst(p), Writes(p, p.dst), NEW v,
           IsReg(p, p.dst) => v \in {Unknown, Result(p)},
           IsMem(p, p.dst) /\ Op(p, p.dst).width # 0 /\ v # Unknown
             => v \in Int /\ Low(v, BitsOf[Op(p, p.dst).width]) = Result(p),
           NEW L, L = Learn(p, Start, Operand(p.inst, p.dst), v),
           NEW e, e.know = L.know, e.cells = L.cells, e.named = L.named
    PROVE  /\ Truthful(p, e)
           /\ KnowsAll(Start) /\ v # Unknown /\ (IsMem(p, p.dst) => Op(p, p.dst).width # 0)
                => Complete(p, e)
<1> DEFINE o == Op(p, p.dst)
<1>1. p.dst \in Indices(p.inst) /\ OperandOK(o)
  BY ProperForm DEF HasDst, IsReg, IsMem
<1>2. Result(p) \in 0..(2 ^ Bits(p, p.dst) - 1)
  BY ResultRange
<1>3. /\ L.named = Start.named \cup {p.dst}
      /\ IsReg(p, p.dst) =>
            /\ L.cells = Start.cells
            /\ \A f \in Families : L.know[f] =
                  IF f = o.reg.fam THEN MergeIf(Start.know[f], o.reg, v) ELSE Start.know[f]
      /\ IsMem(p, p.dst) =>
            /\ L.know = Start.know
            /\ \A c \in Places : L.cells[c] =
                  IF c = o.cell
                  THEN IF v = Unknown \/ o.width = 0 \/ Start.cells[c] = Unknown THEN Unknown
                       ELSE (Start.cells[c] - Low(Start.cells[c], BitsOf[o.width]))
                               + Low(v, BitsOf[o.width])
                  ELSE Start.cells[c]
  <2>1. Learned(p, Start, p.dst, v, L)
    BY <1>1, StartIsEnv, LearnFacts DEF HasDst
  <2> QED BY <2>1 DEF Learned
<1>4. Lost(p, e) = {}
  BY <1>3, NothingLost
<1>5. /\ Start.know = know /\ Start.cells = kcells
      /\ \A f \in Families : know[f] \in {Unknown, regs[f]} /\ regs[f] \in Word
      /\ \A c \in Places : kcells[c] \in {Unknown, cells[c]} /\ cells[c] \in Word
  BY StartFacts
<1>6. Word \subseteq Int /\ Unknown \notin Word
  BY WordIsKnown
<1> HIDE DEF o
<1>7. CASE IsReg(p, p.dst)
  <2>1. o.kind = "reg" /\ o.reg.width \in DOMAIN BitsOf /\ o.width = o.reg.width
        /\ o.reg.width # 0 /\ Bits(p, p.dst) = BitsOf[o.reg.width]
    BY <1>1, <1>7, BitsAssumption DEF IsReg, OperandOK, Bits, o
  <2>2. \A f \in Families : Merge(regs[f], o.reg, Result(p)) \in Word
    BY <1>2, <1>5, <2>1, MergeFacts
  <2>3. \A f \in Families : Written(p).regs[f] =
            IF f = o.reg.fam THEN Merge(regs[f], o.reg, Result(p)) ELSE regs[f]
    BY <1>7, WrittenFacts DEF o
  <2>4. Written(p).cells = cells
    BY <1>7, WrittenFacts
  <2>5. ASSUME NEW f \in Families
        PROVE  /\ e.know[f] \in {Unknown, Written(p).regs[f]}
               /\ know[f] # Unknown /\ v # Unknown => e.know[f] # Unknown
    <3>1. e.know[f] = IF f = o.reg.fam THEN MergeIf(know[f], o.reg, v) ELSE know[f]
      BY <1>3, <1>5, <1>7
    <3>2. MergeIf(know[f], o.reg, v) \in {Unknown, Merge(know[f], o.reg, v)}
          /\ (know[f] = Unknown => MergeIf(know[f], o.reg, v) \in {Unknown, Merge(regs[f], o.reg, v)})
      <4>1. CASE know[f] = Unknown /\ v # Unknown /\ ~(o.reg.width < 32)
        <5>1. o.reg.width >= 32
          BY <2>1, <4>1, BitsAssumption
        <5>2. Merge(know[f], o.reg, v) = Merge(regs[f], o.reg, v)
          BY <5>1 DEF Merge
        <5> QED BY <5>2 DEF MergeIf
      <4>2. CASE ~(know[f] = Unknown /\ v # Unknown /\ ~(o.reg.width < 32))
        BY <4>2 DEF MergeIf
      <4> QED BY <4>1, <4>2
    <3>3. know[f] # Unknown /\ v # Unknown => MergeIf(know[f], o.reg, v) = Merge(know[f], o.reg, v)
      BY DEF MergeIf
    <3>4. v \in {Unknown, Result(p)} /\ (v = Unknown => MergeIf(know[f], o.reg, v) = Unknown)
      BY <1>7 DEF MergeIf
    <3>5. know[f] \in {Unknown, regs[f]} /\ Merge(regs[f], o.reg, Result(p)) \in Word
      BY <1>5, <2>2
    <3>6. MergeIf(know[f], o.reg, v) \in {Unknown, Merge(regs[f], o.reg, Result(p))}
      BY <3>2, <3>4, <3>5
    <3>7. know[f] # Unknown /\ v # Unknown
            => MergeIf(know[f], o.reg, v) = Merge(regs[f], o.reg, Result(p))
      BY <3>3, <3>4, <3>5
    <3> QED BY <1>6, <2>3, <3>1, <3>5, <3>6, <3>7
  <2>6. \A c \in Places : e.cells[c] = kcells[c]
    BY <1>3, <1>5, <1>7
  <2> QED BY <1>4, <1>5, <2>4, <2>5, <2>6 DEF Truthful, Complete, KnowsAll
<1>8. CASE IsMem(p, p.dst)
  <2>1. o.kind = "mem" /\ (o.width # 0 => Bits(p, p.dst) = BitsOf[o.width]
                                          /\ BitsOf[o.width] \in Nat)
    BY <1>1, <1>8, WidthBits DEF IsMem, OperandOK, Bits, o
  <2>2. Written(p).regs = regs
        /\ \A c \in Places : Written(p).cells[c] =
              IF c = o.cell THEN (cells[c] - Low(cells[c], Bits(p, p.dst))) + Result(p)
              ELSE cells[c]
    BY <1>8, WrittenFacts DEF o
  <2>3. ASSUME NEW c \in Places
        PROVE  /\ e.cells[c] \in {Unknown, Written(p).cells[c]}
               /\ kcells[c] # Unknown /\ v # Unknown /\ o.width # 0 => e.cells[c] # Unknown
    <3>1. e.cells[c] =
              IF c = o.cell
              THEN IF v = Unknown \/ o.width = 0 \/ kcells[c] = Unknown THEN Unknown
                   ELSE (kcells[c] - Low(kcells[c], BitsOf[o.width])) + Low(v, BitsOf[o.width])
              ELSE kcells[c]
      BY <1>3, <1>5, <1>8
    <3>2. kcells[c] \in {Unknown, cells[c]} /\ cells[c] \in Int
      BY <1>5, <1>6
    <3>3. o.width # 0 /\ v # Unknown => Low(v, BitsOf[o.width]) = Result(p) /\ Result(p) \in Int
      <4>1. 2 ^ Bits(p, p.dst) \in Nat /\ Bits(p, p.dst) \in Nat
        <5>1. PICK w \in DOMAIN BitsOf : Bits(p, p.dst) = BitsOf[w]
          BY ResultRange
        <5> QED BY <5>1, WidthBits
      <4>2. Result(p) \in Int
        BY <1>2, <4>1
      <4> QED BY <1>8, <4>2 DEF o
    <3>4. o.width # 0 => (cells[c] - Low(cells[c], BitsOf[o.width])) \in Int
      <4> SUFFICES ASSUME o.width # 0
                   PROVE  (cells[c] - Low(cells[c], BitsOf[o.width])) \in Int
        OBVIOUS
      <4>1. BitsOf[o.width] \in Nat /\ 2 ^ BitsOf[o.width] \in Nat
        BY <2>1, DoublePower
      <4>2. Low(cells[c], BitsOf[o.width]) \in 0..(2 ^ BitsOf[o.width] - 1)
        BY <3>2, <4>1, LowRange
      <4> QED BY <3>2, <4>1, <4>2
    <3>5. Unknown \notin Int
      BY UnknownAssumption
    <3> QED BY <2>1, <2>2, <3>1, <3>2, <3>3, <3>4, <3>5
  <2>4. \A f \in Families : e.know[f] = know[f]
    BY <1>3, <1>5, <1>8
  <2> QED BY <1>4, <1>5, <1>8, <2>2, <2>3, <2>4 DEF Truthful, Complete, KnowsAll, o
<1> QED BY <1>7, <1>8 DEF HasDst

-----------------------------------------------------------------------------
(***************************************************************************)
(* The effects, kind by kind.                                              *)
(***************************************************************************)
WidthOf(p, n) == IF Op(p, n).width = 0 THEN 0 ELSE BitsOf[Op(p, n).width]

\* An effect without destination or source teaches nothing;
LEMMA FollowNothing ==
    ASSUME NEW p, NEW e, NEW f, f.dst.kind = "none" \/ f.srcs = <<>>
    PROVE  Follow(p, e, f) = e
  BY DEF Follow

\* one with both teaches the value it gives.
LEMMA FollowSomething ==
    ASSUME NEW p, NEW e, NEW f, f.dst.kind # "none", f.srcs # <<>>
    PROVE  Follow(p, e, f) =
              IF f.kind \in {"LOAD", "COPY"}
              THEN [Learn(p, e, f.dst, Given(p, e, f)) EXCEPT !.copied = f.srcs[1].width]
              ELSE Learn(p, e, f.dst, Given(p, e, f))
  BY DEF Follow

\* The value of an effect with one source, or with two.
LEMMA GivenOne ==
    ASSUME NEW p, NEW e, NEW kind, NEW dst, NEW src
    PROVE  LET f == Effect(kind, dst, <<src>>)
               v == Seen(p, e, src)
           IN  /\ f.kind = kind /\ f.dst = dst /\ f.srcs # <<>> /\ f.srcs[1] = src
               /\ kind = "LOAD"  => Given(p, e, f) = LowTo(Loaded(p, e, f), BitsSet(f))
               /\ kind = "STORE" => Given(p, e, f) = v
               /\ kind = "COPY"  => Given(p, e, f) = LowTo(v, BitsSet(f))
               /\ kind = "ADDRESS" =>
                     Given(p, e, f) = IF src.kind = "immediate" THEN Low(v, BitsSet(f)) ELSE Unknown
               /\ kind \in {"SIGN_EXTEND", "ZERO_EXTEND"} =>
                     Given(p, e, f) =
                        IF v = Unknown THEN Unknown ELSE IF src.kind = "temporary" THEN v
                        ELSE Extended(v, BitsOf[e.copied], BitsSet(f), kind = "SIGN_EXTEND")
<1> DEFINE f == Effect(kind, dst, <<src>>)
           v == Seen(p, e, src)
           vs == [n \in 1..Len(f.srcs) |-> Seen(p, e, f.srcs[n])]
<1>1. f.kind = kind /\ f.dst = dst /\ f.srcs = <<src>>
  BY DEF Effect
<1> HIDE DEF f
<1>2. f.srcs # <<>> /\ f.srcs[1] = src /\ Len(f.srcs) = 1
  BY <1>1
<1>3. vs[1] = v /\ Len(vs) = 1
  BY <1>2
<1>4. Known(vs) <=> v # Unknown
  <2> HIDE DEF vs, v
  <2> QED BY <1>3 DEF Known
<1>5. Given(p, e, f) =
        CASE f.kind = "LOAD"  -> LowTo(Loaded(p, e, f), BitsSet(f))
          [] f.kind = "STORE" -> vs[1]
          [] f.kind = "COPY"  -> LowTo(vs[1], BitsSet(f))
          [] f.kind = "ADDRESS" ->
                (IF f.srcs[1].kind = "immediate" THEN Low(vs[1], BitsSet(f)) ELSE Unknown)
          [] f.kind \in {"SIGN_EXTEND", "ZERO_EXTEND"} ->
                (IF ~Known(vs) THEN Unknown
                 ELSE IF f.srcs[1].kind = "temporary" THEN vs[1]
                 ELSE Extended(vs[1], BitsOf[e.copied], BitsSet(f), f.kind = "SIGN_EXTEND"))
          [] f.kind \in Operations ->
                (IF Known(vs) THEN Compute(f.kind, vs[1], vs[2], BitsSet(f)) ELSE Unknown)
  BY DEF Given
<1>6. vs[1] = v
  BY <1>3
<1> HIDE DEF vs, v
<1>7. kind \in {"SIGN_EXTEND", "ZERO_EXTEND"} => kind \notin Operations
  BY DEF Operations
<1>8. kind = "LOAD"  => Given(p, e, f) = LowTo(Loaded(p, e, f), BitsSet(f))
  BY <1>1, <1>5 DEF Operations
<1>9. kind = "STORE" => Given(p, e, f) = v
  BY <1>1, <1>5, <1>6 DEF Operations
<1>10. kind = "COPY"  => Given(p, e, f) = LowTo(v, BitsSet(f))
  BY <1>1, <1>5, <1>6 DEF Operations
<1>11. kind = "ADDRESS" => Given(p, e, f) = IF src.kind = "immediate" THEN Low(v, BitsSet(f)) ELSE Unknown
  BY <1>1, <1>2, <1>5, <1>6 DEF Operations
<1>12. kind \in {"SIGN_EXTEND", "ZERO_EXTEND"} =>
         Given(p, e, f) =
            IF v = Unknown THEN Unknown ELSE IF src.kind = "temporary" THEN v
            ELSE Extended(v, BitsOf[e.copied], BitsSet(f), kind = "SIGN_EXTEND")
  BY <1>1, <1>2, <1>4, <1>5, <1>6, <1>7
<1> QED BY <1>1, <1>2, <1>8, <1>9, <1>10, <1>11, <1>12 DEF f, v

\* The value of an operation on two references.
LEMMA GivenTwo ==
    ASSUME NEW p, NEW e, NEW kind \in Operations, NEW dst, NEW r1, NEW r2
    PROVE  LET f == Effect(kind, dst, <<r1, r2>>)
           IN  /\ f.kind = kind /\ f.dst = dst /\ f.srcs # <<>> /\ kind \notin {"LOAD", "COPY"}
               /\ Given(p, e, f) =
                    IF Seen(p, e, r1) = Unknown \/ Seen(p, e, r2) = Unknown THEN Unknown
                    ELSE Compute(kind, Seen(p, e, r1), Seen(p, e, r2), BitsSet(f))
<1> DEFINE f == Effect(kind, dst, <<r1, r2>>)
           v1 == Seen(p, e, r1)
           v2 == Seen(p, e, r2)
           vs == [n \in 1..Len(f.srcs) |-> Seen(p, e, f.srcs[n])]
<1>1. f.kind = kind /\ f.dst = dst /\ f.srcs = <<r1, r2>>
  BY DEF Effect
<1> HIDE DEF f
<1>2. f.srcs # <<>> /\ f.srcs[1] = r1 /\ f.srcs[2] = r2 /\ Len(f.srcs) = 2
  BY <1>1
<1>3. vs[1] = v1 /\ vs[2] = v2 /\ Len(vs) = 2
  BY <1>2
<1>4. Known(vs) <=> v1 # Unknown /\ v2 # Unknown
  <2> HIDE DEF vs, v1, v2
  <2> QED BY <1>3 DEF Known
<1>5. kind \notin {"LOAD", "STORE", "COPY", "ADDRESS", "SIGN_EXTEND", "ZERO_EXTEND"}
  BY DEF Operations
<1>6. Given(p, e, f) =
        CASE f.kind = "LOAD"  -> LowTo(Loaded(p, e, f), BitsSet(f))
          [] f.kind = "STORE" -> vs[1]
          [] f.kind = "COPY"  -> LowTo(vs[1], BitsSet(f))
          [] f.kind = "ADDRESS" ->
                (IF f.srcs[1].kind = "immediate" THEN Low(vs[1], BitsSet(f)) ELSE Unknown)
          [] f.kind \in {"SIGN_EXTEND", "ZERO_EXTEND"} ->
                (IF ~Known(vs) THEN Unknown
                 ELSE IF f.srcs[1].kind = "temporary" THEN vs[1]
                 ELSE Extended(vs[1], BitsOf[e.copied], BitsSet(f), f.kind = "SIGN_EXTEND"))
          [] f.kind \in Operations ->
                (IF Known(vs) THEN Compute(f.kind, vs[1], vs[2], BitsSet(f)) ELSE Unknown)
  BY DEF Given
<1> HIDE DEF vs, v1, v2
<1>7. Given(p, e, f) = IF Known(vs) THEN Compute(kind, vs[1], vs[2], BitsSet(f)) ELSE Unknown
  BY <1>1, <1>5, <1>6
<1>8. Given(p, e, f) = IF v1 = Unknown \/ v2 = Unknown THEN Unknown
                       ELSE Compute(kind, v1, v2, BitsSet(f))
  BY <1>3, <1>4, <1>7
<1> QED BY <1>1, <1>2, <1>5, <1>8 DEF f, v1, v2

CopyNoted(e, w) == [e EXCEPT !.copied = w]

\* What the effects say of an operand.
LEMMA FollowOperand ==
    ASSUME NEW p \in Forms, NEW e, NEW d \in Indices(p.inst), NEW f, f.dst = Operand(p.inst, d),
           f.srcs # <<>>
    PROVE  /\ BitsSet(f) = WidthOf(p, d)
           /\ f.kind \notin {"LOAD", "COPY"}
                => Follow(p, e, f) = Learn(p, e, Operand(p.inst, d), Given(p, e, f))
           /\ f.kind \in {"LOAD", "COPY"}
                => Follow(p, e, f) = CopyNoted(Learn(p, e, Operand(p.inst, d), Given(p, e, f)), f.srcs[1].width)
           /\ f.kind = "LOAD" => Loaded(p, e, f) = Seen(p, e, f.srcs[1])
<1>1. f.dst.kind = "operand" /\ f.dst.width = Op(p, d).width
  BY OperandIs
<1> QED BY <1>1, FollowSomething DEF BitsSet, WidthOf, Loaded, CopyNoted

\* A copy or a load teaches the low bits of its source.
LEMMA FollowMove ==
    ASSUME NEW p \in Forms, NEW e, NEW d \in Indices(p.inst), NEW s \in Indices(p.inst),
           NEW kind \in {"COPY", "LOAD"}
    PROVE  Follow(p, e, Effect(kind, Operand(p.inst, d), <<Operand(p.inst, s)>>))
             = CopyNoted(Learn(p, e, Operand(p.inst, d),
                      LowTo(Seen(p, e, Operand(p.inst, s)), WidthOf(p, d))), Op(p, s).width)
<1> DEFINE dst == Operand(p.inst, d)
           src == Operand(p.inst, s)
<1>1. PICK f : f = Effect(kind, dst, <<src>>)
  OBVIOUS
<1>2. src.width = Op(p, s).width
  BY OperandIs
<1> HIDE DEF dst, src
<1>3. /\ f.kind = kind /\ f.dst = dst /\ f.srcs # <<>> /\ f.srcs[1] = src
      /\ kind = "LOAD"  => Given(p, e, f) = LowTo(Loaded(p, e, f), BitsSet(f))
      /\ kind = "COPY"  => Given(p, e, f) = LowTo(Seen(p, e, src), BitsSet(f))
  BY <1>1, GivenOne
<1>4. /\ BitsSet(f) = WidthOf(p, d)
      /\ Follow(p, e, f) = CopyNoted(Learn(p, e, dst, Given(p, e, f)), f.srcs[1].width)
      /\ kind = "LOAD" => Loaded(p, e, f) = Seen(p, e, f.srcs[1])
  <2>1. f.dst = Operand(p.inst, d) /\ f.srcs # <<>> /\ f.kind \in {"LOAD", "COPY"}
        /\ (kind = "LOAD" => f.kind = "LOAD")
    BY <1>3 DEF dst
  <2>2. /\ BitsSet(f) = WidthOf(p, d)
        /\ f.kind \in {"LOAD", "COPY"}
                => Follow(p, e, f) = CopyNoted(Learn(p, e, Operand(p.inst, d), Given(p, e, f)), f.srcs[1].width)
        /\ f.kind = "LOAD" => Loaded(p, e, f) = Seen(p, e, f.srcs[1])
    BY <2>1, FollowOperand, Zenon
  <2> QED BY <2>1, <2>2, Zenon DEF dst
<1>5. Given(p, e, f) = LowTo(Seen(p, e, src), WidthOf(p, d))
  BY <1>3, <1>4
<1>6. Follow(p, e, f) = CopyNoted(Learn(p, e, dst, LowTo(Seen(p, e, src), WidthOf(p, d))), Op(p, s).width)
  BY <1>2, <1>3, <1>4, <1>5
<1> QED BY <1>1, <1>6 DEF dst, src

\* A store or an extension teaches the value it gives.
LEMMA FollowOne ==
    ASSUME NEW p \in Forms, NEW e, NEW d \in Indices(p.inst), NEW src, NEW v,
           NEW kind \in {"STORE", "SIGN_EXTEND", "ZERO_EXTEND"},
           kind = "STORE" => v = Seen(p, e, src),
           kind \in {"SIGN_EXTEND", "ZERO_EXTEND"} =>
              /\ src.kind = "operand"
              /\ Seen(p, e, src) = Unknown => v = Unknown
              /\ Seen(p, e, src) # Unknown =>
                    v = Extended(Seen(p, e, src), BitsOf[e.copied], WidthOf(p, d), kind = "SIGN_EXTEND")
    PROVE  Follow(p, e, Effect(kind, Operand(p.inst, d), <<src>>)) = Learn(p, e, Operand(p.inst, d), v)
<1>1. PICK f : f = Effect(kind, Operand(p.inst, d), <<src>>)
  OBVIOUS
<1>2. /\ f.kind = kind /\ f.dst = Operand(p.inst, d) /\ f.srcs # <<>> /\ f.srcs[1] = src
      /\ kind = "STORE" => Given(p, e, f) = Seen(p, e, src)
      /\ kind \in {"SIGN_EXTEND", "ZERO_EXTEND"} =>
            Given(p, e, f) =
               IF Seen(p, e, src) = Unknown THEN Unknown ELSE IF src.kind = "temporary" THEN Seen(p, e, src)
               ELSE Extended(Seen(p, e, src), BitsOf[e.copied], BitsSet(f), kind = "SIGN_EXTEND")
  BY <1>1, GivenOne
<1>3. f.kind \notin {"LOAD", "COPY"}
  BY <1>2
<1>4. /\ BitsSet(f) = WidthOf(p, d)
      /\ f.kind \notin {"LOAD", "COPY"}
            => Follow(p, e, f) = Learn(p, e, Operand(p.inst, d), Given(p, e, f))
  BY <1>2, FollowOperand, Zenon
<1>5. Given(p, e, f) = v
  <2>1. CASE kind = "STORE"
    BY <1>2, <2>1
  <2>2. CASE kind \in {"SIGN_EXTEND", "ZERO_EXTEND"}
    <3>1. src.kind # "temporary"
      BY <2>2
    <3>2. CASE Seen(p, e, src) = Unknown
      BY <1>2, <2>2, <3>2
    <3>3. CASE Seen(p, e, src) # Unknown
      BY <1>2, <1>4, <2>2, <3>1, <3>3
    <3> QED BY <3>2, <3>3
  <2> QED BY <2>1, <2>2
<1> QED BY <1>1, <1>3, <1>4, <1>5, Zenon

\* An address is known when it is given as an immediate.
LEMMA FollowAddress ==
    ASSUME NEW p \in Forms, NEW e, NEW d \in Indices(p.inst), NEW src, NEW v,
           src.kind = "immediate" => v = Low(Seen(p, e, src), WidthOf(p, d)),
           src.kind # "immediate" => v = Unknown
    PROVE  Follow(p, e, Effect("ADDRESS", Operand(p.inst, d), <<src>>)) = Learn(p, e, Operand(p.inst, d), v)
<1>1. PICK f : f = Effect("ADDRESS", Operand(p.inst, d), <<src>>)
  OBVIOUS
<1>2. /\ f.kind = "ADDRESS" /\ f.dst = Operand(p.inst, d) /\ f.srcs # <<>>
      /\ Given(p, e, f) = IF src.kind = "immediate" THEN Low(Seen(p, e, src), BitsSet(f)) ELSE Unknown
  BY <1>1, GivenOne
<1>3. f.kind \notin {"LOAD", "COPY"}
  BY <1>2
<1>4. /\ BitsSet(f) = WidthOf(p, d)
      /\ f.kind \notin {"LOAD", "COPY"}
            => Follow(p, e, f) = Learn(p, e, Operand(p.inst, d), Given(p, e, f))
  BY <1>2, FollowOperand, Zenon
<1>5. Given(p, e, f) = v
  BY <1>2, <1>4
<1> QED BY <1>1, <1>3, <1>4, <1>5, Zenon

\* An operation teaches its result.
LEMMA FollowTwo ==
    ASSUME NEW p \in Forms, NEW e, NEW d \in Indices(p.inst), NEW r1, NEW r2,
           NEW kind \in Operations
    PROVE  Follow(p, e, Effect(kind, Operand(p.inst, d), <<r1, r2>>))
             = Learn(p, e, Operand(p.inst, d),
                     IF Seen(p, e, r1) = Unknown \/ Seen(p, e, r2) = Unknown THEN Unknown
                     ELSE Compute(kind, Seen(p, e, r1), Seen(p, e, r2), WidthOf(p, d)))
<1> DEFINE dst == Operand(p.inst, d)
<1>1. PICK f : f = Effect(kind, dst, <<r1, r2>>)
  OBVIOUS
<1> HIDE DEF dst
<1>2. /\ f.kind = kind /\ f.dst = dst /\ f.srcs # <<>> /\ kind \notin {"LOAD", "COPY"}
      /\ Given(p, e, f) =
            IF Seen(p, e, r1) = Unknown \/ Seen(p, e, r2) = Unknown THEN Unknown
            ELSE Compute(kind, Seen(p, e, r1), Seen(p, e, r2), BitsSet(f))
  BY <1>1, GivenTwo
<1>3. BitsSet(f) = WidthOf(p, d) /\ Follow(p, e, f) = Learn(p, e, dst, Given(p, e, f))
  BY <1>2, FollowOperand DEF dst
<1> QED BY <1>1, <1>2, <1>3 DEF dst

-----------------------------------------------------------------------------
(***************************************************************************)
(* The flags of a comparison, and what the conditions make of them.        *)
(***************************************************************************)

\* Half of the values of some bits are negative.
LEMMA HalfPower ==
    ASSUME NEW b \in Nat \ {0}
    PROVE  /\ 2 ^ (b - 1) \in Nat \ {0} /\ 2 ^ b \in Nat \ {0}
           /\ 2 ^ b = 2 ^ (b - 1) + 2 ^ (b - 1)
<1>1. b - 1 \in Nat /\ (b - 1) + 1 = b
  OBVIOUS
<1>2. 2 ^ (b - 1) \in Nat \ {0} /\ 2 ^ ((b - 1) + 1) = 2 * 2 ^ (b - 1)
  BY <1>1, DoublePower
<1>3. PICK h : h = 2 ^ (b - 1)
  OBVIOUS
<1>4. 2 ^ b = 2 * h /\ h \in Nat \ {0}
  BY <1>1, <1>2, <1>3
<1> QED BY <1>3, <1>4

\* The signed reading of a value.
LEMMA SignedFacts ==
    ASSUME NEW b \in Nat \ {0}, NEW x \in 0..(2 ^ b - 1), NEW H, H = 2 ^ (b - 1)
    PROVE  /\ H \in Nat \ {0} /\ 2 ^ b = H + H /\ x \in Nat /\ x < H + H
           /\ Signed(x, b) = IF x >= H THEN x - (H + H) ELSE x
           /\ Signed(x, b) \in Int /\ -H <= Signed(x, b) /\ Signed(x, b) < H
<1>1. H \in Nat \ {0} /\ 2 ^ b = H + H
  BY HalfPower
<1>2. x \in Nat /\ x < H + H
  BY <1>1
<1>3. Signed(x, b) = IF x >= H THEN x - (H + H) ELSE x
  BY <1>1 DEF Signed, Neg
<1> QED BY <1>1, <1>2, <1>3

\* Whether the signed values are equal or in order can be read off the flags.
LEMMA SignedOrder ==
    ASSUME NEW b \in Nat \ {0}, NEW x \in 0..(2 ^ b - 1), NEW y \in 0..(2 ^ b - 1), NEW arch,
           NEW f, f = FlagsOfDifference(arch, x, y, b)
    PROVE  /\ f.z <=> x = y
           /\ x = y <=> Signed(x, b) = Signed(y, b)
           /\ f.n # f.v <=> Signed(x, b) < Signed(y, b)
           /\ Signed(x, b) \in Int /\ Signed(y, b) \in Int
           /\ f.z \in BOOLEAN /\ f.n \in BOOLEAN /\ f.c \in BOOLEAN /\ f.v \in BOOLEAN
           /\ (arch = "x86" => f.c = (x < y)) /\ (arch # "x86" => f.c = (x >= y))
<1>1. PICK H : H = 2 ^ (b - 1)
  OBVIOUS
<1>2. PICK sx, sy : sx = Signed(x, b) /\ sy = Signed(y, b)
  OBVIOUS
<1>3. /\ H \in Nat \ {0} /\ 2 ^ b = H + H /\ x \in Nat /\ x < H + H
      /\ sx = (IF x >= H THEN x - (H + H) ELSE x) /\ sx \in Int /\ -H <= sx /\ sx < H
  BY <1>1, <1>2, SignedFacts
<1>4. /\ y \in Nat /\ y < H + H
      /\ sy = (IF y >= H THEN y - (H + H) ELSE y) /\ sy \in Int /\ -H <= sy /\ sy < H
  BY <1>1, <1>2, SignedFacts
<1>5. x = y <=> sx = sy
  BY <1>3, <1>4
<1>6. PICK d : d = sx - sy
  OBVIOUS
<1>7. d \in Int /\ -(H + H) < d /\ d < H + H
  BY <1>3, <1>4, <1>6
<1>8. PICK r : r = Low(x - y, b)
  OBVIOUS
<1>9. r = IF d < 0 THEN d + (H + H) ELSE d
  <2>0. PICK M : M = H + H
    OBVIOUS
  <2>1. r = (x - y) % M
    BY <1>3, <1>8, <2>0 DEF Low
  <2>2. PICK q \in {-1, 0, 1} : x - y = d + (q * M)
    <3>1. x - y = d \/ x - y = d + M \/ x - y = d - M
      BY <1>3, <1>4, <1>6, <2>0
    <3> QED BY <1>7, <1>3, <2>0, <3>1
  <2>3. d < 0 => (x - y) % M = d + M
    <3> SUFFICES ASSUME d < 0
                 PROVE  (x - y) % M = d + M
      OBVIOUS
    <3>1. d + M \in 0..(M - 1) /\ M \in Nat \ {0} /\ q - 1 \in Int
      BY <1>3, <1>7, <2>0
    <3>2. x - y = (M * (q - 1)) + (d + M)
      BY <1>7, <2>2, <3>1, <1>3, <2>0
    <3>3. ((M * (q - 1)) + (d + M)) % M = d + M
      BY <3>1, ModUnique
    <3> QED BY <3>2, <3>3
  <2>4. ~(d < 0) => (x - y) % M = d
    <3> SUFFICES ASSUME ~(d < 0)
                 PROVE  (x - y) % M = d
      OBVIOUS
    <3>1. d \in 0..(M - 1) /\ M \in Nat \ {0} /\ q \in Int
      BY <1>3, <1>7, <2>0
    <3>2. x - y = (M * q) + d
      BY <1>7, <2>2, <3>1, <1>3, <2>0
    <3>3. ((M * q) + d) % M = d
      BY <3>1, ModUnique
    <3> QED BY <3>2, <3>3
  <2> QED BY <2>0, <2>1, <2>3, <2>4
<1>10. /\ f.z = (x = y) /\ f.n = (r >= H)
       /\ f.v = (d < -H \/ d >= H)
  BY <1>1, <1>2, <1>6, <1>8 DEF FlagsOfDifference, Neg
<1>11. (r >= H) # (d < -H \/ d >= H) <=> d < 0
  BY <1>3, <1>7, <1>9
<1>12. d < 0 <=> sx < sy
  BY <1>3, <1>4, <1>6
<1>13. f.n # f.v <=> sx < sy
  BY <1>10, <1>11, <1>12
<1>14. arch = "x86" => f.c = (x < y)
  BY DEF FlagsOfDifference
<1>16. arch # "x86" => f.c = (x >= y)
  BY DEF FlagsOfDifference
<1>17. f.c \in BOOLEAN
  <2>1. (x < y) \in BOOLEAN /\ (x >= y) \in BOOLEAN
    OBVIOUS
  <2>2. f.c = (x < y) \/ f.c = (x >= y)
    BY <1>14, <1>16, Zenon
  <2> QED BY <2>1, <2>2, Zenon
<1>18. (f.z <=> x = y) /\ f.z \in BOOLEAN
  BY <1>10
<1>19. f.n \in BOOLEAN
  BY <1>10
<1>20. f.v \in BOOLEAN
  BY <1>10
<1>15. (x = y <=> Signed(x, b) = Signed(y, b)) /\ Signed(x, b) \in Int /\ Signed(y, b) \in Int
  BY <1>2, <1>3, <1>4, <1>5
<1> QED BY <1>2, <1>13, <1>14, <1>15, <1>16, <1>17, <1>18, <1>19, <1>20

\* The conditional branches of x86 and their relations.
LEMMA X86TakenIs ==
    /\ DOMAIN X86Taken = {"ja", "jae", "jb", "jbe", "je", "jne", "jg", "jge", "jl", "jle"}
    /\ X86Taken["ja"] = "UGT" /\ X86Taken["jae"] = "UGE" /\ X86Taken["jb"] = "ULT"
    /\ X86Taken["jbe"] = "ULE" /\ X86Taken["je"] = "EQ" /\ X86Taken["jne"] = "NE"
    /\ X86Taken["jg"] = "SGT" /\ X86Taken["jge"] = "SGE" /\ X86Taken["jl"] = "SLT"
    /\ X86Taken["jle"] = "SLE"
  BY DEF X86Taken

\* The relation of a condition is what the condition tests.
LEMMA RelationsRead ==
    ASSUME NEW b \in Nat \ {0}, NEW x \in 0..(2 ^ b - 1), NEW y \in 0..(2 ^ b - 1), NEW arch,
           NEW f, f = FlagsOfDifference(arch, x, y, b),
           NEW c, c.left = x, c.right = y, c.bits = b
    PROVE  /\ arch = "x86" => \A mn \in DOMAIN X86Taken : Relates(X86Taken[mn], c) <=> Holds(mn, f)
           /\ arch = "arm" => \A n \in ConditionNames : Relates(ArmTaken(n[1]), c) <=> Holds(n[2], f)
<1> DEFINE l == Signed(x, b)
           r == Signed(y, b)
<1>1. /\ f.z <=> x = y
      /\ x = y <=> l = r
      /\ f.n # f.v <=> l < r
      /\ l \in Int /\ r \in Int
      /\ f.z \in BOOLEAN /\ f.n \in BOOLEAN /\ f.c \in BOOLEAN /\ f.v \in BOOLEAN
      /\ (arch = "x86" => f.c = (x < y)) /\ (arch # "x86" => f.c = (x >= y))
  BY SignedOrder
<1>2. x \in Int /\ y \in Int
  <2> 2 ^ b \in Nat
    BY DoublePower
  <2> QED OBVIOUS
<1>3. /\ (Relates("EQ", c)  <=> l = r) /\ (Relates("NE", c)  <=> l # r)
      /\ (Relates("ULT", c) <=> x < y) /\ (Relates("ULE", c) <=> x <= y)
      /\ (Relates("UGT", c) <=> x > y) /\ (Relates("UGE", c) <=> x >= y)
      /\ (Relates("SLT", c) <=> l < r) /\ (Relates("SLE", c) <=> l <= r)
      /\ (Relates("SGT", c) <=> l > r) /\ (Relates("SGE", c) <=> l >= r)
  BY DEF Relates
<1> HIDE DEF l, r
<1>4. ASSUME arch = "x86"
      PROVE  /\ (Relates("UGT", c) <=> Holds("ja", f)) /\ (Relates("UGE", c) <=> Holds("jae", f))
             /\ (Relates("ULT", c) <=> Holds("jb", f)) /\ (Relates("ULE", c) <=> Holds("jbe", f))
             /\ (Relates("EQ", c)  <=> Holds("je", f)) /\ (Relates("NE", c)  <=> Holds("jne", f))
             /\ (Relates("SGT", c) <=> Holds("jg", f)) /\ (Relates("SGE", c) <=> Holds("jge", f))
             /\ (Relates("SLT", c) <=> Holds("jl", f)) /\ (Relates("SLE", c) <=> Holds("jle", f))
  <2>1. /\ (Holds("ja", f) <=> ~f.c /\ ~f.z) /\ (Holds("jae", f) <=> ~f.c)
        /\ (Holds("jb", f) <=> f.c) /\ (Holds("jbe", f) <=> f.c \/ f.z)
        /\ (Holds("je", f) <=> f.z) /\ (Holds("jne", f) <=> ~f.z)
        /\ (Holds("jg", f) <=> ~f.z /\ f.n = f.v) /\ (Holds("jge", f) <=> f.n = f.v)
        /\ (Holds("jl", f) <=> f.n # f.v) /\ (Holds("jle", f) <=> f.z \/ f.n # f.v)
    BY DEF Holds
  <2>2. f.c <=> x < y
    BY <1>1, <1>4, Zenon
  <2>3. /\ (Relates("UGT", c) <=> Holds("ja", f)) /\ (Relates("UGE", c) <=> Holds("jae", f))
        /\ (Relates("ULT", c) <=> Holds("jb", f)) /\ (Relates("ULE", c) <=> Holds("jbe", f))
    BY <1>1, <1>2, <1>3, <2>1, <2>2
  <2>4. /\ (Relates("EQ", c)  <=> Holds("je", f)) /\ (Relates("NE", c)  <=> Holds("jne", f))
        /\ (Relates("SGT", c) <=> Holds("jg", f)) /\ (Relates("SGE", c) <=> Holds("jge", f))
        /\ (Relates("SLT", c) <=> Holds("jl", f)) /\ (Relates("SLE", c) <=> Holds("jle", f))
    BY <1>1, <1>2, <1>3, <2>1
  <2> QED BY <2>3, <2>4
<1>5. ASSUME arch = "arm"
      PROVE  /\ (Relates("UGT", c) <=> Holds("hi", f)) /\ (Relates("UGE", c) <=> Holds("hs", f))
             /\ (Relates("ULT", c) <=> Holds("lo", f)) /\ (Relates("ULE", c) <=> Holds("ls", f))
             /\ (Relates("EQ", c)  <=> Holds("eq", f)) /\ (Relates("NE", c)  <=> Holds("ne", f))
             /\ (Relates("SGT", c) <=> Holds("gt", f)) /\ (Relates("SGE", c) <=> Holds("ge", f))
             /\ (Relates("SLT", c) <=> Holds("lt", f)) /\ (Relates("SLE", c) <=> Holds("le", f))
  <2>1. /\ (Holds("hi", f) <=> f.c /\ ~f.z) /\ (Holds("hs", f) <=> f.c)
        /\ (Holds("lo", f) <=> ~f.c) /\ (Holds("ls", f) <=> ~f.c \/ f.z)
        /\ (Holds("eq", f) <=> f.z) /\ (Holds("ne", f) <=> ~f.z)
        /\ (Holds("gt", f) <=> ~f.z /\ f.n = f.v) /\ (Holds("ge", f) <=> f.n = f.v)
        /\ (Holds("lt", f) <=> f.n # f.v) /\ (Holds("le", f) <=> f.z \/ f.n # f.v)
    BY DEF Holds
  <2>2. f.c <=> x >= y
    BY <1>1, <1>5, Zenon
  <2>3. /\ (Relates("UGT", c) <=> Holds("hi", f)) /\ (Relates("UGE", c) <=> Holds("hs", f))
        /\ (Relates("ULT", c) <=> Holds("lo", f)) /\ (Relates("ULE", c) <=> Holds("ls", f))
    BY <1>1, <1>2, <1>3, <2>1, <2>2
  <2>4. /\ (Relates("EQ", c)  <=> Holds("eq", f)) /\ (Relates("NE", c)  <=> Holds("ne", f))
        /\ (Relates("SGT", c) <=> Holds("gt", f)) /\ (Relates("SGE", c) <=> Holds("ge", f))
        /\ (Relates("SLT", c) <=> Holds("lt", f)) /\ (Relates("SLE", c) <=> Holds("le", f))
    BY <1>1, <1>2, <1>3, <2>1
  <2> QED BY <2>3, <2>4
<1>6. arch = "x86" => \A mn \in DOMAIN X86Taken : Relates(X86Taken[mn], c) <=> Holds(mn, f)
  BY <1>4, X86TakenIs
<1>7. arch = "arm" => \A n \in ConditionNames : Relates(ArmTaken(n[1]), c) <=> Holds(n[2], f)
  <2>1. /\ ArmTaken(0) = "EQ" /\ ArmTaken(1) = "NE" /\ ArmTaken(2) = "UGE" /\ ArmTaken(3) = "ULT"
        /\ ArmTaken(8) = "UGT" /\ ArmTaken(9) = "ULE" /\ ArmTaken(10) = "SGE"
        /\ ArmTaken(11) = "SLT" /\ ArmTaken(12) = "SGT" /\ ArmTaken(13) = "SLE"
    BY DEF ArmTaken
  <2> QED BY <1>5, <2>1 DEF ConditionNames
<1> QED BY <1>6, <1>7

-----------------------------------------------------------------------------
(***************************************************************************)
(* The effects reported, form by form.                                     *)
(***************************************************************************)
LEMMA FirstIs ==
    ASSUME NEW S, S \subseteq Int, NEW n \in S, \A k \in S : n <= k
    PROVE  FirstOf(S) = n
<1>1. \A m \in S : (\A k \in S : m <= k) => m = n
  <2> TAKE m \in S
  <2> HAVE \A k \in S : m <= k
  <2>1. m <= n /\ n <= m /\ m \in Int /\ n \in Int
    OBVIOUS
  <2> QED BY <2>1
<1>2. (CHOOSE m \in S : \A k \in S : m <= k) = n
  BY <1>1
<1> QED BY <1>2 DEF FirstOf

\* destination_operand finds the operand an instruction writes.
LEMMA DestinationIs ==
    ASSUME NEW p \in Forms, Writes(p, p.dst)
    PROVE  DestinationOperand(p.inst) = p.dst
<1> DEFINE written == {n \in Indices(p.inst) : "write" \in p.inst.ops[n + 1].flags}
<1>1. p.dst \in Indices(p.inst) /\ Indices(p.inst) \subseteq Int
  BY ProperForm DEF Writes, Indices
<1>2. written \subseteq {p.dst} /\ (p.dst = 0 \/ p.dst \in written)
  BY DEF Writes, Op
<1>3. DestinationOperand(p.inst)
        = FirstOf(IF written = {} THEN Indices(p.inst) \cap {0} ELSE written)
  BY DEF DestinationOperand
<1>4. (IF written = {} THEN Indices(p.inst) \cap {0} ELSE written) = {p.dst}
  BY <1>1, <1>2
<1>5. FirstOf({p.dst}) = p.dst
  <2>1. p.dst \in Int /\ {p.dst} \subseteq Int /\ p.dst \in {p.dst} /\ \A k \in {p.dst} : p.dst <= k
    BY <1>1
  <2> QED BY <2>1, FirstIs
<1> QED BY <1>3, <1>4, <1>5

\* memory_operand finds the first memory operand.
LEMMA MemoryIs ==
    ASSUME NEW p \in Forms
    PROVE  /\ \A n : IsMem(p, n) /\ (\A k \in Indices(p.inst) : IsMem(p, k) => n <= k)
                 => MemoryOperand(p.inst) = n
           /\ (\A k \in Indices(p.inst) : ~IsMem(p, k)) => MemoryOperand(p.inst) = -1
<1> DEFINE S == {n \in Indices(p.inst) : p.inst.ops[n + 1].kind = "mem"}
<1>1. S \subseteq Int /\ S = {n \in Indices(p.inst) : IsMem(p, n)}
  BY ProperForm DEF Indices, IsMem, Op
<1>2. MemoryOperand(p.inst) = FirstOf(S)
  BY DEF MemoryOperand
<1>3. (\A k \in Indices(p.inst) : ~IsMem(p, k)) => FirstOf(S) = -1
  BY <1>1 DEF FirstOf
<1> HIDE DEF S
<1>4. ASSUME NEW n, IsMem(p, n), \A k \in Indices(p.inst) : IsMem(p, k) => n <= k
      PROVE  FirstOf(S) = n
  <2>1. n \in S /\ \A k \in S : n <= k
    BY <1>1, <1>4 DEF IsMem
  <2> QED BY <1>1, <2>1, FirstIs
<1> QED BY <1>2, <1>3, <1>4

\* source_operand finds the first operand that is neither excluded nor merely written.
LEMMA SourceIs ==
    ASSUME NEW p \in Forms, NEW d, NEW m, NEW n \in Indices(p.inst) \ {d, m},
           "read" \in Op(p, n).flags \/ n # 0,
           \A k \in Indices(p.inst) \ {d, m} : k = 0 \/ n <= k, d = 0 \/ n = 0
    PROVE  SourceOperand(p.inst, d, m) = n
<1> DEFINE S == {k \in Indices(p.inst) \ {d, m} : "read" \in p.inst.ops[k + 1].flags \/ k # 0}
<1>1. S \subseteq Int /\ n \in S /\ \A k \in S : n <= k
  BY ProperForm DEF Indices, Op
<1>2. SourceOperand(p.inst, d, m) = FirstOf(S)
  BY DEF SourceOperand
<1> HIDE DEF S
<1> QED BY <1>1, <1>2, FirstIs

\* A few effects all fit.
LEMMA CappedFew ==
    ASSUME NEW a, NEW b, NEW c, NEW d
    PROVE  /\ Capped(<<>>) = <<>> /\ Capped(<<a>>) = <<a>> /\ Capped(<<a, b>>) = <<a, b>>
           /\ Capped(<<a, b, c, d>>) = <<a, b, c, d>>
           /\ <<>> \o <<>> = <<>> /\ <<>> \o <<a>> = <<a>> /\ <<a>> \o <<>> = <<a>>
           /\ <<a>> \o <<b>> = <<a, b>> /\ <<>> \o <<a, b>> = <<a, b>> /\ <<a, b>> \o <<>> = <<a, b>>
           /\ <<>> \o <<a, b, c, d>> = <<a, b, c, d>> /\ <<a, b, c, d>> \o <<>> = <<a, b, c, d>>
<1>1. ASSUME NEW S
      PROVE  \A s \in Seq(S) : Len(s) <= 8 => Capped(s) = s /\ s \o <<>> = s /\ <<>> \o s = s
  BY DEF Capped, MaxValueEffects
<1>2. <<>> \in Seq({a}) /\ <<a>> \in Seq({a}) /\ Len(<<>>) = 0 /\ Len(<<a>>) = 1
  OBVIOUS
<1>3. <<a, b>> \in Seq({a, b}) /\ Len(<<a, b>>) = 2
  OBVIOUS
<1>4. <<a, b, c, d>> \in Seq({a, b, c, d}) /\ Len(<<a, b, c, d>>) = 4
  OBVIOUS
<1>5. /\ Capped(<<>>) = <<>> /\ <<>> \o <<>> = <<>>
      /\ Capped(<<a>>) = <<a>> /\ <<a>> \o <<>> = <<a>> /\ <<>> \o <<a>> = <<a>>
  <2>1. \A s \in Seq({a}) : Len(s) <= 8 => Capped(s) = s /\ s \o <<>> = s /\ <<>> \o s = s
    BY <1>1
  <2>2. 0 <= 8 /\ 1 <= 8
    OBVIOUS
  <2> QED BY <1>2, <2>1, <2>2, Zenon
<1>6. Capped(<<a, b>>) = <<a, b>> /\ <<a, b>> \o <<>> = <<a, b>> /\ <<>> \o <<a, b>> = <<a, b>>
  <2>1. \A s \in Seq({a, b}) : Len(s) <= 8 => Capped(s) = s /\ s \o <<>> = s /\ <<>> \o s = s
    BY <1>1
  <2>2. 2 <= 8
    OBVIOUS
  <2> QED BY <1>3, <2>1, <2>2, Zenon
<1>7. /\ Capped(<<a, b, c, d>>) = <<a, b, c, d>>
      /\ <<a, b, c, d>> \o <<>> = <<a, b, c, d>> /\ <<>> \o <<a, b, c, d>> = <<a, b, c, d>>
  <2>1. \A s \in Seq({a, b, c, d}) : Len(s) <= 8 => Capped(s) = s /\ s \o <<>> = s /\ <<>> \o s = s
    BY <1>1
  <2>2. 4 <= 8
    OBVIOUS
  <2> QED BY <1>4, <2>1, <2>2, Zenon
<1>8. <<a>> \o <<b>> = <<a, b>>
  <2> DEFINE S == {a, b}
  <2>1. PICK u, v, w : u = <<a>> /\ v = <<b>> /\ w = <<a, b>>
    OBVIOUS
  <2>2. /\ u \in Seq(S) /\ v \in Seq(S) /\ w \in Seq(S) /\ Len(u) = 1 /\ Len(v) = 1 /\ Len(w) = 2
        /\ u[1] = a /\ v[1] = b /\ w[1] = a /\ w[2] = b
    BY <2>1
  <2> HIDE DEF S
  <2>3. /\ u \o v \in Seq(S) /\ Len(u \o v) = Len(u) + Len(v)
        /\ \A i \in 1..(Len(u) + Len(v)) : (u \o v)[i] = IF i <= Len(u) THEN u[i] ELSE v[i - Len(u)]
    BY <2>2, ConcatProperties, Zenon
  <2>4. Len(u \o v) = Len(w) /\ \A i \in 1..Len(u \o v) : (u \o v)[i] = w[i]
    BY <2>2, <2>3
  <2>5. u \o v = w
    BY <2>2, <2>3, <2>4, SeqEqual, Zenon
  <2> QED BY <2>1, <2>5
<1> QED BY <1>5, <1>6, <1>7, <1>8

Told(p)     == AnalyzeValues(engine, p.inst, p.control)
Ours(p)     == p.inst.arch = engine.arch /\ p.inst.mode = engine.mode
After(p)    == Effected(p, Told(p).effects)
Accesses(p) == IF Touches(p) THEN MemoryEffects(p.inst) ELSE <<>>

\* What the analysis says of a form, by architecture.
LEMMA ToldIs ==
    ASSUME NEW p \in Forms, Ours(p)
    PROVE  /\ Arch(p) \in {"x86", "arm", "aarch64", "bpf"}
           /\ Arch(p) = "x86" =>
                 /\ Told(p).effects = Capped(X86Effects(p.inst, p.control, Accesses(p)))
                 /\ Told(p).condition = X86Condition(p.inst)
           /\ Arch(p) = "arm" =>
                 /\ Told(p).effects = Capped(Accesses(p) \o ArmEffects(p.inst, p.control))
                 /\ Told(p).condition = ArmCondition(p.inst, p.control)
           /\ Arch(p) = "aarch64" =>
                 /\ Told(p).effects = Capped(Accesses(p) \o A64Effects(p.inst, p.control))
                 /\ Told(p).condition = A64Condition(p.inst)
           /\ Arch(p) = "bpf" =>
                 /\ Told(p).effects = Capped(Accesses(p) \o BpfEffects(p.inst))
                 /\ Told(p).condition = NoCondition
<1>1. Arch(p) \in {"x86", "arm", "aarch64", "bpf"}
  BY FormsAssumption DEF Proper
<1>2. Told(p) = CASE p.inst.arch = "x86" ->
                       Analysis("OK", X86Effects(p.inst, p.control, Accesses(p)), X86Condition(p.inst))
                  [] p.inst.arch = "arm" ->
                       Analysis("OK", Accesses(p) \o ArmEffects(p.inst, p.control),
                                ArmCondition(p.inst, p.control))
                  [] p.inst.arch = "aarch64" ->
                       Analysis("OK", Accesses(p) \o A64Effects(p.inst, p.control), A64Condition(p.inst))
                  [] p.inst.arch = "bpf" ->
                       Analysis("OK", Accesses(p) \o BpfEffects(p.inst), NoCondition)
                  [] OTHER -> Analysis("UNSUPPORTED_ARCH", Accesses(p), NoCondition)
  BY DEF Told, Ours, AnalyzeValues, Accesses, Touches
<1>3. Arch(p) = p.inst.arch
  BY DEF Arch
<1>4. ASSUME NEW effects, NEW condition, Told(p) = Analysis("OK", effects, condition)
      PROVE  Told(p).effects = Capped(effects) /\ Told(p).condition = condition
  BY <1>4 DEF Analysis
<1>5. Arch(p) = "x86" =>
         Told(p) = Analysis("OK", X86Effects(p.inst, p.control, Accesses(p)), X86Condition(p.inst))
  BY <1>2, <1>3
<1>6. Arch(p) = "arm" =>
         Told(p) = Analysis("OK", Accesses(p) \o ArmEffects(p.inst, p.control),
                            ArmCondition(p.inst, p.control))
  BY <1>2, <1>3
<1>7. Arch(p) = "aarch64" =>
         Told(p) = Analysis("OK", Accesses(p) \o A64Effects(p.inst, p.control), A64Condition(p.inst))
  BY <1>2, <1>3
<1>8. Arch(p) = "bpf" =>
         Told(p) = Analysis("OK", Accesses(p) \o BpfEffects(p.inst), NoCondition)
  BY <1>2, <1>3
<1> QED BY <1>1, <1>4, <1>5, <1>6, <1>7, <1>8, Zenon

\* A comparison is no effect.
LEMMA CompareIsNoEffect ==
    ASSUME NEW p, NEW a, NEW comparing, comparing \in {<<>>, CompareEffect(p.inst)}
    PROVE  /\ Effected(p, Capped(comparing)) = Start
           /\ Effected(p, Capped(<<a>> \o comparing)) = Follow(p, Start, a)
<1> DEFINE c == Effect("COMPARE", NoRef, <<Operand(p.inst, 0), Operand(p.inst, 1)>>)
<1>1. comparing = <<>> \/ comparing = <<c>>
  BY DEF CompareEffect
<1>2. \A e : Follow(p, e, c) = e
  <2>1. c.dst.kind = "none"
    BY DEF Effect, NoRef, Ref
  <2> HIDE DEF c
  <2> QED BY <2>1, FollowNothing
<1> HIDE DEF c
<1>3. /\ Capped(<<>>) = <<>> /\ Capped(<<c>>) = <<c>> /\ Capped(<<a>>) = <<a>>
      /\ Capped(<<a, c>>) = <<a, c>> /\ <<a>> \o <<>> = <<a>> /\ <<a>> \o <<c>> = <<a, c>>
  BY CappedFew, Zenon
<1>4. /\ Effected(p, <<>>) = Start /\ Effected(p, <<c>>) = Follow(p, Start, c)
      /\ Effected(p, <<a>>) = Follow(p, Start, a)
      /\ Effected(p, <<a, c>>) = Follow(p, Follow(p, Start, a), c)
  <2>1. Effected(p, <<>>) = Start
    BY EffectedNone, Zenon
  <2>2. Effected(p, <<c>>) = Follow(p, Start, c)
    BY EffectedOne, Zenon
  <2>3. Effected(p, <<a>>) = Follow(p, Start, a)
    BY EffectedOne, Zenon
  <2>4. Effected(p, <<a, c>>) = Follow(p, Follow(p, Start, a), c)
    BY EffectedTwo
  <2> QED BY <2>1, <2>2, <2>3, <2>4
<1>5. CASE comparing = <<>>
  BY <1>3, <1>4, <1>5, Zenon
<1>6. CASE comparing = <<c>>
  BY <1>2, <1>3, <1>4, <1>6, Zenon
<1> QED BY <1>1, <1>5, <1>6

\* Every target names the operations by the mnemonics of its architecture.
LEMMA BinaryTables ==
    ASSUME NEW kind \in Operations, NEW mn \in NamesOf[kind]
    PROVE  /\ mn \in DOMAIN X86Binary => X86Binary[mn] = kind
           /\ mn \in DOMAIN ArmBinary => ArmBinary[mn] = kind
           /\ mn \in DOMAIN A64Binary => A64Binary[mn] = kind
           /\ mn \in DOMAIN BpfBinary => BpfBinary[mn] = kind
<1>1. mn \in DOMAIN X86Binary => X86Binary[mn] = kind
  BY DEF Operations, NamesOf, X86Binary
<1>2. mn \in DOMAIN ArmBinary => ArmBinary[mn] = kind
  BY DEF Operations, NamesOf, ArmBinary
<1>3. mn \in DOMAIN A64Binary => A64Binary[mn] = kind
  BY DEF Operations, NamesOf, A64Binary
<1>4. mn \in DOMAIN BpfBinary => BpfBinary[mn] = kind
  BY DEF Operations, NamesOf, BpfBinary
<1> QED BY <1>1, <1>2, <1>3, <1>4

\* The mnemonics each architecture's table lists.
LEMMA TableDomains ==
    /\ DOMAIN X86Binary = {"add", "sub", "imul", "shl", "and", "or", "xor", "shr", "sar", "rol", "ror"}
    /\ DOMAIN ArmBinary = {"add", "addw", "sub", "subw", "lsl", "and", "orr", "eor", "lsr", "asr", "ror"}
    /\ DOMAIN A64Binary = {"add", "sub", "lsl", "and", "orr", "eor", "lsr", "asr", "ror"}
    /\ DOMAIN BpfBinary = {"add", "sub", "mul", "sll", "and", "or", "xor", "srl", "arsh"}
    /\ DOMAIN X86Extension = {"movsx", "movsxd", "movzx"}
    /\ X86Extension["movsx"] = "SIGN_EXTEND" /\ X86Extension["movsxd"] = "SIGN_EXTEND"
    /\ X86Extension["movzx"] = "ZERO_EXTEND"
  BY DEF X86Binary, ArmBinary, A64Binary, BpfBinary, X86Extension

\* What each target makes of the mnemonics.
LEMMA X86EffectsAre ==
    ASSUME NEW p \in Forms, Ours(p), Arch(p) = "x86"
    PROVE  LET inst == p.inst
               mn   == p.inst.mn
               mem  == MemoryOperand(inst)
               told == Told(p).effects
           IN  /\ mn \in DOMAIN X86Binary /\ mn # "sub" =>
                     told = Capped((Accesses(p) \o BinaryEffect(inst, X86Binary[mn])) \o <<>>)
               /\ mn = "sub" =>
                     told = Capped((Accesses(p) \o BinaryEffect(inst, X86Binary[mn])) \o CompareEffect(inst))
               /\ mn = "mov" /\ mem < 0 /\ DestinationOperand(inst) >= 0 =>
                     told = Capped((MemoryEffects(inst) \o CopyEffect(inst)) \o <<>>)
               /\ mn = "mov" /\ ~(mem < 0) => told = Capped((MemoryEffects(inst) \o <<>>) \o <<>>)
               /\ mn \in DOMAIN X86Extension /\ mem < 0 =>
                     told = Capped((MemoryEffects(inst)
                               \o (CopyEffect(inst) \o ExtendEffect(inst, X86Extension[mn]))) \o <<>>)
               /\ mn \in DOMAIN X86Extension /\ ~(mem < 0) =>
                     told = Capped((MemoryEffects(inst)
                               \o (<<>> \o ExtendEffect(inst, X86Extension[mn]))) \o <<>>)
               /\ mn = "lea" /\ DestinationOperand(inst) >= 0 /\ p.control.pcrel =>
                     told = Capped((Accesses(p) \o AddressEffect(inst, Immediate(p.control.target, 64))) \o <<>>)
               /\ mn = "lea" /\ DestinationOperand(inst) >= 0 /\ ~p.control.pcrel =>
                     told = Capped((Accesses(p) \o AddressEffect(inst, Operand(inst, mem))) \o <<>>)
               /\ mn \notin DOMAIN X86Binary \cup Special("x86") =>
                     told = Capped((Accesses(p) \o <<>>) \o <<>>)
               /\ mn = "cmp" => told = Capped((Accesses(p) \o <<>>) \o CompareEffect(inst))
<1> DEFINE inst     == p.inst
           control  == p.control
           accesses == Accesses(p)
           mn    == inst.mn
           mem   == MemoryOperand(inst)
           dst   == DestinationOperand(inst)
           again == MemoryEffects(inst)
           moves == IF mn \in {"mov", "movsx", "movsxd", "movzx"} /\ accesses = <<>>
                    THEN MemoryEffects(inst) ELSE accesses
           named ==
               CASE mn = "lea" /\ dst >= 0 ->
                       AddressEffect(inst, IF control.pcrel THEN Immediate(control.target, 64)
                                           ELSE Operand(inst, mem))
                 [] mn = "mov" /\ mem < 0 /\ dst >= 0 -> CopyEffect(inst)
                 [] mn \in DOMAIN X86Extension ->
                       (IF mem < 0 THEN CopyEffect(inst) ELSE <<>>)
                         \o ExtendEffect(inst, X86Extension[mn])
                 [] mn \in DOMAIN X86Binary -> BinaryEffect(inst, X86Binary[mn])
                 [] OTHER -> <<>>
           compares == IF mn \in {"cmp", "test", "sub"} THEN CompareEffect(inst) ELSE <<>>
           told == Told(p).effects
<1>1. told = Capped((moves \o named) \o compares)
  <2>1. X86Effects(inst, control, accesses) = (moves \o named) \o compares
    BY DEF X86Effects
  <2>2. told = Capped(X86Effects(inst, control, accesses))
    BY ToldIs
  <2> HIDE DEF told, moves, named, compares, accesses
  <2> QED BY <2>1, <2>2
<1>0. mn \in {"mov", "movsx", "movsxd", "movzx"} => moves = again
  BY DEF Accesses
<1> HIDE DEF told
<1>2. /\ mn \in DOMAIN X86Binary => moves = accesses /\ named = BinaryEffect(inst, X86Binary[mn])
      /\ mn \in DOMAIN X86Binary /\ mn # "sub" => compares = <<>>
      /\ mn = "sub" => mn \in DOMAIN X86Binary /\ compares = CompareEffect(inst)
  BY TableDomains
<1>3. /\ mn = "mov" => moves = again /\ compares = <<>>
      /\ mn = "mov" /\ mem < 0 /\ dst >= 0 => named = CopyEffect(inst)
      /\ mn = "mov" /\ ~(mem < 0) => named = <<>>
  BY <1>0, TableDomains
<1>4. /\ mn \in DOMAIN X86Extension => moves = again /\ compares = <<>>
      /\ mn \in DOMAIN X86Extension /\ mem < 0 =>
            named = CopyEffect(inst) \o ExtendEffect(inst, X86Extension[mn])
      /\ mn \in DOMAIN X86Extension /\ ~(mem < 0) =>
            named = <<>> \o ExtendEffect(inst, X86Extension[mn])
  BY <1>0, TableDomains
<1>5. /\ mn = "lea" => moves = accesses /\ compares = <<>>
      /\ mn = "lea" /\ dst >= 0 /\ control.pcrel =>
            named = AddressEffect(inst, Immediate(control.target, 64))
      /\ mn = "lea" /\ dst >= 0 /\ ~control.pcrel =>
            named = AddressEffect(inst, Operand(inst, mem))
  BY TableDomains
<1>6. mn \notin DOMAIN X86Binary \cup Special("x86") =>
         moves = accesses /\ named = <<>> /\ compares = <<>>
  BY TableDomains DEF Special
<1>7. mn = "cmp" => moves = accesses /\ named = <<>> /\ compares = CompareEffect(inst)
  BY TableDomains
<1> HIDE DEF moves, named, compares
<1>8. /\ mn \in DOMAIN X86Binary /\ mn # "sub" =>
            told = Capped((accesses \o BinaryEffect(inst, X86Binary[mn])) \o <<>>)
      /\ mn = "sub" => told = Capped((accesses \o BinaryEffect(inst, X86Binary[mn])) \o CompareEffect(inst))
  BY <1>1, <1>2, Zenon
<1>9. /\ mn = "mov" /\ mem < 0 /\ dst >= 0 => told = Capped((again \o CopyEffect(inst)) \o <<>>)
      /\ mn = "mov" /\ ~(mem < 0) => told = Capped((again \o <<>>) \o <<>>)
  BY <1>1, <1>3, Zenon
<1>10. /\ mn \in DOMAIN X86Extension /\ mem < 0 =>
            told = Capped((again \o (CopyEffect(inst) \o ExtendEffect(inst, X86Extension[mn]))) \o <<>>)
       /\ mn \in DOMAIN X86Extension /\ ~(mem < 0) =>
            told = Capped((again \o (<<>> \o ExtendEffect(inst, X86Extension[mn]))) \o <<>>)
  BY <1>1, <1>4, Zenon
<1>11. /\ mn = "lea" /\ dst >= 0 /\ control.pcrel =>
            told = Capped((accesses \o AddressEffect(inst, Immediate(control.target, 64))) \o <<>>)
       /\ mn = "lea" /\ dst >= 0 /\ ~control.pcrel =>
            told = Capped((accesses \o AddressEffect(inst, Operand(inst, mem))) \o <<>>)
  BY <1>1, <1>5, Zenon
<1>12. mn \notin DOMAIN X86Binary \cup Special("x86") => told = Capped((accesses \o <<>>) \o <<>>)
  BY <1>1, <1>6, Zenon
<1>13. mn = "cmp" => told = Capped((accesses \o <<>>) \o CompareEffect(inst))
  BY <1>1, <1>7, Zenon
<1> QED BY <1>8, <1>9, <1>10, <1>11, <1>12, <1>13, Zenon DEF told

\* The effects of ARM, by mnemonic.
LEMMA ArmEffectsAre ==
    ASSUME NEW inst, NEW control
    PROVE  LET mn    == inst.mn
               dst   == DestinationOperand(inst)
               all   == ArmEffects(inst, control)
           IN  /\ mn \in DOMAIN ArmBinary /\ ~control.material =>
                     all = BinaryEffect(inst, ArmBinary[mn]) \o <<>>
               /\ mn = "mov" /\ ~control.material => all = CopyEffect(inst) \o <<>>
               /\ mn \in {"tbb", "tbh"} /\ MemoryOperand(inst) >= 0 => all = TableEffects(inst) \o <<>>
               /\ (mn = "adr" \/ (control.material /\ mn \notin {"tbb", "tbh", "cmp"})) /\ dst >= 0 =>
                     all = AddressEffect(inst, Immediate(control.target, 32)) \o <<>>
               /\ mn \in {"cbz", "cbnz"} /\ ~control.material => all = <<>> \o <<>>
               /\ mn \notin DOMAIN ArmBinary \cup Special("arm") /\ ~control.material => all = <<>> \o <<>>
               /\ mn = "cmp" /\ ~control.material => all = <<>> \o CompareEffect(inst)
<1> DEFINE mn    == inst.mn
           dst   == DestinationOperand(inst)
           table == mn \in {"tbb", "tbh"} /\ MemoryOperand(inst) >= 0
           names == (mn = "adr" \/ control.material) /\ dst >= 0
           named ==
               CASE table -> TableEffects(inst)
                 [] ~table /\ names -> AddressEffect(inst, Immediate(control.target, 32))
                 [] ~names /\ mn \in {"mov", "movs"} -> CopyEffect(inst)
                 [] ~names /\ mn \in DOMAIN ArmBinary -> BinaryEffect(inst, ArmBinary[mn])
                 [] OTHER -> <<>>
           compares == IF mn = "cmp" THEN CompareEffect(inst) ELSE <<>>
           all == ArmEffects(inst, control)
<1>1. all = named \o compares
  BY DEF ArmEffects
<1> HIDE DEF all
<1>2. mn \in DOMAIN ArmBinary /\ ~control.material =>
         named = BinaryEffect(inst, ArmBinary[mn]) /\ compares = <<>>
  BY TableDomains
<1>3. mn = "mov" /\ ~control.material => named = CopyEffect(inst) /\ compares = <<>>
  BY TableDomains
<1>4. mn \in {"tbb", "tbh"} /\ MemoryOperand(inst) >= 0 => named = TableEffects(inst) /\ compares = <<>>
  <2> SUFFICES ASSUME mn \in {"tbb", "tbh"}, MemoryOperand(inst) >= 0
               PROVE  named = TableEffects(inst) /\ compares = <<>>
    OBVIOUS
  <2>1. mn \notin {"mov", "movs"} /\ mn \notin DOMAIN ArmBinary
    BY TableDomains
  <2> QED BY <2>1
<1>5. (mn = "adr" \/ (control.material /\ mn \notin {"tbb", "tbh", "cmp"})) /\ dst >= 0 =>
         named = AddressEffect(inst, Immediate(control.target, 32)) /\ compares = <<>>
  BY TableDomains
<1>6. mn \in {"cbz", "cbnz"} /\ ~control.material => named = <<>> /\ compares = <<>>
  BY TableDomains
<1>7. mn \notin DOMAIN ArmBinary \cup Special("arm") /\ ~control.material => named = <<>> /\ compares = <<>>
  BY TableDomains DEF Special
<1>8. mn = "cmp" /\ ~control.material => named = <<>> /\ compares = CompareEffect(inst)
  BY TableDomains
<1> HIDE DEF named, compares
<1>9. /\ mn \in DOMAIN ArmBinary /\ ~control.material => all = BinaryEffect(inst, ArmBinary[mn]) \o <<>>
      /\ mn = "mov" /\ ~control.material => all = CopyEffect(inst) \o <<>>
      /\ mn \in {"tbb", "tbh"} /\ MemoryOperand(inst) >= 0 => all = TableEffects(inst) \o <<>>
  BY <1>1, <1>2, <1>3, <1>4, Zenon
<1>10. /\ (mn = "adr" \/ (control.material /\ mn \notin {"tbb", "tbh", "cmp"})) /\ dst >= 0 =>
             all = AddressEffect(inst, Immediate(control.target, 32)) \o <<>>
       /\ mn \in {"cbz", "cbnz"} /\ ~control.material => all = <<>> \o <<>>
  BY <1>1, <1>5, <1>6, Zenon
<1>11. /\ mn \notin DOMAIN ArmBinary \cup Special("arm") /\ ~control.material => all = <<>> \o <<>>
       /\ mn = "cmp" /\ ~control.material => all = <<>> \o CompareEffect(inst)
  BY <1>1, <1>7, <1>8, Zenon
<1> QED BY <1>9, <1>10, <1>11, Zenon DEF all

\* The effects of AArch64, by mnemonic.
LEMMA A64EffectsAre ==
    ASSUME NEW inst, NEW control
    PROVE  LET mn    == inst.mn
               dst   == DestinationOperand(inst)
               all   == A64Effects(inst, control)
           IN  /\ mn \in DOMAIN A64Binary /\ ~control.material =>
                     all = BinaryEffect(inst, A64Binary[mn]) \o <<>>
               /\ mn \in {"mov", "movz"} /\ ~control.material => all = CopyEffect(inst) \o <<>>
               /\ (mn \in {"adr", "adrp"} \/ (control.material /\ mn \notin {"ldrsw", "ldrsh", "ldrsb"}))
                     /\ dst >= 0 => all = AddressEffect(inst, Immediate(control.target, 64)) \o <<>>
               /\ mn \in {"ldrsw", "ldrsh", "ldrsb"} /\ ~control.material =>
                     all = <<>> \o ExtendEffect(inst, "SIGN_EXTEND")
               /\ mn \in {"cbz", "cbnz"} /\ ~control.material => all = <<>> \o <<>>
               /\ mn \notin DOMAIN A64Binary \cup Special("aarch64") /\ ~control.material => all = <<>> \o <<>>
<1> DEFINE mn    == inst.mn
           dst   == DestinationOperand(inst)
           names == (mn \in {"adr", "adrp"} \/ control.material) /\ dst >= 0
           named ==
               CASE names -> AddressEffect(inst, Immediate(control.target, 64))
                 [] ~names /\ mn \in {"mov", "movz", "movn"} -> CopyEffect(inst)
                 [] ~names /\ mn \in DOMAIN A64Binary -> BinaryEffect(inst, A64Binary[mn])
                 [] OTHER -> <<>>
           extends == IF mn \in {"ldrsw", "ldrsh", "ldrsb"}
                      THEN ExtendEffect(inst, "SIGN_EXTEND") ELSE <<>>
           all == A64Effects(inst, control)
<1>1. all = named \o extends
  BY DEF A64Effects
<1> HIDE DEF all
<1>2. mn \in DOMAIN A64Binary /\ ~control.material =>
         named = BinaryEffect(inst, A64Binary[mn]) /\ extends = <<>>
  BY TableDomains
<1>3. mn \in {"mov", "movz"} /\ ~control.material => named = CopyEffect(inst) /\ extends = <<>>
  BY TableDomains
<1>4. (mn \in {"adr", "adrp"} \/ (control.material /\ mn \notin {"ldrsw", "ldrsh", "ldrsb"})) /\ dst >= 0 =>
         named = AddressEffect(inst, Immediate(control.target, 64)) /\ extends = <<>>
  BY TableDomains
<1>5. mn \in {"ldrsw", "ldrsh", "ldrsb"} /\ ~control.material =>
         named = <<>> /\ extends = ExtendEffect(inst, "SIGN_EXTEND")
  BY TableDomains
<1>6. mn \in {"cbz", "cbnz"} /\ ~control.material => named = <<>> /\ extends = <<>>
  BY TableDomains
<1>7. mn \notin DOMAIN A64Binary \cup Special("aarch64") /\ ~control.material =>
         named = <<>> /\ extends = <<>>
  BY TableDomains DEF Special
<1> HIDE DEF named, extends
<1>8. /\ mn \in DOMAIN A64Binary /\ ~control.material => all = BinaryEffect(inst, A64Binary[mn]) \o <<>>
      /\ mn \in {"mov", "movz"} /\ ~control.material => all = CopyEffect(inst) \o <<>>
  BY <1>1, <1>2, <1>3, Zenon
<1>9. /\ (mn \in {"adr", "adrp"} \/ (control.material /\ mn \notin {"ldrsw", "ldrsh", "ldrsb"}))
            /\ dst >= 0 => all = AddressEffect(inst, Immediate(control.target, 64)) \o <<>>
      /\ mn \in {"ldrsw", "ldrsh", "ldrsb"} /\ ~control.material =>
            all = <<>> \o ExtendEffect(inst, "SIGN_EXTEND")
  BY <1>1, <1>4, <1>5, Zenon
<1>10. /\ mn \in {"cbz", "cbnz"} /\ ~control.material => all = <<>> \o <<>>
       /\ mn \notin DOMAIN A64Binary \cup Special("aarch64") /\ ~control.material => all = <<>> \o <<>>
  BY <1>1, <1>6, <1>7, Zenon
<1> QED BY <1>8, <1>9, <1>10, Zenon DEF all

\* The effects of BPF, by mnemonic.
LEMMA BpfEffectsAre ==
    ASSUME NEW inst
    PROVE  /\ inst.mn \in DOMAIN BpfBinary => BpfEffects(inst) = BinaryEffect(inst, BpfBinary[inst.mn])
           /\ inst.mn = "mov" => BpfEffects(inst) = CopyEffect(inst)
           /\ inst.mn \notin DOMAIN BpfBinary \cup Special("bpf") => BpfEffects(inst) = <<>>
<1>1. "mov" \notin DOMAIN BpfBinary
  BY TableDomains
<1>2. Special("bpf") = {"mov"}
  BY DEF Special
<1> QED BY <1>1, <1>2 DEF BpfEffects

\* The lists the targets put together, with at most one effect besides a comparison.
LEMMA ShapesFew ==
    ASSUME NEW p, NEW a, NEW C, C \in {<<>>, CompareEffect(p.inst)}
    PROVE  /\ Effected(p, Capped((<<>> \o <<a>>) \o C)) = Follow(p, Start, a)
           /\ Effected(p, Capped((<<a>> \o <<>>) \o C)) = Follow(p, Start, a)
           /\ Effected(p, Capped(<<>> \o (<<a>> \o <<>>))) = Follow(p, Start, a)
           /\ Effected(p, Capped(<<a>> \o (<<>> \o <<>>))) = Follow(p, Start, a)
           /\ Effected(p, Capped(<<>> \o <<a>>)) = Follow(p, Start, a)
           /\ Effected(p, Capped(<<a>> \o <<>>)) = Follow(p, Start, a)
           /\ Effected(p, Capped((<<>> \o <<>>) \o C)) = Start
           /\ Effected(p, Capped(<<>> \o (<<>> \o C))) = Start
           /\ Effected(p, Capped(<<>> \o <<>>)) = Start
<1> DEFINE c == Effect("COMPARE", NoRef, <<Operand(p.inst, 0), Operand(p.inst, 1)>>)
<1>1. C = <<>> \/ C = <<c>>
  BY DEF CompareEffect
<1> HIDE DEF c
<1>2. <<>> \o C = C
  <2>1. <<>> \o <<>> = <<>> /\ <<>> \o <<c>> = <<c>>
    BY CappedFew, Zenon
  <2> QED BY <1>1, <2>1
<1>3. <<>> \o <<>> = <<>> /\ <<>> \o <<a>> = <<a>> /\ <<a>> \o <<>> = <<a>>
  BY CappedFew, Zenon
<1>4. /\ Effected(p, Capped(C)) = Start /\ Effected(p, Capped(<<a>> \o C)) = Follow(p, Start, a)
  BY CompareIsNoEffect, Zenon
<1>5. Effected(p, Capped(<<>>)) = Start /\ Effected(p, Capped(<<a>>)) = Follow(p, Start, a)
  <2>1. Capped(<<>>) = <<>> /\ Capped(<<a>>) = <<a>>
    BY CappedFew, Zenon
  <2>2. Effected(p, <<>>) = Start
    BY EffectedNone
  <2>3. Effected(p, <<a>>) = Follow(p, Start, a)
    BY EffectedOne
  <2> QED BY <2>1, <2>2, <2>3
<1> QED BY <1>2, <1>3, <1>4, <1>5

\* Two effects, however the analysis puts them together.
LEMMA ShapesTwo ==
    ASSUME NEW p, NEW a, NEW b
    PROVE  LET both == Follow(p, Follow(p, Start, a), b)
           IN  /\ Effected(p, Capped((<<>> \o (<<a>> \o <<b>>)) \o <<>>)) = both
               /\ Effected(p, Capped((<<a>> \o (<<>> \o <<b>>)) \o <<>>)) = both
               /\ Effected(p, Capped(<<a>> \o (<<>> \o <<b>>))) = both
<1>1. /\ <<>> \o <<b>> = <<b>> /\ <<a>> \o <<b>> = <<a, b>> /\ <<>> \o <<a, b>> = <<a, b>>
      /\ <<a, b>> \o <<>> = <<a, b>> /\ Capped(<<a, b>>) = <<a, b>>
  <2>1. <<>> \o <<b>> = <<b>>
    BY CappedFew
  <2>2. /\ <<a>> \o <<b>> = <<a, b>> /\ <<>> \o <<a, b>> = <<a, b>>
        /\ <<a, b>> \o <<>> = <<a, b>> /\ Capped(<<a, b>>) = <<a, b>>
    BY CappedFew
  <2> QED BY <2>1, <2>2
<1>2. Effected(p, <<a, b>>) = Follow(p, Follow(p, Start, a), b)
  BY EffectedTwo
<1> QED BY <1>1, <1>2

\* Materialised addresses are described as such, and by nothing else.
LEMMA NotMaterial ==
    ASSUME NEW p \in Forms, Arch(p) \in {"arm", "aarch64"}, ~NamesAddress(p)
    PROVE  ~p.control.material
  BY FormsAssumption DEF Proper

\* What is reported of an operation, on every architecture.
LEMMA OperatesEffects ==
    ASSUME NEW p \in Forms, Ours(p), Operates(p)
    PROVE  After(p) = Follow(p, Start, Effect(p.does, Operand(p.inst, 0),
                                              <<Operand(p.inst, p.srcs[1]), Operand(p.inst, p.srcs[2])>>))
<1> DEFINE a == Effect(p.does, Operand(p.inst, 0),
                       <<Operand(p.inst, p.srcs[1]), Operand(p.inst, p.srcs[2])>>)
           mn == p.inst.mn
<1>1. /\ p.does \in Operations /\ mn \in Operators(Arch(p)) /\ mn \in NamesOf[p.does] /\ ~Touches(p)
      /\ Writes(p, 0) /\ p.dst = 0 /\ Len(p.inst.ops) \in {2, 3}
      /\ p.srcs = (IF Len(p.inst.ops) = 2 THEN <<0, 1>> ELSE <<1, 2>>)
  BY DEF Operates, Writes, Mn
<1>2. BinaryEffect(p.inst, p.does) = <<a>>
  <2>1. DestinationOperand(p.inst) = 0
    BY <1>1, DestinationIs
  <2>2. CASE Len(p.inst.ops) = 2
    <3>1. p.srcs[1] = 0 /\ p.srcs[2] = 1
      BY <1>1, <2>2
    <3> QED BY <2>1, <2>2, <3>1 DEF BinaryEffect
  <2>3. CASE Len(p.inst.ops) = 3
    <3>1. p.srcs[1] = 1 /\ p.srcs[2] = 2
      BY <1>1, <2>3
    <3> QED BY <2>1, <2>3, <3>1 DEF BinaryEffect
  <2> QED BY <1>1, <2>2, <2>3
<1>3. Accesses(p) = <<>>
  BY <1>1 DEF Accesses
<1>4. ~NamesAddress(p)
  BY <1>1 DEF NamesAddress, Operations
<1> HIDE DEF a
<1>5. CASE Arch(p) = "x86"
  <2>1. mn \in DOMAIN X86Binary /\ X86Binary[mn] = p.does
    BY <1>1, <1>5, BinaryTables DEF Operators
  <2>2. CASE mn = "sub"
    <3>1. Told(p).effects = Capped((<<>> \o <<a>>) \o CompareEffect(p.inst))
      BY <1>2, <1>3, <1>5, <2>1, <2>2, X86EffectsAre
    <3>2. Effected(p, Capped((<<>> \o <<a>>) \o CompareEffect(p.inst))) = Follow(p, Start, a)
      BY ShapesFew
    <3> QED BY <3>1, <3>2 DEF After, a
  <2>3. CASE mn # "sub"
    <3>1. Told(p).effects = Capped((<<>> \o <<a>>) \o <<>>)
      BY <1>2, <1>3, <1>5, <2>1, <2>3, X86EffectsAre
    <3>2. Effected(p, Capped((<<>> \o <<a>>) \o <<>>)) = Follow(p, Start, a)
      BY ShapesFew
    <3> QED BY <3>1, <3>2 DEF After, a
  <2> QED BY <2>2, <2>3
<1>6. CASE Arch(p) = "arm"
  <2>1. mn \in DOMAIN ArmBinary /\ ArmBinary[mn] = p.does
    BY <1>1, <1>6, BinaryTables DEF Operators
  <2>2. ArmEffects(p.inst, p.control) = BinaryEffect(p.inst, ArmBinary[mn]) \o <<>>
    BY <1>4, <1>6, <2>1, NotMaterial, ArmEffectsAre
  <2>3. Told(p).effects = Capped(<<>> \o (<<a>> \o <<>>))
    BY <1>2, <1>3, <1>6, <2>1, <2>2, ToldIs
  <2>4. Effected(p, Capped(<<>> \o (<<a>> \o <<>>))) = Follow(p, Start, a)
    BY ShapesFew
  <2> QED BY <2>3, <2>4 DEF After, a
<1>7. CASE Arch(p) = "aarch64"
  <2>1. mn \in DOMAIN A64Binary /\ A64Binary[mn] = p.does
    BY <1>1, <1>7, BinaryTables DEF Operators
  <2>2. A64Effects(p.inst, p.control) = BinaryEffect(p.inst, A64Binary[mn]) \o <<>>
    BY <1>4, <1>7, <2>1, NotMaterial, A64EffectsAre
  <2>3. Told(p).effects = Capped(<<>> \o (<<a>> \o <<>>))
    BY <1>2, <1>3, <1>7, <2>1, <2>2, ToldIs
  <2>4. Effected(p, Capped(<<>> \o (<<a>> \o <<>>))) = Follow(p, Start, a)
    BY ShapesFew
  <2> QED BY <2>3, <2>4 DEF After, a
<1>8. CASE Arch(p) = "bpf"
  <2>1. mn \in DOMAIN BpfBinary /\ BpfBinary[mn] = p.does
    BY <1>1, <1>8, BinaryTables DEF Operators
  <2>2. BpfEffects(p.inst) = BinaryEffect(p.inst, BpfBinary[mn])
    BY <2>1, BpfEffectsAre
  <2>3. Told(p).effects = Capped(<<>> \o <<a>>)
    BY <1>2, <1>3, <1>8, <2>1, <2>2, ToldIs
  <2>4. Effected(p, Capped(<<>> \o <<a>>)) = Follow(p, Start, a)
    BY ShapesFew
  <2> QED BY <2>3, <2>4 DEF After, a
<1> QED BY <1>5, <1>6, <1>7, <1>8, ToldIs

\* From an operand to the first one, which is a register.
LEMMA CopyEffectIs ==
    ASSUME NEW p \in Forms, Writes(p, 0), IsReg(p, 0), 1 \in Indices(p.inst),
           \A k \in Indices(p.inst) : ~IsMem(p, k)
    PROVE  /\ DestinationOperand(p.inst) = 0 /\ MemoryOperand(p.inst) = -1
           /\ CopyEffect(p.inst) = <<Effect("COPY", Operand(p.inst, 0), <<Operand(p.inst, 1)>>)>>
           /\ MemoryEffects(p.inst) = <<>>
<1>1. DestinationOperand(p.inst) = 0
  <2>1. p.dst = 0
    BY DEF Writes
  <2> QED BY <2>1, DestinationIs
<1>2. MemoryOperand(p.inst) = -1
  BY MemoryIs
<1>3. SourceOperand(p.inst, 0, -1) = 1
  <2>1. 1 \in Indices(p.inst) \ {0, -1} /\ \A k \in Indices(p.inst) \ {0, -1} : k = 0 \/ 1 <= k
    BY ProperForm DEF Indices
  <2> QED BY <2>1, SourceIs
<1> QED BY <1>1, <1>2, <1>3 DEF CopyEffect, MemoryEffects

\* What is reported of a copy.
LEMMA CopiesEffects ==
    ASSUME NEW p \in Forms, Ours(p), Copies(p)
    PROVE  After(p) = Follow(p, Start, Effect("COPY", Operand(p.inst, 0), <<Operand(p.inst, 1)>>))
<1> DEFINE a == Effect("COPY", Operand(p.inst, 0), <<Operand(p.inst, 1)>>)
           mn == p.inst.mn
<1>1. /\ <<Arch(p), mn>> \in {<<"x86", "mov">>, <<"arm", "mov">>, <<"aarch64", "mov">>,
                              <<"aarch64", "movz">>, <<"bpf", "mov">>}
      /\ ~Touches(p) /\ Writes(p, 0) /\ IsReg(p, 0) /\ 1 \in Indices(p.inst)
      /\ \A k \in Indices(p.inst) : ~IsMem(p, k)
      /\ p.does = "move"
  BY DEF Copies, Mn, IsReg, IsImm, IsMem
<1>2. /\ DestinationOperand(p.inst) = 0 /\ MemoryOperand(p.inst) = -1
      /\ CopyEffect(p.inst) = <<a>> /\ MemoryEffects(p.inst) = <<>>
  BY <1>1, CopyEffectIs
<1>3. Accesses(p) = <<>>
  BY <1>1 DEF Accesses
<1>4. ~NamesAddress(p)
  BY <1>1 DEF NamesAddress
<1> HIDE DEF a
<1>5. CASE Arch(p) = "x86"
  <2>1. mn = "mov"
    BY <1>1, <1>5
  <2>2. MemoryOperand(p.inst) < 0 /\ DestinationOperand(p.inst) >= 0
    BY <1>2
  <2>3. Told(p).effects = Capped((<<>> \o <<a>>) \o <<>>)
    BY <1>2, <1>5, <2>1, <2>2, X86EffectsAre
  <2>4. Effected(p, Capped((<<>> \o <<a>>) \o <<>>)) = Follow(p, Start, a)
    BY ShapesFew
  <2> QED BY <2>3, <2>4 DEF After, a
<1>6. CASE Arch(p) = "arm"
  <2>1. mn = "mov"
    BY <1>1, <1>6
  <2>2. ArmEffects(p.inst, p.control) = CopyEffect(p.inst) \o <<>>
    BY <1>4, <1>6, <2>1, NotMaterial, ArmEffectsAre
  <2>3. Told(p).effects = Capped(<<>> \o (<<a>> \o <<>>))
    BY <1>2, <1>3, <1>6, <2>2, ToldIs
  <2>4. Effected(p, Capped(<<>> \o (<<a>> \o <<>>))) = Follow(p, Start, a)
    BY ShapesFew
  <2> QED BY <2>3, <2>4 DEF After, a
<1>7. CASE Arch(p) = "aarch64"
  <2>1. mn \in {"mov", "movz"}
    BY <1>1, <1>7
  <2>2. A64Effects(p.inst, p.control) = CopyEffect(p.inst) \o <<>>
    BY <1>4, <1>7, <2>1, NotMaterial, A64EffectsAre
  <2>3. Told(p).effects = Capped(<<>> \o (<<a>> \o <<>>))
    BY <1>2, <1>3, <1>7, <2>2, ToldIs
  <2>4. Effected(p, Capped(<<>> \o (<<a>> \o <<>>))) = Follow(p, Start, a)
    BY ShapesFew
  <2> QED BY <2>3, <2>4 DEF After, a
<1>8. CASE Arch(p) = "bpf"
  <2>1. mn = "mov"
    BY <1>1, <1>8
  <2>2. BpfEffects(p.inst) = CopyEffect(p.inst)
    BY <2>1, BpfEffectsAre
  <2>3. Told(p).effects = Capped(<<>> \o <<a>>)
    BY <1>2, <1>3, <1>8, <2>2, ToldIs
  <2>4. Effected(p, Capped(<<>> \o <<a>>)) = Follow(p, Start, a)
    BY ShapesFew
  <2> QED BY <2>3, <2>4 DEF After, a
<1> QED BY <1>5, <1>6, <1>7, <1>8, ToldIs

\* From memory to the first of two operands, a register.
LEMMA LoadEffectIs ==
    ASSUME NEW p \in Forms, Writes(p, 0), IsReg(p, 0), IsMem(p, 1), Len(p.inst.ops) = 2,
           p.inst.cls # "store"
    PROVE  /\ DestinationOperand(p.inst) = 0 /\ MemoryOperand(p.inst) = 1
           /\ MemoryEffects(p.inst) = <<Effect("LOAD", Operand(p.inst, 0), <<Operand(p.inst, 1)>>)>>
<1>1. DestinationOperand(p.inst) = 0
  <2>1. p.dst = 0
    BY DEF Writes
  <2> QED BY <2>1, DestinationIs
<1>2. MemoryOperand(p.inst) = 1
  <2>1. \A k \in Indices(p.inst) : IsMem(p, k) => 1 <= k
    BY DEF Indices, IsMem, IsReg
  <2> QED BY <2>1, MemoryIs
<1> QED BY <1>1, <1>2 DEF MemoryEffects

ExtensionOf(p) == IF p.signed THEN "SIGN_EXTEND" ELSE "ZERO_EXTEND"

\* What is reported of an extension: its source, then the extension.
LEMMA WidensEffects ==
    ASSUME NEW p \in Forms, Ours(p), Widens(p)
    PROVE  \E kind \in {"COPY", "LOAD"} :
              After(p) = Follow(p, Follow(p, Start, Effect(kind, Operand(p.inst, 0), <<Operand(p.inst, 1)>>)),
                                Effect(ExtensionOf(p), Operand(p.inst, 0), <<Operand(p.inst, 0)>>))
<1> DEFINE a(kind) == Effect(kind, Operand(p.inst, 0), <<Operand(p.inst, 1)>>)
           b  == Effect(ExtensionOf(p), Operand(p.inst, 0), <<Operand(p.inst, 0)>>)
           mn == p.inst.mn
           mem == MemoryOperand(p.inst)
<1>1. /\ Arch(p) = "x86" /\ mn \in {"movsx", "movsxd", "movzx"} /\ p.inst.cls # "store"
      /\ p.signed = (mn # "movzx")
      /\ Writes(p, 0) /\ p.dst = 0 /\ IsReg(p, 0) /\ Len(p.inst.ops) = 2
      /\ IsReg(p, 1) \/ IsMem(p, 1)
  BY DEF Widens, Writes, Mn
<1>2. DestinationOperand(p.inst) = 0
  BY <1>1, DestinationIs
<1>3. ExtendEffect(p.inst, X86Extension[mn]) = <<b>>
  <2>1. X86Extension[mn] = ExtensionOf(p)
    BY <1>1, TableDomains DEF ExtensionOf
  <2> QED BY <1>2, <2>1 DEF ExtendEffect
<1>5. /\ mem < 0 => Told(p).effects
                      = Capped((MemoryEffects(p.inst) \o (CopyEffect(p.inst) \o <<b>>)) \o <<>>)
      /\ ~(mem < 0) => Told(p).effects = Capped((MemoryEffects(p.inst) \o (<<>> \o <<b>>)) \o <<>>)
  <2>1. mn \in DOMAIN X86Extension
    BY <1>1, TableDomains
  <2> HIDE DEF b
  <2> QED BY <1>1, <1>3, <2>1, X86EffectsAre
<1> HIDE DEF b, mem
<1>6. CASE IsReg(p, 1)
  <2>1. \A k \in Indices(p.inst) : ~IsMem(p, k)
    BY <1>1, <1>6 DEF Indices, IsReg, IsMem
  <2>2. mem = -1 /\ CopyEffect(p.inst) = <<a("COPY")>> /\ MemoryEffects(p.inst) = <<>>
    BY <1>1, <1>6, <2>1, CopyEffectIs DEF IsReg, mem
  <2> HIDE DEF a
  <2>3. Told(p).effects = Capped((<<>> \o (<<a("COPY")>> \o <<b>>)) \o <<>>)
    BY <1>5, <2>2
  <2>4. Effected(p, Capped((<<>> \o (<<a("COPY")>> \o <<b>>)) \o <<>>))
          = Follow(p, Follow(p, Start, a("COPY")), b)
    BY ShapesTwo
  <2>5. After(p) = Follow(p, Follow(p, Start, a("COPY")), b)
    BY <2>3, <2>4 DEF After
  <2> QED BY <2>5 DEF a, b
<1>7. CASE IsMem(p, 1)
  <2>1. mem = 1 /\ MemoryEffects(p.inst) = <<a("LOAD")>>
    BY <1>1, <1>7, LoadEffectIs DEF mem
  <2> HIDE DEF a
  <2>2. Told(p).effects = Capped((<<a("LOAD")>> \o (<<>> \o <<b>>)) \o <<>>)
    BY <1>5, <2>1
  <2>3. Effected(p, Capped((<<a("LOAD")>> \o (<<>> \o <<b>>)) \o <<>>))
          = Follow(p, Follow(p, Start, a("LOAD")), b)
    BY ShapesTwo
  <2>4. After(p) = Follow(p, Follow(p, Start, a("LOAD")), b)
    BY <2>2, <2>3 DEF After
  <2> QED BY <2>4 DEF a, b
<1> QED BY <1>1, <1>6, <1>7

\* Of an instruction with no mnemonic of its own only the access is reported.
LEMMA PlainEffects ==
    ASSUME NEW p \in Forms, Ours(p), Plain(p), ~NamesAddress(p), NEW a
    PROVE  /\ Accesses(p) = <<>> => After(p) = Start
           /\ Accesses(p) = <<a>> => After(p) = Follow(p, Start, a)
<1> DEFINE mn  == p.inst.mn
           acc == Accesses(p)
<1>1. \/ Told(p).effects = Capped((acc \o <<>>) \o <<>>)
      \/ Told(p).effects = Capped(acc \o (<<>> \o <<>>))
      \/ Told(p).effects = Capped(acc \o <<>>)
  <2>1. CASE Arch(p) = "x86"
    <3>1. mn \notin DOMAIN X86Binary \cup Special("x86")
      BY <2>1 DEF Plain, Operators, Mn
    <3> QED BY <2>1, <3>1, X86EffectsAre
  <2>2. CASE Arch(p) = "arm"
    <3>1. mn \notin DOMAIN ArmBinary \cup Special("arm")
      BY <2>2 DEF Plain, Operators, Mn
    <3>2. ArmEffects(p.inst, p.control) = <<>> \o <<>>
      BY <2>2, <3>1, NotMaterial, ArmEffectsAre
    <3> QED BY <2>2, <3>2, ToldIs
  <2>3. CASE Arch(p) = "aarch64"
    <3>1. mn \notin DOMAIN A64Binary \cup Special("aarch64")
      BY <2>3 DEF Plain, Operators, Mn
    <3>2. A64Effects(p.inst, p.control) = <<>> \o <<>>
      BY <2>3, <3>1, NotMaterial, A64EffectsAre
    <3> QED BY <2>3, <3>2, ToldIs
  <2>4. CASE Arch(p) = "bpf"
    <3>1. mn \notin DOMAIN BpfBinary \cup Special("bpf")
      BY <2>4 DEF Plain, Operators, Mn
    <3>2. BpfEffects(p.inst) = <<>>
      BY <3>1, BpfEffectsAre
    <3> QED BY <2>4, <3>2, ToldIs
  <2> QED BY <2>1, <2>2, <2>3, <2>4, ToldIs
<1>2. /\ Effected(p, Capped((<<a>> \o <<>>) \o <<>>)) = Follow(p, Start, a)
      /\ Effected(p, Capped(<<a>> \o (<<>> \o <<>>))) = Follow(p, Start, a)
      /\ Effected(p, Capped(<<a>> \o <<>>)) = Follow(p, Start, a)
      /\ Effected(p, Capped((<<>> \o <<>>) \o <<>>)) = Start
      /\ Effected(p, Capped(<<>> \o (<<>> \o <<>>))) = Start
      /\ Effected(p, Capped(<<>> \o <<>>)) = Start
  BY ShapesFew
<1> HIDE DEF acc
<1>3. ASSUME acc = <<>>
      PROVE  After(p) = Start
  BY <1>1, <1>2, <1>3 DEF After
<1>4. ASSUME acc = <<a>>
      PROVE  After(p) = Follow(p, Start, a)
  BY <1>1, <1>2, <1>4 DEF After
<1> QED BY <1>3, <1>4 DEF acc

\* What is reported of a load.
LEMMA LoadsEffects ==
    ASSUME NEW p \in Forms, Ours(p), Loads(p)
    PROVE  LET a == Effect("LOAD", Operand(p.inst, 0), <<Operand(p.inst, 1)>>)
               b == Effect("SIGN_EXTEND", Operand(p.inst, 0), <<Operand(p.inst, 0)>>)
           IN  IF p.signed THEN After(p) = Follow(p, Follow(p, Start, a), b)
               ELSE After(p) = Follow(p, Start, a)
<1> DEFINE a == Effect("LOAD", Operand(p.inst, 0), <<Operand(p.inst, 1)>>)
           b == Effect("SIGN_EXTEND", Operand(p.inst, 0), <<Operand(p.inst, 0)>>)
           mn == p.inst.mn
<1>1. /\ p.does = "move" /\ Len(p.inst.ops) = 2 /\ Writes(p, 0) /\ IsReg(p, 0) /\ IsMem(p, 1)
      /\ p.inst.cls # "store"
      /\ \/ Arch(p) = "x86" /\ mn = "mov" /\ ~p.signed
         \/ Plain(p) /\ p.inst.cls = "load" /\ ~p.signed
         \/ Arch(p) = "aarch64" /\ mn \in {"ldrsw", "ldrsh", "ldrsb"} /\ p.inst.cls = "load" /\ p.signed
  BY DEF Loads, Mn
<1>2. /\ DestinationOperand(p.inst) = 0 /\ MemoryOperand(p.inst) = 1
      /\ MemoryEffects(p.inst) = <<a>>
  BY <1>1, LoadEffectIs
<1>3. ~NamesAddress(p)
  BY <1>1 DEF NamesAddress
<1> HIDE DEF a
<1>4. CASE Arch(p) = "x86" /\ mn = "mov" /\ ~p.signed
  <2>1. Told(p).effects = Capped((<<a>> \o <<>>) \o <<>>)
    <3>1. ~(MemoryOperand(p.inst) < 0)
      BY <1>2
    <3> QED BY <1>2, <1>4, <3>1, X86EffectsAre
  <2>2. Effected(p, Capped((<<a>> \o <<>>) \o <<>>)) = Follow(p, Start, a)
    BY ShapesFew
  <2> QED BY <1>4, <2>1, <2>2 DEF After, a
<1>5. CASE Plain(p) /\ p.inst.cls = "load" /\ ~p.signed
  <2>1. Accesses(p) = <<a>>
    BY <1>2, <1>5 DEF Accesses, Touches
  <2>2. After(p) = Follow(p, Start, a)
    BY <1>3, <1>5, <2>1, PlainEffects
  <2> QED BY <1>5, <2>2 DEF a
<1>6. CASE Arch(p) = "aarch64" /\ mn \in {"ldrsw", "ldrsh", "ldrsb"} /\ p.inst.cls = "load" /\ p.signed
  <2>1. Accesses(p) = <<a>>
    BY <1>2, <1>6 DEF Accesses, Touches
  <2>2. ExtendEffect(p.inst, "SIGN_EXTEND") = <<b>>
    BY <1>2 DEF ExtendEffect
  <2>3. A64Effects(p.inst, p.control) = <<>> \o <<b>>
    <3>1. A64Effects(p.inst, p.control) = <<>> \o ExtendEffect(p.inst, "SIGN_EXTEND")
      BY <1>3, <1>6, NotMaterial, A64EffectsAre
    <3> QED BY <2>2, <3>1
  <2> HIDE DEF b
  <2>4. Told(p).effects = Capped(<<a>> \o (<<>> \o <<b>>))
    BY <1>6, <2>1, <2>3, ToldIs
  <2>5. Effected(p, Capped(<<a>> \o (<<>> \o <<b>>))) = Follow(p, Follow(p, Start, a), b)
    BY ShapesTwo
  <2> QED BY <1>6, <2>4, <2>5 DEF After, a, b
<1> QED BY <1>1, <1>4, <1>5, <1>6

\* What is reported of a store.
LEMMA StoresEffects ==
    ASSUME NEW p \in Forms, Ours(p), Stores(p)
    PROVE  \E m \in {0, 1} :
              /\ Writes(p, m) /\ p.dst = m /\ IsMem(p, m) /\ p.srcs = <<1 - m>> /\ 1 - m \in Indices(p.inst)
              /\ \/ IsReg(p, 1 - m)
                 \/ IsImm(p, 1 - m) /\ p.width = Op(p, m).width
              /\ After(p) = Follow(p, Start, Effect("STORE", Operand(p.inst, m), <<Operand(p.inst, 1 - m)>>))
<1>1. PICK m \in {0, 1} :
         /\ Writes(p, m) /\ IsMem(p, m) /\ p.srcs = <<1 - m>>
         /\ m = 1 => "read" \in Op(p, 0).flags
         /\ \/ IsReg(p, 1 - m)
            \/ IsImm(p, 1 - m) /\ p.width = Op(p, m).width
  BY DEF Stores
<1> DEFINE a == Effect("STORE", Operand(p.inst, m), <<Operand(p.inst, 1 - m)>>)
           mn == p.inst.mn
<1>2. /\ \/ Arch(p) = "x86" /\ mn = "mov"
         \/ Plain(p) /\ p.inst.cls = "store"
      /\ p.does = "move" /\ Len(p.inst.ops) = 2 /\ Indices(p.inst) = {0, 1}
  BY DEF Stores, Mn, Indices
<1>3. p.dst = m /\ 1 - m \in Indices(p.inst) /\ ~IsMem(p, 1 - m)
  BY <1>1 DEF Writes, IsReg, IsImm, IsMem
<1>4. DestinationOperand(p.inst) = m
  BY <1>1, <1>3, DestinationIs
<1>5. MemoryOperand(p.inst) = m
  <2>1. \A k \in Indices(p.inst) : IsMem(p, k) => m <= k
    BY <1>2, <1>3
  <2> QED BY <1>1, <2>1, MemoryIs
<1>6. SourceOperand(p.inst, m, -1) = 1 - m
  <2>1. /\ 1 - m \in Indices(p.inst) \ {m, -1} /\ ("read" \in Op(p, 1 - m).flags \/ 1 - m # 0)
        /\ \A k \in Indices(p.inst) \ {m, -1} : k = 0 \/ 1 - m <= k
        /\ m = 0 \/ 1 - m = 0
    BY <1>1, <1>2
  <2>2. PICK n : n = 1 - m
    OBVIOUS
  <2> QED BY <2>1, <2>2, SourceIs
<1>7. MemoryEffects(p.inst) = <<a>>
  BY <1>4, <1>5, <1>6 DEF MemoryEffects
<1>8. ~NamesAddress(p)
  BY <1>2 DEF NamesAddress
<1>9. After(p) = Follow(p, Start, a)
  <2> HIDE DEF a
  <2>1. CASE Arch(p) = "x86" /\ mn = "mov"
    <3>1. Told(p).effects = Capped((<<a>> \o <<>>) \o <<>>)
      <4>1. ~(MemoryOperand(p.inst) < 0)
        BY <1>5
      <4> QED BY <1>7, <2>1, <4>1, X86EffectsAre
    <3>2. Effected(p, Capped((<<a>> \o <<>>) \o <<>>)) = Follow(p, Start, a)
      BY ShapesFew
    <3> QED BY <3>1, <3>2 DEF After
  <2>2. CASE Plain(p) /\ p.inst.cls = "store"
    <3>1. Accesses(p) = <<a>>
      BY <1>7, <2>2 DEF Accesses, Touches
    <3> QED BY <1>8, <2>2, <3>1, PlainEffects
  <2> QED BY <1>2, <2>1, <2>2
<1> QED BY <1>1, <1>3, <1>9

\* What is reported of an instruction that names an address.
LEMMA NamesEffects ==
    ASSUME NEW p \in Forms, Ours(p), NamesAddress(p)
    PROVE  \E w : After(p) = Follow(p, Start, Effect("ADDRESS", Operand(p.inst, 0),
                                                     <<Immediate(p.control.target, w)>>))
<1> DEFINE a(w) == Effect("ADDRESS", Operand(p.inst, 0), <<Immediate(p.control.target, w)>>)
           mn == p.inst.mn
<1>1. /\ \/ Arch(p) = "x86" /\ mn = "lea" /\ p.control.pcrel
         \/ Arch(p) = "arm" /\ (mn = "adr" \/ (p.control.material /\ Plain(p)))
         \/ Arch(p) = "aarch64" /\ (mn \in {"adr", "adrp"} \/ (p.control.material /\ Plain(p)))
      /\ ~Touches(p) /\ Writes(p, 0) /\ p.dst = 0
  BY DEF NamesAddress, Mn, Writes
<1>2. DestinationOperand(p.inst) = 0
  BY <1>1, DestinationIs
<1>3. Accesses(p) = <<>>
  BY <1>1 DEF Accesses
<1>4. \A w : AddressEffect(p.inst, Immediate(p.control.target, w)) = <<a(w)>>
  BY <1>2 DEF AddressEffect
<1> HIDE DEF a
<1>5. CASE Arch(p) = "x86" /\ mn = "lea" /\ p.control.pcrel
  <2>1. Told(p).effects = Capped((<<>> \o <<a(64)>>) \o <<>>)
    <3>1. DestinationOperand(p.inst) >= 0
      BY <1>2
    <3>2. Told(p).effects
            = Capped((<<>> \o AddressEffect(p.inst, Immediate(p.control.target, 64))) \o <<>>)
      BY <1>3, <1>5, <3>1, X86EffectsAre
    <3> QED BY <1>4, <3>2
  <2>2. Effected(p, Capped((<<>> \o <<a(64)>>) \o <<>>)) = Follow(p, Start, a(64))
    BY ShapesFew
  <2> QED BY <2>1, <2>2 DEF After, a
<1>6. CASE Arch(p) = "arm" /\ (mn = "adr" \/ (p.control.material /\ Plain(p)))
  <2>1. mn = "adr" \/ (p.control.material /\ mn \notin {"tbb", "tbh", "cmp"})
    BY <1>6 DEF Plain, Special, Mn
  <2>2. ArmEffects(p.inst, p.control) = AddressEffect(p.inst, Immediate(p.control.target, 32)) \o <<>>
    <3>1. DestinationOperand(p.inst) >= 0
      BY <1>2
    <3> QED BY <2>1, <3>1, ArmEffectsAre
  <2>3. Told(p).effects = Capped(<<>> \o (<<a(32)>> \o <<>>))
    BY <1>3, <1>4, <1>6, <2>2, ToldIs
  <2>4. Effected(p, Capped(<<>> \o (<<a(32)>> \o <<>>))) = Follow(p, Start, a(32))
    BY ShapesFew
  <2> QED BY <2>3, <2>4 DEF After, a
<1>7. CASE Arch(p) = "aarch64" /\ (mn \in {"adr", "adrp"} \/ (p.control.material /\ Plain(p)))
  <2>1. mn \in {"adr", "adrp"} \/ (p.control.material /\ mn \notin {"ldrsw", "ldrsh", "ldrsb"})
    BY <1>7 DEF Plain, Special, Mn
  <2>2. A64Effects(p.inst, p.control) = AddressEffect(p.inst, Immediate(p.control.target, 64)) \o <<>>
    <3>1. DestinationOperand(p.inst) >= 0
      BY <1>2
    <3> QED BY <2>1, <3>1, A64EffectsAre
  <2>3. Told(p).effects = Capped(<<>> \o (<<a(64)>> \o <<>>))
    BY <1>3, <1>4, <1>7, <2>2, ToldIs
  <2>4. Effected(p, Capped(<<>> \o (<<a(64)>> \o <<>>))) = Follow(p, Start, a(64))
    BY ShapesFew
  <2> QED BY <2>3, <2>4 DEF After, a
<1> QED BY <1>1, <1>5, <1>6, <1>7

\* What is not described is reported as nothing, or as an unknown address.
LEMMA AltersEffects ==
    ASSUME NEW p \in Forms, Ours(p), Alters(p)
    PROVE  \/ After(p) = Start
           \/ /\ Writes(p, 0) /\ IsReg(p, 0) /\ p.dst = 0
              /\ \E src : /\ src.kind # "immediate"
                          /\ After(p) = Follow(p, Start, Effect("ADDRESS", Operand(p.inst, 0), <<src>>))
<1> DEFINE src == Operand(p.inst, MemoryOperand(p.inst))
           a   == Effect("ADDRESS", Operand(p.inst, 0), <<src>>)
           mn  == p.inst.mn
<1>1. /\ \/ Plain(p)
         \/ Arch(p) = "x86" /\ mn = "lea" /\ ~p.control.pcrel /\ Writes(p, 0) /\ IsReg(p, 0)
      /\ ~Touches(p) /\ p.does = "opaque"
  BY DEF Alters, Mn
<1>2. Accesses(p) = <<>>
  BY <1>1 DEF Accesses
<1>3. ~NamesAddress(p)
  BY <1>1 DEF NamesAddress
<1>4. CASE Plain(p)
  BY <1>2, <1>3, <1>4, PlainEffects
<1>5. CASE Arch(p) = "x86" /\ mn = "lea" /\ ~p.control.pcrel /\ Writes(p, 0) /\ IsReg(p, 0)
  <2>1. p.dst = 0
    BY <1>5 DEF Writes
  <2>2. DestinationOperand(p.inst) = 0
    BY <1>5, <2>1, DestinationIs
  <2>3. src.kind # "immediate"
    BY DEF Operand, Ref, NoRef
  <2>4. AddressEffect(p.inst, src) = <<a>>
    BY <2>2 DEF AddressEffect
  <2>5. Told(p).effects = Capped((<<>> \o <<a>>) \o <<>>)
    <3>1. DestinationOperand(p.inst) >= 0
      BY <2>2
    <3>2. Told(p).effects = Capped((<<>> \o AddressEffect(p.inst, src)) \o <<>>)
      BY <1>2, <1>5, <3>1, X86EffectsAre
    <3> QED BY <2>4, <3>2
  <2> HIDE DEF a
  <2>6. Effected(p, Capped((<<>> \o <<a>>) \o <<>>)) = Follow(p, Start, a)
    BY ShapesFew
  <2>7. After(p) = Follow(p, Start, a)
    BY <2>5, <2>6 DEF After
  <2> QED BY <1>5, <2>1, <2>3, <2>7 DEF a
<1> QED BY <1>1, <1>4, <1>5

IsTable(p) == Arch(p) = "arm" /\ p.does = "table"

\* What is reported of an instruction without a destination.
LEMMA KeepsEffects ==
    ASSUME NEW p \in Forms, Ours(p), Keeps(p)
    PROVE  /\ ~IsTable(p) => After(p) = Start
           /\ IsTable(p) => After(p) = Effected(p, TableEffects(p.inst)) /\ MemoryOperand(p.inst) = 0
<1> DEFINE mn == p.inst.mn
<1>1. /\ p.dst = -1
      /\ ~Touches(p) \/ \A n \in Indices(p.inst) : ~IsMem(p, n)
      /\ \/ Plain(p) /\ p.does \in {"none", "branch"}
         \/ Arch(p) \in {"x86", "arm"} /\ mn = "cmp" /\ p.does = "none"
         \/ Arch(p) \in {"arm", "aarch64"} /\ mn \in {"cbz", "cbnz"} /\ p.does = "test"
         \/ Arch(p) = "arm" /\ p.does = "table" /\ IsMem(p, 0) /\ mn \in {"tbb", "tbh"}
  BY DEF Keeps, Mn
<1>2. Accesses(p) = <<>>
  <2>1. CASE ~Touches(p)
    BY <2>1 DEF Accesses
  <2>2. CASE \A n \in Indices(p.inst) : ~IsMem(p, n)
    <3>1. MemoryOperand(p.inst) = -1
      BY <2>2, MemoryIs
    <3> QED BY <3>1 DEF Accesses, MemoryEffects
  <2> QED BY <1>1, <2>1, <2>2
<1>3. ~NamesAddress(p)
  BY <1>1 DEF NamesAddress
<1>4. ASSUME Plain(p), p.does \in {"none", "branch"}
      PROVE  After(p) = Start /\ ~IsTable(p)
  BY <1>2, <1>3, <1>4, PlainEffects DEF IsTable
<1>5. ASSUME Arch(p) \in {"x86", "arm"}, mn = "cmp", p.does = "none"
      PROVE  After(p) = Start /\ ~IsTable(p)
  <2>1. CASE Arch(p) = "x86"
    <3>1. Told(p).effects = Capped((<<>> \o <<>>) \o CompareEffect(p.inst))
      BY <1>2, <1>5, <2>1, X86EffectsAre
    <3>2. Effected(p, Capped((<<>> \o <<>>) \o CompareEffect(p.inst))) = Start
      BY ShapesFew
    <3> QED BY <1>5, <3>1, <3>2 DEF After, IsTable
  <2>2. CASE Arch(p) = "arm"
    <3>1. ArmEffects(p.inst, p.control) = <<>> \o CompareEffect(p.inst)
      BY <1>3, <1>5, <2>2, NotMaterial, ArmEffectsAre
    <3>2. Told(p).effects = Capped(<<>> \o (<<>> \o CompareEffect(p.inst)))
      BY <1>2, <2>2, <3>1, ToldIs
    <3>3. Effected(p, Capped(<<>> \o (<<>> \o CompareEffect(p.inst)))) = Start
      BY ShapesFew
    <3> QED BY <1>5, <3>2, <3>3 DEF After, IsTable
  <2> QED BY <1>5, <2>1, <2>2
<1>6. ASSUME Arch(p) \in {"arm", "aarch64"}, mn \in {"cbz", "cbnz"}, p.does = "test"
      PROVE  After(p) = Start /\ ~IsTable(p)
  <2>1. Told(p).effects = Capped(<<>> \o (<<>> \o <<>>))
    <3>1. CASE Arch(p) = "arm"
      <4>1. ArmEffects(p.inst, p.control) = <<>> \o <<>>
        BY <1>3, <1>6, <3>1, NotMaterial, ArmEffectsAre
      <4> QED BY <1>2, <3>1, <4>1, ToldIs
    <3>2. CASE Arch(p) = "aarch64"
      <4>1. A64Effects(p.inst, p.control) = <<>> \o <<>>
        BY <1>3, <1>6, <3>2, NotMaterial, A64EffectsAre
      <4> QED BY <1>2, <3>2, <4>1, ToldIs
    <3> QED BY <1>6, <3>1, <3>2
  <2>2. Effected(p, Capped(<<>> \o (<<>> \o <<>>))) = Start
    BY ShapesFew
  <2> QED BY <1>6, <2>1, <2>2 DEF After, IsTable
<1>7. ASSUME Arch(p) = "arm", p.does = "table", IsMem(p, 0), mn \in {"tbb", "tbh"}
      PROVE  After(p) = Effected(p, TableEffects(p.inst)) /\ MemoryOperand(p.inst) = 0 /\ IsTable(p)
  <2>1. MemoryOperand(p.inst) = 0
    <3>1. \A k \in Indices(p.inst) : IsMem(p, k) => 0 <= k
      BY DEF Indices
    <3> QED BY <1>7, <3>1, MemoryIs
  <2>2. ArmEffects(p.inst, p.control) = TableEffects(p.inst) \o <<>>
    <3>1. MemoryOperand(p.inst) >= 0
      BY <2>1
    <3> QED BY <1>7, <3>1, ArmEffectsAre
  <2>3. Told(p).effects = Capped(<<>> \o (TableEffects(p.inst) \o <<>>))
    BY <1>2, <1>7, <2>2, ToldIs
  <2>4. Capped(<<>> \o (TableEffects(p.inst) \o <<>>)) = TableEffects(p.inst)
    <3>1. \E x, y, z, u : TableEffects(p.inst) = <<x, y, z, u>>
      BY DEF TableEffects
    <3> QED BY <3>1, CappedFew
  <2> QED BY <1>7, <2>1, <2>3, <2>4 DEF After, IsTable
<1> QED BY <1>1, <1>4, <1>5, <1>6, <1>7

\* What is learned of a register leaves an environment.
LEMMA LearnEnv ==
    ASSUME NEW p \in Forms, NEW n \in Indices(p.inst), IsReg(p, n), NEW e, Env(e), NEW v,
           v \in {Unknown} \cup 0..(2 ^ BitsOf[Op(p, n).width] - 1)
    PROVE  Env(Learn(p, e, Operand(p.inst, n), v))
<1> DEFINE r == Operand(p.inst, n)
           o == Op(p, n)
           K == e.know
<1>0. PICK e2 : e2 = Learn(p, e, r, v)
  OBVIOUS
<1>1. /\ r.kind = "operand" /\ r.index = n /\ r.reg = o.reg
  BY OperandIs
<1>2. o.kind = "reg" /\ o.reg.fam \in Families /\ o.reg.width \in DOMAIN BitsOf /\ o.width = o.reg.width
  BY ProperForm DEF IsReg, OperandOK
<1> HIDE DEF r
<1>3. e2 = [e EXCEPT !.know[o.reg.fam] = MergeIf(@, o.reg, v), !.named = @ \cup {n}]
  BY <1>0, <1>1, <1>2 DEF Learn, o
<1>4. K \in [Families -> Believable] /\ e.cells \in [Places -> Believable]
  BY DEF Env
<1>5. PICK T, G, P, N, C : e = [know |-> K, cells |-> C, temps |-> T, target |-> G,
                                copied |-> P, named |-> N]
  BY DEF Env
<1>6. PICK m : m = MergeIf(K[o.reg.fam], o.reg, v)
  OBVIOUS
<1> HIDE DEF K, o
<1>7. e2 = [know |-> [K EXCEPT ![o.reg.fam] = m], cells |-> C, temps |-> T, target |-> G,
            copied |-> P, named |-> N \cup {n}]
  BY <1>3, <1>5, <1>6
<1>8. m \in Believable
  <2>1. CASE v = Unknown \/ (K[o.reg.fam] = Unknown /\ o.reg.width < 32)
    BY <1>6, <2>1 DEF MergeIf, Believable
  <2>2. CASE ~(v = Unknown \/ (K[o.reg.fam] = Unknown /\ o.reg.width < 32))
    <3>1. m = Merge(K[o.reg.fam], o.reg, v) /\ v \in 0..(2 ^ BitsOf[o.reg.width] - 1)
      <4>1. v \in 0..(2 ^ BitsOf[o.reg.width] - 1)
        BY <1>2, <2>2 DEF o
      <4> QED BY <1>6, <2>2, <4>1 DEF MergeIf
    <3>2. CASE K[o.reg.fam] \in Word
      BY <1>2, <3>1, <3>2, MergeFacts DEF Believable
    <3>3. CASE K[o.reg.fam] = Unknown
      <4>1. o.reg.width >= 32
        BY <1>2, <2>2, <3>3, BitsAssumption
      <4>2. m \in {0, v}
        BY <3>1, <4>1 DEF Merge
      <4>3. v \in Word /\ 0 \in Word
        BY <1>2, <3>1, WidthBits DEF Word
      <4> QED BY <4>2, <4>3 DEF Believable
    <3> QED BY <1>2, <1>4, <3>2, <3>3 DEF Believable
  <2> QED BY <2>1, <2>2
<1>9. [K EXCEPT ![o.reg.fam] = m] \in [Families -> Believable]
  BY <1>2, <1>4, <1>8
<1>10. C \in [Places -> Believable]
  BY <1>4, <1>5
<1> QED BY <1>0, <1>7, <1>9, <1>10 DEF Env, r

\* Noting a width changes nothing else.
LEMMA CopyNotedFacts ==
    ASSUME NEW e, Env(e), NEW w
    PROVE  /\ Env(CopyNoted(e, w)) /\ CopyNoted(e, w).know = e.know /\ CopyNoted(e, w).copied = w
           /\ CopyNoted(e, w).cells = e.cells /\ CopyNoted(e, w).named = e.named
<1> DEFINE K == e.know
           C == e.cells
           N == e.named
<1>1. PICK T, G, P : e = [know |-> K, cells |-> C, temps |-> T, target |-> G,
                          copied |-> P, named |-> N]
  BY DEF Env
<1>2. K \in [Families -> Believable] /\ C \in [Places -> Believable]
  BY DEF Env
<1> HIDE DEF K, C, N
<1>3. CopyNoted(e, w) = [know |-> K, cells |-> C, temps |-> T, target |-> G, copied |-> w, named |-> N]
  BY <1>1 DEF CopyNoted
<1> QED BY <1>2, <1>3 DEF Env, K, C, N

\* What After(p) has to be: nothing believed that is not so and, if the
\* instruction is described and everything was known, everything known.
Right(p) ==
    /\ Truthful(p, After(p))
    /\ ~p.vague /\ KnowsAll(Start) => Complete(p, After(p))

\* The value of a register or memory operand.
LEMMA SeenIs ==
    ASSUME NEW p \in Forms, NEW n \in Indices(p.inst), NEW e
    PROVE  /\ IsReg(p, n) => Seen(p, e, Operand(p.inst, n)) = LowIf(e.know[Op(p, n).reg.fam], Op(p, n).width)
           /\ IsMem(p, n) => Seen(p, e, Operand(p.inst, n)) = LowIf(e.cells[Op(p, n).cell], Op(p, n).width)
<1>0. PICK r : r = Operand(p.inst, n)
  OBVIOUS
<1>1. /\ r.kind = "operand" /\ r.index = n /\ r.width = Op(p, n).width
      /\ IsReg(p, n) => r.reg = Op(p, n).reg
  BY <1>0, OperandIs
<1>2. IsReg(p, n) => Seen(p, e, r) = LowIf(e.know[Op(p, n).reg.fam], Op(p, n).width)
  BY <1>1 DEF Seen, IsReg
<1>3. IsMem(p, n) => Seen(p, e, r) = LowIf(e.cells[Op(p, n).cell], Op(p, n).width)
  BY <1>1 DEF Seen, IsMem
<1> QED BY <1>0, <1>2, <1>3

\* A copy or load into a register and its extension there.
LEMMA TwoEffects ==
    ASSUME TrackTypeOK, KnowledgeHolds, NEW p \in Forms, p.does = "move", p.srcs = << 1 >>, p.dst = 0,
           Writes(p, 0), IsReg(p, 0), IsReg(p, 1) \/ IsMem(p, 1), Op(p, 1).width <= Op(p, 0).width,
           NEW v1, v1 = LowTo(Seen(p, Start, Operand(p.inst, 1)), WidthOf(p, 0)),
           NEW e1, e1 = CopyNoted(Learn(p, Start, Operand(p.inst, 0), v1), Op(p, 1).width),
           NEW v2, v2 = IF Seen(p, e1, Operand(p.inst, 0)) = Unknown THEN Unknown
                        ELSE Extended(Seen(p, e1, Operand(p.inst, 0)), BitsOf[Op(p, 1).width],
                                      WidthOf(p, 0), p.signed),
           NEW e, e = Learn(p, e1, Operand(p.inst, 0), v2)
    PROVE  /\ Truthful(p, e)
           /\ KnowsAll(Start) /\ (IsMem(p, 1) => Op(p, 1).width # 0) => Complete(p, e)
<1> DEFINE o   == Op(p, 0)
           b   == BitsOf[o.width]
           fam == o.reg.fam
           x1  == Low(Fetch(p, 1), b)
           L1  == Learn(p, Start, Operand(p.inst, 0), v1)
<1>1. /\ 0 \in Indices(p.inst) /\ 1 \in Indices(p.inst)
      /\ o.kind = "reg" /\ fam \in Families /\ o.reg.width \in DOMAIN BitsOf /\ o.width = o.reg.width
      /\ o.width # 0 /\ WidthOf(p, 0) = b /\ Bits(p, 0) = b
  BY ProperForm, BitsAssumption DEF IsReg, IsMem, OperandOK, WidthOf, Bits
<1>2. /\ b \in Nat \ {0} /\ 2 ^ b \in Nat \ {0} /\ 0..(2 ^ b - 1) \subseteq Word
  BY <1>1, WidthBits
<1>3. Word \subseteq Int /\ Unknown \notin Word
  BY WordIsKnown
<1>4. /\ Start.know = know /\ Start.cells = kcells
      /\ \A f \in Families : know[f] \in {Unknown, regs[f]} /\ regs[f] \in Word
      /\ \A c \in Places : kcells[c] \in {Unknown, cells[c]} /\ cells[c] \in Word
  BY StartFacts
<1>5. /\ Fetch(p, 1) \in Int
      /\ \E w \in DOMAIN BitsOf : Bits(p, 1) = BitsOf[w]
      /\ Fetch(p, 1) \in 0..(2 ^ Bits(p, 1) - 1)
  <2>1. Op(p, 1).kind # "pcrel"
    BY DEF IsReg, IsMem
  <2>2. /\ \E w \in DOMAIN BitsOf : Bits(p, 1) = BitsOf[w]
        /\ Fetch(p, 1) \in 0..(2 ^ Bits(p, 1) - 1)
    BY <1>1, <2>1, FetchFacts
  <2>3. 2 ^ Bits(p, 1) \in Nat
    BY <2>2, WidthBits
  <2> QED BY <2>2, <2>3
<1>6. x1 \in 0..(2 ^ b - 1)
  BY <1>2, <1>5, LowRange
<1>7. Seen(p, Start, Operand(p.inst, 1)) \in {Unknown, Fetch(p, 1)}
      /\ (KnowsAll(Start) /\ (IsMem(p, 1) => Op(p, 1).width # 0)
            => Seen(p, Start, Operand(p.inst, 1)) # Unknown)
  <2>1. IsReg(p, 1) => Op(p, 1).reg.fam \in Families
    BY ProperForm DEF IsReg, OperandOK
  <2>2. IsMem(p, 1) => Op(p, 1).cell \in Places
    BY ProperForm DEF IsMem, OperandOK
  <2>3. CASE IsReg(p, 1)
    <3>1. Start.know[Op(p, 1).reg.fam] \in {Unknown, regs[Op(p, 1).reg.fam]}
      BY <1>4, <2>1, <2>3
    <3>2. KnowsAll(Start) => Start.know[Op(p, 1).reg.fam] # Unknown
      BY <2>1, <2>3 DEF KnowsAll
    <3> QED BY <1>1, <2>3, <3>1, <3>2, SeenFacts
  <2>4. CASE IsMem(p, 1)
    <3>1. Start.cells[Op(p, 1).cell] \in {Unknown, cells[Op(p, 1).cell]}
      BY <1>4, <2>2, <2>4
    <3>2. KnowsAll(Start) => Start.cells[Op(p, 1).cell] # Unknown
      BY <2>2, <2>4 DEF KnowsAll
    <3> QED BY <1>1, <2>4, <3>1, <3>2, SeenFacts
  <2> QED BY <2>3, <2>4
<1>8. v1 \in {Unknown, x1}
      /\ (KnowsAll(Start) /\ (IsMem(p, 1) => Op(p, 1).width # 0) => v1 # Unknown)
  <2>1. x1 # Unknown
    BY <1>2, <1>3, <1>6
  <2>2. Fetch(p, 1) # Unknown
    BY <1>5, UnknownAssumption
  <2> QED BY <1>1, <1>7, <2>1, <2>2 DEF LowTo
<1> HIDE DEF o, b, fam, x1
<1>9. Env(L1) /\ Learned(p, Start, 0, v1, L1)
  <2>1. v1 \in {Unknown} \cup 0..(2 ^ BitsOf[Op(p, 0).width] - 1)
    BY <1>6, <1>8 DEF b, o
  <2>2. Env(Start)
    BY StartIsEnv
  <2>3. Env(L1)
    BY <1>1, <2>1, <2>2, LearnEnv
  <2>4. Learned(p, Start, 0, v1, L1)
    BY <1>1, <2>2, LearnFacts
  <2> QED BY <2>3, <2>4
<1>10. /\ Env(e1) /\ e1.know = L1.know /\ e1.cells = L1.cells /\ e1.named = L1.named
       /\ e1.copied = Op(p, 1).width
  BY <1>9, CopyNotedFacts
<1>11. Learned(p, e1, 0, v2, e)
  BY <1>1, <1>10, LearnFacts
<1>12. /\ e1.cells = kcells
       /\ \A f \in Families : e1.know[f] = IF f = fam THEN MergeIf(know[f], o.reg, v1) ELSE know[f]
  BY <1>4, <1>9, <1>10 DEF Learned, o, fam
<1>13. /\ 0 \in e.named /\ e.cells = kcells
       /\ \A f \in Families : e.know[f] = IF f = fam THEN MergeIf(e1.know[f], o.reg, v2) ELSE know[f]
  BY <1>11, <1>12 DEF Learned, o, fam
<1>14. Lost(p, e) = {}
  BY <1>13, NothingLost
<1>15. /\ Written(p).cells = cells
       /\ \A f \in Families : Written(p).regs[f] = IF f = fam THEN Merge(regs[f], o.reg, Result(p))
                                                   ELSE regs[f]
  BY WrittenFacts DEF o, fam
<1>16. v1 # Unknown => Op(p, 1).width \in DOMAIN BitsOf /\ Bits(p, 1) = BitsOf[Op(p, 1).width]
  <2>1. IsMem(p, 1) /\ Op(p, 1).width = 0 => Seen(p, Start, Operand(p.inst, 1)) = Unknown
    <3>1. IsMem(p, 1) => Seen(p, Start, Operand(p.inst, 1)) = LowIf(Start.cells[Op(p, 1).cell], Op(p, 1).width)
      BY <1>1, SeenIs
    <3> QED BY <3>1 DEF LowIf
  <2>2. v1 # Unknown /\ IsMem(p, 1) => Op(p, 1).width # 0
    BY <2>1 DEF LowTo
  <2>3. Op(p, 1).width # 0 /\ Op(p, 1).kind # "imm" => Op(p, 1).width \in DOMAIN BitsOf
    BY <1>1, ProperForm DEF IsReg, IsMem, OperandOK
  <2>4. IsReg(p, 1) => Op(p, 1).width # 0
    BY <1>1, ProperForm, BitsAssumption DEF IsReg, OperandOK
  <2>5. Op(p, 1).kind # "imm"
    BY DEF IsReg, IsMem
  <2> QED BY <2>2, <2>3, <2>4, <2>5 DEF Bits
<1>17. Result(p) = Extended(Fetch(p, 1), Bits(p, 1), b, p.signed)
  BY <1>1 DEF Result, Operations, b, o
<1> DEFINE k1 == MergeIf(know[fam], o.reg, v1)
           R  == regs[fam]
<1>18. fam \in Families /\ o.reg.width \in DOMAIN BitsOf /\ b = BitsOf[o.reg.width]
  BY <1>1 DEF fam, o, b
<1>19. o.width # 0
  BY <1>1 DEF o
<1>20. Seen(p, e1, Operand(p.inst, 0)) = LowIf(k1, o.width) /\ e1.know[fam] = k1
  <2>1. e1.know[fam] = k1
    BY <1>12, <1>18
  <2>2. Seen(p, e1, Operand(p.inst, 0)) = LowIf(e1.know[Op(p, 0).reg.fam], Op(p, 0).width)
    BY <1>1, SeenIs
  <2>3. Op(p, 0).width = o.width /\ Op(p, 0).reg.fam = fam
    BY DEF o, fam
  <2> HIDE DEF k1
  <2> QED BY <2>1, <2>2, <2>3
<1>21. CASE v1 = Unknown \/ (know[fam] = Unknown /\ o.reg.width < 32)
  <2>1. k1 = Unknown
    BY <1>21 DEF MergeIf
  <2>2. v2 = Unknown
    BY <1>20, <2>1 DEF LowIf
  <2>3. MergeIf(e1.know[fam], o.reg, v2) = Unknown
    BY <2>2 DEF MergeIf
  <2>4. \A f \in Families : e.know[f] = IF f = fam THEN Unknown ELSE know[f]
    BY <1>13, <2>3
  <2>5. ~(KnowsAll(Start) /\ v1 # Unknown)
    BY <1>4, <1>18, <1>21 DEF KnowsAll
  <2> QED BY <1>4, <1>8, <1>13, <1>15, <2>4, <2>5 DEF Truthful
<1>22. CASE ~(v1 = Unknown \/ (know[fam] = Unknown /\ o.reg.width < 32))
  <2>1. v1 = x1 /\ k1 = Merge(know[fam], o.reg, x1)
    BY <1>8, <1>22 DEF MergeIf
  <2>2. k1 = Merge(R, o.reg, x1)
    <3>1. CASE know[fam] = R
      BY <2>1, <3>1
    <3>2. CASE know[fam] = Unknown
      <4>1. o.reg.width >= 32
        BY <1>18, <1>22, <3>2, BitsAssumption
      <4> QED BY <2>1, <4>1 DEF Merge
    <3> QED BY <1>4, <1>18, <3>1, <3>2
  <2>3. R \in Word /\ x1 \in 0..(2 ^ BitsOf[o.reg.width] - 1)
    BY <1>4, <1>6, <1>18
  <2>4. /\ k1 \in Word
        /\ Low(k1, b) = IF fam = "zero" THEN 0 ELSE x1
        /\ \A u \in 0..(2 ^ b - 1) : Merge(k1, o.reg, u) = Merge(R, o.reg, u)
    <3>1. /\ Merge(R, o.reg, x1) \in Word
          /\ Low(Merge(R, o.reg, x1), BitsOf[o.reg.width]) = IF o.reg.fam = "zero" THEN 0 ELSE x1
          /\ \A u \in 0..(2 ^ BitsOf[o.reg.width] - 1) :
                Merge(Merge(R, o.reg, x1), o.reg, u) = Merge(R, o.reg, u)
      BY <1>18, <2>3, MergeFacts
    <3>2. o.reg.fam = fam
      BY DEF fam
    <3> HIDE DEF k1, R
    <3> QED BY <1>18, <2>2, <3>1, <3>2
  <2>5. Seen(p, e1, Operand(p.inst, 0)) = Low(k1, b) /\ Low(k1, b) \in Int
    <3>1. k1 # Unknown
      BY <1>3, <2>4
    <3>2. Low(k1, b) \in Int
      BY <1>2, <1>3, <2>4, LowRange
    <3> QED BY <1>19, <1>20, <3>1, <3>2 DEF LowIf, b
  <2>6. v2 = Extended(Low(k1, b), BitsOf[Op(p, 1).width], b, p.signed)
    <3>1. Low(k1, b) # Unknown
      BY <2>5, UnknownAssumption
    <3>2. WidthOf(p, 0) = b
      BY <1>1 DEF b, o
    <3> QED BY <2>5, <3>1, <3>2
  <2>7. BitsOf[Op(p, 1).width] \in Nat /\ BitsOf[Op(p, 1).width] <= b /\ Bits(p, 1) = BitsOf[Op(p, 1).width]
    <3>1. Op(p, 1).width \in DOMAIN BitsOf /\ Bits(p, 1) = BitsOf[Op(p, 1).width]
      BY <1>16, <1>22
    <3>2. o.width \in DOMAIN BitsOf
      BY <1>1 DEF o
    <3>3. Op(p, 1).width <= o.width
      BY DEF o
    <3> QED BY <3>1, <3>2, <3>3, BitsAssumption DEF b
  <2>8. v2 \in 0..(2 ^ b - 1) /\ Result(p) \in 0..(2 ^ b - 1)
    BY <1>2, <1>5, <1>17, <2>5, <2>6, <2>7, ExtendedRange
  <2>9. fam # "zero" => v2 = Result(p)
    <3>1. ASSUME fam # "zero"
          PROVE  v2 = Result(p)
      <4>1. Low(k1, b) = Low(Fetch(p, 1), b)
        BY <2>4, <3>1 DEF x1
      <4>2. Low(Low(Fetch(p, 1), b), BitsOf[Op(p, 1).width]) = Low(Fetch(p, 1), BitsOf[Op(p, 1).width])
        BY <1>2, <1>5, <2>7, LowLow
      <4> QED BY <1>17, <2>6, <2>7, <4>1, <4>2 DEF Extended
    <3> QED BY <3>1
  <2>10. v2 # Unknown
    BY <1>2, <1>3, <2>8
  <2>11. MergeIf(k1, o.reg, v2) = Merge(R, o.reg, Result(p))
    <3>1. MergeIf(k1, o.reg, v2) = Merge(k1, o.reg, v2)
      BY <1>3, <2>4, <2>10 DEF MergeIf
    <3>2. Merge(k1, o.reg, v2) = Merge(R, o.reg, v2)
      BY <2>4, <2>8
    <3>3. Merge(R, o.reg, v2) = Merge(R, o.reg, Result(p))
      BY <2>9 DEF Merge, fam
    <3> QED BY <3>1, <3>2, <3>3
  <2>12. Merge(R, o.reg, Result(p)) \in Word
    BY <1>18, <2>3, <2>8, MergeFacts
  <2>13. \A f \in Families : e.know[f] = IF f = fam THEN Merge(R, o.reg, Result(p)) ELSE know[f]
    BY <1>13, <1>20, <2>11
  <2>14. Truthful(p, e)
    BY <1>4, <1>13, <1>15, <2>13 DEF Truthful
  <2>15. KnowsAll(Start) => KnowsAll(e)
    BY <1>3, <1>4, <1>13, <2>12, <2>13 DEF KnowsAll
  <2> QED BY <1>14, <2>14, <2>15 DEF Complete
<1> QED BY <1>21, <1>22

\* What the client reads of an operand before the instruction.
LEMMA Reads ==
    ASSUME TrackTypeOK, KnowledgeHolds, NEW p \in Forms, NEW n \in Indices(p.inst),
           IsReg(p, n) \/ IsMem(p, n)
    PROVE  /\ Seen(p, Start, Operand(p.inst, n)) \in {Unknown, Fetch(p, n)}
           /\ Fetch(p, n) \in Int /\ Fetch(p, n) # Unknown
           /\ Fetch(p, n) \in 0..(2 ^ Bits(p, n) - 1) /\ Bits(p, n) \in Nat
           /\ KnowsAll(Start) /\ (IsMem(p, n) => Op(p, n).width # 0)
                => Seen(p, Start, Operand(p.inst, n)) # Unknown
<1>1. /\ Start.know = know /\ Start.cells = kcells
      /\ \A f \in Families : know[f] \in {Unknown, regs[f]}
      /\ \A c \in Places : kcells[c] \in {Unknown, cells[c]}
  BY StartFacts
<1>2. /\ IsReg(p, n) => Op(p, n).reg.fam \in Families
      /\ IsMem(p, n) => Op(p, n).cell \in Places
      /\ Op(p, n).kind # "pcrel"
  BY ProperForm DEF IsReg, IsMem, OperandOK
<1>3. Fetch(p, n) \in 0..(2 ^ Bits(p, n) - 1) /\ 2 ^ Bits(p, n) \in Nat /\ Bits(p, n) \in Nat
  <2>1. /\ \E w \in DOMAIN BitsOf : Bits(p, n) = BitsOf[w]
        /\ Fetch(p, n) \in 0..(2 ^ Bits(p, n) - 1)
    BY <1>2, FetchFacts
  <2> QED BY <2>1, WidthBits
<1>4. Fetch(p, n) \in Int /\ Fetch(p, n) # Unknown
  BY <1>3, UnknownAssumption
<1>5. CASE IsReg(p, n)
  <2>1. Start.know[Op(p, n).reg.fam] \in {Unknown, regs[Op(p, n).reg.fam]}
    BY <1>1, <1>2, <1>5
  <2>2. KnowsAll(Start) => Start.know[Op(p, n).reg.fam] # Unknown
    BY <1>2, <1>5 DEF KnowsAll
  <2> QED BY <1>3, <1>4, <1>5, <2>1, <2>2, SeenFacts
<1>6. CASE IsMem(p, n)
  <2>1. Start.cells[Op(p, n).cell] \in {Unknown, cells[Op(p, n).cell]}
    BY <1>1, <1>2, <1>6
  <2>2. KnowsAll(Start) => Start.cells[Op(p, n).cell] # Unknown
    BY <1>2, <1>6 DEF KnowsAll
  <2> QED BY <1>3, <1>4, <1>6, <2>1, <2>2, SeenFacts
<1> QED BY <1>5, <1>6

\* What is described has its memory operands' widths.
LEMMA WidthsOfDescribed ==
    ASSUME NEW p \in Forms, ~p.vague, p.does # "table", NEW n, IsMem(p, n)
    PROVE  Op(p, n).width # 0
<1>1. n \in Indices(p.inst)
  BY DEF IsMem
<1>2. Proper(p)
  BY FormsAssumption
<1> QED BY <1>1, <1>2 DEF Proper

\* An operation.
LEMMA OperatesRight ==
    ASSUME TrackTypeOK, KnowledgeHolds, NEW p \in Forms, Ours(p), Operates(p)
    PROVE  Right(p)
<1> DEFINE s1 == p.srcs[1]
           s2 == p.srcs[2]
           b  == BitsOf[p.width]
           S1 == Seen(p, Start, Operand(p.inst, s1))
           S2 == Seen(p, Start, Operand(p.inst, s2))
<1>1. /\ p.does \in Operations /\ Writes(p, 0) /\ p.dst = 0 /\ 0 \in Indices(p.inst)
      /\ s1 \in Indices(p.inst) /\ s2 \in Indices(p.inst)
      /\ (IsReg(p, 0) \/ IsMem(p, 0)) /\ (IsReg(p, s1) \/ IsMem(p, s1))
      /\ Op(p, 0).width = p.width /\ Op(p, s1).width = p.width
      /\ \/ IsReg(p, s2) \/ IsMem(p, s2)
         \/ IsImm(p, s2) /\ (p.does \in Shifts => Op(p, s2).imm \in 0..(2 ^ b - 1))
  BY DEF Operates, Writes, IsReg, IsMem, IsImm
<1>2. p.width \in DOMAIN BitsOf /\ p.width # 0 /\ \A n \in Indices(p.inst) : OperandOK(Op(p, n))
  BY ProperForm
<1>3. b \in Nat \ {0} /\ b \in Nat /\ 2 ^ b \in Nat \ {0}
  BY <1>2, WidthBits
<1>4. /\ WidthOf(p, 0) = b /\ Bits(p, 0) = b /\ Bits(p, s1) = b
      /\ IsImm(p, s2) => Bits(p, s2) = b
  BY <1>1, <1>2 DEF WidthOf, Bits, IsReg, IsMem, IsImm
<1> DEFINE v == IF S1 = Unknown \/ S2 = Unknown THEN Unknown ELSE Compute(p.does, S1, S2, b)
           e == After(p)
<1>5. e = Learn(p, Start, Operand(p.inst, 0), v)
  <2>1. e = Follow(p, Start, Effect(p.does, Operand(p.inst, 0), <<Operand(p.inst, s1), Operand(p.inst, s2)>>))
    BY OperatesEffects
  <2>2. Follow(p, Start, Effect(p.does, Operand(p.inst, 0), <<Operand(p.inst, s1), Operand(p.inst, s2)>>))
          = Learn(p, Start, Operand(p.inst, 0),
                  IF S1 = Unknown \/ S2 = Unknown THEN Unknown
                  ELSE Compute(p.does, S1, S2, WidthOf(p, 0)))
    BY <1>1, FollowTwo
  <2> HIDE DEF e, S1, S2
  <2> QED BY <1>4, <2>1, <2>2
<1>6. /\ S1 \in {Unknown, Fetch(p, s1)} /\ Fetch(p, s1) \in Int
      /\ (KnowsAll(Start) /\ ~p.vague => S1 # Unknown)
  <2>1. IsMem(p, s1) /\ ~p.vague => Op(p, s1).width # 0
    BY <1>1, <1>2
  <2> QED BY <1>1, <2>1, Reads
<1>7. Result(p) = Compute(p.does, Fetch(p, s1), Fetch(p, s2), b)
  <2>1. Result(p) = Compute(p.does, Fetch(p, p.srcs[1]), Fetch(p, p.srcs[2]), Bits(p, p.dst))
    BY <1>1 DEF Result, Operations
  <2> QED BY <1>1, <1>4, <2>1
<1>8. S2 # Unknown => Compute(p.does, Fetch(p, s1), S2, b) = Result(p)
  <2>1. CASE IsReg(p, s2) \/ IsMem(p, s2)
    <3>1. S2 \in {Unknown, Fetch(p, s2)}
      BY <1>1, <2>1, Reads
    <3> QED BY <1>7, <3>1
  <2>2. CASE IsImm(p, s2)
    <3>1. S2 = Op(p, s2).imm
      BY <1>1, <2>2, SeenFacts
    <3>2. Fetch(p, s2) = Low(Op(p, s2).imm, b) /\ Op(p, s2).imm \in Int
      BY <1>1, <1>2, <1>4, <2>2 DEF Fetch, IsImm, OperandOK
    <3>3. CASE p.does \in Shifts
      <4>1. Op(p, s2).imm \in 0..(2 ^ b - 1)
        BY <1>1, <2>2, <3>3 DEF IsImm, IsReg, IsMem
      <4>2. Low(Op(p, s2).imm, b) = Op(p, s2).imm
        BY <1>3, <4>1, LowSmall
      <4> QED BY <1>7, <3>1, <3>2, <4>2
    <3>4. CASE p.does \notin Shifts
      <4>1. p.does \in Operations \ Shifts
        BY <1>1, <3>4
      <4>2. Compute(p.does, Fetch(p, s1), Low(Op(p, s2).imm, b), b)
              = Compute(p.does, Fetch(p, s1), Op(p, s2).imm, b)
        BY <1>3, <1>6, <3>2, <4>1, ComputeLow
      <4> QED BY <1>7, <3>1, <3>2, <4>2
    <3> QED BY <3>3, <3>4
  <2> QED BY <1>1, <2>1, <2>2
<1>9. KnowsAll(Start) /\ ~p.vague => S2 # Unknown
  <2>1. CASE IsReg(p, s2) \/ IsMem(p, s2)
    <3>1. p.does # "table"
      BY <1>1 DEF Operations
    <3>2. ~p.vague /\ IsMem(p, s2) => Op(p, s2).width # 0
      BY <3>1, WidthsOfDescribed
    <3> QED BY <1>1, <2>1, <3>2, Reads
  <2>2. CASE IsImm(p, s2)
    <3>1. S2 = Op(p, s2).imm
      BY <1>1, <2>2, SeenFacts
    <3> QED BY <1>1, <1>2, <3>1, UnknownAssumption DEF OperandOK
  <2> QED BY <1>1, <2>1, <2>2
<1>10. HasDst(p) /\ Writes(p, p.dst)
  BY <1>1 DEF HasDst
<1>11. Result(p) \in 0..(2 ^ b - 1) /\ Result(p) \in Int
  BY <1>1, <1>3, <1>4, <1>10, ResultRange
<1> HIDE DEF S1, S2, b
<1>12. v \in {Unknown, Result(p)} /\ (KnowsAll(Start) /\ ~p.vague => v # Unknown)
  <2>1. Result(p) # Unknown
    BY <1>11, UnknownAssumption
  <2>2. v \in {Unknown, Result(p)}
    BY <1>6, <1>8
  <2>3. S1 # Unknown /\ S2 # Unknown => v = Result(p)
    BY <1>6, <1>8
  <2> QED BY <1>6, <1>9, <2>1, <2>2, <2>3
<1> HIDE DEF v
<1>13. v # Unknown => v \in Int /\ Low(v, BitsOf[Op(p, p.dst).width]) = Result(p)
  <2>1. BitsOf[Op(p, p.dst).width] = b
    BY <1>1 DEF b
  <2>2. Low(Result(p), b) = Result(p)
    BY <1>3, <1>11, LowSmall
  <2> QED BY <1>11, <1>12, <2>1, <2>2
<1>14. e = Learn(p, Start, Operand(p.inst, p.dst), v)
  BY <1>1, <1>5
<1> HIDE DEF e
<1>15. /\ Truthful(p, e)
       /\ KnowsAll(Start) /\ v # Unknown /\ (IsMem(p, p.dst) => Op(p, p.dst).width # 0)
            => Complete(p, e)
  BY <1>10, <1>12, <1>13, <1>14, OneEffect
<1>16. Op(p, p.dst).width # 0
  BY <1>1, <1>2
<1> QED BY <1>12, <1>15, <1>16 DEF Right, e

\* An unsigned move, which gives the source as far as the destination holds it.
LEMMA MoveIsLow ==
    ASSUME NEW x \in Int, NEW from \in Nat, x \in 0..(2 ^ from - 1), NEW to \in Nat
    PROVE  Extended(x, from, to, FALSE) = Low(x, to)
BY LowSmall DEF Extended

\* The result of a move that does not extend a sign.
LEMMA MoveResult ==
    ASSUME NEW p \in Forms, p.does = "move", ~p.signed
    PROVE  Result(p) = Extended(Fetch(p, p.srcs[1]), Bits(p, p.srcs[1]), Bits(p, p.dst), FALSE)
BY DEF Result, Operations, Extended

\* The value copied, loaded or stored, of a register, memory or an immediate.
LEMMA Moved ==
    ASSUME TrackTypeOK, KnowledgeHolds, NEW p \in Forms, p.does = "move", ~p.signed, HasDst(p),
           NEW n \in Indices(p.inst), p.srcs = <<n>>, p.dst \in Indices(p.inst),
           IsReg(p, n) \/ IsMem(p, n) \/ (IsImm(p, n) /\ Op(p, p.dst).width = p.width)
    PROVE  /\ Seen(p, Start, Operand(p.inst, n)) # Unknown /\ Op(p, p.dst).width # 0
                => /\ Seen(p, Start, Operand(p.inst, n)) \in Int
                   /\ Low(Seen(p, Start, Operand(p.inst, n)), WidthOf(p, p.dst)) = Result(p)
                   /\ Result(p) \in Int
           /\ ~p.vague /\ KnowsAll(Start) => Seen(p, Start, Operand(p.inst, n)) # Unknown
<1> DEFINE S == Seen(p, Start, Operand(p.inst, n))
           B == Bits(p, p.dst)
<1>1. /\ p.width \in DOMAIN BitsOf /\ p.width # 0 /\ OperandOK(Op(p, n)) /\ OperandOK(Op(p, p.dst))
  BY ProperForm
<1>2. B \in Nat /\ Result(p) \in Int
  <2>1. Result(p) \in 0..(2 ^ B - 1) /\ \E w \in DOMAIN BitsOf : B = BitsOf[w]
    BY ResultRange
  <2> QED BY <2>1, WidthBits
<1>3. Op(p, p.dst).width # 0 => WidthOf(p, p.dst) = B
  BY DEF WidthOf, Bits, HasDst, IsReg, IsMem
<1>4. Result(p) = Extended(Fetch(p, n), Bits(p, n), B, FALSE)
  <2>1. Result(p) = Extended(Fetch(p, p.srcs[1]), Bits(p, p.srcs[1]), Bits(p, p.dst), FALSE)
    BY MoveResult
  <2>2. p.srcs[1] = n
    OBVIOUS
  <2> QED BY <2>1, <2>2
<1>5. CASE IsReg(p, n) \/ IsMem(p, n)
  <2>1. /\ S \in {Unknown, Fetch(p, n)} /\ Fetch(p, n) \in Int
        /\ Fetch(p, n) \in 0..(2 ^ Bits(p, n) - 1) /\ Bits(p, n) \in Nat
        /\ KnowsAll(Start) /\ (IsMem(p, n) => Op(p, n).width # 0) => S # Unknown
    BY <1>5, Reads
  <2>2. Result(p) = Low(Fetch(p, n), B)
    BY <1>2, <1>4, <2>1, MoveIsLow
  <2>3. ~p.vague /\ IsMem(p, n) => Op(p, n).width # 0
    BY WidthsOfDescribed
  <2> QED BY <1>2, <1>3, <2>1, <2>2, <2>3
<1>6. CASE IsImm(p, n) /\ Op(p, p.dst).width = p.width
  <2>1. S = Op(p, n).imm /\ Op(p, n).imm \in Int
    BY <1>1, <1>6, SeenFacts DEF OperandOK
  <2>2. Bits(p, n) = B /\ Fetch(p, n) = Low(Op(p, n).imm, B)
    BY <1>1, <1>6 DEF Bits, Fetch, HasDst, IsReg, IsMem, IsImm
  <2>3. Low(Op(p, n).imm, B) \in 0..(2 ^ B - 1) /\ Low(Op(p, n).imm, B) \in Int
    <3>1. 2 ^ B \in Nat
      BY <1>2, DoublePower
    <3>2. Low(Op(p, n).imm, B) \in 0..(2 ^ B - 1)
      BY <1>2, <2>1, LowRange
    <3> QED BY <3>1, <3>2
  <2>4. Result(p) = Low(Low(Op(p, n).imm, B), B)
    BY <1>2, <1>4, <2>2, <2>3, MoveIsLow
  <2>5. Low(Low(Op(p, n).imm, B), B) = Low(Op(p, n).imm, B)
    BY <1>2, <2>3, LowSmall
  <2> QED BY <1>2, <1>3, <2>1, <2>4, <2>5, UnknownAssumption
<1> QED BY <1>5, <1>6

\* A copy or load into a register.
LEMMA MoveRight ==
    ASSUME TrackTypeOK, KnowledgeHolds, NEW p \in Forms, p.does = "move", ~p.signed, p.srcs = << 1 >>,
           Writes(p, 0), IsReg(p, 0), 1 \in Indices(p.inst),
           IsReg(p, 1) \/ IsMem(p, 1) \/ (IsImm(p, 1) /\ Op(p, 0).width = p.width),
           NEW kind \in {"COPY", "LOAD"},
           After(p) = Follow(p, Start, Effect(kind, Operand(p.inst, 0), <<Operand(p.inst, 1)>>))
    PROVE  Right(p)
<1> DEFINE S == Seen(p, Start, Operand(p.inst, 1))
           v == LowTo(S, WidthOf(p, 0))
           L == Learn(p, Start, Operand(p.inst, 0), v)
           e == After(p)
<1>1. p.dst = 0 /\ 0 \in Indices(p.inst) /\ HasDst(p) /\ Writes(p, p.dst) /\ ~IsMem(p, 0)
  BY DEF Writes, HasDst, IsReg, IsMem
<1>2. Op(p, 0).width \in DOMAIN BitsOf /\ Op(p, 0).width # 0
  BY <1>1, ProperForm, BitsAssumption DEF IsReg, OperandOK
<1>3. e = CopyNoted(L, Op(p, 1).width)
  BY <1>1, FollowMove
<1>4. /\ S # Unknown => S \in Int /\ Low(S, WidthOf(p, 0)) = Result(p) /\ Result(p) \in Int
      /\ ~p.vague /\ KnowsAll(Start) => S # Unknown
  BY <1>1, <1>2, Moved
<1> HIDE DEF S
<1>5. v \in {Unknown, Result(p)} /\ (~p.vague /\ KnowsAll(Start) => v # Unknown)
  BY <1>4, UnknownAssumption DEF LowTo
<1>6. Result(p) \in 0..(2 ^ BitsOf[Op(p, 0).width] - 1)
  <2>1. Bits(p, p.dst) = BitsOf[Op(p, 0).width]
    BY <1>1, <1>2 DEF Bits, IsReg
  <2> QED BY <1>1, <2>1, ResultRange
<1> HIDE DEF v, e
<1>7. Env(L)
  <2>1. v \in {Unknown} \cup 0..(2 ^ BitsOf[Op(p, 0).width] - 1)
    BY <1>5, <1>6
  <2>2. Env(Start)
    BY StartIsEnv
  <2> QED BY <1>1, <2>1, <2>2, LearnEnv
<1>8. e.know = L.know /\ e.cells = L.cells /\ e.named = L.named
  BY <1>3, <1>7, CopyNotedFacts
<1>9. L = Learn(p, Start, Operand(p.inst, p.dst), v)
  BY <1>1
<1> HIDE DEF L
<1>10. IsReg(p, p.dst) /\ ~IsMem(p, p.dst)
  BY <1>1
<1>11. /\ Truthful(p, e)
       /\ KnowsAll(Start) /\ v # Unknown /\ (IsMem(p, p.dst) => Op(p, p.dst).width # 0)
            => Complete(p, e)
  BY <1>1, <1>5, <1>8, <1>9, <1>10, OneEffect
<1> QED BY <1>5, <1>10, <1>11 DEF Right, e

\* What is reported of a copy is so,
LEMMA CopiesRight ==
    ASSUME TrackTypeOK, KnowledgeHolds, NEW p \in Forms, Ours(p), Copies(p)
    PROVE  Right(p)
<1>1. /\ p.does = "move" /\ ~p.signed /\ p.srcs = <<1>> /\ Writes(p, 0) /\ IsReg(p, 0)
      /\ (IsReg(p, 1) \/ (IsImm(p, 1) /\ Op(p, 0).width = p.width))
      /\ 1 \in Indices(p.inst)
  BY DEF Copies, IsReg, IsImm
<1>2. After(p) = Follow(p, Start, Effect("COPY", Operand(p.inst, 0), <<Operand(p.inst, 1)>>))
  BY CopiesEffects
<1> QED BY <1>1, <1>2, MoveRight

\* The same for a copy or load that is then extended.
LEMMA ExtendRight ==
    ASSUME TrackTypeOK, KnowledgeHolds, NEW p \in Forms, p.does = "move", p.srcs = << 1 >>,
           Writes(p, 0), IsReg(p, 0), IsReg(p, 1) \/ IsMem(p, 1), Op(p, 1).width <= Op(p, 0).width,
           NEW kind \in {"COPY", "LOAD"}, NEW ext \in {"SIGN_EXTEND", "ZERO_EXTEND"},
           p.signed = (ext = "SIGN_EXTEND"),
           After(p) = Follow(p, Follow(p, Start, Effect(kind, Operand(p.inst, 0), <<Operand(p.inst, 1)>>)),
                             Effect(ext, Operand(p.inst, 0), <<Operand(p.inst, 0)>>))
    PROVE  Right(p)
<1>1. p.dst = 0 /\ 0 \in Indices(p.inst) /\ 1 \in Indices(p.inst)
  BY DEF Writes, IsReg, IsMem
<1>2. PICK v1 : v1 = LowTo(Seen(p, Start, Operand(p.inst, 1)), WidthOf(p, 0))
  OBVIOUS
<1>3. PICK e1 : e1 = CopyNoted(Learn(p, Start, Operand(p.inst, 0), v1), Op(p, 1).width)
  OBVIOUS
<1>4. PICK v2 : v2 = IF Seen(p, e1, Operand(p.inst, 0)) = Unknown THEN Unknown
                     ELSE Extended(Seen(p, e1, Operand(p.inst, 0)), BitsOf[Op(p, 1).width],
                                   WidthOf(p, 0), p.signed)
  OBVIOUS
<1>5. PICK e : e = Learn(p, e1, Operand(p.inst, 0), v2)
  OBVIOUS
<1>6. Follow(p, Start, Effect(kind, Operand(p.inst, 0), <<Operand(p.inst, 1)>>)) = e1
  BY <1>1, <1>2, <1>3, FollowMove
<1>7. Follow(p, e1, Effect(ext, Operand(p.inst, 0), <<Operand(p.inst, 0)>>)) = e
  <2>1. e1.copied = Op(p, 1).width
    <3>1. Env(Learn(p, Start, Operand(p.inst, 0), v1))
      <4>1. v1 \in {Unknown} \cup 0..(2 ^ BitsOf[Op(p, 0).width] - 1)
        <5>1. Seen(p, Start, Operand(p.inst, 1)) = Unknown \/ Seen(p, Start, Operand(p.inst, 1)) \in Int
          BY <1>1, Reads
        <5>2. Op(p, 0).width \in DOMAIN BitsOf /\ Op(p, 0).width # 0
          BY <1>1, ProperForm, BitsAssumption DEF IsReg, OperandOK
        <5>3. WidthOf(p, 0) = BitsOf[Op(p, 0).width] /\ BitsOf[Op(p, 0).width] \in Nat
          BY <5>2, WidthBits DEF WidthOf
        <5>4. PICK s : s = Seen(p, Start, Operand(p.inst, 1))
          OBVIOUS
        <5>5. s = Unknown => v1 = Unknown
          BY <1>2, <5>4 DEF LowTo
        <5>6. s # Unknown => v1 = Low(s, BitsOf[Op(p, 0).width])
          BY <1>2, <5>3, <5>4 DEF LowTo
        <5>7. s \in Int => Low(s, BitsOf[Op(p, 0).width]) \in 0..(2 ^ BitsOf[Op(p, 0).width] - 1)
          BY <5>3, LowRange
        <5> QED BY <5>1, <5>4, <5>5, <5>6, <5>7
      <4>2. Env(Start)
        BY StartIsEnv
      <4> QED BY <1>1, <4>1, <4>2, LearnEnv
    <3> QED BY <1>3, <3>1, CopyNotedFacts
  <2>2. Operand(p.inst, 0).kind = "operand"
    BY <1>1, OperandIs
  <2>3. Extended(Seen(p, e1, Operand(p.inst, 0)), BitsOf[Op(p, 1).width], WidthOf(p, 0), p.signed)
          = Extended(Seen(p, e1, Operand(p.inst, 0)), BitsOf[e1.copied], WidthOf(p, 0), ext = "SIGN_EXTEND")
    BY <2>1 DEF Extended
  <2>4. /\ Seen(p, e1, Operand(p.inst, 0)) = Unknown => v2 = Unknown
        /\ Seen(p, e1, Operand(p.inst, 0)) # Unknown
              => v2 = Extended(Seen(p, e1, Operand(p.inst, 0)), BitsOf[e1.copied], WidthOf(p, 0),
                               ext = "SIGN_EXTEND")
    BY <1>4, <2>3, Zenon
  <2>5. Follow(p, e1, Effect(ext, Operand(p.inst, 0), <<Operand(p.inst, 0)>>))
          = Learn(p, e1, Operand(p.inst, 0), v2)
    BY <1>1, <2>2, <2>4, FollowOne
  <2> QED BY <1>5, <2>5
<1>8. After(p) = e
  BY <1>6, <1>7
<1>9. /\ Truthful(p, e)
      /\ KnowsAll(Start) /\ (IsMem(p, 1) => Op(p, 1).width # 0) => Complete(p, e)
  BY <1>1, <1>2, <1>3, <1>4, <1>5, TwoEffects
<1>10. ~p.vague /\ IsMem(p, 1) => Op(p, 1).width # 0
  BY WidthsOfDescribed
<1> QED BY <1>8, <1>9, <1>10 DEF Right

\* of an extension,
LEMMA WidensRight ==
    ASSUME TrackTypeOK, KnowledgeHolds, NEW p \in Forms, Ours(p), Widens(p)
    PROVE  Right(p)
<1>1. /\ p.does = "move" /\ p.srcs = <<1>> /\ Writes(p, 0) /\ IsReg(p, 0)
      /\ IsReg(p, 1) \/ IsMem(p, 1)
      /\ Op(p, 1).width <= Op(p, 0).width
  BY DEF Widens
<1>2. p.signed \in BOOLEAN
  BY DEF Widens
<1>3. p.signed = (ExtensionOf(p) = "SIGN_EXTEND") /\ ExtensionOf(p) \in {"SIGN_EXTEND", "ZERO_EXTEND"}
  BY <1>2 DEF ExtensionOf
<1>4. PICK kind \in {"COPY", "LOAD"} :
        After(p) = Follow(p, Follow(p, Start, Effect(kind, Operand(p.inst, 0), <<Operand(p.inst, 1)>>)),
                          Effect(ExtensionOf(p), Operand(p.inst, 0), <<Operand(p.inst, 0)>>))
  BY WidensEffects
<1> QED BY <1>1, <1>3, <1>4, ExtendRight

\* of a load,
LEMMA LoadsRight ==
    ASSUME TrackTypeOK, KnowledgeHolds, NEW p \in Forms, Ours(p), Loads(p)
    PROVE  Right(p)
<1>1. /\ p.does = "move" /\ p.srcs = <<1>> /\ Writes(p, 0) /\ IsReg(p, 0) /\ IsMem(p, 1)
      /\ 1 \in Indices(p.inst)
  BY DEF Loads, IsMem
<1>2. CASE ~p.signed
  <2>1. After(p) = Follow(p, Start, Effect("LOAD", Operand(p.inst, 0), <<Operand(p.inst, 1)>>))
    BY <1>2, LoadsEffects
  <2> QED BY <1>1, <1>2, <2>1, MoveRight
<1>3. CASE p.signed
  <2>1. After(p) = Follow(p, Follow(p, Start, Effect("LOAD", Operand(p.inst, 0), <<Operand(p.inst, 1)>>)),
                          Effect("SIGN_EXTEND", Operand(p.inst, 0), <<Operand(p.inst, 0)>>))
    BY <1>3, LoadsEffects
  <2>2. Op(p, 1).width <= Op(p, 0).width
    BY <1>3 DEF Loads
  <2>3. p.signed = ("SIGN_EXTEND" = "SIGN_EXTEND")
    BY <1>3
  <2> QED BY <1>1, <2>1, <2>2, <2>3, ExtendRight
<1> QED BY <1>2, <1>3

\* of a store,
LEMMA StoresRight ==
    ASSUME TrackTypeOK, KnowledgeHolds, NEW p \in Forms, Ours(p), Stores(p)
    PROVE  Right(p)
<1>1. PICK m \in {0, 1} :
        /\ Writes(p, m) /\ p.dst = m /\ IsMem(p, m) /\ p.srcs = <<1 - m>> /\ 1 - m \in Indices(p.inst)
        /\ \/ IsReg(p, 1 - m)
           \/ IsImm(p, 1 - m) /\ p.width = Op(p, m).width
        /\ After(p) = Follow(p, Start, Effect("STORE", Operand(p.inst, m), <<Operand(p.inst, 1 - m)>>))
  BY StoresEffects
<1> DEFINE S == Seen(p, Start, Operand(p.inst, 1 - m))
           e == After(p)
<1>2. /\ p.does = "move" /\ ~p.signed /\ p.dst \in Indices(p.inst) /\ HasDst(p) /\ Writes(p, p.dst)
      /\ IsMem(p, p.dst) /\ ~IsReg(p, p.dst)
  BY <1>1 DEF Stores, HasDst, IsMem, IsReg
<1>3. e = Learn(p, Start, Operand(p.inst, p.dst), S)
  <2>1. PICK kind : kind = "STORE"
    OBVIOUS
  <2>2. m \in Indices(p.inst)
    BY <1>1 DEF Writes
  <2>3. Follow(p, Start, Effect(kind, Operand(p.inst, m), <<Operand(p.inst, 1 - m)>>))
          = Learn(p, Start, Operand(p.inst, m), S)
    BY <2>1, <2>2, FollowOne
  <2> QED BY <1>1, <2>1, <2>3
<1>4. /\ S # Unknown /\ Op(p, p.dst).width # 0
           => S \in Int /\ Low(S, WidthOf(p, p.dst)) = Result(p) /\ Result(p) \in Int
      /\ ~p.vague /\ KnowsAll(Start) => S # Unknown
  BY <1>1, <1>2, Moved
<1> HIDE DEF S, e
<1>5. Op(p, p.dst).width # 0 /\ S # Unknown => S \in Int /\ Low(S, BitsOf[Op(p, p.dst).width]) = Result(p)
  BY <1>4 DEF WidthOf
<1>6. /\ Truthful(p, e)
      /\ KnowsAll(Start) /\ S # Unknown /\ (IsMem(p, p.dst) => Op(p, p.dst).width # 0)
            => Complete(p, e)
  BY <1>2, <1>3, <1>5, OneEffect
<1>7. ~p.vague => Op(p, p.dst).width # 0
  BY <1>2, WidthsOfDescribed
<1> QED BY <1>4, <1>6, <1>7 DEF Right, e

\* of an instruction that names an address,
LEMMA NamesRight ==
    ASSUME TrackTypeOK, KnowledgeHolds, NEW p \in Forms, Ours(p), NamesAddress(p)
    PROVE  Right(p)
<1>1. /\ p.does = "name" /\ p.real = p.control.target /\ p.real \in Int /\ Writes(p, 0) /\ IsReg(p, 0)
      /\ p.dst = 0 /\ 0 \in Indices(p.inst) /\ HasDst(p) /\ ~IsMem(p, 0)
  BY DEF NamesAddress, Writes, HasDst, IsReg, IsMem
<1>2. PICK w : After(p) = Follow(p, Start, Effect("ADDRESS", Operand(p.inst, 0),
                                                  <<Immediate(p.control.target, w)>>))
  BY NamesEffects
<1> DEFINE e == After(p)
           v == Low(p.real, WidthOf(p, 0))
<1>3. PICK src : src = Immediate(p.control.target, w)
  OBVIOUS
<1>4. src.kind = "immediate" /\ Seen(p, Start, src) = p.real
  BY <1>1, <1>3 DEF Immediate, Ref, Seen
<1>5. e = Learn(p, Start, Operand(p.inst, 0), v)
  <2>1. v = Low(Seen(p, Start, src), WidthOf(p, 0))
    BY <1>4
  <2> HIDE DEF v
  <2>2. Follow(p, Start, Effect("ADDRESS", Operand(p.inst, 0), <<src>>)) = Learn(p, Start, Operand(p.inst, 0), v)
    BY <1>1, <1>4, <2>1, FollowAddress
  <2> QED BY <1>2, <1>3, <2>2
<1>6. v = Result(p)
  <2>1. WidthOf(p, 0) = Bits(p, p.dst)
    BY <1>1, ProperForm, BitsAssumption DEF WidthOf, Bits, IsReg, OperandOK
  <2>2. Result(p) = Low(p.real, Bits(p, p.dst))
    BY <1>1 DEF Result, Operations
  <2> QED BY <2>1, <2>2
<1>7. v # Unknown
  <2>1. Result(p) \in 0..(2 ^ Bits(p, p.dst) - 1) /\ \E u \in DOMAIN BitsOf : Bits(p, p.dst) = BitsOf[u]
    BY <1>1, ResultRange
  <2>2. Result(p) \in Int
    BY <2>1, WidthBits
  <2> QED BY <1>6, <2>2, UnknownAssumption
<1> HIDE DEF e, v
<1>8. /\ Truthful(p, e)
      /\ KnowsAll(Start) /\ v # Unknown /\ (IsMem(p, p.dst) => Op(p, p.dst).width # 0)
            => Complete(p, e)
  <2>1. Writes(p, p.dst) /\ ~IsMem(p, p.dst) /\ e = Learn(p, Start, Operand(p.inst, p.dst), v)
    BY <1>1, <1>5
  <2> QED BY <1>1, <1>6, <2>1, OneEffect
<1> QED BY <1>1, <1>7, <1>8 DEF Right, e

\* and of what is not described nothing wrong is reported.
LEMMA AltersRight ==
    ASSUME TrackTypeOK, KnowledgeHolds, NEW p \in Forms, Ours(p), Alters(p)
    PROVE  Right(p)
<1>1. /\ p.vague /\ p.dst \in Indices(p.inst) /\ "write" \in Op(p, p.dst).flags
      /\ IsReg(p, p.dst) \/ IsMem(p, p.dst)
  BY DEF Alters, IsReg, IsMem
<1>2. CASE After(p) = Start
  <2>1. /\ Start.know = know /\ Start.cells = kcells /\ Start.named = {}
        /\ \A f \in Families : know[f] \in {Unknown, regs[f]}
        /\ \A c \in Places : kcells[c] \in {Unknown, cells[c]}
    BY StartFacts
  <2>2. p.dst \in Lost(p, Start)
    BY <1>1, <2>1 DEF Lost
  <2>3. ASSUME IsReg(p, p.dst)
        PROVE  Truthful(p, Start)
    <3>1. /\ Written(p).cells = cells
          /\ \A f \in Families : f # Op(p, p.dst).reg.fam => Written(p).regs[f] = regs[f]
      BY <2>3, WrittenFacts
    <3>2. Gone(p, Start, Op(p, p.dst).reg.fam)
      BY <2>2, <2>3 DEF Gone, IsReg
    <3> QED BY <2>1, <3>1, <3>2 DEF Truthful
  <2>4. ASSUME IsMem(p, p.dst)
        PROVE  Truthful(p, Start)
    <3>1. /\ Written(p).regs = regs
          /\ \A c \in Places : c # Op(p, p.dst).cell => Written(p).cells[c] = cells[c]
      BY <2>4, WrittenFacts
    <3>2. GoneCell(p, Start, Op(p, p.dst).cell)
      BY <2>2, <2>4 DEF GoneCell, IsMem
    <3> QED BY <2>1, <3>1, <3>2 DEF Truthful
  <2> QED BY <1>1, <1>2, <2>3, <2>4 DEF Right
<1>3. CASE After(p) # Start
  <2>1. /\ Writes(p, 0) /\ IsReg(p, 0) /\ p.dst = 0
        /\ \E src : /\ src.kind # "immediate"
                    /\ After(p) = Follow(p, Start, Effect("ADDRESS", Operand(p.inst, 0), <<src>>))
    BY <1>3, AltersEffects
  <2>2. PICK src : /\ src.kind # "immediate"
                   /\ After(p) = Follow(p, Start, Effect("ADDRESS", Operand(p.inst, 0), <<src>>))
    BY <2>1
  <2>3. After(p) = Learn(p, Start, Operand(p.inst, 0), Unknown)
    <3>1. 0 \in Indices(p.inst)
      BY <2>1 DEF IsReg
    <3>2. Follow(p, Start, Effect("ADDRESS", Operand(p.inst, 0), <<src>>))
            = Learn(p, Start, Operand(p.inst, 0), Unknown)
      BY <2>2, <3>1, FollowAddress
    <3> QED BY <2>2, <3>2
  <2>4. PICK e : e = After(p)
    OBVIOUS
  <2>5. /\ HasDst(p) /\ Writes(p, p.dst) /\ IsReg(p, p.dst) /\ ~IsMem(p, p.dst)
        /\ e = Learn(p, Start, Operand(p.inst, p.dst), Unknown)
    BY <2>1, <2>3, <2>4 DEF HasDst, IsReg, IsMem
  <2>6. Truthful(p, e)
    BY <2>5, OneEffect
  <2> QED BY <1>1, <2>4, <2>6 DEF Right
<1> QED BY <1>2, <1>3

\* What is believed while an instruction that writes nothing is followed.
Draft(T, G, w) == [know |-> know, cells |-> kcells, temps |-> T, target |-> G, copied |-> w, named |-> {}]
Put(T, i, v)   == [T EXCEPT ![i] = v]

\* Knowledge while a table branch is followed: registers and memory as before.
LEMMA StartIsDraft == Start = Draft([n \in 0..2 |-> Unknown], Unknown, 0)
BY DEF Start, Draft

\* A temporary is noted in it,
LEMMA DraftTemporary ==
    ASSUME NEW p, NEW T, NEW G, NEW w, NEW r, NEW v, r.kind = "temporary", NEW i, i = r.index
    PROVE  Learn(p, Draft(T, G, w), r, v) = Draft(Put(T, i, v), G, w)
BY DEF Learn, Draft, Put

\* the target,
LEMMA DraftTarget ==
    ASSUME NEW p, NEW T, NEW G, NEW w, NEW r, NEW v, r.kind = "target"
    PROVE  Learn(p, Draft(T, G, w), r, v) = Draft(T, v, w)
BY DEF Learn, Draft

\* and the width last copied.
LEMMA DraftNoted ==
    ASSUME NEW T, NEW G, NEW w, NEW v
    PROVE  CopyNoted(Draft(T, G, w), v) = Draft(T, G, v)
BY DEF CopyNoted, Draft

\* The effects of a table branch, one by one.
LEMMA TableLoad ==
    ASSUME TrackTypeOK, KnowledgeHolds, NEW p \in Forms, IsMem(p, 0), NEW w \in {8, 16}
    PROVE  \E T : /\ Follow(p, Start, Effect("LOAD", Temporary(0, w), <<Operand(p.inst, 0)>>))
                       = Draft(T, Unknown, Op(p, 0).width)
                  /\ DOMAIN T = 0..2
                  /\ T[0] \in {Unknown, Low(cells[Op(p, 0).cell], BitsOf[w])}
<1>1. PICK f : f = Effect("LOAD", Temporary(0, w), <<Operand(p.inst, 0)>>)
  OBVIOUS
<1>2. /\ 0 \in Indices(p.inst) /\ Op(p, 0).cell \in Places
  BY ProperForm DEF IsMem, OperandOK
<1>3. Operand(p.inst, 0).index = 0 /\ Operand(p.inst, 0).width = Op(p, 0).width
  BY <1>2, OperandIs
<1>4. /\ f.kind = "LOAD" /\ f.dst = Temporary(0, w) /\ f.srcs # <<>> /\ f.srcs[1] = Operand(p.inst, 0)
      /\ Given(p, Start, f) = LowTo(Loaded(p, Start, f), BitsSet(f))
  BY <1>1, GivenOne
<1>5. /\ f.dst.kind = "temporary" /\ f.dst.index = 0 /\ f.dst.width = w
  BY <1>4 DEF Temporary, Ref
<1>6. BitsOf[w] \in Nat
  BY WidthBits, BitsAssumption
<1>7. /\ kcells[Op(p, 0).cell] \in {Unknown, cells[Op(p, 0).cell]} /\ cells[Op(p, 0).cell] \in Int
      /\ Start.cells = kcells
  BY <1>2, StartFacts, WordIsKnown
<1>8. Loaded(p, Start, f) = LowIf(kcells[Op(p, 0).cell], w)
  BY <1>3, <1>4, <1>5, <1>7 DEF Loaded
<1>9. BitsSet(f) = BitsOf[w]
  BY <1>5 DEF BitsSet
<1> DEFINE X == Low(cells[Op(p, 0).cell], BitsOf[w])
<1>10. Given(p, Start, f) \in {Unknown, X}
  <2>1. Low(X, BitsOf[w]) = X
    BY <1>6, <1>7, LowLow
  <2> QED BY <1>4, <1>7, <1>8, <1>9, <2>1 DEF LowTo, LowIf
<1>11. PICK v : v = Given(p, Start, f)
  OBVIOUS
<1> DEFINE T0 == [n \in 0..2 |-> Unknown]
<1>12. Follow(p, Start, f) = CopyNoted(Learn(p, Start, f.dst, v), Op(p, 0).width)
  <2>1. f.dst.kind # "none"
    BY <1>5
  <2>2. Follow(p, Start, f) = [Learn(p, Start, f.dst, Given(p, Start, f)) EXCEPT !.copied = f.srcs[1].width]
    BY <1>4, <2>1, FollowSomething
  <2> QED BY <1>3, <1>4, <1>11, <2>2 DEF CopyNoted
<1>13. Start = Draft(T0, Unknown, 0)
  BY StartIsDraft
<1>14. PICK T1 : T1 = Put(T0, 0, v)
  OBVIOUS
<1>15. T1[0] = v /\ DOMAIN T1 = 0..2
  BY <1>14 DEF Put
<1> HIDE DEF T0
<1>16. Learn(p, Draft(T0, Unknown, 0), f.dst, v) = Draft(Put(T0, 0, v), Unknown, 0)
  BY <1>5, DraftTemporary
<1>17. CopyNoted(Draft(T1, Unknown, 0), Op(p, 0).width) = Draft(T1, Unknown, Op(p, 0).width)
  BY DraftNoted
<1>18. Follow(p, Start, f) = Draft(T1, Unknown, Op(p, 0).width)
  BY <1>12, <1>13, <1>14, <1>16, <1>17
<1> QED BY <1>1, <1>10, <1>11, <1>15, <1>18

\* The entry of a table, widened,
LEMMA TableWiden ==
    ASSUME NEW p, NEW T, DOMAIN T = 0..2, NEW w, NEW u
    PROVE  \E T2 : /\ Follow(p, Draft(T, Unknown, u), Effect("ZERO_EXTEND", Temporary(1, 32), <<Temporary(0, w)>>))
                        = Draft(T2, Unknown, u)
                   /\ DOMAIN T2 = 0..2 /\ T2[1] = T[0]
<1>1. PICK f : f = Effect("ZERO_EXTEND", Temporary(1, 32), <<Temporary(0, w)>>)
  OBVIOUS
<1>2. PICK e : e = Draft(T, Unknown, u)
  OBVIOUS
<1>3. Temporary(0, w).kind = "temporary" /\ Seen(p, e, Temporary(0, w)) = T[0]
  BY <1>2 DEF Temporary, Ref, Seen, Draft
<1>4. /\ f.kind = "ZERO_EXTEND" /\ f.dst = Temporary(1, 32) /\ f.srcs # <<>>
      /\ Given(p, e, f) = IF Seen(p, e, Temporary(0, w)) = Unknown THEN Unknown
                          ELSE IF Temporary(0, w).kind = "temporary" THEN Seen(p, e, Temporary(0, w))
                          ELSE Extended(Seen(p, e, Temporary(0, w)), BitsOf[e.copied], BitsSet(f), "ZERO_EXTEND" = "SIGN_EXTEND")
  BY <1>1, GivenOne
<1>5. Given(p, e, f) = T[0]
  BY <1>3, <1>4
<1>6. f.dst.kind = "temporary" /\ f.dst.index = 1
  BY <1>4 DEF Temporary, Ref
<1>7. Follow(p, e, f) = Learn(p, e, f.dst, Given(p, e, f))
  <2>1. f.dst.kind # "none" /\ f.kind \notin {"LOAD", "COPY"}
    BY <1>4, <1>6
  <2> QED BY <1>4, <2>1, FollowSomething
<1>8. Learn(p, e, f.dst, T[0]) = Draft(Put(T, 1, T[0]), Unknown, u)
  <2>1. PICK m : m = T[0]
    OBVIOUS
  <2>2. Learn(p, Draft(T, Unknown, u), f.dst, m) = Draft(Put(T, 1, m), Unknown, u)
    BY <1>6, DraftTemporary
  <2> QED BY <1>2, <2>1, <2>2
<1>9. DOMAIN Put(T, 1, T[0]) = 0..2 /\ Put(T, 1, T[0])[1] = T[0]
  BY DEF Put
<1> QED BY <1>1, <1>2, <1>5, <1>7, <1>8, <1>9

\* and computed with.
LEMMA TableCompute ==
    ASSUME NEW p, NEW T, DOMAIN T = 0..2, NEW u, NEW kind \in {"ADD", "MUL"}, NEW dst, NEW r1, NEW r2,
           dst.kind \in {"temporary", "target"}, dst.index \in 0..2,
           NEW x, x = Seen(p, Draft(T, Unknown, u), r1), NEW y, y = Seen(p, Draft(T, Unknown, u), r2),
           NEW b, b = IF dst.kind = "target" THEN 16 ELSE BitsOf[dst.width], dst.width # 0,
           NEW v, x = Unknown \/ y = Unknown => v = Unknown,
           x # Unknown /\ y # Unknown => v = Compute(kind, x, y, b)
    PROVE  Follow(p, Draft(T, Unknown, u), Effect(kind, dst, <<r1, r2>>))
             = IF dst.kind = "target" THEN Draft(T, v, u)
               ELSE Draft(Put(T, dst.index, v), Unknown, u)
<1>1. PICK f : f = Effect(kind, dst, <<r1, r2>>)
  OBVIOUS
<1>2. PICK e : e = Draft(T, Unknown, u)
  OBVIOUS
<1>3. kind \in Operations
  BY DEF Operations
<1>4. /\ f.kind = kind /\ f.dst = dst /\ f.srcs # <<>> /\ kind \notin {"LOAD", "COPY"}
      /\ Given(p, e, f) =
           IF Seen(p, e, r1) = Unknown \/ Seen(p, e, r2) = Unknown THEN Unknown
           ELSE Compute(kind, Seen(p, e, r1), Seen(p, e, r2), BitsSet(f))
  BY <1>1, <1>3, GivenTwo
<1>5. BitsSet(f) = b
  BY <1>4 DEF BitsSet
<1>6. Given(p, e, f) = v
  BY <1>2, <1>4, <1>5
<1>7. Follow(p, e, f) = Learn(p, e, f.dst, Given(p, e, f))
  <2>1. f.dst.kind # "none" /\ f.kind \notin {"LOAD", "COPY"}
    BY <1>4
  <2> QED BY <1>4, <2>1, FollowSomething
<1>8. CASE dst.kind = "target"
  <2>1. Learn(p, Draft(T, Unknown, u), dst, v) = Draft(T, v, u)
    BY <1>8, DraftTarget
  <2> QED BY <1>1, <1>2, <1>4, <1>6, <1>7, <1>8, <2>1
<1>9. CASE dst.kind = "temporary"
  <2>1. PICK i : i = dst.index
    OBVIOUS
  <2>2. Learn(p, Draft(T, Unknown, u), dst, v) = Draft(Put(T, i, v), Unknown, u)
    BY <1>9, <2>1, DraftTemporary
  <2> QED BY <1>1, <1>2, <1>4, <1>6, <1>7, <1>9, <2>1, <2>2
<1> QED BY <1>8, <1>9

\* A table branch is predicted to go where it goes.
LEMMA TableFollowed ==
    ASSUME TrackTypeOK, KnowledgeHolds, NEW p \in Forms, Ours(p), Keeps(p), IsTable(p)
    PROVE  \E T, G, u : After(p) = Draft(T, G, u) /\ G \in {Unknown, Outcome(p)}
<1> DEFINE X  == Low(cells[Op(p, 0).cell], p.entry)
           at == p.inst.addr
<1>1. /\ IsMem(p, 0) /\ at \in Nat /\ at % 4 = 0
      /\ <<p.inst.mn, p.entry>> \in {<<"tbb", BitsOf[8]>>, <<"tbh", BitsOf[16]>>}
      /\ 2 ^ p.entry <= 2 ^ (BitsOf[32] - 1)
      /\ at + 5 + 2 * 2 ^ p.entry <= 2 ^ 16
      /\ p.does = "table"
  BY DEF Keeps, IsTable, Mn
<1>2. PICK w \in {8, 16} : p.entry = BitsOf[w] /\ (p.inst.mn = "tbb" <=> w = 8)
  BY <1>1
<1>3. /\ p.entry \in Nat /\ BitsOf[32] \in Nat \ {0} /\ 2 ^ p.entry \in Nat
  BY <1>2, WidthBits, BitsAssumption
<1>4. X \in 0..(2 ^ p.entry - 1) /\ X \in Nat /\ X # Unknown
  <2>1. cells[Op(p, 0).cell] \in Int
    BY <1>1, ProperForm, StartFacts, WordIsKnown DEF IsMem, OperandOK
  <2>2. X \in 0..(2 ^ p.entry - 1)
    BY <1>3, <2>1, LowRange
  <2> QED BY <1>3, <2>2, UnknownAssumption
<1>5. Outcome(p) = at + 5 + 2 * X
  BY <1>1 DEF Outcome
<1> HIDE DEF X
<1> DEFINE f1 == Effect("LOAD", Temporary(0, w), <<Operand(p.inst, 0)>>)
           f2 == Effect("ZERO_EXTEND", Temporary(1, 32), <<Temporary(0, w)>>)
           f3 == Effect("MUL", Temporary(2, 32), <<Temporary(1, 32), Immediate(2, 32)>>)
           f4 == Effect("ADD", ControlTarget(32), <<Immediate(at + 5, 32), Temporary(2, 32)>>)
<1>6. After(p) = Follow(p, Follow(p, Follow(p, Follow(p, Start, f1), f2), f3), f4)
  <2>1. After(p) = Effected(p, TableEffects(p.inst)) /\ MemoryOperand(p.inst) = 0
    BY KeepsEffects
  <2>2. TableEffects(p.inst) = <<f1, f2, f3, f4>>
    <3>1. (IF p.inst.mn = "tbb" THEN 8 ELSE 16) = w
      BY <1>2
    <3>2. (at + 4) % 4 = 0
      BY <1>1
    <3>3. (at + 4) - ((at + 4) % 4) + 1 = at + 5
      BY <1>1, <3>2
    <3> QED BY <2>1, <3>1, <3>3 DEF TableEffects
  <2> HIDE DEF f1, f2, f3, f4
  <2>3. Effected(p, <<f1, f2, f3, f4>>) = Follow(p, Follow(p, Follow(p, Follow(p, Start, f1), f2), f3), f4)
    BY EffectedFour
  <2> QED BY <2>1, <2>2, <2>3
<1>7. PICK T1 : /\ Follow(p, Start, f1) = Draft(T1, Unknown, Op(p, 0).width) /\ DOMAIN T1 = 0..2
                /\ T1[0] \in {Unknown, X}
  BY <1>1, <1>2, TableLoad DEF X
<1>8. PICK u : u = Op(p, 0).width
  OBVIOUS
<1>9. PICK T2 : /\ Follow(p, Draft(T1, Unknown, u), f2) = Draft(T2, Unknown, u) /\ DOMAIN T2 = 0..2
                /\ T2[1] \in {Unknown, X}
  <2>1. \E T2 : /\ Follow(p, Draft(T1, Unknown, u), f2) = Draft(T2, Unknown, u)
                /\ DOMAIN T2 = 0..2 /\ T2[1] = T1[0]
    BY <1>7, TableWiden
  <2> QED BY <1>7, <2>1
<1>10. PICK T3 : /\ Follow(p, Draft(T2, Unknown, u), f3) = Draft(T3, Unknown, u) /\ DOMAIN T3 = 0..2
                 /\ T3[2] \in {Unknown, 2 * X}
  <2>1. PICK x : x = T2[1]
    OBVIOUS
  <2>2. PICK v : v = IF x = Unknown THEN Unknown ELSE Compute("MUL", x, 2, BitsOf[32])
    OBVIOUS
  <2>3. v \in {Unknown, 2 * X}
    <3>1. Compute("MUL", X, 2, BitsOf[32]) = Low(X * 2, BitsOf[32])
      BY DEF Compute
    <3>2. 2 ^ BitsOf[32] = 2 ^ (BitsOf[32] - 1) + 2 ^ (BitsOf[32] - 1) /\ 2 ^ (BitsOf[32] - 1) \in Nat
          /\ 2 ^ BitsOf[32] \in Nat
      BY <1>3, HalfPower
    <3>3. X * 2 \in 0..(2 ^ BitsOf[32] - 1)
      BY <1>1, <1>3, <1>4, <3>2
    <3>4. Low(X * 2, BitsOf[32]) = X * 2
      BY <1>3, <3>3, LowSmall
    <3> QED BY <1>4, <1>9, <2>1, <2>2, <3>1, <3>4
  <2>4. PICK dst, r1, r2 : dst = Temporary(2, 32) /\ r1 = Temporary(1, 32) /\ r2 = Immediate(2, 32)
    OBVIOUS
  <2>5. /\ dst.kind = "temporary" /\ dst.index = 2 /\ dst.width = 32
        /\ x = Seen(p, Draft(T2, Unknown, u), r1) /\ Seen(p, Draft(T2, Unknown, u), r2) = 2
    BY <2>1, <2>4 DEF Temporary, Immediate, Ref, Seen, Draft
  <2>6. PICK y, b, kind : y = 2 /\ b = BitsOf[32] /\ kind = "MUL"
    OBVIOUS
  <2>7. /\ kind \in {"ADD", "MUL"} /\ dst.kind \in {"temporary", "target"} /\ dst.index \in 0..2
        /\ y = Seen(p, Draft(T2, Unknown, u), r2) /\ b = IF dst.kind = "target" THEN 16 ELSE BitsOf[dst.width]
        /\ dst.width # 0 /\ (x = Unknown \/ y = Unknown => v = Unknown)
        /\ (x # Unknown /\ y # Unknown => v = Compute(kind, x, y, b))
    BY <2>2, <2>5, <2>6, UnknownAssumption
  <2>8. Follow(p, Draft(T2, Unknown, u), Effect(kind, dst, <<r1, r2>>))
             = IF dst.kind = "target" THEN Draft(T2, v, u) ELSE Draft(Put(T2, dst.index, v), Unknown, u)
    BY <1>9, <2>5, <2>7, TableCompute
  <2>9. PICK T3 : T3 = Put(T2, 2, v)
    OBVIOUS
  <2>10. DOMAIN T3 = 0..2 /\ T3[2] = v
    BY <1>9, <2>9 DEF Put
  <2>11. Follow(p, Draft(T2, Unknown, u), f3) = Draft(T3, Unknown, u)
    BY <2>4, <2>5, <2>6, <2>8, <2>9
  <2> QED BY <2>3, <2>10, <2>11
<1>11. PICK G : /\ Follow(p, Draft(T3, Unknown, u), f4) = Draft(T3, G, u)
                /\ G \in {Unknown, at + 5 + 2 * X}
  <2>1. PICK y : y = T3[2]
    OBVIOUS
  <2>2. PICK v : v = IF y = Unknown THEN Unknown ELSE Compute("ADD", at + 5, y, 16)
    OBVIOUS
  <2>3. v \in {Unknown, at + 5 + 2 * X}
    <3>1. Compute("ADD", at + 5, 2 * X, 16) = Low((at + 5) + (2 * X), 16)
      BY DEF Compute
    <3>2. 2 ^ 16 \in Nat
      BY DoublePower
    <3>3. (at + 5) + (2 * X) \in 0..(2 ^ 16 - 1)
      BY <1>1, <1>3, <1>4, <3>2
    <3>4. Low((at + 5) + (2 * X), 16) = (at + 5) + (2 * X)
      BY <3>3, LowSmall
    <3> QED BY <1>1, <1>4, <1>10, <2>1, <2>2, <3>1, <3>4
  <2>4. PICK dst, r1, r2 : dst = ControlTarget(32) /\ r1 = Immediate(at + 5, 32) /\ r2 = Temporary(2, 32)
    OBVIOUS
  <2>5. /\ dst.kind = "target" /\ dst.index = 0 /\ dst.width = 32
        /\ y = Seen(p, Draft(T3, Unknown, u), r2) /\ Seen(p, Draft(T3, Unknown, u), r1) = at + 5
    BY <2>1, <2>4 DEF ControlTarget, Temporary, Immediate, Ref, Seen, Draft
  <2>6. PICK x, b, kind : x = at + 5 /\ b = 16 /\ kind = "ADD"
    OBVIOUS
  <2>7. /\ kind \in {"ADD", "MUL"} /\ dst.kind \in {"temporary", "target"} /\ dst.index \in 0..2
        /\ x = Seen(p, Draft(T3, Unknown, u), r1) /\ b = IF dst.kind = "target" THEN 16 ELSE BitsOf[dst.width]
        /\ dst.width # 0 /\ (x = Unknown \/ y = Unknown => v = Unknown)
        /\ (x # Unknown /\ y # Unknown => v = Compute(kind, x, y, b))
    <3>1. x # Unknown
      BY <1>1, <2>6, UnknownAssumption
    <3> QED BY <2>2, <2>5, <2>6, <3>1
  <2>8. Follow(p, Draft(T3, Unknown, u), Effect(kind, dst, <<r1, r2>>))
             = IF dst.kind = "target" THEN Draft(T3, v, u) ELSE Draft(Put(T3, dst.index, v), Unknown, u)
    BY <1>10, <2>5, <2>7, TableCompute
  <2>9. Follow(p, Draft(T3, Unknown, u), f4) = Draft(T3, v, u)
    BY <2>4, <2>5, <2>6, <2>8
  <2> QED BY <2>3, <2>9
<1> HIDE DEF f1, f2, f3, f4
<1>12. After(p) = Draft(T3, G, u)
  BY <1>6, <1>7, <1>8, <1>9, <1>10, <1>11
<1> QED BY <1>5, <1>11, <1>12

\* What writes nothing.
LEMMA KeepsFollowed ==
    ASSUME TrackTypeOK, KnowledgeHolds, NEW p \in Forms, Ours(p), Keeps(p)
    PROVE  /\ After(p).know = know /\ After(p).cells = kcells /\ After(p).named = {}
           /\ (After(p).target = Unknown \/ (IsTable(p) /\ After(p).target = Outcome(p)))
<1>1. \E T, G, u : After(p) = Draft(T, G, u) /\ (G = Unknown \/ (IsTable(p) /\ G = Outcome(p)))
  <2>1. CASE ~IsTable(p)
    BY <2>1, KeepsEffects, StartIsDraft
  <2>2. CASE IsTable(p)
    BY <2>2, TableFollowed
  <2> QED BY <2>1, <2>2
<1>2. PICK T, G, u : After(p) = Draft(T, G, u) /\ (G = Unknown \/ (IsTable(p) /\ G = Outcome(p)))
  BY <1>1
<1> QED BY <1>2 DEF Draft

\* What is reported of an instruction without a destination is so.
LEMMA KeepsRight ==
    ASSUME TrackTypeOK, KnowledgeHolds, NEW p \in Forms, Ours(p), Keeps(p)
    PROVE  Right(p)
<1>1. After(p).know = know /\ After(p).cells = kcells /\ After(p).named = {}
  BY KeepsFollowed
<1>2. Written(p).regs = regs /\ Written(p).cells = cells
  <2>1. p.dst = -1
    BY DEF Keeps
  <2> QED BY <2>1, WrittenFacts
<1>3. /\ Start.know = know /\ Start.cells = kcells
      /\ \A f \in Families : know[f] \in {Unknown, regs[f]}
      /\ \A c \in Places : kcells[c] \in {Unknown, cells[c]}
  BY StartFacts
<1>4. Truthful(p, After(p))
  BY <1>1, <1>2, <1>3 DEF Truthful
<1>5. ~p.vague => Lost(p, After(p)) = {}
  <2>1. Proper(p) /\ p.dst = -1
    BY FormsAssumption DEF Keeps
  <2>2. ~p.vague => \A n \in Indices(p.inst) : "write" \notin Op(p, n).flags
    BY <2>1 DEF Proper
  <2> QED BY <2>2 DEF Lost
<1>6. KnowsAll(Start) => KnowsAll(After(p))
  BY <1>1, <1>3 DEF KnowsAll
<1> QED BY <1>4, <1>5, <1>6 DEF Right, Complete

\* Every instruction is described truthfully, and completely unless it is vague.
LEMMA AlwaysRight ==
    ASSUME TrackTypeOK, KnowledgeHolds, NEW p \in Forms, Ours(p)
    PROVE  Right(p)
BY ProperForm, OperatesRight, CopiesRight, WidensRight, LoadsRight, StoresRight, NamesRight,
   AltersRight, KeepsRight

\* What is believed stays a record of its fields.
Shaped(e) == \E K, C, T, G, w, N : e = [know |-> K, cells |-> C, temps |-> T, target |-> G,
                                        copied |-> w, named |-> N]

\* Learning and following keep the fields of what is known.
LEMMA LearnShaped ==
    ASSUME NEW p, NEW e, Shaped(e), NEW r, NEW v
    PROVE  Shaped(Learn(p, e, r, v))
<1>1. PICK K, C, T, G, w, N : e = [know |-> K, cells |-> C, temps |-> T, target |-> G,
                                   copied |-> w, named |-> N]
  BY DEF Shaped
<1>2. CASE r.kind = "temporary"
  <2>1. Learn(p, e, r, v) = [e EXCEPT !.temps[r.index] = v]
    BY <1>2 DEF Learn
  <2>2. PICK T2 : T2 = [T EXCEPT ![r.index] = v]
    OBVIOUS
  <2>3. Learn(p, e, r, v) = [know |-> K, cells |-> C, temps |-> T2, target |-> G, copied |-> w, named |-> N]
    BY <1>1, <2>1, <2>2
  <2> QED BY <2>3 DEF Shaped
<1>3. CASE r.kind = "target"
  <2>1. Learn(p, e, r, v) = [know |-> K, cells |-> C, temps |-> T, target |-> v, copied |-> w, named |-> N]
    BY <1>1, <1>3 DEF Learn
  <2> QED BY <2>1 DEF Shaped
<1>4. CASE r.kind = "operand" /\ Op(p, r.index).kind = "reg"
  <2>1. PICK m : m = MergeIf(K[r.reg.fam], r.reg, v)
    OBVIOUS
  <2>2. PICK K2 : K2 = [K EXCEPT ![r.reg.fam] = m]
    OBVIOUS
  <2>3. Learn(p, e, r, v) = [e EXCEPT !.know[r.reg.fam] = MergeIf(@, r.reg, v), !.named = @ \cup {r.index}]
    BY <1>4 DEF Learn
  <2>4. Learn(p, e, r, v) = [know |-> K2, cells |-> C, temps |-> T, target |-> G, copied |-> w,
                             named |-> N \cup {r.index}]
    BY <1>1, <2>1, <2>2, <2>3
  <2> QED BY <2>4 DEF Shaped
<1>5. CASE r.kind = "operand" /\ Op(p, r.index).kind # "reg"
  <2> DEFINE at == Op(p, r.index).cell
             M(old) == IF v = Unknown \/ r.width = 0 \/ old = Unknown THEN Unknown
                       ELSE (old - Low(old, BitsOf[r.width])) + Low(v, BitsOf[r.width])
  <2>1. PICK m : m = M(C[at])
    OBVIOUS
  <2>2. PICK C2 : C2 = [C EXCEPT ![at] = m]
    OBVIOUS
  <2>3. Learn(p, e, r, v) = [e EXCEPT !.cells[at] = M(@), !.named = @ \cup {r.index}]
    BY <1>5 DEF Learn
  <2> HIDE DEF M, at
  <2>4. Learn(p, e, r, v) = [know |-> K, cells |-> C2, temps |-> T, target |-> G, copied |-> w,
                             named |-> N \cup {r.index}]
    BY <1>1, <2>1, <2>2, <2>3
  <2> QED BY <2>4 DEF Shaped
<1>6. CASE r.kind \notin {"temporary", "target", "operand"}
  <2>1. Learn(p, e, r, v) = e
    BY <1>6 DEF Learn
  <2> QED BY <2>1
<1> QED BY <1>2, <1>3, <1>4, <1>5, <1>6

\* Following one effect keeps them.
LEMMA FollowShaped ==
    ASSUME NEW p, NEW e, Shaped(e), NEW f
    PROVE  Shaped(Follow(p, e, f))
<1>1. CASE f.dst.kind = "none" \/ f.srcs = <<>>
  BY <1>1, FollowNothing
<1>2. CASE f.dst.kind # "none" /\ f.srcs # <<>>
  <2>1. PICK L : L = Learn(p, e, f.dst, Given(p, e, f))
    OBVIOUS
  <2>2. Shaped(L)
    BY <2>1, LearnShaped
  <2>3. PICK u : u = f.srcs[1].width
    OBVIOUS
  <2>4. Shaped([L EXCEPT !.copied = u])
    <3>1. PICK K, C, T, G, w, N : L = [know |-> K, cells |-> C, temps |-> T, target |-> G,
                                       copied |-> w, named |-> N]
      BY <2>2 DEF Shaped
    <3>2. [L EXCEPT !.copied = u] = [know |-> K, cells |-> C, temps |-> T, target |-> G,
                                     copied |-> u, named |-> N]
      BY <3>1
    <3> QED BY <3>2 DEF Shaped
  <2>5. Follow(p, e, f) = IF f.kind \in {"LOAD", "COPY"} THEN [L EXCEPT !.copied = u] ELSE L
    BY <1>2, <2>1, <2>3, FollowSomething
  <2> QED BY <2>2, <2>4, <2>5
<1> QED BY <1>1, <1>2

\* So do all effects of an instruction.
LEMMA AfterShaped ==
    ASSUME TrackTypeOK, KnowledgeHolds, NEW p \in Forms, Ours(p)
    PROVE  Shaped(After(p))
<1>1. Shaped(Start)
  BY DEF Shaped, Start
<1>2. \A f : Shaped(Follow(p, Start, f))
  BY <1>1, FollowShaped
<1>3. \A f, g : Shaped(Follow(p, Follow(p, Start, f), g))
  BY <1>2, FollowShaped
<1>4. CASE Operates(p)
  BY <1>2, <1>4, OperatesEffects
<1>5. CASE Copies(p)
  BY <1>2, <1>5, CopiesEffects
<1>6. CASE Widens(p)
  <2>1. \E f, g : After(p) = Follow(p, Follow(p, Start, f), g)
    BY <1>6, WidensEffects
  <2> QED BY <1>3, <2>1
<1>7. CASE Loads(p)
  <2>1. \/ \E f, g : After(p) = Follow(p, Follow(p, Start, f), g)
        \/ \E f : After(p) = Follow(p, Start, f)
    BY <1>7, LoadsEffects
  <2> QED BY <1>2, <1>3, <2>1
<1>8. CASE Stores(p)
  <2>1. \E f : After(p) = Follow(p, Start, f)
    BY <1>8, StoresEffects
  <2> QED BY <1>2, <2>1
<1>9. CASE NamesAddress(p)
  <2>1. \E f : After(p) = Follow(p, Start, f)
    BY <1>9, NamesEffects
  <2> QED BY <1>2, <2>1
<1>10. CASE Alters(p)
  <2>1. After(p) = Start \/ \E f : After(p) = Follow(p, Start, f)
    BY <1>10, AltersEffects
  <2> QED BY <1>1, <1>2, <2>1
<1>11. CASE Keeps(p)
  <2>1. \E T, G, u : After(p) = Draft(T, G, u)
    <3>1. CASE ~IsTable(p)
      BY <1>11, <3>1, KeepsEffects, StartIsDraft
    <3>2. CASE IsTable(p)
      BY <1>11, <3>2, TableFollowed
    <3> QED BY <3>1, <3>2
  <2> QED BY <2>1 DEF Draft, Shaped
<1> QED BY <1>4, <1>5, <1>6, <1>7, <1>8, <1>9, <1>10, <1>11, ProperForm

\* What the client believes after an instruction.
LEMMA BelievedFacts ==
    ASSUME TrackTypeOK, KnowledgeHolds, NEW p \in Forms, Ours(p), NEW b, b = Believed(p, Told(p))
    PROVE  /\ b.target = After(p).target
           /\ b.know = [f \in Families |-> IF Gone(p, After(p), f) THEN Unknown
                                           ELSE Kept(p, know[f], After(p).know[f])]
           /\ b.cells = [c \in Places |-> IF GoneCell(p, After(p), c) THEN Unknown
                                          ELSE Kept(p, kcells[c], After(p).cells[c])]
<1>1. DOMAIN know = Families /\ DOMAIN kcells = Places
  BY StartFacts
<1>2. PICK A : A = After(p)
  OBVIOUS
<1>3. PICK K, C, T, G, w, N : A = [know |-> K, cells |-> C, temps |-> T, target |-> G,
                                   copied |-> w, named |-> N]
  BY <1>2, AfterShaped DEF Shaped
<1> DEFINE K2 == [f \in DOMAIN know |->
                     IF \E n \in Lost(p, A) : Op(p, n).kind = "reg" /\ Op(p, n).reg.fam = f
                     THEN Unknown ELSE Kept(p, know[f], A.know[f])]
           C2 == [c \in DOMAIN kcells |->
                     IF \E n \in Lost(p, A) : Op(p, n).kind = "mem" /\ Op(p, n).cell = c
                     THEN Unknown ELSE Kept(p, kcells[c], A.cells[c])]
<1>4. b = [A EXCEPT !.know = K2, !.cells = C2]
  BY <1>2 DEF Believed, After
<1>5. K2 = [f \in Families |-> IF Gone(p, A, f) THEN Unknown ELSE Kept(p, know[f], A.know[f])]
  BY <1>1 DEF Gone
<1>6. C2 = [c \in Places |-> IF GoneCell(p, A, c) THEN Unknown ELSE Kept(p, kcells[c], A.cells[c])]
  BY <1>1 DEF GoneCell
<1> HIDE DEF K2, C2
<1>7. b.target = A.target /\ b.know = K2 /\ b.cells = C2
  BY <1>3, <1>4
<1> QED BY <1>2, <1>5, <1>6, <1>7

\* What the processor does with an instruction that is executed, or not.
Runs(p) == p.does \in {"branch", "test"} \/ Holds(p.on, flags)

\* What is not executed is under a condition the analysis reports.
LEMMA RunsAlways ==
    ASSUME NEW p \in Forms, p.control.predicate = Always
    PROVE  Runs(p)
<1>1. p.on = "always" \/ p.does \in {"branch", "test"}
  BY FormsAssumption DEF Proper
<1> QED BY <1>1 DEF Runs, Holds

\* An instruction without destination is one that keeps everything.
LEMMA NoDestination ==
    ASSUME NEW p \in Forms, p.dst = -1 \/ p.does \in {"branch", "test", "table"}
    PROVE  Keeps(p)
<1>1. ~Operates(p) /\ ~Copies(p) /\ ~Widens(p) /\ ~Loads(p) /\ ~NamesAddress(p)
  BY DEF Operates, Copies, Widens, Loads, NamesAddress, Writes, Operations
<1>2. ~Stores(p)
  BY DEF Stores, Writes
<1>3. ~Alters(p)
  BY DEF Alters, IsReg, IsMem, Indices
<1> QED BY <1>1, <1>2, <1>3, ProperForm

\* Under a condition only what has not changed stays known.
LEMMA KeptFacts ==
    ASSUME NEW p, NEW old, NEW new
    PROVE  /\ Kept(p, old, new) \in {Unknown, new}
           /\ p.control.predicate = Always \/ old = new => Kept(p, old, new) = new
           /\ p.control.predicate # Always => Kept(p, old, new) \in {Unknown, old}
BY DEF Kept

\* Registers and memory keep their range.
LEMMA WrittenRange ==
    ASSUME TrackTypeOK, KnowledgeHolds, NEW p \in Forms
    PROVE  Written(p).regs \in [Families -> Word] /\ Written(p).cells \in [Places -> Word]
<1> DEFINE o == Op(p, p.dst)
<1>1. /\ regs \in [Families -> Word] /\ cells \in [Places -> Word]
  BY DEF TrackTypeOK, Word
<1>2. p.dst = -1 \/ HasDst(p)
  BY ProperForm DEF HasDst, Operates, Copies, Widens, Loads, Stores, NamesAddress, Alters, Keeps, Writes
<1>3. CASE p.dst = -1
  BY <1>1, <1>3, WrittenFacts
<1>4. HasDst(p) => /\ OperandOK(o) /\ p.dst >= 0 /\ ~(p.dst < 0)
                   /\ Result(p) \in 0..(2 ^ Bits(p, p.dst) - 1)
                   /\ \E w \in DOMAIN BitsOf : Bits(p, p.dst) = BitsOf[w]
  BY ProperForm, ResultRange DEF HasDst, IsReg, IsMem, Indices
<1>5. CASE IsReg(p, p.dst)
  <2>1. HasDst(p)
    BY <1>5 DEF HasDst
  <2>2. o.kind = "reg" /\ o.reg.fam \in Families /\ o.reg.width \in DOMAIN BitsOf
        /\ Bits(p, p.dst) = BitsOf[o.reg.width]
    BY <1>4, <1>5, <2>1, BitsAssumption DEF IsReg, OperandOK, Bits
  <2>3. regs[o.reg.fam] \in Word
    BY <1>1, <2>2
  <2>4. Result(p) \in 0..(2 ^ BitsOf[o.reg.width] - 1)
    BY <1>4, <2>1, <2>2
  <2> HIDE DEF o
  <2>5. Merge(regs[o.reg.fam], o.reg, Result(p)) \in Word
    BY <2>2, <2>3, <2>4, MergeFacts
  <2>6. PICK m : m = Merge(regs[o.reg.fam], o.reg, Result(p))
    OBVIOUS
  <2>7. Written(p).cells = cells /\ Written(p).regs = [regs EXCEPT ![o.reg.fam] = m]
    BY <1>4, <2>1, <2>2, <2>6 DEF Written, o
  <2> QED BY <1>1, <2>5, <2>6, <2>7
<1>6. CASE IsMem(p, p.dst)
  <2>1. HasDst(p)
    BY <1>6 DEF HasDst
  <2>2. o.kind = "mem" /\ o.cell \in Places
    BY <1>4, <1>6, <2>1 DEF IsMem, OperandOK
  <2>3. PICK w \in DOMAIN BitsOf : Bits(p, p.dst) = BitsOf[w]
    BY <1>4, <2>1
  <2> HIDE DEF o
  <2>4. PICK m : m = (cells[o.cell] - Low(cells[o.cell], Bits(p, p.dst))) + Result(p)
    OBVIOUS
  <2>5. m \in Word
    <3>1. /\ BitsOf[w] \in Nat /\ BitsOf[64] \in Nat /\ BitsOf[w] <= BitsOf[64]
          /\ cells[o.cell] \in 0..(2 ^ BitsOf[64] - 1) /\ Result(p) \in 0..(2 ^ BitsOf[w] - 1)
      BY <1>1, <1>4, <2>1, <2>2, <2>3, WidthBits DEF Word, Top
    <3>2. PICK old, r, b, B : old = cells[o.cell] /\ r = Result(p) /\ b = BitsOf[w] /\ B = BitsOf[64]
      OBVIOUS
    <3>3. /\ b \in Nat /\ B \in Nat /\ b <= B /\ old \in 0..(2 ^ B - 1) /\ r \in 0..(2 ^ b - 1)
          /\ m = (old - Low(old, b)) + r
      BY <2>3, <2>4, <3>1, <3>2
    <3>4. m \in 0..(2 ^ B - 1)
      BY <3>3, Insert
    <3> QED BY <3>2, <3>4 DEF Word, Top
  <2>6. Written(p).regs = regs /\ Written(p).cells = [cells EXCEPT ![o.cell] = m]
    BY <1>4, <2>1, <2>2, <2>4 DEF Written, o
  <2> QED BY <1>1, <2>2, <2>5, <2>6
<1> QED BY <1>2, <1>3, <1>5, <1>6 DEF HasDst

\* A step keeps what the client knows true, and all of it known as long as
\* nothing that is not described has been met.
LEMMA KnowledgeStep ==
    ASSUME TrackTypeOK, KnowledgeHolds, NEW p \in Forms, Ours(p), NEW b, b = Believed(p, Told(p)),
           NEW newRegs, NEW newCells,
           Runs(p) => newRegs = Written(p).regs /\ newCells = Written(p).cells,
           ~Runs(p) => newRegs = regs /\ newCells = cells
    PROVE  /\ b.know \in [Families -> Believable] /\ b.cells \in [Places -> Believable]
           /\ newRegs \in [Families -> Word] /\ newCells \in [Places -> Word]
           /\ \A f \in Families : b.know[f] \in {Unknown, newRegs[f]}
           /\ \A c \in Places : b.cells[c] \in {Unknown, newCells[c]}
           /\ KnowsAll(Start) /\ ~p.vague => KnowsAll(b)
<1>1. /\ b.know = [f \in Families |-> IF Gone(p, After(p), f) THEN Unknown
                                       ELSE Kept(p, know[f], After(p).know[f])]
      /\ b.cells = [c \in Places |-> IF GoneCell(p, After(p), c) THEN Unknown
                                      ELSE Kept(p, kcells[c], After(p).cells[c])]
  BY BelievedFacts
<1>2. /\ \A f \in Families : Gone(p, After(p), f) \/ After(p).know[f] \in {Unknown, Written(p).regs[f]}
      /\ \A c \in Places : GoneCell(p, After(p), c) \/ After(p).cells[c] \in {Unknown, Written(p).cells[c]}
      /\ ~p.vague /\ KnowsAll(Start) => Lost(p, After(p)) = {} /\ KnowsAll(After(p))
  BY AlwaysRight DEF Right, Truthful, Complete
<1>3. /\ Start.know = know /\ Start.cells = kcells
      /\ \A f \in Families : know[f] \in {Unknown, regs[f]}
      /\ \A c \in Places : kcells[c] \in {Unknown, cells[c]}
  BY StartFacts
<1>4. ASSUME NEW f \in Families
      PROVE  b.know[f] \in {Unknown, newRegs[f]}
  <2>1. CASE Gone(p, After(p), f)
    BY <1>1, <2>1
  <2>2. CASE ~Gone(p, After(p), f)
    <3>1. b.know[f] = Kept(p, know[f], After(p).know[f])
      BY <1>1, <2>2
    <3>2. CASE Runs(p)
      BY <1>2, <2>2, <3>1, <3>2, KeptFacts
    <3>3. CASE ~Runs(p)
      <4>1. p.control.predicate # Always
        BY <3>3, RunsAlways
      <4> QED BY <1>3, <3>1, <3>3, <4>1, KeptFacts
    <3> QED BY <3>2, <3>3
  <2> QED BY <2>1, <2>2
<1>5. ASSUME NEW c \in Places
      PROVE  b.cells[c] \in {Unknown, newCells[c]}
  <2>1. CASE GoneCell(p, After(p), c)
    BY <1>1, <2>1
  <2>2. CASE ~GoneCell(p, After(p), c)
    <3>1. b.cells[c] = Kept(p, kcells[c], After(p).cells[c])
      BY <1>1, <2>2
    <3>2. CASE Runs(p)
      BY <1>2, <2>2, <3>1, <3>2, KeptFacts
    <3>3. CASE ~Runs(p)
      <4>1. p.control.predicate # Always
        BY <3>3, RunsAlways
      <4> QED BY <1>3, <3>1, <3>3, <4>1, KeptFacts
    <3> QED BY <3>2, <3>3
  <2> QED BY <2>1, <2>2
<1>6. Written(p).regs \in [Families -> Word] /\ Written(p).cells \in [Places -> Word]
  BY WrittenRange
<1>7. newRegs \in [Families -> Word] /\ newCells \in [Places -> Word]
  BY <1>6 DEF TrackTypeOK, Word
<1>8. ASSUME KnowsAll(Start), ~p.vague
      PROVE  KnowsAll(b)
  <2>1. Lost(p, After(p)) = {} /\ KnowsAll(After(p))
    BY <1>2, <1>8
  <2>2. p.control.predicate = Always \/ (After(p).know = know /\ After(p).cells = kcells)
    <3>1. p.control.predicate = Always \/ p.dst = -1
      BY <1>8, FormsAssumption DEF Proper
    <3>2. p.dst = -1 => After(p).know = know /\ After(p).cells = kcells
      BY NoDestination, KeepsFollowed
    <3> QED BY <3>1, <3>2
  <2>3. ASSUME NEW f \in Families
        PROVE  b.know[f] # Unknown
    <3>1. ~Gone(p, After(p), f)
      BY <2>1 DEF Gone
    <3>2. b.know[f] = Kept(p, know[f], After(p).know[f])
      BY <1>1, <3>1
    <3>3. Kept(p, know[f], After(p).know[f]) = After(p).know[f]
      BY <2>2, KeptFacts
    <3> QED BY <2>1, <3>2, <3>3 DEF KnowsAll
  <2>4. ASSUME NEW c \in Places
        PROVE  b.cells[c] # Unknown
    <3>1. ~GoneCell(p, After(p), c)
      BY <2>1 DEF GoneCell
    <3>2. b.cells[c] = Kept(p, kcells[c], After(p).cells[c])
      BY <1>1, <3>1
    <3>3. Kept(p, kcells[c], After(p).cells[c]) = After(p).cells[c]
      BY <2>2, KeptFacts
    <3> QED BY <2>1, <3>2, <3>3 DEF KnowsAll
  <2> QED BY <2>3, <2>4 DEF KnowsAll
<1>9. b.know \in [Families -> Believable] /\ b.cells \in [Places -> Believable]
  BY <1>1, <1>4, <1>5, <1>7 DEF Believable
<1> QED BY <1>4, <1>5, <1>7, <1>8, <1>9

-----------------------------------------------------------------------------
(***************************************************************************)
(* Comparisons and predictions.                                            *)
(***************************************************************************)

\* A condition without operands,
LEMMA DefinedIs ==
    ASSUME NEW s, NEW d, d = Defined(s)
    PROVE  d.defines /\ ~d.consumes /\ d.left = NoRef
BY Zenon DEF Defined, NoCondition

\* one of a comparison,
LEMMA ComparisonIs ==
    ASSUME NEW inst, NEW s, NEW d, d = Comparison(inst, s), ~(Len(inst.ops) < 2)
    PROVE  d.defines /\ ~d.consumes /\ d.left = Operand(inst, 0) /\ d.right = Operand(inst, 1)
<1>1. d = [Defined(s) EXCEPT !.left = Operand(inst, 0), !.right = Operand(inst, 1)]
  BY Zenon DEF Comparison
<1>2. PICK l, r : l = Operand(inst, 0) /\ r = Operand(inst, 1)
  BY Zenon
<1> QED BY <1>1, <1>2, Zenon DEF Defined, NoCondition

\* one of a comparison that is consumed as well,
LEMMA ConsumedComparison ==
    ASSUME NEW inst, NEW s, NEW t, NEW r, NEW d, d = Consumed(Comparison(inst, t), s, r),
           ~(Len(inst.ops) < 2)
    PROVE  d.defines /\ d.consumes /\ d.relation = r /\ d.left = Operand(inst, 0)
           /\ d.right = Operand(inst, 1)
<1>1. Comparison(inst, t) = [Defined(t) EXCEPT !.left = Operand(inst, 0), !.right = Operand(inst, 1)]
  BY Zenon DEF Comparison
<1>2. PICK x, y : x = Operand(inst, 0) /\ y = Operand(inst, 1)
  BY Zenon
<1> QED BY <1>1, <1>2, Zenon DEF Defined, NoCondition, Consumed

\* one of a comparison with zero,
LEMMA AgainstZeroIs ==
    ASSUME NEW inst, NEW state, NEW relation, NEW d, d = AgainstZero(inst, state, relation)
    PROVE  /\ d.defines /\ d.consumes /\ d.relation = relation /\ d.left = Operand(inst, 0)
           /\ d.right = Immediate(0, inst.ops[1].width)
<1>2. PICK l, r : l = Operand(inst, 0) /\ r = Immediate(0, inst.ops[1].width)
  BY Zenon
<1>3. d = [Defined(state) EXCEPT !.consumes = TRUE, !.relation = relation, !.left = l, !.right = r]
  BY <1>2, Zenon DEF AgainstZero
<1> QED BY <1>2, <1>3, Zenon DEF Defined, NoCondition

\* and none.
LEMMA NothingIs ==
    ASSUME NEW d, d = NoCondition
    PROVE  ~d.defines /\ ~d.consumes /\ d.left = NoRef
BY Zenon DEF NoCondition

\* The condition of x86: an instruction that sets the flags defines it, one
\* whose flags are no comparison defines one without operands.
LEMMA X86ConditionIs ==
    ASSUME NEW inst, NEW c, c = X86Condition(inst)
    PROVE  /\ inst.mn \in {"cmp", "sub"} /\ ~(Len(inst.ops) < 2) =>
                 c.defines /\ ~c.consumes /\ c.left = Operand(inst, 0) /\ c.right = Operand(inst, 1)
           /\ inst.mn \in ((DOMAIN X86Binary) \cup {"inc", "dec"}) \ {"sub"} =>
                 c.defines /\ ~c.consumes /\ c.left = NoRef
           /\ inst.mn \notin (DOMAIN X86Binary) \cup {"inc", "dec", "cmp", "test"} =>
                 /\ ~c.defines /\ c.left = NoRef
                 /\ (c.consumes => inst.mn \in DOMAIN X86Taken /\ c.relation = X86Taken[inst.mn])
<1> DEFINE mn == inst.mn
           D  == DOMAIN X86Binary
<1>1. DOMAIN X86Taken = {"ja", "jae", "jb", "jbe", "je", "jne", "jg", "jge", "jl", "jle"}
      /\ D = {"add", "sub", "imul", "shl", "and", "or", "xor", "shr", "sar", "rol", "ror"}
  BY X86TakenIs, TableDomains
<1>2. CASE mn \in {"cmp", "sub", "test"}
  <2>1. c = Comparison(inst, "x86")
    BY <1>1, <1>2 DEF X86Condition
  <2>2. mn \in D \cup {"inc", "dec", "cmp", "test"} /\ mn \notin (D \cup {"inc", "dec"}) \ {"sub"}
    BY <1>1, <1>2
  <2> QED BY <2>1, <2>2, ComparisonIs, Zenon
<1>3. CASE mn \in (D \cup {"inc", "dec"}) \ {"sub"}
  <2>1. c = Defined("x86")
    BY <1>1, <1>3 DEF X86Condition
  <2>2. mn \notin {"cmp", "sub"} /\ mn \in D \cup {"inc", "dec", "cmp", "test"}
    BY <1>1, <1>3
  <2> QED BY <2>1, <2>2, DefinedIs, Zenon
<1>4. CASE mn \notin D \cup {"inc", "dec", "cmp", "test"}
  <2>1. mn \notin {"cmp", "sub"} /\ mn \notin (D \cup {"inc", "dec"}) \ {"sub"}
    BY <1>1, <1>4
  <2>2. CASE mn \in DOMAIN X86Taken
    <3>1. PICK r : r = X86Taken[mn]
      BY Zenon
    <3>2. c = Consumed(NoCondition, "x86", r)
      BY <1>1, <1>4, <2>2, <3>1 DEF X86Condition
    <3>3. ~c.defines /\ c.consumes /\ c.relation = r /\ c.left = NoRef
      BY <3>2, Zenon DEF Consumed, NoCondition
    <3> QED BY <1>4, <2>1, <2>2, <3>1, <3>3, Zenon
  <2>3. CASE mn \notin DOMAIN X86Taken
    <3>1. c = NoCondition
      BY <1>1, <1>4, <2>3 DEF X86Condition
    <3> QED BY <2>1, <3>1, NothingIs, Zenon
  <2> QED BY <2>2, <2>3
<1>5. \/ mn \in {"cmp", "sub", "test"} \/ mn \in (D \cup {"inc", "dec"}) \ {"sub"}
      \/ mn \notin D \cup {"inc", "dec", "cmp", "test"}
  BY <1>1
<1> QED BY <1>2, <1>3, <1>4, <1>5, Zenon

Under(control) == control.cond /\ control.predicate # Always

\* That of ARM, which only cmp defines; under a condition it is consumed.
LEMMA ArmConditionIs ==
    ASSUME NEW inst, NEW control, NEW c, c = ArmCondition(inst, control),
           inst.mn \notin {"cbz", "cbnz"}
    PROVE  /\ c.consumes => Under(control) /\ c.relation = ArmTaken(control.predicate)
           /\ c.defines => inst.mn = "cmp"
           /\ ~c.defines => c.left = NoRef
           /\ inst.mn = "cmp" /\ ~(Len(inst.ops) < 2) =>
                 c.defines /\ (~Under(control) => ~c.consumes) /\ c.left = Operand(inst, 0)
                 /\ c.right = Operand(inst, 1)
<1> DEFINE d == IF inst.mn = "cmp" THEN Comparison(inst, "arm") ELSE NoCondition
<1>0. PICK n : n = ArmTaken(control.predicate)
  BY Zenon
<1>1. c = IF Under(control) THEN Consumed(d, "arm", n) ELSE d
  BY <1>0 DEF ArmCondition, Under
<1>2. CASE inst.mn = "cmp" /\ ~(Len(inst.ops) < 2)
  <2>1. d = Comparison(inst, "arm")
    BY <1>2
  <2>2. CASE Under(control)
    <3>1. c = Consumed(Comparison(inst, "arm"), "arm", n)
      BY <1>1, <2>1, <2>2
    <3>2. c.defines /\ c.consumes /\ c.relation = n /\ c.left = Operand(inst, 0)
          /\ c.right = Operand(inst, 1)
      BY <1>2, <3>1, ConsumedComparison
    <3> QED BY <1>0, <1>2, <2>2, <3>2, Zenon
  <2>3. CASE ~Under(control)
    <3>1. c = Comparison(inst, "arm")
      BY <1>1, <2>1, <2>3
    <3>2. c.defines /\ ~c.consumes /\ c.left = Operand(inst, 0) /\ c.right = Operand(inst, 1)
      BY <1>2, <3>1, ComparisonIs, Zenon
    <3> QED BY <1>2, <2>3, <3>2, Zenon
  <2> QED BY <2>2, <2>3
<1>3. CASE ~(inst.mn = "cmp" /\ ~(Len(inst.ops) < 2))
  <2>1. d = NoCondition
    BY <1>3 DEF Comparison
  <2>2. CASE Under(control)
    <3>1. c = Consumed(NoCondition, "arm", n)
      BY <1>1, <2>1, <2>2
    <3>2. ~c.defines /\ c.consumes /\ c.relation = n /\ c.left = NoRef
      BY <3>1, Zenon DEF Consumed, NoCondition
    <3> QED BY <1>0, <1>3, <2>2, <3>2, Zenon
  <2>3. CASE ~Under(control)
    <3>1. c = NoCondition
      BY <1>1, <2>1, <2>3
    <3>2. ~c.defines /\ ~c.consumes /\ c.left = NoRef
      BY <3>1, NothingIs, Zenon
    <3> QED BY <1>3, <2>3, <3>2, Zenon
  <2> QED BY <2>2, <2>3
<1> QED BY <1>2, <1>3

\* A comparison whose difference the flags are of.
Holding(c, arch, f) ==
    \E w \in DOMAIN BitsOf : \E x, y \in 0..(2 ^ BitsOf[w] - 1) :
        /\ c = [left |-> x, right |-> y, bits |-> BitsOf[w]]
        /\ f = FlagsOfDifference(arch, x, y, BitsOf[w])

\* The comparison the client remembers is the one the flags are of.
ComparedIs ==
    compared = NoComparison
      \/ (engine.arch \in {"x86", "arm"} /\ Holding(compared, engine.arch, flags))

\* The registers and memory a comparison is read from.
Before == [know |-> know, cells |-> kcells, temps |-> <<>>]

\* An operand of a comparison is the one fetched, when it is known.
LEMMA SeenBefore ==
    ASSUME TrackTypeOK, KnowledgeHolds, NEW p \in Forms, NEW n \in Indices(p.inst),
           IsReg(p, n) \/ IsMem(p, n)
    PROVE  Seen(p, Before, Operand(p.inst, n)) \in {Unknown, Fetch(p, n)}
<1>1. Before.know = know /\ Before.cells = kcells
  BY DEF Before
<1>2. /\ \A f \in Families : know[f] \in {Unknown, regs[f]}
      /\ \A c \in Places : kcells[c] \in {Unknown, cells[c]}
  BY StartFacts
<1>3. /\ IsReg(p, n) => Op(p, n).reg.fam \in Families
      /\ IsMem(p, n) => Op(p, n).cell \in Places
  BY ProperForm DEF IsReg, IsMem, OperandOK
<1>4. PICK e : e = Before
  OBVIOUS
<1>5. CASE IsReg(p, n)
  <2>1. e.know[Op(p, n).reg.fam] \in {Unknown, regs[Op(p, n).reg.fam]}
    BY <1>1, <1>2, <1>3, <1>4, <1>5
  <2> QED BY <1>4, <1>5, <2>1, SeenFacts
<1>6. CASE IsMem(p, n)
  <2>1. e.cells[Op(p, n).cell] \in {Unknown, cells[Op(p, n).cell]}
    BY <1>1, <1>2, <1>3, <1>4, <1>6
  <2> QED BY <1>4, <1>6, <2>1, SeenFacts
<1> QED BY <1>5, <1>6

\* What a comparison is described as: of what the processor compares.
LEMMA DescribedIs ==
    ASSUME TrackTypeOK, KnowledgeHolds, NEW p \in Forms, Compares(p),
           NEW c, c.left = Operand(p.inst, 0), c.right = Operand(p.inst, 1), NEW d, d = Described(p, c)
    PROVE  /\ Bits(p, 0) = BitsOf[p.width] /\ p.width \in DOMAIN BitsOf
           /\ Fetch(p, 0) \in 0..(2 ^ BitsOf[p.width] - 1) /\ Fetch(p, 1) \in 0..(2 ^ BitsOf[p.width] - 1)
           /\ d = NoComparison
                \/ d = [left |-> Fetch(p, 0), right |-> Fetch(p, 1), bits |-> BitsOf[p.width]]
<1>1. /\ 0 \in Indices(p.inst) /\ 1 \in Indices(p.inst) /\ p.width \in DOMAIN BitsOf /\ p.width # 0
      /\ IsReg(p, 0) \/ IsMem(p, 0)
      /\ IsImm(p, 1) \/ ((IsReg(p, 1) \/ IsMem(p, 1)) /\ Op(p, 1).width = p.width)
      /\ Op(p, 0).width = p.width
  BY ProperForm DEF Compares, Indices
<1>2. Bits(p, 0) = BitsOf[p.width] /\ Bits(p, 1) = BitsOf[p.width]
  BY <1>1 DEF Bits, IsReg, IsMem, IsImm
<1>3. /\ Fetch(p, 0) \in 0..(2 ^ BitsOf[p.width] - 1) /\ Fetch(p, 1) \in 0..(2 ^ BitsOf[p.width] - 1)
  <2>1. Op(p, 0).kind # "pcrel" /\ Op(p, 1).kind # "pcrel"
    BY <1>1 DEF IsReg, IsMem, IsImm
  <2> QED BY <1>1, <1>2, <2>1, FetchFacts
<1>4. PICK l, r, b : l = Seen(p, Before, c.left) /\ r = Seen(p, Before, c.right) /\ b = BitsOf[p.width]
  OBVIOUS
<1>5. l \in {Unknown, Fetch(p, 0)}
  BY <1>1, <1>4, SeenBefore
<1>6. c.left.kind # "none" /\ c.left.width = p.width
  BY <1>1, OperandIs
<1>7. r # Unknown => Low(r, b) = Fetch(p, 1)
  <2>1. CASE IsImm(p, 1)
    <3>1. r = Op(p, 1).imm
      BY <1>1, <1>4, <2>1, SeenFacts
    <3>2. Fetch(p, 1) = Low(Op(p, 1).imm, Bits(p, 1))
      BY <2>1 DEF Fetch, IsImm
    <3> QED BY <1>2, <1>4, <3>1, <3>2
  <2>2. CASE IsReg(p, 1) \/ IsMem(p, 1)
    <3>1. r \in {Unknown, Fetch(p, 1)}
      BY <1>1, <1>4, <2>2, SeenBefore
    <3>2. Low(Fetch(p, 1), b) = Fetch(p, 1)
      <4>1. b \in Nat /\ Fetch(p, 1) \in 0..(2 ^ b - 1)
        BY <1>1, <1>3, <1>4, WidthBits
      <4> QED BY <4>1, LowSmall
    <3> QED BY <3>1, <3>2
  <2> QED BY <1>1, <2>1, <2>2
<1>8. d = NoComparison \/ (r # Unknown /\ l # Unknown /\ d = [left |-> l, right |-> Low(r, b), bits |-> b])
  <2>1. d = IF c.left.kind = "none" \/ l = Unknown \/ r = Unknown \/ c.left.width = 0 THEN NoComparison
            ELSE [left |-> l, right |-> Low(r, BitsOf[c.left.width]), bits |-> BitsOf[c.left.width]]
    BY <1>4 DEF Described, Before
  <2> QED BY <1>4, <1>6, <2>1
<1>9. d = NoComparison \/ d = [left |-> Fetch(p, 0), right |-> Fetch(p, 1), bits |-> BitsOf[p.width]]
  BY <1>4, <1>5, <1>7, <1>8
<1> QED BY <1>1, <1>2, <1>3, <1>9

\* Without operands nothing is described.
LEMMA DescribedNothing ==
    ASSUME NEW p, NEW c, c.left = NoRef
    PROVE  Described(p, c) = NoComparison
BY DEF Described, NoRef, Ref

\* What is remembered behind an instruction.
LEMMA RememberedIs ==
    ASSUME NEW p, NEW t, NEW c, c = t.condition, NEW r, r = Remembered(p, t)
    PROVE  /\ ~c.defines \/ c.consumes => r = compared
           /\ c.defines /\ ~c.consumes => r = NoComparison
                                            \/ (p.control.predicate = Always /\ r = Described(p, c))
BY DEF Remembered

\* The condition of AArch64, which only a test defines and which it consumes itself.
LEMMA A64ConditionIs ==
    ASSUME NEW inst, NEW c, c = A64Condition(inst)
    PROVE  /\ ~c.defines \/ c.consumes
           /\ inst.mn \notin {"cbz", "tbz", "cbnz", "tbnz"} => ~c.defines /\ ~c.consumes
           /\ inst.mn = "cbz" => c = AgainstZero(inst, "aarch64", "EQ")
           /\ inst.mn = "cbnz" => c = AgainstZero(inst, "aarch64", "NE")
<1>1. CASE inst.mn \in {"cbz", "tbz"}
  <2>1. c = AgainstZero(inst, "aarch64", "EQ")
    BY <1>1 DEF A64Condition
  <2>2. c.defines /\ c.consumes
    BY <2>1, AgainstZeroIs
  <2> QED BY <1>1, <2>1, <2>2
<1>2. CASE inst.mn \in {"cbnz", "tbnz"}
  <2>1. c = AgainstZero(inst, "aarch64", "NE")
    BY <1>2 DEF A64Condition
  <2>2. c.defines /\ c.consumes
    BY <2>1, AgainstZeroIs
  <2> QED BY <1>2, <2>1, <2>2
<1>3. CASE inst.mn \notin {"cbz", "tbz", "cbnz", "tbnz"}
  <2>1. c = NoCondition
    BY <1>3 DEF A64Condition
  <2>2. ~c.defines /\ ~c.consumes
    BY <2>1, NothingIs, Zenon
  <2> QED BY <1>3, <2>2
<1> QED BY <1>1, <1>2, <1>3

\* A step keeps the remembered comparison one of the flags.
LEMMA ComparedStep ==
    ASSUME TrackTypeOK, KnowledgeHolds, ComparedIs, NEW p \in Forms, Ours(p),
           NEW f,
           \/ (p.sets = "none" \/ ~Runs(p)) /\ f = flags
           \/ /\ p.sets = "compared" /\ Runs(p)
              /\ f = FlagsOfDifference(engine.arch, Fetch(p, p.srcs[1]), Fetch(p, p.srcs[2]),
                                       Bits(p, p.srcs[1]))
           \/ p.sets = "other" /\ Runs(p),
           NEW r, r = Remembered(p, Told(p))
    PROVE  r = NoComparison \/ (engine.arch \in {"x86", "arm"} /\ Holding(r, engine.arch, f))
<1> DEFINE good(x) == x = NoComparison \/ (engine.arch \in {"x86", "arm"} /\ Holding(x, engine.arch, f))
<1>1. PICK c : c = Told(p).condition
  BY Zenon
<1>2. /\ ~c.defines \/ c.consumes => r = compared
      /\ c.defines /\ ~c.consumes => r = NoComparison
                                       \/ (p.control.predicate = Always /\ r = Described(p, c))
  BY <1>1, RememberedIs
<1>3. p.sets = "none" => r # compared \/ good(r)
  BY DEF ComparedIs
<1>4. ASSUME p.sets = "compared", Compares(p), c.left = Operand(p.inst, 0),
             c.right = Operand(p.inst, 1), c.defines, ~c.consumes, engine.arch \in {"x86", "arm"}
      PROVE  good(r)
  <2>1. CASE r = NoComparison
    BY <2>1
  <2>2. CASE p.control.predicate = Always /\ r = Described(p, c)
    <3>1. Runs(p)
      BY <2>2, RunsAlways
    <3>2. f = FlagsOfDifference(engine.arch, Fetch(p, 0), Fetch(p, 1), Bits(p, 0))
      BY <1>4, <3>1 DEF Compares
    <3>3. /\ Bits(p, 0) = BitsOf[p.width] /\ p.width \in DOMAIN BitsOf
          /\ Fetch(p, 0) \in 0..(2 ^ BitsOf[p.width] - 1) /\ Fetch(p, 1) \in 0..(2 ^ BitsOf[p.width] - 1)
          /\ r = NoComparison
               \/ r = [left |-> Fetch(p, 0), right |-> Fetch(p, 1), bits |-> BitsOf[p.width]]
      BY <1>4, <2>2, DescribedIs
    <3>4. r = NoComparison \/ Holding(r, engine.arch, f)
      BY <3>2, <3>3 DEF Holding
    <3> QED BY <1>4, <3>4
  <2> QED BY <1>2, <1>4, <2>1, <2>2
<1>5. CASE Arch(p) = "x86"
  <2>1. /\ Mn(p) # "test" /\ (p.sets = "compared" <=> Mn(p) \in {"cmp", "sub"})
        /\ p.sets = "compared" => Compares(p)
        /\ p.sets \notin {"none", "compared"} => Mn(p) \in (DOMAIN X86Binary) \cup {"inc", "dec"}
    BY <1>5, FormsAssumption DEF Proper, FlagsOK
  <2>2. c = X86Condition(p.inst) /\ engine.arch = "x86"
    BY <1>1, <1>5, ToldIs DEF Ours, Arch
  <2>3. /\ p.inst.mn \in {"cmp", "sub"} /\ ~(Len(p.inst.ops) < 2) =>
                 c.defines /\ ~c.consumes /\ c.left = Operand(p.inst, 0) /\ c.right = Operand(p.inst, 1)
        /\ p.inst.mn \in ((DOMAIN X86Binary) \cup {"inc", "dec"}) \ {"sub"} =>
                 c.defines /\ ~c.consumes /\ c.left = NoRef
        /\ p.inst.mn \notin (DOMAIN X86Binary) \cup {"inc", "dec", "cmp", "test"} => ~c.defines
    BY <2>2, X86ConditionIs
  <2>4. CASE p.sets = "compared"
    <3>1. Compares(p) /\ p.inst.mn \in {"cmp", "sub"}
      BY <2>1, <2>4 DEF Mn
    <3>2. ~(Len(p.inst.ops) < 2)
      BY <3>1 DEF Compares
    <3> QED BY <1>4, <2>1, <2>2, <2>3, <2>4, <3>1, <3>2
  <2>5. CASE p.sets # "compared" /\ Mn(p) \in (DOMAIN X86Binary) \cup {"inc", "dec"}
    <3>1. c.defines /\ ~c.consumes /\ c.left = NoRef
      BY <2>1, <2>3, <2>5 DEF Mn
    <3>2. r = NoComparison
      BY <1>2, <3>1, DescribedNothing
    <3> QED BY <3>2
  <2>6. CASE p.sets # "compared" /\ Mn(p) \notin (DOMAIN X86Binary) \cup {"inc", "dec"}
    <3>1. ~c.defines
      BY <2>1, <2>3, <2>6 DEF Mn
    <3>2. p.sets = "none"
      BY <2>1, <2>6
    <3> QED BY <1>2, <1>3, <3>1, <3>2
  <2> QED BY <2>4, <2>5, <2>6
<1>6. CASE Arch(p) = "arm"
  <2>1. /\ (p.sets = "compared" <=> Mn(p) = "cmp")
        /\ p.sets # "none" => p.sets = "compared" /\ Compares(p) /\ ~p.control.cond
    BY <1>6, FormsAssumption DEF Proper, FlagsOK
  <2>2. c = ArmCondition(p.inst, p.control) /\ engine.arch = "arm"
    BY <1>1, <1>6, ToldIs DEF Ours, Arch
  <2>3. CASE p.sets = "compared"
    <3>1. Compares(p) /\ p.inst.mn = "cmp" /\ ~p.control.cond
      BY <2>1, <2>3 DEF Mn
    <3>3. ~(Len(p.inst.ops) < 2) /\ ~Under(p.control)
      BY <3>1 DEF Compares, Under
    <3>2. c.defines /\ ~c.consumes /\ c.left = Operand(p.inst, 0) /\ c.right = Operand(p.inst, 1)
      BY <2>2, <3>1, <3>3, ArmConditionIs
    <3> QED BY <1>4, <2>1, <2>2, <2>3, <3>2
  <2>4. CASE p.sets # "compared"
    <3>1. p.sets = "none" /\ p.inst.mn # "cmp"
      BY <2>1, <2>4 DEF Mn
    <3>2. ~c.defines \/ c.consumes
      <4>1. CASE p.inst.mn \in {"cbz", "cbnz"}
        <5>1. \E relation : c = AgainstZero(p.inst, "arm", relation)
          BY <2>2, <4>1 DEF ArmCondition
        <5> QED BY <5>1, AgainstZeroIs
      <4>2. CASE p.inst.mn \notin {"cbz", "cbnz"}
        BY <2>2, <3>1, <4>2, ArmConditionIs
      <4> QED BY <4>1, <4>2
    <3> QED BY <1>2, <1>3, <3>1, <3>2
  <2> QED BY <2>3, <2>4
<1>7. CASE Arch(p) \notin {"x86", "arm"}
  <2>1. compared = NoComparison
    BY <1>7 DEF ComparedIs, Ours, Arch
  <2>2. ~c.defines \/ c.consumes
    <3>1. CASE Arch(p) = "aarch64"
      BY <1>1, <3>1, ToldIs, A64ConditionIs
    <3>2. CASE Arch(p) = "bpf"
      <4>1. c = NoCondition
        BY <1>1, <3>2, ToldIs
      <4> QED BY <4>1, NothingIs
    <3> QED BY <1>7, <3>1, <3>2, ToldIs
  <2> QED BY <1>2, <2>1, <2>2
<1> QED BY <1>5, <1>6, <1>7
\* What is predicted.
LEMMA PredictedIs ==
    ASSUME NEW p, NEW t, NEW c, c = t.condition, NEW target, NEW r, r = Predicted(p, t, target)
    PROVE  /\ ~c.consumes => r = target
           /\ c.consumes /\ ~c.defines =>
                 \/ r = Unknown
                 \/ /\ compared # NoComparison /\ c.relation # "none"
                    /\ r = (IF Relates(c.relation, compared) THEN 1 ELSE 0)
           /\ c.consumes /\ c.defines =>
                 \/ r = Unknown
                 \/ /\ Described(p, c) # NoComparison
                    /\ r = (IF Relates(c.relation, Described(p, c)) THEN 1 ELSE 0)
BY DEF Predicted

\* A branch on a register, compared with zero.
LEMMA TestIs ==
    ASSUME TrackTypeOK, KnowledgeHolds, NEW p \in Forms, IsReg(p, 0), NEW relation, NEW state,
           NEW c, c = AgainstZero(p.inst, state, relation), NEW d, d = Described(p, c)
    PROVE  d = NoComparison
             \/ \E b \in Nat \ {0} : /\ Fetch(p, 0) \in 0..(2 ^ b - 1) /\ 0 \in 0..(2 ^ b - 1)
                                     /\ d = [left |-> Fetch(p, 0), right |-> 0, bits |-> b]
<1>1. c.left = Operand(p.inst, 0) /\ c.right = Immediate(0, p.inst.ops[1].width)
  BY AgainstZeroIs
<1>2. 0 \in Indices(p.inst) /\ OperandOK(Op(p, 0)) /\ Op(p, 0).kind = "reg"
  BY ProperForm DEF IsReg
<1>3. Op(p, 0).width \in DOMAIN BitsOf /\ Op(p, 0).width # 0
  BY <1>2, BitsAssumption DEF OperandOK
<1>4. Bits(p, 0) = BitsOf[Op(p, 0).width]
  BY <1>2, <1>3 DEF Bits
<1>5. PICK l, b : l = Seen(p, Before, c.left) /\ b = BitsOf[Op(p, 0).width]
  OBVIOUS
<1>6. l \in {Unknown, Fetch(p, 0)}
  BY <1>1, <1>2, <1>5, SeenBefore
<1>7. Seen(p, Before, c.right) = 0
  BY <1>1 DEF Seen, Immediate, Ref
<1>8. b \in Nat \ {0} /\ 2 ^ b \in Nat \ {0}
  BY <1>3, <1>5, WidthBits
<1>9. Low(0, b) = 0 /\ 0 \in 0..(2 ^ b - 1)
  <2>1. 0 \in 0..(2 ^ b - 1)
    BY <1>8
  <2> QED BY <1>8, <2>1, LowSmall
<1>10. Fetch(p, 0) \in 0..(2 ^ b - 1)
  BY <1>2, <1>4, <1>5, FetchFacts
<1>11. c.left.kind # "none" /\ c.left.width = Op(p, 0).width
  BY <1>1, <1>2, OperandIs
<1>12. d = IF c.left.kind = "none" \/ l = Unknown \/ Seen(p, Before, c.right) = Unknown \/ c.left.width = 0
           THEN NoComparison
           ELSE [left |-> l, right |-> Low(Seen(p, Before, c.right), BitsOf[c.left.width]),
                 bits |-> BitsOf[c.left.width]]
  BY <1>5 DEF Described, Before
<1>13. d = NoComparison \/ d = [left |-> Fetch(p, 0), right |-> 0, bits |-> b]
  BY <1>3, <1>5, <1>6, <1>7, <1>9, <1>11, <1>12
<1> QED BY <1>8, <1>9, <1>10, <1>13

\* Equality with zero, as a relation.
LEMMA ZeroRelates ==
    ASSUME NEW b \in Nat \ {0}, NEW x \in 0..(2 ^ b - 1), 0 \in 0..(2 ^ b - 1),
           NEW d, d = [left |-> x, right |-> 0, bits |-> b]
    PROVE  (Relates("EQ", d) <=> x = 0) /\ (Relates("NE", d) <=> x # 0)
<1>1. x = 0 <=> Signed(x, b) = Signed(0, b)
  <2>1. PICK f : f = FlagsOfDifference("arm", x, 0, b)
    OBVIOUS
  <2> QED BY <2>1, SignedOrder
<1> QED BY <1>1 DEF Relates

\* The conditions of ARM that have a relation have a name.
LEMMA NamedCondition ==
    ASSUME NEW n, ArmTaken(n) # "none"
    PROVE  \E c \in ConditionNames : c[1] = n
BY DEF ArmTaken, ConditionNames
\* A branch consumed from the remembered comparison.
LEMMA HeldPrediction ==
    ASSUME TrackTypeOK, ComparedIs, compared # NoComparison, NEW relation, NEW on,
           \/ engine.arch = "x86" /\ on \in DOMAIN X86Taken /\ relation = X86Taken[on]
           \/ engine.arch = "arm" /\ \E n \in ConditionNames : relation = ArmTaken(n[1]) /\ on = n[2]
    PROVE  Relates(relation, compared) <=> Holds(on, flags)
<1>1. Holding(compared, engine.arch, flags)
  BY DEF ComparedIs
<1>2. PICK b, x, y :
          /\ b \in Nat \ {0} /\ x \in 0..(2 ^ b - 1) /\ y \in 0..(2 ^ b - 1)
          /\ compared = [left |-> x, right |-> y, bits |-> b]
          /\ flags = FlagsOfDifference(engine.arch, x, y, b)
  BY <1>1, WidthBits DEF Holding
<1>3. compared.left = x /\ compared.right = y /\ compared.bits = b
  BY <1>2
<1>4. PICK c : c = compared
  OBVIOUS
<1>5. PICK f : f = flags
  OBVIOUS
<1>6. PICK arch : arch = engine.arch
  OBVIOUS
<1>7. /\ arch = "x86" => \A mn \in DOMAIN X86Taken : Relates(X86Taken[mn], c) <=> Holds(mn, f)
      /\ arch = "arm" => \A n \in ConditionNames : Relates(ArmTaken(n[1]), c) <=> Holds(n[2], f)
  BY <1>2, <1>3, <1>4, <1>5, <1>6, RelationsRead
<1> QED BY <1>4, <1>5, <1>6, <1>7

\* What is predicted of a branch is what it does.
LEMMA PredictedStep ==
    ASSUME TrackTypeOK, KnowledgeHolds, ComparedIs, NEW p \in Forms, Ours(p),
           NEW t, t = Believed(p, Told(p)).target, NEW r, r = Predicted(p, Told(p), t),
           Outcome(p) # Unknown
    PROVE  r \in {Unknown, Outcome(p)} /\ Outcome(p) \in Int
<1>1. PICK c : c = Told(p).condition
  BY Zenon
<1>2. p.does \in {"branch", "test", "table"}
  BY DEF Outcome
<1>3. Keeps(p)
  BY <1>2, NoDestination
<1>4. t = Unknown \/ (IsTable(p) /\ t = Outcome(p))
  <2>1. t = After(p).target
    BY BelievedFacts
  <2> QED BY <1>3, <2>1, KeepsFollowed
<1>5. /\ ~c.consumes => r \in {Unknown, Outcome(p)}
      /\ c.consumes /\ ~c.defines =>
            \/ r = Unknown
            \/ /\ compared # NoComparison /\ c.relation # "none"
               /\ r = (IF Relates(c.relation, compared) THEN 1 ELSE 0)
      /\ c.consumes /\ c.defines =>
            \/ r = Unknown
            \/ /\ Described(p, c) # NoComparison
               /\ r = (IF Relates(c.relation, Described(p, c)) THEN 1 ELSE 0)
  BY <1>1, <1>4, PredictedIs
<1>6. CASE p.does = "branch"
  <2>1. Outcome(p) = IF Holds(p.on, flags) THEN 1 ELSE 0
    BY <1>6 DEF Outcome
  <2>2. Plain(p)
    BY <1>3, <1>6 DEF Keeps
  <2>3. CASE Arch(p) = "x86"
    <3>1. p.inst.mn \notin (DOMAIN X86Binary) \cup {"inc", "dec", "cmp", "test"}
             \/ p.inst.mn \in ((DOMAIN X86Binary) \cup {"inc", "dec"}) \ {"sub"}
      BY <2>2, <2>3, TableDomains DEF Plain, Operators, Special, Mn
    <3>2. c = X86Condition(p.inst) /\ engine.arch = "x86"
      BY <1>1, <2>3, ToldIs DEF Ours, Arch
    <3>3. c.consumes => ~c.defines /\ p.inst.mn \in DOMAIN X86Taken /\ c.relation = X86Taken[p.inst.mn]
      BY <3>1, <3>2, X86ConditionIs
    <3>4. p.inst.mn \in DOMAIN X86Taken => p.on = p.inst.mn
      BY <1>6, <2>3, FormsAssumption DEF Proper, FlagsOK, Mn
    <3>5. ASSUME c.consumes, compared # NoComparison
          PROVE  Relates(c.relation, compared) <=> Holds(p.on, flags)
      BY <3>2, <3>3, <3>4, <3>5, HeldPrediction
    <3> QED BY <1>5, <2>1, <3>3, <3>5
  <2>4. CASE Arch(p) = "arm"
    <3>1. p.inst.mn \notin {"cbz", "cbnz", "cmp"}
      BY <2>2, <2>4 DEF Plain, Special, Mn
    <3>2. c = ArmCondition(p.inst, p.control) /\ engine.arch = "arm"
      BY <1>1, <2>4, ToldIs DEF Ours, Arch
    <3>3. /\ ~c.defines
          /\ c.consumes => Under(p.control) /\ c.relation = ArmTaken(p.control.predicate)
      BY <3>1, <3>2, ArmConditionIs
    <3>4. Under(p.control) => \A n \in ConditionNames : n[1] = p.control.predicate => p.on = n[2]
      BY <1>6, <2>4, FormsAssumption DEF Proper, FlagsOK, Under
    <3>5. ASSUME c.consumes, compared # NoComparison, c.relation # "none"
          PROVE  Relates(c.relation, compared) <=> Holds(p.on, flags)
      <4>1. PICK n \in ConditionNames : n[1] = p.control.predicate
        BY <3>3, <3>5, NamedCondition
      <4>2. p.on = n[2] /\ c.relation = ArmTaken(n[1])
        BY <3>3, <3>4, <3>5, <4>1
      <4> QED BY <3>2, <3>5, <4>2, HeldPrediction
    <3> QED BY <1>5, <2>1, <3>3, <3>5
  <2>5. CASE Arch(p) = "aarch64"
    <3>1. p.inst.mn \notin {"cbz", "tbz", "cbnz", "tbnz"}
      BY <2>2, <2>5 DEF Plain, Special, Mn
    <3>2. ~c.consumes
      BY <1>1, <2>5, <3>1, ToldIs, A64ConditionIs
    <3> QED BY <1>5, <2>1, <3>2
  <2>6. CASE Arch(p) = "bpf"
    <3>1. c = NoCondition
      BY <1>1, <2>6, ToldIs
    <3>2. ~c.consumes
      BY <3>1, NothingIs
    <3> QED BY <1>5, <2>1, <3>2
  <2> QED BY <2>3, <2>4, <2>5, <2>6, ToldIs
<1>7. CASE p.does = "test"
  <2>1. /\ Arch(p) \in {"arm", "aarch64"} /\ p.inst.mn \in {"cbz", "cbnz"} /\ IsReg(p, 0)
        /\ p.on = (IF p.inst.mn = "cbz" THEN "zero" ELSE "nonzero")
    BY <1>3, <1>7 DEF Keeps, Mn
  <2>2. Outcome(p) = IF (Fetch(p, 0) = 0) = (p.on = "zero") THEN 1 ELSE 0
    BY <1>7 DEF Outcome
  <2>3. PICK relation : relation = IF p.inst.mn = "cbz" THEN "EQ" ELSE "NE"
    OBVIOUS
  <2>4. c = AgainstZero(p.inst, Arch(p), relation)
    <3>1. CASE Arch(p) = "arm"
      <4>1. c = ArmCondition(p.inst, p.control)
        BY <1>1, <3>1, ToldIs
      <4> QED BY <2>1, <2>3, <3>1, <4>1 DEF ArmCondition
    <3>2. CASE Arch(p) = "aarch64"
      <4>1. c = A64Condition(p.inst)
        BY <1>1, <3>2, ToldIs
      <4> QED BY <2>1, <2>3, <3>2, <4>1 DEF A64Condition
    <3> QED BY <2>1, <3>1, <3>2
  <2>5. c.defines /\ c.consumes /\ c.relation = relation
    BY <2>4, AgainstZeroIs
  <2>6. PICK d : d = Described(p, c)
    OBVIOUS
  <2>7. r = Unknown \/ (d # NoComparison /\ r = (IF Relates(relation, d) THEN 1 ELSE 0))
    BY <1>5, <2>5, <2>6
  <2>8. ASSUME d # NoComparison
        PROVE  Relates(relation, d) <=> ((Fetch(p, 0) = 0) <=> (p.on = "zero"))
    <3>1. PICK b \in Nat \ {0} : /\ Fetch(p, 0) \in 0..(2 ^ b - 1) /\ 0 \in 0..(2 ^ b - 1)
                                 /\ d = [left |-> Fetch(p, 0), right |-> 0, bits |-> b]
      BY <2>1, <2>4, <2>6, <2>8, TestIs
    <3>2. PICK x : x = Fetch(p, 0)
      OBVIOUS
    <3>3. (Relates("EQ", d) <=> x = 0) /\ (Relates("NE", d) <=> x # 0)
      BY <3>1, <3>2, ZeroRelates
    <3> QED BY <2>1, <2>3, <3>2, <3>3
  <2> QED BY <2>2, <2>7, <2>8
<1>8. CASE p.does = "table"
  <2>1. /\ Arch(p) = "arm" /\ IsMem(p, 0) /\ ~p.control.cond /\ p.inst.mn \in {"tbb", "tbh"}
        /\ p.inst.addr \in Nat /\ p.entry \in {BitsOf[8], BitsOf[16]}
    BY <1>3, <1>8 DEF Keeps, Mn
  <2>2. c = ArmCondition(p.inst, p.control)
    BY <1>1, <2>1, ToldIs
  <2>3. ~c.consumes
    BY <2>1, <2>2, ArmConditionIs DEF Under
  <2>4. Outcome(p) \in Int
    <3>1. Op(p, 0).cell \in Places
      BY <2>1, ProperForm DEF IsMem, OperandOK
    <3>2. cells[Op(p, 0).cell] \in Int
      BY <3>1 DEF TrackTypeOK, Top
    <3>3. p.entry \in Nat /\ 2 ^ p.entry \in Nat
      BY <2>1, WidthBits, BitsAssumption
    <3>4. Low(cells[Op(p, 0).cell], p.entry) \in Int
      <4>1. Low(cells[Op(p, 0).cell], p.entry) \in 0..(2 ^ p.entry - 1)
        BY <3>2, <3>3, LowRange
      <4> QED BY <3>3, <4>1
    <3> QED BY <1>8, <2>1, <3>4 DEF Outcome
  <2> QED BY <1>5, <2>3, <2>4
<1> QED BY <1>2, <1>6, <1>7, <1>8
-----------------------------------------------------------------------------
(***************************************************************************)
(* The invariant.                                                          *)
(***************************************************************************)

Flags == [z: BOOLEAN, n: BOOLEAN, c: BOOLEAN, v: BOOLEAN]

\* The flags of a difference are flags.
LEMMA FlagsRange ==
    ASSUME NEW arch, NEW x \in Int, NEW y \in Int, NEW b \in Nat
    PROVE  FlagsOfDifference(arch, x, y, b) \in Flags
<1> DEFINE d == Signed(x, b) - Signed(y, b)
           z == x = y
           n == Neg(Low(x - y, b), b)
           c == IF arch = "x86" THEN x < y ELSE x >= y
           v == d < -(2 ^ (b - 1)) \/ d >= 2 ^ (b - 1)
<1>1. z \in BOOLEAN
  OBVIOUS
<1>2. n \in BOOLEAN
  BY DEF Neg
<1>3. c \in BOOLEAN
  <2>1. (x < y) \in BOOLEAN /\ (x >= y) \in BOOLEAN
    OBVIOUS
  <2> QED BY <2>1, Zenon
<1>4. v \in BOOLEAN
  OBVIOUS
<1>5. FlagsOfDifference(arch, x, y, b) = [z |-> z, n |-> n, c |-> c, v |-> v]
  BY Zenon DEF FlagsOfDifference
<1>6. ASSUME NEW q \in BOOLEAN, NEW r \in BOOLEAN, NEW s \in BOOLEAN, NEW t \in BOOLEAN
      PROVE  [z |-> q, n |-> r, c |-> s, v |-> t] \in Flags
  BY DEF Flags
<1> HIDE DEF z, n, c, v
<1>7. [z |-> z, n |-> n, c |-> c, v |-> v] \in Flags
  BY <1>1, <1>2, <1>3, <1>4, <1>6, Zenon
<1> QED BY <1>5, <1>7, Zenon

\* A step, by what it reads.
LEMMA StepIs ==
    ASSUME NEW p \in Forms, Step(p)
    PROVE  /\ Ours(p) /\ steps < MaxSteps /\ steps' = steps + 1 /\ engine' = engine
           /\ Runs(p) => regs' = Written(p).regs /\ cells' = Written(p).cells
           /\ ~Runs(p) => regs' = regs /\ cells' = cells
           /\ \/ (p.sets = "none" \/ ~Runs(p)) /\ flags' = flags
              \/ /\ p.sets = "compared" /\ Runs(p)
                 /\ flags' = FlagsOfDifference(engine.arch, Fetch(p, p.srcs[1]),
                                               Fetch(p, p.srcs[2]), Bits(p, p.srcs[1]))
              \/ /\ p.sets = "other" /\ Runs(p)
                 /\ flags' \in [z: BOOLEAN, n: BOOLEAN, c: {flags.c}, v: {FALSE}]
           /\ know' = Believed(p, Told(p)).know /\ kcells' = Believed(p, Told(p)).cells
           /\ compared' = Remembered(p, Told(p))
           /\ forgot' = (forgot \/ p.vague)
           /\ Outcome(p) = Unknown => verdict' = NoVerdict
           /\ Outcome(p) # Unknown =>
                 verdict' = [predicted |-> Predicted(p, Told(p), Believed(p, Told(p)).target),
                             real |-> Outcome(p)]
<1>1. PICK t : t = Told(p)
  BY Zenon
<1>2. PICK b : b = Believed(p, t)
  BY Zenon
<1>3. PICK w : w = Written(p)
  BY Zenon
<1>4. /\ p.inst.arch = engine.arch /\ p.inst.mode = engine.mode
      /\ steps < MaxSteps /\ steps' = steps + 1 /\ engine' = engine
      /\ regs'  = IF Runs(p) THEN w.regs ELSE regs
      /\ cells' = IF Runs(p) THEN w.cells ELSE cells
      /\ \/ (p.sets = "none" \/ ~Runs(p)) /\ flags' = flags
         \/ /\ p.sets = "compared" /\ Runs(p)
            /\ flags' = FlagsOfDifference(engine.arch, Fetch(p, p.srcs[1]),
                                          Fetch(p, p.srcs[2]), Bits(p, p.srcs[1]))
         \/ /\ p.sets = "other" /\ Runs(p)
            /\ flags' \in [z: BOOLEAN, n: BOOLEAN, c: {flags.c}, v: {FALSE}]
      /\ know' = b.know /\ kcells' = b.cells
      /\ compared' = Remembered(p, t)
      /\ forgot' = (forgot \/ p.vague)
      /\ verdict' = IF Outcome(p) = Unknown THEN NoVerdict
                    ELSE [predicted |-> Predicted(p, t, b.target), real |-> Outcome(p)]
  BY <1>1, <1>2, <1>3, Zenon DEF Step, Told, Runs
<1> QED BY <1>1, <1>2, <1>3, <1>4 DEF Ours

\* What the client knows, predicts and remembers, together.
TrackInv == TrackTypeOK /\ KnowledgeHolds /\ PredictionsHold /\ NothingForgotten /\ ComparedIs

\* The operands of a remembered comparison are values.
LEMMA ComparedType ==
    ASSUME NEW c, NEW arch, NEW f, c = NoComparison \/ Holding(c, arch, f)
    PROVE  {c.left, c.right} \subseteq {Unknown} \cup Word
<1>1. CASE c = NoComparison
  BY <1>1 DEF NoComparison
<1>2. CASE Holding(c, arch, f)
  <2>1. PICK w \in DOMAIN BitsOf : \E x, y \in 0..(2 ^ BitsOf[w] - 1) :
            c = [left |-> x, right |-> y, bits |-> BitsOf[w]]
    BY <1>2 DEF Holding
  <2>2. 0..(2 ^ BitsOf[w] - 1) \subseteq Word
    BY WidthBits
  <2> QED BY <2>1, <2>2
<1> QED BY <1>1, <1>2

\* The invariant holds where a program starts,
LEMMA TrackInitial == TrackInit => TrackInv
<1> SUFFICES ASSUME TrackInit
             PROVE  TrackInv
  OBVIOUS
<1>1. PICK s \in Starts : /\ engine = s.engine /\ regs = s.regs /\ cells = s.cells
                          /\ know = s.regs /\ kcells = s.cells
  BY DEF TrackInit
<1>2. s.regs \in [Families -> Word] /\ s.cells \in [Places -> Word]
  BY StartsAssumption DEF Word
<1>3. /\ flags \in [z: BOOLEAN, n: {FALSE}, c: BOOLEAN, v: {FALSE}]
      /\ steps = 0 /\ compared = NoComparison /\ forgot = FALSE /\ verdict = NoVerdict
  BY DEF TrackInit
<1>4. flags \in [z: BOOLEAN, n: BOOLEAN, c: BOOLEAN, v: BOOLEAN]
  BY <1>3
<1>5. /\ {compared.left, compared.right} \subseteq {Unknown} \cup Word
      /\ {verdict.predicted, verdict.real} \subseteq {Unknown} \cup Int
      /\ verdict.predicted = Unknown
  BY <1>3 DEF NoComparison, NoVerdict
<1>6. steps \in 0..MaxSteps
  BY <1>3, StepsAssumption
<1>7. TrackTypeOK
  BY <1>1, <1>2, <1>3, <1>4, <1>5, <1>6 DEF TrackTypeOK, Word
<1>8. KnowledgeHolds
  BY <1>1, <1>2 DEF KnowledgeHolds
<1>9. NothingForgotten
  BY <1>1, <1>2, WordIsKnown DEF NothingForgotten
<1>10. PredictionsHold /\ ComparedIs
  BY <1>3, <1>5 DEF PredictionsHold, ComparedIs
<1> QED BY <1>7, <1>8, <1>9, <1>10 DEF TrackInv

\* is kept by every instruction,
LEMMA TrackStep ==
    ASSUME TrackInv, NEW p \in Forms, Step(p)
    PROVE  TrackInv'
<1>1. TrackTypeOK /\ KnowledgeHolds /\ PredictionsHold /\ NothingForgotten /\ ComparedIs
  BY DEF TrackInv
<1>2. /\ Ours(p) /\ steps < MaxSteps /\ steps' = steps + 1 /\ engine' = engine
      /\ Runs(p) => regs' = Written(p).regs /\ cells' = Written(p).cells
      /\ ~Runs(p) => regs' = regs /\ cells' = cells
      /\ \/ (p.sets = "none" \/ ~Runs(p)) /\ flags' = flags
         \/ /\ p.sets = "compared" /\ Runs(p)
            /\ flags' = FlagsOfDifference(engine.arch, Fetch(p, p.srcs[1]),
                                          Fetch(p, p.srcs[2]), Bits(p, p.srcs[1]))
         \/ /\ p.sets = "other" /\ Runs(p)
            /\ flags' \in [z: BOOLEAN, n: BOOLEAN, c: {flags.c}, v: {FALSE}]
      /\ know' = Believed(p, Told(p)).know /\ kcells' = Believed(p, Told(p)).cells
      /\ compared' = Remembered(p, Told(p))
      /\ forgot' = (forgot \/ p.vague)
      /\ Outcome(p) = Unknown => verdict' = NoVerdict
      /\ Outcome(p) # Unknown =>
            verdict' = [predicted |-> Predicted(p, Told(p), Believed(p, Told(p)).target),
                        real |-> Outcome(p)]
  BY StepIs, Zenon
<1>3. PICK b : b = Believed(p, Told(p))
  BY Zenon
<1>4. /\ know' \in [Families -> Believable] /\ kcells' \in [Places -> Believable]
      /\ regs' \in [Families -> Word] /\ cells' \in [Places -> Word]
      /\ \A f \in Families : know'[f] \in {Unknown, regs'[f]}
      /\ \A c \in Places : kcells'[c] \in {Unknown, cells'[c]}
      /\ KnowsAll(Start) /\ ~p.vague => KnowsAll(b)
  <2>1. know' = b.know /\ kcells' = b.cells
    BY <1>2, <1>3
  <2>2. PICK newRegs, newCells : newRegs = regs' /\ newCells = cells'
    OBVIOUS
  <2>3. /\ Runs(p) => newRegs = Written(p).regs /\ newCells = Written(p).cells
        /\ ~Runs(p) => newRegs = regs /\ newCells = cells
    BY <1>2, <2>2
  <2>4. /\ b.know \in [Families -> Believable] /\ b.cells \in [Places -> Believable]
        /\ newRegs \in [Families -> Word] /\ newCells \in [Places -> Word]
        /\ \A f \in Families : b.know[f] \in {Unknown, newRegs[f]}
        /\ \A c \in Places : b.cells[c] \in {Unknown, newCells[c]}
        /\ KnowsAll(Start) /\ ~p.vague => KnowsAll(b)
    BY <1>1, <1>2, <1>3, <2>3, KnowledgeStep
  <2> QED BY <2>1, <2>2, <2>4
<1>5. compared' = NoComparison
         \/ (engine.arch \in {"x86", "arm"} /\ Holding(compared', engine.arch, flags'))
  <2>1. PICK f, r : f = flags' /\ r = compared'
    OBVIOUS
  <2>2. /\ r = Remembered(p, Told(p))
        /\ \/ (p.sets = "none" \/ ~Runs(p)) /\ f = flags
           \/ /\ p.sets = "compared" /\ Runs(p)
              /\ f = FlagsOfDifference(engine.arch, Fetch(p, p.srcs[1]), Fetch(p, p.srcs[2]),
                                       Bits(p, p.srcs[1]))
           \/ p.sets = "other" /\ Runs(p)
    BY <1>2, <2>1
  <2>3. r = NoComparison \/ (engine.arch \in {"x86", "arm"} /\ Holding(r, engine.arch, f))
    BY <1>1, <1>2, <2>2, ComparedStep
  <2> QED BY <2>1, <2>3
<1>6. /\ {verdict'.predicted, verdict'.real} \subseteq {Unknown} \cup Int
      /\ verdict'.predicted \in {Unknown, verdict'.real}
  <2>1. CASE Outcome(p) = Unknown
    BY <1>2, <2>1 DEF NoVerdict
  <2>2. CASE Outcome(p) # Unknown
    <3>1. PICK t, r : t = Believed(p, Told(p)).target /\ r = Predicted(p, Told(p), t)
      BY Zenon
    <3>2. r \in {Unknown, Outcome(p)} /\ Outcome(p) \in Int
      BY <1>1, <1>2, <2>2, <3>1, PredictedStep
    <3>3. verdict' = [predicted |-> r, real |-> Outcome(p)]
      BY <1>2, <2>2, <3>1
    <3> QED BY <3>2, <3>3
  <2> QED BY <2>1, <2>2
<1>7. flags' \in [z: BOOLEAN, n: BOOLEAN, c: BOOLEAN, v: BOOLEAN]
  <2>1. CASE flags' = flags
    BY <1>1, <2>1 DEF TrackTypeOK
  <2>2. CASE /\ p.sets = "compared" /\ Runs(p)
             /\ flags' = FlagsOfDifference(engine.arch, Fetch(p, p.srcs[1]),
                                           Fetch(p, p.srcs[2]), Bits(p, p.srcs[1]))
    <3>1. Compares(p)
      <4>1. p.sets = "compared" /\ Arch(p) \in {"x86", "arm", "aarch64", "bpf"} /\ FlagsOK(p)
        BY <2>2, FormsAssumption DEF Proper
      <4> QED BY <4>1 DEF FlagsOK
    <3>2. p.srcs = <<0, 1>> /\ 0 \in Indices(p.inst) /\ 1 \in Indices(p.inst)
          /\ Op(p, 0).kind # "pcrel" /\ Op(p, 1).kind # "pcrel"
      BY <3>1 DEF Compares, Indices, IsReg, IsMem, IsImm
    <3>3. /\ Bits(p, 0) \in Nat /\ Fetch(p, 0) \in Int
          /\ Bits(p, 1) \in Nat /\ Fetch(p, 1) \in Int
      <4>1. /\ \E w \in DOMAIN BitsOf : Bits(p, 0) = BitsOf[w]
            /\ \E w \in DOMAIN BitsOf : Bits(p, 1) = BitsOf[w]
            /\ Fetch(p, 0) \in 0..(2 ^ Bits(p, 0) - 1)
            /\ Fetch(p, 1) \in 0..(2 ^ Bits(p, 1) - 1)
        BY <1>1, <3>2, FetchFacts
      <4>2. Bits(p, 0) \in Nat /\ 2 ^ Bits(p, 0) \in Nat /\ Bits(p, 1) \in Nat /\ 2 ^ Bits(p, 1) \in Nat
        BY <4>1, WidthBits
      <4> QED BY <4>1, <4>2
    <3>4. flags' = FlagsOfDifference(engine.arch, Fetch(p, 0), Fetch(p, 1), Bits(p, 0))
      BY <2>2, <3>2
    <3> QED BY <3>3, <3>4, FlagsRange DEF Flags
  <2>3. CASE flags' \in [z: BOOLEAN, n: BOOLEAN, c: {flags.c}, v: {FALSE}]
    <3>1. flags.c \in BOOLEAN
      BY <1>1 DEF TrackTypeOK
    <3> QED BY <2>3, <3>1
  <2> QED BY <1>2, <2>1, <2>2, <2>3
<1>8. TrackTypeOK'
  <2>1. {compared'.left, compared'.right} \subseteq {Unknown} \cup Word
    BY <1>5, ComparedType
  <2>2. steps' \in 0..MaxSteps
    BY <1>1, <1>2, StepsAssumption DEF TrackTypeOK
  <2>3. forgot' \in BOOLEAN
    BY <1>2
  <2>4. engine' \in {s.engine : s \in Starts}
    BY <1>1, <1>2 DEF TrackTypeOK
  <2> QED BY <1>4, <1>6, <1>7, <2>1, <2>2, <2>3, <2>4 DEF TrackTypeOK, Word, Believable
<1>9. KnowledgeHolds'
  BY <1>4 DEF KnowledgeHolds
<1>10. NothingForgotten'
  <2>1. SUFFICES ASSUME ~forgot'
                 PROVE  /\ \A f \in DOMAIN regs' : know'[f] # Unknown
                        /\ \A c \in DOMAIN cells' : kcells'[c] # Unknown
    BY DEF NothingForgotten
  <2>2. ~forgot /\ ~p.vague
    BY <1>2, <2>1
  <2>3. KnowsAll(Start)
    <3>1. /\ \A f \in DOMAIN regs : know[f] # Unknown
          /\ \A c \in DOMAIN cells : kcells[c] # Unknown
      BY <1>1, <2>2 DEF NothingForgotten
    <3>2. DOMAIN regs = Families /\ DOMAIN cells = Places
      BY <1>1 DEF TrackTypeOK
    <3>3. Start.know = know /\ Start.cells = kcells
      BY <1>1, StartFacts
    <3> QED BY <3>1, <3>2, <3>3 DEF KnowsAll
  <2>4. KnowsAll(b) /\ know' = b.know /\ kcells' = b.cells
    BY <1>2, <1>3, <1>4, <2>2, <2>3
  <2> QED BY <1>4, <2>4 DEF KnowsAll
<1>11. PredictionsHold' /\ ComparedIs'
  BY <1>2, <1>5, <1>6 DEF PredictionsHold, ComparedIs
<1> QED BY <1>8, <1>9, <1>10, <1>11 DEF TrackInv

\* and so always holds.
LEMMA TrackInvariant == TrackSpec => []TrackInv
<1>1. TrackInit => TrackInv
  BY TrackInitial
<1>2. TrackInv /\ [TrackNext]_trackVars => TrackInv'
  <2> SUFFICES ASSUME TrackInv, [TrackNext]_trackVars
               PROVE  TrackInv'
    OBVIOUS
  <2>1. CASE TrackNext
    BY <2>1, TrackStep DEF TrackNext
  <2>2. CASE UNCHANGED trackVars
    BY <2>2 DEF TrackInv, TrackTypeOK, KnowledgeHolds, PredictionsHold, NothingForgotten,
                ComparedIs, trackVars
  <2> QED BY <2>1, <2>2
<1> QED BY <1>1, <1>2, PTL DEF TrackSpec

\* The state of the client and of the processor keeps its types: what the
\* effects of asmkit_analyze_inst_values say never leads out of the values a
\* register or a byte of memory can have.
THEOREM TrackTyped == TrackSpec => []TrackTypeOK
<1>1. TrackInv => TrackTypeOK
  BY DEF TrackInv
<1> QED BY <1>1, TrackInvariant, PTL

\* Whatever program of proper instructions is followed, and whatever of them is
\* executed, a value the client derives from the effects reported is the value
\* the register or the memory has.
THEOREM TrackKnows == TrackSpec => []KnowledgeHolds
<1>1. TrackInv => KnowledgeHolds
  BY DEF TrackInv
<1> QED BY <1>1, TrackInvariant, PTL

\* A branch, conditional or through a table, goes where the conditions and
\* effects the analysis reports say it goes.
THEOREM TrackPredicts == TrackSpec => []PredictionsHold
<1>1. TrackInv => PredictionsHold
  BY DEF TrackInv
<1> QED BY <1>1, TrackInvariant, PTL

\* Nothing an instruction that is described does is missing from the effects:
\* the client never has to give up a value over one.
THEOREM TrackForgetsNothing == TrackSpec => []NothingForgotten
<1>1. TrackInv => NothingForgotten
  BY DEF TrackInv
<1> QED BY <1>1, TrackInvariant, PTL

\* The comparison the client keeps for the next branch is the one whose
\* difference the flags hold, so that the condition asmkit_analyze_inst_values
\* reports of a branch is read off the right operands.
THEOREM TrackCompares == TrackSpec => []ComparisonHolds
<1>1. TrackInv => ComparisonHolds
  <2> SUFFICES ASSUME ComparedIs
               PROVE  ComparisonHolds
    BY DEF TrackInv
  <2>1. CASE compared = NoComparison
    BY <2>1 DEF ComparisonHolds
  <2>2. CASE Holding(compared, engine.arch, flags)
    <3>1. PICK x, y, b : /\ compared = [left |-> x, right |-> y, bits |-> b]
                         /\ flags = FlagsOfDifference(engine.arch, x, y, b)
      BY <2>2 DEF Holding
    <3>2. compared.left = x /\ compared.right = y /\ compared.bits = b
      BY <3>1
    <3> QED BY <3>1, <3>2, Zenon DEF ComparisonHolds
  <2> QED BY <2>1, <2>2 DEF ComparedIs
<1> QED BY <1>1, TrackInvariant, PTL
=============================================================================
