----------------------------- MODULE MemoryProofs -----------------------------
(***************************************************************************)
(* The properties that the run Memory checks, for every value of the       *)
(* constants, from the inductive invariants of the allocators.             *)
(***************************************************************************)
EXTENDS MCMemory, BuddyProofs, LayerProofs

(***************************************************************************)
(* The layout of an allocation                                             *)
(***************************************************************************)

\* The powers of two up to the last class, as values of a function: the provers do not
\* calculate with exponents.
PowerTable(f) ==
  /\ f \in [Nat -> Nat]
  /\ \A k \in Nat : f[k] = 2 ^ k
  /\ f[0] = 1 /\ f[1] = 2 /\ f[2] = 4 /\ f[3] = 8 /\ f[4] = 16
  /\ f[5] = 32 /\ f[6] = 64 /\ f[7] = 128 /\ f[8] = 256 /\ f[9] = 512
  /\ f[10] = 1024 /\ f[11] = 2048 /\ f[12] = 4096 /\ f[13] = 8192 /\ f[14] = 16384
  /\ f[15] = 32768 /\ f[16] = 65536 /\ f[17] = 131072 /\ f[18] = 262144

LEMMA PowersOfTwo == \E f : PowerTable(f)
<1> DEFINE f == [k \in Nat |-> 2 ^ k]
<1>1. \A k \in Nat : f[k] = 2 ^ k
  BY SMT
<1>2. f \in [Nat -> Nat] /\ f[0] = 1
  <2>1. \A k \in Nat : 2 ^ k \in Nat
    BY PowerPositive
  <2> QED
    BY SMT, <2>1, PowerZero
<1>3. \A k \in Nat : f[k + 1] = 2 * f[k]
  <2>1. SUFFICES ASSUME NEW k \in Nat PROVE f[k + 1] = 2 * f[k]
    OBVIOUS
  <2>2. 2 ^ (k + 1) = 2 * 2 ^ k
    BY PowerNext
  <2> QED
    BY SMT, <2>2
<1> HIDE DEF f
<1>4. f[1] = 2 /\ f[2] = 4 /\ f[3] = 8 /\ f[4] = 16
  BY SMT, <1>2, <1>3
<1>5. f[5] = 32 /\ f[6] = 64 /\ f[7] = 128 /\ f[8] = 256 /\ f[9] = 512
  BY SMT, <1>2, <1>3, <1>4
<1>6. f[10] = 1024 /\ f[11] = 2048 /\ f[12] = 4096 /\ f[13] = 8192 /\ f[14] = 16384
  BY SMT, <1>2, <1>3, <1>5
<1>7. f[15] = 32768 /\ f[16] = 65536 /\ f[17] = 131072 /\ f[18] = 262144
  BY SMT, <1>2, <1>3, <1>6
<1> QED
  BY SMT, <1>1, <1>2, <1>4, <1>5, <1>6, <1>7 DEF PowerTable

\* An alignment divides 16 or is a multiple of 32.
LEMMA AlignmentFacts ==
  ASSUME NEW a \in Alignments
  PROVE  /\ a \in Nat /\ a > 0
         /\ a \in {1, 2, 4, 8, 16} \/ \E b \in Nat : b > 0 /\ a = 32 * b
<1>1. PICK k \in 0 .. 29 : a = 2 ^ k
  BY SMT, LayoutAssumption
<1>2. CASE k <= 4
  <2>1. PICK f : PowerTable(f)
    BY PowersOfTwo
  <2>2. a = f[k]
    BY SMT, <1>1, <2>1 DEF PowerTable
  <2>3. k = 0 \/ k = 1 \/ k = 2 \/ k = 3 \/ k = 4
    BY SMT, <1>2
  <2> QED
    BY SMT, <2>1, <2>2, <2>3 DEF PowerTable
<1>3. CASE k > 4
  <2> DEFINE b == 2 ^ (k - 5)
  <2>1. k - 5 \in Nat /\ k - 4 \in Nat /\ k - 3 \in Nat /\ k - 2 \in Nat /\ k - 1 \in Nat
        /\ k - 4 = (k - 5) + 1 /\ k - 3 = (k - 4) + 1 /\ k - 2 = (k - 3) + 1
        /\ k - 1 = (k - 2) + 1 /\ k = (k - 1) + 1
    BY SMT, <1>3
  <2>2. b \in Nat /\ b > 0
    BY SMT, <2>1, PowerPositive
  <2> HIDE DEF b
  <2>3. 2 ^ (k - 4) = 2 * b
    BY SMT, <2>1, PowerNext DEF b
  <2>4. 2 ^ (k - 3) = 2 * 2 ^ (k - 4)
    BY SMT, <2>1, PowerNext
  <2>5. 2 ^ (k - 2) = 2 * 2 ^ (k - 3)
    BY SMT, <2>1, PowerNext
  <2>6. 2 ^ (k - 1) = 2 * 2 ^ (k - 2)
    BY SMT, <2>1, PowerNext
  <2>7. 2 ^ k = 2 * 2 ^ (k - 1)
    BY SMT, <2>1, PowerNext
  <2>8. a = 32 * b
    BY SMT, <1>1, <2>2, <2>3, <2>4, <2>5, <2>6, <2>7
  <2> QED
    BY SMT, <2>2, <2>8
<1> QED
  BY SMT, <1>1, <1>2, <1>3

\* The class of a size is no smaller, and of one of three kinds.
LEMMA ClassFacts ==
  ASSUME NEW n \in Nat, n > 0
  PROVE  /\ GetClass(n) \in Nat /\ n <= GetClass(n)
         /\ \/ GetClass(n) <= 512 /\ GetClass(n) % 32 = 0
            \/ GetClass(n) \in {1024, 2048, 4096, 8192, 16384, 32768, 65536, 131072, 262144}
            \/ GetClass(n) > 262144 /\ GetClass(n) % 4096 = 0
<1>1. CASE n <= 512
  <2>1. GetClass(n) = n + ((-n) % 32)
    BY SMT, <1>1 DEF GetClass, RoundUp
  <2>2. (-n) % 32 \in 0 .. 31 /\ (n + ((-n) % 32)) % 32 = 0
    BY SMT
  <2> QED
    BY SMT, <1>1, <2>1, <2>2
<1>2. CASE n > 512 /\ n <= 262144
  <2> DEFINE S == {2 ^ k : k \in 0 .. 18} \cap (n .. 262144)
  <2>0. PICK f : PowerTable(f)
    BY PowersOfTwo
  <2>1. GetClass(n) = Min(S)
    BY SMT, <1>2 DEF GetClass, PowerAbove
  <2>2. S \in SUBSET Nat
    BY SMT
  <2>3. 262144 \in S
    <3>1. f[18] = 2 ^ 18 /\ f[18] = 262144
      BY SMT, <2>0 DEF PowerTable
    <3> QED
      BY SMT, <1>2, <3>1
  <2>4. Min(S) \in S
    BY SMT, <2>2, <2>3, MinOfNaturals
  <2>5. PICK k \in 0 .. 18 : Min(S) = 2 ^ k /\ Min(S) \in n .. 262144
    BY SMT, <2>4
  <2> DEFINE c == Min(S)
  <2>6. c > 512 /\ c = f[k]
    <3>1. f[k] = 2 ^ k
      BY SMT, <2>0 DEF PowerTable
    <3> QED
      BY SMT, <1>2, <2>5, <3>1
  <2> HIDE DEF c, S
  <2>7. ~ (k = 0 \/ k = 1 \/ k = 2 \/ k = 3 \/ k = 4 \/ k = 5 \/ k = 6 \/ k = 7 \/ k = 8 \/ k = 9)
    BY SMT, <2>0, <2>6 DEF PowerTable
  <2>8. \/ k = 10 \/ k = 11 \/ k = 12 \/ k = 13 \/ k = 14 \/ k = 15 \/ k = 16 \/ k = 17 \/ k = 18
    BY SMT, <2>7
  <2>9. c \in {1024, 2048, 4096, 8192, 16384, 32768, 65536, 131072, 262144}
    BY SMT, <2>0, <2>6, <2>8 DEF PowerTable
  <2> QED
    BY SMT, <2>1, <2>5, <2>9 DEF c
<1>3. CASE n > 262144
  <2>1. GetClass(n) = n + ((-n) % 4096)
    BY SMT, <1>3 DEF GetClass, RoundUp
  <2>2. (-n) % 4096 \in 0 .. 4095 /\ (n + ((-n) % 4096)) % 4096 = 0
    BY SMT
  <2> QED
    BY SMT, <1>3, <2>1, <2>2
<1> QED
  BY SMT, <1>1, <1>2, <1>3

LEMMA ModFacts ==
  ASSUME NEW x \in Int, NEW a \in Nat, a > 0
  PROVE  x % a \in 0 .. a - 1 /\ \E v \in Int : x = a * v + (x % a)
<1>1. PICK d \in Int : d = x \div a
  BY SMT
<1>2. PICK r \in 0 .. a - 1 : r = x % a
  BY SMT
<1>3. r = x - a * d
  BY SMT, <1>1, <1>2
<1>4. x = a * d + r
  BY SMT, <1>3
<1> QED
  BY SMT, <1>2, <1>4

LEMMA ModOfMultiple ==
  ASSUME NEW x \in Int, NEW a \in Nat, a > 0, NEW v \in Int, x = a * v
  PROVE  x % a = 0
<1> DEFINE r == x % a
<1>1. PICK w \in Int : x = a * w + r
  BY SMT, ModFacts
<1>2. r \in 0 .. a - 1
  BY SMT, ModFacts
<1> HIDE DEF r
<1>3. r = a * (v - w)
  BY SMT, <1>1, <1>2
<1>4. PICK d \in Int : d = v - w
  BY SMT
<1>5. ASSUME d >= 1 PROVE FALSE
  <2>1. PICK e \in Nat : d = 1 + e
    BY SMT, <1>5
  <2>2. a * d = a + a * e /\ a * e >= 0
    BY SMT, <2>1
  <2> QED
    BY SMT, <1>2, <1>3, <1>4, <2>2
<1>6. ASSUME d <= -1 PROVE FALSE
  <2>1. PICK e \in Nat : d = -1 - e
    BY SMT, <1>6
  <2>2. a * d = -a - a * e /\ a * e >= 0
    BY SMT, <2>1
  <2> QED
    BY SMT, <1>2, <1>3, <1>4, <2>2
<1>7. d = 0
  BY SMT, <1>5, <1>6
<1>8. r = 0
  BY SMT, <1>2, <1>3, <1>4, <1>7
<1> QED
  BY SMT, <1>8 DEF r

\* A request that is laid out: its class holds size and padding.
LEMMA RequestFacts ==
  ASSUME NEW r \in Requests, ~ Refused(r)
  PROVE  /\ r.size \in Nat /\ r.size > 0 /\ r.alignment \in Alignments /\ r.tagged \in BOOLEAN
         /\ Padding(r) \in Nat /\ Padding(r) > 0
         /\ Class(r) \in Nat /\ r.size + Padding(r) <= Class(r)
         /\ \/ Class(r) <= 512 /\ Class(r) % 32 = 0
            \/ Class(r) \in {1024, 2048, 4096, 8192, 16384, 32768, 65536, 131072, 262144}
            \/ Class(r) > 262144 /\ Class(r) % 4096 = 0
<1>1. r.size \in Nat /\ r.size > 0 /\ r.alignment \in Alignments /\ r.tagged \in BOOLEAN
  <2>1. r.size \in Sizes /\ r.alignment \in Alignments /\ r.tagged \in BOOLEAN
    BY DEF Requests
  <2>2. r.size \in Nat
    BY <2>1, LayoutAssumption
  <2>3. r.size # 0
    BY DEF Refused
  <2> QED
    BY SMT, <2>1, <2>2, <2>3
<1>2. r.alignment \in Nat
  BY <1>1, AlignmentFacts
<1>3. Padding(r) \in Nat /\ Padding(r) > 0
  BY SMT, <1>1, <1>2 DEF Padding
<1>4. PICK n \in Nat : n = r.size + Padding(r) /\ n > 0
  BY SMT, <1>1, <1>3
<1>5. Class(r) = GetClass(n)
  BY <1>4 DEF Class
<1> QED
  BY SMT, <1>1, <1>3, <1>4, <1>5, ClassFacts

LEMMA PieceFacts ==
  ASSUME NEW r \in Requests, ~ Refused(r), NEW p \in Pieces(r)
  PROVE  /\ p.base \in Nat /\ p.base % 16 = 0 /\ p.idx \in Nat
         /\ Class(r) > 262144 => p.idx = 0
<1> DEFINE offset == IF Layer(Class(r)) = "small" THEN Header ELSE 0
<1>1. PICK q \in ChunkPages(r) : \E i \in Indices(Class(r)) : p = [base |-> q + offset, idx |-> i]
  BY DEF Pieces
<1>2. PICK i \in Indices(Class(r)) : p = [base |-> q + offset, idx |-> i]
  BY <1>1
<1>3. offset \in Nat /\ offset % 16 = 0
  BY SMT, LayoutAssumption
<1> HIDE DEF offset
<1>4. q \in Nat /\ q % 16 = 0
  <2>1. PICK J : J = (IF r.alignment > 4096 THEN r.alignment \div 4096 ELSE 1) - 1
    OBVIOUS
  <2>2. \E j \in 0 .. J : q = 4096 * j
    BY <2>1 DEF ChunkPages
  <2> QED
    BY SMT, <2>2
<1>5. i \in Nat /\ (Class(r) > 262144 => i = 0)
  <2>1. i \in 0 .. PieceCount(Class(r)) - 1
    BY DEF Indices
  <2>2. Class(r) > 262144 => PieceCount(Class(r)) = 1
    BY SMT, RequestFacts DEF PieceCount, Layer
  <2> QED
    BY SMT, <2>1, <2>2
<1>6. p.base = q + offset /\ p.idx = i
  BY <1>2
<1> QED
  BY SMT, <1>3, <1>4, <1>5, <1>6

\* A piece starts at a multiple of 16, as classes are multiples of 32.
LEMMA StartFacts ==
  ASSUME NEW r \in Requests, ~ Refused(r), NEW p \in Pieces(r)
  PROVE  /\ PieceStart(r, p) \in Nat /\ PieceStart(r, p) % 16 = 0
         /\ PieceStart(r, p) = p.base + p.idx * Class(r)
         /\ Class(r) % 32 = 0 /\ Class(r) > 0
<1>1. PICK c \in Nat : c = Class(r)
  BY RequestFacts
<1>2. c % 32 = 0 /\ c > 0
  BY SMT, <1>1, RequestFacts
<1>3. PICK d \in Nat : c = 32 * d
  <2>1. c = 32 * (c \div 32) /\ c \div 32 \in Nat
    BY SMT, <1>2
  <2> QED
    BY <2>1
<1>4. p.base \in Nat /\ p.base % 16 = 0 /\ p.idx \in Nat
  BY PieceFacts
<1>5. PICK m \in Nat : m = p.idx * d
  BY SMT, <1>3, <1>4
<1>6. p.idx * c = 32 * m
  BY SMT, <1>3, <1>4, <1>5
<1>7. PieceStart(r, p) = p.base + 32 * m
  BY SMT, <1>1, <1>6 DEF PieceStart
<1>8. (p.base + 32 * m) % 16 = 0
  BY SMT, <1>4
<1> QED
  BY SMT, <1>1, <1>2, <1>4, <1>7, <1>8 DEF PieceStart

\* The shift puts the metadata before the first aligned byte behind the lead, and stays
\* within the padding.
LEMMA ShiftFacts ==
  ASSUME NEW r \in Requests, ~ Refused(r), NEW start \in Nat, start % 16 = 0
  PROVE  /\ Shift(r, start) \in Nat /\ Shift(r, start) % 16 = 0
         /\ Shift(r, start) + 16 + (IF r.tagged THEN 16 ELSE 0) <= Padding(r)
         /\ (start + Shift(r, start) + Lead(r)) % r.alignment = 0
<1> DEFINE a == r.alignment
           L == Lead(r)
           s == Shift(r, start)
<1>1. /\ a \in Nat /\ a > 0 /\ L \in {16, 32} /\ r.tagged \in BOOLEAN
      /\ a \in {1, 2, 4, 8, 16} \/ \E b \in Nat : b > 0 /\ a = 32 * b
  BY RequestFacts, AlignmentFacts DEF Lead
<1>2. CASE a \in {1, 2, 4, 8, 16}
  <2>1. s = 0 /\ Padding(r) = 16 + (IF r.tagged THEN 16 ELSE 0)
    BY SMT, <1>2 DEF Shift, Padding
  <2>2. (start + L) % 16 = 0
    BY SMT, <1>1
  <2>3. (start + L) % a = 0
    BY SMT, <1>1, <1>2, <2>2
  <2> QED
    BY SMT, <1>1, <2>1, <2>3
<1>3. CASE \E b \in Nat : b > 0 /\ a = 32 * b
  <2>1. PICK b \in Nat : b > 0 /\ a = 32 * b
    BY <1>3
  <2>0. s = (a - L - (start % a)) % a
    <3>1. ~ (a <= 16)
      BY SMT, <2>1
    <3> QED
      BY <3>1 DEF Shift
  <2> HIDE DEF a, L, s
  <2>2. start % a \in 0 .. a - 1 /\ \E u \in Int : start = a * u + (start % a)
    <3>1. start \in Int
      OBVIOUS
    <3> QED
      BY <1>1, <3>1, ModFacts
  <2>3. PICK q \in 0 .. a - 1 : q = start % a /\ \E u \in Int : start = a * u + q
    BY <2>2
  <2>4. PICK u \in Int : start = a * u + q
    BY <2>3
  <2>5. PICK X \in Int : X = a - L - q /\ s = X % a
    BY SMT, <1>1, <2>0, <2>3
  <2>6. s \in 0 .. a - 1 /\ \E v \in Int : X = a * v + s
    BY <1>1, <2>5, ModFacts
  <2>7. PICK v \in Int : X = a * v + s
    BY <2>6
  <2>8. PICK w \in Int : w = u - v + 1
    OBVIOUS
  <2>9. start + s + L = a * w
    <3>1. start + s + L = a * u + a - a * v
      BY SMT, <1>1, <2>4, <2>5, <2>6, <2>7
    <3>2. a * w = a * u + a - a * v
      BY SMT, <1>1, <2>8
    <3> QED
      BY <3>1, <3>2
  <2>10. (start + s + L) % a = 0
    <3>1. PICK x \in Int : x = start + s + L
      BY SMT, <1>1, <2>6
    <3>2. x % a = 0
      BY <1>1, <2>9, <3>1, ModOfMultiple
    <3> QED
      BY <3>1, <3>2
  <2>11. s % 16 = 0
    <3>1. PICK m \in Int : m = b * w
      BY SMT
    <3>2. start + s + L = 32 * m
      BY SMT, <2>1, <2>9, <3>1
    <3> QED
      BY SMT, <1>1, <2>6, <3>2
  <2>12. s + 16 <= a
    BY SMT, <2>1, <2>6, <2>11
  <2>13. Padding(r) = a + (IF r.tagged THEN 16 ELSE 0)
    BY SMT, <2>1 DEF Padding, a
  <2> QED
    BY SMT, <1>1, <2>6, <2>10, <2>11, <2>12, <2>13 DEF a, s, L
<1> QED
  BY <1>1, <1>2, <1>3

LEMMA MaxIs ==
  ASSUME NEW S \in SUBSET Nat, NEW x \in S, \A y \in S : y <= x
  PROVE  Max(S) = x
<1>1. x \in S /\ \A y \in S : x >= y
  BY SMT
<1>2. PICK m : m = Max(S) /\ m \in S /\ \A y \in S : m >= y
  BY <1>1 DEF Max
<1>3. m \in Nat /\ x \in Nat /\ m >= x /\ m <= x
  BY <1>1, <1>2
<1>4. m = x
  BY SMT, <1>3
<1> QED
  BY <1>2, <1>4

\* The classes above 512 are powers of two, told apart by their trailing zeros.
LEMMA ZerosOfPower ==
  ASSUME NEW f, PowerTable(f), NEW j \in 10 .. 18
  PROVE  TrailingZeros(f[j]) = j
<1> DEFINE S == {k \in 0 .. 18 : f[j] % 2 ^ k = 0}
<1>1. \A k \in 0 .. 18 : f[k] \in Nat /\ f[k] > 0 /\ f[k] = 2 ^ k
  <2>1. \A k \in 0 .. 18 : k \in Nat /\ 2 ^ k > 0
    BY PowerPositive
  <2> QED
    BY SMT, <2>1 DEF PowerTable
<1>2. j \in S
  <2>1. j \in 0 .. 18
    BY SMT
  <2>2. PICK x \in Nat : x = f[j] /\ x > 0
    BY <1>1, <2>1
  <2>3. x % x = 0
    BY SMT, <2>2
  <2>4. f[j] % 2 ^ j = x % x
    BY <1>1, <2>1, <2>2, Zenon
  <2> QED
    BY <2>1, <2>3, <2>4
<1>3. ASSUME NEW k \in S, k > j
      PROVE  FALSE
  <2>1. f[j] < f[k]
    <3>1. \/ j = 10 \/ j = 11 \/ j = 12 \/ j = 13 \/ j = 14 \/ j = 15 \/ j = 16 \/ j = 17 \/ j = 18
      BY SMT
    <3>2. \/ k = 11 \/ k = 12 \/ k = 13 \/ k = 14 \/ k = 15 \/ k = 16 \/ k = 17 \/ k = 18
      BY SMT, <1>3, <3>1
    <3> QED
      BY SMT, <1>3, <3>1, <3>2 DEF PowerTable
  <2>2. f[j] % f[k] = 0
    BY <1>1, <1>3
  <2>3. PICK x \in Nat : x = f[j] /\ x > 0
    BY <1>1
  <2>4. PICK a \in Nat : a = f[k] /\ a > 0 /\ x < a
    BY <1>1, <1>3, <2>1, <2>3
  <2>5. x % a = x
    BY SMT, <2>3, <2>4
  <2> QED
    BY SMT, <2>2, <2>3, <2>4, <2>5
<1>4. S \in SUBSET Nat /\ \A k \in S : k <= j
  BY SMT, <1>3
<1> HIDE DEF S
<1>5. Max(S) = j
  BY <1>2, <1>4, MaxIs
<1> QED
  BY <1>5 DEF S, TrailingZeros

\* The number of 0 to 31 that malloc() writes into the low bits of x and y.
Code(class) ==
  IF class > 262144 THEN 31 ELSE IF class >= 1024 THEN TrailingZeros(class) + 7 ELSE class \div 32

LEMMA CodeFacts ==
  ASSUME NEW r \in Requests, ~ Refused(r)
  PROVE  /\ Class(r) <= 512 => Code(Class(r)) \in 1 .. 16 /\ Class(r) = 32 * Code(Class(r))
         /\ Class(r) = 1024 => Code(Class(r)) = 17
         /\ Class(r) = 2048 => Code(Class(r)) = 18
         /\ Class(r) > 2048 /\ Class(r) <= 262144 =>
              Code(Class(r)) \in 19 .. 25 /\ Class(r) = 2 ^ (Code(Class(r)) - 7)
         /\ Class(r) > 262144 => Code(Class(r)) = 31
         /\ Class(r) <= 512 \/ Class(r) = 1024 \/ Class(r) = 2048 \/ Class(r) > 2048
<1>1. PICK c \in Nat : c = Class(r)
  BY RequestFacts
<1>2. /\ c > 0
      /\ \/ c <= 512 /\ c % 32 = 0
         \/ c \in {1024, 2048, 4096, 8192, 16384, 32768, 65536, 131072, 262144}
         \/ c > 262144 /\ c % 4096 = 0
  BY SMT, <1>1, RequestFacts
<1>3. PICK f : PowerTable(f)
  BY PowersOfTwo
<1>4. CASE c <= 512
  BY SMT, <1>1, <1>2, <1>4 DEF Code
<1>5. CASE c > 262144
  BY SMT, <1>1, <1>5 DEF Code
<1>6. CASE c \in {1024, 2048, 4096, 8192, 16384, 32768, 65536, 131072, 262144}
  <2>1. \E j \in 10 .. 18 : c = f[j]
    BY SMT, <1>3, <1>6 DEF PowerTable
  <2>2. PICK j \in 10 .. 18 : c = f[j]
    BY <2>1
  <2>3. Code(c) = j + 7
    <3>1. TrailingZeros(c) = j
      BY <1>3, <2>2, ZerosOfPower
    <3>2. c >= 1024 /\ ~ (c > 262144)
      BY SMT, <1>6
    <3> QED
      BY <3>1, <3>2 DEF Code
  <2>4. c = 2 ^ (Code(c) - 7)
    <3>1. Code(c) - 7 = j
      BY SMT, <2>3
    <3>2. f[j] = 2 ^ j
      BY SMT, <1>3 DEF PowerTable
    <3> QED
      BY <2>2, <3>1, <3>2
  <2>5. \/ j = 10 \/ j = 11 \/ j = 12 \/ j = 13 \/ j = 14 \/ j = 15 \/ j = 16 \/ j = 17 \/ j = 18
    BY SMT
  <2>6. (c = 1024 => j = 10) /\ (c = 2048 => j = 11) /\ (c > 2048 => j \in 12 .. 18)
    BY SMT, <1>3, <2>2, <2>5 DEF PowerTable
  <2>7. /\ c = 1024 => Code(c) = 17
        /\ c = 2048 => Code(c) = 18
        /\ c > 2048 => Code(c) \in 19 .. 25
        /\ c <= 262144 /\ ~ (c <= 512)
        /\ c = 1024 \/ c = 2048 \/ c > 2048
    BY SMT, <1>6, <2>3, <2>6
  <2> QED
    BY SMT, <1>1, <2>4, <2>7
<1> QED
  BY <1>1, <1>2, <1>4, <1>5, <1>6

(***************************************************************************)
(* The invariant: the pointer lies in the piece as the shift puts it, and  *)
(* free() was given what malloc() returned                                 *)
(***************************************************************************)
LayoutInv ==
  /\ request \in Requests
  /\ ptr # NULL =>
       /\ ~ Refused(request)
       /\ piece \in Pieces(request)
       /\ ptr = PieceStart(request, piece) + Shift(request, PieceStart(request, piece)) + 16
       /\ meta = Tag(request)
  /\ freed # NULL => ptr # NULL /\ freed = Freed(meta, ptr, piece.base)

LEMMA InitLayoutInv == LayoutInit => LayoutInv
BY DEF LayoutInit, LayoutInv

LEMMA NextLayoutInv == LayoutInv /\ [LayoutNext]_layoutVars => LayoutInv'
<1>1. CASE LayoutInv /\ AllocPiece
  BY <1>1 DEF LayoutInv, AllocPiece
<1>2. CASE LayoutInv /\ FreePiece
  BY <1>2 DEF LayoutInv, FreePiece
<1>3. CASE LayoutInv /\ UNCHANGED layoutVars
  BY <1>3 DEF LayoutInv, layoutVars
<1> QED
  BY <1>1, <1>2, <1>3 DEF LayoutNext

\* What is known of an allocation, with each value under a name of its own.
LEMMA PlacedFacts ==
  ASSUME LayoutInv, ptr # NULL
  PROVE  \E start, s, c, b, i \in Nat :
           /\ start = PieceStart(request, piece) /\ s = Shift(request, start)
           /\ c = Class(request) /\ b = piece.base /\ i = piece.idx
           /\ start = b + i * c /\ start % 16 = 0
           /\ c % 32 = 0 /\ s % 16 = 0 /\ ptr = start + s + 16
           /\ s + 16 + (IF request.tagged THEN 16 ELSE 0) + request.size <= c
           /\ (start + s + Lead(request)) % request.alignment = 0
           /\ request.size \in Nat /\ request.size > 0 /\ request.tagged \in BOOLEAN
           /\ request.alignment \in Nat /\ request.alignment > 0
           /\ Layer(c) = "mmap" => i = 0
<1>1. request \in Requests /\ ~ Refused(request) /\ piece \in Pieces(request)
  BY DEF LayoutInv
<1>2. PICK start \in Nat : start = PieceStart(request, piece) /\ start % 16 = 0
  BY <1>1, StartFacts
<1>3. PICK s \in Nat : s = Shift(request, start) /\ s % 16 = 0
  BY <1>1, <1>2, ShiftFacts
<1>4. /\ s + 16 + (IF request.tagged THEN 16 ELSE 0) <= Padding(request)
      /\ (start + s + Lead(request)) % request.alignment = 0
  BY <1>1, <1>2, <1>3, ShiftFacts
<1>5. /\ request.size \in Nat /\ request.size > 0 /\ request.tagged \in BOOLEAN
      /\ Padding(request) \in Nat /\ Class(request) \in Nat
      /\ request.size + Padding(request) <= Class(request)
      /\ request.alignment \in Alignments
  BY <1>1, RequestFacts
<1>6. request.alignment \in Nat /\ request.alignment > 0
  BY <1>5, AlignmentFacts
<1>7. PICK c \in Nat : c = Class(request)
  BY <1>5
<1>8. /\ piece.base \in Nat /\ piece.idx \in Nat
      /\ Layer(c) = "mmap" => piece.idx = 0
  <2>1. piece.base \in Nat /\ piece.idx \in Nat /\ (c > 262144 => piece.idx = 0)
    BY SMT, <1>1, <1>7, PieceFacts
  <2> QED
    BY SMT, <2>1 DEF Layer
<1>9. PICK b, i \in Nat : b = piece.base /\ i = piece.idx
  BY <1>8
<1>10. start = b + i * c /\ c % 32 = 0
  BY <1>1, <1>2, <1>7, <1>9, StartFacts
<1>11. s + 16 + (IF request.tagged THEN 16 ELSE 0) + request.size <= c
  BY SMT, <1>4, <1>5, <1>7
<1>12. ptr = start + s + 16
  BY <1>2, <1>3 DEF LayoutInv
<1>13. /\ start = PieceStart(request, piece) /\ s = Shift(request, start)
       /\ c = Class(request) /\ b = piece.base /\ i = piece.idx
       /\ start = b + i * c /\ start % 16 = 0
       /\ c % 32 = 0 /\ s % 16 = 0 /\ ptr = start + s + 16
       /\ s + 16 + (IF request.tagged THEN 16 ELSE 0) + request.size <= c
       /\ (start + s + Lead(request)) % request.alignment = 0
       /\ request.size \in Nat /\ request.size > 0 /\ request.tagged \in BOOLEAN
       /\ request.alignment \in Nat /\ request.alignment > 0
       /\ Layer(c) = "mmap" => i = 0
  BY <1>2, <1>3, <1>4, <1>5, <1>6, <1>7, <1>8, <1>9, <1>10, <1>11, <1>12
<1> QED
  BY <1>13, Zenon

LEMMA FitsFromInv == LayoutInv => FitsPiece
<1> SUFFICES ASSUME LayoutInv, ptr # NULL
             PROVE  LET used == request.size + (IF request.tagged THEN 16 ELSE 0) IN
                    /\ ptr - 16 = Start \/ ptr - 16 >= Start + 8
                    /\ ptr + used <= Start + Class(request)
                    /\ ptr + 8 <= Start + Class(request)
  BY DEF FitsPiece
<1>1. PICK start, s, c \in Nat :
        /\ start = PieceStart(request, piece) /\ c = Class(request)
        /\ c % 32 = 0 /\ s % 16 = 0 /\ ptr = start + s + 16
        /\ s + 16 + (IF request.tagged THEN 16 ELSE 0) + request.size <= c
        /\ request.size \in Nat /\ request.size > 0 /\ request.tagged \in BOOLEAN
  BY PlacedFacts
<1>2. Start = start
  BY <1>1 DEF Start
<1>3. s = 0 \/ s >= 8
  BY SMT, <1>1
<1>4. s + 24 <= c
  BY SMT, <1>1
<1> QED
  BY SMT, <1>1, <1>2, <1>3, <1>4

LEMMA AlignmentFromInv == LayoutInv => AlignmentMet
<1> SUFFICES ASSUME LayoutInv, ptr # NULL
             PROVE  /\ (IF request.tagged THEN ptr + 16 ELSE ptr) % request.alignment = 0
                    /\ ptr % 16 = 0
  BY DEF AlignmentMet
<1>1. PICK start, s \in Nat :
        /\ start % 16 = 0 /\ s % 16 = 0 /\ ptr = start + s + 16
        /\ (start + s + Lead(request)) % request.alignment = 0
        /\ request.tagged \in BOOLEAN
  BY PlacedFacts
<1>2. start + s + Lead(request) = IF request.tagged THEN ptr + 16 ELSE ptr
  BY SMT, <1>1 DEF Lead
<1>3. ptr % 16 = 0
  BY SMT, <1>1
<1> QED
  BY <1>1, <1>2, <1>3

\* The number that free() puts together from x and y is the one malloc() wrote.
LEMMA TagRead ==
  ASSUME NEW r \in Requests, NEW n \in 0 .. 31, n = Code(Class(r))
  PROVE  Tag(r).x + 8 * (Tag(r).y % 4) = n
<1>1. Tag(r) = [x |-> n % 8, y |-> ((n \div 8) % 4) + (IF r.tagged THEN 4 ELSE 0)]
  BY DEF Tag, Code
<1>2. PICK t : t = (IF r.tagged THEN 4 ELSE 0)
  OBVIOUS
<1>3. t = 0 \/ t = 4
  BY <1>2
<1>4. Tag(r).x = n % 8 /\ Tag(r).y = ((n \div 8) % 4) + t
  BY <1>1, <1>2
<1>5. (n % 8) + 8 * ((((n \div 8) % 4) + t) % 4) = n
  BY SMT, <1>3
<1> QED
  BY <1>4, <1>5

\* The class that belongs to the number.
CodeOf(n, c) ==
  /\ n \in 0 .. 31
  /\ c <= 512 => n \in 1 .. 16 /\ c = 32 * n
  /\ c = 1024 => n = 17
  /\ c = 2048 => n = 18
  /\ c > 2048 /\ c <= 262144 => n \in 19 .. 25 /\ c = 2 ^ (n - 7)
  /\ c > 262144 => n = 31
  /\ c <= 512 \/ c = 1024 \/ c = 2048 \/ c > 2048

LEMMA CodeIs ==
  ASSUME NEW r \in Requests, ~ Refused(r)
  PROVE  \E n : n = Code(Class(r)) /\ CodeOf(n, Class(r))
<1>1. PICK c, n : c = Class(r) /\ n = Code(Class(r))
  OBVIOUS
<1>2. /\ c <= 512 => n \in 1 .. 16 /\ c = 32 * n
      /\ c = 1024 => n = 17
      /\ c = 2048 => n = 18
      /\ c > 2048 /\ c <= 262144 => n \in 19 .. 25 /\ c = 2 ^ (n - 7)
      /\ c > 262144 => n = 31
      /\ c <= 512 \/ c = 1024 \/ c = 2048 \/ c > 2048
  BY SMT, <1>1, CodeFacts
<1>3. c \in Nat
  BY SMT, <1>1, RequestFacts
<1>4. n \in 0 .. 31
  BY SMT, <1>2, <1>3
<1>5. CodeOf(n, c)
  BY SMT, <1>2, <1>4 DEF CodeOf
<1> QED
  BY <1>1, <1>5

\* Layer, class and index as free() finds them for the number of a class.
LEMMA FreedIs ==
  ASSUME NEW c \in Nat, NEW n, CodeOf(n, c), NEW m, n = m.x + 8 * (m.y % 4),
         NEW p, NEW b, NEW i, (p - b) \div c = i,
         Layer(c) = "mmap" => i = 0
  PROVE  /\ Freed(m, p, b).layer = Layer(c)
         /\ Layer(c) # "mmap" => Freed(m, p, b).class = c
         /\ Freed(m, p, b).idx = i
<1>1. CASE c <= 512
  <2>1. n \in 0 .. 16 /\ n # 31 /\ n # 0 /\ c = 32 * n
    BY SMT, <1>1 DEF CodeOf
  <2>2. Freed(m, p, b) = [layer |-> "small", class |-> 32 * n,
                          idx |-> IF n = 0 THEN NULL ELSE (p - b) \div (32 * n)]
    BY SMT, <2>1 DEF Freed
  <2>3. Layer(c) = "small"
    BY SMT, <1>1 DEF Layer
  <2> QED
    BY SMT, <2>1, <2>2, <2>3
<1>2. CASE c = 1024
  <2>1. n = 17 /\ ~ (n \in 0 .. 16)
    BY SMT, <1>2 DEF CodeOf
  <2>2. Freed(m, p, b) = [layer |-> "small", class |-> 1024, idx |-> (p - b) \div 1024]
    BY SMT, <2>1 DEF Freed
  <2>3. Layer(c) = "small"
    BY SMT, <1>2 DEF Layer
  <2> QED
    BY SMT, <1>2, <2>2, <2>3
<1>3. CASE c = 2048
  <2>1. n = 18 /\ ~ (n \in 0 .. 16)
    BY SMT, <1>3 DEF CodeOf
  <2>2. Freed(m, p, b) = [layer |-> "small", class |-> 2048, idx |-> (p - b) \div 2048]
    BY SMT, <2>1 DEF Freed
  <2>3. Layer(c) = "small"
    BY SMT, <1>3 DEF Layer
  <2> QED
    BY SMT, <1>3, <2>2, <2>3
<1>4. CASE c > 2048 /\ c <= 262144
  <2>1. n \in 19 .. 25 /\ n # 31 /\ ~ (n \in 0 .. 16) /\ n # 17 /\ n # 18 /\ c = 2 ^ (n - 7)
    BY SMT, <1>4 DEF CodeOf
  <2>2. Freed(m, p, b) = [layer |-> "buddy", class |-> 2 ^ (n - 7),
                          idx |-> (p - b) \div 2 ^ (n - 7)]
    BY SMT, <2>1 DEF Freed
  <2>3. Layer(c) = "buddy"
    BY SMT, <1>4 DEF Layer
  <2> QED
    BY SMT, <2>1, <2>2, <2>3
<1>5. CASE c > 262144
  <2>1. n = 31
    BY SMT, <1>5 DEF CodeOf
  <2>2. Freed(m, p, b) = [layer |-> "mmap", class |-> NULL, idx |-> 0]
    BY SMT, <2>1 DEF Freed
  <2>3. Layer(c) = "mmap"
    BY SMT, <1>5 DEF Layer
  <2> QED
    BY SMT, <2>2, <2>3
<1> QED
  BY SMT, <1>1, <1>2, <1>3, <1>4, <1>5 DEF CodeOf

LEMMA FreedFromInv == LayoutInv => FreedAsAllocated
<1> SUFFICES ASSUME LayoutInv, freed # NULL
             PROVE  /\ freed.layer = Layer(Class(request))
                    /\ freed.layer # "mmap" => freed.class = Class(request)
                    /\ freed.idx = piece.idx
  BY DEF FreedAsAllocated
<1>1. /\ ptr # NULL /\ freed = Freed(meta, ptr, piece.base) /\ meta = Tag(request)
      /\ request \in Requests /\ ~ Refused(request)
  BY DEF LayoutInv
<1>2. PICK start, s, c, b, i \in Nat :
        /\ start = PieceStart(request, piece) /\ s = Shift(request, start)
        /\ c = Class(request) /\ b = piece.base /\ i = piece.idx
        /\ start = b + i * c /\ start % 16 = 0
        /\ c % 32 = 0 /\ s % 16 = 0 /\ ptr = start + s + 16
        /\ s + 16 + (IF request.tagged THEN 16 ELSE 0) + request.size <= c
        /\ (start + s + Lead(request)) % request.alignment = 0
        /\ request.size \in Nat /\ request.size > 0 /\ request.tagged \in BOOLEAN
        /\ request.alignment \in Nat /\ request.alignment > 0
        /\ Layer(c) = "mmap" => i = 0
  BY <1>1, PlacedFacts
<1>3. PICK n : n = Code(c) /\ CodeOf(n, c)
  BY <1>1, <1>2, CodeIs
<1>4. n \in 0 .. 31
  BY SMT, <1>3 DEF CodeOf
<1>5. meta.x + 8 * (meta.y % 4) = n
  BY <1>1, <1>2, <1>3, <1>4, TagRead
<1>6. (ptr - b) \div c = i
  <2>1. PICK x \in Nat : x = c * i /\ x = i * c
    BY SMT
  <2>2. PICK a \in Nat : a = ptr - b /\ a = x + s + 16
    <3>1. ptr = b + x + s + 16
      BY <1>2, <2>1
    <3>2. ptr - b = x + s + 16 /\ x + s + 16 \in Nat
      BY SMT, <3>1
    <3> QED
      BY <3>2
  <2>3. c > 0 /\ s + 16 < c
    BY SMT, <1>2
  <2>4. c * i <= a /\ a < c * i + c
    BY SMT, <2>1, <2>2, <2>3
  <2>5. a \div c = i
    BY <2>3, <2>4, DivIs
  <2> QED
    BY <2>2, <2>5
<1>7. /\ Freed(meta, ptr, b).layer = Layer(c)
      /\ Layer(c) # "mmap" => Freed(meta, ptr, b).class = c
      /\ Freed(meta, ptr, b).idx = i
  BY <1>2, <1>3, <1>5, <1>6, FreedIs
<1> QED
  BY <1>1, <1>2, <1>7

(***************************************************************************)
(* The parts together                                                      *)
(***************************************************************************)

MemoryInv ==
  /\ part = "buddy" => BuddyInv
  /\ part = "small" => SmallInv
  /\ part = "mmap" => MmapInv
  /\ part = "layout" => LayoutInv

LEMMA InitMemoryInv == Init => MemoryInv
BY InitBuddyInv, InitSmallInv, InitMmapInv, InitLayoutInv DEF Init, MemoryInv

\* A step of the whole is one of the part that the behaviour is about.
LEMMA StepOfPart ==
  ASSUME [Next]_memoryVars
  PROVE  /\ part' = part
         /\ part = "buddy" => [BuddyNext]_buddyVars
         /\ part = "small" => [SmallNext]_smallVars
         /\ part = "mmap" => [MmapNext]_mmapVars
         /\ part = "layout" => [LayoutNext]_layoutVars
<1>1. CASE UNCHANGED memoryVars
  BY <1>1 DEF memoryVars
<1>2. CASE Next
  BY <1>2 DEF Next
<1> QED
  BY <1>1, <1>2

LEMMA NextMemoryInv == MemoryInv /\ [Next]_memoryVars => MemoryInv'
BY StepOfPart, NextBuddyInv, NextSmallInv, NextMmapInv, NextLayoutInv DEF MemoryInv

\* Each page of a chunk is in one block, a request finds the free space there is, and
\* the split bits tell one allocation from many, for any number of orders and chunks
\* (buddy.c:31, 251, 537, 684): the property that the run Memory checks.
THEOREM PagesAlwaysAccountedFor == Spec => []PagesAccountedFor
<1>1. MemoryInv => PagesAccountedFor
  BY BuddySoundFromInv DEF MemoryInv, PagesAccountedFor
<1> QED
  BY <1>1, InitMemoryInv, NextMemoryInv, PTL DEF Spec

\* The lists of chunks, of blocks and of mmap records stay linked in both directions
\* and hold what they should (buddy.c:70, small_class.c:94, mmap.c:17).
THEOREM ListsAlwaysSound == Spec => []ListsSound
<1>1. MemoryInv => ListsSound
  BY ListsFromInv, RecordListsFromInv DEF MemoryInv, ListsSound, SmallInv
<1> QED
  BY <1>1, InitMemoryInv, NextMemoryInv, PTL DEF Spec

\* No chunk above LIBC_KEEP_CHUNK_NUM stays without an allocation (buddy.c:17), and
\* no class keeps two idle blocks (small_class.c:131).
THEOREM NothingIdleEverKept == Spec => []NothingIdleKept
<1>1. MemoryInv => NothingIdleKept
  BY OneIdleBlockFromInv DEF MemoryInv, NothingIdleKept, BuddyInv
<1> QED
  BY <1>1, InitMemoryInv, NextMemoryInv, PTL DEF Spec

\* No step returns a chunk or a block while something in it is handed out, or as the
\* last one to keep (buddy.c:512, small_class.c:132).
THEOREM OnlyIdleReturned == Spec => ReturnsOnlyIdle
<1>1. MemoryInv /\ [Next]_memoryVars =>
        /\ part = "buddy" => UnmapsOnlyIdleChunks
        /\ part = "small" => ReturnsOnlyIdleBlocks
  BY StepOfPart, NextUnmapsOnlyIdle, NextReturnsOnlyIdle DEF MemoryInv
<1> QED
  BY <1>1, InitMemoryInv, NextMemoryInv, PTL DEF Spec, ReturnsOnlyIdle

\* A slot is free and counted or handed out, and the mapped regions are those handed
\* out, for any sizes: the property that the run Memory checks (small_class.c:84,
\* mmap.c:60).
THEOREM OneOwnerAlways == Spec => []OneOwner
<1>1. MemoryInv => OneOwner
  BY DEF MemoryInv, OneOwner, SmallInv, MmapInv
<1> QED
  BY <1>1, InitMemoryInv, NextMemoryInv, PTL DEF Spec

\* For any sizes, alignments that are powers of two and header, metadata, bytes, tag
\* and link fit into the piece at the alignment asked for (malloc.c:295, 302), and
\* free() reads allocator, class and index back (malloc.c:332).
THEOREM LayoutAlwaysRight == Spec => []LayoutRight
<1>1. MemoryInv => LayoutRight
  BY FitsFromInv, AlignmentFromInv, FreedFromInv DEF MemoryInv, LayoutRight
<1> QED
  BY <1>1, InitMemoryInv, NextMemoryInv, PTL DEF Spec

==============================================================================
