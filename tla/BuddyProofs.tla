----------------------------- MODULE BuddyProofs ------------------------------
(***************************************************************************)
(* Proofs about Buddy for any number of orders, of records in a group, of  *)
(* groups and of blocks held.  The first part is about the blocks of one   *)
(* chunk as a tree: a block that is split has the two blocks of the next   *)
(* smaller order below it, and allocating and freeing keep it a tree.  The *)
(* second part is about the chunks of the arena and their lists.           *)
(***************************************************************************)
EXTENDS Buddy, MemoryLemmas

(***************************************************************************)
(* Division                                                                *)
(***************************************************************************)

LEMMA ProductGrows ==
  ASSUME NEW p \in Nat, NEW x \in Nat, NEW y \in Nat, x <= y
  PROVE  p * x <= p * y
<1>1. PICK d \in Nat : y = x + d
  OBVIOUS
<1>2. p * y = p * x + p * d /\ p * d \in Nat /\ p * x \in Nat
  BY <1>1
<1> QED
  BY <1>2

LEMMA DivFacts ==
  ASSUME NEW a \in Nat, NEW p \in Nat, p > 0
  PROVE  a \div p \in Nat /\ p * (a \div p) <= a /\ a < p * (a \div p) + p
OBVIOUS

LEMMA DivIs ==
  ASSUME NEW a \in Nat, NEW p \in Nat, p > 0, NEW q \in Nat, p * q <= a, a < p * q + p
  PROVE  a \div p = q
<1> DEFINE d == a \div p
<1>1. d \in Nat /\ p * d <= a /\ a < p * d + p
  BY DivFacts
<1> HIDE DEF d
<1>2. ASSUME d < q PROVE FALSE
  <2>1. p * (d + 1) <= p * q
    BY <1>1, <1>2, ProductGrows
  <2>2. p * (d + 1) = p * d + p
    BY <1>1
  <2> QED
    BY <1>1, <2>1, <2>2
<1>3. ASSUME q < d PROVE FALSE
  <2>1. p * (q + 1) <= p * d
    BY <1>1, <1>3, ProductGrows
  <2>2. p * (q + 1) = p * q + p
    OBVIOUS
  <2> QED
    BY <1>1, <2>1, <2>2
<1>4. d = q
  BY <1>1, <1>2, <1>3
<1> QED
  BY <1>4 DEF d

LEMMA DivTwice ==
  ASSUME NEW a \in Nat, NEW p \in Nat, p > 0
  PROVE  a \div (2 * p) = (a \div p) \div 2
<1> DEFINE d == a \div p
           e == d \div 2
<1>1. d \in Nat /\ p * d <= a /\ a < p * d + p
  BY DivFacts
<1>2. e \in Nat /\ 2 * e <= d /\ d <= 2 * e + 1
  BY <1>1
<1> HIDE DEF d, e
<1>3. p * (2 * e) <= p * d /\ p * d <= p * (2 * e + 1)
  BY <1>1, <1>2, ProductGrows
<1>4. p * (2 * e) = (2 * p) * e /\ p * (2 * e + 1) = (2 * p) * e + p
  BY <1>2
<1>5. (2 * p) * e <= a /\ a < (2 * p) * e + 2 * p
  BY <1>1, <1>2, <1>3, <1>4
<1>6. a \div (2 * p) = e
  BY <1>2, <1>5, DivIs
<1> QED
  BY <1>6 DEF d, e

(***************************************************************************)
(* Numbers of blocks                                                       *)
(***************************************************************************)

LEMMA BlocksNext ==
  ASSUME NEW k \in Orders, k # TopOrder
  PROVE  \E n \in Nat : n > 0 /\ BlocksOf(k) = 0 .. 2 * n - 1 /\ BlocksOf(k + 1) = 0 .. n - 1
<1>1. TopOrder - k \in Nat /\ TopOrder + 1 - k = (TopOrder - k) + 1 /\ TopOrder + 1 - (k + 1) = TopOrder - k
  BY BuddyAssumption DEF Orders
<1>2. 2 ^ (TopOrder - k) \in Nat /\ 2 ^ (TopOrder - k) > 0
  BY <1>1, PowerPositive
<1>3. 2 ^ (TopOrder + 1 - k) = 2 * 2 ^ (TopOrder - k)
  BY <1>1, PowerNext
<1> QED
  BY <1>1, <1>2, <1>3 DEF BlocksOf

LEMMA BlocksOfTop == BlocksOf(TopOrder) = {0, 1}
<1>1. TopOrder + 1 - TopOrder = 0 + 1
  BY BuddyAssumption
<1>2. 2 ^ (0 + 1) = 2 * 2 ^ 0
  BY PowerNext
<1>3. 2 ^ (TopOrder + 1 - TopOrder) = 2
  <2>1. 2 ^ (0 + 1) = 2 * 1
    BY <1>2, PowerZero, Zenon
  <2>2. 2 ^ (TopOrder + 1 - TopOrder) = 2 * 1
    BY <1>1, <2>1, Zenon
  <2> QED
    BY <2>2
<1>4. BlocksOf(TopOrder) = 0 .. 2 - 1
  BY <1>3, Zenon DEF BlocksOf
<1> QED
  BY <1>4

LEMMA BlocksOfNat ==
  ASSUME NEW k \in Orders
  PROVE  BlocksOf(k) \subseteq Nat /\ IsFiniteSet(BlocksOf(k)) /\ 0 \in BlocksOf(k)
<1>1. TopOrder + 1 - k \in Nat
  BY BuddyAssumption DEF Orders
<1>2. 2 ^ (TopOrder + 1 - k) \in Nat /\ 2 ^ (TopOrder + 1 - k) > 0
  BY <1>1, PowerPositive
<1>3. PICK n \in Nat : n > 0 /\ n = 2 ^ (TopOrder + 1 - k)
  BY <1>2
<1>4. BlocksOf(k) = 0 .. n - 1
  BY <1>3, Zenon DEF BlocksOf
<1>5. IsFiniteSet(0 .. n - 1)
  BY <1>3, FS_Interval
<1> QED
  BY <1>3, <1>4, <1>5

\* A block lies in one of the next order, which consists of it and its buddy.
LEMMA ParentBlock ==
  ASSUME NEW k \in Orders, k # TopOrder, NEW i \in BlocksOf(k)
  PROVE  i \div 2 \in BlocksOf(k + 1) /\ k + 1 \in Orders
<1>1. PICK n \in Nat : n > 0 /\ BlocksOf(k) = 0 .. 2 * n - 1 /\ BlocksOf(k + 1) = 0 .. n - 1
  BY BlocksNext
<1> QED
  BY <1>1, BuddyAssumption DEF Orders

LEMMA ChildBlocks ==
  ASSUME NEW k \in Orders, k # TopOrder, NEW i \in BlocksOf(k + 1)
  PROVE  /\ 2 * i \in BlocksOf(k) /\ (2 * i) \div 2 = i
         /\ 2 * i + 1 \in BlocksOf(k) /\ (2 * i + 1) \div 2 = i
         /\ BuddyOf(2 * i) = 2 * i + 1 /\ BuddyOf(2 * i + 1) = 2 * i
<1>1. PICK n \in Nat : n > 0 /\ BlocksOf(k) = 0 .. 2 * n - 1 /\ BlocksOf(k + 1) = 0 .. n - 1
  BY BlocksNext
<1>2. i \in Nat /\ 2 * i \in 0 .. 2 * n - 1 /\ 2 * i + 1 \in 0 .. 2 * n - 1
  BY <1>1
<1>3. (2 * i) % 2 = 0 /\ (2 * i + 1) % 2 = 1 /\ (2 * i) \div 2 = i /\ (2 * i + 1) \div 2 = i
  BY <1>2
<1>4. BuddyOf(2 * i) = 2 * i + 1 /\ BuddyOf(2 * i + 1) = 2 * i
  BY <1>2, <1>3 DEF BuddyOf
<1> QED
  BY <1>1, <1>2, <1>3, <1>4

LEMMA BuddyBlock ==
  ASSUME NEW k \in Orders, NEW i \in BlocksOf(k)
  PROVE  /\ BuddyOf(i) \in BlocksOf(k)
         /\ BuddyOf(i) # i
         /\ BuddyOf(BuddyOf(i)) = i
         /\ BuddyOf(i) \div 2 = i \div 2
         /\ \A x \in BlocksOf(k) : x \div 2 = i \div 2 => x = i \/ x = BuddyOf(i)
<1>1. CASE k = TopOrder
  <2>1. i \in {0, 1} /\ BlocksOf(k) = {0, 1}
    BY <1>1, BlocksOfTop
  <2> QED
    BY <2>1 DEF BuddyOf
<1>2. CASE k # TopOrder
  <2>1. PICK n \in Nat : n > 0 /\ BlocksOf(k) = 0 .. 2 * n - 1 /\ BlocksOf(k + 1) = 0 .. n - 1
    BY <1>2, BlocksNext
  <2> QED
    BY <2>1 DEF BuddyOf
<1> QED
  BY <1>1, <1>2

(***************************************************************************)
(* The blocks above a block, and the leftmost ones below it                *)
(***************************************************************************)

LEMMA AboveSelf ==
  ASSUME NEW k \in Nat, NEW i \in Nat
  PROVE  Above(i, k, k) = i
<1>1. 2 ^ (k - k) = 1
  <2>1. k - k = 0
    OBVIOUS
  <2> QED
    BY <2>1, PowerZero, Zenon
<1>2. Above(i, k, k) = i \div 1
  BY <1>1, Zenon DEF Above
<1> QED
  BY <1>2

LEMMA AboveNext ==
  ASSUME NEW k \in Nat, NEW m \in Nat, k <= m, NEW i \in Nat
  PROVE  Above(i, k, m) \in Nat /\ Above(i, k, m + 1) = Above(i, k, m) \div 2
<1>1. m - k \in Nat /\ m + 1 - k = (m - k) + 1
  OBVIOUS
<1>2. PICK p \in Nat : p > 0 /\ p = 2 ^ (m - k)
  BY <1>1, PowerPositive
<1>3. 2 ^ (m + 1 - k) = 2 * p
  <2>1. 2 ^ ((m - k) + 1) = 2 * 2 ^ (m - k)
    BY <1>1, PowerNext
  <2> QED
    BY <1>1, <1>2, <2>1, Zenon
<1>4. Above(i, k, m) = i \div p
  BY <1>2 DEF Above
<1>6. Above(i, k, m + 1) = i \div (2 * p)
  <2>1. Above(i, k, m + 1) = i \div 2 ^ (m + 1 - k)
    BY DEF Above
  <2> QED
    BY <1>3, <2>1
<1>5. i \div p \in Nat /\ i \div (2 * p) = (i \div p) \div 2
  BY <1>2, DivFacts, DivTwice
<1> QED
  BY <1>4, <1>5, <1>6

LEMMA AboveBlock ==
  ASSUME NEW k \in Orders, NEW m \in Orders, k <= m, NEW i \in BlocksOf(k)
  PROVE  Above(i, k, m) \in BlocksOf(m)
<1> DEFINE S == {n \in Orders : k <= n /\ Above(i, k, n) \notin BlocksOf(n)}
<1>0. Orders \subseteq Nat /\ i \in Nat /\ k \in Nat
  BY BlocksOfNat DEF Orders
<1>1. SUFFICES ASSUME S # {} PROVE FALSE
  OBVIOUS
<1> DEFINE n == Min(S)
<1>2. n \in S /\ \A x \in S : n <= x
  BY <1>0, <1>1, MinOfNaturals
<1> HIDE DEF n
<1>3. n # k
  BY <1>0, <1>2, AboveSelf
<1>4. PICK m1 \in Orders : k <= m1 /\ m1 # TopOrder /\ n = m1 + 1 /\ m1 \notin S
  <2>1. n - 1 \in Orders /\ k <= n - 1 /\ n - 1 # TopOrder /\ n = (n - 1) + 1 /\ n - 1 \notin S
    BY <1>0, <1>2, <1>3, BuddyAssumption DEF Orders
  <2> QED
    BY <2>1
<1>5. Above(i, k, m1) \in BlocksOf(m1)
  BY <1>4
<1>6. Above(i, k, m1) \div 2 \in BlocksOf(n)
  BY <1>4, <1>5, ParentBlock
<1>7. Above(i, k, n) = Above(i, k, m1) \div 2
  BY <1>0, <1>4, AboveNext
<1> QED
  BY <1>2, <1>6, <1>7

\* What is above a block above is above.
LEMMA AboveAbove ==
  ASSUME NEW k \in Nat, NEW m \in Nat, NEW n \in Nat, k <= m, m <= n, NEW i \in Nat
  PROVE  Above(Above(i, k, m), m, n) = Above(i, k, n)
<1> DEFINE S == {x \in Nat : m <= x /\ Above(Above(i, k, m), m, x) # Above(i, k, x)}
<1>1. SUFFICES ASSUME S # {} PROVE FALSE
  OBVIOUS
<1> DEFINE x == Min(S)
           y == Above(i, k, m)
<1>2. x \in S /\ \A z \in S : x <= z
  BY <1>1, MinOfNaturals
<1>3. y \in Nat
  BY AboveNext
<1> HIDE DEF x, y
<1>4. x # m
  BY <1>2, <1>3, AboveSelf DEF y
<1>5. x - 1 \in Nat /\ m <= x - 1 /\ k <= x - 1 /\ (x - 1) + 1 = x /\ x - 1 \notin S
  BY <1>2, <1>4
<1>6. Above(y, m, x - 1) = Above(i, k, x - 1)
  BY <1>5 DEF y
<1>7. Above(y, m, x) = Above(y, m, x - 1) \div 2
  BY <1>3, <1>5, AboveNext
<1>8. Above(i, k, x) = Above(i, k, x - 1) \div 2
  BY <1>5, AboveNext
<1> QED
  BY <1>2, <1>6, <1>7, <1>8 DEF y

\* The way up goes through the next order.
LEMMA AboveParent ==
  ASSUME NEW k \in Nat, NEW n \in Nat, k < n, NEW i \in Nat
  PROVE  Above(i \div 2, k + 1, n) = Above(i, k, n)
<1>1. Above(i, k, k + 1) = i \div 2
  <2>1. k <= k
    OBVIOUS
  <2>2. Above(i, k, k + 1) = Above(i, k, k) \div 2
    BY <2>1, AboveNext
  <2> QED
    BY <2>2, AboveSelf
<1>2. k + 1 \in Nat /\ k <= k + 1 /\ k + 1 <= n
  OBVIOUS
<1>3. Above(Above(i, k, k + 1), k + 1, n) = Above(i, k, n)
  BY <1>2, AboveAbove
<1> QED
  BY <1>1, <1>3

LEMMA LeftSelf ==
  ASSUME NEW j \in Nat, NEW i \in Nat
  PROVE  LeftIn(i, j, j) = i
<1>1. 2 ^ (j - j) = 1
  <2>1. j - j = 0
    OBVIOUS
  <2> QED
    BY <2>1, PowerZero, Zenon
<1>2. LeftIn(i, j, j) = i * 1
  BY <1>1, Zenon DEF LeftIn
<1> QED
  BY <1>2

LEMMA LeftNext ==
  ASSUME NEW j \in Nat, NEW m \in Nat, m < j, NEW i \in Nat
  PROVE  LeftIn(i, j, m + 1) \in Nat /\ LeftIn(i, j, m) = 2 * LeftIn(i, j, m + 1)
<1>1. j - (m + 1) \in Nat /\ j - m = (j - (m + 1)) + 1
  OBVIOUS
<1>2. PICK p \in Nat : p > 0 /\ p = 2 ^ (j - (m + 1))
  BY <1>1, PowerPositive
<1>3. 2 ^ (j - m) = 2 * p
  <2>1. 2 ^ ((j - (m + 1)) + 1) = 2 * 2 ^ (j - (m + 1))
    BY <1>1, PowerNext
  <2> QED
    BY <1>1, <1>2, <2>1, Zenon
<1>4. LeftIn(i, j, m + 1) = i * p /\ LeftIn(i, j, m) = i * (2 * p)
  BY <1>2, <1>3, Zenon DEF LeftIn
<1>5. i * p \in Nat /\ i * (2 * p) = 2 * (i * p)
  BY <1>2
<1> QED
  BY <1>4, <1>5

\* The leftmost block inside a block is a block, and below it; so is its buddy.
LEMMA LeftBlock ==
  ASSUME NEW j \in Orders, NEW m \in Orders, m <= j, NEW i \in BlocksOf(j)
  PROVE  /\ LeftIn(i, j, m) \in BlocksOf(m)
         /\ Above(LeftIn(i, j, m), m, j) = i
<1> DEFINE Good(n) == LeftIn(i, j, n) \in BlocksOf(n) /\ Above(LeftIn(i, j, n), n, j) = i
           S == {d \in 0 .. j : ~ Good(j - d)}
<1>0. j \in Nat /\ m \in Nat /\ Orders \subseteq Nat /\ i \in Nat
  BY BlocksOfNat DEF Orders
<1>1. SUFFICES ASSUME S # {} PROVE FALSE
  <2>1. j - m \in 0 .. j /\ j - (j - m) = m
    BY <1>0
  <2>2. j - m \notin S => Good(j - (j - m))
    BY <2>1
  <2> QED
    BY <2>1, <2>2
<1> DEFINE d == Min(S)
<1>2. d \in S /\ \A x \in S : d <= x
  BY <1>0, <1>1, MinOfNaturals
<1>3. d \in 0 .. j
  BY <1>2
<1> HIDE DEF d
<1>4. d # 0
  <2>1. Good(j)
    BY <1>0, LeftSelf, AboveSelf
  <2>2. j - 0 = j
    BY <1>0
  <2> QED
    BY <1>2, <2>1, <2>2
<1>5. PICK n \in Nat : n = j - d /\ n \in Orders /\ n # TopOrder /\ n < j /\ n + 1 = j - (d - 1)
  BY <1>0, <1>3, <1>4, BuddyAssumption DEF Orders
<1>6. Good(n + 1)
  <2>1. d - 1 \in 0 .. j /\ d - 1 \notin S
    BY <1>0, <1>2, <1>3, <1>4
  <2> QED
    BY <1>5, <2>1
<1>7. PICK x \in Nat : x = LeftIn(i, j, n + 1) /\ LeftIn(i, j, n) = 2 * x
  BY <1>0, <1>5, LeftNext
<1>8. 2 * x \in BlocksOf(n) /\ (2 * x) \div 2 = x
  BY <1>5, <1>6, <1>7, ChildBlocks
<1>9. Above(2 * x, n, j) = i
  <2>1. Above((2 * x) \div 2, n + 1, j) = Above(2 * x, n, j)
    BY <1>0, <1>5, <1>7, AboveParent
  <2> QED
    BY <1>6, <1>7, <1>8, <2>1
<1>10. Good(n)
  BY <1>7, <1>8, <1>9
<1> QED
  BY <1>2, <1>5, <1>10

LEMMA RightBlock ==
  ASSUME NEW j \in Orders, NEW m \in Orders, m < j, NEW i \in BlocksOf(j)
  PROVE  /\ LeftIn(i, j, m) + 1 \in BlocksOf(m)
         /\ Above(LeftIn(i, j, m) + 1, m, j) = i
         /\ LeftIn(i, j, m) \div 2 = LeftIn(i, j, m + 1)
         /\ (LeftIn(i, j, m) + 1) \div 2 = LeftIn(i, j, m + 1)
         /\ BuddyOf(LeftIn(i, j, m)) = LeftIn(i, j, m) + 1
<1>0. j \in Nat /\ m \in Nat /\ i \in Nat /\ m # TopOrder /\ m + 1 \in Orders /\ m + 1 <= j
  BY BlocksOfNat, BuddyAssumption DEF Orders
<1>1. PICK x \in Nat : x = LeftIn(i, j, m + 1) /\ LeftIn(i, j, m) = 2 * x
  BY <1>0, LeftNext
<1>2. x \in BlocksOf(m + 1) /\ Above(x, m + 1, j) = i
  BY <1>0, <1>1, LeftBlock
<1>3. /\ (2 * x) \div 2 = x
      /\ 2 * x + 1 \in BlocksOf(m) /\ (2 * x + 1) \div 2 = x
      /\ BuddyOf(2 * x) = 2 * x + 1
  BY <1>0, <1>2, ChildBlocks
<1>4. Above(2 * x + 1, m, j) = i
  <2>1. Above((2 * x + 1) \div 2, m + 1, j) = Above(2 * x + 1, m, j)
    BY <1>0, <1>1, AboveParent
  <2> QED
    BY <1>2, <1>3, <2>1
<1> QED
  BY <1>1, <1>3, <1>4

(***************************************************************************)
(* The blocks of a chunk: a[m], s[m] and h[m] are the available, split and *)
(* handed out ones of order m                                              *)
(***************************************************************************)

\* A block is there if it is one of the two a chunk starts with, or its parent is split.
There(s, m, x) == m = TopOrder \/ x \div 2 \in s[m + 1]

Tree(a, s, h) ==
  /\ \A m \in Orders : /\ a[m] \subseteq BlocksOf(m)
                       /\ s[m] \subseteq BlocksOf(m)
                       /\ h[m] \subseteq BlocksOf(m)
  /\ s[0] = {}
  /\ \A m \in Orders : \A x \in BlocksOf(m) :
       There(s, m, x) <=> x \in a[m] \/ x \in s[m] \/ x \in h[m]
  /\ \A m \in Orders : \A x \in BlocksOf(m) :
       /\ ~ (x \in a[m] /\ x \in s[m])
       /\ ~ (x \in a[m] /\ x \in h[m])
       /\ ~ (x \in s[m] /\ x \in h[m])
  /\ \A m \in Orders \ {TopOrder} : \A x \in a[m] : BuddyOf(x) \notin a[m]

LEMMA OrderFacts ==
  /\ Orders \subseteq Nat /\ TopOrder \in Orders /\ 0 \in Orders /\ TopOrder # 0
  /\ \A m \in Orders : m <= TopOrder /\ (m # TopOrder => m + 1 \in Orders)
  /\ \A m \in Orders : m # 0 => m - 1 \in Orders /\ m - 1 # TopOrder
BY BuddyAssumption DEF Orders

\* Whatever is above a block that is there has been split.
LEMMA Ancestors ==
  ASSUME NEW a, NEW s, NEW h, Tree(a, s, h),
         NEW m \in Orders, NEW n \in Orders, m < n, NEW x \in BlocksOf(m), There(s, m, x)
  PROVE  Above(x, m, n) \in s[n]
<1> DEFINE S == {q \in Orders : m < q /\ Above(x, m, q) \notin s[q]}
<1>0. Orders \subseteq Nat /\ x \in Nat
  BY OrderFacts, BlocksOfNat
<1>1. SUFFICES ASSUME S # {} PROVE FALSE
  OBVIOUS
<1> DEFINE q == Min(S)
<1>2. q \in S /\ \A y \in S : q <= y
  BY <1>0, <1>1, MinOfNaturals
<1> HIDE DEF q
<1>3. PICK p \in Orders : m <= p /\ p # TopOrder /\ q = p + 1 /\ p \notin S
  <2>1. q \in Nat /\ m \in Nat /\ m < q
    BY <1>0, <1>2
  <2>2. q - 1 \in Orders /\ q - 1 # TopOrder
    BY <1>2, <2>1, OrderFacts
  <2>3. m <= q - 1 /\ q = (q - 1) + 1 /\ q - 1 \notin S
    BY <1>2, <2>1
  <2> QED
    BY <2>2, <2>3
<1>4. Above(x, m, q) = Above(x, m, p) \div 2
  BY <1>0, <1>3, AboveNext
<1>5. There(s, p, Above(x, m, p))
  <2>1. CASE p = m
    BY <1>0, <2>1, AboveSelf
  <2>2. CASE p # m
    <3>1. Above(x, m, p) \in s[p] /\ Above(x, m, p) \in BlocksOf(p)
      BY <1>0, <1>3, <2>2, AboveBlock
    <3> QED
      BY <3>1 DEF Tree
  <2> QED
    BY <2>1, <2>2
<1>6. Above(x, m, q) \in s[q]
  BY <1>3, <1>4, <1>5 DEF There
<1> QED
  BY <1>2, <1>6

\* The chunk's blocks a, s, h become a2, s2, h2 when block i of order j is taken and
\* split down to order k.
TakenDown(a, s, h, a2, s2, h2, j, k, i) ==
  /\ \A m \in Orders : a2[m] = IF m \in k .. j - 1 THEN a[m] \cup {LeftIn(i, j, m) + 1}
                               ELSE IF m = j THEN a[m] \ {i} ELSE a[m]
  /\ \A m \in Orders : s2[m] = IF m \in k + 1 .. j THEN s[m] \cup {LeftIn(i, j, m)} ELSE s[m]
  /\ \A m \in Orders : h2[m] = IF m = k THEN h[m] \cup {LeftIn(i, j, m)} ELSE h[m]

LEMMA AllocTree ==
  ASSUME NEW a, NEW s, NEW h, Tree(a, s, h), NEW a2, NEW s2, NEW h2,
         NEW j \in Orders, NEW k \in Orders, k <= j, NEW i \in a[j],
         TakenDown(a, s, h, a2, s2, h2, j, k, i)
  PROVE  Tree(a2, s2, h2)
<1> USE DEF TakenDown
<1>0. j \in Nat /\ k \in Nat /\ i \in BlocksOf(j) /\ i \in Nat
  BY OrderFacts, BlocksOfNat DEF Tree
<1>1. ASSUME NEW m \in Orders, m \in k .. j - 1
      PROVE  LET l == LeftIn(i, j, m) IN
             /\ l \in BlocksOf(m) /\ l + 1 \in BlocksOf(m) /\ l + 1 # l
             /\ l \notin a[m] /\ l \notin s[m] /\ l \notin h[m]
             /\ l + 1 \notin a[m] /\ l + 1 \notin s[m] /\ l + 1 \notin h[m]
  <2> DEFINE l == LeftIn(i, j, m)
  <2>1. m < j
    BY <1>0, <1>1, OrderFacts
  <2>2. l \in BlocksOf(m) /\ l + 1 \in BlocksOf(m) /\ Above(l, m, j) = i /\ Above(l + 1, m, j) = i
    BY <1>0, <2>1, LeftBlock, RightBlock
  <2> HIDE DEF l
  <2>3. i \notin s[j]
    BY <1>0 DEF Tree
  <2>4. ~ There(s, m, l) /\ ~ There(s, m, l + 1)
    BY <2>1, <2>2, <2>3, Ancestors
  <2>5. /\ l \notin a[m] /\ l \notin s[m] /\ l \notin h[m]
        /\ l + 1 \notin a[m] /\ l + 1 \notin s[m] /\ l + 1 \notin h[m]
    BY <2>2, <2>4 DEF Tree
  <2>6. l + 1 # l
    BY <2>2, BlocksOfNat
  <2> QED
    BY <2>2, <2>5, <2>6 DEF l
<1>2. ASSUME NEW m \in Orders
      PROVE  /\ a2[m] \subseteq BlocksOf(m) /\ s2[m] \subseteq BlocksOf(m) /\ h2[m] \subseteq BlocksOf(m)
             /\ \A x \in BlocksOf(m) : There(s2, m, x) <=> x \in a2[m] \/ x \in s2[m] \/ x \in h2[m]
             /\ \A x \in BlocksOf(m) : /\ ~ (x \in a2[m] /\ x \in s2[m])
                                       /\ ~ (x \in a2[m] /\ x \in h2[m])
                                       /\ ~ (x \in s2[m] /\ x \in h2[m])
             /\ m # TopOrder => \A x \in a2[m] : BuddyOf(x) \notin a2[m]
  <2>0. m \in Nat
    BY OrderFacts
  <2>1. CASE m \in k .. j - 1
    <3>1. PICK l \in BlocksOf(m) : l = LeftIn(i, j, m)
      BY <1>1, <2>1
    <3>2. /\ l + 1 \in BlocksOf(m) /\ l + 1 # l
          /\ l \notin a[m] /\ l \notin s[m] /\ l \notin h[m]
          /\ l + 1 \notin a[m] /\ l + 1 \notin s[m] /\ l + 1 \notin h[m]
      BY <1>1, <2>1, <3>1
    <3>3. m < j /\ m # TopOrder /\ m + 1 \in Orders /\ m + 1 \in k + 1 .. j
      BY <1>0, <2>0, <2>1, OrderFacts
    <3>4. /\ l \div 2 = LeftIn(i, j, m + 1) /\ (l + 1) \div 2 = LeftIn(i, j, m + 1)
          /\ BuddyOf(l) = l + 1
      BY <1>0, <3>1, <3>3, RightBlock
    <3>5. a2[m] = a[m] \cup {l + 1} /\ s2[m + 1] = s[m + 1] \cup {l \div 2}
      BY <2>1, <3>1, <3>3, <3>4
    <3>6. \/ m = k /\ s2[m] = s[m] /\ h2[m] = h[m] \cup {l}
          \/ m # k /\ s2[m] = s[m] \cup {l} /\ h2[m] = h[m]
      <4>1. m \in k + 1 .. j <=> m # k
        BY <1>0, <2>0, <2>1
      <4> QED
        BY <3>1, <4>1
    <3>7. ASSUME NEW x \in BlocksOf(m)
          PROVE  There(s2, m, x) <=> There(s, m, x) \/ x = l \/ x = l + 1
      <4>1. x \div 2 = l \div 2 <=> x = l \/ x = l + 1
        BY <3>4, BuddyBlock
      <4> QED
        BY <3>3, <3>5, <4>1 DEF There
    <3>8. \A x \in BlocksOf(m) : There(s2, m, x) <=> x \in a2[m] \/ x \in s2[m] \/ x \in h2[m]
      BY <3>5, <3>6, <3>7 DEF Tree
    <3>9. \A x \in BlocksOf(m) : /\ ~ (x \in a2[m] /\ x \in s2[m])
                                 /\ ~ (x \in a2[m] /\ x \in h2[m])
                                 /\ ~ (x \in s2[m] /\ x \in h2[m])
      BY <3>2, <3>5, <3>6 DEF Tree
    <3>10. ASSUME NEW x \in a2[m] PROVE BuddyOf(x) \notin a2[m]
      <4>1. CASE x = l + 1
        <5>1. BuddyOf(l + 1) = l
          BY <3>4, BuddyBlock
        <5> QED
          BY <3>2, <3>5, <4>1, <5>1
      <4>2. CASE x \in a[m]
        <5>1. BuddyOf(x) \notin a[m] /\ x \in BlocksOf(m)
          BY <3>3, <4>2 DEF Tree
        <5>2. BuddyOf(x) # l + 1
          BY <3>2, <3>4, <4>2, <5>1, BuddyBlock
        <5> QED
          BY <3>5, <5>1, <5>2
      <4> QED
        BY <3>5, <4>1, <4>2
    <3>11. a2[m] \subseteq BlocksOf(m) /\ s2[m] \subseteq BlocksOf(m) /\ h2[m] \subseteq BlocksOf(m)
      BY <3>2, <3>5, <3>6 DEF Tree
    <3> QED
      BY <3>8, <3>9, <3>10, <3>11
  <2>2. CASE m = j
    <3>0. j \notin k .. j - 1 /\ (j \in k + 1 .. j <=> j # k) /\ j + 1 \notin k + 1 .. j
      BY <1>0
    <3>1. a2[m] = a[m] \ {i} /\ LeftIn(i, j, m) = i
      BY <1>0, <2>2, <3>0, LeftSelf
    <3>2. \/ m = k /\ s2[m] = s[m] /\ h2[m] = h[m] \cup {i}
          \/ m # k /\ s2[m] = s[m] \cup {i} /\ h2[m] = h[m]
      BY <2>2, <3>0, <3>1
    <3>3. m # TopOrder => s2[m + 1] = s[m + 1]
      BY <2>2, <3>0, OrderFacts
    <3>4. \A x \in BlocksOf(m) : There(s2, m, x) <=> There(s, m, x)
      BY <3>3 DEF There
    <3> QED
      BY <1>0, <2>2, <3>1, <3>2, <3>4 DEF Tree
  <2>3. CASE m \notin k .. j
    <3>0. m \notin k .. j - 1 /\ m # j /\ m \notin k + 1 .. j /\ m # k /\ m + 1 \notin k + 1 .. j
      BY <1>0, <2>0, <2>3
    <3>1. a2[m] = a[m] /\ s2[m] = s[m] /\ h2[m] = h[m]
      BY <3>0
    <3>2. m # TopOrder => s2[m + 1] = s[m + 1]
      BY <3>0, OrderFacts
    <3>3. \A x \in BlocksOf(m) : There(s2, m, x) <=> There(s, m, x)
      BY <3>2 DEF There
    <3> QED
      BY <3>1, <3>3 DEF Tree
  <2>4. m \in k .. j - 1 \/ m = j \/ m \notin k .. j
    BY <1>0, <2>0
  <2> QED
    BY <2>1, <2>2, <2>3, <2>4
<1>3. s2[0] = {}
  <2>1. 0 \notin k + 1 .. j
    BY <1>0
  <2> QED
    BY <2>1, OrderFacts DEF Tree
<1> QED
  BY <1>2, <1>3 DEF Tree

\* The blocks when block i of order k is freed and merged with its buddies up to order j.
MergedUp(a, s, h, a2, s2, h2, j, k, i) ==
  /\ j = TopOrder \/ BuddyOf(Above(i, k, j)) \notin a[j]
  /\ \A m \in Orders : m \in k .. j - 1 => BuddyOf(Above(i, k, m)) \in a[m]
  /\ \A m \in Orders : a2[m] = IF m \in k .. j - 1 THEN a[m] \ {BuddyOf(Above(i, k, m))}
                               ELSE IF m = j THEN a[m] \cup {Above(i, k, m)} ELSE a[m]
  /\ \A m \in Orders : s2[m] = IF m \in k + 1 .. j THEN s[m] \ {Above(i, k, m)} ELSE s[m]
  /\ \A m \in Orders : h2[m] = IF m = k THEN h[m] \ {i} ELSE h[m]

LEMMA FreeTree ==
  ASSUME NEW a, NEW s, NEW h, Tree(a, s, h), NEW a2, NEW s2, NEW h2,
         NEW j \in Orders, NEW k \in Orders, k <= j, NEW i \in h[k],
         MergedUp(a, s, h, a2, s2, h2, j, k, i)
  PROVE  Tree(a2, s2, h2)
<1> USE DEF MergedUp
<1>0. j \in Nat /\ k \in Nat /\ i \in BlocksOf(k) /\ i \in Nat
  BY OrderFacts, BlocksOfNat DEF Tree
<1>1. ASSUME NEW m \in Orders, m \in k .. j
      PROVE  /\ Above(i, k, m) \in BlocksOf(m)
             /\ m = k => Above(i, k, m) = i
             /\ m # k => Above(i, k, m) \in s[m]
  <2>0. m \in Nat /\ k <= m
    BY <1>0, <1>1
  <2>1. There(s, k, i)
    BY <1>0 DEF Tree
  <2>2. CASE m = k
    BY <1>0, <2>2, AboveSelf
  <2>3. CASE m # k
    <3>1. k < m
      BY <1>0, <2>0, <2>3
    <3> QED
      BY <1>0, <2>0, <2>1, <2>3, <3>1, AboveBlock, Ancestors
  <2> QED
    BY <2>2, <2>3
<1>2. ASSUME NEW m \in Orders
      PROVE  /\ a2[m] \subseteq BlocksOf(m) /\ s2[m] \subseteq BlocksOf(m) /\ h2[m] \subseteq BlocksOf(m)
             /\ \A x \in BlocksOf(m) : There(s2, m, x) <=> x \in a2[m] \/ x \in s2[m] \/ x \in h2[m]
             /\ \A x \in BlocksOf(m) : /\ ~ (x \in a2[m] /\ x \in s2[m])
                                       /\ ~ (x \in a2[m] /\ x \in h2[m])
                                       /\ ~ (x \in s2[m] /\ x \in h2[m])
             /\ m # TopOrder => \A x \in a2[m] : BuddyOf(x) \notin a2[m]
  <2>0. m \in Nat
    BY OrderFacts
  <2>1. CASE m \in k .. j - 1
    <3>0. m < j /\ m \in k .. j /\ (m \in k + 1 .. j <=> m # k) /\ m # j /\ k <= m
      BY <1>0, <2>0, <2>1
    <3>1. PICK p \in BlocksOf(m) : p = Above(i, k, m)
      BY <1>1, <3>0
    <3>2. PICK b \in BlocksOf(m) : b = BuddyOf(p) /\ b # p /\ b \in a[m]
      BY <2>1, <3>1, BuddyBlock
    <3>3. m # TopOrder /\ m + 1 \in Orders /\ m + 1 \in k + 1 .. j
      BY <1>0, <2>0, <2>1, <3>0, OrderFacts
    <3>4. Above(i, k, m + 1) = p \div 2
      BY <1>0, <2>0, <3>0, <3>1, AboveNext
    <3>5. a2[m] = a[m] \ {b} /\ s2[m + 1] = s[m + 1] \ {p \div 2}
      BY <2>1, <3>1, <3>2, <3>3, <3>4
    <3>6. \/ p \in h[m] /\ s2[m] = s[m] /\ h2[m] = h[m] \ {p}
          \/ p \in s[m] /\ s2[m] = s[m] \ {p} /\ h2[m] = h[m]
      BY <1>1, <3>0, <3>1
    <3>7. ASSUME NEW x \in BlocksOf(m)
          PROVE  There(s2, m, x) <=> There(s, m, x) /\ x # p /\ x # b
      <4>1. x \div 2 = p \div 2 <=> x = p \/ x = b
        BY <3>2, BuddyBlock
      <4> QED
        BY <3>3, <3>5, <4>1 DEF There
    <3>8. ASSUME NEW x \in BlocksOf(m)
          PROVE  There(s2, m, x) <=> x \in a2[m] \/ x \in s2[m] \/ x \in h2[m]
      <4>1. There(s, m, x) <=> x \in a[m] \/ x \in s[m] \/ x \in h[m]
        BY DEF Tree
      <4>2. /\ ~ (x \in a[m] /\ x \in s[m])
            /\ ~ (x \in a[m] /\ x \in h[m])
            /\ ~ (x \in s[m] /\ x \in h[m])
        BY DEF Tree
      <4> QED
        BY <3>2, <3>5, <3>6, <3>7, <4>1, <4>2
    <3>9. a2[m] \subseteq a[m] /\ s2[m] \subseteq s[m] /\ h2[m] \subseteq h[m]
      BY <3>5, <3>6
    <3> QED
      BY <3>3, <3>8, <3>9 DEF Tree
  <2>2. CASE m = j
    <3>0. /\ m \notin k .. j - 1 /\ (m \in k + 1 .. j <=> m # k)
          /\ m + 1 \notin k + 1 .. j /\ m \in k .. j
      BY <1>0, <2>2
    <3>1. PICK p \in BlocksOf(m) : p = Above(i, k, m)
      BY <1>1, <3>0
    <3>2. a2[m] = a[m] \cup {p} /\ (m # TopOrder => s2[m + 1] = s[m + 1])
      BY <2>2, <3>0, <3>1, OrderFacts
    <3>3. \/ p \in h[m] /\ s2[m] = s[m] /\ h2[m] = h[m] \ {p}
          \/ p \in s[m] /\ s2[m] = s[m] \ {p} /\ h2[m] = h[m]
      BY <1>1, <3>0, <3>1
    <3>4. ASSUME NEW x \in BlocksOf(m)
          PROVE  There(s2, m, x) <=> x \in a2[m] \/ x \in s2[m] \/ x \in h2[m]
      <4>1. There(s2, m, x) <=> There(s, m, x)
        BY <3>2 DEF There
      <4>2. There(s, m, x) <=> x \in a[m] \/ x \in s[m] \/ x \in h[m]
        BY DEF Tree
      <4> QED
        BY <3>2, <3>3, <4>1, <4>2
    <3>5. \A x \in BlocksOf(m) : /\ ~ (x \in a2[m] /\ x \in s2[m])
                                 /\ ~ (x \in a2[m] /\ x \in h2[m])
                                 /\ ~ (x \in s2[m] /\ x \in h2[m])
      BY <3>2, <3>3 DEF Tree
    <3>6. ASSUME m # TopOrder, NEW x \in a2[m] PROVE BuddyOf(x) \notin a2[m]
      <4>0. BuddyOf(p) \notin a[m]
        BY <2>2, <3>1, <3>6
      <4>1. CASE x = p
        <5>1. BuddyOf(p) # p
          BY BuddyBlock
        <5> QED
          BY <3>2, <4>0, <4>1, <5>1
      <4>2. CASE x \in a[m]
        <5>1. BuddyOf(x) \notin a[m] /\ x \in BlocksOf(m)
          BY <3>6, <4>2 DEF Tree
        <5>2. BuddyOf(x) # p
          BY <4>0, <4>2, <5>1, BuddyBlock
        <5> QED
          BY <3>2, <5>1, <5>2
      <4> QED
        BY <3>2, <4>1, <4>2
    <3>7. a2[m] \subseteq BlocksOf(m) /\ s2[m] \subseteq BlocksOf(m) /\ h2[m] \subseteq BlocksOf(m)
      BY <3>2, <3>3 DEF Tree
    <3> QED
      BY <3>4, <3>5, <3>6, <3>7
  <2>3. CASE m \notin k .. j
    <3>0. m \notin k .. j - 1 /\ m # j /\ m \notin k + 1 .. j /\ m # k /\ m + 1 \notin k + 1 .. j
      BY <1>0, <2>0, <2>3
    <3>1. a2[m] = a[m] /\ s2[m] = s[m] /\ h2[m] = h[m]
      BY <3>0
    <3>2. m # TopOrder => s2[m + 1] = s[m + 1]
      BY <3>0, OrderFacts
    <3>3. \A x \in BlocksOf(m) : There(s2, m, x) <=> There(s, m, x)
      BY <3>2 DEF There
    <3> QED
      BY <3>1, <3>3 DEF Tree
  <2>4. m \in k .. j - 1 \/ m = j \/ m \notin k .. j
    BY <1>0, <2>0
  <2> QED
    BY <2>1, <2>2, <2>3, <2>4
<1>3. s2[0] = {}
  <2>1. 0 \notin k + 1 .. j
    BY <1>0
  <2> QED
    BY <2>1, OrderFacts DEF Tree
<1> QED
  BY <1>2, <1>3 DEF Tree

\* If both blocks a chunk starts with are available, there is nothing else in it.
LEMMA WhollyFree ==
  ASSUME NEW a, NEW s, NEW h, Tree(a, s, h), a[TopOrder] = {0, 1}, NEW m \in Orders
  PROVE  s[m] = {} /\ h[m] = {} /\ (m # TopOrder => a[m] = {})
<1>1. s[TopOrder] = {} /\ h[TopOrder] = {}
  BY OrderFacts, BlocksOfTop DEF Tree
<1>2. ASSUME m # TopOrder, NEW x \in BlocksOf(m), x \in a[m] \/ x \in s[m] \/ x \in h[m]
      PROVE  FALSE
  <2>1. There(s, m, x)
    BY <1>2 DEF Tree
  <2>2. m < TopOrder
    BY <1>2, OrderFacts
  <2>3. Above(x, m, TopOrder) \in s[TopOrder]
    BY <2>1, <2>2, OrderFacts, Ancestors
  <2> QED
    BY <1>1, <2>3
<1> QED
  BY <1>1, <1>2 DEF Tree

\* Something in a block that is split was handed out: two free halves had been merged.
LEMMA HandedOutBelow ==
  ASSUME NEW a, NEW s, NEW h, Tree(a, s, h), NEW k \in Orders, NEW i \in s[k]
  PROVE  \E m \in Orders : \E y \in h[m] : m < k /\ Above(y, m, k) = i
<1> DEFINE S == {n \in Orders : n <= k /\ \E x \in s[n] : Above(x, n, k) = i}
<1>0. Orders \subseteq Nat /\ k \in Nat /\ i \in BlocksOf(k) /\ i \in Nat
  BY OrderFacts, BlocksOfNat DEF Tree
<1>1. k \in S
  BY <1>0, AboveSelf
<1> DEFINE n == Min(S)
<1>2. n \in S /\ \A z \in S : n <= z
  BY <1>0, <1>1, MinOfNaturals
<1> HIDE DEF n
<1>3. PICK x \in s[n] : Above(x, n, k) = i
  BY <1>2
<1>4. n # 0
  BY <1>3 DEF Tree
<1>5. PICK m \in Orders : m # TopOrder /\ n = m + 1 /\ m \notin S
  <2>1. n \in Nat /\ n - 1 \in Orders /\ n - 1 # TopOrder
    BY <1>0, <1>2, <1>4, OrderFacts
  <2>2. n = (n - 1) + 1 /\ n - 1 \notin S
    BY <1>2, <2>1
  <2> QED
    BY <2>1, <2>2
<1>6. m \in Nat /\ m < k /\ m <= k /\ x \in BlocksOf(m + 1)
  BY <1>0, <1>2, <1>3, <1>5 DEF Tree
<1>7. ASSUME NEW y \in BlocksOf(m), y \div 2 = x PROVE Above(y, m, k) = i /\ (y \in a[m] \/ y \in h[m])
  <2>1. Above(y, m, k) = i
    <3>1. y \in Nat
      BY BlocksOfNat
    <3>2. Above(y \div 2, m + 1, k) = Above(y, m, k)
      BY <1>0, <1>6, <3>1, AboveParent
    <3> QED
      BY <1>3, <1>5, <1>7, <3>2
  <2>2. y \notin s[m]
    BY <1>5, <1>6, <2>1
  <2>3. There(s, m, y)
    BY <1>3, <1>5, <1>7 DEF There
  <2> QED
    BY <2>1, <2>2, <2>3 DEF Tree
<1>8. /\ 2 * x \in BlocksOf(m) /\ (2 * x) \div 2 = x
      /\ 2 * x + 1 \in BlocksOf(m) /\ (2 * x + 1) \div 2 = x
      /\ BuddyOf(2 * x) = 2 * x + 1
  BY <1>5, <1>6, ChildBlocks
<1>9. ~ (2 * x \in a[m] /\ 2 * x + 1 \in a[m])
  BY <1>5, <1>8 DEF Tree
<1> QED
  BY <1>6, <1>7, <1>8, <1>9

\* A block that no free block covers has something handed out in it or around it.
LEMMA HandedOutAround ==
  ASSUME NEW a, NEW s, NEW h, Tree(a, s, h), NEW k \in Orders, NEW i \in BlocksOf(k),
         \A m \in Orders : k <= m => a[m] = {}
  PROVE  \E m \in Orders : \E y \in h[m] :
           (m < k /\ Above(y, m, k) = i) \/ (k <= m /\ Above(i, k, m) = y)
<1> DEFINE S == {n \in Orders : k <= n /\ There(s, n, Above(i, k, n))}
<1>0. Orders \subseteq Nat /\ k \in Nat /\ i \in Nat
  BY OrderFacts, BlocksOfNat
<1>1. TopOrder \in S
  BY OrderFacts DEF There
<1> DEFINE n == Min(S)
<1>2. n \in S /\ \A z \in S : n <= z
  BY <1>0, <1>1, MinOfNaturals
<1> HIDE DEF n
<1>3. PICK x \in BlocksOf(n) : x = Above(i, k, n) /\ There(s, n, x)
  BY <1>2, AboveBlock
<1>4. x \in s[n] \/ x \in h[n]
  BY <1>2, <1>3 DEF Tree
<1>5. CASE x \in h[n]
  BY <1>2, <1>3, <1>5
<1>6. CASE x \in s[n] /\ n = k
  <2>1. x = i
    BY <1>0, <1>3, <1>6, AboveSelf
  <2>2. i \in s[k]
    BY <1>6, <2>1
  <2>3. \E m \in Orders : \E y \in h[m] : m < k /\ Above(y, m, k) = i
    BY <2>2, HandedOutBelow
  <2> QED
    BY <2>3
<1>7. CASE x \in s[n] /\ n # k
  <2>1. n \in Nat /\ k < n /\ n # 0
    BY <1>0, <1>2, <1>7
  <2>2. PICK m \in Orders : n = m + 1 /\ k <= m /\ m \notin S
    <3>1. n - 1 \in Orders
      BY <1>2, <2>1, OrderFacts
    <3>2. n = (n - 1) + 1 /\ k <= n - 1 /\ n - 1 \notin S
      BY <1>0, <1>2, <2>1
    <3> QED
      BY <3>1, <3>2
  <2>3. Above(i, k, n) = Above(i, k, m) \div 2
    BY <1>0, <2>2, AboveNext
  <2>4. There(s, m, Above(i, k, m))
    BY <1>3, <1>7, <2>2, <2>3 DEF There
  <2> QED
    BY <2>2, <2>4
<1> QED
  BY <1>4, <1>5, <1>6, <1>7

\* Nothing is handed out only in a chunk whose first two blocks are available.
LEMMA NothingHandedOut ==
  ASSUME NEW a, NEW s, NEW h, Tree(a, s, h), \A m \in Orders : h[m] = {}
  PROVE  a[TopOrder] = {0, 1}
<1>1. s[TopOrder] = {}
  BY OrderFacts, HandedOutBelow
<1>2. \A x \in BlocksOf(TopOrder) : There(s, TopOrder, x)
  BY DEF There
<1> QED
  BY <1>1, <1>2, OrderFacts, BlocksOfTop DEF Tree

\* Every page is in one block that is available or handed out, and in no second one.
LEMMA PageOnce ==
  ASSUME NEW a, NEW s, NEW h, Tree(a, s, h), NEW p \in BlocksOf(0)
  PROVE  \E n \in Orders : \A m \in Orders :
           Above(p, 0, m) \in a[m] \/ Above(p, 0, m) \in h[m] <=> m = n
<1> DEFINE S == {q \in Orders : There(s, q, Above(p, 0, q))}
<1>0. Orders \subseteq Nat /\ p \in Nat /\ 0 \in Orders
  BY OrderFacts, BlocksOfNat
<1>1. TopOrder \in S
  BY OrderFacts DEF There
<1> DEFINE n == Min(S)
<1>2. n \in S /\ \A z \in S : n <= z
  BY <1>0, <1>1, MinOfNaturals
<1> HIDE DEF n
<1>3. \A m \in Orders : Above(p, 0, m) \in BlocksOf(m)
  BY <1>0, AboveBlock
<1>4. Above(p, 0, n) \notin s[n]
  <2>1. SUFFICES ASSUME Above(p, 0, n) \in s[n] PROVE FALSE
    OBVIOUS
  <2>2. n # 0 /\ n \in Nat
    BY <1>0, <1>2, <2>1 DEF Tree
  <2>3. PICK m \in Orders : n = m + 1 /\ m \notin S
    <3>1. n - 1 \in Orders
      BY <1>2, <2>2, OrderFacts
    <3>2. n = (n - 1) + 1 /\ n - 1 \notin S
      BY <1>2, <2>2
    <3> QED
      BY <3>1, <3>2
  <2>4. Above(p, 0, n) = Above(p, 0, m) \div 2
    BY <1>0, <2>3, AboveNext
  <2>5. There(s, m, Above(p, 0, m))
    BY <2>1, <2>3, <2>4 DEF There
  <2> QED
    BY <2>3, <2>5
<1>5. Above(p, 0, n) \in a[n] \/ Above(p, 0, n) \in h[n]
  BY <1>2, <1>3, <1>4 DEF Tree
<1>6. ASSUME NEW m \in Orders, m # n, Above(p, 0, m) \in a[m] \/ Above(p, 0, m) \in h[m]
      PROVE  FALSE
  <2>1. There(s, m, Above(p, 0, m)) /\ Above(p, 0, m) \notin s[m]
    BY <1>3, <1>6 DEF Tree
  <2>2. m \in Nat /\ n \in Nat /\ n < m /\ 0 <= n /\ n <= m
    BY <1>0, <1>2, <1>6, <2>1
  <2>3. Above(Above(p, 0, n), n, m) \in s[m]
    BY <1>2, <1>3, <2>2, Ancestors
  <2>4. Above(Above(p, 0, n), n, m) = Above(p, 0, m)
    BY <1>0, <2>2, AboveAbove
  <2> QED
    BY <2>1, <2>3, <2>4
<1> QED
  BY <1>2, <1>5, <1>6


(***************************************************************************)
(* Lists of chunks                                                         *)
(***************************************************************************)

LEMMA RecordsFacts ==
  /\ Records \subseteq Nat /\ NULL \notin Records /\ IsFiniteSet(Records)
  /\ NULL \notin Nat /\ Unused \notin Orders
<1>1. MaxGroups * PerGroup \in Nat
  BY BuddyAssumption
<1>2. IsFiniteSet(Records)
  BY <1>1, FS_Interval DEF Records
<1> QED
  BY <1>1, <1>2, BuddyAssumption DEF Records, Unused, Orders

LEMMA HoldsPush ==
  ASSUME NEW l, IsList(l, Records), NEW S \in SUBSET Records, Holds(l, S), NEW r \in Records \ S
  PROVE  IsList(Push(l, r), Records) /\ Holds(Push(l, r), S \cup {r})
<1>1. DOMAIN l.prev = Records
  BY DEF IsList
<1>2. Chained(l, S) /\ l.prev[r] = NULL /\ \A q \in Records \ S : l.prev[q] = NULL
  BY <1>1 DEF Holds
<1>3. /\ IsList(Push(l, r), Records)
      /\ Chained(Push(l, r), S \cup {r})
      /\ \A q \in Records \ (S \cup {r}) : Push(l, r).prev[q] = l.prev[q]
  <2>1. NULL \notin Records /\ IsList(l, Records) /\ S \in SUBSET Records /\ Chained(l, S)
    BY <1>2, RecordsFacts
  <2>2. r \in Records \ S /\ l.prev[r] = NULL
    BY <1>2
  <2>3. \A q \in Records \ (S \cup {r}) : Push(l, r).prev[q] = l.prev[q]
    <3>1. l.head # NULL => l.head \in S
      BY <2>1 DEF Chained
    <3> QED
      BY <2>1, <3>1 DEF Push, Store, IsList
  <2>4. IsList(Push(l, r), Records)
    BY <2>1, <2>2, PushJoins
  <2> QED
    BY <2>1, <2>2, <2>3, <2>4, PushJoins
<1>4. DOMAIN Push(l, r).prev = Records
  BY <1>3 DEF IsList
<1> QED
  BY <1>2, <1>3, <1>4 DEF Holds

\* The head or any other record leaves the list.
LEMMA HoldsRemove ==
  ASSUME NEW l, IsList(l, Records), NEW S \in SUBSET Records, Holds(l, S), NEW r \in S, NEW l2,
         l2 = Unlink(l, r) \/ (l2 = PopHead(l) /\ r = l.head)
  PROVE  IsList(l2, Records) /\ Holds(l2, S \ {r})
<1>1. /\ l.next \in [Records -> Records \cup {NULL}] /\ l.prev \in [Records -> Records \cup {NULL}]
      /\ DOMAIN l.prev = Records
  BY DEF IsList
<1>2. Chained(l, S) /\ \A q \in Records \ S : l.prev[q] = NULL
  BY <1>1 DEF Holds
<1>3. /\ r \in Records /\ NULL \notin Records /\ NULL \notin S
      /\ l.next[r] \in S \cup {NULL} /\ l.prev[r] \in S \cup {NULL}
      /\ r = l.head => l.prev[r] = NULL
      /\ l.head \in S \cup {NULL}
  <2>1. r \in Records /\ NULL \notin Records /\ NULL \notin S
    BY RecordsFacts
  <2>2. l.next[r] \in S \cup {NULL} /\ l.prev[r] \in S \cup {NULL}
    BY <1>2 DEF Chained
  <2>3. r = l.head => l.prev[r] = NULL
    BY <1>2, <2>1 DEF Chained
  <2>4. l.head \in S \cup {NULL}
    BY <1>2 DEF Chained
  <2> QED
    BY <2>1, <2>2, <2>3, <2>4
<1>4. l.next[r] # r /\ l.prev[r] # r
  <2>1. {r} \in SUBSET S /\ {r} # {}
    OBVIOUS
  <2>2. \E q \in {r} : l.prev[q] \notin {r}
    BY <1>2, <2>1, Zenon DEF Chained, Acyclic
  <2> QED
    BY <1>2, <1>3, <2>2 DEF Chained
<1>5. /\ IsList(l2, Records)
      /\ l2.head = IF l.head = r THEN l.next[r] ELSE l.head
      /\ \A q \in S \ {r} :
           /\ l2.next[q] = IF q = l.prev[r] THEN l.next[r] ELSE l.next[q]
           /\ l2.prev[q] = IF q = l.next[r] THEN l.prev[r] ELSE l.prev[q]
      /\ \A q \in Records \ S : l2.prev[q] = l.prev[q]
      /\ l2.prev[r] = NULL
  <2>1. CASE l2 = Unlink(l, r)
    BY <1>1, <1>3, <1>4, <2>1 DEF Unlink, Store, IsList
  <2>2. CASE l2 = PopHead(l) /\ r = l.head
    BY <1>1, <1>3, <1>4, <2>2 DEF PopHead, Store, IsList
  <2> QED
    BY <2>1, <2>2
<1>6. Chained(l2, S \ {r})
  BY <1>2, <1>3, <1>5, ChainedRemove
<1>7. DOMAIN l2.prev = Records
  BY <1>5 DEF IsList
<1> QED
  BY <1>2, <1>5, <1>6, <1>7 DEF Holds

\* A list that is not empty has a head, which is one of its members.
LEMMA HeadOfList ==
  ASSUME NEW l, NEW S \in SUBSET Records, Holds(l, S)
  PROVE  (l.head = NULL <=> S = {}) /\ (l.head # NULL => l.head \in S)
<1>1. Chained(l, S) /\ NULL \notin S
  BY RecordsFacts DEF Holds
<1>2. S # {} => l.head \in S
  BY <1>1, HeadOfMembers
<1> QED
  BY <1>1, <1>2 DEF Chained

\* The records whose chunk has an available block of order m, and the blocks of
\* order m of chunk c that are handed out.
Listed(av, m) == {d \in Records : av[d][m] # {}}
Out(lv, c)    == [m \in Orders |-> {x \in BlocksOf(m) : <<c, m, x>> \in lv}]

\* What happens to the lists in an action, one list and one record at a time.
LEMMA ListFollows ==
  ASSUME NEW l, IsList(l, Records), NEW S \in SUBSET Records, Holds(l, S), NEW c \in Records,
         NEW l2, NEW S2,
         \/ l2 = l /\ S2 = S
         \/ l2 = Push(l, c) /\ c \notin S /\ S2 = S \cup {c}
         \/ l2 = Unlink(l, c) /\ c \in S /\ S2 = S \ {c}
         \/ l2 = PopHead(l) /\ c \in S /\ c = l.head /\ S2 = S \ {c}
  PROVE  IsList(l2, Records) /\ Holds(l2, S2)
<1>1. CASE l2 = l /\ S2 = S
  BY <1>1
<1>2. CASE l2 = Push(l, c) /\ c \notin S /\ S2 = S \cup {c}
  <2>1. c \in Records \ S
    BY <1>2
  <2> QED
    BY <1>2, <2>1, HoldsPush
<1>3. CASE l2 = Unlink(l, c) /\ c \in S /\ S2 = S \ {c}
  BY <1>3, HoldsRemove
<1>4. CASE l2 = PopHead(l) /\ c \in S /\ c = l.head /\ S2 = S \ {c}
  BY <1>4, HoldsRemove
<1> QED
  BY <1>1, <1>2, <1>3, <1>4


\* The record of a chunk that is recycled is cleared in all lists.
LEMMA HoldsCleared ==
  ASSUME NEW l, IsList(l, Records), NEW S \in SUBSET Records, Holds(l, S), NEW c \in Records \ S
  PROVE  /\ IsList([l EXCEPT !.next[c] = NULL, !.prev[c] = NULL], Records)
         /\ Holds([l EXCEPT !.next[c] = NULL, !.prev[c] = NULL], S)
<1> DEFINE z == [l EXCEPT !.next[c] = NULL, !.prev[c] = NULL]
<1>1. /\ IsList(z, Records)
      /\ z.head = l.head
      /\ \A q \in Records : /\ z.next[q] = IF q = c THEN NULL ELSE l.next[q]
                            /\ z.prev[q] = IF q = c THEN NULL ELSE l.prev[q]
  BY DEF IsList
<1> HIDE DEF z
<1>2. \A r \in S : z.next[r] = l.next[r] /\ z.prev[r] = l.prev[r]
  BY <1>1
<1>3. Chained(l, S)
  BY DEF Holds
<1>4. Chained(z, S)
  BY <1>1, <1>2, <1>3, ChainedFrame
<1>5. DOMAIN z.prev = Records /\ DOMAIN l.prev = Records
  BY <1>1 DEF IsList
<1>6. Holds(z, S)
  BY <1>1, <1>4, <1>5 DEF Holds
<1> QED
  BY <1>1, <1>6 DEF z

(***************************************************************************)
(* Counting the blocks of a bitmap                                         *)
(***************************************************************************)

\* The provers instantiate a lemma on T by a fact that names all sets it is about.
Adds(T, S, x)    == T = S \cup {x}
Removes(T, S, x) == T = S \ {x}

LEMMA CountAdded ==
  ASSUME NEW S, IsFiniteSet(S), NEW x, x \notin S, NEW T, Adds(T, S, x)
  PROVE  /\ IsFiniteSet(T) /\ Cardinality(T) = Cardinality(S) + 1 /\ T # {}
         /\ Cardinality(S) \in Nat /\ (Cardinality(S) = 0 <=> S = {})
BY FS_AddElement, FS_CardinalityType, FS_EmptySet DEF Adds

LEMMA CountRemoved ==
  ASSUME NEW S, IsFiniteSet(S), NEW x \in S, NEW T, Removes(T, S, x)
  PROVE  /\ IsFiniteSet(T) /\ Cardinality(T) = Cardinality(S) - 1
         /\ Cardinality(S) \in Nat /\ Cardinality(S) > 0
         /\ (Cardinality(S) = 1 <=> T = {})
<1> USE DEF Removes
<1>1. IsFiniteSet(S \ {x}) /\ Cardinality(S \ {x}) = Cardinality(S) - 1
  BY FS_RemoveElement
<1>2. Cardinality(S) \in Nat /\ Cardinality(S \ {x}) \in Nat
  BY <1>1, FS_CardinalityType
<1>3. Cardinality(S \ {x}) = 0 <=> S \ {x} = {}
  BY <1>1, FS_EmptySet
<1> QED
  BY <1>1, <1>2, <1>3

(***************************************************************************)
(* The inductive invariant                                                 *)
(***************************************************************************)

\* The records of the groups that mmap has provided.
Provided(g) == {c \in Records : c < g * PerGroup}

BuddyShape ==
  /\ groups \in 0 .. MaxGroups
  /\ avail \in [Records -> [Orders -> SUBSET Nat]]
  /\ split \in [Records -> [Orders -> SUBSET Nat]]
  /\ availNum \in [Records -> [Orders -> Nat]]
  /\ inUse \subseteq Provided(groups)
  /\ \A b \in live : \E c \in inUse : \E m \in Orders : \E x \in BlocksOf(m) : b = <<c, m, x>>

ChunksSound ==
  /\ \A c \in inUse : Tree(avail[c], split[c], Out(live, c))
  /\ \A c \in Records \ inUse : \A m \in Orders : avail[c][m] = {} /\ split[c][m] = {}
  /\ \A c \in Records : \A m \in Orders :
       IsFiniteSet(avail[c][m]) /\ availNum[c][m] = Cardinality(avail[c][m])

RecordsListed ==
  /\ DOMAIN list = Orders \cup {Unused}
  /\ \A m \in Orders : IsList(list[m], Records) /\ Holds(list[m], Listed(avail, m))
  /\ IsList(list[Unused], Records) /\ Holds(list[Unused], Provided(groups) \ inUse)

BuddyInv == BuddyShape /\ ChunksSound /\ RecordsListed /\ NoIdleChunk

\* What holds of a chunk whose maps have changed makes the chunks sound again.
LEMMA ChunkChanges ==
  ASSUME BuddyShape, ChunksSound, NEW c \in Records,
         \A d \in Records \ {c} :
           /\ avail'[d] = avail[d] /\ split'[d] = split[d] /\ availNum'[d] = availNum[d]
           /\ d \in inUse' <=> d \in inUse
           /\ Out(live', d) = Out(live, d),
         \A m \in Orders : IsFiniteSet(avail'[c][m]) /\ availNum'[c][m] = Cardinality(avail'[c][m]),
         c \in inUse' => Tree(avail'[c], split'[c], Out(live', c)),
         c \notin inUse' => \A m \in Orders : avail'[c][m] = {} /\ split'[c][m] = {},
         inUse' \subseteq Records
  PROVE  ChunksSound'
<1>1. \A d \in inUse' : Tree(avail'[d], split'[d], Out(live', d))
  BY DEF ChunksSound
<1>2. \A d \in Records \ inUse' : \A m \in Orders : avail'[d][m] = {} /\ split'[d][m] = {}
  BY DEF ChunksSound
<1>3. \A d \in Records : \A m \in Orders :
        IsFiniteSet(avail'[d][m]) /\ availNum'[d][m] = Cardinality(avail'[d][m])
  BY DEF ChunksSound
<1> QED
  BY <1>1, <1>2, <1>3 DEF ChunksSound

\* The lists of all orders follow the bitmaps of the chunk that changes.
LEMMA ListsFollow ==
  ASSUME RecordsListed, avail \in [Records -> [Orders -> SUBSET Nat]], NEW c \in Records,
         NEW av, \A d \in Records \ {c} : av[d] = avail[d], NEW ls,
         \A m \in Orders :
           \/ ls[m] = list[m] /\ (av[c][m] = {} <=> avail[c][m] = {})
           \/ ls[m] = Push(list[m], c) /\ avail[c][m] = {} /\ av[c][m] # {}
           \/ ls[m] = Unlink(list[m], c) /\ avail[c][m] # {} /\ av[c][m] = {}
           \/ ls[m] = PopHead(list[m]) /\ c = list[m].head /\ avail[c][m] # {} /\ av[c][m] = {}
  PROVE  \A m \in Orders : IsList(ls[m], Records) /\ Holds(ls[m], Listed(av, m))
<1> SUFFICES ASSUME NEW m \in Orders
             PROVE  IsList(ls[m], Records) /\ Holds(ls[m], Listed(av, m))
  OBVIOUS
<1>1. /\ Listed(avail, m) \in SUBSET Records
      /\ c \in Listed(avail, m) <=> avail[c][m] # {}
      /\ Listed(av, m) = IF av[c][m] = {} THEN Listed(avail, m) \ {c}
                         ELSE Listed(avail, m) \cup {c}
  BY DEF Listed
<1>2. IsList(list[m], Records) /\ Holds(list[m], Listed(avail, m))
  BY DEF RecordsListed
<1>3. \/ ls[m] = list[m] /\ Listed(av, m) = Listed(avail, m)
      \/ ls[m] = Push(list[m], c) /\ c \notin Listed(avail, m)
           /\ Listed(av, m) = Listed(avail, m) \cup {c}
      \/ ls[m] = Unlink(list[m], c) /\ c \in Listed(avail, m)
           /\ Listed(av, m) = Listed(avail, m) \ {c}
      \/ ls[m] = PopHead(list[m]) /\ c \in Listed(avail, m) /\ c = list[m].head
           /\ Listed(av, m) = Listed(avail, m) \ {c}
  BY <1>1
<1> QED
  BY <1>1, <1>2, <1>3, ListFollows

(***************************************************************************)
(* Allocation                                                              *)
(***************************************************************************)

\* The list of an order names a chunk that has a block of that order.
LEMMA ListedChunk ==
  ASSUME BuddyInv, NEW m \in Orders
  PROVE  /\ list[m].head # NULL =>
              /\ list[m].head \in inUse /\ list[m].head \in Records
              /\ avail[list[m].head][m] # {}
         /\ list[m].head = NULL => \A c \in Records : avail[c][m] = {}
<1>1. IsList(list[m], Records) /\ Holds(list[m], Listed(avail, m))
  BY DEF BuddyInv, RecordsListed
<1>2. Listed(avail, m) \in SUBSET Records
  BY DEF Listed
<1>3. /\ list[m].head = NULL <=> Listed(avail, m) = {}
      /\ list[m].head # NULL => list[m].head \in Listed(avail, m)
  BY <1>1, <1>2, HeadOfList
<1> QED
  BY <1>3 DEF Listed, BuddyInv, ChunksSound

\* The chunk, order and block that an allocation takes.
LEMMA BestFitTakes ==
  ASSUME BuddyInv, NEW k \in Orders, Fits(k) # {}
  PROVE  \E c \in inUse : \E j \in Orders : \E i \in avail[c][j] :
           /\ BestFit(k) = <<c, j, i>>
           /\ c \in Records /\ k <= j /\ list[j].head = c
           /\ \A m \in Orders : m \in k .. j - 1 => avail[c][m] = {}
<1> DEFINE j == Min(Fits(k))
           c == list[j].head
           i == Min(avail[c][j])
<1>1. Fits(k) \in SUBSET Nat /\ \A m \in Fits(k) : m \in Orders /\ k <= m /\ list[m].head # NULL
  BY DEF Fits, Orders
<1>2. j \in Fits(k) /\ \A m \in Fits(k) : j <= m
  BY <1>1, MinOfNaturals
<1>3. BestFit(k) = <<c, j, i>>
  BY DEF BestFit
<1> HIDE DEF j
<1>4. j \in Orders /\ k <= j /\ c # NULL
  BY <1>1, <1>2
<1>5. c \in inUse /\ c \in Records /\ avail[c][j] # {}
  BY <1>4, ListedChunk
<1> HIDE DEF c
<1>6. avail[c][j] \in SUBSET Nat
  BY <1>4, <1>5 DEF BuddyInv, BuddyShape
<1>7. i \in avail[c][j]
  BY <1>5, <1>6, MinOfNaturals
<1>8. ASSUME NEW m \in Orders, m \in k .. j - 1
      PROVE  avail[c][m] = {}
  <2>1. m \notin Fits(k)
    BY <1>1, <1>2, <1>4, <1>8, OrderFacts
  <2>2. list[m].head = NULL
    BY <1>8, <2>1 DEF Fits, Orders
  <2> QED
    BY <1>5, <2>2, ListedChunk
<1>9. list[j].head = c
  BY DEF c
<1> HIDE DEF i
<1> QED
  BY <1>3, <1>4, <1>5, <1>7, <1>8, <1>9

\* A block that is handed out, or freed, changes nothing for the other chunks.
HandsOut(lv2, lv, c, k, x)  == lv2 = lv \cup {<<c, k, x>>}
TakesBack(lv2, lv, c, k, x) == lv2 = lv \ {<<c, k, x>>}

LEMMA OutAdded ==
  ASSUME NEW lv, NEW c, NEW k \in Orders, NEW x \in BlocksOf(k), NEW lv2,
         HandsOut(lv2, lv, c, k, x)
  PROVE  /\ \A m \in Orders : Out(lv2, c)[m] = IF m = k THEN Out(lv, c)[m] \cup {x}
                                               ELSE Out(lv, c)[m]
         /\ \A d : d # c => Out(lv2, d) = Out(lv, d)
BY DEF Out, HandsOut

LEMMA OutRemoved ==
  ASSUME NEW lv, NEW c, NEW k \in Orders, NEW x \in BlocksOf(k), NEW lv2,
         TakesBack(lv2, lv, c, k, x)
  PROVE  /\ \A m \in Orders : Out(lv2, c)[m] = IF m = k THEN Out(lv, c)[m] \ {x}
                                               ELSE Out(lv, c)[m]
         /\ \A d : d # c => Out(lv2, d) = Out(lv, d)
BY DEF Out, TakesBack

\* AllocBlock, for the block that BestFit finds.
TakesBlock(k, c, j, i) ==
  LET rest  == [avail[c] EXCEPT ![j] = @ \ {i}]
      left  == [availNum[c] EXCEPT ![j] = @ - 1]
      taken == [list EXCEPT ![j] = IF availNum[c][j] = 1 THEN PopHead(@) ELSE @] IN
  /\ avail'    = [avail EXCEPT ![c] = KeepRightHalves(rest, k, j, i)]
  /\ availNum' = [availNum EXCEPT ![c] = CountRightHalves(left, k, j)]
  /\ split'    = [split EXCEPT ![c] = MarkSplit(@, k, j, i)]
  /\ list'     = ListRightHalves(taken, k, j, c)
  /\ live'     = live \cup {<<c, k, LeftIn(i, j, k)>>}
  /\ UNCHANGED <<groups, inUse, chunkNum>>

LEMMA AllocBlockInv ==
  ASSUME BuddyInv, NEW k \in Orders, AllocBlock(k)
  PROVE  BuddyInv'
<1>0. PICK c \in inUse : \E o \in Orders : \E b \in avail[c][o] :
        /\ BestFit(k) = <<c, o, b>>
        /\ c \in Records /\ k <= o /\ list[o].head = c
        /\ \A m \in Orders : m \in k .. o - 1 => avail[c][m] = {}
  BY BestFitTakes DEF AllocBlock
<1>1. PICK j \in Orders : \E b \in avail[c][j] :
        /\ BestFit(k) = <<c, j, b>>
        /\ c \in Records /\ k <= j /\ list[j].head = c
        /\ \A m \in Orders : m \in k .. j - 1 => avail[c][m] = {}
  BY <1>0
<1>2. PICK i \in avail[c][j] : BestFit(k) = <<c, j, i>>
  BY <1>1
<1>3. TakesBlock(k, c, j, i)
  <2>1. BestFit(k)[1] = c /\ BestFit(k)[2] = j /\ BestFit(k)[3] = i
    BY <1>2
  <2>2. TakesBlock(k, BestFit(k)[1], BestFit(k)[2], BestFit(k)[3])
    BY DEF AllocBlock, TakesBlock
  <2> QED
    BY <2>1, <2>2, Zenon
<1>4. /\ avail[c] \in [Orders -> SUBSET Nat] /\ split[c] \in [Orders -> SUBSET Nat]
      /\ availNum[c] \in [Orders -> Nat]
      /\ Tree(avail[c], split[c], Out(live, c))
      /\ \A m \in Orders : IsFiniteSet(avail[c][m]) /\ availNum[c][m] = Cardinality(avail[c][m])
  BY <1>1 DEF BuddyInv, BuddyShape, ChunksSound
<1>5. i \in BlocksOf(j) /\ \A m \in Orders : m <= j => LeftIn(i, j, m) \in BlocksOf(m)
  BY <1>4, LeftBlock DEF Tree
<1>6. \A m \in Orders : m <= j => LeftIn(i, j, m) \in Nat
  BY <1>5, BlocksOfNat
<1>7. /\ avail' \in [Records -> [Orders -> SUBSET Nat]]
      /\ \A m \in Orders : avail'[c][m] =
           IF m \in k .. j - 1 THEN avail[c][m] \cup {LeftIn(i, j, m) + 1}
           ELSE IF m = j THEN avail[c][m] \ {i} ELSE avail[c][m]
  <2>1. avail \in [Records -> [Orders -> SUBSET Nat]]
    BY DEF BuddyInv, BuddyShape
  <2>2. PICK r : r = [avail[c] EXCEPT ![j] = @ \ {i}]
    OBVIOUS
  <2>3. r \in [Orders -> SUBSET Nat] /\ \A m \in Orders : r[m] = IF m = j THEN avail[c][m] \ {i}
                                                                 ELSE avail[c][m]
    BY <1>4, <2>2
  <2>4. avail' = [avail EXCEPT ![c] = KeepRightHalves(r, k, j, i)]
    BY <1>3, <2>2, Zenon DEF TakesBlock
  <2>5. \A m \in Orders : m \in k .. j - 1 => m # j /\ LeftIn(i, j, m) + 1 \in Nat
    BY <1>6, OrderFacts
  <2>6. /\ KeepRightHalves(r, k, j, i) \in [Orders -> SUBSET Nat]
        /\ \A m \in Orders : KeepRightHalves(r, k, j, i)[m] =
             IF m \in k .. j - 1 THEN avail[c][m] \cup {LeftIn(i, j, m) + 1}
             ELSE IF m = j THEN avail[c][m] \ {i} ELSE avail[c][m]
    BY <2>3, <2>5 DEF KeepRightHalves
  <2> QED
    BY <1>1, <2>1, <2>4, <2>6
<1>8. \A m \in Orders : availNum'[c][m] =
        IF m \in k .. j - 1 THEN availNum[c][m] + 1
        ELSE IF m = j THEN availNum[c][m] - 1 ELSE availNum[c][m]
  BY <1>1, <1>3, <1>4, OrderFacts DEF TakesBlock, CountRightHalves, BuddyInv, BuddyShape
<1>9. /\ split' \in [Records -> [Orders -> SUBSET Nat]]
      /\ \A m \in Orders : split'[c][m] =
           IF m \in k + 1 .. j THEN split[c][m] \cup {LeftIn(i, j, m)} ELSE split[c][m]
  BY <1>1, <1>3, <1>4, <1>6, OrderFacts DEF TakesBlock, MarkSplit, BuddyInv, BuddyShape
<1> DEFINE x == LeftIn(i, j, k)
<1>10. x \in BlocksOf(k) /\ live' = live \cup {<<c, k, x>>}
  BY <1>1, <1>3, <1>5 DEF TakesBlock
<1>11. /\ \A m \in Orders : Out(live', c)[m] =
             IF m = k THEN Out(live, c)[m] \cup {LeftIn(i, j, m)} ELSE Out(live, c)[m]
       /\ \A d : d # c => Out(live', d) = Out(live, d)
  <2>1. HandsOut(live', live, c, k, x)
    BY <1>10 DEF HandsOut
  <2>2. /\ \A m \in Orders : Out(live', c)[m] = IF m = k THEN Out(live, c)[m] \cup {x}
                                                ELSE Out(live, c)[m]
        /\ \A d : d # c => Out(live', d) = Out(live, d)
    BY <1>10, <2>1, OutAdded
  <2> QED
    BY <2>2
<1>12. Tree(avail'[c], split'[c], Out(live', c))
  <2>1. TakenDown(avail[c], split[c], Out(live, c), avail'[c], split'[c], Out(live', c), j, k, i)
    BY <1>7, <1>9, <1>11 DEF TakenDown
  <2> QED
    BY <1>1, <1>4, <2>1, AllocTree
<1>13. ASSUME NEW m \in Orders
       PROVE  /\ IsFiniteSet(avail'[c][m]) /\ availNum'[c][m] = Cardinality(avail'[c][m])
              /\ availNum'[c][m] \in Nat
              /\ m \in k .. j - 1 => avail[c][m] = {} /\ availNum[c][m] = 0 /\ avail'[c][m] # {}
              /\ m = j => (availNum[c][m] = 1 <=> avail'[c][m] = {})
  <2>0. IsFiniteSet(avail[c][m]) /\ availNum[c][m] = Cardinality(avail[c][m])
    BY <1>4
  <2>1. CASE m \in k .. j - 1
    <3>1. avail[c][m] = {} /\ m # j
      BY <1>1, <2>1, OrderFacts
    <3>2. avail'[c][m] = avail[c][m] \cup {LeftIn(i, j, m) + 1} /\ availNum'[c][m] = availNum[c][m] + 1
      BY <1>7, <1>8, <2>1
    <3>3. /\ LeftIn(i, j, m) + 1 \notin avail[c][m]
          /\ Adds(avail'[c][m], avail[c][m], LeftIn(i, j, m) + 1)
      BY <3>1, <3>2 DEF Adds
    <3>4. /\ IsFiniteSet(avail'[c][m]) /\ Cardinality(avail'[c][m]) = Cardinality(avail[c][m]) + 1
          /\ avail'[c][m] # {} /\ Cardinality(avail[c][m]) = 0
      BY <2>0, <3>1, <3>3, CountAdded
    <3>5. availNum[c][m] = 0 /\ availNum'[c][m] = 1 /\ Cardinality(avail'[c][m]) = 1
      BY <2>0, <3>2, <3>4
    <3> QED
      BY <3>1, <3>4, <3>5
  <2>2. CASE m = j
    <3>1. m \notin k .. j - 1 /\ i \in avail[c][m]
      BY <2>2, OrderFacts
    <3>2. avail'[c][m] = avail[c][m] \ {i} /\ availNum'[c][m] = availNum[c][m] - 1
      BY <1>7, <1>8, <2>2, <3>1
    <3>3. Removes(avail'[c][m], avail[c][m], i)
      BY <3>2 DEF Removes
    <3> QED
      BY <2>0, <3>1, <3>2, <3>3, CountRemoved
  <2>3. CASE m # j /\ m \notin k .. j - 1
    BY <1>4, <1>7, <1>8, <2>3
  <2> QED
    BY <2>1, <2>2, <2>3
<1>14. availNum' \in [Records -> [Orders -> Nat]]
  BY <1>1, <1>3, <1>4, <1>13, OrderFacts DEF TakesBlock, CountRightHalves, BuddyInv, BuddyShape
<1>15. /\ \A d \in Records \ {c} :
            avail'[d] = avail[d] /\ split'[d] = split[d] /\ availNum'[d] = availNum[d]
       /\ groups' = groups /\ inUse' = inUse /\ chunkNum' = chunkNum
  BY <1>3 DEF TakesBlock, BuddyInv, BuddyShape
<1> HIDE DEF x
<1>16. ChunksSound'
  <2>1. inUse' \subseteq Records /\ c \in inUse' /\ c \in Records
    BY <1>1, <1>15 DEF BuddyInv, BuddyShape, Provided
  <2> QED
    BY <1>11, <1>12, <1>13, <1>15, <2>1, ChunkChanges DEF BuddyInv
<1>17. BuddyShape'
  <2>1. BuddyShape
    BY DEF BuddyInv
  <2>2. inUse' \subseteq Provided(groups)' /\ groups' \in 0 .. MaxGroups
    BY <1>15, <2>1 DEF BuddyShape, Provided
  <2>3. ASSUME NEW b \in live'
        PROVE  \E d \in inUse' : \E m \in Orders : \E y \in BlocksOf(m) : b = <<d, m, y>>
    <3>1. CASE b \in live
      BY <1>15, <2>1, <3>1, Zenon DEF BuddyShape
    <3>2. CASE b = <<c, k, x>>
      BY <1>10, <1>15, <3>2
    <3> QED
      BY <1>10, <3>1, <3>2
  <2> QED
    BY <1>7, <1>9, <1>14, <2>2, <2>3, Zenon DEF BuddyShape
<1>18. /\ DOMAIN list' = Orders \cup {Unused}
       /\ list'[Unused] = list[Unused]
       /\ \A m \in Orders :
            list'[m] = IF m \in k .. j - 1 THEN Push(list[m], c)
                       ELSE IF m = j /\ availNum[c][m] = 1 THEN PopHead(list[m]) ELSE list[m]
  <2>1. DOMAIN list = Orders \cup {Unused} /\ Unused \notin Orders
    BY RecordsFacts DEF BuddyInv, RecordsListed
  <2>2. Unused \notin k .. j - 1
    BY OrderFacts DEF Unused, Orders
  <2> QED
    BY <1>3, <1>13, <2>1, <2>2, OrderFacts DEF ListRightHalves, TakesBlock
<1>19. \A m \in Orders : IsList(list'[m], Records) /\ Holds(list'[m], Listed(avail', m))
  <2>1. ASSUME NEW m \in Orders
        PROVE  \/ list'[m] = list[m] /\ (avail'[c][m] = {} <=> avail[c][m] = {})
               \/ list'[m] = Push(list[m], c) /\ avail[c][m] = {} /\ avail'[c][m] # {}
               \/ list'[m] = Unlink(list[m], c) /\ avail[c][m] # {} /\ avail'[c][m] = {}
               \/ /\ list'[m] = PopHead(list[m]) /\ c = list[m].head
                  /\ avail[c][m] # {} /\ avail'[c][m] = {}
    <3>1. CASE m \in k .. j - 1
      BY <1>13, <1>18, <3>1
    <3>2. CASE m = j /\ availNum[c][m] = 1
      BY <1>1, <1>13, <1>18, <3>2, OrderFacts
    <3>3. CASE m = j /\ availNum[c][m] # 1
      BY <1>1, <1>13, <1>18, <3>3, OrderFacts
    <3>4. CASE m # j /\ m \notin k .. j - 1
      BY <1>7, <1>18, <3>4
    <3> QED
      BY <3>1, <3>2, <3>3, <3>4
  <2>2. RecordsListed /\ avail \in [Records -> [Orders -> SUBSET Nat]] /\ c \in Records
    BY <1>1 DEF BuddyInv, BuddyShape
  <2> QED
    BY <1>15, <2>1, <2>2, ListsFollow
<1>20. RecordsListed'
  BY <1>15, <1>18, <1>19 DEF BuddyInv, RecordsListed
<1>21. NoIdleChunk'
  BY <1>10, <1>15 DEF BuddyInv, NoIdleChunk
<1> QED
  BY <1>16, <1>17, <1>20, <1>21 DEF BuddyInv

\* A new group brings its records in a list of their own.
LEMMA GroupHeld ==
  ASSUME NEW g \in Nat, g < MaxGroups, NEW l, IsList(l, Records), l.head = NULL,
         \A r \in Records : l.prev[r] = NULL
  PROVE  /\ IsList(AddGroup(l, g), Records)
         /\ Holds(AddGroup(l, g), Provided(g + 1) \ Provided(g))
         /\ Provided(g) \subseteq Provided(g + 1)
         /\ Provided(g + 1) # Provided(g)
<1>1. PICK n \in Nat : n = g * PerGroup
  BY BuddyAssumption
<1>2. /\ (g + 1) * PerGroup = n + PerGroup
      /\ GroupRecords(g) = n .. n + PerGroup - 1
      /\ GroupRecords(g) \subseteq Records
      /\ Min(GroupRecords(g)) = n /\ Max(GroupRecords(g)) = n + PerGroup - 1
  <2>1. Group(PerGroup, g) = GroupRecords(g)
    BY Zenon DEF Group, GroupRecords
  <2>2. PerGroup \in Nat \ {0} /\ MaxGroups \in Nat
    BY BuddyAssumption
  <2>3. /\ (g + 1) * PerGroup = g * PerGroup + PerGroup
        /\ Group(PerGroup, g) = g * PerGroup .. g * PerGroup + PerGroup - 1
        /\ Group(PerGroup, g) \subseteq 0 .. MaxGroups * PerGroup - 1
        /\ Min(Group(PerGroup, g)) = g * PerGroup
        /\ Max(Group(PerGroup, g)) = g * PerGroup + PerGroup - 1
    BY <2>2, GroupNumbers
  <2> QED
    BY <1>1, <2>1, <2>3, Zenon DEF Records
<1> DEFINE R == GroupRecords(g)
           m == AddGroup(l, g)
<1>3. /\ Provided(g + 1) \ Provided(g) = R
      /\ Provided(g) \subseteq Provided(g + 1)
      /\ n \in R
  <2>1. Provided(g) = {c \in Records : c < n} /\ Provided(g + 1) = {c \in Records : c < n + PerGroup}
    BY <1>1, <1>2, Zenon DEF Provided
  <2>2. n \in R /\ R \subseteq Records /\ R = n .. n + PerGroup - 1
    BY <1>2, BuddyAssumption
  <2>3. \A c \in Records : c \in Nat
    BY RecordsFacts
  <2>4. PerGroup \in Nat /\ n \in Nat
    BY BuddyAssumption
  <2>5. \A c \in Records : c \in R <=> c < n + PerGroup /\ ~ (c < n)
    BY <2>2, <2>3, <2>4
  <2>6. \A c \in Records : c < n => c < n + PerGroup
    BY <2>3, <2>4
  <2> HIDE DEF R
  <2> QED
    BY <2>1, <2>2, <2>5, <2>6
<1>4. /\ m.head = n /\ DOMAIN m.next = Records /\ DOMAIN m.prev = Records
      /\ m = [head |-> m.head, next |-> m.next, prev |-> m.prev]
      /\ m.next = [r \in Records |-> m.next[r]] /\ m.prev = [r \in Records |-> m.prev[r]]
      /\ \A r \in Records :
           /\ m.next[r] = IF r \notin R THEN l.next[r] ELSE IF r = n + PerGroup - 1 THEN NULL ELSE r + 1
           /\ m.prev[r] = IF r \notin R \ {n} THEN NULL ELSE r - 1
  BY <1>2, RecordsFacts DEF AddGroup
<1>5. \A r \in R : /\ r # n => r - 1 \in R
                   /\ r # n + PerGroup - 1 => r + 1 \in R
  BY <1>2, BuddyAssumption
<1>r. R \subseteq Records /\ R = n .. n + PerGroup - 1
  BY <1>2
<1> HIDE DEF m, R
<1>6. IsList(m, Records)
  <2>1. \A r \in Records : m.next[r] \in Records \cup {NULL} /\ m.prev[r] \in Records \cup {NULL}
    BY <1>r, <1>4, <1>5 DEF IsList
  <2> QED
    BY <1>r, <1>3, <1>4, <2>1 DEF IsList
<1>7. Chained(m, R)
  <2>1. \A r \in R : /\ m.next[r] = IF r = n + PerGroup - 1 THEN NULL ELSE r + 1
                     /\ m.prev[r] = IF r = n THEN NULL ELSE r - 1
    BY <1>r, <1>4
  <2>2. PerGroup \in Nat \ {0} /\ NULL \notin Nat /\ n \in Nat /\ m.head = n
    BY <1>4, BuddyAssumption
  <2> QED
    BY <1>r, <2>1, <2>2, GroupChained
<1>8. Holds(m, R)
  BY <1>4, <1>7 DEF Holds
<1> QED
  BY <1>3, <1>6, <1>8 DEF m

\* The record for a new chunk heads a list of records that have no chunk.
LEMMA RecordIsUnused ==
  ASSUME BuddyInv, RecordFound
  PROVE  /\ groups' \in 0 .. MaxGroups
         /\ inUse \subseteq Provided(groups')
         /\ IsList(UnusedRecords, Records)
         /\ Holds(UnusedRecords, Provided(groups') \ inUse)
         /\ UnusedRecords.head \in Provided(groups') \ inUse
<1>1. /\ groups \in 0 .. MaxGroups /\ inUse \subseteq Provided(groups)
      /\ IsList(list[Unused], Records) /\ Holds(list[Unused], Provided(groups) \ inUse)
  BY DEF BuddyInv, BuddyShape, RecordsListed
<1>2. Provided(groups) \ inUse \in SUBSET Records
  BY DEF Provided
<1>3. /\ list[Unused].head = NULL <=> Provided(groups) \ inUse = {}
      /\ list[Unused].head # NULL => list[Unused].head \in Provided(groups) \ inUse
  BY <1>1, <1>2, HeadOfList
<1>4. CASE list[Unused].head # NULL
  <2>1. groups' = groups /\ UnusedRecords = list[Unused]
    BY <1>4 DEF RecordFound, UnusedRecords
  <2> QED
    BY <1>1, <1>3, <1>4, <2>1
<1>5. CASE list[Unused].head = NULL
  <2>1. /\ groups < MaxGroups /\ groups' = groups + 1 /\ groups \in Nat
        /\ UnusedRecords = AddGroup(list[Unused], groups)
    BY <1>1, <1>5, BuddyAssumption DEF RecordFound, UnusedRecords
  <2>2. \A r \in Records : list[Unused].prev[r] = NULL
    BY <1>1, <1>3, <1>5 DEF Holds, IsList
  <2>3. /\ IsList(UnusedRecords, Records)
        /\ Holds(UnusedRecords, Provided(groups') \ Provided(groups))
        /\ Provided(groups) \subseteq Provided(groups')
        /\ Provided(groups') # Provided(groups)
    BY <1>1, <1>5, <2>1, <2>2, GroupHeld
  <2>4. Provided(groups') \ Provided(groups) = Provided(groups') \ inUse
    BY <1>1, <1>3, <1>5, <2>3
  <2>5. Provided(groups') \ inUse # {} /\ Provided(groups') \ inUse \in SUBSET Records
    BY <1>1, <2>3, <2>4 DEF Provided
  <2>6. Holds(UnusedRecords, Provided(groups') \ inUse)
    BY <2>3, <2>4
  <2>7. UnusedRecords.head \in Provided(groups') \ inUse
    BY <2>5, <2>6, HeadOfList
  <2> QED
    BY <1>1, <2>1, <2>3, <2>6, <2>7, BuddyAssumption
<1> QED
  BY <1>4, <1>5

\* A request that no free block fits has something handed out in each chunk.
LEMMA NothingFits ==
  ASSUME BuddyInv, NEW k \in Orders, Fits(k) = {}, NEW c \in inUse, NEW i \in BlocksOf(k)
  PROVE  \E m \in Orders : \E y \in BlocksOf(m) :
           /\ <<c, m, y>> \in live
           /\ (m < k /\ Above(y, m, k) = i) \/ (k <= m /\ Above(i, k, m) = y)
<1>1. c \in Records /\ Tree(avail[c], split[c], Out(live, c))
  BY DEF BuddyInv, BuddyShape, ChunksSound, Provided
<1>2. \A m \in Orders : k <= m => avail[c][m] = {}
  <2>1. SUFFICES ASSUME NEW m \in Orders, k <= m PROVE avail[c][m] = {}
    OBVIOUS
  <2>2. m \in k .. TopOrder
    BY <2>1, OrderFacts
  <2>3. list[m].head = NULL
    BY <2>2 DEF Fits
  <2> QED
    BY <1>1, <2>3, ListedChunk
<1>3. PICK m \in Orders : \E y \in Out(live, c)[m] :
        (m < k /\ Above(y, m, k) = i) \/ (k <= m /\ Above(i, k, m) = y)
  BY <1>1, <1>2, HandedOutAround
<1> QED
  BY <1>3 DEF Out

LEMMA LeftOfZero ==
  ASSUME NEW j \in Nat, NEW m \in Nat, m <= j
  PROVE  LeftIn(0, j, m) = 0
<1>1. j - m \in Nat
  OBVIOUS
<1>2. PICK p \in Nat : p = 2 ^ (j - m)
  BY <1>1, PowerPositive
<1>3. 0 * p = 0
  OBVIOUS
<1> QED
  BY <1>2, <1>3, Zenon DEF LeftIn

LEMMA NewChunkInv ==
  ASSUME BuddyInv, NEW k \in Orders, NewChunk(k)
  PROVE  BuddyInv'
<1> DEFINE U == UnusedRecords
<1>1. PICK c \in Provided(groups') \ inUse : c = U.head
  BY RecordIsUnused DEF NewChunk
<1>2. /\ groups' \in 0 .. MaxGroups /\ inUse \subseteq Provided(groups')
      /\ IsList(U, Records) /\ Holds(U, Provided(groups') \ inUse)
  BY RecordIsUnused DEF NewChunk
<1>3. /\ avail' = [avail EXCEPT ![c] =
                    KeepRightHalves([@ EXCEPT ![TopOrder] = {1}], k, TopOrder, 0)]
      /\ availNum' = [availNum EXCEPT ![c] =
                       CountRightHalves([@ EXCEPT ![TopOrder] = 1], k, TopOrder)]
      /\ split' = [split EXCEPT ![c] = MarkSplit(@, k, TopOrder, 0)]
      /\ list' = ListRightHalves([list EXCEPT ![Unused]   = PopHead(U),
                                              ![TopOrder] = Push(@, c)], k, TopOrder, c)
      /\ inUse' = inUse \cup {c}
      /\ live' = live \cup {<<c, k, 0>>}
      /\ chunkNum' = chunkNum + 1
      /\ Fits(k) = {}
  BY <1>1, Zenon DEF NewChunk
<1> HIDE DEF U
<1>4. /\ c \in Records
      /\ avail[c] \in [Orders -> SUBSET Nat] /\ split[c] \in [Orders -> SUBSET Nat]
      /\ availNum[c] \in [Orders -> Nat]
      /\ \A m \in Orders : avail[c][m] = {} /\ split[c][m] = {} /\ availNum[c][m] = 0
  <2>1. c \in Records \ inUse
    BY <1>1 DEF Provided
  <2> QED
    BY <2>1, FS_EmptySet DEF BuddyInv, BuddyShape, ChunksSound
<1>5. \A m \in Orders : LeftIn(0, TopOrder, m) = 0
  BY OrderFacts, LeftOfZero
<1>6. /\ avail' \in [Records -> [Orders -> SUBSET Nat]]
      /\ \A m \in Orders : avail'[c][m] = IF m \in k .. TopOrder - 1 THEN {1}
                                          ELSE IF m = TopOrder THEN {1} ELSE {}
  <2>1. avail \in [Records -> [Orders -> SUBSET Nat]]
    BY DEF BuddyInv, BuddyShape
  <2>2. PICK r : r = [avail[c] EXCEPT ![TopOrder] = {1}]
    OBVIOUS
  <2>3. /\ r \in [Orders -> SUBSET Nat]
        /\ \A m \in Orders : r[m] = IF m = TopOrder THEN {1} ELSE {}
    <3>1. {1} \in SUBSET Nat /\ {} \in SUBSET Nat
      OBVIOUS
    <3>2. r \in [Orders -> SUBSET Nat]
      BY <1>4, <2>2, <3>1
    <3>3. r[TopOrder] = {1}
      BY <1>4, <2>2, OrderFacts
    <3>4. \A m \in Orders : m # TopOrder => r[m] = avail[c][m]
      BY <1>4, <2>2
    <3> QED
      BY <1>4, <3>2, <3>3, <3>4
  <2>4. avail' = [avail EXCEPT ![c] = KeepRightHalves(r, k, TopOrder, 0)]
    BY <1>3, <2>1, <2>2, Zenon
  <2>5. \A m \in Orders : /\ m \in k .. TopOrder - 1 => m # TopOrder
                          /\ LeftIn(0, TopOrder, m) + 1 = 1
    BY <1>5, OrderFacts
  <2>6. KeepRightHalves(r, k, TopOrder, 0) = [m \in Orders |->
          IF m \in k .. TopOrder - 1 THEN r[m] \cup {LeftIn(0, TopOrder, m) + 1} ELSE r[m]]
    BY Zenon DEF KeepRightHalves
  <2>7. /\ KeepRightHalves(r, k, TopOrder, 0) \in [Orders -> SUBSET Nat]
        /\ \A m \in Orders : KeepRightHalves(r, k, TopOrder, 0)[m] =
             IF m \in k .. TopOrder - 1 THEN {1} ELSE IF m = TopOrder THEN {1} ELSE {}
    <3>1. \A m \in Orders : m \in k .. TopOrder - 1 => r[m] \cup {LeftIn(0, TopOrder, m) + 1} = {1}
      BY <2>3, <2>5
    <3>2. {1} \in SUBSET Nat /\ {} \in SUBSET Nat
      OBVIOUS
    <3>3. \A m \in Orders : KeepRightHalves(r, k, TopOrder, 0)[m] =
            IF m \in k .. TopOrder - 1 THEN {1} ELSE r[m]
      BY <2>6, <3>1
    <3>4. \A m \in Orders : KeepRightHalves(r, k, TopOrder, 0)[m] \in SUBSET Nat
      BY <2>3, <3>2, <3>3
    <3> QED
      BY <2>3, <2>6, <3>3, <3>4
  <2> QED
    BY <1>4, <2>1, <2>4, <2>7
<1>7. /\ availNum' \in [Records -> [Orders -> Nat]]
      /\ \A m \in Orders : availNum'[c][m] = IF m \in k .. TopOrder THEN 1 ELSE 0
  BY <1>3, <1>4, OrderFacts DEF CountRightHalves, BuddyInv, BuddyShape
<1>8. /\ split' \in [Records -> [Orders -> SUBSET Nat]]
      /\ \A m \in Orders : split'[c][m] = IF m \in k + 1 .. TopOrder THEN {0} ELSE {}
  BY <1>3, <1>4, <1>5, OrderFacts DEF MarkSplit, BuddyInv, BuddyShape
<1>9. \A d \in Records \ {c} :
        avail'[d] = avail[d] /\ split'[d] = split[d] /\ availNum'[d] = availNum[d]
  BY <1>3 DEF BuddyInv, BuddyShape
<1>10. /\ \A m \in Orders : Out(live, c)[m] = {} /\ Out(live', c)[m] = IF m = k THEN {0} ELSE {}
       /\ \A d : d # c => Out(live', d) = Out(live, d)
  <2>1. 0 \in BlocksOf(k)
    BY BlocksOfNat
  <2>2. HandsOut(live', live, c, k, 0)
    BY <1>3 DEF HandsOut
  <2>3. \A m \in Orders : Out(live, c)[m] = {}
    <3>1. ASSUME NEW b \in live PROVE b[1] # c
      BY <1>1, <3>1 DEF BuddyInv, BuddyShape
    <3> QED
      BY <3>1 DEF Out
  <2>4. /\ \A m \in Orders : Out(live', c)[m] = IF m = k THEN Out(live, c)[m] \cup {0}
                                                ELSE Out(live, c)[m]
        /\ \A d : d # c => Out(live', d) = Out(live, d)
    BY <2>1, <2>2, OutAdded
  <2> QED
    BY <2>3, <2>4
<1>11. Tree(avail'[c], split'[c], Out(live', c))
  <2>1. PICK a : a = [m \in Orders |-> IF m = TopOrder THEN {0, 1} ELSE {}]
    OBVIOUS
  <2>2. \A m \in Orders : a[m] = IF m = TopOrder THEN {0, 1} ELSE {}
    BY <2>1
  <2>3. Tree(a, split[c], Out(live, c))
    BY <1>4, <1>10, <2>2, BlocksOfTop, OrderFacts DEF Tree, There
  <2>4. \A m \in Orders : m \in k .. TopOrder - 1 => m # TopOrder
    BY OrderFacts
  <2>5. TakenDown(a, split[c], Out(live, c), avail'[c], split'[c], Out(live', c), TopOrder, k, 0)
    <3>1. \A m \in Orders : avail'[c][m] =
            IF m \in k .. TopOrder - 1 THEN a[m] \cup {LeftIn(0, TopOrder, m) + 1}
            ELSE IF m = TopOrder THEN a[m] \ {0} ELSE a[m]
      <4>1. \A m \in Orders : m \in k .. TopOrder - 1 => a[m] \cup {LeftIn(0, TopOrder, m) + 1} = {1}
        BY <1>5, <2>2, <2>4
      <4>2. \A m \in Orders : m = TopOrder => a[m] \ {0} = {1}
        BY <2>2
      <4>3. \A m \in Orders : m \notin k .. TopOrder - 1 /\ m # TopOrder => a[m] = {}
        BY <2>2
      <4> QED
        BY <1>6, <4>1, <4>2, <4>3
    <3>2. \A m \in Orders : split'[c][m] =
            IF m \in k + 1 .. TopOrder THEN split[c][m] \cup {LeftIn(0, TopOrder, m)}
            ELSE split[c][m]
      BY <1>4, <1>5, <1>8
    <3>3. \A m \in Orders : Out(live', c)[m] =
            IF m = k THEN Out(live, c)[m] \cup {LeftIn(0, TopOrder, m)} ELSE Out(live, c)[m]
      BY <1>5, <1>10
    <3> QED
      BY <3>1, <3>2, <3>3, Zenon DEF TakenDown
  <2>6. TopOrder \in Orders /\ k <= TopOrder /\ 0 \in a[TopOrder]
    BY <2>2, OrderFacts
  <2> QED
    BY <2>3, <2>5, <2>6, AllocTree
<1>12. \A m \in Orders : IsFiniteSet(avail'[c][m]) /\ availNum'[c][m] = Cardinality(avail'[c][m])
  <2>1. \A m \in Orders : m \in k .. TopOrder <=> m \in k .. TopOrder - 1 \/ m = TopOrder
    BY OrderFacts
  <2>2. /\ IsFiniteSet({1}) /\ Cardinality({1}) = 1
        /\ IsFiniteSet({}) /\ Cardinality({}) = 0
    BY FS_Singleton, FS_EmptySet
  <2> QED
    BY <1>6, <1>7, <2>1, <2>2
<1>13. ChunksSound'
  <2>1. /\ inUse' \subseteq Records /\ c \in inUse'
        /\ \A d \in Records \ {c} : d \in inUse' <=> d \in inUse
    BY <1>1, <1>2, <1>3 DEF Provided
  <2>2. BuddyShape /\ ChunksSound
    BY DEF BuddyInv
  <2>3. \A d \in Records \ {c} :
           /\ avail'[d] = avail[d] /\ split'[d] = split[d] /\ availNum'[d] = availNum[d]
           /\ d \in inUse' <=> d \in inUse
           /\ Out(live', d) = Out(live, d)
    BY <1>9, <1>10, <2>1
  <2> QED
    BY <1>4, <1>11, <1>12, <2>1, <2>2, <2>3, ChunkChanges
<1>14. BuddyShape'
  <2>1. BuddyShape
    BY DEF BuddyInv
  <2>2. inUse' \subseteq Provided(groups)' /\ groups' \in 0 .. MaxGroups
    BY <1>1, <1>2, <1>3 DEF Provided
  <2>3. ASSUME NEW b \in live'
        PROVE  \E d \in inUse' : \E m \in Orders : \E y \in BlocksOf(m) : b = <<d, m, y>>
    <3>1. CASE b \in live
      BY <1>3, <2>1, <3>1 DEF BuddyShape
    <3>2. CASE b = <<c, k, 0>>
      BY <1>3, <3>2, BlocksOfNat
    <3> QED
      BY <1>3, <3>1, <3>2
  <2> QED
    BY <1>6, <1>7, <1>8, <2>2, <2>3, Zenon DEF BuddyShape
<1>15. /\ DOMAIN list' = Orders \cup {Unused}
       /\ list'[Unused] = PopHead(U)
       /\ \A m \in Orders :
            list'[m] = IF m \in k .. TopOrder THEN Push(list[m], c) ELSE list[m]
  <2>1. DOMAIN list = Orders \cup {Unused} /\ Unused \notin Orders /\ TopOrder \in Orders
    BY RecordsFacts, OrderFacts DEF BuddyInv, RecordsListed
  <2>2. Unused \notin k .. TopOrder - 1 /\ TopOrder # Unused
    BY OrderFacts DEF Unused, Orders
  <2>3. \A m \in Orders : /\ m \in k .. TopOrder <=> m \in k .. TopOrder - 1 \/ m = TopOrder
                          /\ m \in k .. TopOrder - 1 => m # TopOrder
    BY OrderFacts
  <2>4. PICK ls : ls = [list EXCEPT ![Unused] = PopHead(U), ![TopOrder] = Push(@, c)]
    OBVIOUS
  <2>5. list' = ListRightHalves(ls, k, TopOrder, c)
    BY <1>3, <2>4, Zenon
  <2>6. /\ DOMAIN ls = Orders \cup {Unused} /\ ls[Unused] = PopHead(U)
        /\ ls[TopOrder] = Push(list[TopOrder], c)
        /\ \A m \in Orders : m # TopOrder => ls[m] = list[m]
    BY <2>1, <2>2, <2>4
  <2> QED
    BY <1>4, <2>1, <2>2, <2>3, <2>5, <2>6 DEF ListRightHalves
<1>16. \A m \in Orders : IsList(list'[m], Records) /\ Holds(list'[m], Listed(avail', m))
  <2>1. \A m \in Orders : m \in k .. TopOrder <=> m \in k .. TopOrder - 1 \/ m = TopOrder
    BY OrderFacts
  <2>2. ASSUME NEW m \in Orders
        PROVE  \/ list'[m] = list[m] /\ (avail'[c][m] = {} <=> avail[c][m] = {})
               \/ list'[m] = Push(list[m], c) /\ avail[c][m] = {} /\ avail'[c][m] # {}
               \/ list'[m] = Unlink(list[m], c) /\ avail[c][m] # {} /\ avail'[c][m] = {}
               \/ /\ list'[m] = PopHead(list[m]) /\ c = list[m].head
                  /\ avail[c][m] # {} /\ avail'[c][m] = {}
    BY <1>4, <1>6, <1>15, <2>1
  <2>3. RecordsListed /\ avail \in [Records -> [Orders -> SUBSET Nat]] /\ c \in Records
    BY <1>4 DEF BuddyInv, BuddyShape
  <2> QED
    BY <1>9, <2>2, <2>3, ListsFollow
<1>17. IsList(list'[Unused], Records) /\ Holds(list'[Unused], Provided(groups') \ inUse')
  <2>1. Provided(groups') \ inUse \in SUBSET Records
    BY DEF Provided
  <2>2. IsList(PopHead(U), Records) /\ Holds(PopHead(U), (Provided(groups') \ inUse) \ {c})
    BY <1>1, <1>2, <2>1, HoldsRemove
  <2>3. (Provided(groups') \ inUse) \ {c} = Provided(groups') \ inUse'
    BY <1>3
  <2> QED
    BY <1>15, <2>2, <2>3
<1>18. RecordsListed'
  BY <1>15, <1>16, <1>17 DEF RecordsListed
<1>19. NoIdleChunk'
  <2>1. IsFiniteSet(inUse) /\ chunkNum = Cardinality(inUse) /\ c \notin inUse
    BY <1>1, FS_Subset, RecordsFacts DEF BuddyInv, BuddyShape, NoIdleChunk, Provided
  <2>2. Adds(inUse', inUse, c)
    BY <1>3 DEF Adds
  <2>3. chunkNum' = Cardinality(inUse')
    BY <1>3, <2>1, <2>2, CountAdded
  <2>4. \A d \in inUse : \E b \in live : b[1] = d
    <3> SUFFICES ASSUME NEW d \in inUse PROVE \E b \in live : b[1] = d
      OBVIOUS
    <3>1. 0 \in BlocksOf(k) /\ Fits(k) = {}
      BY <1>3, BlocksOfNat
    <3>2. \E m \in Orders : \E y \in BlocksOf(m) : <<d, m, y>> \in live
      BY <3>1, NothingFits
    <3> QED
      BY <3>2
  <2>5. \A d \in inUse' : \E b \in live' : b[1] = d
    <3>1. <<c, k, 0>> \in live' /\ <<c, k, 0>>[1] = c
      BY <1>3
    <3>2. \A d \in inUse : \E b \in live' : b[1] = d
      BY <1>3, <2>4
    <3> QED
      BY <1>3, <3>1, <3>2
  <2> QED
    BY <2>3, <2>5 DEF NoIdleChunk
<1> QED
  BY <1>13, <1>14, <1>18, <1>19 DEF BuddyInv

\* A record that is in no list is cleared and becomes an unused one.
LEMMA RecycleHolds ==
  ASSUME NEW ls, DOMAIN ls = Orders \cup {Unused}, NEW c \in Records, NEW av,
         \A m \in Orders : /\ IsList(ls[m], Records) /\ Holds(ls[m], Listed(av, m))
                           /\ av[c][m] = {},
         NEW S \in SUBSET Records, c \notin S, IsList(ls[Unused], Records), Holds(ls[Unused], S)
  PROVE  /\ DOMAIN Recycle(ls, c) = Orders \cup {Unused}
         /\ \A m \in Orders : /\ IsList(Recycle(ls, c)[m], Records)
                              /\ Holds(Recycle(ls, c)[m], Listed(av, m))
         /\ IsList(Recycle(ls, c)[Unused], Records)
         /\ Holds(Recycle(ls, c)[Unused], S \cup {c})
<1> DEFINE Z(l) == [l EXCEPT !.next[c] = NULL, !.prev[c] = NULL]
<1>0. Unused \notin Orders
  BY RecordsFacts
<1>1. PICK z : z = [m \in DOMAIN ls |-> Z(ls[m])]
  OBVIOUS
<1>2. Recycle(ls, c) = [z EXCEPT ![Unused] = Push(z[Unused], c)]
  BY <1>1, Zenon DEF Recycle
<1>3. /\ DOMAIN Recycle(ls, c) = Orders \cup {Unused}
      /\ \A m \in Orders : Recycle(ls, c)[m] = Z(ls[m])
      /\ Recycle(ls, c)[Unused] = Push(Z(ls[Unused]), c)
  <2> HIDE DEF Z
  <2> QED
    BY <1>0, <1>1, <1>2
<1>4. \A m \in Orders : IsList(Z(ls[m]), Records) /\ Holds(Z(ls[m]), Listed(av, m))
  <2>1. SUFFICES ASSUME NEW m \in Orders
                 PROVE  IsList(Z(ls[m]), Records) /\ Holds(Z(ls[m]), Listed(av, m))
    OBVIOUS
  <2>2. Listed(av, m) \in SUBSET Records /\ c \in Records \ Listed(av, m)
    BY DEF Listed
  <2> QED
    BY <2>2, HoldsCleared
<1>5. IsList(Z(ls[Unused]), Records) /\ Holds(Z(ls[Unused]), S)
  <2>1. c \in Records \ S
    OBVIOUS
  <2> QED
    BY <2>1, HoldsCleared
<1>6. IsList(Push(Z(ls[Unused]), c), Records) /\ Holds(Push(Z(ls[Unused]), c), S \cup {c})
  <2> HIDE DEF Z
  <2>1. c \in Records \ S
    OBVIOUS
  <2> QED
    BY <1>5, <2>1, HoldsPush
<1> QED
  BY <1>3, <1>4, <1>5, <1>6, Zenon

LEMMA NoChunkInv ==
  ASSUME BuddyInv, NEW k \in Orders, NoChunk(k)
  PROVE  BuddyInv'
<1> DEFINE U == UnusedRecords
<1>1. PICK c \in Provided(groups') \ inUse : c = U.head
  BY RecordIsUnused DEF NoChunk
<1>2. /\ groups' \in 0 .. MaxGroups /\ inUse \subseteq Provided(groups')
      /\ IsList(U, Records) /\ Holds(U, Provided(groups') \ inUse)
  BY RecordIsUnused DEF NoChunk
<1>3. list' = Recycle([list EXCEPT ![Unused] = PopHead(U)], c)
  BY <1>1, Zenon DEF NoChunk
<1>4. /\ avail' = avail /\ availNum' = availNum /\ split' = split
      /\ inUse' = inUse /\ chunkNum' = chunkNum /\ live' = live
  BY DEF NoChunk
<1> HIDE DEF U
<1>5. PICK ls : ls = [list EXCEPT ![Unused] = PopHead(U)]
  OBVIOUS
<1>6. /\ DOMAIN ls = Orders \cup {Unused} /\ ls[Unused] = PopHead(U)
      /\ \A m \in Orders : ls[m] = list[m]
  BY <1>5, RecordsFacts DEF BuddyInv, RecordsListed
<1> DEFINE S == (Provided(groups') \ inUse) \ {c}
<1>7. IsList(PopHead(U), Records) /\ Holds(PopHead(U), S)
  <2>1. Provided(groups') \ inUse \in SUBSET Records
    BY DEF Provided
  <2> QED
    BY <1>1, <1>2, <2>1, HoldsRemove
<1>8. c \in Records /\ \A m \in Orders : avail[c][m] = {}
  BY <1>1 DEF BuddyInv, ChunksSound, Provided
<1>9. \A m \in Orders : IsList(ls[m], Records) /\ Holds(ls[m], Listed(avail, m)) /\ avail[c][m] = {}
  BY <1>6, <1>8 DEF BuddyInv, RecordsListed
<1>10. S \in SUBSET Records /\ c \notin S /\ S \cup {c} = Provided(groups') \ inUse
  BY <1>1 DEF Provided
<1> HIDE DEF S
<1>11. /\ DOMAIN Recycle(ls, c) = Orders \cup {Unused}
       /\ \A m \in Orders : /\ IsList(Recycle(ls, c)[m], Records)
                            /\ Holds(Recycle(ls, c)[m], Listed(avail, m))
       /\ IsList(Recycle(ls, c)[Unused], Records)
       /\ Holds(Recycle(ls, c)[Unused], S \cup {c})
  BY <1>6, <1>7, <1>8, <1>9, <1>10, RecycleHolds
<1>12. list' = Recycle(ls, c)
  BY <1>3, <1>5, Zenon
<1>13. RecordsListed'
  BY <1>4, <1>10, <1>11, <1>12 DEF RecordsListed
<1>14. BuddyShape' /\ ChunksSound' /\ NoIdleChunk'
  BY <1>2, <1>4 DEF BuddyInv, BuddyShape, ChunksSound, NoIdleChunk
<1> QED
  BY <1>13, <1>14 DEF BuddyInv

(***************************************************************************)
(* Freeing                                                                 *)
(***************************************************************************)

\* The orders through which a freed block merges, and that it is nowhere available.
LEMMA MergeFacts ==
  ASSUME BuddyInv, NEW c \in inUse, NEW k \in Orders, NEW i \in BlocksOf(k), <<c, k, i>> \in live,
         NEW j, j = LastMerge(c, k, i)
  PROVE  /\ c \in Records /\ j \in Orders /\ k <= j
         /\ j = TopOrder \/ BuddyOf(Above(i, k, j)) \notin avail[c][j]
         /\ \A m \in Orders : m \in k .. j - 1 => BuddyOf(Above(i, k, m)) \in avail[c][m]
         /\ \A m \in Orders : k <= m => /\ Above(i, k, m) \in BlocksOf(m)
                                        /\ Above(i, k, m) \notin avail[c][m]
         /\ i \in Out(live, c)[k]
<1> DEFINE J == {m \in k .. TopOrder :
                   m = TopOrder \/ BuddyOf(Above(i, k, m)) \notin avail[c][m]}
<1>1. J \in SUBSET Nat /\ TopOrder \in J
  BY OrderFacts
<1>2. j = Min(J)
  BY Zenon DEF LastMerge
<1>3. j \in J /\ \A m \in J : j <= m
  BY <1>1, <1>2, MinOfNaturals
<1>4. j \in Orders /\ k <= j /\ (j = TopOrder \/ BuddyOf(Above(i, k, j)) \notin avail[c][j])
  BY <1>3, OrderFacts DEF Orders
<1>5. ASSUME NEW m \in Orders, m \in k .. j - 1
      PROVE  BuddyOf(Above(i, k, m)) \in avail[c][m]
  <2>1. m \in k .. TopOrder /\ ~ (j <= m)
    BY <1>4, <1>5, OrderFacts
  <2> QED
    BY <1>3, <2>1
<1>6. c \in Records /\ Tree(avail[c], split[c], Out(live, c))
  BY DEF BuddyInv, BuddyShape, ChunksSound, Provided
<1>7. i \in Out(live, c)[k]
  BY DEF Out
<1>8. There(split[c], k, i) /\ i \notin avail[c][k]
  BY <1>6, <1>7 DEF Tree
<1>9. ASSUME NEW m \in Orders, k <= m
      PROVE  Above(i, k, m) \in BlocksOf(m) /\ Above(i, k, m) \notin avail[c][m]
  <2>1. Above(i, k, m) \in BlocksOf(m)
    BY <1>9, AboveBlock
  <2>2. CASE k = m
    <3>1. k \in Nat /\ i \in Nat
      BY OrderFacts, BlocksOfNat
    <3>2. Above(i, k, k) = i
      BY <3>1, AboveSelf
    <3> QED
      BY <1>8, <2>1, <2>2, <3>2
  <2>3. CASE k < m
    <3>1. Above(i, k, m) \in split[c][m]
      BY <1>6, <1>8, <2>3, Ancestors
    <3> QED
      BY <1>6, <2>1, <3>1 DEF Tree
  <2> QED
    BY <1>9, <2>2, <2>3, OrderFacts
<1> HIDE DEF J
<1> QED
  BY <1>4, <1>5, <1>6, <1>7, <1>9

\* The maps of chunk c when block i of order k is freed and merges up to order j.
MapsFreed(c, k, i, j) ==
  /\ avail' \in [Records -> [Orders -> SUBSET Nat]]
  /\ \A m \in Orders : avail'[c][m] =
       IF m \in k .. j - 1 THEN avail[c][m] \ {BuddyOf(Above(i, k, m))}
       ELSE IF m = j THEN avail[c][m] \cup {Above(i, k, m)} ELSE avail[c][m]
  /\ DOMAIN availNum' = Records /\ availNum' = [d \in Records |-> availNum'[d]]
  /\ DOMAIN availNum'[c] = Orders /\ availNum'[c] = [m \in Orders |-> availNum'[c][m]]
  /\ \A m \in Orders : availNum'[c][m] =
       IF m \in k .. j - 1 THEN availNum[c][m] - 1
       ELSE IF m = j THEN availNum[c][m] + 1 ELSE availNum[c][m]
  /\ split' \in [Records -> [Orders -> SUBSET Nat]]
  /\ \A m \in Orders : split'[c][m] =
       IF m \in k + 1 .. j THEN split[c][m] \ {Above(i, k, m)} ELSE split[c][m]
  /\ \A d \in Records \ {c} :
       avail'[d] = avail[d] /\ split'[d] = split[d] /\ availNum'[d] = availNum[d]

LEMMA FreedMaps ==
  ASSUME BuddyInv, NEW c \in Records, NEW k \in Orders, NEW i, NEW j \in Orders, k <= j,
         \A m \in Orders : k <= m => Above(i, k, m) \in BlocksOf(m),
         FreeBlock(c, k, i), j = LastMerge(c, k, i)
  PROVE  MapsFreed(c, k, i, j)
<1>0. /\ avail \in [Records -> [Orders -> SUBSET Nat]]
      /\ split \in [Records -> [Orders -> SUBSET Nat]]
      /\ availNum \in [Records -> [Orders -> Nat]]
  BY DEF BuddyInv, BuddyShape
<1>1. /\ avail' = [avail EXCEPT ![c] = [TakeBuddies(c, k, i, j) EXCEPT ![j] = @ \cup {Above(i, k, j)}]]
      /\ availNum' = [availNum EXCEPT ![c] = [CountBuddies(c, k, j) EXCEPT ![j] = @ + 1]]
      /\ split' = [split EXCEPT ![c] = ClearSplit(c, k, i, j)]
  BY Zenon DEF FreeBlock
<1>2. /\ avail' \in [Records -> [Orders -> SUBSET Nat]]
      /\ \A m \in Orders : avail'[c][m] =
           IF m \in k .. j - 1 THEN avail[c][m] \ {BuddyOf(Above(i, k, m))}
           ELSE IF m = j THEN avail[c][m] \cup {Above(i, k, m)} ELSE avail[c][m]
  <2>1. PICK t : t = TakeBuddies(c, k, i, j)
    OBVIOUS
  <2>2. /\ t \in [Orders -> SUBSET Nat]
        /\ \A m \in Orders : t[m] = IF m \in k .. j - 1
             THEN avail[c][m] \ {BuddyOf(Above(i, k, m))} ELSE avail[c][m]
    BY <1>0, <2>1 DEF TakeBuddies
  <2>3. Above(i, k, j) \in Nat /\ j \notin k .. j - 1
    BY BlocksOfNat, OrderFacts
  <2>4. PICK u : u = [t EXCEPT ![j] = @ \cup {Above(i, k, j)}]
    OBVIOUS
  <2>5. u \in [Orders -> SUBSET Nat] /\ u[j] = t[j] \cup {Above(i, k, j)}
        /\ \A m \in Orders : m # j => u[m] = t[m]
    BY <2>2, <2>3, <2>4
  <2>6. avail' = [avail EXCEPT ![c] = u]
    BY <1>1, <2>1, <2>4, Zenon
  <2> QED
    BY <1>0, <2>2, <2>3, <2>5, <2>6
<1>3. /\ DOMAIN availNum' = Records /\ availNum' = [d \in Records |-> availNum'[d]]
      /\ DOMAIN availNum'[c] = Orders /\ availNum'[c] = [m \in Orders |-> availNum'[c][m]]
      /\ \A m \in Orders : availNum'[c][m] =
           IF m \in k .. j - 1 THEN availNum[c][m] - 1
           ELSE IF m = j THEN availNum[c][m] + 1 ELSE availNum[c][m]
  <2>1. PICK t : t = CountBuddies(c, k, j)
    OBVIOUS
  <2>2. /\ t = [m \in Orders |-> t[m]] /\ DOMAIN t = Orders
        /\ \A m \in Orders : t[m] = IF m \in k .. j - 1 THEN availNum[c][m] - 1
                                    ELSE availNum[c][m]
    BY <2>1 DEF CountBuddies
  <2>3. j \notin k .. j - 1
    BY OrderFacts
  <2>4. PICK u : u = [t EXCEPT ![j] = @ + 1]
    OBVIOUS
  <2>5. /\ u = [m \in Orders |-> u[m]] /\ DOMAIN u = Orders /\ u[j] = t[j] + 1
        /\ \A m \in Orders : m # j => u[m] = t[m]
    BY <2>2, <2>3, <2>4
  <2>6. availNum' = [availNum EXCEPT ![c] = u]
    BY <1>1, <2>1, <2>4, Zenon
  <2> QED
    BY <1>0, <2>2, <2>3, <2>5, <2>6
<1>4. /\ split' \in [Records -> [Orders -> SUBSET Nat]]
      /\ \A m \in Orders : split'[c][m] =
           IF m \in k + 1 .. j THEN split[c][m] \ {Above(i, k, m)} ELSE split[c][m]
  BY <1>0, <1>1 DEF ClearSplit
<1>5. \A d \in Records \ {c} :
        avail'[d] = avail[d] /\ split'[d] = split[d] /\ availNum'[d] = availNum[d]
  BY <1>0, <1>1
<1> QED
  BY <1>2, <1>3, <1>4, <1>5 DEF MapsFreed

LEMMA FreeBlockInv ==
  ASSUME BuddyInv, NEW c \in inUse, NEW k \in Orders, NEW i \in BlocksOf(k), <<c, k, i>> \in live,
         FreeBlock(c, k, i)
  PROVE  BuddyInv'
<1>1. PICK j : j = LastMerge(c, k, i)
  OBVIOUS
<1>2. /\ c \in Records /\ j \in Orders /\ k <= j
      /\ j = TopOrder \/ BuddyOf(Above(i, k, j)) \notin avail[c][j]
      /\ \A m \in Orders : m \in k .. j - 1 => BuddyOf(Above(i, k, m)) \in avail[c][m]
      /\ \A m \in Orders : k <= m => /\ Above(i, k, m) \in BlocksOf(m)
                                     /\ Above(i, k, m) \notin avail[c][m]
      /\ i \in Out(live, c)[k]
  BY <1>1, MergeFacts
<1>3. /\ avail' \in [Records -> [Orders -> SUBSET Nat]]
      /\ \A m \in Orders : avail'[c][m] =
           IF m \in k .. j - 1 THEN avail[c][m] \ {BuddyOf(Above(i, k, m))}
           ELSE IF m = j THEN avail[c][m] \cup {Above(i, k, m)} ELSE avail[c][m]
      /\ DOMAIN availNum' = Records /\ availNum' = [d \in Records |-> availNum'[d]]
      /\ DOMAIN availNum'[c] = Orders /\ availNum'[c] = [m \in Orders |-> availNum'[c][m]]
      /\ \A m \in Orders : availNum'[c][m] =
           IF m \in k .. j - 1 THEN availNum[c][m] - 1
           ELSE IF m = j THEN availNum[c][m] + 1 ELSE availNum[c][m]
      /\ split' \in [Records -> [Orders -> SUBSET Nat]]
      /\ \A m \in Orders : split'[c][m] =
           IF m \in k + 1 .. j THEN split[c][m] \ {Above(i, k, m)} ELSE split[c][m]
      /\ \A d \in Records \ {c} :
           avail'[d] = avail[d] /\ split'[d] = split[d] /\ availNum'[d] = availNum[d]
  <2>1. \A m \in Orders : k <= m => Above(i, k, m) \in BlocksOf(m)
    BY <1>2
  <2>2. c \in Records /\ j \in Orders /\ k <= j
    BY <1>2
  <2>3. MapsFreed(c, k, i, j)
    BY <1>1, <2>1, <2>2, FreedMaps
  <2> QED
    BY <2>3 DEF MapsFreed
<1>4. /\ live' = live \ {<<c, k, i>>}
      /\ groups' = groups /\ inUse' = inUse /\ chunkNum' = chunkNum
  BY DEF FreeBlock
<1>5. /\ Tree(avail[c], split[c], Out(live, c))
      /\ \A m \in Orders : /\ IsFiniteSet(avail[c][m])
                           /\ availNum[c][m] = Cardinality(avail[c][m])
      /\ availNum \in [Records -> [Orders -> Nat]]
  BY <1>2 DEF BuddyInv, BuddyShape, ChunksSound
<1>6. /\ \A m \in Orders : Out(live', c)[m] = IF m = k THEN Out(live, c)[m] \ {i}
                                              ELSE Out(live, c)[m]
      /\ \A d : d # c => Out(live', d) = Out(live, d)
  <2>1. TakesBack(live', live, c, k, i)
    BY <1>4 DEF TakesBack
  <2> QED
    BY <2>1, OutRemoved
<1>7. Tree(avail'[c], split'[c], Out(live', c))
  <2>1. MergedUp(avail[c], split[c], Out(live, c), avail'[c], split'[c], Out(live', c), j, k, i)
    BY <1>2, <1>3, <1>6 DEF MergedUp
  <2> QED
    BY <1>2, <1>5, <2>1, FreeTree
<1>8. ASSUME NEW m \in Orders
      PROVE  /\ IsFiniteSet(avail'[c][m]) /\ availNum'[c][m] = Cardinality(avail'[c][m])
             /\ availNum'[c][m] \in Nat
             /\ m \in k .. j - 1 => avail[c][m] # {} /\ (availNum[c][m] = 1 <=> avail'[c][m] = {})
             /\ m = j => avail'[c][m] # {} /\ (availNum[c][m] = 0 <=> avail[c][m] = {})
  <2>0. IsFiniteSet(avail[c][m]) /\ availNum[c][m] = Cardinality(avail[c][m])
    BY <1>5
  <2>1. CASE m \in k .. j - 1
    <3>1. m # j
      BY <1>2, <2>1, OrderFacts
    <3>2. /\ BuddyOf(Above(i, k, m)) \in avail[c][m]
          /\ avail'[c][m] = avail[c][m] \ {BuddyOf(Above(i, k, m))}
          /\ availNum'[c][m] = availNum[c][m] - 1
      BY <1>2, <1>3, <2>1
    <3>3. Removes(avail'[c][m], avail[c][m], BuddyOf(Above(i, k, m)))
      BY <3>2 DEF Removes
    <3> QED
      BY <2>0, <3>1, <3>2, <3>3, CountRemoved
  <2>2. CASE m = j
    <3>1. m \notin k .. j - 1 /\ Above(i, k, m) \notin avail[c][m]
      BY <1>2, <2>2, OrderFacts
    <3>2. avail'[c][m] = avail[c][m] \cup {Above(i, k, m)} /\ availNum'[c][m] = availNum[c][m] + 1
      BY <1>3, <2>2, <3>1
    <3>3. Adds(avail'[c][m], avail[c][m], Above(i, k, m))
      BY <3>2 DEF Adds
    <3>4. /\ IsFiniteSet(avail'[c][m]) /\ Cardinality(avail'[c][m]) = Cardinality(avail[c][m]) + 1
          /\ avail'[c][m] # {} /\ Cardinality(avail[c][m]) \in Nat
          /\ (Cardinality(avail[c][m]) = 0 <=> avail[c][m] = {})
      BY <2>0, <3>1, <3>3, CountAdded
    <3> QED
      BY <2>0, <3>1, <3>2, <3>4
  <2>3. CASE m # j /\ m \notin k .. j - 1
    <3>1. availNum[c][m] \in Nat
      BY <1>2, <1>5
    <3>2. avail'[c][m] = avail[c][m] /\ availNum'[c][m] = availNum[c][m]
      BY <1>3, <2>3
    <3> QED
      BY <2>0, <2>3, <3>1, <3>2
  <2> QED
    BY <2>1, <2>2, <2>3
<1>9. availNum' \in [Records -> [Orders -> Nat]]
  <2>1. availNum'[c] \in [Orders -> Nat]
    BY <1>3, <1>8
  <2> QED
    BY <1>3, <1>5, <2>1
<1>10. ChunksSound'
  <2>1. /\ inUse' \subseteq Records /\ c \in inUse'
        /\ \A d \in Records \ {c} : d \in inUse' <=> d \in inUse
    BY <1>4 DEF BuddyInv, BuddyShape, Provided
  <2>2. BuddyShape /\ ChunksSound
    BY DEF BuddyInv
  <2>3. \A d \in Records \ {c} :
           /\ avail'[d] = avail[d] /\ split'[d] = split[d] /\ availNum'[d] = availNum[d]
           /\ d \in inUse' <=> d \in inUse
           /\ Out(live', d) = Out(live, d)
    BY <1>3, <1>6, <2>1
  <2>4. \A m \in Orders : IsFiniteSet(avail'[c][m]) /\ availNum'[c][m] = Cardinality(avail'[c][m])
    BY <1>8
  <2> QED
    BY <1>2, <1>7, <2>1, <2>2, <2>3, <2>4, ChunkChanges
<1>11. BuddyShape'
  BY <1>3, <1>4, <1>9 DEF BuddyInv, BuddyShape
<1>12. /\ DOMAIN list' = Orders \cup {Unused}
       /\ list'[Unused] = list[Unused]
       /\ \A m \in Orders : list'[m] =
            IF m \in k .. j - 1 /\ availNum[c][m] = 1 THEN Unlink(list[m], c)
            ELSE IF m = j /\ availNum[c][m] = 0 THEN Push(list[m], c) ELSE list[m]
  <2>1. DOMAIN list = Orders \cup {Unused} /\ Unused \notin Orders
    BY RecordsFacts DEF BuddyInv, RecordsListed
  <2>2. Unused \notin k .. j - 1 /\ j # Unused /\ j \notin k .. j - 1
    BY <1>2, OrderFacts DEF Unused, Orders
  <2>3. PICK t : t = UnlistBuddies(c, k, j)
    OBVIOUS
  <2>4. list' = [t EXCEPT ![j] = IF availNum[c][j] = 0 THEN Push(@, c) ELSE @]
    BY <1>1, <2>3, Zenon DEF FreeBlock
  <2>5. /\ DOMAIN t = Orders \cup {Unused} /\ t[Unused] = list[Unused]
        /\ \A m \in Orders : t[m] = IF m \in k .. j - 1 /\ availNum[c][m] = 1
                                    THEN Unlink(list[m], c) ELSE list[m]
    BY <2>1, <2>2, <2>3 DEF UnlistBuddies
  <2> QED
    BY <1>2, <2>1, <2>2, <2>4, <2>5
<1>13. \A m \in Orders : IsList(list'[m], Records) /\ Holds(list'[m], Listed(avail', m))
  <2>1. ASSUME NEW m \in Orders
        PROVE  \/ list'[m] = list[m] /\ (avail'[c][m] = {} <=> avail[c][m] = {})
               \/ list'[m] = Push(list[m], c) /\ avail[c][m] = {} /\ avail'[c][m] # {}
               \/ list'[m] = Unlink(list[m], c) /\ avail[c][m] # {} /\ avail'[c][m] = {}
               \/ /\ list'[m] = PopHead(list[m]) /\ c = list[m].head
                  /\ avail[c][m] # {} /\ avail'[c][m] = {}
    <3>1. CASE m \in k .. j - 1
      <4>1. m # j
        BY <1>2, <3>1, OrderFacts
      <4> QED
        BY <1>8, <1>12, <3>1, <4>1
    <3>2. CASE m = j
      <4>1. m \notin k .. j - 1
        BY <1>2, <3>2, OrderFacts
      <4> QED
        BY <1>8, <1>12, <3>2, <4>1
    <3>3. CASE m # j /\ m \notin k .. j - 1
      BY <1>3, <1>12, <3>3
    <3> QED
      BY <3>1, <3>2, <3>3
  <2>2. RecordsListed /\ avail \in [Records -> [Orders -> SUBSET Nat]] /\ c \in Records
    BY <1>2 DEF BuddyInv, BuddyShape
  <2>3. \A d \in Records \ {c} : avail'[d] = avail[d]
    BY <1>3
  <2> QED
    BY <2>1, <2>2, <2>3, ListsFollow
<1>14. RecordsListed'
  BY <1>4, <1>12, <1>13 DEF BuddyInv, RecordsListed
\* a chunk that is kept although nothing in it is handed out was to be released
<1>15. chunkNum > Keep => \E b \in live' : b[1] = c
  <2>1. SUFFICES ASSUME chunkNum > Keep, \A b \in live' : b[1] # c PROVE FALSE
    OBVIOUS
  <2>2. \A m \in Orders : Out(live', c)[m] = {}
    BY <2>1 DEF Out
  <2>3. avail'[c][TopOrder] = {0, 1}
    BY <1>7, <2>2, NothingHandedOut
  <2>4. CASE j = TopOrder
    <3>1. Above(i, k, TopOrder) \in BlocksOf(TopOrder) /\ TopOrder \in Orders
      BY <1>2, <2>4
    <3>2. /\ BuddyOf(Above(i, k, TopOrder)) \in BlocksOf(TopOrder)
          /\ BuddyOf(Above(i, k, TopOrder)) # Above(i, k, TopOrder)
      BY <3>1, BuddyBlock
    <3>3. avail'[c][TopOrder] = avail[c][TopOrder] \cup {Above(i, k, TopOrder)}
      <4>1. TopOrder \notin k .. j - 1
        BY <2>4, OrderFacts
      <4> QED
        BY <1>3, <2>4, <3>1, <4>1
    <3>4. BuddyOf(Above(i, k, TopOrder)) \in avail[c][TopOrder]
      BY <2>3, <3>2, <3>3, BlocksOfTop
    <3> QED
      BY <1>1, <2>1, <2>4, <3>4 DEF FreeBlock, ChunkGoes
  <2>5. CASE j # TopOrder
    <3>1. TopOrder \in Orders /\ TopOrder \notin k .. j - 1
      BY <1>2, OrderFacts
    <3>2. avail[c][TopOrder] = {0, 1}
      BY <1>3, <2>3, <2>5, <3>1
    <3>3. Out(live, c)[k] = {}
      BY <1>5, <3>2, WhollyFree
    <3> QED
      BY <1>2, <3>3
  <2> QED
    BY <2>4, <2>5
<1>16. NoIdleChunk'
  <2>1. \A d \in inUse, b \in live : b[1] = d /\ d # c => b \in live'
    BY <1>4
  <2>2. chunkNum' > Keep => \A d \in inUse' : \E b \in live' : b[1] = d
    BY <1>4, <1>15, <2>1 DEF BuddyInv, NoIdleChunk
  <2> QED
    BY <1>4, <2>2 DEF BuddyInv, NoIdleChunk
<1> QED
  BY <1>10, <1>11, <1>14, <1>16 DEF BuddyInv

\* A chunk goes when what is freed is the last block handed out: below the top each
\* bitmap has the one buddy that merges, or nothing.
LEMMA GoesEmpty ==
  ASSUME BuddyInv, NEW c \in inUse, NEW k \in Orders, NEW i \in BlocksOf(k), <<c, k, i>> \in live,
         ChunkGoes(c, k, i)
  PROVE  /\ LastMerge(c, k, i) = TopOrder /\ c \in Records
         /\ \A m \in Orders : m \in k .. TopOrder => avail[c][m] # {}
         /\ \A m \in Orders : m \in k .. TopOrder - 1 => availNum[c][m] = 1
         /\ \A m \in Orders : m \notin k .. TopOrder => avail[c][m] = {}
         /\ \A b \in live : b[1] = c => b = <<c, k, i>>
<1>1. PICK j : j = LastMerge(c, k, i)
  OBVIOUS
<1>2. /\ c \in Records /\ j \in Orders /\ k <= j
      /\ \A m \in Orders : m \in k .. j - 1 => BuddyOf(Above(i, k, m)) \in avail[c][m]
      /\ \A m \in Orders : k <= m => /\ Above(i, k, m) \in BlocksOf(m)
                                     /\ Above(i, k, m) \notin avail[c][m]
      /\ i \in Out(live, c)[k]
  BY <1>1, MergeFacts
<1>3. j = TopOrder /\ BuddyOf(Above(i, k, TopOrder)) \in avail[c][TopOrder]
  BY <1>1 DEF ChunkGoes
<1>4. Tree(avail[c], split[c], Out(live, c))
  BY DEF BuddyInv, ChunksSound
<1>5. PICK a : a = [m \in Orders |->
                      IF m \in k .. j - 1 THEN avail[c][m] \ {BuddyOf(Above(i, k, m))}
                      ELSE IF m = j THEN avail[c][m] \cup {Above(i, k, m)} ELSE avail[c][m]]
  OBVIOUS
<1>6. PICK s : s = [m \in Orders |->
                      IF m \in k + 1 .. j THEN split[c][m] \ {Above(i, k, m)} ELSE split[c][m]]
  OBVIOUS
<1>7. PICK h : h = [m \in Orders |-> IF m = k THEN Out(live, c)[m] \ {i} ELSE Out(live, c)[m]]
  OBVIOUS
<1>8. Tree(a, s, h)
  <2>1. MergedUp(avail[c], split[c], Out(live, c), a, s, h, j, k, i)
    BY <1>2, <1>3, <1>5, <1>6, <1>7 DEF MergedUp
  <2> QED
    BY <1>2, <1>4, <2>1, FreeTree
<1>9. a[TopOrder] = {0, 1}
  <2>1. TopOrder \in Orders /\ TopOrder \notin k .. j - 1 /\ k <= TopOrder
    BY <1>2, <1>3, OrderFacts
  <2>2. Above(i, k, TopOrder) \in BlocksOf(TopOrder)
    BY <1>2, <2>1
  <2>3. /\ BuddyOf(Above(i, k, TopOrder)) \in BlocksOf(TopOrder)
        /\ BuddyOf(Above(i, k, TopOrder)) # Above(i, k, TopOrder)
    BY <2>1, <2>2, BuddyBlock
  <2>4. avail[c][TopOrder] \subseteq BlocksOf(TopOrder)
    BY <1>4, <2>1 DEF Tree
  <2>5. a[TopOrder] = avail[c][TopOrder] \cup {Above(i, k, TopOrder)}
    BY <1>3, <1>5, <2>1
  <2> QED
    BY <1>3, <2>2, <2>3, <2>4, <2>5, BlocksOfTop
<1>10. \A m \in Orders : h[m] = {} /\ (m # TopOrder => a[m] = {})
  BY <1>8, <1>9, WhollyFree
<1>11. ASSUME NEW m \in Orders, m \in k .. TopOrder - 1
       PROVE  avail[c][m] # {} /\ availNum[c][m] = 1
  <2>1. m # TopOrder
    BY <1>11, OrderFacts
  <2>2. avail[c][m] \ {BuddyOf(Above(i, k, m))} = {}
    BY <1>3, <1>5, <1>10, <1>11, <2>1
  <2>3. BuddyOf(Above(i, k, m)) \in avail[c][m]
    BY <1>2, <1>3, <1>11
  <2>4. avail[c][m] = {BuddyOf(Above(i, k, m))}
    BY <2>2, <2>3
  <2>5. availNum[c][m] = Cardinality(avail[c][m])
    BY <1>2 DEF BuddyInv, ChunksSound
  <2> QED
    BY <2>4, <2>5, FS_Singleton
<1>12. \A m \in Orders : m \notin k .. TopOrder => avail[c][m] = {}
  <2>1. SUFFICES ASSUME NEW m \in Orders, m \notin k .. TopOrder PROVE avail[c][m] = {}
    OBVIOUS
  <2>2. m # TopOrder /\ m \notin k .. j - 1 /\ m # j
    BY <1>2, <1>3, <2>1, OrderFacts
  <2> QED
    BY <1>5, <1>10, <2>2
<1>13. \A m \in Orders : m \in k .. TopOrder => avail[c][m] # {}
  <2>1. \A m \in Orders : m \in k .. TopOrder => m \in k .. TopOrder - 1 \/ m = TopOrder
    BY OrderFacts
  <2> QED
    BY <1>3, <1>11, <2>1
<1>14. ASSUME NEW b \in live, b[1] = c
       PROVE  b = <<c, k, i>>
  <2>1. PICK m \in Orders : \E x \in BlocksOf(m) : b = <<c, m, x>>
    BY <1>14 DEF BuddyInv, BuddyShape
  <2>2. PICK x \in BlocksOf(m) : b = <<c, m, x>>
    BY <2>1
  <2>3. x \in Out(live, c)[m]
    BY <2>2 DEF Out
  <2>4. h[m] = {} /\ h[m] = IF m = k THEN Out(live, c)[m] \ {i} ELSE Out(live, c)[m]
    BY <1>7, <1>10
  <2> QED
    BY <2>2, <2>3, <2>4
<1> QED
  BY <1>1, <1>2, <1>3, <1>11, <1>12, <1>13, <1>14

LEMMA ReleaseChunkInv ==
  ASSUME BuddyInv, NEW c \in inUse, NEW k \in Orders, NEW i \in BlocksOf(k), <<c, k, i>> \in live,
         ReleaseChunk(c, k, i)
  PROVE  BuddyInv'
<1>1. /\ c \in Records
      /\ \A m \in Orders : m \in k .. TopOrder => avail[c][m] # {}
      /\ \A m \in Orders : m \in k .. TopOrder - 1 => availNum[c][m] = 1
      /\ \A m \in Orders : m \notin k .. TopOrder => avail[c][m] = {}
      /\ \A b \in live : b[1] = c => b = <<c, k, i>>
  BY GoesEmpty DEF ReleaseChunk
<1>2. /\ live' = live \ {<<c, k, i>>} /\ groups' = groups
      /\ inUse' = inUse \ {c} /\ chunkNum' = chunkNum - 1
  BY DEF ReleaseChunk
<1>3. /\ avail \in [Records -> [Orders -> SUBSET Nat]]
      /\ split \in [Records -> [Orders -> SUBSET Nat]]
      /\ availNum \in [Records -> [Orders -> Nat]]
      /\ c \in Provided(groups)
  BY DEF BuddyInv, BuddyShape
<1>4. /\ avail' \in [Records -> [Orders -> SUBSET Nat]]
      /\ split' \in [Records -> [Orders -> SUBSET Nat]]
      /\ availNum' \in [Records -> [Orders -> Nat]]
      /\ \A m \in Orders : avail'[c][m] = {} /\ split'[c][m] = {} /\ availNum'[c][m] = 0
      /\ \A d \in Records \ {c} :
           avail'[d] = avail[d] /\ split'[d] = split[d] /\ availNum'[d] = availNum[d]
  BY <1>1, <1>3 DEF ReleaseChunk, NoBlocks
<1>5. \A d : d # c => Out(live', d) = Out(live, d)
  <2>1. TakesBack(live', live, c, k, i)
    BY <1>2 DEF TakesBack
  <2>2. /\ \A m \in Orders : Out(live', c)[m] = IF m = k THEN Out(live, c)[m] \ {i}
                                                ELSE Out(live, c)[m]
        /\ \A d : d # c => Out(live', d) = Out(live, d)
    BY <2>1, OutRemoved
  <2> QED
    BY <2>2
<1>6. ChunksSound'
  <2>1. /\ inUse' \subseteq Records /\ c \notin inUse'
        /\ \A d \in Records \ {c} : d \in inUse' <=> d \in inUse
    BY <1>2 DEF BuddyInv, BuddyShape, Provided
  <2>2. BuddyShape /\ ChunksSound
    BY DEF BuddyInv
  <2>3. \A d \in Records \ {c} :
           /\ avail'[d] = avail[d] /\ split'[d] = split[d] /\ availNum'[d] = availNum[d]
           /\ d \in inUse' <=> d \in inUse
           /\ Out(live', d) = Out(live, d)
    BY <1>4, <1>5, <2>1
  <2>4. \A m \in Orders : IsFiniteSet(avail'[c][m]) /\ availNum'[c][m] = Cardinality(avail'[c][m])
    BY <1>4, FS_EmptySet
  <2> QED
    BY <1>1, <1>4, <2>1, <2>2, <2>3, <2>4, ChunkChanges
<1>7. BuddyShape'
  <2>1. BuddyShape
    BY DEF BuddyInv
  <2>2. inUse' \subseteq Provided(groups)' /\ groups' \in 0 .. MaxGroups
    BY <1>2, <2>1 DEF BuddyShape, Provided
  <2>3. ASSUME NEW b \in live'
        PROVE  \E d \in inUse' : \E m \in Orders : \E y \in BlocksOf(m) : b = <<d, m, y>>
    <3>1. b \in live /\ b[1] # c
      BY <1>1, <1>2
    <3>2. PICK d \in inUse : \E m \in Orders : \E y \in BlocksOf(m) : b = <<d, m, y>>
      BY <2>1, <3>1 DEF BuddyShape
    <3>3. d # c
      BY <3>1, <3>2
    <3> QED
      BY <1>2, <3>2, <3>3
  <2> QED
    BY <1>4, <2>2, <2>3, Zenon DEF BuddyShape
<1>8. PICK t : t = UnlistBuddies(c, k, TopOrder)
  OBVIOUS
<1>9. PICK u : u = [t EXCEPT ![TopOrder] = Unlink(@, c)]
  OBVIOUS
<1>10. list' = Recycle(u, c)
  BY <1>8, <1>9, Zenon DEF ReleaseChunk
<1>11. /\ DOMAIN u = Orders \cup {Unused} /\ u[Unused] = list[Unused]
       /\ \A m \in Orders : u[m] = IF m \in k .. TopOrder THEN Unlink(list[m], c) ELSE list[m]
  <2>1. DOMAIN list = Orders \cup {Unused} /\ Unused \notin Orders /\ TopOrder \in Orders
    BY RecordsFacts, OrderFacts DEF BuddyInv, RecordsListed
  <2>2. Unused \notin k .. TopOrder - 1 /\ TopOrder # Unused /\ TopOrder \notin k .. TopOrder - 1
    BY OrderFacts DEF Unused, Orders
  <2>3. \A m \in Orders : m \in k .. TopOrder <=> m \in k .. TopOrder - 1 \/ m = TopOrder
    BY OrderFacts
  <2>4. /\ DOMAIN t = Orders \cup {Unused} /\ t[Unused] = list[Unused]
        /\ \A m \in Orders : t[m] = IF m \in k .. TopOrder - 1 THEN Unlink(list[m], c) ELSE list[m]
    BY <1>1, <1>8, <2>1, <2>2 DEF UnlistBuddies
  <2> QED
    BY <1>9, <2>1, <2>2, <2>3, <2>4
<1>12. \A m \in Orders : IsList(u[m], Records) /\ Holds(u[m], Listed(avail', m))
  <2>1. ASSUME NEW m \in Orders
        PROVE  \/ u[m] = list[m] /\ (avail'[c][m] = {} <=> avail[c][m] = {})
               \/ u[m] = Push(list[m], c) /\ avail[c][m] = {} /\ avail'[c][m] # {}
               \/ u[m] = Unlink(list[m], c) /\ avail[c][m] # {} /\ avail'[c][m] = {}
               \/ /\ u[m] = PopHead(list[m]) /\ c = list[m].head
                  /\ avail[c][m] # {} /\ avail'[c][m] = {}
    BY <1>1, <1>4, <1>11
  <2>2. RecordsListed /\ avail \in [Records -> [Orders -> SUBSET Nat]] /\ c \in Records
    BY <1>1, <1>3 DEF BuddyInv
  <2>3. \A d \in Records \ {c} : avail'[d] = avail[d]
    BY <1>4
  <2> QED
    BY <2>1, <2>2, <2>3, ListsFollow
<1> DEFINE S == Provided(groups) \ inUse
<1>13. /\ S \in SUBSET Records /\ c \notin S /\ S \cup {c} = Provided(groups') \ inUse'
       /\ IsList(u[Unused], Records) /\ Holds(u[Unused], S)
  BY <1>2, <1>3, <1>11 DEF BuddyInv, RecordsListed, Provided
<1> HIDE DEF S
<1>14. /\ DOMAIN Recycle(u, c) = Orders \cup {Unused}
       /\ \A m \in Orders : /\ IsList(Recycle(u, c)[m], Records)
                            /\ Holds(Recycle(u, c)[m], Listed(avail', m))
       /\ IsList(Recycle(u, c)[Unused], Records)
       /\ Holds(Recycle(u, c)[Unused], S \cup {c})
  <2>1. \A m \in Orders : /\ IsList(u[m], Records) /\ Holds(u[m], Listed(avail', m))
                          /\ avail'[c][m] = {}
    BY <1>4, <1>12
  <2> QED
    BY <1>1, <1>11, <1>13, <2>1, RecycleHolds
<1>15. RecordsListed'
  BY <1>10, <1>13, <1>14 DEF RecordsListed
<1>16. NoIdleChunk'
  <2>1. IsFiniteSet(inUse) /\ chunkNum = Cardinality(inUse)
    BY FS_Subset, RecordsFacts DEF BuddyInv, BuddyShape, NoIdleChunk, Provided
  <2>2. Removes(inUse', inUse, c)
    BY <1>2 DEF Removes
  <2>3. chunkNum' = Cardinality(inUse') /\ chunkNum \in Nat
    BY <1>2, <2>1, <2>2, CountRemoved
  <2>4. chunkNum' > Keep => chunkNum > Keep
    BY <1>2, <2>3, BuddyAssumption
  <2>5. \A d \in inUse', b \in live : b[1] = d => b \in live'
    BY <1>2
  <2>6. chunkNum' > Keep => \A d \in inUse' : \E b \in live' : b[1] = d
    BY <1>2, <2>4, <2>5 DEF BuddyInv, NoIdleChunk
  <2> QED
    BY <2>3, <2>6 DEF NoIdleChunk
<1> QED
  BY <1>6, <1>7, <1>15, <1>16 DEF BuddyInv

(***************************************************************************)
(* The invariant holds                                                     *)
(***************************************************************************)

LEMMA EmptyHolds ==
  IsList(EmptyList(Records), Records) /\ Holds(EmptyList(Records), {})
<1>1. Acyclic(EmptyList(Records), {})
  BY DEF Acyclic
<1> QED
  BY <1>1 DEF EmptyList, IsList, Holds, Chained

LEMMA InitBuddyInv == BuddyInit => BuddyInv
<1> SUFFICES ASSUME BuddyInit PROVE BuddyInv
  OBVIOUS
<1>1. Provided(groups) = {}
  <2>1. groups = 0 /\ 0 * PerGroup = 0
    BY BuddyAssumption DEF BuddyInit
  <2>2. \A c \in Records : ~ (c < 0)
    BY RecordsFacts
  <2> QED
    BY <2>1, <2>2 DEF Provided
<1>2. \A m \in Orders : Listed(avail, m) = {}
  BY DEF BuddyInit, NoBlocks, Listed
<1>3. BuddyShape
  BY <1>1, BuddyAssumption DEF BuddyInit, BuddyShape, NoBlocks
<1>4. ChunksSound
  BY FS_EmptySet DEF BuddyInit, ChunksSound, NoBlocks
<1>5. RecordsListed
  <2>1. inUse = {} /\ Provided(groups) \ inUse = {}
    BY <1>1 DEF BuddyInit
  <2> QED
    BY <1>2, <2>1, EmptyHolds DEF BuddyInit, RecordsListed
<1>6. NoIdleChunk
  BY FS_EmptySet DEF BuddyInit, NoIdleChunk
<1> QED
  BY <1>3, <1>4, <1>5, <1>6 DEF BuddyInv

\* The blocks that are handed out are blocks of chunks in use.
LEMMA LiveBlock ==
  ASSUME BuddyInv, NEW b \in live
  PROVE  \E c \in inUse : \E k \in Orders : \E i \in BlocksOf(k) :
           b = <<c, k, i>> /\ b[1] = c /\ b[2] = k /\ b[3] = i
<1>1. PICK c \in inUse : \E k \in Orders : \E i \in BlocksOf(k) : b = <<c, k, i>>
  BY DEF BuddyInv, BuddyShape
<1> QED
  BY <1>1

LEMMA NextBuddyInv == BuddyInv /\ [BuddyNext]_buddyVars => BuddyInv'
<1> SUFFICES ASSUME BuddyInv, [BuddyNext]_buddyVars PROVE BuddyInv'
  OBVIOUS
<1>1. CASE UNCHANGED buddyVars
  BY <1>1 DEF buddyVars, BuddyInv, BuddyShape, ChunksSound, RecordsListed, NoIdleChunk
<1>2. ASSUME NEW k \in Orders, Alloc(k)
      PROVE  BuddyInv'
  <2>1. CASE AllocBlock(k)
    BY <2>1, AllocBlockInv
  <2>2. CASE NewChunk(k)
    BY <2>2, NewChunkInv
  <2>3. CASE NoRecord(k)
    BY <1>1, <2>3 DEF NoRecord
  <2>4. CASE NoChunk(k)
    BY <2>4, NoChunkInv
  <2> QED
    BY <1>2, <2>1, <2>2, <2>3, <2>4 DEF Alloc
<1>3. ASSUME NEW b \in live, Free(b)
      PROVE  BuddyInv'
  <2>1. PICK c \in inUse : \E k \in Orders : \E i \in BlocksOf(k) :
           b = <<c, k, i>> /\ b[1] = c /\ b[2] = k /\ b[3] = i
    BY <1>3, LiveBlock
  <2>2. PICK k \in Orders : \E i \in BlocksOf(k) :
           b = <<c, k, i>> /\ b[1] = c /\ b[2] = k /\ b[3] = i
    BY <2>1
  <2>3. PICK i \in BlocksOf(k) : b = <<c, k, i>> /\ b[1] = c /\ b[2] = k /\ b[3] = i
    BY <2>2
  <2>4. <<c, k, i>> \in live /\ (FreeBlock(c, k, i) \/ ReleaseChunk(c, k, i))
    BY <1>3, <2>3 DEF Free
  <2> QED
    BY <2>4, FreeBlockInv, ReleaseChunkInv
<1> QED
  BY <1>1, <1>2, <1>3 DEF BuddyNext

(***************************************************************************)
(* What follows from the invariant                                         *)
(***************************************************************************)

LEMMA BuddyTypeFromInv == BuddyInv => BuddyTypeOK
<1> SUFFICES ASSUME BuddyInv PROVE BuddyTypeOK
  OBVIOUS
<1>1. ASSUME NEW c \in Records, NEW k \in Orders
      PROVE  /\ avail[c][k] \subseteq BlocksOf(k)
             /\ split[c][k] \subseteq BlocksOf(k)
             /\ availNum[c][k] \in 0 .. Cardinality(BlocksOf(k))
  <2>1. avail[c][k] \subseteq BlocksOf(k) /\ split[c][k] \subseteq BlocksOf(k)
    BY DEF BuddyInv, ChunksSound, Tree
  <2>2. availNum[c][k] = Cardinality(avail[c][k])
    BY DEF BuddyInv, ChunksSound
  <2>3. IsFiniteSet(BlocksOf(k))
    BY BlocksOfNat
  <2>4. IsFiniteSet(avail[c][k]) /\ Cardinality(avail[c][k]) <= Cardinality(BlocksOf(k))
    BY <2>1, <2>3, FS_Subset
  <2>5. Cardinality(avail[c][k]) \in Nat /\ Cardinality(BlocksOf(k)) \in Nat
    BY <2>3, <2>4, FS_CardinalityType
  <2> QED
    BY <2>1, <2>2, <2>4, <2>5
<1>2. ASSUME NEW k \in Orders \cup {Unused}
      PROVE  /\ list[k].head \in Records \cup {NULL}
             /\ \A c \in Records : {list[k].next[c], list[k].prev[c]} \subseteq Records \cup {NULL}
  BY DEF BuddyInv, RecordsListed, IsList
<1>3. chunkNum \in 0 .. Cardinality(Records)
  <2>1. inUse \subseteq Records /\ IsFiniteSet(Records) /\ chunkNum = Cardinality(inUse)
    BY RecordsFacts DEF BuddyInv, BuddyShape, NoIdleChunk, Provided
  <2>2. IsFiniteSet(inUse) /\ Cardinality(inUse) <= Cardinality(Records)
    BY <2>1, FS_Subset
  <2>3. Cardinality(inUse) \in Nat /\ Cardinality(Records) \in Nat
    BY <2>1, <2>2, FS_CardinalityType
  <2> QED
    BY <2>1, <2>2, <2>3
<1>4. ASSUME NEW b \in live
      PROVE  b[1] \in Records /\ b[2] \in Orders /\ b[3] \in BlocksOf(b[2])
  <2>1. inUse \subseteq Records
    BY DEF BuddyInv, BuddyShape, Provided
  <2> QED
    BY <2>1, LiveBlock
<1>5. groups \in 0 .. MaxGroups /\ inUse \subseteq Records
  BY DEF BuddyInv, BuddyShape, Provided
<1> QED
  BY <1>1, <1>2, <1>3, <1>4, <1>5 DEF BuddyTypeOK

LEMMA ListsFromInv == BuddyInv => ChunkListsSound
<1> SUFFICES ASSUME BuddyInv PROVE ChunkListsSound
  OBVIOUS
<1>1. \A k \in Orders : Holds(list[k], {c \in Records : avail[c][k] # {}})
  BY Zenon DEF BuddyInv, RecordsListed, Listed
<1>2. \A c \in Records, k \in Orders : availNum[c][k] = Cardinality(avail[c][k])
  BY DEF BuddyInv, ChunksSound
<1>3. Holds(list[Unused], {c \in Records : c < groups * PerGroup} \ inUse)
  BY Zenon DEF BuddyInv, RecordsListed, Provided
<1> QED
  BY <1>1, <1>2, <1>3 DEF ChunkListsSound

\* A block is handed out if it is there, but neither available nor split.
LEMMA SplitFromInv == BuddyInv => SplitTellsAllocations
<1> SUFFICES ASSUME BuddyInv, NEW c \in inUse, NEW k \in Orders, NEW i \in BlocksOf(k)
             PROVE  <<c, k, i>> \in live <=>
                      /\ i \notin avail[c][k]
                      /\ i \notin split[c][k]
                      /\ k = TopOrder \/ i \div 2 \in split[c][k + 1]
  BY DEF SplitTellsAllocations
<1>1. Tree(avail[c], split[c], Out(live, c))
  BY DEF BuddyInv, ChunksSound
<1>2. i \in Out(live, c)[k] <=> <<c, k, i>> \in live
  BY DEF Out
<1>3. /\ There(split[c], k, i) <=> i \in avail[c][k] \/ i \in split[c][k] \/ i \in Out(live, c)[k]
      /\ ~ (i \in avail[c][k] /\ i \in Out(live, c)[k])
      /\ ~ (i \in split[c][k] /\ i \in Out(live, c)[k])
  BY <1>1 DEF Tree
<1> QED
  BY <1>2, <1>3 DEF There

\* The page of block 0 is in the block of order k with its number above it.
LEMMA PageBlock ==
  /\ Pages = BlocksOf(0)
  /\ \A p \in Nat : \A k \in Orders : Above(p, 0, k) = p \div 2 ^ k
<1>1. TopOrder + 1 - 0 = TopOrder + 1 /\ \A k \in Orders : k - 0 = k
  BY BuddyAssumption DEF Orders
<1>2. Pages = BlocksOf(0)
  BY <1>1, Zenon DEF Pages, BlocksOf
<1> QED
  BY <1>1, <1>2 DEF Above

LEMMA PagesFromInv == BuddyInv => PagesPartitioned
<1> SUFFICES ASSUME BuddyInv, NEW c \in inUse, NEW p \in Pages
             PROVE  Cardinality({k \in Orders :
                      LET i == p \div 2 ^ k IN i \in avail[c][k] \/ <<c, k, i>> \in live}) = 1
  BY DEF PagesPartitioned
<1> DEFINE S == {k \in Orders :
                   LET i == p \div 2 ^ k IN i \in avail[c][k] \/ <<c, k, i>> \in live}
<1>1. Tree(avail[c], split[c], Out(live, c))
  BY DEF BuddyInv, ChunksSound
<1>2. p \in BlocksOf(0) /\ p \in Nat /\ 0 \in Orders
  BY PageBlock, OrderFacts, BlocksOfNat
<1>3. PICK n \in Orders : \A m \in Orders :
        Above(p, 0, m) \in avail[c][m] \/ Above(p, 0, m) \in Out(live, c)[m] <=> m = n
  BY <1>1, <1>2, PageOnce
<1>4. ASSUME NEW m \in Orders
      PROVE  m \in S <=> m = n
  <2>1. PICK i : i = Above(p, 0, m) /\ i = p \div 2 ^ m
    BY <1>2, PageBlock
  <2>2. i \in BlocksOf(m)
    BY <1>2, <2>1, OrderFacts, AboveBlock
  <2>3. i \in Out(live, c)[m] <=> <<c, m, i>> \in live
    BY <2>2 DEF Out
  <2>4. m \in S <=> i \in avail[c][m] \/ <<c, m, i>> \in live
    BY <2>1
  <2> QED
    BY <1>3, <2>1, <2>3, <2>4
<1>5. S = {n}
  BY <1>4
<1> QED
  BY <1>5, FS_Singleton

\* Two blocks, one of which is above the other, have a page in common.
LEMMA CommonPage ==
  ASSUME NEW m \in Orders, NEW k \in Orders, m <= k, NEW y \in BlocksOf(m)
  PROVE  \E p \in Pages : Covers(m, y, p) /\ Covers(k, Above(y, m, k), p)
<1>1. 0 \in Orders /\ 0 <= m /\ m \in Nat /\ k \in Nat
  BY OrderFacts
<1>2. PICK p : p = LeftIn(y, m, 0)
  OBVIOUS
<1>3. p \in BlocksOf(0) /\ Above(p, 0, m) = y
  BY <1>1, <1>2, LeftBlock
<1>4. p \in Nat
  BY <1>1, <1>3, BlocksOfNat
<1>5. Above(Above(p, 0, m), m, k) = Above(p, 0, k)
  BY <1>1, <1>4, AboveAbove
<1>6. p \in Pages /\ p \div 2 ^ m = y /\ p \div 2 ^ k = Above(y, m, k)
  BY <1>3, <1>4, <1>5, PageBlock
<1> QED
  BY <1>6 DEF Covers

LEMMA SpaceFromInv == BuddyInv => FindsSpace
<1> SUFFICES ASSUME BuddyInv, NEW k \in Orders, Fits(k) = {}, NEW c \in inUse, NEW i \in BlocksOf(k)
             PROVE  \E b \in live :
                      b[1] = c /\ \E p \in Pages : Covers(k, i, p) /\ Covers(b[2], b[3], p)
  BY DEF FindsSpace
<1>1. PICK m \in Orders : \E y \in BlocksOf(m) :
        /\ <<c, m, y>> \in live
        /\ (m < k /\ Above(y, m, k) = i) \/ (k <= m /\ Above(i, k, m) = y)
  BY NothingFits
<1>2. PICK y \in BlocksOf(m) :
        /\ <<c, m, y>> \in live
        /\ (m < k /\ Above(y, m, k) = i) \/ (k <= m /\ Above(i, k, m) = y)
  BY <1>1
<1>3. \E p \in Pages : Covers(k, i, p) /\ Covers(m, y, p)
  <2>1. CASE m < k /\ Above(y, m, k) = i
    <3>1. m <= k
      BY <2>1, OrderFacts
    <3>2. \E p \in Pages : Covers(m, y, p) /\ Covers(k, Above(y, m, k), p)
      BY <3>1, CommonPage
    <3> QED
      BY <2>1, <3>2
  <2>2. CASE k <= m /\ Above(i, k, m) = y
    <3>1. \E p \in Pages : Covers(k, i, p) /\ Covers(m, Above(i, k, m), p)
      BY <2>2, CommonPage
    <3> QED
      BY <2>2, <3>1
  <2> QED
    BY <1>2, <2>1, <2>2
<1>4. PICK b \in live : b = <<c, m, y>>
  BY <1>2
<1>5. b[1] = c /\ b[2] = m /\ b[3] = y
  BY <1>4
<1> QED
  BY <1>3, <1>5

LEMMA NextUnmapsOnlyIdle == BuddyInv /\ [BuddyNext]_buddyVars => UnmapsOnlyIdleChunks
<1> SUFFICES ASSUME BuddyInv, [BuddyNext]_buddyVars PROVE UnmapsOnlyIdleChunks
  OBVIOUS
<1>1. chunkNum \in Nat
  <2>1. inUse \subseteq Records /\ IsFiniteSet(Records) /\ chunkNum = Cardinality(inUse)
    BY RecordsFacts DEF BuddyInv, BuddyShape, NoIdleChunk, Provided
  <2> QED
    BY <2>1, FS_Subset, FS_CardinalityType
<1>2. CASE inUse \subseteq inUse' /\ (chunkNum' = chunkNum \/ chunkNum' = chunkNum + 1)
  BY <1>1, <1>2 DEF UnmapsOnlyIdleChunks
<1>3. CASE UNCHANGED buddyVars
  BY <1>2, <1>3 DEF buddyVars
<1>4. ASSUME NEW k \in Orders, Alloc(k)
      PROVE  UnmapsOnlyIdleChunks
  BY <1>2, <1>4 DEF Alloc, AllocBlock, NewChunk, NoRecord, NoChunk, buddyVars
<1>5. ASSUME NEW b \in live, Free(b)
      PROVE  UnmapsOnlyIdleChunks
  <2>1. PICK c \in inUse : \E k \in Orders : \E i \in BlocksOf(k) :
           b = <<c, k, i>> /\ b[1] = c /\ b[2] = k /\ b[3] = i
    BY <1>5, LiveBlock
  <2>2. PICK k \in Orders : \E i \in BlocksOf(k) :
           b = <<c, k, i>> /\ b[1] = c /\ b[2] = k /\ b[3] = i
    BY <2>1
  <2>3. PICK i \in BlocksOf(k) : b = <<c, k, i>> /\ b[1] = c /\ b[2] = k /\ b[3] = i
    BY <2>2
  <2>4. <<c, k, i>> \in live /\ (FreeBlock(c, k, i) \/ ReleaseChunk(c, k, i))
    BY <1>5, <2>3 DEF Free
  <2>5. CASE FreeBlock(c, k, i)
    BY <1>2, <2>5 DEF FreeBlock
  <2>6. CASE ReleaseChunk(c, k, i)
    <3>1. /\ live' = live \ {<<c, k, i>>} /\ inUse' = inUse \ {c} /\ chunkNum' = chunkNum - 1
          /\ chunkNum > Keep /\ ChunkGoes(c, k, i)
      BY <2>6 DEF ReleaseChunk, ChunkGoes
    <3>2. \A d \in live : d[1] = c => d = <<c, k, i>>
      BY <2>4, <3>1, GoesEmpty
    <3>3. chunkNum' >= Keep
      BY <1>1, <3>1, BuddyAssumption
    <3> QED
      BY <3>1, <3>2, <3>3 DEF UnmapsOnlyIdleChunks
  <2> QED
    BY <2>4, <2>5, <2>6
<1> QED
  BY <1>3, <1>4, <1>5 DEF BuddyNext

(***************************************************************************)
(* Theorems                                                                *)
(***************************************************************************)

LEMMA BuddySoundFromInv ==
  BuddyInv => /\ BuddyTypeOK /\ PagesPartitioned /\ FindsSpace /\ ChunkListsSound
              /\ SplitTellsAllocations /\ NoIdleChunk
BY BuddyTypeFromInv, PagesFromInv, SpaceFromInv, ListsFromInv, SplitFromInv, Zenon DEF BuddyInv

\* However blocks are split and merged, for any number of orders, groups and blocks
\* held: each page of a chunk is in one block (buddy.c:251, 537), a request fails only
\* if no free run could hold it (buddy.c:684), lists and counts are right also after a
\* failed mmap (buddy.c:70, 174), the split bits tell one allocation from many
\* (buddy.c:31), and no chunk above LIBC_KEEP_CHUNK_NUM stays idle (buddy.c:17).
THEOREM BuddySafe ==
  BuddySpec => [](/\ BuddyTypeOK /\ PagesPartitioned /\ FindsSpace /\ ChunkListsSound
                  /\ SplitTellsAllocations /\ NoIdleChunk)
BY BuddySoundFromInv, InitBuddyInv, NextBuddyInv, PTL DEF BuddySpec

\* A chunk is unmapped only with its last allocation, and not below
\* LIBC_KEEP_CHUNK_NUM chunks (buddy.c:512).
THEOREM BuddyUnmaps == BuddySpec => [][UnmapsOnlyIdleChunks]_buddyVars
BY NextUnmapsOnlyIdle, InitBuddyInv, NextBuddyInv, PTL DEF BuddySpec

==============================================================================
