----------------------------- MODULE SortNetwork -----------------------------
(***************************************************************************)
(* safe_sort_uint32() and safe_sort_uint64() (src/crypto/sort): Batcher's  *)
(* merge exchange for every length, with comparators that exchange words   *)
(* without a branch: the larger is the sum, modulo 2^Bits, less the        *)
(* smaller.  One action is one of the inner loops over u.                  *)
(***************************************************************************)
EXTENDS Integers, Sequences, FiniteSets

CONSTANTS Lengths,  \* lengths of the arrays
          Bits      \* bits of a word

LOCAL Seqs == INSTANCE SequencesExt

SortAssumption == Lengths \subseteq Nat \ {0, 1} /\ Bits \in Nat \ {0}

VARIABLES
  input,   \* offset -> word
  origin,  \* the array that was given
  i,       \* the outer loop
  t,       \* the loop to run next: 0 for the first of a round
  used     \* offsets that the loop compared

vars == <<input, origin, i, t, used>>

Arrays(S) == UNION {[0 .. n - 1 -> S] : n \in Lengths}
Size(a)    == 1 + CHOOSE x \in DOMAIN a : \A y \in DOMAIN a : y <= x

\* The least k with len <= 2^k.
Log2(len) == CHOOSE k \in 0 .. len : len <= 2^k /\ \A j \in 0 .. k - 1 : 2^j < len

\* u & mask1 | (u & mask2) << 1: i high bits of u, a zero, and the low bits.
Spread(u, low) == (u % 2^low) + (u \div 2^low) * 2^(low + 1)

Minimum(x, y) == IF x <= y THEN x ELSE y
Exchange(a, p) ==
  LET x == a[p[1]]
      y == a[p[2]]
      lo == Minimum(x, y)
  IN  [a EXCEPT ![p[1]] = lo, ![p[2]] = (x + y - lo) % 2^Bits]

\* The offsets that a loop compares, in order: it ends at the first beyond the array.
First(len, r) ==
  LET low == Log2(len) - r
      pair(u) == <<Spread(u, low), Spread(u, low) + 2^low>>
  IN  SelectSeq([k \in 1 .. len |-> pair(k - 1)], LAMBDA p : p[2] < len)

Later(len, r, s) ==
  LET low == Log2(len) - r
      pair(u) == <<Spread(u, low) + 2^low - 2^(Log2(len) - s), Spread(u, low)>>
  IN  SelectSeq([k \in 1 .. len |-> pair(2^(Log2(len) - s - 1) + k - 1)], LAMBDA p : p[2] < len)

Run(pairs) ==
  /\ used' = Seqs!ToSet(pairs)
  /\ input' = Seqs!FoldLeft(Exchange, input, pairs)
  /\ UNCHANGED origin

Init ==
  /\ origin \in Arrays(0 .. 2^Bits - 1)
  /\ input = origin /\ i = 1 /\ t = 0 /\ used = {}

FirstLoop ==
  /\ i <= Log2(Size(input)) /\ t = 0
  /\ Run(First(Size(input), i))
  /\ IF i = 1 THEN i' = 2 /\ t' = 0 ELSE t' = 1 /\ UNCHANGED i

LaterLoop ==
  /\ i <= Log2(Size(input)) /\ t > 0
  /\ Run(Later(Size(input), i, t))
  /\ IF t = i - 1 THEN i' = i + 1 /\ t' = 0 ELSE t' = t + 1 /\ UNCHANGED i

Next == FirstLoop \/ LaterLoop

Spec == Init /\ [][Next]_vars

(***************************************************************************)
(* Properties                                                              *)
(***************************************************************************)
\* After each round the words at distance 2^(log2(len) - i) are in order, the merge
\* that the next round builds on; after the last one the whole array is.  The network
\* is cut off at the length, whatever that is, and still does so for every array (of
\* words too, by the 0-1 principle).
StridesInOrder ==
  i > 1 /\ t = 0 =>
    LET stride == 2^(Log2(Size(input)) - (i - 1))
    IN  \A x \in DOMAIN input : x + stride \in DOMAIN input => input[x] <= input[x + stride]

\* The words are those that were given, although the sum of two of them wraps.
Count(a, w) == {x \in DOMAIN a : a[x] = w}
SameWords ==
  \A w \in 0 .. 2^Bits - 1 : Cardinality(Count(input, w)) = Cardinality(Count(origin, w))

\* Every comparator has two offsets of the array, the lower one first: the smaller
\* word moves down, never up.
ComparesWithin == \A p \in used : 0 <= p[1] /\ p[1] < p[2] /\ p[2] < Size(input)

==============================================================================
