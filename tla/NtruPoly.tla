------------------------------ MODULE NtruPoly ------------------------------
(***************************************************************************)
(* The polynomials of NTRU LPRime, src/crypto/pk/ntru_lprime: products     *)
(* with short ones, rounding, the encoding in bytes, and hashshort().      *)
(* Coefficients are in 0 .. Q - 1, and a short polynomial has the          *)
(* coefficient k - 1 where two bits are k.  A behaviour is one call.       *)
(***************************************************************************)
EXTENDS Integers, Sequences, FiniteSets, TLC

CONSTANTS
  Q,          \* NTRU_LPR_Q
  P, W,       \* degree of the ring, and weight of hashshort(): 653 and 252
  Stages,     \* of the encoding: [m, bytes, last]
  RoundLen,   \* NTRU_LPR_ROUND_ENC_LEN
  Calls       \* see Result

LOCAL Seqs == INSTANCE SequencesExt
LOCAL Sets == INSTANCE FiniteSetsExt

NtruPolyAssumption == Q \in Nat /\ Q % 6 = 1 /\ {P, W} \subseteq Nat \ {0} /\ W <= P

VARIABLES call, result

vars == <<call, result>>

Loop(n) == [i \in 1 .. n |-> i - 1]
Reduce(x) == IF x >= Q THEN x - Q ELSE x
Half == (Q + 1) \div 2

(***************************************************************************)
(* ntrulpr_653_poly_mult_short                                             *)
(***************************************************************************)

\* The coefficient c times v.
Addent(c, v) == IF c >= 1 THEN IF c >= 2 THEN v ELSE 0 ELSE Q - v

\* g * x^i lies in a ring of P cells, with the coefficient of x^k at this one.
Cell(i, k) == (P - i + k) % P

\* The highest term moves to x^0 and is added to the new term of x.
TimesX(g, i) == [g EXCEPT ![Cell(i, 0)] = Reduce(g[Cell(i, P - 1)] + g[Cell(i, 0)])]

MultShort(g, a, terms) ==
  Seqs!FoldLeft(LAMBDA s, i :
      [gx  |-> TimesX(s.gx, i),
       out |-> [k \in 0 .. terms - 1 |-> Reduce(Addent(a[i], s.gx[Cell(i, k)]) + s.out[k])]],
    [gx |-> g, out |-> [k \in 0 .. terms - 1 |-> 0]], Loop(P)).out

(***************************************************************************)
(* ntrulpr_653_round                                                       *)
(***************************************************************************)
Round(c) ==
  LET rem == c - ((c * 5462) \div 2^14) * 3
  IN  IF c >= Half THEN LET r == IF rem = 0 THEN c + 1 ELSE IF rem = 1 THEN c ELSE c - 1
                        IN  IF r >= Q THEN 0 ELSE r
      ELSE IF rem = 0 THEN c ELSE IF rem = 1 THEN c - 1 ELSE c + 1

(***************************************************************************)
(* ntrulpr_653_encode_poly_round and ntrulpr_653_decode_poly_round.  A     *)
(* stage makes one number of two neighbours, the second times m, and puts  *)
(* out its low bytes; the last element of an odd number stays.             *)
(***************************************************************************)
ToDigit(c)   == (IF c >= Half THEN c - Half ELSE c + Half - 1) \div 3
FromDigit(d) == IF 3 * d >= Half - 1 THEN 3 * d - (Half - 1) ELSE 3 * d + Half

Lesser(x, y) == IF x < y THEN x ELSE y
BytesOf(st, pairs, i) == IF i = pairs THEN st.last ELSE st.bytes
Pair(v, st, i) == v[2 * i - 1] + v[2 * i] * st.m
Left(v, pairs) == IF Len(v) = 2 * pairs THEN <<>> ELSE <<v[Len(v)]>>

EncodeStage(s, st) ==
  LET pairs == Len(s.v) \div 2
      of(k)  == Lesser((k - 1) \div st.bytes + 1, pairs)
      at(k)  == k - 1 - (of(k) - 1) * st.bytes
  IN  [v   |-> [i \in 1 .. pairs |-> Pair(s.v, st, i) \div 2^(8 * BytesOf(st, pairs, i))]
               \o Left(s.v, pairs),
       out |-> s.out \o [k \in 1 .. (pairs - 1) * st.bytes + st.last |->
                           (Pair(s.v, st, of(k)) \div 2^(8 * at(k))) % 256]]

Encode(poly) ==
  Seqs!FoldLeft(EncodeStage, [v |-> [i \in DOMAIN poly |-> ToDigit(poly[i])], out |-> <<>>], Stages).out

\* The numbers that a stage leaves of n.
Halved(n) == (n + 1) \div 2
SizeBefore(n, j) == Seqs!FoldLeft(LAMBDA k, i : Halved(k), n, Loop(j - 1))

\* The stage backwards, to n numbers: bytes are read from the end on.
DecodeStage(s, st, n) ==
  LET pairs == n \div 2
      from  == Len(s.in) - (pairs - 1) * st.bytes - st.last
      number(i) ==
        Seqs!FoldLeft(LAMBDA r, k : r * 256 + s.in[from + (i - 1) * st.bytes + k], s.v[i],
                      [k \in 1 .. BytesOf(st, pairs, i) |-> BytesOf(st, pairs, i) - k + 1])
      split == [k \in 1 .. 2 * pairs |-> IF k % 2 = 1 THEN number((k + 1) \div 2) % st.m
                                                      ELSE number(k \div 2) \div st.m]
  IN  [v  |-> split \o (IF n % 2 = 1 THEN <<s.v[pairs + 1]>> ELSE <<>>),
       in |-> SubSeq(s.in, 1, from)]

Decode(enc, n) ==
  LET s == Seqs!FoldLeft(LAMBDA s, j : DecodeStage(s, Stages[j], SizeBefore(n, j)),
                         [v |-> <<0>>, in |-> enc],
                         [k \in 1 .. Len(Stages) |-> Len(Stages) - k + 1])
  IN  [i \in 1 .. n |-> FromDigit(s.v[i])]

(***************************************************************************)
(* ntrulpr_653_hashshort: random words, of which the first W become even   *)
(* and the others 1 modulo 4, are sorted and give two bits each.           *)
(***************************************************************************)
Tagged(words) ==
  [i \in DOMAIN words |-> IF i <= W THEN words[i] - (words[i] % 2) ELSE words[i] - (words[i] % 4) + 1]

HashShort(words) ==
  LET sorted == SortSeq(Tagged(words), LAMBDA x, y : x < y)
  IN  [i \in 0 .. P - 1 |-> sorted[i + 1] % 4]

(***************************************************************************)
(* Calls                                                                   *)
(***************************************************************************)
Result(c) ==
  CASE c.op = "mult"  -> MultShort(c.g, c.a, c.terms)
    [] c.op = "round" -> Round(c.c)
    [] c.op = "code"  -> Encode([i \in DOMAIN c.poly |-> Round(c.poly[i])])
    [] c.op = "short" -> HashShort(c.words)

Init == call \in Calls /\ result = <<>>

Call ==
  /\ result = <<>>
  /\ \E r \in {Result(call)} : result' = <<r>>
  /\ UNCHANGED call

Next == Call

Spec == Init /\ [][Next]_vars

(***************************************************************************)
(* Properties                                                              *)
(***************************************************************************)
After(op) == call.op = op /\ result # <<>>
Value == result[1]

\* The product modulo x^P - x - 1, term by term: a term of degree P + k is one of
\* x^(k + 1) and one of x^k.
Term(k, i, j) ==
  (IF i + j = k THEN 1 ELSE 0) + (IF i + j = P + k THEN 1 ELSE 0)
  + (IF k > 0 /\ i + j = P + k - 1 THEN 1 ELSE 0)
Product(g, a, k) ==
  Sets!MapThenSumSet(LAMBDA p : Term(k, p[1], p[2]) * g[p[1]] * (a[p[2]] - 1),
                     (0 .. P - 1) \X (0 .. P - 1)) % Q

\* However many terms are asked for, they are those of the product in the ring.
ProductRight ==
  After("mult") => \A k \in 0 .. call.terms - 1 : Value[k] = Product(call.g, call.a, k)

\* Rounding gives the nearest multiple of three between -(Q - 1) / 2 and (Q - 1) / 2,
\* at both ends and around zero.
Centered(c) == IF c >= Half THEN c - Q ELSE c
RoundsToThird ==
  After("round") =>
    /\ Value \in 0 .. Q - 1 /\ Centered(Value) % 3 = 0
    /\ Centered(Value) - Centered(call.c) \in {-1, 0, 1}

\* A rounded polynomial comes back from its bytes, whose number is the same for all.
EncodedRight ==
  After("code") =>
    /\ Decode(Value, Len(call.poly)) = [i \in DOMAIN call.poly |-> Round(call.poly[i])]
    /\ Len(Value) = RoundLen /\ \A i \in DOMAIN Value : Value[i] \in 0 .. 255

\* Exactly W coefficients of a short polynomial are 1 or -1, whatever is drawn.
ShortHasWeight ==
  After("short") =>
    /\ \A i \in 0 .. P - 1 : Value[i] \in {0, 1, 2}
    /\ Cardinality({i \in 0 .. P - 1 : Value[i] # 1}) = W

=============================================================================
