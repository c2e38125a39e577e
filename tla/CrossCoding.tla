----------------------------- MODULE CrossCoding -----------------------------
(***************************************************************************)
(* What CROSS makes of bytes.  Vectors over F_p and F_z are packed, w bits *)
(* of an element, 7 or 9, after those of the one before                    *)
(* (src/crypto/sign/cross/pack_unpack.c); there, elements and bytes are    *)
(* sets of the bits that are one.  Vectors are drawn from the output of    *)
(* SHAKE (csprng.c): elements of F_z and F_p by rejection, a bounded       *)
(* number of attempts each, and the second challenge, of a fixed weight,   *)
(* by sorting tagged numbers.  Vectors are sequences.                      *)
(***************************************************************************)
EXTENDS Integers, Sequences, FiniteSets, TLC

CONSTANTS Packings,      \* [w, bound, in]: elements to pack, all below the bound
          Unpackings,    \* [w, bound, len, bytes]: bytes to unpack to len elements
          ByteBits,      \* 8, for the vectors that are drawn
          Draws,         \* CROSS_GEN_ATTEMPT
          Shapes,        \* vectors that are drawn: sequences of [bits, bound, count]
          TagBits, T, W  \* 32, CROSS_T and CROSS_W

LOCAL Seqs == INSTANCE SequencesExt

SamplingAssumption == {ByteBits, Draws, TagBits, T, W} \subseteq Nat \ {0} /\ W < T

VARIABLES
  call,
  data,       \* what SHAKE gives, if a vector is drawn
  out, ptr,   \* the vector, or the bytes, and how much of data was read
  done

vars == <<call, data, out, ptr, done>>

(***************************************************************************)
(* Packing                                                                 *)
(***************************************************************************)
Left(x, k)  == {b + k : b \in x}
Right(x, k) == {b - k : b \in {c \in x : c >= k}}
Low(x, k)   == {b \in x : b < k}
Number(x)   == LET Sum[k \in 0 .. 9] == IF k = 0 THEN 0 ELSE Sum[k - 1] + (IF k - 1 \in x THEN 2^(k - 1) ELSE 0)
               IN  Sum[9]
Bytes(w, len) == (len * w + 7) \div 8

\* Eight elements of 7 bits to seven bytes, of 9 bits to nine.
EightOf7(v) == [j \in 1 .. 7 |-> Low(Right(v[j], j - 1) \cup Left(v[j + 1], 8 - j), 8)]
EightOf9(v) ==
  [j \in 1 .. 9 |-> Low((IF j = 1 THEN {} ELSE Right(v[j - 1], 10 - j))
                        \cup (IF j = 9 THEN {} ELSE Left(v[j], j - 1)), 8)]

\* Up to seven elements through a buffer of 64 bits.
Buffer(v, w)        == UNION {Left(v[k], w * (k - 1)) : k \in DOMAIN v} \cap 0 .. 63
Cut(buf, width, n)  == [k \in 1 .. n |-> Low(Right(buf, width * (k - 1)), width)]
PackRest(v, w)      == Cut(Buffer(v, w), 8, Bytes(w, Len(v)))

Pack(v, w) ==   \* pack_7_bit, pack_9_bit
  LET n == Len(v) \div 8
      Eights[k \in 0 .. n] ==
        IF k = 0 THEN <<>>
        ELSE LET eight == SubSeq(v, 8 * k - 7, 8 * k)
             IN  Eights[k - 1] \o (IF w = 7 THEN EightOf7(eight) ELSE EightOf9(eight))
  IN  Eights[n] \o PackRest(SubSeq(v, 8 * n + 1, Len(v)), w)

(***************************************************************************)
(* Unpacking                                                               *)
(***************************************************************************)
EightFrom7(b) ==
  [j \in 1 .. 8 |-> (IF j = 1 THEN {} ELSE Right(b[j - 1], 9 - j))
                    \cup (IF j = 8 THEN {} ELSE Left(Low(b[j], 8 - j), j - 1))]
EightFrom9(b) == [j \in 1 .. 8 |-> Right(b[j], j - 1) \cup Left(Low(b[j + 1], j), 9 - j)]

\* Mutant of Padding: the lowest bit above the elements is missed.
PaddingShort(buf, w, len) == Right(buf, w * len + 1) = {}

\* No bit above the elements.
Padding(buf, w, len) == Right(buf, w * len) = {}

\* unpack_7_bit, unpack_9_bit: what is unpacked, and whether the padding is zero.
Unpack(b, w, len) ==
  LET n == len \div 8
      rest == len % 8
      Eights[k \in 0 .. n] ==
        IF k = 0 THEN <<>>
        ELSE LET bytes == SubSeq(b, w * (k - 1) + 1, w * k)
             IN  Eights[k - 1] \o (IF w = 7 THEN EightFrom7(bytes) ELSE EightFrom9(bytes))
      buf == Buffer(SubSeq(b, w * n + 1, Len(b)), 8)
  IN  [out |-> Eights[n] \o Cut(buf, w, rest), ok |-> rest = 0 \/ Padding(buf, w, rest)]

\* unpack_syndrome, unpack_resp_v, unpack_resp_y: elements below p or z only.
UnpackBounded(b, w, len, bound) ==
  LET u == Unpack(b, w, len)
  IN  [u EXCEPT !.ok = @ /\ \A k \in DOMAIN u.out : Number(u.out[k]) < bound]

(***************************************************************************)
(* cross_csprng_vec_zm, _vec_zm_pn, _mat_zp, _vec_pt: one buffer for all   *)
(* elements of a call, those of another width included.                    *)
(***************************************************************************)
Total(shape)     == Seqs!FoldLeft(LAMBDA n, p : n + p.bits * p.count * Draws, 0, shape)

HashBytes(shape) == (Total(shape) - 1) \div ByteBits + 1

\* A cursor: the next byte, the bits that wait in buf, the elements so far.
Refill(u, hash, bits) ==
  LET Fill[k \in 0 .. bits] ==
        IF k = 0 THEN u
        ELSE LET v == Fill[k - 1]
             IN  IF v.held >= bits THEN v
                 ELSE [v EXCEPT !.buf = @ + (IF v.ptr < Len(hash) THEN hash[v.ptr + 1] ELSE 0) * 2^v.held,
                                !.ptr = @ + 1, !.held = @ + ByteBits]
  IN  Fill[bits]

Drop(u, bits) == [u EXCEPT !.buf = @ \div 2^bits, !.held = @ - bits]

Accepts(val, bound) == bound - 1 >= val

DrawElement(u, hash, p) ==
  LET Attempt[k \in 0 .. Draws] ==
        IF k = 0 THEN [u EXCEPT !.out = Append(@, 0), !.taken = FALSE]
        ELSE LET v == Attempt[k - 1]
                 filled == Refill(v, hash, p.bits)
                 val == filled.buf % 2^p.bits
                 rest == Drop(filled, p.bits)
             IN  IF v.taken THEN v
                 ELSE IF Accepts(val, p.bound)
                 THEN [rest EXCEPT !.out[Len(rest.out)] = val, !.taken = TRUE]
                 ELSE rest
  IN  Attempt[Draws]

DrawAll(hash, shape) ==
  Seqs!FoldLeft(LAMBDA u, p : Seqs!FoldLeft(LAMBDA v, k : DrawElement(v, hash, p), u, [k \in 1 .. p.count |-> k]),
                [ptr |-> 0, buf |-> 0, held |-> 0, out |-> <<>>, taken |-> FALSE], shape)

(***************************************************************************)
(* cross_csprng_hamming_ball                                               *)
(***************************************************************************)
Tagged(tags) == [k \in 1 .. T |-> IF k <= W THEN (tags[k] \div 2) * 2 + 1 ELSE (tags[k] \div 2) * 2]

\* safe_sort_uint32(), of which SortNetwork shows that it sorts.
Sorted(tags) == SortSeq(tags, LAMBDA x, y : x < y)

HammingBall(tags) == LET s == Sorted(Tagged(tags)) IN [k \in 1 .. T |-> s[k] % 2]

(***************************************************************************)
(* Calls                                                                   *)
(***************************************************************************)
Strings(n, bits) == [1 .. n -> 0 .. 2^bits - 1]

Init ==
  /\ \/ call \in [packing : Packings] \cup [unpacking : Unpackings] /\ data = <<>>
     \/ \E s \in Shapes : call = [shape |-> s] /\ data \in Strings(HashBytes(s), ByteBits)
     \/ call = [weight |-> W] /\ data \in Strings(T, TagBits)
  /\ out = <<>> /\ ptr = 0 /\ done = FALSE

PackVector ==
  /\ ~done /\ "packing" \in DOMAIN call
  /\ LET c == call.packing IN out' = Pack(c.in, c.w)
  /\ done' = TRUE /\ UNCHANGED <<call, data, ptr>>

UnpackVector ==
  /\ ~done /\ "unpacking" \in DOMAIN call
  /\ LET c == call.unpacking IN out' = UnpackBounded(c.bytes, c.w, c.len, c.bound)
  /\ done' = TRUE /\ UNCHANGED <<call, data, ptr>>

DrawVector ==
  /\ ~done /\ "shape" \in DOMAIN call
  /\ LET u == DrawAll(data, call.shape) IN out' = u.out /\ ptr' = u.ptr
  /\ done' = TRUE /\ UNCHANGED <<call, data>>

DrawChallenge ==
  /\ ~done /\ "weight" \in DOMAIN call
  /\ out' = HammingBall(data)
  /\ done' = TRUE /\ UNCHANGED <<call, data, ptr>>

Next == PackVector \/ UnpackVector \/ DrawVector \/ DrawChallenge

Spec == Init /\ [][Next]_vars

(***************************************************************************)
(* Properties                                                              *)
(***************************************************************************)

\* Every vector whose elements are below the bound is accepted again and comes back
\* unchanged, whatever its length leaves of the last byte.
PackedIsAccepted ==
  done /\ "packing" \in DOMAIN call =>
    LET c == call.packing
    IN  Len(out) = Bytes(c.w, Len(c.in))
        /\ UnpackBounded(out, c.w, Len(c.in), c.bound) = [out |-> c.in, ok |-> TRUE]

\* Bytes that are accepted are those that packing makes, so a vector has one encoding
\* only and the bytes that verify() hashes again are those that the signer hashed.
OneEncoding ==
  done /\ "unpacking" \in DOMAIN call /\ out.ok =>
    LET c == call.unpacking IN Pack(out.out, c.w) = c.bytes

\* The output of SHAKE read as one string of bits, zeros after it: bit k of it.
Bit(k) == IF k < ByteBits * Len(data) THEN (data[k \div ByteBits + 1] \div 2^(k % ByteBits)) % 2 ELSE 0
Field(from, bits) ==
  LET V[k \in 0 .. bits] == IF k = 0 THEN 0 ELSE V[k - 1] + Bit(from + k - 1) * 2^(k - 1) IN V[bits]

\* Element by element: the first field below the bound of at most Draws fields that
\* follow one another, or 0; the next element starts after it.
Fields(p, from) == {k \in 0 .. Draws - 1 : Field(from + k * p.bits, p.bits) < p.bound}
Least(S)        == CHOOSE x \in S : \A y \in S : x <= y
Wanted ==
  LET one(u, p) ==
        LET ok == Fields(p, u.at)
        IN  IF ok = {} THEN [out |-> Append(u.out, 0), at |-> u.at + Draws * p.bits]
            ELSE [out |-> Append(u.out, Field(u.at + Least(ok) * p.bits, p.bits)),
                  at |-> u.at + (Least(ok) + 1) * p.bits]
  IN  Seqs!FoldLeft(LAMBDA u, p : Seqs!FoldLeft(LAMBDA v, k : one(v, p), u, [k \in 1 .. p.count |-> k]),
                    [out |-> <<>>, at |-> 0], call.shape)

\* The elements are those of the string of bits, as the header describes it, however
\* the fields lie across the bytes and where the width of the fields changes.
DrawnInOrder == done /\ "shape" \in DOMAIN call => out = Wanted.out

\* What SHAKE was asked for is enough even when every attempt fails: no byte beyond
\* hash_data is read.
ReadsWithin == ptr <= Len(data)

\* The second challenge has W ones whatever is drawn, equal numbers included: the
\* arrays of the signature are of W and T - W entries.
WeightExact == done /\ "weight" \in DOMAIN call => Cardinality({k \in 1 .. T : out[k] = 1}) = W

===============================================================================
