---------------------------- MODULE MCPrimitives ----------------------------
(***************************************************************************)
(* Instances for TLC of what the other layers take for granted: the sponge *)
(* and the hash functions over it, the string functions, the constant-time *)
(* sort, the arithmetic, sampling and packing of CROSS, the polynomials of *)
(* NTRU LPRime, and the binary fields of UOV and AES-GCM.  A behaviour is  *)
(* a call of one part, or a caller that feeds a sponge piece by piece;     *)
(* what it does not use is Off.                                            *)
(***************************************************************************)
EXTENDS Integers, Sequences, FiniteSets

CONSTANTS Parts, Off

VARIABLES
  part, call, result, done,
  sponge,              \* Fips202, and SpongeStream with closed, fed and hash
  closed, fed, hash,   \* hash: what HashStream sees
  data, ptr,           \* CrossCoding; columns of the tables of the fields
  round, loop, used,   \* SortNetwork
  reads                \* Strings

vars == <<part, call, result, done, sponge, closed, fed, hash, data, ptr, round, loop, used, reads>>

(***************************************************************************)
(* Sponge: blocks of two bytes, in pieces of up to two blocks and a byte   *)
(***************************************************************************)
Pieces     == {<<>>, <<0>>, <<2, 1>>, <<3, 0, 0>>, <<0, 1, 2, 3, 1>>}
FinalBytes == {4, 6}
Lengths    == {0, 1, 2, 3, 5}

Stream == INSTANCE SpongeStream WITH Rate <- 2, Top <- 8, MaxIn <- 6, MaxOut <- 5,
  Chunks <- Pieces, Finals <- FinalBytes, Counts <- Lengths

Hash == INSTANCE HashStream WITH Chunks <- Pieces, Finals <- FinalBytes, Counts <- Lengths,
  absorbed <- hash.absorbed, final <- hash.final, output <- hash.output

(***************************************************************************)
(* Fips202: bytes below 64, so that eight bytes are a length of two        *)
(* digits; blocks of eight bytes, which the frame of a KMAC with a string  *)
(* of one byte fills exactly; strings that look like encodings.            *)
(***************************************************************************)
Long    == <<1, 8, 0, 1, 0, 0, 0, 1>>
Strings == {<<>>, <<0>>, <<1, 0>>, Long}
Data    == {<<d>> : d \in Strings \cup {<<0, 1>>, <<1, 0, 0, 1, 0, 0, 1>>, <<1, 0, 1, 0>>}}
Lens    == {0, 8, 9, 17}

No == <<>>
HashCalls ==
  [fn : {"sha3", "shake"}, n : {No}, s : {No}, key : {No}, data : Data, out_len : Lens]
  \cup [fn : {"cshake"}, n : {No, <<0>>, <<20>>}, s : Strings, key : {No}, data : Data, out_len : {1, 9}]
  \cup [fn : {"kmac"}, n : {No}, s : {No, <<0>>}, key : Strings, data : Data, out_len : Lens]
  \cup [fn : {"tuplehash"}, n : {No}, s : {No, Long}, key : {No}, out_len : Lens,
        data : UNION {[1 .. k -> Strings] : k \in 0 .. 2} \cup {<<<<1, 0, 1, 0>>>>, <<<<>>, <<>>, <<>>>>}]

Fips == INSTANCE Fips202 WITH Rate <- 8, Top <- 32, WordBytes <- 4, Calls <- HashCalls,
  KmacName <- <<11>>, TupleName <- <<20, 8>>

(***************************************************************************)
(* Strings: words of four bytes, in memory of eleven, every alignment.     *)
(* The source of a copy lies before the destination or behind it; those of *)
(* memmove are in one another.                                             *)
(***************************************************************************)
MaxN == 3 * 4 + 1
Places(f, from, to, size) ==
  [f : {f}, d : to .. to + 3, s : from .. from + 3, n : 0 .. MaxN, z : size]
CopyCalls ==
  Places("memcpy", 4, 24, {0}) \cup Places("memxor", 4, 24, {0})
  \cup Places("cond_memcpy", 4, 24, {0, 1}) \cup Places("strncpy", 4, 24, {0, 2, 3, 4, 7, 8, 11, MaxN})
  \cup [f : {"memset"}, d : 4 .. 7, s : {4}, n : 0 .. MaxN, z : {7}]
  \cup [f : {"strcpy"}, d : 24 .. 27, s : 4 .. 7, n : {0}, z : 0 .. MaxN]
  \cup [f : {"memmove"}, d : 4 .. 19, s : 8 .. 11, n : 0 .. MaxN, z : {0}]

\* Two words and two bytes; None: no NUL, or no difference, in reach.
MaxRead == 2 * 4 + 2
None    == 44
Reading(f, n, nul, diff, other) ==
  [f : {f}, l : 4 .. 7, r : 24 .. 27, n : n, nul : nul, diff : diff, other : other]
CompareCalls ==
  Reading("memcmp", 0 .. MaxRead, {None}, (0 .. MaxRead) \cup {None}, {1})
  \cup Reading("safe_memcmp", 0 .. MaxRead, {None}, (0 .. MaxRead) \cup {None}, {1})
  \cup Reading("strncmp", {0, 1, 4, 5, MaxRead}, 0 .. MaxRead, {0, 3, 4, 7, None}, {0, 1})
  \cup Reading("strcmp", {0}, 0 .. MaxRead, (0 .. MaxRead) \cup {None}, {0, 1})
  \cup Reading("strlen", {0}, 0 .. MaxRead, {None}, {1})
  \cup Reading("strnlen", 0 .. MaxRead, 0 .. MaxRead, {None}, {1})
  \cup Reading("memcmp_zero", 0 .. MaxRead, 0 .. MaxRead, {None}, {1})
  \cup {[f |-> "HASZERO", l |-> 4, r |-> 24, n |-> x, nul |-> None, diff |-> None, other |-> 1] :
          x \in 0 .. 2^8 - 1}

String == INSTANCE Strings WITH W <- 4, Size <- 44, Bits <- 2, Loops <- 14,
  Copies <- CopyCalls, Readings <- CompareCalls

(***************************************************************************)
(* SortNetwork: zeros and ones up to nine, where 1 + 1 wraps               *)
(***************************************************************************)
Sort == INSTANCE SortNetwork WITH Lengths <- 2 .. 9, Bits <- 1,
  input <- result, origin <- call, i <- round, t <- loop

(***************************************************************************)
(* CROSS: the constants of parameters.h; one bit, all bits but one and all *)
(* bits in vectors of up to seventeen elements; draws from bytes of three  *)
(* bits, of F_3 and F_5                                                    *)
(***************************************************************************)
FieldP == 509
FieldZ == 127
Field == INSTANCE CrossField WITH P <- FieldP, PC1 <- 131845, PC2 <- 26, Z <- FieldZ, ZC1 <- 8257,
  ZC2 <- 20, G <- <<16, 256, 384, 355, 302, 93, 505>>

\* A behaviour computes one row of the tables: all products with the element 'call',
\* and if it is an exponent too, its products and the powers of its sums.
TableInit == call \in 0 .. FieldP - 1 /\ result = <<>> /\ data = <<>> /\ ptr = <<>> /\ done = FALSE

FillRow ==
  /\ ~done /\ done' = TRUE
  /\ result' = [y \in 0 .. FieldP - 1 |-> Field!FpMult(call, y)]
  /\ IF call < FieldZ
     THEN /\ data' = [y \in 0 .. FieldZ - 1 |-> Field!FzMult(call, y)]
          /\ ptr' = [y \in 0 .. FieldZ - 1 |-> Field!FzToFp(Field!FzAdd(call, y))]
     ELSE UNCHANGED <<data, ptr>>
  /\ UNCHANGED call

\* The constants of the reductions are exact enough for every product of two reduced
\* elements: none comes out one modulus too high or too low.
ReducedExactly ==
  done =>
    /\ \A y \in DOMAIN result : result[y] = (call * y) % FieldP
    /\ \A y \in DOMAIN data : data[y] = (call * y) % FieldZ

\* Exponents add modulo z where powers multiply, 0 included, which is what lets
\* verify() multiply v and y for the signer's masked secret.
PowersMultiply ==
  done => \A y \in DOMAIN ptr : ptr[y] = (Field!FzToFp(call) * Field!FzToFp(y)) % FieldP

BoundOf(w)   == IF w = 7 THEN 127 ELSE 509
Widths       == {7, 9}
SomeLengths  == {1, 2, 5, 7, 8, 9, 15, 16, 17}
ByteLen(w, len) == (len * w + 7) \div 8

\* Element or byte k has the bits b, all others y.
Vectors(len, bits) ==
  {[k \in 1 .. len |-> IF k = j THEN b ELSE y] :
     j \in 1 .. len, b \in {{a} : a \in bits} \cup {bits \ {a} : a \in bits}, y \in {{}, bits \ {2}}}

\* Elements of w bits from the bound on.
Beyond(w) == IF w = 7 THEN {0 .. 6} ELSE {0 .. 8, 1 .. 8, (0 .. 8) \ {1}}
Packs ==
  UNION {[w : {w}, bound : {BoundOf(w)},
          in : {v \in Vectors(len, 0 .. w - 1) : \A k \in 1 .. len : v[k] \notin Beyond(w)}] :
            w \in Widths, len \in SomeLengths}
Unpacks == UNION {[w : {w}, bound : {BoundOf(w)}, len : {len}, bytes : Vectors(ByteLen(w, len), 0 .. 7)] :
                    w \in Widths, len \in SomeLengths}

Of3(n) == [bits |-> 2, bound |-> 3, count |-> n]
Of5(n) == [bits |-> 3, bound |-> 5, count |-> n]

Coding == INSTANCE CrossCoding WITH Packings <- Packs, Unpackings <- Unpacks,
  ByteBits <- 3, Draws <- 2, TagBits <- 2, T <- 5, W <- 3,
  Shapes <- {<<Of3(2)>>, <<Of3(1), Of5(1)>>, <<Of5(2)>>}, out <- result

(***************************************************************************)
(* NtruPoly: products in a ring of degree four, rounding of all            *)
(* coefficients, and the encoding of the polynomials of 653 with extreme   *)
(* coefficients where the stages pair or leave them, or with all kinds     *)
(***************************************************************************)
Degree == 653
FewCoeffs == {0, 1, 4620}
Polys ==
  {[k \in 1 .. Degree |-> IF k = j THEN b ELSE c] : j \in {1, 2, 326, 651, 652, 653},
     b \in {0, 2310, 2311, 4620}, c \in {0, 2310, 2311}}
  \cup {[k \in 1 .. Degree |-> (n * k * k) % 4621] : n \in 1 .. 10}
PolyCalls ==
  [op : {"mult"}, g : [0 .. 3 -> FewCoeffs], a : [0 .. 3 -> 0 .. 2], terms : {2, 4}]
  \cup [op : {"round"}, c : 0 .. 4620]
  \cup [op : {"code"}, poly : Polys]
  \cup [op : {"short"}, words : [1 .. 4 -> 0 .. 7]]

Poly == INSTANCE NtruPoly WITH Q <- 4621, P <- 4, W <- 2, RoundLen <- 865, Calls <- PolyCalls,
  Stages <-
    LET st(m, b, l) == [m |-> m, bytes |-> b, last |-> l]
    IN  <<st(1541, 1, 1), st(9277, 2, 2), st(1314, 1, 1), st(6745, 2, 2), st(695, 1, 1),
          st(1887, 1, 1), st(13910, 2, 2), st(2953, 2, 1), st(134, 1, 1), st(71, 3, 3)>>

(***************************************************************************)
(* The field of UOV, all elements with the powers of x, and that of GHASH, *)
(* all pairs of powers: products are linear in both.                       *)
(***************************************************************************)
Byte    == INSTANCE Uov WITH Deg <- 8, Rep <- {0, 1, 3, 4}, Quot <- {0, 2, 3, 7}, V <- 1, M <- 1,
  CtrBits <- 8, Draws <- {}, Targets <- {}, Vinegars <- {},
  key <- call, job <- call, sig <- call, given <- call, verdict <- call
GBlock  == INSTANCE AesGcm WITH B <- 16, CtrBits <- 32, Calls <- {}, Others <- {}, Half <- 64,
  Fold <- {0, 1, 2, 7}, job <- call, sig <- call, given <- call, verdict <- call

\* A behaviour computes one row: the products of 'call' with the powers of x, and an inverse.
BinaryInit ==
  /\ call \in [byte : SUBSET (0 .. 7)] \cup [power : 0 .. 127]
  /\ result = <<>> /\ data = <<>> /\ ptr = <<>> /\ done = FALSE

FillBinary ==
  /\ ~done /\ done' = TRUE
  /\ \/ /\ "byte" \in DOMAIN call
        /\ result' = [k \in 0 .. 7 |-> Byte!gf256_mul(call.byte, {k})]
        /\ data' = Byte!gf256_inv(call.byte)
     \/ /\ "power" \in DOMAIN call
        /\ result' = [k \in 0 .. 127 |-> GBlock!gcm_mult({call.power}, {k})]
        /\ UNCHANGED data
  /\ UNCHANGED <<call, ptr>>

TimesX(a, top, fold) ==
  LET b == {e + 1 : e \in a} IN IF top \in b THEN Byte!Xor(b \ {top}, fold) ELSE b

\* Reduction by the quotient (gf256.h:61), and by folding the upper lanes twice
\* (gcm.c:66), is exact: a product with the next power of x is the one before times x.
FieldsRight ==
  done =>
    /\ "byte" \in DOMAIN call =>
         result[0] = call.byte /\ \A k \in 0 .. 6 : result[k + 1] = TimesX(result[k], 8, {0, 1, 3, 4})
    /\ "power" \in DOMAIN call =>
         /\ result[0] = {call.power}
         /\ \A k \in 0 .. 126 : result[k + 1] = TimesX(result[k], 128, {0, 1, 2, 7})

\* Fifteen rounds are enough for every element, and zero stays zero (gf256.h:109).
InvertsAll ==
  done /\ "byte" \in DOMAIN call =>
    Byte!gf256_mul(call.byte, data) = IF call.byte = {} THEN {} ELSE {0}

ASSUME Stream!SpongeAssumption
ASSUME Fips!SpongeAssumption /\ Fips!CallAssumption
ASSUME String!StringsAssumption
ASSUME Sort!SortAssumption
ASSUME Field!FieldAssumption /\ Coding!SamplingAssumption
ASSUME Poly!NtruPolyAssumption
ASSUME Byte!UovAssumption /\ GBlock!GcmAssumption

(***************************************************************************)
(* The specification                                                       *)
(***************************************************************************)
NoCall   == call = Off /\ result = Off /\ done = Off
NoSponge == sponge = Off
NoStream == closed = Off /\ fed = Off /\ hash = [absorbed |-> <<>>, final |-> -1, output |-> <<>>]
NoData   == data = Off /\ ptr = Off
NoLoop   == round = Off /\ loop = Off /\ used = Off
NoReads  == reads = Off

StreamView ==
  [absorbed |-> Stream!StringNow, final |-> Stream!FinalNow,
   output |-> [k \in DOMAIN sponge.out |-> Stream!StreamAt(sponge.out[k])]]

Init ==
  /\ part \in Parts
  /\ \/ part = "stream" /\ Stream!Init /\ hash = StreamView /\ NoCall /\ NoData /\ NoLoop /\ NoReads
     \/ part = "hash" /\ Fips!Init /\ result = Off /\ NoStream /\ NoData /\ NoLoop /\ NoReads
     \/ part = "strings" /\ String!Init /\ NoSponge /\ NoStream /\ NoData /\ NoLoop
     \/ part = "sort" /\ Sort!Init /\ done = Off /\ NoSponge /\ NoStream /\ NoData /\ NoReads
     \/ part = "tables" /\ TableInit /\ NoSponge /\ NoStream /\ NoLoop /\ NoReads
     \/ part = "binary" /\ BinaryInit /\ NoSponge /\ NoStream /\ NoLoop /\ NoReads
     \/ part = "coding" /\ Coding!Init /\ NoSponge /\ NoStream /\ NoLoop /\ NoReads
     \/ part = "poly" /\ Poly!Init /\ done = Off /\ NoSponge /\ NoStream /\ NoData /\ NoLoop /\ NoReads

ofStream == <<closed, fed, hash>>
ofSort   == <<round, loop, used>>

Next ==
  /\ UNCHANGED part
  /\ \/ /\ part = "stream" /\ Stream!Next /\ hash' = StreamView'
        /\ UNCHANGED <<call, result, done, data, ptr, ofSort, reads>>
     \/ part = "hash" /\ Fips!Next /\ UNCHANGED <<result, ofStream, data, ptr, ofSort, reads>>
     \/ part = "strings" /\ String!Next /\ UNCHANGED <<sponge, ofStream, data, ptr, ofSort>>
     \/ part = "sort" /\ Sort!Next /\ UNCHANGED <<done, sponge, ofStream, data, ptr, reads>>
     \/ part = "tables" /\ FillRow /\ UNCHANGED <<sponge, ofStream, ofSort, reads>>
     \/ part = "binary" /\ FillBinary /\ UNCHANGED <<sponge, ofStream, ofSort, reads>>
     \/ part = "coding" /\ Coding!Next /\ UNCHANGED <<sponge, ofStream, ofSort, reads>>
     \/ part = "poly" /\ Poly!Next /\ UNCHANGED <<done, sponge, ofStream, data, ptr, ofSort, reads>>

Spec == Init /\ [][Next]_vars

(***************************************************************************)
(* Properties                                                              *)
(***************************************************************************)

\* However input and output are cut into pieces, a byte that is read from a sponge
\* depends on the string and the final byte alone, no two strings share a stream, and
\* no byte is skipped or repeated (keccak_p.h:40).
ImplementsHashStream == Hash!Spec

\* The functions of fips202.c feed the strings of SP 800-185, of which two that mean
\* different things are never the same, and give the first bytes of the stream.
HashInputs ==
  /\ part = "stream" => Stream!OffsetInBlock
  /\ part = "hash" => Fips!AsSpecified /\ Fips!InputsApart

\* The string functions leave in memory, or answer, what the C library says, for every
\* alignment of the regions and however they overlap; they read no word that has no
\* byte of them (string_internal.h).
StringsRight ==
  part = "strings" =>
    /\ String!ResultRight /\ String!ReadsTouchSource
    /\ String!AnswerRight /\ String!ReadsTouchRegions

\* What the schemes make of words: each step of the sort merges what the one before
\* it left (sort.c), reductions, powers and inverses are exact (fp_arith.h,
\* gf256.h, gcm.c), a vector has one encoding and comes back from it (pack_unpack.c,
\* encode.c), samples are read in order and within what was hashed (csprng.c),
\* products are those of the ring and short polynomials have their weight
\* (ntru_lprime/utility.c).
WordsRight ==
  /\ part = "sort" => Sort!StridesInOrder /\ Sort!SameWords /\ Sort!ComparesWithin
  /\ part = "tables" => ReducedExactly /\ PowersMultiply
  /\ part = "binary" => FieldsRight /\ InvertsAll
  /\ part = "coding" =>
       /\ Coding!PackedIsAccepted /\ Coding!OneEncoding
       /\ Coding!DrawnInOrder /\ Coding!ReadsWithin /\ Coding!WeightExact
  /\ part = "poly" => Poly!ProductRight /\ Poly!RoundsToThird /\ Poly!EncodedRight /\ Poly!ShortHasWeight

=============================================================================
