-------------------------------- MODULE AesGcm --------------------------------
(***************************************************************************)
(* AES-GCM (src/crypto/sk/aes/gcm.c): blocks of B bytes (16), a counter of *)
(* CtrBits bits (32).  A byte is the set of what was XORed into it: its    *)
(* bits, and terms for the bytes of an encrypted block, which is all that  *)
(* is said of AES.  GHASH is a polynomial in H, the sequence of its        *)
(* coefficients from that of the highest power; gcm_mult() by itself is an *)
(* operator on polynomials over F_2, the sets of their exponents.          *)
(***************************************************************************)
EXTENDS Integers, Sequences, FiniteSets

CONSTANTS B,          \* bytes of a block
          CtrBits,
          Calls,      \* [iv, add, data]: what is encrypted
          Others,     \* other additional data
          Half, Fold  \* of gcm_mult(): 64 bits of a lane, and the exponents of 0x87

LOCAL Seqs == INSTANCE SequencesExt

GcmAssumption == {B, CtrBits, Half} \subseteq Nat \ {0} /\ B % 2 = 0 /\ Fold \subseteq 0 .. Half

VARIABLES
  job,     \* the call
  sig,     \* [ct, tag]: the ciphertext
  given,   \* [add, ct]: what the receiver is given
  verdict  \* [data, tag]: what the receiver computes

vars == <<job, sig, given, verdict>>

(***************************************************************************)
(* gcm_mult: the product of two polynomials below x^(2 * Half), by lanes,  *)
(* reduced by folding the higher half twice                                *)
(***************************************************************************)
Xor(a, b)  == (a \ b) \cup (b \ a)
Lane(a, k) == {e \in 0 .. Half - 1 : e + k * Half \in a}
Up(a, n)   == {e + n : e \in a}
pmull(a, b) ==
  {e \in {d + f : d \in a, f \in b} : Cardinality({d \in a : e - d \in b}) % 2 = 1}

gcm_mult(a, b) ==
  LET middle == Xor(pmull(Lane(a, 0), Lane(b, 1)), pmull(Lane(a, 1), Lane(b, 0)))
      low  == Xor(pmull(Lane(a, 0), Lane(b, 0)), Up(Lane(middle, 0), Half))
      high == Xor(pmull(Lane(a, 1), Lane(b, 1)), Lane(middle, 1))
      top  == pmull(Lane(high, 1), Fold)
      high2 == Xor(high, Lane(top, 1))
      low2 == Xor(low, Up(Lane(top, 0), Half))
  IN  Xor(low2, pmull(Lane(high2, 0), Fold))

(***************************************************************************)
(* Blocks                                                                  *)
(***************************************************************************)
Blocks(d)   == Len(d) \div B
Block(d, k) == [i \in 0 .. B - 1 |-> d[B * (k - 1) + i + 1]]
Left(d)     == Len(d) % B

\* The last bytes, in a block of zeros.
Final(d) == [i \in 0 .. B - 1 |-> IF i < Left(d) THEN d[B * Blocks(d) + i + 1] ELSE {}]

Mix(x, y) == [i \in 0 .. B - 1 |-> Xor(x[i], y[i])]

\* 'mask', of two lanes.
Mask(x, n) ==
  [i \in 0 .. B - 1 |->
     IF n < B \div 2 THEN IF i < n THEN x[i] ELSE {}
     ELSE IF i < B \div 2 \/ i - B \div 2 < n - B \div 2 THEN x[i] ELSE {}]

BytesOf(x, n) == [i \in 1 .. n |-> x[i - 1]]

Encrypted(iv, ctr) == [i \in 0 .. B - 1 |-> {<<iv, ctr, i>>}]   \* aes128_encrypt_one_block_neon
gcm_inc_ctr(ctr)   == (ctr + 1) % 2^CtrBits
FirstCtr == 1

\* A number of bits, the highest byte first, in half a block.
Bit(e)         == <<"bit", e, 0>>
Bits(n)        == {e \in 0 .. 4 * B - 1 : (n \div 2^e) % 2 = 1}
LengthBytes(n) ==
  [i \in 0 .. B \div 2 - 1 |-> {Bit(e) : e \in {f \in 0 .. 7 : f + 8 * (B \div 2 - 1 - i) \in Bits(n * 8)}}]
LengthBlock(a, c) ==
  LET x == LengthBytes(Len(a)) y == LengthBytes(Len(c))
  IN  [i \in 0 .. B - 1 |-> IF i < B \div 2 THEN x[i] ELSE y[i - B \div 2]]

\* A running call: the counter, ghash and the bytes so far.  XOR of a block, then
\* multiplication by H, makes that block the next coefficient.
Absorb(u, x) == [u EXCEPT !.ghash = Append(@, x)]

AddData(iv, a) ==
  LET start == [iv |-> iv, ctr |-> FirstCtr, ghash |-> <<>>, out |-> <<>>]
      whole == Seqs!FoldLeft(LAMBDA u, k : Absorb(u, Block(a, k)), start, [k \in 1 .. Blocks(a) |-> k])
  IN  IF Left(a) > 0 THEN Absorb(whole, Final(a)) ELSE whole

\* ghash: zeros before the first coefficient are lost.
Polynomial(g) ==
  LET zero == [i \in 0 .. B - 1 |-> {}]
      first == {k \in DOMAIN g : g[k] # zero /\ \A j \in 1 .. k - 1 : g[j] = zero}
  IN  IF first = {} THEN <<>> ELSE LET k == CHOOSE k \in first : TRUE IN SubSeq(g, k, Len(g))

Tag(u, a, c) ==
  [ghash |-> Polynomial(Absorb(u, LengthBlock(a, c)).ghash), j0 |-> Encrypted(u.iv, FirstCtr)]

(***************************************************************************)
(* aes128_encrypt_gcm                                                      *)
(***************************************************************************)
Stream(u) == Encrypted(u.iv, gcm_inc_ctr(u.ctr))

EncryptBlock(u, x, n) ==
  LET c == IF n = B THEN Mix(Stream(u), x) ELSE Mask(Mix(Stream(u), x), n)
  IN  Absorb([u EXCEPT !.ctr = gcm_inc_ctr(@), !.out = @ \o BytesOf(c, n)], c)

aes128_encrypt_gcm(iv, a, d) ==
  LET whole == Seqs!FoldLeft(LAMBDA u, k : EncryptBlock(u, Block(d, k), B), AddData(iv, a),
                             [k \in 1 .. Blocks(d) |-> k])
      end == IF Left(d) > 0 THEN EncryptBlock(whole, Final(d), Left(d)) ELSE whole
  IN  [ct |-> end.out, tag |-> Tag(end, a, d)]

(***************************************************************************)
(* aes128_decrypt_gcm                                                      *)
(***************************************************************************)
DecryptBlock(u, x, n) ==
  LET v == Absorb(u, x)
  IN  [v EXCEPT !.ctr = gcm_inc_ctr(@), !.out = @ \o BytesOf(Mix(Stream(v), x), n)]

aes128_decrypt_gcm(iv, a, c) ==
  LET whole == Seqs!FoldLeft(LAMBDA u, k : DecryptBlock(u, Block(c, k), B), AddData(iv, a),
                             [k \in 1 .. Blocks(c) |-> k])
      end == IF Left(c) > 0 THEN DecryptBlock(whole, Final(c), Left(c)) ELSE whole
  IN  [data |-> end.out, tag |-> Tag(end, a, c)]

(***************************************************************************)
(* The handlers                                                            *)
(***************************************************************************)
Init == job \in Calls /\ sig = <<>> /\ given = <<>> /\ verdict = <<>>

Encrypt ==
  /\ sig = <<>> /\ sig' = aes128_encrypt_gcm(job.iv, job.add, job.data)
  /\ UNCHANGED <<job, given, verdict>>

\* The ciphertext as it was made; or with bytes lost at the end, or zeros added to it,
\* or bytes moved to the additional data or from it; or all of it with other additional data.
Moves ==
  LET all == job.add \o sig.ct
  IN  {[add |-> SubSeq(all, 1, k), ct |-> SubSeq(all, k + 1, Len(all))] : k \in 0 .. Len(all)}
      \cup {[add |-> job.add, ct |-> SubSeq(sig.ct, 1, k)] : k \in 0 .. Len(sig.ct)}
      \cup {[add |-> job.add, ct |-> Append(sig.ct, {})], [add |-> Append(job.add, {}), ct |-> sig.ct],
            [add |-> <<{}>> \o job.add, ct |-> sig.ct]}
      \cup {[add |-> a, ct |-> sig.ct] : a \in Others}

Deliver ==
  /\ sig # <<>> /\ given = <<>> /\ given' \in Moves
  /\ UNCHANGED <<job, sig, verdict>>

Decrypt ==
  /\ given # <<>> /\ verdict = <<>>
  /\ verdict' = aes128_decrypt_gcm(job.iv, given.add, given.ct)
  /\ UNCHANGED <<job, sig, given>>

Next == Encrypt \/ Deliver \/ Decrypt

Spec == Init /\ [][Next]_vars

(***************************************************************************)
(* Properties                                                              *)
(***************************************************************************)
Sent == [add |-> job.add, ct |-> sig.ct]

\* What was encrypted comes back, with its tag, however much of the last block the data
\* fill, the eight bytes between the lanes of the mask included (gcm.c:171).
OpensToSame == verdict # <<>> /\ given = Sent => verdict = [data |-> job.data, tag |-> sig.tag]

\* What was changed has another polynomial in H: blocks of zeros in front and the zeros
\* after the last bytes are told from data by the lengths (gcm.c:190), also where data
\* look like those.
ChangedHasOtherTag == verdict # <<>> /\ given # Sent => verdict.tag # sig.tag

\* No byte of the stream is used for two bytes of data, nor for the tag, while the
\* counter has no more values to go through than there are (gcm.c:27).
WithinCounter(d) == (Len(d) + B - 1) \div B <= 2^CtrBits - 2
Terms(x)         == {t \in x : t \in {job.iv} \X (0 .. 2^CtrBits - 1) \X (0 .. B - 1)}
StreamUsedOnce ==
  sig # <<>> /\ WithinCounter(job.data) =>
    /\ \A i, j \in DOMAIN sig.ct : i # j => Terms(sig.ct[i]) \cap Terms(sig.ct[j]) = {}
    /\ \A i \in DOMAIN sig.ct : \A t \in Terms(sig.ct[i]) : t[2] \notin {0, FirstCtr}

==============================================================================
