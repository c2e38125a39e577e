------------------------------- MODULE Fips202 -------------------------------
(***************************************************************************)
(* SHA-3, SHAKE, cSHAKE, KMAC and TupleHash (crypto/hash/keccak/fips202.c) *)
(* over the sponge, for one rate.  A call says which function it is and    *)
(* with which strings; unused ones are empty.  A byte is a digit below     *)
(* 2 * Top, so that lengths beyond one byte are short.                     *)
(***************************************************************************)
EXTENDS KeccakSponge

CONSTANTS Calls,      \* [fn, n, s, key, data, out_len]; data is a tuple of strings, of one but for TupleHash
          WordBytes,  \* 8, the bytes of a uint64_t
          KmacName, TupleName   \* "KMAC" and "TupleHash"

LOCAL Seqs == INSTANCE SequencesExt

Base == 2 * Top

CallAssumption ==
  /\ Rate < Base
  /\ \A c \in Calls : c.fn = "cshake" => c.n \notin {KmacName, TupleName}

VARIABLES
  call,
  sponge,
  done

vars == <<call, sponge, done>>

LittleEndian(n) == [i \in 1 .. WordBytes |-> (n \div Base ^ (i - 1)) % Base]
byte_len(n) == CHOOSE l \in 1 .. WordBytes : n < Base ^ l /\ (l > 1 => n >= Base ^ (l - 1))

\* The bytes in memory of the word once it is swapped and shifted.
Swapped(n, l)     == SubSeq(Seqs!Reverse(LittleEndian(n)), WordBytes - l + 1, WordBytes)

left_encode(u, n)  == Absorb(Absorb(u, <<byte_len(n)>>), Swapped(n, byte_len(n)))
right_encode(u, n) == Absorb(Absorb(u, Swapped(n, byte_len(n))), <<byte_len(n)>>)
WithLength(u, str) == Absorb(left_encode(u, 8 * Len(str)), str)

\* A part that is padded to whole blocks; the next one starts with an offset of 0.
Padded(u)  == [st |-> IF u.off # 0 THEN Permute(u.st) ELSE u.st, off |-> 0, out |-> u.out]
Bytepad(u) == Absorb(u, <<1, Rate>>)

cshake_prepare_state(u, n, s) == Padded(WithLength(WithLength(Bytepad(u), n), s))
kmac_prepare_key(u, key)      == Padded(WithLength(Bytepad(u), key))
sha3_prepare_msg(u, data, f)  == [Finalize(Absorb(u, data), f) EXCEPT !.off = 0]
kmac_prepare_msg(u, data, out_len) == [Finalize(right_encode(Absorb(u, data), 8 * out_len), 4) EXCEPT !.off = 0]

tuplehash_finalize(u, out_len) == Finalize(right_encode(u, 8 * out_len), 4)

Sha3Input(c)   == sha3_prepare_msg(NewSponge, c.data[1], 2 + 4)
ShakeInput(c)  == sha3_prepare_msg(NewSponge, c.data[1], 15 + 16)
CShakeInput(c) == sha3_prepare_msg(cshake_prepare_state(NewSponge, c.n, c.s), c.data[1], 0 + 4)
KmacInput(c)   == kmac_prepare_msg(kmac_prepare_key(cshake_prepare_state(NewSponge, KmacName, c.s), c.key), c.data[1], c.out_len)

TupleStrings(c)    == Seqs!FoldLeft(WithLength, cshake_prepare_state(NewSponge, TupleName, c.s), c.data)
\* Mutant of TupleInput: reading starts where the last string ended.
TupleInputOpen(c)  == tuplehash_finalize(TupleStrings(c), c.out_len)
\* The offset behind the last string must be reset before the reading.
TupleInput(c)      == [tuplehash_finalize(TupleStrings(c), c.out_len) EXCEPT !.off = 0]

Plain(c) == c.n = <<>> /\ c.s = <<>>

Init == call \in Calls /\ sponge = NewSponge /\ done = FALSE

Answer(u) ==
  /\ sponge' = Squeeze(u, call.out_len)
  /\ done' = TRUE /\ UNCHANGED call

Sha3      == ~done /\ call.fn = "sha3" /\ Answer(Sha3Input(call))
Shake     == ~done /\ call.fn = "shake" /\ Answer(ShakeInput(call))
CShake    == ~done /\ call.fn = "cshake" /\ Answer(IF Plain(call) THEN ShakeInput(call) ELSE CShakeInput(call))
Kmac      == ~done /\ call.fn = "kmac" /\ Answer(KmacInput(call))
TupleHash == ~done /\ call.fn = "tuplehash" /\ Answer(TupleInput(call))

Next == Sha3 \/ Shake \/ CShake \/ Kmac \/ TupleHash

Spec == Init /\ [][Next]_vars

(***************************************************************************)
(* The same as strings (SP 800-185): encodings, padded to whole blocks.    *)
(***************************************************************************)
Digits(n) == LET l == CHOOSE k \in 1 .. WordBytes : n < Base ^ k /\ \A j \in 1 .. k - 1 : n >= Base ^ j
             IN  [i \in 1 .. l |-> (n \div Base ^ (l - i)) % Base]
LeftEnc(n)   == <<Len(Digits(n))>> \o Digits(n)
RightEnc(n)  == Append(Digits(n), Len(Digits(n)))
Str(x)       == LeftEnc(8 * Len(x)) \o x
Fill(x)      == [i \in 1 .. ((Len(x) + Rate - 1) \div Rate) * Rate |-> IF i <= Len(x) THEN x[i] ELSE 0]
Frame(n, s)  == Fill(LeftEnc(Rate) \o Str(n) \o Str(s))
Final(x, f)  == LET y == Fill(Append(x, f)) IN [y EXCEPT ![Len(y)] = @ + Top]

Reference(c) ==
  CASE c.fn = "sha3"  -> Final(c.data[1], 6)
    [] c.fn = "shake" \/ (c.fn = "cshake" /\ Plain(c)) -> Final(c.data[1], 31)
    [] c.fn = "cshake" /\ ~Plain(c) -> Final(Frame(c.n, c.s) \o c.data[1], 4)
    [] c.fn = "kmac"  -> Final(Frame(KmacName, c.s) \o Fill(LeftEnc(Rate) \o Str(c.key)) \o c.data[1] \o RightEnc(8 * c.out_len), 4)
    [] c.fn = "tuplehash" -> Final(Frame(TupleName, c.s) \o Seqs!FlattenSeq([i \in DOMAIN c.data |-> Str(c.data[i])]) \o RightEnc(8 * c.out_len), 4)

Blocks(x) == [b \in 1 .. Len(x) \div Rate |-> [o \in 0 .. Rate - 1 |-> x[(b - 1) * Rate + o + 1]]]

\* What the calls of the sponge add up to, however they split the input, is the standard's
\* string, and the output starts with the first byte of its stream.
AsSpecified ==
  done => /\ Seqs!IsPrefix(Blocks(Reference(call)), sponge.st.past)
          /\ call.out_len > 0 => sponge.out[1] = [past |-> Blocks(Reference(call)), at |-> 0]
          /\ Len(sponge.out) = call.out_len

\* What a call means: the empty cSHAKE is SHAKE, and the output of the functions without
\* an encoded length are prefixes of one stream.
Meaning(c) ==
  CASE c.fn = "cshake" /\ Plain(c) -> [c EXCEPT !.fn = "shake", !.out_len = 0]
    [] c.fn \in {"sha3", "shake"} \/ (c.fn = "cshake" /\ ~Plain(c)) -> [c EXCEPT !.out_len = 0]
    [] c.fn \in {"kmac", "tuplehash"} -> c

Fed == [c \in Calls |->
  CASE c.fn = "sha3" -> Sha3Input(c).st.past
    [] c.fn = "shake" \/ (c.fn = "cshake" /\ Plain(c)) -> ShakeInput(c).st.past
    [] c.fn = "cshake" /\ ~Plain(c) -> CShakeInput(c).st.past
    [] c.fn = "kmac" -> KmacInput(c).st.past
    [] c.fn = "tuplehash" -> TupleInput(c).st.past]

\* Two calls that mean different things never feed the sponge the same blocks: no
\* length, key, name or boundary between strings can be traded for another.
InputsApart ==
  done => \A c \in Calls : Meaning(c) # Meaning(call) =>
            ~Seqs!IsPrefix(Fed[c], sponge.st.past)

===============================================================================
