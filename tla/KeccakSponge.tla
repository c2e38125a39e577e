----------------------------- MODULE KeccakSponge -----------------------------
(***************************************************************************)
(* The sponge over Keccak-p (include/crypto/hash/keccak/keccak_p.h).  The  *)
(* permutation is a function of all that went into it: a state is the      *)
(* blocks that were permuted and what was added since, and a byte that is  *)
(* read is named by the blocks and its offset.                             *)
(***************************************************************************)
EXTENDS Integers, Sequences

CONSTANTS Rate,    \* bytes of a block
          Top      \* the highest bit of a byte, 128

LOCAL Bitw == INSTANCE Bitwise
LOCAL Seqs == INSTANCE SequencesExt

SpongeAssumption == Rate \in Nat \ 0 .. 1 /\ Top \in Nat \ {0}

NoBytes  == [o \in 0 .. Rate - 1 |-> 0]
NewState == [past |-> <<>>, cur |-> NoBytes]

Permute(st) == [past |-> Append(st.past, st.cur), cur |-> NoBytes]
XorBytes(st, data, offset) ==
  [st EXCEPT !.cur = [o \in DOMAIN @ |-> IF o \in offset .. offset + Len(data) - 1
                                         THEN Bitw!^^(@[o], data[o - offset + 1]) ELSE @[o]]]
ExtractBytes(st, offset, n) == [k \in 1 .. n |-> [past |-> st.past, at |-> offset + k - 1]]

Rest(s, n)   == SubSeq(s, n + 1, Len(s))
Loops(n)     == [k \in 1 .. n \div Rate |-> k]

(***************************************************************************)
(* A sponge is a state with its offset, and the bytes that were read.      *)
(***************************************************************************)
AddShort(u, data) == [u EXCEPT !.st = XorBytes(@, data, u.off), !.off = @ + Len(data)]

\* Fill the block, go on with full blocks, and leave the rest in a new one.
AddBlocks(u, data) ==
  LET t == Rate - u.off
      block(v) == [v EXCEPT !.st = Permute(XorBytes(@, SubSeq(v.data, 1, Rate), 0)), !.data = Rest(@, Rate)]
      first == [st |-> Permute(XorBytes(u.st, SubSeq(data, 1, t), u.off)), data |-> Rest(data, t)]
      blocks == Seqs!FoldLeft(LAMBDA v, k : block(v), first, Loops(Len(first.data)))
  IN  [u EXCEPT !.st = XorBytes(blocks.st, blocks.data, 0), !.off = Len(blocks.data)]

Absorb(u, data) == IF Len(data) < Rate - u.off THEN AddShort(u, data) ELSE AddBlocks(u, data)

\* The final byte with the padding; the offset is the caller's to reset.
Finalize(u, final) ==
  [u EXCEPT !.st = Permute(IF u.off < Rate - 1
                           THEN XorBytes(XorBytes(@, <<final>>, u.off), <<Top>>, Rate - 1)
                           ELSE XorBytes(@, <<final + Top>>, Rate - 1))]

\* The n bytes from the offset on: all full blocks but the last are left behind.
Take(u, n) ==
  LET t == Rate - u.off
      more(v, k) == [v EXCEPT !.out = @ \o ExtractBytes(v.st, 0, Rate), !.st = Permute(@)]
      first == [u EXCEPT !.out = @ \o ExtractBytes(u.st, u.off, t), !.st = Permute(@)]
      full == (n - t - 1) \div Rate
      blocks == Seqs!FoldLeft(more, first, [k \in 1 .. full |-> k])
      last == n - t - Rate * full
  IN  IF n <= t
      THEN [u EXCEPT !.out = @ \o ExtractBytes(u.st, u.off, n), !.off = @ + n]
      ELSE [blocks EXCEPT !.out = @ \o ExtractBytes(blocks.st, 0, last), !.off = last]

\* Mutant of Squeeze: a block that was read to its end is read again by the next call.
SqueezeAgain(u, n) == Take(IF u.off = Rate THEN [u EXCEPT !.off = 0] ELSE u, n)

Squeeze(u, n) == Take(IF u.off = Rate THEN [u EXCEPT !.st = Permute(@), !.off = 0] ELSE u, n)

NewSponge == [st |-> NewState, off |-> 0, out |-> <<>>]

===============================================================================
