------------------------------- MODULE Objects -------------------------------
(***************************************************************************)
(* Lifetimes of the elements of vector.hpp and indirect.hpp.  A block of   *)
(* memory has cells that are raw, hold a value, or hold an object whose    *)
(* value was moved out and that still has to be destroyed.  'm' is a       *)
(* record with the blocks 'blk', the kind of the type and the flag 'bad':  *)
(* a construction over a living object, a destruction or an assignment of  *)
(* a dead one, a read of raw memory, or memory freed under an object.      *)
(*                                                                         *)
(* Kinds: "trivial" has all special members trivial; "assignable" has all  *)
(* of them; "constructible" cannot be assigned.                            *)
(***************************************************************************)
EXTENDS Integers, Sequences

CONSTANTS Raw, Moved

LOCAL Seqs == INSTANCE SequencesExt

Kinds == {"trivial", "assignable", "constructible"}

RawBlock(n) == [i \in 0 .. n - 1 |-> Raw]

\* The indices a .. b - 1 upwards, and downwards.
Up(a, b)   == [k \in 1 .. b - a |-> a + k - 1]
Down(a, b) == [k \in 1 .. b - a |-> b - k]

\* A loop over indices.
For(m, indices, Do(_, _)) == Seqs!FoldLeft(Do, m, indices)

In(m, b, i) == i \in DOMAIN m.blk[b]
Put(m, b, i, v, ok) ==
  IF In(m, b, i) THEN [m EXCEPT !.blk[b][i] = v, !.bad = @ \/ ~ok] ELSE [m EXCEPT !.bad = TRUE]

\* construct_at(), destroy_at() and an assignment at index i of the block b.
Construct(m, b, i, v) ==
  Put(m, b, i, v, v # Raw /\ (m.kind = "trivial" \/ ~In(m, b, i) \/ m.blk[b][i] = Raw))
Destroy(m, b, i) ==
  Put(m, b, i, Raw, m.kind = "trivial" \/ ~In(m, b, i) \/ m.blk[b][i] # Raw)
Assign(m, b, i, v) ==
  Put(m, b, i, v, v # Raw /\ (~In(m, b, i) \/ m.blk[b][i] # Raw))

\* move() of the element j of the block c: a trivial object stays as it is.
Take(m, c, j) == IF m.kind = "trivial" THEN m ELSE [m EXCEPT !.blk[c][j] = Moved]

MoveConstruct(m, b, i, c, j) == Construct(Take(m, c, j), b, i, m.blk[c][j])
MoveAssign(m, b, i, c, j)    == Assign(Take(m, c, j), b, i, m.blk[c][j])

\* What copy-assignment and move-assignment do where a type has none.
Overwrite(m, b, i, v) ==
  IF m.kind = "constructible" THEN Construct(Destroy(m, b, i), b, i, v) ELSE Assign(m, b, i, v)

\* deallocate(): no object may be left.
Free(m, b) ==
  [m EXCEPT !.blk[b] = RawBlock(0),
            !.bad = @ \/ (m.kind # "trivial" /\ \E i \in DOMAIN m.blk[b] : m.blk[b][i] # Raw)]

=============================================================================
