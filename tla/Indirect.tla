------------------------------ MODULE Indirect ------------------------------
(***************************************************************************)
(* indirect.hpp: 'indirect', which owns one object or none, and            *)
(* 'indirect_array', which owns an array or none; two of them are          *)
(* constructed, copied, moved and compared.  The calls that the code       *)
(* terminates the program at are left out.                                 *)
(***************************************************************************)
EXTENDS Objects, FiniteSetsExt

CONSTANTS
  Shapes,    \* pairs of a class and the kind of its element type
  Values,    \* the values, numbers for their order
  MaxLen     \* bound on the length of an array

IndirectAssumption ==
  /\ Shapes \subseteq {"indirect", "indirect_array"} \X Kinds
  /\ Values \subseteq Nat /\ MaxLen \in Nat \ {0}
  /\ {Raw, Moved} \cap Values = {} /\ Raw # Moved

VARIABLES
  mem,    \* the blocks of the two objects, their class and kind, 'bad', and 'null'
  held    \* the sequence of values that each of them should hold

vars == <<mem, held>>

Ids == {"x", "y"}

Init ==
  /\ held = [o \in Ids |-> <<>>]
  /\ \E shape \in Shapes :
       mem = [blk |-> [o \in Ids |-> RawBlock(0)], class |-> shape[1], kind |-> shape[2],
              bad |-> FALSE, null |-> FALSE]

Length(m, o) == Cardinality(DOMAIN m.blk[o])
IsNull(m, o) == Length(m, o) = 0
Lengths == IF mem.class = "indirect" THEN {1} ELSE 0 .. MaxLen

\* construct_null().
Allocate(m, o, n) == [m EXCEPT !.blk[o] = RawBlock(n)]

\* construct_at() from the other object, with its index.
CopyAt(m, o, i, p) == Construct(m, o, i, m.blk[p][i])

CopyAll(m, o, p) == For(m, Up(0, Length(m, o)), LAMBDA z, i : CopyAt(z, o, i, p))

DestroyAll(m, o) == For(m, Down(0, Length(m, o)), LAMBDA z, i : Destroy(z, o, i))

\* destruct(): nothing happens without an object.
Destructed(m, o) == IF IsNull(m, o) THEN m ELSE Free(DestroyAll(m, o), o)

\* The elements are destroyed where the type cannot be assigned: for an array, those
\* of the indices 1 .. len.
Cleared(m, o) ==
  For(m, IF m.class = "indirect" THEN <<0>> ELSE Down(1, Length(m, o) + 1),
      LAMBDA z, i : Destroy(z, o, i))

\* operator= (const indirect&) and operator= (const indirect_array&).
CopyAssigned(m, o, p) ==
  IF o = p THEN m
  ELSE IF IsNull(m, p) THEN Destructed(m, o)
  ELSE IF Length(m, o) # Length(m, p)
    THEN CopyAll(Allocate(Destructed(m, o), o, Length(m, p)), o, p)
  ELSE IF m.kind = "constructible" THEN CopyAll(Cleared(m, o), o, p)
  ELSE For(m, Up(0, Length(m, o)), LAMBDA z, i : Assign(z, o, i, z.blk[p][i]))

\* The pointer changes hands.
TakeOver(m, o, p) == [m EXCEPT !.blk[o] = m.blk[p], !.blk[p] = RawBlock(0)]

MoveAssigned(m, o, p) == IF o = p THEN m ELSE TakeOver(Destructed(m, o), o, p)

(***************************************************************************)
(* Comparisons                                                             *)
(***************************************************************************)

\* operator==: of an 'indirect' with an object, the other's is read without a test.
ReadsNull(m, o, p) == m.class = "indirect" /\ ~IsNull(m, o) /\ IsNull(m, p)
Equals(m, o, p) == Length(m, o) = Length(m, p) /\ \A i \in DOMAIN m.blk[o] : m.blk[o][i] = m.blk[p][i]

\* The first index where the arrays differ or one of them ends.
Differs(m, o, p) ==
  Min({i \in 0 .. Min({Length(m, o), Length(m, p)}) :
         i \in DOMAIN m.blk[o] \cap DOMAIN m.blk[p] => m.blk[o][i] # m.blk[p][i]})

\* compare_three_way() gives order_result::less.
Less(m, o, p) ==
  LET i == Differs(m, o, p)
  IN  IF i < Length(m, o) /\ i < Length(m, p) THEN m.blk[o][i] < m.blk[p][i]
      ELSE Length(m, o) < Length(m, p)

(***************************************************************************)
(* Actions                                                                 *)
(***************************************************************************)
Fine == ~mem.bad /\ ~mem.null

\* construct(), construct_default() and generate().
ConstructOwn(o, w) ==
  /\ Fine /\ IsNull(mem, o) /\ Len(w) \in Lengths
  /\ mem' = For(Allocate(mem, o, Len(w)), Up(0, Len(w)), LAMBDA z, i : Construct(z, o, i, w[i + 1]))
  /\ held' = [held EXCEPT ![o] = w]

\* destruct(), the destructors, and inform_destruct() after the user's own destruction.
Destruct(o) == Fine /\ mem' = Destructed(mem, o) /\ held' = [held EXCEPT ![o] = <<>>]

\* The copy constructor of an object that was none before.
CopyConstruct(o, p) ==
  /\ Fine /\ o # p /\ IsNull(mem, o)
  /\ mem' = CopyAll(Allocate(mem, o, Length(mem, p)), o, p)
  /\ held' = [held EXCEPT ![o] = held[p]]

CopyAssign(o, p) ==
  /\ Fine /\ mem' = CopyAssigned(mem, o, p) /\ held' = [held EXCEPT ![o] = held[p]]

\* The move constructor, of an object that was none before, and the move assignment.
MoveAssignment(o, p) ==
  /\ Fine /\ mem' = MoveAssigned(mem, o, p)
  /\ held' = IF o = p THEN held ELSE [held EXCEPT ![o] = held[p], ![p] = <<>>]

\* An element is written through operator*, operator-> or operator[].
Write(o, i, v) ==
  /\ Fine /\ i \in DOMAIN mem.blk[o] /\ mem.kind # "constructible"
  /\ mem' = Assign(mem, o, i, v) /\ held' = [held EXCEPT ![o][i + 1] = v]

\* operator== reads through a null pointer.
CompareNull(o, p) == Fine /\ ReadsNull(mem, o, p) /\ mem' = [mem EXCEPT !.null = TRUE] /\ UNCHANGED held

Stop == ~Fine /\ UNCHANGED vars

SeqsUpTo(n) == UNION {[1 .. k -> Values] : k \in 0 .. n}

Next ==
  \/ \E o \in Ids :
       \/ \E w \in SeqsUpTo(MaxLen) : ConstructOwn(o, w)
       \/ Destruct(o)
       \/ \E p \in Ids : CopyConstruct(o, p) \/ CopyAssign(o, p) \/ MoveAssignment(o, p) \/ CompareNull(o, p)
       \/ \E i \in 0 .. MaxLen - 1, v \in Values : Write(o, i, v)
  \/ Stop

Spec == Init /\ [][Next]_vars

(***************************************************************************)
(* Properties                                                              *)
(***************************************************************************)
TypeOK ==
  /\ mem.bad \in BOOLEAN /\ mem.null \in BOOLEAN /\ <<mem.class, mem.kind>> \in Shapes
  /\ \A o \in Ids : /\ Length(mem, o) \in 0 .. MaxLen
                    /\ mem.blk[o] \in [0 .. Length(mem, o) - 1 -> Values]

\* Every object of an array is constructed once and destroyed once before its memory
\* goes, whichever of the assignments reused the memory or replaced it.
LifetimesRespected == ~mem.bad

\* The one way to break that is the copy assignment between arrays of the same length,
\* not empty, of a type that cannot be assigned (indirect.hpp:303).
BrokenByEqualLengthsOnly ==
  mem.bad =>
    /\ mem.class = "indirect_array" /\ mem.kind = "constructible"
    /\ Length(mem, "x") = Length(mem, "y") /\ ~IsNull(mem, "x")

\* Each owner holds what was last constructed in it, copied or moved to it: no two
\* share a block, and assignments between different lengths leave nothing behind.
HoldsItsOwn ==
  Fine => \A o \in Ids : held[o] = [i \in 1 .. Length(mem, o) |-> mem.blk[o][i - 1]]

\* compare_three_way() is a strict order that agrees with operator==: exactly one of
\* less, equal and greater holds, and it is the lexicographic one of the sequences.
OrderAgrees ==
  Fine => LET IsPrefixLess(s, t) ==
                \E n \in 0 .. Len(s) : /\ n <= Len(t) /\ SubSeq(s, 1, n) = SubSeq(t, 1, n)
                                       /\ n < Len(t) /\ (n = Len(s) \/ s[n + 1] < t[n + 1])
          IN  \A o, p \in Ids :
                /\ Less(mem, o, p) = IsPrefixLess(held[o], held[p])
                /\ Equals(mem, o, p) = ~(Less(mem, o, p) \/ Less(mem, p, o))

=============================================================================
