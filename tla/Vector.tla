------------------------------- MODULE Vector -------------------------------
(***************************************************************************)
(* vector.hpp: one block of memory with 'len' elements, for the kinds of   *)
(* element types that its code tells apart, and what is inserted may be a  *)
(* reference to an element of the vector itself.  Indices and counts are   *)
(* those that the code accepts; it terminates the program at others.       *)
(***************************************************************************)
EXTENDS Objects, FiniteSetsExt

CONSTANTS
  Values,
  MinAlloc,   \* the smallest allocation that compute_expanded_size() asks for: 8
  MaxLen,     \* bounds: elements, and cells of the block
  MaxAlloc

VectorAssumption ==
  /\ MinAlloc \in Nat \ {0} /\ MaxLen \in Nat /\ MaxAlloc \in Nat
  /\ {Raw, Moved} \cap Values = {} /\ Raw # Moved

VARIABLES
  vec,   \* blocks: the storage 'ptr', and 'new' during a reallocation; len, kind, bad, null
  seq    \* the sequence that the calls so far describe

vars == <<vec, seq>>

Fresh(k) == [blk |-> [ptr |-> RawBlock(0), new |-> RawBlock(0)], len |-> 0, kind |-> k,
             bad |-> FALSE, null |-> FALSE]

Init == \E k \in Kinds : vec = Fresh(k) /\ seq = <<>>

AllocLen(m) == Cardinality(DOMAIN m.blk.ptr)
Spare(m) == AllocLen(m) - m.len

(***************************************************************************)
(* Storage                                                                 *)
(***************************************************************************)
ExpandedSize(m, n) == Max({MinAlloc, m.len + n, 2 * AllocLen(m)})

\* A new block replaces the old one.
Adopt(m) == LET f == Free(m, "ptr")
            IN  [f EXCEPT !.blk = [ptr |-> m.blk.new, new |-> RawBlock(0)]]

\* Elements from 'index' on move by 'shift' on their way to the new block.
MoveWithShift(m, index, shift) ==
  For(m, Up(0, m.len), LAMBDA x, i :
        Destroy(MoveConstruct(x, "new", IF i < index THEN i ELSE i + shift, "ptr", i), "ptr", i))

DestroyTail(m, n) == For(m, Down(n, m.len), LAMBDA x, i : Destroy(x, "ptr", i))

ResizeStorage(m, n) ==
  LET r == [m EXCEPT !.blk.new = RawBlock(n)]
      k == Min({m.len, n})
      c == For(r, Up(0, k), LAMBDA x, i : MoveConstruct(x, "new", i, "ptr", i))
  IN  [Adopt(DestroyTail(c, 0)) EXCEPT !.len = k]

(***************************************************************************)
(* What is inserted: a value from outside or a reference to an element     *)
(***************************************************************************)
Outside(v) == [elem |-> FALSE, val |-> v, at |-> 0]
Element(i) == [elem |-> TRUE, val |-> Raw, at |-> i]
Sources == {Outside(v) : v \in Values} \cup {Element(i) : i \in 0 .. vec.len - 1}

Value(m, src) == IF src.elem THEN m.blk.ptr[src.at] ELSE src.val

\* The source after its value was taken: a moved one if 'moving'.
Taken(m, src, moving) == IF src.elem /\ moving THEN Take(m, "ptr", src.at) ELSE m

ConstructMany(m, b, index, count, src, moving) ==
  For(m, Up(index, index + count), LAMBDA x, i :
        Construct(Taken(x, src, moving), b, i, Value(x, src)))

\* A larger block is filled: first the new elements at 'index', then the old ones.
Regrow(m, index, count, src, moving) ==
  LET r == [m EXCEPT !.blk.new = RawBlock(ExpandedSize(m, count))]
      f == ConstructMany(r, "new", index, count, src, moving)
  IN  [Adopt(MoveWithShift(f, index, count)) EXCEPT !.len = @ + count]

PushBackMany(m, count, src, moving) ==
  IF Spare(m) >= count
    THEN [ConstructMany(m, "ptr", m.len, count, src, moving) EXCEPT !.len = @ + count]
    ELSE Regrow(m, m.len, count, src, moving)

(***************************************************************************)
(* A gap in the middle                                                     *)
(***************************************************************************)

\* Elements move up in place, the last ones to raw memory, the others over
\* elements that have moved already.
MoveUp(m, index, shift) ==
  LET top == Max({m.len, index + shift})
      c == For(m, Down(top, m.len + shift), LAMBDA x, i : MoveConstruct(x, "ptr", i, "ptr", i - shift))
  IN  For(c, Down(index + shift, m.len), LAMBDA x, i :
            IF m.kind = "constructible"
              THEN MoveConstruct(Destroy(x, "ptr", i), "ptr", i, "ptr", i - shift)
              ELSE MoveAssign(x, "ptr", i, "ptr", i - shift))

MemMove(m, index, shift) ==
  [m EXCEPT !.blk.ptr = [i \in DOMAIN @ |->
     IF i \in index + shift .. m.len + shift - 1 THEN @[i - shift] ELSE @[i]]]

\* shift_by(): a gap at 'index', with its moved-out objects destroyed or not.
ShiftBy(m, index, shift, noDestruct) ==
  IF Spare(m) < shift
    THEN [Adopt(MoveWithShift([m EXCEPT !.blk.new = RawBlock(ExpandedSize(m, shift))], index, shift))
            EXCEPT !.len = @ + shift]
  ELSE IF index = m.len \/ m.kind = "trivial" THEN [MemMove(m, index, shift) EXCEPT !.len = @ + shift]
  ELSE LET u == MoveUp(m, index, shift)
           d == IF noDestruct THEN u
                ELSE For(u, Up(index, Min({index + shift, m.len})), LAMBDA x, i : Destroy(x, "ptr", i))
       IN  [d EXCEPT !.len = @ + shift]

\* Mutant of InsertMany: no copy on the stack where nothing is reallocated.
InsertManyLate(m, index, count, src, moving) ==
  LET s == ShiftBy(Taken(m, src, moving), index, count, TRUE)
      v == Value(IF Spare(m) >= count THEN s ELSE m, src)
      n == IF Spare(m) >= count THEN Min({index + count, m.len}) ELSE index
      o == For(s, Up(index, n), LAMBDA x, i : Overwrite(x, "ptr", i, v))
  IN  IF index = m.len THEN PushBackMany(m, count, src, moving)
      ELSE For(o, Up(n, index + count), LAMBDA x, i : Construct(x, "ptr", i, v))

\* insert_no_invalidate() and insert_many_no_invalidate(): the value is copied or
\* moved to the stack first, then the gap is filled, its objects overwritten.
InsertMany(m, index, count, src, moving) ==
  LET v == Value(m, src)
      s == ShiftBy(Taken(m, src, moving), index, count, TRUE)
      n == IF Spare(m) >= count THEN Min({index + count, m.len}) ELSE index
      o == For(s, Up(index, n), LAMBDA x, i : Overwrite(x, "ptr", i, v))
  IN  IF index = m.len THEN PushBackMany(m, count, src, moving)
      ELSE For(o, Up(n, index + count), LAMBDA x, i : Construct(x, "ptr", i, v))

\* emplace_may_invalidate() and its relatives: the gap is raw.
EmplaceMany(m, index, count, v) ==
  For(ShiftBy(m, index, count, FALSE), Up(index, index + count), LAMBDA x, i : Construct(x, "ptr", i, v))

EraseMany(m, index, count) ==
  LET n == m.len - count
      u == For(m, Up(index, n), LAMBDA x, i :
             IF m.kind = "constructible"
               THEN MoveConstruct(Destroy(x, "ptr", i), "ptr", i, "ptr", i + count)
               ELSE MoveAssign(x, "ptr", i, "ptr", i + count))
  IN  [DestroyTail(u, n) EXCEPT !.len = n]

\* operator= (const vector&): assign, construct and destroy where the block is large
\* enough, or else start again.
CopyAssigned(m, w) ==
  LET n == Len(w)
      k == Min({m.len, n})
      a == For(m, Up(0, k), LAMBDA x, i : Assign(x, "ptr", i, w[i + 1]))
      d == DestroyTail(m, 0)
      r == IF n > AllocLen(m) THEN ResizeStorage([d EXCEPT !.len = 0], n) ELSE d
      Rest(x, from) == For(x, Up(from, n), LAMBDA y, i : Construct(y, "ptr", i, w[i + 1]))
  IN  IF n <= AllocLen(m) /\ m.kind # "constructible"
        THEN [DestroyTail(Rest(a, k), n) EXCEPT !.len = n]
        ELSE [Rest(r, 0) EXCEPT !.len = n]

(***************************************************************************)
(* Actions                                                                 *)
(***************************************************************************)
Fine == ~vec.bad /\ ~vec.null
Fits(count) == vec.len + count <= MaxLen /\ ExpandedSize(vec, count) <= MaxAlloc

\* Sequences: 'count' copies of x at 'index'; the element j after it was moved out.
Spliced(s, index, count, x) ==
  SubSeq(s, 1, index) \o [i \in 1 .. count |-> x] \o SubSeq(s, index + 1, Len(s))
Without(s, index, count) == SubSeq(s, 1, index) \o SubSeq(s, index + count + 1, Len(s))
SeqValue(src) == IF src.elem THEN seq[src.at + 1] ELSE src.val
SeqTaken(src, moving) ==
  IF src.elem /\ moving /\ vec.kind # "trivial" THEN [seq EXCEPT ![src.at + 1] = Moved] ELSE seq

Become(m, s) == vec' = m /\ seq' = s

\* push_back(), emplace_back(), generate() and their variants for several elements;
\* only a single one can be moved.
PushBack(count, src, moving) ==
  /\ Fine /\ Fits(count) /\ (moving => count = 1)
  /\ Become(PushBackMany(vec, count, src, moving),
            Spliced(SeqTaken(src, moving), vec.len, count, SeqValue(src)))

Insert(index, count, src, moving) ==
  /\ Fine /\ Fits(count) /\ (moving => count = 1)
  /\ Become(InsertMany(vec, index, count, src, moving),
            Spliced(SeqTaken(src, moving), index, count, SeqValue(src)))

\* emplace_no_invalidate(), emplace_many_no_invalidate(), generate_at_no_invalidate().
EmplaceNoInvalidate(index, count, src) ==
  /\ Fine /\ Fits(count)
  /\ Become(Regrow(vec, index, count, src, FALSE), Spliced(seq, index, count, SeqValue(src)))

\* Their variants that may invalidate references, and emplace_default().
EmplaceMayInvalidate(index, count, v) ==
  /\ Fine /\ Fits(count)
  /\ Become(EmplaceMany(vec, index, count, v), Spliced(seq, index, count, v))

Erase(index, count) ==
  /\ Fine /\ index + count <= vec.len
  /\ Become(EraseMany(vec, index, count), Without(seq, index, count))

\* pop_back(), pop_back_many() and clear().
PopBack(count) ==
  /\ Fine /\ count <= vec.len
  /\ Become([DestroyTail(vec, vec.len - count) EXCEPT !.len = @ - count],
            SubSeq(seq, 1, vec.len - count))

\* resize_storage() and reserve().
Resize(n) ==
  /\ Fine
  /\ Become(ResizeStorage(vec, n), SubSeq(seq, 1, Min({Len(seq), n})))

AssignCopy(w) == Fine /\ Become(CopyAssigned(vec, w), w)

\* The move assignment from a vector that was copied from w.
AssignMove(w) ==
  /\ Fine
  /\ LET m == ResizeStorage(vec, 0)
         c == [m EXCEPT !.blk.ptr = RawBlock(Len(w)), !.len = Len(w)]
     IN  Become(For(c, Up(0, Len(w)), LAMBDA x, i : Construct(x, "ptr", i, w[i + 1])), w)

\* allocate_raw_array() returns nullptr, and elements are constructed there.
PushBackFails ==
  /\ Fine /\ Spare(vec) = 0
  /\ vec' = [vec EXCEPT !.null = TRUE] /\ UNCHANGED seq

Stop == ~Fine /\ UNCHANGED vars

SeqsUpTo(n) == UNION {[1 .. k -> Values] : k \in 0 .. n}

Next ==
  \/ \E count \in 1 .. 2, src \in Sources, moving \in BOOLEAN :
       \/ PushBack(count, src, moving)
       \/ \E index \in 0 .. vec.len : Insert(index, count, src, moving)
  \/ \E index \in 0 .. vec.len, count \in 1 .. 2 :
       \/ \E src \in Sources : EmplaceNoInvalidate(index, count, src)
       \/ \E v \in Values : EmplaceMayInvalidate(index, count, v)
       \/ Erase(index, count)
  \/ \E count \in 1 .. vec.len : PopBack(count)
  \/ \E n \in 0 .. MaxLen : Resize(n)
  \/ \E w \in SeqsUpTo(MaxLen) : AssignCopy(w) \/ AssignMove(w)
  \/ PushBackFails
  \/ Stop

Spec == Init /\ [][Next]_vars

(***************************************************************************)
(* Properties                                                              *)
(***************************************************************************)
Cells == Values \cup {Raw, Moved}

TypeOK ==
  /\ vec.len \in 0 .. MaxLen /\ vec.kind \in Kinds /\ vec.bad \in BOOLEAN /\ vec.null \in BOOLEAN
  /\ AllocLen(vec) \in vec.len .. MaxAlloc
  /\ vec.blk.ptr \in [0 .. AllocLen(vec) - 1 -> Cells] /\ vec.blk.new = RawBlock(0)
  /\ seq \in Seq(Values \cup {Moved})

\* No object is constructed over a living one, used when dead or lost, in any order
\* of calls: every loop runs in the right direction and destroys what it leaves.
LifetimesRespected == ~vec.bad

\* Between calls exactly the first 'len' cells hold objects, so a later call never
\* finds one where it expects raw memory.
ObjectsExact ==
  vec.kind # "trivial" => \A i \in DOMAIN vec.blk.ptr : (vec.blk.ptr[i] # Raw) = (i < vec.len)

\* The elements are those of a sequence, also when what was inserted was an element
\* of the vector that a reallocation or a shift moved away.
ContentsRight == Fine => seq = [i \in 1 .. vec.len |-> vec.blk.ptr[i - 1]]

=============================================================================
