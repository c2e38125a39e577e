---------------------------- MODULE MallocLayout ----------------------------
(***************************************************************************)
(* The arithmetic of malloc.c: which size class a request gets, where in   *)
(* its piece of memory the 16 bytes of metadata and the pointer that is    *)
(* returned lie, and how free() finds allocator, class and piece again     *)
(* from the pointer and the metadata alone.                                *)
(*                                                                         *)
(* Addresses are byte offsets; 0 is a multiple of every alignment.         *)
(***************************************************************************)
EXTENDS Lists, Integers, FiniteSetsExt

CONSTANTS
  Sizes,       \* requested sizes
  Alignments,  \* requested alignments, powers of two
  TASK_SIZE,   \* 2^47 - 1 in the source
  Header,      \* CLASS_BLOCK_HEADER_SIZE
  MaxIndex     \* bound: pieces behind the first few and before the last are alike

ASSUME LayoutAssumption ==
  /\ Sizes \subseteq Nat
  /\ Alignments \subseteq {2 ^ k : k \in 0 .. 29}
  /\ TASK_SIZE \in Nat /\ MaxIndex \in Nat
  /\ Header \in Nat /\ Header % 16 = 0

VARIABLES
  request,  \* [tagged, alignment, size]: aligned_alloc or aligned_tagged_alloc
  piece,    \* what the underlying allocator returned: [base, at, idx], where
            \* base + idx * class is where the piece starts
  meta,     \* low bits of the words x and y
  ptr,      \* the pointer the caller gets
  freed     \* what free() makes of it: [layer, class, idx]

layoutVars == <<request, piece, meta, ptr, freed>>

Requests == [tagged : BOOLEAN, alignment : Alignments, size : Sizes]

(***************************************************************************)
(* Size classes                                                            *)
(***************************************************************************)

RoundUp(n, m) == n + ((-n) % m)

PowerAbove(n) == Min({2 ^ k : k \in 0 .. 18} \cap (n .. 262144))

\* get_class
GetClass(n) ==
  IF n <= 512 THEN RoundUp(n, 32)
  ELSE IF n <= 262144 THEN PowerAbove(n) ELSE RoundUp(n, 4096)

Layer(class) ==
  IF class <= 2048 THEN "small" ELSE IF class <= 262144 THEN "buddy" ELSE "mmap"

\* malloc() is aligned_alloc() with an alignment of at most 16.
Padding(r) ==
  (IF r.alignment <= 16 THEN 16 ELSE r.alignment) + (IF r.tagged THEN 16 ELSE 0)

Class(r) == GetClass(r.size + Padding(r))

\* The requests that are answered by NULL before an allocator is asked.
Refused(r) ==
  \/ r.size = 0
  \/ r.size > TASK_SIZE
  \/ r.alignment > TASK_SIZE
  \/ Class(r) > TASK_SIZE

\* The pieces an allocator can return: slots behind the header of a block of 16
\* pages, blocks of a chunk, whole regions; chunks and regions are page-aligned.
ChunkPages(r) == {4096 * j : j \in 0 .. (IF r.alignment > 4096 THEN r.alignment \div 4096 ELSE 1) - 1}

PieceCount(class) ==
  CASE Layer(class) = "small" -> (65536 - Header) \div class
    [] Layer(class) = "buddy" -> 524288 \div class
    [] OTHER                  -> 1

Indices(class) ==
  {i \in 0 .. PieceCount(class) - 1 : i <= MaxIndex \/ i = PieceCount(class) - 1}

Pieces(r) ==
  LET offset == IF Layer(Class(r)) = "small" THEN Header ELSE 0
  IN  {[base |-> p + offset, idx |-> i] : p \in ChunkPages(r), i \in Indices(Class(r))}

PieceStart(r, p) == p.base + p.idx * Class(r)

(***************************************************************************)
(* Placing the metadata                                                    *)
(***************************************************************************)

\* The metadata and, for a tagged allocation, the tag lie before the aligned byte.
Lead(r) == IF r.tagged THEN 32 ELSE 16

Shift(r, start) ==
  IF r.alignment <= 16 THEN 0
  ELSE (r.alignment - Lead(r) - (start % r.alignment)) % r.alignment

TrailingZeros(n) == Max({k \in 0 .. 18 : n % 2 ^ k = 0})

\* Mutant of Tag: the comparison with 1024 is off by one.
TagOffByOne(r) ==
  LET class == Class(r)
      s == IF class > 262144 THEN 31
           ELSE IF class > 1024 THEN TrailingZeros(class) + 7 ELSE class \div 32
  IN  [x |-> s % 8, y |-> ((s \div 8) % 4) + (IF r.tagged THEN 4 ELSE 0)]

\* The metadata in the low three bits of x and y.
Tag(r) ==
  LET class == Class(r)
      s == IF class > 262144 THEN 31
           ELSE IF class >= 1024 THEN TrailingZeros(class) + 7 ELSE class \div 32
  IN  [x |-> s % 8, y |-> ((s \div 8) % 4) + (IF r.tagged THEN 4 ELSE 0)]

AllocPiece ==
  /\ ptr = NULL
  /\ ~Refused(request)
  /\ \E p \in Pieces(request) :
       /\ piece' = p
       /\ ptr'   = PieceStart(request, p) + Shift(request, PieceStart(request, p)) + 16
  /\ meta' = Tag(request)
  /\ UNCHANGED <<request, freed>>

(***************************************************************************)
(* free_with_arena_internal                                                *)
(***************************************************************************)
Freed(m, p, base) ==
  LET s == m.x + 8 * (m.y % 4) IN
  CASE s = 31       -> [layer |-> "mmap", class |-> NULL, idx |-> 0]
    [] s \in 0 .. 16 -> [layer |-> "small", class |-> 32 * s,
                         idx |-> IF s = 0 THEN NULL ELSE (p - base) \div (32 * s)]
    [] s = 17       -> [layer |-> "small", class |-> 1024, idx |-> (p - base) \div 1024]
    [] s = 18       -> [layer |-> "small", class |-> 2048, idx |-> (p - base) \div 2048]
    [] s \in 19 .. 25 -> [layer |-> "buddy", class |-> 2 ^ (s - 7),
                         idx |-> (p - base) \div 2 ^ (s - 7)]
    [] OTHER        -> [layer |-> NULL, class |-> NULL, idx |-> NULL]

FreePiece ==
  /\ ptr # NULL /\ freed = NULL
  /\ freed' = Freed(meta, ptr, piece.base)
  /\ UNCHANGED <<request, piece, meta, ptr>>

LayoutInit ==
  /\ request \in Requests
  /\ piece = NULL /\ meta = NULL /\ ptr = NULL /\ freed = NULL

LayoutNext == AllocPiece \/ FreePiece

LayoutSpec == LayoutInit /\ [][LayoutNext]_layoutVars

(***************************************************************************)
(* Properties                                                              *)
(***************************************************************************)

Start == PieceStart(request, piece)

\* Metadata, the bytes asked for (and the 16 bytes for a tag), and the link of
\* the free-set all lie inside the piece, and the mark at its first 8 bytes
\* (malloc.c:28) never overlaps the metadata.
FitsPiece ==
  ptr # NULL =>
    LET used == request.size + (IF request.tagged THEN 16 ELSE 0) IN
    /\ ptr - 16 = Start \/ ptr - 16 >= Start + 8
    /\ ptr + used <= Start + Class(request)
    /\ ptr + 8 <= Start + Class(request)

\* "It is guaranteed that ptr is aligned to 8, and (ptr + 16) is aligned to
\* alignment" (memory.h:160), ptr itself for untagged allocations; the sums rely
\* on unsigned underflow (malloc.c:295).
AlignmentMet ==
  ptr # NULL =>
    /\ (IF request.tagged THEN ptr + 16 ELSE ptr) % request.alignment = 0
    /\ ptr % 16 = 0

\* free() passes the pointer on to the allocator and the class that made it, and
\* the index computed from a pointer into the middle of the piece is its index:
\* the bits in x and y are read as malloc() wrote them for all 26 classes.
FreedAsAllocated ==
  freed # NULL =>
    /\ freed.layer = Layer(Class(request))
    /\ freed.layer # "mmap" => freed.class = Class(request)
    /\ freed.idx = piece.idx

==============================================================================
