-------------------------------- MODULE Buddy --------------------------------
(***************************************************************************)
(* The buddy allocator of one arena, src/memory/buddy.c.                   *)
(*                                                                         *)
(* A chunk of 2^(TopOrder + 1) pages starts as two blocks of TopOrder and  *)
(* is split in halves on demand; the source has TopOrder = 6 and one       *)
(* function buddy_alloc_k and buddy_free_k per order, each calling the one *)
(* of the next order.  An action is one whole call, nested calls included. *)
(* Chunks are named by their buddy_chunk_state records, bitmaps are sets.  *)
(***************************************************************************)
EXTENDS Lists, FiniteSetsExt

CONSTANTS
  TopOrder,   \* 6 in the source
  PerGroup,   \* BUDDY_RECORDS_PER_GROUP
  MaxGroups,  \* bound: how many groups of records mmap can provide
  MaxLive,    \* bound: how many blocks the callers hold at a time
  Keep        \* LIBC_KEEP_CHUNK_NUM

ASSUME BuddyAssumption ==
  /\ TopOrder \in Nat \ {0}
  /\ PerGroup \in Nat \ {0}
  /\ MaxGroups \in Nat \ {0}
  /\ MaxLive \in Nat
  /\ Keep \in Nat
  /\ NULL \notin Nat

Records == 0 .. MaxGroups * PerGroup - 1
Orders  == 0 .. TopOrder
Unused  == TopOrder + 1    \* the list of buddy_chunk_state records not in use
BlocksOf(k) == 0 .. 2 ^ (TopOrder + 1 - k) - 1

VARIABLES
  groups,    \* number of buddy_chunk_state_groups, in the order of their mmap
  avail,     \* bitmap0 .. bitmap6 of a record
  availNum,  \* avail_num[] of a record
  split,     \* split1 .. split6 of a record
  list,      \* the arena's availk lists, and the list of unused records
  inUse,     \* the records whose in_use is 1
  chunkNum,  \* arena->chunk_num
  live       \* history: the blocks <<record, order, idx>> handed out

buddyVars == <<groups, avail, availNum, split, list, inUse, chunkNum, live>>

BuddyTypeOK ==
  /\ groups \in 0 .. MaxGroups
  /\ \A c \in Records, k \in Orders :
       /\ avail[c][k] \subseteq BlocksOf(k)
       /\ split[c][k] \subseteq BlocksOf(k)
       /\ availNum[c][k] \in 0 .. Cardinality(BlocksOf(k))
  /\ \A k \in Orders \cup {Unused} :
       /\ list[k].head \in Records \cup {NULL}
       /\ \A c \in Records : {list[k].next[c], list[k].prev[c]} \subseteq Records \cup {NULL}
  /\ inUse \subseteq Records
  /\ chunkNum \in 0 .. Cardinality(Records)
  /\ \A b \in live : b[1] \in Records /\ b[2] \in Orders /\ b[3] \in BlocksOf(b[2])

NoBlocks == [k \in Orders |-> {}]

BuddyInit ==
  /\ groups   = 0
  /\ avail    = [c \in Records |-> NoBlocks]
  /\ availNum = [c \in Records |-> [k \in Orders |-> 0]]
  /\ split    = [c \in Records |-> NoBlocks]
  /\ list     = [k \in Orders \cup {Unused} |-> EmptyList(Records)]
  /\ inUse    = {}
  /\ chunkNum = 0
  /\ live     = {}

(***************************************************************************)
(* Blocks                                                                  *)
(***************************************************************************)

BuddyOf(i) == IF i % 2 = 0 THEN i + 1 ELSE i - 1

\* The block of order m that contains block i of the smaller order k.
Above(i, k, m) == i \div 2 ^ (m - k)

\* The leftmost block of order m inside block i of the larger order j.
LeftIn(i, j, m) == i * 2 ^ (j - m)

(***************************************************************************)
(* Allocation.  On the way back from buddy_alloc_j every order m below j   *)
(* keeps the right half of the block it was given and passes the left half *)
(* down; a list that gets its chunk's first block gets the chunk.          *)
(***************************************************************************)

\* Mutant of KeepRightHalves: the half passed down is the one kept.
KeepLeftHalves(a, k, j, i) ==
  [m \in Orders |-> IF m \in k .. j - 1 THEN a[m] \cup {LeftIn(i, j, m)} ELSE a[m]]

KeepRightHalves(a, k, j, i) ==
  [m \in Orders |-> IF m \in k .. j - 1 THEN a[m] \cup {LeftIn(i, j, m) + 1} ELSE a[m]]

CountRightHalves(n, k, j) ==
  [m \in Orders |-> IF m \in k .. j - 1 THEN n[m] + 1 ELSE n[m]]

MarkSplit(s, k, j, i) ==
  [m \in Orders |-> IF m \in k + 1 .. j THEN s[m] \cup {LeftIn(i, j, m)} ELSE s[m]]

ListRightHalves(ls, k, j, c) ==
  [m \in DOMAIN ls |->
     IF m \in k .. j - 1 /\ availNum[c][m] = 0 THEN Push(ls[m], c) ELSE ls[m]]

\* The orders from k up that have a block, and the block buddy_alloc_k takes.
Fits(k) == {m \in k .. TopOrder : list[m].head # NULL}

BestFit(k) ==
  LET j == Min(Fits(k))
      c == list[j].head
  IN  <<c, j, Min(avail[c][j])>>

AllocBlock(k) ==
  /\ Fits(k) # {}
  /\ LET c == BestFit(k)[1]
         j == BestFit(k)[2]
         i == BestFit(k)[3]
         rest  == [avail[c] EXCEPT ![j] = @ \ {i}]
         left  == [availNum[c] EXCEPT ![j] = @ - 1]
         taken == [list EXCEPT ![j] = IF availNum[c][j] = 1 THEN PopHead(@) ELSE @]
     IN  /\ avail'    = [avail EXCEPT ![c] = KeepRightHalves(rest, k, j, i)]
         /\ availNum' = [availNum EXCEPT ![c] = CountRightHalves(left, k, j)]
         /\ split'    = [split EXCEPT ![c] = MarkSplit(@, k, j, i)]
         /\ list'     = ListRightHalves(taken, k, j, c)
         /\ live'     = live \cup {<<c, k, LeftIn(i, j, k)>>}
  /\ UNCHANGED <<groups, inUse, chunkNum>>

\* allocate_buddy_chunk_state_group: the records of group g, chained in order.
GroupRecords(g) == g * PerGroup .. (g + 1) * PerGroup - 1

AddGroup(l, g) ==
  LET R == GroupRecords(g) IN
  [head |-> Min(R),
   next |-> [r \in Records |-> IF r \notin R THEN l.next[r]
                               ELSE IF r = Max(R) THEN l.head ELSE r + 1],
   prev |-> [r \in Records |-> IF r = l.head THEN Max(R)
                               ELSE IF r \notin R \ {Min(R)} THEN l.prev[r] ELSE r - 1]]

\* allocate_buddy_chunk_state finds a record: unused ones first, then a new
\* group, if mmap has one.
RecordFound ==
  \/ list[Unused].head # NULL /\ groups' = groups
  \/ list[Unused].head = NULL /\ groups < MaxGroups /\ groups' = groups + 1

UnusedRecords ==
  IF list[Unused].head # NULL THEN list[Unused] ELSE AddGroup(list[Unused], groups)

\* No block fits: a new chunk is mapped, block 0 of its two top blocks is taken.
NewChunk(k) ==
  /\ Fits(k) = {}
  /\ RecordFound
  /\ LET c == UnusedRecords.head
         mapped == [list EXCEPT ![Unused]   = PopHead(UnusedRecords),
                                ![TopOrder] = Push(@, c)]
     IN  /\ avail'    = [avail EXCEPT ![c] =
                           KeepRightHalves([@ EXCEPT ![TopOrder] = {1}], k, TopOrder, 0)]
         /\ availNum' = [availNum EXCEPT ![c] =
                           CountRightHalves([@ EXCEPT ![TopOrder] = 1], k, TopOrder)]
         /\ split'    = [split EXCEPT ![c] = MarkSplit(@, k, TopOrder, 0)]
         /\ list'     = ListRightHalves(mapped, k, TopOrder, c)
         /\ inUse'    = inUse \cup {c}
         /\ live'     = live \cup {<<c, k, 0>>}
  /\ chunkNum' = chunkNum + 1

\* free_buddy_chunk_state: the record is zeroed and becomes the unused head.
Recycle(ls, c) ==
  LET zeroed == [m \in DOMAIN ls |-> [ls[m] EXCEPT !.next[c] = NULL, !.prev[c] = NULL]]
  IN  [zeroed EXCEPT ![Unused] = Push(@, c)]

\* No block fits and mmap provides no records; nothing changes.
NoRecord(k) ==
  /\ Fits(k) = {}
  /\ list[Unused].head = NULL
  /\ UNCHANGED buddyVars

\* No block fits, there is a record, but mmap provides no chunk.
NoChunk(k) ==
  /\ Fits(k) = {}
  /\ RecordFound
  /\ list' = Recycle([list EXCEPT ![Unused] = PopHead(UnusedRecords)], UnusedRecords.head)
  /\ UNCHANGED <<avail, availNum, split, inUse, chunkNum, live>>

(***************************************************************************)
(* Freeing.  A block whose buddy is available merges with it and the block *)
(* of the next order is freed instead; at the top the chunk is returned to *)
(* the system if both halves are free and enough chunks remain.            *)
(***************************************************************************)

\* The order at which the freeing of block i of order k of chunk c stops.
LastMerge(c, k, i) ==
  Min({j \in k .. TopOrder :
         j = TopOrder \/ BuddyOf(Above(i, k, j)) \notin avail[c][j]})

\* The orders below j lose the buddy that was merged.
TakeBuddies(c, k, i, j) ==
  [m \in Orders |-> IF m \in k .. j - 1 THEN avail[c][m] \ {BuddyOf(Above(i, k, m))}
                    ELSE avail[c][m]]

CountBuddies(c, k, j) ==
  [m \in Orders |-> IF m \in k .. j - 1 THEN availNum[c][m] - 1 ELSE availNum[c][m]]

ClearSplit(c, k, i, j) ==
  [m \in Orders |-> IF m \in k + 1 .. j THEN split[c][m] \ {Above(i, k, m)} ELSE split[c][m]]

UnlistBuddies(c, k, j) ==
  [m \in DOMAIN list |->
     IF m \in k .. j - 1 /\ availNum[c][m] = 1 THEN Unlink(list[m], c) ELSE list[m]]

\* Mutant of ChunkGoes: chunks are never returned.
NoChunkGoes(c, k, i) == FALSE

\* Freeing block i of order k leaves chunk c wholly free, and there are enough.
ChunkGoes(c, k, i) ==
  LET top == Above(i, k, TopOrder) IN
  /\ LastMerge(c, k, i) = TopOrder
  /\ BuddyOf(top) \in avail[c][TopOrder]
  /\ chunkNum > Keep

FreeBlock(c, k, i) ==
  LET j == LastMerge(c, k, i) IN
  /\ ~ChunkGoes(c, k, i)
  /\ avail'    = [avail EXCEPT ![c] =
                    [TakeBuddies(c, k, i, j) EXCEPT ![j] = @ \cup {Above(i, k, j)}]]
  /\ availNum' = [availNum EXCEPT ![c] = [CountBuddies(c, k, j) EXCEPT ![j] = @ + 1]]
  /\ split'    = [split EXCEPT ![c] = ClearSplit(c, k, i, j)]
  /\ list'     = [UnlistBuddies(c, k, j) EXCEPT
                    ![j] = IF availNum[c][j] = 0 THEN Push(@, c) ELSE @]
  /\ live'     = live \ {<<c, k, i>>}
  /\ UNCHANGED <<groups, inUse, chunkNum>>

ReleaseChunk(c, k, i) ==
  /\ ChunkGoes(c, k, i)
  /\ avail'    = [avail EXCEPT ![c] = NoBlocks]
  /\ availNum' = [availNum EXCEPT ![c] = [m \in Orders |-> 0]]
  /\ split'    = [split EXCEPT ![c] = NoBlocks]
  /\ list'     = Recycle([UnlistBuddies(c, k, TopOrder) EXCEPT ![TopOrder] = Unlink(@, c)], c)
  /\ inUse'    = inUse \ {c}
  /\ chunkNum' = chunkNum - 1
  /\ live'     = live \ {<<c, k, i>>}
  /\ UNCHANGED groups

Alloc(k) == AllocBlock(k) \/ NewChunk(k) \/ NoRecord(k) \/ NoChunk(k)
Free(b)  == FreeBlock(b[1], b[2], b[3]) \/ ReleaseChunk(b[1], b[2], b[3])

BuddyNext ==
  \/ Cardinality(live) < MaxLive /\ \E k \in Orders : Alloc(k)
  \/ \E b \in live : Free(b)

BuddySpec == BuddyInit /\ [][BuddyNext]_buddyVars

(***************************************************************************)
(* Properties                                                              *)
(***************************************************************************)

Covers(k, i, p) == p \div 2 ^ k = i
Pages == 0 .. 2 ^ (TopOrder + 1) - 1

\* Every page of a chunk belongs to exactly one block that is handed out or
\* available: no page is lost and none is given out twice, however blocks are
\* split and merged (buddy.c:251, 537).
PagesPartitioned ==
  \A c \in inUse : \A p \in Pages :
    Cardinality({k \in Orders :
      LET i == p \div 2 ^ k IN i \in avail[c][k] \/ <<c, k, i>> \in live}) = 1

\* A request fails, or maps a chunk, only if no aligned run of free pages in any
\* chunk could hold it: merging leaves nothing unmerged (buddy.c:537, 684).
FindsSpace ==
  \A k \in Orders : Fits(k) = {} =>
    \A c \in inUse, i \in BlocksOf(k) :
      \E b \in live : b[1] = c /\ \E p \in Pages : Covers(k, i, p) /\ Covers(b[2], b[3], p)

\* The comment at buddy.c:70: every list is properly linked in both directions;
\* a chunk is in the list of an order exactly while it has an available block of
\* it, and avail_num counts those; a record without chunk is in the unused list,
\* also after a failed mmap (buddy.c:174).
ChunkListsSound ==
  /\ \A k \in Orders : Holds(list[k], {c \in Records : avail[c][k] # {}})
  /\ \A c \in Records, k \in Orders : availNum[c][k] = Cardinality(avail[c][k])
  /\ Holds(list[Unused], {c \in Records : c < groups * PerGroup} \ inUse)

\* The comment at buddy.c:31, on which heap scanners rely: a block that is
\* neither available nor split was handed out as one allocation.
SplitTellsAllocations ==
  \A c \in inUse, k \in Orders : \A i \in BlocksOf(k) :
    <<c, k, i>> \in live <=>
      /\ i \notin avail[c][k]
      /\ i \notin split[c][k]
      /\ k = TopOrder \/ i \div 2 \in split[c][k + 1]

\* "If all blocks within a chunk are freed, the chunk is returned to the OS.  We
\* also keep a small number of chunks always available" (buddy.c:17): above
\* LIBC_KEEP_CHUNK_NUM no chunk stays mapped without an allocation in it.
NoIdleChunk ==
  /\ chunkNum = Cardinality(inUse)
  /\ chunkNum > Keep => \A c \in inUse : \E b \in live : b[1] = c

\* A chunk is unmapped only when its last allocation is freed, and never below
\* LIBC_KEEP_CHUNK_NUM chunks (buddy.c:512).
UnmapsOnlyIdleChunks ==
  /\ \A c \in inUse \ inUse' : \A b \in live' : b[1] # c
  /\ chunkNum' < chunkNum => chunkNum' >= Keep

==============================================================================
