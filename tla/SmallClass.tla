----------------------------- MODULE SmallClass -----------------------------
(***************************************************************************)
(* The small-class allocator of one arena, src/memory/small_class.c.       *)
(*                                                                         *)
(* A block of 16 pages from the buddy allocator is cut into slots of one   *)
(* size class.  The links, bitmap and counter of a block live in the block *)
(* itself: once a block went back to the buddy allocator they keep what    *)
(* was there until the block is taken again.  An action is a whole call.   *)
(***************************************************************************)
EXTENDS Lists, FiniteSetsExt

CONSTANTS
  Classes,   \* size classes: 32, 64, .., 512, 1024, 2048 in the source
  Slots,     \* slots of a block of each class: (65536 - header) / size
  Blocks     \* order-4 blocks the buddy allocator can provide

\* The largest slots have 2048 of the 65536 bytes of a block.
ASSUME SmallClassAssumption ==
  /\ IsFiniteSet(Classes)
  /\ Slots \in [Classes -> Nat \ {0, 1}]
  /\ NULL \notin Blocks

VARIABLES
  held,       \* blocks taken from the buddy allocator
  cls,        \* the class a block was last cut for
  head,       \* small_class_avail_lists, class1024_avail_list, class2048_avail_list
  nextAvail, prevAvail,             \* links of the blocks with free slots
  blockHead, nextBlock, prevBlock,  \* arena->block_list and its links
  bitmap,     \* the free slots of a block
  slotNum,   \* avail_num of a block
  slots        \* history: the slots <<block, idx>> handed out

smallVars == <<held, cls, head, nextAvail, prevAvail, blockHead, nextBlock, prevBlock,
          bitmap, slotNum, slots>>

SlotsOf(cl) == 0 .. Slots[cl] - 1
AnySlot     == UNION {SlotsOf(cl) : cl \in Classes}

SmallTypeOK ==
  /\ held \subseteq Blocks
  /\ cls \in [Blocks -> Classes \cup {NULL}]
  /\ head \in [Classes -> Blocks \cup {NULL}]
  /\ blockHead \in Blocks \cup {NULL}
  /\ {nextAvail, prevAvail, nextBlock, prevBlock} \subseteq [Blocks -> Blocks \cup {NULL}]
  /\ bitmap \in [Blocks -> SUBSET AnySlot]
  /\ slotNum \in [Blocks -> 0 .. Cardinality(AnySlot)]
  /\ slots \subseteq held \X AnySlot

SmallInit ==
  /\ held = {} /\ slots = {} /\ blockHead = NULL
  /\ head     = [cl \in Classes |-> NULL]
  /\ cls      = [b \in Blocks |-> NULL]
  /\ bitmap   = [b \in Blocks |-> {}]
  /\ slotNum = [b \in Blocks |-> 0]
  /\ nextAvail = [b \in Blocks |-> NULL] /\ prevAvail = nextAvail
  /\ nextBlock = nextAvail /\ prevBlock = nextAvail

AvailList(cl) == [head |-> head[cl], next |-> nextAvail, prev |-> prevAvail]
BlockList     == [head |-> blockHead, next |-> nextBlock, prev |-> prevBlock]

SetAvailList(cl, l) ==
  /\ head' = [head EXCEPT ![cl] = l.head]
  /\ nextAvail' = l.next
  /\ prevAvail' = l.prev

SetBlockList(l) ==
  /\ blockHead' = l.head
  /\ nextBlock' = l.next
  /\ prevBlock' = l.prev

\* The head leaves the list and keeps its own links (small_class.c:94).
DropHead(l) ==
  [head |-> l.next[l.head],
   next |-> l.next,
   prev |-> Store(l.prev, l.next[l.head], l.prev[l.head])]

\* A fresh block joins a list: its 'prev' holds whatever was in memory before.
Enlist(l, b) == Push([l EXCEPT !.prev[b] = NULL], b)

(***************************************************************************)
(* small_alloc                                                             *)
(***************************************************************************)

\* Mutant of FreshBits: one bit too many.
FreshBitsAndOne(cl) == 0 .. Slots[cl]

\* The bitmap of a fresh block.
FreshBits(cl) == SlotsOf(cl)

\* The lowest free slot of the head of the class is taken.
SmallAlloc(cl) ==
  /\ head[cl] # NULL
  /\ LET b == head[cl]
         i == Min(bitmap[b])
     IN  /\ bitmap'   = [bitmap EXCEPT ![b] = @ \ {i}]
         /\ slotNum' = [slotNum EXCEPT ![b] = @ - 1]
         /\ SetAvailList(cl, IF slotNum[b] = 1 THEN DropHead(AvailList(cl)) ELSE AvailList(cl))
         /\ slots'     = slots \cup {<<b, i>>}
  /\ UNCHANGED <<held, cls, blockHead, nextBlock, prevBlock>>

\* No block of the class has a free slot: allocate_class_block gets block b, and
\* its first slot is taken.
SmallAllocNew(cl, b) ==
  /\ head[cl] = NULL
  /\ b \notin held
  /\ held' = held \cup {b}
  /\ cls'  = [cls EXCEPT ![b] = cl]
  /\ LET listed == Enlist(AvailList(cl), b)
     IN  SetAvailList(cl, IF Slots[cl] = 1 THEN DropHead(listed) ELSE listed)
  /\ SetBlockList(Enlist(BlockList, b))
  /\ bitmap'   = [bitmap EXCEPT ![b] = FreshBits(cl) \ {0}]
  /\ slotNum' = [slotNum EXCEPT ![b] = Slots[cl] - 1]
  /\ slots'     = slots \cup {<<b, 0>>}

\* No block of the class has a free slot and the buddy allocator has none.
SmallAllocFails(cl) ==
  /\ head[cl] = NULL
  /\ UNCHANGED smallVars

(***************************************************************************)
(* small_free.  A block that gets its first free slot joins its list; one  *)
(* that is wholly free is returned unless it is the only one in its list.  *)
(***************************************************************************)

\* Mutant of Goes: the only block in the list is returned too.
GoesAlways(b) ==
  /\ slotNum[b] + 1 # 1
  /\ slotNum[b] + 1 = Slots[cls[b]]

\* One more free slot makes block b go back to the buddy allocator.
Goes(b) ==
  /\ slotNum[b] + 1 # 1
  /\ slotNum[b] + 1 = Slots[cls[b]]
  /\ prevAvail[b] # NULL \/ nextAvail[b] # NULL

SmallFree(b, i) ==
  /\ ~Goes(b)
  /\ bitmap'   = [bitmap EXCEPT ![b] = @ \cup {i}]
  /\ slotNum' = [slotNum EXCEPT ![b] = @ + 1]
  /\ SetAvailList(cls[b], IF slotNum[b] = 0 THEN Push(AvailList(cls[b]), b)
                          ELSE AvailList(cls[b]))
  /\ slots'     = slots \ {<<b, i>>}
  /\ UNCHANGED <<held, cls, blockHead, nextBlock, prevBlock>>

\* b leaves the list, whose links in b itself are no longer of interest.
TakeOut(l, b) ==
  [head |-> IF l.head = b THEN l.next[b] ELSE l.head,
   next |-> Store(l.next, l.prev[b], l.next[b]),
   prev |-> Store(l.prev, l.next[b], l.prev[b])]

SmallFreeReturns(b, i) ==
  /\ Goes(b)
  /\ bitmap'   = [bitmap EXCEPT ![b] = @ \cup {i}]
  /\ slotNum' = [slotNum EXCEPT ![b] = @ + 1]
  /\ SetAvailList(cls[b], TakeOut(AvailList(cls[b]), b))
  /\ SetBlockList(TakeOut(BlockList, b))
  /\ held'     = held \ {b}
  /\ slots'     = slots \ {<<b, i>>}
  /\ UNCHANGED cls

SmallNext ==
  \/ \E cl \in Classes :
       SmallAlloc(cl) \/ SmallAllocFails(cl) \/ \E b \in Blocks : SmallAllocNew(cl, b)
  \/ \E s \in slots : SmallFree(s[1], s[2]) \/ SmallFreeReturns(s[1], s[2])

SmallSpec == SmallInit /\ [][SmallNext]_smallVars

(***************************************************************************)
(* Properties                                                              *)
(***************************************************************************)

BlocksOfClass(cl) == {b \in held : cls[b] = cl}
LiveIn(b)         == {s \in slots : s[1] = b}

\* The list of a class holds exactly its blocks with a free slot and block_list
\* all blocks, although links of blocks outside a list dangle (small_class.c:94)
\* and links of fresh blocks are whatever memory held before.
BlockListsSound ==
  /\ \A cl \in Classes :
       Chained(AvailList(cl), {b \in BlocksOfClass(cl) : bitmap[b] # {}})
  /\ Chained(BlockList, held)

\* A slot of a block is free or handed out, never both or neither, and avail_num
\* counts the free ones: what decides when a block is full or goes back.
SlotsPartitioned ==
  \A b \in held :
    /\ {<<b, i>> : i \in SlotsOf(cls[b]) \ bitmap[b]} = LiveIn(b)
    /\ slotNum[b] = Cardinality(bitmap[b])

\* "If the current block is the only block of this class with empty slots, do not
\* free it" (small_class.c:131) is the only reason to keep a wholly free block:
\* no class ever holds two.
OneIdleBlock ==
  \A cl \in Classes :
    Cardinality({b \in BlocksOfClass(cl) : LiveIn(b) = {}}) <= 1

\* A block goes back only when nothing in it is handed out, and its class is left
\* with free slots for "more allocations later" (small_class.c:132).
ReturnsOnlyIdleBlocks ==
  \A b \in held \ held' : (\A s \in slots' : s[1] # b) /\ head'[cls[b]] # NULL

==============================================================================
