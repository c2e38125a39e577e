-------------------------------- MODULE Arena --------------------------------
(***************************************************************************)
(* One malloc arena of src/memory/malloc.c: the three allocators stacked   *)
(* the way its owner calls them.  Small classes cut blocks of the buddy    *)
(* allocator, the buddy allocator cuts chunks of the mmap allocator, and   *)
(* malloc() picks a layer by the size.  A step of the arena is one call of *)
(* malloc() or free(): the joint step of the layers the call goes through. *)
(***************************************************************************)
EXTENDS Buddy, TLC

CONSTANTS
  BlockOrder,        \* 4 in the source: the order of the blocks cut into slots
  Classes, Slots,    \* of SmallClass
  MmapPerGroup, MmapMaxGroups, Regions   \* of MmapAlloc

VARIABLES
  held, cls, head, nextAvail, prevAvail, blockHead, nextBlock, prevBlock,
  bitmap, slotNum, slots,   \* small_class_arena
  arena, mapped, regions,   \* mmap_arena and the system
  chunk,    \* chunk and chunk_mmap_ctx of a buddy_chunk_state: <<region, record>>
  groupMem, \* the same of the groups of buddy_chunk_states, as a set
  user      \* history: what malloc() returned, as <<layer, allocation>>

smallVars == <<held, cls, head, nextAvail, prevAvail, blockHead, nextBlock,
               prevBlock, bitmap, slotNum, slots>>
mmapVars  == <<arena, mapped, regions>>
chunkVars == <<chunk, groupMem>>
arenaVars == <<buddyVars, smallVars, mmapVars, chunkVars, user>>

SmallBlocks == {<<c, BlockOrder, i>> : c \in Records, i \in BlocksOf(BlockOrder)}

ASSUME ArenaAssumption ==
  /\ BlockOrder \in Orders
  /\ IsFiniteSet(Classes)
  /\ Slots \in [Classes -> Nat \ {0, 1}]
  /\ NULL \notin SmallBlocks
  /\ {MmapPerGroup, MmapMaxGroups} \subseteq Nat \ {0}
  /\ NULL \notin Regions

Small == INSTANCE SmallClass WITH Blocks <- SmallBlocks
Mmap  == INSTANCE MmapAlloc

ArenaInit ==
  /\ BuddyInit
  /\ Small!SmallInit
  /\ Mmap!MmapInit
  /\ chunk = [c \in Records |-> NULL]
  /\ groupMem = {}
  /\ user = {}

(***************************************************************************)
(* The buddy allocator on top of the mmap allocator                        *)
(***************************************************************************)

\* What an outcome of mmap_alloc hands out.
Handed(o) == IF o.got = NULL THEN {} ELSE {<<o.got, o.arena.active>>}

\* The first mmap_alloc of a call: memory for a group of records, if none is left.
GroupOutcomes ==
  IF list[Unused].head # NULL THEN {[arena |-> arena, got |-> NULL]}
  ELSE Mmap!Outcomes(arena, Regions \ mapped)

\* Mutant of MoreMemory: the memory of the chunk is asked for before the record.
MoreMemorySwapped(k) ==
  /\ Fits(k) = {}
  /\ \E o \in Mmap!Outcomes(arena, Regions \ mapped) :
       /\ list[Unused].head = NULL /\ o.got # NULL /\ NoRecord(k)
       /\ arena' = o.arena /\ mapped' = mapped \cup {o.got} /\ regions' = regions \cup Handed(o)
       /\ UNCHANGED chunkVars

\* The buddy allocator finds no block: it looks for a record, then for the memory
\* of a chunk; without that the record is unused again, but its group stays.
MoreMemory(k) ==
  \E g \in GroupOutcomes :
    IF list[Unused].head = NULL /\ g.got = NULL
    THEN NoRecord(k) /\ arena' = g.arena /\ UNCHANGED <<mapped, regions, chunkVars>>
    ELSE \E o \in Mmap!Outcomes(g.arena, Regions \ (mapped \cup {g.got})) :
           /\ IF o.got = NULL THEN NoChunk(k) ELSE NewChunk(k)
           /\ arena'    = o.arena
           /\ mapped'   = mapped \cup ({g.got, o.got} \ {NULL})
           /\ regions'  = regions \cup Handed(g) \cup Handed(o)
           /\ groupMem' = groupMem \cup Handed(g)
           /\ chunk'    = IF o.got = NULL THEN chunk
                          ELSE [chunk EXCEPT ![UnusedRecords.head] = <<o.got, o.arena.active>>]

\* buddy_alloc_k
BuddyCall(k) == (AllocBlock(k) /\ UNCHANGED <<mmapVars, chunkVars>>) \/ MoreMemory(k)

\* Mutant of BuddyFree: the record of the chunk is given up, the memory is not.
BuddyFreeKeepsChunk(b) ==
  \/ FreeBlock(b[1], b[2], b[3]) /\ UNCHANGED <<mmapVars, chunkVars>>
  \/ /\ ReleaseChunk(b[1], b[2], b[3])
     /\ chunk' = [chunk EXCEPT ![b[1]] = NULL]
     /\ UNCHANGED <<mmapVars, groupMem>>

\* buddy_free_k
BuddyFree(b) ==
  \/ FreeBlock(b[1], b[2], b[3]) /\ UNCHANGED <<mmapVars, chunkVars>>
  \/ /\ ReleaseChunk(b[1], b[2], b[3])
     /\ Mmap!MmapFree(chunk[b[1]][2])
     /\ chunk' = [chunk EXCEPT ![b[1]] = NULL]
     /\ UNCHANGED groupMem

(***************************************************************************)
(* malloc: the layer is chosen by the size class; NULL is returned when    *)
(* the layer, or one below it, has no memory                               *)
(***************************************************************************)

\* small_alloc; allocate_class_block asks the buddy allocator once.
MallocSmall(cl) ==
  /\ \/ Small!SmallAlloc(cl) /\ UNCHANGED <<buddyVars, mmapVars, chunkVars>>
     \/ /\ BuddyCall(BlockOrder)
        /\ IF live' = live THEN Small!SmallAllocFails(cl)
           ELSE \E b \in live' \ live : Small!SmallAllocNew(cl, b)
  /\ user' = user \cup ({"small"} \X (slots' \ slots))

MallocPages(k) ==
  /\ BuddyCall(k)
  /\ user' = user \cup ({"buddy"} \X (live' \ live))
  /\ UNCHANGED smallVars

MallocRegion ==
  /\ Mmap!MmapAlloc
  /\ user' = user \cup ({"mmap"} \X (regions' \ regions))
  /\ UNCHANGED <<buddyVars, smallVars, chunkVars>>

(***************************************************************************)
(* free_with_arena_internal: the layer is read from the metadata           *)
(***************************************************************************)

\* Mutant of FreeSmall: a returned block is not handed to the buddy allocator.
FreeSmallKeepsBlock(s) ==
  /\ \/ Small!SmallFree(s[1], s[2])
     \/ Small!SmallFreeReturns(s[1], s[2])
  /\ user' = user \ {<<"small", s>>}
  /\ UNCHANGED <<buddyVars, mmapVars, chunkVars>>

FreeSmall(s) ==
  /\ \/ Small!SmallFree(s[1], s[2]) /\ UNCHANGED <<buddyVars, mmapVars, chunkVars>>
     \/ Small!SmallFreeReturns(s[1], s[2]) /\ BuddyFree(s[1])
  /\ user' = user \ {<<"small", s>>}

FreePages(b) ==
  /\ BuddyFree(b)
  /\ user' = user \ {<<"buddy", b>>}
  /\ UNCHANGED smallVars

FreeRegion(a) ==
  /\ Mmap!MmapFree(a[2])
  /\ user' = user \ {<<"mmap", a>>}
  /\ UNCHANGED <<buddyVars, smallVars, chunkVars>>

ArenaMalloc ==
  \/ \E cl \in Classes : MallocSmall(cl)
  \/ \E k \in Orders : MallocPages(k)
  \/ MallocRegion

ArenaFree(u) ==
  \/ u[1] = "small" /\ FreeSmall(u[2])
  \/ u[1] = "buddy" /\ FreePages(u[2])
  \/ u[1] = "mmap"  /\ FreeRegion(u[2])

ArenaNext ==
  \/ Cardinality(user) < MaxLive /\ ArenaMalloc
  \/ \E u \in user : ArenaFree(u)

ArenaSpec == ArenaInit /\ [][ArenaNext]_arenaVars

(***************************************************************************)
(* Properties                                                              *)
(***************************************************************************)

Held(layer) == {u[2] : u \in {v \in user : v[1] = layer}}
ChunkMem    == {chunk[c] : c \in inUse}

\* Every allocation a layer has handed out is in the hands of exactly one party:
\* the layer above it, or a caller of malloc().  Nothing is lost between the
\* layers, not even when one of the mmaps of a malloc() fails (buddy.c:168,
\* mmap.c:57), and nothing a caller holds is cut up by another layer.
EveryAllocationHeldOnce ==
  /\ slots = Held("small")
  /\ live = held \cup Held("buddy")
  /\ held \cap Held("buddy") = {}
  /\ regions = ChunkMem \cup groupMem \cup Held("mmap")
  /\ Cardinality(regions) = Cardinality(inUse) + groups + Cardinality(Held("mmap"))

\* What an arena keeps when every allocation was freed: one block for each class
\* (small_class.c:131) and the chunks of those blocks, or LIBC_KEEP_CHUNK_NUM
\* chunks (buddy.c:18) if these are more, and the groups of chunk records.
RestFootprint ==
  user = {} =>
    LET pinned == Cardinality({b[1] : b \in held}) IN
    /\ Cardinality(held) <= Cardinality(Classes)
    /\ Cardinality(mapped) <= groups + (IF pinned > Keep THEN pinned ELSE Keep)

\* malloc() that returns NULL leaves the memory of the program as it was, but for
\* memory that went into records for later chunks; no malloc() unmaps anything.
FailureIsClean ==
  [][/\ user' = user => mapped' = mapped \cup {g[1] : g \in groupMem'}
     /\ user' = user => UNCHANGED <<live, slots, chunk>>
     /\ user \subseteq user' => mapped \subseteq mapped']_arenaVars

(***************************************************************************)
(* A small instance for TLC: blocks of one page that hold two slots        *)
(***************************************************************************)
TwoSlots == [k \in Classes |-> 2]

Symmetry == Permutations(Regions)

==============================================================================
