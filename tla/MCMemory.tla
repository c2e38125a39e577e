------------------------------ MODULE MCMemory ------------------------------
(***************************************************************************)
(* The layers of an arena, each on its own, and the layout of allocations. *)
(* A behaviour is one of a single part; the variables of the other parts   *)
(* are Off.                                                                *)
(***************************************************************************)
EXTENDS Buddy, SmallClass, MmapAlloc, MallocLayout, TLC

CONSTANTS small, large, Off

VARIABLE part

MCClasses == {small, large}
MCSlots   == small :> 3 @@ large :> 2

\* Sizes whose class is decided by one byte, for each of the paddings.
Around(S) == {n + d : n \in S, d \in {-33, -32, -31, -17, -16, -15, -1, 0, 1}}
MCSizes ==
  {n \in {0, 1, 8, 16} \cup Around({32, 512, 1024, 2048, 4096, 65536, 262144, 300000}) :
     n >= 0}
MCAlignments == {1, 16, 32, 64, 512, 4096, 16384}

memoryVars == <<part, buddyVars, smallVars, mmapVars, layoutVars>>

NoBuddy ==
  /\ groups = Off /\ avail = Off /\ availNum = Off /\ split = Off
  /\ list = Off /\ inUse = Off /\ chunkNum = Off /\ live = Off
NoSmall ==
  /\ held = Off /\ cls = Off /\ head = Off /\ nextAvail = Off /\ prevAvail = Off /\ blockHead = Off
  /\ nextBlock = Off /\ prevBlock = Off /\ bitmap = Off /\ slotNum = Off /\ slots = Off
NoMmap   == arena = Off /\ mapped = Off /\ regions = Off
NoLayout == request = Off /\ piece = Off /\ meta = Off /\ ptr = Off /\ freed = Off

Init ==
  \/ part = "buddy" /\ BuddyInit /\ NoSmall /\ NoMmap /\ NoLayout
  \/ part = "small" /\ SmallInit /\ NoBuddy /\ NoMmap /\ NoLayout
  \/ part = "mmap" /\ MmapInit /\ NoBuddy /\ NoSmall /\ NoLayout
  \/ part = "layout" /\ LayoutInit /\ NoBuddy /\ NoSmall /\ NoMmap

Next ==
  \/ part = "buddy" /\ BuddyNext /\ UNCHANGED <<part, smallVars, mmapVars, layoutVars>>
  \/ part = "small" /\ SmallNext /\ UNCHANGED <<part, buddyVars, mmapVars, layoutVars>>
  \/ part = "mmap" /\ MmapNext /\ UNCHANGED <<part, buddyVars, smallVars, layoutVars>>
  \/ part = "layout" /\ LayoutNext /\ UNCHANGED <<part, buddyVars, smallVars, mmapVars>>

Spec == Init /\ [][Next]_memoryVars

(***************************************************************************)
(* Properties                                                              *)
(***************************************************************************)

\* However blocks are split and merged, each page of a chunk is in one block
\* (buddy.c:251, 537), a request finds the free space there is (buddy.c:684), and
\* the split bits tell one allocation from many (buddy.c:31).
PagesAccountedFor ==
  part = "buddy" => BuddyTypeOK /\ PagesPartitioned /\ FindsSpace /\ SplitTellsAllocations

\* The lists of all layers stay linked in both directions and hold what they
\* should: of chunks (buddy.c:70), of blocks, whose links dangle outside of a list
\* (small_class.c:94), and the two lists of records that share their fields
\* (mmap.c:17).
ListsSound ==
  /\ part = "buddy" => ChunkListsSound
  /\ part = "small" => BlockListsSound
  /\ part = "mmap" => RecordListsSound

\* What is idle goes back to the layer below: no chunk above LIBC_KEEP_CHUNK_NUM
\* stays without an allocation (buddy.c:17), no class keeps two idle blocks
\* (small_class.c:131) ...
NothingIdleKept ==
  /\ part = "buddy" => NoIdleChunk
  /\ part = "small" => OneIdleBlock

\* ... and only that: neither a chunk (buddy.c:512) nor a block (small_class.c:132)
\* goes while something in it is handed out, or as the last one to keep.
ReturnsOnlyIdle ==
  [][/\ part = "buddy" => UnmapsOnlyIdleChunks
     /\ part = "small" => ReturnsOnlyIdleBlocks]_memoryVars

\* A slot of a block is free and counted, or handed out (small_class.c:84); the
\* mapped regions are those handed out, each through the record that will unmap
\* it, also when one of two mmaps fails (mmap.c:60).
OneOwner ==
  /\ part = "small" => SmallTypeOK /\ SlotsPartitioned
  /\ part = "mmap" => MmapTypeOK /\ RegionsOwned

\* Metadata, bytes, tag and link fit into the piece at the alignment asked for
\* (malloc.c:302), and free() reads allocator, class and index back (malloc.c:332).
LayoutRight == part = "layout" => FitsPiece /\ AlignmentMet /\ FreedAsAllocated

==============================================================================
