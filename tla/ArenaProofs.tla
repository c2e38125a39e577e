----------------------------- MODULE ArenaProofs ------------------------------
(***************************************************************************)
(* Proofs about the arena: that every allocation has one holder, what an   *)
(* arena keeps at rest and that a failed malloc() changes nothing, for any *)
(* number of orders, chunks, classes, slots, records and regions.  The     *)
(* invariants of the layers are taken from their own modules; what is new  *)
(* is how their allocations are shared out.                                *)
(***************************************************************************)
EXTENDS Arena, BuddyProofs

Layers == INSTANCE LayerProofs WITH Blocks <- SmallBlocks

(***************************************************************************)
(* The layers by themselves                                                *)
(***************************************************************************)

\* The arena's instances of the layers are those the proofs are about.
LEMMA SameOutcomes ==
  \A m : \A F : Mmap!Outcomes(m, F) = Layers!Outcomes(m, F)
BY DEF Mmap!Outcomes, Mmap!WithRecords, Mmap!AddMmapGroup, Mmap!MmapGroupRecords,
       Mmap!MmapRecords, Mmap!Activate, Mmap!Store, Mmap!Min, Mmap!Max,
       Layers!Outcomes, Layers!WithRecords, Layers!AddMmapGroup, Layers!MmapGroupRecords,
       Layers!MmapRecords, Layers!Activate, Layers!Store, Layers!Min, Layers!Max

LEMMA SameMmapFree ==
  \A r : Mmap!MmapFree(r) <=> Layers!MmapFree(r)
BY DEF Mmap!MmapFree, Mmap!Retire, Mmap!Store, Layers!MmapFree, Layers!Retire, Layers!Store

LEMMA SameMmapAlloc == Mmap!MmapAlloc <=> Layers!MmapAlloc
BY SameOutcomes DEF Mmap!MmapAlloc, Layers!MmapAlloc

LEMMA SameInit ==
  /\ Mmap!MmapInit <=> Layers!MmapInit
  /\ Small!SmallInit <=> Layers!SmallInit
BY DEF Mmap!MmapInit, Mmap!EmptyArena, Mmap!NoLinks, Mmap!MmapRecords, Small!SmallInit,
       Layers!MmapInit, Layers!EmptyArena, Layers!NoLinks, Layers!MmapRecords, Layers!SmallInit

LEMMA SameSmall ==
  /\ \A cl : Small!SmallAlloc(cl) <=> Layers!SmallAlloc(cl)
  /\ \A cl : Small!SmallAllocFails(cl) <=> Layers!SmallAllocFails(cl)
  /\ \A cl, b : Small!SmallAllocNew(cl, b) <=> Layers!SmallAllocNew(cl, b)
  /\ \A b, i : Small!SmallFree(b, i) <=> Layers!SmallFree(b, i)
  /\ \A b, i : Small!SmallFreeReturns(b, i) <=> Layers!SmallFreeReturns(b, i)
<1>1. \A cl : Small!SmallAlloc(cl) <=> Layers!SmallAlloc(cl)
  BY DEF Small!SmallAlloc, Small!SetAvailList, Small!DropHead, Small!AvailList, Small!Store, Small!Min,
         Layers!SmallAlloc, Layers!SetAvailList, Layers!DropHead, Layers!AvailList, Layers!Store, Layers!Min
<1>2. \A cl : Small!SmallAllocFails(cl) <=> Layers!SmallAllocFails(cl)
  BY DEF Small!SmallAllocFails, Small!smallVars, Layers!SmallAllocFails, Layers!smallVars
<1>3. \A cl, b : Small!SmallAllocNew(cl, b) <=> Layers!SmallAllocNew(cl, b)
  BY DEF Small!SmallAllocNew, Small!SetAvailList, Small!SetBlockList, Small!Enlist, Small!Push,
         Small!DropHead, Small!AvailList, Small!BlockList, Small!FreshBits, Small!SlotsOf, Small!Store,
         Layers!SmallAllocNew, Layers!SetAvailList, Layers!SetBlockList, Layers!Enlist, Layers!Push,
         Layers!DropHead, Layers!AvailList, Layers!BlockList, Layers!FreshBits, Layers!SlotsOf, Layers!Store
<1>4. \A b, i : Small!SmallFree(b, i) <=> Layers!SmallFree(b, i)
  BY DEF Small!SmallFree, Small!Goes, Small!SetAvailList, Small!Push, Small!AvailList, Small!Store,
         Layers!SmallFree, Layers!Goes, Layers!SetAvailList, Layers!Push, Layers!AvailList, Layers!Store
<1>5. \A b, i : Small!SmallFreeReturns(b, i) <=> Layers!SmallFreeReturns(b, i)
  BY DEF Small!SmallFreeReturns, Small!Goes, Small!SetAvailList, Small!SetBlockList, Small!TakeOut,
         Small!AvailList, Small!BlockList, Small!Store,
         Layers!SmallFreeReturns, Layers!Goes, Layers!SetAvailList, Layers!SetBlockList, Layers!TakeOut,
         Layers!AvailList, Layers!BlockList, Layers!Store
<1> QED
  BY <1>1, <1>2, <1>3, <1>4, <1>5

\* What the layers assume of their constants.
LEMMA LayersAssumed ==
  /\ Layers!IsFiniteSet(Classes)
  /\ Slots \in [Classes -> Nat \ {0, 1}]
  /\ NULL \notin SmallBlocks
  /\ MmapPerGroup \in Nat \ {0}
  /\ MmapMaxGroups \in Nat \ {0}
  /\ NULL \notin Nat \cup Regions
<1>1. Layers!IsFiniteSet(Classes)
  BY ArenaAssumption DEF IsFiniteSet, Layers!IsFiniteSet
<1> QED
  BY <1>1, ArenaAssumption, BuddyAssumption

LEMMA LayersInit ==
  Small!SmallInit /\ Mmap!MmapInit => Layers!SmallInv /\ Layers!MmapInv
<1>1. Layers!SmallInit => Layers!SmallInv
  BY LayersAssumed, Layers!InitSmallInv
<1>2. Layers!MmapInit => Layers!MmapInv
  BY LayersAssumed, Layers!InitMmapInv
<1> QED
  BY <1>1, <1>2, SameInit

LEMMA OutcomeSplit ==
  ASSUME NEW m, NEW M, NEW R, Layers!Owns(m, M, R), NEW o \in Mmap!Outcomes(m, Regions \ M)
  PROVE  \/ o.got = NULL /\ Layers!Owns(o.arena, M, R)
         \/ /\ o.got # NULL /\ o.got \in Regions \ M
            /\ <<o.got, o.arena.active>> \notin R
            /\ Layers!Owns(o.arena, M \cup {o.got}, R \cup {<<o.got, o.arena.active>>})
<1>1. o \in Layers!Outcomes(m, Regions \ M)
  BY SameOutcomes
<1> QED
  BY <1>1, LayersAssumed, Layers!OutcomeOwned

LEMMA OwnsHere == Layers!MmapInv <=> Layers!Owns(arena, mapped, regions)
BY LayersAssumed, Layers!OwnsInv

(***************************************************************************)
(* Who holds what                                                          *)
(***************************************************************************)

HolderOf(U, l) == {u[2] : u \in {v \in U : v[1] = l}}

Pairs(U) == \A u \in U : u = <<u[1], u[2]>>

\* The holder l is given S.
Given(V, U, l, S) == V = U \cup ({l} \X S)

LEMMA HeldMore ==
  ASSUME NEW U, Pairs(U), NEW l, NEW S, NEW V, Given(V, U, l, S)
  PROVE  /\ Pairs(V) /\ HolderOf(V, l) = HolderOf(U, l) \cup S
         /\ \A k : k # l => HolderOf(V, k) = HolderOf(U, k)
<1>0. V = U \cup ({l} \X S)
  BY DEF Given
<1>1. \A x \in S : <<l, x>> \in V /\ <<l, x>>[1] = l /\ <<l, x>>[2] = x
  BY <1>0
<1>2. \A v \in V : v \in U \/ \E x \in S : v = <<l, x>> /\ v[1] = l /\ v[2] = x
  BY <1>0
<1>3. Pairs(V)
  BY <1>2 DEF Pairs
<1>4. HolderOf(V, l) = HolderOf(U, l) \cup S
  <2>1. HolderOf(V, l) \subseteq HolderOf(U, l) \cup S
    BY <1>2 DEF HolderOf
  <2>2. S \subseteq HolderOf(V, l)
    BY <1>1 DEF HolderOf
  <2>3. HolderOf(U, l) \subseteq HolderOf(V, l)
    BY <1>0 DEF HolderOf
  <2> QED
    BY <2>1, <2>2, <2>3
<1>5. ASSUME NEW k, k # l PROVE HolderOf(V, k) = HolderOf(U, k)
  <2>1. {v \in V : v[1] = k} = {v \in U : v[1] = k}
    BY <1>0, <1>2, <1>5
  <2> QED
    BY <2>1 DEF HolderOf
<1> QED
  BY <1>3, <1>4, <1>5

LEMMA HeldLess ==
  ASSUME NEW U, Pairs(U), NEW l, NEW x, <<l, x>> \in U, NEW V, V = U \ {<<l, x>>}
  PROVE  /\ Pairs(V) /\ HolderOf(V, l) = HolderOf(U, l) \ {x} /\ x \in HolderOf(U, l)
         /\ \A k : k # l => HolderOf(V, k) = HolderOf(U, k)
<1>1. Pairs(V)
  BY DEF Pairs
<1>2. <<l, x>>[1] = l /\ <<l, x>>[2] = x
  OBVIOUS
<1>3. \A u \in U : u[1] = l => (u[2] = x <=> u = <<l, x>>)
  BY DEF Pairs
<1>4. HolderOf(V, l) = HolderOf(U, l) \ {x}
  BY <1>3 DEF HolderOf
<1>5. x \in HolderOf(U, l)
  BY <1>2 DEF HolderOf
<1>6. ASSUME NEW k, k # l PROVE HolderOf(V, k) = HolderOf(U, k)
  <2>1. {v \in V : v[1] = k} = {v \in U : v[1] = k}
    BY <1>2, <1>6
  <2> QED
    BY <2>1 DEF HolderOf
<1> QED
  BY <1>1, <1>4, <1>5, <1>6

\* The regions R are the memory of the chunks U, each of its own, the memory of g groups
\* of records, and what callers hold.
Shared(R, ch, gm, U, g, H) ==
  /\ R = {ch[c] : c \in U} \cup gm \cup H
  /\ \A c, d \in U : ch[c] = ch[d] => c = d
  /\ \A c \in U : ch[c] \notin gm \cup H
  /\ gm \cap H = {}
  /\ IsFiniteSet(gm) /\ Cardinality(gm) = g

LEMMA GroupShared ==
  ASSUME NEW R, NEW ch, NEW gm, NEW U, NEW g \in Nat, NEW H, Shared(R, ch, gm, U, g, H),
         NEW x, x \notin R
  PROVE  Shared(R \cup {x}, ch, gm \cup {x}, U, g + 1, H)
<1>1. x \notin gm /\ x \notin H /\ \A c \in U : ch[c] # x
  BY DEF Shared
<1>2. IsFiniteSet(gm \cup {x}) /\ Cardinality(gm \cup {x}) = g + 1
  BY <1>1, FS_AddElement DEF Shared
<1> QED
  BY <1>1, <1>2 DEF Shared

LEMMA ChunkShared ==
  ASSUME NEW R, NEW ch, NEW gm, NEW U, NEW g, NEW H, Shared(R, ch, gm, U, g, H),
         ch = [c \in Records |-> ch[c]], U \subseteq Records,
         NEW x, x \notin R, NEW c \in Records, c \notin U
  PROVE  Shared(R \cup {x}, [ch EXCEPT ![c] = x], gm, U \cup {c}, g, H)
<1>1. x \notin gm /\ x \notin H /\ \A d \in U : ch[d] # x
  BY DEF Shared
<1>2. PICK f : f = [ch EXCEPT ![c] = x]
  OBVIOUS
<1>3. f[c] = x /\ \A d \in U : f[d] = ch[d]
  BY <1>2
<1>4. {f[d] : d \in U \cup {c}} = {ch[d] : d \in U} \cup {x}
  BY <1>3
<1>5. Shared(R \cup {x}, f, gm, U \cup {c}, g, H)
  BY <1>1, <1>3, <1>4 DEF Shared
<1> QED
  BY <1>2, <1>5

LEMMA ChunkReturned ==
  ASSUME NEW R, NEW ch, NEW gm, NEW U, NEW g, NEW H, Shared(R, ch, gm, U, g, H),
         ch = [c \in Records |-> ch[c]], U \subseteq Records, NEW c \in U
  PROVE  /\ Shared(R \ {ch[c]}, [ch EXCEPT ![c] = NULL], gm, U \ {c}, g, H)
         /\ ch[c] \in R
<1>1. PICK f : f = [ch EXCEPT ![c] = NULL]
  OBVIOUS
<1>2. \A d \in U \ {c} : f[d] = ch[d] /\ ch[d] # ch[c]
  BY <1>1 DEF Shared
<1>3. {f[d] : d \in U \ {c}} = {ch[d] : d \in U} \ {ch[c]}
  BY <1>2
<1>4. Shared(R \ {ch[c]}, f, gm, U \ {c}, g, H)
  BY <1>2, <1>3 DEF Shared
<1>5. ch[c] \in R
  BY DEF Shared
<1> QED
  BY <1>1, <1>4, <1>5

LEMMA RegionShared ==
  ASSUME NEW R, NEW ch, NEW gm, NEW U, NEW g, NEW H, Shared(R, ch, gm, U, g, H),
         NEW x
  PROVE  /\ x \notin R => Shared(R \cup {x}, ch, gm, U, g, H \cup {x})
         /\ x \in H => Shared(R \ {x}, ch, gm, U, g, H \ {x}) /\ x \in R
BY DEF Shared

LEMMA SharedCount ==
  ASSUME NEW R, NEW ch, NEW gm, NEW U, NEW g, NEW H, Shared(R, ch, gm, U, g, H),
         IsFiniteSet(U), IsFiniteSet(R)
  PROVE  Cardinality(R) = Cardinality(U) + g + Cardinality(H) /\ IsFiniteSet(H)
<1> DEFINE C == {ch[c] : c \in U}
<1>1. IsFiniteSet(H) /\ IsFiniteSet(gm) /\ Cardinality(gm) = g
  <2>1. H \subseteq R
    BY DEF Shared
  <2> QED
    BY <2>1, FS_Subset DEF Shared
<1>2. IsFiniteSet(C) /\ Cardinality(C) = Cardinality(U)
  <2>1. PICK f : f = [c \in U |-> ch[c]]
    OBVIOUS
  <2>2. f \in Bijection(U, C)
    BY <2>1 DEF Shared, Bijection, Injection, Surjection, IsInjective
  <2>3. ExistsBijection(U, C)
    BY <2>2 DEF ExistsBijection
  <2> QED
    BY <2>3, FS_Bijection
<1>3. gm \cap H = {} /\ C \cap (gm \cup H) = {} /\ R = C \cup (gm \cup H)
  BY DEF Shared
<1> HIDE DEF C
<1>4. IsFiniteSet(gm \cup H) /\ Cardinality(gm \cup H) = Cardinality(gm) + Cardinality(H)
  <2>1. Cardinality(gm \cap H) = 0
    BY <1>3, FS_EmptySet
  <2>2. Cardinality(gm) \in Nat /\ Cardinality(H) \in Nat
    BY <1>1, FS_CardinalityType
  <2>3. IsFiniteSet(gm \cup H)
    BY <1>1, FS_Union
  <2>4. Cardinality(gm \cup H) = Cardinality(gm) + Cardinality(H) - Cardinality(gm \cap H)
    BY <1>1, FS_Union
  <2> QED
    BY <2>1, <2>2, <2>3, <2>4
<1>5. Cardinality(R) = Cardinality(C) + Cardinality(gm \cup H)
  <2>1. Cardinality(C \cap (gm \cup H)) = 0
    BY <1>3, FS_EmptySet
  <2>2. Cardinality(C) \in Nat /\ Cardinality(gm \cup H) \in Nat
    BY <1>2, <1>4, FS_CardinalityType
  <2>3. Cardinality(C \cup (gm \cup H)) = Cardinality(C) + Cardinality(gm \cup H) - Cardinality(C \cap (gm \cup H))
    BY <1>2, <1>4, FS_Union
  <2> QED
    BY <1>3, <2>1, <2>2, <2>3
<1>6. Cardinality(U) \in Nat /\ Cardinality(gm) \in Nat /\ Cardinality(H) \in Nat
  BY <1>1, FS_CardinalityType
<1> QED
  BY <1>1, <1>2, <1>4, <1>5, <1>6

(***************************************************************************)
(* The buddy allocator and the memory below it                             *)
(***************************************************************************)

\* The buddy allocator in the arena, whatever mmap_alloc answers.
LEMMA BuddyCallInv ==
  ASSUME BuddyInv, NEW k \in Orders, BuddyCall(k)
  PROVE  /\ BuddyInv'
         /\ live \subseteq live'
         /\ \E x : live' \subseteq live \cup {x}
         /\ \A b \in live' \ live : b[2] = k
<1>1. AllocBlock(k) \/ NoRecord(k) \/ NoChunk(k) \/ NewChunk(k)
  BY DEF BuddyCall, MoreMemory
<1>2. BuddyInv'
  <2>1. CASE NoRecord(k)
    BY <2>1 DEF NoRecord, buddyVars, BuddyInv, BuddyShape, ChunksSound, RecordsListed, NoIdleChunk
  <2> QED
    BY <1>1, <2>1, AllocBlockInv, NoChunkInv, NewChunkInv
<1>3. \/ live' = live
      \/ live' = live \cup {<<BestFit(k)[1], k, LeftIn(BestFit(k)[3], BestFit(k)[2], k)>>}
      \/ live' = live \cup {<<UnusedRecords.head, k, 0>>}
  BY <1>1 DEF AllocBlock, NoRecord, NoChunk, NewChunk, buddyVars
<1> QED
  BY <1>2, <1>3

\* The blocks of the buddy allocator.
LiveSound ==
  /\ inUse \subseteq Records /\ IsFiniteSet(inUse)
  /\ groups \in Nat
  /\ \A b \in live : b[1] \in inUse /\ b[2] \in Orders /\ b[3] \in BlocksOf(b[2])
                     /\ b = <<b[1], b[2], b[3]>>

LEMMA LiveShape ==
  ASSUME BuddyInv
  PROVE  /\ inUse \subseteq Records /\ IsFiniteSet(inUse)
         /\ groups \in Nat
         /\ \A b \in live : b[1] \in inUse /\ b[2] \in Orders /\ b[3] \in BlocksOf(b[2])
                            /\ b = <<b[1], b[2], b[3]>>
<1>1. inUse \subseteq Records
  BY DEF BuddyInv, BuddyShape, Provided
<1>2. IsFiniteSet(inUse)
  BY <1>1, RecordsFacts, FS_Subset
<1>3. groups \in Nat
  BY DEF BuddyInv, BuddyShape
<1>4. ASSUME NEW b \in live
      PROVE  b[1] \in inUse /\ b[2] \in Orders /\ b[3] \in BlocksOf(b[2]) /\ b = <<b[1], b[2], b[3]>>
  <2>1. PICK c \in inUse : \E m \in Orders : \E i \in BlocksOf(m) :
           b = <<c, m, i>> /\ b[1] = c /\ b[2] = m /\ b[3] = i
    BY LiveBlock
  <2>2. PICK m \in Orders : \E i \in BlocksOf(m) :
           b = <<c, m, i>> /\ b[1] = c /\ b[2] = m /\ b[3] = i
    BY <2>1
  <2> QED
    BY <2>2
<1> QED
  BY <1>1, <1>2, <1>3, <1>4

LEMMA LiveSoundFromInv == BuddyInv => LiveSound
BY LiveShape DEF LiveSound

ChunkShape == chunk = [c \in Records |-> chunk[c]]

\* The first mmap_alloc of a call: memory for records, if none is left.
LEMMA GroupStep ==
  ASSUME BuddyInv, Layers!Owns(arena, mapped, regions), NEW H,
         Shared(regions, chunk, groupMem, inUse, groups, H),
         NEW g \in GroupOutcomes, RecordFound,
         list[Unused].head = NULL => g.got # NULL
  PROVE  \E M, R, G :
           /\ M = mapped \cup ({g.got} \ {NULL}) /\ R = regions \cup Handed(g)
           /\ G = groupMem \cup Handed(g)
           /\ Regions \ (mapped \cup {g.got}) = Regions \ M
           /\ Layers!Owns(g.arena, M, R)
           /\ Shared(R, chunk, G, inUse, groups', H)
<1>0. NULL \notin Regions
  BY ArenaAssumption
<1>1. CASE list[Unused].head # NULL
  <2>1. g.arena = arena /\ g.got = NULL /\ groups' = groups
    BY <1>1 DEF GroupOutcomes, RecordFound
  <2>2. Handed(g) = {} /\ mapped \cup ({g.got} \ {NULL}) = mapped
        /\ Regions \ (mapped \cup {g.got}) = Regions \ mapped
    BY <1>0, <2>1 DEF Handed
  <2> QED
    BY <2>1, <2>2
<1>2. CASE list[Unused].head = NULL
  <2>1. g \in Mmap!Outcomes(arena, Regions \ mapped) /\ g.got # NULL /\ groups' = groups + 1
    BY <1>2 DEF GroupOutcomes, RecordFound
  <2>2. PICK x : x = <<g.got, g.arena.active>>
    OBVIOUS
  <2>3. /\ g.got \in Regions \ mapped /\ x \notin regions
        /\ Layers!Owns(g.arena, mapped \cup {g.got}, regions \cup {x})
    BY <2>1, <2>2, OutcomeSplit
  <2>4. Handed(g) = {x} /\ mapped \cup ({g.got} \ {NULL}) = mapped \cup {g.got}
    BY <2>1, <2>2 DEF Handed
  <2>5. Shared(regions \cup {x}, chunk, groupMem \cup {x}, inUse, groups', H)
    <3>1. groups \in Nat
      BY LiveShape
    <3> QED
      BY <2>1, <2>3, <3>1, GroupShared
  <2> QED
    BY <2>3, <2>4, <2>5
<1> QED
  BY <1>1, <1>2

\* What is mapped besides the groups' memory, when a call hands out no chunk.
LEMMA GroupsMapped ==
  ASSUME NEW m, NEW M, NEW R, Layers!Owns(m, M, R),
         NEW ch, NEW G, NEW U, NEW n, NEW H, Shared(R, ch, G, U, n, H)
  PROVE  M = M \cup {x[1] : x \in G}
BY DEF Layers!Owns, Shared

LEMMA MoreMemoryStep ==
  ASSUME BuddyInv, Layers!MmapInv, ChunkShape, NEW H,
         Shared(regions, chunk, groupMem, inUse, groups, H),
         NEW k \in Orders, MoreMemory(k)
  PROVE  /\ Layers!MmapInv' /\ ChunkShape'
         /\ Shared(regions', chunk', groupMem', inUse', groups', H)
         /\ mapped \subseteq mapped'
         /\ live' = live => chunk' = chunk /\ mapped' = mapped \cup {x[1] : x \in groupMem'}
<1>0. NULL \notin Regions
  BY ArenaAssumption
<1>1. PICK g \in GroupOutcomes :
        IF list[Unused].head = NULL /\ g.got = NULL
        THEN NoRecord(k) /\ arena' = g.arena /\ UNCHANGED <<mapped, regions, chunkVars>>
        ELSE \E o \in Mmap!Outcomes(g.arena, Regions \ (mapped \cup {g.got})) :
               /\ IF o.got = NULL THEN NoChunk(k) ELSE NewChunk(k)
               /\ arena'    = o.arena
               /\ mapped'   = mapped \cup ({g.got, o.got} \ {NULL})
               /\ regions'  = regions \cup Handed(g) \cup Handed(o)
               /\ groupMem' = groupMem \cup Handed(g)
               /\ chunk'    = IF o.got = NULL THEN chunk
                              ELSE [chunk EXCEPT ![UnusedRecords.head] = <<o.got, o.arena.active>>]
  BY DEF MoreMemory
<1>2. Layers!Owns(arena, mapped, regions)
  BY OwnsHere
<1>3. CASE list[Unused].head = NULL /\ g.got = NULL
  <2>1. /\ arena' = g.arena /\ mapped' = mapped /\ regions' = regions /\ chunk' = chunk
        /\ groupMem' = groupMem /\ inUse' = inUse /\ groups' = groups
    BY <1>1, <1>3 DEF NoRecord, buddyVars, chunkVars
  <2>2. Layers!Owns(g.arena, mapped, regions)
    <3>1. g \in Mmap!Outcomes(arena, Regions \ mapped)
      BY <1>3 DEF GroupOutcomes
    <3> QED
      BY <1>2, <1>3, <3>1, OutcomeSplit
  <2>3. Layers!Owns(arena, mapped, regions)'
    BY <2>1, <2>2
  <2>4. Layers!MmapInv'
    BY <2>3, OwnsHere, PTL
  <2>5. mapped = mapped \cup {x[1] : x \in groupMem}
    BY <1>2, GroupsMapped
  <2> QED
    BY <2>1, <2>4, <2>5 DEF ChunkShape
<1>4. CASE ~ (list[Unused].head = NULL /\ g.got = NULL)
  <2>1. PICK o \in Mmap!Outcomes(g.arena, Regions \ (mapped \cup {g.got})) :
               /\ IF o.got = NULL THEN NoChunk(k) ELSE NewChunk(k)
               /\ arena'    = o.arena
               /\ mapped'   = mapped \cup ({g.got, o.got} \ {NULL})
               /\ regions'  = regions \cup Handed(g) \cup Handed(o)
               /\ groupMem' = groupMem \cup Handed(g)
               /\ chunk'    = IF o.got = NULL THEN chunk
                              ELSE [chunk EXCEPT ![UnusedRecords.head] = <<o.got, o.arena.active>>]
    BY <1>1, <1>4
  <2>2. RecordFound
    BY <2>1 DEF NoChunk, NewChunk
  <2>3. PICK M, R, G :
           /\ M = mapped \cup ({g.got} \ {NULL}) /\ R = regions \cup Handed(g)
           /\ G = groupMem \cup Handed(g)
           /\ Regions \ (mapped \cup {g.got}) = Regions \ M
           /\ Layers!Owns(g.arena, M, R)
           /\ Shared(R, chunk, G, inUse, groups', H)
    BY <1>2, <1>4, <2>2, GroupStep
  <2>4. o \in Mmap!Outcomes(g.arena, Regions \ M)
    BY <2>3
  <2>5. CASE o.got = NULL
    <3>1. Layers!Owns(o.arena, M, R)
      <4>1. \/ o.got = NULL /\ Layers!Owns(o.arena, M, R)
            \/ /\ o.got # NULL /\ o.got \in Regions \ M
               /\ <<o.got, o.arena.active>> \notin R
               /\ Layers!Owns(o.arena, M \cup {o.got}, R \cup {<<o.got, o.arena.active>>})
        BY <2>3, <2>4, OutcomeSplit
      <4> QED
        BY <2>5, <4>1
    <3>2. /\ arena' = o.arena /\ mapped' = M /\ regions' = R /\ groupMem' = G
          /\ chunk' = chunk /\ inUse' = inUse
      BY <2>1, <2>3, <2>5 DEF Handed, NoChunk
    <3>3. Layers!Owns(arena, mapped, regions)'
      BY <3>1, <3>2
    <3>4. Layers!MmapInv'
      BY <3>3, OwnsHere, PTL
    <3>5. mapped' = mapped \cup {x[1] : x \in groupMem'}
      <4>1. M = M \cup {x[1] : x \in G}
        BY <2>3, GroupsMapped
      <4>2. M \subseteq mapped \cup {x[1] : x \in G}
        <5>1. CASE g.got = NULL
          BY <2>3, <5>1
        <5>2. CASE g.got # NULL
          <6>1. <<g.got, g.arena.active>> \in G /\ <<g.got, g.arena.active>>[1] = g.got
            BY <2>3, <5>2 DEF Handed
          <6> QED
            BY <2>3, <6>1
        <5> QED
          BY <5>1, <5>2
      <4>3. mapped \subseteq M
        BY <2>3
      <4> QED
        BY <3>2, <4>1, <4>2, <4>3
    <3> QED
      BY <2>3, <3>2, <3>4, <3>5 DEF ChunkShape
  <2>6. CASE o.got # NULL
    <3>1. PICK x : x = <<o.got, o.arena.active>>
      OBVIOUS
    <3>2. x \notin R /\ Layers!Owns(o.arena, M \cup {o.got}, R \cup {x})
      BY <2>3, <2>4, <2>6, <3>1, OutcomeSplit
    <3>3. PICK c : c = UnusedRecords.head
      OBVIOUS
    <3>4. c \in Records /\ c \notin inUse
      BY <2>2, <3>3, RecordIsUnused DEF Provided
    <3>5. /\ arena' = o.arena /\ mapped' = M \cup {o.got} /\ regions' = R \cup {x} /\ groupMem' = G
          /\ chunk' = [chunk EXCEPT ![c] = x] /\ inUse' = inUse \cup {c}
          /\ live' = live \cup {<<c, k, 0>>}
      BY <2>1, <2>3, <2>6, <3>1, <3>3 DEF Handed, NewChunk
    <3>6. Layers!Owns(arena, mapped, regions)'
      BY <3>2, <3>5
    <3>7. Layers!MmapInv'
      BY <3>6, OwnsHere, PTL
    <3>8. Shared(R \cup {x}, [chunk EXCEPT ![c] = x], G, inUse \cup {c}, groups', H)
      <4>1. inUse \subseteq Records /\ chunk = [d \in Records |-> chunk[d]]
        BY LiveShape DEF ChunkShape
      <4> QED
        BY <2>3, <3>2, <3>4, <4>1, ChunkShared
    <3>9. live' # live
      <4>1. <<c, k, 0>>[1] = c
        OBVIOUS
      <4>2. <<c, k, 0>> \notin live
        BY <3>4, <4>1, LiveShape
      <4> QED
        BY <3>5, <4>2
    <3>10. ChunkShape'
      BY <3>4, <3>5 DEF ChunkShape
    <3>11. mapped \subseteq mapped'
      BY <2>3, <3>5
    <3> QED
      BY <3>5, <3>7, <3>8, <3>9, <3>10, <3>11
  <2> QED
    BY <2>5, <2>6
<1> QED
  BY <1>3, <1>4

\* A call that asks for a block of order k.
LEMMA BuddyCallStep ==
  ASSUME BuddyInv, Layers!MmapInv, ChunkShape, NEW H,
         Shared(regions, chunk, groupMem, inUse, groups, H),
         NEW k \in Orders, BuddyCall(k)
  PROVE  /\ BuddyInv' /\ Layers!MmapInv' /\ ChunkShape'
         /\ Shared(regions', chunk', groupMem', inUse', groups', H)
         /\ live \subseteq live' /\ \E x : live' \subseteq live \cup {x}
         /\ \A b \in live' \ live : b[2] = k
         /\ mapped \subseteq mapped'
         /\ live' = live => chunk' = chunk /\ mapped' = mapped \cup {x[1] : x \in groupMem'}
<1>1. CASE AllocBlock(k) /\ UNCHANGED <<mmapVars, chunkVars>>
  <2>1. /\ arena' = arena /\ mapped' = mapped /\ regions' = regions /\ chunk' = chunk
        /\ groupMem' = groupMem /\ inUse' = inUse /\ groups' = groups
    BY <1>1 DEF AllocBlock, mmapVars, chunkVars
  <2>2. Layers!Owns(arena, mapped, regions)
    BY OwnsHere
  <2>3. Layers!Owns(arena, mapped, regions)'
    BY <2>1, <2>2
  <2>4. Layers!MmapInv'
    BY <2>3, OwnsHere, PTL
  <2>5. mapped = mapped \cup {x[1] : x \in groupMem}
    BY <2>2, GroupsMapped
  <2> QED
    BY <2>1, <2>4, <2>5, BuddyCallInv DEF ChunkShape
<1>2. CASE MoreMemory(k)
  BY <1>2, MoreMemoryStep, BuddyCallInv
<1> QED
  BY <1>1, <1>2 DEF BuddyCall

\* A call that frees block b.
LEMMA BuddyFreeStep ==
  ASSUME BuddyInv, Layers!MmapInv, ChunkShape, NEW H,
         Shared(regions, chunk, groupMem, inUse, groups, H),
         NEW b \in live, BuddyFree(b)
  PROVE  /\ BuddyInv' /\ Layers!MmapInv' /\ ChunkShape'
         /\ Shared(regions', chunk', groupMem', inUse', groups', H)
         /\ live' = live \ {b}
<1>1. PICK c \in inUse : \E k \in Orders : \E i \in BlocksOf(k) :
         b = <<c, k, i>> /\ b[1] = c /\ b[2] = k /\ b[3] = i
  BY LiveBlock
<1>2. PICK k \in Orders : \E i \in BlocksOf(k) : b = <<c, k, i>> /\ b[1] = c /\ b[2] = k /\ b[3] = i
  BY <1>1
<1>3. PICK i \in BlocksOf(k) : b = <<c, k, i>> /\ b[1] = c /\ b[2] = k /\ b[3] = i
  BY <1>2
<1>4. CASE FreeBlock(b[1], b[2], b[3]) /\ UNCHANGED <<mmapVars, chunkVars>>
  <2>1. FreeBlock(c, k, i) /\ <<c, k, i>> \in live
    BY <1>3, <1>4
  <2>2. BuddyInv'
    BY <2>1, FreeBlockInv
  <2>3. /\ arena' = arena /\ mapped' = mapped /\ regions' = regions /\ chunk' = chunk
        /\ groupMem' = groupMem /\ inUse' = inUse /\ groups' = groups /\ live' = live \ {b}
    BY <1>3, <1>4, <2>1 DEF FreeBlock, mmapVars, chunkVars
  <2>4. Layers!Owns(arena, mapped, regions)
    BY OwnsHere
  <2>5. Layers!Owns(arena, mapped, regions)'
    BY <2>3, <2>4
  <2>6. Layers!MmapInv'
    BY <2>5, OwnsHere, PTL
  <2> QED
    BY <2>2, <2>3, <2>6 DEF ChunkShape
<1>5. CASE /\ ReleaseChunk(b[1], b[2], b[3])
           /\ Mmap!MmapFree(chunk[b[1]][2])
           /\ chunk' = [chunk EXCEPT ![b[1]] = NULL]
           /\ UNCHANGED groupMem
  <2>1. ReleaseChunk(c, k, i) /\ <<c, k, i>> \in live
    BY <1>3, <1>5
  <2>2. BuddyInv'
    BY <2>1, ReleaseChunkInv
  <2>3. PICK x : x = chunk[c]
    OBVIOUS
  <2>4. /\ chunk' = [chunk EXCEPT ![c] = NULL] /\ groupMem' = groupMem /\ Layers!MmapFree(x[2])
    BY <1>3, <1>5, <2>3, SameMmapFree
  <2>5. inUse' = inUse \ {c} /\ groups' = groups /\ live' = live \ {b}
    BY <1>3, <2>1 DEF ReleaseChunk
  <2>6. inUse \subseteq Records /\ chunk = [d \in Records |-> chunk[d]]
    BY LiveShape DEF ChunkShape
  <2>7. Shared(regions \ {x}, [chunk EXCEPT ![c] = NULL], groupMem, inUse \ {c}, groups, H) /\ x \in regions
    BY <2>3, <2>6, ChunkReturned
  <2>8. Layers!MmapInv' /\ regions' = regions \ {x}
    BY <2>4, <2>7, LayersAssumed, Layers!MmapFreeKeepsInv
  <2>9. ChunkShape'
    BY <2>4 DEF ChunkShape
  <2> QED
    BY <2>2, <2>4, <2>5, <2>7, <2>8, <2>9
<1> QED
  BY <1>4, <1>5 DEF BuddyFree

(***************************************************************************)
(* The small classes on top                                                *)
(***************************************************************************)

\* A call of small_alloc or small_free hands out or takes back one slot, and takes or
\* returns the block it says.
LEMMA SmallCalls ==
  ASSUME Layers!SmallInv
  PROVE  /\ \A cl \in Classes : Small!SmallAlloc(cl) =>
              Layers!SmallInv' /\ held' = held /\ slots \subseteq slots' /\ slots' # slots
         /\ \A cl \in Classes : Small!SmallAllocFails(cl) =>
              Layers!SmallInv' /\ held' = held /\ slots' = slots
         /\ \A cl \in Classes : \A b \in SmallBlocks : Small!SmallAllocNew(cl, b) =>
              /\ Layers!SmallInv' /\ held' = held \cup {b}
              /\ slots \subseteq slots' /\ slots' # slots
         /\ \A b, i : <<b, i>> \in slots /\ Small!SmallFree(b, i) =>
              Layers!SmallInv' /\ held' = held /\ slots' = slots \ {<<b, i>>}
         /\ \A b, i : <<b, i>> \in slots /\ Small!SmallFreeReturns(b, i) =>
              Layers!SmallInv' /\ held' = held \ {b} /\ b \in held /\ slots' = slots \ {<<b, i>>}
<1>1. ASSUME NEW cl \in Classes, Layers!SmallAlloc(cl)
      PROVE  Layers!SmallInv' /\ held' = held /\ slots \subseteq slots' /\ slots' # slots
  <2>1. Layers!SmallInv'
    BY <1>1, LayersAssumed, Layers!SmallAllocKeepsInv
  <2>2. held' = held /\ slots \subseteq slots'
    BY <1>1 DEF Layers!SmallAlloc
  <2>3. slots' # slots
    BY <1>1, LayersAssumed, Layers!SmallAllocHandsOut
  <2> QED
    BY <2>1, <2>2, <2>3
<1>2. ASSUME NEW cl \in Classes, Layers!SmallAllocFails(cl)
      PROVE  Layers!SmallInv' /\ held' = held /\ slots' = slots
  <2>1. Layers!SmallInv'
    BY <1>2, LayersAssumed, Layers!NextSmallInv DEF Layers!SmallAllocFails
  <2> QED
    BY <1>2, <2>1 DEF Layers!SmallAllocFails, Layers!smallVars
<1>3. ASSUME NEW cl \in Classes, NEW b \in SmallBlocks, Layers!SmallAllocNew(cl, b)
      PROVE  /\ Layers!SmallInv' /\ held' = held \cup {b}
             /\ slots \subseteq slots' /\ slots' # slots
  <2>1. Layers!SmallInv'
    BY <1>3, LayersAssumed, Layers!SmallAllocNewKeepsInv
  <2>2. held' = held \cup {b} /\ slots' = slots \cup {<<b, 0>>} /\ b \notin held
    BY <1>3 DEF Layers!SmallAllocNew
  <2>3. <<b, 0>> \notin slots
    BY <2>2 DEF Layers!SmallInv, Layers!SmallTypeOK
  <2> QED
    BY <2>1, <2>2, <2>3
<1>4. ASSUME NEW b, NEW i, <<b, i>> \in slots, Layers!SmallFree(b, i)
      PROVE  Layers!SmallInv' /\ held' = held /\ slots' = slots \ {<<b, i>>}
  <2>1. Layers!SmallInv'
    BY <1>4, LayersAssumed, Layers!SmallFreeKeepsInv
  <2> QED
    BY <1>4, <2>1 DEF Layers!SmallFree
<1>5. ASSUME NEW b, NEW i, <<b, i>> \in slots, Layers!SmallFreeReturns(b, i)
      PROVE  Layers!SmallInv' /\ held' = held \ {b} /\ b \in held /\ slots' = slots \ {<<b, i>>}
  <2>1. Layers!SmallInv'
    BY <1>5, LayersAssumed, Layers!SmallFreeReturnsKeepsInv
  <2>2. b \in held
    BY <1>5 DEF Layers!SmallInv, Layers!SmallTypeOK
  <2> QED
    BY <1>5, <2>1, <2>2 DEF Layers!SmallFreeReturns
<1> QED
  BY <1>1, <1>2, <1>3, <1>4, <1>5, SameSmall

(***************************************************************************)
(* The invariant                                                           *)
(***************************************************************************)
HoldersSound ==
  /\ Pairs(user)
  /\ slots = Held("small")
  /\ live = held \cup Held("buddy") /\ held \cap Held("buddy") = {}
  /\ Shared(regions, chunk, groupMem, inUse, groups, Held("mmap"))

ArenaInv == BuddyInv /\ Layers!SmallInv /\ Layers!MmapInv /\ ChunkShape /\ HoldersSound

LEMMA HeldIs == \A l : Held(l) = HolderOf(user, l) /\ Held(l)' = HolderOf(user', l)
BY DEF Held, HolderOf

LEMMA UserMore ==
  ASSUME Pairs(user), NEW l, NEW S, user' = user \cup ({l} \X S)
  PROVE  /\ Pairs(user') /\ Held(l)' = Held(l) \cup S
         /\ \A k : k # l => Held(k)' = Held(k)
<1>1. PICK U, V : U = user /\ V = user'
  OBVIOUS
<1>0. Pairs(U) /\ Given(V, U, l, S)
  BY <1>1 DEF Given
<1>2. /\ Pairs(V) /\ HolderOf(V, l) = HolderOf(U, l) \cup S
      /\ \A k : k # l => HolderOf(V, k) = HolderOf(U, k)
  BY ONLY <1>0, HeldMore
<1> QED
  BY <1>1, <1>2, HeldIs

LEMMA UserLess ==
  ASSUME Pairs(user), NEW l, NEW x, <<l, x>> \in user, user' = user \ {<<l, x>>}
  PROVE  /\ Pairs(user') /\ Held(l)' = Held(l) \ {x} /\ x \in Held(l)
         /\ \A k : k # l => Held(k)' = Held(k)
<1>1. PICK U, V : U = user /\ V = user'
  OBVIOUS
<1>2. /\ Pairs(V) /\ HolderOf(V, l) = HolderOf(U, l) \ {x} /\ x \in HolderOf(U, l)
      /\ \A k : k # l => HolderOf(V, k) = HolderOf(U, k)
  BY <1>1, HeldLess
<1> QED
  BY <1>1, <1>2, HeldIs

LEMMA BuddyStays == BuddyInv /\ UNCHANGED buddyVars => BuddyInv'
BY DEF buddyVars, BuddyInv, BuddyShape, ChunksSound, RecordsListed, NoIdleChunk

LEMMA MmapStays == Layers!MmapInv /\ UNCHANGED mmapVars => Layers!MmapInv'
<1>1. Layers!MmapInv /\ UNCHANGED mmapVars => Layers!Owns(arena, mapped, regions)'
  BY OwnsHere DEF mmapVars
<1> QED
  BY <1>1, OwnsHere, PTL

LEMMA SmallStays == Layers!SmallInv /\ UNCHANGED smallVars => Layers!SmallInv'
BY LayersAssumed, Layers!NextSmallInv DEF smallVars, Layers!smallVars

LEMMA InitArenaInv == ArenaInit => ArenaInv
<1> SUFFICES ASSUME ArenaInit PROVE ArenaInv
  OBVIOUS
<1>1. BuddyInv /\ Layers!SmallInv /\ Layers!MmapInv
  BY InitBuddyInv, LayersInit DEF ArenaInit
<1>2. \A l : Held(l) = {}
  BY DEF ArenaInit, Held
<1>3. /\ slots = {} /\ held = {} /\ live = {} /\ inUse = {} /\ groups = 0
      /\ regions = {} /\ groupMem = {} /\ user = {}
      /\ chunk = [c \in Records |-> NULL]
  BY DEF ArenaInit, BuddyInit, Small!SmallInit, Mmap!MmapInit
<1>4. Shared(regions, chunk, groupMem, inUse, groups, Held("mmap"))
  BY <1>2, <1>3, FS_EmptySet DEF Shared
<1> QED
  BY <1>1, <1>2, <1>3, <1>4 DEF ArenaInv, HoldersSound, ChunkShape, Pairs

\* What FailureIsClean says of a step.
Clean ==
  /\ user' = user => mapped' = mapped \cup {g[1] : g \in groupMem'}
  /\ user' = user => UNCHANGED <<live, slots, chunk>>
  /\ user \subseteq user' => mapped \subseteq mapped'

\* The groups' memory is mapped.
LEMMA GroupsStay ==
  ArenaInv => mapped = mapped \cup {g[1] : g \in groupMem}
<1> SUFFICES ASSUME ArenaInv PROVE mapped = mapped \cup {g[1] : g \in groupMem}
  OBVIOUS
<1>1. PICK H : H = Held("mmap")
  OBVIOUS
<1>2. Layers!Owns(arena, mapped, regions) /\ Shared(regions, chunk, groupMem, inUse, groups, H)
  BY <1>1, OwnsHere DEF ArenaInv, HoldersSound
<1> QED
  BY <1>2, GroupsMapped

\* malloc() of a small class when the class has a free slot.
LEMMA SlotTaken ==
  ASSUME ArenaInv, NEW cl \in Classes, Small!SmallAlloc(cl),
         UNCHANGED <<buddyVars, mmapVars, chunkVars>>,
         user' = user \cup ({"small"} \X (slots' \ slots))
  PROVE  ArenaInv' /\ Clean
<1>1. Layers!SmallInv' /\ held' = held /\ slots \subseteq slots' /\ slots' # slots
  BY SmallCalls DEF ArenaInv
<1>2. BuddyInv' /\ Layers!MmapInv'
  BY BuddyStays, MmapStays DEF ArenaInv
<1>3. /\ Pairs(user') /\ Held("small")' = Held("small") \cup (slots' \ slots)
      /\ Held("buddy")' = Held("buddy") /\ Held("mmap")' = Held("mmap")
  <2>1. PICK S : S = slots' \ slots
    OBVIOUS
  <2>2. Pairs(user) /\ user' = user \cup ({"small"} \X S)
    BY <2>1 DEF ArenaInv, HoldersSound
  <2>3. /\ Pairs(user') /\ Held("small")' = Held("small") \cup S
        /\ \A k : k # "small" => Held(k)' = Held(k)
    BY ONLY <2>2, UserMore
  <2> QED
    BY <2>1, <2>3
<1>4. /\ live' = live /\ inUse' = inUse /\ groups' = groups /\ chunk' = chunk
      /\ groupMem' = groupMem /\ regions' = regions /\ mapped' = mapped
  BY DEF buddyVars, mmapVars, chunkVars
<1>5. HoldersSound'
  BY <1>1, <1>3, <1>4 DEF ArenaInv, HoldersSound
<1>6. user' # user
  BY <1>1, <1>3, HeldIs DEF ArenaInv, HoldersSound
<1> QED
  BY <1>1, <1>2, <1>4, <1>5, <1>6 DEF ArenaInv, ChunkShape, Clean

\* malloc() of a small class that asks the buddy allocator for a block.
LEMMA BlockTaken ==
  ASSUME ArenaInv, NEW cl \in Classes, BuddyCall(BlockOrder),
         IF live' = live THEN Small!SmallAllocFails(cl)
         ELSE \E b \in live' \ live : Small!SmallAllocNew(cl, b),
         user' = user \cup ({"small"} \X (slots' \ slots))
  PROVE  ArenaInv' /\ Clean
<1>1. PICK H : H = Held("mmap")
  OBVIOUS
<1>2. /\ BuddyInv' /\ Layers!MmapInv' /\ ChunkShape'
      /\ Shared(regions', chunk', groupMem', inUse', groups', H)
      /\ live \subseteq live' /\ \E x : live' \subseteq live \cup {x}
      /\ \A b \in live' \ live : b[2] = BlockOrder
      /\ mapped \subseteq mapped'
      /\ live' = live => chunk' = chunk /\ mapped' = mapped \cup {x[1] : x \in groupMem'}
  <2>1. BlockOrder \in Orders
    BY ArenaAssumption
  <2> QED
    BY <1>1, <2>1, BuddyCallStep DEF ArenaInv, HoldersSound
<1>3. /\ Pairs(user') /\ Held("small")' = Held("small") \cup (slots' \ slots)
      /\ Held("buddy")' = Held("buddy") /\ Held("mmap")' = Held("mmap")
  <2>1. PICK S : S = slots' \ slots
    OBVIOUS
  <2>2. Pairs(user) /\ user' = user \cup ({"small"} \X S)
    BY <2>1 DEF ArenaInv, HoldersSound
  <2>3. /\ Pairs(user') /\ Held("small")' = Held("small") \cup S
        /\ \A k : k # "small" => Held(k)' = Held(k)
    BY ONLY <2>2, UserMore
  <2> QED
    BY <2>1, <2>3
<1>4. Shared(regions', chunk', groupMem', inUse', groups', Held("mmap")')
  BY <1>1, <1>2, <1>3
<1>5. CASE live' = live
  <2>1. Layers!SmallInv' /\ held' = held /\ slots' = slots
    BY <1>5, SmallCalls DEF ArenaInv
  <2>2. HoldersSound'
    BY <1>3, <1>4, <1>5, <2>1 DEF ArenaInv, HoldersSound
  <2> QED
    BY <1>2, <1>5, <2>1, <2>2 DEF ArenaInv, Clean
<1>6. CASE live' # live
  <2>1. PICK b \in live' \ live : Small!SmallAllocNew(cl, b)
    BY <1>6
  <2>2. b \in SmallBlocks
    <3>1. LiveSound'
      BY <1>2, LiveSoundFromInv, PTL
    <3>2. /\ inUse' \subseteq Records /\ b[1] \in inUse' /\ b[3] \in BlocksOf(b[2])
          /\ b = <<b[1], b[2], b[3]>>
      BY <2>1, <3>1 DEF LiveSound
    <3>3. b[2] = BlockOrder
      BY <1>2, <2>1
    <3> QED
      BY <3>2, <3>3 DEF SmallBlocks
  <2>3. Layers!SmallInv' /\ held' = held \cup {b} /\ slots \subseteq slots' /\ slots' # slots
    BY <2>1, <2>2, SmallCalls DEF ArenaInv
  <2>4. live' = live \cup {b}
    BY <1>2, <2>1
  <2>5. HoldersSound'
    BY <1>3, <1>4, <2>1, <2>3, <2>4 DEF ArenaInv, HoldersSound
  <2>6. user' # user
    BY <1>3, <2>3, HeldIs DEF ArenaInv, HoldersSound
  <2> QED
    BY <1>2, <2>3, <2>5, <2>6 DEF ArenaInv, Clean
<1> QED
  BY <1>5, <1>6

\* malloc() of pages.
LEMMA PagesTaken ==
  ASSUME ArenaInv, NEW k \in Orders, MallocPages(k)
  PROVE  ArenaInv' /\ Clean
<1>0. /\ BuddyCall(k) /\ user' = user \cup ({"buddy"} \X (live' \ live))
      /\ held' = held /\ slots' = slots /\ Layers!SmallInv'
  BY SmallStays DEF MallocPages, ArenaInv, smallVars
<1>1. PICK H : H = Held("mmap")
  OBVIOUS
<1>2. /\ BuddyInv' /\ Layers!MmapInv' /\ ChunkShape'
      /\ Shared(regions', chunk', groupMem', inUse', groups', H)
      /\ live \subseteq live'
      /\ mapped \subseteq mapped'
      /\ live' = live => chunk' = chunk /\ mapped' = mapped \cup {x[1] : x \in groupMem'}
  BY <1>0, <1>1, BuddyCallStep DEF ArenaInv, HoldersSound
<1>3. /\ Pairs(user') /\ Held("buddy")' = Held("buddy") \cup (live' \ live)
      /\ Held("small")' = Held("small") /\ Held("mmap")' = Held("mmap")
  <2>1. PICK S : S = live' \ live
    OBVIOUS
  <2>2. Pairs(user) /\ user' = user \cup ({"buddy"} \X S)
    BY <1>0, <2>1 DEF ArenaInv, HoldersSound
  <2> QED
    BY <2>1, <2>2, UserMore
<1>4. HoldersSound'
  BY <1>0, <1>1, <1>2, <1>3 DEF ArenaInv, HoldersSound
<1>5. user' = user => live' = live
  BY <1>2, <1>3, HeldIs DEF ArenaInv, HoldersSound
<1> QED
  BY <1>0, <1>2, <1>4, <1>5 DEF ArenaInv, Clean

\* malloc() of a whole region.
LEMMA RegionTaken ==
  ASSUME ArenaInv, MallocRegion
  PROVE  ArenaInv' /\ Clean
<1>0. /\ Mmap!MmapAlloc /\ user' = user \cup ({"mmap"} \X (regions' \ regions))
      /\ held' = held /\ slots' = slots /\ Layers!SmallInv' /\ BuddyInv'
      /\ live' = live /\ inUse' = inUse /\ groups' = groups /\ chunk' = chunk /\ groupMem' = groupMem
  BY SmallStays, BuddyStays DEF MallocRegion, ArenaInv, smallVars, buddyVars, chunkVars
<1>1. PICK H : H = Held("mmap") /\ Shared(regions, chunk, groupMem, inUse, groups, H)
  BY DEF ArenaInv, HoldersSound
<1>2. /\ Pairs(user') /\ Held("mmap")' = H \cup (regions' \ regions)
      /\ Held("small")' = Held("small") /\ Held("buddy")' = Held("buddy")
  <2>1. PICK S : S = regions' \ regions
    OBVIOUS
  <2>2. Pairs(user) /\ user' = user \cup ({"mmap"} \X S)
    BY <1>0, <2>1 DEF ArenaInv, HoldersSound
  <2> QED
    BY <1>1, <2>1, <2>2, UserMore
<1>3. Layers!Owns(arena, mapped, regions)
  BY OwnsHere DEF ArenaInv
<1>4. PICK o \in Mmap!Outcomes(arena, Regions \ mapped) :
        /\ arena' = o.arena
        /\ mapped' = mapped \cup ({o.got} \ {NULL})
        /\ regions' = IF o.got = NULL THEN regions ELSE regions \cup {<<o.got, o.arena.active>>}
  BY <1>0 DEF Mmap!MmapAlloc
<1>5. \/ o.got = NULL /\ Layers!Owns(o.arena, mapped, regions)
      \/ /\ o.got # NULL /\ o.got \in Regions \ mapped
         /\ <<o.got, o.arena.active>> \notin regions
         /\ Layers!Owns(o.arena, mapped \cup {o.got}, regions \cup {<<o.got, o.arena.active>>})
  BY <1>3, OutcomeSplit
<1>6. Layers!Owns(arena, mapped, regions)'
  <2>1. CASE o.got = NULL
    <3>1. mapped' = mapped /\ regions' = regions
      BY <1>4, <2>1
    <3> QED
      BY <1>4, <1>5, <2>1, <3>1
  <2>2. CASE o.got # NULL
    <3>1. mapped' = mapped \cup {o.got} /\ regions' = regions \cup {<<o.got, o.arena.active>>}
      BY <1>4, <2>2
    <3> QED
      BY <1>4, <1>5, <2>2, <3>1
  <2> QED
    BY <2>1, <2>2
<1>7. Layers!MmapInv'
  BY <1>6, OwnsHere, PTL
<1>8. mapped = mapped \cup {g[1] : g \in groupMem}
  BY GroupsStay
<1>9. CASE o.got = NULL
  <2>1. mapped' = mapped /\ regions' = regions
    BY <1>4, <1>9
  <2>2. HoldersSound'
    BY <1>0, <1>1, <1>2, <2>1 DEF ArenaInv, HoldersSound
  <2> QED
    BY <1>0, <1>7, <1>8, <2>1, <2>2 DEF ArenaInv, Clean, ChunkShape
<1>10. CASE o.got # NULL
  <2>1. PICK x : x = <<o.got, o.arena.active>>
    OBVIOUS
  <2>2. mapped' = mapped \cup {o.got} /\ regions' = regions \cup {x} /\ x \notin regions
    BY <1>4, <1>5, <1>10, <2>1
  <2>3. Shared(regions \cup {x}, chunk, groupMem, inUse, groups, H \cup {x})
    BY <1>1, <2>2, RegionShared
  <2>4. Held("mmap")' = H \cup {x} /\ x \notin H
    <3>1. H \subseteq regions
      BY <1>1 DEF Shared
    <3> QED
      BY <1>2, <2>2, <3>1
  <2>5. HoldersSound'
    BY <1>0, <1>2, <2>2, <2>3, <2>4 DEF ArenaInv, HoldersSound
  <2>6. user' # user
    BY <1>1, <2>4, HeldIs
  <2> QED
    BY <1>0, <1>7, <2>2, <2>5, <2>6 DEF ArenaInv, Clean, ChunkShape
<1> QED
  BY <1>9, <1>10

\* What free() takes from a holder was in the holder's hands.
LEMMA Released ==
  ASSUME ArenaInv, NEW l, NEW x, <<l, x>> \in user, user' = user \ {<<l, x>>}
  PROVE  /\ Pairs(user') /\ Held(l)' = Held(l) \ {x} /\ x \in Held(l)
         /\ \A k : k # l => Held(k)' = Held(k)
         /\ Clean
<1>1. Pairs(user)
  BY DEF ArenaInv, HoldersSound
<1>2. Clean
  <2>1. user' # user /\ ~ (user \subseteq user')
    OBVIOUS
  <2> QED
    BY ONLY <2>1 DEF Clean
<1> QED
  BY <1>1, <1>2, UserLess

\* free() of a slot.
LEMMA SlotFreed ==
  ASSUME ArenaInv, NEW s, <<"small", s>> \in user, FreeSmall(s)
  PROVE  ArenaInv' /\ Clean
<1>1. PICK H : H = Held("mmap")
  OBVIOUS
<1>2. user' = user \ {<<"small", s>>}
  BY DEF FreeSmall
<1>3. /\ Pairs(user') /\ Held("small")' = Held("small") \ {s} /\ s \in Held("small")
      /\ \A k : k # "small" => Held(k)' = Held(k)
      /\ Clean
  BY <1>2, Released
<1>4. Held("buddy")' = Held("buddy") /\ Held("mmap")' = H
  BY <1>1, <1>3
<1>5. PICK b, i : s = <<b, i>> /\ s[1] = b /\ s[2] = i /\ b \in held
  <2>1. slots \subseteq held \X Layers!AnySlot /\ s \in slots
    BY <1>3 DEF ArenaInv, HoldersSound, Layers!SmallInv, Layers!SmallTypeOK
  <2> QED
    BY <2>1
<1>6. <<b, i>> \in slots /\ b \in live /\ b \notin Held("buddy")
  BY <1>3, <1>5 DEF ArenaInv, HoldersSound
<1>7. CASE Small!SmallFree(s[1], s[2]) /\ UNCHANGED <<buddyVars, mmapVars, chunkVars>>
  <2>1. Layers!SmallInv' /\ held' = held /\ slots' = slots \ {s}
    BY <1>5, <1>6, <1>7, SmallCalls DEF ArenaInv
  <2>2. BuddyInv' /\ Layers!MmapInv'
    BY <1>7, BuddyStays, MmapStays DEF ArenaInv
  <2>3. /\ live' = live /\ inUse' = inUse /\ groups' = groups /\ chunk' = chunk
        /\ groupMem' = groupMem /\ regions' = regions
    BY <1>7 DEF buddyVars, mmapVars, chunkVars
  <2>4. HoldersSound'
    BY <1>1, <1>3, <1>4, <2>1, <2>3 DEF ArenaInv, HoldersSound
  <2> QED
    BY <1>3, <2>1, <2>2, <2>3, <2>4 DEF ArenaInv, ChunkShape
<1>8. CASE Small!SmallFreeReturns(s[1], s[2]) /\ BuddyFree(s[1])
  <2>1. Layers!SmallInv' /\ held' = held \ {b} /\ b \in held /\ slots' = slots \ {s}
    BY <1>5, <1>6, <1>8, SmallCalls DEF ArenaInv
  <2>2. /\ BuddyInv' /\ Layers!MmapInv' /\ ChunkShape'
        /\ Shared(regions', chunk', groupMem', inUse', groups', H)
        /\ live' = live \ {b}
    <3>1. BuddyFree(b)
      BY <1>5, <1>8
    <3>2. BuddyInv /\ Layers!MmapInv /\ ChunkShape /\ Shared(regions, chunk, groupMem, inUse, groups, H)
      BY <1>1 DEF ArenaInv, HoldersSound
    <3> QED
      BY <1>6, <3>1, <3>2, BuddyFreeStep
  <2>3. HoldersSound'
    <3>1. live' = held' \cup Held("buddy") /\ held' \cap Held("buddy") = {}
      BY <1>6, <2>1, <2>2 DEF ArenaInv, HoldersSound
    <3>2. slots' = Held("small")'
      BY <1>3, <2>1 DEF ArenaInv, HoldersSound
    <3> QED
      BY <1>3, <1>4, <2>2, <3>1, <3>2 DEF HoldersSound
  <2> QED
    BY <1>3, <2>1, <2>2, <2>3 DEF ArenaInv
<1> QED
  BY <1>7, <1>8 DEF FreeSmall

\* free() of pages.
LEMMA PagesFreed ==
  ASSUME ArenaInv, NEW b, <<"buddy", b>> \in user, FreePages(b)
  PROVE  ArenaInv' /\ Clean
<1>1. PICK H : H = Held("mmap")
  OBVIOUS
<1>2. user' = user \ {<<"buddy", b>>} /\ BuddyFree(b)
  BY DEF FreePages
<1>3. /\ Pairs(user') /\ Held("buddy")' = Held("buddy") \ {b} /\ b \in Held("buddy")
      /\ \A k : k # "buddy" => Held(k)' = Held(k)
      /\ Clean
  BY <1>2, Released
<1>4. Held("small")' = Held("small") /\ Held("mmap")' = H
  BY <1>1, <1>3
<1>5. Layers!SmallInv' /\ held' = held /\ slots' = slots
  BY SmallStays DEF FreePages, ArenaInv, smallVars
<1>6. /\ BuddyInv' /\ Layers!MmapInv' /\ ChunkShape'
      /\ Shared(regions', chunk', groupMem', inUse', groups', H)
      /\ live' = live \ {b}
  <2>1. /\ BuddyInv /\ Layers!MmapInv /\ ChunkShape
        /\ Shared(regions, chunk, groupMem, inUse, groups, H) /\ b \in live
    BY <1>1, <1>3 DEF ArenaInv, HoldersSound
  <2> QED
    BY <1>2, <2>1, BuddyFreeStep
<1>7. HoldersSound'
  <2>1. live' = held' \cup Held("buddy")' /\ held' \cap Held("buddy")' = {}
    BY <1>3, <1>5, <1>6 DEF ArenaInv, HoldersSound
  <2>2. slots' = Held("small")'
    BY <1>4, <1>5 DEF ArenaInv, HoldersSound
  <2> QED
    BY <1>3, <1>4, <1>6, <2>1, <2>2 DEF HoldersSound
<1> QED
  BY <1>3, <1>5, <1>6, <1>7 DEF ArenaInv

\* free() of a whole region.
LEMMA RegionFreed ==
  ASSUME ArenaInv, NEW a, <<"mmap", a>> \in user, FreeRegion(a)
  PROVE  ArenaInv' /\ Clean
<1>1. PICK H : H = Held("mmap") /\ Shared(regions, chunk, groupMem, inUse, groups, H)
  BY DEF ArenaInv, HoldersSound
<1>2. user' = user \ {<<"mmap", a>>} /\ Layers!MmapFree(a[2])
  BY SameMmapFree DEF FreeRegion
<1>3. /\ Pairs(user') /\ Held("mmap")' = Held("mmap") \ {a} /\ a \in Held("mmap")
      /\ \A k : k # "mmap" => Held(k)' = Held(k)
      /\ Clean
  BY <1>2, Released
<1>4. Held("small")' = Held("small") /\ Held("buddy")' = Held("buddy") /\ Held("mmap")' = H \ {a}
  BY <1>1, <1>3
<1>5. /\ Layers!SmallInv' /\ held' = held /\ slots' = slots /\ BuddyInv'
      /\ live' = live /\ inUse' = inUse /\ groups' = groups /\ chunk' = chunk /\ groupMem' = groupMem
  BY SmallStays, BuddyStays DEF FreeRegion, ArenaInv, smallVars, buddyVars, chunkVars
<1>6. Shared(regions \ {a}, chunk, groupMem, inUse, groups, H \ {a}) /\ a \in regions
  BY <1>1, <1>3, RegionShared
<1>7. Layers!MmapInv' /\ regions' = regions \ {a}
  BY <1>2, <1>6, LayersAssumed, Layers!MmapFreeKeepsInv DEF ArenaInv
<1>8. HoldersSound'
  BY <1>3, <1>4, <1>5, <1>6, <1>7 DEF ArenaInv, HoldersSound
<1> QED
  BY <1>3, <1>5, <1>7, <1>8 DEF ArenaInv, ChunkShape

LEMMA NextArenaInv == ArenaInv /\ [ArenaNext]_arenaVars => ArenaInv' /\ Clean
<1> SUFFICES ASSUME ArenaInv, [ArenaNext]_arenaVars PROVE ArenaInv' /\ Clean
  OBVIOUS
<1>1. CASE ArenaMalloc
  <2>1. ASSUME NEW cl \in Classes, MallocSmall(cl) PROVE ArenaInv' /\ Clean
    BY <2>1, SlotTaken, BlockTaken DEF MallocSmall
  <2>2. ASSUME NEW k \in Orders, MallocPages(k) PROVE ArenaInv' /\ Clean
    BY <2>2, PagesTaken
  <2>3. ASSUME MallocRegion PROVE ArenaInv' /\ Clean
    BY <2>3, RegionTaken
  <2> QED
    BY <1>1, <2>1, <2>2, <2>3 DEF ArenaMalloc
<1>2. CASE \E u \in user : ArenaFree(u)
  <2>1. PICK u \in user : ArenaFree(u)
    BY <1>2
  <2>2. u = <<u[1], u[2]>>
    BY <2>1 DEF ArenaInv, HoldersSound, Pairs
  <2>3. PICK l, x : l = u[1] /\ x = u[2]
    OBVIOUS
  <2>4. <<l, x>> \in user
    BY <2>1, <2>2, <2>3
  <2>5. CASE l = "small" /\ FreeSmall(x)
    BY <2>4, <2>5, SlotFreed
  <2>6. CASE l = "buddy" /\ FreePages(x)
    BY <2>4, <2>6, PagesFreed
  <2>7. CASE l = "mmap" /\ FreeRegion(x)
    BY <2>4, <2>7, RegionFreed
  <2> QED
    BY <2>1, <2>3, <2>5, <2>6, <2>7 DEF ArenaFree
<1>3. CASE UNCHANGED arenaVars
  <2>1. UNCHANGED <<buddyVars, smallVars, mmapVars, chunkVars, user>>
    BY <1>3 DEF arenaVars
  <2>2. BuddyInv' /\ Layers!SmallInv' /\ Layers!MmapInv'
    BY <2>1, BuddyStays, SmallStays, MmapStays DEF ArenaInv
  <2>3. /\ live' = live /\ inUse' = inUse /\ groups' = groups /\ chunk' = chunk
        /\ groupMem' = groupMem /\ regions' = regions /\ mapped' = mapped
        /\ held' = held /\ slots' = slots /\ user' = user
    BY <2>1 DEF buddyVars, smallVars, mmapVars, chunkVars
  <2>4. \A l : Held(l)' = Held(l)
    BY <2>3 DEF Held
  <2>5. HoldersSound' /\ ChunkShape'
    BY <2>3, <2>4 DEF ArenaInv, HoldersSound, ChunkShape
  <2>6. Clean
    BY <2>3, GroupsStay DEF Clean
  <2> QED
    BY <2>2, <2>5, <2>6 DEF ArenaInv
<1> QED
  BY <1>1, <1>2, <1>3 DEF ArenaNext

(***************************************************************************)
(* What the invariant says of the properties                               *)
(***************************************************************************)

LEMMA ImageCount ==
  ASSUME NEW S, IsFiniteSet(S), NEW f, NEW T, f = [x \in S |-> f[x]], T = {f[x] : x \in S}
  PROVE  IsFiniteSet(T) /\ Cardinality(T) <= Cardinality(S)
<1>1. f \in Surjection(S, T)
  BY DEF Surjection
<1> QED
  BY <1>1, FS_Surjection

\* There are as many regions as records at most.
LEMMA RegionsFinite ==
  ASSUME NEW m, NEW M, NEW R, Layers!Owns(m, M, R)
  PROVE  IsFiniteSet(R) /\ IsFiniteSet(M) /\ Cardinality(M) <= Cardinality(R)
<1>1. PICK A : A = Layers!ActiveRecords(m)
  OBVIOUS
<1>2. IsFiniteSet(A)
  <2>1. MmapMaxGroups * MmapPerGroup \in Nat
    BY ArenaAssumption
  <2>2. PICK n \in Int : n = MmapMaxGroups * MmapPerGroup - 1
    BY <2>1
  <2>3. A \subseteq 0 .. n
    BY <1>1, <2>2 DEF Layers!ActiveRecords, Layers!MmapRecords
  <2>4. IsFiniteSet(0 .. n)
    BY FS_Interval
  <2> QED
    BY <2>3, <2>4, FS_Subset
<1>3. IsFiniteSet(R)
  <2>1. PICK f : f = [r \in A |-> <<m.region[r], r>>]
    OBVIOUS
  <2>2. R = {f[r] : r \in A}
    BY <1>1, <2>1 DEF Layers!Owns
  <2>3. f = [r \in A |-> f[r]]
    BY <2>1
  <2> QED
    BY <1>2, <2>2, <2>3, ImageCount
<1>4. IsFiniteSet(M) /\ Cardinality(M) <= Cardinality(R)
  <2>1. PICK f : f = [d \in R |-> d[1]]
    OBVIOUS
  <2>2. M = {f[d] : d \in R}
    BY <2>1 DEF Layers!Owns
  <2>3. f = [d \in R |-> f[d]]
    BY <2>1
  <2> QED
    BY <1>3, <2>2, <2>3, ImageCount
<1> QED
  BY <1>3, <1>4

\* The regions of an arena, counted by who holds them.
LEMMA RegionCount ==
  ASSUME ArenaInv
  PROVE  /\ Cardinality(regions) = Cardinality(inUse) + groups + Cardinality(Held("mmap"))
         /\ IsFiniteSet(inUse) /\ IsFiniteSet(mapped)
         /\ groups \in Nat
         /\ Cardinality(mapped) <= Cardinality(regions)
         /\ Cardinality(mapped) \in Nat /\ Cardinality(regions) \in Nat /\ Cardinality(inUse) \in Nat
<1>1. PICK H : H = Held("mmap") /\ Shared(regions, chunk, groupMem, inUse, groups, H)
  BY DEF ArenaInv, HoldersSound
<1>2. Layers!Owns(arena, mapped, regions)
  BY OwnsHere DEF ArenaInv
<1>3. IsFiniteSet(regions) /\ IsFiniteSet(mapped) /\ Cardinality(mapped) <= Cardinality(regions)
  BY <1>2, RegionsFinite
<1>4. IsFiniteSet(inUse) /\ groups \in Nat
  BY LiveShape DEF ArenaInv
<1>5. Cardinality(regions) = Cardinality(inUse) + groups + Cardinality(H)
  BY <1>1, <1>3, <1>4, SharedCount
<1>6. Cardinality(mapped) \in Nat /\ Cardinality(regions) \in Nat /\ Cardinality(inUse) \in Nat
  BY <1>3, <1>4, FS_CardinalityType
<1> QED
  BY <1>1, <1>3, <1>4, <1>5, <1>6

LEMMA HeldOnceFromInv == ArenaInv => EveryAllocationHeldOnce
<1> SUFFICES ASSUME ArenaInv PROVE EveryAllocationHeldOnce
  OBVIOUS
<1>1. Cardinality(regions) = Cardinality(inUse) + groups + Cardinality(Held("mmap"))
  BY RegionCount
<1>2. regions = {chunk[c] : c \in inUse} \cup groupMem \cup Held("mmap")
  BY DEF ArenaInv, HoldersSound, Shared
<1> QED
  BY <1>1, <1>2 DEF ArenaInv, HoldersSound, EveryAllocationHeldOnce, ChunkMem

\* At rest a class keeps the one block whose slots are all free.
LEMMA HeldAtRest ==
  ASSUME Layers!SmallInv, slots = {}
  PROVE  IsFiniteSet(held) /\ Cardinality(held) <= Cardinality(Classes)
<1>1. \A b \in held : cls[b] \in Classes
  BY DEF Layers!SmallInv, Layers!SmallTypeOK, Layers!BitmapsSound
<1>2. \A b, c \in held : cls[b] = cls[c] => b = c
  <2>1. \A b \in held : b \in Layers!IdleBlocks(cls[b])
    BY DEF Layers!IdleBlocks, Layers!BlocksOfClass, Layers!LiveIn
  <2> QED
    BY <1>1, <2>1 DEF Layers!SmallInv, Layers!AtMostOneIdle
<1>3. PICK f : f = [b \in held |-> cls[b]]
  OBVIOUS
<1>4. f \in Injection(held, Classes)
  BY <1>1, <1>2, <1>3 DEF Injection, IsInjective
<1> QED
  BY <1>4, ArenaAssumption, FS_Injection

LEMMA RestFromInv == ArenaInv => RestFootprint
<1> SUFFICES ASSUME ArenaInv, user = {} PROVE RestFootprint
  BY DEF RestFootprint
<1>1. \A l : Held(l) = {}
  BY DEF Held
<1>2. slots = {} /\ live = held
  BY <1>1 DEF ArenaInv, HoldersSound
<1>3. IsFiniteSet(held) /\ Cardinality(held) <= Cardinality(Classes)
  BY <1>2, HeldAtRest DEF ArenaInv
<1>4. PICK P : P = {b[1] : b \in held}
  OBVIOUS
<1>5. IsFiniteSet(P) /\ Cardinality(P) \in Nat
  <2>1. PICK f : f = [b \in held |-> b[1]]
    OBVIOUS
  <2>2. P = {f[b] : b \in held} /\ f = [b \in held |-> f[b]]
    BY <1>4, <2>1
  <2> QED
    BY <1>3, <2>2, ImageCount, FS_CardinalityType
<1>6. Cardinality(mapped) <= groups + Cardinality(inUse)
  <2>1. Cardinality(Held("mmap")) = 0
    BY <1>1, FS_EmptySet
  <2> QED
    BY <2>1, RegionCount
<1>7. Cardinality(inUse) <= Cardinality(P) \/ Cardinality(inUse) <= Keep
  <2>1. CASE chunkNum > Keep
    <3>1. inUse \subseteq P
      BY <1>2, <1>4, <2>1 DEF ArenaInv, BuddyInv, NoIdleChunk
    <3> QED
      BY <1>5, <3>1, FS_Subset
  <2>2. CASE ~ (chunkNum > Keep)
    <3>1. chunkNum = Cardinality(inUse)
      BY DEF ArenaInv, BuddyInv, NoIdleChunk
    <3> QED
      BY <2>2, <3>1, RegionCount, BuddyAssumption
  <2> QED
    BY <2>1, <2>2
<1>8. Cardinality(mapped) <= groups + (IF Cardinality(P) > Keep THEN Cardinality(P) ELSE Keep)
  BY <1>5, <1>6, <1>7, RegionCount, BuddyAssumption
<1> QED
  BY <1>3, <1>4, <1>8 DEF RestFootprint

(***************************************************************************)
(* The theorems                                                            *)
(***************************************************************************)

LEMMA ArenaInvAlways == ArenaSpec => [](ArenaInv)
<1> QED
  BY InitArenaInv, NextArenaInv, PTL DEF ArenaSpec

\* Every slot, block and region a layer of an arena has handed out is in the hands of
\* exactly one party, the layer above or a caller of malloc(): nothing is lost and
\* nothing is held twice, whichever of the mmaps of a call fail (malloc.c, buddy.c:168,
\* mmap.c:57).
THEOREM AllocationsHeldOnce == ArenaSpec => []EveryAllocationHeldOnce
<1> QED
  BY ArenaInvAlways, HeldOnceFromInv, PTL

\* An arena whose callers have freed everything keeps at most one block for each class
\* (small_class.c:131), the chunks of those blocks or LIBC_KEEP_CHUNK_NUM chunks
\* (buddy.c:18), and the groups of chunk records.
THEOREM ArenaRests == ArenaSpec => []RestFootprint
<1> QED
  BY ArenaInvAlways, RestFromInv, PTL

\* malloc() that returns NULL changes nothing but the memory kept for later records,
\* and no malloc() unmaps anything.
THEOREM FailuresAreClean == ArenaSpec => FailureIsClean
<1>1. ArenaInv /\ [ArenaNext]_arenaVars =>
        [/\ user' = user => mapped' = mapped \cup {g[1] : g \in groupMem'}
         /\ user' = user => UNCHANGED <<live, slots, chunk>>
         /\ user \subseteq user' => mapped \subseteq mapped']_arenaVars
  BY NextArenaInv DEF Clean
<1> QED
  BY <1>1, ArenaInvAlways, PTL DEF ArenaSpec, FailureIsClean

==============================================================================
