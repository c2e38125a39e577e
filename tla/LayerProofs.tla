----------------------------- MODULE LayerProofs ------------------------------
(***************************************************************************)
(* Proofs about the allocators above and below the buddy allocator:        *)
(* SmallClass for any finite set of classes, any number of slots above one *)
(* in a block of each and any set of blocks, and MmapAlloc for any size of *)
(* a group of records, any number of groups and any set of regions.        *)
(***************************************************************************)
EXTENDS SmallClass, MmapAlloc, MemoryLemmas

\* The blocks that should be in the list of a class, and the idle ones of a class.
AvailBlocks(cl) == {b \in BlocksOfClass(cl) : bitmap[b] # {}}
IdleBlocks(cl)  == {b \in BlocksOfClass(cl) : LiveIn(b) = {}}

\* What the bitmap and the counter of a block say, the block in use or not, and
\* why a block that gets its first free slot may be pushed: it has no 'prev'.
BitmapsSound ==
  \A b \in Blocks :
    /\ bitmap[b] \subseteq AnySlot
    /\ slotNum[b] = Cardinality(bitmap[b])
    /\ b \in held => /\ cls[b] \in Classes
                     /\ bitmap[b] \subseteq SlotsOf(cls[b])
                     /\ bitmap[b] = {} => prevAvail[b] = NULL

AtMostOneIdle == \A cl \in Classes : \A b, c \in IdleBlocks(cl) : b = c

SmallInv ==
  /\ SmallTypeOK
  /\ BlockListsSound
  /\ SlotsPartitioned
  /\ BitmapsSound
  /\ AtMostOneIdle

(***************************************************************************)
(* The slots of a block                                                    *)
(***************************************************************************)

LEMMA SlotsOfFinite ==
  ASSUME NEW cl \in Classes
  PROVE  /\ IsFiniteSet(SlotsOf(cl))
         /\ Cardinality(SlotsOf(cl)) = Slots[cl]
         /\ SlotsOf(cl) \subseteq AnySlot
         /\ SlotsOf(cl) \subseteq Nat
         /\ 0 \in SlotsOf(cl)
         /\ Slots[cl] \in Nat /\ Slots[cl] > 1
<1>1. Slots[cl] \in Nat /\ Slots[cl] > 1
  BY SmallClassAssumption
<1>2. IsFiniteSet(SlotsOf(cl)) /\ Cardinality(SlotsOf(cl)) = Slots[cl]
  BY <1>1, FS_Interval DEF SlotsOf
<1> QED
  BY <1>1, <1>2 DEF SlotsOf, AnySlot

LEMMA AnySlotFinite ==
  /\ IsFiniteSet(AnySlot)
  /\ AnySlot \subseteq Nat
<1> DEFINE C == {SlotsOf(cl) : cl \in Classes}
           f == [cl \in Classes |-> SlotsOf(cl)]
<1>1. f \in Surjection(Classes, C)
  BY DEF Surjection
<1>2. IsFiniteSet(C)
  BY <1>1, FS_Surjection, SmallClassAssumption, Zenon
<1>3. \A T \in C : IsFiniteSet(T)
  BY SlotsOfFinite
<1>4. IsFiniteSet(UNION C)
  BY <1>2, <1>3, FS_UNION, Zenon
<1> QED
  BY <1>4, SlotsOfFinite DEF AnySlot

LEMMA FreeSlotsFinite ==
  ASSUME NEW T \in SUBSET AnySlot
  PROVE  /\ IsFiniteSet(T)
         /\ T \subseteq Nat
         /\ Cardinality(T) \in Nat
         /\ Cardinality(T) <= Cardinality(AnySlot)
         /\ Cardinality(T) = 0 <=> T = {}
         /\ \A i : /\ i \in T => Cardinality(T \ {i}) = Cardinality(T) - 1
                   /\ i \notin T => Cardinality(T \cup {i}) = Cardinality(T) + 1
<1>1. IsFiniteSet(T) /\ Cardinality(T) <= Cardinality(AnySlot)
  BY AnySlotFinite, FS_Subset
<1>2. Cardinality(T) \in Nat /\ (Cardinality(T) = 0 <=> T = {})
  BY <1>1, FS_CardinalityType, FS_EmptySet
<1>3. ASSUME NEW i PROVE /\ i \in T => Cardinality(T \ {i}) = Cardinality(T) - 1
                         /\ i \notin T => Cardinality(T \cup {i}) = Cardinality(T) + 1
  BY <1>1, FS_AddElement, FS_RemoveElement
<1> QED
  BY <1>1, <1>2, <1>3, AnySlotFinite

(***************************************************************************)
(* The operations on lists                                                 *)
(***************************************************************************)

LEMMA TakeOutLeaves ==
  ASSUME NEW R, NULL \notin R, NEW l, IsList(l, R), NEW S \in SUBSET R, Chained(l, S),
         NEW r \in S
  PROVE  /\ IsList(TakeOut(l, r), R)
         /\ Chained(TakeOut(l, r), S \ {r})
         /\ \A q \in R \ S : /\ TakeOut(l, r).next[q] = l.next[q]
                             /\ TakeOut(l, r).prev[q] = l.prev[q]
<1> DEFINE l2 == TakeOut(l, r)
<1>1. /\ l.next[r] # NULL => l.next[r] \in S
      /\ l.prev[r] # NULL => l.prev[r] \in S
  BY DEF Chained
<1>2. /\ l2.head = IF l.head = r THEN l.next[r] ELSE l.head
      /\ l2.next = IF l.prev[r] = NULL THEN l.next
                   ELSE [l.next EXCEPT ![l.prev[r]] = l.next[r]]
      /\ l2.prev = IF l.next[r] = NULL THEN l.prev
                   ELSE [l.prev EXCEPT ![l.next[r]] = l.prev[r]]
  BY DEF TakeOut, Store
<1>3. IsList(l2, R)
  BY <1>1, <1>2 DEF IsList, TakeOut
<1>4. \A q \in R : /\ l2.next[q] = IF q = l.prev[r] THEN l.next[r] ELSE l.next[q]
                   /\ l2.prev[q] = IF q = l.next[r] THEN l.prev[r] ELSE l.prev[q]
  BY <1>1, <1>2 DEF IsList
<1>5. Chained(l2, S \ {r})
  <2> HIDE DEF l2
  <2> QED
    BY <1>2, <1>4, ChainedRemove
<1> QED
  BY <1>1, <1>3, <1>4, <1>5

LEMMA DropHeadTakesOut ==
  ASSUME NEW l, l.prev[l.head] = NULL
  PROVE  DropHead(l) = TakeOut(l, l.head)
BY DEF DropHead, TakeOut, Store

LEMMA EnlistJoins ==
  ASSUME NEW R, NULL \notin R, NEW l, IsList(l, R), NEW S \in SUBSET R, Chained(l, S),
         NEW r \in R \ S
  PROVE  /\ IsList(Enlist(l, r), R)
         /\ Chained(Enlist(l, r), S \cup {r})
         /\ Enlist(l, r).head = r
         /\ \A q \in R \ (S \cup {r}) : /\ Enlist(l, r).next[q] = l.next[q]
                                        /\ Enlist(l, r).prev[q] = l.prev[q]
<1> DEFINE l2 == [l EXCEPT !.prev[r] = NULL]
<1>1. IsList(l2, R)
  BY DEF IsList
<1>2. /\ l2.head = l.head
      /\ l2.prev[r] = NULL
      /\ \A q \in R \ {r} : l2.next[q] = l.next[q] /\ l2.prev[q] = l.prev[q]
  BY DEF IsList
<1>3. Chained(l2, S)
  <2> HIDE DEF l2
  <2> QED
    BY <1>2, ChainedFrame
<1>4. Enlist(l, r) = Push(l2, r)
  BY DEF Enlist
<1> HIDE DEF l2
<1>5. /\ IsList(Push(l2, r), R)
      /\ Chained(Push(l2, r), S \cup {r})
      /\ Push(l2, r).head = r
      /\ \A q \in R \ (S \cup {r}) : /\ Push(l2, r).next[q] = l2.next[q]
                                     /\ Push(l2, r).prev[q] = l2.prev[q]
  BY <1>1, <1>2, <1>3, PushJoins
<1> QED
  BY <1>2, <1>4, <1>5

(***************************************************************************)
(* The invariant                                                           *)
(***************************************************************************)

\* What the invariant says about the lists, in the terms of the lemmas on lists.
LEMMA ListFacts ==
  ASSUME SmallInv
  PROVE  /\ NULL \notin Blocks
         /\ held \subseteq Blocks
         /\ IsList(BlockList, Blocks)
         /\ Chained(BlockList, held)
         /\ \A cl \in Classes : /\ IsList(AvailList(cl), Blocks)
                                /\ Chained(AvailList(cl), AvailBlocks(cl))
                                /\ AvailBlocks(cl) \subseteq held
                                /\ head[cl] # NULL => head[cl] \in AvailBlocks(cl)
                                /\ head[cl] = NULL => AvailBlocks(cl) = {}
<1>1. NULL \notin Blocks /\ held \subseteq Blocks /\ IsList(BlockList, Blocks)
  BY SmallClassAssumption DEF SmallInv, SmallTypeOK, IsList, BlockList
<1>2. Chained(BlockList, held)
  BY DEF SmallInv, BlockListsSound
<1>3. ASSUME NEW cl \in Classes
      PROVE  /\ IsList(AvailList(cl), Blocks)
             /\ Chained(AvailList(cl), AvailBlocks(cl))
             /\ AvailBlocks(cl) \subseteq held
             /\ head[cl] # NULL => head[cl] \in AvailBlocks(cl)
             /\ head[cl] = NULL => AvailBlocks(cl) = {}
  <2>1. IsList(AvailList(cl), Blocks)
    BY DEF SmallInv, SmallTypeOK, IsList, AvailList
  <2>2. Chained(AvailList(cl), AvailBlocks(cl)) /\ AvailList(cl).head = head[cl]
    BY DEF SmallInv, BlockListsSound, AvailBlocks, AvailList
  <2>3. AvailBlocks(cl) \subseteq held
    BY DEF AvailBlocks, BlocksOfClass
  <2>4. head[cl] # NULL => head[cl] \in AvailBlocks(cl)
    BY <2>2 DEF Chained
  <2>5. head[cl] = NULL => AvailBlocks(cl) = {}
    BY <1>1, <2>2, <2>3, HeadOfMembers
  <2> QED
    BY <2>1, <2>2, <2>3, <2>4, <2>5
<1> QED
  BY <1>1, <1>2, <1>3

LEMMA InitSmallInv == SmallInit => SmallInv
<1> SUFFICES ASSUME SmallInit PROVE SmallInv
  OBVIOUS
<1> USE SmallClassAssumption DEF SmallInit
<1>1. SmallTypeOK
  <2>1. Cardinality(AnySlot) \in Nat
    BY AnySlotFinite, FS_CardinalityType
  <2> QED
    BY <2>1 DEF SmallTypeOK
<1>2. BlockListsSound
  BY DEF BlockListsSound, Chained, Acyclic, AvailList, BlockList, BlocksOfClass
<1>3. SlotsPartitioned /\ AtMostOneIdle
  BY DEF SlotsPartitioned, AtMostOneIdle, IdleBlocks, BlocksOfClass
<1>4. BitmapsSound
  BY FS_EmptySet DEF BitmapsSound
<1> QED
  BY <1>1, <1>2, <1>3, <1>4 DEF SmallInv

\* The lists after a step that changes the list of one class.
LEMMA AvailListsStep ==
  ASSUME SmallInv, NEW cl \in Classes, NEW l,
         SetAvailList(cl, l),
         Chained(l, AvailBlocks(cl)'),
         \A c \in Classes \ {cl} :
           /\ AvailBlocks(c)' = AvailBlocks(c)
           /\ \A q \in AvailBlocks(c) : l.next[q] = nextAvail[q] /\ l.prev[q] = prevAvail[q]
  PROVE  \A c \in Classes : Chained(AvailList(c)', AvailBlocks(c)')
<1>1. ASSUME NEW c \in Classes PROVE Chained(AvailList(c)', AvailBlocks(c)')
  <2>1. /\ AvailList(c)'.head = IF c = cl THEN l.head ELSE head[c]
        /\ AvailList(c)'.next = l.next
        /\ AvailList(c)'.prev = l.prev
    BY DEF SetAvailList, AvailList, SmallInv, SmallTypeOK
  <2>2. CASE c = cl
    BY <2>1, <2>2, ChainedFrame
  <2>3. CASE c # cl
    <3>1. Chained(AvailList(c), AvailBlocks(c)) /\ AvailBlocks(c)' = AvailBlocks(c)
      BY <2>3, ListFacts
    <3>2. /\ AvailList(c).head = head[c]
          /\ AvailList(c).next = nextAvail
          /\ AvailList(c).prev = prevAvail
      BY DEF AvailList
    <3>3. \A q \in AvailBlocks(c) : /\ AvailList(c)'.next[q] = AvailList(c).next[q]
                                    /\ AvailList(c)'.prev[q] = AvailList(c).prev[q]
      BY <2>1, <2>3, <3>2
    <3> QED
      BY <2>1, <2>3, <3>1, <3>2, <3>3, ChainedFrame
  <2> QED
    BY <2>2, <2>3
<1> QED
  BY <1>1

LEMMA AvailDisjoint ==
  \A c, d \in Classes : c # d => AvailBlocks(c) \cap AvailBlocks(d) = {}
BY DEF AvailBlocks, BlocksOfClass

LEMMA SmallAllocKeepsInv ==
  ASSUME SmallInv, NEW cl \in Classes, SmallAlloc(cl)
  PROVE  SmallInv'
<1> DEFINE b == head[cl]
           i == Min(bitmap[b])
           l == IF slotNum[b] = 1 THEN DropHead(AvailList(cl)) ELSE AvailList(cl)
<1>1. /\ b \in AvailBlocks(cl) /\ b \in held /\ b \in Blocks
      /\ cls[b] = cl /\ bitmap[b] # {} /\ bitmap[b] \subseteq SlotsOf(cl)
      /\ slotNum[b] = Cardinality(bitmap[b])
  BY ListFacts DEF SmallAlloc, AvailBlocks, BlocksOfClass, SmallInv, BitmapsSound
<1>2. /\ i \in bitmap[b] /\ i \in SlotsOf(cl) /\ i \in AnySlot
      /\ Cardinality(bitmap[b] \ {i}) = slotNum[b] - 1
      /\ slotNum[b] \in Nat /\ slotNum[b] > 0
      /\ bitmap[b] \ {i} = {} <=> slotNum[b] = 1
      /\ slotNum[b] <= Cardinality(AnySlot) /\ Cardinality(AnySlot) \in Nat
  <2>1. bitmap[b] \subseteq AnySlot /\ bitmap[b] \subseteq Nat
    BY <1>1, SlotsOfFinite
  <2>2. i \in bitmap[b]
    BY <1>1, <2>1, MinOfNaturals
  <2> HIDE DEF b, i
  <2>3. i \in SlotsOf(cl) /\ i \in AnySlot
    BY <1>1, <2>1, <2>2
  <2>4. bitmap[b] \ {i} \subseteq AnySlot
    BY <2>1
  <2>5. Cardinality(AnySlot) \in Nat
    BY AnySlotFinite, FS_CardinalityType
  <2>6. /\ slotNum[b] \in Nat /\ slotNum[b] <= Cardinality(AnySlot)
        /\ slotNum[b] # 0
        /\ Cardinality(bitmap[b] \ {i}) = slotNum[b] - 1
    BY <1>1, <2>1, <2>2, FreeSlotsFinite
  <2>7. bitmap[b] \ {i} = {} <=> slotNum[b] = 1
    BY <2>4, <2>6, FreeSlotsFinite
  <2> QED
    BY <2>2, <2>3, <2>5, <2>6, <2>7
<1>3. /\ bitmap' = [bitmap EXCEPT ![b] = bitmap[b] \ {i}]
      /\ slotNum' = [slotNum EXCEPT ![b] = slotNum[b] - 1]
      /\ slots' = slots \cup {<<b, i>>}
      /\ SetAvailList(cl, l)
      /\ UNCHANGED <<held, cls, blockHead, nextBlock, prevBlock>>
  BY DEF SmallAlloc
<1>4. /\ AvailList(cl).head = b /\ AvailList(cl).next = nextAvail
      /\ AvailList(cl).prev = prevAvail
      /\ IsList(AvailList(cl), Blocks)
      /\ Chained(AvailList(cl), AvailBlocks(cl))
      /\ AvailBlocks(cl) \in SUBSET Blocks
      /\ NULL \notin Blocks
  BY ListFacts DEF AvailList
<1>5. prevAvail[b] = NULL
  BY <1>1, <1>4 DEF Chained
<1>6. l = IF slotNum[b] = 1 THEN TakeOut(AvailList(cl), b) ELSE AvailList(cl)
  BY <1>4, <1>5, DropHeadTakesOut
<1> HIDE DEF i, l, b
\* the list of the class loses b when its last slot is taken
<1>7. /\ IsList(l, Blocks)
      /\ Chained(l, IF slotNum[b] = 1 THEN AvailBlocks(cl) \ {b} ELSE AvailBlocks(cl))
      /\ \A q \in Blocks \ AvailBlocks(cl) : l.next[q] = nextAvail[q] /\ l.prev[q] = prevAvail[q]
  <2>1. CASE slotNum[b] = 1
    BY <1>1, <1>4, <1>6, <2>1, TakeOutLeaves
  <2>2. CASE slotNum[b] # 1
    BY <1>4, <1>6, <2>2
  <2> QED
    BY <2>1, <2>2
<1>8. slotNum[b] = 1 => l.prev[b] = NULL
  BY <1>1, <1>4, <1>5, <1>6 DEF TakeOut, Store, IsList
<1>9. \A c \in Classes : AvailBlocks(c)' =
        IF c = cl /\ slotNum[b] = 1 THEN AvailBlocks(cl) \ {b} ELSE AvailBlocks(c)
  BY <1>1, <1>2, <1>3 DEF AvailBlocks, BlocksOfClass, SmallInv, SmallTypeOK
<1>10. SmallTypeOK'
  BY <1>1, <1>2, <1>3, <1>7 DEF SmallInv, SmallTypeOK, IsList, SetAvailList
<1>11. BlockListsSound'
  <2>1. \A c \in Classes : Chained(AvailList(c)', AvailBlocks(c)')
    <3>1. Chained(l, AvailBlocks(cl)')
      BY <1>7, <1>9
    <3>2. \A c \in Classes \ {cl} :
            /\ AvailBlocks(c)' = AvailBlocks(c)
            /\ \A q \in AvailBlocks(c) : l.next[q] = nextAvail[q] /\ l.prev[q] = prevAvail[q]
      BY <1>7, <1>9, ListFacts, AvailDisjoint
    <3> QED
      BY <1>3, <3>1, <3>2, AvailListsStep
  <2>2. Chained(BlockList, held)'
    BY <1>3, ListFacts DEF BlockList
  <2> QED
    BY <2>1, <2>2 DEF BlockListsSound, AvailBlocks
<1>12. SlotsPartitioned'
  BY <1>1, <1>2, <1>3 DEF SmallInv, SmallTypeOK, SlotsPartitioned, LiveIn
<1>13. BitmapsSound'
  <2>1. ASSUME NEW q \in Blocks
        PROVE  /\ bitmap'[q] \subseteq AnySlot
               /\ slotNum'[q] = Cardinality(bitmap'[q])
               /\ q \in held' => /\ cls'[q] \in Classes
                                 /\ bitmap'[q] \subseteq SlotsOf(cls'[q])
    BY <1>1, <1>2, <1>3 DEF SmallInv, SmallTypeOK, BitmapsSound
  <2>2. ASSUME NEW q \in held', bitmap'[q] = {}
        PROVE  prevAvail'[q] = NULL
    <3>1. CASE q = b
      BY <1>1, <1>2, <1>3, <1>8, <2>2, <3>1 DEF SmallInv, SmallTypeOK, SetAvailList
    <3>2. CASE q # b
      BY <1>3, <1>7, <2>2, <3>2
         DEF SmallInv, SmallTypeOK, BitmapsSound, SetAvailList, AvailBlocks
    <3> QED
      BY <3>1, <3>2
  <2> QED
    BY <2>1, <2>2 DEF BitmapsSound
<1>14. AtMostOneIdle'
  BY <1>1, <1>2, <1>3 DEF SmallInv, SmallTypeOK, AtMostOneIdle, IdleBlocks, BlocksOfClass, LiveIn
<1> QED
  BY <1>10, <1>11, <1>12, <1>13, <1>14 DEF SmallInv

\* The slot that is taken was free.
LEMMA SmallAllocHandsOut ==
  ASSUME SmallInv, NEW cl \in Classes, SmallAlloc(cl)
  PROVE  slots' # slots
<1>1. PICK b : b = head[cl]
  OBVIOUS
<1>2. b \in held /\ bitmap[b] # {} /\ bitmap[b] \subseteq SlotsOf(cl)
  BY <1>1, ListFacts DEF SmallAlloc, AvailBlocks, BlocksOfClass, SmallInv, BitmapsSound
<1>3. PICK i : i = Min(bitmap[b])
  OBVIOUS
<1>4. i \in bitmap[b]
  <2>1. bitmap[b] \subseteq Nat
    BY <1>2, SlotsOfFinite
  <2> QED
    BY <1>2, <1>3, <2>1, MinOfNaturals
<1>5. <<b, i>> \notin slots
  <2>1. SUFFICES ASSUME <<b, i>> \in slots PROVE FALSE
    OBVIOUS
  <2>2. <<b, i>> \in LiveIn(b)
    BY <2>1 DEF LiveIn
  <2>3. <<b, i>> \in {<<b, j>> : j \in SlotsOf(cls[b]) \ bitmap[b]}
    BY <1>2, <2>2 DEF SmallInv, SlotsPartitioned
  <2> QED
    BY <1>4, <2>3
<1>6. slots' = slots \cup {<<b, i>>}
  BY <1>1, <1>3 DEF SmallAlloc
<1> QED
  BY <1>5, <1>6

LEMMA SmallAllocNewKeepsInv ==
  ASSUME SmallInv, NEW cl \in Classes, NEW b \in Blocks, SmallAllocNew(cl, b)
  PROVE  SmallInv'
<1> DEFINE l == Enlist(AvailList(cl), b)
<1>1. Slots[cl] \in Nat /\ Slots[cl] > 1
  BY SlotsOfFinite
<1>2. /\ head[cl] = NULL
      /\ b \notin held
      /\ held' = held \cup {b}
      /\ cls' = [cls EXCEPT ![b] = cl]
      /\ SetAvailList(cl, l)
      /\ SetBlockList(Enlist(BlockList, b))
      /\ bitmap' = [bitmap EXCEPT ![b] = SlotsOf(cl) \ {0}]
      /\ slotNum' = [slotNum EXCEPT ![b] = Slots[cl] - 1]
      /\ slots' = slots \cup {<<b, 0>>}
  BY <1>1 DEF SmallAllocNew, FreshBits
<1>3. /\ SlotsOf(cl) \ {0} # {}
      /\ SlotsOf(cl) \ {0} \subseteq AnySlot /\ 0 \in AnySlot
      /\ Cardinality(SlotsOf(cl) \ {0}) = Slots[cl] - 1
      /\ Slots[cl] - 1 \in 0 .. Cardinality(AnySlot)
  <2>1. /\ SlotsOf(cl) \subseteq AnySlot /\ 0 \in SlotsOf(cl)
        /\ Cardinality(SlotsOf(cl)) = Slots[cl]
    BY SlotsOfFinite
  <2>2. SlotsOf(cl) \ {0} \subseteq AnySlot
    BY <2>1
  <2>3. Cardinality(SlotsOf(cl) \ {0}) = Slots[cl] - 1
    BY <2>1, FreeSlotsFinite
  <2>4. SlotsOf(cl) \ {0} # {} /\ Slots[cl] - 1 <= Cardinality(AnySlot)
    BY <1>1, <2>2, <2>3, FreeSlotsFinite
  <2>5. Cardinality(AnySlot) \in Nat
    BY AnySlotFinite, FS_CardinalityType
  <2> QED
    BY <1>1, <2>1, <2>2, <2>3, <2>4, <2>5
<1>4. /\ AvailList(cl).next = nextAvail
      /\ AvailList(cl).prev = prevAvail
      /\ IsList(AvailList(cl), Blocks)
      /\ Chained(AvailList(cl), {})
      /\ AvailBlocks(cl) = {}
      /\ NULL \notin Blocks
  BY <1>2, ListFacts DEF AvailList
<1>5. /\ IsList(l, Blocks)
      /\ Chained(l, {b})
      /\ \A q \in Blocks \ {b} : l.next[q] = nextAvail[q] /\ l.prev[q] = prevAvail[q]
  <2> DEFINE S == AvailBlocks(cl)
  <2>1. S \in SUBSET Blocks /\ b \in Blocks \ S /\ S \cup {b} = {b} /\ Chained(AvailList(cl), S)
    BY <1>4
  <2> HIDE DEF S
  <2>2. /\ IsList(Enlist(AvailList(cl), b), Blocks)
        /\ Chained(Enlist(AvailList(cl), b), S \cup {b})
        /\ \A q \in Blocks \ (S \cup {b}) :
             /\ Enlist(AvailList(cl), b).next[q] = AvailList(cl).next[q]
             /\ Enlist(AvailList(cl), b).prev[q] = AvailList(cl).prev[q]
    BY <1>4, <2>1, EnlistJoins
  <2> QED
    BY <1>4, <2>1, <2>2
<1> HIDE DEF l
<1>6. \A c \in Classes : AvailBlocks(c)' = IF c = cl THEN {b} ELSE AvailBlocks(c)
  BY <1>2, <1>3, <1>4 DEF AvailBlocks, BlocksOfClass, SmallInv, SmallTypeOK
<1>7. IsList(Enlist(BlockList, b), Blocks) /\ Chained(Enlist(BlockList, b), held')
  <2>1. /\ IsList(BlockList, Blocks) /\ Chained(BlockList, held) /\ NULL \notin Blocks
        /\ held \in SUBSET Blocks /\ b \in Blocks \ held
    BY <1>2, ListFacts
  <2> QED
    BY <1>2, <2>1, EnlistJoins
<1>8. SmallTypeOK'
  <2>1. held' \subseteq Blocks /\ slots' \subseteq held' \X AnySlot
    BY <1>2, <1>3 DEF SmallInv, SmallTypeOK
  <2>2. cls' \in [Blocks -> Classes \cup {NULL}] /\ head' \in [Classes -> Blocks \cup {NULL}]
    BY <1>2, <1>5 DEF SmallInv, SmallTypeOK, SetAvailList, IsList
  <2>3. /\ blockHead' \in Blocks \cup {NULL}
        /\ {nextAvail', prevAvail', nextBlock', prevBlock'} \subseteq [Blocks -> Blocks \cup {NULL}]
    BY <1>2, <1>5, <1>7 DEF SetAvailList, SetBlockList, IsList
  <2>4. bitmap' \in [Blocks -> SUBSET AnySlot] /\ slotNum' \in [Blocks -> 0 .. Cardinality(AnySlot)]
    BY <1>2, <1>3 DEF SmallInv, SmallTypeOK
  <2> QED
    BY <2>1, <2>2, <2>3, <2>4 DEF SmallTypeOK
<1>9. BlockListsSound'
  <2>1. \A c \in Classes : Chained(AvailList(c)', AvailBlocks(c)')
    <3>1. Chained(l, AvailBlocks(cl)')
      BY <1>5, <1>6
    <3>2. \A c \in Classes \ {cl} :
            /\ AvailBlocks(c)' = AvailBlocks(c)
            /\ \A q \in AvailBlocks(c) : l.next[q] = nextAvail[q] /\ l.prev[q] = prevAvail[q]
      BY <1>2, <1>5, <1>6, ListFacts
    <3> QED
      BY <1>2, <3>1, <3>2, AvailListsStep
  <2>2. Chained(BlockList', held')
    <3>1. /\ BlockList'.head = Enlist(BlockList, b).head
          /\ BlockList'.next = Enlist(BlockList, b).next
          /\ BlockList'.prev = Enlist(BlockList, b).prev
      BY <1>2 DEF BlockList, SetBlockList
    <3> QED
      BY <1>7, <3>1, ChainedFrame
  <2> QED
    BY <2>1, <2>2 DEF BlockListsSound, AvailBlocks
<1>10. SlotsPartitioned'
  <2>1. \A s \in slots : s[1] \in held
    BY DEF SmallInv, SmallTypeOK
  <2>2. ASSUME NEW q \in held'
        PROVE  /\ {<<q, i>> : i \in SlotsOf(cls'[q]) \ bitmap'[q]} = LiveIn(q)'
               /\ slotNum'[q] = Cardinality(bitmap'[q])
    <3>1. CASE q = b
      <4>1. SlotsOf(cls'[q]) \ bitmap'[q] = {0}
        BY <1>2, <3>1, SlotsOfFinite DEF SmallInv, SmallTypeOK
      <4>2. LiveIn(q)' = {<<b, 0>>}
        BY <1>2, <2>1, <3>1 DEF LiveIn
      <4> QED
        BY <1>2, <1>3, <3>1, <4>1, <4>2 DEF SmallInv, SmallTypeOK
    <3>2. CASE q # b
      <4>1. LiveIn(q)' = LiveIn(q)
        BY <1>2, <3>2 DEF LiveIn
      <4>2. /\ q \in held /\ cls'[q] = cls[q] /\ bitmap'[q] = bitmap[q]
            /\ slotNum'[q] = slotNum[q]
        BY <1>2, <3>2 DEF SmallInv, SmallTypeOK
      <4> QED
        BY <4>1, <4>2 DEF SmallInv, SlotsPartitioned
    <3> QED
      BY <3>1, <3>2
  <2> QED
    BY <2>2 DEF SlotsPartitioned
<1>11. BitmapsSound'
  <2>1. ASSUME NEW q \in Blocks
        PROVE  /\ bitmap'[q] \subseteq AnySlot
               /\ slotNum'[q] = Cardinality(bitmap'[q])
               /\ q \in held' => /\ cls'[q] \in Classes
                                 /\ bitmap'[q] \subseteq SlotsOf(cls'[q])
                                 /\ bitmap'[q] = {} => prevAvail'[q] = NULL
    <3>1. CASE q = b
      BY <1>2, <1>3, <3>1 DEF SmallInv, SmallTypeOK
    <3>2. CASE q # b
      BY <1>2, <1>5, <3>2 DEF SmallInv, SmallTypeOK, BitmapsSound, SetAvailList
    <3> QED
      BY <3>1, <3>2
  <2> QED
    BY <2>1 DEF BitmapsSound
<1>12. AtMostOneIdle'
  <2>1. ASSUME NEW c \in Classes, NEW q \in IdleBlocks(c)' PROVE q \in IdleBlocks(c)
    <3>1. q \in held' /\ cls'[q] = c /\ LiveIn(q)' = {}
      BY DEF IdleBlocks, BlocksOfClass
    <3>2. <<b, 0>> \in LiveIn(b)'
      BY <1>2 DEF LiveIn
    <3>3. q # b
      BY <3>1, <3>2
    <3>4. LiveIn(q) = {}
      BY <1>2, <3>1 DEF LiveIn
    <3> QED
      BY <1>2, <3>1, <3>3, <3>4 DEF SmallInv, SmallTypeOK, IdleBlocks, BlocksOfClass
  <2> QED
    BY <2>1 DEF SmallInv, AtMostOneIdle
<1> QED
  BY <1>8, <1>9, <1>10, <1>11, <1>12 DEF SmallInv

\* A slot that is handed out, and its block once the slot is free.
LEMMA LiveSlot ==
  ASSUME SmallInv, NEW b, NEW i, <<b, i>> \in slots
  PROVE  /\ b \in held /\ b \in Blocks /\ cls[b] \in Classes
         /\ i \in SlotsOf(cls[b]) /\ i \notin bitmap[b]
         /\ bitmap[b] \cup {i} \subseteq SlotsOf(cls[b])
         /\ bitmap[b] \cup {i} \subseteq AnySlot
         /\ Cardinality(bitmap[b] \cup {i}) = slotNum[b] + 1
         /\ slotNum[b] \in Nat /\ slotNum[b] + 1 \in 0 .. Cardinality(AnySlot)
         /\ slotNum[b] = 0 <=> bitmap[b] = {}
         /\ slotNum[b] + 1 = Slots[cls[b]] <=> bitmap[b] \cup {i} = SlotsOf(cls[b])
<1>1. b \in held /\ b \in Blocks
  BY DEF SmallInv, SmallTypeOK
<1>2. /\ cls[b] \in Classes /\ bitmap[b] \subseteq SlotsOf(cls[b])
      /\ bitmap[b] \subseteq AnySlot
      /\ slotNum[b] = Cardinality(bitmap[b])
  BY <1>1 DEF SmallInv, BitmapsSound
<1>3. i \in SlotsOf(cls[b]) /\ i \notin bitmap[b]
  <2>1. <<b, i>> \in LiveIn(b)
    BY DEF LiveIn
  <2>2. <<b, i>> \in {<<b, j>> : j \in SlotsOf(cls[b]) \ bitmap[b]}
    BY <1>1, <2>1 DEF SmallInv, SlotsPartitioned
  <2> QED
    BY <2>2
<1>4. bitmap[b] \cup {i} \subseteq SlotsOf(cls[b]) /\ bitmap[b] \cup {i} \subseteq AnySlot
  BY <1>2, <1>3, SlotsOfFinite
<1>5. /\ Cardinality(bitmap[b] \cup {i}) = slotNum[b] + 1
      /\ slotNum[b] \in Nat
      /\ slotNum[b] = 0 <=> bitmap[b] = {}
  BY <1>2, <1>3, FreeSlotsFinite
<1>6. slotNum[b] + 1 \in 0 .. Cardinality(AnySlot)
  <2>1. Cardinality(AnySlot) \in Nat
    BY AnySlotFinite, FS_CardinalityType
  <2>2. slotNum[b] + 1 <= Cardinality(AnySlot)
    BY <1>4, <1>5, FreeSlotsFinite
  <2> QED
    BY <1>5, <2>1, <2>2
<1>7. slotNum[b] + 1 = Slots[cls[b]] <=> bitmap[b] \cup {i} = SlotsOf(cls[b])
  <2>1. IsFiniteSet(SlotsOf(cls[b])) /\ Cardinality(SlotsOf(cls[b])) = Slots[cls[b]]
    BY <1>2, SlotsOfFinite
  <2> QED
    BY <1>4, <1>5, <2>1, FS_Subset
<1> QED
  BY <1>1, <1>2, <1>3, <1>4, <1>5, <1>6, <1>7

\* An idle block has free slots.
LEMMA IdleIsAvailable ==
  ASSUME SmallInv, NEW cl \in Classes
  PROVE  IdleBlocks(cl) \subseteq AvailBlocks(cl)
<1> SUFFICES ASSUME NEW b \in IdleBlocks(cl) PROVE bitmap[b] # {}
  BY DEF IdleBlocks, AvailBlocks
<1>1. b \in held /\ cls[b] = cl /\ LiveIn(b) = {}
  BY DEF IdleBlocks, BlocksOfClass
<1>2. {<<b, i>> : i \in SlotsOf(cl) \ bitmap[b]} = {}
  BY <1>1 DEF SmallInv, SlotsPartitioned
<1>3. SlotsOf(cl) \ bitmap[b] = {}
  BY <1>2
<1> QED
  BY <1>3, SlotsOfFinite

LEMMA SmallFreeKeepsInv ==
  ASSUME SmallInv, NEW b, NEW i, <<b, i>> \in slots, SmallFree(b, i)
  PROVE  SmallInv'
<1> PICK cl \in Classes : cl = cls[b]
  BY LiveSlot
<1> DEFINE l == IF slotNum[b] = 0 THEN Push(AvailList(cl), b) ELSE AvailList(cl)
<1>1. /\ b \in held /\ b \in Blocks /\ cls[b] = cl
      /\ i \in SlotsOf(cl) /\ i \notin bitmap[b]
      /\ bitmap[b] \cup {i} \subseteq SlotsOf(cl)
      /\ bitmap[b] \cup {i} \subseteq AnySlot
      /\ Cardinality(bitmap[b] \cup {i}) = slotNum[b] + 1
      /\ slotNum[b] \in Nat /\ slotNum[b] + 1 \in 0 .. Cardinality(AnySlot)
      /\ slotNum[b] = 0 <=> bitmap[b] = {}
      /\ slotNum[b] + 1 = Slots[cl] <=> bitmap[b] \cup {i} = SlotsOf(cl)
  BY LiveSlot
<1>2. /\ ~ Goes(b)
      /\ bitmap' = [bitmap EXCEPT ![b] = bitmap[b] \cup {i}]
      /\ slotNum' = [slotNum EXCEPT ![b] = slotNum[b] + 1]
      /\ slots' = slots \ {<<b, i>>}
      /\ SetAvailList(cl, l)
      /\ UNCHANGED <<held, cls, blockHead, nextBlock, prevBlock>>
  BY DEF SmallFree
<1>3. /\ AvailList(cl).next = nextAvail /\ AvailList(cl).prev = prevAvail
      /\ IsList(AvailList(cl), Blocks)
      /\ Chained(AvailList(cl), AvailBlocks(cl))
      /\ AvailBlocks(cl) \in SUBSET Blocks
      /\ NULL \notin Blocks
  BY <1>1, ListFacts DEF AvailList
<1> HIDE DEF l
\* a block that was full joins the list of its class
<1>4. /\ IsList(l, Blocks)
      /\ Chained(l, AvailBlocks(cl) \cup {b})
      /\ \A q \in Blocks \ (AvailBlocks(cl) \cup {b}) :
           l.next[q] = nextAvail[q] /\ l.prev[q] = prevAvail[q]
  <2>1. CASE slotNum[b] = 0
    <3>1. b \in Blocks \ AvailBlocks(cl) /\ prevAvail[b] = NULL
      BY <1>1, <2>1 DEF AvailBlocks, SmallInv, BitmapsSound
    <3> QED
      BY <1>3, <2>1, <3>1, PushJoins DEF l
  <2>2. CASE slotNum[b] # 0
    <3>1. AvailBlocks(cl) \cup {b} = AvailBlocks(cl)
      BY <1>1, <2>2 DEF AvailBlocks, BlocksOfClass
    <3> QED
      BY <1>3, <2>2, <3>1 DEF l
  <2> QED
    BY <2>1, <2>2
<1>5. \A c \in Classes : AvailBlocks(c)' =
        IF c = cl THEN AvailBlocks(cl) \cup {b} ELSE AvailBlocks(c)
  BY <1>1, <1>2 DEF AvailBlocks, BlocksOfClass, SmallInv, SmallTypeOK
<1>6. SmallTypeOK'
  BY <1>1, <1>2, <1>4 DEF SmallInv, SmallTypeOK, IsList, SetAvailList
<1>7. BlockListsSound'
  <2>1. \A c \in Classes : Chained(AvailList(c)', AvailBlocks(c)')
    <3>1. Chained(l, AvailBlocks(cl)')
      BY <1>1, <1>4, <1>5
    <3>2. \A c \in Classes \ {cl} :
            /\ AvailBlocks(c)' = AvailBlocks(c)
            /\ \A q \in AvailBlocks(c) : l.next[q] = nextAvail[q] /\ l.prev[q] = prevAvail[q]
      <4>1. ASSUME NEW c \in Classes \ {cl}, NEW q \in AvailBlocks(c)
            PROVE  q \in Blocks \ (AvailBlocks(cl) \cup {b})
        BY <1>1, <4>1, ListFacts, AvailDisjoint DEF AvailBlocks, BlocksOfClass
      <4> QED
        BY <1>4, <1>5, <4>1
    <3> QED
      BY <1>1, <1>2, <3>1, <3>2, AvailListsStep
  <2>2. Chained(BlockList, held)'
    BY <1>2, ListFacts DEF BlockList
  <2> QED
    BY <2>1, <2>2 DEF BlockListsSound, AvailBlocks
<1>8. SlotsPartitioned'
  BY <1>1, <1>2 DEF SmallInv, SmallTypeOK, SlotsPartitioned, LiveIn
<1>9. BitmapsSound'
  <2>1. ASSUME NEW q \in Blocks
        PROVE  /\ bitmap'[q] \subseteq AnySlot
               /\ slotNum'[q] = Cardinality(bitmap'[q])
               /\ q \in held' => /\ cls'[q] \in Classes
                                 /\ bitmap'[q] \subseteq SlotsOf(cls'[q])
    BY <1>1, <1>2 DEF SmallInv, SmallTypeOK, BitmapsSound
  <2>2. ASSUME NEW q \in held', bitmap'[q] = {}
        PROVE  prevAvail'[q] = NULL
    <3>1. q # b /\ q \in held /\ q \in Blocks /\ bitmap[q] = {}
      BY <1>1, <1>2, <2>2 DEF SmallInv, SmallTypeOK
    <3>2. q \in Blocks \ (AvailBlocks(cl) \cup {b})
      BY <3>1 DEF AvailBlocks
    <3> QED
      BY <1>2, <1>4, <3>1, <3>2 DEF SmallInv, BitmapsSound, SetAvailList
  <2> QED
    BY <2>1, <2>2 DEF BitmapsSound
<1>10. AtMostOneIdle'
  \* a block that becomes idle and stays was alone in its list
  <2>1. ASSUME LiveIn(b)' = {} PROVE IdleBlocks(cl) \subseteq {b}
    <3>1. bitmap[b] \cup {i} = SlotsOf(cl)
      <4>1. {<<b, j>> : j \in SlotsOf(cl) \ (bitmap[b] \cup {i})} = {}
        BY <1>1, <1>2, <1>8, <2>1 DEF SlotsPartitioned, SmallInv, SmallTypeOK
      <4>2. SlotsOf(cl) \ (bitmap[b] \cup {i}) = {}
        BY <4>1
      <4> QED
        BY <1>1, <4>2
    <3>2. slotNum[b] + 1 = Slots[cl] /\ slotNum[b] + 1 # 1
      BY <1>1, <3>1, SlotsOfFinite
    <3>3. prevAvail[b] = NULL /\ nextAvail[b] = NULL
      BY <1>2, <3>2 DEF Goes
    <3>4. b \in AvailBlocks(cl)
      BY <1>1, <3>2 DEF AvailBlocks, BlocksOfClass
    <3>5. AvailBlocks(cl) = {b}
      BY <1>3, <3>3, <3>4, AloneInList
    <3> QED
      BY <3>5, IdleIsAvailable
  <2>2. ASSUME NEW c \in Classes, NEW q \in IdleBlocks(c)'
        PROVE  q \in IdleBlocks(c) \/ (q = b /\ c = cl /\ LiveIn(b)' = {})
    BY <1>2, <2>2 DEF IdleBlocks, BlocksOfClass, LiveIn
  <2> QED
    BY <2>1, <2>2 DEF SmallInv, AtMostOneIdle
<1> QED
  BY <1>6, <1>7, <1>8, <1>9, <1>10 DEF SmallInv

\* A block that goes has no slot handed out but the one that comes back, and is
\* not the only one in the list of its class.
LEMMA GoesWhenLast ==
  ASSUME SmallInv, NEW b, NEW i, <<b, i>> \in slots, Goes(b)
  PROVE  /\ b \in AvailBlocks(cls[b])
         /\ AvailBlocks(cls[b]) # {b}
         /\ LiveIn(b) = {<<b, i>>}
<1>1. /\ b \in held /\ b \in Blocks /\ cls[b] \in Classes
      /\ i \in SlotsOf(cls[b]) /\ i \notin bitmap[b]
      /\ bitmap[b] \cup {i} = SlotsOf(cls[b])
      /\ bitmap[b] # {}
  <2>1. slotNum[b] + 1 = Slots[cls[b]] /\ slotNum[b] + 1 # 1
    BY DEF Goes
  <2>2. bitmap[b] \cup {i} = SlotsOf(cls[b])
    BY <2>1, LiveSlot
  <2>3. slotNum[b] \in Nat /\ (slotNum[b] = 0 <=> bitmap[b] = {})
    BY LiveSlot
  <2>4. bitmap[b] # {}
    BY <2>1, <2>3
  <2> QED
    BY <2>2, <2>4, LiveSlot
<1>2. b \in AvailBlocks(cls[b])
  BY <1>1 DEF AvailBlocks, BlocksOfClass
<1>3. AvailBlocks(cls[b]) # {b}
  <2>1. /\ AvailList(cls[b]).next = nextAvail /\ AvailList(cls[b]).prev = prevAvail
        /\ Chained(AvailList(cls[b]), AvailBlocks(cls[b]))
    BY <1>1, ListFacts DEF AvailList
  <2>2. prevAvail[b] # NULL => prevAvail[b] \in AvailBlocks(cls[b]) /\ nextAvail[prevAvail[b]] = b
    BY <1>2, <2>1 DEF Chained
  <2>3. nextAvail[b] # NULL => nextAvail[b] \in AvailBlocks(cls[b]) /\ prevAvail[nextAvail[b]] = b
    BY <1>2, <2>1 DEF Chained
  <2>4. SUFFICES ASSUME AvailBlocks(cls[b]) = {b} PROVE FALSE
    OBVIOUS
  <2>5. prevAvail[b] = b
    <3>1. prevAvail[b] # NULL \/ nextAvail[b] # NULL
      BY DEF Goes
    <3>2. prevAvail[b] # NULL => prevAvail[b] = b
      BY <2>2, <2>4
    <3>3. nextAvail[b] # NULL => prevAvail[b] = b
      BY <2>3, <2>4
    <3> QED
      BY <3>1, <3>2, <3>3
  <2>6. PICK r \in AvailBlocks(cls[b]) : AvailList(cls[b]).prev[r] \notin AvailBlocks(cls[b])
    <3>1. AvailBlocks(cls[b]) \in SUBSET AvailBlocks(cls[b]) /\ AvailBlocks(cls[b]) # {}
      BY <1>2
    <3> QED
      BY <2>1, <3>1, Zenon DEF Chained, Acyclic
  <2> QED
    BY <2>1, <2>4, <2>5, <2>6
<1>4. LiveIn(b) = {<<b, i>>}
  <2>1. LiveIn(b) = {<<b, j>> : j \in SlotsOf(cls[b]) \ bitmap[b]}
    BY <1>1 DEF SmallInv, SlotsPartitioned
  <2>2. SlotsOf(cls[b]) \ bitmap[b] = {i}
    BY <1>1
  <2> QED
    BY <2>1, <2>2
<1> QED
  BY <1>2, <1>3, <1>4

LEMMA SmallFreeReturnsKeepsInv ==
  ASSUME SmallInv, NEW b, NEW i, <<b, i>> \in slots, SmallFreeReturns(b, i)
  PROVE  SmallInv' /\ ReturnsOnlyIdleBlocks
<1> PICK cl \in Classes : cl = cls[b]
  BY LiveSlot
<1> DEFINE l == TakeOut(AvailList(cl), b)
<1>1. /\ b \in held /\ b \in Blocks /\ cls[b] = cl
      /\ bitmap[b] \cup {i} \subseteq AnySlot
      /\ Cardinality(bitmap[b] \cup {i}) = slotNum[b] + 1
      /\ slotNum[b] \in Nat /\ slotNum[b] + 1 \in 0 .. Cardinality(AnySlot)
  BY LiveSlot
<1>2. /\ bitmap' = [bitmap EXCEPT ![b] = bitmap[b] \cup {i}]
      /\ slotNum' = [slotNum EXCEPT ![b] = slotNum[b] + 1]
      /\ slots' = slots \ {<<b, i>>}
      /\ SetAvailList(cl, l)
      /\ SetBlockList(TakeOut(BlockList, b))
      /\ held' = held \ {b}
      /\ cls' = cls
  BY DEF SmallFreeReturns
<1>3. /\ b \in AvailBlocks(cl)
      /\ AvailBlocks(cl) # {b}
      /\ LiveIn(b) = {<<b, i>>}
  BY <1>1, GoesWhenLast DEF SmallFreeReturns
<1>4. /\ AvailList(cl).next = nextAvail /\ AvailList(cl).prev = prevAvail
      /\ IsList(AvailList(cl), Blocks)
      /\ Chained(AvailList(cl), AvailBlocks(cl))
      /\ AvailBlocks(cl) \in SUBSET Blocks
      /\ NULL \notin Blocks
      /\ held \in SUBSET Blocks /\ IsList(BlockList, Blocks) /\ Chained(BlockList, held)
  BY ListFacts DEF AvailList
<1> HIDE DEF l
<1>5. /\ IsList(l, Blocks)
      /\ Chained(l, AvailBlocks(cl) \ {b})
      /\ \A q \in Blocks \ AvailBlocks(cl) : l.next[q] = nextAvail[q] /\ l.prev[q] = prevAvail[q]
  BY <1>3, <1>4, TakeOutLeaves DEF l
<1>6. IsList(TakeOut(BlockList, b), Blocks) /\ Chained(TakeOut(BlockList, b), held \ {b})
  BY <1>1, <1>4, TakeOutLeaves
<1>7. \A c \in Classes : AvailBlocks(c)' =
        IF c = cl THEN AvailBlocks(cl) \ {b} ELSE AvailBlocks(c)
  BY <1>1, <1>2 DEF AvailBlocks, BlocksOfClass, SmallInv, SmallTypeOK
<1>8. SmallTypeOK'
  <2>1. slots' \subseteq held' \X AnySlot
    <3>1. ASSUME NEW s \in slots' PROVE s[1] # b
      <4>1. s \notin LiveIn(b) /\ s \in slots
        BY <1>2, <1>3, <3>1
      <4> QED
        BY <4>1 DEF LiveIn
    <3> QED
      BY <1>2, <3>1 DEF SmallInv, SmallTypeOK
  <2>2. held' \subseteq Blocks /\ cls' \in [Blocks -> Classes \cup {NULL}]
    BY <1>2 DEF SmallInv, SmallTypeOK
  <2>3. /\ head' \in [Classes -> Blocks \cup {NULL}]
        /\ blockHead' \in Blocks \cup {NULL}
        /\ {nextAvail', prevAvail', nextBlock', prevBlock'} \subseteq [Blocks -> Blocks \cup {NULL}]
    BY <1>2, <1>5, <1>6 DEF SmallInv, SmallTypeOK, SetAvailList, SetBlockList, IsList
  <2>4. bitmap' \in [Blocks -> SUBSET AnySlot] /\ slotNum' \in [Blocks -> 0 .. Cardinality(AnySlot)]
    BY <1>1, <1>2 DEF SmallInv, SmallTypeOK
  <2> QED
    BY <2>1, <2>2, <2>3, <2>4 DEF SmallTypeOK
<1>9. BlockListsSound'
  <2>1. \A c \in Classes : Chained(AvailList(c)', AvailBlocks(c)')
    <3>1. Chained(l, AvailBlocks(cl)')
      BY <1>5, <1>7
    <3>2. \A c \in Classes \ {cl} :
            /\ AvailBlocks(c)' = AvailBlocks(c)
            /\ \A q \in AvailBlocks(c) : l.next[q] = nextAvail[q] /\ l.prev[q] = prevAvail[q]
      BY <1>5, <1>7, ListFacts, AvailDisjoint
    <3> QED
      BY <1>2, <3>1, <3>2, AvailListsStep
  <2>2. Chained(BlockList', held')
    <3>1. /\ BlockList'.head = TakeOut(BlockList, b).head
          /\ BlockList'.next = TakeOut(BlockList, b).next
          /\ BlockList'.prev = TakeOut(BlockList, b).prev
      BY <1>2 DEF BlockList, SetBlockList
    <3> QED
      BY <1>2, <1>6, <3>1, ChainedFrame
  <2> QED
    BY <2>1, <2>2 DEF BlockListsSound, AvailBlocks
\* what is known of the other blocks is as it was
<1>10. ASSUME NEW q \in held'
       PROVE  /\ q \in held /\ q # b /\ q \in Blocks
              /\ bitmap'[q] = bitmap[q] /\ slotNum'[q] = slotNum[q] /\ cls'[q] = cls[q]
              /\ LiveIn(q)' = LiveIn(q)
  BY <1>2, <1>10 DEF SmallInv, SmallTypeOK, LiveIn
<1>11. SlotsPartitioned'
  BY <1>10 DEF SmallInv, SlotsPartitioned
<1>12. BitmapsSound'
  <2>1. ASSUME NEW q \in Blocks
        PROVE  bitmap'[q] \subseteq AnySlot /\ slotNum'[q] = Cardinality(bitmap'[q])
    BY <1>1, <1>2 DEF SmallInv, SmallTypeOK, BitmapsSound
  <2>2. ASSUME NEW q \in held'
        PROVE  /\ cls'[q] \in Classes
               /\ bitmap'[q] \subseteq SlotsOf(cls'[q])
               /\ bitmap'[q] = {} => prevAvail'[q] = NULL
    <3>1. bitmap[q] = {} => prevAvail'[q] = prevAvail[q]
      BY <1>2, <1>5, <1>10 DEF AvailBlocks, SetAvailList
    <3> QED
      BY <1>10, <3>1 DEF SmallInv, BitmapsSound
  <2> QED
    BY <2>1, <2>2 DEF BitmapsSound
<1>13. AtMostOneIdle'
  BY <1>10 DEF SmallInv, AtMostOneIdle, IdleBlocks, BlocksOfClass
\* the class keeps a block that is in its list
<1>14. ReturnsOnlyIdleBlocks
  <2>1. \A s \in slots' : s[1] # b
    BY <1>2, <1>3, <1>8 DEF SmallTypeOK
  <2>2. l.head # NULL
    <3>1. l.head \in AvailBlocks(cl) \ {b}
      BY <1>3, <1>5, HeadOfMembers
    <3> QED
      BY <1>4, <3>1
  <2>3. head'[cls[b]] # NULL
    BY <1>1, <1>2, <2>2 DEF SetAvailList, SmallInv, SmallTypeOK
  <2> QED
    BY <1>2, <2>1, <2>3 DEF ReturnsOnlyIdleBlocks
<1> QED
  BY <1>8, <1>9, <1>11, <1>12, <1>13, <1>14 DEF SmallInv

\* Whatever step a caller takes keeps the invariant.
LEMMA NextSmallInv == SmallInv /\ [SmallNext]_smallVars => SmallInv'
<1> SUFFICES ASSUME SmallInv, [SmallNext]_smallVars PROVE SmallInv'
  OBVIOUS
<1>1. CASE UNCHANGED smallVars
  <2> USE <1>1 DEF smallVars, BlocksOfClass, LiveIn
  <2>1. SmallTypeOK'
    BY DEF SmallInv, SmallTypeOK
  <2>2. BlockListsSound'
    BY DEF SmallInv, BlockListsSound, AvailList, BlockList
  <2>3. SlotsPartitioned' /\ BitmapsSound' /\ AtMostOneIdle'
    BY DEF SmallInv, SlotsPartitioned, BitmapsSound, AtMostOneIdle, IdleBlocks
  <2> QED
    BY <2>1, <2>2, <2>3 DEF SmallInv
<1>2. ASSUME NEW cl \in Classes, SmallAlloc(cl) PROVE SmallInv'
  BY <1>2, SmallAllocKeepsInv
<1>3. ASSUME NEW cl \in Classes, SmallAllocFails(cl) PROVE SmallInv'
  BY <1>1, <1>3 DEF SmallAllocFails
<1>4. ASSUME NEW cl \in Classes, NEW b \in Blocks, SmallAllocNew(cl, b) PROVE SmallInv'
  BY <1>4, SmallAllocNewKeepsInv
<1>5. ASSUME NEW s \in slots PROVE s = <<s[1], s[2]>>
  BY DEF SmallInv, SmallTypeOK
<1>6. ASSUME NEW s \in slots, SmallFree(s[1], s[2]) PROVE SmallInv'
  BY <1>5, <1>6, SmallFreeKeepsInv
<1>7. ASSUME NEW s \in slots, SmallFreeReturns(s[1], s[2]) PROVE SmallInv'
  BY <1>5, <1>7, SmallFreeReturnsKeepsInv
<1> QED
  BY <1>1, <1>2, <1>3, <1>4, <1>6, <1>7 DEF SmallNext

\* Blocks leave only by small_free of the last of their slots.
LEMMA NextReturnsOnlyIdle ==
  SmallInv /\ [SmallNext]_smallVars => ReturnsOnlyIdleBlocks
<1> SUFFICES ASSUME SmallInv, [SmallNext]_smallVars PROVE ReturnsOnlyIdleBlocks
  OBVIOUS
<1>1. CASE held \subseteq held'
  BY <1>1 DEF ReturnsOnlyIdleBlocks
<1>2. CASE \E s \in slots : SmallFreeReturns(s[1], s[2])
  <2>1. PICK s \in slots : SmallFreeReturns(s[1], s[2])
    BY <1>2
  <2>2. s = <<s[1], s[2]>>
    BY DEF SmallInv, SmallTypeOK
  <2> QED
    BY <2>1, <2>2, SmallFreeReturnsKeepsInv
<1> QED
  BY <1>1, <1>2 DEF SmallNext, SmallAlloc, SmallAllocFails, SmallAllocNew, SmallFree, smallVars

\* One idle block at most, as a number of blocks.
LEMMA OneIdleBlockFromInv == SmallInv => OneIdleBlock
<1> SUFFICES ASSUME SmallInv, NEW cl \in Classes PROVE Cardinality(IdleBlocks(cl)) <= 1
  BY DEF OneIdleBlock, IdleBlocks
<1>1. CASE IdleBlocks(cl) = {}
  BY <1>1, FS_EmptySet
<1>2. CASE IdleBlocks(cl) # {}
  <2>1. PICK b \in IdleBlocks(cl) : TRUE
    BY <1>2
  <2>2. IdleBlocks(cl) = {b}
    BY <2>1 DEF SmallInv, AtMostOneIdle
  <2> QED
    BY <2>2, FS_Singleton
<1> QED
  BY <1>1, <1>2

(***************************************************************************)
(* The theorems                                                            *)
(***************************************************************************)

\* In every state small_alloc and small_free can reach, the lists of blocks hold the
\* blocks they should, each slot is free and counted or handed out, and no class
\* keeps two idle blocks.
THEOREM SmallClassSafe ==
  SmallSpec => [](SmallTypeOK /\ BlockListsSound /\ SlotsPartitioned /\ OneIdleBlock)
<1>1. SmallInv => SmallTypeOK /\ BlockListsSound /\ SlotsPartitioned /\ OneIdleBlock
  BY OneIdleBlockFromInv DEF SmallInv
<1> QED
  BY <1>1, InitSmallInv, NextSmallInv, PTL DEF SmallSpec

\* No call of small_free gives back a block with a slot in use, or the last block of
\* a class with free slots.
THEOREM SmallClassReturns ==
  SmallSpec => [][ReturnsOnlyIdleBlocks]_smallVars
BY InitSmallInv, NextSmallInv, NextReturnsOnlyIdle, PTL DEF SmallSpec


(***************************************************************************)
(* The mmap allocator: records and arenas                                  *)
(***************************************************************************)

\* The records that have a region and those of the groups so far that have none.
ActiveRecords(m) == {r \in MmapRecords : m.region[r] # NULL}
FreeRecords(m) ==
  {r \in MmapRecords : r < m.groups * MmapPerGroup} \ ActiveRecords(m)

\* A record beyond the groups so far is as the group will be when it is mapped: zero.
ArenaSound(m) ==
  /\ m \in Arenas
  /\ Chained(ActiveList(m), ActiveRecords(m))
  /\ Chained(InactiveList(m), FreeRecords(m))
  /\ \A r \in MmapRecords : r >= m.groups * MmapPerGroup =>
       m.next[r] = NULL /\ m.prev[r] = NULL /\ m.region[r] = NULL
  /\ \A r, q \in ActiveRecords(m) : m.region[r] = m.region[q] => r = q

MmapInv == ArenaSound(arena) /\ MmapTypeOK /\ RegionsOwned

(***************************************************************************)
(* Records                                                                 *)
(***************************************************************************)

LEMMA RecordFacts ==
  /\ MmapRecords \subseteq Nat
  /\ NULL \notin MmapRecords
  /\ NULL \notin Regions
<1>1. MmapMaxGroups * MmapPerGroup \in Nat
  BY MmapAssumption
<1> QED
  BY <1>1, MmapAssumption DEF MmapRecords

LEMMA ListsOfArena ==
  ASSUME NEW m, ArenaSound(m)
  PROVE  /\ m.groups \in 0 .. MmapMaxGroups
         /\ m.next \in Links /\ m.prev \in Links
         /\ m.active # NULL => m.active \in ActiveRecords(m) /\ m.prev[m.active] = NULL
         /\ m.inactive # NULL => m.inactive \in FreeRecords(m) /\ m.prev[m.inactive] = NULL
         /\ ActiveRecords(m) \subseteq MmapRecords
         /\ FreeRecords(m) \subseteq MmapRecords
         /\ ActiveRecords(m) \cap FreeRecords(m) = {}
<1>1. m.groups \in 0 .. MmapMaxGroups /\ m.next \in Links /\ m.prev \in Links
  BY DEF ArenaSound, Arenas
<1>2. /\ ActiveList(m).head = m.active /\ ActiveList(m).prev = m.prev
      /\ InactiveList(m).head = m.inactive /\ InactiveList(m).prev = m.prev
  BY DEF ActiveList, InactiveList
<1>3. m.active # NULL => m.active \in ActiveRecords(m) /\ m.prev[m.active] = NULL
  BY <1>2 DEF ArenaSound, Chained
<1>4. m.inactive # NULL => m.inactive \in FreeRecords(m) /\ m.prev[m.inactive] = NULL
  BY <1>2 DEF ArenaSound, Chained
<1> QED
  BY <1>1, <1>3, <1>4 DEF ActiveRecords, FreeRecords

\* The numbers of the records of a new group.
LEMMA MmapGroupNumbers ==
  ASSUME NEW g \in Nat, g < MmapMaxGroups, NEW n, n = g * MmapPerGroup
  PROVE  /\ n \in Nat
         /\ (g + 1) * MmapPerGroup = n + MmapPerGroup
         /\ MmapGroupRecords(g) = n .. n + MmapPerGroup - 1
         /\ MmapGroupRecords(g) \subseteq MmapRecords
         /\ Min(MmapGroupRecords(g)) = n
         /\ Max(MmapGroupRecords(g)) = n + MmapPerGroup - 1
<1>1. MmapPerGroup \in Nat \ {0} /\ MmapMaxGroups \in Nat
  BY MmapAssumption
<1>2. MmapGroupRecords(g) = Group(MmapPerGroup, g)
  BY DEF MmapGroupRecords, Group
<1>3. /\ n \in Nat
      /\ (g + 1) * MmapPerGroup = n + MmapPerGroup
      /\ Group(MmapPerGroup, g) = n .. n + MmapPerGroup - 1
      /\ Group(MmapPerGroup, g) \subseteq 0 .. MmapMaxGroups * MmapPerGroup - 1
      /\ Min(Group(MmapPerGroup, g)) = n
      /\ Max(Group(MmapPerGroup, g)) = n + MmapPerGroup - 1
  BY <1>1, GroupNumbers
<1> QED
  BY <1>2, <1>3 DEF MmapRecords

(***************************************************************************)
(* The operations on arenas                                                *)
(***************************************************************************)

LEMMA EmptyArenaSound == ArenaSound(EmptyArena)
<1>1. EmptyArena \in Arenas
  BY MmapAssumption DEF EmptyArena, Arenas, Links, NoLinks
<1>2. ActiveRecords(EmptyArena) = {} /\ FreeRecords(EmptyArena) = {}
  <2>1. EmptyArena.groups = 0 /\ \A r \in MmapRecords : EmptyArena.region[r] = NULL
    BY DEF EmptyArena, NoLinks
  <2>2. 0 * MmapPerGroup = 0
    BY MmapAssumption
  <2>3. \A r \in MmapRecords : ~ (r < 0)
    BY RecordFacts
  <2> QED
    BY <2>1, <2>2, <2>3 DEF ActiveRecords, FreeRecords
<1>3. Chained(ActiveList(EmptyArena), {}) /\ Chained(InactiveList(EmptyArena), {})
  BY DEF Chained, Acyclic, ActiveList, InactiveList, EmptyArena
<1> QED
  <2>1. \A r \in MmapRecords : /\ EmptyArena.next[r] = NULL /\ EmptyArena.prev[r] = NULL
                               /\ EmptyArena.region[r] = NULL
    BY DEF EmptyArena, NoLinks
  <2> QED
    BY <1>1, <1>2, <1>3, <2>1 DEF ArenaSound

LEMMA AddMmapGroupSound ==
  ASSUME NEW m, ArenaSound(m), m.inactive = NULL, m.groups < MmapMaxGroups
  PROVE  /\ ArenaSound(AddMmapGroup(m))
         /\ AddMmapGroup(m).region = m.region
<1> DEFINE R == MmapGroupRecords(m.groups)
           k == AddMmapGroup(m)
<1>1. m.groups \in Nat /\ m \in Arenas
  BY MmapAssumption DEF ArenaSound, Arenas
<1>2. PICK n : n = m.groups * MmapPerGroup
  OBVIOUS
<1>3. /\ n \in Nat /\ (m.groups + 1) * MmapPerGroup = n + MmapPerGroup
      /\ R = n .. n + MmapPerGroup - 1 /\ R \subseteq MmapRecords
      /\ Min(R) = n /\ Max(R) = n + MmapPerGroup - 1
  BY <1>1, <1>2, MmapGroupNumbers
<1>4. n \in R /\ n + MmapPerGroup - 1 \in R
  BY <1>3, MmapAssumption
<1>5. /\ k.groups = m.groups + 1 /\ k.active = m.active /\ k.inactive = n
      /\ k.next = [r \in MmapRecords |-> IF r \in R \ {n + MmapPerGroup - 1} THEN r + 1
                                         ELSE m.next[r]]
      /\ k.prev = [r \in MmapRecords |-> IF r \in R \ {n} THEN r - 1 ELSE m.prev[r]]
      /\ k.region = m.region
  <2>1. PICK x : x = n + MmapPerGroup - 1
    OBVIOUS
  <2>2. Min(MmapGroupRecords(m.groups)) = n /\ Max(MmapGroupRecords(m.groups)) = x
    BY <1>3, <2>1
  <2> QED
    BY <1>1, <2>1, <2>2 DEF AddMmapGroup, Arenas
<1>6. \A r \in R : r \in MmapRecords /\ r \in Nat /\ m.next[r] = NULL /\ m.prev[r] = NULL
                   /\ m.region[r] = NULL
  BY <1>2, <1>3, RecordFacts DEF ArenaSound
<1>7. \A r \in R : /\ r \in R \ {n} => r - 1 \in R
                   /\ r \in R \ {n + MmapPerGroup - 1} => r + 1 \in R
  BY <1>3, MmapAssumption
<1> HIDE DEF R, k
<1>8. k \in Arenas
  <2>1. k.next \in Links /\ k.prev \in Links
    <3>1. ASSUME NEW r \in MmapRecords
          PROVE  k.next[r] \in MmapRecords \cup {NULL} /\ k.prev[r] \in MmapRecords \cup {NULL}
      <4>1. /\ r \in R \ {n + MmapPerGroup - 1} => r + 1 \in MmapRecords
            /\ r \in R \ {n} => r - 1 \in MmapRecords
        BY <1>3, <1>7, Zenon
      <4>2. m.next[r] \in MmapRecords \cup {NULL} /\ m.prev[r] \in MmapRecords \cup {NULL}
        BY <1>1 DEF Links, Arenas
      <4> QED
        BY <1>5, <4>1, <4>2
    <3> QED
      BY <1>5, <3>1 DEF Links
  <2>2. m.groups + 1 \in 0 .. MmapMaxGroups
    BY <1>1, MmapAssumption
  <2>3. n \in MmapRecords
    BY <1>3, <1>4
  <2> QED
    BY <1>1, <1>5, <2>1, <2>2, <2>3 DEF Arenas, AddMmapGroup, k
<1>9. ActiveRecords(k) = ActiveRecords(m) /\ ActiveRecords(m) \cap R = {}
  BY <1>5, <1>6 DEF ActiveRecords
\* the list of inactive records was empty
<1>10. FreeRecords(k) = R
  <2>1. FreeRecords(m) = {}
    <3>1. Chained(InactiveList(m), FreeRecords(m)) /\ InactiveList(m).head = NULL
      BY DEF ArenaSound, InactiveList
    <3>2. NULL \notin FreeRecords(m)
      BY RecordFacts DEF FreeRecords
    <3> QED
      BY <3>1, <3>2, HeadOfMembers
  <2>2. \A r \in MmapRecords : r < n => r \in ActiveRecords(m)
    BY <1>2, <2>1 DEF FreeRecords
  <2>3. \A r \in MmapRecords : r < n + MmapPerGroup <=> r < n \/ r \in R
    BY <1>3, RecordFacts, MmapAssumption
  <2>4. k.groups * MmapPerGroup = n + MmapPerGroup
    BY <1>3, <1>5
  <2> QED
    BY <1>3, <1>9, <2>2, <2>3, <2>4 DEF FreeRecords
<1>11. Chained(ActiveList(k), ActiveRecords(k))
  <2>1. /\ ActiveList(k).head = ActiveList(m).head
        /\ \A r \in ActiveRecords(m) : /\ ActiveList(k).next[r] = ActiveList(m).next[r]
                                       /\ ActiveList(k).prev[r] = ActiveList(m).prev[r]
    BY <1>5, <1>9 DEF ActiveList, ActiveRecords
  <2> QED
    BY <1>9, <2>1, ChainedFrame DEF ArenaSound
\* the records of the group are linked in the order of their numbers
<1>12. Chained(InactiveList(k), R)
  <2>1. /\ InactiveList(k).head = n
        /\ \A r \in R : /\ InactiveList(k).next[r] = IF r = n + MmapPerGroup - 1 THEN NULL ELSE r + 1
                        /\ InactiveList(k).prev[r] = IF r = n THEN NULL ELSE r - 1
    BY <1>5, <1>6 DEF InactiveList
  <2>2. MmapPerGroup \in Nat \ {0} /\ NULL \notin Nat
    BY MmapAssumption
  <2> QED
    BY <1>3, <2>1, <2>2, GroupChained
<1>13. \A r \in MmapRecords : r >= k.groups * MmapPerGroup =>
         k.next[r] = NULL /\ k.prev[r] = NULL /\ k.region[r] = NULL
  <2>1. k.groups * MmapPerGroup = n + MmapPerGroup
    BY <1>3, <1>5
  <2>2. \A r \in MmapRecords : r >= n + MmapPerGroup => r >= n /\ r \notin R
    BY <1>3, RecordFacts, MmapAssumption
  <2> QED
    BY <1>2, <1>5, <2>1, <2>2 DEF ArenaSound
<1>14. \A r, q \in ActiveRecords(k) : k.region[r] = k.region[q] => r = q
  BY <1>5, <1>9 DEF ArenaSound
<1> QED
  BY <1>5, <1>8, <1>10, <1>11, <1>12, <1>13, <1>14 DEF ArenaSound, k

LEMMA ActivateSound ==
  ASSUME NEW m, ArenaSound(m), m.inactive # NULL,
         NEW a \in Regions, \A q \in MmapRecords : m.region[q] # a
  PROVE  /\ ArenaSound(Activate(m, a))
         /\ m.inactive \in MmapRecords
         /\ Activate(m, a).active = m.inactive
         /\ Activate(m, a).region = [m.region EXCEPT ![m.inactive] = a]
<1> DEFINE r == m.inactive
           k == Activate(m, a)
<1>1. /\ r \in FreeRecords(m) /\ m.prev[r] = NULL /\ r \in MmapRecords
      /\ r \notin ActiveRecords(m)
      /\ m.active # NULL => m.active \in ActiveRecords(m) /\ m.active # r
      /\ m.active # NULL => m.active \in MmapRecords /\ m.prev[m.active] = NULL
      /\ m.next[r] # NULL => m.next[r] \in FreeRecords(m) /\ m.next[r] \in MmapRecords
      /\ NULL \notin MmapRecords /\ a # NULL
      /\ m \in Arenas
  <2>1. m.next[r] # NULL => m.next[r] \in FreeRecords(m)
    BY ListsOfArena DEF ArenaSound, Chained, InactiveList
  <2> QED
    BY <2>1, ListsOfArena, RecordFacts DEF ArenaSound
<1>2. /\ k.groups = m.groups /\ k.active = r /\ k.inactive = m.next[r]
      /\ k.next = Store(m.next, r, m.active)
      /\ k.prev = Store(Store(m.prev, m.next[r], NULL), m.active, r)
      /\ k.region = Store(m.region, r, a)
  BY <1>1 DEF Activate, Arenas
<1>3. /\ k.next \in Links /\ k.prev \in Links
      /\ \A q \in MmapRecords :
           /\ k.next[q] = IF q = r THEN m.active ELSE m.next[q]
           /\ k.prev[q] = IF q = m.active THEN r
                          ELSE IF q = m.next[r] THEN NULL ELSE m.prev[q]
      /\ k.region = [m.region EXCEPT ![r] = a]
  <2> DEFINE P == Store(m.prev, m.next[r], NULL)
  <2>1. /\ m.prev \in Links /\ m.next \in Links
        /\ m.next[r] \in MmapRecords \cup {NULL} /\ m.active \in MmapRecords \cup {NULL}
        /\ r \in MmapRecords \cup {NULL} /\ NULL \in MmapRecords \cup {NULL}
    BY <1>1 DEF Arenas, Links
  <2>2. P \in Links /\ \A q \in MmapRecords : P[q] = IF q = m.next[r] THEN NULL ELSE m.prev[q]
    BY <2>1, RecordFacts DEF Store, Links
  <2> HIDE DEF P, k, r
  <2>3. k.prev = Store(P, m.active, r)
    BY <1>2 DEF P
  <2>4. k.prev \in Links /\ \A q \in MmapRecords : k.prev[q] = IF q = m.active THEN r ELSE P[q]
    BY <2>1, <2>2, <2>3, RecordFacts DEF Store, Links
  <2>5. k.next \in Links /\ \A q \in MmapRecords : k.next[q] = IF q = r THEN m.active ELSE m.next[q]
    BY <1>2, <2>1, RecordFacts DEF Store, Links
  <2>6. k.region = [m.region EXCEPT ![r] = a]
    BY <1>1, <1>2 DEF Store
  <2> QED
    BY <2>2, <2>4, <2>5, <2>6
<1> HIDE DEF k, r
<1>4. k \in Arenas
  <2>1. k.next \in Links /\ k.prev \in Links /\ k.region \in [MmapRecords -> Regions \cup {NULL}]
    BY <1>1, <1>3 DEF Arenas, Links
  <2> QED
    BY <1>1, <1>2, <2>1 DEF Arenas, Activate, k, r
<1>5. /\ ActiveRecords(k) = ActiveRecords(m) \cup {r}
      /\ FreeRecords(k) = FreeRecords(m) \ {r}
  BY <1>1, <1>2, <1>3 DEF ActiveRecords, FreeRecords, Arenas
<1>6. Chained(InactiveList(k), FreeRecords(k))
  <2>1. ASSUME NEW q \in FreeRecords(m) \ {r}
        PROVE  /\ k.next[q] = m.next[q]
               /\ k.prev[q] = IF q = m.next[r] THEN NULL ELSE m.prev[q]
    BY <1>1, <1>3, ListsOfArena DEF Links
  <2>2. /\ InactiveList(k).head = m.next[r] /\ InactiveList(k).next = k.next
        /\ InactiveList(k).prev = k.prev
        /\ InactiveList(m).head = r /\ InactiveList(m).next = m.next
        /\ InactiveList(m).prev = m.prev
    BY <1>2 DEF InactiveList, r
  <2>3. NULL \notin FreeRecords(m) /\ Chained(InactiveList(m), FreeRecords(m))
    BY <1>1 DEF FreeRecords, ArenaSound
  <2>4. \A q \in FreeRecords(m) \ {r} :
          /\ InactiveList(k).next[q] = IF q = InactiveList(m).prev[r] THEN InactiveList(m).next[r]
                                       ELSE InactiveList(m).next[q]
          /\ InactiveList(k).prev[q] = IF q = InactiveList(m).next[r] THEN InactiveList(m).prev[r]
                                       ELSE InactiveList(m).prev[q]
    BY <1>1, <2>1, <2>2, <2>3
  <2> QED
    BY <1>1, <1>5, <2>2, <2>3, <2>4, ChainedRemove
<1>7. Chained(ActiveList(k), ActiveRecords(k))
  <2>1. ASSUME NEW q \in ActiveRecords(m)
        PROVE  /\ k.next[q] = m.next[q]
               /\ k.prev[q] = IF q = m.active THEN r ELSE m.prev[q]
    BY <1>1, <1>3, ListsOfArena DEF Links
  <2>2. /\ ActiveList(k).head = r /\ ActiveList(k).next = k.next
        /\ ActiveList(k).prev = k.prev
        /\ ActiveList(m).head = m.active /\ ActiveList(m).next = m.next
        /\ ActiveList(m).prev = m.prev
    BY <1>2 DEF ActiveList
  <2>3. k.next[r] = m.active /\ k.prev[r] = NULL
    BY <1>1, <1>3 DEF Arenas, Links
  <2>4. /\ NULL \notin ActiveRecords(m) /\ Chained(ActiveList(m), ActiveRecords(m))
        /\ r # NULL
    BY <1>1 DEF ActiveRecords, ArenaSound
  <2> QED
    BY <1>1, <1>5, <2>1, <2>2, <2>3, <2>4, ChainedPush
<1>8. \A q \in MmapRecords : q >= k.groups * MmapPerGroup =>
        k.next[q] = NULL /\ k.prev[q] = NULL /\ k.region[q] = NULL
  <2>1. ASSUME NEW q \in MmapRecords, q >= m.groups * MmapPerGroup
        PROVE  m.next[q] = NULL /\ m.prev[q] = NULL /\ m.region[q] = NULL
               /\ q # r /\ q # m.active
    <3>1. m.next[q] = NULL /\ m.prev[q] = NULL /\ m.region[q] = NULL
      BY <2>1 DEF ArenaSound
    <3>2. q \notin ActiveRecords(m)
      BY <3>1 DEF ActiveRecords
    <3>3. q \notin FreeRecords(m)
      <4>1. m.groups * MmapPerGroup \in Nat /\ q \in Nat
        BY <1>1, RecordFacts, MmapAssumption DEF Arenas
      <4> QED
        BY <2>1, <4>1 DEF FreeRecords
    <3> QED
      BY <1>1, <3>1, <3>2, <3>3
  <2> QED
    BY <1>1, <1>2, <1>3, <2>1 DEF Arenas, Links
<1>9. \A p, q \in ActiveRecords(k) : k.region[p] = k.region[q] => p = q
  BY <1>1, <1>3, <1>5 DEF ArenaSound, ActiveRecords, Arenas
<1> QED
  BY <1>1, <1>2, <1>3, <1>4, <1>6, <1>7, <1>8, <1>9 DEF ArenaSound, k, r

LEMMA RetireSound ==
  ASSUME NEW m, ArenaSound(m), NEW r \in ActiveRecords(m)
  PROVE  /\ ArenaSound(Retire(m, r))
         /\ Retire(m, r).region = [m.region EXCEPT ![r] = NULL]
<1> DEFINE k == Retire(m, r)
           T == MmapRecords \cup {NULL}
<1>1. /\ r \in MmapRecords /\ r \notin FreeRecords(m) /\ m \in Arenas
      /\ m.inactive # NULL => m.inactive \in FreeRecords(m) /\ m.prev[m.inactive] = NULL
      /\ m.active # NULL => m.active \in ActiveRecords(m) /\ m.prev[m.active] = NULL
      /\ ActiveRecords(m) \cap FreeRecords(m) = {}
      /\ ActiveRecords(m) \subseteq MmapRecords /\ FreeRecords(m) \subseteq MmapRecords
      /\ NULL \notin MmapRecords
  BY ListsOfArena, RecordFacts DEF ArenaSound
<1>2. /\ m.next[r] # NULL => m.next[r] \in ActiveRecords(m)
      /\ m.prev[r] # NULL => m.prev[r] \in ActiveRecords(m)
      /\ m.prev[r] = NULL <=> m.active = r
  BY <1>1 DEF ArenaSound, Chained, ActiveList
<1>3. /\ k.groups = m.groups /\ k.inactive = r
      /\ k.active = IF m.prev[r] = NULL THEN m.next[r] ELSE m.active
      /\ k.next = Store(Store(m.next, m.prev[r], m.next[r]), r, m.inactive)
      /\ k.prev = Store(Store(Store(m.prev, m.next[r], m.prev[r]), r, NULL), m.inactive, r)
      /\ k.region = Store(m.region, r, NULL)
  BY <1>1 DEF Retire, Arenas
<1> HIDE DEF k
<1>4. /\ m.prev \in Links /\ m.next \in Links
      /\ m.next[r] \in T /\ m.prev[r] \in T /\ m.inactive \in T /\ m.active \in T
      /\ r \in T /\ NULL \in T
  BY <1>1 DEF Arenas, Links
<1>5. /\ k.next \in Links
      /\ \A q \in MmapRecords : k.next[q] = IF q = r THEN m.inactive
                                            ELSE IF q = m.prev[r] THEN m.next[r]
                                            ELSE m.next[q]
  <2> DEFINE N == Store(m.next, m.prev[r], m.next[r])
  <2>1. N \in Links /\ \A q \in MmapRecords : N[q] = IF q = m.prev[r] THEN m.next[r] ELSE m.next[q]
    BY <1>4, RecordFacts DEF Store, Links
  <2> HIDE DEF N
  <2>2. k.next = Store(N, r, m.inactive)
    BY <1>3 DEF N
  <2>3. k.next \in Links /\ \A q \in MmapRecords : k.next[q] = IF q = r THEN m.inactive ELSE N[q]
    BY <1>4, <2>1, <2>2, RecordFacts DEF Store, Links
  <2> QED
    BY <2>1, <2>3
<1>6. /\ k.prev \in Links
      /\ \A q \in MmapRecords : k.prev[q] = IF q = m.inactive THEN r
                                            ELSE IF q = r THEN NULL
                                            ELSE IF q = m.next[r] THEN m.prev[r]
                                            ELSE m.prev[q]
  <2> DEFINE P == Store(m.prev, m.next[r], m.prev[r])
             Q == Store(P, r, NULL)
  <2>1. P \in Links /\ \A q \in MmapRecords : P[q] = IF q = m.next[r] THEN m.prev[r] ELSE m.prev[q]
    BY <1>4, RecordFacts DEF Store, Links
  <2> HIDE DEF P
  <2>2. Q \in Links /\ \A q \in MmapRecords : Q[q] = IF q = r THEN NULL ELSE P[q]
    BY <1>4, <2>1, RecordFacts DEF Store, Links
  <2> HIDE DEF Q
  <2>3. k.prev = Store(Q, m.inactive, r)
    BY <1>3 DEF P, Q
  <2>4. k.prev \in Links /\ \A q \in MmapRecords : k.prev[q] = IF q = m.inactive THEN r ELSE Q[q]
    BY <1>4, <2>2, <2>3, RecordFacts DEF Store, Links
  <2> QED
    BY <2>1, <2>2, <2>4
<1>7. k.region = [m.region EXCEPT ![r] = NULL]
  BY <1>1, <1>3 DEF Store
<1>8. k \in Arenas
  <2>1. k.next \in Links /\ k.prev \in Links /\ k.region \in [MmapRecords -> Regions \cup {NULL}]
    BY <1>1, <1>5, <1>6, <1>7 DEF Arenas
  <2>2. k.active \in MmapRecords \cup {NULL}
    BY <1>3, <1>4
  <2> QED
    BY <1>1, <1>3, <2>1, <2>2 DEF Arenas, Retire, k
<1>9. /\ ActiveRecords(k) = ActiveRecords(m) \ {r}
      /\ FreeRecords(k) = FreeRecords(m) \cup {r}
  <2>1. ActiveRecords(k) = ActiveRecords(m) \ {r}
    BY <1>1, <1>7 DEF ActiveRecords, Arenas
  <2>2. r < m.groups * MmapPerGroup
    <3>1. m.groups * MmapPerGroup \in Nat /\ r \in Nat
      BY <1>1, RecordFacts, MmapAssumption DEF Arenas
    <3>2. r >= m.groups * MmapPerGroup => m.region[r] = NULL
      BY <1>1 DEF ArenaSound
    <3> QED
      BY <3>1, <3>2 DEF ActiveRecords
  <2> QED
    BY <1>1, <1>3, <2>1, <2>2 DEF FreeRecords
<1>10. Chained(ActiveList(k), ActiveRecords(k))
  <2>1. /\ ActiveList(k).head = k.active /\ ActiveList(k).next = k.next
        /\ ActiveList(k).prev = k.prev
        /\ ActiveList(m).head = m.active /\ ActiveList(m).next = m.next
        /\ ActiveList(m).prev = m.prev
    BY DEF ActiveList
  <2>2. ASSUME NEW q \in ActiveRecords(m) \ {r}
        PROVE  /\ ActiveList(k).next[q] = IF q = ActiveList(m).prev[r] THEN ActiveList(m).next[r]
                                          ELSE ActiveList(m).next[q]
               /\ ActiveList(k).prev[q] = IF q = ActiveList(m).next[r] THEN ActiveList(m).prev[r]
                                          ELSE ActiveList(m).prev[q]
    <3>1. q \in MmapRecords /\ q # m.inactive
      BY <1>1
    <3> QED
      BY <1>5, <1>6, <2>1, <3>1
  <2>3. ActiveList(k).head = IF ActiveList(m).head = r THEN ActiveList(m).next[r]
                             ELSE ActiveList(m).head
    BY <1>2, <1>3, <2>1
  <2>4. NULL \notin ActiveRecords(m) /\ Chained(ActiveList(m), ActiveRecords(m))
    BY <1>1 DEF ArenaSound
  <2> QED
    BY <1>9, <2>2, <2>3, <2>4, ChainedRemove
<1>11. Chained(InactiveList(k), FreeRecords(k))
  <2>1. /\ InactiveList(k).head = r /\ InactiveList(k).next = k.next
        /\ InactiveList(k).prev = k.prev
        /\ InactiveList(m).head = m.inactive /\ InactiveList(m).next = m.next
        /\ InactiveList(m).prev = m.prev
    BY <1>3 DEF InactiveList
  <2>2. ASSUME NEW q \in FreeRecords(m)
        PROVE  /\ k.next[q] = m.next[q]
               /\ k.prev[q] = IF q = m.inactive THEN r ELSE m.prev[q]
    <3>1. q \in MmapRecords /\ q # r /\ q # m.prev[r] /\ q # m.next[r]
      BY <1>1, <1>2
    <3> QED
      BY <1>5, <1>6, <3>1
  <2>3. k.next[r] = m.inactive /\ k.prev[r] = NULL
    BY <1>1, <1>5, <1>6
  <2>4. NULL \notin FreeRecords(m) /\ Chained(InactiveList(m), FreeRecords(m)) /\ r # NULL
    BY <1>1 DEF ArenaSound
  <2> QED
    BY <1>1, <1>9, <2>1, <2>2, <2>3, <2>4, ChainedPush
<1>12. \A q \in MmapRecords : q >= k.groups * MmapPerGroup =>
         k.next[q] = NULL /\ k.prev[q] = NULL /\ k.region[q] = NULL
  <2>1. ASSUME NEW q \in MmapRecords, q >= m.groups * MmapPerGroup
        PROVE  /\ m.next[q] = NULL /\ m.prev[q] = NULL /\ m.region[q] = NULL
               /\ q \notin ActiveRecords(m) /\ q \notin FreeRecords(m)
    <3>1. m.next[q] = NULL /\ m.prev[q] = NULL /\ m.region[q] = NULL
      BY <2>1 DEF ArenaSound
    <3>2. m.groups * MmapPerGroup \in Nat /\ q \in Nat
      BY <1>1, RecordFacts, MmapAssumption DEF Arenas
    <3> QED
      BY <2>1, <3>1, <3>2 DEF FreeRecords, ActiveRecords
  <2>2. ASSUME NEW q \in MmapRecords, q >= m.groups * MmapPerGroup
        PROVE  k.next[q] = NULL /\ k.prev[q] = NULL /\ k.region[q] = NULL
    <3>1. q # r /\ q # m.inactive /\ q # m.prev[r] /\ q # m.next[r]
      BY <1>1, <1>2, <2>1, <2>2
    <3> QED
      BY <1>1, <1>5, <1>6, <1>7, <2>1, <2>2, <3>1 DEF Arenas
  <2> QED
    BY <1>3, <2>2
<1>13. \A p, q \in ActiveRecords(k) : k.region[p] = k.region[q] => p = q
  BY <1>1, <1>7, <1>9 DEF ArenaSound, ActiveRecords, Arenas
<1> QED
  BY <1>7, <1>8, <1>10, <1>11, <1>12, <1>13 DEF ArenaSound, k

(***************************************************************************)
(* The invariant                                                           *)
(***************************************************************************)

LEMMA InitMmapInv == MmapInit => MmapInv
<1> SUFFICES ASSUME MmapInit PROVE MmapInv
  OBVIOUS
<1>1. ArenaSound(arena) /\ arena.region = NoLinks
  BY EmptyArenaSound DEF MmapInit, EmptyArena
<1>2. MmapTypeOK
  BY <1>1 DEF MmapInit, MmapTypeOK, ArenaSound
<1>3. RegionsOwned
  BY <1>1 DEF MmapInit, RegionsOwned, NoLinks
<1> QED
  BY <1>1, <1>2, <1>3 DEF MmapInv

\* The arena that mmap_alloc takes a record from: as it was, or with a new group.
LEMMA WithRecordsSound ==
  ASSUME NEW m, ArenaSound(m), NEW n \in WithRecords(m)
  PROVE  ArenaSound(n) /\ n.region = m.region
<1>1. CASE n = m
  BY <1>1
<1>2. CASE n # m
  <2>1. n = AddMmapGroup(m) /\ m.inactive = NULL /\ m.groups < MmapMaxGroups
    BY <1>2 DEF WithRecords
  <2> QED
    BY <2>1, AddMmapGroupSound
<1> QED
  BY <1>1, <1>2

\* What MmapInv says, of any arena and any sets of regions: a call of malloc() may ask
\* twice for memory.
Owns(m, M, R) ==
  /\ ArenaSound(m)
  /\ M \subseteq Regions
  /\ M = {d[1] : d \in R}
  /\ R = {<<m.region[r], r>> : r \in ActiveRecords(m)}

LEMMA OwnsFacts ==
  ASSUME NEW m, NEW M, NEW R, Owns(m, M, R)
  PROVE  R \subseteq M \X MmapRecords /\ m \in Arenas
BY DEF Owns, ActiveRecords, ArenaSound, Arenas

LEMMA OwnsInv == MmapInv <=> Owns(arena, mapped, regions)
<1>1. MmapInv => Owns(arena, mapped, regions)
  BY DEF MmapInv, MmapTypeOK, RegionsOwned, ActiveRecords, Owns
<1>2. Owns(arena, mapped, regions) => MmapInv
  <2> SUFFICES ASSUME Owns(arena, mapped, regions) PROVE MmapInv
    OBVIOUS
  <2>1. regions \subseteq mapped \X MmapRecords /\ arena \in Arenas
    BY OwnsFacts
  <2> QED
    BY <2>1 DEF MmapInv, MmapTypeOK, RegionsOwned, ActiveRecords, Owns
<1> QED
  BY <1>1, <1>2

\* mmap_alloc: nothing, or one region that was not mapped, with a record of its own.
LEMMA OutcomeOwned ==
  ASSUME NEW m, NEW M, NEW R, Owns(m, M, R), NEW o \in Outcomes(m, Regions \ M)
  PROVE  \/ o.got = NULL /\ Owns(o.arena, M, R)
         \/ /\ o.got # NULL /\ o.got \in Regions \ M
            /\ <<o.got, o.arena.active>> \notin R
            /\ Owns(o.arena, M \cup {o.got}, R \cup {<<o.got, o.arena.active>>})
<1>1. /\ NULL \notin Regions /\ m \in Arenas /\ ArenaSound(m)
      /\ M \subseteq Regions /\ R \subseteq M \X MmapRecords
      /\ M = {d[1] : d \in R}
      /\ R = {<<m.region[r], r>> : r \in ActiveRecords(m)}
  BY RecordFacts, OwnsFacts DEF Owns
<1>2. CASE \E n \in WithRecords(m) : o = [arena |-> n, got |-> NULL]
  <2>1. o.got = NULL /\ ArenaSound(o.arena) /\ o.arena.region = m.region
    BY <1>1, <1>2, WithRecordsSound
  <2> QED
    BY <1>1, <2>1 DEF Owns, ActiveRecords
<1>3. CASE \E n \in WithRecords(m) : \E a \in Regions \ M :
             n.inactive # NULL /\ o = [arena |-> Activate(n, a), got |-> a]
  <2>1. PICK n \in WithRecords(m), a \in Regions \ M :
               n.inactive # NULL /\ o = [arena |-> Activate(n, a), got |-> a]
    BY <1>3
  <2>2. ArenaSound(n) /\ n.region = m.region
    BY <1>1, WithRecordsSound
  <2>3. \A q \in MmapRecords : n.region[q] # a
    <3>1. ASSUME NEW q \in MmapRecords, m.region[q] = a PROVE FALSE
      <4>1. <<a, q>> \in R
        BY <1>1, <3>1 DEF ActiveRecords
      <4> QED
        BY <1>1, <4>1
    <3> QED
      BY <2>2, <3>1
  <2> DEFINE r == n.inactive
  <2>4. PICK w : w = Activate(n, a)
    OBVIOUS
  <2>5. /\ ArenaSound(w) /\ r \in MmapRecords /\ w.active = r
        /\ w.region = [m.region EXCEPT ![r] = a]
    BY <2>1, <2>2, <2>3, <2>4, ActivateSound
  <2>6. m.region[r] = NULL
    BY <2>1, <2>2, ListsOfArena DEF FreeRecords, ActiveRecords
  <2>7. o.arena = w /\ o.got = a /\ a # NULL
    BY <1>1, <2>1, <2>4
  <2> HIDE DEF r
  <2>8. <<a, r>> \notin R
    BY <1>1
  <2>9. M \cup {a} = {d[1] : d \in R \cup {<<a, r>>}}
    <3>1. <<a, r>>[1] = a
      OBVIOUS
    <3> QED
      BY <1>1, <3>1
  <2>10. ActiveRecords(w) = ActiveRecords(m) \cup {r}
    BY <1>1, <2>5, <2>7 DEF ActiveRecords, Arenas
  <2>11. \A q \in ActiveRecords(m) : q # r /\ w.region[q] = m.region[q]
    BY <1>1, <2>5, <2>6 DEF ActiveRecords, Arenas
  <2>12. w.region[r] = a
    BY <1>1, <2>5 DEF Arenas
  <2>13. R \cup {<<a, r>>} = {<<w.region[q], q>> : q \in ActiveRecords(w)}
    BY <1>1, <2>10, <2>11, <2>12
  <2>14. Owns(w, M \cup {a}, R \cup {<<a, r>>})
    <3>1. M \cup {a} \subseteq Regions
      BY <1>1
    <3> QED
      BY <2>5, <2>9, <2>13, <3>1 DEF Owns
  <2> QED
    BY <2>5, <2>7, <2>8, <2>14
<1> QED
  BY <1>2, <1>3 DEF Outcomes

LEMMA MmapAllocKeepsInv ==
  ASSUME MmapInv, MmapAlloc
  PROVE  MmapInv'
<1>1. PICK o \in Outcomes(arena, Regions \ mapped) :
        /\ arena' = o.arena
        /\ mapped' = mapped \cup ({o.got} \ {NULL})
        /\ regions' = IF o.got = NULL THEN regions ELSE regions \cup {<<o.got, o.arena.active>>}
  BY DEF MmapAlloc
<1>2. Owns(arena, mapped, regions)
  BY OwnsInv
<1>3. CASE o.got = NULL
  <2>1. Owns(o.arena, mapped, regions)
    BY <1>2, <1>3, OutcomeOwned
  <2>2. mapped' = mapped /\ regions' = regions
    BY <1>1, <1>3
  <2>3. Owns(arena, mapped, regions)'
    BY <1>1, <2>1, <2>2
  <2> QED
    BY <2>3, OwnsInv, PTL
<1>4. CASE o.got # NULL
  <2>1. Owns(o.arena, mapped \cup {o.got}, regions \cup {<<o.got, o.arena.active>>})
    BY <1>2, <1>4, OutcomeOwned
  <2>2. mapped' = mapped \cup {o.got} /\ regions' = regions \cup {<<o.got, o.arena.active>>}
    BY <1>1, <1>4
  <2>3. Owns(arena, mapped, regions)'
    BY <1>1, <2>1, <2>2
  <2> QED
    BY <2>3, OwnsInv, PTL
<1> QED
  BY <1>3, <1>4

LEMMA MmapFreeKeepsInv ==
  ASSUME MmapInv, NEW c \in regions, MmapFree(c[2])
  PROVE  MmapInv' /\ regions' = regions \ {c} /\ mapped' = mapped \ {c[1]}
<1> DEFINE r == c[2]
           a == arena.region[r]
<1>1. /\ arena \in Arenas /\ ArenaSound(arena)
      /\ mapped \subseteq Regions /\ regions \subseteq mapped \X MmapRecords
      /\ mapped = {d[1] : d \in regions}
      /\ regions = {<<arena.region[q], q>> : q \in ActiveRecords(arena)}
  BY DEF MmapInv, MmapTypeOK, RegionsOwned, ActiveRecords
<1>2. r \in ActiveRecords(arena) /\ r \in MmapRecords
  BY <1>1 DEF ActiveRecords
<1>3. /\ arena' = Retire(arena, r) /\ mapped' = mapped \ {a} /\ regions' = regions \ {<<a, r>>}
  BY DEF MmapFree
<1>4. ArenaSound(arena') /\ arena'.region = [arena.region EXCEPT ![r] = NULL]
  BY <1>1, <1>2, <1>3, RetireSound
\* no other record has the region
<1>5. \A q \in ActiveRecords(arena) : arena.region[q] = a => q = r
  BY <1>1, <1>2 DEF ArenaSound
<1>10. c = <<a, r>> /\ c[1] = a
  BY <1>1
<1> HIDE DEF r, a
<1>6. regions' = {d \in regions : d[1] # a}
  BY <1>1, <1>2, <1>3, <1>5 DEF a
<1>7. mapped' = {d[1] : d \in regions'}
  BY <1>1, <1>3, <1>6
<1>8. MmapTypeOK'
  BY <1>1, <1>3, <1>4, <1>6 DEF MmapTypeOK, ArenaSound
<1>9. RegionsOwned'
  <2>1. ActiveRecords(arena') = ActiveRecords(arena) \ {r}
    BY <1>1, <1>2, <1>4 DEF ActiveRecords, Arenas
  <2>2. \A q \in ActiveRecords(arena) \ {r} : arena'.region[q] = arena.region[q]
    BY <1>1, <1>4 DEF ActiveRecords, Arenas
  <2>3. regions' = {<<arena'.region[q], q>> : q \in ActiveRecords(arena')}
    <3>1. regions' = {<<arena.region[q], q>> : q \in ActiveRecords(arena)} \ {<<a, r>>}
      BY <1>1, <1>3
    <3>2. \A q \in ActiveRecords(arena) : <<arena.region[q], q>> # <<a, r>> <=> q # r
      BY DEF a
    <3>3. regions' = {<<arena.region[q], q>> : q \in ActiveRecords(arena) \ {r}}
      BY <3>1, <3>2
    <3> QED
      BY <2>1, <2>2, <3>3
  <2> QED
    BY <1>7, <2>3 DEF RegionsOwned, ActiveRecords
<1> QED
  BY <1>3, <1>4, <1>8, <1>9, <1>10 DEF MmapInv

\* Whatever call is made next keeps the invariant.
LEMMA NextMmapInv == MmapInv /\ [MmapNext]_mmapVars => MmapInv'
<1> SUFFICES ASSUME MmapInv, [MmapNext]_mmapVars PROVE MmapInv'
  OBVIOUS
<1>1. CASE UNCHANGED mmapVars
  BY <1>1 DEF mmapVars, MmapInv, MmapTypeOK, RegionsOwned
<1> QED
  BY <1>1, MmapAllocKeepsInv, MmapFreeKeepsInv DEF MmapNext

LEMMA RecordListsFromInv == MmapInv => RecordListsSound
BY DEF MmapInv, ArenaSound, RecordListsSound, ActiveRecords, FreeRecords

(***************************************************************************)
(* The theorem                                                             *)
(***************************************************************************)

\* Whatever mmaps fail, each record is in the one list it belongs to, and what the
\* system has mapped is what the callers hold, each region through one record.
THEOREM MmapAllocSafe ==
  MmapSpec => [](MmapTypeOK /\ RecordListsSound /\ RegionsOwned)
<1>1. MmapInv => MmapTypeOK /\ RecordListsSound /\ RegionsOwned
  BY RecordListsFromInv DEF MmapInv
<1> QED
  BY <1>1, InitMmapInv, NextMmapInv, PTL DEF MmapSpec

==============================================================================
