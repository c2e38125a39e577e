---------------------------- MODULE MCContainers ----------------------------
(***************************************************************************)
(* Instances of OrderedMap, TreeCopy, HashMap, Vector and Indirect for     *)
(* TLC.  A behaviour is one of a single part: a map with many keys and one *)
(* value, or with some keys and more values; a copy of one tree onto       *)
(* another; a hash map without clear(), or with it; a vector; or two       *)
(* owners.  The variables of the other parts are Off.                      *)
(***************************************************************************)
EXTENDS Naturals, FiniteSets, Sequences

CONSTANTS
  NumKeys, NumValueKeys,   \* keys with one value, and with any value
  NumNodes,                \* nodes of a tree that is copied
  NumHashKeys, NumClearKeys,   \* keys of a hash map, and of one with clear()
  MapValues, None, NULL,
  GroupSize, MinCap, StepCount, SizeRange,   \* of the hash map
  Values, Raw, Moved,      \* of vector and indirect; numbers
  MinAlloc, VectorLen, MaxAlloc, ArrayLen,
  Off

VARIABLES
  part,
  dict,                                                         \* either map
  tree, val, size, status,                                      \* map
  map, hive, stopped,                                           \* hash map
  heap, used, item, from, src, dst, leaf, old, curr, pc,        \* copy
  vec, seq,                                                     \* vector
  mem, held                                                     \* indirect

mapVars  == <<tree, val, size, status>>
hashVars == <<map, hive, stopped>>
copyVars == <<heap, used, item, from, src, dst, leaf, old, curr, pc>>
vecVars  == <<vec, seq>>
ownVars  == <<mem, held>>
vars     == <<part, dict, mapVars, copyVars, hashVars, vecVars, ownVars>>

(***************************************************************************)
(* The trees to copy: all that insertions and removals can build from the  *)
(* nodes first + 1 .. first + NumNodes, one per shape and coloring.        *)
(***************************************************************************)
CopyNodes == 1 .. 3 * NumNodes

R == INSTANCE RbTree WITH Nodes <- CopyNodes

Grown(t, n) ==
  LET M == R!Members(t)
      below == {m \in M : m < n /\ R!Child(t, m, "right") = NULL /\ \A o \in M : o <= m \/ o > n}
      above == {m \in M : m > n /\ R!Child(t, m, "left") = NULL /\ \A o \in M : o >= m \/ o < n}
  IN  IF t.root = NULL THEN {R!EmplaceRoot(t, n)}
      ELSE {R!EmplaceChild(t, m, "right", n) : m \in below} \cup
           {R!EmplaceChild(t, m, "left", n) : m \in above}

RECURSIVE Reached(_, _, _)
Reached(S, T, K) ==
  IF T = {} THEN S
  ELSE LET next == UNION {UNION {Grown(t, n) : n \in K \ R!Members(t)} \cup
                          {u \in {R!RemoveNode(t, n) : n \in R!Members(t)} : ~u.fault} : t \in T}
       IN  Reached(S \cup T, next \ (S \cup T), K)

Trees(first) ==
  LET all == Reached({}, {R!NoTree}, first + 1 .. first + NumNodes)
  IN  {t \in all : R!Members(t) = first + 1 .. first + Cardinality(R!Members(t))}

MCSources == Trees(0)
MCTargets == Trees(NumNodes)

(***************************************************************************)
(* The specification                                                       *)
(***************************************************************************)
Keys == 1 .. NumKeys

HashKeys == 1 .. NumHashKeys
Hashes   == {[k \in HashKeys |-> k \div 2], [k \in HashKeys |-> k]}

Shapes == {"indirect", "indirect_array"} \X {"trivial", "assignable", "constructible"}

M == INSTANCE OrderedMap WITH Nodes <- Keys, Values <- MapValues
C == INSTANCE TreeCopy WITH Nodes <- CopyNodes
H == INSTANCE HashMap WITH Keys <- HashKeys, Values <- MapValues
V == INSTANCE Vector WITH MaxLen <- VectorLen
I == INSTANCE Indirect WITH MaxLen <- ArrayLen
D == INSTANCE Dictionary WITH Values <- MapValues
ASSUME D!NoneAssumption

ASSUME R!NullAssumption /\ M!NullAssumption
ASSUME M!OrderedMapAssumption
ASSUME H!HashMapAssumption
ASSUME V!VectorAssumption
ASSUME I!IndirectAssumption

NoDict == dict = [k \in Keys |-> None]
NoMap == tree = Off /\ val = Off /\ size = Off /\ status = Off
NoHash == map = Off /\ hive = Off /\ stopped = Off
NoCopy ==
  /\ heap = Off /\ used = Off /\ item = Off /\ from = Off /\ src = Off
  /\ dst = Off /\ leaf = Off /\ old = Off /\ curr = Off /\ pc = Off
NoVector == vec = Off /\ seq = Off
NoOwners == mem = Off /\ held = Off

\* The dictionary of a hash map, as one over all keys.
Hashed(m, h) ==
  LET d == H!Represented(m, h) IN [k \in Keys |-> IF k \in HashKeys THEN d[k] ELSE None]

Init ==
  \/ /\ part \in {"keys", "values"} /\ M!Init /\ dict = M!Represented(tree, val)
     /\ NoCopy /\ NoHash /\ NoVector /\ NoOwners
  \/ /\ part \in {"hash", "hash and clear"} /\ H!Init /\ dict = Hashed(map, hive)
     /\ NoMap /\ NoCopy /\ NoVector /\ NoOwners
  \/ /\ part = "copy" /\ C!Init(MCSources, MCTargets)
     /\ NoDict /\ NoMap /\ NoHash /\ NoVector /\ NoOwners
  \/ part = "vector" /\ V!Init /\ NoDict /\ NoMap /\ NoCopy /\ NoHash /\ NoOwners
  \/ part = "owners" /\ I!Init /\ NoDict /\ NoMap /\ NoCopy /\ NoHash /\ NoVector

OneValue == {CHOOSE v \in MapValues : TRUE}

MapStep ==
  /\ \/ part = "keys" /\ M!CallWith(Keys, OneValue)
     \/ part = "values" /\ M!CallWith(1 .. NumValueKeys, MapValues)
  /\ dict' = M!Represented(tree', val')
  /\ UNCHANGED <<part, copyVars, hashVars, vecVars, ownVars>>

\* clear() leaves tombstones uncounted (hashmap.hpp:125), so it is kept to few keys.
HashStep ==
  /\ \/ part = "hash" /\ H!CallWith(HashKeys, OneValue)
     \/ part = "hash and clear" /\ (H!CallWith(1 .. NumClearKeys, MapValues) \/ H!Clear)
  /\ dict' = Hashed(map', hive')
  /\ UNCHANGED <<part, mapVars, copyVars, vecVars, ownVars>>

CopyStep ==
  part = "copy" /\ C!Next /\ UNCHANGED <<part, dict, mapVars, hashVars, vecVars, ownVars>>
VectorStep ==
  part = "vector" /\ V!Next /\ UNCHANGED <<part, dict, mapVars, copyVars, hashVars, ownVars>>
OwnerStep ==
  part = "owners" /\ I!Next /\ UNCHANGED <<part, dict, mapVars, copyVars, hashVars, vecVars>>

Next == MapStep \/ HashStep \/ CopyStep \/ VectorStep \/ OwnerStep

\* The loops of a copy run in one thread, which goes on.
Spec == Init /\ [][Next]_vars /\ WF_vars(CopyStep)

(***************************************************************************)
(* Properties                                                              *)
(***************************************************************************)
InMap  == part \in {"keys", "values"}
InHash == part \in {"hash", "hash and clear"}

\* After any insertions and removals that did not fault the tree is linked, ordered
\* and balanced, a walk meets the keys in order, and the size is exact
\* (rbtree.hpp:736).  A removal that must shorten all ways down from the root faults
\* (rbtree.hpp:1044, see RemovalEndsAtRoot); nothing else does, and nothing follows
\* from there.
MapSound ==
  InMap =>
    /\ M!TypeOK /\ M!NodesLinked /\ M!InOrder /\ M!Balanced
    /\ M!NeighboursInOrder /\ M!SizeExact /\ M!FaultsPastRootOnly

\* "Repeat this process until we reach root" (rbtree.hpp:410): the loop of a removal
\* ends there and does not read through the null parent of the root.  It is violated.
RemovalEndsAtRoot == InMap => status # "fault"

\* The two tables and the hive agree and every key is found, whatever was moved or
\* erased on the way (hashmap.hpp:441); the counters that decide about growing are
\* exact as long as clear() is not called, so that a rehashing ends before the new
\* table is full and no search runs off the end of a table.
TablesSound ==
  InHash =>
    /\ H!TypeOK /\ H!SlotsMatchHive /\ H!SizesExact /\ H!IndexInBounds
    /\ part = "hash" => H!TombsExact /\ H!RehashInTime

\* The copy of a hash map, taken in the middle of a rehashing or not, has the same keys
\* and values, and making it takes no rehashing (hashmap.hpp:360).
CopiedAlike == InHash /\ ~stopped => H!CopyIsSame(CHOOSE h \in Hashes : TRUE)

\* Every call of a map, a set or a hash map is one step of a dictionary or none: what a
\* search finds changes at one key, or all keys go at once (map.hpp, hashmap.hpp:441).
\* A removal that faults (rbtree.hpp:1044) changes nothing here; it is the last step.
IsDictionary == D!Spec

\* In the middle of a copy assignment no node is in two of the trees, and the leaf
\* taken next is one; in the end the copy is the source again (rbtree.hpp:1303).
CopySound ==
  part = "copy" => C!TypeOK /\ C!NodesApart /\ C!LeafIsLeaf /\ C!CopiedAlike

\* A copy assignment allocates only when no old node is left, frees nothing before
\* it is complete, and only reads its source (rbtree.hpp:1303).
CopyInPlace == [][part = "copy" => C!ReusesNodes /\ C!SourceUntouched]_vars

\* It comes to an end.
AssignmentEnds == <>(part = "copy" => pc = "done")

\* Every object is constructed once and destroyed once, and vectors and owners hold
\* what they should, also when what is inserted is a part of the vector
\* (vector.hpp:400) or what is copied has another length (indirect.hpp:321).  The
\* exception is the copy assignment between arrays of one length whose type cannot be
\* assigned (indirect.hpp:303, see LifetimesRespected); nothing follows from there.
ObjectsSound ==
  /\ part = "vector" =>
       V!TypeOK /\ V!LifetimesRespected /\ V!ObjectsExact /\ V!ContentsRight
  /\ part = "owners" =>
       I!TypeOK /\ I!BrokenByEqualLengthsOnly /\ I!HoldsItsOwn /\ I!OrderAgrees

\* "Destructors are customarily called in reverse order from constructors"
\* (indirect.hpp:264), of the objects that were constructed and no others: an
\* assignment destroys the elements of its array before it constructs new ones over
\* them, and nothing behind its end.  It is violated.
LifetimesRespected == part = "owners" => I!LifetimesRespected

=============================================================================
