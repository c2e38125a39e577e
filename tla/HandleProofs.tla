---------------------------- MODULE HandleProofs ----------------------------
(***************************************************************************)
(* Tagged allocations and the references into them stay sound, for any     *)
(* number of allocations, references and containers; so do the chunks and  *)
(* slots of a hive, for any finite number of chunks, any growth and any    *)
(* width of the words of a bitmap; and the chains of lists, for any finite *)
(* number of lists and nodes.                                              *)
(***************************************************************************)
EXTENDS MCHandles, MemoryLemmas, Sequences

(***************************************************************************)
(* References: the inductive invariant                                     *)
(***************************************************************************)

\* The references to a, and the list of them, in the memory s.
Pointing(s, a) == {r \in Refs : s.ptr[r] = a}
ListOf(s, a)   == [head |-> s.word[a].first, next |-> s.next, prev |-> s.prev]

\* The word of a agrees with the references to it.
AllocSound(s, a) ==
  IF CounterMode(s.word[a])
    THEN /\ Pointing(s, a) \subseteq Counted
         /\ s.word[a].n = Cardinality(Pointing(s, a))
         /\ s.word[a].tomb => Pointing(s, a) # {}
    ELSE /\ Pointing(s, a) \subseteq Linked
         /\ Chained(ListOf(s, a), Pointing(s, a))

\* References that are not in a list have no neighbours: PointLinked relies on it.
MemSound(s) ==
  /\ s \in MemType
  /\ \A r \in Refs : s.ptr[r] \in s.used \cup {NULL}
  /\ \A r \in Linked : s.ptr[r] = NULL => s.prev[r] = NULL /\ s.next[r] = NULL
  /\ \A a \in s.used : AllocSound(s, a)

\* The elements of a container are there, are its own alone and carry its ID.
HeldSound(s, h, f) ==
  /\ \A c \in Containers : h[c] \subseteq s.used
  /\ \A c, d \in Containers : c # d => h[c] \cap h[d] = {}
  /\ \A a \in s.used : IF Tombstone(s.word[a]) THEN \A c \in Containers : a \notin h[c]
                                               ELSE \E c \in Containers : a \in h[c]
  /\ \A c \in Containers : \A a \in h[c] : s.id[a] = f[c]

IdsSound ==
  /\ ids \in 0 .. MaxId + 1
  /\ cid \in [Containers -> 0 .. MaxId]
  /\ \A c \in Containers : cid[c] < ids
  /\ \A c, d \in Containers : c # d => cid[c] # cid[d]

RefsInv ==
  /\ MemSound(mem)
  /\ held \in [Containers -> SUBSET Allocs]
  /\ HeldSound(mem, held, cid)
  /\ IdsSound
  /\ stopped \in BOOLEAN

(***************************************************************************)
(* Words                                                                   *)
(***************************************************************************)
CountWords == [n : 0 .. Cardinality(Counted), tomb : BOOLEAN]
ChainWords == [first : Linked \cup {NULL}]

LEMMA WordCases ==
  ASSUME NEW w \in Words
  PROVE  \/ CounterMode(w) /\ w \in CountWords /\ w = Count(w.n, w.tomb)
         \/ ~CounterMode(w) /\ w \in ChainWords /\ w = Chain(w.first)
<1>1. CASE w \in CountWords
  <2>1. DOMAIN w = {"n", "tomb"}
    BY <1>1 DEF CountWords
  <2>2. w = [n |-> w.n, tomb |-> w.tomb]
    BY <1>1 DEF CountWords
  <2> QED
    BY <1>1, <2>1, <2>2 DEF CounterMode, Count
<1>2. CASE w \in ChainWords
  <2>1. DOMAIN w = {"first"}
    BY <1>2 DEF ChainWords
  <2>2. w = [first |-> w.first]
    BY <1>2 DEF ChainWords
  <2> QED
    BY <1>2, <2>1, <2>2 DEF CounterMode, Chain
<1> QED
  BY <1>1, <1>2 DEF Words, CountWords, ChainWords

LEMMA CountFacts ==
  ASSUME NEW n, NEW t
  PROVE  /\ CounterMode(Count(n, t)) /\ Count(n, t).n = n /\ Count(n, t).tomb = t
         /\ Tombstone(Count(n, t)) <=> t
         /\ n \in 0 .. Cardinality(Counted) /\ t \in BOOLEAN => Count(n, t) \in Words
BY DEF Count, CounterMode, Tombstone, Words

LEMMA ChainFacts ==
  ASSUME NEW r
  PROVE  /\ ~CounterMode(Chain(r)) /\ Chain(r).first = r
         /\ ~Tombstone(Chain(r))
         /\ r \in Linked \cup {NULL} => Chain(r) \in Words
<1>1. DOMAIN Chain(r) = {"first"}
  BY DEF Chain
<1> QED
  BY <1>1 DEF Chain, CounterMode, Tombstone, Words

\* The word of a new allocation.
LEMMA NoneCounted ==
  /\ Count(0, FALSE) \in Words /\ CounterMode(Count(0, FALSE)) /\ Count(0, FALSE).n = 0
  /\ ~Tombstone(Count(0, FALSE))
<1>1. 0 \in 0 .. Cardinality(Counted) /\ FALSE \in BOOLEAN
  BY TaggedPtrAssumption, FS_CardinalityType DEF TaggedPtrAssumption
<1> QED
  BY <1>1, CountFacts, Zenon

LEMMA CountedFinite ==
  ASSUME NEW P \in SUBSET Counted
  PROVE  /\ IsFiniteSet(P) /\ Cardinality(P) \in 0 .. Cardinality(Counted)
         /\ Cardinality(P) = 0 <=> P = {}
<1>1. IsFiniteSet(Counted)
  BY TaggedPtrAssumption DEF TaggedPtrAssumption
<1>2. IsFiniteSet(P) /\ Cardinality(P) <= Cardinality(Counted)
  BY <1>1, FS_Subset
<1> QED
  BY <1>1, <1>2, FS_CardinalityType, FS_EmptySet

\* What is known of a memory by its type.
LEMMA MemFields ==
  ASSUME NEW s \in MemType
  PROVE  /\ s.used \subseteq Allocs
         /\ s.id \in [Allocs -> 0 .. MaxId]
         /\ s.word \in [Allocs -> Words]
         /\ s.ptr \in [Refs -> Allocs \cup {NULL}]
         /\ s.prev \in [Linked -> Linked \cup {NULL}]
         /\ s.next \in [Linked -> Linked \cup {NULL}]
BY DEF MemType

\* The word of an allocation is sound or not by the references to it and their links.
LEMMA AllocFrame ==
  ASSUME NEW s, NEW s2, NEW a, AllocSound(s, a),
         s2.word[a] = s.word[a], Pointing(s2, a) = Pointing(s, a),
         \A r \in Linked : r \in Pointing(s, a) => s2.next[r] = s.next[r] /\ s2.prev[r] = s.prev[r]
  PROVE  AllocSound(s2, a)
<1>1. CASE CounterMode(s.word[a])
  BY <1>1 DEF AllocSound
<1>2. CASE ~CounterMode(s.word[a])
  <2>1. Pointing(s, a) \subseteq Linked /\ Chained(ListOf(s, a), Pointing(s, a))
    BY <1>2 DEF AllocSound
  <2>2. /\ ListOf(s2, a).head = ListOf(s, a).head
        /\ \A r \in Pointing(s, a) : /\ ListOf(s2, a).next[r] = ListOf(s, a).next[r]
                                     /\ ListOf(s2, a).prev[r] = ListOf(s, a).prev[r]
    BY <2>1 DEF ListOf
  <2>3. Chained(ListOf(s2, a), Pointing(s, a))
    BY <2>1, <2>2, ChainedFrame
  <2> QED
    BY <1>2, <2>3 DEF AllocSound
<1> QED
  BY <1>1, <1>2

\* A counted_ref points to a counter, a linked_ref to the head of a list.
LEMMA KindOfWord ==
  ASSUME NEW s, MemSound(s), NEW r \in Refs, s.ptr[r] # NULL
  PROVE  /\ s.ptr[r] \in s.used /\ s.ptr[r] \in Allocs
         /\ r \in Pointing(s, s.ptr[r])
         /\ CounterMode(s.word[s.ptr[r]]) <=> r \in Counted
<1>1. s.ptr[r] \in s.used /\ r \in Pointing(s, s.ptr[r])
  BY DEF MemSound, Pointing
<1>2. AllocSound(s, s.ptr[r])
  BY <1>1 DEF MemSound
<1> QED
  BY <1>1, <1>2, MemFields, TaggedPtrAssumption DEF MemSound, AllocSound, TaggedPtrAssumption, Refs

(***************************************************************************)
(* counted_ref                                                             *)
(***************************************************************************)

\* What the operations on references leave alone: storage goes only if it is a tombstone.
Keeps(s, s2) ==
  /\ s2.used \subseteq s.used
  /\ \A a \in s2.used : s2.id[a] = s.id[a] /\ (Tombstone(s2.word[a]) <=> Tombstone(s.word[a]))
  /\ \A a \in s.used \ s2.used : Tombstone(s.word[a])

LEMMA KeepsHeld ==
  ASSUME NEW s, NEW s2, NEW h, NEW f, HeldSound(s, h, f), Keeps(s, s2)
  PROVE  HeldSound(s2, h, f)
<1>1. \A c \in Containers : h[c] \subseteq s2.used
  BY DEF HeldSound, Keeps
<1> QED
  BY <1>1, Zenon DEF HeldSound, Keeps

LEMMA KeepsTransitive ==
  ASSUME NEW s, NEW s2, NEW s3, Keeps(s, s2), Keeps(s2, s3)
  PROVE  Keeps(s, s3)
BY DEF Keeps

\* The allocations of a memory that an operation on a counted_ref does not concern.
LEMMA OtherCounts ==
  ASSUME NEW s, NEW s2, MemSound(s), NEW r, NEW a, NEW b \in s.used, a # b,
         s2.word[b] = s.word[b], s2.next = s.next, s2.prev = s.prev,
         \A q \in Refs : s2.ptr[q] = s.ptr[q] \/ (s2.ptr[q] \in {a, NULL} /\ s.ptr[q] \in {a, NULL})
  PROVE  AllocSound(s2, b)
<1>1. b \in Allocs /\ NULL \notin Allocs
  BY MemFields, TaggedPtrAssumption DEF MemSound, TaggedPtrAssumption
<1>2. Pointing(s2, b) = Pointing(s, b)
  BY <1>1 DEF Pointing
<1> QED
  BY <1>2, AllocFrame DEF MemSound

\* malloc() and free() of the storage.
LEMMA FreeFields ==
  ASSUME NEW s \in MemType, NEW a \in Allocs
  PROVE  /\ Free(s, a) \in MemType
         /\ Free(s, a).used = s.used \ {a}
         /\ Free(s, a).ptr = s.ptr /\ Free(s, a).prev = s.prev /\ Free(s, a).next = s.next
         /\ \A b \in Allocs \ {a} : Free(s, a).id[b] = s.id[b] /\ Free(s, a).word[b] = s.word[b]
<1>0. Cardinality(Counted) \in Nat /\ MaxId \in Nat
  BY TaggedPtrAssumption, FS_CardinalityType DEF TaggedPtrAssumption
<1>1. /\ Count(0, FALSE) \in Words
      /\ 0 \in 0 .. MaxId
  <2>1. Count(0, FALSE) \in Words
    BY NoneCounted, Zenon
  <2>2. 0 \in 0 .. MaxId
    BY <1>0
  <2> QED
    BY <2>1, <2>2, Zenon
<1>2. /\ Free(s, a).used = s.used \ {a}
      /\ Free(s, a).id = [s.id EXCEPT ![a] = 0]
      /\ Free(s, a).word = [s.word EXCEPT ![a] = Count(0, FALSE)]
      /\ Free(s, a).ptr = s.ptr /\ Free(s, a).prev = s.prev /\ Free(s, a).next = s.next
  BY DEF Free, MemType
<1>3. Free(s, a) \in MemType
  BY <1>1, <1>2 DEF Free, MemType
<1> QED
  BY <1>2, <1>3, MemFields

LEMMA DropCountedSound ==
  ASSUME NEW s, MemSound(s), NEW r \in Counted
  PROVE  /\ MemSound(DropCounted(s, r))
         /\ DropCounted(s, r).ptr[r] = NULL
         /\ Keeps(s, DropCounted(s, r))
<1> DEFINE s2 == DropCounted(s, r)
           a  == s.ptr[r]
           P  == Pointing(s, a)
           n0 == [s EXCEPT !.word[a].n = @ - 1, !.ptr[r] = NULL]
<1>0. NULL \notin Allocs /\ NULL \notin Refs /\ r \in Refs /\ r \notin Linked
  BY TaggedPtrAssumption DEF TaggedPtrAssumption, Refs
<1>t. s \in MemType
  BY DEF MemSound
<1>f. s2 = IF a = NULL THEN s ELSE IF n0.word[a] = Count(0, TRUE) THEN Free(n0, a) ELSE n0
  BY Zenon DEF DropCounted
<1>1. CASE a = NULL
  BY <1>1 DEF DropCounted, Keeps
<1>2. CASE a # NULL
  <2>1. a \in s.used /\ a \in Allocs /\ r \in P /\ CounterMode(s.word[a])
    BY <1>0, <1>2, KindOfWord
  <2>2. PICK k \in 0 .. Cardinality(Counted), t \in BOOLEAN : s.word[a] = Count(k, t)
    BY <1>t, <2>1, WordCases, MemFields DEF CountWords
  <2>3. P \subseteq Counted /\ k = Cardinality(P)
    BY <2>1, <2>2, CountFacts DEF MemSound, AllocSound
  <2>4. IsFiniteSet(P) /\ k # 0 /\ k - 1 = Cardinality(P \ {r}) /\ k - 1 \in 0 .. Cardinality(Counted)
    <3>1. P \ {r} \subseteq Counted /\ Cardinality(Counted) \in Nat
      BY <2>3, TaggedPtrAssumption, FS_CardinalityType DEF TaggedPtrAssumption
    <3> QED
      BY <2>1, <2>3, <3>1, CountedFinite, FS_RemoveElement
  <2>5. /\ n0.used = s.used /\ n0.id = s.id /\ n0.prev = s.prev /\ n0.next = s.next
        /\ n0.word = [s.word EXCEPT ![a] = Count(k - 1, t)]
        /\ n0.ptr = [s.ptr EXCEPT ![r] = NULL]
    BY <1>t, <2>1, <2>2 DEF MemType, Count
  <2>6. n0 \in MemType
    <3>1. Count(k - 1, t) \in Words
      BY <2>4, CountFacts
    <3> QED
      BY <1>t, <2>5, <3>1 DEF MemType
  <2>7. Pointing(n0, a) = P \ {r}
    BY <1>0, <1>t, <2>1, <2>5, MemFields DEF Pointing
  <2>8. n0.word[a] = Count(k - 1, t)
    BY <1>t, <2>1, <2>5, MemFields
  <2> HIDE DEF n0, s2
  <2>9. ASSUME NEW b \in s.used \ {a} PROVE AllocSound(n0, b)
    <3>1. n0.word[b] = s.word[b]
      BY <1>t, <2>5, <2>9, MemFields
    <3>2. \A q \in Refs : n0.ptr[q] = s.ptr[q] \/ (n0.ptr[q] \in {a, NULL} /\ s.ptr[q] \in {a, NULL})
      BY <1>t, <2>5, MemFields
    <3>3. b \in s.used /\ a # b /\ n0.next = s.next /\ n0.prev = s.prev
      BY <2>5, <2>9
    <3> QED
      BY <3>1, <3>2, <3>3, OtherCounts, Zenon
  <2>10. \A q \in Refs : n0.ptr[q] \in s.used \cup {NULL}
    BY <1>t, <2>5, MemFields DEF MemSound
  <2>11. \A q \in Linked : n0.ptr[q] = NULL => n0.prev[q] = NULL /\ n0.next[q] = NULL
    BY <1>0, <1>t, <2>5, MemFields DEF MemSound, Refs
  <2>12. CASE n0.word[a] = Count(0, TRUE)
    <3>1. s2 = Free(n0, a)
      BY <1>f, <1>2, <2>12
    <3>2. k - 1 = 0 /\ t = TRUE
      <4>1. Count(k - 1, t) = Count(0, TRUE)
        BY <2>8, <2>12, Zenon
      <4>2. k - 1 = 0
        BY <4>1 DEF Count
      <4>3. t = TRUE
        BY <4>1 DEF Count
      <4> QED
        BY <4>2, <4>3
    <3>3. Pointing(n0, a) = {}
      BY <2>3, <2>4, <2>7, <3>2, CountedFinite
    <3>4. /\ s2.used = s.used \ {a}
          /\ s2.prev = s.prev /\ s2.next = s.next /\ s2.ptr = n0.ptr
          /\ \A b \in Allocs \ {a} : s2.id[b] = s.id[b] /\ s2.word[b] = n0.word[b] /\ s2.word[b] = s.word[b]
          /\ s2 \in MemType
      BY <1>t, <2>1, <2>5, <2>6, <3>1, FreeFields, MemFields
    <3>5. s.used \subseteq Allocs
      BY <1>t, MemFields
    <3>6. \A q \in Refs : s2.ptr[q] \in s2.used \cup {NULL}
      BY <2>10, <3>3, <3>4 DEF Pointing
    <3>7. ASSUME NEW b \in s2.used PROVE AllocSound(s2, b)
      <4>1. b \in s.used \ {a} /\ AllocSound(n0, b)
        BY <2>9, <3>4, <3>7
      <4>2. s2.word[b] = n0.word[b] /\ Pointing(s2, b) = Pointing(n0, b)
        BY <3>4, <3>5, <4>1 DEF Pointing
      <4>3. s2.next = n0.next /\ s2.prev = n0.prev
        BY <2>5, <3>4
      <4> QED
        BY <4>1, <4>2, <4>3, AllocFrame
    <3>8. Keeps(s, s2)
      <4>1. Tombstone(s.word[a])
        BY <2>2, <3>2, CountFacts
      <4> QED
        BY <3>4, <3>5, <4>1 DEF Keeps
    <3>9. s2.ptr[r] = NULL
      BY <1>0, <1>t, <2>5, <3>4, MemFields
    <3>10. MemSound(s2)
      BY <2>5, <2>11, <3>4, <3>6, <3>7 DEF MemSound
    <3> QED
      BY <3>8, <3>9, <3>10 DEF s2
  <2>13. CASE n0.word[a] # Count(0, TRUE)
    <3>1. s2 = n0
      BY <1>f, <1>2, <2>13, Zenon
    <3>2. t => Pointing(n0, a) # {}
      <4> SUFFICES ASSUME t, Pointing(n0, a) = {} PROVE FALSE
        OBVIOUS
      <4>1. k - 1 = 0
        BY <2>3, <2>4, <2>7, FS_EmptySet
      <4> QED
        BY <2>2, <2>8, <2>13, <4>1
    <3>3. AllocSound(n0, a)
      <4>1. CounterMode(n0.word[a]) /\ n0.word[a].n = k - 1 /\ n0.word[a].tomb = t
        BY <2>8, CountFacts
      <4> QED
        BY <2>3, <2>4, <2>7, <3>2, <4>1 DEF AllocSound
    <3>4. Keeps(s, n0)
      <4>1. Tombstone(n0.word[a]) <=> Tombstone(s.word[a])
        <5>1. (Tombstone(Count(k - 1, t)) <=> t) /\ (Tombstone(Count(k, t)) <=> t)
          BY CountFacts, Zenon
        <5> QED
          BY <2>2, <2>8, <5>1
      <4>2. \A b \in s.used \ {a} : n0.word[b] = s.word[b]
        BY <1>t, <2>5, MemFields
      <4>3. n0.used = s.used /\ n0.id = s.id
        BY <2>5
      <4> QED
        BY <4>1, <4>2, <4>3 DEF Keeps
    <3>5. MemSound(n0)
      BY <2>5, <2>6, <2>9, <2>10, <2>11, <3>3 DEF MemSound
    <3>6. n0.ptr[r] = NULL
      BY <1>0, <1>t, <2>5, MemFields
    <3> QED
      BY <3>1, <3>4, <3>5, <3>6 DEF s2
  <2> QED
    BY <2>12, <2>13
<1> QED
  BY <1>1, <1>2

\* A memory in which only one allocation, or counted_refs to it, changed.
LEMMA CountedChange ==
  ASSUME NEW s, MemSound(s), NEW s2 \in MemType, NEW a \in s.used,
         s2.used = s.used, s2.id = s.id, s2.prev = s.prev, s2.next = s.next,
         \A b \in s.used \ {a} : s2.word[b] = s.word[b],
         \A q \in Refs : s2.ptr[q] = s.ptr[q] \/ (s2.ptr[q] \in {a, NULL} /\ s.ptr[q] \in {a, NULL}),
         \A q \in Linked : s2.ptr[q] = s.ptr[q],
         AllocSound(s2, a), Tombstone(s2.word[a]) <=> Tombstone(s.word[a])
  PROVE  MemSound(s2) /\ Keeps(s, s2)
<1>1. ASSUME NEW b \in s.used \ {a} PROVE AllocSound(s2, b)
  <2>1. b \in s.used /\ a # b /\ s2.word[b] = s.word[b]
    BY <1>1
  <2> QED
    BY <2>1, OtherCounts, Zenon
<1>2. \A q \in Refs : s2.ptr[q] \in s2.used \cup {NULL}
  BY DEF MemSound
<1>3. \A q \in Linked : s2.ptr[q] = NULL => s2.prev[q] = NULL /\ s2.next[q] = NULL
  BY DEF MemSound
<1>4. Keeps(s, s2)
  BY DEF Keeps
<1> QED
  BY <1>1, <1>2, <1>3, <1>4 DEF MemSound

\* r points to a as well, which counts it.
LEMMA PointCountedSound ==
  ASSUME NEW s, MemSound(s), NEW r \in Counted, s.ptr[r] = NULL,
         NEW a \in s.used, CounterMode(s.word[a])
  PROVE  MemSound(PointCounted(s, r, a)) /\ Keeps(s, PointCounted(s, r, a))
<1> DEFINE s2 == PointCounted(s, r, a)
           P  == Pointing(s, a)
<1>0. NULL \notin Allocs /\ r \in Refs /\ r \notin Linked
  BY TaggedPtrAssumption DEF TaggedPtrAssumption, Refs
<1>1. s \in MemType /\ a \in Allocs /\ a # NULL
  BY <1>0, MemFields DEF MemSound
<1>2. PICK k \in 0 .. Cardinality(Counted), t \in BOOLEAN : s.word[a] = Count(k, t)
  BY <1>1, WordCases, MemFields DEF CountWords
<1>3. P \subseteq Counted /\ k = Cardinality(P) /\ r \notin P
  BY <1>0, <1>1, <1>2, CountFacts DEF MemSound, AllocSound, Pointing
<1>4. Cardinality(P \cup {r}) = k + 1 /\ k + 1 \in 0 .. Cardinality(Counted)
  <2>1. P \cup {r} \subseteq Counted /\ IsFiniteSet(P)
    BY <1>3, CountedFinite
  <2> QED
    BY <1>3, <2>1, CountedFinite, FS_AddElement
<1>5. /\ s2.used = s.used /\ s2.id = s.id /\ s2.prev = s.prev /\ s2.next = s.next
      /\ s2.word = [s.word EXCEPT ![a] = Count(k + 1, t)]
      /\ s2.ptr = [s.ptr EXCEPT ![r] = a]
  BY <1>1, <1>2 DEF PointCounted, MemType, Count
<1>6. s2 \in MemType
  <2>1. Count(k + 1, t) \in Words
    BY <1>4, CountFacts
  <2> QED
    BY <1>1, <1>5, <2>1 DEF MemType, PointCounted
<1> HIDE DEF s2
<1>7. Pointing(s2, a) = P \cup {r}
  BY <1>0, <1>1, <1>5, MemFields DEF Pointing
<1>8. s2.word[a] = Count(k + 1, t)
  BY <1>1, <1>5, MemFields
<1>9. AllocSound(s2, a)
  <2>1. CounterMode(s2.word[a]) /\ s2.word[a].n = k + 1
    BY <1>8, CountFacts
  <2> QED
    BY <1>3, <1>4, <1>7, <2>1 DEF AllocSound
<1>10. Tombstone(s2.word[a]) <=> Tombstone(s.word[a])
  <2>1. (Tombstone(Count(k + 1, t)) <=> t) /\ (Tombstone(Count(k, t)) <=> t)
    BY CountFacts, Zenon
  <2> QED
    BY <1>2, <1>8, <2>1
<1>11. \A b \in s.used \ {a} : s2.word[b] = s.word[b]
  BY <1>1, <1>5, MemFields
<1>12. /\ \A q \in Refs : s2.ptr[q] = s.ptr[q] \/ (s2.ptr[q] \in {a, NULL} /\ s.ptr[q] \in {a, NULL})
       /\ \A q \in Linked : s2.ptr[q] = s.ptr[q]
  BY <1>0, <1>1, <1>5, MemFields DEF Refs
<1>13. MemSound(s2) /\ Keeps(s, s2)
  BY <1>5, <1>6, <1>9, <1>10, <1>11, <1>12, CountedChange, Zenon
<1> QED
  BY <1>13 DEF s2

\* A memory with the same contents.
LEMMA SameSound ==
  ASSUME NEW s, MemSound(s), NEW s2 \in MemType,
         s2.used = s.used, s2.id = s.id, s2.word = s.word,
         \A q \in Refs : s2.ptr[q] = s.ptr[q],
         \A q \in Linked : s2.prev[q] = s.prev[q] /\ s2.next[q] = s.next[q]
  PROVE  MemSound(s2) /\ Keeps(s, s2)
<1>1. ASSUME NEW a \in s.used PROVE AllocSound(s2, a)
  <2>1. Pointing(s2, a) = Pointing(s, a)
    BY DEF Pointing
  <2> QED
    BY <2>1, AllocFrame DEF MemSound
<1> QED
  BY <1>1 DEF MemSound, Keeps, Refs

\* The copy of a counted_ref points where it does, the source of a move holds null.
LEMMA CopyCountedSound ==
  ASSUME NEW s, MemSound(s), NEW r \in Counted, NEW o \in Counted
  PROVE  MemSound(CopyCounted(s, r, o)) /\ Keeps(s, CopyCounted(s, r, o))
<1> DEFINE d == DropCounted(s, r)
           a == d.ptr[o]
<1>1. MemSound(d) /\ d.ptr[r] = NULL /\ Keeps(s, d)
  BY DropCountedSound
<1>2. CopyCounted(s, r, o) = PointCounted(d, r, a)
  BY Zenon DEF CopyCounted
<1> HIDE DEF d
<1>3. d \in MemType /\ o \in Refs /\ r \in Refs
  BY <1>1 DEF MemSound, Refs
<1>4. CASE a = NULL
  <2>1. PointCounted(d, r, a) = [d EXCEPT !.ptr[r] = NULL]
    BY <1>4 DEF PointCounted
  <2> DEFINE e == [d EXCEPT !.ptr[r] = NULL]
  <2>2. /\ e \in MemType
        /\ e.used = d.used /\ e.id = d.id /\ e.prev = d.prev /\ e.next = d.next /\ e.word = d.word
        /\ \A q \in Refs : e.ptr[q] = d.ptr[q]
    BY <1>1, <1>3 DEF MemType
  <2>3. MemSound(e) /\ Keeps(d, e)
    <3> HIDE DEF e
    <3> QED
      BY <1>1, <2>2, SameSound
  <2> QED
    BY <1>1, <1>2, <2>1, <2>3, KeepsTransitive
<1>5. CASE a # NULL
  <2>1. a \in d.used /\ CounterMode(d.word[a])
    BY <1>1, <1>3, <1>5, KindOfWord
  <2> QED
    BY <1>1, <1>2, <2>1, PointCountedSound, KeepsTransitive
<1> QED
  BY <1>4, <1>5

LEMMA MoveCountedSound ==
  ASSUME NEW s, MemSound(s), NEW r \in Counted, NEW o \in Counted, r # o
  PROVE  MemSound(MoveCounted(s, r, o)) /\ Keeps(s, MoveCounted(s, r, o))
<1> DEFINE d == DropCounted(s, r)
           a == d.ptr[o]
           e == [d EXCEPT !.ptr[r] = a, !.ptr[o] = NULL]
           P == Pointing(d, a)
<1>1. MemSound(d) /\ d.ptr[r] = NULL /\ Keeps(s, d)
  BY DropCountedSound
<1>2. MoveCounted(s, r, o) = e
  BY Zenon DEF MoveCounted
<1> HIDE DEF d
<1>3. d \in MemType /\ o \in Refs /\ r \in Refs
  BY <1>1 DEF MemSound, Refs
<1>4. /\ e \in MemType
      /\ e.used = d.used /\ e.id = d.id /\ e.prev = d.prev /\ e.next = d.next /\ e.word = d.word
      /\ e.ptr = [d.ptr EXCEPT ![r] = a, ![o] = NULL]
  BY <1>3 DEF MemType
<1> HIDE DEF e
<1>5. CASE a = NULL
  <2>1. \A q \in Refs : e.ptr[q] = d.ptr[q]
    BY <1>1, <1>3, <1>4, <1>5, MemFields
  <2> QED
    BY <1>1, <1>2, <1>4, <2>1, SameSound, KeepsTransitive
<1>6. CASE a # NULL
  <2>1. a \in d.used /\ a \in Allocs /\ CounterMode(d.word[a]) /\ o \in P
    BY <1>1, <1>3, <1>6, KindOfWord
  <2>2. Pointing(e, a) = (P \ {o}) \cup {r} /\ r \notin P
    BY <1>1, <1>3, <1>4, <1>6, MemFields DEF Pointing
  <2>3. /\ P \subseteq Counted /\ d.word[a].n = Cardinality(P)
    BY <1>1, <2>1 DEF MemSound, AllocSound
  <2>4. Cardinality((P \ {o}) \cup {r}) = Cardinality(P)
    <3>1. IsFiniteSet(P) /\ IsFiniteSet(P \ {o}) /\ r \notin P \ {o}
      BY <2>2, <2>3, CountedFinite
    <3>2. Cardinality(P \ {o}) = Cardinality(P) - 1 /\ Cardinality(P) \in Nat
      BY <2>1, <3>1, FS_RemoveElement, FS_CardinalityType
    <3>3. Cardinality((P \ {o}) \cup {r}) = Cardinality(P \ {o}) + 1
      BY <3>1, FS_AddElement
    <3> QED
      BY <3>2, <3>3
  <2>5. AllocSound(e, a)
    BY <1>4, <2>1, <2>2, <2>3, <2>4 DEF AllocSound
  <2>6. /\ \A q \in Refs : e.ptr[q] = d.ptr[q] \/ (e.ptr[q] \in {a, NULL} /\ d.ptr[q] \in {a, NULL})
        /\ \A q \in Linked : e.ptr[q] = d.ptr[q]
    BY <1>1, <1>3, <1>4, MemFields, TaggedPtrAssumption DEF TaggedPtrAssumption, Refs
  <2>7. \A b \in d.used : e.word[b] = d.word[b]
    BY <1>4
  <2>8. MemSound(e) /\ Keeps(d, e)
    BY <1>1, <1>4, <2>1, <2>5, <2>6, <2>7, CountedChange
  <2> QED
    BY <1>1, <1>2, <2>8, KeepsTransitive
<1> QED
  BY <1>5, <1>6

\* The first counted_ref turns an empty list into a counter.
LEMMA CreateCountedSound ==
  ASSUME NEW s, MemSound(s), NEW r \in Counted, s.ptr[r] = NULL, NEW a \in s.used,
         CountedAllowed(s, a)
  PROVE  MemSound(CreateCounted(s, r, a)) /\ Keeps(s, CreateCounted(s, r, a))
<1>1. CASE CounterMode(s.word[a])
  BY <1>1, PointCountedSound DEF CreateCounted
<1>2. CASE ~CounterMode(s.word[a])
  <2> DEFINE e == [s EXCEPT !.word[a] = Count(1, FALSE), !.ptr[r] = a]
  <2>0. r \in Refs /\ r \notin Linked /\ s \in MemType /\ a \in Allocs /\ NULL \notin Linked
    BY MemFields, TaggedPtrAssumption DEF MemSound, TaggedPtrAssumption, Refs
  <2>1. CreateCounted(s, r, a) = e
    BY <1>2 DEF CreateCounted
  <2>2. Pointing(s, a) = {}
    <3>1. Pointing(s, a) \subseteq Linked /\ Chained(ListOf(s, a), Pointing(s, a))
      BY <1>2 DEF MemSound, AllocSound
    <3>2. ListOf(s, a).head = NULL
      BY <1>2 DEF CountedAllowed, ListOf
    <3> QED
      BY <2>0, <3>1, <3>2, HeadOfMembers
  <2>3. /\ e.used = s.used /\ e.id = s.id /\ e.prev = s.prev /\ e.next = s.next
        /\ e.word = [s.word EXCEPT ![a] = Count(1, FALSE)]
        /\ e.ptr = [s.ptr EXCEPT ![r] = a]
    BY <2>0 DEF MemType
  <2>4. Cardinality({r}) = 1 /\ 1 \in 0 .. Cardinality(Counted)
    <3>1. Cardinality({r}) = 1
      BY FS_Singleton
    <3>2. {r} \in SUBSET Counted
      OBVIOUS
    <3> QED
      BY <3>1, <3>2, CountedFinite
  <2>5. e \in MemType
    <3>1. Count(1, FALSE) \in Words
      <4>1. FALSE \in BOOLEAN
        OBVIOUS
      <4> QED
        BY <2>4, <4>1, CountFacts, Zenon
    <3> QED
      BY <2>0, <2>3, <3>1 DEF MemType
  <2> HIDE DEF e
  <2>6. Pointing(e, a) = {r}
    BY <2>0, <2>2, <2>3, MemFields DEF Pointing
  <2>7. e.word[a] = Count(1, FALSE)
    BY <2>0, <2>3, MemFields
  <2>8. CounterMode(e.word[a]) /\ e.word[a].n = 1 /\ ~Tombstone(e.word[a])
    BY <2>7, CountFacts, Zenon
  <2>9. AllocSound(e, a)
    BY <2>4, <2>6, <2>8 DEF AllocSound
  <2>10. /\ \A q \in Refs : e.ptr[q] = s.ptr[q] \/ (e.ptr[q] \in {a, NULL} /\ s.ptr[q] \in {a, NULL})
         /\ \A q \in Linked : e.ptr[q] = s.ptr[q]
         /\ \A b \in s.used \ {a} : e.word[b] = s.word[b]
    BY <2>0, <2>3, MemFields DEF Refs
  <2>11. ~Tombstone(s.word[a])
    BY <1>2 DEF Tombstone
  <2>12. MemSound(e) /\ Keeps(s, e)
    BY <2>3, <2>5, <2>8, <2>9, <2>10, <2>11, CountedChange
  <2> QED
    BY <2>1, <2>12
<1> QED
  BY <1>1, <1>2

(***************************************************************************)
(* linked_ref                                                              *)
(***************************************************************************)

\* No record of a list is its own neighbour.
LEMMA NotItsOwn ==
  ASSUME NEW l, NEW S, Chained(l, S), NEW r \in S, NULL \notin S
  PROVE  l.next[r] # r /\ l.prev[r] # r
<1>1. {r} \in SUBSET S /\ {r} # {}
  OBVIOUS
<1>2. PICK q \in {r} : l.prev[q] \notin {r}
  BY <1>1, Zenon DEF Chained, Acyclic
<1> QED
  BY <1>2 DEF Chained

\* A record takes the place of another one.
LEMMA ChainedReplace ==
  ASSUME NEW l, NEW l2, NEW S, NEW o \in S, NEW r, r \notin S, r # NULL, NULL \notin S,
         Chained(l, S),
         l2.head = IF l.head = o THEN r ELSE l.head,
         l2.next[r] = l.next[o],
         l2.prev[r] = l.prev[o],
         \A q \in S \ {o} :
           /\ l2.next[q] = IF q = l.prev[o] THEN r ELSE l.next[q]
           /\ l2.prev[q] = IF q = l.next[o] THEN r ELSE l.prev[q]
  PROVE  Chained(l2, (S \ {o}) \cup {r})
<1> DEFINE S2 == (S \ {o}) \cup {r}
<1>0. l.next[o] # o /\ l.prev[o] # o
  BY NotItsOwn
<1>1. l2.head # NULL => l2.head \in S2 /\ l2.prev[l2.head] = NULL
  BY <1>0 DEF Chained
<1>2. ASSUME NEW q \in S2
      PROVE  /\ l2.next[q] # NULL => l2.next[q] \in S2 /\ l2.prev[l2.next[q]] = q
             /\ l2.prev[q] # NULL => l2.prev[q] \in S2 /\ l2.next[l2.prev[q]] = q
             /\ l2.prev[q] = NULL => q = l2.head
  <2>1. CASE q = r
    BY <1>0, <2>1 DEF Chained
  <2>2. CASE q \in S \ {o}
    <3>1. l2.next[q] # NULL => l2.next[q] \in S2 /\ l2.prev[l2.next[q]] = q
      BY <1>0, <2>2 DEF Chained
    <3>2. l2.prev[q] # NULL => l2.prev[q] \in S2 /\ l2.next[l2.prev[q]] = q
      BY <1>0, <2>2 DEF Chained
    <3>3. l2.prev[q] = NULL => q = l2.head
      BY <1>0, <2>2 DEF Chained
    <3> QED
      BY <3>1, <3>2, <3>3
  <2> QED
    BY <2>1, <2>2
<1>3. ASSUME NEW T \in SUBSET S2, T # {} PROVE \E q \in T : l2.prev[q] \notin T
  <2>1. CASE r \notin T
    <3>1. T \in SUBSET S
      BY <2>1
    <3>2. PICK q \in T : l.prev[q] \notin T
      BY <1>3, <3>1, Zenon DEF Chained, Acyclic
    <3> QED
      BY <2>1, <3>1, <3>2
  <2>2. CASE r \in T
    <3> DEFINE U == (T \ {r}) \cup {o}
    <3>1. U \in SUBSET S /\ U # {}
      BY <2>2
    <3>2. PICK q \in U : l.prev[q] \notin U
      BY <3>1, Zenon DEF Chained, Acyclic
    <3>3. CASE q = o
      <4>1. l2.prev[r] \notin T
        BY <3>2, <3>3 DEF Chained
      <4> QED
        BY <2>2, <4>1
    <3>4. CASE q # o
      <4>1. q \in T /\ q # l.next[o]
        BY <3>2, <3>4 DEF Chained
      <4>2. l2.prev[q] = l.prev[q] /\ l.prev[q] \notin T
        BY <3>1, <3>2, <3>4, <4>1 DEF Chained
      <4> QED
        BY <4>1, <4>2
    <3> QED
      BY <3>3, <3>4
  <2> QED
    BY <2>1, <2>2
<1> QED
  BY <1>1, <1>2, <1>3 DEF Chained, Acyclic

\* A memory in which only one allocation and the references to it changed.
LEMMA LinkedChange ==
  ASSUME NEW s, MemSound(s), NEW s2 \in MemType, NEW a \in s.used,
         s2.used = s.used, s2.id = s.id,
         \A b \in s.used \ {a} : s2.word[b] = s.word[b],
         \A q \in Refs : s2.ptr[q] = s.ptr[q] \/ (s2.ptr[q] \in {a, NULL} /\ s.ptr[q] \in {a, NULL}),
         \A q \in Linked : s.ptr[q] # a /\ s2.ptr[q] # a =>
                             s2.prev[q] = s.prev[q] /\ s2.next[q] = s.next[q],
         \A q \in Linked : s.ptr[q] = a /\ s2.ptr[q] = NULL => s2.prev[q] = NULL /\ s2.next[q] = NULL,
         AllocSound(s2, a), Tombstone(s2.word[a]) <=> Tombstone(s.word[a])
  PROVE  MemSound(s2) /\ Keeps(s, s2)
<1>0. NULL \notin Allocs /\ s.used \subseteq Allocs
  BY MemFields, TaggedPtrAssumption DEF MemSound, TaggedPtrAssumption
<1>1. ASSUME NEW b \in s.used \ {a} PROVE AllocSound(s2, b)
  <2>1. Pointing(s2, b) = Pointing(s, b)
    BY <1>0, <1>1 DEF Pointing
  <2>2. \A q \in Linked : q \in Pointing(s, b) => s2.prev[q] = s.prev[q] /\ s2.next[q] = s.next[q]
    BY <1>1, <2>1 DEF Pointing
  <2> QED
    BY <1>1, <2>1, <2>2, AllocFrame DEF MemSound
<1>2. \A q \in Refs : s2.ptr[q] \in s2.used \cup {NULL}
  BY DEF MemSound
<1>3. \A q \in Linked : s2.ptr[q] = NULL => s2.prev[q] = NULL /\ s2.next[q] = NULL
  BY <1>0 DEF MemSound, Refs
<1>4. Keeps(s, s2)
  BY DEF Keeps
<1> QED
  BY <1>1, <1>2, <1>3, <1>4 DEF MemSound

\* What is known of a linked_ref by the list it is in.
LEMMA LinkedFacts ==
  ASSUME NEW s, MemSound(s), NEW r \in Linked
  PROVE  /\ s \in MemType /\ r \in Refs /\ r \notin Counted /\ NULL \notin Linked /\ NULL \notin Allocs
         /\ s.ptr[r] = NULL => s.prev[r] = NULL /\ s.next[r] = NULL
         /\ s.ptr[r] # NULL =>
              /\ s.ptr[r] \in s.used /\ s.ptr[r] \in Allocs
              /\ r \in Pointing(s, s.ptr[r]) /\ Pointing(s, s.ptr[r]) \subseteq Linked
              /\ ~CounterMode(s.word[s.ptr[r]])
              /\ Chained(ListOf(s, s.ptr[r]), Pointing(s, s.ptr[r]))
              /\ s.prev[r] \in Pointing(s, s.ptr[r]) \cup {NULL}
              /\ s.next[r] \in Pointing(s, s.ptr[r]) \cup {NULL}
              /\ s.prev[r] = NULL <=> s.word[s.ptr[r]].first = r
<1>1. /\ s \in MemType /\ r \in Refs /\ r \notin Counted /\ NULL \notin Linked /\ NULL \notin Allocs
      /\ s.ptr[r] = NULL => s.prev[r] = NULL /\ s.next[r] = NULL
  BY TaggedPtrAssumption DEF MemSound, TaggedPtrAssumption, Refs
<1>2. ASSUME s.ptr[r] # NULL
      PROVE  /\ s.ptr[r] \in s.used /\ s.ptr[r] \in Allocs
             /\ r \in Pointing(s, s.ptr[r]) /\ Pointing(s, s.ptr[r]) \subseteq Linked
             /\ ~CounterMode(s.word[s.ptr[r]])
             /\ Chained(ListOf(s, s.ptr[r]), Pointing(s, s.ptr[r]))
  BY <1>1, <1>2, KindOfWord DEF MemSound, AllocSound
<1>3. ASSUME s.ptr[r] # NULL
      PROVE  /\ s.prev[r] \in Pointing(s, s.ptr[r]) \cup {NULL}
             /\ s.next[r] \in Pointing(s, s.ptr[r]) \cup {NULL}
             /\ s.prev[r] = NULL <=> s.word[s.ptr[r]].first = r
  BY <1>1, <1>2, <1>3 DEF Chained, ListOf
<1> QED
  BY <1>1, <1>2, <1>3

\* r leaves its list.
LEMMA DropLinkedSound ==
  ASSUME NEW s, MemSound(s), NEW r \in Linked
  PROVE  /\ MemSound(DropLinked(s, r))
         /\ DropLinked(s, r).ptr[r] = NULL
         /\ Keeps(s, DropLinked(s, r))
<1> DEFINE s2 == DropLinked(s, r)
           a  == s.ptr[r]
           p  == s.prev[r]
           n  == s.next[r]
           P  == Pointing(s, a)
<1>1. /\ s \in MemType /\ r \in Refs /\ r \notin Counted /\ NULL \notin Linked /\ NULL \notin Allocs
      /\ p \in Linked \cup {NULL} /\ n \in Linked \cup {NULL}
  BY LinkedFacts, MemFields
<1>2. /\ s2.used = s.used /\ s2.id = s.id
      /\ s2.ptr = [s.ptr EXCEPT ![r] = NULL]
      /\ s2.prev = [Store(s.prev, n, p) EXCEPT ![r] = NULL]
      /\ s2.next = [Store(s.next, p, n) EXCEPT ![r] = NULL]
      /\ s2.word = IF p = NULL /\ a # NULL THEN [s.word EXCEPT ![a] = Chain(n)] ELSE s.word
  BY <1>1 DEF DropLinked, SetFirst, MemType
<1>3. /\ Store(s.prev, n, p) \in [Linked -> Linked \cup {NULL}]
      /\ Store(s.next, p, n) \in [Linked -> Linked \cup {NULL}]
      /\ \A q \in Linked : /\ Store(s.prev, n, p)[q] = IF q = n THEN p ELSE s.prev[q]
                           /\ Store(s.next, p, n)[q] = IF q = p THEN n ELSE s.next[q]
  BY <1>1, MemFields DEF Store
<1>4. s2 \in MemType
  <2>1. Chain(n) \in Words
    BY <1>1, ChainFacts
  <2> QED
    BY <1>1, <1>2, <1>3, <2>1 DEF MemType, DropLinked, SetFirst
<1> HIDE DEF s2
<1>5. /\ s2.ptr[r] = NULL /\ s2.prev[r] = NULL /\ s2.next[r] = NULL
      /\ \A q \in Refs \ {r} : s2.ptr[q] = s.ptr[q]
      /\ \A q \in Linked \ {r} : /\ s2.prev[q] = IF q = n THEN p ELSE s.prev[q]
                                 /\ s2.next[q] = IF q = p THEN n ELSE s.next[q]
  BY <1>1, <1>2, <1>3, MemFields
<1>6. CASE a = NULL
  <2>1. p = NULL /\ n = NULL
    BY <1>6, LinkedFacts
  <2>2. s2.word = s.word
    BY <1>2, <1>6
  <2>3. /\ \A q \in Refs : s2.ptr[q] = s.ptr[q]
        /\ \A q \in Linked : s2.prev[q] = s.prev[q] /\ s2.next[q] = s.next[q]
    BY <1>1, <1>5, <1>6, <2>1
  <2> QED
    BY <1>2, <1>4, <1>5, <2>2, <2>3, SameSound DEF s2
<1>7. CASE a # NULL
  <2>1. /\ a \in s.used /\ a \in Allocs /\ r \in P /\ P \subseteq Linked
        /\ ~CounterMode(s.word[a]) /\ Chained(ListOf(s, a), P)
        /\ p \in P \cup {NULL} /\ n \in P \cup {NULL}
        /\ p = NULL <=> s.word[a].first = r
    BY <1>7, LinkedFacts
  <2>2. Pointing(s2, a) = P \ {r}
    BY <1>1, <1>5, <2>1 DEF Pointing
  <2>3. /\ ~CounterMode(s2.word[a]) /\ ~Tombstone(s2.word[a]) /\ ~Tombstone(s.word[a])
        /\ s2.word[a].first = IF s.word[a].first = r THEN n ELSE s.word[a].first
        /\ \A b \in s.used \ {a} : s2.word[b] = s.word[b]
    BY <1>1, <1>2, <2>1, ChainFacts, MemFields DEF Tombstone
  <2>4. Chained(ListOf(s2, a), P \ {r})
    <3> DEFINE l  == ListOf(s, a)
               l2 == ListOf(s2, a)
    <3>1. /\ l.head = s.word[a].first /\ l.next = s.next /\ l.prev = s.prev
          /\ l2.head = s2.word[a].first /\ l2.next = s2.next /\ l2.prev = s2.prev
      BY DEF ListOf
    <3>2. l2.head = IF l.head = r THEN l.next[r] ELSE l.head
      BY <2>3, <3>1
    <3>3. \A q \in P \ {r} : /\ l2.next[q] = IF q = l.prev[r] THEN l.next[r] ELSE l.next[q]
                             /\ l2.prev[q] = IF q = l.next[r] THEN l.prev[r] ELSE l.prev[q]
      BY <1>5, <2>1, <3>1
    <3>4. NULL \notin P
      BY <1>1, <2>1
    <3> HIDE DEF l, l2
    <3>5. Chained(l2, P \ {r})
      BY <2>1, <3>2, <3>3, <3>4, ChainedRemove DEF l
    <3> QED
      BY <3>5 DEF l2
  <2>5. AllocSound(s2, a)
    BY <2>1, <2>2, <2>3, <2>4 DEF AllocSound
  <2>6. \A q \in Refs : s2.ptr[q] = s.ptr[q] \/ (s2.ptr[q] \in {a, NULL} /\ s.ptr[q] \in {a, NULL})
    BY <1>5
  <2>7. \A q \in Linked : s.ptr[q] # a /\ s2.ptr[q] # a =>
                            s2.prev[q] = s.prev[q] /\ s2.next[q] = s.next[q]
    BY <1>1, <1>5, <2>1 DEF Pointing
  <2>8. \A q \in Linked : s.ptr[q] = a /\ s2.ptr[q] = NULL => s2.prev[q] = NULL /\ s2.next[q] = NULL
    BY <1>1, <1>5, <1>7 DEF Refs
  <2>9. MemSound(s2) /\ Keeps(s, s2)
    BY <1>2, <1>4, <2>1, <2>3, <2>5, <2>6, <2>7, <2>8, LinkedChange
  <2> QED
    BY <1>5, <2>9 DEF s2
<1> QED
  BY <1>6, <1>7

\* r becomes the head of the list of a.
LEMMA PointLinkedSound ==
  ASSUME NEW s, MemSound(s), NEW r \in Linked, s.ptr[r] = NULL,
         NEW a \in s.used, ~CounterMode(s.word[a])
  PROVE  MemSound(PointLinked(s, r, a)) /\ Keeps(s, PointLinked(s, r, a))
<1> DEFINE s2 == PointLinked(s, r, a)
           f  == s.word[a].first
           P  == Pointing(s, a)
<1>1. /\ s \in MemType /\ r \in Refs /\ r \notin Counted /\ NULL \notin Linked /\ NULL \notin Allocs
      /\ s.prev[r] = NULL /\ a \in Allocs /\ a # NULL /\ f \in Linked \cup {NULL}
  BY LinkedFacts, MemFields, WordCases DEF ChainWords
<1>2. P \subseteq Linked /\ Chained(ListOf(s, a), P) /\ r \notin P /\ f \in P \cup {NULL}
  BY <1>1 DEF MemSound, AllocSound, Pointing, Chained, ListOf
<1>3. /\ s2.used = s.used /\ s2.id = s.id
      /\ s2.ptr = [s.ptr EXCEPT ![r] = a]
      /\ s2.next = [s.next EXCEPT ![r] = f]
      /\ s2.prev = Store(s.prev, f, r)
      /\ s2.word = [s.word EXCEPT ![a] = Chain(r)]
  BY <1>1 DEF PointLinked, MemType
<1>4. /\ Store(s.prev, f, r) \in [Linked -> Linked \cup {NULL}]
      /\ \A q \in Linked : Store(s.prev, f, r)[q] = IF q = f THEN r ELSE s.prev[q]
  BY <1>1, MemFields DEF Store
<1>5. s2 \in MemType
  <2>1. Chain(r) \in Words
    BY ChainFacts
  <2> QED
    BY <1>1, <1>3, <1>4, <2>1 DEF MemType, PointLinked
<1> HIDE DEF s2
<1>6. /\ s2.ptr[r] = a /\ \A q \in Refs \ {r} : s2.ptr[q] = s.ptr[q]
      /\ s2.next[r] = f /\ \A q \in Linked \ {r} : s2.next[q] = s.next[q]
      /\ \A q \in Linked : s2.prev[q] = IF q = f THEN r ELSE s.prev[q]
  BY <1>1, <1>3, <1>4, MemFields
<1>7. Pointing(s2, a) = P \cup {r}
  BY <1>1, <1>6 DEF Pointing
<1>8. /\ ~CounterMode(s2.word[a]) /\ ~Tombstone(s2.word[a]) /\ ~Tombstone(s.word[a])
      /\ s2.word[a].first = r
      /\ \A b \in s.used \ {a} : s2.word[b] = s.word[b]
  BY <1>1, <1>3, ChainFacts, MemFields DEF Tombstone
<1>9. Chained(ListOf(s2, a), P \cup {r})
  <2> DEFINE l  == ListOf(s, a)
             l2 == ListOf(s2, a)
  <2>1. /\ l.head = f /\ l.next = s.next /\ l.prev = s.prev
        /\ l2.head = r /\ l2.next = s2.next /\ l2.prev = s2.prev
    BY <1>8 DEF ListOf
  <2>2. l2.next[r] = l.head /\ l2.prev[r] = NULL
    BY <1>1, <1>2, <1>6, <2>1
  <2>3. \A q \in P : l2.next[q] = l.next[q] /\ l2.prev[q] = IF q = l.head THEN r ELSE l.prev[q]
    BY <1>2, <1>6, <2>1
  <2>4. NULL \notin P /\ r # NULL
    BY <1>1, <1>2
  <2> HIDE DEF l, l2
  <2>5. Chained(l2, P \cup {r})
    BY <1>2, <2>1, <2>2, <2>3, <2>4, ChainedPush DEF l
  <2> QED
    BY <2>5 DEF l2
<1>10. AllocSound(s2, a)
  BY <1>2, <1>7, <1>8, <1>9 DEF AllocSound
<1>11. \A q \in Refs : s2.ptr[q] = s.ptr[q] \/ (s2.ptr[q] \in {a, NULL} /\ s.ptr[q] \in {a, NULL})
  BY <1>6
<1>12. \A q \in Linked : s.ptr[q] # a /\ s2.ptr[q] # a =>
                           s2.prev[q] = s.prev[q] /\ s2.next[q] = s.next[q]
  BY <1>1, <1>2, <1>6 DEF Pointing
<1>13. \A q \in Linked : s.ptr[q] = a => s2.ptr[q] # NULL
  BY <1>1, <1>6 DEF Refs
<1>14. MemSound(s2) /\ Keeps(s, s2)
  BY <1>3, <1>5, <1>8, <1>10, <1>11, <1>12, <1>13, LinkedChange
<1> QED
  BY <1>14 DEF s2

LEMMA CopyLinkedSound ==
  ASSUME NEW s, MemSound(s), NEW r \in Linked, NEW o \in Linked
  PROVE  MemSound(CopyLinked(s, r, o)) /\ Keeps(s, CopyLinked(s, r, o))
<1> DEFINE d == DropLinked(s, r)
           a == d.ptr[o]
<1>1. MemSound(d) /\ d.ptr[r] = NULL /\ Keeps(s, d)
  BY DropLinkedSound
<1>2. CopyLinked(s, r, o) = PointLinked(d, r, a)
  BY Zenon DEF CopyLinked
<1> HIDE DEF d
<1>3. CASE a = NULL
  BY <1>1, <1>2, <1>3 DEF PointLinked
<1>4. CASE a # NULL
  <2>1. a \in d.used /\ ~CounterMode(d.word[a])
    BY <1>1, <1>4, LinkedFacts
  <2> QED
    BY <1>1, <1>2, <2>1, PointLinkedSound, KeepsTransitive
<1> QED
  BY <1>3, <1>4

\* The target of a move takes the place of the source in its list.
LEMMA MoveLinkedSound ==
  ASSUME NEW s, MemSound(s), NEW r \in Linked, NEW o \in Linked, r # o
  PROVE  MemSound(MoveLinked(s, r, o)) /\ Keeps(s, MoveLinked(s, r, o))
<1> DEFINE d  == DropLinked(s, r)
           e  == MoveLinked(s, r, o)
           a  == d.ptr[o]
           p  == d.prev[o]
           n  == d.next[o]
           P  == Pointing(d, a)
           prevs == [d.prev EXCEPT ![r] = p, ![o] = NULL]
           nexts == [d.next EXCEPT ![r] = n, ![o] = NULL]
<1>1. MemSound(d) /\ d.ptr[r] = NULL /\ Keeps(s, d)
  BY DropLinkedSound
<1>2. e = LET moved == [d EXCEPT !.ptr[r] = d.ptr[o], !.ptr[o] = NULL,
                                 !.prev = Store([@ EXCEPT ![r] = d.prev[o], ![o] = NULL], d.next[o], r),
                                 !.next = Store([@ EXCEPT ![r] = d.next[o], ![o] = NULL], d.prev[o], r)]
          IN  IF d.prev[o] = NULL THEN SetFirst(moved, d.ptr[o], r) ELSE moved
  BY Zenon DEF MoveLinked
<1> HIDE DEF d, e
<1>3. /\ d \in MemType /\ r \in Refs /\ o \in Refs /\ NULL \notin Linked /\ NULL \notin Allocs
      /\ r \notin Counted /\ o \notin Counted
      /\ d.prev[r] = NULL /\ d.next[r] = NULL
      /\ p \in Linked \cup {NULL} /\ n \in Linked \cup {NULL}
  BY <1>1, LinkedFacts, MemFields
<1>4. /\ e.used = d.used /\ e.id = d.id
      /\ e.ptr = [d.ptr EXCEPT ![r] = a, ![o] = NULL]
      /\ e.prev = Store(prevs, n, r)
      /\ e.next = Store(nexts, p, r)
      /\ e.word = IF p = NULL /\ a # NULL THEN [d.word EXCEPT ![a] = Chain(r)] ELSE d.word
  BY <1>2, <1>3 DEF SetFirst, MemType
<1>5. /\ prevs \in [Linked -> Linked \cup {NULL}] /\ nexts \in [Linked -> Linked \cup {NULL}]
      /\ prevs[r] = p /\ prevs[o] = NULL /\ nexts[r] = n /\ nexts[o] = NULL
      /\ \A q \in Linked \ {r, o} : prevs[q] = d.prev[q] /\ nexts[q] = d.next[q]
  BY <1>3, MemFields
<1>6. /\ Store(prevs, n, r) \in [Linked -> Linked \cup {NULL}]
      /\ Store(nexts, p, r) \in [Linked -> Linked \cup {NULL}]
      /\ \A q \in Linked : /\ Store(prevs, n, r)[q] = IF q = n THEN r ELSE prevs[q]
                           /\ Store(nexts, p, r)[q] = IF q = p THEN r ELSE nexts[q]
  <2> HIDE DEF prevs, nexts
  <2> QED
    BY <1>3, <1>5 DEF Store
<1>7. e \in MemType
  <2>1. Chain(r) \in Words
    BY ChainFacts
  <2> HIDE DEF prevs, nexts
  <2>2. e.word \in [Allocs -> Words]
    BY <1>3, <1>4, <2>1, MemFields
  <2>3. e.ptr \in [Refs -> Allocs \cup {NULL}]
    BY <1>3, <1>4, MemFields
  <2>4. e = [used |-> e.used, id |-> e.id, word |-> e.word, ptr |-> e.ptr, prev |-> e.prev, next |-> e.next]
    BY <1>2, <1>3 DEF SetFirst, MemType
  <2>5. e.prev \in [Linked -> Linked \cup {NULL}] /\ e.next \in [Linked -> Linked \cup {NULL}]
    BY <1>4, <1>6
  <2>6. e.used \in SUBSET Allocs /\ e.id \in [Allocs -> 0 .. MaxId]
    BY <1>3, <1>4, MemFields
  <2> QED
    BY <2>2, <2>3, <2>4, <2>5, <2>6 DEF MemType
<1>8. CASE a = NULL
  <2>1. p = NULL /\ n = NULL
    BY <1>1, <1>8, LinkedFacts
  <2>2. \A q \in Linked : e.prev[q] = prevs[q] /\ e.next[q] = nexts[q]
    BY <1>3, <1>4, <1>6, <2>1
  <2>3. \A q \in Linked : e.prev[q] = d.prev[q] /\ e.next[q] = d.next[q]
    BY <1>3, <1>5, <2>1, <2>2
  <2>4. \A q \in Refs : e.ptr[q] = d.ptr[q]
    BY <1>1, <1>3, <1>4, <1>8, MemFields
  <2>5. e.word = d.word
    BY <1>4, <1>8
  <2>6. MemSound(e) /\ Keeps(d, e)
    BY <1>1, <1>4, <1>7, <2>3, <2>4, <2>5, SameSound
  <2> QED
    BY <1>1, <2>6, KeepsTransitive DEF e
<1>9. CASE a # NULL
  <2>1. /\ a \in d.used /\ a \in Allocs /\ o \in P /\ P \subseteq Linked /\ r \notin P
        /\ ~CounterMode(d.word[a]) /\ Chained(ListOf(d, a), P)
        /\ p \in P \cup {NULL} /\ n \in P \cup {NULL}
        /\ p = NULL <=> d.word[a].first = o
    BY <1>1, <1>9, LinkedFacts DEF Pointing
  <2>2. n # o /\ p # o
    <3>1. NULL \notin P
      BY <1>3, <2>1
    <3> QED
      BY <2>1, <3>1, NotItsOwn DEF ListOf
  <2>3. /\ e.ptr[r] = a /\ e.ptr[o] = NULL /\ \A q \in Refs \ {r, o} : e.ptr[q] = d.ptr[q]
    BY <1>3, <1>4, MemFields
  <2>4. /\ e.prev[r] = p /\ e.next[r] = n /\ e.prev[o] = NULL /\ e.next[o] = NULL
        /\ \A q \in Linked \ {r, o} : /\ e.prev[q] = IF q = n THEN r ELSE d.prev[q]
                                      /\ e.next[q] = IF q = p THEN r ELSE d.next[q]
    <3> HIDE DEF prevs, nexts
    <3>1. n # r /\ p # r
      BY <1>3, <2>1
    <3>2. \A q \in Linked : /\ e.prev[q] = IF q = n THEN r ELSE prevs[q]
                            /\ e.next[q] = IF q = p THEN r ELSE nexts[q]
      BY <1>4, <1>6
    <3> QED
      BY <1>5, <2>2, <3>1, <3>2
  <2>5. Pointing(e, a) = (P \ {o}) \cup {r}
    BY <1>3, <1>9, <2>1, <2>3 DEF Pointing
  <2>6. /\ ~CounterMode(e.word[a]) /\ ~Tombstone(e.word[a]) /\ ~Tombstone(d.word[a])
        /\ e.word[a].first = IF d.word[a].first = o THEN r ELSE d.word[a].first
        /\ \A b \in d.used \ {a} : e.word[b] = d.word[b]
    BY <1>3, <1>4, <2>1, ChainFacts, MemFields DEF Tombstone
  <2>7. Chained(ListOf(e, a), (P \ {o}) \cup {r})
    <3> DEFINE l  == ListOf(d, a)
               l2 == ListOf(e, a)
    <3>1. /\ l.head = d.word[a].first /\ l.next = d.next /\ l.prev = d.prev
          /\ l2.head = e.word[a].first /\ l2.next = e.next /\ l2.prev = e.prev
      BY DEF ListOf
    <3>2. l2.head = IF l.head = o THEN r ELSE l.head
      BY <2>6, <3>1
    <3>3. l2.next[r] = l.next[o] /\ l2.prev[r] = l.prev[o]
      BY <2>4, <3>1
    <3>4. \A q \in P \ {o} : /\ l2.next[q] = IF q = l.prev[o] THEN r ELSE l.next[q]
                             /\ l2.prev[q] = IF q = l.next[o] THEN r ELSE l.prev[q]
      BY <2>1, <2>4, <3>1
    <3>5. NULL \notin P /\ r # NULL
      BY <1>3, <2>1
    <3> HIDE DEF l, l2
    <3>6. Chained(l2, (P \ {o}) \cup {r})
      BY <2>1, <3>2, <3>3, <3>4, <3>5, ChainedReplace DEF l
    <3> QED
      BY <3>6 DEF l2
  <2>8. AllocSound(e, a)
    BY <2>1, <2>5, <2>6, <2>7 DEF AllocSound
  <2>9. \A q \in Refs : e.ptr[q] = d.ptr[q] \/ (e.ptr[q] \in {a, NULL} /\ d.ptr[q] \in {a, NULL})
    BY <1>1, <2>3
  <2>10. \A q \in Linked : d.ptr[q] # a /\ e.ptr[q] # a =>
                             e.prev[q] = d.prev[q] /\ e.next[q] = d.next[q]
    BY <1>3, <2>1, <2>3, <2>4 DEF Pointing
  <2>11. \A q \in Linked : d.ptr[q] = a /\ e.ptr[q] = NULL => e.prev[q] = NULL /\ e.next[q] = NULL
    BY <1>3, <1>9, <2>3, <2>4 DEF Refs
  <2>12. MemSound(e) /\ Keeps(d, e)
    BY <1>1, <1>4, <1>7, <2>1, <2>6, <2>8, <2>9, <2>10, <2>11, LinkedChange
  <2> QED
    BY <1>1, <2>12, KeepsTransitive DEF e
<1> QED
  BY <1>8, <1>9

\* The first linked_ref turns a counter that is zero into a list.
LEMMA CreateLinkedSound ==
  ASSUME NEW s, MemSound(s), NEW r \in Linked, s.ptr[r] = NULL, NEW a \in s.used,
         LinkedAllowed(s, a)
  PROVE  MemSound(CreateLinked(s, r, a)) /\ Keeps(s, CreateLinked(s, r, a))
<1>0. s \in MemType /\ a \in Allocs /\ a # NULL
  BY MemFields, TaggedPtrAssumption DEF MemSound, TaggedPtrAssumption
<1>1. CASE ~CounterMode(s.word[a])
  BY <1>1, PointLinkedSound DEF CreateLinked
<1>2. CASE CounterMode(s.word[a])
  <2> DEFINE e == SetFirst(s, a, NULL)
  <2>1. CreateLinked(s, r, a) = PointLinked(e, r, a)
    BY <1>2 DEF CreateLinked
  <2>2. Pointing(s, a) = {} /\ ~Tombstone(s.word[a])
    <3>1. s.word[a].n = 0
      BY <1>2 DEF LinkedAllowed
    <3>2. /\ Pointing(s, a) \subseteq Counted
          /\ s.word[a].n = Cardinality(Pointing(s, a))
          /\ s.word[a].tomb => Pointing(s, a) # {}
      BY <1>2 DEF MemSound, AllocSound
    <3>3. Pointing(s, a) = {}
      BY <3>1, <3>2, CountedFinite
    <3> QED
      BY <3>2, <3>3 DEF Tombstone
  <2>3. e.word = [s.word EXCEPT ![a] = Chain(NULL)]
    BY <1>0 DEF SetFirst, MemType
  <2>4. /\ e.used = s.used /\ e.id = s.id /\ e.ptr = s.ptr /\ e.prev = s.prev /\ e.next = s.next
        /\ e \in MemType
    <3>1. Chain(NULL) \in Words
      BY ChainFacts
    <3> QED
      BY <1>0, <3>1 DEF SetFirst, MemType
  <2> HIDE DEF e
  <2>5. /\ ~CounterMode(e.word[a]) /\ ~Tombstone(e.word[a]) /\ e.word[a].first = NULL
        /\ \A b \in s.used \ {a} : e.word[b] = s.word[b]
    BY <1>0, <2>3, ChainFacts, MemFields
  <2>6. Pointing(e, a) = {}
    BY <2>2, <2>4 DEF Pointing
  <2>7. Chained(ListOf(e, a), {})
    BY <2>5 DEF Chained, Acyclic, ListOf
  <2>8. AllocSound(e, a)
    BY <2>5, <2>6, <2>7 DEF AllocSound
  <2>9. MemSound(e) /\ Keeps(s, e)
    <3>1. \A q \in Linked : s.ptr[q] # a
      BY <2>2 DEF Pointing, Refs
    <3> QED
      BY <2>2, <2>4, <2>5, <2>8, <3>1, LinkedChange
  <2> QED
    BY <2>1, <2>4, <2>5, <2>9, PointLinkedSound, KeepsTransitive
<1> QED
  BY <1>1, <1>2

LEMMA DropSound ==
  ASSUME NEW s, MemSound(s), NEW r \in Refs
  PROVE  MemSound(Drop(s, r)) /\ Drop(s, r).ptr[r] = NULL /\ Keeps(s, Drop(s, r))
<1>1. r \in Counted \/ (r \notin Counted /\ r \in Linked)
  BY DEF Refs
<1> QED
  BY <1>1, DropCountedSound, DropLinkedSound DEF Drop

(***************************************************************************)
(* tagged_ptr                                                              *)
(***************************************************************************)

\* The walk through the list of a meets the references to a.
LEMMA WalkMeetsAll ==
  ASSUME NEW s, MemSound(s), NEW a \in s.used, ~CounterMode(s.word[a])
  PROVE  Listed(s, a) = Pointing(s, a)
<1> DEFINE P == Pointing(s, a)
           Closed(S) == {s.word[a].first} \cup {s.next[q] : q \in S} \subseteq S \cup {NULL}
<1>1. P \subseteq Linked /\ Chained(ListOf(s, a), P)
  BY DEF MemSound, AllocSound
<1>2. Closed(P)
  BY <1>1 DEF Chained, ListOf
<1>3. ASSUME NEW S \in SUBSET Linked, Closed(S) PROVE P \subseteq S
  <2> SUFFICES ASSUME P \ S # {} PROVE FALSE
    OBVIOUS
  <2>1. PICK r \in P \ S : s.prev[r] \notin P \ S
    BY <1>1 DEF Chained, Acyclic, ListOf
  <2>2. CASE s.prev[r] = NULL
    <3>1. r = s.word[a].first
      BY <1>1, <2>2 DEF Chained, ListOf
    <3>2. r # NULL
      BY <1>1, TaggedPtrAssumption DEF TaggedPtrAssumption
    <3> QED
      BY <1>3, <3>1, <3>2
  <2>3. CASE s.prev[r] # NULL
    <3>1. s.prev[r] \in S /\ s.next[s.prev[r]] = r
      BY <1>1, <2>1, <2>3 DEF Chained, ListOf
    <3>2. r # NULL
      BY <1>1, TaggedPtrAssumption DEF TaggedPtrAssumption
    <3> QED
      BY <1>3, <3>1, <3>2
  <2> QED
    BY <2>2, <2>3
<1>4. Listed(s, a) = {r \in Linked : \A S \in SUBSET Linked : Closed(S) => r \in S}
  BY DEF Listed
<1> HIDE DEF Closed, P
<1>5. P = {r \in Linked : \A S \in SUBSET Linked : Closed(S) => r \in S}
  BY <1>1, <1>2, <1>3
<1> QED
  BY <1>4, <1>5 DEF P

\* The allocations of A are kept as tombstones or freed; of the others nothing changes.
LEMMA DeallocateSound ==
  ASSUME NEW s, MemSound(s), NEW A \in SUBSET s.used,
         \A a \in A : ~Tombstone(s.word[a])
  PROVE  LET s2 == Deallocate(s, A)
         IN  /\ MemSound(s2)
             /\ s.used \ A \subseteq s2.used /\ s2.used \subseteq s.used
             /\ \A a \in s.used \ A : s2.word[a] = s.word[a] /\ s2.id[a] = s.id[a]
             /\ \A a \in A : a \in s2.used => Tombstone(s2.word[a])
<1> DEFINE s2    == Deallocate(s, A)
           kept  == {a \in A : CounterMode(s.word[a]) /\ s.word[a].n # 0}
           freed == A \ kept
           lists == {a \in A : ~CounterMode(s.word[a])}
           nulls == UNION {Listed(s, a) : a \in lists}
<1>0. /\ s \in MemType /\ NULL \notin Allocs /\ NULL \notin Linked /\ A \subseteq Allocs
      /\ Counted \cap Linked = {} /\ Linked \subseteq Refs /\ s.used \subseteq Allocs
  BY MemFields, TaggedPtrAssumption DEF MemSound, TaggedPtrAssumption, Refs
<1>1. /\ s2.used = s.used \ freed
      /\ s2.id = [a \in Allocs |-> IF a \in freed THEN 0 ELSE s.id[a]]
      /\ s2.word = [a \in Allocs |-> CASE a \in kept  -> [s.word[a] EXCEPT !.tomb = TRUE]
                                       [] a \in freed -> Count(0, FALSE)
                                       [] a \notin A  -> s.word[a]]
      /\ s2.ptr = [r \in Refs |-> IF r \in nulls THEN NULL ELSE s.ptr[r]]
      /\ s2.prev = [r \in Linked |-> IF r \in nulls THEN NULL ELSE s.prev[r]]
      /\ s2.next = [r \in Linked |-> IF r \in nulls THEN NULL ELSE s.next[r]]
      /\ s2 = [used |-> s2.used, id |-> s2.id, word |-> s2.word,
               ptr |-> s2.ptr, prev |-> s2.prev, next |-> s2.next]
  <2> DEFINE newId   == [a \in Allocs |-> IF a \in freed THEN 0 ELSE s.id[a]]
             newWord == [a \in Allocs |-> CASE a \in kept  -> [s.word[a] EXCEPT !.tomb = TRUE]
                                            [] a \in freed -> Count(0, FALSE)
                                            [] a \notin A  -> s.word[a]]
             Nullified(f) == [r \in DOMAIN f |-> IF r \in nulls THEN NULL ELSE f[r]]
  <2>1. s2 = [s EXCEPT !.used = s.used \ freed, !.id = newId, !.word = newWord,
                       !.ptr = Nullified(s.ptr), !.prev = Nullified(s.prev), !.next = Nullified(s.next)]
    BY Zenon DEF Deallocate
  <2>2. DOMAIN s.ptr = Refs /\ DOMAIN s.prev = Linked /\ DOMAIN s.next = Linked
    BY <1>0, MemFields
  <2> HIDE DEF s2, newId, newWord, nulls, kept
  <2>3. /\ s2.used = s.used \ freed /\ s2.id = newId /\ s2.word = newWord
        /\ s2.ptr = Nullified(s.ptr) /\ s2.prev = Nullified(s.prev) /\ s2.next = Nullified(s.next)
    BY <1>0, <2>1 DEF MemType
  <2>4. s2 = [used |-> s2.used, id |-> s2.id, word |-> s2.word,
              ptr |-> s2.ptr, prev |-> s2.prev, next |-> s2.next]
    BY <1>0, <2>1 DEF MemType
  <2> QED
    BY <2>2, <2>3, <2>4 DEF newId, newWord
<1> HIDE DEF s2
<1>2. \A r \in Refs : r \in nulls <=> s.ptr[r] \in lists
  <2>1. \A a \in lists : Listed(s, a) = Pointing(s, a)
    BY WalkMeetsAll
  <2> QED
    BY <2>1 DEF Pointing
<1> HIDE DEF nulls
<1>3. ASSUME NEW a \in kept
      PROVE  /\ CounterMode(s.word[a]) /\ s.word[a].n # 0
             /\ CounterMode(s2.word[a]) /\ s2.word[a].n = s.word[a].n /\ Tombstone(s2.word[a])
             /\ s2.word[a] \in Words
  <2>1. PICK k \in 0 .. Cardinality(Counted), t \in BOOLEAN : s.word[a] = Count(k, t)
    BY <1>0, WordCases, MemFields DEF CountWords
  <2>2. s2.word[a] = Count(k, TRUE)
    <3>1. s2.word[a] = [Count(k, t) EXCEPT !.tomb = TRUE]
      BY <1>0, <1>1, <2>1
    <3>2. \A u : [Count(k, t) EXCEPT !.tomb = u] = Count(k, u)
      BY DEF Count
    <3> QED
      BY <3>1, <3>2, Zenon
  <2>3. /\ CounterMode(Count(k, TRUE)) /\ Count(k, TRUE).n = k
        /\ Tombstone(Count(k, TRUE)) /\ Count(k, TRUE) \in Words
    <3>1. TRUE \in BOOLEAN
      OBVIOUS
    <3> QED
      BY <3>1, CountFacts, Zenon
  <2>4. CounterMode(s2.word[a]) /\ s2.word[a].n = k /\ Tombstone(s2.word[a]) /\ s2.word[a] \in Words
    BY <2>2, <2>3, Zenon
  <2>5. s.word[a].n = k
    BY <2>1, CountFacts
  <2> QED
    BY <2>4, <2>5
<1>4. /\ \A a \in Allocs \ A : s2.word[a] = s.word[a] /\ s2.id[a] = s.id[a]
      /\ \A a \in freed : s2.word[a] = Count(0, FALSE)
  BY <1>0, <1>1
<1>5. s2 \in MemType
  <2>1. s2.word \in [Allocs -> Words]
    <3>1. \A a \in freed : s2.word[a] \in Words
      <4> HIDE DEF freed
      <4> QED
        BY <1>4, NoneCounted, Zenon
    <3>2. \A a \in kept : s2.word[a] \in Words
      <4> HIDE DEF kept
      <4> QED
        BY <1>3
    <3>3. \A a \in Allocs : s2.word[a] \in Words
      BY <1>0, <1>4, <3>1, <3>2, MemFields
    <3>4. s2.word = [a \in Allocs |-> s2.word[a]]
      BY <1>1
    <3> QED
      BY <3>3, <3>4
  <2>2. s2.id \in [Allocs -> 0 .. MaxId]
    BY <1>0, <1>1, MemFields, TaggedPtrAssumption DEF TaggedPtrAssumption
  <2>3. /\ s2.ptr \in [Refs -> Allocs \cup {NULL}]
        /\ s2.prev \in [Linked -> Linked \cup {NULL}]
        /\ s2.next \in [Linked -> Linked \cup {NULL}]
    BY <1>0, <1>1, MemFields
  <2>4. s2.used \in SUBSET Allocs
    BY <1>0, <1>1
  <2> QED
    BY <1>1, <2>1, <2>2, <2>3, <2>4 DEF MemType
<1>6. \A a \in s2.used : Pointing(s2, a) = Pointing(s, a) /\ a \in Allocs /\ a \notin lists
  BY <1>0, <1>1, <1>2 DEF Pointing
<1>7. \A r \in Refs : s2.ptr[r] \in s2.used \cup {NULL}
  <2> SUFFICES ASSUME NEW r \in Refs, s.ptr[r] \notin lists, s.ptr[r] # NULL
               PROVE  s.ptr[r] \notin freed
    BY <1>1, <1>2 DEF MemSound
  <2> SUFFICES ASSUME s.ptr[r] \in freed PROVE FALSE
    OBVIOUS
  <2>1. CounterMode(s.word[s.ptr[r]]) /\ s.word[s.ptr[r]].n = 0 /\ r \in Pointing(s, s.ptr[r])
    BY DEF Pointing
  <2>2. /\ Pointing(s, s.ptr[r]) \subseteq Counted
        /\ Cardinality(Pointing(s, s.ptr[r])) = 0
    BY <2>1 DEF MemSound, AllocSound
  <2> QED
    BY <2>1, <2>2, CountedFinite
<1>8. \A r \in Linked : s2.ptr[r] = NULL => s2.prev[r] = NULL /\ s2.next[r] = NULL
  BY <1>0, <1>1 DEF MemSound
<1>9. ASSUME NEW a \in s2.used \ A PROVE AllocSound(s2, a)
  <2>1. a \in s.used /\ s2.word[a] = s.word[a]
    BY <1>1, <1>4, <1>6, <1>9
  <2>2. \A r \in Linked : r \in Pointing(s, a) => s2.next[r] = s.next[r] /\ s2.prev[r] = s.prev[r]
    BY <1>0, <1>1, <1>2, <1>6, <1>9 DEF Pointing
  <2> QED
    BY <1>6, <1>9, <2>1, <2>2, AllocFrame DEF MemSound
<1>10. ASSUME NEW a \in s2.used, a \in A PROVE AllocSound(s2, a) /\ Tombstone(s2.word[a])
  <2>1. a \in kept /\ a \in s.used
    BY <1>1, <1>10
  <2>2. /\ CounterMode(s.word[a]) /\ s.word[a].n # 0
        /\ CounterMode(s2.word[a]) /\ s2.word[a].n = s.word[a].n /\ Tombstone(s2.word[a])
    BY <1>3, <2>1, Zenon
  <2>3. Pointing(s, a) \subseteq Counted /\ s.word[a].n = Cardinality(Pointing(s, a))
    BY <2>1, <2>2 DEF MemSound, AllocSound
  <2>4. Pointing(s, a) # {}
    BY <2>2, <2>3, FS_EmptySet
  <2> QED
    BY <1>6, <1>10, <2>2, <2>3, <2>4 DEF AllocSound
<1>11. MemSound(s2)
  BY <1>5, <1>7, <1>8, <1>9, <1>10 DEF MemSound
<1>12. /\ s.used \ A \subseteq s2.used /\ s2.used \subseteq s.used
       /\ \A a \in s.used \ A : s2.word[a] = s.word[a] /\ s2.id[a] = s.id[a]
  BY <1>0, <1>1, <1>4
<1> QED
  BY <1>10, <1>11, <1>12 DEF s2

(***************************************************************************)
(* The steps                                                               *)
(***************************************************************************)

\* Storage that no reference points to gets a word that counts none.
LEMMA AllocateSound ==
  ASSUME NEW s, MemSound(s), NEW a \in Allocs \ s.used, NEW s2, s2 \in MemType,
         s2.used = s.used \cup {a}, s2.ptr = s.ptr, s2.prev = s.prev, s2.next = s.next,
         CounterMode(s2.word[a]), s2.word[a].n = 0, ~Tombstone(s2.word[a]),
         \A b \in s.used : s2.word[b] = s.word[b]
  PROVE  MemSound(s2)
<1>0. s \in MemType /\ NULL \notin Allocs /\ s.used \subseteq Allocs
  BY MemFields, TaggedPtrAssumption DEF MemSound, TaggedPtrAssumption
<1>1. ASSUME NEW b \in s.used PROVE AllocSound(s2, b)
  <2>1. Pointing(s2, b) = Pointing(s, b)
    BY DEF Pointing
  <2>2. AllocSound(s, b) /\ s2.word[b] = s.word[b] /\ s2.next = s.next /\ s2.prev = s.prev
    BY DEF MemSound
  <2> QED
    BY <2>1, <2>2, AllocFrame
<1>2. AllocSound(s2, a)
  <2>1. Pointing(s2, a) = {}
    BY <1>0 DEF Pointing, MemSound
  <2> QED
    BY <2>1, FS_EmptySet DEF AllocSound, Tombstone
<1> QED
  BY <1>1, <1>2 DEF MemSound

LEMMA RefsInvInit == RefsInit => RefsInv
<1> SUFFICES ASSUME RefsInit PROVE RefsInv
  OBVIOUS
<1>0. Cardinality(Containers) \in Nat /\ Cardinality(Containers) <= MaxId + 1 /\ MaxId \in Nat
  BY TaggedPtrAssumption, FS_CardinalityType DEF TaggedPtrAssumption
<1>2. mem \in MemType
  <2> DEFINE w == Count(0, FALSE)
  <2>1. mem = [used |-> {}, id |-> [a \in Allocs |-> 0], word |-> [a \in Allocs |-> w],
               ptr  |-> [r \in Refs |-> NULL],
               prev |-> [r \in Linked |-> NULL], next |-> [r \in Linked |-> NULL]]
    BY Zenon DEF RefsInit
  <2>2. w \in Words
    BY NoneCounted
  <2> HIDE DEF w
  <2> QED
    BY <1>0, <2>1, <2>2 DEF MemType
<1>3. MemSound(mem)
  BY <1>2 DEF MemSound, RefsInit, Refs
<1>4. held \in [Containers -> SUBSET Allocs] /\ HeldSound(mem, held, cid)
  BY DEF RefsInit, HeldSound
<1>5. IdsSound
  BY <1>0 DEF RefsInit, IdsSound
<1> QED
  BY <1>3, <1>4, <1>5 DEF RefsInv, RefsInit

\* Nothing but the memory changes, and what goes of it was a tombstone.
LEMMA MemStep ==
  ASSUME RefsInv, MemSound(mem'), Keeps(mem, mem'), UNCHANGED <<held, cid, ids, stopped>>
  PROVE  RefsInv'
<1>1. HeldSound(mem', held, cid)
  BY KeepsHeld DEF RefsInv
<1> QED
  BY <1>1 DEF RefsInv, IdsSound

LEMMA AllocateStep ==
  ASSUME RefsInv, NEW c \in Containers, NEW a \in Allocs, Allocate(c, a)
  PROVE  RefsInv'
<1>1. MemSound(mem) /\ HeldSound(mem, held, cid) /\ held \in [Containers -> SUBSET Allocs]
  BY DEF RefsInv
<1>2. /\ MemSound(mem')
      /\ mem'.used = mem.used \cup {a} /\ mem'.id[a] = cid[c] /\ ~Tombstone(mem'.word[a])
      /\ \A b \in mem.used : mem'.word[b] = mem.word[b] /\ mem'.id[b] = mem.id[b]
  <2>1. cid[c] \in 0 .. MaxId /\ a \in Allocs \ mem.used
    BY DEF Allocate, RefsInv, IdsSound
  <2> DEFINE w == Count(0, FALSE)
  <2>2. mem' = [mem EXCEPT !.used = @ \cup {a}, !.id[a] = cid[c], !.word[a] = w]
    BY DEF Allocate
  <2>3. w \in Words /\ CounterMode(w) /\ w.n = 0 /\ ~Tombstone(w)
    BY NoneCounted
  <2>4. mem \in MemType
    BY <1>1 DEF MemSound
  <2> DEFINE i == cid[c]
  <2> HIDE DEF w, i
  <2>5. /\ mem'.used = mem.used \cup {a} /\ mem'.word = [mem.word EXCEPT ![a] = w]
        /\ mem'.ptr = mem.ptr /\ mem'.prev = mem.prev /\ mem'.next = mem.next
    BY <2>2, <2>4 DEF MemType
  <2>6. mem'.id = [mem.id EXCEPT ![a] = i]
    BY <2>2, <2>4 DEF MemType, i
  <2>7. i \in 0 .. MaxId
    BY <2>1 DEF i
  <2>8. mem' \in MemType
    BY <2>1, <2>2, <2>3, <2>4, <2>7 DEF MemType, i
  <2>9. /\ mem'.id[a] = i /\ mem'.word[a] = w
        /\ \A b \in mem.used : mem'.word[b] = mem.word[b] /\ mem'.id[b] = mem.id[b]
    BY <2>1, <2>4, <2>5, <2>6 DEF MemType
  <2>10. CounterMode(mem'.word[a]) /\ mem'.word[a].n = 0 /\ ~Tombstone(mem'.word[a])
    BY <2>3, <2>9
  <2>11. MemSound(mem')
    BY <1>1, <2>1, <2>5, <2>8, <2>9, <2>10, AllocateSound
  <2> QED
    BY <2>5, <2>9, <2>10, <2>11 DEF i
<1>3. /\ held' \in [Containers -> SUBSET Allocs]
      /\ held'[c] = held[c] \cup {a} /\ \A d \in Containers \ {c} : held'[d] = held[d]
  BY <1>1 DEF Allocate
<1>4. a \notin mem.used /\ \A d \in Containers : a \notin held[d]
  BY <1>1 DEF Allocate, HeldSound
<1>5. HeldSound(mem', held', cid)
  <2>1. \A d \in Containers : held'[d] \subseteq mem'.used
    BY <1>1, <1>2, <1>3 DEF HeldSound
  <2>2. \A d, e \in Containers : d # e => held'[d] \cap held'[e] = {}
    BY <1>1, <1>3, <1>4 DEF HeldSound
  <2>3. \A b \in mem'.used : IF Tombstone(mem'.word[b]) THEN \A d \in Containers : b \notin held'[d]
                                                        ELSE \E d \in Containers : b \in held'[d]
    BY <1>1, <1>2, <1>3, <1>4 DEF HeldSound
  <2>4. \A d \in Containers : \A b \in held'[d] : mem'.id[b] = cid[d]
    BY <1>1, <1>2, <1>3, <1>4 DEF HeldSound
  <2> QED
    BY <2>1, <2>2, <2>3, <2>4 DEF HeldSound
<1> QED
  BY <1>2, <1>3, <1>5 DEF Allocate, RefsInv, IdsSound

LEMMA RemoveStep ==
  ASSUME RefsInv, NEW c \in Containers, NEW a \in Allocs, Remove(c, a)
  PROVE  RefsInv'
<1>1. MemSound(mem) /\ HeldSound(mem, held, cid) /\ held \in [Containers -> SUBSET Allocs]
  BY DEF RefsInv
<1>2. a \in mem.used /\ ~Tombstone(mem.word[a]) /\ \A d \in Containers \ {c} : a \notin held[d]
  BY <1>1 DEF Remove, HeldSound
<1>3. /\ MemSound(mem')
      /\ mem.used \ {a} \subseteq mem'.used /\ mem'.used \subseteq mem.used
      /\ \A b \in mem.used \ {a} : mem'.word[b] = mem.word[b] /\ mem'.id[b] = mem.id[b]
      /\ a \in mem'.used => Tombstone(mem'.word[a])
  <2>1. {a} \in SUBSET mem.used /\ \A b \in {a} : ~Tombstone(mem.word[b])
    BY <1>2
  <2>2. mem' = Deallocate(mem, {a})
    BY DEF Remove
  <2> QED
    BY <1>1, <2>1, <2>2, DeallocateSound
<1>4. /\ held' \in [Containers -> SUBSET Allocs]
      /\ held'[c] = held[c] \ {a} /\ \A d \in Containers \ {c} : held'[d] = held[d]
  BY <1>1 DEF Remove
<1>5. HeldSound(mem', held', cid)
  <2>1. \A d \in Containers : held'[d] = held[d] \ {a}
    BY <1>2, <1>4
  <2>2. \A d \in Containers : held'[d] \subseteq mem'.used
    BY <1>1, <1>3, <2>1 DEF HeldSound
  <2>3. \A b \in mem'.used : IF Tombstone(mem'.word[b]) THEN \A d \in Containers : b \notin held'[d]
                                                        ELSE \E d \in Containers : b \in held'[d]
    BY <1>1, <1>3, <2>1 DEF HeldSound
  <2> QED
    BY <1>1, <1>3, <2>1, <2>2, <2>3 DEF HeldSound
<1> QED
  BY <1>3, <1>4, <1>5 DEF Remove, RefsInv, IdsSound

LEMMA HandOutStep ==
  ASSUME RefsInv, NEW c \in Containers, NEW a \in Allocs, NEW r \in Refs, HandOut(c, a, r)
  PROVE  RefsInv'
<1> DEFINE d == Drop(mem, r)
<1>1. MemSound(mem) /\ HeldSound(mem, held, cid)
  BY DEF RefsInv
<1>2. MemSound(d) /\ d.ptr[r] = NULL /\ Keeps(mem, d)
  BY <1>1, DropSound
<1>3. a \in d.used
  BY <1>1, <1>2, KeepsHeld DEF HandOut, HeldSound
<1>4. MemSound(mem') /\ Keeps(d, mem')
  <2>1. CASE r \in Counted
    <3>1. mem' = CreateCounted(d, r, a) /\ CountedAllowed(d, a)
      BY <2>1 DEF HandOut, Allowed
    <3> HIDE DEF d
    <3> QED
      BY <1>2, <1>3, <2>1, <3>1, CreateCountedSound
  <2>2. CASE r \notin Counted
    <3>1. mem' = CreateLinked(d, r, a) /\ LinkedAllowed(d, a) /\ r \in Linked
      BY <2>2 DEF HandOut, Allowed, Refs
    <3> HIDE DEF d
    <3> QED
      BY <1>2, <1>3, <3>1, CreateLinkedSound
  <2> QED
    BY <2>1, <2>2
<1>5. Keeps(mem, mem')
  <2> HIDE DEF d
  <2> QED
    BY <1>2, <1>4, KeepsTransitive
<1> QED
  BY <1>4, <1>5, MemStep DEF HandOut

\* Its own elements of the target go, those of the source change hands with their ID.
LEMMA MoveContainerStep ==
  ASSUME RefsInv, NEW c \in Containers, NEW o \in Containers, MoveContainer(c, o)
  PROVE  RefsInv'
<1> DEFINE A == held[c]
<1>1. /\ MemSound(mem) /\ HeldSound(mem, held, cid) /\ held \in [Containers -> SUBSET Allocs]
      /\ c # o /\ IdsSound
  BY DEF RefsInv, MoveContainer
<1>2. A \subseteq mem.used /\ \A a \in A : ~Tombstone(mem.word[a])
  BY <1>1 DEF HeldSound
<1>3. /\ MemSound(mem')
      /\ mem.used \ A \subseteq mem'.used /\ mem'.used \subseteq mem.used
      /\ \A b \in mem.used \ A : mem'.word[b] = mem.word[b] /\ mem'.id[b] = mem.id[b]
      /\ \A a \in A : a \in mem'.used => Tombstone(mem'.word[a])
  <2>1. mem' = Deallocate(mem, A)
    BY DEF MoveContainer
  <2> QED
    BY <1>1, <1>2, <2>1, DeallocateSound
<1>4. /\ held' \in [Containers -> SUBSET Allocs]
      /\ held'[c] = held[o] /\ held'[o] = {} /\ \A d \in Containers \ {c, o} : held'[d] = held[d]
  BY <1>1 DEF MoveContainer
<1>5. /\ cid' \in [Containers -> 0 .. MaxId] /\ ids' = ids + 1 /\ ids <= MaxId /\ ids \in 0 .. MaxId + 1
      /\ cid'[c] = cid[o] /\ cid'[o] = ids /\ \A d \in Containers \ {c, o} : cid'[d] = cid[d]
  BY <1>1 DEF MoveContainer, Renamed, IdsSound
<1>6. IdsSound'
  <2>1. ids' \in 0 .. MaxId + 1
    BY <1>5, TaggedPtrAssumption DEF TaggedPtrAssumption
  <2>2. \A d \in Containers : cid'[d] < ids'
    BY <1>1, <1>5, TaggedPtrAssumption DEF TaggedPtrAssumption, IdsSound
  <2>3. \A d, e \in Containers : d # e => cid'[d] # cid'[e]
    BY <1>1, <1>5, TaggedPtrAssumption DEF TaggedPtrAssumption, IdsSound
  <2> QED
    BY <1>5, <2>1, <2>2, <2>3 DEF IdsSound
<1>7. HeldSound(mem', held', cid')
  <2>1. \A d \in Containers : held'[d] \cap A = {} /\ held'[d] \subseteq mem'.used
    BY <1>1, <1>3, <1>4 DEF HeldSound
  <2>2. \A d, e \in Containers : d # e => held'[d] \cap held'[e] = {}
    BY <1>1, <1>4 DEF HeldSound
  <2>3. \A b \in mem'.used : IF Tombstone(mem'.word[b]) THEN \A d \in Containers : b \notin held'[d]
                                                        ELSE \E d \in Containers : b \in held'[d]
    <3> SUFFICES ASSUME NEW b \in mem'.used
                 PROVE  IF Tombstone(mem'.word[b]) THEN \A d \in Containers : b \notin held'[d]
                                                   ELSE \E d \in Containers : b \in held'[d]
      OBVIOUS
    <3>1. CASE b \in A
      BY <1>3, <2>1, <3>1
    <3>2. CASE b \notin A /\ Tombstone(mem'.word[b])
      BY <1>1, <1>3, <1>4, <3>2 DEF HeldSound
    <3>3. CASE b \notin A /\ ~Tombstone(mem'.word[b])
      <4>1. PICK e \in Containers : b \in held[e]
        BY <1>1, <1>3, <3>3 DEF HeldSound
      <4> QED
        BY <1>4, <3>3, <4>1
    <3> QED
      BY <3>1, <3>2, <3>3
  <2>4. \A d \in Containers : \A b \in held'[d] : mem'.id[b] = cid'[d]
    BY <1>1, <1>3, <1>4, <1>5, <2>1 DEF HeldSound
  <2> QED
    BY <2>1, <2>2, <2>3, <2>4 DEF HeldSound
<1> QED
  BY <1>3, <1>4, <1>6, <1>7 DEF MoveContainer, RefsInv

\* Every step keeps the invariant.
LEMMA RefsInvNext == RefsInv /\ [RefsNext]_refsVars => RefsInv'
<1> SUFFICES ASSUME RefsInv, [RefsNext]_refsVars PROVE RefsInv'
  OBVIOUS
<1>0. MemSound(mem)
  BY DEF RefsInv
<1>1. ASSUME NEW c \in Containers, NEW a \in Allocs, Allocate(c, a) PROVE RefsInv'
  BY <1>1, AllocateStep
<1>2. ASSUME NEW c \in Containers, NEW a \in Allocs, Remove(c, a) PROVE RefsInv'
  BY <1>2, RemoveStep
<1>3. ASSUME NEW c \in Containers, NEW a \in Allocs, NEW r \in Refs, HandOut(c, a, r) PROVE RefsInv'
  BY <1>3, HandOutStep
<1>4. ASSUME NEW c \in Containers, NEW a \in Allocs, NEW r \in Refs, Panic(c, a, r) PROVE RefsInv'
  BY <1>4 DEF Panic, RefsInv, IdsSound
<1>5. ASSUME NEW r \in Refs, Destroy(r) PROVE RefsInv'
  BY <1>0, <1>5, DropSound, MemStep DEF Destroy
<1>6. ASSUME NEW r \in Counted, NEW o \in Counted, Copy(r, o) \/ Move(r, o) PROVE RefsInv'
  BY <1>0, <1>6, CopyCountedSound, MoveCountedSound, MemStep DEF Copy, Move
<1>7. ASSUME NEW r \in Linked, NEW o \in Linked, Copy(r, o) \/ Move(r, o) PROVE RefsInv'
  <2>1. r \notin Counted
    BY TaggedPtrAssumption DEF TaggedPtrAssumption
  <2> QED
    BY <1>0, <1>7, <2>1, CopyLinkedSound, MoveLinkedSound, MemStep DEF Copy, Move
<1>8. ASSUME NEW c \in Containers, NEW o \in Containers, MoveContainer(c, o) PROVE RefsInv'
  BY <1>8, MoveContainerStep
<1>9. CASE UNCHANGED refsVars
  BY <1>9 DEF refsVars, RefsInv, IdsSound
<1> QED
  BY <1>1, <1>2, <1>3, <1>4, <1>5, <1>6, <1>7, <1>8, <1>9 DEF RefsNext, Stop

(***************************************************************************)
(* References: the theorems                                                *)
(***************************************************************************)

\* The invariant of the references, and what it says of them.
THEOREM RefsSafe == RefsSpec => []RefsInv
<1>1. RefsInit => RefsInv
  BY RefsInvInit
<1>2. RefsInv /\ [RefsNext]_refsVars => RefsInv'
  BY RefsInvNext
<1> QED
  BY <1>1, <1>2, PTL DEF RefsSpec

LEMMA RefsInvSuffices ==
  RefsInv => RefsTypeOK /\ NeverDangles /\ NoLeak /\ WordExact /\ AcceptsHeld
<1> SUFFICES ASSUME RefsInv
             PROVE  RefsTypeOK /\ NeverDangles /\ NoLeak /\ WordExact /\ AcceptsHeld
  OBVIOUS
<1>0. \A a : PointTo(a) = Pointing(mem, a)
  BY DEF PointTo, Pointing
<1>1. RefsTypeOK
  BY DEF RefsInv, MemSound, IdsSound, RefsTypeOK
<1>2. NeverDangles
  BY DEF RefsInv, MemSound, NeverDangles
<1>3. WordExact
  BY <1>0 DEF RefsInv, MemSound, AllocSound, ListOf, WordExact
<1>4. NoLeak
  <2> SUFFICES ASSUME NEW a \in mem.used
               PROVE  IF Tombstone(mem.word[a])
                        THEN PointTo(a) # {} /\ \A c \in Containers : a \notin held[c]
                        ELSE \E c \in Containers :
                               a \in held[c] /\ \A d \in Containers \ {c} : a \notin held[d]
    BY DEF NoLeak
  <2>1. CASE Tombstone(mem.word[a])
    <3>1. PointTo(a) # {}
      BY <1>0, <2>1 DEF RefsInv, MemSound, AllocSound, Tombstone
    <3> QED
      BY <2>1, <3>1 DEF RefsInv, HeldSound
  <2>2. CASE ~Tombstone(mem.word[a])
    BY <2>2 DEF RefsInv, HeldSound
  <2> QED
    BY <2>1, <2>2
<1>5. AcceptsHeld
  <2> SUFFICES ASSUME NEW c \in Containers, NEW r \in Refs
               PROVE  Accepts(c, r) <=> mem.ptr[r] \in held[c]
    BY DEF AcceptsHeld
  <2> DEFINE a == mem.ptr[r]
  <2>1. ASSUME Accepts(c, r) PROVE a \in held[c]
    <3>1. a \in mem.used /\ mem.id[a] = cid[c] /\ ~Tombstone(mem.word[a])
      BY <1>2, <2>1 DEF Accepts, NeverDangles
    <3>2. PICK d \in Containers : a \in held[d] /\ mem.id[a] = cid[d]
      BY <3>1 DEF RefsInv, HeldSound
    <3> QED
      BY <3>1, <3>2 DEF RefsInv, IdsSound
  <2>2. ASSUME a \in held[c] PROVE Accepts(c, r)
    <3>1. a \in mem.used /\ mem.id[a] = cid[c] /\ ~Tombstone(mem.word[a])
      BY <2>2 DEF RefsInv, HeldSound
    <3>2. a # NULL
      BY <3>1, MemFields, TaggedPtrAssumption DEF RefsInv, MemSound, TaggedPtrAssumption
    <3> QED
      BY <3>1, <3>2 DEF Accepts
  <2> QED
    BY <2>1, <2>2
<1> QED
  BY <1>1, <1>2, <1>3, <1>4, <1>5

\* In the run Handles the variables of the references follow their specification.
LEMMA HandlesRefs == Spec => [](part = "refs" => RefsInv)
<1> DEFINE Inv == part = "refs" => RefsInv
<1>1. Init => Inv
  BY RefsInvInit DEF Init
<1>2. Inv /\ [Next]_vars => Inv'
  <2> SUFFICES ASSUME Inv, [Next]_vars, part' = "refs" PROVE RefsInv'
    OBVIOUS
  <2>1. CASE part = "refs" /\ RefsNext
    BY <2>1, RefsInvNext
  <2>2. CASE UNCHANGED vars
    BY <2>2, RefsInvNext DEF vars, refsVars
  <2> QED
    BY <2>1, <2>2 DEF Next
<1> QED
  BY <1>1, <1>2, PTL DEF Spec

\* Storage of allocations is never freed under a reference nor leaked, and the word of
\* an allocation counts or lists exactly the references to it (tagged_ptr.hpp:959).
THEOREM RefsAlwaysSound == Spec => []RefsSound
<1>1. (part = "refs" => RefsInv) => RefsSound
  BY RefsInvSuffices DEF RefsSound
<1> QED
  BY <1>1, HandlesRefs, PTL

\* A container accepts a reference just when it holds the element now, after removals,
\* reuse of the storage and moves (tagged_ptr.hpp:185).
THEOREM RefsAlwaysAccepted == Spec => [](part = "refs" => AcceptsHeld)
<1>1. (part = "refs" => RefsInv) => (part = "refs" => AcceptsHeld)
  BY RefsInvSuffices
<1> QED
  BY <1>1, HandlesRefs, PTL

(***************************************************************************)
(* The hive: lists of chunks                                               *)
(***************************************************************************)

\* The lists of Hive are those of Lists.
LEMMA HiveUsesLists ==
  ASSUME NEW l, NEW S, NEW r
  PROVE  /\ H!Push(l, r) = Push(l, r) /\ H!Unlink(l, r) = Unlink(l, r)
         /\ H!Chained(l, S) <=> Chained(l, S)
         /\ H!Holds(l, S) <=> Holds(l, S)
<1>1. \A f, q, v : H!Store(f, q, v) = Store(f, q, v)
  BY DEF H!Store, Store
<1>2. H!Push(l, r) = Push(l, r)
  BY <1>1, Zenon DEF H!Push, Push
<1>3. H!Unlink(l, r) = Unlink(l, r)
  BY <1>1, Zenon DEF H!Unlink, Unlink
<1>4. H!Chained(l, S) <=> Chained(l, S)
  BY Zenon DEF H!Chained, Chained, H!Acyclic, Acyclic
<1> QED
  BY <1>2, <1>3, <1>4, Zenon DEF H!Holds, Holds

\* A list of the chunks S: the others have no neighbours.
Tidy(l, S) ==
  /\ IsList(l, Allocs)
  /\ Chained(l, S)
  /\ \A r \in Allocs \ S : l.next[r] = NULL /\ l.prev[r] = NULL

LEMMA TidyHolds ==
  ASSUME NEW l, NEW S, Tidy(l, S)
  PROVE  l \in H!ListType /\ H!Holds(l, S)
<1>1. l \in H!ListType
  BY DEF Tidy, IsList, H!ListType
<1>2. DOMAIN l.prev = Allocs
  BY DEF Tidy, IsList
<1>3. Holds(l, S)
  BY <1>2 DEF Tidy, Holds
<1> QED
  BY <1>1, <1>3, HiveUsesLists

LEMMA TidyEmpty == Tidy(H!EmptyList(Allocs), {})
<1> DEFINE l == H!EmptyList(Allocs)
<1>1. /\ l.head = NULL /\ \A r \in Allocs : l.next[r] = NULL /\ l.prev[r] = NULL
      /\ IsList(l, Allocs)
  BY DEF H!EmptyList, IsList
<1>2. Chained(l, {})
  BY <1>1 DEF Chained, Acyclic
<1> QED
  BY <1>1, <1>2 DEF Tidy

LEMMA TidyPush ==
  ASSUME NULL \notin Allocs, NEW l, NEW S \in SUBSET Allocs, Tidy(l, S), NEW r \in Allocs \ S
  PROVE  Tidy(H!Push(l, r), S \cup {r}) /\ H!Push(l, r).head = r
<1>1. H!Push(l, r) = Push(l, r)
  BY HiveUsesLists
<1>2. l.prev[r] = NULL
  BY DEF Tidy
<1> QED
  BY <1>1, <1>2, PushJoins DEF Tidy

LEMMA UnlinkNext ==
  ASSUME NULL \notin Allocs, NEW l, NEW S \in SUBSET Allocs, Tidy(l, S), NEW r \in S,
         NEW l2, l2 = H!Unlink(l, r)
  PROVE  \A q \in S \ {r} : l2.next[q] = IF q = l.prev[r] THEN l.next[r] ELSE l.next[q]
<1>0. l2 = Unlink(l, r)
  BY HiveUsesLists
<1>1. IsList(l, Allocs) /\ l.prev[r] \in S \cup {NULL}
  BY DEF Tidy, Chained
<1>2. l2.next = [(IF l.prev[r] = NULL THEN l.next ELSE [l.next EXCEPT ![l.prev[r]] = l.next[r]])
                   EXCEPT ![r] = NULL]
  BY <1>0 DEF Unlink, Store
<1> QED
  BY <1>1, <1>2 DEF IsList

LEMMA TidyUnlink ==
  ASSUME NULL \notin Allocs, NEW l, NEW S \in SUBSET Allocs, Tidy(l, S), NEW r \in S,
         NEW l2, l2 = H!Unlink(l, r)
  PROVE  Tidy(l2, S \ {r})
<1> DEFINE n == l.next[r]
           p == l.prev[r]
<1>0. l2 = Unlink(l, r)
  BY HiveUsesLists
<1>1. IsList(l, Allocs) /\ Chained(l, S) /\ r \in Allocs
  BY DEF Tidy
<1>2. n \in S \cup {NULL} /\ p \in S \cup {NULL} /\ (l.head = r \/ l.head \in S \cup {NULL})
  BY DEF Tidy, Chained
<1>3. l2 = [head |-> IF l.head = r THEN n ELSE l.head,
            next |-> [(IF p = NULL THEN l.next ELSE [l.next EXCEPT ![p] = n]) EXCEPT ![r] = NULL],
            prev |-> [(IF n = NULL THEN l.prev ELSE [l.prev EXCEPT ![n] = p]) EXCEPT ![r] = NULL]]
  BY <1>0 DEF Unlink, Store
<1> HIDE DEF n, p
<1>4. IsList(l2, Allocs)
  BY <1>1, <1>2, <1>3 DEF IsList
<1>5. /\ l2.head = IF l.head = r THEN n ELSE l.head
      /\ l2.next[r] = NULL /\ l2.prev[r] = NULL
  BY <1>1, <1>2, <1>3 DEF IsList
<1>6. \A q \in Allocs \ {r} : /\ l2.next[q] = IF q = p THEN n ELSE l.next[q]
                              /\ l2.prev[q] = IF q = n THEN p ELSE l.prev[q]
  BY <1>1, <1>2, <1>3 DEF IsList
<1>7. Chained(l2, S \ {r})
  BY <1>1, <1>5, <1>6, ChainedRemove DEF n, p
<1>8. \A q \in Allocs \ (S \ {r}) : l2.next[q] = NULL /\ l2.prev[q] = NULL
  BY <1>2, <1>5, <1>6 DEF Tidy
<1> QED
  BY <1>4, <1>7, <1>8 DEF Tidy

LEMMA TidyAppend ==
  ASSUME NULL \notin Allocs, NEW l, NEW S \in SUBSET Allocs, Tidy(l, S), NEW t, IsTail(l, t, S),
         NEW r \in Allocs \ S, NEW l2,
         l2 = [head |-> IF t = NULL THEN r ELSE l.head,
               next |-> H!Store(H!Store(l.next, r, NULL), t, r),
               prev |-> H!Store(l.prev, r, t)]
  PROVE  Tidy(l2, S \cup {r}) /\ IsTail(l2, r, S \cup {r})
<1>1. IsList(l, Allocs) /\ Chained(l, S) /\ t \in S \cup {NULL} /\ r # NULL
  BY DEF Tidy, IsTail
<1>2. l2 = [head |-> IF t = NULL THEN r ELSE l.head,
            next |-> IF t = NULL THEN [l.next EXCEPT ![r] = NULL]
                                 ELSE [[l.next EXCEPT ![r] = NULL] EXCEPT ![t] = r],
            prev |-> [l.prev EXCEPT ![r] = t]]
  BY <1>1 DEF H!Store
<1>3. IsList(l2, Allocs)
  BY <1>1, <1>2 DEF IsList
<1>4. /\ l2.head = IF t = NULL THEN r ELSE l.head
      /\ l2.next[r] = NULL /\ l2.prev[r] = t
      /\ \A q \in Allocs \ {r} : /\ l2.next[q] = IF q = t THEN r ELSE l.next[q]
                                 /\ l2.prev[q] = l.prev[q]
  BY <1>1, <1>2 DEF IsList
<1>5. t = NULL => S = {}
  BY DEF IsTail
<1>6. t # NULL => l.head \in S
  BY <1>1, HeadOfMembers
<1>7. Chained(l2, S \cup {r})
  <2>1. l2.head # NULL => l2.head \in S \cup {r} /\ l2.prev[l2.head] = NULL
    BY <1>1, <1>4, <1>5, <1>6 DEF Chained
  <2>2. ASSUME NEW q \in S
        PROVE  /\ l2.next[q] # NULL => l2.next[q] \in S \cup {r} /\ l2.prev[l2.next[q]] = q
               /\ l2.prev[q] # NULL => l2.prev[q] \in S \cup {r} /\ l2.next[l2.prev[q]] = q
               /\ l2.prev[q] = NULL => q = l2.head
    BY <1>1, <1>4, <1>5, <1>6 DEF Chained, IsTail
  <2>3. /\ l2.next[r] # NULL => l2.next[r] \in S \cup {r} /\ l2.prev[l2.next[r]] = r
        /\ l2.prev[r] # NULL => l2.prev[r] \in S \cup {r} /\ l2.next[l2.prev[r]] = r
        /\ l2.prev[r] = NULL => r = l2.head
    BY <1>1, <1>4
  <2>4. ASSUME NEW T \in SUBSET (S \cup {r}), T # {}
        PROVE  \E q \in T : l2.prev[q] \notin T
    <3>1. CASE T = {r}
      BY <1>1, <1>4, <3>1
    <3>2. CASE T # {r}
      <4>1. T \ {r} \in SUBSET S /\ T \ {r} # {}
        BY <2>4, <3>2
      <4>2. PICK q \in T \ {r} : l.prev[q] \notin T \ {r}
        BY <1>1, <4>1, Zenon DEF Chained, Acyclic
      <4>3. l.prev[q] # r
        BY <1>1, <4>1 DEF Chained
      <4> QED
        BY <1>4, <4>1, <4>2, <4>3
    <3> QED
      BY <3>1, <3>2
  <2> QED
    BY <2>1, <2>2, <2>3, <2>4 DEF Chained, Acyclic
<1>8. \A q \in Allocs \ (S \cup {r}) : l2.next[q] = NULL /\ l2.prev[q] = NULL
  BY <1>1, <1>4 DEF Tidy
<1> QED
  BY <1>3, <1>4, <1>7, <1>8 DEF Tidy, IsTail

LEMMA TailUnlink ==
  ASSUME NULL \notin Allocs, NEW l, NEW S \in SUBSET Allocs, Tidy(l, S), NEW t, IsTail(l, t, S),
         NEW r \in S, NEW l2, l2 = H!Unlink(l, r)
  PROVE  IsTail(l2, IF t = r THEN l.prev[r] ELSE t, S \ {r})
<1>1. \A q \in S \ {r} : l2.next[q] = IF q = l.prev[r] THEN l.next[r] ELSE l.next[q]
  BY UnlinkNext
<1>2. Chained(l, S) /\ t \in S /\ l.next[t] = NULL
  BY DEF Tidy, IsTail
<1>3. CASE t = r
  <2>1. CASE l.prev[r] = NULL
    <3>1. S = {r}
      BY <1>2, <1>3, <2>1, AloneInList
    <3> QED
      BY <1>3, <2>1, <3>1 DEF IsTail
  <2>2. CASE l.prev[r] # NULL
    <3>1. l.prev[r] \in S /\ l.next[l.prev[r]] = r
      BY <1>2, <2>2 DEF Chained
    <3>2. l.prev[r] # r
      BY <1>2, <1>3, <3>1
    <3> QED
      BY <1>1, <1>2, <1>3, <3>1, <3>2 DEF IsTail
  <2> QED
    BY <2>1, <2>2
<1>4. CASE t # r
  <2>1. t # l.prev[r]
    BY <1>2 DEF Chained
  <2> QED
    BY <1>1, <1>2, <1>4, <2>1 DEF IsTail
<1> QED
  BY <1>3, <1>4

(***************************************************************************)
(* The hive: slots                                                         *)
(***************************************************************************)

LEMMA HiveConstants ==
  /\ NULL \notin Allocs /\ IsFiniteSet(Allocs)
  /\ Word \in Nat \ {0} /\ FirstLog2 \in Nat /\ LastLog2 \in Nat /\ FirstLog2 <= LastLog2
<1>1. H!IsFiniteSet(Allocs) => IsFiniteSet(Allocs)
  BY Zenon DEF H!IsFiniteSet, IsFiniteSet
<1> QED
  BY <1>1, H!HiveAssumption DEF H!HiveAssumption

LEMMA HiveCounts ==
  ASSUME NEW S
  PROVE  H!Cardinality(S) = Cardinality(S)
BY Zenon DEF H!Cardinality, Cardinality

LEMMA MaxOfBounded ==
  ASSUME NEW k \in Nat, NEW S \in SUBSET (0 .. k), S # {}
  PROVE  Max(S) \in S
<1>0. \A s \in S : s \in Int /\ k - s \in Nat
  OBVIOUS
<1> DEFINE D == {k - s : s \in S}
<1>1. D \in SUBSET Nat /\ D # {}
  BY <1>0
<1> HIDE DEF D
<1>2. Min(D) \in D /\ \A n \in D : Min(D) <= n
  BY <1>1, MinOfNaturals
<1>3. PICK x \in S : Min(D) = k - x
  BY <1>2 DEF D
<1>4. ASSUME NEW y \in S PROVE y <= x
  <2>1. k - y \in D
    BY DEF D
  <2>2. k - x <= k - y
    BY <1>2, <1>3, <2>1
  <2> QED
    BY <1>0, <2>2
<1> QED
  BY <1>4 DEF Max

LEMMA HiveExtremes ==
  ASSUME NEW S
  PROVE  H!Min(S) = Min(S) /\ H!Max(S) = Max(S)
BY Zenon DEF H!Min, Min, H!Max, Max

LEMMA UpwardsIn ==
  ASSUME NEW S \in SUBSET Nat, NEW w \in Nat, NEW n, NEW cap
  PROVE  /\ H!Upwards(S, w, n, cap) \in S \cup {cap}
         /\ (\E s \in S : s \div Word \in w .. n - 1) => H!Upwards(S, w, n, cap) \in S
<1> DEFINE W == {v \in w .. n - 1 : H!Nth(S, v) # {}}
<1>1. H!Upwards(S, w, n, cap) = IF W = {} THEN cap ELSE Min(H!Nth(S, Min(W)))
  BY HiveExtremes, Zenon DEF H!Upwards
<1>2. W \in SUBSET Nat
  OBVIOUS
<1>3. ASSUME W # {} PROVE Min(H!Nth(S, Min(W))) \in S
  <2>1. Min(W) \in W
    BY <1>2, <1>3, MinOfNaturals
  <2>2. H!Nth(S, Min(W)) # {} /\ H!Nth(S, Min(W)) \in SUBSET Nat /\ H!Nth(S, Min(W)) \subseteq S
    BY <2>1 DEF H!Nth
  <2> QED
    BY <2>2, MinOfNaturals
<1>4. (\E s \in S : s \div Word \in w .. n - 1) => W # {}
  BY DEF H!Nth
<1> HIDE DEF W
<1> QED
  BY <1>1, <1>3, <1>4

LEMMA DownwardsIn ==
  ASSUME NEW k \in Nat, NEW S \in SUBSET (0 .. k), NEW w \in Int, NEW cap
  PROVE  /\ H!Downwards(S, w, cap) \in S \cup {cap}
         /\ (\E s \in S : s \div Word \in 0 .. w) => H!Downwards(S, w, cap) \in S
<1> DEFINE W == {v \in 0 .. w : H!Nth(S, v) # {}}
<1>1. H!Downwards(S, w, cap) = IF W = {} THEN cap ELSE Max(H!Nth(S, Max(W)))
  BY HiveExtremes, Zenon DEF H!Downwards
<1>3. ASSUME W # {} PROVE Max(H!Nth(S, Max(W))) \in S
  <2>0. w \in Nat /\ W \in SUBSET (0 .. w)
    BY <1>3
  <2>1. Max(W) \in W
    BY <1>3, <2>0, MaxOfBounded
  <2>2. H!Nth(S, Max(W)) # {} /\ H!Nth(S, Max(W)) \in SUBSET (0 .. k) /\ H!Nth(S, Max(W)) \subseteq S
    BY <2>1 DEF H!Nth
  <2> QED
    BY <2>2, MaxOfBounded
<1>4. (\E s \in S : s \div Word \in 0 .. w) => W # {}
  BY DEF H!Nth
<1> HIDE DEF W
<1> QED
  BY <1>1, <1>3, <1>4

\* A slot is in one of the words of its bitmap.
LEMMA WordOfSlot ==
  ASSUME NEW cap \in Nat, NEW s \in 0 .. cap - 1
  PROVE  s \div Word \in 0 .. ((cap + Word - 1) \div Word) - 1
<1>0. Word \in Nat \ {0}
  BY HiveConstants
<1>1. PICK q \in Int : q = s \div Word
  BY <1>0
<1>2. Word * q <= s /\ s < Word * q + Word
  BY <1>0, <1>1
<1>3. PICK p \in Int : p = (cap + Word - 1) \div Word
  BY <1>0
<1>4. cap + Word - 1 < Word * p + Word
  BY <1>0, <1>3
<1>5. q >= 0
  BY <1>0, <1>1
<1>6. q < p
  <2>1. SUFFICES ASSUME p <= q PROVE FALSE
    OBVIOUS
  <2>2. PICK d \in Nat : q = p + d
    BY <2>1
  <2>3. Word * q = Word * p + Word * d /\ Word * d >= 0
    BY <1>0, <2>2
  <2> QED
    BY <1>0, <1>2, <1>4, <2>3
<1> QED
  BY <1>1, <1>3, <1>5, <1>6

\* A chunk has slots, as many as there are places for.
LEMMA CapacityFacts ==
  ASSUME NEW h, NEW c \in Allocs, h.log2 \in [Allocs -> 0 .. LastLog2]
  PROVE  /\ H!Capacity(h, c) \in Nat \ {0}
         /\ 0 .. H!Capacity(h, c) - 1 \subseteq 0 .. 2 ^ LastLog2 - 1
<1>1. LastLog2 \in Nat /\ h.log2[c] \in 0 .. LastLog2 /\ h.log2[c] \in Nat
  BY HiveConstants
<1>2. /\ 2 ^ h.log2[c] \in Nat /\ 2 ^ h.log2[c] > 0
      /\ 2 ^ h.log2[c] <= 2 ^ LastLog2 /\ 2 ^ LastLog2 \in Nat
  BY <1>1, PowerPositive, PowerMonotone
<1>3. H!Capacity(h, c) = 2 ^ h.log2[c]
  BY DEF H!Capacity
<1> QED
  BY <1>2, <1>3

(***************************************************************************)
(* The hive: chunks and the lists they are in                              *)
(***************************************************************************)

\* The chunks with room and those with elements, by their counters.
Roomy(h) == {c \in h.live : h.count[c] < H!Capacity(h, c)}
Used(h)  == {c \in h.live : h.count[c] > 0}

InLists(h, E, F) ==
  /\ Tidy(h.empty, E) /\ Tidy(h.filled, F)
  /\ IsTail(h.filled, h.tail, F)

BitsSound(h) ==
  \A c \in h.live : /\ h.bits[c] \subseteq 0 .. H!Capacity(h, c) - 1
                    /\ h.count[c] = Cardinality(h.bits[c])

\* All of the hive but the lists.
SameChunks(h, g) ==
  /\ g.len = h.len /\ g.nextLog2 = h.nextLog2 /\ g.live = h.live
  /\ g.log2 = h.log2 /\ g.count = h.count /\ g.bits = h.bits

LEMMA SameChunksSame ==
  ASSUME NEW h, NEW g, SameChunks(h, g)
  PROVE  /\ Roomy(g) = Roomy(h) /\ Used(g) = Used(h)
         /\ BitsSound(h) => BitsSound(g)
         /\ H!Filled(g) = H!Filled(h)
         /\ \A c : H!Capacity(g, c) = H!Capacity(h, c)
<1>1. \A c : H!Capacity(g, c) = H!Capacity(h, c)
  BY DEF H!Capacity, SameChunks
<1> QED
  BY <1>1 DEF SameChunks, Roomy, Used, BitsSound, H!Filled

LEMMA AddToEmptyIn ==
  ASSUME NEW h \in H!HiveType, NEW E \in SUBSET Allocs, NEW F, InLists(h, E, F),
         NEW c \in Allocs \ E, NEW g, g = H!AddToEmpty(h, c)
  PROVE  /\ g \in H!HiveType /\ SameChunks(h, g)
         /\ InLists(g, E \cup {c}, F) /\ g.empty.head = c
<1> DEFINE l == H!Push(h.empty, c)
<1>1. g = [h EXCEPT !.empty = l]
  BY DEF H!AddToEmpty
<1>2. Tidy(l, E \cup {c}) /\ l.head = c
  BY HiveConstants, TidyPush DEF InLists
<1>3. l \in H!ListType
  BY <1>2, TidyHolds
<1> HIDE DEF l
<1>4. g \in H!HiveType /\ SameChunks(h, g) /\ g.empty = l /\ g.filled = h.filled /\ g.tail = h.tail
  BY <1>1, <1>3 DEF H!HiveType, SameChunks
<1> QED
  BY <1>2, <1>4 DEF InLists

LEMMA RemoveFromEmptyIn ==
  ASSUME NEW h \in H!HiveType, NEW E \in SUBSET Allocs, NEW F, InLists(h, E, F),
         NEW c \in E, NEW g, g = H!RemoveFromEmpty(h, c)
  PROVE  g \in H!HiveType /\ SameChunks(h, g) /\ InLists(g, E \ {c}, F)
<1> DEFINE l == H!Unlink(h.empty, c)
<1>1. g = [h EXCEPT !.empty = l]
  BY DEF H!RemoveFromEmpty
<1>2. Tidy(l, E \ {c})
  BY HiveConstants, TidyUnlink DEF InLists
<1>3. l \in H!ListType
  BY <1>2, TidyHolds
<1> HIDE DEF l
<1>4. g \in H!HiveType /\ SameChunks(h, g) /\ g.empty = l /\ g.filled = h.filled /\ g.tail = h.tail
  BY <1>1, <1>3 DEF H!HiveType, SameChunks
<1> QED
  BY <1>2, <1>4 DEF InLists

LEMMA AddToFilledIn ==
  ASSUME NEW h \in H!HiveType, NEW E, NEW F \in SUBSET Allocs, InLists(h, E, F),
         NEW c \in Allocs \ F, NEW g, g = H!AddToFilled(h, c)
  PROVE  g \in H!HiveType /\ SameChunks(h, g) /\ InLists(g, E, F \cup {c})
<1> DEFINE l == [head |-> IF h.tail = NULL THEN c ELSE h.filled.head,
                 next |-> H!Store(H!Store(h.filled.next, c, NULL), h.tail, c),
                 prev |-> H!Store(h.filled.prev, c, h.tail)]
<1>1. g = [[h EXCEPT !.filled = l] EXCEPT !.tail = c]
  BY DEF H!AddToFilled, H!HiveType
<1>2. Tidy(l, F \cup {c}) /\ IsTail(l, c, F \cup {c})
  BY HiveConstants, TidyAppend DEF InLists
<1>3. l \in H!ListType
  BY <1>2, TidyHolds
<1> HIDE DEF l
<1>4. g \in H!HiveType /\ SameChunks(h, g) /\ g.empty = h.empty /\ g.filled = l /\ g.tail = c
  BY <1>1, <1>3 DEF H!HiveType, SameChunks
<1> QED
  BY <1>2, <1>4 DEF InLists

LEMMA RemoveFromFilledIn ==
  ASSUME NEW h \in H!HiveType, NEW E, NEW F \in SUBSET Allocs, InLists(h, E, F),
         NEW c \in F, NEW g, g = H!RemoveFromFilled(h, c)
  PROVE  g \in H!HiveType /\ SameChunks(h, g) /\ InLists(g, E, F \ {c})
<1> DEFINE l == H!Unlink(h.filled, c)
           t == IF h.tail = c THEN h.filled.prev[c] ELSE h.tail
<1>1. g = [[h EXCEPT !.filled = l] EXCEPT !.tail = t]
  BY DEF H!RemoveFromFilled, H!HiveType
<1>2. Tidy(l, F \ {c}) /\ IsTail(l, t, F \ {c})
  BY HiveConstants, TidyUnlink, TailUnlink DEF InLists
<1>3. l \in H!ListType /\ t \in Allocs \cup {NULL}
  <2>1. t \in Allocs \cup {NULL}
    BY DEF H!HiveType, H!ListType
  <2> QED
    BY <1>2, <2>1, TidyHolds
<1> HIDE DEF l, t
<1>4. g \in H!HiveType /\ SameChunks(h, g) /\ g.empty = h.empty /\ g.filled = l /\ g.tail = t
  BY <1>1, <1>3 DEF H!HiveType, SameChunks
<1> QED
  BY <1>2, <1>4 DEF InLists

(***************************************************************************)
(* The hive: filling and emptying slots                                    *)
(***************************************************************************)

\* What all steps of an operation on the hive keep, but for its length.
HiveGood(h) ==
  /\ h \in H!HiveType
  /\ InLists(h, Roomy(h), Used(h))
  /\ BitsSound(h)

LEMMA BitsFinite ==
  ASSUME NEW h, h \in H!HiveType, BitsSound(h), NEW c \in h.live
  PROVE  /\ IsFiniteSet(h.bits[c]) /\ c \in Allocs
         /\ h.count[c] = Cardinality(h.bits[c]) /\ h.count[c] \in Nat
         /\ H!Capacity(h, c) \in Nat \ {0}
         /\ h.bits[c] \subseteq 0 .. H!Capacity(h, c) - 1
         /\ 0 .. H!Capacity(h, c) - 1 \subseteq 0 .. 2 ^ LastLog2 - 1
<1>1. c \in Allocs /\ h.log2 \in [Allocs -> 0 .. LastLog2]
  BY DEF H!HiveType
<1>2. /\ H!Capacity(h, c) \in Nat \ {0}
      /\ 0 .. H!Capacity(h, c) - 1 \subseteq 0 .. 2 ^ LastLog2 - 1
  BY <1>1, CapacityFacts
<1>3. h.bits[c] \subseteq 0 .. H!Capacity(h, c) - 1 /\ h.count[c] = Cardinality(h.bits[c])
  BY DEF BitsSound
<1>4. IsFiniteSet(0 .. H!Capacity(h, c) - 1)
  BY <1>2, FS_Interval
<1>5. IsFiniteSet(h.bits[c])
  BY <1>3, <1>4, FS_Subset
<1> QED
  BY <1>1, <1>2, <1>3, <1>5, FS_CardinalityType

LEMMA FilledFinite ==
  ASSUME NEW h
  PROVE  IsFiniteSet(H!Filled(h))
<1>1. LastLog2 \in Nat
  BY HiveConstants
<1>2. 2 ^ LastLog2 \in Nat
  BY <1>1, PowerPositive
<1>3. IsFiniteSet(0 .. 2 ^ LastLog2 - 1)
  BY <1>2, FS_Interval
<1>4. IsFiniteSet(Allocs \X (0 .. 2 ^ LastLog2 - 1))
  BY <1>3, HiveConstants, FS_Product
<1> QED
  BY <1>4, FS_Subset DEF H!Filled, H!Places

\* A chunk with room has a slot that is not filled.
LEMMA RoomLeft ==
  ASSUME NEW h, h \in H!HiveType, BitsSound(h), NEW c \in Roomy(h)
  PROVE  H!FirstEmptySlot(h, c) \in (0 .. H!Capacity(h, c) - 1) \ h.bits[c]
<1> DEFINE cap == H!Capacity(h, c)
           S == (0 .. cap - 1) \ h.bits[c]
<1>1. c \in h.live /\ h.count[c] < cap
  BY DEF Roomy
<1>2. cap \in Nat \ {0} /\ h.bits[c] \subseteq 0 .. cap - 1 /\ h.count[c] = Cardinality(h.bits[c])
  BY <1>1, BitsFinite
<1>3. Cardinality(0 .. cap - 1) = cap
  <2> HIDE DEF cap
  <2>1. 0 \in Int /\ cap - 1 \in Int /\ ~(0 > cap - 1) /\ (cap - 1) - 0 + 1 = cap
    BY <1>2
  <2> QED
    BY <2>1, FS_Interval
<1>4. h.bits[c] # 0 .. cap - 1
  BY <1>1, <1>2, <1>3
<1>5. PICK s \in S : TRUE
  BY <1>2, <1>4
<1> HIDE DEF cap
<1>6. s \div Word \in 0 .. ((cap + Word - 1) \div Word) - 1
  BY <1>2, <1>5, WordOfSlot
<1>7. H!NumWords(h, c) = (cap + Word - 1) \div Word
  BY DEF H!NumWords, cap
<1>8. S \in SUBSET Nat
  BY <1>2
<1> HIDE DEF S
<1>9. H!Upwards(S, 0, H!NumWords(h, c), cap) \in S
  BY <1>5, <1>6, <1>7, <1>8, UpwardsIn
<1> QED
  BY <1>9 DEF S, cap, H!FirstEmptySlot

\* What a chunk that is not touched by a step says stays as it was.
LEMMA OthersSame ==
  ASSUME NEW h, NEW g, NEW c,
         \A d \in Allocs \ {c} : g.log2[d] = h.log2[d] /\ g.count[d] = h.count[d]
                                 /\ g.bits[d] = h.bits[d],
         h.live \subseteq Allocs, g.live \subseteq Allocs, g.live \ {c} = h.live \ {c}
  PROVE  Roomy(g) \ {c} = Roomy(h) \ {c} /\ Used(g) \ {c} = Used(h) \ {c}
<1>1. \A d \in Allocs \ {c} : H!Capacity(g, d) = H!Capacity(h, d)
  BY DEF H!Capacity
<1>2. \A d \in Allocs \ {c} : d \in Roomy(g) <=> d \in Roomy(h)
  BY <1>1 DEF Roomy
<1>3. \A d \in Allocs \ {c} : d \in Used(g) <=> d \in Used(h)
  BY DEF Used
<1>4. Roomy(g) \subseteq Allocs /\ Used(g) \subseteq Allocs /\ Roomy(h) \subseteq Allocs /\ Used(h) \subseteq Allocs
  BY DEF Roomy, Used
<1> QED
  BY <1>2, <1>3, <1>4

LEMMA OthersBits ==
  ASSUME NEW h, NEW g, NEW c,
         \A d \in Allocs \ {c} : g.log2[d] = h.log2[d] /\ g.count[d] = h.count[d]
                                 /\ g.bits[d] = h.bits[d],
         h.live \subseteq Allocs, g.live \subseteq Allocs, g.live \ {c} = h.live \ {c},
         c \in g.live => /\ g.bits[c] \subseteq 0 .. H!Capacity(g, c) - 1
                         /\ g.count[c] = Cardinality(g.bits[c]),
         BitsSound(h)
  PROVE  BitsSound(g)
<1>1. SUFFICES ASSUME NEW d \in g.live
               PROVE  /\ g.bits[d] \subseteq 0 .. H!Capacity(g, d) - 1
                      /\ g.count[d] = Cardinality(g.bits[d])
  BY DEF BitsSound
<1>2. CASE d = c
  BY <1>1, <1>2
<1>3. CASE d # c
  <2>1. d \in Allocs \ {c} /\ d \in h.live
    BY <1>1, <1>3
  <2>2. H!Capacity(g, d) = H!Capacity(h, d)
    BY <2>1 DEF H!Capacity
  <2> QED
    BY <2>1, <2>2 DEF BitsSound
<1> QED
  BY <1>2, <1>3

\* allocate_slot() finds a chunk with room, or makes one.
LEMMA GrownGood ==
  ASSUME NEW h, HiveGood(h), NEW c \in Allocs, h.empty.head = NULL => c \notin h.live,
         NEW g, g = H!Grown(h, c)
  PROVE  /\ HiveGood(g) /\ g.empty.head \in Roomy(g)
         /\ Used(g) = Used(h) /\ H!Filled(g) = H!Filled(h) /\ g.len = h.len
         /\ h.live \subseteq g.live /\ g.live \subseteq h.live \cup {g.empty.head}
         /\ g.live = h.live \/ (h.empty.head = NULL /\ g.live = h.live \cup {c})
<1>0. h.live \subseteq Allocs /\ Roomy(h) \in SUBSET Allocs /\ Used(h) \subseteq h.live /\ NULL \notin Allocs
  BY HiveConstants DEF HiveGood, H!HiveType, Roomy, Used
<1>1. CASE h.empty.head # NULL
  <2>1. g = h
    BY <1>1 DEF H!Grown
  <2>2. h.empty.head \in Roomy(h)
    BY <1>1 DEF HiveGood, InLists, Tidy, Chained
  <2> QED
    BY <2>1, <2>2
<1>2. CASE h.empty.head = NULL
  <2>1. Roomy(h) = {}
    <3>1. Chained(h.empty, Roomy(h))
      BY DEF HiveGood, InLists, Tidy
    <3> QED
      BY <1>0, <1>2, <3>1, HeadOfMembers
  <2>2. c \notin h.live
    BY <1>2
  <2> DEFINE k == [h EXCEPT !.nextLog2 = IF @ < LastLog2 THEN @ + 1 ELSE @]
             d == H!CreateChunk(k, c, h.nextLog2)
  <2>3. g = H!AddToEmpty(d, c)
    BY <1>2 DEF H!Grown
  <2>4. k \in H!HiveType /\ k.nextLog2 \in 0 .. LastLog2
    BY HiveConstants DEF HiveGood, H!HiveType
  <2>5. d = [[[[k EXCEPT !.live = @ \cup {c}] EXCEPT !.log2[c] = h.nextLog2]
                EXCEPT !.count[c] = 0] EXCEPT !.bits[c] = {}]
    BY DEF H!CreateChunk
  <2>6. /\ d.len = h.len /\ d.empty = h.empty /\ d.filled = h.filled /\ d.tail = h.tail
        /\ d.live = h.live \cup {c}
        /\ d.log2 = [h.log2 EXCEPT ![c] = h.nextLog2]
        /\ d.count = [h.count EXCEPT ![c] = 0]
        /\ d.bits = [h.bits EXCEPT ![c] = {}]
        /\ d.nextLog2 = k.nextLog2
        /\ d = [len |-> d.len, nextLog2 |-> d.nextLog2, empty |-> d.empty, filled |-> d.filled,
                tail |-> d.tail, live |-> d.live, log2 |-> d.log2, count |-> d.count,
                bits |-> d.bits]
    BY <2>4, <2>5 DEF HiveGood, H!HiveType
  <2>6a. d \in H!HiveType
    BY <2>4, <2>6 DEF HiveGood, H!HiveType
  <2> HIDE DEF k, d
  <2>7. /\ \A x \in Allocs \ {c} : d.log2[x] = h.log2[x] /\ d.count[x] = h.count[x]
                                   /\ d.bits[x] = h.bits[x]
        /\ d.count[c] = 0 /\ d.bits[c] = {}
    BY <2>6 DEF HiveGood, H!HiveType
  <2>8. H!Capacity(d, c) \in Nat \ {0}
    BY <2>6a, CapacityFacts DEF H!HiveType
  <2>9. Roomy(d) = {c} /\ Used(d) = Used(h)
    <3>1. c \in Roomy(d) /\ c \notin Used(d) /\ c \notin Used(h)
      BY <1>0, <2>2, <2>6, <2>7, <2>8 DEF Roomy, Used
    <3>2. h.live \subseteq Allocs /\ d.live \subseteq Allocs /\ d.live \ {c} = h.live \ {c}
      BY <1>0, <2>6
    <3>3. Roomy(d) \ {c} = Roomy(h) \ {c} /\ Used(d) \ {c} = Used(h) \ {c}
      BY <2>7, <3>2, OthersSame
    <3> QED
      BY <2>1, <3>1, <3>3
  <2>10. BitsSound(d)
    <3>1. h.live \subseteq Allocs /\ d.live \subseteq Allocs /\ d.live \ {c} = h.live \ {c}
      BY <1>0, <2>6
    <3>2. d.bits[c] \subseteq 0 .. H!Capacity(d, c) - 1 /\ d.count[c] = Cardinality(d.bits[c])
      BY <2>7, FS_EmptySet
    <3> QED
      BY <2>7, <3>1, <3>2, OthersBits DEF HiveGood
  <2>11. InLists(d, {}, Used(d))
    BY <2>1, <2>6, <2>9 DEF HiveGood, InLists
  <2>12. g \in H!HiveType /\ SameChunks(d, g) /\ InLists(g, {c}, Used(d)) /\ g.empty.head = c
    <3>1. c \in Allocs \ {} /\ {} \in SUBSET Allocs /\ {} \cup {c} = {c}
      OBVIOUS
    <3> QED
      BY <2>3, <2>6a, <2>11, <3>1, AddToEmptyIn
  <2>13. Roomy(g) = {c} /\ Used(g) = Used(d) /\ BitsSound(g) /\ H!Filled(g) = H!Filled(d)
    BY <2>9, <2>10, <2>12, SameChunksSame
  <2>14. H!Filled(d) = H!Filled(h)
    BY <1>0, <2>2, <2>6, <2>7 DEF H!Filled, H!Places
  <2> QED
    <3>1. HiveGood(g)
      BY <2>12, <2>13 DEF HiveGood
    <3>2. g.live = h.live \cup {c} /\ g.len = h.len
      BY <2>6, <2>12 DEF SameChunks
    <3> QED
      BY <1>2, <2>9, <2>12, <2>13, <2>14, <3>1, <3>2
<1> QED
  BY <1>1, <1>2

\* A new element has a place of its own.
LEMMA FillGood ==
  ASSUME NEW h, HiveGood(h), NEW c, c = h.empty.head, c \in Roomy(h),
         NEW r, r = H!Fill(h)
  PROVE  /\ HiveGood(r.hive) /\ Used(r.hive) = Used(h) \cup {c} /\ r.hive.live = h.live
         /\ r.place \in H!Places \ H!Filled(h)
         /\ H!Filled(r.hive) = H!Filled(h) \cup {r.place}
         /\ r.place[1] = c
         /\ r.hive.len = h.len + 1
<1> DEFINE s == H!FirstEmptySlot(h, c)
           g == [h EXCEPT !.bits[c] = @ \cup {s}, !.count[c] = @ + 1, !.len = @ + 1]
           f == IF g.count[c] = 1 THEN H!AddToFilled(g, c) ELSE g
           e == IF g.count[c] = H!Capacity(g, c) THEN H!RemoveFromEmpty(f, c) ELSE f
<1>1. r = [hive |-> e, place |-> <<c, s>>]
  BY DEF H!Fill
<1>2. /\ h \in H!HiveType /\ BitsSound(h) /\ c \in h.live /\ c \in Allocs
      /\ h.live \subseteq Allocs /\ h.count[c] < H!Capacity(h, c)
      /\ Roomy(h) \in SUBSET Allocs /\ Used(h) \in SUBSET Allocs
  BY DEF HiveGood, Roomy, Used, H!HiveType
<1>3. /\ IsFiniteSet(h.bits[c]) /\ h.count[c] = Cardinality(h.bits[c]) /\ h.count[c] \in Nat
      /\ H!Capacity(h, c) \in Nat \ {0}
      /\ h.bits[c] \subseteq 0 .. H!Capacity(h, c) - 1
      /\ 0 .. H!Capacity(h, c) - 1 \subseteq 0 .. 2 ^ LastLog2 - 1
  BY <1>2, BitsFinite
<1>4. s \in (0 .. H!Capacity(h, c) - 1) \ h.bits[c]
  BY <1>2, RoomLeft
<1> HIDE DEF s
<1>5a. g = [[[h EXCEPT !.bits[c] = h.bits[c] \cup {s}] EXCEPT !.count[c] = h.count[c] + 1]
            EXCEPT !.len = h.len + 1]
  BY <1>2 DEF H!HiveType
<1> HIDE DEF g
<1>5. /\ g.len = h.len + 1 /\ g.empty = h.empty /\ g.filled = h.filled /\ g.tail = h.tail
      /\ g.live = h.live /\ g.log2 = h.log2
      /\ g.count = [h.count EXCEPT ![c] = h.count[c] + 1]
      /\ g.bits = [h.bits EXCEPT ![c] = h.bits[c] \cup {s}]
      /\ g.nextLog2 = h.nextLog2
      /\ g = [len |-> g.len, nextLog2 |-> g.nextLog2, empty |-> g.empty, filled |-> g.filled,
              tail |-> g.tail, live |-> g.live, log2 |-> g.log2, count |-> g.count,
              bits |-> g.bits]
  BY <1>2, <1>5a DEF H!HiveType
<1>5b. g \in H!HiveType
  <2>1. g.bits \in [Allocs -> SUBSET (0 .. 2 ^ LastLog2 - 1)]
    BY <1>2, <1>3, <1>4, <1>5 DEF H!HiveType
  <2>2. g.count \in [Allocs -> Nat] /\ g.len \in Nat
    BY <1>2, <1>3, <1>5 DEF H!HiveType
  <2> QED
    BY <1>2, <1>5, <2>1, <2>2 DEF H!HiveType
<1>6. /\ \A x \in Allocs \ {c} : g.log2[x] = h.log2[x] /\ g.count[x] = h.count[x]
                                 /\ g.bits[x] = h.bits[x]
      /\ g.count[c] = h.count[c] + 1 /\ g.bits[c] = h.bits[c] \cup {s}
      /\ H!Capacity(g, c) = H!Capacity(h, c)
  BY <1>2, <1>5, <1>5b DEF H!HiveType, H!Capacity
<1> DEFINE v == IF g.count[c] = H!Capacity(g, c) THEN {} ELSE {c}
<1>7. Roomy(g) = (Roomy(h) \ {c}) \cup v /\ Used(g) = (Used(h) \ {c}) \cup {c}
  <2>1. c \in Used(g) /\ (c \in Roomy(g) <=> g.count[c] # H!Capacity(g, c))
    BY <1>2, <1>3, <1>5, <1>6 DEF Roomy, Used
  <2>2. h.live \subseteq Allocs /\ g.live \subseteq Allocs /\ g.live \ {c} = h.live \ {c}
    BY <1>2, <1>5
  <2>3. Roomy(g) \ {c} = Roomy(h) \ {c} /\ Used(g) \ {c} = Used(h) \ {c}
    BY <1>6, <2>2, OthersSame
  <2> QED
    BY <2>1, <2>3
<1>8. BitsSound(g)
  <2>1. g.bits[c] \subseteq 0 .. H!Capacity(g, c) - 1
    BY <1>3, <1>4, <1>6
  <2>2. g.count[c] = Cardinality(g.bits[c])
    <3>1. Cardinality(h.bits[c] \cup {s}) = Cardinality(h.bits[c]) + 1
      BY <1>3, <1>4, FS_AddElement
    <3> QED
      BY <1>3, <1>6, <3>1
  <2>3. h.live \subseteq Allocs /\ g.live \subseteq Allocs /\ g.live \ {c} = h.live \ {c}
    BY <1>2, <1>5
  <2> QED
    BY <1>2, <1>6, <2>1, <2>2, <2>3, OthersBits
<1>9. InLists(g, Roomy(h), Used(h))
  BY <1>5 DEF HiveGood, InLists
<1>10. f \in H!HiveType /\ SameChunks(g, f) /\ InLists(f, Roomy(h), Used(g))
  <2>1. CASE g.count[c] = 1
    <3>1. c \in Allocs \ Used(h) /\ Used(g) = Used(h) \cup {c}
      BY <1>2, <1>3, <1>6, <1>7, <2>1 DEF Used
    <3>2. f = H!AddToFilled(g, c)
      BY <2>1
    <3> QED
      BY <1>2, <1>5b, <1>9, <3>1, <3>2, AddToFilledIn
  <2>2. CASE g.count[c] # 1
    <3>1. Used(g) = Used(h)
      BY <1>2, <1>3, <1>6, <1>7, <2>2 DEF Used
    <3> QED
      BY <1>5b, <1>9, <2>2, <3>1 DEF SameChunks
  <2> QED
    BY <2>1, <2>2
<1> HIDE DEF f
<1>11. e \in H!HiveType /\ SameChunks(g, e) /\ InLists(e, Roomy(g), Used(g))
  <2>1. CASE g.count[c] = H!Capacity(g, c)
    <3>1. Roomy(g) = Roomy(h) \ {c} /\ e = H!RemoveFromEmpty(f, c)
      BY <1>7, <2>1
    <3>2. f \in H!HiveType /\ InLists(f, Roomy(h), Used(g)) /\ c \in Roomy(h)
          /\ Roomy(h) \in SUBSET Allocs
      BY <1>2, <1>10
    <3>3. e \in H!HiveType /\ SameChunks(f, e) /\ InLists(e, Roomy(h) \ {c}, Used(g))
      BY <3>1, <3>2, RemoveFromEmptyIn
    <3> QED
      BY <1>10, <3>1, <3>3 DEF SameChunks
  <2>2. CASE g.count[c] # H!Capacity(g, c)
    <3>1. Roomy(g) = Roomy(h) /\ e = f
      BY <1>7, <2>2
    <3> QED
      BY <1>10, <3>1
  <2> QED
    BY <2>1, <2>2
<1> HIDE DEF e
<1>12. HiveGood(e) /\ Used(e) = Used(g) /\ H!Filled(e) = H!Filled(g)
  <2>1. Roomy(e) = Roomy(g) /\ Used(e) = Used(g) /\ BitsSound(e) /\ H!Filled(e) = H!Filled(g)
    BY <1>8, <1>11, SameChunksSame
  <2> QED
    BY <1>11, <2>1 DEF HiveGood
<1>13. Used(g) = Used(h) \cup {c}
  BY <1>7
<1>14. <<c, s>> \in H!Places \ H!Filled(h) /\ H!Filled(g) = H!Filled(h) \cup {<<c, s>>}
  <2>1. <<c, s>> \in H!Places
    BY <1>2, <1>3, <1>4 DEF H!Places
  <2>2. \A x \in Allocs : g.bits[x] = IF x = c THEN h.bits[c] \cup {s} ELSE h.bits[x]
    BY <1>6
  <2>3. H!Filled(g) = H!Filled(h) \cup {<<c, s>>}
    BY <1>2, <1>5, <2>1, <2>2 DEF H!Filled, H!Places
  <2>4. <<c, s>> \notin H!Filled(h)
    BY <1>4 DEF H!Filled
  <2> QED
    BY <2>1, <2>3, <2>4
<1> QED
  BY <1>1, <1>5, <1>11, <1>12, <1>13, <1>14 DEF SameChunks

LEMMA DestroyIn ==
  ASSUME NEW h \in H!HiveType, NEW E, NEW F, InLists(h, E, F), BitsSound(h), NEW c \in h.live,
         NEW g, g = H!DestroyChunk(h, c)
  PROVE  /\ g \in H!HiveType /\ InLists(g, E, F) /\ BitsSound(g)
         /\ g.live = h.live \ {c} /\ g.len = h.len
         /\ Roomy(g) = Roomy(h) \ {c} /\ Used(g) = Used(h) \ {c}
         /\ H!Filled(g) = H!Filled(h) \ {p \in H!Places : p[1] = c}
<1>0. c \in Allocs /\ h.live \subseteq Allocs
  BY DEF H!HiveType
<1>1. g = [[[[h EXCEPT !.live = @ \ {c}] EXCEPT !.log2[c] = 0] EXCEPT !.count[c] = 0]
             EXCEPT !.bits[c] = {}]
  BY DEF H!DestroyChunk
<1>2. /\ g.len = h.len /\ g.empty = h.empty /\ g.filled = h.filled /\ g.tail = h.tail
      /\ g.live = h.live \ {c}
      /\ g.log2 = [h.log2 EXCEPT ![c] = 0]
      /\ g.count = [h.count EXCEPT ![c] = 0]
      /\ g.bits = [h.bits EXCEPT ![c] = {}]
      /\ g.nextLog2 = h.nextLog2
      /\ g = [len |-> g.len, nextLog2 |-> g.nextLog2, empty |-> g.empty, filled |-> g.filled,
              tail |-> g.tail, live |-> g.live, log2 |-> g.log2, count |-> g.count,
              bits |-> g.bits]
  BY <1>1 DEF H!HiveType
<1>3. g \in H!HiveType
  <2>1. 0 \in 0 .. LastLog2
    BY HiveConstants
  <2> QED
    BY <1>2, <2>1 DEF H!HiveType
<1>4. \A x \in Allocs \ {c} : g.log2[x] = h.log2[x] /\ g.count[x] = h.count[x]
                              /\ g.bits[x] = h.bits[x]
  BY <1>2 DEF H!HiveType
<1>5. h.live \subseteq Allocs /\ g.live \subseteq Allocs /\ g.live \ {c} = h.live \ {c}
      /\ c \notin g.live
  BY <1>0, <1>2
<1>6. Roomy(g) \ {c} = Roomy(h) \ {c} /\ Used(g) \ {c} = Used(h) \ {c}
  BY <1>4, <1>5, OthersSame
<1>7. Roomy(g) = Roomy(h) \ {c} /\ Used(g) = Used(h) \ {c}
  BY <1>5, <1>6 DEF Roomy, Used
<1>8. BitsSound(g)
  BY <1>4, <1>5, OthersBits
<1>9. InLists(g, E, F)
  BY <1>2 DEF InLists
<1>10. H!Filled(g) = H!Filled(h) \ {p \in H!Places : p[1] = c}
  BY <1>2, <1>4, <1>5 DEF H!Filled, H!Places
<1> QED
  BY <1>2, <1>3, <1>7, <1>8, <1>9, <1>10

\* An element gives up its own place only, and the last one of a chunk the chunk.
LEMMA RemoveGood ==
  ASSUME NEW h, HiveGood(h), Used(h) = h.live, NEW c \in h.live, NEW s \in h.bits[c],
         h.len > 0, NEW r, r = H!RemoveSlot(h, c, s)
  PROVE  /\ HiveGood(r) /\ Used(r) = r.live /\ r.live \subseteq h.live
         /\ H!Filled(r) = H!Filled(h) \ {<<c, s>>} /\ <<c, s>> \in H!Filled(h)
         /\ r.len = h.len - 1
<1> DEFINE g == [h EXCEPT !.bits[c] = @ \ {s}, !.count[c] = @ - 1, !.len = @ - 1]
           f == IF g.count[c] = H!Capacity(g, c) - 1 THEN H!AddToEmpty(g, c) ELSE g
           d == H!RemoveFromFilled(f, c)
           e == H!RemoveFromEmpty(d, c)
<1>1. r = IF g.count[c] = 0 THEN H!DestroyChunk(e, c) ELSE f
  BY DEF H!RemoveSlot
<1>2. /\ h \in H!HiveType /\ BitsSound(h) /\ c \in Allocs /\ h.len \in Nat
      /\ h.live \subseteq Allocs /\ h.count[c] > 0
      /\ Roomy(h) \in SUBSET Allocs /\ Used(h) \in SUBSET Allocs
  BY DEF HiveGood, Roomy, Used, H!HiveType
<1>3. /\ IsFiniteSet(h.bits[c]) /\ h.count[c] = Cardinality(h.bits[c]) /\ h.count[c] \in Nat
      /\ H!Capacity(h, c) \in Nat \ {0}
      /\ h.bits[c] \subseteq 0 .. H!Capacity(h, c) - 1
      /\ 0 .. H!Capacity(h, c) - 1 \subseteq 0 .. 2 ^ LastLog2 - 1
  BY <1>2, BitsFinite
<1>3a. h.count[c] <= H!Capacity(h, c)
  <2> DEFINE cap == H!Capacity(h, c)
  <2>1. cap \in Nat \ {0} /\ h.bits[c] \subseteq 0 .. cap - 1
    BY <1>3
  <2> HIDE DEF cap
  <2>2. 0 \in Int /\ cap - 1 \in Int /\ ~(0 > cap - 1) /\ (cap - 1) - 0 + 1 = cap
    BY <2>1
  <2>3. IsFiniteSet(0 .. cap - 1) /\ Cardinality(0 .. cap - 1) = cap
    BY <2>2, FS_Interval
  <2>4. Cardinality(h.bits[c]) <= Cardinality(0 .. cap - 1)
    BY <2>1, <2>3, FS_Subset
  <2> QED
    BY <1>3, <2>3, <2>4 DEF cap
<1>4. g = [[[h EXCEPT !.bits[c] = h.bits[c] \ {s}] EXCEPT !.count[c] = h.count[c] - 1]
            EXCEPT !.len = h.len - 1]
  BY <1>2 DEF H!HiveType
<1> HIDE DEF g
<1>5. /\ g.len = h.len - 1 /\ g.empty = h.empty /\ g.filled = h.filled /\ g.tail = h.tail
      /\ g.live = h.live /\ g.log2 = h.log2
      /\ g.count = [h.count EXCEPT ![c] = h.count[c] - 1]
      /\ g.bits = [h.bits EXCEPT ![c] = h.bits[c] \ {s}]
      /\ g.nextLog2 = h.nextLog2
      /\ g = [len |-> g.len, nextLog2 |-> g.nextLog2, empty |-> g.empty, filled |-> g.filled,
              tail |-> g.tail, live |-> g.live, log2 |-> g.log2, count |-> g.count,
              bits |-> g.bits]
  BY <1>2, <1>4 DEF H!HiveType
<1>5b. g \in H!HiveType
  <2>1. g.bits \in [Allocs -> SUBSET (0 .. 2 ^ LastLog2 - 1)]
    BY <1>2, <1>3, <1>5 DEF H!HiveType
  <2>2. g.count \in [Allocs -> Nat] /\ g.len \in Nat
    <3>1. h.count[c] - 1 \in Nat /\ h.len - 1 \in Nat
      BY <1>2, <1>3
    <3> QED
      BY <1>2, <1>5, <3>1 DEF H!HiveType
  <2> QED
    BY <1>2, <1>5, <2>1, <2>2 DEF H!HiveType
<1>6. /\ \A x \in Allocs \ {c} : g.log2[x] = h.log2[x] /\ g.count[x] = h.count[x]
                                 /\ g.bits[x] = h.bits[x]
      /\ g.count[c] = h.count[c] - 1 /\ g.bits[c] = h.bits[c] \ {s}
      /\ H!Capacity(g, c) = H!Capacity(h, c)
  BY <1>2, <1>5, <1>5b DEF H!HiveType, H!Capacity
<1>7. /\ Roomy(g) = Roomy(h) \cup {c} /\ c \in Used(h)
      /\ Used(g) = IF g.count[c] = 0 THEN Used(h) \ {c} ELSE Used(h)
  <2>1. c \in Roomy(g) /\ c \in Used(h) /\ (c \in Used(g) <=> g.count[c] # 0)
    BY <1>2, <1>3, <1>3a, <1>5, <1>6 DEF Roomy, Used
  <2>2. h.live \subseteq Allocs /\ g.live \subseteq Allocs /\ g.live \ {c} = h.live \ {c}
    BY <1>2, <1>5
  <2>3. Roomy(g) \ {c} = Roomy(h) \ {c} /\ Used(g) \ {c} = Used(h) \ {c}
    BY <1>6, <2>2, OthersSame
  <2> QED
    BY <2>1, <2>3
<1>8. BitsSound(g)
  <2>1. g.bits[c] \subseteq 0 .. H!Capacity(g, c) - 1
    BY <1>3, <1>6
  <2>2. g.count[c] = Cardinality(g.bits[c])
    <3>1. Cardinality(h.bits[c] \ {s}) = Cardinality(h.bits[c]) - 1
      BY <1>3, FS_RemoveElement
    <3> QED
      BY <1>3, <1>6, <3>1
  <2>3. h.live \subseteq Allocs /\ g.live \subseteq Allocs /\ g.live \ {c} = h.live \ {c}
    BY <1>2, <1>5
  <2> QED
    BY <1>2, <1>6, <2>1, <2>2, <2>3, OthersBits
<1>9. InLists(g, Roomy(h), Used(h))
  BY <1>5 DEF HiveGood, InLists
<1>10. f \in H!HiveType /\ SameChunks(g, f) /\ InLists(f, Roomy(g), Used(h))
  <2>1. CASE g.count[c] = H!Capacity(g, c) - 1
    <3>1. c \in Allocs \ Roomy(h)
      BY <1>2, <1>3, <1>6, <2>1 DEF Roomy
    <3>2. f = H!AddToEmpty(g, c)
      BY <2>1
    <3>3. f \in H!HiveType /\ SameChunks(g, f) /\ InLists(f, Roomy(h) \cup {c}, Used(h))
      BY <1>2, <1>5b, <1>9, <3>1, <3>2, AddToEmptyIn
    <3> QED
      BY <1>7, <3>3
  <2>2. CASE g.count[c] # H!Capacity(g, c) - 1
    <3>1. c \in Roomy(h)
      BY <1>2, <1>3, <1>3a, <1>6, <2>2 DEF Roomy
    <3>2. Roomy(g) = Roomy(h)
      BY <1>7, <3>1
    <3> QED
      BY <1>5b, <1>9, <2>2, <3>2 DEF SameChunks
  <2> QED
    BY <2>1, <2>2
<1> HIDE DEF f
<1>11. <<c, s>> \in H!Filled(h) /\ H!Filled(g) = H!Filled(h) \ {<<c, s>>}
  <2>1. <<c, s>> \in H!Filled(h)
    BY <1>2, <1>3 DEF H!Filled, H!Places
  <2>2. \A x \in Allocs : g.bits[x] = IF x = c THEN h.bits[c] \ {s} ELSE h.bits[x]
    BY <1>6
  <2> QED
    BY <1>2, <1>5, <2>1, <2>2 DEF H!Filled, H!Places
<1>12. CASE g.count[c] # 0
  <2>1. Roomy(f) = Roomy(g) /\ Used(f) = Used(g) /\ BitsSound(f) /\ H!Filled(f) = H!Filled(g)
    BY <1>8, <1>10, SameChunksSame
  <2>2. f.live = h.live /\ f.len = h.len - 1 /\ r = f /\ Used(g) = Used(h)
    BY <1>1, <1>5, <1>7, <1>10, <1>12 DEF SameChunks
  <2> QED
    BY <1>10, <1>11, <2>1, <2>2 DEF HiveGood
<1>13. CASE g.count[c] = 0
  <2>1. d \in H!HiveType /\ SameChunks(f, d) /\ InLists(d, Roomy(g), Used(h) \ {c})
    BY <1>2, <1>7, <1>10, RemoveFromFilledIn
  <2> HIDE DEF d
  <2>2. e \in H!HiveType /\ SameChunks(d, e) /\ InLists(e, Roomy(g) \ {c}, Used(h) \ {c})
    <3>1. c \in Roomy(g) /\ Roomy(g) \in SUBSET Allocs
      BY <1>2, <1>7
    <3> QED
      BY <2>1, <3>1, RemoveFromEmptyIn
  <2> HIDE DEF e
  <2>3. SameChunks(g, e)
    BY <1>10, <2>1, <2>2 DEF SameChunks
  <2>4. Roomy(e) = Roomy(g) /\ Used(e) = Used(g) /\ BitsSound(e) /\ H!Filled(e) = H!Filled(g)
    BY <1>8, <2>3, SameChunksSame
  <2>5. e.live = h.live /\ e.len = h.len - 1 /\ r = H!DestroyChunk(e, c)
    BY <1>1, <1>5, <1>13, <2>3 DEF SameChunks
  <2>6. /\ r \in H!HiveType /\ InLists(r, Roomy(g) \ {c}, Used(h) \ {c}) /\ BitsSound(r)
        /\ r.live = e.live \ {c} /\ r.len = e.len
        /\ Roomy(r) = Roomy(e) \ {c} /\ Used(r) = Used(e) \ {c}
        /\ H!Filled(r) = H!Filled(e) \ {p \in H!Places : p[1] = c}
    <3>1. c \in e.live
      BY <2>5
    <3> QED
      BY <2>2, <2>4, <2>5, <3>1, DestroyIn
  <2>7. Used(r) = Used(h) \ {c} /\ Roomy(r) = Roomy(g) \ {c} /\ Used(r) = r.live
    BY <1>7, <1>13, <2>4, <2>5, <2>6
  <2>8. \A p \in H!Filled(e) : p[1] # c
    <3>1. g.bits[c] = {}
      <4>1. c \in g.live
        BY <1>5
      <4>2. IsFiniteSet(g.bits[c]) /\ Cardinality(g.bits[c]) = 0
        BY <1>8, <1>13, <1>5b, <4>1, BitsFinite
      <4> QED
        BY <4>2, FS_EmptySet
    <3> QED
      BY <2>4, <3>1 DEF H!Filled
  <2>9. H!Filled(r) = H!Filled(h) \ {<<c, s>>}
    BY <1>11, <2>4, <2>6, <2>8
  <2> QED
    BY <1>11, <2>5, <2>6, <2>7, <2>9 DEF HiveGood
<1> QED
  BY <1>12, <1>13

(***************************************************************************)
(* The hive: clear()                                                       *)
(***************************************************************************)
LEMMA ClearOneGood ==
  ASSUME NEW h, HiveGood(h), NEW g, g = H!ClearOne(h)
  PROVE  /\ HiveGood(g) /\ g.live \subseteq h.live
         /\ h.live # {} => \E c \in h.live : g.live = h.live \ {c}
<1> DEFINE c == h.filled.head
           e == h.empty.head
           r == H!RemoveFromFilled(h, c)
           k == IF h.count[c] < H!Capacity(h, c) THEN H!RemoveFromEmpty(r, c) ELSE r
           q == H!RemoveFromEmpty(h, e)
<1>1. /\ c # NULL => g = H!DestroyChunk(k, c)
      /\ c = NULL /\ e # NULL => g = H!DestroyChunk(q, e)
      /\ c = NULL /\ e = NULL => g = h
  BY DEF H!ClearOne
<1>2. /\ h \in H!HiveType /\ BitsSound(h) /\ h.live \subseteq Allocs
      /\ InLists(h, Roomy(h), Used(h))
      /\ Roomy(h) \in SUBSET Allocs /\ Used(h) \in SUBSET Allocs
      /\ Roomy(h) \subseteq h.live /\ Used(h) \subseteq h.live
  BY DEF HiveGood, Roomy, Used, H!HiveType
<1>3. CASE c # NULL
  <2>1. c \in Used(h) /\ c \in h.live
    BY <1>2, <1>3 DEF InLists, Tidy, Chained
  <2> HIDE DEF c
  <2>2. r \in H!HiveType /\ SameChunks(h, r) /\ InLists(r, Roomy(h), Used(h) \ {c})
    BY <1>2, <2>1, RemoveFromFilledIn
  <2> HIDE DEF r
  <2>3. k \in H!HiveType /\ SameChunks(h, k) /\ InLists(k, Roomy(h) \ {c}, Used(h) \ {c})
    <3>1. CASE h.count[c] < H!Capacity(h, c)
      <4>1. c \in Roomy(h) /\ k = H!RemoveFromEmpty(r, c)
        BY <2>1, <3>1 DEF Roomy
      <4> HIDE DEF k
      <4>2. k \in H!HiveType /\ SameChunks(r, k) /\ InLists(k, Roomy(h) \ {c}, Used(h) \ {c})
        BY <1>2, <2>2, <4>1, RemoveFromEmptyIn
      <4> QED
        BY <2>2, <4>2 DEF SameChunks
    <3>2. CASE ~ (h.count[c] < H!Capacity(h, c))
      <4>1. Roomy(h) \ {c} = Roomy(h) /\ k = r
        BY <3>2 DEF Roomy
      <4> QED
        BY <2>2, <4>1
    <3> QED
      BY <3>1, <3>2
  <2> HIDE DEF k
  <2>4. Roomy(k) = Roomy(h) /\ Used(k) = Used(h) /\ BitsSound(k)
    BY <1>2, <2>3, SameChunksSame
  <2>5. k.live = h.live /\ g = H!DestroyChunk(k, c)
    BY <1>1, <1>3, <2>3 DEF SameChunks
  <2>6. /\ g \in H!HiveType /\ InLists(g, Roomy(h) \ {c}, Used(h) \ {c}) /\ BitsSound(g)
        /\ g.live = k.live \ {c} /\ Roomy(g) = Roomy(k) \ {c} /\ Used(g) = Used(k) \ {c}
    BY <2>1, <2>3, <2>4, <2>5, DestroyIn
  <2> QED
    BY <2>1, <2>4, <2>5, <2>6 DEF HiveGood
<1>4. CASE c = NULL
  <2>1. Used(h) = {}
    BY <1>2, <1>4, HiveConstants, HeadOfMembers DEF InLists, Tidy
  <2>2. CASE e # NULL
    <3>1. e \in Roomy(h) /\ e \in h.live
      BY <1>2, <2>2 DEF InLists, Tidy, Chained
    <3> HIDE DEF e
    <3>2. q \in H!HiveType /\ SameChunks(h, q) /\ InLists(q, Roomy(h) \ {e}, Used(h))
      BY <1>2, <3>1, RemoveFromEmptyIn
    <3> HIDE DEF q
    <3>3. Roomy(q) = Roomy(h) /\ Used(q) = Used(h) /\ BitsSound(q)
      BY <1>2, <3>2, SameChunksSame
    <3>4. q.live = h.live /\ g = H!DestroyChunk(q, e)
      BY <1>1, <1>4, <2>2, <3>2 DEF SameChunks
    <3>5. /\ g \in H!HiveType /\ InLists(g, Roomy(h) \ {e}, Used(h)) /\ BitsSound(g)
          /\ g.live = q.live \ {e} /\ Roomy(g) = Roomy(q) \ {e} /\ Used(g) = Used(q) \ {e}
      BY <3>1, <3>2, <3>3, <3>4, DestroyIn
    <3>6. Used(g) = Used(h)
      BY <2>1, <3>3, <3>5
    <3> QED
      BY <3>1, <3>3, <3>4, <3>5, <3>6 DEF HiveGood
  <2>3. CASE e = NULL
    <3>1. Roomy(h) = {}
      BY <1>2, <2>3, HiveConstants, HeadOfMembers DEF InLists, Tidy
    <3>2. h.live = {}
      <4>1. SUFFICES ASSUME NEW x \in h.live PROVE FALSE
        OBVIOUS
      <4>2. h.count[x] \in Nat /\ H!Capacity(h, x) \in Nat \ {0}
        BY <1>2, BitsFinite
      <4> QED
        BY <2>1, <3>1, <4>2 DEF Roomy, Used
    <3>3. g = h
      BY <1>1, <1>4, <2>3
    <3> QED
      BY <3>2, <3>3
  <2> QED
    BY <2>2, <2>3
<1> QED
  BY <1>3, <1>4

\* The walk of clear() over the chunks, up to the k-th.
IsClearing(f, h, k) == f = [n \in 0 .. k |-> IF n = 0 THEN h ELSE H!ClearOne(f[n - 1])]

LEMMA ClearingExists ==
  ASSUME NEW h, NEW N \in Nat
  PROVE  \E f : IsClearing(f, h, N)
<1> DEFINE Bad == {k \in Nat : ~ \E f : IsClearing(f, h, k)}
<1>1. SUFFICES ASSUME Bad # {} PROVE FALSE
  OBVIOUS
<1>2. Min(Bad) \in Bad /\ \A k \in Bad : Min(Bad) <= k
  BY <1>1, MinOfNaturals
<1>3. PICK z \in Nat : z \in Bad /\ \A k \in Bad : z <= k
  BY <1>2
<1>4. z # 0
  <2>1. IsClearing([n \in 0 .. 0 |-> h], h, 0)
    BY DEF IsClearing
  <2> QED
    BY <1>3, <2>1
<1>5. PICK j \in Nat : z = j + 1
  BY <1>4
<1>6. PICK f : IsClearing(f, h, j)
  BY <1>3, <1>5
<1> DEFINE g == [n \in 0 .. z |-> IF n <= j THEN f[n] ELSE H!ClearOne(f[j])]
<1>7. ASSUME NEW n \in 0 .. z
      PROVE  g[n] = IF n = 0 THEN h ELSE H!ClearOne(g[n - 1])
  <2>1. CASE n = 0
    BY <1>5, <1>6, <2>1 DEF IsClearing
  <2>2. CASE n # 0 /\ n <= j
    <3>1. f[n] = H!ClearOne(f[n - 1])
      BY <1>6, <2>2 DEF IsClearing
    <3>2. g[n] = f[n] /\ g[n - 1] = f[n - 1]
      BY <1>5, <2>2
    <3> QED
      BY <2>2, <3>1, <3>2
  <2>3. CASE n = z
    <3>1. g[n] = H!ClearOne(f[j]) /\ g[n - 1] = f[j]
      BY <1>5, <2>3
    <3> QED
      BY <1>4, <2>3, <3>1
  <2> QED
    BY <1>5, <2>1, <2>2, <2>3
<1>8. IsClearing(g, h, z)
  BY <1>7, Zenon DEF IsClearing
<1> HIDE DEF g
<1> QED
  BY <1>3, <1>8

\* clear() destroys all chunks.
LEMMA ClearedGood ==
  ASSUME NEW h, HiveGood(h), NEW g, g = H!Cleared(h)
  PROVE  HiveGood(g) /\ g.live = {} /\ g.len = 0
<1> DEFINE N == Cardinality(Allocs)
<1>1. N \in Nat /\ IsFiniteSet(Allocs)
  BY HiveConstants, FS_CardinalityType
<1>2. PICK f : IsClearing(f, h, N) /\ H!ClearLists(h) = f[N]
  <2>1. \E f : IsClearing(f, h, N)
    BY <1>1, ClearingExists
  <2> DEFINE a == CHOOSE f : f = [n \in 0 .. N |-> IF n = 0 THEN h ELSE H!ClearOne(f[n - 1])]
  <2>2. IsClearing(a, h, N)
    BY <2>1 DEF IsClearing
  <2>3. H!ClearLists(h) = a[N]
    BY HiveCounts DEF H!ClearLists
  <2> QED
    BY <2>2, <2>3
<1> HIDE DEF N
<1>3. f[0] = h /\ \A n \in 0 .. N : n # 0 => f[n] = H!ClearOne(f[n - 1])
  BY <1>1, <1>2 DEF IsClearing
<1> DEFINE Good(n) == HiveGood(f[n]) /\ (f[n].live = {} \/ Cardinality(f[n].live) + n <= N)
           Bad == {n \in 0 .. N : ~ Good(n)}
<1>4. Bad = {}
  <2>1. SUFFICES ASSUME Bad # {} PROVE FALSE
    OBVIOUS
  <2>2. Min(Bad) \in Bad /\ \A k \in Bad : Min(Bad) <= k
    BY <2>1, MinOfNaturals
  <2>3. PICK z \in 0 .. N : z \in Bad /\ \A k \in Bad : z <= k
    BY <2>2
  <2>4. z # 0
    <3>1. h.live \subseteq Allocs
      BY DEF HiveGood, H!HiveType
    <3>2. Cardinality(h.live) <= N /\ Cardinality(h.live) \in Nat
      BY <1>1, <3>1, FS_Subset, FS_CardinalityType DEF N
    <3>3. Good(0)
      BY <1>3, <3>2
    <3> QED
      BY <2>3, <3>3
  <2>5. Good(z - 1)
    <3>1. z - 1 \in 0 .. N /\ ~ (z <= z - 1)
      BY <1>1, <2>3, <2>4
    <3> HIDE DEF Good
    <3> QED
      BY <2>3, <3>1
  <2>6. f[z] = H!ClearOne(f[z - 1])
    BY <1>3, <2>4
  <2> DEFINE u == f[z - 1]
             v == f[z]
  <2>7. HiveGood(v) /\ v.live \subseteq u.live /\ (u.live # {} => \E c \in u.live : v.live = u.live \ {c})
    BY <2>5, <2>6, ClearOneGood
  <2>8. v.live = {} \/ Cardinality(v.live) + z <= N
    <3>1. CASE u.live = {}
      BY <2>7, <3>1
    <3>2. CASE u.live # {}
      <4>1. PICK c \in u.live : v.live = u.live \ {c}
        BY <2>7, <3>2
      <4>2. IsFiniteSet(u.live)
        <5>1. u.live \subseteq Allocs
          BY <2>5 DEF HiveGood, H!HiveType
        <5> QED
          BY <1>1, <5>1, FS_Subset
      <4>3. Cardinality(v.live) = Cardinality(u.live) - 1 /\ Cardinality(u.live) \in Nat
        BY <4>1, <4>2, FS_RemoveElement, FS_CardinalityType
      <4>4. Cardinality(u.live) + (z - 1) <= N
        BY <2>5, <3>2
      <4> HIDE DEF u, v
      <4> QED
        BY <1>1, <4>3, <4>4
    <3> QED
      BY <3>1, <3>2
  <2> QED
    BY <2>3, <2>7, <2>8
<1>5. HiveGood(f[N]) /\ f[N].live = {}
  <2>1. Good(N)
    BY <1>1, <1>4
  <2>2. f[N].live \subseteq Allocs
    BY <2>1 DEF HiveGood, H!HiveType
  <2>3. IsFiniteSet(f[N].live)
    BY <1>1, <2>2, FS_Subset
  <2>4. Cardinality(f[N].live) \in Nat
    BY <2>3, FS_CardinalityType
  <2>5. f[N].live # {} => Cardinality(f[N].live) = 0
    BY <1>1, <2>1, <2>4
  <2> QED
    BY <2>1, <2>3, <2>5, FS_EmptySet
<1> DEFINE x == f[N]
<1> HIDE DEF x
<1>6. g = [[x EXCEPT !.len = 0] EXCEPT !.nextLog2 = FirstLog2]
  BY <1>2 DEF H!Cleared, x
<1>7. x \in H!HiveType /\ FirstLog2 \in 0 .. LastLog2
  BY <1>5, HiveConstants DEF HiveGood, x
<1>8. /\ g.len = 0 /\ g.empty = x.empty /\ g.filled = x.filled /\ g.tail = x.tail
      /\ g.live = x.live /\ g.log2 = x.log2 /\ g.count = x.count /\ g.bits = x.bits
      /\ g.nextLog2 = FirstLog2
      /\ g = [len |-> g.len, nextLog2 |-> g.nextLog2, empty |-> g.empty, filled |-> g.filled,
              tail |-> g.tail, live |-> g.live, log2 |-> g.log2, count |-> g.count,
              bits |-> g.bits]
  BY <1>6, <1>7 DEF H!HiveType
<1>8a. g \in H!HiveType
  BY <1>7, <1>8 DEF H!HiveType
<1>9. g.live = {} /\ Roomy(g) = {} /\ Used(g) = {} /\ Roomy(x) = {} /\ Used(x) = {}
  BY <1>5, <1>8 DEF x, Roomy, Used
<1>10. InLists(g, {}, {})
  BY <1>5, <1>8, <1>9 DEF x, HiveGood, InLists
<1> QED
  BY <1>8, <1>8a, <1>9, <1>10 DEF HiveGood, BitsSound

(***************************************************************************)
(* The hive: iteration                                                     *)
(***************************************************************************)
LEMMA FilledSlots ==
  ASSUME NEW h, HiveGood(h), Used(h) = h.live, NEW c \in h.live
  PROVE  /\ H!FirstFilledSlot(h, c) \in h.bits[c]
         /\ H!LastFilledSlot(h, c) \in h.bits[c]
         /\ \A s \in h.bits[c] : s < H!Capacity(h, c) /\ <<c, s>> \in H!Filled(h)
<1> DEFINE cap == H!Capacity(h, c)
           S == h.bits[c]
<1>1. /\ h \in H!HiveType /\ BitsSound(h) /\ c \in Allocs /\ h.count[c] > 0
  BY DEF HiveGood, Used, H!HiveType
<1>2. /\ cap \in Nat \ {0} /\ S \subseteq 0 .. cap - 1 /\ IsFiniteSet(S)
      /\ Cardinality(S) = h.count[c] /\ 0 .. cap - 1 \subseteq 0 .. 2 ^ LastLog2 - 1
  BY <1>1, BitsFinite
<1>3. PICK s \in S : TRUE
  BY <1>1, <1>2, FS_EmptySet
<1>4. H!NumWords(h, c) = (cap + Word - 1) \div Word
  BY DEF H!NumWords
<1>5. \A x \in S : x < cap /\ <<c, x>> \in H!Filled(h)
  BY <1>1, <1>2 DEF H!Filled, H!Places
<1> HIDE DEF cap
<1>6. s \div Word \in 0 .. H!NumWords(h, c) - 1
  BY <1>2, <1>3, <1>4, WordOfSlot
<1>7. H!Upwards(S, 0, H!NumWords(h, c), cap) \in S
  <2>1. S \in SUBSET Nat
    BY <1>2
  <2> HIDE DEF S
  <2> QED
    BY <1>3, <1>6, <2>1, UpwardsIn
<1>8. H!Downwards(S, H!NumWords(h, c) - 1, cap) \in S
  <2>1. cap - 1 \in Nat /\ S \in SUBSET (0 .. cap - 1)
    BY <1>2
  <2>2. H!NumWords(h, c) - 1 \in Int
    <3>1. Word \in Nat \ {0}
      BY HiveConstants
    <3>2. cap + Word - 1 \in Nat
      BY <1>2, <3>1
    <3>3. (cap + Word - 1) \div Word \in Int
      BY <3>1, <3>2
    <3> QED
      BY <1>4, <3>3
  <2> HIDE DEF S
  <2>3. PICK w \in Int : w = H!NumWords(h, c) - 1
    BY <2>2
  <2>4. \E x \in S : x \div Word \in 0 .. w
    BY <1>3, <1>6, <2>3
  <2>5. H!Downwards(S, w, cap) \in S
    BY <2>1, <2>4, DownwardsIn
  <2> QED
    BY <2>3, <2>5
<1> QED
  BY <1>5, <1>7, <1>8 DEF S, cap, H!FirstFilledSlot, H!LastFilledSlot

LEMMA NeighbourSlots ==
  ASSUME NEW h, HiveGood(h), NEW c \in h.live, NEW s \in h.bits[c]
  PROVE  /\ H!NextFilledSlot(h, c, s) \in h.bits[c] \cup {H!Capacity(h, c)}
         /\ H!PrevFilledSlot(h, c, s) \in h.bits[c] \cup {H!Capacity(h, c)}
<1> DEFINE cap == H!Capacity(h, c)
           A == {b \in h.bits[c] : b > s}
           B == {b \in h.bits[c] : b < s}
<1>1. /\ h \in H!HiveType /\ BitsSound(h)
  BY DEF HiveGood
<1>2. cap \in Nat \ {0} /\ h.bits[c] \subseteq 0 .. cap - 1
  BY <1>1, BitsFinite
<1>3. Word \in Nat \ {0} /\ s \in Nat
  BY <1>2, HiveConstants
<1> HIDE DEF cap
<1>4. H!NextFilledSlot(h, c, s) \in h.bits[c] \cup {cap}
  <2>1. A \in SUBSET Nat /\ A \subseteq h.bits[c]
    BY <1>2
  <2>2. (s + 1) \div Word \in Nat
    BY <1>3
  <2>3. H!Upwards(A, (s + 1) \div Word, H!NumWords(h, c), cap) \in A \cup {cap}
    BY <2>1, <2>2, UpwardsIn
  <2> QED
    BY <2>1, <2>3 DEF cap, H!NextFilledSlot
<1>5. H!PrevFilledSlot(h, c, s) \in h.bits[c] \cup {cap}
  <2>1. cap - 1 \in Nat /\ B \in SUBSET (0 .. cap - 1) /\ B \subseteq h.bits[c]
    BY <1>2
  <2>2. (s - 1) \div Word \in Int
    BY <1>3
  <2>3. H!Downwards(B, (s - 1) \div Word, cap) \in B \cup {cap}
    BY <2>1, <2>2, DownwardsIn
  <2> QED
    BY <2>1, <2>3 DEF cap, H!PrevFilledSlot
<1> QED
  BY <1>4, <1>5 DEF cap

\* Every chunk in the list has an element, so that the walk ends where it starts.
LEMMA AlongIn ==
  ASSUME NEW h, h.live \subseteq Allocs, NEW c \in h.live \cup {NULL}, NEW l,
         \A d \in Allocs \ h.live : l[d] = NULL, NEW slot,
         \A d \in h.live : slot[d] < H!Capacity(h, d)
  PROVE  H!Along(h, c, l, slot) = IF c = NULL THEN NoHandle ELSE <<c, slot[c]>>
<1> DEFINE Ends(f) ==
             f = [d \in Allocs \cup {NULL} |->
                    CASE d = NULL -> NoHandle
                      [] d # NULL /\ slot[d] < H!Capacity(h, d) -> <<d, slot[d]>>
                      [] OTHER -> f[l[d]]]
           a == CHOOSE f : Ends(f)
           e == [d \in Allocs \cup {NULL} |->
                   IF d # NULL /\ slot[d] < H!Capacity(h, d) THEN <<d, slot[d]>> ELSE NoHandle]
<1>0. NULL \notin Allocs
  BY HiveConstants
<1>1. Ends(e)
  <2>1. ASSUME NEW d \in Allocs \cup {NULL}
        PROVE  e[d] = CASE d = NULL -> NoHandle
                        [] d # NULL /\ slot[d] < H!Capacity(h, d) -> <<d, slot[d]>>
                        [] OTHER -> e[l[d]]
    <3>1. CASE d = NULL
      BY <3>1
    <3>2. CASE d # NULL /\ slot[d] < H!Capacity(h, d)
      BY <3>2
    <3>3. CASE d # NULL /\ ~ (slot[d] < H!Capacity(h, d))
      <4>1. l[d] = NULL
        BY <3>3
      <4>2. e[d] = NoHandle /\ e[l[d]] = NoHandle
        BY <3>3, <4>1
      <4> QED
        BY <3>3, <4>2
    <3> QED
      BY <3>1, <3>2, <3>3
  <2> QED
    BY <2>1, Zenon
<1>2. Ends(a)
  <2> HIDE DEF Ends, e
  <2> QED
    BY <1>1
<1>3. H!Along(h, c, l, slot) = a[c]
  BY DEF H!Along
<1> HIDE DEF a
<1>4. a[NULL] = NoHandle /\ \A d \in h.live : a[d] = <<d, slot[d]>>
  <2>1. a[NULL] = NoHandle
    BY <1>2
  <2>2. ASSUME NEW d \in h.live PROVE a[d] = <<d, slot[d]>>
    BY <1>0, <1>2
  <2> QED
    BY <2>1, <2>2
<1> QED
  BY <1>0, <1>3, <1>4

\* The walks only meet elements.
LEMMA WalksIn ==
  ASSUME NEW h, HiveGood(h), Used(h) = h.live
  PROVE  /\ \A c \in h.live \cup {NULL} : H!Forward(h, c) \in H!Filled(h) \cup {NoHandle}
         /\ \A c \in h.live \cup {NULL} : H!Backward(h, c) \in H!Filled(h) \cup {NoHandle}
<1> DEFINE first == [d \in h.live |-> H!FirstFilledSlot(h, d)]
           last  == [d \in h.live |-> H!LastFilledSlot(h, d)]
<1>0. h.live \subseteq Allocs
  BY DEF HiveGood, H!HiveType
<1>1. /\ \A d \in Allocs \ h.live : h.filled.next[d] = NULL
      /\ \A d \in Allocs \ h.live : h.filled.prev[d] = NULL
  BY DEF HiveGood, InLists, Tidy
<1>2. /\ \A d \in h.live : first[d] < H!Capacity(h, d)
      /\ \A d \in h.live : <<d, first[d]>> \in H!Filled(h)
      /\ \A d \in h.live : last[d] < H!Capacity(h, d)
      /\ \A d \in h.live : <<d, last[d]>> \in H!Filled(h)
  BY FilledSlots
<1>3. /\ \A c : H!Forward(h, c) = H!Along(h, c, h.filled.next, first)
      /\ \A c : H!Backward(h, c) = H!Along(h, c, h.filled.prev, last)
  BY DEF H!Forward, H!Backward
<1> HIDE DEF first, last
<1>4. ASSUME NEW c \in h.live \cup {NULL}
      PROVE  H!Forward(h, c) \in H!Filled(h) \cup {NoHandle}
  <2>1. H!Forward(h, c) = IF c = NULL THEN NoHandle ELSE <<c, first[c]>>
    BY <1>0, <1>1, <1>2, <1>3, AlongIn
  <2> QED
    BY <1>2, <2>1
<1>5. ASSUME NEW c \in h.live \cup {NULL}
      PROVE  H!Backward(h, c) \in H!Filled(h) \cup {NoHandle}
  <2>1. H!Backward(h, c) = IF c = NULL THEN NoHandle ELSE <<c, last[c]>>
    BY <1>0, <1>1, <1>2, <1>3, AlongIn
  <2> QED
    BY <1>2, <2>1
<1> QED
  BY <1>4, <1>5

LEMMA EndsIn ==
  ASSUME NEW h, HiveGood(h), Used(h) = h.live
  PROVE  H!Front(h) \in H!Filled(h) \cup {NoHandle} /\ H!Back(h) \in H!Filled(h) \cup {NoHandle}
<1>1. h.filled.head \in h.live \cup {NULL} /\ h.tail \in h.live \cup {NULL}
  BY DEF HiveGood, InLists, Tidy, Chained, IsTail
<1> QED
  BY <1>1, WalksIn DEF H!Front, H!Back

LEMMA NeighboursIn ==
  ASSUME NEW h, HiveGood(h), Used(h) = h.live, NEW p \in H!Filled(h)
  PROVE  H!NextOf(h, p) \in H!Filled(h) \cup {NoHandle} /\ H!PrevOf(h, p) \in H!Filled(h) \cup {NoHandle}
<1> DEFINE c == p[1]
           s == H!NextFilledSlot(h, c, p[2])
           t == H!PrevFilledSlot(h, c, p[2])
           cap == H!Capacity(h, c)
<1>1. c \in h.live /\ p[2] \in h.bits[c]
  BY DEF H!Filled
<1>2. s \in h.bits[c] \cup {cap} /\ t \in h.bits[c] \cup {cap}
  BY <1>1, NeighbourSlots
<1>3. \A x \in h.bits[c] : <<c, x>> \in H!Filled(h)
  BY <1>1, FilledSlots
<1>4. h.filled.next[c] \in h.live \cup {NULL} /\ h.filled.prev[c] \in h.live \cup {NULL}
  BY <1>1 DEF HiveGood, InLists, Tidy, Chained
<1>5. cap \in Nat
  BY <1>1, BitsFinite DEF HiveGood
<1>6. /\ H!NextOf(h, p) = IF s < cap THEN <<c, s>> ELSE H!Forward(h, h.filled.next[c])
      /\ H!PrevOf(h, p) = IF t < cap THEN <<c, t>> ELSE H!Backward(h, h.filled.prev[c])
  BY DEF H!NextOf, H!PrevOf
<1>7. H!Forward(h, h.filled.next[c]) \in H!Filled(h) \cup {NoHandle}
  BY <1>4, WalksIn
<1>8. H!Backward(h, h.filled.prev[c]) \in H!Filled(h) \cup {NoHandle}
  BY <1>4, WalksIn
<1> HIDE DEF s, t, cap, c
<1>9. ~ (cap < cap)
  BY <1>5
<1> QED
  BY <1>2, <1>3, <1>6, <1>7, <1>8, <1>9

(***************************************************************************)
(* The hive: its invariant                                                 *)
(***************************************************************************)

\* The lists and bitmaps agree, a chunk without elements is gone, the counters are
\* exact, and chunks live as long as their elements and handles.
HiveInv ==
  /\ HiveGood(hive)
  /\ Used(hive) = hive.live
  /\ hive.len = Cardinality(H!Filled(hive))
  /\ tomb \subseteq Allocs \ hive.live
  /\ handle \in [HiveHandles -> H!Places \cup {NoHandle}]
  /\ H!TombstonesHeld
  /\ stopped \in BOOLEAN

LEMMA HiveInvInit == H!Init => HiveInv
<1> SUFFICES ASSUME H!Init PROVE HiveInv
  OBVIOUS
<1> DEFINE n == H!NewHive
<1>1. hive = n /\ tomb = {} /\ handle = [h \in HiveHandles |-> NoHandle] /\ stopped = FALSE
  BY DEF H!Init
<1>2. /\ n.len = 0 /\ n.empty = H!EmptyList(Allocs) /\ n.filled = H!EmptyList(Allocs)
      /\ n.tail = NULL /\ n.live = {}
  BY DEF H!NewHive
<1>3. H!EmptyList(Allocs) \in H!ListType
  BY DEF H!EmptyList, H!ListType
<1>4. n \in H!HiveType
  <2>1. FirstLog2 \in 0 .. LastLog2 /\ 0 \in 0 .. LastLog2
    BY HiveConstants
  <2> QED
    BY <1>3, <2>1 DEF H!NewHive, H!HiveType
<1> HIDE DEF n
<1>5. Roomy(n) = {} /\ Used(n) = {} /\ H!Filled(n) = {} /\ BitsSound(n)
  BY <1>2 DEF Roomy, Used, H!Filled, BitsSound
<1>6. InLists(n, {}, {})
  BY <1>2, TidyEmpty DEF InLists, IsTail
<1>7. n.len = Cardinality(H!Filled(n))
  BY <1>2, <1>5, FS_EmptySet
<1>8. H!Held(handle) = {}
  BY <1>1 DEF H!Held
<1> QED
  BY <1>1, <1>2, <1>4, <1>5, <1>6, <1>7, <1>8 DEF HiveInv, HiveGood, H!TombstonesHeld

\* A step that leaves the hive in order; handles point to chunks that were there or are.
LEMMA UpdateKeeps ==
  ASSUME HiveInv, NEW g, HiveGood(g), Used(g) = g.live, g.len = Cardinality(H!Filled(g)),
         g.live \cap tomb = {},
         NEW hs \in [HiveHandles -> H!Places \cup {NoHandle}],
         H!Held(hs) \subseteq hive.live \cup tomb \cup g.live,
         H!Update(g, hs)
  PROVE  HiveInv'
<1>1. hive' = g /\ handle' = hs /\ stopped' = stopped
      /\ tomb' = (tomb \cup (hive.live \ g.live)) \cap H!Held(hs)
  BY DEF H!Update, H!Keep
<1>2. HiveGood(hive') /\ Used(hive') = hive'.live /\ hive'.len = Cardinality(H!Filled(hive'))
  BY <1>1
<1>3. tomb' \subseteq Allocs \ hive'.live
  BY <1>1 DEF HiveInv, HiveGood, H!HiveType
<1>4. H!Held(handle') \subseteq hive'.live \cup tomb' /\ tomb' \subseteq H!Held(handle')
  BY <1>1
<1>5. stopped' \in BOOLEAN
  BY <1>1 DEF HiveInv
<1> QED
  BY <1>1, <1>2, <1>3, <1>4, <1>5 DEF HiveInv, H!TombstonesHeld

LEMMA HeldAfter ==
  ASSUME NEW hs, hs \in [HiveHandles -> H!Places \cup {NoHandle}], NEW T, H!Held(hs) \subseteq T,
         NEW x \in HiveHandles, NEW p \in H!Places \cup {NoHandle}, p # NoHandle => p[1] \in T,
         NEW k, k = [hs EXCEPT ![x] = p]
  PROVE  k \in [HiveHandles -> H!Places \cup {NoHandle}] /\ H!Held(k) \subseteq T
<1>1. /\ k \in [HiveHandles -> H!Places \cup {NoHandle}]
      /\ \A y \in HiveHandles : k[y] = IF y = x THEN p ELSE hs[y]
  BY Zenon
<1>2. \A y \in HiveHandles : hs[y] # NoHandle => hs[y][1] \in T
  BY DEF H!Held
<1>3. \A y \in HiveHandles : k[y] # NoHandle => k[y][1] \in T
  BY <1>1, <1>2
<1> QED
  BY <1>1, <1>3 DEF H!Held

LEMMA FilledPlace ==
  ASSUME NEW h, NEW p \in H!Filled(h)
  PROVE  p \in H!Places /\ p[1] \in h.live /\ p[2] \in h.bits[p[1]] /\ p = <<p[1], p[2]>>
BY DEF H!Filled, H!Places

LEMMA EmplaceStep == HiveInv /\ H!Emplace(HiveHandles) => HiveInv'
<1> SUFFICES ASSUME HiveInv, H!Emplace(HiveHandles) PROVE HiveInv'
  OBVIOUS
<1>0. /\ HiveGood(hive) /\ Used(hive) = hive.live /\ hive.len = Cardinality(H!Filled(hive))
      /\ tomb \subseteq Allocs \ hive.live
      /\ handle \in [HiveHandles -> H!Places \cup {NoHandle}]
      /\ H!Held(handle) \subseteq hive.live \cup tomb
  BY DEF HiveInv, H!TombstonesHeld
<1>1. PICK c \in Allocs :
        /\ hive.empty.head = NULL => c \notin hive.live \cup tomb
        /\ \E k \in {handle} \cup {[handle EXCEPT ![h] = H!Fill(H!Grown(hive, c)).place] :
                                     h \in HiveHandles} :
             H!Update(H!Fill(H!Grown(hive, c)).hive, k)
  BY DEF H!Emplace
<1> DEFINE g == H!Grown(hive, c)
           r == H!Fill(g)
<1>2. /\ HiveGood(g) /\ g.empty.head \in Roomy(g)
      /\ Used(g) = Used(hive) /\ H!Filled(g) = H!Filled(hive) /\ g.len = hive.len
      /\ hive.live \subseteq g.live /\ g.live \subseteq hive.live \cup {g.empty.head}
      /\ g.live = hive.live \/ (hive.empty.head = NULL /\ g.live = hive.live \cup {c})
  BY <1>0, <1>1, GrownGood
<1> HIDE DEF g
<1>3. /\ HiveGood(r.hive) /\ Used(r.hive) = Used(g) \cup {g.empty.head} /\ r.hive.live = g.live
      /\ r.place \in H!Places \ H!Filled(g)
      /\ H!Filled(r.hive) = H!Filled(g) \cup {r.place}
      /\ r.place[1] = g.empty.head
      /\ r.hive.len = g.len + 1
  BY <1>2, FillGood
<1>4. PICK k \in {handle} \cup {[handle EXCEPT ![h] = r.place] : h \in HiveHandles} :
        H!Update(r.hive, k)
  BY <1>1 DEF g
<1> HIDE DEF r
<1>5. Used(r.hive) = r.hive.live
  <2>1. g.empty.head \in g.live
    BY <1>2 DEF Roomy
  <2> QED
    BY <1>0, <1>2, <1>3, <2>1
<1>6. r.hive.len = Cardinality(H!Filled(r.hive))
  <2>1. IsFiniteSet(H!Filled(hive))
    BY FilledFinite
  <2>2. Cardinality(H!Filled(hive) \cup {r.place}) = Cardinality(H!Filled(hive)) + 1
    BY <1>2, <1>3, <2>1, FS_AddElement
  <2> QED
    BY <1>0, <1>2, <1>3, <2>2
<1>7. r.hive.live \cap tomb = {}
  BY <1>0, <1>1, <1>2, <1>3
<1> DEFINE T == hive.live \cup tomb \cup r.hive.live
<1>8. k \in [HiveHandles -> H!Places \cup {NoHandle}] /\ H!Held(k) \subseteq T
  <2>1. H!Held(handle) \subseteq T /\ r.place[1] \in T /\ r.place \in H!Places
    BY <1>0, <1>2, <1>3 DEF Roomy
  <2> HIDE DEF T
  <2>2. CASE k = handle
    BY <1>0, <2>1, <2>2
  <2>3. ASSUME NEW x \in HiveHandles, k = [handle EXCEPT ![x] = r.place]
        PROVE  k \in [HiveHandles -> H!Places \cup {NoHandle}] /\ H!Held(k) \subseteq T
    <3>1. PICK p \in H!Places \cup {NoHandle} : p = r.place
      BY <2>1
    <3>2. p # NoHandle => p[1] \in T
      BY <2>1, <3>1
    <3>3. k = [handle EXCEPT ![x] = p]
      BY <2>3, <3>1
    <3> QED
      BY <1>0, <2>1, <3>2, <3>3, HeldAfter
  <2>4. k = handle \/ \E x \in HiveHandles : k = [handle EXCEPT ![x] = r.place]
    BY <1>4, Zenon
  <2> QED
    BY <2>2, <2>3, <2>4
<1> QED
  BY <1>3, <1>4, <1>5, <1>6, <1>7, <1>8, UpdateKeeps

LEMMA RemoveAtStep ==
  ASSUME HiveInv, NEW p \in H!Filled(hive), H!RemoveAt(p)
  PROVE  HiveInv'
<1>0. /\ HiveGood(hive) /\ Used(hive) = hive.live /\ hive.len = Cardinality(H!Filled(hive))
      /\ tomb \subseteq Allocs \ hive.live
      /\ handle \in [HiveHandles -> H!Places \cup {NoHandle}]
      /\ H!Held(handle) \subseteq hive.live \cup tomb
  BY DEF HiveInv, H!TombstonesHeld
<1> DEFINE c == p[1]
           s == p[2]
           g == H!RemoveSlot(hive, c, s)
<1>1. c \in hive.live /\ s \in hive.bits[c] /\ p = <<c, s>>
  BY FilledPlace
<1>2. H!Update(g, handle)
  BY DEF H!RemoveAt
<1> HIDE DEF c, s
<1>3. IsFiniteSet(H!Filled(hive)) /\ Cardinality(H!Filled(hive)) \in Nat
      /\ Cardinality(H!Filled(hive)) # 0
  BY FilledFinite, FS_CardinalityType, FS_EmptySet
<1>4. hive.len > 0
  BY <1>0, <1>3
<1>5. /\ HiveGood(g) /\ Used(g) = g.live /\ g.live \subseteq hive.live
      /\ H!Filled(g) = H!Filled(hive) \ {<<c, s>>}
      /\ g.len = hive.len - 1
  BY <1>0, <1>1, <1>4, RemoveGood
<1> HIDE DEF g
<1>6. g.len = Cardinality(H!Filled(g))
  <2>1. Cardinality(H!Filled(hive) \ {p}) = Cardinality(H!Filled(hive)) - 1
    BY <1>3, FS_RemoveElement
  <2> QED
    BY <1>0, <1>1, <1>5, <2>1
<1>7. g.live \cap tomb = {}
  BY <1>0, <1>5
<1> QED
  BY <1>0, <1>2, <1>5, <1>6, <1>7, UpdateKeeps

\* A handle that is accepted points to an element.
LEMMA AcceptedIsFilled ==
  ASSUME HiveInv, NEW p \in H!Places \cup {NoHandle}, H!Accepts(p)
  PROVE  p \in H!Filled(hive)
BY DEF H!Accepts, H!Filled

LEMMA TerminateStep == HiveInv /\ H!Terminate => HiveInv'
BY DEF H!Terminate, HiveInv, H!TombstonesHeld

LEMMA RemoveHandleStep ==
  ASSUME HiveInv, NEW h \in HiveHandles, H!Remove(h)
  PROVE  HiveInv'
<1>1. handle[h] \in H!Places \cup {NoHandle}
  BY DEF HiveInv
<1>2. CASE H!Accepts(handle[h])
  BY <1>1, <1>2, AcceptedIsFilled, RemoveAtStep DEF H!Remove
<1>3. CASE ~ H!Accepts(handle[h])
  BY <1>3, TerminateStep DEF H!Remove
<1> QED
  BY <1>2, <1>3

LEMMA PopStep == HiveInv /\ (H!PopFront \/ H!PopBack) => HiveInv'
<1> SUFFICES ASSUME HiveInv, H!PopFront \/ H!PopBack PROVE HiveInv'
  OBVIOUS
<1>1. H!Front(hive) \in H!Filled(hive) \cup {NoHandle} /\ H!Back(hive) \in H!Filled(hive) \cup {NoHandle}
  BY EndsIn DEF HiveInv
<1>2. CASE H!PopFront
  BY <1>1, <1>2, RemoveAtStep, TerminateStep DEF H!PopFront
<1>3. CASE H!PopBack
  BY <1>1, <1>3, RemoveAtStep, TerminateStep DEF H!PopBack
<1> QED
  BY <1>2, <1>3

\* Handles are pointed to elements.
LEMMA PointAtStep ==
  ASSUME HiveInv, NEW h \in HiveHandles, NEW p \in H!Filled(hive) \cup {NoHandle},
         H!Update(hive, [handle EXCEPT ![h] = p])
  PROVE  HiveInv'
<1>0. /\ HiveGood(hive) /\ Used(hive) = hive.live /\ hive.len = Cardinality(H!Filled(hive))
      /\ tomb \subseteq Allocs \ hive.live
      /\ handle \in [HiveHandles -> H!Places \cup {NoHandle}]
      /\ H!Held(handle) \subseteq hive.live \cup tomb
  BY DEF HiveInv, H!TombstonesHeld
<1> DEFINE T == hive.live \cup tomb \cup hive.live
           k == [handle EXCEPT ![h] = p]
<1>1. p \in H!Places \cup {NoHandle} /\ (p # NoHandle => p[1] \in T) /\ H!Held(handle) \subseteq T
  BY <1>0, FilledPlace
<1> HIDE DEF T, k
<1>2. k \in [HiveHandles -> H!Places \cup {NoHandle}] /\ H!Held(k) \subseteq T
  <2>1. k = [handle EXCEPT ![h] = p]
    BY DEF k
  <2> QED
    BY <1>0, <1>1, <2>1, HeldAfter
<1>3. hive.live \cap tomb = {}
  BY <1>0
<1>4. H!Update(hive, k)
  BY DEF k
<1> QED
  BY <1>0, <1>2, <1>3, <1>4, UpdateKeeps DEF T

LEMMA PointStep ==
  ASSUME HiveInv, NEW h \in HiveHandles, H!Point(h) \/ H!Step(h)
  PROVE  HiveInv'
<1>1. CASE H!Point(h)
  <2>1. H!Front(hive) \in H!Filled(hive) \cup {NoHandle} /\ H!Back(hive) \in H!Filled(hive) \cup {NoHandle}
    BY EndsIn DEF HiveInv
  <2>2. PICK p \in {H!Front(hive), H!Back(hive), NoHandle} : H!Update(hive, [handle EXCEPT ![h] = p])
    BY <1>1 DEF H!Point
  <2> QED
    BY <2>1, <2>2, PointAtStep
<1>2. CASE H!Step(h) /\ H!Accepts(handle[h])
  <2> DEFINE q == handle[h]
  <2>1. q \in H!Filled(hive)
    BY <1>2, AcceptedIsFilled DEF HiveInv
  <2>2. H!NextOf(hive, q) \in H!Filled(hive) \cup {NoHandle}
        /\ H!PrevOf(hive, q) \in H!Filled(hive) \cup {NoHandle}
    BY <2>1, NeighboursIn DEF HiveInv
  <2>3. PICK p \in {H!NextOf(hive, q), H!PrevOf(hive, q)} : H!Update(hive, [handle EXCEPT ![h] = p])
    BY <1>2 DEF H!Step
  <2> QED
    BY <2>2, <2>3, PointAtStep
<1>3. CASE H!Step(h) /\ ~ H!Accepts(handle[h])
  BY <1>3, TerminateStep DEF H!Step
<1> QED
  BY <1>1, <1>2, <1>3

LEMMA SettingsStep ==
  ASSUME HiveInv, NEW l \in 0 .. LastLog2, H!SetNextLog2(l)
  PROVE  HiveInv'
<1> DEFINE g == [hive EXCEPT !.nextLog2 = l]
<1>0. /\ HiveGood(hive) /\ Used(hive) = hive.live /\ hive.len = Cardinality(H!Filled(hive))
      /\ tomb \subseteq Allocs \ hive.live
      /\ handle \in [HiveHandles -> H!Places \cup {NoHandle}]
      /\ H!Held(handle) \subseteq hive.live \cup tomb
  BY DEF HiveInv, H!TombstonesHeld
<1>1. H!Update(g, handle)
  BY DEF H!SetNextLog2
<1>2. /\ g.len = hive.len /\ g.empty = hive.empty /\ g.filled = hive.filled /\ g.tail = hive.tail
      /\ g.live = hive.live /\ g.log2 = hive.log2 /\ g.count = hive.count /\ g.bits = hive.bits
      /\ g \in H!HiveType
  BY <1>0 DEF HiveGood, H!HiveType
<1> HIDE DEF g
<1>3. \A c : H!Capacity(g, c) = H!Capacity(hive, c)
  BY <1>2 DEF H!Capacity
<1>4. Roomy(g) = Roomy(hive) /\ Used(g) = Used(hive) /\ H!Filled(g) = H!Filled(hive)
  BY <1>2, <1>3 DEF Roomy, Used, H!Filled
<1>5. BitsSound(g)
  BY <1>0, <1>2, <1>3 DEF HiveGood, BitsSound
<1>6. InLists(g, Roomy(hive), Used(hive))
  BY <1>0, <1>2 DEF HiveGood, InLists
<1>7. HiveGood(g)
  BY <1>2, <1>4, <1>5, <1>6 DEF HiveGood
<1> QED
  BY <1>0, <1>1, <1>2, <1>4, <1>7, UpdateKeeps

LEMMA ClearStep == HiveInv /\ H!Clear => HiveInv'
<1> SUFFICES ASSUME HiveInv, H!Clear PROVE HiveInv'
  OBVIOUS
<1> DEFINE g == H!Cleared(hive)
<1>0. /\ HiveGood(hive) /\ handle \in [HiveHandles -> H!Places \cup {NoHandle}]
      /\ H!Held(handle) \subseteq hive.live \cup tomb
  BY DEF HiveInv, H!TombstonesHeld
<1>1. H!Update(g, handle)
  BY DEF H!Clear
<1>2. HiveGood(g) /\ g.live = {} /\ g.len = 0
  BY <1>0, ClearedGood
<1> HIDE DEF g
<1>3. Used(g) = g.live /\ g.len = Cardinality(H!Filled(g)) /\ g.live \cap tomb = {}
  <2>1. Used(g) = {} /\ H!Filled(g) = {}
    BY <1>2 DEF Used, H!Filled
  <2> QED
    BY <1>2, <2>1, FS_EmptySet
<1> QED
  BY <1>0, <1>1, <1>2, <1>3, UpdateKeeps

\* Every step keeps the invariant.
LEMMA HiveInvNext == HiveInv /\ [H!Next]_<<hive, tomb, handle, stopped>> => HiveInv'
<1> SUFFICES ASSUME HiveInv, [H!Next]_<<hive, tomb, handle, stopped>> PROVE HiveInv'
  OBVIOUS
<1>1. CASE H!Emplace(HiveHandles) \/ H!PopFront \/ H!PopBack \/ H!Clear
  BY <1>1, EmplaceStep, PopStep, ClearStep
<1>2. CASE UNCHANGED <<hive, tomb, handle, stopped>>
  BY <1>2 DEF HiveInv, H!TombstonesHeld
<1>3. ASSUME NEW h \in HiveHandles, H!Remove(h) \/ H!Point(h) \/ H!Step(h) PROVE HiveInv'
  BY <1>3, RemoveHandleStep, PointStep
<1>4. ASSUME NEW l \in 0 .. LastLog2, H!SetNextLog2(l) PROVE HiveInv'
  BY <1>4, SettingsStep
<1> QED
  BY <1>1, <1>2, <1>3, <1>4 DEF H!Next, H!Stop, H!vars

LEMMA HiveInvSuffices ==
  HiveInv => H!TypeOK /\ H!ListsSound /\ H!CountsExact /\ H!TombstonesHeld
<1> SUFFICES ASSUME HiveInv
             PROVE  H!TypeOK /\ H!ListsSound /\ H!CountsExact /\ H!TombstonesHeld
  OBVIOUS
<1>1. HiveGood(hive) /\ Used(hive) = hive.live
  BY DEF HiveInv
<1>2. H!TypeOK
  BY DEF HiveInv, HiveGood, H!TypeOK
<1>3. H!ListsSound
  <2>1. H!Holds(hive.empty, Roomy(hive)) /\ H!Holds(hive.filled, Used(hive))
    BY <1>1, TidyHolds DEF HiveGood, InLists
  <2>2. IF Used(hive) = {} THEN hive.tail = NULL
                           ELSE hive.tail \in Used(hive) /\ hive.filled.next[hive.tail] = NULL
    BY <1>1 DEF HiveGood, InLists, IsTail
  <2> QED
    BY <1>1, <2>1, <2>2, Zenon DEF H!ListsSound, Roomy, Used
<1>4. H!CountsExact
  BY <1>1, HiveCounts DEF H!CountsExact, HiveInv, HiveGood, BitsSound
<1> QED
  BY <1>2, <1>3, <1>4 DEF HiveInv

\* In the run Handles the variables of the hive follow its specification.
LEMMA HandlesHive == Spec => [](part = "hive" => HiveInv)
<1> DEFINE Inv == part = "hive" => HiveInv
<1>1. Init => Inv
  BY HiveInvInit DEF Init
<1>2. Inv /\ [Next]_vars => Inv'
  <2> SUFFICES ASSUME Inv, [Next]_vars, part' = "hive" PROVE HiveInv'
    OBVIOUS
  <2>1. CASE part = "hive" /\ H!Next
    BY <2>1, HiveInvNext
  <2>2. CASE UNCHANGED vars
    BY <2>2, HiveInvNext DEF vars
  <2> QED
    BY <2>1, <2>2 DEF Next
<1> QED
  BY <1>1, <1>2, PTL DEF Spec

\* The chunks of a hive are in the lists that their bitmaps ask for, the lists have no
\* loops or strays, the counters are exact, and a chunk is freed neither under its
\* elements nor under a handle, nor kept without (hive.hpp:516).
THEOREM HiveAlwaysSound == Spec => []HiveSound
<1>1. (part = "hive" => HiveInv) => HiveSound
  BY HiveInvSuffices DEF HiveSound
<1> QED
  BY <1>1, HandlesHive, PTL

(***************************************************************************)
(* The list: the inductive invariant                                       *)
(***************************************************************************)

\* The nodes that carry the ID of l, and the chain that starts at its head.
Members(s, l) == {n \in s.live : s.nid[n] = s.id[l]}
ChainOf(s, l) == [head |-> s.head[l], next |-> s.next, prev |-> s.prev]

ListType ==
  [head : [Lists -> Nodes \cup {NULL}], tail : [Lists -> Nodes \cup {NULL}],
   len : [Lists -> Nat], id : [Lists -> 0 .. MaxId], live : SUBSET Nodes,
   prev : [Nodes -> Nodes \cup {NULL}], next : [Nodes -> Nodes \cup {NULL}],
   data : [Nodes -> Values \cup {NULL}], nid : [Nodes -> 0 .. MaxId]]

\* The chain of l holds just its members.
ListSound(s, l) ==
  /\ Chained(ChainOf(s, l), Members(s, l))
  /\ IsTail(ChainOf(s, l), s.tail[l], Members(s, l))
  /\ s.len[l] = Cardinality(Members(s, l))

\* IDs tell lists apart, and every node is of a list.
ListsGood(s) ==
  /\ s \in ListType
  /\ \A k, l \in Lists : s.id[k] = s.id[l] => k = l
  /\ \A n \in s.live : \E l \in Lists : s.nid[n] = s.id[l]
  /\ \A l \in Lists : ListSound(s, l)

\* A new ID is none that a list or a node has: a moved list relies on it.
ListInv ==
  /\ ListsGood(m)
  /\ ids \in 0 .. MaxId + 1 /\ \A l \in Lists : m.id[l] < ids
  /\ tomb \subseteq Nodes \ m.live
  /\ handle \in [Handles -> Nodes \cup {NULL}]
  /\ L!TombstonesHeld
  /\ stopped \in BOOLEAN

(***************************************************************************)
(* The list: one node comes or goes                                        *)
(***************************************************************************)
LEMMA ListCounts ==
  ASSUME NEW S
  PROVE  L!Cardinality(S) = Cardinality(S)
BY Zenon DEF L!Cardinality, Cardinality

LEMMA ListConstants ==
  /\ NULL \notin Nodes /\ IsFiniteSet(Nodes) /\ IsFiniteSet(Lists) /\ MaxId \in Nat
  /\ Cardinality(Nodes) \in Nat /\ Cardinality(Lists) \in Nat /\ Cardinality(Lists) <= MaxId + 1
<1>1. \A S : (L!IsFiniteSet(S) => IsFiniteSet(S)) /\ L!Cardinality(S) = Cardinality(S)
  BY ListCounts, Zenon DEF L!IsFiniteSet, IsFiniteSet
<1> QED
  BY <1>1, L!TaggedListAssumption, FS_CardinalityType DEF L!TaggedListAssumption

LEMMA MembersFinite ==
  ASSUME NEW s \in ListType, NEW l
  PROVE  /\ Members(s, l) \subseteq s.live /\ s.live \subseteq Nodes
         /\ IsFiniteSet(Members(s, l)) /\ IsFiniteSet(s.live)
         /\ NULL \notin Members(s, l) /\ NULL \notin s.live
         /\ Cardinality(Members(s, l)) \in 0 .. Cardinality(Nodes)
<1>1. Members(s, l) \subseteq s.live /\ s.live \subseteq Nodes
  BY DEF Members, ListType
<1>2. IsFiniteSet(s.live)
  BY <1>1, ListConstants, FS_Subset
<1>3. IsFiniteSet(Members(s, l)) /\ Cardinality(Members(s, l)) <= Cardinality(Nodes)
  BY <1>1, ListConstants, FS_Subset
<1> QED
  BY <1>1, <1>2, <1>3, ListConstants, FS_CardinalityType

\* A list is sound by its members and their links.
LEMMA ListFrame ==
  ASSUME NEW s, NEW s2, NEW l, ListSound(s, l),
         Members(s2, l) = Members(s, l),
         s2.head[l] = s.head[l], s2.tail[l] = s.tail[l], s2.len[l] = s.len[l],
         \A n \in Members(s, l) : s2.next[n] = s.next[n] /\ s2.prev[n] = s.prev[n]
  PROVE  ListSound(s2, l)
<1>1. ChainOf(s2, l).head = ChainOf(s, l).head
  BY DEF ChainOf
<1>2. \A n \in Members(s, l) : /\ ChainOf(s2, l).next[n] = ChainOf(s, l).next[n]
                               /\ ChainOf(s2, l).prev[n] = ChainOf(s, l).prev[n]
  BY DEF ChainOf
<1>3. Chained(ChainOf(s2, l), Members(s, l))
  BY <1>1, <1>2, ChainedFrame DEF ListSound
<1>4. IsTail(ChainOf(s2, l), s2.tail[l], Members(s, l))
  BY <1>2 DEF ListSound, IsTail
<1> QED
  BY <1>3, <1>4 DEF ListSound

\* The members of a list are those of no other.
LEMMA MembersApart ==
  ASSUME NEW s, ListsGood(s), NEW l \in Lists, NEW k \in Lists \ {l}
  PROVE  Members(s, l) \cap Members(s, k) = {}
BY DEF ListsGood, Members

\* What create_node_before() and its like write.
Created(s, l, p, n, new, v, g) ==
  /\ g \in ListType
  /\ g.live = s.live \cup {new} /\ g.id = s.id
  /\ g.nid = [s.nid EXCEPT ![new] = s.id[l]]
  /\ g.len = [s.len EXCEPT ![l] = @ + 1]
  /\ g.head = IF p = NULL THEN [s.head EXCEPT ![l] = new] ELSE s.head
  /\ g.tail = IF n = NULL THEN [s.tail EXCEPT ![l] = new] ELSE s.tail
  /\ g.next = IF p = NULL THEN [s.next EXCEPT ![new] = n] ELSE [s.next EXCEPT ![new] = n, ![p] = new]
  /\ g.prev = IF n = NULL THEN [s.prev EXCEPT ![new] = p] ELSE [s.prev EXCEPT ![new] = p, ![n] = new]
  /\ g.data = [s.data EXCEPT ![new] = v]

\* What remove_node() writes.
Taken(s, l, n, g) ==
  /\ g \in ListType
  /\ g.live = s.live \ {n} /\ g.id = s.id
  /\ g.nid = [s.nid EXCEPT ![n] = 0]
  /\ g.len = [s.len EXCEPT ![l] = @ - 1]
  /\ g.head = IF s.prev[n] = NULL THEN [s.head EXCEPT ![l] = s.next[n]] ELSE s.head
  /\ g.tail = IF s.next[n] = NULL THEN [s.tail EXCEPT ![l] = s.prev[n]] ELSE s.tail
  /\ g.next = IF s.prev[n] = NULL THEN [s.next EXCEPT ![n] = NULL]
                                  ELSE [s.next EXCEPT ![s.prev[n]] = s.next[n], ![n] = NULL]
  /\ g.prev = IF s.next[n] = NULL THEN [s.prev EXCEPT ![n] = NULL]
                                  ELSE [s.prev EXCEPT ![s.next[n]] = s.prev[n], ![n] = NULL]
  /\ g.data = [s.data EXCEPT ![n] = NULL]

LEMMA CreateFields ==
  ASSUME NEW s \in ListType, NEW l \in Lists, NEW new \in Nodes, NEW v \in Values \cup {NULL},
         NEW p \in Nodes \cup {NULL}, NEW n \in Nodes \cup {NULL},
         NEW g, g = L!CreateNode(s, l, p, n, new, v)
  PROVE  Created(s, l, p, n, new, v, g)
<1>1. /\ g.live = s.live \cup {new} /\ g.id = s.id
      /\ g.nid = [s.nid EXCEPT ![new] = s.id[l]]
      /\ g.len = [s.len EXCEPT ![l] = @ + 1]
      /\ g.data = [s.data EXCEPT ![new] = v]
  BY DEF L!CreateNode, L!SetNext, L!SetPrev, ListType
<1>2. /\ g.head = IF p = NULL THEN [s.head EXCEPT ![l] = new] ELSE s.head
      /\ g.tail = IF n = NULL THEN [s.tail EXCEPT ![l] = new] ELSE s.tail
  BY DEF L!CreateNode, L!SetNext, L!SetPrev, ListType
<1>3. /\ g.next = IF p = NULL THEN [s.next EXCEPT ![new] = n]
                              ELSE [s.next EXCEPT ![new] = n, ![p] = new]
      /\ g.prev = IF n = NULL THEN [s.prev EXCEPT ![new] = p]
                              ELSE [s.prev EXCEPT ![new] = p, ![n] = new]
  BY DEF L!CreateNode, L!SetNext, L!SetPrev, ListType
<1>4. g = [head |-> g.head, tail |-> g.tail, len |-> g.len, id |-> g.id, live |-> g.live,
           prev |-> g.prev, next |-> g.next, data |-> g.data, nid |-> g.nid]
  BY DEF L!CreateNode, L!SetNext, L!SetPrev, ListType
<1>5. /\ g.head \in [Lists -> Nodes \cup {NULL}] /\ g.tail \in [Lists -> Nodes \cup {NULL}]
      /\ g.len \in [Lists -> Nat] /\ g.id \in [Lists -> 0 .. MaxId] /\ g.live \in SUBSET Nodes
  BY <1>1, <1>2 DEF ListType
<1>6. /\ g.prev \in [Nodes -> Nodes \cup {NULL}] /\ g.next \in [Nodes -> Nodes \cup {NULL}]
      /\ g.data \in [Nodes -> Values \cup {NULL}] /\ g.nid \in [Nodes -> 0 .. MaxId]
  BY <1>1, <1>3 DEF ListType
<1>7. g \in ListType
  BY <1>4, <1>5, <1>6, Zenon DEF ListType
<1> QED
  BY <1>1, <1>2, <1>3, <1>7 DEF Created

LEMMA RemoveFields ==
  ASSUME NEW s \in ListType, NEW l \in Lists, NEW n \in Nodes, s.len[l] > 0,
         NEW g, g = L!RemoveNode(s, l, n)
  PROVE  Taken(s, l, n, g)
<1>1. /\ g.live = s.live \ {n} /\ g.id = s.id
      /\ g.nid = [s.nid EXCEPT ![n] = 0]
      /\ g.len = [s.len EXCEPT ![l] = @ - 1]
      /\ g.data = [s.data EXCEPT ![n] = NULL]
  BY DEF L!RemoveNode, L!SetNext, L!SetPrev, ListType
<1>2. /\ g.head = IF s.prev[n] = NULL THEN [s.head EXCEPT ![l] = s.next[n]] ELSE s.head
      /\ g.tail = IF s.next[n] = NULL THEN [s.tail EXCEPT ![l] = s.prev[n]] ELSE s.tail
  BY DEF L!RemoveNode, L!SetNext, L!SetPrev, ListType
<1>3. /\ g.next = IF s.prev[n] = NULL THEN [s.next EXCEPT ![n] = NULL]
                                      ELSE [s.next EXCEPT ![s.prev[n]] = s.next[n], ![n] = NULL]
      /\ g.prev = IF s.next[n] = NULL THEN [s.prev EXCEPT ![n] = NULL]
                                      ELSE [s.prev EXCEPT ![s.next[n]] = s.prev[n], ![n] = NULL]
  BY DEF L!RemoveNode, L!SetNext, L!SetPrev, ListType
<1>4. g = [head |-> g.head, tail |-> g.tail, len |-> g.len, id |-> g.id, live |-> g.live,
           prev |-> g.prev, next |-> g.next, data |-> g.data, nid |-> g.nid]
  BY DEF L!RemoveNode, L!SetNext, L!SetPrev, ListType
<1>0. 0 \in 0 .. MaxId /\ s.next[n] \in Nodes \cup {NULL} /\ s.prev[n] \in Nodes \cup {NULL}
      /\ s.len[l] - 1 \in Nat
  BY ListConstants DEF ListType
<1>5. /\ g.head \in [Lists -> Nodes \cup {NULL}] /\ g.tail \in [Lists -> Nodes \cup {NULL}]
      /\ g.len \in [Lists -> Nat] /\ g.id \in [Lists -> 0 .. MaxId] /\ g.live \in SUBSET Nodes
  BY <1>0, <1>1, <1>2 DEF ListType
<1>6. /\ g.prev \in [Nodes -> Nodes \cup {NULL}] /\ g.next \in [Nodes -> Nodes \cup {NULL}]
      /\ g.data \in [Nodes -> Values \cup {NULL}] /\ g.nid \in [Nodes -> 0 .. MaxId]
  BY <1>0, <1>1, <1>3 DEF ListType
<1>7. g \in ListType
  BY <1>4, <1>5, <1>6, Zenon DEF ListType
<1> QED
  BY <1>1, <1>2, <1>3, <1>7 DEF Taken

\* create_node_before() and create_node_after() keep the lists good.
LEMMA CreateNodeGood ==
  ASSUME NEW s, ListsGood(s), NEW l \in Lists, NEW new \in Nodes \ s.live, NEW v \in Values \cup {NULL},
         NEW p, NEW n, Between(ChainOf(s, l), Members(s, l), p, n),
         NEW g, g = L!CreateNode(s, l, p, n, new, v)
  PROVE  ListsGood(g) /\ g.id = s.id /\ g.live = s.live \cup {new}
<1> DEFINE S == Members(s, l)
<1>0. s \in ListType /\ ListSound(s, l)
  BY DEF ListsGood
<1>1. S \subseteq Nodes /\ IsFiniteSet(S) /\ NULL \notin S /\ new \notin S /\ new # NULL
  BY <1>0, MembersFinite, ListConstants
<1>2. /\ Chained(ChainOf(s, l), S) /\ IsTail(ChainOf(s, l), s.tail[l], S) /\ s.len[l] = Cardinality(S)
      /\ ChainOf(s, l).head = s.head[l] /\ ChainOf(s, l).next = s.next /\ ChainOf(s, l).prev = s.prev
  BY <1>0 DEF ListSound, ChainOf
<1>3. p \in S \cup {NULL} /\ n \in S \cup {NULL}
  <2>1. /\ n # NULL => n \in S /\ ChainOf(s, l).prev[n] = p
        /\ p # NULL => p \in S /\ ChainOf(s, l).next[p] = n
    BY <1>1, <1>2, BetweenBack
  <2> QED
    BY <2>1
<1>4. /\ g \in ListType
      /\ g.live = s.live \cup {new} /\ g.id = s.id
      /\ g.nid = [s.nid EXCEPT ![new] = s.id[l]]
      /\ g.len = [s.len EXCEPT ![l] = @ + 1]
      /\ g.head = IF p = NULL THEN [s.head EXCEPT ![l] = new] ELSE s.head
      /\ g.tail = IF n = NULL THEN [s.tail EXCEPT ![l] = new] ELSE s.tail
      /\ g.next = IF p = NULL THEN [s.next EXCEPT ![new] = n] ELSE [s.next EXCEPT ![new] = n, ![p] = new]
      /\ g.prev = IF n = NULL THEN [s.prev EXCEPT ![new] = p] ELSE [s.prev EXCEPT ![new] = p, ![n] = new]
  <2>1. new \in Nodes /\ p \in Nodes \cup {NULL} /\ n \in Nodes \cup {NULL}
    BY <1>1, <1>3
  <2>2. Created(s, l, p, n, new, v, g)
    BY <1>0, <2>1, CreateFields
  <2> QED
    BY <2>2 DEF Created
<1>5. Members(g, l) = S \cup {new}
  BY <1>0, <1>1, <1>4 DEF Members, ListType
<1>6. \A k \in Lists \ {l} : Members(g, k) = Members(s, k)
  <2>1. ASSUME NEW k \in Lists \ {l} PROVE Members(g, k) = Members(s, k)
    <3>1. s.id[k] # s.id[l]
      BY DEF ListsGood
    <3> QED
      BY <1>0, <1>1, <1>4, <3>1 DEF Members, ListType
  <2> QED
    BY <2>1
<1>7. ListSound(g, l)
  <2>1. ChainOf(g, l).head = g.head[l] /\ ChainOf(g, l).next = g.next /\ ChainOf(g, l).prev = g.prev
    BY DEF ChainOf
  <2>2. /\ g.head[l] = IF p = NULL THEN new ELSE s.head[l]
        /\ g.tail[l] = IF n = NULL THEN new ELSE s.tail[l]
    BY <1>0, <1>4 DEF ListType
  <2>3. g.next[new] = n /\ \A q \in S : g.next[q] = IF q = p THEN new ELSE s.next[q]
    BY <1>0, <1>1, <1>3, <1>4 DEF ListType
  <2>4. g.prev[new] = p /\ \A q \in S : g.prev[q] = IF q = n THEN new ELSE s.prev[q]
    BY <1>0, <1>1, <1>3, <1>4 DEF ListType
  <2>5. Inserted(ChainOf(s, l), S, p, new, n, ChainOf(g, l))
    BY <1>2, <2>1, <2>2, <2>3, <2>4 DEF Inserted
  <2>6. Chained(ChainOf(g, l), S \cup {new}) /\ IsTail(ChainOf(g, l), g.tail[l], S \cup {new})
    <3> HIDE DEF S
    <3>1. Between(ChainOf(s, l), S, p, n)
      BY DEF S
    <3>2. Chained(ChainOf(g, l), S \cup {new})
      BY <1>1, <1>2, <2>5, <3>1, ChainedInsert
    <3>3. CASE n = NULL
      <4>1. IsTail(ChainOf(g, l), new, S \cup {new})
        BY <1>1, <1>2, <2>5, <3>1, <3>3, TailInsert
      <4> QED
        BY <2>2, <3>2, <3>3, <4>1
    <3>4. CASE n # NULL
      <4>1. IsTail(ChainOf(g, l), s.tail[l], S \cup {new})
        BY <1>1, <1>2, <2>5, <3>1, <3>4, TailInsert
      <4> QED
        BY <2>2, <3>2, <3>4, <4>1
    <3> QED
      BY <3>3, <3>4
  <2>7. g.len[l] = Cardinality(S \cup {new})
    <3>1. g.len[l] = s.len[l] + 1
      BY <1>0, <1>4 DEF ListType
    <3>2. Cardinality(S \cup {new}) = Cardinality(S) + 1
      BY <1>1, FS_AddElement
    <3> QED
      BY <1>2, <3>1, <3>2
  <2> QED
    BY <1>5, <2>6, <2>7 DEF ListSound
<1>8. \A k \in Lists \ {l} : ListSound(g, k)
  <2>1. ASSUME NEW k \in Lists \ {l} PROVE ListSound(g, k)
    <3>1. Members(s, k) \cap S = {} /\ Members(s, k) \subseteq s.live /\ Members(s, k) \subseteq Nodes /\ NULL \notin Members(s, k)
      BY <1>0, MembersApart, MembersFinite
    <3>2. g.head[k] = s.head[k] /\ g.tail[k] = s.tail[k] /\ g.len[k] = s.len[k]
      BY <1>0, <1>4 DEF ListType
    <3>3. \A q \in Members(s, k) : g.next[q] = s.next[q] /\ g.prev[q] = s.prev[q]
      BY <1>0, <1>3, <1>4, <3>1 DEF ListType
    <3>4. ListSound(s, k) /\ Members(g, k) = Members(s, k)
      BY <1>6 DEF ListsGood
    <3> QED
      BY <3>2, <3>3, <3>4, ListFrame
  <2> QED
    BY <2>1
<1>9. \A q \in g.live : \E k \in Lists : g.nid[q] = g.id[k]
  BY <1>0, <1>4 DEF ListsGood, ListType
<1> QED
  BY <1>4, <1>7, <1>8, <1>9 DEF ListsGood

\* g is s without the node n of l.
Without(s, l, n, g) ==
  /\ ListsGood(g) /\ g.id = s.id
  /\ g.live = s.live \ {n} /\ g.nid = [s.nid EXCEPT ![n] = 0]
  /\ \A k \in Lists \ {l} : g.head[k] = s.head[k] /\ g.tail[k] = s.tail[k] /\ g.len[k] = s.len[k]

\* remove_node() keeps the lists good.
LEMMA RemoveNodeGood ==
  ASSUME NEW s, ListsGood(s), NEW l \in Lists, NEW n \in Members(s, l),
         NEW g, g = L!RemoveNode(s, l, n)
  PROVE  Without(s, l, n, g)
<1> DEFINE S == Members(s, l)
<1>0. s \in ListType /\ ListSound(s, l)
  BY DEF ListsGood
<1>1. S \subseteq Nodes /\ S \subseteq s.live /\ IsFiniteSet(S) /\ NULL \notin S /\ n \in Nodes
  BY <1>0, MembersFinite
<1>2. /\ Chained(ChainOf(s, l), S) /\ IsTail(ChainOf(s, l), s.tail[l], S) /\ s.len[l] = Cardinality(S)
      /\ ChainOf(s, l).head = s.head[l] /\ ChainOf(s, l).next = s.next /\ ChainOf(s, l).prev = s.prev
  BY <1>0 DEF ListSound, ChainOf
<1>3. s.prev[n] \in S \cup {NULL} /\ s.next[n] \in S \cup {NULL} /\ s.len[l] > 0
  <2>1. s.prev[n] \in S \cup {NULL} /\ s.next[n] \in S \cup {NULL}
    BY <1>2 DEF Chained
  <2>2. Cardinality(S) \in Nat /\ Cardinality(S) # 0
    BY <1>1, FS_CardinalityType, FS_EmptySet
  <2> QED
    BY <1>2, <2>1, <2>2
<1>4. /\ g \in ListType
      /\ g.live = s.live \ {n} /\ g.id = s.id
      /\ g.nid = [s.nid EXCEPT ![n] = 0]
      /\ g.len = [s.len EXCEPT ![l] = @ - 1]
      /\ g.head = IF s.prev[n] = NULL THEN [s.head EXCEPT ![l] = s.next[n]] ELSE s.head
      /\ g.tail = IF s.next[n] = NULL THEN [s.tail EXCEPT ![l] = s.prev[n]] ELSE s.tail
      /\ g.next = IF s.prev[n] = NULL THEN [s.next EXCEPT ![n] = NULL]
                                      ELSE [s.next EXCEPT ![s.prev[n]] = s.next[n], ![n] = NULL]
      /\ g.prev = IF s.next[n] = NULL THEN [s.prev EXCEPT ![n] = NULL]
                                      ELSE [s.prev EXCEPT ![s.next[n]] = s.prev[n], ![n] = NULL]
  <2>1. Taken(s, l, n, g)
    BY <1>0, <1>1, <1>3, RemoveFields
  <2> QED
    BY <2>1 DEF Taken
<1>5. Members(g, l) = S \ {n}
  BY <1>0, <1>1, <1>4 DEF Members, ListType
<1>6. \A k \in Lists \ {l} : Members(g, k) = Members(s, k)
  <2>1. ASSUME NEW k \in Lists \ {l} PROVE Members(g, k) = Members(s, k)
    <3>1. n \notin Members(s, k)
      BY MembersApart
    <3> QED
      BY <1>0, <1>1, <1>4, <3>1 DEF Members, ListType
  <2> QED
    BY <2>1
<1>7. ListSound(g, l)
  <2> DEFINE a == ChainOf(s, l)
             b == ChainOf(g, l)
  <2>1. b.head = g.head[l] /\ b.next = g.next /\ b.prev = g.prev
    BY DEF ChainOf
  <2>2. /\ g.head[l] = IF s.prev[n] = NULL THEN s.next[n] ELSE s.head[l]
        /\ g.tail[l] = IF s.next[n] = NULL THEN s.prev[n] ELSE s.tail[l]
    BY <1>0, <1>4 DEF ListType
  <2>3. \A q \in S \ {n} : g.next[q] = IF q = s.prev[n] THEN s.next[n] ELSE s.next[q]
    BY <1>0, <1>1, <1>4 DEF ListType
  <2>4. \A q \in S \ {n} : g.prev[q] = IF q = s.next[n] THEN s.prev[n] ELSE s.prev[q]
    BY <1>0, <1>1, <1>4 DEF ListType
  <2>5. b.head = IF a.head = n THEN a.next[n] ELSE a.head
    <3>1. s.prev[n] = NULL <=> s.head[l] = n
      BY <1>1, <1>2 DEF Chained
    <3> QED
      BY <1>2, <2>1, <2>2, <3>1
  <2>6. \A q \in S \ {n} : /\ b.next[q] = IF q = a.prev[n] THEN a.next[n] ELSE a.next[q]
                           /\ b.prev[q] = IF q = a.next[n] THEN a.prev[n] ELSE a.prev[q]
    BY <1>2, <2>1, <2>3, <2>4
  <2>7. g.tail[l] = IF a.next[n] = NULL THEN a.prev[n] ELSE s.tail[l]
    BY <1>2, <2>2
  <2>8. Chained(a, S) /\ IsTail(a, s.tail[l], S) /\ n \in S
    BY <1>2
  <2>9. g.len[l] = Cardinality(S \ {n})
    <3>1. g.len[l] = s.len[l] - 1
      BY <1>0, <1>4 DEF ListType
    <3>2. Cardinality(S \ {n}) = Cardinality(S) - 1
      BY <1>1, FS_RemoveElement
    <3> QED
      BY <1>2, <3>1, <3>2
  <2> HIDE DEF a, b, S
  <2>10. Chained(b, S \ {n})
    BY <1>1, <2>5, <2>6, <2>8, ChainedRemove
  <2>11. IsTail(b, g.tail[l], S \ {n})
    BY <1>1, <2>6, <2>7, <2>8, TailRemove
  <2> QED
    BY <1>5, <2>9, <2>10, <2>11 DEF ListSound, b
<1>8. \A k \in Lists \ {l} : g.head[k] = s.head[k] /\ g.tail[k] = s.tail[k] /\ g.len[k] = s.len[k]
  BY <1>0, <1>4 DEF ListType
<1>9. \A k \in Lists \ {l} : ListSound(g, k)
  <2>1. ASSUME NEW k \in Lists \ {l} PROVE ListSound(g, k)
    <3>1. Members(s, k) \cap S = {} /\ Members(s, k) \subseteq Nodes /\ NULL \notin Members(s, k)
      BY <1>0, MembersApart, MembersFinite
    <3>2. \A q \in Members(s, k) : g.next[q] = s.next[q] /\ g.prev[q] = s.prev[q]
      BY <1>0, <1>3, <1>4, <3>1 DEF ListType
    <3>3. ListSound(s, k) /\ Members(g, k) = Members(s, k)
      BY <1>6 DEF ListsGood
    <3> QED
      BY <1>8, <3>2, <3>3, ListFrame
  <2> QED
    BY <2>1
<1>10. \A q \in g.live : \E k \in Lists : g.nid[q] = g.id[k]
  BY <1>0, <1>4 DEF ListsGood, ListType
<1> QED
  BY <1>4, <1>7, <1>8, <1>9, <1>10 DEF ListsGood, Without

(***************************************************************************)
(* The list: several nodes, one after the other                            *)
(***************************************************************************)

\* What the i-th turn of a loop makes of x: a node is removed or pushed, or a walk goes on.
Turn(kind, s, l, w, v, i, x) ==
  IF kind = "remove" THEN L!RemoveNode(x, l, w[i])
  ELSE IF kind = "push" THEN L!PushBack(x, l, w[i], v[i])
  ELSE IF x = NULL THEN NULL ELSE s.next[x]
IsRun(kind, s, l, w, v, x, f, k) ==
  f = [i \in 0 .. k |-> IF i = 0 THEN x ELSE Turn(kind, s, l, w, v, i, f[i - 1])]

LEMMA RunExists ==
  ASSUME NEW kind, NEW s, NEW l, NEW w, NEW v, NEW x, NEW N \in Nat
  PROVE  \E f : IsRun(kind, s, l, w, v, x, f, N)
<1> DEFINE Bad == {k \in Nat : ~ \E f : IsRun(kind, s, l, w, v, x, f, k)}
<1>1. SUFFICES ASSUME Bad # {} PROVE FALSE
  OBVIOUS
<1>2. Min(Bad) \in Bad /\ \A k \in Bad : Min(Bad) <= k
  BY <1>1, MinOfNaturals
<1>3. PICK z \in Nat : z \in Bad /\ \A k \in Bad : z <= k
  BY <1>2
<1>4. z # 0
  <2>1. IsRun(kind, s, l, w, v, x, [i \in 0 .. 0 |-> x], 0)
    BY DEF IsRun
  <2> QED
    BY <1>3, <2>1
<1>5. PICK j \in Nat : z = j + 1
  BY <1>4
<1>6. PICK f : IsRun(kind, s, l, w, v, x, f, j)
  BY <1>3, <1>5
<1> DEFINE g == [i \in 0 .. z |-> IF i <= j THEN f[i] ELSE Turn(kind, s, l, w, v, i, f[j])]
<1>7. ASSUME NEW i \in 0 .. z
      PROVE  g[i] = IF i = 0 THEN x ELSE Turn(kind, s, l, w, v, i, g[i - 1])
  <2>1. CASE i = 0
    BY <1>5, <1>6, <2>1 DEF IsRun
  <2>2. CASE i # 0 /\ i <= j
    <3>1. f[i] = Turn(kind, s, l, w, v, i, f[i - 1])
      BY <1>6, <2>2 DEF IsRun
    <3>2. g[i] = f[i] /\ g[i - 1] = f[i - 1]
      BY <1>5, <2>2
    <3> QED
      BY <2>2, <3>1, <3>2
  <2>3. CASE i = z
    <3>1. g[i] = Turn(kind, s, l, w, v, i, f[j]) /\ g[i - 1] = f[j]
      BY <1>5, <2>3
    <3> QED
      BY <1>4, <2>3, <3>1
  <2> QED
    BY <1>5, <2>1, <2>2, <2>3
<1>8. IsRun(kind, s, l, w, v, x, g, z)
  BY <1>7, Zenon DEF IsRun
<1> HIDE DEF g
<1> QED
  BY <1>3, <1>8

\* The first k nodes of w.
Firsts(w, k) == {w[i] : i \in 1 .. k}

\* What a removal of nodes of l leaves.
Emptied(s, l, w, k, g) ==
  /\ ListsGood(g) /\ g.id = s.id
  /\ g.live = s.live \ Firsts(w, k)
  /\ \A n \in g.live : g.nid[n] = s.nid[n]
  /\ \A j \in Lists \ {l} : g.head[j] = s.head[j] /\ g.tail[j] = s.tail[j] /\ g.len[j] = s.len[j]

LEMMA EmptiedNext ==
  ASSUME NEW s, NEW l \in Lists, NEW w, NEW k \in Nat, NEW u, Emptied(s, l, w, k, u),
         NEW g, g = L!RemoveNode(u, l, w[k + 1]),
         w[k + 1] \in Members(s, l), w[k + 1] \notin Firsts(w, k)
  PROVE  Emptied(s, l, w, k + 1, g)
<1> DEFINE n == w[k + 1]
<1>1. ListsGood(u) /\ u.id = s.id /\ u.live = s.live \ Firsts(w, k) /\ u \in ListType
  BY DEF Emptied, ListsGood
<1>2. n \in Members(u, l)
  BY <1>1 DEF Members, Emptied
<1>3. /\ ListsGood(g) /\ g.id = u.id
      /\ g.live = u.live \ {n} /\ g.nid = [u.nid EXCEPT ![n] = 0]
      /\ \A j \in Lists \ {l} : g.head[j] = u.head[j] /\ g.tail[j] = u.tail[j] /\ g.len[j] = u.len[j]
  <2>1. Without(u, l, n, g)
    BY <1>1, <1>2, RemoveNodeGood
  <2> QED
    BY <2>1 DEF Without
<1>4. Firsts(w, k + 1) = Firsts(w, k) \cup {n}
  BY DEF Firsts
<1>5. \A q \in g.live : g.nid[q] = s.nid[q]
  <2>1. u.live \subseteq Nodes
    BY <1>1 DEF ListType
  <2> QED
    BY <1>1, <1>3, <2>1 DEF Emptied, ListType
<1> QED
  BY <1>1, <1>3, <1>4, <1>5 DEF Emptied

\* Nodes of a list are removed.
LEMMA RemovedGood ==
  ASSUME NEW s, ListsGood(s), NEW l \in Lists, NEW w, NEW N \in Nat, Len(w) = N,
         \A i \in 1 .. N : w[i] \in Members(s, l),
         \A i, j \in 1 .. N : w[i] = w[j] => i = j,
         NEW g, g = L!Removed(s, l, w)
  PROVE  Emptied(s, l, w, N, g)
<1>1. PICK f : IsRun("remove", s, l, w, w, s, f, N) /\ g = f[N]
  <2>1. \E f : IsRun("remove", s, l, w, w, s, f, N)
    BY RunExists
  <2> DEFINE a == CHOOSE f : f = [i \in 0 .. N |-> IF i = 0 THEN s ELSE L!RemoveNode(f[i - 1], l, w[i])]
  <2>2. \A f : IsRun("remove", s, l, w, w, s, f, N)
               <=> f = [i \in 0 .. N |-> IF i = 0 THEN s ELSE L!RemoveNode(f[i - 1], l, w[i])]
    BY Zenon DEF IsRun, Turn
  <2>3. IsRun("remove", s, l, w, w, s, a, N)
    BY <2>1, <2>2
  <2>4. g = a[N]
    BY DEF L!Removed
  <2> QED
    BY <2>3, <2>4
<1>2. f[0] = s /\ \A i \in 0 .. N : i # 0 => f[i] = L!RemoveNode(f[i - 1], l, w[i])
  BY <1>1 DEF IsRun, Turn
<1> DEFINE Good(i) == Emptied(s, l, w, i, f[i])
           Bad == {i \in 0 .. N : ~ Good(i)}
<1>3. Good(0)
  <2>1. Firsts(w, 0) = {}
    BY DEF Firsts
  <2> QED
    BY <1>2, <2>1 DEF Emptied
<1> HIDE DEF Good
<1>4. Bad = {}
  <2>1. SUFFICES ASSUME Bad # {} PROVE FALSE
    OBVIOUS
  <2>2. Min(Bad) \in Bad /\ \A k \in Bad : Min(Bad) <= k
    <3>1. Bad \in SUBSET Nat
      OBVIOUS
    <3> QED
      BY <2>1, <3>1, MinOfNaturals, Zenon
  <2>3. PICK z \in 0 .. N : z \in Bad /\ \A k \in Bad : z <= k
    BY <2>2
  <2>4. PICK j \in 0 .. N : z = j + 1 /\ Good(j)
    <3>1. z # 0
      BY <1>3, <2>3
    <3>2. z - 1 \in 0 .. N /\ ~ (z <= z - 1)
      BY <2>3, <3>1
    <3> QED
      BY <2>3, <3>2
  <2>5. f[z] = L!RemoveNode(f[j], l, w[j + 1])
    BY <1>2, <2>4
  <2>6. w[j + 1] \in Members(s, l) /\ w[j + 1] \notin Firsts(w, j)
    BY <2>3, <2>4 DEF Firsts
  <2>7. Emptied(s, l, w, j + 1, f[z])
    BY <2>4, <2>5, <2>6, EmptiedNext DEF Good
  <2> QED
    BY <2>3, <2>4, <2>7 DEF Good
<1> QED
  BY <1>1, <1>4 DEF Good

\* What pushes of new nodes make.
Lengthened(s, l, w, k, g) ==
  /\ ListsGood(g) /\ g.id = s.id
  /\ g.live = s.live \cup Firsts(w, k)

LEMMA PushBackGood ==
  ASSUME NEW s, ListsGood(s), NEW l \in Lists, NEW new \in Nodes \ s.live, NEW v \in Values \cup {NULL},
         NEW g, g = L!PushBack(s, l, new, v)
  PROVE  ListsGood(g) /\ g.id = s.id /\ g.live = s.live \cup {new}
<1>1. PICK p, n : p = s.tail[l] /\ n = NULL
  OBVIOUS
<1>2. g = L!CreateNode(s, l, p, n, new, v)
  BY <1>1 DEF L!PushBack
<1>3. Between(ChainOf(s, l), Members(s, l), p, n)
  BY <1>1 DEF ListsGood, ListSound, Between, IsTail, Chained
<1> QED
  BY <1>2, <1>3, CreateNodeGood

LEMMA PushedGood ==
  ASSUME NEW s, ListsGood(s), NEW l \in Lists, NEW w, NEW v, NEW N \in Nat, Len(v) = N,
         \A i \in 1 .. N : w[i] \in Nodes \ s.live /\ v[i] \in Values \cup {NULL},
         \A i, j \in 1 .. N : w[i] = w[j] => i = j,
         NEW g, g = L!Pushed(s, l, w, v)
  PROVE  Lengthened(s, l, w, N, g)
<1>1. PICK f : IsRun("push", s, l, w, v, s, f, N) /\ g = f[N]
  <2>1. \E f : IsRun("push", s, l, w, v, s, f, N)
    BY RunExists
  <2> DEFINE a == CHOOSE f : f = [i \in 0 .. N |-> IF i = 0 THEN s ELSE L!PushBack(f[i - 1], l, w[i], v[i])]
  <2>2. \A f : IsRun("push", s, l, w, v, s, f, N)
               <=> f = [i \in 0 .. N |-> IF i = 0 THEN s ELSE L!PushBack(f[i - 1], l, w[i], v[i])]
    <3>1. "push" # "remove"
      OBVIOUS
    <3> QED
      BY <3>1, Zenon DEF IsRun, Turn
  <2>3. IsRun("push", s, l, w, v, s, a, N)
    BY <2>1, <2>2
  <2>4. g = a[N]
    BY DEF L!Pushed
  <2> QED
    BY <2>3, <2>4
<1>2. f[0] = s /\ \A i \in 0 .. N : i # 0 => f[i] = L!PushBack(f[i - 1], l, w[i], v[i])
  BY <1>1 DEF IsRun, Turn
<1> DEFINE Good(i) == Lengthened(s, l, w, i, f[i])
           Bad == {i \in 0 .. N : ~ Good(i)}
<1>3. Good(0)
  <2>1. Firsts(w, 0) = {}
    BY DEF Firsts
  <2> QED
    BY <1>2, <2>1 DEF Lengthened
<1> HIDE DEF Good
<1>4. Bad = {}
  <2>1. SUFFICES ASSUME Bad # {} PROVE FALSE
    OBVIOUS
  <2>2. Min(Bad) \in Bad /\ \A k \in Bad : Min(Bad) <= k
    <3>1. Bad \in SUBSET Nat
      OBVIOUS
    <3> QED
      BY <2>1, <3>1, MinOfNaturals, Zenon
  <2>3. PICK z \in 0 .. N : z \in Bad /\ \A k \in Bad : z <= k
    BY <2>2
  <2>4. PICK j \in 0 .. N : z = j + 1 /\ Good(j)
    <3>1. z # 0
      BY <1>3, <2>3
    <3>2. z - 1 \in 0 .. N /\ ~ (z <= z - 1)
      BY <2>3, <3>1
    <3> QED
      BY <2>3, <3>2
  <2>5. f[z] = L!PushBack(f[j], l, w[j + 1], v[j + 1])
    BY <1>2, <2>4
  <2>6. ListsGood(f[j]) /\ f[j].id = s.id /\ f[j].live = s.live \cup Firsts(w, j)
    BY <2>4 DEF Good, Lengthened
  <2>7. w[j + 1] \in Nodes \ f[j].live /\ v[j + 1] \in Values \cup {NULL}
    BY <2>3, <2>4, <2>6 DEF Firsts
  <2>8. ListsGood(f[z]) /\ f[z].id = s.id /\ f[z].live = f[j].live \cup {w[j + 1]}
    BY <2>5, <2>6, <2>7, PushBackGood
  <2>9. Firsts(w, z) = Firsts(w, j) \cup {w[j + 1]}
    BY <2>4 DEF Firsts
  <2> QED
    BY <2>3, <2>6, <2>8, <2>9 DEF Good, Lengthened
<1> QED
  BY <1>1, <1>4 DEF Good

(***************************************************************************)
(* The list: walks                                                         *)
(***************************************************************************)

\* The nodes w are those of the list l, in the order of its chain in both directions.
Enumerates(s, l, w) ==
  /\ w = [i \in 1 .. s.len[l] |-> w[i]]
  /\ \A i \in 1 .. s.len[l] : /\ w[i] \in Members(s, l)
                              /\ s.prev[w[i]] = IF i = 1 THEN NULL ELSE w[i - 1]
  /\ \A i, j \in 1 .. s.len[l] : w[i] = w[j] => i = j
  /\ \A n \in Members(s, l) : \E i \in 1 .. s.len[l] : w[i] = n
  /\ s.tail[l] = IF s.len[l] = 0 THEN NULL ELSE w[s.len[l]]

LEMMA WalkEnumerates ==
  ASSUME NEW s, ListsGood(s), NEW l \in Lists, NEW w, w = L!Walk(s, l)
  PROVE  Enumerates(s, l, w) /\ s.len[l] \in Nat /\ Len(w) = s.len[l]
<1> DEFINE N == Cardinality(Nodes)
           S == Members(s, l)
           lst == ChainOf(s, l)
           c == s.len[l]
<1>0. /\ s \in ListType /\ N \in Nat /\ IsFiniteSet(S) /\ NULL \notin S /\ Cardinality(S) <= N
      /\ Chained(lst, S) /\ IsTail(lst, s.tail[l], S) /\ c = Cardinality(S)
      /\ lst.head = s.head[l] /\ lst.next = s.next /\ lst.prev = s.prev
  <2>1. s \in ListType /\ ListSound(s, l)
    BY DEF ListsGood
  <2> QED
    BY <2>1, MembersFinite, ListConstants DEF ListSound, ChainOf
<1> DEFINE K(f) == {k \in 0 .. N - 1 : f[k] # NULL}
<1>1. PICK f : IsRun("walk", s, l, s, s, s.head[l], f, N)
               /\ w = [i \in 1 .. Cardinality(K(f)) |-> f[i - 1]]
  <2>1. \E f : IsRun("walk", s, l, s, s, s.head[l], f, N)
    BY <1>0, RunExists
  <2> DEFINE a == CHOOSE f : f = [i \in 0 .. N |-> IF i = 0 THEN s.head[l]
                                    ELSE IF f[i - 1] = NULL THEN NULL ELSE s.next[f[i - 1]]]
  <2>2. \A f : IsRun("walk", s, l, s, s, s.head[l], f, N)
               <=> f = [i \in 0 .. N |-> IF i = 0 THEN s.head[l]
                                    ELSE IF f[i - 1] = NULL THEN NULL ELSE s.next[f[i - 1]]]
    <3>1. "walk" # "remove" /\ "walk" # "push"
      OBVIOUS
    <3> QED
      BY <3>1, Zenon DEF IsRun, Turn
  <2>3. IsRun("walk", s, l, s, s, s.head[l], a, N)
    BY <2>1, <2>2
  <2>4. w = [i \in 1 .. Cardinality(K(a)) |-> a[i - 1]]
    BY Zenon DEF L!Walk, L!From, L!Cardinality, Cardinality
  <2> QED
    BY <2>3, <2>4
<1>2. ChainWalk(lst, f, N)
  BY <1>0, <1>1 DEF IsRun, Turn, ChainWalk
<1>3. WalkOf(lst, S, f, c, N)
  BY <1>0, <1>2, WalkMeetsEach
<1>4. Cardinality(K(f)) = c
  <2>1. K(f) = 0 .. c - 1
    BY <1>0, <1>3 DEF WalkOf
  <2> QED
    <3>1. c \in Nat /\ 0 \in Int /\ c - 1 \in Int
      BY <1>0, <1>3 DEF WalkOf
    <3>2. Cardinality(0 .. c - 1) = IF 0 > c - 1 THEN 0 ELSE (c - 1) - 0 + 1
      BY <3>1, FS_Interval, Zenon
    <3> HIDE DEF K, c
    <3>3. Cardinality(0 .. c - 1) = c
      BY <3>1, <3>2
    <3> QED
      BY <2>1, <3>3
<1>5. w = [i \in 1 .. c |-> f[i - 1]]
  BY <1>1, <1>4
<1>6. c \in Nat /\ c <= N
  BY <1>0, <1>3 DEF WalkOf
<1> HIDE DEF N, S, lst, c
<1>7. \A i \in 1 .. c : i - 1 \in 0 .. c - 1 /\ w[i] = f[i - 1]
  BY <1>5, <1>6
<1>8. \A i \in 1 .. c : w[i] \in S /\ s.prev[w[i]] = IF i = 1 THEN NULL ELSE w[i - 1]
  <2>1. SUFFICES ASSUME NEW i \in 1 .. c
                 PROVE  w[i] \in S /\ s.prev[w[i]] = IF i = 1 THEN NULL ELSE w[i - 1]
    OBVIOUS
  <2>2. f[i - 1] \in S /\ s.prev[f[i - 1]] = IF i - 1 = 0 THEN NULL ELSE f[(i - 1) - 1]
    BY <1>0, <1>3, <1>7 DEF WalkOf
  <2>3. CASE i = 1
    BY <1>7, <2>2, <2>3
  <2>4. CASE i # 1
    <3>1. i - 1 \in 1 .. c /\ i - 1 # 0
      BY <1>6, <2>4
    <3> QED
      BY <1>7, <2>2, <2>4, <3>1
  <2> QED
    BY <2>3, <2>4
<1>9. \A i, j \in 1 .. c : w[i] = w[j] => i = j
  <2>1. SUFFICES ASSUME NEW i \in 1 .. c, NEW j \in 1 .. c, w[i] = w[j] PROVE i = j
    OBVIOUS
  <2>2. i - 1 = j - 1
    BY <1>3, <1>7, <2>1 DEF WalkOf
  <2> QED
    BY <1>6, <2>2
<1>10. \A n \in S : \E i \in 1 .. c : w[i] = n
  <2>1. SUFFICES ASSUME NEW n \in S PROVE \E i \in 1 .. c : w[i] = n
    OBVIOUS
  <2>2. PICK i \in 0 .. c - 1 : f[i] = n
    BY <1>3 DEF WalkOf
  <2>3. i + 1 \in 1 .. c /\ (i + 1) - 1 = i
    BY <1>6
  <2> QED
    BY <1>7, <2>2, <2>3
<1>11. s.tail[l] = IF c = 0 THEN NULL ELSE w[c]
  <2>1. CASE S = {}
    BY <1>0, <2>1, FS_EmptySet DEF IsTail
  <2>2. CASE S # {}
    <3>1. s.tail[l] \in S /\ s.next[s.tail[l]] = NULL /\ c # 0
      BY <1>0, <2>2, FS_EmptySet DEF IsTail
    <3>2. PICK i \in 1 .. c : w[i] = s.tail[l]
      BY <1>10, <3>1
    <3>3. ASSUME i # c PROVE FALSE
      <4>1. i \in 0 .. N /\ i # 0 /\ f[i - 1] = s.tail[l] /\ s.tail[l] # NULL
        BY <1>0, <1>6, <1>7, <3>1, <3>2
      <4>2. f[i] = NULL
        BY <1>0, <1>2, <3>1, <4>1 DEF ChainWalk
      <4>3. i >= c
        BY <1>3, <4>1, <4>2 DEF WalkOf
      <4> QED
        BY <1>6, <3>3, <4>3
    <3> QED
      BY <3>1, <3>2, <3>3
  <2> QED
    BY <2>1, <2>2
<1>12. w = [i \in 1 .. c |-> w[i]] /\ Len(w) = c
  BY <1>5, <1>6
<1>13. Enumerates(s, l, w)
  BY <1>8, <1>9, <1>10, <1>11, <1>12 DEF Enumerates, S, c
<1> QED
  BY <1>6, <1>12, <1>13 DEF c

(***************************************************************************)
(* The list: whole lists                                                   *)
(***************************************************************************)
LEMMA FirstsAreMembers ==
  ASSUME NEW s, NEW l, NEW w, Enumerates(s, l, w), s.len[l] \in Nat
  PROVE  Firsts(w, s.len[l]) = Members(s, l)
BY DEF Enumerates, Firsts

\* What clear() leaves of l, and what it leaves alone.
Cleared(s, l, g) ==
  /\ ListsGood(g) /\ g.id = s.id
  /\ g.live = s.live \ Members(s, l)
  /\ Members(g, l) = {}
  /\ \A j \in Lists \ {l} : g.head[j] = s.head[j] /\ g.tail[j] = s.tail[j] /\ g.len[j] = s.len[j]

LEMMA ClearAllGood ==
  ASSUME NEW s, ListsGood(s), NEW l \in Lists, NEW g, g = L!ClearAll(s, l)
  PROVE  Cleared(s, l, g)
<1>1. PICK w : w = L!Walk(s, l)
  OBVIOUS
<1>2. Enumerates(s, l, w) /\ s.len[l] \in Nat /\ Len(w) = s.len[l]
  BY <1>1, WalkEnumerates
<1>3. PICK N \in Nat : N = s.len[l]
  BY <1>2
<1>4. g = L!Removed(s, l, w)
  BY <1>1 DEF L!ClearAll
<1>5. /\ \A i \in 1 .. N : w[i] \in Members(s, l)
      /\ \A i, j \in 1 .. N : w[i] = w[j] => i = j
  BY <1>2, <1>3 DEF Enumerates
<1>6. Emptied(s, l, w, N, g)
  BY <1>2, <1>3, <1>4, <1>5, RemovedGood
<1>7. Firsts(w, N) = Members(s, l)
  BY <1>2, <1>3, FirstsAreMembers
<1>8. g.live = s.live \ Members(s, l) /\ g.id = s.id /\ \A n \in g.live : g.nid[n] = s.nid[n]
  BY <1>6, <1>7 DEF Emptied
<1>9. Members(g, l) = {}
  BY <1>8 DEF Members
<1> QED
  BY <1>6, <1>8, <1>9 DEF Emptied, Cleared

\* The values of the elements do not matter to the lists.
LEMMA DataGood ==
  ASSUME NEW s, ListsGood(s), NEW f \in [Nodes -> Values \cup {NULL}],
         NEW g, g = [s EXCEPT !.data = f]
  PROVE  /\ ListsGood(g) /\ g.id = s.id /\ g.live = s.live /\ g.len = s.len
         /\ \A l : Members(g, l) = Members(s, l)
<1>0. s \in ListType
  BY DEF ListsGood
<1>1. /\ g.head = s.head /\ g.tail = s.tail /\ g.len = s.len /\ g.id = s.id /\ g.live = s.live
      /\ g.prev = s.prev /\ g.next = s.next /\ g.nid = s.nid
      /\ g \in ListType
  BY <1>0 DEF ListType
<1>2. \A l : Members(g, l) = Members(s, l) /\ ChainOf(g, l) = ChainOf(s, l)
  BY <1>1 DEF Members, ChainOf
<1>3. \A l \in Lists : ListSound(g, l)
  BY <1>1, <1>2 DEF ListsGood, ListSound
<1> QED
  BY <1>1, <1>2, <1>3 DEF ListsGood

\* A list has no nodes and its links say so.
LEMMA EmptySound ==
  ASSUME NEW s, NEW l, Members(s, l) = {}, s.head[l] = NULL, s.tail[l] = NULL, s.len[l] = 0
  PROVE  ListSound(s, l)
<1>1. Chained(ChainOf(s, l), {})
  <2>1. Acyclic(ChainOf(s, l), {})
    BY DEF Acyclic
  <2>2. ChainOf(s, l).head = NULL
    BY DEF ChainOf
  <2> QED
    BY <2>1, <2>2 DEF Chained
<1>2. IsTail(ChainOf(s, l), NULL, {})
  BY DEF IsTail
<1> QED
  BY <1>1, <1>2, FS_EmptySet DEF ListSound

\* What operator= (list&&) makes of c, where l has been cleared.
Moved(c, l, k, g) ==
  /\ g.live = c.live /\ g.prev = c.prev /\ g.data = c.data
  /\ g.tail[l] = c.tail[k] /\ g.len[l] = c.len[k] /\ g.tail[k] = NULL /\ g.len[k] = 0
  /\ \A j \in Lists \ {l, k} : g.tail[j] = c.tail[j] /\ g.len[j] = c.len[j]
  /\ Members(g, l) = Members(c, k) /\ Members(g, k) = {}
  /\ \A j \in Lists \ {l, k} : Members(g, j) = Members(c, j)

LEMMA MoveAssignedGood ==
  ASSUME NEW s, ListsGood(s), NEW l \in Lists, NEW k \in Lists, l # k,
         NEW d \in 0 .. MaxId, \A j \in Lists : s.id[j] < d,
         NEW g, g = L!MoveAssigned(s, l, k, d)
  PROVE  /\ ListsGood(g) /\ g.live \subseteq s.live /\ \A j \in Lists : g.id[j] <= d
         /\ Moved(L!ClearAll(s, l), l, k, g)
<1>1. PICK c : c = L!ClearAll(s, l)
  OBVIOUS
<1>2. Cleared(s, l, c)
  BY <1>1, ClearAllGood
<1>3. /\ ListsGood(c) /\ c \in ListType /\ s \in ListType /\ c.id = s.id /\ c.live \subseteq s.live
      /\ Members(c, l) = {}
      /\ \A j \in Lists \ {l} : c.head[j] = s.head[j] /\ c.tail[j] = s.tail[j] /\ c.len[j] = s.len[j]
  BY <1>2 DEF Cleared, ListsGood
<1>4. g = [c EXCEPT !.head[l] = s.head[k], !.tail[l] = s.tail[k], !.len[l] = s.len[k], !.id[l] = s.id[k],
                    !.head[k] = NULL, !.tail[k] = NULL, !.len[k] = 0, !.id[k] = d]
  BY <1>1 DEF L!MoveAssigned
<1>5. /\ g.live = c.live /\ g.prev = c.prev /\ g.next = c.next /\ g.data = c.data /\ g.nid = c.nid
      /\ g.head = [c.head EXCEPT ![l] = s.head[k], ![k] = NULL]
      /\ g.tail = [c.tail EXCEPT ![l] = s.tail[k], ![k] = NULL]
      /\ g.len = [c.len EXCEPT ![l] = s.len[k], ![k] = 0]
      /\ g.id = [c.id EXCEPT ![l] = s.id[k], ![k] = d]
      /\ g = [head |-> g.head, tail |-> g.tail, len |-> g.len, id |-> g.id, live |-> g.live,
              prev |-> g.prev, next |-> g.next, data |-> g.data, nid |-> g.nid]
  <2>0. c = [head |-> c.head, tail |-> c.tail, len |-> c.len, id |-> c.id, live |-> c.live,
             prev |-> c.prev, next |-> c.next, data |-> c.data, nid |-> c.nid]
    BY <1>3 DEF ListType
  <2>1. g.live = c.live /\ g.prev = c.prev /\ g.next = c.next /\ g.data = c.data /\ g.nid = c.nid
    BY <1>4, <2>0
  <2>2. /\ g.head = [c.head EXCEPT ![l] = s.head[k], ![k] = NULL]
        /\ g.tail = [c.tail EXCEPT ![l] = s.tail[k], ![k] = NULL]
    BY <1>4, <2>0
  <2>3. /\ g.len = [c.len EXCEPT ![l] = s.len[k], ![k] = 0]
        /\ g.id = [c.id EXCEPT ![l] = s.id[k], ![k] = d]
    BY <1>4, <2>0
  <2>4. g = [head |-> g.head, tail |-> g.tail, len |-> g.len, id |-> g.id, live |-> g.live,
             prev |-> g.prev, next |-> g.next, data |-> g.data, nid |-> g.nid]
    BY <1>4, <2>0
  <2> QED
    BY <2>1, <2>2, <2>3, <2>4
<1>6. /\ g.head[l] = c.head[k] /\ g.tail[l] = c.tail[k] /\ g.len[l] = c.len[k] /\ g.id[l] = c.id[k]
      /\ g.head[k] = NULL /\ g.tail[k] = NULL /\ g.len[k] = 0 /\ g.id[k] = d
      /\ \A j \in Lists \ {l, k} : /\ g.head[j] = c.head[j] /\ g.tail[j] = c.tail[j]
                                   /\ g.len[j] = c.len[j] /\ g.id[j] = c.id[j]
  BY <1>3, <1>5 DEF ListType
<1>7. g \in ListType
  <2>1. /\ g.head \in [Lists -> Nodes \cup {NULL}] /\ g.tail \in [Lists -> Nodes \cup {NULL}]
        /\ g.len \in [Lists -> Nat] /\ g.id \in [Lists -> 0 .. MaxId]
    BY <1>3, <1>5 DEF ListType
  <2>2. /\ g.live \in SUBSET Nodes
        /\ g.prev \in [Nodes -> Nodes \cup {NULL}] /\ g.next \in [Nodes -> Nodes \cup {NULL}]
        /\ g.data \in [Nodes -> Values \cup {NULL}] /\ g.nid \in [Nodes -> 0 .. MaxId]
    BY <1>3, <1>5 DEF ListType
  <2> QED
    BY <1>5, <2>1, <2>2, Zenon DEF ListType
<1>8. /\ Members(g, l) = Members(c, k)
      /\ Members(g, k) = {}
      /\ \A j \in Lists \ {l, k} : Members(g, j) = Members(c, j)
  <2>1. Members(g, k) = {}
    <3>1. SUFFICES ASSUME NEW n \in c.live, c.nid[n] = d PROVE FALSE
      BY <1>5, <1>6 DEF Members
    <3>2. PICK j \in Lists : c.nid[n] = c.id[j]
      BY <1>3 DEF ListsGood
    <3>3. s.id[j] < d /\ s.id[j] = d
      BY <1>3, <3>1, <3>2
    <3> QED
      BY <3>3
  <2> QED
    BY <1>5, <1>6, <2>1 DEF Members
<1>9. ListSound(g, k)
  BY <1>6, <1>8, EmptySound
<1>10. ListSound(g, l)
  <2>1. ChainOf(g, l) = ChainOf(c, k)
    BY <1>5, <1>6 DEF ChainOf
  <2>2. ListSound(c, k)
    BY <1>3 DEF ListsGood
  <2> QED
    BY <1>6, <1>8, <2>1, <2>2 DEF ListSound
<1>11. ASSUME NEW j \in Lists \ {l, k} PROVE ListSound(g, j)
  <2>1. ListSound(c, j) /\ Members(g, j) = Members(c, j)
    BY <1>3, <1>8 DEF ListsGood
  <2>2. g.head[j] = c.head[j] /\ g.tail[j] = c.tail[j] /\ g.len[j] = c.len[j]
    BY <1>6
  <2>3. \A n \in Members(c, j) : g.next[n] = c.next[n] /\ g.prev[n] = c.prev[n]
    BY <1>5
  <2> QED
    BY <2>1, <2>2, <2>3, ListFrame
<1>12. \A i, j \in Lists : g.id[i] = g.id[j] => i = j
  <2>1. \A i, j \in Lists : c.id[i] = c.id[j] => i = j
    BY <1>3 DEF ListsGood
  <2>2. \A j \in Lists : c.id[j] # d
    BY <1>3 DEF ListType
  <2> QED
    BY <1>6, <2>1, <2>2
<1>13. \A n \in g.live : \E j \in Lists : g.nid[n] = g.id[j]
  <2>1. SUFFICES ASSUME NEW n \in c.live PROVE \E j \in Lists : c.nid[n] = g.id[j]
    BY <1>5
  <2>2. PICK j \in Lists : c.nid[n] = c.id[j]
    BY <1>3 DEF ListsGood
  <2>3. j # l
    BY <1>3, <2>2 DEF Members
  <2> QED
    BY <1>6, <2>2, <2>3
<1>14. \A j \in Lists : g.id[j] <= d
  <2>1. \A j \in Lists : c.id[j] \in Nat /\ c.id[j] < d
    BY <1>3 DEF ListType
  <2> QED
    BY <1>6, <2>1
<1>15. Moved(L!ClearAll(s, l), l, k, g)
  BY <1>1, <1>5, <1>6, <1>8 DEF Moved
<1> QED
  BY <1>3, <1>5, <1>7, <1>9, <1>10, <1>11, <1>12, <1>13, <1>14, <1>15 DEF ListsGood

\* operator= (const list&): 'new' holds as many unused nodes as l is shorter than k.
LEMMA CopyAssignedGood ==
  ASSUME NEW s, ListsGood(s), NEW l \in Lists, NEW k \in Lists,
         NEW new, NEW M \in Nat, l # k => s.len[k] <= s.len[l] + M,
         \A i \in 1 .. M : new[i] \in Nodes \ s.live,
         \A i, j \in 1 .. M : new[i] = new[j] => i = j,
         NEW g, g = L!CopyAssigned(s, l, k, new)
  PROVE  ListsGood(g) /\ g.id = s.id /\ g.live \subseteq s.live \cup Firsts(new, M)
<1>1. CASE l = k
  BY <1>1 DEF L!CopyAssigned
<1>2. CASE l # k
  <2>1. PICK p, q : p = L!Walk(s, l) /\ q = L!Walk(s, k)
    OBVIOUS
  <2>2. PICK P \in Nat, Q \in Nat : P = s.len[l] /\ Q = s.len[k]
    BY <2>1, WalkEnumerates
  <2>3. /\ Enumerates(s, l, p) /\ Len(p) = P
        /\ Enumerates(s, k, q) /\ Len(q) = Q
    BY <2>1, <2>2, WalkEnumerates
  <2>4. /\ p = [i \in 1 .. P |-> p[i]]
        /\ \A i \in 1 .. P : p[i] \in Members(s, l)
        /\ \A i, j \in 1 .. P : p[i] = p[j] => i = j
        /\ \A i \in 1 .. Q : q[i] \in Members(s, k)
    BY <2>2, <2>3 DEF Enumerates
  <2>5. PICK both \in Nat : both = IF P < Q THEN P ELSE Q
    OBVIOUS
  <2>6. s \in ListType
    BY DEF ListsGood
  <2> DEFINE f == [n \in Nodes |->
                     IF \E i \in 1 .. both : p[i] = n
                       THEN s.data[q[CHOOSE i \in 1 .. both : p[i] = n]] ELSE s.data[n]]
             w == SubSeq(p, both + 1, P)
             v == [i \in 1 .. Q - both |-> s.data[q[both + i]]]
  <2>7. PICK a : a = [s EXCEPT !.data = f]
    OBVIOUS
  <2>8. PICK r : r = L!Removed(a, l, w)
    OBVIOUS
  <2>9. g = L!Pushed(r, l, new, v)
    BY <1>2, <2>1, <2>3, <2>5, <2>7, <2>8 DEF L!CopyAssigned
  <2>10. f \in [Nodes -> Values \cup {NULL}]
    <3>1. ASSUME NEW n \in Nodes PROVE f[n] \in Values \cup {NULL}
      <4>1. CASE \E i \in 1 .. both : p[i] = n
        <5>1. PICK i \in 1 .. both : i = CHOOSE j \in 1 .. both : p[j] = n
          BY <4>1
        <5>2. q[i] \in Nodes
          <6>1. i \in 1 .. Q
            BY <2>5
          <6> QED
            BY <2>4, <2>6, <6>1, MembersFinite
        <5> QED
          BY <2>6, <4>1, <5>1, <5>2 DEF ListType
      <4>2. CASE ~ \E i \in 1 .. both : p[i] = n
        BY <2>6, <4>2 DEF ListType
      <4> QED
        BY <4>1, <4>2
    <3> QED
      BY <3>1
  <2>11. w = [i \in 1 .. P - both |-> p[both + i]] /\ Len(w) = P - both /\ P - both \in Nat
    <3>1. \A i \in 1 .. P : p[i] \in Nodes
      BY <2>4, <2>6, MembersFinite
    <3>2. p \in Seq(Nodes) /\ Len(p) = P
      BY <2>3, <2>4, <3>1
    <3>3. both <= P
      BY <2>5
    <3> QED
      BY <3>2, <3>3
  <2>12. Len(v) = Q - both /\ Q - both \in Nat /\ Q - both \in 0 .. M
    BY <1>2, <2>2, <2>5
  <2>13. \A i \in 1 .. Q - both : v[i] \in Values \cup {NULL}
    <3>1. ASSUME NEW i \in 1 .. Q - both PROVE v[i] \in Values \cup {NULL}
      <4>1. both + i \in 1 .. Q
        BY <2>5
      <4>2. q[both + i] \in Nodes
        BY <2>4, <2>6, <4>1, MembersFinite
      <4> QED
        BY <2>6, <4>2 DEF ListType
    <3> QED
      BY <3>1
  <2> HIDE DEF f, w, v
  <2>14. ListsGood(a) /\ a.id = s.id /\ a.live = s.live /\ Members(a, l) = Members(s, l)
    BY <2>7, <2>10, DataGood
  <2>15. /\ \A i \in 1 .. P - both : w[i] \in Members(a, l)
         /\ \A i, j \in 1 .. P - both : w[i] = w[j] => i = j
    <3>1. \A i \in 1 .. P - both : both + i \in 1 .. P /\ w[i] = p[both + i]
      BY <2>5, <2>11
    <3>2. ASSUME NEW i \in 1 .. P - both, NEW j \in 1 .. P - both, w[i] = w[j] PROVE i = j
      <4>1. both + i = both + j
        BY <2>4, <3>1, <3>2
      <4> QED
        BY <2>5, <4>1
    <3> QED
      BY <2>4, <2>14, <3>1, <3>2
  <2>16. PICK A \in Nat, B \in Nat : A = P - both /\ B = Q - both
    BY <2>11, <2>12
  <2>17. Emptied(a, l, w, A, r)
    BY <2>8, <2>11, <2>14, <2>15, <2>16, RemovedGood
  <2>18. ListsGood(r) /\ r.id = s.id /\ r.live \subseteq s.live
    BY <2>14, <2>17 DEF Emptied
  <2>19. /\ \A i \in 1 .. B : new[i] \in Nodes \ r.live /\ v[i] \in Values \cup {NULL}
         /\ \A i, j \in 1 .. B : new[i] = new[j] => i = j
         /\ Firsts(new, B) \subseteq Firsts(new, M)
    <3>1. \A i \in 1 .. B : i \in 1 .. M
      BY <2>12, <2>16
    <3> QED
      BY <2>13, <2>16, <2>18, <3>1 DEF Firsts
  <2>20. Lengthened(r, l, new, B, g)
    BY <2>9, <2>12, <2>16, <2>18, <2>19, PushedGood
  <2> QED
    BY <2>18, <2>19, <2>20 DEF Lengthened
<1> QED
  BY <1>1, <1>2

\* An allocator has as many unused nodes as there is room for.
LEMMA FreshNodesThere ==
  ASSUME NEW X \in SUBSET Nodes, NEW k \in Nat, Cardinality(X) + k <= Cardinality(Nodes),
         NEW f, f = CHOOSE a \in [1 .. k -> Nodes \ X] : \A i, j \in 1 .. k : a[i] = a[j] => i = j
  PROVE  /\ \A i \in 1 .. k : f[i] \in Nodes \ X
         /\ \A i, j \in 1 .. k : f[i] = f[j] => i = j
<1> DEFINE n == Cardinality(Nodes \ X)
<1>1. IsFiniteSet(X) /\ IsFiniteSet(Nodes \ X) /\ n \in Nat /\ k <= n
  <2>1. IsFiniteSet(X) /\ IsFiniteSet(Nodes \ X) /\ n \in Nat /\ Cardinality(X) \in Nat
    BY ListConstants, FS_Subset, FS_CardinalityType
  <2>2. n = Cardinality(Nodes) - Cardinality(X)
    <3>1. Nodes \cap X = X
      OBVIOUS
    <3> QED
      BY <3>1, ListConstants, FS_Difference
  <2> HIDE DEF n
  <2> QED
    BY <2>1, <2>2, ListConstants
<1>2. PICK b : b \in Bijection(1 .. n, Nodes \ X)
  BY <1>1, FS_CardinalityType DEF ExistsBijection
<1>3. b \in [1 .. n -> Nodes \ X] /\ \A i, j \in 1 .. n : b[i] = b[j] => i = j
  BY <1>2 DEF Bijection, Injection, IsInjective
<1> HIDE DEF n
<1>4. \A i \in 1 .. k : i \in 1 .. n
  BY <1>1
<1>5. PICK a : a = [i \in 1 .. k |-> b[i]]
  OBVIOUS
<1>6. a \in [1 .. k -> Nodes \ X] /\ \A i, j \in 1 .. k : a[i] = a[j] => i = j
  BY <1>3, <1>4, <1>5
<1>7. f \in [1 .. k -> Nodes \ X] /\ \A i, j \in 1 .. k : f[i] = f[j] => i = j
  BY <1>6
<1> QED
  BY <1>7

(***************************************************************************)
(* The list: every step keeps the invariant                                *)
(***************************************************************************)
LEMMA ListInvFacts ==
  ASSUME ListInv
  PROVE  /\ ListsGood(m) /\ m \in ListType /\ m.live \subseteq Nodes /\ NULL \notin m.live
         /\ tomb \subseteq Nodes /\ tomb \cap m.live = {}
         /\ handle \in [Handles -> Nodes \cup {NULL}]
         /\ \A h \in Handles : handle[h] \in m.live \cup tomb \cup {NULL}
         /\ ids \in 0 .. MaxId + 1 /\ \A l \in Lists : m.id[l] < ids
<1>1. ListsGood(m) /\ m \in ListType
  BY DEF ListInv, ListsGood
<1>2. m.live \subseteq Nodes /\ NULL \notin m.live
  BY <1>1, MembersFinite
<1>3. \A h \in Handles : handle[h] \in m.live \cup tomb \cup {NULL}
  BY Zenon DEF ListInv, L!TombstonesHeld
<1> QED
  BY <1>1, <1>2, <1>3 DEF ListInv

\* The chain becomes s and the handles g.
LEMMA BecomeKeeps ==
  ASSUME ListInv, NEW s, ListsGood(s), s.live \cap tomb = {},
         NEW g \in [Handles -> Nodes \cup {NULL}],
         \A h \in Handles : g[h] \in m.live \cup s.live \cup tomb \cup {NULL},
         L!Become(s, g), stopped' \in BOOLEAN,
         ids' \in 0 .. MaxId + 1, \A l \in Lists : s.id[l] < ids'
  PROVE  ListInv'
<1>1. m' = s /\ handle' = g
      /\ tomb' = {n \in (m.live \ m'.live) \cup tomb : \E h \in Handles : g[h] = n}
  BY DEF L!Become
<1>2. tomb' = {n \in (m.live \ s.live) \cup tomb : \E h \in Handles : g[h] = n}
  BY <1>1
<1>3. /\ tomb \subseteq Nodes /\ m.live \subseteq Nodes /\ NULL \notin m.live
      /\ NULL \notin Nodes
  BY ListInvFacts, ListConstants
<1>4. tomb' \subseteq Nodes \ m'.live
  BY <1>1, <1>2, <1>3
<1>5. L!TombstonesHeld'
  <2> DEFINE pointed == {g[h] : h \in Handles} \ {NULL}
  <2>1. ASSUME NEW n \in pointed PROVE n \in s.live \cup tomb'
    <3>1. PICK h \in Handles : g[h] = n /\ n # NULL
      BY <2>1
    <3>2. n \in m.live \cup s.live \cup tomb
      BY <3>1
    <3> QED
      BY <1>2, <3>1, <3>2
  <2>2. ASSUME NEW n \in tomb' PROVE n \in pointed
    <3>1. n # NULL
      BY <1>2, <1>3, <2>2
    <3> QED
      BY <1>2, <2>2, <3>1
  <2>3. pointed \subseteq s.live \cup tomb' /\ tomb' \subseteq pointed
    BY <2>1, <2>2
  <2> QED
    BY <1>1, <2>3 DEF L!TombstonesHeld
<1> QED
  BY <1>1, <1>4, <1>5 DEF ListInv

LEMMA FreshNodeThere ==
  ASSUME ListInv, L!HasRoom(1)
  PROVE  L!FreshNode \in Nodes /\ L!FreshNode \notin m.live \cup tomb
<1>1. m.live \cup tomb \subseteq Nodes
  BY ListInvFacts
<1>2. Cardinality(m.live \cup tomb) + 1 <= Cardinality(Nodes)
  BY ListCounts DEF L!HasRoom
<1>3. \E n \in Nodes : n \notin m.live \cup tomb
  <2>1. PICK X : X = m.live \cup tomb
    OBVIOUS
  <2>2. X # Nodes
    BY <1>2, <2>1, ListConstants
  <2> QED
    BY <1>1, <2>1, <2>2
<1> QED
  BY <1>3 DEF L!FreshNode

\* A handle that a list takes is one of its elements.
LEMMA CheckedIsMember ==
  ASSUME NEW h, NEW l
  PROVE  L!Check(h, l) <=> handle[h] \in Members(m, l)
BY DEF L!Check, Members

\* The neighbours of a member.
LEMMA MemberLinks ==
  ASSUME ListInv, NEW l \in Lists
  PROVE  LET S == Members(m, l)
         IN  /\ S \subseteq m.live /\ S \subseteq Nodes /\ NULL \notin S
             /\ m.head[l] \in S \cup {NULL} /\ m.tail[l] \in S \cup {NULL}
             /\ m.head[l] # NULL => m.tail[l] \in S
             /\ \A n \in S : /\ m.prev[n] \in S \cup {NULL} /\ m.next[n] \in S \cup {NULL}
                             /\ Between(ChainOf(m, l), S, m.prev[n], n)
                             /\ Between(ChainOf(m, l), S, n, m.next[n])
             /\ Between(ChainOf(m, l), S, NULL, m.head[l])
             /\ Between(ChainOf(m, l), S, m.tail[l], NULL)
<1> DEFINE S == Members(m, l)
           c == ChainOf(m, l)
<1>1. /\ S \subseteq m.live /\ S \subseteq Nodes /\ NULL \notin S
      /\ Chained(c, S) /\ IsTail(c, m.tail[l], S)
      /\ c.head = m.head[l] /\ c.next = m.next /\ c.prev = m.prev
  BY ListInvFacts, MembersFinite DEF ListsGood, ListSound, ChainOf
<1> HIDE DEF S, c
<1>2. /\ m.head[l] \in S \cup {NULL} /\ m.tail[l] \in S \cup {NULL}
      /\ m.head[l] # NULL => m.tail[l] \in S
  BY <1>1 DEF Chained, IsTail
<1>3. \A n \in S : /\ m.prev[n] \in S \cup {NULL} /\ m.next[n] \in S \cup {NULL}
                   /\ Between(c, S, m.prev[n], n) /\ Between(c, S, n, m.next[n])
  BY <1>1 DEF Chained, Between
<1>4. Between(c, S, NULL, m.head[l]) /\ Between(c, S, m.tail[l], NULL)
  BY <1>1 DEF Chained, Between, IsTail
<1> QED
  BY <1>1, <1>2, <1>3, <1>4 DEF S, c

\* A node comes between two others, and h points to it.
LEMMA InsertStep ==
  ASSUME ListInv, NEW l \in Lists, NEW v \in Values, NEW h \in Handles, NEW p, NEW n,
         Between(ChainOf(m, l), Members(m, l), p, n), L!HasRoom(1), L!Running, ids' = ids,
         L!Become(L!CreateNode(m, l, p, n, L!FreshNode, v), [handle EXCEPT ![h] = L!FreshNode])
  PROVE  ListInv'
<1>1. PICK new : new = L!FreshNode
  OBVIOUS
<1>2. PICK s, g : s = L!CreateNode(m, l, p, n, new, v) /\ g = [handle EXCEPT ![h] = new]
  OBVIOUS
<1>3. new \in Nodes \ m.live /\ new \notin tomb
  BY <1>1, FreshNodeThere
<1>4. ListsGood(s) /\ s.id = m.id /\ s.live = m.live \cup {new}
  <2>1. v \in Values \cup {NULL} /\ ListsGood(m)
    BY ListInvFacts
  <2> QED
    BY <1>2, <1>3, <2>1, CreateNodeGood
<1>5. /\ g \in [Handles -> Nodes \cup {NULL}]
      /\ \A q \in Handles : g[q] \in m.live \cup s.live \cup tomb \cup {NULL}
  BY <1>2, <1>3, <1>4, ListInvFacts
<1>6. s.live \cap tomb = {} /\ L!Become(s, g) /\ stopped' \in BOOLEAN
      /\ ids' \in 0 .. MaxId + 1 /\ \A j \in Lists : s.id[j] < ids'
  BY <1>1, <1>2, <1>3, <1>4, ListInvFacts DEF L!Running, ListInv
<1> QED
  BY <1>4, <1>5, <1>6, BecomeKeeps

LEMMA PushStep ==
  ASSUME ListInv, NEW l \in Lists, NEW v \in Values, NEW h \in Handles,
         L!PushFront(l, v, h) \/ L!PushBackCall(l, v, h)
  PROVE  ListInv'
<1>1. /\ Between(ChainOf(m, l), Members(m, l), NULL, m.head[l])
      /\ Between(ChainOf(m, l), Members(m, l), m.tail[l], NULL)
  BY MemberLinks
<1>2. CASE L!PushFront(l, v, h)
  BY <1>1, <1>2, InsertStep DEF L!PushFront
<1>3. CASE L!PushBackCall(l, v, h)
  BY <1>1, <1>3, InsertStep DEF L!PushBackCall, L!PushBack
<1> QED
  BY <1>2, <1>3

LEMMA InsertAtStep ==
  ASSUME ListInv, NEW l \in Lists, NEW v \in Values, NEW h \in Handles, NEW g \in Handles,
         L!InsertBefore(l, g, v, h) \/ L!InsertAfter(l, g, v, h)
  PROVE  ListInv'
<1>1. handle[g] \in Members(m, l)
  BY CheckedIsMember DEF L!InsertBefore, L!InsertAfter
<1>2. PICK n : n = handle[g]
  OBVIOUS
<1>3. /\ Between(ChainOf(m, l), Members(m, l), m.prev[n], n)
      /\ Between(ChainOf(m, l), Members(m, l), n, m.next[n])
  BY <1>1, <1>2, MemberLinks
<1>4. CASE L!InsertBefore(l, g, v, h)
  BY <1>2, <1>3, <1>4, InsertStep DEF L!InsertBefore
<1>5. CASE L!InsertAfter(l, g, v, h)
  BY <1>2, <1>3, <1>5, InsertStep DEF L!InsertAfter
<1> QED
  BY <1>4, <1>5

\* The chain becomes s, which has no new nodes or IDs.
LEMMA ShrinkStep ==
  ASSUME ListInv, NEW s, ListsGood(s), s.live \subseteq m.live, s.id = m.id,
         L!Running, ids' = ids, L!Become(s, handle)
  PROVE  ListInv'
<1>1. s.live \cap tomb = {} /\ stopped' \in BOOLEAN
      /\ ids' \in 0 .. MaxId + 1 /\ \A j \in Lists : s.id[j] < ids'
  BY ListInvFacts DEF L!Running, ListInv
<1>2. /\ handle \in [Handles -> Nodes \cup {NULL}]
      /\ \A q \in Handles : handle[q] \in m.live \cup s.live \cup tomb \cup {NULL}
  BY ListInvFacts
<1> QED
  BY <1>1, <1>2, BecomeKeeps

LEMMA RemoveListStep ==
  ASSUME ListInv, NEW l \in Lists, L!PopEnd(l) \/ \E h \in Handles : L!Remove(l, h)
  PROVE  ListInv'
<1>1. PICK n \in Members(m, l) : L!Running /\ ids' = ids /\ L!Become(L!RemoveNode(m, l, n), handle)
  <2>1. CASE L!PopEnd(l)
    <3>1. m.head[l] \in Members(m, l) /\ m.tail[l] \in Members(m, l)
      BY <2>1, MemberLinks DEF L!PopEnd
    <3> QED
      BY <2>1, <3>1 DEF L!PopEnd
  <2>2. ASSUME NEW h \in Handles, L!Remove(l, h) PROVE \E n \in Members(m, l) :
               L!Running /\ ids' = ids /\ L!Become(L!RemoveNode(m, l, n), handle)
    BY <2>2, CheckedIsMember DEF L!Remove
  <2> QED
    BY <2>1, <2>2
<1>2. PICK s : s = L!RemoveNode(m, l, n)
  OBVIOUS
<1>3. ListsGood(s) /\ s.id = m.id /\ s.live = m.live \ {n}
  <2>1. ListsGood(m)
    BY ListInvFacts
  <2>2. Without(m, l, n, s)
    BY <1>2, <2>1, RemoveNodeGood
  <2> QED
    BY <2>2 DEF Without
<1>4. L!Become(s, handle) /\ s.live \subseteq m.live
  BY <1>1, <1>2, <1>3
<1> QED
  BY <1>1, <1>3, <1>4, ShrinkStep

LEMMA WriteStep ==
  ASSUME ListInv, NEW l \in Lists, NEW h \in Handles, NEW v \in Values, L!Write(l, h, v)
  PROVE  ListInv'
<1>1. m \in ListType /\ ListsGood(m)
  BY ListInvFacts
<1>2. PICK f : f = [m.data EXCEPT ![handle[h]] = v]
  OBVIOUS
<1>3. PICK s : s = [m EXCEPT !.data = f]
  OBVIOUS
<1>4. f \in [Nodes -> Values \cup {NULL}]
  BY <1>1, <1>2 DEF ListType
<1>5. ListsGood(s) /\ s.id = m.id /\ s.live = m.live
  BY <1>1, <1>3, <1>4, DataGood
<1>6. L!Become(s, handle) /\ L!Running /\ ids' = ids
  BY <1>1, <1>2, <1>3 DEF L!Write, ListType
<1> QED
  BY <1>5, <1>6, ShrinkStep

LEMMA ClearListStep ==
  ASSUME ListInv, NEW l \in Lists, L!Clear(l)
  PROVE  ListInv'
<1>1. PICK s : s = L!ClearAll(m, l)
  OBVIOUS
<1>2. Cleared(m, l, s)
  BY <1>1, ListInvFacts, ClearAllGood
<1>3. ListsGood(s) /\ s.id = m.id /\ s.live \subseteq m.live
  BY <1>2 DEF Cleared
<1>4. L!Become(s, handle) /\ L!Running /\ ids' = ids
  BY <1>1 DEF L!Clear
<1> QED
  BY <1>3, <1>4, ShrinkStep

\* A handle is set to an element, to nothing or to what another one has.
LEMMA PointListStep ==
  ASSUME ListInv, NEW h \in Handles, NEW p \in m.live \cup tomb \cup {NULL},
         L!Running, ids' = ids, L!Become(m, [handle EXCEPT ![h] = p])
  PROVE  ListInv'
<1>1. PICK g : g = [handle EXCEPT ![h] = p]
  OBVIOUS
<1>2. ListsGood(m) /\ m.live \cap tomb = {} /\ stopped' \in BOOLEAN
      /\ ids' \in 0 .. MaxId + 1 /\ \A j \in Lists : m.id[j] < ids'
  BY ListInvFacts DEF L!Running, ListInv
<1>3. /\ g \in [Handles -> Nodes \cup {NULL}]
      /\ \A q \in Handles : g[q] \in m.live \cup m.live \cup tomb \cup {NULL}
  BY <1>1, ListInvFacts
<1>4. L!Become(m, g)
  BY <1>1
<1> QED
  BY <1>2, <1>3, <1>4, BecomeKeeps

LEMMA HandleStep ==
  ASSUME ListInv, NEW h \in Handles,
         \/ \E l \in Lists : L!Ends(l, h)
         \/ \E l \in Lists, g \in Handles : L!Step(l, g, h)
         \/ \E g \in Handles : L!CopyHandle(h, g)
         \/ L!DropHandle(h)
  PROVE  ListInv'
<1>1. ASSUME NEW l \in Lists, L!Ends(l, h) PROVE ListInv'
  <2>1. PICK n \in {m.head[l], m.tail[l]} : L!Become(m, [handle EXCEPT ![h] = n])
    BY <1>1 DEF L!Ends
  <2>2. n \in m.live \cup tomb \cup {NULL}
    BY <2>1, MemberLinks
  <2> QED
    BY <1>1, <2>1, <2>2, PointListStep DEF L!Ends
<1>2. ASSUME NEW l \in Lists, NEW g \in Handles, L!Step(l, g, h) PROVE ListInv'
  <2>1. PICK n \in {m.prev[handle[g]], m.next[handle[g]]} : L!Become(m, [handle EXCEPT ![h] = n])
    BY <1>2 DEF L!Step
  <2>2. handle[g] \in Members(m, l)
    BY <1>2, CheckedIsMember DEF L!Step
  <2>3. n \in m.live \cup tomb \cup {NULL}
    BY <2>1, <2>2, MemberLinks
  <2> QED
    BY <1>2, <2>1, <2>3, PointListStep DEF L!Step
<1>3. ASSUME NEW g \in Handles, L!CopyHandle(h, g) PROVE ListInv'
  <2>1. PICK n : n = handle[g]
    OBVIOUS
  <2>2. n \in m.live \cup tomb \cup {NULL}
    BY <2>1, ListInvFacts
  <2> QED
    BY <1>3, <2>1, <2>2, PointListStep DEF L!CopyHandle
<1>4. CASE L!DropHandle(h)
  BY <1>4, PointListStep DEF L!DropHandle
<1> QED
  BY <1>1, <1>2, <1>3, <1>4

LEMMA AssignStep ==
  ASSUME ListInv, NEW l \in Lists, NEW k \in Lists, L!Assign(l, k)
  PROVE  ListInv'
<1>0. ListsGood(m) /\ m.live \cup tomb \subseteq Nodes /\ m.len[l] \in Nat /\ m.len[k] \in Nat
  <2>1. ListsGood(m) /\ m \in ListType /\ m.live \cup tomb \subseteq Nodes
    BY ListInvFacts
  <2> QED
    BY <2>1 DEF ListType
<1>1. PICK M \in Nat : M = IF m.len[k] > m.len[l] /\ l # k THEN m.len[k] - m.len[l] ELSE 0
  BY <1>0
<1>2. PICK new, s, X : new = L!FreshNodes(M) /\ s = L!CopyAssigned(m, l, k, new) /\ X = m.live \cup tomb
  OBVIOUS
<1>3. L!HasRoom(M) /\ L!Running /\ ids' = ids /\ L!Become(s, handle)
  BY <1>1, <1>2 DEF L!Assign
<1>4. Cardinality(X) + M <= Cardinality(Nodes) /\ X \in SUBSET Nodes
  BY <1>0, <1>2, <1>3, ListCounts DEF L!HasRoom
<1>5. /\ \A i \in 1 .. M : new[i] \in Nodes \ X
      /\ \A i, j \in 1 .. M : new[i] = new[j] => i = j
  <2>1. new = CHOOSE a \in [1 .. M -> Nodes \ X] : \A i, j \in 1 .. M : a[i] = a[j] => i = j
    BY <1>2, Zenon DEF L!FreshNodes
  <2> QED
    BY <1>4, <2>1, FreshNodesThere
<1>6. ListsGood(s) /\ s.id = m.id /\ s.live \subseteq m.live \cup Firsts(new, M)
  <2>1. l # k => m.len[k] <= m.len[l] + M
    BY <1>0, <1>1
  <2>2. \A i \in 1 .. M : new[i] \in Nodes \ m.live
    BY <1>2, <1>5
  <2> QED
    BY <1>0, <1>2, <1>5, <2>1, <2>2, CopyAssignedGood
<1>7. s.live \cap tomb = {}
  <2>1. Firsts(new, M) \cap tomb = {}
    BY <1>2, <1>5 DEF Firsts
  <2> QED
    BY <1>6, <2>1, ListInvFacts
<1>8. /\ handle \in [Handles -> Nodes \cup {NULL}]
      /\ \A q \in Handles : handle[q] \in m.live \cup s.live \cup tomb \cup {NULL}
  BY ListInvFacts
<1>9. stopped' \in BOOLEAN /\ ids' \in 0 .. MaxId + 1 /\ \A j \in Lists : s.id[j] < ids'
  BY <1>3, <1>6, ListInvFacts DEF L!Running, ListInv
<1> QED
  BY <1>3, <1>6, <1>7, <1>8, <1>9, BecomeKeeps

LEMMA MoveStep ==
  ASSUME ListInv, NEW l \in Lists, NEW k \in Lists, L!Move(l, k)
  PROVE  ListInv'
<1>0. /\ ListsGood(m) /\ tomb \cap m.live = {} /\ MaxId \in Nat
      /\ ids \in 0 .. MaxId + 1 /\ \A j \in Lists : m.id[j] < ids
  BY ListInvFacts, ListConstants
<1>1. PICK s : s = L!MoveAssigned(m, l, k, ids)
  OBVIOUS
<1>2. L!Running /\ l # k /\ ids <= MaxId /\ ids' = ids + 1 /\ L!Become(s, handle)
  BY <1>1 DEF L!Move
<1>3. ids \in 0 .. MaxId
  BY <1>0, <1>2
<1>4. ListsGood(s) /\ s.live \subseteq m.live /\ \A j \in Lists : s.id[j] <= ids
  BY <1>0, <1>1, <1>2, <1>3, MoveAssignedGood
<1>5. \A j \in Lists : s.id[j] < ids'
  <2>1. \A j \in Lists : s.id[j] \in Nat
    BY <1>4 DEF ListsGood, ListType
  <2> QED
    BY <1>2, <1>3, <1>4, <2>1
<1>6. s.live \cap tomb = {} /\ stopped' \in BOOLEAN /\ ids' \in 0 .. MaxId + 1
  BY <1>0, <1>2, <1>3, <1>4 DEF L!Running, ListInv
<1>7. /\ handle \in [Handles -> Nodes \cup {NULL}]
      /\ \A q \in Handles : handle[q] \in m.live \cup s.live \cup tomb \cup {NULL}
  BY ListInvFacts
<1> QED
  BY <1>2, <1>4, <1>5, <1>6, <1>7, BecomeKeeps

LEMMA ListInvInit == L!Init => ListInv
<1> SUFFICES ASSUME L!Init PROVE ListInv
  OBVIOUS
<1>1. PICK C \in Nat : C = Cardinality(Lists) /\ C <= MaxId + 1
  BY ListConstants
<1>2. PICK f \in [Lists -> 0 .. C - 1] :
        /\ \A k, l \in Lists : f[k] = f[l] => k = l
        /\ m = [head |-> [l \in Lists |-> NULL], tail |-> [l \in Lists |-> NULL],
                len |-> [l \in Lists |-> 0], id |-> f, live |-> {},
                prev |-> [n \in Nodes |-> NULL], next |-> [n \in Nodes |-> NULL],
                data |-> [n \in Nodes |-> NULL], nid |-> [n \in Nodes |-> 0]]
  BY <1>1, ListCounts DEF L!Init
<1>3. tomb = {} /\ handle = [h \in Handles |-> NULL] /\ ids = C /\ stopped = FALSE
  BY <1>1, ListCounts DEF L!Init
<1>4. m \in ListType
  <2>1. f \in [Lists -> 0 .. MaxId] /\ [n \in Nodes |-> 0] \in [Nodes -> 0 .. MaxId]
    BY <1>1, ListConstants
  <2> QED
    BY <1>2, <2>1 DEF ListType
<1>5. ASSUME NEW l \in Lists PROVE ListSound(m, l)
  <2>1. Members(m, l) = {} /\ m.head[l] = NULL /\ m.tail[l] = NULL /\ m.len[l] = 0
    BY <1>2 DEF Members
  <2> QED
    BY <2>1, EmptySound
<1>6. ListsGood(m)
  BY <1>2, <1>4, <1>5 DEF ListsGood
<1>7. ids \in 0 .. MaxId + 1 /\ \A l \in Lists : m.id[l] < ids
  BY <1>1, <1>2, <1>3, ListConstants
<1>8. L!TombstonesHeld
  BY <1>2, <1>3 DEF L!TombstonesHeld
<1> QED
  BY <1>2, <1>3, <1>6, <1>7, <1>8 DEF ListInv

\* Every step keeps the invariant.
LEMMA ListInvNext == ListInv /\ [L!Next]_<<m, tomb, handle, ids, stopped>> => ListInv'
<1> SUFFICES ASSUME ListInv, [L!Next]_<<m, tomb, handle, ids, stopped>> PROVE ListInv'
  OBVIOUS
<1>1. CASE UNCHANGED <<m, tomb, handle, ids, stopped>>
  BY <1>1 DEF ListInv, ListsGood, ListSound, ChainOf, Members, L!TombstonesHeld
<1>2. ASSUME NEW l \in Lists, NEW h \in Handles, NEW v \in Values,
             L!PushFront(l, v, h) \/ L!PushBackCall(l, v, h) \/ L!Write(l, h, v)
      PROVE  ListInv'
  BY <1>2, PushStep, WriteStep
<1>3. ASSUME NEW l \in Lists, NEW h \in Handles, NEW v \in Values, NEW g \in Handles,
             L!InsertBefore(l, g, v, h) \/ L!InsertAfter(l, g, v, h)
      PROVE  ListInv'
  BY <1>3, InsertAtStep
<1>4. ASSUME NEW l \in Lists, NEW h \in Handles,
             \/ \E g \in Handles : L!Step(l, g, h) \/ L!CopyHandle(h, g)
             \/ L!Ends(l, h) \/ L!DropHandle(h)
      PROVE  ListInv'
  BY <1>4, HandleStep
<1>5. ASSUME NEW l \in Lists, L!PopEnd(l) \/ L!Clear(l) \/ \E h \in Handles : L!Remove(l, h)
      PROVE  ListInv'
  BY <1>5, RemoveListStep, ClearListStep
<1>6. ASSUME NEW l \in Lists, NEW k \in Lists, L!Assign(l, k) \/ L!Move(l, k) PROVE ListInv'
  BY <1>6, AssignStep, MoveStep
<1>7. ASSUME NEW l \in Lists, NEW h \in Handles, L!Misuse(l, h) PROVE ListInv'
  BY <1>7 DEF L!Misuse, ListInv, ListsGood, ListSound, ChainOf, Members, L!TombstonesHeld
<1>8. CASE L!Stop
  BY <1>1, <1>8 DEF L!Stop, L!vars
<1> QED
  BY <1>1, <1>2, <1>3, <1>4, <1>5, <1>6, <1>7, <1>8 DEF L!Next

LEMMA ListInvSuffices ==
  ASSUME ListInv
  PROVE  L!TypeOK /\ L!ChainsSound /\ L!TombstonesHeld /\ L!AcceptsItsOwn
<1>0. ListsGood(m) /\ m \in ListType
  BY ListInvFacts
<1>1. ASSUME NEW l \in Lists
      PROVE  LET w == L!Walk(m, l)
             IN  /\ Len(w) = m.len[l]
                 /\ m.tail[l] = IF w = <<>> THEN NULL ELSE w[Len(w)]
                 /\ \A i \in 1 .. Len(w) : m.prev[w[i]] = IF i = 1 THEN NULL ELSE w[i - 1]
  <2>1. PICK w : w = L!Walk(m, l)
    OBVIOUS
  <2>2. Enumerates(m, l, w) /\ m.len[l] \in Nat /\ Len(w) = m.len[l]
    BY <1>0, <2>1, WalkEnumerates
  <2>3. m.len[l] = 0 <=> w = <<>>
    BY <2>2 DEF Enumerates
  <2>4. /\ m.tail[l] = IF m.len[l] = 0 THEN NULL ELSE w[m.len[l]]
        /\ \A i \in 1 .. m.len[l] : m.prev[w[i]] = IF i = 1 THEN NULL ELSE w[i - 1]
    BY <2>2 DEF Enumerates
  <2> QED
    BY <2>1, <2>2, <2>3, <2>4
<1>2. ASSUME NEW l \in Lists, NEW n PROVE L!InList(n, l) <=> n \in Members(m, l)
  <2>1. PICK w : w = L!Walk(m, l)
    OBVIOUS
  <2>2. Enumerates(m, l, w) /\ m.len[l] \in Nat /\ DOMAIN w = 1 .. m.len[l]
    BY <1>0, <2>1, WalkEnumerates DEF Enumerates
  <2>3. L!InList(n, l) <=> \E i \in DOMAIN w : w[i] = n
    BY <2>1 DEF L!InList
  <2> QED
    BY <2>2, <2>3 DEF Enumerates
<1>3. ASSUME NEW n \in Nodes
      PROVE  L!Cardinality({l \in Lists : L!InList(n, l)}) = IF n \in m.live THEN 1 ELSE 0
  <2>1. PICK A : A = {l \in Lists : L!InList(n, l)}
    OBVIOUS
  <2>2. A = {l \in Lists : n \in Members(m, l)}
    BY <1>2, <2>1
  <2>3. CASE n \in m.live
    <3>1. PICK l \in Lists : m.nid[n] = m.id[l]
      BY <1>0, <2>3 DEF ListsGood
    <3>2. A = {l}
      BY <1>0, <2>2, <2>3, <3>1 DEF ListsGood, Members
    <3> QED
      BY <2>1, <2>3, <3>2, FS_Singleton, ListCounts
  <2>4. CASE n \notin m.live
    <3>1. A = {}
      BY <2>2, <2>4 DEF Members
    <3> QED
      BY <2>1, <2>4, <3>1, FS_EmptySet, ListCounts
  <2> QED
    BY <2>3, <2>4
<1>4. L!ChainsSound
  BY <1>1, <1>3, Zenon DEF L!ChainsSound
<1>5. L!AcceptsItsOwn
  BY <1>2, CheckedIsMember, Zenon DEF L!AcceptsItsOwn
<1>6. L!TypeOK
  <2>1. m.head \in [Lists -> m.live \cup {NULL}] /\ m.tail \in [Lists -> m.live \cup {NULL}]
    <3>1. \A l \in Lists : m.head[l] \in m.live \cup {NULL} /\ m.tail[l] \in m.live \cup {NULL}
      BY MemberLinks
    <3> QED
      BY <1>0, <3>1 DEF ListType
  <2>2. m.len \in [Lists -> 0 .. Cardinality(Nodes)]
    <3>1. \A l \in Lists : m.len[l] \in 0 .. Cardinality(Nodes)
      BY <1>0, MembersFinite DEF ListsGood, ListSound
    <3> QED
      BY <1>0, <3>1 DEF ListType
  <2>3. /\ m.live \subseteq Nodes /\ m.id \in [Lists -> 0 .. MaxId]
        /\ m.prev \in [Nodes -> Nodes \cup {NULL}] /\ m.next \in [Nodes -> Nodes \cup {NULL}]
        /\ m.data \in [Nodes -> Values \cup {NULL}] /\ m.nid \in [Nodes -> 0 .. MaxId]
    BY <1>0 DEF ListType
  <2> QED
    BY <2>1, <2>2, <2>3, ListCounts DEF ListInv, L!TypeOK
<1> QED
  BY <1>4, <1>5, <1>6 DEF ListInv

(***************************************************************************)
(* The list: the order of its nodes                                        *)
(***************************************************************************)

\* The nodes of every list, in order.
Ordered(s, W) ==
  /\ ListsGood(s)
  /\ W = [l \in Lists |-> W[l]]
  /\ \A l \in Lists : Enumerates(s, l, W[l])

LEMMA OrderedFacts ==
  ASSUME NEW s, NEW W, Ordered(s, W), NEW l \in Lists
  PROVE  /\ s \in ListType /\ s.len[l] \in Nat /\ s.len[l] <= Cardinality(Nodes)
         /\ \A i \in 1 .. s.len[l] : W[l][i] \in Members(s, l) /\ W[l][i] \in s.live /\ W[l][i] \in Nodes
<1>1. s \in ListType /\ ListSound(s, l) /\ Enumerates(s, l, W[l])
  BY DEF Ordered, ListsGood
<1>2. s.len[l] \in Nat /\ s.len[l] <= Cardinality(Nodes)
  BY <1>1, MembersFinite, ListConstants DEF ListSound, ListType
<1>3. \A i \in 1 .. s.len[l] : W[l][i] \in Members(s, l)
  BY <1>1 DEF Enumerates
<1>4. \A i \in 1 .. s.len[l] : W[l][i] \in s.live /\ W[l][i] \in Nodes
  BY <1>1, <1>3, MembersFinite
<1> QED
  BY <1>1, <1>2, <1>3, <1>4

\* A node that lives has one place.
LEMMA OnePlace ==
  ASSUME NEW s, NEW W, Ordered(s, W)
  PROVE  /\ \A n \in s.live : \E l \in Lists : \E i \in 1 .. s.len[l] : n = W[l][i]
         /\ \A l, k \in Lists : \A i \in 1 .. s.len[l], j \in 1 .. s.len[k] :
              W[l][i] = W[k][j] => l = k /\ i = j
<1>1. ASSUME NEW n \in s.live PROVE \E l \in Lists : \E i \in 1 .. s.len[l] : n = W[l][i]
  <2>1. PICK l \in Lists : s.nid[n] = s.id[l]
    BY DEF Ordered, ListsGood
  <2>2. n \in Members(s, l)
    BY <2>1 DEF Members
  <2> QED
    BY <2>2 DEF Ordered, Enumerates
<1>2. ASSUME NEW l \in Lists, NEW k \in Lists, NEW i \in 1 .. s.len[l], NEW j \in 1 .. s.len[k],
             W[l][i] = W[k][j]
      PROVE  l = k /\ i = j
  <2>1. W[l][i] \in Members(s, l) /\ W[k][j] \in Members(s, k)
    BY OrderedFacts
  <2>2. l = k
    BY <1>2, <2>1, MembersApart DEF Ordered
  <2>3. \A x, y \in 1 .. s.len[l] : W[l][x] = W[l][y] => x = y
    BY DEF Ordered, Enumerates
  <2> QED
    BY <1>2, <2>2, <2>3
<1> QED
  BY <1>1, <1>2

\* Backward from the tail, the links leave no choice.
LEMMA EnumeratedOnce ==
  ASSUME NEW s, NEW l, NEW w, NEW u, Enumerates(s, l, w), Enumerates(s, l, u), s.len[l] \in Nat
  PROVE  w = u
<1>1. PICK N \in Nat : N = s.len[l]
  OBVIOUS
<1>2. /\ w = [i \in 1 .. N |-> w[i]] /\ u = [i \in 1 .. N |-> u[i]]
      /\ \A i \in 1 .. N : /\ s.prev[w[i]] = IF i = 1 THEN NULL ELSE w[i - 1]
                           /\ s.prev[u[i]] = IF i = 1 THEN NULL ELSE u[i - 1]
      /\ N # 0 => w[N] = s.tail[l] /\ u[N] = s.tail[l]
  BY <1>1 DEF Enumerates
<1> DEFINE Bad == {j \in 0 .. N - 1 : w[N - j] # u[N - j]}
<1>3. Bad = {}
  <2>1. SUFFICES ASSUME Bad # {} PROVE FALSE
    OBVIOUS
  <2>2. PICK z \in Bad : \A k \in Bad : z <= k
    <3>1. Bad \in SUBSET Nat
      OBVIOUS
    <3> QED
      BY <2>1, <3>1, LeastOf, Zenon
  <2>3. z # 0 /\ z \in 0 .. N - 1
    BY <1>2, <2>2
  <2>4. PICK i \in 2 .. N : i = N - (z - 1)
    BY <2>3
  <2>5. w[i] = u[i]
    <3>1. z - 1 \in 0 .. N - 1 /\ ~ (z <= z - 1)
      BY <2>3
    <3> QED
      BY <2>2, <2>4, <3>1
  <2>6. w[i - 1] = u[i - 1] /\ i - 1 = N - z
    <3>1. i \in 1 .. N /\ i # 1 /\ i - 1 = N - z
      BY <2>3, <2>4
    <3>2. s.prev[w[i]] = w[i - 1] /\ s.prev[u[i]] = u[i - 1]
      BY <1>2, <3>1
    <3> QED
      BY <2>5, <3>1, <3>2
  <2> QED
    BY <2>2, <2>6
<1>4. \A i \in 1 .. N : w[i] = u[i]
  <2>1. ASSUME NEW i \in 1 .. N PROVE w[i] = u[i]
    <3>1. N - i \in 0 .. N - 1 /\ N - (N - i) = i
      OBVIOUS
    <3> QED
      BY <1>3, <3>1
  <2> QED
    BY <2>1
<1> QED
  BY <1>2, <1>4

\* The order of the nodes is that of the walks.
LEMMA WalksOrdered ==
  ASSUME NEW s, ListsGood(s)
  PROVE  Ordered(s, [l \in Lists |-> L!Walk(s, l)])
BY WalkEnumerates DEF Ordered

LEMMA WalkIs ==
  ASSUME NEW s, NEW W, Ordered(s, W), NEW l \in Lists
  PROVE  L!Walk(s, l) = W[l]
<1>1. Enumerates(s, l, L!Walk(s, l)) /\ Enumerates(s, l, W[l]) /\ s.len[l] \in Nat
  BY WalkEnumerates DEF Ordered
<1> QED
  BY <1>1, EnumeratedOnce

\* The links, in both directions.
LEMMA OrderedLinks ==
  ASSUME NEW s, NEW W, Ordered(s, W), NEW l \in Lists
  PROVE  /\ s.head[l] = IF s.len[l] = 0 THEN NULL ELSE W[l][1]
         /\ s.tail[l] = IF s.len[l] = 0 THEN NULL ELSE W[l][s.len[l]]
         /\ \A i \in 1 .. s.len[l] :
              /\ s.prev[W[l][i]] = IF i = 1 THEN NULL ELSE W[l][i - 1]
              /\ s.next[W[l][i]] = IF i = s.len[l] THEN NULL ELSE W[l][i + 1]
<1>1. PICK w, S : w = W[l] /\ S = Members(s, l)
  OBVIOUS
<1>2. PICK N \in Nat : N = s.len[l]
  BY OrderedFacts
<1>3. /\ s.tail[l] = IF N = 0 THEN NULL ELSE w[N]
      /\ \A i \in 1 .. N : w[i] \in S /\ s.prev[w[i]] = IF i = 1 THEN NULL ELSE w[i - 1]
      /\ \A n \in S : \E i \in 1 .. N : w[i] = n
  BY <1>1, <1>2 DEF Ordered, Enumerates
<1>4. /\ NULL \notin S
      /\ s.head[l] # NULL => s.head[l] \in S
      /\ \A n \in S : /\ s.prev[n] # NULL => s.next[s.prev[n]] = n
                      /\ s.prev[n] = NULL => n = s.head[l]
      /\ S # {} => s.next[s.tail[l]] = NULL
  <2>1. s \in ListType /\ Chained(ChainOf(s, l), S) /\ IsTail(ChainOf(s, l), s.tail[l], S)
    BY <1>1 DEF Ordered, ListsGood, ListSound
  <2>2. ChainOf(s, l).head = s.head[l] /\ ChainOf(s, l).next = s.next /\ ChainOf(s, l).prev = s.prev
    BY DEF ChainOf
  <2>3. NULL \notin S
    BY <1>1, <2>1, MembersFinite
  <2> QED
    BY <2>1, <2>2, <2>3 DEF Chained, IsTail
<1>5. s.head[l] = IF N = 0 THEN NULL ELSE w[1]
  BY <1>3, <1>4
<1>6. ASSUME NEW i \in 1 .. N PROVE s.next[w[i]] = IF i = N THEN NULL ELSE w[i + 1]
  <2>1. CASE i = N
    BY <1>3, <1>4, <2>1
  <2>2. CASE i # N
    <3>1. i + 1 \in 1 .. N /\ i + 1 # 1 /\ (i + 1) - 1 = i
      BY <2>2
    <3>2. s.prev[w[i + 1]] = w[i] /\ w[i + 1] \in S /\ w[i] \in S
      BY <1>3, <3>1
    <3> QED
      BY <1>4, <2>2, <3>2
  <2> QED
    BY <2>1, <2>2
<1> QED
  BY <1>1, <1>2, <1>3, <1>5, <1>6

\* A node comes to the i-th place of a sequence, or goes from there.
InsAt(w, N, i, x) == [j \in 1 .. N + 1 |-> IF j < i THEN w[j] ELSE IF j = i THEN x ELSE w[j - 1]]
DelAt(w, N, i) == [j \in 1 .. N - 1 |-> IF j < i THEN w[j] ELSE w[j + 1]]

\* p and n are around the i-th place of w.
Around(w, N, i, p, n) ==
  /\ p = IF i = 1 THEN NULL ELSE w[i - 1]
  /\ n = IF i = N + 1 THEN NULL ELSE w[i]

LEMMA InsAtFacts ==
  ASSUME NEW N \in Nat, NEW i \in 1 .. N + 1, NEW w, NEW x, NEW u, u = InsAt(w, N, i, x)
  PROVE  /\ u = [j \in 1 .. N + 1 |-> u[j]]
         /\ u[i] = x
         /\ \A j \in 1 .. N : j < i => u[j] = w[j]
         /\ \A j \in 1 .. N : i <= j => u[j + 1] = w[j]
<1>1. u = [j \in 1 .. N + 1 |-> IF j < i THEN w[j] ELSE IF j = i THEN x ELSE w[j - 1]]
  BY DEF InsAt
<1>2. u[i] = x /\ \A j \in 1 .. N : j < i => u[j] = w[j]
  BY <1>1
<1>3. ASSUME NEW j \in 1 .. N, i <= j PROVE u[j + 1] = w[j]
  <2>1. j + 1 \in 1 .. N + 1 /\ ~ (j + 1 < i) /\ j + 1 # i /\ (j + 1) - 1 = j
    BY <1>3
  <2> QED
    BY <1>1, <2>1
<1>4. u = [j \in 1 .. N + 1 |-> u[j]]
  BY <1>1
<1> QED
  BY <1>2, <1>3, <1>4

\* Each place of the longer sequence is that of x or comes from one of w.
LEMMA InsAtPlaces ==
  ASSUME NEW N \in Nat, NEW i \in 1 .. N + 1, NEW j \in 1 .. N + 1
  PROVE  j = i \/ (j < i /\ j \in 1 .. N) \/ \E k \in 1 .. N : j = k + 1 /\ i <= k
<1>1. CASE j > i
  <2>1. j - 1 \in 1 .. N /\ j = (j - 1) + 1 /\ i <= j - 1
    BY <1>1
  <2> QED
    BY <2>1
<1> QED
  BY <1>1

LEMMA InsAtInjective ==
  ASSUME NEW N \in Nat, NEW i \in 1 .. N + 1, NEW w, NEW x, NEW u, u = InsAt(w, N, i, x),
         \A j, k \in 1 .. N : w[j] = w[k] => j = k, \A j \in 1 .. N : w[j] # x
  PROVE  \A j, k \in 1 .. N + 1 : u[j] = u[k] => j = k
<1>0. /\ u[i] = x
      /\ \A j \in 1 .. N : j < i => u[j] = w[j]
      /\ \A j \in 1 .. N : i <= j => u[j + 1] = w[j]
  BY InsAtFacts
<1>1. SUFFICES ASSUME NEW j \in 1 .. N + 1, NEW k \in 1 .. N + 1, u[j] = u[k] PROVE j = k
  OBVIOUS
<1>2. j = i \/ (j < i /\ j \in 1 .. N) \/ \E a \in 1 .. N : j = a + 1 /\ i <= a
  BY InsAtPlaces
<1>3. k = i \/ (k < i /\ k \in 1 .. N) \/ \E a \in 1 .. N : k = a + 1 /\ i <= a
  BY InsAtPlaces
<1>4. ASSUME j = i, k # i PROVE FALSE
  BY <1>0, <1>1, <1>3, <1>4
<1>5. ASSUME k = i, j # i PROVE FALSE
  BY <1>0, <1>1, <1>2, <1>5
<1>6. ASSUME j < i, j \in 1 .. N, k # i, j # k PROVE FALSE
  BY <1>0, <1>1, <1>3, <1>6
<1>7. ASSUME NEW a \in 1 .. N, j = a + 1, i <= a, k # i, j # k PROVE FALSE
  BY <1>0, <1>1, <1>3, <1>7
<1> QED
  BY <1>2, <1>4, <1>5, <1>6, <1>7

\* What enumerates a list, of which one does not need to know the links.
LEMMA EnumeratesFrame ==
  ASSUME NEW s, NEW g, NEW l, NEW w, Enumerates(s, l, w),
         Members(g, l) = Members(s, l), g.len[l] = s.len[l], g.tail[l] = s.tail[l],
         \A n \in Members(s, l) : g.prev[n] = s.prev[n]
  PROVE  Enumerates(g, l, w)
BY DEF Enumerates

LEMMA CreateOrder ==
  ASSUME NEW s, NEW W, Ordered(s, W), NEW l \in Lists, NEW new \in Nodes \ s.live,
         NEW v \in Values \cup {NULL}, NEW N \in Nat, N = s.len[l], NEW i \in 1 .. N + 1,
         NEW p, NEW n, Around(W[l], N, i, p, n),
         NEW g, g = L!CreateNode(s, l, p, n, new, v)
  PROVE  /\ Ordered(g, [W EXCEPT ![l] = InsAt(@, N, i, new)])
         /\ g.live = s.live \cup {new} /\ g.id = s.id
         /\ g.data = [s.data EXCEPT ![new] = v]
<1>1. PICK w : w = W[l]
  OBVIOUS
<1>a. /\ p = IF i = 1 THEN NULL ELSE w[i - 1]
      /\ n = IF i = N + 1 THEN NULL ELSE w[i]
  BY <1>1 DEF Around
<1>b. s \in ListType /\ ListsGood(s)
  BY DEF Ordered, ListsGood
<1>c. \A j \in 1 .. N : w[j] \in Members(s, l) /\ w[j] \in s.live /\ w[j] \in Nodes
  BY <1>1, OrderedFacts
<1>2. /\ \A j, k \in 1 .. N : w[j] = w[k] => j = k
      /\ \A q \in Members(s, l) : \E j \in 1 .. N : w[j] = q
  BY <1>1 DEF Ordered, Enumerates
<1>3. /\ s.head[l] = IF N = 0 THEN NULL ELSE w[1]
      /\ s.tail[l] = IF N = 0 THEN NULL ELSE w[N]
      /\ \A j \in 1 .. N : /\ s.prev[w[j]] = IF j = 1 THEN NULL ELSE w[j - 1]
                           /\ s.next[w[j]] = IF j = N THEN NULL ELSE w[j + 1]
  BY <1>1, OrderedLinks
<1>4. p \in Members(s, l) \cup {NULL} /\ n \in Members(s, l) \cup {NULL}
      /\ p \in Nodes \cup {NULL} /\ n \in Nodes \cup {NULL}
  BY <1>a, <1>c
<1>5. Between(ChainOf(s, l), Members(s, l), p, n)
  <2>1. CASE i = 1
    BY <1>a, <1>3, <2>1 DEF Between, ChainOf
  <2>2. CASE i # 1
    <3>1. p \in Members(s, l) /\ s.next[p] = n
      BY <1>a, <1>c, <1>3, <2>2
    <3> QED
      BY <3>1 DEF Between, ChainOf
  <2> QED
    BY <2>1, <2>2
<1>8. new # NULL /\ new \notin s.live /\ new \in Nodes /\ NULL \notin Nodes
  BY ListConstants
<1>6. ListsGood(g) /\ g.id = s.id /\ g.live = s.live \cup {new}
  <2>1. \A a \in Nodes \ s.live : \A c \in Values \cup {NULL} : \A b, d, f :
          Between(ChainOf(s, l), Members(s, l), b, d) /\ f = L!CreateNode(s, l, b, d, a, c)
          => ListsGood(f) /\ f.id = s.id /\ f.live = s.live \cup {a}
    BY <1>b, CreateNodeGood
  <2> QED
    BY <1>5, <2>1
<1>7. Created(s, l, p, n, new, v, g)
  BY <1>b, <1>4, <1>8, CreateFields
<1>9. ASSUME NEW k \in Lists \ {l} PROVE Enumerates(g, k, W[k])
  <2>1. Members(g, k) = Members(s, k)
    <3>1. s.id[k] # s.id[l]
      BY <1>b DEF ListsGood
    <3> QED
      BY <1>b, <1>7, <1>8, <3>1 DEF Created, Members, ListType
  <2>2. g.len[k] = s.len[k] /\ g.tail[k] = s.tail[k]
    BY <1>b, <1>7 DEF Created, ListType
  <2>3. ASSUME NEW q \in Members(s, k) PROVE g.prev[q] = s.prev[q]
    <3>1. q \in Nodes /\ q # new /\ q # n
      BY <1>b, <1>4, <1>8, MembersApart, MembersFinite
    <3> QED
      BY <1>b, <1>7, <3>1 DEF Created, ListType
  <2>4. Enumerates(s, k, W[k])
    BY DEF Ordered
  <2> QED
    BY <2>1, <2>2, <2>3, <2>4, EnumeratesFrame
<1>u. PICK u : u = InsAt(w, N, i, new)
  OBVIOUS
<1>10. /\ u[i] = new
       /\ \A j \in 1 .. N : j < i => u[j] = w[j]
       /\ \A j \in 1 .. N : i <= j => u[j + 1] = w[j]
  BY <1>u, InsAtFacts
<1>11. /\ g.len[l] = N + 1
       /\ Members(g, l) = Members(s, l) \cup {new}
       /\ g.prev[new] = p
       /\ \A q \in Members(s, l) : g.prev[q] = IF q = n THEN new ELSE s.prev[q]
       /\ g.tail[l] = IF n = NULL THEN new ELSE s.tail[l]
  <2>1. Members(s, l) \subseteq Nodes /\ Members(s, l) \subseteq s.live
    BY <1>b, MembersFinite
  <2>2. g.len[l] = N + 1 /\ g.tail[l] = IF n = NULL THEN new ELSE s.tail[l]
    BY <1>b, <1>7 DEF Created, ListType
  <2>3. Members(g, l) = Members(s, l) \cup {new}
    BY <1>b, <1>7, <1>8 DEF Created, Members, ListType
  <2>4. g.prev[new] = p /\ \A q \in Members(s, l) : g.prev[q] = IF q = n THEN new ELSE s.prev[q]
    <3>1. g.prev = IF n = NULL THEN [s.prev EXCEPT ![new] = p] ELSE [s.prev EXCEPT ![new] = p, ![n] = new]
      BY <1>7 DEF Created
    <3>2. s.prev = [q \in Nodes |-> s.prev[q]]
      BY <1>b DEF ListType
    <3>3. n # new /\ (n = NULL \/ n \in Nodes)
      BY <1>4, <1>8, <2>1
    <3> QED
      BY <1>8, <2>1, <3>1, <3>2, <3>3
  <2> QED
    BY <2>2, <2>3, <2>4
<1>12. ASSUME NEW j \in 1 .. N + 1
       PROVE  u[j] \in Members(g, l) /\ g.prev[u[j]] = IF j = 1 THEN NULL ELSE u[j - 1]
  <2>1. CASE j < i
    <3>1. j \in 1 .. N /\ u[j] = w[j] /\ (j # 1 => u[j - 1] = w[j - 1])
      BY <1>10, <2>1
    <3>2. w[j] # n
      BY <1>a, <1>2, <1>c, <1>8, <2>1, <3>1
    <3>3. w[j] \in Members(s, l) /\ s.prev[w[j]] = IF j = 1 THEN NULL ELSE w[j - 1]
      BY <1>c, <1>3, <3>1
    <3> QED
      BY <1>11, <3>1, <3>2, <3>3
  <2>2. CASE j = i
    <3>1. u[j] = new /\ (j # 1 => u[j - 1] = w[j - 1])
      BY <1>10, <2>2
    <3> QED
      BY <1>a, <1>11, <2>2, <3>1
  <2>3. CASE ~ (j < i) /\ j # i
    <3>1. PICK k \in 1 .. N : j = k + 1 /\ i <= k
      BY <2>3, InsAtPlaces
    <3>2. u[j] = w[k] /\ w[k] \in Members(s, l) /\ s.prev[w[k]] = IF k = 1 THEN NULL ELSE w[k - 1]
      BY <1>10, <1>c, <1>3, <3>1
    <3>3. CASE k = i
      <4>1. n = w[k] /\ j # 1 /\ j - 1 = i
        BY <1>a, <3>1, <3>3
      <4> QED
        BY <1>10, <1>11, <3>2, <4>1
    <3>4. CASE k # i
      <4>1. i \in 1 .. N /\ n = w[i] /\ k - 1 \in 1 .. N /\ i <= k - 1 /\ j # 1 /\ j - 1 = k /\ k # 1 /\ (k - 1) + 1 = k
        BY <1>a, <3>1, <3>4
      <4>2. w[k] # n /\ u[k] = w[k - 1]
        BY <1>2, <1>10, <3>4, <4>1
      <4> QED
        BY <1>11, <3>2, <4>1, <4>2
    <3> QED
      BY <3>3, <3>4
  <2> QED
    BY <2>1, <2>2, <2>3
<1>13. \A j, k \in 1 .. N + 1 : u[j] = u[k] => j = k
  <2>1. \A j \in 1 .. N : w[j] # new
    BY <1>c, <1>8
  <2> QED
    BY <1>2, <1>u, <2>1, InsAtInjective
<1>14. ASSUME NEW q \in Members(g, l) PROVE \E j \in 1 .. N + 1 : u[j] = q
  <2>1. CASE q = new
    BY <1>10, <2>1
  <2>2. CASE q \in Members(s, l)
    <3>1. PICK j \in 1 .. N : w[j] = q
      BY <1>2, <2>2
    <3>2. j \in 1 .. N + 1 /\ j + 1 \in 1 .. N + 1
      OBVIOUS
    <3>3. CASE j < i
      BY <1>10, <3>1, <3>2, <3>3
    <3>4. CASE i <= j
      BY <1>10, <3>1, <3>2, <3>4
    <3> QED
      BY <3>3, <3>4
  <2> QED
    BY <1>11, <2>1, <2>2
<1>15. g.tail[l] = u[N + 1]
  <2>1. CASE i = N + 1
    BY <1>a, <1>10, <1>11, <2>1
  <2>2. CASE i # N + 1
    <3>1. i \in 1 .. N /\ n = w[i] /\ N \in 1 .. N /\ i <= N
      BY <1>a, <2>2
    <3>2. n # NULL
      BY <1>c, <1>8, <3>1
    <3>3. u[N + 1] = w[N]
      BY <1>10, <3>1
    <3> QED
      BY <1>3, <1>11, <3>1, <3>2, <3>3
  <2> QED
    BY <2>1, <2>2
<1>16. Enumerates(g, l, u)
  <2>1. u = [j \in 1 .. N + 1 |-> u[j]]
    BY <1>u DEF InsAt
  <2>2. N + 1 # 0
    OBVIOUS
  <2> QED
    BY <1>11, <1>12, <1>13, <1>14, <1>15, <2>1, <2>2, Zenon DEF Enumerates
<1>17. Ordered(g, [W EXCEPT ![l] = InsAt(@, N, i, new)])
  <2>1. PICK V : V = [W EXCEPT ![l] = InsAt(@, N, i, new)]
    OBVIOUS
  <2>2. V = [k \in Lists |-> IF k = l THEN u ELSE W[k]]
    BY <1>1, <1>u, <2>1, Zenon DEF Ordered
  <2>3. \A k \in Lists : Enumerates(g, k, V[k])
    BY <1>9, <1>16, <2>2
  <2>4. V = [k \in Lists |-> V[k]]
    BY <2>2
  <2> QED
    BY <1>6, <2>1, <2>3, <2>4 DEF Ordered
<1> QED
  BY <1>6, <1>7, <1>17 DEF Created

LEMMA DelAtFacts ==
  ASSUME NEW N \in Nat, NEW i \in 1 .. N, NEW w, NEW u, u = DelAt(w, N, i)
  PROVE  /\ \A j \in 1 .. N - 1 : u[j] = IF j < i THEN w[j] ELSE w[j + 1]
         /\ \A j \in 1 .. N : j < i => u[j] = w[j]
         /\ \A j \in 1 .. N : i < j => u[j - 1] = w[j]
<1>1. u = [j \in 1 .. N - 1 |-> IF j < i THEN w[j] ELSE w[j + 1]]
  BY DEF DelAt
<1>2. ASSUME NEW j \in 1 .. N, j < i PROVE u[j] = w[j]
  <2>1. j \in 1 .. N - 1
    BY <1>2
  <2> QED
    BY <1>1, <1>2, <2>1
<1>3. ASSUME NEW j \in 1 .. N, i < j PROVE u[j - 1] = w[j]
  <2>1. j - 1 \in 1 .. N - 1 /\ ~ (j - 1 < i) /\ (j - 1) + 1 = j
    BY <1>3
  <2> QED
    BY <1>1, <2>1
<1> QED
  BY <1>1, <1>2, <1>3

LEMMA DelAtInjective ==
  ASSUME NEW N \in Nat, NEW i \in 1 .. N, NEW w, NEW u, u = DelAt(w, N, i),
         \A j, k \in 1 .. N : w[j] = w[k] => j = k
  PROVE  \A j, k \in 1 .. N - 1 : u[j] = u[k] => j = k
<1>1. \A j \in 1 .. N - 1 : u[j] = IF j < i THEN w[j] ELSE w[j + 1]
  BY DelAtFacts
<1>2. SUFFICES ASSUME NEW j \in 1 .. N - 1, NEW k \in 1 .. N - 1, u[j] = u[k] PROVE j = k
  OBVIOUS
<1>3. PICK a \in 1 .. N : u[j] = w[a] /\ (j < i => a = j) /\ (~ (j < i) => a = j + 1)
  BY <1>1
<1>4. PICK b \in 1 .. N : u[k] = w[b] /\ (k < i => b = k) /\ (~ (k < i) => b = k + 1)
  BY <1>1
<1>5. a = b
  BY <1>2, <1>3, <1>4
<1> QED
  BY <1>3, <1>4, <1>5

LEMMA RemoveOrder ==
  ASSUME NEW s, NEW W, Ordered(s, W), NEW l \in Lists, NEW N \in Nat, N = s.len[l], NEW i \in 1 .. N,
         NEW n, n = W[l][i], NEW g, g = L!RemoveNode(s, l, n)
  PROVE  /\ Ordered(g, [W EXCEPT ![l] = DelAt(@, N, i)])
         /\ g.live = s.live \ {n} /\ g.id = s.id
         /\ g.data = [s.data EXCEPT ![n] = NULL]
<1>1. PICK w : w = W[l]
  OBVIOUS
<1>b. s \in ListType /\ ListsGood(s) /\ NULL \notin Nodes
  BY ListConstants DEF Ordered, ListsGood
<1>c. \A j \in 1 .. N : w[j] \in Members(s, l) /\ w[j] \in s.live /\ w[j] \in Nodes
  BY <1>1, OrderedFacts
<1>2. /\ \A j, k \in 1 .. N : w[j] = w[k] => j = k
      /\ \A q \in Members(s, l) : \E j \in 1 .. N : w[j] = q
  BY <1>1 DEF Ordered, Enumerates
<1>3. /\ s.tail[l] = IF N = 0 THEN NULL ELSE w[N]
      /\ \A j \in 1 .. N : /\ s.prev[w[j]] = IF j = 1 THEN NULL ELSE w[j - 1]
                           /\ s.next[w[j]] = IF j = N THEN NULL ELSE w[j + 1]
  BY <1>1, OrderedLinks
<1>4. /\ n = w[i] /\ n \in Members(s, l) /\ n \in Nodes
      /\ s.prev[n] = IF i = 1 THEN NULL ELSE w[i - 1]
      /\ s.next[n] = IF i = N THEN NULL ELSE w[i + 1]
  BY <1>1, <1>c, <1>3
<1>5. /\ s.prev[n] \in Members(s, l) \cup {NULL} /\ s.next[n] \in Members(s, l) \cup {NULL}
      /\ s.prev[n] \in Nodes \cup {NULL} /\ s.next[n] \in Nodes \cup {NULL}
  BY <1>c, <1>4
<1>6. ListsGood(g)
  BY <1>b, <1>4, RemoveNodeGood DEF Without
<1>7. Taken(s, l, n, g)
  BY <1>b, <1>4, RemoveFields
<1>8. Members(s, l) \subseteq Nodes /\ NULL \notin Members(s, l)
  BY <1>b, MembersFinite
<1>9. ASSUME NEW k \in Lists \ {l} PROVE Enumerates(g, k, W[k])
  <2>0. Members(s, k) \subseteq Nodes /\ Members(s, k) \cap Members(s, l) = {} /\ NULL \notin Members(s, k)
    BY <1>b, MembersApart, MembersFinite
  <2>1. Members(g, k) = Members(s, k)
    BY <1>b, <1>4, <1>7, <2>0 DEF Taken, Members, ListType
  <2>2. g.len[k] = s.len[k] /\ g.tail[k] = s.tail[k]
    BY <1>b, <1>7 DEF Taken, ListType
  <2>3. ASSUME NEW q \in Members(s, k) PROVE g.prev[q] = s.prev[q]
    <3>1. q \in Nodes /\ q # n /\ q # s.next[n]
      BY <1>4, <1>5, <2>0
    <3> QED
      BY <1>b, <1>7, <3>1 DEF Taken, ListType
  <2>4. Enumerates(s, k, W[k])
    BY DEF Ordered
  <2> QED
    BY <2>1, <2>2, <2>3, <2>4, EnumeratesFrame
<1>u. PICK u : u = DelAt(w, N, i)
  OBVIOUS
<1>10. /\ \A j \in 1 .. N - 1 : u[j] = IF j < i THEN w[j] ELSE w[j + 1]
       /\ \A j \in 1 .. N : j < i => u[j] = w[j]
       /\ \A j \in 1 .. N : i < j => u[j - 1] = w[j]
  BY <1>u, DelAtFacts
<1>11. /\ g.len[l] = N - 1
       /\ Members(g, l) = Members(s, l) \ {n}
       /\ \A q \in Members(g, l) : g.prev[q] = IF q = s.next[n] THEN s.prev[n] ELSE s.prev[q]
       /\ g.tail[l] = IF s.next[n] = NULL THEN s.prev[n] ELSE s.tail[l]
  <2>1. g.len[l] = N - 1 /\ g.tail[l] = IF s.next[n] = NULL THEN s.prev[n] ELSE s.tail[l]
    BY <1>b, <1>7 DEF Taken, ListType
  <2>2. Members(g, l) = Members(s, l) \ {n}
    BY <1>b, <1>4, <1>7, <1>8 DEF Taken, Members, ListType
  <2>3. \A q \in Members(g, l) : g.prev[q] = IF q = s.next[n] THEN s.prev[n] ELSE s.prev[q]
    <3>1. g.prev = IF s.next[n] = NULL THEN [s.prev EXCEPT ![n] = NULL]
                   ELSE [s.prev EXCEPT ![s.next[n]] = s.prev[n], ![n] = NULL]
      BY <1>7 DEF Taken
    <3>2. s.prev = [q \in Nodes |-> s.prev[q]]
      BY <1>b DEF ListType
    <3> QED
      BY <1>5, <1>8, <2>2, <3>1, <3>2
  <2> QED
    BY <2>1, <2>2, <2>3
<1>12. ASSUME NEW j \in 1 .. N - 1
       PROVE  u[j] \in Members(g, l) /\ g.prev[u[j]] = IF j = 1 THEN NULL ELSE u[j - 1]
  <2>1. CASE j < i
    <3>1. j \in 1 .. N /\ u[j] = w[j] /\ w[j] # n
          /\ s.prev[w[j]] = (IF j = 1 THEN NULL ELSE w[j - 1])
          /\ (j # 1 => u[j - 1] = w[j - 1])
      BY <1>2, <1>3, <1>4, <1>10, <2>1
    <3>2. w[j] # s.next[n]
      <4>1. i # N => i + 1 \in 1 .. N /\ w[j] # w[i + 1]
        BY <1>2, <2>1
      <4> QED
        BY <1>c, <1>4, <1>b, <3>1, <4>1
    <3> QED
      BY <1>c, <1>11, <3>1, <3>2
  <2>2. CASE ~ (j < i)
    <3>1. j \in 1 .. N /\ j + 1 \in 1 .. N /\ j + 1 # i /\ u[j] = w[j + 1] /\ j + 1 # 1 /\ (j + 1) - 1 = j
      BY <1>10, <2>2
    <3>2. w[j + 1] \in Members(g, l) /\ s.prev[w[j + 1]] = w[j]
      BY <1>c, <1>2, <1>3, <1>4, <1>11, <3>1
    <3>3. CASE j = i
      <4>1. w[j + 1] = s.next[n]
        BY <1>4, <3>1, <3>3
      <4>2. j # 1 => u[j - 1] = w[j - 1]
        BY <1>10, <3>3
      <4> QED
        BY <1>4, <1>11, <3>1, <3>2, <3>3, <4>1, <4>2
    <3>4. CASE j # i
      <4>1. i + 1 \in 1 .. N /\ j # 1 /\ u[j - 1] = w[j]
        BY <1>10, <2>2, <3>1, <3>4
      <4>2. w[j + 1] # s.next[n]
        BY <1>2, <1>4, <3>1, <3>4, <4>1
      <4> QED
        BY <1>11, <3>1, <3>2, <4>1, <4>2
    <3> QED
      BY <3>3, <3>4
  <2> QED
    BY <2>1, <2>2
<1>13. \A j, k \in 1 .. N - 1 : u[j] = u[k] => j = k
  BY <1>2, <1>u, DelAtInjective
<1>14. ASSUME NEW q \in Members(g, l) PROVE \E j \in 1 .. N - 1 : u[j] = q
  <2>1. PICK j \in 1 .. N : w[j] = q /\ j # i
    BY <1>2, <1>4, <1>11
  <2>2. CASE j < i
    <3>1. j \in 1 .. N - 1
      BY <2>2
    <3> QED
      BY <1>10, <2>1, <2>2, <3>1
  <2>3. CASE i < j
    <3>1. j - 1 \in 1 .. N - 1
      BY <2>3
    <3> QED
      BY <1>10, <2>1, <2>3, <3>1
  <2> QED
    BY <2>1, <2>2, <2>3
<1>15. g.tail[l] = IF N - 1 = 0 THEN NULL ELSE u[N - 1]
  <2>1. CASE i = N
    <3>1. g.tail[l] = s.prev[n]
      BY <1>4, <1>11, <2>1
    <3>2. N # 1 => N - 1 \in 1 .. N /\ u[N - 1] = w[N - 1]
      BY <1>10, <2>1
    <3> QED
      BY <1>4, <2>1, <3>1, <3>2
  <2>2. CASE i # N
    <3>1. i + 1 \in 1 .. N /\ N \in 1 .. N /\ i < N /\ N # 0 /\ N - 1 # 0
      BY <2>2
    <3>2. s.next[n] # NULL
      BY <1>b, <1>c, <1>4, <2>2, <3>1
    <3>3. u[N - 1] = w[N]
      BY <1>10, <3>1
    <3> QED
      BY <1>3, <1>11, <3>1, <3>2, <3>3
  <2> QED
    BY <2>1, <2>2
<1>16. Enumerates(g, l, u)
  <2>1. u = [j \in 1 .. N - 1 |-> u[j]]
    BY <1>u DEF DelAt
  <2>2. PICK M : M = N - 1
    OBVIOUS
  <2>3. /\ g.len[l] = M /\ u = [j \in 1 .. M |-> u[j]]
        /\ \A j \in 1 .. M : /\ u[j] \in Members(g, l)
                              /\ g.prev[u[j]] = IF j = 1 THEN NULL ELSE u[j - 1]
    BY <1>11, <1>12, <2>1, <2>2
  <2>4. /\ \A j, k \in 1 .. M : u[j] = u[k] => j = k
        /\ \A q \in Members(g, l) : \E j \in 1 .. M : u[j] = q
        /\ g.tail[l] = IF M = 0 THEN NULL ELSE u[M]
    BY <1>13, <1>14, <1>15, <2>2
  <2> QED
    BY ONLY <2>3, <2>4, Zenon DEF Enumerates
<1>17. Ordered(g, [W EXCEPT ![l] = DelAt(@, N, i)])
  <2>1. PICK V : V = [W EXCEPT ![l] = DelAt(@, N, i)]
    OBVIOUS
  <2>2. V = [k \in Lists |-> IF k = l THEN u ELSE W[k]]
    BY <1>1, <1>u, <2>1, Zenon DEF Ordered
  <2>3. \A k \in Lists : Enumerates(g, k, V[k])
    BY <1>9, <1>16, <2>2
  <2>4. V = [k \in Lists |-> V[k]]
    BY <2>2
  <2> QED
    BY <1>6, <2>1, <2>3, <2>4 DEF Ordered
<1> QED
  BY <1>7, <1>17 DEF Taken

\* The order gives the length.
LEMMA OrderedLen ==
  ASSUME NEW s, NEW W, Ordered(s, W), NEW l \in Lists, NEW M \in Nat,
         W[l] = [j \in 1 .. M |-> W[l][j]]
  PROVE  s.len[l] = M
<1>1. PICK N \in Nat : N = s.len[l]
  BY OrderedFacts
<1>2. W[l] = [j \in 1 .. N |-> W[l][j]]
  BY <1>1 DEF Ordered, Enumerates
<1>3. 1 .. N = 1 .. M
  BY <1>2
<1>4. (N \in 1 .. N => N \in 1 .. M) /\ (M \in 1 .. M => M \in 1 .. N)
  BY <1>3
<1> QED
  BY <1>1, <1>4

LEMMA OrderedSeq ==
  ASSUME NEW s, NEW W, Ordered(s, W), NEW l \in Lists
  PROVE  W[l] \in Seq(Nodes) /\ Len(W[l]) = s.len[l]
<1>1. PICK w, n : w = W[l] /\ n = s.len[l]
  OBVIOUS
<1>2. n \in Nat /\ \A i \in 1 .. n : w[i] \in Nodes
  BY <1>1, OrderedFacts
<1>3. w = [i \in 1 .. n |-> w[i]]
  BY <1>1 DEF Ordered, Enumerates
<1>4. w \in Seq(Nodes) /\ Len(w) = n
  BY <1>2, <1>3
<1> QED
  BY <1>1, <1>4

\* w without the k elements after the b-th.
Cut(w, N, b, k) == [x \in 1 .. N - k |-> IF x <= b THEN w[x] ELSE w[x + k]]

LEMMA DelCut ==
  ASSUME NEW N \in Nat, NEW b \in Nat, NEW k \in Nat, b + k < N, NEW w
  PROVE  /\ DelAt(Cut(w, N, b, k), N - k, b + 1) = Cut(w, N, b, k + 1)
         /\ Cut(w, N, b, k)[b + 1] = w[b + k + 1]
<1>1. PICK c, d : c = Cut(w, N, b, k) /\ d = Cut(w, N, b, k + 1)
  OBVIOUS
<1>2. c = [x \in 1 .. N - k |-> IF x <= b THEN w[x] ELSE w[x + k]]
  BY <1>1 DEF Cut
<1>3. d = [x \in 1 .. N - (k + 1) |-> IF x <= b THEN w[x] ELSE w[x + (k + 1)]]
  BY <1>1 DEF Cut
<1>4. DelAt(c, N - k, b + 1) = [x \in 1 .. (N - k) - 1 |-> IF x < b + 1 THEN c[x] ELSE c[x + 1]]
  BY DEF DelAt
<1>5. ASSUME NEW x \in 1 .. (N - k) - 1
      PROVE  (IF x < b + 1 THEN c[x] ELSE c[x + 1]) = (IF x <= b THEN w[x] ELSE w[x + (k + 1)])
  <2>1. CASE x <= b
    <3>1. x \in 1 .. N - k /\ x < b + 1
      BY <2>1
    <3> QED
      BY <1>2, <2>1, <3>1
  <2>2. CASE ~ (x <= b)
    <3>1. x + 1 \in 1 .. N - k /\ ~ (x < b + 1) /\ ~ (x + 1 <= b) /\ (x + 1) + k = x + (k + 1)
      BY <2>2
    <3> QED
      BY <1>2, <2>2, <3>1
  <2> QED
    BY <2>1, <2>2
<1>6. (N - k) - 1 = N - (k + 1)
  OBVIOUS
<1>7. DelAt(c, N - k, b + 1) = d
  BY <1>3, <1>4, <1>5, <1>6
<1>8. c[b + 1] = w[b + k + 1]
  <2>1. b + 1 \in 1 .. N - k /\ ~ (b + 1 <= b) /\ (b + 1) + k = b + k + 1
    OBVIOUS
  <2> QED
    BY <1>2, <2>1
<1> QED
  BY <1>1, <1>7, <1>8

\* What removals of k nodes of l, after the b-th, make.
CutOff(s, W, l, N, b, w, k, g) ==
  /\ Ordered(g, [W EXCEPT ![l] = Cut(@, N, b, k)])
  /\ g.live = s.live \ Firsts(w, k) /\ g.id = s.id
  /\ \A n \in g.live : g.data[n] = s.data[n]

LEMMA CutOffNext ==
  ASSUME NEW s, NEW W, Ordered(s, W), NEW l \in Lists, NEW N \in Nat, NEW b \in Nat, NEW k \in Nat,
         b + k < N, NEW w, w[k + 1] = W[l][b + k + 1],
         NEW u, CutOff(s, W, l, N, b, w, k, u), NEW g, g = L!RemoveNode(u, l, w[k + 1])
  PROVE  CutOff(s, W, l, N, b, w, k + 1, g)
<1>1. PICK V, c, n : V = [W EXCEPT ![l] = Cut(@, N, b, k)] /\ c = Cut(W[l], N, b, k) /\ n = w[k + 1]
  OBVIOUS
<1>2. /\ Ordered(u, V) /\ V[l] = c /\ u.live = s.live \ Firsts(w, k) /\ u.id = s.id
      /\ \A q \in u.live : u.data[q] = s.data[q]
  BY <1>1 DEF CutOff, Ordered
<1>3. c[b + 1] = n /\ DelAt(c, N - k, b + 1) = Cut(W[l], N, b, k + 1)
  BY <1>1, DelCut
<1>4. PICK M \in Nat : M = N - k /\ b + 1 \in 1 .. M
  OBVIOUS
<1>5. u.len[l] = M
  <2>1. c = [j \in 1 .. M |-> c[j]]
    BY <1>1, <1>4 DEF Cut
  <2> QED
    BY <1>2, <2>1, OrderedLen
<1>6. /\ Ordered(g, [V EXCEPT ![l] = DelAt(@, M, b + 1)])
      /\ g.live = u.live \ {n} /\ g.id = u.id
      /\ g.data = [u.data EXCEPT ![n] = NULL]
  <2>1. PICK i \in 1 .. M : i = b + 1
    BY <1>4
  <2>2. n = V[l][i] /\ g = L!RemoveNode(u, l, n)
    BY <1>1, <1>2, <1>3, <2>1
  <2>3. /\ Ordered(g, [V EXCEPT ![l] = DelAt(@, M, i)])
        /\ g.live = u.live \ {n} /\ g.id = u.id
        /\ g.data = [u.data EXCEPT ![n] = NULL]
    BY <1>2, <1>5, <2>2, RemoveOrder
  <2> QED
    BY <2>1, <2>3
<1>7. [V EXCEPT ![l] = DelAt(@, M, b + 1)] = [W EXCEPT ![l] = Cut(@, N, b, k + 1)]
  <2>1. PICK d : d = Cut(W[l], N, b, k + 1)
    OBVIOUS
  <2>2. W = [j \in Lists |-> W[j]]
    BY DEF Ordered
  <2>3. DelAt(V[l], M, b + 1) = d
    BY <1>2, <1>3, <1>4, <2>1
  <2> QED
    BY <1>1, <2>1, <2>2, <2>3, Zenon
<1>8. Firsts(w, k + 1) = Firsts(w, k) \cup {n}
  BY <1>1 DEF Firsts
<1>9. \A q \in g.live : g.data[q] = s.data[q]
  <2>1. u.data = [q \in Nodes |-> u.data[q]] /\ u.live \subseteq Nodes
    BY <1>2 DEF Ordered, ListsGood, ListType
  <2> QED
    BY <1>2, <1>6, <2>1
<1> QED
  BY <1>2, <1>6, <1>7, <1>8, <1>9 DEF CutOff

LEMMA RemovedOrder ==
  ASSUME NEW s, NEW W, Ordered(s, W), NEW l \in Lists, NEW N \in Nat, N = s.len[l],
         NEW b \in 0 .. N, NEW w, Len(w) = N - b, \A j \in 1 .. N - b : w[j] = W[l][b + j],
         NEW g, g = L!Removed(s, l, w)
  PROVE  CutOff(s, W, l, N, b, w, N - b, g)
<1>0. PICK K \in Nat : K = N - b
  OBVIOUS
<1>1. PICK f : IsRun("remove", s, l, w, w, s, f, K) /\ g = f[K]
  <2>1. \E f : IsRun("remove", s, l, w, w, s, f, K)
    BY RunExists
  <2> DEFINE a == CHOOSE f : f = [i \in 0 .. K |-> IF i = 0 THEN s ELSE L!RemoveNode(f[i - 1], l, w[i])]
  <2>2. \A f : IsRun("remove", s, l, w, w, s, f, K)
               <=> f = [i \in 0 .. K |-> IF i = 0 THEN s ELSE L!RemoveNode(f[i - 1], l, w[i])]
    BY Zenon DEF IsRun, Turn
  <2>3. IsRun("remove", s, l, w, w, s, a, K)
    BY <2>1, <2>2
  <2>4. g = a[K]
    BY <1>0 DEF L!Removed
  <2> QED
    BY <2>3, <2>4
<1>2. f[0] = s /\ \A i \in 0 .. K : i # 0 => f[i] = L!RemoveNode(f[i - 1], l, w[i])
  BY <1>1 DEF IsRun, Turn
<1> DEFINE Good(i) == CutOff(s, W, l, N, b, w, i, f[i])
           Bad == {i \in 0 .. K : ~ Good(i)}
<1>3. Good(0)
  <2>1. Firsts(w, 0) = {}
    BY DEF Firsts
  <2>2. [W EXCEPT ![l] = Cut(@, N, b, 0)] = W
    <3>1. PICK c, a : c = Cut(W[l], N, b, 0) /\ a = W[l]
      OBVIOUS
    <3>2. a = [j \in 1 .. N |-> a[j]] /\ W = [j \in Lists |-> W[j]]
      BY <3>1 DEF Ordered, Enumerates
    <3>3. c = [x \in 1 .. N - 0 |-> IF x <= b THEN a[x] ELSE a[x + 0]]
      BY <3>1 DEF Cut
    <3>4. c = [x \in 1 .. N |-> a[x]]
      BY <3>3
    <3>5. Cut(W[l], N, b, 0) = W[l]
      BY <3>1, <3>2, <3>4
    <3> QED
      BY <3>2, <3>5, Zenon
  <2> QED
    BY <1>2, <2>1, <2>2 DEF CutOff
<1> HIDE DEF Good
<1>4. Bad = {}
  <2>1. SUFFICES ASSUME Bad # {} PROVE FALSE
    OBVIOUS
  <2>2. PICK z \in Bad : \A k \in Bad : z <= k
    <3>1. Bad \in SUBSET Nat
      OBVIOUS
    <3> QED
      BY <2>1, <3>1, LeastOf, Zenon
  <2>3. z \in 0 .. K /\ ~ Good(z) /\ z # 0
    BY <1>3, <2>2
  <2>4. PICK j \in Nat : z = j + 1 /\ j \in 0 .. K
    BY <2>3
  <2>5. Good(j)
    <3>1. ~ (z <= j)
      BY <2>4
    <3> QED
      BY <2>2, <2>4, <3>1
  <2>6. f[z] = L!RemoveNode(f[j], l, w[j + 1])
    BY <1>2, <2>3, <2>4
  <2>7. b \in Nat /\ b + j < N /\ w[j + 1] = W[l][b + j + 1]
    <3>1. j + 1 \in 1 .. N - b /\ b + (j + 1) = b + j + 1
      BY <1>0, <2>3, <2>4
    <3> QED
      BY <1>0, <2>3, <2>4, <3>1
  <2>8. CutOff(s, W, l, N, b, w, j + 1, f[z])
    BY <2>5, <2>6, <2>7, CutOffNext DEF Good
  <2> QED
    BY <2>3, <2>4, <2>8 DEF Good
<1> QED
  BY <1>0, <1>1, <1>4 DEF Good

\* w with the first k of the nodes 'new' at its end.
Ext(w, N, new, k) == [x \in 1 .. N + k |-> IF x <= N THEN w[x] ELSE new[x - N]]

LEMMA InsExt ==
  ASSUME NEW N \in Nat, NEW k \in Nat, NEW w, NEW new
  PROVE  /\ InsAt(Ext(w, N, new, k), N + k, N + k + 1, new[k + 1]) = Ext(w, N, new, k + 1)
         /\ k = 0 => Ext(w, N, new, k) = [x \in 1 .. N |-> w[x]]
<1>1. PICK c, d : c = Ext(w, N, new, k) /\ d = Ext(w, N, new, k + 1)
  OBVIOUS
<1>2. c = [x \in 1 .. N + k |-> IF x <= N THEN w[x] ELSE new[x - N]]
  BY <1>1 DEF Ext
<1>3. d = [x \in 1 .. N + (k + 1) |-> IF x <= N THEN w[x] ELSE new[x - N]]
  BY <1>1 DEF Ext
<1>4. PICK M \in Nat : M = N + k
  OBVIOUS
<1>5. InsAt(c, M, M + 1, new[k + 1])
        = [x \in 1 .. M + 1 |-> IF x < M + 1 THEN c[x] ELSE IF x = M + 1 THEN new[k + 1] ELSE c[x - 1]]
  BY DEF InsAt
<1>6. ASSUME NEW x \in 1 .. M + 1
      PROVE  (IF x < M + 1 THEN c[x] ELSE IF x = M + 1 THEN new[k + 1] ELSE c[x - 1])
               = (IF x <= N THEN w[x] ELSE new[x - N])
  <2>1. CASE x < M + 1
    BY <1>2, <1>4, <2>1
  <2>2. CASE x = M + 1
    <3>1. ~ (x <= N) /\ x - N = k + 1
      BY <1>4, <2>2
    <3> QED
      BY <2>2, <3>1
  <2> QED
    BY <2>1, <2>2
<1>7. M + 1 = N + (k + 1)
  BY <1>4
<1>8. InsAt(c, M, M + 1, new[k + 1]) = d
  BY <1>3, <1>5, <1>6, <1>7
<1>9. k = 0 => c = [x \in 1 .. N |-> w[x]]
  BY <1>2
<1> QED
  BY <1>1, <1>4, <1>8, <1>9

\* What k pushes to l make.
PushedOn(s, W, l, N, new, v, k, g) ==
  /\ Ordered(g, [W EXCEPT ![l] = Ext(@, N, new, k)])
  /\ g.live = s.live \cup Firsts(new, k) /\ g.id = s.id
  /\ \A n \in s.live : g.data[n] = s.data[n]
  /\ \A j \in 1 .. k : g.data[new[j]] = v[j]

LEMMA ExtNone ==
  ASSUME NEW N \in Nat, NEW w, NEW new
  PROVE  Ext(w, N, new, 0) = [x \in 1 .. N |-> w[x]]
BY DEF Ext

LEMMA PushedOnNext ==
  ASSUME NEW s, NEW W, Ordered(s, W), NEW l \in Lists, NEW N \in Nat, NEW k \in Nat,
         NEW new, new[k + 1] \in Nodes \ s.live, new[k + 1] \notin Firsts(new, k),
         NEW v, v[k + 1] \in Values \cup {NULL},
         NEW u, PushedOn(s, W, l, N, new, v, k, u),
         NEW g, g = L!PushBack(u, l, new[k + 1], v[k + 1])
  PROVE  PushedOn(s, W, l, N, new, v, k + 1, g)
<1>1. PICK V, c, n, y : V = [W EXCEPT ![l] = Ext(@, N, new, k)] /\ c = Ext(W[l], N, new, k)
                        /\ n = new[k + 1] /\ y = v[k + 1]
  OBVIOUS
<1>2. /\ Ordered(u, V) /\ V[l] = c /\ u.live = s.live \cup Firsts(new, k) /\ u.id = s.id
      /\ \A q \in s.live : u.data[q] = s.data[q]
      /\ \A j \in 1 .. k : u.data[new[j]] = v[j]
  BY <1>1 DEF PushedOn, Ordered
<1>3. PICK M \in Nat : M = N + k
  OBVIOUS
<1>4. u.len[l] = M
  <2>1. c = [j \in 1 .. M |-> c[j]]
    BY <1>1, <1>3 DEF Ext
  <2> QED
    BY <1>2, <2>1, OrderedLen
<1>5. Around(V[l], M, M + 1, u.tail[l], NULL)
  <2>1. u.tail[l] = IF M = 0 THEN NULL ELSE V[l][M]
    BY <1>2, <1>4, OrderedLinks
  <2> QED
    BY <2>1 DEF Around
<1>6. n \in Nodes \ u.live /\ y \in Values \cup {NULL} /\ n \notin s.live
  BY <1>1, <1>2
<1>7. g = L!CreateNode(u, l, u.tail[l], NULL, n, y)
  BY <1>1 DEF L!PushBack
<1>8. /\ Ordered(g, [V EXCEPT ![l] = InsAt(@, M, M + 1, n)])
      /\ g.live = u.live \cup {n} /\ g.id = u.id
      /\ g.data = [u.data EXCEPT ![n] = y]
  <2>1. PICK i \in 1 .. M + 1 : i = M + 1
    OBVIOUS
  <2>1w. PICK p, q : p = u.tail[l] /\ q = NULL
    OBVIOUS
  <2>2. Around(V[l], M, i, p, q) /\ g = L!CreateNode(u, l, p, q, n, y)
    BY <1>5, <1>7, <2>1, <2>1w
  <2>3. /\ Ordered(g, [V EXCEPT ![l] = InsAt(@, M, i, n)])
        /\ g.live = u.live \cup {n} /\ g.id = u.id
        /\ g.data = [u.data EXCEPT ![n] = y]
    BY <1>2, <1>4, <1>6, <2>2, CreateOrder
  <2> QED
    BY <2>1, <2>1w, <2>3
<1>9. [V EXCEPT ![l] = InsAt(@, M, M + 1, n)] = [W EXCEPT ![l] = Ext(@, N, new, k + 1)]
  <2>1. PICK d : d = Ext(W[l], N, new, k + 1)
    OBVIOUS
  <2>2. W = [j \in Lists |-> W[j]]
    BY DEF Ordered
  <2>3. InsAt(V[l], M, M + 1, n) = d
    BY <1>1, <1>2, <1>3, <2>1, InsExt
  <2> QED
    BY <1>1, <2>1, <2>2, <2>3, Zenon
<1>10. Firsts(new, k + 1) = Firsts(new, k) \cup {n}
  BY <1>1 DEF Firsts
<1>11. u.data = [q \in Nodes |-> u.data[q]] /\ s.live \subseteq Nodes
  BY <1>2 DEF Ordered, ListsGood, ListType
<1>12. \A q \in s.live : g.data[q] = s.data[q]
  BY <1>2, <1>6, <1>8, <1>11
<1>13. ASSUME NEW j \in 1 .. k + 1 PROVE g.data[new[j]] = v[j]
  <2>1. CASE j = k + 1
    BY <1>1, <1>6, <1>8, <1>11, <2>1
  <2>2. CASE j # k + 1
    <3>1. j \in 1 .. k /\ new[j] # n
      BY <1>1, <2>2 DEF Firsts
    <3>2. new[j] \in Nodes
      <4>1. new[j] \in u.live
        BY <1>2, <3>1 DEF Firsts
      <4> QED
        BY <1>2, <4>1 DEF Ordered, ListsGood, ListType
    <3> QED
      BY <1>2, <1>8, <1>11, <3>1, <3>2
  <2> QED
    BY <2>1, <2>2
<1> QED
  BY <1>2, <1>8, <1>9, <1>10, <1>12, <1>13 DEF PushedOn

LEMMA PushedOrder ==
  ASSUME NEW s, NEW W, Ordered(s, W), NEW l \in Lists, NEW N \in Nat, N = s.len[l],
         NEW new, NEW v, NEW K \in Nat, Len(v) = K,
         \A i \in 1 .. K : new[i] \in Nodes \ s.live /\ v[i] \in Values \cup {NULL},
         \A i, j \in 1 .. K : new[i] = new[j] => i = j,
         NEW g, g = L!Pushed(s, l, new, v)
  PROVE  PushedOn(s, W, l, N, new, v, K, g)
<1>1. PICK f : IsRun("push", s, l, new, v, s, f, K) /\ g = f[K]
  <2>1. \E f : IsRun("push", s, l, new, v, s, f, K)
    BY RunExists
  <2> DEFINE a == CHOOSE f : f = [i \in 0 .. K |-> IF i = 0 THEN s ELSE L!PushBack(f[i - 1], l, new[i], v[i])]
  <2>2. \A f : IsRun("push", s, l, new, v, s, f, K)
               <=> f = [i \in 0 .. K |-> IF i = 0 THEN s ELSE L!PushBack(f[i - 1], l, new[i], v[i])]
    <3>1. "push" # "remove"
      OBVIOUS
    <3> QED
      BY <3>1, Zenon DEF IsRun, Turn
  <2>3. IsRun("push", s, l, new, v, s, a, K)
    BY <2>1, <2>2
  <2>4. g = a[K]
    BY DEF L!Pushed
  <2> QED
    BY <2>3, <2>4
<1>2. f[0] = s /\ \A i \in 0 .. K : i # 0 => f[i] = L!PushBack(f[i - 1], l, new[i], v[i])
  BY <1>1 DEF IsRun, Turn
<1> DEFINE Good(i) == PushedOn(s, W, l, N, new, v, i, f[i])
           Bad == {i \in 0 .. K : ~ Good(i)}
<1>3. Good(0)
  <2>1. Firsts(new, 0) = {}
    BY DEF Firsts
  <2>2. [W EXCEPT ![l] = Ext(@, N, new, 0)] = W
    <3>1. PICK a : a = W[l]
      OBVIOUS
    <3>2. a = [j \in 1 .. N |-> a[j]] /\ W = [j \in Lists |-> W[j]]
      BY <3>1 DEF Ordered, Enumerates
    <3>3. Ext(a, N, new, 0) = [x \in 1 .. N |-> a[x]]
      <4>1. N \in Nat
        OBVIOUS
      <4> QED
        BY ONLY <4>1, ExtNone
    <3>4. Ext(W[l], N, new, 0) = W[l]
      BY <3>1, <3>2, <3>3
    <3> QED
      BY <3>2, <3>4, Zenon
  <2> QED
    BY <1>2, <2>1, <2>2 DEF PushedOn
<1> HIDE DEF Good
<1>4. Bad = {}
  <2>1. SUFFICES ASSUME Bad # {} PROVE FALSE
    OBVIOUS
  <2>2. PICK z \in Bad : \A k \in Bad : z <= k
    <3>1. Bad \in SUBSET Nat
      OBVIOUS
    <3> QED
      BY <2>1, <3>1, LeastOf, Zenon
  <2>3. z \in 0 .. K /\ ~ Good(z) /\ z # 0
    BY <1>3, <2>2
  <2>4. PICK j \in Nat : z = j + 1 /\ j \in 0 .. K /\ j + 1 \in 1 .. K
    BY <2>3
  <2>5. Good(j)
    <3>1. ~ (z <= j)
      BY <2>4
    <3> QED
      BY <2>2, <2>4, <3>1
  <2>6. f[z] = L!PushBack(f[j], l, new[j + 1], v[j + 1])
    BY <1>2, <2>3, <2>4
  <2>7. /\ new[j + 1] \in Nodes \ s.live /\ new[j + 1] \notin Firsts(new, j)
        /\ v[j + 1] \in Values \cup {NULL}
    BY <2>4 DEF Firsts
  <2>8. PushedOn(s, W, l, N, new, v, j + 1, f[z])
    BY <2>5, <2>6, <2>7, PushedOnNext DEF Good
  <2> QED
    BY <2>3, <2>4, <2>8 DEF Good
<1> QED
  BY <1>1, <1>4 DEF Good

\* Values do not matter to the order.
LEMMA DataOrder ==
  ASSUME NEW s, NEW W, Ordered(s, W), NEW f \in [Nodes -> Values \cup {NULL}],
         NEW g, g = [s EXCEPT !.data = f]
  PROVE  Ordered(g, W) /\ g.id = s.id /\ g.live = s.live /\ g.len = s.len /\ g.data = f
<1>1. /\ ListsGood(g) /\ g.id = s.id /\ g.live = s.live /\ g.len = s.len
      /\ \A l : Members(g, l) = Members(s, l)
  BY DataGood DEF Ordered
<1>2. g.tail = s.tail /\ g.prev = s.prev /\ g.data = f
  BY DEF Ordered, ListsGood, ListType
<1>3. \A l \in Lists : Enumerates(g, l, W[l])
  BY <1>1, <1>2, EnumeratesFrame DEF Ordered
<1> QED
  BY <1>1, <1>2, <1>3 DEF Ordered

\* clear()
LEMMA ClearOrder ==
  ASSUME NEW s, NEW W, Ordered(s, W), NEW l \in Lists, NEW g, g = L!ClearAll(s, l)
  PROVE  /\ Ordered(g, [W EXCEPT ![l] = <<>>])
         /\ g.live = s.live \ Members(s, l) /\ g.id = s.id
         /\ \A n \in g.live : g.data[n] = s.data[n]
<1>1. PICK N \in Nat : N = s.len[l]
  BY OrderedFacts
<1>1w. PICK w : w = W[l]
  OBVIOUS
<1>2. g = L!Removed(s, l, w) /\ Len(w) = N - 0 /\ 0 \in 0 .. N
  BY <1>1, <1>1w, WalkIs, OrderedSeq DEF L!ClearAll
<1>3. CutOff(s, W, l, N, 0, w, N - 0, g)
  <2>1. \A j \in 1 .. N - 0 : w[j] = W[l][0 + j]
    BY <1>1, <1>1w
  <2> QED
    BY <1>1, <1>1w, <1>2, <2>1, RemovedOrder
<1>4. Firsts(w, N - 0) = Members(s, l)
  <2>1. Firsts(W[l], s.len[l]) = Members(s, l)
    BY <1>1, <1>1w, FirstsAreMembers DEF Ordered
  <2> QED
    BY <1>1, <1>1w, <2>1
<1>5. Cut(W[l], N, 0, N - 0) = <<>>
  BY DEF Cut
<1>6. [W EXCEPT ![l] = Cut(@, N, 0, N - 0)] = [W EXCEPT ![l] = <<>>]
  <2>1. W = [j \in Lists |-> W[j]]
    BY DEF Ordered
  <2> QED
    BY <1>5, <2>1, Zenon
<1> QED
  BY <1>3, <1>4, <1>6 DEF CutOff

\* operator= (list&&)
LEMMA MoveOrder ==
  ASSUME NEW s, NEW W, Ordered(s, W), NEW l \in Lists, NEW k \in Lists, l # k,
         NEW d \in 0 .. MaxId, \A j \in Lists : s.id[j] < d,
         NEW g, g = L!MoveAssigned(s, l, k, d)
  PROVE  /\ Ordered(g, [W EXCEPT ![l] = W[k], ![k] = <<>>])
         /\ g.live = s.live \ Members(s, l)
         /\ \A n \in g.live : g.data[n] = s.data[n]
<1>1. PICK c, C : c = L!ClearAll(s, l) /\ C = [W EXCEPT ![l] = <<>>]
  OBVIOUS
<1>2. /\ Ordered(c, C)
      /\ c.live = s.live \ Members(s, l)
      /\ \A n \in c.live : c.data[n] = s.data[n]
  <2>1. /\ Ordered(c, [W EXCEPT ![l] = <<>>])
        /\ c.live = s.live \ Members(s, l)
        /\ \A n \in c.live : c.data[n] = s.data[n]
    <3>1. c = L!ClearAll(s, l)
      BY <1>1
    <3> QED
      BY <3>1, ClearOrder
  <2> QED
    BY <1>1, <2>1
<1>3. ListsGood(g) /\ Moved(c, l, k, g)
  BY <1>1, MoveAssignedGood DEF Ordered
<1>4. C[k] = W[k] /\ C[l] = <<>> /\ \A j \in Lists \ {l, k} : C[j] = W[j]
  BY <1>1 DEF Ordered
<1>5. Enumerates(g, l, W[k])
  <2>1. Enumerates(c, k, W[k])
    BY <1>2, <1>4 DEF Ordered
  <2>2. Members(g, l) = Members(c, k) /\ g.len[l] = c.len[k] /\ g.tail[l] = c.tail[k] /\ g.prev = c.prev
    BY <1>3 DEF Moved
  <2> QED
    BY <2>1, <2>2 DEF Enumerates
<1>6. Enumerates(g, k, <<>>)
  <2>1. Members(g, k) = {} /\ g.len[k] = 0 /\ g.tail[k] = NULL
    BY <1>3 DEF Moved
  <2> QED
    BY <2>1 DEF Enumerates
<1>7. ASSUME NEW j \in Lists \ {l, k} PROVE Enumerates(g, j, W[j])
  <2>1. Enumerates(c, j, W[j])
    BY <1>2, <1>4 DEF Ordered
  <2>2. Members(g, j) = Members(c, j) /\ g.len[j] = c.len[j] /\ g.tail[j] = c.tail[j] /\ g.prev = c.prev
    BY <1>3 DEF Moved
  <2> QED
    BY <2>1, <2>2, EnumeratesFrame
<1>8. PICK V : V = [W EXCEPT ![l] = W[k], ![k] = <<>>]
  OBVIOUS
<1>9. V = [j \in Lists |-> IF j = k THEN <<>> ELSE IF j = l THEN W[k] ELSE W[j]]
  BY <1>8, Zenon DEF Ordered
<1>10. \A j \in Lists : Enumerates(g, j, V[j])
  BY <1>5, <1>6, <1>7, <1>9
<1>11. V = [j \in Lists |-> V[j]]
  BY <1>9
<1>12. g.live = c.live /\ g.data = c.data
  BY <1>3 DEF Moved
<1> QED
  BY <1>2, <1>3, <1>8, <1>10, <1>11, <1>12 DEF Ordered

\* The nodes of l after a copy of k: those it had, as far as needed, and new ones.
Copied(w, B, new, Q) == [x \in 1 .. Q |-> IF x <= B THEN w[x] ELSE new[x - B]]

LEMMA ExtCut ==
  ASSUME NEW P \in Nat, NEW Q \in Nat, NEW B \in Nat, B <= P, B <= Q, NEW w, NEW new
  PROVE  Ext(Cut(w, P, B, P - B), B, new, Q - B) = Copied(w, B, new, Q)
<1>1. PICK c : c = Cut(w, P, B, P - B)
  OBVIOUS
<1>2. c = [x \in 1 .. P - (P - B) |-> IF x <= B THEN w[x] ELSE w[x + (P - B)]]
  BY <1>1 DEF Cut
<1>3. \A x \in 1 .. B : c[x] = w[x]
  BY <1>2
<1>4. Ext(c, B, new, Q - B) = [x \in 1 .. B + (Q - B) |-> IF x <= B THEN c[x] ELSE new[x - B]]
  BY DEF Ext
<1>5. Ext(c, B, new, Q - B) = [x \in 1 .. Q |-> IF x <= B THEN w[x] ELSE new[x - B]]
  BY <1>3, <1>4
<1> QED
  BY <1>1, <1>5 DEF Copied

\* operator= (const list&) of another list, at the nodes w and q.
CopyMade(s, W, l, k, P, Q, B, new, g) ==
  /\ Ordered(g, [W EXCEPT ![l] = Copied(@, B, new, Q)])
  /\ g.live = (s.live \ {W[l][j] : j \in B + 1 .. P}) \cup Firsts(new, Q - B)
  /\ \A x \in 1 .. Q : g.data[Copied(W[l], B, new, Q)[x]] = s.data[W[k][x]]
  /\ \A n \in s.live \ Members(s, l) : g.data[n] = s.data[n]

LEMMA CopyAssignedIs ==
  ASSUME NEW s, NEW l, NEW k, l # k, NEW new, NEW p, NEW q, NEW P, NEW Q, NEW B,
         p = L!Walk(s, l), q = L!Walk(s, k), Len(p) = P, Len(q) = Q,
         B = IF P < Q THEN P ELSE Q
  PROVE  L!CopyAssigned(s, l, k, new)
           = L!Pushed(L!Removed([s EXCEPT !.data = [n \in Nodes |->
                                   IF \E i \in 1 .. B : p[i] = n
                                     THEN s.data[q[CHOOSE i \in 1 .. B : p[i] = n]] ELSE s.data[n]]],
                                l, SubSeq(p, B + 1, P)),
                      l, new, [i \in 1 .. Q - B |-> s.data[q[B + i]]])
BY DEF L!CopyAssigned

LEMMA SubSeqFacts ==
  ASSUME NEW T, NEW p \in Seq(T), NEW P \in Nat, Len(p) = P, NEW B \in Nat, B <= P
  PROVE  SubSeq(p, B + 1, P) = [i \in 1 .. P - B |-> p[B + i]] /\ Len(SubSeq(p, B + 1, P)) = P - B
OBVIOUS

LEMMA CopyOrder ==
  ASSUME NEW s, NEW W, Ordered(s, W), NEW l \in Lists, NEW k \in Lists, l # k,
         NEW P \in Nat, NEW Q \in Nat, P = s.len[l], Q = s.len[k],
         NEW B \in Nat, B = IF P < Q THEN P ELSE Q,
         NEW new, \A i \in 1 .. Q - B : new[i] \in Nodes \ s.live,
         \A i, j \in 1 .. Q - B : new[i] = new[j] => i = j,
         NEW g, g = L!CopyAssigned(s, l, k, new)
  PROVE  CopyMade(s, W, l, k, P, Q, B, new, g)
<1>0. B <= P /\ B <= Q /\ s \in ListType /\ ListsGood(s)
  BY DEF Ordered, ListsGood
<1>1. PICK p, q : p = W[l] /\ q = W[k]
  OBVIOUS
<1>2. p \in Seq(Nodes) /\ Len(p) = P /\ Len(q) = Q /\ p = L!Walk(s, l) /\ q = L!Walk(s, k)
  BY <1>1, OrderedSeq, WalkIs
<1>3. /\ \A x \in 1 .. P : p[x] \in Members(s, l) /\ p[x] \in s.live /\ p[x] \in Nodes
      /\ \A x, y \in 1 .. P : p[x] = p[y] => x = y
      /\ \A x \in 1 .. Q : q[x] \in Nodes
  <2>1. \A x, y \in 1 .. P : p[x] = p[y] => x = y
    BY <1>1 DEF Ordered, Enumerates
  <2>2. \A x \in 1 .. P : p[x] \in Members(s, l) /\ p[x] \in s.live /\ p[x] \in Nodes
    BY <1>1, OrderedFacts
  <2>3. \A x \in 1 .. Q : q[x] \in Nodes
    BY <1>1, OrderedFacts
  <2> QED
    BY <2>1, <2>2, <2>3
<1>a. SubSeq(p, B + 1, P) = [i \in 1 .. P - B |-> p[B + i]] /\ Len(SubSeq(p, B + 1, P)) = P - B
  <2>1. p \in Seq(Nodes) /\ Len(p) = P /\ B <= P /\ P \in Nat /\ B \in Nat
    BY <1>0, <1>2
  <2> QED
    BY ONLY <2>1, SubSeqFacts
<1>b. g = L!Pushed(L!Removed([s EXCEPT !.data = [n \in Nodes |->
                                   IF \E i \in 1 .. B : p[i] = n
                                     THEN s.data[q[CHOOSE i \in 1 .. B : p[i] = n]] ELSE s.data[n]]],
                                l, SubSeq(p, B + 1, P)),
                      l, new, [i \in 1 .. Q - B |-> s.data[q[B + i]]])
  <2>1. p = L!Walk(s, l) /\ q = L!Walk(s, k) /\ Len(p) = P /\ Len(q) = Q
    BY <1>2
  <2>2. B = (IF P < Q THEN P ELSE Q) /\ l # k /\ g = L!CopyAssigned(s, l, k, new)
    OBVIOUS
  <2> QED
    BY ONLY <2>1, <2>2 DEF L!CopyAssigned
<1> DEFINE f == [n \in Nodes |->
                   IF \E i \in 1 .. B : p[i] = n
                     THEN s.data[q[CHOOSE i \in 1 .. B : p[i] = n]] ELSE s.data[n]]
           w == SubSeq(p, B + 1, P)
           v == [i \in 1 .. Q - B |-> s.data[q[B + i]]]
<1>4. PICK a : a = [s EXCEPT !.data = f]
  OBVIOUS
<1>5. PICK r : r = L!Removed(a, l, w)
  OBVIOUS
<1>6. g = L!Pushed(r, l, new, v)
  BY <1>4, <1>5, <1>b, Zenon
<1>7. ASSUME NEW x \in 1 .. B PROVE f[p[x]] = s.data[q[x]]
  <2>1. x \in 1 .. P /\ p[x] \in Nodes
    BY <1>0, <1>3
  <2>2. (CHOOSE i \in 1 .. B : p[i] = p[x]) = x
    <3>1. \A i \in 1 .. B : i \in 1 .. P
      BY <1>0
    <3>2. \A i \in 1 .. B : p[i] = p[x] <=> i = x
      BY <1>3, <2>1, <3>1
    <3> QED
      BY <3>2
  <2> QED
    BY <2>1, <2>2
<1>8. ASSUME NEW n \in Nodes \ Members(s, l) PROVE f[n] = s.data[n]
  <2>1. ~ \E i \in 1 .. B : p[i] = n
    BY <1>0, <1>3
  <2> QED
    BY <2>1
<1>9. f \in [Nodes -> Values \cup {NULL}]
  <2>1. ASSUME NEW n \in Nodes PROVE f[n] \in Values \cup {NULL}
    <3>1. CASE \E i \in 1 .. B : p[i] = n
      <4>1. PICK i \in 1 .. B : p[i] = n
        BY <3>1
      <4>2. i \in 1 .. Q
        BY <1>0
      <4>3. f[n] = s.data[q[i]] /\ q[i] \in Nodes
        BY <1>3, <1>7, <4>1, <4>2
      <4> QED
        BY <1>0, <4>3 DEF ListType
    <3>2. CASE ~ \E i \in 1 .. B : p[i] = n
      BY <1>0, <3>2 DEF ListType
    <3> QED
      BY <3>1, <3>2
  <2> QED
    BY <2>1
<1>10. Len(w) = P - B /\ \A j \in 1 .. P - B : w[j] = W[l][B + j]
  <2>2. w = [i \in 1 .. P - B |-> p[B + i]] /\ Len(w) = P - B
    BY <1>a
  <2> QED
    BY <1>1, <2>2
<1>11. Len(v) = Q - B /\ Q - B \in Nat /\ \A j \in 1 .. Q - B : v[j] = s.data[q[B + j]]
  BY <1>0
<1>12. \A j \in 1 .. Q - B : v[j] \in Values \cup {NULL}
  <2>1. \A j \in 1 .. Q - B : B + j \in 1 .. Q
    BY <1>0
  <2> QED
    BY <1>0, <1>3, <1>11, <2>1 DEF ListType
<1> HIDE DEF f, w, v
<1>13. Ordered(a, W) /\ a.live = s.live /\ a.len = s.len /\ a.data = f
  BY <1>4, <1>9, DataOrder
<1>14. CutOff(a, W, l, P, B, w, P - B, r)
  <2>1. B \in 0 .. P /\ P = a.len[l]
    BY <1>0, <1>13
  <2> QED
    BY <1>5, <1>10, <1>13, <2>1, RemovedOrder
<1>15. PICK R : R = [W EXCEPT ![l] = Cut(@, P, B, P - B)]
  OBVIOUS
<1>16. /\ Ordered(r, R) /\ R[l] = Cut(p, P, B, P - B)
       /\ r.live = s.live \ Firsts(w, P - B) /\ \A n \in r.live : r.data[n] = f[n]
  BY <1>1, <1>13, <1>14, <1>15 DEF CutOff, Ordered
<1>17. r.len[l] = B
  <2>1. PICK c : c = R[l]
    OBVIOUS
  <2>2. c = [x \in 1 .. P - (P - B) |-> IF x <= B THEN p[x] ELSE p[x + (P - B)]]
    BY <1>16, <2>1 DEF Cut
  <2>3. c = [x \in 1 .. B |-> c[x]]
    BY <2>2
  <2> QED
    BY <1>16, <2>1, <2>3, OrderedLen
<1>18. PushedOn(r, R, l, B, new, v, Q - B, g)
  <2>1. \A i \in 1 .. Q - B : new[i] \in Nodes \ r.live /\ v[i] \in Values \cup {NULL}
    BY <1>12, <1>16
  <2>2. PICK K \in Nat : K = Q - B
    BY <1>11
  <2> QED
    BY <1>6, <1>11, <1>16, <1>17, <2>1, <2>2, PushedOrder
<1>19. PICK u : u = Copied(p, B, new, Q)
  OBVIOUS
<1>20. [R EXCEPT ![l] = Ext(@, B, new, Q - B)] = [W EXCEPT ![l] = Copied(@, B, new, Q)]
  <2>1. W = [j \in Lists |-> W[j]]
    BY DEF Ordered
  <2>2. Ext(R[l], B, new, Q - B) = u
    BY <1>0, <1>16, <1>19, ExtCut
  <2> QED
    BY <1>1, <1>15, <1>19, <2>1, <2>2, Zenon
<1>21. Ordered(g, [W EXCEPT ![l] = Copied(@, B, new, Q)])
  BY <1>18, <1>20 DEF PushedOn
<1>22. /\ g.live = r.live \cup Firsts(new, Q - B)
       /\ \A n \in r.live : g.data[n] = r.data[n]
       /\ \A j \in 1 .. Q - B : g.data[new[j]] = v[j]
  BY <1>18 DEF PushedOn
<1>23. Firsts(w, P - B) = {W[l][j] : j \in B + 1 .. P}
  <2>1. ASSUME NEW j \in B + 1 .. P PROVE j - B \in 1 .. P - B /\ B + (j - B) = j
    BY <1>0
  <2>2. ASSUME NEW j \in 1 .. P - B PROVE B + j \in B + 1 .. P
    BY <1>0
  <2>3. PICK z : z = W[l]
    OBVIOUS
  <2>4. Firsts(w, P - B) = {w[j] : j \in 1 .. P - B} /\ \A j \in 1 .. P - B : w[j] = z[B + j]
    BY <1>10, <2>3 DEF Firsts
  <2>5. ASSUME NEW n \in Firsts(w, P - B) PROVE \E j \in B + 1 .. P : n = z[j]
    <3>1. PICK j \in 1 .. P - B : n = w[j]
      BY <2>4
    <3> QED
      BY <2>2, <2>4, <3>1
  <2>6. ASSUME NEW j \in B + 1 .. P PROVE z[j] \in Firsts(w, P - B)
    <3>1. PICK x \in 1 .. P - B : x = j - B /\ B + x = j
      BY <2>1
    <3>2. w[x] = z[j]
      BY <2>4, <3>1
    <3> QED
      BY <2>4, <3>2
  <2> QED
    BY <2>3, <2>5, <2>6
<1>24. ASSUME NEW x \in 1 .. Q PROVE g.data[u[x]] = s.data[q[x]]
  <2>0. u[x] = IF x <= B THEN p[x] ELSE new[x - B]
    BY <1>19 DEF Copied
  <2>1. CASE x <= B
    <3>1. x \in 1 .. B /\ x \in 1 .. P
      BY <1>0, <2>1
    <3>2. p[x] \notin Firsts(w, P - B)
      <4>1. SUFFICES ASSUME NEW j \in B + 1 .. P, W[l][j] = p[x] PROVE FALSE
        BY <1>23
      <4>2. j \in 1 .. P /\ j # x
        BY <1>0, <2>1
      <4> QED
        BY <1>1, <1>3, <3>1, <4>1, <4>2
    <3>3. p[x] \in r.live
      BY <1>3, <1>16, <3>1, <3>2
    <3> QED
      BY <1>7, <1>16, <1>22, <2>0, <2>1, <3>1, <3>3
  <2>2. CASE ~ (x <= B)
    <3>1. PICK y \in 1 .. Q - B : y = x - B /\ B + y = x
      BY <1>0, <2>2
    <3>2. u[x] = new[y]
      BY <2>0, <2>2, <3>1
    <3>3. g.data[new[y]] = v[y] /\ v[y] = s.data[q[B + y]]
      BY <1>11, <1>22
    <3> QED
      BY <3>1, <3>2, <3>3
  <2> QED
    BY <2>1, <2>2
<1>25. ASSUME NEW n \in s.live \ Members(s, l) PROVE g.data[n] = s.data[n]
  <2>1. n \in Nodes
    BY <1>0 DEF ListType
  <2>2. n \notin Firsts(w, P - B)
    <3>1. \A j \in B + 1 .. P : j \in 1 .. P
      OBVIOUS
    <3> QED
      BY <1>1, <1>3, <1>23, <3>1
  <2> QED
    BY <1>8, <1>16, <1>22, <2>1, <2>2
<1> QED
  BY <1>1, <1>16, <1>19, <1>21, <1>22, <1>23, <1>24, <1>25 DEF CopyMade

(***************************************************************************)
(* The list: what HandleSeq sees of it                                     *)
(***************************************************************************)
Spot(l, i) == [list |-> l, index |-> i]

\* V is the view of the lists s with the nodes W and the handles g.
Shown(s, W, g, V) ==
  /\ V.content = [l \in Lists |-> [i \in 1 .. s.len[l] |-> s.data[W[l][i]]]]
  /\ V.place = [h \in Handles |-> V.place[h]]
  /\ \A h \in Handles :
       /\ g[h] = NULL => V.place[h] = NULL
       /\ g[h] # NULL /\ g[h] \notin s.live => V.place[h] = Gone
       /\ \A l \in Lists : \A i \in 1 .. s.len[l] : g[h] = W[l][i] => V.place[h] = Spot(l, i)

\* The place of an element is none of the special ones.
LEMMA SpotFacts ==
  ASSUME NEW l \in Lists, NEW N \in Nat, N <= Cardinality(Nodes), NEW i \in 1 .. N
  PROVE  /\ Spot(l, i) \notin {NULL, Gone} /\ Spot(l, i).list = l /\ Spot(l, i).index = i
         /\ \A k \in Lists : L!Abstract!Points(Spot(l, i), k) <=> k = l
<1>1. Spot(l, i) \in [list : Lists, index : 1 .. Cardinality(Nodes)]
  BY ListConstants DEF Spot
<1>2. {NULL, Gone} \cap [list : Lists, index : 1 .. Cardinality(Nodes)] = {}
  BY L!TaggedListAssumption, ListCounts DEF L!TaggedListAssumption
<1>3. Spot(l, i) \notin {NULL, Gone}
  BY <1>1, <1>2
<1> QED
  BY <1>3 DEF Spot, L!Abstract!Points

LEMMA NoPoint ==
  ASSUME NEW l, NEW p \in {NULL, Gone}
  PROVE  ~ L!Abstract!Points(p, l)
BY DEF L!Abstract!Points

LEMMA ViewShown ==
  ASSUME NEW s, NEW W, Ordered(s, W), NEW g, NEW V, V = L!View(s, g)
  PROVE  Shown(s, W, g, V)
<1>1. \A l \in Lists : L!Walk(s, l) = W[l] /\ DOMAIN W[l] = 1 .. s.len[l]
  <2>1. ASSUME NEW l \in Lists PROVE L!Walk(s, l) = W[l] /\ DOMAIN W[l] = 1 .. s.len[l]
    <3>1. PICK w : w = W[l]
      OBVIOUS
    <3>2. w = [i \in 1 .. s.len[l] |-> w[i]]
      BY <3>1 DEF Ordered, Enumerates
    <3> QED
      BY <3>1, <3>2, WalkIs
  <2> QED
    BY <2>1
<1>2. V.content = [l \in Lists |-> [i \in 1 .. s.len[l] |-> s.data[W[l][i]]]]
  <2>1. V.content = [l \in Lists |-> LET w == L!Walk(s, l) IN [i \in DOMAIN w |-> s.data[w[i]]]]
    BY DEF L!View
  <2> QED
    BY <1>1, <2>1
<1> DEFINE place(h) ==
             IF g[h] = NULL THEN NULL
             ELSE IF g[h] \notin s.live THEN Gone
             ELSE CHOOSE p \in [list : Lists, index : 1 .. L!Cardinality(Nodes)] :
                    p.index <= s.len[p.list] /\ L!Walk(s, p.list)[p.index] = g[h]
<1>3. V.place = [h \in Handles |-> place(h)]
  BY DEF L!View
<1>4. ASSUME NEW h \in Handles, NEW l \in Lists, NEW i \in 1 .. s.len[l], g[h] = W[l][i]
      PROVE  place(h) = Spot(l, i)
  <2> DEFINE Fits(p) == p.index <= s.len[p.list] /\ L!Walk(s, p.list)[p.index] = g[h]
             P == [list : Lists, index : 1 .. L!Cardinality(Nodes)]
  <2>0. P = [list : Lists, index : 1 .. Cardinality(Nodes)]
    BY ListCounts
  <2>1. g[h] \in s.live /\ s \in ListType /\ s.len[l] \in Nat /\ s.len[l] <= Cardinality(Nodes)
    BY <1>4, OrderedFacts
  <2>2. g[h] # NULL
    BY <2>1, MembersFinite
  <2>3. Spot(l, i) \in P /\ Fits(Spot(l, i))
    <3>1. Spot(l, i) \in P /\ Spot(l, i).list = l /\ Spot(l, i).index = i
      <4>1. PICK N \in Nat : N = s.len[l]
        BY <2>1
      <4>2. i \in 1 .. Cardinality(Nodes)
        BY <2>1, <4>1, ListConstants
      <4> QED
        BY <2>0, <4>2, Zenon DEF Spot
    <3>2. i <= s.len[l] /\ L!Walk(s, l)[i] = g[h]
      BY <1>1, <1>4, <2>1
    <3> QED
      BY <3>1, <3>2
  <2>4. ASSUME NEW p \in P, Fits(p) PROVE p = Spot(l, i)
    <3>1. PICK k \in Lists, j \in 1 .. Cardinality(Nodes) : p = [list |-> k, index |-> j]
      BY <2>0
    <3>2. j <= s.len[k] /\ L!Walk(s, k)[j] = g[h]
      BY <2>4, <3>1
    <3>3. s.len[k] \in Nat
      BY OrderedFacts
    <3>4. j \in 1 .. s.len[k] /\ W[k][j] = W[l][i]
      BY <1>1, <1>4, <3>2, <3>3, ListConstants
    <3>5. k = l /\ j = i
      BY <3>4, OnePlace
    <3> QED
      BY <3>1, <3>5 DEF Spot
  <2>5. (CHOOSE p \in P : Fits(p)) = Spot(l, i)
    <3> HIDE DEF P, Fits
    <3> QED
      BY <2>3, <2>4
  <2> QED
    BY <2>1, <2>2, <2>5
<1> HIDE DEF place
<1>5. \A h \in Handles : /\ g[h] = NULL => place(h) = NULL
                         /\ g[h] # NULL /\ g[h] \notin s.live => place(h) = Gone
  BY DEF place
<1> QED
  BY <1>2, <1>3, <1>4, <1>5 DEF Shown

\* Where a handle can be.
LEMMA ShownPlace ==
  ASSUME NEW s, NEW W, Ordered(s, W), NEW g, NEW V, Shown(s, W, g, V), NEW h \in Handles
  PROVE  \/ g[h] = NULL /\ V.place[h] = NULL
         \/ g[h] # NULL /\ g[h] \notin s.live /\ V.place[h] = Gone
         \/ \E l \in Lists : \E i \in 1 .. s.len[l] :
              g[h] = W[l][i] /\ g[h] \in s.live /\ g[h] # NULL /\ V.place[h] = Spot(l, i)
<1>1. CASE g[h] = NULL
  BY <1>1 DEF Shown
<1>2. CASE g[h] # NULL /\ g[h] \notin s.live
  BY <1>2 DEF Shown
<1>3. CASE g[h] # NULL /\ g[h] \in s.live
  <2>1. PICK l \in Lists : \E i \in 1 .. s.len[l] : g[h] = W[l][i]
    BY <1>3, OnePlace
  <2>2. PICK i \in 1 .. s.len[l] : g[h] = W[l][i]
    BY <2>1
  <2>3. V.place[h] = Spot(l, i)
    BY <2>2 DEF Shown
  <2> QED
    BY <1>3, <2>2, <2>3
<1> QED
  BY <1>1, <1>2, <1>3

\* The sequences of HandleSeq: an element comes or goes.
LEMMA InsertAtIs ==
  ASSUME NEW T, NEW N \in Nat, NEW c \in Seq(T), Len(c) = N, NEW i \in 1 .. N + 1, NEW v \in T
  PROVE  L!Abstract!S!InsertAt(c, i, v) = InsAt(c, N, i, v)
<1>1. L!Abstract!S!InsertAt(c, i, v) = SubSeq(c, 1, i - 1) \o <<v>> \o SubSeq(c, i, N)
  BY DEF L!Abstract!S!InsertAt
<1>2. SubSeq(c, 1, i - 1) \o <<v>> \o SubSeq(c, i, N) = InsAt(c, N, i, v)
  BY DEF InsAt
<1> QED
  BY <1>1, <1>2

LEMMA RemoveAtIs ==
  ASSUME NEW T, NEW N \in Nat, NEW c \in Seq(T), Len(c) = N, NEW i \in 1 .. N
  PROVE  L!Abstract!S!RemoveAt(c, i) = DelAt(c, N, i)
<1>1. L!Abstract!S!RemoveAt(c, i) = SubSeq(c, 1, i - 1) \o SubSeq(c, i + 1, N)
  BY DEF L!Abstract!S!RemoveAt
<1>2. SubSeq(c, 1, i - 1) \o SubSeq(c, i + 1, N) = DelAt(c, N, i)
  BY DEF DelAt
<1> QED
  BY <1>1, <1>2

LEMMA TypedSeq ==
  ASSUME NEW T, NEW N \in Nat, NEW c, c = [i \in 1 .. N |-> c[i]], \A i \in 1 .. N : c[i] \in T
  PROVE  c \in Seq(T) /\ Len(c) = N
<1>1. c \in [1 .. N -> T]
  OBVIOUS
<1> QED
  BY <1>1

LEMMA ContentSeq ==
  ASSUME NEW s, NEW W, Ordered(s, W), NEW g, NEW V, Shown(s, W, g, V), NEW l \in Lists,
         NEW N \in Nat, N = s.len[l]
  PROVE  /\ V.content[l] \in Seq(Values \cup {NULL}) /\ Len(V.content[l]) = N
         /\ V.content[l] = [i \in 1 .. N |-> s.data[W[l][i]]]
<1>1. V.content[l] = [i \in 1 .. N |-> s.data[W[l][i]]]
  BY DEF Shown
<1>2. \A i \in 1 .. N : s.data[W[l][i]] \in Values \cup {NULL}
  BY OrderedFacts DEF ListType
<1>3. PICK c : c = V.content[l]
  OBVIOUS
<1>4. c = [i \in 1 .. N |-> c[i]] /\ \A i \in 1 .. N : c[i] \in Values \cup {NULL}
  BY <1>1, <1>2, <1>3
<1>5. c \in Seq(Values \cup {NULL}) /\ Len(c) = N
  <2>1. N \in Nat
    OBVIOUS
  <2> QED
    BY ONLY <1>4, <2>1, TypedSeq
<1> QED
  BY <1>1, <1>3, <1>5

\* A new content of one list.
LEMMA ContentOf ==
  ASSUME NEW s, NEW W, NEW g, NEW V, Shown(s, W, g, V),
         NEW t, NEW U, NEW e, NEW X, Shown(t, U, e, X), NEW l \in Lists, NEW c,
         c = [i \in 1 .. t.len[l] |-> t.data[U[l][i]]],
         \A k \in Lists \ {l} :
           t.len[k] = s.len[k] /\ \A i \in 1 .. s.len[k] : t.data[U[k][i]] = s.data[W[k][i]]
  PROVE  X.content = [V.content EXCEPT ![l] = c]
<1>1. /\ X.content = [k \in Lists |-> [i \in 1 .. t.len[k] |-> t.data[U[k][i]]]]
      /\ V.content = [k \in Lists |-> [i \in 1 .. s.len[k] |-> s.data[W[k][i]]]]
  BY DEF Shown
<1>2. \A k \in Lists \ {l} : X.content[k] = V.content[k]
  BY <1>1
<1>3. X.content[l] = c
  BY <1>1
<1>4. X.content = [k \in Lists |-> X.content[k]] /\ V.content = [k \in Lists |-> V.content[k]]
  BY <1>1
<1> HIDE DEF Shown
<1> QED
  BY <1>2, <1>3, <1>4

LEMMA SameLen ==
  ASSUME NEW s, NEW W, Ordered(s, W), NEW t, NEW U, Ordered(t, U), NEW k \in Lists, U[k] = W[k]
  PROVE  t.len[k] = s.len[k]
<1>1. PICK K \in Nat : K = s.len[k]
  BY OrderedFacts
<1>1w. PICK w : w = W[k]
  OBVIOUS
<1>2. w = [j \in 1 .. K |-> w[j]]
  BY <1>1, <1>1w DEF Ordered, Enumerates
<1> QED
  BY <1>1, <1>1w, <1>2, OrderedLen

\* HandleSeq inserts v at the i-th place of l, and h is the result.
Inserts(V, X, l, i, v, h) ==
  /\ X.content = [V.content EXCEPT ![l] = L!Abstract!S!InsertAt(@, i, v)]
  /\ X.place = [[q \in Handles |->
                   IF L!Abstract!Points(V.place[q], l) /\ V.place[q].index >= i
                     THEN Spot(l, V.place[q].index + 1) ELSE V.place[q]] EXCEPT ![h] = Spot(l, i)]

LEMMA InsertShown ==
  ASSUME NEW s, NEW W, Ordered(s, W), NEW l \in Lists, NEW N \in Nat, N = s.len[l], NEW i \in 1 .. N + 1,
         NEW new \in Nodes \ s.live, NEW v \in Values,
         NEW t, NEW U, U = [W EXCEPT ![l] = InsAt(@, N, i, new)], Ordered(t, U),
         t.live = s.live \cup {new}, t.data = [s.data EXCEPT ![new] = v],
         NEW g, g = [h \in Handles |-> g[h]], NEW V, Shown(s, W, g, V), \A q \in Handles : g[q] # new,
         NEW h \in Handles, NEW e, e = [g EXCEPT ![h] = new], NEW X, Shown(t, U, e, X)
  PROVE  Inserts(V, X, l, i, v, h)
<1>1. PICK w, u : w = W[l] /\ u = U[l]
  OBVIOUS
<1>u. u = InsAt(w, N, i, new)
  BY <1>1 DEF Ordered
<1>2. \A k \in Lists \ {l} : U[k] = W[k]
  BY DEF Ordered
<1>3. /\ u = [j \in 1 .. N + 1 |-> u[j]] /\ u[i] = new
      /\ \A j \in 1 .. N : j < i => u[j] = w[j]
      /\ \A j \in 1 .. N : i <= j => u[j + 1] = w[j]
  <2>1. u = [j \in 1 .. N + 1 |-> u[j]]
    BY <1>u DEF InsAt
  <2>2. /\ u[i] = new
        /\ \A j \in 1 .. N : j < i => u[j] = w[j]
        /\ \A j \in 1 .. N : i <= j => u[j + 1] = w[j]
    BY <1>u, InsAtFacts
  <2> QED
    BY <2>1, <2>2
<1>4. t.len[l] = N + 1
  <2>1. PICK M \in Nat : M = N + 1
    OBVIOUS
  <2>2. U[l] = [j \in 1 .. M |-> U[l][j]]
    BY <1>1, <1>3, <2>1
  <2>3. M \in Nat /\ l \in Lists /\ Ordered(t, U)
    OBVIOUS
  <2>4. t.len[l] = M
    BY ONLY <2>2, <2>3, OrderedLen
  <2> QED
    BY <2>1, <2>4
<1>5. \A k \in Lists : \A j \in 1 .. s.len[k] : W[k][j] # new
  BY OrderedFacts
<1>6. \A k \in Lists \ {l} : t.len[k] = s.len[k]
  <2>1. Ordered(s, W) /\ Ordered(t, U)
    OBVIOUS
  <2> QED
    BY ONLY <1>2, <2>1, SameLen
<1>7. s \in ListType /\ t.data[new] = v /\ \A n \in Nodes \ {new} : t.data[n] = s.data[n]
  <2>1. s \in ListType
    BY OrderedFacts
  <2> QED
    BY <2>1 DEF ListType
<1>8. X.content = [V.content EXCEPT ![l] = L!Abstract!S!InsertAt(@, i, v)]
  <2>1. PICK c, d : c = V.content[l] /\ d = [j \in 1 .. N + 1 |-> t.data[u[j]]]
    OBVIOUS
  <2>2. c \in Seq(Values \cup {NULL}) /\ Len(c) = N /\ c = [j \in 1 .. N |-> s.data[w[j]]]
    <3>1. Ordered(s, W) /\ Shown(s, W, g, V) /\ l \in Lists /\ N \in Nat /\ N = s.len[l]
      OBVIOUS
    <3>2. /\ V.content[l] \in Seq(Values \cup {NULL}) /\ Len(V.content[l]) = N
          /\ V.content[l] = [j \in 1 .. N |-> s.data[W[l][j]]]
      BY ONLY <3>1, ContentSeq
    <3> QED
      BY <1>1, <2>1, <3>2
  <2>3. d = InsAt(c, N, i, v)
    <3>1. ASSUME NEW j \in 1 .. N + 1
          PROVE  d[j] = IF j < i THEN c[j] ELSE IF j = i THEN v ELSE c[j - 1]
      <4>1. CASE j = i
        BY <1>3, <1>7, <2>1, <4>1
      <4>2. CASE j < i /\ j \in 1 .. N
        <5>1. u[j] = w[j] /\ w[j] # new /\ w[j] \in Nodes
          BY <1>1, <1>3, <1>5, <4>2, OrderedFacts
        <5> QED
          BY <1>7, <2>1, <2>2, <4>2, <5>1
      <4>3. ASSUME NEW x \in 1 .. N, j = x + 1, i <= x PROVE d[j] = c[x] /\ ~ (j < i) /\ j # i /\ j - 1 = x
        <5>1. u[j] = w[x] /\ w[x] # new /\ w[x] \in Nodes
          BY <1>1, <1>3, <1>5, <4>3, OrderedFacts
        <5> QED
          BY <1>7, <2>1, <2>2, <4>3, <5>1
      <4> QED
        BY <4>1, <4>2, <4>3, InsAtPlaces
    <3> QED
      BY <2>1, <3>1 DEF InsAt
  <2>4. d = L!Abstract!S!InsertAt(c, i, v)
    BY <2>2, <2>3, InsertAtIs
  <2>5. d = [j \in 1 .. t.len[l] |-> t.data[U[l][j]]]
    BY <1>1, <1>4, <2>1
  <2>6. \A k \in Lists \ {l} :
           t.len[k] = s.len[k] /\ \A j \in 1 .. s.len[k] : t.data[U[k][j]] = s.data[W[k][j]]
    <3>1. SUFFICES ASSUME NEW k \in Lists \ {l}, NEW j \in 1 .. s.len[k]
                   PROVE  t.data[U[k][j]] = s.data[W[k][j]]
      BY <1>6, Zenon
    <3>2. U[k][j] = W[k][j] /\ W[k][j] \in Nodes \ {new}
      BY <1>2, <1>5, OrderedFacts
    <3> QED
      BY <1>7, <3>2
  <2>7. X.content = [V.content EXCEPT ![l] = d]
    <3>1. Shown(s, W, g, V) /\ Shown(t, U, e, X) /\ l \in Lists
      OBVIOUS
    <3> QED
      BY ONLY <2>5, <2>6, <3>1, ContentOf
  <2> QED
    BY <2>1, <2>4, <2>7, Zenon
<1>9. ASSUME NEW q \in Handles
      PROVE  X.place[q] = IF q = h THEN Spot(l, i)
                          ELSE IF L!Abstract!Points(V.place[q], l) /\ V.place[q].index >= i
                            THEN Spot(l, V.place[q].index + 1) ELSE V.place[q]
  <2>1. CASE q = h
    <3>1. e[q] = U[l][i] /\ i \in 1 .. t.len[l]
      BY <1>1, <1>3, <1>4, <2>1
    <3> QED
      BY <2>1, <3>1 DEF Shown
  <2>2. CASE q # h
    <3>1. e[q] = g[q]
      BY <2>2
    <3>2. CASE g[q] = NULL /\ V.place[q] = NULL
      BY <2>2, <3>1, <3>2, NoPoint DEF Shown
    <3>3. CASE g[q] # NULL /\ g[q] \notin s.live /\ V.place[q] = Gone
      BY <2>2, <3>1, <3>3, NoPoint DEF Shown
    <3>4. ASSUME NEW k \in Lists, NEW j \in 1 .. s.len[k], g[q] = W[k][j], V.place[q] = Spot(k, j)
          PROVE  X.place[q] = IF L!Abstract!Points(V.place[q], l) /\ V.place[q].index >= i
                                THEN Spot(l, V.place[q].index + 1) ELSE V.place[q]
      <4>1. V.place[q].index = j /\ (L!Abstract!Points(V.place[q], l) <=> k = l)
        BY <3>4, OrderedFacts, SpotFacts
      <4>2. CASE k # l
        <5>1. e[q] = U[k][j] /\ j \in 1 .. t.len[k]
          BY <1>2, <1>6, <3>1, <3>4, <4>2
        <5> QED
          BY <3>4, <4>1, <4>2, <5>1 DEF Shown
      <4>3. CASE k = l /\ j < i
        <5>1. e[q] = U[l][j] /\ j \in 1 .. t.len[l]
          BY <1>1, <1>3, <1>4, <3>1, <3>4, <4>3
        <5> QED
          BY <3>4, <4>1, <4>3, <5>1 DEF Shown
      <4>4. CASE k = l /\ i <= j
        <5>1. e[q] = U[l][j + 1] /\ j + 1 \in 1 .. t.len[l]
          BY <1>1, <1>3, <1>4, <3>1, <3>4, <4>4
        <5> QED
          BY <3>4, <4>1, <4>4, <5>1 DEF Shown
      <4> QED
        BY <4>2, <4>3, <4>4
    <3> QED
      BY <2>2, <3>2, <3>3, <3>4, ShownPlace
  <2> QED
    BY <2>1, <2>2
<1>10. X.place = [q \in Handles |-> X.place[q]] /\ V.place = [q \in Handles |-> V.place[q]]
  BY DEF Shown
<1>11. X.place = [[q \in Handles |->
                     IF L!Abstract!Points(V.place[q], l) /\ V.place[q].index >= i
                       THEN Spot(l, V.place[q].index + 1) ELSE V.place[q]] EXCEPT ![h] = Spot(l, i)]
  BY <1>9, <1>10
<1> QED
  BY <1>8, <1>11, Zenon DEF Inserts

\* HandleSeq removes the i-th element of l.
Removes(V, X, l, i) ==
  /\ X.content = [V.content EXCEPT ![l] = L!Abstract!S!RemoveAt(@, i)]
  /\ X.place = [q \in Handles |->
                  IF ~ L!Abstract!Points(V.place[q], l) \/ V.place[q].index < i THEN V.place[q]
                  ELSE IF V.place[q].index = i THEN Gone ELSE Spot(l, V.place[q].index - 1)]

LEMMA RemoveShown ==
  ASSUME NEW s, NEW W, Ordered(s, W), NEW l \in Lists, NEW N \in Nat, N = s.len[l], NEW i \in 1 .. N,
         NEW n, n = W[l][i], NEW t, NEW U, U = [W EXCEPT ![l] = DelAt(@, N, i)], Ordered(t, U),
         t.live = s.live \ {n}, t.data = [s.data EXCEPT ![n] = NULL],
         NEW g, NEW V, Shown(s, W, g, V), NEW X, Shown(t, U, g, X)
  PROVE  Removes(V, X, l, i)
<1>1. PICK w, u : w = W[l] /\ u = U[l]
  OBVIOUS
<1>u. u = DelAt(w, N, i)
  BY <1>1 DEF Ordered
<1>2. \A k \in Lists \ {l} : U[k] = W[k]
  BY DEF Ordered
<1>3. /\ u = [j \in 1 .. N - 1 |-> IF j < i THEN w[j] ELSE w[j + 1]]
      /\ u = [j \in 1 .. N - 1 |-> u[j]]
  BY <1>u DEF DelAt
<1>4. t.len[l] = N - 1
  <2>1. PICK M \in Nat : M = N - 1
    OBVIOUS
  <2>2. U[l] = [j \in 1 .. M |-> U[l][j]]
    BY <1>1, <1>3, <2>1
  <2>3. M \in Nat /\ l \in Lists /\ Ordered(t, U)
    OBVIOUS
  <2>4. t.len[l] = M
    BY ONLY <2>2, <2>3, OrderedLen
  <2> QED
    BY <2>1, <2>4
<1>5. \A k \in Lists : \A j \in 1 .. s.len[k] : W[k][j] = n => k = l /\ j = i
  BY OnePlace
<1>6. \A k \in Lists \ {l} : t.len[k] = s.len[k]
  <2>1. Ordered(s, W) /\ Ordered(t, U)
    OBVIOUS
  <2> QED
    BY ONLY <1>2, <2>1, SameLen
<1>7. s \in ListType /\ \A x \in Nodes \ {n} : t.data[x] = s.data[x]
  <2>1. s \in ListType
    BY OrderedFacts
  <2> QED
    BY <2>1 DEF ListType
<1>8. X.content = [V.content EXCEPT ![l] = L!Abstract!S!RemoveAt(@, i)]
  <2>1. PICK c, d : c = V.content[l] /\ d = [j \in 1 .. N - 1 |-> t.data[u[j]]]
    OBVIOUS
  <2>2. c \in Seq(Values \cup {NULL}) /\ Len(c) = N /\ c = [j \in 1 .. N |-> s.data[w[j]]]
    <3>1. Ordered(s, W) /\ Shown(s, W, g, V) /\ l \in Lists /\ N \in Nat /\ N = s.len[l]
      OBVIOUS
    <3>2. /\ V.content[l] \in Seq(Values \cup {NULL}) /\ Len(V.content[l]) = N
          /\ V.content[l] = [j \in 1 .. N |-> s.data[W[l][j]]]
      BY ONLY <3>1, ContentSeq
    <3> QED
      BY <1>1, <2>1, <3>2
  <2>3. d = DelAt(c, N, i)
    <3>1. ASSUME NEW j \in 1 .. N - 1 PROVE d[j] = IF j < i THEN c[j] ELSE c[j + 1]
      <4>1. CASE j < i
        <5>1. u[j] = w[j] /\ j \in 1 .. N /\ w[j] # n /\ w[j] \in Nodes
          BY <1>1, <1>3, <1>5, <4>1, OrderedFacts
        <5> QED
          BY <1>7, <2>1, <2>2, <4>1, <5>1
      <4>2. CASE ~ (j < i)
        <5>1. PICK x \in 1 .. N : x = j + 1
          OBVIOUS
        <5>2. u[j] = w[x] /\ w[x] # n /\ w[x] \in Nodes
          BY <1>1, <1>3, <1>5, <4>2, <5>1, OrderedFacts
        <5> QED
          BY <1>7, <2>1, <2>2, <4>2, <5>1, <5>2
      <4> QED
        BY <4>1, <4>2
    <3> QED
      BY <2>1, <3>1 DEF DelAt
  <2>4. d = L!Abstract!S!RemoveAt(c, i)
    BY <2>2, <2>3, RemoveAtIs
  <2>5. d = [j \in 1 .. t.len[l] |-> t.data[U[l][j]]]
    BY <1>1, <1>4, <2>1
  <2>6. \A k \in Lists \ {l} :
           t.len[k] = s.len[k] /\ \A j \in 1 .. s.len[k] : t.data[U[k][j]] = s.data[W[k][j]]
    <3>1. SUFFICES ASSUME NEW k \in Lists \ {l}, NEW j \in 1 .. s.len[k]
                   PROVE  t.data[U[k][j]] = s.data[W[k][j]]
      BY <1>6, Zenon
    <3>2. U[k][j] = W[k][j] /\ W[k][j] \in Nodes \ {n}
      BY <1>2, <1>5, OrderedFacts
    <3> QED
      BY <1>7, <3>2
  <2>7. X.content = [V.content EXCEPT ![l] = d]
    <3>1. Shown(s, W, g, V) /\ Shown(t, U, g, X) /\ l \in Lists
      OBVIOUS
    <3> QED
      BY ONLY <2>5, <2>6, <3>1, ContentOf
  <2> QED
    BY <2>1, <2>4, <2>7, Zenon
<1>9. ASSUME NEW q \in Handles
      PROVE  X.place[q] = IF ~ L!Abstract!Points(V.place[q], l) \/ V.place[q].index < i THEN V.place[q]
                          ELSE IF V.place[q].index = i THEN Gone ELSE Spot(l, V.place[q].index - 1)
  <2>1. CASE g[q] = NULL /\ V.place[q] = NULL
    BY <2>1, NoPoint DEF Shown
  <2>2. CASE g[q] # NULL /\ g[q] \notin s.live /\ V.place[q] = Gone
    BY <2>2, NoPoint DEF Shown
  <2>3. ASSUME NEW k \in Lists, NEW j \in 1 .. s.len[k], g[q] = W[k][j], g[q] # NULL, V.place[q] = Spot(k, j)
        PROVE  X.place[q] = IF ~ L!Abstract!Points(V.place[q], l) \/ V.place[q].index < i THEN V.place[q]
                            ELSE IF V.place[q].index = i THEN Gone ELSE Spot(l, V.place[q].index - 1)
    <3>1. V.place[q].index = j /\ (L!Abstract!Points(V.place[q], l) <=> k = l)
      BY <2>3, OrderedFacts, SpotFacts
    <3>2. CASE k # l
      <4>1. g[q] = U[k][j] /\ j \in 1 .. t.len[k]
        BY <1>2, <1>6, <2>3, <3>2
      <4> QED
        BY <2>3, <3>1, <3>2, <4>1 DEF Shown
    <3>3. CASE k = l /\ j < i
      <4>1. g[q] = U[l][j] /\ j \in 1 .. t.len[l]
        BY <1>1, <1>3, <1>4, <2>3, <3>3
      <4> QED
        BY <2>3, <3>1, <3>3, <4>1 DEF Shown
    <3>4. CASE k = l /\ i < j
      <4>1. g[q] = U[l][j - 1] /\ j - 1 \in 1 .. t.len[l]
        BY <1>1, <1>3, <1>4, <2>3, <3>4
      <4> QED
        BY <2>3, <3>1, <3>4, <4>1 DEF Shown
    <3>5. CASE k = l /\ j = i
      <4>1. g[q] \notin t.live
        BY <2>3, <3>5
      <4> QED
        BY <2>3, <3>1, <3>5, <4>1 DEF Shown
    <3> QED
      BY <3>2, <3>3, <3>4, <3>5
  <2> QED
    BY <2>1, <2>2, <2>3, ShownPlace
<1>10. X.place = [q \in Handles |-> X.place[q]]
  BY DEF Shown
<1>11. X.place = [q \in Handles |->
                    IF ~ L!Abstract!Points(V.place[q], l) \/ V.place[q].index < i THEN V.place[q]
                    ELSE IF V.place[q].index = i THEN Gone ELSE Spot(l, V.place[q].index - 1)]
  BY <1>9, <1>10
<1> QED
  BY <1>8, <1>11, Zenon DEF Removes

\* The elements after the first C are cut off, and others may come.
LEMMA KeptShown ==
  ASSUME NEW s, NEW W, Ordered(s, W), NEW l \in Lists, NEW N \in Nat, N = s.len[l], NEW C \in Nat,
         NEW t, NEW U, Ordered(t, U), \A k \in Lists \ {l} : U[k] = W[k],
         C <= t.len[l] \/ N <= t.len[l], \A j \in 1 .. N : j <= C => U[l][j] = W[l][j],
         \A j \in 1 .. N : j > C => W[l][j] \notin t.live,
         NEW g, NEW V, Shown(s, W, g, V), NEW X, Shown(t, U, g, X),
         \A q \in Handles : g[q] \notin s.live => g[q] \notin t.live
  PROVE  X.place = [q \in Handles |->
                      IF L!Abstract!Points(V.place[q], l) /\ V.place[q].index > C THEN Gone
                      ELSE V.place[q]]
<1>0. \A k \in Lists \ {l} : t.len[k] = s.len[k]
  <2>1. Ordered(s, W) /\ Ordered(t, U) /\ \A k \in Lists \ {l} : U[k] = W[k]
    OBVIOUS
  <2> QED
    BY ONLY <2>1, SameLen
<1>1. ASSUME NEW q \in Handles
      PROVE  X.place[q] = IF L!Abstract!Points(V.place[q], l) /\ V.place[q].index > C THEN Gone
                          ELSE V.place[q]
  <2>1. CASE g[q] = NULL /\ V.place[q] = NULL
    BY <2>1, NoPoint DEF Shown
  <2>2. CASE g[q] # NULL /\ g[q] \notin s.live /\ V.place[q] = Gone
    BY <2>2, NoPoint DEF Shown
  <2>3. ASSUME NEW k \in Lists, NEW j \in 1 .. s.len[k], g[q] = W[k][j], g[q] # NULL, V.place[q] = Spot(k, j)
        PROVE  X.place[q] = IF L!Abstract!Points(V.place[q], l) /\ V.place[q].index > C THEN Gone
                            ELSE V.place[q]
    <3>1. V.place[q].index = j /\ (L!Abstract!Points(V.place[q], l) <=> k = l)
      BY <2>3, OrderedFacts, SpotFacts
    <3>2. CASE k # l
      <4>1. g[q] = U[k][j] /\ j \in 1 .. t.len[k]
        BY <1>0, <2>3, <3>2
      <4> QED
        BY <2>3, <3>1, <3>2, <4>1 DEF Shown
    <3>3. CASE k = l /\ j <= C
      <4>1. t.len[l] \in Nat
        BY OrderedFacts
      <4>2. g[q] = U[l][j] /\ j \in 1 .. t.len[l]
        BY <2>3, <3>3, <4>1
      <4> QED
        BY <2>3, <3>1, <3>3, <4>2 DEF Shown
    <3>4. CASE k = l /\ j > C
      <4>1. g[q] \notin t.live
        BY <2>3, <3>4
      <4> QED
        BY <2>3, <3>1, <3>4, <4>1 DEF Shown
    <3> QED
      BY <3>2, <3>3, <3>4
  <2> QED
    BY <2>1, <2>2, <2>3, ShownPlace
<1>2. X.place = [q \in Handles |-> X.place[q]]
  BY DEF Shown
<1> QED
  BY <1>1, <1>2

\* HandleSeq clears l.
Clears(V, X, l) ==
  /\ X.content = [V.content EXCEPT ![l] = <<>>]
  /\ X.place = [q \in Handles |->
                  IF L!Abstract!Points(V.place[q], l) /\ V.place[q].index > 0 THEN Gone
                  ELSE V.place[q]]

LEMMA ClearShown ==
  ASSUME NEW s, NEW W, Ordered(s, W), NEW l \in Lists,
         NEW t, NEW U, U = [W EXCEPT ![l] = <<>>], Ordered(t, U),
         t.live = s.live \ Members(s, l), \A n \in t.live : t.data[n] = s.data[n],
         NEW g, NEW V, Shown(s, W, g, V), NEW X, Shown(t, U, g, X)
  PROVE  Clears(V, X, l)
<1>1. PICK N \in Nat : N = s.len[l]
  BY OrderedFacts
<1>2. U[l] = <<>> /\ \A k \in Lists \ {l} : U[k] = W[k]
  BY DEF Ordered
<1>3. t.len[l] = 0
  <2>1. PICK M \in Nat : M = 0
    OBVIOUS
  <2>2. U[l] = [j \in 1 .. M |-> U[l][j]] /\ M \in Nat /\ l \in Lists /\ Ordered(t, U)
    BY <1>2, <2>1
  <2>3. t.len[l] = M
    BY ONLY <2>2, OrderedLen
  <2> QED
    BY <2>1, <2>3
<1>4. \A k \in Lists \ {l} : t.len[k] = s.len[k]
  <2>1. Ordered(s, W) /\ Ordered(t, U)
    OBVIOUS
  <2> QED
    BY ONLY <1>2, <2>1, SameLen
<1>5. X.content = [V.content EXCEPT ![l] = <<>>]
  <2>0. PICK c : c = <<>>
    OBVIOUS
  <2>1. c = [j \in 1 .. t.len[l] |-> t.data[U[l][j]]]
    BY <1>3, <2>0
  <2>2. \A k \in Lists \ {l} :
           t.len[k] = s.len[k] /\ \A j \in 1 .. s.len[k] : t.data[U[k][j]] = s.data[W[k][j]]
    <3>1. SUFFICES ASSUME NEW k \in Lists \ {l}, NEW j \in 1 .. s.len[k]
                   PROVE  t.data[U[k][j]] = s.data[W[k][j]]
      BY <1>4, Zenon
    <3>2. U[k][j] = W[k][j] /\ U[k][j] \in t.live
      BY <1>2, <1>4, OrderedFacts
    <3> QED
      BY <3>2
  <2>3. Shown(s, W, g, V) /\ Shown(t, U, g, X) /\ l \in Lists
    OBVIOUS
  <2>4. X.content = [V.content EXCEPT ![l] = c]
    BY ONLY <2>1, <2>2, <2>3, ContentOf
  <2> QED
    BY <2>0, <2>4
<1>6. X.place = [q \in Handles |->
                   IF L!Abstract!Points(V.place[q], l) /\ V.place[q].index > 0 THEN Gone
                   ELSE V.place[q]]
  <2>1. \A j \in 1 .. N : W[l][j] \in Members(s, l)
    BY <1>1, OrderedFacts
  <2>2. \A j \in 1 .. N : W[l][j] \notin t.live
    BY <2>1
  <2>3. PICK C \in Nat : C = 0
    OBVIOUS
  <2>4. /\ C <= t.len[l] /\ \A j \in 1 .. N : j <= C => U[l][j] = W[l][j]
        /\ \A j \in 1 .. N : j > C => W[l][j] \notin t.live
        /\ \A q \in Handles : g[q] \notin s.live => g[q] \notin t.live
    BY <1>3, <2>2, <2>3
  <2>5. /\ Ordered(s, W) /\ l \in Lists /\ N \in Nat /\ N = s.len[l] /\ C \in Nat /\ Ordered(t, U)
        /\ \A k \in Lists \ {l} : U[k] = W[k]
        /\ Shown(s, W, g, V) /\ Shown(t, U, g, X)
    BY <1>1, <1>2
  <2>6. X.place = [q \in Handles |->
                     IF L!Abstract!Points(V.place[q], l) /\ V.place[q].index > C THEN Gone
                     ELSE V.place[q]]
    BY ONLY <2>4, <2>5, KeptShown
  <2> QED
    BY <2>3, <2>6
<1> QED
  BY <1>5, <1>6, Zenon DEF Clears

\* HandleSeq gives l the Q elements of k.
Copies(V, X, l, k, Q) ==
  /\ X.content = [V.content EXCEPT ![l] = V.content[k]]
  /\ X.place = [q \in Handles |->
                  IF L!Abstract!Points(V.place[q], l) /\ V.place[q].index > Q THEN Gone
                  ELSE V.place[q]]

LEMMA CopyShown ==
  ASSUME NEW s, NEW W, Ordered(s, W), NEW l \in Lists, NEW k \in Lists, l # k,
         NEW P \in Nat, NEW Q \in Nat, P = s.len[l], Q = s.len[k],
         NEW B \in Nat, B = IF P < Q THEN P ELSE Q,
         NEW new, NEW t, CopyMade(s, W, l, k, P, Q, B, new, t),
         NEW U, U = [W EXCEPT ![l] = Copied(@, B, new, Q)],
         NEW g, \A q \in Handles : g[q] \notin Firsts(new, Q - B),
         \A j \in 1 .. P : W[l][j] \notin Firsts(new, Q - B),
         NEW V, Shown(s, W, g, V), NEW X, Shown(t, U, g, X)
  PROVE  Copies(V, X, l, k, Q)
<1>1. PICK u : u = Copied(W[l], B, new, Q)
  OBVIOUS
<1>2. U[l] = u /\ \A j \in Lists \ {l} : U[j] = W[j]
  BY <1>1 DEF Ordered
<1>3. /\ Ordered(t, U) /\ t.live = (s.live \ {W[l][j] : j \in B + 1 .. P}) \cup Firsts(new, Q - B)
      /\ \A x \in 1 .. Q : t.data[u[x]] = s.data[W[k][x]]
      /\ \A n \in s.live \ Members(s, l) : t.data[n] = s.data[n]
  BY <1>1 DEF CopyMade
<1>4. /\ u = [x \in 1 .. Q |-> u[x]] /\ \A x \in 1 .. Q : x <= B => u[x] = W[l][x]
  BY <1>1 DEF Copied
<1>5. t.len[l] = Q
  <2>1. U[l] = [j \in 1 .. Q |-> U[l][j]] /\ Q \in Nat /\ l \in Lists /\ Ordered(t, U)
    BY <1>2, <1>3, <1>4
  <2> QED
    BY ONLY <2>1, OrderedLen
<1>6. \A j \in Lists \ {l} : t.len[j] = s.len[j]
  <2>1. Ordered(s, W)
    OBVIOUS
  <2> QED
    BY ONLY <1>2, <1>3, <2>1, SameLen
<1>7. X.content = [V.content EXCEPT ![l] = V.content[k]]
  <2>1. PICK c : c = V.content[k]
    OBVIOUS
  <2>2. c = [x \in 1 .. t.len[l] |-> t.data[U[l][x]]]
    <3>1. c = [x \in 1 .. Q |-> s.data[W[k][x]]]
      BY <2>1 DEF Shown
    <3> QED
      BY <1>2, <1>3, <1>5, <3>1
  <2>3. \A i \in Lists \ {l} :
           t.len[i] = s.len[i] /\ \A j \in 1 .. s.len[i] : t.data[U[i][j]] = s.data[W[i][j]]
    <3>1. SUFFICES ASSUME NEW i \in Lists \ {l}, NEW j \in 1 .. s.len[i]
                   PROVE  t.data[U[i][j]] = s.data[W[i][j]]
      BY <1>6, Zenon
    <3>2. U[i][j] = W[i][j] /\ W[i][j] \in s.live /\ W[i][j] \in Members(s, i)
      BY <1>2, OrderedFacts
    <3>3. W[i][j] \notin Members(s, l)
      BY <3>2, MembersApart DEF Ordered
    <3> QED
      BY <1>3, <3>2, <3>3
  <2>4. Shown(s, W, g, V) /\ Shown(t, U, g, X) /\ l \in Lists
    OBVIOUS
  <2>5. X.content = [V.content EXCEPT ![l] = c]
    BY ONLY <2>2, <2>3, <2>4, ContentOf
  <2> QED
    BY <2>1, <2>5
<1>8. \A j \in 1 .. P : j <= Q => U[l][j] = W[l][j]
  <2>1. ASSUME NEW j \in 1 .. P, j <= Q PROVE j \in 1 .. Q /\ j <= B
    BY <2>1
  <2> QED
    BY <1>2, <1>4, <2>1
<1>9. \A j \in 1 .. P : j > Q => W[l][j] \notin t.live
  <2>1. ASSUME NEW j \in 1 .. P, j > Q PROVE j \in B + 1 .. P
    BY <2>1
  <2> QED
    BY <1>3, <2>1
<1>10. \A q \in Handles : g[q] \notin s.live => g[q] \notin t.live
  BY <1>3
<1>11. /\ Ordered(s, W) /\ l \in Lists /\ P \in Nat /\ P = s.len[l] /\ Q \in Nat /\ Ordered(t, U)
       /\ \A j \in Lists \ {l} : U[j] = W[j]
       /\ Q <= t.len[l] /\ Shown(s, W, g, V) /\ Shown(t, U, g, X)
  BY <1>2, <1>3, <1>5
<1>12. X.place = [q \in Handles |->
                    IF L!Abstract!Points(V.place[q], l) /\ V.place[q].index > Q THEN Gone
                    ELSE V.place[q]]
  BY ONLY <1>8, <1>9, <1>10, <1>11, KeptShown
<1> QED
  BY <1>7, <1>12, Zenon DEF Copies

\* HandleSeq moves the elements of k to l.
Moves(V, X, l, k) ==
  /\ X.content = [V.content EXCEPT ![l] = V.content[k], ![k] = <<>>]
  /\ X.place = [q \in Handles |->
                  IF L!Abstract!Points(V.place[q], l) THEN Gone
                  ELSE IF L!Abstract!Points(V.place[q], k) THEN Spot(l, V.place[q].index)
                  ELSE V.place[q]]

LEMMA MoveShown ==
  ASSUME NEW s, NEW W, Ordered(s, W), NEW l \in Lists, NEW k \in Lists, l # k,
         NEW t, NEW U, U = [W EXCEPT ![l] = W[k], ![k] = <<>>], Ordered(t, U),
         t.live = s.live \ Members(s, l), \A n \in t.live : t.data[n] = s.data[n],
         NEW g, NEW V, Shown(s, W, g, V), NEW X, Shown(t, U, g, X)
  PROVE  Moves(V, X, l, k)
<1>1. PICK Q \in Nat : Q = s.len[k]
  BY OrderedFacts
<1>2. U[l] = W[k] /\ U[k] = <<>> /\ \A j \in Lists \ {l, k} : U[j] = W[j]
  BY DEF Ordered
<1>3. t.len[k] = 0
  <2>1. PICK M \in Nat : M = 0
    OBVIOUS
  <2>2. U[k] = [j \in 1 .. M |-> U[k][j]] /\ M \in Nat /\ k \in Lists /\ Ordered(t, U)
    BY <1>2, <2>1
  <2>3. t.len[k] = M
    BY ONLY <2>2, OrderedLen
  <2> QED
    BY <2>1, <2>3
<1>4. t.len[l] = Q
  <2>1. PICK w : w = W[k]
    OBVIOUS
  <2>2. w = [j \in 1 .. Q |-> w[j]]
    BY <1>1, <2>1 DEF Ordered, Enumerates
  <2>3. U[l] = [j \in 1 .. Q |-> U[l][j]] /\ Q \in Nat /\ l \in Lists /\ Ordered(t, U)
    BY <1>2, <2>1, <2>2
  <2> QED
    BY ONLY <2>3, OrderedLen
<1>5. \A j \in Lists \ {l, k} : t.len[j] = s.len[j]
  <2>1. Ordered(s, W) /\ Ordered(t, U)
    OBVIOUS
  <2> QED
    BY ONLY <1>2, <2>1, SameLen
<1>6. /\ X.content = [j \in Lists |-> [i \in 1 .. t.len[j] |-> t.data[U[j][i]]]]
      /\ V.content = [j \in Lists |-> [i \in 1 .. s.len[j] |-> s.data[W[j][i]]]]
  BY DEF Shown
<1>7. X.content[l] = V.content[k]
  <2>1. \A i \in 1 .. Q : t.data[U[l][i]] = s.data[W[k][i]]
    <3>1. \A i \in 1 .. Q : U[l][i] \in t.live
      BY <1>4, OrderedFacts
    <3> QED
      BY <1>2, <3>1
  <2>2. X.content[l] = [i \in 1 .. Q |-> t.data[U[l][i]]] /\ V.content[k] = [i \in 1 .. Q |-> s.data[W[k][i]]]
    BY <1>1, <1>4, <1>6
  <2> QED
    BY ONLY <2>1, <2>2
<1>8. X.content[k] = <<>>
  BY <1>3, <1>6
<1>9. ASSUME NEW j \in Lists \ {l, k} PROVE X.content[j] = V.content[j]
  <2>0. \A i \in 1 .. t.len[j] : U[j][i] \in t.live
    <3>1. j \in Lists /\ Ordered(t, U)
      OBVIOUS
    <3> QED
      BY ONLY <3>1, OrderedFacts
  <2>1. \A i \in 1 .. s.len[j] : U[j][i] \in t.live /\ U[j][i] = W[j][i]
    BY <1>2, <1>5, <2>0, Zenon
  <2>2. \A i \in 1 .. s.len[j] : t.data[U[j][i]] = s.data[W[j][i]]
    BY <2>1
  <2>3. X.content[j] = [i \in 1 .. s.len[j] |-> t.data[U[j][i]]] /\ V.content[j] = [i \in 1 .. s.len[j] |-> s.data[W[j][i]]]
    BY <1>5, <1>6
  <2> QED
    BY ONLY <2>2, <2>3
<1>10. X.content = [V.content EXCEPT ![l] = V.content[k], ![k] = <<>>]
  <2>1. X.content = [j \in Lists |-> X.content[j]] /\ V.content = [j \in Lists |-> V.content[j]]
    BY <1>6
  <2> QED
    BY <1>7, <1>8, <1>9, <2>1
<1>11. ASSUME NEW q \in Handles
       PROVE  X.place[q] = IF L!Abstract!Points(V.place[q], l) THEN Gone
                           ELSE IF L!Abstract!Points(V.place[q], k) THEN Spot(l, V.place[q].index)
                           ELSE V.place[q]
  <2>1. CASE g[q] = NULL /\ V.place[q] = NULL
    BY <2>1, NoPoint DEF Shown
  <2>2. CASE g[q] # NULL /\ g[q] \notin s.live /\ V.place[q] = Gone
    BY <2>2, NoPoint DEF Shown
  <2>3. ASSUME NEW j \in Lists, NEW i \in 1 .. s.len[j], g[q] = W[j][i], g[q] # NULL, V.place[q] = Spot(j, i)
        PROVE  X.place[q] = IF L!Abstract!Points(V.place[q], l) THEN Gone
                            ELSE IF L!Abstract!Points(V.place[q], k) THEN Spot(l, V.place[q].index)
                            ELSE V.place[q]
    <3>1. /\ V.place[q].index = i /\ (L!Abstract!Points(V.place[q], l) <=> l = j)
          /\ L!Abstract!Points(V.place[q], k) <=> k = j
      BY <2>3, OrderedFacts, SpotFacts
    <3>2. CASE j \notin {l, k}
      <4>1. g[q] = U[j][i] /\ i \in 1 .. t.len[j]
        BY <1>2, <1>5, <2>3, <3>2
      <4> QED
        BY <2>3, <3>1, <3>2, <4>1 DEF Shown
    <3>3. CASE j = l
      <4>1. g[q] \notin t.live
        BY <2>3, <3>3, OrderedFacts
      <4> QED
        BY <2>3, <3>1, <3>3, <4>1 DEF Shown
    <3>4. CASE j = k
      <4>1. g[q] = U[l][i] /\ i \in 1 .. t.len[l]
        BY <1>1, <1>2, <1>4, <2>3, <3>4
      <4> QED
        BY <2>3, <3>1, <3>4, <4>1 DEF Shown
    <3> QED
      BY <3>2, <3>3, <3>4
  <2> QED
    BY <2>1, <2>2, <2>3, ShownPlace
<1>12. X.place = [q \in Handles |-> X.place[q]]
  BY DEF Shown
<1>13. X.place = [q \in Handles |->
                    IF L!Abstract!Points(V.place[q], l) THEN Gone
                    ELSE IF L!Abstract!Points(V.place[q], k) THEN Spot(l, V.place[q].index)
                    ELSE V.place[q]]
  BY <1>11, <1>12
<1> QED
  BY <1>10, <1>13, Zenon DEF Moves

\* HandleSeq sets the i-th element of l.
Sets(V, X, l, i, v) ==
  /\ X.content = [V.content EXCEPT ![l][i] = v]
  /\ X.place = V.place

LEMMA WriteShown ==
  ASSUME NEW s, NEW W, Ordered(s, W), NEW l \in Lists, NEW i \in 1 .. s.len[l], NEW v,
         NEW t, Ordered(t, W), t.live = s.live, t.data = [s.data EXCEPT ![W[l][i]] = v],
         NEW g, NEW V, Shown(s, W, g, V), NEW X, Shown(t, W, g, X)
  PROVE  Sets(V, X, l, i, v)
<1>1. \A k \in Lists : t.len[k] = s.len[k]
  <2>1. Ordered(s, W) /\ Ordered(t, W)
    OBVIOUS
  <2> QED
    BY ONLY <2>1, SameLen
<1>2. PICK n, N : n = W[l][i] /\ N = s.len[l]
  OBVIOUS
<1>3. t.data[n] = v /\ \A x \in Nodes \ {n} : t.data[x] = s.data[x]
  <2>1. s \in ListType /\ n \in Nodes
    BY <1>2, OrderedFacts
  <2> QED
    BY <1>2, <2>1 DEF ListType
<1>4. X.content = [V.content EXCEPT ![l][i] = v]
  <2>1. PICK c, d : c = V.content[l] /\ d = [c EXCEPT ![i] = v]
    OBVIOUS
  <2>2. c = [j \in 1 .. N |-> s.data[W[l][j]]]
    BY <1>2, <2>1 DEF Shown
  <2>3. ASSUME NEW j \in 1 .. N, j # i PROVE W[l][j] \in Nodes \ {n}
    BY <1>2, <2>3, OrderedFacts, OnePlace
  <2>4. d = [j \in 1 .. N |-> t.data[W[l][j]]]
    <3>1. \A j \in 1 .. N : d[j] = t.data[W[l][j]]
      BY <1>2, <1>3, <2>1, <2>2, <2>3
    <3>2. d = [j \in 1 .. N |-> d[j]]
      BY <2>1, <2>2
    <3> QED
      BY ONLY <3>1, <3>2
  <2>5. d = [j \in 1 .. t.len[l] |-> t.data[W[l][j]]]
    BY <1>1, <1>2, <2>4
  <2>6. \A k \in Lists \ {l} :
           t.len[k] = s.len[k] /\ \A j \in 1 .. s.len[k] : t.data[W[k][j]] = s.data[W[k][j]]
    <3>1. SUFFICES ASSUME NEW k \in Lists \ {l}, NEW j \in 1 .. s.len[k]
                   PROVE  t.data[W[k][j]] = s.data[W[k][j]]
      BY <1>1, Zenon
    <3>2. W[k][j] \in Nodes \ {n}
      BY <1>2, OrderedFacts, OnePlace
    <3> QED
      BY <1>3, <3>2
  <2>7. Shown(s, W, g, V) /\ Shown(t, W, g, X) /\ l \in Lists
    OBVIOUS
  <2>8. X.content = [V.content EXCEPT ![l] = d]
    BY ONLY <2>5, <2>6, <2>7, ContentOf
  <2> QED
    BY <2>1, <2>8, Zenon
<1>5. ASSUME NEW q \in Handles PROVE X.place[q] = V.place[q]
  <2>1. CASE g[q] = NULL /\ V.place[q] = NULL
    BY <2>1 DEF Shown
  <2>2. CASE g[q] # NULL /\ g[q] \notin s.live /\ V.place[q] = Gone
    BY <2>2 DEF Shown
  <2>3. ASSUME NEW k \in Lists, NEW j \in 1 .. s.len[k], g[q] = W[k][j], V.place[q] = Spot(k, j)
        PROVE  X.place[q] = V.place[q]
    BY <1>1, <2>3 DEF Shown
  <2> QED
    BY <2>1, <2>2, <2>3, ShownPlace
<1>6. X.place = [q \in Handles |-> X.place[q]] /\ V.place = [q \in Handles |-> V.place[q]]
  BY DEF Shown
<1>7. X.place = V.place
  BY <1>5, <1>6
<1> QED
  BY <1>4, <1>7, Zenon DEF Sets

\* The handle h comes to n: to an element, to nothing, or to where another handle is.
Pointed(s, W, g, V, h, n, X) ==
  /\ X.content = V.content
  /\ n = NULL => X.place = [V.place EXCEPT ![h] = NULL]
  /\ \A l \in Lists : \A i \in 1 .. s.len[l] :
       n = W[l][i] => X.place = [V.place EXCEPT ![h] = Spot(l, i)]
  /\ \A q \in Handles : n = g[q] => X.place = [V.place EXCEPT ![h] = V.place[q]]

LEMMA PointShown ==
  ASSUME NEW s, NEW W, Ordered(s, W), NEW g, g = [q \in Handles |-> g[q]], NEW V, Shown(s, W, g, V),
         NEW h \in Handles, NEW n, NEW e, e = [g EXCEPT ![h] = n], NEW X, Shown(s, W, e, X)
  PROVE  Pointed(s, W, g, V, h, n, X)
<1>2. e[h] = n /\ \A q \in Handles \ {h} : e[q] = g[q]
  OBVIOUS
<1>3. Shown(s, W, e, X)
  OBVIOUS
<1>4. X.content = V.content
  BY DEF Shown
<1>5. X.place = [q \in Handles |-> X.place[q]] /\ V.place = [q \in Handles |-> V.place[q]]
  BY DEF Shown
<1>6. ASSUME NEW q \in Handles, NEW r \in Handles, e[r] = g[q] PROVE X.place[r] = V.place[q]
  <2>1. CASE g[q] = NULL /\ V.place[q] = NULL
    BY <1>3, <1>6, <2>1 DEF Shown
  <2>2. CASE g[q] # NULL /\ g[q] \notin s.live /\ V.place[q] = Gone
    BY <1>3, <1>6, <2>2 DEF Shown
  <2>3. ASSUME NEW k \in Lists, NEW j \in 1 .. s.len[k], g[q] = W[k][j], V.place[q] = Spot(k, j)
        PROVE  X.place[r] = V.place[q]
    BY <1>3, <1>6, <2>3 DEF Shown
  <2> QED
    BY <2>1, <2>2, <2>3, ShownPlace
<1>7. \A q \in Handles \ {h} : X.place[q] = V.place[q]
  BY <1>2, <1>6
<1>8. ASSUME NEW p, X.place[h] = p PROVE X.place = [V.place EXCEPT ![h] = p]
  BY <1>5, <1>7, <1>8
<1>9. n = NULL => X.place[h] = NULL
  BY <1>2, <1>3 DEF Shown
<1>10. ASSUME NEW l \in Lists, NEW i \in 1 .. s.len[l], n = W[l][i] PROVE X.place[h] = Spot(l, i)
  BY <1>2, <1>3, <1>10 DEF Shown
<1>11. \A q \in Handles : n = g[q] => X.place[h] = V.place[q]
  BY <1>2, <1>6
<1>12. n = NULL => X.place = [V.place EXCEPT ![h] = NULL]
  BY <1>8, <1>9
<1>13. ASSUME NEW l \in Lists, NEW i \in 1 .. s.len[l], n = W[l][i]
       PROVE  X.place = [V.place EXCEPT ![h] = Spot(l, i)]
  BY <1>8, <1>10, <1>13
<1>14. ASSUME NEW q \in Handles, n = g[q] PROVE X.place = [V.place EXCEPT ![h] = V.place[q]]
  BY <1>8, <1>11, <1>14
<1> QED
  BY <1>4, <1>12, <1>13, <1>14 DEF Pointed

(***************************************************************************)
(* The list: every step is one of HandleSeq                                *)
(***************************************************************************)
RefInv == ListInv /\ view = L!View(m, handle)

LEMMA RefFacts ==
  ASSUME RefInv
  PROVE  /\ ListInv /\ handle = [q \in Handles |-> handle[q]]
         /\ \E W : Ordered(m, W) /\ Shown(m, W, handle, view)
<1>1. ListInv /\ handle = [q \in Handles |-> handle[q]] /\ ListsGood(m)
  BY ListInvFacts DEF RefInv
<1>2. PICK W : W = [l \in Lists |-> L!Walk(m, l)]
  OBVIOUS
<1>3. Ordered(m, W)
  BY <1>1, <1>2, WalksOrdered
<1>4. Shown(m, W, handle, view)
  BY <1>3, ViewShown DEF RefInv
<1> QED
  BY <1>1, <1>3, <1>4

LEMMA BecomeShown ==
  ASSUME NEW s, NEW g, L!Become(s, g), NEW U, Ordered(s, U)
  PROVE  Shown(s, U, g, view')
<1>1. view' = L!View(s, g)
  BY DEF L!Become
<1> QED
  BY <1>1, ViewShown

LEMMA AbstractInsert ==
  ASSUME RefInv, NEW W, Ordered(m, W), Shown(m, W, handle, view),
         NEW l \in Lists, NEW v \in Values, NEW h \in Handles, NEW N \in Nat, N = m.len[l],
         NEW i \in 1 .. N + 1, NEW p, NEW n, Around(W[l], N, i, p, n), L!HasRoom(1),
         L!Become(L!CreateNode(m, l, p, n, L!FreshNode, v), [handle EXCEPT ![h] = L!FreshNode])
  PROVE  L!Abstract!Next
<1>1. PICK new : new = L!FreshNode
  OBVIOUS
<1>2. /\ new \in Nodes \ m.live /\ \A q \in Handles : handle[q] # new
      /\ handle = [q \in Handles |-> handle[q]]
  <2>1. ListInv /\ handle = [q \in Handles |-> handle[q]]
    BY RefFacts
  <2>2. new \in Nodes /\ new \notin m.live \cup tomb
    BY <1>1, <2>1, FreshNodeThere
  <2>3. new # NULL
    BY <2>2, ListConstants
  <2> QED
    BY <2>1, <2>2, <2>3, ListInvFacts
<1>3. PICK s, g, U : /\ s = L!CreateNode(m, l, p, n, new, v) /\ g = [handle EXCEPT ![h] = new]
                     /\ U = [W EXCEPT ![l] = InsAt(@, N, i, new)]
  OBVIOUS
<1>4. /\ Ordered(s, U) /\ s.live = m.live \cup {new} /\ s.data = [m.data EXCEPT ![new] = v]
  <2>1. v \in Values \cup {NULL} /\ s = L!CreateNode(m, l, p, n, new, v)
    BY <1>3
  <2>2. /\ Ordered(m, W) /\ l \in Lists /\ new \in Nodes \ m.live /\ N \in Nat /\ N = m.len[l]
        /\ i \in 1 .. N + 1 /\ Around(W[l], N, i, p, n)
    BY <1>2
  <2>3. /\ Ordered(s, [W EXCEPT ![l] = InsAt(@, N, i, new)])
        /\ s.live = m.live \cup {new} /\ s.data = [m.data EXCEPT ![new] = v]
    BY ONLY <2>1, <2>2, CreateOrder
  <2> QED
    BY <1>3, <2>3
<1>5. L!Become(s, g)
  BY <1>1, <1>3
<1>6. Shown(s, U, g, view')
  BY <1>4, <1>5, BecomeShown
<1>7. Inserts(view, view', l, i, v, h)
  <2>1. PICK c, d, V, X : c = m /\ d = handle /\ V = view /\ X = view'
    OBVIOUS
  <2>2. /\ Ordered(c, W) /\ l \in Lists /\ N \in Nat /\ N = c.len[l] /\ i \in 1 .. N + 1
        /\ new \in Nodes \ c.live /\ v \in Values
        /\ U = [W EXCEPT ![l] = InsAt(@, N, i, new)] /\ Ordered(s, U)
        /\ s.live = c.live \cup {new} /\ s.data = [c.data EXCEPT ![new] = v]
        /\ d = [q \in Handles |-> d[q]] /\ Shown(c, W, d, V) /\ \A q \in Handles : d[q] # new
        /\ h \in Handles /\ g = [d EXCEPT ![h] = new] /\ Shown(s, U, g, X)
    BY <1>2, <1>3, <1>4, <1>6, <2>1
  <2>3. Inserts(V, X, l, i, v, h)
    BY ONLY <2>2, InsertShown
  <2> QED
    BY <2>1, <2>3, Zenon
<1>8. L!Abstract!Insert(l, i, v, h)
  BY <1>7, Zenon DEF Inserts, L!Abstract!Insert, L!Abstract!Inserted, L!Abstract!At, Spot
<1>9. i \in 1 .. Len(view.content[l]) + 1
  <2>1. /\ Ordered(m, W) /\ l \in Lists /\ N \in Nat /\ N = m.len[l] /\ Shown(m, W, handle, view)
    OBVIOUS
  <2>2. /\ view.content[l] \in Seq(Values \cup {NULL}) /\ Len(view.content[l]) = N
        /\ view.content[l] = [j \in 1 .. N |-> m.data[W[l][j]]]
    BY ONLY <2>1, ContentSeq
  <2> QED
    BY <2>2
<1> QED
  BY <1>8, <1>9, Zenon DEF L!Abstract!Next

\* A handle that a list takes is at one of its places.
LEMMA CheckedPlace ==
  ASSUME NEW W, Ordered(m, W), NEW l \in Lists, NEW h, L!Check(h, l)
  PROVE  \E i \in 1 .. m.len[l] : handle[h] = W[l][i]
<1>1. handle[h] \in Members(m, l)
  BY CheckedIsMember
<1> QED
  BY <1>1 DEF Ordered, Enumerates

LEMMA InsertIsStep ==
  ASSUME RefInv, NEW l \in Lists, NEW v \in Values, NEW h \in Handles,
         \/ L!PushFront(l, v, h) \/ L!PushBackCall(l, v, h)
         \/ \E g \in Handles : L!InsertBefore(l, g, v, h) \/ L!InsertAfter(l, g, v, h)
  PROVE  L!Abstract!Next
<1>1. PICK W : Ordered(m, W) /\ Shown(m, W, handle, view)
  BY RefFacts
<1>2. PICK N \in Nat : N = m.len[l]
  BY <1>1, OrderedFacts
<1>2w. PICK w : w = W[l]
  OBVIOUS
<1>3. /\ m.head[l] = IF N = 0 THEN NULL ELSE w[1]
      /\ m.tail[l] = IF N = 0 THEN NULL ELSE w[N]
      /\ \A i \in 1 .. N : /\ m.prev[w[i]] = IF i = 1 THEN NULL ELSE w[i - 1]
                           /\ m.next[w[i]] = IF i = N THEN NULL ELSE w[i + 1]
  BY <1>1, <1>2, <1>2w, OrderedLinks
<1>4. CASE L!PushFront(l, v, h)
  <2>1. PICK i \in 1 .. N + 1 : i = 1
    OBVIOUS
  <2>2. Around(W[l], N, i, NULL, m.head[l])
    BY <1>2, <1>2w, <1>3, <2>1 DEF Around
  <2> QED
    BY <1>1, <1>2, <1>2w, <1>4, <2>2, AbstractInsert DEF L!PushFront
<1>5. CASE L!PushBackCall(l, v, h)
  <2>1. PICK i \in 1 .. N + 1 : i = N + 1
    OBVIOUS
  <2>2. Around(W[l], N, i, m.tail[l], NULL)
    BY <1>2, <1>2w, <1>3, <2>1 DEF Around
  <2> QED
    BY <1>1, <1>2, <1>2w, <1>5, <2>2, AbstractInsert DEF L!PushBackCall, L!PushBack
<1>6. ASSUME NEW at \in Handles, L!InsertBefore(l, at, v, h) PROVE L!Abstract!Next
  <2>1. PICK i \in 1 .. N : handle[at] = w[i]
    BY <1>1, <1>2, <1>2w, <1>6, CheckedPlace DEF L!InsertBefore
  <2>2. Around(W[l], N, i, m.prev[handle[at]], handle[at]) /\ i \in 1 .. N + 1
    BY <1>2, <1>2w, <1>3, <2>1 DEF Around
  <2> QED
    BY <1>1, <1>2, <1>2w, <1>6, <2>2, AbstractInsert DEF L!InsertBefore
<1>7. ASSUME NEW at \in Handles, L!InsertAfter(l, at, v, h) PROVE L!Abstract!Next
  <2>1. PICK j \in 1 .. N : handle[at] = w[j]
    BY <1>1, <1>2, <1>2w, <1>7, CheckedPlace DEF L!InsertAfter
  <2>2. PICK i \in 1 .. N + 1 : i = j + 1
    OBVIOUS
  <2>3. Around(W[l], N, i, handle[at], m.next[handle[at]])
    BY <1>2, <1>2w, <1>3, <2>1, <2>2 DEF Around
  <2> QED
    BY <1>1, <1>2, <1>2w, <1>7, <2>3, AbstractInsert DEF L!InsertAfter
<1> QED
  BY <1>4, <1>5, <1>6, <1>7

LEMMA ContentLength ==
  ASSUME NEW W, Ordered(m, W), Shown(m, W, handle, view), NEW l \in Lists
  PROVE  Len(view.content[l]) = m.len[l] /\ DOMAIN view.content[l] = 1 .. m.len[l]
<1>1. PICK N \in Nat : N = m.len[l]
  BY OrderedFacts
<1>2. /\ Ordered(m, W) /\ l \in Lists /\ N \in Nat /\ N = m.len[l] /\ Shown(m, W, handle, view)
  BY <1>1
<1>3. /\ view.content[l] \in Seq(Values \cup {NULL}) /\ Len(view.content[l]) = N
      /\ view.content[l] = [j \in 1 .. N |-> m.data[W[l][j]]]
  BY ONLY <1>2, ContentSeq
<1> QED
  BY <1>1, <1>3

LEMMA AbstractRemove ==
  ASSUME RefInv, NEW W, Ordered(m, W), Shown(m, W, handle, view),
         NEW l \in Lists, NEW i \in 1 .. m.len[l], NEW n, n = W[l][i],
         L!Become(L!RemoveNode(m, l, n), handle)
  PROVE  L!Abstract!Next
<1>1. PICK N \in Nat : N = m.len[l]
  BY OrderedFacts
<1>2. PICK s, U : s = L!RemoveNode(m, l, n) /\ U = [W EXCEPT ![l] = DelAt(@, N, i)]
  OBVIOUS
<1>3. PICK c, d, V, X : c = m /\ d = handle /\ V = view /\ X = view'
  OBVIOUS
<1>4. /\ Ordered(c, W) /\ l \in Lists /\ N \in Nat /\ N = c.len[l] /\ i \in 1 .. N
      /\ n = W[l][i] /\ s = L!RemoveNode(c, l, n)
  BY <1>1, <1>2, <1>3
<1>5. /\ Ordered(s, [W EXCEPT ![l] = DelAt(@, N, i)])
      /\ s.live = c.live \ {n} /\ s.data = [c.data EXCEPT ![n] = NULL]
  BY ONLY <1>4, RemoveOrder
<1>6. Ordered(s, U)
  BY <1>2, <1>5
<1>7. Shown(s, U, d, X) /\ Shown(c, W, d, V)
  <2>1. L!Become(s, handle)
    BY <1>2
  <2>2. Shown(s, U, handle, view')
    BY <1>6, <2>1, BecomeShown
  <2> QED
    BY <1>3, <2>2
<1>8. Removes(V, X, l, i)
  BY ONLY <1>2, <1>4, <1>5, <1>6, <1>7, RemoveShown
<1>9. L!Abstract!Remove(l, i)
  <2>1. Removes(view, view', l, i)
    BY <1>3, <1>8
  <2> QED
    BY <2>1, Zenon DEF Removes, L!Abstract!Remove, L!Abstract!Removed, L!Abstract!At, Spot
<1>10. i \in 1 .. Len(view.content[l])
  BY ContentLength
<1> QED
  BY <1>9, <1>10, Zenon DEF L!Abstract!Next

LEMMA RemoveIsStep ==
  ASSUME RefInv, NEW l \in Lists, L!PopEnd(l) \/ \E h \in Handles : L!Remove(l, h)
  PROVE  L!Abstract!Next
<1>1. PICK W : Ordered(m, W) /\ Shown(m, W, handle, view)
  BY RefFacts
<1>2. PICK N \in Nat : N = m.len[l]
  BY <1>1, OrderedFacts
<1>2w. PICK w : w = W[l]
  OBVIOUS
<1>3. /\ m.head[l] = IF N = 0 THEN NULL ELSE w[1]
      /\ m.tail[l] = IF N = 0 THEN NULL ELSE w[N]
  BY <1>1, <1>2, <1>2w, OrderedLinks
<1>4. CASE L!PopEnd(l)
  <2>1. PICK n \in {m.head[l], m.tail[l]} : L!Become(L!RemoveNode(m, l, n), handle)
    BY <1>4 DEF L!PopEnd
  <2>2. N # 0
    BY <1>3, <1>4 DEF L!PopEnd
  <2>3. PICK i \in 1 .. N : n = w[i]
    BY <1>3, <2>1, <2>2
  <2>4. i \in 1 .. m.len[l] /\ n = W[l][i]
    BY <1>2, <1>2w, <2>3
  <2> QED
    BY <1>1, <2>1, <2>4, AbstractRemove
<1>5. ASSUME NEW h \in Handles, L!Remove(l, h) PROVE L!Abstract!Next
  <2>1. PICK i \in 1 .. m.len[l] : handle[h] = W[l][i]
    BY <1>1, <1>5, CheckedPlace DEF L!Remove
  <2>2. PICK n : n = handle[h]
    OBVIOUS
  <2>3. L!Become(L!RemoveNode(m, l, n), handle) /\ n = W[l][i]
    BY <1>5, <2>1, <2>2 DEF L!Remove
  <2> QED
    BY <1>1, <2>3, AbstractRemove
<1> QED
  BY <1>4, <1>5

LEMMA WriteIsStep ==
  ASSUME RefInv, NEW l \in Lists, NEW h \in Handles, NEW v \in Values, L!Write(l, h, v)
  PROVE  L!Abstract!Next
<1>1. PICK W : Ordered(m, W) /\ Shown(m, W, handle, view)
  BY RefFacts
<1>2. PICK i \in 1 .. m.len[l] : handle[h] = W[l][i]
  BY <1>1, CheckedPlace DEF L!Write
<1>3. PICK f : f = [m.data EXCEPT ![W[l][i]] = v]
  OBVIOUS
<1>4. PICK s : s = [m EXCEPT !.data = f]
  OBVIOUS
<1>5. m \in ListType /\ f \in [Nodes -> Values \cup {NULL}]
  <2>1. m \in ListType
    BY <1>1, OrderedFacts
  <2> QED
    BY <1>3, <2>1 DEF ListType
<1>6. Ordered(s, W) /\ s.live = m.live /\ s.data = f
  BY <1>1, <1>4, <1>5, DataOrder
<1>7. L!Become(s, handle)
  BY <1>2, <1>3, <1>4, <1>5 DEF L!Write, ListType
<1>8. Shown(s, W, handle, view')
  BY <1>6, <1>7, BecomeShown
<1>9. PICK c, d, V, X : c = m /\ d = handle /\ V = view /\ X = view'
  OBVIOUS
<1>10. /\ Ordered(c, W) /\ l \in Lists /\ i \in 1 .. c.len[l] /\ Ordered(s, W) /\ s.live = c.live
       /\ s.data = [c.data EXCEPT ![W[l][i]] = v] /\ Shown(c, W, d, V) /\ Shown(s, W, d, X)
  BY <1>1, <1>3, <1>6, <1>8, <1>9
<1>11. Sets(V, X, l, i, v)
  BY ONLY <1>10, WriteShown
<1>12. L!Abstract!Set(l, i, v)
  <2>1. Sets(view, view', l, i, v)
    BY <1>9, <1>11
  <2> QED
    BY <2>1, Zenon DEF Sets, L!Abstract!Set
<1>13. i \in 1 .. Len(view.content[l])
  BY <1>1, ContentLength
<1> QED
  BY <1>12, <1>13, Zenon DEF L!Abstract!Next

LEMMA ClearIsStep ==
  ASSUME RefInv, NEW l \in Lists, L!Clear(l)
  PROVE  L!Abstract!Next
<1>1. PICK W : Ordered(m, W) /\ Shown(m, W, handle, view)
  BY RefFacts
<1>2. PICK s, U : s = L!ClearAll(m, l) /\ U = [W EXCEPT ![l] = <<>>]
  OBVIOUS
<1>3. PICK c, d, V, X : c = m /\ d = handle /\ V = view /\ X = view'
  OBVIOUS
<1>4. Ordered(c, W) /\ l \in Lists /\ s = L!ClearAll(c, l)
  BY <1>1, <1>2, <1>3
<1>5. /\ Ordered(s, [W EXCEPT ![l] = <<>>]) /\ s.live = c.live \ Members(c, l)
      /\ \A n \in s.live : s.data[n] = c.data[n]
  BY ONLY <1>4, ClearOrder
<1>6. Ordered(s, U)
  BY <1>2, <1>5
<1>7. Shown(s, U, d, X) /\ Shown(c, W, d, V)
  <2>1. L!Become(s, handle)
    BY <1>2 DEF L!Clear
  <2>2. Shown(s, U, handle, view')
    BY <1>6, <2>1, BecomeShown
  <2> QED
    BY <1>1, <1>3, <2>2
<1>8. Clears(V, X, l)
  BY ONLY <1>2, <1>4, <1>5, <1>6, <1>7, ClearShown
<1>9. L!Abstract!Clear(l)
  <2>1. Clears(view, view', l)
    BY <1>3, <1>8
  <2> QED
    BY <2>1, Zenon DEF Clears, L!Abstract!Clear, L!Abstract!Kept
<1> QED
  BY <1>9, Zenon DEF L!Abstract!Next

LEMMA MoveIsStep ==
  ASSUME RefInv, NEW l \in Lists, NEW k \in Lists, L!Move(l, k)
  PROVE  L!Abstract!Next
<1>1. PICK W : Ordered(m, W) /\ Shown(m, W, handle, view)
  BY RefFacts
<1>2. PICK s, U : s = L!MoveAssigned(m, l, k, ids) /\ U = [W EXCEPT ![l] = W[k], ![k] = <<>>]
  OBVIOUS
<1>3. PICK c, d, V, X, z : c = m /\ d = handle /\ V = view /\ X = view' /\ z = ids
  OBVIOUS
<1>4. /\ Ordered(c, W) /\ l \in Lists /\ k \in Lists /\ l # k /\ z \in 0 .. MaxId
      /\ \A j \in Lists : c.id[j] < z /\ s = L!MoveAssigned(c, l, k, z)
  <2>1. ListInv /\ ids <= MaxId /\ l # k
    BY RefFacts DEF L!Move
  <2>2. ids \in 0 .. MaxId + 1 /\ \A j \in Lists : m.id[j] < ids
    BY <2>1, ListInvFacts
  <2> QED
    BY <1>1, <1>2, <1>3, <2>1, <2>2, ListConstants
<1>5. /\ Ordered(s, [W EXCEPT ![l] = W[k], ![k] = <<>>]) /\ s.live = c.live \ Members(c, l)
      /\ \A n \in s.live : s.data[n] = c.data[n]
  BY ONLY <1>4, MoveOrder
<1>6. Ordered(s, U)
  BY <1>2, <1>5
<1>7. Shown(s, U, d, X) /\ Shown(c, W, d, V)
  <2>1. L!Become(s, handle)
    BY <1>2 DEF L!Move
  <2>2. Shown(s, U, handle, view')
    BY <1>6, <2>1, BecomeShown
  <2> QED
    BY <1>1, <1>3, <2>2
<1>8. Moves(V, X, l, k)
  BY ONLY <1>2, <1>4, <1>5, <1>6, <1>7, MoveShown
<1>9. L!Abstract!Move(l, k)
  <2>1. Moves(view, view', l, k)
    BY <1>3, <1>8
  <2> QED
    BY <1>4, <2>1, Zenon DEF Moves, L!Abstract!Move, L!Abstract!At, Spot
<1> QED
  BY <1>9, Zenon DEF L!Abstract!Next

LEMMA AbstractPoint ==
  ASSUME RefInv, NEW W, Ordered(m, W), Shown(m, W, handle, view), NEW l \in Lists, NEW h \in Handles, NEW n,
         \/ n = NULL
         \/ \E i \in 1 .. m.len[l] : n = W[l][i]
         \/ \E q \in Handles : n = handle[q],
         L!Become(m, [handle EXCEPT ![h] = n])
  PROVE  L!Abstract!Next
<1>1. PICK c, d, V, X, e : /\ c = m /\ d = handle /\ V = view /\ X = view'
                           /\ e = [handle EXCEPT ![h] = n]
  OBVIOUS
<1>2. /\ Ordered(c, W) /\ d = [q \in Handles |-> d[q]] /\ Shown(c, W, d, V)
      /\ h \in Handles /\ e = [d EXCEPT ![h] = n] /\ Shown(c, W, e, X)
  <2>1. L!Become(m, e)
    BY <1>1
  <2>2. Shown(m, W, e, view')
    BY <2>1, BecomeShown
  <2> QED
    BY <1>1, <2>2, RefFacts
<1>p. Pointed(c, W, d, V, h, n, X)
  BY ONLY <1>2, PointShown
<1>3. X.content = V.content
  BY <1>p DEF Pointed
<1>4. ASSUME NEW p, X.place = [V.place EXCEPT ![h] = p] PROVE L!Abstract!Point(h, p)
  BY <1>1, <1>3, <1>4 DEF L!Abstract!Point
<1>5. CASE n = NULL
  <2>1. L!Abstract!Point(h, NULL)
    BY <1>p, <1>4, <1>5 DEF Pointed
  <2> QED
    BY <2>1, Zenon DEF L!Abstract!Next
<1>6. ASSUME NEW i \in 1 .. m.len[l], n = W[l][i] PROVE L!Abstract!Next
  <2>1. X.place = [V.place EXCEPT ![h] = Spot(l, i)]
    BY <1>p, <1>1, <1>6 DEF Pointed
  <2>3. L!Abstract!Point(h, Spot(l, i))
    BY <1>4, <2>1
  <2>2. i \in 1 .. Len(view.content[l]) /\ L!Abstract!At(l, i) = Spot(l, i)
    BY ContentLength DEF L!Abstract!At, Spot
  <2> QED
    BY <2>2, <2>3, Zenon DEF L!Abstract!Next
<1>7. ASSUME NEW q \in Handles, n = handle[q] PROVE L!Abstract!Next
  <2>1. L!Abstract!Point(h, view.place[q])
    <3>1. X.place = [V.place EXCEPT ![h] = V.place[q]]
      BY <1>p, <1>1, <1>7 DEF Pointed
    <3> QED
      BY <1>1, <1>4, <3>1
  <2>2. view.place[q] \in L!Abstract!S!Range(view.place)
    BY DEF Shown, L!Abstract!S!Range
  <2> QED
    BY <2>1, <2>2, Zenon DEF L!Abstract!Next
<1> QED
  BY <1>5, <1>6, <1>7

LEMMA PointIsStep ==
  ASSUME RefInv, NEW l \in Lists, NEW h \in Handles,
         \/ L!Ends(l, h)
         \/ \E g \in Handles : L!Step(l, g, h) \/ L!CopyHandle(h, g)
         \/ L!DropHandle(h)
  PROVE  L!Abstract!Next
<1>1. PICK W : Ordered(m, W) /\ Shown(m, W, handle, view)
  BY RefFacts
<1>2. PICK N \in Nat : N = m.len[l]
  BY <1>1, OrderedFacts
<1>2w. PICK w : w = W[l]
  OBVIOUS
<1>3. /\ m.head[l] = IF N = 0 THEN NULL ELSE w[1]
      /\ m.tail[l] = IF N = 0 THEN NULL ELSE w[N]
      /\ \A i \in 1 .. N : /\ m.prev[w[i]] = IF i = 1 THEN NULL ELSE w[i - 1]
                           /\ m.next[w[i]] = IF i = N THEN NULL ELSE w[i + 1]
  BY <1>1, <1>2, <1>2w, OrderedLinks
<1>4. CASE L!Ends(l, h)
  <2>1. PICK n \in {m.head[l], m.tail[l]} : L!Become(m, [handle EXCEPT ![h] = n])
    BY <1>4 DEF L!Ends
  <2>2. n = NULL \/ \E i \in 1 .. m.len[l] : n = W[l][i]
    BY <1>2, <1>2w, <1>3, <2>1
  <2> QED
    BY <1>1, <2>1, <2>2, AbstractPoint
<1>5. ASSUME NEW g \in Handles, L!Step(l, g, h) PROVE L!Abstract!Next
  <2>1. PICK n \in {m.prev[handle[g]], m.next[handle[g]]} : L!Become(m, [handle EXCEPT ![h] = n])
    BY <1>5 DEF L!Step
  <2>2. PICK j \in 1 .. N : handle[g] = w[j]
    BY <1>1, <1>2, <1>2w, <1>5, CheckedPlace DEF L!Step
  <2>3. n = NULL \/ \E i \in 1 .. N : n = w[i]
    BY <1>3, <2>1, <2>2
  <2>4. n = NULL \/ \E i \in 1 .. m.len[l] : n = W[l][i]
    BY <1>2, <1>2w, <2>3
  <2> QED
    BY <1>1, <2>1, <2>4, AbstractPoint
<1>6. ASSUME NEW g \in Handles, L!CopyHandle(h, g) PROVE L!Abstract!Next
  <2>1. PICK n : n = handle[g]
    OBVIOUS
  <2>2. L!Become(m, [handle EXCEPT ![h] = n]) /\ \E q \in Handles : n = handle[q]
    BY <1>6, <2>1 DEF L!CopyHandle
  <2> QED
    BY <1>1, <2>2, AbstractPoint
<1>7. CASE L!DropHandle(h)
  <2>1. PICK n : n = NULL
    OBVIOUS
  <2>2. L!Become(m, [handle EXCEPT ![h] = n])
    BY <1>7, <2>1 DEF L!DropHandle
  <2> QED
    BY <1>1, <2>1, <2>2, AbstractPoint
<1> QED
  BY <1>4, <1>5, <1>6, <1>7

LEMMA AssignIsStep ==
  ASSUME RefInv, NEW l \in Lists, NEW k \in Lists, L!Assign(l, k)
  PROVE  L!Abstract!Next \/ view' = view
<1>1. PICK W : Ordered(m, W) /\ Shown(m, W, handle, view)
  BY RefFacts
<1>2. CASE l = k
  <2>1. PICK new : L!Become(L!CopyAssigned(m, l, k, new), handle)
    BY DEF L!Assign
  <2>2. L!CopyAssigned(m, l, k, new) = m
    BY <1>2 DEF L!CopyAssigned
  <2>3. L!Become(m, handle)
    BY <2>1, <2>2
  <2> QED
    BY <2>3 DEF L!Become, RefInv
<1>3. CASE l # k
  <2>1. PICK P \in Nat, Q \in Nat : P = m.len[l] /\ Q = m.len[k]
    BY <1>1, OrderedFacts
  <2>2. PICK B \in Nat : B = IF P < Q THEN P ELSE Q
    OBVIOUS
  <2>3. PICK M \in Nat : M = Q - B
    <3>1. B <= Q
      BY <2>2
    <3> QED
      BY <3>1
  <2>4. (IF m.len[k] > m.len[l] /\ l # k THEN m.len[k] - m.len[l] ELSE 0) = M
    BY <1>3, <2>1, <2>2, <2>3
  <2>5. PICK new, s, Y : new = L!FreshNodes(M) /\ s = L!CopyAssigned(m, l, k, new) /\ Y = m.live \cup tomb
    OBVIOUS
  <2>6. L!HasRoom(M) /\ L!Become(s, handle)
    BY <2>4, <2>5 DEF L!Assign
  <2>7. Y \subseteq Nodes
    BY <2>5, RefFacts, ListInvFacts
  <2>8. /\ \A i \in 1 .. M : new[i] \in Nodes \ Y
        /\ \A i, j \in 1 .. M : new[i] = new[j] => i = j
    <3>1. new = CHOOSE a \in [1 .. M -> Nodes \ Y] : \A i, j \in 1 .. M : a[i] = a[j] => i = j
      BY <2>5, Zenon DEF L!FreshNodes
    <3>2. Cardinality(Y) + M <= Cardinality(Nodes) /\ Y \in SUBSET Nodes /\ M \in Nat
      BY <2>5, <2>6, <2>7, ListCounts DEF L!HasRoom
    <3> QED
      BY ONLY <3>1, <3>2, FreshNodesThere
  <2>9. PICK c, d, V, X, U : /\ c = m /\ d = handle /\ V = view /\ X = view'
                             /\ U = [W EXCEPT ![l] = Copied(@, B, new, Q)]
    OBVIOUS
  <2>10. /\ Ordered(c, W) /\ l \in Lists /\ k \in Lists /\ l # k /\ P \in Nat /\ Q \in Nat
         /\ P = c.len[l] /\ Q = c.len[k] /\ B \in Nat /\ B = IF P < Q THEN P ELSE Q
         /\ \A i \in 1 .. Q - B : new[i] \in Nodes \ c.live
         /\ \A i, j \in 1 .. Q - B : new[i] = new[j] => i = j
         /\ s = L!CopyAssigned(c, l, k, new)
    BY <1>1, <1>3, <2>1, <2>2, <2>3, <2>5, <2>8, <2>9
  <2>11. CopyMade(c, W, l, k, P, Q, B, new, s)
    BY ONLY <2>10, CopyOrder
  <2>12. Ordered(s, U)
    BY <2>9, <2>11 DEF CopyMade
  <2>13. Shown(s, U, d, X) /\ Shown(c, W, d, V)
    <3>1. Shown(s, U, handle, view')
      BY <2>6, <2>12, BecomeShown
    <3> QED
      BY <1>1, <2>9, <3>1
  <2>14. /\ \A q \in Handles : d[q] \notin Firsts(new, Q - B)
         /\ \A j \in 1 .. P : W[l][j] \notin Firsts(new, Q - B)
    <3>1. Firsts(new, Q - B) \subseteq Nodes \ Y
      BY <2>3, <2>8 DEF Firsts
    <3>2. \A q \in Handles : handle[q] \in Y \cup {NULL}
      BY <2>5, RefFacts, ListInvFacts
    <3>3. \A j \in 1 .. P : W[l][j] \in Y
      BY <1>1, <2>1, <2>5, OrderedFacts
    <3> QED
      BY <2>9, <3>1, <3>2, <3>3, ListConstants
  <2>15. Copies(V, X, l, k, Q)
    <3>1. U = [W EXCEPT ![l] = Copied(@, B, new, Q)]
      BY <2>9
    <3> QED
      BY ONLY <2>10, <2>11, <2>13, <2>14, <3>1, CopyShown
  <2>16. L!Abstract!Copy(l, k)
    <3>1. Copies(view, view', l, k, Q)
      BY <2>9, <2>15
    <3>2. Len(view.content[k]) = Q
      BY <1>1, <2>1, ContentLength
    <3> QED
      BY <3>1, <3>2, Zenon DEF Copies, L!Abstract!Copy, L!Abstract!Kept
  <2> QED
    BY <2>16, Zenon DEF L!Abstract!Next
<1> QED
  BY <1>2, <1>3

LEMMA RefInvInit == L!Init => RefInv /\ L!Abstract!Init
<1> SUFFICES ASSUME L!Init PROVE RefInv /\ L!Abstract!Init
  OBVIOUS
<1>1. ListInv
  BY ListInvInit
<1>2. view = [content |-> [l \in Lists |-> <<>>], place |-> [h \in Handles |-> NULL]]
  BY DEF L!Init
<1>3. L!Abstract!Init
  BY <1>2 DEF L!Abstract!Init
<1>4. view = L!View(m, handle)
  <2>1. PICK W : W = [l \in Lists |-> L!Walk(m, l)]
    OBVIOUS
  <2>2. Ordered(m, W)
    BY <1>1, <2>1, ListInvFacts, WalksOrdered
  <2>3. PICK V : V = L!View(m, handle)
    OBVIOUS
  <2>4. Shown(m, W, handle, V)
    BY <2>2, <2>3, ViewShown
  <2>5. (\A l \in Lists : m.len[l] = 0) /\ \A h \in Handles : handle[h] = NULL
    BY DEF L!Init
  <2>6. V.content = [l \in Lists |-> <<>>] /\ V.place = [h \in Handles |-> NULL]
    BY <2>4, <2>5 DEF Shown
  <2>7. V = [content |-> V.content, place |-> V.place]
    BY <2>3 DEF L!View
  <2> QED
    BY <1>2, <2>3, <2>6, <2>7
<1> QED
  BY <1>1, <1>3, <1>4 DEF RefInv

\* Every step is one of HandleSeq, or it sees none.
LEMMA RefInvNext ==
  ASSUME RefInv, [L!Next]_<<m, tomb, handle, ids, stopped, view>>
  PROVE  RefInv' /\ (L!Abstract!Next \/ view' = view)
<1>1. ListInv'
  BY ListInvNext DEF RefInv
<1> DEFINE Seen == view' = L!View(m', handle') /\ (L!Abstract!Next \/ view' = view)
<1>2. ASSUME UNCHANGED <<m, tomb, handle, ids, stopped, view>> PROVE Seen
  BY <1>2 DEF RefInv
<1>3. ASSUME NEW l \in Lists, NEW h \in Handles, NEW v \in Values,
             \/ L!PushFront(l, v, h) \/ L!PushBackCall(l, v, h)
             \/ \E g \in Handles : L!InsertBefore(l, g, v, h) \/ L!InsertAfter(l, g, v, h)
      PROVE  Seen
  <2>1. L!Abstract!Next
    BY <1>3, InsertIsStep
  <2>2. view' = L!View(m', handle')
    BY <1>3, Zenon DEF L!PushFront, L!PushBackCall, L!InsertBefore, L!InsertAfter, L!Become
  <2> QED
    BY <2>1, <2>2
<1>4. ASSUME NEW l \in Lists, NEW h \in Handles, NEW v \in Values, L!Write(l, h, v) PROVE Seen
  BY <1>4, WriteIsStep, Zenon DEF L!Write, L!Become
<1>5. ASSUME NEW l \in Lists, NEW h \in Handles,
             \/ L!Ends(l, h) \/ L!DropHandle(h)
             \/ \E g \in Handles : L!Step(l, g, h) \/ L!CopyHandle(h, g)
      PROVE  Seen
  <2>1. L!Abstract!Next
    BY <1>5, PointIsStep
  <2>2. view' = L!View(m', handle')
    BY <1>5, Zenon DEF L!Ends, L!DropHandle, L!Step, L!CopyHandle, L!Become
  <2> QED
    BY <2>1, <2>2
<1>6. ASSUME NEW l \in Lists, L!PopEnd(l) \/ \E h \in Handles : L!Remove(l, h) PROVE Seen
  <2>1. L!Abstract!Next
    BY <1>6, RemoveIsStep
  <2>2. view' = L!View(m', handle')
    BY <1>6, Zenon DEF L!PopEnd, L!Remove, L!Become
  <2> QED
    BY <2>1, <2>2
<1>7. ASSUME NEW l \in Lists, L!Clear(l) PROVE Seen
  BY <1>7, ClearIsStep, Zenon DEF L!Clear, L!Become
<1>8. ASSUME NEW l \in Lists, NEW k \in Lists, L!Assign(l, k) PROVE Seen
  BY <1>8, AssignIsStep, Zenon DEF L!Assign, L!Become
<1>9. ASSUME NEW l \in Lists, NEW k \in Lists, L!Move(l, k) PROVE Seen
  BY <1>9, MoveIsStep, Zenon DEF L!Move, L!Become
<1>10. ASSUME NEW l \in Lists, NEW h \in Handles, L!Misuse(l, h) PROVE Seen
  BY <1>10 DEF L!Misuse, RefInv
<1>11. ASSUME L!Stop PROVE Seen
  BY <1>11 DEF L!Stop, L!vars, RefInv
<1> HIDE DEF Seen
<1>12. ASSUME L!Next PROVE Seen
  BY <1>3, <1>4, <1>5, <1>6, <1>7, <1>8, <1>9, <1>10, <1>11, <1>12 DEF L!Next
<1>13. Seen
  BY <1>2, <1>12
<1> QED
  BY <1>1, <1>13 DEF Seen, RefInv

(***************************************************************************)
(* The list: the theorems                                                  *)
(***************************************************************************)

\* In the run Handles the variables of the list follow its specification.
LEMMA HandlesList == Spec => [](part = "list" => ListInv)
<1> DEFINE Inv == part = "list" => ListInv
<1>1. Init => Inv
  BY ListInvInit DEF Init
<1>2. Inv /\ [Next]_vars => Inv'
  <2> SUFFICES ASSUME Inv, [Next]_vars, part' = "list" PROVE ListInv'
    OBVIOUS
  <2>1. CASE part = "list" /\ L!Next
    BY <2>1, ListInvNext
  <2>2. CASE UNCHANGED vars
    BY <2>2, ListInvNext DEF vars
  <2> QED
    BY <2>1, <2>2 DEF Next
<1> QED
  BY <1>1, <1>2, PTL DEF Spec

\* The chains of list.hpp agree in both directions, share no node and hold all of them,
\* through insertions, removals, copies and moves, and a removed node stays just as long
\* as it has handles.
THEOREM ChainsAlwaysSound == Spec => []ChainsSound
<1>1. (part = "list" => ListInv) => ChainsSound
  BY ListInvSuffices DEF ChainsSound
<1> QED
  BY <1>1, HandlesList, PTL

\* A container takes a handle exactly when it holds the element, also after elements
\* moved with their ID to another list, and their list took a new one
\* (tagged_ptr.hpp:185, list.hpp).
THEOREM AlwaysAcceptsItsOwn == Spec => []AcceptsItsOwn
<1>1. (part = "refs" => AcceptsHeld) /\ (part = "list" => ListInv) => AcceptsItsOwn
  BY ListInvSuffices DEF AcceptsItsOwn
<1> QED
  BY <1>1, HandlesList, RefsAlwaysAccepted, PTL

\* The calls of list.hpp are those of sequences with handles that stay with their element:
\* while others come and go, through copies that reuse nodes, and through moves to another
\* list, until it is removed (list.hpp).
THEOREM ListAlwaysHandleSeq == Spec => IsHandleSeq
<1> DEFINE Inv == part = "list" => RefInv
<1>1. Init => Inv /\ L!Abstract!Init
  BY RefInvInit DEF Init, NoList, L!Abstract!Init
<1>2. Inv /\ [Next]_vars => Inv' /\ [L!Abstract!Next]_<<view.content, view.place>>
  <2> SUFFICES ASSUME Inv, [Next]_vars
               PROVE  Inv' /\ (L!Abstract!Next \/ UNCHANGED <<view.content, view.place>>)
    OBVIOUS
  <2>1. CASE part = "list" /\ L!Next /\ part' = part
    BY <2>1, RefInvNext
  <2>2. CASE UNCHANGED <<part, view>> /\ part # "list"
    BY <2>2
  <2>3. CASE UNCHANGED vars
    BY <2>3 DEF vars, RefInv, ListInv, ListsGood, ListSound, ChainOf, Members, L!TombstonesHeld
  <2> QED
    BY <2>1, <2>2, <2>3 DEF Next
<1>3. IsHandleSeq <=> L!Abstract!Init /\ [][L!Abstract!Next]_<<view.content, view.place>>
  BY PTL DEF IsHandleSeq, L!IsHandleSeq, L!Abstract!Spec, L!Abstract!vars
<1> QED
  BY <1>1, <1>2, <1>3, PTL DEF Spec

==============================================================================
