------------------------------ MODULE HashMap ------------------------------
(***************************************************************************)
(* hashmap.hpp: an open-addressing table of control bytes in groups.  It   *)
(* grows, shrinks and sheds tombstones by moving its keys to a second      *)
(* table, a few at every call that changes it.  Values live in a hive; a   *)
(* slot has the key and the handle.  The hive is abstracted to its filled  *)
(* places (Hive.tla has the rest), the random key of a table to the hash   *)
(* function it selects.                                                    *)
(***************************************************************************)
EXTENDS Integers, FiniteSets, Sequences, FiniteSetsExt, Functions

CONSTANTS
  Keys, Values, None,
  GroupSize,   \* control bytes in a group, and the smallest capacity is
  MinCap,      \* a multiple of it: both 8
  StepCount,   \* REHASH_STEP_COUNT: 4
  SizeRange,   \* 2^64, the range of size_t
  Hashes       \* the hash functions that random keys can select

HashMapAssumption ==
  /\ {GroupSize, MinCap, StepCount, SizeRange} \subseteq Nat \ {0}
  /\ MinCap % GroupSize = 0
  /\ Hashes # {} /\ \A h \in Hashes : h \in [Keys -> Nat]

Seqs == INSTANCE SequencesExt

VARIABLES
  map,      \* the two tables and the state of the rehashing, see MapType
  hive,     \* the value at each place
  stopped   \* std::terminate() was called

vars == <<map, hive, stopped>>

NotFound == -1
Empty == <<"empty">>
Tombstone == <<"tombstone">>
Filled(k, p) == <<"filled", k, p>>
IsFilled(e) == e \notin {Empty, Tombstone}

\* Handles: as many places of the hive as there are keys; 0 is null.
Places == 1 .. Cardinality(Keys)
Null == 0

AnyHash == CHOOSE h \in Hashes : TRUE
NoTable == [cap |-> 0, slot |-> <<>>, size |-> 0, tombs |-> 0, hash |-> AnyHash]

Init ==
  /\ map = [table |-> [i \in 0 .. 1 |-> NoTable], rehashing |-> FALSE, idx |-> 0, fault |-> FALSE]
  /\ hive = [p \in Places |-> None]
  /\ stopped = FALSE

(***************************************************************************)
(* One table                                                               *)
(***************************************************************************)
Wrap(n) == n % SizeRange

\* init_table(), with the hash h drawn at random.
InitTable(cap, h) ==
  [cap |-> cap, slot |-> [i \in 0 .. cap - 1 |-> Empty], size |-> 0, tombs |-> 0, hash |-> h]

ClearTable(t) ==
  IF t.cap = 0 THEN t
  ELSE [t EXCEPT !.slot = [i \in DOMAIN @ |-> IF IsFilled(@[i]) THEN Empty ELSE @[i]],
                 !.size = 0, !.tombs = 0]

NumGroups(t) == t.cap \div GroupSize

\* The group that is probed in round r: steps of 1, 2, 3...
Group(t, k, r) == (t.hash[k] + (r * (r + 1)) \div 2) % NumGroups(t)

HasEmpty(t, g) == \E i \in 0 .. GroupSize - 1 : t.slot[g * GroupSize + i] = Empty

\* Mutant of Rounds: a tombstone ends the search as an empty slot does.
RoundsShort(t, k) ==
  Min({NumGroups(t)} \cup
      {r + 1 : r \in {q \in 0 .. NumGroups(t) - 1 :
         \E i \in 0 .. GroupSize - 1 : ~IsFilled(t.slot[Group(t, k, q) * GroupSize + i])}})

\* The search ends after the first group with an empty slot, or with the last group.
Rounds(t, k) ==
  Min({NumGroups(t)} \cup
      {r + 1 : r \in {q \in 0 .. NumGroups(t) - 1 : HasEmpty(t, Group(t, k, q))}})

\* The slot that is n-th on the way of a search for k.
Nth(t, k, n) == Group(t, k, n \div GroupSize) * GroupSize + (n % GroupSize)

\* The first slot on the way that is among S, or NotFound.
FirstOnWay(t, k, S) ==
  LET N == {n \in 0 .. Rounds(t, k) * GroupSize - 1 : Nth(t, k, n) \in S}
  IN  IF N = {} THEN NotFound ELSE Nth(t, k, Min(N))

FindSlot(t, k) ==
  IF t.cap = 0 THEN NotFound
  ELSE FirstOnWay(t, k, {s \in DOMAIN t.slot : IsFilled(t.slot[s]) /\ t.slot[s][2] = k})

\* s, where k was found, or else a slot to put it.
OrUnfilled(t, k, s) ==
  IF s # NotFound THEN s ELSE FirstOnWay(t, k, {u \in DOMAIN t.slot : ~IsFilled(t.slot[u])})

FindInsertSlot(t, k) == OrUnfilled(t, k, FindSlot(t, k))

\* A slot is filled; the vector of control bytes terminates the program when its
\* index is out of range.
Fill(m, i, s, k, p) ==
  IF s = NotFound THEN [m EXCEPT !.fault = TRUE]
  ELSE [m EXCEPT !.table[i].slot[s] = Filled(k, p), !.table[i].size = @ + 1,
                 !.table[i].tombs = IF m.table[i].slot[s] = Tombstone THEN Wrap(@ - 1) ELSE @]

Insert(m, i, k, p) == Fill(m, i, FindInsertSlot(m.table[i], k), k, p)

Erase(m, i, s) ==
  [m EXCEPT !.table[i].slot[s] = Tombstone, !.table[i].size = @ - 1,
            !.table[i].tombs = Wrap(@ + 1)]

(***************************************************************************)
(* Rehashing                                                               *)
(***************************************************************************)

\* Slot s of the old table goes to the new one.
MoveSlot(m, s) ==
  LET e == m.table[0].slot[s]
  IN  [Insert(m, 1, e[2], e[3]) EXCEPT !.table[0].slot[s] = Tombstone, !.table[0].size = @ - 1]

Waiting(m) == {s \in m.idx .. m.table[0].cap - 1 : IsFilled(m.table[0].slot[s])}
MoveAll(m, S) == Seqs!FoldLeft(MoveSlot, m, Seqs!SetToSortSeq(S, <))

Finalize(m) ==
  [MoveAll(m, IF m.table[0].size > 0 THEN Waiting(m) ELSE {})
     EXCEPT !.table = [i \in 0 .. 1 |-> IF i = 0 THEN @[1] ELSE NoTable],
            !.rehashing = FALSE, !.idx = 0]

FinalizeIfDone(m) ==
  IF m.idx >= m.table[0].cap \/ m.table[0].size = 0 THEN Finalize(m) ELSE m

\* The first n of the slots S.
FirstOf(S, n) == {s \in S : Cardinality({r \in S : r < s}) < n}

\* The slots F move, as many as n, or all that wait.
StepOver(m, F, n) ==
  FinalizeIfDone([MoveAll(m, F) EXCEPT
                    !.idx = IF Cardinality(F) = n THEN Max(F) + 1 ELSE m.table[0].cap])

StepRehash(m, n) ==
  IF ~m.rehashing THEN m ELSE StepOver(m, FirstOf(Waiting(m), n), n)

NewCap(t) ==
  LET c == IF t.size <= t.cap \div 4 /\ t.cap > MinCap THEN t.cap \div 2
           ELSE IF t.size * 2 <= t.cap THEN t.cap ELSE t.cap * 2
  IN  IF c < MinCap THEN MinCap ELSE c

StartRehash(m, h) ==
  IF m.rehashing THEN m
  ELSE [m EXCEPT !.table[1] = InitTable(NewCap(m.table[0]), h), !.rehashing = TRUE, !.idx = 0]

\* More than 7/8 of the table would be used after one insertion.
Crowded(t) == Wrap(Wrap(t.size + t.tombs + 1) * 8) > t.cap * 7

EnsureCapacity(m, h) ==
  IF m.table[0].cap = 0 THEN [m EXCEPT !.table[0] = InitTable(MinCap, h)]
  ELSE IF Crowded(m.table[IF m.rehashing THEN 1 ELSE 0])
    THEN StepRehash(StartRehash(IF m.rehashing THEN Finalize(m) ELSE m, h), StepCount)
  ELSE m

CheckShrink(m, h) ==
  IF ~m.rehashing /\ m.table[0].cap > MinCap /\ m.table[0].size <= m.table[0].cap \div 4
    THEN StepRehash(StartRehash(m, h), StepCount) ELSE m

(***************************************************************************)
(* Operations                                                              *)
(***************************************************************************)

HandleAt(t, s, other) == IF s # NotFound THEN t.slot[s][3] ELSE other

SearchTable(t, k, other) == HandleAt(t, FindSlot(t, k), other)

\* Mutant of Search: the new table is forgotten.
SearchOld(m, k) == SearchTable(m.table[0], k, Null)

\* The handle of k, from the new table or else from the old one.
Search(m, k) ==
  SearchTable(IF m.rehashing THEN m.table[1] ELSE NoTable, k, SearchTable(m.table[0], k, Null))

Running == ~stopped
Update(m, v) == map' = m /\ hive' = v /\ stopped' = map'.fault

\* What each call starts with: one step of the rehashing.
Stepped == {StepRehash(map, StepCount)}

\* The hive picks a place; the key goes to the new table, if there is one.
InsertNewest(m, k, p) == Insert(m, IF m.rehashing THEN 1 ELSE 0, k, p)
Emplaced(m, k, p, h) == InsertNewest(EnsureCapacity(m, h), k, p)

FreePlace == Min({p \in Places : hive[p] = None})

\* emplace(), insert() and insert_default().
Emplace(k, v) ==
  /\ Running
  /\ \E m \in Stepped :
       IF Search(m, k) # Null THEN Update(m, hive)
       ELSE \E h \in Hashes, e \in {FreePlace} :
              Update(Emplaced(m, k, e, h), [hive EXCEPT ![e] = v])

\* insert_or_assign(): a new key takes two steps of the rehashing, its own and
\* that of emplace().
InsertOrAssign(k, v) ==
  /\ Running
  /\ \E m \in Stepped : \E p \in {Search(m, k)} :
       IF p # Null THEN Update(m, [hive EXCEPT ![p] = v])
       ELSE \E h \in Hashes, e \in {FreePlace} :
              Update(Emplaced(StepRehash(m, StepCount), k, e, h), [hive EXCEPT ![e] = v])

\* The slot i, s is erased, and its place in the hive.
RemoveSlot(m, i, s) ==
  \E h \in Hashes : Update(CheckShrink(Erase(m, i, s), h),
                           [hive EXCEPT ![m.table[i].slot[s][3]] = None])

Remove(k) ==
  /\ Running
  /\ \E m \in Stepped : \E s1 \in {FindSlot(m.table[1], k)}, s0 \in {FindSlot(m.table[0], k)} :
       IF map.table[0].cap = 0 THEN UNCHANGED vars
       ELSE IF m.rehashing /\ s1 # NotFound THEN RemoveSlot(m, 1, s1)
       ELSE IF s0 # NotFound THEN RemoveSlot(m, 0, s0)
       ELSE Update(m, hive)

\* remove() and inform_destruct() with a handle.  A stale one tests false when its
\* chunk is gone from the hive, and nothing happens.
RemoveHandle(p) ==
  /\ Running
  /\ \E m \in Stepped :
       LET At(i) == {s \in DOMAIN m.table[i].slot :
                       IsFilled(m.table[i].slot[s]) /\ m.table[i].slot[s][3] = p}
       IN  \/ \E s \in At(0) : RemoveSlot(m, 0, s)
           \/ At(0) = {} /\ m.rehashing /\ \E s \in At(1) : RemoveSlot(m, 1, s)
           \/ /\ At(0) \cup At(1) = {}
              /\ \/ hive[p] = None /\ UNCHANGED vars
                 \/ stopped' = TRUE /\ UNCHANGED hive /\ map' = m

\* step_rehash() and finish_rehash() by the user.
Rehash(n) == Running /\ map.rehashing /\ Update(StepRehash(map, n), hive)

Cleared(m) ==
  [m EXCEPT !.table = [i \in 0 .. 1 |-> IF i = 0 THEN ClearTable(@[0]) ELSE NoTable],
            !.rehashing = FALSE, !.idx = 0]

Clear == Running /\ Update(Cleared(map), [p \in Places |-> None])

Stop == stopped /\ UNCHANGED vars

\* All calls but clear(), with the keys K and the values V.
CallWith(K, V) ==
  \/ \E k \in K, v \in V : Emplace(k, v) \/ InsertOrAssign(k, v)
  \/ \E k \in K : Remove(k)
  \/ \E p \in Places : RemoveHandle(p)
  \/ \E n \in {StepCount, map.table[0].cap} : Rehash(n)
  \/ Stop

Next == CallWith(Keys, Values) \/ Clear

Spec == Init /\ [][Next]_vars

(***************************************************************************)
(* Properties                                                              *)
(***************************************************************************)
TableType(t) ==
  /\ t.cap = 0 \/ (t.cap >= MinCap /\ \E n \in 0 .. t.cap : t.cap = MinCap * 2 ^ n)
  /\ t.hash \in Hashes
  /\ {t.size, t.tombs} \subseteq 0 .. SizeRange - 1
  /\ t.slot \in [0 .. t.cap - 1 -> {Empty, Tombstone} \cup {Filled(k, p) : k \in Keys, p \in Places}]

TypeOK ==
  /\ \A i \in 0 .. 1 : TableType(map.table[i])
  /\ map.rehashing \in BOOLEAN /\ map.idx \in 0 .. map.table[0].cap /\ map.fault \in BOOLEAN
  /\ hive \in [Places -> Values \cup {None}]
  /\ stopped \in BOOLEAN

FilledIn(i) == {s \in DOMAIN map.table[i].slot : IsFilled(map.table[i].slot[s])}
Entries(i) == {map.table[i].slot[s] : s \in FilledIn(i)}

\* Every value of the hive belongs to exactly one slot of the two tables, every key
\* has one slot, and a search finds it there, whatever was moved or erased on the way.
SlotsMatchHive ==
  LET E == Entries(0) \cup Entries(1)
  IN  ~stopped =>
      /\ Cardinality(FilledIn(0)) + Cardinality(FilledIn(1)) = Cardinality({p \in Places : hive[p] # None})
      /\ {e[3] : e \in E} = {p \in Places : hive[p] # None}
      /\ Cardinality({e[2] : e \in E}) = Cardinality(E)
      /\ \A e \in E : Search(map, e[2]) = e[3]

\* The counters that decide about growing and shrinking: the sizes are exact; before
\* the first clear() the tombstones are too, but those that moved keys left in the old
\* table.
SizesExact == ~stopped => \A i \in 0 .. 1 : map.table[i].size = Cardinality(FilledIn(i))
TombsExact ==
  LET Tombs(i) == Cardinality({s \in DOMAIN map.table[i].slot : map.table[i].slot[s] = Tombstone})
  IN  ~stopped => /\ map.table[1].tombs = Tombs(1)
                  /\ ~map.rehashing => map.table[0].tombs = Tombs(0)

\* The keys that wait fit into the new table together with what is there, so that
\* finalize_rehash() in the middle is never needed and the old table is
\* behind the index.
RehashInTime ==
  map.rehashing =>
    /\ FilledIn(0) = Waiting(map)
    /\ ~Crowded([map.table[1] EXCEPT !.size = @ + map.table[0].size])

\* The capacity follows the size: keys never fill a table, and one that has room for
\* eight times as many is about to be replaced.
IndexInBounds == ~map.fault

\* The dictionary that the tables and the hive represent.
Represented(m, h) ==
  [k \in Keys |-> LET p == Search(m, k) IN IF p = Null THEN None ELSE h[p]]

\* Mutant of CopyCap: as many slots as keys.
CopyCapTight == LET n == Cardinality({p \in Places : hive[p] # None})
                IN  Min({c \in {MinCap * 2 ^ i : i \in 0 .. n} : c >= n})

\* The copy constructor: a table that is large enough from the start.
CopyCap == LET n == Cardinality({p \in Places : hive[p] # None})
           IN  Min({c \in {MinCap * 2 ^ i : i \in 0 .. n} : c * 7 >= n * 8})

\* The entries of the two tables, in order.
EntriesInOrder ==
  LET E(i) == Seqs!SetToSortSeq(FilledIn(i), <)
  IN  [j \in DOMAIN E(0) |-> map.table[0].slot[E(0)[j]]] \o
      [j \in DOMAIN E(1) |-> map.table[1].slot[E(1)[j]]]

Copy(h) ==
  Seqs!FoldLeft(LAMBDA m, e : Emplaced(StepRehash(m, StepCount), e[2], e[3], h),
                [table |-> [i \in 0 .. 1 |-> IF i = 0 THEN InitTable(CopyCap, h) ELSE NoTable],
                 rehashing |-> FALSE, idx |-> 0, fault |-> FALSE],
                EntriesInOrder)

\* The copy of a map, taken in the middle of a rehashing or not, has the same keys and
\* values, and making it takes no rehashing.
SameAs(m) == Represented(m, hive) = Represented(map, hive) /\ ~m.rehashing
CopyIsSame(h) == SameAs(Copy(h))

=============================================================================
