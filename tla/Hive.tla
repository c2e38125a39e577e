-------------------------------- MODULE Hive --------------------------------
(***************************************************************************)
(* hive.hpp: elements that stay where they are, in chunks of growing size. *)
(*                                                                         *)
(* A chunk has a bitmap of its filled slots.  It is in the list of chunks  *)
(* with room and in the list of chunks with elements, or in one of the two.*)
(* A handle is a chunk and a slot; a chunk that is destroyed while handles *)
(* point to it stays as a tombstone until the last of them is dropped.     *)
(***************************************************************************)
EXTENDS Lists, Sequences, Functions, FiniteSetsExt

CONSTANTS
  Chunks,      \* addresses of chunks
  Handles,     \* handles that the user keeps
  Word,        \* bits in a word of a bitmap: 64
  FirstLog2,   \* next_log2_len of a new hive: 3
  LastLog2,    \* where it stops growing: 16
  MaxLen,      \* bound: elements in the hive
  NoHandle

HiveAssumption ==
  /\ NULL \notin Chunks /\ IsFiniteSet(Chunks)
  /\ Word \in Nat \ {0} /\ FirstLog2 \in Nat /\ LastLog2 \in Nat /\ FirstLog2 <= LastLog2 /\ MaxLen \in Nat

VARIABLES
  hive,        \* the hive and its chunks, see HiveType
  tomb,        \* chunks that are tombstones
  handle,      \* what a handle points to
  stopped      \* std::terminate() was called

vars == <<hive, tomb, handle, stopped>>

Places == Chunks \X (0 .. 2 ^ LastLog2 - 1)

ListType ==
  [head : Chunks \cup {NULL}, next : [Chunks -> Chunks \cup {NULL}],
   prev : [Chunks -> Chunks \cup {NULL}]]

HiveType ==
  [len    : Nat,
   nextLog2 : 0 .. LastLog2,
   empty  : ListType,                   \* chunks with an empty slot
   filled : ListType,                   \* chunks with a filled slot
   tail   : Chunks \cup {NULL},         \* of the list filled
   live   : SUBSET Chunks,              \* chunks that are allocated
   log2   : [Chunks -> 0 .. LastLog2],
   count  : [Chunks -> Nat],            \* filled_count
   bits   : [Chunks -> SUBSET (0 .. 2 ^ LastLog2 - 1)]]

TypeOK ==
  /\ hive \in HiveType
  /\ tomb \subseteq Chunks \ hive.live
  /\ handle \in [Handles -> Places \cup {NoHandle}]
  /\ stopped \in BOOLEAN

NewHive ==
  [len |-> 0, nextLog2 |-> FirstLog2, empty |-> EmptyList(Chunks), filled |-> EmptyList(Chunks),
   tail |-> NULL, live |-> {}, log2 |-> [c \in Chunks |-> 0],
   count |-> [c \in Chunks |-> 0], bits |-> [c \in Chunks |-> {}]]

Init ==
  /\ hive = NewHive
  /\ tomb = {}
  /\ handle = [h \in Handles |-> NoHandle]
  /\ stopped = FALSE

(***************************************************************************)
(* Bitmaps: the words are scanned one by one                               *)
(***************************************************************************)
Capacity(h, c) == 2 ^ h.log2[c]
NumWords(h, c) == (Capacity(h, c) + Word - 1) \div Word

\* The bits of S in word w.
Nth(S, w) == {s \in S : s \div Word = w}

\* The first bit of S in the words w to n - 1, the last in the words w to 0; or cap.
Upwards(S, w, n, cap) ==
  LET W == {v \in w .. n - 1 : Nth(S, v) # {}}
  IN  IF W = {} THEN cap ELSE Min(Nth(S, Min(W)))
Downwards(S, w, cap) ==
  LET W == {v \in 0 .. w : Nth(S, v) # {}}
  IN  IF W = {} THEN cap ELSE Max(Nth(S, Max(W)))

FirstEmptySlot(h, c) ==
  Upwards((0 .. Capacity(h, c) - 1) \ h.bits[c], 0, NumWords(h, c), Capacity(h, c))
FirstFilledSlot(h, c) == Upwards(h.bits[c], 0, NumWords(h, c), Capacity(h, c))
LastFilledSlot(h, c)  == Downwards(h.bits[c], NumWords(h, c) - 1, Capacity(h, c))

NextFilledSlot(h, c, s) ==
  IF s + 1 >= Capacity(h, c) THEN Capacity(h, c)
  ELSE Upwards({b \in h.bits[c] : b > s}, (s + 1) \div Word, NumWords(h, c), Capacity(h, c))
PrevFilledSlot(h, c, s) ==
  IF s = 0 THEN Capacity(h, c)
  ELSE Downwards({b \in h.bits[c] : b < s}, (s - 1) \div Word, Capacity(h, c))

(***************************************************************************)
(* Lists of chunks                                                         *)
(***************************************************************************)
AddToEmpty(h, c)      == [h EXCEPT !.empty = Push(@, c)]
RemoveFromEmpty(h, c) == [h EXCEPT !.empty = Unlink(@, c)]

AddToFilled(h, c) ==
  [h EXCEPT !.filled = [head |-> IF h.tail = NULL THEN c ELSE @.head,
                        next |-> Store(Store(@.next, c, NULL), h.tail, c),
                        prev |-> Store(@.prev, c, h.tail)],
            !.tail = c]

RemoveFromFilled(h, c) ==
  [h EXCEPT !.filled = Unlink(@, c), !.tail = IF @ = c THEN h.filled.prev[c] ELSE @]

\* create_chunk() for the chunk c.
CreateChunk(h, c, l) ==
  [h EXCEPT !.live = @ \cup {c}, !.log2[c] = l, !.count[c] = 0, !.bits[c] = {}]
DestroyChunk(h, c) ==
  [h EXCEPT !.live = @ \ {c}, !.log2[c] = 0, !.count[c] = 0, !.bits[c] = {}]

\* allocate_slot(), where c is the address that a new chunk gets.
Grown(h, c) ==
  IF h.empty.head # NULL THEN h
  ELSE AddToEmpty(CreateChunk([h EXCEPT !.nextLog2 = IF @ < LastLog2 THEN @ + 1 ELSE @],
                              c, h.nextLog2), c)

\* Mutant of Fill: a chunk that becomes full stays in the list of those with room.
FillStaying(h) ==
  LET c == h.empty.head
      s == FirstEmptySlot(h, c)
      g == [h EXCEPT !.bits[c] = @ \cup {s}, !.count[c] = @ + 1, !.len = @ + 1]
  IN  [hive |-> IF g.count[c] = 1 THEN AddToFilled(g, c) ELSE g, place |-> <<c, s>>]

Fill(h) ==
  LET c == h.empty.head
      s == FirstEmptySlot(h, c)
      g == [h EXCEPT !.bits[c] = @ \cup {s}, !.count[c] = @ + 1, !.len = @ + 1]
      f == IF g.count[c] = 1 THEN AddToFilled(g, c) ELSE g
  IN  [hive  |-> IF g.count[c] = Capacity(g, c) THEN RemoveFromEmpty(f, c) ELSE f,
       place |-> <<c, s>>]

\* Mutant of RemoveSlot: a chunk that has room again goes to the end of both lists.
RemoveSlotCycling(h, c, s) ==
  LET g == [h EXCEPT !.bits[c] = @ \ {s}, !.count[c] = @ - 1, !.len = @ - 1]
      f == IF g.count[c] = Capacity(g, c) - 1
             THEN AddToFilled(RemoveFromFilled(AddToEmpty(g, c), c), c) ELSE g
  IN  IF g.count[c] = 0 THEN DestroyChunk(RemoveFromEmpty(RemoveFromFilled(f, c), c), c) ELSE f

RemoveSlot(h, c, s) ==
  LET g == [h EXCEPT !.bits[c] = @ \ {s}, !.count[c] = @ - 1, !.len = @ - 1]
      f == IF g.count[c] = Capacity(g, c) - 1 THEN AddToEmpty(g, c) ELSE g
  IN  IF g.count[c] = 0 THEN DestroyChunk(RemoveFromEmpty(RemoveFromFilled(f, c), c), c) ELSE f

\* clear(): the chunks with elements, one by one, then those without.
ClearOne(h) ==
  LET c == h.filled.head
      e == h.empty.head
      r == RemoveFromFilled(h, c)
  IN  CASE c # NULL -> DestroyChunk(IF h.count[c] < Capacity(h, c) THEN RemoveFromEmpty(r, c) ELSE r, c)
        [] c = NULL /\ e # NULL -> DestroyChunk(RemoveFromEmpty(h, e), e)
        [] OTHER -> h

ClearLists(h) ==
  LET after[n \in 0 .. Cardinality(Chunks)] == IF n = 0 THEN h ELSE ClearOne(after[n - 1])
  IN  after[Cardinality(Chunks)]

Cleared(h) == [ClearLists(h) EXCEPT !.len = 0, !.nextLog2 = FirstLog2]

(***************************************************************************)
(* Iteration                                                               *)
(***************************************************************************)

\* The first chunk from c on along l in which 'slot' has an element, as a handle.
Along(h, c, l, slot) ==
  LET from[d \in Chunks \cup {NULL}] ==
        CASE d = NULL -> NoHandle
          [] d # NULL /\ slot[d] < Capacity(h, d) -> <<d, slot[d]>>
          [] OTHER -> from[l[d]]
  IN  from[c]

Forward(h, c)  == Along(h, c, h.filled.next, [d \in h.live |-> FirstFilledSlot(h, d)])
Backward(h, c) == Along(h, c, h.filled.prev, [d \in h.live |-> LastFilledSlot(h, d)])

Front(h) == Forward(h, h.filled.head)
Back(h)  == Backward(h, h.tail)

NextOf(h, p) ==
  LET s == NextFilledSlot(h, p[1], p[2])
  IN  IF s < Capacity(h, p[1]) THEN <<p[1], s>>
      ELSE Forward(h, h.filled.next[p[1]])

PrevOf(h, p) ==
  LET s == PrevFilledSlot(h, p[1], p[2])
  IN  IF s < Capacity(h, p[1]) THEN <<p[1], s>>
      ELSE Backward(h, h.filled.prev[p[1]])

(***************************************************************************)
(* Actions                                                                 *)
(***************************************************************************)
Running == ~stopped

\* A handle is accepted if its chunk is alive and the slot is filled.
Accepts(p) == p # NoHandle /\ p[1] \in hive.live /\ p[2] < Capacity(hive, p[1]) /\ p[2] \in hive.bits[p[1]]

\* The chunks that handles point to; what remains of those that were destroyed.
Held(hs) == {hs[h][1] : h \in {x \in Handles : hs[x] # NoHandle}}
Keep(g, hs) == tomb' = (tomb \cup (hive.live \ g.live)) \cap Held(hs)

Update(g, hs) == hive' = g /\ handle' = hs /\ Keep(g, hs) /\ UNCHANGED stopped

\* emplace(), insert() and push_back(); the user keeps the handle or drops it.
Emplace(hs) ==
  /\ Running /\ hive.len < MaxLen
  /\ \E c \in Chunks :
       /\ hive.empty.head = NULL => c \notin hive.live \cup tomb
       /\ LET r == Fill(Grown(hive, c))
          IN  \E k \in {handle} \cup {[handle EXCEPT ![h] = r.place] : h \in hs} : Update(r.hive, k)

Terminate == stopped' = TRUE /\ UNCHANGED <<hive, tomb, handle>>

\* remove() and inform_destruct() at a place; the handle that says so is kept.
RemoveAt(p) == Update(RemoveSlot(hive, p[1], p[2]), handle)

Remove(h) == Running /\ IF Accepts(handle[h]) THEN RemoveAt(handle[h]) ELSE Terminate

PopFront == Running /\ IF Front(hive) # NoHandle THEN RemoveAt(Front(hive)) ELSE Terminate
PopBack  == Running /\ IF Back(hive) # NoHandle THEN RemoveAt(Back(hive)) ELSE Terminate

\* front(), back() and assignments of null.
Point(h) ==
  /\ Running
  /\ \E p \in {Front(hive), Back(hive), NoHandle} : Update(hive, [handle EXCEPT ![h] = p])

\* next() and prev() of a handle, assigned to it.
Step(h) ==
  /\ Running
  /\ IF Accepts(handle[h])
       THEN \E p \in {NextOf(hive, handle[h]), PrevOf(hive, handle[h])} :
              Update(hive, [handle EXCEPT ![h] = p])
       ELSE Terminate

SetNextLog2(l) == Running /\ Update([hive EXCEPT !.nextLog2 = l], handle)

Clear == Running /\ Update(Cleared(hive), handle)

Stop == stopped /\ UNCHANGED vars

Next ==
  \/ Emplace(Handles) \/ PopFront \/ PopBack \/ Clear \/ Stop
  \/ \E h \in Handles : Remove(h) \/ Point(h) \/ Step(h)
  \/ \E l \in 0 .. LastLog2 : SetNextLog2(l)

Spec == Init /\ [][Next]_vars

(***************************************************************************)
(* Properties                                                              *)
(***************************************************************************)
Filled(h) == {p \in Places : p[1] \in h.live /\ p[2] \in h.bits[p[1]]}

\* Each list holds the chunks it should, by their counts, and its links agree; a
\* chunk without elements is not kept.
ListsSound ==
  LET E == {c \in hive.live : hive.count[c] < Capacity(hive, c)}
      F == {c \in hive.live : hive.count[c] > 0}
  IN  /\ Holds(hive.empty, E) /\ Holds(hive.filled, F) /\ F = hive.live
      /\ IF F = {} THEN hive.tail = NULL
                   ELSE hive.tail \in F /\ hive.filled.next[hive.tail] = NULL

\* The counters agree with the bitmaps, so no slot is handed out twice: that
\* would raise a counter but set no bit.
CountsExact ==
  /\ \A c \in hive.live : hive.count[c] = Cardinality(hive.bits[c])
  /\ hive.len = Cardinality(Filled(hive))

\* The walk with next() from front() on, one element longer than it may be at most.
Iterated(h) ==
  LET after(w) == IF w = <<>> THEN Front(h) ELSE NextOf(h, w[Len(w)])
      Longer(w) == IF after(w) = NoHandle THEN w ELSE Append(w, after(w))
      walk[n \in 0 .. h.len + 1] == IF n = 0 THEN <<>> ELSE Longer(walk[n - 1])
  IN  walk[h.len + 1]

\* The walk forward visits every element exactly once and then ends; the walk
\* backward from back() is its reverse.
WalksVisitAll ==
  LET w == Iterated(hive)
  IN  /\ Len(w) = hive.len /\ Range(w) = Filled(hive)
      /\ Back(hive) = IF w = <<>> THEN NoHandle ELSE w[Len(w)]
      /\ \A i \in 1 .. Len(w) :
           PrevOf(hive, w[i]) = IF i = 1 THEN NoHandle ELSE w[i - 1]

\* Elements stay where they are and keep their order in the iteration, whatever
\* is inserted and removed around them.
OrderStable ==
  \A old \in {Iterated(hive)}, new \in {Iterated(hive')} :
    \A both \in {Range(old) \cap Range(new)} :
      SelectSeq(old, LAMBDA p : p \in both) = SelectSeq(new, LAMBDA p : p \in both)

\* A chunk that a handle points to is never freed under it, and a tombstone goes
\* with the last handle to it.
TombstonesHeld == Held(handle) \subseteq hive.live \cup tomb /\ tomb \subseteq Held(handle)

\* The copy of a hive is made by pushing its elements to a new one, here for as
\* long as there are addresses: it walks in the order of the pushes.
Pushed(n) ==
  LET Push1(h) == Fill(Grown(h, CHOOSE c \in Chunks \cup {NULL} : c \notin h.live))
      Longer(p, h) == IF h.empty.head = NULL /\ h.live = Chunks THEN p ELSE Append(p, Push1(h))
      made[k \in 0 .. n] == IF k = 0 THEN <<>>
                            ELSE LET p == made[k - 1]
                                 IN  Longer(p, IF p = <<>> THEN NewHive ELSE p[Len(p)].hive)
  IN  made[n]

CopyKeepsOrder ==
  LET p == Pushed(hive.len)
  IN  p # <<>> => Iterated(p[Len(p)].hive) = [i \in 1 .. Len(p) |-> p[i].place]

=============================================================================
