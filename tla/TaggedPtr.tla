----------------------------- MODULE TaggedPtr -----------------------------
(***************************************************************************)
(* Tagged allocations and the references into them, tagged_ptr.hpp.        *)
(*                                                                         *)
(* A container owns tagged allocations.  Outside of it live reference      *)
(* objects, each of one class: a counted_ref keeps a count in the second   *)
(* word of the allocation, a linked_ref is an element of a list headed     *)
(* there.  A reference that is not constructed yet is one holding null:    *)
(* constructors act like assignments to such an object, and the destructor *)
(* assigns nullptr.  An action is a whole member function.                 *)
(***************************************************************************)
EXTENDS Lists

CONSTANTS
  Allocs,       \* addresses of tagged allocations
  Counted,      \* objects of class counted_ref
  Linked,       \* objects of class linked_ref
  Containers,
  MaxId         \* bound on the container IDs handed out

TaggedPtrAssumption ==
  /\ NULL \notin Allocs \cup Counted \cup Linked
  /\ Counted \cap Linked = {} /\ IsFiniteSet(Counted)
  /\ IsFiniteSet(Containers) /\ MaxId \in Nat /\ Cardinality(Containers) <= MaxId + 1

VARIABLES
  mem,      \* the allocations and the references, see MemType
  held,     \* the allocations a container has tagged_ptrs to
  cid,      \* container_id
  ids,      \* get_tls_counter(): IDs given out so far
  stopped   \* std::terminate() was called

refsVars == <<mem, held, cid, ids, stopped>>

Refs == Counted \cup Linked

\* The second word of an allocation.  Counter mode (bit 63): a count and the
\* tombstone mark (bit 62); linked list mode: the head of the list, or 0.
Count(n, t) == [n |-> n, tomb |-> t]
Chain(r)    == [first |-> r]
Words       == [n : 0 .. Cardinality(Counted), tomb : BOOLEAN] \cup [first : Linked \cup {NULL}]
CounterMode(w) == "n" \in DOMAIN w
Tombstone(w)   == CounterMode(w) /\ w.tomb

MemType ==
  [used : SUBSET Allocs,                    \* storage that malloc() gave out
   id   : [Allocs -> 0 .. MaxId],           \* first word: ID of the container
   word : [Allocs -> Words],
   ptr  : [Refs -> Allocs \cup {NULL}],
   prev : [Linked -> Linked \cup {NULL}],
   next : [Linked -> Linked \cup {NULL}]]

RefsTypeOK ==
  /\ mem \in MemType
  /\ held \in [Containers -> SUBSET Allocs]
  /\ cid \in [Containers -> 0 .. MaxId]
  /\ ids \in 0 .. MaxId + 1
  /\ stopped \in BOOLEAN

\* Every container was constructed with an ID of its own.
RefsInit ==
  /\ mem = [used |-> {}, id |-> [a \in Allocs |-> 0],
            word |-> [a \in Allocs |-> Count(0, FALSE)],
            ptr  |-> [r \in Refs |-> NULL],
            prev |-> [r \in Linked |-> NULL], next |-> [r \in Linked |-> NULL]]
  /\ held = [c \in Containers |-> {}]
  /\ cid \in {f \in [Containers -> 0 .. Cardinality(Containers) - 1] :
                \A c, d \in Containers : f[c] = f[d] => c = d}
  /\ ids = Cardinality(Containers)
  /\ stopped = FALSE

\* malloc() and free() of the storage.
Free(m, a) == [m EXCEPT !.used = @ \ {a}, !.word[a] = Count(0, FALSE), !.id[a] = 0]

(***************************************************************************)
(* counted_ref                                                             *)
(***************************************************************************)

\* operator= (nullptr): the last reference to a tombstone frees it.
DropCounted(m, r) ==
  LET a == m.ptr[r]
      n == [m EXCEPT !.word[a].n = @ - 1, !.ptr[r] = NULL]
  IN  IF a = NULL THEN m ELSE IF n.word[a] = Count(0, TRUE) THEN Free(n, a) ELSE n

PointCounted(m, r, a) ==
  IF a = NULL THEN [m EXCEPT !.ptr[r] = NULL]
              ELSE [m EXCEPT !.ptr[r] = a, !.word[a].n = @ + 1]

\* Copy and move, by construction or assignment.
CopyCounted(m, r, o) ==
  LET d == DropCounted(m, r) IN PointCounted(d, r, d.ptr[o])

MoveCounted(m, r, o) ==
  LET d == DropCounted(m, r) IN [d EXCEPT !.ptr[r] = d.ptr[o], !.ptr[o] = NULL]

(***************************************************************************)
(* linked_ref                                                              *)
(***************************************************************************)
SetFirst(m, a, r) == IF a = NULL THEN m ELSE [m EXCEPT !.word[a] = Chain(r)]

\* operator= (nullptr): r leaves the list it is in.
DropLinked(m, r) ==
  LET linked == [m EXCEPT !.prev = Store(@, m.next[r], m.prev[r]),
                          !.next = Store(@, m.prev[r], m.next[r])]
      headed == IF m.prev[r] = NULL THEN SetFirst(linked, m.ptr[r], m.next[r]) ELSE linked
  IN  [headed EXCEPT !.ptr[r] = NULL, !.prev[r] = NULL, !.next[r] = NULL]

\* r, holding null, becomes the head of the list of a.
PointLinked(m, r, a) ==
  IF a = NULL THEN m
  ELSE LET f == m.word[a].first
       IN  [m EXCEPT !.ptr[r] = a, !.next[r] = f, !.prev = Store(@, f, r), !.word[a] = Chain(r)]

CopyLinked(m, r, o) ==
  LET d == DropLinked(m, r) IN PointLinked(d, r, d.ptr[o])

\* Mutant of MoveLinked: the head of the list keeps pointing to the source.
MoveLinkedKeepsHead(m, r, o) ==
  LET d == DropLinked(m, r)
  IN  [d EXCEPT !.ptr[r] = d.ptr[o], !.ptr[o] = NULL,
                !.prev = Store([@ EXCEPT ![r] = d.prev[o], ![o] = NULL], d.next[o], r),
                !.next = Store([@ EXCEPT ![r] = d.next[o], ![o] = NULL], d.prev[o], r)]

\* The target takes the place of the source in the list.
MoveLinked(m, r, o) ==
  LET d == DropLinked(m, r)
      moved == [d EXCEPT !.ptr[r] = d.ptr[o], !.ptr[o] = NULL,
                         !.prev = Store([@ EXCEPT ![r] = d.prev[o], ![o] = NULL], d.next[o], r),
                         !.next = Store([@ EXCEPT ![r] = d.next[o], ![o] = NULL], d.prev[o], r)]
  IN  IF d.prev[o] = NULL THEN SetFirst(moved, d.ptr[o], r) ELSE moved

Drop(m, r) == IF r \in Counted THEN DropCounted(m, r) ELSE DropLinked(m, r)

(***************************************************************************)
(* tagged_ptr, called by the containers                                    *)
(***************************************************************************)

\* The references that the walk from the head of the list of a meets.
Listed(m, a) ==
  {r \in Linked : \A S \in SUBSET Linked :
     {m.word[a].first} \cup {m.next[s] : s \in S} \subseteq S \cup {NULL} => r \in S}

\* The allocations of A, one by one: counted ones become tombstones, the references in
\* lists are set to null, and none looks at what belongs to another allocation.
Deallocate(m, A) ==
  LET kept  == {a \in A : CounterMode(m.word[a]) /\ m.word[a].n # 0}
      freed == A \ kept
      nulls == UNION {Listed(m, a) : a \in {b \in A : ~CounterMode(m.word[b])}}
      Nullified(f) == [r \in DOMAIN f |-> IF r \in nulls THEN NULL ELSE f[r]]
  IN  [m EXCEPT !.used = @ \ freed,
                !.id   = [a \in Allocs |-> IF a \in freed THEN 0 ELSE @[a]],
                !.word = [a \in Allocs |-> CASE a \in kept  -> [@[a] EXCEPT !.tomb = TRUE]
                                           [] a \in freed -> Count(0, FALSE)
                                           [] a \notin A  -> @[a]],
                !.ptr = Nullified(@), !.prev = Nullified(@), !.next = Nullified(@)]

\* create_counted_ref and create_linked_ref first set the result to null.  They
\* panic if the other kind of reference exists.
CountedAllowed(m, a) == ~CounterMode(m.word[a]) => m.word[a].first = NULL
LinkedAllowed(m, a)  == CounterMode(m.word[a]) => m.word[a].n = 0

CreateCounted(m, r, a) ==
  IF CounterMode(m.word[a]) THEN PointCounted(m, r, a)
  ELSE [m EXCEPT !.word[a] = Count(1, FALSE), !.ptr[r] = a]

CreateLinked(m, r, a) ==
  PointLinked(IF CounterMode(m.word[a]) THEN SetFirst(m, a, NULL) ELSE m, r, a)

(***************************************************************************)
(* Actions                                                                 *)
(***************************************************************************)
Running == ~stopped

\* allocate() for a container.
Allocate(c, a) ==
  /\ Running /\ a \notin mem.used
  /\ mem'  = [mem EXCEPT !.used = @ \cup {a}, !.id[a] = cid[c], !.word[a] = Count(0, FALSE)]
  /\ held' = [held EXCEPT ![c] = @ \cup {a}]
  /\ UNCHANGED <<cid, ids, stopped>>

\* The container removes an element.
Remove(c, a) ==
  /\ Running /\ a \in held[c]
  /\ mem'  = Deallocate(mem, {a})
  /\ held' = [held EXCEPT ![c] = @ \ {a}]
  /\ UNCHANGED <<cid, ids, stopped>>

Allowed(r, a) ==
  IF r \in Counted THEN CountedAllowed(Drop(mem, r), a) ELSE LinkedAllowed(Drop(mem, r), a)

\* The container hands out a reference to one of its elements.
HandOut(c, a, r) ==
  /\ Running /\ a \in held[c]
  /\ Allowed(r, a)
  /\ LET d == Drop(mem, r)
     IN  mem' = IF r \in Counted THEN CreateCounted(d, r, a) ELSE CreateLinked(d, r, a)
  /\ UNCHANGED <<held, cid, ids, stopped>>

Panic(c, a, r) ==
  /\ Running /\ a \in held[c]
  /\ ~Allowed(r, a)
  /\ stopped' = TRUE
  /\ UNCHANGED <<mem, held, cid, ids>>

\* The holder of references destroys, copies and moves them.
Destroy(r) ==
  /\ Running
  /\ mem' = Drop(mem, r)
  /\ UNCHANGED <<held, cid, ids, stopped>>

Copy(r, o) ==
  /\ Running /\ r # o
  /\ mem' = IF r \in Counted THEN CopyCounted(mem, r, o) ELSE CopyLinked(mem, r, o)
  /\ UNCHANGED <<held, cid, ids, stopped>>

Move(r, o) ==
  /\ Running /\ r # o
  /\ mem' = IF r \in Counted THEN MoveCounted(mem, r, o) ELSE MoveLinked(mem, r, o)
  /\ UNCHANGED <<held, cid, ids, stopped>>

\* Mutant of Renamed: both containers keep the ID of the source.
RenamedAlike(c, o) == [cid EXCEPT ![c] = cid[o]]

\* IDs after o was moved to c: c inherits the ID, o gets a new one.
Renamed(c, o) == [cid EXCEPT ![c] = cid[o], ![o] = ids]

\* A container is move-assigned: it removes its own elements, takes over those
\* of the other one (as rbtree does).
MoveContainer(c, o) ==
  /\ Running /\ c # o /\ ids <= MaxId
  /\ mem'  = Deallocate(mem, held[c])
  /\ held' = [held EXCEPT ![c] = held[o], ![o] = {}]
  /\ cid'  = Renamed(c, o)
  /\ ids'  = ids + 1
  /\ UNCHANGED stopped

Stop == stopped /\ UNCHANGED refsVars

RefsNext ==
  \/ \E c \in Containers, a \in Allocs :
       Allocate(c, a) \/ Remove(c, a) \/ \E r \in Refs : HandOut(c, a, r) \/ Panic(c, a, r)
  \/ \E r \in Refs : Destroy(r)
  \/ \E r, o \in Counted : Copy(r, o) \/ Move(r, o)
  \/ \E r, o \in Linked  : Copy(r, o) \/ Move(r, o)
  \/ \E c, o \in Containers : MoveContainer(c, o)
  \/ Stop

RefsSpec == RefsInit /\ [][RefsNext]_refsVars

(***************************************************************************)
(* Properties                                                              *)
(***************************************************************************)
PointTo(a) == {r \in Refs : mem.ptr[r] = a}

\* A reference is null or points to storage that has not been freed: following
\* it, to look at the ID, the count or the list, touches no freed memory.
NeverDangles == \A r \in Refs : mem.ptr[r] \in mem.used \cup {NULL}

\* Storage is there for an element of exactly one container, or is a tombstone
\* that some counted_ref still points to: the last of them frees it.
NoLeak ==
  \A a \in mem.used :
    IF Tombstone(mem.word[a])
      THEN PointTo(a) # {} /\ \A c \in Containers : a \notin held[c]
      ELSE \E c \in Containers :
             a \in held[c] /\ \A d \in Containers \ {c} : a \notin held[d]

\* The word of an allocation agrees with the references there are: it counts the
\* counted ones, or it heads a list of exactly the linked ones, chained in both
\* directions; never are there both kinds.
WordExact ==
  \A a \in mem.used :
    LET w == mem.word[a] IN
    IF CounterMode(w)
      THEN PointTo(a) \subseteq Counted /\ w.n = Cardinality(PointTo(a))
      ELSE /\ PointTo(a) \subseteq Linked
           /\ Chained([head |-> w.first, next |-> mem.next, prev |-> mem.prev], PointTo(a))

\* check(): what a container looks at before it uses a reference.
Accepts(c, r) ==
  LET a == mem.ptr[r]
  IN  a # NULL /\ mem.id[a] = cid[c] /\ ~Tombstone(mem.word[a])

\* "Confirming that it is the exact container that handed out this reference":
\* a container accepts a reference just when it points to an element that the
\* container holds now, also after elements were removed, their storage used
\* again and containers moved.
AcceptsHeld ==
  \A c \in Containers, r \in Refs : Accepts(c, r) <=> mem.ptr[r] \in held[c]

============================================================================
