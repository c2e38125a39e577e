----------------------------- MODULE MmapAlloc -----------------------------
(***************************************************************************)
(* The allocator of whole regions of one arena, src/memory/mmap.c.         *)
(*                                                                         *)
(* Every region has a record; the records come in groups that are mapped   *)
(* on demand and never unmapped.  A record is in the list of active or in  *)
(* the list of inactive records, and both lists run through the same two   *)
(* fields of it.  A call of mmap may fail whenever it is made.             *)
(*                                                                         *)
(* What a call does to the arena is an operator on arenas, so that callers *)
(* that make two calls in a row can compose them; an action is one call.   *)
(***************************************************************************)
EXTENDS Lists, FiniteSetsExt

CONSTANTS
  MmapPerGroup,   \* MMAP_RECORDS_PER_GROUP
  MmapMaxGroups,  \* bound: how many groups of records mmap can provide
  Regions     \* the regions mmap can return to mmap_alloc

ASSUME MmapAssumption ==
  /\ MmapPerGroup \in Nat \ {0}
  /\ MmapMaxGroups \in Nat \ {0}
  /\ NULL \notin Nat \cup Regions

VARIABLES
  arena,   \* struct mmap_arena_t and its records: the number of groups, the heads
           \* active and inactive, and next, prev and region (ptr) of the records
  mapped,  \* the regions the system has mapped
  regions     \* history: the allocations <<region, record>> handed out

mmapVars == <<arena, mapped, regions>>

MmapRecords == 0 .. MmapMaxGroups * MmapPerGroup - 1

Links == [MmapRecords -> MmapRecords \cup {NULL}]

Arenas ==
  [groups : 0 .. MmapMaxGroups, active : MmapRecords \cup {NULL},
   inactive : MmapRecords \cup {NULL}, next : Links, prev : Links,
   region : [MmapRecords -> Regions \cup {NULL}]]

MmapTypeOK ==
  /\ arena \in Arenas
  /\ mapped \subseteq Regions
  /\ regions \subseteq mapped \X MmapRecords

NoLinks == [r \in MmapRecords |-> NULL]

EmptyArena ==
  [groups |-> 0, active |-> NULL, inactive |-> NULL,
   next |-> NoLinks, prev |-> NoLinks, region |-> NoLinks]

MmapInit == arena = EmptyArena /\ mapped = {} /\ regions = {}

MmapGroupRecords(g) == g * MmapPerGroup .. (g + 1) * MmapPerGroup - 1

\* allocate_mmap_record_group: the zeroed records of a new group are chained and
\* become the list of inactive records, which is empty when this is called.
AddMmapGroup(m) ==
  LET R == MmapGroupRecords(m.groups) IN
  [m EXCEPT !.groups = @ + 1, !.inactive = Min(R),
            !.next = [r \in MmapRecords |-> IF r \in R \ {Max(R)} THEN r + 1 ELSE @[r]],
            !.prev = [r \in MmapRecords |-> IF r \in R \ {Min(R)} THEN r - 1 ELSE @[r]]]

\* The arena when mmap_alloc looks for a record the second time.
WithRecords(m) ==
  IF m.inactive # NULL THEN {m}
  ELSE {m} \cup (IF m.groups < MmapMaxGroups THEN {AddMmapGroup(m)} ELSE {})

\* The head of the inactive records becomes the head of the active ones, with
\* region a; both lists are made of the same fields.
Activate(m, a) ==
  LET r == m.inactive IN
  [m EXCEPT !.inactive = m.next[r],
            !.active   = r,
            !.next     = Store(@, r, m.active),
            !.prev     = Store(Store(@, m.next[r], NULL), m.active, r),
            !.region   = Store(@, r, a)]

\* The outcomes of a call of mmap_alloc when the regions of 'free' are not
\* mapped; 'got' is the region or NULL, its record heads the active ones.
Outcomes(m, free) ==
  {[arena |-> n, got |-> NULL] : n \in WithRecords(m)} \cup
  UNION {{[arena |-> Activate(n, a), got |-> a] : a \in free} :
           n \in {o \in WithRecords(m) : o.inactive # NULL}}

\* Mutant of Retire: 'prev' survives in a record that becomes inactive.
RetireKeepsPrev(m, r) ==
  [m EXCEPT !.active   = IF m.prev[r] = NULL THEN m.next[r] ELSE @,
            !.inactive = r,
            !.next     = Store(Store(@, m.prev[r], m.next[r]), r, m.inactive),
            !.prev     = Store(Store(@, m.next[r], m.prev[r]), m.inactive, r),
            !.region   = Store(@, r, NULL)]

\* The arena after mmap_free of record r; a record without 'prev' is the head.
Retire(m, r) ==
  [m EXCEPT !.active   = IF m.prev[r] = NULL THEN m.next[r] ELSE @,
            !.inactive = r,
            !.next     = Store(Store(@, m.prev[r], m.next[r]), r, m.inactive),
            !.prev     = Store(Store(Store(@, m.next[r], m.prev[r]), r, NULL), m.inactive, r),
            !.region   = Store(@, r, NULL)]

MmapAlloc ==
  \E o \in Outcomes(arena, Regions \ mapped) :
    /\ arena' = o.arena
    /\ mapped' = mapped \cup ({o.got} \ {NULL})
    /\ regions' = IF o.got = NULL THEN regions ELSE regions \cup {<<o.got, o.arena.active>>}

MmapFree(r) ==
  /\ arena' = Retire(arena, r)
  /\ mapped' = mapped \ {arena.region[r]}
  /\ regions' = regions \ {<<arena.region[r], r>>}

MmapNext == MmapAlloc \/ \E c \in regions : MmapFree(c[2])

MmapSpec == MmapInit /\ [][MmapNext]_mmapVars

(***************************************************************************)
(* Properties                                                              *)
(***************************************************************************)

ActiveList(m)   == [head |-> m.active, next |-> m.next, prev |-> m.prev]
InactiveList(m) == [head |-> m.inactive, next |-> m.next, prev |-> m.prev]

\* "If this record is not in use, prev and next refer to the list of inactive
\* records.  If this record is in use, they refer to the list of active records"
\* (mmap.c:17): the lists share no record and lose none, although both use the
\* same fields, and mmap_free may tell the head by its prev being NULL.
RecordListsSound ==
  LET active == {r \in MmapRecords : arena.region[r] # NULL} IN
  /\ Chained(ActiveList(arena), active)
  /\ Chained(InactiveList(arena), {r \in MmapRecords : r < arena.groups * MmapPerGroup} \ active)

\* The system has mapped exactly the regions the callers hold, each through the
\* one record that will unmap it, also when one of the two mmaps of a call fails.
RegionsOwned ==
  /\ mapped = {c[1] : c \in regions}
  /\ regions = {<<arena.region[r], r>> : r \in {q \in MmapRecords : arena.region[q] # NULL}}

==============================================================================
