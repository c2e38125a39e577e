-------------------------------- MODULE Lists --------------------------------
(***************************************************************************)
(* The intrusive doubly linked lists of src/memory/: a record carries its  *)
(* own 'next' and 'prev' fields for every list it may be in.  A list here  *)
(* is its head together with those two fields of all records.              *)
(***************************************************************************)
EXTENDS Naturals, FiniteSets

CONSTANT NULL

EmptyList(R) ==
  [head |-> NULL, next |-> [r \in R |-> NULL], prev |-> [r \in R |-> NULL]]

\* f[r] = v, skipped when r is NULL: the "if (p != NULL) p->field = v" idiom.
Store(f, r, v) == IF r = NULL THEN f ELSE [f EXCEPT ![r] = v]

\* r becomes the head.  Its own 'prev' is not written: it is expected to be NULL.
Push(l, r) ==
  [head |-> r, next |-> Store(l.next, r, l.head), prev |-> Store(l.prev, l.head, r)]

\* The head leaves the list, its 'next' is cleared.
PopHead(l) ==
  [head |-> l.next[l.head],
   next |-> Store(l.next, l.head, NULL),
   prev |-> Store(l.prev, l.next[l.head], NULL)]

\* r leaves the list from wherever it is.
Unlink(l, r) ==
  [head |-> IF l.head = r THEN l.next[r] ELSE l.head,
   next |-> Store(Store(l.next, l.prev[r], l.next[r]), r, NULL),
   prev |-> Store(Store(l.prev, l.next[r], l.prev[r]), r, NULL)]

\* No walk along 'prev' goes round in S: every part of S has a way out.
Acyclic(l, S) == \A T \in SUBSET S : T # {} => \E r \in T : l.prev[r] \notin T

\* The list holds exactly the records of S, each once, and 'prev' undoes 'next':
\* the invariants that buddy.c:70 states for the head and the tail.  A member of S
\* is reached from the head, as a walk along 'prev' ends there and nowhere else.
Chained(l, S) ==
  /\ l.head # NULL => l.head \in S /\ l.prev[l.head] = NULL
  /\ \A r \in S :
       /\ l.next[r] # NULL => l.next[r] \in S /\ l.prev[l.next[r]] = r
       /\ l.prev[r] # NULL => l.prev[r] \in S /\ l.next[l.prev[r]] = r
       /\ l.prev[r] = NULL => r = l.head
  /\ Acyclic(l, S)

\* The third invariant of buddy.c:70 as well: outsiders have no 'prev'.
Holds(l, S) == Chained(l, S) /\ \A r \in DOMAIN l.prev \ S : l.prev[r] = NULL

==============================================================================
