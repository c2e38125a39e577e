------------------------------ MODULE TaggedList ------------------------------
(***************************************************************************)
(* list.hpp: doubly linked lists of tagged allocations.  A node carries    *)
(* the ID of the list that allocated it, the handles of the user are       *)
(* counted_refs to nodes, and a removed node with handles stays as a       *)
(* tombstone.  An action is a call.                                        *)
(***************************************************************************)
EXTENDS Naturals, Sequences, FiniteSets

CONSTANTS
  Lists,     \* list objects
  Nodes,     \* addresses of nodes
  Handles,   \* handle objects of the user
  Values,
  NULL,
  Gone,      \* the place of a handle to a removed element
  MaxId      \* bound on the IDs that get_tls_counter() gives out

TaggedListAssumption ==
  /\ NULL \notin Nodes /\ IsFiniteSet(Nodes) /\ Gone # NULL
  /\ IsFiniteSet(Lists) /\ MaxId \in Nat /\ Cardinality(Lists) <= MaxId + 1
  /\ {NULL, Gone} \cap [list : Lists, index : 1 .. Cardinality(Nodes)] = {}

VARIABLES
  m,         \* lists: head, tail, len, id; nodes: prev, next, data, nid and the set 'live'
  tomb,      \* removed nodes that handles point to
  handle,
  ids,       \* IDs given out
  stopped,   \* std::terminate() was called
  view       \* what HandleSeq sees of m, tomb and handle

vars == <<m, tomb, handle, ids, stopped, view>>

Init ==
  /\ \E f \in [Lists -> 0 .. Cardinality(Lists) - 1] :
       /\ \A k, l \in Lists : f[k] = f[l] => k = l
       /\ m = [head |-> [l \in Lists |-> NULL], tail |-> [l \in Lists |-> NULL],
               len |-> [l \in Lists |-> 0], id |-> f, live |-> {},
               prev |-> [n \in Nodes |-> NULL], next |-> [n \in Nodes |-> NULL],
               data |-> [n \in Nodes |-> NULL], nid |-> [n \in Nodes |-> 0]]
  /\ tomb = {} /\ handle = [h \in Handles |-> NULL]
  /\ ids = Cardinality(Lists) /\ stopped = FALSE
  /\ view = [content |-> [l \in Lists |-> <<>>], place |-> [h \in Handles |-> NULL]]

(***************************************************************************)
(* The chain                                                               *)
(***************************************************************************)

\* p->next = n, or the head of the list where there is no p; and the reverse.
SetNext(s, l, p, n) == IF p = NULL THEN [s EXCEPT !.head[l] = n] ELSE [s EXCEPT !.next[p] = n]
SetPrev(s, l, n, p) == IF n = NULL THEN [s EXCEPT !.tail[l] = p] ELSE [s EXCEPT !.prev[n] = p]

\* create_node_empty(), create_node_before() and create_node_after(): a node between
\* p and n, which are neighbours or the ends.
CreateNode(s, l, p, n, new, v) ==
  LET c == [s EXCEPT !.live = @ \cup {new}, !.nid[new] = s.id[l], !.data[new] = v,
                     !.prev[new] = p, !.next[new] = n, !.len[l] = @ + 1]
  IN  SetPrev(SetNext(c, l, p, new), l, n, new)

\* Mutant of RemoveNode: the next node keeps its way back.
RemoveNodeForward(s, l, n) ==
  LET u == SetNext(s, l, s.prev[n], s.next[n])
      t == IF s.next[n] = NULL THEN SetPrev(u, l, NULL, s.prev[n]) ELSE u
  IN  [t EXCEPT !.live = @ \ {n}, !.len[l] = @ - 1, !.data[n] = NULL, !.nid[n] = 0,
                !.prev[n] = NULL, !.next[n] = NULL]

\* remove_node(), pop_front_unsafe() and pop_back_unsafe(), which are it at the ends.
RemoveNode(s, l, n) ==
  LET u == SetPrev(SetNext(s, l, s.prev[n], s.next[n]), l, s.next[n], s.prev[n])
  IN  [u EXCEPT !.live = @ \ {n}, !.len[l] = @ - 1, !.data[n] = NULL, !.nid[n] = 0,
                !.prev[n] = NULL, !.next[n] = NULL]

\* The nodes from n on.
From(s, n) ==
  LET after(p) == IF p = NULL THEN NULL ELSE s.next[p]
      at[i \in 0 .. Cardinality(Nodes)] == IF i = 0 THEN n ELSE after(at[i - 1])
  IN  [i \in 1 .. Cardinality({k \in 0 .. Cardinality(Nodes) - 1 : at[k] # NULL}) |-> at[i - 1]]
Walk(s, l) == From(s, s.head[l])

\* The nodes w are removed, one after the other.
Removed(s, l, w) ==
  LET after[i \in 0 .. Len(w)] == IF i = 0 THEN s ELSE RemoveNode(after[i - 1], l, w[i])
  IN  after[Len(w)]

ClearAll(s, l) == Removed(s, l, Walk(s, l))

\* An address from the allocator.
FreshNode == CHOOSE n \in Nodes : n \notin m.live \cup tomb
HasRoom(k) == Cardinality(m.live \cup tomb) + k <= Cardinality(Nodes)

PushBack(s, l, new, v) == CreateNode(s, l, s.tail[l], NULL, new, v)

\* The values v are pushed, in nodes at the addresses 'new'.
Pushed(s, l, new, v) ==
  LET after[i \in 0 .. Len(v)] == IF i = 0 THEN s ELSE PushBack(after[i - 1], l, new[i], v[i])
  IN  after[Len(v)]

\* Mutant of CopyAssigned: what is pushed is taken from the start of the other list.
CopyAssignedAgain(s, l, k, new) ==
  LET p == Walk(s, l)
      q == Walk(s, k)
      both == IF Len(p) < Len(q) THEN Len(p) ELSE Len(q)
      a == [s EXCEPT !.data = [n \in Nodes |->
              IF \E i \in 1 .. both : p[i] = n THEN s.data[q[CHOOSE i \in 1 .. both : p[i] = n]]
              ELSE @[n]]]
      r == Removed(a, l, SubSeq(p, both + 1, Len(p)))
  IN  IF l = k THEN s ELSE
      Pushed(r, l, new, [i \in 1 .. Len(q) - both |-> s.data[q[i]]])

\* operator= (const list&): nodes are reused, then removed or pushed; 'new' are addresses.
CopyAssigned(s, l, k, new) ==
  LET p == Walk(s, l)
      q == Walk(s, k)
      both == IF Len(p) < Len(q) THEN Len(p) ELSE Len(q)
      a == [s EXCEPT !.data = [n \in Nodes |->
              IF \E i \in 1 .. both : p[i] = n THEN s.data[q[CHOOSE i \in 1 .. both : p[i] = n]]
              ELSE @[n]]]
      r == Removed(a, l, SubSeq(p, both + 1, Len(p)))
  IN  IF l = k THEN s ELSE
      Pushed(r, l, new, [i \in 1 .. Len(q) - both |-> s.data[q[both + i]]])

\* operator= (list&&): nodes and ID change hands, the other list gets a new ID.
MoveAssigned(s, l, k, id) ==
  LET c == ClearAll(s, l)
  IN  [c EXCEPT !.head[l] = s.head[k], !.tail[l] = s.tail[k], !.len[l] = s.len[k], !.id[l] = s.id[k],
                !.head[k] = NULL, !.tail[k] = NULL, !.len[k] = 0, !.id[k] = id]

(***************************************************************************)
(* Handles                                                                 *)
(***************************************************************************)

\* counted_ref::check(), and the test for null.
Check(h, l) == handle[h] \in m.live /\ m.nid[handle[h]] = m.id[l]

View(s, g) ==
  [content |-> [l \in Lists |-> LET w == Walk(s, l) IN [i \in DOMAIN w |-> s.data[w[i]]]],
   place |-> [h \in Handles |->
         IF g[h] = NULL THEN NULL
         ELSE IF g[h] \notin s.live THEN Gone
         ELSE CHOOSE p \in [list : Lists, index : 1 .. Cardinality(Nodes)] :
                p.index <= s.len[p.list] /\ Walk(s, p.list)[p.index] = g[h]]]

\* The chain becomes s and the handles g: nodes with handles stay as tombstones.
Become(s, g) ==
  /\ m' = s /\ handle' = g /\ view' = View(m', handle')
  /\ tomb' = {n \in (m.live \ m'.live) \cup tomb : \E h \in Handles : g[h] = n}

Running == ~stopped /\ UNCHANGED stopped

\* push_*(), emplace_*(): at the ends, before or after the handle 'at', with the result h.
PushFront(l, v, h) ==
  /\ Running /\ HasRoom(1)
  /\ Become(CreateNode(m, l, NULL, m.head[l], FreshNode, v), [handle EXCEPT ![h] = FreshNode])
  /\ UNCHANGED ids

PushBackCall(l, v, h) ==
  /\ Running /\ HasRoom(1)
  /\ Become(PushBack(m, l, FreshNode, v), [handle EXCEPT ![h] = FreshNode])
  /\ UNCHANGED ids

InsertBefore(l, at, v, h) ==
  /\ Running /\ Check(at, l) /\ HasRoom(1)
  /\ Become(CreateNode(m, l, m.prev[handle[at]], handle[at], FreshNode, v),
            [handle EXCEPT ![h] = FreshNode])
  /\ UNCHANGED ids

InsertAfter(l, at, v, h) ==
  /\ Running /\ Check(at, l) /\ HasRoom(1)
  /\ Become(CreateNode(m, l, handle[at], m.next[handle[at]], FreshNode, v),
            [handle EXCEPT ![h] = FreshNode])
  /\ UNCHANGED ids

\* pop_front() and pop_back().
PopEnd(l) ==
  /\ Running /\ m.head[l] # NULL
  /\ \E n \in {m.head[l], m.tail[l]} : Become(RemoveNode(m, l, n), handle)
  /\ UNCHANGED ids

\* remove() and inform_destruct().
Remove(l, h) == Running /\ Check(h, l) /\ Become(RemoveNode(m, l, handle[h]), handle) /\ UNCHANGED ids

\* A write through data().
Write(l, h, v) ==
  /\ Running /\ Check(h, l)
  /\ Become([m EXCEPT !.data[handle[h]] = v], handle) /\ UNCHANGED ids

Clear(l) == Running /\ Become(ClearAll(m, l), handle) /\ UNCHANGED ids

\* front(), back(), and prev() and next() of a handle, assigned to h.
Ends(l, h) ==
  /\ Running
  /\ \E n \in {m.head[l], m.tail[l]} : Become(m, [handle EXCEPT ![h] = n])
  /\ UNCHANGED ids
Step(l, at, h) ==
  /\ Running /\ Check(at, l)
  /\ \E n \in {m.prev[handle[at]], m.next[handle[at]]} : Become(m, [handle EXCEPT ![h] = n])
  /\ UNCHANGED ids

\* A handle is copied or ends.
CopyHandle(h, g) == Running /\ Become(m, [handle EXCEPT ![h] = handle[g]]) /\ UNCHANGED ids
DropHandle(h) == Running /\ Become(m, [handle EXCEPT ![h] = NULL]) /\ UNCHANGED ids

\* The addresses of k new nodes, in the order of their allocation.
FreshNodes(k) == CHOOSE f \in [1 .. k -> Nodes \ (m.live \cup tomb)] : \A i, j \in 1 .. k : f[i] = f[j] => i = j

Assign(l, k) ==
  LET more == IF m.len[k] > m.len[l] /\ l # k THEN m.len[k] - m.len[l] ELSE 0
  IN  /\ Running /\ HasRoom(more)
      /\ Become(CopyAssigned(m, l, k, FreshNodes(more)), handle)
      /\ UNCHANGED ids

\* The move assignment; the move constructor is it for an empty list.
Move(l, k) ==
  /\ Running /\ l # k /\ ids <= MaxId
  /\ Become(MoveAssigned(m, l, k, ids), handle) /\ ids' = ids + 1

\* A call with a handle that is null, of another list, or of a removed element.
Misuse(l, h) ==
  /\ ~stopped /\ ~Check(h, l) /\ stopped' = TRUE
  /\ UNCHANGED <<m, tomb, handle, ids, view>>

Stop == stopped /\ UNCHANGED vars

Next ==
  \/ \E l \in Lists, h \in Handles :
       \/ \E v \in Values : \/ PushFront(l, v, h) \/ PushBackCall(l, v, h) \/ Write(l, h, v)
                            \/ \E g \in Handles : InsertBefore(l, g, v, h) \/ InsertAfter(l, g, v, h)
       \/ \E g \in Handles : Step(l, g, h) \/ CopyHandle(h, g)
       \/ Remove(l, h) \/ Ends(l, h) \/ DropHandle(h) \/ Misuse(l, h)
  \/ \E l \in Lists : PopEnd(l) \/ Clear(l) \/ \E k \in Lists : Assign(l, k) \/ Move(l, k)
  \/ Stop

Spec == Init /\ [][Next]_vars

(***************************************************************************)
(* Properties                                                              *)
(***************************************************************************)
TypeOK ==
  /\ m.live \subseteq Nodes /\ tomb \subseteq Nodes \ m.live
  /\ m.head \in [Lists -> m.live \cup {NULL}] /\ m.tail \in [Lists -> m.live \cup {NULL}]
  /\ m.len \in [Lists -> 0 .. Cardinality(Nodes)] /\ m.id \in [Lists -> 0 .. MaxId]
  /\ m.prev \in [Nodes -> Nodes \cup {NULL}] /\ m.next \in [Nodes -> Nodes \cup {NULL}]
  /\ m.data \in [Nodes -> Values \cup {NULL}] /\ m.nid \in [Nodes -> 0 .. MaxId]
  /\ handle \in [Handles -> Nodes \cup {NULL}] /\ ids \in 0 .. MaxId + 1 /\ stopped \in BOOLEAN

InList(n, l) == \E i \in DOMAIN Walk(m, l) : Walk(m, l)[i] = n

\* Forward and backward the chain is the same, and the lists share no node and
\* hold all of them, so that no node is lost or freed twice.
ChainsSound ==
  /\ \A l \in Lists :
       LET w == Walk(m, l)
       IN  /\ Len(w) = m.len[l]
           /\ m.tail[l] = IF w = <<>> THEN NULL ELSE w[Len(w)]
           /\ \A i \in 1 .. Len(w) : m.prev[w[i]] = IF i = 1 THEN NULL ELSE w[i - 1]
  /\ \A n \in Nodes : Cardinality({l \in Lists : InList(n, l)}) = IF n \in m.live THEN 1 ELSE 0

\* A list takes a handle exactly when it holds the element, also after the elements
\* moved to another list object: IDs tell all lists apart that ever were.
AcceptsItsOwn == \A h \in Handles, l \in Lists : Check(h, l) <=> InList(handle[h], l)

\* Handles point to elements or to tombstones, and tombstones have handles.
TombstonesHeld ==
  LET pointed == {handle[h] : h \in Handles} \ {NULL}
  IN  pointed \subseteq m.live \cup tomb /\ tomb \subseteq pointed

Abstract == INSTANCE HandleSeq
  WITH content <- view.content, place <- view.place, None <- NULL

\* Lists are sequences and handles stay with their elements.
IsHandleSeq == Abstract!Spec

=============================================================================
