------------------------------ MODULE TreeCopy ------------------------------
(***************************************************************************)
(* Copying and clearing a red-black tree, rbtree.hpp: copy_tree_from,      *)
(* operator= (const rbtree&) with its reuse of nodes, and clear_subtree.   *)
(*                                                                         *)
(* The links of both trees are in one record, whose root is the target's.  *)
(* A step is a round of one of the loops.  Copying walks over the source   *)
(* with pointers up and down, and at the same time takes the old tree of   *)
(* the target apart from its leaves.                                       *)
(***************************************************************************)
EXTENDS RbTree, FiniteSets

VARIABLES
  heap,        \* the links; heap.root is the root of the target
  used,        \* the nodes that are allocated
  item,        \* what a node stores: the node of the source it was copied from
  from,        \* the root of the source
  src, dst,    \* a node of the source and its copy
  leaf,        \* a leaf of the old tree, or null
  old,         \* the root of the old tree
  curr,        \* the position of clear_subtree
  pc

vars == <<heap, used, item, from, src, dst, leaf, old, curr, pc>>

TypeOK ==
  /\ heap \in TreeType
  /\ used \subseteq Nodes
  /\ item \in [Nodes -> Nodes]
  /\ {from, src, dst, leaf, old, curr} \subseteq Nodes \cup {NULL}
  /\ pc \in {"start", "copy", "clear", "done"}
  /\ curr # NULL <=> pc = "clear"

\* Nodes of the two trees never coincide: each belongs to the tree it is in.
Joined(s, t) ==
  LET In(f, g) == [n \in Nodes |-> IF n \in Members(s) THEN f[n] ELSE g[n]]
  IN  [root |-> t.root, child |-> [d \in Sides |-> In(s.child[d], t.child[d])],
       parent |-> In(s.parent, t.parent), isLeft |-> In(s.isLeft, t.isLeft),
       red |-> In(s.red, t.red), fault |-> FALSE]

\* Any of the Sources is assigned to any of the Targets, which have other nodes.
Init(Sources, Targets) ==
  \E s \in Sources, t \in Targets :
    /\ heap = Joined(s, t)
    /\ used = Members(s) \cup Members(t)
    /\ item = [n \in Nodes |-> n]
    /\ from = s.root /\ src = NULL /\ dst = NULL
    /\ leaf = NULL /\ old = t.root /\ curr = NULL
    /\ pc = "start"

(***************************************************************************)
(* Leaves of the old tree                                                  *)
(***************************************************************************)
RECURSIVE FirstLeaf(_, _)
FirstLeaf(t, n) ==
  IF Child(t, n, "left") # NULL THEN FirstLeaf(t, Child(t, n, "left"))
  ELSE IF Child(t, n, "right") # NULL THEN FirstLeaf(t, Child(t, n, "right"))
  ELSE n

\* find_leaf(): n has lost a leaf and has no left child.
FindLeaf(t, n) == IF Child(t, n, "right") = NULL THEN n ELSE FirstLeaf(t, Child(t, n, "right"))

\* Mutant of Detach: the parent keeps the link to the leaf.
DetachOneWay(t, n) == [t EXCEPT !.parent[n] = NULL]

Detach(t, n) ==
  LET p == t.parent[n]
  IN  IF p = NULL THEN t ELSE [SetChildOnly(t, p, SideOf(t, n), NULL) EXCEPT !.parent[n] = NULL]

\* The leaf to take after n was.
NextLeaf(t, n) == IF t.parent[n] = NULL THEN NULL ELSE FindLeaf(Detach(t, n), t.parent[n])

(***************************************************************************)
(* Steps of the copy                                                       *)
(***************************************************************************)
Fresh == CHOOSE n \in Nodes : n \notin used

\* The flags of s, in assign_node_data() and allocate_node().
Flags(t, n, s) == [t EXCEPT !.red[n] = t.red[s], !.isLeft[n] = t.isLeft[s]]

\* Mutant of Place: always allocates.
PlaceFresh(s, d, side) ==
  LET n == Fresh
      u == Flags(heap, n, s)
  IN  /\ heap' = IF d = NULL THEN [u EXCEPT !.root = n] ELSE SetChildOnly(u, d, side, n)
      /\ item' = [item EXCEPT ![n] = item[s]]
      /\ used' = used \cup {n}
      /\ src' = s /\ dst' = n
      /\ UNCHANGED leaf

\* A node for the copy of s: the leaf if there is one, or a new node.  It is
\* linked to the copy d of the parent of s.
Place(s, d, side) ==
  LET n == IF leaf # NULL THEN leaf ELSE Fresh
      t == IF leaf # NULL THEN Detach(heap, leaf) ELSE heap
      u == Flags(t, n, s)
  IN  /\ heap' = IF d = NULL THEN [u EXCEPT !.root = n] ELSE SetChildOnly(u, d, side, n)
      /\ item' = [item EXCEPT ![n] = item[s]]
      /\ used' = used \cup {n}
      /\ leaf' = IF leaf # NULL THEN NextLeaf(heap, leaf) ELSE NULL
      /\ src' = s /\ dst' = n

\* operator=: an empty source clears the target, an empty target is copied to.
Start ==
  /\ pc = "start"
  /\ IF from = NULL
       THEN /\ pc' = IF old = NULL THEN "done" ELSE "clear"
            /\ curr' = old
            /\ UNCHANGED <<src, dst, leaf>>
       ELSE /\ pc' = "copy"
            /\ leaf' = IF old = NULL THEN NULL ELSE FirstLeaf(heap, old)
            /\ UNCHANGED <<src, dst, curr>>
  /\ UNCHANGED <<heap, used, item, from, old>>

CopyRoot ==
  /\ pc = "copy" /\ src = NULL
  /\ Place(from, NULL, "left")
  /\ UNCHANGED <<from, old, curr, pc>>

\* Going up from s and its copy d, the first node where a right subtree is left.
RECURSIVE Up(_, _, _)
Up(t, s, d) ==
  LET p == t.parent[s]
      q == t.parent[d]
  IN  IF p = NULL THEN [s |-> NULL, d |-> NULL]
      ELSE IF t.isLeft[s] /\ Child(t, p, "right") # NULL THEN [s |-> Child(t, p, "right"), d |-> q]
      ELSE Up(t, p, q)

Down(side) ==
  /\ pc = "copy" /\ src # NULL
  /\ Child(heap, src, side) # NULL
  /\ side = "right" => Child(heap, src, "left") = NULL
  /\ Place(Child(heap, src, side), dst, side)
  /\ UNCHANGED <<from, old, curr, pc>>

\* Mutant of Across: the loop is left only when the old tree is used up.
AcrossSpins ==
  /\ pc = "copy" /\ src # NULL
  /\ \A s \in Sides : Child(heap, src, s) = NULL
  /\ LET up == Up(heap, src, dst)
     IN  IF up.s # NULL THEN Place(up.s, up.d, "right") /\ UNCHANGED <<from, old, curr, pc>>
         ELSE /\ pc' = IF leaf = NULL THEN "done" ELSE "copy"
              /\ UNCHANGED <<heap, used, item, from, src, dst, leaf, old, curr>>

Across ==
  /\ pc = "copy" /\ src # NULL
  /\ \A s \in Sides : Child(heap, src, s) = NULL
  /\ LET up == Up(heap, src, dst)
     IN  IF up.s # NULL THEN Place(up.s, up.d, "right") /\ UNCHANGED <<from, old, curr, pc>>
         ELSE /\ pc' = IF leaf = NULL THEN "done" ELSE "clear"
              /\ curr' = IF leaf = NULL THEN NULL ELSE old
              /\ UNCHANGED <<heap, used, item, from, src, dst, leaf, old>>

(***************************************************************************)
(* clear_subtree                                                           *)
(***************************************************************************)

\* A leaf goes, and its parent forgets it; at the top of the subtree it ends.
ClearStep ==
  /\ pc = "clear"
  /\ LET n == FirstLeaf(heap, curr)
         p == heap.parent[n]
         t == IF n = old THEN heap ELSE SetChildOnly(heap, p, SideOf(heap, n), NULL)
     IN  /\ used' = used \ {n}
         /\ heap' = IF heap.root = n THEN [Forget(t, n) EXCEPT !.root = NULL] ELSE Forget(t, n)
         /\ pc'   = IF n = old THEN "done" ELSE "clear"
         /\ curr' = IF n = old THEN NULL ELSE p
  /\ UNCHANGED <<item, from, src, dst, leaf, old>>

Done == pc = "done" /\ UNCHANGED vars

Next == Start \/ CopyRoot \/ Down("left") \/ Down("right") \/ Across \/ ClearStep \/ Done

\* The loops run in one thread, which goes on.
Spec(Sources, Targets) == Init(Sources, Targets) /\ [][Next]_vars /\ WF_vars(Next)

(***************************************************************************)
(* Properties                                                              *)
(***************************************************************************)
Source == Below(heap, from)
OldTree == IF pc \in {"start", "clear"} \/ (pc = "copy" /\ leaf # NULL)
             THEN Below(heap, old) ELSE {}
Copy   == IF src = NULL THEN {} ELSE Below(heap, heap.root)

\* "we maintain the invariant that leaf is either nullptr or a leaf.  If it is a
\* right child, then its parent does not have left child"
LeafIsLeaf ==
  (pc = "copy" /\ leaf # NULL) =>
    /\ leaf \in OldTree
    /\ \A s \in Sides : Child(heap, leaf, s) = NULL
    /\ heap.parent[leaf] # NULL /\ ~heap.isLeft[leaf] =>
         Child(heap, heap.parent[leaf], "left") = NULL

\* In the middle of an assignment every allocated node is in one of three places:
\* the source, the copy so far, and what is left of the old tree.
NodesApart ==
  /\ used = Source \cup Copy \cup OldTree
  /\ Source \cap (Copy \cup OldTree) = {} /\ Copy \cap OldTree = {}

\* The copy of the subtree s is t: the same shape, colors, flags and contents.
RECURSIVE Alike(_, _, _)
Alike(h, s, t) ==
  IF s = NULL \/ t = NULL THEN s = t
  ELSE /\ h.red[s] = h.red[t] /\ h.isLeft[s] = h.isLeft[t] /\ item[t] = s
       /\ \A d \in Sides :
            /\ Alike(h, Child(h, s, d), Child(h, t, d))
            /\ Child(h, t, d) # NULL => h.parent[Child(h, t, d)] = t

\* After the assignment the target is the source again, in nodes of its own.
CopiedAlike ==
  pc = "done" => /\ Alike(heap, from, heap.root)
                 /\ heap.root # NULL => heap.parent[heap.root] = NULL

\* "as long as the old tree has at least one node remaining, we take one leaf node
\* at a time": memory is allocated only when the old tree is used up, and nothing
\* is freed before the copy is complete.
ReusesNodes ==
  /\ (used' # used /\ used \subseteq used') => OldTree = {}
  /\ ~(used \subseteq used') => Cardinality(Copy) = Cardinality(Source)

\* The source is only read.
SourceUntouched ==
  \A n \in Source :
    /\ heap'.parent[n] = heap.parent[n] /\ heap'.isLeft[n] = heap.isLeft[n]
    /\ heap'.red[n] = heap.red[n] /\ n \in used'
    /\ \A s \in Sides : Child(heap', n, s) = Child(heap, n, s)

\* The walk over the source and the freeing of what is left come to an end.
AssignmentEnds == <>(pc = "done")

=============================================================================
