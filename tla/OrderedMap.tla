----------------------------- MODULE OrderedMap -----------------------------
(***************************************************************************)
(* map.hpp and set.hpp: keys in order in a red-black tree.                 *)
(*                                                                         *)
(* Keys are numbers, and the node that holds a key is named by it.  A call *)
(* that succeeds for a key which is in the tree uses the node the search   *)
(* arrives at.  A set is a map with one value.                             *)
(***************************************************************************)
EXTENDS RbTree, FiniteSets

CONSTANTS Values, None

OrderedMapAssumption == Nodes \subseteq Nat /\ None \notin Values

Keys == Nodes

VARIABLES
  tree,    \* tree_
  val,     \* the values in the nodes; None where there is no node
  size,    \* size_
  status   \* "running"; "terminated" by std::terminate(), "fault" by a null pointer

vars == <<tree, val, size, status>>

TypeOK ==
  /\ tree \in TreeType
  /\ val \in [Keys -> Values \cup {None}]
  /\ size \in Nat
  /\ status \in {"running", "terminated", "fault"}

Init ==
  /\ tree = NoTree
  /\ val = [k \in Keys |-> None]
  /\ size = 0
  /\ status = "running"

(***************************************************************************)
(* Walks through the tree                                                  *)
(***************************************************************************)

Toward(k, n) == IF k < n THEN "left" ELSE "right"

\* search(): the node of k below n, or null.
RECURSIVE Search(_, _, _)
Search(t, n, k) ==
  IF n = NULL \/ n = k THEN n ELSE Search(t, Child(t, n, Toward(k, n)), k)

\* The node below n at which emplace_null() leaves off.
RECURSIVE Descend(_, _, _)
Descend(t, n, k) ==
  LET c == Child(t, n, Toward(k, n))
  IN  IF n = k \/ c = NULL THEN n ELSE Descend(t, c, k)

\* max() and min().
End(t, s) == IF t.root = NULL THEN NULL ELSE Extreme(t, t.root, s)

RECURSIVE Climb(_, _, _)
Climb(t, n, s) ==
  LET p == t.parent[n]
  IN  IF p # NULL /\ n = Child(t, p, s) THEN Climb(t, p, s) ELSE p

\* Mutant of Neighbour: climbs one step only.
NeighbourNear(t, n, s) ==
  IF Child(t, n, s) # NULL THEN Extreme(t, Child(t, n, s), Other(s)) ELSE t.parent[n]

\* next() for s = "right", prev() for s = "left".
Neighbour(t, n, s) ==
  IF Child(t, n, s) # NULL THEN Extreme(t, Child(t, n, s), Other(s)) ELSE Climb(t, n, s)

(***************************************************************************)
(* Operations                                                              *)
(***************************************************************************)
Running == status = "running"

\* Mutant of Inserted: the value is assigned at the node where the search ended.
InsertedBeside(k, v, w) ==
  IF size = 0
    THEN tree' = EmplaceRoot(tree, k) /\ val' = [val EXCEPT ![k] = v] /\ size' = 1 /\ UNCHANGED status
    ELSE LET n == Descend(tree, tree.root, k)
         IN  /\ tree' = IF n = k THEN tree ELSE EmplaceChild(tree, n, Toward(k, n), k)
             /\ val'  = IF n = k THEN [val EXCEPT ![n] = w] ELSE [val EXCEPT ![k] = v, ![n] = v]
             /\ size' = IF n = k THEN size ELSE size + 1
             /\ UNCHANGED status

\* emplace_null(): a new node gets v.  In a node that is there the value turns
\* into w.
Inserted(k, v, w) ==
  IF size = 0
    THEN IF tree.root # NULL THEN status' = "terminated" /\ UNCHANGED <<tree, val, size>>
         ELSE /\ tree' = EmplaceRoot(tree, k)
              /\ val'  = [val EXCEPT ![k] = v]
              /\ size' = 1
              /\ UNCHANGED status
    ELSE LET n == Descend(tree, tree.root, k)
         IN  IF n = k THEN val' = [val EXCEPT ![n] = w] /\ UNCHANGED <<tree, size, status>>
             ELSE /\ tree' = EmplaceChild(tree, n, Toward(k, n), k)
                  /\ val'  = [val EXCEPT ![k] = v]
                  /\ size' = size + 1
                  /\ UNCHANGED status

\* insert(), emplace() and insert_default(): they leave a value that is there.
Insert(k, v) == Running /\ Inserted(k, v, val[k])

InsertOrAssign(k, v) == Running /\ Inserted(k, v, v)

\* remove(), by key or with a handle to the node.
Remove(k) ==
  LET n == Search(tree, tree.root, k)
      u == RemoveNode(tree, n)
  IN  /\ Running /\ n # NULL
      /\ IF u.fault THEN status' = "fault" /\ UNCHANGED <<tree, val, size>>
         ELSE /\ tree' = u
              /\ val'  = [val EXCEPT ![n] = None]
              /\ size' = size - 1
              /\ UNCHANGED status

Clear ==
  /\ Running
  /\ tree' = NoTree
  /\ val'  = [k \in Keys |-> IF k \in Members(tree) THEN None ELSE val[k]]
  /\ size' = 0
  /\ UNCHANGED status

Dead == ~Running /\ UNCHANGED vars

\* The calls with the keys K and the values V.
CallWith(K, V) ==
  \/ \E k \in K, v \in V : Insert(k, v) \/ InsertOrAssign(k, v)
  \/ \E k \in K : Remove(k)
  \/ Clear
  \/ Dead

Next == CallWith(Keys, Values)

Spec == Init /\ [][Next]_vars

(***************************************************************************)
(* Properties                                                              *)
(***************************************************************************)

\* The links of the tree agree: a node is the child of its parent on the side
\* that its flag says, the root has no parent and no flag, and the nodes that
\* can be reached are those that are allocated.
NodesLinked ==
  /\ Members(tree) = {k \in Keys : val[k] # None}
  /\ tree.root # NULL => tree.parent[tree.root] = NULL /\ ~tree.isLeft[tree.root]
  /\ \A n \in Members(tree), s \in Sides :
       LET c == Child(tree, n, s)
       IN  c # NULL => tree.parent[c] = n /\ tree.isLeft[c] = (s = "left")

\* Every rotation and every replacement of a removed node keeps the keys in order.
InOrder ==
  \A n \in Members(tree) :
    /\ \A m \in Below(tree, Child(tree, n, "left"))  : m < n
    /\ \A m \in Below(tree, Child(tree, n, "right")) : m > n

\* No red node has a red child, and all ways down from a node pass equally many
\* black ones: a tree of n nodes is at most 2 log(n + 1) + 1 high, whatever was
\* inserted and removed before.
Balanced ==
  /\ \A n \in Members(tree), s \in Sides :
       tree.red[n] => ~IsRed(tree, Child(tree, n, s))
  /\ \A n \in Members(tree) : Cardinality(BlackHeights(tree, n)) = 1

Least(S)    == CHOOSE m \in S : \A n \in S : m <= n
Greatest(S) == CHOOSE m \in S : \A n \in S : m >= n

\* next() and prev() lead from every key to the one that follows or precedes it,
\* min() and max() to the first and the last.
NeighboursInOrder ==
  LET M == Members(tree)
      Or(S, f) == IF S = {} THEN NULL ELSE f
  IN  /\ End(tree, "left")  = Or(M, Least(M))
      /\ End(tree, "right") = Or(M, Greatest(M))
      /\ \A n \in M :
           LET above == {m \in M : m > n}
               below == {m \in M : m < n}
           IN  /\ Neighbour(tree, n, "right") = Or(above, Least(above))
               /\ Neighbour(tree, n, "left")  = Or(below, Greatest(below))

\* The one way to a fault is the loop of a removal that goes on past the root
\* (rbtree.hpp:1044), and it only does where all ways down from the root are to
\* become shorter: the root and its children are black.
FaultsPastRootOnly ==
  status = "fault" =>
    /\ tree.root # NULL /\ ~tree.red[tree.root]
    /\ \A s \in Sides : ~IsRed(tree, Child(tree, tree.root, s))

\* size_ is the number of keys, so emplace_null() makes a root just when there
\* is none, and never terminates the program.
SizeExact == size = Cardinality(Members(tree)) /\ status # "terminated"

\* The dictionary that the tree t with the values f is: what search() finds.
Represented(t, f) ==
  [k \in Keys |-> LET n == Search(t, t.root, k) IN IF n = NULL THEN None ELSE f[n]]

=============================================================================
