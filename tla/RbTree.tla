------------------------------- MODULE RbTree -------------------------------
(***************************************************************************)
(* The red-black tree of rbtree.hpp: the links of a tree and the functions *)
(* that change them.                                                       *)
(*                                                                         *)
(* A tree is a record.  The functions for the left and for the right of a  *)
(* node mirror each other in the code; here they are one operator with a   *)
(* side s.  Nodes carry their parent, their color and a flag that they are *)
(* a left child, and the code skips writing that flag where it believes it *)
(* is right already (SetChildOnly).  The root may be red.                  *)
(***************************************************************************)
EXTENDS Naturals

CONSTANTS Nodes, NULL

NullAssumption == NULL \notin Nodes

Sides == {"left", "right"}
Other(s) == IF s = "left" THEN "right" ELSE "left"

TreeType ==
  [root   : Nodes \cup {NULL},
   child  : [Sides -> [Nodes -> Nodes \cup {NULL}]],
   parent : [Nodes -> Nodes \cup {NULL}],
   isLeft : [Nodes -> BOOLEAN],
   red    : [Nodes -> BOOLEAN],
   fault  : BOOLEAN]          \* a null pointer was dereferenced

NoTree ==
  [root |-> NULL, child |-> [s \in Sides |-> [n \in Nodes |-> NULL]],
   parent |-> [n \in Nodes |-> NULL], isLeft |-> [n \in Nodes |-> FALSE],
   red |-> [n \in Nodes |-> FALSE], fault |-> FALSE]

IsRed(t, n)  == n # NULL /\ t.red[n]
SideOf(t, n) == IF t.isLeft[n] THEN "left" ELSE "right"
Child(t, n, s) == t.child[s][n]

Color(t, n, r) == [t EXCEPT !.red[n] = r]
Red(t, n)   == Color(t, n, TRUE)
Black(t, n) == Color(t, n, FALSE)

\* set_left and set_right, with and without the flag.
SetChildOnly(t, p, s, c) ==
  IF c = NULL THEN [t EXCEPT !.child[s][p] = NULL]
              ELSE [t EXCEPT !.child[s][p] = c, !.parent[c] = p]
SetChild(t, p, s, c) ==
  LET u == SetChildOnly(t, p, s, c)
  IN  IF c = NULL THEN u ELSE [u EXCEPT !.isLeft[c] = (s = "left")]

SetRoot(t, c) ==
  IF c = NULL THEN [t EXCEPT !.root = NULL]
              ELSE [t EXCEPT !.root = c, !.parent[c] = NULL, !.isLeft[c] = FALSE]

\* c takes the place on side s of p, or that of the root.
Attach(t, p, s, c) == IF p = NULL THEN SetRoot(t, c) ELSE SetChild(t, p, s, c)

\* c becomes the node at the top of a subtree whose other nodes are changed in u.
Result(u, c, done) == [tree |-> u, top |-> c, done |-> done]

(***************************************************************************)
(* Insertion                                                               *)
(***************************************************************************)

\* do_rb_insert_rebalance_left and _right: the subtree on side s of X was
\* changed; equal says that its black height is what it was.
RebalanceInsert(t, X, s, equal) ==
  LET o     == Other(s)
      uncle == Child(t, X, o)
      C     == Child(t, X, s)
      outer == Child(t, C, s)
      inner == Child(t, C, o)
  IN  CASE t.red[X]           -> Result(Black(t, X), X, FALSE)
        [] ~t.red[X] /\ equal -> Result(t, X, TRUE)
        [] ~t.red[X] /\ ~equal /\ IsRed(t, uncle) ->
             Result(Red(Black(t, uncle), X), X, FALSE)
        [] ~t.red[X] /\ ~equal /\ ~IsRed(t, uncle) /\ IsRed(t, outer) ->
             Result(Red(SetChild(SetChild(t, X, s, inner), C, o, X), X), C, TRUE)
        [] OTHER ->
             LET u == SetChild(SetChild(t, X, s, Child(t, inner, o)), C, o, Child(t, inner, s))
                 v == SetChild(SetChildOnly(u, inner, s, C), inner, o, X)
             IN  Result(Black(Red(Red(v, X), C), inner), inner, TRUE)

\* insert_rebalance: from X upwards, until nothing can be wrong any more.
RECURSIVE InsertRebalance(_, _, _, _)
InsertRebalance(t, X, s, equal) ==
  LET p   == t.parent[X]
      ps  == SideOf(t, X)
      res == RebalanceInsert(t, X, s, equal)
      u   == Attach(res.tree, p, ps, res.top)
  IN  IF p = NULL \/ res.done THEN u
      ELSE InsertRebalance(u, p, ps, ~t.red[X])

\* emplace_root, emplace_left and emplace_right with a new node n.
EmplaceRoot(t, n) == [t EXCEPT !.root = n]

EmplaceChild(t, X, s, n) ==
  LET u == Red(SetChild(t, X, s, n), n)
  IN  IF u.red[X] THEN InsertRebalance(u, X, s, TRUE) ELSE u

(***************************************************************************)
(* Removal                                                                 *)
(***************************************************************************)

\* do_rb_delete_rebalance_left and _right: the subtree on side s of X has lost
\* one from its black height.
RebalanceDelete(t, X, s) ==
  LET o  == Other(s)
      R  == Child(t, X, o)          \* the sibling of that subtree
      RL == Child(t, R, s)
      RR == Child(t, R, o)
      RLL == Child(t, RL, s)
      RLR == Child(t, RL, o)
      \* RL moves up between X and R
      Double == LET u == SetChild(SetChild(t, X, o, RLL), R, s, RLR)
                IN  SetChildOnly(SetChild(u, RL, s, X), RL, o, R)
      Single == SetChild(SetChild(t, X, o, RL), R, s, X)
  IN  CASE ~t.red[X] /\ ~t.red[R] /\ ~IsRed(t, RL) /\ ~IsRed(t, RR) ->
             Result(Red(t, R), X, FALSE)
        [] ~t.red[X] /\ ~t.red[R] /\ ~IsRed(t, RL) /\ IsRed(t, RR) ->
             Result(Black(Single, RR), R, TRUE)
        [] ~t.red[X] /\ ~t.red[R] /\ IsRed(t, RL) ->
             Result(Black(Double, RL), RL, TRUE)
        [] ~t.red[X] /\ t.red[R] /\ ~IsRed(t, RLL) ->
             LET u == SetChild(SetChild(t, X, o, RLL), RL, s, X)
             IN  Result(Black(Red(u, X), R), R, TRUE)
        [] ~t.red[X] /\ t.red[R] /\ IsRed(t, RLL) ->
             LET u == SetChild(SetChild(t, X, o, Child(t, RLL, s)), RL, s, Child(t, RLL, o))
                 v == SetChild(SetChild(u, RLL, s, X), RLL, o, RL)
             IN  Result(Black(SetChildOnly(v, R, s, RLL), R), R, TRUE)
        [] t.red[X] /\ ~IsRed(t, RL) -> Result(Single, R, TRUE)
        [] t.red[X] /\ IsRed(t, RL)  -> Result(Black(Double, X), RL, TRUE)

\* The loop at the end of remove_node.  It does not look whether it has arrived
\* at the root: the next round reads the parent of a null pointer.
RECURSIVE DeleteRebalance(_, _, _)
DeleteRebalance(t, X, s) ==
  IF X = NULL THEN [t EXCEPT !.fault = TRUE]
  ELSE LET p   == t.parent[X]
           ps  == SideOf(t, X)
           res == RebalanceDelete(t, X, s)
       IN  IF res.done THEN Attach(res.tree, p, ps, res.top)
           ELSE DeleteRebalance(res.tree, p, ps)

RECURSIVE Extreme(_, _, _)
Extreme(t, n, s) ==
  IF Child(t, n, s) = NULL THEN n ELSE Extreme(t, Child(t, n, s), s)

Forget(t, n) ==
  [t EXCEPT !.child = [s \in Sides |-> [@[s] EXCEPT ![n] = NULL]],
            !.parent[n] = NULL, !.isLeft[n] = FALSE, !.red[n] = FALSE]

\* X has at most one child, which takes its place.
RemoveWithGap(t, X) ==
  LET p == t.parent[X]
      s == SideOf(t, X)
      c == IF Child(t, X, "left") # NULL THEN Child(t, X, "left") ELSE Child(t, X, "right")
      u == Attach(Forget(t, X), p, s, c)
  IN  IF p = NULL \/ t.red[X] THEN u
      ELSE IF IsRed(u, c) THEN Black(u, c)
      ELSE DeleteRebalance(u, p, s)

\* Y, the next node in order, takes the place and the color of X.  Its own place
\* is filled by its right child, which turns black if Y was black.
RemoveWithSuccessor(t, X) ==
  LET p == t.parent[X]
      s == SideOf(t, X)
      R == Child(t, X, "right")
      Y == Extreme(t, R, "left")
      Z == Child(t, Y, "right")
      u == IF Y = R THEN Forget(t, X)
           ELSE SetChildOnly(SetChild(Forget(t, X), t.parent[Y], "left", Z), Y, "right", R)
      v == Color(SetChildOnly(u, Y, "left", Child(t, X, "left")), Y, t.red[X])
      settled == t.red[Y] \/ IsRed(t, Z)
      w == IF ~t.red[Y] /\ IsRed(t, Z) THEN Black(v, Z) ELSE v
      \* which of the two flags is written depends on where Y comes from
      x == IF p # NULL /\ s = (IF Y = R THEN "right" ELSE "left")
             THEN SetChildOnly(w, p, s, Y) ELSE Attach(w, p, s, Y)
  IN  IF settled THEN x
      ELSE IF Y = R THEN DeleteRebalance(x, Y, "right")
      ELSE DeleteRebalance(x, t.parent[Y], "left")

RemoveNode(t, X) ==
  IF \E s \in Sides : Child(t, X, s) = NULL THEN RemoveWithGap(t, X)
                                            ELSE RemoveWithSuccessor(t, X)

(***************************************************************************)
(* What a tree is                                                          *)
(***************************************************************************)

\* The nodes below and including n in order, and its black height; both as the
\* links from the parents have it.
RECURSIVE Below(_, _), BlackHeights(_, _)
Below(t, n) ==
  IF n = NULL THEN {} ELSE {n} \cup UNION {Below(t, Child(t, n, s)) : s \in Sides}
BlackHeights(t, n) ==
  IF n = NULL THEN {0}
  ELSE LET b == UNION {BlackHeights(t, Child(t, n, s)) : s \in Sides}
       IN  IF t.red[n] THEN b ELSE {h + 1 : h \in b}

Members(t) == Below(t, t.root)

=============================================================================
