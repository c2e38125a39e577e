------------------------------ MODULE HandleSeq ------------------------------
(***************************************************************************)
(* What list.hpp promises: sequences of values, and handles that stay with *)
(* their element while others come and go and while the whole sequence     *)
(* moves to another list, and that know when it is removed.                *)
(***************************************************************************)
EXTENDS Naturals, Sequences

CONSTANTS Lists, Values, Handles, None, Gone

S == INSTANCE SequencesExt

VARIABLES content, place

vars == <<content, place>>

At(l, i) == [list |-> l, index |-> i]

Init ==
  /\ content = [l \in Lists |-> <<>>]
  /\ place = [h \in Handles |-> None]

Points(p, l) == p \notin {None, Gone} /\ p.list = l

\* The handles of list l when an element comes to, or goes from, the index i.
Inserted(l, i) ==
  [h \in Handles |-> IF Points(place[h], l) /\ place[h].index >= i
                       THEN At(l, place[h].index + 1) ELSE place[h]]
Removed(l, i) ==
  [h \in Handles |-> IF ~Points(place[h], l) \/ place[h].index < i THEN place[h]
                     ELSE IF place[h].index = i THEN Gone ELSE At(l, place[h].index - 1)]

\* The first n elements of l stay.
Kept(l, n) ==
  [h \in Handles |-> IF Points(place[h], l) /\ place[h].index > n THEN Gone ELSE place[h]]

\* The handle h is the result.
Insert(l, i, v, h) ==
  /\ place' = [Inserted(l, i) EXCEPT ![h] = At(l, i)]
  /\ content' = [content EXCEPT ![l] = S!InsertAt(@, i, v)]

Remove(l, i) ==
  /\ content' = [content EXCEPT ![l] = S!RemoveAt(@, i)]
  /\ place' = Removed(l, i)

Set(l, i, v) == content' = [content EXCEPT ![l][i] = v] /\ UNCHANGED place

\* A handle to some element, a copy of another handle, or none.
Point(h, p) == place' = [place EXCEPT ![h] = p] /\ UNCHANGED content

Clear(l) == content' = [content EXCEPT ![l] = <<>>] /\ place' = Kept(l, 0)

Copy(l, k) == content' = [content EXCEPT ![l] = content[k]] /\ place' = Kept(l, Len(content[k]))

Move(l, k) ==
  /\ l # k
  /\ content' = [content EXCEPT ![l] = content[k], ![k] = <<>>]
  /\ place' = [h \in Handles |-> IF Points(place[h], l) THEN Gone
                                 ELSE IF Points(place[h], k) THEN At(l, place[h].index)
                                 ELSE place[h]]

Next ==
  \/ \E h \in Handles, p \in S!Range(place) \cup {None} : Point(h, p)
  \/ \E l \in Lists :
       \/ \E i \in 1 .. Len(content[l]) + 1, v \in Values, h \in Handles : Insert(l, i, v, h)
       \/ \E i \in 1 .. Len(content[l]) :
            \/ Remove(l, i)
            \/ \E v \in Values : Set(l, i, v)
            \/ \E h \in Handles : Point(h, At(l, i))
       \/ Clear(l)
       \/ \E k \in Lists : Copy(l, k) \/ Move(l, k)

Spec == Init /\ [][Next]_vars

=============================================================================
