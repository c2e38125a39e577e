---------------------------- MODULE MemoryLemmas ----------------------------
(***************************************************************************)
(* Lemmas that the proofs share: what the operations of Lists do to a      *)
(* sound list, where R is the set of all records and S the set of those    *)
(* that are in the list, nodes between others and walks, the least element *)
(* of a set of numbers, powers of two, and groups of records.              *)
(***************************************************************************)
EXTENDS Lists, FiniteSetsExt, FiniteSetTheorems, WellFoundedInduction, TLAPS

NatLess == {p \in Nat \X Nat : p[1] < p[2]}

\* Min finds the least element of a set of natural numbers.
LEMMA MinOfNaturals ==
  ASSUME NEW S \in SUBSET Nat, S # {}
  PROVE  Min(S) \in S /\ \A n \in S : Min(S) <= n
<1>0. OpToRel(<, Nat) = {p \in Nat \X Nat : p[1] < p[2]}
  BY Zenon DEF OpToRel
<1>1. IsWellFoundedOn(NatLess, Nat)
  BY <1>0, NatLessThanWellFounded, Zenon DEF NatLess
<1>2. PICK x \in S : \A y \in S : ~ (<<y, x>> \in NatLess)
  BY <1>1, WFMin, Zenon
<1>3. ASSUME NEW y \in S PROVE x <= y
  <2>1. <<y, x>>[1] = y /\ <<y, x>>[2] = x /\ <<y, x>> \in Nat \X Nat
    OBVIOUS
  <2>2. ~ (y < x)
    BY <1>2, <2>1, Zenon DEF NatLess
  <2> QED
    BY <2>2
<1> QED
  BY <1>3 DEF Min

\* The same, as it is mostly used.
LEMMA LeastOf ==
  ASSUME NEW S \in SUBSET Nat, S # {}
  PROVE  \E z \in S : \A k \in S : z <= k
BY MinOfNaturals

IsList(l, R) ==
  l \in [head : R \cup {NULL}, next : [R -> R \cup {NULL}], prev : [R -> R \cup {NULL}]]

\* A list is sound or not by its head and the links of its members.
LEMMA ChainedFrame ==
  ASSUME NEW l, NEW l2, NEW S,
         Chained(l, S),
         l2.head = l.head,
         \A r \in S : l2.next[r] = l.next[r] /\ l2.prev[r] = l.prev[r]
  PROVE  Chained(l2, S)
<1>1. l2.head # NULL => l2.head \in S /\ l2.prev[l2.head] = NULL
  BY DEF Chained
<1>2. ASSUME NEW r \in S
      PROVE  /\ l2.next[r] # NULL => l2.next[r] \in S /\ l2.prev[l2.next[r]] = r
             /\ l2.prev[r] # NULL => l2.prev[r] \in S /\ l2.next[l2.prev[r]] = r
             /\ l2.prev[r] = NULL => r = l2.head
  BY <1>2 DEF Chained
<1>3. Acyclic(l2, S)
  BY DEF Chained, Acyclic
<1> QED
  BY <1>1, <1>2, <1>3 DEF Chained

\* The records of a list that is not empty include its head.
LEMMA HeadOfMembers ==
  ASSUME NEW l, NEW S, Chained(l, S), S # {}
  PROVE  l.head \in S
<1>1. PICK r \in S : l.prev[r] \notin S
  BY DEF Chained, Acyclic
<1>2. l.prev[r] = NULL
  BY <1>1 DEF Chained
<1> QED
  BY <1>2 DEF Chained

\* A record with neither neighbour is alone in its list.
LEMMA AloneInList ==
  ASSUME NEW l, NEW S, Chained(l, S), NEW r \in S, NULL \notin S,
         l.prev[r] = NULL, l.next[r] = NULL
  PROVE  S = {r}
<1> SUFFICES ASSUME S \ {r} # {} PROVE FALSE
  OBVIOUS
<1>1. PICK q \in S \ {r} : l.prev[q] \notin S \ {r}
  BY DEF Chained, Acyclic
<1>2. CASE l.prev[q] = NULL
  BY <1>1, <1>2 DEF Chained
<1>3. CASE l.prev[q] # NULL
  BY <1>1, <1>3 DEF Chained
<1> QED
  BY <1>2, <1>3

\* A record outside becomes the head, if its own 'prev' is NULL by then.
LEMMA ChainedPush ==
  ASSUME NEW l, NEW l2, NEW S, NEW r, r \notin S, r # NULL, NULL \notin S,
         Chained(l, S),
         l2.head = r,
         l2.next[r] = l.head,
         l2.prev[r] = NULL,
         \A q \in S : /\ l2.next[q] = l.next[q]
                      /\ l2.prev[q] = IF q = l.head THEN r ELSE l.prev[q]
  PROVE  Chained(l2, S \cup {r})
<1>1. l2.head # NULL => l2.head \in S \cup {r} /\ l2.prev[l2.head] = NULL
  OBVIOUS
<1>2. ASSUME NEW q \in S \cup {r}
      PROVE  /\ l2.next[q] # NULL => l2.next[q] \in S \cup {r} /\ l2.prev[l2.next[q]] = q
             /\ l2.prev[q] # NULL => l2.prev[q] \in S \cup {r} /\ l2.next[l2.prev[q]] = q
             /\ l2.prev[q] = NULL => q = l2.head
  <2>1. CASE q = r
    BY <2>1 DEF Chained
  <2>2. CASE q \in S
    BY <2>2 DEF Chained
  <2> QED
    BY <2>1, <2>2
<1>3. ASSUME NEW T \in SUBSET (S \cup {r}), T # {}
      PROVE  \E q \in T : l2.prev[q] \notin T
  <2>1. CASE r \in T
    BY <2>1
  <2>2. CASE r \notin T
    <3>1. PICK q \in T : l.prev[q] \notin T
      BY <1>3, <2>2 DEF Chained, Acyclic
    <3> QED
      BY <2>2, <3>1
  <2> QED
    BY <2>1, <2>2
<1> QED
  BY <1>1, <1>2, <1>3 DEF Chained, Acyclic

\* A record leaves a list: its neighbours are linked to each other.
LEMMA ChainedRemove ==
  ASSUME NEW l, NEW l2, NEW S, NEW r \in S, NULL \notin S,
         Chained(l, S),
         l2.head = IF l.head = r THEN l.next[r] ELSE l.head,
         \A q \in S \ {r} :
           /\ l2.next[q] = IF q = l.prev[r] THEN l.next[r] ELSE l.next[q]
           /\ l2.prev[q] = IF q = l.next[r] THEN l.prev[r] ELSE l.prev[q]
  PROVE  Chained(l2, S \ {r})
<1>0. l.next[r] # r /\ l.prev[r] # r
  <2>1. PICK q \in {r} : l.prev[q] \notin {r}
    <3>1. {r} \in SUBSET S /\ {r} # {}
      OBVIOUS
    <3> QED
      BY <3>1, Zenon DEF Chained, Acyclic
  <2> QED
    BY <2>1 DEF Chained
<1>1. l2.head # NULL => l2.head \in S \ {r} /\ l2.prev[l2.head] = NULL
  BY <1>0 DEF Chained
<1>2. ASSUME NEW q \in S \ {r}
      PROVE  /\ l2.next[q] # NULL => l2.next[q] \in S \ {r} /\ l2.prev[l2.next[q]] = q
             /\ l2.prev[q] # NULL => l2.prev[q] \in S \ {r} /\ l2.next[l2.prev[q]] = q
             /\ l2.prev[q] = NULL => q = l2.head
  <2>1. l2.next[q] # NULL => l2.next[q] \in S \ {r} /\ l2.prev[l2.next[q]] = q
    BY <1>0 DEF Chained
  <2>2. l2.prev[q] # NULL => l2.prev[q] \in S \ {r} /\ l2.next[l2.prev[q]] = q
    BY <1>0 DEF Chained
  <2>3. l2.prev[q] = NULL => q = l2.head
    BY <1>0 DEF Chained
  <2> QED
    BY <2>1, <2>2, <2>3
<1>3. ASSUME NEW T \in SUBSET (S \ {r}), T # {}
      PROVE  \E q \in T : l2.prev[q] \notin T
  <2>1. PICK p \in T : l.prev[p] \notin T
    BY <1>3 DEF Chained, Acyclic
  <2>2. CASE p # l.next[r]
    BY <2>1, <2>2
  <2>3. CASE p = l.next[r] /\ l.prev[r] \notin T
    BY <2>1, <2>3
  <2>4. CASE p = l.next[r] /\ l.prev[r] \in T
    \* in T with r the way out is another one
    <3>1. PICK q \in T \cup {r} : l.prev[q] \notin T \cup {r}
      <4>1. T \cup {r} \in SUBSET S /\ T \cup {r} # {}
        BY <1>3
      <4> QED
        BY <4>1, Zenon DEF Chained, Acyclic
    <3>2. q \in T /\ q # l.next[r]
      BY <2>4, <3>1 DEF Chained
    <3> QED
      BY <3>1, <3>2
  <2> QED
    BY <2>2, <2>3, <2>4
<1> QED
  BY <1>1, <1>2, <1>3 DEF Chained, Acyclic

\* Push adds a record that has no 'prev', and leaves the records outside alone.
LEMMA PushJoins ==
  ASSUME NEW R, NULL \notin R, NEW l, IsList(l, R), NEW S \in SUBSET R, Chained(l, S),
         NEW r \in R \ S, l.prev[r] = NULL
  PROVE  /\ IsList(Push(l, r), R)
         /\ Chained(Push(l, r), S \cup {r})
         /\ Push(l, r).head = r
         /\ \A q \in R \ (S \cup {r}) : /\ Push(l, r).next[q] = l.next[q]
                                        /\ Push(l, r).prev[q] = l.prev[q]
<1> DEFINE l2 == Push(l, r)
<1>1. l.head # NULL => l.head \in S
  BY DEF Chained
<1>2. l2 = [head |-> r, next |-> [l.next EXCEPT ![r] = l.head],
            prev |-> IF l.head = NULL THEN l.prev ELSE [l.prev EXCEPT ![l.head] = r]]
  BY DEF Push, Store
<1>3. IsList(l2, R)
  BY <1>1, <1>2 DEF IsList
<1>4. /\ l2.head = r
      /\ l2.next[r] = l.head
      /\ l2.prev[r] = NULL
  BY <1>1, <1>2 DEF IsList
<1>5. \A q \in S : /\ l2.next[q] = l.next[q]
                   /\ l2.prev[q] = IF q = l.head THEN r ELSE l.prev[q]
  BY <1>1, <1>2 DEF IsList
<1>6. \A q \in R \ (S \cup {r}) : l2.next[q] = l.next[q] /\ l2.prev[q] = l.prev[q]
  BY <1>1, <1>2 DEF IsList
<1>7. Chained(l2, S \cup {r})
  <2> HIDE DEF l2
  <2> QED
    BY <1>4, <1>5, ChainedPush
<1> QED
  BY <1>3, <1>4, <1>6, <1>7

(***************************************************************************)
(* Lists of nodes with a tail: a node comes between two others or goes     *)
(***************************************************************************)

\* The last of a list.
IsTail(l, t, S) == IF S = {} THEN t = NULL ELSE t \in S /\ l.next[t] = NULL

\* p and n are where a new node goes: neighbours, or an end and nothing.
Between(l, S, p, n) == \/ p = NULL /\ n = l.head
                       \/ p \in S /\ n = l.next[p]

LEMMA BetweenBack ==
  ASSUME NEW l, NEW S, NULL \notin S, Chained(l, S), NEW p, NEW n, Between(l, S, p, n)
  PROVE  /\ n # NULL => n \in S /\ l.prev[n] = p
         /\ p # NULL => p \in S /\ l.next[p] = n
BY DEF Chained, Between

\* l2 is the list l with r between p and n.
Inserted(l, S, p, r, n, l2) ==
  /\ l2.head = IF p = NULL THEN r ELSE l.head
  /\ l2.next[r] = n /\ l2.prev[r] = p
  /\ \A q \in S : /\ l2.next[q] = IF q = p THEN r ELSE l.next[q]
                  /\ l2.prev[q] = IF q = n THEN r ELSE l.prev[q]

LEMMA ChainedInsert ==
  ASSUME NEW l, NEW l2, NEW S, NULL \notin S, Chained(l, S),
         NEW r, r \notin S, r # NULL,
         NEW p, NEW n, Between(l, S, p, n), Inserted(l, S, p, r, n, l2)
  PROVE  Chained(l2, S \cup {r})
<1>i. /\ l2.head = IF p = NULL THEN r ELSE l.head
      /\ l2.next[r] = n /\ l2.prev[r] = p
      /\ \A q \in S : /\ l2.next[q] = IF q = p THEN r ELSE l.next[q]
                      /\ l2.prev[q] = IF q = n THEN r ELSE l.prev[q]
  BY DEF Inserted
<1>0. /\ n # NULL => n \in S /\ l.prev[n] = p
      /\ p # NULL => p \in S /\ l.next[p] = n
  BY BetweenBack
<1>c. /\ l.head # NULL => l.head \in S /\ l.prev[l.head] = NULL
      /\ \A q \in S : /\ l.next[q] # NULL => l.next[q] \in S /\ l.prev[l.next[q]] = q
                      /\ l.prev[q] # NULL => l.prev[q] \in S /\ l.next[l.prev[q]] = q
                      /\ l.prev[q] = NULL => q = l.head
  BY DEF Chained
<1>1. l2.head # NULL => l2.head \in S \cup {r} /\ l2.prev[l2.head] = NULL
  <2>1. CASE p = NULL
    BY <1>i, <2>1
  <2>2. CASE p # NULL
    BY <1>0, <1>c, <1>i, <2>2
  <2> QED
    BY <2>1, <2>2
<1>2. ASSUME NEW q \in S \cup {r}
      PROVE  /\ l2.next[q] # NULL => l2.next[q] \in S \cup {r} /\ l2.prev[l2.next[q]] = q
             /\ l2.prev[q] # NULL => l2.prev[q] \in S \cup {r} /\ l2.next[l2.prev[q]] = q
             /\ l2.prev[q] = NULL => q = l2.head
  <2>1. CASE q = r
    BY <1>0, <1>i, <2>1
  <2>2. CASE q \in S
    <3>1. l2.next[q] # NULL => l2.next[q] \in S \cup {r} /\ l2.prev[l2.next[q]] = q
      BY <1>0, <1>c, <1>i, <2>2
    <3>2. l2.prev[q] # NULL => l2.prev[q] \in S \cup {r} /\ l2.next[l2.prev[q]] = q
      <4>1. CASE q = n
        BY <1>i, <2>2, <4>1
      <4>2. CASE q # n
        <5>1. l2.prev[q] = l.prev[q]
          BY <1>i, <2>2, <4>2
        <5>2. ASSUME l.prev[q] # NULL PROVE l.prev[q] \in S /\ l.next[l.prev[q]] = q /\ l.prev[q] # p
          BY <1>0, <1>c, <2>2, <4>2, <5>2
        <5> QED
          BY <1>i, <2>2, <5>1, <5>2
      <4> QED
        BY <4>1, <4>2
    <3>3. l2.prev[q] = NULL => q = l2.head
      <4>1. CASE q = n
        BY <1>i, <2>2, <4>1
      <4>2. CASE q # n
        <5>1. l2.prev[q] = l.prev[q]
          BY <1>i, <2>2, <4>2
        <5>2. l.prev[q] = NULL => q = l.head /\ p # NULL
          BY <1>c, <2>2, <4>2 DEF Between
        <5> QED
          BY <1>i, <2>2, <5>1, <5>2
      <4> QED
        BY <4>1, <4>2
    <3> QED
      BY <3>1, <3>2, <3>3
  <2> QED
    BY <1>2, <2>1, <2>2
<1>3. Acyclic(l2, S \cup {r})
  <2>1. SUFFICES ASSUME NEW T \in SUBSET (S \cup {r}), T # {}
                 PROVE  \E q \in T : l2.prev[q] \notin T
    BY DEF Acyclic
  <2>2. CASE T \ {r} = {}
    BY <1>0, <1>i, <2>1, <2>2
  <2>3. CASE T \ {r} # {}
    <3>1. PICK q \in T \ {r} : l.prev[q] \notin T \ {r}
      BY <2>3 DEF Chained, Acyclic
    <3>2. q \in S /\ l.prev[q] # r
      BY <1>c, <3>1
    <3>3. CASE q = n /\ r \in T
      <4>1. q # NULL /\ l.prev[q] = p
        BY <1>0, <3>2, <3>3
      <4>2. p \notin T
        BY <3>1, <3>2, <4>1
      <4> QED
        BY <1>i, <3>3, <4>2
    <3>4. CASE q = n /\ r \notin T
      BY <1>i, <3>1, <3>2, <3>4
    <3>5. CASE q # n
      BY <1>i, <3>1, <3>2, <3>5
    <3> QED
      BY <3>3, <3>4, <3>5
  <2> QED
    BY <2>2, <2>3
<1> QED
  BY <1>1, <1>2, <1>3 DEF Chained

LEMMA TailInsert ==
  ASSUME NEW l, NEW l2, NEW S, NULL \notin S, Chained(l, S), NEW t, IsTail(l, t, S),
         NEW r, r \notin S, NEW p, NEW n, Between(l, S, p, n), Inserted(l, S, p, r, n, l2)
  PROVE  /\ n = NULL => IsTail(l2, r, S \cup {r})
         /\ n # NULL => IsTail(l2, t, S \cup {r})
<1>0. /\ n # NULL => n \in S /\ l.prev[n] = p
      /\ p # NULL => p \in S /\ l.next[p] = n
  BY BetweenBack
<1>1. CASE n = NULL
  BY <1>1 DEF IsTail, Inserted
<1>2. CASE n # NULL
  <2>1. t \in S /\ l.next[t] = NULL /\ t # NULL
    BY <1>0, <1>2 DEF IsTail
  <2>2. t # p
    BY <1>0, <1>2, <2>1
  <2> QED
    BY <1>2, <2>1, <2>2 DEF IsTail, Inserted
<1> QED
  BY <1>1, <1>2

LEMMA TailRemove ==
  ASSUME NEW l, NEW l2, NEW S, NULL \notin S, Chained(l, S), NEW t, IsTail(l, t, S),
         NEW r \in S,
         \A q \in S \ {r} : l2.next[q] = IF q = l.prev[r] THEN l.next[r] ELSE l.next[q],
         NEW t2, t2 = IF l.next[r] = NULL THEN l.prev[r] ELSE t
  PROVE  IsTail(l2, t2, S \ {r})
<1>0. l.next[r] # r /\ l.prev[r] # r
  <2>1. PICK q \in {r} : l.prev[q] \notin {r}
    <3>1. {r} \in SUBSET S /\ {r} # {}
      OBVIOUS
    <3> QED
      BY <3>1, Zenon DEF Chained, Acyclic
  <2> QED
    BY <2>1 DEF Chained
<1>1. /\ l.next[r] # NULL => l.next[r] \in S /\ l.prev[l.next[r]] = r
      /\ l.prev[r] # NULL => l.prev[r] \in S /\ l.next[l.prev[r]] = r
  BY DEF Chained
<1>2. CASE l.next[r] = NULL /\ l.prev[r] = NULL
  BY <1>2, AloneInList DEF IsTail
<1>3. CASE l.next[r] = NULL /\ l.prev[r] # NULL
  BY <1>0, <1>1, <1>3 DEF IsTail
<1>4. CASE l.next[r] # NULL
  <2>1. t \in S /\ l.next[t] = NULL /\ t # NULL
    BY DEF IsTail
  <2>2. t # r /\ t # l.prev[r]
    BY <1>1, <1>4, <2>1
  <2> QED
    BY <1>4, <2>1, <2>2 DEF IsTail
<1> QED
  BY <1>2, <1>3, <1>4

(***************************************************************************)
(* Walks along a list                                                      *)
(***************************************************************************)
\* The walk f along the list l of the nodes S.
ChainWalk(l, f, N) ==
  /\ f[0] = l.head
  /\ \A i \in 0 .. N : i # 0 => f[i] = IF f[i - 1] = NULL THEN NULL ELSE l.next[f[i - 1]]

\* c nodes of S in the order of the list l, which ends after them.
WalkOf(l, S, f, c, N) ==
  /\ c \in 0 .. N
  /\ \A i \in 0 .. N : f[i] = NULL <=> i >= c
  /\ \A i \in 0 .. c - 1 : f[i] \in S /\ l.prev[f[i]] = IF i = 0 THEN NULL ELSE f[i - 1]
  /\ \A i, j \in 0 .. c - 1 : f[i] = f[j] => i = j
  /\ \A n \in S : \E i \in 0 .. c - 1 : f[i] = n

\* A walk meets every node of a chain once.
LEMMA WalkMeetsEach ==
  ASSUME NEW l, NEW S, Chained(l, S), NULL \notin S, IsFiniteSet(S),
         NEW N \in Nat, Cardinality(S) <= N, NEW f, ChainWalk(l, f, N)
  PROVE  WalkOf(l, S, f, Cardinality(S), N)
<1>0. /\ f[0] = l.head
      /\ \A i \in 0 .. N : i # 0 => f[i] = IF f[i - 1] = NULL THEN NULL ELSE l.next[f[i - 1]]
      /\ l.head # NULL => l.head \in S /\ l.prev[l.head] = NULL
      /\ \A r \in S : /\ l.next[r] # NULL => l.next[r] \in S /\ l.prev[l.next[r]] = r
                      /\ l.prev[r] # NULL => l.prev[r] \in S /\ l.next[l.prev[r]] = r
                      /\ l.prev[r] = NULL => r = l.head
  BY Zenon DEF ChainWalk, Chained
<1>1. \A i \in 0 .. N : f[i] \in S \cup {NULL}
  <2> DEFINE Bad == {i \in 0 .. N : f[i] \notin S \cup {NULL}}
  <2>1. SUFFICES ASSUME Bad # {} PROVE FALSE
    OBVIOUS
  <2>2. PICK z \in Bad : \A k \in Bad : z <= k
    <3>1. Bad \in SUBSET Nat
      OBVIOUS
    <3> QED
      BY <2>1, <3>1, LeastOf, Zenon
  <2>3. z # 0
    BY <1>0
  <2>4. z - 1 \in 0 .. N /\ z - 1 \notin Bad
    BY <2>2, <2>3
  <2> QED
    BY <1>0, <2>3, <2>4
<1> DEFINE Z == {i \in 0 .. N : f[i] = NULL} \cup {N + 1}
<1>2. PICK c \in Z : \A k \in Z : c <= k
  <2>1. Z \in SUBSET Nat /\ Z # {}
    OBVIOUS
  <2> QED
    BY <2>1, LeastOf
<1>3. c \in 0 .. N + 1 /\ \A i \in 0 .. c - 1 : i \in 0 .. N /\ f[i] \in S /\ f[i] # NULL
  <2>1. c \in 0 .. N + 1
    BY <1>2
  <2>2. ASSUME NEW i \in 0 .. c - 1 PROVE i \in 0 .. N /\ f[i] \in S /\ f[i] # NULL
    <3>1. i \in 0 .. N /\ ~ (c <= i)
      BY <2>1
    <3>2. f[i] # NULL
      BY <1>2, <3>1
    <3> QED
      BY <1>1, <3>1, <3>2
  <2> QED
    BY <2>1, <2>2
<1> HIDE DEF Z
<1>4. ASSUME NEW i \in 0 .. c - 1 PROVE l.prev[f[i]] = IF i = 0 THEN NULL ELSE f[i - 1]
  <2>1. CASE i = 0
    BY <1>0, <1>3, <2>1
  <2>2. CASE i # 0
    <3>1. i - 1 \in 0 .. c - 1 /\ i \in 0 .. N
      BY <1>3, <2>2
    <3>2. f[i - 1] \in S /\ f[i - 1] # NULL /\ f[i] # NULL
      BY <1>3, <3>1
    <3>3. f[i] = l.next[f[i - 1]]
      BY <1>0, <2>2, <3>1, <3>2
    <3> QED
      BY <1>0, <2>2, <3>2, <3>3
  <2> QED
    BY <2>1, <2>2
<1>5. \A i, j \in 0 .. c - 1 : f[i] = f[j] => i = j
  <2> DEFINE Bad == {j \in 0 .. c - 1 : \E i \in 0 .. c - 1 : i < j /\ f[i] = f[j]}
  <2>1. SUFFICES ASSUME Bad # {} PROVE FALSE
    <3>1. ASSUME Bad = {} PROVE \A i, j \in 0 .. c - 1 : f[i] = f[j] => i = j
      <4>1. SUFFICES ASSUME NEW i \in 0 .. c - 1, NEW j \in 0 .. c - 1, f[i] = f[j], i # j PROVE FALSE
        OBVIOUS
      <4>2. i < j \/ j < i
        BY <1>3, <4>1
      <4> QED
        BY <3>1, <4>1, <4>2
    <3> QED
      BY <3>1
  <2>2. PICK z \in Bad : \A k \in Bad : z <= k
    <3>1. Bad \in SUBSET Nat
      BY <1>3
    <3> QED
      BY <2>1, <3>1, LeastOf, Zenon
  <2>3. PICK i \in 0 .. c - 1 : i < z /\ f[i] = f[z] /\ z \in 0 .. c - 1
    BY <2>2
  <2>4. z # 0 /\ l.prev[f[z]] = f[z - 1] /\ f[z - 1] # NULL /\ z - 1 \in 0 .. c - 1
    BY <1>3, <1>4, <2>3
  <2>5. i # 0
    BY <1>4, <2>3, <2>4
  <2>6. f[i - 1] = f[z - 1] /\ i - 1 \in 0 .. c - 1 /\ i - 1 < z - 1
    BY <1>3, <1>4, <2>3, <2>4, <2>5
  <2>7. z - 1 \in Bad
    BY <2>4, <2>6
  <2> QED
    BY <1>3, <2>2, <2>3, <2>7
<1> DEFINE h == [i \in 1 .. c |-> f[i - 1]]
<1>6. h \in Injection(1 .. c, S)
  <2>1. \A i \in 1 .. c : i - 1 \in 0 .. c - 1 /\ h[i] = f[i - 1] /\ h[i] \in S
    BY <1>3
  <2>2. h \in [1 .. c -> S]
    BY <2>1
  <2>3. \A i, j \in 1 .. c : h[i] = h[j] => i = j
    BY <1>3, <1>5, <2>1
  <2> QED
    BY <2>2, <2>3 DEF Injection, IsInjective
<1>7. c \in 0 .. N /\ f[c] = NULL
  <2>1. Cardinality(1 .. c) <= Cardinality(S)
    BY <1>6, FS_Injection
  <2>2. Cardinality(1 .. c) = c
    BY <1>3, FS_Interval
  <2>3. Cardinality(S) \in Nat
    BY FS_CardinalityType
  <2>4. c \in 0 .. N
    BY <1>3, <2>1, <2>2, <2>3
  <2> QED
    BY <1>2, <2>4 DEF Z
<1>8. \A n \in S : \E i \in 0 .. c - 1 : f[i] = n
  <2> DEFINE T == {n \in S : ~ \E i \in 0 .. c - 1 : f[i] = n}
  <2>1. SUFFICES ASSUME T # {} PROVE FALSE
    OBVIOUS
  <2>2. PICK r \in T : l.prev[r] \notin T
    <3>1. T \in SUBSET S
      OBVIOUS
    <3> QED
      BY <2>1, <3>1, Zenon DEF Chained, Acyclic
  <2>3. r \in S /\ r # NULL
    BY <2>2
  <2>4. CASE l.prev[r] = NULL
    <3>1. r = f[0]
      BY <1>0, <2>3, <2>4
    <3>2. 0 \in 0 .. c - 1
      BY <1>7, <2>3, <3>1
    <3> QED
      BY <2>2, <3>1, <3>2
  <2>5. CASE l.prev[r] # NULL
    <3>1. l.prev[r] \in S /\ l.next[l.prev[r]] = r
      BY <1>0, <2>3, <2>5
    <3>2. PICK i \in 0 .. c - 1 : f[i] = l.prev[r]
      BY <2>2, <3>1
    <3>3. i + 1 \in 0 .. N /\ i + 1 # 0 /\ (i + 1) - 1 = i
      BY <1>7, <3>2
    <3>4. f[i + 1] = r
      BY <1>0, <2>5, <3>1, <3>2, <3>3
    <3>5. i + 1 \in 0 .. c - 1
      BY <1>7, <2>3, <3>2, <3>3, <3>4
    <3> QED
      BY <2>2, <3>4, <3>5
  <2> QED
    BY <2>4, <2>5
<1>9. Cardinality(S) = c
  <2>1. \A n \in S : \E i \in 1 .. c : h[i] = n
    <3>1. SUFFICES ASSUME NEW n \in S PROVE \E i \in 1 .. c : h[i] = n
      OBVIOUS
    <3>2. PICK i \in 0 .. c - 1 : f[i] = n
      BY <1>8
    <3>3. i + 1 \in 1 .. c /\ h[i + 1] = n
      BY <1>7, <3>2
    <3> QED
      BY <3>3
  <2>2. h \in Surjection(1 .. c, S)
    BY <1>6, <2>1, Zenon DEF Surjection, Injection
  <2>3. ExistsBijection(1 .. c, S) /\ IsFiniteSet(1 .. c)
    BY <1>6, <1>7, <2>2, FS_Interval DEF ExistsBijection, Bijection
  <2>4. Cardinality(S) = Cardinality(1 .. c)
    BY <2>3, FS_Bijection
  <2> QED
    BY <1>7, <2>4, FS_Interval
<1>10. \A i \in 0 .. N : f[i] = NULL <=> i >= c
  <2> DEFINE Bad == {i \in 0 .. N : i >= c /\ f[i] # NULL}
  <2>1. Bad = {}
    <3>1. SUFFICES ASSUME Bad # {} PROVE FALSE
      OBVIOUS
    <3>2. PICK z \in Bad : \A k \in Bad : z <= k
      <4>1. Bad \in SUBSET Nat
        OBVIOUS
      <4> QED
        BY <3>1, <4>1, LeastOf, Zenon
    <3>3. z # c /\ z # 0
      BY <1>7, <3>2
    <3>4. z - 1 \in 0 .. N /\ z - 1 >= c /\ z - 1 \notin Bad
      BY <1>7, <3>2, <3>3
    <3> QED
      BY <1>0, <3>3, <3>4
  <2>2. \A i \in 0 .. N : i < c => f[i] # NULL
    BY <1>3, <1>7
  <2> QED
    BY <1>7, <2>1, <2>2
<1> QED
  BY <1>3, <1>4, <1>5, <1>7, <1>8, <1>9, <1>10 DEF WalkOf

(***************************************************************************)
(* Powers of two.  The library knows 2^n as the number of subsets of a set *)
(* of n elements.                                                          *)
(***************************************************************************)

LEMMA SubsetsOfInterval ==
  ASSUME NEW n \in Nat
  PROVE  /\ IsFiniteSet(SUBSET (1 .. n))
         /\ Cardinality(SUBSET (1 .. n)) = 2 ^ n
<1>1. IsFiniteSet(1 .. n) /\ Cardinality(1 .. n) = n
  BY FS_Interval
<1> QED
  BY <1>1, FS_SUBSET

LEMMA PowerZero == 2 ^ 0 = 1
<1>1. Cardinality(SUBSET (1 .. 0)) = 2 ^ 0
  BY SubsetsOfInterval
<1>2. SUBSET (1 .. 0) = {{}}
  OBVIOUS
<1>3. Cardinality({{}}) = 1
  BY FS_Singleton
<1> QED
  BY <1>1, <1>2, <1>3

LEMMA PowerNext ==
  ASSUME NEW n \in Nat
  PROVE  2 ^ (n + 1) = 2 * 2 ^ n
<1> DEFINE S == SUBSET (1 .. n)
           T == {X \in SUBSET (1 .. n + 1) : n + 1 \in X}
           f == [X \in S |-> X \cup {n + 1}]
<1>1. IsFiniteSet(S) /\ Cardinality(S) = 2 ^ n /\ 2 ^ n \in Nat
  BY SubsetsOfInterval, FS_CardinalityType
<1>2. f \in Bijection(S, T)
  <2>1. \A X \in S : n + 1 \notin X /\ f[X] \in T
    OBVIOUS
  <2>2. f \in [S -> T]
    BY <2>1
  <2>3. ASSUME NEW X \in S, NEW Y \in S, f[X] = f[Y] PROVE X = Y
    BY <2>1, <2>3
  <2>4. ASSUME NEW Y \in T PROVE \E X \in S : f[X] = Y
    <3>1. Y \ {n + 1} \in S
      OBVIOUS
    <3> QED
      BY <3>1
  <2> QED
    BY <2>2, <2>3, <2>4 DEF Bijection, Injection, Surjection, IsInjective
<1>3. IsFiniteSet(T) /\ Cardinality(T) = 2 ^ n
  <2> HIDE DEF S, T, f
  <2>1. ExistsBijection(S, T)
    BY <1>2 DEF ExistsBijection
  <2> QED
    BY <1>1, <2>1, FS_Bijection
<1>4. S \cap T = {} /\ S \cup T = SUBSET (1 .. n + 1)
  OBVIOUS
<1>5. Cardinality(S \cap T) = 0
  BY <1>4, FS_EmptySet
<1>6. Cardinality(S \cup T) = Cardinality(S) + Cardinality(T) - Cardinality(S \cap T)
  <2> HIDE DEF S, T
  <2> QED
    BY <1>1, <1>3, FS_Union
<1>7. Cardinality(SUBSET (1 .. n + 1)) = 2 ^ (n + 1)
  BY SubsetsOfInterval
<1>8. Cardinality(S \cup T) = 2 ^ n + 2 ^ n
  <2> HIDE DEF S, T
  <2> QED
    BY <1>1, <1>3, <1>5, <1>6
<1>9. 2 ^ (n + 1) = 2 ^ n + 2 ^ n
  BY <1>4, <1>7, <1>8, Zenon
<1> QED
  BY <1>1, <1>9

LEMMA PowerPositive ==
  ASSUME NEW n \in Nat
  PROVE  2 ^ n \in Nat /\ 2 ^ n > 0
<1>1. IsFiniteSet(SUBSET (1 .. n)) /\ Cardinality(SUBSET (1 .. n)) = 2 ^ n
  BY SubsetsOfInterval
<1>2. Cardinality(SUBSET (1 .. n)) \in Nat /\ Cardinality(SUBSET (1 .. n)) # 0
  BY <1>1, FS_CardinalityType, FS_EmptySet
<1> QED
  BY <1>1, <1>2

LEMMA PowerMonotone ==
  ASSUME NEW n \in Nat, NEW k \in 0 .. n
  PROVE  2 ^ k <= 2 ^ n
<1>1. IsFiniteSet(SUBSET (1 .. n)) /\ Cardinality(SUBSET (1 .. n)) = 2 ^ n
  BY SubsetsOfInterval
<1>2. SUBSET (1 .. k) \subseteq SUBSET (1 .. n) /\ k \in Nat
  OBVIOUS
<1>3. Cardinality(SUBSET (1 .. k)) = 2 ^ k
  BY <1>2, SubsetsOfInterval
<1> QED
  BY <1>1, <1>2, <1>3, FS_Subset

(***************************************************************************)
(* Groups of P records, which are numbered on from group to group          *)
(***************************************************************************)

Group(P, g) == g * P .. (g + 1) * P - 1

LEMMA GroupNumbers ==
  ASSUME NEW P \in Nat \ {0}, NEW G \in Nat, NEW g \in Nat, g < G
  PROVE  /\ g * P \in Nat
         /\ (g + 1) * P = g * P + P
         /\ Group(P, g) = g * P .. g * P + P - 1
         /\ Group(P, g) \subseteq 0 .. G * P - 1
         /\ Min(Group(P, g)) = g * P
         /\ Max(Group(P, g)) = g * P + P - 1
<1>0. PICK n \in Nat : n = g * P
  OBVIOUS
<1>1. (g + 1) * P = n + P
  BY <1>0
<1>2. n + P <= G * P
  <2>1. PICK d \in Nat : G = g + 1 + d
    <3>1. G - (g + 1) \in Nat /\ G = g + 1 + (G - (g + 1))
      OBVIOUS
    <3> QED
      BY <3>1
  <2>2. G * P = n + P + d * P /\ d * P \in Nat
    BY <1>0, <2>1
  <2> QED
    BY <1>1, <2>2
<1>3. Group(P, g) = n .. n + P - 1
  <2>1. n + P - 1 = (n + P) - 1
    BY <1>1
  <2> QED
    BY <1>0, <1>1, <2>1, Zenon DEF Group
<1>4. n .. n + P - 1 \subseteq 0 .. G * P - 1
  <2>1. G * P \in Nat
    OBVIOUS
  <2> QED
    BY <1>1, <1>2, <2>1
<1>5. n \in n .. n + P - 1 /\ n + P - 1 \in n .. n + P - 1
  BY <1>1
<1>6. \A x \in n .. n + P - 1 :
        /\ n <= x /\ (x <= n => x = n)
        /\ x <= n + P - 1
        /\ x >= n + P - 1 => x = n + P - 1
  BY <1>1
<1>7. Min(n .. n + P - 1) = n /\ Max(n .. n + P - 1) = n + P - 1
  BY <1>5, <1>6 DEF Min, Max
<1> QED
  BY <1>0, <1>1, <1>3, <1>4, <1>7

\* The records of a group are linked in the order of their numbers.
LEMMA GroupChained ==
  ASSUME NEW P \in Nat \ {0}, NEW n \in Nat, NEW R, R = n .. n + P - 1, NULL \notin Nat,
         NEW l, l.head = n,
         \A r \in R : /\ l.next[r] = IF r = n + P - 1 THEN NULL ELSE r + 1
                      /\ l.prev[r] = IF r = n THEN NULL ELSE r - 1
  PROVE  Chained(l, R)
<1>1. R \subseteq Nat /\ NULL \notin R /\ n \in R
  OBVIOUS
<1>2. \A r \in R : /\ r # n => r - 1 \in R /\ r - 1 # n + P - 1 /\ (r - 1) + 1 = r
                   /\ r # n + P - 1 => r + 1 \in R /\ r + 1 # n /\ (r + 1) - 1 = r
  OBVIOUS
<1>3. Acyclic(l, R)
  <2>1. SUFFICES ASSUME NEW T \in SUBSET R, T # {}
                 PROVE  \E r \in T : l.prev[r] \notin T
    BY DEF Acyclic
  <2>2. PICK r \in T : \A q \in T : r <= q
    BY <1>1, <2>1, MinOfNaturals
  <2>3. r \in Nat /\ r \in R /\ NULL \notin T
    BY <1>1, <2>1, <2>2
  <2>4. r - 1 \notin T
    BY <1>1, <2>1, <2>2, <2>3
  <2> QED
    BY <2>2, <2>3, <2>4
<1>4. ASSUME NEW r \in R
      PROVE  /\ l.next[r] # NULL => l.next[r] \in R /\ l.prev[l.next[r]] = r
             /\ l.prev[r] # NULL => l.prev[r] \in R /\ l.next[l.prev[r]] = r
             /\ l.prev[r] = NULL => r = l.head
  <2>1. l.next[r] # NULL => l.next[r] \in R /\ l.prev[l.next[r]] = r
    <3>1. CASE r = n + P - 1
      BY <3>1
    <3>2. CASE r # n + P - 1
      <4>1. r + 1 \in R /\ r + 1 # n /\ (r + 1) - 1 = r
        BY <1>2, <3>2, Zenon
      <4>2. l.next[r] = r + 1 /\ l.prev[r + 1] = r
        BY <3>2, <4>1
      <4> QED
        BY <4>1, <4>2
    <3> QED
      BY <3>1, <3>2
  <2>2. CASE r = n
    BY <2>1, <2>2
  <2>3. CASE r # n
    <3>1. r - 1 \in R /\ r - 1 # n + P - 1 /\ (r - 1) + 1 = r
      BY <1>2, <2>3, Zenon
    <3>2. l.prev[r] = r - 1 /\ l.next[r - 1] = r
      BY <2>3, <3>1
    <3> QED
      BY <1>1, <2>1, <3>1, <3>2
  <2> QED
    BY <2>2, <2>3
<1>5. l.head # NULL => l.head \in R /\ l.prev[l.head] = NULL
  BY <1>1
<1> QED
  BY <1>3, <1>4, <1>5 DEF Chained

==============================================================================
