--------------------------- MODULE FreeSetProofs ---------------------------
(***************************************************************************)
(* Proofs about FreeSet for any set of threads, any set of regions and,    *)
(* but for the theorems that say otherwise, either order of the stores.    *)
(***************************************************************************)
EXTENDS FreeSet, SequenceTheorems, TLAPS

LEMMA AppendFacts ==
  ASSUME NEW S, NEW s \in Seq(S), NEW e \in S
  PROVE  /\ Append(s, e) \in Seq(S)
         /\ Len(s) \in Nat
         /\ Len(Append(s, e)) = Len(s) + 1
         /\ \A i \in 1 .. Len(s) : Append(s, e)[i] = s[i]
         /\ Append(s, e)[Len(s) + 1] = e
OBVIOUS

LEMMA TailFacts ==
  ASSUME NEW S, NEW s \in Seq(S), Len(s) > 0
  PROVE  /\ Tail(s) \in Seq(S)
         /\ Len(s) \in Nat
         /\ Len(Tail(s)) = Len(s) - 1
         /\ \A i \in 1 .. Len(s) - 1 : Tail(s)[i] = s[i + 1]
OBVIOUS

LEMMA InitIInv == Init => IInv
<1> SUFFICES ASSUME Init PROVE IInv
  OBVIOUS
<1> USE FreeSetAssumption DEF Init, Nodes
<1>1. TypeOK
  BY DEF TypeOK, PCs
<1>2. \A a \in Threads : Len(order[a]) = 1 /\ order[a][1] = a
  OBVIOUS
<1>3. PhaseInv /\ MemoryInv /\ ElemInv
  BY DEF PhaseInv, MemoryInv, ElemInv, Inserting
<1>4. ShapeInv
  BY <1>2 DEF ShapeInv, Positions, Front
<1>5. MemberInv /\ PlaceInv /\ PendingInv
  BY <1>2 DEF MemberInv, PlaceInv, PendingInv, Positions, Queued, Unswapped
<1>6. NextInv
  <2> SUFFICES ASSUME NEW a \in Threads, NEW i \in Positions(a)
               PROVE  next[order[a][i]] = NULL
    BY DEF NextInv
  <2> QED
    BY <1>2 DEF Positions
<1>7. LinkInv
  BY DEF LinkInv, Linking
<1>8. StrictInv
  <2>1. \A a \in Threads : \A i \in Positions(a) : ~(i < Len(order[a]))
    BY <1>2 DEF Positions
  <2> QED
    BY <2>1 DEF StrictInv
<1> QED
  BY <1>1, <1>3, <1>4, <1>5, <1>6, <1>7, <1>8 DEF IInv

LEMMA MallocStep ==
  ASSUME IInv, NEW t \in Threads, Malloc(t) \/ ClearFreeSet(t)
  PROVE  IInv'
<1> USE FreeSetAssumption DEF IInv
<1>0. /\ UNCHANGED <<head, tail, next, owner, status, elem, target, prev, order>>
      /\ pc[t] = "idle"
      /\ \A u \in Threads : pc'[u] = IF u = t THEN "load" ELSE pc[u]
      /\ \A u \in Threads : curr'[u] = IF u = t THEN head[t] ELSE curr[u]
      /\ \A u \in Threads : piq'[u] <=> (u = t \/ piq[u])
  BY DEF TypeOK, Malloc, ClearFreeSet, EnterClear, memVars, insertVars
<1>1. TypeOK'
  <2>1. pc' \in [Threads -> PCs]
    BY ZenonT(60) DEF TypeOK, Malloc, ClearFreeSet, EnterClear, PCs
  <2>3. goal' \in [Threads -> {"alloc", "return"}]
    BY DEF TypeOK, Malloc, ClearFreeSet, EnterClear
  <2>4. curr' \in [Threads -> Nodes \cup {NULL}]
    <3>1. curr' = [curr EXCEPT ![t] = head[t]]
      BY DEF Malloc, ClearFreeSet, EnterClear
    <3>2. head[t] \in Nodes /\ curr \in [Threads -> Nodes \cup {NULL}]
      BY DEF TypeOK
    <3> QED
      BY ONLY <3>1, <3>2
  <2>5. piq' \in [Threads -> BOOLEAN]
    BY DEF TypeOK, Malloc, ClearFreeSet, EnterClear
  <2>2. TypeOK
    OBVIOUS
  <2> QED
    BY <1>0, <2>1, <2>2, <2>3, <2>4, <2>5, Zenon DEF TypeOK
<1>2. PhaseInv'
  <2>1. head[t] \in Nodes /\ NULL \notin Nodes
    BY DEF TypeOK, Nodes
  <2> QED
    BY <1>0, <2>1 DEF PhaseInv, Inserting
<1>3. MemoryInv' 
  BY <1>0 DEF MemoryInv
<1>3a. ElemInv' 
  BY <1>0 DEF ElemInv, Inserting
<1>4. ShapeInv'
  <2>1. \A a \in Threads : Front(a)' = Front(a)
    BY <1>0 DEF Front, PhaseInv, TypeOK, Nodes
  <2> QED
    BY <1>0, <2>1 DEF ShapeInv, Positions
<1>5. MemberInv' 
  BY <1>0 DEF MemberInv, Positions, Queued, Unswapped
<1>5a. PlaceInv'
  BY <1>0 DEF PlaceInv, Positions, Queued, Swapped, PhaseInv
<1>5b. PendingInv'
  BY <1>0 DEF PendingInv, Positions, Queued, Unswapped
<1>6. NextInv'
  BY <1>0, SMTT(60) DEF NextInv, Positions, LateNode
<1>7. LinkInv'
  BY <1>0 DEF LinkInv, Positions, LateNode, Linking
<1>8. StrictInv'
  BY <1>0 DEF StrictInv, Positions, Linking
<1> QED
  BY <1>1, <1>2, <1>3, <1>3a, <1>4, <1>5, <1>5a, <1>5b, <1>6, <1>7, <1>8 DEF IInv

LEMMA NodeFacts ==
  /\ NULL \notin Nodes /\ Junk \notin Nodes /\ NULL # Junk
  /\ Threads \subseteq Nodes /\ Blocks \subseteq Nodes
  /\ \A b \in Blocks : b \notin Threads
BY FreeSetAssumption DEF Nodes

LEMMA MemoryFacts ==
  ASSUME TypeOK, MemoryInv, NEW b \in Blocks, status[b] # "avail"
  PROVE  owner[b] \in Threads
BY DEF TypeOK, MemoryInv

LEMMA LenFacts ==
  ASSUME TypeOK, ShapeInv
  PROVE  \A a \in Threads : /\ order[a] \in Seq(Nodes)
                            /\ Len(order[a]) \in Nat \ {0}
                            /\ 1 \in Positions(a)
                            /\ Len(order[a]) \in Positions(a)
<1> SUFFICES ASSUME NEW a \in Threads
             PROVE  /\ order[a] \in Seq(Nodes)
                    /\ Len(order[a]) \in Nat \ {0}
                    /\ 1 \in Positions(a)
                    /\ Len(order[a]) \in Positions(a)
  OBVIOUS
<1>1. order[a] \in Seq(Nodes)
  BY DEF TypeOK
<1>2. Len(order[a]) \in Nat
  BY <1>1, LenProperties
<1>3. Len(order[a]) > 0
  BY DEF ShapeInv
<1>4. 1 \in Positions(a) /\ Len(order[a]) \in Positions(a)
  BY <1>2, <1>3 DEF Positions
<1> QED
  BY <1>1, <1>2, <1>3, <1>4

LEMMA FreeLocalStep ==
  ASSUME IInv, NEW t \in Threads, NEW b \in Blocks, FreeLocal(t, b)
  PROVE  IInv'
<1> USE NodeFacts DEF IInv
<1>0. /\ UNCHANGED <<head, tail, next, elem, target, prev, order>>
      /\ pc[t] = "idle" /\ status[b] = "live" /\ owner[b] = t
      /\ head[t] \in Nodes
      /\ \A u \in Threads : pc'[u] = IF u = t THEN "load" ELSE pc[u]
      /\ \A u \in Threads : curr'[u] = IF u = t THEN head[t] ELSE curr[u]
      /\ \A u \in Threads : piq'[u] <=> (u = t \/ piq[u])
      /\ \A c \in Blocks : status'[c] = IF c = b THEN "avail" ELSE status[c]
      /\ \A c \in Blocks : owner'[c] = IF c = b THEN NULL ELSE owner[c]
  BY DEF TypeOK, FreeLocal, EnterClear, Release, insertVars
<1>1. TypeOK'
  <2>1. pc' \in [Threads -> PCs]
    BY DEF TypeOK, FreeLocal, EnterClear, PCs
  <2>2. goal' \in [Threads -> {"alloc", "return"}]
    BY DEF TypeOK, FreeLocal, EnterClear
  <2>3. curr' \in [Threads -> Nodes \cup {NULL}] /\ piq' \in [Threads -> BOOLEAN]
    BY <1>0 DEF TypeOK, FreeLocal, EnterClear
  <2>4. /\ status' \in [Blocks -> {"avail", "live", "pending"}]
        /\ owner' \in [Blocks -> Threads \cup {NULL}]
    BY DEF TypeOK, FreeLocal, Release
  <2> QED
    BY <1>0, <2>1, <2>2, <2>3, <2>4, Zenon DEF TypeOK
<1>2. PhaseInv'
  BY <1>0 DEF PhaseInv, Inserting
<1>3. MemoryInv' /\ ElemInv'
  BY <1>0 DEF MemoryInv, ElemInv, Inserting
<1>4. ShapeInv'
  <2>1. \A a \in Threads : Front(a)' = Front(a)
    BY <1>0 DEF Front, PhaseInv
  <2> QED
    BY <1>0, <2>1 DEF ShapeInv, Positions
<1>5. MemberInv'
  BY <1>0 DEF MemberInv, Positions, Queued, Unswapped
<1>6. PlaceInv'
  BY <1>0 DEF PlaceInv, Positions, Queued, Swapped, PhaseInv
<1>7. PendingInv'
  BY <1>0 DEF PendingInv, Positions, Queued, Unswapped
<1>8. NextInv' /\ LinkInv'
  BY <1>0, SMTT(60) DEF NextInv, LinkInv, Positions, LateNode, Linking
<1>9. StrictInv'
  BY <1>0 DEF StrictInv, Positions, Linking
<1> QED
  BY <1>1, <1>2, <1>3, <1>4, <1>5, <1>6, <1>7, <1>8, <1>9 DEF IInv

LEMMA FreeRemoteStep ==
  ASSUME IInv, NEW t \in Threads, NEW b \in Blocks, FreeRemote(t, b)
  PROVE  IInv'
<1> USE NodeFacts DEF IInv
<1>0. /\ UNCHANGED <<head, tail, next, owner, curr, piq, goal, prev, order>>
      /\ pc[t] = "idle" /\ status[b] = "live" /\ owner[b] \in Threads
      /\ \A u \in Threads : pc'[u] = IF u = t THEN "store" ELSE pc[u]
      /\ \A u \in Threads : elem'[u] = IF u = t THEN b ELSE elem[u]
      /\ \A u \in Threads : target'[u] = IF u = t THEN owner[b] ELSE target[u]
      /\ \A c \in Blocks : status'[c] = IF c = b THEN "pending" ELSE status[c]
  BY DEF TypeOK, FreeRemote, EnterInsert, MemoryInv
<1>1. TypeOK'
  <2>1. pc' \in [Threads -> PCs]
    BY DEF TypeOK, FreeRemote, EnterInsert, PCs
  <2>2. elem' \in [Threads -> Nodes \cup {NULL}]
    BY DEF TypeOK, FreeRemote, EnterInsert
  <2>3. target' \in [Threads -> Threads \cup {NULL}]
    BY DEF TypeOK, FreeRemote, EnterInsert
  <2>4. status' \in [Blocks -> {"avail", "live", "pending"}]
    BY DEF TypeOK, FreeRemote
  <2> QED
    BY <1>0, <2>1, <2>2, <2>3, <2>4, Zenon DEF TypeOK
<1>2. PhaseInv'
  BY <1>0 DEF PhaseInv, Inserting
<1>3. MemoryInv'
  BY <1>0 DEF MemoryInv
<1>4. ElemInv'
  BY <1>0 DEF ElemInv, PhaseInv, Inserting
<1>5. ShapeInv'
  BY <1>0 DEF ShapeInv, Positions, Front
<1>6. MemberInv'
  <2>1. \A a \in Threads : ~Queued(b, a)
    BY <1>0 DEF MemberInv, Queued
  <2> QED
    BY <1>0, <2>1 DEF MemberInv, Positions, Queued, Unswapped
<1>7. PlaceInv'
  BY <1>0 DEF PlaceInv, Positions, Queued, Swapped
<1>8. PendingInv'
  BY <1>0 DEF PendingInv, Positions, Queued, Unswapped
<1>9. NextInv' /\ LinkInv'
  BY <1>0, SMTT(60) DEF NextInv, LinkInv, Positions, LateNode, Linking
<1>10. StrictInv'
  BY <1>0 DEF StrictInv, Positions, Linking
<1> QED
  BY <1>1, <1>2, <1>3, <1>4, <1>5, <1>6, <1>7, <1>8, <1>9, <1>10 DEF IInv

LEMMA StoreNullStep ==
  ASSUME IInv, NEW t \in Threads, StoreNull(t)
  PROVE  IInv'
<1> USE NodeFacts DEF IInv
<1>0. /\ UNCHANGED <<head, tail, owner, status, goal, curr, piq, elem, target, prev, order>>
      /\ pc[t] \in {"store", "late"}
      /\ elem[t] \in Nodes
      /\ \A u \in Threads : pc'[u] = IF u = t THEN IF pc[t] = "store" THEN "swap" ELSE "link"
                                     ELSE pc[u]
      /\ \A n \in Nodes : next'[n] = IF n = elem[t] THEN NULL ELSE next[n]
  BY DEF TypeOK, StoreNull, PhaseInv, Inserting, memVars, clearVars, insertVars
<1>1. TypeOK'
  <2>1. pc' \in [Threads -> PCs]
    BY DEF TypeOK, StoreNull, PCs
  <2>2. next' \in [Nodes -> Nodes \cup {NULL, Junk}]
    BY DEF TypeOK, StoreNull
  <2> QED
    BY <1>0, <2>1, <2>2, Zenon DEF TypeOK
<1>a. \A a \in Threads : \A i \in Positions(a) : order[a][i] \in Nodes
  BY DEF MemberInv
<1>2. PhaseInv'
  BY <1>0 DEF PhaseInv, Inserting
<1>3. MemoryInv' /\ ElemInv'
  BY <1>0 DEF MemoryInv, ElemInv, Inserting
<1>4. ShapeInv'
  BY <1>0 DEF ShapeInv, Positions, Front
<1>5. MemberInv'
  BY <1>0 DEF MemberInv, Positions, Queued, Unswapped
<1>6. PlaceInv'
  BY <1>0 DEF PlaceInv, Positions, Queued, Swapped
<1>7. PendingInv'
  BY <1>0 DEF PendingInv, Positions, Queued, Unswapped
<1>8. NextInv'
  BY <1>0, <1>a DEF NextInv, Positions, LateNode
<1>9. LinkInv'
  BY <1>0, <1>a, SMTT(60) DEF LinkInv, Positions, LateNode, Linking
<1>10. StrictInv'
  <2>1. ASSUME ~WeakOrder PROVE \A a \in Threads : \A i \in Positions(a) : order[a][i] # elem[t]
    BY <1>0, <2>1 DEF StrictInv, MemberInv, Unswapped, Queued
  <2>2. ASSUME ~WeakOrder PROVE pc[t] = "store"
    BY <1>0, <2>2 DEF StrictInv
  <2>3. \A u, a \in Threads : ~WeakOrder => (Linking(u, a)' <=> Linking(u, a))
    BY <1>0, <2>2 DEF Linking
  <2> QED
    BY <1>0, <1>a, <2>1, <2>2, <2>3 DEF StrictInv, Positions
<1> QED
  BY <1>1, <1>2, <1>3, <1>4, <1>5, <1>6, <1>7, <1>8, <1>9, <1>10 DEF IInv

LEMMA ReinsertPlaceholderStep ==
  ASSUME IInv, NEW t \in Threads, ReinsertPlaceholder(t)
  PROVE  IInv'
<1> USE NodeFacts DEF IInv
<1>0. /\ UNCHANGED <<head, tail, next, owner, status, curr, piq, goal, prev, order>>
      /\ pc[t] = "load" /\ ~piq[t]
      /\ \A u \in Threads : pc'[u] = IF u = t THEN "store" ELSE pc[u]
      /\ \A u \in Threads : elem'[u] = IF u = t THEN t ELSE elem[u]
      /\ \A u \in Threads : target'[u] = IF u = t THEN t ELSE target[u]
  BY DEF TypeOK, ReinsertPlaceholder, EnterInsert, memVars, clearVars
<1>1. TypeOK'
  <2>1. pc' \in [Threads -> PCs]
    BY DEF TypeOK, ReinsertPlaceholder, EnterInsert, PCs
  <2>2. elem' \in [Threads -> Nodes \cup {NULL}]
    BY DEF TypeOK, ReinsertPlaceholder, EnterInsert
  <2>3. target' \in [Threads -> Threads \cup {NULL}]
    BY DEF TypeOK, ReinsertPlaceholder, EnterInsert
  <2> QED
    BY <1>0, <2>1, <2>2, <2>3, Zenon DEF TypeOK
<1>2. PhaseInv'
  BY <1>0 DEF PhaseInv, Inserting
<1>3. MemoryInv'
  BY <1>0 DEF MemoryInv
<1>4. ElemInv'
  BY <1>0 DEF ElemInv, PhaseInv, Inserting
<1>5. ShapeInv'
  BY <1>0 DEF ShapeInv, Positions, Front
<1>6. MemberInv'
  <2>1. \A a \in Threads : ~Queued(t, a)
    BY <1>0 DEF MemberInv, PlaceInv, Queued, Swapped
  <2> QED
    BY <1>0, <2>1 DEF MemberInv, Positions, Queued, Unswapped
<1>7. PlaceInv'
  BY <1>0 DEF PlaceInv, Positions, Queued, Swapped
<1>8. PendingInv'
  BY <1>0 DEF PendingInv, Positions, Queued, Unswapped
<1>9. NextInv' /\ LinkInv'
  BY <1>0, SMTT(60) DEF NextInv, LinkInv, Positions, LateNode, Linking
<1>10. StrictInv'
  BY <1>0 DEF StrictInv, Positions, Linking
<1> QED
  BY <1>1, <1>2, <1>3, <1>4, <1>5, <1>6, <1>7, <1>8, <1>9, <1>10 DEF IInv

LEMMA LeaveClearStep ==
  ASSUME IInv, NEW t \in Threads, LeaveClear(t)
  PROVE  IInv'
<1> USE NodeFacts DEF IInv
<1>0. /\ UNCHANGED <<tail, next, owner, status, elem, target, prev, order>>
      /\ pc[t] = "load" /\ curr[t] \in Nodes
      /\ pc'[t] \in {"alloc", "idle"}
      /\ \A u \in Threads : u # t => pc'[u] = pc[u]
      /\ \A u \in Threads : head'[u] = IF u = t THEN curr[t] ELSE head[u]
      /\ \A u \in Threads : curr'[u] = IF u = t THEN NULL ELSE curr[u]
      /\ \A u \in Threads : piq'[u] <=> (u = t \/ piq[u])
      /\ curr[t] = t \/ piq[t]
  BY DEF TypeOK, LeaveClear, PhaseInv, memVars, insertVars
<1>1. TypeOK'
  <2>1. pc' \in [Threads -> PCs]
    BY DEF TypeOK, LeaveClear, PCs
  <2>2. goal' \in [Threads -> {"alloc", "return"}]
    BY DEF TypeOK, LeaveClear
  <2>3. head' \in [Threads -> Nodes]
    BY <1>0 DEF TypeOK, LeaveClear
  <2>4. curr' \in [Threads -> Nodes \cup {NULL}] /\ piq' \in [Threads -> BOOLEAN]
    BY DEF TypeOK, LeaveClear
  <2> QED
    BY <1>0, <2>1, <2>2, <2>3, <2>4, Zenon DEF TypeOK
<1>2. PhaseInv'
  BY <1>0 DEF PhaseInv, Inserting
<1>3. MemoryInv' /\ ElemInv'
  BY <1>0 DEF MemoryInv, ElemInv, Inserting
<1>4. ShapeInv'
  <2>1. \A a \in Threads : Front(a)' = Front(a)
    BY <1>0 DEF Front
  <2> QED
    BY <1>0, <2>1 DEF ShapeInv, Positions
<1>5. MemberInv'
  BY <1>0 DEF MemberInv, Positions, Queued, Unswapped
<1>6. PlaceInv'
  <2>1. curr[t] = t => Queued(t, t)
    BY <1>0, LenFacts DEF ShapeInv, Front, Queued
  <2> QED
    BY <1>0, <2>1 DEF PlaceInv, Positions, Queued, Swapped
<1>7. PendingInv'
  BY <1>0 DEF PendingInv, Positions, Queued, Unswapped
<1>8. NextInv' /\ LinkInv'
  BY <1>0, SMTT(60) DEF NextInv, LinkInv, Positions, LateNode, Linking
<1>9. StrictInv'
  BY <1>0 DEF StrictInv, Positions, Linking
<1> QED
  BY <1>1, <1>2, <1>3, <1>4, <1>5, <1>6, <1>7, <1>8, <1>9 DEF IInv

LEMMA AllocateStep ==
  ASSUME IInv, NEW t \in Threads, NEW b \in Blocks, Allocate(t, b)
  PROVE  IInv'
<1> USE NodeFacts DEF IInv
<1>0. /\ UNCHANGED <<head, tail, curr, piq, goal, elem, target, prev, order>>
      /\ pc[t] = "alloc" /\ status[b] = "avail"
      /\ \A u \in Threads : pc'[u] = IF u = t THEN "idle" ELSE pc[u]
      /\ \A c \in Blocks : status'[c] = IF c = b THEN "live" ELSE status[c]
      /\ \A c \in Blocks : owner'[c] = IF c = b THEN t ELSE owner[c]
      /\ \A n \in Nodes : next'[n] = IF n = b THEN Junk ELSE next[n]
  BY DEF TypeOK, Allocate, clearVars, insertVars
<1>1. TypeOK'
  <2>1. pc' \in [Threads -> PCs]
    BY DEF TypeOK, Allocate, PCs
  <2>2. next' \in [Nodes -> Nodes \cup {NULL, Junk}]
    BY DEF TypeOK, Allocate
  <2>3. status' \in [Blocks -> {"avail", "live", "pending"}]
    BY DEF TypeOK, Allocate
  <2>4. owner' \in [Blocks -> Threads \cup {NULL}]
    BY DEF TypeOK, Allocate
  <2> QED
    BY <1>0, <2>1, <2>2, <2>3, <2>4, Zenon DEF TypeOK
<1>a. \A a \in Threads : \A i \in Positions(a) : order[a][i] \in Nodes /\ order[a][i] # b
  BY <1>0 DEF MemberInv
<1>2. PhaseInv'
  BY <1>0 DEF PhaseInv, Inserting
<1>3. MemoryInv' /\ ElemInv'
  BY <1>0 DEF MemoryInv, ElemInv, Inserting
<1>4. ShapeInv'
  BY <1>0 DEF ShapeInv, Positions, Front
<1>5. MemberInv'
  BY <1>0 DEF MemberInv, Positions, Queued, Unswapped
<1>6. PlaceInv'
  BY <1>0 DEF PlaceInv, Positions, Queued, Swapped
<1>7. PendingInv'
  BY <1>0 DEF PendingInv, Positions, Queued, Unswapped
<1>8. NextInv'
  <2>1. \A n \in Nodes : LateNode(n)' <=> LateNode(n)
    BY <1>0 DEF LateNode
  <2> QED
    BY <1>0, <1>a, <2>1 DEF NextInv, Positions
<1>9. LinkInv'
  BY <1>0, <1>a, SMTT(60) DEF LinkInv, Positions, LateNode, Linking
<1>10. StrictInv'
  <2>1. \A u, a \in Threads : Linking(u, a)' <=> Linking(u, a)
    BY <1>0 DEF Linking
  <2> QED
    BY <1>0, <1>a, <2>1, SMTT(60) DEF StrictInv, Positions
<1> QED
  BY <1>1, <1>2, <1>3, <1>4, <1>5, <1>6, <1>7, <1>8, <1>9, <1>10 DEF IInv

LEMMA AllocateFailsStep ==
  ASSUME IInv, NEW t \in Threads, AllocateFails(t)
  PROVE  IInv'
<1> USE NodeFacts DEF IInv
<1>0. /\ UNCHANGED <<head, tail, next, owner, status, goal, curr, piq, elem, target, prev, order>>
      /\ pc[t] = "alloc"
      /\ \A u \in Threads : pc'[u] = IF u = t THEN "idle" ELSE pc[u]
  BY DEF TypeOK, AllocateFails, memVars, clearVars, insertVars
<1>1. TypeOK'
  <2>1. pc' \in [Threads -> PCs]
    BY DEF TypeOK, AllocateFails, PCs
  <2> QED
    BY <1>0, <2>1, Zenon DEF TypeOK
<1>2. PhaseInv' /\ MemoryInv' /\ ElemInv'
  BY <1>0 DEF PhaseInv, MemoryInv, ElemInv, Inserting
<1>3. ShapeInv'
  BY <1>0 DEF ShapeInv, Positions, Front
<1>4. MemberInv'
  BY <1>0 DEF MemberInv, Positions, Queued, Unswapped
<1>5. PlaceInv'
  BY <1>0 DEF PlaceInv, Positions, Queued, Swapped
<1>6. PendingInv'
  BY <1>0 DEF PendingInv, Positions, Queued, Unswapped
<1>7. NextInv' /\ LinkInv'
  BY <1>0 DEF NextInv, LinkInv, Positions, LateNode, Linking
<1>8. StrictInv'
  BY <1>0 DEF StrictInv, Positions, Linking
<1> QED
  BY <1>1, <1>2, <1>3, <1>4, <1>5, <1>6, <1>7, <1>8 DEF IInv

\* The queues of two arenas have no element in common.
LEMMA QueuesDisjoint ==
  ASSUME MemberInv, NEW a \in Threads, NEW c \in Threads,
         NEW i \in Positions(a), NEW j \in Positions(c),
         order[a][i] = order[c][j]
  PROVE  a = c
BY NodeFacts DEF MemberInv

LEMMA SwapTailStep ==
  ASSUME IInv, NEW t \in Threads, SwapTail(t)
  PROVE  IInv'
<1> USE NodeFacts DEF IInv
<1> DEFINE a0 == target[t]
           n  == Len(order[a0])
<1>0. /\ UNCHANGED <<head, next, owner, status, goal, curr, piq, elem, target>>
      /\ pc[t] \in {"store", "swap"}
      /\ pc[t] = "store" => WeakOrder
      /\ a0 \in Threads /\ elem[t] \in Nodes
      /\ \A u \in Threads : pc'[u] = IF u = t THEN IF pc[t] = "swap" THEN "link" ELSE "late"
                                     ELSE pc[u]
      /\ \A u \in Threads : prev'[u] = IF u = t THEN tail[a0] ELSE prev[u]
      /\ \A a \in Threads : tail'[a] = IF a = a0 THEN elem[t] ELSE tail[a]
      /\ order'[a0] = Append(order[a0], elem[t])
      /\ \A a \in Threads : a # a0 => order'[a] = order[a]
  BY DEF TypeOK, SwapTail, PhaseInv, Inserting, memVars, clearVars
<1>1. TypeOK'
  <2>1. pc' \in [Threads -> PCs]
    BY DEF TypeOK, SwapTail, PCs
  <2>2. tail' \in [Threads -> Nodes]
    BY <1>0 DEF TypeOK, SwapTail
  <2>3. prev' \in [Threads -> Nodes \cup {NULL}]
    BY <1>0 DEF TypeOK, SwapTail
  <2>4. order' \in [Threads -> Seq(Nodes)]
    BY <1>0 DEF TypeOK, SwapTail
  <2> QED
    BY <1>0, <2>1, <2>2, <2>3, <2>4, Zenon DEF TypeOK
<1>2. /\ n \in Nat \ {0} /\ n \in Positions(a0) /\ 1 \in Positions(a0)
      /\ Len(order'[a0]) = n + 1
      /\ order'[a0][n + 1] = elem[t]
  BY <1>0, LenFacts, AppendFacts
<1>3. \A a \in Threads : \A i \in Positions(a) : order'[a][i] = order[a][i]
  <2>1. \A i \in 1 .. n : order'[a0][i] = order[a0][i]
    BY <1>0, LenFacts, AppendFacts
  <2> QED
    BY <1>0, <2>1 DEF Positions
<1>4. \A a \in Threads : \A i :
        i \in Positions(a)' <=> (i \in Positions(a) \/ (a = a0 /\ i = n + 1))
  BY <1>0, <1>2 DEF Positions
<1>5. \A a \in Threads : \A i \in Positions(a) : order[a][i] # elem[t]
  BY <1>0 DEF MemberInv, Unswapped, Queued
<1>6. \A a \in Threads : \A x : Queued(x, a)' <=> (Queued(x, a) \/ (a = a0 /\ x = elem[t]))
  BY <1>2, <1>3, <1>4 DEF Queued
<1>7. PhaseInv' /\ MemoryInv' /\ ElemInv'
  BY <1>0 DEF PhaseInv, MemoryInv, ElemInv, Inserting
<1>8. ShapeInv'
  <2>1. \A a \in Threads : Len(order'[a]) > 0 /\ order'[a][1] = order[a][1]
    BY <1>0, <1>2, <1>3, LenFacts
  <2>2. \A a \in Threads : order'[a][Len(order'[a])] = tail'[a]
    BY <1>0, <1>2, <1>3 DEF ShapeInv
  <2>3. \A a \in Threads : \A i, j \in Positions(a)' : order'[a][i] = order'[a][j] => i = j
    BY <1>2, <1>3, <1>4, <1>5 DEF ShapeInv
  <2> QED
    BY <1>0, <2>1, <2>2, <2>3 DEF ShapeInv, Front
<1>9. MemberInv'
  <2>1. \/ elem[t] = a0
        \/ elem[t] \in Blocks /\ status[elem[t]] = "pending" /\ owner[elem[t]] = a0
    BY <1>0 DEF PhaseInv, Inserting
  <2>2. \A a \in Threads : \A i \in Positions(a)' :
          \/ order'[a][i] = a
          \/ /\ order'[a][i] \in Blocks
             /\ status[order'[a][i]] = "pending"
             /\ owner[order'[a][i]] = a
    BY <1>2, <1>3, <1>4, <2>1 DEF MemberInv
  <2>3. \A u, a \in Threads : pc'[u] \in Unswapped => ~Queued(elem[u], a)'
    BY <1>0, <1>6 DEF MemberInv, ElemInv, Unswapped, Inserting
  <2> QED
    BY <1>0, <2>2, <2>3 DEF MemberInv
<1>10. PlaceInv'
  BY <1>0, <1>6 DEF PlaceInv, PhaseInv, Inserting, Swapped
<1>11. PendingInv'
  <2>1. owner[elem[t]] = a0 \/ elem[t] \notin Blocks
    BY <1>0 DEF PhaseInv, Inserting
  <2> SUFFICES ASSUME NEW b \in Blocks, status[b] = "pending"
               PROVE  \/ Queued(b, owner[b])'
                      \/ \E u \in Threads : pc'[u] \in Unswapped /\ elem[u] = b
    BY <1>0 DEF PendingInv
  <2>2. CASE Queued(b, owner[b])
    <3>1. \E i \in Positions(owner[b]) : order[owner[b]][i] = b
      BY <2>2 DEF Queued
    <3>2. owner[b] \in Threads
      BY MemoryFacts
    <3>3. \E i \in Positions(owner[b])' : order'[owner[b]][i] = b
      BY <1>0, <1>3, <1>4, <3>1, <3>2
    <3> QED
      BY <1>0, <3>3 DEF Queued
  <2>3. CASE elem[t] = b
    <3>1. \E i \in Positions(owner[b])' : order'[owner[b]][i] = b
      BY <1>0, <1>2, <1>4, <2>1, <2>3
    <3> QED
      BY <1>0, <3>1 DEF Queued
  <2>4. CASE \E u \in Threads : u # t /\ pc[u] \in Unswapped /\ elem[u] = b
    BY <1>0, <2>4
  <2> QED
    BY <2>2, <2>3, <2>4 DEF PendingInv
<1> DEFINE Late(x) == \E w \in Threads : pc'[w] = "late" /\ elem[w] = x
<1>12. \A x : LateNode(x) => Late(x)
  BY <1>0 DEF LateNode
<1>13. Late(elem[t]) \/ next[elem[t]] = NULL
  BY <1>0 DEF PhaseInv
<1> HIDE DEF Late
<1>14. NextInv'
  <2>1. ASSUME NEW a \in Threads, NEW i \in Positions(a)
        PROVE  \/ Late(order[a][i])
               \/ next[order[a][i]] = NULL
               \/ i < Len(order'[a]) /\ next[order[a][i]] = order'[a][i + 1]
    <3>1. i < Len(order[a]) => i < Len(order'[a]) /\ order'[a][i + 1] = order[a][i + 1]
      BY <1>0, <1>2, <1>3 DEF Positions
    <3> QED
      BY <1>12, <3>1 DEF NextInv
  <2>2. \A a \in Threads : \A i \in Positions(a)' :
          \/ Late(order'[a][i])
          \/ next[order'[a][i]] = NULL
          \/ i < Len(order'[a]) /\ next[order'[a][i]] = order'[a][i + 1]
    BY <1>2, <1>3, <1>4, <1>13, <2>1
  <2> QED
    BY <1>0, <2>2 DEF NextInv, Late, LateNode
<1>15. LinkInv'
  <2> SUFFICES ASSUME NEW u \in Threads, NEW a \in Threads, Linking(u, a)'
               PROVE  /\ \E i \in Positions(a)' :
                           /\ i < Len(order'[a])
                           /\ prev'[u] = order'[a][i]
                           /\ elem[u] = order'[a][i + 1]
                      /\ Late(prev'[u]) \/ next[prev'[u]] = NULL
    BY <1>0 DEF LinkInv, Late, LateNode
  <2>1. CASE u = t
    <3>1. a = a0 /\ prev'[t] = order[a0][n]
      BY <1>0, <2>1 DEF Linking, ShapeInv
    <3>2. LateNode(order[a0][n]) \/ next[order[a0][n]] = NULL
      BY <1>0, <1>2 DEF NextInv
    <3>3. /\ n \in Positions(a0)' /\ n < Len(order'[a0])
          /\ order'[a0][n] = order[a0][n]
          /\ order'[a0][n + 1] = elem[t]
      BY <1>0, <1>2, <1>3, <1>4
    <3>4. Late(order[a0][n]) \/ next[order[a0][n]] = NULL
      BY <1>12, <3>2
    <3>5. \E i \in Positions(a)' :
             i < Len(order'[a]) /\ prev'[u] = order'[a][i] /\ elem[u] = order'[a][i + 1]
      BY <2>1, <3>1, <3>3, SMTT(60) DEF Positions
    <3>6. Late(prev'[u]) \/ next[prev'[u]] = NULL
      BY <2>1, <3>1, <3>4 DEF Late
    <3> QED
      BY <3>5, <3>6
  <2>2. CASE u # t
    <3>1. Linking(u, a) /\ prev'[u] = prev[u]
      BY <1>0, <2>2 DEF Linking
    <3>2. PICK i \in Positions(a) : /\ i < Len(order[a])
                                    /\ prev[u] = order[a][i]
                                    /\ elem[u] = order[a][i + 1]
      BY <3>1 DEF LinkInv
    <3>3. i < Len(order'[a]) /\ order'[a][i + 1] = order[a][i + 1]
      BY <1>0, <1>2, <1>3, <3>2 DEF Positions
    <3> QED
      BY <1>3, <1>4, <1>12, <3>1, <3>2, <3>3 DEF LinkInv
  <2> QED
    BY <2>1, <2>2
<1>16. StrictInv'
  <2> SUFFICES ASSUME ~WeakOrder
               PROVE  /\ \A u \in Threads : pc'[u] # "late"
                      /\ \A a \in Threads : \A i \in Positions(a)' : i < Len(order'[a]) =>
                           \/ next[order'[a][i]] = order'[a][i + 1]
                           \/ \E u \in Threads : /\ Linking(u, a)'
                                                 /\ prev'[u] = order'[a][i]
                                                 /\ elem[u] = order'[a][i + 1]
    BY <1>0 DEF StrictInv
  <2>1. \A u \in Threads : pc'[u] # "late"
    BY <1>0 DEF StrictInv
  <2>2. ASSUME NEW a \in Threads, NEW i \in Positions(a)', i < Len(order'[a])
        PROVE  \/ next[order'[a][i]] = order'[a][i + 1]
               \/ \E u \in Threads : /\ Linking(u, a)'
                                     /\ prev'[u] = order'[a][i]
                                     /\ elem[u] = order'[a][i + 1]
    <3>1. CASE i \in Positions(a) /\ i < Len(order[a])
      <4>1. order'[a][i] = order[a][i] /\ order'[a][i + 1] = order[a][i + 1]
        BY <1>3, <3>1 DEF Positions
      <4>2. \A u \in Threads : Linking(u, a) => Linking(u, a)' /\ prev'[u] = prev[u]
        BY <1>0 DEF Linking
      <4> QED
        BY <3>1, <4>1, <4>2 DEF StrictInv
    <3>2. CASE ~(i \in Positions(a) /\ i < Len(order[a]))
      <4>1. a = a0 /\ i = n
        BY <1>0, <1>2, <1>4, <2>2, <3>2 DEF Positions
      <4>2. Linking(t, a)' /\ prev'[t] = order'[a][i] /\ elem[t] = order'[a][i + 1]
        BY <1>0, <1>2, <1>3, <4>1 DEF Linking, ShapeInv
      <4> QED
        BY <4>2
    <3> QED
      BY <3>1, <3>2
  <2> QED
    BY <2>1, <2>2
<1> QED
  BY <1>1, <1>7, <1>8, <1>9, <1>10, <1>11, <1>14, <1>15, <1>16 DEF IInv

\* A late element is never the first of its queue: the link in front of it is
\* still to be made.
LEMMA LateNotFirst ==
  ASSUME IInv, NEW a \in Threads
  PROVE  ~LateNode(order[a][1])
<1> USE NodeFacts DEF IInv
<1> SUFFICES ASSUME NEW u \in Threads, pc[u] = "late", elem[u] = order[a][1]
             PROVE  FALSE
  BY DEF LateNode
<1>1. target[u] \in Threads /\ Linking(u, target[u])
  BY DEF PhaseInv, Inserting, Linking
<1>2. PICK i \in Positions(target[u]) : i < Len(order[target[u]]) /\ elem[u] = order[target[u]][i + 1]
  BY <1>1 DEF LinkInv
<1>3. /\ 1 \in Positions(a) /\ i + 1 \in Positions(target[u]) /\ i + 1 # 1
  BY <1>1, <1>2, LenFacts DEF Positions
<1>4. a = target[u]
  BY <1>1, <1>2, <1>3, QueuesDisjoint
<1>5. 1 \in Positions(a) /\ i + 1 \in Positions(a) /\ order[a][1] = order[a][i + 1]
  BY <1>2, <1>3, <1>4
<1> QED
  BY <1>3, <1>5 DEF ShapeInv

LEMMA LinkStep ==
  ASSUME IInv, NEW t \in Threads, Link(t)
  PROVE  IInv'
<1> USE NodeFacts DEF IInv
<1> DEFINE a0 == target[t]
<1>0. /\ UNCHANGED <<head, tail, owner, status, order>>
      /\ pc[t] = "link"
      /\ a0 \in Threads /\ elem[t] \in Nodes /\ head[t] \in Nodes
      /\ \A u \in Threads : pc'[u] = IF u = t THEN "load" ELSE pc[u]
      /\ \A u \in Threads : elem'[u] = IF u = t THEN NULL ELSE elem[u]
      /\ \A u \in Threads : target'[u] = IF u = t THEN NULL ELSE target[u]
      /\ \A u \in Threads : prev'[u] = IF u = t THEN NULL ELSE prev[u]
      /\ \A u \in Threads : piq'[u] <=> (u = t \/ piq[u])
      /\ \A u \in Threads : curr'[u] = IF u = t /\ elem[t] # t THEN head[t] ELSE curr[u]
      /\ \A m \in Nodes : next'[m] = IF m = prev[t] THEN elem[t] ELSE next[m]
  BY DEF TypeOK, Link, EnterClear, PhaseInv, Inserting, memVars
<1>1. TypeOK'
  <2>0. pc' = [pc EXCEPT ![t] = "load"]
    BY DEF Link, EnterClear
  <2>1. pc' \in [Threads -> PCs]
    BY <2>0 DEF TypeOK, PCs
  <2>2. goal' \in [Threads -> {"alloc", "return"}]
    BY ZenonT(60) DEF TypeOK, Link, EnterClear
  <2>3. curr' \in [Threads -> Nodes \cup {NULL}]
    <3>1. curr' = curr \/ curr' = [curr EXCEPT ![t] = head[t]]
      BY DEF Link, EnterClear
    <3> QED
      BY <1>0, <3>1, ZenonT(60) DEF TypeOK
  <2>6. piq' \in [Threads -> BOOLEAN]
    <3>1. piq' = [piq EXCEPT ![t] = TRUE]
      BY DEF Link, EnterClear
    <3> QED
      BY <3>1 DEF TypeOK
  <2>4. /\ elem'   \in [Threads -> Nodes \cup {NULL}]
        /\ target' \in [Threads -> Threads \cup {NULL}]
        /\ prev'   \in [Threads -> Nodes \cup {NULL}]
    BY DEF TypeOK, Link
  <2>5. next' \in [Nodes -> Nodes \cup {NULL, Junk}]
    BY <1>0 DEF TypeOK, Link
  <2> QED
    BY <1>0, <2>1, <2>2, <2>3, <2>4, <2>5, <2>6, Zenon DEF TypeOK
<1>2. PICK k \in Positions(a0) : /\ k < Len(order[a0])
                                 /\ prev[t] = order[a0][k]
                                 /\ elem[t] = order[a0][k + 1]
  BY <1>0 DEF LinkInv, Linking
<1>3. k + 1 \in Positions(a0) /\ k \in Positions(a0)
  BY <1>0, <1>2, LenFacts DEF Positions
<1>4. \A a \in Threads : \A i \in Positions(a) :
        /\ order[a][i] \in Nodes
        /\ order[a][i] = prev[t] => a = a0 /\ i = k
        /\ order[a][i] = elem[t] => a = a0 /\ i = k + 1
  <2>1. \A a \in Threads : \A i \in Positions(a) :
          /\ order[a][i] = prev[t] => a = a0
          /\ order[a][i] = elem[t] => a = a0
    BY <1>0, <1>2, <1>3, QueuesDisjoint
  <2> QED
    BY <1>0, <1>2, <1>3, <2>1 DEF MemberInv, ShapeInv
<1> DEFINE Late(x) == \E w \in Threads : pc'[w] = "late" /\ elem'[w] = x
<1>5. \A x : LateNode(x) => Late(x)
  BY <1>0 DEF LateNode
<1> HIDE DEF Late
<1>6. PhaseInv' /\ MemoryInv' /\ ElemInv'
  <2>1. \A u \in Threads : pc[u] = "swap" => elem[u] # prev[t] /\ elem[u] \in Nodes
    BY <1>0, <1>2, <1>3 DEF MemberInv, Unswapped, Queued, PhaseInv, Inserting
  <2>2. PhaseInv'
    BY <1>0, <2>1 DEF PhaseInv, Inserting
  <2> QED
    BY <1>0, <2>2 DEF MemoryInv, ElemInv, Inserting
<1>7. ShapeInv'
  <2>1. \A a \in Threads : Front(a)' = Front(a)
    BY <1>0 DEF Front, PhaseInv, Inserting
  <2> QED
    BY <1>0, <2>1 DEF ShapeInv, Positions
<1>8. MemberInv'
  BY <1>0 DEF MemberInv, Positions, Queued, Unswapped
<1>9. PlaceInv'
  <2>1. elem[t] = t \/ piq[t]
    BY <1>0 DEF PhaseInv, Inserting
  <2>2. elem[t] = t => ~piq[t]
    BY <1>0 DEF PhaseInv, Inserting
  <2> QED
    BY <1>0, <2>1, <2>2 DEF PlaceInv, Positions, Queued, Swapped
<1>10. PendingInv'
  BY <1>0 DEF PendingInv, Positions, Queued, Unswapped
<1>11. NextInv'
  <2> SUFFICES ASSUME NEW a \in Threads, NEW i \in Positions(a)
               PROVE  \/ Late(order[a][i])
                      \/ next'[order[a][i]] = NULL
                      \/ i < Len(order[a]) /\ next'[order[a][i]] = order[a][i + 1]
    BY <1>0 DEF NextInv, Positions, Late, LateNode
  <2>1. CASE order[a][i] = prev[t]
    BY <1>0, <1>2, <1>4, <2>1
  <2>2. CASE order[a][i] # prev[t]
    BY <1>0, <1>4, <1>5, <2>2 DEF NextInv
  <2> QED
    BY <2>1, <2>2
<1>12. LinkInv'
  <2> SUFFICES ASSUME NEW u \in Threads, NEW a \in Threads, Linking(u, a)'
               PROVE  /\ \E i \in Positions(a) :
                           /\ i < Len(order[a])
                           /\ prev[u] = order[a][i]
                           /\ elem[u] = order[a][i + 1]
                      /\ Late(prev[u]) \/ next'[prev[u]] = NULL
                      /\ u # t
    BY <1>0 DEF LinkInv, Positions, Late, LateNode
  <2>1. u # t /\ Linking(u, a)
    BY <1>0 DEF Linking
  <2>2. PICK i \in Positions(a) : /\ i < Len(order[a])
                                  /\ prev[u] = order[a][i]
                                  /\ elem[u] = order[a][i + 1]
    BY <2>1 DEF LinkInv
  <2>3. prev[u] # prev[t]
    <3>1. SUFFICES ASSUME prev[u] = prev[t] PROVE FALSE
      OBVIOUS
    <3>2. a = a0 /\ i = k
      BY <1>4, <2>2, <3>1
    <3> QED
      BY <1>0, <1>2, <2>1, <2>2, <3>2 DEF ElemInv, Linking, Inserting
  <2>4. LateNode(prev[u]) \/ next[prev[u]] = NULL
    BY <2>1 DEF LinkInv
  <2>5. next'[prev[u]] = next[prev[u]]
    BY <1>0, <1>4, <2>2, <2>3
  <2> QED
    BY <1>5, <2>1, <2>2, <2>4, <2>5
<1>13. StrictInv'
  <2> SUFFICES ASSUME ~WeakOrder, NEW a \in Threads, NEW i \in Positions(a),
                      i < Len(order[a])
               PROVE  \/ next'[order[a][i]] = order[a][i + 1]
                      \/ \E u \in Threads : /\ Linking(u, a)'
                                            /\ prev'[u] = order[a][i]
                                            /\ elem'[u] = order[a][i + 1]
    BY <1>0, SMTT(60) DEF StrictInv, Positions
  <2>1. CASE order[a][i] = prev[t]
    BY <1>0, <1>2, <1>4, <2>1
  <2>2. CASE order[a][i] # prev[t]
    <3>1. next'[order[a][i]] = next[order[a][i]]
      BY <1>0, <1>4, <2>2
    <3>2. \A u \in Threads : u # t /\ Linking(u, a)
             => Linking(u, a)' /\ prev'[u] = prev[u] /\ elem'[u] = elem[u]
      BY <1>0 DEF Linking
    <3> QED
      BY <2>2, <3>1, <3>2 DEF StrictInv
  <2> QED
    BY <2>1, <2>2
<1> QED
  BY <1>1, <1>6, <1>7, <1>8, <1>9, <1>10, <1>11, <1>12, <1>13 DEF IInv

\* What the owner finds when the head it looks at has a successor.
LEMMA HeadFacts ==
  ASSUME IInv, NEW t \in Threads, pc[t] = "load", next[curr[t]] # NULL
  PROVE  /\ curr[t] = order[t][1]
         /\ Len(order[t]) > 1
         /\ next[curr[t]] = order[t][2]
         /\ \A u, a \in Threads : Linking(u, a) => prev[u] # curr[t]
         /\ \A u \in Threads : pc[u] \in Inserting => elem[u] # curr[t]
<1> USE NodeFacts DEF IInv
<1>1. curr[t] = order[t][1] /\ 1 \in Positions(t)
  BY LenFacts DEF ShapeInv, Front, PhaseInv
<1>2. ~LateNode(order[t][1])
  BY LateNotFirst
<1>3. 1 < Len(order[t]) /\ next[curr[t]] = order[t][2]
  BY <1>1, <1>2 DEF NextInv
<1>4. ASSUME NEW u \in Threads, NEW a \in Threads, Linking(u, a)
      PROVE  prev[u] # curr[t] /\ elem[u] # curr[t]
  <2>1. LateNode(prev[u]) \/ next[prev[u]] = NULL
    BY <1>4 DEF LinkInv
  <2>2. prev[u] # curr[t]
    BY <1>1, <1>2, <2>1
  <2>3. PICK i \in Positions(a) : i < Len(order[a]) /\ elem[u] = order[a][i + 1]
    BY <1>4 DEF LinkInv
  <2>4. i + 1 \in Positions(a) /\ i + 1 # 1
    BY <2>3, LenFacts DEF Positions
  <2>5. ASSUME elem[u] = curr[t] PROVE FALSE
    <3>1. a = t
      BY <1>1, <2>3, <2>4, <2>5, QueuesDisjoint
    <3>2. \A j, k \in Positions(t) : order[t][j] = order[t][k] => j = k
      BY DEF ShapeInv
    <3>3. 1 \in Positions(t) /\ i + 1 \in Positions(t) /\ order[t][i + 1] = order[t][1]
      BY <1>1, <2>3, <2>4, <2>5, <3>1
    <3> QED
      BY <2>4, <3>2, <3>3
  <2> QED
    BY <2>2, <2>5
<1>5. \A u \in Threads : pc[u] \in Swapped => Linking(u, target[u]) /\ target[u] \in Threads
  BY DEF PhaseInv, Swapped, Inserting, Linking
<1>6. \A u \in Threads : pc[u] \in Unswapped => elem[u] # curr[t]
  BY <1>1 DEF MemberInv, Queued
<1>7. \A u \in Threads : pc[u] \in Inserting => pc[u] \in Swapped \/ pc[u] \in Unswapped
  BY DEF Swapped, Unswapped, Inserting
<1> QED
  BY <1>1, <1>3, <1>4, <1>5, <1>6, <1>7

\* What taking the head out of the queue does, whatever the head is.
LEMMA TakeHead ==
  ASSUME IInv, NEW t \in Threads, pc[t] = "load", next[curr[t]] # NULL,
         UNCHANGED <<head, tail, next, pc, elem, target, prev>>,
         \A u \in Threads : curr'[u] = IF u = t THEN next[curr[t]] ELSE curr[u],
         order'[t] = Tail(order[t]),
         \A a \in Threads : a # t => order'[a] = order[a]
  PROVE  /\ curr'[t] \in Nodes
         /\ \A a \in Threads : \A i \in 1 .. Len(order'[a]) :
               order'[a][i] # curr[t] /\ Queued(order'[a][i], a)
         /\ \A a \in Threads : \A i \in Positions(a) :
               \/ order[a][i] = curr[t]
               \/ \E j \in 1 .. Len(order'[a]) : order'[a][j] = order[a][i]
         /\ ShapeInv' /\ NextInv' /\ LinkInv' /\ StrictInv'
<1> USE NodeFacts DEF IInv
<1> DEFINE q == order[t]
           r == order'[t]
           n == Len(q)
<1>1. /\ curr[t] = q[1] /\ n > 1 /\ next[curr[t]] = q[2]
      /\ \A u, a \in Threads : Linking(u, a) => prev[u] # curr[t]
  BY HeadFacts
<1>2. /\ n \in Nat /\ Len(r) = n - 1
      /\ \A i \in 1 .. n - 1 : r[i] = q[i + 1]
  BY LenFacts, TailFacts
<1>3. \A i \in 1 .. n : \A j \in 1 .. n : q[i] = q[j] => i = j
  BY DEF ShapeInv, Positions
<1>4. \A a \in Threads : \A i \in Positions(a) : order[a][i] = curr[t] <=> a = t /\ i = 1
  <2>1. 1 \in Positions(t)
    BY LenFacts
  <2>2. \A a \in Threads : \A i \in Positions(a) : order[a][i] = curr[t] => a = t
    BY <1>1, <2>1, QueuesDisjoint
  <2> QED
    BY <1>1, <2>1, <2>2 DEF ShapeInv
<1>5. curr'[t] \in Nodes
  <2>1. 2 \in Positions(t)
    BY <1>1, <1>2 DEF Positions
  <2> QED
    BY <1>1, <2>1 DEF MemberInv
<1>6. \A i \in 1 .. n - 1 : i + 1 \in 1 .. n /\ i + 1 # 1
  BY <1>2
<1>7. \A i \in 1 .. n : i # 1 => i - 1 \in 1 .. n - 1 /\ r[i - 1] = q[i]
  BY <1>2
<1>8. \A a \in Threads : \A i \in 1 .. Len(order'[a]) :
        order'[a][i] # curr[t] /\ Queued(order'[a][i], a)
  <2>1. ASSUME NEW i \in 1 .. n - 1 PROVE r[i] # curr[t] /\ Queued(r[i], t)
    BY <1>2, <1>4, <1>6 DEF Queued, Positions
  <2>2. ASSUME NEW a \in Threads, a # t, NEW i \in 1 .. Len(order[a])
        PROVE  order[a][i] # curr[t] /\ Queued(order[a][i], a)
    BY <1>4, <2>2 DEF Queued, Positions
  <2> SUFFICES ASSUME NEW a \in Threads, NEW i \in 1 .. Len(order'[a])
               PROVE  order'[a][i] # curr[t] /\ Queued(order'[a][i], a)
    OBVIOUS
  <2>3. CASE a = t
    <3>1. i \in 1 .. n - 1
      BY <1>2, <2>3
    <3> QED
      BY <2>1, <2>3, <3>1
  <2>4. CASE a # t
    BY <2>2, <2>4
  <2> QED
    BY <2>3, <2>4
<1>9. \A a \in Threads : \A i \in Positions(a) :
        \/ order[a][i] = curr[t]
        \/ \E j \in 1 .. Len(order'[a]) : order'[a][j] = order[a][i]
  <2>1. ASSUME NEW i \in 1 .. n, q[i] # curr[t]
        PROVE  \E j \in 1 .. Len(r) : r[j] = q[i]
    <3>1. i - 1 \in 1 .. Len(r) /\ r[i - 1] = q[i]
      BY <1>1, <1>2, <1>7, <2>1
    <3> QED
      BY <3>1
  <2> QED
    BY <2>1, ZenonT(60) DEF Positions
<1>10. ShapeInv'
  <2> SUFFICES ASSUME NEW a \in Threads
               PROVE  /\ Len(order'[a]) > 0
                      /\ order'[a][1] = Front(a)'
                      /\ order'[a][Len(order'[a])] = tail[a]
                      /\ \A i, j \in 1 .. Len(order'[a]) :
                           order'[a][i] = order'[a][j] => i = j
    BY DEF ShapeInv, Positions
  <2>1. CASE a # t
    BY <2>1 DEF ShapeInv, Positions, Front
  <2>2. CASE a = t
    <3>1. Len(r) > 0 /\ r[1] = curr'[t] /\ r[n - 1] = q[n]
      BY <1>1, <1>2
    <3>2. q[n] = tail[t]
      BY DEF ShapeInv
    <3>3. ASSUME NEW i \in 1 .. n - 1, NEW j \in 1 .. n - 1, r[i] = r[j] PROVE i = j
      <4>1. i + 1 = j + 1
        BY <1>2, <1>3, <1>6, <3>3
      <4> QED
        BY <1>2, <4>1
    <3> QED
      BY <1>2, <1>5, <2>2, <3>1, <3>2, <3>3, ZenonT(60) DEF Front
  <2> QED
    BY <2>1, <2>2
<1>11. NextInv'
  <2> SUFFICES ASSUME NEW a \in Threads, NEW i \in 1 .. Len(order'[a])
               PROVE  \/ LateNode(order'[a][i])
                      \/ next[order'[a][i]] = NULL
                      \/ i < Len(order'[a]) /\ next[order'[a][i]] = order'[a][i + 1]
    BY DEF NextInv, Positions, LateNode
  <2>1. CASE a # t
    BY <2>1 DEF NextInv, Positions
  <2>2. CASE a = t
    <3>0. i \in 1 .. n - 1
      BY <1>2, <2>2
    <3>a. i + 1 < n => i + 1 \in 1 .. n - 1
      BY <1>2, <3>0
    <3>1. /\ i + 1 \in Positions(t)
          /\ order'[a][i] = q[i + 1]
          /\ i + 1 < n => i < Len(order'[a]) /\ order'[a][i + 1] = q[(i + 1) + 1]
      <4>1. i + 1 \in Positions(t)
        BY <1>2, <3>0 DEF Positions
      <4>2. r[i] = q[i + 1]
        BY <1>2, <3>0
      <4>3. i + 1 < n => i < Len(r) /\ r[i + 1] = q[(i + 1) + 1]
        <5>1. i + 1 < n => r[i + 1] = q[(i + 1) + 1]
          BY <1>2, <3>a
        <5> QED
          BY <1>2, <3>0, <5>1
      <4> QED
        BY <2>2, <4>1, <4>2, <4>3
    <3>2. \/ LateNode(q[i + 1])
          \/ next[q[i + 1]] = NULL
          \/ i + 1 < n /\ next[q[i + 1]] = q[(i + 1) + 1]
      BY <3>1 DEF NextInv
    <3> QED
      BY <3>1, <3>2
  <2> QED
    BY <2>1, <2>2
<1>12. LinkInv'
  <2> SUFFICES ASSUME NEW u \in Threads, NEW a \in Threads, Linking(u, a)
               PROVE  /\ \E i \in 1 .. Len(order'[a]) :
                           /\ i < Len(order'[a])
                           /\ prev[u] = order'[a][i]
                           /\ elem[u] = order'[a][i + 1]
                      /\ LateNode(prev[u]) \/ next[prev[u]] = NULL
    BY DEF LinkInv, Linking, Positions, LateNode
  <2>1. PICK i \in Positions(a) : /\ i < Len(order[a])
                                  /\ prev[u] = order[a][i]
                                  /\ elem[u] = order[a][i + 1]
    BY DEF LinkInv
  <2>2. LateNode(prev[u]) \/ next[prev[u]] = NULL
    BY DEF LinkInv
  <2>3. \E j \in 1 .. Len(order'[a]) : /\ j < Len(order'[a])
                                        /\ prev[u] = order'[a][j]
                                        /\ elem[u] = order'[a][j + 1]
    <3>1. CASE a # t
      BY <2>1, <3>1 DEF Positions
    <3>2. CASE a = t
      <4>1. i \in 1 .. n /\ i # 1
        BY <1>1, <2>1, <3>2 DEF Positions
      <4>2. /\ i - 1 \in 1 .. Len(r) /\ i - 1 < Len(r)
            /\ r[i - 1] = q[i] /\ r[(i - 1) + 1] = q[i + 1]
        BY <1>2, <2>1, <3>2, <4>1
      <4> QED
        BY <2>1, <3>2, <4>2
    <3> QED
      BY <3>1, <3>2
  <2> QED
    BY <2>2, <2>3
<1>13. StrictInv'
  <2> SUFFICES ASSUME ~WeakOrder, NEW a \in Threads, NEW i \in 1 .. Len(order'[a]),
                      i < Len(order'[a])
               PROVE  \/ next[order'[a][i]] = order'[a][i + 1]
                      \/ \E u \in Threads : /\ Linking(u, a)
                                            /\ prev[u] = order'[a][i]
                                            /\ elem[u] = order'[a][i + 1]
    BY DEF StrictInv, Linking, Positions
  <2>1. CASE a # t
    BY <2>1 DEF StrictInv, Positions
  <2>2. CASE a = t
    <3>0. i \in 1 .. n - 1 /\ i < n - 1
      BY <1>2, <2>2
    <3>a. i + 1 \in 1 .. n - 1
      BY <1>2, <3>0
    <3>1. /\ i + 1 \in Positions(t) /\ i + 1 < n
          /\ order'[a][i] = q[i + 1]
          /\ order'[a][i + 1] = q[(i + 1) + 1]
      <4>1. i + 1 \in Positions(t) /\ i + 1 < n
        BY <1>2, <3>0 DEF Positions
      <4>2. r[i] = q[i + 1]
        BY <1>2, <3>0
      <4>3. r[i + 1] = q[(i + 1) + 1]
        BY <1>2, <3>a
      <4> QED
        BY <2>2, <4>1, <4>2, <4>3
    <3>2. \/ next[q[i + 1]] = q[(i + 1) + 1]
          \/ \E u \in Threads : /\ Linking(u, t)
                                /\ prev[u] = q[i + 1]
                                /\ elem[u] = q[(i + 1) + 1]
      BY <3>1 DEF StrictInv
    <3> QED
      BY <2>2, <3>1, <3>2
  <2> QED
    BY <2>1, <2>2
<1> QED
  BY <1>5, <1>8, <1>9, <1>10, <1>11, <1>12, <1>13

LEMMA FreeHeadStep ==
  ASSUME IInv, NEW t \in Threads, FreeHead(t)
  PROVE  IInv'
<1> USE NodeFacts DEF IInv
<1>0. /\ UNCHANGED <<head, tail, next, pc, goal, piq, elem, target, prev>>
      /\ pc[t] = "load" /\ next[curr[t]] # NULL /\ curr[t] # t
      /\ curr[t] \in Nodes
      /\ \A u \in Threads : curr'[u] = IF u = t THEN next[curr[t]] ELSE curr[u]
      /\ order'[t] = Tail(order[t])
      /\ \A a \in Threads : a # t => order'[a] = order[a]
      /\ \A c \in Blocks : status'[c] = IF c = curr[t] THEN "avail" ELSE status[c]
      /\ \A c \in Blocks : owner'[c] = IF c = curr[t] THEN NULL ELSE owner[c]
  BY DEF TypeOK, FreeHead, Release, PhaseInv, insertVars
<1>1. curr[t] = order[t][1] /\ 1 \in Positions(t) /\ Len(order[t]) > 1
  BY <1>0, HeadFacts, LenFacts
<1>2. curr[t] \in Blocks /\ status[curr[t]] = "pending" /\ owner[curr[t]] = t
  BY <1>0, <1>1 DEF MemberInv
<1>3. \A u \in Threads : pc[u] \in Inserting => elem[u] # curr[t]
  BY <1>0, HeadFacts
<1>4. /\ curr'[t] \in Nodes
      /\ \A a \in Threads : \A i \in 1 .. Len(order'[a]) :
            order'[a][i] # curr[t] /\ Queued(order'[a][i], a)
      /\ \A a \in Threads : \A i \in Positions(a) :
            \/ order[a][i] = curr[t]
            \/ \E j \in 1 .. Len(order'[a]) : order'[a][j] = order[a][i]
      /\ ShapeInv' /\ NextInv' /\ LinkInv' /\ StrictInv'
  BY <1>0, TakeHead, Zenon
<1>5. TypeOK'
  <2>1. curr' \in [Threads -> Nodes \cup {NULL}]
    BY <1>0, <1>4 DEF TypeOK, FreeHead
  <2>2. /\ status' \in [Blocks -> {"avail", "live", "pending"}]
        /\ owner' \in [Blocks -> Threads \cup {NULL}]
    BY DEF TypeOK, FreeHead, Release
  <2>3. order' \in [Threads -> Seq(Nodes)]
    <3>1. Tail(order[t]) \in Seq(Nodes)
      BY <1>1, LenFacts, TailFacts
    <3>2. order' = [order EXCEPT ![t] = Tail(order[t])] /\ order \in [Threads -> Seq(Nodes)]
      BY DEF FreeHead, TypeOK
    <3> QED
      BY <3>1, <3>2
  <2> QED
    BY <1>0, <2>1, <2>2, <2>3, Zenon DEF TypeOK
<1>6. PhaseInv'
  BY <1>0, <1>3, <1>4 DEF PhaseInv, Inserting
<1>7. MemoryInv' /\ ElemInv'
  BY <1>0 DEF MemoryInv, ElemInv, Inserting
<1>8. MemberInv'
  <2>1. ASSUME NEW a \in Threads, NEW i \in 1 .. Len(order'[a])
        PROVE  \/ order'[a][i] = a
               \/ /\ order'[a][i] \in Blocks
                  /\ status'[order'[a][i]] = "pending"
                  /\ owner'[order'[a][i]] = a
    <3>1. order'[a][i] # curr[t]
      BY <1>4
    <3>2. \/ order'[a][i] = a
          \/ /\ order'[a][i] \in Blocks
             /\ status[order'[a][i]] = "pending"
             /\ owner[order'[a][i]] = a
      <4>1. PICK j \in Positions(a) : order[a][j] = order'[a][i]
        BY <1>4 DEF Queued
      <4> QED
        BY <4>1 DEF MemberInv
    <3> QED
      BY <1>0, <3>1, <3>2
  <2>2. ASSUME NEW u \in Threads, NEW a \in Threads, pc[u] \in Unswapped,
               NEW i \in 1 .. Len(order'[a])
        PROVE  order'[a][i] # elem[u]
    BY <1>4, <2>2 DEF MemberInv
  <2> QED
    BY <1>0, <2>1, <2>2 DEF MemberInv, Queued, Positions
<1>9. PlaceInv'
  <2>1. ASSUME NEW a \in Threads
        PROVE  (\E i \in 1 .. Len(order'[a]) : order'[a][i] = a) <=> Queued(a, a)
    <3>1. ASSUME NEW i \in 1 .. Len(order'[a]), order'[a][i] = a PROVE Queued(a, a)
      BY <1>4, <3>1
    <3>2. ASSUME NEW i \in Positions(a), order[a][i] = a
          PROVE  \E j \in 1 .. Len(order'[a]) : order'[a][j] = a
      BY <1>2, <1>4, <3>2
    <3> QED
      BY <3>1, <3>2 DEF Queued
  <2> QED
    BY <1>0, <2>1 DEF PlaceInv, Queued, Positions
<1>10. PendingInv'
  <2>0. \A b \in Blocks : status'[b] = "pending" => owner'[b] = owner[b]
    BY <1>0
  <2> SUFFICES ASSUME NEW b \in Blocks, status'[b] = "pending"
               PROVE  \/ \E i \in 1 .. Len(order'[owner[b]]) : order'[owner[b]][i] = b
                      \/ \E u \in Threads : pc[u] \in Unswapped /\ elem[u] = b
    BY <1>0, <2>0 DEF PendingInv, Queued, Positions
  <2>1. b # curr[t] /\ status[b] = "pending"
    BY <1>0
  <2>2. owner[b] \in Threads
    BY <2>1, MemoryFacts
  <2>3. ASSUME NEW i \in Positions(owner[b]), order[owner[b]][i] = b
        PROVE  \E j \in 1 .. Len(order'[owner[b]]) : order'[owner[b]][j] = b
    BY <1>4, <2>1, <2>2, <2>3
  <2> QED
    BY <2>1, <2>3 DEF PendingInv, Queued
<1> QED
  BY <1>4, <1>5, <1>6, <1>7, <1>8, <1>9, <1>10 DEF IInv

LEMMA PopPlaceholderStep ==
  ASSUME IInv, NEW t \in Threads, PopPlaceholder(t)
  PROVE  IInv'
<1> USE NodeFacts DEF IInv
<1>0. /\ UNCHANGED <<head, tail, next, pc, goal, owner, status, elem, target, prev>>
      /\ pc[t] = "load" /\ next[curr[t]] # NULL /\ curr[t] = t
      /\ \A u \in Threads : curr'[u] = IF u = t THEN next[curr[t]] ELSE curr[u]
      /\ \A u \in Threads : piq'[u] <=> (u # t /\ piq[u])
      /\ order'[t] = Tail(order[t])
      /\ \A a \in Threads : a # t => order'[a] = order[a]
  BY DEF TypeOK, PopPlaceholder, memVars, insertVars
<1>1. curr[t] = order[t][1] /\ 1 \in Positions(t) /\ Len(order[t]) > 1
  BY <1>0, HeadFacts, LenFacts
<1>3. \A u \in Threads : pc[u] \in Inserting => elem[u] # t
  BY <1>0, HeadFacts
<1>4. /\ curr'[t] \in Nodes
      /\ \A a \in Threads : \A i \in 1 .. Len(order'[a]) :
            order'[a][i] # curr[t] /\ Queued(order'[a][i], a)
      /\ \A a \in Threads : \A i \in Positions(a) :
            \/ order[a][i] = curr[t]
            \/ \E j \in 1 .. Len(order'[a]) : order'[a][j] = order[a][i]
      /\ ShapeInv' /\ NextInv' /\ LinkInv' /\ StrictInv'
  BY <1>0, TakeHead, Zenon
<1>5. TypeOK'
  <2>1. curr' \in [Threads -> Nodes \cup {NULL}]
    BY <1>0, <1>4 DEF TypeOK, PopPlaceholder
  <2>2. piq' \in [Threads -> BOOLEAN]
    BY DEF TypeOK, PopPlaceholder
  <2>3. order' \in [Threads -> Seq(Nodes)]
    <3>1. Tail(order[t]) \in Seq(Nodes)
      BY <1>1, LenFacts, TailFacts
    <3>2. order' = [order EXCEPT ![t] = Tail(order[t])] /\ order \in [Threads -> Seq(Nodes)]
      BY DEF PopPlaceholder, TypeOK
    <3> QED
      BY <3>1, <3>2
  <2> QED
    BY <1>0, <2>1, <2>2, <2>3, Zenon DEF TypeOK
<1>6. PhaseInv'
  BY <1>0, <1>3, <1>4 DEF PhaseInv, Inserting
<1>7. MemoryInv' /\ ElemInv'
  BY <1>0 DEF MemoryInv, ElemInv, Inserting
<1>8. MemberInv'
  <2>1. ASSUME NEW a \in Threads, NEW i \in 1 .. Len(order'[a])
        PROVE  \/ order'[a][i] = a
               \/ /\ order'[a][i] \in Blocks
                  /\ status[order'[a][i]] = "pending"
                  /\ owner[order'[a][i]] = a
    <3>1. PICK j \in Positions(a) : order[a][j] = order'[a][i]
      BY <1>4 DEF Queued
    <3> QED
      BY <3>1 DEF MemberInv
  <2>2. ASSUME NEW u \in Threads, NEW a \in Threads, pc[u] \in Unswapped,
               NEW i \in 1 .. Len(order'[a])
        PROVE  order'[a][i] # elem[u]
    BY <1>4, <2>2 DEF MemberInv
  <2> QED
    BY <1>0, <2>1, <2>2 DEF MemberInv, Queued, Positions
<1>9. PlaceInv'
  <2>1. ASSUME NEW a \in Threads, a # t
        PROVE  (\E i \in 1 .. Len(order'[a]) : order'[a][i] = a) <=> Queued(a, a)
    BY <1>0, <2>1 DEF Queued, Positions
  <2>2. ~ \E i \in 1 .. Len(order'[t]) : order'[t][i] = t
    <3>1. \A i \in 1 .. Len(order'[t]) : order'[t][i] # curr[t]
      BY <1>4
    <3> QED
      BY <1>0, <3>1
  <2>3. pc[t] \notin Swapped
    BY <1>0 DEF Swapped
  <2> QED
    BY <1>0, <2>1, <2>2, <2>3, ZenonT(60) DEF PlaceInv, Queued, Positions
<1>10. PendingInv'
  <2> SUFFICES ASSUME NEW b \in Blocks, status[b] = "pending"
               PROVE  \/ \E i \in 1 .. Len(order'[owner[b]]) : order'[owner[b]][i] = b
                      \/ \E u \in Threads : pc[u] \in Unswapped /\ elem[u] = b
    BY <1>0 DEF PendingInv, Queued, Positions
  <2>1. b # curr[t] /\ owner[b] \in Threads
    BY <1>0, MemoryFacts
  <2>2. ASSUME NEW i \in Positions(owner[b]), order[owner[b]][i] = b
        PROVE  \E j \in 1 .. Len(order'[owner[b]]) : order'[owner[b]][j] = b
    BY <1>4, <2>1, <2>2
  <2> QED
    BY <2>2 DEF PendingInv, Queued
<1> QED
  BY <1>4, <1>5, <1>6, <1>7, <1>8, <1>9, <1>10 DEF IInv

LEMMA StutterStep == IInv /\ UNCHANGED vars => IInv'
BY DEF IInv, vars, TypeOK, PhaseInv, MemoryInv, ElemInv, ShapeInv, MemberInv, PlaceInv,
       PendingInv, NextInv, LinkInv, StrictInv, Positions, Queued, LateNode, Linking,
       Front, Inserting, Swapped, Unswapped

\* IInv is an invariant of the free-set, whichever order the stores take: every
\* step of malloc(), free() and clear_free_set() keeps it.
THEOREM Invariance == Spec => []IInv
<1>1. IInv /\ [Next]_vars => IInv'
  <2> SUFFICES ASSUME IInv, [Next]_vars PROVE IInv'
    OBVIOUS
  <2>1. ASSUME NEW t \in Threads, Call(t) PROVE IInv'
    <3>1. CASE Malloc(t) \/ ClearFreeSet(t)
      BY <3>1, MallocStep
    <3>2. ASSUME NEW b \in Blocks, FreeLocal(t, b) PROVE IInv'
      BY <3>2, FreeLocalStep
    <3>3. ASSUME NEW b \in Blocks, FreeRemote(t, b) PROVE IInv'
      BY <3>3, FreeRemoteStep
    <3> QED
      BY <2>1, <3>1, <3>2, <3>3 DEF Call
  <2>2. ASSUME NEW t \in Threads, Step(t) PROVE IInv'
    <3>1. CASE StoreNull(t)
      BY <3>1, StoreNullStep
    <3>2. CASE SwapTail(t)
      BY <3>2, SwapTailStep
    <3>3. CASE Link(t)
      BY <3>3, LinkStep
    <3>4. CASE FreeHead(t)
      BY <3>4, FreeHeadStep
    <3>5. CASE PopPlaceholder(t)
      BY <3>5, PopPlaceholderStep
    <3>6. CASE ReinsertPlaceholder(t)
      BY <3>6, ReinsertPlaceholderStep
    <3>7. CASE LeaveClear(t)
      BY <3>7, LeaveClearStep
    <3>8. ASSUME NEW b \in Blocks, Allocate(t, b) PROVE IInv'
      BY <3>8, AllocateStep
    <3>9. CASE AllocateFails(t)
      BY <3>9, AllocateFailsStep
    <3> QED
      BY <2>2, <3>1, <3>2, <3>3, <3>4, <3>5, <3>6, <3>7, <3>8, <3>9 DEF Step
  <2>3. CASE UNCHANGED vars
    BY <2>3, StutterStep
  <2> QED
    BY <2>1, <2>2, <2>3 DEF Next
<1> QED
  BY <1>1, InitIInv, PTL DEF Spec

\* Every variable keeps its type.
THEOREM TypeCorrect == Spec => []TypeOK
<1>1. IInv => TypeOK
  BY DEF IInv
<1> QED
  BY <1>1, Invariance, PTL

\* A free() never writes its link into a region that has been returned to the
\* underlying allocator or handed out again (malloc.c:62), for any number of
\* threads and regions and even when the store of NULL is late.
THEOREM LinkSafe == Spec => []LinkTargetQueued
<1>1. IInv => LinkTargetQueued
  <2> SUFFICES ASSUME IInv, NEW t \in Threads, NEW a \in Threads, Linking(t, a)
               PROVE  \/ prev[t] = a
                      \/ /\ prev[t] \in Blocks
                         /\ status[prev[t]] = "pending"
                         /\ owner[prev[t]] = a
    BY DEF LinkTargetQueued
  <2>1. PICK i \in Positions(a) : prev[t] = order[a][i]
    BY DEF IInv, LinkInv
  <2> QED
    BY <2>1 DEF IInv, MemberInv
<1> QED
  BY <1>1, Invariance, PTL

\* The placeholder is in its queue exactly when placeholder_in_queue says so
\* and never twice (malloc.c:392), even when the store of NULL is late.
THEOREM PlaceholderSafe == Spec => []PlaceholderTracked
<1>1. IInv => PlaceholderTracked
  <2> SUFFICES ASSUME IInv, NEW a \in Threads
               PROVE  LET at == {i \in 1 .. Len(order[a]) : order[a][i] = a} IN
                      /\ \A i, j \in at : i = j
                      /\ pc[a] = "load" \/ curr[a] = NULL => (piq[a] <=> at # {})
    BY DEF PlaceholderTracked
  <2> DEFINE at == {i \in 1 .. Len(order[a]) : order[a][i] = a}
  <2>1. \A i, j \in at : i = j
    BY DEF IInv, ShapeInv, Positions
  <2>2. Queued(a, a) <=> at # {}
    BY DEF Queued, Positions
  <2>3. ASSUME pc[a] = "load" \/ curr[a] = NULL PROVE ~(pc[a] \in Swapped /\ elem[a] = a)
    BY <2>3, NodeFacts DEF IInv, PhaseInv, Swapped, Inserting
  <2> QED
    BY <2>1, <2>2, <2>3 DEF IInv, PlaceInv
<1> QED
  BY <1>1, Invariance, PTL

\* When the stores take program order, nothing that was swapped into a queue is
\* ever cut off from its head.
THEOREM ProgramOrderIntact ==
  ASSUME ~WeakOrder PROVE Spec => []QueueIntact
<1>1. IInv => QueueIntact
  <2> SUFFICES ASSUME IInv, NEW a \in Threads
               PROVE  /\ order[a] # <<>>
                      /\ order[a][1] = Front(a)
                      /\ order[a][Len(order[a])] = tail[a]
                      /\ \A i \in 1 .. Len(order[a]) - 1 :
                           \/ next[order[a][i]] = order[a][i + 1]
                           \/ \E t \in Threads : /\ Linking(t, a)
                                                 /\ prev[t] = order[a][i]
                                                 /\ elem[t] = order[a][i + 1]
    BY ZenonT(60) DEF QueueIntact
  <2>1. order[a] # <<>>
    <3>1. Len(order[a]) # 0
      BY LenFacts DEF IInv
    <3> QED
      BY <3>1
  <2>2. order[a][1] = Front(a) /\ order[a][Len(order[a])] = tail[a]
    BY DEF IInv, ShapeInv
  <2>3. ASSUME NEW i \in 1 .. Len(order[a]) - 1
        PROVE  \/ next[order[a][i]] = order[a][i + 1]
               \/ \E t \in Threads : /\ Linking(t, a)
                                     /\ prev[t] = order[a][i]
                                     /\ elem[t] = order[a][i + 1]
    <3>1. i \in Positions(a) /\ i < Len(order[a])
      BY LenFacts DEF IInv, Positions
    <3> QED
      BY <3>1 DEF IInv, StrictInv
  <2> QED
    BY <2>1, <2>2, <2>3
<1> QED
  BY <1>1, Invariance, PTL

\* When the stores take program order, an owner that has to leave regions behind
\* (malloc.c:423) has another thread in the middle of its insertion.
THEOREM ProgramOrderResidue ==
  ASSUME ~WeakOrder PROVE Spec => []ResidueMeansConcurrentFree
<1>1. IInv => ResidueMeansConcurrentFree
  <2> SUFFICES ASSUME IInv, NEW t \in Threads, pc[t] = "load", curr[t] # t,
                      piq[t], next[curr[t]] = NULL
               PROVE  \E u \in Threads \ {t} : Linking(u, t)
    BY DEF ResidueMeansConcurrentFree
  <2> USE NodeFacts DEF IInv
  <2>1. curr[t] = order[t][1] /\ 1 \in Positions(t)
    BY LenFacts DEF ShapeInv, Front, PhaseInv
  <2>2. PICK i \in Positions(t) : order[t][i] = t
    BY DEF PlaceInv, Queued
  <2>3. 1 < Len(order[t]) /\ 2 \in Positions(t)
    BY <2>1, <2>2, LenFacts DEF Positions
  <2>4. next[curr[t]] # order[t][2]
    BY <2>3 DEF MemberInv
  <2>5. \E u \in Threads : Linking(u, t)
    BY <2>1, <2>3, <2>4 DEF StrictInv
  <2> QED
    BY <2>5 DEF Linking
<1> QED
  BY <1>1, Invariance, PTL

\* When the stores take program order, a clear that ends while nobody inserts
\* into the queue has completed every free() of its arena.
THEOREM ProgramOrderDrains ==
  ASSUME ~WeakOrder PROVE Spec => QuietClearDrains
<1>1. ASSUME IInv, NEW t \in Threads, LeaveClear(t), \A u \in Threads : target[u] # t,
             NEW b \in Blocks, owner[b] = t
      PROVE  status[b] = "live"
  <2> USE <1>1, NodeFacts DEF IInv
  <2>1. pc[t] = "load" /\ next[curr[t]] = NULL /\ (curr[t] = t \/ piq[t])
    BY DEF LeaveClear
  <2>2. curr[t] = order[t][1] /\ 1 \in Positions(t)
    BY <2>1, LenFacts DEF ShapeInv, Front, PhaseInv
  <2>3. \A u \in Threads : ~Linking(u, t)
    BY DEF Linking
  <2>4. Len(order[t]) = 1
    <3>1. ASSUME 1 < Len(order[t]) PROVE FALSE
      <4>1. 2 \in Positions(t)
        BY <3>1, LenFacts DEF Positions
      <4>2. next[curr[t]] = order[t][2]
        BY <2>2, <2>3, <3>1 DEF StrictInv
      <4> QED
        BY <2>1, <4>1, <4>2 DEF MemberInv
    <3>2. Len(order[t]) \in Nat \ {0}
      BY LenFacts
    <3>3. ~ (1 < Len(order[t]))
      BY <3>1
    <3>4. \A n \in Nat \ {0} : ~ (1 < n) => n = 1
      OBVIOUS
    <3> QED
      BY <3>2, <3>3, <3>4
  <2>5. \A i \in Positions(t) : i = 1
    BY <2>4 DEF Positions
  <2>6. curr[t] = t
    BY <2>1, <2>2, <2>5 DEF PlaceInv, Queued
  <2>7. ~Queued(b, t)
    BY <2>2, <2>5, <2>6 DEF Queued
  <2>8. \A u \in Threads : pc[u] \in Unswapped => elem[u] # b
    BY DEF PhaseInv, Inserting, Unswapped
  <2>9. status[b] # "pending"
    BY <2>7, <2>8 DEF PendingInv
  <2>10. status[b] # "avail"
    BY DEF MemoryInv
  <2> QED
    BY <2>9, <2>10 DEF TypeOK
<1>2. IInv => [\A t \in Threads :
                 (LeaveClear(t) /\ \A u \in Threads : target[u] # t)
                   => \A b \in Blocks : owner[b] = t => status[b] = "live"]_vars
  BY <1>1
<1> QED
  BY <1>2, Invariance, PTL DEF QuietClearDrains

\* The queue implements the promise that DeferredFree makes to the callers of
\* malloc() and free(): no region is lost, returned twice, or returned from a call
\* of another thread than the owner of its arena.  (The liveness half is for TLC.)
THEOREM PromiseKept == Spec => KeepsPromise
<1>1. Init => Promise!Init
  <2> SUFFICES ASSUME Init PROVE Promise!Init
    OBVIOUS
  <2>0. \A t \in Threads : pc[t] = "idle"
    BY DEF Init
  <2>1. \A t \in Threads : (pc[t] # "idle") = FALSE
    BY <2>0, Zenon
  <2>2. inside = [t \in Threads |-> FALSE]
    BY <2>1, Zenon DEF inside
  <2> QED
    BY <2>2 DEF Init, Promise!Init
<1>2. IInv /\ [Next]_vars => [Promise!Next]_<<inside, owner, status>>
  <2> SUFFICES ASSUME IInv, [Next]_vars
               PROVE  Promise!Next \/ UNCHANGED <<inside, owner, status>>
    OBVIOUS
  <2> USE DEF inside
  <2>0. pc \in [Threads -> PCs]
    BY DEF IInv, TypeOK
  <2>1. ASSUME NEW t \in Threads, Call(t)
        PROVE  Promise!Next \/ UNCHANGED <<inside, owner, status>>
    <3>1. CASE Malloc(t) \/ ClearFreeSet(t)
      <4>1. Promise!Begin(t)
        BY <3>1, <2>0
        DEF Malloc, ClearFreeSet, EnterClear, memVars, Promise!Begin, Promise!Enter
      <4> QED
        BY <4>1 DEF Promise!Next
    <3>2. ASSUME NEW b \in Blocks, FreeLocal(t, b) PROVE Promise!FreeLocal(t, b)
      BY <3>2, <2>0
      DEF FreeLocal, EnterClear, Release, Promise!FreeLocal, Promise!Return, Promise!Enter
    <3>3. ASSUME NEW b \in Blocks, FreeRemote(t, b) PROVE Promise!FreeRemote(t, b)
      BY <3>3, <2>0 DEF FreeRemote, EnterInsert, Promise!FreeRemote, Promise!Enter
    <3> QED
      BY <2>1, <3>1, <3>2, <3>3 DEF Call, Promise!Next
  <2>2. ASSUME NEW t \in Threads, Step(t)
        PROVE  Promise!Next \/ UNCHANGED <<inside, owner, status>>
    <3>1. CASE StoreNull(t) \/ SwapTail(t) \/ Link(t)
      <4>1. pc[t] # "idle" /\ \E s \in PCs \ {"idle"} : pc' = [pc EXCEPT ![t] = s]
        BY <3>1 DEF StoreNull, SwapTail, Link, EnterClear, PCs
      <4> QED
        BY <3>1, <4>1, <2>0 DEF StoreNull, SwapTail, Link, memVars
    <3>2. CASE PopPlaceholder(t) \/ ReinsertPlaceholder(t)
      <4>1. inside' = inside
        BY <3>2, <2>0 DEF PopPlaceholder, ReinsertPlaceholder, EnterInsert
      <4> QED
        BY <3>2, <4>1 DEF PopPlaceholder, ReinsertPlaceholder, memVars
    <3>3. CASE FreeHead(t)
      <4>1. pc[t] = "load" /\ curr[t] # t /\ curr[t] = order[t][1] /\ 1 \in Positions(t)
        BY <3>3, HeadFacts, LenFacts DEF FreeHead, IInv
      <4>2. curr[t] \in Blocks /\ status[curr[t]] = "pending" /\ owner[curr[t]] = t
        BY <4>1 DEF IInv, MemberInv
      <4>3. Promise!Reclaim(t, curr[t])
        BY <3>3, <4>2 DEF FreeHead, Release, Promise!Reclaim, Promise!Return
      <4> QED
        BY <4>2, <4>3 DEF Promise!Next
    <3>4. ASSUME NEW b \in Blocks, Allocate(t, b) PROVE Promise!Allocate(t, b)
      BY <3>4, <2>0 DEF Allocate, Promise!Allocate, Promise!Leave
    <3>5. CASE LeaveClear(t) \/ AllocateFails(t)
      <4>1. pc[t] # "idle" /\ \E s \in PCs : pc' = [pc EXCEPT ![t] = s]
        BY <3>5 DEF LeaveClear, AllocateFails, PCs
      <4>2. inside' = inside \/ Promise!Leave(t)
        BY <4>1, <2>0 DEF Promise!Leave
      <4>3. UNCHANGED <<owner, status>>
        BY <3>5 DEF LeaveClear, AllocateFails, memVars
      <4> QED
        BY <4>2, <4>3 DEF Promise!Next, Promise!End
    <3> QED
      BY <2>2, <3>1, <3>2, <3>3, <3>4, <3>5 DEF Step, Promise!Next
  <2>3. CASE UNCHANGED vars
    BY <2>3 DEF vars, clearVars
  <2> QED
    BY <2>1, <2>2, <2>3 DEF Next
<1> QED
  BY <1>1, <1>2, Invariance, PTL DEF Spec, KeepsPromise, Promise!Safety, Promise!promiseVars

============================================================================
