------------------------------ MODULE FreeSet ------------------------------
(***************************************************************************)
(* The cross-thread "free-set" of src/memory/malloc.c.                     *)
(*                                                                         *)
(* Every thread owns one malloc arena.  A region freed by the thread whose *)
(* arena made it goes straight back to the underlying allocator; a region  *)
(* freed by any other thread is put into the free-set of its arena, a      *)
(* singly linked queue threaded through the first eight bytes of the       *)
(* regions, which only the owner of the arena empties.  One action is one  *)
(* access to memory that another thread may access; the rest of a step is  *)
(* private to the thread that takes it.                                    *)
(*                                                                         *)
(* The arena of a thread is named by the thread, and so is the placeholder *)
(* element that lives in that arena: it is never freed.                    *)
(***************************************************************************)
EXTENDS Naturals, Sequences, TLC

CONSTANTS
  Threads,    \* threads, their arenas, and the placeholders of the arenas
  Blocks,     \* regions the underlying allocators can hand out
  NULL,       \* the null pointer
  Junk,       \* whatever non-null bits the user left in the first 8 bytes
  WeakOrder   \* TRUE: the store of NULL at malloc.c:366 (a store-release) may
              \* become visible after the exclusive store of the tail that
              \* follows it (a plain stxr), as the Arm architecture allows;
              \* FALSE: every thread's accesses happen in program order

ASSUME FreeSetAssumption ==
  /\ Threads \cap Blocks = {}
  /\ NULL \notin Threads \cup Blocks
  /\ Junk \notin Threads \cup Blocks
  /\ NULL # Junk
  /\ WeakOrder \in BOOLEAN

Nodes == Blocks \cup Threads

VARIABLES
  head,     \* arena->free_set_head, private to the owner
  tail,     \* arena->free_set_tail
  next,     \* the first 8 bytes of a region or of a placeholder
  owner,    \* the arena pointer in the metadata of a region (NULL: not allocated)
  status,   \* "avail", "live" (in the hands of the user) or "pending" (in free())
  pc,       \* where each thread is
  goal,     \* what a thread does once its free-set is cleared
  curr,     \* clear_free_set_of_arena: curr_head
  piq,      \* clear_free_set_of_arena: placeholder_in_queue
  elem,     \* insert_into_free_set_of_arena: elem
  target,   \* insert_into_free_set_of_arena: arena
  prev,     \* insert_into_free_set_of_arena: curr_tail
  order     \* history: the nodes of each queue in the order of their swaps

vars == <<head, tail, next, owner, status, pc, goal, curr, piq,
          elem, target, prev, order>>

memVars    == <<owner, status>>
clearVars  == <<head, curr, piq, goal>>
insertVars == <<elem, target, prev>>

(***************************************************************************)
(* Types                                                                   *)
(***************************************************************************)
PCs == {"idle", "load", "alloc", "store", "swap", "late", "link"}

TypeOK ==
  /\ head   \in [Threads -> Nodes]
  /\ tail   \in [Threads -> Nodes]
  /\ next   \in [Nodes -> Nodes \cup {NULL, Junk}]
  /\ owner  \in [Blocks -> Threads \cup {NULL}]
  /\ status \in [Blocks -> {"avail", "live", "pending"}]
  /\ pc     \in [Threads -> PCs]
  /\ goal   \in [Threads -> {"alloc", "return"}]
  /\ curr   \in [Threads -> Nodes \cup {NULL}]
  /\ piq    \in [Threads -> BOOLEAN]
  /\ elem   \in [Threads -> Nodes \cup {NULL}]
  /\ target \in [Threads -> Threads \cup {NULL}]
  /\ prev   \in [Threads -> Nodes \cup {NULL}]
  /\ order  \in [Threads -> Seq(Nodes)]

(***************************************************************************)
(* malloc_init() of every thread: the queue holds the placeholder alone.   *)
(***************************************************************************)
Init ==
  /\ head   = [t \in Threads |-> t]
  /\ tail   = [t \in Threads |-> t]
  /\ next   = [n \in Nodes |-> IF n \in Threads THEN NULL ELSE Junk]
  /\ owner  = [b \in Blocks |-> NULL]
  /\ status = [b \in Blocks |-> "avail"]
  /\ pc     = [t \in Threads |-> "idle"]
  /\ goal   = [t \in Threads |-> "return"]
  /\ curr   = [t \in Threads |-> NULL]
  /\ piq    = [t \in Threads |-> TRUE]
  /\ elem   = [t \in Threads |-> NULL]
  /\ target = [t \in Threads |-> NULL]
  /\ prev   = [t \in Threads |-> NULL]
  /\ order  = [t \in Threads |-> <<t>>]

(***************************************************************************)
(* Steps shared by the operations                                          *)
(***************************************************************************)

\* Entry of clear_free_set_of_arena, on the thread's own arena.
EnterClear(t, then) ==
  /\ pc'   = [pc EXCEPT ![t] = "load"]
  /\ goal' = [goal EXCEPT ![t] = then]
  /\ curr' = [curr EXCEPT ![t] = head[t]]
  /\ piq'  = [piq EXCEPT ![t] = TRUE]

\* Entry of insert_into_free_set_of_arena(n, a).
EnterInsert(t, n, a) ==
  /\ pc'     = [pc EXCEPT ![t] = "store"]
  /\ elem'   = [elem EXCEPT ![t] = n]
  /\ target' = [target EXCEPT ![t] = a]

\* free_with_arena_internal: the region goes back to the underlying allocator.
Release(b) ==
  /\ status' = [status EXCEPT ![b] = "avail"]
  /\ owner'  = [owner EXCEPT ![b] = NULL]

(***************************************************************************)
(* Calls                                                                   *)
(***************************************************************************)

\* malloc(): clears the free-set first.
Malloc(t) ==
  /\ pc[t] = "idle"
  /\ EnterClear(t, "alloc")
  /\ UNCHANGED <<head, tail, next, memVars, insertVars, order>>

\* clear_free_set()
ClearFreeSet(t) ==
  /\ pc[t] = "idle"
  /\ EnterClear(t, "return")
  /\ UNCHANGED <<head, tail, next, memVars, insertVars, order>>

\* Mutant of FreeLocal: whoever frees the region returns it.
FreeLocalByAnyone(t, b) ==
  /\ pc[t] = "idle"
  /\ status[b] = "live"
  /\ Release(b)
  /\ EnterClear(t, "return")
  /\ UNCHANGED <<head, tail, next, insertVars, order>>

\* free() of a region of the caller's own arena.
FreeLocal(t, b) ==
  /\ pc[t] = "idle"
  /\ status[b] = "live"
  /\ owner[b] = t
  /\ Release(b)
  /\ EnterClear(t, "return")
  /\ UNCHANGED <<head, tail, next, insertVars, order>>

\* free() of a region of another thread's arena.
FreeRemote(t, b) ==
  /\ pc[t] = "idle"
  /\ status[b] = "live"
  /\ owner[b] # t
  /\ status' = [status EXCEPT ![b] = "pending"]
  /\ EnterInsert(t, b, owner[b])
  /\ UNCHANGED <<head, tail, next, owner, goal, curr, piq, prev, order>>

(***************************************************************************)
(* insert_into_free_set_of_arena                                           *)
(***************************************************************************)

\* elem->next = NULL
StoreNull(t) ==
  /\ pc[t] \in {"store", "late"}
  /\ next' = [next EXCEPT ![elem[t]] = NULL]
  /\ pc'   = [pc EXCEPT ![t] = IF pc[t] = "store" THEN "swap" ELSE "link"]
  /\ UNCHANGED <<tail, memVars, clearVars, insertVars, order>>

\* Mutant of SwapTail: NULL is stored after the swap.
SwapTailEarly(t) ==
  /\ pc[t] \in {"store", "swap"}
  /\ prev'  = [prev EXCEPT ![t] = tail[target[t]]]
  /\ tail'  = [tail EXCEPT ![target[t]] = elem[t]]
  /\ order' = [order EXCEPT ![target[t]] = Append(@, elem[t])]
  /\ pc'    = [pc EXCEPT ![t] = IF pc[t] = "swap" THEN "link" ELSE "late"]
  /\ UNCHANGED <<next, memVars, clearVars, elem, target>>

\* The ldxr/stxr loop: swap the tail with elem.  Nothing orders the stxr after
\* the stlr before it; the dmb that follows orders both before the link.
SwapTail(t) ==
  /\ pc[t] = "swap" \/ (WeakOrder /\ pc[t] = "store")
  /\ prev'  = [prev EXCEPT ![t] = tail[target[t]]]
  /\ tail'  = [tail EXCEPT ![target[t]] = elem[t]]
  /\ order' = [order EXCEPT ![target[t]] = Append(@, elem[t])]
  /\ pc'    = [pc EXCEPT ![t] = IF pc[t] = "swap" THEN "link" ELSE "late"]
  /\ UNCHANGED <<next, memVars, clearVars, elem, target>>

\* curr_tail->next = elem.  A free() goes on to clear its own free-set; a clear
\* that re-inserted its placeholder goes back to its loop with
\* placeholder_in_queue = 1.
Link(t) ==
  /\ pc[t] = "link"
  /\ next'   = [next EXCEPT ![prev[t]] = elem[t]]
  /\ IF elem[t] = t
       THEN /\ pc'  = [pc EXCEPT ![t] = "load"]
            /\ piq' = [piq EXCEPT ![t] = TRUE]
            /\ UNCHANGED <<goal, curr>>
       ELSE EnterClear(t, "return")
  /\ elem'   = [elem EXCEPT ![t] = NULL]
  /\ target' = [target EXCEPT ![t] = NULL]
  /\ prev'   = [prev EXCEPT ![t] = NULL]
  /\ UNCHANGED <<head, tail, memVars, order>>

(***************************************************************************)
(* The loop of clear_free_set_of_arena                                     *)
(***************************************************************************)

\* next != NULL and the head is a region: free it, move on.
FreeHead(t) ==
  /\ pc[t] = "load"
  /\ next[curr[t]] # NULL
  /\ curr[t] # t
  /\ Release(curr[t])
  /\ curr'  = [curr EXCEPT ![t] = next[curr[t]]]
  /\ order' = [order EXCEPT ![t] = Tail(@)]
  /\ UNCHANGED <<head, tail, next, pc, goal, piq, insertVars>>

\* Mutants of PopPlaceholder: placeholder_in_queue stays 1; the head stays.
PopPlaceholderKeepsFlag(t) ==
  /\ pc[t] = "load"
  /\ next[curr[t]] # NULL
  /\ curr[t] = t
  /\ curr'  = [curr EXCEPT ![t] = next[curr[t]]]
  /\ order' = [order EXCEPT ![t] = Tail(@)]
  /\ UNCHANGED <<head, tail, next, memVars, pc, goal, piq, insertVars>>

PopPlaceholderStays(t) ==
  /\ pc[t] = "load"
  /\ next[curr[t]] # NULL
  /\ curr[t] = t
  /\ piq' = [piq EXCEPT ![t] = FALSE]
  /\ UNCHANGED <<head, tail, next, memVars, pc, goal, curr, insertVars, order>>

\* next != NULL and the head is the placeholder: it is out of the queue.
PopPlaceholder(t) ==
  /\ pc[t] = "load"
  /\ next[curr[t]] # NULL
  /\ curr[t] = t
  /\ piq'   = [piq EXCEPT ![t] = FALSE]
  /\ curr'  = [curr EXCEPT ![t] = next[curr[t]]]
  /\ order' = [order EXCEPT ![t] = Tail(@)]
  /\ UNCHANGED <<head, tail, next, memVars, pc, goal, insertVars>>

\* Mutant of ReinsertPlaceholder: placeholder_in_queue is not looked at.
ReinsertPlaceholderAlways(t) ==
  /\ pc[t] = "load"
  /\ next[curr[t]] = NULL
  /\ curr[t] # t
  /\ EnterInsert(t, t, t)
  /\ UNCHANGED <<tail, next, memVars, clearVars, prev, order>>

\* next == NULL at a region, the placeholder is out: put it back in.
ReinsertPlaceholder(t) ==
  /\ pc[t] = "load"
  /\ next[curr[t]] = NULL
  /\ curr[t] # t
  /\ ~piq[t]
  /\ EnterInsert(t, t, t)
  /\ UNCHANGED <<tail, next, memVars, clearVars, prev, order>>

\* Mutants of LeaveClear: the loop is left with the placeholder out; the last
\* region is returned although a free() may be about to write its link.
LeaveClearWithoutPlaceholder(t) ==
  /\ pc[t] = "load"
  /\ next[curr[t]] = NULL
  /\ head' = [head EXCEPT ![t] = curr[t]]
  /\ curr' = [curr EXCEPT ![t] = NULL]
  /\ piq'  = [piq EXCEPT ![t] = TRUE]
  /\ pc'   = [pc EXCEPT ![t] = IF goal[t] = "alloc" THEN "alloc" ELSE "idle"]
  /\ goal' = [goal EXCEPT ![t] = "return"]
  /\ UNCHANGED <<tail, next, memVars, insertVars, order>>

LeaveClearTakesLast(t) ==
  /\ pc[t] = "load"
  /\ next[curr[t]] = NULL
  /\ curr[t] = t \/ piq[t]
  /\ IF curr[t] = t THEN UNCHANGED memVars ELSE Release(curr[t])
  /\ head' = [head EXCEPT ![t] = curr[t]]
  /\ curr' = [curr EXCEPT ![t] = NULL]
  /\ piq'  = [piq EXCEPT ![t] = TRUE]
  /\ pc'   = [pc EXCEPT ![t] = IF goal[t] = "alloc" THEN "alloc" ELSE "idle"]
  /\ goal' = [goal EXCEPT ![t] = "return"]
  /\ UNCHANGED <<tail, next, insertVars, order>>

\* next == NULL, and either the head is the placeholder or the placeholder is
\* further down: save the head and leave the loop.
LeaveClear(t) ==
  /\ pc[t] = "load"
  /\ next[curr[t]] = NULL
  /\ curr[t] = t \/ piq[t]
  /\ head' = [head EXCEPT ![t] = curr[t]]
  /\ curr' = [curr EXCEPT ![t] = NULL]
  /\ piq'  = [piq EXCEPT ![t] = TRUE]
  /\ pc'   = [pc EXCEPT ![t] = IF goal[t] = "alloc" THEN "alloc" ELSE "idle"]
  /\ goal' = [goal EXCEPT ![t] = "return"]
  /\ UNCHANGED <<tail, next, memVars, insertVars, order>>

(***************************************************************************)
(* The underlying allocator hands out a region, into whose metadata        *)
(* malloc() writes the arena, or it has none and malloc() returns NULL.    *)
(***************************************************************************)
Allocate(t, b) ==
  /\ pc[t] = "alloc"
  /\ status[b] = "avail"
  /\ status' = [status EXCEPT ![b] = "live"]
  /\ owner'  = [owner EXCEPT ![b] = t]
  /\ next'   = [next EXCEPT ![b] = Junk]
  /\ pc'     = [pc EXCEPT ![t] = "idle"]
  /\ UNCHANGED <<tail, clearVars, insertVars, order>>

AllocateFails(t) ==
  /\ pc[t] = "alloc"
  /\ pc' = [pc EXCEPT ![t] = "idle"]
  /\ UNCHANGED <<tail, next, memVars, clearVars, insertVars, order>>

(***************************************************************************)
(* Specification                                                           *)
(***************************************************************************)
Call(t) ==
  \/ Malloc(t)
  \/ ClearFreeSet(t)
  \/ \E b \in Blocks : FreeLocal(t, b) \/ FreeRemote(t, b)

Step(t) ==
  \/ StoreNull(t)
  \/ SwapTail(t)
  \/ Link(t)
  \/ FreeHead(t)
  \/ PopPlaceholder(t)
  \/ ReinsertPlaceholder(t)
  \/ LeaveClear(t)
  \/ \E b \in Blocks : Allocate(t, b)
  \/ AllocateFails(t)

Next == \E t \in Threads : Call(t) \/ Step(t)

Spec == Init /\ [][Next]_vars

\* The kernel schedules every thread, so a started call runs on.
RunsOn == \A t \in Threads : WF_vars(Step(t))

\* Every thread keeps coming back to its allocator; whichever call it makes
\* clears its free-set.
ComesBack == \A t \in Threads : WF_vars(Call(t))

LiveSpec == Spec /\ RunsOn /\ ComesBack

(***************************************************************************)
(* Properties                                                              *)
(***************************************************************************)

\* The element the owner's next look at the queue starts from.
Front(a) == IF curr[a] = NULL THEN head[a] ELSE curr[a]

\* t has swapped itself into the queue of a and has not linked its element yet.
Linking(t, a) == pc[t] \in {"late", "link"} /\ target[t] = a

\* "The last element of the queue cannot be taken out, because some other
\* thread might be writing to the 'next' field" (malloc.c:62): the element a
\* thread is about to write is still in the queue it read it from, so the write
\* never lands in memory that was returned or handed out again.
LinkTargetQueued ==
  \A t, a \in Threads : Linking(t, a) =>
    \/ prev[t] = a
    \/ prev[t] \in Blocks /\ status[prev[t]] = "pending" /\ owner[prev[t]] = a

\* Whatever was swapped into a queue and not taken out hangs together: from the
\* front every element leads to the next one, or a free() that has not returned
\* is about to make it so; the tail ends the queue.
QueueIntact ==
  \A a \in Threads :
    LET q == order[a] IN
    /\ q # <<>>
    /\ q[1] = Front(a)
    /\ q[Len(q)] = tail[a]
    /\ \A i \in 1 .. Len(q) - 1 :
         \/ next[q[i]] = q[i + 1]
         \/ \E t \in Threads :
              Linking(t, a) /\ prev[t] = q[i] /\ elem[t] = q[i + 1]

\* "Assume that the placeholder element has been added to the queue.  This
\* invariant will be restored at the end" (malloc.c:392): between two clears
\* the placeholder is in the queue, and inside one placeholder_in_queue says
\* whether it is; it is there at most once.
PlaceholderTracked ==
  \A a \in Threads :
    LET at == {i \in 1 .. Len(order[a]) : order[a][i] = a} IN
    /\ \A i, j \in at : i = j
    /\ pc[a] = "load" \/ curr[a] = NULL => (piq[a] <=> at # {})

\* "If we still have head.next == nullptr, this means there are concurrent
\* callers to free()" (malloc.c:73): when the owner has to leave regions behind
\* (case 3 at malloc.c:423), some other thread is inside its insertion.
ResidueMeansConcurrentFree ==
  \A t \in Threads :
    (pc[t] = "load" /\ curr[t] # t /\ piq[t] /\ next[curr[t]] = NULL)
      => \E u \in Threads \ {t} : Linking(u, t)

\* A clear that ends while nobody is inserting into the queue has completed
\* every free() of the arena: nothing is left waiting.
QuietClearDrains ==
  [][\A t \in Threads :
       (LeaveClear(t) /\ \A u \in Threads : target[u] # t)
         => \A b \in Blocks : owner[b] = t => status[b] = "live"]_vars

\* malloc() and free() as their callers see them: DeferredFree.
inside == [t \in Threads |-> pc[t] # "idle"]

Promise == INSTANCE DeferredFree

\* A region that another thread frees is neither lost nor returned twice, and it
\* is returned from a call of its owner: clear_free_set_of_arena never takes
\* anything but a waiting region of its own arena out of the queue.
KeepsPromise == Promise!Safety

\* In program order (WeakOrder = FALSE), when threads keep coming back to their
\* allocators, every free() by another thread is completed (malloc.c:467).  The late
\* store of malloc.c:366 breaks this: it erases links, and regions stay in the queue
\* for good (see ResidueMeansConcurrentFree).
KeepsPromiseForever == Promise!Spec

\* "This function cannot loop indefinitely" (malloc.c:383): clearing a free-set
\* ends even when other threads keep inserting into it; checked in program order.
ClearEnds == \A t \in Threads : curr[t] # NULL ~> curr[t] = NULL

\* Threads and regions are interchangeable, but not under fairness.
Symmetry == Permutations(Threads) \cup Permutations(Blocks)

(***************************************************************************)
(* The inductive invariant behind the safety properties.  It holds whether *)
(* or not the store of NULL may be late (WeakOrder); only its last part,   *)
(* StrictInv, needs program order.                                         *)
(***************************************************************************)

Inserting == {"store", "swap", "late", "link"}
Swapped   == {"late", "link"}
Unswapped == {"store", "swap"}

Positions(a) == 1 .. Len(order[a])

Queued(n, a) == \E i \in Positions(a) : order[a][i] = n

\* n is in a queue but the NULL meant for it has not been stored yet.
LateNode(n) == \E t \in Threads : pc[t] = "late" /\ elem[t] = n

\* What the program counter of a thread says of its local variables: it
\* inserts its own placeholder from inside a clear, or from inside a free() a
\* region of the target arena that nobody else holds.
PhaseInv ==
  \A t \in Threads :
    /\ pc[t] \in {"idle", "alloc"} => curr[t] = NULL
    /\ pc[t] = "load" => curr[t] \in Nodes
    /\ pc[t] \in Inserting =>
         /\ elem[t] \in Nodes
         /\ target[t] \in Threads
         /\ \/ elem[t] = t /\ target[t] = t /\ curr[t] \in Nodes /\ ~piq[t]
            \/ /\ elem[t] \in Blocks
               /\ status[elem[t]] = "pending"
               /\ owner[elem[t]] = target[t]
               /\ curr[t] = NULL
    /\ curr[t] = NULL => piq[t]
    /\ pc[t] = "swap" => next[elem[t]] = NULL

MemoryInv == \A b \in Blocks : (status[b] = "avail") <=> (owner[b] = NULL)

\* Two threads never insert the same element.
ElemInv ==
  \A t, u \in Threads :
    pc[t] \in Inserting /\ pc[u] \in Inserting /\ elem[t] = elem[u] => t = u

\* A queue runs from the front to the tail and never repeats an element.
ShapeInv ==
  \A a \in Threads :
    /\ Len(order[a]) > 0
    /\ order[a][1] = Front(a)
    /\ order[a][Len(order[a])] = tail[a]
    /\ \A i, j \in Positions(a) : order[a][i] = order[a][j] => i = j

\* What is in a queue: the arena's placeholder and waiting regions of the arena.
MemberInv ==
  \A a \in Threads :
    /\ \A i \in Positions(a) :
         \/ order[a][i] = a
         \/ /\ order[a][i] \in Blocks
            /\ status[order[a][i]] = "pending"
            /\ owner[order[a][i]] = a
    /\ \A t \in Threads : pc[t] \in Unswapped => ~Queued(elem[t], a)

\* The placeholder is where placeholder_in_queue says, or being re-inserted.
PlaceInv ==
  \A a \in Threads :
    Queued(a, a) <=> (piq[a] \/ (pc[a] \in Swapped /\ elem[a] = a))

\* Every waiting region is in the queue of its arena or on its way there.
PendingInv ==
  \A b \in Blocks :
    status[b] = "pending" =>
      \/ Queued(b, owner[b])
      \/ \E t \in Threads : pc[t] \in Unswapped /\ elem[t] = b

\* A 'next' field in a queue is NULL or leads to the next element.
NextInv ==
  \A a \in Threads : \A i \in Positions(a) :
    \/ LateNode(order[a][i])
    \/ next[order[a][i]] = NULL
    \/ i < Len(order[a]) /\ next[order[a][i]] = order[a][i + 1]

\* A thread about to link stands between two neighbours of the queue, and
\* nothing has been linked there.
LinkInv ==
  \A t, a \in Threads : Linking(t, a) =>
    /\ \E i \in Positions(a) :
         /\ i < Len(order[a])
         /\ prev[t] = order[a][i]
         /\ elem[t] = order[a][i + 1]
    /\ LateNode(prev[t]) \/ next[prev[t]] = NULL

\* In program order no link is ever lost.
StrictInv ==
  ~WeakOrder =>
    /\ \A t \in Threads : pc[t] # "late"
    /\ \A a \in Threads : \A i \in Positions(a) :
         i < Len(order[a]) =>
           \/ next[order[a][i]] = order[a][i + 1]
           \/ \E t \in Threads :
                /\ Linking(t, a)
                /\ prev[t] = order[a][i]
                /\ elem[t] = order[a][i + 1]

IInv ==
  /\ TypeOK
  /\ PhaseInv
  /\ MemoryInv
  /\ ElemInv
  /\ ShapeInv
  /\ MemberInv
  /\ PlaceInv
  /\ PendingInv
  /\ NextInv
  /\ LinkInv
  /\ StrictInv

============================================================================
