---------------------------- MODULE DeferredFree ----------------------------
(***************************************************************************)
(* What malloc() and free() of src/memory/malloc.c promise, without the    *)
(* queue: a region belongs to the arena that made it until it is returned, *)
(* a region freed by another thread waits, and it is returned once, from a *)
(* call that the owner of its arena makes.                                 *)
(***************************************************************************)
CONSTANTS Threads, Blocks, NULL

VARIABLES
  inside,   \* which threads are in a call
  owner,    \* the arena a region belongs to
  status    \* "avail", "live", or "pending": freed and waiting for its owner

promiseVars == <<inside, owner, status>>

Init ==
  /\ inside = [t \in Threads |-> FALSE]
  /\ owner  = [b \in Blocks |-> NULL]
  /\ status = [b \in Blocks |-> "avail"]

Enter(t) == ~inside[t] /\ inside' = [inside EXCEPT ![t] = TRUE]
Leave(t) == inside[t] /\ inside' = [inside EXCEPT ![t] = FALSE]

\* A call that allocates and frees nothing begins or ends.
Begin(t) == Enter(t) /\ UNCHANGED <<owner, status>>
End(t)   == Leave(t) /\ UNCHANGED <<owner, status>>

\* malloc() returns a region.
Allocate(t, b) ==
  /\ Leave(t)
  /\ status[b] = "avail"
  /\ status' = [status EXCEPT ![b] = "live"]
  /\ owner'  = [owner EXCEPT ![b] = t]

Return(t, b) ==
  /\ owner[b] = t
  /\ status' = [status EXCEPT ![b] = "avail"]
  /\ owner'  = [owner EXCEPT ![b] = NULL]

\* The owner of the arena calls free().
FreeLocal(t, b) == Enter(t) /\ status[b] = "live" /\ Return(t, b)

\* Another thread calls free(): the region has to wait for its owner.
FreeRemote(t, b) ==
  /\ Enter(t)
  /\ status[b] = "live"
  /\ owner[b] # t
  /\ status' = [status EXCEPT ![b] = "pending"]
  /\ UNCHANGED owner

\* The owner, in some call of its own, completes the free() of another thread.
Reclaim(t, b) ==
  /\ inside[t]
  /\ status[b] = "pending"
  /\ Return(t, b)
  /\ UNCHANGED inside

Next ==
  \E t \in Threads :
    \/ Begin(t)
    \/ End(t)
    \/ \E b \in Blocks :
         Allocate(t, b) \/ FreeLocal(t, b) \/ FreeRemote(t, b) \/ Reclaim(t, b)

Safety == Init /\ [][Next]_promiseVars

\* No free() is forgotten: a waiting region is eventually returned.
Completes == \A b \in Blocks : status[b] = "pending" ~> status[b] = "avail"

Spec == Safety /\ Completes

============================================================================
