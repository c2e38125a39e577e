----------------------------- MODULE MCHandles ------------------------------
(***************************************************************************)
(* Instances of TaggedPtr, TaggedList and Hive for TLC: allocations that   *)
(* outlive their container as tombstones, and the handles into them.  A    *)
(* behaviour is one of a single part; what the other parts have of their   *)
(* own is Off.                                                             *)
(***************************************************************************)
EXTENDS TaggedPtr, TLC

CONSTANTS
  Nodes,                                    \* of the lists
  Lists, Handles, Values, HiveHandles,
  Gone, NoHandle, Off,
  Word, FirstLog2, LastLog2, MaxLen

VARIABLES
  part,
  m, view,                                  \* of TaggedList
  hive,                                     \* of Hive
  tomb, handle                              \* of both of them

L == INSTANCE TaggedList
H == INSTANCE Hive WITH Chunks <- Allocs, Handles <- HiveHandles

ASSUME TaggedPtrAssumption
ASSUME L!TaggedListAssumption
ASSUME H!HiveAssumption

\* Allocs is a subset of Nodes.  A permutation that brings in a node outside of it
\* yields no state of the other two parts, so that it merges none.
Symmetry == Permutations(Nodes)

vars == <<part, mem, held, cid, m, view, hive, tomb, handle, ids, stopped>>

NoRefs == mem = Off /\ held = Off /\ cid = Off
NoHive == hive = Off
NoList ==
  /\ m = Off
  /\ view = [content |-> [l \in Lists |-> <<>>], place |-> [h \in Handles |-> NULL]]

Init ==
  \/ part = "refs" /\ RefsInit /\ NoList /\ NoHive /\ tomb = Off /\ handle = Off
  \/ part = "list" /\ L!Init /\ NoRefs /\ NoHive
  \/ part = "hive" /\ H!Init /\ NoRefs /\ NoList /\ ids = Off

Next ==
  \/ part = "refs" /\ RefsNext /\ UNCHANGED <<part, m, view, hive, tomb, handle>>
  \/ part = "list" /\ L!Next /\ UNCHANGED <<part, mem, held, cid, hive>>
  \/ part = "hive" /\ H!Next /\ UNCHANGED <<part, mem, held, cid, m, view, ids>>

Spec == Init /\ [][Next]_vars

(***************************************************************************)
(* Properties                                                              *)
(***************************************************************************)

\* Allocations live exactly as long as an element or a counted_ref needs them, and
\* their word agrees with the references there are (tagged_ptr.hpp:959).
RefsSound ==
  part = "refs" => RefsTypeOK /\ NeverDangles /\ NoLeak /\ WordExact

\* A container takes a handle just when it holds the element now, after removals,
\* reuse of the storage and moves (tagged_ptr.hpp:185, list.hpp).
AcceptsItsOwn ==
  /\ part = "refs" => AcceptsHeld
  /\ part = "list" => L!AcceptsItsOwn

\* The chains of list.hpp agree in both directions and share no node; a removed node
\* is kept just as long as it has handles.
ChainsSound == part = "list" => L!TypeOK /\ L!ChainsSound /\ L!TombstonesHeld

\* Lists are sequences and handles stay with their elements.
IsHandleSeq == L!IsHandleSeq

\* The two lists of chunks of a hive hold what the bitmaps say, with links that agree
\* and counters that are exact, and a chunk lives as long as its elements and handles
\* (hive.hpp:516).
HiveSound ==
  part = "hive" => H!TypeOK /\ H!ListsSound /\ H!CountsExact /\ H!TombstonesHeld

\* The walks through a hive in both directions meet every element, a copy keeps their
\* order, and what stays keeps its place in it (hive.hpp:516).
OrderStable ==
  /\ [](part = "hive" => H!WalksVisitAll /\ H!CopyKeepsOrder)
  /\ [][part = "hive" => H!OrderStable]_vars

=============================================================================
