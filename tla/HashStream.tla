------------------------------ MODULE HashStream ------------------------------
(***************************************************************************)
(* What a sponge promises to its callers: a function from the string that  *)
(* was absorbed, in however many pieces, to a stream that is read, in      *)
(* however many pieces.  Byte n of the stream of a string is <<string, n>>.*)
(***************************************************************************)
EXTENDS Integers, Sequences

CONSTANTS Chunks,   \* strings that may be absorbed at once
          Finals,   \* final bytes, one for each kind of hash
          Counts    \* numbers of bytes that may be read at once

VARIABLES absorbed, final, output

vars == <<absorbed, final, output>>

None == -1   \* nothing was closed yet

Init == absorbed = <<>> /\ final = None /\ output = <<>>

Absorb(data) ==
  /\ final = None
  /\ absorbed' = absorbed \o data
  /\ UNCHANGED <<final, output>>

Close(f) ==
  /\ final = None
  /\ final' = f
  /\ UNCHANGED <<absorbed, output>>

Squeeze(n) ==
  /\ final # None
  /\ output' = output \o [k \in 1 .. n |-> <<absorbed, final, Len(output) + k - 1>>]
  /\ UNCHANGED <<absorbed, final>>

Next ==
  \/ \E data \in Chunks : Absorb(data)
  \/ \E f \in Finals : Close(f)
  \/ \E n \in Counts : Squeeze(n)

Spec == Init /\ [][Next]_vars

===============================================================================
