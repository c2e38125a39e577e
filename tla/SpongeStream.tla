----------------------------- MODULE SpongeStream -----------------------------
(***************************************************************************)
(* A caller that feeds a sponge and reads from it piece by piece, as the   *)
(* functions of fips202.c, sphincs and cross do: it implements HashStream. *)
(***************************************************************************)
EXTENDS KeccakSponge

CONSTANTS Chunks, Finals, Counts,
          MaxIn, MaxOut   \* bytes fed and read

VARIABLES
  sponge,  \* [st, off, out]
  closed,  \* finalized?
  fed      \* bytes fed so far, for the bound

vars == <<sponge, closed, fed>>

Init == sponge = NewSponge /\ closed = FALSE /\ fed = 0

Feed(data) ==
  /\ ~closed /\ fed + Len(data) <= MaxIn
  /\ sponge' = Absorb(sponge, data)
  /\ fed' = fed + Len(data) /\ UNCHANGED closed

Close(f) ==
  /\ ~closed
  /\ sponge' = [Finalize(sponge, f) EXCEPT !.off = 0]
  /\ closed' = TRUE /\ UNCHANGED fed

Read(n) ==
  /\ closed /\ Len(sponge.out) + n <= MaxOut
  /\ sponge' = Squeeze(sponge, n)
  /\ UNCHANGED <<closed, fed>>

Next ==
  \/ \E data \in Chunks : Feed(data)
  \/ \E f \in Finals : Close(f)
  \/ \E n \in Counts : Read(n)

Spec == Init /\ [][Next]_vars

(***************************************************************************)
(* What was absorbed, from the blocks alone.                               *)
(***************************************************************************)
Bytes(block, n)  == [k \in 1 .. n |-> block[k - 1]]
Flatten(blocks)  == [k \in 1 .. Len(blocks) * Rate |-> blocks[(k - 1) \div Rate + 1][(k - 1) % Rate]]

\* The blocks up to the padded one: those after it had nothing added.
PaddedAt(blocks) == CHOOSE k \in DOMAIN blocks : blocks[k] # NoBytes /\ \A j \in k + 1 .. Len(blocks) : blocks[j] = NoBytes

\* The string and the final byte: the last byte that is not zero once the padding is off.
Unpad(blocks) ==
  LET s == Flatten(SubSeq(blocks, 1, PaddedAt(blocks)))
      plain == [s EXCEPT ![Len(s)] = @ - Top]
      n == CHOOSE k \in DOMAIN plain : plain[k] # 0 /\ \A j \in k + 1 .. Len(plain) : plain[j] = 0
  IN  <<SubSeq(plain, 1, n - 1), plain[n]>>

StreamAt(byte) ==
  LET k == PaddedAt(byte.past) IN Append(Unpad(byte.past), (Len(byte.past) - k) * Rate + byte.at)

StringNow == IF closed THEN Unpad(sponge.st.past)[1] ELSE Flatten(sponge.st.past) \o Bytes(sponge.st.cur, sponge.off)
FinalNow  == IF closed THEN Unpad(sponge.st.past)[2] ELSE -1

\* The offset stays below the rate while there is more to absorb, and only reading may
\* leave it at the rate.
OffsetInBlock == sponge.off < Rate \/ (closed /\ sponge.off = Rate)

===============================================================================
