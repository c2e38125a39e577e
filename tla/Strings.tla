------------------------------- MODULE Strings -------------------------------
(***************************************************************************)
(* The string functions (src/string), on memory that they read and write   *)
(* in bytes and in aligned words of W bytes (8), the lowest byte first.  A *)
(* word is a function of 0 .. W - 1, so shifts are by whole bytes, as in   *)
(* the code.  A behaviour is one call.                                     *)
(*                                                                         *)
(* The functions that write read words of the source, aligned, and shift   *)
(* them into place when the destination is not.  A running call is a       *)
(* record: memory m, pointers d and s, the count n, the word b that waits  *)
(* to be written, and the set rd of what was read.                         *)
(*                                                                         *)
(* The comparisons align the left region and read words of both, those of  *)
(* the right one shifted against the left.  An answer is a record: the     *)
(* value and the set of what was read.                                     *)
(***************************************************************************)
EXTENDS Integers, Sequences

CONSTANTS W,        \* bytes of a word
          Size,     \* bytes of the memory
          Bits,     \* bits of a byte, for HASZERO
          Loops,    \* bound of the iterations of a loop: more than the bytes of a call
          Copies,   \* [f, d, s, n, z]: z is the offset of the NUL of a source string
          Readings  \* [f, l, r, n, nul, diff, other]: see CompareMemory

LOCAL Seqs == INSTANCE SequencesExt
LOCAL Bitw == INSTANCE Bitwise

StringsAssumption == W \in {2, 4, 8} /\ Size \in Nat /\ Size % W = 0 /\ {Bits, Loops} \subseteq Nat \ {0}

VARIABLES
  call,
  result,   \* the memory, or the answer
  done, reads

vars == <<call, result, done, reads>>

Word(m, a)       == [i \in 0 .. W - 1 |-> m[a + i]]                                  \* read_u64
SetWord(m, a, w) == [x \in DOMAIN m |-> IF x \in a .. a + W - 1 THEN w[x - a] ELSE m[x]]  \* write_u64

Down(w, k) == [i \in 0 .. W - 1 |-> IF i + k < W THEN w[i + k] ELSE 0]               \* w >>= 8 * k
Up(w, k)   == [i \in 0 .. W - 1 |-> IF i >= k THEN w[i - k] ELSE 0]                  \* w << (8 * k)
Or(v, w)   == [i \in 0 .. W - 1 |-> IF v[i] = 0 THEN w[i] ELSE v[i]]                 \* of words without common bytes
Zero       == [i \in 0 .. W - 1 |-> 0]

\* What HASZERO tells of a word.
HasZero(w) == \E i \in 0 .. W - 1 : w[i] = 0

\* The macro itself: (x - ONES) & ~x & HIGHS, on a word as a number.
HASZERO(x) ==
  LET bits(y) == {i \in 0 .. W * Bits - 1 : (y \div 2^i) % 2 = 1}
      ones == {i * Bits : i \in 0 .. W - 1}
      sum == (2^(W * Bits) - 1) \div (2^Bits - 1)
  IN  (bits((x - sum) % 2^(W * Bits)) \ bits(x)) \cap {i + Bits - 1 : i \in ones} # {}

\* A loop: none of the string functions runs one more often than there are bytes.
While(u, Test(_), Do(_)) ==
  Seqs!FoldLeft(LAMBDA v, i : IF Test(v) THEN Do(v) ELSE v, u, [i \in 1 .. Loops |-> i])

Least(S) == CHOOSE x \in S : \A y \in S : x <= y

\* An aligned word, or a single byte, that a function reads.
WordAt(a) == a .. a + W - 1
ByteAt(a) == {a}

Lesser(x, y) == IF x < y THEN x ELSE y

(***************************************************************************)
(* The functions that write: memcpy, memxor, cond_memcpy, memmove, memset, *)
(* strcpy and strncpy                                                      *)
(***************************************************************************)
Start(m, d, s, n) == [m |-> m, d |-> d, s |-> s, n |-> n, b |-> Zero, rd |-> {}]

SetByte(v, x) == [v EXCEPT !.m[v.d] = x, !.d = @ + 1, !.n = @ - 1]
Emit(v)       == [SetByte(v, v.b[0]) EXCEPT !.b = Down(@, 1)]
EmitAll(v)    == While(v, LAMBDA u : u.n > 0, Emit)
Load(v, a)    == [v EXCEPT !.b = Word(v.m, a), !.rd = @ \cup {WordAt(a)}]
Store(v, w)   == [v EXCEPT !.m = SetWord(@, v.d, w), !.d = @ + W, !.n = @ - W]

(***************************************************************************)
(* memcpy, memxor and cond_memcpy: bytes of source and destination meet in *)
(* Mix; memcpy does not look at the destination.                           *)
(***************************************************************************)
MixWords(x, y, Mix(_, _)) == [i \in 0 .. W - 1 |-> Mix(x[i], y[i])]

AlignSource(v, Mix(_, _)) ==
  While(v, LAMBDA u : u.n > 0 /\ u.s % W # 0,
        LAMBDA u : [SetByte(u, Mix(u.m[u.d], u.m[u.s])) EXCEPT !.s = @ + 1, !.rd = @ \cup {ByteAt(u.s)}])

\* Both are aligned.
CopyAligned(v, Mix(_, _)) ==
  LET words == While(v, LAMBDA u : u.n >= W, LAMBDA u :
                 [Store(u, MixWords(Word(u.m, u.d), Word(u.m, u.s), Mix))
                    EXCEPT !.s = @ + W, !.rd = @ \cup {WordAt(u.s)}])
      last == Load(words, words.s)
  IN  IF words.n = 0 THEN words
      ELSE EmitAll([last EXCEPT !.b = MixWords(Word(last.m, last.d), @, Mix)])

\* What remains of a word whose first W - off bytes are written.
Carry(w, off) == Down(w, W - off)

\* For the last bytes: the next word is read only when those at hand are not enough.
TakeNext(v, off) ==
  IF v.n <= off THEN v
  ELSE [v EXCEPT !.b = Or(@, Up(Word(v.m, v.s), off)), !.rd = @ \cup {WordAt(v.s)}]

\* Only the source is aligned.
CopyShifted(v, Mix(_, _)) ==
  LET off == v.d % W
      first == Load(v, v.s)
      mixed == [first EXCEPT !.b = MixWords(Down(Word(v.m, v.d - off), off), @, Mix)]
      head == While(mixed, LAMBDA u : u.n > 0 /\ u.d < v.d + W - off, Emit)
      start == [head EXCEPT !.b = Carry(first.b, off), !.s = @ + W]
      words == While(start, LAMBDA u : u.n >= W, LAMBDA u :
                 [Store(u, MixWords(Word(u.m, u.d), Or(u.b, Up(Word(u.m, u.s), off)), Mix))
                    EXCEPT !.b = Carry(Word(u.m, u.s), off), !.s = @ + W, !.rd = @ \cup {WordAt(u.s)}])
      last == TakeNext(words, off)
  IN  IF words.n = 0 THEN words
      ELSE EmitAll([last EXCEPT !.b = MixWords(Word(last.m, last.d), @, Mix)])

CopyFrom(v, Mix(_, _)) ==
  CASE v.n = 0 -> v
    [] v.n > 0 /\ v.d % W = 0 -> CopyAligned(v, Mix)
    [] v.n > 0 /\ v.d % W # 0 -> CopyShifted(v, Mix)

Transfer(m, d, s, n, Mix(_, _)) == CopyFrom(AlignSource(Start(m, d, s, n), Mix), Mix)

Memcpy(m, d, s, n)           == Transfer(m, d, s, n, LAMBDA x, y : y)
Memxor(m, d, s, n)           == Transfer(m, d, s, n, LAMBDA x, y : Bitw!^^(x, y))
CondMemcpy(cond, m, d, s, n) == Transfer(m, d, s, n, LAMBDA x, y : IF cond THEN y ELSE x)

(***************************************************************************)
(* memmove: memcpy for regions apart, otherwise in the direction that      *)
(* reads every byte before it is overwritten.                              *)
(***************************************************************************)
ByteStep(v) ==
  [SetByte(v, v.m[v.s]) EXCEPT !.s = @ + 1, !.rd = @ \cup {ByteAt(v.s)}]

Forward(v) ==
  LET a == While(v, LAMBDA u : u.n > 0 /\ u.s % W # 0, ByteStep)
      words == While(a, LAMBDA u : u.n >= W, LAMBDA u :
                 [Store(u, Word(u.m, u.s)) EXCEPT !.s = @ + W, !.rd = @ \cup {WordAt(u.s)}])
  IN  CASE a.n = 0 -> a
        [] a.n > 0 /\ a.d % W = 0 -> While(words, LAMBDA u : u.n > 0, ByteStep)
        [] a.n > 0 /\ a.d % W # 0 -> CopyShifted(a, LAMBDA x, y : y)

StepBack(v, x) == [v EXCEPT !.m[v.d - 1] = x, !.d = @ - 1, !.n = @ - 1]
ByteBack(v)    == [StepBack(v, v.m[v.s - 1]) EXCEPT !.s = @ - 1, !.rd = @ \cup {ByteAt(v.s - 1)}]
EmitBack(v)    == [StepBack(v, v.b[W - 1]) EXCEPT !.b = Up(@, 1)]
StoreBack(v, w) ==
  [v EXCEPT !.m = SetWord(@, v.d - W, w), !.d = @ - W, !.n = @ - W, !.s = @ - W,
            !.rd = @ \cup {WordAt(v.s - W)}]

Backward(v) ==
  LET a == While(v, LAMBDA u : u.n > 0 /\ u.s % W # 0, ByteBack)
      words == While(a, LAMBDA u : u.n >= W, LAMBDA u : StoreBack(u, Word(u.m, u.s - W)))
      off == a.d % W
      first == [Load(a, a.s - W) EXCEPT !.s = @ - W]
      head == While(first, LAMBDA u : u.n > 0 /\ u.d > a.d - off, EmitBack)
      below(u) == Word(u.m, u.s - W)
      shifted == While(head, LAMBDA u : u.n >= W, LAMBDA u :
                   [StoreBack(u, Or(u.b, Down(below(u), W - off))) EXCEPT !.b = Up(below(u), off)])
      last == IF shifted.n <= W - off THEN shifted
              ELSE [Load(shifted, shifted.s - W) EXCEPT !.b = Or(shifted.b, Down(@, W - off))]
  IN  CASE a.n = 0 -> a
        [] a.n > 0 /\ off = 0 -> While(words, LAMBDA u : u.n > 0, ByteBack)
        [] a.n > 0 /\ off # 0 -> While(last, LAMBDA u : u.n > 0, EmitBack)

\* Mutant of Apart: regions that overlap by one byte are taken for apart.
ApartAlmost(d, s, n) == (s - d - n) % Size <= ((-2) * n + 1) % Size

\* The test for regions apart, in addresses that wrap at the end of the memory.
Apart(d, s, n) == (s - d - n) % Size <= ((-2) * n) % Size

Memmove(m, d, s, n) ==
  CASE d = s -> Start(m, d, s, n)
    [] d # s /\ Apart(d, s, n) -> Memcpy(m, d, s, n)
    [] d # s /\ ~Apart(d, s, n) /\ d < s -> Forward(Start(m, d, s, n))
    [] d # s /\ ~Apart(d, s, n) /\ d > s -> Backward(Start(m, d + n, s + n, n))

SetBytes(v, c, Test(_)) == While(v, Test, LAMBDA u : SetByte(u, c))
SetWords(v, c) == While(v, LAMBDA u : u.n >= W, LAMBDA u : Store(u, [i \in 0 .. W - 1 |-> c]))

Memset(m, d, c, n) ==
  SetBytes(SetWords(SetBytes(Start(m, d, d, n), c, LAMBDA u : u.n > 0 /\ u.d % W # 0), c),
           c, LAMBDA u : u.n > 0)

(***************************************************************************)
(* strcpy and strncpy: up to the NUL; strncpy fills the rest with zeros.   *)
(***************************************************************************)
EmitString(v) == While(v, LAMBDA u : u.n > 0 /\ u.b[0] # 0, Emit)
EmitUpTo(v, end) == While(v, LAMBDA u : u.n > 0 /\ u.d < end, Emit)
EmitStringUpTo(v, end) == While(v, LAMBDA u : u.n > 0 /\ u.d < end /\ u.b[0] # 0, Emit)
NoNul(v)      == ~HasZero(Word(v.m, v.s))

\* Words are written until the next one has a NUL, or n is less than a word.
WordsOfString(v) ==
  While(v, LAMBDA u : u.n >= W /\ NoNul(u), LAMBDA u :
    [Store(u, Word(u.m, u.s)) EXCEPT !.s = @ + W, !.rd = @ \cup {WordAt(u.s)}])
ShiftedWordsOfString(v, off) ==
  While(v, LAMBDA u : u.n >= W /\ ~HasZero(Word(u.m, u.s + W)), LAMBDA u :
    [Store(u, Or(u.b, Up(Word(u.m, u.s + W), off)))
       EXCEPT !.b = Carry(Word(u.m, u.s + W), off), !.s = @ + W, !.rd = @ \cup {WordAt(u.s + W)}])

AlignString(v) == While(v, LAMBDA u : u.n > 0 /\ u.s % W # 0 /\ u.m[u.s] # 0, ByteStep)

\* strncpy_internal(), from its end: the word at hand is followed by one with the NUL.
EndInNext(v, end, off) ==
  IF v.d < end THEN v ELSE EmitString([v EXCEPT !.b = Carry(Word(v.m, v.s + W), off)])
EndInRest(v, end) == IF v.n = 0 \/ v.d < end THEN v ELSE EmitString(Load(v, v.s + W))
JoinNext(v, off)  == [Load(v, v.s + W) EXCEPT !.b = Or(v.b, Up(@, off))]

EndOfString(v, off) ==
  CASE v.n = 0 -> v
    [] v.n >= W -> EndInNext(EmitStringUpTo(JoinNext(v, off), v.d + W), v.d + W, off)   \* s_end_flag
    [] v.n \in 1 .. W - 1 -> EndInRest(EmitStringUpTo(v, v.d + off), v.d + off)

StringAligned(v) == IF v.n = 0 THEN v ELSE EmitString(Load(v, v.s))
StringShifted(v, off) ==
  IF HasZero(v.b) THEN EmitString(v)
  ELSE EndOfString(ShiftedWordsOfString(EmitUpTo(v, v.d + W - off), off), off)

StrncpyFrom(v) ==
  CASE v.n = 0 \/ v.m[v.s] = 0 -> v
    [] v.n > 0 /\ v.m[v.s] # 0 /\ v.d % W = 0 -> StringAligned(WordsOfString(v))
    [] v.n > 0 /\ v.m[v.s] # 0 /\ v.d % W # 0 -> StringShifted(Load(v, v.s), v.d % W)

FillZeros(v, end) == IF v.d < end THEN [Memset(v.m, v.d, 0, end - v.d) EXCEPT !.rd = v.rd] ELSE v

Strncpy(m, d, s, n) == FillZeros(StrncpyFrom(AlignString(Start(m, d, s, n))), d + n)

\* strcpy(): the string ends within the memory, so n is never what stops it.
RestOfString(v) == EmitString(Load(v, v.s + W))
StrcpyShifted(v, off) ==
  IF HasZero(v.b) THEN EmitString(v)
  ELSE LET shifted == ShiftedWordsOfString(EmitUpTo(v, v.d + W - off), off)
       IN  RestOfString(EmitUpTo(shifted, shifted.d + off))

StrcpyFrom(v) ==
  CASE v.m[v.s] = 0 -> v
    [] v.m[v.s] # 0 /\ v.d % W = 0 -> StringAligned(WordsOfString(v))
    [] v.m[v.s] # 0 /\ v.d % W # 0 -> StrcpyShifted(Load(v, v.s), v.d % W)

Strcpy(m, d, s) == SetByte(StrcpyFrom(AlignString(Start(m, d, s, 2 * Size))), 0)

(***************************************************************************)
(* Calls of the functions that write                                       *)
(***************************************************************************)
\* All bytes differ, but for the NUL of a source string.
CopyMemory(c) == [a \in 0 .. Size - 1 |-> IF c.f \in {"strcpy", "strncpy"} /\ a = c.s + c.z THEN 0 ELSE a + 1]

CopyResult(m, c) ==
  CASE c.f = "memcpy"      -> Memcpy(m, c.d, c.s, c.n)
    [] c.f = "memxor"      -> Memxor(m, c.d, c.s, c.n)
    [] c.f = "cond_memcpy" -> CondMemcpy(c.z = 1, m, c.d, c.s, c.n)
    [] c.f = "memmove"     -> Memmove(m, c.d, c.s, c.n)
    [] c.f = "memset"      -> Memset(m, c.d, c.z, c.n)
    [] c.f = "strcpy"      -> Strcpy(m, c.d, c.s)
    [] c.f = "strncpy"     -> Strncpy(m, c.d, c.s, c.n)

(***************************************************************************)
(* The functions that only read: memcmp, strcmp, strncmp, strlen, strnlen, *)
(* memcmp_zero and safe_memcmp                                             *)
(***************************************************************************)
Answer(x, rd) == [ret |-> x, rd |-> rd]

\* How many of the first k bytes the loops that shift both words pass: equal ones,
\* and with 'str' only those that are not NUL.
Lead(x, y, k, str) ==
  Least({j \in 0 .. k : j = k \/ x[j] # y[j] \/ (str /\ x[j] = 0)})

\* The difference at byte j, 0 when all were passed.
DiffAt(x, y, j, k) == IF j = k THEN 0 ELSE x[j] - y[j]
Diff(x, y, k, str) == DiffAt(x, y, Lead(x, y, k, str), k)

\* Does a loop of words go on?  For strings not after a word with a NUL.
Same(x, y, str) == x = y /\ ~(str /\ HasZero(x))

(***************************************************************************)
(* The common course of memcmp (str = FALSE), strncmp, and strcmp, where n *)
(* is larger than any string.                                              *)
(***************************************************************************)
Cursor(m, l, r, n) == [m |-> m, l |-> l, r |-> r, n |-> n, x |-> Zero, rd |-> {}]

Forth(v, k) == [v EXCEPT !.l = @ + k, !.r = @ + k, !.n = @ - k]

AlignLeft(v, str) ==
  While(v, LAMBDA u : u.n > 0 /\ u.l % W # 0 /\ u.m[u.l] = u.m[u.r] /\ ~(str /\ u.m[u.l] = 0),
        LAMBDA u : [Forth(u, 1) EXCEPT !.rd = @ \cup {ByteAt(u.l), ByteAt(u.r)}])

\* Both are aligned.
CompareAligned(v, str) ==
  LET words == While(v, LAMBDA u : u.n >= W /\ Same(Word(u.m, u.l), Word(u.m, u.r), str),
                     LAMBDA u : [Forth(u, W) EXCEPT !.rd = @ \cup {WordAt(u.l), WordAt(u.r)}])
      x == Word(words.m, words.l)
      y == Word(words.m, words.r)
  IN  IF words.n = 0 THEN Answer(0, words.rd)
      ELSE Answer(Diff(x, y, Lesser(W, words.n), str), words.rd \cup {WordAt(words.l), WordAt(words.r)})

\* The left bytes that face the next word on the right: those kept and the next ones.
Facing(v, off) == Or(v.x, Up(Word(v.m, v.l), off))

Goes(u, off, str) == Facing(u, off) = Word(u.m, u.r) /\ ~(str /\ HasZero(Word(u.m, u.l)))

\* The words after the first of the left region, which has no NUL.
ShiftedWords(v, off, str) ==
  While(v, LAMBDA u : u.n >= W /\ Goes(u, off, str),
        LAMBDA u : [Forth(u, W) EXCEPT !.x = Down(Word(u.m, u.l), W - off),
                                       !.rd = @ \cup {WordAt(u.l), WordAt(u.r)}])

\* memcmp: the last n < W bytes.
LastOfMemory(v, off) ==
  LET x == IF v.n <= off THEN v.x ELSE Facing(v, off)
  IN  Answer(Diff(x, Word(v.m, v.r), v.n, FALSE),
             v.rd \cup {WordAt(v.r)} \cup (IF v.n <= off THEN {} ELSE {WordAt(v.l)}))

\* strncmp: the last n < W bytes, first those kept of the left word, then the next ones.
LastOfString(v, off) ==
  LET y == Word(v.m, v.r)
      first == Lesser(off, v.n)
      j == Lead(v.x, y, first, TRUE)
      y2 == Down(y, first)
      rd == v.rd \cup {WordAt(v.r)}
  IN  IF j < first \/ v.n <= off THEN Answer(DiffAt(v.x, y, j, first), rd)
      ELSE Answer(Diff(Word(v.m, v.l), y2, v.n - off, TRUE), rd \cup {WordAt(v.l)})

\* end_flag: the left word has a NUL.
EndOfStrings(v, off) ==
  LET x == Facing(v, off)
      y == Word(v.m, v.r)
      j == Lead(x, y, W, TRUE)
      x2 == Down(Word(v.m, v.l), W - off)
      y2 == Word(v.m, v.r + W)
      rd == v.rd \cup {WordAt(v.l), WordAt(v.r)}
  IN  IF j < W \/ v.n = W THEN Answer(DiffAt(x, y, j, W), rd)
      ELSE Answer(Diff(x2, y2, Lesser(W, v.n - W), TRUE), rd \cup {WordAt(v.r + W)})

\* Only the left region is aligned; its first word faces the rest of a word and the next one.
CompareShifted(v, str) ==
  LET off == v.r % W
      x == Word(v.m, v.l)
      y == Down(Word(v.m, v.r - off), off)
      k == Lesser(W - off, v.n)
      j == Lead(x, y, k, str)
      rd == v.rd \cup {WordAt(v.l), WordAt(v.r - off)}
      next == v.r - off + W
      words == ShiftedWords([v EXCEPT !.l = @ + W, !.r = next, !.n = @ - k, !.x = Down(x, W - off), !.rd = rd],
                            off, str)
  IN  CASE j < k \/ v.n = k -> Answer(DiffAt(x, y, j, k), rd)
        [] j = k /\ v.n > k /\ str /\ HasZero(x) ->
             Answer(Diff(Down(x, k), Word(v.m, next), Lesser(W, v.n - k), TRUE), rd \cup {WordAt(next)})
        [] j = k /\ v.n > k /\ ~(str /\ HasZero(x)) ->
             CASE words.n = 0 -> Answer(0, words.rd)
               [] words.n \in 1 .. W - 1 -> IF str THEN LastOfString(words, off) ELSE LastOfMemory(words, off)
               [] words.n >= W /\ str /\ HasZero(Word(words.m, words.l)) -> EndOfStrings(words, off)
               [] words.n >= W /\ ~(str /\ HasZero(Word(words.m, words.l))) ->                 \* neq_flag
                    Answer(Diff(Facing(words, off), Word(words.m, words.r), W, str),
                           words.rd \cup {WordAt(words.l), WordAt(words.r)})

Compare(m, l, r, n, str) ==
  LET v == AlignLeft(Cursor(m, l, r, n), str)
      rd == v.rd \cup {ByteAt(v.l), ByteAt(v.r)}
  IN  CASE v.n = 0 -> Answer(0, v.rd)
        [] v.n > 0 /\ (m[v.l] # m[v.r] \/ (str /\ m[v.l] = 0)) -> Answer(m[v.l] - m[v.r], rd)
        [] v.n > 0 /\ m[v.l] = m[v.r] /\ ~(str /\ m[v.l] = 0) ->
             IF v.r % W = 0 THEN CompareAligned(v, str) ELSE CompareShifted(v, str)

Memcmp(m, l, r, n)  == Compare(m, l, r, n, FALSE)
Strncmp(m, l, r, n) == Compare(m, l, r, n, TRUE)
Strcmp(m, l, r)     == Compare(m, l, r, 2 * Size, TRUE)

(***************************************************************************)
(* strlen, strnlen, memcmp_zero, safe_memcmp                               *)
(***************************************************************************)
NoNulAt(u) == ~HasZero(Word(u.m, u.l))

Strlen(m, l) ==
  LET a == While(Cursor(m, l, l, 0), LAMBDA u : u.l % W # 0 /\ u.m[u.l] # 0,
                 LAMBDA u : [u EXCEPT !.l = @ + 1, !.rd = @ \cup {ByteAt(u.l)}])
      words == While(a, NoNulAt, LAMBDA u : [u EXCEPT !.l = @ + W, !.rd = @ \cup {WordAt(u.l)}])
      end == words.l + Lead(Word(m, words.l), Word(m, words.l), W, TRUE)
  IN  IF a.l % W # 0 THEN Answer(a.l - l, a.rd \cup {ByteAt(a.l)})
      ELSE Answer(end - l, words.rd \cup {WordAt(words.l)})

\* After the bytes to the first word, and after the words without a NUL.
Strnlen(m, l, n) ==
  LET a == While(Cursor(m, l, l, n), LAMBDA u : u.n > 0 /\ u.l % W # 0 /\ u.m[u.l] # 0,
                 LAMBDA u : [u EXCEPT !.l = @ + 1, !.n = @ - 1, !.rd = @ \cup {ByteAt(u.l)}])
      words == While(a, LAMBDA u : u.n >= W /\ NoNulAt(u),
                     LAMBDA u : [u EXCEPT !.l = @ + W, !.n = @ - W, !.rd = @ \cup {WordAt(u.l)}])
      x == Word(m, words.l)
  IN  CASE a.n = 0 -> Answer(a.l - l, a.rd)
        [] a.n > 0 /\ a.l % W # 0 -> Answer(a.l - l, a.rd \cup {ByteAt(a.l)})
        [] a.n > 0 /\ a.l % W = 0 ->
             IF words.n = 0 THEN Answer(words.l - l, words.rd)
             ELSE Answer(words.l + Lead(x, x, Lesser(W, words.n), TRUE) - l, words.rd \cup {WordAt(words.l)})

MemcmpZero(m, l, n) ==
  LET step(u, size) == [u EXCEPT !.l = @ + size, !.n = @ - size, !.rd = @ \cup {u.l .. u.l + size - 1},
                                 !.x = IF \E a \in u.l .. u.l + size - 1 : u.m[a] # 0 THEN 1 ELSE @]
      bytes == While([Cursor(m, l, l, n) EXCEPT !.x = 0], LAMBDA u : u.n > 0 /\ u.l % W # 0,
                     LAMBDA u : step(u, 1))
      words == While(bytes, LAMBDA u : u.n >= W, LAMBDA u : step(u, W))
      rest == While(words, LAMBDA u : u.n > 0, LAMBDA u : step(u, 1))
  IN  Answer(rest.x, rest.rd)

\* Is there a difference below byte k?  The bytes above are masked.
Differ(x, y, k) == IF \E i \in 0 .. k - 1 : x[i] # y[i] THEN 1 ELSE 0
Either(a, b)    == IF a = 0 THEN b ELSE a

SafeMemcmp(m, l, r, n) ==
  LET start == [m |-> m, l |-> l, r |-> r, n |-> n, x |-> Zero, res |-> 0, rd |-> {}]
      a == While(start, LAMBDA u : u.n > 0 /\ u.l % W # 0,
                 LAMBDA u : [Forth(u, 1) EXCEPT !.res = IF u.m[u.l] # u.m[u.r] THEN 1 ELSE @,
                                                !.rd = @ \cup {ByteAt(u.l), ByteAt(u.r)}])
      off == a.r % W
      x == Word(m, a.l)
      y == Down(Word(m, a.r - off), off)
      k == Lesser(W - off, a.n)
      rd == a.rd \cup {WordAt(a.l), WordAt(a.r - off)}
      words(v, Left(_)) ==
        While(v, LAMBDA u : u.n >= W,
              LAMBDA u : [Forth(u, W) EXCEPT !.res = Either(@, Differ(Left(u), Word(m, u.r), W)),
                                             !.x = Down(Word(m, u.l), W - off),
                                             !.rd = @ \cup {WordAt(u.l), WordAt(u.r)}])
      same == words(a, LAMBDA u : Word(m, u.l))
      shifted == words([a EXCEPT !.l = @ + W, !.r = @ + k, !.n = @ - k, !.x = Down(x, W - off),
                                 !.res = Either(@, Differ(x, y, k)), !.rd = rd],
                       LAMBDA u : Facing(u, off))
      last(v, left, more) ==
        IF v.n = 0 THEN Answer(v.res, v.rd)
        ELSE Answer(Either(v.res, Differ(left, Word(m, v.r), v.n)), v.rd \cup {WordAt(v.r)} \cup more)
  IN  CASE a.n = 0 -> Answer(a.res, a.rd)
        [] a.n > 0 /\ off = 0 -> last(same, Word(m, same.l), {WordAt(same.l)})
        [] a.n > 0 /\ off # 0 ->
             IF shifted.n <= off THEN last(shifted, shifted.x, {})
             ELSE last(shifted, Facing(shifted, off), {WordAt(shifted.l)})

(***************************************************************************)
(* Calls of the functions that read                                        *)
(***************************************************************************)

\* Two strings that are the same up to 'diff', where the right one has 'other' or a
\* greater byte; the left one has its NUL at 'nul', and the right one if it gets there
\* unchanged.  Nothing after the two is the same.
CompareMemory(c) ==
  LET i(a) == a - c.l
      j(a) == a - c.r
      left == c.l .. c.r - W
      right == c.r .. Size - 1
  IN  [a \in 0 .. Size - 1 |->
         CASE a \in left  -> IF i(a) = c.nul THEN 0 ELSE i(a) + 1
           [] a \in right -> IF j(a) = c.diff THEN (IF c.other = 0 THEN 0 ELSE j(a) + 3)
                             ELSE IF j(a) = c.nul THEN 0
                             ELSE IF j(a) < c.diff /\ j(a) < c.nul THEN j(a) + 1 ELSE j(a) + 40
           [] a \notin left \cup right -> a + 90]

CompareResult(m, c) ==
  CASE c.f = "memcmp"      -> Memcmp(m, c.l, c.r, c.n)
    [] c.f = "strncmp"     -> Strncmp(m, c.l, c.r, c.n)
    [] c.f = "strcmp"      -> Strcmp(m, c.l, c.r)
    [] c.f = "strlen"      -> Strlen(m, c.l)
    [] c.f = "strnlen"     -> Strnlen(m, c.l, c.n)
    [] c.f = "memcmp_zero" -> MemcmpZero([a \in DOMAIN m |-> IF a = c.l + c.nul THEN 1 ELSE 0], c.l, c.n)
    [] c.f = "safe_memcmp" -> SafeMemcmp(m, c.l, c.r, c.n)
    [] c.f = "HASZERO"     -> Answer(IF HASZERO(c.n) THEN 1 ELSE 0, {})

(***************************************************************************)
(* The specification                                                       *)
(***************************************************************************)
Init ==
  /\ \/ call \in Copies /\ result = CopyMemory(call)
     \/ call \in Readings /\ result = 0
  /\ done = FALSE /\ reads = {}

RunCopy ==
  /\ ~done /\ done' = TRUE /\ "d" \in DOMAIN call
  /\ LET v == CopyResult(result, call) IN result' = v.m /\ reads' = v.rd
  /\ UNCHANGED call

RunCompare ==
  /\ ~done /\ done' = TRUE /\ "l" \in DOMAIN call
  /\ LET v == CompareResult(CompareMemory(call), call) IN result' = v.ret /\ reads' = v.rd
  /\ UNCHANGED call

Next == RunCopy \/ RunCompare

Spec == Init /\ [][Next]_vars

(***************************************************************************)
(* Properties                                                              *)
(***************************************************************************)
\* The bytes that the destination must have: offset -> byte.
WantedBytes(m, c) ==
  CASE c.f \in {"memcpy", "memmove"} -> [i \in 0 .. c.n - 1 |-> m[c.s + i]]
    [] c.f = "memxor"      -> [i \in 0 .. c.n - 1 |-> Bitw!^^(m[c.d + i], m[c.s + i])]
    [] c.f = "cond_memcpy" -> [i \in 0 .. c.n - 1 |-> m[IF c.z = 1 THEN c.s + i ELSE c.d + i]]
    [] c.f = "memset"      -> [i \in 0 .. c.n - 1 |-> c.z]
    [] c.f = "strcpy"      -> [i \in 0 .. c.z |-> m[c.s + i]]
    [] c.f = "strncpy"     -> [i \in 0 .. c.n - 1 |-> IF i < c.z THEN m[c.s + i] ELSE 0]

\* Each function leaves in the destination what the C library says, for every
\* alignment of the two regions, and for memmove however they overlap; no other
\* byte of the memory changes, the words around the region included.
ResultRight ==
  done /\ "d" \in DOMAIN call =>
    LET old == CopyMemory(call)
        w == WantedBytes(old, call)
    IN  result = [a \in 0 .. Size - 1 |-> IF a - call.d \in DOMAIN w THEN w[a - call.d] ELSE old[a]]

\* What is read of the source is an aligned word, or a byte, that has a byte of
\* the source: the condition under which string_internal.h says that reading past
\* the end is safe.
SourceBytes(c) ==
  CASE c.f = "strcpy"  -> c.s .. c.s + c.z
    [] c.f = "strncpy" -> c.s .. c.s + Lesser(c.z, c.n - 1)
    [] c.f \notin {"strcpy", "strncpy"} -> c.s .. c.s + c.n - 1
ReadsTouchSource ==
  done /\ "d" \in DOMAIN call => \A r \in reads : r \cap SourceBytes(call) # {} /\ (r # {Least(r)} => Least(r) % W = 0)

\* The place of the first difference or common NUL, or k.
FirstStop(m, c, k, str) ==
  Least({i \in 0 .. k : i = k \/ m[c.l + i] # m[c.r + i] \/ (str /\ m[c.l + i] = 0)})
Order(m, c, k, str) ==
  LET i == FirstStop(m, c, k, str) IN IF i = k THEN 0 ELSE m[c.l + i] - m[c.r + i]
LengthOf(c) == c.nul

WantedAnswer(c) ==
  LET m == CompareMemory(c)
  IN  CASE c.f = "memcmp"      -> Order(m, c, c.n, FALSE)
        [] c.f = "strncmp"     -> Order(m, c, c.n, TRUE)
        [] c.f = "strcmp"      -> Order(m, c, LengthOf(c) + 1, TRUE)
        [] c.f = "strlen"      -> LengthOf(c)
        [] c.f = "strnlen"     -> Lesser(LengthOf(c), c.n)
        [] c.f = "memcmp_zero" -> IF c.nul < c.n THEN 1 ELSE 0
        [] c.f = "safe_memcmp" -> IF c.diff < c.n \/ c.nul + 1 < c.n THEN 1 ELSE 0
        [] c.f = "HASZERO"     -> IF \E i \in 0 .. W - 1 : (c.n \div 2^(Bits * i)) % 2^Bits = 0 THEN 1 ELSE 0

\* Each function answers what the C library says, the difference of the first two
\* bytes that differ included, for every alignment of the two regions.
AnswerRight == done /\ "l" \in DOMAIN call => result = WantedAnswer(call)

\* What is read is an aligned word, or a byte, that has a byte of one of the regions,
\* of n bytes or up to the NUL: the condition under which string_internal.h says
\* that reading past the end is safe.
Region(c, from) ==
  LET m == CompareMemory(c)
      nuls == {a \in from .. Size - 1 : m[a] = 0}
      n == IF c.f \in {"strlen", "strcmp"} THEN Size ELSE c.n
  IN  IF c.f \in {"memcmp", "safe_memcmp", "memcmp_zero"} THEN from .. from + n - 1
      ELSE from .. Lesser(from + n - 1, Least(nuls \cup {Size - 1}))
ReadsTouchRegions ==
  done /\ "l" \in DOMAIN call => \A r \in reads :
    /\ r \cap (Region(call, call.l) \cup Region(call, call.r)) # {}
    /\ r # {Least(r)} => Least(r) % W = 0

===============================================================================
