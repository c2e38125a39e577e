---------------------------- MODULE MCSignatures ----------------------------
(***************************************************************************)
(* Instances of Sphincs, Cross, Uov, NtruKem and AesGcm for TLC.  A        *)
(* behaviour is one of a single part: SPHINCS+ with two layers of trees of *)
(* four leaves and digits of four values ("tower"), or with two FORS trees *)
(* of eight leaves for digests of bytes of four bits ("fors"); CROSS with  *)
(* vectors of three elements of F_7, of which 2 has order 3, in five       *)
(* rounds; UOV over the field of four elements with two oil variables      *)
(* ("uov"), or over that of two with three ("pivots"); NTRU LPRime with    *)
(* the constants of the source; AES-GCM with blocks of four bytes.  The    *)
(* variables of the other parts are Off.                                   *)
(***************************************************************************)
EXTENDS Integers, Sequences, FiniteSets

CONSTANTS Parts, Other, Off

VARIABLES
  part,
  phase, pk, job, sig, verdict,      \* Sphincs; all but NtruKem have a sig and a verdict
  key, table, given,                 \* Cross; Uov and AesGcm have some of these
  product, noise, sent, ct, got      \* NtruKem, with a phase too

vars == <<part, phase, pk, job, sig, verdict, key, table, given, product, noise, sent, ct, got>>

(***************************************************************************)
(* Sphincs                                                                 *)
(***************************************************************************)

\* Digits at both ends, all digits at first.
FewBytes == {<<0>>, <<1>>}
SomeWords == {w \in [1 .. 2 -> 0 .. 3] : w[2] \in {0, 3}}

\* All values of a first byte, some of that after it.
SomeBytes == {b \in [1 .. 2 -> 0 .. 15] : b[2] \in {0, 4, 11, 15}}
FewWords  == {<<0, 0>>, <<1, 1>>}

\* The index of a tree has one bit more than are needed.
Tower == INSTANCE Sphincs WITH N <- 1, Base <- 4, D <- 2, XH <- 2, K <- 1, A <- 1,
  ByteBits <- 1, Width <- 3, Bytes <- FewBytes, Trees <- 0 .. 7, Words <- SomeWords

Fors == INSTANCE Sphincs WITH N <- 1, Base <- 2, D <- 1, XH <- 1, K <- 2, A <- 3,
  ByteBits <- 4, Width <- 1, Bytes <- SomeBytes, Trees <- 0 .. 1, Words <- FewWords

ASSUME Tower!SphincsAssumption
ASSUME Fors!SphincsAssumption

(***************************************************************************)
(* Cross                                                                   *)
(***************************************************************************)
V1(x) == [k \in {0} |-> x]
V2(x, y) == [k \in 0 .. 1 |-> IF k = 0 THEN x ELSE y]
V3(x, y, z) == [k \in 0 .. 2 |-> CASE k = 0 -> x [] k = 1 -> y [] k = 2 -> z]

r1 == [e |-> V1(0), u |-> V3(0, 0, 0)]
r2 == [e |-> V1(1), u |-> V3(5, 1, 0)]
r3 == [e |-> V1(2), u |-> V3(6, 3, 4)]

SomeRounds == {[i \in 0 .. 4 |-> r2], [i \in 0 .. 4 |-> IF i % 2 = 0 THEN r3 ELSE r2],
               [i \in 0 .. 4 |-> IF i = 0 THEN r1 ELSE r3]}
Zero   == [i \in 0 .. 4 |-> 0]
Rising == [i \in 0 .. 4 |-> i + 2]

C == INSTANCE Cross WITH
  P <- 7, PC1 <- 74, PC2 <- 9, Z <- 3, ZC1 <- 171, ZC2 <- 9, G <- <<2, 4>>,
  N <- 3, K <- 1, M <- 1, T <- 5, W <- 2,
  MatWs <- {V1(V2(1, 2))}, MatVs <- {V1(V2(3, 6)), V1(V2(0, 1))},
  Secrets <- {V1(0), V1(1), V1(2)}, RoundDraws <- {r1, r2, r3},
  Rounds <- SomeRounds, Challenges <- {Zero, Rising},
  Fresh <- {[round |-> r1, first |-> Zero, second |-> {0, 3}],
            [round |-> r3, first |-> Rising, second |-> {1, 2}],
            [round |-> r2, first |-> Rising, second |-> {3, 4}]}

ASSUME C!FieldAssumption /\ C!CrossAssumption

(***************************************************************************)
(* Uov: all values of the vinegar variables, and all matrices over F_2     *)
(***************************************************************************)
Of4 == SUBSET {0, 1}
Column(x, y)    == [i \in 0 .. 1 |-> IF i = 0 THEN x ELSE y]
Upper2(x, y, z) == [jk \in {<<0, 0>>, <<0, 1>>, <<1, 1>>} |->
                      CASE jk = <<0, 0>> -> x [] jk = <<0, 1>> -> y [] jk = <<1, 1>> -> z]
Matrix2(r, s)   == [jk \in (0 .. 1) \X (0 .. 1) |-> IF jk[1] = 0 THEN r[jk[2]] ELSE s[jk[2]]]

a0 == {}
a1 == {0}
a2 == {1}
a3 == {0, 1}
SomeKeys ==
  {[p1 |-> Column(Upper2(a2, a3, a1), Upper2(a0, a2, a3)),
    p2 |-> Column(Matrix2(Column(a0, a1), Column(a2, a3)), Matrix2(Column(a3, a2), Column(a0, a1))),
    o |-> o] : o \in {Matrix2(Column(a2, a3), Column(a1, a0)), Matrix2(Column(a3, a3), Column(a2, a1))}}

U == INSTANCE Uov WITH Deg <- 2, Rep <- {0, 1}, Quot <- {0, 1}, V <- 2, M <- 2, CtrBits <- 1,
  Draws <- SomeKeys, Targets <- {Column(a0, a0), Column(a2, a1), Column(a0, a3)},
  Vinegars <- {Column(x, y) : x \in Of4, y \in Of4}

\* One vinegar variable: the rows of the families P2 are those of the system.
AllKeys ==
  {[p1 |-> [i \in 0 .. 2 |-> [jk \in {<<0, 0>>} |-> IF i = 1 THEN {} ELSE {0}]],
    p2 |-> [i \in 0 .. 2 |-> [jk \in {0} \X (0 .. 2) |-> IF <<i, jk[2]>> \in ones THEN {0} ELSE {}]],
    o  |-> [jk \in {0} \X (0 .. 2) |-> IF jk[2] = 1 THEN {} ELSE {0}]] :
     ones \in SUBSET ((0 .. 2) \X (0 .. 2))}

U3 == INSTANCE Uov WITH Deg <- 1, Rep <- {0}, Quot <- {0}, V <- 1, M <- 3, CtrBits <- 2,
  Draws <- AllKeys, Targets <- {[i \in 0 .. 2 |-> {}], [i \in 0 .. 2 |-> IF i = 2 THEN {} ELSE {0}]},
  Vinegars <- {[i \in {0} |-> {}], [i \in {0} |-> {0}]}

ASSUME U!UovAssumption /\ U3!UovAssumption

(***************************************************************************)
(* AesGcm: up to three blocks, where the counter has two values for data;  *)
(* zeros, a bit in each byte, and what looks like the length of a block    *)
(***************************************************************************)
Set == {<<"bit", 5, 0>>}
Patterns(n) ==
  {[k \in 1 .. n |-> {}], [k \in 1 .. n |-> Set], [k \in 1 .. n |-> IF k % 2 = 0 THEN Set ELSE {}]}
Texts(n) == UNION {Patterns(k) : k \in 0 .. n}

Gcm == INSTANCE AesGcm WITH B <- 4, CtrBits <- 2, Others <- Texts(5), Half <- 4, Fold <- {0, 1, 3, 4},
  Calls <- [iv : {"iv"}, add : Texts(5), data : Texts(9)]

ASSUME Gcm!GcmAssumption

(***************************************************************************)
(* NtruKem: all coefficients, with the most noise there can be and least   *)
(***************************************************************************)
Kem == INSTANCE NtruKem WITH Q <- 4621, W <- 252, T2 <- 2031, T3 <- 290,
  Products <- 0 .. 4620, Noises <- {-1008, 1, 1008}

ASSUME Kem!NtruKemAssumption

(***************************************************************************)
(* The specification                                                       *)
(***************************************************************************)
NoSphincs == pk = Off /\ job = Off
NoCross   == key = Off /\ table = Off /\ given = Off
NoTower   == phase = Off /\ pk = Off
NoKem     == product = Off /\ noise = Off /\ sent = Off /\ ct = Off /\ got = Off

Init ==
  /\ part \in Parts
  /\ \/ part = "tower" /\ Tower!Init /\ NoCross /\ NoKem
     \/ part = "fors" /\ Fors!Init /\ NoCross /\ NoKem
     \/ part = "cross" /\ C!Init /\ NoSphincs /\ NoKem /\ phase = Off
     \/ part = "uov" /\ U!Init /\ NoTower /\ table = Off /\ NoKem
     \/ part = "pivots" /\ U3!Init /\ NoTower /\ table = Off /\ NoKem
     \/ part = "gcm" /\ Gcm!Init /\ NoTower /\ key = Off /\ table = Off /\ NoKem
     \/ part = "kem" /\ Kem!Init /\ NoSphincs /\ NoCross /\ sig = Off /\ verdict = Off

ofKem == <<product, noise, sent, ct, got>>

Next ==
  \/ part = "tower" /\ Tower!Next /\ UNCHANGED <<part, key, table, given, ofKem>>
  \/ part = "fors" /\ Fors!Next /\ UNCHANGED <<part, key, table, given, ofKem>>
  \/ part = "cross" /\ C!Next /\ UNCHANGED <<part, phase, pk, job, ofKem>>
  \/ part = "uov" /\ U!Next /\ UNCHANGED <<part, phase, pk, table, ofKem>>
  \/ part = "pivots" /\ U3!Next /\ UNCHANGED <<part, phase, pk, table, ofKem>>
  \/ part = "gcm" /\ Gcm!Next /\ UNCHANGED <<part, phase, pk, key, table, ofKem>>
  \/ part = "kem" /\ Kem!Next /\ UNCHANGED <<part, pk, job, sig, verdict, key, table, given>>

Spec == Init /\ [][Next]_vars

(***************************************************************************)
(* Properties                                                              *)
(***************************************************************************)

\* What was signed is accepted, for every leaf of every tree, all digits
\* (sphincs/sign_from_rand.j2) and all challenges, that of zero included
\* (cross/verify.c:64); where UOV gives up an attempt there is no solution
\* (uov.c:152); a secret is read back through the most noise that the roundings make
\* (ntru_lprime/decrypt.c:36); what AES-GCM encrypted comes back (gcm.c:171).
SignedIsAccepted ==
  /\ part = "tower" => Tower!SignedIsAccepted /\ Tower!RootIsMerkle
  /\ part = "cross" => C!SignedIsAccepted
  /\ part = "uov" => U!SignedIsAccepted /\ U!GivenUpIfSingular
  /\ part = "pivots" => U3!SignedIsAccepted /\ U3!GivenUpIfSingular
  /\ part = "kem" => Kem!SecretRecovered /\ Kem!TFits
  /\ part = "gcm" => Gcm!OpensToSame

\* What was signed is not accepted for another digest or in another form: the
\* addresses and the checksum bind the parts of a SPHINCS+ signature, each part of
\* one of CROSS is looked at (cross/verify.c:64), UOV accepts the solutions of the
\* secret system only (uov.c:179), a ciphertext with one part changed gives nothing
\* of the secret (ntru_lprime/decrypt.c:57), and has another tag in AES-GCM (gcm.c:190).
OthersRejected ==
  /\ part = "tower" => Tower!OthersRejected /\ Tower!ChainsIncomparable
  /\ part = "cross" => C!OthersRejected
  /\ part = "uov" => U!AcceptsSolutions
  /\ part = "pivots" => U3!AcceptsSolutions
  /\ part = "kem" => Kem!ChangedGivesRho
  /\ part = "gcm" => Gcm!ChangedHasOtherTag

\* Nothing secret is used twice: no two inputs are hashed at one address of SPHINCS+,
\* a round of CROSS shows its seed or its response, never both (cross/sign.c:50), and
\* the stream of AES-GCM hides each byte with another of its own (gcm.c:27).
UsedOnce ==
  /\ part = "fors" => Fors!IndicesAreBits /\ Fors!AddressesUnique
  /\ part = "cross" => C!SeedsApart
  /\ part = "gcm" => Gcm!StreamUsedOnce

\* "uint64_to_bool (cmp) will correctly return the comparison byte" (decrypt.c:55):
\* sender and receiver have the same key when the ciphertext arrives as it was sent.
KeysAgree == part = "kem" => Kem!KeysAgree

=============================================================================
