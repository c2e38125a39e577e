------------------------------ MODULE CrossField ------------------------------
(***************************************************************************)
(* Arithmetic in F_z and F_p for CROSS (include/crypto/sign/cross/         *)
(* fz_arith.h and fp_arith.h): reduction by a multiplication and a shift,  *)
(* and powers of the generator g of order z by its powers g^(2^k).         *)
(***************************************************************************)
EXTENDS Integers, Sequences

CONSTANTS P, PC1, PC2,  \* CROSS_P, CROSS_P_C1, CROSS_P_C2
          Z, ZC1, ZC2,
          G             \* <<g, g^2, g^4, ...>> mod p

LOCAL Seqs == INSTANCE SequencesExt

FieldAssumption ==
  /\ {P, PC1, Z, ZC1} \subseteq Nat \ {0} /\ {PC2, ZC2} \subseteq Nat \ 0 .. 8
  /\ G \in Seq(1 .. P - 1) /\ Z <= 2^Len(G)

\* (prod * c1) >> c2, in two parts that fit a word of TLC's.
Quotient(prod, c1, c2) == ((prod \div 512) * c1 + ((prod % 512) * c1) \div 512) \div 2^(c2 - 9)

AddMod(x, y, n) == IF x + y >= n THEN x + y - n ELSE x + y
NegMod(x, n)    == IF x >= 1 THEN n - x ELSE 0

FpAdd(x, y)  == AddMod(x, y, P)
FpNeg(x)     == NegMod(x, P)
FpMult(x, y) == x * y - Quotient(x * y, PC1, PC2) * P

FzAdd(x, y)  == AddMod(x, y, Z)
FzNeg(x)     == NegMod(x, Z)
FzMult(x, y) == x * y - Quotient(x * y, ZC1, ZC2) * Z

FzToFp(x) ==
  Seqs!FoldLeft(LAMBDA r, k : IF (x \div 2^(k - 1)) % 2 = 1 THEN FpMult(r, G[k]) ELSE r,
                1, [k \in 1 .. Len(G) |-> k])

==============================================================================
