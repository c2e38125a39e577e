--------------------------------- MODULE Uov ---------------------------------
(***************************************************************************)
(* The signature scheme UOV (src/crypto/sign/uov): its field, keys,        *)
(* signing and verification.  An element of the field is a polynomial over *)
(* F_2, the set of the exponents it has, and so is a word of bits.         *)
(*                                                                         *)
(* What the hash makes of a message with its salt, the target, and of a    *)
(* counter with the seed, the values of the vinegar variables, is drawn;   *)
(* signing asks for no two of them twice.                                  *)
(***************************************************************************)
EXTENDS Integers, FiniteSets

CONSTANTS Deg,        \* 8: elements of the field are below x^Deg
          Rep, Quot,  \* UOV_FIELD_REP and UOV_FIELD_QUOT
          V, M,       \* UOV_V and UOV_M
          CtrBits,    \* 8
          Draws,      \* what getrandom() may give for a key: [p1, p2, o]
          Targets,    \* what a message with its salt may be hashed to
          Vinegars    \* what the hash may give for v

LOCAL Seqs == INSTANCE SequencesExt

UovAssumption == {Deg, V, M, CtrBits} \subseteq Nat \ {0} /\ Rep \cup Quot \subseteq 0 .. Deg - 1

VARIABLES
  key,     \* [p1, p2, p3, o, s]
  job,     \* uov_sign(): the target, the counter, the last L and what came of it
  sig,     \* the signature
  given,   \* [t, sig]: what the verifier hashes the message to, and what it was given
  verdict  \* "none", "accepted" or "rejected"

vars == <<key, job, sig, given, verdict>>

(***************************************************************************)
(* gf256.h                                                                 *)
(***************************************************************************)
Odd(S)     == Cardinality(S) % 2 = 1
Xor(a, b)  == (a \ b) \cup (b \ a)
Shl(a, k)  == {e + k : e \in a}
Shr(a, k)  == {e - k : e \in {d \in a : d >= k}}
Low(a)     == {e \in a : e < Deg}
Sum(S, f(_)) ==
  LET g == [k \in S |-> f(k)] IN {e \in 0 .. Deg - 1 : Odd({k \in S : e \in g[k]})}

gf256_mul_no_mod(a, b) == {e \in 0 .. 2 * Deg - 2 : Odd({d \in a : e - d \in b})}

gf256_reduce(x) ==
  LET quot == Shr(gf256_mul_no_mod(Shr(x, Deg), Quot), Deg - 1)
  IN  Xor(Low(x), Low(gf256_mul_no_mod(quot, Rep)))

gf256_mul(a, b) == gf256_reduce(gf256_mul_no_mod(a, b))

Reversed(a, top) == {top - e : e \in a}
If(a, cond)      == IF cond THEN a ELSE {}

\* One round of the algorithm of Bernstein and Yang.
InvRound(w) ==
  LET tail == 0 \in w.g
  IN  IF w.n >= w.m \/ ~tail
      THEN [w EXCEPT !.g = Shr(Xor(If(w.f, tail), @), 1), !.n = @ - 1, !.r = Shl(@, 1), !.s = Shl(@, 1),
                     !.u = Xor(@, If(w.r, tail)), !.v = Xor(@, If(w.s, tail))]
      ELSE [f |-> w.g, g |-> Shr(Xor(w.f, w.g), 1), m |-> w.n, n |-> w.m - 1, r |-> Shl(w.u, 1),
            s |-> Shl(w.v, 1), u |-> Xor(w.u, w.r), v |-> Xor(w.v, w.s)]

gf256_inv(x) ==
  LET start == [f |-> Reversed({Deg} \cup Rep, Deg), g |-> Reversed(x, Deg - 1), m |-> Deg, n |-> Deg - 1,
                r |-> {0}, s |-> {}, u |-> {}, v |-> {0}]
      Round[i \in 0 .. 2 * Deg - 1] == IF i = 0 THEN start ELSE InvRound(Round[i - 1])
      end == Round[2 * Deg - 1]
  IN  Reversed(end.s, Deg - end.n) \cap 0 .. Deg - 1

(***************************************************************************)
(* Keys.  A family of matrices has M of them; P1 and P3 are upper          *)
(* triangular.                                                             *)
(***************************************************************************)
Square(n)   == (0 .. n - 1) \X (0 .. n - 1)
Triangle(n) == {jk \in Square(n) : jk[1] <= jk[2]}
Mixed       == (0 .. V - 1) \X (0 .. M - 1)
Eqs         == 0 .. M - 1

compute_p3(o, p1, p2) ==
  LET op1(i) == [jk \in (0 .. M - 1) \X (0 .. V - 1) |->
                   Sum(0 .. jk[2], LAMBDA l : gf256_mul(o[l, jk[1]], p1[i][l, jk[2]]))]
      opo(i) == LET a == op1(i)
                IN  [jk \in Square(M) |-> Sum(0 .. V - 1, LAMBDA l : gf256_mul(a[jk[1], l], o[l, jk[2]]))]
      op2(i) == [jk \in Square(M) |-> Sum(0 .. V - 1, LAMBDA l : gf256_mul(o[l, jk[1]], p2[i][l, jk[2]]))]
      upper(a) == [jk \in Triangle(M) |->
                     IF jk[1] = jk[2] THEN a[jk] ELSE Xor(a[jk], a[jk[2], jk[1]])]
  IN  [i \in Eqs |-> LET a == opo(i) b == op2(i) IN upper([jk \in Square(M) |-> Xor(a[jk], b[jk])])]

compute_s(o, p1, p2) ==
  [i \in Eqs |-> [jk \in Mixed |->
     LET j == jk[1]
     IN  Xor(p2[i][jk], Sum((0 .. V - 1) \ {j}, LAMBDA l :
               gf256_mul(IF l > j THEN p1[i][j, l] ELSE p1[i][l, j], o[l, jk[2]])))]]

(***************************************************************************)
(* Signing                                                                 *)
(***************************************************************************)
\* v^T * P * v of one upper triangular matrix.
Quadratic(v, p, n) == Sum(Triangle(n), LAMBDA jk : gf256_mul(gf256_mul(v[jk[1]], v[jk[2]]), p[jk]))

Constants(t, v) == [i \in Eqs |-> Xor(t[i], Quadratic(v, key.p1[i], V))]
Linear(v) ==
  [ij \in Square(M) |-> Sum(0 .. V - 1, LAMBDA k : gf256_mul(v[k], key.s[ij[1]][k, ij[2]]))]

\* A system is [l, y, ok].  Row i gets row j if its diagonal is still zero.
AddRow(w, i, j) ==
  IF w.l[i, i] # {} THEN w
  ELSE [w EXCEPT !.l = [ab \in Square(M) |->
                          IF ab[1] = i /\ ab[2] >= i THEN Xor(w.l[ab], w.l[j, ab[2]]) ELSE w.l[ab]],
                 !.y[i] = Xor(@, w.y[j])]

FindPivot(w, i) == Seqs!FoldLeft(LAMBDA u, j : AddRow(u, i, j), w, [k \in 1 .. M - 1 - i |-> i + k])

ScaleRow(w, i) ==
  LET inv == gf256_inv(w.l[i, i])
  IN  [l |-> [ab \in Square(M) |->
                CASE ab = <<i, i>> -> {0}
                  [] ab[1] = i /\ ab[2] > i -> gf256_mul(w.l[ab], inv)
                  [] ab[1] # i \/ ab[2] < i -> w.l[ab]],
       y |-> [w.y EXCEPT ![i] = gf256_mul(@, inv)],
       ok |-> w.ok /\ w.l[i, i] # {}]

ClearColumn(w, i) ==
  [w EXCEPT !.l = [ab \in Square(M) |->
                     CASE ab[1] = i \/ ab[2] < i -> w.l[ab]
                       [] ab[1] # i /\ ab[2] = i -> {}
                       [] ab[1] # i /\ ab[2] > i -> Xor(w.l[ab], gf256_mul(w.l[i, ab[2]], w.l[ab[1], i]))],
            !.y = [j \in Eqs |-> IF j = i THEN w.y[j] ELSE Xor(w.y[j], gf256_mul(w.y[i], w.l[j, i]))]]

Eliminate(l, y) ==
  Seqs!FoldLeft(LAMBDA w, i : ClearColumn(ScaleRow(FindPivot(w, i), i), i),
                [l |-> l, y |-> y, ok |-> TRUE], [k \in 1 .. M |-> k - 1])

Signature(v, x) ==
  [i \in 0 .. V + M - 1 |->
     IF i < V THEN Xor(v[i], Sum(Eqs, LAMBDA j : gf256_mul(key.o[i, j], x[j]))) ELSE x[i - V]]

(***************************************************************************)
(* The handlers                                                            *)
(***************************************************************************)
None == <<>>

Init == key = None /\ job = None /\ sig = None /\ given = None /\ verdict = "none"

uov_gen_key ==
  /\ key = None
  /\ \E d \in Draws :
       key' = [p1 |-> d.p1, p2 |-> d.p2, p3 |-> compute_p3(d.o, d.p1, d.p2),
               o |-> d.o, s |-> compute_s(d.o, d.p1, d.p2)]
  /\ UNCHANGED <<job, sig, given, verdict>>

HashMessage ==
  /\ key # None /\ job = None
  /\ \E t \in Targets : job' = [t |-> t, ctr |-> 0, l |-> None, ok |-> FALSE, status |-> "trying"]
  /\ UNCHANGED <<key, sig, given, verdict>>

\* An iteration of the loop of uov_sign(): a system that cannot be solved is tried again
\* with the next counter, until that is 0 again.
Try ==
  /\ job # None /\ job.status = "trying"
  /\ \E v \in Vinegars :
       LET l == Linear(v)
           w == Eliminate(l, Constants(job.t, v))
           next == (job.ctr + 1) % 2^CtrBits
       IN  IF w.ok
           THEN /\ job' = [job EXCEPT !.l = l, !.ok = TRUE, !.status = "signed"]
                /\ sig' = Signature(v, w.y)
           ELSE /\ job' = [job EXCEPT !.l = l, !.ctr = next, !.status = IF next = 0 THEN "failed" ELSE @]
                /\ UNCHANGED sig
  /\ UNCHANGED <<key, given, verdict>>

\* The signature, or with one element changed, for its message or another one.
Deliver ==
  /\ sig # None /\ given = None
  /\ \E t \in Targets, i \in DOMAIN sig, e \in SUBSET (0 .. Deg - 1) :
       given' = [t |-> t, sig |-> [sig EXCEPT ![i] = e]]
  /\ UNCHANGED <<key, job, sig, verdict>>

\* What the signature is a solution for.
PublicMap(s) ==
  LET oil == [k \in Eqs |-> s[V + k]]
      mixed(i) == Sum(Mixed, LAMBDA jk : gf256_mul(gf256_mul(s[jk[1]], oil[jk[2]]), key.p2[i][jk]))
  IN  [i \in Eqs |-> Xor(Xor(Quadratic(s, key.p1[i], V), mixed(i)), Quadratic(oil, key.p3[i], M))]

uov_verify ==
  /\ given # None /\ verdict = "none"
  /\ verdict' = IF PublicMap(given.sig) = given.t THEN "accepted" ELSE "rejected"
  /\ UNCHANGED <<key, job, sig, given>>

Next == uov_gen_key \/ HashMessage \/ Try \/ Deliver \/ uov_verify

Spec == Init /\ [][Next]_vars

(***************************************************************************)
(* Properties                                                              *)
(***************************************************************************)

\* Every signature is accepted, whatever the key, the target and the values of the
\* vinegar variables: also after a row without a pivot was added to (uov.c:90), and
\* in the attempt after one that failed.
SignedIsAccepted ==
  verdict # "none" /\ given = [t |-> job.t, sig |-> sig] => verdict = "accepted"

\* Nothing else is accepted but what the secret key maps to the target: the two
\* triangular families and the mixed one that are published (genkey.c:46) are the
\* system that the signer solves, with the oil variables taken out.
Unmixed(s) == [i \in 0 .. V - 1 |-> Xor(s[i], Sum(Eqs, LAMBDA j : gf256_mul(key.o[i, j], s[V + j])))]
Wanted(s) ==
  LET v == Unmixed(s)
      l == Linear(v)
  IN  [i \in Eqs |-> Xor(Quadratic(v, key.p1[i], V), Sum(Eqs, LAMBDA j : gf256_mul(l[i, j], s[V + j])))]
AcceptsSolutions == verdict # "none" => (verdict = "accepted" <=> Wanted(given.sig) = given.t)

\* An attempt is given up exactly when its matrix has no inverse: elimination without a
\* branch, which adds rows instead of exchanging them, finds a pivot when there is one.
Dependent(l) ==
  \E c \in [Eqs -> SUBSET (0 .. Deg - 1)] :
    /\ \E i \in Eqs : c[i] # {}
    /\ \A j \in Eqs : Sum(Eqs, LAMBDA i : gf256_mul(c[i], l[i, j])) = {}
GivenUpIfSingular == job # None /\ job.l # None => (job.ok <=> ~Dependent(job.l))

==============================================================================
