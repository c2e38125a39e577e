--------------------------------- MODULE Cross ---------------------------------
(***************************************************************************)
(* The signature scheme CROSS, variant fast (src/crypto/sign/cross): keys, *)
(* signing in T rounds of a protocol with two challenges, verification.    *)
(*                                                                         *)
(* A hash or a string drawn from SHAKE is the term that made it, with its  *)
(* inputs in a row; vectors drawn from SHAKE are answers of an oracle that *)
(* says the same twice and is free where it is asked for the first time.   *)
(* Packed vectors, see CrossCoding, have bits for their padding, and room   *)
(* for values that are not below the modulus.                              *)
(***************************************************************************)
EXTENDS CrossField, FiniteSets

CONSTANTS N, K, M,    \* CROSS_N, CROSS_K, CROSS_M: sizes of vectors and matrices
          T, W,       \* rounds, and those whose seed is revealed
          MatWs, MatVs, Secrets,  \* what a key may be drawn as
          RoundDraws,             \* one round: [e, u]
          Rounds, Challenges,     \* what the T rounds and the first challenge may be drawn as
          Fresh,                  \* what else the oracle answers: [round, first, second]
          Other                   \* a digest, seed, salt or message that is none of the signer's

LOCAL Seqs == INSTANCE SequencesExt

CrossAssumption ==
  /\ {N, K, M, T, W} \subseteq Nat \ {0} /\ K < N /\ M < N /\ W < T /\ T >= 3
  /\ Rounds \subseteq [0 .. T - 1 -> RoundDraws] /\ Challenges \subseteq [0 .. T - 1 -> 0 .. P - 1]
  /\ \A f \in Fresh : f.round \in RoundDraws /\ f.first \in Challenges /\ Cardinality(f.second) = W

VARIABLES
  key,     \* [w, v, e, s]: the matrices, e_bar_g, and the packed syndrome
  table,   \* the questions that the signer asked, with the answers
  sig,     \* the signature
  given,   \* [s, msg, sig]: what the verifier was given
  verdict  \* "none", "accepted" or "rejected"

vars == <<key, table, sig, given, verdict>>

Sum(n, f(_)) ==
  LET S[k \in 0 .. n] == IF k = 0 THEN 0 ELSE FpAdd(S[k - 1], f(k - 1)) IN S[n]
SumZ(n, f(_)) ==
  LET S[k \in 0 .. n] == IF k = 0 THEN 0 ELSE FzAdd(S[k - 1], f(k - 1)) IN S[n]

(***************************************************************************)
(* Vectors                                                                 *)
(***************************************************************************)
\* x * [W | Id], in exponents; g to them; x * H^T, H = [V | Id].
TimesM(x, w) ==
  [j \in 0 .. N - 1 |-> IF j < N - M THEN SumZ(M, LAMBDA k : FzMult(x[k], w[k][j])) ELSE x[j - (N - M)]]
Powers(x)    == [j \in 0 .. N - 1 |-> FzToFp(x[j])]
Times(x, y)  == [j \in 0 .. N - 1 |-> FpMult(x[j], y[j])]
TimesH(x, v) ==
  [j \in 0 .. N - K - 1 |-> FpAdd(Sum(K, LAMBDA k : FpMult(x[k], v[k][j])), x[K + j])]

Packed(x)            == [elems |-> x, pad |-> 0]
Acceptable(p, bound) == p.pad = 0 /\ \A j \in DOMAIN p.elems : p.elems[j] < bound

(***************************************************************************)
(* Seeds and digests                                                       *)
(***************************************************************************)
Hash(parts, dom)         == <<"hash", parts, dom>>
String(seed, salt, a, k) == <<"string", seed, salt, a, k>>   \* part k of a string drawn for purpose a

\* leaf_offset1 .. leaf_offset3 bound the four groups of rounds.
Offsets ==
  LET o1 == (T - 1) \div 4 + 1
      o2 == o1 + (T - 2) \div 4 + 1
      o3 == o2 + (T - 3) \div 4 + 1
  IN  <<0, o1, o2, o3, T>>
Group(i) == CHOOSE q \in 1 .. 4 : Offsets[q] <= i /\ i < Offsets[q + 1]

Leaf(seed, salt, i) ==
  LET q == Group(i) IN String(String(seed, salt, 0, q), salt, q, i - Offsets[q])

TreeRoot(leaves) ==
  Hash([q \in 1 .. 4 |-> Hash([k \in 1 .. Offsets[q + 1] - Offsets[q] |-> leaves[Offsets[q] + k - 1]], 0)], 0)
Flat(f) == [k \in 1 .. T |-> f[k - 1]]

Commit0(syndrome, v, salt, i) == Hash(<<Packed(syndrome), v, salt>>, 2 * T + i)
Commit1(seed, salt, i)        == Hash(<<seed, salt>>, 2 * T + i)
DigestCmt(cmt0, cmt1)         == Hash(<<TreeRoot(cmt0), Hash(Flat(cmt1), 0)>>, 0)
Digest1(msg, cmt, salt)       == Hash(<<Hash(<<msg>>, 0), cmt, salt>>, 0)
Digest2(y, digest1)           == Hash(Append(Flat(y), digest1), 0)

\* What the oracle is asked for.
AskRound(seed, salt, i) == <<"round", seed, salt, 2 * T + i>>
AskFirst(digest1)       == <<"chall1", digest1, 3 * T - 1>>
AskSecond(digest2)      == <<"chall2", digest2, 3 * T>>
Answer(q, fresh) ==
  IF \E r \in table : r.ask = q THEN (CHOOSE r \in table : r.ask = q).answer ELSE fresh

Weights == {S \in SUBSET (0 .. T - 1) : Cardinality(S) = W}   \* rounds with chall2 = 1

\* The index of round i among those with the same second challenge: proof_ptr, resp_ptr.
Pointer(i, chall2) == 1 + Cardinality({j \in 0 .. i - 1 : (j \in chall2) = (i \in chall2)})
Place(k, S)        == CHOOSE i \in S : Cardinality({j \in S : j < i}) = k - 1
Listed(f(_), S)    == [k \in 1 .. Cardinality(S) |-> f(Place(k, S))]

(***************************************************************************)
(* The handlers                                                            *)
(***************************************************************************)
Init == key = <<>> /\ table = {} /\ sig = <<>> /\ given = <<>> /\ verdict = "none"

\* cross_rsdpg_1_fast_gen_key
GenKey ==
  /\ key = <<>>
  /\ \E w \in MatWs, v \in MatVs, e \in Secrets :
       key' = [w |-> w, v |-> v, e |-> e, s |-> Packed(TimesH(Powers(TimesM(e, w)), v))]
  /\ UNCHANGED <<table, sig, given, verdict>>

Masked(e, e2) == [k \in 0 .. M - 1 |-> FzAdd(e[k], FzNeg(e2[k]))]

Response(r, w, c) ==
  LET e == Powers(TimesM(r.e, w)) IN Packed([j \in 0 .. N - 1 |-> FpAdd(r.u[j], FpMult(e[j], c))])

\* The commitment cmt0 of a round.
SignerCommit0(r, salt, i) ==
  LET full == TimesM(key.e, key.w)
      part == TimesM(r.e, key.w)
      v == [j \in 0 .. N - 1 |-> FzToFp(FzAdd(full[j], FzNeg(part[j])))]
  IN  Commit0(TimesH(Times(v, r.u), key.v), Packed(Masked(key.e, r.e)), salt, i)

\* cross_rsdpg_1_fast_sign, with the oracle's answers.
Sign ==
  /\ key # <<>> /\ sig = <<>>
  /\ \E rounds \in Rounds, chall1 \in Challenges, chall2 \in Weights :
       LET leaf(i) == Leaf("seed", "salt", i)
           cmt0 == [i \in 0 .. T - 1 |-> SignerCommit0(rounds[i], "salt", i)]
           cmt1 == [i \in 0 .. T - 1 |-> Commit1(leaf(i), "salt", i)]
           cmt == DigestCmt(cmt0, cmt1)
           digest1 == Digest1("msg", cmt, "salt")
           y == [i \in 0 .. T - 1 |-> Response(rounds[i], key.w, chall1[i])]
           digest2 == Digest2(y, digest1)
           hidden == (0 .. T - 1) \ chall2
       IN  /\ sig' = [salt |-> "salt", digest_cmt |-> cmt, digest_chall2 |-> digest2,
                      path |-> Listed(leaf, chall2), proof |-> Listed(LAMBDA i : cmt0[i], chall2),
                      resp_1 |-> Listed(LAMBDA i : cmt1[i], hidden),
                      y |-> Listed(LAMBDA i : y[i], hidden),
                      v |-> Listed(LAMBDA i : Packed(Masked(key.e, rounds[i].e)), hidden)]
           /\ table' = {[ask |-> AskRound(leaf(i), "salt", i), answer |-> rounds[i]] : i \in 0 .. T - 1}
                       \cup {[ask |-> AskFirst(digest1), answer |-> chall1],
                             [ask |-> AskSecond(digest2), answer |-> chall2]}
  /\ UNCHANGED <<key, given, verdict>>

\* What may become of a packed vector.
Changed(p, size) ==
  {[p EXCEPT !.pad = 1]} \cup {[p EXCEPT !.elems[j] = (@ + d) % size] : j \in DOMAIN p.elems, d \in 1 .. size - 1}

\* Sizes of the fields of a packed element.
SizeP == 2^(CHOOSE b \in 0 .. P : P <= 2^b /\ 2^b < 2 * P)
SizeZ == 2^(CHOOSE b \in 0 .. Z : Z <= 2^b /\ 2^b < 2 * Z)

Swapped(s) == [s EXCEPT ![1] = s[2], ![2] = s[1]]

\* The signature as it was made, or with one part of it, the message or the public key changed.
Deliver ==
  /\ sig # <<>> /\ given = <<>>
  /\ \/ given' = [s |-> key.s, msg |-> "msg", sig |-> sig]
     \/ given' = [s |-> key.s, msg |-> Other, sig |-> sig]
     \/ \E s \in Changed(key.s, SizeP) : ~Acceptable(s, P) /\ given' = [s |-> s, msg |-> "msg", sig |-> sig]
     \/ \E x \in {[sig EXCEPT !.salt = Other], [sig EXCEPT !.digest_cmt = Other], [sig EXCEPT !.digest_chall2 = Other]}
                 \cup {[sig EXCEPT !.path[k] = Other] : k \in 1 .. W}
                 \cup {[sig EXCEPT !.proof[k] = Other] : k \in 1 .. W}
                 \cup {[sig EXCEPT !.resp_1[k] = Other] : k \in 1 .. T - W}
                 \cup UNION {{[sig EXCEPT !.y[k] = p] : p \in Changed(sig.y[k], SizeP)} : k \in 1 .. T - W}
                 \cup UNION {{[sig EXCEPT !.v[k] = p] : p \in Changed(sig.v[k], SizeZ)} : k \in 1 .. T - W}
                 \cup {[sig EXCEPT !.path = Swapped(@)], [sig EXCEPT !.proof = Swapped(@)],
                       [sig EXCEPT !.y = Swapped(@)], [sig EXCEPT !.v = Swapped(@)],
                       [sig EXCEPT !.resp_1 = Swapped(@)]} :
          given' = [s |-> key.s, msg |-> "msg", sig |-> x]
  /\ UNCHANGED <<key, table, sig, verdict>>

\* The commitment cmt0 that the response of a round tells of.
VerifierCommit0(y, v, s, c, salt, i) ==
  LET h == TimesH(Times(Powers(TimesM(v.elems, key.w)), y.elems), key.v)
  IN  Commit0([j \in 0 .. N - K - 1 |-> FpAdd(h[j], FpNeg(FpMult(c, s.elems[j])))], v, salt, i)

Agree(g, cmt, digest2) == g.digest_cmt = cmt /\ g.digest_chall2 = digest2

\* cross_rsdpg_1_fast_verify, where the oracle answers new questions as f says.
Verify(f) ==
  LET g == given.sig
      digest1 == Digest1(given.msg, g.digest_cmt, g.salt)
      chall1 == Answer(AskFirst(digest1), f.first)
      chall2 == Answer(AskSecond(g.digest_chall2), f.second)
      at(i) == Pointer(i, chall2)
      hidden == (0 .. T - 1) \ chall2
      draw(i) == Answer(AskRound(g.path[at(i)], g.salt, i), f.round)
      cmt0 == [i \in 0 .. T - 1 |->
                 IF i \in chall2 THEN g.proof[at(i)]
                 ELSE VerifierCommit0(g.y[at(i)], g.v[at(i)], given.s, chall1[i], g.salt, i)]
      cmt1 == [i \in 0 .. T - 1 |->
                 IF i \in chall2 THEN Commit1(g.path[at(i)], g.salt, i) ELSE g.resp_1[at(i)]]
      y == [i \in 0 .. T - 1 |->
              IF i \in chall2 THEN Response(draw(i), key.w, chall1[i]) ELSE g.y[at(i)]]
  IN  /\ Acceptable(given.s, P)
      /\ \A i \in hidden : Acceptable(g.y[at(i)], P) /\ Acceptable(g.v[at(i)], Z)
      /\ Agree(g, DigestCmt(cmt0, cmt1), Digest2(y, digest1))

VerifySignature ==
  /\ given # <<>> /\ verdict = "none"
  /\ \E f \in Fresh : verdict' = IF Verify(f) THEN "accepted" ELSE "rejected"
  /\ UNCHANGED <<key, table, sig, given>>

Next == GenKey \/ Sign \/ Deliver \/ VerifySignature

Spec == Init /\ [][Next]_vars

(***************************************************************************)
(* Properties                                                              *)
(***************************************************************************)
Honest == [s |-> key.s, msg |-> "msg", sig |-> sig]

\* Every signature is accepted, whatever the keys, the rounds and both challenges are
\* drawn as, a first challenge of zero included.
SignedIsAccepted == verdict # "none" /\ given = Honest => verdict = "accepted"

\* A signature that was changed in one place, in its padding or in the order of its
\* entries, is not accepted: no signature has a second form.
OthersRejected == verdict # "none" /\ given # Honest => verdict = "rejected"

\* A round shows its seed, or the response that hides the secret by it, never both:
\* the seeds of the other rounds are not among those of the path.
SeedsApart ==
  sig # <<>> =>
    LET revealed == (CHOOSE r \in table : r.ask = AskSecond(sig.digest_chall2)).answer
    IN  \A i \in 0 .. T - 1 :
          i \in revealed <=> \E k \in 1 .. W : sig.path[k] = Leaf("seed", "salt", i)

================================================================================
