------------------------------ MODULE NtruKem -------------------------------
(***************************************************************************)
(* Encapsulation and decapsulation with NTRU LPRime.  The secret is one    *)
(* bit, which stands for all 256: each is treated on its own.  The         *)
(* products b * Round(aG) of the sender and a * Round(bG) of the receiver  *)
(* have one coefficient each, and differ by the roundings.  Hashes and     *)
(* encodings are symbolic.                                                 *)
(***************************************************************************)
EXTENDS Integers

CONSTANTS
  Q, W,        \* NTRU_LPR_Q and NTRU_LPR_W
  T2, T3,      \* NTRU_LPR_T2 and NTRU_LPR_T3
  Products,    \* the sender's coefficient
  Noises       \* what the receiver's coefficient is less

\* Each rounding changes a coefficient by at most 1, and a short polynomial adds up
\* at most 2 * W of them.
NtruKemAssumption ==
  /\ {Q, W, T2, T3} \subseteq Nat /\ Q % 6 = 1
  /\ Products \subseteq 0 .. Q - 1 /\ Noises \subseteq -4 * W .. 4 * W

VARIABLES
  product, noise,   \* for the secret that is sent
  sent,             \* [secret, ct, key] of the sender, or none
  ct,               \* the ciphertext as it arrives
  got,              \* [secret, same, key] of the receiver, or none
  phase

vars == <<product, noise, sent, ct, got, phase>>

Init ==
  /\ product \in Products /\ noise \in Noises
  /\ sent = <<>> /\ ct = <<>> /\ got = <<>> /\ phase = "start"

Reduce(x) == IF x >= Q THEN x - Q ELSE x

(***************************************************************************)
(* Encapsulation                                                           *)
(***************************************************************************)

\* Top(), for the coefficient between -(Q - 1) / 2 and (Q - 1) / 2.
Top(c) == (IF c >= (Q + 1) \div 2 THEN 113 * c + 262159 - 522173 ELSE 113 * c + 262159) \div 2^15

KeyHash == <<"hash", 4, "public key">>
Session(prefix, secret, c) == <<"hash", prefix, secret, c>>

\* ntrulpr_653_encapsulate_internal.  The coefficient is that of b, which comes from
\* the secret; ciphertexts of two secrets differ in bG, whatever it is.
Ciphertext(secret, coefficient) ==
  [bg      |-> <<"round bG", secret>>,
   t       |-> Top(Reduce(secret * ((Q - 1) \div 2) + coefficient)),
   confirm |-> <<"hash", 2, secret, KeyHash>>]

Encapsulate ==
  /\ phase = "start" /\ phase' = "sent"
  /\ \E secret \in {0, 1} :
       LET c == Ciphertext(secret, product)
       IN  sent' = [secret |-> secret, ct |-> c, key |-> Session(1, secret, c)]
  /\ UNCHANGED <<product, noise, ct, got>>

\* The ciphertext arrives, or another one with one part changed.
Deliver ==
  /\ phase = "sent" /\ phase' = "delivered"
  /\ \/ ct' = sent.ct
     \/ ct' = [sent.ct EXCEPT !.bg = <<"other">>]
     \/ \E d \in {1, 8, 15} : ct' = [sent.ct EXCEPT !.t = (@ + d) % 16]
     \/ ct' = [sent.ct EXCEPT !.confirm = <<"other">>]
  /\ UNCHANGED <<product, noise, sent, got>>

(***************************************************************************)
(* Decapsulation                                                           *)
(***************************************************************************)

\* Right(t) less the coefficient, moved up by the noise there can be.
SecretBit(t, coefficient) ==
  LET r == Reduce(t * T3 + (Q - T2) + 4 * W + 1)
  IN  IF Reduce(r + Q - coefficient) >= (Q + 1) \div 2 THEN 1 ELSE 0

\* The receiver's coefficient, any one for another bG.
Coefficients ==
  IF ct.bg = sent.ct.bg THEN {(product - noise + Q) % Q} ELSE {0, (Q - 1) \div 2}

\* safe_memcmp() of the ciphertexts.
Same(c, d) == c = d

\* uint64_to_bool() of the comparison, which is 1 where they differ, is the prefix of
\* the session key, and selects rho for the secret.
Decapsulate ==
  /\ phase = "delivered" /\ phase' = "done"
  /\ \E y \in Coefficients :
       LET bit    == SecretBit(ct.t, y)
           again  == Ciphertext(bit, product)
           differ == IF Same(ct, again) THEN 0 ELSE 1
       IN  got' = [secret |-> bit, differ |-> differ,
                   key |-> Session(differ, IF differ = 1 THEN "rho" ELSE bit, ct)]
  /\ UNCHANGED <<product, noise, sent, ct>>

Next == Encapsulate \/ Deliver \/ Decapsulate

Spec == Init /\ [][Next]_vars

(***************************************************************************)
(* Properties                                                              *)
(***************************************************************************)
Received == phase = "done" /\ ct = sent.ct

\* The secret is read back whatever the coefficient and the noise: the ciphertext is
\* found to be that which the secret makes.
SecretRecovered == Received => got.secret = sent.secret /\ got.differ = 0

\* A ciphertext with any part changed gives a key made from rho, which says nothing
\* of the secret.
ChangedGivesRho ==
  phase = "done" /\ ct # sent.ct =>
    \E prefix \in {0, 1} : got.key = Session(prefix, "rho", ct)

\* T is written to four bits.
TFits == phase # "start" => sent.ct.t \in 0 .. 15

\* "uint64_to_bool (cmp) will correctly return the comparison byte": sender and
\* receiver have the same key when the ciphertext arrives as it was sent.
KeysAgree == Received => got.key = sent.key

=============================================================================
