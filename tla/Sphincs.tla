------------------------------- MODULE Sphincs -------------------------------
(***************************************************************************)
(* SPHINCS+ (crypto/sign/sphincs): one-time signatures (WOTS), Merkle      *)
(* trees over them (XMSS), a tower of such trees (HT), and few-time        *)
(* signatures (FORS) of the digests of messages.                           *)
(*                                                                         *)
(* Hash values are terms, equal when the function, the address and the     *)
(* inputs are; keys and seeds are left out of them.  A message is what its *)
(* digest is: the bytes for FORS and the raw indices of tree and leaf.     *)
(* The digits of a value that WOTS signs are arbitrary, but those of       *)
(* different values differ.                                                *)
(***************************************************************************)
EXTENDS Integers, Sequences, FiniteSets

CONSTANTS
  N,          \* SPHINCS_N: bytes of a hash value, of two digits each
  Base,       \* values of a digit: 16
  D, XH,      \* SPHINCS_D layers of trees of height SPHINCS_XH
  K, A,       \* SPHINCS_K FORS trees of height SPHINCS_A
  ByteBits,   \* bits of a byte of the digest: 8
  Width,      \* bits of idx_tree: 64
  Bytes,      \* the digests that are signed: sequences of bytes for FORS,
  Trees,      \* raw tree indices,
  Words       \* and digits of the values signed in the layers

LOCAL Seqs == INSTANCE SequencesExt

TreeBits == XH * (D - 1)
MdBytes  == (K * A + ByteBits - 1) \div ByteBits

SphincsAssumption ==
  /\ {N, D, XH, K, A, ByteBits} \subseteq Nat \ {0} /\ Base \in {2, 4, 8, 16}
  /\ TreeBits < Width
  /\ Bytes \subseteq [1 .. MdBytes -> 0 .. 2^ByteBits - 1]
  /\ Trees \subseteq 0 .. 2^Width - 1
  /\ Words \subseteq [1 .. 2 * N -> 0 .. Base - 1] /\ Cardinality(Words) > 1

VARIABLES phase, pk, job, sig, verdict

vars == <<phase, pk, job, sig, verdict>>

Upto(a, b) == [i \in 1 .. b - a |-> a + i - 1]       \* a .. b - 1 as a loop
Downto(a, b) == [i \in 1 .. a - b + 1 |-> a - i + 1]  \* a down to b
Loop(s, indices, Do(_, _)) == Seqs!FoldLeft(Do, s, indices)

\* ADRS and the hash functions.
Adrs(layer, tree, type, keypair, w6, w7) == <<layer, tree, type, keypair, w6, w7>>
Prf(adrs)     == <<"prf", adrs>>
F(adrs, x)    == <<"f", adrs, x>>
H(adrs, x, y) == <<"h", adrs, x, y>>
T(adrs, xs)   == <<"t", adrs, xs>>
Undefined     == <<"undefined">>

(***************************************************************************)
(* WOTS                                                                    *)
(***************************************************************************)
Chain == Base - 1
WLen  == 2 * N + 3

Total(word) == Loop(0, word, LAMBDA a, d : a + d)

\* Mutant of Checksum: the sum itself, which grows with the digits.
ChecksumRising(word) ==
  LET s == Total(word) IN <<s \div Base^2, (s \div Base) % Base, s % Base>>

Checksum(word) ==
  LET s == 2 * N * Chain - Total(word) IN <<s \div Base^2, (s \div Base) % Base, s % Base>>

\* The digits that are signed: those of the message and of the checksum.
Signed(word) == word \o Checksum(word)

\* Steps from .. to - 1 of chain i, between the two buffers.
RunChain(l, t, k, i, bufs, from, to) ==
  Loop(bufs, Upto(from, to), LAMBDA b, j :
    LET a == Adrs(l, t, "wots_hash", k, i, j)
    IN  IF j % 2 = 1 THEN [b EXCEPT !.tmp1 = F(a, b.tmp2)] ELSE [b EXCEPT !.tmp2 = F(a, b.tmp1)])

WotsKey(l, t, k, i) ==
  [tmp1 |-> Prf(Adrs(l, t, "wots_prf", k, i, 0)), tmp2 |-> Undefined]

WotsPk(l, t, k, roots) == T(Adrs(l, t, "wots_pk", k, 0, 0), roots)

WotsGenPk(l, t, k) ==
  WotsPk(l, t, k, [i \in 1 .. WLen |->
                     RunChain(l, t, k, i - 1, WotsKey(l, t, k, i - 1), 0, Chain).tmp2])

WotsSign(l, t, k, word) ==
  [i \in 1 .. WLen |->
     LET c == Signed(word)[i]
         b == RunChain(l, t, k, i - 1, WotsKey(l, t, k, i - 1), 0, c)
     IN  IF c % 2 = 1 THEN b.tmp2 ELSE b.tmp1]

WotsSigToPk(l, t, k, word, wsig) ==
  WotsPk(l, t, k, [i \in 1 .. WLen |->
    LET c == Signed(word)[i]
        b == IF c % 2 = 1 THEN [tmp1 |-> Undefined, tmp2 |-> wsig[i]]
                          ELSE [tmp1 |-> wsig[i], tmp2 |-> Undefined]
    IN  RunChain(l, t, k, i - 1, b, c, Chain).tmp2])

(***************************************************************************)
(* Merkle trees, for XMSS and FORS                                         *)
(***************************************************************************)
PopCount(i) == Loop(0, Upto(0, XH + A + 1), LAMBDA n, b : n + ((i \div 2^b) % 2))

\* The index of the node of height h above leaf i.
Ancestor(i, h) == i \div 2^h

\* Mutant of Sibling: the node itself.
SiblingSelf(keys, j, chosen, h) == IF Ancestor(chosen, h - 1) % 2 = 1 THEN keys[j] ELSE keys[j - 1]

\* Of the two children j - 1 and j that are merged, the one off the way to the root.
Sibling(keys, j, chosen, h) == IF Ancestor(chosen, h - 1) % 2 = 1 THEN keys[j - 1] ELSE keys[j]

\* The leaves from left to right, with one finished subtree per bit of their number;
\* the siblings on the way from the chosen leaf to the root are put out.
Treehash(height, Leaf(_), Node(_, _), chosen) ==
  LET Merge(s, i, h, j) ==
        [keys |-> [s.keys EXCEPT ![j - 1] = H(Node(h, Ancestor(i, h)), s.keys[j - 1], s.keys[j])],
         path |-> IF Ancestor(i, h) = Ancestor(chosen, h)
                  THEN [s.path EXCEPT ![h] = Sibling(s.keys, j, chosen, h)] ELSE s.path]
      AddLeaf(s, i) ==
        Loop([s EXCEPT !.keys[PopCount(i)] = Leaf(i)], Downto(PopCount(i), PopCount(i + 1)),
             LAMBDA u, j : Merge(u, i, PopCount(i) - j + 1, j))
      end == Loop([keys |-> [p \in 0 .. height |-> Undefined],
                   path |-> [h \in 1 .. height |-> Undefined]], Upto(0, 2^height), AddLeaf)
  IN  [root |-> end.keys[0], path |-> end.path]

\* From a leaf to the root, between the two buffers.
Climb(height, Node(_, _), index, leaf, path) ==
  LET Up(b, i) ==
        LET x == IF i % 2 = 1 THEN b.tmp1 ELSE b.tmp2
            n == Node(i, Ancestor(index, i))
            v == IF Ancestor(index, i - 1) % 2 = 1 THEN H(n, path[i], x) ELSE H(n, x, path[i])
        IN  IF i % 2 = 1 THEN [b EXCEPT !.tmp2 = v] ELSE [b EXCEPT !.tmp1 = v]
      end == Loop([tmp1 |-> leaf, tmp2 |-> Undefined], Upto(1, height + 1), Up)
  IN  IF height % 2 = 1 THEN end.tmp2 ELSE end.tmp1

(***************************************************************************)
(* XMSS and the hypertree                                                  *)
(***************************************************************************)
XmssNode(l, t, h, i) == Adrs(l, t, "tree", 0, h, i)

XmssTree(l, t, k) ==
  Treehash(XH, LAMBDA i : WotsGenPk(l, t, i), LAMBDA h, i : XmssNode(l, t, h, i), k)

XmssGenPk(l, t) == XmssTree(l, t, 0).root

XmssSign(l, t, k, word) ==
  LET x == XmssTree(l, t, k)
  IN  [root |-> x.root, sig |-> [wots |-> WotsSign(l, t, k, word), path |-> x.path]]

XmssSigToPk(l, t, k, word, s) ==
  Climb(XH, LAMBDA h, i : XmssNode(l, t, h, i), k, WotsSigToPk(l, t, k, word, s.wots), s.path)

HtGenPk == XmssGenPk(D - 1, 0)

\* The digits of the value x in layer l: 'known' values were signed.
WordOf(j, known, l, x) ==
  IF x = known[l] THEN j.words[l] ELSE CHOOSE w \in Words : w # j.words[l]

\* ht_sign(): 'known' records what each layer signs.
HtSign(j, tree, leaf, x) ==
  Loop([tree |-> tree, leaf |-> leaf, x |-> x, sigs |-> <<>>, known |-> <<>>], Upto(0, D),
       LAMBDA s, l :
         LET r == XmssSign(l, s.tree, s.leaf, j.words[l + 1])
         IN  [tree |-> s.tree \div 2^XH, leaf |-> s.tree % 2^XH, x |-> r.root,
              sigs |-> Append(s.sigs, r.sig), known |-> Append(s.known, s.x)])

HtSigToPk(j, known, tree, leaf, x, sigs) ==
  Loop([tree |-> tree, leaf |-> leaf, x |-> x], Upto(0, D),
       LAMBDA s, l :
         [tree |-> s.tree \div 2^XH, leaf |-> s.tree % 2^XH,
          x |-> XmssSigToPk(l, s.tree, s.leaf, WordOf(j, known, l + 1, s.x), sigs[l + 1])]).x

(***************************************************************************)
(* FORS                                                                    *)
(***************************************************************************)

\* fors_msg_to_indices(): A bits at a time, the higher ones first.
MsgToIndices(bytes) ==
  LET Fill(s) == Loop(s, Upto(0, (A - s.rem + ByteBits - 1) \div ByteBits), LAMBDA u, i :
                   [u EXCEPT !.c = @ * 2^ByteBits + bytes[u.offset + 1], !.rem = @ + ByteBits,
                             !.offset = @ + 1])
      Cut(s) == [s EXCEPT !.out = Append(@, s.c \div 2^(s.rem - A)), !.c = @ % 2^(s.rem - A),
                          !.rem = @ - A]
  IN  Loop([c |-> 0, rem |-> 0, offset |-> 0, out |-> <<>>], Upto(0, K),
           LAMBDA s, i : Cut(Fill(s))).out

ForsSecret(t, k, idx) == Prf(Adrs(0, t, "fors_prf", k, 0, idx))
ForsLeaf(t, k, idx, secret) == F(Adrs(0, t, "fors_tree", k, 0, idx), secret)
ForsRoots(t, k, roots) == T(Adrs(0, t, "fors_roots", k, 0, 0), roots)

\* Mutant of ForsNode: the nodes of all trees share their addresses.
ForsNodeShared(t, k, tree, h, i) == Adrs(0, t, "fors_tree", k, h, i)

\* Node i of height h in the tree number 'tree'.
ForsNode(t, k, tree, h, i) == Adrs(0, t, "fors_tree", k, h, (tree * 2^A) \div 2^h + i)

ForsTreeSign(t, k, tree, leaf) ==
  LET first == tree * 2^A
      r == Treehash(A, LAMBDA i : ForsLeaf(t, k, first + i, ForsSecret(t, k, first + i)),
                    LAMBDA h, i : ForsNode(t, k, tree, h, i), leaf)
  IN  [root |-> r.root, sig |-> [secret |-> ForsSecret(t, k, first + leaf), path |-> r.path]]

ForsSign(t, k, bytes) ==
  LET trees == [i \in 1 .. K |-> ForsTreeSign(t, k, i - 1, MsgToIndices(bytes)[i])]
  IN  [pk |-> ForsRoots(t, k, [i \in 1 .. K |-> trees[i].root]), sig |-> [i \in 1 .. K |-> trees[i].sig]]

ForsSigToPk(t, k, bytes, s) ==
  ForsRoots(t, k, [i \in 1 .. K |->
    LET index == MsgToIndices(bytes)[i]
    IN  Climb(A, LAMBDA h, n : ForsNode(t, k, i - 1, h, n), index,
              ForsLeaf(t, k, (i - 1) * 2^A + index, s[i].secret), s[i].path)])

(***************************************************************************)
(* Signing and verification                                                *)
(***************************************************************************)
Jobs == [bytes : Bytes, tree : Trees, leaf : 0 .. 2^XH - 1, words : [1 .. D -> Words]]

\* The masked index; for TreeBits < Width the test of sign_from_rand() always holds.
TreeOf(raw) == raw % 2^TreeBits

\* The groups of A bits at the head of a digest, and all that a digest selects.
BitGroups(bytes) ==
  LET bit(i) == (bytes[(i \div ByteBits) + 1] \div 2^(ByteBits - 1 - (i % ByteBits))) % 2
  IN  [t \in 1 .. K |-> Loop(0, Upto((t - 1) * A, t * A), LAMBDA v, i : 2 * v + bit(i))]
Digest(j) == <<BitGroups(j.bytes), j.tree % 2^TreeBits, j.leaf>>

Init == phase = "start" /\ pk = Undefined /\ job \in Jobs /\ sig = Undefined /\ verdict = FALSE

GenKey ==
  /\ phase = "start" /\ phase' = "key" /\ pk' = HtGenPk
  /\ UNCHANGED <<job, sig, verdict>>

\* sign(), sign_randomize() and sign_from_rand().
Sign ==
  /\ phase = "key" /\ phase' = "signed"
  /\ LET tree == TreeOf(job.tree)
         f == ForsSign(tree, job.leaf, job.bytes)
         h == HtSign(job, tree, job.leaf, f.pk)
     IN  sig' = [fors |-> f.sig, ht |-> h.sigs, known |-> h.known]
  /\ UNCHANGED <<pk, job, verdict>>

Accepts(j, tree, s) ==
  HtSigToPk(j, s.known, tree, j.leaf, ForsSigToPk(tree, j.leaf, j.bytes, s.fors), s.ht) = pk

\* verify() of the signed message.
Verify ==
  /\ phase = "signed" /\ phase' = "verified"
  /\ verdict' = Accepts(job, TreeOf(job.tree), sig)
  /\ UNCHANGED <<pk, job, sig>>

\* verify() of another message, with another digest, and the same signature.
VerifyOther ==
  /\ phase = "signed" /\ phase' = "other"
  /\ \E b \in Bytes, raw \in Trees, leaf \in 0 .. 2^XH - 1 :
       LET j == [job EXCEPT !.bytes = b, !.tree = raw, !.leaf = leaf]
       IN  /\ Digest(j) # Digest(job)
           /\ verdict' = Accepts(j, TreeOf(raw), sig)
  /\ UNCHANGED <<pk, job, sig>>

Next == GenKey \/ Sign \/ Verify \/ VerifyOther

Spec == Init /\ [][Next]_vars

(***************************************************************************)
(* Properties                                                              *)
(***************************************************************************)

\* A signature verifies, for every leaf of every tree and all digits: the paths put
\* out while the tree was built are those along which the verifier climbs.
SignedIsAccepted == phase = "verified" => verdict

\* A signature is not taken for one of another digest or of another place in the
\* trees: the addresses bind a signature to the leaves it was made for.
OthersRejected == phase = "other" => ~verdict

\* The digits of one signature never all lie on the way to those of another value,
\* where hashing on would reach them: the checksum falls when the digits rise.
ChainsIncomparable ==
  phase = "start" => \A w \in Words \ {job.words[1]} :
    \E i \in 1 .. WLen : Signed(w)[i] < Signed(job.words[1])[i]

\* The public key is the root of the tree as it is defined, by halves.
MerkleRoot ==
  LET node[h \in 0 .. XH, i \in 0 .. 2^XH] ==
        IF h = 0 THEN WotsGenPk(D - 1, 0, i)
        ELSE H(XmssNode(D - 1, 0, h, i), node[h - 1, 2 * i], node[h - 1, 2 * i + 1])
  IN  node[XH, 0]
RootIsMerkle == phase = "key" => pk = MerkleRoot

\* The indices of FORS are consecutive groups of A bits of the digest.
IndicesAreBits == phase = "start" => MsgToIndices(job.bytes) = BitGroups(job.bytes)

\* The calls of hash functions behind a value.
RECURSIVE Calls(_)
Calls(x) ==
  CASE x[1] = "prf" -> {x}
    [] x[1] = "f"   -> {x} \cup Calls(x[3])
    [] x[1] = "h"   -> {x} \cup Calls(x[3]) \cup Calls(x[4])
    [] x[1] = "t"   -> {x} \cup UNION {Calls(x[3][i]) : i \in DOMAIN x[3]}

\* No two different inputs are hashed at the same address in a whole signature,
\* which the security of the scheme rests on.
AddressesUnique ==
  phase = "signed" =>
    LET calls == UNION {Calls(sig.known[l]) : l \in 1 .. D} \cup Calls(pk)
    IN  \A x, y \in calls : x[2] = y[2] => x = y

=============================================================================
