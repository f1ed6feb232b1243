------------------------------ MODULE Offline ------------------------------
(***************************************************************************)
(* The preprocessing phase (OfflineEvaluator, src/src/graphsc/             *)
(* offline_evaluator.cpp).  Three processes walk the same level-ordered    *)
(* list of gates.  The helper, party 0, knows both pairwise random streams *)
(* and deals correlated randomness; parties 1 and 2 reconstruct their part *)
(* from the stream they share with the helper and from the words the       *)
(* helper sends: `sec' to party 2, `secToOne' to party 1.                  *)
(*                                                                         *)
(* Nothing in the program labels a random draw or a dealt word with the    *)
(* gate it is for.  The three walks stay meaningful only because every     *)
(* party takes the same branches, draws from the shared streams the same   *)
(* number of times and consumes the dealt words in the order they were     *)
(* pushed.  That agreement, and the correlations it yields, is what this   *)
(* module is about.                                                        *)
(*                                                                         *)
(* emp::PRG consumes whole AES blocks, one per random_data call for the    *)
(* word sizes used here, so a stream position counts calls.  b_rand_sh_sec *)
(* and the two *_party vectors of the code are never written: their        *)
(* lengths, all 0, are sent, and the transfers they size carry no bytes.   *)
(***************************************************************************)
EXTENDS Words, Sequences

CONSTANTS Circuits,   \* the gate lists, in level order, to preprocess
          Tapes,      \* possible outputs of the seeded random generators
          TapeLen,    \* period of a generator
          ChunkSize   \* words per bulk message, 100000000 in the code

Party  == {0, 1, 2}
Online == {1, 2}
Stream == {"p01", "p02", "self"}

ArithTriple == {"Mul", "ConvertB2A"}
BinTriple   == {"And", "EqualsZero"}
InputGate   == {"Inp", "BinInp"}
GateType    == ArithTriple \cup BinTriple \cup InputGate
               \cup {"GenCompaction", "Shuffle", "DoubleShuffle", "Local"}

(* n is in1.size(); param names the permutation of a (double) shuffle,     *)
(* param2 and param3 the two it concatenates; owner provides an input.     *)
Gate == [type : GateType, n : Nat, param : Nat, param2 : Nat, param3 : Nat,
         reverse : BOOLEAN, owner : Online]

(* Callers (src/benchmark/subcircuits.cpp and the tests) use a permutation *)
(* name consistently: always for vectors of the same size, and always for  *)
(* a shuffle or always for the same concatenation of two shuffles.         *)
PermNames(g) == CASE g.type = "Shuffle"       -> {g.param}
                  [] g.type = "DoubleShuffle" -> {g.param, g.param2, g.param3}
                  [] OTHER                    -> {}
NamesAgree(c) ==
  \A i, j \in 1 .. Len(c) :
    /\ PermNames(c[i]) \cap PermNames(c[j]) # {} => c[i].n = c[j].n
    /\ /\ {c[i].type, c[j].type} \subseteq {"Shuffle", "DoubleShuffle"}
       /\ c[i].param = c[j].param
       => /\ c[i].type = c[j].type
          /\ c[i].type = "DoubleShuffle" => /\ c[i].param2 = c[j].param2
                                           /\ c[i].param3 = c[j].param3

ASSUME TapeAssumption ==
  /\ TapeLen \in Nat \ {0}
  /\ \A t \in Tapes : t \in [Stream -> [0 .. (TapeLen - 1) -> Nat]]
ASSUME ChunkAssumption == ChunkSize \in Nat \ {0}
ASSUME CircuitAssumption ==
  \A c \in Circuits :
    /\ c \in Seq(Gate)
    /\ \A i \in 1 .. Len(c) :
         /\ c[i].n <= Modulus
         /\ c[i].type \in ArithTriple \cup BinTriple => c[i].n = 1
         /\ c[i].type = "DoubleShuffle" => ~ c[i].reverse
    /\ NamesAgree(c)

VARIABLES gates,    \* the circuit of this run, the same at every party
          tape,     \* what the seeded generators produce in this run
          pc,       \* what each party does next
          ctx,      \* each party's locals of setWireMasksParty and its tables
          preproc,  \* each party's preproc_.gates, in walking order
          wire,     \* words in flight from the helper to parties 1 and 2
          expect,   \* number of words party 1 or 2 was told to expect
          off,      \* words of the current bulk transfer the helper has sent
          ledger    \* history: the helper's positions after each gate

vars == <<gates, tape, pc, ctx, preproc, wire, expect, off, ledger>>
-----------------------------------------------------------------------------
Word(s, k)     == tape[s][k % TapeLen]
RingWord(s, k) == Trunc(Word(s, k))

(* Elements i+1 .. i+n of a vector of dealt words, as an array.  Reading   *)
(* past the end is excluded by the invariant DealtInBounds.                *)
WordAt(s, i)    == IF i < Len(s) THEN s[i + 1] ELSE 0
Popped(s, i, n) == [j \in Idx(n) |-> WordAt(s, i + j)]
Pushed(v, n)    == [j \in 1 .. n |-> v[j - 1]]

(* Fisher-Yates: perm[j] is swapped with perm[j + k % (n - j)].            *)
Swap(f, i, j) == [f EXCEPT ![i] = f[j], ![j] = f[i]]
RandomPerm(s, k, n) ==
  LET step[j \in 0 .. n] ==
        IF j = 0 THEN [i \in Idx(n) |-> i]
        ELSE Swap(step[j - 1], j - 1,
                  (j - 1) + (Word(s, k + j - 1) % (n - (j - 1))))
  IN  step[n]

(* randomShare, randomShareBin: what party p keeps.                        *)
RandomShare(p, k01, k02) ==
  CASE p = 0 -> Plus(RingWord("p01", k01), RingWord("p02", k02))
    [] p = 1 -> RingWord("p01", k01)
    [] OTHER -> RingWord("p02", k02)
RandomShareBin(p, k01, k02) ==
  CASE p = 0 -> XorW(RingWord("p01", k01), RingWord("p02", k02))
    [] p = 1 -> RingWord("p01", k01)
    [] OTHER -> RingWord("p02", k02)

(* Advance party p's cursors of the streams it holds.                      *)
Draw(p, c, n01, n02) ==
  [c EXCEPT !.p01 = IF p # 2 THEN @ + n01 ELSE @,
            !.p02 = IF p # 1 THEN @ + n02 ELSE @]
-----------------------------------------------------------------------------
(* Beaver triples.  Element j of a gate draws a, b and the first share of  *)
(* c from p01 and a, b from p02; the helper computes c = a * b and deals   *)
(* the second share of c to party 2 (randomShareSecret).                   *)
TripleA(p, c, bin, j) ==
  IF bin THEN RandomShareBin(p, c.p01 + 3*j, c.p02 + 2*j)
         ELSE RandomShare(p, c.p01 + 3*j, c.p02 + 2*j)
TripleB(p, c, bin, j) ==
  IF bin THEN RandomShareBin(p, c.p01 + 3*j + 1, c.p02 + 2*j + 1)
         ELSE RandomShare(p, c.p01 + 3*j + 1, c.p02 + 2*j + 1)
Product(p, c, bin, j) ==
  IF bin THEN AndW(TripleA(p, c, bin, j), TripleB(p, c, bin, j))
         ELSE Times(TripleA(p, c, bin, j), TripleB(p, c, bin, j))
SecretFor2(c, bin, j) ==
  LET val1 == RingWord("p01", c.p01 + 3*j + 2) IN
  IF bin THEN XorW(Product(0, c, bin, j), val1)
         ELSE Minus(Product(0, c, bin, j), val1)
(* Mutant: the index into the dealt words is not advanced per element.     *)
TripleCSameIdx(p, c, bin, j) ==
  CASE p = 0 -> Product(0, c, bin, j)
    [] p = 1 -> RingWord("p01", c.p01 + 3*j + 2)
    [] OTHER -> WordAt(c.sec, c.idx)
TripleC(p, c, bin, j) ==
  CASE p = 0 -> Product(0, c, bin, j)
    [] p = 1 -> RingWord("p01", c.p01 + 3*j + 2)
    [] OTHER -> WordAt(c.sec, c.idx + j)

Triples(p, c, bin, n) ==
  [kind |-> "triples", bin |-> bin,
   a |-> [j \in Idx(n) |-> TripleA(p, c, bin, j)],
   b |-> [j \in Idx(n) |-> TripleB(p, c, bin, j)],
   c |-> [j \in Idx(n) |-> TripleC(p, c, bin, j)]]
AfterTriples(p, c, bin, n) ==
  [Draw(p, c, 3*n, 2*n) EXCEPT
     !.sec = IF p = 0 THEN @ \o Pushed([j \in Idx(n) |-> SecretFor2(c, bin, j)], n)
                      ELSE @,
     !.idx = IF p = 2 THEN @ + n ELSE @]
-----------------------------------------------------------------------------
(* The tables pis_0, pis_1, rhos_0, rhos_1, one entry per permutation name. *)
NoEntry == [pi0 |-> NoVec, pi1 |-> NoVec, rho0 |-> NoVec, rho1 |-> NoVec]
Size0(v) == DOMAIN v = {}

(* An entry is there but a filler: a party has filled one of the two.      *)
(* Mutant: only one of the two tables is looked at.                        *)
UnfilledPi0(perms, name) == Size0(perms[name + 1].pi0)
Unfilled(perms, name) == /\ Size0(perms[name + 1].pi0)
                         /\ Size0(perms[name + 1].pi1)
NewPerm(perms, name) == name < Len(perms) => Unfilled(perms, name)
Grown(perms, name) ==
  [i \in 1 .. (IF name < Len(perms) THEN Len(perms) ELSE name + 1) |->
     IF i <= Len(perms) THEN perms[i] ELSE NoEntry]
SetEntry(perms, name, e) == [Grown(perms, name) EXCEPT ![name + 1] = e]
Composed(e, n) == [j \in Idx(n) |-> e.pi0[e.pi1[j]]]

(* A shuffle's permutation: pi_0 and pi'_0 = rho_0 come from p01, pi_1     *)
(* from p02; the helper deals pi'_1 = pi_0 pi_1 pi'_0^-1 to party 2.       *)
(* Mutant: pi'_1 is not corrected by the inverse of pi'_0.                 *)
ShuffleEntryPlain(p, c, n) ==
  LET pi0  == RandomPerm("p01", c.p01, n)
      rho0 == RandomPerm("p01", c.p01 + n, n)
      pi1  == RandomPerm("p02", c.p02, n)
  IN  CASE p = 0 -> [pi0 |-> pi0, pi1 |-> pi1, rho0 |-> rho0,
                     rho1 |-> [j \in Idx(n) |-> pi0[pi1[j]]]]
        [] p = 1 -> [NoEntry EXCEPT !.pi0 = pi0, !.rho0 = rho0]
        [] OTHER -> [NoEntry EXCEPT !.pi1 = pi1, !.rho1 = Popped(c.sec, c.idx, n)]
ShuffleEntry(p, c, n) ==
  LET pi0  == RandomPerm("p01", c.p01, n)
      rho0 == RandomPerm("p01", c.p01 + n, n)
      pi1  == RandomPerm("p02", c.p02, n)
      inv  == InverseOf(rho0, n)
  IN  CASE p = 0 -> [pi0 |-> pi0, pi1 |-> pi1, rho0 |-> rho0,
                     rho1 |-> [j \in Idx(n) |-> pi0[pi1[inv[j]]]]]
        [] p = 1 -> [NoEntry EXCEPT !.pi0 = pi0, !.rho0 = rho0]
        [] OTHER -> [NoEntry EXCEPT !.pi1 = pi1, !.rho1 = Popped(c.sec, c.idx, n)]
(* Mutants: pi'_1 is put among party 1's words; a reverse shuffle that     *)
(* comes first draws one permutation less.                                 *)
PrepareShuffleToOne(p, c, g) ==
  IF ~ NewPerm(c.perms, g.param) THEN c
  ELSE LET e == ShuffleEntry(p, c, g.n) IN
       [Draw(p, c, 2 * g.n, g.n) EXCEPT
          !.perms    = SetEntry(@, g.param, e),
          !.secToOne = IF p = 0 THEN @ \o Pushed(e.rho1, g.n) ELSE @,
          !.idx      = IF p = 1 THEN @ + g.n ELSE @]
PrepareShuffleReverse(p, c, g) ==
  IF ~ NewPerm(c.perms, g.param) THEN c
  ELSE LET e == ShuffleEntry(p, c, g.n) IN
       [Draw(p, c, IF g.reverse /\ p = 1 THEN g.n ELSE 2 * g.n, g.n) EXCEPT
          !.perms = SetEntry(@, g.param, e),
          !.sec   = IF p = 0 THEN @ \o Pushed(e.rho1, g.n) ELSE @,
          !.idx   = IF p = 2 THEN @ + g.n ELSE @]
PrepareShuffle(p, c, g) ==
  IF ~ NewPerm(c.perms, g.param) THEN c
  ELSE LET e == ShuffleEntry(p, c, g.n) IN
       [Draw(p, c, 2 * g.n, g.n) EXCEPT
          !.perms = SetEntry(@, g.param, e),
          !.sec   = IF p = 0 THEN @ \o Pushed(e.rho1, g.n) ELSE @,
          !.idx   = IF p = 2 THEN @ + g.n ELSE @]

(* A double shuffle applies param2 backwards, then param3: pi_0 comes from *)
(* p01 and pi'_1 = rho_1 from p02, the helper deals pi_1 and pi'_0.        *)
(* Mutant: param2 is applied forwards.                                     *)
DoubleEntryForward(p, c, g) ==
  LET n    == g.n
      pi0  == RandomPerm("p01", c.p01, n)
      rho1 == RandomPerm("p02", c.p02, n)
      inv0 == InverseOf(pi0, n)
      inv1 == InverseOf(rho1, n)
      fwd2 == Composed(c.perms[g.param2 + 1], n)
      fwd3 == Composed(c.perms[g.param3 + 1], n)
      pi1  == [j \in Idx(n) |-> inv0[fwd3[fwd2[j]]]]
      rho0 == [j \in Idx(n) |-> inv1[pi0[pi1[j]]]]
  IN  CASE p = 0 -> [pi0 |-> pi0, pi1 |-> pi1, rho0 |-> rho0, rho1 |-> rho1]
        [] p = 1 -> [NoEntry EXCEPT !.pi0 = pi0,
                                    !.rho0 = Popped(c.secToOne, c.idx, n)]
        [] OTHER -> [NoEntry EXCEPT !.pi1 = Popped(c.sec, c.idx, n), !.rho1 = rho1]
DoubleEntry(p, c, g) ==
  LET n    == g.n
      pi0  == RandomPerm("p01", c.p01, n)
      rho1 == RandomPerm("p02", c.p02, n)
      inv0 == InverseOf(pi0, n)
      inv1 == InverseOf(rho1, n)
      inv2 == InverseOf(Composed(c.perms[g.param2 + 1], n), n)
      fwd3 == Composed(c.perms[g.param3 + 1], n)
      pi1  == [j \in Idx(n) |-> inv0[fwd3[inv2[j]]]]
      rho0 == [j \in Idx(n) |-> inv1[pi0[pi1[j]]]]
  IN  CASE p = 0 -> [pi0 |-> pi0, pi1 |-> pi1, rho0 |-> rho0, rho1 |-> rho1]
        [] p = 1 -> [NoEntry EXCEPT !.pi0 = pi0,
                                    !.rho0 = Popped(c.secToOne, c.idx, n)]
        [] OTHER -> [NoEntry EXCEPT !.pi1 = Popped(c.sec, c.idx, n), !.rho1 = rho1]
(* Mutant: only pi_0's table is asked whether the shuffles exist.          *)
DoubleThrowsPi0(c, g) ==
  LET t == Grown(c.perms, g.param) IN
  /\ NewPerm(c.perms, g.param)
  /\ \E m \in {g.param2, g.param3} : m < Len(t) => Size0(t[m + 1].pi0)
(* The two underlying shuffles must have been prepared before.  The table  *)
(* has already grown by then.                                              *)
DoubleThrows(c, g) ==
  LET t == Grown(c.perms, g.param) IN
  /\ NewPerm(c.perms, g.param)
  /\ \E m \in {g.param2, g.param3} : NewPerm(t, m)
(* Mutant: party 1 does not count the words of pi'_0 it consumes.          *)
PrepareDoubleNoCount(p, c, g) ==
  IF ~ NewPerm(c.perms, g.param) THEN c
  ELSE LET e == DoubleEntry(p, c, g) IN
       [Draw(p, c, g.n, g.n) EXCEPT
          !.perms    = SetEntry(@, g.param, e),
          !.sec      = IF p = 0 THEN @ \o Pushed(e.pi1, g.n) ELSE @,
          !.secToOne = IF p = 0 THEN @ \o Pushed(e.rho0, g.n) ELSE @,
          !.idx      = IF p = 2 THEN @ + g.n ELSE @]
PrepareDouble(p, c, g) ==
  IF ~ NewPerm(c.perms, g.param) THEN c
  ELSE LET e == DoubleEntry(p, c, g) IN
       [Draw(p, c, g.n, g.n) EXCEPT
          !.perms    = SetEntry(@, g.param, e),
          !.sec      = IF p = 0 THEN @ \o Pushed(e.pi1, g.n) ELSE @,
          !.secToOne = IF p = 0 THEN @ \o Pushed(e.rho0, g.n) ELSE @,
          !.idx      = IF p = 0 THEN @ ELSE @ + g.n]
-----------------------------------------------------------------------------
(* Every invocation of a (double) shuffle has masks R_0 and R_1 of its own *)
(* and the shares B_0, B_1 of their image under the permutation.           *)
Masks(p, c, n) ==
  [m0 |-> IF p # 2 THEN [j \in Idx(n) |-> RingWord("p01", c.p01 + j)] ELSE NoVec,
   m1 |-> IF p # 1 THEN [j \in Idx(n) |-> RingWord("p02", c.p02 + j)] ELSE NoVec]
HelperB0(c, g) ==
  LET pi  == Composed(c.perms[g.param + 1], g.n)
      inv == InverseOf(pi, g.n)
      m   == Masks(0, c, g.n).m0
      B(i, j) == Minus(m[i], RingWord("self", c.self + j))
  IN  IF g.reverse THEN [j \in Idx(g.n) |-> B(pi[j], j)]
                   ELSE [i \in Idx(g.n) |-> B(inv[i], inv[i])]
HelperB1(c, g) ==
  LET pi  == Composed(c.perms[g.param + 1], g.n)
      inv == InverseOf(pi, g.n)
      m   == Masks(0, c, g.n).m1
      B(i, j) == Plus(m[i], RingWord("self", c.self + j))
  IN  IF g.reverse THEN [j \in Idx(g.n) |-> B(pi[j], j)]
                   ELSE [i \in Idx(g.n) |-> B(inv[i], inv[i])]

MaskedShuffle(p, c, g) ==
  [kind |-> "shuffle", param |-> g.param, reverse |-> g.reverse,
   mask |-> IF p = 1 THEN Masks(p, c, g.n).m0 ELSE Masks(p, c, g.n).m1,
   b    |-> CASE p = 0 -> NoVec
              [] p = 1 -> Popped(c.secToOne, c.idx, g.n)
              [] OTHER -> Popped(c.sec, c.idx, g.n)]
AfterMasks(p, c, g) ==
  [Draw(p, c, g.n, g.n) EXCEPT
     !.self     = IF p = 0 THEN @ + g.n ELSE @,
     !.secToOne = IF p = 0 THEN @ \o Pushed(HelperB0(c, g), g.n) ELSE @,
     !.sec      = IF p = 0 THEN @ \o Pushed(HelperB1(c, g), g.n) ELSE @,
     !.idx      = IF p = 0 THEN @ ELSE @ + g.n]
-----------------------------------------------------------------------------
(* setWireMasksParty: one action per kind of gate.  A party that still     *)
(* walks is at gate At(p).                                                 *)
At(p) == Len(preproc[p]) + 1
G(p)  == gates[At(p)]
Walking(p, types) == /\ pc[p] = "walk"
                     /\ At(p) <= Len(gates)
                     /\ G(p).type \in types

Positions(c) == [p01 |-> c.p01, p02 |-> c.p02,
                 sec |-> Len(c.sec), secToOne |-> Len(c.secToOne)]

(* The helper keeps no preprocessed data (`if (id_ != 0)').                *)
Store(p, data, c) ==
  /\ preproc' = [preproc EXCEPT ![p] =
                   Append(@, IF p = 0 THEN [kind |-> "empty"] ELSE data)]
  /\ ctx' = [ctx EXCEPT ![p] = c]
  /\ ledger' = IF p = 0 THEN Append(ledger, Positions(c)) ELSE ledger
  /\ UNCHANGED <<gates, tape, pc, wire, expect, off>>

DealTriple(p) ==
  /\ Walking(p, ArithTriple \cup BinTriple)
  /\ LET bin == G(p).type \in BinTriple IN
     Store(p, Triples(p, ctx[p], bin, 1), AfterTriples(p, ctx[p], bin, 1))

DealCompaction(p) ==
  /\ Walking(p, {"GenCompaction"})
  /\ Store(p, Triples(p, ctx[p], FALSE, G(p).n),
              AfterTriples(p, ctx[p], FALSE, G(p).n))

DealShuffle(p) ==
  /\ Walking(p, {"Shuffle"})
  /\ \E c \in {PrepareShuffle(p, ctx[p], G(p))} :
     Store(p, MaskedShuffle(p, c, G(p)), AfterMasks(p, c, G(p)))

DealDouble(p) ==
  /\ Walking(p, {"DoubleShuffle"})
  /\ ~ DoubleThrows(ctx[p], G(p))
  /\ \E c \in {PrepareDouble(p, ctx[p], G(p))} :
     Store(p, MaskedShuffle(p, c, G(p)), AfterMasks(p, c, G(p)))

(* throw std::runtime_error: the party sends and receives nothing more.    *)
ThrowDouble(p) ==
  /\ Walking(p, {"DoubleShuffle"})
  /\ DoubleThrows(ctx[p], G(p))
  /\ pc' = [pc EXCEPT ![p] = "threw"]
  /\ ctx' = [ctx EXCEPT ![p].perms = Grown(@, G(p).param)]
  /\ UNCHANGED <<gates, tape, preproc, wire, expect, off, ledger>>

(* Input gates remember their owner, local gates need nothing.             *)
DealInput(p) ==
  /\ Walking(p, InputGate)
  /\ preproc' = [preproc EXCEPT ![p] =
                   Append(@, [kind |-> "input", pid |-> G(p).owner])]
  /\ ledger' = IF p = 0 THEN Append(ledger, Positions(ctx[0])) ELSE ledger
  /\ UNCHANGED <<gates, tape, pc, ctx, wire, expect, off>>

SkipLocal(p) ==
  /\ Walking(p, {"Local"})
  /\ Store(p, [kind |-> "empty"], ctx[p])

EndWalk(p) ==
  /\ pc[p] = "walk"
  /\ At(p) > Len(gates)
  /\ pc' = [pc EXCEPT ![p] = IF p = 0 THEN "lengths" ELSE "done"]
  /\ UNCHANGED <<gates, tape, ctx, preproc, wire, expect, off, ledger>>
-----------------------------------------------------------------------------
(* setWireMasks: after its walk the helper sends party 2 six lengths,      *)
(* party 1 one, then the dealt words in chunks, first to 2, then to 1.     *)
Outgoing(q) == IF q = 2 THEN ctx[0].sec ELSE ctx[0].secToOne
Put(q, words) == wire' = [wire EXCEPT ![q] = @ \o words]

SendLengths ==
  /\ pc[0] = "lengths"
  /\ LET n == Len(ctx[0].sec) IN Put(2, <<n, n, 0, 0, 0, 0>>)
  /\ pc' = [pc EXCEPT ![0] = "lengthToOne"]
  /\ UNCHANGED <<gates, tape, ctx, preproc, expect, off, ledger>>

(* Mutant: party 1 is told the number of party 2's words.                  *)
SendLengthToOneWrong ==
  /\ pc[0] = "lengthToOne"
  /\ Put(1, <<Len(ctx[0].sec)>>)
  /\ pc' = [pc EXCEPT ![0] = "data2"]
  /\ UNCHANGED <<gates, tape, ctx, preproc, expect, off, ledger>>
SendLengthToOne ==
  /\ pc[0] = "lengthToOne"
  /\ Put(1, <<Len(ctx[0].secToOne)>>)
  /\ pc' = [pc EXCEPT ![0] = "data2"]
  /\ UNCHANGED <<gates, tape, ctx, preproc, expect, off, ledger>>

DataPhase(q) == IF q = 2 THEN "data2" ELSE "data1"
SendChunk(q) ==
  /\ pc[0] = DataPhase(q)
  /\ off + ChunkSize <= Len(Outgoing(q))
  /\ Put(q, SubSeq(Outgoing(q), off + 1, off + ChunkSize))
  /\ off' = off + ChunkSize
  /\ UNCHANGED <<gates, tape, pc, ctx, preproc, expect, ledger>>
SendLast(q) ==
  /\ pc[0] = DataPhase(q)
  /\ off + ChunkSize > Len(Outgoing(q))
  /\ Put(q, SubSeq(Outgoing(q), off + 1, Len(Outgoing(q))))
  /\ off' = 0
  /\ pc' = [pc EXCEPT ![0] = IF q = 2 THEN "data1" ELSE "done"]
  /\ UNCHANGED <<gates, tape, ctx, preproc, expect, ledger>>

(* recv blocks until as many words as asked for have arrived.              *)
Arrived(q, n) == Len(wire[q]) >= n
Rest(q, n)    == wire' = [wire EXCEPT ![q] = SubSeq(@, n + 1, Len(@))]
(* Mutant: party 2 reads only the first five lengths.                      *)
LengthWordsFive(q) == IF q = 2 THEN 5 ELSE 1
LengthWords(q) == IF q = 2 THEN 6 ELSE 1

RecvLength(q) ==
  /\ pc[q] = "length"
  /\ Arrived(q, LengthWords(q))
  /\ expect' = [expect EXCEPT ![q] = wire[q][1]]
  /\ Rest(q, LengthWords(q))
  /\ pc' = [pc EXCEPT ![q] = "data"]
  /\ UNCHANGED <<gates, tape, ctx, preproc, off, ledger>>

Received(q) == IF q = 2 THEN ctx[q].sec ELSE ctx[q].secToOne
Keep(q, n) ==
  ctx' = IF q = 2 THEN [ctx EXCEPT ![q].sec = @ \o SubSeq(wire[q], 1, n)]
                  ELSE [ctx EXCEPT ![q].secToOne = @ \o SubSeq(wire[q], 1, n)]
RecvChunk(q) ==
  /\ pc[q] = "data"
  /\ Len(Received(q)) + ChunkSize <= expect[q]
  /\ Arrived(q, ChunkSize)
  /\ Keep(q, ChunkSize)
  /\ Rest(q, ChunkSize)
  /\ UNCHANGED <<gates, tape, pc, preproc, expect, off, ledger>>
RecvLast(q) ==
  /\ pc[q] = "data"
  /\ LET n == expect[q] - Len(Received(q)) IN
     /\ n < ChunkSize
     /\ Arrived(q, n)
     /\ Keep(q, n)
     /\ Rest(q, n)
  /\ pc' = [pc EXCEPT ![q] = "walk"]
  /\ UNCHANGED <<gates, tape, preproc, expect, off, ledger>>
-----------------------------------------------------------------------------
FreshCtx == [p01 |-> 0, p02 |-> 0, self |-> 0, idx |-> 0,
             sec |-> <<>>, secToOne |-> <<>>, perms |-> <<>>]

Init ==
  /\ gates \in Circuits
  /\ tape \in Tapes
  /\ pc = [p \in Party |-> IF p = 0 THEN "walk" ELSE "length"]
  /\ ctx = [p \in Party |-> FreshCtx]
  /\ preproc = [p \in Party |-> <<>>]
  /\ wire = [q \in Online |-> <<>>]
  /\ expect = [q \in Online |-> 0]
  /\ off = 0
  /\ ledger = <<>>

Walk(p) == \/ DealTriple(p)  \/ DealCompaction(p) \/ DealShuffle(p)
           \/ DealDouble(p)  \/ ThrowDouble(p)    \/ DealInput(p)
           \/ SkipLocal(p)   \/ EndWalk(p)
Send == \/ SendLengths \/ SendLengthToOne
        \/ \E q \in Online : SendChunk(q) \/ SendLast(q)
Recv(q) == RecvLength(q) \/ RecvChunk(q) \/ RecvLast(q)

Next == \/ \E p \in Party : Walk(p)
        \/ Send
        \/ \E q \in Online : Recv(q)

Spec == Init /\ [][Next]_vars

(* Each party is one process that runs until it blocks in recv.            *)
Fairness == /\ \A p \in Party : WF_vars(Walk(p))
            /\ WF_vars(Send)
            /\ \A q \in Online : WF_vars(Recv(q))
FairSpec == Spec /\ Fairness
-----------------------------------------------------------------------------
Vec == UNION {[Idx(n) -> Ring] : n \in 0 .. Modulus}
Entry == [pi0 : Vec, pi1 : Vec, rho0 : Vec, rho1 : Vec]
Ctx == [p01 : Nat, p02 : Nat, self : Nat, idx : Nat,
        sec : Seq(Ring), secToOne : Seq(Ring), perms : Seq(Entry)]
PreprocGate ==
  [kind : {"empty"}] \cup [kind : {"input"}, pid : Online]
  \cup [kind : {"triples"}, bin : BOOLEAN, a : Vec, b : Vec, c : Vec]
  \cup [kind : {"shuffle"}, param : Nat, reverse : BOOLEAN, mask : Vec, b : Vec]

Phase == {"walk", "threw", "done", "lengths", "lengthToOne", "data2", "data1",
          "length", "data"}

(* Every variable holds a value of the kind the code declares: cursors and *)
(* indices count, dealt words are Ring words, tables hold vectors of them. *)
TypeOK ==
  /\ gates \in Circuits /\ tape \in Tapes
  /\ pc \in [Party -> Phase]
  /\ ctx \in [Party -> Ctx]
  /\ preproc \in [Party -> Seq(PreprocGate)]
  /\ wire \in [Online -> Seq(Nat)]
  /\ expect \in [Online -> Nat] /\ off \in Nat
  /\ ledger \in Seq([p01 : Nat, p02 : Nat, sec : Nat, secToOne : Nat])

ZeroPositions == [p01 |-> 0, p02 |-> 0, sec |-> 0, secToOne |-> 0]
HelperBefore(k) == IF k = 1 THEN ZeroPositions ELSE ledger[k - 1]

(* Whenever party 1 or 2 reaches a gate, its position in the stream shared *)
(* with the helper and in the dealt words is the helper's position when it *)
(* reached that gate: the id_-dependent branches of setWireMasksParty draw *)
(* and consume in lockstep although the walks run at different times.      *)
StreamsInStep ==
  /\ pc[1] \in {"walk", "done", "threw"} =>
       /\ At(1) <= Len(ledger) + 1
       /\ ctx[1].p01 = HelperBefore(At(1)).p01
       /\ ctx[1].idx = HelperBefore(At(1)).secToOne
  /\ pc[2] \in {"walk", "done", "threw"} =>
       /\ At(2) <= Len(ledger) + 1
       /\ ctx[2].p02 = HelperBefore(At(2)).p02
       /\ ctx[2].idx = HelperBefore(At(2)).sec

(* rand_sh_sec[idx++] never reads past the words the helper dealt, and a   *)
(* party that has finished its walk has consumed every one of them.        *)
DealtInBounds ==
  \A q \in Online : /\ ctx[q].idx <= Len(Received(q))
                    /\ pc[q] = "done" => ctx[q].idx = Len(Received(q))

(* The helper copies rand_sh_sec_to_1 into a buffer sized for rand_sh_sec  *)
(* (offline_arith_comm_to_1(arith_comm)); the copy stays inside it because *)
(* party 1 is never dealt more words than party 2.                         *)
HelperBufferFits == Len(ctx[0].secToOne) <= Len(ctx[0].sec)

Both == IF Len(preproc[1]) <= Len(preproc[2]) THEN 1 .. Len(preproc[1])
                                              ELSE 1 .. Len(preproc[2])

(* The parties' shares of every triple are a sharing of a, b and a * b     *)
(* (a & b for the Boolean gates).                                          *)
TriplesCorrect ==
  \A k \in Both : preproc[1][k].kind = "triples" =>
    LET t1 == preproc[1][k]
        t2 == preproc[2][k]
        Add(x, y) == IF t1.bin THEN XorW(x, y) ELSE Plus(x, y)
        Mult(x, y) == IF t1.bin THEN AndW(x, y) ELSE Times(x, y)
    IN  /\ t2.kind = "triples"
        /\ \A j \in DOMAIN t1.a :
             Mult(Add(t1.a[j], t2.a[j]), Add(t1.b[j], t2.b[j]))
               = Add(t1.c[j], t2.c[j])

(* The permutation named m as the online parties hold it: pi_0 at party 1, *)
(* pi_1 at party 2.                                                        *)
Joint(m, n) == [j \in Idx(n) |-> ctx[1].perms[m + 1].pi0[ctx[2].perms[m + 1].pi1[j]]]

(* A prepared double shuffle undoes the shuffle param2 and applies param3. *)
DoubleComposes ==
  \A k \in Both : gates[k].type = "DoubleShuffle" =>
    LET g == gates[k] IN
    \A j \in Idx(g.n) :
      Joint(g.param, g.n)[Joint(g.param2, g.n)[j]] = Joint(g.param3, g.n)[j]

(* For every shuffle both online parties have prepared, the two orders in  *)
(* which they can apply their halves agree, pi_0 pi_1 = pi'_1 pi'_0,       *)
(* B_0 + B_1 is the image of R_0 + R_1 (its preimage in reverse mode), and *)
(* double shuffles are made of the shuffles they stand for.                *)
ShufflesCorrelated ==
  /\ DoubleComposes
  /\ \A k \in Both : preproc[1][k].kind = "shuffle" =>
     LET s1 == preproc[1][k]
         s2 == preproc[2][k]
         g  == gates[k]
         pi == Joint(g.param, g.n)
         e1 == ctx[1].perms[g.param + 1]
         e2 == ctx[2].perms[g.param + 1]
     IN  /\ IsPermutation(pi, g.n)
         /\ \A j \in Idx(g.n) : e2.rho1[e1.rho0[j]] = pi[j]
         /\ \A j \in Idx(g.n) :
              LET from == IF g.reverse THEN pi[j] ELSE j
                  to   == IF g.reverse THEN j ELSE pi[j]
              IN  Plus(s1.b[to], s2.b[to]) = Plus(s1.mask[from], s2.mask[from])

(* Only the helper can meet a double shuffle whose shuffles are missing;   *)
(* the online parties, whose tables hold other halves, never do: they only *)
(* walk a circuit the helper got through.                                  *)
OnlineNeverThrows == \A q \in Online : pc[q] # "threw"

(* A party that walks has every word the helper dealt to it, in the order  *)
(* dealt, and once the helper is done as well no word is left on the byte  *)
(* stream for a later recv to misread.                                     *)
WordsArrive ==
  \A q \in Online : pc[q] \in {"walk", "done"} =>
    /\ Received(q) = Outgoing(q)
    /\ pc[0] = "done" => wire[q] = <<>>

(* A permutation that has been generated is never generated again: later   *)
(* gates of the same name, and reverse shuffles, reuse it.                 *)
PermsWriteOnce ==
  [][\A p \in Party : \A m \in 1 .. Len(ctx[p].perms) :
       ctx[p].perms[m] # NoEntry => ctx'[p].perms[m] = ctx[p].perms[m]]_vars

(* Unless the helper throws, all three parties finish the preprocessing.   *)
Completes == <>(pc[0] = "threw" \/ \A p \in Party : pc[p] = "done")
=============================================================================
