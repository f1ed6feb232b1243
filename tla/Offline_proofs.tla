--------------------------- MODULE Offline_proofs ---------------------------
(***************************************************************************)
(* The invariant of the preprocessing, proved for every circuit, width,    *)
(* chunk size and output of the generators, and the properties that follow *)
(* from it: the walks of the three parties stay in step, and every dealt   *)
(* word arrives and is consumed where it was meant to be.                  *)
(*                                                                         *)
(* First come lemmas about the operators Offline is built from: random     *)
(* permutations are permutations, tables change in one entry only, and     *)
(* each gate advances the cursors of a party by what Used says, for every  *)
(* width of the ring, every length and every output of the generators.     *)
(***************************************************************************)
EXTENDS OfflineInv, Facts, SequenceTheorems

-----------------------------------------------------------------------------

(* Ring words and their arithmetic.                                        *)
LEMMA RingClosed ==
  /\ 0 \in Ring
  /\ \A x \in Nat : Trunc(x) \in Ring
  /\ \A x, y \in Ring : Plus(x, y) \in Ring /\ Minus(x, y) \in Ring
  /\ \A x, y \in Ring : Times(x, y) \in Ring
<1>1. \A x \in Int : x % Modulus \in Ring
  BY ModulusAssumption DEF Ring
<1>2. \A x, y \in Ring : x + y \in Int /\ x - y \in Int
  BY ModulusAssumption DEF Ring
<1>3. \A x, y \in Ring : x * y \in Int
  BY ModulusAssumption DEF Ring
<1>. QED  BY <1>1, <1>2, <1>3, ModulusAssumption DEF Ring, Trunc, Plus, Minus, Times

LEMMA WordsTyped ==
  ASSUME tape \in Tapes, NEW s \in Stream, NEW k \in Nat
  PROVE  Word(s, k) \in Nat /\ RingWord(s, k) \in Ring
<1>1. k % TapeLen \in 0 .. (TapeLen - 1)
  BY TapeAssumption
<1>2. Word(s, k) \in Nat
  BY <1>1, TapeAssumption DEF Word
<1>. QED  BY <1>2, RingClosed DEF RingWord

-----------------------------------------------------------------------------
(* A swap, and so a Fisher-Yates shuffle, yields a permutation.            *)
LEMMA SwapPermutation ==
  ASSUME NEW n \in Nat, NEW f, IsPermutation(f, n),
         NEW i \in Idx(n), NEW j \in Idx(n)
  PROVE  IsPermutation(Swap(f, i, j), n)
<1> DEFINE h == Swap(f, i, j)
<1>1. f \in [Idx(n) -> Idx(n)]
  BY DEF IsPermutation
<1>2. h \in [Idx(n) -> Idx(n)]
  BY <1>1 DEF Swap
<1>3. \A a \in Idx(n) : h[a] = IF a = j THEN f[i] ELSE IF a = i THEN f[j] ELSE f[a]
  BY <1>1 DEF Swap
<1>4. \A a, b \in Idx(n) : h[a] = h[b] => a = b
  BY <1>3, <1>1 DEF IsPermutation
<1>. QED  BY <1>2, <1>4 DEF IsPermutation

(* The recursive function inside RandomPerm.                               *)
Partner(s, k, n, j) == (j - 1) + (Word(s, k + j - 1) % (n - (j - 1)))
Steps(s, k, n) ==
  CHOOSE f : f = [j \in 0 .. n |->
                    IF j = 0 THEN [i \in Idx(n) |-> i]
                    ELSE Swap(f[j - 1], j - 1, Partner(s, k, n, j))]

LEMMA RandomPermSteps ==
  ASSUME NEW s, NEW k, NEW n
  PROVE  RandomPerm(s, k, n) = Steps(s, k, n)[n]
BY DEF RandomPerm, Steps, Partner

(* It exists: a function for one more step extends the one before.         *)
LEMMA StepsUnfold ==
  ASSUME NEW s, NEW k, NEW n \in Nat
  PROVE  Steps(s, k, n) =
           [j \in 0 .. n |-> IF j = 0 THEN [i \in Idx(n) |-> i]
                             ELSE Swap(Steps(s, k, n)[j - 1], j - 1, Partner(s, k, n, j))]
<1> DEFINE Def(f, m) == f = [j \in 0 .. m |->
                    IF j = 0 THEN [i \in Idx(n) |-> i]
                    ELSE Swap(f[j - 1], j - 1, Partner(s, k, n, j))]
           T == {m \in Nat : \E f : Def(f, m)}
<1>1. 0 \in T
  <2>1. Def([j \in 0 .. 0 |-> [i \in Idx(n) |-> i]], 0)
    OBVIOUS
  <2>. QED  BY <2>1
<1>2. ASSUME NEW m \in T PROVE m + 1 \in T
  <2>1. PICK f : Def(f, m)
    OBVIOUS
  <2> DEFINE g == [j \in 0 .. (m + 1) |->
                     IF j = m + 1 THEN Swap(f[m], m, Partner(s, k, n, m + 1)) ELSE f[j]]
  <2>2. \A j \in 0 .. m : g[j] = f[j]
    OBVIOUS
  <2>3. \A j \in 0 .. (m + 1) :
          g[j] = IF j = 0 THEN [i \in Idx(n) |-> i]
                 ELSE Swap(g[j - 1], j - 1, Partner(s, k, n, j))
    <3> TAKE j \in 0 .. (m + 1)
    <3>1. CASE j = m + 1
      <4>1. g[j - 1] = f[m] /\ j # 0 /\ j - 1 = m
        BY <3>1
      <4>. QED  BY <4>1, <3>1
    <3>2. CASE j # m + 1
      <4>1. j \in 0 .. m
        BY <3>2
      <4>2. g[j] = f[j]
        BY <4>1, <2>2
      <4>3. j # 0 => g[j - 1] = f[j - 1]
        BY <4>1
      <4>4. f[j] = IF j = 0 THEN [i \in Idx(n) |-> i]
                   ELSE Swap(f[j - 1], j - 1, Partner(s, k, n, j))
        BY <4>1, <2>1
      <4>. QED  BY <4>2, <4>3, <4>4
    <3>. QED  BY <3>1, <3>2
  <2>4. Def(g, m + 1)
    BY <2>3
  <2> HIDE DEF g, Def
  <2>5. m + 1 \in Nat
    OBVIOUS
  <2>. QED  BY <2>4, <2>5
<1>3. n \in T
  <2> HIDE DEF T
  <2>1. T \in SUBSET Nat
    BY DEF T
  <2>. QED  BY <1>1, <1>2, <2>1, NatInd
<1>4. \E f : Def(f, n)
  BY <1>3
<1>. QED  BY <1>4 DEF Steps

(* Fisher-Yates: RandomPerm is a permutation, whatever the generator says. *)
LEMMA RandomPermIsPermutation ==
  ASSUME tape \in Tapes, NEW s \in Stream, NEW k \in Nat, NEW n \in Nat
  PROVE  IsPermutation(RandomPerm(s, k, n), n)
<1> DEFINE F(j) == Steps(s, k, n)[j]
           T == {m \in Nat : m <= n => IsPermutation(F(m), n)}
<1>0. /\ F(0) = [i \in Idx(n) |-> i]
      /\ \A j \in 1 .. n : F(j) = Swap(F(j - 1), j - 1, Partner(s, k, n, j))
  <2> DEFINE S == Steps(s, k, n)
  <2>1. S = [j \in 0 .. n |-> IF j = 0 THEN [i \in Idx(n) |-> i]
                             ELSE Swap(S[j - 1], j - 1, Partner(s, k, n, j))]
    BY StepsUnfold
  <2> HIDE DEF S
  <2>2. \A j \in 0 .. n : S[j] = IF j = 0 THEN [i \in Idx(n) |-> i]
                                ELSE Swap(S[j - 1], j - 1, Partner(s, k, n, j))
    BY <2>1, Zenon
  <2>3. S[0] = [i \in Idx(n) |-> i]
    BY <2>2
  <2>4. ASSUME NEW j \in 1 .. n
        PROVE  S[j] = Swap(S[j - 1], j - 1, Partner(s, k, n, j))
    <3>1. j \in 0 .. n /\ j # 0
      OBVIOUS
    <3>. QED  BY <3>1, <2>2
  <2>. QED  BY <2>3, <2>4 DEF S
<1>1. 0 \in T
  BY <1>0 DEF IsPermutation, Idx
<1>2. ASSUME NEW m \in T PROVE m + 1 \in T
  <2> SUFFICES ASSUME m + 1 <= n PROVE IsPermutation(F(m + 1), n)
    OBVIOUS
  <2>1. F(m + 1) = Swap(F(m), m, Partner(s, k, n, m + 1))
    <3>1. m + 1 \in 1 .. n /\ (m + 1) - 1 = m
      OBVIOUS
    <3>. QED  BY <3>1, <1>0
  <2>2. IsPermutation(F(m), n)
    OBVIOUS
  <2>3. m \in Idx(n) /\ Partner(s, k, n, m + 1) \in Idx(n)
    <3>1. Word(s, k + m) \in Nat /\ n - m \in Nat \ {0}
      BY WordsTyped
    <3>2. Word(s, k + m) % (n - m) \in 0 .. (n - m - 1)
      <4> DEFINE w == Word(s, k + m)
                 d == n - m
      <4>1. w \in Nat /\ d \in Nat \ {0}
        BY <3>1
      <4> HIDE DEF w, d
      <4>2. w % d \in 0 .. (d - 1)
        BY <4>1
      <4>. QED  BY <4>2 DEF w, d
    <3>3. m + 1 - 1 = m /\ k + (m + 1) - 1 = k + m
      OBVIOUS
    <3>. QED  BY <3>2, <3>3 DEF Partner, Idx
  <2>. QED  BY <2>1, <2>2, <2>3, SwapPermutation
<1>3. n \in T
  <2> HIDE DEF T
  <2>1. T \in SUBSET Nat
    BY DEF T
  <2>. QED  BY <1>1, <1>2, <2>1, NatInd
<1>. QED  BY <1>3, RandomPermSteps

-----------------------------------------------------------------------------
(* Permutations of Idx(n) are onto, have an inverse, and compose.          *)
LEMMA PermutationOnto ==
  ASSUME NEW n \in Nat, NEW f, IsPermutation(f, n), NEW y \in Idx(n)
  PROVE  \E x \in Idx(n) : f[x] = y
<1>1. IsFiniteSet(Idx(n))
  BY FS_Interval DEF Idx
<1>2. f \in Injection(Idx(n), Idx(n))
  BY DEF IsPermutation, Injection, IsInjective
<1>3. f \in Surjection(Idx(n), Idx(n))
  BY <1>1, <1>2, FS_Injection
<1>. QED  BY <1>3 DEF Surjection

LEMMA InverseIsPermutation ==
  ASSUME NEW n \in Nat, NEW f, IsPermutation(f, n)
  PROVE  /\ IsPermutation(InverseOf(f, n), n)
         /\ \A j \in Idx(n) : InverseOf(f, n)[f[j]] = j /\ f[InverseOf(f, n)[j]] = j
<1> DEFINE g == [y \in Idx(n) |-> CHOOSE x \in Idx(n) : f[x] = y]
           h == InverseOf(f, n)
<1>1. \A y \in Idx(n) : g[y] \in Idx(n) /\ f[g[y]] = y
  BY PermutationOnto
<1>2. f \in [Idx(n) -> Idx(n)] /\ \A i, j \in Idx(n) : f[i] = f[j] => i = j
  BY DEF IsPermutation
<1>3. g \in [Idx(n) -> Idx(n)] /\ \A j \in Idx(n) : g[f[j]] = j
  <2> HIDE DEF g
  <2>1. g \in [Idx(n) -> Idx(n)]
    BY <1>1 DEF g
  <2>. QED  BY <2>1, <1>1, <1>2
<1>4. h \in [Idx(n) -> Idx(n)] /\ \A j \in Idx(n) : h[f[j]] = j
  <2> HIDE DEF g
  <2>. QED  BY <1>3 DEF InverseOf
<1>5. \A j \in Idx(n) : f[h[j]] = j
  <2> HIDE DEF h
  <2>. QED  BY <1>2, <1>4, PermutationOnto
<1>6. \A i, j \in Idx(n) : h[i] = h[j] => i = j
  <2> HIDE DEF h
  <2>. QED  BY <1>5
<1>. QED  BY <1>4, <1>5, <1>6 DEF IsPermutation

LEMMA ComposeIsPermutation ==
  ASSUME NEW n \in Nat, NEW f, NEW g, IsPermutation(f, n), IsPermutation(g, n)
  PROVE  IsPermutation([j \in Idx(n) |-> f[g[j]]], n)
BY DEF IsPermutation

LEMMA PermutationIsVec ==
  ASSUME NEW n \in Nat, n <= Modulus, NEW f, IsPermutation(f, n)
  PROVE  f \in [Idx(n) -> Ring]
<1>1. Idx(n) \subseteq Ring
  BY ModulusAssumption DEF Idx, Ring
<1>. QED  BY <1>1 DEF IsPermutation

LEMMA VecOfSize ==
  ASSUME NEW n \in Nat, n <= Modulus, NEW f \in [Idx(n) -> Ring]
  PROVE  f \in Vec
BY ModulusAssumption DEF Vec

LEMMA NoVecIsVec == NoVec \in Vec /\ DOMAIN NoVec = {} /\ NoEntry \in Entry
<1>1. NoVec \in [Idx(0) -> Ring] /\ DOMAIN NoVec = {}
  BY DEF NoVec, Idx
<1>2. NoVec \in Vec
  BY <1>1, ModulusAssumption DEF Vec
<1>. QED  BY <1>1, <1>2 DEF NoEntry, Entry

(* Dealt words as vectors and back.                                        *)
LEMMA PushedSeq ==
  ASSUME NEW n \in Nat, NEW v \in [Idx(n) -> Ring]
  PROVE  /\ Pushed(v, n) \in Seq(Ring)
         /\ Len(Pushed(v, n)) = n
         /\ \A i \in 1 .. n : Pushed(v, n)[i] = v[i - 1]
BY DEF Pushed, Idx

LEMMA DealtMore ==
  ASSUME NEW a \in Seq(Ring), NEW b \in Seq(Ring)
  PROVE  a \o b \in Seq(Ring) /\ Len(a \o b) = Len(a) + Len(b)
OBVIOUS

LEMMA PoppedVec ==
  ASSUME NEW s \in Seq(Ring), NEW i \in Nat, NEW n \in Nat
  PROVE  Popped(s, i, n) \in [Idx(n) -> Ring]
<1>1. \A j \in Idx(n) : WordAt(s, i + j) \in Ring
  BY RingClosed DEF WordAt, Idx
<1>. QED  BY <1>1 DEF Popped

(* What the assumptions say of the gates of the circuit that is run.       *)
LEMMA GateFacts ==
  ASSUME gates \in Circuits, NEW k \in 1 .. Len(gates)
  PROVE  /\ gates \in Seq(Gate) /\ gates[k] \in Gate
         /\ gates[k].n \in Nat /\ gates[k].n <= Modulus
         /\ gates[k].type \in ArithTriple \cup BinTriple => gates[k].n = 1
         /\ gates[k].type = "DoubleShuffle" => gates[k].reverse = FALSE
<1>1. gates \in Seq(Gate) /\ gates[k] \in Gate
  BY CircuitAssumption
<1>2. /\ gates[k].n <= Modulus
      /\ gates[k].type \in ArithTriple \cup BinTriple => gates[k].n = 1
      /\ gates[k].type = "DoubleShuffle" => ~ gates[k].reverse
  BY CircuitAssumption
<1>3. gates[k].n \in Nat /\ gates[k].reverse \in BOOLEAN
  BY <1>1 DEF Gate
<1>. QED  BY <1>1, <1>2, <1>3

LEMMA AgreeFacts ==
  ASSUME gates \in Circuits, NEW i \in 1 .. Len(gates), NEW k \in 1 .. Len(gates),
         NEW m \in PermNames(gates[i]), m \in PermNames(gates[k])
  PROVE  gates[i].n = gates[k].n
BY CircuitAssumption DEF NamesAgree

LEMMA NameFacts ==
  ASSUME gates \in Circuits, NEW k \in 1 .. Len(gates)
  PROVE  /\ Names \subseteq Nat
         /\ PermNames(gates[k]) \subseteq Names
         /\ gates[k].type \in ShuffleGate => gates[k].param \in PermNames(gates[k])
         /\ gates[k].type = "DoubleShuffle" =>
              {gates[k].param2, gates[k].param3} \subseteq PermNames(gates[k])
<1>1. \A i \in 1 .. Len(gates) : PermNames(gates[i]) \subseteq Nat
  BY GateFacts DEF PermNames, Gate
<1>. QED  BY <1>1 DEF Names, PermNames, ShuffleGate

-----------------------------------------------------------------------------
(* The tables.                                                             *)
LEMMA GrownFacts ==
  ASSUME NEW perms \in Seq(Entry), NEW x \in Nat
  PROVE  /\ Grown(perms, x) \in Seq(Entry)
         /\ Len(Grown(perms, x)) > x
         /\ \A m \in Nat : /\ NewPerm(Grown(perms, x), m) <=> NewPerm(perms, m)
                           /\ m < Len(perms) => /\ m < Len(Grown(perms, x))
                                                /\ Grown(perms, x)[m + 1] = perms[m + 1]
<1> DEFINE g == Grown(perms, x)
           l == IF x < Len(perms) THEN Len(perms) ELSE x + 1
<1>1. l \in Nat /\ l > x /\ l >= Len(perms)
  OBVIOUS
<1>2. /\ g \in Seq(Entry) /\ Len(g) = l
      /\ \A i \in 1 .. l : g[i] = IF i <= Len(perms) THEN perms[i] ELSE NoEntry
  BY <1>1, NoVecIsVec DEF Grown
<1> HIDE DEF g, l
<1>3. ASSUME NEW m \in Nat
      PROVE  /\ NewPerm(g, m) <=> NewPerm(perms, m)
             /\ m < Len(perms) => m < Len(g) /\ g[m + 1] = perms[m + 1]
  <2>1. m < Len(perms) => m < Len(g) /\ g[m + 1] = perms[m + 1]
    BY <1>1, <1>2
  <2>2. m < Len(g) /\ ~ (m < Len(perms)) => g[m + 1] = NoEntry
    BY <1>1, <1>2
  <2>3. Size0(NoEntry.pi0) /\ Size0(NoEntry.pi1)
    BY NoVecIsVec DEF NoEntry, Size0
  <2>. QED  BY <2>1, <2>2, <2>3 DEF NewPerm, Unfilled
<1>. QED  BY <1>1, <1>2, <1>3 DEF g

LEMMA SetEntryFacts ==
  ASSUME NEW perms \in Seq(Entry), NEW x \in Nat, NEW e \in Entry
  PROVE  /\ SetEntry(perms, x, e) \in Seq(Entry)
         /\ SetEntry(perms, x, e)[x + 1] = e
         /\ NewPerm(SetEntry(perms, x, e), x) <=> Size0(e.pi0) /\ Size0(e.pi1)
         /\ \A m \in Nat \ {x} :
              /\ NewPerm(SetEntry(perms, x, e), m) <=> NewPerm(perms, m)
              /\ ~ NewPerm(perms, m) => SetEntry(perms, x, e)[m + 1] = perms[m + 1]
<1> DEFINE g == Grown(perms, x)
           h == SetEntry(perms, x, e)
<1>1. /\ g \in Seq(Entry) /\ x < Len(g)
      /\ \A m \in Nat : /\ NewPerm(g, m) <=> NewPerm(perms, m)
                        /\ m < Len(perms) => m < Len(g) /\ g[m + 1] = perms[m + 1]
  BY GrownFacts
<1>2. /\ h \in Seq(Entry) /\ Len(h) = Len(g) /\ h[x + 1] = e
      /\ \A m \in Nat \ {x} : m < Len(g) => h[m + 1] = g[m + 1]
  <2> HIDE DEF g
  <2>. QED  BY <1>1 DEF SetEntry, g
<1> HIDE DEF g, h
<1>3. NewPerm(h, x) <=> Size0(e.pi0) /\ Size0(e.pi1)
  BY <1>1, <1>2 DEF NewPerm, Unfilled
<1>4. ASSUME NEW m \in Nat \ {x}
      PROVE  /\ NewPerm(h, m) <=> NewPerm(perms, m)
             /\ ~ NewPerm(perms, m) => h[m + 1] = perms[m + 1]
  <2>1. NewPerm(h, m) <=> NewPerm(g, m)
    BY <1>2 DEF NewPerm, Unfilled
  <2>. QED  BY <2>1, <1>1, <1>2 DEF NewPerm
<1>. QED  BY <1>2, <1>3, <1>4 DEF h

LEMMA MadeFacts ==
  /\ \A m : ~ Made(0, m)
  /\ \A k \in Nat \ {0} : \A m :
       Made(k, m) <=> \/ Made(k - 1, m)
                      \/ /\ gates[k].type \in ShuffleGate
                         /\ gates[k].param = m
                         /\ gates[k].n > 0
<1>1. \A m : ~ Made(0, m)
  BY DEF Made
<1>2. \A k \in Nat \ {0} : 1 .. k = (1 .. (k - 1)) \cup {k}
  OBVIOUS
<1>. QED  BY <1>1, <1>2 DEF Made

(* Advancing the cursors.                                                  *)
LEMMA DrawFacts ==
  ASSUME NEW p \in Party, NEW c \in Ctx, NEW a \in Nat, NEW b \in Nat
  PROVE  /\ Draw(p, c, a, b) \in Ctx
         /\ Draw(p, c, a, b).p01 = c.p01 + (IF p # 2 THEN a ELSE 0)
         /\ Draw(p, c, a, b).p02 = c.p02 + (IF p # 1 THEN b ELSE 0)
         /\ Draw(p, c, a, b).self = c.self /\ Draw(p, c, a, b).idx = c.idx
         /\ Draw(p, c, a, b).sec = c.sec /\ Draw(p, c, a, b).secToOne = c.secToOne
         /\ Draw(p, c, a, b).perms = c.perms
<1> DEFINE x == c.p01 + (IF p # 2 THEN a ELSE 0)
           y == c.p02 + (IF p # 1 THEN b ELSE 0)
<1>1. x \in Nat /\ y \in Nat
  BY SMTT(30), ZenonT(30) DEF Ctx
<1>2. Draw(p, c, a, b) = [c EXCEPT !.p01 = x, !.p02 = y]
  <2>1. /\ x = IF p # 2 THEN c.p01 + a ELSE c.p01
        /\ y = IF p # 1 THEN c.p02 + b ELSE c.p02
    BY DEF Ctx
  <2> HIDE DEF x, y
  <2>. QED  BY <2>1 DEF Draw
<1> HIDE DEF x, y
<1>3. /\ Draw(p, c, a, b) \in Ctx
      /\ Draw(p, c, a, b).p01 = x /\ Draw(p, c, a, b).p02 = y
      /\ Draw(p, c, a, b).self = c.self /\ Draw(p, c, a, b).idx = c.idx
      /\ Draw(p, c, a, b).sec = c.sec /\ Draw(p, c, a, b).secToOne = c.secToOne
      /\ Draw(p, c, a, b).perms = c.perms
  BY <1>1, <1>2 DEF Ctx
<1>. QED  BY <1>3 DEF x, y

-----------------------------------------------------------------------------
(* Beaver triples: what a party stores is typed, and it advances by 3n, 2n *)
(* and n positions.                                                        *)
LEMMA ShareTyped ==
  ASSUME tape \in Tapes, NEW p \in Party, NEW a \in Nat, NEW b \in Nat
  PROVE  RandomShare(p, a, b) \in Ring /\ RandomShareBin(p, a, b) \in Ring
<1>1. RingWord("p01", a) \in Ring /\ RingWord("p02", b) \in Ring
  BY WordsTyped DEF Stream
<1>. QED  BY <1>1, RingClosed, XorAssumption DEF RandomShare, RandomShareBin

LEMMA TripleTyped ==
  ASSUME tape \in Tapes, NEW p \in Party, NEW c \in Ctx, NEW bin \in BOOLEAN, NEW j \in Nat
  PROVE  /\ TripleA(p, c, bin, j) \in Ring /\ TripleB(p, c, bin, j) \in Ring
         /\ TripleC(p, c, bin, j) \in Ring /\ SecretFor2(c, bin, j) \in Ring
<1>1. /\ c.p01 + 3*j \in Nat /\ c.p01 + 3*j + 1 \in Nat /\ c.p01 + 3*j + 2 \in Nat
      /\ c.p02 + 2*j \in Nat /\ c.p02 + 2*j + 1 \in Nat /\ c.idx + j \in Nat
      /\ c.sec \in Seq(Ring)
  <2>1. c.p01 \in Nat /\ c.p02 \in Nat /\ c.idx \in Nat /\ c.sec \in Seq(Ring)
    BY DEF Ctx
  <2>2. 3*j \in Nat /\ 2*j \in Nat
    OBVIOUS
  <2>3. \A a, b \in Nat : a + b \in Nat /\ a + b + 1 \in Nat /\ a + b + 2 \in Nat
    OBVIOUS
  <2>. QED  BY <2>1, <2>2, <2>3
<1>2. \A q \in Party : TripleA(q, c, bin, j) \in Ring /\ TripleB(q, c, bin, j) \in Ring
  BY <1>1, ShareTyped DEF TripleA, TripleB
<1>3. \A q \in Party : Product(q, c, bin, j) \in Ring
  BY <1>2, RingClosed, AndAssumption DEF Product
<1>4. RingWord("p01", c.p01 + 3*j + 2) \in Ring
  BY <1>1, WordsTyped DEF Stream
<1>5. WordAt(c.sec, c.idx + j) \in Ring
  BY <1>1, RingClosed, SMTT(30), ZenonT(30) DEF WordAt
<1>6. Product(0, c, bin, j) \in Ring
  BY <1>3 DEF Party
<1>7. SecretFor2(c, bin, j) \in Ring
  BY <1>4, <1>6, RingClosed, XorAssumption DEF SecretFor2
<1>. QED  BY <1>2, <1>4, <1>5, <1>6, <1>7 DEF TripleC

LEMMA TriplesFacts ==
  ASSUME tape \in Tapes, NEW p \in Party, NEW c \in Ctx, NEW bin \in BOOLEAN,
         NEW n \in Nat, n <= Modulus
  PROVE  Triples(p, c, bin, n) \in PreprocGate
<1>1. \A j \in Idx(n) : /\ TripleA(p, c, bin, j) \in Ring /\ TripleB(p, c, bin, j) \in Ring
                        /\ TripleC(p, c, bin, j) \in Ring
  BY TripleTyped DEF Idx
<1>2. /\ [j \in Idx(n) |-> TripleA(p, c, bin, j)] \in Vec
      /\ [j \in Idx(n) |-> TripleB(p, c, bin, j)] \in Vec
      /\ [j \in Idx(n) |-> TripleC(p, c, bin, j)] \in Vec
  BY <1>1, VecOfSize
<1>. QED  BY <1>2 DEF Triples, PreprocGate

(* d is c advanced by a01 and a02 stream positions, with w2 words dealt to *)
(* (or consumed by) party 2 and w1 to (by) party 1.                        *)
Advance(p, c, d, a01, a02, w2, w1) ==
  /\ d \in Ctx
  /\ d.p01 = c.p01 + (IF p # 2 THEN a01 ELSE 0)
  /\ d.p02 = c.p02 + (IF p # 1 THEN a02 ELSE 0)
  /\ d.idx = c.idx + (IF p = 0 THEN 0 ELSE IF p = 1 THEN w1 ELSE w2)
  /\ Len(d.sec)      = Len(c.sec)      + (IF p = 0 THEN w2 ELSE 0)
  /\ Len(d.secToOne) = Len(c.secToOne) + (IF p = 0 THEN w1 ELSE 0)
  /\ p # 0 => d.sec = c.sec /\ d.secToOne = c.secToOne

LEMMA AdvanceTwice ==
  ASSUME NEW p \in Party, NEW c \in Ctx, NEW d, NEW e,
         NEW a01 \in Nat, NEW a02 \in Nat, NEW w2 \in Nat, NEW w1 \in Nat,
         NEW b01 \in Nat, NEW b02 \in Nat, NEW v2 \in Nat, NEW v1 \in Nat,
         Advance(p, c, d, a01, a02, w2, w1), Advance(p, d, e, b01, b02, v2, v1)
  PROVE  Advance(p, c, e, a01 + b01, a02 + b02, w2 + v2, w1 + v1)
<1>1. /\ c.p01 \in Nat /\ c.p02 \in Nat /\ c.idx \in Nat
      /\ Len(c.sec) \in Nat /\ Len(c.secToOne) \in Nat
  BY SMTT(30), ZenonT(30) DEF Ctx
<1>2. /\ e.p01 = c.p01 + (IF p # 2 THEN a01 + b01 ELSE 0)
      /\ e.p02 = c.p02 + (IF p # 1 THEN a02 + b02 ELSE 0)
  <2>1. /\ p # 2 => d.p01 = c.p01 + a01 /\ e.p01 = d.p01 + b01
        /\ p = 2 => d.p01 = c.p01 + 0 /\ e.p01 = d.p01 + 0
    BY DEF Advance
  <2>2. /\ p # 1 => d.p02 = c.p02 + a02 /\ e.p02 = d.p02 + b02
        /\ p = 1 => d.p02 = c.p02 + 0 /\ e.p02 = d.p02 + 0
    BY DEF Advance
  <2>3. e.p01 = c.p01 + (IF p # 2 THEN a01 + b01 ELSE 0)
    BY <2>1, <1>1, SMTT(30), ZenonT(30)
  <2>4. e.p02 = c.p02 + (IF p # 1 THEN a02 + b02 ELSE 0)
    BY <2>2, <1>1, SMTT(30), ZenonT(30)
  <2>. QED  BY <2>3, <2>4
<1>3. e.idx = c.idx + (IF p = 0 THEN 0 ELSE IF p = 1 THEN w1 + v1 ELSE w2 + v2)
  <2>1. CASE p = 0
    <3>1. d.idx = c.idx + 0 /\ e.idx = d.idx + 0
      BY <2>1 DEF Advance
    <3>. QED  BY <2>1, <3>1, <1>1
  <2>2. CASE p = 1
    <3>1. d.idx = c.idx + w1 /\ e.idx = d.idx + v1
      BY <2>2 DEF Advance
    <3>. QED  BY SMTT(30), <2>2, <3>1, <1>1
  <2>3. CASE p = 2
    <3>1. d.idx = c.idx + w2 /\ e.idx = d.idx + v2
      BY <2>3 DEF Advance
    <3>. QED  BY <2>3, <3>1, <1>1
  <2>. QED  BY <2>1, <2>2, <2>3 DEF Party
<1>4. /\ Len(e.sec)      = Len(c.sec)      + (IF p = 0 THEN w2 + v2 ELSE 0)
      /\ Len(e.secToOne) = Len(c.secToOne) + (IF p = 0 THEN w1 + v1 ELSE 0)
  <2> DEFINE x == IF p = 0 THEN w2 ELSE 0
             y == IF p = 0 THEN v2 ELSE 0
             z == IF p = 0 THEN w1 ELSE 0
             w == IF p = 0 THEN v1 ELSE 0
  <2>1. /\ Len(d.sec) = Len(c.sec) + x           /\ Len(e.sec) = Len(d.sec) + y
        /\ Len(d.secToOne) = Len(c.secToOne) + z /\ Len(e.secToOne) = Len(d.secToOne) + w
    BY DEF Advance
  <2>2. x \in Nat /\ y \in Nat /\ z \in Nat /\ w \in Nat
    OBVIOUS
  <2>3. x + y = IF p = 0 THEN w2 + v2 ELSE 0
    OBVIOUS
  <2>4. z + w = IF p = 0 THEN w1 + v1 ELSE 0
    OBVIOUS
  <2> DEFINE k == Len(c.sec)
             l == Len(c.secToOne)
  <2>5. k \in Nat /\ l \in Nat
    BY <1>1
  <2> HIDE DEF x, y, z, w, k, l
  <2>6. (k + x) + y = k + (x + y) /\ (l + z) + w = l + (z + w)
    BY <2>2, <2>5
  <2>. QED  BY <2>1, <2>3, <2>4, <2>6 DEF k, l
<1>5. e \in Ctx /\ (p # 0 => e.sec = c.sec /\ e.secToOne = c.secToOne)
  BY DEF Advance
<1>. QED  BY <1>2, <1>3, <1>4, <1>5 DEF Advance

LEMMA AfterTriplesFacts ==
  ASSUME tape \in Tapes, NEW p \in Party, NEW c \in Ctx, NEW bin \in BOOLEAN, NEW n \in Nat
  PROVE  /\ Advance(p, c, AfterTriples(p, c, bin, n), 3*n, 2*n, n, 0)
         /\ AfterTriples(p, c, bin, n).perms = c.perms
<1> DEFINE x == Draw(p, c, 3*n, 2*n)
           v == Pushed([j \in Idx(n) |-> SecretFor2(c, bin, j)], n)
           s == IF p = 0 THEN x.sec \o v ELSE x.sec
           i == IF p = 2 THEN x.idx + n ELSE x.idx
<1>1. 3 * n \in Nat /\ 2 * n \in Nat
  OBVIOUS
<1>2. /\ x \in Ctx
      /\ x.p01 = c.p01 + (IF p # 2 THEN 3 * n ELSE 0)
      /\ x.p02 = c.p02 + (IF p # 1 THEN 2 * n ELSE 0)
      /\ x.idx = c.idx /\ x.sec = c.sec /\ x.secToOne = c.secToOne
      /\ x.perms = c.perms
  BY <1>1, DrawFacts
<1>3. [j \in Idx(n) |-> SecretFor2(c, bin, j)] \in [Idx(n) -> Ring]
  BY TripleTyped DEF Idx
<1>4. v \in Seq(Ring) /\ Len(v) = n
  BY <1>3, PushedSeq
<1>5. AfterTriples(p, c, bin, n) = [x EXCEPT !.sec = s, !.idx = i]
  BY DEF AfterTriples
<1>6. c.sec \in Seq(Ring) /\ c.idx \in Nat
  BY DEF Ctx
<1> HIDE DEF x, v
<1>7. /\ s \in Seq(Ring) /\ Len(s) = Len(c.sec) + (IF p = 0 THEN n ELSE 0)
      /\ p # 0 => s = c.sec
      /\ i \in Nat /\ i = c.idx + (IF p = 2 THEN n ELSE 0)
  <2>1. CASE p = 0
    <3>1. s = c.sec \o v
      BY <2>1, <1>2
    <3>. QED  BY <2>1, <3>1, <1>2, <1>4, <1>6
  <2>2. CASE p # 0
    BY <2>2, <1>2, <1>6
  <2>. QED  BY <2>1, <2>2
<1> HIDE DEF s, i
<1> DEFINE d == AfterTriples(p, c, bin, n)
<1>8. /\ d \in Ctx /\ d.p01 = x.p01 /\ d.p02 = x.p02 /\ d.idx = i /\ d.sec = s
      /\ d.secToOne = x.secToOne /\ d.perms = x.perms
  BY <1>2, <1>5, <1>7 DEF Ctx
<1>9. Len(c.secToOne) + 0 = Len(c.secToOne) /\ c.idx + 0 = c.idx
  BY DEF Ctx
<1> HIDE DEF d
<1>10. d.idx = c.idx + (IF p = 0 THEN 0 ELSE IF p = 1 THEN 0 ELSE n)
  BY <1>8, <1>7 DEF Party
<1>. QED  BY <1>2, <1>7, <1>8, <1>9, <1>10 DEF Advance, d

-----------------------------------------------------------------------------
(* Shuffles.  The entry a party makes is empty only for empty vectors, and *)
(* the helper's consists of permutations.                                  *)
AllPermutations(e, n) == /\ IsPermutation(e.pi0, n)  /\ IsPermutation(e.pi1, n)
                         /\ IsPermutation(e.rho0, n) /\ IsPermutation(e.rho1, n)
GoodEntry(p, e, n) == /\ e \in Entry
                      /\ Size0(e.pi0) /\ Size0(e.pi1) <=> n = 0
                      /\ p = 0 => AllPermutations(e, n)

LEMMA SizeOfVec ==
  ASSUME NEW n \in Nat, NEW f \in [Idx(n) -> Ring]
  PROVE  Size0(f) <=> n = 0
BY DEF Size0, Idx

LEMMA NoEntryFacts ==
  /\ NoEntry \in Entry
  /\ NoEntry.pi0 = NoVec /\ NoEntry.pi1 = NoVec
BY NoVecIsVec DEF NoEntry

LEMMA ShuffleEntryFacts ==
  ASSUME tape \in Tapes, NEW p \in Party, NEW c \in Ctx, NEW n \in Nat, n <= Modulus
  PROVE  GoodEntry(p, ShuffleEntry(p, c, n), n)
<1> DEFINE pi0  == RandomPerm("p01", c.p01, n)
           rho0 == RandomPerm("p01", c.p01 + n, n)
           pi1  == RandomPerm("p02", c.p02, n)
           inv  == InverseOf(rho0, n)
           rho1 == [j \in Idx(n) |-> pi0[pi1[inv[j]]]]
           got1 == Popped(c.sec, c.idx, n)
           e    == ShuffleEntry(p, c, n)
<1>1. c.p01 \in Nat /\ c.p01 + n \in Nat /\ c.p02 \in Nat /\ c.idx \in Nat /\ c.sec \in Seq(Ring)
  BY DEF Ctx
<1>2. IsPermutation(pi0, n) /\ IsPermutation(rho0, n) /\ IsPermutation(pi1, n)
  BY <1>1, RandomPermIsPermutation DEF Stream
<1>3. IsPermutation(inv, n)
  BY <1>2, InverseIsPermutation
<1>4. e = CASE p = 0 -> [pi0 |-> pi0, pi1 |-> pi1, rho0 |-> rho0, rho1 |-> rho1]
            [] p = 1 -> [NoEntry EXCEPT !.pi0 = pi0, !.rho0 = rho0]
            [] OTHER -> [NoEntry EXCEPT !.pi1 = pi1, !.rho1 = got1]
  BY DEF ShuffleEntry
<1>5. got1 \in [Idx(n) -> Ring]
  BY <1>1, PoppedVec
<1> HIDE DEF pi0, pi1, inv, rho0, got1, e
<1>6. IsPermutation(rho1, n)
  <2> DEFINE h == [j \in Idx(n) |-> pi1[inv[j]]]
  <2>1. IsPermutation(h, n)
    BY <1>2, <1>3, ComposeIsPermutation
  <2>2. IsPermutation([j \in Idx(n) |-> pi0[h[j]]], n)
    <3> HIDE DEF h
    <3>. QED  BY <1>2, <2>1, ComposeIsPermutation
  <2>. QED  BY <2>2
<1> HIDE DEF rho1
<1>7. /\ pi0 \in [Idx(n) -> Ring] /\ pi1 \in [Idx(n) -> Ring]
      /\ rho0 \in [Idx(n) -> Ring] /\ rho1 \in [Idx(n) -> Ring]
  BY <1>2, <1>6, PermutationIsVec
<1>8. /\ pi0 \in Vec /\ pi1 \in Vec /\ rho0 \in Vec /\ rho1 \in Vec /\ got1 \in Vec
      /\ Size0(pi0) <=> n = 0
      /\ Size0(pi1) <=> n = 0
  BY <1>5, <1>7, VecOfSize, SizeOfVec
<1>9. NoVec \in Vec /\ Size0(NoVec)
  BY NoVecIsVec DEF Size0
<1>10. CASE p = 0
  <2>1. e = [pi0 |-> pi0, pi1 |-> pi1, rho0 |-> rho0, rho1 |-> rho1]
    BY <1>4, <1>10
  <2>. QED  BY <2>1, <1>2, <1>6, <1>8 DEF GoodEntry, AllPermutations, Entry, e
<1>11. CASE p = 1
  <2>1. e = [NoEntry EXCEPT !.pi0 = pi0, !.rho0 = rho0]
    BY <1>4, <1>11
  <2>2. e \in Entry /\ e.pi0 = pi0 /\ e.pi1 = NoVec
    BY <2>1, <1>8, NoEntryFacts DEF Entry
  <2>. QED  BY <2>2, <1>8, <1>9, <1>11 DEF GoodEntry, e
<1>12. CASE p = 2
  <2>1. e = [NoEntry EXCEPT !.pi1 = pi1, !.rho1 = got1]
    BY <1>4, <1>12
  <2>2. e \in Entry /\ e.pi0 = NoVec /\ e.pi1 = pi1
    BY <2>1, <1>8, NoEntryFacts DEF Entry
  <2>. QED  BY <2>2, <1>8, <1>9, <1>12 DEF GoodEntry, e
<1>. QED  BY <1>10, <1>11, <1>12 DEF Party

(* What making the permutation of g does to the tables.                    *)
TableStep(p, perms, after, g) ==
  /\ after \in Seq(Entry)
  /\ \A m \in Nat : NewPerm(after, m) <=> NewPerm(perms, m) /\ ~ (m = g.param /\ g.n > 0)
  /\ \A m \in Nat : ~ NewPerm(perms, m) => after[m + 1] = perms[m + 1]
  /\ p = 0 /\ NewPerm(perms, g.param) => AllPermutations(after[g.param + 1], g.n)

LEMMA MakeEntry ==
  ASSUME NEW p \in Party, NEW perms \in Seq(Entry), NEW g \in Gate,
         NewPerm(perms, g.param), NEW e, GoodEntry(p, e, g.n)
  PROVE  TableStep(p, perms, SetEntry(perms, g.param, e), g)
<1> DEFINE h == SetEntry(perms, g.param, e)
<1>1. e \in Entry /\ (Size0(e.pi0) /\ Size0(e.pi1) <=> g.n = 0)
      /\ (p = 0 => AllPermutations(e, g.n)) /\ g.param \in Nat /\ g.n \in Nat
  BY DEF GoodEntry, Gate
<1>2. /\ h \in Seq(Entry) /\ h[g.param + 1] = e
      /\ NewPerm(h, g.param) <=> Size0(e.pi0) /\ Size0(e.pi1)
      /\ \A m \in Nat \ {g.param} :
           /\ NewPerm(h, m) <=> NewPerm(perms, m)
           /\ ~ NewPerm(perms, m) => h[m + 1] = perms[m + 1]
  <2> DEFINE x == g.param
  <2>1. e \in Entry /\ x \in Nat
    BY <1>1
  <2> HIDE DEF x
  <2>2. /\ SetEntry(perms, x, e) \in Seq(Entry)
        /\ SetEntry(perms, x, e)[x + 1] = e
        /\ NewPerm(SetEntry(perms, x, e), x) <=> Size0(e.pi0) /\ Size0(e.pi1)
        /\ \A m \in Nat \ {x} :
             /\ NewPerm(SetEntry(perms, x, e), m) <=> NewPerm(perms, m)
             /\ ~ NewPerm(perms, m) => SetEntry(perms, x, e)[m + 1] = perms[m + 1]
    BY <2>1, SetEntryFacts
  <2>. QED  BY <2>2 DEF x
<1> HIDE DEF h
<1>3. ASSUME NEW m \in Nat
      PROVE  /\ NewPerm(h, m) <=> NewPerm(perms, m) /\ ~ (m = g.param /\ g.n > 0)
             /\ ~ NewPerm(perms, m) => h[m + 1] = perms[m + 1]
  <2>1. CASE m = g.param
    BY <2>1, <1>1, <1>2
  <2>2. CASE m # g.param
    BY <2>2, <1>2
  <2>. QED  BY <2>1, <2>2
<1>. QED  BY <1>1, <1>2, <1>3 DEF TableStep, h

LEMMA KeepEntry ==
  ASSUME NEW p \in Party, NEW perms \in Seq(Entry), NEW g \in Gate,
         ~ NewPerm(perms, g.param)
  PROVE  TableStep(p, perms, perms, g)
BY DEF TableStep

MakingN(perms, g) == IF NewPerm(perms, g.param) THEN g.n ELSE 0

LEMMA PrepareShuffleFacts ==
  ASSUME tape \in Tapes, NEW p \in Party, NEW c \in Ctx, NEW g \in Gate, g.n <= Modulus
  PROVE  LET d == PrepareShuffle(p, c, g)
             f == MakingN(c.perms, g)
         IN  Advance(p, c, d, 2 * f, f, f, 0) /\ TableStep(p, c.perms, d.perms, g)
<1>0. /\ c.p01 \in Nat /\ c.p02 \in Nat /\ c.idx \in Nat /\ c.sec \in Seq(Ring)
      /\ c.secToOne \in Seq(Ring) /\ c.perms \in Seq(Entry) /\ g.n \in Nat
  BY DEF Ctx, Gate
<1>1. CASE ~ NewPerm(c.perms, g.param)
  <2>1. PrepareShuffle(p, c, g) = c /\ MakingN(c.perms, g) = 0
    BY <1>1 DEF PrepareShuffle, MakingN
  <2>2. Advance(p, c, c, 0, 0, 0, 0)
    BY <1>0 DEF Advance
  <2>3. TableStep(p, c.perms, c.perms, g)
    BY <1>0, <1>1, KeepEntry
  <2>. QED  BY <2>1, <2>2, <2>3
<1>2. CASE NewPerm(c.perms, g.param)
  <2> DEFINE n == g.n
             x == Draw(p, c, 2 * n, n)
             e == ShuffleEntry(p, c, n)
             t == SetEntry(c.perms, g.param, e)
             v == Pushed(e.rho1, n)
             s == IF p = 0 THEN x.sec \o v ELSE x.sec
             i == IF p = 2 THEN x.idx + n ELSE x.idx
             d == PrepareShuffle(p, c, g)
  <2>1. n \in Nat /\ 2 * n \in Nat
    BY <1>0
  <2>2. /\ x \in Ctx
        /\ x.p01 = c.p01 + (IF p # 2 THEN 2 * n ELSE 0)
        /\ x.p02 = c.p02 + (IF p # 1 THEN n ELSE 0)
        /\ x.idx = c.idx /\ x.sec = c.sec /\ x.secToOne = c.secToOne
        /\ x.perms = c.perms
    <3> HIDE DEF n
    <3>. QED  BY <2>1, DrawFacts
  <2>3. GoodEntry(p, e, n)
    BY <1>0, ShuffleEntryFacts
  <2>4. TableStep(p, c.perms, t, g)
    <3> HIDE DEF e
    <3>. QED  BY <1>0, <1>2, <2>3, MakeEntry
  <2>5. d = [x EXCEPT !.perms = t, !.sec = s, !.idx = i]
    <3>1. x.perms = c.perms
      BY <2>2
    <3>. QED  BY <1>2, <3>1 DEF PrepareShuffle
  <2>6. p = 0 => v \in Seq(Ring) /\ Len(v) = n
    <3> HIDE DEF e, n
    <3>1. p = 0 => e.rho1 \in [Idx(n) -> Ring]
      BY <2>1, <2>3, PermutationIsVec DEF GoodEntry, AllPermutations, n
    <3>. QED  BY <2>1, <3>1, PushedSeq
  <2> HIDE DEF x, e, v
  <2>7. /\ s \in Seq(Ring) /\ Len(s) = Len(c.sec) + (IF p = 0 THEN n ELSE 0)
        /\ p # 0 => s = c.sec
    <3>1. CASE p = 0
      <4>1. s = c.sec \o v
        BY <3>1, <2>2
      <4>2. v \in Seq(Ring) /\ Len(v) = n /\ c.sec \in Seq(Ring)
        BY <3>1, <2>6, <1>0
      <4>3. s \in Seq(Ring) /\ Len(s) = Len(c.sec) + n
        <5> HIDE DEF s, n
        <5>. QED  BY <4>1, <4>2, DealtMore
      <4>. QED  BY <3>1, <4>3
    <3>2. CASE p # 0
      BY <3>2, <2>2, <1>0
    <3>. QED  BY <3>1, <3>2
  <2>8. i \in Nat /\ i = c.idx + (IF p = 0 THEN 0 ELSE IF p = 1 THEN 0 ELSE n)
    BY <2>1, <2>2, <1>0 DEF Party
  <2>9. t \in Seq(Entry)
    BY <2>4 DEF TableStep
  <2> HIDE DEF s, i, t, d, n
  <2>10. /\ d \in Ctx /\ d.p01 = x.p01 /\ d.p02 = x.p02 /\ d.idx = i /\ d.sec = s
         /\ d.secToOne = x.secToOne /\ d.perms = t
    BY <2>2, <2>5, <2>7, <2>8, <2>9 DEF Ctx
  <2>11. Len(c.secToOne) + 0 = Len(c.secToOne)
    BY <1>0
  <2>12. Advance(p, c, d, 2 * n, n, n, 0)
    BY <2>2, <2>7, <2>8, <2>10, <2>11 DEF Advance
  <2>13. MakingN(c.perms, g) = n
    BY <1>2 DEF MakingN, n
  <2>. QED  BY <2>4, <2>10, <2>12, <2>13 DEF d
<1>. QED  BY <1>1, <1>2

(* Double shuffles: the same, provided the helper has both parts.          *)
LEMMA ComposedPermutation ==
  ASSUME NEW n \in Nat, NEW e, AllPermutations(e, n)
  PROVE  IsPermutation(Composed(e, n), n)
BY ComposeIsPermutation DEF AllPermutations, Composed

PartsReady(p, c, g) ==
  p = 0 => /\ AllPermutations(c.perms[g.param2 + 1], g.n)
           /\ AllPermutations(c.perms[g.param3 + 1], g.n)

LEMMA DoubleEntryFacts ==
  ASSUME tape \in Tapes, NEW p \in Party, NEW c \in Ctx, NEW g \in Gate, g.n <= Modulus,
         PartsReady(p, c, g)
  PROVE  GoodEntry(p, DoubleEntry(p, c, g), g.n)
<1> DEFINE n    == g.n
           pi0  == RandomPerm("p01", c.p01, n)
           rho1 == RandomPerm("p02", c.p02, n)
           inv0 == InverseOf(pi0, n)
           inv1 == InverseOf(rho1, n)
           two  == Composed(c.perms[g.param2 + 1], n)
           inv2 == InverseOf(two, n)
           fwd3 == Composed(c.perms[g.param3 + 1], n)
           pi1  == [j \in Idx(n) |-> inv0[fwd3[inv2[j]]]]
           rho0 == [j \in Idx(n) |-> inv1[pi0[pi1[j]]]]
           got0 == Popped(c.secToOne, c.idx, n)
           got1 == Popped(c.sec, c.idx, n)
           e    == DoubleEntry(p, c, g)
<1>1. /\ c.p01 \in Nat /\ c.p02 \in Nat /\ c.idx \in Nat /\ c.sec \in Seq(Ring)
      /\ c.secToOne \in Seq(Ring) /\ n \in Nat
  BY DEF Ctx, Gate
<1>2. e = CASE p = 0 -> [pi0 |-> pi0, pi1 |-> pi1, rho0 |-> rho0, rho1 |-> rho1]
            [] p = 1 -> [NoEntry EXCEPT !.pi0 = pi0, !.rho0 = got0]
            [] OTHER -> [NoEntry EXCEPT !.pi1 = got1, !.rho1 = rho1]
  BY DEF DoubleEntry
<1> HIDE DEF e
<1>3. IsPermutation(pi0, n) /\ IsPermutation(rho1, n)
  <2> HIDE DEF n
  <2>. QED  BY <1>1, RandomPermIsPermutation DEF Stream
<1>4. got0 \in [Idx(n) -> Ring] /\ got1 \in [Idx(n) -> Ring]
  <2> HIDE DEF n
  <2>. QED  BY <1>1, PoppedVec
<1> HIDE DEF pi0, rho1, got0, got1
<1>5. IsPermutation(inv0, n) /\ IsPermutation(inv1, n)
  <2> HIDE DEF n
  <2>. QED  BY <1>1, <1>3, InverseIsPermutation
<1> HIDE DEF inv0, inv1
<1>6. CASE p = 0
  <2>1. IsPermutation(two, n) /\ IsPermutation(fwd3, n)
    <3>1. AllPermutations(c.perms[g.param2 + 1], n) /\ AllPermutations(c.perms[g.param3 + 1], n)
      BY <1>6 DEF PartsReady
    <3> HIDE DEF n
    <3>. QED  BY <1>1, <3>1, ComposedPermutation
  <2> HIDE DEF two, fwd3, n
  <2>2. IsPermutation(inv2, n)
    BY <1>1, <2>1, InverseIsPermutation
  <2> HIDE DEF inv2
  <2>3. IsPermutation(pi1, n)
    <3> DEFINE h == [j \in Idx(n) |-> fwd3[inv2[j]]]
    <3>1. IsPermutation(h, n)
      BY <1>1, <2>1, <2>2, ComposeIsPermutation
    <3>2. pi1 = [j \in Idx(n) |-> inv0[h[j]]]
      OBVIOUS
    <3> HIDE DEF h, pi1
    <3>. QED  BY <1>1, <1>5, <3>1, <3>2, ComposeIsPermutation
  <2> HIDE DEF pi1
  <2>4. IsPermutation(rho0, n)
    <3> DEFINE h == [j \in Idx(n) |-> pi0[pi1[j]]]
    <3>1. IsPermutation(h, n)
      BY <1>1, <1>3, <2>3, ComposeIsPermutation
    <3>2. rho0 = [j \in Idx(n) |-> inv1[h[j]]]
      OBVIOUS
    <3> HIDE DEF h, rho0
    <3>. QED  BY <1>1, <1>5, <3>1, <3>2, ComposeIsPermutation
  <2> HIDE DEF rho0
  <2>5. /\ pi0 \in [Idx(n) -> Ring] /\ pi1 \in [Idx(n) -> Ring]
        /\ rho0 \in [Idx(n) -> Ring] /\ rho1 \in [Idx(n) -> Ring]
    BY <1>1, <1>3, <2>3, <2>4, PermutationIsVec DEF n
  <2>6. /\ pi0 \in Vec /\ pi1 \in Vec /\ rho0 \in Vec /\ rho1 \in Vec
        /\ Size0(pi0) <=> n = 0
        /\ Size0(pi1) <=> n = 0
    BY <1>1, <2>5, VecOfSize, SizeOfVec DEF n
  <2>7. e = [pi0 |-> pi0, pi1 |-> pi1, rho0 |-> rho0, rho1 |-> rho1]
    BY <1>2, <1>6
  <2>8. e \in Entry /\ e.pi0 = pi0 /\ e.pi1 = pi1 /\ e.rho0 = rho0 /\ e.rho1 = rho1
    BY <2>6, <2>7 DEF Entry
  <2>. QED  BY <2>8, <1>3, <2>3, <2>4, <2>6 DEF GoodEntry, AllPermutations, e, n
<1>7. CASE p # 0
  <2>1. pi0 \in [Idx(n) -> Ring] /\ rho1 \in [Idx(n) -> Ring]
    <3> HIDE DEF n
    <3>. QED  BY <1>1, <1>3, PermutationIsVec DEF n
  <2>2. /\ pi0 \in Vec /\ rho1 \in Vec /\ got0 \in Vec /\ got1 \in Vec
        /\ Size0(pi0) <=> n = 0
        /\ Size0(got1) <=> n = 0
    <3> HIDE DEF n
    <3>. QED  BY <1>1, <1>4, <2>1, VecOfSize, SizeOfVec DEF n
  <2>3. NoVec \in Vec /\ Size0(NoVec)
    BY NoVecIsVec DEF Size0
  <2> HIDE DEF n
  <2>4. CASE p = 1
    <3>1. e = [NoEntry EXCEPT !.pi0 = pi0, !.rho0 = got0]
      BY <1>2, <2>4
    <3>2. e \in Entry /\ e.pi0 = pi0 /\ e.pi1 = NoVec
      BY <3>1, <2>2, NoEntryFacts DEF Entry
    <3>. QED  BY <3>2, <2>2, <2>3, <2>4 DEF GoodEntry, e, n
  <2>5. CASE p = 2
    <3>1. e = [NoEntry EXCEPT !.pi1 = got1, !.rho1 = rho1]
      BY <1>2, <2>5
    <3>2. e \in Entry /\ e.pi0 = NoVec /\ e.pi1 = got1
      BY <3>1, <2>2, NoEntryFacts DEF Entry
    <3>. QED  BY <3>2, <2>2, <2>3, <2>5 DEF GoodEntry, e, n
  <2>. QED  BY <1>7, <2>4, <2>5 DEF Party
<1>. QED  BY <1>6, <1>7

LEMMA PrepareDoubleFacts ==
  ASSUME tape \in Tapes, NEW p \in Party, NEW c \in Ctx, NEW g \in Gate, g.n <= Modulus,
         NewPerm(c.perms, g.param) => PartsReady(p, c, g)
  PROVE  LET d == PrepareDouble(p, c, g)
             f == MakingN(c.perms, g)
         IN  Advance(p, c, d, f, f, f, f) /\ TableStep(p, c.perms, d.perms, g)
<1>0. /\ c.p01 \in Nat /\ c.p02 \in Nat /\ c.idx \in Nat /\ c.sec \in Seq(Ring)
      /\ c.secToOne \in Seq(Ring) /\ c.perms \in Seq(Entry) /\ g.n \in Nat
  BY DEF Ctx, Gate
<1>1. CASE ~ NewPerm(c.perms, g.param)
  <2>1. PrepareDouble(p, c, g) = c /\ MakingN(c.perms, g) = 0
    BY <1>1 DEF PrepareDouble, MakingN
  <2>2. Advance(p, c, c, 0, 0, 0, 0)
    BY <1>0 DEF Advance
  <2>3. TableStep(p, c.perms, c.perms, g)
    BY <1>0, <1>1, KeepEntry
  <2>. QED  BY <2>1, <2>2, <2>3
<1>2. CASE NewPerm(c.perms, g.param)
  <2> DEFINE n == g.n
             x == Draw(p, c, n, n)
             e == DoubleEntry(p, c, g)
             t == SetEntry(c.perms, g.param, e)
             u == Pushed(e.pi1, n)
             v == Pushed(e.rho0, n)
             s == IF p = 0 THEN x.sec \o u ELSE x.sec
             r == IF p = 0 THEN x.secToOne \o v ELSE x.secToOne
             i == IF p = 0 THEN x.idx ELSE x.idx + n
             d == PrepareDouble(p, c, g)
  <2>1. n \in Nat
    BY <1>0
  <2>2. /\ x \in Ctx
        /\ x.p01 = c.p01 + (IF p # 2 THEN n ELSE 0)
        /\ x.p02 = c.p02 + (IF p # 1 THEN n ELSE 0)
        /\ x.idx = c.idx /\ x.sec = c.sec /\ x.secToOne = c.secToOne
        /\ x.perms = c.perms
    <3> HIDE DEF n
    <3>. QED  BY <2>1, DrawFacts
  <2>3. GoodEntry(p, e, n)
    BY <1>2, DoubleEntryFacts
  <2>4. TableStep(p, c.perms, t, g)
    <3> HIDE DEF e
    <3>. QED  BY <1>0, <1>2, <2>3, MakeEntry
  <2>5. d = [x EXCEPT !.perms = t, !.sec = s, !.secToOne = r, !.idx = i]
    <3>1. x.perms = c.perms
      BY <2>2
    <3>. QED  BY <1>2, <3>1 DEF PrepareDouble
  <2>6. p = 0 => /\ u \in Seq(Ring) /\ Len(u) = n
                 /\ v \in Seq(Ring) /\ Len(v) = n
    <3> HIDE DEF e, n
    <3>1. p = 0 => e.pi1 \in [Idx(n) -> Ring] /\ e.rho0 \in [Idx(n) -> Ring]
      BY <2>1, <2>3, PermutationIsVec DEF GoodEntry, AllPermutations, n
    <3>. QED  BY <2>1, <3>1, PushedSeq
  <2> HIDE DEF x, e, u, v
  <2>7. /\ s \in Seq(Ring) /\ Len(s) = Len(c.sec) + (IF p = 0 THEN n ELSE 0)
        /\ r \in Seq(Ring) /\ Len(r) = Len(c.secToOne) + (IF p = 0 THEN n ELSE 0)
        /\ p # 0 => s = c.sec /\ r = c.secToOne
    <3>1. CASE p = 0
      <4>1. s = c.sec \o u /\ r = c.secToOne \o v
        BY <3>1, <2>2
      <4>2. /\ u \in Seq(Ring) /\ Len(u) = n /\ c.sec \in Seq(Ring)
            /\ v \in Seq(Ring) /\ Len(v) = n /\ c.secToOne \in Seq(Ring)
        BY <3>1, <2>6, <1>0
      <4>3. /\ s \in Seq(Ring) /\ Len(s) = Len(c.sec) + n
            /\ r \in Seq(Ring) /\ Len(r) = Len(c.secToOne) + n
        <5> HIDE DEF s, r, n
        <5>1. c.sec \o u \in Seq(Ring) /\ Len(c.sec \o u) = Len(c.sec) + Len(u)
          BY <4>2, DealtMore
        <5>2. c.secToOne \o v \in Seq(Ring) /\ Len(c.secToOne \o v) = Len(c.secToOne) + Len(v)
          BY <4>2, DealtMore
        <5>. QED  BY <4>1, <4>2, <5>1, <5>2
      <4>. QED  BY <3>1, <4>3
    <3>2. CASE p # 0
      BY <3>2, <2>2, <1>0
    <3>. QED  BY <3>1, <3>2
  <2>8. i \in Nat /\ i = c.idx + (IF p = 0 THEN 0 ELSE IF p = 1 THEN n ELSE n)
    BY <2>1, <2>2, <1>0 DEF Party
  <2>9. t \in Seq(Entry)
    BY <2>4 DEF TableStep
  <2> HIDE DEF s, r, i, t, d, n
  <2>10. /\ d \in Ctx /\ d.p01 = x.p01 /\ d.p02 = x.p02 /\ d.idx = i /\ d.sec = s
         /\ d.secToOne = r /\ d.perms = t
    BY <2>2, <2>5, <2>7, <2>8, <2>9 DEF Ctx
  <2>11. Advance(p, c, d, n, n, n, n)
    BY <2>2, <2>7, <2>8, <2>10 DEF Advance
  <2>12. MakingN(c.perms, g) = n
    BY <1>2 DEF MakingN, n
  <2>. QED  BY <2>4, <2>10, <2>11, <2>12 DEF d
<1>. QED  BY <1>1, <1>2

-----------------------------------------------------------------------------
(* The masks of one invocation.                                            *)
LEMMA MasksTyped ==
  ASSUME tape \in Tapes, NEW p \in Party, NEW c \in Ctx, NEW n \in Nat
  PROVE  /\ p # 2 => Masks(p, c, n).m0 \in [Idx(n) -> Ring]
         /\ p # 1 => Masks(p, c, n).m1 \in [Idx(n) -> Ring]
<1>1. \A j \in Idx(n) : c.p01 + j \in Nat /\ c.p02 + j \in Nat
  BY DEF Ctx, Idx
<1>2. \A j \in Idx(n) : RingWord("p01", c.p01 + j) \in Ring /\ RingWord("p02", c.p02 + j) \in Ring
  BY <1>1, WordsTyped DEF Stream
<1>. QED  BY <1>2 DEF Masks

LEMMA HelperBTyped ==
  ASSUME tape \in Tapes, NEW c \in Ctx, NEW g \in Gate,
         AllPermutations(c.perms[g.param + 1], g.n)
  PROVE  HelperB0(c, g) \in [Idx(g.n) -> Ring] /\ HelperB1(c, g) \in [Idx(g.n) -> Ring]
<1> DEFINE n   == g.n
           pi  == Composed(c.perms[g.param + 1], n)
           inv == InverseOf(pi, n)
           m0  == Masks(0, c, n).m0
           m1  == Masks(0, c, n).m1
           r(j) == RingWord("self", c.self + j)
<1>1. n \in Nat /\ c.self \in Nat
  BY DEF Gate, Ctx
<1>2. IsPermutation(pi, n)
  <2>1. AllPermutations(c.perms[g.param + 1], n)
    OBVIOUS
  <2> HIDE DEF n
  <2>. QED  BY <1>1, <2>1, ComposedPermutation
<1>3. m0 \in [Idx(n) -> Ring] /\ m1 \in [Idx(n) -> Ring]
  <2> HIDE DEF n
  <2>. QED  BY <1>1, MasksTyped DEF Party
<1>4. \A j \in Idx(n) : r(j) \in Ring
  <2>1. \A j \in Idx(n) : c.self + j \in Nat
    BY <1>1 DEF Idx
  <2>. QED  BY <2>1, WordsTyped DEF Stream
<1>5. HelperB0(c, g) = IF g.reverse THEN [j \in Idx(n) |-> Minus(m0[pi[j]], r(j))]
                       ELSE [i \in Idx(n) |-> Minus(m0[inv[i]], r(inv[i]))]
  BY DEF HelperB0
<1>6. HelperB1(c, g) = IF g.reverse THEN [j \in Idx(n) |-> Plus(m1[pi[j]], r(j))]
                       ELSE [i \in Idx(n) |-> Plus(m1[inv[i]], r(inv[i]))]
  BY DEF HelperB1
<1> HIDE DEF n, pi, inv, m0, m1, r
<1>7. IsPermutation(inv, n)
  BY <1>1, <1>2, InverseIsPermutation DEF inv
<1>8. \A j \in Idx(n) : pi[j] \in Idx(n) /\ inv[j] \in Idx(n)
  BY <1>2, <1>7 DEF IsPermutation
<1>9. \A i, j \in Idx(n) : Minus(m0[i], r(j)) \in Ring /\ Plus(m1[i], r(j)) \in Ring
  BY <1>3, <1>4, RingClosed
<1>10. /\ [j \in Idx(n) |-> Minus(m0[pi[j]], r(j))] \in [Idx(n) -> Ring]
       /\ [i \in Idx(n) |-> Minus(m0[inv[i]], r(inv[i]))] \in [Idx(n) -> Ring]
  BY <1>8, <1>9
<1>11. /\ [j \in Idx(n) |-> Plus(m1[pi[j]], r(j))] \in [Idx(n) -> Ring]
       /\ [i \in Idx(n) |-> Plus(m1[inv[i]], r(inv[i]))] \in [Idx(n) -> Ring]
  BY <1>8, <1>9
<1>. QED  BY <1>5, <1>6, <1>10, <1>11 DEF n

LEMMA MaskedShuffleFacts ==
  ASSUME tape \in Tapes, NEW p \in Online, NEW c \in Ctx, NEW g \in Gate, g.n <= Modulus
  PROVE  MaskedShuffle(p, c, g) \in PreprocGate
<1> DEFINE n == g.n
           m == IF p = 1 THEN Masks(p, c, n).m0 ELSE Masks(p, c, n).m1
           b == IF p = 1 THEN Popped(c.secToOne, c.idx, n) ELSE Popped(c.sec, c.idx, n)
<1>1. /\ n \in Nat /\ c.idx \in Nat /\ c.sec \in Seq(Ring) /\ c.secToOne \in Seq(Ring)
      /\ p \in Party /\ p # 0 /\ g.param \in Nat /\ g.reverse \in BOOLEAN
  BY DEF Gate, Ctx, Online, Party
<1>2. m \in [Idx(n) -> Ring]
  <2> HIDE DEF n
  <2>. QED  BY <1>1, MasksTyped DEF Online
<1>3. b \in [Idx(n) -> Ring]
  <2> HIDE DEF n
  <2>. QED  BY <1>1, PoppedVec
<1>4. MaskedShuffle(p, c, g) = [kind |-> "shuffle", param |-> g.param, reverse |-> g.reverse,
                                mask |-> m, b |-> b]
  BY <1>1 DEF MaskedShuffle
<1> HIDE DEF m, b
<1>5. m \in Vec /\ b \in Vec
  <2>1. n <= Modulus
    OBVIOUS
  <2> HIDE DEF n
  <2>. QED  BY <1>1, <1>2, <1>3, <2>1, VecOfSize
<1>. QED  BY <1>1, <1>4, <1>5 DEF PreprocGate

LEMMA AfterMasksFacts ==
  ASSUME tape \in Tapes, NEW p \in Party, NEW c \in Ctx, NEW g \in Gate,
         p = 0 => AllPermutations(c.perms[g.param + 1], g.n)
  PROVE  /\ Advance(p, c, AfterMasks(p, c, g), g.n, g.n, g.n, g.n)
         /\ AfterMasks(p, c, g).perms = c.perms
<1> DEFINE n == g.n
           x == Draw(p, c, n, n)
           u == Pushed(HelperB1(c, g), n)
           v == Pushed(HelperB0(c, g), n)
           s == IF p = 0 THEN x.sec \o u ELSE x.sec
           r == IF p = 0 THEN x.secToOne \o v ELSE x.secToOne
           i == IF p = 0 THEN x.idx ELSE x.idx + n
           o == IF p = 0 THEN x.self + n ELSE x.self
           d == AfterMasks(p, c, g)
<1>1. /\ n \in Nat /\ c.idx \in Nat /\ c.self \in Nat
      /\ c.sec \in Seq(Ring) /\ c.secToOne \in Seq(Ring)
  BY DEF Gate, Ctx
<1>2. /\ x \in Ctx
      /\ x.p01 = c.p01 + (IF p # 2 THEN n ELSE 0)
      /\ x.p02 = c.p02 + (IF p # 1 THEN n ELSE 0)
      /\ x.self = c.self /\ x.idx = c.idx
      /\ x.sec = c.sec /\ x.secToOne = c.secToOne /\ x.perms = c.perms
  <2> HIDE DEF n
  <2>. QED  BY <1>1, DrawFacts, SMTT(30), ZenonT(30)
<1>3. d = [x EXCEPT !.self = o, !.secToOne = r, !.sec = s, !.idx = i]
  BY DEF AfterMasks
<1>4. p = 0 => /\ HelperB0(c, g) \in [Idx(n) -> Ring]
               /\ HelperB1(c, g) \in [Idx(n) -> Ring]
  BY HelperBTyped
<1>5. p = 0 => /\ u \in Seq(Ring) /\ Len(u) = n
               /\ v \in Seq(Ring) /\ Len(v) = n
  <2> HIDE DEF n
  <2>. QED  BY <1>1, <1>4, PushedSeq
<1> HIDE DEF x, u, v
<1>6. /\ s \in Seq(Ring) /\ Len(s) = Len(c.sec) + (IF p = 0 THEN n ELSE 0)
      /\ r \in Seq(Ring) /\ Len(r) = Len(c.secToOne) + (IF p = 0 THEN n ELSE 0)
      /\ p # 0 => s = c.sec /\ r = c.secToOne
  <2>1. CASE p = 0
    <3>1. s = c.sec \o u /\ r = c.secToOne \o v
      BY <2>1, <1>2
    <3>2. /\ u \in Seq(Ring) /\ Len(u) = n /\ v \in Seq(Ring) /\ Len(v) = n
      BY <2>1, <1>5
    <3>3. c.sec \o u \in Seq(Ring) /\ Len(c.sec \o u) = Len(c.sec) + Len(u)
      BY <1>1, <3>2, DealtMore
    <3>4. c.secToOne \o v \in Seq(Ring) /\ Len(c.secToOne \o v) = Len(c.secToOne) + Len(v)
      BY <1>1, <3>2, DealtMore
    <3> HIDE DEF s, r, n
    <3>. QED  BY <2>1, <3>1, <3>2, <3>3, <3>4
  <2>2. CASE p # 0
    BY <2>2, <1>1, <1>2
  <2>. QED  BY <2>1, <2>2
<1>7. i \in Nat /\ i = c.idx + (IF p = 0 THEN 0 ELSE IF p = 1 THEN n ELSE n)
  BY <1>1, <1>2 DEF Party
<1>8. o \in Nat
  BY <1>1, <1>2
<1> HIDE DEF s, r, i, o, d, n
<1>9. /\ d \in Ctx /\ d.p01 = x.p01 /\ d.p02 = x.p02 /\ d.idx = i /\ d.sec = s
      /\ d.secToOne = r /\ d.perms = x.perms
  BY <1>2, <1>3, <1>6, <1>7, <1>8 DEF Ctx
<1>10. Advance(p, c, d, n, n, n, n)
  BY <1>2, <1>6, <1>7, <1>9 DEF Advance
<1>. QED  BY <1>2, <1>9, <1>10 DEF d, n

-----------------------------------------------------------------------------
(* A byte stream: r has been received, w is in flight behind h words that  *)
(* come before the data, and together they are the first words of o.       *)
OnWire(r, w, o, h) ==
  /\ \A i \in 1 .. Len(r) : r[i] = o[i]
  /\ \A i \in (h + 1) .. Len(w) : w[i] = o[Len(r) + i - h]

(* v is w with words s + 1 .. s + n of o put on it.                         *)
Puts(v, w, o, s, n) == v = w \o SubSeq(o, s + 1, s + n)

LEMMA WireSend ==
  ASSUME NEW r \in Seq(Ring), NEW w \in Seq(Nat), NEW o \in Seq(Ring), NEW vv,
         NEW h \in Nat, NEW s \in Nat, NEW n \in Nat, s + n <= Len(o),
         h > 0 => r = <<>>, Len(r) + Len(w) = h + s, OnWire(r, w, o, h),
         Puts(vv, w, o, s, n)
  PROVE  /\ vv \in Seq(Nat) /\ Len(vv) = Len(w) + n
         /\ h > 0 => vv[1] = w[1]
         /\ OnWire(r, vv, o, h)
<1> DEFINE u == SubSeq(o, s + 1, s + n)
           v == w \o u
<1>0. vv = v
  BY DEF Puts
<1>1. u \in Seq(Ring) /\ Len(u) = n /\ \A i \in 1 .. n : u[i] = o[s + i]
  OBVIOUS
<1>2. Ring \subseteq Nat
  BY ModulusAssumption DEF Ring
<1> HIDE DEF u
<1>3. /\ v \in Seq(Nat) /\ Len(v) = Len(w) + n
      /\ \A i \in 1 .. Len(w) : v[i] = w[i]
      /\ \A i \in 1 .. n : v[Len(w) + i] = u[i]
  <2>1. u \in Seq(Nat)
    BY <1>1, <1>2, SeqMonotonic
  <2>2. Len(u) = n
    BY <1>1
  <2>3. /\ v \in Seq(Nat) /\ Len(v) = Len(w) + Len(u)
        /\ \A i \in 1 .. Len(w) : v[i] = w[i]
        /\ \A i \in 1 .. Len(u) : v[Len(w) + i] = u[i]
    BY <2>1, ConcatFacts
  <2> HIDE DEF v
  <2>. QED  BY <2>2, <2>3
<1> HIDE DEF v
<1>7. Len(v) = Len(w) + n
  BY <1>3
<1>8. Len(w) \in Nat /\ Len(r) \in Nat
  OBVIOUS
<1>4. h > 0 => v[1] = w[1]
  <2>1. h > 0 => 1 \in 1 .. Len(w)
    OBVIOUS
  <2>. QED  BY <1>3, <2>1
<1>5. ASSUME NEW i \in (h + 1) .. Len(v) PROVE v[i] = o[Len(r) + i - h]
  <2>1. CASE i <= Len(w)
    <3>1. i \in 1 .. Len(w) /\ i \in (h + 1) .. Len(w)
      BY <2>1
    <3>. QED  BY <3>1, <1>3 DEF OnWire
  <2>2. CASE ~ (i <= Len(w))
    <3> DEFINE j == i - Len(w)
    <3>0. /\ i \in Int /\ i <= Len(w) + n /\ Len(w) \in Nat /\ Len(r) \in Nat
          /\ Len(r) + Len(w) = h + s
      <4>1. i \in (h + 1) .. (Len(w) + n)
        BY <1>7
      <4>2. i \in Int /\ i <= Len(w) + n
        BY <4>1, <1>8
      <4>. QED  BY <4>2, <1>8
    <3>1. j \in 1 .. n /\ Len(w) + j = i /\ s + j = Len(r) + i - h
      <4> DEFINE x == Len(r)
                 y == Len(w)
      <4>1. i \in Int /\ i <= y + n /\ y \in Nat /\ x \in Nat /\ x + y = h + s /\ ~ (i <= y)
        BY <3>0, <2>2
      <4> HIDE DEF x, y
      <4>2. i - y \in 1 .. n /\ y + (i - y) = i /\ s + (i - y) = x + i - h
        BY <4>1
      <4>. QED  BY <4>2 DEF x, y
    <3>2. v[Len(w) + j] = u[j] /\ u[j] = o[s + j]
      BY <3>1, <1>1, <1>3
    <3>. QED  BY <3>1, <3>2
  <2>. QED  BY <2>1, <2>2
<1>6. OnWire(r, v, o, h)
  <2>1. \A i \in 1 .. Len(r) : r[i] = o[i]
    BY DEF OnWire
  <2>. QED  BY <1>5, <2>1 DEF OnWire
<1>. QED  BY <1>0, <1>3, <1>4, <1>6

(* Reading the words in front, then reading data.                          *)
Drops(v, w, h) == v = SubSeq(w, h + 1, Len(w))

LEMMA WireHead ==
  ASSUME NEW w \in Seq(Nat), NEW o \in Seq(Ring), NEW h \in Nat, h <= Len(w),
         OnWire(<<>>, w, o, h), NEW vv, Drops(vv, w, h)
  PROVE  /\ vv \in Seq(Nat) /\ Len(vv) = Len(w) - h
         /\ OnWire(<<>>, vv, o, 0)
<1> DEFINE v == SubSeq(w, h + 1, Len(w))
<1>0. vv = v
  BY DEF Drops
<1>1. /\ v \in Seq(Nat) /\ Len(v) = Len(w) - h
      /\ \A i \in 1 .. Len(v) : v[i] = w[h + i]
  OBVIOUS
<1> HIDE DEF v
<1>2. ASSUME NEW i \in 1 .. Len(v) PROVE v[i] = o[i]
  <2>1. i \in Int /\ 1 <= i /\ i <= Len(w) - h /\ Len(w) \in Nat
    BY <1>1
  <2>2. h + i \in (h + 1) .. Len(w) /\ 0 + (h + i) - h = i
    BY <2>1
  <2>3. Len(<<>>) = 0
    OBVIOUS
  <2>4. w[h + i] = o[Len(<<>>) + (h + i) - h]
    BY <2>2 DEF OnWire
  <2>5. w[h + i] = o[i]
    BY <2>2, <2>3, <2>4
  <2>. QED  BY <1>1, <2>5
<1>3. OnWire(<<>>, v, o, 0)
  <2>1. ASSUME NEW i \in (0 + 1) .. Len(v) PROVE v[i] = o[Len(<<>>) + i - 0]
    <3>1. i \in 1 .. Len(v) /\ Len(<<>>) + i - 0 = i
      BY <1>1
    <3>. QED  BY <1>2, <3>1
  <2>. QED  BY <2>1 DEF OnWire
<1>. QED  BY <1>0, <1>1, <1>3

Takes(a, r, w, n) == a = r \o SubSeq(w, 1, n)

LEMMA WireTake ==
  ASSUME NEW r \in Seq(Ring), NEW w \in Seq(Nat), NEW o \in Seq(Ring),
         NEW n \in Nat, n <= Len(w), Len(r) + Len(w) <= Len(o), OnWire(r, w, o, 0),
         NEW aa, NEW vv, Takes(aa, r, w, n), Drops(vv, w, n)
  PROVE  /\ aa \in Seq(Ring) /\ Len(aa) = Len(r) + n
         /\ vv \in Seq(Nat) /\ Len(vv) = Len(w) - n
         /\ OnWire(aa, vv, o, 0)
<1> DEFINE u == SubSeq(w, 1, n)
           a == r \o u
           v == SubSeq(w, n + 1, Len(w))
<1>0. aa = a /\ vv = v
  BY DEF Takes, Drops
<1>1. Len(u) = n /\ u \in Seq(Nat) /\ \A i \in 1 .. n : u[i] = w[i]
  OBVIOUS
<1>2. /\ v \in Seq(Nat) /\ Len(v) = Len(w) - n
      /\ \A i \in 1 .. Len(v) : v[i] = w[n + i]
  OBVIOUS
<1> HIDE DEF u, v
<1>3. \A i \in 1 .. Len(w) : w[i] = o[Len(r) + i]
  <2>1. \A i \in 1 .. Len(w) : i \in (0 + 1) .. Len(w) /\ Len(r) + i - 0 = Len(r) + i
    OBVIOUS
  <2>. QED  BY <2>1 DEF OnWire
<1>4. u \in Seq(Ring)
  <2>1. \A i \in 1 .. n : u[i] \in Ring
    <3> TAKE i \in 1 .. n
    <3>1. i \in 1 .. Len(w) /\ Len(r) + i \in 1 .. Len(o)
      OBVIOUS
    <3>2. o[Len(r) + i] \in Ring
      BY <3>1, ElementOfSeq
    <3>3. u[i] = w[i] /\ w[i] = o[Len(r) + i]
      BY <3>1, <1>1, <1>3
    <3>. QED  BY <3>2, <3>3
  <2>2. \A i \in 1 .. n : w[i] \in Ring
    BY <1>1, <2>1
  <2>3. SubSeq(w, 1, n) \in Seq(Ring)
    BY <2>2, SubSeqProperties
  <2>. QED  BY <2>3 DEF u
<1>5. /\ a \in Seq(Ring) /\ Len(a) = Len(r) + n
      /\ \A i \in 1 .. Len(r) : a[i] = r[i]
      /\ \A i \in 1 .. n : a[Len(r) + i] = u[i]
  <2>1. Len(u) = n
    BY <1>1
  <2>2. /\ a \in Seq(Ring) /\ Len(a) = Len(r) + Len(u)
        /\ \A i \in 1 .. Len(r) : a[i] = r[i]
        /\ \A i \in 1 .. Len(u) : a[Len(r) + i] = u[i]
    BY <1>4, ConcatFacts
  <2> HIDE DEF a
  <2>. QED  BY <2>1, <2>2
<1> HIDE DEF a
<1>6. ASSUME NEW i \in 1 .. Len(a) PROVE a[i] = o[i]
  <2>1. CASE i <= Len(r)
    BY <1>5, <2>1 DEF OnWire
  <2>2. CASE ~ (i <= Len(r))
    <3> DEFINE j == i - Len(r)
    <3>1. j \in 1 .. n /\ j \in 1 .. Len(w) /\ Len(r) + j = i
      BY <1>5, <2>2
    <3>2. a[Len(r) + j] = u[j] /\ u[j] = w[j] /\ w[j] = o[Len(r) + j]
      BY <3>1, <1>1, <1>3, <1>5
    <3>. QED  BY <3>1, <3>2
  <2>. QED  BY <2>1, <2>2
<1>7. ASSUME NEW i \in (0 + 1) .. Len(v) PROVE v[i] = o[Len(a) + i - 0]
  <2>1. /\ i \in 1 .. Len(v) /\ n + i \in 1 .. Len(w)
        /\ Len(r) + (n + i) = Len(a) + i - 0
    <3>1. /\ i \in Int /\ 1 <= i /\ i <= Len(v) /\ Len(v) = Len(w) - n
          /\ Len(w) \in Nat /\ Len(r) \in Nat /\ Len(a) = Len(r) + n
      BY <1>2, <1>5, SMTT(30), ZenonT(30)
    <3>2. /\ i \in 1 .. Len(v) /\ n + i \in 1 .. Len(w)
      BY <3>1
    <3>3. Len(r) + (n + i) = Len(a) + i - 0
      BY <3>1
    <3>. QED  BY <3>2, <3>3
  <2>2. v[i] = w[n + i] /\ w[n + i] = o[Len(r) + (n + i)]
    BY <2>1, <1>2, <1>3
  <2>. QED  BY <2>1, <2>2
<1>8. OnWire(a, v, o, 0)
  BY <1>6, <1>7 DEF OnWire
<1>. QED  BY <1>0, <1>2, <1>5, <1>8
-----------------------------------------------------------------------------
(* The steps of the three walks.                                           *)

(* The tables of party p after k gates.                                    *)
Tables(p, perms, k) ==
  /\ \A m \in Names : NewPerm(perms, m) <=> ~ Made(k, m)
  /\ p = 0 => HelperEntries(perms, k)

(* What walking one gate does to party p, whatever kind of gate it is.     *)
Dealt(p, c, d) ==
  LET k == At(p) IN
  /\ Advance(p, ctx[p], c, Used(k).p01, Used(k).p02, Used(k).sec, Used(k).secToOne)
  /\ Tables(p, c.perms, k)
  /\ p = 0 /\ gates[k].type = "DoubleShuffle" => PartsMade(k)
  /\ d \in PreprocGate
  /\ preproc' = [preproc EXCEPT ![p] = Append(preproc[p], d)]
  /\ ctx' = [ctx EXCEPT ![p] = c]
  /\ ledger' = IF p = 0 THEN Append(ledger, Positions(c)) ELSE ledger
  /\ UNCHANGED <<gates, tape, pc, wire, expect, off>>

LEMMA HelperEntriesFacts ==
  ASSUME NEW perms, NEW k
  PROVE  HelperEntries(perms, k) <=>
           \A m \in Names : ~ NewPerm(perms, m) =>
             \E i \in 1 .. k : /\ m \in PermNames(gates[i])
                               /\ AllPermutations(perms[m + 1], gates[i].n)
BY DEF HelperEntries, AllPermutations

(* Used by kind of gate.                                                   *)
LEMMA UsedKinds ==
  ASSUME NEW k
  PROVE  LET n == gates[k].n
             f == Making(k)
             u == Used(k)
         IN
         /\ gates[k].type \in TripleGate =>
              u.p01 = 3 * n /\ u.p02 = 2 * n /\ u.sec = n /\ u.secToOne = 0
         /\ gates[k].type = "Shuffle" =>
              u.p01 = n + 2 * f /\ u.p02 = n + f /\ u.sec = n + f /\ u.secToOne = n
         /\ gates[k].type = "DoubleShuffle" =>
              u.p01 = n + f /\ u.p02 = n + f /\ u.sec = n + f /\ u.secToOne = n + f
         /\ gates[k].type \notin TripleGate \cup ShuffleGate =>
              u.p01 = 0 /\ u.p02 = 0 /\ u.sec = 0 /\ u.secToOne = 0
<1> DEFINE n == gates[k].n
           f == Making(k)
           t == gates[k].type
<1>1. "Shuffle" \notin TripleGate /\ "DoubleShuffle" \notin TripleGate
  BY DEF TripleGate, ArithTriple, BinTriple
<1>2. ShuffleGate = {"Shuffle", "DoubleShuffle"}
  BY DEF ShuffleGate
<1>3. Used(k) =
        [p01 |-> CASE t \in TripleGate     -> 3 * n
                   [] t = "Shuffle"       -> n + 2 * f
                   [] t = "DoubleShuffle" -> n + f
                   [] OTHER               -> 0,
         p02 |-> CASE t \in TripleGate     -> 2 * n
                   [] t \in ShuffleGate    -> n + f
                   [] OTHER               -> 0,
         sec |-> CASE t \in TripleGate     -> n
                   [] t \in ShuffleGate    -> n + f
                   [] OTHER               -> 0,
         secToOne |-> CASE t = "Shuffle"       -> n
                        [] t = "DoubleShuffle" -> n + f
                        [] OTHER               -> 0]
  BY DEF Used
<1> HIDE DEF n, f, t
<1>4. t \in TripleGate =>
        Used(k) = [p01 |-> 3 * n, p02 |-> 2 * n, sec |-> n, secToOne |-> 0]
  BY <1>1, <1>2, <1>3
<1>5. t = "Shuffle" =>
        Used(k) = [p01 |-> n + 2 * f, p02 |-> n + f, sec |-> n + f, secToOne |-> n]
  BY <1>1, <1>2, <1>3
<1>6. t = "DoubleShuffle" =>
        Used(k) = [p01 |-> n + f, p02 |-> n + f, sec |-> n + f, secToOne |-> n + f]
  BY <1>1, <1>2, <1>3
<1>7. t \notin TripleGate \cup ShuffleGate =>
        Used(k) = [p01 |-> 0, p02 |-> 0, sec |-> 0, secToOne |-> 0]
  BY <1>1, <1>2, <1>3
<1>. QED  BY <1>4, <1>5, <1>6, <1>7 DEF n, f, t

LEMMA UsedFacts ==
  ASSUME gates \in Circuits, NEW k \in 1 .. Len(gates)
  PROVE  /\ Making(k) \in Nat
         /\ Used(k).p01 \in Nat /\ Used(k).p02 \in Nat
         /\ Used(k).sec \in Nat /\ Used(k).secToOne \in Nat
         /\ Used(k).secToOne <= Used(k).sec
<1> DEFINE n == gates[k].n
           f == Making(k)
           u == Used(k)
<1>1. n \in Nat /\ f \in Nat
  BY GateFacts DEF Making
<1>2. \/ u.p01 = 3 * n /\ u.p02 = 2 * n /\ u.sec = n /\ u.secToOne = 0
      \/ u.p01 = n + 2 * f /\ u.p02 = n + f /\ u.sec = n + f /\ u.secToOne = n
      \/ u.p01 = n + f /\ u.p02 = n + f /\ u.sec = n + f /\ u.secToOne = n + f
      \/ u.p01 = 0 /\ u.p02 = 0 /\ u.sec = 0 /\ u.secToOne = 0
  BY UsedKinds DEF ShuffleGate
<1> HIDE DEF n, f, u
<1>3. /\ 3 * n \in Nat /\ 2 * n \in Nat /\ n + 2 * f \in Nat /\ n + f \in Nat
      /\ n <= n + f /\ n + f <= n + f /\ 0 <= n /\ 0 <= 0 /\ 0 \in Nat
  BY <1>1
<1>. QED  BY <1>1, <1>2, <1>3 DEF n, f, u

(* A party that is walking, and the gate it is at.                         *)
LEMMA WalkFacts ==
  ASSUME IInv, NEW p \in Party, pc[p] = "walk", At(p) <= Len(gates)
  PROVE  /\ At(p) \in 1 .. Len(gates) /\ At(p) \in Nat \ {0}
         /\ At(p) - 1 = Len(preproc[p])
         /\ gates \in Circuits /\ tape \in Tapes
         /\ G(p) \in Gate /\ G(p) = gates[At(p)] /\ G(p).n \in Nat /\ G(p).n <= Modulus
         /\ ctx[p] \in Ctx
         /\ Tables(p, ctx[p].perms, At(p) - 1)
<1>1. gates \in Circuits /\ tape \in Tapes /\ ctx[p] \in Ctx /\ preproc[p] \in Seq(PreprocGate)
  BY DEF IInv, TypeOK
<1>2. gates \in Seq(Gate) /\ Len(gates) \in Nat /\ Len(preproc[p]) \in Nat
  BY <1>1, CircuitAssumption
<1>3. At(p) \in 1 .. Len(gates) /\ At(p) - 1 = Len(preproc[p])
  BY <1>2 DEF At
<1>4. Tables(p, ctx[p].perms, At(p) - 1)
  BY <1>3 DEF IInv, TablesInv, HelperInv, Tables
<1> DEFINE k == At(p)
<1>5. /\ k \in 1 .. Len(gates) /\ k \in Nat \ {0} /\ gates[k] \in Gate
      /\ gates[k].n \in Nat /\ gates[k].n <= Modulus
  <2>1. k \in 1 .. Len(gates) /\ gates \in Circuits
    BY <1>1, <1>3
  <2>2. k \in Nat \ {0}
    BY <1>2, <2>1
  <2> HIDE DEF k
  <2>3. gates[k] \in Gate /\ gates[k].n \in Nat /\ gates[k].n <= Modulus
    BY <2>1, GateFacts
  <2>. QED  BY <2>1, <2>2, <2>3
<1>. QED  BY <1>1, <1>3, <1>4, <1>5 DEF G

LEMMA TablesKept ==
  ASSUME NEW p \in Party, NEW perms, NEW k \in Nat \ {0},
         gates[k].type \notin ShuffleGate, Tables(p, perms, k - 1)
  PROVE  Tables(p, perms, k)
<1>1. \A m : Made(k, m) <=> Made(k - 1, m)
  BY MadeFacts
<1>2. p = 0 => HelperEntries(perms, k)
  <2>1. \A i \in 1 .. (k - 1) : i \in 1 .. k
    OBVIOUS
  <2>. QED  BY <2>1, HelperEntriesFacts DEF Tables
<1>. QED  BY <1>1, <1>2 DEF Tables

LEMMA TablesMade ==
  ASSUME gates \in Circuits, NEW p \in Party, NEW perms, NEW after, NEW k \in 1 .. Len(gates),
         gates[k].type \in ShuffleGate, Tables(p, perms, k - 1),
         TableStep(p, perms, after, gates[k])
  PROVE  /\ Tables(p, after, k)
         /\ p = 0 => AllPermutations(after[gates[k].param + 1], gates[k].n)
<1> DEFINE g == gates[k]
<1>0. k \in Nat \ {0} /\ g.n \in Nat /\ Names \subseteq Nat 
      /\ g.param \in PermNames(g) /\ g.param \in Names
  <2>1. g.n \in Nat
    BY GateFacts
  <2>2. Names \subseteq Nat /\ PermNames(g) \subseteq Names /\ g.param \in PermNames(g)
    BY NameFacts
  <2>. QED  BY <2>1, <2>2
<1>1. ASSUME NEW m \in Names PROVE NewPerm(after, m) <=> ~ Made(k, m)
  <2>1. NewPerm(after, m) <=> NewPerm(perms, m) /\ ~ (m = g.param /\ g.n > 0)
    BY <1>0 DEF TableStep
  <2>2. NewPerm(perms, m) <=> ~ Made(k - 1, m)
    BY DEF Tables
  <2>. QED  BY <2>1, <2>2, <1>0, MadeFacts
<1>2. ASSUME p = 0, NEW m \in Names, ~ NewPerm(after, m)
      PROVE  \E i \in 1 .. k : m \in PermNames(gates[i]) /\ AllPermutations(after[m + 1], gates[i].n)
  <2>1. CASE NewPerm(perms, m)
    <3>1. m = g.param
      BY <1>0, <1>2, <2>1 DEF TableStep
    <3>2. AllPermutations(after[g.param + 1], g.n)
      BY <1>2, <2>1, <3>1 DEF TableStep
    <3>. QED  BY <3>1, <3>2, <1>0
  <2>2. CASE ~ NewPerm(perms, m)
    <3>1. after[m + 1] = perms[m + 1]
      BY <1>0, <2>2 DEF TableStep
    <3>2. PICK i \in 1 .. (k - 1) : m \in PermNames(gates[i]) /\ AllPermutations(perms[m + 1], gates[i].n)
      BY <1>2, <2>2, HelperEntriesFacts DEF Tables
    <3>3. i \in 1 .. k
      OBVIOUS
    <3>. QED  BY <3>1, <3>2, <3>3
  <2>. QED  BY <2>1, <2>2
<1>3. p = 0 => HelperEntries(after, k)
  BY <1>2, HelperEntriesFacts
<1>4. ASSUME p = 0 PROVE AllPermutations(after[g.param + 1], g.n)
  <2>1. CASE NewPerm(perms, g.param)
    BY <1>4, <2>1 DEF TableStep
  <2>2. CASE ~ NewPerm(perms, g.param)
    <3>1. after[g.param + 1] = perms[g.param + 1]
      BY <1>0, <2>2 DEF TableStep
    <3>2. PICK i \in 1 .. (k - 1) : /\ g.param \in PermNames(gates[i])
                                    /\ AllPermutations(perms[g.param + 1], gates[i].n)
      BY <1>0, <1>4, <2>2, HelperEntriesFacts DEF Tables
    <3>3. i \in 1 .. Len(gates)
      BY GateFacts
    <3>4. gates[i].n = g.n
      BY <1>0, <3>2, <3>3, AgreeFacts
    <3>. QED  BY <3>1, <3>2, <3>4
  <2>. QED  BY <2>1, <2>2
<1>. QED  BY <1>0, <1>1, <1>3, <1>4 DEF Tables

-----------------------------------------------------------------------------
(* Each action that walks a gate is a Dealt step.                          *)
LEMMA TripleDealt ==
  ASSUME IInv, NEW p \in Party, DealTriple(p) \/ DealCompaction(p)
  PROVE  \E c, d : Dealt(p, c, d)
<1> DEFINE k == At(p)
           g == G(p)
           bin == g.type \in BinTriple
           c == AfterTriples(p, ctx[p], bin, g.n)
           d == IF p = 0 THEN [kind |-> "empty"] ELSE Triples(p, ctx[p], bin, g.n)
<1>1. /\ pc[p] = "walk" /\ At(p) <= Len(gates)
      /\ g.type \in TripleGate
  BY DEF DealTriple, DealCompaction, Walking, TripleGate
<1>2. /\ k \in 1 .. Len(gates) /\ k \in Nat \ {0}
      /\ gates \in Circuits /\ tape \in Tapes
      /\ g \in Gate /\ g = gates[k] /\ g.n \in Nat /\ g.n <= Modulus
      /\ ctx[p] \in Ctx
      /\ Tables(p, ctx[p].perms, k - 1)
  BY <1>1, WalkFacts
<1>3. Store(p, Triples(p, ctx[p], bin, g.n), c)
  <2>1. CASE DealTriple(p)
    <3>1. g.n = 1
      <4> HIDE DEF k
      <4>1. gates[k].type \in ArithTriple \cup BinTriple
        BY <2>1, <1>2 DEF DealTriple, Walking
      <4>. QED  BY <1>2, <4>1, GateFacts
    <3>. QED  BY <2>1, <3>1 DEF DealTriple
  <2>2. CASE DealCompaction(p)
    <3>1. bin = FALSE
      BY <2>2 DEF DealCompaction, Walking, BinTriple
    <3>. QED  BY <2>2, <3>1 DEF DealCompaction
  <2>. QED  BY <2>1, <2>2
<1>4. bin \in BOOLEAN
  OBVIOUS
<1>5. d \in PreprocGate
  <2>1. Triples(p, ctx[p], bin, g.n) \in PreprocGate
    <3> HIDE DEF bin, g
    <3>. QED  BY <1>2, <1>4, TriplesFacts
  <2>. QED  BY <2>1 DEF PreprocGate
<1>6. Advance(p, ctx[p], c, 3 * g.n, 2 * g.n, g.n, 0) /\ c.perms = ctx[p].perms
  <2> DEFINE n == g.n
             e == ctx[p]
  <2>1. n \in Nat /\ e \in Ctx /\ tape \in Tapes
    BY <1>2
  <2> HIDE DEF bin, n, e
  <2>2. /\ Advance(p, e, AfterTriples(p, e, bin, n), 3*n, 2*n, n, 0)
        /\ AfterTriples(p, e, bin, n).perms = e.perms
    BY <1>4, <2>1, AfterTriplesFacts
  <2>. QED  BY <2>2 DEF n, e
<1>7. /\ Used(k).p01 = 3 * g.n /\ Used(k).p02 = 2 * g.n
      /\ Used(k).sec = g.n /\ Used(k).secToOne = 0
  BY <1>1, <1>2, UsedKinds
<1>8. gates[k].type \notin ShuffleGate
  BY <1>1, <1>2 DEF TripleGate, ShuffleGate, ArithTriple, BinTriple
<1>9. Tables(p, c.perms, k)
  <2> HIDE DEF k, c
  <2>. QED  BY <1>2, <1>6, <1>8, TablesKept
<1>10. Dealt(p, c, d)
  <2>1. /\ preproc' = [preproc EXCEPT ![p] = Append(preproc[p], d)]
        /\ ctx' = [ctx EXCEPT ![p] = c]
        /\ ledger' = IF p = 0 THEN Append(ledger, Positions(c)) ELSE ledger
        /\ UNCHANGED <<gates, tape, pc, wire, expect, off>>
    BY <1>3 DEF Store
  <2>2. ~ (p = 0 /\ gates[k].type = "DoubleShuffle")
    BY <1>8 DEF ShuffleGate
  <2> HIDE DEF c, d
  <2>. QED  BY <1>5, <1>6, <1>7, <1>9, <2>1, <2>2 DEF Dealt
<1>. QED  BY <1>10

LEMMA OtherDealt ==
  ASSUME IInv, NEW p \in Party, DealInput(p) \/ SkipLocal(p)
  PROVE  \E c, d : Dealt(p, c, d)
<1> DEFINE k == At(p)
           g == G(p)
           c == ctx[p]
           d == IF g.type \in InputGate THEN [kind |-> "input", pid |-> g.owner]
                ELSE [kind |-> "empty"]
<1>1. /\ pc[p] = "walk" /\ At(p) <= Len(gates)
      /\ g.type \in InputGate \cup {"Local"}
  BY DEF DealInput, SkipLocal, Walking
<1>2. /\ k \in 1 .. Len(gates) /\ k \in Nat \ {0}
      /\ g \in Gate /\ g = gates[k]
      /\ ctx[p] \in Ctx
      /\ Tables(p, ctx[p].perms, k - 1)
  BY <1>1, WalkFacts
<1>3. gates[k].type \notin TripleGate \cup ShuffleGate
  BY <1>1, <1>2 DEF TripleGate, ShuffleGate, ArithTriple, BinTriple, InputGate
<1>4. d \in PreprocGate
  BY <1>2 DEF PreprocGate, Gate
<1>5. ctx \in [Party -> Ctx]
  BY DEF IInv, TypeOK
<1>6. /\ preproc' = [preproc EXCEPT ![p] = Append(preproc[p], d)]
      /\ ctx' = [ctx EXCEPT ![p] = c]
      /\ ledger' = IF p = 0 THEN Append(ledger, Positions(c)) ELSE ledger
      /\ UNCHANGED <<gates, tape, pc, wire, expect, off>>
  <2>1. CASE DealInput(p)
    <3>1. d = [kind |-> "input", pid |-> G(p).owner]
      BY <2>1 DEF DealInput, Walking
    <3>2. ctx' = ctx /\ ctx = [ctx EXCEPT ![p] = ctx[p]]
      BY <2>1, <1>5 DEF DealInput
    <3>. QED  BY <2>1, <3>1, <3>2 DEF DealInput
  <2>2. CASE SkipLocal(p)
    <3>1. d = [kind |-> "empty"]
      BY <2>2 DEF SkipLocal, Walking, InputGate
    <3>. QED  BY <2>2, <3>1 DEF SkipLocal, Store
  <2>. QED  BY <2>1, <2>2
<1>7. Used(k).p01 = 0 /\ Used(k).p02 = 0 /\ Used(k).sec = 0 /\ Used(k).secToOne = 0
  BY <1>3, UsedKinds
<1>8. Advance(p, ctx[p], c, 0, 0, 0, 0)
  BY <1>2 DEF Advance, Ctx
<1>9. Tables(p, c.perms, k)
  <2> HIDE DEF k
  <2>. QED  BY <1>2, <1>3, TablesKept
<1>10. Dealt(p, c, d)
  <2>2. ~ (p = 0 /\ gates[k].type = "DoubleShuffle")
    BY <1>3 DEF ShuffleGate
  <2> HIDE DEF c, d
  <2>. QED  BY <1>4, <1>6, <1>7, <1>8, <1>9, <2>2 DEF Dealt, c
<1>. QED  BY <1>10

(* Preparing a shuffle, whether its permutation is there or not.           *)
LEMMA ShuffleMoves ==
  ASSUME IInv, NEW p \in Party, DealShuffle(p)
  PROVE  LET g == G(p)
             f == Making(At(p))
             e == PrepareShuffle(p, ctx[p], g)
         IN  /\ pc[p] = "walk" /\ At(p) <= Len(gates) /\ g.type = "Shuffle"
             /\ f = MakingN(ctx[p].perms, g) /\ f \in Nat /\ 2 * f \in Nat
             /\ Advance(p, ctx[p], e, 2 * f, f, f, 0)
             /\ TableStep(p, ctx[p].perms, e.perms, g)
             /\ Tables(p, e.perms, At(p))
             /\ p = 0 => AllPermutations(e.perms[g.param + 1], g.n)
             /\ e \in Ctx
             /\ Store(p, MaskedShuffle(p, e, g), AfterMasks(p, e, g))
<1> DEFINE k == At(p)
           g == G(p)
           n == g.n
           f == Making(k)
           b == ctx[p]
           e == PrepareShuffle(p, b, g)
<1>1. /\ pc[p] = "walk" /\ At(p) <= Len(gates) /\ g.type = "Shuffle"
  BY DEF DealShuffle, Walking
<1>2. /\ k \in 1 .. Len(gates) /\ k \in Nat \ {0}
      /\ gates \in Circuits /\ tape \in Tapes
      /\ g \in Gate /\ g = gates[k] /\ n \in Nat /\ n <= Modulus
      /\ b \in Ctx
      /\ Tables(p, b.perms, k - 1)
  BY <1>1, WalkFacts
<1>3. gates[k].type \in ShuffleGate
  BY <1>1, <1>2 DEF ShuffleGate
<1>4. f = MakingN(b.perms, g) /\ f \in Nat /\ 2 * f \in Nat
  <2>1. g.param \in Names
    <3> HIDE DEF k, g
    <3>. QED  BY <1>2, <1>3, NameFacts
  <2>2. NewPerm(b.perms, g.param) <=> ~ Made(k - 1, g.param)
    BY <1>2, <2>1 DEF Tables
  <2>3. f = MakingN(b.perms, g)
    <3> HIDE DEF k, g, b
    <3>. QED  BY <1>2, <2>2 DEF MakingN, Making, f, n
  <2>4. f \in Nat
    BY <1>2, UsedFacts
  <2> HIDE DEF f
  <2>. QED  BY <2>3, <2>4
<1>5. Advance(p, b, e, 2 * f, f, f, 0) /\ TableStep(p, b.perms, e.perms, g)
  <2>1. g.n <= Modulus
    BY <1>2
  <2> HIDE DEF k, g, b, f
  <2>. QED  BY <1>2, <1>4, <2>1, PrepareShuffleFacts DEF e
<1>6. Tables(p, e.perms, k) /\ (p = 0 => AllPermutations(e.perms[g.param + 1], g.n))
  <2> HIDE DEF k, g, b, e
  <2>. QED  BY <1>2, <1>3, <1>5, TablesMade
<1>7. e \in Ctx
  BY <1>5 DEF Advance
<1>8. Store(p, MaskedShuffle(p, e, g), AfterMasks(p, e, g))
  BY DEF DealShuffle
<1>. QED  BY <1>1, <1>4, <1>5, <1>6, <1>7, <1>8

LEMMA ShuffleDealt ==
  ASSUME IInv, NEW p \in Party, DealShuffle(p)
  PROVE  \E c, d : Dealt(p, c, d)
<1> DEFINE k == At(p)
           g == G(p)
           n == g.n
           f == Making(k)
           b == ctx[p]
           e == PrepareShuffle(p, b, g)
           c == AfterMasks(p, e, g)
           d == IF p = 0 THEN [kind |-> "empty"] ELSE MaskedShuffle(p, e, g)
<1>1. /\ pc[p] = "walk" /\ At(p) <= Len(gates) /\ g.type = "Shuffle"
      /\ f \in Nat /\ 2 * f \in Nat
      /\ Advance(p, b, e, 2 * f, f, f, 0)
      /\ Tables(p, e.perms, k) /\ (p = 0 => AllPermutations(e.perms[g.param + 1], g.n))
      /\ e \in Ctx
      /\ Store(p, MaskedShuffle(p, e, g), c)
  BY ShuffleMoves
<1>2. /\ k \in 1 .. Len(gates) /\ k \in Nat \ {0}
      /\ gates \in Circuits /\ tape \in Tapes
      /\ g \in Gate /\ g = gates[k] /\ n \in Nat /\ n <= Modulus
      /\ b \in Ctx
      /\ Tables(p, b.perms, k - 1)
  BY <1>1, WalkFacts
<1>3. Advance(p, e, c, n, n, n, n) /\ c.perms = e.perms
  <2> HIDE DEF e, g
  <2>. QED  BY <1>1, <1>2, AfterMasksFacts
<1>4. Advance(p, b, c, 2 * f + n, f + n, f + n, 0 + n)
  <2> HIDE DEF b, c, e, f, n
  <2>. QED  BY <1>1, <1>2, <1>3, AdvanceTwice
<1>5. /\ Used(k).p01 = 2 * f + n /\ Used(k).p02 = f + n
      /\ Used(k).sec = f + n /\ Used(k).secToOne = 0 + n
  <2>1. /\ Used(k).p01 = n + 2 * f /\ Used(k).p02 = n + f
        /\ Used(k).sec = n + f /\ Used(k).secToOne = n
    BY <1>1, <1>2, UsedKinds
  <2> HIDE DEF n, f
  <2>. QED  BY <1>1, <1>2, <2>1, SMTT(30), ZenonT(30)
<1>6. d \in PreprocGate
  <2>1. CASE p = 0
    BY <2>1 DEF PreprocGate
  <2>2. CASE p # 0
    <3>1. p \in Online /\ g.n <= Modulus
      BY <1>2, <2>2 DEF Party, Online
    <3> HIDE DEF e, g
    <3>2. MaskedShuffle(p, e, g) \in PreprocGate
      BY <1>1, <1>2, <3>1, MaskedShuffleFacts
    <3>. QED  BY <2>2, <3>2
  <2>. QED  BY <2>1, <2>2
<1>7. /\ preproc' = [preproc EXCEPT ![p] = Append(preproc[p], d)]
      /\ ctx' = [ctx EXCEPT ![p] = c]
      /\ ledger' = IF p = 0 THEN Append(ledger, Positions(c)) ELSE ledger
      /\ UNCHANGED <<gates, tape, pc, wire, expect, off>>
  BY <1>1 DEF Store
<1>8. ~ (p = 0 /\ gates[k].type = "DoubleShuffle")
  BY <1>1, <1>2
<1>9. Dealt(p, c, d)
  <2>1. Advance(p, ctx[p], c, Used(k).p01, Used(k).p02, Used(k).sec, Used(k).secToOne)
    BY <1>4, <1>5
  <2> HIDE DEF c, d, e
  <2>. QED  BY <1>1, <1>3, <1>6, <1>7, <1>8, <2>1 DEF Dealt
<1>. QED  BY <1>9

(* What the check before a double shuffle establishes at the helper.       *)
LEMMA PartsFacts ==
  ASSUME gates \in Circuits, NEW k \in 1 .. Len(gates), gates[k].type = "DoubleShuffle",
         NEW p \in Party, NEW c \in Ctx, Tables(p, c.perms, k - 1),
         ~ DoubleThrows(c, gates[k])
  PROVE  /\ NewPerm(c.perms, gates[k].param) =>
              /\ PartsReady(p, c, gates[k])
              /\ ~ NewPerm(c.perms, gates[k].param2) /\ ~ NewPerm(c.perms, gates[k].param3)
         /\ PartsMade(k)
<1> DEFINE g == gates[k]
           t == Grown(c.perms, g.param)
<1>1. /\ Names \subseteq Nat /\ PermNames(g) \subseteq Names
      /\ {g.param2, g.param3} \subseteq PermNames(g) /\ g.param \in PermNames(g)
  BY NameFacts DEF ShuffleGate
<1>2. c.perms \in Seq(Entry) /\ g.param \in Nat
  BY <1>1 DEF Ctx
<1>3. ASSUME NEW m \in Nat PROVE NewPerm(t, m) <=> NewPerm(c.perms, m)
  <2> DEFINE x == g.param
  <2>1. x \in Nat
    BY <1>2
  <2> HIDE DEF x
  <2>2. NewPerm(Grown(c.perms, x), m) <=> NewPerm(c.perms, m)
    BY <1>2, <2>1, GrownFacts
  <2>. QED  BY <2>2 DEF x
<1>4. NewPerm(c.perms, g.param) =>
        \A m \in {g.param2, g.param3} : ~ NewPerm(c.perms, m)
  <2>1. NewPerm(c.perms, g.param) => \A m \in {g.param2, g.param3} : ~ NewPerm(t, m)
    BY DEF DoubleThrows
  <2> HIDE DEF t
  <2>. QED  BY <1>1, <1>3, <2>1
<1>5. ASSUME p = 0, NEW m \in PermNames(g), ~ NewPerm(c.perms, m)
      PROVE  AllPermutations(c.perms[m + 1], g.n)
  <2>1. PICK i \in 1 .. (k - 1) : /\ m \in PermNames(gates[i])
                                  /\ AllPermutations(c.perms[m + 1], gates[i].n)
    BY <1>1, <1>5, HelperEntriesFacts DEF Tables
  <2>2. i \in 1 .. Len(gates)
    BY GateFacts
  <2>3. gates[i].n = g.n
    BY <2>1, <2>2, AgreeFacts
  <2>. QED  BY <2>1, <2>3
<1>6. NewPerm(c.perms, g.param) => PartsReady(p, c, g)
  BY <1>1, <1>4, <1>5 DEF PartsReady
<1>7. \A m \in PermNames(g) : NewPerm(c.perms, m) <=> ~ Made(k - 1, m)
  BY <1>1 DEF Tables
<1>8. PartsMade(k)
  BY <1>1, <1>4, <1>7 DEF PartsMade
<1>. QED  BY <1>4, <1>6, <1>8

LEMMA DoubleMoves ==
  ASSUME IInv, NEW p \in Party, DealDouble(p)
  PROVE  LET g == G(p)
             f == Making(At(p))
             e == PrepareDouble(p, ctx[p], g)
         IN  /\ pc[p] = "walk" /\ At(p) <= Len(gates) /\ g.type = "DoubleShuffle"
             /\ f = MakingN(ctx[p].perms, g) /\ f \in Nat
             /\ NewPerm(ctx[p].perms, g.param) =>
                  /\ PartsReady(p, ctx[p], g)
                  /\ ~ NewPerm(ctx[p].perms, g.param2) /\ ~ NewPerm(ctx[p].perms, g.param3)
             /\ PartsMade(At(p))
             /\ Advance(p, ctx[p], e, f, f, f, f)
             /\ TableStep(p, ctx[p].perms, e.perms, g)
             /\ Tables(p, e.perms, At(p))
             /\ p = 0 => AllPermutations(e.perms[g.param + 1], g.n)
             /\ e \in Ctx
             /\ Store(p, MaskedShuffle(p, e, g), AfterMasks(p, e, g))
<1> DEFINE k == At(p)
           g == G(p)
           n == g.n
           f == Making(k)
           b == ctx[p]
           e == PrepareDouble(p, b, g)
<1>1. /\ pc[p] = "walk" /\ At(p) <= Len(gates) /\ g.type = "DoubleShuffle"
  BY DEF DealDouble, Walking
<1>2. /\ k \in 1 .. Len(gates) /\ k \in Nat \ {0}
      /\ gates \in Circuits /\ tape \in Tapes
      /\ g \in Gate /\ g = gates[k] /\ n \in Nat /\ n <= Modulus
      /\ b \in Ctx
      /\ Tables(p, b.perms, k - 1)
  BY <1>1, WalkFacts
<1>3. gates[k].type \in ShuffleGate
  BY <1>1, <1>2 DEF ShuffleGate
<1>4. f = MakingN(b.perms, g) /\ f \in Nat
  <2>1. g.param \in Names
    <3> HIDE DEF k, g
    <3>. QED  BY <1>2, <1>3, NameFacts
  <2>2. NewPerm(b.perms, g.param) <=> ~ Made(k - 1, g.param)
    BY <1>2, <2>1 DEF Tables
  <2>3. f = MakingN(b.perms, g)
    <3> HIDE DEF k, g, b
    <3>. QED  BY <1>2, <2>2 DEF MakingN, Making, f, n
  <2>4. f \in Nat
    BY <1>2, UsedFacts
  <2> HIDE DEF f
  <2>. QED  BY <2>3, <2>4
<1>5. /\ NewPerm(b.perms, g.param) =>
           /\ PartsReady(p, b, g)
           /\ ~ NewPerm(b.perms, g.param2) /\ ~ NewPerm(b.perms, g.param3)
      /\ PartsMade(k)
  <2>1. ~ DoubleThrows(b, gates[k]) /\ gates[k].type = "DoubleShuffle"
    BY <1>1, <1>2 DEF DealDouble
  <2> HIDE DEF k, g, b
  <2>. QED  BY <1>2, <2>1, PartsFacts
<1>6. Advance(p, b, e, f, f, f, f) /\ TableStep(p, b.perms, e.perms, g)
  <2>1. g.n <= Modulus
    BY <1>2
  <2> HIDE DEF k, g, b, f
  <2>. QED  BY <1>2, <1>4, <1>5, <2>1, PrepareDoubleFacts DEF e
<1>7. Tables(p, e.perms, k) /\ (p = 0 => AllPermutations(e.perms[g.param + 1], g.n))
  <2> HIDE DEF k, g, b, e
  <2>. QED  BY <1>2, <1>3, <1>6, TablesMade
<1>8. e \in Ctx
  BY <1>6 DEF Advance
<1>9. Store(p, MaskedShuffle(p, e, g), AfterMasks(p, e, g))
  BY DEF DealDouble
<1>. QED  BY <1>1, <1>4, <1>5, <1>6, <1>7, <1>8, <1>9

LEMMA DoubleDealt ==
  ASSUME IInv, NEW p \in Party, DealDouble(p)
  PROVE  \E c, d : Dealt(p, c, d)
<1> DEFINE k == At(p)
           g == G(p)
           n == g.n
           f == Making(k)
           b == ctx[p]
           e == PrepareDouble(p, b, g)
           c == AfterMasks(p, e, g)
           d == IF p = 0 THEN [kind |-> "empty"] ELSE MaskedShuffle(p, e, g)
<1>1. /\ pc[p] = "walk" /\ At(p) <= Len(gates) /\ g.type = "DoubleShuffle"
      /\ f \in Nat /\ PartsMade(k)
      /\ Advance(p, b, e, f, f, f, f)
      /\ Tables(p, e.perms, k) /\ (p = 0 => AllPermutations(e.perms[g.param + 1], g.n))
      /\ e \in Ctx
      /\ Store(p, MaskedShuffle(p, e, g), c)
  BY DoubleMoves
<1>2. /\ k \in 1 .. Len(gates) /\ k \in Nat \ {0}
      /\ gates \in Circuits /\ tape \in Tapes
      /\ g \in Gate /\ g = gates[k] /\ n \in Nat /\ n <= Modulus
      /\ b \in Ctx
      /\ Tables(p, b.perms, k - 1)
  BY <1>1, WalkFacts
<1>3. Advance(p, e, c, n, n, n, n) /\ c.perms = e.perms
  <2> HIDE DEF e, g
  <2>. QED  BY <1>1, <1>2, AfterMasksFacts
<1>4. Advance(p, b, c, f + n, f + n, f + n, f + n)
  <2> HIDE DEF b, c, e, f, n
  <2>. QED  BY <1>1, <1>2, <1>3, AdvanceTwice
<1>5. /\ Used(k).p01 = f + n /\ Used(k).p02 = f + n
      /\ Used(k).sec = f + n /\ Used(k).secToOne = f + n
  <2>1. /\ Used(k).p01 = n + f /\ Used(k).p02 = n + f
        /\ Used(k).sec = n + f /\ Used(k).secToOne = n + f
    BY <1>1, <1>2, UsedKinds
  <2> HIDE DEF n, f
  <2>. QED  BY <1>1, <1>2, <2>1
<1>6. d \in PreprocGate
  <2>1. CASE p = 0
    BY <2>1 DEF PreprocGate
  <2>2. CASE p # 0
    <3>1. p \in Online /\ g.n <= Modulus
      BY <1>2, <2>2 DEF Party, Online
    <3> HIDE DEF e, g
    <3>2. MaskedShuffle(p, e, g) \in PreprocGate
      BY <1>1, <1>2, <3>1, MaskedShuffleFacts
    <3>. QED  BY <2>2, <3>2
  <2>. QED  BY <2>1, <2>2
<1>7. /\ preproc' = [preproc EXCEPT ![p] = Append(preproc[p], d)]
      /\ ctx' = [ctx EXCEPT ![p] = c]
      /\ ledger' = IF p = 0 THEN Append(ledger, Positions(c)) ELSE ledger
      /\ UNCHANGED <<gates, tape, pc, wire, expect, off>>
  BY <1>1 DEF Store
<1>8. Dealt(p, c, d)
  <2>1. Advance(p, ctx[p], c, Used(k).p01, Used(k).p02, Used(k).sec, Used(k).secToOne)
    BY <1>4, <1>5
  <2> HIDE DEF c, d, e
  <2>. QED  BY <1>1, <1>3, <1>6, <1>7, <2>1 DEF Dealt
<1>. QED  BY <1>8

-----------------------------------------------------------------------------
(* A Dealt step preserves the invariant, one lemma per conjunct.           *)
LEMMA DealtAt ==
  ASSUME IInv, NEW p \in Party, pc[p] = "walk", At(p) <= Len(gates), NEW c, NEW d,
         Dealt(p, c, d)
  PROVE  /\ c \in Ctx /\ ctx' = [ctx EXCEPT ![p] = c] /\ ctx'[p] = c
         /\ \A q \in Party \ {p} : ctx'[q] = ctx[q] /\ preproc'[q] = preproc[q]
         /\ preproc' = [preproc EXCEPT ![p] = Append(preproc[p], d)]
         /\ preproc'[p] = Append(preproc[p], d)
         /\ Len(preproc'[p]) = At(p) /\ At(p) = Len(preproc[p]) + 1
         /\ d \in PreprocGate
         /\ gates' = gates /\ tape' = tape /\ pc' = pc /\ wire' = wire
         /\ expect' = expect /\ off' = off
<1>1. /\ ctx \in [Party -> Ctx] /\ preproc \in [Party -> Seq(PreprocGate)]
  BY DEF IInv, TypeOK
<1>2. /\ c \in Ctx /\ d \in PreprocGate /\ ctx' = [ctx EXCEPT ![p] = c]
      /\ preproc' = [preproc EXCEPT ![p] = Append(preproc[p], d)]
      /\ gates' = gates /\ tape' = tape /\ pc' = pc /\ wire' = wire
      /\ expect' = expect /\ off' = off
  BY DEF Dealt, Advance
<1>3. Len(Append(preproc[p], d)) = Len(preproc[p]) + 1
  BY <1>1, <1>2
<1>. QED  BY <1>1, <1>2, <1>3 DEF At

LEMMA PositionsTyped ==
  ASSUME NEW c \in Ctx
  PROVE  Positions(c) \in [p01 : Nat, p02 : Nat, sec : Nat, secToOne : Nat]
BY DEF Positions, Ctx

LEMMA DealtType ==
  ASSUME IInv, NEW p \in Party, pc[p] = "walk", At(p) <= Len(gates), NEW c, NEW d,
         Dealt(p, c, d)
  PROVE  TypeOK'
<1>1. /\ c \in Ctx /\ ctx' = [ctx EXCEPT ![p] = c]
      /\ preproc' = [preproc EXCEPT ![p] = Append(preproc[p], d)]
      /\ d \in PreprocGate
      /\ gates' = gates /\ tape' = tape /\ pc' = pc /\ wire' = wire
      /\ expect' = expect /\ off' = off
  BY DealtAt
<1>2. TypeOK
  BY DEF IInv
<1>3. ctx' \in [Party -> Ctx]
  BY <1>1, <1>2 DEF TypeOK
<1>4. preproc' \in [Party -> Seq(PreprocGate)]
  <2>1. preproc[p] \in Seq(PreprocGate)
    BY <1>2 DEF TypeOK
  <2>2. Append(preproc[p], d) \in Seq(PreprocGate)
    BY <1>1, <2>1
  <2>. QED  BY <1>1, <1>2, <2>2 DEF TypeOK
<1>5. ledger' \in Seq([p01 : Nat, p02 : Nat, sec : Nat, secToOne : Nat])
  <2> DEFINE S == [p01 : Nat, p02 : Nat, sec : Nat, secToOne : Nat]
             x == Positions(c)
  <2>1. ledger' = IF p = 0 THEN Append(ledger, x) ELSE ledger
    BY DEF Dealt
  <2>2. x \in S /\ ledger \in Seq(S)
    BY <1>1, <1>2, PositionsTyped DEF TypeOK
  <2> HIDE DEF S, x
  <2>3. ledger' \in Seq(S)
    BY <2>1, <2>2
  <2>. QED  BY <2>3 DEF S
<1>. QED  BY <1>1, <1>2, <1>3, <1>4, <1>5 DEF TypeOK

(* Facts about the circuit do not change.                                  *)
LEMMA SameCircuit ==
  ASSUME gates' = gates
  PROVE  /\ Names' = Names
         /\ \A k : Used(k)' = Used(k) /\ PartsMade(k)' = PartsMade(k)
         /\ \A k, m : Made(k, m)' = Made(k, m)
         /\ \A perms, k : HelperEntries(perms, k)' = HelperEntries(perms, k)
<1>1. Names' = Names
  BY DEF Names, PermNames
<1>2. \A k, m : Made(k, m)' = Made(k, m)
  BY DEF Made
<1>3. \A k : Making(k)' = Making(k)
  BY <1>2 DEF Making
<1>4. \A k : Used(k)' = Used(k)
  BY <1>3 DEF Used
<1>5. \A k : PartsMade(k)' = PartsMade(k)
  BY <1>2 DEF PartsMade
<1>6. \A perms, k : HelperEntries(perms, k)' = HelperEntries(perms, k)
  BY <1>1 DEF HelperEntries, PermNames
<1>. QED  BY <1>1, <1>2, <1>4, <1>5, <1>6

LEMMA BeforeTyped ==
  ASSUME IInv, NEW i \in 1 .. (Len(ledger) + 1)
  PROVE  /\ HelperBefore(i).p01 \in Nat /\ HelperBefore(i).p02 \in Nat
         /\ HelperBefore(i).sec \in Nat /\ HelperBefore(i).secToOne \in Nat
<1> DEFINE S == [p01 : Nat, p02 : Nat, sec : Nat, secToOne : Nat]
<1>1. ledger \in Seq(S)
  BY DEF IInv, TypeOK
<1>2. CASE i = 1
  BY <1>2 DEF HelperBefore, ZeroPositions
<1>3. CASE i # 1
  <2>1. i - 1 \in 1 .. Len(ledger)
    BY <1>1, <1>3
  <2>2. ledger[i - 1] \in S
    <3> HIDE DEF S
    <3>. QED  BY <1>1, <2>1
  <2>. QED  BY <1>3, <2>2 DEF HelperBefore
<1>. QED  BY <1>2, <1>3

(* The ledger after the helper has walked one more gate.                   *)
LEMMA LedgerAppend ==
  ASSUME IInv, NEW x \in [p01 : Nat, p02 : Nat, sec : Nat, secToOne : Nat],
         ledger' = Append(ledger, x)
  PROVE  /\ Len(ledger') = Len(ledger) + 1 /\ Len(ledger) \in Nat
         /\ \A i \in 1 .. Len(ledger) : ledger'[i] = ledger[i]
         /\ ledger'[Len(ledger) + 1] = x
         /\ \A i \in 1 .. (Len(ledger) + 1) : HelperBefore(i)' = HelperBefore(i)
         /\ \A i : i = Len(ledger) + 2 => HelperBefore(i)' = x
<1> DEFINE S == [p01 : Nat, p02 : Nat, sec : Nat, secToOne : Nat]
<1>1. ledger \in Seq(S)
  BY DEF IInv, TypeOK
<1>2. x \in S
  OBVIOUS
<1> HIDE DEF S
<1>3. /\ Len(ledger') = Len(ledger) + 1 /\ Len(ledger) \in Nat
      /\ \A i \in 1 .. Len(ledger) : ledger'[i] = ledger[i]
      /\ ledger'[Len(ledger) + 1] = x
  BY <1>1, <1>2
<1>4. \A i \in 1 .. (Len(ledger) + 1) : HelperBefore(i)' = HelperBefore(i)
  <2> TAKE i \in 1 .. (Len(ledger) + 1)
  <2>1. CASE i = 1
    BY <2>1 DEF HelperBefore, ZeroPositions
  <2>2. CASE i # 1
    <3>1. i - 1 \in 1 .. Len(ledger)
      BY <1>3, <2>2
    <3>2. ledger'[i - 1] = ledger[i - 1]
      BY <1>3, <3>1
    <3>. QED  BY <2>2, <3>2 DEF HelperBefore
  <2>. QED  BY <2>1, <2>2
<1>5. ASSUME NEW CONSTANT i, i = Len(ledger) + 2 PROVE HelperBefore(i)' = x
  <2>1. i # 1 /\ i - 1 = Len(ledger) + 1
    BY <1>3, <1>5
  <2>2. HelperBefore(i)' = ledger'[i - 1]
    BY <2>1 DEF HelperBefore
  <2>. QED  BY <1>3, <2>1, <2>2
<1>. QED  BY <1>3, <1>4, <1>5

LEMMA DealtLedger ==
  ASSUME IInv, NEW p \in Party, pc[p] = "walk", At(p) <= Len(gates), NEW c, NEW d,
         Dealt(p, c, d)
  PROVE  LedgerInv' /\ LedgerGrows'
<1> DEFINE l == Len(ledger)
<1>0. /\ c \in Ctx /\ ctx'[p] = c /\ gates' = gates
      /\ \A q \in Party \ {p} : ctx'[q] = ctx[q] /\ preproc'[q] = preproc[q]
      /\ Len(preproc'[p]) = At(p) /\ At(p) = Len(preproc[p]) + 1
  BY DealtAt
<1>1. /\ l = Len(preproc[0]) /\ Positions(ctx[0]) = HelperBefore(l + 1)
      /\ \A k \in 1 .. l :
           /\ ledger[k].p01      = HelperBefore(k).p01      + Used(k).p01
           /\ ledger[k].p02      = HelperBefore(k).p02      + Used(k).p02
           /\ ledger[k].sec      = HelperBefore(k).sec      + Used(k).sec
           /\ ledger[k].secToOne = HelperBefore(k).secToOne + Used(k).secToOne
  BY DEF IInv, LedgerInv
<1>2. \A i, j \in 1 .. (l + 1) : i <= j =>
        /\ HelperBefore(i).sec      <= HelperBefore(j).sec
        /\ HelperBefore(i).secToOne <= HelperBefore(j).secToOne
        /\ HelperBefore(j).secToOne <= HelperBefore(j).sec
  BY DEF IInv, LedgerGrows
<1>3. \A k : Used(k)' = Used(k)
  BY <1>0, SameCircuit
<1>4. CASE p # 0
  <2>1. ledger' = ledger /\ ctx'[0] = ctx[0] /\ preproc'[0] = preproc[0]
    BY <1>0, <1>4 DEF Dealt, Party
  <2>2. \A i : HelperBefore(i)' = HelperBefore(i)
    BY <2>1 DEF HelperBefore, ZeroPositions
  <2>3. Positions(ctx[0])' = Positions(ctx[0])
    BY <2>1 DEF Positions
  <2>4. LedgerInv'
    <3>1. \A i : i = l + 1 => Positions(ctx[0])' = HelperBefore(i)'
      BY <1>1, <2>2, <2>3
    <3>2. (Positions(ctx[0]) = HelperBefore(Len(ledger) + 1))'
      BY <2>1, <3>1 DEF HelperBefore, ZeroPositions
    <3>. QED  BY <1>1, <1>3, <2>1, <2>2, <3>2 DEF LedgerInv
  <2>5. LedgerGrows'
    BY <1>2, <2>1, <2>2 DEF LedgerGrows
  <2>. QED  BY <2>4, <2>5
<1>5. CASE p = 0
  <2> DEFINE x == Positions(c)
             b == HelperBefore(l + 1)
             k == At(0)
  <2>1. x \in [p01 : Nat, p02 : Nat, sec : Nat, secToOne : Nat]
    BY <1>0, PositionsTyped
  <2>2. ledger' = Append(ledger, x)
    BY <1>5 DEF Dealt
  <2>3. /\ Len(ledger') = l + 1 /\ l \in Nat
        /\ \A i \in 1 .. l : ledger'[i] = ledger[i]
        /\ ledger'[l + 1] = x
        /\ \A i \in 1 .. (l + 1) : HelperBefore(i)' = HelperBefore(i)
        /\ \A i : i = l + 2 => HelperBefore(i)' = x
    <3> HIDE DEF x
    <3>. QED  BY <2>1, <2>2, LedgerAppend
  <2>4. /\ b.p01 \in Nat /\ b.p02 \in Nat /\ b.sec \in Nat /\ b.secToOne \in Nat
        /\ b.secToOne <= b.sec
    <3>1. l + 1 \in 1 .. (l + 1)
      BY <2>3
    <3> HIDE DEF l
    <3>. QED  BY <3>1, <1>2, BeforeTyped DEF l
  <2>5. k = l + 1 /\ k \in 1 .. Len(gates) /\ gates \in Circuits
    <3>1. k \in 1 .. Len(gates) /\ gates \in Circuits
      BY <1>5, WalkFacts
    <3>. QED  BY <1>0, <1>1, <1>5, <3>1
  <2>6. /\ x.p01 = b.p01 + Used(k).p01 /\ x.p02 = b.p02 + Used(k).p02
        /\ x.sec = b.sec + Used(k).sec /\ x.secToOne = b.secToOne + Used(k).secToOne
    <3>1. /\ c.p01 = ctx[0].p01 + Used(k).p01 /\ c.p02 = ctx[0].p02 + Used(k).p02
          /\ Len(c.sec) = Len(ctx[0].sec) + Used(k).sec
          /\ Len(c.secToOne) = Len(ctx[0].secToOne) + Used(k).secToOne
      BY <1>5 DEF Dealt, Advance
    <3>2. b = Positions(ctx[0])
      BY <1>1
    <3> HIDE DEF b, k
    <3>. QED  BY <3>1, <3>2 DEF Positions
  <2>7. Used(k).sec \in Nat /\ Used(k).secToOne \in Nat /\ Used(k).secToOne <= Used(k).sec
    <3> HIDE DEF k
    <3>. QED  BY <2>5, UsedFacts
  <2>8. LedgerInv'
    <3>1. Len(ledger') = Len(preproc'[0])
      BY <1>0, <1>5, <2>3, <2>5
    <3>2. (Positions(ctx[0]) = HelperBefore(Len(ledger) + 1))'
      <4>1. Positions(ctx[0])' = x
        BY <1>0, <1>5 DEF Positions
      <4>2. HelperBefore(Len(ledger) + 1)' = ledger'[l + 1]
        <5>1. Len(ledger') + 1 # 1 /\ (Len(ledger') + 1) - 1 = l + 1
          BY <2>3
        <5>. QED  BY <5>1 DEF HelperBefore
      <4>. QED  BY <4>1, <4>2, <2>3
    <3>3. ASSUME NEW CONSTANT i \in 1 .. (l + 1)
          PROVE  /\ ledger'[i].p01      = HelperBefore(i)'.p01      + Used(i)'.p01
                 /\ ledger'[i].p02      = HelperBefore(i)'.p02      + Used(i)'.p02
                 /\ ledger'[i].sec      = HelperBefore(i)'.sec      + Used(i)'.sec
                 /\ ledger'[i].secToOne = HelperBefore(i)'.secToOne + Used(i)'.secToOne
      <4>1. HelperBefore(i)' = HelperBefore(i) /\ Used(i)' = Used(i)
        BY <1>3, <2>3
      <4>2. CASE i = l + 1
        <5>1. ledger'[i] = x /\ HelperBefore(i) = b /\ Used(i) = Used(k)
          BY <4>2, <2>3, <2>5
        <5> HIDE DEF x, b, k
        <5>. QED  BY <4>1, <5>1, <2>6
      <4>3. CASE i # l + 1
        <5>1. i \in 1 .. l
          BY <4>3, <2>3
        <5>2. ledger'[i] = ledger[i]
          BY <2>3, <5>1
        <5>. QED  BY <4>1, <5>1, <5>2, <1>1
      <4>. QED  BY <4>2, <4>3
    <3>. QED  BY <2>3, <3>1, <3>2, <3>3 DEF LedgerInv
  <2>9. LedgerGrows'
    <3> DEFINE N == l + 2
    <3>1. N = Len(ledger') + 1 /\ \A i : i \in 1 .. N /\ i # N => i \in 1 .. (l + 1) /\ i <= l + 1
      BY <2>3
    <3>2. /\ b.sec <= x.sec /\ b.secToOne <= x.secToOne /\ x.secToOne <= x.sec
          /\ x.sec \in Nat /\ x.secToOne \in Nat
      <4>1. x.sec = b.sec + Used(k).sec /\ x.secToOne = b.secToOne + Used(k).secToOne
        BY <2>6
      <4> DEFINE u == Used(k)
      <4> HIDE DEF x, b, k, u
      <4>. QED  BY SMTT(30), <4>1, <2>4, <2>7 DEF u
    <3>3. ASSUME NEW CONSTANT i \in 1 .. N, NEW CONSTANT j \in 1 .. N, i <= j
          PROVE  /\ HelperBefore(i)'.sec      <= HelperBefore(j)'.sec
                 /\ HelperBefore(i)'.secToOne <= HelperBefore(j)'.secToOne
                 /\ HelperBefore(j)'.secToOne <= HelperBefore(j)'.sec
      <4> HIDE DEF x
      <4>1. CASE j # N
        <5>1. i \in 1 .. (l + 1) /\ j \in 1 .. (l + 1)
          BY <3>1, <3>3, <4>1, <2>3
        <5>2. HelperBefore(i)' = HelperBefore(i) /\ HelperBefore(j)' = HelperBefore(j)
          BY <5>1, <2>3
        <5>. QED  BY <3>3, <5>1, <5>2, <1>2
      <4>2. CASE j = N /\ i = N
        <5>1. HelperBefore(i)' = x /\ HelperBefore(j)' = x
          BY <4>2, <2>3
        <5>. QED  BY <5>1, <3>2
      <4>3. CASE j = N /\ i # N
        <5>1. HelperBefore(i)' = HelperBefore(i) /\ HelperBefore(j)' = x
          BY <4>3, <3>1, <2>3
        <5>2. HelperBefore(i).sec <= b.sec /\ HelperBefore(i).secToOne <= b.secToOne
          <6>1. l + 1 \in 1 .. (l + 1) /\ i \in 1 .. (l + 1) /\ i <= l + 1
            BY <3>1, <4>3, <2>3
          <6>. QED  BY <6>1, <1>2
        <5>3. HelperBefore(i).sec \in Nat /\ HelperBefore(i).secToOne \in Nat
          <6>1. i \in 1 .. (Len(ledger) + 1)
            BY <3>1, <4>3
          <6>. QED  BY <6>1, BeforeTyped
        <5> DEFINE y == HelperBefore(i)
        <5> HIDE DEF y, b
        <5>. QED  BY <5>1, <5>2, <5>3, <3>2, <2>4, SMTT(30), ZenonT(30) DEF y
      <4>. QED  BY <4>1, <4>2, <4>3
    <3>. QED  BY <3>1, <3>3 DEF LedgerGrows
  <2>. QED  BY <2>8, <2>9
<1>. QED  BY <1>4, <1>5

LEMMA DealtTables ==
  ASSUME IInv, NEW p \in Party, pc[p] = "walk", At(p) <= Len(gates), NEW c, NEW d,
         Dealt(p, c, d)
  PROVE  TablesInv' /\ HelperInv'
<1>0. /\ c \in Ctx /\ ctx'[p] = c /\ gates' = gates
      /\ \A q \in Party \ {p} : ctx'[q] = ctx[q] /\ preproc'[q] = preproc[q]
      /\ Len(preproc'[p]) = At(p) /\ At(p) = Len(preproc[p]) + 1
  BY DealtAt
<1>1. /\ Names' = Names
      /\ \A k : PartsMade(k)' = PartsMade(k)
      /\ \A k, m : Made(k, m)' = Made(k, m)
      /\ \A perms, k : HelperEntries(perms, k)' = HelperEntries(perms, k)
  BY <1>0, SameCircuit
<1>2. Tables(p, c.perms, At(p)) /\ (p = 0 /\ gates[At(p)].type = "DoubleShuffle" => PartsMade(At(p)))
  BY DEF Dealt
<1>3. ASSUME NEW CONSTANT q \in Party, NEW CONSTANT m \in Names,
             NEW CONSTANT k, k = Len(preproc'[q])
      PROVE  NewPerm(ctx[q].perms, m)' <=> ~ Made(k, m)'
  <2>1. CASE q = p
    <3>1. NewPerm(c.perms, m) <=> ~ Made(k, m)
      BY <1>0, <1>2, <1>3, <2>1 DEF Tables
    <3>2. NewPerm(ctx[q].perms, m)' <=> NewPerm(c.perms, m)
      BY <1>0, <2>1 DEF NewPerm, Unfilled, Size0
    <3>. QED  BY <1>1, <3>1, <3>2
  <2>2. CASE q # p
    <3>1. ctx'[q] = ctx[q] /\ preproc'[q] = preproc[q]
      BY <1>0, <2>2
    <3>2. NewPerm(ctx[q].perms, m) <=> ~ Made(Len(preproc[q]), m)
      BY DEF IInv, TablesInv
    <3>3. NewPerm(ctx[q].perms, m)' <=> NewPerm(ctx[q].perms, m)
      BY <3>1 DEF NewPerm, Unfilled, Size0
    <3>. QED  BY <1>1, <1>3, <3>1, <3>2, <3>3
  <2>. QED  BY <2>1, <2>2
<1>4. ASSUME NEW CONSTANT q \in Party, NEW CONSTANT m \in Names
      PROVE  (NewPerm(ctx[q].perms, m) <=> ~ Made(Len(preproc[q]), m))'
  <2>1. \A k : k = Len(preproc'[q]) => Made(Len(preproc[q]), m)' = Made(k, m)'
    BY DEF Made
  <2>. QED  BY <1>3, <2>1
<1>5. TablesInv'
  BY <1>1, <1>4 DEF TablesInv
<1>6. HelperEntries(ctx[0].perms, Len(preproc[0]))'
  <2>1. HelperEntries(ctx'[0].perms, Len(preproc'[0]))
    <3>1. CASE p = 0
      BY <1>0, <1>2, <3>1 DEF Tables
    <3>2. CASE p # 0
      <4>1. ctx'[0] = ctx[0] /\ preproc'[0] = preproc[0]
        BY <1>0, <3>2 DEF Party
      <4>. QED  BY <4>1 DEF IInv, HelperInv
    <3>. QED  BY <3>1, <3>2
  <2>2. \A perms, k : perms = ctx'[0].perms /\ k = Len(preproc'[0]) =>
          HelperEntries(ctx[0].perms, Len(preproc[0]))' = HelperEntries(perms, k)'
    BY DEF HelperEntries
  <2>. QED  BY <1>1, <2>1, <2>2
<1>7. ASSUME NEW CONSTANT k \in 1 .. Len(preproc'[0]), gates'[k].type = "DoubleShuffle"
      PROVE  PartsMade(k)'
  <2>1. CASE k \in 1 .. Len(preproc[0])
    BY <1>0, <1>1, <1>7, <2>1 DEF IInv, HelperInv
  <2>2. CASE k \notin 1 .. Len(preproc[0])
    <3>1. p = 0
      BY <1>0, <2>2 DEF Party
    <3>2. k = At(p)
      BY <1>0, <2>2, <3>1, WalkFacts
    <3>. QED  BY <1>0, <1>1, <1>2, <1>7, <3>1, <3>2
  <2>. QED  BY <2>1, <2>2
<1>8. HelperInv'
  BY <1>6, <1>7 DEF HelperInv
<1>. QED  BY <1>5, <1>8

LEMMA DealtPhase ==
  ASSUME IInv, NEW p \in Party, pc[p] = "walk", At(p) <= Len(gates), NEW c, NEW d,
         Dealt(p, c, d)
  PROVE  PhaseInv'
<1>0. /\ \A q \in Party \ {p} : ctx'[q] = ctx[q] /\ preproc'[q] = preproc[q]
      /\ Len(preproc'[p]) = At(p) /\ gates' = gates /\ pc' = pc
  BY DealtAt
<1>1. PhaseInv
  BY DEF IInv
<1>2. \A q \in Party : Len(preproc'[q]) <= Len(gates')
  BY <1>0, <1>1 DEF PhaseInv
<1>3. HelperWalks' = HelperWalks /\ (p = 0 => HelperWalks)
  BY <1>0 DEF HelperWalks
<1>4. ~ HelperWalks' => Len(preproc'[0]) = Len(gates')
  BY <1>0, <1>1, <1>3 DEF PhaseInv, Party
<1>5. ASSUME NEW q \in Online
      PROVE  /\ pc'[q] \in {"length", "data", "walk", "done"}
             /\ pc'[q] # "length" => ~ HelperWalks'
             /\ pc'[q] \in {"length", "data"} =>
                  /\ ctx'[q].p01 = 0 /\ ctx'[q].p02 = 0 /\ ctx'[q].idx = 0
                  /\ ctx'[q].perms = <<>> /\ preproc'[q] = <<>>
             /\ pc'[q] = "done" => Len(preproc'[q]) = Len(gates')
  <2>1. CASE q = p
    BY <1>0, <1>1, <1>3, <2>1 DEF PhaseInv
  <2>2. CASE q # p
    <3>1. ctx'[q] = ctx[q] /\ preproc'[q] = preproc[q]
      BY <1>0, <2>2 DEF Online, Party
    <3>. QED  BY <1>0, <1>1, <1>3, <3>1 DEF PhaseInv
  <2>. QED  BY <2>1, <2>2
<1>6. pc'[0] \in {"walk", "threw", "lengths", "lengthToOne", "data2", "data1", "done"}
  BY <1>0, <1>1 DEF PhaseInv
<1>. QED  BY <1>2, <1>4, <1>5, <1>6 DEF PhaseInv

LEMMA DealtStreams ==
  ASSUME IInv, NEW p \in Party, pc[p] = "walk", At(p) <= Len(gates), NEW c, NEW d,
         Dealt(p, c, d)
  PROVE  StreamsInStep'
<1>0. /\ c \in Ctx /\ ctx'[p] = c /\ gates' = gates /\ pc' = pc
      /\ \A q \in Party \ {p} : ctx'[q] = ctx[q] /\ preproc'[q] = preproc[q]
      /\ Len(preproc'[p]) = At(p) /\ At(p) = Len(preproc[p]) + 1
  BY DealtAt
<1>1. CASE p = 0
  <2>1. pc[1] = "length" /\ pc[2] = "length"
    BY <1>1 DEF IInv, PhaseInv, HelperWalks, Online
  <2>. QED  BY <1>0, <2>1 DEF StreamsInStep
<1>2. CASE p # 0
  <2> DEFINE k == At(p)
  <2>1. ledger' = ledger /\ \A i : HelperBefore(i)' = HelperBefore(i)
    BY <1>2 DEF Dealt, HelperBefore, ZeroPositions
  <2>2. k \in 1 .. Len(ledger) /\ Len(ledger) \in Nat
    <3>1. pc[p] # "length" /\ p \in Online
      BY <1>2 DEF Party, Online
    <3>2. Len(preproc[0]) = Len(gates) /\ Len(ledger) = Len(preproc[0])
      BY <3>1 DEF IInv, PhaseInv, LedgerInv
    <3>3. Len(ledger) \in Nat
      BY DEF IInv, TypeOK
    <3>. QED  BY <3>2, <3>3, WalkFacts
  <2>3. /\ ledger[k].p01 = HelperBefore(k).p01 + Used(k).p01
        /\ ledger[k].p02 = HelperBefore(k).p02 + Used(k).p02
        /\ ledger[k].sec = HelperBefore(k).sec + Used(k).sec
        /\ ledger[k].secToOne = HelperBefore(k).secToOne + Used(k).secToOne
    BY <2>2 DEF IInv, LedgerInv
  <2>4. HelperBefore(k + 1) = ledger[k] /\ k + 1 <= Len(ledger) + 1
    <3>1. k + 1 # 1 /\ (k + 1) - 1 = k /\ k + 1 <= Len(ledger) + 1
      BY <2>2
    <3>. QED  BY <3>1 DEF HelperBefore
  <2>5. ASSUME NEW CONSTANT q \in Party \ {p}
        PROVE  At(q)' = At(q) /\ ctx'[q] = ctx[q]
    BY <1>0 DEF At
  <2>6. Len(preproc'[p]) + 1 = k + 1
    BY <1>0
  <2>7. HelperBefore(At(p))' = HelperBefore(k + 1)
    <3>1. At(p)' = k + 1
      BY <2>6 DEF At
    <3>2. \A i : i = k + 1 => HelperBefore(At(p))' = HelperBefore(i)'
      BY <3>1 DEF HelperBefore, ZeroPositions
    <3>. QED  BY <2>1, <3>2
  <2>8. At(p)' = k + 1
    BY <2>6 DEF At
  <2>9. ASSUME NEW CONSTANT q \in Party \ {p}
        PROVE  HelperBefore(At(q))' = HelperBefore(At(q))
    BY <2>1, <2>5 DEF HelperBefore, ZeroPositions
  <2>10. CASE p = 1
    <3>1. ctx[1].p01 = HelperBefore(k).p01 /\ ctx[1].idx = HelperBefore(k).secToOne
      BY <2>10 DEF IInv, StreamsInStep
    <3>2. c.p01 = ctx[1].p01 + Used(k).p01 /\ c.idx = ctx[1].idx + Used(k).secToOne
      BY <2>10 DEF Dealt, Advance
    <3>3. 2 \in Party \ {p}
      BY <2>10 DEF Party
    <3> HIDE DEF k
    <3>. QED  BY <1>0, <2>1, <2>3, <2>4, <2>5, <2>7, <2>8, <2>9, <2>10, <3>1, <3>2, <3>3
              DEF IInv, StreamsInStep
  <2>11. CASE p = 2
    <3>1. ctx[2].p02 = HelperBefore(k).p02 /\ ctx[2].idx = HelperBefore(k).sec
      BY <2>11 DEF IInv, StreamsInStep
    <3>2. c.p02 = ctx[2].p02 + Used(k).p02 /\ c.idx = ctx[2].idx + Used(k).sec
      BY <2>11 DEF Dealt, Advance
    <3>3. 1 \in Party \ {p}
      BY <2>11 DEF Party
    <3> HIDE DEF k
    <3>. QED  BY <1>0, <2>1, <2>3, <2>4, <2>5, <2>7, <2>8, <2>9, <2>11, <3>1, <3>2, <3>3
              DEF IInv, StreamsInStep
  <2>. QED  BY <1>2, <2>10, <2>11 DEF Party
<1>. QED  BY <1>1, <1>2

(* A step that leaves everything about q's words alone.                    *)
LEMMA WireForSame ==
  ASSUME NEW CONSTANT q \in Online, WireFor(q),
         pc'[q] = pc[q], wire'[q] = wire[q], expect'[q] = expect[q],
         Received(q)' = Received(q), Outgoing(q)' = Outgoing(q),
         LengthsSent(q)' = LengthsSent(q), SentTo(q)' = SentTo(q),
         pc'[0] = DataPhase(q) => off' <= Len(Outgoing(q))
  PROVE  WireFor(q)'
<1>1. HeadLen(q)' = HeadLen(q) /\ DataPhase(q)' = DataPhase(q)
  BY DEF HeadLen, LengthWords, DataPhase
<1> DEFINE o == Outgoing(q)
           r == Received(q)
           h == HeadLen(q)
           s == SentTo(q)
           l == LengthsSent(q)
           w == wire[q]
<1>2. /\ o' = o /\ r' = r /\ h' = h /\ s' = s /\ l' = l /\ w' = w
      /\ pc'[0] = DataPhase(q) => off' <= Len(o)
  BY <1>1
<1>3. /\ pc[q] = "length" => r = <<>>
      /\ pc[q] # "length" => l /\ expect[q] = Len(o)
      /\ pc[q] \in {"walk", "done"} => Len(r) = Len(o)
      /\ Len(r) + Len(w) = h + s
      /\ h > 0 => w[1] = Len(o)
      /\ \A i \in 1 .. Len(r) : r[i] = o[i]
      /\ \A i \in (h + 1) .. Len(w) : w[i] = o[Len(r) + i - h]
  BY DEF WireFor
<1>4. /\ pc'[0] = DataPhase(q)' => off' <= Len(o')
      /\ pc'[q] = "length" => r' = <<>>
      /\ pc'[q] # "length" => l' /\ expect'[q] = Len(o')
      /\ pc'[q] \in {"walk", "done"} => Len(r') = Len(o')
      /\ Len(r') + Len(w') = h' + s'
      /\ h' > 0 => w'[1] = Len(o')
      /\ \A i \in 1 .. Len(r') : r'[i] = o'[i]
      /\ \A i \in (h' + 1) .. Len(w') : w'[i] = o'[Len(r') + i - h']
  <2> HIDE DEF o, r, h, s, l, w
  <2>. QED  BY <1>1, <1>2, <1>3
<1>. QED  BY <1>4 DEF WireFor

LEMMA DealtWire ==
  ASSUME IInv, NEW p \in Party, pc[p] = "walk", At(p) <= Len(gates), NEW c, NEW d,
         Dealt(p, c, d)
  PROVE  WireInv'
<1>0. /\ ctx'[p] = c /\ pc' = pc /\ wire' = wire /\ expect' = expect /\ off' = off
      /\ \A q \in Party \ {p} : ctx'[q] = ctx[q]
  BY DealtAt
<1>1. \A q \in Online : /\ Received(q)' = Received(q)
                        /\ DataPhase(q)' = DataPhase(q) /\ LengthWords(q)' = LengthWords(q)
                        /\ LengthsSent(q)' = LengthsSent(q)
  <2>1. \A q \in Online : ctx'[q].sec = ctx[q].sec /\ ctx'[q].secToOne = ctx[q].secToOne
    BY <1>0 DEF Dealt, Advance, Online, Party
  <2>. QED  BY <1>0, <2>1 DEF Received, DataPhase, LengthWords, LengthsSent
<1>2. CASE p # 0
  <2>1. ctx'[0] = ctx[0]
    BY <1>0, <1>2 DEF Party
  <2>2. \A q \in Online : Outgoing(q)' = Outgoing(q)
    BY <2>1 DEF Outgoing
  <2>3. \A q \in Online : SentTo(q)' = SentTo(q)
    BY <1>0, <1>1, <2>2 DEF SentTo
  <2>4. ASSUME NEW CONSTANT q \in Online PROVE WireFor(q)'
    <3>1. WireFor(q)
      BY DEF IInv, WireInv
    <3>2. pc'[0] = DataPhase(q) => off' <= Len(Outgoing(q))
      BY <1>0, <3>1 DEF WireFor
    <3>. QED  BY <1>0, <1>1, <2>2, <2>3, <3>1, <3>2, WireForSame
  <2>. QED  BY <1>0, <2>4 DEF IInv, WireInv
<1>3. CASE p = 0
  <2>1. \A q \in Online : pc[q] = "length"
    BY <1>3 DEF IInv, PhaseInv, HelperWalks
  <2>2. off = 0
    BY <1>3 DEF IInv, WireInv
  <2>3. ASSUME NEW CONSTANT q \in Online PROVE WireFor(q)'
    <3>1. /\ ~ LengthsSent(q) /\ SentTo(q) = 0 /\ SentTo(q)' = 0
          /\ HeadLen(q) = 0 /\ HeadLen(q)' = 0
          /\ pc'[0] # DataPhase(q)'
      BY <1>0, <1>1, <1>3 DEF LengthsSent, SentTo, DataPhase, HeadLen
    <3>2. Received(q) = <<>> /\ Len(Received(q)) + Len(wire[q]) = 0 + 0
      BY <2>1, <3>1 DEF IInv, WireInv, WireFor
    <3>3. wire[q] \in Seq(Nat)
      BY DEF IInv, TypeOK
    <3>4. Len(wire[q]) = 0
      BY <3>2, <3>3
    <3>5. Received(q)' = <<>> /\ Len(wire'[q]) = 0 /\ pc'[q] = "length"
      BY <1>0, <1>1, <2>1, <3>2, <3>4
    <3>. QED  BY <3>1, <3>5 DEF WireFor
  <2>. QED  BY <1>0, <2>2, <2>3 DEF WireInv
<1>. QED  BY <1>2, <1>3

LEMMA DealtInv ==
  ASSUME IInv, NEW p \in Party, pc[p] = "walk", At(p) <= Len(gates),
         \E c, d : Dealt(p, c, d)
  PROVE  IInv'
<1>1. PICK c, d : Dealt(p, c, d)
  OBVIOUS
<1>. QED  BY <1>1, DealtType, DealtLedger, DealtTables, DealtPhase, DealtStreams, DealtWire DEF IInv

-----------------------------------------------------------------------------
(* Steps that walk no gate leave the ledger, the cursors and what is in    *)
(* the tables alone.                                                       *)
LEMMA WalkKept ==
  ASSUME IInv, UNCHANGED <<gates, tape, preproc, ledger>>,
         Positions(ctx[0])' = Positions(ctx[0]),
         \A p \in Party : \A m \in Names :
           NewPerm(ctx'[p].perms, m) <=> NewPerm(ctx[p].perms, m),
         HelperEntries(ctx'[0].perms, Len(preproc[0]))
  PROVE  LedgerInv' /\ LedgerGrows' /\ TablesInv' /\ HelperInv'
<1>1. /\ Names' = Names
      /\ \A k : Used(k)' = Used(k) /\ PartsMade(k)' = PartsMade(k)
      /\ \A k, m : Made(k, m)' = Made(k, m)
      /\ \A perms, k : HelperEntries(perms, k)' = HelperEntries(perms, k)
  BY SameCircuit
<1>2. \A i : HelperBefore(i)' = HelperBefore(i)
  BY DEF HelperBefore, ZeroPositions
<1>3. LedgerInv'
  <2>1. (Positions(ctx[0]) = HelperBefore(Len(ledger) + 1))'
    <3>1. Positions(ctx[0]) = HelperBefore(Len(ledger) + 1)
      BY DEF IInv, LedgerInv
    <3>2. HelperBefore(Len(ledger) + 1)' = HelperBefore(Len(ledger) + 1)
      BY DEF HelperBefore, ZeroPositions
    <3>. QED  BY <3>1, <3>2
  <2>. QED  BY <1>1, <1>2, <2>1 DEF IInv, LedgerInv
<1>4. LedgerGrows'
  BY <1>2 DEF IInv, LedgerGrows
<1>5. ASSUME NEW CONSTANT p \in Party, NEW CONSTANT m \in Names
      PROVE  (NewPerm(ctx[p].perms, m) <=> ~ Made(Len(preproc[p]), m))'
  <2>1. NewPerm(ctx[p].perms, m)' <=> NewPerm(ctx'[p].perms, m)
    BY DEF NewPerm, Unfilled, Size0
  <2>2. Made(Len(preproc[p]), m)' <=> Made(Len(preproc[p]), m)
    BY DEF Made
  <2>. QED  BY <2>1, <2>2 DEF IInv, TablesInv
<1>6. TablesInv'
  BY <1>1, <1>5 DEF TablesInv
<1>7. HelperInv'
  <2>1. HelperEntries(ctx[0].perms, Len(preproc[0]))'
    <3>1. \A perms, k : perms = ctx'[0].perms /\ k = Len(preproc[0]) =>
            HelperEntries(ctx[0].perms, Len(preproc[0]))' = HelperEntries(perms, k)'
      BY DEF HelperEntries
    <3>. QED  BY <1>1, <3>1
  <2>. QED  BY <1>1, <2>1 DEF IInv, HelperInv
<1>. QED  BY <1>3, <1>4, <1>6, <1>7

LEMMA StreamsKept ==
  ASSUME IInv, UNCHANGED <<preproc, ledger>>,
         \A q \in Online :
           /\ ctx'[q].p01 = ctx[q].p01 /\ ctx'[q].p02 = ctx[q].p02 /\ ctx'[q].idx = ctx[q].idx
           /\ pc'[q] \in {"walk", "done", "threw"} =>
                pc[q] \in {"walk", "done", "threw", "data"}
  PROVE  StreamsInStep'
<1>1. \A i : HelperBefore(i)' = HelperBefore(i)
  BY DEF HelperBefore, ZeroPositions
<1>2. \A q \in Online : At(q)' = At(q) /\ HelperBefore(At(q))' = HelperBefore(At(q))
  BY DEF At, HelperBefore, ZeroPositions
<1>3. ASSUME NEW q \in Online, pc[q] = "data"
      PROVE  /\ At(q) <= Len(ledger) + 1 /\ HelperBefore(At(q)) = ZeroPositions
             /\ ctx[q].p01 = 0 /\ ctx[q].p02 = 0 /\ ctx[q].idx = 0
  <2>1. preproc[q] = <<>> /\ ctx[q].p01 = 0 /\ ctx[q].p02 = 0 /\ ctx[q].idx = 0
    BY <1>3 DEF IInv, PhaseInv
  <2>2. At(q) = 1
    BY <2>1 DEF At
  <2>3. Len(ledger) \in Nat
    BY DEF IInv, TypeOK
  <2>. QED  BY <2>1, <2>2, <2>3 DEF HelperBefore
<1>4. /\ ZeroPositions.p01 = 0 /\ ZeroPositions.p02 = 0
      /\ ZeroPositions.sec = 0 /\ ZeroPositions.secToOne = 0
  BY DEF ZeroPositions
<1>5. StreamsInStep
  BY DEF IInv
<1>6. 1 \in Online /\ 2 \in Online
  BY DEF Online
<1>7. pc'[1] \in {"walk", "done", "threw"} =>
        /\ At(1) <= Len(ledger) + 1
        /\ ctx[1].p01 = HelperBefore(At(1)).p01
        /\ ctx[1].idx = HelperBefore(At(1)).secToOne
  BY <1>3, <1>4, <1>5, <1>6 DEF StreamsInStep
<1>8. pc'[2] \in {"walk", "done", "threw"} =>
        /\ At(2) <= Len(ledger) + 1
        /\ ctx[2].p02 = HelperBefore(At(2)).p02
        /\ ctx[2].idx = HelperBefore(At(2)).sec
  BY <1>3, <1>4, <1>5, <1>6 DEF StreamsInStep
<1>. QED  BY <1>2, <1>6, <1>7, <1>8 DEF StreamsInStep

(* Only the helper can throw: what it got through, the others get through. *)
LEMMA ThrowIsHelper ==
  ASSUME IInv, NEW p \in Party, ThrowDouble(p)
  PROVE  p = 0
<1> SUFFICES ASSUME p # 0 PROVE FALSE
  OBVIOUS
<1> DEFINE k == At(p)
           g == G(p)
           b == ctx[p]
<1>1. pc[p] = "walk" /\ At(p) <= Len(gates) /\ g.type = "DoubleShuffle" /\ p \in Online
  BY DEF ThrowDouble, Walking, Party, Online
<1>2. /\ k \in 1 .. Len(gates) /\ gates \in Circuits /\ g = gates[k]
      /\ b \in Ctx /\ Tables(p, b.perms, k - 1)
  BY <1>1, WalkFacts
<1>3. k \in 1 .. Len(preproc[0])
  <2>1. Len(preproc[0]) = Len(gates)
    BY <1>1 DEF IInv, PhaseInv
  <2>. QED  BY <1>2, <2>1
<1>4. PartsMade(k)
  BY <1>1, <1>2, <1>3 DEF IInv, HelperInv
<1>5. /\ Names \subseteq Nat
      /\ g.param \in Names /\ g.param2 \in Names /\ g.param3 \in Names
  <2> HIDE DEF k, g
  <2>. QED  BY <1>1, <1>2, NameFacts DEF ShuffleGate
<1>6. /\ NewPerm(b.perms, g.param)
      /\ \E m \in {g.param2, g.param3} : NewPerm(Grown(b.perms, g.param), m)
  BY DEF ThrowDouble, DoubleThrows
<1>7. \A m \in Nat : NewPerm(Grown(b.perms, g.param), m) <=> NewPerm(b.perms, m)
  <2> DEFINE t == b.perms
             x == g.param
  <2>1. t \in Seq(Entry) /\ x \in Nat
    BY <1>2, <1>5 DEF Ctx
  <2> HIDE DEF t, x
  <2>2. \A m \in Nat : NewPerm(Grown(t, x), m) <=> NewPerm(t, m)
    BY <2>1, GrownFacts
  <2>. QED  BY <2>2 DEF t, x
<1>8. \A m \in Names : NewPerm(b.perms, m) <=> ~ Made(k - 1, m)
  BY <1>2 DEF Tables
<1> HIDE DEF b, k
<1>9. \E m \in {g.param2, g.param3} : ~ Made(k - 1, m)
  BY <1>5, <1>6, <1>7, <1>8
<1>10. ~ Made(k - 1, g.param)
  BY <1>5, <1>6, <1>8
<1>. QED  BY <1>2, <1>4, <1>9, <1>10 DEF PartsMade

LEMMA ThrowInv ==
  ASSUME IInv, NEW p \in Party, ThrowDouble(p)
  PROVE  IInv'
<1> DEFINE b == ctx[0].perms
           x == G(0).param
           t == Grown(b, x)
<1>1. /\ p = 0 /\ pc[0] = "walk" /\ At(0) <= Len(gates)
      /\ pc' = [pc EXCEPT ![0] = "threw"]
      /\ ctx' = [ctx EXCEPT ![0].perms = t]
      /\ UNCHANGED <<gates, tape, preproc, wire, expect, off, ledger>>
  BY ThrowIsHelper DEF ThrowDouble, Walking
<1>2. TypeOK /\ ctx \in [Party -> Ctx] /\ 0 \in Party
  BY DEF IInv, TypeOK, Party
<1>3. b \in Seq(Entry) /\ x \in Nat
  <2>1. G(0) \in Gate
    BY <1>1, <1>2, WalkFacts
  <2>. QED  BY <1>2, <2>1 DEF Ctx, Gate
<1>4. /\ t \in Seq(Entry)
      /\ \A m \in Nat : /\ NewPerm(t, m) <=> NewPerm(b, m)
                        /\ m < Len(b) => m < Len(t) /\ t[m + 1] = b[m + 1]
  <2> HIDE DEF b, x
  <2>. QED  BY <1>3, GrownFacts
<1> HIDE DEF t
<1>5. /\ ctx' \in [Party -> Ctx]
      /\ ctx'[0] = [ctx[0] EXCEPT !.perms = t]
      /\ \A q \in Party \ {0} : ctx'[q] = ctx[q]
  BY <1>1, <1>2, <1>4 DEF Ctx
<1>6. /\ ctx'[0].perms = t /\ ctx'[0].p01 = ctx[0].p01 /\ ctx'[0].p02 = ctx[0].p02
      /\ ctx'[0].sec = ctx[0].sec /\ ctx'[0].secToOne = ctx[0].secToOne
  BY <1>2, <1>5 DEF Ctx
<1>7. TypeOK'
  <2>1. pc' \in [Party -> Phase]
    BY <1>1, <1>2 DEF TypeOK, Phase
  <2>. QED  BY <1>1, <1>2, <1>5, <2>1 DEF TypeOK
<1>8. Names \subseteq Nat
  <2>1. At(0) \in 1 .. Len(gates) /\ gates \in Circuits
    BY <1>1, <1>2, WalkFacts
  <2>. QED  BY <2>1, NameFacts
<1>9. LedgerInv' /\ LedgerGrows' /\ TablesInv' /\ HelperInv'
  <2>1. Positions(ctx[0])' = Positions(ctx[0])
    BY <1>6 DEF Positions
  <2>2. \A q \in Party : \A m \in Names :
          NewPerm(ctx'[q].perms, m) <=> NewPerm(ctx[q].perms, m)
    BY <1>4, <1>5, <1>6, <1>8
  <2>3. HelperEntries(ctx'[0].perms, Len(preproc[0]))
    <3>1. HelperEntries(b, Len(preproc[0]))
      BY DEF IInv, HelperInv
    <3>2. HelperEntries(t, Len(preproc[0]))
      <4>1. \A m \in Names : ~ NewPerm(t, m) => ~ NewPerm(b, m) /\ t[m + 1] = b[m + 1]
        BY <1>4, <1>8 DEF NewPerm
      <4> HIDE DEF b
      <4>. QED  BY <3>1, <4>1, HelperEntriesFacts
    <3>. QED  BY <1>6, <3>2
  <2>. QED  BY <1>1, <2>1, <2>2, <2>3, WalkKept
<1>10. \A q \in Online : pc[q] = "length" /\ pc'[q] = "length" /\ ctx'[q] = ctx[q]
  BY <1>1, <1>2, <1>5 DEF IInv, PhaseInv, HelperWalks, Online, Party, TypeOK
<1>11. StreamsInStep'
  BY <1>1, <1>10, StreamsKept
<1>12. pc'[0] = "threw"
  BY <1>1, <1>2 DEF TypeOK
<1>13. PhaseInv'
  BY <1>1, <1>10, <1>12 DEF IInv, PhaseInv, HelperWalks
<1>14. WireInv'
  <2>1. off' = 0
    BY <1>1 DEF IInv, WireInv
  <2>2. ASSUME NEW CONSTANT q \in Online PROVE WireFor(q)'
    <3>1. /\ Received(q)' = Received(q) /\ Outgoing(q)' = Outgoing(q)
      BY <1>6, <1>10 DEF Received, Outgoing
    <3>2. LengthsSent(q)' = LengthsSent(q) /\ SentTo(q)' = SentTo(q)
      BY <1>1, <1>12 DEF LengthsSent, SentTo, DataPhase
    <3>3. pc'[0] # DataPhase(q)
      BY <1>12 DEF DataPhase
    <3>4. WireFor(q)
      BY DEF IInv, WireInv
    <3>. QED  BY <1>1, <1>10, <3>1, <3>2, <3>3, <3>4, WireForSame
  <2>. QED  BY <2>1, <2>2 DEF WireInv
<1>. QED  BY <1>7, <1>9, <1>11, <1>13, <1>14 DEF IInv

-----------------------------------------------------------------------------
(* The end of a walk, and the transfer of the dealt words.                 *)
LEMMA EndWalkInv ==
  ASSUME IInv, NEW p \in Party, EndWalk(p)
  PROVE  IInv'
<1>1. /\ pc[p] = "walk" /\ At(p) > Len(gates)
      /\ pc' = [pc EXCEPT ![p] = IF p = 0 THEN "lengths" ELSE "done"]
      /\ UNCHANGED <<gates, tape, ctx, preproc, wire, expect, off, ledger>>
  BY DEF EndWalk
<1>2. TypeOK /\ PhaseInv
  BY DEF IInv
<1>3. /\ pc'[p] = (IF p = 0 THEN "lengths" ELSE "done")
      /\ \A q \in Party \ {p} : pc'[q] = pc[q]
  BY <1>1, <1>2 DEF TypeOK
<1>4. TypeOK'
  <2>1. pc' \in [Party -> Phase]
    BY <1>1, <1>2 DEF TypeOK, Phase
  <2>. QED  BY <1>1, <1>2, <2>1 DEF TypeOK
<1>5. Len(preproc[p]) = Len(gates)
  <2>1. preproc[p] \in Seq(PreprocGate) /\ gates \in Seq(Gate)
    BY <1>2, CircuitAssumption DEF TypeOK
  <2>2. Len(preproc[p]) \in Nat /\ Len(gates) \in Nat
    BY <2>1
  <2>3. Len(preproc[p]) + 1 > Len(gates) /\ Len(preproc[p]) <= Len(gates)
    BY <1>1, <1>2 DEF At, PhaseInv
  <2>. QED  BY <2>2, <2>3
<1>6. LedgerInv' /\ LedgerGrows' /\ TablesInv' /\ HelperInv'
  <2>1. Positions(ctx[0])' = Positions(ctx[0])
    BY <1>1 DEF Positions
  <2>2. HelperEntries(ctx'[0].perms, Len(preproc[0]))
    BY <1>1 DEF IInv, HelperInv
  <2>. QED  BY <1>1, <2>1, <2>2, WalkKept
<1>7. StreamsInStep'
  <2>1. \A q \in Online : pc'[q] \in {"walk", "done", "threw"} =>
                            pc[q] \in {"walk", "done", "threw", "data"}
    BY <1>1, <1>3 DEF Online, Party
  <2>. QED  BY <1>1, <2>1, StreamsKept
<1>8. PhaseInv'
  <2>1. CASE p = 0
    <3>1. /\ pc'[0] = "lengths" /\ ~ HelperWalks'
          /\ \A q \in Online : pc'[q] = "length"
      BY <1>2, <1>1, <1>3, <2>1 DEF HelperWalks, PhaseInv, Online, Party
    <3>. QED  BY <1>1, <1>2, <1>5, <2>1, <3>1 DEF PhaseInv
  <2>2. CASE p # 0
    <3>1. pc'[0] = pc[0] /\ HelperWalks' = HelperWalks /\ p \in Online
      BY <1>3, <2>2 DEF Party, HelperWalks, Online
    <3>2. pc'[p] = "done" /\ ~ HelperWalks
      BY <1>1, <1>2, <1>3, <2>2, <3>1 DEF PhaseInv
    <3>3. \A q \in Online \ {p} : pc'[q] = pc[q]
      BY <1>3 DEF Online, Party
    <3>. QED  BY <1>1, <1>2, <1>5, <3>1, <3>2, <3>3 DEF PhaseInv
  <2>. QED  BY <2>1, <2>2
<1>9. WireInv'
  <2>1. off' = 0 \/ pc'[0] = pc[0]
    BY <1>1, <1>3 DEF IInv, WireInv, Party
  <2>2. \A q \in Online : /\ Received(q)' = Received(q) /\ Outgoing(q)' = Outgoing(q)
                          /\ LengthsSent(q)' = LengthsSent(q) /\ SentTo(q)' = SentTo(q)
    <3>1. \/ pc'[0] = pc[0]
          \/ pc[0] = "walk" /\ pc'[0] = "lengths"
      BY <1>1, <1>3 DEF Party
    <3>. QED  BY <1>1, <3>1 DEF Received, Outgoing, LengthsSent, SentTo, DataPhase
  <2>3. ASSUME NEW CONSTANT q \in Online PROVE WireFor(q)'
    <3>1. WireFor(q)
      BY DEF IInv, WireInv
    <3>2. pc'[0] = DataPhase(q) => pc[0] = DataPhase(q) /\ off' <= Len(Outgoing(q))
      BY <1>1, <1>3, <3>1 DEF WireFor, DataPhase, Party
    <3>3. CASE q # p
      <4>1. pc'[q] = pc[q]
        BY <1>3, <3>3 DEF Online, Party
      <4>. QED  BY <1>1, <2>2, <3>1, <3>2, <4>1, WireForSame
    <3>4. CASE q = p
      <4>1. pc[q] = "walk" /\ pc'[q] = "done"
        BY <1>1, <1>3, <3>4 DEF Online
      <4>2. /\ HeadLen(q) = 0 /\ HeadLen(q)' = 0 /\ DataPhase(q)' = DataPhase(q)
            /\ LengthWords(q)' = LengthWords(q)
        BY <4>1 DEF HeadLen, DataPhase, LengthWords
      <4>3. wire'[q] = wire[q] /\ expect'[q] = expect[q] /\ off' = off
        BY <1>1
      <4> DEFINE r == Received(q)
                 o == Outgoing(q)
      <4>4. /\ LengthsSent(q) /\ expect[q] = Len(o) /\ Len(r) = Len(o)
            /\ Len(r) + Len(wire[q]) = 0 + SentTo(q)
            /\ \A i \in 1 .. Len(r) : r[i] = o[i]
            /\ \A i \in (0 + 1) .. Len(wire[q]) : wire[q][i] = o[Len(r) + i - 0]
        BY <3>1, <4>1, <4>2 DEF WireFor
      <4>5. r' = r /\ o' = o
        BY <2>2
      <4> HIDE DEF r, o
      <4>6. /\ pc'[0] = DataPhase(q)' => off' <= Len(o')
            /\ LengthsSent(q)' /\ expect'[q] = Len(o') /\ Len(r') = Len(o')
            /\ Len(r') + Len(wire'[q]) = HeadLen(q)' + SentTo(q)'
            /\ \A i \in 1 .. Len(r') : r'[i] = o'[i]
            /\ \A i \in (HeadLen(q)' + 1) .. Len(wire'[q]) :
                 wire'[q][i] = o'[Len(r') + i - HeadLen(q)']
        BY <2>2, <3>2, <4>2, <4>3, <4>4, <4>5 DEF o
      <4>. QED  BY <4>1, <4>2, <4>6 DEF WireFor, r, o
    <3>. QED  BY <3>3, <3>4
  <2>. QED  BY <1>1, <1>3, <2>1, <2>3 DEF IInv, WireInv
<1>. QED  BY <1>4, <1>6, <1>7, <1>8, <1>9 DEF IInv

SendPhase == {"lengths", "lengthToOne", "data2", "data1", "done"}

(* Everything but the wire: sending changes the helper's phase only.       *)
LEMMA SendKept ==
  ASSUME IInv, UNCHANGED <<gates, tape, ctx, preproc, expect, ledger>>,
         pc[0] \in SendPhase, pc'[0] \in SendPhase, pc' \in [Party -> Phase],
         \A q \in Online : pc'[q] = pc[q],
         wire' \in [Online -> Seq(Nat)], off' \in Nat
  PROVE  /\ TypeOK' /\ LedgerInv' /\ LedgerGrows' /\ TablesInv' /\ HelperInv'
         /\ StreamsInStep' /\ PhaseInv'
<1>1. TypeOK /\ PhaseInv
  BY DEF IInv
<1>2. TypeOK'
  BY <1>1 DEF TypeOK
<1>3. LedgerInv' /\ LedgerGrows' /\ TablesInv' /\ HelperInv'
  <2>1. Positions(ctx[0])' = Positions(ctx[0])
    BY DEF Positions
  <2>2. HelperEntries(ctx'[0].perms, Len(preproc[0]))
    BY DEF IInv, HelperInv
  <2>. QED  BY <2>1, <2>2, WalkKept
<1>4. StreamsInStep'
  BY StreamsKept
<1>5. PhaseInv'
  <2>1. ~ HelperWalks /\ ~ HelperWalks'
    BY DEF HelperWalks, SendPhase
  <2>2. pc'[0] \in {"walk", "threw", "lengths", "lengthToOne", "data2", "data1", "done"}
    BY DEF SendPhase
  <2>. QED  BY <1>1, <2>1, <2>2 DEF PhaseInv
<1>. QED  BY <1>2, <1>3, <1>4, <1>5

LEMMA WordsInFlight ==
  ASSUME IInv, NEW q \in Online
  PROVE  /\ Received(q) \in Seq(Ring) /\ Outgoing(q) \in Seq(Ring) /\ wire[q] \in Seq(Nat)
         /\ SentTo(q) \in Nat /\ HeadLen(q) \in Nat /\ Len(Outgoing(q)) \in Nat
         /\ SentTo(q) <= Len(Outgoing(q))
<1>1. /\ ctx[0] \in Ctx /\ ctx[q] \in Ctx /\ wire[q] \in Seq(Nat) /\ off \in Nat
  BY DEF IInv, TypeOK, Party, Online
<1>2. Received(q) \in Seq(Ring) /\ Outgoing(q) \in Seq(Ring)
  BY <1>1 DEF Received, Outgoing, Ctx
<1>3. Len(Outgoing(q)) \in Nat
  BY <1>2
<1>4. pc[0] = DataPhase(q) => off <= Len(Outgoing(q))
  BY DEF IInv, WireInv, WireFor
<1>5. SentTo(q) \in Nat /\ SentTo(q) <= Len(Outgoing(q))
  <2> DEFINE x == Len(Outgoing(q))
  <2>1. SentTo(q) \in {0, x} \/ (pc[0] = DataPhase(q) /\ SentTo(q) = off)
    BY DEF SentTo
  <2> HIDE DEF x
  <2>. QED  BY <1>1, <1>3, <1>4, <2>1 DEF x
<1>. QED  BY <1>1, <1>2, <1>3, <1>5 DEF HeadLen, LengthWords

(* The helper puts the next n words for q on the wire.                     *)
LEMMA WireForSend ==
  ASSUME IInv, NEW CONSTANT q \in Online, NEW n \in Nat,
         SentTo(q) + n <= Len(Outgoing(q)),
         Puts(wire'[q], wire[q], Outgoing(q), SentTo(q), n),
         SentTo(q)' = SentTo(q) + n,
         pc'[q] = pc[q], expect'[q] = expect[q],
         Received(q)' = Received(q), Outgoing(q)' = Outgoing(q),
         LengthsSent(q)' = LengthsSent(q),
         pc'[0] = DataPhase(q) => off' <= Len(Outgoing(q))
  PROVE  WireFor(q)' /\ wire'[q] \in Seq(Nat)
<1> DEFINE o == Outgoing(q)
           r == Received(q)
           h == HeadLen(q)
           s == SentTo(q)
           l == LengthsSent(q)
           w == wire[q]
<1>1. h' = h /\ DataPhase(q)' = DataPhase(q)
  BY DEF HeadLen, LengthWords, DataPhase
<1>2. /\ r \in Seq(Ring) /\ o \in Seq(Ring) /\ w \in Seq(Nat)
      /\ s \in Nat /\ h \in Nat /\ Len(o) \in Nat
  BY WordsInFlight
<1>3. /\ pc[q] = "length" => r = <<>>
      /\ pc[q] # "length" => l /\ expect[q] = Len(o)
      /\ pc[q] \in {"walk", "done"} => Len(r) = Len(o)
      /\ Len(r) + Len(w) = h + s
      /\ h > 0 => w[1] = Len(o)
      /\ OnWire(r, w, o, h)
  BY DEF IInv, WireInv, WireFor, OnWire
<1>4. h > 0 => r = <<>>
  BY <1>3 DEF HeadLen
<1>5. /\ o' = o /\ r' = r /\ s' = s + n /\ l' = l /\ s + n <= Len(o)
      /\ Puts(w', w, o, s, n)
      /\ pc'[0] = DataPhase(q) => off' <= Len(o)
  OBVIOUS
<1> HIDE DEF o, r, h, s, l, w
<1>6. /\ w' \in Seq(Nat) /\ Len(w') = Len(w) + n
      /\ h > 0 => w'[1] = w[1]
      /\ OnWire(r, w', o, h)
  <2>1. s + n <= Len(o) /\ Len(r) + Len(w) = h + s /\ OnWire(r, w, o, h)
    BY <1>3, <1>5
  <2>. QED  BY <1>2, <1>4, <1>5, <2>1, WireSend
<1>7. Len(r) + Len(w') = h + (s + n)
  <2> DEFINE x == Len(r)
             y == Len(w)
  <2>1. x \in Nat /\ y \in Nat
    BY <1>2
  <2>2. x + y = h + s /\ Len(w') = y + n
    BY <1>3, <1>6
  <2> HIDE DEF x, y
  <2>3. x + Len(w') = h + (s + n)
    BY <1>2, <2>1, <2>2
  <2>. QED  BY <2>3 DEF x
<1>8. /\ pc'[0] = DataPhase(q)' => off' <= Len(o')
      /\ pc'[q] = "length" => r' = <<>>
      /\ pc'[q] # "length" => l' /\ expect'[q] = Len(o')
      /\ pc'[q] \in {"walk", "done"} => Len(r') = Len(o')
      /\ Len(r') + Len(w') = h' + s'
      /\ h' > 0 => w'[1] = Len(o')
      /\ OnWire(r', w', o', h')
  BY <1>1, <1>3, <1>5, <1>6, <1>7
<1>. QED  BY <1>6, <1>8 DEF WireFor, OnWire, o, r, h, s, l, w

(* The helper puts the lengths for q on the wire.                          *)
LEMMA WireForHead ==
  ASSUME IInv, NEW CONSTANT q \in Online, NEW l \in Seq(Nat),
         Len(l) = LengthWords(q), l[1] = Len(Outgoing(q)), wire'[q] = wire[q] \o l,
         ~ LengthsSent(q), LengthsSent(q)', SentTo(q)' = 0,
         pc'[q] = pc[q], Received(q)' = Received(q), Outgoing(q)' = Outgoing(q),
         pc'[0] = DataPhase(q) => off' = 0
  PROVE  WireFor(q)' /\ wire'[q] \in Seq(Nat)
<1>1. pc[q] = "length" /\ Received(q) = <<>> /\ HeadLen(q) = 0
  BY DEF IInv, WireInv, WireFor, HeadLen
<1>2. SentTo(q) = 0
  BY DEF SentTo, LengthsSent, DataPhase, Online
<1>3. wire[q] \in Seq(Nat) /\ Len(wire[q]) = 0 /\ Len(Outgoing(q)) \in Nat
  <2>1. Len(Received(q)) + Len(wire[q]) = 0 + 0
    BY <1>1, <1>2 DEF IInv, WireInv, WireFor
  <2>2. wire[q] \in Seq(Nat) /\ Len(Outgoing(q)) \in Nat
    BY WordsInFlight
  <2>. QED  BY <1>1, <2>1, <2>2
<1>4. wire'[q] \in Seq(Nat) /\ Len(wire'[q]) = Len(l) /\ wire'[q][1] = l[1]
  <2> DEFINE w == wire[q]
  <2>1. LengthWords(q) \in {1, 6} /\ 1 \in 1 .. Len(l)
    BY DEF LengthWords
  <2>2. w \o l \in Seq(Nat) /\ Len(w \o l) = 0 + Len(l) /\ (w \o l)[0 + 1] = l[1]
    <3> HIDE DEF w
    <3>. QED  BY <1>3, <2>1, ConcatFacts DEF w
  <2>3. 0 + Len(l) = Len(l) /\ 0 + 1 = 1
    BY <2>1
  <2>. QED  BY <2>2, <2>3
<1>5. HeadLen(q)' = LengthWords(q) /\ DataPhase(q)' = DataPhase(q)
  BY <1>1 DEF HeadLen, LengthWords, DataPhase
<1>6. LengthWords(q) \in Nat
  BY DEF LengthWords
<1>7. /\ pc'[0] = DataPhase(q)' => off' <= Len(Outgoing(q)')
      /\ Received(q)' = <<>> /\ pc'[q] = "length"
      /\ Len(Received(q)') + Len(wire'[q]) = HeadLen(q)' + SentTo(q)'
      /\ wire'[q][1] = Len(Outgoing(q)')
      /\ \A i \in (HeadLen(q)' + 1) .. Len(wire'[q]) : FALSE
  BY <1>1, <1>3, <1>4, <1>5, <1>6
<1>. QED  BY <1>4, <1>7 DEF WireFor

LEMMA SendLengthsInv ==
  ASSUME IInv, SendLengths
  PROVE  IInv'
<1> DEFINE n == Len(ctx[0].sec)
           l == <<n, n, 0, 0, 0, 0>>
<1>1. /\ pc[0] = "lengths" /\ pc' = [pc EXCEPT ![0] = "lengthToOne"]
      /\ wire' = [wire EXCEPT ![2] = wire[2] \o l]
      /\ UNCHANGED <<gates, tape, ctx, preproc, expect, off, ledger>>
  BY DEF SendLengths, Put
<1>2. /\ TypeOK /\ 1 \in Online /\ 2 \in Online /\ Online = {1, 2} /\ Party = {0, 1, 2}
  BY DEF IInv, Online, Party
<1>3. /\ wire'[2] = wire[2] \o l /\ wire'[1] = wire[1]
      /\ pc'[0] = "lengthToOne" /\ pc'[1] = pc[1] /\ pc'[2] = pc[2]
      /\ pc' \in [Party -> Phase]
  <2>1. pc \in [Party -> Phase] /\ wire \in [Online -> Seq(Nat)]
    BY <1>2 DEF TypeOK
  <2> HIDE DEF l
  <2>. QED  BY <1>1, <1>2, <2>1 DEF Phase
<1>4. n \in Nat /\ n = Len(Outgoing(2))
  <2>1. Outgoing(2) = ctx[0].sec /\ Len(Outgoing(2)) \in Nat
    BY <1>2, WordsInFlight DEF Outgoing
  <2>. QED  BY <2>1
<1> HIDE DEF n
<1>5. l \in Seq(Nat) /\ Len(l) = LengthWords(2) /\ l[1] = Len(Outgoing(2))
  BY <1>4 DEF LengthWords
<1>6. \A q \in Online : /\ Received(q)' = Received(q) /\ Outgoing(q)' = Outgoing(q)
                        /\ SentTo(q)' = 0 /\ SentTo(q) = 0
                        /\ pc'[0] # DataPhase(q)
  BY <1>1, <1>3 DEF Received, Outgoing, SentTo, DataPhase
<1>7. ~ LengthsSent(2) /\ LengthsSent(2)' /\ LengthsSent(1)' = LengthsSent(1)
  BY <1>1, <1>3 DEF LengthsSent
<1>8. WireFor(2)' /\ wire'[2] \in Seq(Nat)
  BY <1>2, <1>3, <1>5, <1>6, <1>7, WireForHead
<1>9. WireFor(1)'
  <2>1. WireFor(1)
    BY <1>2 DEF IInv, WireInv
  <2>. QED  BY <1>1, <1>2, <1>3, <1>6, <1>7, <2>1, WireForSame
<1>10. wire' \in [Online -> Seq(Nat)]
  BY <1>1, <1>2, <1>3, <1>8 DEF TypeOK
<1>11. WireInv'
  <2>1. off' = 0
    BY <1>1 DEF IInv, WireInv
  <2>. QED  BY <1>2, <1>8, <1>9, <2>1 DEF WireInv
<1>12. off' \in Nat /\ pc[0] \in SendPhase /\ pc'[0] \in SendPhase
  BY <1>1, <1>2, <1>3 DEF TypeOK, SendPhase
<1>. QED  BY <1>1, <1>2, <1>3, <1>10, <1>11, <1>12, SendKept DEF IInv

LEMMA SendLengthToOneInv ==
  ASSUME IInv, SendLengthToOne
  PROVE  IInv'
<1> DEFINE n == Len(ctx[0].secToOne)
           l == <<n>>
<1>1. /\ pc[0] = "lengthToOne" /\ pc' = [pc EXCEPT ![0] = "data2"]
      /\ wire' = [wire EXCEPT ![1] = wire[1] \o l]
      /\ UNCHANGED <<gates, tape, ctx, preproc, expect, off, ledger>>
  BY DEF SendLengthToOne, Put
<1>2. /\ TypeOK /\ 1 \in Online /\ 2 \in Online /\ Online = {1, 2} /\ Party = {0, 1, 2}
  BY DEF IInv, Online, Party
<1>3. /\ wire'[1] = wire[1] \o l /\ wire'[2] = wire[2]
      /\ pc'[0] = "data2" /\ pc'[1] = pc[1] /\ pc'[2] = pc[2]
      /\ pc' \in [Party -> Phase]
  <2>1. pc \in [Party -> Phase] /\ wire \in [Online -> Seq(Nat)]
    BY <1>2 DEF TypeOK
  <2> HIDE DEF l
  <2>. QED  BY <1>1, <1>2, <2>1 DEF Phase
<1>4. n \in Nat /\ n = Len(Outgoing(1))
  <2>1. Outgoing(1) = ctx[0].secToOne /\ Len(Outgoing(1)) \in Nat
    BY <1>2, WordsInFlight DEF Outgoing
  <2>. QED  BY <2>1
<1> HIDE DEF n
<1>5. l \in Seq(Nat) /\ Len(l) = LengthWords(1) /\ l[1] = Len(Outgoing(1))
  BY <1>4 DEF LengthWords
<1>6. off = 0 /\ off' = 0
  BY <1>1 DEF IInv, WireInv
<1>7. \A q \in Online : /\ Received(q)' = Received(q) /\ Outgoing(q)' = Outgoing(q)
                        /\ SentTo(q)' = 0 /\ SentTo(q) = 0
  BY <1>1, <1>3, <1>6 DEF Received, Outgoing, SentTo, DataPhase
<1>8. ~ LengthsSent(1) /\ LengthsSent(1)' /\ LengthsSent(2)' = LengthsSent(2)
  BY <1>1, <1>3 DEF LengthsSent
<1>9. WireFor(1)' /\ wire'[1] \in Seq(Nat)
  BY <1>2, <1>3, <1>5, <1>6, <1>7, <1>8, WireForHead
<1>10. WireFor(2)'
  <2>1. WireFor(2)
    BY <1>2 DEF IInv, WireInv
  <2>2. off' <= Len(Outgoing(2))
    BY <1>2, <1>6, WordsInFlight
  <2>. QED  BY <1>1, <1>2, <1>3, <1>7, <1>8, <2>1, <2>2, WireForSame
<1>11. wire' \in [Online -> Seq(Nat)]
  BY <1>1, <1>2, <1>3, <1>9 DEF TypeOK
<1>12. WireInv'
  BY <1>2, <1>6, <1>9, <1>10 DEF WireInv
<1>13. off' \in Nat /\ pc[0] \in SendPhase /\ pc'[0] \in SendPhase
  BY <1>1, <1>2, <1>3, <1>6 DEF TypeOK, SendPhase
<1>. QED  BY <1>1, <1>2, <1>3, <1>11, <1>12, <1>13, SendKept DEF IInv

(* A bulk message of n words: the next chunk, or what is left of them.     *)
LEMMA SendDataInv ==
  ASSUME IInv, NEW CONSTANT q \in Online, pc[0] = DataPhase(q), NEW n \in Nat,
         off + n <= Len(Outgoing(q)),
         wire' = [wire EXCEPT ![q] = wire[q] \o SubSeq(Outgoing(q), off + 1, off + n)],
         UNCHANGED <<gates, tape, ctx, preproc, expect, ledger>>,
         \/ pc' = pc /\ off' = off + n
         \/ /\ off' = 0 /\ off + n = Len(Outgoing(q))
            /\ pc' = [pc EXCEPT ![0] = IF q = 2 THEN "data1" ELSE "done"]
  PROVE  IInv'
<1> DEFINE o == Outgoing(q)
<1>1. /\ TypeOK /\ 1 \in Online /\ 2 \in Online /\ Online = {1, 2} /\ Party = {0, 1, 2}
  BY DEF IInv, Online, Party
<1>2. /\ o \in Seq(Ring) /\ Len(o) \in Nat /\ off \in Nat /\ SentTo(q) = off
  BY <1>1, WordsInFlight DEF SentTo, TypeOK
<1>3. /\ wire'[q] = wire[q] \o SubSeq(o, off + 1, off + n)
      /\ \A r \in Online \ {q} : wire'[r] = wire[r]
      /\ \A r \in Online : wire[r] \in Seq(Nat)
  <2>1. wire \in [Online -> Seq(Nat)]
    BY <1>1 DEF TypeOK
  <2> HIDE DEF o
  <2>. QED  BY <2>1 DEF o
<1>4. Puts(wire'[q], wire[q], o, off, n)
  BY <1>3 DEF Puts
<1>5. /\ pc' \in [Party -> Phase] /\ pc'[1] = pc[1] /\ pc'[2] = pc[2]
      /\ \/ pc'[0] = pc[0] /\ off' = off + n
         \/ off' = 0 /\ off + n = Len(o) /\ pc'[0] = IF q = 2 THEN "data1" ELSE "done"
  <2>1. pc \in [Party -> Phase]
    BY <1>1 DEF TypeOK
  <2> HIDE DEF o
  <2>. QED  BY <1>1, <2>1 DEF Phase, o
<1>6. pc[0] \in SendPhase /\ pc'[0] \in SendPhase /\ off' \in Nat
  BY <1>2, <1>5 DEF SendPhase, DataPhase
<1>7. \A r \in Online : /\ Received(r)' = Received(r) /\ Outgoing(r)' = Outgoing(r)
                        /\ LengthsSent(r) /\ LengthsSent(r)'
  BY <1>1, <1>5 DEF Received, Outgoing, LengthsSent, DataPhase
<1>8. SentTo(q)' = off + n
  <2>1. CASE pc'[0] = pc[0] /\ off' = off + n
    BY <2>1 DEF SentTo, DataPhase
  <2>2. CASE off' = 0 /\ off + n = Len(o) /\ pc'[0] = IF q = 2 THEN "data1" ELSE "done"
    <3>1. Outgoing(q)' = o
      BY <1>7
    <3>2. pc'[0] # DataPhase(q)'
      BY <2>2, <1>1 DEF DataPhase
    <3>3. SentTo(q)' = Len(Outgoing(q)')
      BY <2>2, <3>2, <1>1 DEF SentTo
    <3>. QED  BY <2>2, <3>1, <3>3
  <2>. QED  BY <1>5, <2>1, <2>2
<1>9. pc'[0] = DataPhase(q) => off' <= Len(o)
  BY <1>2, <1>5 DEF DataPhase
<1>10. WireFor(q)' /\ wire'[q] \in Seq(Nat)
  <2>1. /\ SentTo(q) + n <= Len(Outgoing(q)) /\ SentTo(q)' = SentTo(q) + n
        /\ Puts(wire'[q], wire[q], Outgoing(q), SentTo(q), n)
        /\ LengthsSent(q)' = LengthsSent(q) /\ pc'[q] = pc[q] /\ expect'[q] = expect[q]
    BY <1>1, <1>2, <1>4, <1>5, <1>7, <1>8
  <2>. QED  BY <2>1, <1>7, <1>9, WireForSend
<1>11. ASSUME NEW CONSTANT r \in Online \ {q} PROVE WireFor(r)'
  <2>1. WireFor(r)
    BY DEF IInv, WireInv
  <2>2. SentTo(r)' = SentTo(r) /\ (pc'[0] = DataPhase(r) => off' <= Len(Outgoing(r)))
    <3>1. CASE pc'[0] = pc[0]
      <4>1. pc[0] # DataPhase(r)
        BY <1>1 DEF DataPhase
      <4>. QED  BY <1>7, <3>1, <4>1 DEF SentTo, DataPhase
    <3>2. CASE off' = 0 /\ pc'[0] = IF q = 2 THEN "data1" ELSE "done"
      <4>1. Len(Outgoing(r)) \in Nat
        BY WordsInFlight
      <4>. QED  BY <1>1, <1>7, <3>2, <4>1 DEF SentTo, DataPhase
    <3>. QED  BY <1>5, <3>1, <3>2
  <2>3. pc'[r] = pc[r] /\ wire'[r] = wire[r] /\ expect'[r] = expect[r] /\ r \in Online
    BY <1>1, <1>3, <1>5
  <2>4. LengthsSent(r)' = LengthsSent(r)
    <3>1. LengthsSent(r) \in BOOLEAN /\ LengthsSent(r)' \in BOOLEAN
      BY DEF LengthsSent
    <3>. QED  BY <1>7, <3>1
  <2>. QED  BY <1>7, <2>1, <2>2, <2>3, <2>4, WireForSame
<1>12. wire' \in [Online -> Seq(Nat)]
  <2>1. \A r \in Online : wire'[r] \in Seq(Nat)
    BY <1>3, <1>10
  <2>. QED  BY <1>1, <2>1 DEF TypeOK
<1>13. WireInv'
  <2>1. pc'[0] \notin {"data2", "data1"} => off' = 0
    BY <1>1, <1>5 DEF DataPhase
  <2>. QED  BY <1>10, <1>11, <2>1 DEF WireInv
<1>. QED  BY <1>1, <1>5, <1>6, <1>12, <1>13, SendKept DEF IInv

LEMMA SendBulkInv ==
  ASSUME IInv, NEW CONSTANT q \in Online, SendChunk(q) \/ SendLast(q)
  PROVE  IInv'
<1> DEFINE o == Outgoing(q)
<1>1. Len(o) \in Nat /\ off \in Nat /\ ChunkSize \in Nat
  BY WordsInFlight, ChunkAssumption DEF IInv, TypeOK
<1>2. CASE SendChunk(q)
  <2>1. /\ pc[0] = DataPhase(q) /\ off + ChunkSize <= Len(Outgoing(q))
        /\ wire' = [wire EXCEPT ![q] = wire[q] \o SubSeq(Outgoing(q), off + 1, off + ChunkSize)]
        /\ off' = off + ChunkSize
        /\ UNCHANGED <<gates, tape, pc, ctx, preproc, expect, ledger>>
    BY <1>2 DEF SendChunk, Put
  <2>. QED  BY <1>1, <2>1, SendDataInv
<1>3. CASE SendLast(q)
  <2>1. /\ pc[0] = DataPhase(q)
        /\ wire' = [wire EXCEPT ![q] = wire[q] \o SubSeq(Outgoing(q), off + 1, Len(o))]
        /\ off' = 0 /\ pc' = [pc EXCEPT ![0] = IF q = 2 THEN "data1" ELSE "done"]
        /\ UNCHANGED <<gates, tape, ctx, preproc, expect, ledger>>
    BY <1>3 DEF SendLast, Put
  <2>2. off <= Len(o)
    BY <2>1 DEF IInv, WireInv, WireFor
  <2> DEFINE n == Len(o) - off
  <2>3. n \in Nat /\ off + n = Len(o) /\ off + n <= Len(o)
    <3> DEFINE x == Len(o)
    <3> HIDE DEF x
    <3>1. x - off \in Nat /\ off + (x - off) = x /\ x <= x
      BY <1>1, <2>2 DEF x
    <3>. QED  BY <3>1 DEF x
  <2> HIDE DEF n
  <2>4. wire' = [wire EXCEPT ![q] = wire[q] \o SubSeq(Outgoing(q), off + 1, off + n)]
    BY <2>1, <2>3
  <2>. QED  BY <2>1, <2>3, <2>4, SendDataInv
<1>. QED  BY <1>2, <1>3

(* Everything but the wire: receiving adds to q's words only.              *)
LEMMA RecvKept ==
  ASSUME IInv, NEW CONSTANT q \in Online, UNCHANGED <<gates, tape, preproc, off, ledger>>,
         pc' \in [Party -> Phase], \A p \in Party \ {q} : pc'[p] = pc[p],
         pc[q] \in {"length", "data"}, pc'[q] \in {"data", "walk"},
         pc'[q] = "walk" => pc[q] = "data", ~ HelperWalks,
         ctx' \in [Party -> Ctx],
         \A p \in Party \ {q} : ctx'[p] = ctx[p],
         /\ ctx'[q].p01 = ctx[q].p01 /\ ctx'[q].p02 = ctx[q].p02
         /\ ctx'[q].idx = ctx[q].idx /\ ctx'[q].perms = ctx[q].perms,
         wire' \in [Online -> Seq(Nat)], expect' \in [Online -> Nat]
  PROVE  /\ TypeOK' /\ LedgerInv' /\ LedgerGrows' /\ TablesInv' /\ HelperInv'
         /\ StreamsInStep' /\ PhaseInv'
<1>1. TypeOK /\ PhaseInv
  BY DEF IInv
<1>2. TypeOK'
  BY <1>1 DEF TypeOK
<1>3. pc'[0] = pc[0] /\ ctx'[0] = ctx[0] /\ q \in Party
  BY DEF Online, Party
<1>4. LedgerInv' /\ LedgerGrows' /\ TablesInv' /\ HelperInv'
  <2>1. Positions(ctx[0])' = Positions(ctx[0])
    BY <1>3 DEF Positions
  <2>2. HelperEntries(ctx'[0].perms, Len(preproc[0]))
    BY <1>3 DEF IInv, HelperInv
  <2>3. \A p \in Party : ctx'[p].perms = ctx[p].perms
    OBVIOUS
  <2>. QED  BY <2>1, <2>2, <2>3, WalkKept
<1>5. StreamsInStep'
  <2>1. \A r \in Online :
          /\ ctx'[r].p01 = ctx[r].p01 /\ ctx'[r].p02 = ctx[r].p02 /\ ctx'[r].idx = ctx[r].idx
          /\ pc'[r] \in {"walk", "done", "threw"} =>
               pc[r] \in {"walk", "done", "threw", "data"}
    BY DEF Online, Party
  <2>. QED  BY <2>1, StreamsKept
<1>6. PhaseInv'
  <2>1. ~ HelperWalks'
    BY <1>3 DEF HelperWalks
  <2>2. ASSUME NEW r \in Online
        PROVE  /\ pc'[r] \in {"length", "data", "walk", "done"}
               /\ pc'[r] # "length" => ~ HelperWalks'
               /\ pc'[r] \in {"length", "data"} =>
                    /\ ctx'[r].p01 = 0 /\ ctx'[r].p02 = 0 /\ ctx'[r].idx = 0
                    /\ ctx'[r].perms = <<>> /\ preproc'[r] = <<>>
               /\ pc'[r] = "done" => Len(preproc'[r]) = Len(gates')
    <3>1. CASE r = q
      BY <1>1, <2>1, <3>1 DEF PhaseInv
    <3>2. CASE r # q
      <4>1. pc'[r] = pc[r] /\ ctx'[r] = ctx[r]
        BY <3>2 DEF Online, Party
      <4>. QED  BY <1>1, <2>1, <4>1 DEF PhaseInv
    <3>. QED  BY <3>1, <3>2
  <2>3. \A p \in Party : Len(preproc'[p]) <= Len(gates')
    BY <1>1 DEF PhaseInv
  <2>4. Len(preproc'[0]) = Len(gates')
    BY <1>1 DEF PhaseInv
  <2>5. pc'[0] \in {"walk", "threw", "lengths", "lengthToOne", "data2", "data1", "done"}
    BY <1>1, <1>3 DEF PhaseInv
  <2>. QED  BY <2>2, <2>3, <2>4, <2>5 DEF PhaseInv
<1>. QED  BY <1>2, <1>4, <1>5, <1>6

(* The other party's words are not touched.                                *)
LEMMA WireForOther ==
  ASSUME IInv, NEW CONSTANT q \in Online, NEW CONSTANT r \in Online \ {q},
         \A p \in Party \ {q} : pc'[p] = pc[p] /\ ctx'[p] = ctx[p],
         wire'[r] = wire[r], expect'[r] = expect[r], off' = off
  PROVE  WireFor(r)'
<1>1. pc'[r] = pc[r] /\ pc'[0] = pc[0] /\ ctx'[r] = ctx[r] /\ ctx'[0] = ctx[0]
  BY DEF Online, Party
<1>2. /\ Received(r)' = Received(r) /\ Outgoing(r)' = Outgoing(r)
      /\ LengthsSent(r)' = LengthsSent(r) /\ DataPhase(r)' = DataPhase(r)
  BY <1>1 DEF Received, Outgoing, LengthsSent, DataPhase
<1>3. SentTo(r)' = SentTo(r)
  BY <1>1, <1>2 DEF SentTo
<1>4. WireFor(r)
  BY DEF IInv, WireInv
<1>5. pc'[0] = DataPhase(r) => off' <= Len(Outgoing(r))
  BY <1>1, <1>4 DEF WireFor
<1>. QED  BY <1>1, <1>2, <1>3, <1>4, <1>5, WireForSame

LEMMA RecvLengthInv ==
  ASSUME IInv, NEW CONSTANT q \in Online, RecvLength(q)
  PROVE  IInv'
<1> DEFINE h == LengthWords(q)
           o == Outgoing(q)
           w == wire[q]
<1>1. /\ pc[q] = "length" /\ Len(w) >= h
      /\ expect' = [expect EXCEPT ![q] = w[1]]
      /\ wire' = [wire EXCEPT ![q] = SubSeq(w, h + 1, Len(w))]
      /\ pc' = [pc EXCEPT ![q] = "data"]
      /\ UNCHANGED <<gates, tape, ctx, preproc, off, ledger>>
  BY DEF RecvLength, Arrived, Rest
<1>2. TypeOK /\ q \in Party /\ h \in Nat /\ h > 0
  BY DEF IInv, Online, Party, LengthWords
<1>3. /\ w \in Seq(Nat) /\ o \in Seq(Ring) /\ Len(o) \in Nat /\ SentTo(q) \in Nat
      /\ Received(q) = <<>> /\ Len(Received(q)) + Len(w) = HeadLen(q) + SentTo(q)
      /\ HeadLen(q) > 0 => w[1] = Len(o)
      /\ OnWire(Received(q), w, o, HeadLen(q))
  BY <1>1, WordsInFlight DEF IInv, WireInv, WireFor, OnWire
<1>4. LengthsSent(q) /\ HeadLen(q) = h
  <2>1. ~ LengthsSent(q) => HeadLen(q) = 0 /\ SentTo(q) = 0
    BY DEF HeadLen, SentTo, LengthsSent, DataPhase, Online
  <2>2. Len(w) \in Nat /\ Len(<<>>) = 0
    BY <1>3
  <2>3. LengthsSent(q)
    <3> DEFINE x == Len(w)
    <3>1. ~ LengthsSent(q) => 0 + x = 0 + 0
      BY <1>3, <2>1, <2>2
    <3>2. x \in Nat /\ x >= h
      BY <1>1, <2>2
    <3> HIDE DEF x, h
    <3>. QED  BY <1>2, <3>1, <3>2
  <2>. QED  BY <1>1, <2>3 DEF HeadLen
<1>5. /\ pc' \in [Party -> Phase] /\ pc'[q] = "data"
      /\ \A p \in Party \ {q} : pc'[p] = pc[p]
  BY <1>1, <1>2 DEF TypeOK, Phase
<1>6. /\ expect' \in [Online -> Nat] /\ expect'[q] = Len(o)
      /\ \A r \in Online \ {q} : expect'[r] = expect[r]
  BY <1>1, <1>2, <1>3, <1>4 DEF TypeOK
<1>7. /\ Drops(wire'[q], w, h)
      /\ \A r \in Online \ {q} : wire'[r] = wire[r]
  BY <1>1, <1>2 DEF TypeOK, Drops
<1>8. /\ wire'[q] \in Seq(Nat) /\ Len(wire'[q]) = Len(w) - h
      /\ OnWire(<<>>, wire'[q], o, 0)
  <2>1. OnWire(<<>>, w, o, h) /\ h <= Len(w)
    BY <1>1, <1>2, <1>3, <1>4
  <2> HIDE DEF w, o, h
  <2>. QED  BY <1>2, <1>3, <1>7, <2>1, WireHead
<1>9. wire' \in [Online -> Seq(Nat)]
  <2>1. \A r \in Online : wire'[r] \in Seq(Nat)
    BY <1>2, <1>7, <1>8 DEF TypeOK
  <2>. QED  BY <1>1, <1>2, <2>1 DEF TypeOK
<1>10. ~ HelperWalks /\ pc'[0] = pc[0]
  BY <1>4, <1>5 DEF LengthsSent, HelperWalks, Online, Party
<1>11. WireFor(q)'
  <2>1. /\ Received(q)' = <<>> /\ Outgoing(q)' = o /\ DataPhase(q)' = DataPhase(q)
        /\ LengthsSent(q)' /\ HeadLen(q)' = 0
    BY <1>1, <1>3, <1>4, <1>5, <1>10
       DEF Received, Outgoing, DataPhase, LengthsSent, HeadLen
  <2>2. SentTo(q)' = SentTo(q)
    BY <1>1, <1>10, <2>1 DEF SentTo
  <2>3. Len(<<>>) + Len(wire'[q]) = 0 + SentTo(q)
    <3> DEFINE x == Len(w)
               y == SentTo(q)
    <3>1. x \in Nat /\ y \in Nat /\ 0 + x = h + y /\ Len(wire'[q]) = x - h
      BY <1>3, <1>4, <1>8
    <3> HIDE DEF x, y, h
    <3>. QED  BY <1>2, <3>1 DEF y
  <2>4. pc'[0] = DataPhase(q) => off' <= Len(o)
    BY <1>1, <1>10 DEF IInv, WireInv, WireFor
  <2> HIDE DEF o
  <2>. QED  BY <1>5, <1>6, <1>8, <2>1, <2>2, <2>3, <2>4, SMTT(30), ZenonT(30) DEF WireFor, OnWire
<1>12. \A p \in Party \ {q} : pc'[p] = pc[p] /\ ctx'[p] = ctx[p]
  BY <1>1, <1>5
<1>13. ASSUME NEW CONSTANT r \in Online \ {q} PROVE WireFor(r)'
  BY <1>1, <1>6, <1>7, <1>12, WireForOther
<1>14. WireInv'
  BY <1>1, <1>10, <1>11, <1>13 DEF IInv, WireInv
<1>15. ctx' \in [Party -> Ctx] /\ ctx' = ctx
  BY <1>1, <1>2 DEF TypeOK
<1>. QED  BY <1>1, <1>5, <1>6, <1>9, <1>10, <1>14, <1>15, RecvKept DEF IInv

(* A bulk read of n words: the next chunk, or what is left of them.        *)
LEMMA RecvDataInv ==
  ASSUME IInv, NEW CONSTANT q \in Online, pc[q] = "data", NEW CONSTANT n \in Nat,
         n <= Len(wire[q]), Keep(q, n), Rest(q, n),
         UNCHANGED <<gates, tape, preproc, expect, off, ledger>>,
         \/ pc' = pc
         \/ /\ pc' = [pc EXCEPT ![q] = "walk"]
            /\ Len(Received(q)) + n = Len(Outgoing(q))
  PROVE  IInv'
<1> DEFINE o == Outgoing(q)
           r == Received(q)
           w == wire[q]
<1>1. TypeOK /\ q \in Party /\ q # 0
  BY DEF IInv, Online, Party
<1>2. /\ w \in Seq(Nat) /\ o \in Seq(Ring) /\ r \in Seq(Ring)
      /\ SentTo(q) \in Nat /\ SentTo(q) <= Len(o)
      /\ LengthsSent(q) /\ HeadLen(q) = 0 /\ expect[q] = Len(o)
  BY WordsInFlight DEF IInv, WireInv, WireFor, HeadLen
<1>3. /\ Len(r) + Len(w) = HeadLen(q) + SentTo(q)
      /\ OnWire(r, w, o, HeadLen(q))
  BY DEF IInv, WireInv, WireFor, OnWire
<1>4. /\ Len(r) + Len(w) = SentTo(q) /\ Len(r) + Len(w) <= Len(o)
      /\ OnWire(r, w, o, 0)
  <2> HIDE DEF r, w, o
  <2>1. Len(r) \in Nat /\ Len(w) \in Nat /\ Len(o) \in Nat
    BY <1>2
  <2>. QED  BY <1>2, <1>3, <2>1
<1>5. /\ wire' = [wire EXCEPT ![q] = SubSeq(w, n + 1, Len(w))]
      /\ wire'[q] = SubSeq(w, n + 1, Len(w))
      /\ \A s \in Online \ {q} : wire'[s] = wire[s]
  BY <1>1 DEF TypeOK, Rest
<1>6. /\ \A p \in Party \ {q} : ctx'[p] = ctx[p]
      /\ ctx'[q] = IF q = 2 THEN [ctx[q] EXCEPT !.sec = r \o SubSeq(w, 1, n)]
                            ELSE [ctx[q] EXCEPT !.secToOne = r \o SubSeq(w, 1, n)]
      /\ DOMAIN ctx' = Party /\ ctx' = [p \in Party |-> ctx'[p]]
  <2> DEFINE a == r \o SubSeq(w, 1, n)
  <2>1. ctx' = IF q = 2 THEN [ctx EXCEPT ![q] = [ctx[q] EXCEPT !.sec = a]]
                        ELSE [ctx EXCEPT ![q] = [ctx[q] EXCEPT !.secToOne = a]]
    BY DEF Keep, Received
  <2>2. ctx \in [Party -> Ctx]
    BY <1>1 DEF TypeOK
  <2> HIDE DEF a
  <2>3. CASE q = 2
    BY <1>1, <2>1, <2>2, <2>3 DEF a
  <2>4. CASE q # 2
    BY <1>1, <2>1, <2>2, <2>4 DEF a
  <2>. QED  BY <2>3, <2>4
<1>7. ctx[q] \in Ctx
  BY <1>1 DEF TypeOK
<1>8. Received(q)' = r \o SubSeq(w, 1, n)
  <2> DEFINE a == r \o SubSeq(w, 1, n)
  <2>1. ctx'[q] = IF q = 2 THEN [ctx[q] EXCEPT !.sec = a]
                           ELSE [ctx[q] EXCEPT !.secToOne = a]
    BY <1>6
  <2> HIDE DEF a
  <2>. QED  BY <1>7, <2>1 DEF Received, Ctx, a
<1>9. Takes(Received(q)', r, w, n) /\ Drops(wire'[q], w, n)
  BY <1>5, <1>8 DEF Takes, Drops
<1>10. /\ Received(q)' \in Seq(Ring) /\ Len(Received(q)') = Len(r) + n
       /\ wire'[q] \in Seq(Nat) /\ Len(wire'[q]) = Len(w) - n
       /\ OnWire(Received(q)', wire'[q], o, 0)
  <2> HIDE DEF r, w, o
  <2>1. n <= Len(w)
    BY DEF w
  <2>. QED  BY <1>2, <1>4, <1>9, <2>1, WireTake
<1>11. /\ ctx'[q].p01 = ctx[q].p01 /\ ctx'[q].p02 = ctx[q].p02
       /\ ctx'[q].idx = ctx[q].idx /\ ctx'[q].perms = ctx[q].perms
       /\ ctx'[q] \in Ctx
  <2> DEFINE a == r \o SubSeq(w, 1, n)
  <2>1. ctx'[q] = IF q = 2 THEN [ctx[q] EXCEPT !.sec = a]
                           ELSE [ctx[q] EXCEPT !.secToOne = a]
    BY <1>6
  <2>2. a \in Seq(Ring)
    BY <1>8, <1>10
  <2> HIDE DEF a
  <2>. QED  BY <1>7, <2>1, <2>2 DEF Ctx
<1>12. ctx' \in [Party -> Ctx]
  <2>1. \A p \in Party : ctx'[p] \in Ctx
    BY <1>1, <1>6, <1>11 DEF TypeOK
  <2>. QED  BY <1>6, <2>1
<1>13. wire' \in [Online -> Seq(Nat)]
  <2>1. \A s \in Online : wire'[s] \in Seq(Nat)
    BY <1>1, <1>5, <1>10 DEF TypeOK
  <2>. QED  BY <1>1, <1>5, <2>1 DEF TypeOK
<1>14. /\ pc' \in [Party -> Phase] /\ \A p \in Party \ {q} : pc'[p] = pc[p]
       /\ pc'[q] \in {"data", "walk"}
       /\ pc'[q] = "walk" => Len(r) + n = Len(o)
  <2>1. pc \in [Party -> Phase]
    BY <1>1 DEF TypeOK
  <2> HIDE DEF r, o
  <2>. QED  BY <1>1, <2>1 DEF Phase, r, o
<1>15. ~ HelperWalks /\ pc'[0] = pc[0] /\ ctx'[0] = ctx[0]
  BY <1>1, <1>2, <1>6, <1>14 DEF LengthsSent, HelperWalks, Party
<1>16. WireFor(q)'
  <2>1. /\ Outgoing(q)' = o /\ DataPhase(q)' = DataPhase(q)
        /\ LengthsSent(q)' /\ HeadLen(q)' = 0 /\ expect'[q] = Len(o)
    BY <1>2, <1>14, <1>15 DEF Outgoing, DataPhase, LengthsSent, HeadLen
  <2>2. SentTo(q)' = SentTo(q)
    BY <1>15, <2>1 DEF SentTo
  <2>3. Len(Received(q)') + Len(wire'[q]) = 0 + SentTo(q)
    <3> DEFINE x == Len(r)
               y == Len(w)
    <3>1. /\ x \in Nat /\ y \in Nat /\ x + y = SentTo(q)
          /\ Len(Received(q)') = x + n /\ Len(wire'[q]) = y - n
      BY <1>2, <1>4, <1>10
    <3> HIDE DEF x, y
    <3>. QED  BY <1>2, <3>1
  <2>4. pc'[0] = DataPhase(q) => off' <= Len(o)
    BY <1>15 DEF IInv, WireInv, WireFor
  <2>5. pc'[q] \in {"walk", "done"} => Len(Received(q)') = Len(o)
    BY <1>10, <1>14
  <2> DEFINE rr == Received(q)'
  <2>6. /\ Received(q)' = rr /\ pc'[q] # "length"
        /\ Len(rr) + Len(wire'[q]) = 0 + SentTo(q)
        /\ OnWire(rr, wire'[q], o, 0)
        /\ pc'[q] \in {"walk", "done"} => Len(rr) = Len(o)
    BY <1>10, <1>14, <2>3, <2>5
  <2> HIDE DEF o, rr
  <2>. QED  BY <2>1, <2>2, <2>4, <2>6 DEF WireFor, OnWire
<1>17. \A p \in Party \ {q} : pc'[p] = pc[p] /\ ctx'[p] = ctx[p]
  BY <1>6, <1>14
<1>18. ASSUME NEW CONSTANT s \in Online \ {q} PROVE WireFor(s)'
  BY <1>5, <1>17, WireForOther
<1>19. WireInv'
  BY <1>15, <1>16, <1>18 DEF IInv, WireInv
<1>20. expect' \in [Online -> Nat]
  BY <1>1 DEF TypeOK
<1>. QED  BY <1>11, <1>12, <1>13, <1>14, <1>15, <1>17, <1>19, <1>20, RecvKept DEF IInv

LEMMA RecvBulkInv ==
  ASSUME IInv, NEW CONSTANT q \in Online, RecvChunk(q) \/ RecvLast(q)
  PROVE  IInv'
<1> DEFINE m == Len(Outgoing(q))
           k == Len(Received(q))
<1>1. ChunkSize \in Nat /\ m \in Nat /\ k \in Nat
  BY WordsInFlight, ChunkAssumption
<1>2. CASE RecvChunk(q)
  BY <1>1, <1>2, RecvDataInv DEF RecvChunk, Arrived
<1>3. CASE RecvLast(q)
  <2>1. pc[q] = "data"
    BY <1>3 DEF RecvLast
  <2>2. expect[q] = m /\ HeadLen(q) = 0 /\ k + Len(wire[q]) = HeadLen(q) + SentTo(q)
    BY <2>1 DEF IInv, WireInv, WireFor, HeadLen
  <2>3. Len(wire[q]) \in Nat /\ SentTo(q) \in Nat /\ SentTo(q) <= m
    BY WordsInFlight
  <2> DEFINE n == expect[q] - Len(Received(q))
             x == Len(wire[q])
  <2>4. n \in Nat /\ k + n = m
    <3>1. x \in Nat /\ k + x = 0 + SentTo(q) /\ n = m - k
      BY <2>2, <2>3
    <3> HIDE DEF m, k, n, x
    <3>. QED  BY <1>1, <2>3, <3>1
  <2>5. /\ x >= n /\ Keep(q, n) /\ Rest(q, n)
        /\ pc' = [pc EXCEPT ![q] = "walk"]
        /\ UNCHANGED <<gates, tape, preproc, expect, off, ledger>>
    BY <1>3 DEF RecvLast, Arrived
  <2>6. n <= x
    <3> HIDE DEF n, x
    <3>. QED  BY <2>3, <2>4, <2>5 DEF x
  <2> HIDE DEF n
  <2>. QED  BY <2>1, <2>4, <2>5, <2>6, RecvDataInv
<1>. QED  BY <1>2, <1>3

-----------------------------------------------------------------------------
(* The invariant holds before anything has been dealt.                     *)
LEMMA InitInv ==
  ASSUME Init
  PROVE  IInv
<1>1. /\ gates \in Circuits /\ tape \in Tapes
      /\ pc = [p \in Party |-> IF p = 0 THEN "walk" ELSE "length"]
      /\ ctx = [p \in Party |-> FreshCtx]
      /\ preproc = [p \in Party |-> <<>>]
      /\ wire = [q \in Online |-> <<>>]
      /\ expect = [q \in Online |-> 0]
      /\ off = 0 /\ ledger = <<>>
  BY DEF Init
<1>2. /\ Party = {0, 1, 2} /\ Online = {1, 2}
      /\ \A p \in Party : ctx[p] = FreshCtx /\ preproc[p] = <<>> /\ Len(preproc[p]) = 0
      /\ \A q \in Online : wire[q] = <<>> /\ Len(wire[q]) = 0
      /\ pc[0] = "walk" /\ pc[1] = "length" /\ pc[2] = "length"
      /\ Len(ledger) = 0
  BY <1>1 DEF Party, Online
<1>3. /\ FreshCtx \in Ctx
      /\ FreshCtx.p01 = 0 /\ FreshCtx.p02 = 0 /\ FreshCtx.idx = 0
      /\ FreshCtx.sec = <<>> /\ FreshCtx.secToOne = <<>> /\ FreshCtx.perms = <<>>
  BY DEF FreshCtx, Ctx
<1>4. TypeOK
  BY <1>1, <1>2, <1>3 DEF TypeOK, Phase
<1>5. /\ HelperBefore(1) = ZeroPositions
      /\ ZeroPositions.p01 = 0 /\ ZeroPositions.p02 = 0
      /\ ZeroPositions.sec = 0 /\ ZeroPositions.secToOne = 0
  BY DEF HelperBefore, ZeroPositions
<1>6. LedgerInv /\ LedgerGrows
  <2>1. Positions(ctx[0]) = HelperBefore(1)
    <3>1. ctx[0] = FreshCtx
      BY <1>2
    <3>. QED  BY <1>3, <1>5, <3>1 DEF Positions, ZeroPositions
  <2>2. \A i \in 1 .. (Len(ledger) + 1) : i = 1
    BY <1>2
  <2>3. LedgerInv
    BY <1>2, <2>1 DEF LedgerInv
  <2>4. LedgerGrows
    BY <1>5, <2>2 DEF LedgerGrows
  <2>. QED  BY <2>3, <2>4
<1>7. \A m \in Names : NewPerm(<<>>, m) /\ ~ Made(0, m)
  <2>1. ASSUME NEW m \in Names PROVE m \in Nat
    <3>1. PICK i \in 1 .. Len(gates) : m \in PermNames(gates[i])
      BY DEF Names
    <3>. QED  BY <1>1, <3>1, NameFacts
  <2>2. \A m \in Names : ~ (m < Len(<<>>))
    BY <2>1
  <2>. QED  BY <2>2, MadeFacts DEF NewPerm
<1>8. TablesInv
  <2>1. \A p \in Party : ctx[p].perms = <<>> /\ Len(preproc[p]) = 0
    BY <1>2, <1>3
  <2>. QED  BY <1>7, <2>1 DEF TablesInv
<1>9. HelperInv
  <2>1. ctx[0].perms = <<>> /\ Len(preproc[0]) = 0
    BY <1>2, <1>3
  <2>2. HelperEntries(<<>>, 0)
    BY <1>7, HelperEntriesFacts
  <2>. QED  BY <2>1, <2>2 DEF HelperInv
<1>10. PhaseInv
  <2>1. Len(gates) \in Nat
    BY <1>1, CircuitAssumption
  <2>. QED  BY <1>2, <1>3, <2>1 DEF PhaseInv, HelperWalks
<1>11. WireInv
  <2>1. \A q \in Online : /\ Received(q) = <<>> /\ wire[q] = <<>> /\ pc[q] = "length"
                          /\ ~ LengthsSent(q) /\ SentTo(q) = 0 /\ HeadLen(q) = 0
                          /\ pc[0] # DataPhase(q)
    BY <1>2, <1>3 DEF Received, LengthsSent, SentTo, HeadLen, DataPhase
  <2>2. Len(<<>>) + Len(<<>>) = 0 + 0
    OBVIOUS
  <2>3. \A q \in Online : WireFor(q)
    BY <2>1, <2>2 DEF WireFor
  <2>. QED  BY <1>1, <2>3 DEF WireInv
<1>12. StreamsInStep
  BY <1>2 DEF StreamsInStep
<1>. QED  BY <1>4, <1>6, <1>8, <1>9, <1>10, <1>11, <1>12 DEF IInv

LEMMA StutterInv ==
  ASSUME IInv, UNCHANGED vars
  PROVE  IInv'
<1>1. /\ gates' = gates /\ tape' = tape /\ pc' = pc /\ ctx' = ctx /\ preproc' = preproc
      /\ wire' = wire /\ expect' = expect /\ off' = off /\ ledger' = ledger
  BY DEF vars
<1>2. TypeOK'
  BY <1>1 DEF IInv, TypeOK
<1>3. LedgerInv' /\ LedgerGrows' /\ TablesInv' /\ HelperInv'
  <2>1. Positions(ctx[0])' = Positions(ctx[0])
    BY <1>1 DEF Positions
  <2>2. HelperEntries(ctx'[0].perms, Len(preproc[0]))
    BY <1>1 DEF IInv, HelperInv
  <2>. QED  BY <1>1, <2>1, <2>2, WalkKept
<1>4. PhaseInv'
  BY <1>1 DEF IInv, PhaseInv, HelperWalks
<1>5. WireInv'
  <2>1. \A q \in Online : /\ Received(q)' = Received(q) /\ Outgoing(q)' = Outgoing(q)
                          /\ LengthsSent(q)' = LengthsSent(q) /\ SentTo(q)' = SentTo(q)
    BY <1>1 DEF Received, Outgoing, LengthsSent, SentTo, DataPhase
  <2>2. ASSUME NEW CONSTANT q \in Online PROVE WireFor(q)'
    <3>1. WireFor(q) /\ (pc'[0] = DataPhase(q) => off' <= Len(Outgoing(q)))
      BY <1>1 DEF IInv, WireInv, WireFor
    <3>. QED  BY <1>1, <2>1, <3>1, WireForSame
  <2>. QED  BY <1>1, <2>2 DEF IInv, WireInv
<1>6. StreamsInStep'
  BY <1>1, StreamsKept
<1>. QED  BY <1>2, <1>3, <1>4, <1>5, <1>6 DEF IInv

LEMMA NextInv ==
  ASSUME IInv, [Next]_vars
  PROVE  IInv'
<1>1. ASSUME NEW CONSTANT p \in Party, Walk(p) PROVE IInv'
  <2>1. CASE DealTriple(p) \/ DealCompaction(p)
    BY <2>1, TripleDealt, DealtInv DEF DealTriple, DealCompaction, Walking
  <2>2. CASE DealShuffle(p)
    BY <2>2, ShuffleDealt, DealtInv DEF DealShuffle, Walking
  <2>3. CASE DealDouble(p)
    BY <2>3, DoubleDealt, DealtInv DEF DealDouble, Walking
  <2>4. CASE DealInput(p) \/ SkipLocal(p)
    BY <2>4, OtherDealt, DealtInv DEF DealInput, SkipLocal, Walking
  <2>5. CASE ThrowDouble(p)
    BY <2>5, ThrowInv
  <2>6. CASE EndWalk(p)
    BY <2>6, EndWalkInv
  <2>. QED  BY <1>1, <2>1, <2>2, <2>3, <2>4, <2>5, <2>6 DEF Walk
<1>2. CASE SendLengths
  BY <1>2, SendLengthsInv
<1>3. CASE SendLengthToOne
  BY <1>3, SendLengthToOneInv
<1>4. ASSUME NEW CONSTANT q \in Online, SendChunk(q) \/ SendLast(q) PROVE IInv'
  BY <1>4, SendBulkInv
<1>5. ASSUME NEW CONSTANT q \in Online, RecvLength(q) PROVE IInv'
  BY <1>5, RecvLengthInv
<1>6. ASSUME NEW CONSTANT q \in Online, RecvChunk(q) \/ RecvLast(q) PROVE IInv'
  BY <1>6, RecvBulkInv
<1>7. CASE UNCHANGED vars
  BY <1>7, StutterInv
<1>. QED  BY <1>1, <1>2, <1>3, <1>4, <1>5, <1>6, <1>7 DEF Next, Send, Recv

(* The counting argument of OfflineInv is an invariant of every run of     *)
(* setWireMasks: for any circuit, generator output and chunk size.         *)
THEOREM InvariantHolds == Spec => []IInv
<1>1. Init => IInv
  BY InitInv
<1>2. IInv /\ [Next]_vars => IInv'
  BY NextInv
<1>. QED  BY <1>1, <1>2, PTL DEF Spec

(* Cursors count, dealt words are Ring words, tables hold vectors of them, *)
(* at all three parties and whatever they preprocess.                      *)
THEOREM TypeCorrect == Spec => []TypeOK
<1>1. IInv => TypeOK
  BY DEF IInv
<1>. QED  BY <1>1, InvariantHolds, PTL

(* The three id_-dependent walks of setWireMasksParty draw from the shared *)
(* generators and consume the dealt words in lockstep, for every circuit.  *)
THEOREM WalksInStep == Spec => []StreamsInStep
<1>1. IInv => StreamsInStep
  BY DEF IInv
<1>. QED  BY <1>1, InvariantHolds, PTL

(* A party that got the helper's words never finds a double shuffle whose  *)
(* shuffles are missing, although its tables hold other halves than the    *)
(* helper's: only the helper can throw.                                    *)
THEOREM OnlyHelperThrows == Spec => []OnlineNeverThrows
<1>1. IInv => OnlineNeverThrows
  BY DEF IInv, PhaseInv, OnlineNeverThrows
<1>. QED  BY <1>1, InvariantHolds, PTL

(* The helper's copy of party 1's words stays inside the buffer allocated  *)
(* with the number of party 2's words (setWireMasks, line 704).            *)
THEOREM BufferFits == Spec => []HelperBufferFits
<1>1. ASSUME IInv PROVE HelperBufferFits
  <2> DEFINE n == Len(ledger) + 1
  <2>1. Len(ledger) \in Nat
    BY DEF IInv, TypeOK
  <2>2. n \in 1 .. n /\ n <= n
    BY <2>1
  <2> HIDE DEF n
  <2>3. HelperBefore(n).secToOne <= HelperBefore(n).sec
    BY <1>1, <2>2 DEF IInv, LedgerGrows, n
  <2>4. Positions(ctx[0]) = HelperBefore(n)
    BY <1>1 DEF IInv, LedgerInv, n
  <2>5. /\ Positions(ctx[0]).sec = Len(ctx[0].sec)
        /\ Positions(ctx[0]).secToOne = Len(ctx[0].secToOne)
    BY DEF Positions
  <2>. QED  BY <2>3, <2>4, <2>5 DEF HelperBufferFits
<1>. QED  BY <1>1, InvariantHolds, PTL

(* rand_sh_sec[idx++] stays inside the vector received, and a party that   *)
(* is through has consumed it to the end.                                  *)
THEOREM ConsumesWhatWasDealt == Spec => []DealtInBounds
<1>1. ASSUME IInv, NEW q \in Online
      PROVE  /\ ctx[q].idx <= Len(Received(q))
             /\ pc[q] = "done" => ctx[q].idx = Len(Received(q))
  <2> DEFINE n == Len(ledger) + 1
             o == Len(Outgoing(q))
             k == At(q)
             w(i) == IF q = 2 THEN HelperBefore(i).sec ELSE HelperBefore(i).secToOne
  <2>1. /\ Len(ledger) \in Nat /\ Len(preproc[q]) \in Nat /\ Len(Received(q)) \in Nat
        /\ q \in {1, 2}
    BY WordsInFlight DEF IInv, TypeOK, Party, Online
  <2>2. pc[q] \in {"length", "data", "walk", "done"}
    BY <1>1 DEF IInv, PhaseInv
  <2>3. CASE pc[q] \in {"length", "data"}
    BY <1>1, <2>1, <2>3 DEF IInv, PhaseInv
  <2>4. CASE pc[q] \in {"walk", "done"}
    <3>1. Len(Received(q)) = o
      BY <1>1, <2>4 DEF IInv, WireInv, WireFor
    <3>2. o = w(n)
      <4>1. Positions(ctx[0]) = HelperBefore(n)
        BY <1>1 DEF IInv, LedgerInv
      <4>2. /\ Positions(ctx[0]).sec = Len(ctx[0].sec)
            /\ Positions(ctx[0]).secToOne = Len(ctx[0].secToOne)
        BY DEF Positions
      <4> HIDE DEF n
      <4>. QED  BY <4>1, <4>2 DEF Outgoing
    <3>3. k <= n /\ ctx[q].idx = w(k)
      BY <1>1, <2>1, <2>4 DEF IInv, StreamsInStep
    <3>4. k \in 1 .. n /\ n \in 1 .. n
      BY <2>1, <3>3 DEF At
    <3>5. w(k) <= w(n)
      <4> HIDE DEF k, n
      <4>1. \A i, j \in 1 .. n : i <= j =>
              /\ HelperBefore(i).sec      <= HelperBefore(j).sec
              /\ HelperBefore(i).secToOne <= HelperBefore(j).secToOne
        BY <1>1 DEF IInv, LedgerGrows, n
      <4>. QED  BY <3>3, <3>4, <4>1
    <3>6. pc[q] = "done" => k = n
      BY <1>1 DEF IInv, PhaseInv, LedgerInv, At
    <3> HIDE DEF k, n, o, w
    <3>. QED  BY <3>1, <3>2, <3>3, <3>5, <3>6
  <2>. QED  BY <2>2, <2>3, <2>4
<1>2. IInv => DealtInBounds
  BY <1>1 DEF DealtInBounds
<1>. QED  BY <1>2, InvariantHolds, PTL

LEMMA WordsThere ==
  ASSUME IInv
  PROVE  WordsArrive
<1>1. ASSUME NEW q \in Online, pc[q] \in {"walk", "done"}
      PROVE  /\ Received(q) = Outgoing(q)
             /\ pc[0] = "done" => wire[q] = <<>>
  <2> DEFINE r == Received(q)
             o == Outgoing(q)
             w == wire[q]
  <2>1. /\ r \in Seq(Ring) /\ o \in Seq(Ring) /\ w \in Seq(Nat)
    BY <1>1, WordsInFlight
  <2>2. Len(r) = Len(o) /\ \A i \in 1 .. Len(r) : r[i] = o[i]
    BY <1>1 DEF IInv, WireInv, WireFor
  <2>3. r = o
    <3> HIDE DEF r, o
    <3>. QED  BY <2>1, <2>2
  <2>4. ASSUME pc[0] = "done" PROVE w = <<>>
    <3>1. SentTo(q) = Len(o) /\ HeadLen(q) = 0
      BY <1>1, <2>4 DEF SentTo, DataPhase, HeadLen, Online
    <3>2. Len(r) + Len(w) = 0 + Len(o)
      BY <1>1, <3>1 DEF IInv, WireInv, WireFor
    <3> HIDE DEF r, o, w
    <3>3. Len(w) = 0
      BY <2>1, <2>2, <3>2
    <3>. QED  BY <2>1, <3>3
  <2>. QED  BY <2>3, <2>4
<1>. QED  BY <1>1 DEF WordsArrive

(* The bulk transfer, cut in chunks of any size, delivers to each party    *)
(* exactly the words dealt to it and leaves none behind.                   *)
THEOREM TransferComplete == Spec => []WordsArrive
<1>1. IInv => WordsArrive
  BY WordsThere
<1>. QED  BY <1>1, InvariantHolds, PTL

-----------------------------------------------------------------------------
(***************************************************************************)
(* What the preprocessing is for, proved for every circuit, width, chunk   *)
(* size and output of the generators: the parties' triples are sharings of *)
(* products, both orders of applying a shuffle's halves agree, its masks   *)
(* are shared with their image, double shuffles compose, and a permutation *)
(* that has been made is never made again.  The argument is MaterialInv of *)
(* OfflineInv: each word and each table entry is described from the        *)
(* helper's position in the streams, where the other two stand later.      *)
(***************************************************************************)
(* Arithmetic on shares: what is subtracted and added again is gone.       *)
LEMMA ModOfSum ==
  ASSUME NEW m \in Nat \ {0}, NEW x \in Int, NEW y \in Int
  PROVE  ((x % m) + y) % m = (x + y) % m
<1> DEFINE r == x % m
           s == (r + y) % m
<1>1. PICK a \in Int : r \in 0 .. (m - 1) /\ x = m * a + r
  BY ModSplit
<1>2. r + y \in Int
  BY <1>1
<1> HIDE DEF r
<1>3. PICK b \in Int : s \in 0 .. (m - 1) /\ r + y = m * b + s
  BY <1>2, ModSplit
<1> HIDE DEF s
<1>4. m * a \in Int /\ m * b \in Int /\ m * a + m * b = m * (a + b) /\ a + b \in Int
  OBVIOUS
<1> DEFINE c == m * a
           d == m * b
<1>5. c \in Int /\ d \in Int /\ r \in Int /\ s \in Int /\ x = c + r /\ r + y = d + s
  BY <1>1, <1>3, <1>4
<1> HIDE DEF c, d
<1>6. x + y = (c + d) + s
  BY <1>5
<1>7. x + y = m * (a + b) + s
  BY <1>4, <1>6 DEF c, d
<1>8. x + y \in Int
  OBVIOUS
<1>9. (x + y) % m = s
  BY <1>3, <1>4, <1>7, <1>8, ModUnique
<1>. QED  BY <1>9 DEF s, r

LEMMA ShareRestored ==
  ASSUME NEW x \in Ring, NEW y \in Ring
  PROVE  /\ Plus(y, Minus(x, y)) = x
         /\ XorW(y, XorW(x, y)) = x
<1>1. Plus(y, Minus(x, y)) = x
  <2>1. Plus(y, Minus(x, y)) = ((x - y) + y) % Modulus
    <3>1. y \in Int /\ x - y \in Int /\ Modulus \in Nat \ {0}
      BY ModulusAssumption DEF Ring
    <3>2. ((x - y) % Modulus) \in Int
      BY <3>1
    <3>3. (y + ((x - y) % Modulus)) % Modulus = (((x - y) % Modulus) + y) % Modulus
      BY <3>1, <3>2
    <3>. QED  BY <3>1, <3>3, ModOfSum DEF Plus, Minus
  <2>2. (x - y) + y = x /\ x = Modulus * 0 + x
    BY ModulusAssumption DEF Ring
  <2>. QED  BY <2>1, <2>2, ModUnique, ModulusAssumption DEF Ring
<1>2. XorW(y, XorW(x, y)) = x
  BY XorAssumption
<1>. QED  BY <1>1, <1>2

(* The helper's blinding r cancels between the shares of a mask's image.   *)
LEMMA BlindingCancels ==
  ASSUME NEW a \in Ring, NEW b \in Ring, NEW r \in Ring
  PROVE  Plus(Minus(a, r), Plus(b, r)) = Plus(a, b)
<1>1. a \in Int /\ b \in Int /\ r \in Int /\ Modulus \in Nat \ {0}
  BY ModulusAssumption DEF Ring
<1>2. Plus(Minus(a, r), Plus(b, r)) = ((a - r) + (b + r)) % Modulus
  <2> DEFINE x == a - r
             y == b + r
  <2>1. x \in Int /\ y \in Int
    BY <1>1
  <2> HIDE DEF x, y
  <2>2. (x % Modulus) \in Int /\ (y % Modulus) \in Int
    BY <1>1, <2>1
  <2>3. ((x % Modulus) + (y % Modulus)) % Modulus = (x + (y % Modulus)) % Modulus
    BY <1>1, <2>1, <2>2, ModOfSum
  <2>4. x + (y % Modulus) = (y % Modulus) + x /\ y + x = x + y
    BY <2>1, <2>2
  <2>5. ((y % Modulus) + x) % Modulus = (y + x) % Modulus
    BY <1>1, <2>1, <2>2, ModOfSum
  <2>. QED  BY <2>3, <2>4, <2>5 DEF Plus, Minus, x, y
<1>3. (a - r) + (b + r) = a + b
  BY <1>1
<1>. QED  BY <1>2, <1>3 DEF Plus

-----------------------------------------------------------------------------
(* What the helper has dealt for a gate stays as it is: words are only     *)
(* added and entries only made where there was none.                       *)
LEMMA PassedWords ==
  ASSUME IInv, NEW k \in 1 .. Len(preproc[0])
  PROVE  /\ k \in 1 .. Len(gates) /\ gates \in Circuits /\ tape \in Tapes
         /\ ctx[0] \in Ctx /\ k \in 1 .. Len(ledger) /\ k \in Nat \ {0}
         /\ HelperBefore(k).p01 \in Nat /\ HelperBefore(k).p02 \in Nat
         /\ HelperBefore(k).sec \in Nat /\ HelperBefore(k).secToOne \in Nat
         /\ HelperBefore(k).sec + Used(k).sec <= Len(ctx[0].sec)
         /\ HelperBefore(k).secToOne + Used(k).secToOne <= Len(ctx[0].secToOne)
<1> DEFINE l == Len(ledger)
<1>1. /\ gates \in Circuits /\ tape \in Tapes /\ ctx[0] \in Ctx /\ l \in Nat
      /\ l = Len(preproc[0]) /\ l <= Len(gates)
  BY DEF IInv, TypeOK, LedgerInv, PhaseInv, Party
<1>2. k \in 1 .. l /\ k \in 1 .. (l + 1) /\ k + 1 \in 1 .. (l + 1) /\ l + 1 \in 1 .. (l + 1)
      /\ k + 1 <= l + 1 /\ k \in Nat \ {0}
  BY <1>1
<1>3. k \in 1 .. Len(gates)
  <2>1. Len(gates) \in Nat
    BY <1>1, CircuitAssumption
  <2>. QED  BY <1>1, <1>2, <2>1
<1>4. /\ HelperBefore(k).p01 \in Nat /\ HelperBefore(k).p02 \in Nat
      /\ HelperBefore(k).sec \in Nat /\ HelperBefore(k).secToOne \in Nat
  BY <1>2, BeforeTyped
<1>5. HelperBefore(k + 1) = ledger[k]
  <2>1. k + 1 # 1 /\ (k + 1) - 1 = k
    BY <1>2
  <2>. QED  BY <2>1 DEF HelperBefore
<1>6. /\ HelperBefore(k + 1).sec = HelperBefore(k).sec + Used(k).sec
      /\ HelperBefore(k + 1).secToOne = HelperBefore(k).secToOne + Used(k).secToOne
  BY <1>2, <1>5 DEF IInv, LedgerInv
<1>7. /\ HelperBefore(k + 1).sec <= HelperBefore(l + 1).sec
      /\ HelperBefore(k + 1).secToOne <= HelperBefore(l + 1).secToOne
  <2> DEFINE x == k + 1
             y == l + 1
  <2>1. x \in 1 .. y /\ y \in 1 .. y /\ x <= y
    BY <1>2
  <2>2. \A i, j \in 1 .. y : i <= j => /\ HelperBefore(i).sec <= HelperBefore(j).sec
                                      /\ HelperBefore(i).secToOne <= HelperBefore(j).secToOne
    BY DEF IInv, LedgerGrows
  <2> HIDE DEF x, y
  <2>3. HelperBefore(x).sec <= HelperBefore(y).sec /\ HelperBefore(x).secToOne <= HelperBefore(y).secToOne
    BY <2>1, <2>2
  <2>. QED  BY <2>3 DEF x, y
<1>8. /\ Len(ctx[0].sec) = HelperBefore(l + 1).sec
      /\ Len(ctx[0].secToOne) = HelperBefore(l + 1).secToOne
  BY DEF IInv, LedgerInv, Positions
<1>. QED  BY <1>1, <1>2, <1>3, <1>4, <1>6, <1>7, <1>8

LEMMA PassedEntries ==
  ASSUME IInv, NEW k \in 1 .. Len(preproc[0]), gates[k].type \in ShuffleGate, gates[k].n > 0
  PROVE  /\ ~ NewPerm(ctx[0].perms, gates[k].param)
         /\ AllPermutations(ctx[0].perms[gates[k].param + 1], gates[k].n)
<1> DEFINE m == gates[k].param
<1>1. k \in 1 .. Len(gates) /\ gates \in Circuits /\ k \in Nat \ {0}
  BY PassedWords
<1>2. m \in Names /\ m \in PermNames(gates[k])
  BY <1>1, NameFacts
<1>3. Made(Len(preproc[0]), m)
  BY DEF Made
<1>4. ~ NewPerm(ctx[0].perms, m)
  BY <1>2, <1>3 DEF IInv, TablesInv, Party
<1>5. PICK i \in 1 .. Len(preproc[0]) : /\ m \in PermNames(gates[i])
                                        /\ AllPermutations(ctx[0].perms[m + 1], gates[i].n)
  <2>1. HelperEntries(ctx[0].perms, Len(preproc[0]))
    BY DEF IInv, HelperInv
  <2> HIDE DEF m
  <2>. QED  BY <1>2, <1>4, <2>1, HelperEntriesFacts
<1>6. i \in 1 .. Len(gates)
  BY PassedWords
<1>7. gates[i].n = gates[k].n
  BY <1>1, <1>2, <1>5, <1>6, AgreeFacts
<1>. QED  BY <1>4, <1>5, <1>7

Extends(c, e) ==
  /\ \A i \in 1 .. Len(c.sec) : e.sec[i] = c.sec[i]
  /\ \A i \in 1 .. Len(c.secToOne) : e.secToOne[i] = c.secToOne[i]
  /\ \A m \in Names : ~ NewPerm(c.perms, m) => /\ ~ NewPerm(e.perms, m)
                                              /\ e.perms[m + 1] = c.perms[m + 1]

LEMMA GateStays ==
  ASSUME IInv, NEW k \in 1 .. Len(preproc[0]), GateDealt(k, ctx[0]),
         NEW e, Extends(ctx[0], e)
  PROVE  GateDealt(k, e)
<1> DEFINE c == ctx[0]
           g == gates[k]
           n == g.n
           f == Making(k)
           b == HelperBefore(k)
           x == MasksFrom(k)
<1>1. /\ k \in 1 .. Len(gates) /\ gates \in Circuits /\ g \in Gate /\ n \in Nat
      /\ f \in Nat /\ f <= n /\ b.sec \in Nat /\ b.secToOne \in Nat
      /\ b.sec + Used(k).sec <= Len(c.sec)
      /\ b.secToOne + Used(k).secToOne <= Len(c.secToOne)
      /\ Len(c.sec) \in Nat /\ Len(c.secToOne) \in Nat
  <2>1. /\ k \in 1 .. Len(gates) /\ gates \in Circuits
        /\ b.sec \in Nat /\ b.secToOne \in Nat
        /\ b.sec + Used(k).sec <= Len(c.sec)
        /\ b.secToOne + Used(k).secToOne <= Len(c.secToOne)
        /\ c \in Ctx
    BY PassedWords
  <2>2. g \in Gate /\ n \in Nat /\ f \in Nat
    BY <2>1, GateFacts, UsedFacts
  <2>3. f <= n
    BY <2>2 DEF Making
  <2>4. Len(c.sec) \in Nat /\ Len(c.secToOne) \in Nat
    BY <2>1, SMTT(30), ZenonT(30) DEF Ctx
  <2>. QED  BY <2>1, <2>2, <2>3, <2>4
<1>2. ASSUME NEW i \in 1 .. Used(k).sec PROVE e.sec[b.sec + i] = c.sec[b.sec + i]
  <2>1. Used(k).sec \in Nat
    BY <1>1, UsedFacts
  <2>2. b.sec + i \in 1 .. Len(c.sec)
    <3> HIDE DEF b, c
    <3>. QED  BY SMTT(30), <1>1, <2>1
  <2>. QED  BY <2>2 DEF Extends
<1>3. ASSUME NEW i \in 1 .. Used(k).secToOne
      PROVE  e.secToOne[b.secToOne + i] = c.secToOne[b.secToOne + i]
  <2>1. Used(k).secToOne \in Nat
    BY <1>1, UsedFacts
  <2>2. b.secToOne + i \in 1 .. Len(c.secToOne)
    <3> HIDE DEF b, c
    <3>. QED  BY SMTT(30), <1>1, <2>1
  <2>. QED  BY <2>2 DEF Extends
<1>4. ASSUME g.type \in TripleGate PROVE TripleWords(k, e)
  <2>1. Used(k).sec = n
    BY <1>4, UsedKinds
  <2>2. ASSUME NEW j \in Idx(n) PROVE e.sec[b.sec + j + 1] = SecretFor2(b, Bin(k), j)
    <3>1. j + 1 \in 1 .. Used(k).sec /\ b.sec + (j + 1) = b.sec + j + 1
      <4>1. b.sec \in Nat /\ n \in Nat
        BY <1>1
      <4> DEFINE a == b.sec
      <4> HIDE DEF a, n
      <4>2. j + 1 \in 1 .. n /\ a + (j + 1) = a + j + 1
        BY <4>1 DEF Idx, a
      <4>. QED  BY <2>1, <4>2 DEF a
    <3>2. e.sec[b.sec + (j + 1)] = c.sec[b.sec + (j + 1)]
      BY <1>2, <3>1
    <3>3. c.sec[b.sec + j + 1] = SecretFor2(b, Bin(k), j)
      BY <1>4 DEF GateDealt, TripleWords
    <3>. QED  BY <3>1, <3>2, <3>3
  <2>. QED  BY <2>2 DEF TripleWords
<1>5. ASSUME g.type \in ShuffleGate, n > 0
      PROVE  /\ ~ NewPerm(c.perms, g.param)
             /\ e.perms[g.param + 1] = c.perms[g.param + 1]
             /\ AllPermutations(c.perms[g.param + 1], n)
  <2>1. g.param \in Names
    BY <1>1, <1>5, NameFacts
  <2>. QED  BY <1>5, <2>1, PassedEntries DEF Extends
<1>6. ASSUME g.type \in ShuffleGate, f > 0 PROVE EntryWords(k, e)
  <2>1. n > 0 /\ f = n
    BY <1>1, <1>6 DEF Making
  <2>2. e.perms[g.param + 1] = c.perms[g.param + 1]
    BY <1>5, <1>6, <2>1
  <2>3. EntryWords(k, c)
    BY <1>6 DEF GateDealt
  <2>4. /\ Used(k).sec = n + f
        /\ g.type = "DoubleShuffle" => Used(k).secToOne = n + f
    BY <1>6, UsedKinds DEF ShuffleGate
  <2>5. ASSUME NEW j \in Idx(n) PROVE e.sec[b.sec + j + 1] = c.sec[b.sec + j + 1]
    <3>1. j + 1 \in 1 .. Used(k).sec /\ b.sec + (j + 1) = b.sec + j + 1
      <4>1. b.sec \in Nat /\ n \in Nat /\ f \in Nat
        BY <1>1
      <4> DEFINE a == b.sec
      <4> HIDE DEF a, n, f
      <4>2. j + 1 \in 1 .. (n + f) /\ a + (j + 1) = a + j + 1
        BY <4>1 DEF Idx, a
      <4>. QED  BY <2>4, <4>2 DEF a
    <3>2. e.sec[b.sec + (j + 1)] = c.sec[b.sec + (j + 1)]
      BY <1>2, <3>1
    <3>. QED  BY <3>1, <3>2
  <2>6. ASSUME g.type = "DoubleShuffle", NEW j \in Idx(n)
        PROVE  e.secToOne[b.secToOne + j + 1] = c.secToOne[b.secToOne + j + 1]
    <3>1. j + 1 \in 1 .. Used(k).secToOne /\ b.secToOne + (j + 1) = b.secToOne + j + 1
      <4>1. b.secToOne \in Nat /\ n \in Nat /\ f \in Nat
        BY <1>1
      <4> DEFINE a == b.secToOne
      <4> HIDE DEF a, n, f
      <4>2. j + 1 \in 1 .. (n + f) /\ a + (j + 1) = a + j + 1
        BY <4>1 DEF Idx, a
      <4>. QED  BY <2>4, <2>6, <4>2 DEF a
    <3>2. e.secToOne[b.secToOne + (j + 1)] = c.secToOne[b.secToOne + (j + 1)]
      BY <1>3, <3>1
    <3>. QED  BY <3>1, <3>2
  <2>. QED  BY <2>2, <2>3, <2>5, <2>6 DEF EntryWords
<1>7. ASSUME g.type \in ShuffleGate PROVE EntryRight(k, e)
  <2>1. EntryRight(k, c)
    BY <1>7 DEF GateDealt
  <2>2. \A j \in Idx(n) : n > 0
    BY <1>1 DEF Idx
  <2>. QED  BY <1>5, <1>7, <2>1, <2>2 DEF EntryRight
<1>8. ASSUME g.type = "DoubleShuffle" PROVE DoubleRight(k, e)
  <2>1. DoubleRight(k, c) /\ g.type \in ShuffleGate
    BY <1>8 DEF GateDealt, ShuffleGate
  <2>2. \A j \in Idx(n) : n > 0
    BY <1>1 DEF Idx
  <2>3. g.param2 \in Names /\ g.param3 \in Names
    BY <1>1, <1>8, NameFacts
  <2>4. \A j \in Idx(n) : /\ ~ NewPerm(c.perms, g.param2) /\ ~ NewPerm(c.perms, g.param3)
                          /\ HelperPi(c, g.param, n)[HelperPi(c, g.param2, n)[j]]
                               = HelperPi(c, g.param3, n)[j]
    BY <2>1 DEF DoubleRight
  <2>5. ASSUME NEW j \in Idx(n)
        PROVE  /\ ~ NewPerm(e.perms, g.param2) /\ ~ NewPerm(e.perms, g.param3)
               /\ HelperPi(e, g.param, n) = HelperPi(c, g.param, n)
               /\ HelperPi(e, g.param2, n) = HelperPi(c, g.param2, n)
               /\ HelperPi(e, g.param3, n) = HelperPi(c, g.param3, n)
    <3>1. ~ NewPerm(c.perms, g.param2) /\ ~ NewPerm(c.perms, g.param3)
      BY <2>4
    <3>2. /\ ~ NewPerm(e.perms, g.param2) /\ ~ NewPerm(e.perms, g.param3)
          /\ e.perms[g.param2 + 1] = c.perms[g.param2 + 1]
          /\ e.perms[g.param3 + 1] = c.perms[g.param3 + 1]
      BY <2>3, <3>1 DEF Extends
    <3>3. e.perms[g.param + 1] = c.perms[g.param + 1]
      BY <1>5, <2>1, <2>2
    <3>. QED  BY <3>2, <3>3 DEF HelperPi
  <2>. QED  BY <2>4, <2>5 DEF DoubleRight
<1>9. ASSUME g.type \in ShuffleGate PROVE MaskWords(k, e)
  <2>1. MaskWords(k, c)
    BY <1>9 DEF GateDealt
  <2> DEFINE d == g.type = "DoubleShuffle"
             o == IF d THEN f ELSE 0
             pi == HelperPi(c, g.param, n)
  <2>2. x.sec = b.sec + f /\ x.secToOne = b.secToOne + o
    BY DEF MasksFrom
  <2>3. Used(k).sec = n + f /\ Used(k).secToOne = n + o /\ o \in Nat
    BY <1>1, <1>9, UsedKinds DEF ShuffleGate
  <2>4. ASSUME NEW t \in Idx(n)
        PROVE  /\ e.sec[x.sec + t + 1] = c.sec[x.sec + t + 1]
               /\ e.secToOne[x.secToOne + t + 1] = c.secToOne[x.secToOne + t + 1]
    <3>1. /\ f + t + 1 \in 1 .. Used(k).sec /\ b.sec + (f + t + 1) = x.sec + t + 1
          /\ o + t + 1 \in 1 .. Used(k).secToOne
          /\ b.secToOne + (o + t + 1) = x.secToOne + t + 1
      <4>1. b.sec \in Nat /\ b.secToOne \in Nat /\ n \in Nat /\ f \in Nat /\ o \in Nat
        BY <1>1, <2>3
      <4> DEFINE a == b.sec
                 y == b.secToOne
      <4> HIDE DEF a, y, n, f, o
      <4>2. f + t + 1 \in 1 .. (n + f) /\ a + (f + t + 1) = (a + f) + t + 1
        BY <4>1 DEF Idx, a
      <4>3. o + t + 1 \in 1 .. (n + o) /\ y + (o + t + 1) = (y + o) + t + 1
        BY <4>1 DEF Idx, y
      <4> HIDE DEF x
      <4>. QED  BY <2>2, <2>3, <4>2, <4>3 DEF a, y
    <3>2. e.sec[b.sec + (f + t + 1)] = c.sec[b.sec + (f + t + 1)]
      BY <1>2, <3>1
    <3>3. e.secToOne[b.secToOne + (o + t + 1)] = c.secToOne[b.secToOne + (o + t + 1)]
      BY <1>3, <3>1
    <3>. QED  BY <3>1, <3>2, <3>3
  <2>5. ASSUME NEW j \in Idx(n)
        PROVE  HelperPi(e, g.param, n) = pi /\ pi[j] \in Idx(n)
    <3>1. n > 0
      BY <1>1 DEF Idx
    <3>2. e.perms[g.param + 1] = c.perms[g.param + 1] /\ AllPermutations(c.perms[g.param + 1], n)
      BY <1>5, <1>9, <3>1
    <3>3. IsPermutation(pi, n)
      BY <1>1, <3>2, ComposedPermutation DEF HelperPi
    <3>4. HelperPi(e, g.param, n) = pi
      BY <3>2 DEF HelperPi
    <3> HIDE DEF pi
    <3>. QED  BY <3>3, <3>4 DEF IsPermutation
  <2>6. ASSUME NEW j \in Idx(n)
        PROVE  LET from == IF g.reverse THEN pi[j] ELSE j
                   to   == IF g.reverse THEN j ELSE pi[j]
               IN  /\ to \in Idx(n)
                   /\ Plus(c.secToOne[x.secToOne + to + 1], c.sec[x.sec + to + 1])
                       = Plus(RingWord("p01", x.p01 + from), RingWord("p02", x.p02 + from))
    BY <2>1, <2>5 DEF MaskWords
  <2> HIDE DEF x, pi
  <2>7. ASSUME NEW j \in Idx(n)
        PROVE  LET from == IF g.reverse THEN pi[j] ELSE j
                   to   == IF g.reverse THEN j ELSE pi[j]
               IN  Plus(e.secToOne[x.secToOne + to + 1], e.sec[x.sec + to + 1])
                       = Plus(RingWord("p01", x.p01 + from), RingWord("p02", x.p02 + from))
    BY <2>4, <2>6
  <2>8. \A j \in Idx(n) : HelperPi(e, g.param, n) = pi
    BY <2>5 DEF pi
  <2>. QED  BY <2>7, <2>8 DEF MaskWords, x
<1>. QED  BY <1>4, <1>6, <1>7, <1>8, <1>9 DEF GateDealt

-----------------------------------------------------------------------------
(* A step that leaves the circuit, the generators and the helper's         *)
(* position before gate k alone does not change what GateDealt asks for.   *)
LEMMA GateDealtSame ==
  ASSUME gates' = gates, tape' = tape, NEW CONSTANT k,
         HelperBefore(k)' = HelperBefore(k), GateDealt(k, ctx'[0])
  PROVE  GateDealt(k, ctx[0])'
<1> DEFINE b == HelperBefore(k)
           f == Making(k)
           x == MasksFrom(k)
           d == ctx'[0]
<1>1. Making(k)' = Making(k) /\ Bin(k)' = Bin(k)
  BY DEF Making, Made, Bin
<1>2. MasksFrom(k)' = MasksFrom(k)
  BY <1>1 DEF MasksFrom
<1>3. TripleWords(k, d) => TripleWords(k, ctx[0])'
  <2>1. \A j : SecretFor2(b, Bin(k), j)' = SecretFor2(b, Bin(k), j)
    <3> HIDE DEF b
    <3>. QED  BY <1>1 DEF SecretFor2, Product, TripleA, TripleB, RandomShare, RandomShareBin,
                          RingWord, Word, b
  <2>. QED  BY <2>1 DEF TripleWords
<1>4. EntryWords(k, d) => EntryWords(k, ctx[0])'
  <2> DEFINE n == gates[k].n
             P(s, i) == RandomPerm(s, i, n)
  <2>1. /\ P("p01", b.p01)' = P("p01", b.p01)
        /\ P("p01", b.p01 + n)' = P("p01", b.p01 + n)
        /\ P("p02", b.p02)' = P("p02", b.p02)
    BY DEF RandomPerm, Word
  <2>. QED  BY <2>1 DEF EntryWords
<1>5. EntryRight(k, d) => EntryRight(k, ctx[0])'
  BY DEF EntryRight
<1>6. DoubleRight(k, d) => DoubleRight(k, ctx[0])'
  BY DEF DoubleRight
<1>7. MaskWords(k, d) => MaskWords(k, ctx[0])'
  <2>1. \A s, i : RingWord(s, i)' = RingWord(s, i)
    BY DEF RingWord, Word
  <2> HIDE DEF x
  <2>. QED  BY ZenonT(40), <1>2 DEF MaskWords, HelperPi, Composed, RingWord, Word
<1>. QED  BY <1>1, <1>3, <1>4, <1>5, <1>6, <1>7 DEF GateDealt

-----------------------------------------------------------------------------
(* What the operators of a walk put into words and tables.                 *)
LEMMA WordsAppended ==
  ASSUME NEW s \in Seq(Ring), NEW n \in Nat, NEW v \in [Idx(n) -> Ring]
  PROVE  /\ \A i \in 1 .. Len(s) : (s \o Pushed(v, n))[i] = s[i]
         /\ \A j \in Idx(n) : (s \o Pushed(v, n))[Len(s) + j + 1] = v[j]
<1> DEFINE u == Pushed(v, n)
           t == s \o Pushed(v, n)
<1>1. u \in Seq(Ring) /\ Len(u) = n /\ \A i \in 1 .. n : u[i] = v[i - 1]
  BY PushedSeq
<1>2. t = s \o u
  OBVIOUS
<1> HIDE DEF u
<1>4. /\ t \in Seq(Ring) /\ Len(t) = Len(s) + Len(u)
      /\ \A i \in 1 .. Len(s) : t[i] = s[i]
      /\ \A i \in 1 .. Len(u) : t[Len(s) + i] = u[i]
  <2> DEFINE w == s \o u
  <2>1. /\ w \in Seq(Ring) /\ Len(w) = Len(s) + Len(u)
        /\ \A i \in 1 .. Len(s) : w[i] = s[i]
        /\ \A i \in 1 .. Len(u) : w[Len(s) + i] = u[i]
    <3>1. u \in Seq(Ring)
      BY <1>1
    <3>. QED  BY <3>1, ConcatFacts
  <2>2. t = w
    BY <1>2
  <2> HIDE DEF w
  <2>. QED  BY <2>1, <2>2
<1>3. ASSUME NEW j \in Idx(n) PROVE t[Len(s) + j + 1] = v[j]
  <2>1. j + 1 \in 1 .. n /\ (j + 1) - 1 = j /\ Len(s) + (j + 1) = Len(s) + j + 1
    BY DEF Idx
  <2>2. t[Len(s) + (j + 1)] = u[j + 1] /\ u[j + 1] = v[(j + 1) - 1]
    BY <1>1, <1>4, <2>1
  <2>. QED  BY <2>1, <2>2
<1>. QED  BY <1>1, <1>3, <1>4

LEMMA AfterTriplesMakes ==
  ASSUME NEW c \in Ctx, NEW bin \in BOOLEAN, NEW n \in Nat
  PROVE  LET d == AfterTriples(0, c, bin, n) IN
         /\ d.sec = c.sec \o Pushed([j \in Idx(n) |-> SecretFor2(c, bin, j)], n)
         /\ d.secToOne = c.secToOne /\ d.perms = c.perms
<1> DEFINE x == Draw(0, c, 3 * n, 2 * n)
           v == Pushed([j \in Idx(n) |-> SecretFor2(c, bin, j)], n)
           s == x.sec \o v
           i == IF 0 = 2 THEN x.idx + n ELSE x.idx
<1>1. x \in Ctx /\ x.sec = c.sec /\ x.secToOne = c.secToOne /\ x.perms = c.perms
  BY DrawFacts DEF Party
<1>2. AfterTriples(0, c, bin, n) = [x EXCEPT !.sec = s, !.idx = i]
  BY DEF AfterTriples
<1> HIDE DEF x, v
<1>3. AfterTriples(0, c, bin, n).sec = s
  BY <1>1, <1>2 DEF Ctx
<1>. QED  BY <1>1, <1>2, <1>3 DEF Ctx, v

LEMMA PrepareShuffleMakes ==
  ASSUME NEW p \in Party, NEW c \in Ctx, NEW g \in Gate, NewPerm(c.perms, g.param)
  PROVE  LET d == PrepareShuffle(p, c, g)
             e == ShuffleEntry(p, c, g.n)
         IN  /\ d.perms = SetEntry(c.perms, g.param, e)
             /\ p = 0 => /\ d.sec = c.sec \o Pushed(e.rho1, g.n)
                         /\ d.secToOne = c.secToOne
<1> DEFINE n == g.n
           x == Draw(p, c, 2 * n, n)
           e == ShuffleEntry(p, c, n)
           t == SetEntry(x.perms, g.param, e)
           s == IF p = 0 THEN x.sec \o Pushed(e.rho1, n) ELSE x.sec
           i == IF p = 2 THEN x.idx + n ELSE x.idx
           d == PrepareShuffle(p, c, g)
<1>1. n \in Nat /\ 2 * n \in Nat
  BY DEF Gate
<1>2. x \in Ctx /\ x.sec = c.sec /\ x.secToOne = c.secToOne /\ x.perms = c.perms
  <2> HIDE DEF n
  <2>. QED  BY <1>1, DrawFacts
<1>3. d = [x EXCEPT !.perms = t, !.sec = s, !.idx = i]
  BY DEF PrepareShuffle
<1> HIDE DEF x, t, s, i, d
<1>4. d.perms = t /\ d.sec = s /\ d.secToOne = x.secToOne
  BY <1>2, <1>3 DEF Ctx
<1>. QED  BY <1>2, <1>4 DEF t, s, d

LEMMA PrepareDoubleMakes ==
  ASSUME NEW p \in Party, NEW c \in Ctx, NEW g \in Gate, NewPerm(c.perms, g.param)
  PROVE  LET d == PrepareDouble(p, c, g)
             e == DoubleEntry(p, c, g)
         IN  /\ d.perms = SetEntry(c.perms, g.param, e)
             /\ p = 0 => /\ d.sec = c.sec \o Pushed(e.pi1, g.n)
                         /\ d.secToOne = c.secToOne \o Pushed(e.rho0, g.n)
<1> DEFINE n == g.n
           x == Draw(p, c, n, n)
           e == DoubleEntry(p, c, g)
           t == SetEntry(x.perms, g.param, e)
           s == IF p = 0 THEN x.sec \o Pushed(e.pi1, n) ELSE x.sec
           r == IF p = 0 THEN x.secToOne \o Pushed(e.rho0, n) ELSE x.secToOne
           i == IF p = 0 THEN x.idx ELSE x.idx + n
           d == PrepareDouble(p, c, g)
<1>1. n \in Nat
  BY DEF Gate
<1>2. x \in Ctx /\ x.sec = c.sec /\ x.secToOne = c.secToOne /\ x.perms = c.perms
  <2> HIDE DEF n
  <2>. QED  BY <1>1, DrawFacts
<1>3. d = [x EXCEPT !.perms = t, !.sec = s, !.secToOne = r, !.idx = i]
  BY DEF PrepareDouble
<1> HIDE DEF x, t, s, r, i, d
<1>4. d.perms = t /\ d.sec = s /\ d.secToOne = r
  BY <1>2, <1>3 DEF Ctx
<1>. QED  BY <1>2, <1>4 DEF t, s, r, d

LEMMA AfterMasksMakes ==
  ASSUME NEW c \in Ctx, NEW g \in Gate
  PROVE  LET d == AfterMasks(0, c, g) IN
         /\ d.sec = c.sec \o Pushed(HelperB1(c, g), g.n)
         /\ d.secToOne = c.secToOne \o Pushed(HelperB0(c, g), g.n)
         /\ d.perms = c.perms
<1> DEFINE n == g.n
           x == Draw(0, c, n, n)
           s == x.sec \o Pushed(HelperB1(c, g), n)
           r == x.secToOne \o Pushed(HelperB0(c, g), n)
           o == x.self + n
           i == x.idx
           d == AfterMasks(0, c, g)
<1>1. n \in Nat
  BY DEF Gate
<1>2. x \in Ctx /\ x.sec = c.sec /\ x.secToOne = c.secToOne /\ x.perms = c.perms
  <2> HIDE DEF n
  <2>. QED  BY <1>1, DrawFacts DEF Party
<1>3. d = [x EXCEPT !.self = o, !.secToOne = r, !.sec = s, !.idx = i]
  BY DEF AfterMasks
<1> HIDE DEF x, s, r, o, i, d
<1>4. d.perms = x.perms /\ d.sec = s /\ d.secToOne = r
  BY <1>2, <1>3 DEF Ctx
<1>. QED  BY <1>2, <1>4 DEF s, r, d

(* The helper's entry of a shuffle, and of a double shuffle of which it    *)
(* has both parts: the two orders agree, and the parts are composed.       *)
LEMMA ShuffleEntryMakes ==
  ASSUME tape \in Tapes, NEW c \in Ctx, NEW n \in Nat
  PROVE  LET e == ShuffleEntry(0, c, n) IN
         /\ e.pi0 = RandomPerm("p01", c.p01, n) /\ e.rho0 = RandomPerm("p01", c.p01 + n, n)
         /\ e.pi1 = RandomPerm("p02", c.p02, n)
         /\ \A j \in Idx(n) : e.rho1[e.rho0[j]] = e.pi0[e.pi1[j]]
<1> DEFINE pi0  == RandomPerm("p01", c.p01, n)
           rho0 == RandomPerm("p01", c.p01 + n, n)
           pi1  == RandomPerm("p02", c.p02, n)
           inv  == InverseOf(rho0, n)
           rho1 == [j \in Idx(n) |-> pi0[pi1[inv[j]]]]
           e    == ShuffleEntry(0, c, n)
<1>1. e = [pi0 |-> pi0, pi1 |-> pi1, rho0 |-> rho0, rho1 |-> rho1]
  BY DEF ShuffleEntry
<1>2. c.p01 + n \in Nat
  BY DEF Ctx
<1>3. IsPermutation(rho0, n)
  BY <1>2, RandomPermIsPermutation DEF Stream
<1> HIDE DEF rho0
<1>4. \A j \in Idx(n) : rho0[j] \in Idx(n) /\ inv[rho0[j]] = j
  BY <1>3, InverseIsPermutation DEF IsPermutation
<1> HIDE DEF pi0, pi1, inv
<1>5. \A j \in Idx(n) : rho1[rho0[j]] = pi0[pi1[j]]
  BY <1>4
<1> HIDE DEF rho1, e
<1>6. e.pi0 = pi0 /\ e.pi1 = pi1 /\ e.rho0 = rho0 /\ e.rho1 = rho1
  BY <1>1
<1>. QED  BY <1>5, <1>6 DEF e, pi0, pi1, rho0

LEMMA DoubleEntryMakes ==
  ASSUME tape \in Tapes, NEW c \in Ctx, NEW g \in Gate, PartsReady(0, c, g)
  PROVE  LET e == DoubleEntry(0, c, g)
             n == g.n
         IN  /\ e.pi0 = RandomPerm("p01", c.p01, n) /\ e.rho1 = RandomPerm("p02", c.p02, n)
             /\ \A j \in Idx(n) : e.rho1[e.rho0[j]] = e.pi0[e.pi1[j]]
             /\ \A j \in Idx(n) : Composed(e, n)[HelperPi(c, g.param2, n)[j]]
                                    = HelperPi(c, g.param3, n)[j]
<1> DEFINE n    == g.n
           pi0  == RandomPerm("p01", c.p01, n)
           rho1 == RandomPerm("p02", c.p02, n)
           inv0 == InverseOf(pi0, n)
           inv1 == InverseOf(rho1, n)
           two  == Composed(c.perms[g.param2 + 1], n)
           inv2 == InverseOf(two, n)
           three == Composed(c.perms[g.param3 + 1], n)
           pi1  == [j \in Idx(n) |-> inv0[three[inv2[j]]]]
           rho0 == [j \in Idx(n) |-> inv1[pi0[pi1[j]]]]
           e    == DoubleEntry(0, c, g)
<1>1. e = [pi0 |-> pi0, pi1 |-> pi1, rho0 |-> rho0, rho1 |-> rho1]
  <2> SUFFICES ASSUME NEW p, p = 0
               PROVE  DoubleEntry(p, c, g) = [pi0 |-> pi0, pi1 |-> pi1, rho0 |-> rho0, rho1 |-> rho1]
    OBVIOUS
  <2>1. DoubleEntry(p, c, g) =
          CASE p = 0 -> [pi0 |-> pi0, pi1 |-> pi1, rho0 |-> rho0, rho1 |-> rho1]
            [] p = 1 -> [NoEntry EXCEPT !.pi0 = pi0, !.rho0 = Popped(c.secToOne, c.idx, n)]
            [] OTHER -> [NoEntry EXCEPT !.pi1 = Popped(c.sec, c.idx, n), !.rho1 = rho1]
    BY DEF DoubleEntry
  <2> HIDE DEF pi0, pi1, rho0, rho1
  <2>. QED  BY <2>1
<1>2. n \in Nat /\ c.p01 \in Nat /\ c.p02 \in Nat
  BY DEF Gate, Ctx
<1>3. IsPermutation(pi0, n) /\ IsPermutation(rho1, n)
  <2> HIDE DEF n
  <2>. QED  BY <1>2, RandomPermIsPermutation DEF Stream
<1>4. IsPermutation(two, n) /\ IsPermutation(three, n)
  <2>1. /\ AllPermutations(c.perms[g.param2 + 1], n)
        /\ AllPermutations(c.perms[g.param3 + 1], n)
    BY DEF PartsReady
  <2> HIDE DEF n
  <2>. QED  BY <1>2, <2>1, ComposedPermutation
<1> HIDE DEF pi0, rho1, two, three, n, e
<1>5. /\ \A j \in Idx(n) : two[j] \in Idx(n) /\ three[j] \in Idx(n) /\ pi0[j] \in Idx(n)
      /\ \A j \in Idx(n) : inv0[j] \in Idx(n) /\ pi0[inv0[j]] = j
      /\ \A j \in Idx(n) : rho1[inv1[j]] = j
      /\ \A j \in Idx(n) : inv2[j] \in Idx(n) /\ inv2[two[j]] = j
  <2>1. IsPermutation(inv0, n) /\ IsPermutation(inv2, n)
    BY <1>2, <1>3, <1>4, InverseIsPermutation
  <2>2. /\ \A j \in Idx(n) : pi0[inv0[j]] = j
        /\ \A j \in Idx(n) : rho1[inv1[j]] = j
        /\ \A j \in Idx(n) : inv2[two[j]] = j
    BY <1>2, <1>3, <1>4, InverseIsPermutation
  <2> HIDE DEF inv0, inv1, inv2
  <2>. QED  BY <1>3, <1>4, <2>1, <2>2 DEF IsPermutation
<1> HIDE DEF inv0, inv1, inv2
<1>6. \A j \in Idx(n) : pi1[j] \in Idx(n) /\ pi0[pi1[j]] = three[inv2[j]]
  BY <1>5
<1> HIDE DEF pi1
<1>7. \A j \in Idx(n) : rho1[rho0[j]] = pi0[pi1[j]]
  BY <1>5, <1>6
<1> HIDE DEF rho0
<1>8. e.pi0 = pi0 /\ e.pi1 = pi1 /\ e.rho0 = rho0 /\ e.rho1 = rho1
  BY <1>1
<1>9. \A j \in Idx(n) : Composed(e, n)[two[j]] = three[j]
  <2>1. \A j \in Idx(n) : Composed(e, n)[j] = pi0[pi1[j]]
    BY <1>8 DEF Composed
  <2>. QED  BY <1>5, <1>6, <2>1
<1>. QED  BY <1>7, <1>8, <1>9 DEF e, n, pi0, rho1, two, three, HelperPi

(* The dealt shares of the masks' image.                                   *)
LEMMA MaskImage ==
  ASSUME tape \in Tapes, NEW c \in Ctx, NEW g \in Gate,
         AllPermutations(c.perms[g.param + 1], g.n), NEW j \in Idx(g.n)
  PROVE  LET pi   == HelperPi(c, g.param, g.n)
             from == IF g.reverse THEN pi[j] ELSE j
             to   == IF g.reverse THEN j ELSE pi[j]
         IN  /\ to \in Idx(g.n)
             /\ Plus(HelperB0(c, g)[to], HelperB1(c, g)[to])
                  = Plus(RingWord("p01", c.p01 + from), RingWord("p02", c.p02 + from))
<1> DEFINE n   == g.n
           pi  == HelperPi(c, g.param, n)
           inv == InverseOf(pi, n)
           a(i) == RingWord("p01", c.p01 + i)
           b(i) == RingWord("p02", c.p02 + i)
           r(i) == RingWord("self", c.self + i)
           x == HelperB0(c, g)
           y == HelperB1(c, g)
<1>1. n \in Nat /\ c.p01 \in Nat /\ c.p02 \in Nat /\ c.self \in Nat
  BY DEF Gate, Ctx
<1>2. IsPermutation(pi, n)
  <2>1. AllPermutations(c.perms[g.param + 1], n)
    OBVIOUS
  <2> HIDE DEF n
  <2>. QED  BY <1>1, <2>1, ComposedPermutation DEF HelperPi
<1>3. /\ Masks(0, c, n).m0 = [i \in Idx(n) |-> a(i)]
      /\ Masks(0, c, n).m1 = [i \in Idx(n) |-> b(i)]
  BY DEF Masks
<1> DEFINE m0 == Masks(0, c, n).m0
           m1 == Masks(0, c, n).m1
<1>4. /\ x = IF g.reverse THEN [i \in Idx(n) |-> Minus(m0[pi[i]], r(i))]
                          ELSE [i \in Idx(n) |-> Minus(m0[inv[i]], r(inv[i]))]
      /\ y = IF g.reverse THEN [i \in Idx(n) |-> Plus(m1[pi[i]], r(i))]
                          ELSE [i \in Idx(n) |-> Plus(m1[inv[i]], r(inv[i]))]
  BY DEF HelperB0, HelperB1, HelperPi
<1>5. \A i \in Idx(n) : a(i) \in Ring /\ b(i) \in Ring /\ r(i) \in Ring
  <2>1. \A i \in Idx(n) : c.p01 + i \in Nat /\ c.p02 + i \in Nat /\ c.self + i \in Nat
    BY <1>1 DEF Idx
  <2>. QED  BY <2>1, WordsTyped DEF Stream
<1>6. \A i \in Idx(n) : m0[i] = a(i) /\ m1[i] = b(i)
  BY <1>3
<1> HIDE DEF m0, m1, pi, a, b, r, x, y
<1>7. \A i \in Idx(n) : pi[i] \in Idx(n) /\ inv[pi[i]] = i
  <2> HIDE DEF n
  <2>. QED  BY <1>1, <1>2, InverseIsPermutation DEF IsPermutation
<1> HIDE DEF inv
<1>8. j \in Idx(n)
  OBVIOUS
<1> HIDE DEF n
<1>9. CASE g.reverse
  <2>1. x[j] = Minus(a(pi[j]), r(j)) /\ y[j] = Plus(b(pi[j]), r(j))
    BY <1>4, <1>6, <1>7, <1>8, <1>9
  <2>2. Plus(x[j], y[j]) = Plus(a(pi[j]), b(pi[j]))
    BY <1>5, <1>7, <1>8, <2>1, BlindingCancels
  <2>. QED  BY <1>8, <1>9, <2>2 DEF x, y, a, b, pi, n
<1>10. CASE ~ g.reverse
  <2>1. x[pi[j]] = Minus(a(j), r(j)) /\ y[pi[j]] = Plus(b(j), r(j))
    BY <1>4, <1>6, <1>7, <1>8, <1>10
  <2>2. Plus(x[pi[j]], y[pi[j]]) = Plus(a(j), b(j))
    BY <1>5, <1>8, <2>1, BlindingCancels
  <2>. QED  BY <1>7, <1>8, <1>10, <2>2 DEF x, y, a, b, pi, n
<1>. QED  BY <1>9, <1>10

LEMMA NamesNat ==
  ASSUME gates \in Circuits
  PROVE  Names \subseteq Nat
<1> SUFFICES ASSUME NEW m \in Names PROVE m \in Nat
  OBVIOUS
<1>1. PICK k \in 1 .. Len(gates) : m \in PermNames(gates[k])
  BY DEF Names
<1>. QED  BY <1>1, NameFacts

LEMMA CtxLens ==
  ASSUME NEW c \in Ctx
  PROVE  Len(c.sec) \in Nat /\ Len(c.secToOne) \in Nat
BY SMTT(30), ZenonT(30) DEF Ctx

-----------------------------------------------------------------------------
(* The helper deals for one more gate.                                     *)
LEMMA HelperStands ==
  ASSUME IInv, pc[0] = "walk", At(0) <= Len(gates)
  PROVE  /\ At(0) = Len(ledger) + 1 /\ Len(ledger) = Len(preproc[0]) /\ Len(ledger) \in Nat
         /\ ctx[0] \in Ctx
         /\ HelperBefore(At(0)).p01 = ctx[0].p01 /\ HelperBefore(At(0)).p02 = ctx[0].p02
         /\ HelperBefore(At(0)).sec = Len(ctx[0].sec)
         /\ HelperBefore(At(0)).secToOne = Len(ctx[0].secToOne)
<1>1. Len(ledger) \in Nat /\ Len(ledger) = Len(preproc[0]) /\ ctx[0] \in Ctx
  BY DEF IInv, TypeOK, LedgerInv, Party
<1>2. At(0) = Len(ledger) + 1
  BY <1>1 DEF At
<1>3. Positions(ctx[0]) = HelperBefore(At(0))
  BY <1>2 DEF IInv, LedgerInv
<1>4. /\ Positions(ctx[0]).p01 = ctx[0].p01 /\ Positions(ctx[0]).p02 = ctx[0].p02
      /\ Positions(ctx[0]).sec = Len(ctx[0].sec)
      /\ Positions(ctx[0]).secToOne = Len(ctx[0].secToOne)
  BY DEF Positions
<1>. QED  BY <1>1, <1>2, <1>3, <1>4

LEMMA TripleStore ==
  ASSUME IInv, NEW p \in Party, DealTriple(p) \/ DealCompaction(p)
  PROVE  /\ pc[p] = "walk" /\ At(p) <= Len(gates) /\ G(p).type \in TripleGate
         /\ Bin(At(p)) \in BOOLEAN
         /\ Store(p, Triples(p, ctx[p], Bin(At(p)), G(p).n),
                  AfterTriples(p, ctx[p], Bin(At(p)), G(p).n))
<1> DEFINE k == At(p)
           g == G(p)
           bin == Bin(k)
<1>1. pc[p] = "walk" /\ At(p) <= Len(gates) /\ g.type \in TripleGate
  BY DEF DealTriple, DealCompaction, Walking, TripleGate
<1>2. k \in 1 .. Len(gates) /\ gates \in Circuits /\ g = gates[k]
  BY <1>1, WalkFacts
<1>3. bin = (g.type \in BinTriple) /\ bin \in BOOLEAN
  BY <1>2 DEF Bin
<1>4. CASE DealTriple(p)
  <2>1. g.n = 1
    <3> HIDE DEF k
    <3>1. gates[k].type \in ArithTriple \cup BinTriple
      BY <1>4, <1>2 DEF DealTriple, Walking
    <3>. QED  BY <1>2, <3>1, GateFacts
  <2>. QED  BY <1>1, <1>3, <1>4, <2>1 DEF DealTriple
<1>5. CASE DealCompaction(p)
  <2>1. g.type = "GenCompaction"
    BY <1>5 DEF DealCompaction, Walking
  <2>2. bin = FALSE
    <3>1. g.type \notin BinTriple
      BY <2>1 DEF BinTriple
    <3> HIDE DEF g, bin
    <3>. QED  BY <1>3, <3>1
  <2>. QED  BY <1>1, <1>3, <1>5, <2>2 DEF DealCompaction
<1>. QED  BY <1>4, <1>5

LEMMA StoreKeeps ==
  ASSUME IInv, NEW p \in Party, NEW d, NEW c, Store(p, d, c)
  PROVE  /\ ctx'[p] = c /\ \A q \in Party \ {p} : ctx'[q] = ctx[q]
         /\ p # 0 => preproc'[p] = Append(preproc[p], d)
         /\ \A q \in Party \ {p} : preproc'[q] = preproc[q]
BY DEF IInv, TypeOK, Store

LEMMA HelperTriple ==
  ASSUME IInv, DealTriple(0) \/ DealCompaction(0)
  PROVE  GateDealt(At(0), ctx'[0]) /\ Extends(ctx[0], ctx'[0])
<1> DEFINE k == At(0)
           g == G(0)
           n == g.n
           c == ctx[0]
           bin == Bin(k)
           d == AfterTriples(0, c, bin, n)
           v == [j \in Idx(n) |-> SecretFor2(c, bin, j)]
           b == HelperBefore(k)
<1>0. 0 \in Party
  BY DEF Party
<1>1. /\ pc[0] = "walk" /\ k <= Len(gates) /\ g.type \in TripleGate /\ bin \in BOOLEAN
      /\ Store(0, Triples(0, c, bin, n), d)
  BY <1>0, TripleStore
<1>2. /\ k \in 1 .. Len(gates) /\ gates \in Circuits /\ tape \in Tapes /\ g = gates[k]
      /\ n \in Nat /\ c \in Ctx
  BY <1>0, <1>1, WalkFacts
<1>3. b.p01 = c.p01 /\ b.p02 = c.p02 /\ b.sec = Len(c.sec)
  BY <1>1, HelperStands
<1>4. ctx'[0] = d
  <2> HIDE DEF c, d
  <2>. QED  BY <1>0, <1>1, StoreKeeps
<1>5. d.sec = c.sec \o Pushed(v, n) /\ d.secToOne = c.secToOne /\ d.perms = c.perms
  <2> HIDE DEF n, c, bin
  <2>. QED  BY <1>1, <1>2, AfterTriplesMakes
<1>6. v \in [Idx(n) -> Ring] /\ \A j \in Idx(n) : v[j] = SecretFor2(c, bin, j)
  <2> HIDE DEF n, c, bin
  <2>. QED  BY <1>0, <1>1, <1>2, TripleTyped DEF Idx
<1>7. c.sec \in Seq(Ring)
  BY <1>2 DEF Ctx
<1> HIDE DEF d, v, n, c
<1>8. /\ \A i \in 1 .. Len(c.sec) : d.sec[i] = c.sec[i]
      /\ \A j \in Idx(n) : d.sec[Len(c.sec) + j + 1] = v[j]
  <2> DEFINE s == c.sec
             u == d.sec
  <2>1. s \in Seq(Ring) /\ n \in Nat /\ v \in [Idx(n) -> Ring] /\ u = s \o Pushed(v, n)
    BY <1>2, <1>5, <1>6, <1>7
  <2> HIDE DEF s, u
  <2>2. /\ \A i \in 1 .. Len(s) : u[i] = s[i]
        /\ \A j \in Idx(n) : u[Len(s) + j + 1] = v[j]
    <3>1. s \in Seq(Ring)
      BY <2>1
    <3>2. n \in Nat
      BY <2>1
    <3>3. v \in [Idx(n) -> Ring]
      BY <2>1
    <3>4. /\ \A i \in 1 .. Len(s) : (s \o Pushed(v, n))[i] = s[i]
          /\ \A j \in Idx(n) : (s \o Pushed(v, n))[Len(s) + j + 1] = v[j]
      BY <3>1, <3>2, <3>3, WordsAppended
    <3>. QED  BY <2>1, <3>4
  <2>. QED  BY <2>2 DEF s, u
<1>9. \A j : SecretFor2(b, bin, j) = SecretFor2(c, bin, j)
  <2> HIDE DEF b, bin
  <2>. QED  BY <1>3 DEF SecretFor2, Product, TripleA, TripleB
<1>10. TripleWords(k, d)
  BY <1>2, <1>3, <1>6, <1>8, <1>9 DEF TripleWords, n
<1>11. gates[k].type \notin ShuffleGate
  BY <1>1, <1>2 DEF TripleGate, ShuffleGate, ArithTriple, BinTriple
<1>12. Extends(c, d)
  BY <1>5, <1>8 DEF Extends
<1>. QED  BY <1>4, <1>10, <1>11, <1>12 DEF GateDealt, c

(* The words of the masks, behind whatever the preparation has dealt.      *)
LEMMA HelperMasks ==
  ASSUME tape \in Tapes, NEW d \in Ctx, NEW g \in Gate,
         AllPermutations(d.perms[g.param + 1], g.n)
  PROVE  LET e == AfterMasks(0, d, g) IN
         /\ e.perms = d.perms
         /\ \A i \in 1 .. Len(d.sec) : e.sec[i] = d.sec[i]
         /\ \A i \in 1 .. Len(d.secToOne) : e.secToOne[i] = d.secToOne[i]
         /\ \A j \in Idx(g.n) :
              LET pi   == HelperPi(d, g.param, g.n)
                  from == IF g.reverse THEN pi[j] ELSE j
                  to   == IF g.reverse THEN j ELSE pi[j]
              IN  Plus(e.secToOne[Len(d.secToOne) + to + 1], e.sec[Len(d.sec) + to + 1])
                    = Plus(RingWord("p01", d.p01 + from), RingWord("p02", d.p02 + from))
<1> DEFINE n == g.n
           x == HelperB0(d, g)
           y == HelperB1(d, g)
           e == AfterMasks(0, d, g)
           pi == HelperPi(d, g.param, n)
           from(j) == IF g.reverse THEN pi[j] ELSE j
           to(j)   == IF g.reverse THEN j ELSE pi[j]
<1>1. n \in Nat /\ d.sec \in Seq(Ring) /\ d.secToOne \in Seq(Ring)
  BY DEF Gate, Ctx
<1>2. x \in [Idx(n) -> Ring] /\ y \in [Idx(n) -> Ring]
  BY HelperBTyped
<1>3. e.sec = d.sec \o Pushed(y, n) /\ e.secToOne = d.secToOne \o Pushed(x, n) /\ e.perms = d.perms
  BY AfterMasksMakes
<1>4. \A j \in Idx(n) : /\ to(j) \in Idx(n)
                        /\ Plus(x[to(j)], y[to(j)])
                            = Plus(RingWord("p01", d.p01 + from(j)), RingWord("p02", d.p02 + from(j)))
  BY MaskImage
<1> HIDE DEF x, y, n, e, to, from
<1>5. /\ \A i \in 1 .. Len(d.sec) : e.sec[i] = d.sec[i]
      /\ \A j \in Idx(n) : e.sec[Len(d.sec) + j + 1] = y[j]
  <2> DEFINE s == d.sec
             u == e.sec
  <2>1. s \in Seq(Ring) /\ n \in Nat /\ y \in [Idx(n) -> Ring] /\ u = s \o Pushed(y, n)
    BY <1>1, <1>2, <1>3
  <2> HIDE DEF s, u
  <2>2. /\ \A i \in 1 .. Len(s) : u[i] = s[i]
        /\ \A j \in Idx(n) : u[Len(s) + j + 1] = y[j]
    <3>1. s \in Seq(Ring)
      BY <2>1
    <3>2. n \in Nat
      BY <2>1
    <3>3. y \in [Idx(n) -> Ring]
      BY <2>1
    <3>4. /\ \A i \in 1 .. Len(s) : (s \o Pushed(y, n))[i] = s[i]
          /\ \A j \in Idx(n) : (s \o Pushed(y, n))[Len(s) + j + 1] = y[j]
      BY <3>1, <3>2, <3>3, WordsAppended
    <3>. QED  BY <2>1, <3>4
  <2>. QED  BY <2>2 DEF s, u
<1>6. /\ \A i \in 1 .. Len(d.secToOne) : e.secToOne[i] = d.secToOne[i]
      /\ \A j \in Idx(n) : e.secToOne[Len(d.secToOne) + j + 1] = x[j]
  <2> DEFINE s == d.secToOne
             u == e.secToOne
  <2>1. s \in Seq(Ring) /\ n \in Nat /\ x \in [Idx(n) -> Ring] /\ u = s \o Pushed(x, n)
    BY <1>1, <1>2, <1>3
  <2> HIDE DEF s, u
  <2>2. /\ \A i \in 1 .. Len(s) : u[i] = s[i]
        /\ \A j \in Idx(n) : u[Len(s) + j + 1] = x[j]
    <3>1. s \in Seq(Ring)
      BY <2>1
    <3>2. n \in Nat
      BY <2>1
    <3>3. x \in [Idx(n) -> Ring]
      BY <2>1
    <3>4. /\ \A i \in 1 .. Len(s) : (s \o Pushed(x, n))[i] = s[i]
          /\ \A j \in Idx(n) : (s \o Pushed(x, n))[Len(s) + j + 1] = x[j]
      BY <3>1, <3>2, <3>3, WordsAppended
    <3>. QED  BY <2>1, <3>4
  <2>. QED  BY <2>2 DEF s, u
<1>7. \A j \in Idx(n) : Plus(e.secToOne[Len(d.secToOne) + to(j) + 1], e.sec[Len(d.sec) + to(j) + 1])
            = Plus(RingWord("p01", d.p01 + from(j)), RingWord("p02", d.p02 + from(j)))
  BY <1>4, <1>5, <1>6
<1>. QED  BY <1>3, <1>5, <1>6, <1>7 DEF n, e, to, from

(* A permutation that is there was made by an earlier gate like this one.  *)
LEMMA EarlierGate ==
  ASSUME IInv, GatesDealt, pc[0] = "walk", At(0) <= Len(gates), G(0).type \in ShuffleGate,
         ~ NewPerm(ctx[0].perms, G(0).param)
  PROVE  \E i \in 1 .. Len(preproc[0]) :
           /\ gates[i].type = G(0).type /\ gates[i].param = G(0).param
           /\ gates[i].n = G(0).n
           /\ G(0).type = "DoubleShuffle" => /\ gates[i].param2 = G(0).param2
                                            /\ gates[i].param3 = G(0).param3
           /\ GateDealt(i, ctx[0])
<1> DEFINE k == At(0)
           g == gates[k]
<1>0. 0 \in Party
  BY DEF Party
<1>1. /\ k \in 1 .. Len(gates) /\ gates \in Circuits /\ G(0) = g
      /\ k - 1 = Len(preproc[0]) /\ Tables(0, ctx[0].perms, k - 1)
  BY <1>0, WalkFacts
<1>2. g.param \in PermNames(g) /\ g.param \in Names
  <2> HIDE DEF k
  <2>. QED  BY <1>1, NameFacts
<1>3. Made(k - 1, g.param)
  BY <1>1, <1>2 DEF Tables
<1>4. PICK i \in 1 .. (k - 1) : gates[i].type \in ShuffleGate /\ gates[i].param = g.param
  BY <1>3 DEF Made
<1>5. i \in 1 .. Len(gates) /\ i \in 1 .. Len(preproc[0])
  BY <1>1, GateFacts
<1>6. gates[i].param \in PermNames(gates[i])
  BY <1>1, <1>4, <1>5, NameFacts
<1>7. gates[i].n = g.n
  <2> HIDE DEF k
  <2>. QED  BY <1>1, <1>2, <1>4, <1>5, <1>6, AgreeFacts
<1>8. /\ gates[i].type = g.type
      /\ g.type = "DoubleShuffle" => gates[i].param2 = g.param2 /\ gates[i].param3 = g.param3
  <2>1. NamesAgree(gates)
    BY <1>1, CircuitAssumption
  <2>2. {gates[i].type, g.type} \subseteq {"Shuffle", "DoubleShuffle"}
    BY <1>1, <1>4 DEF ShuffleGate
  <2> HIDE DEF k
  <2>. QED  BY <1>1, <1>4, <1>5, <2>1, <2>2 DEF NamesAgree
<1>9. GateDealt(i, ctx[0])
  BY <1>5 DEF GatesDealt
<1>. QED  BY <1>1, <1>4, <1>5, <1>7, <1>8, <1>9
(* Once the permutation is prepared, every shuffle ends the same way.      *)
LEMMA MasksDealt ==
  ASSUME IInv, pc[0] = "walk", At(0) <= Len(gates), G(0).type \in ShuffleGate,
         NEW d \in Ctx, TableStep(0, ctx[0].perms, d.perms, G(0)),
         AllPermutations(d.perms[G(0).param + 1], G(0).n),
         d.p01 = MasksFrom(At(0)).p01, d.p02 = MasksFrom(At(0)).p02,
         Len(d.sec) = MasksFrom(At(0)).sec, Len(d.secToOne) = MasksFrom(At(0)).secToOne,
         \A i \in 1 .. Len(ctx[0].sec) : d.sec[i] = ctx[0].sec[i],
         \A i \in 1 .. Len(ctx[0].secToOne) : d.secToOne[i] = ctx[0].secToOne[i],
         NEW e, e = AfterMasks(0, d, G(0))
  PROVE  /\ e.perms = d.perms /\ MaskWords(At(0), e) /\ Extends(ctx[0], e)
         /\ \A i \in 1 .. Len(d.sec) : e.sec[i] = d.sec[i]
         /\ \A i \in 1 .. Len(d.secToOne) : e.secToOne[i] = d.secToOne[i]
<1> DEFINE k == At(0)
           g == G(0)
           n == g.n
           c == ctx[0]
           x == MasksFrom(k)
           pi == HelperPi(d, g.param, n)
<1>0. 0 \in Party
  BY DEF Party
<1>1. /\ k \in 1 .. Len(gates) /\ gates \in Circuits /\ tape \in Tapes
      /\ g \in Gate /\ g = gates[k] /\ n \in Nat /\ c \in Ctx
  BY <1>0, WalkFacts
<1>2. /\ e.perms = d.perms
      /\ \A i \in 1 .. Len(d.sec) : e.sec[i] = d.sec[i]
      /\ \A i \in 1 .. Len(d.secToOne) : e.secToOne[i] = d.secToOne[i]
      /\ \A j \in Idx(n) :
           LET from == IF g.reverse THEN pi[j] ELSE j
               to   == IF g.reverse THEN j ELSE pi[j]
           IN  Plus(e.secToOne[Len(d.secToOne) + to + 1], e.sec[Len(d.sec) + to + 1])
                 = Plus(RingWord("p01", d.p01 + from), RingWord("p02", d.p02 + from))
  <2>1. AllPermutations(d.perms[g.param + 1], g.n) /\ e = AfterMasks(0, d, g)
    OBVIOUS
  <2> HIDE DEF g
  <2>2. LET h == AfterMasks(0, d, g) IN
        /\ h.perms = d.perms
        /\ \A i \in 1 .. Len(d.sec) : h.sec[i] = d.sec[i]
        /\ \A i \in 1 .. Len(d.secToOne) : h.secToOne[i] = d.secToOne[i]
        /\ \A j \in Idx(g.n) :
             LET z    == HelperPi(d, g.param, g.n)
                 from == IF g.reverse THEN z[j] ELSE j
                 to   == IF g.reverse THEN j ELSE z[j]
             IN  Plus(h.secToOne[Len(d.secToOne) + to + 1], h.sec[Len(d.sec) + to + 1])
                   = Plus(RingWord("p01", d.p01 + from), RingWord("p02", d.p02 + from))
    BY <1>1, <2>1, HelperMasks
  <2>. QED  BY <2>1, <2>2
<1>3. HelperPi(e, g.param, n) = pi
  BY <1>2 DEF HelperPi
<1>4. MaskWords(k, e)
  <2> HIDE DEF x, pi
  <2>1. /\ d.p01 = x.p01 /\ d.p02 = x.p02
        /\ Len(d.sec) = x.sec /\ Len(d.secToOne) = x.secToOne
    BY DEF x
  <2> HIDE DEF k, g
  <2>. QED  BY <1>1, <1>2, <1>3, <2>1 DEF MaskWords, x, n
<1>5. Extends(c, e)
  <2>1. Len(c.sec) <= Len(d.sec) /\ Len(c.secToOne) <= Len(d.secToOne)
    <3>1. /\ HelperBefore(k).sec = Len(c.sec) /\ HelperBefore(k).secToOne = Len(c.secToOne)
      BY HelperStands
    <3>2. Making(k) \in Nat
      BY <1>1, UsedFacts
    <3>3. Len(c.sec) \in Nat /\ Len(c.secToOne) \in Nat
      <4> HIDE DEF c
      <4>. QED  BY <1>1, CtxLens
    <3> DEFINE f == Making(k)
               v == Len(c.sec)
               w == Len(c.secToOne)
    <3>4. x.sec = v + f /\ x.secToOne \in {w, w + f}
      BY <3>1, <3>2, <3>3 DEF MasksFrom
    <3>5. Len(d.sec) = x.sec /\ Len(d.secToOne) = x.secToOne
      OBVIOUS
    <3> HIDE DEF f, v, w, x
    <3>. QED  BY SMTT(30), <3>2, <3>3, <3>4, <3>5 DEF f, v, w
  <2>2. Len(c.sec) \in Nat /\ Len(c.secToOne) \in Nat /\ Len(d.sec) \in Nat /\ Len(d.secToOne) \in Nat
    <3> HIDE DEF c
    <3>. QED  BY <1>1, CtxLens
  <2>3. \A i \in 1 .. Len(c.sec) : i \in 1 .. Len(d.sec)
    BY <2>1, <2>2
  <2>4. \A i \in 1 .. Len(c.secToOne) : i \in 1 .. Len(d.secToOne)
    BY <2>1, <2>2
  <2>5. ASSUME NEW m \in Names, ~ NewPerm(c.perms, m)
        PROVE  ~ NewPerm(e.perms, m) /\ e.perms[m + 1] = c.perms[m + 1]
    <3>1. m \in Nat
      BY <1>1, NameFacts
    <3>. QED  BY <1>2, <2>5, <3>1 DEF TableStep
  <2>. QED  BY <1>2, <2>3, <2>4, <2>5 DEF Extends
<1>. QED  BY <1>2, <1>4, <1>5
LEMMA HelperShuffle ==
  ASSUME IInv, GatesDealt, DealShuffle(0)
  PROVE  GateDealt(At(0), ctx'[0]) /\ Extends(ctx[0], ctx'[0])
<1> DEFINE k == At(0)
           g == G(0)
           n == g.n
           f == Making(k)
           c == ctx[0]
           d == PrepareShuffle(0, c, g)
           e == AfterMasks(0, d, g)
           h == ShuffleEntry(0, c, n)
           b == HelperBefore(k)
           x == MasksFrom(k)
           v == c.sec
           w == d.sec
           r == h.rho1
<1>0. 0 \in Party
  BY DEF Party
<1>1. /\ pc[0] = "walk" /\ At(0) <= Len(gates) /\ g.type = "Shuffle"
      /\ f = MakingN(c.perms, g) /\ f \in Nat
      /\ Advance(0, c, d, 2 * f, f, f, 0)
      /\ TableStep(0, c.perms, d.perms, g)
      /\ AllPermutations(d.perms[g.param + 1], n)
      /\ d \in Ctx
      /\ Store(0, MaskedShuffle(0, d, g), e)
  BY <1>0, ShuffleMoves
<1>2. /\ k \in 1 .. Len(gates) /\ gates \in Circuits /\ tape \in Tapes
      /\ g \in Gate /\ g = gates[k] /\ n \in Nat /\ n <= Modulus /\ c \in Ctx
  BY <1>0, <1>1, WalkFacts
<1>3. ctx'[0] = e
  <2> HIDE DEF e, d, g
  <2>. QED  BY <1>0, <1>1, StoreKeeps
<1>4. /\ b.p01 = c.p01 /\ b.p02 = c.p02 /\ b.sec = Len(v) /\ b.secToOne = Len(c.secToOne)
  BY <1>1, HelperStands
<1>5. /\ d.p01 = x.p01 /\ d.p02 = x.p02 /\ Len(d.sec) = x.sec /\ Len(d.secToOne) = x.secToOne
  <2>1. /\ d.p01 = c.p01 + 2 * f /\ d.p02 = c.p02 + f
        /\ Len(d.sec) = Len(c.sec) + f /\ Len(d.secToOne) = Len(c.secToOne) + 0
    BY <1>1 DEF Advance
  <2>2. /\ x.p01 = b.p01 + 2 * f /\ x.p02 = b.p02 + f
        /\ x.sec = b.sec + f /\ x.secToOne = b.secToOne + 0
    <3>1. gates[k].type # "DoubleShuffle"
      BY <1>1, <1>2
    <3>. QED  BY <3>1 DEF MasksFrom
  <2>. QED  BY <1>4, <2>1, <2>2
<1>6. ASSUME NewPerm(c.perms, g.param)
      PROVE  /\ f = n /\ d.perms[g.param + 1] = h /\ d.secToOne = c.secToOne
             /\ \A i \in 1 .. Len(v) : w[i] = v[i]
             /\ \A j \in Idx(n) : w[Len(v) + j + 1] = r[j]
  <2>1. f = n
    BY <1>1, <1>6 DEF MakingN
  <2>2. GoodEntry(0, h, n)
    <3> HIDE DEF n, c
    <3>. QED  BY <1>0, <1>2, ShuffleEntryFacts
  <2>3. h \in Entry /\ IsPermutation(r, n)
    BY <2>2 DEF GoodEntry, AllPermutations
  <2>4. r \in [Idx(n) -> Ring]
    <3> HIDE DEF r, n
    <3>. QED  BY <1>2, <2>3, PermutationIsVec
  <2>5. /\ d.perms = SetEntry(c.perms, g.param, h) /\ w = v \o Pushed(r, n)
        /\ d.secToOne = c.secToOne
    <3> HIDE DEF c, g
    <3>. QED  BY <1>0, <1>2, <1>6, PrepareShuffleMakes DEF n, h, d
  <2>6. d.perms[g.param + 1] = h
    <3> DEFINE s == c.perms
               m == g.param
    <3>1. s \in Seq(Entry) /\ m \in Nat
      BY <1>2, SMTT(30), ZenonT(30) DEF Ctx, Gate
    <3>2. d.perms = SetEntry(s, m, h)
      BY <2>5
    <3> HIDE DEF s, m, h, d
    <3>3. SetEntry(s, m, h)[m + 1] = h
      BY <2>3, <3>1, SetEntryFacts
    <3>. QED  BY <3>2, <3>3 DEF m
  <2>7. v \in Seq(Ring)
    BY <1>2 DEF Ctx
  <2> HIDE DEF v, w, r, n
  <2>8. /\ \A i \in 1 .. Len(v) : (v \o Pushed(r, n))[i] = v[i]
        /\ \A j \in Idx(n) : (v \o Pushed(r, n))[Len(v) + j + 1] = r[j]
    BY <1>2, <2>4, <2>7, WordsAppended
  <2>. QED  BY <2>1, <2>5, <2>6, <2>8
<1>7. ASSUME ~ NewPerm(c.perms, g.param)
      PROVE  f = 0 /\ d = c
  BY <1>1, <1>7 DEF MakingN, PrepareShuffle
<1>8. /\ \A i \in 1 .. Len(v) : w[i] = v[i]
      /\ \A i \in 1 .. Len(c.secToOne) : d.secToOne[i] = c.secToOne[i]
  BY <1>6, <1>7
<1>9. /\ e.perms = d.perms /\ MaskWords(k, e) /\ Extends(c, e)
      /\ \A i \in 1 .. Len(w) : e.sec[i] = w[i]
  <2>1. G(0).type \in ShuffleGate
    BY <1>1 DEF ShuffleGate
  <2>2. e = AfterMasks(0, d, G(0))
    OBVIOUS
  <2> HIDE DEF d, e
  <2>. QED  BY <1>1, <1>5, <1>8, <2>1, <2>2, MasksDealt
<1>10. ASSUME f > 0 PROVE EntryWords(k, e)
  <2>1. NewPerm(c.perms, g.param)
    BY <1>7, <1>10
  <2>2. e.perms[g.param + 1] = h
    BY <1>6, <1>9, <2>1
  <2>3. /\ h.pi0 = RandomPerm("p01", c.p01, n) /\ h.rho0 = RandomPerm("p01", c.p01 + n, n)
        /\ h.pi1 = RandomPerm("p02", c.p02, n)
    <3> HIDE DEF c, n
    <3>. QED  BY <1>2, ShuffleEntryMakes
  <2>4. ASSUME NEW j \in Idx(n) PROVE e.sec[b.sec + j + 1] = h.rho1[j]
    <3>1. w[Len(v) + j + 1] = r[j]
      BY <1>6, <2>1
    <3>2. Len(v) + j + 1 \in 1 .. Len(w)
      <4>1. Len(v) \in Nat /\ Len(w) = Len(v) + f /\ f = n
        <5>1. Len(v) \in Nat
          <6> HIDE DEF c
          <6>. QED  BY <1>2, CtxLens
        <5>. QED  BY <1>1, <1>6, <2>1, <5>1 DEF Advance
      <4> HIDE DEF n, v, w
      <4>. QED  BY <1>2, <4>1 DEF Idx
    <3>3. e.sec[Len(v) + j + 1] = w[Len(v) + j + 1]
      BY <1>9, <3>2
    <3>. QED  BY <1>4, <3>1, <3>3
  <2>5. gates[k].type # "DoubleShuffle" /\ gates[k].param = g.param /\ gates[k].n = n
    BY <1>1, <1>2
  <2> HIDE DEF e, h, n, k
  <2>. QED  BY <1>4, <2>2, <2>3, <2>4, <2>5 DEF EntryWords, b
<1>11. EntryRight(k, e)
  <2>1. CASE NewPerm(c.perms, g.param)
    <3>1. \A j \in Idx(n) : h.rho1[h.rho0[j]] = h.pi0[h.pi1[j]]
      <4> HIDE DEF c, n
      <4>. QED  BY <1>2, ShuffleEntryMakes
    <3>2. e.perms[g.param + 1] = h
      BY <1>6, <1>9, <2>1
    <3>. QED  BY <1>2, <3>1, <3>2 DEF EntryRight
  <2>2. CASE ~ NewPerm(c.perms, g.param)
    <3>1. PICK i \in 1 .. Len(preproc[0]) : /\ gates[i].type = g.type /\ gates[i].n = n
                                            /\ gates[i].param = g.param /\ GateDealt(i, c)
      <4>1. G(0).type \in ShuffleGate
        BY <1>1 DEF ShuffleGate
      <4>. QED  BY <1>1, <2>2, <4>1, EarlierGate
    <3>2. EntryRight(i, c)
      BY <1>1, <3>1 DEF GateDealt, ShuffleGate
    <3>3. e.perms = c.perms
      BY <1>7, <1>9, <2>2
    <3>. QED  BY ZenonT(40), <1>2, <3>1, <3>2, <3>3 DEF EntryRight
  <2>. QED  BY <2>1, <2>2
<1>12. gates[k].type \notin TripleGate /\ gates[k].type # "DoubleShuffle"
  BY <1>1, <1>2 DEF TripleGate, ArithTriple, BinTriple
<1>. QED  BY <1>3, <1>9, <1>10, <1>11, <1>12 DEF GateDealt

LEMMA HelperDouble ==
  ASSUME IInv, GatesDealt, DealDouble(0)
  PROVE  GateDealt(At(0), ctx'[0]) /\ Extends(ctx[0], ctx'[0])
<1> DEFINE k == At(0)
           g == G(0)
           n == g.n
           f == Making(k)
           c == ctx[0]
           d == PrepareDouble(0, c, g)
           e == AfterMasks(0, d, g)
           h == DoubleEntry(0, c, g)
           b == HelperBefore(k)
           x == MasksFrom(k)
           v == c.sec
           w == d.sec
           v1 == c.secToOne
           w1 == d.secToOne
           r == h.pi1
           r1 == h.rho0
<1>0. 0 \in Party
  BY DEF Party
<1>1. /\ pc[0] = "walk" /\ At(0) <= Len(gates) /\ g.type = "DoubleShuffle"
      /\ f = MakingN(c.perms, g) /\ f \in Nat
      /\ NewPerm(c.perms, g.param) =>
           /\ PartsReady(0, c, g)
           /\ ~ NewPerm(c.perms, g.param2) /\ ~ NewPerm(c.perms, g.param3)
      /\ Advance(0, c, d, f, f, f, f)
      /\ TableStep(0, c.perms, d.perms, g)
      /\ AllPermutations(d.perms[g.param + 1], n)
      /\ d \in Ctx
      /\ Store(0, MaskedShuffle(0, d, g), e)
  BY <1>0, DoubleMoves
<1>2. /\ k \in 1 .. Len(gates) /\ gates \in Circuits /\ tape \in Tapes
      /\ g \in Gate /\ g = gates[k] /\ n \in Nat /\ n <= Modulus /\ c \in Ctx
  BY <1>0, <1>1, WalkFacts
<1>3. ctx'[0] = e
  <2> HIDE DEF e, d, g
  <2>. QED  BY <1>0, <1>1, StoreKeeps
<1>4. /\ b.p01 = c.p01 /\ b.p02 = c.p02 /\ b.sec = Len(v) /\ b.secToOne = Len(v1)
  BY <1>1, HelperStands
<1>5. /\ d.p01 = x.p01 /\ d.p02 = x.p02 /\ Len(d.sec) = x.sec /\ Len(d.secToOne) = x.secToOne
  <2>1. /\ d.p01 = c.p01 + f /\ d.p02 = c.p02 + f
        /\ Len(d.sec) = Len(c.sec) + f /\ Len(d.secToOne) = Len(c.secToOne) + f
    BY <1>1 DEF Advance
  <2>2. /\ x.p01 = b.p01 + f /\ x.p02 = b.p02 + f
        /\ x.sec = b.sec + f /\ x.secToOne = b.secToOne + f
    <3>1. gates[k].type = "DoubleShuffle"
      BY <1>1, <1>2
    <3>. QED  BY <3>1 DEF MasksFrom
  <2>. QED  BY <1>4, <2>1, <2>2
<1>6. ASSUME NewPerm(c.perms, g.param)
      PROVE  /\ f = n /\ d.perms[g.param + 1] = h /\ PartsReady(0, c, g)
             /\ \A i \in 1 .. Len(v) : w[i] = v[i]
             /\ \A j \in Idx(n) : w[Len(v) + j + 1] = r[j]
             /\ \A i \in 1 .. Len(v1) : w1[i] = v1[i]
             /\ \A j \in Idx(n) : w1[Len(v1) + j + 1] = r1[j]
  <2>1. f = n /\ PartsReady(0, c, g)
    BY <1>1, <1>6 DEF MakingN
  <2>2. GoodEntry(0, h, n)
    <3>1. g.n <= Modulus
      BY <1>2
    <3> HIDE DEF g, c
    <3>. QED  BY <1>0, <1>2, <2>1, <3>1, DoubleEntryFacts
  <2>3. h \in Entry /\ IsPermutation(r, n) /\ IsPermutation(r1, n)
    BY <2>2 DEF GoodEntry, AllPermutations
  <2>4. r \in [Idx(n) -> Ring] /\ r1 \in [Idx(n) -> Ring]
    <3> HIDE DEF r, r1, n
    <3>. QED  BY <1>2, <2>3, PermutationIsVec
  <2>5. /\ d.perms = SetEntry(c.perms, g.param, h) /\ w = v \o Pushed(r, n)
        /\ w1 = v1 \o Pushed(r1, n)
    <3> HIDE DEF c, g
    <3>. QED  BY <1>0, <1>2, <1>6, PrepareDoubleMakes DEF n, h, d
  <2>6. d.perms[g.param + 1] = h
    <3> DEFINE s == c.perms
               m == g.param
    <3>1. s \in Seq(Entry) /\ m \in Nat
      BY <1>2, SMTT(30), ZenonT(30) DEF Ctx, Gate
    <3>2. d.perms = SetEntry(s, m, h)
      BY <2>5
    <3> HIDE DEF s, m, h, d
    <3>3. SetEntry(s, m, h)[m + 1] = h
      BY <2>3, <3>1, SetEntryFacts
    <3>. QED  BY <3>2, <3>3 DEF m
  <2>7. v \in Seq(Ring) /\ v1 \in Seq(Ring)
    BY <1>2 DEF Ctx
  <2> HIDE DEF v, w, r, v1, w1, r1, n
  <2>8. /\ \A i \in 1 .. Len(v) : (v \o Pushed(r, n))[i] = v[i]
        /\ \A j \in Idx(n) : (v \o Pushed(r, n))[Len(v) + j + 1] = r[j]
    BY <1>2, <2>4, <2>7, WordsAppended
  <2>9. /\ \A i \in 1 .. Len(v1) : (v1 \o Pushed(r1, n))[i] = v1[i]
        /\ \A j \in Idx(n) : (v1 \o Pushed(r1, n))[Len(v1) + j + 1] = r1[j]
    BY <1>2, <2>4, <2>7, WordsAppended
  <2>. QED  BY <2>1, <2>5, <2>6, <2>8, <2>9
<1>7. ASSUME ~ NewPerm(c.perms, g.param)
      PROVE  f = 0 /\ d = c
  BY <1>1, <1>7 DEF MakingN, PrepareDouble
<1>8. /\ \A i \in 1 .. Len(v) : w[i] = v[i]
      /\ \A i \in 1 .. Len(v1) : w1[i] = v1[i]
  BY <1>6, <1>7
<1>9. /\ e.perms = d.perms /\ MaskWords(k, e) /\ Extends(c, e)
      /\ \A i \in 1 .. Len(w) : e.sec[i] = w[i]
      /\ \A i \in 1 .. Len(w1) : e.secToOne[i] = w1[i]
  <2>1. G(0).type \in ShuffleGate
    BY <1>1 DEF ShuffleGate
  <2>2. e = AfterMasks(0, d, G(0))
    OBVIOUS
  <2> HIDE DEF d, e
  <2>. QED  BY <1>1, <1>5, <1>8, <2>1, <2>2, MasksDealt
<1>10. ASSUME f > 0 PROVE EntryWords(k, e)
  <2>1. NewPerm(c.perms, g.param)
    BY <1>7, <1>10
  <2>2. e.perms[g.param + 1] = h
    BY <1>6, <1>9, <2>1
  <2>3. /\ h.pi0 = RandomPerm("p01", c.p01, n) /\ h.rho1 = RandomPerm("p02", c.p02, n)
    <3>1. PartsReady(0, c, g)
      BY <1>6, <2>1
    <3> HIDE DEF c, g
    <3>. QED  BY <1>2, <3>1, DoubleEntryMakes DEF n, h
  <2>4. ASSUME NEW j \in Idx(n)
        PROVE  e.sec[b.sec + j + 1] = h.pi1[j] /\ e.secToOne[b.secToOne + j + 1] = h.rho0[j]
    <3>1. w[Len(v) + j + 1] = r[j] /\ w1[Len(v1) + j + 1] = r1[j]
      BY <1>6, <2>1
    <3>2. Len(v) + j + 1 \in 1 .. Len(w) /\ Len(v1) + j + 1 \in 1 .. Len(w1)
      <4>1. /\ Len(v) \in Nat /\ Len(w) = Len(v) + f /\ f = n
            /\ Len(v1) \in Nat /\ Len(w1) = Len(v1) + f
        <5>1. Len(v) \in Nat /\ Len(v1) \in Nat
          <6> HIDE DEF c
          <6>. QED  BY <1>2, CtxLens
        <5>. QED  BY <1>1, <1>6, <2>1, <5>1 DEF Advance
      <4> HIDE DEF n, v, w, v1, w1
      <4>. QED  BY <1>2, <4>1 DEF Idx
    <3>3. /\ e.sec[Len(v) + j + 1] = w[Len(v) + j + 1]
          /\ e.secToOne[Len(v1) + j + 1] = w1[Len(v1) + j + 1]
      BY <1>9, <3>2
    <3>. QED  BY <1>4, <3>1, <3>3
  <2>5. gates[k].type = "DoubleShuffle" /\ gates[k].param = g.param /\ gates[k].n = n
    BY <1>1, <1>2
  <2> HIDE DEF e, h, n, k
  <2>. QED  BY <1>4, <2>2, <2>3, <2>4, <2>5 DEF EntryWords, b
<1>11. EntryRight(k, e) /\ DoubleRight(k, e)
  <2>1. CASE NewPerm(c.perms, g.param)
    <3>1. /\ \A j \in Idx(n) : h.rho1[h.rho0[j]] = h.pi0[h.pi1[j]]
          /\ \A j \in Idx(n) : Composed(h, n)[HelperPi(c, g.param2, n)[j]]
                                 = HelperPi(c, g.param3, n)[j]
      <4>1. PartsReady(0, c, g)
        BY <1>6, <2>1
      <4> HIDE DEF c, g
      <4>. QED  BY <1>2, <4>1, DoubleEntryMakes DEF n, h
    <3>2. e.perms[g.param + 1] = h
      BY <1>6, <1>9, <2>1
    <3>3. g.param2 \in Names /\ g.param3 \in Names
      <4> HIDE DEF k
      <4>. QED  BY <1>1, <1>2, NameFacts
    <3>4. /\ ~ NewPerm(e.perms, g.param2) /\ ~ NewPerm(e.perms, g.param3)
          /\ e.perms[g.param2 + 1] = c.perms[g.param2 + 1]
          /\ e.perms[g.param3 + 1] = c.perms[g.param3 + 1]
      BY <1>1, <1>9, <2>1, <3>3 DEF Extends
    <3>5. /\ HelperPi(e, g.param, n) = Composed(h, n)
          /\ HelperPi(e, g.param2, n) = HelperPi(c, g.param2, n)
          /\ HelperPi(e, g.param3, n) = HelperPi(c, g.param3, n)
      BY <3>2, <3>4 DEF HelperPi
    <3> HIDE DEF c, e, h
    <3>6. EntryRight(k, e)
      BY <1>2, <3>1, <3>2 DEF EntryRight
    <3>7. DoubleRight(k, e)
      BY <1>2, <3>1, <3>4, <3>5 DEF DoubleRight
    <3>. QED  BY <3>6, <3>7
  <2>2. CASE ~ NewPerm(c.perms, g.param)
    <3>1. PICK i \in 1 .. Len(preproc[0]) :
            /\ gates[i].type = g.type /\ gates[i].n = n /\ gates[i].param = g.param
            /\ gates[i].param2 = g.param2 /\ gates[i].param3 = g.param3 /\ GateDealt(i, c)
      <4>1. G(0).type \in ShuffleGate
        BY <1>1 DEF ShuffleGate
      <4>. QED  BY <1>1, <2>2, <4>1, EarlierGate
    <3>2. EntryRight(i, c) /\ DoubleRight(i, c)
      BY <1>1, <3>1 DEF GateDealt, ShuffleGate
    <3>3. e.perms = c.perms
      BY <1>7, <1>9, <2>2
    <3> HIDE DEF c, e
    <3>4. EntryRight(k, e)
      BY SMTT(30), <1>2, <3>1, <3>2, <3>3 DEF EntryRight
    <3>5. HelperPi(e, g.param, n) = HelperPi(c, g.param, n)
          /\ HelperPi(e, g.param2, n) = HelperPi(c, g.param2, n)
          /\ HelperPi(e, g.param3, n) = HelperPi(c, g.param3, n)
      BY <3>3 DEF HelperPi
    <3>6. DoubleRight(k, e)
      BY <1>2, <3>1, <3>2, <3>3, <3>5 DEF DoubleRight
    <3>. QED  BY <3>4, <3>6
  <2>. QED  BY <2>1, <2>2
<1>12. gates[k].type \notin TripleGate
  BY <1>1, <1>2 DEF TripleGate, ArithTriple, BinTriple
<1>. QED  BY <1>3, <1>9, <1>10, <1>11, <1>12 DEF GateDealt

(* What has been dealt stays right when the helper passes one more gate,   *)
(* and when it passes none.                                                *)
LEMMA GatesKept ==
  ASSUME IInv, GatesDealt, gates' = gates, tape' = tape, Extends(ctx[0], ctx'[0]),
         \/ preproc'[0] = preproc[0] /\ ledger' = ledger
         \/ /\ Len(preproc'[0]) = At(0) /\ GateDealt(At(0), ctx'[0])
            /\ \E x \in [p01 : Nat, p02 : Nat, sec : Nat, secToOne : Nat] :
                 ledger' = Append(ledger, x)
  PROVE  GatesDealt'
<1> DEFINE l == Len(preproc[0])
<1>1. l = Len(ledger) /\ l \in Nat /\ At(0) = l + 1
  BY DEF IInv, TypeOK, LedgerInv, Party, At
<1>2. ASSUME NEW k \in 1 .. l PROVE GateDealt(k, ctx'[0])
  <2>1. GateDealt(k, ctx[0])
    BY DEF GatesDealt
  <2>. QED  BY <2>1, GateStays
<1>3. ASSUME NEW CONSTANT k, k \in 1 .. (l + 1), GateDealt(k, ctx'[0])
      PROVE  GateDealt(k, ctx[0])'
  <2>1. HelperBefore(k)' = HelperBefore(k)
    <3>1. CASE ledger' = ledger
      BY <3>1 DEF HelperBefore
    <3>2. CASE \E x \in [p01 : Nat, p02 : Nat, sec : Nat, secToOne : Nat] :
                 ledger' = Append(ledger, x)
      BY <1>1, <1>3, <3>2, LedgerAppend
    <3>. QED  BY <3>1, <3>2
  <2>. QED  BY <1>3, <2>1, GateDealtSame
<1>4. ASSUME NEW CONSTANT k, k \in 1 .. Len(preproc'[0])
      PROVE  k \in 1 .. (l + 1) /\ GateDealt(k, ctx'[0])
  BY <1>1, <1>2, <1>4
<1>5. \A k \in 1 .. Len(preproc'[0]) : GateDealt(k, ctx[0])'
  BY <1>3, <1>4
<1>. QED  BY <1>5 DEF GatesDealt

LEMMA HelperOther ==
  ASSUME IInv, DealInput(0) \/ SkipLocal(0)
  PROVE  GateDealt(At(0), ctx'[0]) /\ Extends(ctx[0], ctx'[0])
<1>0. 0 \in Party
  BY DEF Party
<1>1. pc[0] = "walk" /\ At(0) <= Len(gates) /\ G(0).type \in InputGate \cup {"Local"}
  BY DEF DealInput, SkipLocal, Walking
<1>2. G(0) = gates[At(0)]
  BY <1>0, <1>1, WalkFacts
<1>3. ctx'[0] = ctx[0]
  <2>1. ctx' \in {ctx, [ctx EXCEPT ![0] = ctx[0]]}
    BY DEF DealInput, SkipLocal, Store
  <2>. QED  BY <1>0, <2>1 DEF IInv, TypeOK
<1>4. gates[At(0)].type \notin TripleGate \cup ShuffleGate
  BY <1>1, <1>2 DEF InputGate, TripleGate, ShuffleGate, ArithTriple, BinTriple
<1>5. Extends(ctx[0], ctx[0])
  BY DEF Extends
<1>. QED  BY <1>3, <1>4, <1>5 DEF GateDealt

Deals(p) == \/ DealTriple(p) \/ DealCompaction(p) \/ DealShuffle(p)
            \/ DealDouble(p) \/ DealInput(p)      \/ SkipLocal(p)

LEMMA DealsFacts ==
  ASSUME IInv, NEW p \in Party, Deals(p)
  PROVE  /\ pc[p] = "walk" /\ At(p) <= Len(gates)
         /\ \E c, d : Dealt(p, c, d)
<1>1. pc[p] = "walk" /\ At(p) <= Len(gates)
  BY DEF Deals, DealTriple, DealCompaction, DealShuffle, DealDouble, DealInput, SkipLocal, Walking
<1>2. \E c, d : Dealt(p, c, d)
  BY TripleDealt, ShuffleDealt, DoubleDealt, OtherDealt DEF Deals
<1>. QED  BY <1>1, <1>2

LEMMA HelperDeals ==
  ASSUME IInv, GatesDealt, Deals(0)
  PROVE  GatesDealt'
<1>0. 0 \in Party
  BY DEF Party
<1>1. GateDealt(At(0), ctx'[0]) /\ Extends(ctx[0], ctx'[0])
  BY HelperTriple, HelperShuffle, HelperDouble, HelperOther DEF Deals
<1>2. pc[0] = "walk" /\ At(0) <= Len(gates) /\ \E c, d : Dealt(0, c, d)
  BY <1>0, DealsFacts
<1>3. PICK c, d : Dealt(0, c, d)
  BY <1>2
<1>4. c \in Ctx /\ gates' = gates /\ tape' = tape /\ Len(preproc'[0]) = At(0)
  BY <1>0, <1>2, <1>3, DealtAt
<1>5. ledger' = Append(ledger, Positions(c))
  BY <1>3 DEF Dealt
<1>6. Positions(c) \in [p01 : Nat, p02 : Nat, sec : Nat, secToOne : Nat]
  BY <1>4, PositionsTyped
<1>. QED  BY <1>1, <1>4, <1>5, <1>6, GatesKept

-----------------------------------------------------------------------------
(* An online party computes what it would compute standing where the       *)
(* helper stood.                                                           *)
SamePlace(q, c, s) ==
  IF q = 1 THEN c.p01 = s.p01 /\ c.idx = s.idx /\ c.secToOne = s.secToOne
           ELSE c.p02 = s.p02 /\ c.idx = s.idx /\ c.sec = s.sec

LEMMA TriplesAgree ==
  ASSUME NEW q \in Online, NEW c, NEW s, SamePlace(q, c, s), NEW bin, NEW n
  PROVE  Triples(q, c, bin, n) = Triples(q, s, bin, n)
<1>1. ASSUME NEW j
      PROVE  /\ TripleA(q, c, bin, j) = TripleA(q, s, bin, j)
             /\ TripleB(q, c, bin, j) = TripleB(q, s, bin, j)
             /\ TripleC(q, c, bin, j) = TripleC(q, s, bin, j)
  <2>1. CASE q = 1
    BY <2>1 DEF TripleA, TripleB, TripleC, RandomShare, RandomShareBin, SamePlace
  <2>2. CASE q = 2
    BY <2>2 DEF TripleA, TripleB, TripleC, RandomShare, RandomShareBin, SamePlace
  <2>. QED  BY <2>1, <2>2 DEF Online
<1>. QED  BY <1>1 DEF Triples

LEMMA MaskedAgree ==
  ASSUME NEW q \in Online, NEW c, NEW s, SamePlace(q, c, s), NEW g
  PROVE  MaskedShuffle(q, c, g) = MaskedShuffle(q, s, g)
<1>1. CASE q = 1
  BY <1>1 DEF MaskedShuffle, Masks, Popped, SamePlace
<1>2. CASE q = 2
  BY <1>2 DEF MaskedShuffle, Masks, Popped, SamePlace
<1>. QED  BY <1>1, <1>2 DEF Online

(* Where an online party stands when it reaches a gate.                    *)
LEMMA OnlineStands ==
  ASSUME IInv, NEW q \in Online, pc[q] = "walk", At(q) <= Len(gates)
  PROVE  /\ At(q) \in 1 .. Len(preproc[0]) /\ At(q) \in 1 .. Len(gates)
         /\ ctx[q] \in Ctx /\ ctx[0] \in Ctx
         /\ SamePlace(q, ctx[q], Standing(q, HelperBefore(At(q))))
<1> DEFINE k == At(q)
<1>0. q \in Party /\ 0 \in Party
  BY DEF Party, Online
<1>1. k \in 1 .. Len(gates) /\ gates \in Circuits
  BY <1>0, WalkFacts
<1>2. Len(preproc[0]) = Len(gates)
  BY DEF IInv, PhaseInv
<1>3. ctx[q] \in Ctx /\ ctx[0] \in Ctx
  BY <1>0 DEF IInv, TypeOK
<1>4. Received(q) = Outgoing(q)
  BY WordsThere DEF WordsArrive
<1>5. CASE q = 1
  <2>1. /\ ctx[1].p01 = HelperBefore(k).p01 /\ ctx[1].idx = HelperBefore(k).secToOne
    BY <1>5 DEF IInv, StreamsInStep
  <2>2. ctx[1].secToOne = ctx[0].secToOne
    BY <1>4, <1>5 DEF Received, Outgoing
  <2>3. SamePlace(q, ctx[q], Standing(q, HelperBefore(k)))
    BY <1>5, <2>1, <2>2 DEF SamePlace, Standing
  <2>. QED  BY <1>1, <1>2, <1>3, <2>3
<1>6. CASE q = 2
  <2>1. /\ ctx[2].p02 = HelperBefore(k).p02 /\ ctx[2].idx = HelperBefore(k).sec
    BY <1>6 DEF IInv, StreamsInStep
  <2>2. ctx[2].sec = ctx[0].sec
    BY <1>4, <1>6 DEF Received, Outgoing
  <2>3. SamePlace(q, ctx[q], Standing(q, HelperBefore(k)))
    BY <1>6, <2>1, <2>2 DEF SamePlace, Standing
  <2>. QED  BY <1>1, <1>2, <1>3, <2>3
<1>. QED  BY <1>5, <1>6 DEF Online

(* What party q stores for gate k, and which halves it then holds.         *)
Stores(q, k, d) ==
  /\ gates[k].type \in TripleGate =>
       d = Triples(q, Standing(q, HelperBefore(k)), Bin(k), gates[k].n)
  /\ gates[k].type \in ShuffleGate =>
       d = MaskedShuffle(q, Standing(q, MasksFrom(k)), gates[k])
  /\ gates[k].type \notin TripleGate \cup ShuffleGate => d.kind \in {"input", "empty"}
Halves(q, perms) ==
  \A m \in Names : ~ NewPerm(perms, m) => SameHalf(q, perms[m + 1], ctx[0].perms[m + 1])
StoresNext(q) ==
  /\ \E d : preproc'[q] = Append(preproc[q], d) /\ Stores(q, At(q), d)
  /\ Halves(q, ctx'[q].perms)

LEMMA StoredFacts ==
  /\ \A q, k : StoredAt(q, k) <=> Stores(q, k, preproc[q][k])
  /\ StoredInv <=> \A q \in Online : /\ \A k \in 1 .. Len(preproc[q]) : StoredAt(q, k)
                                     /\ Halves(q, ctx[q].perms)
BY DEF StoredAt, Stores, StoredInv, Halves

LEMMA OnlineTriple ==
  ASSUME IInv, StoredInv, NEW q \in Online, DealTriple(q) \/ DealCompaction(q)
  PROVE  StoresNext(q)
<1> DEFINE k == At(q)
           g == G(q)
           c == ctx[q]
           s == Standing(q, HelperBefore(k))
           d == Triples(q, c, Bin(k), g.n)
           e == AfterTriples(q, c, Bin(k), g.n)
<1>0. q \in Party /\ q # 0
  BY DEF Party, Online
<1>1. /\ pc[q] = "walk" /\ At(q) <= Len(gates) /\ g.type \in TripleGate
      /\ Bin(k) \in BOOLEAN /\ Store(q, d, e)
  BY <1>0, TripleStore
<1>2. g = gates[k] /\ tape \in Tapes /\ c \in Ctx /\ g.n \in Nat
  BY <1>0, <1>1, WalkFacts
<1>3. SamePlace(q, c, s)
  BY <1>1, OnlineStands
<1>4. d = Triples(q, s, Bin(k), g.n)
  <2> HIDE DEF c, s, g, k
  <2>. QED  BY <1>3, TriplesAgree
<1>5. e.perms = c.perms
  <2> DEFINE n == g.n
             bin == Bin(k)
  <2>1. n \in Nat /\ bin \in BOOLEAN
    BY <1>1, <1>2
  <2> HIDE DEF c, n, bin
  <2>2. AfterTriples(q, c, bin, n).perms = c.perms
    BY <1>0, <1>2, <2>1, AfterTriplesFacts
  <2>. QED  BY <2>2 DEF n, bin
<1>6. ctx'[q] = e /\ preproc'[q] = Append(preproc[q], d)
  <2> HIDE DEF d, e
  <2>. QED  BY <1>0, <1>1, StoreKeeps
<1>7. gates[k].type \notin ShuffleGate
  BY <1>1, <1>2 DEF TripleGate, ShuffleGate, ArithTriple, BinTriple
<1>8. Stores(q, k, d)
  <2> HIDE DEF d, s
  <2>. QED  BY <1>1, <1>2, <1>4, <1>7 DEF Stores, s
<1>9. Halves(q, c.perms)
  BY StoredFacts
<1>. QED  BY <1>5, <1>6, <1>8, <1>9 DEF StoresNext

LEMMA OnlineOther ==
  ASSUME IInv, StoredInv, NEW q \in Online, DealInput(q) \/ SkipLocal(q)
  PROVE  StoresNext(q)
<1>0. q \in Party /\ q # 0
  BY DEF Party, Online
<1>1. pc[q] = "walk" /\ At(q) <= Len(gates) /\ G(q).type \in InputGate \cup {"Local"}
  BY DEF DealInput, SkipLocal, Walking
<1>2. G(q) = gates[At(q)]
  BY <1>0, <1>1, WalkFacts
<1>3. gates[At(q)].type \notin TripleGate \cup ShuffleGate
  BY <1>1, <1>2 DEF InputGate, TripleGate, ShuffleGate, ArithTriple, BinTriple
<1>4. ctx'[q] = ctx[q]
  <2>1. ctx' \in {ctx, [ctx EXCEPT ![q] = ctx[q]]}
    BY DEF DealInput, SkipLocal, Store
  <2>. QED  BY <1>0, <2>1 DEF IInv, TypeOK
<1>5. \E d : preproc'[q] = Append(preproc[q], d) /\ d.kind \in {"input", "empty"}
  <2>1. CASE DealInput(q)
    <3>1. preproc' = [preproc EXCEPT ![q] = Append(@, [kind |-> "input", pid |-> G(q).owner])]
      BY <2>1 DEF DealInput
    <3>2. preproc'[q] = Append(preproc[q], [kind |-> "input", pid |-> G(q).owner])
      BY <1>0, <3>1 DEF IInv, TypeOK
    <3>3. [kind |-> "input", pid |-> G(q).owner].kind \in {"input", "empty"}
      OBVIOUS
    <3>. QED  BY <3>2, <3>3
  <2>2. CASE SkipLocal(q)
    <3>1. preproc' = [preproc EXCEPT ![q] = Append(@, [kind |-> "empty"])]
      BY <2>2 DEF SkipLocal, Store
    <3>2. preproc'[q] = Append(preproc[q], [kind |-> "empty"])
      BY <1>0, <3>1 DEF IInv, TypeOK
    <3>3. [kind |-> "empty"].kind \in {"input", "empty"}
      OBVIOUS
    <3>. QED  BY <3>2, <3>3
  <2>. QED  BY <2>1, <2>2
<1>6. Halves(q, ctx[q].perms)
  BY StoredFacts
<1>. QED  BY <1>3, <1>4, <1>5, <1>6 DEF StoresNext, Stores

(* The half of a permutation that q draws and receives is the one the      *)
(* helper made at the same gate.                                           *)
LEMMA HalfOf ==
  ASSUME IInv, GatesDealt, NEW q \in Online, pc[q] = "walk", At(q) <= Len(gates),
         G(q).type \in ShuffleGate, G(q).n > 0, Making(At(q)) = G(q).n
  PROVE  SameHalf(q, IF G(q).type = "Shuffle" THEN ShuffleEntry(q, ctx[q], G(q).n)
                                              ELSE DoubleEntry(q, ctx[q], G(q)),
                  ctx[0].perms[G(q).param + 1])
<1> DEFINE k == At(q)
           g == gates[k]
           n == g.n
           c == ctx[q]
           h == ctx[0].perms[g.param + 1]
           b == HelperBefore(k)
<1>0. q \in Party /\ q # 0
  BY DEF Party, Online
<1>1. /\ k \in 1 .. Len(gates) /\ gates \in Circuits /\ tape \in Tapes
      /\ g \in Gate /\ G(q) = g /\ n \in Nat /\ c \in Ctx
  BY <1>0, WalkFacts
<1>2. k \in 1 .. Len(preproc[0]) /\ SamePlace(q, c, Standing(q, b))
  BY OnlineStands
<1>3. EntryWords(k, ctx[0])
  <2>1. GateDealt(k, ctx[0])
    BY <1>2 DEF GatesDealt
  <2>. QED  BY <1>1, <2>1 DEF GateDealt
<1>4. AllPermutations(h, n)
  BY <1>1, <1>2, PassedEntries
<1>5. Used(k).sec = n + n /\ (g.type = "DoubleShuffle" => Used(k).secToOne = n + n)
  BY <1>1, UsedKinds DEF ShuffleGate
<1>6. /\ b.sec + Used(k).sec <= Len(ctx[0].sec) /\ b.sec \in Nat
      /\ b.secToOne + Used(k).secToOne <= Len(ctx[0].secToOne) /\ b.secToOne \in Nat
      /\ Len(ctx[0].sec) \in Nat /\ Len(ctx[0].secToOne) \in Nat
  <2>1. ctx[0] \in Ctx
    BY <1>2, PassedWords
  <2>. QED  BY <1>2, <2>1, PassedWords, CtxLens
<1>7. ASSUME NEW s, Len(s) \in Nat, NEW i \in Nat, i + n + n <= Len(s),
             NEW z \in [Idx(n) -> Idx(n)], \A j \in Idx(n) : s[i + j + 1] = z[j]
      PROVE  Popped(s, i, n) = z
  <2> HIDE DEF n
  <2>1. ASSUME NEW j \in Idx(n) PROVE WordAt(s, i + j) = z[j]
    <3>1. i + j < Len(s)
      BY <1>1, <1>7 DEF Idx
    <3>. QED  BY <1>7, <3>1 DEF WordAt
  <2>. QED  BY <2>1 DEF Popped
<1>8. CASE g.type = "Shuffle"
  <2>1. /\ h.pi0 = RandomPerm("p01", b.p01, n) /\ h.rho0 = RandomPerm("p01", b.p01 + n, n)
        /\ h.pi1 = RandomPerm("p02", b.p02, n)
        /\ \A j \in Idx(n) : ctx[0].sec[b.sec + j + 1] = h.rho1[j]
    BY <1>3, <1>8 DEF EntryWords
  <2> DEFINE e == ShuffleEntry(q, c, n)
  <2>2. CASE q = 1
    <3>1. c.p01 = b.p01
      BY <1>2, <2>2 DEF SamePlace, Standing
    <3> DEFINE pi0 == RandomPerm("p01", c.p01, n)
               rho0 == RandomPerm("p01", c.p01 + n, n)
    <3>2. e = [NoEntry EXCEPT !.pi0 = pi0, !.rho0 = rho0]
      BY <2>2 DEF ShuffleEntry
    <3>3. pi0 = h.pi0 /\ rho0 = h.rho0
      BY <2>1, <3>1
    <3> HIDE DEF e, pi0, rho0, h
    <3>4. e.pi0 = pi0 /\ e.rho0 = rho0
      BY <3>2 DEF NoEntry
    <3>. QED  BY <1>1, <1>8, <2>2, <3>3, <3>4 DEF SameHalf, e, h
  <2>3. CASE q = 2
    <3>1. c.p02 = b.p02 /\ c.idx = b.sec /\ c.sec = ctx[0].sec
      BY <1>2, <2>3 DEF SamePlace, Standing
    <3> DEFINE pi1 == RandomPerm("p02", c.p02, n)
               rho1 == Popped(c.sec, c.idx, n)
    <3>2. e = [NoEntry EXCEPT !.pi1 = pi1, !.rho1 = rho1]
      BY <2>3 DEF ShuffleEntry
    <3>3. pi1 = h.pi1
      BY <2>1, <3>1
    <3>4. rho1 = h.rho1
      <4>1. h.rho1 \in [Idx(n) -> Idx(n)]
        BY <1>4 DEF AllPermutations, IsPermutation
      <4>2. b.sec + n + n <= Len(ctx[0].sec)
        <5> DEFINE x == b.sec
                   y == Len(ctx[0].sec)
        <5>1. x \in Nat /\ y \in Nat /\ x + (n + n) <= y /\ n \in Nat
          BY <1>1, <1>5, <1>6
        <5> HIDE DEF x, y, n
        <5>2. x + n + n <= y
          BY <5>1
        <5>. QED  BY <5>2 DEF x, y
      <4> DEFINE s == ctx[0].sec
                 i == b.sec
                 z == h.rho1
      <4>3. Len(s) \in Nat /\ i \in Nat /\ i + n + n <= Len(s) /\ z \in [Idx(n) -> Idx(n)]
            /\ \A j \in Idx(n) : s[i + j + 1] = z[j]
        BY <1>6, <2>1, <4>1, <4>2
      <4> HIDE DEF s, i, z
      <4>4. Popped(s, i, n) = z
        BY <1>7, <4>3
      <4>. QED  BY <3>1, <4>4 DEF s, i, z
    <3> HIDE DEF e, pi1, rho1, h
    <3>5. e.pi1 = pi1 /\ e.rho1 = rho1
      BY <3>2 DEF NoEntry
    <3>. QED  BY <1>1, <1>8, <2>3, <3>3, <3>4, <3>5 DEF SameHalf, e, h
  <2>. QED  BY <2>2, <2>3 DEF Online
<1>9. CASE g.type = "DoubleShuffle"
  <2>1. /\ h.pi0 = RandomPerm("p01", b.p01, n) /\ h.rho1 = RandomPerm("p02", b.p02, n)
        /\ \A j \in Idx(n) : ctx[0].sec[b.sec + j + 1] = h.pi1[j]
        /\ \A j \in Idx(n) : ctx[0].secToOne[b.secToOne + j + 1] = h.rho0[j]
    BY <1>3, <1>9 DEF EntryWords
  <2> DEFINE e == DoubleEntry(q, c, g)
  <2>2. CASE q = 1
    <3>1. c.p01 = b.p01 /\ c.idx = b.secToOne /\ c.secToOne = ctx[0].secToOne
      BY <1>2, <2>2 DEF SamePlace, Standing
    <3> DEFINE pi0 == RandomPerm("p01", c.p01, n)
               rho0 == Popped(c.secToOne, c.idx, n)
    <3>2. e = [NoEntry EXCEPT !.pi0 = pi0, !.rho0 = rho0]
      BY <2>2 DEF DoubleEntry
    <3>3. pi0 = h.pi0
      BY <2>1, <3>1
    <3>4. rho0 = h.rho0
      <4>1. h.rho0 \in [Idx(n) -> Idx(n)]
        BY <1>4 DEF AllPermutations, IsPermutation
      <4>2. b.secToOne + n + n <= Len(ctx[0].secToOne)
        <5> DEFINE x == b.secToOne
                   y == Len(ctx[0].secToOne)
        <5>1. x \in Nat /\ y \in Nat /\ x + (n + n) <= y /\ n \in Nat
          BY <1>1, <1>5, <1>6, <1>9
        <5> HIDE DEF x, y, n
        <5>2. x + n + n <= y
          BY <5>1
        <5>. QED  BY <5>2 DEF x, y
      <4> DEFINE s == ctx[0].secToOne
                 i == b.secToOne
                 z == h.rho0
      <4>3. Len(s) \in Nat /\ i \in Nat /\ i + n + n <= Len(s) /\ z \in [Idx(n) -> Idx(n)]
            /\ \A j \in Idx(n) : s[i + j + 1] = z[j]
        BY <1>6, <2>1, <4>1, <4>2
      <4> HIDE DEF s, i, z
      <4>4. Popped(s, i, n) = z
        BY <1>7, <4>3
      <4>. QED  BY <3>1, <4>4 DEF s, i, z
    <3> HIDE DEF e, pi0, rho0, h
    <3>5. e.pi0 = pi0 /\ e.rho0 = rho0
      BY <3>2 DEF NoEntry
    <3>. QED  BY <1>1, <1>9, <2>2, <3>3, <3>4, <3>5 DEF SameHalf, e, h
  <2>3. CASE q = 2
    <3>1. c.p02 = b.p02 /\ c.idx = b.sec /\ c.sec = ctx[0].sec
      BY <1>2, <2>3 DEF SamePlace, Standing
    <3> DEFINE pi1 == Popped(c.sec, c.idx, n)
               rho1 == RandomPerm("p02", c.p02, n)
    <3>2. e = [NoEntry EXCEPT !.pi1 = pi1, !.rho1 = rho1]
      BY <2>3 DEF DoubleEntry
    <3>3. rho1 = h.rho1
      BY <2>1, <3>1
    <3>4. pi1 = h.pi1
      <4>1. h.pi1 \in [Idx(n) -> Idx(n)]
        BY <1>4 DEF AllPermutations, IsPermutation
      <4>2. b.sec + n + n <= Len(ctx[0].sec)
        <5> DEFINE x == b.sec
                   y == Len(ctx[0].sec)
        <5>1. x \in Nat /\ y \in Nat /\ x + (n + n) <= y /\ n \in Nat
          BY <1>1, <1>5, <1>6, <1>9
        <5> HIDE DEF x, y, n
        <5>2. x + n + n <= y
          BY <5>1
        <5>. QED  BY <5>2 DEF x, y
      <4> DEFINE s == ctx[0].sec
                 i == b.sec
                 z == h.pi1
      <4>3. Len(s) \in Nat /\ i \in Nat /\ i + n + n <= Len(s) /\ z \in [Idx(n) -> Idx(n)]
            /\ \A j \in Idx(n) : s[i + j + 1] = z[j]
        BY <1>6, <2>1, <4>1, <4>2
      <4> HIDE DEF s, i, z
      <4>4. Popped(s, i, n) = z
        BY <1>7, <4>3
      <4>. QED  BY <3>1, <4>4 DEF s, i, z
    <3> HIDE DEF e, pi1, rho1, h
    <3>5. e.pi1 = pi1 /\ e.rho1 = rho1
      BY <3>2 DEF NoEntry
    <3>. QED  BY <1>1, <1>9, <2>3, <3>3, <3>4, <3>5 DEF SameHalf, e, h
  <2>. QED  BY <2>2, <2>3 DEF Online
<1>. QED  BY <1>1, <1>8, <1>9 DEF ShuffleGate

LEMMA OnlineShuffle ==
  ASSUME IInv, GatesDealt, StoredInv, NEW q \in Online, DealShuffle(q)
  PROVE  StoresNext(q)
<1> DEFINE k == At(q)
           g == G(q)
           n == g.n
           f == Making(k)
           c == ctx[q]
           d == PrepareShuffle(q, c, g)
           e == AfterMasks(q, d, g)
           s == Standing(q, MasksFrom(k))
           b == HelperBefore(k)
           h == ShuffleEntry(q, c, n)
<1>0. q \in Party /\ q # 0
  BY DEF Party, Online
<1>1. /\ pc[q] = "walk" /\ At(q) <= Len(gates) /\ g.type = "Shuffle"
      /\ f = MakingN(c.perms, g) /\ f \in Nat
      /\ Advance(q, c, d, 2 * f, f, f, 0)
      /\ TableStep(q, c.perms, d.perms, g)
      /\ d \in Ctx /\ Store(q, MaskedShuffle(q, d, g), e)
  BY <1>0, ShuffleMoves
<1>2. /\ k \in 1 .. Len(gates) /\ gates \in Circuits /\ tape \in Tapes
      /\ g \in Gate /\ g = gates[k] /\ n \in Nat /\ n <= Modulus /\ c \in Ctx
  BY <1>0, <1>1, WalkFacts
<1>3. ctx'[q] = e /\ preproc'[q] = Append(preproc[q], MaskedShuffle(q, d, g))
  <2> DEFINE o == MaskedShuffle(q, d, g)
  <2> HIDE DEF e, o
  <2>. QED  BY <1>0, <1>1, StoreKeeps DEF o
<1>4. SamePlace(q, c, Standing(q, b))
  BY <1>1, OnlineStands
<1>5. SamePlace(q, d, s)
  <2>1. gates[k].type # "DoubleShuffle"
    BY <1>1, <1>2
  <2>2. CASE q = 1
    <3>1. d.p01 = c.p01 + 2 * f /\ d.idx = c.idx + 0 /\ d.secToOne = c.secToOne
      BY <1>1, <2>2 DEF Advance
    <3>2. c.p01 = b.p01 /\ c.idx = b.secToOne /\ c.secToOne = ctx[0].secToOne
      BY <1>4, <2>2 DEF SamePlace, Standing
    <3>3. s.p01 = b.p01 + 2 * f /\ s.idx = b.secToOne + 0 /\ s.secToOne = ctx[0].secToOne
      BY <2>1, <2>2 DEF Standing, MasksFrom
    <3>. QED  BY <2>2, <3>1, <3>2, <3>3 DEF SamePlace
  <2>3. CASE q = 2
    <3>1. d.p02 = c.p02 + f /\ d.idx = c.idx + f /\ d.sec = c.sec
      BY <1>1, <2>3 DEF Advance
    <3>2. c.p02 = b.p02 /\ c.idx = b.sec /\ c.sec = ctx[0].sec
      BY <1>4, <2>3 DEF SamePlace, Standing
    <3>3. s.p02 = b.p02 + f /\ s.idx = b.sec + f /\ s.sec = ctx[0].sec
      BY <2>3 DEF Standing, MasksFrom
    <3>. QED  BY <2>3, <3>1, <3>2, <3>3 DEF SamePlace
  <2>. QED  BY <2>2, <2>3 DEF Online
<1>6. Stores(q, k, MaskedShuffle(q, d, g))
  <2>1. MaskedShuffle(q, d, g) = MaskedShuffle(q, s, g)
    <3> HIDE DEF d, s, g
    <3>. QED  BY <1>5, MaskedAgree
  <2>2. gates[k].type \in ShuffleGate /\ gates[k].type \notin TripleGate
    BY <1>1, <1>2 DEF ShuffleGate, TripleGate, ArithTriple, BinTriple
  <2> DEFINE o == MaskedShuffle(q, d, g)
  <2>3. o = MaskedShuffle(q, Standing(q, MasksFrom(k)), gates[k])
    BY <1>2, <2>1
  <2> HIDE DEF o, k
  <2>4. Stores(q, k, o)
    BY <2>2, <2>3 DEF Stores
  <2>. QED  BY <2>4 DEF o
<1>7. e.perms = d.perms
  <2> HIDE DEF d, g
  <2>. QED  BY <1>0, <1>1, <1>2, AfterMasksFacts
<1>8. Halves(q, d.perms)
  <2> SUFFICES ASSUME NEW m \in Names, ~ NewPerm(d.perms, m)
               PROVE  SameHalf(q, d.perms[m + 1], ctx[0].perms[m + 1])
    BY DEF Halves
  <2>1. m \in Nat
    BY <1>2, NameFacts
  <2>2. CASE ~ NewPerm(c.perms, m)
    <3>1. d.perms[m + 1] = c.perms[m + 1]
      BY <1>1, <2>1, <2>2 DEF TableStep
    <3>2. SameHalf(q, c.perms[m + 1], ctx[0].perms[m + 1])
      BY <2>2, StoredFacts DEF Halves
    <3>. QED  BY <3>1, <3>2
  <2>3. CASE NewPerm(c.perms, m)
    <3>1. m = g.param /\ n > 0
      BY <1>1, <2>1, <2>3 DEF TableStep
    <3>2. f = n
      BY <1>1, <2>3, <3>1 DEF MakingN
    <3>3. SameHalf(q, h, ctx[0].perms[m + 1])
      <4>1. G(q).type \in ShuffleGate
        BY <1>1 DEF ShuffleGate
      <4>2. SameHalf(q, IF G(q).type = "Shuffle" THEN ShuffleEntry(q, ctx[q], G(q).n)
                                                 ELSE DoubleEntry(q, ctx[q], G(q)),
                     ctx[0].perms[G(q).param + 1])
        BY <1>1, <3>1, <3>2, <4>1, HalfOf
      <4>. QED  BY <1>1, <3>1, <4>2
    <3>4. d.perms[m + 1] = h
      <4>1. d.perms = SetEntry(c.perms, g.param, h)
        <5>1. NewPerm(c.perms, g.param)
          BY <2>3, <3>1
        <5> HIDE DEF c, g
        <5>. QED  BY <1>0, <1>2, <5>1, PrepareShuffleMakes DEF d, h, n
      <4>2. h \in Entry
        <5>1. n <= Modulus
          BY <1>2
        <5> HIDE DEF c, n
        <5>. QED  BY <1>0, <1>2, <5>1, ShuffleEntryFacts DEF GoodEntry
      <4> DEFINE z == c.perms
      <4>3. z \in Seq(Entry) /\ d.perms = SetEntry(z, m, h)
        BY <1>2, <3>1, <4>1 DEF Ctx
      <4> HIDE DEF z, h, d
      <4>4. SetEntry(z, m, h)[m + 1] = h
        BY ZenonT(40), <2>1, <4>2, <4>3, SetEntryFacts
      <4>. QED  BY <4>3, <4>4
    <3>. QED  BY <3>3, <3>4
  <2>. QED  BY <2>2, <2>3
<1>9. StoresNext(q)
  <2> HIDE DEF d, e, g
  <2>. QED  BY <1>3, <1>6, <1>7, <1>8 DEF StoresNext
<1>. QED  BY <1>9

LEMMA OnlineDouble ==
  ASSUME IInv, GatesDealt, StoredInv, NEW q \in Online, DealDouble(q)
  PROVE  StoresNext(q)
<1> DEFINE k == At(q)
           g == G(q)
           n == g.n
           f == Making(k)
           c == ctx[q]
           d == PrepareDouble(q, c, g)
           e == AfterMasks(q, d, g)
           s == Standing(q, MasksFrom(k))
           b == HelperBefore(k)
           h == DoubleEntry(q, c, g)
<1>0. q \in Party /\ q # 0
  BY DEF Party, Online
<1>1. /\ pc[q] = "walk" /\ At(q) <= Len(gates) /\ g.type = "DoubleShuffle"
      /\ f = MakingN(c.perms, g) /\ f \in Nat
      /\ Advance(q, c, d, f, f, f, f)
      /\ TableStep(q, c.perms, d.perms, g)
      /\ d \in Ctx /\ Store(q, MaskedShuffle(q, d, g), e)
  BY <1>0, DoubleMoves
<1>2. /\ k \in 1 .. Len(gates) /\ gates \in Circuits /\ tape \in Tapes
      /\ g \in Gate /\ g = gates[k] /\ n \in Nat /\ n <= Modulus /\ c \in Ctx
  BY <1>0, <1>1, WalkFacts
<1>3. ctx'[q] = e /\ preproc'[q] = Append(preproc[q], MaskedShuffle(q, d, g))
  <2> DEFINE o == MaskedShuffle(q, d, g)
  <2> HIDE DEF e, o
  <2>. QED  BY <1>0, <1>1, StoreKeeps DEF o
<1>4. SamePlace(q, c, Standing(q, b))
  BY <1>1, OnlineStands
<1>5. SamePlace(q, d, s)
  <2>1. gates[k].type = "DoubleShuffle"
    BY <1>1, <1>2
  <2>2. CASE q = 1
    <3>1. d.p01 = c.p01 + f /\ d.idx = c.idx + f /\ d.secToOne = c.secToOne
      BY <1>1, <2>2 DEF Advance
    <3>2. c.p01 = b.p01 /\ c.idx = b.secToOne /\ c.secToOne = ctx[0].secToOne
      BY <1>4, <2>2 DEF SamePlace, Standing
    <3>3. s.p01 = b.p01 + f /\ s.idx = b.secToOne + f /\ s.secToOne = ctx[0].secToOne
      BY <2>1, <2>2 DEF Standing, MasksFrom
    <3>. QED  BY <2>2, <3>1, <3>2, <3>3 DEF SamePlace
  <2>3. CASE q = 2
    <3>1. d.p02 = c.p02 + f /\ d.idx = c.idx + f /\ d.sec = c.sec
      BY <1>1, <2>3 DEF Advance
    <3>2. c.p02 = b.p02 /\ c.idx = b.sec /\ c.sec = ctx[0].sec
      BY <1>4, <2>3 DEF SamePlace, Standing
    <3>3. s.p02 = b.p02 + f /\ s.idx = b.sec + f /\ s.sec = ctx[0].sec
      BY <2>3 DEF Standing, MasksFrom
    <3>. QED  BY <2>3, <3>1, <3>2, <3>3 DEF SamePlace
  <2>. QED  BY <2>2, <2>3 DEF Online
<1>6. Stores(q, k, MaskedShuffle(q, d, g))
  <2>1. MaskedShuffle(q, d, g) = MaskedShuffle(q, s, g)
    <3> HIDE DEF d, s, g
    <3>. QED  BY <1>5, MaskedAgree
  <2>2. gates[k].type \in ShuffleGate /\ gates[k].type \notin TripleGate
    BY <1>1, <1>2 DEF ShuffleGate, TripleGate, ArithTriple, BinTriple
  <2> DEFINE o == MaskedShuffle(q, d, g)
  <2>3. o = MaskedShuffle(q, Standing(q, MasksFrom(k)), gates[k])
    BY <1>2, <2>1
  <2> HIDE DEF o, k
  <2>4. Stores(q, k, o)
    BY <2>2, <2>3 DEF Stores
  <2>. QED  BY <2>4 DEF o
<1>7. e.perms = d.perms
  <2> HIDE DEF d, g
  <2>. QED  BY <1>0, <1>1, <1>2, AfterMasksFacts
<1>8. Halves(q, d.perms)
  <2> SUFFICES ASSUME NEW m \in Names, ~ NewPerm(d.perms, m)
               PROVE  SameHalf(q, d.perms[m + 1], ctx[0].perms[m + 1])
    BY DEF Halves
  <2>1. m \in Nat
    BY <1>2, NameFacts
  <2>2. CASE ~ NewPerm(c.perms, m)
    <3>1. d.perms[m + 1] = c.perms[m + 1]
      BY <1>1, <2>1, <2>2 DEF TableStep
    <3>2. SameHalf(q, c.perms[m + 1], ctx[0].perms[m + 1])
      BY <2>2, StoredFacts DEF Halves
    <3>. QED  BY <3>1, <3>2
  <2>3. CASE NewPerm(c.perms, m)
    <3>1. m = g.param /\ n > 0
      BY <1>1, <2>1, <2>3 DEF TableStep
    <3>2. f = n
      BY <1>1, <2>3, <3>1 DEF MakingN
    <3>3. SameHalf(q, h, ctx[0].perms[m + 1])
      <4>1. G(q).type \in ShuffleGate
        BY <1>1 DEF ShuffleGate
      <4>2. SameHalf(q, IF G(q).type = "Shuffle" THEN ShuffleEntry(q, ctx[q], G(q).n)
                                                 ELSE DoubleEntry(q, ctx[q], G(q)),
                     ctx[0].perms[G(q).param + 1])
        BY <1>1, <3>1, <3>2, <4>1, HalfOf
      <4>. QED  BY <1>1, <3>1, <4>2
    <3>4. d.perms[m + 1] = h
      <4>1. d.perms = SetEntry(c.perms, g.param, h)
        <5>1. NewPerm(c.perms, g.param)
          BY <2>3, <3>1
        <5> HIDE DEF c, g
        <5>. QED  BY <1>0, <1>2, <5>1, PrepareDoubleMakes DEF d, h, n
      <4>2. h \in Entry
        <5>1. n <= Modulus
          BY <1>2
        <5>2. PartsReady(q, c, g)
          BY <1>0 DEF PartsReady
        <5> HIDE DEF c, g
        <5>. QED  BY <1>0, <1>2, <5>1, <5>2, DoubleEntryFacts DEF GoodEntry, n
      <4> DEFINE z == c.perms
      <4>3. z \in Seq(Entry) /\ d.perms = SetEntry(z, m, h)
        BY <1>2, <3>1, <4>1 DEF Ctx
      <4> HIDE DEF z, h, d
      <4>4. SetEntry(z, m, h)[m + 1] = h
        BY ZenonT(40), <2>1, <4>2, <4>3, SetEntryFacts
      <4>. QED  BY <4>3, <4>4
    <3>. QED  BY <3>3, <3>4
  <2>. QED  BY <2>2, <2>3
<1>9. StoresNext(q)
  <2> HIDE DEF d, e, g
  <2>. QED  BY <1>3, <1>6, <1>7, <1>8 DEF StoresNext
<1>. QED  BY <1>9

LEMMA OnlineDeals ==
  ASSUME IInv, GatesDealt, StoredInv, NEW q \in Online, Deals(q)
  PROVE  StoresNext(q)
BY OnlineTriple, OnlineShuffle, OnlineDouble, OnlineOther DEF Deals

(* Stored data stays right whatever else happens, and before the online    *)
(* parties walk there is none.                                             *)
LEMMA StoresSame ==
  ASSUME gates' = gates, tape' = tape, NEW CONSTANT q, NEW CONSTANT k,
         HelperBefore(k)' = HelperBefore(k), ctx'[0] = ctx[0],
         Stores(q, k, preproc'[q][k])
  PROVE  StoredAt(q, k)'
<1> DEFINE b == HelperBefore(k)
           x == MasksFrom(k)
<1>1. Bin(k)' = Bin(k) /\ Making(k)' = Making(k)
  BY DEF Making, Made, Bin
<1>2. MasksFrom(k)' = MasksFrom(k)
  BY <1>1 DEF MasksFrom
<1>3. /\ Standing(q, HelperBefore(k))' = Standing(q, HelperBefore(k))
      /\ Standing(q, MasksFrom(k))' = Standing(q, MasksFrom(k))
  BY <1>2 DEF Standing
<1> DEFINE s == Standing(q, HelperBefore(k))
           z == Standing(q, MasksFrom(k))
<1>4. Triples(q, s, Bin(k), gates[k].n)' = Triples(q, s, Bin(k), gates[k].n)
  <2> HIDE DEF s
  <2>. QED  BY <1>1, <1>3 DEF Triples, TripleA, TripleB, TripleC, Product, RandomShare,
                RandomShareBin, RingWord, Word, s
<1>5. MaskedShuffle(q, z, gates[k])' = MaskedShuffle(q, z, gates[k])
  <2> HIDE DEF z
  <2>. QED  BY <1>3 DEF MaskedShuffle, Masks, Popped, RingWord, Word, z
<1> HIDE DEF s, z
<1>. QED  BY <1>4, <1>5 DEF StoredAt, Stores, s, z

LEMMA StoredKept ==
  ASSUME IInv, StoredInv, gates' = gates, tape' = tape, ledger' = ledger, ctx'[0] = ctx[0],
         \A q \in Online : \/ preproc'[q] = preproc[q] /\ ctx'[q].perms = ctx[q].perms
                           \/ StoresNext(q)
  PROVE  StoredInv'
<1>1. ASSUME NEW CONSTANT q, q \in Online PROVE \A k \in 1 .. Len(preproc'[q]) : StoredAt(q, k)'
  <2> SUFFICES ASSUME NEW CONSTANT k, k \in 1 .. Len(preproc'[q]) PROVE StoredAt(q, k)'
    OBVIOUS
  <2>1. \A i \in 1 .. Len(preproc[q]) : Stores(q, i, preproc[q][i])
    BY <1>1, StoredFacts
  <2>2. Stores(q, k, preproc'[q][k])
    <3>1. CASE preproc'[q] = preproc[q]
      BY <2>1, <3>1
    <3>2. CASE \E d : preproc'[q] = Append(preproc[q], d) /\ Stores(q, At(q), d)
      <4>1. PICK d : preproc'[q] = Append(preproc[q], d) /\ Stores(q, At(q), d)
        BY <3>2
      <4> DEFINE s == preproc[q]
                 z == preproc'[q]
      <4>2. s \in Seq(PreprocGate) /\ z = Append(s, d) /\ At(q) = Len(s) + 1 /\ k \in 1 .. Len(z)
        BY <1>1, <4>1 DEF IInv, TypeOK, Party, Online, At
      <4> HIDE DEF s, z
      <4>3. \/ k \in 1 .. Len(s) /\ z[k] = s[k]
            \/ k = Len(s) + 1 /\ z[k] = d
        BY <4>2
      <4>. QED  BY <2>1, <4>1, <4>2, <4>3 DEF s, z
    <3>. QED  BY <1>1, <3>1, <3>2 DEF StoresNext
  <2>3. HelperBefore(k)' = HelperBefore(k)
    BY DEF HelperBefore
  <2>. QED  BY <2>2, <2>3, StoresSame
<1>2. ASSUME NEW CONSTANT q, q \in Online, NEW CONSTANT m, m \in Names, ~ NewPerm(ctx'[q].perms, m)
      PROVE  SameHalf(q, ctx'[q].perms[m + 1], ctx'[0].perms[m + 1])
  <2>1. Halves(q, ctx[q].perms)
    BY <1>2, StoredFacts
  <2>2. Halves(q, ctx'[q].perms)
    BY <1>2, <2>1 DEF StoresNext
  <2>. QED  BY <1>2, <2>2 DEF Halves
<1>3. Names' = Names
  BY SameCircuit
<1>. QED  BY <1>1, <1>2, <1>3 DEF StoredInv

LEMMA StoredFresh ==
  ASSUME gates' = gates, gates \in Circuits,
         \A q \in Online : preproc'[q] = <<>> /\ ctx'[q].perms = <<>>
  PROVE  StoredInv'
<1>1. Names' = Names /\ Names \subseteq Nat
  BY SameCircuit, NamesNat
<1>2. \A q \in Online : \A m \in Names : NewPerm(ctx'[q].perms, m)
  <2>1. \A m \in Names : NewPerm(<<>>, m)
    BY <1>1 DEF NewPerm
  <2>. QED  BY <2>1
<1>. QED  BY <1>1, <1>2 DEF StoredInv

-----------------------------------------------------------------------------
(* Entries nobody has filled are fillers, and a filled one is never made   *)
(* again.  An entry made for vectors without elements is a filler too.     *)
LEMMA EmptyVectors ==
  /\ Idx(0) = {}
  /\ \A f : IsPermutation(f, 0) => f = NoVec
  /\ \A s, i : Popped(s, i, 0) = NoVec
BY DEF Idx, IsPermutation, Popped, NoVec

LEMMA FillerStays ==
  \A v : v = NoVec =>
    /\ [NoEntry EXCEPT !.pi0 = v, !.rho0 = v] = NoEntry
    /\ [NoEntry EXCEPT !.pi1 = v, !.rho1 = v] = NoEntry
<1> SUFFICES ASSUME NEW v, v = NoVec
             PROVE  /\ [NoEntry EXCEPT !.pi0 = v, !.rho0 = v] = NoEntry
                    /\ [NoEntry EXCEPT !.pi1 = v, !.rho1 = v] = NoEntry
  OBVIOUS
<1> DEFINE S == [pi0 : {v}, pi1 : {v}, rho0 : {v}, rho1 : {v}]
           r == NoEntry
<1>1. r \in S
  BY DEF NoEntry
<1> HIDE DEF r
<1>2. [r EXCEPT !.pi0 = v, !.rho0 = v] \in S /\ [r EXCEPT !.pi1 = v, !.rho1 = v] \in S
  BY <1>1
<1>3. \A s \in S : s = [pi0 |-> v, pi1 |-> v, rho0 |-> v, rho1 |-> v]
  OBVIOUS
<1> HIDE DEF S
<1>. QED  BY <1>1, <1>2, <1>3 DEF r

LEMMA EmptyShuffle ==
  ASSUME tape \in Tapes, NEW p \in Party, NEW c \in Ctx
  PROVE  ShuffleEntry(p, c, 0) = NoEntry
<1> DEFINE pi0  == RandomPerm("p01", c.p01, 0)
           rho0 == RandomPerm("p01", c.p01 + 0, 0)
           pi1  == RandomPerm("p02", c.p02, 0)
           inv  == InverseOf(rho0, 0)
           rho1 == [j \in Idx(0) |-> pi0[pi1[inv[j]]]]
           pop  == Popped(c.sec, c.idx, 0)
           e    == ShuffleEntry(p, c, 0)
<1>1. c.p01 \in Nat /\ c.p01 + 0 \in Nat /\ c.p02 \in Nat
  BY DEF Ctx
<1>2. IsPermutation(pi0, 0) /\ IsPermutation(rho0, 0) /\ IsPermutation(pi1, 0)
  BY <1>1, RandomPermIsPermutation DEF Stream
<1> HIDE DEF pi0, rho0, pi1
<1>3. pi0 = NoVec /\ rho0 = NoVec /\ pi1 = NoVec /\ pop = NoVec
  BY <1>2, EmptyVectors
<1>4. rho1 = NoVec
  BY EmptyVectors DEF NoVec
<1>5. e = CASE p = 0 -> [pi0 |-> pi0, pi1 |-> pi1, rho0 |-> rho0, rho1 |-> rho1]
            [] p = 1 -> [NoEntry EXCEPT !.pi0 = pi0, !.rho0 = rho0]
            [] OTHER -> [NoEntry EXCEPT !.pi1 = pi1, !.rho1 = pop]
  BY DEF ShuffleEntry, pi0, rho0, pi1
<1> HIDE DEF e, rho1, pop
<1>6. CASE p = 0
  BY <1>3, <1>4, <1>5, <1>6 DEF NoEntry, e
<1>7. CASE p = 1
  <2>1. e = [NoEntry EXCEPT !.pi0 = pi0, !.rho0 = rho0]
    BY <1>5, <1>7
  <2>. QED  BY <1>3, <2>1, FillerStays DEF e
<1>8. CASE p = 2
  <2>1. e = [NoEntry EXCEPT !.pi1 = pi1, !.rho1 = pop]
    BY <1>5, <1>8
  <2>. QED  BY <1>3, <2>1, FillerStays DEF e
<1>. QED  BY <1>6, <1>7, <1>8 DEF Party

LEMMA EmptyDouble ==
  ASSUME tape \in Tapes, NEW p \in Party, NEW c \in Ctx, NEW g \in Gate, g.n = 0
  PROVE  DoubleEntry(p, c, g) = NoEntry
<1> DEFINE n    == 0
           pi0  == RandomPerm("p01", c.p01, 0)
           rho1 == RandomPerm("p02", c.p02, 0)
           inv0 == InverseOf(pi0, 0)
           inv1 == InverseOf(rho1, 0)
           inv2 == InverseOf(Composed(c.perms[g.param2 + 1], 0), 0)
           fwd3 == Composed(c.perms[g.param3 + 1], 0)
           pi1  == [j \in Idx(0) |-> inv0[fwd3[inv2[j]]]]
           rho0 == [j \in Idx(0) |-> inv1[pi0[pi1[j]]]]
           one  == Popped(c.secToOne, c.idx, 0)
           two  == Popped(c.sec, c.idx, 0)
           e    == DoubleEntry(p, c, g)
<1>1. c.p01 \in Nat /\ c.p02 \in Nat
  BY DEF Ctx
<1>2. IsPermutation(pi0, 0) /\ IsPermutation(rho1, 0)
  BY <1>1, RandomPermIsPermutation DEF Stream
<1> HIDE DEF pi0, rho1
<1>3. pi0 = NoVec /\ rho1 = NoVec /\ one = NoVec /\ two = NoVec
  BY <1>2, EmptyVectors
<1>4. pi1 = NoVec /\ rho0 = NoVec
  BY EmptyVectors DEF NoVec
<1>5. e = CASE p = 0 -> [pi0 |-> pi0, pi1 |-> pi1, rho0 |-> rho0, rho1 |-> rho1]
            [] p = 1 -> [NoEntry EXCEPT !.pi0 = pi0, !.rho0 = one]
            [] OTHER -> [NoEntry EXCEPT !.pi1 = two, !.rho1 = rho1]
  BY DEF DoubleEntry, pi0, rho1
<1> HIDE DEF e, pi1, rho0, one, two
<1>6. CASE p = 0
  BY <1>3, <1>4, <1>5, <1>6 DEF NoEntry, e
<1>7. CASE p = 1
  <2>1. e = [NoEntry EXCEPT !.pi0 = pi0, !.rho0 = one]
    BY <1>5, <1>7
  <2>. QED  BY <1>3, <2>1, FillerStays DEF e
<1>8. CASE p = 2
  <2>1. e = [NoEntry EXCEPT !.pi1 = two, !.rho1 = rho1]
    BY <1>5, <1>8
  <2>. QED  BY <1>3, <2>1, FillerStays DEF e
<1>. QED  BY <1>6, <1>7, <1>8 DEF Party

LEMMA FillersGrown ==
  ASSUME NEW perms \in Seq(Entry), NEW x \in Nat, Fillers(perms)
  PROVE  Fillers(Grown(perms, x))
BY DEF Fillers, Grown, Unfilled

LEMMA FillersMade ==
  ASSUME NEW perms \in Seq(Entry), NEW x \in Nat, Fillers(perms), NEW e \in Entry,
         Size0(e.pi0) /\ Size0(e.pi1) => e = NoEntry
  PROVE  Fillers(SetEntry(perms, x, e))
<1> DEFINE t == Grown(perms, x)
           s == SetEntry(perms, x, e)
<1>1. Fillers(t) /\ t \in Seq(Entry) /\ Len(t) > x
  BY FillersGrown, GrownFacts
<1>2. s = [t EXCEPT ![x + 1] = e]
  BY DEF SetEntry
<1> HIDE DEF t, s
<1>3. Len(s) = Len(t) /\ s[x + 1] = e /\ \A i \in 1 .. Len(t) : i # x + 1 => s[i] = t[i]
  BY <1>1, <1>2
<1>4. ASSUME NEW i \in 1 .. Len(s), Size0(s[i].pi0), Size0(s[i].pi1) PROVE s[i] = NoEntry
  <2>1. CASE i = x + 1
    BY <1>3, <1>4, <2>1
  <2>2. CASE i # x + 1
    <3>1. i \in 1 .. Len(t) /\ s[i] = t[i] /\ (i - 1) + 1 = i
      BY <1>3, <2>2
    <3>2. Unfilled(t, i - 1) => t[i] = NoEntry
      BY <1>1, <3>1 DEF Fillers
    <3>. QED  BY <1>4, <3>1, <3>2 DEF Unfilled
  <2>. QED  BY <2>1, <2>2
<1>5. \A i \in 1 .. Len(s) : (i - 1) + 1 = i
  OBVIOUS
<1>6. Fillers(s)
  BY <1>4, <1>5 DEF Fillers, Unfilled
<1>. QED  BY <1>6 DEF s

-----------------------------------------------------------------------------
(* A step leaves every entry it finds filled, and only full fillers beside.*)
Keeps(perms, after) ==
  /\ Fillers(after)
  /\ \A i \in 1 .. Len(perms) : perms[i] # NoEntry => after[i] = perms[i]

LEMMA KeepsSame ==
  ASSUME NEW perms, Fillers(perms)
  PROVE  Keeps(perms, perms)
BY DEF Keeps

LEMMA KeepsFilled ==
  ASSUME NEW perms \in Seq(Entry), Fillers(perms), NEW after, Fillers(after),
         \A m \in Nat : ~ NewPerm(perms, m) => after[m + 1] = perms[m + 1]
  PROVE  Keeps(perms, after)
<1>1. ASSUME NEW i \in 1 .. Len(perms), perms[i] # NoEntry
      PROVE  after[i] = perms[i]
  <2>1. i - 1 \in Nat /\ i - 1 < Len(perms) /\ (i - 1) + 1 = i
    OBVIOUS
  <2>2. ~ Unfilled(perms, i - 1)
    BY <1>1 DEF Fillers
  <2>3. ~ NewPerm(perms, i - 1)
    BY <2>1, <2>2 DEF NewPerm
  <2>. QED  BY <2>1, <2>3
<1>. QED  BY <1>1 DEF Keeps

LEMMA KeepsMade ==
  ASSUME NEW p \in Party, NEW perms \in Seq(Entry), Fillers(perms), NEW g \in Gate,
         NEW after, TableStep(p, perms, after, g),
         NEW e \in Entry, Size0(e.pi0) /\ Size0(e.pi1) => e = NoEntry,
         after = SetEntry(perms, g.param, e)
  PROVE  Keeps(perms, after)
<1>1. g.param \in Nat
  BY DEF Gate
<1>2. Fillers(after)
  BY <1>1, FillersMade
<1>3. \A m \in Nat : ~ NewPerm(perms, m) => after[m + 1] = perms[m + 1]
  BY DEF TableStep
<1>. QED  BY <1>2, <1>3, KeepsFilled

LEMMA KeepsGrown ==
  ASSUME NEW perms \in Seq(Entry), Fillers(perms), NEW x \in Nat
  PROVE  Keeps(perms, Grown(perms, x))
<1>1. Fillers(Grown(perms, x))
  BY FillersGrown
<1>2. ASSUME NEW i \in 1 .. Len(perms) PROVE Grown(perms, x)[i] = perms[i]
  <2>1. i - 1 \in Nat /\ i - 1 < Len(perms) /\ (i - 1) + 1 = i
    OBVIOUS
  <2>. QED  BY <2>1, GrownFacts
<1>. QED  BY <1>1, <1>2 DEF Keeps

LEMMA ShuffleKeeps ==
  ASSUME IInv, NEW p \in Party, Fillers(ctx[p].perms), DealShuffle(p)
  PROVE  Keeps(ctx[p].perms, ctx'[p].perms)
<1> DEFINE c == ctx[p]
           g == G(p)
           e == PrepareShuffle(p, c, g)
           x == ShuffleEntry(p, c, g.n)
<1>1. /\ pc[p] = "walk" /\ At(p) <= Len(gates)
      /\ TableStep(p, c.perms, e.perms, g)
      /\ p = 0 => AllPermutations(e.perms[g.param + 1], g.n)
      /\ e \in Ctx
      /\ Store(p, MaskedShuffle(p, e, g), AfterMasks(p, e, g))
  BY ShuffleMoves
<1>2. c \in Ctx /\ g \in Gate /\ g.n \in Nat /\ g.n <= Modulus /\ tape \in Tapes
  BY <1>1, WalkFacts
<1>3. c.perms \in Seq(Entry)
  BY <1>2 DEF Ctx
<1>4. ctx'[p] = AfterMasks(p, e, g)
  BY <1>1, StoreKeeps
<1> HIDE DEF c, g, e
<1>5. AfterMasks(p, e, g).perms = e.perms
  BY <1>1, <1>2, AfterMasksFacts
<1>6. CASE ~ NewPerm(c.perms, g.param)
  <2>1. e = c
    BY <1>6 DEF PrepareShuffle, e
  <2>. QED  BY <1>4, <1>5, <2>1, KeepsSame DEF c
<1>7. CASE NewPerm(c.perms, g.param)
  <2>1. e.perms = SetEntry(c.perms, g.param, x)
    BY <1>2, <1>7, PrepareShuffleMakes DEF e
  <2>2. GoodEntry(p, x, g.n)
    BY <1>2, ShuffleEntryFacts
  <2>3. g.n = 0 => x = NoEntry
    BY <1>2, EmptyShuffle
  <2> HIDE DEF x
  <2>4. x \in Entry /\ (Size0(x.pi0) /\ Size0(x.pi1) => x = NoEntry)
    BY <2>2, <2>3 DEF GoodEntry
  <2> DEFINE perms == c.perms
             after == e.perms
  <2>5. Fillers(perms) /\ perms \in Seq(Entry) /\ TableStep(p, perms, after, g)
        /\ after = SetEntry(perms, g.param, x)
    BY <1>1, <1>3, <2>1 DEF c
  <2> HIDE DEF perms, after
  <2>6. Keeps(perms, after)
    BY <1>2, <2>4, <2>5, KeepsMade
  <2>. QED  BY <1>4, <1>5, <2>6 DEF perms, after, c
<1>. QED  BY <1>6, <1>7

LEMMA DoubleKeeps ==
  ASSUME IInv, NEW p \in Party, Fillers(ctx[p].perms), DealDouble(p)
  PROVE  Keeps(ctx[p].perms, ctx'[p].perms)
<1> DEFINE c == ctx[p]
           g == G(p)
           e == PrepareDouble(p, c, g)
           x == DoubleEntry(p, c, g)
<1>1. /\ pc[p] = "walk" /\ At(p) <= Len(gates)
      /\ NewPerm(c.perms, g.param) => PartsReady(p, c, g)
      /\ TableStep(p, c.perms, e.perms, g)
      /\ p = 0 => AllPermutations(e.perms[g.param + 1], g.n)
      /\ e \in Ctx
      /\ Store(p, MaskedShuffle(p, e, g), AfterMasks(p, e, g))
  BY DoubleMoves
<1>2. c \in Ctx /\ g \in Gate /\ g.n \in Nat /\ g.n <= Modulus /\ tape \in Tapes
  BY <1>1, WalkFacts
<1>3. c.perms \in Seq(Entry)
  BY <1>2 DEF Ctx
<1>4. ctx'[p] = AfterMasks(p, e, g)
  BY <1>1, StoreKeeps
<1> HIDE DEF c, g, e
<1>5. AfterMasks(p, e, g).perms = e.perms
  BY <1>1, <1>2, AfterMasksFacts
<1>6. CASE ~ NewPerm(c.perms, g.param)
  <2>1. e = c
    BY <1>6 DEF PrepareDouble, e
  <2>. QED  BY <1>4, <1>5, <2>1, KeepsSame DEF c
<1>7. CASE NewPerm(c.perms, g.param)
  <2>1. e.perms = SetEntry(c.perms, g.param, x)
    BY <1>2, <1>7, PrepareDoubleMakes DEF e
  <2>2. GoodEntry(p, x, g.n)
    BY <1>1, <1>2, <1>7, DoubleEntryFacts
  <2>3. g.n = 0 => x = NoEntry
    BY <1>2, EmptyDouble
  <2> HIDE DEF x
  <2>4. x \in Entry /\ (Size0(x.pi0) /\ Size0(x.pi1) => x = NoEntry)
    BY <2>2, <2>3 DEF GoodEntry
  <2> DEFINE perms == c.perms
             after == e.perms
  <2>5. Fillers(perms) /\ perms \in Seq(Entry) /\ TableStep(p, perms, after, g)
        /\ after = SetEntry(perms, g.param, x)
    BY <1>1, <1>3, <2>1 DEF c
  <2> HIDE DEF perms, after
  <2>6. Keeps(perms, after)
    BY <1>2, <2>4, <2>5, KeepsMade
  <2>. QED  BY <1>4, <1>5, <2>6 DEF perms, after, c
<1>. QED  BY <1>6, <1>7

LEMMA OtherKeeps ==
  ASSUME IInv, NEW p \in Party, Fillers(ctx[p].perms),
         \/ DealTriple(p) \/ DealCompaction(p) \/ DealInput(p) \/ SkipLocal(p)
  PROVE  Keeps(ctx[p].perms, ctx'[p].perms)
<1>1. CASE DealTriple(p) \/ DealCompaction(p)
  <2>1. /\ pc[p] = "walk" /\ At(p) <= Len(gates) /\ Bin(At(p)) \in BOOLEAN
        /\ Store(p, Triples(p, ctx[p], Bin(At(p)), G(p).n),
                 AfterTriples(p, ctx[p], Bin(At(p)), G(p).n))
    BY <1>1, TripleStore
  <2>2. ctx'[p] = AfterTriples(p, ctx[p], Bin(At(p)), G(p).n)
    BY <2>1, StoreKeeps
  <2>3. G(p).n \in Nat /\ ctx[p] \in Ctx /\ tape \in Tapes
    BY <2>1, WalkFacts
  <2> DEFINE bin == Bin(At(p))
             n == G(p).n
  <2>4. bin \in BOOLEAN /\ n \in Nat /\ ctx'[p] = AfterTriples(p, ctx[p], bin, n)
    BY <2>1, <2>2, <2>3
  <2> HIDE DEF bin, n
  <2>5. AfterTriples(p, ctx[p], bin, n).perms = ctx[p].perms
    BY <2>3, <2>4, AfterTriplesFacts
  <2>. QED  BY <2>4, <2>5, KeepsSame DEF FillersInv
<1>2. CASE DealInput(p)
  BY <1>2, KeepsSame DEF DealInput
<1>3. CASE SkipLocal(p)
  <2>1. ctx'[p] = ctx[p]
    BY <1>3, StoreKeeps DEF SkipLocal
  <2>. QED  BY <2>1, KeepsSame
<1>. QED  BY <1>1, <1>2, <1>3

LEMMA DealsKeep ==
  ASSUME IInv, FillersInv, NEW p \in Party, Deals(p)
  PROVE  \A q \in Party : Keeps(ctx[q].perms, ctx'[q].perms)
<1>1. Keeps(ctx[p].perms, ctx'[p].perms)
  BY ShuffleKeeps, DoubleKeeps, OtherKeeps DEF Deals, FillersInv
<1>2. PICK c, d : Dealt(p, c, d)
  BY DealsFacts
<1>3. \A q \in Party \ {p} : ctx'[q] = ctx[q]
  BY <1>2, DealsFacts, DealtAt
<1>4. \A q \in Party \ {p} : Keeps(ctx[q].perms, ctx'[q].perms)
  BY <1>3, KeepsSame DEF FillersInv
<1>. QED  BY <1>1, <1>4
LEMMA ThrowKeeps ==
  ASSUME IInv, FillersInv, NEW p \in Party, ThrowDouble(p)
  PROVE  /\ p = 0 /\ ctx'[0] = [ctx[0] EXCEPT !.perms = Grown(ctx[0].perms, G(0).param)]
         /\ \A q \in Party : Keeps(ctx[q].perms, ctx'[q].perms)
<1>1. p = 0
  BY ThrowIsHelper
<1>2. /\ pc[0] = "walk" /\ At(0) <= Len(gates)
      /\ ctx' = [ctx EXCEPT ![0].perms = Grown(@, G(0).param)]
  BY <1>1 DEF ThrowDouble, Walking
<1>3. /\ G(0) \in Gate /\ \A q \in Party : ctx[q] \in Ctx
      /\ ctx \in [Party -> Ctx]
  BY <1>1, <1>2, WalkFacts DEF IInv, TypeOK
<1>4. G(0).param \in Nat
  BY <1>3 DEF Gate
<1>5. ctx[0].perms \in Seq(Entry)
  BY <1>1, <1>3 DEF Ctx
<1>6. Fillers(ctx[0].perms)
  BY <1>1 DEF FillersInv
<1>7. /\ ctx'[0] = [ctx[0] EXCEPT !.perms = Grown(ctx[0].perms, G(0).param)]
      /\ \A q \in Party \ {0} : ctx'[q] = ctx[q]
  BY <1>1, <1>2, <1>3
<1>8. ctx'[0].perms = Grown(ctx[0].perms, G(0).param)
  BY <1>1, <1>3, <1>7 DEF Ctx
<1>9. Keeps(ctx[0].perms, ctx'[0].perms)
  BY <1>4, <1>5, <1>6, <1>8, KeepsGrown
<1>10. \A q \in Party \ {0} : Keeps(ctx[q].perms, ctx'[q].perms)
  BY <1>7, KeepsSame DEF FillersInv
<1>. QED  BY <1>1, <1>7, <1>9, <1>10

(* What the steps that deal nothing leave alone.                           *)
LEMMA OtherSteps ==
  ASSUME IInv, [Next]_vars
  PROVE  \/ \E p \in Party : Deals(p)
         \/ ThrowDouble(0)
         \/ /\ UNCHANGED <<gates, tape, preproc, ledger>> /\ ctx'[0] = ctx[0]
            /\ \A p \in Party : ctx'[p].perms = ctx[p].perms
<1> DEFINE Rest0 == /\ UNCHANGED <<gates, tape, preproc, ledger>> /\ ctx'[0] = ctx[0]
                    /\ \A p \in Party : ctx'[p].perms = ctx[p].perms
<1>1. CASE UNCHANGED vars
  BY <1>1 DEF vars
<1>2. ASSUME NEW p \in Party, Walk(p)
      PROVE  Deals(p) \/ ThrowDouble(0) \/ Rest0
  <2>1. CASE EndWalk(p)
    BY <2>1 DEF EndWalk
  <2>2. CASE ThrowDouble(p)
    BY <2>2, ThrowIsHelper
  <2>. QED  BY <1>2, <2>1, <2>2 DEF Walk, Deals
<1>3. CASE Send
  BY <1>3 DEF Send, SendLengths, SendLengthToOne, SendChunk, SendLast
<1>4. ASSUME NEW q \in Online, Recv(q)
      PROVE  Rest0
  <2>1. ctx \in [Party -> Ctx] /\ q \in Party /\ q # 0
    BY DEF IInv, TypeOK, Online, Party
  <2>2. ASSUME NEW n, Keep(q, n)
        PROVE  ctx'[0] = ctx[0] /\ \A p \in Party : ctx'[p].perms = ctx[p].perms
    <3>1. \A p \in Party \ {q} : ctx'[p] = ctx[p]
      BY <2>1, <2>2 DEF Keep
    <3>2. ctx'[q].perms = ctx[q].perms
      BY <2>1, <2>2 DEF Keep, Ctx
    <3>3. 0 \in Party
      BY DEF Party
    <3>. QED  BY <2>1, <3>1, <3>2, <3>3
  <2>3. CASE RecvLength(q)
    BY <2>3 DEF RecvLength
  <2>4. CASE RecvChunk(q)
    BY <2>2, <2>4 DEF RecvChunk
  <2>5. CASE RecvLast(q)
    BY <2>2, <2>5 DEF RecvLast
  <2>. QED  BY <1>4, <2>3, <2>4, <2>5 DEF Recv
<1>5. Rest0 => /\ UNCHANGED <<gates, tape, preproc, ledger>> /\ ctx'[0] = ctx[0]
               /\ \A p \in Party : ctx'[p].perms = ctx[p].perms
  OBVIOUS
<1> HIDE DEF Rest0
<1>. QED  BY <1>1, <1>2, <1>3, <1>4, <1>5 DEF Next

LEMMA StepKeeps ==
  ASSUME IInv, FillersInv, [Next]_vars
  PROVE  \A p \in Party : Keeps(ctx[p].perms, ctx'[p].perms)
<1>1. ASSUME \A p \in Party : ctx'[p].perms = ctx[p].perms
      PROVE  \A p \in Party : Keeps(ctx[p].perms, ctx'[p].perms)
  BY <1>1, KeepsSame DEF FillersInv
<1>2. 0 \in Party
  BY DEF Party
<1>. QED  BY <1>1, <1>2, OtherSteps, DealsKeep, ThrowKeeps

-----------------------------------------------------------------------------
(* The material stays right in every step.                                 *)
LEMMA StillFresh ==
  ASSUME IInv, pc[0] = "walk", NEW q \in Online
  PROVE  preproc[q] = <<>> /\ ctx[q].perms = <<>>
<1>1. HelperWalks
  BY DEF HelperWalks
<1>. QED  BY <1>1 DEF IInv, PhaseInv

LEMMA ExtendsSelf ==
  ASSUME NEW c
  PROVE  Extends(c, c)
BY DEF Extends

LEMMA HelperMaterial ==
  ASSUME IInv, GatesDealt, Deals(0)
  PROVE  GatesDealt' /\ StoredInv'
<1>0. 0 \in Party /\ \A q \in Online : q \in Party \ {0}
  BY DEF Party, Online
<1>1. GatesDealt'
  BY HelperDeals
<1>2. PICK c, d : Dealt(0, c, d)
  BY <1>0, DealsFacts
<1>3. pc[0] = "walk" /\ At(0) <= Len(gates)
  BY <1>0, DealsFacts
<1>4. gates' = gates /\ \A q \in Online : ctx'[q] = ctx[q] /\ preproc'[q] = preproc[q]
  BY <1>0, <1>2, <1>3, DealtAt
<1>5. \A q \in Online : preproc'[q] = <<>> /\ ctx'[q].perms = <<>>
  BY <1>3, <1>4, StillFresh
<1>6. gates \in Circuits
  BY DEF IInv, TypeOK
<1>. QED  BY <1>1, <1>4, <1>5, <1>6, StoredFresh

LEMMA OnlineMaterial ==
  ASSUME IInv, GatesDealt, StoredInv, NEW q \in Online, Deals(q)
  PROVE  GatesDealt' /\ StoredInv'
<1>0. q \in Party /\ q # 0 /\ 0 \in Party \ {q} /\ \A p \in Online : p \in Party
  BY DEF Party, Online
<1>1. PICK c, d : Dealt(q, c, d)
  BY <1>0, DealsFacts
<1>2. pc[q] = "walk" /\ At(q) <= Len(gates)
  BY <1>0, DealsFacts
<1>3. /\ gates' = gates /\ tape' = tape
      /\ \A p \in Party \ {q} : ctx'[p] = ctx[p] /\ preproc'[p] = preproc[p]
  BY <1>0, <1>1, <1>2, DealtAt
<1>4. ledger' = ledger
  BY <1>0, <1>1 DEF Dealt
<1>5. GatesDealt'
  BY <1>0, <1>3, <1>4, ExtendsSelf, GatesKept
<1>6. StoresNext(q)
  BY OnlineDeals
<1>7. \A p \in Online : \/ preproc'[p] = preproc[p] /\ ctx'[p].perms = ctx[p].perms
                        \/ StoresNext(p)
  BY <1>0, <1>3, <1>6
<1>8. ctx'[0] = ctx[0]
  BY <1>0, <1>3
<1>. QED  BY <1>3, <1>4, <1>5, <1>7, <1>8, StoredKept

LEMMA ThrowMaterial ==
  ASSUME IInv, MaterialInv, ThrowDouble(0)
  PROVE  GatesDealt' /\ StoredInv'
<1> DEFINE m == G(0).param
<1>0. 0 \in Party /\ \A q \in Online : q \in Party \ {0}
  BY DEF Party, Online
<1>1. /\ pc[0] = "walk" /\ At(0) <= Len(gates)
      /\ UNCHANGED <<gates, tape, preproc, ledger>>
      /\ ctx' = [ctx EXCEPT ![0].perms = Grown(@, m)]
  BY DEF ThrowDouble, Walking
<1>2. /\ ctx \in [Party -> Ctx] /\ ctx[0] \in Ctx /\ gates \in Circuits /\ G(0) \in Gate
  BY <1>0, <1>1, WalkFacts DEF IInv, TypeOK
<1>3. m \in Nat
  BY <1>2 DEF Gate
<1> HIDE DEF m
<1>4. /\ ctx'[0] = [ctx[0] EXCEPT !.perms = Grown(ctx[0].perms, m)]
      /\ \A q \in Online : ctx'[q] = ctx[q]
  BY <1>0, <1>1, <1>2
<1>5. /\ ctx'[0].perms = Grown(ctx[0].perms, m) /\ ctx'[0].sec = ctx[0].sec
      /\ ctx'[0].secToOne = ctx[0].secToOne
  BY <1>2, <1>4 DEF Ctx
<1>6. Extends(ctx[0], ctx'[0])
  <2> DEFINE old == ctx[0].perms
  <2>1. old \in Seq(Entry) /\ Names \subseteq Nat
    BY <1>2, NamesNat DEF Ctx
  <2> HIDE DEF old
  <2>2. \A x \in Names : ~ NewPerm(old, x) =>
          ~ NewPerm(Grown(old, m), x) /\ Grown(old, m)[x + 1] = old[x + 1]
    <3> SUFFICES ASSUME NEW x \in Names, ~ NewPerm(old, x)
                 PROVE  ~ NewPerm(Grown(old, m), x) /\ Grown(old, m)[x + 1] = old[x + 1]
      OBVIOUS
    <3>1. x \in Nat /\ x < Len(old)
      BY <2>1 DEF NewPerm
    <3>. QED  BY <1>3, <2>1, <3>1, GrownFacts
  <2>. QED  BY <1>5, <2>2 DEF Extends, old
<1>7. GatesDealt'
  BY <1>1, <1>6, GatesKept DEF MaterialInv
<1>8. \A q \in Online : preproc'[q] = <<>> /\ ctx'[q].perms = <<>>
  BY <1>1, <1>4, StillFresh
<1>. QED  BY <1>1, <1>2, <1>7, <1>8, StoredFresh

LEMMA NextMaterial ==
  ASSUME IInv, MaterialInv, [Next]_vars
  PROVE  MaterialInv'
<1>1. FillersInv'
  BY StepKeeps DEF MaterialInv, FillersInv, Keeps
<1>2. GatesDealt' /\ StoredInv'
  <2>1. CASE Deals(0)
    BY <2>1, HelperMaterial DEF MaterialInv
  <2>2. ASSUME NEW q \in Online, Deals(q) PROVE GatesDealt' /\ StoredInv'
    BY <2>2, OnlineMaterial DEF MaterialInv
  <2>3. CASE ThrowDouble(0)
    BY <2>3, ThrowMaterial
  <2>4. CASE /\ UNCHANGED <<gates, tape, preproc, ledger>> /\ ctx'[0] = ctx[0]
             /\ \A p \in Party : ctx'[p].perms = ctx[p].perms
    <3>1. GatesDealt'
      BY <2>4, ExtendsSelf, GatesKept DEF MaterialInv
    <3>2. \A q \in Online : preproc'[q] = preproc[q] /\ ctx'[q].perms = ctx[q].perms
      BY <2>4 DEF Online, Party
    <3>. QED  BY <2>4, <3>1, <3>2, StoredKept DEF MaterialInv
  <2>5. \A p \in Party : p = 0 \/ p \in Online
    BY DEF Party, Online
  <2>. QED  BY <2>1, <2>2, <2>3, <2>4, <2>5, OtherSteps
<1>. QED  BY <1>1, <1>2 DEF MaterialInv

LEMMA InitMaterial ==
  ASSUME Init
  PROVE  MaterialInv
<1>1. /\ preproc[0] = <<>> /\ ctx[0].perms = <<>>
      /\ \A q \in Online : preproc[q] = <<>> /\ ctx[q].perms = <<>>
      /\ \A p \in Party : ctx[p].perms = <<>>
      /\ gates \in Circuits
  BY DEF Init, FreshCtx, Party, Online
<1>2. GatesDealt
  BY <1>1 DEF GatesDealt
<1>3. Names \subseteq Nat
  BY <1>1, NamesNat
<1>4. \A m \in Names : NewPerm(<<>>, m)
  BY <1>3 DEF NewPerm
<1>5. StoredInv
  BY <1>1, <1>4 DEF StoredInv
<1>6. FillersInv
  BY <1>1 DEF FillersInv, Fillers
<1>. QED  BY <1>2, <1>5, <1>6 DEF MaterialInv

(* The words the helper deals and the data the online parties keep are     *)
(* what the gates call for, at every moment of the three walks.            *)
THEOREM MaterialHolds == Spec => []MaterialInv
<1>1. Init => MaterialInv
  BY InitMaterial
<1>2. IInv /\ MaterialInv /\ [Next]_vars => MaterialInv'
  BY NextMaterial
<1>. QED  BY <1>1, <1>2, InvariantHolds, PTL DEF Spec

(* A permutation once generated is never generated again, nor lost: later  *)
(* shuffles of its name, in either direction, reuse the table's entry      *)
(* (the `size() == 0' tests of prepareShuffle and its callers).            *)
THEOREM TablesWriteOnce == Spec => PermsWriteOnce
<1>1. IInv /\ MaterialInv /\ [Next]_vars =>
        [\A p \in Party : \A m \in 1 .. Len(ctx[p].perms) :
           ctx[p].perms[m] # NoEntry => ctx'[p].perms[m] = ctx[p].perms[m]]_vars
  BY StepKeeps DEF MaterialInv, Keeps
<1>. QED  BY <1>1, InvariantHolds, MaterialHolds, PTL DEF Spec, PermsWriteOnce

-----------------------------------------------------------------------------
(* What the invariant says of a gate both online parties have passed.      *)
LEMMA BothPassed ==
  ASSUME IInv, NEW k \in Both
  PROVE  /\ k \in 1 .. Len(preproc[1]) /\ k \in 1 .. Len(preproc[2])
         /\ k \in 1 .. Len(preproc[0]) /\ k \in 1 .. Len(gates)
         /\ gates \in Circuits /\ gates[k] \in Gate
         /\ gates[k].n \in Nat /\ gates[k].n <= Modulus
<1>1. preproc \in [Party -> Seq(PreprocGate)] /\ gates \in Circuits
  BY DEF IInv, TypeOK
<1>2. /\ Len(preproc[0]) \in Nat /\ Len(preproc[1]) \in Nat /\ Len(preproc[2]) \in Nat
      /\ Len(preproc[1]) <= Len(gates)
  BY <1>1 DEF IInv, PhaseInv, Party
<1>3. k \in 1 .. Len(preproc[1]) /\ k \in 1 .. Len(preproc[2])
  BY <1>2 DEF Both
<1>4. pc[1] # "length"
  <2>1. pc[1] = "length" => preproc[1] = <<>>
    BY DEF IInv, PhaseInv, Online
  <2>. QED  BY <1>3, <2>1
<1>5. Len(preproc[0]) = Len(gates)
  BY <1>4 DEF IInv, PhaseInv, Online
<1>6. k \in 1 .. Len(preproc[0]) /\ k \in 1 .. Len(gates)
  BY <1>2, <1>3, <1>5
<1>7. gates[k] \in Gate /\ gates[k].n \in Nat /\ gates[k].n <= Modulus
  BY <1>1, <1>6, GateFacts
<1>. QED  BY <1>1, <1>3, <1>6, <1>7

(* The kind of data a party keeps tells the kind of gate.                  *)
LEMMA KindOfGate ==
  ASSUME IInv, StoredInv, NEW q \in Online, NEW k \in 1 .. Len(preproc[q])
  PROVE  /\ preproc[q][k].kind = "triples" => gates[k].type \in TripleGate
         /\ preproc[q][k].kind = "shuffle" => gates[k].type \in ShuffleGate
<1>1. StoredAt(q, k)
  BY DEF StoredInv
<1>2. gates[k].type \in TripleGate => preproc[q][k].kind = "triples"
  BY <1>1 DEF StoredAt, Triples
<1>3. gates[k].type \in ShuffleGate => preproc[q][k].kind = "shuffle"
  BY <1>1 DEF StoredAt, MaskedShuffle
<1>4. gates[k].type \notin TripleGate \cup ShuffleGate =>
        preproc[q][k].kind \in {"input", "empty"}
  BY <1>1 DEF StoredAt
<1>. QED  BY <1>2, <1>3, <1>4

LEMMA TripleRight ==
  ASSUME IInv, GatesDealt, StoredInv, NEW k \in Both, preproc[1][k].kind = "triples"
  PROVE  LET t1 == preproc[1][k]
             t2 == preproc[2][k]
             Add(x, y) == IF t1.bin THEN XorW(x, y) ELSE Plus(x, y)
             Mult(x, y) == IF t1.bin THEN AndW(x, y) ELSE Times(x, y)
         IN  /\ t2.kind = "triples"
             /\ \A j \in DOMAIN t1.a :
                  Mult(Add(t1.a[j], t2.a[j]), Add(t1.b[j], t2.b[j]))
                    = Add(t1.c[j], t2.c[j])
<1> DEFINE t1 == preproc[1][k]
           t2 == preproc[2][k]
           bin == Bin(k)
           n == gates[k].n
           b == HelperBefore(k)
           Add(x, y) == IF bin THEN XorW(x, y) ELSE Plus(x, y)
           Mult(x, y) == IF bin THEN AndW(x, y) ELSE Times(x, y)
<1>1. /\ k \in 1 .. Len(preproc[1]) /\ k \in 1 .. Len(preproc[2])
      /\ k \in 1 .. Len(preproc[0]) /\ n \in Nat
  BY BothPassed
<1>2. gates[k].type \in TripleGate
  BY <1>1, KindOfGate DEF Online
<1>3. /\ t1 = Triples(1, Standing(1, b), bin, n)
      /\ t2 = Triples(2, Standing(2, b), bin, n)
  BY <1>1, <1>2 DEF StoredInv, StoredAt, Online
<1>4. TripleWords(k, ctx[0])
  BY <1>1, <1>2 DEF GatesDealt, GateDealt
<1>5. /\ b.p01 \in Nat /\ b.p02 \in Nat /\ b.sec \in Nat /\ tape \in Tapes
      /\ b.sec + n <= Len(ctx[0].sec) /\ ctx[0] \in Ctx /\ Len(ctx[0].sec) \in Nat
  BY <1>1, <1>2, PassedWords, UsedKinds, CtxLens
<1>6. bin \in BOOLEAN
  BY DEF Bin
<1>7. t1.bin = bin /\ t1.kind = "triples" /\ t2.kind = "triples" /\ DOMAIN t1.a = Idx(n)
  <2> HIDE DEF t1, t2, b, n, bin
  <2>. QED  BY <1>3 DEF Triples
<1>8. ASSUME NEW j \in Idx(n)
      PROVE  Mult(Add(t1.a[j], t2.a[j]), Add(t1.b[j], t2.b[j])) = Add(t1.c[j], t2.c[j])
  <2> DEFINE a1 == RingWord("p01", b.p01 + 3*j)
             b1 == RingWord("p01", b.p01 + 3*j + 1)
             c1 == RingWord("p01", b.p01 + 3*j + 2)
             a2 == RingWord("p02", b.p02 + 2*j)
             b2 == RingWord("p02", b.p02 + 2*j + 1)
             x  == Mult(Add(a1, a2), Add(b1, b2))
  <2>1. j \in Nat /\ b.sec + j < Len(ctx[0].sec)
    <3> HIDE DEF n, b
    <3>. QED  BY <1>1, <1>5 DEF Idx
  <2>2. /\ t1.a[j] = a1 /\ t1.b[j] = b1 /\ t1.c[j] = c1
        /\ t2.a[j] = a2 /\ t2.b[j] = b2 /\ t2.c[j] = WordAt(ctx[0].sec, b.sec + j)
    <3>1. /\ t1.a[j] = TripleA(1, Standing(1, b), bin, j)
          /\ t1.b[j] = TripleB(1, Standing(1, b), bin, j)
          /\ t1.c[j] = TripleC(1, Standing(1, b), bin, j)
          /\ t2.a[j] = TripleA(2, Standing(2, b), bin, j)
          /\ t2.b[j] = TripleB(2, Standing(2, b), bin, j)
          /\ t2.c[j] = TripleC(2, Standing(2, b), bin, j)
      <4> HIDE DEF t1, t2, b, n, bin
      <4>. QED  BY <1>3, <1>8 DEF Triples
    <3>2. /\ TripleA(1, Standing(1, b), bin, j) = a1
          /\ TripleB(1, Standing(1, b), bin, j) = b1
          /\ TripleC(1, Standing(1, b), bin, j) = c1
      <4> HIDE DEF b, bin
      <4>. QED  BY <1>6 DEF TripleA, TripleB, TripleC, RandomShare, RandomShareBin, Standing
    <3>3. /\ TripleA(2, Standing(2, b), bin, j) = a2
          /\ TripleB(2, Standing(2, b), bin, j) = b2
          /\ TripleC(2, Standing(2, b), bin, j) = WordAt(ctx[0].sec, b.sec + j)
      <4> HIDE DEF b, bin
      <4>. QED  BY <1>6 DEF TripleA, TripleB, TripleC, RandomShare, RandomShareBin, Standing
    <3>. QED  BY <3>1, <3>2, <3>3
  <2>3. WordAt(ctx[0].sec, b.sec + j) = SecretFor2(b, bin, j)
    <3>1. ctx[0].sec[b.sec + j + 1] = SecretFor2(b, bin, j)
      BY <1>4, <1>8 DEF TripleWords
    <3>2. (b.sec + j) + 1 = b.sec + j + 1
      BY <1>5, <2>1
    <3>. QED  BY <2>1, <3>1, <3>2 DEF WordAt
  <2>4. SecretFor2(b, bin, j) = IF bin THEN XorW(x, c1) ELSE Minus(x, c1)
    <3> HIDE DEF b, bin
    <3>1. Product(0, b, bin, j) = x
      BY <1>6 DEF Product, TripleA, TripleB, RandomShare, RandomShareBin
    <3> HIDE DEF x
    <3>. QED  BY <3>1 DEF SecretFor2
  <2>5. a1 \in Ring /\ b1 \in Ring /\ c1 \in Ring /\ a2 \in Ring /\ b2 \in Ring
    <3> DEFINE k1 == b.p01 + 3*j
               k2 == b.p01 + 3*j + 1
               k3 == b.p01 + 3*j + 2
               k4 == b.p02 + 2*j
               k5 == b.p02 + 2*j + 1
    <3>1. k1 \in Nat /\ k2 \in Nat /\ k3 \in Nat /\ k4 \in Nat /\ k5 \in Nat
      <4>1. ASSUME NEW u \in Nat
            PROVE  /\ u + 3*j \in Nat /\ u + 3*j + 1 \in Nat /\ u + 3*j + 2 \in Nat
                   /\ u + 2*j \in Nat /\ u + 2*j + 1 \in Nat
        BY <2>1
      <4>. QED  BY <1>5, <4>1
    <3> HIDE DEF k1, k2, k3, k4, k5
    <3>2. /\ RingWord("p01", k1) \in Ring /\ RingWord("p01", k2) \in Ring
          /\ RingWord("p01", k3) \in Ring /\ RingWord("p02", k4) \in Ring
          /\ RingWord("p02", k5) \in Ring
      BY <1>5, <3>1, WordsTyped DEF Stream
    <3>. QED  BY <3>2 DEF k1, k2, k3, k4, k5
  <2> HIDE DEF a1, b1, c1, a2, b2, t1, t2, b, bin
  <2>6. x \in Ring
    BY <1>6, <2>5, RingClosed, XorAssumption, AndAssumption
  <2> HIDE DEF x
  <2>7. Add(c1, IF bin THEN XorW(x, c1) ELSE Minus(x, c1)) = x
    BY <1>6, <2>5, <2>6, ShareRestored
  <2>8. Add(t1.c[j], t2.c[j]) = x
    BY <2>2, <2>3, <2>4, <2>7
  <2>. QED  BY <2>2, <2>8 DEF x
<1>. QED
  <2> HIDE DEF t1, t2, bin, n
  <2>1. /\ t2.kind = "triples"
        /\ \A j \in DOMAIN t1.a :
             (IF t1.bin THEN AndW(IF t1.bin THEN XorW(t1.a[j], t2.a[j]) ELSE Plus(t1.a[j], t2.a[j]),
                                  IF t1.bin THEN XorW(t1.b[j], t2.b[j]) ELSE Plus(t1.b[j], t2.b[j]))
                        ELSE Times(IF t1.bin THEN XorW(t1.a[j], t2.a[j]) ELSE Plus(t1.a[j], t2.a[j]),
                                   IF t1.bin THEN XorW(t1.b[j], t2.b[j]) ELSE Plus(t1.b[j], t2.b[j])))
             = IF t1.bin THEN XorW(t1.c[j], t2.c[j]) ELSE Plus(t1.c[j], t2.c[j])
    BY <1>7, <1>8
  <2>. QED  BY <2>1 DEF t1, t2

(* Every triple the online parties hold is a sharing of a, b and a * b     *)
(* (a & b for Boolean gates): what the helper adds to party 2's words      *)
(* (randomShareSecret) completes the shares drawn from the streams.        *)
THEOREM TriplesHold == Spec => []TriplesCorrect
<1>1. IInv /\ MaterialInv => TriplesCorrect
  BY TripleRight DEF MaterialInv, TriplesCorrect
<1>. QED  BY <1>1, InvariantHolds, MaterialHolds, PTL

-----------------------------------------------------------------------------
(* The permutation the online parties hold between them is the helper's.   *)
LEMMA FirstMaker ==
  ASSUME IInv, NEW k \in 1 .. Len(preproc[0]), gates[k].type = "DoubleShuffle",
         gates[k].n > 0
  PROVE  \A m \in {gates[k].param, gates[k].param2, gates[k].param3} : Made(k, m)
<1> DEFINE g == gates[k]
           T == {i \in Nat : /\ i \in 1 .. k /\ gates[i].type \in ShuffleGate
                             /\ gates[i].param = g.param /\ gates[i].n > 0}
<1>1. k \in 1 .. Len(gates) /\ gates \in Circuits /\ k \in Nat
  BY PassedWords
<1>2. k \in T
  BY <1>1 DEF ShuffleGate
<1>3. PICK i \in T : \A j \in T : ~ (j < i)
  <2>1. T \in SUBSET Nat /\ T # {}
    BY <1>2
  <2> HIDE DEF T
  <2>. QED  BY <2>1, NatLeast
<1>4. /\ i \in 1 .. k /\ gates[i].type \in ShuffleGate /\ gates[i].param = g.param
      /\ i \in 1 .. Len(gates) /\ i \in 1 .. Len(preproc[0])
  <2>1. i \in 1 .. k /\ gates[i].type \in ShuffleGate /\ gates[i].param = g.param
    BY <1>3
  <2>2. Len(gates) \in Nat /\ Len(preproc[0]) \in Nat
    BY <1>1, CircuitAssumption DEF IInv, TypeOK, Party
  <2>. QED  BY <1>1, <2>1, <2>2
<1>5. ~ Made(i - 1, g.param)
  <2> SUFFICES ASSUME NEW j \in 1 .. (i - 1), gates[j].type \in ShuffleGate,
                      gates[j].param = g.param, gates[j].n > 0
               PROVE  FALSE
    BY DEF Made
  <2>1. j \in T /\ j < i
    BY <1>1, <1>4
  <2>. QED  BY <1>3, <2>1
<1> HIDE DEF T
<1>6. /\ gates[i].type = "DoubleShuffle"
      /\ gates[i].param2 = g.param2 /\ gates[i].param3 = g.param3
  <2>1. NamesAgree(gates)
    BY <1>1, CircuitAssumption
  <2>2. {gates[i].type, g.type} \subseteq {"Shuffle", "DoubleShuffle"}
    BY <1>4 DEF ShuffleGate
  <2>. QED  BY <1>1, <1>4, <2>1, <2>2 DEF NamesAgree
<1>7. Made(i - 1, g.param2) /\ Made(i - 1, g.param3)
  <2>1. PartsMade(i)
    BY <1>4, <1>6 DEF IInv, HelperInv
  <2>. QED  BY <1>4, <1>5, <1>6, <2>1 DEF PartsMade
<1>8. \A j \in 1 .. (i - 1) : j \in 1 .. k
  BY <1>1, <1>4
<1>9. Made(k, g.param2) /\ Made(k, g.param3)
  BY <1>7, <1>8 DEF Made
<1>10. Made(k, g.param)
  BY <1>1 DEF Made, ShuffleGate
<1>. QED  BY <1>9, <1>10

LEMMA JointIsHelper ==
  ASSUME IInv, StoredInv, NEW k \in Both, NEW m \in Names, Made(k, m), NEW n
  PROVE  /\ Joint(m, n) = HelperPi(ctx[0], m, n)
         /\ ctx[1].perms[m + 1].rho0 = ctx[0].perms[m + 1].rho0
         /\ ctx[2].perms[m + 1].rho1 = ctx[0].perms[m + 1].rho1
<1>1. k \in 1 .. Len(preproc[1]) /\ k \in 1 .. Len(preproc[2])
  BY BothPassed
<1>2. Made(Len(preproc[1]), m) /\ Made(Len(preproc[2]), m)
  <2>1. /\ \A j \in 1 .. k : j \in 1 .. Len(preproc[1])
        /\ \A j \in 1 .. k : j \in 1 .. Len(preproc[2])
    <3>1. Len(preproc[1]) \in Nat /\ Len(preproc[2]) \in Nat
      BY DEF IInv, TypeOK, Party
    <3>. QED  BY <1>1, <3>1
  <2>. QED  BY <2>1 DEF Made
<1>3. ~ NewPerm(ctx[1].perms, m) /\ ~ NewPerm(ctx[2].perms, m)
  BY <1>2 DEF IInv, TablesInv, Party
<1>4. /\ SameHalf(1, ctx[1].perms[m + 1], ctx[0].perms[m + 1])
      /\ SameHalf(2, ctx[2].perms[m + 1], ctx[0].perms[m + 1])
  BY <1>3 DEF StoredInv, Online
<1> DEFINE e1 == ctx[1].perms[m + 1]
           e2 == ctx[2].perms[m + 1]
           h  == ctx[0].perms[m + 1]
<1>5. e1.pi0 = h.pi0 /\ e1.rho0 = h.rho0
  BY <1>4 DEF SameHalf
<1>6. e2.pi1 = h.pi1 /\ e2.rho1 = h.rho1
  BY <1>4 DEF SameHalf
<1>7. /\ Joint(m, n) = [j \in Idx(n) |-> e1.pi0[e2.pi1[j]]]
      /\ HelperPi(ctx[0], m, n) = [j \in Idx(n) |-> h.pi0[h.pi1[j]]]
  BY DEF Joint, HelperPi, Composed
<1> HIDE DEF e1, e2, h
<1>8. Joint(m, n) = HelperPi(ctx[0], m, n) /\ e1.rho0 = h.rho0 /\ e2.rho1 = h.rho1
  BY <1>5, <1>6, <1>7
<1>. QED  BY <1>8 DEF e1, e2, h

LEMMA ComposesRight ==
  ASSUME IInv, GatesDealt, StoredInv
  PROVE  DoubleComposes
<1> SUFFICES ASSUME NEW k \in Both, gates[k].type = "DoubleShuffle",
                    NEW j \in Idx(gates[k].n)
             PROVE  LET g == gates[k] IN
                    Joint(g.param, g.n)[Joint(g.param2, g.n)[j]] = Joint(g.param3, g.n)[j]
  BY DEF DoubleComposes
<1> DEFINE g == gates[k]
<1>1. /\ k \in 1 .. Len(preproc[0]) /\ k \in 1 .. Len(gates) /\ gates \in Circuits
      /\ g.n \in Nat
  BY BothPassed
<1>2. g.n > 0
  BY <1>1 DEF Idx
<1>3. Made(k, g.param) /\ Made(k, g.param2) /\ Made(k, g.param3)
  BY <1>1, <1>2, FirstMaker
<1>4. g.param \in Names /\ g.param2 \in Names /\ g.param3 \in Names
  BY <1>1, NameFacts DEF ShuffleGate
<1>5. /\ Joint(g.param, g.n) = HelperPi(ctx[0], g.param, g.n)
      /\ Joint(g.param2, g.n) = HelperPi(ctx[0], g.param2, g.n)
      /\ Joint(g.param3, g.n) = HelperPi(ctx[0], g.param3, g.n)
  BY <1>3, <1>4, JointIsHelper
<1>6. DoubleRight(k, ctx[0])
  BY <1>1 DEF GatesDealt, GateDealt, ShuffleGate
<1>. QED  BY <1>5, <1>6 DEF DoubleRight

LEMMA ShuffleRight ==
  ASSUME IInv, GatesDealt, StoredInv, NEW k \in Both, preproc[1][k].kind = "shuffle"
  PROVE  LET s1 == preproc[1][k]
             s2 == preproc[2][k]
             g  == gates[k]
             pi == Joint(g.param, g.n)
             e1 == ctx[1].perms[g.param + 1]
             e2 == ctx[2].perms[g.param + 1]
         IN  /\ IsPermutation(pi, g.n)
             /\ \A j \in Idx(g.n) : e2.rho1[e1.rho0[j]] = pi[j]
             /\ \A j \in Idx(g.n) :
                  LET from == IF g.reverse THEN pi[j] ELSE j
                      to   == IF g.reverse THEN j ELSE pi[j]
                  IN  Plus(s1.b[to], s2.b[to]) = Plus(s1.mask[from], s2.mask[from])
<1> DEFINE s1 == preproc[1][k]
           s2 == preproc[2][k]
           g  == gates[k]
           n  == g.n
           pi == Joint(g.param, n)
           e1 == ctx[1].perms[g.param + 1]
           e2 == ctx[2].perms[g.param + 1]
           h  == ctx[0].perms[g.param + 1]
           b  == MasksFrom(k)
           from(j) == IF g.reverse THEN pi[j] ELSE j
           to(j)   == IF g.reverse THEN j ELSE pi[j]
<1>1. /\ k \in 1 .. Len(preproc[1]) /\ k \in 1 .. Len(preproc[2])
      /\ k \in 1 .. Len(preproc[0]) /\ k \in 1 .. Len(gates) /\ gates \in Circuits
      /\ g \in Gate /\ n \in Nat
  BY BothPassed
<1>2. g.type \in ShuffleGate
  BY <1>1, KindOfGate DEF Online
<1>3. /\ s1 = MaskedShuffle(1, Standing(1, b), g)
      /\ s2 = MaskedShuffle(2, Standing(2, b), g)
  BY <1>1, <1>2 DEF StoredInv, StoredAt, Online
<1>4. EntryRight(k, ctx[0]) /\ MaskWords(k, ctx[0])
  BY <1>1, <1>2 DEF GatesDealt, GateDealt
<1>5. CASE n = 0
  <2>1. Idx(n) = {} /\ pi = [j \in Idx(n) |-> ctx[1].perms[g.param + 1].pi0[
                                            ctx[2].perms[g.param + 1].pi1[j]]]
    BY <1>5, EmptyVectors DEF Joint
  <2> HIDE DEF pi
  <2>2. IsPermutation(pi, n)
    BY <2>1 DEF IsPermutation
  <2>. QED  BY <2>1, <2>2 DEF pi
<1>6. CASE n > 0
  <2>1. g.param \in Names /\ Made(k, g.param)
    <3>1. Made(k, g.param)
      BY <1>1, <1>2, <1>6 DEF Made
    <3>. QED  BY <1>1, <1>2, <3>1, NameFacts
  <2>2. pi = HelperPi(ctx[0], g.param, n) /\ e1.rho0 = h.rho0 /\ e2.rho1 = h.rho1
    BY <2>1, JointIsHelper
  <2>3. AllPermutations(h, n)
    BY <1>1, <1>2, <1>6, PassedEntries
  <2>4. IsPermutation(pi, n)
    BY <1>1, <2>2, <2>3, ComposedPermutation DEF HelperPi
  <2>5. ASSUME NEW j \in Idx(n) PROVE e2.rho1[e1.rho0[j]] = pi[j]
    BY <1>4, <2>2, <2>5 DEF EntryRight, HelperPi, Composed
  <2>6. ASSUME NEW j \in Idx(n)
        PROVE  Plus(s1.b[to(j)], s2.b[to(j)]) = Plus(s1.mask[from(j)], s2.mask[from(j)])
    <3>1. from(j) \in Idx(n) /\ to(j) \in Idx(n)
      BY <2>4, <2>6 DEF IsPermutation
    <3>2. Plus(ctx[0].secToOne[b.secToOne + to(j) + 1], ctx[0].sec[b.sec + to(j) + 1])
            = Plus(RingWord("p01", b.p01 + from(j)), RingWord("p02", b.p02 + from(j)))
      BY <1>4, <2>2, <2>6 DEF MaskWords
    <3> HIDE DEF from, to
    <3>3. /\ s1.mask[from(j)] = RingWord("p01", b.p01 + from(j))
          /\ s2.mask[from(j)] = RingWord("p02", b.p02 + from(j))
          /\ s1.b[to(j)] = WordAt(ctx[0].secToOne, b.secToOne + to(j))
          /\ s2.b[to(j)] = WordAt(ctx[0].sec, b.sec + to(j))
      <4> DEFINE x == from(j)
                 y == to(j)
      <4>1. x \in Idx(n) /\ y \in Idx(n)
        BY <3>1
      <4> HIDE DEF x, y, b, s1, s2
      <4>2. s1.mask[x] = RingWord("p01", b.p01 + x) /\ s2.mask[x] = RingWord("p02", b.p02 + x)
        BY <1>3, <4>1 DEF MaskedShuffle, Masks, Standing
      <4>3. /\ s1.b[y] = WordAt(ctx[0].secToOne, b.secToOne + y)
            /\ s2.b[y] = WordAt(ctx[0].sec, b.sec + y)
        BY <1>3, <4>1 DEF MaskedShuffle, Popped, Standing
      <4>. QED  BY <4>2, <4>3 DEF x, y
    <3>4. /\ b.sec \in Nat /\ b.secToOne \in Nat
          /\ b.sec + n <= Len(ctx[0].sec) /\ b.secToOne + n <= Len(ctx[0].secToOne)
          /\ Len(ctx[0].sec) \in Nat /\ Len(ctx[0].secToOne) \in Nat
      <4> DEFINE f == Making(k)
                 a == HelperBefore(k)
      <4>1. f \in Nat /\ a.sec \in Nat /\ a.secToOne \in Nat
        BY <1>1, PassedWords DEF Making
      <4>2. /\ a.sec + Used(k).sec <= Len(ctx[0].sec)
            /\ a.secToOne + Used(k).secToOne <= Len(ctx[0].secToOne)
            /\ Len(ctx[0].sec) \in Nat /\ Len(ctx[0].secToOne) \in Nat
        BY <1>1, PassedWords, CtxLens
      <4>3. /\ Used(k).sec = n + f
            /\ Used(k).secToOne = IF g.type = "DoubleShuffle" THEN n + f ELSE n
        BY <1>2, UsedKinds DEF ShuffleGate
      <4>4. /\ b.sec = a.sec + f
            /\ b.secToOne = a.secToOne + (IF g.type = "DoubleShuffle" THEN f ELSE 0)
        BY DEF MasksFrom
      <4> HIDE DEF f, n, b, a
      <4>5. ASSUME NEW u \in Nat
            PROVE  u + f \in Nat /\ (u + f) + n = u + (n + f)
        BY <1>1, <4>1
      <4>6. ASSUME NEW u \in Nat
            PROVE  u + 0 \in Nat /\ (u + 0) + n = u + n
        BY <1>1
      <4>7. b.sec \in Nat /\ b.sec + n <= Len(ctx[0].sec)
        BY <4>1, <4>2, <4>3, <4>4, <4>5
      <4>8. CASE g.type = "DoubleShuffle"
        <5>1. b.secToOne = a.secToOne + f /\ Used(k).secToOne = n + f
          BY <4>3, <4>4, <4>8
        <5>2. b.secToOne \in Nat /\ b.secToOne + n = a.secToOne + Used(k).secToOne
          BY <4>1, <4>5, <5>1
        <5>. QED  BY <4>2, <4>7, <5>2
      <4>9. CASE g.type # "DoubleShuffle"
        <5>1. b.secToOne = a.secToOne + 0 /\ Used(k).secToOne = n
          BY <4>3, <4>4, <4>9
        <5>2. b.secToOne \in Nat /\ b.secToOne + n = a.secToOne + Used(k).secToOne
          BY <4>1, <4>6, <5>1
        <5>. QED  BY <4>2, <4>7, <5>2
      <4>. QED  BY <4>8, <4>9
    <3>5. /\ WordAt(ctx[0].secToOne, b.secToOne + to(j)) = ctx[0].secToOne[b.secToOne + to(j) + 1]
          /\ WordAt(ctx[0].sec, b.sec + to(j)) = ctx[0].sec[b.sec + to(j) + 1]
      <4> DEFINE y == to(j)
                 u == b.sec
                 v == b.secToOne
      <4>1. y \in Idx(n) /\ u \in Nat /\ v \in Nat
            /\ u + n <= Len(ctx[0].sec) /\ v + n <= Len(ctx[0].secToOne)
            /\ Len(ctx[0].sec) \in Nat /\ Len(ctx[0].secToOne) \in Nat
        BY <3>1, <3>4
      <4> HIDE DEF y, u, v, n
      <4>2. /\ u + y < Len(ctx[0].sec) /\ v + y < Len(ctx[0].secToOne)
            /\ (u + y) + 1 = u + y + 1 /\ (v + y) + 1 = v + y + 1
        BY SMTT(30), <1>1, <4>1 DEF Idx
      <4>3. /\ WordAt(ctx[0].secToOne, v + y) = ctx[0].secToOne[v + y + 1]
            /\ WordAt(ctx[0].sec, u + y) = ctx[0].sec[u + y + 1]
        BY <4>2 DEF WordAt
      <4>. QED  BY <4>3 DEF y, u, v
    <3>. QED  BY <3>2, <3>3, <3>5
  <2> HIDE DEF s1, s2, e1, e2, pi
  <2>. QED  BY <2>4, <2>5, <2>6 DEF s1, s2, e1, e2, pi
<1>7. n = 0 \/ n > 0
  BY <1>1
<1> HIDE DEF n
<1>. QED  BY <1>5, <1>6, <1>7

(* Whatever shuffle both online parties have prepared, the halves they     *)
(* hold are one permutation in either order of application, the shares B   *)
(* they were dealt are the image of their masks under it, and a double     *)
(* shuffle's permutation is the composition it stands for.                 *)
THEOREM ShufflesHold == Spec => []ShufflesCorrelated
<1>1. IInv /\ MaterialInv => ShufflesCorrelated
  BY ComposesRight, ShuffleRight DEF MaterialInv, ShufflesCorrelated
<1>. QED  BY <1>1, InvariantHolds, MaterialHolds, PTL

-----------------------------------------------------------------------------
(* What is left of a gate when everybody is done.                          *)
LEMMA BothDone ==
  ASSUME IInv, \A p \in Party : pc[p] = "done", NEW k \in 1 .. Len(gates)
  PROVE  k \in Both
<1>1. /\ Len(preproc[1]) = Len(gates) /\ Len(preproc[2]) = Len(gates)
  BY DEF IInv, PhaseInv, Online, Party
<1>. QED  BY <1>1 DEF Both

LEMMA LeftOfTriple ==
  ASSUME IInv, MaterialInv, NEW k \in Both, gates[k].type \in TripleGate
  PROVE  TripleLeft(k, preproc[1][k], preproc[2][k])
<1> DEFINE n == gates[k].n
           bin == Bin(k)
<1>1. /\ k \in 1 .. Len(preproc[1]) /\ k \in 1 .. Len(preproc[2]) /\ n \in Nat
  BY BothPassed
<1>2. ASSUME NEW q \in Online
      PROVE  /\ preproc[q][k].kind = "triples" /\ preproc[q][k].bin = bin
             /\ {preproc[q][k].a, preproc[q][k].b, preproc[q][k].c} \subseteq [Idx(n) -> Ring]
  <2> DEFINE d == preproc[q][k]
  <2>1. d = Triples(q, Standing(q, HelperBefore(k)), bin, n)
    BY <1>1, <1>2 DEF MaterialInv, StoredInv, StoredAt, Online
  <2>2. d \in PreprocGate
    BY <1>1, <1>2 DEF IInv, TypeOK, Online, Party
  <2> HIDE DEF d, bin, n
  <2>3. /\ d.kind = "triples" /\ d.bin = bin
        /\ DOMAIN d.a = Idx(n) /\ DOMAIN d.b = Idx(n) /\ DOMAIN d.c = Idx(n)
    BY <2>1 DEF Triples
  <2>4. d.a \in Vec /\ d.b \in Vec /\ d.c \in Vec
    BY <2>2, <2>3 DEF PreprocGate
  <2>5. \A v \in Vec : v \in [DOMAIN v -> Ring]
    BY DEF Vec
  <2>6. d.a \in [Idx(n) -> Ring] /\ d.b \in [Idx(n) -> Ring] /\ d.c \in [Idx(n) -> Ring]
    BY <2>3, <2>4, <2>5
  <2>. QED  BY <2>3, <2>6 DEF d
<1> DEFINE t1 == preproc[1][k]
           t2 == preproc[2][k]
<1>3. /\ t1.kind = "triples" /\ t1.bin = bin
      /\ {t1.a, t1.b, t1.c} \subseteq [Idx(n) -> Ring]
      /\ {t2.a, t2.b, t2.c} \subseteq [Idx(n) -> Ring]
  BY <1>2 DEF Online
<1>4. LET Add(x, y) == IF t1.bin THEN XorW(x, y) ELSE Plus(x, y)
          Mult(x, y) == IF t1.bin THEN AndW(x, y) ELSE Times(x, y)
      IN  \A j \in DOMAIN t1.a :
            Mult(Add(t1.a[j], t2.a[j]), Add(t1.b[j], t2.b[j])) = Add(t1.c[j], t2.c[j])
  BY <1>3, TripleRight DEF MaterialInv
<1>5. DOMAIN t1.a = Idx(n)
  BY <1>3
<1> HIDE DEF t1, t2, bin, n
<1>6. LET Add(x, y) == IF bin THEN XorW(x, y) ELSE Plus(x, y)
          Mult(x, y) == IF bin THEN AndW(x, y) ELSE Times(x, y)
      IN  \A j \in Idx(n) :
            Mult(Add(t1.a[j], t2.a[j]), Add(t1.b[j], t2.b[j])) = Add(t1.c[j], t2.c[j])
  BY <1>3, <1>4, <1>5
<1>7. \A d \in {t1, t2} : {d.a, d.b, d.c} \subseteq [Idx(n) -> Ring]
  BY <1>3
<1>. QED  BY <1>6, <1>7 DEF TripleLeft, t1, t2, bin, n

LEMMA LeftOfShuffle ==
  ASSUME IInv, MaterialInv, NEW k \in Both, gates[k].type \in ShuffleGate, gates[k].n > 0
  PROVE  /\ HalvesLeft(k, ctx[1].perms[gates[k].param + 1], ctx[2].perms[gates[k].param + 1])
         /\ MasksLeft(k, preproc[1][k], preproc[2][k])
<1> DEFINE g  == gates[k]
           n  == g.n
           m  == g.param
           e1 == ctx[1].perms[m + 1]
           e2 == ctx[2].perms[m + 1]
           h  == ctx[0].perms[m + 1]
           d1 == preproc[1][k]
           d2 == preproc[2][k]
           pi == Joint(m, n)
<1>1. /\ k \in 1 .. Len(preproc[1]) /\ k \in 1 .. Len(preproc[2]) /\ k \in 1 .. Len(preproc[0])
      /\ k \in 1 .. Len(gates) /\ gates \in Circuits /\ g \in Gate /\ n \in Nat
  BY BothPassed
<1>2. m \in Names
  BY <1>1, NameFacts
<1>3. AllPermutations(h, n)
  BY <1>1, PassedEntries
<1>4. /\ Made(Len(preproc[1]), m) /\ Made(Len(preproc[2]), m)
  BY <1>1 DEF Made
<1>5. ~ NewPerm(ctx[1].perms, m) /\ ~ NewPerm(ctx[2].perms, m)
  BY <1>2, <1>4 DEF IInv, TablesInv, Party
<1>6. SameHalf(1, e1, h) /\ SameHalf(2, e2, h)
  BY <1>2, <1>5 DEF MaterialInv, StoredInv, Online
<1>7. /\ e1.pi0 = h.pi0 /\ e1.rho0 = h.rho0 /\ e2.pi1 = h.pi1 /\ e2.rho1 = h.rho1
  <2> HIDE DEF e1, e2, h
  <2>. QED  BY <1>6 DEF SameHalf
<1>8. ASSUME NEW q \in Online
      PROVE  /\ preproc[q][k].kind = "shuffle"
             /\ {preproc[q][k].mask, preproc[q][k].b} \subseteq [Idx(n) -> Ring]
  <2> DEFINE d == preproc[q][k]
             b == Standing(q, MasksFrom(k))
  <2>1. d = MaskedShuffle(q, b, g)
    BY <1>1, <1>8 DEF MaterialInv, StoredInv, StoredAt, Online
  <2>2. d \in PreprocGate
    BY <1>1, <1>8 DEF IInv, TypeOK, Online, Party
  <2>3. q = 1 \/ q = 2
    BY DEF Online
  <2> HIDE DEF d, b, g, n
  <2>4. /\ d.kind = "shuffle"
        /\ d.mask = (IF q = 1 THEN Masks(q, b, g.n).m0 ELSE Masks(q, b, g.n).m1)
        /\ d.b = (IF q = 1 THEN Popped(b.secToOne, b.idx, g.n) ELSE Popped(b.sec, b.idx, g.n))
    BY <2>1, <2>3 DEF MaskedShuffle
  <2>5. DOMAIN d.mask = Idx(g.n) /\ DOMAIN d.b = Idx(g.n)
    BY <2>3, <2>4 DEF Masks, Popped
  <2>6. d.mask \in Vec /\ d.b \in Vec
    BY <2>2, <2>4 DEF PreprocGate
  <2>7. \A v \in Vec : v \in [DOMAIN v -> Ring]
    BY DEF Vec
  <2>8. d.mask \in [Idx(g.n) -> Ring] /\ d.b \in [Idx(g.n) -> Ring]
    BY <2>5, <2>6, <2>7
  <2>. QED  BY <2>4, <2>8 DEF d, n
<1>9. d1.kind = "shuffle" /\ {d1.mask, d1.b} \subseteq [Idx(n) -> Ring]
      /\ {d2.mask, d2.b} \subseteq [Idx(n) -> Ring]
  BY <1>8 DEF Online
<1>10. /\ IsPermutation(pi, n)
       /\ \A j \in Idx(n) : e2.rho1[e1.rho0[j]] = pi[j]
       /\ \A j \in Idx(n) :
            LET from == IF g.reverse THEN pi[j] ELSE j
                to   == IF g.reverse THEN j ELSE pi[j]
            IN  Plus(d1.b[to], d2.b[to]) = Plus(d1.mask[from], d2.mask[from])
  BY <1>9, ShuffleRight DEF MaterialInv
<1>11. \A j \in Idx(n) : pi[j] = e1.pi0[e2.pi1[j]]
  <2> HIDE DEF e1, e2, n, m
  <2>1. pi = [j \in Idx(n) |-> e1.pi0[e2.pi1[j]]]
    BY DEF Joint, e1, e2
  <2> HIDE DEF pi
  <2>. QED  BY <2>1
<1>12. HalvesLeft(k, e1, e2)
  <2> HIDE DEF e1, e2, h, pi
  <2>1. /\ IsPermutation(e1.pi0, g.n) /\ IsPermutation(e1.rho0, g.n)
        /\ IsPermutation(e2.pi1, g.n) /\ IsPermutation(e2.rho1, g.n)
    BY <1>3, <1>7 DEF AllPermutations
  <2>2. \A j \in Idx(g.n) : e2.rho1[e1.rho0[j]] = e1.pi0[e2.pi1[j]]
    BY <1>10, <1>11
  <2> HIDE DEF g, n
  <2>. QED  BY <2>1, <2>2 DEF HalvesLeft, g
<1>13. MasksLeft(k, d1, d2)
  <2>1. \A d \in {d1, d2} : {d.mask, d.b} \subseteq [Idx(n) -> Ring]
    <3> HIDE DEF d1, d2, n
    <3>. QED  BY <1>9
  <2> HIDE DEF d1, d2
  <2>. QED  BY <1>10, <2>1 DEF MasksLeft
<1>. QED  BY <1>12, <1>13

(* When the preprocessing is over, the online parties hold for every gate  *)
(* all that the online phase needs of it: correct triples, and halves of   *)
(* permutations with the masks that belong to them.                        *)
THEOREM LeavesEverything == Spec => []LeavesAll
<1>1. ASSUME IInv, MaterialInv, \A p \in Party : pc[p] = "done", NEW k \in 1 .. Len(gates)
      PROVE  GateLeft(k)
  <2>1. k \in Both /\ k \in 1 .. Len(preproc[0])
    BY <1>1, BothDone, BothPassed
  <2>2. gates[k].type \in TripleGate => TripleLeft(k, preproc[1][k], preproc[2][k])
    BY <1>1, <2>1, LeftOfTriple
  <2>3. ASSUME gates[k].type = "DoubleShuffle", gates[k].n > 0
        PROVE  DoubleLeft(k)
    <3>1. Made(k, gates[k].param2) /\ Made(k, gates[k].param3)
      BY <1>1, <2>1, <2>3, FirstMaker
    <3>2. DoubleComposes
      BY <1>1, ComposesRight DEF MaterialInv
    <3> DEFINE g == gates[k]
    <3>3. \A j \in Idx(g.n) :
            Joint(g.param, g.n)[Joint(g.param2, g.n)[j]] = Joint(g.param3, g.n)[j]
      BY <2>1, <2>3, <3>2 DEF DoubleComposes
    <3> HIDE DEF g
    <3>. QED  BY <3>1, <3>3 DEF DoubleLeft, g
  <2>. QED  BY <1>1, <2>1, <2>2, <2>3, LeftOfShuffle DEF GateLeft
<1>2. IInv /\ MaterialInv => LeavesAll
  BY <1>1 DEF LeavesAll
<1>. QED  BY <1>2, InvariantHolds, MaterialHolds, PTL
=============================================================================
