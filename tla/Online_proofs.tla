--------------------------- MODULE Online_proofs ----------------------------
(***************************************************************************)
(* Proofs about the exchange of module Online, for every set of ordered    *)
(* circuits, every material, every word width and every segment size.      *)
(*                                                                         *)
(* The invariant counts words from the beginning of the evaluation: what a *)
(* party has opened and what it has read are each a number of words of one *)
(* stream that the circuit alone determines, and what is in flight to a    *)
(* party is what the other has opened less what it has read.               *)
(***************************************************************************)
EXTENDS Online, Facts, TLAPS

-----------------------------------------------------------------------------

(* Sequences whose elements are of no interest.                            *)
IsVec(s) == s \in Seq(Elems(s))

Sums(t) == LET f[k \in 0 .. Len(t)] == IF k = 0 THEN 0 ELSE f[k - 1] + t[k] IN f

(* Words a gate opens in the group `kind', a level in the group `kind', a  *)
(* level in all.                                                           *)
WordsOf(g, kind) == IF g.type \in Interactive /\ Kind(g) = kind THEN Takes(g) ELSE 0
KindLen(gs, kind) == Sums([k \in 1 .. Len(gs) |-> WordsOf(gs[k], kind)])[Len(gs)]
(* Words of the gates before gate k in the group `kind'.                   *)
Start(gs, kind, k) == Sums([i \in 1 .. Len(gs) |-> WordsOf(gs[i], kind)])[k - 1]
LevelLen(gs) ==
  KindLen(gs, "mult") + KindLen(gs, "and") + KindLen(gs, "shuffle") + KindLen(gs, "reveal")
(* Words of the levels before level l.                                     *)
Lens(c) == [l \in 1 .. Len(c.levels) |-> LevelLen(c.levels[l])]
Before(c, l) == Sums(Lens(c))[l - 1]

(* Words a party in phase ph of level l has sent and has read, given it    *)
(* has read r of this level.                                               *)
SegmentOf(r, t) == IF r + Segment <= t THEN Segment ELSE t - r
Sent(c, ph, l, r) ==
  Before(c, l) + (CASE ph \in {"inputs", "begin"}  -> 0
                    [] ph \in {"send", "finish"}   -> r
                    [] ph = "recv"                 -> r + SegmentOf(r, LevelLen(c.levels[l]))
                    [] ph \in {"outputs", "done"}  -> Len(c.outputs))
Read(c, ph, l, r) ==
  Before(c, l) + (CASE ph \in {"inputs", "begin", "outputs"} -> 0
                    [] ph \in {"send", "recv", "finish"}     -> r
                    [] ph = "done"                           -> Len(c.outputs))

(* Where a party is in its level.                                          *)
InLevel(c, ph, l, r, m) ==
  /\ ph \in Phase /\ l \in 1 .. EndStage(c) /\ IsVec(r)
  /\ ph \in {"outputs", "done"} => l = EndStage(c)
  /\ ph \in {"send", "recv", "finish"} =>
       /\ l <= Len(c.levels)
       /\ IsVec(AllOpened(m)) /\ Len(AllOpened(m)) = LevelLen(c.levels[l])
       /\ Len(r) <= LevelLen(c.levels[l])
  /\ ph = "finish" => Len(r) = LevelLen(c.levels[l])

ShapeInv ==
  /\ circ \in Circuits
  /\ DOMAIN pc = Online /\ DOMAIN level = Online /\ DOMAIN mine = Online
  /\ DOMAIN recv = Online /\ chan = [p \in Online |-> chan[p]]
  /\ \A p \in Online : IsVec(chan[p]) /\ InLevel(circ, pc[p], level[p], recv[p], mine[p])
CountInv ==
  \A p \in Online :
    Len(chan[p]) = Sent(circ, pc[Other(p)], level[Other(p)], Len(recv[Other(p)]))
                     - Read(circ, pc[p], level[p], Len(recv[p]))
ExchangeInv == ShapeInv /\ CountInv
-----------------------------------------------------------------------------
(* Sequences.                                                              *)
LEMMA VecOf == ASSUME NEW S, NEW s \in Seq(S) PROVE IsVec(s)
<1>1. Len(s) \in Nat /\ DOMAIN s = 1 .. Len(s) /\ s = [i \in 1 .. Len(s) |-> s[i]]
  OBVIOUS
<1>2. \A i \in 1 .. Len(s) : s[i] \in Elems(s)
  BY <1>1 DEF Elems
<1>. QED  BY <1>1, <1>2 DEF IsVec

LEMMA VecLen == ASSUME NEW s, IsVec(s) PROVE Len(s) \in Nat /\ DOMAIN s = 1 .. Len(s)
BY DEF IsVec

(* What r = s \o t is, element by element.                                 *)
IsJoin(r, s, t) == /\ IsVec(r) /\ Len(r) = Len(s) + Len(t)
                   /\ \A i \in 1 .. Len(s) : r[i] = s[i]
                   /\ \A i \in 1 .. Len(t) : r[Len(s) + i] = t[i]
LEMMA VecJoinAt == ASSUME NEW s, NEW t, IsVec(s), IsVec(t) PROVE IsJoin(s \o t, s, t)
<1> DEFINE S == Elems(s) \cup Elems(t)
<1>1. s \in Seq(S) /\ t \in Seq(S)
  <2>1. s \in Seq(Elems(s)) /\ t \in Seq(Elems(t))
    BY DEF IsVec
  <2>2. /\ Len(s) \in Nat /\ s = [i \in 1 .. Len(s) |-> s[i]] /\ \A i \in 1 .. Len(s) : s[i] \in Elems(s)
        /\ Len(t) \in Nat /\ t = [i \in 1 .. Len(t) |-> t[i]] /\ \A i \in 1 .. Len(t) : t[i] \in Elems(t)
    BY <2>1
  <2>3. /\ \A i \in 1 .. Len(s) : s[i] \in S
        /\ \A i \in 1 .. Len(t) : t[i] \in S
    BY <2>2
  <2> HIDE DEF S
  <2>. QED  BY <2>2, <2>3
<1> HIDE DEF S
<1>2. /\ s \o t \in Seq(S) /\ Len(s \o t) = Len(s) + Len(t)
      /\ \A i \in 1 .. Len(s) : (s \o t)[i] = s[i]
      /\ \A i \in 1 .. Len(t) : (s \o t)[Len(s) + i] = t[i]
  BY <1>1, ConcatFacts
<1>. QED  BY <1>2, VecOf DEF IsJoin

LEMMA VecJoin ==
  ASSUME NEW s, NEW t, IsVec(s), IsVec(t)
  PROVE  IsVec(s \o t) /\ Len(s \o t) = Len(s) + Len(t)
<1>1. IsJoin(s \o t, s, t)
  BY VecJoinAt
<1>. QED  BY <1>1 DEF IsJoin

LEMMA VecPart ==
  ASSUME NEW s, IsVec(s), NEW m \in Nat, NEW n \in Nat, m + n <= Len(s)
  PROVE  IsVec(SubSeq(s, m + 1, m + n)) /\ Len(SubSeq(s, m + 1, m + n)) = n
<1> DEFINE S == Elems(s)
<1>1. s \in Seq(S)
  BY DEF IsVec
<1> HIDE DEF S
<1>2. SubSeq(s, m + 1, m + n) \in Seq(S) /\ Len(SubSeq(s, m + 1, m + n)) = n
  <2>1. /\ Len(s) \in Nat /\ m + 1 \in 1 .. (Len(s) + 1) /\ m + n \in m .. Len(s)
        /\ (m + n) - (m + 1) + 1 = n
    BY <1>1
  <2>. QED  BY <1>1, <2>1
<1>. QED  BY <1>2, VecOf

LEMMA VecNone == ASSUME NEW s, IsVec(s), Len(s) = 0 PROVE s = <<>>
BY DEF IsVec

LEMMA VecEmpty == IsVec(<<>>) /\ Len(<<>>) = 0
BY DEF IsVec
-----------------------------------------------------------------------------
(* Sums of lengths and joins of sequences: the recursive functions exist.  *)
LEMMA SumsUnfold ==
  ASSUME NEW t, Len(t) \in Nat
  PROVE  Sums(t) = [k \in 0 .. Len(t) |-> IF k = 0 THEN 0 ELSE Sums(t)[k - 1] + t[k]]
<1> DEFINE Def(f, n) == f = [k \in 0 .. n |-> IF k = 0 THEN 0 ELSE f[k - 1] + t[k]]
           T == {n \in Nat : \E f : Def(f, n)}
<1>1. 0 \in T
  <2>1. Def([k \in 0 .. 0 |-> 0], 0)
    OBVIOUS
  <2>. QED  BY <2>1
<1>2. ASSUME NEW n \in T PROVE n + 1 \in T
  <2>1. PICK f : Def(f, n)
    OBVIOUS
  <2> DEFINE g == [k \in 0 .. (n + 1) |-> IF k = n + 1 THEN f[n] + t[n + 1] ELSE f[k]]
  <2>2. \A k \in 0 .. n : g[k] = f[k]
    OBVIOUS
  <2>3. \A k \in 0 .. (n + 1) : g[k] = IF k = 0 THEN 0 ELSE g[k - 1] + t[k]
    <3> TAKE k \in 0 .. (n + 1)
    <3>1. CASE k = n + 1
      <4>1. g[k - 1] = f[n] /\ k # 0
        BY <3>1
      <4>. QED  BY <4>1, <3>1
    <3>2. CASE k # n + 1
      <4>1. k \in 0 .. n
        BY <3>2
      <4>2. g[k] = f[k]
        BY <4>1, <2>2
      <4>3. k # 0 => g[k - 1] = f[k - 1]
        BY <4>1
      <4>4. f[k] = IF k = 0 THEN 0 ELSE f[k - 1] + t[k]
        BY <4>1, <2>1
      <4>. QED  BY <4>2, <4>3, <4>4
    <3>. QED  BY <3>1, <3>2
  <2>4. Def(g, n + 1)
    BY <2>3
  <2> HIDE DEF g, Def
  <2>5. n + 1 \in Nat
    OBVIOUS
  <2>. QED  BY <2>4, <2>5
<1>3. Len(t) \in T
  <2> HIDE DEF T
  <2>1. T \in SUBSET Nat
    BY DEF T
  <2>. QED  BY <1>1, <1>2, <2>1, NatInd
<1>4. \E f : Def(f, Len(t))
  BY <1>3
<1>. QED  BY <1>4 DEF Sums

LEMMA SumsFacts ==
  ASSUME NEW t \in Seq(Nat)
  PROVE  /\ \A k \in 0 .. Len(t) : Sums(t)[k] \in Nat
         /\ Sums(t)[0] = 0
         /\ \A k \in 1 .. Len(t) : Sums(t)[k] = Sums(t)[k - 1] + t[k]
         /\ \A k \in 0 .. Len(t) : \A n \in 0 .. Len(t) : k <= n => Sums(t)[k] <= Sums(t)[n]
<1> DEFINE l == Len(t)
           F == Sums(t)
<1>1. l \in Nat /\ \A k \in 1 .. l : t[k] \in Nat
  OBVIOUS
<1>2. \A k \in 0 .. l : F[k] = IF k = 0 THEN 0 ELSE F[k - 1] + t[k]
  BY <1>1, SumsUnfold
<1> HIDE DEF l, F
<1>3. F[0] = 0
  BY <1>1, <1>2
<1>4. \A k \in 1 .. l : F[k] = F[k - 1] + t[k]
  BY <1>1, <1>2
<1> DEFINE T == {n \in Nat : n <= l => F[n] \in Nat /\ \A k \in 0 .. n : F[k] \in Nat /\ F[k] <= F[n]}
<1>5. 0 \in T
  BY <1>3
<1>6. ASSUME NEW n \in T PROVE n + 1 \in T
  <2> SUFFICES ASSUME n + 1 <= l
               PROVE  F[n + 1] \in Nat /\ \A k \in 0 .. (n + 1) : F[k] \in Nat /\ F[k] <= F[n + 1]
    OBVIOUS
  <2>1. n \in Nat /\ n <= l /\ n + 1 \in 1 .. l /\ (n + 1) - 1 = n
    BY <1>1
  <2>2. F[n] \in Nat /\ \A k \in 0 .. n : F[k] \in Nat /\ F[k] <= F[n]
    BY <2>1
  <2>3. F[n + 1] = F[n] + t[n + 1] /\ t[n + 1] \in Nat
    BY <1>1, <1>4, <2>1
  <2>4. \A k \in 0 .. (n + 1) : k = n + 1 \/ k \in 0 .. n
    BY <2>1
  <2>. QED  BY <2>2, <2>3, <2>4
<1>7. T = Nat
  <2> HIDE DEF T
  <2>1. T \in SUBSET Nat
    BY DEF T
  <2>. QED  BY <1>5, <1>6, <2>1, NatInd
<1>8. \A n \in 0 .. l : F[n] \in Nat /\ \A k \in 0 .. n : F[k] <= F[n]
  BY <1>1, <1>7
<1>9. \A k \in 0 .. l : \A n \in 0 .. l : k <= n => k \in 0 .. n
  BY <1>1
<1>10. \A k \in 0 .. l : \A n \in 0 .. l : k <= n => F[k] <= F[n]
  BY <1>8, <1>9
<1>. QED  BY <1>3, <1>4, <1>8, <1>10 DEF l, F

LEMMA JoinExists ==
  ASSUME NEW v, Len(v) \in Nat
  PROVE  \E f : f = [k \in 0 .. Len(v) |-> IF k = 0 THEN <<>> ELSE f[k - 1] \o v[k]]
<1> DEFINE Def(f, n) == f = [k \in 0 .. n |-> IF k = 0 THEN <<>> ELSE f[k - 1] \o v[k]]
           T == {n \in Nat : \E f : Def(f, n)}
<1>1. 0 \in T
  <2>1. Def([k \in 0 .. 0 |-> <<>>], 0)
    OBVIOUS
  <2>. QED  BY <2>1
<1>2. ASSUME NEW n \in T PROVE n + 1 \in T
  <2>1. PICK f : Def(f, n)
    OBVIOUS
  <2> DEFINE g == [k \in 0 .. (n + 1) |-> IF k = n + 1 THEN f[n] \o v[n + 1] ELSE f[k]]
  <2>2. \A k \in 0 .. n : g[k] = f[k]
    OBVIOUS
  <2>3. \A k \in 0 .. (n + 1) : g[k] = IF k = 0 THEN <<>> ELSE g[k - 1] \o v[k]
    <3> TAKE k \in 0 .. (n + 1)
    <3>1. CASE k = n + 1
      <4>1. g[k - 1] = f[n] /\ k # 0
        BY <3>1
      <4>. QED  BY <4>1, <3>1
    <3>2. CASE k # n + 1
      <4>1. k \in 0 .. n
        BY <3>2
      <4>2. g[k] = f[k]
        BY <4>1, <2>2
      <4>3. k # 0 => g[k - 1] = f[k - 1]
        BY <4>1
      <4>4. f[k] = IF k = 0 THEN <<>> ELSE f[k - 1] \o v[k]
        BY <4>1, <2>1
      <4>. QED  BY <4>2, <4>3, <4>4
    <3>. QED  BY <3>1, <3>2
  <2>4. Def(g, n + 1)
    BY <2>3
  <2> HIDE DEF g, Def
  <2>5. n + 1 \in Nat
    OBVIOUS
  <2>. QED  BY <2>4, <2>5
<1>3. Len(v) \in T
  <2> HIDE DEF T
  <2>1. T \in SUBSET Nat
    BY DEF T
  <2>. QED  BY <1>1, <1>2, <2>1, NatInd
<1>. QED  BY <1>3
-----------------------------------------------------------------------------
(* The words a gate opens, counted.                                        *)
LEMMA KindOf ==
  ASSUME NEW g, NEW kind
  PROVE  /\ g.type \in MultGate /\ kind = "mult" => WordsOf(g, kind) = Takes(g)
         /\ g.type \in AndGate /\ kind = "and" => WordsOf(g, kind) = Takes(g) /\ Takes(g) = 2
         /\ g.type \in ShuffleGate /\ kind = "shuffle" =>
              WordsOf(g, kind) = Takes(g) /\ Takes(g) = Len(g.in1)
         /\ g.type = "Reveal" /\ kind = "reveal" =>
              WordsOf(g, kind) = Takes(g) /\ Takes(g) = Len(g.in1)
<1> DEFINE t == g.type
<1>1. t \in MultGate => t \in Interactive /\ Kind(g) = "mult"
  BY DEF MultGate, AndGate, ShuffleGate, Interactive, Kind
<1>2. t \in AndGate => t \in Interactive /\ Kind(g) = "and" /\ Takes(g) = 2
  BY DEF MultGate, AndGate, ShuffleGate, Interactive, Kind, Takes
<1>3. t \in ShuffleGate => t \in Interactive /\ Kind(g) = "shuffle" /\ Takes(g) = Len(g.in1)
  BY DEF MultGate, AndGate, ShuffleGate, Interactive, Kind, Takes
<1>4. t = "Reveal" => t \in Interactive /\ Kind(g) = "reveal" /\ Takes(g) = Len(g.in1)
  BY DEF MultGate, AndGate, ShuffleGate, Interactive, Kind, Takes
<1>. QED  BY <1>1, <1>2, <1>3, <1>4 DEF WordsOf

LEMMA OnLen ==
  ASSUME NEW w, NEW ins \in Seq(Nat)
  PROVE  /\ IsVec(On(w, ins)) /\ Len(On(w, ins)) = Len(ins) /\ Len(ins) \in Nat
         /\ DOMAIN On(w, ins) = 1 .. Len(ins)
         /\ \A j \in 1 .. Len(ins) : On(w, ins)[j] = w[ins[j]]
<1> DEFINE v == [j \in 1 .. Len(ins) |-> w[ins[j]]]
           S == {w[ins[j]] : j \in 1 .. Len(ins)}
<1>1. Len(ins) \in Nat /\ On(w, ins) = v
  BY DEF On
<1>2. \A j \in 1 .. Len(ins) : w[ins[j]] \in S
  OBVIOUS
<1> HIDE DEF S
<1>3. /\ v \in Seq(S) /\ Len(v) = Len(ins) /\ DOMAIN v = 1 .. Len(ins)
      /\ \A j \in 1 .. Len(ins) : v[j] = w[ins[j]]
  BY <1>1, <1>2
<1> HIDE DEF v
<1>. QED  BY <1>1, <1>3, VecOf

LEMMA FactorsLen ==
  ASSUME NEW p, NEW w, NEW g \in Gate, g.type \in MultGate
  PROVE  Len(Factors(p, g, w)) \in Nat /\ 2 * Len(Factors(p, g, w)) = Takes(g)
<1>1. g.in1 \in Seq(Nat) /\ Len(g.in1) \in Nat
  BY DEF Gate
<1>2. CASE g.type = "Mul"
  <2>1. Len(Factors(p, g, w)) = 1
    BY <1>2 DEF Factors
  <2>. QED  BY <1>2, <2>1 DEF Takes
<1>3. CASE g.type = "ConvertB2A"
  <2>1. Len(Factors(p, g, w)) = 1
    BY <1>3 DEF Factors
  <2>. QED  BY <1>3, <2>1 DEF Takes
<1>4. CASE g.type = "GenCompaction"
  <2> DEFINE x == On(w, g.in1)
  <2>1. DOMAIN x = 1 .. Len(g.in1)
    BY <1>1, OnLen
  <2>2. Factors(p, g, w) = [j \in DOMAIN x |-> <<x[j], Minus(OnesAfterZeros(p, x)[j],
                                                          ZerosSoFar(p, x)[j])>>]
    BY <1>4 DEF Factors
  <2> HIDE DEF x
  <2>3. Len(Factors(p, g, w)) = Len(g.in1)
    BY <1>1, <2>1, <2>2
  <2>4. Takes(g) = 2 * Len(g.in1)
    BY <1>4 DEF Takes, AndGate
  <2>. QED  BY <1>1, <2>3, <2>4
<1>. QED  BY <1>2, <1>3, <1>4 DEF MultGate

LEMMA FunVec ==
  ASSUME NEW n \in Nat, NEW s, s = [i \in 1 .. n |-> s[i]]
  PROVE  IsVec(s) /\ Len(s) = n
<1> DEFINE S == {s[i] : i \in 1 .. n}
<1>1. \A i \in 1 .. n : s[i] \in S
  OBVIOUS
<1> HIDE DEF S
<1>2. s \in Seq(S) /\ Len(s) = n
  BY <1>1
<1>. QED  BY <1>2, VecOf

LEMMA OpenedLen ==
  ASSUME NEW p, NEW g \in Gate, NEW d, NEW kind \in WordKind, NEW w
  PROVE  /\ IsVec(Opened(p, g, d, kind, w)) /\ Len(Opened(p, g, d, kind, w)) = WordsOf(g, kind)
         /\ WordsOf(g, kind) \in Nat
<1> DEFINE o == Opened(p, g, d, kind, w)
<1>1. g.in1 \in Seq(Nat) /\ Len(g.in1) \in Nat
  BY DEF Gate
<1>2. CASE g.type \in MultGate /\ kind = "mult"
  <2> DEFINE f == Factors(p, g, w)
             n == 2 * Len(f)
             v == [i \in 1 .. n |-> LET j == (i + 1) \div 2 IN
                    IF i % 2 = 1 THEN Plus(d.a[j], f[j][1]) ELSE Plus(d.b[j], f[j][2])]
  <2>1. o = v
    BY <1>2 DEF Opened
  <2>2. WordsOf(g, kind) = Takes(g)
    BY <1>2, KindOf
  <2>3. n \in Nat /\ n = Takes(g)
    BY <1>2, FactorsLen
  <2>4. v = [i \in 1 .. n |-> v[i]]
    OBVIOUS
  <2> HIDE DEF n, v
  <2>5. IsVec(v) /\ Len(v) = n
    BY <2>3, <2>4, FunVec
  <2>. QED  BY <2>1, <2>2, <2>3, <2>5
<1>3. CASE g.type \in AndGate /\ kind = "and"
  <2> DEFINE f == Factors(p, g, w)[1]
  <2>1. o = <<XorW(d.a[1], f[1]), XorW(d.b[1], f[2])>>
    BY <1>3 DEF Opened, MultGate, AndGate
  <2>2. WordsOf(g, kind) = 2
    BY <1>3, KindOf
  <2> HIDE DEF o, f
  <2>3. IsVec(o) /\ Len(o) = 2
    <3>1. Len(o) = 2 /\ o = [i \in 1 .. 2 |-> o[i]]
      BY <2>1
    <3>. QED  BY <3>1, FunVec
  <2>. QED  BY <2>2, <2>3 DEF o
<1>4. CASE g.type \in ShuffleGate /\ kind = "shuffle"
  <2> DEFINE x == On(w, g.in1)
  <2>1. o = Masked(p, g, d, w)
    BY <1>4 DEF Opened, MultGate, AndGate, ShuffleGate
  <2>2. WordsOf(g, kind) = Len(g.in1)
    BY <1>4, KindOf
  <2>3. Len(x) = Len(g.in1)
    BY <1>1, OnLen
  <2>4. o = [j \in 1 .. Len(x) |-> o[j]]
    <3>1. CASE g.reverse
      BY <2>1, <3>1 DEF Masked
    <3>2. CASE ~ g.reverse
      BY <2>1, <3>2 DEF Masked
    <3>. QED  BY <3>1, <3>2
  <2> HIDE DEF o, x
  <2>5. IsVec(o) /\ Len(o) = Len(g.in1)
    BY <1>1, <2>3, <2>4, FunVec
  <2>. QED  BY <1>1, <2>2, <2>5 DEF o
<1>5. CASE g.type = "Reveal" /\ kind = "reveal"
  <2>1. o = On(w, g.in1)
    BY <1>5 DEF Opened, MultGate, AndGate, ShuffleGate
  <2>2. WordsOf(g, kind) = Len(g.in1)
    BY <1>5, KindOf
  <2>. QED  BY <1>1, <2>1, <2>2, OnLen
<1>6. CASE /\ ~ (g.type \in MultGate /\ kind = "mult")
           /\ ~ (g.type \in AndGate /\ kind = "and")
           /\ ~ (g.type \in ShuffleGate /\ kind = "shuffle")
           /\ ~ (g.type = "Reveal" /\ kind = "reveal")
  <2>1. o = <<>>
    BY <1>6 DEF Opened
  <2>2. ~ (g.type \in Interactive /\ Kind(g) = kind)
    BY <1>6 DEF Interactive, Kind
  <2>. QED  BY <2>1, <2>2, VecEmpty DEF WordsOf
<1>. QED  BY <1>2, <1>3, <1>4, <1>5, <1>6

LEMMA WordsNat == ASSUME NEW g \in Gate, NEW kind \in WordKind PROVE WordsOf(g, kind) \in Nat
BY OpenedLen

LEMMA KindLenFacts ==
  ASSUME NEW gs \in Seq(Gate), NEW kind \in WordKind
  PROVE  /\ KindLen(gs, kind) \in Nat
         /\ \A k \in DOMAIN gs : WordsOf(gs[k], kind) <= KindLen(gs, kind)
<1> DEFINE t == [k \in 1 .. Len(gs) |-> WordsOf(gs[k], kind)]
           n == Len(gs)
<1>1. n \in Nat /\ DOMAIN gs = 1 .. n /\ \A k \in 1 .. n : gs[k] \in Gate
  OBVIOUS
<1>2. t \in Seq(Nat) /\ Len(t) = n /\ \A k \in 1 .. n : t[k] = WordsOf(gs[k], kind) /\ t[k] \in Nat
  <2>1. \A k \in 1 .. n : WordsOf(gs[k], kind) \in Nat
    BY <1>1, WordsNat
  <2>. QED  BY <1>1, <2>1
<1>3. KindLen(gs, kind) = Sums(t)[n]
  BY DEF KindLen
<1> HIDE DEF t
<1>4. /\ \A k \in 0 .. n : Sums(t)[k] \in Nat
      /\ \A k \in 1 .. n : Sums(t)[k] = Sums(t)[k - 1] + t[k]
      /\ \A k \in 0 .. n : Sums(t)[k] <= Sums(t)[n]
  <2>1. n \in 0 .. n
    BY <1>1
  <2>2. /\ \A k \in 0 .. Len(t) : Sums(t)[k] \in Nat
        /\ \A k \in 1 .. Len(t) : Sums(t)[k] = Sums(t)[k - 1] + t[k]
        /\ \A k \in 0 .. Len(t) : \A m \in 0 .. Len(t) : k <= m => Sums(t)[k] <= Sums(t)[m]
    BY <1>2, SumsFacts
  <2> HIDE DEF n
  <2>. QED  BY <1>1, <1>2, <2>1, <2>2
<1> HIDE DEF n
<1>5. ASSUME NEW k \in 1 .. n PROVE t[k] <= Sums(t)[n]
  <2>1. k \in 0 .. n /\ k - 1 \in 0 .. n /\ n \in 0 .. n
    BY <1>1
  <2>2. Sums(t)[k - 1] \in Nat /\ Sums(t)[k] \in Nat /\ Sums(t)[n] \in Nat
    BY <1>4, <2>1
  <2>3. Sums(t)[k] = Sums(t)[k - 1] + t[k] /\ Sums(t)[k] <= Sums(t)[n] /\ t[k] \in Nat
    BY <1>2, <1>4, <2>1
  <2>. QED  BY <2>2, <2>3
<1>6. Sums(t)[n] \in Nat
  BY <1>1, <1>4
<1>. QED  BY <1>1, <1>2, <1>3, <1>5, <1>6

(* The words of one kind, gate after gate.                                 *)
GroupIs(p, l, kind, w) ==
  /\ IsVec(Group(p, l, kind, w))
  /\ Len(Group(p, l, kind, w)) = KindLen(circ.levels[l], kind)
  /\ \A k \in 1 .. Len(circ.levels[l]) : \A i \in 1 .. WordsOf(circ.levels[l][k], kind) :
       Group(p, l, kind, w)[Start(circ.levels[l], kind, k) + i]
         = Opened(p, circ.levels[l][k], deal[p][l][k], kind, w)[i]

LEMMA GroupAt ==
  ASSUME NEW p, NEW l, NEW kind \in WordKind, NEW w, circ.levels[l] \in Seq(Gate)
  PROVE  GroupIs(p, l, kind, w)
<1> DEFINE gs == circ.levels[l]
           n == Len(gs)
           o(k) == Opened(p, gs[k], deal[p][l][k], kind, w)
           v == [k \in 1 .. n |-> o(k)]
           t == [k \in 1 .. n |-> WordsOf(gs[k], kind)]
           D(f) == f = [k \in 0 .. n |-> IF k = 0 THEN <<>> ELSE f[k - 1] \o o(k)]
           upto == CHOOSE f : D(f)
<1>1. n \in Nat /\ \A k \in 1 .. n : gs[k] \in Gate
  OBVIOUS
<1>2. Group(p, l, kind, w) = upto[n] /\ KindLen(gs, kind) = Sums(t)[n]
  BY DEF Group, KindLen
<1> HIDE DEF gs
<1>3. \A k \in 1 .. n : IsVec(o(k)) /\ Len(o(k)) = WordsOf(gs[k], kind) /\ WordsOf(gs[k], kind) \in Nat
  <2> TAKE k \in 1 .. n
  <2>1. gs[k] \in Gate
    BY <1>1
  <2>. QED  BY <2>1, OpenedLen
<1> HIDE DEF o
<1>4. Len(v) = n
  BY <1>1
<1>5. t \in Seq(Nat) /\ Len(t) = n /\ \A k \in 1 .. n : t[k] = WordsOf(gs[k], kind)
  BY <1>1, <1>3
<1>6. D(upto)
  <2>1. PICK f : f = [k \in 0 .. n |-> IF k = 0 THEN <<>> ELSE f[k - 1] \o v[k]]
    <3> HIDE DEF v
    <3>. QED  BY ZenonT(40), <1>1, <1>4, JoinExists
  <2>2. \A k \in 0 .. n : k # 0 => v[k] = o(k)
    BY <1>1
  <2> HIDE DEF v
  <2>3. f = [k \in 0 .. n |-> IF k = 0 THEN <<>> ELSE f[k - 1] \o o(k)]
    BY <2>1, <2>2
  <2>4. D(f)
    BY <2>3
  <2> HIDE DEF D
  <2>. QED  BY <2>4
<1> HIDE DEF upto, t, v
<1>7. upto[0] = <<>> /\ \A k \in 1 .. n : upto[k] = upto[k - 1] \o o(k)
  <2>1. \A k \in 0 .. n : upto[k] = IF k = 0 THEN <<>> ELSE upto[k - 1] \o o(k)
    BY <1>6
  <2>2. 0 \in 0 .. n /\ \A k \in 1 .. n : k \in 0 .. n /\ k # 0
    BY <1>1
  <2>. QED  BY <2>1, <2>2
<1> HIDE DEF D
<1>8. /\ Sums(t)[0] = 0
      /\ \A k \in 0 .. n : Sums(t)[k] \in Nat
      /\ \A k \in 1 .. n : Sums(t)[k] = Sums(t)[k - 1] + t[k]
  <2>1. /\ Sums(t)[0] = 0
        /\ \A k \in 0 .. Len(t) : Sums(t)[k] \in Nat
        /\ \A k \in 1 .. Len(t) : Sums(t)[k] = Sums(t)[k - 1] + t[k]
    BY <1>5, SumsFacts
  <2>. QED  BY <1>5, <2>1
<1> HIDE DEF n
<1>9. \A k, m \in 0 .. n : k <= m => Sums(t)[k] <= Sums(t)[m]
  BY <1>5, SumsFacts
<1> DEFINE Holds(k) == \A m \in 1 .. k : \A i \in 1 .. t[m] : upto[k][Sums(t)[m - 1] + i] = o(m)[i]
           T == {k \in Nat : k <= n => IsVec(upto[k]) /\ Len(upto[k]) = Sums(t)[k] /\ Holds(k)}
<1>10. 0 \in T
  BY <1>7, <1>8, VecEmpty
<1>11. ASSUME NEW k \in T PROVE k + 1 \in T
  <2> SUFFICES ASSUME k + 1 <= n
               PROVE  IsVec(upto[k + 1]) /\ Len(upto[k + 1]) = Sums(t)[k + 1] /\ Holds(k + 1)
    OBVIOUS
  <2>1. k + 1 \in 1 .. n /\ (k + 1) - 1 = k /\ IsVec(upto[k]) /\ Len(upto[k]) = Sums(t)[k] /\ Holds(k)
    BY <1>1
  <2>2. upto[k + 1] = upto[k] \o o(k + 1) /\ Sums(t)[k + 1] = Sums(t)[k] + t[k + 1]
    BY <1>7, <1>8, <2>1
  <2>3. IsVec(o(k + 1)) /\ Len(o(k + 1)) = t[k + 1]
    BY <1>3, <1>5, <2>1
  <2>4. /\ IsVec(upto[k + 1]) /\ Len(upto[k + 1]) = Sums(t)[k + 1]
        /\ \A i \in 1 .. Sums(t)[k] : upto[k + 1][i] = upto[k][i]
        /\ \A i \in 1 .. t[k + 1] : upto[k + 1][Sums(t)[k] + i] = o(k + 1)[i]
    <3> DEFINE a == upto[k]
               b == o(k + 1)
    <3>1. IsVec(a) /\ IsVec(b) /\ Len(a) = Sums(t)[k] /\ Len(b) = t[k + 1] /\ upto[k + 1] = a \o b
      BY <2>1, <2>2, <2>3
    <3> HIDE DEF a, b
    <3>2. /\ IsVec(a \o b) /\ Len(a \o b) = Len(a) + Len(b)
          /\ \A i \in 1 .. Len(a) : (a \o b)[i] = a[i]
          /\ \A i \in 1 .. Len(b) : (a \o b)[Len(a) + i] = b[i]
      <4>1. IsJoin(a \o b, a, b)
        BY <3>1, VecJoinAt
      <4>. QED  BY <4>1 DEF IsJoin
    <3>3. Sums(t)[k + 1] = Len(a \o b)
      BY <2>2, <3>1, <3>2
    <3>. QED  BY <3>1, <3>2, <3>3 DEF a, b
  <2>5. ASSUME NEW m \in 1 .. (k + 1), NEW i \in 1 .. t[m]
        PROVE  upto[k + 1][Sums(t)[m - 1] + i] = o(m)[i]
    <3>1. CASE m = k + 1
      BY <2>1, <2>4, <3>1
    <3>2. CASE m # k + 1
      <4>1. m \in 1 .. k /\ m \in 1 .. n /\ m - 1 \in 0 .. n /\ m \in 0 .. n /\ k \in 0 .. n
        BY <1>1, <2>1, <3>2
      <4>2. /\ Sums(t)[m - 1] \in Nat /\ Sums(t)[m] = Sums(t)[m - 1] + t[m]
            /\ Sums(t)[k] \in Nat
        BY <1>8, <4>1
      <4>4. t[m] \in Nat
        BY <1>3, <1>5, <4>1
      <4>5. Sums(t)[m] <= Sums(t)[k]
        <5>1. m <= k
          BY <4>1
        <5>. QED  BY <1>9, <4>1, <5>1
      <4>3. Sums(t)[m - 1] + i \in 1 .. Sums(t)[k]
        BY <4>2, <4>4, <4>5
      <4>. QED  BY <2>1, <2>4, <4>1, <4>3
    <3>. QED  BY <3>1, <3>2
  <2>. QED  BY <2>4, <2>5
<1>12. T = Nat
  <2> HIDE DEF T
  <2>1. T \in SUBSET Nat
    BY DEF T
  <2>. QED  BY <1>10, <1>11, <2>1, NatInd
<1>13. IsVec(upto[n]) /\ Len(upto[n]) = Sums(t)[n] /\ Holds(n)
  BY <1>1, <1>12
<1>14. \A k \in 1 .. n : Start(gs, kind, k) = Sums(t)[k - 1]
  BY DEF Start, t, gs, n
<1>15. \A k \in 1 .. n : \A i \in 1 .. WordsOf(gs[k], kind) :
         upto[n][Start(gs, kind, k) + i] = o(k)[i]
  <2> HIDE DEF T
  <2>. QED  BY SMTT(30), <1>5, <1>13, <1>14
<1>. QED  BY <1>2, <1>13, <1>15 DEF gs, n, o, GroupIs

LEMMA GroupLen ==
  ASSUME NEW p, NEW l, NEW kind \in WordKind, NEW w, circ.levels[l] \in Seq(Gate)
  PROVE  IsVec(Group(p, l, kind, w)) /\ Len(Group(p, l, kind, w)) = KindLen(circ.levels[l], kind)
<1>1. GroupIs(p, l, kind, w)
  BY GroupAt
<1>. QED  BY <1>1 DEF GroupIs

LEMMA LevelLenFacts ==
  ASSUME NEW gs \in Seq(Gate)
  PROVE  /\ LevelLen(gs) \in Nat
         /\ \A k \in DOMAIN gs :
              gs[k].type \in Interactive /\ gs[k].in1 # <<>> => LevelLen(gs) >= 1
<1>1. \A kind \in WordKind :
        KindLen(gs, kind) \in Nat /\ \A k \in DOMAIN gs : WordsOf(gs[k], kind) <= KindLen(gs, kind)
  BY KindLenFacts
<1>2. /\ KindLen(gs, "mult") \in Nat /\ KindLen(gs, "and") \in Nat
      /\ KindLen(gs, "shuffle") \in Nat /\ KindLen(gs, "reveal") \in Nat
  BY <1>1 DEF WordKind
<1>3. ASSUME NEW k \in DOMAIN gs, gs[k].type \in Interactive, gs[k].in1 # <<>>
      PROVE  \E kind \in WordKind : WordsOf(gs[k], kind) >= 1
  <2> DEFINE g == gs[k]
  <2>1. g \in Gate
    OBVIOUS
  <2> HIDE DEF g
  <2>2. Len(g.in1) \in Nat /\ Len(g.in1) >= 1
    <3>1. g.in1 \in Seq(Nat) /\ g.in1 # <<>>
      BY <2>1, <1>3 DEF Gate, g
    <3>. QED  BY <3>1
  <2>3. CASE g.type \in MultGate
    <3>1. Takes(g) >= 1
      BY <2>2, <2>3 DEF Takes, MultGate, AndGate
    <3>2. WordsOf(g, "mult") >= 1
      BY <2>3, <3>1, KindOf
    <3>. QED  BY <3>2 DEF WordKind, g
  <2>4. CASE g.type \in AndGate
    <3>1. WordsOf(g, "and") = 2
      BY <2>4, KindOf
    <3>. QED  BY <3>1 DEF WordKind, g
  <2>5. CASE g.type \in ShuffleGate
    <3>1. WordsOf(g, "shuffle") = Len(g.in1)
      BY <2>5, KindOf
    <3>. QED  BY <2>2, <3>1 DEF WordKind, g
  <2>6. CASE g.type = "Reveal"
    <3>1. WordsOf(g, "reveal") = Len(g.in1)
      BY <2>6, KindOf
    <3>. QED  BY <2>2, <3>1 DEF WordKind, g
  <2>. QED  BY <1>3, <2>3, <2>4, <2>5, <2>6 DEF Interactive, g
<1>4. ASSUME NEW k \in DOMAIN gs, gs[k].type \in Interactive, gs[k].in1 # <<>>
      PROVE  LevelLen(gs) >= 1
  <2>1. PICK kind \in WordKind : WordsOf(gs[k], kind) >= 1
    BY <1>3, <1>4
  <2>2. gs[k] \in Gate
    OBVIOUS
  <2>3. WordsOf(gs[k], kind) \in Nat
    BY <2>2, WordsNat
  <2>4. KindLen(gs, kind) >= 1
    BY <1>1, <2>1, <2>3
  <2>. QED  BY <1>2, <2>4 DEF LevelLen, WordKind
<1>. QED  BY <1>2, <1>4 DEF LevelLen

(* What the proofs need of a circuit: how many words come before a level.  *)
LEMMA BeforeFacts ==
  ASSUME NEW c \in Circuits
  PROVE  /\ Len(c.levels) \in Nat /\ Len(c.outputs) \in Nat /\ EndStage(c) = Len(c.levels) + 1
         /\ \A l \in 1 .. Len(c.levels) : c.levels[l] \in Seq(Gate) /\ LevelLen(c.levels[l]) \in Nat
         /\ \A l \in 2 .. Len(c.levels) : LevelLen(c.levels[l]) >= 1
         /\ \A l \in 1 .. EndStage(c) : Before(c, l) \in Nat
         /\ \A l \in 1 .. Len(c.levels) : Before(c, l + 1) = Before(c, l) + LevelLen(c.levels[l])
         /\ \A l \in 1 .. EndStage(c) : \A m \in 1 .. EndStage(c) :
              l <= m => Before(c, l) <= Before(c, m)
<1> DEFINE n == Len(c.levels)
           t == Lens(c)
<1>1. c.levels \in Seq(Seq(Gate)) /\ c.outputs \in Seq(Nat) /\ NoIdleLevel(c.levels)
  BY CircuitAssumption
<1>2. n \in Nat /\ Len(c.outputs) \in Nat /\ EndStage(c) = n + 1
      /\ \A l \in 1 .. n : c.levels[l] \in Seq(Gate)
  BY <1>1 DEF EndStage
<1>3. \A l \in 1 .. n : LevelLen(c.levels[l]) \in Nat
  BY <1>2, LevelLenFacts
<1>4. \A l \in 2 .. n : LevelLen(c.levels[l]) >= 1
  <2> TAKE l \in 2 .. n
  <2>1. c.levels[l] \in Seq(Gate)
    BY <1>2
  <2>2. PICK k \in DOMAIN c.levels[l] : /\ c.levels[l][k].type \in Interactive \cup {"Mul3", "Mul4"}
                                        /\ c.levels[l][k].in1 # <<>>
    BY <1>1 DEF NoIdleLevel
  <2>3. c.levels[l][k] \in Gate
    BY <2>1
  <2>4. c.levels[l][k].type \in Interactive
    <3>1. c.levels[l][k].type \in Interactive \cup LocalGate \cup InputGate
      BY <2>3 DEF Gate
    <3>2. "Mul3" \notin LocalGate \cup InputGate /\ "Mul4" \notin LocalGate \cup InputGate
      BY DEF LocalGate, InputGate
    <3>. QED  BY <2>2, <3>1, <3>2
  <2>. QED  BY <2>1, <2>2, <2>4, LevelLenFacts
<1>5. t \in Seq(Nat) /\ Len(t) = n /\ \A l \in 1 .. n : t[l] = LevelLen(c.levels[l])
  BY <1>2, <1>3 DEF Lens
<1> HIDE DEF t
<1>6. /\ \A k \in 0 .. n : Sums(t)[k] \in Nat
      /\ \A k \in 1 .. n : Sums(t)[k] = Sums(t)[k - 1] + t[k]
      /\ \A k \in 0 .. n : \A m \in 0 .. n : k <= m => Sums(t)[k] <= Sums(t)[m]
  <2>1. /\ \A k \in 0 .. Len(t) : Sums(t)[k] \in Nat
        /\ \A k \in 1 .. Len(t) : Sums(t)[k] = Sums(t)[k - 1] + t[k]
        /\ \A k \in 0 .. Len(t) : \A m \in 0 .. Len(t) : k <= m => Sums(t)[k] <= Sums(t)[m]
    BY <1>5, SumsFacts
  <2>. QED  BY <1>5, <2>1
<1>7. \A l : Before(c, l) = Sums(t)[l - 1]
  BY DEF Before, t
<1> HIDE DEF n
<1>8. \A l \in 1 .. (n + 1) : l - 1 \in 0 .. n
  BY <1>2
<1>9. \A l \in 1 .. (n + 1) : Before(c, l) \in Nat
  BY <1>6, <1>7, <1>8
<1>10. \A l \in 1 .. n : Before(c, l + 1) = Before(c, l) + LevelLen(c.levels[l])
  <2> TAKE l \in 1 .. n
  <2>1. (l + 1) - 1 = l
    BY <1>2
  <2>2. Before(c, l + 1) = Sums(t)[l] /\ Before(c, l) = Sums(t)[l - 1]
    BY <1>7, <2>1
  <2>. QED  BY <1>5, <1>6, <2>2
<1>11. \A l \in 1 .. (n + 1) : \A m \in 1 .. (n + 1) : l <= m => Before(c, l) <= Before(c, m)
  <2>1. ASSUME NEW l \in 1 .. (n + 1), NEW m \in 1 .. (n + 1), l <= m
        PROVE  Before(c, l) <= Before(c, m)
    <3>1. l - 1 \in 0 .. n /\ m - 1 \in 0 .. n /\ l - 1 <= m - 1
      BY <1>2, <2>1
    <3>. QED  BY <1>6, <1>7, <3>1
  <2>. QED  BY <2>1
<1>. QED  BY <1>2, <1>3, <1>4, <1>9, <1>10, <1>11 DEF n
-----------------------------------------------------------------------------
(* What a party has sent is between what it has read and the end, at most  *)
(* one segment or the outputs ahead of what it has read.                   *)
LEMMA SentRead ==
  ASSUME NEW c \in Circuits, NEW ph, NEW l, NEW r, NEW m, InLevel(c, ph, l, r, m)
  PROVE  /\ Len(r) \in Nat /\ Sent(c, ph, l, Len(r)) \in Nat /\ Read(c, ph, l, Len(r)) \in Nat
         /\ Before(c, l) <= Read(c, ph, l, Len(r))
         /\ Read(c, ph, l, Len(r)) <= Sent(c, ph, l, Len(r))
         /\ ph # "outputs" => Sent(c, ph, l, Len(r)) <= Read(c, ph, l, Len(r)) + Segment
         /\ ph \notin {"outputs", "done"} => Sent(c, ph, l, Len(r)) <= Before(c, EndStage(c))
         /\ l <= Len(c.levels) => Sent(c, ph, l, Len(r)) <= Before(c, l + 1)
         /\ Sent(c, ph, l, Len(r)) <= Before(c, EndStage(c)) + Len(c.outputs)
         /\ ph = "recv" =>
              /\ Sent(c, ph, l, Len(r)) = Read(c, ph, l, Len(r)) + SegmentOf(Len(r), Len(AllOpened(m)))
              /\ SegmentOf(Len(r), Len(AllOpened(m))) \in 0 .. Segment
         /\ ph = "outputs" =>
              Sent(c, ph, l, Len(r)) = Read(c, ph, l, Len(r)) + Len(c.outputs)
<1> DEFINE n == Len(c.levels)
           t == LevelLen(c.levels[l])
           b == Before(c, l)
           x == Len(r)
           e == Before(c, EndStage(c))
<1>1. /\ n \in Nat /\ Len(c.outputs) \in Nat /\ EndStage(c) = n + 1
      /\ \A i \in 1 .. (n + 1) : Before(c, i) \in Nat /\ Before(c, i) <= e
      /\ \A i \in 1 .. n : Before(c, i + 1) = Before(c, i) + LevelLen(c.levels[i])
      /\ \A i \in 1 .. n : LevelLen(c.levels[i]) \in Nat
  <2>1. EndStage(c) = n + 1 /\ n \in Nat
    BY BeforeFacts
  <2>2. EndStage(c) \in 1 .. EndStage(c)
    BY <2>1
  <2>3. /\ \A i \in 1 .. EndStage(c) : Before(c, i) \in Nat /\ Before(c, i) <= e
        /\ \A i \in 1 .. n : Before(c, i + 1) = Before(c, i) + LevelLen(c.levels[i])
        /\ \A i \in 1 .. n : LevelLen(c.levels[i]) \in Nat
    <3>1. \A i \in 1 .. EndStage(c) : i <= EndStage(c)
      BY <2>1
    <3>. QED  BY <2>2, <3>1, BeforeFacts
  <2>4. Len(c.outputs) \in Nat
    BY BeforeFacts
  <2> HIDE DEF e, n
  <2>. QED  BY <2>1, <2>3, <2>4
<1>2. /\ ph \in Phase /\ l \in 1 .. (n + 1) /\ x \in Nat
      /\ ph \in {"outputs", "done"} => l = n + 1
      /\ ph \in {"send", "recv", "finish"} =>
           l <= n /\ Len(AllOpened(m)) = t /\ x <= t
  BY <1>1, VecLen DEF InLevel
<1>3. b \in Nat /\ e \in Nat /\ b <= e /\ (l = n + 1 => b = e)
  BY <1>1, <1>2
<1>4. l <= n => /\ Before(c, l + 1) = b + t /\ t \in Nat /\ Before(c, l + 1) <= e
  <2>1. l <= n => l \in 1 .. n /\ l + 1 \in 1 .. (n + 1)
    BY <1>1, <1>2
  <2>. QED  BY <1>1, <2>1
<1>5. Segment \in Nat /\ Segment >= 1
  BY SegmentAssumption
<1> DEFINE s == Sent(c, ph, l, x)
           d == Read(c, ph, l, x)
<1>6. CASE ph \in {"inputs", "begin"}
  <2>1. s = b + 0 /\ d = b + 0
    BY <1>6 DEF Sent, Read
  <2> HIDE DEF n, t, b, x, e, s, d
  <2>2. s = b /\ d = b
    BY <1>3, <2>1
  <2>3. l <= n => b <= Before(c, l + 1)
    BY <1>3, <1>4
  <2>. QED  BY <1>1, <1>2, <1>3, <1>5, <1>6, <2>2, <2>3 DEF n, b, x, e, s, d
<1>7. CASE ph \in {"send", "finish"}
  <2>1. s = b + x /\ d = b + x
    BY <1>7 DEF Sent, Read
  <2> HIDE DEF n, t, b, x, e, s, d
  <2>2. l <= n /\ x <= t /\ t \in Nat /\ Before(c, l + 1) = b + t /\ Before(c, l + 1) <= e
    BY <1>2, <1>4, <1>7
  <2>3. /\ s \in Nat /\ d \in Nat /\ b <= d /\ d <= s /\ s <= d + Segment /\ s <= e
        /\ s <= Before(c, l + 1) /\ s <= e + Len(c.outputs)
    BY <1>1, <1>2, <1>3, <1>5, <2>1, <2>2
  <2>. QED  BY <1>2, <1>7, <2>3 DEF n, b, x, e, s, d
<1>8. CASE ph = "recv"
  <2> DEFINE g == SegmentOf(x, t)
  <2>1. s = b + (x + g) /\ d = b + x
    BY <1>8 DEF Sent, Read
  <2>2. g = SegmentOf(x, Len(AllOpened(m)))
    BY <1>2, <1>8
  <2> HIDE DEF n, t, b, x, e, s, d
  <2>3. l <= n /\ x <= t /\ t \in Nat /\ Before(c, l + 1) = b + t /\ Before(c, l + 1) <= e
    BY <1>2, <1>4, <1>8
  <2>4. g \in 0 .. Segment /\ x + g <= t
    BY <1>2, <1>5, <2>3 DEF SegmentOf
  <2> HIDE DEF g
  <2>5. /\ s \in Nat /\ d \in Nat /\ b <= d /\ d <= s /\ s <= d + Segment /\ s <= e
        /\ s <= Before(c, l + 1) /\ s <= e + Len(c.outputs) /\ s = d + g
    BY <1>1, <1>2, <1>3, <1>5, <2>1, <2>3, <2>4
  <2>. QED  BY <1>2, <1>8, <2>2, <2>4, <2>5 DEF n, b, x, e, s, d
<1>9. CASE ph = "outputs"
  <2>1. s = b + Len(c.outputs) /\ d = b + 0
    BY <1>9 DEF Sent, Read
  <2> HIDE DEF n, t, b, x, e, s, d
  <2>2. l = n + 1 /\ ~ (l <= n) /\ b = e
    BY <1>1, <1>2, <1>3, <1>9
  <2>3. /\ s \in Nat /\ d \in Nat /\ b <= d /\ d <= s
        /\ s <= e + Len(c.outputs) /\ s = d + Len(c.outputs)
    BY <1>1, <1>3, <2>1, <2>2
  <2>. QED  BY <1>2, <1>9, <2>2, <2>3 DEF n, b, x, e, s, d
<1>10. CASE ph = "done"
  <2>1. s = b + Len(c.outputs) /\ d = b + Len(c.outputs)
    BY <1>10 DEF Sent, Read
  <2> HIDE DEF n, t, b, x, e, s, d
  <2>2. l = n + 1 /\ ~ (l <= n) /\ b = e
    BY <1>1, <1>2, <1>3, <1>10
  <2>3. /\ s \in Nat /\ d \in Nat /\ b <= d /\ d <= s /\ s <= d + Segment
        /\ s <= e + Len(c.outputs)
    BY <1>1, <1>3, <1>5, <2>1, <2>2
  <2>. QED  BY <1>2, <1>10, <2>2, <2>3 DEF n, b, x, e, s, d
<1>. QED  BY <1>2, <1>6, <1>7, <1>8, <1>9, <1>10 DEF Phase
-----------------------------------------------------------------------------
(* The invariant gives the properties.                                     *)
LEMMA Others == \A p \in Online : Other(p) \in Online /\ Other(Other(p)) = p /\ Other(p) # p
BY DEF Online, Other

SentBy(p) == Sent(circ, pc[p], level[p], Len(recv[p]))
ReadBy(p) == Read(circ, pc[p], level[p], Len(recv[p]))

(* The counts of both parties, in one place.                               *)
LEMMA Counts ==
  ASSUME ExchangeInv, NEW p \in Online
  PROVE  /\ circ \in Circuits /\ Len(chan[p]) \in Nat
         /\ SentBy(p) \in Nat /\ ReadBy(p) \in Nat
         /\ Len(chan[p]) = SentBy(Other(p)) - ReadBy(p)
         /\ ReadBy(p) <= SentBy(Other(p))
         /\ InLevel(circ, pc[p], level[p], recv[p], mine[p])
<1>1. /\ circ \in Circuits
      /\ \A q \in Online : IsVec(chan[q]) /\ InLevel(circ, pc[q], level[q], recv[q], mine[q])
      /\ \A q \in Online : Len(chan[q]) = SentBy(Other(q)) - ReadBy(q)
  BY DEF ExchangeInv, ShapeInv, CountInv, SentBy, ReadBy
<1>2. \A q \in Online : SentBy(q) \in Nat /\ ReadBy(q) \in Nat
  BY <1>1, SentRead DEF SentBy, ReadBy
<1>3. Len(chan[p]) \in Nat
  BY <1>1, VecLen
<1>4. SentBy(Other(p)) \in Nat
  BY <1>2, Others
<1>. QED  BY <1>1, <1>2, <1>3, <1>4

LEMMA NearLevels ==
  ASSUME ExchangeInv, NEW p \in Online
  PROVE  level[Other(p)] <= level[p] + 1
<1> DEFINE q == Other(p)
           n == Len(circ.levels)
<1> SUFFICES ASSUME level[q] > level[p] + 1 PROVE FALSE
  <2>1. level[q] \in Int /\ level[p] \in Int
    <3>1. q \in Online /\ circ \in Circuits
      BY Others, Counts
    <3>2. EndStage(circ) \in Nat
      BY <3>1, BeforeFacts
    <3>. QED  BY <3>1, <3>2, Counts DEF InLevel
  <2>. QED  BY <2>1
<1>1. q \in Online /\ Other(q) = p /\ circ \in Circuits
  BY Others, Counts
<1>2. n \in Nat /\ EndStage(circ) = n + 1
  BY <1>1, BeforeFacts
<1>3. level[p] \in 1 .. (n + 1) /\ level[q] \in 1 .. (n + 1)
  BY <1>1, <1>2, Counts DEF InLevel
<1>4. /\ level[p] <= n /\ level[p] + 1 \in 2 .. n /\ level[p] + 1 \in 1 .. n
      /\ level[p] + 2 \in 1 .. (n + 1) /\ level[p] + 2 <= level[q]
      /\ (level[p] + 1) + 1 = level[p] + 2
  BY SMTT(30), <1>2, <1>3
<1>5. SentBy(p) <= Before(circ, level[p] + 1)
  BY <1>1, <1>4, Counts, SentRead DEF SentBy
<1>6. Before(circ, level[q]) <= ReadBy(q)
  BY <1>1, Counts, SentRead DEF ReadBy
<1>7. ReadBy(q) <= SentBy(p)
  BY <1>1, Counts
<1>8. /\ Before(circ, level[p] + 2) = Before(circ, level[p] + 1) + LevelLen(circ.levels[level[p] + 1])
      /\ LevelLen(circ.levels[level[p] + 1]) >= 1 /\ LevelLen(circ.levels[level[p] + 1]) \in Nat
  <2>1. Before(circ, (level[p] + 1) + 1)
          = Before(circ, level[p] + 1) + LevelLen(circ.levels[level[p] + 1])
    BY <1>1, <1>4, BeforeFacts
  <2>. QED  BY <1>1, <1>4, <2>1, BeforeFacts
<1>9. Before(circ, level[p] + 2) <= Before(circ, level[q])
  BY <1>1, <1>2, <1>3, <1>4, BeforeFacts
<1>10. /\ Before(circ, level[p] + 1) \in Nat /\ Before(circ, level[p] + 2) \in Nat
       /\ Before(circ, level[q]) \in Nat
  <2>1. \A l \in 1 .. (n + 1) : Before(circ, l) \in Nat
    BY <1>1, <1>2, BeforeFacts
  <2>2. level[p] + 1 \in 1 .. (n + 1)
    BY <1>2, <1>4
  <2>. QED  BY <1>3, <1>4, <2>1, <2>2
<1>11. SentBy(p) \in Nat /\ ReadBy(q) \in Nat
  BY <1>1, Counts
<1> HIDE DEF q, n
<1>. QED  BY <1>5, <1>6, <1>7, <1>8, <1>9, <1>10, <1>11

LEMMA StaysInStep == ASSUME ExchangeInv PROVE ExchangeInStep
<1>1. circ \in Circuits /\ chan = [p \in Online |-> chan[p]] /\ 1 \in Online /\ 2 \in Online
  BY DEF ExchangeInv, ShapeInv, Online
<1>2. Segment \in Nat
  BY SegmentAssumption
<1>3. EndStage(circ) \in Nat /\ EndStage(circ) \in 1 .. EndStage(circ)
      /\ Before(circ, EndStage(circ)) \in Nat
  <2>1. EndStage(circ) \in Nat /\ EndStage(circ) >= 1
    BY <1>1, BeforeFacts
  <2>2. EndStage(circ) \in 1 .. EndStage(circ)
    BY <2>1
  <2>. QED  BY <1>1, <2>1, <2>2, BeforeFacts
<1>4. \A p \in Online : level[p] \in 1 .. EndStage(circ)
  BY Counts DEF InLevel
<1>5. level[1] - level[2] \in -1 .. 1
  <2>1. level[1] <= level[2] + 1 /\ level[2] <= level[1] + 1
    <3>1. Other(1) = 2 /\ Other(2) = 1
      BY DEF Other
    <3>. QED  BY <1>1, <3>1, NearLevels
  <2>2. level[1] \in Int /\ level[2] \in Int
    BY <1>1, <1>3, <1>4
  <2>. QED  BY <2>1, <2>2
<1>6. ASSUME NEW p \in Online, pc[Other(p)] \notin {"outputs", "done"}
      PROVE  Len(chan[p]) <= 2 * Segment
  <2> DEFINE q == Other(p)
  <2>1. q \in Online /\ Other(q) = p
    BY Others
  <2>2. /\ SentBy(p) \in Nat /\ ReadBy(p) \in Nat /\ SentBy(q) \in Nat /\ ReadBy(q) \in Nat
        /\ Len(chan[p]) = SentBy(q) - ReadBy(p) /\ ReadBy(q) <= SentBy(p)
    BY <2>1, Counts
  <2>3. SentBy(q) <= ReadBy(q) + Segment /\ SentBy(q) <= Before(circ, EndStage(circ))
    BY <1>1, <1>6, <2>1, Counts, SentRead DEF SentBy, ReadBy
  <2>4. CASE pc[p] = "outputs"
    <3>1. level[p] = EndStage(circ) /\ Before(circ, level[p]) <= ReadBy(p)
      BY <1>1, <2>4, Counts, SentRead DEF InLevel, ReadBy
    <3> HIDE DEF q
    <3>. QED  BY <1>2, <1>3, <2>2, <2>3, <3>1
  <2>5. CASE pc[p] # "outputs"
    <3>1. SentBy(p) <= ReadBy(p) + Segment
      BY <1>1, <2>5, Counts, SentRead DEF SentBy, ReadBy
    <3> HIDE DEF q
    <3>. QED  BY <1>2, <2>2, <2>3, <3>1
  <2>. QED  BY <2>4, <2>5
<1>7. ASSUME NEW p \in Online, SentBy(Other(p)) = ReadBy(p)
      PROVE  chan[p] = <<>>
  <2>1. Len(chan[p]) = 0
    BY <1>7, Counts
  <2>2. IsVec(chan[p])
    BY DEF ExchangeInv, ShapeInv
  <2>. QED  BY <2>1, <2>2, VecNone
<1>8. ASSUME level[1] = level[2], pc = [p \in Online |-> "begin"]
      PROVE  chan = [p \in Online |-> <<>>]
  <2>1. ASSUME NEW p \in Online PROVE chan[p] = <<>>
    <3>1. Other(p) \in Online /\ pc[p] = "begin" /\ pc[Other(p)] = "begin" /\ level[Other(p)] = level[p]
      BY <1>8 DEF Online, Other
    <3>2. SentBy(Other(p)) = Before(circ, level[p]) + 0 /\ ReadBy(p) = Before(circ, level[p]) + 0
      BY <3>1 DEF SentBy, ReadBy, Sent, Read
    <3>. QED  BY <1>7, <3>2
  <2>. QED  BY <1>1, <2>1
<1>9. ASSUME pc = [p \in Online |-> "done"]
      PROVE  chan = [p \in Online |-> <<>>]
  <2>1. ASSUME NEW p \in Online PROVE chan[p] = <<>>
    <3>1. Other(p) \in Online /\ pc[p] = "done" /\ pc[Other(p)] = "done"
      BY <1>9 DEF Online, Other
    <3>2. level[p] = EndStage(circ) /\ level[Other(p)] = EndStage(circ)
      BY <3>1, Counts DEF InLevel
    <3>3. /\ SentBy(Other(p)) = Before(circ, EndStage(circ)) + Len(circ.outputs)
          /\ ReadBy(p) = Before(circ, EndStage(circ)) + Len(circ.outputs)
      BY <3>1, <3>2 DEF SentBy, ReadBy, Sent, Read
    <3>. QED  BY <1>7, <3>3
  <2>. QED  BY <1>1, <2>1
<1>. QED  BY <1>5, <1>6, <1>8, <1>9 DEF ExchangeInStep

LEMMA SomeoneMoves == ASSUME ExchangeInv PROVE OneCanGoOn
<1> SUFFICES ASSUME NEW p \in Online, Waits(p)
             PROVE  ~ Waits(Other(p)) /\ pc[Other(p)] # "done"
  BY DEF OneCanGoOn
<1> DEFINE q == Other(p)
(* A party waits when the other has sent less than it has.                 *)
<1>1. ASSUME NEW s \in Online, Waits(s) PROVE SentBy(Other(s)) < SentBy(s)
  <2>1. /\ circ \in Circuits /\ InLevel(circ, pc[s], level[s], recv[s], mine[s])
        /\ SentBy(s) \in Nat /\ ReadBy(s) \in Nat /\ SentBy(Other(s)) \in Nat
        /\ Len(chan[s]) = SentBy(Other(s)) - ReadBy(s)
    BY Counts, Others
  <2>2. CASE pc[s] = "recv" /\ Len(chan[s]) < SegmentSize(s)
    <3>1. SegmentSize(s) = SegmentOf(Len(recv[s]), Len(AllOpened(mine[s])))
      BY DEF SegmentSize, SegmentOf, Total_comm
    <3>2. SentBy(s) = ReadBy(s) + SegmentSize(s) /\ SegmentSize(s) \in 0 .. Segment
      BY <2>1, <2>2, <3>1, SentRead DEF SentBy, ReadBy
    <3>3. SegmentSize(s) \in Nat
      BY <3>2, SegmentAssumption
    <3>. QED  BY <2>1, <2>2, <3>2, <3>3
  <2>3. CASE pc[s] = "outputs" /\ Len(chan[s]) < Len(circ.outputs)
    <3>1. SentBy(s) = ReadBy(s) + Len(circ.outputs) /\ Len(circ.outputs) \in Nat
      BY <2>1, <2>3, SentRead, BeforeFacts DEF SentBy, ReadBy
    <3>. QED  BY <2>1, <2>3, <3>1
  <2>. QED  BY <1>1, <2>2, <2>3 DEF Waits
<1>2. q \in Online /\ Other(q) = p /\ SentBy(p) \in Nat /\ SentBy(q) \in Nat /\ SentBy(q) < SentBy(p)
  BY <1>1, Counts, Others
<1>3. ~ Waits(q)
  <2> HIDE DEF q
  <2>. QED  BY <1>1, <1>2
<1>4. ASSUME pc[q] = "done" PROVE FALSE
  <2>1. circ \in Circuits /\ level[q] = EndStage(circ)
    BY <1>2, <1>4, Counts DEF InLevel
  <2>2. SentBy(q) = Before(circ, EndStage(circ)) + Len(circ.outputs)
    BY <1>4, <2>1 DEF SentBy, Sent
  <2>3. SentBy(p) <= Before(circ, EndStage(circ)) + Len(circ.outputs)
    BY <2>1, Counts, SentRead DEF SentBy
  <2> HIDE DEF q
  <2>. QED  BY <1>2, <2>2, <2>3
<1>. QED  BY <1>3, <1>4
-----------------------------------------------------------------------------
(* The invariant is kept.  A step of party p sends `sent' words, takes     *)
(* `taken', and changes nothing of the other party but its channel.        *)
OnlyAt(p, f, g) == \A q \in Online : q # p => g[q] = f[q]

LEMMA Moves ==
  ASSUME ExchangeInv, NEW p \in Online, NEW sent \in Nat, NEW taken \in Nat,
         circ' = circ,
         DOMAIN pc' = Online, DOMAIN level' = Online, DOMAIN mine' = Online,
         DOMAIN recv' = Online, chan' = [q \in Online |-> chan'[q]],
         OnlyAt(p, pc, pc'), OnlyAt(p, level, level'),
         OnlyAt(p, recv, recv'), OnlyAt(p, mine, mine'),
         InLevel(circ, pc'[p], level'[p], recv'[p], mine'[p]),
         IsVec(chan'[p]), IsVec(chan'[Other(p)]),
         Sent(circ, pc'[p], level'[p], Len(recv'[p])) = SentBy(p) + sent,
         Read(circ, pc'[p], level'[p], Len(recv'[p])) = ReadBy(p) + taken,
         Len(chan'[Other(p)]) = Len(chan[Other(p)]) + sent,
         Len(chan'[p]) = Len(chan[p]) - taken
  PROVE  ExchangeInv'
<1> DEFINE q == Other(p)
           SentNext(r) == Sent(circ, pc'[r], level'[r], Len(recv'[r]))
           ReadNext(r) == Read(circ, pc'[r], level'[r], Len(recv'[r]))
<1>1. q \in Online /\ Other(q) = p /\ q # p /\ \A r \in Online : r = p \/ r = q
  BY Others DEF Online, Other
<1>2. pc'[q] = pc[q] /\ level'[q] = level[q] /\ recv'[q] = recv[q] /\ mine'[q] = mine[q]
  BY <1>1 DEF OnlyAt
<1>3. /\ circ \in Circuits /\ InLevel(circ, pc[q], level[q], recv[q], mine[q])
      /\ SentBy(p) \in Nat /\ ReadBy(p) \in Nat /\ SentBy(q) \in Nat /\ ReadBy(q) \in Nat
      /\ Len(chan[p]) = SentBy(q) - ReadBy(p) /\ Len(chan[q]) = SentBy(p) - ReadBy(q)
  BY <1>1, Counts
<1>4. ShapeInv'
  <2>1. \A r \in Online : IsVec(chan'[r]) /\ InLevel(circ, pc'[r], level'[r], recv'[r], mine'[r])
    BY <1>1, <1>2, <1>3
  <2>. QED  BY <1>3, <2>1 DEF ShapeInv
<1>5. SentNext(q) = SentBy(q) /\ ReadNext(q) = ReadBy(q)
  BY <1>2 DEF SentBy, ReadBy
<1>6. SentNext(p) = SentBy(p) + sent /\ ReadNext(p) = ReadBy(p) + taken
  OBVIOUS
<1>7. \A r \in Online : Len(chan'[r]) = SentNext(Other(r)) - ReadNext(r)
  <2> HIDE DEF SentNext, ReadNext
  <2>1. Len(chan'[p]) = SentNext(q) - ReadNext(p)
    BY <1>3, <1>5, <1>6
  <2>2. Len(chan'[q]) = SentNext(p) - ReadNext(q)
    BY <1>3, <1>5, <1>6
  <2>. QED  BY <1>1, <2>1, <2>2
<1>8. CountInv'
  <2>1. \A r \in Online : /\ SentNext(Other(r)) = Sent(circ', pc'[Other(r)], level'[Other(r)], Len(recv'[Other(r)]))
                          /\ ReadNext(r) = Read(circ', pc'[r], level'[r], Len(recv'[r]))
    OBVIOUS
  <2> HIDE DEF SentNext, ReadNext
  <2>. QED  BY <1>7, <2>1 DEF CountInv
<1>. QED  BY <1>4, <1>8 DEF ExchangeInv

LEMMA InvAt ==
  ASSUME ExchangeInv, NEW p \in Online
  PROVE  /\ circ \in Circuits /\ Other(p) \in Online /\ Other(p) # p
         /\ DOMAIN pc = Online /\ DOMAIN level = Online /\ DOMAIN mine = Online
         /\ DOMAIN recv = Online /\ DOMAIN chan = Online
         /\ chan = [r \in Online |-> chan[r]]
         /\ IsVec(chan[p]) /\ IsVec(chan[Other(p)]) /\ Len(chan[p]) \in Nat
         /\ IsVec(recv[p]) /\ Len(recv[p]) \in Nat /\ level[p] \in 1 .. (Len(circ.levels) + 1)
         /\ Len(circ.levels) \in Nat /\ Len(circ.outputs) \in Nat
         /\ InLevel(circ, pc[p], level[p], recv[p], mine[p])
         /\ EndStage(circ) = Len(circ.levels) + 1
         /\ Before(circ, level[p]) \in Nat
<1>1. circ \in Circuits /\ InLevel(circ, pc[p], level[p], recv[p], mine[p])
  BY Counts
<1>2. EndStage(circ) = Len(circ.levels) + 1 /\ level[p] \in 1 .. EndStage(circ) /\ IsVec(recv[p])
  BY <1>1, BeforeFacts DEF InLevel
<1>3. Before(circ, level[p]) \in Nat
  BY <1>1, <1>2, BeforeFacts
<1>4. Len(recv[p]) \in Nat
  BY <1>2, VecLen
<1>5. /\ DOMAIN pc = Online /\ DOMAIN level = Online /\ DOMAIN mine = Online
      /\ DOMAIN recv = Online /\ chan = [r \in Online |-> chan[r]]
      /\ \A r \in Online : IsVec(chan[r])
  BY DEF ExchangeInv, ShapeInv
<1>. QED  BY <1>1, <1>2, <1>3, <1>4, <1>5, Counts, Others, BeforeFacts

LEMMA SetInputsKeeps ==
  ASSUME ExchangeInv, NEW p \in Online, SetInputs(p) PROVE ExchangeInv'
<1>1. /\ pc[p] = "inputs" /\ pc' = [pc EXCEPT ![p] = "begin"]
      /\ circ' = circ /\ level' = level /\ mine' = mine /\ recv' = recv /\ chan' = chan
  BY DEF SetInputs, fixed
<1>2. pc'[p] = "begin" /\ DOMAIN pc' = Online /\ OnlyAt(p, pc, pc')
  BY <1>1, InvAt DEF OnlyAt
<1>3. /\ Sent(circ, pc'[p], level'[p], Len(recv'[p])) = SentBy(p)
      /\ Read(circ, pc'[p], level'[p], Len(recv'[p])) = ReadBy(p)
  BY <1>1, <1>2 DEF SentBy, ReadBy, Sent, Read
<1>4. InLevel(circ, pc'[p], level'[p], recv'[p], mine'[p])
  BY <1>1, <1>2, InvAt DEF InLevel, Phase
<1>5. /\ OnlyAt(p, level, level') /\ OnlyAt(p, recv, recv') /\ OnlyAt(p, mine, mine')
      /\ DOMAIN level' = Online /\ DOMAIN mine' = Online /\ DOMAIN recv' = Online
      /\ chan' = [q \in Online |-> chan'[q]] /\ IsVec(chan'[p]) /\ IsVec(chan'[Other(p)])
  BY <1>1, InvAt DEF OnlyAt
<1>6. /\ SentBy(p) = SentBy(p) + 0 /\ ReadBy(p) = ReadBy(p) + 0
      /\ Len(chan'[Other(p)]) = Len(chan[Other(p)]) + 0 /\ Len(chan'[p]) = Len(chan[p]) - 0
  <2>1. /\ Len(chan[p]) \in Nat /\ Len(chan[Other(p)]) \in Nat
        /\ SentBy(p) \in Nat /\ ReadBy(p) \in Nat
    BY InvAt, Counts
  <2>. QED  BY <1>1, <2>1
<1>. QED  BY <1>1, <1>2, <1>3, <1>4, <1>5, <1>6, Moves

LEMMA BeginLevelKeeps ==
  ASSUME ExchangeInv, NEW p \in Online, BeginLevel(p) PROVE ExchangeInv'
<1> DEFINE gs == circ.levels[level[p]]
           m  == [kind \in WordKind |-> Group(p, level[p], kind, wires[p])]
<1>1. /\ pc[p] = "begin" /\ level[p] <= Len(circ.levels)
      /\ pc' = [pc EXCEPT ![p] = "send"]
      /\ mine' = [mine EXCEPT ![p] = m] /\ recv' = [recv EXCEPT ![p] = <<>>]
      /\ circ' = circ /\ level' = level /\ chan' = chan
  BY DEF BeginLevel, fixed, WordsAt
<1>2. gs \in Seq(Gate)
  <2>1. level[p] \in 1 .. Len(circ.levels)
    BY <1>1, InvAt
  <2>. QED  BY <2>1, InvAt, BeforeFacts
<1>3. \A kind \in WordKind : IsVec(m[kind]) /\ Len(m[kind]) = KindLen(gs, kind)
  <2>1. \A kind \in WordKind : /\ IsVec(Group(p, level[p], kind, wires[p]))
                               /\ Len(Group(p, level[p], kind, wires[p])) = KindLen(gs, kind)
    <3> DEFINE l == level[p]
               w == wires[p]
    <3>1. circ.levels[l] \in Seq(Gate)
      BY <1>2
    <3> HIDE DEF l, w
    <3>2. \A kind \in WordKind : /\ IsVec(Group(p, l, kind, w))
                                 /\ Len(Group(p, l, kind, w)) = KindLen(circ.levels[l], kind)
      BY <3>1, GroupLen
    <3>. QED  BY <3>2 DEF l, w
  <2>. QED  BY <2>1
<1> HIDE DEF m
<1>4. IsVec(AllOpened(m)) /\ Len(AllOpened(m)) = LevelLen(gs)
  <2>1. /\ IsVec(m.mult) /\ IsVec(m.and) /\ IsVec(m.shuffle) /\ IsVec(m.reveal)
        /\ Len(m.mult) = KindLen(gs, "mult") /\ Len(m.and) = KindLen(gs, "and")
        /\ Len(m.shuffle) = KindLen(gs, "shuffle") /\ Len(m.reveal) = KindLen(gs, "reveal")
    BY <1>3 DEF WordKind
  <2>2. IsVec(m.mult \o m.and) /\ Len(m.mult \o m.and) = KindLen(gs, "mult") + KindLen(gs, "and")
    BY <2>1, VecJoin
  <2>3. /\ IsVec((m.mult \o m.and) \o m.shuffle)
        /\ Len((m.mult \o m.and) \o m.shuffle)
             = (KindLen(gs, "mult") + KindLen(gs, "and")) + KindLen(gs, "shuffle")
    BY <2>1, <2>2, VecJoin
  <2>4. /\ IsVec(((m.mult \o m.and) \o m.shuffle) \o m.reveal)
        /\ Len(((m.mult \o m.and) \o m.shuffle) \o m.reveal)
             = ((KindLen(gs, "mult") + KindLen(gs, "and")) + KindLen(gs, "shuffle"))
                 + KindLen(gs, "reveal")
    BY <2>1, <2>3, VecJoin
  <2>. QED  BY <2>4 DEF AllOpened, LevelLen
<1>5. /\ pc'[p] = "send" /\ DOMAIN pc' = Online /\ OnlyAt(p, pc, pc')
      /\ mine'[p] = m /\ DOMAIN mine' = Online /\ OnlyAt(p, mine, mine')
      /\ recv'[p] = <<>> /\ DOMAIN recv' = Online /\ OnlyAt(p, recv, recv')
      /\ level'[p] = level[p] /\ OnlyAt(p, level, level') /\ DOMAIN level' = Online
  BY <1>1, InvAt DEF OnlyAt
<1>6. LevelLen(gs) \in Nat
  BY <1>2, LevelLenFacts
<1>7. InLevel(circ, pc'[p], level'[p], recv'[p], mine'[p])
  <2>1. level[p] \in 1 .. EndStage(circ) /\ IsVec(<<>>) /\ Len(<<>>) = 0
    BY InvAt, VecEmpty
  <2>. QED  BY <1>1, <1>4, <1>5, <1>6, <2>1 DEF InLevel, Phase
<1>8. /\ Sent(circ, pc'[p], level'[p], Len(recv'[p])) = SentBy(p) + 0
      /\ Read(circ, pc'[p], level'[p], Len(recv'[p])) = ReadBy(p) + 0
  <2>1. Len(recv'[p]) = 0 /\ Before(circ, level[p]) \in Nat
    BY <1>5, VecEmpty, InvAt
  <2>2. SentBy(p) = Before(circ, level[p]) + 0 /\ ReadBy(p) = Before(circ, level[p]) + 0
    BY <1>1 DEF SentBy, ReadBy, Sent, Read
  <2>3. /\ Sent(circ, pc'[p], level'[p], Len(recv'[p])) = Before(circ, level[p]) + 0
        /\ Read(circ, pc'[p], level'[p], Len(recv'[p])) = Before(circ, level[p]) + 0
    BY <1>5, <2>1 DEF Sent, Read
  <2>. QED  BY <2>1, <2>2, <2>3
<1>9. /\ chan' = [q \in Online |-> chan'[q]] /\ IsVec(chan'[p]) /\ IsVec(chan'[Other(p)])
      /\ Len(chan'[Other(p)]) = Len(chan[Other(p)]) + 0 /\ Len(chan'[p]) = Len(chan[p]) - 0
  BY <1>1, InvAt, Counts
<1>. QED  BY <1>1, <1>5, <1>7, <1>8, <1>9, Moves

(* The segment a party in state send or recv exchanges.                    *)
LEMMA SegmentFacts ==
  ASSUME ExchangeInv, NEW p \in Online, pc[p] \in {"send", "recv"}
  PROVE  /\ IsVec(AllOpened(mine[p])) /\ Total_comm(p) = LevelLen(circ.levels[level[p]])
         /\ Total_comm(p) \in Nat /\ level[p] \in 1 .. Len(circ.levels)
         /\ SegmentSize(p) = SegmentOf(Len(recv[p]), LevelLen(circ.levels[level[p]]))
         /\ SegmentSize(p) \in Nat /\ Len(recv[p]) + SegmentSize(p) <= Total_comm(p)
         /\ Len(recv[p]) <= Total_comm(p)
         /\ LastSegment(p) => Len(recv[p]) + SegmentSize(p) = Total_comm(p)
<1>1. /\ level[p] <= Len(circ.levels) /\ IsVec(AllOpened(mine[p]))
      /\ Total_comm(p) = LevelLen(circ.levels[level[p]])
      /\ Len(recv[p]) <= LevelLen(circ.levels[level[p]])
  BY InvAt DEF InLevel, Total_comm
<1>2. level[p] \in 1 .. Len(circ.levels)
  BY <1>1, InvAt
<1>3. Total_comm(p) \in Nat
  BY <1>1, <1>2, InvAt, BeforeFacts
<1>4. SegmentSize(p) = SegmentOf(Len(recv[p]), Total_comm(p))
  BY DEF SegmentSize, SegmentOf
<1>5. Len(recv[p]) \in Nat /\ Segment \in Nat
  BY InvAt, SegmentAssumption
<1>6. /\ SegmentSize(p) \in Nat /\ Len(recv[p]) + SegmentSize(p) <= Total_comm(p)
      /\ LastSegment(p) => Len(recv[p]) + SegmentSize(p) = Total_comm(p)
  BY <1>1, <1>3, <1>4, <1>5 DEF SegmentOf, LastSegment
<1>. QED  BY <1>1, <1>2, <1>3, <1>4, <1>6

LEMMA SendSegmentKeeps ==
  ASSUME ExchangeInv, NEW p \in Online, SendSegment(p) PROVE ExchangeInv'
<1> DEFINE s == SegmentSize(p)
           v == SubSeq(AllOpened(mine[p]), Len(recv[p]) + 1, Len(recv[p]) + s)
           q == Other(p)
<1>1. /\ pc[p] = "send" /\ pc' = [pc EXCEPT ![p] = "recv"]
      /\ chan' = [chan EXCEPT ![q] = @ \o v]
      /\ circ' = circ /\ level' = level /\ mine' = mine /\ recv' = recv
  BY DEF SendSegment, fixed
<1>2. /\ pc'[p] = "recv" /\ DOMAIN pc' = Online /\ OnlyAt(p, pc, pc')
      /\ OnlyAt(p, level, level') /\ OnlyAt(p, recv, recv') /\ OnlyAt(p, mine, mine')
      /\ DOMAIN level' = Online /\ DOMAIN mine' = Online /\ DOMAIN recv' = Online
      /\ level'[p] = level[p] /\ recv'[p] = recv[p] /\ mine'[p] = mine[p]
  BY <1>1, InvAt DEF OnlyAt
<1>3. /\ IsVec(AllOpened(mine[p])) /\ Total_comm(p) = Len(AllOpened(mine[p]))
      /\ s \in Nat /\ Len(recv[p]) \in Nat /\ Len(recv[p]) + s <= Len(AllOpened(mine[p]))
      /\ s = SegmentOf(Len(recv[p]), LevelLen(circ.levels[level[p]]))
  BY <1>1, SegmentFacts, InvAt DEF Total_comm
<1>4. IsVec(v) /\ Len(v) = s
  <2> HIDE DEF s
  <2>. QED  BY <1>3, VecPart
<1>5. IsVec(chan[q]) /\ q \in Online /\ q # p /\ chan = [r \in Online |-> chan[r]] /\ IsVec(chan[p])
      /\ Len(chan[p]) \in Nat
  BY InvAt
<1> HIDE DEF v
<1>6. /\ chan' = [r \in Online |-> chan'[r]] /\ chan'[p] = chan[p]
      /\ chan'[q] = chan[q] \o v
  <2> HIDE DEF q
  <2>. QED  BY <1>1, <1>5
<1>7. IsVec(chan'[q]) /\ Len(chan'[q]) = Len(chan[q]) + s
  BY <1>4, <1>5, <1>6, VecJoin
<1>8. Len(chan'[p]) = Len(chan[p]) - 0 /\ IsVec(chan'[p])
  BY <1>5, <1>6
<1>9. InLevel(circ, pc'[p], level'[p], recv'[p], mine'[p])
  BY <1>1, <1>2, InvAt DEF InLevel, Phase
<1>10. /\ Sent(circ, pc'[p], level'[p], Len(recv'[p])) = SentBy(p) + s
       /\ Read(circ, pc'[p], level'[p], Len(recv'[p])) = ReadBy(p) + 0
  <2> DEFINE b == Before(circ, level[p])
             r == Len(recv[p])
  <2>1. b \in Nat
    BY InvAt
  <2>2. SentBy(p) = b + r /\ ReadBy(p) = b + r
    BY <1>1 DEF SentBy, ReadBy, Sent, Read
  <2>3. /\ Sent(circ, pc'[p], level'[p], Len(recv'[p])) = b + (r + s)
        /\ Read(circ, pc'[p], level'[p], Len(recv'[p])) = b + r
    BY <1>2, <1>3 DEF Sent, Read
  <2> HIDE DEF b, s
  <2>. QED  BY <1>3, <2>1, <2>2, <2>3
<1>11. s \in Nat /\ 0 \in Nat
  BY <1>3
<1> HIDE DEF s
<1>12. /\ circ' = circ /\ chan' = [r \in Online |-> chan'[r]]
       /\ IsVec(chan'[p]) /\ IsVec(chan'[Other(p)])
       /\ Len(chan'[Other(p)]) = Len(chan[Other(p)]) + s
       /\ Len(chan'[p]) = Len(chan[p]) - 0
  BY <1>1, <1>6, <1>7, <1>8
<1>. QED  BY <1>2, <1>9, <1>10, <1>11, <1>12, Moves

LEMMA RecvSegmentKeeps ==
  ASSUME ExchangeInv, NEW p \in Online, RecvSegment(p) PROVE ExchangeInv'
<1> DEFINE s == SegmentSize(p)
           v == SubSeq(chan[p], 1, s)
           w == SubSeq(chan[p], s + 1, Len(chan[p]))
           ph == IF LastSegment(p) THEN "finish" ELSE "send"
<1>1. /\ pc[p] = "recv" /\ pc' = [pc EXCEPT ![p] = ph] /\ Len(chan[p]) >= s
      /\ chan' = [chan EXCEPT ![p] = w] /\ recv' = [recv EXCEPT ![p] = @ \o v]
      /\ circ' = circ /\ level' = level /\ mine' = mine
  BY DEF RecvSegment, fixed
<1>2. /\ pc'[p] = ph /\ DOMAIN pc' = Online /\ OnlyAt(p, pc, pc')
      /\ OnlyAt(p, level, level') /\ OnlyAt(p, recv, recv') /\ OnlyAt(p, mine, mine')
      /\ DOMAIN level' = Online /\ DOMAIN mine' = Online /\ DOMAIN recv' = Online
      /\ level'[p] = level[p] /\ mine'[p] = mine[p] /\ recv'[p] = recv[p] \o v
  <2> HIDE DEF ph, v, w
  <2>. QED  BY <1>1, InvAt DEF OnlyAt
<1>3. /\ Total_comm(p) = LevelLen(circ.levels[level[p]]) /\ Total_comm(p) \in Nat
      /\ s \in Nat /\ Len(recv[p]) \in Nat /\ Len(recv[p]) + s <= Total_comm(p)
      /\ s = SegmentOf(Len(recv[p]), LevelLen(circ.levels[level[p]]))
      /\ ph = "finish" => Len(recv[p]) + s = Total_comm(p)
      /\ IsVec(recv[p])
  BY <1>1, SegmentFacts, InvAt
<1>4. /\ IsVec(chan[p]) /\ Len(chan[p]) \in Nat /\ chan = [r \in Online |-> chan[r]]
      /\ Other(p) \in Online /\ Other(p) # p /\ IsVec(chan[Other(p)]) /\ Len(chan[Other(p)]) \in Nat
  BY InvAt, Counts
<1> DEFINE x == s
<1> HIDE DEF x
<1>5. /\ x = s /\ x \in Nat /\ 0 + x <= Len(chan[p]) /\ x + (Len(chan[p]) - x) <= Len(chan[p])
      /\ Len(chan[p]) - x \in Nat
  BY <1>1, <1>3, <1>4 DEF x
<1>6. IsVec(v) /\ Len(v) = s
  <2>1. IsVec(SubSeq(chan[p], 0 + 1, 0 + x)) /\ Len(SubSeq(chan[p], 0 + 1, 0 + x)) = x
    BY ZenonT(40), <1>4, <1>5, VecPart
  <2>2. 0 + 1 = 1 /\ 0 + x = x
    BY <1>5
  <2>. QED  BY <1>5, <2>1, <2>2
<1>7. IsVec(w) /\ Len(w) = Len(chan[p]) - s
  <2> DEFINE n == Len(chan[p]) - x
  <2>1. n \in Nat /\ x + n <= Len(chan[p]) /\ x + n = Len(chan[p])
    BY <1>4, <1>5
  <2> HIDE DEF n
  <2>2. IsVec(SubSeq(chan[p], x + 1, x + n)) /\ Len(SubSeq(chan[p], x + 1, x + n)) = n
    BY <1>4, <1>5, <2>1, VecPart
  <2>. QED  BY <1>5, <2>1, <2>2 DEF n
<1> HIDE DEF v, w
<1>8. chan' = [r \in Online |-> chan'[r]] /\ chan'[p] = w /\ chan'[Other(p)] = chan[Other(p)]
  BY <1>1, <1>4
<1>9. IsVec(recv'[p]) /\ Len(recv'[p]) = Len(recv[p]) + s
  BY <1>2, <1>3, <1>6, VecJoin
<1>10. InLevel(circ, pc'[p], level'[p], recv'[p], mine'[p])
  <2>1. InLevel(circ, "recv", level[p], recv[p], mine[p])
    BY <1>1, InvAt
  <2>2. ph \in {"finish", "send"}
    OBVIOUS
  <2> HIDE DEF ph, s
  <2>. QED  BY <1>2, <1>3, <1>9, <2>1, <2>2 DEF InLevel, Phase
<1>11. /\ Sent(circ, pc'[p], level'[p], Len(recv'[p])) = SentBy(p) + 0
       /\ Read(circ, pc'[p], level'[p], Len(recv'[p])) = ReadBy(p) + s
  <2> DEFINE b == Before(circ, level[p])
             r == Len(recv[p])
  <2>1. b \in Nat
    BY InvAt
  <2>2. SentBy(p) = b + (r + s) /\ ReadBy(p) = b + r
    BY <1>1, <1>3 DEF SentBy, ReadBy, Sent, Read
  <2>3. ph \in {"finish", "send"}
    OBVIOUS
  <2> HIDE DEF s, ph
  <2>4. /\ Sent(circ, pc'[p], level'[p], Len(recv'[p])) = b + (r + s)
        /\ Read(circ, pc'[p], level'[p], Len(recv'[p])) = b + (r + s)
    BY <1>2, <1>9, <2>3 DEF Sent, Read
  <2> HIDE DEF b
  <2>. QED  BY <1>3, <2>1, <2>2, <2>4
<1> HIDE DEF s
<1>12. Len(chan'[Other(p)]) = Len(chan[Other(p)]) + 0 /\ Len(chan'[p]) = Len(chan[p]) - s
       /\ IsVec(chan'[p]) /\ IsVec(chan'[Other(p)])
  BY <1>4, <1>7, <1>8
<1> HIDE DEF ph
<1>. QED  BY ZenonT(40), <1>1, <1>2, <1>3, <1>8, <1>10, <1>11, <1>12, Moves

LEMMA FinishLevelKeeps ==
  ASSUME ExchangeInv, NEW p \in Online, FinishLevel(p) PROVE ExchangeInv'
<1>1. /\ pc[p] = "finish" /\ pc' = [pc EXCEPT ![p] = "begin"]
      /\ level' = [level EXCEPT ![p] = level[p] + 1]
      /\ circ' = circ /\ mine' = mine /\ recv' = recv /\ chan' = chan
  BY DEF FinishLevel, fixed
<1>2. /\ pc'[p] = "begin" /\ DOMAIN pc' = Online /\ OnlyAt(p, pc, pc')
      /\ OnlyAt(p, level, level') /\ OnlyAt(p, recv, recv') /\ OnlyAt(p, mine, mine')
      /\ DOMAIN level' = Online /\ DOMAIN mine' = Online /\ DOMAIN recv' = Online
      /\ level'[p] = level[p] + 1 /\ mine'[p] = mine[p] /\ recv'[p] = recv[p]
  BY <1>1, InvAt DEF OnlyAt
<1>3. /\ level[p] <= Len(circ.levels) /\ Len(recv[p]) = LevelLen(circ.levels[level[p]])
      /\ level[p] \in 1 .. Len(circ.levels)
  <2>1. level[p] <= Len(circ.levels) /\ Len(recv[p]) = LevelLen(circ.levels[level[p]])
    BY <1>1, InvAt DEF InLevel
  <2>. QED  BY <2>1, InvAt
<1>4. InLevel(circ, pc'[p], level'[p], recv'[p], mine'[p])
  <2>1. level[p] + 1 \in 1 .. EndStage(circ)
    <3>1. EndStage(circ) = Len(circ.levels) + 1 /\ Len(circ.levels) \in Nat
      BY InvAt
    <3>. QED  BY <1>3, <3>1
  <2>. QED  BY <1>2, <2>1, InvAt DEF InLevel, Phase
<1>5. /\ Sent(circ, pc'[p], level'[p], Len(recv'[p])) = SentBy(p) + 0
      /\ Read(circ, pc'[p], level'[p], Len(recv'[p])) = ReadBy(p) + 0
  <2> DEFINE b == Before(circ, level[p])
             r == Len(recv[p])
             e == Before(circ, level[p] + 1)
  <2>1. b \in Nat /\ r \in Nat
    BY InvAt
  <2>2. SentBy(p) = b + r /\ ReadBy(p) = b + r
    BY <1>1 DEF SentBy, ReadBy, Sent, Read
  <2>3. /\ Sent(circ, pc'[p], level'[p], Len(recv'[p])) = e + 0
        /\ Read(circ, pc'[p], level'[p], Len(recv'[p])) = e + 0
    BY <1>2 DEF Sent, Read
  <2>4. e = b + r
    BY <1>3, InvAt, BeforeFacts
  <2> HIDE DEF b, e, r
  <2>. QED  BY <2>1, <2>2, <2>3, <2>4
<1>6. /\ chan' = [q \in Online |-> chan'[q]] /\ IsVec(chan'[p]) /\ IsVec(chan'[Other(p)])
      /\ Len(chan'[Other(p)]) = Len(chan[Other(p)]) + 0 /\ Len(chan'[p]) = Len(chan[p]) - 0
  <2>1. /\ Len(chan[p]) \in Nat /\ Len(chan[Other(p)]) \in Nat
        /\ chan = [q \in Online |-> chan[q]] /\ IsVec(chan[p]) /\ IsVec(chan[Other(p)])
    BY InvAt, Counts
  <2>. QED  BY <1>1, <2>1
<1>. QED  BY <1>1, <1>2, <1>4, <1>5, <1>6, Moves

LEMMA NoOutputsKeeps ==
  ASSUME ExchangeInv, NEW p \in Online, NoOutputs(p) PROVE ExchangeInv'
<1>1. /\ pc[p] = "begin" /\ pc' = [pc EXCEPT ![p] = "done"]
      /\ level[p] > Len(circ.levels) /\ circ.outputs = <<>>
      /\ circ' = circ /\ level' = level /\ mine' = mine /\ recv' = recv /\ chan' = chan
  BY DEF NoOutputs, AfterLevels, fixed
<1>2. /\ pc'[p] = "done" /\ DOMAIN pc' = Online /\ OnlyAt(p, pc, pc')
      /\ OnlyAt(p, level, level') /\ OnlyAt(p, recv, recv') /\ OnlyAt(p, mine, mine')
      /\ DOMAIN level' = Online /\ DOMAIN mine' = Online /\ DOMAIN recv' = Online
      /\ level'[p] = level[p] /\ mine'[p] = mine[p] /\ recv'[p] = recv[p]
  BY <1>1, InvAt DEF OnlyAt
<1>3. level[p] = EndStage(circ) /\ Len(circ.outputs) = 0
  <2>1. /\ EndStage(circ) = Len(circ.levels) + 1 /\ Len(circ.levels) \in Nat
        /\ level[p] \in 1 .. (Len(circ.levels) + 1)
    BY InvAt
  <2>. QED  BY <1>1, <2>1, VecEmpty
<1>4. InLevel(circ, pc'[p], level'[p], recv'[p], mine'[p])
  BY <1>2, <1>3, InvAt DEF InLevel, Phase
<1>5. /\ Sent(circ, pc'[p], level'[p], Len(recv'[p])) = SentBy(p) + 0
      /\ Read(circ, pc'[p], level'[p], Len(recv'[p])) = ReadBy(p) + 0
  <2> DEFINE b == Before(circ, level[p])
  <2>1. b \in Nat
    BY InvAt
  <2>2. SentBy(p) = b + 0 /\ ReadBy(p) = b + 0
    BY <1>1 DEF SentBy, ReadBy, Sent, Read
  <2>3. /\ Sent(circ, pc'[p], level'[p], Len(recv'[p])) = b + 0
        /\ Read(circ, pc'[p], level'[p], Len(recv'[p])) = b + 0
    BY <1>2, <1>3 DEF Sent, Read
  <2> HIDE DEF b
  <2>. QED  BY <2>1, <2>2, <2>3
<1>6. /\ chan' = [q \in Online |-> chan'[q]] /\ IsVec(chan'[p]) /\ IsVec(chan'[Other(p)])
      /\ Len(chan'[Other(p)]) = Len(chan[Other(p)]) + 0 /\ Len(chan'[p]) = Len(chan[p]) - 0
  <2>1. /\ Len(chan[p]) \in Nat /\ Len(chan[Other(p)]) \in Nat
        /\ chan = [q \in Online |-> chan[q]] /\ IsVec(chan[p]) /\ IsVec(chan[Other(p)])
    BY InvAt, Counts
  <2>. QED  BY <1>1, <2>1
<1>. QED  BY <1>1, <1>2, <1>4, <1>5, <1>6, Moves

LEMMA SendOutputsKeeps ==
  ASSUME ExchangeInv, NEW p \in Online, SendOutputs(p) PROVE ExchangeInv'
<1> DEFINE v == On(wires[p], circ.outputs)
           n == Len(circ.outputs)
           q == Other(p)
<1>1. /\ pc[p] = "begin" /\ pc' = [pc EXCEPT ![p] = "outputs"]
      /\ level[p] > Len(circ.levels) /\ chan' = [chan EXCEPT ![q] = @ \o v]
      /\ circ' = circ /\ level' = level /\ mine' = mine /\ recv' = recv
  BY DEF SendOutputs, AfterLevels, fixed
<1>2. /\ pc'[p] = "outputs" /\ DOMAIN pc' = Online /\ OnlyAt(p, pc, pc')
      /\ OnlyAt(p, level, level') /\ OnlyAt(p, recv, recv') /\ OnlyAt(p, mine, mine')
      /\ DOMAIN level' = Online /\ DOMAIN mine' = Online /\ DOMAIN recv' = Online
      /\ level'[p] = level[p] /\ mine'[p] = mine[p] /\ recv'[p] = recv[p]
  BY <1>1, InvAt DEF OnlyAt
<1>3. level[p] = EndStage(circ) /\ n \in Nat
  <2>1. /\ EndStage(circ) = Len(circ.levels) + 1 /\ Len(circ.levels) \in Nat
        /\ level[p] \in 1 .. (Len(circ.levels) + 1) /\ n \in Nat
    BY InvAt
  <2>. QED  BY <1>1, <2>1
<1>4. IsVec(v) /\ Len(v) = n
  <2>1. circ.outputs \in Seq(Nat)
    BY InvAt, CircuitAssumption
  <2>. QED  BY <2>1, OnLen
<1>5. IsVec(chan[q]) /\ q \in Online /\ q # p /\ chan = [r \in Online |-> chan[r]] /\ IsVec(chan[p])
      /\ Len(chan[p]) \in Nat
  BY InvAt
<1> HIDE DEF v
<1>6. /\ chan' = [r \in Online |-> chan'[r]] /\ chan'[p] = chan[p]
      /\ chan'[q] = chan[q] \o v
  <2> HIDE DEF q
  <2>. QED  BY <1>1, <1>5
<1>7. IsVec(chan'[q]) /\ Len(chan'[q]) = Len(chan[q]) + n
  BY <1>4, <1>5, <1>6, VecJoin
<1>8. Len(chan'[p]) = Len(chan[p]) - 0 /\ IsVec(chan'[p])
  BY <1>5, <1>6
<1>9. InLevel(circ, pc'[p], level'[p], recv'[p], mine'[p])
  BY <1>2, <1>3, InvAt DEF InLevel, Phase
<1>10. /\ Sent(circ, pc'[p], level'[p], Len(recv'[p])) = SentBy(p) + n
       /\ Read(circ, pc'[p], level'[p], Len(recv'[p])) = ReadBy(p) + 0
  <2> DEFINE b == Before(circ, level[p])
  <2>1. b \in Nat
    BY InvAt
  <2>2. SentBy(p) = b + 0 /\ ReadBy(p) = b + 0
    BY <1>1 DEF SentBy, ReadBy, Sent, Read
  <2>3. /\ Sent(circ, pc'[p], level'[p], Len(recv'[p])) = b + n
        /\ Read(circ, pc'[p], level'[p], Len(recv'[p])) = b + 0
    BY <1>2 DEF Sent, Read
  <2> HIDE DEF b, n
  <2>. QED  BY <1>3, <2>1, <2>2, <2>3
<1>11. 0 \in Nat /\ n \in Nat
  BY <1>3
<1> HIDE DEF n
<1>12. /\ circ' = circ /\ chan' = [r \in Online |-> chan'[r]]
       /\ IsVec(chan'[p]) /\ IsVec(chan'[Other(p)])
       /\ Len(chan'[Other(p)]) = Len(chan[Other(p)]) + n
       /\ Len(chan'[p]) = Len(chan[p]) - 0
  BY <1>1, <1>6, <1>7, <1>8
<1>. QED  BY <1>2, <1>9, <1>10, <1>11, <1>12, Moves

LEMMA RecvOutputsKeeps ==
  ASSUME ExchangeInv, NEW p \in Online, RecvOutputs(p) PROVE ExchangeInv'
<1> DEFINE n == Len(circ.outputs)
           w == SubSeq(chan[p], n + 1, Len(chan[p]))
<1>1. /\ pc[p] = "outputs" /\ pc' = [pc EXCEPT ![p] = "done"] /\ Len(chan[p]) >= n
      /\ chan' = [chan EXCEPT ![p] = w]
      /\ circ' = circ /\ level' = level /\ mine' = mine /\ recv' = recv
  BY DEF RecvOutputs, fixed
<1>2. /\ pc'[p] = "done" /\ DOMAIN pc' = Online /\ OnlyAt(p, pc, pc')
      /\ OnlyAt(p, level, level') /\ OnlyAt(p, recv, recv') /\ OnlyAt(p, mine, mine')
      /\ DOMAIN level' = Online /\ DOMAIN mine' = Online /\ DOMAIN recv' = Online
      /\ level'[p] = level[p] /\ mine'[p] = mine[p] /\ recv'[p] = recv[p]
  BY <1>1, InvAt DEF OnlyAt
<1>3. /\ IsVec(chan[p]) /\ Len(chan[p]) \in Nat /\ chan = [r \in Online |-> chan[r]] /\ n \in Nat
      /\ Other(p) \in Online /\ Other(p) # p /\ IsVec(chan[Other(p)]) /\ Len(chan[Other(p)]) \in Nat
  BY InvAt, Counts
<1>4. level[p] = EndStage(circ)
  BY <1>1, InvAt DEF InLevel
<1>5. InLevel(circ, pc'[p], level'[p], recv'[p], mine'[p])
  BY <1>2, <1>4, InvAt DEF InLevel, Phase
<1>6. /\ Sent(circ, pc'[p], level'[p], Len(recv'[p])) = SentBy(p) + 0
      /\ Read(circ, pc'[p], level'[p], Len(recv'[p])) = ReadBy(p) + n
  <2> DEFINE b == Before(circ, level[p])
  <2>1. b \in Nat
    BY InvAt
  <2>2. SentBy(p) = b + n /\ ReadBy(p) = b + 0
    BY <1>1 DEF SentBy, ReadBy, Sent, Read
  <2>3. /\ Sent(circ, pc'[p], level'[p], Len(recv'[p])) = b + n
        /\ Read(circ, pc'[p], level'[p], Len(recv'[p])) = b + n
    BY <1>2 DEF Sent, Read
  <2> HIDE DEF b, n
  <2>. QED  BY <1>3, <2>1, <2>2, <2>3
<1> HIDE DEF n
<1>7. IsVec(w) /\ Len(w) = Len(chan[p]) - n
  <2> DEFINE k == Len(chan[p]) - n
  <2>1. k \in Nat /\ n + k <= Len(chan[p]) /\ n + k = Len(chan[p])
    BY <1>1, <1>3
  <2> HIDE DEF k
  <2>2. IsVec(SubSeq(chan[p], n + 1, n + k)) /\ Len(SubSeq(chan[p], n + 1, n + k)) = k
    BY <1>3, <2>1, VecPart
  <2>. QED  BY <2>1, <2>2 DEF k
<1> HIDE DEF w
<1>8. /\ chan' = [r \in Online |-> chan'[r]] /\ chan'[p] = w /\ chan'[Other(p)] = chan[Other(p)]
  BY <1>1, <1>3
<1>9. /\ Len(chan'[Other(p)]) = Len(chan[Other(p)]) + 0 /\ Len(chan'[p]) = Len(chan[p]) - n
      /\ IsVec(chan'[p]) /\ IsVec(chan'[Other(p)])
  BY <1>3, <1>7, <1>8
<1>10. circ' = circ /\ chan' = [q \in Online |-> chan'[q]] /\ n \in Nat /\ 0 \in Nat
  BY <1>1, <1>3, <1>8
<1>. QED  BY <1>2, <1>5, <1>6, <1>9, <1>10, Moves

LEMMA ExchangeStarts == Init => ExchangeInv
<1> SUFFICES ASSUME Init PROVE ExchangeInv
  OBVIOUS
<1>1. /\ circ \in Circuits /\ pc = [p \in Online |-> "inputs"] /\ level = [p \in Online |-> 1]
      /\ mine = [p \in Online |-> NoWords] /\ recv = [p \in Online |-> <<>>]
      /\ chan = [p \in Online |-> <<>>]
  BY DEF Init
<1>2. /\ Len(circ.levels) \in Nat /\ EndStage(circ) = Len(circ.levels) + 1
      /\ \A l \in 1 .. EndStage(circ) : Before(circ, l) \in Nat
  BY <1>1, BeforeFacts
<1>3. 1 \in 1 .. EndStage(circ)
  BY <1>2
<1>4. Before(circ, 1) \in Nat
  BY <1>2, <1>3
<1>5. ShapeInv
  BY <1>1, <1>3, VecEmpty DEF ShapeInv, InLevel, Phase
<1>6. CountInv
  <2> SUFFICES ASSUME NEW p \in Online
               PROVE  Len(chan[p]) = Sent(circ, pc[Other(p)], level[Other(p)], Len(recv[Other(p)]))
                                       - Read(circ, pc[p], level[p], Len(recv[p]))
    BY DEF CountInv
  <2>1. /\ Sent(circ, pc[Other(p)], level[Other(p)], Len(recv[Other(p)])) = Before(circ, 1) + 0
        /\ Read(circ, pc[p], level[p], Len(recv[p])) = Before(circ, 1) + 0
    BY <1>1, Others DEF Sent, Read
  <2>2. Len(chan[p]) = 0
    BY <1>1, VecEmpty
  <2>. QED  BY <1>4, <2>1, <2>2
<1>. QED  BY <1>5, <1>6 DEF ExchangeInv

LEMMA ExchangeKept == ExchangeInv /\ [Next]_vars => ExchangeInv'
<1> SUFFICES ASSUME ExchangeInv, [Next]_vars PROVE ExchangeInv'
  OBVIOUS
<1>1. CASE UNCHANGED vars
  BY <1>1 DEF vars, ExchangeInv, ShapeInv, CountInv
<1>2. ASSUME NEW p \in Online, Step(p) PROVE ExchangeInv'
  BY <1>2, SetInputsKeeps, BeginLevelKeeps, SendSegmentKeeps, RecvSegmentKeeps, FinishLevelKeeps,
     NoOutputsKeeps, SendOutputsKeeps, RecvOutputsKeeps DEF Step
<1>. QED  BY <1>1, <1>2 DEF Next

(* What is in flight is what one party has opened less what the other has  *)
(* read of it, throughout the evaluation.                                  *)
THEOREM ExchangeHolds == Spec => []ExchangeInv
BY ExchangeStarts, ExchangeKept, PTL DEF Spec

(* The parties stay within a level of each other, two segments at most     *)
(* wait for a party, and nothing is left over between levels or at the     *)
(* end, for every circuit and every segment size.                          *)
THEOREM InStep == Spec => []ExchangeInStep
BY StaysInStep, ExchangeHolds, PTL

(* Sending a segment before reading one never makes both parties wait, nor *)
(* one wait for a party that is done.                                      *)
THEOREM NeverBothWait == Spec => []OneCanGoOn
BY SomeoneMoves, ExchangeHolds, PTL

-----------------------------------------------------------------------------
(***************************************************************************)
(* Gates on shares.  An expression over the integers stands for the word   *)
(* it is congruent to (Is), which makes Beaver products, sums of shares and*)
(* the bits of a word a matter of arithmetic.                              *)
(***************************************************************************)
(* Words and the integers they stand for.                                  *)
Is(a, e) == a \in Ring /\ e \in Int /\ \E q \in Int : e = a + Modulus * q

LEMMA ModulusFacts == Modulus \in Nat \ {0} /\ Modulus \in Int /\ Modulus > 1
BY ModulusAssumption

LEMMA RingInt == ASSUME NEW a \in Ring PROVE a \in Int /\ a \in Nat /\ 0 <= a /\ a < Modulus
BY ModulusAssumption DEF Ring

LEMMA IsWord == ASSUME NEW a \in Ring PROVE Is(a, a)
<1>1. a = a + Modulus * 0 /\ 0 \in Int /\ a \in Int
  BY RingInt, ModulusFacts
<1>. QED  BY <1>1 DEF Is

LEMMA IsTrunc == ASSUME NEW e \in Int PROVE Is(e % Modulus, e)
<1>1. (e % Modulus) \in 0 .. (Modulus - 1) /\ \E q \in Int : e = Modulus * q + (e % Modulus)
  BY ModulusFacts, ModSplit
<1> DEFINE r == e % Modulus
<1>2. PICK q \in Int : e = Modulus * q + r
  BY <1>1
<1> HIDE DEF r
<1>3. r \in Int
  BY <1>1, ModulusFacts DEF r
<1>4. e = r + Modulus * q
  BY <1>2, <1>3, ModulusFacts
<1>. QED  BY <1>1, <1>4 DEF Is, Ring, r

LEMMA IsSame == ASSUME NEW a, NEW b, NEW e, Is(a, e), Is(b, e) PROVE a = b
<1>1. a \in Ring /\ b \in Ring /\ e \in Int
  BY DEF Is
<1>2. PICK q \in Int : e = a + Modulus * q
  BY DEF Is
<1>3. PICK r \in Int : e = b + Modulus * r
  BY DEF Is
<1>4. e % Modulus = a
  <2>1. a \in 0 .. (Modulus - 1) /\ e = Modulus * q + a
    BY <1>1, <1>2, ModulusFacts DEF Ring
  <2>. QED  BY <1>1, <2>1, ModUnique, ModulusFacts
<1>5. e % Modulus = b
  <2>1. b \in 0 .. (Modulus - 1) /\ e = Modulus * r + b
    BY <1>1, <1>3, ModulusFacts DEF Ring
  <2>. QED  BY <1>1, <2>1, ModUnique, ModulusFacts
<1>. QED  BY <1>4, <1>5

LEMMA IsShift ==
  ASSUME NEW a, NEW e, NEW f \in Int, NEW q \in Int, Is(a, e), f = e + Modulus * q
  PROVE  Is(a, f)
<1>1. PICK r \in Int : e = a + Modulus * r
  BY DEF Is
<1>2. a \in Ring /\ a \in Int
  BY RingInt DEF Is
<1>3. f = a + Modulus * (r + q) /\ r + q \in Int
  BY <1>1, <1>2, ModulusFacts
<1>. QED  BY <1>2, <1>3 DEF Is

LEMMA IsPlus ==
  ASSUME NEW a, NEW b, NEW e, NEW f, Is(a, e), Is(b, f)
  PROVE  Is(Plus(a, b), e + f)
<1>1. PICK q \in Int : e = a + Modulus * q
  BY DEF Is
<1>2. PICK r \in Int : f = b + Modulus * r
  BY DEF Is
<1>3. a \in Int /\ b \in Int
  BY RingInt DEF Is
<1>4. Is(Plus(a, b), a + b)
  BY <1>3, IsTrunc DEF Plus
<1>5. e + f = (a + b) + Modulus * (q + r) /\ q + r \in Int /\ e + f \in Int
  BY <1>1, <1>2, <1>3, ModulusFacts
<1>. QED  BY <1>4, <1>5, IsShift

LEMMA IsMinus ==
  ASSUME NEW a, NEW b, NEW e, NEW f, Is(a, e), Is(b, f)
  PROVE  Is(Minus(a, b), e - f)
<1>1. PICK q \in Int : e = a + Modulus * q
  BY DEF Is
<1>2. PICK r \in Int : f = b + Modulus * r
  BY DEF Is
<1>3. a \in Int /\ b \in Int
  BY RingInt DEF Is
<1>4. Is(Minus(a, b), a - b)
  BY <1>3, IsTrunc DEF Minus
<1>5. e - f = (a - b) + Modulus * (q - r) /\ q - r \in Int /\ e - f \in Int
  BY <1>1, <1>2, <1>3, ModulusFacts
<1>. QED  BY <1>4, <1>5, IsShift

LEMMA IsTimes ==
  ASSUME NEW a, NEW b, NEW e, NEW f, Is(a, e), Is(b, f)
  PROVE  Is(Times(a, b), e * f)
<1>1. PICK q \in Int : e = a + Modulus * q
  BY DEF Is
<1>2. PICK r \in Int : f = b + Modulus * r
  BY DEF Is
<1>3. a \in Int /\ b \in Int
  BY RingInt DEF Is
<1>4. Is(Times(a, b), a * b)
  BY <1>3, IsTrunc DEF Times
<1>5. e * f = (a * b) + Modulus * (a * r + b * q + Modulus * q * r)
  BY <1>1, <1>2, <1>3, ModulusFacts
<1>6. a * r + b * q + Modulus * q * r \in Int /\ e * f \in Int
  BY <1>1, <1>2, <1>3, ModulusFacts
<1>. QED  BY <1>4, <1>5, <1>6, IsShift

(* A word that stands for two integers that are equal.                     *)
LEMMA IsEqual == ASSUME NEW a, NEW e, NEW f, Is(a, e), e = f PROVE Is(a, f)
OBVIOUS

LEMMA RingOps ==
  ASSUME NEW a \in Ring, NEW b \in Ring
  PROVE  Plus(a, b) \in Ring /\ Minus(a, b) \in Ring /\ Times(a, b) \in Ring
<1>1. Is(Plus(a, b), a + b) /\ Is(Minus(a, b), a - b) /\ Is(Times(a, b), a * b)
  BY IsWord, IsPlus, IsMinus, IsTimes
<1>. QED  BY <1>1 DEF Is
-----------------------------------------------------------------------------
(* Two parties that open x + a and y + b, where a * b = c, multiply.       *)
(* p1 and p2 come from a triple and the opened words v and w.              *)
Triple(x1, x2, y1, y2, p1, p2) ==
  \E a1, a2, b1, b2, c1, c2, v, w \in Ring :
    /\ Times(Plus(a1, a2), Plus(b1, b2)) = Plus(c1, c2)
    /\ v = Plus(Plus(a1, x1), Plus(a2, x2))
    /\ w = Plus(Plus(b1, y1), Plus(b2, y2))
    /\ p1 = Plus(Minus(Minus(Times(Times(v, w), 0), Times(v, b1)), Times(w, a1)), c1)
    /\ p2 = Plus(Minus(Minus(Times(Times(v, w), 1), Times(v, b2)), Times(w, a2)), c2)
LEMMA BeaverOpens ==
  ASSUME NEW x1 \in Ring, NEW x2 \in Ring, NEW y1 \in Ring, NEW y2 \in Ring, NEW p1, NEW p2,
         Triple(x1, x2, y1, y2, p1, p2)
  PROVE  p1 \in Ring /\ p2 \in Ring /\ Plus(p1, p2) = Times(Plus(x1, x2), Plus(y1, y2))
<1> SUFFICES ASSUME NEW a1 \in Ring, NEW a2 \in Ring, NEW b1 \in Ring, NEW b2 \in Ring,
                    NEW c1 \in Ring, NEW c2 \in Ring, NEW v \in Ring, NEW w \in Ring,
                    Times(Plus(a1, a2), Plus(b1, b2)) = Plus(c1, c2),
                    v = Plus(Plus(a1, x1), Plus(a2, x2)),
                    w = Plus(Plus(b1, y1), Plus(b2, y2)),
                    p1 = Plus(Minus(Minus(Times(Times(v, w), 0), Times(v, b1)), Times(w, a1)), c1),
                    p2 = Plus(Minus(Minus(Times(Times(v, w), 1), Times(v, b2)), Times(w, a2)), c2)
             PROVE  p1 \in Ring /\ p2 \in Ring /\ Plus(p1, p2) = Times(Plus(x1, x2), Plus(y1, y2))
  BY DEF Triple
<1> DEFINE X == x1 + x2
           Y == y1 + y2
           A == a1 + a2
           B == b1 + b2
<1>0. /\ x1 \in Int /\ x2 \in Int /\ y1 \in Int /\ y2 \in Int /\ a1 \in Int /\ a2 \in Int
      /\ b1 \in Int /\ b2 \in Int /\ c1 \in Int /\ c2 \in Int
      /\ X \in Int /\ Y \in Int /\ A \in Int /\ B \in Int
  BY RingInt
<1>1. Is(v, (a1 + x1) + (a2 + x2)) /\ Is(w, (b1 + y1) + (b2 + y2))
  BY IsWord, IsPlus
<1>2. Is(Plus(c1, c2), c1 + c2) /\ Is(Plus(c1, c2), A * B)
  BY IsWord, IsPlus, IsTimes
<1>3. Is(v, X + A) /\ Is(w, Y + B)
  <2>1. (a1 + x1) + (a2 + x2) = X + A /\ (b1 + y1) + (b2 + y2) = Y + B
    BY <1>0
  <2>. QED  BY <1>1, <2>1
<1>4. Is(0, 0) /\ Is(1, 1)
  <2>1. 0 \in Ring /\ 1 \in Ring
    BY ModulusFacts DEF Ring
  <2>. QED  BY <2>1, IsWord
<1>5. Is(a1, a1) /\ Is(a2, a2) /\ Is(b1, b1) /\ Is(b2, b2) /\ Is(c1, c1) /\ Is(c2, c2)
  BY IsWord
<1> DEFINE V == X + A
           W == Y + B
<1>6. V \in Int /\ W \in Int
  BY <1>0
<1>7. Is(p1, (V * W * 0 - V * b1 - W * a1) + c1)
  <2>1. Is(Times(v, w), V * W) /\ Is(Times(v, b1), V * b1) /\ Is(Times(w, a1), W * a1)
    BY <1>3, <1>5, IsTimes
  <2>2. Is(Times(Times(v, w), 0), V * W * 0)
    BY <1>4, <2>1, IsTimes
  <2>3. Is(Minus(Times(Times(v, w), 0), Times(v, b1)), V * W * 0 - V * b1)
    BY <2>1, <2>2, IsMinus
  <2>4. Is(Minus(Minus(Times(Times(v, w), 0), Times(v, b1)), Times(w, a1)), V * W * 0 - V * b1 - W * a1)
    BY <2>1, <2>3, IsMinus
  <2>. QED  BY <1>5, <2>4, IsPlus
<1>8. Is(p2, (V * W * 1 - V * b2 - W * a2) + c2)
  <2>1. Is(Times(v, w), V * W) /\ Is(Times(v, b2), V * b2) /\ Is(Times(w, a2), W * a2)
    BY <1>3, <1>5, IsTimes
  <2>2. Is(Times(Times(v, w), 1), V * W * 1)
    BY <1>4, <2>1, IsTimes
  <2>3. Is(Minus(Times(Times(v, w), 1), Times(v, b2)), V * W * 1 - V * b2)
    BY <2>1, <2>2, IsMinus
  <2>4. Is(Minus(Minus(Times(Times(v, w), 1), Times(v, b2)), Times(w, a2)), V * W * 1 - V * b2 - W * a2)
    BY <2>1, <2>3, IsMinus
  <2>. QED  BY <1>5, <2>4, IsPlus
<1>9. PICK q \in Int : c1 + c2 = A * B + Modulus * q
  <2>1. PICK r \in Int : c1 + c2 = Plus(c1, c2) + Modulus * r
    BY <1>2 DEF Is
  <2>2. PICK s \in Int : A * B = Plus(c1, c2) + Modulus * s
    BY <1>2 DEF Is
  <2>3. Plus(c1, c2) \in Int
    BY <1>2, RingInt DEF Is
  <2>4. c1 + c2 = A * B + Modulus * (r - s) /\ r - s \in Int
    <3> DEFINE t == Plus(c1, c2)
               ab == A * B
    <3>1. ab \in Int /\ t \in Int /\ c1 + c2 \in Int
      BY <1>0, <2>3
    <3> HIDE DEF t, ab, A, B
    <3>. QED  BY <2>1, <2>2, <3>1, ModulusFacts DEF t, ab
  <2>. QED  BY <2>4
<1>10. Is(Plus(p1, p2), ((V * W * 0 - V * b1 - W * a1) + c1) + ((V * W * 1 - V * b2 - W * a2) + c2))
  BY <1>7, <1>8, IsPlus
<1>11. ((V * W * 0 - V * b1 - W * a1) + c1) + ((V * W * 1 - V * b2 - W * a2) + c2)
         = X * Y + Modulus * q
  <2>1. ((V * W * 0 - V * b1 - W * a1) + c1) + ((V * W * 1 - V * b2 - W * a2) + c2)
         = V * W - V * B - W * A + (c1 + c2)
    <3> HIDE DEF V, W
    <3>. QED  BY <1>0, <1>6
  <2>2. V * W - V * B - W * A + A * B = X * Y
    <3> HIDE DEF X, Y, A, B
    <3>. QED  BY <1>0
  <2> DEFINE L == V * W - V * B - W * A
             mq == Modulus * q
             ab == A * B
  <2>3. L \in Int /\ mq \in Int /\ ab \in Int
    BY <1>0, <1>6, ModulusFacts
  <2>4. L + (c1 + c2) = (L + ab) + mq
    <3> HIDE DEF L, ab
    <3>. QED  BY <1>0, <1>9, <2>3 DEF ab
  <2>. QED  BY <2>1, <2>2, <2>4
<1>12. Is(Plus(p1, p2), X * Y)
  <2> DEFINE E == ((V * W * 0 - V * b1 - W * a1) + c1) + ((V * W * 1 - V * b2 - W * a2) + c2)
             xy == X * Y
  <2>1. E = xy + Modulus * q /\ Is(Plus(p1, p2), E)
    BY <1>10, <1>11
  <2>2. xy \in Int
    BY <1>0
  <2> HIDE DEF E, xy
  <2>3. E \in Int
    BY <2>1, <2>2, ModulusFacts
  <2>4. xy = E + Modulus * (0 - q) /\ 0 - q \in Int
    BY <2>1, <2>2, <2>3, ModulusFacts
  <2>5. Is(Plus(p1, p2), xy)
    BY <2>1, <2>2, <2>4, IsShift
  <2>. QED  BY <2>5 DEF xy
<1>13. Is(Times(Plus(x1, x2), Plus(y1, y2)), X * Y)
  BY IsWord, IsPlus, IsTimes
<1>. QED  BY <1>7, <1>8, <1>12, <1>13, IsSame DEF Is
-----------------------------------------------------------------------------
(* Words under ^ and &, a Boolean ring.                                    *)
LEMMA BitOps ==
  ASSUME NEW x \in Ring, NEW y \in Ring
  PROVE  /\ XorW(x, y) \in Ring /\ AndW(x, y) \in Ring
         /\ XorW(x, y) = XorW(y, x) /\ AndW(x, y) = AndW(y, x)
         /\ XorW(x, 0) = x /\ XorW(0, x) = x /\ XorW(x, x) = 0 /\ 0 \in Ring
<1>1. 0 \in Ring
  BY ModulusFacts DEF Ring
<1>. QED  BY <1>1, XorAssumption, AndAssumption

LEMMA XorAssoc ==
  ASSUME NEW x \in Ring, NEW y \in Ring, NEW z \in Ring
  PROVE  XorW(x, XorW(y, z)) = XorW(XorW(x, y), z)
BY XorAssumption

LEMMA AndOverXor ==
  ASSUME NEW x \in Ring, NEW y \in Ring, NEW z \in Ring
  PROVE  AndW(x, XorW(y, z)) = XorW(AndW(x, y), AndW(x, z))
BY AndAssumption

(* Two sums are added pair by pair.                                        *)
LEMMA XorPairs ==
  ASSUME NEW a \in Ring, NEW b \in Ring, NEW c \in Ring, NEW d \in Ring
  PROVE  XorW(XorW(a, b), XorW(c, d)) = XorW(XorW(a, c), XorW(b, d))
<1>1. XorW(XorW(a, b), XorW(c, d)) = XorW(a, XorW(b, XorW(c, d)))
  BY BitOps, XorAssoc
<1>2. XorW(b, XorW(c, d)) = XorW(XorW(b, c), d) /\ XorW(XorW(b, c), d) = XorW(XorW(c, b), d)
  BY BitOps, XorAssoc
<1>3. XorW(XorW(c, b), d) = XorW(c, XorW(b, d))
  BY BitOps, XorAssoc
<1>4. XorW(a, XorW(c, XorW(b, d))) = XorW(XorW(a, c), XorW(b, d))
  BY BitOps, XorAssoc
<1>. QED  BY <1>1, <1>2, <1>3, <1>4

LEMMA XorUndo ==
  ASSUME NEW a \in Ring, NEW b \in Ring
  PROVE  XorW(XorW(a, b), a) = b /\ XorW(XorW(a, b), b) = a
<1>1. XorW(XorW(a, b), b) = XorW(a, XorW(b, b)) /\ XorW(a, XorW(b, b)) = a
  BY BitOps, XorAssoc
<1>2. XorW(XorW(b, a), a) = XorW(b, XorW(a, a)) /\ XorW(b, XorW(a, a)) = b
  BY BitOps, XorAssoc
<1>3. XorW(a, b) = XorW(b, a)
  BY BitOps
<1>. QED  BY <1>1, <1>2, <1>3

(* Equal words cancel.                                                     *)
LEMMA XorZero ==
  ASSUME NEW a \in Ring, NEW b \in Ring
  PROVE  XorW(a, b) = 0 <=> a = b
<1>1. XorW(a, b) = 0 => a = b
  <2>1. XorW(XorW(a, b), b) = a /\ XorW(0, b) = b
    BY XorUndo, BitOps
  <2>. QED  BY <2>1
<1>. QED  BY <1>1, BitOps

(* Two parties that open x ^ a and y ^ b, where a & b = c, and.            *)
(* The same with & and ^.                                                  *)
AndTriple(x1, x2, y1, y2, p1, p2) ==
  \E a1, a2, b1, b2, c1, c2, v, w \in Ring :
    /\ AndW(XorW(a1, a2), XorW(b1, b2)) = XorW(c1, c2)
    /\ v = XorW(XorW(a1, x1), XorW(a2, x2))
    /\ w = XorW(XorW(b1, y1), XorW(b2, y2))
    /\ p1 = XorW(XorW(XorW(0, AndW(v, b1)), AndW(w, a1)), c1)
    /\ p2 = XorW(XorW(XorW(AndW(v, w), AndW(v, b2)), AndW(w, a2)), c2)
LEMMA BeaverAnds ==
  ASSUME NEW x1 \in Ring, NEW x2 \in Ring, NEW y1 \in Ring, NEW y2 \in Ring, NEW p1, NEW p2,
         AndTriple(x1, x2, y1, y2, p1, p2)
  PROVE  p1 \in Ring /\ p2 \in Ring /\ XorW(p1, p2) = AndW(XorW(x1, x2), XorW(y1, y2))
<1> SUFFICES ASSUME NEW a1 \in Ring, NEW a2 \in Ring, NEW b1 \in Ring, NEW b2 \in Ring,
                    NEW c1 \in Ring, NEW c2 \in Ring, NEW v \in Ring, NEW w \in Ring,
                    AndW(XorW(a1, a2), XorW(b1, b2)) = XorW(c1, c2),
                    v = XorW(XorW(a1, x1), XorW(a2, x2)),
                    w = XorW(XorW(b1, y1), XorW(b2, y2)),
                    p1 = XorW(XorW(XorW(0, AndW(v, b1)), AndW(w, a1)), c1),
                    p2 = XorW(XorW(XorW(AndW(v, w), AndW(v, b2)), AndW(w, a2)), c2)
             PROVE  p1 \in Ring /\ p2 \in Ring /\ XorW(p1, p2) = AndW(XorW(x1, x2), XorW(y1, y2))
  BY DEF AndTriple
<1> DEFINE X == XorW(x1, x2)
           Y == XorW(y1, y2)
           A == XorW(a1, a2)
           B == XorW(b1, b2)
           C == XorW(c1, c2)
           vb1 == AndW(v, b1)
           vb2 == AndW(v, b2)
           wa1 == AndW(w, a1)
           wa2 == AndW(w, a2)
           vw  == AndW(v, w)
<1>1. X \in Ring /\ Y \in Ring /\ A \in Ring /\ B \in Ring /\ C \in Ring
  BY BitOps
<1>2. vb1 \in Ring /\ vb2 \in Ring /\ wa1 \in Ring /\ wa2 \in Ring /\ vw \in Ring
  BY BitOps
<1>3. v = XorW(A, X) /\ w = XorW(B, Y)
  BY XorPairs
<1>4. XorW(vb1, vb2) = AndW(v, B) /\ XorW(wa1, wa2) = AndW(w, A)
  BY AndOverXor
<1>5. p1 = XorW(XorW(vb1, wa1), c1) /\ p2 = XorW(XorW(XorW(vw, vb2), wa2), c2)
  BY <1>2, BitOps
<1>6. AndW(A, B) = C
  OBVIOUS
<1> HIDE DEF X, Y, A, B, C, vb1, vb2, wa1, wa2, vw
<1>7. /\ XorW(vb1, wa1) \in Ring /\ XorW(vw, vb2) \in Ring /\ XorW(XorW(vw, vb2), wa2) \in Ring
      /\ p1 \in Ring /\ p2 \in Ring
  BY <1>2, <1>5, BitOps
<1>8. XorW(p1, p2) = XorW(XorW(XorW(vb1, wa1), XorW(XorW(vw, vb2), wa2)), C)
  BY <1>5, <1>7, XorPairs DEF C
<1>9. XorW(XorW(vb1, wa1), XorW(XorW(vw, vb2), wa2))
        = XorW(XorW(vb1, XorW(vw, vb2)), XorW(wa1, wa2))
  BY SMTT(30), <1>2, <1>7, XorPairs
<1>10. XorW(vb1, XorW(vw, vb2)) = XorW(vw, XorW(vb1, vb2))
  <2>1. XorW(vb1, XorW(vw, vb2)) = XorW(XorW(vb1, vw), vb2)
    BY <1>2, XorAssoc
  <2>2. XorW(vb1, vw) = XorW(vw, vb1)
    BY <1>2, BitOps
  <2>3. XorW(XorW(vw, vb1), vb2) = XorW(vw, XorW(vb1, vb2))
    BY <1>2, XorAssoc
  <2>. QED  BY <2>1, <2>2, <2>3
<1>11. XorW(vw, AndW(v, B)) = AndW(v, Y)
  <2>1. XorW(w, B) = Y
    BY <1>1, <1>3, XorUndo
  <2>2. AndW(v, XorW(w, B)) = XorW(AndW(v, w), AndW(v, B))
    BY <1>1, AndOverXor
  <2>. QED  BY <2>1, <2>2 DEF vw
<1>12. XorW(AndW(w, A), C) = AndW(A, Y)
  <2>1. XorW(w, B) = Y
    BY <1>1, <1>3, XorUndo
  <2>2. AndW(A, XorW(w, B)) = XorW(AndW(A, w), AndW(A, B)) /\ AndW(A, w) = AndW(w, A)
    BY <1>1, AndOverXor, BitOps
  <2>. QED  BY <1>6, <2>1, <2>2
<1>13. XorW(p1, p2) = XorW(XorW(AndW(v, Y), AndW(w, A)), C)
  BY <1>4, <1>8, <1>9, <1>10, <1>11
<1>14. AndW(v, Y) \in Ring /\ AndW(w, A) \in Ring /\ AndW(A, Y) \in Ring
  BY <1>1, BitOps
<1>15. XorW(XorW(AndW(v, Y), AndW(w, A)), C) = XorW(AndW(v, Y), AndW(A, Y))
  BY <1>1, <1>12, <1>14, XorAssoc
<1>16. XorW(AndW(v, Y), AndW(A, Y)) = AndW(X, Y)
  <2>1. AndW(v, Y) = AndW(Y, v) /\ AndW(A, Y) = AndW(Y, A) /\ AndW(X, Y) = AndW(Y, X)
    BY <1>1, BitOps
  <2>2. AndW(Y, XorW(v, A)) = XorW(AndW(Y, v), AndW(Y, A))
    BY <1>1, AndOverXor
  <2>3. XorW(v, A) = X
    BY <1>1, <1>3, XorUndo
  <2>. QED  BY <2>1, <2>2, <2>3
<1>. QED  BY <1>7, <1>13, <1>15, <1>16 DEF X, Y
-----------------------------------------------------------------------------
(* Parts of words.                                                         *)
LEMMA SmallMod ==
  ASSUME NEW m \in Nat, m > 0, NEW x \in Nat
  PROVE  /\ x < m => x % m = x
         /\ x < m * m => x \div m < m
<1>1. x < m => x % m = x
  OBVIOUS
<1>2. ASSUME x < m * m PROVE x \div m < m
  <2> DEFINE q == x \div m
             r == x % m
  <2>1. q \in Nat /\ r \in Nat /\ r < m /\ x = m * q + r
    BY DivMod
  <2> HIDE DEF q, r
  <2>2. CASE q >= m
    <3>1. PICK d \in Nat : q = m + d
      <4>1. q - m \in Nat /\ q = m + (q - m)
        BY <2>1, <2>2
      <4>. QED  BY <4>1
    <3>2. m * q = m * m + m * d /\ m * d \in Nat /\ m * m \in Nat
      BY <3>1
    <3>. QED  BY <1>2, <2>1, <3>2
  <2>3. CASE q < m
    BY <2>3 DEF q
  <2>. QED  BY <2>1, <2>2, <2>3
<1>. QED  BY <1>1, <1>2

LEMMA LayersFacts ==
  /\ Layers \in Nat /\ Layers > 0 /\ 2^Layers \in Nat /\ 2^Layers > 0
  /\ Modulus = 2^(2^Layers) /\ 1 \in 0 .. 2^Layers
<1>1. Layers \in Nat /\ Layers > 0 /\ Modulus = 2^(2^Layers)
  BY LayersAssumption
<1>2. 2^Layers \in Nat /\ 2^Layers > 0
  BY <1>1, PowNat
<1> DEFINE t == 2^Layers
<1>3. t \in Nat /\ t > 0
  BY <1>2
<1> HIDE DEF t
<1>4. 1 \in 0 .. t
  BY <1>3
<1>. QED  BY <1>1, <1>2, <1>4 DEF t

LEMMA PowBound ==
  ASSUME NEW w \in 0 .. 2^Layers
  PROVE  2^w \in Nat /\ 2^w > 0 /\ 2^w <= Modulus /\ \E d \in Nat : d > 0 /\ Modulus = 2^w * d
<1> DEFINE n == 2^Layers
<1>1. n \in Nat /\ Modulus = 2^n
  BY LayersFacts
<1>2. w \in Nat /\ n - w \in Nat /\ w + (n - w) = n
  <2>1. w \in 0 .. n
    OBVIOUS
  <2> HIDE DEF n
  <2>. QED  BY <1>1, <2>1
<1> HIDE DEF n
<1>3. Modulus = 2^w * 2^(n - w)
  BY <1>1, <1>2, PowAdd
<1>4. 2^w \in Nat /\ 2^w > 0 /\ 2^(n - w) \in Nat /\ 2^(n - w) > 0
  BY <1>2, PowNat
<1> DEFINE a == 2^w
           b == 2^(n - w)
<1>5. a \in Nat /\ a > 0 /\ b \in Nat /\ b > 0 /\ Modulus = a * b
  BY <1>3, <1>4
<1> HIDE DEF a, b
<1>6. a <= Modulus
  <2>1. PICK c \in Nat : b = 1 + c
    <3>1. b - 1 \in Nat /\ b = 1 + (b - 1)
      BY <1>5
    <3>. QED  BY <3>1
  <2>2. a * b = a + a * c /\ a * c \in Nat
    BY <1>5, <2>1
  <2>. QED  BY <1>5, <2>2
<1>. QED  BY <1>5, <1>6 DEF a

LEMMA ModulusEven == \E d \in Nat : Modulus = 2 * d
<1>1. 2^1 = 2
  OBVIOUS
<1>2. \E d \in Nat : d > 0 /\ Modulus = 2^1 * d
  BY LayersFacts, PowBound
<1>. QED  BY <1>1, <1>2

(* Cutting bits off a word leaves a word.                                  *)
LEMMA LowBitsFacts ==
  ASSUME NEW x \in Ring, NEW w \in 0 .. 2^Layers
  PROVE  /\ LowBits(x, w) \in Ring /\ LowBits(x, w) < 2^w /\ LowBits(x, w) \in Nat
         /\ Shr(x, w) \in Ring
         /\ x < 2^w => LowBits(x, w) = x
         /\ x = 2^w * Shr(x, w) + LowBits(x, w)
<1> DEFINE m == 2^w
<1>1. m \in Nat /\ m > 0 /\ m <= Modulus
  BY PowBound
<1>2. x \in Nat /\ x < Modulus
  BY RingInt
<1> HIDE DEF m
<1>3. /\ x \div m \in Nat /\ x % m \in Nat /\ (x % m) < m /\ x = m * (x \div m) + (x % m)
      /\ x < m => x % m = x
  BY <1>1, <1>2, DivMod, SmallMod
<1>4. x \div m <= x
  <2> DEFINE q == x \div m
             r == x % m
  <2>1. q \in Nat /\ r \in Nat /\ x = m * q + r
    BY <1>3
  <2> HIDE DEF q, r
  <2>2. PICK c \in Nat : m = 1 + c
    <3>1. m - 1 \in Nat /\ m = 1 + (m - 1)
      BY <1>1
    <3>. QED  BY <3>1
  <2>3. m * q = q + c * q /\ c * q \in Nat
    BY <2>1, <2>2
  <2>4. q <= x
    BY <1>2, <2>1, <2>3
  <2>. QED  BY <2>4 DEF q
<1>5. x % m \in Ring /\ x \div m \in Ring
  <2> DEFINE q == x \div m
             r == x % m
  <2>1. q \in Nat /\ r \in Nat /\ r < m /\ q <= x
    BY <1>3, <1>4
  <2> HIDE DEF q, r
  <2>2. q \in Ring /\ r \in Ring
    BY <1>1, <1>2, <2>1, ModulusFacts DEF Ring
  <2>. QED  BY <2>2 DEF q, r
<1>. QED  BY <1>3, <1>5 DEF m, LowBits, Shr

LEMMA BitParts ==
  ASSUME NEW x \in Ring, NEW y \in Ring, NEW w \in 0 .. 2^Layers
  PROVE  /\ XorW(LowBits(x, w), LowBits(y, w)) = LowBits(XorW(x, y), w)
         /\ XorW(Shr(x, w), Shr(y, w)) = Shr(XorW(x, y), w)
         /\ AndW(LowBits(x, w), LowBits(y, w)) = LowBits(AndW(x, y), w)
BY BitAssumption DEF LowBits, Shr
-----------------------------------------------------------------------------
(* a | b = ~(~a & ~b).                                                     *)
LEMMA ComplementFacts ==
  ASSUME NEW x \in Ring
  PROVE  /\ Complement(x) \in Ring /\ Complement(x) = XorW(x, Modulus - 1)
         /\ Modulus - 1 \in Ring /\ AndW(x, Modulus - 1) = x
         /\ Complement(x) = Modulus - 1 => x = 0
         /\ Complement(0) = Modulus - 1
         /\ Complement(x) = 0 <=> x = Modulus - 1
<1>1. Modulus - 1 \in Ring /\ Complement(x) \in Ring
  BY ModulusFacts DEF Ring, Complement
<1>2. AndW(x, Modulus - 1) = x /\ XorW(x, Modulus - 1) = Modulus - 1 - x
  BY BitAssumption
<1>3. x \in Int /\ Modulus \in Int
  BY RingInt, ModulusFacts
<1>. QED  BY <1>1, <1>2, <1>3 DEF Complement

LEMMA XorComplement ==
  ASSUME NEW x \in Ring, NEW y \in Ring
  PROVE  /\ XorW(Complement(x), y) = Complement(XorW(x, y))
         /\ XorW(x, Complement(y)) = Complement(XorW(x, y))
<1> DEFINE m == Modulus - 1
<1>1. m \in Ring /\ Complement(x) = XorW(x, m) /\ Complement(y) = XorW(y, m)
  BY ComplementFacts
<1>2. XorW(x, y) \in Ring /\ Complement(XorW(x, y)) = XorW(XorW(x, y), m)
  BY BitOps, ComplementFacts
<1> HIDE DEF m
<1>3. XorW(x, XorW(y, m)) = XorW(XorW(x, y), m)
  BY <1>1, XorAssoc
<1>4. XorW(XorW(x, m), y) = XorW(x, XorW(m, y)) /\ XorW(m, y) = XorW(y, m)
  BY <1>1, XorAssoc, BitOps
<1>. QED  BY <1>1, <1>2, <1>3, <1>4

LEMMA AndTwice ==
  ASSUME NEW x \in Ring, NEW y \in Ring
  PROVE  AndW(x, AndW(x, y)) = AndW(AndW(x, x), y) /\ AndW(x, x) = x
<1>1. \A u \in Ring : \A v \in Ring : AndW(u, u) = u /\
        \A z \in Ring : AndW(u, AndW(v, z)) = AndW(AndW(u, v), z)
  BY BitAssumption
<1>. QED  BY <1>1

LEMMA OrFacts ==
  ASSUME NEW h \in Ring, NEW l \in Ring, NEW r, r = AndW(Complement(h), Complement(l))
  PROVE  /\ r \in Ring /\ Complement(r) \in Ring
         /\ Complement(r) = 0 <=> h = 0 /\ l = 0
         /\ Complement(r) = XorW(XorW(AndW(h, l), l), h)
<1> DEFINE m == Modulus - 1
           ch == Complement(h)
           cl == Complement(l)
<1>1. /\ m \in Ring /\ ch \in Ring /\ cl \in Ring /\ ch = XorW(h, m) /\ cl = XorW(l, m)
      /\ (ch = m => h = 0) /\ (cl = m => l = 0)
      /\ AndW(ch, m) = ch /\ AndW(cl, m) = cl /\ AndW(h, m) = h /\ AndW(m, m) = m /\ AndW(l, m) = l
  BY ComplementFacts
<1>2. r = AndW(ch, cl) /\ r \in Ring /\ Complement(r) \in Ring /\ (Complement(r) = 0 <=> r = m)
  BY <1>1, BitOps, ComplementFacts
<1>3. r = m => h = 0 /\ l = 0
  <2> SUFFICES ASSUME r = m PROVE h = 0 /\ l = 0
    OBVIOUS
  <2> HIDE DEF m, ch, cl
  <2>1. /\ AndW(ch, AndW(ch, cl)) = AndW(AndW(ch, ch), cl) /\ AndW(ch, ch) = ch
        /\ AndW(cl, AndW(cl, ch)) = AndW(AndW(cl, cl), ch) /\ AndW(cl, cl) = cl
        /\ AndW(cl, ch) = AndW(ch, cl)
    <3>1. ch \in Ring /\ cl \in Ring
      BY <1>1
    <3>2. AndW(cl, ch) = AndW(ch, cl)
      BY <3>1, BitOps
    <3>. QED  BY <3>1, <3>2, AndTwice
  <2>2. ch = m /\ cl = m
    BY <1>1, <1>2, <2>1
  <2>. QED  BY <1>1, <2>2
<1>4. h = 0 /\ l = 0 => r = m
  <2>1. Complement(0) = m
    BY ComplementFacts
  <2>. QED  BY <1>1, <1>2, <2>1
<1>5. Complement(r) = XorW(XorW(AndW(h, l), l), h)
  <2> HIDE DEF m, ch, cl
  <2>1. AndW(ch, cl) = XorW(AndW(ch, l), AndW(ch, m))
    BY <1>1, AndOverXor
  <2>2. AndW(ch, l) = AndW(l, ch) /\ AndW(l, ch) = XorW(AndW(l, h), AndW(l, m)) /\ AndW(l, h) = AndW(h, l)
    BY <1>1, AndOverXor, BitOps
  <2>3. r = XorW(XorW(AndW(h, l), l), XorW(h, m))
    BY <1>1, <1>2, <2>1, <2>2
  <2> DEFINE a == XorW(AndW(h, l), l)
  <2>4. a \in Ring
    BY BitOps
  <2> HIDE DEF a
  <2>5. r = XorW(XorW(a, h), m)
    BY <1>1, <2>3, <2>4, XorAssoc DEF a
  <2>6. XorW(a, h) \in Ring
    BY <2>4, BitOps
  <2>7. Complement(r) = XorW(r, m)
    BY <1>2, ComplementFacts DEF m
  <2>8. XorW(XorW(XorW(a, h), m), m) = XorW(a, h)
    BY <1>1, <2>6, XorUndo
  <2>. QED  BY <2>5, <2>7, <2>8 DEF a
<1>. QED  BY <1>2, <1>3, <1>4, <1>5

(* The or of the two halves of z, each w bits wide.                        *)
LEMMA OrOfHalves ==
  ASSUME NEW w \in 0 .. 2^Layers, NEW z \in Ring, z < 2^w * 2^w, NEW r,
         r = AndW(Complement(LowBits(Shr(z, w), w)), Complement(LowBits(z, w)))
  PROVE  /\ r \in Ring /\ Complement(r) \in Ring /\ Complement(r) < 2^w
         /\ Complement(r) = 0 <=> z = 0
<1> DEFINE m == 2^w
           h == LowBits(Shr(z, w), w)
           l == LowBits(z, w)
           o == Complement(r)
<1>1. m \in Nat /\ m > 0
  BY PowBound
<1>2. /\ Shr(z, w) \in Ring /\ l \in Ring /\ l < m /\ z = m * Shr(z, w) + l
  BY LowBitsFacts
<1>3. h \in Ring /\ h < m /\ (Shr(z, w) < m => h = Shr(z, w))
  BY <1>2, LowBitsFacts
<1>4. Shr(z, w) < m
  <2>1. z \in Nat /\ z < m * m
    BY RingInt
  <2> HIDE DEF m
  <2>2. z \div m < m
    BY <1>1, <2>1, SmallMod
  <2>. QED  BY <2>2 DEF Shr, m
<1>5. /\ r \in Ring /\ o \in Ring /\ (o = 0 <=> h = 0 /\ l = 0)
      /\ o = XorW(XorW(AndW(h, l), l), h)
  BY <1>2, <1>3, OrFacts
<1>6. z = 0 <=> h = 0 /\ l = 0
  <2>1. h = Shr(z, w) /\ z = m * h + l /\ h \in Nat /\ l \in Nat
    BY <1>2, <1>3, <1>4, RingInt
  <2> HIDE DEF m, h, l
  <2>2. m * h \in Nat /\ (m * h = 0 => h = 0) /\ (h = 0 => m * h = 0)
    BY <1>1, <2>1
  <2>. QED  BY <2>1, <2>2
<1>7. LowBits(h, w) = h /\ LowBits(l, w) = l
  BY <1>2, <1>3, LowBitsFacts
<1>8. LowBits(o, w) = o
  <2> HIDE DEF h, l, o
  <2>1. AndW(h, l) \in Ring /\ XorW(AndW(h, l), l) \in Ring
    BY <1>2, <1>3, BitOps
  <2>2. LowBits(AndW(h, l), w) = AndW(h, l)
    BY <1>2, <1>3, <1>7, BitParts
  <2>3. LowBits(XorW(AndW(h, l), l), w) = XorW(AndW(h, l), l)
    BY <1>2, <1>7, <2>1, <2>2, BitParts
  <2>4. LowBits(XorW(XorW(AndW(h, l), l), h), w) = XorW(XorW(AndW(h, l), l), h)
    BY <1>3, <1>7, <2>1, <2>3, BitParts
  <2>. QED  BY <1>5, <2>4
<1>9. o < m
  <2>1. LowBits(o, w) < m
    BY <1>5, LowBitsFacts
  <2>. QED  BY <1>8, <2>1
<1>. QED  BY <1>5, <1>6, <1>9

(* The last layer, where the halves are bits.                              *)
LEMMA LastLayer ==
  ASSUME NEW r \in Ring, Complement(r) < 2
  PROVE  LowBits(r, 1) = IF Complement(r) = 0 THEN 1 ELSE 0
<1>1. 2^1 = 2
  OBVIOUS
<1>2. PICK d \in Nat : Modulus = 2 * d
  BY ModulusEven
<1>3. Modulus > 1 /\ r \in Nat /\ r < Modulus /\ Complement(r) = Modulus - 1 - r
  BY ModulusFacts, RingInt DEF Complement
<1>4. CASE Complement(r) = 0
  <2>1. r = 2 * (d - 1) + 1 /\ d - 1 \in Nat
    BY <1>2, <1>3, <1>4
  <2>2. r % 2 = 1
    BY <2>1
  <2>. QED  BY <1>1, <1>4, <2>2 DEF LowBits
<1>5. CASE Complement(r) # 0
  <2>1. Complement(r) = 1
    <3> DEFINE o == Complement(r)
    <3>1. o \in Int /\ o >= 0 /\ o < 2 /\ o # 0
      BY <1>3, <1>5, ComplementFacts, RingInt
    <3> HIDE DEF o
    <3>2. o = 1
      BY <3>1
    <3>. QED  BY <3>2 DEF o
  <2>2. r = 2 * (d - 1) /\ d - 1 \in Nat
    BY <1>2, <1>3, <2>1
  <2>3. r % 2 = 0
    BY <2>2
  <2>. QED  BY <1>1, <1>5, <2>3 DEF LowBits
<1>. QED  BY <1>4, <1>5

-----------------------------------------------------------------------------
(***************************************************************************)
(* Each gate that a party evaluates alone yields shares of the value that  *)
(* the gate has in the clear, whatever shares of the inputs it is given.   *)
(***************************************************************************)
(* Sums of words.                                                          *)
LEMMA TotalNext ==
  ASSUME NEW x
  PROVE  Total(x, 0) = 0 /\ \A k \in Nat : Total(x, k + 1) = Plus(Total(x, k), x[k + 1])
<1>1. \A k : Total(x, k) = Sum(x, k, Modulus)
  BY DEF Total, Sum, Plus
<1>. QED  BY <1>1, SumNext DEF Plus

(* The sum of words is a word and depends on these words alone.            *)
LEMMA TotalSame ==
  ASSUME NEW n \in Nat, NEW x, NEW y, \A i \in 1 .. n : x[i] = y[i]
  PROVE  Total(x, n) = Total(y, n)
<1> DEFINE T == {k \in Nat : k <= n => Total(x, k) = Total(y, k)}
<1>1. 0 \in T
  BY TotalNext
<1>2. ASSUME NEW k \in T PROVE k + 1 \in T
  <2>1. k \in Nat /\ (k + 1 <= n => k + 1 \in 1 .. n /\ k <= n)
    OBVIOUS
  <2>. QED  BY <2>1, TotalNext
<1>3. T = Nat
  <2>1. T \in SUBSET Nat
    OBVIOUS
  <2> HIDE DEF T
  <2>. QED  BY <1>1, <1>2, <2>1, NatInd
<1>. QED  BY <1>3

LEMMA TotalWord ==
  ASSUME NEW n \in Nat, NEW x, \A i \in 1 .. n : x[i] \in Ring
  PROVE  \A k \in 0 .. n : Total(x, k) \in Ring
<1> DEFINE T == {k \in Nat : k <= n => Total(x, k) \in Ring}
<1>1. 0 \in T
  BY TotalNext, BitOps, ModulusFacts DEF Ring
<1>2. ASSUME NEW k \in T PROVE k + 1 \in T
  <2>1. k \in Nat /\ (k + 1 <= n => k + 1 \in 1 .. n /\ k <= n)
    OBVIOUS
  <2>. QED  BY <2>1, TotalNext, RingOps
<1>3. T = Nat
  <2>1. T \in SUBSET Nat
    OBVIOUS
  <2> HIDE DEF T
  <2>. QED  BY <1>1, <1>2, <2>1, NatInd
<1>. QED  BY <1>3
-----------------------------------------------------------------------------
(* Shares are combined share by share.                                     *)
LEMMA RingConsts == 0 \in Ring /\ 1 \in Ring /\ Is(0, 0) /\ Is(1, 1)
<1>1. 0 \in Ring /\ 1 \in Ring
  BY ModulusFacts DEF Ring
<1>. QED  BY <1>1, IsWord

LEMMA Linear ==
  ASSUME NEW a \in Ring, NEW b \in Ring, NEW c \in Ring, NEW d \in Ring
  PROVE  /\ Plus(Plus(a, b), Plus(c, d)) = Plus(Plus(a, c), Plus(b, d))
         /\ Minus(Plus(a, b), Plus(c, d)) = Plus(Minus(a, c), Minus(b, d))
         /\ Times(Plus(a, b), c) = Plus(Times(a, c), Times(b, c))
         /\ Plus(a, 0) = a /\ Plus(0, a) = a /\ Minus(a, 0) = a
         /\ Plus(a, b) = Plus(b, a)
         /\ Plus(Minus(a, b), b) = a /\ Minus(Plus(a, b), b) = a
         /\ Plus(Plus(a, b), c) = Plus(a, Plus(b, c))
         /\ Minus(a, Minus(a, b)) = b
<1>1. Is(a, a) /\ Is(b, b) /\ Is(c, c) /\ Is(d, d) /\ Is(0, 0)
      /\ a \in Int /\ b \in Int /\ c \in Int /\ d \in Int
  BY IsWord, RingInt, RingConsts
<1>2. Plus(Plus(a, b), Plus(c, d)) = Plus(Plus(a, c), Plus(b, d))
  <2>1. Is(Plus(Plus(a, b), Plus(c, d)), (a + b) + (c + d))
    BY <1>1, IsPlus
  <2>2. Is(Plus(Plus(a, c), Plus(b, d)), (a + c) + (b + d))
    BY <1>1, IsPlus
  <2>3. (a + c) + (b + d) = (a + b) + (c + d)
    BY <1>1
  <2>. QED  BY <2>1, <2>2, <2>3, IsSame
<1>3. Minus(Plus(a, b), Plus(c, d)) = Plus(Minus(a, c), Minus(b, d))
  <2>1. Is(Minus(Plus(a, b), Plus(c, d)), (a + b) - (c + d))
    BY <1>1, IsPlus, IsMinus
  <2>2. Is(Plus(Minus(a, c), Minus(b, d)), (a - c) + (b - d))
    BY <1>1, IsPlus, IsMinus
  <2>3. (a - c) + (b - d) = (a + b) - (c + d)
    BY <1>1
  <2>. QED  BY <2>1, <2>2, <2>3, IsSame
<1>4. Times(Plus(a, b), c) = Plus(Times(a, c), Times(b, c))
  <2>1. Is(Times(Plus(a, b), c), (a + b) * c)
    BY <1>1, IsPlus, IsTimes
  <2>2. Is(Plus(Times(a, c), Times(b, c)), a * c + b * c)
    BY <1>1, IsPlus, IsTimes
  <2>3. (a + b) * c = a * c + b * c
    BY <1>1
  <2>. QED  BY <2>1, <2>2, <2>3, IsSame
<1>5. Plus(a, 0) = a /\ Plus(0, a) = a /\ Minus(a, 0) = a
  <2>1. Is(Plus(a, 0), a + 0) /\ Is(Plus(0, a), 0 + a) /\ Is(Minus(a, 0), a - 0)
    BY <1>1, IsPlus, IsMinus
  <2>2. a + 0 = a /\ 0 + a = a /\ a - 0 = a
    BY <1>1
  <2>. QED  BY <1>1, <2>1, <2>2, IsSame
<1>6. Plus(a, b) = Plus(b, a)
  <2>1. a + b = b + a
    BY <1>1
  <2>. QED  BY <2>1 DEF Plus
<1>7. Plus(Minus(a, b), b) = a /\ Minus(Plus(a, b), b) = a
  <2>1. Is(Plus(Minus(a, b), b), (a - b) + b) /\ Is(Minus(Plus(a, b), b), (a + b) - b)
    BY <1>1, IsPlus, IsMinus
  <2>2. (a - b) + b = a /\ (a + b) - b = a
    BY <1>1
  <2>. QED  BY <1>1, <2>1, <2>2, IsSame
<1>8. Plus(Plus(a, b), c) = Plus(a, Plus(b, c))
  <2>1. Is(Plus(Plus(a, b), c), (a + b) + c)
    BY <1>1, IsPlus
  <2>2. Is(Plus(a, Plus(b, c)), a + (b + c))
    BY <1>1, IsPlus
  <2>3. a + (b + c) = (a + b) + c
    BY <1>1
  <2>. QED  BY <2>1, <2>2, <2>3, IsSame
<1>9. Minus(a, Minus(a, b)) = b
  <2>1. Is(Minus(a, Minus(a, b)), a - (a - b))
    BY <1>1, IsMinus
  <2>2. a - (a - b) = b
    BY <1>1
  <2>. QED  BY <1>1, <2>1, <2>2, IsSame
<1>. QED  BY <1>2, <1>3, <1>4, <1>5, <1>6, <1>7, <1>8, <1>9

(* Vectors of shares, and the words they are shares of.                    *)
Shared(x, y, z, n) ==
  \A j \in 1 .. n : x[j] \in Ring /\ y[j] \in Ring /\ z[j] = Plus(x[j], y[j])

LEMMA SharedWord ==
  ASSUME NEW n, NEW x, NEW y, NEW z, Shared(x, y, z, n), NEW j \in 1 .. n
  PROVE  x[j] \in Ring /\ y[j] \in Ring /\ z[j] = Plus(x[j], y[j]) /\ z[j] \in Ring
BY RingOps DEF Shared

LEMMA SharedTotal ==
  ASSUME NEW n \in Nat, NEW x, NEW y, NEW z, Shared(x, y, z, n), NEW k \in 0 .. n
  PROVE  /\ Total(x, k) \in Ring /\ Total(y, k) \in Ring /\ Total(z, k) \in Ring
         /\ Total(z, k) = Plus(Total(x, k), Total(y, k))
<1>1. \A j \in 1 .. n : x[j] \in Ring /\ y[j] \in Ring /\ z[j] = Plus(x[j], y[j]) /\ z[j] \in Ring
  BY SharedWord
<1>2. \A i \in 0 .. n : Total(x, i) \in Ring /\ Total(y, i) \in Ring /\ Total(z, i) \in Ring
  BY <1>1, TotalWord
<1> DEFINE T == {i \in Nat : i <= n => Total(z, i) = Plus(Total(x, i), Total(y, i))}
<1>3. 0 \in T
  BY TotalNext, RingConsts, Linear
<1>4. ASSUME NEW i \in T PROVE i + 1 \in T
  <2> SUFFICES ASSUME i + 1 <= n
               PROVE  Total(z, i + 1) = Plus(Total(x, i + 1), Total(y, i + 1))
    OBVIOUS
  <2>1. i \in 0 .. n /\ i + 1 \in 1 .. n /\ i \in Nat
    OBVIOUS
  <2>2. Total(z, i) = Plus(Total(x, i), Total(y, i))
    BY <2>1
  <2>3. /\ Total(x, i + 1) = Plus(Total(x, i), x[i + 1])
        /\ Total(y, i + 1) = Plus(Total(y, i), y[i + 1])
        /\ Total(z, i + 1) = Plus(Total(z, i), z[i + 1])
    BY <2>1, TotalNext
  <2>4. /\ Total(x, i) \in Ring /\ Total(y, i) \in Ring /\ x[i + 1] \in Ring /\ y[i + 1] \in Ring
        /\ z[i + 1] = Plus(x[i + 1], y[i + 1])
    BY <1>1, <1>2, <2>1
  <2>5. Plus(Plus(Total(x, i), Total(y, i)), Plus(x[i + 1], y[i + 1]))
          = Plus(Plus(Total(x, i), x[i + 1]), Plus(Total(y, i), y[i + 1]))
    BY <2>4, Linear
  <2>. QED  BY <2>2, <2>3, <2>4, <2>5
<1>5. T = Nat
  <2>1. T \in SUBSET Nat
    OBVIOUS
  <2> HIDE DEF T
  <2>. QED  BY <1>3, <1>4, <2>1, NatInd
<1>. QED  BY <1>2, <1>5
-----------------------------------------------------------------------------
(* Local gates.  Shares o1 and o2 of the outputs of gate g stand for v.    *)
Yields(g, o1, o2, v) ==
  \A j \in 1 .. Len(g.outs) :
    /\ o1[j] \in Ring /\ o2[j] \in Ring /\ v[j] \in Ring
    /\ v[j] = Opening(Sort(g), o1[j], o2[j])
    /\ Sort(g) = "zero" => XorW(o1[j], o2[j]) < 2^Half(g.param)
(* The inputs are arithmetic shares.                                       *)
ArithIn(g, a, b, v) ==
  /\ Shared(On(a, g.in1), On(b, g.in1), On(v, g.in1), Len(g.in1))
  /\ Shared(On(a, g.in2), On(b, g.in2), On(v, g.in2), Len(g.in2))

LEMMA ArithOut ==
  ASSUME NEW g, NEW o1, NEW o2, NEW v, Sort(g) = "arith", Shared(o1, o2, v, Len(g.outs))
  PROVE  Yields(g, o1, o2, v)
<1>1. \A j \in 1 .. Len(g.outs) :
        o1[j] \in Ring /\ o2[j] \in Ring /\ v[j] = Plus(o1[j], o2[j]) /\ v[j] \in Ring
  BY SharedWord
<1>. QED  BY <1>1 DEF Yields, Opening

LEMMA Lens1 ==
  ASSUME NEW g \in Gate, LengthsFit(g)
  PROVE  /\ Len(g.in1) \in Nat /\ Len(g.in2) \in Nat /\ Len(g.outs) \in Nat
         /\ g.type \in {"ConvertB2A", "EqualsZero", "ConstMul"} => Len(g.in1) = 1 /\ Len(g.outs) = 1
         /\ g.type \in {"Mul", "And", "Add", "Sub", "Xor"} =>
              Len(g.in1) = 1 /\ Len(g.in2) = 1 /\ Len(g.outs) = 1
         /\ g.type \in {"AddVec", "Propagate", "Reorder", "ReorderInverse"} =>
              Len(g.in2) = Len(g.in1) /\ Len(g.outs) = Len(g.in1)
         /\ g.type = "Compose" => Len(g.outs) = 1
         /\ g.type \in {"Flip", "AddConstToVec", "PreparePropagate", "PrepareGather", "Gather",
                        "GenCompaction", "Reveal", "Shuffle", "DoubleShuffle"} =>
              Len(g.outs) = Len(g.in1)
         /\ g.type \in InputGate => Len(g.outs) = 1
<1> DEFINE t == g.type
           n == Len(g.in1)
           m == Len(g.in2)
           k == Len(g.outs)
<1>1. n \in Nat /\ m \in Nat /\ k \in Nat
  BY DEF Gate
<1>2. <<n, m, k>> =
    CASE t \in InputGate                                         -> <<0, 0, 1>>
      [] t \in {"ConvertB2A", "EqualsZero", "ConstAdd", "ConstMul"} -> <<1, 0, 1>>
      [] t \in {"Mul", "And", "Add", "Sub", "Xor"}               -> <<1, 1, 1>>
      [] t \in {"AddVec", "Propagate", "Reorder", "ReorderInverse"} -> <<n, n, n>>
      [] t = "Compose"                                           -> <<n, 0, 1>>
      [] OTHER                                                   -> <<n, 0, n>>
  BY DEF LengthsFit, Lengths
<1> HIDE DEF t, n, m, k
<1>3. t \in {"ConvertB2A", "EqualsZero", "ConstMul"} => <<n, m, k>> = <<1, 0, 1>>
  BY <1>2 DEF InputGate
<1>4. t \in {"Mul", "And", "Add", "Sub", "Xor"} => <<n, m, k>> = <<1, 1, 1>>
  BY <1>2 DEF InputGate
<1>5. t \in {"AddVec", "Propagate", "Reorder", "ReorderInverse"} => <<n, m, k>> = <<n, n, n>>
  BY <1>2 DEF InputGate
<1>6. t = "Compose" => <<n, m, k>> = <<n, 0, 1>>
  BY <1>2 DEF InputGate
<1>7. t \in {"Flip", "AddConstToVec", "PreparePropagate", "PrepareGather", "Gather",
             "GenCompaction", "Reveal", "Shuffle", "DoubleShuffle"} => <<n, m, k>> = <<n, 0, n>>
  BY <1>2 DEF InputGate
<1>8. t \in InputGate => <<n, m, k>> = <<0, 0, 1>>
  BY <1>2 DEF InputGate
<1>. QED  BY <1>1, <1>3, <1>4, <1>5, <1>6, <1>7, <1>8 DEF t, n, m, k

(* What the outputs of a gate are, kind by kind.                           *)
LEMMA ValueIs ==
  ASSUME NEW g, NEW x, NEW y, NEW pm
  PROVE  /\ g.type = "Mul" => Value(g, x, y, pm) = <<Times(x[1], y[1])>>
         /\ g.type = "Add" => Value(g, x, y, pm) = <<Plus(x[1], y[1])>>
         /\ g.type = "Sub" => Value(g, x, y, pm) = <<Minus(x[1], y[1])>>
         /\ g.type = "And" => Value(g, x, y, pm) = <<AndW(x[1], y[1])>>
         /\ g.type = "Xor" => Value(g, x, y, pm) = <<XorW(x[1], y[1])>>
         /\ g.type = "ConstMul" => Value(g, x, y, pm) = <<Times(x[1], g.cval)>>
         /\ g.type = "ConvertB2A" => Value(g, x, y, pm) = <<x[1] % 2>>
         /\ g.type = "EqualsZero" => Value(g, x, y, pm) =
              IF g.param = Layers - 1 THEN <<IF x[1] = 0 THEN 1 ELSE 0>>
                                      ELSE <<IF x[1] = 0 THEN 0 ELSE 1>>
         /\ g.type = "GenCompaction" => Value(g, x, y, pm) = Compaction(x)
         /\ g.type = "Reveal" => Value(g, x, y, pm) = x
         /\ g.type = "AddVec" => Value(g, x, y, pm) = AddedVec(x, y)
         /\ g.type = "Flip" => Value(g, x, y, pm) = Flipped(x)
         /\ g.type = "AddConstToVec" => Value(g, x, y, pm) = AddedConst(x, g.cval, g.param2)
         /\ g.type = "PreparePropagate" => Value(g, x, y, pm) = PreparedPropagate(x, g.param)
         /\ g.type = "Propagate" => Value(g, x, y, pm) = Propagated(x, y)
         /\ g.type = "PrepareGather" => Value(g, x, y, pm) = PreparedGather(x)
         /\ g.type = "Gather" => Value(g, x, y, pm) = Gathered(x, g.param)
         /\ g.type = "Compose" => Value(g, x, y, pm) = <<Composed(x)>>
         /\ g.type = "Reorder" => Value(g, x, y, pm) = Reordered(x, y)
         /\ g.type = "ReorderInverse" => Value(g, x, y, pm) = ReorderedBack(x, y)
         /\ g.type \in ShuffleGate /\ ~ g.reverse => Value(g, x, y, pm) = Moved(x, PermOfGate(g, pm))
         /\ g.type \in ShuffleGate /\ g.reverse => Value(g, x, y, pm) = MovedBack(x, PermOfGate(g, pm))
<1>1. ASSUME g.type = "Mul" PROVE Value(g, x, y, pm) = <<Times(x[1], y[1])>>
  BY <1>1 DEF Value, ShuffleGate
<1>2. ASSUME g.type = "Add" PROVE Value(g, x, y, pm) = <<Plus(x[1], y[1])>>
  BY <1>2 DEF Value, ShuffleGate
<1>3. ASSUME g.type = "Sub" PROVE Value(g, x, y, pm) = <<Minus(x[1], y[1])>>
  BY <1>3 DEF Value, ShuffleGate
<1>4. ASSUME g.type = "And" PROVE Value(g, x, y, pm) = <<AndW(x[1], y[1])>>
  BY <1>4 DEF Value, ShuffleGate
<1>5. ASSUME g.type = "Xor" PROVE Value(g, x, y, pm) = <<XorW(x[1], y[1])>>
  BY <1>5 DEF Value, ShuffleGate
<1>6. ASSUME g.type = "ConstMul" PROVE Value(g, x, y, pm) = <<Times(x[1], g.cval)>>
  BY <1>6 DEF Value, ShuffleGate
<1>7. ASSUME g.type = "ConvertB2A" PROVE Value(g, x, y, pm) = <<x[1] % 2>>
  BY <1>7 DEF Value, ShuffleGate
<1>8. ASSUME g.type = "EqualsZero" PROVE Value(g, x, y, pm) =
          IF g.param = Layers - 1 THEN <<IF x[1] = 0 THEN 1 ELSE 0>>
                                  ELSE <<IF x[1] = 0 THEN 0 ELSE 1>>
  BY <1>8 DEF Value, ShuffleGate
<1>9. ASSUME g.type = "GenCompaction" PROVE Value(g, x, y, pm) = Compaction(x)
  BY <1>9 DEF Value, ShuffleGate
<1>10. ASSUME g.type = "Reveal" PROVE Value(g, x, y, pm) = x
  BY <1>10 DEF Value, ShuffleGate
<1>11. ASSUME g.type = "AddVec" PROVE Value(g, x, y, pm) = AddedVec(x, y)
  BY <1>11 DEF Value, ShuffleGate
<1>12. ASSUME g.type = "Flip" PROVE Value(g, x, y, pm) = Flipped(x)
  BY <1>12 DEF Value, ShuffleGate
<1>13. ASSUME g.type = "AddConstToVec" PROVE Value(g, x, y, pm) = AddedConst(x, g.cval, g.param2)
  BY <1>13 DEF Value, ShuffleGate
<1>14. ASSUME g.type = "PreparePropagate" PROVE Value(g, x, y, pm) = PreparedPropagate(x, g.param)
  BY <1>14 DEF Value, ShuffleGate
<1>15. ASSUME g.type = "Propagate" PROVE Value(g, x, y, pm) = Propagated(x, y)
  BY <1>15 DEF Value, ShuffleGate
<1>16. ASSUME g.type = "PrepareGather" PROVE Value(g, x, y, pm) = PreparedGather(x)
  BY <1>16 DEF Value, ShuffleGate
<1>17. ASSUME g.type = "Gather" PROVE Value(g, x, y, pm) = Gathered(x, g.param)
  BY <1>17 DEF Value, ShuffleGate
<1>18. ASSUME g.type = "Compose" PROVE Value(g, x, y, pm) = <<Composed(x)>>
  BY <1>18 DEF Value, ShuffleGate
<1>19. ASSUME g.type = "Reorder" PROVE Value(g, x, y, pm) = Reordered(x, y)
  BY <1>19 DEF Value, ShuffleGate
<1>20. ASSUME g.type = "ReorderInverse" PROVE Value(g, x, y, pm) = ReorderedBack(x, y)
  BY <1>20 DEF Value, ShuffleGate
<1>21. g.type \in ShuffleGate /\ ~ g.reverse => Value(g, x, y, pm) = Moved(x, PermOfGate(g, pm))
  BY DEF Value, ShuffleGate
<1>22. g.type \in ShuffleGate /\ g.reverse => Value(g, x, y, pm) = MovedBack(x, PermOfGate(g, pm))
  BY DEF Value, ShuffleGate
<1>. QED  BY <1>1, <1>2, <1>3, <1>4, <1>5, <1>6, <1>7, <1>8, <1>9, <1>10, <1>11, <1>12, <1>13, <1>14, <1>15, <1>16, <1>17, <1>18, <1>19, <1>20, <1>21, <1>22

(* One word from one word of each input.                                   *)
LEMMA AddOpens ==
  ASSUME NEW g \in Gate, NEW a, NEW b, NEW v, NEW pm, LengthsFit(g), ArithIn(g, a, b, v),
         g.type \in {"Add", "Sub", "ConstMul"}
  PROVE  Yields(g, Local(1, g, a), Local(2, g, b), Value(g, On(v, g.in1), On(v, g.in2), pm))
<1> DEFINE x1 == On(a, g.in1)
           x2 == On(b, g.in1)
           x  == On(v, g.in1)
           y1 == On(a, g.in2)
           y2 == On(b, g.in2)
           y  == On(v, g.in2)
<1>1. Len(g.in1) = 1 /\ Len(g.outs) = 1 /\ (g.type # "ConstMul" => Len(g.in2) = 1)
      /\ g.cval \in Ring /\ Sort(g) = "arith"
  BY Lens1 DEF Gate, Sort
<1>2. /\ x1[1] \in Ring /\ x2[1] \in Ring /\ x[1] = Plus(x1[1], x2[1])
      /\ g.type # "ConstMul" => y1[1] \in Ring /\ y2[1] \in Ring /\ y[1] = Plus(y1[1], y2[1])
  <2>1. 1 \in 1 .. 1
    OBVIOUS
  <2>. QED  BY <1>1, <2>1 DEF ArithIn, Shared
<1>3. CASE g.type = "Add"
  <2>a. Local(1, g, a) = <<Plus(x1[1], y1[1])>>
    BY <1>3 DEF Local
  <2>b. Local(2, g, b) = <<Plus(x2[1], y2[1])>>
    BY <1>3 DEF Local
  <2>c. Value(g, x, y, pm) = <<Plus(x[1], y[1])>>
    BY <1>3, ValueIs
  <2> HIDE DEF x1, x2, x, y1, y2, y
  <2>2. Plus(x[1], y[1]) = Plus(Plus(x1[1], y1[1]), Plus(x2[1], y2[1]))
    BY <1>2, <1>3, Linear
  <2>3. Shared(<<Plus(x1[1], y1[1])>>, <<Plus(x2[1], y2[1])>>, <<Plus(x[1], y[1])>>, 1)
    BY <1>2, <1>3, <2>2, RingOps DEF Shared
  <2>. QED  BY <1>1, <2>a, <2>b, <2>c, <2>3, ArithOut DEF x, y
<1>4. CASE g.type = "Sub"
  <2>a. Local(1, g, a) = <<Minus(x1[1], y1[1])>>
    BY <1>4 DEF Local
  <2>b. Local(2, g, b) = <<Minus(x2[1], y2[1])>>
    BY <1>4 DEF Local
  <2>c. Value(g, x, y, pm) = <<Minus(x[1], y[1])>>
    BY <1>4, ValueIs
  <2> HIDE DEF x1, x2, x, y1, y2, y
  <2>2. Minus(x[1], y[1]) = Plus(Minus(x1[1], y1[1]), Minus(x2[1], y2[1]))
    BY <1>2, <1>4, Linear
  <2>3. Shared(<<Minus(x1[1], y1[1])>>, <<Minus(x2[1], y2[1])>>, <<Minus(x[1], y[1])>>, 1)
    BY <1>2, <1>4, <2>2, RingOps DEF Shared
  <2>. QED  BY <1>1, <2>a, <2>b, <2>c, <2>3, ArithOut DEF x, y
<1>5. CASE g.type = "ConstMul"
  <2>a. Local(1, g, a) = <<Times(x1[1], g.cval)>>
    BY <1>5 DEF Local
  <2>b. Local(2, g, b) = <<Times(x2[1], g.cval)>>
    BY <1>5 DEF Local
  <2>c. Value(g, x, y, pm) = <<Times(x[1], g.cval)>>
    BY <1>5, ValueIs
  <2> HIDE DEF x1, x2, x, y1, y2, y
  <2>2. Times(x[1], g.cval) = Plus(Times(x1[1], g.cval), Times(x2[1], g.cval))
    BY <1>1, <1>2, Linear
  <2>3. Shared(<<Times(x1[1], g.cval)>>, <<Times(x2[1], g.cval)>>, <<Times(x[1], g.cval)>>, 1)
    BY <1>1, <1>2, <2>2, RingOps DEF Shared
  <2>. QED  BY <1>1, <2>a, <2>b, <2>c, <2>3, ArithOut DEF x, y
<1>. QED  BY <1>3, <1>4, <1>5

(* Words of vectors.                                                       *)
LEMMA Inputs1 ==
  ASSUME NEW g \in Gate, NEW w
  PROVE  Len(On(w, g.in1)) = Len(g.in1) /\ Len(On(w, g.in2)) = Len(g.in2) /\ Len(g.in1) \in Nat
<1>1. g.in1 \in Seq(Nat) /\ g.in2 \in Seq(Nat)
  BY DEF Gate
<1>2. Len(On(w, g.in1)) = Len(g.in1) /\ Len(g.in1) \in Nat
  BY <1>1, OnLen
<1>3. Len(On(w, g.in2)) = Len(g.in2)
  BY <1>1, OnLen
<1>. QED  BY <1>2, <1>3

LEMMA EachOpens ==
  ASSUME NEW g \in Gate, NEW a, NEW b, NEW v, NEW pm, LengthsFit(g), ArithIn(g, a, b, v),
         g.type \in {"AddVec", "Flip", "AddConstToVec", "PreparePropagate", "Propagate", "PrepareGather"}
  PROVE  Yields(g, Local(1, g, a), Local(2, g, b), Value(g, On(v, g.in1), On(v, g.in2), pm))
<1> DEFINE x1 == On(a, g.in1)
           x2 == On(b, g.in1)
           x  == On(v, g.in1)
           y1 == On(a, g.in2)
           y2 == On(b, g.in2)
           y  == On(v, g.in2)
           n  == Len(g.in1)
           o1 == Local(1, g, a)
           o2 == Local(2, g, b)
           o  == Value(g, x, y, pm)
<1>1. /\ n \in Nat /\ Len(g.outs) = n /\ Sort(g) = "arith"
      /\ g.type \in {"AddVec", "Propagate"} => Len(g.in2) = n
      /\ Len(x1) = n /\ Len(x2) = n /\ Len(x) = n
      /\ g.cval \in Ring /\ g.param \in Nat /\ g.param2 \in Nat
  BY Lens1, Inputs1 DEF Gate, Sort
<1>2. Shared(x1, x2, x, n) /\ (Len(g.in2) = n => Shared(y1, y2, y, n))
  BY DEF ArithIn
<1>3. \A j \in 1 .. n : x1[j] \in Ring /\ x2[j] \in Ring /\ x[j] = Plus(x1[j], x2[j]) /\ x[j] \in Ring
  BY <1>2, SharedWord
<1>4. Len(g.in2) = n =>
        \A j \in 1 .. n : y1[j] \in Ring /\ y2[j] \in Ring /\ y[j] = Plus(y1[j], y2[j])
  BY <1>2, SharedWord
<1>5. ASSUME NEW j \in 1 .. n
      PROVE  /\ Total(x1, j) \in Ring /\ Total(x2, j) \in Ring
             /\ Total(x, j) = Plus(Total(x1, j), Total(x2, j))
  <2>1. j \in 0 .. n
    BY <1>1
  <2>. QED  BY <1>1, <1>2, <2>1, SharedTotal
<1>. SUFFICES Shared(o1, o2, o, n)
  BY <1>1, ArithOut
<1>. SUFFICES ASSUME NEW j \in 1 .. n
              PROVE  o1[j] \in Ring /\ o2[j] \in Ring /\ o[j] = Plus(o1[j], o2[j])
  BY DEF Shared
<1>6. /\ x1[j] \in Ring /\ x2[j] \in Ring /\ x[j] = Plus(x1[j], x2[j])
      /\ Len(g.in2) = n => y1[j] \in Ring /\ y2[j] \in Ring /\ y[j] = Plus(y1[j], y2[j])
  BY <1>3, <1>4
<1>7. CASE g.type = "AddVec"
  <2>1. o1 = [i \in 1 .. n |-> Plus(x1[i], y1[i])]
    BY <1>1, <1>7 DEF Local
  <2>2. o2 = [i \in 1 .. n |-> Plus(x2[i], y2[i])]
    BY <1>1, <1>7 DEF Local
  <2>3. o = [i \in 1 .. n |-> Plus(x[i], y[i])]
    BY <1>1, <1>7, ValueIs DEF AddedVec
  <2>4. o1[j] = Plus(x1[j], y1[j]) /\ o2[j] = Plus(x2[j], y2[j]) /\ o[j] = Plus(x[j], y[j])
    BY <2>1, <2>2, <2>3
  <2> HIDE DEF x1, x2, x, y1, y2, y, o1, o2, o
  <2>5. Plus(Plus(x1[j], x2[j]), Plus(y1[j], y2[j])) = Plus(Plus(x1[j], y1[j]), Plus(x2[j], y2[j]))
    BY <1>1, <1>6, <1>7, Linear
  <2>. QED  BY <1>1, <1>6, <1>7, <2>4, <2>5, RingOps
<1>8. CASE g.type = "Flip"
  <2>1. o1 = [i \in 1 .. n |-> Minus(1, x1[i])]
    BY <1>1, <1>8 DEF Local, One
  <2>2. o2 = [i \in 1 .. n |-> Minus(0, x2[i])]
    BY <1>1, <1>8 DEF Local, One
  <2>3. o = [i \in 1 .. n |-> Minus(1, x[i])]
    BY SMTT(30), <1>1, <1>8, ValueIs DEF Flipped
  <2>4. o1[j] = Minus(1, x1[j]) /\ o2[j] = Minus(0, x2[j]) /\ o[j] = Minus(1, x[j])
    BY <2>1, <2>2, <2>3
  <2> HIDE DEF x1, x2, x, y1, y2, y, o1, o2, o
  <2>5. Minus(Plus(1, 0), Plus(x1[j], x2[j])) = Plus(Minus(1, x1[j]), Minus(0, x2[j]))
    BY <1>6, RingConsts, Linear
  <2>6. Plus(1, 0) = 1
    BY RingConsts, Linear
  <2>. QED  BY <1>6, <2>4, <2>5, <2>6, RingOps, RingConsts
<1>9. CASE g.type = "AddConstToVec"
  <2>1. o1 = [i \in 1 .. n |-> IF i <= g.param2 THEN Plus(x1[i], g.cval) ELSE x1[i]]
    BY <1>1, <1>9 DEF Local
  <2>2. o2 = [i \in 1 .. n |-> x2[i]]
    BY <1>1, <1>9 DEF Local
  <2>3. o = [i \in 1 .. n |-> IF i <= g.param2 THEN Plus(x[i], g.cval) ELSE x[i]]
    BY <1>1, <1>9, ValueIs DEF AddedConst
  <2>4. /\ o1[j] = IF j <= g.param2 THEN Plus(x1[j], g.cval) ELSE x1[j]
        /\ o2[j] = x2[j]
        /\ o[j] = IF j <= g.param2 THEN Plus(x[j], g.cval) ELSE x[j]
    BY <2>1, <2>2, <2>3
  <2> DEFINE c == g.cval
  <2>5. c \in Ring
    BY <1>1
  <2> HIDE DEF x1, x2, x, y1, y2, y, o1, o2, o, c
  <2>6. Plus(Plus(x1[j], x2[j]), Plus(c, 0)) = Plus(Plus(x1[j], c), Plus(x2[j], 0))
    BY SMTT(30), <1>6, <2>5, RingConsts, Linear
  <2>7. Plus(c, 0) = c /\ Plus(x2[j], 0) = x2[j]
    BY <1>6, <2>5, Linear
  <2>. QED  BY <1>6, <2>4, <2>5, <2>6, <2>7, RingOps DEF c
<1>10. CASE g.type = "PreparePropagate"
  <2>1. o1 = [i \in 1 .. n |-> IF 1 < i /\ i <= g.param THEN Minus(x1[i], x1[i - 1]) ELSE x1[i]]
    BY <1>1, <1>10 DEF Local
  <2>2. o2 = [i \in 1 .. n |-> IF 1 < i /\ i <= g.param THEN Minus(x2[i], x2[i - 1]) ELSE x2[i]]
    BY <1>1, <1>10 DEF Local
  <2>3. o = [i \in 1 .. n |-> IF i \in 2 .. g.param THEN Minus(x[i], x[i - 1]) ELSE x[i]]
    BY SMTT(30), <1>1, <1>10, ValueIs DEF PreparedPropagate
  <2> DEFINE B == 1 < j /\ j <= g.param
  <2>4. /\ o1[j] = IF B THEN Minus(x1[j], x1[j - 1]) ELSE x1[j]
        /\ o2[j] = IF B THEN Minus(x2[j], x2[j - 1]) ELSE x2[j]
        /\ o[j] = IF B THEN Minus(x[j], x[j - 1]) ELSE x[j]
    <3>1. B <=> j \in 2 .. g.param
      BY <1>1
    <3> HIDE DEF x1, x2, x, o1, o2, o
    <3>. QED  BY <2>1, <2>2, <2>3, <3>1
  <2>5. B => j - 1 \in 1 .. n
    BY <1>1
  <2> HIDE DEF x1, x2, x, y1, y2, y, o1, o2, o, B, n
  <2>6. B => /\ x1[j - 1] \in Ring /\ x2[j - 1] \in Ring /\ x[j - 1] = Plus(x1[j - 1], x2[j - 1])
             /\ Minus(Plus(x1[j], x2[j]), Plus(x1[j - 1], x2[j - 1]))
                  = Plus(Minus(x1[j], x1[j - 1]), Minus(x2[j], x2[j - 1]))
    <3> SUFFICES ASSUME B PROVE B => /\ x1[j - 1] \in Ring /\ x2[j - 1] \in Ring /\ x[j - 1] = Plus(x1[j - 1], x2[j - 1])
             /\ Minus(Plus(x1[j], x2[j]), Plus(x1[j - 1], x2[j - 1]))
                  = Plus(Minus(x1[j], x1[j - 1]), Minus(x2[j], x2[j - 1]))
      OBVIOUS
    <3>1. /\ x1[j - 1] \in Ring /\ x2[j - 1] \in Ring /\ x[j - 1] = Plus(x1[j - 1], x2[j - 1])
      BY <1>3, <2>5
    <3>2. Minus(Plus(x1[j], x2[j]), Plus(x1[j - 1], x2[j - 1]))
                  = Plus(Minus(x1[j], x1[j - 1]), Minus(x2[j], x2[j - 1]))
      BY SMTT(30), <1>6, <3>1, Linear
    <3>. QED  BY <3>1, <3>2
  <2>. QED  BY <1>6, <2>4, <2>6, RingOps
<1>11. CASE g.type = "Propagate"
  <2>1. o1 = [i \in 1 .. n |-> Minus(Total(x1, i), y1[i])]
    BY <1>1, <1>11 DEF Local
  <2>2. o2 = [i \in 1 .. n |-> Minus(Total(x2, i), y2[i])]
    BY <1>1, <1>11 DEF Local
  <2>3. o = [i \in 1 .. n |-> Minus(Total(x, i), y[i])]
    BY <1>1, <1>11, ValueIs DEF Propagated
  <2>4. /\ o1[j] = Minus(Total(x1, j), y1[j]) /\ o2[j] = Minus(Total(x2, j), y2[j])
        /\ o[j] = Minus(Total(x, j), y[j])
    BY <2>1, <2>2, <2>3
  <2> HIDE DEF x1, x2, x, y1, y2, y, o1, o2, o
  <2>5. /\ Total(x1, j) \in Ring /\ Total(x2, j) \in Ring
        /\ Total(x, j) = Plus(Total(x1, j), Total(x2, j))
    BY <1>5
  <2>6. Minus(Plus(Total(x1, j), Total(x2, j)), Plus(y1[j], y2[j]))
          = Plus(Minus(Total(x1, j), y1[j]), Minus(Total(x2, j), y2[j]))
    BY <1>1, <1>6, <1>11, <2>5, Linear
  <2>. QED  BY <1>1, <1>6, <1>11, <2>4, <2>5, <2>6, RingOps
<1>12. CASE g.type = "PrepareGather"
  <2>1. o1 = [i \in 1 .. n |-> Total(x1, i)]
    BY <1>1, <1>12 DEF Local
  <2>2. o2 = [i \in 1 .. n |-> Total(x2, i)]
    BY <1>1, <1>12 DEF Local
  <2>3. o = [i \in 1 .. n |-> Total(x, i)]
    BY <1>1, <1>12, ValueIs DEF PreparedGather
  <2>4. o1[j] = Total(x1, j) /\ o2[j] = Total(x2, j) /\ o[j] = Total(x, j)
    BY <2>1, <2>2, <2>3
  <2>. QED  BY <1>5, <2>4
<1>. QED  BY <1>7, <1>8, <1>9, <1>10, <1>11, <1>12

LEMMA TimesShared ==
  ASSUME NEW a \in Ring, NEW b \in Ring, NEW m \in Nat
  PROVE  /\ Times(a, m) \in Ring /\ Times(b, m) \in Ring
         /\ Times(Plus(a, b), m) = Plus(Times(a, m), Times(b, m))
         /\ Trunc(Plus(a, b) * m) = Times(Plus(a, b), m)
<1>1. a \in Int /\ b \in Int /\ Is(Plus(a, b), a + b) /\ Plus(a, b) \in Ring /\ Plus(a, b) \in Int
  BY RingInt, IsWord, IsPlus, RingOps
<1>2. PICK q \in Int : a + b = Plus(a, b) + Modulus * q
  BY <1>1 DEF Is
<1>3. Is(Times(a, m), a * m) /\ Is(Times(b, m), b * m)
  BY <1>1, IsTrunc DEF Times
<1>4. Is(Times(Plus(a, b), m), Plus(a, b) * m)
  BY <1>1, IsTrunc DEF Times
<1>5. Is(Plus(Times(a, m), Times(b, m)), a * m + b * m)
  BY <1>3, IsPlus
<1>6. a * m + b * m = Plus(a, b) * m + Modulus * (q * m) /\ q * m \in Int /\ a * m + b * m \in Int
  <2> DEFINE s == Plus(a, b)
  <2>1. s \in Int /\ a + b = s + Modulus * q
    BY <1>1, <1>2
  <2> HIDE DEF s
  <2>2. a * m + b * m = (a + b) * m
    BY <1>1
  <2>3. (s + Modulus * q) * m = s * m + Modulus * (q * m)
    BY <2>1, ModulusFacts
  <2>4. q * m \in Int /\ a * m + b * m \in Int
    BY <1>1
  <2>. QED  BY <2>1, <2>2, <2>3, <2>4 DEF s
<1>7. Is(Times(Plus(a, b), m), a * m + b * m)
  BY <1>4, <1>6, IsShift
<1>. QED  BY <1>3, <1>5, <1>7, IsSame DEF Is, Trunc, Times

LEMMA ComposeOpens ==
  ASSUME NEW g \in Gate, NEW a, NEW b, NEW v, NEW pm, LengthsFit(g), ArithIn(g, a, b, v),
         g.type = "Compose"
  PROVE  Yields(g, Local(1, g, a), Local(2, g, b), Value(g, On(v, g.in1), On(v, g.in2), pm))
<1> DEFINE x1 == On(a, g.in1)
           x2 == On(b, g.in1)
           x  == On(v, g.in1)
           n  == Len(g.in1)
           u1 == [j \in 1 .. n |-> Times(x1[j], 2^(j - 1))]
           u2 == [j \in 1 .. n |-> Times(x2[j], 2^(j - 1))]
           u  == [j \in 1 .. n |-> Trunc(x[j] * 2^(j - 1))]
<1>1. /\ n \in Nat /\ Len(g.outs) = 1 /\ Sort(g) = "arith"
      /\ Len(x1) = n /\ Len(x2) = n /\ Len(x) = n
  BY Lens1, Inputs1 DEF Gate, Sort
<1>2. Shared(x1, x2, x, n)
  BY DEF ArithIn
<1>3. Local(1, g, a) = <<Total(u1, n)>>
  BY <1>1 DEF Local
<1>4. Local(2, g, b) = <<Total(u2, n)>>
  BY <1>1 DEF Local
<1>5. Value(g, x, On(v, g.in2), pm) = <<Total(u, n)>>
  BY SMTT(30), <1>1, ValueIs DEF Composed
<1>6. Shared(u1, u2, u, n)
  <2> SUFFICES ASSUME NEW j \in 1 .. n
               PROVE  u1[j] \in Ring /\ u2[j] \in Ring /\ u[j] = Plus(u1[j], u2[j])
    BY DEF Shared
  <2>1. /\ u1[j] = Times(x1[j], 2^(j - 1)) /\ u2[j] = Times(x2[j], 2^(j - 1))
        /\ u[j] = Trunc(x[j] * 2^(j - 1))
    OBVIOUS
  <2>2. x1[j] \in Ring /\ x2[j] \in Ring /\ x[j] = Plus(x1[j], x2[j])
    BY <1>2, SharedWord
  <2>3. 2^(j - 1) \in Nat
    BY <1>1, PowNat
  <2> HIDE DEF u1, u2, u, x1, x2, x
  <2>. QED  BY <2>1, <2>2, <2>3, TimesShared
<1> HIDE DEF u1, u2, u
<1>7. Total(u1, n) \in Ring /\ Total(u2, n) \in Ring /\ Total(u, n) = Plus(Total(u1, n), Total(u2, n))
  <2>1. n \in 0 .. n
    BY <1>1
  <2>. QED  BY <1>1, <1>6, <2>1, SharedTotal
<1>8. Shared(<<Total(u1, n)>>, <<Total(u2, n)>>, <<Total(u, n)>>, 1)
  BY <1>7 DEF Shared
<1>. QED  BY <1>1, <1>3, <1>4, <1>5, <1>8, ArithOut

(* Each element gives what its prefix sum exceeds the one before by.       *)
LEMMA GatheredTotal ==
  ASSUME NEW n \in Nat, NEW x, Len(x) = n, \A i \in 1 .. n : x[i] \in Ring, NEW m \in Nat
  PROVE  /\ \A j \in 1 .. n : Gathered(x, m)[j] \in Ring
         /\ \A k \in 1 .. n : k <= m => Total(Gathered(x, m), k) = x[k]
<1> DEFINE c == Gathered(x, m)
<1>1. \A j \in 1 .. n : c[j] = IF j > m THEN 0 ELSE IF j = 1 THEN x[1] ELSE Minus(x[j], x[j - 1])
  <2>1. c = [j \in 1 .. n |-> CASE j > m -> 0
                               [] j = 1 /\ j <= m -> x[1]
                               [] OTHER -> Minus(x[j], x[j - 1])]
    BY DEF Gathered
  <2>2. ASSUME NEW j \in 1 .. n
        PROVE  c[j] = IF j > m THEN 0 ELSE IF j = 1 THEN x[1] ELSE Minus(x[j], x[j - 1])
    <3>1. c[j] = CASE j > m -> 0
                   [] j = 1 /\ j <= m -> x[1]
                   [] OTHER -> Minus(x[j], x[j - 1])
      BY <2>1
    <3>2. j \in Nat
      OBVIOUS
    <3> HIDE DEF c
    <3>. QED  BY <3>1, <3>2
  <2>. QED  BY <2>2
<1> HIDE DEF c
<1>2. \A j \in 1 .. n : c[j] \in Ring
  <2> TAKE j \in 1 .. n
  <2>1. j = 1 \/ j - 1 \in 1 .. n
    OBVIOUS
  <2>. QED  BY <1>1, <2>1, RingOps, RingConsts
<1> DEFINE T == {k \in Nat : k + 1 <= n /\ k + 1 <= m => Total(c, k + 1) = x[k + 1]}
<1>3. 0 \in T
  <2> SUFFICES ASSUME 1 <= n, 1 <= m PROVE Total(c, 0 + 1) = x[0 + 1]
    OBVIOUS
  <2>1. 1 \in 1 .. n /\ 0 + 1 = 1
    OBVIOUS
  <2>2. Total(c, 1) = Plus(0, c[1]) /\ c[1] = x[1] /\ x[1] \in Ring
    <3>1. 0 \in Nat /\ Total(c, 0) = 0 /\ Total(c, 0 + 1) = Plus(Total(c, 0), c[0 + 1])
      BY TotalNext
    <3>. QED  BY <1>1, <2>1, <3>1
  <2>. QED  BY <2>1, <2>2, Linear
<1>4. ASSUME NEW k \in T PROVE k + 1 \in T
  <2> SUFFICES ASSUME (k + 1) + 1 <= n, (k + 1) + 1 <= m
               PROVE  Total(c, (k + 1) + 1) = x[(k + 1) + 1]
    OBVIOUS
  <2> DEFINE i == k + 1
  <2>1. k \in Nat /\ i \in Nat /\ i \in 1 .. n /\ i + 1 \in 1 .. n /\ i + 1 # 1 /\ (i + 1) - 1 = i /\ i + 1 <= m
    OBVIOUS
  <2>2. Total(c, i) = x[i]
    BY <2>1
  <2> HIDE DEF i
  <2>3. c[i + 1] = Minus(x[i + 1], x[i])
    <3>1. ~ (i + 1 > m)
      BY <2>1
    <3>. QED  BY <1>1, <2>1, <3>1
  <2>4. Total(c, i + 1) = Plus(x[i], Minus(x[i + 1], x[i])) /\ x[i] \in Ring /\ x[i + 1] \in Ring
    BY <2>1, <2>2, <2>3, TotalNext
  <2>5. Plus(x[i], Minus(x[i + 1], x[i])) = x[i + 1]
    <3>1. Minus(x[i + 1], x[i]) \in Ring
      BY <2>4, RingOps
    <3>2. Plus(x[i], Minus(x[i + 1], x[i])) = Plus(Minus(x[i + 1], x[i]), x[i])
      BY <2>4, <3>1, Linear
    <3>3. Plus(Minus(x[i + 1], x[i]), x[i]) = x[i + 1]
      BY <2>4, Linear
    <3>. QED  BY <3>2, <3>3
  <2>. QED  BY <2>4, <2>5 DEF i
<1>5. T = Nat
  <2>1. T \in SUBSET Nat
    OBVIOUS
  <2> HIDE DEF T
  <2>. QED  BY <1>3, <1>4, <2>1, NatInd
<1>6. ASSUME NEW k \in 1 .. n, k <= m PROVE Total(c, k) = x[k]
  <2>1. k - 1 \in Nat /\ (k - 1) + 1 = k /\ k <= n
    OBVIOUS
  <2>2. k - 1 \in T
    BY <1>5, <2>1
  <2>3. (k - 1) + 1 <= n /\ (k - 1) + 1 <= m => Total(c, (k - 1) + 1) = x[(k - 1) + 1]
    BY <2>2
  <2>. QED  BY <1>6, <2>1, <2>3
<1>. QED  BY <1>2, <1>6 DEF c

LEMMA GatheringIs ==
  ASSUME NEW n \in Nat, NEW x, Len(x) = n, \A i \in 1 .. n : x[i] \in Ring, NEW m \in Nat
  PROVE  Gathering(x, m) = Gathered(x, m)
<1> DEFINE c == Gathered(x, m)
           E(f, j) == IF j > m THEN 0
                      ELSE Minus(x[j], Total([i \in 1 .. (j - 1) |-> f[i]], j - 1))
           Def(f) == f = [j \in 1 .. n |-> E(f, j)]
<1>1. \A j \in 1 .. n : c[j] = IF j > m THEN 0 ELSE IF j = 1 THEN x[1] ELSE Minus(x[j], x[j - 1])
  <2>1. c = [j \in 1 .. n |-> CASE j > m -> 0
                               [] j = 1 /\ j <= m -> x[1]
                               [] OTHER -> Minus(x[j], x[j - 1])]
    BY DEF Gathered
  <2>2. ASSUME NEW j \in 1 .. n
        PROVE  c[j] = IF j > m THEN 0 ELSE IF j = 1 THEN x[1] ELSE Minus(x[j], x[j - 1])
    <3>1. c[j] = CASE j > m -> 0
                   [] j = 1 /\ j <= m -> x[1]
                   [] OTHER -> Minus(x[j], x[j - 1])
      BY <2>1
    <3>2. j \in Nat
      OBVIOUS
    <3> HIDE DEF c
    <3>. QED  BY <3>1, <3>2
  <2>. QED  BY <2>2
<1>2. c = [j \in 1 .. n |-> c[j]]
  BY DEF Gathered
<1>3. \A k \in 1 .. n : k <= m => Total(c, k) = x[k]
  BY GatheredTotal
<1> HIDE DEF c
(* What takes the same before takes the same.                              *)
<1>4. ASSUME NEW f, NEW j \in 1 .. n, \A i \in 1 .. (j - 1) : f[i] = c[i]
      PROVE  E(f, j) = c[j]
  <2>1. CASE j > m
    BY <1>1, <2>1
  <2>2. CASE ~ (j > m)
    <3> DEFINE r == [i \in 1 .. (j - 1) |-> f[i]]
    <3>1. \A i \in 1 .. (j - 1) : r[i] = c[i]
      BY <1>4
    <3> HIDE DEF r
    <3>2. Total(r, j - 1) = Total(c, j - 1)
      BY <3>1, TotalSame
    <3>3. CASE j = 1
      <4>1. Total(r, j - 1) = 0
        BY <3>2, <3>3, TotalNext
      <4>2. E(f, j) = Minus(x[1], 0) /\ x[1] \in Ring
        BY <2>2, <3>3, <4>1 DEF r
      <4>3. Minus(x[1], 0) = x[1]
        BY <4>2, Linear
      <4>. QED  BY <1>1, <2>2, <3>3, <4>2, <4>3
    <3>4. CASE j # 1
      <4>1. j - 1 \in 1 .. n /\ j - 1 <= m
        BY <2>2, <3>4
      <4>2. Total(r, j - 1) = x[j - 1]
        BY <1>3, <3>2, <4>1
      <4>3. E(f, j) = Minus(x[j], x[j - 1])
        BY <2>2, <4>2 DEF r
      <4>. QED  BY <1>1, <2>2, <3>4, <4>3
    <3>. QED  BY <3>3, <3>4
  <2>. QED  BY <2>1, <2>2
<1>5. Def(c)
  <2>1. \A j \in 1 .. n : E(c, j) = c[j]
    BY <1>4
  <2> HIDE DEF E
  <2>. QED  BY <1>2, <2>1
<1>6. ASSUME NEW f, Def(f) PROVE f = c
  <2>1. \A j \in 1 .. n : f[j] = E(f, j)
    <3> HIDE DEF E
    <3>. QED  BY <1>6
  <2> DEFINE S == {k \in Nat : k <= n => \A i \in 1 .. k : f[i] = c[i]}
  <2>2. 0 \in S
    OBVIOUS
  <2>3. ASSUME NEW k \in S PROVE k + 1 \in S
    <3> SUFFICES ASSUME k + 1 <= n PROVE \A i \in 1 .. (k + 1) : f[i] = c[i]
      OBVIOUS
    <3>1. k + 1 \in 1 .. n /\ (k + 1) - 1 = k /\ \A i \in 1 .. k : f[i] = c[i]
      OBVIOUS
    <3>2. f[k + 1] = c[k + 1]
      <4> HIDE DEF E, Def, S
      <4>. QED  BY <1>4, <2>1, <3>1
    <3>3. \A i \in 1 .. (k + 1) : i \in 1 .. k \/ i = k + 1
      OBVIOUS
    <3>. QED  BY <3>1, <3>2, <3>3
  <2>4. S = Nat
    <3>1. S \in SUBSET Nat
      OBVIOUS
    <3> HIDE DEF S
    <3>. QED  BY <2>2, <2>3, <3>1, NatInd
  <2>5. \A i \in 1 .. n : f[i] = c[i]
    BY <2>4
  <2>6. f = [j \in 1 .. n |-> f[j]]
    <3> HIDE DEF E
    <3>. QED  BY <1>6
  <2>. QED  BY <1>2, <2>5, <2>6
<1>7. Gathering(x, m) = CHOOSE f : Def(f)
  BY DEF Gathering
<1> HIDE DEF Def
<1>. QED  BY <1>5, <1>6, <1>7 DEF c

LEMMA GatherOpens ==
  ASSUME NEW g \in Gate, NEW a, NEW b, NEW v, NEW pm, LengthsFit(g), ArithIn(g, a, b, v),
         g.type = "Gather"
  PROVE  Yields(g, Local(1, g, a), Local(2, g, b), Value(g, On(v, g.in1), On(v, g.in2), pm))
<1> DEFINE x1 == On(a, g.in1)
           x2 == On(b, g.in1)
           x  == On(v, g.in1)
           n  == Len(g.in1)
           m  == g.param
           u1 == Gathered(x1, m)
           u2 == Gathered(x2, m)
           u  == Gathered(x, m)
           Part(y, j) == IF j > m THEN 0 ELSE IF j = 1 THEN y[1] ELSE Minus(y[j], y[j - 1])
<1>1. /\ n \in Nat /\ Len(g.outs) = n /\ Sort(g) = "arith" /\ m \in Nat
      /\ Len(x1) = n /\ Len(x2) = n /\ Len(x) = n
  BY Lens1, Inputs1 DEF Gate, Sort
<1>2. Shared(x1, x2, x, n)
  BY DEF ArithIn
<1>3. \A j \in 1 .. n : x1[j] \in Ring /\ x2[j] \in Ring /\ x[j] = Plus(x1[j], x2[j]) /\ x[j] \in Ring
  BY <1>2, SharedWord
<1>4. Local(1, g, a) = u1
  <2>1. Local(1, g, a) = Gathering(x1, m)
    BY DEF Local
  <2>. QED  BY <1>1, <1>3, <2>1, GatheringIs
<1>5. Local(2, g, b) = u2
  <2>1. Local(2, g, b) = Gathering(x2, m)
    BY DEF Local
  <2>. QED  BY <1>1, <1>3, <2>1, GatheringIs
<1>6. Value(g, x, On(v, g.in2), pm) = u
  BY ValueIs
<1>7. ASSUME NEW y, Len(y) = n, NEW j \in 1 .. n PROVE Gathered(y, m)[j] = Part(y, j)
  <2>1. Gathered(y, m)[j] = CASE j > m -> 0
                              [] j = 1 /\ j <= m -> y[1]
                              [] OTHER -> Minus(y[j], y[j - 1])
    BY <1>7 DEF Gathered
  <2>2. j \in Nat
    OBVIOUS
  <2>. QED  BY <1>1, <2>1, <2>2
<1>8. ASSUME NEW j \in 1 .. n
      PROVE  u1[j] \in Ring /\ u2[j] \in Ring /\ u[j] = Plus(u1[j], u2[j])
  <2>1. u1[j] = Part(x1, j) /\ u2[j] = Part(x2, j) /\ u[j] = Part(x, j)
    BY <1>1, <1>7
  <2>2. j = 1 \/ j - 1 \in 1 .. n
    BY <1>1
  <2> HIDE DEF u1, u2, u, x1, x2, x, m
  <2>3. CASE j > m
    <3>1. Plus(0, 0) = 0
      BY RingConsts, Linear
    <3>. QED  BY <2>1, <2>3, <3>1, RingConsts
  <2>4. CASE ~ (j > m) /\ j = 1
    BY <1>3, <2>1, <2>4
  <2>5. CASE ~ (j > m) /\ j # 1
    <3>1. /\ x1[j - 1] \in Ring /\ x2[j - 1] \in Ring /\ x[j - 1] = Plus(x1[j - 1], x2[j - 1])
          /\ x1[j] \in Ring /\ x2[j] \in Ring /\ x[j] = Plus(x1[j], x2[j])
      BY <1>3, <2>2, <2>5
    <3>2. Minus(Plus(x1[j], x2[j]), Plus(x1[j - 1], x2[j - 1]))
            = Plus(Minus(x1[j], x1[j - 1]), Minus(x2[j], x2[j - 1]))
      BY <3>1, Linear
    <3>. QED  BY <2>1, <2>5, <3>1, <3>2, RingOps
  <2>. QED  BY <2>3, <2>4, <2>5
<1> HIDE DEF u1, u2, u
<1>9. Shared(u1, u2, u, n)
  BY <1>8 DEF Shared
<1>. QED  BY <1>1, <1>4, <1>5, <1>6, <1>9, ArithOut

(* Boolean shares.                                                         *)
BinIn(g, a, b, v) ==
  \A w \in Elems(g.in1) \cup Elems(g.in2) :
    a[w] \in Ring /\ b[w] \in Ring /\ v[w] = XorW(a[w], b[w])

LEMMA FirstIn ==
  ASSUME NEW g \in Gate, NEW w, Len(g.in1) = 1
  PROVE  /\ On(w, g.in1)[1] = w[g.in1[1]] /\ g.in1[1] \in Elems(g.in1)
         /\ Len(g.in2) = 1 => On(w, g.in2)[1] = w[g.in2[1]] /\ g.in2[1] \in Elems(g.in2)
<1>1. g.in1 \in Seq(Nat) /\ g.in2 \in Seq(Nat)
  BY DEF Gate
<1>2. On(w, g.in1)[1] = w[g.in1[1]] /\ 1 \in DOMAIN g.in1
  BY <1>1, OnLen
<1>3. Len(g.in2) = 1 => On(w, g.in2)[1] = w[g.in2[1]] /\ 1 \in DOMAIN g.in2
  BY <1>1, OnLen
<1>. QED  BY <1>2, <1>3 DEF Elems

LEMMA XorOpens ==
  ASSUME NEW g \in Gate, NEW a, NEW b, NEW v, NEW pm, LengthsFit(g), BinIn(g, a, b, v),
         g.type = "Xor"
  PROVE  Yields(g, Local(1, g, a), Local(2, g, b), Value(g, On(v, g.in1), On(v, g.in2), pm))
<1> DEFINE i == g.in1[1]
           j == g.in2[1]
<1>1. Len(g.in1) = 1 /\ Len(g.in2) = 1 /\ Len(g.outs) = 1 /\ Sort(g) = "bin"
  BY Lens1 DEF Sort
<1>2. /\ a[i] \in Ring /\ b[i] \in Ring /\ v[i] = XorW(a[i], b[i])
      /\ a[j] \in Ring /\ b[j] \in Ring /\ v[j] = XorW(a[j], b[j])
  BY <1>1, FirstIn DEF BinIn
<1>3. Local(1, g, a) = <<XorW(a[i], a[j])>>
  <2>1. Local(1, g, a) = <<XorW(On(a, g.in1)[1], On(a, g.in2)[1])>>
    BY DEF Local
  <2>. QED  BY <1>1, <2>1, FirstIn
<1>4. Local(2, g, b) = <<XorW(b[i], b[j])>>
  <2>1. Local(2, g, b) = <<XorW(On(b, g.in1)[1], On(b, g.in2)[1])>>
    BY DEF Local
  <2>. QED  BY <1>1, <2>1, FirstIn
<1>5. Value(g, On(v, g.in1), On(v, g.in2), pm) = <<XorW(v[i], v[j])>>
  <2>1. Value(g, On(v, g.in1), On(v, g.in2), pm) = <<XorW(On(v, g.in1)[1], On(v, g.in2)[1])>>
    BY ValueIs
  <2>. QED  BY <1>1, <2>1, FirstIn
<1>6. XorW(v[i], v[j]) = XorW(XorW(a[i], a[j]), XorW(b[i], b[j]))
  BY <1>2, XorPairs
<1>7. XorW(a[i], a[j]) \in Ring /\ XorW(b[i], b[j]) \in Ring /\ XorW(v[i], v[j]) \in Ring
  BY <1>2, BitOps
<1>. QED  BY <1>1, <1>3, <1>4, <1>5, <1>6, <1>7 DEF Yields, Opening
-----------------------------------------------------------------------------
(* Permutations.                                                           *)
Onto(f, n) == \A k \in 1 .. n : \E j \in 1 .. n : f[j] = k
LEMMA PermOnto ==
  ASSUME NEW n \in Nat, NEW f, PermOf(f, n)
  PROVE  Onto(f, n)
BY InjectionOnto DEF PermOf, Onto

LEMMA InvertedFacts ==
  ASSUME NEW n \in Nat, NEW f, PermOf(f, n)
  PROVE  /\ PermOf(Inverted(f, n), n)
         /\ \A k \in 1 .. n : f[Inverted(f, n)[k]] = k /\ Inverted(f, n)[k] \in 1 .. n
         /\ \A j \in 1 .. n : Inverted(f, n)[f[j]] = j /\ f[j] \in 1 .. n
<1> DEFINE S == 1 .. n
           h == Inverted(f, n)
<1>1. f \in [S -> S] /\ \A i, j \in S : f[i] = f[j] => i = j
  BY DEF PermOf
<1>2. \A k \in S : h[k] \in S /\ f[h[k]] = k
  <2> TAKE k \in S
  <2>1. h[k] = CHOOSE j \in S : f[j] = k
    BY DEF Inverted
  <2>2. \E j \in S : f[j] = k
    <3>1. Onto(f, n)
      BY PermOnto
    <3>. QED  BY <3>1 DEF Onto
  <2>. QED  BY <2>1, <2>2
<1>3. h = [k \in S |-> h[k]]
  BY DEF Inverted
<1> HIDE DEF h
<1>4. \A j \in S : f[j] \in S /\ h[f[j]] = j
  BY <1>1, <1>2
<1>5. \A i, j \in S : h[i] = h[j] => i = j
  BY <1>2
<1>6. PermOf(h, n)
  <2>1. h \in [S -> S]
    BY <1>2, <1>3
  <2>. QED  BY <1>5, <2>1 DEF PermOf
<1>. QED  BY <1>2, <1>4, <1>6 DEF h

(* Positions both parties know, each of 1 .. n once.                       *)
LEMMA ReorderOpens ==
  ASSUME NEW g \in Gate, NEW a, NEW b, NEW v, NEW pm, LengthsFit(g),
         Shared(On(a, g.in1), On(b, g.in1), On(v, g.in1), Len(g.in1)),
         \A j \in 1 .. Len(g.in2) : /\ On(a, g.in2)[j] = On(v, g.in2)[j]
                                    /\ On(b, g.in2)[j] = On(v, g.in2)[j],
         PermOf(On(v, g.in2), Len(g.in2)),
         g.type \in {"Reorder", "ReorderInverse"}
  PROVE  Yields(g, Local(1, g, a), Local(2, g, b), Value(g, On(v, g.in1), On(v, g.in2), pm))
<1> DEFINE x1 == On(a, g.in1)
           x2 == On(b, g.in1)
           x  == On(v, g.in1)
           y1 == On(a, g.in2)
           y2 == On(b, g.in2)
           y  == On(v, g.in2)
           n  == Len(g.in1)
           LastAt(z, k) == CHOOSE j \in 1 .. n : z[j] = k /\ \A i \in (j + 1) .. n : z[i] # k
           FirstAt(z, k) == CHOOSE j \in 1 .. n : z[j] = k
<1>1. /\ n \in Nat /\ Len(g.outs) = n /\ Sort(g) = "arith" /\ Len(g.in2) = n
      /\ Len(x1) = n /\ Len(x2) = n /\ Len(x) = n
  BY Lens1, Inputs1 DEF Gate, Sort
<1>2. \A j \in 1 .. n : x1[j] \in Ring /\ x2[j] \in Ring /\ x[j] = Plus(x1[j], x2[j])
  BY SharedWord
<1>3. \A j \in 1 .. n : y1[j] = y[j] /\ y2[j] = y[j]
  BY <1>1
<1>4. PermOf(y, n)
  BY <1>1
<1>7. Onto(y, n)
  BY <1>1, <1>4, PermOnto
<1>5. CASE g.type = "Reorder"
  <2>1. Local(1, g, a) = [k \in 1 .. n |-> IF \A j \in 1 .. n : y1[j] # k THEN a[g.outs[k]]
                                           ELSE x1[LastAt(y1, k)]]
    BY <1>1, <1>5 DEF Local
  <2>2. Local(2, g, b) = [k \in 1 .. n |-> IF \A j \in 1 .. n : y2[j] # k THEN b[g.outs[k]]
                                           ELSE x2[LastAt(y2, k)]]
    BY <1>1, <1>5 DEF Local
  <2>3. Value(g, x, y, pm) = [k \in 1 .. n |-> x[FirstAt(y, k)]]
    <3>1. Value(g, x, y, pm) = Reordered(x, y)
      BY <1>5, ValueIs
    <3>. QED  BY <1>1, <3>1 DEF Reordered
  <2> HIDE DEF x1, x2, x, y1, y2, y, n
  <2>4. ASSUME NEW k \in 1 .. n
        PROVE  \E j \in 1 .. n : /\ Local(1, g, a)[k] = x1[j] /\ Local(2, g, b)[k] = x2[j]
                                 /\ Value(g, x, y, pm)[k] = x[j]
    <3>0. PICK j \in 1 .. n : y[j] = k
      BY <1>7 DEF Onto
    <3>1. y[j] = k /\ \A i \in 1 .. n : y[i] = k => i = j
      BY <1>4, <3>0 DEF PermOf
    <3>2. FirstAt(y, k) = j
      BY <3>1
    <3>3. ASSUME NEW z, \A i \in 1 .. n : z[i] = y[i] PROVE LastAt(z, k) = j
      <4>1. \A i \in 1 .. n : (z[i] = k /\ \A h \in (i + 1) .. n : z[h] # k) <=> i = j
        <5>1. \A h \in (j + 1) .. n : h \in 1 .. n /\ h # j
          BY <1>1
        <5>. QED  BY <3>1, <3>3, <5>1
      <4>. QED  BY <4>1
    <3>4. ~ (\A i \in 1 .. n : y1[i] # k) /\ ~ (\A i \in 1 .. n : y2[i] # k)
      BY <1>3, <3>1
    <3>5. LastAt(y1, k) = j /\ LastAt(y2, k) = j
      BY <1>3, <3>3
    <3> HIDE DEF LastAt, FirstAt
    <3>6. Local(1, g, a)[k] = x1[j]
      <4>1. Local(1, g, a)[k] = IF \A i \in 1 .. n : y1[i] # k THEN a[g.outs[k]] ELSE x1[LastAt(y1, k)]
        BY <2>1
      <4>. QED  BY <3>4, <3>5, <4>1
    <3>7. Local(2, g, b)[k] = x2[j]
      <4>1. Local(2, g, b)[k] = IF \A i \in 1 .. n : y2[i] # k THEN b[g.outs[k]] ELSE x2[LastAt(y2, k)]
        BY <2>2
      <4>. QED  BY <3>4, <3>5, <4>1
    <3>8. Value(g, x, y, pm)[k] = x[j]
      BY <2>3, <3>2
    <3>. QED  BY <3>6, <3>7, <3>8
  <2>5. Shared(Local(1, g, a), Local(2, g, b), Value(g, x, y, pm), n)
    BY <1>2, <2>4 DEF Shared
  <2>. QED  BY <1>1, <2>5, ArithOut DEF x, y
<1>6. CASE g.type = "ReorderInverse"
  <2>1. Local(1, g, a) = [j \in 1 .. n |-> IF y1[j] \in 1 .. n THEN x1[y1[j]] ELSE 0]
    BY <1>1, <1>6 DEF Local
  <2>2. Local(2, g, b) = [j \in 1 .. n |-> IF y2[j] \in 1 .. n THEN x2[y2[j]] ELSE 0]
    BY <1>1, <1>6 DEF Local
  <2>3. Value(g, x, y, pm) = [j \in 1 .. n |-> x[y[j]]]
    <3>1. Value(g, x, y, pm) = ReorderedBack(x, y)
      BY <1>6, ValueIs
    <3>. QED  BY <1>1, <3>1 DEF ReorderedBack
  <2> HIDE DEF x1, x2, x, y1, y2, y, n
  <2>4. \A j \in 1 .. n : y[j] \in 1 .. n
    BY <1>4 DEF PermOf
  <2>5. ASSUME NEW j \in 1 .. n
        PROVE  /\ Local(1, g, a)[j] = x1[y[j]] /\ Local(2, g, b)[j] = x2[y[j]]
               /\ Value(g, x, y, pm)[j] = x[y[j]] /\ y[j] \in 1 .. n
    <3>1. Local(1, g, a)[j] = IF y1[j] \in 1 .. n THEN x1[y1[j]] ELSE 0
      BY <2>1
    <3>2. Local(2, g, b)[j] = IF y2[j] \in 1 .. n THEN x2[y2[j]] ELSE 0
      BY <2>2
    <3>3. Value(g, x, y, pm)[j] = x[y[j]]
      BY <2>3
    <3>. QED  BY <1>3, <2>4, <3>1, <3>2, <3>3
  <2>6. Shared(Local(1, g, a), Local(2, g, b), Value(g, x, y, pm), n)
    BY <1>2, <2>5 DEF Shared
  <2>. QED  BY <1>1, <2>6, ArithOut DEF x, y
<1>. QED  BY <1>5, <1>6
-----------------------------------------------------------------------------
(* Interactive gates.  What a party makes of the two words for one place.  *)
Joined(kind, p, m1, m2) ==
  CASE kind \in {"mult", "reveal"} -> Plus(m1, m2)
    [] kind = "and"                -> XorW(m1, m2)
    [] kind = "shuffle"            -> IF p = 1 THEN m2 ELSE m1
(* The words v1 and v2 that parties 1 and 2 finish gate g with.            *)
Receives(g, d1, d2, a, b, v1, v2) ==
  /\ Len(v1) = Takes(g) /\ Len(v2) = Takes(g)
  /\ \A i \in 1 .. Takes(g) :
       LET m1 == Opened(1, g, d1, Kind(g), a)[i]
           m2 == Opened(2, g, d2, Kind(g), b)[i]
       IN  v1[i] = Joined(Kind(g), 1, m1, m2) /\ v2[i] = Joined(Kind(g), 2, m1, m2)

(* The material for a gate.                                                *)
MultDeal(d1, d2, n) ==
  /\ d1.a \in [1 .. n -> Ring] /\ d1.b \in [1 .. n -> Ring] /\ d1.c \in [1 .. n -> Ring]
  /\ d2.a \in [1 .. n -> Ring] /\ d2.b \in [1 .. n -> Ring] /\ d2.c \in [1 .. n -> Ring]
  /\ \A j \in 1 .. n :
       Times(Plus(d1.a[j], d2.a[j]), Plus(d1.b[j], d2.b[j])) = Plus(d1.c[j], d2.c[j])
AndDeal(d1, d2, n) ==
  /\ d1.a \in [1 .. n -> Ring] /\ d1.b \in [1 .. n -> Ring] /\ d1.c \in [1 .. n -> Ring]
  /\ d2.a \in [1 .. n -> Ring] /\ d2.b \in [1 .. n -> Ring] /\ d2.c \in [1 .. n -> Ring]
  /\ AndW(XorW(d1.a[1], d2.a[1]), XorW(d1.b[1], d2.b[1])) = XorW(d1.c[1], d2.c[1])
ShuffleDeal(g, d1, d2, n, f) ==
  /\ d1.mask \in [1 .. n -> Ring] /\ d1.b \in [1 .. n -> Ring]
  /\ d2.mask \in [1 .. n -> Ring] /\ d2.b \in [1 .. n -> Ring]
  /\ PermOf(d1.pi, n) /\ PermOf(d1.rho, n) /\ PermOf(d2.pi, n) /\ PermOf(d2.rho, n)
  /\ f = Joint(d1, d2)
  /\ \A j \in 1 .. n :
       LET to == d1.pi[d2.pi[j]] IN
       /\ d2.rho[d1.rho[j]] = to
       /\ IF g.reverse
          THEN Plus(d1.b[j], d2.b[j]) = Plus(d1.mask[to], d2.mask[to])
          ELSE Plus(d1.b[to], d2.b[to]) = Plus(d1.mask[j], d2.mask[j])
DealFor(g, d1, d2, pm) ==
  /\ g.type \in MultGate => MultDeal(d1, d2, Len(g.in1))
  /\ g.type \in AndGate => AndDeal(d1, d2, Len(g.in1))
  /\ g.type \in ShuffleGate => ShuffleDeal(g, d1, d2, Len(g.in1), PermOfGate(g, pm))

LEMMA CorrelatedGate ==
  ASSUME NEW c, NEW d, Correlated(c, d), NEW l \in DOMAIN c.levels, NEW k \in DOMAIN c.levels[l]
  PROVE  DealFor(c.levels[l][k], d[1][l][k], d[2][l][k], JointPerms(c, d))
<1> DEFINE g == c.levels[l][k]
           d1 == d[1][l][k]
           d2 == d[2][l][k]
           n == Len(g.in1)
           Fits(v) == v \in [1 .. n -> Ring]
<1>1. /\ g.type \in MultGate =>
           /\ \A e \in {d1, d2} : Fits(e.a) /\ Fits(e.b) /\ Fits(e.c)
           /\ \A j \in 1 .. n :
                Times(Plus(d1.a[j], d2.a[j]), Plus(d1.b[j], d2.b[j])) = Plus(d1.c[j], d2.c[j])
      /\ g.type \in AndGate =>
           /\ \A e \in {d1, d2} : Fits(e.a) /\ Fits(e.b) /\ Fits(e.c)
           /\ AndW(XorW(d1.a[1], d2.a[1]), XorW(d1.b[1], d2.b[1])) = XorW(d1.c[1], d2.c[1])
      /\ g.type \in ShuffleGate =>
           /\ \A e \in {d1, d2} : /\ Fits(e.mask) /\ Fits(e.b)
                                  /\ PermOf(e.pi, n) /\ PermOf(e.rho, n)
           /\ Joint(d1, d2) = PermOfGate(g, JointPerms(c, d))
           /\ \A j \in 1 .. n :
                LET to == d1.pi[d2.pi[j]] IN
                /\ d2.rho[d1.rho[j]] = to
                /\ IF g.reverse
                   THEN Plus(d1.b[j], d2.b[j]) = Plus(d1.mask[to], d2.mask[to])
                   ELSE Plus(d1.b[to], d2.b[to]) = Plus(d1.mask[j], d2.mask[j])
  BY DEF Correlated
<1> HIDE DEF g, d1, d2, n, Fits
<1>2. g.type \in MultGate => MultDeal(d1, d2, n)
  BY <1>1 DEF MultDeal, Fits
<1>3. g.type \in AndGate => AndDeal(d1, d2, n)
  BY <1>1 DEF AndDeal, Fits
<1>4. g.type \in ShuffleGate => ShuffleDeal(g, d1, d2, n, PermOfGate(g, JointPerms(c, d)))
  BY <1>1 DEF ShuffleDeal, Fits
<1>5. DealFor(g, d1, d2, JointPerms(c, d))
  BY <1>2, <1>3, <1>4 DEF DealFor, n
<1>6. g = c.levels[l][k] /\ d1 = d[1][l][k] /\ d2 = d[2][l][k]
  BY DEF g, d1, d2
<1>. QED  BY <1>5, <1>6, Zenon

(* One product of a gate.                                                  *)
LEMMA MultWords ==
  ASSUME NEW g, g.type \in MultGate, NEW p, NEW d, NEW w, NEW m \in Nat,
         Len(Factors(p, g, w)) = m, NEW j \in 1 .. m
  PROVE  /\ Opened(p, g, d, "mult", w)[2 * j - 1] = Plus(d.a[j], Factors(p, g, w)[j][1])
         /\ Opened(p, g, d, "mult", w)[2 * j] = Plus(d.b[j], Factors(p, g, w)[j][2])
<1> DEFINE f == Factors(p, g, w)
           o == Opened(p, g, d, "mult", w)
<1>1. o = [i \in 1 .. (2 * Len(f)) |-> LET h == (i + 1) \div 2 IN
              IF i % 2 = 1 THEN Plus(d.a[h], f[h][1]) ELSE Plus(d.b[h], f[h][2])]
  BY DEF Opened
<1> HIDE DEF f, o
<1>2. Len(f) = m
  BY DEF f
<1>3. /\ 2 * j - 1 \in 1 .. (2 * m) /\ 2 * j \in 1 .. (2 * m)
      /\ ((2 * j - 1) + 1) \div 2 = j /\ (2 * j + 1) \div 2 = j
      /\ (2 * j - 1) % 2 = 1 /\ (2 * j) % 2 # 1
  OBVIOUS
<1>4. \A i \in 1 .. (2 * m) : o[i] = LET h == (i + 1) \div 2 IN
              IF i % 2 = 1 THEN Plus(d.a[h], f[h][1]) ELSE Plus(d.b[h], f[h][2])
  BY <1>1, <1>2
<1>5. o[2 * j - 1] = Plus(d.a[j], f[j][1])
  BY <1>3, <1>4
<1>6. o[2 * j] = Plus(d.b[j], f[j][2])
  BY <1>3, <1>4
<1>. QED  BY <1>5, <1>6 DEF o, f

(* Gate g multiplies m pairs of factors.                                   *)
Multiplies(g, d1, d2, a, b, v1, v2, n, m) ==
  /\ g.type \in MultGate /\ n \in Nat /\ m \in Nat /\ m <= n
  /\ MultDeal(d1, d2, n) /\ Receives(g, d1, d2, a, b, v1, v2)
  /\ Takes(g) = 2 * m /\ Len(Factors(1, g, a)) = m /\ Len(Factors(2, g, b)) = m
LEMMA MultProduct ==
  ASSUME NEW g, NEW d1, NEW d2, NEW a, NEW b, NEW v1, NEW v2, NEW n, NEW m,
         Multiplies(g, d1, d2, a, b, v1, v2, n, m),
         NEW j \in 1 .. m, NEW s, NEW t, s = 2 * j - 1, t = 2 * j,
         NEW x1 \in Ring, NEW y1 \in Ring, NEW x2 \in Ring, NEW y2 \in Ring,
         Factors(1, g, a)[j] = <<x1, y1>>, Factors(2, g, b)[j] = <<x2, y2>>,
         NEW p1, NEW p2, p1 = BeaverProduct(1, d1, j, v1[s], v1[t]),
         p2 = BeaverProduct(2, d2, j, v2[s], v2[t])
  PROVE  p1 \in Ring /\ p2 \in Ring /\ Plus(p1, p2) = Times(Plus(x1, x2), Plus(y1, y2))
<1>0. /\ g.type \in MultGate /\ n \in Nat /\ m \in Nat /\ m <= n
      /\ MultDeal(d1, d2, n) /\ Receives(g, d1, d2, a, b, v1, v2)
      /\ Takes(g) = 2 * m /\ Len(Factors(1, g, a)) = m /\ Len(Factors(2, g, b)) = m
  BY DEF Multiplies
<1> DEFINE a1 == d1.a[j]
           a2 == d2.a[j]
           b1 == d1.b[j]
           b2 == d2.b[j]
           c1 == d1.c[j]
           c2 == d2.c[j]
           v  == Plus(Plus(a1, x1), Plus(a2, x2))
           w  == Plus(Plus(b1, y1), Plus(b2, y2))
<1>1. /\ a1 \in Ring /\ a2 \in Ring /\ b1 \in Ring /\ b2 \in Ring /\ c1 \in Ring /\ c2 \in Ring
      /\ Times(Plus(a1, a2), Plus(b1, b2)) = Plus(c1, c2)
  <2>1. j \in 1 .. n
    BY <1>0
  <2>. QED  BY <1>0, <2>1 DEF MultDeal
<1>2. Kind(g) = "mult"
  BY <1>0 DEF Kind, MultGate, AndGate, ShuffleGate
<1>3. s \in 1 .. Takes(g) /\ t \in 1 .. Takes(g)
  BY <1>0
<1>4. /\ Opened(1, g, d1, "mult", a)[s] = Plus(a1, x1)
      /\ Opened(1, g, d1, "mult", a)[t] = Plus(b1, y1)
  <2> HIDE DEF v, w
  <2>1. /\ Opened(1, g, d1, "mult", a)[2 * j - 1] = Plus(a1, Factors(1, g, a)[j][1])
        /\ Opened(1, g, d1, "mult", a)[2 * j] = Plus(b1, Factors(1, g, a)[j][2])
    BY <1>0, MultWords
  <2>. QED  BY <2>1
<1>5. /\ Opened(2, g, d2, "mult", b)[s] = Plus(a2, x2)
      /\ Opened(2, g, d2, "mult", b)[t] = Plus(b2, y2)
  <2> HIDE DEF v, w
  <2>1. /\ Opened(2, g, d2, "mult", b)[2 * j - 1] = Plus(a2, Factors(2, g, b)[j][1])
        /\ Opened(2, g, d2, "mult", b)[2 * j] = Plus(b2, Factors(2, g, b)[j][2])
    BY <1>0, MultWords
  <2>. QED  BY <2>1
<1>6. v1[s] = v /\ v2[s] = v
  BY <1>0, <1>2, <1>3, <1>4, <1>5 DEF Receives, Joined
<1>7. v1[t] = w /\ v2[t] = w
  BY <1>0, <1>2, <1>3, <1>4, <1>5 DEF Receives, Joined
<1>8. v \in Ring /\ w \in Ring
  BY <1>1, RingOps
<1>9. p1 = Plus(Minus(Minus(Times(Times(v, w), 0), Times(v, b1)), Times(w, a1)), c1)
  <2>1. 1 - 1 = 0
    OBVIOUS
  <2>. QED  BY <1>6, <1>7, <2>1 DEF BeaverProduct
<1>10. p2 = Plus(Minus(Minus(Times(Times(v, w), 1), Times(v, b2)), Times(w, a2)), c2)
  <2>1. 2 - 1 = 1
    OBVIOUS
  <2>. QED  BY <1>6, <1>7, <2>1 DEF BeaverProduct
<1>11. v = Plus(Plus(a1, x1), Plus(a2, x2)) /\ w = Plus(Plus(b1, y1), Plus(b2, y2))
  OBVIOUS
<1> HIDE DEF v, w, a1, a2, b1, b2, c1, c2
<1>12. Triple(x1, x2, y1, y2, p1, p2)
  BY <1>1, <1>8, <1>9, <1>10, <1>11 DEF Triple
<1>. QED  BY <1>12, BeaverOpens

-----------------------------------------------------------------------------
(***************************************************************************)
(* So does each gate that opens words: masked factors, revealed values,    *)
(* layers of a comparison, converted bits, halves of a shuffle, compactions.*)
(***************************************************************************)
LEMMA TakesIs ==
  ASSUME NEW g
  PROVE  /\ g.type \in {"Mul", "ConvertB2A"} => Takes(g) = 2 /\ Kind(g) = "mult"
         /\ g.type = "GenCompaction" => Takes(g) = 2 * Len(g.in1) /\ Kind(g) = "mult"
         /\ g.type \in {"And", "EqualsZero"} => Takes(g) = 2 /\ Kind(g) = "and"
         /\ g.type \in {"Shuffle", "DoubleShuffle"} => Takes(g) = Len(g.in1) /\ Kind(g) = "shuffle"
         /\ g.type = "Reveal" => Takes(g) = Len(g.in1) /\ Kind(g) = "reveal"
<1>1. ASSUME g.type \in {"Mul", "ConvertB2A"} PROVE Takes(g) = 2 /\ Kind(g) = "mult"
  BY <1>1 DEF Takes, Kind, MultGate, AndGate, ShuffleGate
<1>2. ASSUME g.type = "GenCompaction" PROVE Takes(g) = 2 * Len(g.in1) /\ Kind(g) = "mult"
  BY <1>2 DEF Takes, Kind, MultGate, AndGate, ShuffleGate
<1>3. ASSUME g.type \in {"And", "EqualsZero"} PROVE Takes(g) = 2 /\ Kind(g) = "and"
  BY <1>3 DEF Takes, Kind, MultGate, AndGate, ShuffleGate
<1>4. g.type \in {"Shuffle", "DoubleShuffle"} => Takes(g) = Len(g.in1) /\ Kind(g) = "shuffle"
  BY DEF Takes, Kind, MultGate, AndGate, ShuffleGate
<1>5. g.type = "Reveal" => Takes(g) = Len(g.in1) /\ Kind(g) = "reveal"
  BY DEF Takes, Kind, MultGate, AndGate, ShuffleGate
<1>. QED  BY <1>1, <1>2, <1>3, <1>4, <1>5

LEMMA FinishedIs ==
  ASSUME NEW g, NEW p, NEW d, NEW v, NEW w
  PROVE  /\ g.type = "Mul" => Finished(p, g, d, v, w) = <<BeaverProduct(p, d, 1, v[1], v[2])>>
         /\ g.type = "ConvertB2A" => Finished(p, g, d, v, w)
              = <<Minus(On(w, g.in1)[1] % 2, Times(2, BeaverProduct(p, d, 1, v[1], v[2])))>>
         /\ g.type = "GenCompaction" => Finished(p, g, d, v, w)
              = [j \in DOMAIN On(w, g.in1) |-> Plus(ZerosSoFar(p, On(w, g.in1))[j],
                                                    BeaverProduct(p, d, j, v[2*j - 1], v[2*j]))]
         /\ g.type = "And" => Finished(p, g, d, v, w) = <<BeaverAnd(p, d, v[1], v[2])>>
         /\ g.type = "EqualsZero" => Finished(p, g, d, v, w)
              = <<ZeroLayer(p, g, BeaverAnd(p, d, v[1], v[2]))>>
         /\ g.type \in ShuffleGate => Finished(p, g, d, v, w) = Unshuffled(p, g, d, v)
         /\ g.type = "Reveal" => Finished(p, g, d, v, w) = v
<1>1. ASSUME g.type = "Mul"
      PROVE  Finished(p, g, d, v, w) = <<BeaverProduct(p, d, 1, v[1], v[2])>>
  BY <1>1 DEF Finished, ShuffleGate
<1>2. ASSUME g.type = "ConvertB2A"
      PROVE  Finished(p, g, d, v, w)
               = <<Minus(On(w, g.in1)[1] % 2, Times(2, BeaverProduct(p, d, 1, v[1], v[2])))>>
  BY <1>2 DEF Finished, ShuffleGate
<1>3. ASSUME g.type = "GenCompaction"
      PROVE  Finished(p, g, d, v, w)
               = [j \in DOMAIN On(w, g.in1) |-> Plus(ZerosSoFar(p, On(w, g.in1))[j],
                                                     BeaverProduct(p, d, j, v[2*j - 1], v[2*j]))]
  BY <1>3 DEF Finished, ShuffleGate
<1>4. ASSUME g.type = "And" PROVE Finished(p, g, d, v, w) = <<BeaverAnd(p, d, v[1], v[2])>>
  BY <1>4 DEF Finished, ShuffleGate
<1>5. ASSUME g.type = "EqualsZero"
      PROVE  Finished(p, g, d, v, w) = <<ZeroLayer(p, g, BeaverAnd(p, d, v[1], v[2]))>>
  BY <1>5 DEF Finished, ShuffleGate
<1>6. ASSUME g.type \in ShuffleGate PROVE Finished(p, g, d, v, w) = Unshuffled(p, g, d, v)
  BY <1>6 DEF Finished, ShuffleGate
<1>7. ASSUME g.type = "Reveal" PROVE Finished(p, g, d, v, w) = v
  BY <1>7 DEF Finished, ShuffleGate
<1>. QED  BY <1>1, <1>2, <1>3, <1>4, <1>5, <1>6, <1>7

LEMMA MulOpens ==
  ASSUME NEW g \in Gate, NEW a, NEW b, NEW v, NEW pm, LengthsFit(g), ArithIn(g, a, b, v),
         g.type = "Mul", NEW d1, NEW d2, MultDeal(d1, d2, Len(g.in1)),
         NEW v1, NEW v2, Receives(g, d1, d2, a, b, v1, v2)
  PROVE  Yields(g, Finished(1, g, d1, v1, a), Finished(2, g, d2, v2, b),
                Value(g, On(v, g.in1), On(v, g.in2), pm))
<1> DEFINE i == g.in1[1]
           j == g.in2[1]
           p1 == BeaverProduct(1, d1, 1, v1[1], v1[2])
           p2 == BeaverProduct(2, d2, 1, v2[1], v2[2])
<1>1. Len(g.in1) = 1 /\ Len(g.in2) = 1 /\ Len(g.outs) = 1 /\ Sort(g) = "arith"
  BY Lens1 DEF Sort
<1>2. /\ a[i] \in Ring /\ b[i] \in Ring /\ v[i] = Plus(a[i], b[i])
      /\ a[j] \in Ring /\ b[j] \in Ring /\ v[j] = Plus(a[j], b[j])
  <2>1. /\ On(a, g.in1)[1] \in Ring /\ On(b, g.in1)[1] \in Ring
        /\ On(v, g.in1)[1] = Plus(On(a, g.in1)[1], On(b, g.in1)[1])
    BY <1>1, SharedWord DEF ArithIn
  <2>2. /\ On(a, g.in2)[1] \in Ring /\ On(b, g.in2)[1] \in Ring
        /\ On(v, g.in2)[1] = Plus(On(a, g.in2)[1], On(b, g.in2)[1])
    BY <1>1, SharedWord DEF ArithIn
  <2>. QED  BY <1>1, <2>1, <2>2, FirstIn
<1>3. Factors(1, g, a) = << <<a[i], a[j]>> >> /\ Factors(2, g, b) = << <<b[i], b[j]>> >>
  <2>1. Factors(1, g, a) = << <<On(a, g.in1)[1], On(a, g.in2)[1]>> >>
    BY DEF Factors
  <2>2. Factors(2, g, b) = << <<On(b, g.in1)[1], On(b, g.in2)[1]>> >>
    BY DEF Factors
  <2>. QED  BY <1>1, <2>1, <2>2, FirstIn
<1>4. Takes(g) = 2 /\ g.type \in MultGate
  BY TakesIs DEF MultGate
<1>5. p1 \in Ring /\ p2 \in Ring /\ Plus(p1, p2) = Times(Plus(a[i], b[i]), Plus(a[j], b[j]))
  <2>1. /\ Len(Factors(1, g, a)) = 1 /\ Len(Factors(2, g, b)) = 1
        /\ Factors(1, g, a)[1] = <<a[i], a[j]>> /\ Factors(2, g, b)[1] = <<b[i], b[j]>>
    BY <1>3
  <2>2. p1 = BeaverProduct(1, d1, 1, v1[1], v1[2]) /\ p2 = BeaverProduct(2, d2, 1, v2[1], v2[2])
    OBVIOUS
  <2>3. Multiplies(g, d1, d2, a, b, v1, v2, 1, 1)
    BY <1>1, <1>4, <2>1 DEF Multiplies
  <2>4. 1 \in 1 .. 1 /\ 1 = 2 * 1 - 1 /\ 2 = 2 * 1
    OBVIOUS
  <2> HIDE DEF p1, p2, i, j
  <2>. QED  BY <1>2, <2>1, <2>2, <2>3, <2>4, MultProduct
<1>6. Value(g, On(v, g.in1), On(v, g.in2), pm) = <<Times(v[i], v[j])>>
  <2>1. Value(g, On(v, g.in1), On(v, g.in2), pm) = <<Times(On(v, g.in1)[1], On(v, g.in2)[1])>>
    BY ValueIs
  <2>. QED  BY <1>1, <2>1, FirstIn
<1>7. Finished(1, g, d1, v1, a) = <<p1>> /\ Finished(2, g, d2, v2, b) = <<p2>>
  BY FinishedIs
<1> HIDE DEF p1, p2, i, j
<1>8. Times(v[i], v[j]) = Plus(p1, p2) /\ Times(v[i], v[j]) \in Ring
  BY <1>2, <1>5, RingOps
<1>9. Shared(<<p1>>, <<p2>>, <<Times(v[i], v[j])>>, 1)
  BY <1>5, <1>8 DEF Shared
<1>. QED  BY <1>1, <1>6, <1>7, <1>9, ArithOut
-----------------------------------------------------------------------------
LEMMA AndProduct ==
  ASSUME NEW g, g.type \in AndGate, NEW d1, NEW d2, NEW a, NEW b, NEW v1, NEW v2,
         NEW n \in Nat, n > 0, AndDeal(d1, d2, n), Receives(g, d1, d2, a, b, v1, v2),
         NEW x1 \in Ring, NEW y1 \in Ring, NEW x2 \in Ring, NEW y2 \in Ring,
         Factors(1, g, a)[1] = <<x1, y1>>, Factors(2, g, b)[1] = <<x2, y2>>,
         NEW p1, NEW p2, p1 = BeaverAnd(1, d1, v1[1], v1[2]), p2 = BeaverAnd(2, d2, v2[1], v2[2])
  PROVE  p1 \in Ring /\ p2 \in Ring /\ XorW(p1, p2) = AndW(XorW(x1, x2), XorW(y1, y2))
<1> DEFINE a1 == d1.a[1]
           a2 == d2.a[1]
           b1 == d1.b[1]
           b2 == d2.b[1]
           c1 == d1.c[1]
           c2 == d2.c[1]
           v  == XorW(XorW(a1, x1), XorW(a2, x2))
           w  == XorW(XorW(b1, y1), XorW(b2, y2))
<1>1. /\ a1 \in Ring /\ a2 \in Ring /\ b1 \in Ring /\ b2 \in Ring /\ c1 \in Ring /\ c2 \in Ring
      /\ AndW(XorW(a1, a2), XorW(b1, b2)) = XorW(c1, c2)
  <2>1. 1 \in 1 .. n
    OBVIOUS
  <2>. QED  BY <2>1 DEF AndDeal
<1>2. Kind(g) = "and" /\ Takes(g) = 2 /\ 1 \in 1 .. Takes(g) /\ 2 \in 1 .. Takes(g)
  BY TakesIs DEF AndGate
<1>4. Opened(1, g, d1, "and", a)[1] = XorW(a1, x1) /\ Opened(1, g, d1, "and", a)[2] = XorW(b1, y1)
  <2>1. Opened(1, g, d1, "and", a)
          = <<XorW(a1, Factors(1, g, a)[1][1]), XorW(b1, Factors(1, g, a)[1][2])>>
    BY DEF Opened, AndGate, MultGate
  <2>. QED  BY <2>1
<1>5. Opened(2, g, d2, "and", b)[1] = XorW(a2, x2) /\ Opened(2, g, d2, "and", b)[2] = XorW(b2, y2)
  <2>1. Opened(2, g, d2, "and", b)
          = <<XorW(a2, Factors(2, g, b)[1][1]), XorW(b2, Factors(2, g, b)[1][2])>>
    BY DEF Opened, AndGate, MultGate
  <2>. QED  BY <2>1
<1>6. v1[1] = v /\ v2[1] = v
  BY <1>2, <1>4, <1>5 DEF Receives, Joined
<1>7. v1[2] = w /\ v2[2] = w
  BY <1>2, <1>4, <1>5 DEF Receives, Joined
<1>8. v \in Ring /\ w \in Ring
  BY <1>1, BitOps
<1>9. p1 = XorW(XorW(XorW(0, AndW(v, b1)), AndW(w, a1)), c1)
  BY <1>6, <1>7 DEF BeaverAnd
<1>10. p2 = XorW(XorW(XorW(AndW(v, w), AndW(v, b2)), AndW(w, a2)), c2)
  BY <1>6, <1>7 DEF BeaverAnd
<1>11. v = XorW(XorW(a1, x1), XorW(a2, x2)) /\ w = XorW(XorW(b1, y1), XorW(b2, y2))
  OBVIOUS
<1> HIDE DEF v, w, a1, a2, b1, b2, c1, c2
<1>12. AndTriple(x1, x2, y1, y2, p1, p2)
  BY <1>1, <1>8, <1>9, <1>10, <1>11 DEF AndTriple
<1>. QED  BY <1>12, BeaverAnds

LEMMA AndOpens ==
  ASSUME NEW g \in Gate, NEW a, NEW b, NEW v, NEW pm, LengthsFit(g), BinIn(g, a, b, v),
         g.type = "And", NEW d1, NEW d2, AndDeal(d1, d2, Len(g.in1)),
         NEW v1, NEW v2, Receives(g, d1, d2, a, b, v1, v2)
  PROVE  Yields(g, Finished(1, g, d1, v1, a), Finished(2, g, d2, v2, b),
                Value(g, On(v, g.in1), On(v, g.in2), pm))
<1> DEFINE i == g.in1[1]
           j == g.in2[1]
           p1 == BeaverAnd(1, d1, v1[1], v1[2])
           p2 == BeaverAnd(2, d2, v2[1], v2[2])
<1>1. Len(g.in1) = 1 /\ Len(g.in2) = 1 /\ Len(g.outs) = 1 /\ Sort(g) = "bin" /\ g.type \in AndGate
  BY Lens1 DEF Sort, AndGate
<1>2. /\ a[i] \in Ring /\ b[i] \in Ring /\ v[i] = XorW(a[i], b[i])
      /\ a[j] \in Ring /\ b[j] \in Ring /\ v[j] = XorW(a[j], b[j])
  BY <1>1, FirstIn DEF BinIn
<1>3. Factors(1, g, a) = << <<a[i], a[j]>> >> /\ Factors(2, g, b) = << <<b[i], b[j]>> >>
  <2>1. Factors(1, g, a) = << <<On(a, g.in1)[1], On(a, g.in2)[1]>> >>
    BY DEF Factors
  <2>2. Factors(2, g, b) = << <<On(b, g.in1)[1], On(b, g.in2)[1]>> >>
    BY DEF Factors
  <2>. QED  BY <1>1, <2>1, <2>2, FirstIn
<1>5. p1 \in Ring /\ p2 \in Ring /\ XorW(p1, p2) = AndW(XorW(a[i], b[i]), XorW(a[j], b[j]))
  <2>1. AndDeal(d1, d2, 1) /\ 1 \in Nat /\ 1 > 0
    BY <1>1
  <2>2. Factors(1, g, a)[1] = <<a[i], a[j]>> /\ Factors(2, g, b)[1] = <<b[i], b[j]>>
    BY <1>3
  <2> HIDE DEF i, j
  <2>. QED  BY <1>1, <1>2, <2>1, <2>2, AndProduct
<1>6. Value(g, On(v, g.in1), On(v, g.in2), pm) = <<AndW(v[i], v[j])>>
  <2>1. Value(g, On(v, g.in1), On(v, g.in2), pm) = <<AndW(On(v, g.in1)[1], On(v, g.in2)[1])>>
    BY ValueIs
  <2>. QED  BY <1>1, <2>1, FirstIn
<1>7. Finished(1, g, d1, v1, a) = <<p1>> /\ Finished(2, g, d2, v2, b) = <<p2>>
  BY FinishedIs
<1> HIDE DEF p1, p2, i, j
<1>8. AndW(v[i], v[j]) = XorW(p1, p2) /\ AndW(v[i], v[j]) \in Ring
  BY <1>2, <1>5, BitOps
<1>. QED  BY <1>1, <1>5, <1>6, <1>7, <1>8 DEF Yields, Opening

LEMMA RevealOpens ==
  ASSUME NEW g \in Gate, NEW a, NEW b, NEW v, NEW pm, LengthsFit(g), ArithIn(g, a, b, v),
         g.type = "Reveal", NEW d1, NEW d2,
         NEW v1, NEW v2, Receives(g, d1, d2, a, b, v1, v2)
  PROVE  Yields(g, Finished(1, g, d1, v1, a), Finished(2, g, d2, v2, b),
                Value(g, On(v, g.in1), On(v, g.in2), pm))
<1> DEFINE x1 == On(a, g.in1)
           x2 == On(b, g.in1)
           x  == On(v, g.in1)
           n  == Len(g.in1)
<1>1. n \in Nat /\ Len(g.outs) = n /\ Sort(g) = "clear" /\ Takes(g) = n /\ Kind(g) = "reveal"
  BY Lens1, Inputs1, TakesIs DEF Sort
<1>2. \A j \in 1 .. n : /\ x1[j] \in Ring /\ x2[j] \in Ring /\ x[j] = Plus(x1[j], x2[j])
                        /\ x[j] \in Ring
  BY SharedWord DEF ArithIn
<1>3. Opened(1, g, d1, "reveal", a) = x1 /\ Opened(2, g, d2, "reveal", b) = x2
  BY DEF Opened, MultGate, AndGate, ShuffleGate
<1>4. \A j \in 1 .. n : v1[j] = Plus(x1[j], x2[j]) /\ v2[j] = Plus(x1[j], x2[j])
  BY <1>1, <1>3 DEF Receives, Joined
<1>5. Finished(1, g, d1, v1, a) = v1 /\ Finished(2, g, d2, v2, b) = v2
  BY FinishedIs
<1>6. Value(g, x, On(v, g.in2), pm) = x
  BY ValueIs
<1>7. \A j \in 1 .. n : v1[j] \in Ring /\ v2[j] \in Ring /\ x[j] \in Ring /\ v1[j] = x[j] /\ v2[j] = x[j]
  BY <1>2, <1>4
<1>8. Yields(g, v1, v2, x)
  BY <1>1, <1>7 DEF Yields, Opening
<1>. QED  BY <1>5, <1>6, <1>8 DEF x
-----------------------------------------------------------------------------
(* A layer of a comparison with zero: the halves of z.                     *)
ZeroIn(g, a, b, v) ==
  \A i \in Elems(g.in1) :
    /\ a[i] \in Ring /\ b[i] \in Ring
    /\ g.param = 0 => v[i] = Plus(a[i], b[i])
    /\ g.param # 0 => /\ v[i] = IF XorW(a[i], b[i]) = 0 THEN 0 ELSE 1
                      /\ XorW(a[i], b[i]) < 2^Half(g.param - 1)

LEMMA HalfFacts ==
  ASSUME NEW l \in Nat, l < Layers
  PROVE  /\ Half(l) \in 0 .. 2^Layers /\ 2^Half(l) \in Nat
         /\ l = 0 => 2^Half(l) * 2^Half(l) = Modulus
         /\ l > 0 => 2^Half(l) * 2^Half(l) = 2^Half(l - 1)
         /\ l = Layers - 1 => 2^Half(l) = 2
<1>1. Layers \in Nat /\ Layers > 0 /\ Modulus = 2^(2^Layers) /\ 2^Layers \in Nat
  BY LayersFacts
<1>2. Layers - 1 - l \in Nat
  BY <1>1
<1> DEFINE e == Layers - 1 - l
           w == 2^e
<1>3. Half(l) = w
  BY DEF Half
<1>4. e \in Nat /\ w \in Nat /\ 2^(e + 1) = 2 * w
  BY <1>2, PowNat, PowNext
<1>5. 2^(w + w) = 2^w * 2^w
  BY <1>4, PowAdd
<1>6. w <= 2^Layers
  <2>1. l \in Nat /\ Layers = (e + 1) + l
    BY <1>1
  <2>2. 2^((e + 1) + l) = 2^(e + 1) * 2^l /\ 2^l \in Nat /\ 2^l > 0
    <3>1. e + 1 \in Nat
      BY <1>4
    <3> HIDE DEF e
    <3>. QED  BY <3>1, PowAdd, PowNat
  <2> DEFINE u == 2^l
  <2>3. 2^Layers = (2 * w) * u /\ u \in Nat /\ u > 0
    BY <1>4, <2>1, <2>2
  <2> HIDE DEF u, e, w
  <2>4. w <= (2 * w) * u
    <3>1. w * u >= w
      BY <1>4, <2>3
    <3>2. (2 * w) * u = 2 * (w * u) /\ w * u \in Nat
      BY <1>4, <2>3
    <3>. QED  BY <1>4, <3>1, <3>2
  <2>. QED  BY <2>3, <2>4
<1>7. 2^w \in Nat
  BY <1>4, PowNat
<1>8. ASSUME l = 0 PROVE 2^w * 2^w = Modulus
  <2>1. Layers = e + 1
    BY <1>1, <1>8
  <2>2. 2^Layers = w + w
    BY <1>4, <2>1
  <2>. QED  BY <1>1, <1>5, <2>2
<1>9. ASSUME l > 0 PROVE 2^w * 2^w = 2^Half(l - 1)
  <2>1. Layers - 1 - (l - 1) = e + 1
    BY <1>1
  <2>2. Half(l - 1) = 2^(e + 1)
    BY <2>1 DEF Half
  <2>3. Half(l - 1) = w + w
    BY <1>4, <2>2
  <2>. QED  BY <1>5, <2>3
<1>10. ASSUME l = Layers - 1 PROVE 2^w = 2
  <2>1. e = 0
    BY <1>1, <1>10
  <2>2. 2^0 = 1
    OBVIOUS
  <2>3. 2^(0 + 1) = 2 * 2^0
    BY PowNext
  <2>4. w = 1
    BY <2>1, <2>2
  <2>5. 2^1 = 2
    BY <2>2, <2>3
  <2> HIDE DEF w
  <2>. QED  BY <2>4, <2>5
<1> HIDE DEF w
<1>. QED  BY <1>1, <1>3, <1>4, <1>6, <1>7, <1>8, <1>9, <1>10

LEMMA NegSum ==
  ASSUME NEW x \in Ring, NEW y \in Ring
  PROVE  x = Neg(y) <=> Plus(x, y) = 0
<1>1. x \in Int /\ y \in Int /\ 0 <= x /\ 0 <= y /\ x < Modulus /\ y < Modulus /\ Modulus \in Nat \ {0}
  BY RingInt, ModulusFacts
<1>2. Neg(y) = IF y = 0 THEN 0 ELSE Modulus - y
  <2>1. CASE y = 0
    <3>1. Minus(0, 0) = 0
      BY ModulusFacts, RingConsts, IsMinus, IsSame
    <3>. QED  BY <2>1, <3>1 DEF Neg
  <2>2. CASE y # 0
    <3>1. Is(Neg(y), 0 - y)
      BY RingConsts, IsWord, IsMinus DEF Neg
    <3>2. Modulus - y \in Ring
      BY <1>1, <2>2 DEF Ring
    <3>3. Is(Modulus - y, Modulus - y)
      BY <3>2, IsWord
    <3>4. 0 - y = (Modulus - y) + Modulus * (0 - 1)
      BY <1>1
    <3>5. Is(Modulus - y, 0 - y)
      BY <1>1, <3>2, <3>4 DEF Is
    <3>. QED  BY <2>2, <3>1, <3>5, IsSame
  <2>. QED  BY <2>1, <2>2
<1>3. Plus(x, y) = IF x + y < Modulus THEN x + y ELSE x + y - Modulus
  <2>1. Is(Plus(x, y), x + y)
    BY IsWord, IsPlus
  <2>2. CASE x + y < Modulus
    <3>1. x + y \in Ring
      BY <1>1, <2>2 DEF Ring
    <3>2. Is(x + y, x + y)
      BY <3>1, IsWord
    <3>. QED  BY <2>1, <2>2, <3>2, IsSame
  <2>3. CASE ~ (x + y < Modulus)
    <3>1. x + y - Modulus \in Ring
      BY <1>1, <2>3 DEF Ring
    <3>2. x + y = (x + y - Modulus) + Modulus * 1 /\ x + y \in Int
      BY <1>1
    <3>3. Is(x + y - Modulus, x + y)
      BY <1>1, <3>1, <3>2 DEF Is
    <3>. QED  BY <2>1, <2>3, <3>3, IsSame
  <2>. QED  BY <2>2, <2>3
<1>. QED  BY <1>1, <1>2, <1>3

LEMMA ZeroOpens ==
  ASSUME NEW g \in Gate, NEW a, NEW b, NEW v, NEW pm, LengthsFit(g), ZeroIn(g, a, b, v),
         g.type = "EqualsZero", g.param < Layers, NEW d1, NEW d2, AndDeal(d1, d2, Len(g.in1)),
         NEW v1, NEW v2, Receives(g, d1, d2, a, b, v1, v2)
  PROVE  Yields(g, Finished(1, g, d1, v1, a), Finished(2, g, d2, v2, b),
                Value(g, On(v, g.in1), On(v, g.in2), pm))
<1> DEFINE i  == g.in1[1]
           l  == g.param
           w  == Half(l)
           s1 == a[i]
           s2 == IF l = 0 THEN Neg(b[i]) ELSE b[i]
           z  == XorW(s1, s2)
           h1 == LowBits(Shr(s1, w), w)
           l1 == LowBits(s1, w)
           h2 == LowBits(Shr(s2, w), w)
           l2 == LowBits(s2, w)
           p1 == BeaverAnd(1, d1, v1[1], v1[2])
           p2 == BeaverAnd(2, d2, v2[1], v2[2])
           r  == XorW(p1, p2)
<1>1. Len(g.in1) = 1 /\ Len(g.outs) = 1 /\ l \in Nat /\ l < Layers /\ g.type \in AndGate
  BY Lens1 DEF Gate, AndGate
<1>2. /\ On(a, g.in1)[1] = a[i] /\ On(b, g.in1)[1] = b[i] /\ On(v, g.in1)[1] = v[i]
      /\ i \in Elems(g.in1)
  BY <1>1, FirstIn
<1>3. a[i] \in Ring /\ b[i] \in Ring /\ s1 \in Ring /\ s2 \in Ring /\ z \in Ring
  <2>1. a[i] \in Ring /\ b[i] \in Ring
    BY <1>2 DEF ZeroIn
  <2>2. Neg(b[i]) \in Ring
    BY <2>1, RingConsts, RingOps DEF Neg
  <2>. QED  BY <2>1, <2>2, BitOps
<1>4. /\ w \in 0 .. 2^Layers
      /\ 2^w \in Nat
      /\ l = Layers - 1 => 2^w = 2
      /\ l = 0 => 2^w * 2^w = Modulus
      /\ l > 0 => 2^w * 2^w = 2^Half(l - 1)
  BY <1>1, HalfFacts
<1>5. z < 2^w * 2^w /\ (v[i] = 0 <=> z = 0)
  <2>1. CASE l = 0
    <3>1. z < Modulus
      BY <1>3, RingInt
    <3>2. z = 0 <=> s1 = s2
      <4> HIDE DEF s1, s2
      <4>. QED  BY <1>3, XorZero
    <3>3. a[i] = Neg(b[i]) <=> Plus(a[i], b[i]) = 0
      BY <1>3, NegSum
    <3>4. v[i] = Plus(a[i], b[i])
      BY <1>2, <2>1 DEF ZeroIn
    <3>. QED  BY <1>4, <2>1, <3>1, <3>2, <3>3, <3>4
  <2>2. CASE l # 0
    <3>1. z = XorW(a[i], b[i]) /\ l > 0
      BY <1>1, <2>2
    <3>2. v[i] = (IF XorW(a[i], b[i]) = 0 THEN 0 ELSE 1) /\ XorW(a[i], b[i]) < 2^Half(l - 1)
      BY <1>2, <2>2 DEF ZeroIn
    <3>. QED  BY <1>4, <3>1, <3>2
  <2>. QED  BY <2>1, <2>2
<1>6. Factors(1, g, a)[1] = <<Complement(h1), Complement(l1)>> /\ Factors(2, g, b)[1] = <<h2, l2>>
  <2>1. Factors(1, g, a) = << Halves(1, g, On(a, g.in1)[1]) >>
    BY DEF Factors
  <2>2. Factors(2, g, b) = << Halves(2, g, On(b, g.in1)[1]) >>
    BY DEF Factors
  <2>3. Halves(1, g, a[i]) = <<Complement(h1), Complement(l1)>>
    BY DEF Halves
  <2>4. Halves(2, g, b[i]) = <<h2, l2>>
    BY DEF Halves
  <2> HIDE DEF h1, l1, h2, l2
  <2>. QED  BY <1>2, <2>1, <2>2, <2>3, <2>4
<1>7. /\ h1 \in Ring /\ l1 \in Ring /\ h2 \in Ring /\ l2 \in Ring
      /\ XorW(h1, h2) = LowBits(Shr(z, w), w) /\ XorW(l1, l2) = LowBits(z, w)
  <2> HIDE DEF s1, s2, w
  <2>1. Shr(s1, w) \in Ring /\ Shr(s2, w) \in Ring /\ l1 \in Ring /\ l2 \in Ring
    BY <1>3, <1>4, LowBitsFacts
  <2>2. h1 \in Ring /\ h2 \in Ring
    BY <1>4, <2>1, LowBitsFacts
  <2>3. XorW(Shr(s1, w), Shr(s2, w)) = Shr(z, w) /\ XorW(l1, l2) = LowBits(z, w)
    BY <1>3, <1>4, BitParts
  <2>4. XorW(h1, h2) = LowBits(XorW(Shr(s1, w), Shr(s2, w)), w)
    BY <1>4, <2>1, BitParts
  <2>. QED  BY <2>1, <2>2, <2>3, <2>4
<1>8. /\ p1 \in Ring /\ p2 \in Ring
      /\ r = AndW(XorW(Complement(h1), h2), XorW(Complement(l1), l2))
  <2>1. AndDeal(d1, d2, 1) /\ 1 \in Nat /\ 1 > 0
    BY <1>1
  <2>2. Complement(h1) \in Ring /\ Complement(l1) \in Ring
    BY <1>7, ComplementFacts
  <2> HIDE DEF h1, h2, l1, l2
  <2>. QED  BY <1>1, <1>6, <1>7, <2>1, <2>2, AndProduct
<1>9. r = AndW(Complement(LowBits(Shr(z, w), w)), Complement(LowBits(z, w)))
  <2> HIDE DEF h1, h2, l1, l2, r, z, w
  <2>1. XorW(Complement(h1), h2) = Complement(XorW(h1, h2))
    BY <1>7, XorComplement
  <2>2. XorW(Complement(l1), l2) = Complement(XorW(l1, l2))
    BY <1>7, XorComplement
  <2>. QED  BY <1>7, <1>8, <2>1, <2>2
<1>10. /\ r \in Ring /\ Complement(r) \in Ring /\ Complement(r) < 2^w
       /\ Complement(r) = 0 <=> z = 0
  <2> HIDE DEF r, z, w
  <2>. QED  BY <1>3, <1>4, <1>5, <1>9, OrOfHalves
<1>11. /\ Finished(1, g, d1, v1, a) = <<ZeroLayer(1, g, p1)>>
       /\ Finished(2, g, d2, v2, b) = <<ZeroLayer(2, g, p2)>>
  BY FinishedIs
<1> HIDE DEF i, s1, s2, z, h1, l1, h2, l2, p1, p2, w
<1>12. CASE l = Layers - 1
  <2>1. Sort(g) = "bin"
    BY <1>12 DEF Sort
  <2>0. ~ (l < Layers - 1)
    BY <1>1, <1>12, LayersFacts
  <2>2. ZeroLayer(1, g, p1) = LowBits(p1, 1) /\ ZeroLayer(2, g, p2) = LowBits(p2, 1)
    BY <1>12, <2>0 DEF ZeroLayer
  <2>3. Value(g, On(v, g.in1), On(v, g.in2), pm) = <<IF v[i] = 0 THEN 1 ELSE 0>>
    BY <1>2, <1>12, ValueIs
  <2>4. XorW(LowBits(p1, 1), LowBits(p2, 1)) = LowBits(r, 1)
    BY <1>8, LayersFacts, BitParts
  <2>5. LowBits(r, 1) = IF Complement(r) = 0 THEN 1 ELSE 0
    <3>1. Complement(r) < 2
      BY <1>4, <1>10, <1>12
    <3>. QED  BY <1>10, <3>1, LastLayer
  <2>6. LowBits(p1, 1) \in Ring /\ LowBits(p2, 1) \in Ring
    BY <1>8, LayersFacts, LowBitsFacts
  <2>7. (IF v[i] = 0 THEN 1 ELSE 0) = XorW(LowBits(p1, 1), LowBits(p2, 1))
    BY <1>5, <1>10, <2>4, <2>5
  <2>8. (IF v[i] = 0 THEN 1 ELSE 0) \in Ring
    BY RingConsts
  <2>. QED  BY <1>1, <1>11, <2>1, <2>2, <2>3, <2>6, <2>7, <2>8 DEF Yields, Opening
<1>13. CASE l # Layers - 1
  <2>1. Sort(g) = "zero"
    BY <1>13 DEF Sort
  <2>0. l < Layers - 1
    BY <1>1, <1>13, LayersFacts
  <2>2. ZeroLayer(1, g, p1) = Complement(p1) /\ ZeroLayer(2, g, p2) = p2
    BY <1>13, <2>0 DEF ZeroLayer
  <2>3. Value(g, On(v, g.in1), On(v, g.in2), pm) = <<IF v[i] = 0 THEN 0 ELSE 1>>
    BY <1>2, <1>13, ValueIs
  <2>4. XorW(Complement(p1), p2) = Complement(r) /\ Complement(p1) \in Ring
    BY <1>8, XorComplement, ComplementFacts DEF r
  <2>7. (IF v[i] = 0 THEN 0 ELSE 1) = IF XorW(Complement(p1), p2) = 0 THEN 0 ELSE 1
    BY <1>5, <1>10, <2>4
  <2>8. (IF v[i] = 0 THEN 0 ELSE 1) \in Ring
    BY RingConsts
  <2>9. XorW(Complement(p1), p2) < 2^Half(g.param)
    BY <1>10, <2>4 DEF w
  <2>. QED  BY <1>1, <1>8, <1>11, <2>1, <2>2, <2>3, <2>4, <2>7, <2>8, <2>9 DEF Yields, Opening
<1>. QED  BY <1>12, <1>13

(* The bit of a word is the same in every position of a sharing.           *)
LEMMA BitOfXor ==
  ASSUME NEW x \in Ring, NEW y \in Ring
  PROVE  /\ x % 2 \in {0, 1} /\ y % 2 \in {0, 1} /\ x % 2 \in Ring /\ y % 2 \in Ring
         /\ XorW(x, y) % 2 = IF x % 2 = y % 2 THEN 0 ELSE 1
<1>1. 2^1 = 2
  <2>1. 2^0 = 1 /\ 0 \in Nat
    OBVIOUS
  <2>2. 2^(0 + 1) = 2 * 2^0
    BY <2>1, PowNext
  <2>. QED  BY <2>1, <2>2
<1>2. LowBits(x, 1) = x % 2 /\ LowBits(y, 1) = y % 2 /\ LowBits(XorW(x, y), 1) = XorW(x, y) % 2
  BY <1>1 DEF LowBits
<1>3. XorW(x % 2, y % 2) = XorW(x, y) % 2
  BY <1>2, LayersFacts, BitParts
<1>4. x % 2 \in {0, 1} /\ y % 2 \in {0, 1}
  BY RingInt
<1>5. XorW(0, 0) = 0 /\ XorW(1, 1) = 0 /\ XorW(0, 1) = 1 /\ XorW(1, 0) = 1
  BY RingConsts, BitOps
<1>. QED  BY <1>3, <1>4, <1>5, RingConsts

LEMMA IsTimesTwo ==
  ASSUME NEW p \in Ring
  PROVE  Is(Times(2, p), 2 * p)
<1>1. (2 * p) \in Int
  BY RingInt
<1>2. Is((2 * p) % Modulus, 2 * p)
  BY <1>1, IsTrunc
<1>. QED  BY <1>2 DEF Times

LEMMA ConvertOpens ==
  ASSUME NEW g \in Gate, NEW a, NEW b, NEW v, NEW pm, LengthsFit(g), BinIn(g, a, b, v),
         g.type = "ConvertB2A", NEW d1, NEW d2, MultDeal(d1, d2, Len(g.in1)),
         NEW v1, NEW v2, Receives(g, d1, d2, a, b, v1, v2)
  PROVE  Yields(g, Finished(1, g, d1, v1, a), Finished(2, g, d2, v2, b),
                Value(g, On(v, g.in1), On(v, g.in2), pm))
<1> DEFINE i  == g.in1[1]
           s1 == a[i] % 2
           s2 == b[i] % 2
           p1 == BeaverProduct(1, d1, 1, v1[1], v1[2])
           p2 == BeaverProduct(2, d2, 1, v2[1], v2[2])
           o1 == Minus(s1, Times(2, p1))
           o2 == Minus(s2, Times(2, p2))
<1>1. Len(g.in1) = 1 /\ Len(g.outs) = 1 /\ Sort(g) = "arith"
  BY Lens1 DEF Sort
<1>2. /\ a[i] \in Ring /\ b[i] \in Ring /\ v[i] = XorW(a[i], b[i])
      /\ On(a, g.in1)[1] = a[i] /\ On(b, g.in1)[1] = b[i] /\ On(v, g.in1)[1] = v[i]
  BY <1>1, FirstIn DEF BinIn
<1>3. /\ s1 \in {0, 1} /\ s2 \in {0, 1} /\ s1 \in Ring /\ s2 \in Ring
      /\ v[i] % 2 = IF s1 = s2 THEN 0 ELSE 1
  BY <1>2, BitOfXor
<1>4. Factors(1, g, a) = << <<s1, 0>> >> /\ Factors(2, g, b) = << <<0, s2>> >>
  <2>1. Factors(1, g, a) = << <<On(a, g.in1)[1] % 2, 0>> >>
    BY DEF Factors
  <2>2. Factors(2, g, b) = << <<0, On(b, g.in1)[1] % 2>> >>
    BY DEF Factors
  <2>. QED  BY <1>2, <2>1, <2>2
<1>5. Takes(g) = 2 /\ g.type \in MultGate
  BY TakesIs DEF MultGate
<1>6. p1 \in Ring /\ p2 \in Ring /\ Plus(p1, p2) = Times(Plus(s1, 0), Plus(0, s2))
  <2>1. /\ Len(Factors(1, g, a)) = 1 /\ Len(Factors(2, g, b)) = 1
        /\ Factors(1, g, a)[1] = <<s1, 0>> /\ Factors(2, g, b)[1] = <<0, s2>>
    BY <1>4
  <2>2. p1 = BeaverProduct(1, d1, 1, v1[1], v1[2]) /\ p2 = BeaverProduct(2, d2, 1, v2[1], v2[2])
    OBVIOUS
  <2>3. Multiplies(g, d1, d2, a, b, v1, v2, 1, 1)
    BY <1>1, <1>5, <2>1 DEF Multiplies
  <2>4. 1 \in 1 .. 1 /\ 1 = 2 * 1 - 1 /\ 2 = 2 * 1 /\ 0 \in Ring
    BY RingConsts
  <2> HIDE DEF p1, p2, s1, s2
  <2>. QED  BY <1>3, <2>1, <2>2, <2>3, <2>4, MultProduct
<1>7. Finished(1, g, d1, v1, a) = <<o1>> /\ Finished(2, g, d2, v2, b) = <<o2>>
  <2>1. Finished(1, g, d1, v1, a) = <<Minus(On(a, g.in1)[1] % 2, Times(2, p1))>>
    BY FinishedIs
  <2>2. Finished(2, g, d2, v2, b) = <<Minus(On(b, g.in1)[1] % 2, Times(2, p2))>>
    BY FinishedIs
  <2> HIDE DEF p1, p2
  <2>. QED  BY <1>2, <2>1, <2>2
<1>8. Value(g, On(v, g.in1), On(v, g.in2), pm) = <<v[i] % 2>>
  <2>1. Value(g, On(v, g.in1), On(v, g.in2), pm) = <<On(v, g.in1)[1] % 2>>
    BY ValueIs
  <2>. QED  BY <1>2, <2>1
<1> HIDE DEF p1, p2, s1, s2, i
<1>9. Is(Times(2, p1), 2 * p1) /\ Is(Times(2, p2), 2 * p2)
  <2>1. Is(Times(2, p1), 2 * p1)
    BY <1>6, IsWord, IsTimesTwo
  <2>2. Is(Times(2, p2), 2 * p2)
    BY <1>6, IsWord, IsTimesTwo
  <2>. QED  BY <2>1, <2>2
<1>10. o1 \in Ring /\ o2 \in Ring /\ Is(Plus(o1, o2), (s1 - 2 * p1) + (s2 - 2 * p2))
  <2>1. Is(o1, s1 - 2 * p1) /\ Is(o2, s2 - 2 * p2)
    BY <1>3, <1>9, IsWord, IsMinus
  <2>. QED  BY <2>1, IsPlus DEF Is
<1>11. Is(Plus(p1, p2), s1 * s2)
  <2>1. Plus(s1, 0) = s1 /\ Plus(0, s2) = s2
    <3>1. Is(Plus(s1, 0), s1 + 0) /\ Is(Plus(0, s2), 0 + s2)
      BY <1>3, RingConsts, IsWord, IsPlus
    <3>2. s1 + 0 = s1 /\ 0 + s2 = s2
      BY <1>3
    <3>. QED  BY <1>3, <3>1, <3>2, IsWord, IsSame
  <2>. QED  BY ZenonT(40), <1>3, <1>6, <2>1, IsWord, IsTimes
<1>12. Is(Plus(o1, o2), s1 + s2 - 2 * (s1 * s2))
  <2>1. Is(Plus(p1, p2), p1 + p2)
    BY <1>6, IsWord, IsPlus
  <2>2. PICK q \in Int : s1 * s2 = Plus(p1, p2) + Modulus * q
    BY <1>11 DEF Is
  <2>3. PICK r \in Int : p1 + p2 = Plus(p1, p2) + Modulus * r
    BY <2>1 DEF Is
  <2> DEFINE t == Plus(p1, p2)
             u == s1 * s2
             e == (s1 - 2 * p1) + (s2 - 2 * p2)
             mq == Modulus * q
             mr == Modulus * r
  <2>4. t \in Int /\ p1 \in Int /\ p2 \in Int /\ u \in Int /\ s1 \in Int /\ s2 \in Int
        /\ mq \in Int /\ mr \in Int /\ e \in Int
    <3>1. t \in Ring
      BY <2>1 DEF Is
    <3>2. t \in Int /\ p1 \in Int /\ p2 \in Int /\ s1 \in Int /\ s2 \in Int
      BY <1>3, <1>6, <3>1, RingInt
    <3>3. mq \in Int /\ mr \in Int
      BY ModulusFacts
    <3>4. u \in Int /\ e \in Int
      BY <3>2
    <3>. QED  BY <3>2, <3>3, <3>4
  <2>5. u = t + mq /\ p1 + p2 = t + mr
    BY <2>2, <2>3
  <2>6. Modulus * (2 * (r - q)) = 2 * mr - 2 * mq
    BY ModulusFacts
  <2>7. e = (s1 + s2) - 2 * (p1 + p2)
    BY <2>4
  <2> HIDE DEF t, u, e, mq, mr
  <2>8. s1 + s2 - 2 * u = e + (2 * mr - 2 * mq)
    BY <2>4, <2>5, <2>7
  <2>9. 2 * (r - q) \in Int /\ s1 + s2 - 2 * u \in Int
    BY <2>4
  <2>10. Is(Plus(o1, o2), e)
    BY <1>10 DEF e
  <2>11. Is(Plus(o1, o2), s1 + s2 - 2 * u)
    BY <2>6, <2>8, <2>9, <2>10, IsShift
  <2>. QED  BY <2>11 DEF u
<1>13. s1 + s2 - 2 * (s1 * s2) = v[i] % 2 /\ v[i] % 2 \in Ring
  BY <1>3, RingConsts
<1>14. v[i] % 2 = Plus(o1, o2)
  BY <1>12, <1>13, IsWord, IsSame
<1> HIDE DEF o1, o2
<1>15. Shared(<<o1>>, <<o2>>, <<v[i] % 2>>, 1)
  BY <1>10, <1>14 DEF Shared
<1>. QED  BY <1>1, <1>7, <1>8, <1>15, ArithOut
-----------------------------------------------------------------------------
(* Shuffles: one party applies its inner permutation to what it sends, the *)
(* other its outer one to what it receives.                                *)
LEMMA Unmasked ==
  ASSUME NEW m1 \in Ring, NEW m2 \in Ring, NEW e1 \in Ring, NEW e2 \in Ring,
         NEW y1 \in Ring, NEW y2 \in Ring, Plus(e1, e2) = Plus(m1, m2),
         NEW o1, NEW o2, o1 = Minus(Plus(y2, m2), e1), o2 = Minus(Plus(y1, m1), e2)
  PROVE  o1 \in Ring /\ o2 \in Ring /\ Plus(y1, y2) = Plus(o1, o2)
<1>1. Is(o1, (y2 + m2) - e1) /\ Is(o2, (y1 + m1) - e2)
  BY IsWord, IsPlus, IsMinus
<1>2. Is(Plus(o1, o2), ((y2 + m2) - e1) + ((y1 + m1) - e2))
  BY <1>1, IsPlus
<1>3. Is(Plus(e1, e2), e1 + e2) /\ Is(Plus(e1, e2), m1 + m2)
  BY IsWord, IsPlus
<1>4. Is(Minus(Plus(e1, e2), Plus(e1, e2)), (e1 + e2) - (m1 + m2))
  BY <1>3, IsMinus
<1>5. Is(Plus(Plus(o1, o2), Minus(Plus(e1, e2), Plus(e1, e2))),
         (((y2 + m2) - e1) + ((y1 + m1) - e2)) + ((e1 + e2) - (m1 + m2)))
  BY <1>2, <1>4, IsPlus
<1>6. /\ y1 \in Int /\ y2 \in Int /\ m1 \in Int /\ m2 \in Int /\ e1 \in Int /\ e2 \in Int
  BY RingInt
<1>7. (((y2 + m2) - e1) + ((y1 + m1) - e2)) + ((e1 + e2) - (m1 + m2)) = y1 + y2
  BY <1>6
<1>8. Is(Plus(y1, y2), y1 + y2)
  BY IsWord, IsPlus
<1> DEFINE p == Plus(o1, o2)
           e == Plus(e1, e2)
<1>9. p \in Ring /\ e \in Ring
  BY <1>2, <1>3 DEF Is
<1> HIDE DEF p, e
<1>10. Plus(p, Minus(e, e)) = p
  <2>1. Is(Plus(p, Minus(e, e)), p + (e - e))
    BY <1>9, IsWord, IsMinus, IsPlus
  <2>2. p + (e - e) = p
    BY <1>9, RingInt
  <2>. QED  BY <1>9, <2>1, <2>2, IsWord, IsSame
<1>11. p = Plus(y1, y2)
  BY <1>5, <1>7, <1>8, <1>10, IsSame DEF p, e
<1>. QED  BY <1>1, <1>11 DEF Is, p

LEMMA ForwardOpens ==
  ASSUME NEW g \in Gate, NEW a, NEW b, NEW v, NEW pm, LengthsFit(g), ArithIn(g, a, b, v),
         g.type \in ShuffleGate, ~ g.reverse, NEW d1, NEW d2,
         ShuffleDeal(g, d1, d2, Len(g.in1), PermOfGate(g, pm)),
         NEW v1, NEW v2, Receives(g, d1, d2, a, b, v1, v2)
  PROVE  Yields(g, Finished(1, g, d1, v1, a), Finished(2, g, d2, v2, b),
                Value(g, On(v, g.in1), On(v, g.in2), pm))
<1> DEFINE x1 == On(a, g.in1)
           x2 == On(b, g.in1)
           x  == On(v, g.in1)
           n  == Len(g.in1)
           f  == PermOfGate(g, pm)
           o1 == Finished(1, g, d1, v1, a)
           o2 == Finished(2, g, d2, v2, b)
<1>1. /\ n \in Nat /\ Len(g.outs) = n /\ Sort(g) = "arith" /\ Takes(g) = n /\ Kind(g) = "shuffle"
      /\ Len(x1) = n /\ Len(x2) = n /\ Len(x) = n /\ Len(v1) = n /\ Len(v2) = n
  BY Lens1, Inputs1, TakesIs DEF Sort, ShuffleGate, Receives
<1>2. \A j \in 1 .. n : /\ x1[j] \in Ring /\ x2[j] \in Ring /\ x[j] = Plus(x1[j], x2[j])
                        /\ x[j] \in Ring
  BY SharedWord DEF ArithIn
<1>3. /\ \A j \in 1 .. n : /\ d1.mask[j] \in Ring /\ d2.mask[j] \in Ring
                           /\ d1.b[j] \in Ring /\ d2.b[j] \in Ring
      /\ PermOf(d1.pi, n) /\ PermOf(d1.rho, n) /\ PermOf(d2.pi, n) /\ PermOf(d2.rho, n)
      /\ f = Joint(d1, d2)
      /\ \A j \in 1 .. n : /\ d2.rho[d1.rho[j]] = d1.pi[d2.pi[j]]
                           /\ Plus(d1.b[d1.pi[d2.pi[j]]], d2.b[d1.pi[d2.pi[j]]])
                                = Plus(d1.mask[j], d2.mask[j])
  BY DEF ShuffleDeal
<1>4. /\ \A j \in 1 .. n : d1.pi[j] \in 1 .. n /\ d1.rho[j] \in 1 .. n
      /\ \A j \in 1 .. n : d2.pi[j] \in 1 .. n /\ d2.rho[j] \in 1 .. n
      /\ DOMAIN d1.pi = 1 .. n
  BY <1>3 DEF PermOf
<1>5. \A j \in 1 .. n : f[j] = d1.pi[d2.pi[j]] /\ f[j] \in 1 .. n
  BY <1>3, <1>4 DEF Joint
<1>6. PermOf(f, n)
  <2>1. f = [j \in 1 .. n |-> d1.pi[d2.pi[j]]]
    BY <1>3, <1>4 DEF Joint
  <2>2. f \in [1 .. n -> 1 .. n]
    BY <1>5, <2>1
  <2>3. \A i, j \in 1 .. n : d1.pi[i] = d1.pi[j] => i = j
    BY <1>3 DEF PermOf
  <2>4. \A i, j \in 1 .. n : d2.pi[i] = d2.pi[j] => i = j
    BY <1>3 DEF PermOf
  <2>5. \A i, j \in 1 .. n : f[i] = f[j] => i = j
    BY SMTT(30), <1>4, <1>5, <2>3, <2>4
  <2>. QED  BY <2>2, <2>5 DEF PermOf
<1>7. \A j \in 1 .. n : v1[d2.pi[j]] = Plus(x2[j], d2.mask[j])
  <2>1. Opened(2, g, d2, "shuffle", b)
          = [k \in 1 .. n |-> Plus(x2[Inverted(d2.pi, n)[k]], d2.mask[Inverted(d2.pi, n)[k]])]
    BY <1>1 DEF Opened, MultGate, AndGate, ShuffleGate, Masked, Inner
  <2>2. \A k \in 1 .. n : v1[k] = Plus(x2[Inverted(d2.pi, n)[k]], d2.mask[Inverted(d2.pi, n)[k]])
    BY <1>1, <2>1 DEF Receives, Joined
  <2>3. \A j \in 1 .. n : Inverted(d2.pi, n)[d2.pi[j]] = j
    BY <1>1, <1>3, InvertedFacts
  <2>. QED  BY <1>4, <2>2, <2>3
<1>8. \A j \in 1 .. n : v2[d1.rho[j]] = Plus(x1[j], d1.mask[j])
  <2>1. Opened(1, g, d1, "shuffle", a)
          = [k \in 1 .. n |-> Plus(x1[Inverted(d1.rho, n)[k]], d1.mask[Inverted(d1.rho, n)[k]])]
    BY <1>1 DEF Opened, MultGate, AndGate, ShuffleGate, Masked, Inner
  <2>2. \A k \in 1 .. n : v2[k] = Plus(x1[Inverted(d1.rho, n)[k]], d1.mask[Inverted(d1.rho, n)[k]])
    BY <1>1, <2>1 DEF Receives, Joined
  <2>3. \A j \in 1 .. n : Inverted(d1.rho, n)[d1.rho[j]] = j
    BY <1>1, <1>3, InvertedFacts
  <2>. QED  BY <1>4, <2>2, <2>3
<1>9. \A j \in 1 .. n : o1[f[j]] = Minus(Plus(x2[j], d2.mask[j]), d1.b[f[j]])
  <2>1. o1 = [k \in 1 .. n |-> Minus(v1[Inverted(d1.pi, n)[k]], d1.b[k])]
    <3>1. o1 = Unshuffled(1, g, d1, v1)
      BY FinishedIs
    <3>. QED  BY <1>1, <3>1 DEF Unshuffled, Outer
  <2>2. \A k \in 1 .. n : o1[k] = Minus(v1[Inverted(d1.pi, n)[k]], d1.b[k])
    BY <2>1
  <2>3. \A j \in 1 .. n : Inverted(d1.pi, n)[d1.pi[j]] = j
    BY <1>1, <1>3, InvertedFacts
  <2> HIDE DEF o1
  <2>. QED  BY SMTT(30), <1>4, <1>5, <1>7, <2>2, <2>3
<1>10. \A j \in 1 .. n : o2[f[j]] = Minus(Plus(x1[j], d1.mask[j]), d2.b[f[j]])
  <2>1. o2 = [k \in 1 .. n |-> Minus(v2[Inverted(d2.rho, n)[k]], d2.b[k])]
    <3>1. o2 = Unshuffled(2, g, d2, v2)
      BY FinishedIs
    <3>. QED  BY <1>1, <3>1 DEF Unshuffled, Outer
  <2>2. \A k \in 1 .. n : o2[k] = Minus(v2[Inverted(d2.rho, n)[k]], d2.b[k])
    BY <2>1
  <2>3. \A j \in 1 .. n : Inverted(d2.rho, n)[d2.rho[j]] = j
    BY <1>1, <1>3, InvertedFacts
  <2>4. \A j \in 1 .. n : f[j] = d2.rho[d1.rho[j]]
    BY <1>3, <1>5
  <2> HIDE DEF o2, x1, x2, x, n, f
  <2> TAKE j \in 1 .. n
  <2>5. Inverted(d2.rho, n)[f[j]] = d1.rho[j] /\ f[j] \in 1 .. n
    <3>1. d1.rho[j] \in 1 .. n /\ f[j] \in 1 .. n /\ f[j] = d2.rho[d1.rho[j]]
      BY <1>4, <1>5, <2>4
    <3>. QED  BY <2>3, <3>1
  <2>6. o2[f[j]] = Minus(v2[d1.rho[j]], d2.b[f[j]])
    BY <2>2, <2>5
  <2>. QED  BY <1>8, <2>6
<1>11. Value(g, x, On(v, g.in2), pm) = [k \in 1 .. n |-> x[Inverted(f, n)[k]]]
  <2>1. Value(g, x, On(v, g.in2), pm) = Moved(x, f)
    BY ValueIs
  <2>. QED  BY <1>1, <2>1 DEF Moved
<1> HIDE DEF o1, o2, f, x1, x2, x
<1>12. \A j \in 1 .. n : /\ o1[f[j]] \in Ring /\ o2[f[j]] \in Ring
                         /\ x[j] = Plus(o1[f[j]], o2[f[j]])
  <2> TAKE j \in 1 .. n
  <2> DEFINE m1 == d1.mask[j]
             m2 == d2.mask[j]
             e1 == d1.b[f[j]]
             e2 == d2.b[f[j]]
             y1 == x1[j]
             y2 == x2[j]
             q1 == o1[f[j]]
             q2 == o2[f[j]]
  <2>1. /\ m1 \in Ring /\ m2 \in Ring /\ e1 \in Ring /\ e2 \in Ring /\ y1 \in Ring /\ y2 \in Ring
        /\ Plus(e1, e2) = Plus(m1, m2)
    BY <1>2, <1>3, <1>5
  <2>2. q1 = Minus(Plus(y2, m2), e1) /\ q2 = Minus(Plus(y1, m1), e2)
    BY <1>9, <1>10
  <2>3. x[j] = Plus(y1, y2)
    BY <1>2
  <2> HIDE DEF m1, m2, e1, e2, y1, y2, q1, q2
  <2>4. q1 \in Ring /\ q2 \in Ring /\ Plus(y1, y2) = Plus(q1, q2)
    BY <2>1, <2>2, Unmasked
  <2>. QED  BY <2>3, <2>4 DEF q1, q2
<1>13. \A k \in 1 .. n : Inverted(f, n)[k] \in 1 .. n /\ f[Inverted(f, n)[k]] = k
  BY <1>1, <1>6, InvertedFacts
<1>14. \A k \in 1 .. n : /\ o1[k] \in Ring /\ o2[k] \in Ring
                         /\ x[Inverted(f, n)[k]] = Plus(o1[k], o2[k])
  BY <1>12, <1>13
<1>15. Shared(o1, o2, Value(g, x, On(v, g.in2), pm), n)
  BY <1>11, <1>14 DEF Shared
<1>16. Yields(g, o1, o2, Value(g, x, On(v, g.in2), pm))
  BY <1>1, <1>15, ArithOut
<1>. QED  BY <1>16 DEF o1, o2, x

LEMMA BackwardOpens ==
  ASSUME NEW g \in Gate, NEW a, NEW b, NEW v, NEW pm, LengthsFit(g), ArithIn(g, a, b, v),
         g.type \in ShuffleGate, g.reverse, NEW d1, NEW d2,
         ShuffleDeal(g, d1, d2, Len(g.in1), PermOfGate(g, pm)),
         NEW v1, NEW v2, Receives(g, d1, d2, a, b, v1, v2)
  PROVE  Yields(g, Finished(1, g, d1, v1, a), Finished(2, g, d2, v2, b),
                Value(g, On(v, g.in1), On(v, g.in2), pm))
<1> DEFINE x1 == On(a, g.in1)
           x2 == On(b, g.in1)
           x  == On(v, g.in1)
           n  == Len(g.in1)
           f  == PermOfGate(g, pm)
           o1 == Finished(1, g, d1, v1, a)
           o2 == Finished(2, g, d2, v2, b)
<1>1. /\ n \in Nat /\ Len(g.outs) = n /\ Sort(g) = "arith" /\ Takes(g) = n /\ Kind(g) = "shuffle"
      /\ Len(x1) = n /\ Len(x2) = n /\ Len(x) = n /\ Len(v1) = n /\ Len(v2) = n
  BY Lens1, Inputs1, TakesIs DEF Sort, ShuffleGate, Receives
<1>2. \A j \in 1 .. n : /\ x1[j] \in Ring /\ x2[j] \in Ring /\ x[j] = Plus(x1[j], x2[j])
                        /\ x[j] \in Ring
  BY SharedWord DEF ArithIn
<1>3. /\ \A j \in 1 .. n : /\ d1.mask[j] \in Ring /\ d2.mask[j] \in Ring
                           /\ d1.b[j] \in Ring /\ d2.b[j] \in Ring
      /\ PermOf(d1.pi, n) /\ PermOf(d1.rho, n) /\ PermOf(d2.pi, n) /\ PermOf(d2.rho, n)
      /\ f = Joint(d1, d2)
      /\ \A j \in 1 .. n : /\ d2.rho[d1.rho[j]] = d1.pi[d2.pi[j]]
                           /\ Plus(d1.b[j], d2.b[j])
                                = Plus(d1.mask[d1.pi[d2.pi[j]]], d2.mask[d1.pi[d2.pi[j]]])
  BY DEF ShuffleDeal
<1>4. /\ \A j \in 1 .. n : d1.pi[j] \in 1 .. n /\ d1.rho[j] \in 1 .. n
      /\ \A j \in 1 .. n : d2.pi[j] \in 1 .. n /\ d2.rho[j] \in 1 .. n
      /\ DOMAIN d1.pi = 1 .. n
  BY <1>3 DEF PermOf
<1>5. \A j \in 1 .. n : /\ f[j] = d1.pi[d2.pi[j]] /\ f[j] \in 1 .. n
                        /\ f[j] = d2.rho[d1.rho[j]]
  BY <1>3, <1>4 DEF Joint
<1>7. \A k \in 1 .. n : v1[k] = Plus(x2[d2.rho[k]], d2.mask[d2.rho[k]])
  <2>1. Opened(2, g, d2, "shuffle", b)
          = [j \in 1 .. n |-> Plus(x2[d2.rho[j]], d2.mask[d2.rho[j]])]
    BY <1>1 DEF Opened, MultGate, AndGate, ShuffleGate, Masked, Outer
  <2>. QED  BY <1>1, <2>1 DEF Receives, Joined
<1>8. \A k \in 1 .. n : v2[k] = Plus(x1[d1.pi[k]], d1.mask[d1.pi[k]])
  <2>1. Opened(1, g, d1, "shuffle", a)
          = [j \in 1 .. n |-> Plus(x1[d1.pi[j]], d1.mask[d1.pi[j]])]
    BY <1>1 DEF Opened, MultGate, AndGate, ShuffleGate, Masked, Outer
  <2>. QED  BY <1>1, <2>1 DEF Receives, Joined
<1>9. \A j \in 1 .. n : o1[j] = Minus(Plus(x2[f[j]], d2.mask[f[j]]), d1.b[j])
  <2>1. o1 = [j \in 1 .. n |-> Minus(v1[d1.rho[j]], d1.b[j])]
    <3>1. o1 = Unshuffled(1, g, d1, v1)
      BY FinishedIs
    <3>. QED  BY <1>1, <3>1 DEF Unshuffled, Inner
  <2>2. \A j \in 1 .. n : o1[j] = Minus(v1[d1.rho[j]], d1.b[j])
    BY <2>1
  <2> HIDE DEF o1
  <2> TAKE j \in 1 .. n
  <2>3. v1[d1.rho[j]] = Plus(x2[f[j]], d2.mask[f[j]])
    BY <1>4, <1>5, <1>7
  <2>4. o1[j] = Minus(v1[d1.rho[j]], d1.b[j])
    BY <2>2
  <2>. QED  BY <2>3, <2>4
<1>10. \A j \in 1 .. n : o2[j] = Minus(Plus(x1[f[j]], d1.mask[f[j]]), d2.b[j])
  <2>1. o2 = [j \in 1 .. n |-> Minus(v2[d2.pi[j]], d2.b[j])]
    <3>1. o2 = Unshuffled(2, g, d2, v2)
      BY FinishedIs
    <3>. QED  BY <1>1, <3>1 DEF Unshuffled, Inner
  <2>2. \A j \in 1 .. n : o2[j] = Minus(v2[d2.pi[j]], d2.b[j])
    BY <2>1
  <2> HIDE DEF o2
  <2> TAKE j \in 1 .. n
  <2>3. v2[d2.pi[j]] = Plus(x1[f[j]], d1.mask[f[j]])
    BY <1>4, <1>5, <1>8
  <2>4. o2[j] = Minus(v2[d2.pi[j]], d2.b[j])
    BY <2>2
  <2>. QED  BY <2>3, <2>4
<1>11. Value(g, x, On(v, g.in2), pm) = [j \in 1 .. n |-> x[f[j]]]
  <2>1. Value(g, x, On(v, g.in2), pm) = MovedBack(x, f)
    BY ValueIs
  <2>. QED  BY <1>1, <2>1 DEF MovedBack
<1> HIDE DEF o1, o2, f, x1, x2, x
<1>12. \A j \in 1 .. n : o1[j] \in Ring /\ o2[j] \in Ring /\ x[f[j]] = Plus(o1[j], o2[j])
  <2> TAKE j \in 1 .. n
  <2> DEFINE m1 == d1.mask[f[j]]
             m2 == d2.mask[f[j]]
             e1 == d1.b[j]
             e2 == d2.b[j]
             y1 == x1[f[j]]
             y2 == x2[f[j]]
             q1 == o1[j]
             q2 == o2[j]
  <2>1. /\ m1 \in Ring /\ m2 \in Ring /\ e1 \in Ring /\ e2 \in Ring /\ y1 \in Ring /\ y2 \in Ring
        /\ Plus(e1, e2) = Plus(m1, m2)
    BY <1>2, <1>3, <1>5
  <2>2. q1 = Minus(Plus(y2, m2), e1) /\ q2 = Minus(Plus(y1, m1), e2)
    BY <1>9, <1>10
  <2>3. x[f[j]] = Plus(y1, y2)
    BY <1>2, <1>5
  <2> HIDE DEF m1, m2, e1, e2, y1, y2, q1, q2
  <2>4. q1 \in Ring /\ q2 \in Ring /\ Plus(y1, y2) = Plus(q1, q2)
    BY <2>1, <2>2, Unmasked
  <2>. QED  BY <2>3, <2>4 DEF q1, q2
<1>15. Shared(o1, o2, Value(g, x, On(v, g.in2), pm), n)
  BY <1>11, <1>12 DEF Shared
<1>16. Yields(g, o1, o2, Value(g, x, On(v, g.in2), pm))
  BY <1>1, <1>15, ArithOut
<1>. QED  BY <1>16 DEF o1, o2, x
-----------------------------------------------------------------------------
(* Flags are counted by adding them up.                                    *)
LEMMA SmallSum ==
  ASSUME NEW c \in Nat, NEW d \in Nat, c + d < Modulus
  PROVE  Plus(c, d) = c + d
<1>1. c + d \in Ring
  BY ModulusFacts DEF Ring
<1>2. c \in Ring /\ d \in Ring
  BY ModulusFacts DEF Ring
<1>3. Is(Plus(c, d), c + d)
  BY <1>2, IsWord, IsPlus
<1>. QED  BY <1>1, <1>3, IsWord, IsSame

LEMMA CountFlags ==
  ASSUME NEW n \in Nat, n < Modulus, NEW f, \A i \in 1 .. n : f[i] \in {0, 1}
  PROVE  \A j \in 0 .. n : Total(f, j) = Cardinality({i \in 1 .. j : f[i] = 1})
<1> DEFINE C(j) == {i \in 1 .. j : f[i] = 1}
           T == {j \in Nat : j <= n => /\ Total(f, j) = Cardinality(C(j)) /\ IsFiniteSet(C(j))
                                       /\ Cardinality(C(j)) \in Nat /\ Cardinality(C(j)) <= j}
<1>1. 0 \in T
  <2>1. C(0) = {}
    OBVIOUS
  <2>. QED  BY <2>1, TotalNext, FS_EmptySet
<1>2. ASSUME NEW j \in T PROVE j + 1 \in T
  <2> SUFFICES ASSUME j + 1 <= n
               PROVE  /\ Total(f, j + 1) = Cardinality(C(j + 1)) /\ IsFiniteSet(C(j + 1))
                      /\ Cardinality(C(j + 1)) \in Nat /\ Cardinality(C(j + 1)) <= j + 1
    OBVIOUS
  <2> DEFINE c == Cardinality(C(j))
  <2>1. j \in Nat /\ j <= n /\ j + 1 \in 1 .. n /\ j + 1 \in Nat
    OBVIOUS
  <2>2. Total(f, j) = c /\ IsFiniteSet(C(j)) /\ c \in Nat /\ c <= j
    BY <2>1
  <2>3. Total(f, j + 1) = Plus(c, f[j + 1])
    BY <2>1, <2>2, TotalNext
  <2>4. f[j + 1] \in {0, 1}
    BY <2>1
  <2>5. Plus(c, f[j + 1]) = c + f[j + 1]
    <3> DEFINE e == f[j + 1]
    <3>1. c \in Nat /\ e \in Nat /\ c <= j /\ e <= 1
      BY <2>2, <2>4
    <3> HIDE DEF c, e
    <3>2. c + e < Modulus
      BY <2>1, <3>1, ModulusFacts
    <3>3. Plus(c, e) = c + e
      BY <3>1, <3>2, SmallSum
    <3>. QED  BY <3>3 DEF e
  <2>6. CASE f[j + 1] = 0
    <3>1. C(j + 1) = C(j)
      BY <2>1, <2>6
    <3>. QED  BY <2>1, <2>2, <2>3, <2>5, <2>6, <3>1
  <2>7. CASE f[j + 1] = 1
    <3>1. C(j + 1) = C(j) \cup {j + 1} /\ j + 1 \notin C(j)
      BY <2>1, <2>7
    <3>2. IsFiniteSet(C(j + 1)) /\ Cardinality(C(j + 1)) = c + 1
      <4> HIDE DEF C
      <4>. QED  BY <2>2, <3>1, FS_AddElement DEF c
    <3> HIDE DEF c, C
    <3>. QED  BY <2>1, <2>2, <2>3, <2>5, <2>7, <3>2
  <2>. QED  BY <2>4, <2>6, <2>7
<1>3. T = Nat
  <2>1. T \in SUBSET Nat
    OBVIOUS
  <2> HIDE DEF T
  <2>. QED  BY <1>1, <1>2, <2>1, NatInd
<1>. QED  BY <1>3

(* Position j of the stable sort by flags x: zeros so far, or all zeros    *)
(* and the ones so far.                                                    *)
LEMMA DestinationTotals ==
  ASSUME NEW n \in Nat, n < Modulus, NEW x, DOMAIN x = 1 .. n, \A i \in 1 .. n : x[i] \in {0, 1},
         NEW u, \A i \in 1 .. n : u[i] = Minus(1, x[i]), NEW j \in 1 .. n
  PROVE  Destination(x, j) = IF x[j] = 0 THEN Total(u, j) ELSE Plus(Total(u, n), Total(x, j))
<1> DEFINE Z(k) == {i \in 1 .. k : x[i] = 0}
           O(k) == {i \in 1 .. k : x[i] = 1}
<1>1. \A i \in 1 .. n : u[i] = 1 - x[i] /\ u[i] \in {0, 1} /\ (u[i] = 1 <=> x[i] = 0)
  <2>1. Minus(1, 0) = 1 /\ Minus(1, 1) = 0
    <3>1. Is(Minus(1, 0), 1 - 0) /\ Is(Minus(1, 1), 1 - 1)
      BY RingConsts, IsMinus
    <3>. QED  BY <3>1, RingConsts, IsSame
  <2>. QED  BY <2>1
<1>2. \A k \in 0 .. n : Total(u, k) = Cardinality(Z(k))
  <2>1. \A k \in 0 .. n : Total(u, k) = Cardinality({i \in 1 .. k : u[i] = 1})
    BY <1>1, CountFlags
  <2>2. ASSUME NEW k \in 0 .. n PROVE {i \in 1 .. k : u[i] = 1} = Z(k)
    BY <1>1
  <2>. QED  BY <2>1, <2>2
<1>3. \A k \in 0 .. n : Total(x, k) = Cardinality(O(k))
  BY CountFlags
<1>4. Destination(x, j) = IF x[j] = 0 THEN Cardinality(Z(j)) ELSE Cardinality(Z(n)) + Cardinality(O(j))
  <2>1. {i \in 1 .. j : x[i] # 0} = O(j) /\ {i \in DOMAIN x : x[i] = 0} = Z(n)
    OBVIOUS
  <2>. QED  BY <2>1 DEF Destination
<1>5. Cardinality(Z(n)) \in Nat /\ Cardinality(O(j)) \in Nat /\ Cardinality(Z(n)) + Cardinality(O(j)) <= n
  <2>1. IsFiniteSet(1 .. n) /\ Cardinality(1 .. n) = n
    <3>1. n \in Int
      OBVIOUS
    <3>. QED  BY <3>1, FS_Interval
  <2>2. Z(n) \in SUBSET (1 .. n) /\ O(j) \in SUBSET (1 .. n) /\ Z(n) \cap O(j) = {}
    OBVIOUS
  <2>3. Z(n) \cup O(j) \in SUBSET (1 .. n)
    OBVIOUS
  <2> HIDE DEF Z, O
  <2>4. IsFiniteSet(Z(n)) /\ IsFiniteSet(O(j))
    BY <2>1, <2>2, FS_Subset
  <2>5. Cardinality(Z(n) \cup O(j)) = Cardinality(Z(n)) + Cardinality(O(j)) - Cardinality(Z(n) \cap O(j))
    BY <2>4, FS_Union
  <2>6. Cardinality(Z(n) \cup O(j)) <= n
    BY <2>1, <2>3, FS_Subset
  <2>7. Cardinality(Z(n)) \in Nat /\ Cardinality(O(j)) \in Nat
    BY <2>4, FS_CardinalityType
  <2>8. Cardinality(Z(n) \cap O(j)) = 0
    BY <2>2, FS_EmptySet
  <2>. QED  BY <2>5, <2>6, <2>7, <2>8
<1>6. Plus(Total(u, n), Total(x, j)) = Cardinality(Z(n)) + Cardinality(O(j))
  <2>1. Total(u, n) = Cardinality(Z(n)) /\ Total(x, j) = Cardinality(O(j))
    BY <1>2, <1>3
  <2> DEFINE z == Cardinality(Z(n))
             o == Cardinality(O(j))
  <2>2. z \in Nat /\ o \in Nat /\ z + o <= n
    BY <1>5
  <2> HIDE DEF z, o
  <2>3. z + o < Modulus
    BY <2>2, ModulusFacts
  <2>4. Plus(z, o) = z + o
    BY <2>2, <2>3, SmallSum
  <2>. QED  BY <2>1, <2>4 DEF z, o
<1>7. Total(u, j) = Cardinality(Z(j))
  BY <1>2
<1>. QED  BY <1>4, <1>6, <1>7

(* Beaver products p1 and p2 of the flag x and its step, zeros so far z1   *)
(* and z2, all zeros n1 and n2, ones so far t1 and t2.                     *)
Steps(z1, z2, n1, n2, t1, t2, x1, x2, x, p1, p2) ==
  /\ {z1, z2, n1, n2, t1, t2, x1, x2, p1, p2} \subseteq Ring
  /\ x \in {0, 1} /\ x = Plus(x1, x2)
  /\ Plus(p1, p2) = Times(Plus(x1, x2), Plus(Minus(Plus(n1, t1), z1), Minus(Plus(n2, t2), z2)))
LEMMA CompactionSum ==
  ASSUME NEW z1, NEW z2, NEW n1, NEW n2, NEW t1, NEW t2, NEW x1, NEW x2, NEW x, NEW p1, NEW p2,
         Steps(z1, z2, n1, n2, t1, t2, x1, x2, x, p1, p2)
  PROVE  Plus(Plus(z1, p1), Plus(z2, p2))
           = IF x = 0 THEN Plus(z1, z2) ELSE Plus(Plus(n1, n2), Plus(t1, t2))
<1> SUFFICES ASSUME z1 \in Ring, z2 \in Ring, n1 \in Ring, n2 \in Ring,
                    t1 \in Ring, t2 \in Ring, x1 \in Ring, x2 \in Ring,
                    x \in {0, 1}, x = Plus(x1, x2), p1 \in Ring, p2 \in Ring,
                    Plus(p1, p2) = Times(Plus(x1, x2), Plus(Minus(Plus(n1, t1), z1), Minus(Plus(n2, t2), z2)))
             PROVE  Plus(Plus(z1, p1), Plus(z2, p2))
                      = IF x = 0 THEN Plus(z1, z2) ELSE Plus(Plus(n1, n2), Plus(t1, t2))
  BY DEF Steps
<1> DEFINE Z == Plus(z1, z2)
           N == Plus(n1, n2)
           S == Plus(t1, t2)
           Y == Plus(Minus(Plus(n1, t1), z1), Minus(Plus(n2, t2), z2))
<1>1. /\ Z \in Ring /\ N \in Ring /\ S \in Ring /\ Plus(n1, t1) \in Ring /\ Plus(n2, t2) \in Ring
      /\ Plus(p1, p2) \in Ring /\ Plus(N, S) \in Ring
  BY RingOps
<1>2. Y = Minus(Plus(N, S), Z)
  <2>1. Y = Minus(Plus(Plus(n1, t1), Plus(n2, t2)), Plus(z1, z2))
    BY SMTT(30), <1>1, Linear
  <2>2. Plus(Plus(n1, t1), Plus(n2, t2)) = Plus(N, S)
    BY Linear
  <2>. QED  BY <2>1, <2>2
<1>3. Plus(Plus(z1, p1), Plus(z2, p2)) = Plus(Z, Plus(p1, p2))
  BY Linear
<1> HIDE DEF Z, N, S
<1>4. Minus(Plus(N, S), Z) \in Ring
  BY <1>1, RingOps
<1>5. CASE x = 0
  <2>1. Times(0, Y) = 0
    <3>1. Is(Times(0, Y), 0 * Y)
      BY <1>2, <1>4, RingConsts, IsWord, IsTimes
    <3>2. 0 * Y = 0
      BY <1>2, <1>4, RingInt
    <3>. QED  BY <3>1, <3>2, RingConsts, IsSame
  <2>2. Plus(p1, p2) = 0
    BY <1>5, <2>1
  <2>3. Plus(Z, 0) = Z
    BY SMTT(30), <1>1, Linear
  <2>. QED  BY <1>3, <1>5, <2>2, <2>3 DEF Z
<1>6. CASE x = 1
  <2>1. Times(1, Y) = Y
    <3>1. Is(Times(1, Y), 1 * Y)
      BY <1>2, <1>4, RingConsts, IsWord, IsTimes
    <3>2. 1 * Y = Y
      BY <1>2, <1>4, RingInt
    <3>3. Is(Y, Y)
      BY <1>2, <1>4, IsWord
    <3>. QED  BY <3>1, <3>2, <3>3, IsSame
  <2>2. Plus(p1, p2) = Minus(Plus(N, S), Z)
    BY <1>2, <1>6, <2>1
  <2>3. Plus(Z, Minus(Plus(N, S), Z)) = Plus(N, S)
    <3>1. Plus(Minus(Plus(N, S), Z), Z) = Plus(N, S)
      BY <1>1, Linear
    <3>2. Plus(Z, Minus(Plus(N, S), Z)) = Plus(Minus(Plus(N, S), Z), Z)
      BY ZenonT(40), <1>1, <1>4, Linear
    <3>. QED  BY <3>1, <3>2
  <2>. QED  BY <1>3, <1>6, <2>2, <2>3 DEF N, S
<1>. QED  BY <1>5, <1>6

LEMMA CompactionOpens ==
  ASSUME NEW g \in Gate, NEW a, NEW b, NEW v, NEW pm, LengthsFit(g), ArithIn(g, a, b, v),
         g.type = "GenCompaction", NEW d1, NEW d2, MultDeal(d1, d2, Len(g.in1)),
         Len(g.in1) < Modulus, \A i \in 1 .. Len(g.in1) : On(v, g.in1)[i] \in {0, 1},
         NEW v1, NEW v2, Receives(g, d1, d2, a, b, v1, v2)
  PROVE  Yields(g, Finished(1, g, d1, v1, a), Finished(2, g, d2, v2, b),
                Value(g, On(v, g.in1), On(v, g.in2), pm))
<1> DEFINE x1 == On(a, g.in1)
           x2 == On(b, g.in1)
           x  == On(v, g.in1)
           n  == Len(g.in1)
           u1 == [i \in 1 .. n |-> Minus(1, x1[i])]
           u2 == [i \in 1 .. n |-> Minus(0, x2[i])]
           u  == [i \in 1 .. n |-> Minus(1, x[i])]
           Z1(j) == Total(u1, j)
           Z2(j) == Total(u2, j)
           Y1(j) == Minus(Plus(Total(u1, n), Total(x1, j)), Total(u1, j))
           Y2(j) == Minus(Plus(Total(u2, n), Total(x2, j)), Total(u2, j))
           p1(j) == BeaverProduct(1, d1, j, v1[2 * j - 1], v1[2 * j])
           p2(j) == BeaverProduct(2, d2, j, v2[2 * j - 1], v2[2 * j])
           o1 == Finished(1, g, d1, v1, a)
           o2 == Finished(2, g, d2, v2, b)
<1>1. /\ n \in Nat /\ Len(g.outs) = n /\ Sort(g) = "arith" /\ Takes(g) = 2 * n
      /\ Len(x1) = n /\ Len(x2) = n /\ Len(x) = n
      /\ DOMAIN x1 = 1 .. n /\ DOMAIN x2 = 1 .. n /\ DOMAIN x = 1 .. n
  <2>1. /\ DOMAIN x1 = DOMAIN g.in1 /\ DOMAIN x2 = DOMAIN g.in1 /\ DOMAIN x = DOMAIN g.in1
    BY DEF On
  <2>2. g.in1 \in Seq(Nat)
    BY DEF Gate
  <2>3. DOMAIN g.in1 = 1 .. n
    BY <2>2
  <2>. QED  BY <2>1, <2>3, Lens1, Inputs1, TakesIs DEF Sort
<1>2. \A j \in 1 .. n : /\ x1[j] \in Ring /\ x2[j] \in Ring /\ x[j] = Plus(x1[j], x2[j])
                        /\ x[j] \in Ring
  BY SharedWord DEF ArithIn
<1>3. Shared(x1, x2, x, n)
  BY DEF ArithIn
<1>4. Shared(u1, u2, u, n)
  <2>1. ASSUME NEW i \in 1 .. n
        PROVE  u1[i] \in Ring /\ u2[i] \in Ring /\ u[i] = Plus(u1[i], u2[i])
    <3>1. u1[i] = Minus(1, x1[i]) /\ u2[i] = Minus(0, x2[i]) /\ u[i] = Minus(1, x[i])
      OBVIOUS
    <3>2. x1[i] \in Ring /\ x2[i] \in Ring /\ x[i] = Plus(x1[i], x2[i])
      BY <1>2
    <3>3. Minus(Plus(1, 0), Plus(x1[i], x2[i])) = Plus(Minus(1, x1[i]), Minus(0, x2[i]))
      BY <3>2, RingConsts, Linear
    <3>4. Plus(1, 0) = 1
      BY RingConsts, Linear
    <3>5. Minus(1, x1[i]) \in Ring /\ Minus(0, x2[i]) \in Ring
      BY <3>2, RingConsts, RingOps
    <3> HIDE DEF u1, u2, u, x1, x2, x
    <3>. QED  BY <3>1, <3>2, <3>3, <3>4, <3>5
  <2> HIDE DEF u1, u2, u
  <2>. QED  BY <2>1 DEF Shared
<1>5. \A j \in 1 .. n : ZerosSoFar(1, x1)[j] = Z1(j) /\ ZerosSoFar(2, x2)[j] = Z2(j)
  <2>1. ZerosSoFar(1, x1) = [j \in 1 .. n |-> Total(u1, j)]
    BY <1>1 DEF ZerosSoFar, One
  <2>2. ZerosSoFar(2, x2) = [j \in 1 .. n |-> Total(u2, j)]
    BY <1>1 DEF ZerosSoFar, One
  <2> HIDE DEF u1, u2
  <2>. QED  BY <2>1, <2>2
<1>6. \A j \in 1 .. n : /\ OnesAfterZeros(1, x1)[j] = Plus(Total(u1, n), Total(x1, j))
                        /\ OnesAfterZeros(2, x2)[j] = Plus(Total(u2, n), Total(x2, j))
  <2>1. OnesAfterZeros(1, x1) = [j \in 1 .. n |-> Plus(ZerosSoFar(1, x1)[n], Total(x1, j))]
    BY <1>1 DEF OnesAfterZeros
  <2>2. OnesAfterZeros(2, x2) = [j \in 1 .. n |-> Plus(ZerosSoFar(2, x2)[n], Total(x2, j))]
    BY <1>1 DEF OnesAfterZeros
  <2> HIDE DEF u1, u2, x1, x2, n
  <2> TAKE j \in 1 .. n
  <2>3. n \in 1 .. n
    BY <1>1
  <2>4. ZerosSoFar(1, x1)[n] = Total(u1, n) /\ ZerosSoFar(2, x2)[n] = Total(u2, n)
    BY <1>5, <2>3
  <2>. QED  BY <2>1, <2>2, <2>4
<1>7. /\ Len(Factors(1, g, a)) = n /\ Len(Factors(2, g, b)) = n
      /\ \A j \in 1 .. n : Factors(1, g, a)[j] = <<x1[j], Y1(j)>> /\ Factors(2, g, b)[j] = <<x2[j], Y2(j)>>
  <2>1. Factors(1, g, a) = [j \in 1 .. n |-> <<x1[j], Minus(OnesAfterZeros(1, x1)[j], ZerosSoFar(1, x1)[j])>>]
    BY <1>1 DEF Factors
  <2>2. Factors(2, g, b) = [j \in 1 .. n |-> <<x2[j], Minus(OnesAfterZeros(2, x2)[j], ZerosSoFar(2, x2)[j])>>]
    BY <1>1 DEF Factors
  <2> HIDE DEF x1, x2, u1, u2, n
  <2>3. Len(Factors(1, g, a)) = n /\ Len(Factors(2, g, b)) = n
    BY <1>1, <2>1, <2>2
  <2>4. \A j \in 1 .. n : Factors(1, g, a)[j] = <<x1[j], Minus(OnesAfterZeros(1, x1)[j], ZerosSoFar(1, x1)[j])>>
    BY <2>1
  <2>5. \A j \in 1 .. n : Factors(2, g, b)[j] = <<x2[j], Minus(OnesAfterZeros(2, x2)[j], ZerosSoFar(2, x2)[j])>>
    BY <2>2
  <2>. QED  BY <1>5, <1>6, <2>3, <2>4, <2>5
<1>8. /\ \A j \in 1 .. n : o1[j] = Plus(Z1(j), p1(j))
      /\ \A j \in 1 .. n : o2[j] = Plus(Z2(j), p2(j))
  <2>1. o1 = [j \in DOMAIN x1 |-> Plus(ZerosSoFar(1, x1)[j], p1(j))]
    BY FinishedIs
  <2>2. o2 = [j \in DOMAIN x2 |-> Plus(ZerosSoFar(2, x2)[j], p2(j))]
    BY FinishedIs
  <2> HIDE DEF o1, o2, x1, x2, n, u1, u2, p1, p2
  <2>3. \A j \in 1 .. n : o1[j] = Plus(ZerosSoFar(1, x1)[j], p1(j))
    BY <1>1, <2>1
  <2>4. \A j \in 1 .. n : o2[j] = Plus(ZerosSoFar(2, x2)[j], p2(j))
    BY <1>1, <2>2
  <2>. QED  BY <1>5, <2>3, <2>4
<1>9. \A j \in 1 .. n : Value(g, x, On(v, g.in2), pm)[j] = Destination(x, j)
  <2>1. Value(g, x, On(v, g.in2), pm) = Compaction(x)
    BY ValueIs
  <2>2. Compaction(x) = [j \in 1 .. n |-> Destination(x, j)]
    BY <1>1 DEF Compaction
  <2> HIDE DEF x
  <2>. QED  BY <2>1, <2>2
<1>10. Multiplies(g, d1, d2, a, b, v1, v2, n, n)
  BY <1>1, <1>7 DEF Multiplies, MultGate
<1>11. \A j \in 1 .. n : u[j] = Minus(1, x[j])
  OBVIOUS
<1>12. \A j \in 1 .. n : x[j] \in {0, 1}
  OBVIOUS
<1> HIDE DEF x1, x2, x, n, u1, u2, u, o1, o2, p1, p2
<1>13. \A j \in 0 .. n : /\ Total(u1, j) \in Ring /\ Total(u2, j) \in Ring /\ Total(u, j) \in Ring
                         /\ Total(u, j) = Plus(Total(u1, j), Total(u2, j))
                         /\ Total(x1, j) \in Ring /\ Total(x2, j) \in Ring /\ Total(x, j) \in Ring
                         /\ Total(x, j) = Plus(Total(x1, j), Total(x2, j))
  BY <1>1, <1>3, <1>4, SharedTotal
<1>14. ASSUME NEW j \in 1 .. n
       PROVE  o1[j] \in Ring /\ o2[j] \in Ring /\ Destination(x, j) = Plus(o1[j], o2[j])
  <2> DEFINE z1 == Total(u1, j)
             z2 == Total(u2, j)
             n1 == Total(u1, n)
             n2 == Total(u2, n)
             t1 == Total(x1, j)
             t2 == Total(x2, j)
             y1 == Minus(Plus(n1, t1), z1)
             y2 == Minus(Plus(n2, t2), z2)
             w1 == x1[j]
             w2 == x2[j]
             w  == x[j]
             q1 == p1(j)
             q2 == p2(j)
  <2>1. j \in 0 .. n /\ n \in 0 .. n
    BY <1>1
  <2>2. /\ z1 \in Ring /\ z2 \in Ring /\ n1 \in Ring /\ n2 \in Ring /\ t1 \in Ring /\ t2 \in Ring
        /\ Total(u, j) = Plus(z1, z2) /\ Total(u, n) = Plus(n1, n2) /\ Total(x, j) = Plus(t1, t2)
    BY <1>13, <2>1
  <2>3. w1 \in Ring /\ w2 \in Ring /\ w \in {0, 1} /\ w = Plus(w1, w2)
    BY <1>2, <1>12
  <2>4. Factors(1, g, a)[j] = <<w1, y1>> /\ Factors(2, g, b)[j] = <<w2, y2>>
    BY <1>7
  <2>5. o1[j] = Plus(z1, q1) /\ o2[j] = Plus(z2, q2)
    BY <1>8
  <2>6. q1 = BeaverProduct(1, d1, j, v1[2 * j - 1], v1[2 * j]) /\ q2 = BeaverProduct(2, d2, j, v2[2 * j - 1], v2[2 * j])
    BY DEF p1, p2
  <2>7. Destination(x, j) = IF w = 0 THEN Plus(z1, z2) ELSE Plus(Plus(n1, n2), Plus(t1, t2))
    <3>1. n < Modulus
      BY DEF n
    <3>2. Destination(x, j) = IF x[j] = 0 THEN Total(u, j) ELSE Plus(Total(u, n), Total(x, j))
      BY <1>1, <1>11, <1>12, <3>1, DestinationTotals
    <3>. QED  BY <2>2, <3>2
  <2> HIDE DEF z1, z2, n1, n2, t1, t2, w1, w2, w, q1, q2, y1, y2
  <2>8. Plus(n1, t1) \in Ring /\ Plus(n2, t2) \in Ring
    BY <2>2, RingOps
  <2>9. y1 \in Ring /\ y2 \in Ring
    BY <2>2, <2>8, RingOps DEF y1, y2
  <2>10. q1 \in Ring /\ q2 \in Ring /\ Plus(q1, q2) = Times(Plus(w1, w2), Plus(y1, y2))
    <3> DEFINE s == 2 * j - 1
               t == 2 * j
    <3>1. s = 2 * j - 1 /\ t = 2 * j
      OBVIOUS
    <3>2. q1 = BeaverProduct(1, d1, j, v1[s], v1[t]) /\ q2 = BeaverProduct(2, d2, j, v2[s], v2[t])
      BY <2>6
    <3> HIDE DEF s, t
    <3>. QED  BY <1>10, <2>3, <2>4, <2>9, <3>1, <3>2, MultProduct
  <2>11. Plus(Plus(z1, q1), Plus(z2, q2)) = IF w = 0 THEN Plus(z1, z2) ELSE Plus(Plus(n1, n2), Plus(t1, t2))
    <3>1. Plus(q1, q2) = Times(Plus(w1, w2), Plus(Minus(Plus(n1, t1), z1), Minus(Plus(n2, t2), z2)))
      BY <2>10 DEF y1, y2
    <3>2. Steps(z1, z2, n1, n2, t1, t2, w1, w2, w, q1, q2)
      BY <2>2, <2>3, <2>10, <3>1 DEF Steps
    <3>. QED  BY <3>2, CompactionSum
  <2>12. Plus(z1, q1) \in Ring /\ Plus(z2, q2) \in Ring
    BY <2>2, <2>10, RingOps
  <2>. QED  BY <2>5, <2>7, <2>11, <2>12
<1>15. Shared(o1, o2, Value(g, x, On(v, g.in2), pm), n)
  BY <1>9, <1>14 DEF Shared
<1>16. Yields(g, o1, o2, Value(g, x, On(v, g.in2), pm))
  BY <1>1, <1>15, ArithOut
<1>. QED  BY <1>16 DEF o1, o2, x

-----------------------------------------------------------------------------
(***************************************************************************)
(* The same of a gate of a circuit, by the shares and values of its wires. *)
(***************************************************************************)
(* One wire: the shares a and b of all wires open to the values v on w.    *)
Opens(c, a, b, v, w) ==
  /\ a[w] \in Ring /\ b[w] \in Ring /\ v[w] \in Ring
  /\ v[w] = Opening(Sort(Producer(c, w)), a[w], b[w])
  /\ Sort(Producer(c, w)) = "zero" => XorW(a[w], b[w]) < 2^Half(Producer(c, w).param)

(* Gate g can be evaluated: on the values v it means something.            *)
Sensible(g, v) ==
  /\ g.type = "GenCompaction" => \A j \in 1 .. Len(g.in1) : On(v, g.in1)[j] \in {0, 1}
  /\ g.type \in {"Reorder", "ReorderInverse"} => PermOf(On(v, g.in2), Len(g.in2))

LEMMA OnAt ==
  ASSUME NEW ins \in Seq(Nat), NEW w, NEW j \in 1 .. Len(ins)
  PROVE  On(w, ins)[j] = w[ins[j]] /\ ins[j] \in Elems(ins)
BY OnLen DEF Elems

LEMMA SortedArith ==
  ASSUME NEW c, NEW ins \in Seq(Nat), SortsOf(c, ins) \subseteq {"arith"}, NEW a, NEW b, NEW v,
         \A w \in Elems(ins) : Opens(c, a, b, v, w)
  PROVE  Shared(On(a, ins), On(b, ins), On(v, ins), Len(ins))
<1> SUFFICES ASSUME NEW j \in 1 .. Len(ins)
             PROVE  /\ On(a, ins)[j] \in Ring /\ On(b, ins)[j] \in Ring
                    /\ On(v, ins)[j] = Plus(On(a, ins)[j], On(b, ins)[j])
  BY DEF Shared
<1> DEFINE w == ins[j]
<1>1. On(a, ins)[j] = a[w] /\ On(b, ins)[j] = b[w] /\ On(v, ins)[j] = v[w] /\ w \in Elems(ins)
  BY OnAt
<1>2. Sort(Producer(c, w)) = "arith"
  BY <1>1 DEF SortsOf
<1>3. Opens(c, a, b, v, w)
  BY <1>1
<1> HIDE DEF w
<1>4. a[w] \in Ring /\ b[w] \in Ring /\ v[w] = Plus(a[w], b[w])
  BY <1>2, <1>3 DEF Opens, Opening
<1>. QED  BY <1>1, <1>4

LEMMA SortedBin ==
  ASSUME NEW c, NEW g, SortsOf(c, g.in1) \cup SortsOf(c, g.in2) \subseteq {"bin"},
         NEW a, NEW b, NEW v, \A w \in Reads(g) : Opens(c, a, b, v, w)
  PROVE  BinIn(g, a, b, v)
<1> SUFFICES ASSUME NEW w \in Elems(g.in1) \cup Elems(g.in2)
             PROVE  a[w] \in Ring /\ b[w] \in Ring /\ v[w] = XorW(a[w], b[w])
  BY DEF BinIn
<1>1. Sort(Producer(c, w)) = "bin"
  BY DEF SortsOf
<1>2. Opens(c, a, b, v, w)
  BY DEF Reads
<1>. QED  BY <1>1, <1>2 DEF Opens, Opening

LEMMA SortsOfGate ==
  ASSUME NEW c, WellSorted(c), NEW g \in GatesOf(c)
  PROVE  /\ g.type \in {"And", "Xor"} => SortsOf(c, g.in1) \cup SortsOf(c, g.in2) \subseteq {"bin"}
         /\ g.type = "ConvertB2A" => SortsOf(c, g.in1) \subseteq {"bin"}
         /\ g.type = "EqualsZero" =>
              SortsOf(c, g.in1) \subseteq (IF g.param = 0 THEN {"arith"} ELSE {"zero"})
         /\ g.type \in {"Reorder", "ReorderInverse"} =>
              SortsOf(c, g.in1) \subseteq {"arith"} /\ SortsOf(c, g.in2) \subseteq {"clear"}
         /\ g.type \notin {"And", "Xor", "ConvertB2A", "EqualsZero", "Reorder", "ReorderInverse"} =>
              SortsOf(c, g.in1) \cup SortsOf(c, g.in2) \subseteq {"arith"}
<1> DEFINE R(h) == CASE h.type \in {"And", "Xor"} -> SortsOf(c, h.in1) \cup SortsOf(c, h.in2) \subseteq {"bin"}
                     [] h.type = "ConvertB2A"     -> SortsOf(c, h.in1) \subseteq {"bin"}
                     [] h.type = "EqualsZero"     ->
                          SortsOf(c, h.in1) \subseteq (IF h.param = 0 THEN {"arith"} ELSE {"zero"})
                     [] h.type \in {"Reorder", "ReorderInverse"} ->
                          /\ SortsOf(c, h.in1) \subseteq {"arith"}
                          /\ SortsOf(c, h.in2) \subseteq {"clear"}
                     [] OTHER -> SortsOf(c, h.in1) \cup SortsOf(c, h.in2) \subseteq {"arith"}
<1>1. \A h \in GatesOf(c) : R(h)
  BY DEF WellSorted
<1>2. R(g)
  BY <1>1
<1> DEFINE s1 == SortsOf(c, g.in1)
           s2 == SortsOf(c, g.in2)
<1> HIDE DEF s1, s2
<1>3. g.type \in {"And", "Xor"} => s1 \cup s2 \subseteq {"bin"}
  BY <1>2 DEF s1, s2
<1>4. g.type = "ConvertB2A" => s1 \subseteq {"bin"}
  BY <1>2 DEF s1, s2
<1>5. g.type = "EqualsZero" => s1 \subseteq (IF g.param = 0 THEN {"arith"} ELSE {"zero"})
  BY <1>2 DEF s1, s2
<1>6. g.type \in {"Reorder", "ReorderInverse"} => s1 \subseteq {"arith"} /\ s2 \subseteq {"clear"}
  BY <1>2 DEF s1, s2
<1>7. g.type \notin {"And", "Xor", "ConvertB2A", "EqualsZero", "Reorder", "ReorderInverse"} =>
        s1 \cup s2 \subseteq {"arith"}
  BY <1>2 DEF s1, s2
<1>. QED  BY <1>3, <1>4, <1>5, <1>6, <1>7 DEF s1, s2

(* A gate that is evaluated on shares of its inputs yields shares of its   *)
(* outputs.                                                                *)
LEMMA ArithGate ==
  ASSUME NEW c, WellSorted(c), NEW g \in GatesOf(c), g \in Gate, NEW a, NEW b, NEW v,
         \A w \in Reads(g) : Opens(c, a, b, v, w),
         g.type \notin {"And", "Xor", "ConvertB2A", "EqualsZero", "Reorder", "ReorderInverse"}
  PROVE  ArithIn(g, a, b, v)
<1>1. SortsOf(c, g.in1) \subseteq {"arith"} /\ SortsOf(c, g.in2) \subseteq {"arith"}
  BY SortsOfGate
<1>2. g.in1 \in Seq(Nat) /\ g.in2 \in Seq(Nat)
  BY DEF Gate
<1>3. /\ \A w \in Elems(g.in1) : Opens(c, a, b, v, w)
      /\ \A w \in Elems(g.in2) : Opens(c, a, b, v, w)
  BY DEF Reads
<1>4. Shared(On(a, g.in1), On(b, g.in1), On(v, g.in1), Len(g.in1))
  BY <1>1, <1>2, <1>3, SortedArith
<1>5. Shared(On(a, g.in2), On(b, g.in2), On(v, g.in2), Len(g.in2))
  BY <1>1, <1>2, <1>3, SortedArith
<1>. QED  BY <1>4, <1>5 DEF ArithIn

LEMMA LocalOpens ==
  ASSUME NEW c, WellSorted(c), NEW g \in GatesOf(c), g \in Gate, LengthsFit(g),
         NEW a, NEW b, NEW v, NEW pm, \A w \in Reads(g) : Opens(c, a, b, v, w), Sensible(g, v),
         g.type \in LocalGate, g.type # "ConstAdd"
  PROVE  Yields(g, Local(1, g, a), Local(2, g, b), Value(g, On(v, g.in1), On(v, g.in2), pm))
<1>1. CASE g.type \in {"Add", "Sub", "ConstMul"}
  <2>1. ArithIn(g, a, b, v)
    BY <1>1, ArithGate
  <2>. QED  BY <1>1, <2>1, AddOpens
<1>2. CASE g.type \in {"AddVec", "Flip", "AddConstToVec", "PreparePropagate", "Propagate", "PrepareGather"}
  <2>1. ArithIn(g, a, b, v)
    BY <1>2, ArithGate
  <2>. QED  BY <1>2, <2>1, EachOpens
<1>3. CASE g.type = "Gather"
  <2>1. ArithIn(g, a, b, v)
    BY <1>3, ArithGate
  <2>. QED  BY <1>3, <2>1, GatherOpens
<1>4. CASE g.type = "Compose"
  <2>1. ArithIn(g, a, b, v)
    BY <1>4, ArithGate
  <2>. QED  BY <1>4, <2>1, ComposeOpens
<1>5. CASE g.type = "Xor"
  <2>1. BinIn(g, a, b, v)
    BY <1>5, SortsOfGate, SortedBin
  <2>. QED  BY <1>5, <2>1, XorOpens
<1>6. CASE g.type \in {"Reorder", "ReorderInverse"}
  <2>1. SortsOf(c, g.in1) \subseteq {"arith"} /\ SortsOf(c, g.in2) \subseteq {"clear"}
    BY <1>6, SortsOfGate
  <2>2. g.in1 \in Seq(Nat) /\ g.in2 \in Seq(Nat)
    BY DEF Gate
  <2>3. \A w \in Elems(g.in1) : Opens(c, a, b, v, w)
    BY DEF Reads
  <2>4. Shared(On(a, g.in1), On(b, g.in1), On(v, g.in1), Len(g.in1))
    BY <2>1, <2>2, <2>3, SortedArith
  <2>5. ASSUME NEW j \in 1 .. Len(g.in2)
        PROVE  On(a, g.in2)[j] = On(v, g.in2)[j] /\ On(b, g.in2)[j] = On(v, g.in2)[j]
    <3> DEFINE w == g.in2[j]
    <3>1. /\ On(a, g.in2)[j] = a[w] /\ On(b, g.in2)[j] = b[w] /\ On(v, g.in2)[j] = v[w]
          /\ w \in Elems(g.in2)
      BY <2>2, OnAt
    <3>2. Sort(Producer(c, w)) = "clear"
      BY <2>1, <3>1 DEF SortsOf
    <3>3. Opens(c, a, b, v, w)
      BY <3>1 DEF Reads
    <3> HIDE DEF w
    <3>4. v[w] \in Ring /\ v[w] = IF a[w] = b[w] THEN a[w] ELSE -1
      BY <3>2, <3>3 DEF Opens, Opening
    <3>5. v[w] # -1
      BY <3>4, RingInt
    <3>. QED  BY <3>1, <3>4, <3>5
  <2>6. PermOf(On(v, g.in2), Len(g.in2))
    BY <1>6 DEF Sensible
  <2>. QED  BY <1>6, <2>4, <2>5, <2>6, ReorderOpens
<1>. QED  BY <1>1, <1>2, <1>3, <1>4, <1>5, <1>6 DEF LocalGate

LEMMA InteractiveOpens ==
  ASSUME NEW c, WellSorted(c), WellShaped(c), NEW g \in GatesOf(c), g \in Gate,
         NEW a, NEW b, NEW v, NEW pm, \A w \in Reads(g) : Opens(c, a, b, v, w), Sensible(g, v),
         g.type \in Interactive, NEW d1, NEW d2, DealFor(g, d1, d2, pm),
         NEW v1, NEW v2, Receives(g, d1, d2, a, b, v1, v2)
  PROVE  Yields(g, Finished(1, g, d1, v1, a), Finished(2, g, d2, v2, b),
                Value(g, On(v, g.in1), On(v, g.in2), pm))
<1>0. /\ LengthsFit(g)
      /\ g.type = "EqualsZero" =>
           /\ g.param < Layers
           /\ g.param > 0 => LET before == Producer(c, g.in1[1]) IN
                             before.type = "EqualsZero" /\ before.param = g.param - 1
      /\ g.type = "GenCompaction" => Len(g.in1) < Modulus
  BY DEF WellShaped
<1>1. CASE g.type = "Mul"
  <2>1. ArithIn(g, a, b, v)
    BY <1>1, ArithGate
  <2>2. MultDeal(d1, d2, Len(g.in1))
    BY <1>1 DEF DealFor, MultGate
  <2>. QED  BY <1>0, <1>1, <2>1, <2>2, MulOpens
<1>2. CASE g.type = "ConvertB2A"
  <2>1. BinIn(g, a, b, v)
    <3>1. Lengths(g) = <<1, 0, 1>>
      BY <1>0, <1>2 DEF LengthsFit, InputGate
    <3>2. Elems(g.in2) = {}
      <4>1. Len(g.in2) = 0 /\ g.in2 \in Seq(Nat)
        BY <3>1 DEF Lengths, Gate
      <4>. QED  BY <4>1 DEF Elems
    <3>3. SortsOf(c, g.in2) = {}
      BY <3>2 DEF SortsOf
    <3>4. SortsOf(c, g.in1) \subseteq {"bin"}
      BY <1>2, SortsOfGate
    <3>. QED  BY <3>3, <3>4, SortedBin
  <2>2. MultDeal(d1, d2, Len(g.in1))
    BY <1>2 DEF DealFor, MultGate
  <2>. QED  BY <1>0, <1>2, <2>1, <2>2, ConvertOpens
<1>3. CASE g.type = "GenCompaction"
  <2>1. ArithIn(g, a, b, v)
    BY <1>3, ArithGate
  <2>2. MultDeal(d1, d2, Len(g.in1))
    BY <1>3 DEF DealFor, MultGate
  <2>3. \A i \in 1 .. Len(g.in1) : On(v, g.in1)[i] \in {0, 1}
    BY <1>3 DEF Sensible
  <2>. QED  BY <1>0, <1>3, <2>1, <2>2, <2>3, CompactionOpens
<1>4. CASE g.type = "And"
  <2>1. BinIn(g, a, b, v)
    BY <1>4, SortsOfGate, SortedBin
  <2>2. AndDeal(d1, d2, Len(g.in1))
    BY <1>4 DEF DealFor, AndGate
  <2>. QED  BY <1>0, <1>4, <2>1, <2>2, AndOpens
<1>5. CASE g.type = "EqualsZero"
  <2>1. ZeroIn(g, a, b, v)
    <3> SUFFICES ASSUME NEW i \in Elems(g.in1)
                 PROVE  /\ a[i] \in Ring /\ b[i] \in Ring
                        /\ g.param = 0 => v[i] = Plus(a[i], b[i])
                        /\ g.param # 0 => /\ v[i] = IF XorW(a[i], b[i]) = 0 THEN 0 ELSE 1
                                          /\ XorW(a[i], b[i]) < 2^Half(g.param - 1)
      BY DEF ZeroIn
    <3>1. Opens(c, a, b, v, i)
      BY DEF Reads
    <3>2. SortsOf(c, g.in1) \subseteq (IF g.param = 0 THEN {"arith"} ELSE {"zero"})
      BY <1>5, SortsOfGate
    <3>3. CASE g.param = 0
      <4>1. Sort(Producer(c, i)) = "arith"
        BY <3>2, <3>3 DEF SortsOf
      <4>. QED  BY <3>1, <3>3, <4>1 DEF Opens, Opening
    <3>4. CASE g.param # 0
      <4>1. Sort(Producer(c, i)) = "zero"
        BY <3>2, <3>4 DEF SortsOf
      <4>2. i = g.in1[1]
        <5>1. Lengths(g) = <<1, 0, 1>>
          BY <1>0, <1>5 DEF LengthsFit, InputGate
        <5>2. Len(g.in1) = 1 /\ g.in1 \in Seq(Nat)
          BY <5>1 DEF Lengths, Gate
        <5>. QED  BY <5>2 DEF Elems
      <4>3. g.param > 0
        BY <3>4 DEF Gate
      <4>4. Producer(c, i).param = g.param - 1
        BY <1>0, <1>5, <4>2, <4>3
      <4>5. /\ a[i] \in Ring /\ b[i] \in Ring /\ v[i] = Opening("zero", a[i], b[i])
            /\ XorW(a[i], b[i]) < 2^Half(g.param - 1)
        BY <3>1, <4>1, <4>4 DEF Opens
      <4>6. Opening("zero", a[i], b[i]) = IF XorW(a[i], b[i]) = 0 THEN 0 ELSE 1
        BY DEF Opening
      <4>. QED  BY <3>4, <4>5, <4>6
    <3>. QED  BY <3>3, <3>4
  <2>2. AndDeal(d1, d2, Len(g.in1))
    BY <1>5 DEF DealFor, AndGate
  <2>. QED  BY <1>0, <1>5, <2>1, <2>2, ZeroOpens
<1>6. CASE g.type \in ShuffleGate
  <2>1. ArithIn(g, a, b, v)
    BY <1>6, ArithGate DEF ShuffleGate
  <2>2. ShuffleDeal(g, d1, d2, Len(g.in1), PermOfGate(g, pm))
    BY <1>6 DEF DealFor
  <2>. QED  BY <1>0, <1>6, <2>1, <2>2, ForwardOpens, BackwardOpens
<1>7. CASE g.type = "Reveal"
  <2>1. ArithIn(g, a, b, v)
    BY <1>7, ArithGate
  <2>. QED  BY <1>0, <1>7, <2>1, RevealOpens
<1>. QED  BY <1>1, <1>2, <1>3, <1>4, <1>5, <1>6, <1>7 DEF Interactive, MultGate, AndGate
=============================================================================
