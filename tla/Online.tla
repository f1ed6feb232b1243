------------------------------- MODULE Online -------------------------------
(***************************************************************************)
(* The online phase (OnlineEvaluator, src/src/graphsc/                     *)
(* online_evaluator_load_balanced.cpp).  Parties 1 and 2 hold a share of   *)
(* every wire.  Level by level each opens one vector of words to the       *)
(* other, in segments, sending a segment before it reads the peer's, and   *)
(* then finishes the gates of the level.  The vector has no labels: it is  *)
(* grouped by kind (products, ands, shuffles, reveals) and each party      *)
(* takes it apart by the same walk over the gates.                         *)
(*                                                                         *)
(* The preprocessed material is the one the preprocessing promises: deal   *)
(* is any material with the correlations that module Offline establishes.  *)
(* The helper, party 0, neither sends nor receives in this phase.          *)
(***************************************************************************)
EXTENDS Clear, FiniteSets

CONSTANTS Circuits,       \* level-ordered circuits
          InputsOf(_),    \* the inputs a circuit is evaluated on
          DealsOf(_),     \* material the preprocessing may leave for a circuit
          SharedTapes,    \* possible outputs of the generator of parties 1 and 2
          Segment         \* words per message, 100000 in the code

Online == {1, 2}
Other(p) == 3 - p
WordKind == {"mult", "and", "shuffle", "reveal"}

ASSUME SegmentAssumption == Segment \in Nat \ {0}

(* Callers feed gates wires of the sort they expect.                       *)
SortsOf(c, ins) == {Sort(Producer(c, w)) : w \in Elems(ins)}
WellSorted(c) ==
  /\ \A g \in GatesOf(c) :
       CASE g.type \in {"And", "Xor"}          -> SortsOf(c, g.in1) \cup SortsOf(c, g.in2) \subseteq {"bin"}
         [] g.type = "ConvertB2A"              -> SortsOf(c, g.in1) \subseteq {"bin"}
         [] g.type = "EqualsZero"              ->
              SortsOf(c, g.in1) \subseteq (IF g.param = 0 THEN {"arith"} ELSE {"zero"})
         [] g.type \in {"Reorder", "ReorderInverse"} ->
              /\ SortsOf(c, g.in1) \subseteq {"arith"}
              /\ SortsOf(c, g.in2) \subseteq {"clear"}
         [] OTHER -> SortsOf(c, g.in1) \cup SortsOf(c, g.in2) \subseteq {"arith"}
  /\ \A i \in DOMAIN c.outputs :
       Sort(Producer(c, c.outputs[i])) = (IF c.bin[i] THEN "bin" ELSE "arith")

(* orderGatesByLevel gives the evaluator the order (module LevelOrder).    *)
ASSUME CircuitAssumption ==
  \A c \in Circuits : /\ c.levels \in Seq(Seq(Gate)) /\ c.outputs \in Seq(Nat)
                      /\ InOrder(c.levels) /\ OneProducer(c.levels, c.wires)
                      /\ NoIdleLevel(c.levels)
                      /\ Described(c) /\ WellSorted(c)

(* The vectors a caller gives to the functions that add a gate (add2InGate *)
(* ... addReorderInverse): as long as each other where the gate goes       *)
(* through them together, and the layers of a comparison with zero one     *)
(* after the other.                                                        *)
Lengths(g) == <<Len(g.in1), Len(g.in2), Len(g.outs)>>
LengthsFit(g) ==
  LET n == Len(g.in1) IN
  Lengths(g) =
    CASE g.type \in InputGate                                         -> <<0, 0, 1>>
      [] g.type \in {"ConvertB2A", "EqualsZero", "ConstAdd", "ConstMul"} -> <<1, 0, 1>>
      [] g.type \in {"Mul", "And", "Add", "Sub", "Xor"}               -> <<1, 1, 1>>
      [] g.type \in {"AddVec", "Propagate", "Reorder", "ReorderInverse"} -> <<n, n, n>>
      [] g.type = "Compose"                                           -> <<n, 0, 1>>
      [] OTHER                                                        -> <<n, 0, n>>
WellShaped(c) ==
  /\ c.levels # <<>> /\ c.wires \in Nat
  /\ Elems(c.outputs) \subseteq Wires(c) /\ c.bin \in [DOMAIN c.outputs -> BOOLEAN]
  /\ \A g \in GatesOf(c) :
       /\ Elems(g.outs) \subseteq Wires(c)
       /\ \A i, j \in DOMAIN g.outs : g.outs[i] = g.outs[j] => i = j
       /\ LengthsFit(g)
       /\ g.type = "EqualsZero" =>
            /\ g.param < Layers
            /\ g.param > 0 => LET before == Producer(c, g.in1[1]) IN
                              before.type = "EqualsZero" /\ before.param = g.param - 1
       /\ g.type = "GenCompaction" => Len(g.in1) < Modulus
       /\ g.type = "Shuffle" => Len(g.in1) = SizeOf(c, g.param)
       /\ g.type = "DoubleShuffle" => \A m \in {g.param2, g.param3} :
            m \in Names(c) /\ SizeOf(c, m) = Len(g.in1)

ASSUME ShapeAssumption == \A c \in Circuits : WellShaped(c)

(* Every input wire has a value, and the generator that parties 1 and 2    *)
(* share does not run dry.                                                 *)
InputWires(c) == UNION {Elems(g.outs) : g \in {h \in GatesOf(c) : h.type \in InputGate}}
Draws(c, k) == Cardinality({j \in 1 .. k : c.levels[1][j].type \in InputGate})
ASSUME InputAssumption ==
  \A c \in Circuits :
    /\ \A in \in InputsOf(c) : in \in [InputWires(c) -> Ring]
    /\ \A t \in SharedTapes : t \in Seq(Ring) /\ Draws(c, Len(c.levels[1])) <= Len(t)

(* Halves of a shuffle: party 1 holds pi_0 and pi'_0, party 2 pi_1 and     *)
(* pi'_1; fields pi and rho of both.  Every gate of a shuffle moves its    *)
(* elements the same way.                                                  *)
Joint(d1, d2) == [j \in DOMAIN d1.pi |-> d1.pi[d2.pi[j]]]
At(c, m) == CHOOSE lk \in UNION {{l} \X DOMAIN c.levels[l] : l \in DOMAIN c.levels} :
              LET g == c.levels[lk[1]][lk[2]] IN g.type = "Shuffle" /\ g.param = m
JointPerms(c, d) ==
  [m \in Names(c) |-> Joint(d[1][At(c, m)[1]][At(c, m)[2]], d[2][At(c, m)[1]][At(c, m)[2]])]

(* What the preprocessing leaves for each gate of each level at parties 1  *)
(* and 2 (TriplesCorrect, ShufflesCorrelated and DoubleComposes of module  *)
(* Offline).                                                               *)
Correlated(c, d) ==
  \A l \in DOMAIN c.levels : \A k \in DOMAIN c.levels[l] :
    LET g  == c.levels[l][k]
        n  == Len(g.in1)
        d1 == d[1][l][k]
        d2 == d[2][l][k]
        Fits(v) == v \in [1 .. n -> Ring]
    IN  /\ g.type \in MultGate =>
             /\ \A e \in {d1, d2} : Fits(e.a) /\ Fits(e.b) /\ Fits(e.c)
             /\ \A j \in 1 .. n :
                  Times(Plus(d1.a[j], d2.a[j]), Plus(d1.b[j], d2.b[j])) = Plus(d1.c[j], d2.c[j])
        /\ g.type \in AndGate =>
             /\ \A e \in {d1, d2} : Fits(e.a) /\ Fits(e.b) /\ Fits(e.c)
             /\ AndW(XorW(d1.a[1], d2.a[1]), XorW(d1.b[1], d2.b[1])) = XorW(d1.c[1], d2.c[1])
        /\ g.type \in ShuffleGate =>
             /\ \A e \in {d1, d2} : /\ Fits(e.mask) /\ Fits(e.b)
                                    /\ PermOf(e.pi, n) /\ PermOf(e.rho, n)
             /\ Joint(d1, d2) = PermOfGate(g, JointPerms(c, d))
             /\ \A j \in 1 .. n :
                  LET to == d1.pi[d2.pi[j]] IN
                  /\ d2.rho[d1.rho[j]] = to
                  /\ IF g.reverse
                     THEN Plus(d1.b[j], d2.b[j]) = Plus(d1.mask[to], d2.mask[to])
                     ELSE Plus(d1.b[to], d2.b[to]) = Plus(d1.mask[j], d2.mask[j])

ASSUME DealAssumption == \A c \in Circuits : \A d \in DealsOf(c) : Correlated(c, d)

(* What is compacted are flags, and what is reordered by are positions, as *)
(* in sort and applyPerm, whatever the shuffles do.                        *)
ASSUME MeaningAssumption ==
  \A c \in Circuits : \A in \in InputsOf(c) : \A pm \in PermsOf(c) :
    Meaningful(c, Meaning(c, in, pm)[Len(c.levels)])

VARIABLES circ, inputs, deal, tape,
          pc,        \* what each online party does next
          level,     \* the level it is at
          wires,     \* its share of every wire: wires_
          mine,      \* the words it opens in this level, by kind
          recv,      \* the words received in this level so far: data_recv
          chan,      \* words in flight to each party
          outvals    \* the reconstructed outputs

fixed == <<circ, inputs, deal, tape>>
vars  == <<circ, inputs, deal, tape, pc, level, wires, mine, recv, chan, outvals>>
-----------------------------------------------------------------------------
Neg(x)        == Minus(0, x)
Complement(x) == Modulus - 1 - x
LowBits(x, k) == x % 2^k
Shr(x, k)     == x \div 2^k
One(p)        == IF p = 1 THEN 1 ELSE 0     \* party p's share of the constant 1

(* setInputs: one draw from the shared stream per input gate, in the order *)
(* of the gates; the owner subtracts it from (xors it into) its input.     *)
InputShare(p, k) ==
  LET g   == circ.levels[1][k]
      val == tape[Draws(circ, k)]
  IN  CASE p # g.owner                     -> val
        [] p = g.owner /\ g.type = "Inp"   -> Minus(inputs[g.outs[1]], val)
        [] p = g.owner /\ g.type # "Inp"   -> XorW(inputs[g.outs[1]], val)
InputOf(w, k) == circ.levels[1][k].type \in InputGate /\ circ.levels[1][k].outs = <<w>>
-----------------------------------------------------------------------------
(* evaluateGatesAtDepthPartySend: the words a gate opens.                  *)

(* The position in the sorted order is s0 + flag * (s1 - s0), where s0     *)
(* counts the zeros so far and s1 all zeros and the ones so far.           *)
(* Mutant: both parties add the constant 1.                                *)
ZerosSoFarTwice(p, x) ==
  [j \in DOMAIN x |-> Total([i \in DOMAIN x |-> Minus(1, x[i])], j)]
ZerosSoFar(p, x) ==
  [j \in DOMAIN x |-> Total([i \in DOMAIN x |-> Minus(One(p), x[i])], j)]
OnesAfterZeros(p, x) ==
  LET s0 == ZerosSoFar(p, x)
  IN  [j \in DOMAIN x |-> Plus(s0[Len(x)], Total(x, j))]

(* The halves whose OR a comparison with zero computes, complemented at    *)
(* party 1 (a | b = ~(~a & ~b)).  In layer 0 party 2 negates its share:    *)
(* x1 + x2 = 0 iff x1 and -x2 are the same word.                           *)
(* Mutant: party 2 never negates.                                          *)
HalvesPlain(p, g, x) ==
  LET w == Half(g.param)
      c(v) == IF p = 1 THEN Complement(v) ELSE v
  IN  <<c(LowBits(Shr(x, w), w)), c(LowBits(x, w))>>
Halves(p, g, x) ==
  LET share == IF g.param = 0 /\ p = 2 THEN Neg(x) ELSE x
      w     == Half(g.param)
      c(v)  == IF p = 1 THEN Complement(v) ELSE v
  IN  <<c(LowBits(Shr(share, w), w)), c(LowBits(share, w))>>

(* The pairs of shares a gate multiplies, w the shares of all wires.       *)
Factors(p, g, w) ==
  LET x == On(w, g.in1)
      y == On(w, g.in2)
  IN  CASE g.type \in {"Mul", "And"} -> << <<x[1], y[1]>> >>
        [] g.type = "ConvertB2A" ->
             << IF p = 1 THEN <<x[1] % 2, 0>> ELSE <<0, x[1] % 2>> >>
        [] g.type = "EqualsZero" -> << Halves(p, g, x[1]) >>
        [] g.type = "GenCompaction" ->
             [j \in DOMAIN x |-> <<x[j], Minus(OnesAfterZeros(p, x)[j],
                                              ZerosSoFar(p, x)[j])>>]

Inner(p, d) == IF p = 1 THEN d.rho ELSE d.pi
Outer(p, d) == IF p = 1 THEN d.pi ELSE d.rho

Masked(p, g, d, w) ==
  LET x == On(w, g.in1)
      n == Len(x)
  IN  IF g.reverse
      THEN [j \in 1 .. n |-> Plus(x[Outer(p, d)[j]], d.mask[Outer(p, d)[j]])]
      ELSE LET from == Inverted(Inner(p, d), n)
           IN  [k \in 1 .. n |-> Plus(x[from[k]], d.mask[from[k]])]

(* The words of gate g in the group `kind' of the level's vector.          *)
Opened(p, g, d, kind, w) ==
  CASE g.type \in MultGate /\ kind = "mult" ->
         LET f == Factors(p, g, w) IN
         [i \in 1 .. (2 * Len(f)) |->
            LET j == (i + 1) \div 2 IN
            IF i % 2 = 1 THEN Plus(d.a[j], f[j][1]) ELSE Plus(d.b[j], f[j][2])]
    [] g.type \in AndGate /\ kind = "and" ->
         LET f == Factors(p, g, w)[1] IN <<XorW(d.a[1], f[1]), XorW(d.b[1], f[2])>>
    [] g.type \in ShuffleGate /\ kind = "shuffle" -> Masked(p, g, d, w)
    [] g.type = "Reveal" /\ kind = "reveal"       -> On(w, g.in1)
    [] OTHER -> <<>>

Group(p, l, kind, w) ==
  LET upto[k \in 0 .. Len(circ.levels[l])] ==
        IF k = 0 THEN <<>>
        ELSE upto[k - 1] \o Opened(p, circ.levels[l][k], deal[p][l][k], kind, w)
  IN  upto[Len(circ.levels[l])]
WordsAt(p, l, w) == [kind \in WordKind |-> Group(p, l, kind, w)]

AllOpened(m) == m.mult \o m.and \o m.shuffle \o m.reveal
-----------------------------------------------------------------------------
(* evaluateGatesAtDepth combines its own words with the received ones ...  *)
Combined(p) ==
  LET m  == mine[p]
      at == [mult |-> 0, and |-> Len(m.mult), shuffle |-> Len(m.mult) + Len(m.and),
             reveal |-> Len(m.mult) + Len(m.and) + Len(m.shuffle)]
      Theirs(kind, j) == recv[p][at[kind] + j]
  IN  [mult    |-> [j \in DOMAIN m.mult |-> Plus(m.mult[j], Theirs("mult", j))],
       and     |-> [j \in DOMAIN m.and |-> XorW(m.and[j], Theirs("and", j))],
       shuffle |-> [j \in DOMAIN m.shuffle |-> Theirs("shuffle", j)],
       reveal  |-> [j \in DOMAIN m.reveal |-> Plus(m.reveal[j], Theirs("reveal", j))]]

(* ... and evaluateGatesAtDepthPartyRecv walks the level again.            *)
BeaverProduct(p, d, j, xa, yb) ==
  Plus(Minus(Minus(Times(Times(xa, yb), p - 1), Times(xa, d.b[j])), Times(yb, d.a[j])), d.c[j])
BeaverAnd(p, d, xa, yb) ==
  LET own == IF p = 2 THEN AndW(xa, yb) ELSE 0
  IN  XorW(XorW(XorW(own, AndW(xa, d.b[1])), AndW(yb, d.a[1])), d.c[1])

(* Mutant: the complement of the last layer is not dropped.                *)
ZeroLayerFlips(p, g, r) ==
  LET f == IF p = 1 THEN Complement(r) ELSE r
  IN  IF g.param = Layers - 1 THEN LowBits(f, 1) ELSE f
ZeroLayer(p, g, r) ==
  LET f == IF p = 1 /\ g.param < Layers - 1 THEN Complement(r) ELSE r
  IN  IF g.param = Layers - 1 THEN LowBits(f, 1) ELSE f

Unshuffled(p, g, d, v) ==
  LET n == Len(v) IN
  IF g.reverse
  THEN [j \in 1 .. n |-> Minus(v[Inner(p, d)[j]], d.b[j])]
  ELSE LET from == Inverted(Outer(p, d), n)
       IN  [k \in 1 .. n |-> Minus(v[from[k]], d.b[k])]

(* Shares of the outputs of an interactive gate, v its combined words.     *)
Finished(p, g, d, v, w) ==
  LET x == On(w, g.in1) IN
  CASE g.type = "Mul"        -> <<BeaverProduct(p, d, 1, v[1], v[2])>>
    [] g.type = "ConvertB2A" ->
         <<Minus(x[1] % 2, Times(2, BeaverProduct(p, d, 1, v[1], v[2])))>>
    [] g.type = "GenCompaction" ->
         [j \in DOMAIN x |-> Plus(ZerosSoFar(p, x)[j],
                                  BeaverProduct(p, d, j, v[2*j - 1], v[2*j]))]
    [] g.type = "And"        -> <<BeaverAnd(p, d, v[1], v[2])>>
    [] g.type = "EqualsZero" -> <<ZeroLayer(p, g, BeaverAnd(p, d, v[1], v[2]))>>
    [] g.type \in ShuffleGate -> Unshuffled(p, g, d, v)
    [] g.type = "Reveal"     -> v

(* Shares of the outputs of a local gate.  kGather takes what it has given *)
(* to the elements before from each of the first n.                        *)
Gathering(x, n) ==
  LET gathered[j \in 1 .. Len(x)] ==
        IF j > n THEN 0
        ELSE Minus(x[j], Total([i \in 1 .. (j - 1) |-> gathered[i]], j - 1))
  IN  gathered
Local(p, g, w) ==
  LET x == On(w, g.in1)
      y == On(w, g.in2)
      n == Len(x)
  IN
  CASE g.type = "Add" -> <<Plus(x[1], y[1])>>
    [] g.type = "Sub" -> <<Minus(x[1], y[1])>>
    [] g.type = "Xor" -> <<XorW(x[1], y[1])>>
    [] g.type = "ConstAdd" -> <<Plus(x[1], g.cval)>>
    [] g.type = "ConstMul" -> <<Times(x[1], g.cval)>>
    [] g.type = "AddVec" -> [j \in 1 .. n |-> Plus(x[j], y[j])]
    [] g.type = "Flip"   -> [j \in 1 .. n |-> Minus(One(p), x[j])]
    [] g.type = "AddConstToVec" ->
         [j \in 1 .. n |-> IF j <= g.param2 /\ p = 1 THEN Plus(x[j], g.cval) ELSE x[j]]
    [] g.type = "PreparePropagate" ->
         [j \in 1 .. n |-> IF 1 < j /\ j <= g.param THEN Minus(x[j], x[j - 1]) ELSE x[j]]
    [] g.type = "Propagate"     -> [j \in 1 .. n |-> Minus(Total(x, j), y[j])]
    [] g.type = "PrepareGather" -> [j \in 1 .. n |-> Total(x, j)]
    [] g.type = "Gather"        -> Gathering(x, g.param)
    [] g.type = "Compose"       ->
         <<Total([j \in 1 .. n |-> Times(x[j], 2^(j - 1))], n)>>
    [] g.type = "Reorder"       ->
         [k \in 1 .. n |->
            IF \A j \in 1 .. n : y[j] # k THEN w[g.outs[k]]
            ELSE x[CHOOSE j \in 1 .. n : y[j] = k /\ \A i \in (j + 1) .. n : y[i] # k]]
    [] g.type = "ReorderInverse" ->
         [j \in 1 .. n |-> IF y[j] \in 1 .. n THEN x[y[j]] ELSE 0]

(* Words a gate takes from the combined vector: the steps of idx_mult,     *)
(* idx_and, idx_shuffle and idx_reveal.                                    *)
Kind(g) == CASE g.type \in MultGate    -> "mult"
             [] g.type \in AndGate     -> "and"
             [] g.type \in ShuffleGate -> "shuffle"
             [] g.type = "Reveal"      -> "reveal"
Takes(g) == CASE g.type \in {"Mul", "ConvertB2A"} -> 2
              [] g.type = "GenCompaction"         -> 2 * Len(g.in1)
              [] g.type \in AndGate               -> 2
              [] OTHER                            -> Len(g.in1)

AfterGate(p, got, k, s) ==
  LET g    == circ.levels[level[p]][k]
      at   == s.idx[Kind(g)]
      v    == SubSeq(got[Kind(g)], at + 1, at + Takes(g))
  IN  CASE g.type \in InputGate -> s
        [] g.type \in LocalGate ->
             [s EXCEPT !.w = Written(@, g.outs, Local(p, g, s.w))]
        [] g.type \in Interactive ->
             [w   |-> Written(s.w, g.outs, Finished(p, g, deal[p][level[p]][k], v, s.w)),
              idx |-> [s.idx EXCEPT ![Kind(g)] = @ + Takes(g)]]
NewWires(p, got) ==
  LET walk[k \in 0 .. Len(circ.levels[level[p]])] ==
        IF k = 0
        THEN [w |-> wires[p], idx |-> [kind \in WordKind |-> 0]]
        ELSE Only({AfterGate(p, got, k, s) : s \in {walk[k - 1]}})
  IN  walk[Len(circ.levels[level[p]])].w
-----------------------------------------------------------------------------
SetInputs(p) ==
  /\ pc[p] = "inputs"
  /\ wires' = [wires EXCEPT ![p] = [w \in Wires(circ) |->
                 IF \E k \in DOMAIN circ.levels[1] : InputOf(w, k)
                 THEN InputShare(p, CHOOSE k \in DOMAIN circ.levels[1] : InputOf(w, k))
                 ELSE 0]]
  /\ pc' = [pc EXCEPT ![p] = "begin"]
  /\ UNCHANGED <<fixed, level, mine, recv, chan, outvals>>

BeginLevel(p) ==
  /\ pc[p] = "begin"
  /\ level[p] <= Len(circ.levels)
  /\ mine' = [mine EXCEPT ![p] = WordsAt(p, level[p], wires[p])]
  /\ recv' = [recv EXCEPT ![p] = <<>>]
  /\ pc' = [pc EXCEPT ![p] = "send"]
  /\ UNCHANGED <<fixed, level, wires, chan, outvals>>

(* num_comm full segments and then a last one, possibly empty.             *)
Total_comm(p) == Len(AllOpened(mine[p]))
SegmentSize(p) ==
  IF Len(recv[p]) + Segment <= Total_comm(p) THEN Segment ELSE Total_comm(p) - Len(recv[p])
LastSegment(p) == Len(recv[p]) + Segment > Total_comm(p)

(* Mutant: the last, shorter segment is not sent.                          *)
SendSegmentFull(p) ==
  /\ pc[p] = "send"
  /\ chan' = [chan EXCEPT ![Other(p)] = @ \o
       IF SegmentSize(p) < Segment THEN <<>>
       ELSE SubSeq(AllOpened(mine[p]), Len(recv[p]) + 1, Len(recv[p]) + Segment)]
  /\ pc' = [pc EXCEPT ![p] = "recv"]
  /\ UNCHANGED <<fixed, level, wires, mine, recv, outvals>>
(* Mutant: the whole vector is sent at once and then again by segments.    *)
SendSegmentAll(p) ==
  /\ pc[p] = "send"
  /\ chan' = [chan EXCEPT ![Other(p)] =
       @ \o SubSeq(AllOpened(mine[p]), Len(recv[p]) + 1, Total_comm(p))]
  /\ pc' = [pc EXCEPT ![p] = "recv"]
  /\ UNCHANGED <<fixed, level, wires, mine, recv, outvals>>
SendSegment(p) ==
  /\ pc[p] = "send"
  /\ chan' = [chan EXCEPT ![Other(p)] =
       @ \o SubSeq(AllOpened(mine[p]), Len(recv[p]) + 1, Len(recv[p]) + SegmentSize(p))]
  /\ pc' = [pc EXCEPT ![p] = "recv"]
  /\ UNCHANGED <<fixed, level, wires, mine, recv, outvals>>

RecvSegment(p) ==
  /\ pc[p] = "recv"
  /\ Len(chan[p]) >= SegmentSize(p)
  /\ recv' = [recv EXCEPT ![p] = @ \o SubSeq(chan[p], 1, SegmentSize(p))]
  /\ chan' = [chan EXCEPT ![p] = SubSeq(@, SegmentSize(p) + 1, Len(@))]
  /\ pc' = [pc EXCEPT ![p] = IF LastSegment(p) THEN "finish" ELSE "send"]
  /\ UNCHANGED <<fixed, level, wires, mine, outvals>>

FinishLevel(p) ==
  /\ pc[p] = "finish"
  /\ \E got \in {Combined(p)} : wires' = [wires EXCEPT ![p] = NewWires(p, got)]
  /\ level' = [level EXCEPT ![p] = @ + 1]
  /\ pc' = [pc EXCEPT ![p] = "begin"]
  /\ UNCHANGED <<fixed, mine, recv, chan, outvals>>

(* getOutputs                                                              *)
AfterLevels(p) == pc[p] = "begin" /\ level[p] > Len(circ.levels)
NoOutputs(p) ==
  /\ AfterLevels(p)
  /\ circ.outputs = <<>>
  /\ pc' = [pc EXCEPT ![p] = "done"]
  /\ UNCHANGED <<fixed, level, wires, mine, recv, chan, outvals>>
SendOutputs(p) ==
  /\ AfterLevels(p)
  /\ circ.outputs # <<>>
  /\ chan' = [chan EXCEPT ![Other(p)] = @ \o On(wires[p], circ.outputs)]
  /\ pc' = [pc EXCEPT ![p] = "outputs"]
  /\ UNCHANGED <<fixed, level, wires, mine, recv, outvals>>
RecvOutputs(p) ==
  /\ pc[p] = "outputs"
  /\ Len(chan[p]) >= Len(circ.outputs)
  /\ outvals' = [outvals EXCEPT ![p] = [i \in DOMAIN circ.outputs |->
       IF circ.bin[i] THEN XorW(wires[p][circ.outputs[i]], chan[p][i])
                      ELSE Plus(wires[p][circ.outputs[i]], chan[p][i])]]
  /\ chan' = [chan EXCEPT ![p] = SubSeq(@, Len(circ.outputs) + 1, Len(@))]
  /\ pc' = [pc EXCEPT ![p] = "done"]
  /\ UNCHANGED <<fixed, level, wires, mine, recv>>
-----------------------------------------------------------------------------
NoWords == [kind \in WordKind |-> <<>>]

Init ==
  /\ circ \in Circuits
  /\ inputs \in InputsOf(circ)
  /\ deal \in DealsOf(circ)
  /\ tape \in SharedTapes
  /\ pc = [p \in Online |-> "inputs"]
  /\ level = [p \in Online |-> 1]
  /\ wires = [p \in Online |-> [w \in Wires(circ) |-> 0]]
  /\ mine = [p \in Online |-> NoWords]
  /\ recv = [p \in Online |-> <<>>]
  /\ chan = [p \in Online |-> <<>>]
  /\ outvals = [p \in Online |-> <<>>]

Step(p) == \/ SetInputs(p)   \/ BeginLevel(p)  \/ SendSegment(p)
           \/ RecvSegment(p) \/ FinishLevel(p) \/ NoOutputs(p)
           \/ SendOutputs(p) \/ RecvOutputs(p)
Next == \E p \in Online : Step(p)

Spec == Init /\ [][Next]_vars
-----------------------------------------------------------------------------
Share  == [Wires(circ) -> Ring]
Phase  == {"inputs", "begin", "send", "recv", "finish", "outputs", "done"}
Groups == [WordKind -> Seq(Ring)]

(* Shares, opened words and outputs are Ring words, whatever is combined.  *)
TypeOK ==
  /\ pc \in [Online -> Phase]
  /\ level \in [Online -> 1 .. EndStage(circ)]
  /\ wires \in [Online -> Share]
  /\ mine \in [Online -> Groups]
  /\ recv \in [Online -> Seq(Ring)] /\ chan \in [Online -> Seq(Ring)]
  /\ outvals \in [Online -> Seq(Ring)]

(* What a wire of a sort holds, given both shares.                         *)
Opening(sort, x, y) ==
  CASE sort = "arith" -> Plus(x, y)
    [] sort = "bin"   -> XorW(x, y)
    [] sort = "zero"  -> IF XorW(x, y) = 0 THEN 0 ELSE 1
    [] sort = "clear" -> IF x = y THEN x ELSE -1

(* A level has been evaluated when both parties have finished it.          *)
StageOf(p) == IF pc[p] = "inputs" THEN 0 ELSE level[p]
BothStage  == IF StageOf(1) < StageOf(2) THEN StageOf(1) ELSE StageOf(2)
Openings ==
  [w \in Wires(circ) |-> IF circ.born[w] <= BothStage
                         THEN Opening(circ.sort[w], wires[1][w], wires[2][w]) ELSE 0]

InTheClear == INSTANCE Plain WITH
  perm    <- IF BothStage = 0 THEN <<>> ELSE JointPerms(circ, deal),
  stage   <- BothStage,
  clear   <- Openings,
  outcome <- [p \in Online |-> [known |-> pc[p] = "done", vals |-> outvals[p]]]

(* The two parties together compute what a trusted party evaluating the    *)
(* circuit level by level would: every wire holds a sharing of its value   *)
(* when both have finished its level, and both are given the outputs.      *)
ComputesInTheClear == InTheClear!PlainSpec

(* A party that uses revealed values as positions (kReorder writes         *)
(* outs[pos - 1], kReorderInverse reads in1[pos - 1], unchecked) finds     *)
(* every position 1 .. n exactly once; everything else it holds is a word. *)
PositionsInRange ==
  /\ TypeOK
  /\ \A p \in Online : \A l \in 1 .. (level[p] - 1) : \A k \in DOMAIN circ.levels[l] :
     LET g == circ.levels[l][k] IN
     g.type \in {"Reorder", "ReorderInverse"} => PermOf(On(wires[p], g.in2), Len(g.in2))

(* The exchange keeps the parties together: they are never more than one   *)
(* level apart, at most two segments wait for a party during a level, and  *)
(* when both stand between levels nothing is left in flight for a later    *)
(* read to take for something else.                                        *)
ExchangeInStep ==
  /\ level[1] - level[2] \in -1 .. 1
  /\ \A p \in Online : pc[Other(p)] \notin {"outputs", "done"} => Len(chan[p]) <= 2 * Segment
  /\ level[1] = level[2] /\ pc = [p \in Online |-> "begin"] => chan = [p \in Online |-> <<>>]
  /\ pc = [p \in Online |-> "done"] => chan = [p \in Online |-> <<>>]

(* Sending a segment before reading the peer's cannot make the parties     *)
(* wait for each other, nor does one wait for a party that is done: with   *)
(* every segment of every level, whatever their lengths, one can go on.    *)
Waits(p) == \/ pc[p] = "recv" /\ Len(chan[p]) < SegmentSize(p)
            \/ pc[p] = "outputs" /\ Len(chan[p]) < Len(circ.outputs)
OneCanGoOn ==
  \A p \in Online : Waits(p) => ~ Waits(Other(p)) /\ pc[Other(p)] # "done"

(* Adding a constant gate adds the constant to the value, as               *)
(* Circuit::evaluate does and as kAddConstToVec and kFlip do, which add    *)
(* their constant at party 1 only.                                         *)
AddsConstantOnce ==
  \A l \in 1 .. (BothStage - 1) : \A k \in DOMAIN circ.levels[l] :
    LET g == circ.levels[l][k] IN
    g.type = "ConstAdd" => Openings[g.outs[1]] = Plus(Openings[g.in1[1]], g.cval)
=============================================================================
