------------------------------ MODULE MCOnline ------------------------------
(* Instances of Online for TLC: 4-bit words (two layers of comparison),    *)
(* circuits that between them use every kind of gate.                      *)
EXTENDS Online, Bitwise

MCXor(x, y) == x ^^ y
MCAnd(x, y) == x & y

G(t, in1, in2, outs) ==
  [type |-> t, in1 |-> in1, in2 |-> in2, outs |-> outs, param |-> 0, param2 |-> 0,
   param3 |-> 0, cval |-> 0, reverse |-> FALSE, owner |-> 1]
Inp(w, p)  == [G("Inp", <<>>, <<>>, <<w>>) EXCEPT !.owner = p]
Bin(w, p)  == [G("BinInp", <<>>, <<>>, <<w>>) EXCEPT !.owner = p]
Par(g, p)  == [g EXCEPT !.param = p]
Par2(g, c, p) == [g EXCEPT !.cval = c, !.param2 = p]
Shuf(m, i, o)   == Par(G("Shuffle", i, <<>>, o), m)
Unshuf(m, i, o) == [Shuf(m, i, o) EXCEPT !.reverse = TRUE]
Dbl(m, m2, m3, i, o) ==
  [Par(G("DoubleShuffle", i, <<>>, o), m) EXCEPT !.param2 = m2, !.param3 = m3]
Const(t, c, i, o) == [G(t, <<i>>, <<>>, <<o>>) EXCEPT !.cval = c]
Circ(levels, n, outs, bin) ==
  LET c == [levels |-> levels, wires |-> n]
  IN  [levels |-> levels, wires |-> n, outputs |-> outs, bin |-> bin,
       born |-> [w \in 1 .. n |-> Born(c, w)],
       sort |-> [w \in 1 .. n |-> Sort(Producer(c, w))]]

(* applyPerm and back: sort two words by a flag.                           *)
SortCircuit == Circ(
  << <<Inp(1, 1), Inp(2, 1), Inp(3, 2), Inp(4, 1), G("Flip", <<1, 2>>, <<>>, <<19, 20>>)>>,
     <<G("GenCompaction", <<19, 20>>, <<>>, <<5, 6>>), Shuf(0, <<3, 4>>, <<7, 8>>)>>,
     <<Shuf(0, <<5, 6>>, <<9, 10>>)>>,
     <<G("Reveal", <<9, 10>>, <<>>, <<11, 12>>),
       G("Reorder", <<7, 8>>, <<11, 12>>, <<13, 14>>),
       G("ReorderInverse", <<13, 14>>, <<11, 12>>, <<15, 16>>)>>,
     <<Unshuf(0, <<15, 16>>, <<17, 18>>)>> >>,
  20, <<13, 14, 17, 18>>, <<FALSE, FALSE, FALSE, FALSE>>)

(* The primitive gates of benchmark/test.cpp and equalszero.cpp.           *)
ArithCircuit == Circ(
  << <<Inp(1, 2), Inp(2, 1), Bin(3, 1), Bin(4, 2), G("Add", <<1>>, <<2>>, <<5>>),
       G("Xor", <<3>>, <<4>>, <<6>>)>>,
     <<G("EqualsZero", <<5>>, <<>>, <<7>>), G("Mul", <<5>>, <<2>>, <<8>>),
       G("And", <<3>>, <<6>>, <<9>>)>>,
     <<Par(G("EqualsZero", <<7>>, <<>>, <<10>>), 1), G("ConvertB2A", <<9>>, <<>>, <<11>>),
       G("Sub", <<8>>, <<11>>, <<12>>)>>,
     <<G("And", <<10>>, <<9>>, <<13>>), G("ConvertB2A", <<10>>, <<>>, <<14>>),
       Const("ConstMul", 3, 14, 15)>> >>,
  15, <<12, 13, 15, 9>>, <<FALSE, TRUE, FALSE, TRUE>>)

(* The local steps of a round of message passing around a double shuffle.  *)
PassCircuit == Circ(
  << <<Inp(1, 1), Inp(2, 2), Inp(3, 1),
       Par2(G("AddConstToVec", <<1, 2, 3>>, <<>>, <<4, 5, 6>>), 5, 2),
       Par(G("PreparePropagate", <<4, 5, 6>>, <<>>, <<7, 8, 9>>), 2)>>,
     <<Shuf(1, <<7, 8, 9>>, <<10, 11, 12>>), Shuf(0, <<4, 5, 6>>, <<13, 14, 15>>)>>,
     <<Dbl(2, 1, 0, <<10, 11, 12>>, <<16, 17, 18>>),
       G("Propagate", <<16, 17, 18>>, <<13, 14, 15>>, <<19, 20, 21>>),
       G("PrepareGather", <<19, 20, 21>>, <<>>, <<22, 23, 24>>),
       G("AddVec", <<22, 23, 24>>, <<1, 2, 3>>, <<25, 26, 27>>),
       Par(G("Gather", <<25, 26, 27>>, <<>>, <<28, 29, 30>>), 2),
       G("Compose", <<28, 29, 30>>, <<>>, <<31>>)>>,
     <<Dbl(2, 1, 0, <<28, 29, 30>>, <<32, 33, 34>>)>> >>,
  34, <<31, 32, 33, 34, 28>>, <<FALSE, FALSE, FALSE, FALSE, FALSE>>)

(* One level with several gates of every interactive kind, interleaved.    *)
MixedCircuit == Circ(
  << <<Inp(1, 1), Bin(2, 2), Inp(3, 2), Bin(4, 1)>>,
     <<G("Reveal", <<3, 1>>, <<>>, <<5, 6>>), G("And", <<2>>, <<4>>, <<7>>),
       G("GenCompaction", <<1, 3>>, <<>>, <<8, 9>>), Shuf(0, <<1, 3>>, <<10, 11>>),
       G("ConvertB2A", <<4>>, <<>>, <<12>>), G("EqualsZero", <<3>>, <<>>, <<13>>),
       G("Mul", <<1>>, <<3>>, <<14>>), Unshuf(0, <<3, 1>>, <<15, 16>>),
       G("Reveal", <<1>>, <<>>, <<17>>), Par(G("Gather", <<10, 11>>, <<>>, <<18, 19>>), 1)>> >>,
  19, <<7, 8, 9, 12, 14, 15, 16, 18>>,
  <<TRUE, FALSE, FALSE, FALSE, FALSE, FALSE, FALSE, FALSE>>)

Empty == Circ(<< <<Inp(1, 1)>> >>, 1, <<>>, <<>>)
AllCircuits == {SortCircuit, ArithCircuit, PassCircuit, MixedCircuit, Empty}
SomeRing == {0, 1, 7, 15}
Flag == {0, 1}
MCInputs(c) ==
  CASE c = SortCircuit  -> {<<a, b, 3, 14>> : a, b \in Flag}
    [] c = ArithCircuit -> {<<a, b, x, y>> : a \in SomeRing, b \in {1, 9}, x \in {5, 10}, y \in {6, 11}}
    [] c = PassCircuit  -> {<<a, b, 2>> : a \in SomeRing, b \in {0, 13}}
    [] c = MixedCircuit -> {<<a, x, b, y>> : a, b \in Flag, x \in {9, 12}, y \in {4, 15}}
    [] c = Empty        -> {<<0>>}

(* Material from a seed.                                                   *)
H(s, l, k, j, f) == (s * (3 + l * 5 + k * 7 + j * 3 + f * 11) + (s + l) * (k + j * f)) % Modulus
Rot(n, s) == [j \in 1 .. n |-> 1 + (((IF s % 2 = 0 THEN j ELSE n - j) + (s \div 2)) % n)]
Compose(f, h, n) == [j \in 1 .. n |-> f[h[j]]]
Pi0(s, m, n)  == Rot(n, s + m)
Pi1(s, m, n)  == Rot(n, s * 3 + m + 1)
Rho0(s, m, n) == Rot(n, s + 2 * m + 3)
Whole(s, m, n) == Compose(Pi0(s, m, n), Pi1(s, m, n), n)

Triple(s, l, k, n, bin) ==
  LET a(p) == [j \in 1 .. n |-> H(s, l, k, j, p)]
      b(p) == [j \in 1 .. n |-> H(s, l, k, j, 2 + p)]
      c1   == [j \in 1 .. n |-> H(s, l, k, j, 5)]
      c2   == [j \in 1 .. n |->
                 IF bin THEN XorW(AndW(XorW(a(1)[j], a(2)[j]), XorW(b(1)[j], b(2)[j])), c1[j])
                 ELSE Minus(Times(Plus(a(1)[j], a(2)[j]), Plus(b(1)[j], b(2)[j])), c1[j])]
  IN  <<[a |-> a(1), b |-> b(1), c |-> c1], [a |-> a(2), b |-> b(2), c |-> c2]>>

Halved(s, l, k, g) ==
  LET n    == Len(g.in1)
      dbl  == g.type = "DoubleShuffle"
      pi0  == Pi0(s, g.param, n)
      pi   == IF dbl THEN Compose(Whole(s, g.param3, n), Inverted(Whole(s, g.param2, n), n), n)
              ELSE Whole(s, g.param, n)
      pi1  == Compose(Inverted(pi0, n), pi, n)
      rho0 == Rho0(s, g.param, n)
      rho1 == Compose(pi, Inverted(rho0, n), n)
      mask(p) == [j \in 1 .. n |-> H(s, l, k, j, 5 + p)]
      from == IF g.reverse THEN pi ELSE Inverted(pi, n)
      b1   == [j \in 1 .. n |-> H(s, l, k, j, 9)]
      b2   == [j \in 1 .. n |-> Minus(Plus(mask(1)[from[j]], mask(2)[from[j]]), b1[j])]
  IN  <<[pi |-> pi0, rho |-> rho0, mask |-> mask(1), b |-> b1],
        [pi |-> pi1, rho |-> rho1, mask |-> mask(2), b |-> b2]>>

DealtTo(p, s, l, k, g) ==
  CASE g.type \in MultGate    -> Triple(s, l, k, Len(g.in1), FALSE)[p]
    [] g.type \in AndGate     -> Triple(s, l, k, 1, TRUE)[p]
    [] g.type \in ShuffleGate -> Halved(s, l, k, g)[p]
    [] OTHER                  -> <<>>
DealFrom(c, s) ==
  [p \in {1, 2} |-> [l \in DOMAIN c.levels |-> [k \in DOMAIN c.levels[l] |->
                      DealtTo(p, s, l, k, c.levels[l][k])]]]
MCDeals(c) == {DealFrom(c, s) : s \in {2, 5, 7}}
MCTapes == {<<4, 9, 13, 6>>, <<0, 15, 2, 11>>}

(* A constant-addition gate on a shared wire.                              *)
ConstCircuits == {Circ(<< <<Inp(1, p), Inp(2, p), Const("ConstAdd", 2, 1, 3)>>,
                          <<G("Mul", <<3>>, <<2>>, <<4>>)>> >>,
                       4, <<3, 4>>, <<FALSE, FALSE>>) : p \in {1, 2}}
ConstInputs(c) == {<<a, 1>> : a \in SomeRing}
=============================================================================
