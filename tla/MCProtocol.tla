----------------------------- MODULE MCProtocol -----------------------------
(* Instances of Protocol for TLC: 4-bit words, circuits that between them  *)
(* use every interactive gate, shuffles before and after their double.     *)
EXTENDS Protocol, Bitwise, FiniteSets

MCXor(x, y) == x ^^ y
MCAnd(x, y) == x & y

G(t, in1, in2, outs) ==
  [type |-> t, in1 |-> in1, in2 |-> in2, outs |-> outs, param |-> 0, param2 |-> 0,
   param3 |-> 0, cval |-> 0, reverse |-> FALSE, owner |-> 1]
Inp(w, p)  == [G("Inp", <<>>, <<>>, <<w>>) EXCEPT !.owner = p]
Bin(w, p)  == [G("BinInp", <<>>, <<>>, <<w>>) EXCEPT !.owner = p]
Shuf(m, i, o)   == [G("Shuffle", i, <<>>, o) EXCEPT !.param = m]
Unshuf(m, i, o) == [Shuf(m, i, o) EXCEPT !.reverse = TRUE]
Dbl(m, m2, m3, i, o) ==
  [G("DoubleShuffle", i, <<>>, o) EXCEPT !.param = m, !.param2 = m2, !.param3 = m3]
Circ(levels, n, outs, bin) ==
  LET c == [levels |-> levels, wires |-> n]
  IN  [levels |-> levels, wires |-> n, outputs |-> outs, bin |-> bin,
       born |-> [w \in 1 .. n |-> Born(c, w)],
       sort |-> [w \in 1 .. n |-> Sort(Producer(c, w))]]

(* Sort three words by a flag and undo it.                                 *)
SortCircuit == Circ(
  << <<Inp(1, 1), Inp(2, 1), Inp(3, 2)>>,
     <<G("GenCompaction", <<1, 2, 3>>, <<>>, <<4, 5, 6>>), Shuf(0, <<3, 1, 2>>, <<7, 8, 9>>)>>,
     <<Shuf(0, <<4, 5, 6>>, <<10, 11, 12>>)>>,
     <<G("Reveal", <<10, 11, 12>>, <<>>, <<13, 14, 15>>),
       G("Reorder", <<7, 8, 9>>, <<13, 14, 15>>, <<16, 17, 18>>),
       G("ReorderInverse", <<16, 17, 18>>, <<13, 14, 15>>, <<19, 20, 21>>)>>,
     <<Unshuf(0, <<19, 20, 21>>, <<22, 23, 24>>)>> >>,
  24, <<16, 17, 22, 24>>, <<FALSE, FALSE, FALSE, FALSE>>)

(* A double shuffle between two shuffled orders.                           *)
PassCircuit == Circ(
  << <<Inp(1, 1), Inp(2, 2), Inp(3, 1)>>,
     <<Shuf(1, <<1, 2, 3>>, <<4, 5, 6>>), Shuf(0, <<2, 2, 1>>, <<7, 8, 9>>)>>,
     <<Dbl(2, 1, 0, <<4, 5, 6>>, <<10, 11, 12>>),
       G("Propagate", <<10, 11, 12>>, <<7, 8, 9>>, <<13, 14, 15>>)>>,
     <<Dbl(2, 1, 0, <<13, 14, 15>>, <<16, 17, 18>>), Unshuf(0, <<10, 11, 12>>, <<19, 20, 21>>)>> >>,
  21, <<16, 19, 20, 21>>, <<FALSE, FALSE, FALSE, FALSE>>)

(* Products, ands and a comparison with zero.                              *)
ArithCircuit == Circ(
  << <<Inp(1, 2), Bin(2, 1), Bin(3, 2)>>,
     <<G("EqualsZero", <<1>>, <<>>, <<4>>), G("And", <<2>>, <<3>>, <<5>>),
       G("Mul", <<1>>, <<1>>, <<6>>)>>,
     <<[G("EqualsZero", <<4>>, <<>>, <<7>>) EXCEPT !.param = 1],
       G("ConvertB2A", <<5>>, <<>>, <<8>>), G("Sub", <<6>>, <<8>>, <<9>>)>>,
     <<G("ConvertB2A", <<7>>, <<>>, <<10>>)>> >>,
  10, <<5, 9, 10>>, <<TRUE, FALSE, FALSE>>)

(* A double shuffle without its shuffles, and nothing to do.               *)
LoneDouble == Circ(<< <<Inp(1, 1), Inp(2, 2)>>, <<Dbl(2, 1, 0, <<1, 2>>, <<3, 4>>)>> >>,
                   4, <<3>>, <<FALSE>>)
Empty == Circ(<< <<Inp(1, 1)>> >>, 1, <<>>, <<>>)

AllCircuits == {SortCircuit, PassCircuit, ArithCircuit, LoneDouble, Empty}
MCReps(c) == IF c \in {PassCircuit, LoneDouble, Empty} THEN {1, 2} ELSE {1}
MCInputs(c) ==
  CASE c = SortCircuit  -> {<<a, b, 1>> : a, b \in {0, 1}}
    [] c = PassCircuit  -> {<<a, 13, 2>> : a \in {0, 7}}
    [] c = ArithCircuit -> {<<a, x, 6>> : a \in {0, 1, 8}, x \in {5}}
    [] c = LoneDouble   -> {<<1, 2>>}
    [] c = Empty        -> {<<0>>}

MCTapeLen == 31
Tp(a, b) ==
  [s \in {"p01", "p02", "self"} |->
     [k \in 0 .. (MCTapeLen - 1) |->
        LET o == CASE s = "p01" -> 3 [] s = "p02" -> 11 [] OTHER -> 17
        IN  ((a*k + o) * (k + b) + (k * k * o) \div 7) % 97]]
SomeTapes == {Tp(1, 2), Tp(5, 3)}
MCShared  == {<<4, 9, 13>>}

(* One tape and one input for the programs that repeat.                    *)
MCInit == Init /\ (reps = 1 \/ (random = Tp(1, 2) /\ inputs[1] # 7))
MCSpec == MCInit /\ [][Next]_vars /\ Fairness
=============================================================================
