----------------------------- MODULE MCOffline -----------------------------
(* Instances of Offline for TLC: 2-bit words, all short gate lists over    *)
(* every kind of gate, and some longer ones with more tapes.               *)
EXTENDS Offline, Bitwise, FiniteSets

MCXor(x, y) == x ^^ y
MCAnd(x, y) == x & y

MkGate(t, n, p, p2, p3, r) ==
  [type |-> t, n |-> n, param |-> p, param2 |-> p2, param3 |-> p3,
   reverse |-> r, owner |-> 1]
Simple(t)    == MkGate(t, 1, 0, 0, 0, FALSE)
Comp(n)      == MkGate("GenCompaction", n, 0, 0, 0, FALSE)
Shuf(n, m)   == MkGate("Shuffle", n, m, 0, 0, FALSE)
Unshuf(n, m) == MkGate("Shuffle", n, m, 0, 0, TRUE)
Double(n)    == MkGate("DoubleShuffle", n, 2, 0, 1, FALSE)

(* Every list of at most three gates over these.                           *)
SmallGates == {Simple("Mul"), Simple("And"), Simple("Inp"), Simple("Local"),
               Comp(2), Shuf(2, 0), Unshuf(2, 0), Shuf(2, 1), Double(2)}
SmallCircuits == UNION {[1 .. k -> SmallGates] : k \in 0 .. 3}

(* Longer lists: names in increasing and decreasing order (the latter      *)
(* leaves a filler behind), reuse in both directions, vectors of 1 to 3.   *)
LongCircuits ==
  { <<Shuf(n, 0), Shuf(n, 1), Double(n), Unshuf(n, 0), Double(n), Comp(n)>> : n \in 1 .. 3 }
  \cup { <<Simple("Inp"), Shuf(n, 1), Simple("ConvertB2A"), Unshuf(n, 0), Double(n),
           Simple("EqualsZero"), Shuf(n, 1), Double(n)>> : n \in 1 .. 3 }
  \cup { <<Comp(3), Shuf(3, 2), Shuf(2, 0), Unshuf(3, 2)>>,
         <<Shuf(3, 1), Double(3), Shuf(3, 0)>> }

MCTapeLen == 31
Tp(a, b) ==
  [s \in Stream |->
     [k \in 0 .. (MCTapeLen - 1) |->
        LET o == CASE s = "p01" -> 3 [] s = "p02" -> 11 [] OTHER -> 17
        IN  ((a*k + o) * (k + b) + (k * k * o) \div 7) % 97]]
SmallTapes == {Tp(1, 2), Tp(5, 3)}
ManyTapes  == SmallTapes \cup {Tp(a, b) : a \in {2, 3}, b \in {0, 4}}
AllCircuits == SmallCircuits \cup LongCircuits

(* Short lists with a few tapes, longer ones with all.                     *)
MCInit == Init /\ (gates \in LongCircuits \/ tape \in SmallTapes)
MCSpec == MCInit /\ [][Next]_vars /\ Fairness
=============================================================================
