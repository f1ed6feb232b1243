------------------------------- MODULE Levels -------------------------------
(***************************************************************************)
(* Kinds of gates, and the order of gates that orderGatesByLevel           *)
(* (src/src/utils/circuit.h) gives and the evaluators rely on.             *)
(***************************************************************************)
EXTENDS Naturals, Sequences

(* Gates that open words to the other party, and those that do not.        *)
MultGate    == {"Mul", "ConvertB2A", "GenCompaction"}
AndGate     == {"And", "EqualsZero"}
ShuffleGate == {"Shuffle", "DoubleShuffle"}
Interactive == MultGate \cup AndGate \cup ShuffleGate \cup {"Reveal"}
LocalGate   == {"Add", "Sub", "Xor", "ConstAdd", "ConstMul", "AddVec", "Flip",
                "AddConstToVec", "PreparePropagate", "Propagate",
                "PrepareGather", "Gather", "Compose", "Reorder",
                "ReorderInverse"}
InputGate   == {"Inp", "BinInp"}

Elems(s)     == {s[j] : j \in DOMAIN s}
Reads(g)     == Elems(g.in1) \cup Elems(g.in2)
Writes(g, w) == w \in Elems(g.outs)

(* A level is evaluated in two walks over its gates, one before and one    *)
(* after the exchange.  The first needs the inputs of the interactive      *)
(* gates, so they come from earlier levels; the second needs those of the  *)
(* local gates, which may come from earlier in the level.                  *)
InOrder(levels) ==
  \A l \in DOMAIN levels : \A k \in DOMAIN levels[l] :
    LET g == levels[l][k] IN
    /\ g.type \in InputGate => l = 1
    /\ \A w \in Reads(g) :
         \/ \E i \in 1 .. (l - 1) : \E j \in DOMAIN levels[i] : Writes(levels[i][j], w)
         \/ /\ g.type \notin Interactive
            /\ \E m \in 1 .. (k - 1) : Writes(levels[l][m], w)

(* Every wire 1 .. n is written by one gate, which stands at one place.    *)
OneProducer(levels, n) ==
  \A w \in 1 .. n :
    \E l \in DOMAIN levels : \E k \in DOMAIN levels[l] :
      /\ Writes(levels[l][k], w)
      /\ \A i \in DOMAIN levels : \A j \in DOMAIN levels[i] :
           Writes(levels[i][j], w) => i = l /\ j = k

(* Every level after the first opens words to the other party, so that     *)
(* nobody can run ahead of what it has received.                           *)
NoIdleLevel(levels) ==
  \A l \in 2 .. Len(levels) : \E k \in DOMAIN levels[l] :
    /\ levels[l][k].type \in Interactive \cup {"Mul3", "Mul4"}
    /\ levels[l][k].in1 # <<>>
=============================================================================
