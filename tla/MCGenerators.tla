---------------------------- MODULE MCGenerators ----------------------------
(* Instances of Generators for TLC: values of one bit.                     *)
EXTENDS Generators, Bitwise

MCXor(x, y) == x ^^ y
MCAnd(x, y) == x & y

For4(name, n) == [name |-> name, log |-> 2, n |-> n]
MCCalls == {For4(m, 0) : m \in {"PPA", "PPAMSB", "MultK", "PrefixAND", "CDA"}}
             \cup {For4("ParaPrefixAND", n) : n \in 1 .. 2}
             \cup {For4("Auction", N) : N \in 1 .. 4}
             \cup {[name |-> m, log |-> 3, n |-> 0] : m \in {"PPA", "PPAMSB"}}
             \cup {[name |-> "MultK", log |-> 4, n |-> 0]}

(* All inputs of up to 8 wires.  For 16: operands that carry far, and      *)
(* inputs that are all one but for one.                                    *)
Word(B) == [i \in 1 .. 8 |-> IF i \in B THEN 1 ELSE 0]
Operands1 == {Word(B) : B \in {{}, {1}, {2, 3, 7}, 1 .. 8, 1 .. 7, {8}, {2, 4, 6, 8}, 4 .. 8}}
Operands2 == {Word(B) : B \in {{1}, {1, 2, 5}, 3 .. 6, 1 .. 8, {1, 3, 5, 7}}}
MCArgs(S) ==
  IF Cardinality(S) # 16 THEN [S -> Ring]
  ELSE {[w \in S |-> IF w = v THEN 0 ELSE 1] : v \in S \cup {0}}
       \cup {[w \in S |-> IF w <= 8 THEN a[w] ELSE b[w - 8]] : a \in Operands1, b \in Operands2}
=============================================================================
