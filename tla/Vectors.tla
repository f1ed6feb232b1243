------------------------------ MODULE Vectors ------------------------------
(***************************************************************************)
(* What the vector gates compute, in the clear, as the online evaluator    *)
(* defines them (src/src/graphsc/online_evaluator_load_balanced.cpp).      *)
(*                                                                         *)
(* Vectors are sequences, so element j of a C++ vector is element j + 1    *)
(* here, and a permutation is a function on 1 .. n that says where each    *)
(* element goes.                                                           *)
(***************************************************************************)
EXTENDS Words, Sequences, FiniteSets

PermOf(f, n) == /\ f \in [1 .. n -> 1 .. n]
                /\ \A i, j \in 1 .. n : f[i] = f[j] => i = j
Inverted(f, n) == [k \in 1 .. n |-> CHOOSE j \in 1 .. n : f[j] = k]

(* Shuffle, forwards and in reverse.                                       *)
Moved(x, f)     == [k \in 1 .. Len(x) |-> x[Inverted(f, Len(x))[k]]]
MovedBack(x, f) == [j \in 1 .. Len(x) |-> x[f[j]]]

(* Reorder by revealed positions y, and back.                              *)
Reordered(x, y)     == [k \in 1 .. Len(x) |-> x[CHOOSE j \in 1 .. Len(x) : y[j] = k]]
ReorderedBack(x, y) == [j \in 1 .. Len(x) |-> x[y[j]]]

(* Destination of every element in the stable sort by a 0/1 flag.          *)
Destination(x, j) ==
  IF x[j] = 0 THEN Cardinality({i \in 1 .. j : x[i] = 0})
  ELSE Cardinality({i \in DOMAIN x : x[i] = 0}) + Cardinality({i \in 1 .. j : x[i] # 0})
Compaction(x) == [j \in 1 .. Len(x) |-> Destination(x, j)]

(* Sums of the first k elements.                                           *)
Total(x, k) ==
  LET s[i \in 0 .. k] == IF i = 0 THEN 0 ELSE Plus(s[i - 1], x[i]) IN s[k]
(* Bits, the least significant first, as one word.                         *)
Composed(x) == Total([j \in 1 .. Len(x) |-> Trunc(x[j] * 2^(j - 1))], Len(x))

Flipped(x)   == [j \in 1 .. Len(x) |-> Minus(1, x[j])]
AddedVec(x, y) == [j \in 1 .. Len(x) |-> Plus(x[j], y[j])]
(* A constant is added to the first n elements.                            *)
AddedConst(x, c, n) == [j \in 1 .. Len(x) |-> IF j <= n THEN Plus(x[j], c) ELSE x[j]]

(* The two halves of sending the values of the first n elements along a    *)
(* list: differences before the list is reordered, prefix sums after, less *)
(* what the elements held themselves.                                      *)
PreparedPropagate(x, n) ==
  [j \in 1 .. Len(x) |-> IF j \in 2 .. n THEN Minus(x[j], x[j - 1]) ELSE x[j]]
Propagated(x, y) == [j \in 1 .. Len(x) |-> Minus(Total(x, j), y[j])]
(* The two halves of collecting: prefix sums before, differences after.    *)
PreparedGather(x) == [j \in 1 .. Len(x) |-> Total(x, j)]
Gathered(x, n) ==
  [j \in 1 .. Len(x) |-> CASE j > n -> 0
                           [] j = 1 /\ j <= n -> x[1]
                           [] OTHER -> Minus(x[j], x[j - 1])]
=============================================================================
