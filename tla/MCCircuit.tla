----------------------------- MODULE MCCircuit -----------------------------
(* Instances of LevelOrder and Evaluate for TLC: what is built is         *)
(* ordered, and what is of arithmetic or of mixed kinds is evaluated.      *)
EXTENDS Evaluate, Bitwise

MCXor(x, y) == x ^^ y
MCAnd(x, y) == x & y

(* Kinds that are used together.  AllShapes has one kind for every         *)
(* function of the builder, two where the ordering tells them apart.       *)
AllShapes  == {"Inp", "BinInp", "And", "Mul3", "Mul4", "Dotprod",
               "Shuffle", "Flip", "Compose", "Reorder", "EqualsZero"}
MixedKinds == {"Inp", "Add", "Mul3", "ConstMul", "Reveal", "Ltz"}
Sums       == {"Inp", "Mul", "Sub", "ConstAdd"}
Chains     == {"Inp", "And", "Flip"}
MCKinds    == AllShapes \cup MixedKinds \cup Sums

Of(K)     == \A i \in DOMAIN gates : gates[i].type \in K
Single    == \A i \in DOMAIN gates : Len(gates[i].outs) = 1
OneInput  == \A i \in DOMAIN gates : gates[i].type = "Inp" <=> i = 1
Evaluable == Of(MixedKinds) \/ Of(Sums)

(* Up to three gates of kinds used together, four differences of products  *)
(* of one input, chains of four gates with one output, and of five on a    *)
(* single input.  Constants matter only to what is evaluated.              *)
Bounded ==
  /\ \/ Len(gates) <= 3 /\ (Of(AllShapes) \/ Of(MixedKinds) \/ Of(Sums))
     \/ Len(gates) = 4 /\ Of({"Inp", "Mul", "Sub"}) /\ OneInput
     \/ Of(Chains) /\ Single /\ (Len(gates) <= 4 \/ OneInput)
  /\ Evaluable \/ \A i \in DOMAIN consts : consts[i] = 0
More ==
  \/ Len(gates) < 3
  \/ Len(gates) = 3 /\ (Of(Sums) \/ Of(Chains))
  \/ Of(Chains) /\ OneInput

MCNext == \/ More /\ BuildGate /\ Bounded'
          \/ (Len(gates) <= 3 \/ Of(Sums)) /\ Output
          \/ Order
          \/ Evaluable /\ Evaluating
MCSpec == EvalInit /\ [][MCNext]_evalvars

(* Inputs for the right wires, for too few, too many and wrong ones.       *)
Zeros(T) == [w \in T |-> 0]
MCArgs(S) ==
  LET n == Cardinality(S) IN
  (CASE n <= 1 -> [S -> Ring]
     [] n = 2  -> [S -> {1, 3}]
     [] OTHER  -> {[w \in S |-> w % Modulus]}) \cup
    {Zeros(T) : T \in {U \in SUBSET (1 .. MaxGates) : \/ U \subseteq S /\ Cardinality(U) + 1 = n
                                                      \/ S \subseteq U /\ Cardinality(U) = n + 1
                                                      \/ Cardinality(U) = n /\ 1 \notin U}}
=============================================================================
