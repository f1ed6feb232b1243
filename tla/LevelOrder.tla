----------------------------- MODULE LevelOrder -----------------------------
(***************************************************************************)
(* The circuit builder and orderGatesByLevel (template class Circuit,      *)
(* src/src/utils/circuit.h).  Callers add gates one by one; ordering walks *)
(* them once to give each a level, and once to put it into its level.      *)
(*                                                                         *)
(* Wire w of the code is w + 1 here, and level l is entry l + 1 of the     *)
(* list of levels.  Vectors of wires are sequences.  Parameters of a gate  *)
(* that play no role for the order are left out.                           *)
(***************************************************************************)
EXTENDS Levels, Integers, FiniteSets

CONSTANTS Kinds,        \* kinds of gates the callers add
          MaxGates,     \* bounds of the model: gates,
          MaxLen,       \*   length of a vector of wires,
          MaxOutputs    \*   declared outputs

ASSUME BoundsAssumption == MaxGates \in Nat /\ MaxLen \in Nat /\ MaxOutputs \in Nat

Unary    == {"Relu", "Msb", "Eqz", "Ltz", "ConvertB2A"}
Binary   == {"Add", "Mul", "Sub", "And", "Xor"}
DotProds == {"Dotprod", "Trdotp"}
ConstOps == {"ConstAdd", "ConstMul"}
Vector   == {"GenCompaction", "Reveal", "Flip", "PrepareGather", "PreparePropagate",
             "Gather", "AddConstToVec", "DoubleShuffle", "Shuffle"}
Pairwise == {"Reorder", "ReorderInverse", "Propagate", "AddVec"}

(* What the two walks over the levels tell apart: gates one level above    *)
(* their deepest input, and gates in the level of their deepest input.     *)
Deepening  == Interactive \cup {"Mul3", "Mul4"}
Inheriting == LocalGate
(* Kinds the builder accepts and the ordering does not know.               *)
Unsupported == (Unary \ {"ConvertB2A"}) \cup DotProds

AllKinds == Deepening \cup Inheriting \cup Unsupported \cup InputGate
ASSUME KindsAssumption == Kinds \subseteq AllKinds

VARIABLES gates,        \* gates_, in the order they were added
          num_wires,
          outputs,      \* outputs_ and output_bin_
          pc,           \* build, order, place, ordered, thrown or crashed
          next,         \* the gate a walk of orderGatesByLevel is at
          gate_level, wire_level, depth,
          by_level      \* gates_by_level

built == <<gates, num_wires, outputs>>
vars  == <<gates, num_wires, outputs, pc, next, gate_level, wire_level, depth, by_level>>

(* Vectors of valid wires (isWireValid).                                   *)
Wire       == 1 .. num_wires
Vec(n)     == [1 .. n -> Wire]
AnyVec     == UNION {Vec(n) : n \in 0 .. MaxLen}
SomeVec    == AnyVec \ {<<>>}
-----------------------------------------------------------------------------
(* Add a gate of kind t with n fresh output wires.                         *)
AddGate(t, in1, in2, n) ==
  /\ gates' = Append(gates, [type |-> t, in1 |-> in1, in2 |-> in2,
                             outs |-> [j \in 1 .. n |-> num_wires + j],
                             gid  |-> Len(gates) + 1])
  /\ num_wires' = num_wires + n
  /\ UNCHANGED <<outputs, pc, next, gate_level, wire_level, depth, by_level>>

NewInputWire    == "Inp" \in Kinds /\ AddGate("Inp", <<>>, <<>>, 1)
NewBinInputWire == "BinInp" \in Kinds /\ AddGate("BinInp", <<>>, <<>>, 1)
AddFIn1  == \E t \in Unary \cap Kinds, a \in Wire : AddGate(t, <<a>>, <<>>, 1)
AddFIn2  == \E t \in Binary \cap Kinds, a, b \in Wire : AddGate(t, <<a>>, <<b>>, 1)
AddFIn3  == "Mul3" \in Kinds /\ \E in \in Vec(3) : AddGate("Mul3", in, <<>>, 1)
AddFIn4  == "Mul4" \in Kinds /\ \E in \in Vec(4) : AddGate("Mul4", in, <<>>, 1)
AddConstOpGate == \E t \in ConstOps \cap Kinds, a \in Wire : AddGate(t, <<a>>, <<>>, 1)
AddParamGate   == "EqualsZero" \in Kinds /\ \E a \in Wire : AddGate("EqualsZero", <<a>>, <<>>, 1)
AddSIMD  == \E t \in DotProds \cap Kinds : \E in1 \in AnyVec : \E in2 \in Vec(Len(in1)) :
              AddGate(t, in1, in2, 1)
(* addMGate, addParamMGate, addTwoParamMGate, addThreeParamMGate and       *)
(* addParamWithOptMGate differ in the kinds they accept.                   *)
AddMGate == \E t \in Vector \cap Kinds : \E in \in SomeVec : AddGate(t, in, <<>>, Len(in))
AddMSingleOutGate == "Compose" \in Kinds /\ \E in \in AnyVec : AddGate("Compose", in, <<>>, 1)
(* Callers pass two vectors of one length; the code does not check it.     *)
AddMDoubleInGate  == \E t \in Pairwise \cap Kinds : \E in1 \in SomeVec : \E in2 \in Vec(Len(in1)) :
                       AddGate(t, in1, in2, Len(in1))
(* The constructors of gates with a vector of outputs read outs[0] before  *)
(* anything checks that there is one: the program ends at a null pointer.  *)
AddEmpty == /\ (Vector \cup Pairwise) \cap Kinds # {}
            /\ pc' = "crashed"
            /\ UNCHANGED <<built, next, gate_level, wire_level, depth, by_level>>

Build == /\ pc = "build"
         /\ Len(gates) < MaxGates
         /\ \/ NewInputWire \/ NewBinInputWire \/ AddFIn1 \/ AddFIn2 \/ AddFIn3 \/ AddFIn4
            \/ AddConstOpGate \/ AddParamGate \/ AddSIMD \/ AddMGate
            \/ AddMSingleOutGate \/ AddMDoubleInGate \/ AddEmpty

SetAsOutput == \E w \in Wire, bin \in BOOLEAN :
  /\ pc = "build"
  /\ Len(outputs) < MaxOutputs
  /\ outputs' = Append(outputs, [wire |-> w, bin |-> bin])
  /\ UNCHANGED <<gates, num_wires, pc, next, gate_level, wire_level, depth, by_level>>

-----------------------------------------------------------------------------
(* orderGatesByLevel                                                       *)
StartOrdering ==
  /\ pc = "build"
  /\ pc' = "order"
  /\ next' = 1
  /\ gate_level' = [i \in DOMAIN gates |-> 0]
  /\ wire_level' = [w \in Wire |-> 0]
  /\ depth' = 0
  /\ UNCHANGED <<built, by_level>>

(* std::max over the levels of the wires S, at least 0.                    *)
Deepest(S) == CHOOSE d \in 0 .. depth :
                /\ \A w \in S : wire_level[w] <= d
                /\ \A e \in 0 .. depth : (\A w \in S : wire_level[w] <= e) => d <= e

(* Mutants: only the first inputs count; a local gate opens a level.       *)
LevelOfFirst(g) == Deepest(Elems(g.in1)) + IF g.type \in Deepening THEN 1 ELSE 0
LevelOfLocals(g) == Deepest(Reads(g)) + IF g.type \in Deepening \cup {"Flip"} THEN 1 ELSE 0
LevelOf(g) == Deepest(Reads(g)) + IF g.type \in Deepening THEN 1 ELSE 0

SkipInput ==
  /\ pc = "order"
  /\ next \in DOMAIN gates
  /\ gates[next].type \in InputGate
  /\ next' = next + 1
  /\ UNCHANGED <<built, pc, gate_level, wire_level, depth, by_level>>
AssignLevel ==
  /\ pc = "order"
  /\ next \in DOMAIN gates
  /\ gates[next].type \in Deepening \cup Inheriting
  /\ LET g == gates[next]
         d == LevelOf(g)
     IN  /\ gate_level' = [gate_level EXCEPT ![next] = d]
         /\ wire_level' = [w \in Wire |-> IF Writes(g, w) THEN d ELSE wire_level[w]]
         /\ depth' = IF d > depth THEN d ELSE depth
  /\ next' = next + 1
  /\ UNCHANGED <<built, pc, by_level>>
ThrowUnsupported ==
  /\ pc = "order"
  /\ next \in DOMAIN gates
  /\ gates[next].type \in Unsupported
  /\ pc' = "thrown"
  /\ UNCHANGED <<built, next, gate_level, wire_level, depth, by_level>>

(* Mutant: the level a gate would need is missing if it is the deepest.    *)
StartPlacingShort ==
  /\ pc = "order"
  /\ next > Len(gates)
  /\ pc' = "place"
  /\ next' = 1
  /\ by_level' = [l \in 1 .. depth |-> <<>>]
  /\ UNCHANGED <<built, gate_level, wire_level, depth>>
StartPlacing ==
  /\ pc = "order"
  /\ next > Len(gates)
  /\ pc' = "place"
  /\ next' = 1
  /\ by_level' = [l \in 1 .. (depth + 1) |-> <<>>]
  /\ UNCHANGED <<built, gate_level, wire_level, depth>>
PlaceGate ==
  /\ pc = "place"
  /\ next \in DOMAIN gates
  /\ by_level' = [by_level EXCEPT ![gate_level[next] + 1] = Append(@, gates[next])]
  /\ next' = next + 1
  /\ UNCHANGED <<built, pc, gate_level, wire_level, depth>>
FinishOrdering ==
  /\ pc = "place"
  /\ next > Len(gates)
  /\ pc' = "ordered"
  /\ UNCHANGED <<built, next, gate_level, wire_level, depth, by_level>>

OrderGatesByLevel == \/ StartOrdering \/ SkipInput \/ AssignLevel \/ ThrowUnsupported
                     \/ StartPlacing \/ PlaceGate \/ FinishOrdering
-----------------------------------------------------------------------------
Init ==
  /\ gates = <<>>
  /\ num_wires = 0
  /\ outputs = <<>>
  /\ pc = "build"
  /\ next = 1
  /\ gate_level = <<>> /\ wire_level = <<>> /\ depth = 0
  /\ by_level = <<>>

Next == Build \/ SetAsOutput \/ OrderGatesByLevel
Spec == Init /\ [][Next]_vars
-----------------------------------------------------------------------------
Gate == [type : AllKinds, in1 : Seq(Wire), in2 : Seq(Wire), outs : Seq(Wire), gid : Nat]

(* Every wire that a gate, an output or a level names exists.              *)
TypeOK ==
  /\ gates \in Seq(Gate)
  /\ num_wires \in Nat
  /\ outputs \in Seq([wire : Wire, bin : BOOLEAN])
  /\ pc \in {"build", "order", "place", "ordered", "thrown", "crashed"}
  /\ next \in 1 .. (Len(gates) + 1)
  /\ pc \notin {"build", "crashed"} => /\ gate_level \in [DOMAIN gates -> Nat]
                                       /\ wire_level \in [Wire -> Nat]
  /\ depth \in Nat
  /\ by_level \in Seq(Seq(Gate))
  /\ pc \in {"build", "order", "thrown", "crashed"} => by_level = <<>>

(* The ordered circuit is what the evaluators rely on (and what module     *)
(* Online assumes of its circuits): an interactive gate finds its inputs   *)
(* in earlier levels, a local gate in earlier levels or earlier in its own,*)
(* every wire has one producer, and every level but the first has a gate   *)
(* the parties exchange words for.                                         *)
OrderedForEvaluation ==
  pc = "ordered" => /\ InOrder(by_level) /\ OneProducer(by_level, num_wires)
                    /\ NoIdleLevel(by_level)

(* Ordering neither loses nor duplicates a gate, and keeps the order in    *)
(* which the gates of a level were added: preprocessing and evaluation     *)
(* walk them in this order on all machines.                                *)
KeepsEveryGate ==
  pc = "ordered" =>
    /\ \A i \in DOMAIN gates :
         \E l \in DOMAIN by_level : \E k \in DOMAIN by_level[l] : by_level[l][k] = gates[i]
    /\ \A l \in DOMAIN by_level : \A k \in DOMAIN by_level[l] :
         /\ \E i \in DOMAIN gates : by_level[l][k] = gates[i]
         /\ \A m \in DOMAIN by_level : \A j \in DOMAIN by_level[m] :
              by_level[m][j] = by_level[l][k] => m = l /\ j = k
         /\ \A j \in 1 .. (k - 1) : by_level[l][j].gid < by_level[l][k].gid

(* A chain: every gate of it reads an output of the one before.            *)
Chain(S) == \A i \in S : (\E h \in S : h < i) =>
              \E h \in S : /\ h < i /\ (\A x \in S : ~ (h < x /\ x < i))
                           /\ Reads(gates[i]) \cap Elems(gates[h].outs) # {}
Rounds(S) == Cardinality({i \in S : gates[i].type \in Interactive \cup {"Mul3", "Mul4"}})

(* The level of a gate is the largest number of interactive gates on a     *)
(* chain that ends in it: no circuit takes a round of communication more   *)
(* than its longest chain of interactive gates.                            *)
FewestRounds ==
  pc = "ordered" =>
    \A l \in DOMAIN by_level : \A k \in DOMAIN by_level[l] :
      LET i == by_level[l][k].gid
          chains == {S \in SUBSET (1 .. i) : i \in S /\ Chain(S)}
      IN  /\ \E S \in chains : Rounds(S) = l - 1
          /\ \A S \in chains : Rounds(S) <= l - 1
=============================================================================
