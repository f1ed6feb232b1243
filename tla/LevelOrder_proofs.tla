------------------------- MODULE LevelOrder_proofs --------------------------
(***************************************************************************)
(* Proofs about module LevelOrder.  The invariant has one part for each    *)
(* phase: what the builder ensures about the gates, what the first walk    *)
(* has established for the gates before next, and where the second walk    *)
(* has put them.                                                           *)
(***************************************************************************)
EXTENDS LevelOrder, Evaluate, Facts, TLAPS

-----------------------------------------------------------------------------

(* A gate reads only wires that gates before it write ("This assumes that  *)
(* if gates_[i]'s output is input to gates_[j] then i < j").               *)
Sourced ==
  \A i \in DOMAIN gates :
    /\ gates[i].gid = i
    /\ gates[i].type \in InputGate => Reads(gates[i]) = {}
    /\ \A w \in Reads(gates[i]) : \E j \in 1 .. (i - 1) : Writes(gates[j], w)

SoleWriter ==
  \A w \in Wire : \E i \in DOMAIN gates :
    /\ Writes(gates[i], w)
    /\ \A j \in DOMAIN gates : Writes(gates[j], w) => j = i

(* Number of gates that have their level, and that stand in their level.   *)
Leveled  == IF pc = "order" THEN next - 1 ELSE Len(gates)
Standing == next - 1

LevelsRespected ==
  pc \in {"order", "place", "ordered"} =>
    /\ \A w \in Wire : wire_level[w] <= depth
    /\ \A i \in DOMAIN gates :
         /\ gate_level[i] <= depth
         /\ gates[i].type \in InputGate => gate_level[i] = 0
         /\ \A w \in Wire : Writes(gates[i], w) => wire_level[w] = gate_level[i]
         /\ i > Leveled => gate_level[i] = 0
    /\ \A i \in 1 .. Leveled : \A w \in Reads(gates[i]) :
         /\ wire_level[w] <= gate_level[i]
         /\ gates[i].type \in Interactive => wire_level[w] < gate_level[i]

Placed ==
  pc \in {"place", "ordered"} =>
    /\ Len(by_level) = depth + 1
    /\ pc = "ordered" => next = Len(gates) + 1
    /\ \A i \in 1 .. Standing :
         \E k \in DOMAIN by_level[gate_level[i] + 1] : by_level[gate_level[i] + 1][k] = gates[i]
    /\ \A l \in DOMAIN by_level : \A k \in DOMAIN by_level[l] :
         /\ by_level[l][k].gid \in 1 .. Standing
         /\ by_level[l][k] = gates[by_level[l][k].gid]
         /\ gate_level[by_level[l][k].gid] + 1 = l
         /\ \A j \in 1 .. (k - 1) : by_level[l][j].gid < by_level[l][k].gid

IInv == TypeOK /\ Sourced /\ SoleWriter /\ LevelsRespected /\ Placed

(* No level is higher than what the gate reads asks for.                   *)
Opens(i) == IF gates[i].type \in Deepening THEN 1 ELSE 0
Exact ==
  pc \in {"order", "place", "ordered"} =>
    \A i \in 1 .. Leveled :
      /\ \A w \in Reads(gates[i]) : wire_level[w] + Opens(i) <= gate_level[i]
      /\ \/ gate_level[i] = Opens(i)
         \/ \E w \in Reads(gates[i]) : gate_level[i] = wire_level[w] + Opens(i)

(* No level is empty of gates that open words, and such a gate has inputs. *)
Busy ==
  /\ \A i \in DOMAIN gates : gates[i].type \in Deepening => gates[i].in1 # <<>>
  /\ pc \in {"order", "place", "ordered"} =>
       \A d \in 1 .. depth :
         \E i \in 1 .. Leveled : gates[i].type \in Deepening /\ gate_level[i] = d
-----------------------------------------------------------------------------
(* Wires of a gate are wires of the circuit.                               *)
LEMMA GateWires ==
  ASSUME TypeOK, NEW i \in DOMAIN gates
  PROVE  /\ gates[i] \in Gate
         /\ Reads(gates[i]) \subseteq Wire
         /\ \A w : Writes(gates[i], w) => w \in Wire
<1>1. gates[i] \in Gate
  BY DEF TypeOK
<1>2. /\ gates[i].in1 \in Seq(Wire) /\ gates[i].in2 \in Seq(Wire)
      /\ gates[i].outs \in Seq(Wire)
  BY <1>1 DEF Gate
<1>3. ASSUME NEW s \in Seq(Wire) PROVE Elems(s) \subseteq Wire
  BY DEF Elems
<1>. QED  BY <1>1, <1>2, <1>3 DEF Reads, Writes

(* Deepest is a bound on the levels of the wires, and not beyond depth.    *)
LEMMA DeepestBounds ==
  ASSUME NEW S \in SUBSET Wire, depth \in Nat, wire_level \in [Wire -> Nat],
         \A w \in Wire : wire_level[w] <= depth
  PROVE  /\ Deepest(S) \in 0 .. depth
         /\ \A w \in S : wire_level[w] <= Deepest(S)
         /\ Deepest(S) = 0 \/ \E w \in S : Deepest(S) = wire_level[w]
<1> DEFINE T == {e \in Nat : \A w \in S : wire_level[w] <= e}
<1>1. depth \in T
  OBVIOUS
<1>2. PICK d \in T : \A e \in T : ~ (e < d)
  <2> HIDE DEF T
  <2>1. T \in SUBSET Nat /\ T # {}  BY <1>1 DEF T
  <2>. QED  BY <2>1, NatLeast
<1>3. d \in 0 .. depth
  BY <1>1, <1>2
<1>4. \A w \in S : wire_level[w] <= d
  BY <1>2
<1>5. \A e \in 0 .. depth : (\A w \in S : wire_level[w] <= e) => d <= e
  <2> TAKE e \in 0 .. depth
  <2> HAVE \A w \in S : wire_level[w] <= e
  <2>1. e \in T  OBVIOUS
  <2>. QED  BY <2>1, <1>2
<1> HIDE DEF T
<1>6. \E x \in 0 .. depth : /\ \A w \in S : wire_level[w] <= x
                            /\ \A e \in 0 .. depth : (\A w \in S : wire_level[w] <= e) => x <= e
  BY <1>3, <1>4, <1>5
<1> DEFINE D == Deepest(S)
<1>7. /\ D \in 0 .. depth /\ \A w \in S : wire_level[w] <= D
      /\ \A e \in 0 .. depth : (\A w \in S : wire_level[w] <= e) => D <= e
  BY <1>6 DEF Deepest
<1> HIDE DEF D
<1>8. D = 0 \/ \E w \in S : D = wire_level[w]
  <2> SUFFICES ASSUME D # 0, \A w \in S : D # wire_level[w] PROVE FALSE
    OBVIOUS
  <2>1. D - 1 \in 0 .. depth /\ ~ (D <= D - 1)
    BY <1>7
  <2>2. ASSUME NEW w \in S PROVE wire_level[w] <= D - 1
    <3>1. wire_level[w] \in Nat /\ wire_level[w] <= D /\ wire_level[w] # D /\ D \in Nat
      BY <1>7
    <3>. QED  BY <3>1
  <2>. QED  BY <2>1, <2>2, <1>7
<1>. QED  BY <1>7, <1>8 DEF D
-----------------------------------------------------------------------------
LEMMA InitIInv == Init => IInv
<1> SUFFICES ASSUME Init PROVE IInv
  OBVIOUS
<1> USE DEF Init
<1>1. TypeOK  BY DEF TypeOK, Wire
<1>2. Sourced /\ SoleWriter  BY DEF Sourced, SoleWriter, Wire
<1>3. LevelsRespected /\ Placed  BY DEF LevelsRespected, Placed
<1>. QED  BY <1>1, <1>2, <1>3 DEF IInv

(* A builder function leaves the circuit with its invariants.              *)
LEMMA AddGateKeeps ==
  ASSUME IInv, pc = "build",
         NEW t \in AllKinds, NEW in1 \in Seq(Wire), NEW in2 \in Seq(Wire), NEW n \in Nat,
         t \in InputGate => in1 = <<>> /\ in2 = <<>>,
         AddGate(t, in1, in2, n)
  PROVE  IInv'
<1> DEFINE g == [type |-> t, in1 |-> in1, in2 |-> in2,
                 outs |-> [j \in 1 .. n |-> num_wires + j], gid |-> Len(gates) + 1]
<1>a. gates' = Append(gates, g) /\ num_wires' = num_wires + n
  BY DEF AddGate
<1>b. UNCHANGED <<outputs, pc, next, gate_level, wire_level, depth, by_level>>
  BY DEF AddGate
<1>c. TypeOK /\ Sourced /\ SoleWriter
  BY DEF IInv
<1>d. /\ num_wires \in Nat /\ gates \in Seq(Gate) /\ Wire \subseteq Wire'
      /\ \A w \in Wire' : w \in Wire \/ w \in (num_wires + 1) .. (num_wires + n)
  BY <1>a, <1>c DEF TypeOK, Wire
<1>e. Elems(g.outs) = (num_wires + 1) .. (num_wires + n)
  <2>1. Elems(g.outs) \subseteq (num_wires + 1) .. (num_wires + n)
    BY <1>d DEF Elems
  <2>2. ASSUME NEW w \in (num_wires + 1) .. (num_wires + n) PROVE w \in Elems(g.outs)
    <3>1. w - num_wires \in 1 .. n /\ g.outs[w - num_wires] = w
      BY <1>d
    <3>. QED  BY <3>1 DEF Elems
  <2>. QED  BY <2>1, <2>2
<1>f. /\ Len(gates) \in Nat /\ DOMAIN gates = 1 .. Len(gates)
      /\ DOMAIN gates' = 1 .. (Len(gates) + 1)
      /\ \A i \in DOMAIN gates : gates'[i] = gates[i]
      /\ gates'[Len(gates) + 1] = g
      /\ Len(gates') = Len(gates) + 1
  <2> HIDE DEF g
  <2>1. Len(gates) \in Nat /\ DOMAIN gates = 1 .. Len(gates)  BY <1>d
  <2>2. Len(Append(gates, g)) = Len(gates) + 1 /\ Append(gates, g) \in Seq(Gate \cup {g})
    <3>1. gates \in Seq(Gate \cup {g})  BY <1>d
    <3>. QED  BY <3>1
  <2>3. \A i \in 1 .. Len(gates) : Append(gates, g)[i] = gates[i]  BY <1>d
  <2>4. Append(gates, g)[Len(gates) + 1] = g  BY <1>d
  <2>. QED  BY <1>a, <2>1, <2>2, <2>3, <2>4
<1>g. Reads(g) \subseteq Wire
  BY DEF Reads, Elems
<1>h. g.gid = Len(gates) + 1 /\ g.type = t /\ (t \in InputGate => Reads(g) = {})
  BY DEF Reads, Elems
<1>1. TypeOK'
  <2>1. \A i \in DOMAIN gates' : gates'[i] \in Gate'
    <3>1. ASSUME NEW i \in DOMAIN gates PROVE gates[i] \in Gate'
      <4>1. gates[i] \in Gate  BY <1>d
      <4>2. Seq(Wire) \subseteq Seq(Wire')  BY <1>d
      <4>. QED  BY <4>1, <4>2 DEF Gate
    <3>2. g \in Gate'
      <4>1. g.outs \in Seq(Wire')
        BY <1>a, <1>d DEF Wire
      <4>2. in1 \in Seq(Wire') /\ in2 \in Seq(Wire')
        BY <1>d
      <4>. QED  BY <4>1, <4>2, <1>f DEF Gate
    <3> HIDE DEF g
    <3>. QED  BY <3>1, <3>2, <1>f
  <2>2. gates' \in Seq(Gate')
    <3> HIDE DEF g
    <3>1. gates' \in Seq(Gate \cup {g})  BY <1>a, <1>d
    <3>. QED  BY <3>1, <2>1
  <2>3. outputs' \in Seq([wire : Wire', bin : BOOLEAN])
    <3>1. [wire : Wire, bin : BOOLEAN] \subseteq [wire : Wire', bin : BOOLEAN]  BY <1>d
    <3>2. outputs \in Seq([wire : Wire, bin : BOOLEAN])  BY <1>c DEF TypeOK
    <3>3. ASSUME NEW A, NEW B, A \subseteq B, outputs \in Seq(A) PROVE outputs \in Seq(B)  BY <3>3
    <3> HIDE DEF g
    <3>. QED  BY <3>1, <3>2, <3>3, <1>b
  <2>4. by_level' \in Seq(Seq(Gate'))
    BY <1>b, <1>c DEF TypeOK
  <2>5. num_wires' \in Nat /\ next' \in 1 .. (Len(gates') + 1)
    BY <1>a, <1>b, <1>c, <1>d, <1>f DEF TypeOK
  <2>. QED  BY <2>2, <2>3, <2>4, <2>5, <1>b, <1>c DEF TypeOK
<1>2. Sourced'
  <2> SUFFICES ASSUME NEW i \in DOMAIN gates'
               PROVE  /\ gates'[i].gid = i
                      /\ gates'[i].type \in InputGate => Reads(gates'[i]) = {}
                      /\ \A w \in Reads(gates'[i]) : \E j \in 1 .. (i - 1) : Writes(gates'[j], w)
    BY DEF Sourced, Reads, Writes
  <2> HIDE DEF g
  <2>1. CASE i \in DOMAIN gates
    <3>1. \A j \in 1 .. (i - 1) : gates'[j] = gates[j]  BY <2>1, <1>f
    <3>. QED  BY <2>1, <3>1, <1>c, <1>f DEF Sourced
  <2>2. CASE i = Len(gates) + 1
    <3> SUFFICES ASSUME NEW w \in Reads(g)
                 PROVE  \E j \in 1 .. (i - 1) : Writes(gates'[j], w)
      BY <2>2, <1>f, <1>h
    <3>1. PICK j \in DOMAIN gates : Writes(gates[j], w)
      BY <1>g, <1>c DEF SoleWriter
    <3>. QED  BY <3>1, <1>f, <2>2
  <2>. QED  BY <2>1, <2>2, <1>f
<1>3. SoleWriter'
  <2> HIDE DEF g
  <2> SUFFICES ASSUME NEW w \in Wire'
               PROVE  \E i \in DOMAIN gates' : /\ Writes(gates'[i], w)
                                               /\ \A j \in DOMAIN gates' : Writes(gates'[j], w) => j = i
    BY DEF SoleWriter, Writes
  <2>1. Writes(g, w) <=> w \notin Wire
    BY <1>d, <1>e DEF Writes, Wire
  <2>2. CASE w \in Wire
    <3>1. PICK i \in DOMAIN gates : /\ Writes(gates[i], w)
                                    /\ \A j \in DOMAIN gates : Writes(gates[j], w) => j = i
      BY <2>2, <1>c DEF SoleWriter
    <3>2. i \in DOMAIN gates' /\ Writes(gates'[i], w)
      BY <3>1, <1>f
    <3>3. ASSUME NEW j \in DOMAIN gates', Writes(gates'[j], w) PROVE j = i
      <4>1. j \in DOMAIN gates \/ j = Len(gates) + 1  BY <1>f
      <4>2. j # Len(gates) + 1  BY <2>1, <2>2, <3>3, <1>f
      <4>. QED  BY <4>1, <4>2, <3>1, <3>3, <1>f
    <3>. QED  BY <3>2, <3>3
  <2>3. CASE w \notin Wire
    <3>1. Len(gates) + 1 \in DOMAIN gates' /\ Writes(gates'[Len(gates) + 1], w)
      BY <2>1, <2>3, <1>f
    <3>2. ASSUME NEW j \in DOMAIN gates', Writes(gates'[j], w) PROVE j = Len(gates) + 1
      <4>1. j \in DOMAIN gates \/ j = Len(gates) + 1  BY <1>f
      <4>2. j \notin DOMAIN gates
        BY <2>3, <3>2, <1>c, <1>f, GateWires
      <4>. QED  BY <4>1, <4>2
    <3>. QED  BY <3>1, <3>2
  <2>. QED  BY <2>2, <2>3
<1>4. LevelsRespected' /\ Placed'
  BY <1>b DEF LevelsRespected, Placed
<1>. QED  BY <1>1, <1>2, <1>3, <1>4 DEF IInv

LEMMA BuildKeeps == ASSUME IInv, Build PROVE IInv'
<1>a. pc = "build" /\ Kinds \subseteq AllKinds
  BY KindsAssumption DEF Build
<1>b. ASSUME NEW n \in Nat, NEW in \in Vec(n) PROVE in \in Seq(Wire) /\ Len(in) = n
  BY <1>b DEF Vec
<1>c. ASSUME NEW in \in AnyVec PROVE in \in Seq(Wire) /\ Len(in) \in Nat
  <2>1. PICK n \in 0 .. MaxLen : in \in Vec(n)  BY <1>c DEF AnyVec
  <2>. QED  BY <2>1, <1>b, BoundsAssumption
<1>d. ASSUME NEW t \in AllKinds, NEW in1 \in Seq(Wire), NEW in2 \in Seq(Wire),
             NEW n \in Nat, t \in InputGate => in1 = <<>> /\ in2 = <<>>,
             AddGate(t, in1, in2, n)
      PROVE  IInv'
  BY <1>a, <1>d, AddGateKeeps
<1>f. /\ "Inp" \in InputGate /\ "BinInp" \in InputGate
      /\ (Unary \cup Binary \cup ConstOps \cup DotProds \cup Vector \cup Pairwise
            \cup {"Mul3", "Mul4", "EqualsZero", "Compose"}) \cap InputGate = {}
  BY DEF InputGate, Unary, Binary, ConstOps, DotProds, Vector, Pairwise
<1>e. << >> \in Seq(Wire) /\ 1 \in Nat /\ 3 \in Nat /\ 4 \in Nat
  OBVIOUS
<1>g. SomeVec \subseteq AnyVec  BY DEF SomeVec
<1>1. CASE NewInputWire
  BY <1>1, <1>a, <1>d, <1>e, <1>f DEF NewInputWire
<1>2. CASE NewBinInputWire
  BY <1>2, <1>a, <1>d, <1>e, <1>f DEF NewBinInputWire
<1>3. CASE AddFIn1
  <2>1. PICK t \in Unary \cap Kinds, a \in Wire : AddGate(t, <<a>>, <<>>, 1)  BY <1>3 DEF AddFIn1
  <2>2. <<a>> \in Seq(Wire)  OBVIOUS
  <2>. QED  BY <2>1, <2>2, <1>a, <1>d, <1>e, <1>f
<1>4. CASE AddFIn2
  <2>1. PICK t \in Binary \cap Kinds, a \in Wire, b \in Wire : AddGate(t, <<a>>, <<b>>, 1)
    BY <1>4 DEF AddFIn2
  <2>2. <<a>> \in Seq(Wire) /\ <<b>> \in Seq(Wire)  OBVIOUS
  <2>. QED  BY <2>1, <2>2, <1>a, <1>d, <1>e, <1>f
<1>5. CASE AddFIn3
  <2>1. PICK in \in Vec(3) : AddGate("Mul3", in, <<>>, 1)  BY <1>5 DEF AddFIn3
  <2>. QED  BY <2>1, <1>5, <1>a, <1>b, <1>d, <1>e, <1>f DEF AddFIn3
<1>6. CASE AddFIn4
  <2>1. PICK in \in Vec(4) : AddGate("Mul4", in, <<>>, 1)  BY <1>6 DEF AddFIn4
  <2>. QED  BY <2>1, <1>6, <1>a, <1>b, <1>d, <1>e, <1>f DEF AddFIn4
<1>7. CASE AddConstOpGate
  <2>1. PICK t \in ConstOps \cap Kinds, a \in Wire : AddGate(t, <<a>>, <<>>, 1)
    BY <1>7 DEF AddConstOpGate
  <2>2. <<a>> \in Seq(Wire)  OBVIOUS
  <2>. QED  BY <2>1, <2>2, <1>a, <1>d, <1>e, <1>f
<1>8. CASE AddParamGate
  <2>1. PICK a \in Wire : AddGate("EqualsZero", <<a>>, <<>>, 1)  BY <1>8 DEF AddParamGate
  <2>2. <<a>> \in Seq(Wire)  OBVIOUS
  <2>. QED  BY <2>1, <2>2, <1>8, <1>a, <1>d, <1>e, <1>f DEF AddParamGate
<1>9. CASE AddSIMD
  <2>1. PICK t \in DotProds \cap Kinds, in1 \in AnyVec : \E in2 \in Vec(Len(in1)) :
               AddGate(t, in1, in2, 1)
    BY <1>9 DEF AddSIMD
  <2>2. PICK in2 \in Vec(Len(in1)) : AddGate(t, in1, in2, 1)  BY <2>1
  <2>. QED  BY <2>2, <1>a, <1>b, <1>c, <1>d, <1>e, <1>f
<1>10. CASE AddMGate
  <2>1. PICK t \in Vector \cap Kinds, in \in AnyVec : AddGate(t, in, <<>>, Len(in))
    BY <1>10, <1>g DEF AddMGate
  <2>. QED  BY <2>1, <1>a, <1>c, <1>d, <1>e, <1>f
<1>11. CASE AddMSingleOutGate
  <2>1. PICK in \in AnyVec : AddGate("Compose", in, <<>>, 1)  BY <1>11 DEF AddMSingleOutGate
  <2>. QED  BY <2>1, <1>11, <1>a, <1>c, <1>d, <1>e, <1>f DEF AddMSingleOutGate
<1>12. CASE AddMDoubleInGate
  <2>1. PICK t \in Pairwise \cap Kinds, in1 \in AnyVec : \E in2 \in Vec(Len(in1)) :
               AddGate(t, in1, in2, Len(in1))
    BY <1>12, <1>g DEF AddMDoubleInGate
  <2>2. PICK in2 \in Vec(Len(in1)) : AddGate(t, in1, in2, Len(in1))  BY <2>1
  <2>. QED  BY <2>2, <1>a, <1>b, <1>c, <1>d, <1>f
<1>13. CASE AddEmpty
  <2>1. pc' = "crashed" /\ by_level = <<>>
    BY <1>13, <1>a DEF AddEmpty, IInv, TypeOK
  <2>2. UNCHANGED <<gates, num_wires, outputs, next, gate_level, wire_level, depth, by_level>>
    BY <1>13 DEF AddEmpty, built
  <2>3. Wire' = Wire /\ Gate' = Gate  BY <2>2 DEF Wire, Gate
  <2>4. TypeOK'
    BY <2>1, <2>2, <2>3 DEF IInv, TypeOK
  <2>5. Sourced' /\ SoleWriter'
    BY <2>2 DEF IInv, Sourced, SoleWriter, Wire, Reads, Writes
  <2>6. LevelsRespected' /\ Placed'
    BY <2>1 DEF LevelsRespected, Placed
  <2>. QED  BY <2>4, <2>5, <2>6 DEF IInv
<1>. QED
  BY <1>1, <1>2, <1>3, <1>4, <1>5, <1>6, <1>7, <1>8, <1>9, <1>10, <1>11, <1>12, <1>13 DEF Build

LEMMA SetAsOutputKeeps == ASSUME IInv, SetAsOutput PROVE IInv'
<1>1. PICK w \in Wire, bin \in BOOLEAN : outputs' = Append(outputs, [wire |-> w, bin |-> bin])
  BY DEF SetAsOutput
<1>2. UNCHANGED <<gates, num_wires, pc, next, gate_level, wire_level, depth, by_level>>
  BY DEF SetAsOutput
<1>3. TypeOK'
  <2>1. outputs' \in Seq([wire : Wire, bin : BOOLEAN])
    BY <1>1 DEF IInv, TypeOK
  <2>2. Wire' = Wire /\ Gate' = Gate  BY <1>2 DEF Wire, Gate
  <2>. QED  BY <2>1, <2>2, <1>2 DEF IInv, TypeOK
<1>4. Sourced'
  BY <1>2 DEF IInv, Sourced, Reads, Writes
<1>5. SoleWriter'
  BY <1>2 DEF IInv, SoleWriter, Wire, Writes
<1>6. LevelsRespected' /\ Placed'
  BY <1>2 DEF SetAsOutput, LevelsRespected, Placed
<1>. QED  BY <1>3, <1>4, <1>5, <1>6 DEF IInv
-----------------------------------------------------------------------------
(* What the circuit itself satisfies does not change while it is ordered.  *)
LEMMA OrderingKeepsCircuit ==
  ASSUME IInv, UNCHANGED built
  PROVE  /\ Sourced' /\ SoleWriter'
         /\ Wire' = Wire /\ Gate' = Gate /\ DOMAIN gates' = DOMAIN gates
         /\ gates' \in Seq(Gate) /\ num_wires' \in Nat
         /\ outputs' \in Seq([wire : Wire, bin : BOOLEAN])
<1>1. Sourced'
  BY DEF IInv, Sourced, built, Reads, Writes
<1>2. SoleWriter'
  BY DEF IInv, SoleWriter, Wire, built, Writes
<1>3. Wire' = Wire /\ Gate' = Gate
  BY DEF Wire, Gate, built
<1>. QED  BY <1>1, <1>2, <1>3 DEF IInv, TypeOK, built

(* No kind is both a gate with a level and an input or unsupported one.    *)
LEMMA KindsApart ==
  /\ (Deepening \cup Inheriting) \cap InputGate = {}
  /\ Interactive \subseteq Deepening
BY DEF Deepening, Inheriting, InputGate, Interactive, LocalGate, MultGate, AndGate, ShuffleGate

LEMMA StartOrderingKeeps == ASSUME IInv, StartOrdering PROVE IInv'
<1> USE DEF StartOrdering
<1>1. Sourced' /\ SoleWriter' /\ Wire' = Wire /\ Gate' = Gate
  BY OrderingKeepsCircuit
<1>2. TypeOK'
  BY <1>1, OrderingKeepsCircuit DEF IInv, TypeOK, built
<1>3. LevelsRespected'
  <2>1. \A i \in DOMAIN gates : \A w : Writes(gates[i], w) => w \in Wire
    BY GateWires DEF IInv
  <2>. QED  BY <2>1, <1>1 DEF LevelsRespected, Leveled, built
<1>4. Placed'
  BY DEF Placed
<1>. QED  BY <1>1, <1>2, <1>3, <1>4 DEF IInv

LEMMA SkipInputKeeps == ASSUME IInv, SkipInput PROVE IInv'
<1> USE DEF SkipInput
<1>1. Sourced' /\ SoleWriter' /\ Wire' = Wire /\ Gate' = Gate
  BY OrderingKeepsCircuit
<1>2. next \in Nat /\ Len(gates) \in Nat /\ DOMAIN gates = 1 .. Len(gates) /\ Leveled' = Leveled + 1
  BY DEF IInv, TypeOK, Leveled
<1>3. TypeOK'
  BY <1>1, <1>2, OrderingKeepsCircuit DEF IInv, TypeOK, built
<1>4. Reads(gates[next]) = {}
  BY DEF IInv, Sourced
<1>5. LevelsRespected'
  <2>1. /\ \A w \in Wire : wire_level[w] <= depth
        /\ \A i \in DOMAIN gates :
             /\ gate_level[i] <= depth
             /\ gates[i].type \in InputGate => gate_level[i] = 0
             /\ \A w \in Wire : Writes(gates[i], w) => wire_level[w] = gate_level[i]
             /\ i > Leveled => gate_level[i] = 0
        /\ \A i \in 1 .. Leveled : \A w \in Reads(gates[i]) :
             /\ wire_level[w] <= gate_level[i]
             /\ gates[i].type \in Interactive => wire_level[w] < gate_level[i]
    BY DEF IInv, LevelsRespected
  <2>2. Leveled = next - 1
    BY DEF Leveled
  <2>3. \A i \in 1 .. Leveled' : i \in 1 .. Leveled \/ i = next
    BY <2>2, <1>2
  <2>4. \A i \in DOMAIN gates : i > Leveled' => i > Leveled
    BY <2>2, <1>2
  <2>. QED  BY <2>1, <2>3, <2>4, <1>1, <1>4 DEF LevelsRespected, built, Writes, Reads
<1>6. Placed'
  BY DEF Placed
<1>. QED  BY <1>1, <1>3, <1>5, <1>6 DEF IInv

(* The walk gives a gate its level: gates before it neither write its      *)
(* outputs nor read them.                                                  *)
LEMMA AssignLevelKeeps == ASSUME IInv, AssignLevel PROVE IInv'
<1> DEFINE g == gates[next]
           d == LevelOf(g)
<1>a. /\ pc = "order" /\ pc' = pc /\ next \in DOMAIN gates /\ next' = next + 1
      /\ g.type \in Deepening \cup Inheriting
      /\ gate_level' = [gate_level EXCEPT ![next] = d]
      /\ wire_level' = [w \in Wire |-> IF Writes(g, w) THEN d ELSE wire_level[w]]
      /\ depth' = IF d > depth THEN d ELSE depth
      /\ UNCHANGED <<built, by_level>>
  BY DEF AssignLevel
<1>b. TypeOK /\ Sourced /\ SoleWriter /\ LevelsRespected
  BY DEF IInv
<1>c. /\ depth \in Nat /\ wire_level \in [Wire -> Nat] /\ gate_level \in [DOMAIN gates -> Nat]
      /\ Len(gates) \in Nat /\ DOMAIN gates = 1 .. Len(gates)
      /\ \A w \in Wire : wire_level[w] <= depth
  BY <1>a, <1>b DEF TypeOK, LevelsRespected
<1>d. Reads(g) \subseteq Wire /\ \A i \in DOMAIN gates : \A w : Writes(gates[i], w) => w \in Wire
  BY <1>a, <1>b, GateWires
<1>e. /\ d \in Nat
      /\ \A w \in Reads(g) : wire_level[w] <= d
      /\ g.type \in Deepening => \A w \in Reads(g) : wire_level[w] < d
  <2>1. Deepest(Reads(g)) \in 0 .. depth /\ \A w \in Reads(g) : wire_level[w] <= Deepest(Reads(g))
    BY <1>c, <1>d, DeepestBounds
  <2>. QED  BY <2>1, <1>c, <1>d DEF LevelOf
<1> HIDE DEF d
<1>f. Leveled = next - 1 /\ Leveled' = next /\ next \in Nat
  BY <1>a, <1>c DEF Leveled
<1>1. Sourced' /\ SoleWriter' /\ Wire' = Wire /\ Gate' = Gate /\ gates' = gates
  BY <1>a, OrderingKeepsCircuit DEF built, IInv
<1>2. TypeOK'
  <2>1. gate_level' \in [DOMAIN gates -> Nat] /\ wire_level' \in [Wire -> Nat] /\ depth' \in Nat
    BY <1>a, <1>c, <1>e
  <2>. QED  BY <2>1, <1>1, <1>a, <1>b, <1>c, OrderingKeepsCircuit DEF IInv, TypeOK, built
(* Gates up to this one: what they read is not written by this gate.       *)
<1>g. \A i \in 1 .. next : \A w \in Reads(gates[i]) : ~ Writes(g, w)
  <2> SUFFICES ASSUME NEW i \in 1 .. next, NEW w \in Reads(gates[i]), Writes(g, w) PROVE FALSE
    OBVIOUS
  <2>1. i \in DOMAIN gates  BY <1>a, <1>c
  <2>2. PICK j \in 1 .. (i - 1) : Writes(gates[j], w)  BY <2>1, <1>b DEF Sourced
  <2>3. j \in DOMAIN gates /\ j # next /\ w \in Wire  BY <2>1, <2>2, <1>a, <1>c, <1>d
  <2>. QED  BY <2>2, <2>3, <1>a, <1>b DEF SoleWriter
<1>3. LevelsRespected'
  <2>1. \A w \in Wire : wire_level'[w] <= depth'
    BY <1>a, <1>c, <1>e
  <2>2. ASSUME NEW i \in DOMAIN gates
        PROVE  /\ gate_level'[i] <= depth'
               /\ gates[i].type \in InputGate => gate_level'[i] = 0
               /\ \A w \in Wire : Writes(gates[i], w) => wire_level'[w] = gate_level'[i]
               /\ i > Leveled' => gate_level'[i] = 0
    <3>1. CASE i = next
      <4>1. gate_level'[i] = d  BY <3>1, <1>a, <1>c
      <4>2. g.type \notin InputGate  BY <1>a, KindsApart
      <4>. QED  BY <3>1, <4>1, <4>2, <1>a, <1>c, <1>e, <1>f
    <3>2. CASE i # next
      <4>1. gate_level'[i] = gate_level[i]  BY <3>2, <1>a, <1>c
      <4>2. gate_level[i] <= depth /\ gate_level[i] \in Nat /\ depth <= depth'
        BY <1>a, <1>b, <1>c, <1>e DEF LevelsRespected
      <4>3. depth' \in Nat  BY <1>a, <1>c, <1>e
      <4>4. \A w \in Wire : Writes(gates[i], w) => ~ Writes(g, w)
        BY <3>2, <1>a, <1>b DEF SoleWriter
      <4>5. /\ gates[i].type \in InputGate => gate_level[i] = 0
            /\ \A w \in Wire : Writes(gates[i], w) => wire_level[w] = gate_level[i]
            /\ i > Leveled => gate_level[i] = 0
        BY <1>a, <1>b DEF LevelsRespected
      <4>6. i > Leveled' => i > Leveled  BY <1>c, <1>f
      <4>7. \A w \in Wire : Writes(gates[i], w) => wire_level'[w] = gate_level'[i]
        BY <4>1, <4>4, <4>5, <1>a
      <4>8. gate_level'[i] <= depth'  BY <4>1, <4>2, <4>3, <1>c
      <4>. QED  BY <4>1, <4>5, <4>6, <4>7, <4>8
    <3>. QED  BY <3>1, <3>2
  <2>3. ASSUME NEW i \in 1 .. next, NEW w \in Reads(gates[i])
        PROVE  /\ wire_level'[w] <= gate_level'[i]
               /\ gates[i].type \in Interactive => wire_level'[w] < gate_level'[i]
    <3>1. i \in DOMAIN gates  BY <1>a, <1>c
    <3>2. w \in Wire  BY <3>1, <1>b, GateWires
    <3>3. wire_level'[w] = wire_level[w]  BY <3>2, <1>a, <1>g
    <3>4. CASE i = next
      BY <3>2, <3>3, <3>4, <1>a, <1>c, <1>e, KindsApart
    <3>5. CASE i # next
      <4>1. i \in 1 .. Leveled  BY <3>5, <1>a, <1>c, <1>f
      <4>2. /\ wire_level[w] <= gate_level[i]
            /\ gates[i].type \in Interactive => wire_level[w] < gate_level[i]
        BY <4>1, <1>a, <1>b DEF LevelsRespected
      <4>3. gate_level'[i] = gate_level[i]  BY <3>1, <3>5, <1>a, <1>c
      <4>. QED  BY <3>3, <4>2, <4>3
    <3>. QED  BY <3>4, <3>5
  <2>. QED  BY <2>1, <2>2, <2>3, <1>1, <1>f DEF LevelsRespected, Reads, Writes
<1>4. Placed'
  BY <1>a DEF Placed
<1>. QED  BY <1>1, <1>2, <1>3, <1>4 DEF IInv

LEMMA ThrowKeeps == ASSUME IInv, ThrowUnsupported PROVE IInv'
<1> USE DEF ThrowUnsupported
<1>1. Sourced' /\ SoleWriter' /\ Wire' = Wire /\ Gate' = Gate
  BY OrderingKeepsCircuit
<1>2. TypeOK'
  BY <1>1, OrderingKeepsCircuit DEF IInv, TypeOK, built
<1>3. LevelsRespected' /\ Placed'
  BY DEF LevelsRespected, Placed
<1>. QED  BY <1>1, <1>2, <1>3 DEF IInv

(* From here on the levels are fixed.                                      *)
LEMMA PlacingKeepsLevels ==
  ASSUME IInv, UNCHANGED <<built, gate_level, wire_level, depth>>,
         pc \in {"order", "place"}, pc' \in {"place", "ordered"}, Leveled = Len(gates)
  PROVE  LevelsRespected'
<1>1. /\ \A w \in Wire : wire_level[w] <= depth
      /\ \A i \in DOMAIN gates :
           /\ gate_level[i] <= depth
           /\ gates[i].type \in InputGate => gate_level[i] = 0
           /\ \A w \in Wire : Writes(gates[i], w) => wire_level[w] = gate_level[i]
           /\ i > Leveled => gate_level[i] = 0
      /\ \A i \in 1 .. Leveled : \A w \in Reads(gates[i]) :
           /\ wire_level[w] <= gate_level[i]
           /\ gates[i].type \in Interactive => wire_level[w] < gate_level[i]
  BY DEF IInv, LevelsRespected
<1>2. Leveled' = Leveled /\ Wire' = Wire
  BY DEF Leveled, built, Wire
<1>. QED  BY <1>1, <1>2 DEF LevelsRespected, built, Writes, Reads

LEMMA StartPlacingKeeps == ASSUME IInv, StartPlacing PROVE IInv'
<1> USE DEF StartPlacing
<1>1. Sourced' /\ SoleWriter' /\ Wire' = Wire /\ Gate' = Gate
  BY OrderingKeepsCircuit
<1>2. depth \in Nat /\ Len(gates) \in Nat /\ next \in 1 .. (Len(gates) + 1)
  BY DEF IInv, TypeOK
<1>3. Len(by_level') = depth + 1 /\ DOMAIN by_level' = 1 .. (depth + 1)
      /\ \A l \in 1 .. (depth + 1) : by_level'[l] = << >>
  BY <1>2
<1>4. TypeOK'
  <2>1. by_level' \in Seq(Seq(Gate'))  BY <1>2
  <2>. QED  BY <2>1, <1>1, <1>2, OrderingKeepsCircuit DEF IInv, TypeOK, built
<1>5. LevelsRespected'
  <2>1. Leveled = Len(gates)  BY <1>2 DEF Leveled
  <2>. QED  BY <2>1, PlacingKeepsLevels
<1>6. Placed'
  <2>1. Standing' = 0 /\ 1 .. Standing' = {}  BY DEF Standing
  <2>2. \A l \in DOMAIN by_level' : DOMAIN by_level'[l] = {}  BY <1>3
  <2>. QED  BY <1>3, <2>1, <2>2 DEF Placed
<1>. QED  BY <1>1, <1>4, <1>5, <1>6 DEF IInv

LEMMA PlaceGateKeeps == ASSUME IInv, PlaceGate PROVE IInv'
<1> DEFINE g == gates[next]
           lv == gate_level[next] + 1
<1>a. /\ pc = "place" /\ pc' = pc /\ next \in DOMAIN gates /\ next' = next + 1
      /\ by_level' = [by_level EXCEPT ![lv] = Append(@, g)]
      /\ UNCHANGED <<built, gate_level, wire_level, depth>>
  BY DEF PlaceGate
<1>b. TypeOK /\ Sourced /\ Placed
  BY DEF IInv
<1>c. /\ depth \in Nat /\ gate_level \in [DOMAIN gates -> Nat] /\ by_level \in Seq(Seq(Gate))
      /\ Len(gates) \in Nat /\ DOMAIN gates = 1 .. Len(gates) /\ next \in Nat
      /\ g \in Gate /\ g.gid = next
  BY <1>a, <1>b DEF TypeOK, Sourced
<1>d. Len(by_level) = depth + 1 /\ DOMAIN by_level = 1 .. (depth + 1) /\ lv \in DOMAIN by_level
  <2>1. gate_level[next] <= depth  BY <1>a DEF IInv, LevelsRespected
  <2>2. Len(by_level) = depth + 1 BY <1>a, <1>b DEF Placed
  <2>. QED  BY <2>1, <2>2, <1>a, <1>c
<1>e. Standing = next - 1 /\ Standing' = next
  BY <1>a, <1>c DEF Standing
<1> HIDE DEF g, lv
<1>f. /\ DOMAIN by_level' = DOMAIN by_level
      /\ \A l \in DOMAIN by_level : l # lv => by_level'[l] = by_level[l]
      /\ by_level[lv] \in Seq(Gate)
      /\ by_level'[lv] = Append(by_level[lv], g)
  BY <1>a, <1>c, <1>d
<1>g. /\ Len(by_level[lv]) \in Nat /\ DOMAIN by_level[lv] = 1 .. Len(by_level[lv])
      /\ DOMAIN by_level'[lv] = 1 .. (Len(by_level[lv]) + 1)
      /\ \A k \in DOMAIN by_level[lv] : by_level'[lv][k] = by_level[lv][k]
      /\ by_level'[lv][Len(by_level[lv]) + 1] = g
  <2> DEFINE s == by_level[lv]
  <2>1. g \in Gate /\ s \in Seq(Gate)  BY <1>c, <1>f
  <2> HIDE DEF s
  <2>2. /\ Len(s) \in Nat /\ DOMAIN s = 1 .. Len(s)
        /\ DOMAIN Append(s, g) = 1 .. (Len(s) + 1)
        /\ \A k \in DOMAIN s : Append(s, g)[k] = s[k]
        /\ Append(s, g)[Len(s) + 1] = g
    <3>1. Len(s) \in Nat /\ DOMAIN s = 1 .. Len(s)  BY <2>1
    <3>2. DOMAIN Append(s, g) = 1 .. (Len(s) + 1)  BY <2>1
    <3>3. \A k \in DOMAIN s : Append(s, g)[k] = s[k]  BY <2>1
    <3>4. Append(s, g)[Len(s) + 1] = g  BY <2>1
    <3>. QED  BY <3>1, <3>2, <3>3, <3>4
  <2>. QED  BY <2>2, <1>f DEF s
<1>1. Sourced' /\ SoleWriter' /\ Wire' = Wire /\ Gate' = Gate /\ gates' = gates
  BY <1>a, OrderingKeepsCircuit DEF built
<1>2. TypeOK'
  <2>1. by_level' \in Seq(Seq(Gate))
    <3>1. Append(by_level[lv], g) \in Seq(Gate)  BY <1>c, <1>f
    <3>. QED  BY <3>1, <1>a, <1>c, <1>d
  <2>. QED  BY <2>1, <1>1, <1>a, <1>b, <1>c, OrderingKeepsCircuit, SMTT(30), ZenonT(30) DEF IInv, TypeOK, built
<1>3. LevelsRespected'
  <2>1. Leveled = Len(gates)  BY <1>a DEF Leveled
  <2>. QED  BY <2>1, <1>a, PlacingKeepsLevels
<1>4. Placed'
  <2>1. Len(by_level') = depth' + 1
    <3>1. Len(by_level') = Len(by_level)  BY <1>a, <1>c
    <3>. QED  BY <3>1, <1>a, <1>d
  <2>2. ASSUME NEW i \in 1 .. next
        PROVE  \E k \in DOMAIN by_level'[gate_level[i] + 1] :
                 by_level'[gate_level[i] + 1][k] = gates[i]
    <3>1. CASE i = next
      <4>1. gate_level[i] + 1 = lv /\ gates[i] = g  BY <3>1 DEF lv, g
      <4>2. Len(by_level[lv]) + 1 \in DOMAIN by_level'[lv]  BY <1>g
      <4>. QED  BY <4>1, <4>2, <1>g
    <3>2. CASE i # next
      <4>1. PICK k \in DOMAIN by_level[gate_level[i] + 1] :
               by_level[gate_level[i] + 1][k] = gates[i]
        BY <3>2, <1>a, <1>b, <1>c, <1>e, SMTT(30), ZenonT(30) DEF Placed
      <4>2. gate_level[i] + 1 \in DOMAIN by_level
        <5>1. i \in DOMAIN gates  BY <1>a, <1>c
        <5>2. gate_level[i] <= depth  BY <5>1, <1>a DEF IInv, LevelsRespected
        <5>3. gate_level[i] \in Nat  BY <5>1, <1>c
        <5>. QED  BY <5>2, <5>3, <1>c, <1>d, SMTT(30), ZenonT(30)
      <4>. QED  BY <4>1, <4>2, <1>f, <1>g, SMTT(30), ZenonT(30)
    <3>. QED  BY <3>1, <3>2
  <2>3. ASSUME NEW l \in DOMAIN by_level, NEW k \in DOMAIN by_level'[l]
        PROVE  /\ by_level'[l][k].gid \in 1 .. next
               /\ by_level'[l][k] = gates[by_level'[l][k].gid]
               /\ gate_level[by_level'[l][k].gid] + 1 = l
               /\ \A j \in 1 .. (k - 1) : by_level'[l][j].gid < by_level'[l][k].gid
    <3>0. \A m \in DOMAIN by_level : \A h \in DOMAIN by_level[m] :
            /\ by_level[m][h].gid \in 1 .. (next - 1)
            /\ by_level[m][h] = gates[by_level[m][h].gid]
            /\ gate_level[by_level[m][h].gid] + 1 = m
            /\ \A j \in 1 .. (h - 1) : by_level[m][j].gid < by_level[m][h].gid
      BY <1>a, <1>b, <1>e DEF Placed
    <3>1. CASE k \in DOMAIN by_level[l]
      <4>1. by_level'[l][k] = by_level[l][k]  BY <3>1, <1>f, <1>g
      <4>2. by_level[l] \in Seq(Gate)  BY <1>c
      <4>3. \A j \in 1 .. (k - 1) : j \in DOMAIN by_level[l]  BY <3>1, <4>2
      <4>4. \A j \in 1 .. (k - 1) : by_level'[l][j] = by_level[l][j]
        BY <4>3, <1>f, <1>g
      <4>5. by_level[l][k].gid \in 1 .. next  BY <3>0, <3>1, <1>c
      <4>. QED  BY <3>0, <3>1, <4>1, <4>4, <4>5
    <3>2. CASE k \notin DOMAIN by_level[l]
      <4>1. l = lv /\ k = Len(by_level[lv]) + 1
        BY <3>2, <1>f, <1>g
      <4>2. by_level'[l][k] = g  BY <4>1, <1>g
      <4>3. \A j \in 1 .. (k - 1) : by_level'[l][j] = by_level[l][j] /\ j \in DOMAIN by_level[l]
        BY <4>1, <1>f, <1>g
      <4>4. \A j \in 1 .. (k - 1) : by_level'[l][j].gid < next
        BY <3>0, <4>3, <1>c
      <4>5. gate_level[next] + 1 = l /\ gates[next] = g  BY <4>1 DEF lv, g
      <4>6. g.gid = next /\ next \in 1 .. next  BY <1>a, <1>c
      <4>. QED  BY <4>2, <4>4, <4>5, <4>6
    <3>. QED  BY <3>1, <3>2
  <2>4. pc' # "ordered"  BY <1>a
  <2>5. /\ \A i \in 1 .. Standing' : \E k \in DOMAIN by_level'[gate_level'[i] + 1] :
             by_level'[gate_level'[i] + 1][k] = gates'[i]
        /\ \A l \in DOMAIN by_level' : \A k \in DOMAIN by_level'[l] :
             /\ by_level'[l][k].gid \in 1 .. Standing'
             /\ by_level'[l][k] = gates'[by_level'[l][k].gid]
             /\ gate_level'[by_level'[l][k].gid] + 1 = l
             /\ \A j \in 1 .. (k - 1) : by_level'[l][j].gid < by_level'[l][k].gid
    <3>1. gate_level' = gate_level  BY <1>a
    <3>. QED  BY <2>2, <2>3, <3>1, <1>1, <1>e, <1>f
  <2>. QED  BY <2>1, <2>4, <2>5 DEF Placed
<1>. QED  BY <1>1, <1>2, <1>3, <1>4 DEF IInv

LEMMA FinishOrderingKeeps == ASSUME IInv, FinishOrdering PROVE IInv'
<1> USE DEF FinishOrdering
<1>1. Sourced' /\ SoleWriter' /\ Wire' = Wire /\ Gate' = Gate
  BY OrderingKeepsCircuit
<1>2. TypeOK'
  BY <1>1, OrderingKeepsCircuit DEF IInv, TypeOK, built
<1>3. LevelsRespected'
  <2>1. Leveled = Len(gates)  BY DEF Leveled
  <2>. QED  BY <2>1, PlacingKeepsLevels
<1>4. Placed'
  <2>1. next = Len(gates) + 1  BY DEF IInv, TypeOK
  <2>. QED  BY <2>1 DEF IInv, Placed, Standing, built
<1>. QED  BY <1>1, <1>2, <1>3, <1>4 DEF IInv

LEMMA NextIInv == IInv /\ [Next]_vars => IInv'
<1> SUFFICES ASSUME IInv, [Next]_vars PROVE IInv'
  OBVIOUS
<1>1. CASE UNCHANGED vars
  <2>1. TypeOK'
    BY <1>1 DEF vars, IInv, TypeOK, Wire, Gate
  <2>2. Sourced' /\ SoleWriter'
    BY <1>1, OrderingKeepsCircuit DEF vars, built
  <2>3. LevelsRespected'
    BY <1>1 DEF vars, IInv, LevelsRespected, Leveled, Wire, Reads, Writes
  <2>4. Placed'
    BY <1>1 DEF vars, IInv, Placed, Standing
  <2>. QED  BY <2>1, <2>2, <2>3, <2>4 DEF IInv
<1>2. CASE Build             BY <1>2, BuildKeeps
<1>3. CASE SetAsOutput       BY <1>3, SetAsOutputKeeps
<1>4. CASE StartOrdering     BY <1>4, StartOrderingKeeps
<1>5. CASE SkipInput         BY <1>5, SkipInputKeeps
<1>6. CASE AssignLevel       BY <1>6, AssignLevelKeeps
<1>7. CASE ThrowUnsupported  BY <1>7, ThrowKeeps
<1>8. CASE StartPlacing      BY <1>8, StartPlacingKeeps
<1>9. CASE PlaceGate         BY <1>9, PlaceGateKeeps
<1>10. CASE FinishOrdering   BY <1>10, FinishOrderingKeeps
<1>. QED
  BY <1>1, <1>2, <1>3, <1>4, <1>5, <1>6, <1>7, <1>8, <1>9, <1>10 DEF Next, OrderGatesByLevel
-----------------------------------------------------------------------------
(* Where a gate stands once everything is ordered, and that it stands      *)
(* nowhere else.                                                           *)
LEMMA Standings ==
  ASSUME IInv, pc = "ordered"
  PROVE  /\ DOMAIN gates = 1 .. Len(gates) /\ Len(gates) \in Nat
         /\ gate_level \in [DOMAIN gates -> Nat]
         /\ \A i \in DOMAIN gates :
              /\ gate_level[i] + 1 \in DOMAIN by_level
              /\ \E k \in DOMAIN by_level[gate_level[i] + 1] :
                   by_level[gate_level[i] + 1][k] = gates[i]
         /\ \A l \in DOMAIN by_level : \A k \in DOMAIN by_level[l] :
              /\ l \in Nat /\ k \in Nat
              /\ by_level[l][k].gid \in DOMAIN gates
              /\ by_level[l][k] = gates[by_level[l][k].gid]
              /\ gate_level[by_level[l][k].gid] + 1 = l
              /\ \A j \in DOMAIN by_level[l] : j < k <=> by_level[l][j].gid < by_level[l][k].gid
<1>1. /\ gates \in Seq(Gate) /\ by_level \in Seq(Seq(Gate)) /\ depth \in Nat
      /\ gate_level \in [DOMAIN gates -> Nat]
  BY DEF IInv, TypeOK
<1>2. Len(gates) \in Nat /\ DOMAIN gates = 1 .. Len(gates)
  BY <1>1
<1>3. next = Len(gates) + 1 /\ Standing = Len(gates) /\ Len(by_level) = depth + 1
  BY <1>2 DEF IInv, Placed, Standing
<1>4. DOMAIN by_level = 1 .. (depth + 1)
  BY <1>1, <1>3
<1>5. ASSUME NEW i \in DOMAIN gates
      PROVE  /\ gate_level[i] + 1 \in DOMAIN by_level
             /\ \E k \in DOMAIN by_level[gate_level[i] + 1] :
                  by_level[gate_level[i] + 1][k] = gates[i]
  <2>1. gate_level[i] <= depth /\ gate_level[i] \in Nat  BY <1>1 DEF IInv, LevelsRespected
  <2>2. gate_level[i] + 1 \in DOMAIN by_level  BY <2>1, <1>1, <1>4
  <2>. QED  BY <2>2, <1>2, <1>3 DEF IInv, Placed
<1>6. ASSUME NEW l \in DOMAIN by_level, NEW k \in DOMAIN by_level[l]
      PROVE  /\ l \in Nat /\ k \in Nat
             /\ by_level[l][k].gid \in DOMAIN gates
             /\ by_level[l][k] = gates[by_level[l][k].gid]
             /\ gate_level[by_level[l][k].gid] + 1 = l
             /\ \A j \in DOMAIN by_level[l] : j < k <=> by_level[l][j].gid < by_level[l][k].gid
  <2>0. by_level[l] \in Seq(Gate)  BY <1>1
  <2>1. \A m \in DOMAIN by_level[l] :
           /\ by_level[l][m].gid \in 1 .. Len(gates)
           /\ by_level[l][m] = gates[by_level[l][m].gid]
           /\ gate_level[by_level[l][m].gid] + 1 = l
           /\ \A j \in 1 .. (m - 1) : by_level[l][j].gid < by_level[l][m].gid
    BY <1>3 DEF IInv, Placed
  <2>2. l \in Nat /\ DOMAIN by_level[l] = 1 .. Len(by_level[l]) /\ Len(by_level[l]) \in Nat
    BY <1>1, <1>4, <2>0
  <2>3. ASSUME NEW j \in DOMAIN by_level[l]
        PROVE  j < k <=> by_level[l][j].gid < by_level[l][k].gid
    <3>1. by_level[l][j].gid \in Nat /\ by_level[l][k].gid \in Nat  BY <2>1, <1>2
    <3>2. CASE j < k
      <4>1. j \in 1 .. (k - 1)  BY <3>2, <2>2
      <4>. QED  BY <4>1, <2>1, <3>2
    <3>3. CASE j = k
      BY <3>1, <3>3, <2>2
    <3>4. CASE k < j
      <4>1. k \in 1 .. (j - 1)  BY <3>4, <2>2
      <4>2. by_level[l][k].gid < by_level[l][j].gid  BY <4>1, <2>1
      <4>. QED  BY <4>2, <3>1, <3>4, <2>2
    <3>. QED  BY <3>2, <3>3, <3>4, <2>2
  <2>. QED  BY <2>1, <2>2, <2>3, <1>2
<1>. QED  BY <1>1, <1>2, <1>5, <1>6

(* Two places that hold gates with the same gid are one place.             *)
LEMMA OnePlace ==
  ASSUME IInv, pc = "ordered",
         NEW l \in DOMAIN by_level, NEW k \in DOMAIN by_level[l],
         NEW i \in DOMAIN by_level, NEW j \in DOMAIN by_level[i],
         by_level[i][j].gid = by_level[l][k].gid
  PROVE  i = l /\ j = k
<1>1. i = l
  BY Standings
<1>2. j \in Nat /\ k \in Nat /\ by_level[l][k].gid \in Nat
  <2>1. by_level[l][k].gid \in 1 .. Len(gates) /\ j \in Nat /\ k \in Nat  BY Standings
  <2>. QED  BY <2>1
<1>3. /\ j < k <=> by_level[l][j].gid < by_level[l][k].gid
      /\ k < j <=> by_level[l][k].gid < by_level[l][j].gid
  BY <1>1, Standings
<1>. QED  BY <1>1, <1>2, <1>3

LEMMA InOrderOneProducer ==
  ASSUME IInv, pc = "ordered"
  PROVE  InOrder(by_level) /\ OneProducer(by_level, num_wires)
<1>a. TypeOK /\ Sourced /\ SoleWriter /\ LevelsRespected
  BY DEF IInv
<1>1. ASSUME NEW l \in DOMAIN by_level, NEW k \in DOMAIN by_level[l]
      PROVE  /\ by_level[l][k].type \in InputGate => l = 1
             /\ \A w \in Reads(by_level[l][k]) :
                  \/ \E i \in 1 .. (l - 1) : \E j \in DOMAIN by_level[i] : Writes(by_level[i][j], w)
                  \/ /\ by_level[l][k].type \notin Interactive
                     /\ \E m \in 1 .. (k - 1) : Writes(by_level[l][m], w)
  <2> DEFINE i == by_level[l][k].gid
  <2>1. /\ i \in DOMAIN gates /\ by_level[l][k] = gates[i] /\ gate_level[i] + 1 = l
        /\ l \in Nat /\ k \in Nat /\ gate_level[i] \in Nat /\ i \in Nat
    BY Standings
  <2> HIDE DEF i
  <2>2. gates[i].type \in InputGate => l = 1
    BY <2>1, <1>a DEF LevelsRespected
  <2>3. ASSUME NEW w \in Reads(gates[i])
        PROVE  \/ \E m \in 1 .. (l - 1) : \E j \in DOMAIN by_level[m] : Writes(by_level[m][j], w)
               \/ /\ gates[i].type \notin Interactive
                  /\ \E m \in 1 .. (k - 1) : Writes(by_level[l][m], w)
    <3>1. PICK h \in 1 .. (i - 1) : Writes(gates[h], w)
      BY <2>1, <1>a DEF Sourced
    <3>2. h \in DOMAIN gates /\ h \in Nat /\ h < i /\ w \in Wire
      <4>1. h \in DOMAIN gates  BY <2>1, Standings
      <4>2. w \in Wire  BY <2>1, <1>a, GateWires
      <4>. QED  BY <4>1, <4>2, <2>1
    <3>3. wire_level[w] = gate_level[h]
      BY <3>1, <3>2, <1>a DEF LevelsRespected
    <3>4. /\ gate_level[h] <= gate_level[i]
          /\ gates[i].type \in Interactive => gate_level[h] < gate_level[i]
      <4>1. i \in 1 .. Leveled  BY <2>1, Standings DEF Leveled
      <4>. QED  BY <4>1, <3>3, <1>a DEF LevelsRespected
    <3>5. gate_level[h] \in Nat /\ gate_level[h] + 1 \in DOMAIN by_level
      BY <3>2, Standings
    <3>6. PICK m \in DOMAIN by_level[gate_level[h] + 1] :
             by_level[gate_level[h] + 1][m] = gates[h]
      BY <3>2, Standings
    <3>7. CASE gate_level[h] < gate_level[i]
      <4>1. gate_level[h] + 1 \in 1 .. (l - 1)  BY <3>5, <3>7, <2>1
      <4>. QED  BY <4>1, <3>1, <3>6
    <3>8. CASE gate_level[h] = gate_level[i]
      <4>1. m \in DOMAIN by_level[l] /\ by_level[l][m] = gates[h]  BY <3>6, <3>8, <2>1
      <4>2. gates[h].gid = h /\ gates[i].gid = i  BY <3>2, <2>1, <1>a DEF Sourced
      <4>3. by_level[l][m].gid < by_level[l][k].gid  BY <4>1, <4>2, <3>2, <2>1
      <4>4. m < k  BY <4>1, <4>3, Standings
      <4>5. m \in 1 .. (k - 1)
        <5>1. by_level[l] \in Seq(Gate)  BY <1>a DEF TypeOK
        <5>. QED  BY <5>1, <4>1, <4>4, <2>1
      <4>6. gates[i].type \notin Interactive  BY <3>4, <3>5, <3>8
      <4>. QED  BY <4>1, <4>5, <4>6, <3>1
    <3>. QED  BY <3>4, <3>5, <3>7, <3>8, <2>1
  <2>. QED  BY <2>1, <2>2, <2>3
<1>2. InOrder(by_level)
  BY <1>1 DEF InOrder
<1>3. ASSUME NEW w \in 1 .. num_wires
      PROVE  \E l \in DOMAIN by_level : \E k \in DOMAIN by_level[l] :
               /\ Writes(by_level[l][k], w)
               /\ \A i \in DOMAIN by_level : \A j \in DOMAIN by_level[i] :
                    Writes(by_level[i][j], w) => i = l /\ j = k
  <2>1. PICK g \in DOMAIN gates : /\ Writes(gates[g], w)
                                  /\ \A j \in DOMAIN gates : Writes(gates[j], w) => j = g
    BY <1>a DEF SoleWriter, Wire
  <2>2. gate_level[g] + 1 \in DOMAIN by_level
    BY <2>1, Standings
  <2>3. PICK k \in DOMAIN by_level[gate_level[g] + 1] : by_level[gate_level[g] + 1][k] = gates[g]
    BY <2>1, Standings
  <2>4. gates[g].gid = g
    BY <2>1, <1>a DEF Sourced
  <2>5. ASSUME NEW i \in DOMAIN by_level, NEW j \in DOMAIN by_level[i], Writes(by_level[i][j], w)
        PROVE  i = gate_level[g] + 1 /\ j = k
    <3>1. by_level[i][j].gid \in DOMAIN gates /\ by_level[i][j] = gates[by_level[i][j].gid]
      BY Standings
    <3>2. by_level[i][j].gid = g  BY <3>1, <2>1, <2>5
    <3>. QED  BY <3>2, <2>2, <2>3, <2>4, OnePlace
  <2>. QED  BY <2>1, <2>2, <2>3, <2>5
<1>4. OneProducer(by_level, num_wires)
  BY <1>3 DEF OneProducer
<1>. QED  BY <1>2, <1>4

LEMMA IInvKeepsEvery == IInv => KeepsEveryGate
<1> SUFFICES ASSUME IInv, pc = "ordered"
             PROVE  /\ \A i \in DOMAIN gates :
                         \E l \in DOMAIN by_level : \E k \in DOMAIN by_level[l] :
                           by_level[l][k] = gates[i]
                    /\ \A l \in DOMAIN by_level : \A k \in DOMAIN by_level[l] :
                         /\ \E i \in DOMAIN gates : by_level[l][k] = gates[i]
                         /\ \A m \in DOMAIN by_level : \A j \in DOMAIN by_level[m] :
                              by_level[m][j] = by_level[l][k] => m = l /\ j = k
                         /\ \A j \in 1 .. (k - 1) : by_level[l][j].gid < by_level[l][k].gid
  BY DEF KeepsEveryGate
<1>1. ASSUME NEW i \in DOMAIN gates
      PROVE  \E l \in DOMAIN by_level : \E k \in DOMAIN by_level[l] : by_level[l][k] = gates[i]
  BY Standings
<1>2. ASSUME NEW l \in DOMAIN by_level, NEW k \in DOMAIN by_level[l]
      PROVE  /\ \E i \in DOMAIN gates : by_level[l][k] = gates[i]
             /\ \A m \in DOMAIN by_level : \A j \in DOMAIN by_level[m] :
                  by_level[m][j] = by_level[l][k] => m = l /\ j = k
             /\ \A j \in 1 .. (k - 1) : by_level[l][j].gid < by_level[l][k].gid
  <2>1. \E i \in DOMAIN gates : by_level[l][k] = gates[i]
    BY Standings
  <2>2. \A m \in DOMAIN by_level : \A j \in DOMAIN by_level[m] :
          by_level[m][j] = by_level[l][k] => m = l /\ j = k
    BY OnePlace
  <2>3. \A j \in 1 .. (k - 1) : by_level[l][j].gid < by_level[l][k].gid
    BY DEF IInv, Placed
  <2>. QED  BY <2>1, <2>2, <2>3
<1>. QED  BY <1>1, <1>2
-----------------------------------------------------------------------------
(* The invariant of building and ordering, for every sequence of calls.    *)
THEOREM InvariantHolds == Spec => []IInv
BY InitIInv, NextIInv, PTL DEF Spec

(* Every wire that a gate, an output or a level names exists.              *)
THEOREM TypeCorrect == Spec => []TypeOK
<1>1. IInv => TypeOK  BY DEF IInv
<1>. QED  BY <1>1, InvariantHolds, PTL

(* Ordering keeps every gate exactly once and in the order of addition.    *)
THEOREM EveryGateOnce == Spec => []KeepsEveryGate
BY IInvKeepsEvery, InvariantHolds, PTL
-----------------------------------------------------------------------------
(* No level without words to open.                                         *)
LEMMA AddGateBusy ==
  ASSUME IInv, Busy, pc = "build", NEW t, NEW in1, NEW in2, NEW n,
         t \in Deepening => in1 # <<>>, AddGate(t, in1, in2, n)
  PROVE  Busy'
<1> DEFINE g == [type |-> t, in1 |-> in1, in2 |-> in2,
                 outs |-> [j \in 1 .. n |-> num_wires + j], gid |-> Len(gates) + 1]
<1>1. gates' = Append(gates, g) /\ pc' = "build"
  BY DEF AddGate
<1>2. gates \in Seq(Gate)
  BY DEF IInv, TypeOK
<1>3. g.type = t /\ g.in1 = in1
  OBVIOUS
<1> HIDE DEF g
<1>4. \A i \in DOMAIN gates' : gates'[i] = g \/ (i \in DOMAIN gates /\ gates'[i] = gates[i])
  BY <1>1, <1>2
<1>5. \A i \in DOMAIN gates' : gates'[i].type \in Deepening => gates'[i].in1 # <<>>
  BY <1>3, <1>4 DEF Busy
<1>. QED  BY <1>1, <1>5 DEF Busy

LEMMA BuildBusy == ASSUME IInv, Busy, Build PROVE Busy'
<1>1. pc = "build"
  BY DEF Build
<1>2. ASSUME NEW t, NEW in1, NEW in2, NEW n, t \in Deepening => in1 # <<>>,
             AddGate(t, in1, in2, n)
      PROVE  Busy'
  BY <1>1, <1>2, AddGateBusy
<1>3. /\ \A t \in {"Inp", "BinInp", "Compose"} \cup ConstOps \cup DotProds : t \notin Deepening
      /\ \A a : <<a>> # <<>>
      /\ \A n \in Nat : \A in \in Vec(n + 1) : in # <<>>
  <2>1. \A n \in Nat : \A in \in Vec(n + 1) : in # <<>>
    <3> TAKE n \in Nat
    <3> TAKE in \in Vec(n + 1)
    <3>1. 1 \in DOMAIN in
      BY DEF Vec
    <3>. QED  BY <3>1
  <2>. QED  BY <2>1 DEF Deepening, Interactive, MultGate, AndGate, ShuffleGate, ConstOps, DotProds
<1>4. CASE NewInputWire \/ NewBinInputWire
  BY <1>4, <1>2, <1>3 DEF NewInputWire, NewBinInputWire
<1>5. CASE AddFIn1
  BY <1>5, <1>2, <1>3 DEF AddFIn1
<1>6. CASE AddFIn2
  BY <1>6, <1>2, <1>3 DEF AddFIn2
<1>7. CASE AddFIn3
  <2>1. PICK in \in Vec(3) : AddGate("Mul3", in, <<>>, 1)
    BY <1>7 DEF AddFIn3
  <2>2. in # <<>>
    BY <1>3
  <2>. QED  BY <2>1, <2>2, <1>2
<1>8. CASE AddFIn4
  <2>1. PICK in \in Vec(4) : AddGate("Mul4", in, <<>>, 1)
    BY <1>8 DEF AddFIn4
  <2>2. in # <<>>
    BY <1>3
  <2>. QED  BY <2>1, <2>2, <1>2
<1>9. CASE AddConstOpGate
  BY <1>9, <1>2, <1>3 DEF AddConstOpGate
<1>10. CASE AddParamGate
  BY <1>10, <1>2, <1>3 DEF AddParamGate
<1>11. CASE AddSIMD
  <2>1. PICK t \in DotProds \cap Kinds, in1 \in AnyVec :
          \E in2 \in Vec(Len(in1)) : AddGate(t, in1, in2, 1)
    BY <1>11 DEF AddSIMD
  <2>2. PICK in2 \in Vec(Len(in1)) : AddGate(t, in1, in2, 1)
    BY <2>1
  <2>. QED  BY <2>2, <1>2, <1>3
<1>12. CASE AddMGate
  BY <1>12, <1>2 DEF AddMGate, SomeVec
<1>13. CASE AddMSingleOutGate
  BY <1>13, <1>2, <1>3 DEF AddMSingleOutGate
<1>14. CASE AddMDoubleInGate
  <2>1. PICK t \in Pairwise \cap Kinds, in1 \in SomeVec :
          \E in2 \in Vec(Len(in1)) : AddGate(t, in1, in2, Len(in1))
    BY <1>14 DEF AddMDoubleInGate
  <2>2. PICK in2 \in Vec(Len(in1)) : AddGate(t, in1, in2, Len(in1))
    BY <2>1
  <2>. QED  BY <2>2, <1>2 DEF SomeVec
<1>15. CASE AddEmpty
  <2>1. pc' = "crashed" /\ gates' = gates
    BY <1>15 DEF AddEmpty, built
  <2>. QED  BY <2>1 DEF Busy
<1>. QED  BY <1>4, <1>5, <1>6, <1>7, <1>8, <1>9, <1>10, <1>11, <1>12, <1>13, <1>14, <1>15 DEF Build

(* A step that gives no gate a level.                                      *)
LEMMA BusySame ==
  ASSUME IInv, Busy, UNCHANGED <<gates, gate_level, depth>>,
         pc' \in {"order", "place", "ordered"} =>
           Leveled' = Leveled /\ pc \in {"order", "place", "ordered"}
  PROVE  Busy'
BY DEF Busy

LEMMA SkipBusy == ASSUME IInv, Busy, SkipInput PROVE Busy'
<1>1. /\ pc = "order" /\ pc' = "order" /\ next' = next + 1 /\ next \in DOMAIN gates
      /\ gates' = gates /\ gate_level' = gate_level /\ depth' = depth
  BY DEF SkipInput, built
<1>2. next \in Nat
  BY <1>1 DEF IInv, TypeOK
<1>3. 1 .. Leveled \subseteq 1 .. Leveled'
  BY <1>1, <1>2 DEF Leveled
<1>. QED  BY <1>1, <1>3 DEF Busy

LEMMA AssignBusy == ASSUME IInv, Busy, AssignLevel PROVE Busy'
<1> DEFINE g == gates[next]
           d == LevelOf(g)
<1>1. /\ pc = "order" /\ pc' = "order" /\ next \in DOMAIN gates /\ next' = next + 1
      /\ gate_level' = [gate_level EXCEPT ![next] = d] /\ gates' = gates
      /\ depth' = IF d > depth THEN d ELSE depth
  BY DEF AssignLevel, built
<1>2. /\ depth \in Nat /\ wire_level \in [Wire -> Nat] /\ gate_level \in [DOMAIN gates -> Nat]
      /\ Len(gates) \in Nat /\ DOMAIN gates = 1 .. Len(gates)
      /\ \A w \in Wire : wire_level[w] <= depth
  <2>1. TypeOK /\ LevelsRespected
    BY DEF IInv
  <2>. QED  BY <1>1, <2>1 DEF TypeOK, LevelsRespected
<1>3. Leveled = next - 1 /\ Leveled' = next /\ next \in Nat
  BY <1>1, <1>2 DEF Leveled
<1>4. d \in Nat /\ (d > depth => d = depth + 1 /\ g.type \in Deepening)
  <2>1. Reads(g) \subseteq Wire
    BY <1>1, GateWires DEF IInv
  <2>2. Deepest(Reads(g)) \in 0 .. depth
    BY <1>2, <2>1, DeepestBounds
  <2>. QED  BY <1>2, <2>2 DEF LevelOf
<1> HIDE DEF d
<1>5. ASSUME NEW e \in 1 .. depth'
      PROVE  \E i \in 1 .. next : gates[i].type \in Deepening /\ gate_level'[i] = e
  <2>1. CASE e \in 1 .. depth
    <3>1. PICK i \in 1 .. Leveled : gates[i].type \in Deepening /\ gate_level[i] = e
      BY <1>1, <2>1 DEF Busy
    <3>2. i \in 1 .. next /\ i # next /\ i \in DOMAIN gates
      BY <1>1, <1>2, <1>3
    <3>. QED  BY <1>1, <1>2, <3>1, <3>2
  <2>2. CASE e \notin 1 .. depth
    <3>1. d > depth /\ e = d
      BY <1>1, <1>2, <1>4, <2>2
    <3>. QED  BY <1>1, <1>2, <1>3, <1>4, <3>1
  <2>. QED  BY <2>1, <2>2
<1>. QED  BY <1>1, <1>3, <1>5 DEF Busy

LEMMA NextBusy == IInv /\ Busy /\ [Next]_vars => Busy'
<1> SUFFICES ASSUME IInv, Busy, [Next]_vars PROVE Busy'
  OBVIOUS
<1>1. CASE UNCHANGED vars
  BY <1>1, BusySame DEF vars, Leveled
<1>2. CASE Build  BY <1>2, BuildBusy
<1>3. CASE SetAsOutput
  BY <1>3, BusySame DEF SetAsOutput
<1>4. CASE StartOrdering
  <2>1. 1 .. depth' = {} /\ gates' = gates
    BY <1>4 DEF StartOrdering, built
  <2>. QED  BY <2>1 DEF Busy
<1>5. CASE SkipInput  BY <1>5, SkipBusy
<1>6. CASE AssignLevel  BY <1>6, AssignBusy
<1>7. CASE ThrowUnsupported
  BY <1>7, BusySame DEF ThrowUnsupported, built
<1>8. CASE StartPlacing
  <2>1. Leveled' = Leveled
    <3>1. next \in 1 .. (Len(gates) + 1) /\ Len(gates) \in Nat
      BY DEF IInv, TypeOK
    <3>2. next - 1 = Len(gates)
      BY <1>8, <3>1 DEF StartPlacing
    <3>. QED  BY <1>8, <3>2 DEF StartPlacing, Leveled, built
  <2>. QED  BY <1>8, <2>1, BusySame DEF StartPlacing, built
<1>9. CASE PlaceGate
  BY <1>9, BusySame DEF PlaceGate, built, Leveled
<1>10. CASE FinishOrdering
  BY <1>10, BusySame DEF FinishOrdering, built, Leveled
<1>. QED  BY <1>1, <1>2, <1>3, <1>4, <1>5, <1>6, <1>7, <1>8, <1>9, <1>10
          DEF Next, OrderGatesByLevel

LEMMA NobodyIdle ==
  ASSUME IInv, Busy, pc = "ordered"
  PROVE  NoIdleLevel(by_level)
<1> SUFFICES ASSUME NEW l \in 2 .. Len(by_level)
             PROVE  \E k \in DOMAIN by_level[l] :
                      /\ by_level[l][k].type \in Interactive \cup {"Mul3", "Mul4"}
                      /\ by_level[l][k].in1 # <<>>
  BY DEF NoIdleLevel
<1>1. Len(by_level) = depth + 1 /\ depth \in Nat /\ Leveled = Len(gates)
  BY DEF IInv, TypeOK, Placed, Leveled
<1>2. l - 1 \in 1 .. depth /\ (l - 1) + 1 = l
  BY <1>1
<1>3. PICK i \in 1 .. Leveled : gates[i].type \in Deepening /\ gate_level[i] = l - 1
  BY <1>2 DEF Busy
<1>4. i \in DOMAIN gates
  BY <1>1, <1>3, Standings
<1>5. PICK k \in DOMAIN by_level[l] : by_level[l][k] = gates[i]
  BY <1>2, <1>3, <1>4, Standings
<1>6. gates[i].in1 # <<>>
  BY <1>3, <1>4 DEF Busy
<1>. QED  BY <1>3, <1>5, <1>6 DEF Deepening

(* Whatever gates a caller adds, in whatever order, the ordered circuit    *)
(* meets what the evaluators rely on.                                      *)
THEOREM Ordered == Spec => []OrderedForEvaluation
<1>1. Init => Busy
  BY DEF Init, Busy
<1>2. IInv /\ Busy => OrderedForEvaluation
  BY InOrderOneProducer, NobodyIdle DEF OrderedForEvaluation
<1>. QED  BY <1>1, <1>2, NextBusy, InvariantHolds, PTL DEF Spec
-----------------------------------------------------------------------------
(* How levels and chains of gates agree.                                   *)
(* A step of the second walk or of the caller leaves the levels alone.     *)
LEMMA ExactSame ==
  ASSUME IInv, Exact, UNCHANGED <<built, gate_level, wire_level>>,
         pc' \in {"order", "place", "ordered"} =>
           Leveled' = Leveled /\ pc \in {"order", "place", "ordered"}
  PROVE  Exact'
BY DEF Exact, Opens, Reads, Elems, built

LEMMA SkipExact == ASSUME IInv, Exact, SkipInput PROVE Exact'
<1>1. /\ pc = "order" /\ pc' = "order" /\ next \in DOMAIN gates /\ next' = next + 1
      /\ gates[next].type \in InputGate /\ gates' = gates
      /\ gate_level' = gate_level /\ wire_level' = wire_level
  BY DEF SkipInput, built
<1>2. TypeOK /\ Sourced /\ LevelsRespected
  BY DEF IInv
<1>3. Leveled = next - 1 /\ Leveled' = next /\ next \in Nat
  BY <1>1, <1>2 DEF Leveled, TypeOK
<1>4. Reads(gates[next]) = {} /\ gate_level[next] = 0
  BY <1>1, <1>2 DEF Sourced, LevelsRespected
<1>5. Opens(next) = 0
  BY <1>1, KindsApart DEF Opens
<1>6. \A i : Opens(i)' = Opens(i)
  BY <1>1 DEF Opens
<1>7. ASSUME NEW i \in 1 .. next
      PROVE  /\ \A w \in Reads(gates[i]) : wire_level[w] + Opens(i) <= gate_level[i]
             /\ \/ gate_level[i] = Opens(i)
                \/ \E w \in Reads(gates[i]) : gate_level[i] = wire_level[w] + Opens(i)
  <2>1. CASE i = next
    BY <1>4, <1>5, <2>1
  <2>2. CASE i # next
    <3>1. i \in 1 .. Leveled
      BY <1>3, <2>2
    <3>. QED  BY <1>1, <3>1 DEF Exact
  <2>. QED  BY <2>1, <2>2
<1>. QED  BY <1>1, <1>3, <1>6, <1>7 DEF Exact, Reads, Elems

LEMMA AssignExact == ASSUME IInv, Exact, AssignLevel PROVE Exact'
<1> DEFINE g == gates[next]
           d == LevelOf(g)
<1>1. /\ pc = "order" /\ pc' = "order" /\ next \in DOMAIN gates /\ next' = next + 1
      /\ gate_level' = [gate_level EXCEPT ![next] = d]
      /\ wire_level' = [w \in Wire |-> IF Writes(g, w) THEN d ELSE wire_level[w]]
      /\ gates' = gates
  BY DEF AssignLevel, built
<1>2. TypeOK /\ Sourced /\ SoleWriter /\ LevelsRespected
  BY DEF IInv
<1>3. /\ depth \in Nat /\ wire_level \in [Wire -> Nat] /\ gate_level \in [DOMAIN gates -> Nat]
      /\ Len(gates) \in Nat /\ DOMAIN gates = 1 .. Len(gates)
      /\ \A w \in Wire : wire_level[w] <= depth
  BY <1>1, <1>2 DEF TypeOK, LevelsRespected
<1>4. Leveled = next - 1 /\ Leveled' = next /\ next \in Nat
  BY <1>1, <1>3 DEF Leveled
<1>5. \A i \in DOMAIN gates : Reads(gates[i]) \subseteq Wire
  BY <1>2, GateWires
<1>6. /\ \A w \in Reads(g) : wire_level[w] + Opens(next) <= d
      /\ d = Opens(next) \/ \E w \in Reads(g) : d = wire_level[w] + Opens(next)
  <2> DEFINE D == Deepest(Reads(g))
  <2>1. /\ D \in 0 .. depth /\ \A w \in Reads(g) : wire_level[w] <= D
        /\ D = 0 \/ \E w \in Reads(g) : D = wire_level[w]
    BY <1>1, <1>3, <1>5, DeepestBounds
  <2>2. d = D + Opens(next) /\ Opens(next) \in {0, 1}
    BY DEF LevelOf, Opens
  <2> HIDE DEF D, d
  <2>3. \A w \in Reads(g) : wire_level[w] \in Nat
    BY <1>1, <1>3, <1>5
  <2>4. D \in Nat
    BY <1>3, <2>1
  <2>. QED  BY <2>1, <2>2, <2>3, <2>4
<1> HIDE DEF d
<1>7. \A i \in 1 .. next : \A w \in Reads(gates[i]) : wire_level'[w] = wire_level[w]
  <2> SUFFICES ASSUME NEW i \in 1 .. next, NEW w \in Reads(gates[i])
               PROVE  wire_level'[w] = wire_level[w]
    OBVIOUS
  <2>1. i \in DOMAIN gates /\ w \in Wire
    BY <1>1, <1>3, <1>5
  <2>2. PICK j \in 1 .. (i - 1) : Writes(gates[j], w)
    BY <2>1, <1>2 DEF Sourced
  <2>3. j \in DOMAIN gates /\ j # next
    BY <2>1, <2>2, <1>1, <1>3
  <2>4. ~ Writes(g, w)
    BY <1>1, <1>2, <2>1, <2>2, <2>3 DEF SoleWriter
  <2>. QED  BY <1>1, <2>1, <2>4
<1>8. \A i : Opens(i)' = Opens(i)
  BY <1>1 DEF Opens
<1>9. ASSUME NEW i \in 1 .. next
      PROVE  /\ \A w \in Reads(gates[i]) : wire_level'[w] + Opens(i) <= gate_level'[i]
             /\ \/ gate_level'[i] = Opens(i)
                \/ \E w \in Reads(gates[i]) : gate_level'[i] = wire_level'[w] + Opens(i)
  <2>1. CASE i = next
    <3>1. gate_level'[i] = d
      BY <1>1, <1>3, <2>1
    <3>. QED  BY <1>6, <1>7, <2>1, <3>1
  <2>2. CASE i # next
    <3>1. i \in 1 .. Leveled /\ i \in DOMAIN gates
      BY <1>1, <1>3, <1>4, <2>2
    <3>2. gate_level'[i] = gate_level[i]
      BY <1>1, <1>3, <2>2, <3>1
    <3>3. /\ \A w \in Reads(gates[i]) : wire_level[w] + Opens(i) <= gate_level[i]
          /\ \/ gate_level[i] = Opens(i)
             \/ \E w \in Reads(gates[i]) : gate_level[i] = wire_level[w] + Opens(i)
      BY <1>1, <3>1 DEF Exact
    <3>. QED  BY <1>7, <3>2, <3>3
  <2>. QED  BY <2>1, <2>2
<1>10. gates' = gates /\ pc' = "order" /\ Leveled' = next
  BY <1>1, <1>4
<1>11. \A i : Reads(gates[i])' = Reads(gates[i])
  BY <1>10 DEF Reads, Elems
<1>. QED  BY <1>8, <1>9, <1>10, <1>11 DEF Exact

LEMMA NextExact == IInv /\ Exact /\ [Next]_vars => Exact'
<1> SUFFICES ASSUME IInv, Exact, [Next]_vars PROVE Exact'
  OBVIOUS
<1>1. CASE UNCHANGED vars
  BY <1>1, ExactSame DEF vars, built, Leveled
<1>2. CASE Build
  <2>1. pc' \in {"build", "crashed"}
    BY <1>2 DEF Build, NewInputWire, NewBinInputWire, AddFIn1, AddFIn2, AddFIn3, AddFIn4,
                AddConstOpGate, AddParamGate, AddSIMD, AddMGate, AddMSingleOutGate,
                AddMDoubleInGate, AddEmpty, AddGate
  <2>. QED  BY <2>1 DEF Exact
<1>3. CASE SetAsOutput
  BY <1>3 DEF SetAsOutput, Exact
<1>4. CASE StartOrdering
  <2>1. 1 .. Leveled' = {}
    BY <1>4 DEF StartOrdering, Leveled
  <2>. QED  BY <2>1 DEF Exact
<1>5. CASE SkipInput  BY <1>5, SkipExact
<1>6. CASE AssignLevel  BY <1>6, AssignExact
<1>7. CASE ThrowUnsupported
  BY <1>7 DEF ThrowUnsupported, Exact
<1>8. CASE StartPlacing
  <2>1. Leveled' = Leveled
    <3>1. next \in 1 .. (Len(gates) + 1) /\ Len(gates) \in Nat
      BY DEF IInv, TypeOK
    <3>2. next - 1 = Len(gates)
      BY <1>8, <3>1 DEF StartPlacing
    <3>. QED  BY <1>8, <3>2 DEF StartPlacing, Leveled, built
  <2>. QED  BY <1>8, <2>1, ExactSame DEF StartPlacing, built
<1>9. CASE PlaceGate
  BY <1>9, ExactSame DEF PlaceGate, built, Leveled
<1>10. CASE FinishOrdering
  BY <1>10, ExactSame DEF FinishOrdering, built, Leveled
<1>. QED  BY <1>1, <1>2, <1>3, <1>4, <1>5, <1>6, <1>7, <1>8, <1>9, <1>10
          DEF Next, OrderGatesByLevel

(* What the levels say of the gates of the ordered circuit.                *)
Follows(i, j) == Reads(gates[i]) \cap Elems(gates[j].outs) # {}

LEMMA GateLevels ==
  ASSUME IInv, Exact, pc = "ordered"
  PROVE  /\ Len(gates) \in Nat
         /\ \A i \in 1 .. Len(gates) :
              /\ gate_level[i] \in Nat /\ Opens(i) \in {0, 1} /\ Opens(i) <= gate_level[i]
              /\ \A j \in 1 .. Len(gates) : Follows(i, j) => gate_level[j] + Opens(i) <= gate_level[i]
              /\ \/ gate_level[i] = Opens(i)
                 \/ \E j \in 1 .. (i - 1) : Follows(i, j) /\ gate_level[i] = gate_level[j] + Opens(i)
<1>1. TypeOK /\ Sourced /\ LevelsRespected
  BY DEF IInv
<1>2. /\ Len(gates) \in Nat /\ DOMAIN gates = 1 .. Len(gates)
      /\ gate_level \in [DOMAIN gates -> Nat] /\ wire_level \in [Wire -> Nat]
  BY <1>1 DEF TypeOK
<1>3. Leveled = Len(gates)
  BY DEF Leveled
<1>4. ASSUME NEW i \in 1 .. Len(gates)
      PROVE  /\ gate_level[i] \in Nat /\ Opens(i) \in {0, 1} /\ Opens(i) <= gate_level[i]
             /\ \A j \in 1 .. Len(gates) : Follows(i, j) => gate_level[j] + Opens(i) <= gate_level[i]
             /\ \/ gate_level[i] = Opens(i)
                \/ \E j \in 1 .. (i - 1) : Follows(i, j) /\ gate_level[i] = gate_level[j] + Opens(i)
  <2>1. gate_level[i] \in Nat /\ Opens(i) \in {0, 1}
    BY <1>2 DEF Opens
  <2>2. /\ \A w \in Reads(gates[i]) : wire_level[w] + Opens(i) <= gate_level[i]
        /\ \/ gate_level[i] = Opens(i)
           \/ \E w \in Reads(gates[i]) : gate_level[i] = wire_level[w] + Opens(i)
    BY <1>3 DEF Exact
  <2>3. Reads(gates[i]) \subseteq Wire
    BY <1>1, <1>2, GateWires
  <2>4. \A j \in 1 .. Len(gates) : \A w \in Wire : Writes(gates[j], w) => wire_level[w] = gate_level[j]
    BY <1>1, <1>2 DEF LevelsRespected
  <2>5. Opens(i) <= gate_level[i]
    <3>1. \A w \in Reads(gates[i]) : wire_level[w] \in Nat
      BY <1>2, <2>3
    <3>. QED  BY <2>1, <2>2, <3>1
  <2>6. ASSUME NEW j \in 1 .. Len(gates), Follows(i, j)
        PROVE  gate_level[j] + Opens(i) <= gate_level[i]
    <3>1. PICK w \in Reads(gates[i]) : w \in Elems(gates[j].outs)
      BY <2>6 DEF Follows
    <3>2. wire_level[w] = gate_level[j]
      BY <2>3, <2>4, <3>1 DEF Writes
    <3>. QED  BY <2>2, <3>2
  <2>7. ASSUME gate_level[i] # Opens(i)
        PROVE  \E j \in 1 .. (i - 1) : Follows(i, j) /\ gate_level[i] = gate_level[j] + Opens(i)
    <3>1. PICK w \in Reads(gates[i]) : gate_level[i] = wire_level[w] + Opens(i)
      BY <2>2, <2>7
    <3>2. PICK j \in 1 .. (i - 1) : Writes(gates[j], w)
      BY <1>1, <1>2 DEF Sourced
    <3>3. j \in 1 .. Len(gates)
      BY <1>2
    <3>4. wire_level[w] = gate_level[j]
      BY <2>3, <2>4, <3>2, <3>3
    <3>. QED  BY <3>1, <3>2, <3>4 DEF Follows, Writes
  <2>. QED  BY <2>1, <2>5, <2>6, <2>7
<1>. QED  BY <1>2, <1>4

(* A chain with its last gate taken off, or with a gate put at its end.    *)
LEMMA ChainShorter ==
  ASSUME NEW i \in Nat, NEW S \in SUBSET (1 .. i), i \in S, Chain(S),
         NEW k \in S, k < i
  PROVE  \E h \in 1 .. (i - 1) :
           /\ Follows(i, h) /\ h \in S
           /\ S \ {i} \in SUBSET (1 .. h) /\ Chain(S \ {i})
<1>1. PICK h \in S : /\ h < i /\ (\A x \in S : ~ (h < x /\ x < i))
                     /\ Reads(gates[i]) \cap Elems(gates[h].outs) # {}
  BY DEF Chain
<1>2. h \in 1 .. (i - 1)
  BY <1>1
<1>3. S \ {i} \in SUBSET (1 .. h)
  <2> SUFFICES ASSUME NEW x \in S \ {i} PROVE x \in 1 .. h
    OBVIOUS
  <2>1. x \in Nat /\ x >= 1 /\ x < i /\ h \in Nat
    BY <1>2
  <2>. QED  BY <1>1, <2>1
<1>4. Chain(S \ {i})
  <2> SUFFICES ASSUME NEW x \in S \ {i}, NEW y \in S \ {i}, y < x
               PROVE  \E z \in S \ {i} : /\ z < x /\ (\A u \in S \ {i} : ~ (z < u /\ u < x))
                                         /\ Reads(gates[x]) \cap Elems(gates[z].outs) # {}
    BY DEF Chain
  <2>1. PICK z \in S : /\ z < x /\ (\A u \in S : ~ (z < u /\ u < x))
                       /\ Reads(gates[x]) \cap Elems(gates[z].outs) # {}
    BY DEF Chain
  <2>2. z # i
    BY <2>1
  <2>. QED  BY <2>1, <2>2
<1>. QED  BY <1>1, <1>2, <1>3, <1>4 DEF Follows

LEMMA ChainLonger ==
  ASSUME NEW i \in Nat, NEW j \in 1 .. (i - 1), NEW S \in SUBSET (1 .. j), j \in S,
         Chain(S), Follows(i, j)
  PROVE  S \cup {i} \in SUBSET (1 .. i) /\ Chain(S \cup {i})
<1>1. S \cup {i} \in SUBSET (1 .. i) /\ \A x \in S : x < i
  OBVIOUS
<1>2. Chain(S \cup {i})
  <2> SUFFICES ASSUME NEW x \in S \cup {i}, NEW y \in S \cup {i}, y < x
               PROVE  \E z \in S \cup {i} :
                        /\ z < x /\ (\A u \in S \cup {i} : ~ (z < u /\ u < x))
                        /\ Reads(gates[x]) \cap Elems(gates[z].outs) # {}
    BY DEF Chain
  <2>1. CASE x = i
    <3>1. \A u \in S \cup {i} : ~ (j < u /\ u < i)
      OBVIOUS
    <3>. QED  BY <2>1, <3>1 DEF Follows
  <2>2. CASE x # i
    <3>1. x \in S /\ y \in S
      BY <1>1, <2>2
    <3>2. PICK z \in S : /\ z < x /\ (\A u \in S : ~ (z < u /\ u < x))
                         /\ Reads(gates[x]) \cap Elems(gates[z].outs) # {}
      BY <3>1 DEF Chain
    <3>3. ~ (z < i /\ i < x)
      BY <1>1, <3>1
    <3>. QED  BY <3>2, <3>3
  <2>. QED  BY <2>1, <2>2
<1>. QED  BY <1>1, <1>2

(* The rounds of a chain with one more gate.                               *)
LEMMA RoundsMore ==
  ASSUME NEW i \in Nat, NEW S \in SUBSET (1 .. i), i \notin S
  PROVE  Rounds(S) \in Nat /\ Rounds(S \cup {i}) = Rounds(S) + Opens(i)
<1> DEFINE T == {x \in S : gates[x].type \in Interactive \cup {"Mul3", "Mul4"}}
           U == {x \in S \cup {i} : gates[x].type \in Interactive \cup {"Mul3", "Mul4"}}
<1>1. IsFiniteSet(1 .. i)
  BY FS_Interval
<1>2. IsFiniteSet(T)
  BY <1>1, FS_Subset
<1>3. /\ Cardinality(T) \in Nat
      /\ Rounds(S) = Cardinality(T) /\ Rounds(S \cup {i}) = Cardinality(U)
  BY <1>2, FS_CardinalityType DEF Rounds
<1>4. CASE gates[i].type \in Deepening
  <2>1. U = T \cup {i} /\ i \notin T
    BY <1>4 DEF Deepening
  <2> HIDE DEF T, U
  <2>2. Cardinality(U) = Cardinality(T) + 1
    BY <1>2, <2>1, FS_AddElement
  <2>3. Opens(i) = 1
    BY <1>4 DEF Opens
  <2>. QED  BY <1>3, <2>2, <2>3
<1>5. CASE gates[i].type \notin Deepening
  <2>1. U = T
    BY <1>5 DEF Deepening
  <2> HIDE DEF T, U
  <2>2. Opens(i) = 0
    BY <1>5 DEF Opens
  <2>. QED  BY <1>3, <2>1, <2>2
<1>. QED  BY <1>4, <1>5

LEMMA RoundsOfNone == Rounds({}) = 0
BY FS_EmptySet DEF Rounds

(* The level of a gate is what the longest chain to it costs.              *)
LEMMA LevelIsLongestChain ==
  ASSUME IInv, Exact, pc = "ordered", NEW i \in 1 .. Len(gates)
  PROVE  /\ \E S \in SUBSET (1 .. i) : i \in S /\ Chain(S) /\ Rounds(S) = gate_level[i]
         /\ \A S \in SUBSET (1 .. i) : i \in S /\ Chain(S) => Rounds(S) <= gate_level[i]
<1> DEFINE P(n) == /\ \E S \in SUBSET (1 .. n) : n \in S /\ Chain(S) /\ Rounds(S) = gate_level[n]
                   /\ \A S \in SUBSET (1 .. n) : n \in S /\ Chain(S) => Rounds(S) <= gate_level[n]
           T == {n \in Nat : \A m \in 1 .. n : m <= Len(gates) => P(m)}
<1>1. Len(gates) \in Nat
  BY GateLevels
<1>2. ASSUME NEW n \in 1 .. Len(gates), \A m \in 1 .. (n - 1) : P(m)
      PROVE  P(n)
  <2>1. /\ n \in Nat /\ gate_level[n] \in Nat /\ Opens(n) \in {0, 1} /\ Opens(n) <= gate_level[n]
        /\ \A j \in 1 .. Len(gates) : Follows(n, j) => gate_level[j] + Opens(n) <= gate_level[n]
        /\ \/ gate_level[n] = Opens(n)
           \/ \E j \in 1 .. (n - 1) : Follows(n, j) /\ gate_level[n] = gate_level[j] + Opens(n)
    BY GateLevels
  <2>2. Rounds({n}) = Opens(n)
    <3>1. {} \in SUBSET (1 .. n) /\ n \notin {} /\ {} \cup {n} = {n}
      OBVIOUS
    <3>2. Rounds({} \cup {n}) = Rounds({}) + Opens(n)
      BY <2>1, <3>1, RoundsMore
    <3>. QED  BY <2>1, <3>1, <3>2, RoundsOfNone
  <2>3. \A j \in 1 .. (n - 1) : j \in 1 .. Len(gates) /\ gate_level[j] \in Nat
    <3>1. \A j \in 1 .. (n - 1) : j \in 1 .. Len(gates)
      BY <1>1
    <3>. QED  BY <3>1, GateLevels
  <2>4. \E S \in SUBSET (1 .. n) : n \in S /\ Chain(S) /\ Rounds(S) = gate_level[n]
    <3>1. CASE gate_level[n] = Opens(n)
      <4>1. {n} \in SUBSET (1 .. n) /\ n \in {n}
        BY <2>1
      <4>2. Chain({n})
        BY <2>1 DEF Chain
      <4>. QED  BY <2>2, <3>1, <4>1, <4>2
    <3>2. ASSUME NEW j \in 1 .. (n - 1), Follows(n, j), gate_level[n] = gate_level[j] + Opens(n)
          PROVE  \E S \in SUBSET (1 .. n) : n \in S /\ Chain(S) /\ Rounds(S) = gate_level[n]
      <4>1. PICK S \in SUBSET (1 .. j) : j \in S /\ Chain(S) /\ Rounds(S) = gate_level[j]
        BY <1>2
      <4>2. S \cup {n} \in SUBSET (1 .. n) /\ Chain(S \cup {n})
        BY <2>1, <3>2, <4>1, ChainLonger
      <4>3. S \in SUBSET (1 .. n) /\ n \notin S
        BY <2>1, <4>1
      <4>4. Rounds(S \cup {n}) = gate_level[n]
        BY <2>1, <3>2, <4>1, <4>3, RoundsMore
      <4>. QED  BY <4>2, <4>4
    <3>. QED  BY <2>1, <3>1, <3>2
  <2>5. ASSUME NEW S \in SUBSET (1 .. n), n \in S, Chain(S)
        PROVE  Rounds(S) <= gate_level[n]
    <3>1. CASE \A k \in S : ~ (k < n)
      <4>0. \A x \in S : x = n
        <5> TAKE x \in S
        <5>1. x \in Nat /\ x <= n /\ ~ (x < n)
          BY <2>1, <3>1
        <5>. QED  BY <2>1, <5>1
      <4>1. S = {n}
        BY <2>5, <4>0
      <4>. QED  BY <2>1, <2>2, <4>1
    <3>2. ASSUME NEW k \in S, k < n PROVE Rounds(S) <= gate_level[n]
      <4>1. PICK h \in 1 .. (n - 1) : /\ Follows(n, h) /\ h \in S
                                      /\ S \ {n} \in SUBSET (1 .. h) /\ Chain(S \ {n})
        BY <2>1, <2>5, <3>2, ChainShorter
      <4> DEFINE R == S \ {n}
      <4>2. h \in R /\ R \in SUBSET (1 .. n) /\ n \notin R /\ R \cup {n} = S
        BY <2>1, <2>5, <4>1
      <4>3. R \in SUBSET (1 .. h) /\ Chain(R)
        BY <4>1
      <4> HIDE DEF R
      <4>4. Rounds(R) <= gate_level[h]
        BY <1>2, <4>2, <4>3
      <4>5. Rounds(R) \in Nat /\ Rounds(R \cup {n}) = Rounds(R) + Opens(n)
        BY <2>1, <4>2, RoundsMore
      <4>6. gate_level[h] + Opens(n) <= gate_level[n] /\ gate_level[h] \in Nat
        BY <2>1, <2>3, <4>1
      <4> DEFINE r == Rounds(R)
                 o == Opens(n)
                 d == gate_level[n]
                 e == gate_level[h]
      <4>7. r \in Nat /\ o \in Nat /\ d \in Nat /\ e \in Nat /\ r <= e /\ e + o <= d
        BY <2>1, <4>4, <4>5, <4>6
      <4>8. Rounds(S) = r + o
        BY <4>2, <4>5
      <4> HIDE DEF r, o, d, e
      <4>9. r + o <= d
        BY <4>7
      <4>. QED  BY <4>8, <4>9 DEF d
    <3>. QED  BY <3>1, <3>2
  <2>. QED  BY <2>4, <2>5
<1> HIDE DEF P
<1>3. T = Nat
  <2>1. T \in SUBSET Nat /\ 0 \in T
    OBVIOUS
  <2>2. ASSUME NEW n \in T PROVE n + 1 \in T
    <3> SUFFICES ASSUME NEW m \in 1 .. (n + 1), m <= Len(gates) PROVE P(m)
      OBVIOUS
    <3>1. CASE m \in 1 .. n
      BY <3>1
    <3>2. CASE m = n + 1
      <4>1. m \in 1 .. Len(gates) /\ m - 1 = n
        BY <1>1, <3>2
      <4>2. \A x \in 1 .. (m - 1) : P(x)
        BY <1>1, <4>1
      <4>. QED  BY <1>2, <4>1, <4>2
    <3>. QED  BY <3>1, <3>2
  <2> HIDE DEF T
  <2>. QED  BY <2>1, <2>2, NatInd
<1>4. P(i)
  <2>1. i \in T /\ i \in 1 .. i /\ i <= Len(gates)
    BY <1>1, <1>3
  <2>. QED  BY <2>1
<1>. QED  BY <1>4 DEF P

(* The levels orderGatesByLevel gives, and with them the rounds of         *)
(* communication of evaluateCircuit, are as few as the circuit's longest   *)
(* chain of interactive gates allows.                                      *)
THEOREM Fewest == Spec => []FewestRounds
<1>1. Init => Exact
  BY DEF Init, Exact
<1>2. IInv /\ Exact => FewestRounds
  <2> SUFFICES ASSUME IInv, Exact, pc = "ordered",
                      NEW l \in DOMAIN by_level, NEW k \in DOMAIN by_level[l]
               PROVE  LET i == by_level[l][k].gid
                          chains == {S \in SUBSET (1 .. i) : i \in S /\ Chain(S)}
                      IN  /\ \E S \in chains : Rounds(S) = l - 1
                          /\ \A S \in chains : Rounds(S) <= l - 1
    BY DEF FewestRounds
  <2> DEFINE i == by_level[l][k].gid
  <2>1. /\ i \in DOMAIN gates /\ l \in Nat /\ gate_level[i] + 1 = l
        /\ DOMAIN gates = 1 .. Len(gates) /\ gate_level \in [DOMAIN gates -> Nat]
    BY Standings
  <2> HIDE DEF i
  <2>2. i \in 1 .. Len(gates) /\ gate_level[i] = l - 1
    BY <2>1
  <2>3. /\ \E S \in SUBSET (1 .. i) : i \in S /\ Chain(S) /\ Rounds(S) = l - 1
        /\ \A S \in SUBSET (1 .. i) : i \in S /\ Chain(S) => Rounds(S) <= l - 1
    BY <2>2, LevelIsLongestChain
  <2>. QED  BY <2>3 DEF i
<1>. QED  BY <1>1, <1>2, NextExact, InvariantHolds, PTL DEF Spec

-----------------------------------------------------------------------------
(***************************************************************************)
(* Proofs about module Evaluate.  The walk over the levels gives every     *)
(* wire the value its gate says, and no later step of the walk changes a   *)
(* value that was read: the order by levels puts the one writer of a wire  *)
(* before its readers (the first part of this module).                          *)
(***************************************************************************)
(* What the builder ensures about the number of wires of a gate.           *)
Known == Arithmetic \cup {"Inp"}
GateShape(g) ==
  /\ Len(g.outs) >= 1
  /\ g.type \in Known => Len(g.outs) = 1
  /\ g.type \in Arithmetic => g.in1 # <<>>
  /\ g.type \in {"Add", "Sub"} => g.in2 # <<>>
Shaped ==
  /\ \A i \in DOMAIN gates : GateShape(gates[i])
  /\ (\A i \in DOMAIN gates : Len(gates[i].outs) = 1) =>
       num_wires = Len(gates) /\ \A i \in DOMAIN gates : gates[i].outs = <<i>>

(* The value gate g gives its wire, for inputs ins, constants cs and the   *)
(* values v of the wires.                                                  *)
Given(g, ins, cs, v) == IF g.type = "Inp" THEN ins[g.outs[1]] ELSE Value(g, cs[g.gid], v)

Started == stage # "idle" =>
  /\ pc = "ordered"
  /\ IsFiniteSet(DOMAIN inputs)
  /\ wires = [w \in 1 .. Len(gates) |-> wires[w]]

(* The gates before at have their values, which fit each other.            *)
Walked == stage \in {"walk", "done"} =>
  /\ Cardinality(DOMAIN inputs) = Cardinality(InputWires)
  /\ at \in 1 .. (Len(Walk) + 1)
  /\ stage = "done" => at = Len(Walk) + 1
  /\ \A j \in 1 .. (at - 1) :
       LET g == Walk[j] IN
       /\ g.type \in Known
       /\ g.type = "Inp" => g.outs[1] \in DOMAIN inputs
       /\ g.outs[1] \in DOMAIN wires
       /\ wires[g.outs[1]] = Given(g, inputs, consts, wires)

Returned == stage = "done" =>
  result = [k \in DOMAIN outputs |-> wires[outputs[k].wire]]

EvalInv == Shaped /\ Started /\ Walked /\ Returned /\ RefusesForCause /\ OutsideOnlyByVectors
-----------------------------------------------------------------------------
(* The walk over levels in order meets every gate, and after the writers   *)
(* of the wires it reads.                                                  *)
LEMMA WalkInOrder ==
  ASSUME NEW S, NEW levels \in Seq(Seq(S)), InOrder(levels)
  PROVE  /\ FlattenSeq(levels) \in Seq(S)
         /\ \A j \in 1 .. Len(FlattenSeq(levels)) :
              /\ \E l \in DOMAIN levels : \E k \in DOMAIN levels[l] : FlattenSeq(levels)[j] = levels[l][k]
              /\ \A w \in Reads(FlattenSeq(levels)[j]) :
                   \E m \in 1 .. (j - 1) : Writes(FlattenSeq(levels)[m], w)
         /\ \A l \in DOMAIN levels : \A k \in DOMAIN levels[l] :
              \E j \in 1 .. Len(FlattenSeq(levels)) : FlattenSeq(levels)[j] = levels[l][k]
<1>1. CASE Len(levels) = 0
  <2>1. FlattenSeq(levels) = levels /\ levels = <<>>
    BY <1>1 DEF FlattenSeq
  <2>. QED  BY <2>1
<1>2. CASE Len(levels) # 0
  <2>1. PICK f : /\ FlattenSeq(levels) = f[Len(levels)]
                 /\ f[1] = levels[1]
                 /\ \A i \in 1 .. (Len(levels) - 1) : f[i + 1] = f[i] \o levels[i + 1]
    <3>1. Len(levels) \in Nat
      OBVIOUS
    <3>. QED  BY <1>2, <3>1, FlattenUnfold
  <2> DEFINE A(W, n) == \A j \in 1 .. Len(W) :
               \E l \in 1 .. n : \E k \in DOMAIN levels[l] : W[j] = levels[l][k]
             B(W) == \A j \in 1 .. Len(W) : \A w \in Reads(W[j]) :
               \E m \in 1 .. (j - 1) : Writes(W[m], w)
             C(W, n) == \A l \in 1 .. n : \A k \in DOMAIN levels[l] :
               \E j \in 1 .. Len(W) : W[j] = levels[l][k]
             P(W, n) == W \in Seq(S) /\ A(W, n) /\ B(W) /\ C(W, n)
             T == {n \in Nat : n + 1 <= Len(levels) => P(f[n + 1], n + 1)}
  <2>2. DOMAIN levels = 1 .. Len(levels) /\ Len(levels) \in Nat /\ \A l \in 1 .. Len(levels) : levels[l] \in Seq(S)
    OBVIOUS
  <2>3. ASSUME NEW V \in Seq(S), NEW n \in Nat, n + 1 <= Len(levels), A(V, n), B(V), C(V, n)
        PROVE  P(V \o levels[n + 1], n + 1)
    <3> DEFINE L == levels[n + 1]
               W == V \o L
               v == Len(V)
    <3>1. L \in Seq(S) /\ n + 1 \in 1 .. Len(levels)
      BY <2>2, <2>3
    <3>2. /\ v \in Nat /\ Len(L) \in Nat /\ DOMAIN L = 1 .. Len(L)
          /\ W \in Seq(S) /\ Len(W) = v + Len(L)
          /\ \A j \in 1 .. v : W[j] = V[j]
          /\ \A k \in 1 .. Len(L) : W[v + k] = L[k] /\ v + k \in 1 .. Len(W)
      BY <3>1
    <3> HIDE DEF W, L, v
    <3>3. ASSUME NEW j \in 1 .. Len(W)
          PROVE  j \in 1 .. v \/ \E k \in 1 .. Len(L) : j = v + k
      <4>1. j \in 1 .. v \/ (j - v \in 1 .. Len(L) /\ j = v + (j - v))
        BY <3>2
      <4>. QED  BY <4>1
    <3>4. A(W, n + 1)
      <4> SUFFICES ASSUME NEW j \in 1 .. Len(W)
                   PROVE  \E l \in 1 .. (n + 1) : \E k \in DOMAIN levels[l] : W[j] = levels[l][k]
        OBVIOUS
      <4>1. CASE j \in 1 .. v
        <5>1. PICK l \in 1 .. n : \E k \in DOMAIN levels[l] : V[j] = levels[l][k]
          BY <4>1, <2>3 DEF v
        <5>2. l \in 1 .. (n + 1) /\ W[j] = V[j]
          BY <4>1, <3>2
        <5>. QED  BY <5>1, <5>2
      <4>2. ASSUME NEW k \in 1 .. Len(L), j = v + k
            PROVE  \E l \in 1 .. (n + 1) : \E m \in DOMAIN levels[l] : W[j] = levels[l][m]
        <5>1. W[j] = L[k] /\ k \in DOMAIN L /\ n + 1 \in 1 .. (n + 1)
          BY <4>2, <3>2
        <5>. QED  BY <5>1 DEF L
      <4>. QED  BY <4>1, <4>2, <3>3
    <3>5. B(W)
      <4> SUFFICES ASSUME NEW j \in 1 .. Len(W), NEW w \in Reads(W[j])
                   PROVE  \E m \in 1 .. (j - 1) : Writes(W[m], w)
        OBVIOUS
      <4>1. CASE j \in 1 .. v
        <5>1. w \in Reads(V[j])
          BY <4>1, <3>2
        <5>2. PICK m \in 1 .. (j - 1) : Writes(V[m], w)
          BY <5>1, <4>1, <2>3 DEF v
        <5>3. m \in 1 .. v
          BY <4>1, <3>2
        <5>4. W[m] = V[m]
          BY <5>3, <3>2
        <5>. QED  BY <5>2, <5>4
      <4>2. ASSUME NEW k \in 1 .. Len(L), j = v + k
            PROVE  \E m \in 1 .. (j - 1) : Writes(W[m], w)
        <5>1. w \in Reads(levels[n + 1][k]) /\ k \in DOMAIN levels[n + 1] /\ n + 1 \in DOMAIN levels
          BY <4>2, <3>1, <3>2, <2>2 DEF L
        <5>2. \/ \E i \in 1 .. ((n + 1) - 1) : \E x \in DOMAIN levels[i] : Writes(levels[i][x], w)
              \/ \E m \in 1 .. (k - 1) : Writes(levels[n + 1][m], w)
          BY <5>1 DEF InOrder
        <5>3. CASE \E i \in 1 .. ((n + 1) - 1) : \E x \in DOMAIN levels[i] : Writes(levels[i][x], w)
          <6>1. PICK i \in 1 .. n : \E x \in DOMAIN levels[i] : Writes(levels[i][x], w)
            BY <5>3
          <6>2. PICK x \in DOMAIN levels[i] : Writes(levels[i][x], w)
            BY <6>1
          <6>3. PICK m \in 1 .. v : V[m] = levels[i][x]
            BY <6>1, <2>3 DEF v
          <6>4. W[m] = levels[i][x] /\ m \in 1 .. (j - 1)
            BY <6>3, <3>2, <4>2
          <6>. QED  BY <6>2, <6>4
        <5>4. CASE \E m \in 1 .. (k - 1) : Writes(levels[n + 1][m], w)
          <6>1. PICK m \in 1 .. (k - 1) : Writes(L[m], w)
            BY <5>4 DEF L
          <6>2. m \in 1 .. Len(L) /\ v + m \in 1 .. (j - 1)
            BY <3>2, <4>2
          <6>3. W[v + m] = L[m]
            BY <6>2, <3>2
          <6>. QED  BY <6>1, <6>2, <6>3
        <5>. QED  BY <5>2, <5>3, <5>4
      <4>. QED  BY <4>1, <4>2, <3>3
    <3>6. C(W, n + 1)
      <4> SUFFICES ASSUME NEW l \in 1 .. (n + 1), NEW k \in DOMAIN levels[l]
                   PROVE  \E j \in 1 .. Len(W) : W[j] = levels[l][k]
        OBVIOUS
      <4>1. CASE l \in 1 .. n
        <5>1. PICK j \in 1 .. v : V[j] = levels[l][k]
          BY <4>1, <2>3 DEF v
        <5>2. j \in 1 .. Len(W) /\ W[j] = V[j]
          BY <3>2
        <5>. QED  BY <5>1, <5>2
      <4>2. CASE l = n + 1
        <5>1. k \in 1 .. Len(L) /\ L[k] = levels[l][k]
          BY <4>2, <3>2 DEF L
        <5>. QED  BY <5>1, <3>2
      <4>. QED  BY <4>1, <4>2
    <3>. QED  BY <3>2, <3>4, <3>5, <3>6 DEF W, L
  <2> HIDE DEF A, B, C
  <2>4. 0 \in T
    <3>1. <<>> \in Seq(S) /\ A(<<>>, 0) /\ B(<<>>) /\ C(<<>>, 0)
      BY DEF A, B, C
    <3>2. 1 \in 1 .. Len(levels)
      BY <1>2, <2>2
    <3>3. <<>> \o levels[1] = levels[1] /\ 0 + 1 = 1 /\ 0 + 1 <= Len(levels)
      BY <2>2, <3>2
    <3>4. P(<<>> \o levels[0 + 1], 0 + 1)
      BY <2>3, <3>1, <3>3
    <3>. QED  BY <3>3, <3>4, <2>1
  <2>5. ASSUME NEW n \in T PROVE n + 1 \in T
    <3> SUFFICES ASSUME (n + 1) + 1 <= Len(levels) PROVE P(f[(n + 1) + 1], (n + 1) + 1)
      OBVIOUS
    <3>1. n \in Nat /\ n + 1 \in Nat /\ n + 1 <= Len(levels) /\ n + 1 \in 1 .. (Len(levels) - 1)
      BY <2>2
    <3>2. P(f[n + 1], n + 1)
      BY <3>1
    <3>3. f[(n + 1) + 1] = f[n + 1] \o levels[(n + 1) + 1]
      BY <3>1, <2>1
    <3>4. P(f[n + 1] \o levels[(n + 1) + 1], (n + 1) + 1)
      BY <3>1, <3>2, <2>3
    <3>. QED  BY <3>3, <3>4
  <2>6. T = Nat
    <3> HIDE DEF T
    <3>1. T \in SUBSET Nat
      BY DEF T
    <3>. QED  BY <2>4, <2>5, <3>1, NatInd
  <2>7. P(f[Len(levels)], Len(levels))
    <3>1. Len(levels) - 1 \in Nat /\ (Len(levels) - 1) + 1 = Len(levels)
      BY <1>2, <2>2
    <3>2. Len(levels) - 1 \in T
      BY <3>1, <2>6
    <3>. QED  BY <3>1, <3>2
  <2> HIDE DEF T
  <2>8. P(FlattenSeq(levels), Len(levels))
    BY <2>1, <2>7
  <2>9. DOMAIN levels = 1 .. Len(levels)
    BY <2>2
  <2>10. FlattenSeq(levels) \in Seq(S) /\ B(FlattenSeq(levels))
    BY <2>8
  <2>11. /\ \A j \in 1 .. Len(FlattenSeq(levels)) :
               \E l \in DOMAIN levels : \E k \in DOMAIN levels[l] : FlattenSeq(levels)[j] = levels[l][k]
         /\ \A l \in DOMAIN levels : \A k \in DOMAIN levels[l] :
               \E j \in 1 .. Len(FlattenSeq(levels)) : FlattenSeq(levels)[j] = levels[l][k]
    BY <2>8, <2>9, Zenon DEF A, C
  <2>. QED  BY <2>10, <2>11, Zenon DEF B
<1>. QED  BY <1>1, <1>2
-----------------------------------------------------------------------------
(* Every function of the builder adds a gate of a good shape.              *)
LEMMA AddGateShaped ==
  ASSUME IInv, Shaped, NEW t, NEW in1, NEW in2, NEW n \in Nat, n >= 1,
         t \in Known => n = 1, t \in Arithmetic => in1 # <<>>,
         t \in {"Add", "Sub"} => in2 # <<>>, AddGate(t, in1, in2, n)
  PROVE  Shaped'
<1> DEFINE g == [type |-> t, in1 |-> in1, in2 |-> in2,
                 outs |-> [j \in 1 .. n |-> num_wires + j], gid |-> Len(gates) + 1]
<1>1. gates' = Append(gates, g) /\ num_wires' = num_wires + n
  BY DEF AddGate
<1>2. gates \in Seq(Gate) /\ num_wires \in Nat
  BY DEF IInv, TypeOK
<1>3. /\ g.type = t /\ g.in1 = in1 /\ g.in2 = in2
      /\ Len(g.outs) = n /\ g.outs = [j \in 1 .. n |-> num_wires + j]
  <2>1. g.outs = [j \in 1 .. n |-> num_wires + j]
    OBVIOUS
  <2>2. [j \in 1 .. n |-> num_wires + j] \in Seq(Nat)
    BY <1>2
  <2>3. Len([j \in 1 .. n |-> num_wires + j]) = n
    BY <2>2
  <2>. QED  BY <2>1, <2>3
<1> HIDE DEF g
<1>4. GateShape(g)
  BY <1>3 DEF GateShape
<1>5. /\ DOMAIN gates = 1 .. Len(gates) /\ Len(gates) \in Nat
      /\ Len(gates') = Len(gates) + 1 /\ DOMAIN gates' = 1 .. (Len(gates) + 1)
      /\ \A i \in DOMAIN gates : gates'[i] = gates[i]
      /\ gates'[Len(gates) + 1] = g
  <2>1. gates \in Seq(Gate \cup {g})
    BY <1>2
  <2>. QED  BY <1>1, <2>1
<1>6. \A i \in DOMAIN gates' : GateShape(gates'[i])
  BY <1>4, <1>5 DEF Shaped
<1>7. ASSUME \A i \in DOMAIN gates' : Len(gates'[i].outs) = 1
      PROVE  num_wires' = Len(gates') /\ \A i \in DOMAIN gates' : gates'[i].outs = <<i>>
  <2>1. \A i \in DOMAIN gates : Len(gates[i].outs) = 1
    BY <1>5, <1>7
  <2>2. num_wires = Len(gates) /\ \A i \in DOMAIN gates : gates[i].outs = <<i>>
    BY <2>1 DEF Shaped
  <2>3. n = 1
    <3>1. Len(gates) + 1 \in DOMAIN gates'
      BY <1>5
    <3>2. Len(gates'[Len(gates) + 1].outs) = 1
      BY <3>1, <1>7
    <3>. QED  BY <3>2, <1>5, <1>3
  <2>4. [j \in 1 .. 1 |-> num_wires + j] = <<num_wires + 1>>
    BY <1>2
  <2>5. g.outs = <<Len(gates) + 1>>
    BY <2>2, <2>3, <2>4, <1>3
  <2>6. \A i \in DOMAIN gates' : i \in DOMAIN gates \/ i = Len(gates) + 1
    BY <1>5
  <2>. QED  BY <1>1, <1>5, <2>2, <2>3, <2>5, <2>6
<1>. QED  BY <1>6, <1>7 DEF Shaped, GateShape

LEMMA VecLengths ==
  /\ \A in \in SomeVec : in # <<>> /\ Len(in) \in Nat /\ Len(in) >= 1
  /\ \A n \in Nat : \A in \in Vec(n + 1) : in # <<>>
<1>1. ASSUME NEW in \in SomeVec PROVE in # <<>> /\ Len(in) \in Nat /\ Len(in) >= 1
  <2>1. PICK n \in 0 .. MaxLen : in \in [1 .. n -> Wire]
    BY DEF SomeVec, AnyVec, Vec
  <2>2. in \in Seq(Wire) /\ Len(in) = n
    BY <2>1
  <2>. QED  BY <2>1, <2>2 DEF SomeVec
<1>2. ASSUME NEW n \in Nat, NEW in \in Vec(n + 1) PROVE in # <<>>
  <2>1. 1 \in DOMAIN in
    BY DEF Vec
  <2>. QED  BY <2>1
<1>. QED  BY <1>1, <1>2

LEMMA BuildShaped == ASSUME IInv, Shaped, Build PROVE Shaped'
<1>1. ASSUME NEW t, NEW in1, NEW in2, in1 # <<>>, t \in {"Add", "Sub"} => in2 # <<>>,
             AddGate(t, in1, in2, 1)
      PROVE  Shaped'
  BY <1>1, AddGateShaped
<1>2. ASSUME NEW t, NEW in1, NEW in2, t \notin Arithmetic, AddGate(t, in1, in2, 1)
      PROVE  Shaped'
  BY <1>2, AddGateShaped DEF Arithmetic
<1>3. ASSUME NEW t, NEW in1, NEW in2, NEW n \in Nat, n >= 1, t \notin Known,
             AddGate(t, in1, in2, n)
      PROVE  Shaped'
  BY <1>3, AddGateShaped DEF Known, Arithmetic
<1>4. /\ \A t \in {"Inp", "BinInp", "Compose", "EqualsZero"} \cup Unary \cup DotProds : t \notin Arithmetic
      /\ \A t \in Vector \cup Pairwise : t \notin Known
      /\ \A a : <<a>> # <<>>
      /\ \A t \in ConstOps \cup {"Mul3", "Mul4"} : t \notin {"Add", "Sub"}
  BY DEF Arithmetic, Known, Unary, DotProds, Vector, Pairwise, ConstOps
<1>5. CASE NewInputWire \/ NewBinInputWire
  BY <1>5, <1>2, <1>4 DEF NewInputWire, NewBinInputWire
<1>6. CASE AddFIn1
  BY <1>6, <1>2, <1>4 DEF AddFIn1
<1>7. CASE AddFIn2
  BY <1>7, <1>1, <1>4 DEF AddFIn2
<1>8. CASE AddFIn3
  <2>1. PICK in \in Vec(2 + 1) : AddGate("Mul3", in, <<>>, 1)
    BY <1>8 DEF AddFIn3
  <2>2. in # <<>>
    BY VecLengths
  <2>. QED  BY <2>1, <2>2, <1>1, <1>4
<1>9. CASE AddFIn4
  <2>1. PICK in \in Vec(3 + 1) : AddGate("Mul4", in, <<>>, 1)
    BY <1>9 DEF AddFIn4
  <2>2. in # <<>>
    BY VecLengths
  <2>. QED  BY <2>1, <2>2, <1>1, <1>4
<1>10. CASE AddConstOpGate
  BY <1>10, <1>1, <1>4 DEF AddConstOpGate
<1>11. CASE AddParamGate
  BY <1>11, <1>2, <1>4 DEF AddParamGate
<1>12. CASE AddSIMD
  <2>1. PICK t \in DotProds \cap Kinds, in1 \in AnyVec :
          \E in2 \in Vec(Len(in1)) : AddGate(t, in1, in2, 1)
    BY <1>12 DEF AddSIMD
  <2>2. PICK in2 \in Vec(Len(in1)) : AddGate(t, in1, in2, 1)
    BY <2>1
  <2>. QED  BY <2>2, <1>2, <1>4
<1>13. CASE AddMGate
  <2>1. PICK t \in Vector \cap Kinds, in \in SomeVec : AddGate(t, in, <<>>, Len(in))
    BY <1>13 DEF AddMGate
  <2>2. Len(in) \in Nat /\ Len(in) >= 1
    BY VecLengths
  <2>. QED  BY <2>1, <2>2, <1>3, <1>4
<1>14. CASE AddMSingleOutGate
  BY <1>14, <1>2, <1>4 DEF AddMSingleOutGate
<1>15. CASE AddMDoubleInGate
  <2>1. PICK t \in Pairwise \cap Kinds, in1 \in SomeVec :
          \E in2 \in Vec(Len(in1)) : AddGate(t, in1, in2, Len(in1))
    BY <1>15 DEF AddMDoubleInGate
  <2>2. PICK in2 \in Vec(Len(in1)) : AddGate(t, in1, in2, Len(in1))
    BY <2>1
  <2>3. Len(in1) \in Nat /\ Len(in1) >= 1
    BY VecLengths
  <2>. QED  BY <2>2, <2>3, <1>3, <1>4
<1>16. CASE AddEmpty
  <2>1. gates' = gates /\ num_wires' = num_wires
    BY <1>16 DEF AddEmpty, built
  <2>. QED  BY <2>1 DEF Shaped, GateShape
<1>. QED  BY <1>5, <1>6, <1>7, <1>8, <1>9, <1>10, <1>11, <1>12, <1>13, <1>14, <1>15, <1>16 DEF Build
-----------------------------------------------------------------------------
(* A value depends on the wires the gate reads only.                       *)
LEMMA ProductSame ==
  ASSUME NEW v, NEW u, NEW ws, Len(ws) \in Nat,
         \A k \in 1 .. Len(ws) : v[ws[k]] = u[ws[k]]
  PROVE  Product(v, ws) = Product(u, ws)
<1>1. ASSUME NEW p
      PROVE  (p = [k \in 0 .. Len(ws) |-> IF k = 0 THEN 1 % Modulus ELSE Times(p[k - 1], v[ws[k]])])
               <=> (p = [k \in 0 .. Len(ws) |-> IF k = 0 THEN 1 % Modulus ELSE Times(p[k - 1], u[ws[k]])])
  <2>1. ASSUME NEW k \in 0 .. Len(ws)
        PROVE  (IF k = 0 THEN 1 % Modulus ELSE Times(p[k - 1], v[ws[k]]))
                 = (IF k = 0 THEN 1 % Modulus ELSE Times(p[k - 1], u[ws[k]]))
    <3>1. k # 0 => k \in 1 .. Len(ws)
      OBVIOUS
    <3>. QED  BY <3>1
  <2>2. [k \in 0 .. Len(ws) |-> IF k = 0 THEN 1 % Modulus ELSE Times(p[k - 1], v[ws[k]])]
          = [k \in 0 .. Len(ws) |-> IF k = 0 THEN 1 % Modulus ELSE Times(p[k - 1], u[ws[k]])]
    BY <2>1, Zenon
  <2>. QED  BY <2>2, Zenon
<1>2. (CHOOSE p : p = [k \in 0 .. Len(ws) |-> IF k = 0 THEN 1 % Modulus ELSE Times(p[k - 1], v[ws[k]])])
        = (CHOOSE p : p = [k \in 0 .. Len(ws) |-> IF k = 0 THEN 1 % Modulus ELSE Times(p[k - 1], u[ws[k]])])
  BY <1>1, Zenon
<1>. QED  BY <1>2, Zenon DEF Product

LEMMA JoinElems ==
  ASSUME NEW S, NEW a \in Seq(S), NEW b \in Seq(S)
  PROVE  /\ Len(a \o b) \in Nat
         /\ \A k \in 1 .. Len(a \o b) : (a \o b)[k] \in Elems(a) \cup Elems(b)
<1>1. /\ Len(a) \in Nat /\ Len(b) \in Nat /\ Len(a \o b) = Len(a) + Len(b)
      /\ DOMAIN a = 1 .. Len(a) /\ DOMAIN b = 1 .. Len(b)
      /\ \A k \in 1 .. Len(a) : (a \o b)[k] = a[k]
  OBVIOUS
<1>2. ASSUME NEW k \in 1 .. Len(b) PROVE (a \o b)[Len(a) + k] = b[k]
  OBVIOUS
<1>3. ASSUME NEW k \in 1 .. Len(a \o b) PROVE (a \o b)[k] \in Elems(a) \cup Elems(b)
  <2>1. CASE k \in 1 .. Len(a)
    BY <1>1, <2>1 DEF Elems
  <2>2. CASE k \notin 1 .. Len(a)
    <3>1. k - Len(a) \in 1 .. Len(b) /\ Len(a) + (k - Len(a)) = k
      BY <1>1, <2>2
    <3>2. (a \o b)[k] = b[k - Len(a)]
      BY <3>1, <1>2
    <3>. QED  BY <3>1, <3>2, <1>1 DEF Elems
  <2>. QED  BY <2>1, <2>2
<1>. QED  BY <1>1, <1>3

LEMMA ValueSame ==
  ASSUME NEW g \in Gate, GateShape(g), g.type \in Arithmetic, NEW c, NEW v, NEW u,
         \A w \in Reads(g) : v[w] = u[w]
  PROVE  Value(g, c, v) = Value(g, c, u)
<1>1. g.in1 \in Seq(Wire) /\ g.in2 \in Seq(Wire) /\ g.in1 # <<>>
  BY DEF Gate, GateShape
<1>2. v[g.in1[1]] = u[g.in1[1]]
  <2>1. 1 \in DOMAIN g.in1
    BY <1>1
  <2>. QED  BY <2>1 DEF Reads, Elems
<1>3. g.type \in {"Add", "Sub"} => v[g.in2[1]] = u[g.in2[1]]
  <2>1. g.type \in {"Add", "Sub"} => 1 \in DOMAIN g.in2
    BY <1>1 DEF GateShape
  <2>. QED  BY <2>1 DEF Reads, Elems
<1>4. Product(v, g.in1 \o g.in2) = Product(u, g.in1 \o g.in2)
  <2>1. Len(g.in1 \o g.in2) \in Nat
    BY <1>1, JoinElems
  <2>2. ASSUME NEW k \in 1 .. Len(g.in1 \o g.in2) PROVE (g.in1 \o g.in2)[k] \in Reads(g)
    BY <1>1, JoinElems DEF Reads
  <2>3. \A k \in 1 .. Len(g.in1 \o g.in2) : v[(g.in1 \o g.in2)[k]] = u[(g.in1 \o g.in2)[k]]
    BY <2>2
  <2>. QED  BY <2>1, <2>3, ProductSame
<1>. QED  BY <1>2, <1>3, <1>4 DEF Value, Arithmetic
-----------------------------------------------------------------------------
(* The walk over an ordered circuit.                                       *)
LEMMA WalkFacts ==
  ASSUME IInv, pc = "ordered"
  PROVE  /\ Len(Walk) \in Nat
         /\ \A j \in 1 .. Len(Walk) :
              /\ Walk[j].gid \in DOMAIN gates
              /\ Walk[j] = gates[Walk[j].gid]
              /\ \A w \in Reads(Walk[j]) : \E m \in 1 .. (j - 1) : Writes(Walk[m], w)
         /\ \A i \in DOMAIN gates : \E j \in 1 .. Len(Walk) : Walk[j] = gates[i]
<1>1. by_level \in Seq(Seq(Gate)) /\ InOrder(by_level)
  BY InOrderOneProducer DEF IInv, TypeOK
<1>2. /\ Walk \in Seq(Gate)
      /\ \A j \in 1 .. Len(Walk) :
           /\ \E l \in DOMAIN by_level : \E k \in DOMAIN by_level[l] : Walk[j] = by_level[l][k]
           /\ \A w \in Reads(Walk[j]) : \E m \in 1 .. (j - 1) : Writes(Walk[m], w)
      /\ \A l \in DOMAIN by_level : \A k \in DOMAIN by_level[l] :
           \E j \in 1 .. Len(Walk) : Walk[j] = by_level[l][k]
  BY <1>1, WalkInOrder DEF Walk
<1>3. /\ \A i \in DOMAIN gates : \E l \in DOMAIN by_level : \E k \in DOMAIN by_level[l] : by_level[l][k] = gates[i]
      /\ \A l \in DOMAIN by_level : \A k \in DOMAIN by_level[l] :
           by_level[l][k].gid \in DOMAIN gates /\ by_level[l][k] = gates[by_level[l][k].gid]
  BY Standings
<1>4. Len(Walk) \in Nat
  BY <1>2
<1>5. ASSUME NEW j \in 1 .. Len(Walk)
      PROVE  Walk[j].gid \in DOMAIN gates /\ Walk[j] = gates[Walk[j].gid]
  <2>1. PICK l \in DOMAIN by_level : \E k \in DOMAIN by_level[l] : Walk[j] = by_level[l][k]
    BY <1>2
  <2>2. PICK k \in DOMAIN by_level[l] : Walk[j] = by_level[l][k]
    BY <2>1
  <2>. QED  BY <2>2, <1>3
<1>6. ASSUME NEW i \in DOMAIN gates PROVE \E j \in 1 .. Len(Walk) : Walk[j] = gates[i]
  <2>1. PICK l \in DOMAIN by_level : \E k \in DOMAIN by_level[l] : by_level[l][k] = gates[i]
    BY <1>3
  <2>2. PICK k \in DOMAIN by_level[l] : by_level[l][k] = gates[i]
    BY <2>1
  <2>. QED  BY <2>2, <1>2
<1>. QED  BY <1>2, <1>4, <1>5, <1>6

(* A gate that evaluate knows writes one wire, and no other gate does.     *)
LEMMA OneOutput ==
  ASSUME IInv, Shaped, NEW i \in DOMAIN gates, gates[i].type \in Known
  PROVE  /\ gates[i] \in Gate /\ gates[i].gid = i /\ gates[i].outs[1] \in Wire
         /\ \A w : Writes(gates[i], w) <=> w = gates[i].outs[1]
<1>1. gates[i] \in Gate /\ GateShape(gates[i]) /\ gates[i].gid = i
  BY GateWires DEF IInv, Shaped, Sourced
<1>2. gates[i].outs \in Seq(Wire) /\ Len(gates[i].outs) = 1
  BY <1>1 DEF GateShape, Gate
<1>3. DOMAIN gates[i].outs = {1} /\ gates[i].outs[1] \in Wire
  BY <1>2
<1>. QED  BY <1>1, <1>3 DEF Writes, Elems

LEMMA SoleGate ==
  ASSUME IInv, NEW i \in DOMAIN gates, NEW j \in DOMAIN gates, NEW w,
         Writes(gates[i], w), Writes(gates[j], w)
  PROVE  i = j
<1>1. w \in Wire
  BY GateWires DEF IInv
<1>. QED  BY <1>1 DEF IInv, SoleWriter

(* Evaluating leaves the circuit and its order alone; what builds and      *)
(* orders it comes before.                                                 *)
LEMMA EvalIsSpec ==
  /\ EvalInit => Init
  /\ [EvalNext]_evalvars => [Next]_vars
<1>1. EvalInit => Init
  BY DEF EvalInit
<1>2. ASSUME EvalNext PROVE [Next]_vars
  <2>1. CASE BuildGate \/ Output \/ Order
    BY <2>1 DEF BuildGate, Output, Order, Next
  <2>2. CASE StartEvaluation
    BY <2>2 DEF StartEvaluation, BeginWalk
  <2>3. CASE EvaluateGate
    BY <2>3 DEF EvaluateGate, EvaluateInput, EvaluateArithmetic, MissingInput, InvalidType,
                BeyondEnd, Store, Stop
  <2>4. CASE FinishEvaluation
    BY <2>4 DEF FinishEvaluation
  <2>. QED  BY <1>2, <2>1, <2>2, <2>3, <2>4 DEF EvalNext, Evaluating
<1>3. UNCHANGED evalvars => UNCHANGED vars
  BY DEF evalvars
<1>. QED  BY <1>1, <1>2, <1>3

LEMMA InitEval == EvalInit => EvalInv
<1> SUFFICES ASSUME EvalInit PROVE EvalInv
  OBVIOUS
<1>1. gates = <<>> /\ num_wires = 0 /\ stage = "idle"
  BY DEF EvalInit, Init
<1>2. Shaped
  BY <1>1 DEF Shaped
<1>. QED  BY <1>1, <1>2 DEF EvalInv, Started, Walked, Returned, RefusesForCause, OutsideOnlyByVectors

(* Nothing is evaluated before the circuit is ordered.                     *)
LEMMA BeforeEval ==
  ASSUME IInv, EvalInv, BuildGate \/ Output \/ Order
  PROVE  EvalInv'
<1>1. pc # "ordered" /\ stage' = stage
  BY DEF BuildGate, Output, Order, evaluation, Build, SetAsOutput, OrderGatesByLevel,
         StartOrdering, SkipInput, AssignLevel, ThrowUnsupported, StartPlacing, PlaceGate,
         FinishOrdering
<1>2. stage' = "idle"
  BY <1>1 DEF EvalInv, Started
<1>3. Shaped'
  <2>1. CASE BuildGate
    BY <2>1, BuildShaped DEF BuildGate, EvalInv
  <2>2. CASE Output \/ Order
    <3>1. UNCHANGED <<gates, num_wires>>
      BY <2>2 DEF Output, Order, SetAsOutput, OrderGatesByLevel, built,
         StartOrdering, SkipInput, AssignLevel, ThrowUnsupported, StartPlacing, PlaceGate,
         FinishOrdering
    <3>. QED  BY <3>1 DEF EvalInv, Shaped, GateShape
  <2>. QED  BY <2>1, <2>2
<1>. QED  BY <1>2, <1>3 DEF EvalInv, Started, Walked, Returned, RefusesForCause, OutsideOnlyByVectors

LEMMA SameCircuit ==
  ASSUME UNCHANGED vars
  PROVE  /\ Walk' = Walk /\ InputWires' = InputWires /\ Range(gates)' = Range(gates)
         /\ gates' = gates /\ pc' = pc /\ outputs' = outputs
         /\ Shaped => Shaped'
<1>1. UNCHANGED <<gates, by_level, pc, outputs, num_wires>>
  BY DEF vars
<1>. QED  BY <1>1 DEF Walk, InputWires, Shaped, GateShape, Range

LEMMA StartKeeps == ASSUME IInv, EvalInv, StartEvaluation PROVE EvalInv'
<1>1. /\ pc = "ordered" /\ stage = "idle" /\ IsFiniteSet(DOMAIN inputs')
      /\ stage' = IF Cardinality(DOMAIN inputs') = Cardinality(InputWires) THEN "walk" ELSE "threw"
      /\ wires' = [w \in 1 .. Len(gates) |-> 0] /\ at' = 1 /\ UNCHANGED vars
  BY DEF StartEvaluation, BeginWalk, Inputs
<1>2. /\ Walk' = Walk /\ InputWires' = InputWires /\ gates' = gates /\ pc' = pc /\ Shaped'
  BY <1>1, SameCircuit DEF EvalInv
<1>3. Started'
  BY <1>1, <1>2 DEF Started
<1>4. Walked'
  <2>1. Len(Walk) \in Nat
    BY <1>1, WalkFacts
  <2>. QED  BY <1>1, <1>2, <2>1 DEF Walked
<1>5. RefusesForCause'
  BY <1>1, <1>2 DEF RefusesForCause
<1>. QED  BY <1>1, <1>2, <1>3, <1>4, <1>5 DEF EvalInv, Returned, OutsideOnlyByVectors

(* Storing the value of the next gate changes no value that was read.      *)
LEMMA StoreKeeps ==
  ASSUME IInv, EvalInv, stage = "walk", at \in 1 .. Len(Walk),
         Walk[at].type \in Known, Walk[at].outs[1] \in DOMAIN wires,
         Walk[at].type = "Inp" => Walk[at].outs[1] \in DOMAIN inputs,
         Store(Walk[at].outs[1], Given(Walk[at], inputs, consts, wires))
  PROVE  EvalInv'
<1> DEFINE x == Given(Walk[at], inputs, consts, wires)
<1>1. /\ wires' = [wires EXCEPT ![Walk[at].outs[1]] = x]
      /\ at' = at + 1 /\ UNCHANGED <<vars, consts, stage, inputs, result>>
  BY DEF Store
<1>2. /\ Walk' = Walk /\ InputWires' = InputWires /\ gates' = gates /\ pc' = pc /\ Shaped'
  BY <1>1, SameCircuit DEF EvalInv
<1>3. /\ pc = "ordered" /\ Shaped
      /\ wires = [w \in 1 .. Len(gates) |-> wires[w]]
      /\ IsFiniteSet(DOMAIN inputs)
      /\ Cardinality(DOMAIN inputs) = Cardinality(InputWires)
      /\ \A j \in 1 .. (at - 1) :
           /\ Walk[j].type \in Known
           /\ Walk[j].type = "Inp" => Walk[j].outs[1] \in DOMAIN inputs
           /\ Walk[j].outs[1] \in DOMAIN wires
           /\ wires[Walk[j].outs[1]] = Given(Walk[j], inputs, consts, wires)
  BY DEF EvalInv, Started, Walked
<1>4. /\ Len(Walk) \in Nat
      /\ \A j \in 1 .. Len(Walk) :
           /\ Walk[j].gid \in DOMAIN gates
           /\ Walk[j] = gates[Walk[j].gid]
           /\ \A w \in Reads(Walk[j]) : \E m \in 1 .. (j - 1) : Writes(Walk[m], w)
  BY <1>3, WalkFacts
<1>5. \A j \in 1 .. at : /\ j \in 1 .. Len(Walk) /\ Walk[j].type \in Known
                         /\ Walk[j].outs[1] \in DOMAIN wires
                         /\ Walk[j].type = "Inp" => Walk[j].outs[1] \in DOMAIN inputs
  <2>1. \A j \in 1 .. at : j \in 1 .. Len(Walk) /\ (j = at \/ j \in 1 .. (at - 1))
    BY <1>4
  <2>. QED  BY <2>1, <1>3
<1>6. \A j \in 1 .. at :
        /\ Walk[j] \in Gate /\ GateShape(Walk[j])
        /\ \A w : Writes(Walk[j], w) <=> w = Walk[j].outs[1]
  BY SMTT(30), <1>3, <1>4, <1>5, OneOutput DEF Shaped
<1>7. ASSUME NEW m \in 1 .. (at - 1), Walk[m].outs[1] = Walk[at].outs[1]
      PROVE  Walk[m] = Walk[at]
  <2>1. m \in 1 .. at /\ at \in 1 .. at
    OBVIOUS
  <2>2. /\ Walk[m].gid \in DOMAIN gates /\ Walk[at].gid \in DOMAIN gates
        /\ Walk[m] = gates[Walk[m].gid] /\ Walk[at] = gates[Walk[at].gid]
    BY <2>1, <1>4, <1>5
  <2>3. Writes(Walk[m], Walk[at].outs[1]) /\ Writes(Walk[at], Walk[at].outs[1])
    BY <2>1, <1>6, <1>7
  <2>4. Writes(gates[Walk[m].gid], Walk[at].outs[1]) /\ Writes(gates[Walk[at].gid], Walk[at].outs[1])
    BY <2>2, <2>3
  <2>5. Walk[m].gid = Walk[at].gid
    BY <2>2, <2>4, SoleGate
  <2>. QED  BY <2>2, <2>5
<1>8. \A w \in DOMAIN wires : wires'[w] = IF w = Walk[at].outs[1] THEN x ELSE wires[w]
  BY <1>1
<1> HIDE DEF x
<1>9. ASSUME NEW m \in 1 .. (at - 1)
      PROVE  wires'[Walk[m].outs[1]] = wires[Walk[m].outs[1]]
  <2>1. m \in 1 .. at /\ Walk[m].outs[1] \in DOMAIN wires
    BY <1>5
  <2>2. CASE Walk[m].outs[1] = Walk[at].outs[1]
    <3>1. Walk[m] = Walk[at]
      BY <2>2, <1>7
    <3>2. wires[Walk[m].outs[1]] = x
      BY <3>1, <1>3 DEF x
    <3>. QED  BY <2>1, <2>2, <3>2, <1>8
  <2>3. CASE Walk[m].outs[1] # Walk[at].outs[1]
    BY <2>1, <2>3, <1>8
  <2>. QED  BY <2>2, <2>3
<1>10. ASSUME NEW j \in 1 .. at, NEW w \in Reads(Walk[j])
       PROVE  wires'[w] = wires[w]
  <2>1. PICK m \in 1 .. (j - 1) : Writes(Walk[m], w)
    BY <1>4, <1>5
  <2>2. m \in 1 .. (at - 1) /\ m \in 1 .. at
    OBVIOUS
  <2>3. w = Walk[m].outs[1]
    BY <2>1, <2>2, <1>6
  <2>. QED  BY <2>2, <2>3, <1>9
<1>11. ASSUME NEW j \in 1 .. at
       PROVE  Given(Walk[j], inputs, consts, wires') = Given(Walk[j], inputs, consts, wires)
  <2>1. CASE Walk[j].type = "Inp"
    BY <2>1 DEF Given
  <2>2. CASE Walk[j].type # "Inp"
    <3>1. Walk[j].type \in Arithmetic
      BY <2>2, <1>5 DEF Known
    <3>2. \A w \in Reads(Walk[j]) : wires'[w] = wires[w]
      BY <1>10
    <3>3. Value(Walk[j], consts[Walk[j].gid], wires') = Value(Walk[j], consts[Walk[j].gid], wires)
      BY <3>1, <3>2, <1>6, ValueSame
    <3>. QED  BY <2>2, <3>3 DEF Given
  <2>. QED  BY <2>1, <2>2
<1>12. ASSUME NEW j \in 1 .. at
       PROVE  wires'[Walk[j].outs[1]] = Given(Walk[j], inputs, consts, wires')
  <2>1. CASE j = at
    <3>1. wires'[Walk[at].outs[1]] = x
      BY <1>8
    <3>. QED  BY <2>1, <3>1, <1>11 DEF x
  <2>2. CASE j # at
    <3>1. j \in 1 .. (at - 1)
      BY <2>2
    <3>2. wires'[Walk[j].outs[1]] = wires[Walk[j].outs[1]]
      BY <3>1, <1>9
    <3>3. wires[Walk[j].outs[1]] = Given(Walk[j], inputs, consts, wires)
      BY <3>1, <1>3
    <3>. QED  BY <3>2, <3>3, <1>11
  <2>. QED  BY <2>1, <2>2
<1>13. DOMAIN wires' = DOMAIN wires /\ wires' = [w \in 1 .. Len(gates) |-> wires'[w]]
  BY <1>1, <1>3
<1>14. at' \in 1 .. (Len(Walk) + 1) /\ at' - 1 = at
  BY <1>1, <1>4
<1>15. Walked'
  <2>1. stage' = "walk" /\ inputs' = inputs /\ consts' = consts
    BY <1>1
  <2>2. \A j \in 1 .. at : /\ Walk[j].type \in Known
                           /\ Walk[j].type = "Inp" => Walk[j].outs[1] \in DOMAIN inputs
                           /\ Walk[j].outs[1] \in DOMAIN wires'
                           /\ wires'[Walk[j].outs[1]] = Given(Walk[j], inputs, consts, wires')
    BY <1>5, <1>12, <1>13
  <2>. QED  BY <2>1, <2>2, <1>2, <1>3, <1>14 DEF Walked
<1>16. Started'
  BY <1>1, <1>2, <1>3, <1>13 DEF Started
<1>17. stage' = "walk"
  BY <1>1
<1>. QED  BY <1>2, <1>15, <1>16, <1>17 DEF EvalInv, Returned, RefusesForCause, OutsideOnlyByVectors

(* With one output per gate the wires are the gates.                       *)
LEMMA OneEach ==
  ASSUME IInv, Shaped, \A g \in Range(gates) : ~ (Len(g.outs) > 1)
  PROVE  /\ num_wires = Len(gates) /\ Wire = 1 .. Len(gates)
         /\ \A i \in DOMAIN gates : gates[i].outs = <<i>>
<1>1. ASSUME NEW i \in DOMAIN gates PROVE Len(gates[i].outs) = 1
  <2>1. gates[i] \in Range(gates)
    BY DEF Range
  <2>2. gates[i].outs \in Seq(Wire) /\ Len(gates[i].outs) \in Nat
    BY GateWires DEF IInv, Gate
  <2>3. Len(gates[i].outs) >= 1
    BY DEF Shaped, GateShape
  <2>4. ~ (Len(gates[i].outs) > 1)
    BY <2>1
  <2> DEFINE n == Len(gates[i].outs)
  <2>5. n \in Nat /\ n >= 1 /\ ~ (n > 1)
    BY <2>2, <2>3, <2>4
  <2> HIDE DEF n
  <2>6. n = 1
    BY <2>5
  <2>. QED  BY <2>6 DEF n
<1>. QED  BY <1>1 DEF Shaped, Wire

LEMMA OutputsAreWires ==
  ASSUME IInv
  PROVE  \A k \in DOMAIN outputs : outputs[k].wire \in Wire
<1> DEFINE O == [wire : Wire, bin : BOOLEAN]
<1>1. outputs \in Seq(O)
  BY DEF IInv, TypeOK
<1>2. \A o \in O : o.wire \in Wire
  OBVIOUS
<1> HIDE DEF O
<1>3. \A k \in DOMAIN outputs : outputs[k] \in O
  BY <1>1
<1>. QED  BY <1>2, <1>3

LEMMA OutsideHasVector ==
  ASSUME IInv, Shaped, wires = [w \in 1 .. Len(gates) |-> wires[w]],
         NEW S \in SUBSET Wire, ~ Within(S)
  PROVE  \E g \in Range(gates) : Len(g.outs) > 1
<1> SUFFICES ASSUME \A g \in Range(gates) : ~ (Len(g.outs) > 1) PROVE FALSE
  OBVIOUS
<1>1. Wire = 1 .. Len(gates)
  BY OneEach
<1>2. DOMAIN wires = 1 .. Len(gates)
  OBVIOUS
<1>. QED  BY <1>1, <1>2 DEF Within

LEMMA GateKeeps == ASSUME IInv, EvalInv, EvaluateGate PROVE EvalInv'
<1> DEFINE g == Walk[at]
<1>1. /\ stage = "walk" /\ at <= Len(Walk)
      /\ \/ EvaluateInput(g) \/ EvaluateArithmetic(g) \/ MissingInput(g)
         \/ InvalidType(g) \/ BeyondEnd(g)
  BY DEF EvaluateGate
<1>2. /\ pc = "ordered" /\ Shaped /\ wires = [w \in 1 .. Len(gates) |-> wires[w]]
      /\ IsFiniteSet(DOMAIN inputs)
  BY <1>1 DEF EvalInv, Started
<1>3. at \in 1 .. Len(Walk)
  <2>1. Len(Walk) \in Nat /\ at \in 1 .. (Len(Walk) + 1)
    BY <1>1, <1>2, WalkFacts DEF EvalInv, Walked
  <2>. QED  BY <1>1, <2>1
<1>4. g.gid \in DOMAIN gates /\ g = gates[g.gid]
  BY <1>2, <1>3, WalkFacts
<1> HIDE DEF g
<1>5. g \in Range(gates)
  BY <1>4 DEF Range
<1>6. Reads(g) \subseteq Wire /\ Elems(g.outs) \subseteq Wire
  <2>1. gates[g.gid] \in Gate /\ Reads(gates[g.gid]) \subseteq Wire /\ \A w : Writes(gates[g.gid], w) => w \in Wire
    BY <1>4, GateWires DEF IInv
  <2>. QED  BY <2>1, <1>4 DEF Writes
<1>7. g.type \in Known => g.outs[1] \in Elems(g.outs)
  <2>1. GateShape(g)
    BY <1>2, <1>4 DEF Shaped
  <2>2. g \in Gate
    BY <1>4, GateWires DEF IInv
  <2>3. g.type \in Known => 1 \in DOMAIN g.outs
    BY <2>1, <2>2 DEF GateShape, Gate
  <2>. QED  BY <2>3 DEF Elems
<1>8. CASE EvaluateInput(g)
  <2>1. /\ g.type = "Inp" /\ g.outs[1] \in DOMAIN inputs /\ Within(Elems(g.outs))
        /\ Store(g.outs[1], inputs[g.outs[1]])
    BY <1>8 DEF EvaluateInput
  <2>2. g.type \in Known /\ g.outs[1] \in DOMAIN wires
    BY <2>1, <1>7 DEF Known, Within
  <2>3. inputs[g.outs[1]] = Given(g, inputs, consts, wires)
    BY <2>1 DEF Given
  <2>. QED  BY <1>1, <1>3, <2>1, <2>2, <2>3, StoreKeeps DEF g
<1>9. CASE EvaluateArithmetic(g)
  <2>1. /\ g.type \in Arithmetic /\ Within(Reads(g) \cup Elems(g.outs))
        /\ Store(g.outs[1], Value(g, consts[g.gid], wires))
    BY <1>9 DEF EvaluateArithmetic
  <2>2. g.type \in Known /\ g.type # "Inp" /\ g.outs[1] \in DOMAIN wires
    BY <2>1, <1>7 DEF Known, Arithmetic, Within
  <2>3. Value(g, consts[g.gid], wires) = Given(g, inputs, consts, wires)
    BY <2>2 DEF Given
  <2>. QED  BY <1>1, <1>3, <2>1, <2>2, <2>3, StoreKeeps DEF g
<1>10. ASSUME NEW s, Stop(s)
       PROVE  /\ stage' = s /\ UNCHANGED <<inputs, wires, pc, gates>>
              /\ Started' /\ Shaped'
              /\ InputWires' = InputWires /\ Range(gates)' = Range(gates)
  <2>1. stage' = s /\ UNCHANGED vars /\ UNCHANGED <<inputs, wires>>
    BY <1>10 DEF Stop
  <2>2. /\ InputWires' = InputWires /\ Range(gates)' = Range(gates)
        /\ gates' = gates /\ pc' = pc /\ Shaped'
    BY <2>1, <1>2, SameCircuit
  <2>3. Started'
    BY <2>1, <2>2, <1>2 DEF Started
  <2>. QED  BY <2>1, <2>2, <2>3
<1>11. CASE MissingInput(g)
  <2>1. g.type = "Inp" /\ g.outs[1] \notin DOMAIN inputs /\ Stop("threw")
    BY <1>11 DEF MissingInput
  <2>2. g.outs[1] \in InputWires
    BY <2>1, <1>5 DEF InputWires
  <2>3. RefusesForCause'
    BY <2>1, <2>2, <1>10 DEF RefusesForCause
  <2>. QED  BY <2>1, <2>3, <1>10 DEF EvalInv, Walked, Returned, OutsideOnlyByVectors
<1>12. CASE InvalidType(g)
  <2>1. g.type \notin Arithmetic \cup {"Inp"} /\ Stop("threw")
    BY <1>12 DEF InvalidType
  <2>2. RefusesForCause'
    BY <2>1, <1>5, <1>10 DEF RefusesForCause
  <2>. QED  BY <2>1, <2>2, <1>10 DEF EvalInv, Walked, Returned, OutsideOnlyByVectors
<1>13. CASE BeyondEnd(g)
  <2>1. ~ Within(Reads(g) \cup Elems(g.outs)) /\ Stop("outside")
    BY <1>13 DEF BeyondEnd
  <2>2. Reads(g) \cup Elems(g.outs) \in SUBSET Wire
    BY <1>6
  <2>3. \E h \in Range(gates) : Len(h.outs) > 1
    BY <2>1, <2>2, <1>2, OutsideHasVector
  <2>4. OutsideOnlyByVectors'
    BY <2>3, <1>10, <2>1 DEF OutsideOnlyByVectors
  <2>. QED  BY <2>1, <2>4, <1>10 DEF EvalInv, Walked, Returned, RefusesForCause
<1>. QED  BY <1>1, <1>8, <1>9, <1>11, <1>12, <1>13 DEF g

(* At the end every gate has its value, and the inputs are the circuit's.  *)
LEMMA AllWalked ==
  ASSUME IInv, EvalInv, stage \in {"walk", "done"}, at = Len(Walk) + 1
  PROVE  /\ DOMAIN inputs = InputWires
         /\ \A i \in DOMAIN gates :
              /\ gates[i].type \in Known /\ gates[i].outs = <<i>> /\ gates[i].gid = i
              /\ wires[i] = Given(gates[i], inputs, consts, wires)
         /\ Wire = 1 .. Len(gates) /\ DOMAIN gates = 1 .. Len(gates)
<1>1. /\ pc = "ordered" /\ Shaped /\ IsFiniteSet(DOMAIN inputs)
      /\ Cardinality(DOMAIN inputs) = Cardinality(InputWires)
      /\ \A j \in 1 .. (at - 1) :
           /\ Walk[j].type \in Known
           /\ Walk[j].type = "Inp" => Walk[j].outs[1] \in DOMAIN inputs
           /\ wires[Walk[j].outs[1]] = Given(Walk[j], inputs, consts, wires)
  BY DEF EvalInv, Started, Walked
<1>2. at - 1 = Len(Walk)
  BY <1>1, WalkFacts
<1>3. ASSUME NEW i \in DOMAIN gates
      PROVE  /\ gates[i].type \in Known
             /\ gates[i].type = "Inp" => gates[i].outs[1] \in DOMAIN inputs
             /\ wires[gates[i].outs[1]] = Given(gates[i], inputs, consts, wires)
  <2>1. PICK j \in 1 .. Len(Walk) : Walk[j] = gates[i]
    BY <1>1, WalkFacts
  <2>. QED  BY <1>1, <1>2, <2>1
<1>4. ASSUME NEW g \in Range(gates) PROVE ~ (Len(g.outs) > 1)
  <2>1. PICK i \in DOMAIN gates : g = gates[i]
    BY DEF Range
  <2>2. Len(gates[i].outs) = 1
    BY <1>1, <1>3 DEF Shaped, GateShape
  <2>. QED  BY <2>1, <2>2
<1>5. Wire = 1 .. Len(gates) /\ \A i \in DOMAIN gates : gates[i].outs = <<i>>
  BY <1>1, <1>4, OneEach
<1>6. InputWires \subseteq DOMAIN inputs
  <2> SUFFICES ASSUME NEW g \in Range(gates), g.type = "Inp" PROVE g.outs[1] \in DOMAIN inputs
    BY DEF InputWires
  <2>1. PICK i \in DOMAIN gates : g = gates[i]
    BY DEF Range
  <2>. QED  BY <2>1, <1>3
<1>7. InputWires = DOMAIN inputs
  BY <1>1, <1>6, FS_Subset
<1>8. \A i \in DOMAIN gates : wires[i] = Given(gates[i], inputs, consts, wires)
  <2> TAKE i \in DOMAIN gates
  <2>1. gates[i].outs[1] = i
    BY <1>5
  <2>. QED  BY <2>1, <1>3
<1>9. DOMAIN gates = 1 .. Len(gates) /\ \A i \in DOMAIN gates : gates[i].gid = i
  BY DEF IInv, TypeOK, Sourced
<1>. QED  BY <1>3, <1>5, <1>7, <1>8, <1>9

LEMMA FinishKeeps == ASSUME IInv, EvalInv, FinishEvaluation PROVE EvalInv'
<1>1. /\ stage = "walk" /\ at > Len(Walk) /\ UNCHANGED <<vars, consts, inputs, wires, at>>
  BY DEF FinishEvaluation
<1>2. /\ pc = "ordered" /\ Shaped /\ wires = [w \in 1 .. Len(gates) |-> wires[w]]
      /\ IsFiniteSet(DOMAIN inputs) /\ Walked
  BY <1>1 DEF EvalInv, Started
<1>3. at = Len(Walk) + 1
  <2>1. Len(Walk) \in Nat /\ at \in 1 .. (Len(Walk) + 1)
    BY <1>1, <1>2, WalkFacts DEF Walked
  <2>. QED  BY <1>1, <2>1
<1>4. /\ Walk' = Walk /\ InputWires' = InputWires /\ Range(gates)' = Range(gates)
      /\ gates' = gates /\ pc' = pc /\ outputs' = outputs /\ Shaped'
  BY <1>1, <1>2, SameCircuit
<1>5. Started'
  BY <1>1, <1>2, <1>4 DEF Started
<1>6. CASE Within(Elems(OutputWires))
  <2>1. stage' = "done" /\ result' = [k \in DOMAIN outputs |-> wires[OutputWires[k]]]
    BY <1>6 DEF FinishEvaluation
  <2>2. result' = [k \in DOMAIN outputs |-> wires[outputs[k].wire]]
    BY <2>1 DEF OutputWires
  <2>3. DOMAIN inputs = InputWires
    BY <1>1, <1>3, AllWalked
  <2>4. Walked'
    BY <1>1, <1>2, <1>3, <1>4, <2>1 DEF Walked
  <2>5. Returned'
    BY <1>1, <1>4, <2>2 DEF Returned
  <2>6. RefusesForCause'
    BY <1>1, <1>4, <2>1, <2>3 DEF RefusesForCause
  <2>. QED  BY <1>4, <1>5, <2>1, <2>4, <2>5, <2>6 DEF EvalInv, OutsideOnlyByVectors
<1>7. CASE ~ Within(Elems(OutputWires))
  <2>1. stage' = "outside"
    BY <1>7 DEF FinishEvaluation
  <2>2. Elems(OutputWires) \in SUBSET Wire
    <3>1. \A k \in DOMAIN outputs : outputs[k].wire \in Wire
      BY OutputsAreWires
    <3>. QED  BY <3>1 DEF OutputWires, Elems
  <2>3. \E h \in Range(gates) : Len(h.outs) > 1
    BY <2>2, <1>7, <1>2, OutsideHasVector
  <2>4. OutsideOnlyByVectors'
    BY <2>3, <1>4 DEF OutsideOnlyByVectors
  <2>. QED  BY <1>4, <1>5, <2>1, <2>4 DEF EvalInv, Walked, Returned, RefusesForCause
<1>. QED  BY <1>6, <1>7

LEMMA NextEval == IInv /\ EvalInv /\ [EvalNext]_evalvars => EvalInv'
<1> SUFFICES ASSUME IInv, EvalInv, [EvalNext]_evalvars PROVE EvalInv'
  OBVIOUS
<1>1. CASE UNCHANGED evalvars
  <2>1. /\ Walk' = Walk /\ InputWires' = InputWires /\ Range(gates)' = Range(gates)
        /\ gates' = gates /\ pc' = pc /\ outputs' = outputs /\ Shaped'
        /\ UNCHANGED <<consts, stage, inputs, wires, at, result>>
    BY <1>1, SameCircuit DEF evalvars, evaluation, EvalInv
  <2>2. Started' /\ Returned' /\ RefusesForCause' /\ OutsideOnlyByVectors'
    BY <2>1 DEF EvalInv, Started, Returned, RefusesForCause, OutsideOnlyByVectors
  <2>3. Walked'
    BY <2>1 DEF EvalInv, Walked
  <2>. QED  BY <2>1, <2>2, <2>3 DEF EvalInv
<1>2. CASE BuildGate \/ Output \/ Order
  BY <1>2, BeforeEval
<1>3. CASE StartEvaluation
  BY <1>3, StartKeeps
<1>4. CASE EvaluateGate
  BY <1>4, GateKeeps
<1>5. CASE FinishEvaluation
  BY <1>5, FinishKeeps
<1>. QED  BY <1>1, <1>2, <1>3, <1>4, <1>5 DEF EvalNext, Evaluating
-----------------------------------------------------------------------------
(* The values at the end solve the equations that define Meaning, and      *)
(* these have one solution: a gate reads gates that were added before it.  *)
LEMMA MeansWires ==
  ASSUME IInv, EvalInv, stage = "done"
  PROVE  \A i \in 1 .. Len(gates) : Meaning[i] = wires[i]
<1> DEFINE N == Len(gates)
           Body(f, w) == IF gates[w].type = "Inp" THEN inputs[w] ELSE Value(gates[w], consts[w], f)
<1>1. /\ \A i \in DOMAIN gates :
           /\ gates[i].type \in Known /\ gates[i].outs = <<i>> /\ gates[i].gid = i
           /\ wires[i] = Given(gates[i], inputs, consts, wires)
      /\ DOMAIN gates = 1 .. N /\ N \in Nat
  BY AllWalked DEF EvalInv, Walked, IInv, TypeOK
<1>2. wires = [w \in 1 .. N |-> wires[w]] /\ Shaped
  BY DEF EvalInv, Started
<1>3. \A w \in 1 .. N : wires[w] = Body(wires, w)
  <2> TAKE w \in 1 .. N
  <2>1. gates[w].outs[1] = w /\ gates[w].gid = w /\ wires[w] = Given(gates[w], inputs, consts, wires)
    BY <1>1
  <2>. QED  BY <2>1 DEF Given
<1>4. Meaning = [w \in 1 .. N |-> Body(Meaning, w)]
  <2>1. wires = [w \in 1 .. N |-> Body(wires, w)]
    BY <1>2, <1>3
  <2>2. \E f : f = [w \in 1 .. N |-> Body(f, w)]
    BY <2>1
  <2>3. Meaning = CHOOSE f : f = [w \in 1 .. N |-> Body(f, w)]
    BY DEF Meaning
  <2> HIDE DEF Body
  <2>. QED  BY <2>2, <2>3
<1>5. ASSUME NEW i \in 1 .. N, \A h \in 1 .. (i - 1) : Meaning[h] = wires[h]
      PROVE  Meaning[i] = wires[i]
  <2>1. /\ gates[i] \in Gate /\ GateShape(gates[i]) /\ gates[i].type \in Known
        /\ \A w \in Reads(gates[i]) : \E j \in 1 .. (i - 1) : Writes(gates[j], w)
    BY <1>1, <1>2, GateWires DEF IInv, Sourced, Shaped
  <2>2. ASSUME NEW w \in Reads(gates[i]) PROVE Meaning[w] = wires[w]
    <3>1. PICK j \in 1 .. (i - 1) : Writes(gates[j], w)
      BY <2>1
    <3>2. j \in DOMAIN gates
      BY <1>1
    <3>3. gates[j].outs = <<j>>
      BY <3>2, <1>1
    <3>4. w = j
      BY <3>1, <3>3 DEF Writes, Elems
    <3>. QED  BY <3>4, <1>5
  <2>3. gates[i].type \in Arithmetic =>
          Value(gates[i], consts[i], Meaning) = Value(gates[i], consts[i], wires)
    BY <2>1, <2>2, ValueSame
  <2>4. Body(Meaning, i) = Body(wires, i)
    BY <2>1, <2>3 DEF Known
  <2>5. Meaning[i] = Body(Meaning, i)
    <3> HIDE DEF Body
    <3>. QED  BY <1>4
  <2>. QED  BY <2>4, <2>5, <1>3
<1> HIDE DEF N, Body
<1> DEFINE T == {n \in Nat : \A h \in 1 .. n : h \in 1 .. N => Meaning[h] = wires[h]}
<1>6. 0 \in T
  OBVIOUS
<1>7. ASSUME NEW n \in T PROVE n + 1 \in T
  <2>1. n \in Nat /\ n + 1 \in Nat /\ \A h \in 1 .. n : h \in 1 .. N => Meaning[h] = wires[h]
    OBVIOUS
  <2>2. n + 1 \in 1 .. N => Meaning[n + 1] = wires[n + 1]
    <3>1. (n + 1) - 1 = n
      BY <2>1
    <3>2. n + 1 \in 1 .. N => \A h \in 1 .. n : h \in 1 .. N
      BY <2>1, <1>1
    <3>. QED  BY <2>1, <3>1, <3>2, <1>5
  <2>3. \A h \in 1 .. (n + 1) : h \in 1 .. n \/ h = n + 1
    BY <2>1
  <2>. QED  BY <2>1, <2>2, <2>3
<1>8. T = Nat
  <2> HIDE DEF T
  <2>1. T \in SUBSET Nat
    BY DEF T
  <2>. QED  BY <1>6, <1>7, <2>1, NatInd
<1>9. N \in T
  BY <1>1, <1>8
<1>. QED  BY <1>9 DEF N

LEMMA InvMeans == IInv /\ EvalInv => EvaluatesToMeaning
<1> SUFFICES ASSUME IInv, EvalInv, stage = "done"
             PROVE  result = [k \in DOMAIN outputs |-> Meaning[outputs[k].wire]]
  BY DEF EvaluatesToMeaning
<1>1. result = [k \in DOMAIN outputs |-> wires[outputs[k].wire]]
  BY DEF EvalInv, Returned
<1>2. \A k \in DOMAIN outputs : outputs[k].wire \in 1 .. Len(gates)
  <2>1. \A k \in DOMAIN outputs : outputs[k].wire \in Wire
    BY OutputsAreWires
  <2>2. Wire = 1 .. Len(gates)
    BY AllWalked DEF EvalInv, Walked
  <2>. QED  BY <2>1, <2>2
<1>. QED  BY <1>1, <1>2, MeansWires
-----------------------------------------------------------------------------
(* Over every build, every evaluation and every outcome of its draws, the  *)
(* state of the builder and of Circuit::evaluate keep what they promise:   *)
(* the gates walked so far (circuit.h, evaluate) have their values and     *)
(* these stay, since a wire is written once and before it is read.         *)
THEOREM EvaluationHolds == EvalSpec => [](IInv /\ EvalInv)
<1>1. IInv /\ EvalInv /\ [EvalNext]_evalvars => (IInv /\ EvalInv)'
  BY EvalIsSpec, NextIInv, NextEval
<1>2. EvalInit => IInv /\ EvalInv
  BY EvalIsSpec, InitIInv, InitEval
<1>. QED  BY <1>1, <1>2, PTL DEF EvalSpec

(* A circuit that Circuit::evaluate walks to the end gives its outputs the *)
(* values that its gates say in the order they were added.                 *)
THEOREM Meant == EvalSpec => []EvaluatesToMeaning
BY InvMeans, EvaluationHolds, PTL

(* evaluate throws only for a kind of gate it does not know or for inputs  *)
(* that are not the circuit's, and returns only for those that are.        *)
THEOREM Refused == EvalSpec => []RefusesForCause
<1>1. EvalInv => RefusesForCause  BY DEF EvalInv
<1>. QED  BY <1>1, EvaluationHolds, PTL

(* evaluate reads and writes past the end of its vector of values only if  *)
(* a gate of the circuit has several outputs.                              *)
THEOREM OnlyVectorsOutside == EvalSpec => []OutsideOnlyByVectors
<1>1. EvalInv => OutsideOnlyByVectors  BY DEF EvalInv
<1>. QED  BY <1>1, EvaluationHolds, PTL
=============================================================================
