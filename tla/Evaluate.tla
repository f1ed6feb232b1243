------------------------------ MODULE Evaluate ------------------------------
(***************************************************************************)
(* Circuit::evaluate (src/src/utils/circuit.h): a circuit of the builder   *)
(* is ordered and then evaluated in the clear, gate by gate.  LevelOrder   *)
(* builds and orders it; this module adds the constants of gates, the      *)
(* caller's inputs and the walk over the levels.                           *)
(***************************************************************************)
EXTENDS LevelOrder, Words, SequencesExt

CONSTANT ArgsOf(_)      \* inputs a caller passes, of the wires of input gates

VARIABLES consts,       \* cval of every gate, 0 for those without one
          stage,        \* of the evaluation: idle, walk, done, threw, outside
          inputs,       \* the argument: values by wire
          wires,        \* one value per gate
          at,           \* the gate the walk is at
          result

evaluation == <<stage, inputs, wires, at, result>>
evalvars   == <<vars, consts, evaluation>>

InputWires == {g.outs[1] : g \in {h \in Range(gates) : h.type = "Inp"}}
(* The kinds that evaluate gives a value and the ordering lets pass.       *)
Arithmetic == {"Mul", "Mul3", "Mul4", "Add", "Sub", "ConstAdd", "ConstMul"}

(* Product of the values v of a list of wires.                             *)
Product(v, ws) ==
  LET p[k \in 0 .. Len(ws)] == IF k = 0 THEN 1 % Modulus ELSE Times(p[k - 1], v[ws[k]])
  IN  p[Len(ws)]

(* Value of gate g with constant c, given the values v of its inputs.      *)
Value(g, c, v) ==
  CASE g.type = "Add" -> Plus(v[g.in1[1]], v[g.in2[1]])
    [] g.type = "Sub" -> Minus(v[g.in1[1]], v[g.in2[1]])
    [] g.type = "ConstAdd" -> Plus(v[g.in1[1]], c)
    [] g.type = "ConstMul" -> Times(v[g.in1[1]], c)
    [] g.type \in {"Mul", "Mul3", "Mul4"} -> Product(v, g.in1 \o g.in2)
-----------------------------------------------------------------------------
(* The builder, with the constant of the gate it adds.                     *)
BuildGate == /\ Build
             /\ IF gates' = gates THEN UNCHANGED consts
                ELSE \E c \in IF Last(gates').type \in ConstOps THEN Ring ELSE {0} :
                       consts' = Append(consts, c)
             /\ UNCHANGED evaluation

Output == SetAsOutput /\ UNCHANGED <<consts, evaluation>>
Order  == OrderGatesByLevel /\ UNCHANGED <<consts, evaluation>>

(* evaluate(inputs), with one value for each of n gates, if the number of  *)
(* inputs fits.  Which wires they are for is not checked.  The inputs are  *)
(* a std::unordered_map.                                                   *)
BeginWalk(n, fits) ==
  /\ pc = "ordered" /\ stage = "idle"
  /\ IsFiniteSet(DOMAIN inputs')
  /\ stage' = IF fits THEN "walk" ELSE "threw"
  /\ wires' = [w \in 1 .. n |-> 0]
  /\ at' = 1
  /\ UNCHANGED <<vars, consts, result>>
Inputs == Cardinality(DOMAIN inputs')

(* Mutants: the inputs are not counted; they have no place among the       *)
(* values.                                                                 *)
StartEvaluationUnchecked == inputs' \in ArgsOf(InputWires) /\ BeginWalk(Len(gates), TRUE)
StartEvaluationShort ==
  /\ inputs' \in ArgsOf(InputWires)
  /\ BeginWalk(Len(gates) - Cardinality(InputWires), Inputs = Cardinality(InputWires))
StartEvaluation ==
  inputs' \in ArgsOf(InputWires) /\ BeginWalk(Len(gates), Inputs = Cardinality(InputWires))

Walk   == FlattenSeq(by_level)
Within(ws) == \A w \in ws : w \in DOMAIN wires
Store(w, x) == /\ wires' = [wires EXCEPT ![w] = x]
               /\ at' = at + 1
               /\ UNCHANGED <<vars, consts, stage, inputs, result>>
Stop(s) == stage' = s /\ UNCHANGED <<vars, consts, inputs, wires, at, result>>

EvaluateInput(g) == /\ g.type = "Inp"
                    /\ g.outs[1] \in DOMAIN inputs /\ Within(Elems(g.outs))
                    /\ Store(g.outs[1], inputs[g.outs[1]])
EvaluateArithmetic(g) == /\ g.type \in Arithmetic
                         /\ Within(Reads(g) \cup Elems(g.outs))
                         /\ Store(g.outs[1], Value(g, consts[g.gid], wires))
MissingInput(g) == g.type = "Inp" /\ g.outs[1] \notin DOMAIN inputs /\ Stop("threw")
InvalidType(g)  == g.type \notin Arithmetic \cup {"Inp"} /\ Stop("threw")
(* A wire past the end of the vector: anything may happen from here on.    *)
BeyondEnd(g)    == /\ \/ g.type \in Arithmetic
                      \/ g.type = "Inp" /\ g.outs[1] \in DOMAIN inputs
                   /\ ~ Within(Reads(g) \cup Elems(g.outs))
                   /\ Stop("outside")

EvaluateGate == /\ stage = "walk" /\ at <= Len(Walk)
                /\ LET g == Walk[at]
                   IN  \/ EvaluateInput(g) \/ EvaluateArithmetic(g) \/ MissingInput(g)
                       \/ InvalidType(g) \/ BeyondEnd(g)

OutputWires == [k \in DOMAIN outputs |-> outputs[k].wire]
FinishEvaluation ==
  /\ stage = "walk" /\ at > Len(Walk)
  /\ IF Within(Elems(OutputWires))
     THEN stage' = "done" /\ result' = [k \in DOMAIN outputs |-> wires[OutputWires[k]]]
     ELSE stage' = "outside" /\ UNCHANGED result
  /\ UNCHANGED <<vars, consts, inputs, wires, at>>
-----------------------------------------------------------------------------
EvalInit == /\ Init
            /\ consts = <<>> /\ stage = "idle" /\ inputs = <<>>
            /\ wires = <<>> /\ at = 1 /\ result = <<>>
Evaluating == StartEvaluation \/ EvaluateGate \/ FinishEvaluation
EvalNext == BuildGate \/ Output \/ Order \/ Evaluating
EvalSpec == EvalInit /\ [][EvalNext]_evalvars
-----------------------------------------------------------------------------
(* What a wire means, by the gates in the order they were added.           *)
Meaning ==
  LET v[w \in 1 .. Len(gates)] ==
        IF gates[w].type = "Inp" THEN inputs[w] ELSE Value(gates[w], consts[w], v)
  IN  v

(* A circuit that is evaluated to the end gives its outputs the values     *)
(* its gates say: the order by levels is as good as the order in which     *)
(* they were added.                                                        *)
EvaluatesToMeaning ==
  stage = "done" => result = [k \in DOMAIN outputs |-> Meaning[outputs[k].wire]]

(* evaluate refuses a circuit only for a kind of gate it does not know,    *)
(* and a call only when its inputs are not those of the circuit; and it    *)
(* never returns a result for other inputs than the circuit's.             *)
RefusesForCause ==
  /\ stage = "threw" => \/ \E g \in Range(gates) : g.type \notin Arithmetic \cup {"Inp"}
                        \/ DOMAIN inputs # InputWires
  /\ stage = "done" => DOMAIN inputs = InputWires

(* Only the wires of a gate with several outputs lie past the end of the   *)
(* vector of values.                                                       *)
OutsideOnlyByVectors ==
  stage = "outside" => \E g \in Range(gates) : Len(g.outs) > 1
=============================================================================
