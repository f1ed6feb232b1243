------------------------------- MODULE Plain -------------------------------
(***************************************************************************)
(* What the online phase promises: the circuit evaluated on the inputs     *)
(* themselves, one level at a time, by a trusted party that hands the      *)
(* outputs to parties 1 and 2.  Nobody chooses the permutations.           *)
(***************************************************************************)
EXTENDS Clear

CONSTANTS Circuits,      \* level-ordered circuits
          InputsOf(_)    \* the inputs a circuit is evaluated on

VARIABLES circ,      \* the circuit, the same for everybody
          inputs,    \* value of every input wire
          perm,      \* permutation of every shuffle name, none before stage 1
          stage,     \* 0: no inputs yet, 1 + l: levels 1 .. l evaluated
          clear,     \* value of every wire, 0 before its stage
          outcome    \* what each online party has been given

plainVars == <<circ, inputs, perm, stage, clear, outcome>>
-----------------------------------------------------------------------------
Unknown == [known |-> FALSE, vals |-> <<>>]

PlainInit ==
  /\ circ \in Circuits
  /\ inputs \in InputsOf(circ)
  /\ perm = <<>>
  /\ stage = 0
  /\ clear = [w \in Wires(circ) |-> 0]
  /\ outcome = [p \in {1, 2} |-> Unknown]

ReadInputs ==
  /\ stage = 0
  /\ stage' = 1
  /\ perm' \in PermsOf(circ)
  /\ clear' = Given(circ, inputs)
  /\ UNCHANGED <<circ, inputs, outcome>>

EvaluateLevel ==
  /\ stage \in DOMAIN circ.levels
  /\ stage' = stage + 1
  /\ clear' = AfterLevel(circ, stage, clear, perm)
  /\ UNCHANGED <<circ, inputs, perm, outcome>>

(* Without outputs a party has nothing to wait for.                        *)
Deliver(p) ==
  /\ stage = EndStage(circ) \/ circ.outputs = <<>>
  /\ ~ outcome[p].known
  /\ outcome' = [outcome EXCEPT ![p] =
                   [known |-> TRUE, vals |-> On(clear, circ.outputs)]]
  /\ UNCHANGED <<circ, inputs, perm, stage, clear>>

PlainNext == ReadInputs \/ EvaluateLevel \/ \E p \in {1, 2} : Deliver(p)
PlainSpec == PlainInit /\ [][PlainNext]_plainVars
=============================================================================
