------------------------------ MODULE Protocol ------------------------------
(***************************************************************************)
(* A program of src/benchmark from start to end, as in test.cpp: for every *)
(* repetition each party constructs an OfflineEvaluator, runs it, meets    *)
(* the others at a barrier, hands what it preprocessed to an               *)
(* OnlineEvaluator and evaluates the circuit.  The three parties pass      *)
(* through this at their own pace; the helper has nothing to do online and *)
(* is free to deal for the next repetition while the others still evaluate.*)
(*                                                                         *)
(* Modules Offline and Online describe the two phases; their variables are *)
(* instantiated here and their steps are the steps of the program.         *)
(***************************************************************************)
EXTENDS Gates, SequencesExt

CONSTANTS Circuits, InputsOf(_),
          Tapes, TapeLen, ChunkSize,    \* of module Offline
          SharedTapes, Segment,         \* of module Online
          RepsOf(_)                     \* numbers of repetitions: option --repeat

Party  == {0, 1, 2}
Online == {1, 2}

VARIABLES gates, random, opc, ctx, preproc, wire, expect, off, ledger,
          circ, inputs, deal, common, pc, level, wires, mine, recv, chan, outvals,
          reps,         \* how often the program repeats
          round,        \* the repetition each party is in
          results       \* outputs of its earlier repetitions

offVars == <<gates, random, opc, ctx, preproc, wire, expect, off, ledger>>
onVars  == <<circ, inputs, deal, common, pc, level, wires, mine, recv, chan, outvals>>
vars    == <<offVars, onVars, reps, round, results>>

(* What the preprocessing sees of the gates of a circuit, in level order.  *)
Flat(c) ==
  [i \in 1 .. Len(FlattenSeq(c.levels)) |->
     LET g == FlattenSeq(c.levels)[i] IN
     [type |-> IF g.type \in LocalGate \cup {"Reveal"} THEN "Local" ELSE g.type,
      n |-> Len(g.in1), param |-> g.param, param2 |-> g.param2, param3 |-> g.param3,
      reverse |-> g.reverse, owner |-> g.owner]]
NoDeals(c) == {<<>>}

Off == INSTANCE Offline WITH Circuits <- {Flat(c) : c \in Circuits}, tape <- random, pc <- opc
On  == INSTANCE Online WITH DealsOf <- NoDeals, tape <- common

(* The generators and the size of a bulk message, as in Offline, and the   *)
(* circuits as callers build them: vectors that fit and are not longer     *)
(* than a word counts, nothing to shuffle left empty (SIMDOGate's          *)
(* constructor reads outs[0]), a name used for one permutation, double     *)
(* shuffles that go forward and are made of shuffles.                      *)
ASSUME TapeAssumption ==
  /\ TapeLen \in Nat \ {0}
  /\ \A t \in Tapes : t \in [{"p01", "p02", "self"} -> [0 .. (TapeLen - 1) -> Nat]]
ASSUME ChunkAssumption == ChunkSize \in Nat \ {0}
ASSUME CircuitAssumption ==
  \A c \in Circuits :
    /\ c.levels \in Seq(Seq(Gate))
    /\ \A g \in GatesOf(c) :
         /\ On!LengthsFit(g) /\ Len(g.in1) <= Modulus
         /\ g.type \in ShuffleGate => g.in1 # <<>>
         /\ g.type = "DoubleShuffle" =>
              /\ ~ g.reverse
              /\ \A h \in GatesOf(c) :
                   h.type = "DoubleShuffle" => h.param \notin {g.param2, g.param3}
    /\ Off!NamesAgree(Flat(c))
-----------------------------------------------------------------------------
Init ==
  /\ circ \in Circuits /\ inputs \in InputsOf(circ)
  /\ gates = Flat(circ)
  /\ random \in Tapes /\ common \in SharedTapes
  /\ opc = [p \in Party |-> IF p = 0 THEN "walk" ELSE "length"]
  /\ ctx = [p \in Party |-> Off!FreshCtx]
  /\ preproc = [p \in Party |-> <<>>]
  /\ wire = [q \in Online |-> <<>>] /\ expect = [q \in Online |-> 0] /\ off = 0
  /\ ledger = <<>>
  /\ deal = [p \in Online |-> <<>>]
  /\ pc = [p \in Online |-> "preprocessing"]
  /\ level = [p \in Online |-> 1]
  /\ wires = [p \in Online |-> [w \in Wires(circ) |-> 0]]
  /\ mine = [p \in Online |-> On!NoWords]
  /\ recv = [p \in Online |-> <<>>] /\ chan = [p \in Online |-> <<>>]
  /\ outvals = [p \in Online |-> <<>>]
  /\ reps \in RepsOf(circ)
  /\ round = [p \in Party |-> 1]
  /\ results = [p \in Online |-> <<>>]

Preprocess(p) ==
  /\ \/ Off!Walk(p)
     \/ p = 0 /\ Off!Send
     \/ p # 0 /\ Off!Recv(p)
  /\ UNCHANGED <<onVars, reps, round, results>>

(* network->sync(): everybody has finished the preprocessing of p's round. *)
Synced(p) == \A q \in Party : round[q] > round[p] \/ (round[q] = round[p] /\ opc[q] = "done")

(* The vectors and permutations of a PreprocGate, counted from 1.          *)
FromOne(v)  == [j \in 1 .. Cardinality(DOMAIN v) |-> v[j - 1]]
PermFromOne(v) == [j \in 1 .. Cardinality(DOMAIN v) |-> v[j - 1] + 1]
(* The entries of the permutation tables a shuffle gate points to.         *)
(* Mutant: party 2's permutations change places.                           *)
HalvesSwapped(p, e) == IF p = 1 THEN [pi |-> e.pi0, rho |-> e.rho0] ELSE [pi |-> e.rho1, rho |-> e.pi1]
Halves(p, e) == IF p = 1 THEN [pi |-> e.pi0, rho |-> e.rho0] ELSE [pi |-> e.pi1, rho |-> e.rho1]

Before(l) == Len(FlattenSeq(SubSeq(circ.levels, 1, l - 1)))
Preprocessed(p, l, k) ==
  LET g == circ.levels[l][k]
      d == preproc[p][Before(l) + k]
      h == Halves(p, ctx[p].perms[g.param + 1])
  IN  CASE g.type \in MultGate \cup AndGate ->
             [a |-> FromOne(d.a), b |-> FromOne(d.b), c |-> FromOne(d.c)]
        [] g.type \in ShuffleGate ->
             [pi |-> PermFromOne(h.pi), rho |-> PermFromOne(h.rho),
              mask |-> FromOne(d.mask), b |-> FromOne(d.b)]
        [] OTHER -> <<>>

(* getPreproc and the constructor of OnlineEvaluator.                      *)
HandOver(p) ==
  /\ pc[p] = "preprocessing"
  /\ opc[p] = "done" /\ Synced(p)
  /\ deal' = [deal EXCEPT ![p] = [l \in DOMAIN circ.levels |->
                [k \in DOMAIN circ.levels[l] |-> Preprocessed(p, l, k)]]]
  /\ pc' = [pc EXCEPT ![p] = "inputs"]
  /\ UNCHANGED <<offVars, circ, inputs, common, level, wires, mine, recv, chan, outvals, reps, round, results>>

Evaluate(p) ==
  /\ On!Step(p)
  /\ UNCHANGED <<offVars, reps, round, results>>

(* The next repetition constructs both evaluators anew, from the same      *)
(* seeds; what is under way on the network stays there.                    *)
(* Mutant: the evaluators of the last repetition are used again.           *)
FreshOfflineKept(p, start) ==
  /\ opc' = [opc EXCEPT ![p] = start]
  /\ preproc' = [preproc EXCEPT ![p] = <<>>]
  /\ round' = [round EXCEPT ![p] = @ + 1]
  /\ UNCHANGED <<gates, random, ctx, wire, expect, off>>
FreshOffline(p, start) ==
  /\ opc' = [opc EXCEPT ![p] = start]
  /\ ctx' = [ctx EXCEPT ![p] = Off!FreshCtx]
  /\ preproc' = [preproc EXCEPT ![p] = <<>>]
  /\ round' = [round EXCEPT ![p] = @ + 1]
  /\ UNCHANGED <<gates, random, wire, expect, off>>
RepeatHelper ==
  /\ round[0] < reps
  /\ opc[0] = "done" /\ Synced(0)
  /\ FreshOffline(0, "walk")
  /\ ledger' = <<>>
  /\ UNCHANGED <<onVars, reps, results>>
Repeat(p) ==
  /\ round[p] < reps
  /\ pc[p] = "done"
  /\ FreshOffline(p, "length")
  /\ results' = [results EXCEPT ![p] = Append(@, outvals[p])]
  /\ pc' = [pc EXCEPT ![p] = "preprocessing"]
  /\ deal' = [deal EXCEPT ![p] = <<>>]
  /\ level' = [level EXCEPT ![p] = 1]
  /\ wires' = [wires EXCEPT ![p] = [w \in Wires(circ) |-> 0]]
  /\ mine' = [mine EXCEPT ![p] = On!NoWords]
  /\ recv' = [recv EXCEPT ![p] = <<>>]
  /\ outvals' = [outvals EXCEPT ![p] = <<>>]
  /\ UNCHANGED <<circ, inputs, common, chan, ledger, reps>>

Run(p) == \/ Preprocess(p)
          \/ p = 0 /\ RepeatHelper
          \/ p # 0 /\ (HandOver(p) \/ Evaluate(p) \/ Repeat(p))
Next == \E p \in Party : Run(p)
Spec == Init /\ [][Next]_vars
(* The parties run until they block in recv or sync: as long as one can    *)
(* go on, one does.                                                        *)
Fairness == WF_vars(Next)
-----------------------------------------------------------------------------
(* What is handed over is what Online assumes of its material: triples of  *)
(* products, and shuffles whose halves and masks fit, gate by gate.        *)
HandsOverCorrelated ==
  (\A p \in Online : pc[p] # "preprocessing") /\ round[1] = round[2] => On!Correlated(circ, deal)

(* Where a program that runs once is; a program that repeats has no        *)
(* counterpart, its wires start from nothing again.                        *)
StageOf(p) == IF pc[p] \in {"preprocessing", "inputs"} THEN 0 ELSE level[p]
BothStage  == IF reps > 1 THEN 0 ELSE IF StageOf(1) < StageOf(2) THEN StageOf(1) ELSE StageOf(2)
InTheClear == INSTANCE Plain WITH
  perm    <- IF BothStage = 0 THEN <<>> ELSE On!JointPerms(circ, deal),
  stage   <- BothStage,
  clear   <- [w \in Wires(circ) |-> IF circ.born[w] <= BothStage
                THEN On!Opening(circ.sort[w], wires[1][w], wires[2][w]) ELSE 0],
  outcome <- [p \in Online |-> IF reps > 1 THEN [known |-> FALSE, vals |-> <<>>]
                               ELSE [known |-> pc[p] = "done", vals |-> outvals[p]]]

(* From the seeds to the outputs of a program that runs once, the three    *)
(* parties together compute what a trusted party evaluating the circuit in *)
(* the clear would.  (SameEveryTime is about further repetitions.)         *)
ProgramComputes == InTheClear!PlainSpec

(* Between repetitions nothing is left over on any connection.             *)
NothingBetween ==
  (\A p \in Online : pc[p] = "done" /\ round[p] = round[0]) /\ opc[0] = "done"
    => wire = [q \in Online |-> <<>>] /\ chan = [p \in Online |-> <<>>]

(* All repetitions give the same outputs, at both parties, although one    *)
(* party may deal or preprocess for the next while another still evaluates,*)
(* and no word of one repetition is left for the next to take as its own.  *)
SameEveryTime ==
  /\ NothingBetween
  /\ \A p \in Online : pc[p] = "done" =>
       \A q \in Online : \A i \in DOMAIN results[q] : results[q][i] = outvals[p]

(* Unless the helper throws in the preprocessing, every repetition ends at *)
(* both online parties.                                                    *)
AllRepetitionsEnd ==
  <>(opc[0] = "threw" \/ \A p \in Online : round[p] = reps /\ pc[p] = "done")
=============================================================================
