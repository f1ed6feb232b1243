------------------------------- MODULE Gates -------------------------------
(***************************************************************************)
(* Gates and circuits as the evaluators see them                           *)
(* (src/src/utils/circuit.h): a gate names the wires it reads and writes,  *)
(* a level-ordered circuit is a list of levels of gates.                   *)
(***************************************************************************)
EXTENDS Vectors, Levels

CONSTANT Layers   \* a Ring word has 2^Layers bits: 5 layers, 32 bits in the code

ASSUME LayersAssumption == Layers \in Nat \ {0} /\ Modulus = 2^(2^Layers)

(* How & and ^ see parts of a word: bit by bit.                            *)
ASSUME BitAssumption ==
  \A x, y \in Ring :
    /\ AndW(x, x) = x
    /\ AndW(x, Modulus - 1) = x
    /\ XorW(x, Modulus - 1) = Modulus - 1 - x
    /\ \A z \in Ring : AndW(x, AndW(y, z)) = AndW(AndW(x, y), z)
    /\ \A k \in 0 .. 2^Layers :
         /\ XorW(x, y) % 2^k = XorW(x % 2^k, y % 2^k)
         /\ XorW(x, y) \div 2^k = XorW(x \div 2^k, y \div 2^k)
         /\ AndW(x, y) % 2^k = AndW(x % 2^k, y % 2^k)

(* param, param2, param3 are the integer parameters of a gate, cval its    *)
(* Ring constant (cval_ of a ConstOpGate, param1 of AddConstToVec).        *)
Gate == [type : Interactive \cup LocalGate \cup InputGate,
         in1 : Seq(Nat), in2 : Seq(Nat), outs : Seq(Nat),
         param : Nat, param2 : Nat, param3 : Nat, cval : Ring,
         reverse : BOOLEAN, owner : {1, 2}]

(* What is shared on the output wires: an arithmetic or a Boolean sharing, *)
(* a Boolean sharing of which only zero or not matters (inside a           *)
(* comparison with zero), or a value both parties know.                    *)
Sort(g) == CASE g.type \in {"BinInp", "And", "Xor"}               -> "bin"
             [] g.type = "EqualsZero" /\ g.param = Layers - 1     -> "bin"
             [] g.type = "EqualsZero" /\ g.param # Layers - 1     -> "zero"
             [] g.type = "Reveal"                                 -> "clear"
             [] OTHER                                             -> "arith"

Wires(c)   == 1 .. c.wires
GatesOf(c) == UNION {{c.levels[l][k] : k \in DOMAIN c.levels[l]} : l \in DOMAIN c.levels}
LevelOf(c, w) == CHOOSE l \in DOMAIN c.levels :
                   \E k \in DOMAIN c.levels[l] : Writes(c.levels[l][k], w)
Producer(c, w) ==
  LET level == c.levels[LevelOf(c, w)]
  IN  level[CHOOSE k \in DOMAIN level : Writes(level[k], w)]

(* Wires get their values in stages: input wires in stage 1, the others    *)
(* when their level has been evaluated.                                    *)
Born(c, w) == IF Producer(c, w).type \in InputGate THEN 1 ELSE 1 + LevelOf(c, w)
(* A circuit carries this per wire, for the properties; no evaluator reads *)
(* it.                                                                     *)
Described(c) == /\ c.born = [w \in Wires(c) |-> Born(c, w)]
                /\ c.sort = [w \in Wires(c) |-> Sort(Producer(c, w))]
EndStage(c) == 1 + Len(c.levels)

(* Widths of the halves that layer `layer' of a comparison with zero ORs.  *)
Half(layer) == 2^(Layers - 1 - layer)

(* The element of a one-element set: {f(s) : s \in {e}} names e's value s.  *)
Only(S) == CHOOSE r \in S : TRUE

(* Store the values v on the wires outs, one after the other.              *)
Written(w, outs, v) ==
  LET stored[j \in 0 .. Len(outs)] ==
        IF j = 0 THEN w ELSE [stored[j - 1] EXCEPT ![outs[j]] = v[j]]
  IN  stored[Len(outs)]
=============================================================================
