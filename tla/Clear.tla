------------------------------- MODULE Clear -------------------------------
(***************************************************************************)
(* What a circuit computes: the value of every wire, given the inputs and  *)
(* the permutations of its shuffles.  A shuffle with name m moves element  *)
(* j to position pm[m][j].                                                 *)
(***************************************************************************)
EXTENDS Gates

Names(c) == {g.param : g \in {h \in GatesOf(c) : h.type = "Shuffle"}}
SizeOf(c, m) == Len((CHOOSE g \in GatesOf(c) : g.type = "Shuffle" /\ g.param = m).in1)
PermsOf(c) ==
  {f \in [Names(c) -> UNION {[1 .. SizeOf(c, m) -> 1 .. SizeOf(c, m)] : m \in Names(c)}] :
     \A m \in Names(c) : PermOf(f[m], SizeOf(c, m))}

(* A double shuffle undoes the shuffle param2 and applies param3.          *)
PermOfGate(g, pm) ==
  LET n == Len(g.in1) IN
  IF g.type = "Shuffle" THEN pm[g.param]
  ELSE LET undo == Inverted(pm[g.param2], n)
       IN  [j \in 1 .. n |-> pm[g.param3][undo[j]]]

(* Value of the outputs of gate g, given the values x of in1 and y of in2. *)
Value(g, x, y, pm) ==
  CASE g.type = "Mul"        -> <<Times(x[1], y[1])>>
    [] g.type = "Add"        -> <<Plus(x[1], y[1])>>
    [] g.type = "Sub"        -> <<Minus(x[1], y[1])>>
    [] g.type = "And"        -> <<AndW(x[1], y[1])>>
    [] g.type = "Xor"        -> <<XorW(x[1], y[1])>>
    [] g.type = "ConstAdd"   -> <<Plus(x[1], g.cval)>>
    [] g.type = "ConstMul"   -> <<Times(x[1], g.cval)>>
    [] g.type = "ConvertB2A" -> <<x[1] % 2>>
    [] g.type = "EqualsZero" ->
         IF g.param = Layers - 1 THEN <<IF x[1] = 0 THEN 1 ELSE 0>>
                                 ELSE <<IF x[1] = 0 THEN 0 ELSE 1>>
    [] g.type = "GenCompaction" -> Compaction(x)
    [] g.type = "Reveal"     -> x
    [] g.type = "AddVec"     -> AddedVec(x, y)
    [] g.type = "Flip"       -> Flipped(x)
    [] g.type = "AddConstToVec"    -> AddedConst(x, g.cval, g.param2)
    [] g.type = "PreparePropagate" -> PreparedPropagate(x, g.param)
    [] g.type = "Propagate"     -> Propagated(x, y)
    [] g.type = "PrepareGather" -> PreparedGather(x)
    [] g.type = "Gather"        -> Gathered(x, g.param)
    [] g.type = "Compose"       -> <<Composed(x)>>
    [] g.type = "Reorder"        -> Reordered(x, y)
    [] g.type = "ReorderInverse" -> ReorderedBack(x, y)
    [] g.type \in ShuffleGate /\ ~ g.reverse -> Moved(x, PermOfGate(g, pm))
    [] g.type \in ShuffleGate /\ g.reverse   -> MovedBack(x, PermOfGate(g, pm))

On(w, ins) == [j \in DOMAIN ins |-> w[ins[j]]]

(* The gates of level l in order: a local gate reads earlier ones.         *)
AfterLevel(c, l, w, pm) ==
  LET after[k \in 0 .. Len(c.levels[l])] ==
        IF k = 0 THEN w
        ELSE LET g == c.levels[l][k] IN
             IF g.type \in InputGate THEN after[k - 1]
             ELSE Only({Written(v, g.outs, Value(g, On(v, g.in1), On(v, g.in2), pm))
                          : v \in {after[k - 1]}})
  IN  after[Len(c.levels[l])]

(* The input wires, and the wires after each of the levels.                *)
Given(c, in) == [w \in Wires(c) |-> IF w \in DOMAIN in THEN in[w] ELSE 0]
Meaning(c, in, pm) ==
  LET run[l \in 0 .. Len(c.levels)] ==
        IF l = 0 THEN Given(c, in) ELSE AfterLevel(c, l, run[l - 1], pm)
  IN  run

(* A compaction sorts by flags, and positions to reorder by are the        *)
(* numbers 1 .. n in some order: on other values v the gates mean nothing. *)
Meaningful(c, v) ==
  \A g \in GatesOf(c) :
    /\ g.type = "GenCompaction" => \A j \in DOMAIN g.in1 : v[g.in1[j]] \in {0, 1}
    /\ g.type \in {"Reorder", "ReorderInverse"} => PermOf(On(v, g.in2), Len(g.in2))
=============================================================================
