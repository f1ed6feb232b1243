---------------------------- MODULE Clear_proofs ----------------------------
(***************************************************************************)
(* Proofs about what module Online computes, for every set of ordered      *)
(* circuits, every input, every material with the correlations of the      *)
(* preprocessing, every word width and every segment size.                 *)
(*                                                                         *)
(* Evaluating the levels one after the other with both shares at hand      *)
(* (Lockstep) opens to the meaning of the circuit.  ContentInv says that each*)
(* party, wherever the other is, holds its half of that evaluation, and that*)
(* what is in flight to it is the part of the stream of its peer that it has*)
(* not read.  From these follow the refinement of module Clear and that    *)
(* everything is a word and every revealed position in range.              *)
(***************************************************************************)
EXTENDS Online_proofs

-----------------------------------------------------------------------------
(***************************************************************************)
(* Both parties in lockstep, one level after the other.                    *)
(***************************************************************************)
(* The words party p finishes gate g with, ws the shares of both parties   *)
(* at the beginning of its level.                                          *)
Both(p, g, d1, d2, ws) ==
  [i \in 1 .. Takes(g) |-> Joined(Kind(g), p, Opened(1, g, d1, Kind(g), ws[1])[i],
                                              Opened(2, g, d2, Kind(g), ws[2])[i])]
(* The shares of party p after gate k of level l, u those before it.       *)
AfterOne(c, d, p, l, k, ws, u) ==
  LET g == c.levels[l][k] IN
  CASE g.type \in InputGate -> u
    [] g.type \in LocalGate -> Written(u, g.outs, Local(p, g, u))
    [] g.type \in Interactive ->
         Written(u, g.outs, Finished(p, g, d[p][l][k], Both(p, g, d[1][l][k], d[2][l][k], ws), u))
Walked(c, d, p, l, ws) ==
  LET f[k \in 0 .. Len(c.levels[l])] ==
        IF k = 0 THEN ws[p] ELSE AfterOne(c, d, p, l, k, ws, f[k - 1])
  IN  f
(* The input shares, and the shares of both after each of the levels.      *)
DrawnBy(c, in, t, p, k) ==
  LET g   == c.levels[1][k]
      val == t[Draws(c, k)]
  IN  CASE p # g.owner                     -> val
        [] p = g.owner /\ g.type = "Inp"   -> Minus(in[g.outs[1]], val)
        [] p = g.owner /\ g.type # "Inp"   -> XorW(in[g.outs[1]], val)
IsInput(c, w, k) == c.levels[1][k].type \in InputGate /\ c.levels[1][k].outs = <<w>>
FirstShare(c, in, t, p) ==
  [w \in Wires(c) |->
     IF \E k \in DOMAIN c.levels[1] : IsInput(c, w, k)
     THEN DrawnBy(c, in, t, p, CHOOSE k \in DOMAIN c.levels[1] : IsInput(c, w, k))
     ELSE 0]
Lockstep(c, in, d, t) ==
  LET f[l \in 0 .. Len(c.levels)] ==
        IF l = 0 THEN [p \in Online |-> FirstShare(c, in, t, p)]
        ELSE [p \in Online |-> Walked(c, d, p, l, f[l - 1])[Len(c.levels[l])]]
  IN  f
(* One gate of the evaluation in the clear.                                *)
ClearGate(g, pm, v) ==
  IF g.type \in InputGate THEN v
  ELSE Written(v, g.outs, Value(g, On(v, g.in1), On(v, g.in2), pm))
-----------------------------------------------------------------------------
(* The recursive functions exist.                                          *)
LEMMA WalkedNext ==
  ASSUME NEW c, NEW d, NEW p, NEW l, NEW ws, Len(c.levels[l]) \in Nat
  PROVE  /\ Walked(c, d, p, l, ws)[0] = ws[p]
         /\ \A k \in 1 .. Len(c.levels[l]) :
              Walked(c, d, p, l, ws)[k] = AfterOne(c, d, p, l, k, ws, Walked(c, d, p, l, ws)[k - 1])
<1> DEFINE n == Len(c.levels[l])
           Base == ws[p]
           G(k, x) == AfterOne(c, d, p, l, k, ws, x)
           Def(f, m) == f = [k \in 0 .. m |-> IF k = 0 THEN Base ELSE G(k, f[k - 1])]
           T == {m \in Nat : \E f : Def(f, m)}
<1> HIDE DEF n, Base, G
<1>1. 0 \in T
  <2>1. Def([k \in 0 .. 0 |-> Base], 0)
    OBVIOUS
  <2>. QED  BY <2>1
<1>2. ASSUME NEW m \in T PROVE m + 1 \in T
  <2>1. PICK f : Def(f, m)
    OBVIOUS
  <2> DEFINE g == [k \in 0 .. (m + 1) |-> IF k = m + 1 THEN G(m + 1, f[m]) ELSE f[k]]
  <2>2. \A k \in 0 .. m : g[k] = f[k]
    OBVIOUS
  <2>3. \A k \in 0 .. (m + 1) : g[k] = IF k = 0 THEN Base ELSE G(k, g[k - 1])
    <3> TAKE k \in 0 .. (m + 1)
    <3>1. CASE k = m + 1
      <4>1. g[k - 1] = f[m] /\ k # 0
        BY <3>1
      <4>. QED  BY <4>1, <3>1
    <3>2. CASE k # m + 1
      <4>1. k \in 0 .. m
        BY <3>2
      <4>2. g[k] = f[k]
        BY <4>1, <2>2
      <4>3. k # 0 => g[k - 1] = f[k - 1]
        BY <4>1
      <4>4. f[k] = IF k = 0 THEN Base ELSE G(k, f[k - 1])
        BY <4>1, <2>1
      <4>. QED  BY <4>2, <4>3, <4>4
    <3>. QED  BY <3>1, <3>2
  <2>4. Def(g, m + 1)
    BY <2>3
  <2> HIDE DEF g, Def
  <2>5. m + 1 \in Nat
    OBVIOUS
  <2>. QED  BY <2>4, <2>5
<1>3. n \in Nat
  BY DEF n
<1>4. n \in T
  <2> HIDE DEF T
  <2>1. T \in SUBSET Nat
    BY DEF T
  <2>. QED  BY <1>1, <1>2, <1>3, <2>1, NatInd
<1> DEFINE F == CHOOSE f : Def(f, n)
<1>5. Def(F, n)
  <2>1. \E f : Def(f, n)
    BY <1>4
  <2> HIDE DEF Def
  <2>. QED  BY <2>1
<1>6. F[0] = Base /\ \A k \in 1 .. n : F[k] = G(k, F[k - 1])
  <2>1. \A k \in 0 .. n : F[k] = IF k = 0 THEN Base ELSE G(k, F[k - 1])
    BY <1>5
  <2> HIDE DEF F, Def
  <2>. QED  BY <1>3, <2>1
<1>7. Walked(c, d, p, l, ws) = F
  BY DEF n, Base, G, Walked
<1> HIDE DEF F
<1>. QED  BY <1>6, <1>7 DEF n, Base, G

LEMMA LockstepNext ==
  ASSUME NEW c, NEW in, NEW d, NEW t, Len(c.levels) \in Nat
  PROVE  /\ Lockstep(c, in, d, t)[0] = [p \in Online |-> FirstShare(c, in, t, p)]
         /\ \A l \in 1 .. Len(c.levels) :
              Lockstep(c, in, d, t)[l] = [p \in Online |->
                Walked(c, d, p, l, Lockstep(c, in, d, t)[l - 1])[Len(c.levels[l])]]
<1> DEFINE n == Len(c.levels)
           Base == [p \in Online |-> FirstShare(c, in, t, p)]
           G(k, x) == [p \in Online |-> Walked(c, d, p, k, x)[Len(c.levels[k])]]
           Def(f, m) == f = [k \in 0 .. m |-> IF k = 0 THEN Base ELSE G(k, f[k - 1])]
           T == {m \in Nat : \E f : Def(f, m)}
<1> HIDE DEF n, Base, G
<1>1. 0 \in T
  <2>1. Def([k \in 0 .. 0 |-> Base], 0)
    OBVIOUS
  <2>. QED  BY <2>1
<1>2. ASSUME NEW m \in T PROVE m + 1 \in T
  <2>1. PICK f : Def(f, m)
    OBVIOUS
  <2> DEFINE g == [k \in 0 .. (m + 1) |-> IF k = m + 1 THEN G(m + 1, f[m]) ELSE f[k]]
  <2>2. \A k \in 0 .. m : g[k] = f[k]
    OBVIOUS
  <2>3. \A k \in 0 .. (m + 1) : g[k] = IF k = 0 THEN Base ELSE G(k, g[k - 1])
    <3> TAKE k \in 0 .. (m + 1)
    <3>1. CASE k = m + 1
      <4>1. g[k - 1] = f[m] /\ k # 0
        BY <3>1
      <4>. QED  BY <4>1, <3>1
    <3>2. CASE k # m + 1
      <4>1. k \in 0 .. m
        BY <3>2
      <4>2. g[k] = f[k]
        BY <4>1, <2>2
      <4>3. k # 0 => g[k - 1] = f[k - 1]
        BY <4>1
      <4>4. f[k] = IF k = 0 THEN Base ELSE G(k, f[k - 1])
        BY <4>1, <2>1
      <4>. QED  BY <4>2, <4>3, <4>4
    <3>. QED  BY <3>1, <3>2
  <2>4. Def(g, m + 1)
    BY <2>3
  <2> HIDE DEF g, Def
  <2>5. m + 1 \in Nat
    OBVIOUS
  <2>. QED  BY <2>4, <2>5
<1>3. n \in Nat
  BY DEF n
<1>4. n \in T
  <2> HIDE DEF T
  <2>1. T \in SUBSET Nat
    BY DEF T
  <2>. QED  BY <1>1, <1>2, <1>3, <2>1, NatInd
<1> DEFINE F == CHOOSE f : Def(f, n)
<1>5. Def(F, n)
  <2>1. \E f : Def(f, n)
    BY <1>4
  <2> HIDE DEF Def
  <2>. QED  BY <2>1
<1>6. F[0] = Base /\ \A k \in 1 .. n : F[k] = G(k, F[k - 1])
  <2>1. \A k \in 0 .. n : F[k] = IF k = 0 THEN Base ELSE G(k, F[k - 1])
    BY <1>5
  <2> HIDE DEF F, Def
  <2>. QED  BY <1>3, <2>1
<1>7. Lockstep(c, in, d, t) = F
  BY DEF n, Base, G, Lockstep
<1> HIDE DEF F
<1>. QED  BY <1>6, <1>7 DEF n, Base, G

LEMMA MeaningNext ==
  ASSUME NEW c, NEW in, NEW pm, Len(c.levels) \in Nat
  PROVE  /\ Meaning(c, in, pm)[0] = Given(c, in)
         /\ \A l \in 1 .. Len(c.levels) :
              Meaning(c, in, pm)[l] = AfterLevel(c, l, Meaning(c, in, pm)[l - 1], pm)
<1> DEFINE n == Len(c.levels)
           Base == Given(c, in)
           G(k, x) == AfterLevel(c, k, x, pm)
           Def(f, m) == f = [k \in 0 .. m |-> IF k = 0 THEN Base ELSE G(k, f[k - 1])]
           T == {m \in Nat : \E f : Def(f, m)}
<1> HIDE DEF n, Base, G
<1>1. 0 \in T
  <2>1. Def([k \in 0 .. 0 |-> Base], 0)
    OBVIOUS
  <2>. QED  BY <2>1
<1>2. ASSUME NEW m \in T PROVE m + 1 \in T
  <2>1. PICK f : Def(f, m)
    OBVIOUS
  <2> DEFINE g == [k \in 0 .. (m + 1) |-> IF k = m + 1 THEN G(m + 1, f[m]) ELSE f[k]]
  <2>2. \A k \in 0 .. m : g[k] = f[k]
    OBVIOUS
  <2>3. \A k \in 0 .. (m + 1) : g[k] = IF k = 0 THEN Base ELSE G(k, g[k - 1])
    <3> TAKE k \in 0 .. (m + 1)
    <3>1. CASE k = m + 1
      <4>1. g[k - 1] = f[m] /\ k # 0
        BY <3>1
      <4>. QED  BY <4>1, <3>1
    <3>2. CASE k # m + 1
      <4>1. k \in 0 .. m
        BY <3>2
      <4>2. g[k] = f[k]
        BY <4>1, <2>2
      <4>3. k # 0 => g[k - 1] = f[k - 1]
        BY <4>1
      <4>4. f[k] = IF k = 0 THEN Base ELSE G(k, f[k - 1])
        BY <4>1, <2>1
      <4>. QED  BY <4>2, <4>3, <4>4
    <3>. QED  BY <3>1, <3>2
  <2>4. Def(g, m + 1)
    BY <2>3
  <2> HIDE DEF g, Def
  <2>5. m + 1 \in Nat
    OBVIOUS
  <2>. QED  BY <2>4, <2>5
<1>3. n \in Nat
  BY DEF n
<1>4. n \in T
  <2> HIDE DEF T
  <2>1. T \in SUBSET Nat
    BY DEF T
  <2>. QED  BY <1>1, <1>2, <1>3, <2>1, NatInd
<1> DEFINE F == CHOOSE f : Def(f, n)
<1>5. Def(F, n)
  <2>1. \E f : Def(f, n)
    BY <1>4
  <2> HIDE DEF Def
  <2>. QED  BY <2>1
<1>6. F[0] = Base /\ \A k \in 1 .. n : F[k] = G(k, F[k - 1])
  <2>1. \A k \in 0 .. n : F[k] = IF k = 0 THEN Base ELSE G(k, F[k - 1])
    BY <1>5
  <2> HIDE DEF F, Def
  <2>. QED  BY <1>3, <2>1
<1>7. Meaning(c, in, pm) = F
  BY DEF n, Base, G, Meaning
<1> HIDE DEF F
<1>. QED  BY <1>6, <1>7 DEF n, Base, G

Storing(f, w, outs, v) ==
  /\ Written(w, outs, v) = f[Len(outs)] /\ f[0] = w
  /\ \A j \in 1 .. Len(outs) : f[j] = [f[j - 1] EXCEPT ![outs[j]] = v[j]]
LEMMA WrittenNext ==
  ASSUME NEW w, NEW outs, NEW v, Len(outs) \in Nat
  PROVE  \E f : Storing(f, w, outs, v)
<1> DEFINE n == Len(outs)
           Base == w
           G(k, x) == [x EXCEPT ![outs[k]] = v[k]]
           Def(f, m) == f = [k \in 0 .. m |-> IF k = 0 THEN Base ELSE G(k, f[k - 1])]
           T == {m \in Nat : \E f : Def(f, m)}
<1> HIDE DEF n, Base, G
<1>1. 0 \in T
  <2>1. Def([k \in 0 .. 0 |-> Base], 0)
    OBVIOUS
  <2>. QED  BY <2>1
<1>2. ASSUME NEW m \in T PROVE m + 1 \in T
  <2>1. PICK f : Def(f, m)
    OBVIOUS
  <2> DEFINE g == [k \in 0 .. (m + 1) |-> IF k = m + 1 THEN G(m + 1, f[m]) ELSE f[k]]
  <2>2. \A k \in 0 .. m : g[k] = f[k]
    OBVIOUS
  <2>3. \A k \in 0 .. (m + 1) : g[k] = IF k = 0 THEN Base ELSE G(k, g[k - 1])
    <3> TAKE k \in 0 .. (m + 1)
    <3>1. CASE k = m + 1
      <4>1. g[k - 1] = f[m] /\ k # 0
        BY <3>1
      <4>. QED  BY <4>1, <3>1
    <3>2. CASE k # m + 1
      <4>1. k \in 0 .. m
        BY <3>2
      <4>2. g[k] = f[k]
        BY <4>1, <2>2
      <4>3. k # 0 => g[k - 1] = f[k - 1]
        BY <4>1
      <4>4. f[k] = IF k = 0 THEN Base ELSE G(k, f[k - 1])
        BY <4>1, <2>1
      <4>. QED  BY <4>2, <4>3, <4>4
    <3>. QED  BY <3>1, <3>2
  <2>4. Def(g, m + 1)
    BY <2>3
  <2> HIDE DEF g, Def
  <2>5. m + 1 \in Nat
    OBVIOUS
  <2>. QED  BY <2>4, <2>5
<1>3. n \in Nat
  BY DEF n
<1>4. n \in T
  <2> HIDE DEF T
  <2>1. T \in SUBSET Nat
    BY DEF T
  <2>. QED  BY <1>1, <1>2, <1>3, <2>1, NatInd
<1> DEFINE F == CHOOSE f : Def(f, n)
<1>5. Def(F, n)
  <2>1. \E f : Def(f, n)
    BY <1>4
  <2> HIDE DEF Def
  <2>. QED  BY <2>1
<1>6. F[0] = Base /\ \A k \in 1 .. n : F[k] = G(k, F[k - 1])
  <2>1. \A k \in 0 .. n : F[k] = IF k = 0 THEN Base ELSE G(k, F[k - 1])
    BY <1>5
  <2> HIDE DEF F, Def
  <2>. QED  BY <1>3, <2>1
<1>7. Written(w, outs, v) = F[n]
  BY DEF n, Base, G, Written
<1>8. Storing(F, w, outs, v)
  <2> HIDE DEF F
  <2>. QED  BY <1>6, <1>7 DEF n, Base, G, Storing
<1> HIDE DEF F
<1>. QED  BY <1>8

Clears(f, c, l, w, pm) ==
  /\ AfterLevel(c, l, w, pm) = f[Len(c.levels[l])] /\ f[0] = w
  /\ \A k \in 1 .. Len(c.levels[l]) : f[k] = ClearGate(c.levels[l][k], pm, f[k - 1])
LEMMA AfterLevelNext ==
  ASSUME NEW c, NEW l, NEW w, NEW pm, Len(c.levels[l]) \in Nat
  PROVE  \E f : Clears(f, c, l, w, pm)
<1> DEFINE n == Len(c.levels[l])
           Base == w
           G(k, x) == LET g == c.levels[l][k] IN
                      IF g.type \in InputGate THEN x
                      ELSE Only({Written(v, g.outs, Value(g, On(v, g.in1), On(v, g.in2), pm))
                                   : v \in {x}})
           Def(f, m) == f = [k \in 0 .. m |-> IF k = 0 THEN Base ELSE G(k, f[k - 1])]
           T == {m \in Nat : \E f : Def(f, m)}
<1> HIDE DEF n, Base, G
<1>1. 0 \in T
  <2>1. Def([k \in 0 .. 0 |-> Base], 0)
    OBVIOUS
  <2>. QED  BY <2>1
<1>2. ASSUME NEW m \in T PROVE m + 1 \in T
  <2>1. PICK f : Def(f, m)
    OBVIOUS
  <2> DEFINE g == [k \in 0 .. (m + 1) |-> IF k = m + 1 THEN G(m + 1, f[m]) ELSE f[k]]
  <2>2. \A k \in 0 .. m : g[k] = f[k]
    OBVIOUS
  <2>3. \A k \in 0 .. (m + 1) : g[k] = IF k = 0 THEN Base ELSE G(k, g[k - 1])
    <3> TAKE k \in 0 .. (m + 1)
    <3>1. CASE k = m + 1
      <4>1. g[k - 1] = f[m] /\ k # 0
        BY <3>1
      <4>. QED  BY <4>1, <3>1
    <3>2. CASE k # m + 1
      <4>1. k \in 0 .. m
        BY <3>2
      <4>2. g[k] = f[k]
        BY <4>1, <2>2
      <4>3. k # 0 => g[k - 1] = f[k - 1]
        BY <4>1
      <4>4. f[k] = IF k = 0 THEN Base ELSE G(k, f[k - 1])
        BY <4>1, <2>1
      <4>. QED  BY <4>2, <4>3, <4>4
    <3>. QED  BY <3>1, <3>2
  <2>4. Def(g, m + 1)
    BY <2>3
  <2> HIDE DEF g, Def
  <2>5. m + 1 \in Nat
    OBVIOUS
  <2>. QED  BY <2>4, <2>5
<1>3. n \in Nat
  BY DEF n
<1>4. n \in T
  <2> HIDE DEF T
  <2>1. T \in SUBSET Nat
    BY DEF T
  <2>. QED  BY <1>1, <1>2, <1>3, <2>1, NatInd
<1> DEFINE F == CHOOSE f : Def(f, n)
<1>5. Def(F, n)
  <2>1. \E f : Def(f, n)
    BY <1>4
  <2> HIDE DEF Def
  <2>. QED  BY <2>1
<1>6. F[0] = Base /\ \A k \in 1 .. n : F[k] = G(k, F[k - 1])
  <2>1. \A k \in 0 .. n : F[k] = IF k = 0 THEN Base ELSE G(k, F[k - 1])
    BY <1>5
  <2> HIDE DEF F, Def
  <2>. QED  BY <1>3, <2>1
<1>7. AfterLevel(c, l, w, pm) = F[n]
  BY DEF n, Base, G, AfterLevel
<1> HIDE DEF F
<1>8. ASSUME NEW k, NEW x PROVE G(k, x) = ClearGate(c.levels[l][k], pm, x)
  BY DEF G, ClearGate, Only
<1>9. Clears(F, c, l, w, pm)
  BY <1>6, <1>7, <1>8 DEF n, Base, Clears
<1>. QED  BY <1>9

NewWalk(f, p, got) ==
  /\ NewWires(p, got) = f[Len(circ.levels[level[p]])].w
  /\ f[0] = [w |-> wires[p], idx |-> [kind \in WordKind |-> 0]]
  /\ \A k \in 1 .. Len(circ.levels[level[p]]) : f[k] = AfterGate(p, got, k, f[k - 1])
LEMMA NewWiresNext ==
  ASSUME NEW p, NEW got, Len(circ.levels[level[p]]) \in Nat
  PROVE  \E f : NewWalk(f, p, got)
<1> DEFINE n == Len(circ.levels[level[p]])
           Base == [w |-> wires[p], idx |-> [kind \in WordKind |-> 0]]
           G(k, x) == Only({AfterGate(p, got, k, s) : s \in {x}})
           Def(f, m) == f = [k \in 0 .. m |-> IF k = 0 THEN Base ELSE G(k, f[k - 1])]
           T == {m \in Nat : \E f : Def(f, m)}
<1> HIDE DEF n, Base, G
<1>1. 0 \in T
  <2>1. Def([k \in 0 .. 0 |-> Base], 0)
    OBVIOUS
  <2>. QED  BY <2>1
<1>2. ASSUME NEW m \in T PROVE m + 1 \in T
  <2>1. PICK f : Def(f, m)
    OBVIOUS
  <2> DEFINE g == [k \in 0 .. (m + 1) |-> IF k = m + 1 THEN G(m + 1, f[m]) ELSE f[k]]
  <2>2. \A k \in 0 .. m : g[k] = f[k]
    OBVIOUS
  <2>3. \A k \in 0 .. (m + 1) : g[k] = IF k = 0 THEN Base ELSE G(k, g[k - 1])
    <3> TAKE k \in 0 .. (m + 1)
    <3>1. CASE k = m + 1
      <4>1. g[k - 1] = f[m] /\ k # 0
        BY <3>1
      <4>. QED  BY <4>1, <3>1
    <3>2. CASE k # m + 1
      <4>1. k \in 0 .. m
        BY <3>2
      <4>2. g[k] = f[k]
        BY <4>1, <2>2
      <4>3. k # 0 => g[k - 1] = f[k - 1]
        BY <4>1
      <4>4. f[k] = IF k = 0 THEN Base ELSE G(k, f[k - 1])
        BY <4>1, <2>1
      <4>. QED  BY <4>2, <4>3, <4>4
    <3>. QED  BY <3>1, <3>2
  <2>4. Def(g, m + 1)
    BY <2>3
  <2> HIDE DEF g, Def
  <2>5. m + 1 \in Nat
    OBVIOUS
  <2>. QED  BY <2>4, <2>5
<1>3. n \in Nat
  BY DEF n
<1>4. n \in T
  <2> HIDE DEF T
  <2>1. T \in SUBSET Nat
    BY DEF T
  <2>. QED  BY <1>1, <1>2, <1>3, <2>1, NatInd
<1> DEFINE F == CHOOSE f : Def(f, n)
<1>5. Def(F, n)
  <2>1. \E f : Def(f, n)
    BY <1>4
  <2> HIDE DEF Def
  <2>. QED  BY <2>1
<1>6. F[0] = Base /\ \A k \in 1 .. n : F[k] = G(k, F[k - 1])
  <2>1. \A k \in 0 .. n : F[k] = IF k = 0 THEN Base ELSE G(k, F[k - 1])
    BY <1>5
  <2> HIDE DEF F, Def
  <2>. QED  BY <1>3, <2>1
<1>7. NewWires(p, got) = F[n].w
  BY DEF n, Base, G, NewWires
<1> HIDE DEF F
<1>8. ASSUME NEW k, NEW x PROVE G(k, x) = AfterGate(p, got, k, x)
  BY DEF G, Only
<1>. QED  BY <1>6, <1>7, <1>8 DEF n, Base, NewWalk
-----------------------------------------------------------------------------
(* Storing values on wires that differ.                                    *)
OnWires(D, w) == w = [x \in D |-> w[x]]
Stores(r, D, w, outs, v) ==
  /\ OnWires(D, r)
  /\ \A j \in 1 .. Len(outs) : r[outs[j]] = v[j]
  /\ \A x \in D : x \notin Elems(outs) => r[x] = w[x]

LEMMA WrittenStores ==
  ASSUME NEW D, NEW w, OnWires(D, w), NEW outs \in Seq(Nat), NEW v, Elems(outs) \subseteq D,
         \A i, j \in DOMAIN outs : outs[i] = outs[j] => i = j
  PROVE  Stores(Written(w, outs, v), D, w, outs, v)
<1> DEFINE n == Len(outs)
<1>1. n \in Nat /\ DOMAIN outs = 1 .. n
  OBVIOUS
<1>2. \A i \in 1 .. n : \A j \in 1 .. n : outs[i] = outs[j] => i = j
  BY <1>1
<1>3. \A j \in 1 .. n : outs[j] \in D
  BY <1>1 DEF Elems
<1>0. PICK f : Storing(f, w, outs, v)
  BY <1>1, WrittenNext
<1>4. /\ Written(w, outs, v) = f[n] /\ f[0] = w
      /\ \A j \in 1 .. n : f[j] = [f[j - 1] EXCEPT ![outs[j]] = v[j]]
  BY <1>0 DEF Storing
<1> HIDE DEF n
<1> DEFINE Good(k) == /\ OnWires(D, f[k])
                      /\ \A j \in 1 .. k : f[k][outs[j]] = v[j]
                      /\ \A x \in D : (\A j \in 1 .. k : outs[j] # x) => f[k][x] = w[x]
           T == {k \in Nat : k <= n => Good(k)}
<1>5. 0 \in T
  BY <1>4
<1>6. ASSUME NEW k \in T PROVE k + 1 \in T
  <2> SUFFICES ASSUME k + 1 <= n PROVE Good(k + 1)
    OBVIOUS
  <2>1. k \in Nat /\ k <= n /\ k + 1 \in 1 .. n /\ (k + 1) - 1 = k
    BY <1>1
  <2>2. Good(k)
    BY <2>1
  <2>3. f[k + 1] = [f[k] EXCEPT ![outs[k + 1]] = v[k + 1]]
    BY <1>4, <2>1
  <2>4. outs[k + 1] \in D /\ DOMAIN f[k] = D
    BY <1>3, <2>1, <2>2 DEF OnWires
  <2>5. OnWires(D, f[k + 1]) /\ f[k + 1][outs[k + 1]] = v[k + 1]
    BY <2>3, <2>4 DEF OnWires
  <2>6. \A x \in D : x # outs[k + 1] => f[k + 1][x] = f[k][x]
    BY <2>3, <2>4
  <2>7. ASSUME NEW j \in 1 .. (k + 1) PROVE f[k + 1][outs[j]] = v[j]
    <3>1. CASE j = k + 1
      BY <2>5, <3>1
    <3>2. CASE j # k + 1
      <4>1. j \in 1 .. k /\ j \in 1 .. n
        BY <1>1, <2>1, <3>2
      <4>2. outs[j] # outs[k + 1] /\ outs[j] \in D
        BY <1>2, <1>3, <2>1, <3>2, <4>1
      <4>3. f[k][outs[j]] = v[j]
        BY <2>2, <4>1
      <4>. QED  BY <2>6, <4>2, <4>3
    <3>. QED  BY <3>1, <3>2
  <2>8. ASSUME NEW x \in D, \A j \in 1 .. (k + 1) : outs[j] # x PROVE f[k + 1][x] = w[x]
    <3>1. x # outs[k + 1] /\ \A j \in 1 .. k : outs[j] # x
      BY <2>1, <2>8
    <3>. QED  BY <2>2, <2>6, <3>1
  <2>. QED  BY <2>5, <2>7, <2>8
<1>7. T = Nat
  <2> HIDE DEF T
  <2>1. T \in SUBSET Nat
    BY DEF T
  <2>. QED  BY <1>5, <1>6, <2>1, NatInd
<1>8. Good(n)
  BY <1>1, <1>7
<1>9. \A x \in D : x \notin Elems(outs) => \A j \in 1 .. n : outs[j] # x
  BY <1>1 DEF Elems
<1>. QED  BY <1>4, <1>8, <1>9 DEF Stores, n
-----------------------------------------------------------------------------
(* Gates of a circuit and the wires between them.                          *)
LEMMA GateAt ==
  ASSUME NEW c \in Circuits, NEW l \in 1 .. Len(c.levels), NEW k \in 1 .. Len(c.levels[l])
  PROVE  LET g == c.levels[l][k] IN
         /\ l \in DOMAIN c.levels /\ k \in DOMAIN c.levels[l]
         /\ g \in Gate /\ g \in GatesOf(c) /\ Elems(g.outs) \subseteq Wires(c)
         /\ \A i, j \in DOMAIN g.outs : g.outs[i] = g.outs[j] => i = j
         /\ LengthsFit(g)
         /\ g.type \in InputGate => l = 1
<1> DEFINE g == c.levels[l][k]
<1>1. /\ c.levels \in Seq(Seq(Gate)) /\ InOrder(c.levels) /\ WellShaped(c)
  BY CircuitAssumption, ShapeAssumption
<1>2. l \in DOMAIN c.levels /\ c.levels[l] \in Seq(Gate)
  BY <1>1
<1>3. k \in DOMAIN c.levels[l] /\ g \in Gate
  BY <1>2
<1>4. g \in GatesOf(c)
  BY <1>2, <1>3 DEF GatesOf
<1>5. g.type \in InputGate => l = 1
  BY <1>1, <1>2, <1>3 DEF InOrder
<1> HIDE DEF g
<1>6. /\ Elems(g.outs) \subseteq Wires(c) /\ LengthsFit(g)
      /\ \A i, j \in DOMAIN g.outs : g.outs[i] = g.outs[j] => i = j
  BY <1>1, <1>4 DEF WellShaped
<1>. QED  BY <1>2, <1>3, <1>4, <1>5, <1>6 DEF g

(* Wire w has its value after gate k of level l: it is an input, or the    *)
(* gate that writes it has been evaluated.                                 *)
Ready(c, l, k, w) ==
  \/ \E j \in 1 .. Len(c.levels[1]) : c.levels[1][j].type \in InputGate /\ Writes(c.levels[1][j], w)
  \/ \E i \in 1 .. (l - 1) : \E j \in 1 .. Len(c.levels[i]) : Writes(c.levels[i][j], w)
  \/ \E j \in 1 .. k : Writes(c.levels[l][j], w)

LEMMA OneWriter ==
  ASSUME NEW c \in Circuits, NEW l \in 1 .. Len(c.levels), NEW k \in 1 .. Len(c.levels[l]),
         NEW i \in 1 .. Len(c.levels), NEW j \in 1 .. Len(c.levels[i]),
         NEW w, Writes(c.levels[l][k], w), Writes(c.levels[i][j], w)
  PROVE  i = l /\ j = k
<1>1. w \in Wires(c)
  BY GateAt DEF Writes
<1>2. OneProducer(c.levels, c.wires) /\ c.levels \in Seq(Seq(Gate))
  BY CircuitAssumption
<1>3. PICK a \in DOMAIN c.levels : \E b \in DOMAIN c.levels[a] :
        \A x \in DOMAIN c.levels : \A y \in DOMAIN c.levels[x] :
          Writes(c.levels[x][y], w) => x = a /\ y = b
  BY <1>1, <1>2 DEF OneProducer, Wires
<1>4. PICK b \in DOMAIN c.levels[a] :
        \A x \in DOMAIN c.levels : \A y \in DOMAIN c.levels[x] :
          Writes(c.levels[x][y], w) => x = a /\ y = b
  BY <1>3
<1>5. /\ l \in DOMAIN c.levels /\ k \in DOMAIN c.levels[l]
      /\ i \in DOMAIN c.levels /\ j \in DOMAIN c.levels[i]
  BY GateAt
<1>. QED  BY <1>4, <1>5

LEMMA ProducerIs ==
  ASSUME NEW c \in Circuits, NEW l \in 1 .. Len(c.levels), NEW k \in 1 .. Len(c.levels[l]),
         NEW w, Writes(c.levels[l][k], w)
  PROVE  LevelOf(c, w) = l /\ Producer(c, w) = c.levels[l][k]
<1>1. c.levels \in Seq(Seq(Gate))
  BY CircuitAssumption
<1>2. /\ DOMAIN c.levels = 1 .. Len(c.levels)
      /\ \A i \in 1 .. Len(c.levels) : DOMAIN c.levels[i] = 1 .. Len(c.levels[i])
  BY <1>1
<1>3. \A i \in 1 .. Len(c.levels) : \A j \in 1 .. Len(c.levels[i]) :
        Writes(c.levels[i][j], w) => i = l /\ j = k
  BY OneWriter
<1>4. LevelOf(c, w) = l
  <2>1. l \in DOMAIN c.levels /\ \E j \in DOMAIN c.levels[l] : Writes(c.levels[l][j], w)
    BY <1>2
  <2>2. \A i \in DOMAIN c.levels :
          (\E j \in DOMAIN c.levels[i] : Writes(c.levels[i][j], w)) => i = l
    BY <1>2, <1>3
  <2>. QED  BY <2>1, <2>2 DEF LevelOf
<1>5. (CHOOSE j \in DOMAIN c.levels[l] : Writes(c.levels[l][j], w)) = k
  BY <1>2, <1>3
<1>. QED  BY <1>4, <1>5 DEF Producer

(* A gate that is evaluated writes no wire that has its value.             *)
LEMMA WritesNew ==
  ASSUME NEW c \in Circuits, NEW l \in 1 .. Len(c.levels), NEW k \in 1 .. Len(c.levels[l]),
         c.levels[l][k].type \notin InputGate, NEW w, Ready(c, l, k - 1, w)
  PROVE  w \notin Elems(c.levels[l][k].outs)
<1> SUFFICES ASSUME Writes(c.levels[l][k], w) PROVE FALSE
  BY DEF Writes
<1>1. Len(c.levels) \in Nat /\ Len(c.levels[l]) \in Nat
  BY BeforeFacts
<1>2. ASSUME NEW j \in 1 .. Len(c.levels[1]), c.levels[1][j].type \in InputGate, Writes(c.levels[1][j], w)
      PROVE  FALSE
  <2>1. 1 \in 1 .. Len(c.levels)
    BY <1>1
  <2>2. l = 1 /\ k = j
    BY <1>2, <2>1, OneWriter
  <2>. QED  BY <1>2, <2>2
<1>3. ASSUME NEW i \in 1 .. (l - 1), NEW j \in 1 .. Len(c.levels[i]), Writes(c.levels[i][j], w)
      PROVE  FALSE
  <2>1. i \in 1 .. Len(c.levels) /\ i # l
    BY <1>1
  <2>. QED  BY <1>3, <2>1, OneWriter
<1>4. ASSUME NEW j \in 1 .. (k - 1), Writes(c.levels[l][j], w) PROVE FALSE
  <2>1. j \in 1 .. Len(c.levels[l]) /\ j # k
    BY <1>1
  <2>. QED  BY <1>4, <2>1, OneWriter
<1>. QED  BY <1>2, <1>3, <1>4 DEF Ready

LEMMA ReadyGrows ==
  ASSUME NEW c, NEW l, NEW k \in Nat, NEW j \in 0 .. k, NEW w, Ready(c, l, j, w)
  PROVE  Ready(c, l, k, w)
<1>1. \A m \in 1 .. j : m \in 1 .. k
  OBVIOUS
<1>. QED  BY <1>1 DEF Ready

LEMMA ReadyNext ==
  ASSUME NEW c \in Circuits, NEW l \in 1 .. Len(c.levels), NEW w
  PROVE  Ready(c, l + 1, 0, w) <=> Ready(c, l, Len(c.levels[l]), w)
<1>1. Len(c.levels) \in Nat
  BY BeforeFacts
<1>2. \A i : i \in 1 .. ((l + 1) - 1) <=> i \in 1 .. (l - 1) \/ i = l
  BY <1>1
<1>3. \A i : i \notin 1 .. 0
  OBVIOUS
<1>. QED  BY <1>2, <1>3 DEF Ready

(* The values of the wires after each gate of level l, whatever they are.  *)
Walks(c, l, f) ==
  \A k \in 1 .. Len(c.levels[l]) :
    IF c.levels[l][k].type \in InputGate THEN f[k] = f[k - 1]
    ELSE \E o : f[k] = Written(f[k - 1], c.levels[l][k].outs, o)
Settled(c, l, f, k) ==
  /\ OnWires(Wires(c), f[k])
  /\ \A j \in 0 .. k : \A w \in Wires(c) : Ready(c, l, j, w) => f[k][w] = f[j][w]
  /\ \A w \in Wires(c) : (\A j \in 1 .. k : ~ Writes(c.levels[l][j], w)) => f[k][w] = f[0][w]

LEMMA GateStores ==
  ASSUME NEW c \in Circuits, NEW l \in 1 .. Len(c.levels), NEW k \in 1 .. Len(c.levels[l]),
         NEW u, OnWires(Wires(c), u), NEW o
  PROVE  Stores(Written(u, c.levels[l][k].outs, o), Wires(c), u, c.levels[l][k].outs, o)
<1> DEFINE outs == c.levels[l][k].outs
<1>1. /\ Elems(outs) \subseteq Wires(c) /\ c.levels[l][k] \in Gate
      /\ \A i, j \in DOMAIN outs : outs[i] = outs[j] => i = j
  BY GateAt
<1>2. outs \in Seq(Nat)
  BY <1>1 DEF Gate
<1>. QED  BY <1>1, <1>2, WrittenStores

LEMMA WalkSettles ==
  ASSUME NEW c \in Circuits, NEW l \in 1 .. Len(c.levels), NEW f, Walks(c, l, f),
         OnWires(Wires(c), f[0])
  PROVE  \A k \in 0 .. Len(c.levels[l]) : Settled(c, l, f, k)
<1> DEFINE n == Len(c.levels[l])
           T == {k \in Nat : k <= n => Settled(c, l, f, k)}
<1>1. n \in Nat
  BY BeforeFacts
<1>2. 0 \in T
  <2>1. \A j \in 0 .. 0 : j = 0
    OBVIOUS
  <2>. QED  BY <2>1 DEF Settled
<1>3. ASSUME NEW k \in T PROVE k + 1 \in T
  <2> SUFFICES ASSUME k + 1 <= n PROVE Settled(c, l, f, k + 1)
    OBVIOUS
  <2>1. k \in Nat /\ k <= n /\ k + 1 \in 1 .. n /\ (k + 1) - 1 = k
    BY <1>1
  <2>2. Settled(c, l, f, k)
    BY <2>1
  <2> DEFINE g == c.levels[l][k + 1]
  <2>3. /\ OnWires(Wires(c), f[k + 1])
        /\ \A w \in Wires(c) : Ready(c, l, k, w) => f[k + 1][w] = f[k][w]
        /\ \A w \in Wires(c) : ~ Writes(g, w) => f[k + 1][w] = f[k][w]
    <3>1. CASE g.type \in InputGate
      <4>1. f[k + 1] = f[k]
        BY <2>1, <3>1 DEF Walks
      <4>. QED  BY <2>2, <4>1 DEF Settled
    <3>2. CASE g.type \notin InputGate
      <4>1. PICK o : f[k + 1] = Written(f[k], g.outs, o)
        BY <2>1, <3>2 DEF Walks
      <4>2. OnWires(Wires(c), f[k])
        BY <2>2 DEF Settled
      <4>3. Stores(f[k + 1], Wires(c), f[k], g.outs, o)
        BY <2>1, <4>1, <4>2, GateStores
      <4>4. \A w : Ready(c, l, k, w) => w \notin Elems(g.outs)
        BY <2>1, <3>2, WritesNew
      <4> HIDE DEF g
      <4>. QED  BY <4>3, <4>4 DEF Stores, Writes
    <3>. QED  BY <3>1, <3>2
  <2>4. ASSUME NEW j \in 0 .. (k + 1), NEW w \in Wires(c), Ready(c, l, j, w)
        PROVE  f[k + 1][w] = f[j][w]
    <3>1. CASE j = k + 1
      BY <3>1
    <3>2. CASE j # k + 1
      <4>1. j \in 0 .. k
        BY <2>1, <3>2
      <4>2. Ready(c, l, k, w)
        BY <2>1, <2>4, <4>1, ReadyGrows
      <4>. QED  BY <2>2, <2>3, <2>4, <4>1, <4>2 DEF Settled
    <3>. QED  BY <3>1, <3>2
  <2>5. ASSUME NEW w \in Wires(c), \A j \in 1 .. (k + 1) : ~ Writes(c.levels[l][j], w)
        PROVE  f[k + 1][w] = f[0][w]
    <3>1. k + 1 \in 1 .. (k + 1) /\ \A j \in 1 .. k : j \in 1 .. (k + 1)
      BY <2>1
    <3>. QED  BY <2>2, <2>3, <2>5, <3>1 DEF Settled
  <2>. QED  BY <2>3, <2>4, <2>5 DEF Settled
<1>4. T = Nat
  <2> HIDE DEF T
  <2>1. T \in SUBSET Nat
    BY DEF T
  <2>. QED  BY <1>2, <1>3, <2>1, NatInd
<1>. QED  BY <1>1, <1>4

(* The values of the wires after each of the levels.                       *)
Runs(c, r) ==
  /\ OnWires(Wires(c), r[0])
  /\ \A l \in 1 .. Len(c.levels) :
       \E f : Walks(c, l, f) /\ f[0] = r[l - 1] /\ f[Len(c.levels[l])] = r[l]
Steady(c, r, l) ==
  /\ OnWires(Wires(c), r[l])
  /\ \A m \in 0 .. l : \A w \in Wires(c) : Ready(c, m + 1, 0, w) => r[l][w] = r[m][w]
  /\ \A w \in Wires(c) : ~ Ready(c, l + 1, 0, w) => r[l][w] = r[0][w]

LEMMA RunSettles ==
  ASSUME NEW c \in Circuits, NEW r, Runs(c, r)
  PROVE  \A l \in 0 .. Len(c.levels) : Steady(c, r, l)
<1> DEFINE n == Len(c.levels)
           T == {l \in Nat : l <= n => Steady(c, r, l)}
<1>1. n \in Nat /\ \A l \in 1 .. n : Len(c.levels[l]) \in Nat
  BY BeforeFacts
<1>2. 0 \in T
  <2>1. \A m \in 0 .. 0 : m = 0
    OBVIOUS
  <2>. QED  BY <2>1 DEF Steady, Runs
<1>3. ASSUME NEW l \in T PROVE l + 1 \in T
  <2> SUFFICES ASSUME l + 1 <= n PROVE Steady(c, r, l + 1)
    OBVIOUS
  <2>1. l \in Nat /\ l <= n /\ l + 1 \in 1 .. n /\ (l + 1) - 1 = l
    BY <1>1
  <2>2. Steady(c, r, l)
    BY <2>1
  <2>3. PICK f : Walks(c, l + 1, f) /\ f[0] = r[l] /\ f[Len(c.levels[l + 1])] = r[l + 1]
    BY <2>1 DEF Runs
  <2> DEFINE m == Len(c.levels[l + 1])
  <2>4. m \in Nat
    BY <1>1, <2>1
  <2>5. OnWires(Wires(c), f[0])
    BY <2>2, <2>3 DEF Steady
  <2>6. Settled(c, l + 1, f, m)
    <3>1. \A k \in 0 .. Len(c.levels[l + 1]) : Settled(c, l + 1, f, k)
      BY <2>1, <2>3, <2>5, WalkSettles
    <3>2. m \in 0 .. Len(c.levels[l + 1])
      BY <2>4
    <3> HIDE DEF m
    <3>. QED  BY <3>1, <3>2
  <2>7. \A w \in Wires(c) : Ready(c, l + 1, 0, w) => r[l + 1][w] = r[l][w]
    <3>1. 0 \in 0 .. m
      BY <2>4
    <3>. QED  BY <2>3, <2>6, <3>1 DEF Settled
  <2>8. ASSUME NEW j \in 0 .. (l + 1), NEW w \in Wires(c), Ready(c, j + 1, 0, w)
        PROVE  r[l + 1][w] = r[j][w]
    <3>1. CASE j = l + 1
      BY <3>1
    <3>2. CASE j # l + 1
      <4>1. j \in 0 .. l
        BY <2>1, <3>2
      <4>2. Ready(c, l + 1, 0, w)
        <5>1. \A i \in 1 .. ((j + 1) - 1) : i \in 1 .. ((l + 1) - 1)
          BY <2>1, <4>1
        <5>2. \A i : i \notin 1 .. 0
          OBVIOUS
        <5>. QED  BY <2>8, <5>1, <5>2 DEF Ready
      <4>. QED  BY <2>2, <2>7, <2>8, <4>1, <4>2 DEF Steady
    <3>. QED  BY <3>1, <3>2
  <2>9. ASSUME NEW w \in Wires(c), ~ Ready(c, (l + 1) + 1, 0, w) PROVE r[l + 1][w] = r[0][w]
    <3>1. ~ Ready(c, l + 1, m, w)
      BY <2>1, <2>9, ReadyNext
    <3>2. ~ Ready(c, l + 1, 0, w) /\ \A j \in 1 .. m : ~ Writes(c.levels[l + 1][j], w)
      <4>1. 0 \in 0 .. m
        BY <2>4
      <4>. QED  BY <2>4, <3>1, <4>1, ReadyGrows DEF Ready
    <3>3. r[l + 1][w] = r[l][w]
      BY <2>3, <2>6, <3>2 DEF Settled
    <3>. QED  BY <2>2, <3>2, <3>3 DEF Steady
  <2>10. OnWires(Wires(c), r[l + 1])
    BY <2>3, <2>6 DEF Settled
  <2>. QED  BY <2>8, <2>9, <2>10 DEF Steady
<1>4. T = Nat
  <2> HIDE DEF T
  <2>1. T \in SUBSET Nat
    BY DEF T
  <2>. QED  BY <1>2, <1>3, <2>1, NatInd
<1>. QED  BY <1>1, <1>4

LEMMA MeaningRuns ==
  ASSUME NEW c \in Circuits, NEW in, NEW pm
  PROVE  Runs(c, Meaning(c, in, pm))
<1> DEFINE r == Meaning(c, in, pm)
<1>1. Len(c.levels) \in Nat /\ \A l \in 1 .. Len(c.levels) : Len(c.levels[l]) \in Nat
  BY BeforeFacts
<1>2. r[0] = Given(c, in) /\ \A l \in 1 .. Len(c.levels) : r[l] = AfterLevel(c, l, r[l - 1], pm)
  BY <1>1, MeaningNext
<1> HIDE DEF r
<1>3. OnWires(Wires(c), r[0])
  BY <1>2 DEF Given, OnWires
<1>4. ASSUME NEW l \in 1 .. Len(c.levels)
      PROVE  \E f : Walks(c, l, f) /\ f[0] = r[l - 1] /\ f[Len(c.levels[l])] = r[l]
  <2>1. Len(c.levels[l]) \in Nat
    BY <1>1
  <2>0. PICK f : Clears(f, c, l, r[l - 1], pm)
    BY <2>1, AfterLevelNext
  <2>2. /\ AfterLevel(c, l, r[l - 1], pm) = f[Len(c.levels[l])] /\ f[0] = r[l - 1]
        /\ \A k \in 1 .. Len(c.levels[l]) : f[k] = ClearGate(c.levels[l][k], pm, f[k - 1])
    BY <2>0 DEF Clears
  <2>3. Walks(c, l, f)
    <3> SUFFICES ASSUME NEW k \in 1 .. Len(c.levels[l])
                 PROVE  IF c.levels[l][k].type \in InputGate THEN f[k] = f[k - 1]
                        ELSE \E o : f[k] = Written(f[k - 1], c.levels[l][k].outs, o)
      BY DEF Walks
    <3>. QED  BY <2>2 DEF ClearGate
  <2>. QED  BY <1>2, <2>2, <2>3
<1>. QED  BY <1>3, <1>4 DEF Runs, r

LEMMA GateKinds ==
  ASSUME NEW g \in Gate
  PROVE  /\ g.type \in InputGate \/ g.type \in LocalGate \/ g.type \in Interactive
         /\ g.type \in InputGate => g.type \notin LocalGate /\ g.type \notin Interactive
         /\ g.type \in LocalGate => g.type \notin Interactive
BY DEF Gate, InputGate, LocalGate, Interactive, MultGate, AndGate, ShuffleGate

LEMMA AfterInput ==
  ASSUME NEW c \in Circuits, NEW d, NEW p, NEW l \in 1 .. Len(c.levels),
         NEW k \in 1 .. Len(c.levels[l]), NEW ws, NEW u, c.levels[l][k].type \in InputGate
  PROVE  AfterOne(c, d, p, l, k, ws, u) = u
<1> DEFINE g == c.levels[l][k]
           ol == Local(p, g, u)
           oi == Finished(p, g, d[p][l][k], Both(p, g, d[1][l][k], d[2][l][k], ws), u)
<1>1. g \in Gate
  BY GateAt
<1>2. /\ g.type \in InputGate => g.type \notin LocalGate /\ g.type \notin Interactive
      /\ g.type \in LocalGate => g.type \notin Interactive
  BY <1>1, GateKinds
<1>3. AfterOne(c, d, p, l, k, ws, u) =
        CASE g.type \in InputGate -> u
          [] g.type \in LocalGate -> Written(u, g.outs, ol)
          [] g.type \in Interactive -> Written(u, g.outs, oi)
  BY DEF AfterOne
<1>4. g.type \in InputGate
  OBVIOUS
<1> HIDE DEF g, ol, oi
<1>. QED  BY <1>2, <1>3, <1>4 DEF g, ol, oi

LEMMA AfterLocal ==
  ASSUME NEW c \in Circuits, NEW d, NEW p, NEW l \in 1 .. Len(c.levels),
         NEW k \in 1 .. Len(c.levels[l]), NEW ws, NEW u, c.levels[l][k].type \in LocalGate
  PROVE  AfterOne(c, d, p, l, k, ws, u) = Written(u, c.levels[l][k].outs, Local(p, c.levels[l][k], u))
<1> DEFINE g == c.levels[l][k]
           ol == Local(p, g, u)
           oi == Finished(p, g, d[p][l][k], Both(p, g, d[1][l][k], d[2][l][k], ws), u)
<1>1. g \in Gate
  BY GateAt
<1>2. /\ g.type \in InputGate => g.type \notin LocalGate /\ g.type \notin Interactive
      /\ g.type \in LocalGate => g.type \notin Interactive
  BY <1>1, GateKinds
<1>3. AfterOne(c, d, p, l, k, ws, u) =
        CASE g.type \in InputGate -> u
          [] g.type \in LocalGate -> Written(u, g.outs, ol)
          [] g.type \in Interactive -> Written(u, g.outs, oi)
  BY DEF AfterOne
<1>4. g.type \in LocalGate
  OBVIOUS
<1> HIDE DEF g, ol, oi
<1>. QED  BY <1>2, <1>3, <1>4 DEF g, ol, oi

(* What an interactive gate leaves.                                        *)
Left(c, d, p, l, k, ws, u) ==
  Finished(p, c.levels[l][k], d[p][l][k],
           Both(p, c.levels[l][k], d[1][l][k], d[2][l][k], ws), u)
LEMMA AfterInteractive ==
  ASSUME NEW c \in Circuits, NEW d, NEW p, NEW l \in 1 .. Len(c.levels),
         NEW k \in 1 .. Len(c.levels[l]), NEW ws, NEW u, c.levels[l][k].type \in Interactive
  PROVE  AfterOne(c, d, p, l, k, ws, u) =
           Written(u, c.levels[l][k].outs, Left(c, d, p, l, k, ws, u))
<1> DEFINE g == c.levels[l][k]
           ol == Local(p, g, u)
           oi == Finished(p, g, d[p][l][k], Both(p, g, d[1][l][k], d[2][l][k], ws), u)
<1>1. g \in Gate
  BY GateAt
<1>2. /\ g.type \in InputGate => g.type \notin LocalGate /\ g.type \notin Interactive
      /\ g.type \in LocalGate => g.type \notin Interactive
  BY <1>1, GateKinds
<1>3. AfterOne(c, d, p, l, k, ws, u) =
        CASE g.type \in InputGate -> u
          [] g.type \in LocalGate -> Written(u, g.outs, ol)
          [] g.type \in Interactive -> Written(u, g.outs, oi)
  BY DEF AfterOne
<1>4. g.type \in Interactive
  OBVIOUS
<1> HIDE DEF g, ol, oi
<1>. QED  BY <1>2, <1>3, <1>4 DEF g, ol, oi, Left

LEMMA WalkedWalks ==
  ASSUME NEW c \in Circuits, NEW d, NEW p, NEW l \in 1 .. Len(c.levels), NEW ws
  PROVE  Walks(c, l, Walked(c, d, p, l, ws)) /\ Walked(c, d, p, l, ws)[0] = ws[p]
<1> DEFINE f == Walked(c, d, p, l, ws)
<1>1. Len(c.levels[l]) \in Nat
  BY BeforeFacts
<1>2. /\ f[0] = ws[p]
      /\ \A k \in 1 .. Len(c.levels[l]) : f[k] = AfterOne(c, d, p, l, k, ws, f[k - 1])
  BY <1>1, WalkedNext
<1> HIDE DEF f
<1>3. ASSUME NEW k \in 1 .. Len(c.levels[l])
      PROVE  IF c.levels[l][k].type \in InputGate THEN f[k] = f[k - 1]
             ELSE \E o : f[k] = Written(f[k - 1], c.levels[l][k].outs, o)
  <2> DEFINE g == c.levels[l][k]
             u == f[k - 1]
             ol == Local(p, g, u)
             oi == Left(c, d, p, l, k, ws, u)
  <2>1. g \in Gate
    BY GateAt
  <2>2. /\ g.type \in InputGate => f[k] = u
        /\ g.type \in LocalGate => f[k] = Written(u, g.outs, ol)
        /\ g.type \in Interactive => f[k] = Written(u, g.outs, oi)
    <3>1. f[k] = AfterOne(c, d, p, l, k, ws, u)
      BY <1>2
    <3>2. /\ g.type \in InputGate => AfterOne(c, d, p, l, k, ws, u) = u
          /\ g.type \in LocalGate => AfterOne(c, d, p, l, k, ws, u) = Written(u, g.outs, ol)
          /\ g.type \in Interactive => AfterOne(c, d, p, l, k, ws, u) = Written(u, g.outs, oi)
      BY AfterInput, AfterLocal, AfterInteractive
    <3>. QED  BY <3>1, <3>2
  <2>3. g.type \in InputGate \/ g.type \in LocalGate \/ g.type \in Interactive
    BY <2>1, GateKinds
  <2> HIDE DEF g, ol, oi
  <2>4. IF g.type \in InputGate THEN f[k] = u ELSE \E o : f[k] = Written(u, g.outs, o)
    BY <2>2, <2>3
  <2>. QED  BY <2>4 DEF g
<1>4. Walks(c, l, f)
  BY <1>3 DEF Walks
<1>. QED  BY <1>2, <1>4 DEF f

LEMMA LockstepRuns ==
  ASSUME NEW c \in Circuits, NEW in, NEW d, NEW t, NEW p \in Online
  PROVE  Runs(c, [l \in 0 .. Len(c.levels) |-> Lockstep(c, in, d, t)[l][p]])
<1> DEFINE ls == Lockstep(c, in, d, t)
           r == [l \in 0 .. Len(c.levels) |-> ls[l][p]]
<1>1. Len(c.levels) \in Nat
  BY BeforeFacts
<1>2. /\ ls[0] = [q \in Online |-> FirstShare(c, in, t, q)]
      /\ \A l \in 1 .. Len(c.levels) :
           ls[l] = [q \in Online |-> Walked(c, d, q, l, ls[l - 1])[Len(c.levels[l])]]
  BY <1>1, LockstepNext
<1> HIDE DEF ls
<1>3. OnWires(Wires(c), r[0])
  <2>1. r[0] = FirstShare(c, in, t, p)
    BY <1>1, <1>2
  <2>. QED  BY <2>1 DEF FirstShare, OnWires
<1>4. ASSUME NEW l \in 1 .. Len(c.levels)
      PROVE  \E f : Walks(c, l, f) /\ f[0] = r[l - 1] /\ f[Len(c.levels[l])] = r[l]
  <2> DEFINE f == Walked(c, d, p, l, ls[l - 1])
  <2>1. Walks(c, l, f) /\ f[0] = ls[l - 1][p]
    BY WalkedWalks
  <2>2. ls[l][p] = f[Len(c.levels[l])]
    BY <1>2
  <2>3. r[l - 1] = ls[l - 1][p] /\ r[l] = ls[l][p]
    BY <1>1
  <2> HIDE DEF f, r
  <2>. QED  BY <2>1, <2>2, <2>3
<1> HIDE DEF r
<1>5. Runs(c, r)
  BY <1>3, <1>4 DEF Runs
<1>. QED  BY <1>5 DEF r, ls
-----------------------------------------------------------------------------
(* What a gate reads has its value.                                        *)
LEMMA ReadsReady ==
  ASSUME NEW c \in Circuits, NEW l \in 1 .. Len(c.levels), NEW k \in 1 .. Len(c.levels[l]),
         NEW w \in Reads(c.levels[l][k])
  PROVE  /\ w \in Wires(c) /\ Ready(c, l, k - 1, w)
         /\ c.levels[l][k].type \in Interactive => Ready(c, l, 0, w)
<1> DEFINE g == c.levels[l][k]
<1>1. c.levels \in Seq(Seq(Gate)) /\ InOrder(c.levels) /\ Len(c.levels) \in Nat
  BY CircuitAssumption
<1>2. l \in DOMAIN c.levels /\ k \in DOMAIN c.levels[l]
  BY GateAt
<1>3. \/ \E i \in 1 .. (l - 1) : \E j \in DOMAIN c.levels[i] : Writes(c.levels[i][j], w)
      \/ /\ g.type \notin Interactive
         /\ \E m \in 1 .. (k - 1) : Writes(c.levels[l][m], w)
  BY <1>1, <1>2 DEF InOrder
<1>4. Len(c.levels[l]) \in Nat /\ \A i \in 1 .. (l - 1) : i \in 1 .. Len(c.levels)
  BY SMTT(30), <1>1, BeforeFacts
<1>5. \A i \in 1 .. Len(c.levels) : DOMAIN c.levels[i] = 1 .. Len(c.levels[i])
  BY <1>1
<1>6. CASE \E i \in 1 .. (l - 1) : \E j \in DOMAIN c.levels[i] : Writes(c.levels[i][j], w)
  <2>1. PICK i \in 1 .. (l - 1) : \E j \in DOMAIN c.levels[i] : Writes(c.levels[i][j], w)
    BY <1>6
  <2>2. PICK j \in 1 .. Len(c.levels[i]) : Writes(c.levels[i][j], w)
    BY <1>4, <1>5, <2>1
  <2>3. w \in Wires(c)
    BY <1>4, <2>2, GateAt DEF Writes
  <2>. QED  BY <2>2, <2>3 DEF Ready
<1>7. CASE g.type \notin Interactive /\ \E m \in 1 .. (k - 1) : Writes(c.levels[l][m], w)
  <2>1. PICK m \in 1 .. (k - 1) : Writes(c.levels[l][m], w)
    BY <1>7
  <2>2. m \in 1 .. Len(c.levels[l])
    BY <1>4
  <2>3. w \in Wires(c)
    BY <2>1, <2>2, GateAt DEF Writes
  <2>. QED  BY <1>7, <2>1, <2>3 DEF Ready
<1>. QED  BY <1>3, <1>6, <1>7

LEMMA OnSame ==
  ASSUME NEW ins, NEW a, NEW b, \A w \in Elems(ins) : a[w] = b[w]
  PROVE  On(a, ins) = On(b, ins)
<1>1. \A j \in DOMAIN ins : a[ins[j]] = b[ins[j]]
  BY DEF Elems
<1>. QED  BY <1>1 DEF On

LEMMA OpenedSame ==
  ASSUME NEW p, NEW g, NEW d, NEW kind, NEW a, NEW b, \A w \in Reads(g) : a[w] = b[w]
  PROVE  Opened(p, g, d, kind, a) = Opened(p, g, d, kind, b)
<1>1. On(a, g.in1) = On(b, g.in1) /\ On(a, g.in2) = On(b, g.in2)
  BY OnSame DEF Reads
<1>2. Factors(p, g, a) = Factors(p, g, b)
  BY <1>1 DEF Factors
<1>3. Masked(p, g, d, a) = Masked(p, g, d, b)
  BY <1>1 DEF Masked
<1>. QED  BY <1>1, <1>2, <1>3 DEF Opened

LEMMA BothReceives ==
  ASSUME NEW g \in Gate, g.type \in Interactive, NEW d1, NEW d2, NEW ws, NEW a, NEW b,
         \A w \in Reads(g) : a[w] = ws[1][w] /\ b[w] = ws[2][w]
  PROVE  Receives(g, d1, d2, a, b, Both(1, g, d1, d2, ws), Both(2, g, d1, d2, ws))
<1> DEFINE o1 == Opened(1, g, d1, Kind(g), ws[1])
           o2 == Opened(2, g, d2, Kind(g), ws[2])
           n  == Takes(g)
           kd == Kind(g)
<1>1. Opened(1, g, d1, Kind(g), a) = o1 /\ Opened(2, g, d2, Kind(g), b) = o2
  BY OpenedSame
<1>2. n \in Nat
  <2>1. g.in1 \in Seq(Nat)
    BY DEF Gate
  <2>2. Len(g.in1) \in Nat
    BY <2>1
  <2>. QED  BY <2>2 DEF Takes
<1> HIDE DEF o1, o2, n, kd
<1>3. /\ Both(1, g, d1, d2, ws) = [i \in 1 .. n |-> Joined(kd, 1, o1[i], o2[i])]
      /\ Both(2, g, d1, d2, ws) = [i \in 1 .. n |-> Joined(kd, 2, o1[i], o2[i])]
  BY DEF Both, o1, o2, n, kd
<1>4. Len(Both(1, g, d1, d2, ws)) = n /\ Len(Both(2, g, d1, d2, ws)) = n
  BY <1>2, <1>3
<1>5. \A i \in 1 .. n : /\ Both(1, g, d1, d2, ws)[i] = Joined(kd, 1, o1[i], o2[i])
                        /\ Both(2, g, d1, d2, ws)[i] = Joined(kd, 2, o1[i], o2[i])
  BY <1>3
<1>. QED  BY <1>1, <1>4, <1>5 DEF Receives, n, kd

(* The wires that a gate writes, and the others.                           *)
Laid(g, a, o) == \A j \in 1 .. Len(g.outs) : a[g.outs[j]] = o[j]
LEMMA WritesAt ==
  ASSUME NEW g, g.outs \in Seq(Nat), NEW w, Writes(g, w)
  PROVE  \E j \in 1 .. Len(g.outs) : w = g.outs[j]
  BY DEF Writes, Elems

LEMMA YieldsOpens ==
  ASSUME NEW c \in Circuits, NEW l \in 1 .. Len(c.levels), NEW k \in 1 .. Len(c.levels[l]),
         NEW o1, NEW o2, NEW o, Yields(c.levels[l][k], o1, o2, o),
         NEW a, NEW b, NEW v, NEW w, Writes(c.levels[l][k], w),
         Laid(c.levels[l][k], a, o1), Laid(c.levels[l][k], b, o2), Laid(c.levels[l][k], v, o)
  PROVE  Opens(c, a, b, v, w)
<1> DEFINE g == c.levels[l][k]
<1>1. g.outs \in Seq(Nat)
  BY GateAt DEF Gate
<1>2. PICK j \in 1 .. Len(g.outs) : w = g.outs[j]
  <2>1. Writes(g, w)
    OBVIOUS
  <2> HIDE DEF g
  <2>. QED  BY <1>1, <2>1, WritesAt
<1>3. a[w] = o1[j] /\ b[w] = o2[j] /\ v[w] = o[j]
  BY <1>2 DEF Laid
<1>4. Producer(c, w) = g
  <2>1. Writes(c.levels[l][k], w) /\ l \in 1 .. Len(c.levels) /\ k \in 1 .. Len(c.levels[l])
    OBVIOUS
  <2>2. Producer(c, w) = c.levels[l][k]
    BY ONLY <2>1, ProducerIs, c \in Circuits
  <2>. QED  BY <2>2
<1> HIDE DEF g
<1>5. Yields(g, o1, o2, o)
  BY DEF g
<1>6. /\ o1[j] \in Ring /\ o2[j] \in Ring /\ o[j] \in Ring
      /\ o[j] = Opening(Sort(g), o1[j], o2[j])
      /\ Sort(g) = "zero" => XorW(o1[j], o2[j]) < 2^Half(g.param)
  BY <1>5 DEF Yields
<1>. QED  BY <1>3, <1>4, <1>6 DEF Opens

OpenUpTo(c, l, k, a, b, v) ==
  /\ OnWires(Wires(c), a) /\ OnWires(Wires(c), b) /\ OnWires(Wires(c), v)
  /\ \A w \in Wires(c) : Ready(c, l, k, w) => Opens(c, a, b, v, w)

LEMMA YieldsUpTo ==
  ASSUME NEW c \in Circuits, NEW l \in 1 .. Len(c.levels), NEW k \in 1 .. Len(c.levels[l]),
         c.levels[l][k].type \notin InputGate,
         NEW a, NEW b, NEW v, OpenUpTo(c, l, k - 1, a, b, v),
         NEW o1, NEW o2, NEW o, Yields(c.levels[l][k], o1, o2, o)
  PROVE  OpenUpTo(c, l, k, Written(a, c.levels[l][k].outs, o1), Written(b, c.levels[l][k].outs, o2),
                  Written(v, c.levels[l][k].outs, o))
<1> DEFINE g == c.levels[l][k]
           a1 == Written(a, g.outs, o1)
           b1 == Written(b, g.outs, o2)
           v1 == Written(v, g.outs, o)
<1>1. /\ Stores(a1, Wires(c), a, g.outs, o1) /\ Stores(b1, Wires(c), b, g.outs, o2)
      /\ Stores(v1, Wires(c), v, g.outs, o)
  BY GateStores DEF OpenUpTo
<1> HIDE DEF a1, b1, v1
<1>2. ASSUME NEW w \in Wires(c), Ready(c, l, k, w) PROVE Opens(c, a1, b1, v1, w)
  <2>1. CASE Writes(g, w)
    <3>1. Laid(g, a1, o1) /\ Laid(g, b1, o2) /\ Laid(g, v1, o)
      BY <1>1 DEF Stores, Laid
    <3>. QED  BY <2>1, <3>1, YieldsOpens
  <2>2. CASE ~ Writes(g, w)
    <3>1. Ready(c, l, k - 1, w)
      <4>1. Len(c.levels[l]) \in Nat
        BY BeforeFacts
      <4>2. \A j \in 1 .. k : j = k \/ j \in 1 .. (k - 1)
        BY <4>1
      <4>. QED  BY <1>2, <2>2, <4>2 DEF Ready
    <3>2. Opens(c, a, b, v, w)
      BY <3>1 DEF OpenUpTo
    <3>3. a1[w] = a[w] /\ b1[w] = b[w] /\ v1[w] = v[w]
      BY <1>1, <2>2 DEF Stores, Writes
    <3>. QED  BY <3>2, <3>3 DEF Opens
  <2>. QED  BY <2>1, <2>2
<1>3. OpenUpTo(c, l, k, a1, b1, v1)
  BY <1>1, <1>2 DEF OpenUpTo, Stores
<1>. QED  BY <1>3 DEF a1, b1, v1

(* No gate of the circuit adds a constant to one wire (AddsConstantOnce    *)
(* fails for those that do).                                               *)
NoConstAdd(c) == \A g \in GatesOf(c) : g.type # "ConstAdd"
(* What both parties hold agrees with ws on what level l may open.         *)
FromStart(c, l, a, b, ws) ==
  \A w \in Wires(c) : Ready(c, l, 0, w) => a[w] = ws[1][w] /\ b[w] = ws[2][w]

LEMMA GateOpens ==
  ASSUME NEW c \in Circuits, NoConstAdd(c), NEW d, Correlated(c, d),
         NEW l \in 1 .. Len(c.levels), NEW k \in 1 .. Len(c.levels[l]), NEW ws, NEW a, NEW b, NEW v,
         OpenUpTo(c, l, k - 1, a, b, v), FromStart(c, l, a, b, ws), Sensible(c.levels[l][k], v)
  PROVE  OpenUpTo(c, l, k, AfterOne(c, d, 1, l, k, ws, a), AfterOne(c, d, 2, l, k, ws, b),
                  ClearGate(c.levels[l][k], JointPerms(c, d), v))
<1> DEFINE g == c.levels[l][k]
           pm == JointPerms(c, d)
           d1 == d[1][l][k]
           d2 == d[2][l][k]
           r1 == AfterOne(c, d, 1, l, k, ws, a)
           r2 == AfterOne(c, d, 2, l, k, ws, b)
           rv == ClearGate(g, pm, v)
           x  == Value(g, On(v, g.in1), On(v, g.in2), pm)
<1>1. /\ g \in Gate /\ g \in GatesOf(c) /\ LengthsFit(g)
      /\ g.type \in InputGate => l = 1
      /\ l \in DOMAIN c.levels /\ k \in DOMAIN c.levels[l]
  BY GateAt
<1>2. /\ g.type \in InputGate \/ g.type \in LocalGate \/ g.type \in Interactive
      /\ g.type \in InputGate => g.type \notin LocalGate /\ g.type \notin Interactive
      /\ g.type \in LocalGate => g.type \notin Interactive
  BY <1>1, GateKinds
<1>3. \A w \in Reads(g) : Opens(c, a, b, v, w)
  <2> SUFFICES ASSUME NEW w \in Reads(g) PROVE Opens(c, a, b, v, w)
    OBVIOUS
  <2>1. w \in Wires(c) /\ Ready(c, l, k - 1, w)
    BY ReadsReady
  <2>. QED  BY <2>1 DEF OpenUpTo
<1>4. WellSorted(c) /\ WellShaped(c)
  BY CircuitAssumption, ShapeAssumption
<1>5. CASE g.type \in InputGate
  <2>1. r1 = a /\ r2 = b
    BY <1>5, AfterInput
  <2>2. rv = v
    BY <1>5 DEF ClearGate
  <2>3. ASSUME NEW w, Ready(c, l, k, w) PROVE Ready(c, l, k - 1, w)
    <3>1. Len(c.levels[l]) \in Nat /\ l = 1
      BY <1>1, <1>5, BeforeFacts
    <3>2. \A j \in 1 .. k : j = k \/ j \in 1 .. (k - 1)
      BY <3>1
    <3>. QED  BY <1>5, <2>3, <3>1, <3>2 DEF Ready
  <2> HIDE DEF r1, r2, rv
  <2>. QED  BY <2>1, <2>2, <2>3 DEF OpenUpTo, r1, r2, rv
<1>6. CASE g.type \in LocalGate
  <2> DEFINE o1 == Local(1, g, a)
             o2 == Local(2, g, b)
  <2>1. r1 = Written(a, g.outs, o1) /\ r2 = Written(b, g.outs, o2)
    BY <1>6, AfterLocal
  <2>2. rv = Written(v, g.outs, x)
    BY <1>2, <1>6 DEF ClearGate
  <2>3. g.type # "ConstAdd"
    BY <1>1 DEF NoConstAdd
  <2>4. Yields(g, o1, o2, x)
    BY <1>1, <1>3, <1>4, <1>6, <2>3, LocalOpens
  <2> HIDE DEF o1, o2, x, r1, r2, rv, pm
  <2>5. OpenUpTo(c, l, k, Written(a, g.outs, o1), Written(b, g.outs, o2), Written(v, g.outs, x))
    BY <1>2, <1>6, <2>4, YieldsUpTo
  <2>6. OpenUpTo(c, l, k, r1, r2, rv)
    BY <2>1, <2>2, <2>5
  <2>. QED  BY <2>6 DEF r1, r2, rv, pm
<1>7. CASE g.type \in Interactive
  <2> DEFINE v1 == Both(1, g, d1, d2, ws)
             v2 == Both(2, g, d1, d2, ws)
             o1 == Finished(1, g, d1, v1, a)
             o2 == Finished(2, g, d2, v2, b)
  <2>1. r1 = Written(a, g.outs, o1)
    <3>1. r1 = Written(a, g.outs, Left(c, d, 1, l, k, ws, a))
      BY <1>7, AfterInteractive
    <3>2. Left(c, d, 1, l, k, ws, a) = o1
      BY DEF Left
    <3>. QED  BY <3>1, <3>2
  <2>2. r2 = Written(b, g.outs, o2)
    <3>1. r2 = Written(b, g.outs, Left(c, d, 2, l, k, ws, b))
      BY <1>7, AfterInteractive
    <3>2. Left(c, d, 2, l, k, ws, b) = o2
      BY DEF Left
    <3>. QED  BY <3>1, <3>2
  <2>3. rv = Written(v, g.outs, x)
    BY <1>2, <1>7 DEF ClearGate
  <2>4. ASSUME NEW w \in Reads(g) PROVE a[w] = ws[1][w] /\ b[w] = ws[2][w]
    <3>1. w \in Wires(c) /\ Ready(c, l, 0, w)
      BY <1>7, ReadsReady
    <3>. QED  BY <3>1 DEF FromStart
  <2>5. Receives(g, d1, d2, a, b, v1, v2)
    BY <1>1, <1>7, <2>4, BothReceives
  <2>6. DealFor(g, d1, d2, pm)
    BY <1>1, CorrelatedGate
  <2> HIDE DEF v1, v2, d1, d2, pm
  <2>7. Yields(g, o1, o2, x)
    BY <1>1, <1>3, <1>4, <1>7, <2>5, <2>6, InteractiveOpens
  <2> HIDE DEF o1, o2, x, r1, r2, rv
  <2>8. OpenUpTo(c, l, k, Written(a, g.outs, o1), Written(b, g.outs, o2), Written(v, g.outs, x))
    BY <1>2, <1>7, <2>7, YieldsUpTo
  <2>9. OpenUpTo(c, l, k, r1, r2, rv)
    BY <2>1, <2>2, <2>3, <2>8
  <2>. QED  BY <2>9 DEF r1, r2, rv, pm
<1>. QED  BY <1>2, <1>5, <1>6, <1>7

LEMMA LevelOpens ==
  ASSUME NEW c \in Circuits, NoConstAdd(c), NEW d, Correlated(c, d), NEW l \in 1 .. Len(c.levels),
         NEW ws, NEW v, OpenUpTo(c, l, 0, ws[1], ws[2], v), NEW f, Clears(f, c, l, v, JointPerms(c, d)),
         \A k \in 1 .. Len(c.levels[l]) : Sensible(c.levels[l][k], f[k - 1])
  PROVE  OpenUpTo(c, l + 1, 0, Walked(c, d, 1, l, ws)[Len(c.levels[l])],
                  Walked(c, d, 2, l, ws)[Len(c.levels[l])], f[Len(c.levels[l])])
<1> DEFINE n == Len(c.levels[l])
           u1 == Walked(c, d, 1, l, ws)
           u2 == Walked(c, d, 2, l, ws)
           pm == JointPerms(c, d)
           T == {k \in Nat : k <= n => OpenUpTo(c, l, k, u1[k], u2[k], f[k])}
<1>1. n \in Nat
  BY BeforeFacts
<1>2. u1[0] = ws[1] /\ \A k \in 1 .. n : u1[k] = AfterOne(c, d, 1, l, k, ws, u1[k - 1])
  BY <1>1, WalkedNext
<1>3. u2[0] = ws[2] /\ \A k \in 1 .. n : u2[k] = AfterOne(c, d, 2, l, k, ws, u2[k - 1])
  BY <1>1, WalkedNext
<1>4. f[0] = v /\ \A k \in 1 .. n : f[k] = ClearGate(c.levels[l][k], pm, f[k - 1])
  BY DEF Clears
<1>5. /\ \A k \in 0 .. n : Settled(c, l, u1, k)
      /\ \A k \in 0 .. n : Settled(c, l, u2, k)
  <2>1. Walks(c, l, u1) /\ Walks(c, l, u2)
    BY WalkedWalks
  <2>2. OnWires(Wires(c), u1[0]) /\ OnWires(Wires(c), u2[0])
    BY <1>2, <1>3 DEF OpenUpTo
  <2> HIDE DEF u1, u2
  <2>. QED  BY <2>1, <2>2, WalkSettles
<1> HIDE DEF u1, u2, pm
<1>6. 0 \in T
  BY <1>2, <1>3, <1>4
<1>7. ASSUME NEW k \in T PROVE k + 1 \in T
  <2> SUFFICES ASSUME k + 1 <= n PROVE OpenUpTo(c, l, k + 1, u1[k + 1], u2[k + 1], f[k + 1])
    OBVIOUS
  <2>1. k \in Nat /\ k <= n /\ k + 1 \in 1 .. n /\ (k + 1) - 1 = k /\ k \in 0 .. n /\ 0 \in 0 .. k
    BY <1>1
  <2>2. OpenUpTo(c, l, k, u1[k], u2[k], f[k])
    BY <2>1
  <2>3. FromStart(c, l, u1[k], u2[k], ws)
    <3>1. Settled(c, l, u1, k) /\ Settled(c, l, u2, k)
      BY <1>5, <2>1
    <3>. QED  BY <1>2, <1>3, <2>1, <3>1 DEF Settled, FromStart
  <2>4. Sensible(c.levels[l][k + 1], f[k])
    BY <2>1
  <2> DEFINE j == k + 1
             a == u1[k]
             b == u2[k]
             x == f[k]
  <2>5. j \in 1 .. Len(c.levels[l]) /\ OpenUpTo(c, l, j - 1, a, b, x) /\ FromStart(c, l, a, b, ws)
        /\ Sensible(c.levels[l][j], x)
    BY <2>1, <2>2, <2>3, <2>4
  <2>6. u1[j] = AfterOne(c, d, 1, l, j, ws, a) /\ u2[j] = AfterOne(c, d, 2, l, j, ws, b)
        /\ f[j] = ClearGate(c.levels[l][j], JointPerms(c, d), x)
    BY <1>2, <1>3, <1>4, <2>1 DEF pm
  <2> HIDE DEF j, a, b, x
  <2>7. OpenUpTo(c, l, j, AfterOne(c, d, 1, l, j, ws, a), AfterOne(c, d, 2, l, j, ws, b),
                 ClearGate(c.levels[l][j], JointPerms(c, d), x))
    BY <2>5, GateOpens
  <2>8. OpenUpTo(c, l, j, u1[j], u2[j], f[j])
    BY <2>6, <2>7
  <2>. QED  BY <2>8 DEF j
<1>8. T = Nat
  <2> HIDE DEF T
  <2>1. T \in SUBSET Nat
    BY DEF T
  <2>. QED  BY <1>6, <1>7, <2>1, NatInd
<1>9. OpenUpTo(c, l, n, u1[n], u2[n], f[n])
  BY <1>1, <1>8
<1>10. OpenUpTo(c, l + 1, 0, u1[n], u2[n], f[n])
  BY <1>9, ReadyNext DEF OpenUpTo
<1>. QED  BY <1>10 DEF u1, u2
-----------------------------------------------------------------------------
(* The input shares.                                                       *)
LEMMA DrawsIn ==
  ASSUME NEW c \in Circuits, NEW k \in 1 .. Len(c.levels[1]), c.levels[1][k].type \in InputGate
  PROVE  Draws(c, k) \in 1 .. Draws(c, Len(c.levels[1])) /\ Draws(c, Len(c.levels[1])) \in Nat
<1> DEFINE n == Len(c.levels[1])
           A == {j \in 1 .. k : c.levels[1][j].type \in InputGate}
           B == {j \in 1 .. n : c.levels[1][j].type \in InputGate}
<1>1. n \in Nat /\ k \in 1 .. n
  <2>1. c.levels # <<>> /\ c.levels \in Seq(Seq(Gate))
    BY CircuitAssumption, ShapeAssumption DEF WellShaped
  <2>. QED  BY <2>1
<1>2. IsFiniteSet(B)
  <2>1. IsFiniteSet(1 .. n)
    BY <1>1, FS_Interval
  <2>. QED  BY <2>1, FS_Subset
<1>3. A \subseteq B /\ k \in A
  <2>1. \A j \in 1 .. k : j \in 1 .. n
    BY <1>1
  <2>2. k \in 1 .. k
    BY <1>1
  <2>. QED  BY <2>1, <2>2
<1>4. Draws(c, k) = Cardinality(A) /\ Draws(c, n) = Cardinality(B)
  BY DEF Draws
<1> HIDE DEF A, B
<1>5. IsFiniteSet(A) /\ Cardinality(A) <= Cardinality(B)
  BY <1>2, <1>3, FS_Subset
<1>6. Cardinality(A) \in Nat /\ Cardinality(B) \in Nat /\ Cardinality(A) # 0
  BY <1>2, <1>3, <1>5, FS_CardinalityType, FS_EmptySet
<1>. QED  BY <1>4, <1>5, <1>6

LEMMA InputGateIs ==
  ASSUME NEW c \in Circuits, NEW k \in 1 .. Len(c.levels[1]), c.levels[1][k].type \in InputGate,
         NEW w, Writes(c.levels[1][k], w)
  PROVE  /\ 1 \in 1 .. Len(c.levels) /\ IsInput(c, w, k) /\ w \in InputWires(c) /\ w \in Wires(c)
         /\ \A j \in DOMAIN c.levels[1] : IsInput(c, w, j) => j = k
<1> DEFINE g == c.levels[1][k]
<1>1. 1 \in 1 .. Len(c.levels)
  <2>1. c.levels # <<>> /\ c.levels \in Seq(Seq(Gate))
    BY CircuitAssumption, ShapeAssumption DEF WellShaped
  <2>. QED  BY <2>1
<1>2. g \in Gate /\ g \in GatesOf(c) /\ LengthsFit(g) /\ Elems(g.outs) \subseteq Wires(c)
  BY <1>1, GateAt
<1>3. g.outs \in Seq(Nat) /\ Len(g.outs) = 1
  <2>1. g.outs \in Seq(Nat)
    BY <1>2 DEF Gate
  <2>2. Len(g.outs) = 1
    BY <1>2, Lens1
  <2>. QED  BY <2>1, <2>2
<1>4. w \in Elems(g.outs)
  BY DEF Writes
<1>5. g.outs = <<w>>
  BY <1>3, <1>4 DEF Elems
<1>6. w \in InputWires(c)
  BY <1>2, <1>4 DEF InputWires
<1>7. ASSUME NEW j \in DOMAIN c.levels[1], IsInput(c, w, j) PROVE j = k
  <2>1. Writes(c.levels[1][j], w)
    BY <1>7 DEF IsInput, Writes, Elems
  <2>2. j \in 1 .. Len(c.levels[1])
    <3>1. c.levels[1] \in Seq(Gate)
      BY <1>1, BeforeFacts
    <3>. QED  BY <3>1
  <2>3. Writes(c.levels[1][k], w)
    OBVIOUS
  <2> DEFINE l == 1
  <2>4. /\ l \in 1 .. Len(c.levels) /\ j \in 1 .. Len(c.levels[l]) /\ k \in 1 .. Len(c.levels[l])
        /\ Writes(c.levels[l][j], w) /\ Writes(c.levels[l][k], w)
    BY <1>1, <2>1, <2>2, <2>3
  <2> HIDE DEF l
  <2>. QED  BY ONLY <2>4, c \in Circuits, OneWriter
<1>. QED  BY <1>1, <1>2, <1>4, <1>5, <1>6, <1>7 DEF IsInput

LEMMA FirstShareIs ==
  ASSUME NEW c \in Circuits, NEW in, NEW t, NEW p, NEW k \in 1 .. Len(c.levels[1]),
         c.levels[1][k].type \in InputGate, NEW w, Writes(c.levels[1][k], w)
  PROVE  FirstShare(c, in, t, p)[w] = DrawnBy(c, in, t, p, k)
<1>1. /\ 1 \in 1 .. Len(c.levels) /\ IsInput(c, w, k) /\ w \in InputWires(c) /\ w \in Wires(c)
      /\ \A j \in DOMAIN c.levels[1] : IsInput(c, w, j) => j = k
  BY InputGateIs
<1>2. k \in DOMAIN c.levels[1]
  BY <1>1, GateAt
<1>3. (CHOOSE j \in DOMAIN c.levels[1] : IsInput(c, w, j)) = k
  BY <1>1, <1>2
<1>. QED  BY <1>1, <1>2, <1>3 DEF FirstShare

LEMMA DrawnIs ==
  ASSUME NEW c \in Circuits, NEW in \in InputsOf(c), NEW t \in SharedTapes,
         NEW k \in 1 .. Len(c.levels[1]), c.levels[1][k].type \in InputGate,
         NEW w, Writes(c.levels[1][k], w)
  PROVE  LET g == c.levels[1][k]
             a == DrawnBy(c, in, t, 1, k)
             b == DrawnBy(c, in, t, 2, k)
         IN  /\ in[w] \in Ring /\ w \in DOMAIN in
             /\ a \in Ring /\ b \in Ring
             /\ in[w] = Opening(Sort(g), a, b) /\ Sort(g) # "zero"
<1> DEFINE g == c.levels[1][k]
           a == DrawnBy(c, in, t, 1, k)
           b == DrawnBy(c, in, t, 2, k)
           val == t[Draws(c, k)]
<1>1. /\ 1 \in 1 .. Len(c.levels) /\ IsInput(c, w, k) /\ w \in InputWires(c)
  BY InputGateIs
<1>2. in \in [InputWires(c) -> Ring]
  BY InputAssumption
<1>3. in[w] \in Ring /\ w \in DOMAIN in
  BY <1>1, <1>2
<1>4. val \in Ring
  <2>1. t \in Seq(Ring) /\ Draws(c, Len(c.levels[1])) <= Len(t)
    BY InputAssumption
  <2>2. Draws(c, k) \in 1 .. Draws(c, Len(c.levels[1])) /\ Draws(c, Len(c.levels[1])) \in Nat
    BY DrawsIn
  <2>3. Draws(c, k) \in 1 .. Len(t)
    <3>1. Len(t) \in Nat
      BY <2>1
    <3>. QED  BY <2>1, <2>2, <3>1
  <2>. QED  BY <2>1, <2>3
<1>5. g \in Gate /\ g.owner \in {1, 2} /\ g.outs[1] = w
  <2>1. g \in Gate
    BY <1>1, GateAt
  <2>. QED  BY <1>1, <2>1 DEF Gate, IsInput
<1>6. g.type \in {"Inp", "BinInp"}
  BY DEF InputGate
<1>7. /\ a = IF 1 # g.owner THEN val ELSE IF g.type = "Inp" THEN Minus(in[w], val) ELSE XorW(in[w], val)
      /\ b = IF 2 # g.owner THEN val ELSE IF g.type = "Inp" THEN Minus(in[w], val) ELSE XorW(in[w], val)
  BY <1>5 DEF DrawnBy
<1> DEFINE x == in[w]
<1> HIDE DEF g, a, b, val, x
<1>8. CASE g.type = "Inp"
  <2>1. Sort(g) = "arith"
    BY <1>8 DEF Sort
  <2>2. /\ Plus(Minus(x, val), val) = x /\ Plus(val, Minus(x, val)) = x /\ Minus(x, val) \in Ring
    <3>1. Minus(x, val) \in Ring /\ x \in Ring
      BY <1>3, <1>4, RingOps DEF x
    <3>. QED  BY <1>4, <3>1, Linear
  <2>3. a \in Ring /\ b \in Ring /\ Plus(a, b) = x
    BY <1>4, <1>5, <1>7, <1>8, <2>2 DEF x
  <2>4. Opening(Sort(g), a, b) = Plus(a, b)
    BY <2>1 DEF Opening
  <2>. QED  BY <1>3, <2>1, <2>3, <2>4 DEF g, a, b, x
<1>9. CASE g.type = "BinInp"
  <2>1. Sort(g) = "bin"
    BY <1>9 DEF Sort
  <2>2. XorW(XorW(x, val), val) = x /\ XorW(val, XorW(x, val)) = x /\ XorW(x, val) \in Ring
    <3>1. x \in Ring /\ XorW(x, val) \in Ring
      BY <1>3, <1>4, BitOps DEF x
    <3>2. XorW(XorW(x, val), val) = x
      <4>1. XorW(XorW(val, x), val) = x /\ XorW(val, x) = XorW(x, val)
        BY <1>4, <3>1, XorUndo, BitOps
      <4>. QED  BY <4>1
    <3>3. XorW(val, XorW(x, val)) = XorW(XorW(x, val), val)
      BY <1>4, <3>1, BitOps
    <3>. QED  BY <3>1, <3>2, <3>3
  <2>3. a \in Ring /\ b \in Ring /\ XorW(a, b) = x
    BY <1>4, <1>5, <1>7, <1>9, <2>2 DEF x
  <2>4. Opening(Sort(g), a, b) = XorW(a, b)
    BY <2>1 DEF Opening
  <2>. QED  BY <1>3, <2>1, <2>3, <2>4 DEF g, a, b, x
<1>. QED  BY <1>6, <1>8, <1>9

LEMMA StartOpens ==
  ASSUME NEW c \in Circuits, NEW in \in InputsOf(c), NEW t \in SharedTapes
  PROVE  OpenUpTo(c, 1, 0, FirstShare(c, in, t, 1), FirstShare(c, in, t, 2), Given(c, in))
<1> DEFINE a == FirstShare(c, in, t, 1)
           b == FirstShare(c, in, t, 2)
           v == Given(c, in)
<1>1. OnWires(Wires(c), a) /\ OnWires(Wires(c), b) /\ OnWires(Wires(c), v)
  BY DEF OnWires, FirstShare, Given
<1>2. ASSUME NEW w \in Wires(c), Ready(c, 1, 0, w) PROVE Opens(c, a, b, v, w)
  <2>1. \A i : i \notin 1 .. 0 /\ i \notin 1 .. (1 - 1)
    OBVIOUS
  <2>2. PICK k \in 1 .. Len(c.levels[1]) :
          c.levels[1][k].type \in InputGate /\ Writes(c.levels[1][k], w)
    BY <1>2, <2>1 DEF Ready
  <2> DEFINE g == c.levels[1][k]
             x == DrawnBy(c, in, t, 1, k)
             y == DrawnBy(c, in, t, 2, k)
  <2>3. a[w] = x /\ b[w] = y
    BY <2>2, FirstShareIs
  <2>4. /\ in[w] \in Ring /\ w \in DOMAIN in /\ x \in Ring /\ y \in Ring
        /\ in[w] = Opening(Sort(g), x, y) /\ Sort(g) # "zero"
    BY <2>2, DrawnIs
  <2>5. Producer(c, w) = g
    <3> DEFINE l == 1
    <3>1. l \in 1 .. Len(c.levels)
      BY <2>2, InputGateIs
    <3>2. k \in 1 .. Len(c.levels[l]) /\ Writes(c.levels[l][k], w) /\ g = c.levels[l][k]
      BY <2>2
    <3> HIDE DEF l, g
    <3>. QED  BY ONLY SMTT(30), <3>1, <3>2, c \in Circuits, ProducerIs
  <2>6. v[w] = in[w]
    BY <2>4 DEF Given
  <2> HIDE DEF a, b, v, g, x, y
  <2>. QED  BY <2>3, <2>4, <2>5, <2>6 DEF Opens
<1>. QED  BY <1>1, <1>2 DEF OpenUpTo

(* The permutations of the material are permutations.                      *)
LEMMA PermsGiven ==
  ASSUME NEW c \in Circuits, NEW d \in DealsOf(c)
  PROVE  JointPerms(c, d) \in PermsOf(c)
<1> DEFINE pm == JointPerms(c, d)
           Places == UNION {{l} \X DOMAIN c.levels[l] : l \in DOMAIN c.levels}
           IsAt(m, lk) == LET g == c.levels[lk[1]][lk[2]] IN g.type = "Shuffle" /\ g.param = m
<1>1. ASSUME NEW m \in Names(c) PROVE PermOf(pm[m], SizeOf(c, m))
  <2>1. PICK g0 \in GatesOf(c) : g0.type = "Shuffle" /\ g0.param = m
    BY DEF Names
  <2>2. PICK l0 \in DOMAIN c.levels : \E k0 \in DOMAIN c.levels[l0] : g0 = c.levels[l0][k0]
    BY DEF GatesOf
  <2>3. PICK k0 \in DOMAIN c.levels[l0] : g0 = c.levels[l0][k0]
    BY <2>2
  <2>4. <<l0, k0>> \in Places /\ IsAt(m, <<l0, k0>>)
    BY <2>1, <2>3
  <2>5. At(c, m) \in Places /\ IsAt(m, At(c, m))
    <3>1. At(c, m) = CHOOSE lk \in Places : IsAt(m, lk)
      BY DEF At
    <3> HIDE DEF Places, IsAt
    <3>. QED  BY <2>4, <3>1
  <2> DEFINE l == At(c, m)[1]
             k == At(c, m)[2]
             g == c.levels[l][k]
             d1 == d[1][l][k]
             d2 == d[2][l][k]
             n == Len(g.in1)
  <2>6. l \in DOMAIN c.levels /\ k \in DOMAIN c.levels[l] /\ g.type = "Shuffle" /\ g.param = m
    BY <2>5
  <2>7. pm[m] = Joint(d1, d2)
    BY DEF JointPerms
  <2>8. DealFor(g, d1, d2, pm)
    BY <2>6, CorrelatedGate, DealAssumption
  <2>9. g \in GatesOf(c) /\ n = SizeOf(c, m)
    <3>1. g \in GatesOf(c)
      BY <2>6 DEF GatesOf
    <3> HIDE DEF g
    <3>. QED  BY <2>6, <3>1, ShapeAssumption DEF WellShaped
  <2> HIDE DEF l, k, g, d1, d2, n, pm
  <2>10. PermOf(d1.pi, n) /\ PermOf(d2.pi, n)
    BY <2>6, <2>8 DEF DealFor, ShuffleDeal, ShuffleGate, n
  <2>11. PermOf(Joint(d1, d2), n)
    BY <2>10 DEF PermOf, Joint
  <2>. QED  BY <2>7, <2>9, <2>11
<1>2. pm \in [Names(c) -> UNION {[1 .. SizeOf(c, m) -> 1 .. SizeOf(c, m)] : m \in Names(c)}]
  <2>1. pm = [m \in Names(c) |-> pm[m]]
    BY DEF JointPerms
  <2> HIDE DEF pm
  <2>2. \A m \in Names(c) : pm[m] \in [1 .. SizeOf(c, m) -> 1 .. SizeOf(c, m)]
    BY <1>1 DEF PermOf
  <2>. QED  BY <2>1, <2>2
<1> HIDE DEF pm
<1>3. pm \in PermsOf(c)
  BY <1>1, <1>2 DEF PermsOf
<1>. QED  BY <1>3 DEF pm

LEMMA SensibleAt ==
  ASSUME NEW c \in Circuits, NEW l \in 1 .. Len(c.levels), NEW k \in 1 .. Len(c.levels[l]),
         NEW v, NEW z, Meaningful(c, z), \A w \in Reads(c.levels[l][k]) : v[w] = z[w]
  PROVE  Sensible(c.levels[l][k], v)
<1> DEFINE g == c.levels[l][k]
<1>1. g \in Gate /\ g \in GatesOf(c)
  BY GateAt
<1>2. g.in1 \in Seq(Nat) /\ g.in2 \in Seq(Nat)
  BY <1>1 DEF Gate
<1>3. /\ g.type = "GenCompaction" => \A j \in DOMAIN g.in1 : z[g.in1[j]] \in {0, 1}
      /\ g.type \in {"Reorder", "ReorderInverse"} => PermOf(On(z, g.in2), Len(g.in2))
  BY <1>1 DEF Meaningful
<1>4. On(v, g.in1) = On(z, g.in1) /\ On(v, g.in2) = On(z, g.in2)
  BY OnSame DEF Reads
<1>5. \A j \in 1 .. Len(g.in1) : On(z, g.in1)[j] = z[g.in1[j]] /\ j \in DOMAIN g.in1
  <2> HIDE DEF g
  <2>1. \A j \in 1 .. Len(g.in1) : On(z, g.in1)[j] = z[g.in1[j]]
    BY <1>2, OnLen
  <2>. QED  BY <1>2, <2>1
<1> HIDE DEF g
<1>6. Sensible(g, v)
  BY <1>3, <1>4, <1>5 DEF Sensible
<1>. QED  BY <1>6 DEF g

-----------------------------------------------------------------------------
(***************************************************************************)
(* What the parties hold in lockstep opens to the meaning of the circuit.  *)
(***************************************************************************)
LEMMA ClearsWalk ==
  ASSUME NEW c, NEW l, NEW f, NEW v, NEW pm, Clears(f, c, l, v, pm)
  PROVE  Walks(c, l, f) /\ f[0] = v /\ AfterLevel(c, l, v, pm) = f[Len(c.levels[l])]
<1>1. /\ AfterLevel(c, l, v, pm) = f[Len(c.levels[l])] /\ f[0] = v
      /\ \A k \in 1 .. Len(c.levels[l]) : f[k] = ClearGate(c.levels[l][k], pm, f[k - 1])
  BY DEF Clears
<1>2. ASSUME NEW k \in 1 .. Len(c.levels[l])
      PROVE  IF c.levels[l][k].type \in InputGate THEN f[k] = f[k - 1]
             ELSE \E o : f[k] = Written(f[k - 1], c.levels[l][k].outs, o)
  BY <1>1 DEF ClearGate
<1>. QED  BY <1>1, <1>2 DEF Walks

(* A wire that has its value in the run keeps it to the end of the run.    *)
LEMMA KeptToEnd ==
  ASSUME NEW c \in Circuits, NEW r, Runs(c, r), NEW l \in 1 .. Len(c.levels), NEW f,
         Walks(c, l, f), f[0] = r[l - 1], f[Len(c.levels[l])] = r[l],
         NEW k \in 0 .. Len(c.levels[l]), NEW w \in Wires(c), Ready(c, l, k, w)
  PROVE  r[Len(c.levels)][w] = f[k][w]
<1> DEFINE m == Len(c.levels[l])
           n == Len(c.levels)
<1>1. m \in Nat /\ n \in Nat /\ l \in 0 .. n /\ m \in 0 .. m /\ n \in 0 .. n /\ l - 1 \in 0 .. n
  BY SMTT(30), BeforeFacts
<1>2. OnWires(Wires(c), f[0])
  BY <1>1, RunSettles DEF Steady
<1>3. Settled(c, l, f, m)
  BY <1>1, <1>2, WalkSettles
<1>4. f[m][w] = f[k][w]
  BY <1>3 DEF Settled
<1>5. Ready(c, l, m, w)
  BY <1>1, ReadyGrows
<1>6. Ready(c, l + 1, 0, w)
  BY <1>5, ReadyNext
<1>7. Steady(c, r, n)
  BY <1>1, RunSettles
<1>8. r[n][w] = r[l][w]
  BY <1>1, <1>6, <1>7 DEF Steady
<1>. QED  BY <1>4, <1>8

LEMMA SensibleThere ==
  ASSUME NEW c \in Circuits, NEW in \in InputsOf(c), NEW pm \in PermsOf(c),
         NEW l \in 1 .. Len(c.levels), NEW f, Clears(f, c, l, Meaning(c, in, pm)[l - 1], pm)
  PROVE  \A k \in 1 .. Len(c.levels[l]) : Sensible(c.levels[l][k], f[k - 1])
<1> DEFINE r == Meaning(c, in, pm)
           z == r[Len(c.levels)]
<1>1. Runs(c, r)
  BY MeaningRuns
<1>2. Walks(c, l, f) /\ f[0] = r[l - 1] /\ f[Len(c.levels[l])] = r[l]
  <2>1. r[l] = AfterLevel(c, l, r[l - 1], pm)
    BY MeaningNext, BeforeFacts
  <2>. QED  BY <2>1, ClearsWalk
<1>3. Meaningful(c, z)
  BY MeaningAssumption
<1> HIDE DEF r
<1>4. \A j \in 0 .. Len(c.levels[l]) : \A w \in Wires(c) :
        Ready(c, l, j, w) => r[Len(c.levels)][w] = f[j][w]
  BY <1>1, <1>2, KeptToEnd
<1>5. ASSUME NEW k \in 1 .. Len(c.levels[l]) PROVE Sensible(c.levels[l][k], f[k - 1])
  <2>1. k - 1 \in 0 .. Len(c.levels[l])
    BY SMTT(30), BeforeFacts
  <2>2. ASSUME NEW w \in Reads(c.levels[l][k]) PROVE f[k - 1][w] = z[w]
    <3> DEFINE j == k - 1
    <3>1. w \in Wires(c) /\ Ready(c, l, j, w) /\ j \in 0 .. Len(c.levels[l])
      BY <2>1, ReadsReady
    <3> HIDE DEF j
    <3>2. r[Len(c.levels)][w] = f[j][w]
      BY <1>4, <3>1
    <3>3. z[w] = f[j][w]
      BY <3>2
    <3>. QED  BY <3>3 DEF j
  <2> DEFINE v == f[k - 1]
  <2>3. \A w \in Reads(c.levels[l][k]) : v[w] = z[w]
    BY <2>2
  <2> HIDE DEF v, z
  <2>4. Sensible(c.levels[l][k], v)
    BY <1>3, <2>3, SensibleAt
  <2>. QED  BY <2>4 DEF v
<1>. QED  BY <1>5

(* What the parties hold in lockstep opens to what the circuit means.      *)
LEMMA LockstepOpens ==
  ASSUME NEW c \in Circuits, NoConstAdd(c), NEW in \in InputsOf(c), NEW d \in DealsOf(c),
         NEW t \in SharedTapes
  PROVE  \A l \in 0 .. Len(c.levels) :
           OpenUpTo(c, l + 1, 0, Lockstep(c, in, d, t)[l][1], Lockstep(c, in, d, t)[l][2],
                    Meaning(c, in, JointPerms(c, d))[l])
<1> DEFINE n  == Len(c.levels)
           ls == Lockstep(c, in, d, t)
           pm == JointPerms(c, d)
           v  == Meaning(c, in, pm)
           T  == {l \in Nat : l <= n => OpenUpTo(c, l + 1, 0, ls[l][1], ls[l][2], v[l])}
<1>1. n \in Nat /\ \A l \in 1 .. n : Len(c.levels[l]) \in Nat
  BY BeforeFacts
<1>2. /\ ls[0] = [p \in Online |-> FirstShare(c, in, t, p)]
      /\ \A l \in 1 .. n : ls[l] = [p \in Online |-> Walked(c, d, p, l, ls[l - 1])[Len(c.levels[l])]]
  BY <1>1, LockstepNext
<1>3. /\ v[0] = Given(c, in)
      /\ \A l \in 1 .. n : v[l] = AfterLevel(c, l, v[l - 1], pm)
  BY <1>1, MeaningNext
<1>4. pm \in PermsOf(c) /\ Correlated(c, d)
  BY PermsGiven, DealAssumption
<1>5. \A l \in 1 .. n : \A f : Clears(f, c, l, v[l - 1], pm) =>
        \A k \in 1 .. Len(c.levels[l]) : Sensible(c.levels[l][k], f[k - 1])
  <2> HIDE DEF pm
  <2>. QED  BY <1>4, SensibleThere
<1> HIDE DEF ls, v
<1>6. 0 \in T
  <2>1. ls[0][1] = FirstShare(c, in, t, 1) /\ ls[0][2] = FirstShare(c, in, t, 2)
    BY <1>2 DEF Online
  <2>2. OpenUpTo(c, 1, 0, ls[0][1], ls[0][2], v[0])
    BY <1>3, <2>1, StartOpens
  <2>3. 0 + 1 = 1
    OBVIOUS
  <2>4. OpenUpTo(c, 0 + 1, 0, ls[0][1], ls[0][2], v[0])
    BY <2>2, <2>3
  <2>. QED  BY <2>4
<1>7. ASSUME NEW l \in T PROVE l + 1 \in T
  <2> SUFFICES ASSUME l + 1 <= n PROVE OpenUpTo(c, (l + 1) + 1, 0, ls[l + 1][1], ls[l + 1][2], v[l + 1])
    OBVIOUS
  <2>1. l \in Nat /\ l <= n /\ l + 1 \in 1 .. n /\ (l + 1) - 1 = l
    BY <1>1
  <2>2. OpenUpTo(c, l + 1, 0, ls[l][1], ls[l][2], v[l])
    BY <2>1
  <2> DEFINE j == l + 1
             ws == ls[l]
             x  == v[l]
  <2>3. /\ j \in 1 .. n /\ OpenUpTo(c, j, 0, ws[1], ws[2], x) /\ v[j] = AfterLevel(c, j, x, pm)
        /\ ls[j] = [p \in Online |-> Walked(c, d, p, j, ws)[Len(c.levels[j])]]
        /\ \A f : Clears(f, c, j, x, pm) =>
             \A k \in 1 .. Len(c.levels[j]) : Sensible(c.levels[j][k], f[k - 1])
        /\ Len(c.levels[j]) \in Nat
    BY <1>1, <1>2, <1>3, <1>5, <2>1, <2>2
  <2> HIDE DEF j, ws, x, n
  <2>4. PICK f : Clears(f, c, j, x, pm)
    BY <2>3, AfterLevelNext
  <2>5. OpenUpTo(c, j + 1, 0, Walked(c, d, 1, j, ws)[Len(c.levels[j])],
                 Walked(c, d, 2, j, ws)[Len(c.levels[j])], f[Len(c.levels[j])])
    BY <1>4, <2>3, <2>4, LevelOpens DEF n
  <2>6. v[j] = f[Len(c.levels[j])]
    BY <2>3, <2>4, ClearsWalk
  <2>7. /\ ls[j][1] = Walked(c, d, 1, j, ws)[Len(c.levels[j])]
        /\ ls[j][2] = Walked(c, d, 2, j, ws)[Len(c.levels[j])]
    BY <2>3 DEF Online
  <2>8. OpenUpTo(c, j + 1, 0, ls[j][1], ls[j][2], v[j])
    BY <2>5, <2>6, <2>7
  <2>. QED  BY <2>8 DEF j
<1>8. T = Nat
  <2> HIDE DEF T
  <2>1. T \in SUBSET Nat
    BY DEF T
  <2>. QED  BY <1>6, <1>7, <2>1, NatInd
<1>9. \A l \in 0 .. n : OpenUpTo(c, l + 1, 0, ls[l][1], ls[l][2], v[l])
  <2>1. \A l \in 0 .. n : l \in T /\ l <= n
    BY <1>1, <1>8
  <2>. QED  BY <2>1
<1>. QED  BY <1>9 DEF ls, v

-----------------------------------------------------------------------------
(***************************************************************************)
(* Gates make words of words.                                              *)
(***************************************************************************)
(* Gates make words of words, whatever the words are.                      *)
LEMMA InputWords ==
  ASSUME NEW g \in Gate, NEW w, \A u \in Reads(g) : w[u] \in Ring
  PROVE  /\ Len(g.in1) \in Nat /\ Len(g.in2) \in Nat
         /\ Len(On(w, g.in1)) = Len(g.in1) /\ Len(On(w, g.in2)) = Len(g.in2)
         /\ DOMAIN On(w, g.in1) = 1 .. Len(g.in1)
         /\ \A j \in 1 .. Len(g.in1) : On(w, g.in1)[j] \in Ring
         /\ \A j \in 1 .. Len(g.in2) : On(w, g.in2)[j] \in Ring
<1>1. g.in1 \in Seq(Nat) /\ g.in2 \in Seq(Nat)
  BY DEF Gate
<1>2. /\ \A j \in 1 .. Len(g.in1) : On(w, g.in1)[j] \in Ring
      /\ \A j \in 1 .. Len(g.in2) : On(w, g.in2)[j] \in Ring
  <2>1. ASSUME NEW ins \in Seq(Nat), Elems(ins) \subseteq Reads(g), NEW j \in 1 .. Len(ins)
        PROVE  On(w, ins)[j] \in Ring
    <3>1. On(w, ins)[j] = w[ins[j]] /\ ins[j] \in Elems(ins)
      BY OnAt
    <3>. QED  BY <2>1, <3>1
  <2>2. Elems(g.in1) \subseteq Reads(g) /\ Elems(g.in2) \subseteq Reads(g)
    BY DEF Reads
  <2>. QED  BY <1>1, <2>1, <2>2
<1>. QED  BY <1>1, <1>2, OnLen

LEMMA OneWords ==
  ASSUME NEW g \in Gate, LengthsFit(g), NEW p, NEW w, \A u \in Reads(g) : w[u] \in Ring,
         g.type \in {"Add", "Sub", "Xor", "ConstAdd", "ConstMul"}
  PROVE  \A j \in 1 .. Len(g.outs) : Local(p, g, w)[j] \in Ring
<1> DEFINE x == On(w, g.in1)
           y == On(w, g.in2)
<1>1. Len(g.in1) = 1 /\ Len(g.outs) = 1 /\ (g.type \in {"Add", "Sub", "Xor"} => Len(g.in2) = 1)
  <2>1. g.type = "ConstAdd" => Len(g.in1) = 1 /\ Len(g.outs) = 1
    BY DEF LengthsFit, Lengths, InputGate
  <2>. QED  BY <2>1, Lens1
<1>2. g.cval \in Ring
  BY DEF Gate
<1>3. x[1] \in Ring /\ (g.type \in {"Add", "Sub", "Xor"} => y[1] \in Ring)
  <2>1. 1 \in 1 .. 1
    OBVIOUS
  <2>. QED  BY <1>1, <2>1, InputWords
<1>4. Local(p, g, w) = CASE g.type = "Add" -> <<Plus(x[1], y[1])>>
                         [] g.type = "Sub" -> <<Minus(x[1], y[1])>>
                         [] g.type = "Xor" -> <<XorW(x[1], y[1])>>
                         [] g.type = "ConstAdd" -> <<Plus(x[1], g.cval)>>
                         [] g.type = "ConstMul" -> <<Times(x[1], g.cval)>>
  BY DEF Local
<1> HIDE DEF x, y
<1>5. Local(p, g, w)[1] \in Ring
  <2>1. CASE g.type = "Add"
    BY <1>3, <1>4, <2>1, RingOps
  <2>2. CASE g.type = "Sub"
    BY <1>3, <1>4, <2>2, RingOps
  <2>3. CASE g.type = "Xor"
    BY <1>3, <1>4, <2>3, BitOps
  <2>4. CASE g.type = "ConstAdd"
    BY <1>2, <1>3, <1>4, <2>4, RingOps
  <2>5. CASE g.type = "ConstMul"
    BY <1>2, <1>3, <1>4, <2>5, RingOps
  <2>. QED  BY <2>1, <2>2, <2>3, <2>4, <2>5
<1>. QED  BY <1>1, <1>5

LEMMA EachWord ==
  ASSUME NEW g \in Gate, LengthsFit(g), NEW p, NEW w, \A u \in Reads(g) : w[u] \in Ring,
         g.type \in {"AddVec", "Flip", "AddConstToVec", "PreparePropagate", "Propagate", "PrepareGather"}
  PROVE  \A j \in 1 .. Len(g.outs) : Local(p, g, w)[j] \in Ring
<1> DEFINE x == On(w, g.in1)
           y == On(w, g.in2)
           n == Len(g.in1)
           o == Local(p, g, w)
<1>1. /\ n \in Nat /\ Len(g.outs) = n /\ (g.type \in {"AddVec", "Propagate"} => Len(g.in2) = n)
      /\ g.cval \in Ring /\ g.param \in Nat /\ g.param2 \in Nat /\ One(p) \in Ring
  BY Lens1, RingConsts DEF Gate, One
<1>2. /\ Len(x) = n /\ \A j \in 1 .. n : x[j] \in Ring
      /\ Len(g.in2) = n => \A j \in 1 .. n : y[j] \in Ring
  BY InputWords
<1>3. \A j \in 1 .. n : Total(x, j) \in Ring
  <2> HIDE DEF x
  <2>1. \A j \in 0 .. n : Total(x, j) \in Ring
    BY <1>1, <1>2, TotalWord
  <2>2. \A j \in 1 .. n : j \in 0 .. n
    BY <1>1
  <2>. QED  BY <2>1, <2>2
<1>4. ASSUME g.type = "AddVec", NEW j \in 1 .. n PROVE o[j] \in Ring
  <2>1. o = [i \in 1 .. Len(x) |-> Plus(x[i], y[i])]
    BY <1>4 DEF Local
  <2> HIDE DEF o, x, y
  <2>2. o[j] = Plus(x[j], y[j])
    BY <1>2, <2>1
  <2>. QED  BY <1>1, <1>2, <1>4, <2>2, RingOps
<1>5. ASSUME g.type = "Flip", NEW j \in 1 .. n PROVE o[j] \in Ring
  <2>1. o = [i \in 1 .. Len(x) |-> Minus(One(p), x[i])]
    BY <1>5 DEF Local
  <2> HIDE DEF o, x, y
  <2>2. o[j] = Minus(One(p), x[j])
    BY <1>2, <2>1
  <2>. QED  BY <1>1, <1>2, <2>2, RingOps
<1>6. ASSUME g.type = "AddConstToVec", NEW j \in 1 .. n PROVE o[j] \in Ring
  <2>1. o = [i \in 1 .. Len(x) |-> IF i <= g.param2 /\ p = 1 THEN Plus(x[i], g.cval) ELSE x[i]]
    BY <1>6 DEF Local
  <2> HIDE DEF o, x, y
  <2>2. o[j] = IF j <= g.param2 /\ p = 1 THEN Plus(x[j], g.cval) ELSE x[j]
    BY <1>2, <2>1
  <2>. QED  BY <1>1, <1>2, <2>2, RingOps
<1>7. ASSUME g.type = "PreparePropagate", NEW j \in 1 .. n PROVE o[j] \in Ring
  <2>1. o = [i \in 1 .. Len(x) |-> IF 1 < i /\ i <= g.param THEN Minus(x[i], x[i - 1]) ELSE x[i]]
    BY <1>7 DEF Local
  <2> HIDE DEF o, x, y
  <2>2. o[j] = IF 1 < j /\ j <= g.param THEN Minus(x[j], x[j - 1]) ELSE x[j]
    BY <1>2, <2>1
  <2>3. 1 < j => j - 1 \in 1 .. n
    BY <1>1
  <2>4. 1 < j => x[j - 1] \in Ring
    BY <1>2, <2>3
  <2>. QED  BY <1>1, <1>2, <2>2, <2>4, RingOps
<1>8. ASSUME g.type = "Propagate", NEW j \in 1 .. n PROVE o[j] \in Ring
  <2>1. o = [i \in 1 .. Len(x) |-> Minus(Total(x, i), y[i])]
    BY <1>8 DEF Local
  <2> HIDE DEF o, x, y
  <2>2. o[j] = Minus(Total(x, j), y[j])
    BY <1>2, <2>1
  <2>. QED  BY <1>1, <1>2, <1>3, <1>8, <2>2, RingOps
<1>9. ASSUME g.type = "PrepareGather", NEW j \in 1 .. n PROVE o[j] \in Ring
  <2>1. o = [i \in 1 .. Len(x) |-> Total(x, i)]
    BY <1>9 DEF Local
  <2> HIDE DEF o, x, y
  <2>2. o[j] = Total(x, j)
    BY <1>2, <2>1
  <2>. QED  BY <1>3, <2>2
<1> HIDE DEF o
<1>10. \A j \in 1 .. n : o[j] \in Ring
  BY <1>4, <1>5, <1>6, <1>7, <1>8, <1>9
<1>. QED  BY <1>1, <1>10 DEF o

LEMMA OtherWords ==
  ASSUME NEW g \in Gate, LengthsFit(g), NEW p, NEW w, \A u \in Reads(g) : w[u] \in Ring,
         \A u \in Elems(g.outs) : w[u] \in Ring,
         g.type \in {"Gather", "Compose", "Reorder", "ReorderInverse"}
  PROVE  \A j \in 1 .. Len(g.outs) : Local(p, g, w)[j] \in Ring
<1> DEFINE x == On(w, g.in1)
           y == On(w, g.in2)
           n == Len(g.in1)
           m == g.param
           o == Local(p, g, w)
<1>1. n \in Nat /\ m \in Nat /\ g.outs \in Seq(Nat)
  BY Lens1 DEF Gate
<1>2. Len(x) = n /\ \A j \in 1 .. n : x[j] \in Ring
  BY InputWords
<1>3. ASSUME g.type = "Gather", NEW j \in 1 .. Len(g.outs) PROVE o[j] \in Ring
  <2>1. o = Gathering(x, m)
    BY <1>3 DEF Local
  <2>2. Len(g.outs) = n
    BY <1>3, Lens1
  <2> HIDE DEF o, x, m
  <2>3. o = Gathered(x, m)
    BY <1>1, <1>2, <2>1, GatheringIs
  <2>4. o[j] = CASE j > m -> 0
                 [] j = 1 /\ j <= m -> x[1]
                 [] OTHER -> Minus(x[j], x[j - 1])
    BY <1>2, <2>2, <2>3 DEF Gathered
  <2>5. j = 1 \/ j - 1 \in 1 .. n
    BY <1>1, <2>2
  <2>9. o[j] = IF j > m THEN 0 ELSE IF j = 1 THEN x[1] ELSE Minus(x[j], x[j - 1])
    BY <1>1, <2>2, <2>4
  <2>6. CASE j > m
    BY <2>6, <2>9, RingConsts
  <2>7. CASE ~ (j > m) /\ j = 1
    BY <1>1, <1>2, <2>2, <2>7, <2>9
  <2>8. CASE ~ (j > m) /\ j # 1
    BY <1>2, <2>2, <2>5, <2>8, <2>9, RingOps
  <2>. QED  BY <2>6, <2>7, <2>8
<1>4. ASSUME g.type = "Compose", NEW j \in 1 .. Len(g.outs) PROVE o[j] \in Ring
  <2> DEFINE z == [i \in 1 .. n |-> Times(x[i], 2^(i - 1))]
  <2>1. o = <<Total([i \in 1 .. Len(x) |-> Times(x[i], 2^(i - 1))], Len(x))>>
    BY <1>4 DEF Local
  <2>2. j = 1
    <3>1. Len(g.outs) = 1
      BY <1>4, Lens1
    <3>. QED  BY <3>1
  <2>3. ASSUME NEW i \in 1 .. n PROVE z[i] \in Ring
    <3>1. i - 1 \in Nat
      BY <1>1
    <3>2. 2^(i - 1) \in Int /\ x[i] \in Int
      BY <1>2, <3>1, PowNat, RingInt
    <3>3. x[i] * 2^(i - 1) \in Int
      BY <3>2
    <3>4. z[i] = (x[i] * 2^(i - 1)) % Modulus
      BY DEF Times
    <3> HIDE DEF z
    <3>. QED  BY <3>3, <3>4, IsTrunc DEF Is
  <2> HIDE DEF z, o, x
  <2>4. Total(z, n) \in Ring
    <3>1. n \in 0 .. n
      BY <1>1
    <3>. QED  BY <1>1, <2>3, <3>1, TotalWord
  <2>5. o[1] = Total(z, n)
    BY <1>2, <2>1 DEF z
  <2>. QED  BY <2>2, <2>4, <2>5
<1>5. ASSUME g.type = "Reorder", NEW j \in 1 .. Len(g.outs) PROVE o[j] \in Ring
  <2>1. o = [k \in 1 .. Len(x) |->
               IF \A i \in 1 .. Len(x) : y[i] # k THEN w[g.outs[k]]
               ELSE x[CHOOSE i \in 1 .. Len(x) : y[i] = k /\ \A h \in (i + 1) .. Len(x) : y[h] # k]]
    BY <1>5 DEF Local
  <2>2. Len(g.outs) = n
    BY <1>5, Lens1
  <2> HIDE DEF o, x, y
  <2> DEFINE P(i) == y[i] = j /\ \A h \in (i + 1) .. n : y[h] # j
             last == CHOOSE i \in 1 .. n : P(i)
  <2>3. o[j] = IF \A i \in 1 .. n : y[i] # j THEN w[g.outs[j]] ELSE x[last]
    BY <1>2, <2>1, <2>2
  <2>4. CASE \A i \in 1 .. n : y[i] # j
    <3>1. g.outs[j] \in Elems(g.outs)
      BY <1>1 DEF Elems
    <3>. QED  BY <2>3, <2>4, <3>1
  <2>5. CASE ~ \A i \in 1 .. n : y[i] # j
    <3>1. \E i \in 1 .. n : P(i)
      <4> DEFINE T == {i \in Nat : i \in 1 .. n /\ y[n + 1 - i] = j}
      <4>1. PICK i \in 1 .. n : y[i] = j
        BY <2>5
      <4>2. n + 1 - i \in T
        <5>1. n + 1 - i \in Nat /\ n + 1 - i \in 1 .. n /\ n + 1 - (n + 1 - i) = i
          BY <1>1
        <5>. QED  BY <4>1, <5>1
      <4>3. T \in SUBSET Nat /\ T # {}
        BY <4>2
      <4> HIDE DEF T
      <4>4. PICK m0 \in T : \A k \in T : m0 <= k
        BY <4>3, NatLeast
      <4>5. m0 \in Nat /\ m0 \in 1 .. n /\ y[n + 1 - m0] = j
        BY <4>4 DEF T
      <4>6. n + 1 - m0 \in 1 .. n
        BY <1>1, <4>5
      <4>7. ASSUME NEW h \in ((n + 1 - m0) + 1) .. n, y[h] = j PROVE FALSE
        <5>1. n + 1 - h \in Nat /\ n + 1 - h \in 1 .. n /\ n + 1 - (n + 1 - h) = h /\ n + 1 - h < m0
          BY <1>1, <4>5
        <5>2. n + 1 - h \in T
          BY <4>7, <5>1 DEF T
        <5>3. m0 <= n + 1 - h
          BY <4>4, <5>2
        <5>. QED  BY <4>5, <5>1, <5>3
      <4>8. P(n + 1 - m0)
        BY <4>5, <4>7
      <4> HIDE DEF P
      <4>. QED  BY <4>6, <4>8
    <3>2. last \in 1 .. n
      <4> HIDE DEF P
      <4>. QED  BY <3>1
    <3> HIDE DEF last
    <3>. QED  BY <1>2, <2>3, <2>5, <3>2
  <2>. QED  BY <2>4, <2>5
<1>6. ASSUME g.type = "ReorderInverse", NEW j \in 1 .. Len(g.outs) PROVE o[j] \in Ring
  <2>1. o = [k \in 1 .. Len(x) |-> IF y[k] \in 1 .. Len(x) THEN x[y[k]] ELSE 0]
    BY <1>6 DEF Local
  <2>2. Len(g.outs) = n
    BY <1>6, Lens1
  <2> HIDE DEF o, x, y
  <2>3. o[j] = IF y[j] \in 1 .. n THEN x[y[j]] ELSE 0
    BY <1>2, <2>1, <2>2
  <2>. QED  BY <1>2, <2>3, RingConsts
<1> HIDE DEF o
<1>7. \A j \in 1 .. Len(g.outs) : o[j] \in Ring
  BY <1>3, <1>4, <1>5, <1>6
<1>. QED  BY <1>7 DEF o

LEMMA LocalWords ==
  ASSUME NEW g \in Gate, LengthsFit(g), NEW p, NEW w, \A u \in Reads(g) : w[u] \in Ring,
         \A u \in Elems(g.outs) : w[u] \in Ring, g.type \in LocalGate
  PROVE  \A j \in 1 .. Len(g.outs) : Local(p, g, w)[j] \in Ring
<1>1. CASE g.type \in {"Add", "Sub", "Xor", "ConstAdd", "ConstMul"}
  BY <1>1, OneWords
<1>2. CASE g.type \in {"AddVec", "Flip", "AddConstToVec", "PreparePropagate", "Propagate", "PrepareGather"}
  BY <1>2, EachWord
<1>3. CASE g.type \in {"Gather", "Compose", "Reorder", "ReorderInverse"}
  BY <1>3, OtherWords
<1>. QED  BY <1>1, <1>2, <1>3 DEF LocalGate
-----------------------------------------------------------------------------
(* Interactive gates, e the material of one party.                         *)
HasWords(g, e) ==
  LET n == Len(g.in1) IN
  /\ g.type \in MultGate \cup AndGate =>
       e.a \in [1 .. n -> Ring] /\ e.b \in [1 .. n -> Ring] /\ e.c \in [1 .. n -> Ring]
  /\ g.type \in ShuffleGate =>
       /\ e.mask \in [1 .. n -> Ring] /\ e.b \in [1 .. n -> Ring]
       /\ PermOf(e.pi, n) /\ PermOf(e.rho, n)

LEMMA MaterialWords ==
  ASSUME NEW c \in Circuits, NEW d \in DealsOf(c), NEW p \in Online,
         NEW l \in 1 .. Len(c.levels), NEW k \in 1 .. Len(c.levels[l])
  PROVE  HasWords(c.levels[l][k], d[p][l][k])
<1> DEFINE g == c.levels[l][k]
           d1 == d[1][l][k]
           d2 == d[2][l][k]
           pm == JointPerms(c, d)
<1>1. DealFor(g, d1, d2, pm)
  <2>1. l \in DOMAIN c.levels /\ k \in DOMAIN c.levels[l]
    BY GateAt
  <2>2. Correlated(c, d)
    BY DealAssumption
  <2>. QED  BY <2>1, <2>2, CorrelatedGate
<1>2. p = 1 \/ p = 2
  BY DEF Online
<1> HIDE DEF g, d1, d2, pm
<1>3. HasWords(g, d1) /\ HasWords(g, d2)
  BY <1>1 DEF DealFor, MultDeal, AndDeal, ShuffleDeal, HasWords
<1>. QED  BY <1>2, <1>3 DEF g, d1, d2

(* The words it opens.                                                     *)
LEMMA SumWords ==
  ASSUME NEW p, NEW n \in Nat, NEW x, DOMAIN x = 1 .. n, Len(x) = n, \A j \in 1 .. n : x[j] \in Ring
  PROVE  \A j \in 1 .. n : ZerosSoFar(p, x)[j] \in Ring /\ OnesAfterZeros(p, x)[j] \in Ring
<1> DEFINE z == [i \in DOMAIN x |-> Minus(One(p), x[i])]
<1>1. One(p) \in Ring
  BY RingConsts DEF One
<1>2. \A j \in 1 .. n : z[j] \in Ring
  <2>1. \A j \in 1 .. n : z[j] = Minus(One(p), x[j])
    OBVIOUS
  <2> HIDE DEF z
  <2>. QED  BY <1>1, <2>1, RingOps
<1>3. \A j \in 1 .. n : ZerosSoFar(p, x)[j] = Total(z, j)
  BY DEF ZerosSoFar
<1>4. \A j \in 1 .. n : OnesAfterZeros(p, x)[j] = Plus(ZerosSoFar(p, x)[n], Total(x, j))
  BY DEF OnesAfterZeros
<1> HIDE DEF z
<1>5. \A j \in 1 .. n : j \in 0 .. n /\ n \in 1 .. n /\ n \in 0 .. n
  OBVIOUS
<1>6. \A j \in 0 .. n : Total(z, j) \in Ring /\ Total(x, j) \in Ring
  BY <1>2, TotalWord
<1>. QED  BY <1>3, <1>4, <1>5, <1>6, RingOps

LEMMA FactorWords ==
  ASSUME NEW g \in Gate, LengthsFit(g), NEW p, NEW w, \A u \in Reads(g) : w[u] \in Ring,
         g.type \in MultGate
  PROVE  /\ Len(Factors(p, g, w)) <= Len(g.in1)
         /\ \A j \in 1 .. Len(Factors(p, g, w)) :
              Factors(p, g, w)[j][1] \in Ring /\ Factors(p, g, w)[j][2] \in Ring
<1> DEFINE x == On(w, g.in1)
           y == On(w, g.in2)
           n == Len(g.in1)
           f == Factors(p, g, w)
<1>1. /\ n \in Nat /\ Len(x) = n /\ DOMAIN x = 1 .. n /\ \A j \in 1 .. n : x[j] \in Ring
      /\ \A j \in 1 .. Len(g.in2) : y[j] \in Ring
  BY InputWords
<1>2. ASSUME g.type = "Mul"
      PROVE  Len(f) <= n /\ \A j \in 1 .. Len(f) : f[j][1] \in Ring /\ f[j][2] \in Ring
  <2>1. f = << <<x[1], y[1]>> >>
    BY <1>2 DEF Factors
  <2>2. n = 1 /\ Len(g.in2) = 1
    BY <1>2, Lens1
  <2> HIDE DEF f, x, y
  <2>3. x[1] \in Ring /\ y[1] \in Ring
    BY <1>1, <2>2
  <2>. QED  BY <2>1, <2>2, <2>3
<1>3. ASSUME g.type = "ConvertB2A"
      PROVE  Len(f) <= n /\ \A j \in 1 .. Len(f) : f[j][1] \in Ring /\ f[j][2] \in Ring
  <2>1. f = << IF p = 1 THEN <<x[1] % 2, 0>> ELSE <<0, x[1] % 2>> >>
    BY <1>3 DEF Factors
  <2>2. n = 1
    BY <1>3, Lens1
  <2> HIDE DEF f, x
  <2>3. x[1] % 2 \in Ring
    <3>1. x[1] \in Ring
      BY <1>1, <2>2
    <3>2. x[1] \in Nat
      BY <3>1, RingInt
    <3>3. x[1] % 2 \in {0, 1}
      BY <3>2
    <3>. QED  BY <3>3, RingConsts
  <2>. QED  BY <2>1, <2>2, <2>3, RingConsts
<1>4. ASSUME g.type = "GenCompaction"
      PROVE  Len(f) <= n /\ \A j \in 1 .. Len(f) : f[j][1] \in Ring /\ f[j][2] \in Ring
  <2>1. f = [j \in DOMAIN x |-> <<x[j], Minus(OnesAfterZeros(p, x)[j], ZerosSoFar(p, x)[j])>>]
    BY <1>4 DEF Factors
  <2> HIDE DEF f, x
  <2>2. Len(f) = n
    BY <1>1, <2>1
  <2>3. \A j \in 1 .. n : /\ f[j][1] = x[j]
                          /\ f[j][2] = Minus(OnesAfterZeros(p, x)[j], ZerosSoFar(p, x)[j])
    BY <1>1, <2>1
  <2>4. \A j \in 1 .. n : ZerosSoFar(p, x)[j] \in Ring /\ OnesAfterZeros(p, x)[j] \in Ring
    BY <1>1, SumWords
  <2>. QED  BY <1>1, <2>2, <2>3, <2>4, RingOps
<1>. QED  BY <1>2, <1>3, <1>4 DEF MultGate

LEMMA MultOpened ==
  ASSUME NEW g \in Gate, LengthsFit(g), NEW p, NEW w, \A u \in Reads(g) : w[u] \in Ring,
         g.type \in MultGate, NEW e, HasWords(g, e), NEW i \in 1 .. Takes(g)
  PROVE  Opened(p, g, e, "mult", w)[i] \in Ring
<1> DEFINE f == Factors(p, g, w)
           h == (i + 1) \div 2
           m == Len(f)
           n == Len(g.in1)
<1>1. m \in Nat /\ 2 * m = Takes(g) /\ m <= n /\ n \in Nat
  BY FactorsLen, FactorWords, InputWords
<1>2. h \in 1 .. m
  <2> HIDE DEF m
  <2>. QED  BY <1>1
<1>3. Opened(p, g, e, "mult", w)[i] = IF i % 2 = 1 THEN Plus(e.a[h], f[h][1]) ELSE Plus(e.b[h], f[h][2])
  <2>1. Opened(p, g, e, "mult", w) = [s \in 1 .. (2 * Len(f)) |-> LET j == (s + 1) \div 2 IN
              IF s % 2 = 1 THEN Plus(e.a[j], f[j][1]) ELSE Plus(e.b[j], f[j][2])]
    BY DEF Opened
  <2> HIDE DEF f
  <2>2. i \in 1 .. (2 * Len(f))
    BY <1>1
  <2>. QED  BY <2>1, <2>2
<1>4. f[h][1] \in Ring /\ f[h][2] \in Ring
  BY <1>2, FactorWords
<1>5. e.a[h] \in Ring /\ e.b[h] \in Ring
  <2>1. h \in 1 .. n
    <3> HIDE DEF h, m, n
    <3>. QED  BY <1>1, <1>2
  <2> HIDE DEF h
  <2>. QED  BY <2>1 DEF HasWords
<1> HIDE DEF f, h
<1>. QED  BY <1>3, <1>4, <1>5, RingOps

LEMMA AndOpened ==
  ASSUME NEW g \in Gate, LengthsFit(g), NEW p, NEW w, \A u \in Reads(g) : w[u] \in Ring,
         g.type \in AndGate, g.type = "EqualsZero" => g.param < Layers,
         NEW e, HasWords(g, e), NEW i \in 1 .. Takes(g)
  PROVE  Opened(p, g, e, "and", w)[i] \in Ring
<1> DEFINE x == On(w, g.in1)
           y == On(w, g.in2)
           f == Factors(p, g, w)[1]
<1>1. Len(g.in1) = 1 /\ (g.type = "And" => Len(g.in2) = 1)
  BY Lens1 DEF AndGate
<1>2. x[1] \in Ring /\ (g.type = "And" => y[1] \in Ring)
  <2>1. 1 \in 1 .. 1
    OBVIOUS
  <2>. QED  BY <1>1, <2>1, InputWords
<1>3. f[1] \in Ring /\ f[2] \in Ring
  <2>1. CASE g.type = "And"
    <3>1. f = <<x[1], y[1]>>
      BY <2>1 DEF Factors
    <3>. QED  BY <1>2, <2>1, <3>1
  <2>2. CASE g.type = "EqualsZero"
    <3> DEFINE share == IF g.param = 0 /\ p = 2 THEN Neg(x[1]) ELSE x[1]
               b == Half(g.param)
               u == LowBits(Shr(share, b), b)
               v == LowBits(share, b)
    <3>1. f = Halves(p, g, x[1])
      BY <2>2 DEF Factors
    <3>2. share \in Ring
      BY <1>2, RingOps, RingConsts DEF Neg
    <3>3. b \in 0 .. 2^Layers
      BY <2>2, HalfFacts DEF Gate
    <3> HIDE DEF share, b
    <3>4. Shr(share, b) \in Ring /\ LowBits(share, b) \in Ring
      BY <3>2, <3>3, LowBitsFacts
    <3>5. u \in Ring /\ v \in Ring
      BY <3>3, <3>4, LowBitsFacts
    <3>6. Complement(u) \in Ring /\ Complement(v) \in Ring
      BY <3>5, ComplementFacts
    <3>7. Halves(p, g, x[1]) = <<IF p = 1 THEN Complement(u) ELSE u, IF p = 1 THEN Complement(v) ELSE v>>
      BY DEF Halves, share, b
    <3> HIDE DEF f, u, v
    <3>. QED  BY <3>1, <3>5, <3>6, <3>7
  <2>. QED  BY <2>1, <2>2 DEF AndGate
<1>4. e.a[1] \in Ring /\ e.b[1] \in Ring
  BY <1>1 DEF HasWords
<1>5. Opened(p, g, e, "and", w) = <<XorW(e.a[1], f[1]), XorW(e.b[1], f[2])>>
  BY DEF Opened, MultGate, AndGate
<1>6. i \in {1, 2}
  <2>1. Takes(g) = 2
    BY TakesIs DEF AndGate
  <2>. QED  BY <2>1
<1> HIDE DEF f
<1>7. XorW(e.a[1], f[1]) \in Ring /\ XorW(e.b[1], f[2]) \in Ring
  BY <1>3, <1>4, BitOps
<1>. QED  BY <1>5, <1>6, <1>7

LEMMA ShuffleOpened ==
  ASSUME NEW g \in Gate, NEW p \in Online, NEW w, \A u \in Reads(g) : w[u] \in Ring,
         g.type \in ShuffleGate, NEW e, HasWords(g, e), NEW i \in 1 .. Takes(g)
  PROVE  Opened(p, g, e, "shuffle", w)[i] \in Ring
<1> DEFINE x == On(w, g.in1)
           n == Len(g.in1)
<1>1. n \in Nat /\ Len(x) = n /\ \A j \in 1 .. n : x[j] \in Ring
  BY InputWords
<1>2. Takes(g) = n
  BY TakesIs DEF ShuffleGate
<1>3. e.mask \in [1 .. n -> Ring] /\ PermOf(Inner(p, e), n) /\ PermOf(Outer(p, e), n)
  BY DEF HasWords, Inner, Outer
<1>4. \A j \in 1 .. n : e.mask[j] \in Ring
  BY <1>3
<1>5. Opened(p, g, e, "shuffle", w) = Masked(p, g, e, w)
  BY DEF Opened, MultGate, AndGate, ShuffleGate
<1>6. CASE g.reverse
  <2>1. Masked(p, g, e, w) = [j \in 1 .. n |-> Plus(x[Outer(p, e)[j]], e.mask[Outer(p, e)[j]])]
    BY <1>1, <1>6 DEF Masked
  <2> DEFINE o == Outer(p, e)
  <2>2. o[i] \in 1 .. n
    BY <1>2, <1>3 DEF PermOf
  <2>3. Masked(p, g, e, w)[i] = Plus(x[o[i]], e.mask[o[i]])
    BY <1>2, <2>1
  <2> HIDE DEF o, x
  <2>4. x[o[i]] \in Ring /\ e.mask[o[i]] \in Ring
    BY <1>1, <1>4, <2>2
  <2>. QED  BY <1>5, <2>3, <2>4, RingOps
<1>7. CASE ~ g.reverse
  <2> DEFINE o == Inverted(Inner(p, e), n)
  <2>1. Masked(p, g, e, w) = [k \in 1 .. n |-> Plus(x[o[k]], e.mask[o[k]])]
    BY <1>1, <1>7 DEF Masked
  <2>2. o[i] \in 1 .. n
    <3> DEFINE f == Inner(p, e)
    <3>1. PermOf(f, n) /\ i \in 1 .. n
      BY <1>2, <1>3
    <3> HIDE DEF f, n
    <3>2. Inverted(f, n)[i] \in 1 .. n
      BY <1>1, <3>1, InvertedFacts
    <3>. QED  BY <3>2 DEF f
  <2>3. Masked(p, g, e, w)[i] = Plus(x[o[i]], e.mask[o[i]])
    BY <1>2, <2>1
  <2> HIDE DEF o, x
  <2>4. x[o[i]] \in Ring /\ e.mask[o[i]] \in Ring
    BY <1>1, <1>4, <2>2
  <2>. QED  BY <1>5, <2>3, <2>4, RingOps
<1>. QED  BY <1>6, <1>7

LEMMA RevealOpened ==
  ASSUME NEW g \in Gate, NEW p, NEW w, \A u \in Reads(g) : w[u] \in Ring,
         g.type = "Reveal", NEW e, NEW i \in 1 .. Takes(g)
  PROVE  Opened(p, g, e, "reveal", w)[i] \in Ring
<1>1. Opened(p, g, e, "reveal", w) = On(w, g.in1)
  BY DEF Opened, MultGate, AndGate, ShuffleGate
<1>2. Takes(g) = Len(g.in1)
  BY TakesIs
<1>3. \A j \in 1 .. Len(g.in1) : On(w, g.in1)[j] \in Ring
  BY InputWords
<1>. QED  BY <1>1, <1>2, <1>3

(* Whatever the kind.                                                      *)
LEMMA OpenedWords ==
  ASSUME NEW g \in Gate, LengthsFit(g), g.type = "EqualsZero" => g.param < Layers,
         NEW p \in Online, NEW w, \A u \in Reads(g) : w[u] \in Ring,
         NEW e, HasWords(g, e), NEW kind \in WordKind
  PROVE  /\ Len(Opened(p, g, e, kind, w)) \in Nat
         /\ IsVec(Opened(p, g, e, kind, w))
         /\ \A i \in 1 .. Len(Opened(p, g, e, kind, w)) : Opened(p, g, e, kind, w)[i] \in Ring
<1> DEFINE o == Opened(p, g, e, kind, w)
<1>1. IsVec(o) /\ Len(o) = WordsOf(g, kind) /\ WordsOf(g, kind) \in Nat
  BY OpenedLen
<1> HIDE DEF o
<1>2. CASE WordsOf(g, kind) = 0
  BY <1>1, <1>2 DEF o
<1>3. CASE WordsOf(g, kind) # 0
  <2>1. g.type \in Interactive /\ Kind(g) = kind /\ WordsOf(g, kind) = Takes(g)
    BY <1>3 DEF WordsOf
  <2>2. ASSUME NEW i \in 1 .. Takes(g) PROVE Opened(p, g, e, kind, w)[i] \in Ring
    <3>1. CASE g.type \in MultGate
      <4>1. kind = "mult"
        BY <2>1, <3>1, TakesIs DEF MultGate
      <4>. QED  BY <2>2, <3>1, <4>1, MultOpened
    <3>2. CASE g.type \in AndGate
      <4>1. kind = "and"
        BY <2>1, <3>2, TakesIs DEF AndGate
      <4>. QED  BY <2>2, <3>2, <4>1, AndOpened
    <3>3. CASE g.type \in ShuffleGate
      <4>1. kind = "shuffle"
        BY <2>1, <3>3 DEF Kind, MultGate, AndGate, ShuffleGate
      <4>. QED  BY <2>2, <3>3, <4>1, ShuffleOpened
    <3>4. CASE g.type = "Reveal"
      <4>1. kind = "reveal"
        BY <2>1, <3>4 DEF Kind, MultGate, AndGate, ShuffleGate
      <4>. QED  BY <2>2, <3>4, <4>1, RevealOpened
    <3>. QED  BY <2>1, <3>1, <3>2, <3>3, <3>4 DEF Interactive
  <2>. QED  BY <1>1, <2>1, <2>2 DEF o
<1>. QED  BY <1>2, <1>3

LEMMA JoinedWord ==
  ASSUME NEW p \in Online, NEW x \in Ring, NEW y \in Ring, NEW kind \in WordKind
  PROVE  Joined(kind, p, x, y) \in Ring
<1>1. CASE kind \in {"mult", "reveal"}
  BY <1>1, RingOps DEF Joined
<1>2. CASE kind = "and"
  BY <1>2, BitOps DEF Joined
<1>3. CASE kind = "shuffle"
  BY <1>3 DEF Joined
<1>. QED  BY <1>1, <1>2, <1>3 DEF WordKind
-----------------------------------------------------------------------------
(* ... and makes of the combined ones.                                     *)
LEMMA BeaverWord ==
  ASSUME NEW p \in Online, NEW e, NEW j, e.a[j] \in Ring, e.b[j] \in Ring, e.c[j] \in Ring,
         NEW x \in Ring, NEW y \in Ring
  PROVE  BeaverProduct(p, e, j, x, y) \in Ring
<1>1. p - 1 \in Ring
  <2>1. p - 1 = 0 \/ p - 1 = 1
    BY DEF Online
  <2>. QED  BY <2>1, RingConsts
<1> DEFINE q == p - 1
           a == e.a[j]
           b == e.b[j]
           c == e.c[j]
<1>2. q \in Ring /\ a \in Ring /\ b \in Ring /\ c \in Ring
  BY <1>1
<1>3. BeaverProduct(p, e, j, x, y) = Plus(Minus(Minus(Times(Times(x, y), q), Times(x, b)), Times(y, a)), c)
  BY DEF BeaverProduct
<1> HIDE DEF q, a, b, c
<1>4. Times(x, y) \in Ring /\ Times(x, b) \in Ring /\ Times(y, a) \in Ring
  BY <1>2, RingOps
<1>5. Times(Times(x, y), q) \in Ring
  BY <1>2, <1>4, RingOps
<1>6. Minus(Times(Times(x, y), q), Times(x, b)) \in Ring
  BY <1>4, <1>5, RingOps
<1>7. Minus(Minus(Times(Times(x, y), q), Times(x, b)), Times(y, a)) \in Ring
  BY <1>4, <1>6, RingOps
<1>. QED  BY <1>2, <1>3, <1>7, RingOps

LEMMA BeaverAndWord ==
  ASSUME NEW p \in Online, NEW e, e.a[1] \in Ring, e.b[1] \in Ring, e.c[1] \in Ring,
         NEW x \in Ring, NEW y \in Ring
  PROVE  BeaverAnd(p, e, x, y) \in Ring
<1> DEFINE a == e.a[1]
           b == e.b[1]
           c == e.c[1]
           own == IF p = 2 THEN AndW(x, y) ELSE 0
<1>1. a \in Ring /\ b \in Ring /\ c \in Ring /\ own \in Ring
  BY BitOps, RingConsts
<1>2. BeaverAnd(p, e, x, y) = XorW(XorW(XorW(own, AndW(x, b)), AndW(y, a)), c)
  BY DEF BeaverAnd
<1> HIDE DEF own, a, b, c
<1>3. AndW(x, b) \in Ring /\ AndW(y, a) \in Ring
  BY <1>1, BitOps
<1>4. XorW(own, AndW(x, b)) \in Ring
  BY <1>1, <1>3, BitOps
<1>5. XorW(XorW(own, AndW(x, b)), AndW(y, a)) \in Ring
  BY <1>3, <1>4, BitOps
<1>. QED  BY <1>1, <1>2, <1>5, BitOps

(* Combined words for gate g.                                              *)
GotWords(g, v) == Len(v) = Takes(g) /\ \A i \in 1 .. Takes(g) : v[i] \in Ring

LEMMA MultFinished ==
  ASSUME NEW g \in Gate, LengthsFit(g), NEW p \in Online, NEW w, \A u \in Reads(g) : w[u] \in Ring,
         g.type \in MultGate, NEW e, HasWords(g, e), NEW v, GotWords(g, v)
  PROVE  \A j \in 1 .. Len(g.outs) : Finished(p, g, e, v, w)[j] \in Ring
<1> DEFINE x == On(w, g.in1)
           n == Len(g.in1)
           f == Finished(p, g, e, v, w)
<1>1. n \in Nat /\ Len(x) = n /\ DOMAIN x = 1 .. n /\ \A j \in 1 .. n : x[j] \in Ring
  BY InputWords
<1>2. \A j \in 1 .. n : e.a[j] \in Ring /\ e.b[j] \in Ring /\ e.c[j] \in Ring
  BY DEF HasWords
<1>3. Len(v) = Takes(g) /\ \A i \in 1 .. Takes(g) : v[i] \in Ring
  BY DEF GotWords
<1>4. CASE g.type \in {"Mul", "ConvertB2A"}
  <2>1. n = 1 /\ Len(g.outs) = 1 /\ Takes(g) = 2
    BY <1>4, Lens1, TakesIs
  <2> DEFINE b == BeaverProduct(p, e, 1, v[1], v[2])
  <2>2. v[1] \in Ring /\ v[2] \in Ring /\ x[1] \in Ring
        /\ e.a[1] \in Ring /\ e.b[1] \in Ring /\ e.c[1] \in Ring
    <3>1. 1 \in 1 .. 1 /\ 1 \in 1 .. 2 /\ 2 \in 1 .. 2
      OBVIOUS
    <3> HIDE DEF x
    <3>. QED  BY <1>1, <1>2, <1>3, <2>1, <3>1
  <2>3. b \in Ring
    <3> HIDE DEF x
    <3>. QED  BY <2>2, BeaverWord
  <2>4. f = <<b>> \/ f = <<Minus(x[1] % 2, Times(2, b))>>
    BY <1>4, FinishedIs
  <2> HIDE DEF b, f, x
  <2>5. Minus(x[1] % 2, Times(2, b)) \in Ring
    <3>1. Is(Times(2, b), 2 * b)
      BY <2>3, IsTimesTwo
    <3>2. Times(2, b) \in Ring
      BY <3>1 DEF Is
    <3>3. x[1] % 2 \in Ring
      <4>1. x[1] % 2 \in {0, 1}
        BY <2>2, RingInt
      <4>. QED  BY <4>1, RingConsts
    <3>. QED  BY <3>2, <3>3, RingOps
  <2>6. f[1] \in Ring
    BY <2>3, <2>4, <2>5
  <2>. QED  BY <2>1, <2>6 DEF f
<1>5. CASE g.type = "GenCompaction"
  <2>1. Len(g.outs) = n /\ Takes(g) = 2 * n
    BY <1>5, Lens1, TakesIs
  <2>2. f = [j \in DOMAIN x |-> Plus(ZerosSoFar(p, x)[j], BeaverProduct(p, e, j, v[2*j - 1], v[2*j]))]
    BY <1>5, FinishedIs
  <2> HIDE DEF f, x, n
  <2>3. ASSUME NEW j \in 1 .. n PROVE f[j] \in Ring
    <3>1. f[j] = Plus(ZerosSoFar(p, x)[j], BeaverProduct(p, e, j, v[2*j - 1], v[2*j]))
      BY <1>1, <2>2
    <3>2. 2*j - 1 \in 1 .. (2 * n) /\ 2*j \in 1 .. (2 * n)
      BY <1>1
    <3>3. v[2*j - 1] \in Ring /\ v[2*j] \in Ring
      BY <1>3, <2>1, <3>2
    <3>4. BeaverProduct(p, e, j, v[2*j - 1], v[2*j]) \in Ring
      BY <1>2, <3>3, BeaverWord
    <3>5. ZerosSoFar(p, x)[j] \in Ring
      BY <1>1, SumWords
    <3>. QED  BY <3>1, <3>4, <3>5, RingOps
  <2>. QED  BY <2>1, <2>3 DEF f
<1>. QED  BY <1>4, <1>5 DEF MultGate

LEMMA AndFinished ==
  ASSUME NEW g \in Gate, LengthsFit(g), NEW p \in Online, NEW w,
         g.type \in AndGate, NEW e, HasWords(g, e), NEW v, GotWords(g, v)
  PROVE  \A j \in 1 .. Len(g.outs) : Finished(p, g, e, v, w)[j] \in Ring
<1> DEFINE b == BeaverAnd(p, e, v[1], v[2])
           f == Finished(p, g, e, v, w)
<1>1. Len(g.in1) = 1 /\ Len(g.outs) = 1 /\ Takes(g) = 2
  BY Lens1, TakesIs DEF AndGate
<1>2. v[1] \in Ring /\ v[2] \in Ring /\ e.a[1] \in Ring /\ e.b[1] \in Ring /\ e.c[1] \in Ring
  <2>1. 1 \in 1 .. 1 /\ 1 \in 1 .. 2 /\ 2 \in 1 .. 2
    OBVIOUS
  <2>2. \A j \in 1 .. 1 : e.a[j] \in Ring /\ e.b[j] \in Ring /\ e.c[j] \in Ring
    BY <1>1 DEF HasWords
  <2>. QED  BY <1>1, <2>1, <2>2 DEF GotWords
<1>3. b \in Ring
  BY <1>2, BeaverAndWord
<1>4. f = <<b>> \/ f = <<ZeroLayer(p, g, b)>>
  BY FinishedIs DEF AndGate
<1> HIDE DEF b, f
<1>5. ZeroLayer(p, g, b) \in Ring
  <2> DEFINE z == IF p = 1 /\ g.param < Layers - 1 THEN Complement(b) ELSE b
  <2>1. z \in Ring
    BY <1>3, ComplementFacts
  <2>2. ZeroLayer(p, g, b) = IF g.param = Layers - 1 THEN LowBits(z, 1) ELSE z
    BY DEF ZeroLayer
  <2> HIDE DEF z
  <2>3. LowBits(z, 1) \in Ring
    BY <2>1, LayersFacts, LowBitsFacts
  <2>. QED  BY <2>1, <2>2, <2>3
<1>6. f[1] \in Ring
  BY <1>3, <1>4, <1>5
<1>. QED  BY <1>1, <1>6 DEF f

LEMMA ShuffleFinished ==
  ASSUME NEW g \in Gate, LengthsFit(g), NEW p \in Online, NEW w,
         g.type \in ShuffleGate, NEW e, HasWords(g, e), NEW v, GotWords(g, v)
  PROVE  \A j \in 1 .. Len(g.outs) : Finished(p, g, e, v, w)[j] \in Ring
<1> DEFINE n == Len(g.in1)
           f == Finished(p, g, e, v, w)
<1>1. n \in Nat /\ Len(g.outs) = n /\ Takes(g) = n
  BY Lens1, TakesIs DEF ShuffleGate
<1>2. Len(v) = n /\ \A j \in 1 .. n : v[j] \in Ring
  BY <1>1 DEF GotWords
<1>3. /\ \A j \in 1 .. n : e.b[j] \in Ring
      /\ PermOf(Inner(p, e), n) /\ PermOf(Outer(p, e), n)
  BY DEF HasWords, Inner, Outer
<1>4. f = Unshuffled(p, g, e, v)
  BY FinishedIs
<1> DEFINE r == Inner(p, e)
           o == Inverted(Outer(p, e), n)
<1>5. \A j \in 1 .. n : r[j] \in 1 .. n /\ o[j] \in 1 .. n
  <2> DEFINE h == Outer(p, e)
  <2>1. PermOf(h, n)
    BY <1>3
  <2> HIDE DEF h, n
  <2>2. \A j \in 1 .. n : Inverted(h, n)[j] \in 1 .. n
    BY <1>1, <2>1, InvertedFacts
  <2>3. \A j \in 1 .. n : r[j] \in 1 .. n
    BY <1>3 DEF PermOf
  <2>. QED  BY <2>2, <2>3 DEF h
<1>6. \/ f = [j \in 1 .. n |-> Minus(v[r[j]], e.b[j])]
      \/ f = [j \in 1 .. n |-> Minus(v[o[j]], e.b[j])]
  BY <1>2, <1>4 DEF Unshuffled
<1> HIDE DEF f, r, o, n
<1>7. ASSUME NEW j \in 1 .. n PROVE f[j] \in Ring
  <2>1. v[r[j]] \in Ring /\ v[o[j]] \in Ring /\ e.b[j] \in Ring
    BY <1>2, <1>3, <1>5
  <2>2. f[j] = Minus(v[r[j]], e.b[j]) \/ f[j] = Minus(v[o[j]], e.b[j])
    BY <1>6
  <2>. QED  BY <2>1, <2>2, RingOps
<1>. QED  BY <1>1, <1>7 DEF f

LEMMA FinishedWords ==
  ASSUME NEW g \in Gate, LengthsFit(g), NEW p \in Online, NEW w, \A u \in Reads(g) : w[u] \in Ring,
         g.type \in Interactive, NEW e, HasWords(g, e), NEW v, GotWords(g, v)
  PROVE  \A j \in 1 .. Len(g.outs) : Finished(p, g, e, v, w)[j] \in Ring
<1>1. CASE g.type = "Reveal"
  <2>1. Len(g.outs) = Len(g.in1) /\ Takes(g) = Len(g.in1) /\ Finished(p, g, e, v, w) = v
    BY <1>1, Lens1, TakesIs, FinishedIs
  <2>. QED  BY <2>1 DEF GotWords
<1>. QED  BY <1>1, MultFinished, AndFinished, ShuffleFinished DEF Interactive

-----------------------------------------------------------------------------
(***************************************************************************)
(* What each party holds and what is in flight to it, at all times.        *)
(***************************************************************************)
(* Shares stay words: in a gate, in a level, in lockstep.                  *)
WordsOn(c, w) == w \in [Wires(c) -> Ring]
LEMMA ReadsWords ==
  ASSUME NEW c \in Circuits, NEW l \in 1 .. Len(c.levels), NEW k \in 1 .. Len(c.levels[l]),
         NEW w, WordsOn(c, w)
  PROVE  /\ \A u \in Reads(c.levels[l][k]) : w[u] \in Ring
         /\ \A u \in Elems(c.levels[l][k].outs) : w[u] \in Ring
         /\ c.levels[l][k].type = "EqualsZero" => c.levels[l][k].param < Layers
<1> DEFINE g == c.levels[l][k]
<1>1. \A u \in Reads(g) : u \in Wires(c)
  BY ReadsReady
<1>2. g \in GatesOf(c) /\ Elems(g.outs) \subseteq Wires(c)
  BY GateAt
<1>3. g.type = "EqualsZero" => g.param < Layers
  BY <1>2, ShapeAssumption DEF WellShaped
<1> HIDE DEF g
<1>. QED  BY <1>1, <1>2, <1>3 DEF WordsOn, g

LEMMA BothWords ==
  ASSUME NEW c \in Circuits, NEW d \in DealsOf(c), NEW p \in Online,
         NEW l \in 1 .. Len(c.levels), NEW k \in 1 .. Len(c.levels[l]),
         c.levels[l][k].type \in Interactive,
         NEW ws, WordsOn(c, ws[1]), WordsOn(c, ws[2])
  PROVE  GotWords(c.levels[l][k], Both(p, c.levels[l][k], d[1][l][k], d[2][l][k], ws))
<1> DEFINE g == c.levels[l][k]
           kind == Kind(g)
           d1 == d[1][l][k]
           d2 == d[2][l][k]
<1>1. g \in Gate /\ LengthsFit(g)
  BY GateAt
<1>2. kind \in WordKind
  BY DEF Kind, WordKind, Interactive
<1>3. \/ g.type \in MultGate /\ kind = "mult"
      \/ g.type \in AndGate /\ kind = "and"
      \/ g.type \in ShuffleGate /\ kind = "shuffle"
      \/ g.type = "Reveal" /\ kind = "reveal"
  BY DEF Kind, Interactive, MultGate, AndGate, ShuffleGate
<1>4. WordsOf(g, kind) = Takes(g)
  BY <1>3, KindOf
<1>5. 1 \in Online /\ 2 \in Online
  BY DEF Online
<1>6. HasWords(g, d1) /\ HasWords(g, d2)
  BY <1>5, MaterialWords
<1>7. /\ \A u \in Reads(g) : ws[1][u] \in Ring
      /\ \A u \in Reads(g) : ws[2][u] \in Ring
      /\ g.type = "EqualsZero" => g.param < Layers
  BY ReadsWords
<1>8. WordsOf(g, kind) \in Nat
  BY <1>1, <1>2, WordsNat
<1> HIDE DEF g, kind, d1, d2
<1>9. /\ Len(Opened(1, g, d1, kind, ws[1])) = Takes(g)
      /\ Len(Opened(2, g, d2, kind, ws[2])) = Takes(g)
  BY <1>1, <1>2, <1>4, OpenedLen
<1>10. /\ \A i \in 1 .. Takes(g) : Opened(1, g, d1, kind, ws[1])[i] \in Ring
       /\ \A i \in 1 .. Takes(g) : Opened(2, g, d2, kind, ws[2])[i] \in Ring
  BY <1>1, <1>2, <1>5, <1>6, <1>7, <1>9, OpenedWords
<1> DEFINE b == Both(p, g, d1, d2, ws)
<1>11. b = [i \in 1 .. Takes(g) |-> Joined(kind, p, Opened(1, g, d1, kind, ws[1])[i],
                                                   Opened(2, g, d2, kind, ws[2])[i])]
  BY DEF Both, kind
<1> HIDE DEF b
<1>12. ASSUME NEW i \in 1 .. Takes(g) PROVE b[i] \in Ring
  <2>1. b[i] = Joined(kind, p, Opened(1, g, d1, kind, ws[1])[i], Opened(2, g, d2, kind, ws[2])[i])
    BY <1>11
  <2>. QED  BY <2>1, <1>2, <1>10, JoinedWord
<1>13. Takes(g) \in Nat
  BY <1>4, <1>8
<1>14. b = [i \in 1 .. Takes(g) |-> b[i]]
  BY <1>11
<1>15. Len(b) = Takes(g)
  BY <1>13, <1>14, FunVec
<1>16. GotWords(g, b)
  BY <1>12, <1>15 DEF GotWords
<1>. QED  BY <1>16 DEF b, g, d1, d2

LEMMA OneStepWords ==
  ASSUME NEW c \in Circuits, NEW d \in DealsOf(c), NEW p \in Online,
         NEW l \in 1 .. Len(c.levels), NEW k \in 1 .. Len(c.levels[l]),
         NEW ws, WordsOn(c, ws[1]), WordsOn(c, ws[2]), NEW u, WordsOn(c, u)
  PROVE  WordsOn(c, AfterOne(c, d, p, l, k, ws, u))
<1> DEFINE g == c.levels[l][k]
           r == AfterOne(c, d, p, l, k, ws, u)
<1>1. g \in Gate /\ LengthsFit(g) /\ Elems(g.outs) \subseteq Wires(c)
  BY GateAt
<1>2. \/ g.type \in InputGate \/ g.type \in LocalGate \/ g.type \in Interactive
  BY <1>1, GateKinds
<1>3. /\ \A x \in Reads(g) : u[x] \in Ring
      /\ \A x \in Elems(g.outs) : u[x] \in Ring
  BY ReadsWords
<1>4. OnWires(Wires(c), u)
  BY DEF OnWires, WordsOn
<1>5. ASSUME NEW o, \A j \in 1 .. Len(g.outs) : o[j] \in Ring
      PROVE  WordsOn(c, Written(u, g.outs, o))
  <2>1. Stores(Written(u, g.outs, o), Wires(c), u, g.outs, o)
    BY <1>4, GateStores
  <2>2. \A x \in Elems(g.outs) : \E j \in 1 .. Len(g.outs) : x = g.outs[j]
    <3>1. g.outs \in Seq(Nat)
      BY <1>1 DEF Gate
    <3>. QED  BY <3>1 DEF Elems
  <2> DEFINE v == Written(u, g.outs, o)
  <2> HIDE DEF v, g
  <2>3. ASSUME NEW x \in Wires(c) PROVE v[x] \in Ring
    <3>1. CASE x \in Elems(g.outs)
      BY <3>1, <2>1, <2>2, <1>5 DEF Stores, v
    <3>2. CASE x \notin Elems(g.outs)
      <4>1. v[x] = u[x]
        BY <3>2, <2>1 DEF Stores, v
      <4>. QED  BY <4>1 DEF WordsOn
    <3>. QED  BY <3>1, <3>2
  <2>4. v = [x \in Wires(c) |-> v[x]]
    BY <2>1 DEF Stores, OnWires, v
  <2>5. v \in [Wires(c) -> Ring]
    BY <2>3, <2>4
  <2>. QED  BY <2>5 DEF WordsOn, v
<1>6. CASE g.type \in InputGate
  BY <1>6, AfterInput
<1>7. CASE g.type \in LocalGate
  <2>1. r = Written(u, g.outs, Local(p, g, u))
    BY <1>7, AfterLocal
  <2>2. \A j \in 1 .. Len(g.outs) : Local(p, g, u)[j] \in Ring
    BY <1>1, <1>3, <1>7, LocalWords
  <2> HIDE DEF r
  <2>. QED  BY <2>1, <2>2, <1>5 DEF r
<1>8. CASE g.type \in Interactive
  <2> DEFINE v == Both(p, g, d[1][l][k], d[2][l][k], ws)
  <2>1. r = Written(u, g.outs, Finished(p, g, d[p][l][k], v, u))
    <3>1. r = Written(u, g.outs, Left(c, d, p, l, k, ws, u))
      BY <1>8, AfterInteractive
    <3>. QED  BY <3>1 DEF Left
  <2>2. GotWords(g, v)
    BY <1>8, BothWords
  <2>3. HasWords(g, d[p][l][k])
    BY MaterialWords
  <2> DEFINE e == d[p][l][k]
  <2> HIDE DEF v, r, e, g
  <2>4. \A j \in 1 .. Len(g.outs) : Finished(p, g, e, v, u)[j] \in Ring
    BY <1>1, <1>3, <1>8, <2>2, <2>3, FinishedWords DEF e
  <2>. QED  BY <2>1, <2>4, <1>5 DEF r, e
<1>. QED  BY <1>2, <1>6, <1>7, <1>8

LEMMA LevelWords ==
  ASSUME NEW c \in Circuits, NEW d \in DealsOf(c), NEW p \in Online,
         NEW l \in 1 .. Len(c.levels), NEW ws, WordsOn(c, ws[1]), WordsOn(c, ws[2])
  PROVE  WordsOn(c, Walked(c, d, p, l, ws)[Len(c.levels[l])])
<1> DEFINE n == Len(c.levels[l])
           f == Walked(c, d, p, l, ws)
           T == {k \in Nat : k <= n => WordsOn(c, f[k])}
<1>1. n \in Nat
  BY BeforeFacts
<1>2. f[0] = ws[p] /\ \A k \in 1 .. n : f[k] = AfterOne(c, d, p, l, k, ws, f[k - 1])
  BY <1>1, WalkedNext
<1>3. 0 \in T
  <2>1. WordsOn(c, ws[p])
    BY DEF Online
  <2>. QED  BY <1>2, <2>1
<1>4. ASSUME NEW k \in T PROVE k + 1 \in T
  <2> DEFINE j == k + 1
  <2> SUFFICES ASSUME j <= n PROVE WordsOn(c, f[j])
    OBVIOUS
  <2>1. k \in Nat /\ k <= n /\ j \in 1 .. n /\ j - 1 = k
    BY <1>1
  <2>2. WordsOn(c, f[k])
    BY <2>1
  <2>3. f[j] = AfterOne(c, d, p, l, j, ws, f[k])
    BY <1>2, <2>1
  <2> HIDE DEF j, f
  <2>4. j \in 1 .. Len(c.levels[l])
    BY <2>1
  <2>. QED  BY <2>2, <2>3, <2>4, OneStepWords
<1> HIDE DEF T
<1>5. T \in SUBSET Nat
  BY DEF T
<1>6. n \in T
  BY <1>1, <1>3, <1>4, <1>5, NatInd
<1>. QED  BY <1>1, <1>6 DEF T

LEMMA FirstWords ==
  ASSUME NEW c \in Circuits, NEW in \in InputsOf(c), NEW t \in SharedTapes, NEW p \in Online
  PROVE  WordsOn(c, FirstShare(c, in, t, p))
<1> DEFINE s == FirstShare(c, in, t, p)
<1>1. ASSUME NEW w \in Wires(c) PROVE s[w] \in Ring
  <2>1. CASE \E k \in DOMAIN c.levels[1] : IsInput(c, w, k)
    <3>1. PICK k \in DOMAIN c.levels[1] : IsInput(c, w, k)
      BY <2>1
    <3>2. 1 \in 1 .. Len(c.levels)
      <4>1. c.levels # <<>> /\ c.levels \in Seq(Seq(Gate))
        BY CircuitAssumption, ShapeAssumption DEF WellShaped
      <4>. QED  BY <4>1
    <3>3. DOMAIN c.levels[1] = 1 .. Len(c.levels[1])
      <4> DEFINE l == 1
      <4>1. l \in 1 .. Len(c.levels)
        BY <3>2
      <4> HIDE DEF l
      <4>2. c.levels[l] \in Seq(Gate)
        BY <4>1, BeforeFacts
      <4>3. DOMAIN c.levels[l] = 1 .. Len(c.levels[l])
        BY <4>2
      <4>. QED  BY <4>3 DEF l
    <3>4. k \in 1 .. Len(c.levels[1]) /\ c.levels[1][k].type \in InputGate
          /\ Writes(c.levels[1][k], w)
      <4>1. c.levels[1][k].outs = <<w>>
        BY <3>1 DEF IsInput
      <4>2. w \in Elems(<<w>>)
        BY DEF Elems
      <4>. QED  BY <3>1, <3>3, <4>1, <4>2 DEF IsInput, Writes
    <3>5. s[w] = DrawnBy(c, in, t, p, k)
      BY <3>4, FirstShareIs
    <3>6. DrawnBy(c, in, t, 1, k) \in Ring /\ DrawnBy(c, in, t, 2, k) \in Ring
      BY <3>4, DrawnIs
    <3>. QED  BY <3>5, <3>6 DEF Online
  <2>2. CASE ~ \E k \in DOMAIN c.levels[1] : IsInput(c, w, k)
    <3>1. s[w] = 0
      BY <2>2 DEF FirstShare
    <3>. QED  BY <3>1, RingConsts
  <2>. QED  BY <2>1, <2>2
<1>2. s = [w \in Wires(c) |-> s[w]]
  BY DEF FirstShare
<1> HIDE DEF s
<1>3. s \in [Wires(c) -> Ring]
  BY <1>1, <1>2
<1>. QED  BY <1>3 DEF WordsOn, s

LEMMA LockstepWords ==
  ASSUME NEW c \in Circuits, NEW in \in InputsOf(c), NEW d \in DealsOf(c), NEW t \in SharedTapes
  PROVE  \A l \in 0 .. Len(c.levels) : \A p \in Online : WordsOn(c, Lockstep(c, in, d, t)[l][p])
<1> DEFINE n == Len(c.levels)
           f == Lockstep(c, in, d, t)
           T == {l \in Nat : l <= n => \A p \in Online : WordsOn(c, f[l][p])}
<1>1. n \in Nat
  BY BeforeFacts
<1>2. /\ f[0] = [p \in Online |-> FirstShare(c, in, t, p)]
      /\ \A l \in 1 .. n : f[l] = [p \in Online |-> Walked(c, d, p, l, f[l - 1])[Len(c.levels[l])]]
  BY <1>1, LockstepNext
<1> HIDE DEF f
<1>3. 0 \in T
  <2>1. ASSUME NEW p \in Online PROVE WordsOn(c, f[0][p])
    <3>1. f[0][p] = FirstShare(c, in, t, p)
      BY <1>2
    <3>. QED  BY <3>1, FirstWords
  <2>. QED  BY <2>1
<1>4. ASSUME NEW l \in T PROVE l + 1 \in T
  <2> DEFINE j == l + 1
  <2> SUFFICES ASSUME j <= n, NEW p \in Online PROVE WordsOn(c, f[j][p])
    OBVIOUS
  <2>1. l \in Nat /\ l <= n /\ j \in 1 .. n /\ j - 1 = l
    BY <1>1
  <2>2. WordsOn(c, f[l][1]) /\ WordsOn(c, f[l][2])
    BY <2>1 DEF Online
  <2>3. f[j] = [q \in Online |-> Walked(c, d, q, j, f[l])[Len(c.levels[j])]]
    BY <1>2, <2>1
  <2>4. f[j][p] = Walked(c, d, p, j, f[l])[Len(c.levels[j])]
    BY <2>3
  <2> HIDE DEF j
  <2>5. j \in 1 .. Len(c.levels)
    BY <2>1
  <2>. QED  BY <2>2, <2>4, <2>5, LevelWords
<1> HIDE DEF T
<1>5. T \in SUBSET Nat
  BY DEF T
<1>6. T = Nat
  BY <1>3, <1>4, <1>5, NatInd
<1>. QED  BY <1>1, <1>6 DEF T, f
-----------------------------------------------------------------------------
(* What party p opens in level l: its words, and after the levels its      *)
(* shares of the outputs.                                                  *)
GroupOf(c, d, p, l, kind, w) ==
  LET upto[k \in 0 .. Len(c.levels[l])] ==
        IF k = 0 THEN <<>>
        ELSE upto[k - 1] \o Opened(p, c.levels[l][k], d[p][l][k], kind, w)
  IN  upto[Len(c.levels[l])]
WordsIn(c, d, p, l, w) == [kind \in WordKind |-> GroupOf(c, d, p, l, kind, w)]
Stream(c, d, p, l, w) ==
  IF l <= Len(c.levels) THEN AllOpened(WordsIn(c, d, p, l, w)) ELSE On(w, c.outputs)
(* Its streams and the outputs it computes, ls the shares in lockstep.     *)
Streams(c, d, ls, p) == [l \in 1 .. EndStage(c) |-> Stream(c, d, p, l, ls[l - 1][p])]
Outcome(c, ws, p) ==
  [i \in DOMAIN c.outputs |->
     IF c.bin[i] THEN XorW(ws[p][c.outputs[i]], ws[Other(p)][c.outputs[i]])
                 ELSE Plus(ws[p][c.outputs[i]], ws[Other(p)][c.outputs[i]])]

(* What a party holds, by where it is: th the streams it receives.         *)
Holds(c, d, ls, th, p, ph, l, ws, m, r, o) ==
  /\ ph = "inputs" => l = 1 /\ ws = [w \in Wires(c) |-> 0]
  /\ ph # "inputs" => ws = ls[l - 1][p]
  /\ ph \in {"send", "recv", "finish"} =>
       /\ m = WordsIn(c, d, p, l, ws)
       /\ \A j \in 1 .. Len(r) : r[j] = th[l][j]
  /\ o = IF ph = "done" THEN Outcome(c, ls[l - 1], p) ELSE <<>>
(* What is in flight to a party that has read n words so far.              *)
Carries(c, th, n, ch) ==
  \A l \in 1 .. EndStage(c) : \A j \in 1 .. Len(th[l]) :
    Before(c, l) + j - n \in 1 .. Len(ch) => ch[Before(c, l) + j - n] = th[l][j]
Lock    == Lockstep(circ, inputs, deal, tape)
From(p) == Streams(circ, deal, Lock, p)
ContentInv ==
  /\ circ \in Circuits /\ inputs \in InputsOf(circ) /\ deal \in DealsOf(circ) /\ tape \in SharedTapes
  /\ DOMAIN wires = Online /\ DOMAIN outvals = Online
  /\ \A p \in Online :
       /\ Holds(circ, deal, Lock, From(Other(p)), p,
                pc[p], level[p], wires[p], mine[p], recv[p], outvals[p])
       /\ Carries(circ, From(Other(p)), ReadBy(p), chan[p])
-----------------------------------------------------------------------------
(* Streams of words and what is in flight of them.                         *)
LEMMA PartAt ==
  ASSUME NEW s, IsVec(s), NEW m \in Nat, NEW n \in Nat, m + n <= Len(s), NEW i \in 1 .. n
  PROVE  SubSeq(s, m + 1, m + n)[i] = s[m + i]
<1> DEFINE S == Elems(s)
<1>1. s \in Seq(S)
  BY DEF IsVec
<1> HIDE DEF S
<1>2. /\ m + 1 \in Nat /\ m + n \in Nat /\ Len(s) \in Nat
      /\ i \in 1 .. ((m + n) - (m + 1) + 1) /\ (m + 1) + i - 1 = m + i
  BY <1>1
<1>. QED  BY <1>1, <1>2

(* Words of the level's vector before those of a kind.                     *)
OffsetOf(m, kind) ==
  CASE kind = "mult"    -> 0
    [] kind = "and"     -> Len(m.mult)
    [] kind = "shuffle" -> Len(m.mult) + Len(m.and)
    [] kind = "reveal"  -> Len(m.mult) + Len(m.and) + Len(m.shuffle)
LEMMA OpenedJoin ==
  ASSUME NEW m, \A kind \in WordKind : IsVec(m[kind])
  PROVE  /\ IsVec(AllOpened(m))
         /\ Len(AllOpened(m)) = Len(m.mult) + Len(m.and) + Len(m.shuffle) + Len(m.reveal)
         /\ \A kind \in WordKind : \A j \in 1 .. Len(m[kind]) :
              AllOpened(m)[OffsetOf(m, kind) + j] = m[kind][j]
<1> DEFINE a == m.mult
           b == m.and
           c == m.shuffle
           d == m.reveal
           ab == a \o b
           abc == ab \o c
<1>1. IsVec(a) /\ IsVec(b) /\ IsVec(c) /\ IsVec(d)
  BY DEF WordKind
<1>2. AllOpened(m) = abc \o d
  BY DEF AllOpened
<1> HIDE DEF a, b, c, d
<1>3. IsJoin(ab, a, b)
  BY <1>1, VecJoinAt
<1>4. IsVec(ab)
  BY <1>3 DEF IsJoin
<1> HIDE DEF ab
<1>5. IsJoin(abc, ab, c)
  BY <1>1, <1>4, VecJoinAt DEF abc
<1>6. IsVec(abc)
  BY <1>5 DEF IsJoin
<1> DEFINE r == AllOpened(m)
<1> HIDE DEF abc
<1>7. IsJoin(r, abc, d)
  BY <1>1, <1>2, <1>6, VecJoinAt
<1> HIDE DEF r
<1>8. Len(a) \in Nat /\ Len(b) \in Nat /\ Len(c) \in Nat /\ Len(d) \in Nat
  BY <1>1, VecLen
<1>9. /\ Len(ab) = Len(a) + Len(b) /\ Len(abc) = Len(a) + Len(b) + Len(c)
      /\ Len(r) = Len(a) + Len(b) + Len(c) + Len(d) /\ IsVec(r)
  BY <1>3, <1>5, <1>7, <1>8 DEF IsJoin
<1>10. ASSUME NEW j \in 1 .. Len(a) PROVE r[0 + j] = a[j]
  <2>1. j \in 1 .. Len(ab) /\ j \in 1 .. Len(abc) /\ 0 + j = j
    BY <1>8, <1>9
  <2>. QED  BY <2>1, <1>3, <1>5, <1>7 DEF IsJoin
<1>11. ASSUME NEW j \in 1 .. Len(b) PROVE r[Len(a) + j] = b[j]
  <2> DEFINE i == Len(a) + j
  <2>1. i \in 1 .. Len(ab) /\ i \in 1 .. Len(abc)
    BY <1>8, <1>9
  <2>2. ab[i] = b[j]
    BY <1>3 DEF IsJoin
  <2> HIDE DEF i
  <2>3. r[i] = abc[i] /\ abc[i] = ab[i]
    BY <2>1, <1>5, <1>7 DEF IsJoin
  <2>. QED  BY <2>2, <2>3 DEF i
<1>12. ASSUME NEW j \in 1 .. Len(c) PROVE r[Len(a) + Len(b) + j] = c[j]
  <2> DEFINE i == Len(a) + Len(b) + j
  <2>1. i \in 1 .. Len(abc) /\ i = Len(ab) + j
    BY <1>8, <1>9
  <2>2. abc[Len(ab) + j] = c[j]
    BY <1>5 DEF IsJoin
  <2> HIDE DEF i
  <2>3. r[i] = abc[i]
    BY <2>1, <1>7 DEF IsJoin
  <2>. QED  BY <2>1, <2>2, <2>3 DEF i
<1>13. ASSUME NEW j \in 1 .. Len(d) PROVE r[Len(a) + Len(b) + Len(c) + j] = d[j]
  <2>1. r[Len(abc) + j] = d[j]
    BY <1>7 DEF IsJoin
  <2>. QED  BY <1>9, <2>1
<1>14. ASSUME NEW kind \in WordKind, NEW j \in 1 .. Len(m[kind])
       PROVE  r[OffsetOf(m, kind) + j] = m[kind][j]
  <2>1. CASE kind = "mult"
    BY <2>1, <1>10 DEF OffsetOf, a
  <2>2. CASE kind = "and"
    BY <2>2, <1>11 DEF OffsetOf, a, b
  <2>3. CASE kind = "shuffle"
    BY <2>3, <1>12 DEF OffsetOf, a, b, c
  <2>4. CASE kind = "reveal"
    BY <2>4, <1>13 DEF OffsetOf, a, b, c, d
  <2>. QED  BY <2>1, <2>2, <2>3, <2>4 DEF WordKind
<1>. QED  BY <1>9, <1>14 DEF r, a, b, c, d

(* The stream of level l, in the order it is sent.                         *)
StreamLen(c, l) == IF l <= Len(c.levels) THEN LevelLen(c.levels[l]) ELSE Len(c.outputs)
LEMMA StreamIs ==
  ASSUME circ \in Circuits, NEW p, NEW l \in 1 .. EndStage(circ), NEW w
  PROVE  /\ IsVec(Stream(circ, deal, p, l, w))
         /\ Len(Stream(circ, deal, p, l, w)) = StreamLen(circ, l) /\ StreamLen(circ, l) \in Nat
<1>1. Len(circ.levels) \in Nat /\ Len(circ.outputs) \in Nat /\ circ.outputs \in Seq(Nat)
  BY BeforeFacts, CircuitAssumption
<1>2. CASE l <= Len(circ.levels)
  <2>1. l \in 1 .. Len(circ.levels)
    BY <1>1, <1>2 DEF EndStage
  <2>2. circ.levels[l] \in Seq(Gate) /\ LevelLen(circ.levels[l]) \in Nat
    BY <2>1, BeforeFacts
  <2> DEFINE m == WordsIn(circ, deal, p, l, w)
  <2>3. \A kind \in WordKind : m[kind] = Group(p, l, kind, w)
    BY DEF WordsIn, GroupOf, Group
  <2> HIDE DEF m
  <2>4. \A kind \in WordKind : IsVec(m[kind]) /\ Len(m[kind]) = KindLen(circ.levels[l], kind)
    BY <2>2, <2>3, GroupLen
  <2>5. /\ IsVec(AllOpened(m))
        /\ Len(AllOpened(m)) = Len(m.mult) + Len(m.and) + Len(m.shuffle) + Len(m.reveal)
    BY <2>4, OpenedJoin
  <2>6. Len(AllOpened(m)) = LevelLen(circ.levels[l])
    BY <2>4, <2>5 DEF LevelLen, WordKind
  <2>7. Stream(circ, deal, p, l, w) = AllOpened(m)
    BY <1>2 DEF Stream, m
  <2>. QED  BY <1>2, <2>2, <2>5, <2>6, <2>7 DEF StreamLen
<1>3. CASE ~ l <= Len(circ.levels)
  <2>1. Stream(circ, deal, p, l, w) = On(w, circ.outputs)
    BY <1>3 DEF Stream
  <2> DEFINE o == circ.outputs
  <2>2. o \in Seq(Nat)
    BY <1>1
  <2> HIDE DEF o
  <2>3. IsVec(On(w, o)) /\ Len(On(w, o)) = Len(o)
    BY <2>2, OnLen
  <2>. QED  BY <1>1, <1>3, <2>1, <2>3 DEF StreamLen, o
<1>. QED  BY <1>2, <1>3

LEMMA BeforeNext ==
  ASSUME NEW c \in Circuits
  PROVE  /\ \A l \in 1 .. EndStage(c) : StreamLen(c, l) \in Nat /\ Before(c, l) \in Nat
         /\ \A l \in 1 .. EndStage(c) : \A m \in 1 .. EndStage(c) :
              l < m => Before(c, l) + StreamLen(c, l) <= Before(c, m)
<1>1. /\ Len(c.levels) \in Nat /\ Len(c.outputs) \in Nat /\ EndStage(c) = Len(c.levels) + 1
      /\ \A l \in 1 .. Len(c.levels) : LevelLen(c.levels[l]) \in Nat
      /\ \A l \in 1 .. EndStage(c) : Before(c, l) \in Nat
      /\ \A l \in 1 .. Len(c.levels) : Before(c, l + 1) = Before(c, l) + LevelLen(c.levels[l])
      /\ \A l \in 1 .. EndStage(c) : \A m \in 1 .. EndStage(c) :
           l <= m => Before(c, l) <= Before(c, m)
  BY BeforeFacts
<1>2. ASSUME NEW l \in 1 .. EndStage(c), NEW m \in 1 .. EndStage(c), l < m
      PROVE  Before(c, l) + StreamLen(c, l) <= Before(c, m)
  <2> DEFINE j == l + 1
  <2>1. l \in 1 .. Len(c.levels) /\ j \in 1 .. EndStage(c) /\ j <= m
    BY <1>1, <1>2
  <2>2. Before(c, j) = Before(c, l) + LevelLen(c.levels[l])
    BY <1>1, <2>1
  <2>3. StreamLen(c, l) = LevelLen(c.levels[l])
    BY <2>1 DEF StreamLen
  <2> HIDE DEF j
  <2>4. Before(c, j) <= Before(c, m)
    BY <1>1, <2>1
  <2>. QED  BY <2>2, <2>3, <2>4
<1>3. \A l \in 1 .. EndStage(c) : StreamLen(c, l) \in Nat
  BY <1>1 DEF StreamLen
<1>. QED  BY <1>1, <1>2, <1>3

(* Streams of the right lengths, one per level and one for the outputs.    *)
Flows(c, th) ==
  \A l \in 1 .. EndStage(c) : IsVec(th[l]) /\ Len(th[l]) = StreamLen(c, l)
LEMMA StreamsFlow ==
  ASSUME circ \in Circuits, NEW ls, NEW p
  PROVE  Flows(circ, Streams(circ, deal, ls, p))
<1> DEFINE th == Streams(circ, deal, ls, p)
<1>1. ASSUME NEW l \in 1 .. EndStage(circ)
      PROVE  IsVec(th[l]) /\ Len(th[l]) = StreamLen(circ, l)
  <2> DEFINE w == ls[l - 1][p]
  <2>1. th[l] = Stream(circ, deal, p, l, w)
    BY DEF Streams
  <2> HIDE DEF w, th
  <2>. QED  BY <2>1, StreamIs
<1> HIDE DEF th
<1>. QED  BY <1>1 DEF Flows, th

(* Words of stream l sent after its first r words are found where they are *)
(* expected.                                                               *)
LEMMA CarriesMore ==
  ASSUME NEW c \in Circuits, NEW th, Flows(c, th), NEW n \in Nat, NEW ch, IsVec(ch),
         Carries(c, th, n, ch), NEW l \in 1 .. EndStage(c), NEW r \in Nat,
         NEW v, IsVec(v), r + Len(v) <= Len(th[l]), n + Len(ch) = Before(c, l) + r,
         \A i \in 1 .. Len(v) : v[i] = th[l][r + i]
  PROVE  Carries(c, th, n, ch \o v)
<1>0. EndStage(c) \in Int
  <2>1. Len(c.levels) \in Nat
    BY BeforeFacts
  <2>. QED  BY <2>1 DEF EndStage
<1> DEFINE a == ch \o v
<1>1. /\ IsJoin(a, ch, v) /\ Len(ch) \in Nat /\ Len(v) \in Nat
  BY VecJoinAt, VecLen
<1> HIDE DEF a
<1>2. Len(a) = Len(ch) + Len(v)
  BY <1>1 DEF IsJoin
<1>3. ASSUME NEW m \in 1 .. EndStage(c), NEW j \in 1 .. Len(th[m]),
             Before(c, m) + j - n \in 1 .. Len(a)
      PROVE  a[Before(c, m) + j - n] = th[m][j]
  <2> DEFINE x == Before(c, m) + j - n
  <2>1. /\ Before(c, m) \in Nat /\ Before(c, l) \in Nat
        /\ Len(th[m]) = StreamLen(c, m) /\ Len(th[l]) = StreamLen(c, l)
        /\ Len(th[m]) \in Nat /\ Len(th[l]) \in Nat
    BY BeforeNext DEF Flows
  <2>2. /\ l < m => Before(c, l) + Len(th[l]) <= Before(c, m)
        /\ m < l => Before(c, m) + Len(th[m]) <= Before(c, l)
    BY <2>1, BeforeNext
  <2>3. CASE x \in 1 .. Len(ch)
    <3>1. ch[x] = th[m][j]
      BY <2>3 DEF Carries
    <3> HIDE DEF x
    <3>2. a[x] = ch[x]
      BY <1>1, <2>3 DEF IsJoin
    <3>. QED  BY <3>1, <3>2 DEF x
  <2>4. CASE x \notin 1 .. Len(ch)
    <3> DEFINE i == x - Len(ch)
    <3>1. i \in 1 .. Len(v) /\ x = Len(ch) + i /\ m \in Int /\ l \in Int /\ j \in Int
      <4>1. x \in 1 .. Len(a)
        BY <1>3
      <4>2. m \in Int /\ l \in Int /\ j \in Int
        BY <1>0, <1>3, <2>1
      <4> HIDE DEF x
      <4>. QED  BY SMTT(30), <1>1, <1>2, <2>4, <4>1, <4>2
    <3> DEFINE bm == Before(c, m)
               bl == Before(c, l)
               sm == Len(th[m])
               sl == Len(th[l])
               s  == Len(ch)
               t  == Len(v)
    <3>2. /\ bm \in Nat /\ bl \in Nat /\ sm \in Nat /\ sl \in Nat /\ s \in Nat /\ t \in Nat
          /\ n + s = bl + r /\ r + t <= sl /\ i = bm + j - n - s /\ 1 <= j /\ j <= sm
          /\ 1 <= i /\ i <= t
          /\ l < m => bl + sl <= bm
          /\ m < l => bm + sm <= bl
      BY SMTT(30), <1>1, <2>1, <2>2, <3>1
    <3>3. m = l
      <4> HIDE DEF bm, bl, sm, sl, s, t, i, x
      <4>1. ~ l < m
        BY <3>1, <3>2
      <4>2. ~ m < l
        BY <3>1, <3>2
      <4>. QED  BY <3>1, <4>1, <4>2
    <3>4. bm = bl
      BY <3>3
    <3>5. r + i = j
      <4> HIDE DEF bm, bl, sm, sl, s, t, i, x
      <4>. QED  BY <3>1, <3>2, <3>4
    <3> HIDE DEF x, i
    <3>6. a[Len(ch) + i] = v[i]
      BY <1>1, <3>1 DEF IsJoin
    <3>7. v[i] = th[l][r + i]
      BY <3>1
    <3>. QED  BY <3>1, <3>3, <3>5, <3>6, <3>7 DEF x
  <2>. QED  BY <2>3, <2>4
<1>. QED  BY <1>3 DEF Carries, a

(* The words read next are those of the stream.                            *)
LEMMA CarriesNext ==
  ASSUME NEW c \in Circuits, NEW th, Flows(c, th), NEW n \in Nat, NEW ch, IsVec(ch),
         Carries(c, th, n, ch), NEW l \in 1 .. EndStage(c), NEW r \in Nat, NEW x \in Nat,
         r + x <= Len(th[l]), x <= Len(ch), n = Before(c, l) + r, NEW i \in 1 .. x
  PROVE  ch[i] = th[l][r + i]
<1>1. Before(c, l) \in Nat /\ Len(th[l]) \in Nat /\ Len(ch) \in Nat
  BY BeforeNext, VecLen DEF Flows
<1> DEFINE j == r + i
<1>2. j \in 1 .. Len(th[l]) /\ Before(c, l) + j - n = i /\ i \in 1 .. Len(ch)
  BY <1>1
<1> HIDE DEF j
<1>3. Before(c, l) + j - n \in 1 .. Len(ch) => ch[Before(c, l) + j - n] = th[l][j]
  BY <1>2 DEF Carries
<1>. QED  BY <1>2, <1>3 DEF j

LEMMA CarriesLess ==
  ASSUME NEW c \in Circuits, NEW th, Flows(c, th), NEW n \in Nat, NEW ch, IsVec(ch),
         Carries(c, th, n, ch), NEW x \in Nat, x <= Len(ch)
  PROVE  Carries(c, th, n + x, SubSeq(ch, x + 1, Len(ch)))
<1> DEFINE y == Len(ch) - x
           a == SubSeq(ch, x + 1, x + y)
<1>1. Len(ch) \in Nat /\ y \in Nat /\ x + y = Len(ch) /\ x + y <= Len(ch)
  BY VecLen
<1> HIDE DEF y
<1>2. IsVec(a) /\ Len(a) = y
  BY <1>1, VecPart
<1>3. \A i \in 1 .. y : a[i] = ch[x + i]
  BY <1>1, PartAt
<1>4. a = SubSeq(ch, x + 1, Len(ch))
  BY <1>1
<1> HIDE DEF a
<1>5. ASSUME NEW m \in 1 .. EndStage(c), NEW j \in 1 .. Len(th[m]),
             Before(c, m) + j - (n + x) \in 1 .. Len(a)
      PROVE  a[Before(c, m) + j - (n + x)] = th[m][j]
  <2> DEFINE i == Before(c, m) + j - (n + x)
             b == Before(c, m) + j - n
  <2>1. Before(c, m) \in Nat
    BY BeforeNext
  <2>2. i \in 1 .. y /\ b = x + i /\ b \in 1 .. Len(ch)
    BY SMTT(30), <1>1, <1>2, <1>5, <2>1
  <2>3. ch[b] = th[m][j]
    BY <2>2 DEF Carries
  <2> HIDE DEF i, b
  <2>4. a[i] = ch[x + i]
    BY <1>3, <2>2
  <2>. QED  BY <2>2, <2>3, <2>4 DEF i
<1>. QED  BY <1>4, <1>5 DEF Carries
-----------------------------------------------------------------------------
(* Finishing a level with the words of both parties.                       *)
LEMMA StartFacts ==
  ASSUME NEW gs \in Seq(Gate), NEW kind \in WordKind
  PROVE  /\ Start(gs, kind, 1) = 0
         /\ \A k \in 1 .. Len(gs) :
              /\ Start(gs, kind, k) \in Nat /\ WordsOf(gs[k], kind) \in Nat
              /\ Start(gs, kind, k + 1) = Start(gs, kind, k) + WordsOf(gs[k], kind)
              /\ Start(gs, kind, k) + WordsOf(gs[k], kind) <= KindLen(gs, kind)
<1> DEFINE n == Len(gs)
           t == [k \in 1 .. n |-> WordsOf(gs[k], kind)]
<1>1. n \in Nat /\ \A k \in 1 .. n : gs[k] \in Gate
  OBVIOUS
<1>2. \A k \in 1 .. n : WordsOf(gs[k], kind) \in Nat
  BY <1>1, WordsNat
<1>3. t \in Seq(Nat) /\ Len(t) = n
  BY <1>1, <1>2
<1>4. \A k \in 1 .. n : t[k] = WordsOf(gs[k], kind)
  OBVIOUS
<1>5. \A k : Start(gs, kind, k) = Sums(t)[k - 1]
  BY DEF Start
<1>6. KindLen(gs, kind) = Sums(t)[n]
  BY DEF KindLen
<1> HIDE DEF t, n
<1>7. /\ \A k \in 0 .. n : Sums(t)[k] \in Nat
      /\ Sums(t)[0] = 0
      /\ \A k \in 1 .. n : Sums(t)[k] = Sums(t)[k - 1] + t[k]
      /\ \A k \in 0 .. n : \A m \in 0 .. n : k <= m => Sums(t)[k] <= Sums(t)[m]
  BY <1>3, SumsFacts
<1>8. Start(gs, kind, 1) = 0
  BY <1>5, <1>7
<1>9. ASSUME NEW k \in 1 .. n
      PROVE  /\ Start(gs, kind, k) \in Nat
             /\ Start(gs, kind, k + 1) = Start(gs, kind, k) + WordsOf(gs[k], kind)
             /\ Start(gs, kind, k) + WordsOf(gs[k], kind) <= KindLen(gs, kind)
  <2>1. Start(gs, kind, k) = Sums(t)[k - 1] /\ Start(gs, kind, k + 1) = Sums(t)[k]
    <3>1. (k + 1) - 1 = k
      BY <1>1
    <3>. QED  BY <1>5, <3>1
  <2> DEFINE j == k - 1
  <2>2. j \in 0 .. n /\ k \in 0 .. n /\ n \in 0 .. n /\ k <= n
    BY <1>1
  <2> HIDE DEF j
  <2>3. Sums(t)[j] \in Nat /\ Sums(t)[k] <= Sums(t)[n]
    BY <1>7, <2>2
  <2>4. Sums(t)[k] = Sums(t)[j] + WordsOf(gs[k], kind)
    BY <1>4, <1>7 DEF j
  <2>. QED  BY <1>6, <2>1, <2>3, <2>4 DEF j
<1>. QED  BY <1>2, <1>8, <1>9 DEF n

(* All that party p needs to finish its level, ws the shares of both.      *)
HasAll(p, ws) ==
  /\ circ \in Circuits /\ deal \in DealsOf(circ) /\ level[p] \in 1 .. Len(circ.levels)
  /\ wires[p] = ws[p] /\ WordsOn(circ, ws[1]) /\ WordsOn(circ, ws[2])
  /\ mine[p] = WordsIn(circ, deal, p, level[p], ws[p])
  /\ Len(recv[p]) = LevelLen(circ.levels[level[p]])
  /\ \A j \in 1 .. Len(recv[p]) :
       recv[p][j] = AllOpened(WordsIn(circ, deal, Other(p), level[p], ws[Other(p)]))[j]
(* A party combines its word x with the word y of the other one.           *)
Mixed(kind, x, y) == CASE kind \in {"mult", "reveal"} -> Plus(x, y)
                       [] kind = "and"                -> XorW(x, y)
                       [] kind = "shuffle"            -> y

(* The words a party opens in a level, by kind and one after the other.    *)
Grouped(p, l, w, m) ==
  /\ \A kind \in WordKind :
       /\ m[kind] = Group(p, l, kind, w) /\ GroupIs(p, l, kind, w) /\ IsVec(m[kind])
       /\ Len(m[kind]) = KindLen(circ.levels[l], kind)
  /\ IsVec(AllOpened(m)) /\ Len(AllOpened(m)) = LevelLen(circ.levels[l])
  /\ \A kind \in WordKind : \A j \in 1 .. Len(m[kind]) :
       AllOpened(m)[OffsetOf(m, kind) + j] = m[kind][j]
LEMMA WordsInIs ==
  ASSUME NEW p, NEW l, circ.levels[l] \in Seq(Gate), NEW w
  PROVE  Grouped(p, l, w, WordsIn(circ, deal, p, l, w))
<1> DEFINE m == WordsIn(circ, deal, p, l, w)
<1>1. \A kind \in WordKind : m[kind] = Group(p, l, kind, w)
  BY DEF WordsIn, GroupOf, Group
<1> HIDE DEF m
<1>2. \A kind \in WordKind : GroupIs(p, l, kind, w)
  BY GroupAt
<1>3. \A kind \in WordKind : IsVec(m[kind]) /\ Len(m[kind]) = KindLen(circ.levels[l], kind)
  BY <1>1, <1>2 DEF GroupIs
<1>4. /\ IsVec(AllOpened(m))
      /\ Len(AllOpened(m)) = Len(m.mult) + Len(m.and) + Len(m.shuffle) + Len(m.reveal)
      /\ \A kind \in WordKind : \A j \in 1 .. Len(m[kind]) :
           AllOpened(m)[OffsetOf(m, kind) + j] = m[kind][j]
  BY <1>3, OpenedJoin
<1>5. Len(AllOpened(m)) = LevelLen(circ.levels[l])
  BY <1>3, <1>4 DEF LevelLen, WordKind
<1>. QED  BY <1>1, <1>2, <1>3, <1>4, <1>5 DEF m, Grouped

LEMMA CombinedIs ==
  ASSUME NEW p \in Online, NEW ws, HasAll(p, ws), NEW kind \in WordKind
  PROVE  LET m == WordsIn(circ, deal, p, level[p], ws[p])
             t == WordsIn(circ, deal, Other(p), level[p], ws[Other(p)])
         IN  /\ IsVec(Combined(p)[kind])
             /\ Len(Combined(p)[kind]) = KindLen(circ.levels[level[p]], kind)
             /\ \A j \in 1 .. KindLen(circ.levels[level[p]], kind) :
                  Combined(p)[kind][j] = Mixed(kind, m[kind][j], t[kind][j])
<1> DEFINE l == level[p]
           q == Other(p)
           m == WordsIn(circ, deal, p, l, ws[p])
           t == WordsIn(circ, deal, q, l, ws[q])
           gs == circ.levels[l]
           cb == Combined(p)
           at == OffsetOf(m, kind)
<1>1. gs \in Seq(Gate) /\ circ \in Circuits
  BY BeforeFacts DEF HasAll
<1>2. /\ \A kd \in WordKind : IsVec(m[kd]) /\ Len(m[kd]) = KindLen(gs, kd)
      /\ \A kd \in WordKind : IsVec(t[kd]) /\ Len(t[kd]) = KindLen(gs, kd)
      /\ \A kd \in WordKind : \A j \in 1 .. Len(t[kd]) : AllOpened(t)[OffsetOf(t, kd) + j] = t[kd][j]
      /\ Len(AllOpened(t)) = LevelLen(gs)
  <2> DEFINE u == ws[p]
             v == ws[q]
  <2>1. circ.levels[l] \in Seq(Gate)
    BY <1>1
  <2> HIDE DEF l, q, u, v
  <2>2. \A kd \in WordKind : IsVec(m[kd]) /\ Len(m[kd]) = KindLen(gs, kd)
    <3>1. Grouped(p, l, u, WordsIn(circ, deal, p, l, u))
      BY <2>1, WordsInIs
    <3>. QED  BY <3>1 DEF Grouped, u
  <2>3. /\ \A kd \in WordKind : IsVec(t[kd]) /\ Len(t[kd]) = KindLen(gs, kd)
        /\ \A kd \in WordKind : \A j \in 1 .. Len(t[kd]) : AllOpened(t)[OffsetOf(t, kd) + j] = t[kd][j]
        /\ Len(AllOpened(t)) = LevelLen(gs)
    <3>1. Grouped(q, l, v, WordsIn(circ, deal, q, l, v))
      BY <2>1, WordsInIs
    <3>. QED  BY <3>1 DEF Grouped, v
  <2>. QED  BY <2>2, <2>3
<1>3. /\ mine[p] = m /\ Len(recv[p]) = LevelLen(gs)
      /\ \A j \in 1 .. LevelLen(gs) : recv[p][j] = AllOpened(t)[j]
  BY DEF HasAll
<1>4. \A kd \in WordKind : KindLen(gs, kd) \in Nat
  BY <1>1, KindLenFacts
<1> HIDE DEF m, t, gs, l
<1>5. OffsetOf(m, kind) = OffsetOf(t, kind) /\ at \in Nat
      /\ at + KindLen(gs, kind) <= LevelLen(gs)
  <2> DEFINE a == KindLen(gs, "mult")
             b == KindLen(gs, "and")
             c == KindLen(gs, "shuffle")
             d == KindLen(gs, "reveal")
  <2>1. /\ Len(m.mult) = a /\ Len(m.and) = b /\ Len(m.shuffle) = c
        /\ Len(t.mult) = a /\ Len(t.and) = b /\ Len(t.shuffle) = c
        /\ a \in Nat /\ b \in Nat /\ c \in Nat /\ d \in Nat /\ LevelLen(gs) = a + b + c + d
    BY <1>2, <1>4 DEF WordKind, LevelLen
  <2>2. /\ kind = "mult" => KindLen(gs, kind) = a
        /\ kind = "and" => KindLen(gs, kind) = b
        /\ kind = "shuffle" => KindLen(gs, kind) = c
        /\ kind = "reveal" => KindLen(gs, kind) = d
    OBVIOUS
  <2> HIDE DEF a, b, c, d
  <2>3. CASE kind = "mult"
    BY <2>1, <2>2, <2>3 DEF OffsetOf
  <2>4. CASE kind = "and"
    BY <2>1, <2>2, <2>4 DEF OffsetOf
  <2>5. CASE kind = "shuffle"
    BY <2>1, <2>2, <2>5 DEF OffsetOf
  <2>6. CASE kind = "reveal"
    BY <2>1, <2>2, <2>6 DEF OffsetOf
  <2>. QED  BY <2>3, <2>4, <2>5, <2>6 DEF WordKind
<1>6. DOMAIN m[kind] = 1 .. KindLen(gs, kind)
  BY <1>2, VecLen
<1>7. \A j \in 1 .. KindLen(gs, kind) : recv[p][at + j] = t[kind][j]
  <2> TAKE j \in 1 .. KindLen(gs, kind)
  <2> DEFINE i == at + j
  <2>1. KindLen(gs, kind) \in Nat
    BY <1>4
  <2>2. LevelLen(gs) \in Nat
    BY <1>1, LevelLenFacts
  <2> HIDE DEF at
  <2>3. i \in 1 .. LevelLen(gs)
    BY <1>5, <2>1, <2>2
  <2>4. AllOpened(t)[OffsetOf(t, kind) + j] = t[kind][j]
    BY <1>2
  <2>5. AllOpened(t)[i] = t[kind][j]
    BY <1>5, <2>4 DEF at
  <2> HIDE DEF i
  <2>6. recv[p][i] = AllOpened(t)[i]
    BY <1>3, <2>3
  <2>. QED  BY <2>5, <2>6 DEF i
<1>8. cb[kind] = [j \in DOMAIN m[kind] |-> Mixed(kind, m[kind][j], recv[p][at + j])]
  <2>1. CASE kind = "mult"
    <3>1. cb.mult = [j \in DOMAIN m.mult |-> Plus(m.mult[j], recv[p][0 + j])]
      BY <1>3 DEF Combined
    <3>2. at = 0 /\ \A x, y : Mixed(kind, x, y) = Plus(x, y)
      BY <2>1 DEF OffsetOf, Mixed
    <3> HIDE DEF at, cb
    <3>. QED  BY <2>1, <3>1, <3>2
  <2>2. CASE kind = "and"
    <3>1. cb.and = [j \in DOMAIN m.and |-> XorW(m.and[j], recv[p][Len(m.mult) + j])]
      BY <1>3 DEF Combined
    <3>2. at = Len(m.mult) /\ \A x, y : Mixed(kind, x, y) = XorW(x, y)
      BY <2>2 DEF OffsetOf, Mixed
    <3> HIDE DEF at, cb
    <3>. QED  BY <2>2, <3>1, <3>2
  <2>3. CASE kind = "shuffle"
    <3> DEFINE z == Len(m.mult) + Len(m.and)
    <3>1. cb.shuffle = [j \in DOMAIN m.shuffle |-> recv[p][z + j]]
      BY <1>3 DEF Combined
    <3>2. at = z /\ \A x, y : Mixed(kind, x, y) = y
      BY <2>3 DEF OffsetOf, Mixed
    <3> HIDE DEF at, cb, z
    <3>. QED  BY <2>3, <3>1, <3>2
  <2>4. CASE kind = "reveal"
    <3> DEFINE z == Len(m.mult) + Len(m.and) + Len(m.shuffle)
    <3>1. cb.reveal = [j \in DOMAIN m.reveal |-> Plus(m.reveal[j], recv[p][z + j])]
      BY <1>3 DEF Combined
    <3>2. at = z /\ \A x, y : Mixed(kind, x, y) = Plus(x, y)
      BY <2>4 DEF OffsetOf, Mixed
    <3> HIDE DEF at, cb, z
    <3>. QED  BY <2>4, <3>1, <3>2
  <2>. QED  BY <2>1, <2>2, <2>3, <2>4 DEF WordKind
<1> DEFINE s == cb[kind]
<1>9. \A j \in 1 .. KindLen(gs, kind) : s[j] = Mixed(kind, m[kind][j], t[kind][j])
  BY <1>6, <1>7, <1>8
<1>10. s = [j \in 1 .. KindLen(gs, kind) |-> s[j]]
  BY <1>6, <1>8
<1> HIDE DEF s
<1>11. IsVec(s) /\ Len(s) = KindLen(gs, kind)
  BY <1>4, <1>10, FunVec
<1>. QED  BY <1>9, <1>11 DEF s, m, t, gs, l

LEMMA MixedJoins ==
  ASSUME NEW p \in Online, NEW x \in Ring, NEW y \in Ring, NEW kind \in WordKind
  PROVE  IF p = 1 THEN Mixed(kind, x, y) = Joined(kind, p, x, y)
                  ELSE Mixed(kind, x, y) = Joined(kind, p, y, x)
<1>1. Plus(x, y) = Plus(y, x)
  <2>1. x \in Int /\ y \in Int /\ x + y = y + x
    BY RingInt
  <2>. QED  BY <2>1 DEF Plus
<1>2. XorW(x, y) = XorW(y, x)
  BY BitOps
<1>3. CASE kind = "shuffle"
  BY <1>3 DEF Mixed, Joined
<1>4. CASE kind = "and"
  BY <1>2, <1>4 DEF Mixed, Joined
<1>5. CASE kind = "mult"
  BY <1>1, <1>5 DEF Mixed, Joined
<1>6. CASE kind = "reveal"
  BY <1>1, <1>6 DEF Mixed, Joined
<1>. QED  BY <1>3, <1>4, <1>5, <1>6 DEF WordKind

LEMMA GateGets ==
  ASSUME NEW p \in Online, NEW ws, HasAll(p, ws), NEW k \in 1 .. Len(circ.levels[level[p]]),
         circ.levels[level[p]][k].type \in Interactive
  PROVE  LET g  == circ.levels[level[p]][k]
             at == Start(circ.levels[level[p]], Kind(g), k)
         IN  SubSeq(Combined(p)[Kind(g)], at + 1, at + Takes(g))
               = Both(p, g, deal[1][level[p]][k], deal[2][level[p]][k], ws)
<1> DEFINE l == level[p]
           q == Other(p)
           gs == circ.levels[l]
           g == gs[k]
           kind == Kind(g)
           at == Start(gs, kind, k)
           n == Takes(g)
           s == Combined(p)[kind]
           v == SubSeq(s, at + 1, at + n)
           O(r) == Opened(r, g, deal[r][l][k], kind, ws[r])
<1>1. /\ circ \in Circuits /\ deal \in DealsOf(circ) /\ l \in 1 .. Len(circ.levels)
      /\ WordsOn(circ, ws[1]) /\ WordsOn(circ, ws[2]) /\ k \in 1 .. Len(circ.levels[l])
  BY DEF HasAll
<1>2. gs \in Seq(Gate)
  BY <1>1, BeforeFacts
<1>3. g \in Gate /\ LengthsFit(g)
  BY <1>1, GateAt
<1>4. kind \in WordKind
  BY DEF Kind, WordKind, Interactive
<1>5. WordsOf(g, kind) = n
  BY DEF WordsOf
<1>6. at \in Nat /\ n \in Nat /\ at + n <= KindLen(gs, kind)
  <2> HIDE DEF gs, kind
  <2>1. /\ Start(gs, kind, k) \in Nat /\ WordsOf(gs[k], kind) \in Nat
        /\ Start(gs, kind, k) + WordsOf(gs[k], kind) <= KindLen(gs, kind)
    BY <1>2, <1>4, StartFacts DEF gs
  <2>. QED  BY <1>5, <2>1
<1>7. q \in Online /\ p \in Online /\ 1 \in Online /\ 2 \in Online
      /\ IF p = 1 THEN q = 2 ELSE p = 2 /\ q = 1
  BY DEF Online, Other
<1>8. ASSUME NEW r \in Online, NEW i \in 1 .. n PROVE O(r)[i] \in Ring
  <2>1. HasWords(g, deal[r][l][k])
    BY <1>1, MaterialWords
  <2>2. /\ \A u \in Reads(g) : ws[1][u] \in Ring
        /\ \A u \in Reads(g) : ws[2][u] \in Ring
        /\ g.type = "EqualsZero" => g.param < Layers
    BY <1>1, ReadsWords
  <2>3. \A u \in Reads(g) : ws[r][u] \in Ring
    BY <2>2 DEF Online
  <2> DEFINE w == ws[r]
             e == deal[r][l][k]
  <2> HIDE DEF g, kind, w, e
  <2>4. /\ Len(Opened(r, g, e, kind, w)) = WordsOf(g, kind)
        /\ \A j \in 1 .. Len(Opened(r, g, e, kind, w)) : Opened(r, g, e, kind, w)[j] \in Ring
    <3>1. Len(Opened(r, g, e, kind, w)) = WordsOf(g, kind)
      BY <1>3, <1>4, OpenedLen
    <3>2. \A j \in 1 .. Len(Opened(r, g, e, kind, w)) : Opened(r, g, e, kind, w)[j] \in Ring
      BY <1>3, <1>4, <2>1, <2>2, <2>3, OpenedWords DEF w, e
    <3>. QED  BY <3>1, <3>2
  <2>5. Opened(r, g, e, kind, w)[i] \in Ring
    BY <1>5, <2>4
  <2>. QED  BY <2>5 DEF w, e
<1>9. ASSUME NEW r \in Online, NEW i \in 1 .. n
      PROVE  WordsIn(circ, deal, r, l, ws[r])[kind][at + i] = O(r)[i]
  <2> DEFINE w == ws[r]
             m == WordsIn(circ, deal, r, l, w)
  <2>1. circ.levels[l] \in Seq(Gate) /\ k \in 1 .. Len(circ.levels[l])
    BY <1>1, <1>2
  <2>2. i \in 1 .. WordsOf(circ.levels[l][k], kind)
    BY <1>5
  <2> HIDE DEF l, w, kind, m
  <2>3. Grouped(r, l, w, m)
    BY <2>1, WordsInIs DEF m
  <2>4. m[kind] = Group(r, l, kind, w) /\ GroupIs(r, l, kind, w)
    BY <1>4, <2>3 DEF Grouped
  <2>5. Group(r, l, kind, w)[Start(circ.levels[l], kind, k) + i]
          = Opened(r, circ.levels[l][k], deal[r][l][k], kind, w)[i]
    BY <2>1, <2>2, <2>4 DEF GroupIs
  <2>. QED  BY <2>4, <2>5 DEF m, w
<1>10. /\ IsVec(s) /\ Len(s) = KindLen(gs, kind)
       /\ \A j \in 1 .. KindLen(gs, kind) :
            s[j] = Mixed(kind, WordsIn(circ, deal, p, l, ws[p])[kind][j],
                               WordsIn(circ, deal, q, l, ws[q])[kind][j])
  <2> HIDE DEF kind
  <2>. QED  BY <1>4, CombinedIs
<1>11. IsVec(v) /\ Len(v) = n
  <2> HIDE DEF s, at, n, gs, kind
  <2>. QED  BY <1>6, <1>10, VecPart
<1>12. ASSUME NEW i \in 1 .. n PROVE v[i] = Joined(kind, p, O(1)[i], O(2)[i])
  <2>1. v[i] = s[at + i]
    <3> HIDE DEF s, at, n, gs, kind
    <3>. QED  BY <1>6, <1>10, PartAt
  <2> DEFINE j == at + i
  <2>2. j \in 1 .. KindLen(gs, kind)
    <3> HIDE DEF s, at, n, gs, kind
    <3>1. KindLen(gs, kind) \in Nat
      BY <1>2, <1>4, KindLenFacts
    <3>. QED  BY <1>6, <3>1
  <2>3. s[j] = Mixed(kind, WordsIn(circ, deal, p, l, ws[p])[kind][j],
                           WordsIn(circ, deal, q, l, ws[q])[kind][j])
    <3> HIDE DEF j
    <3>. QED  BY <1>10, <2>2
  <2>4. /\ WordsIn(circ, deal, p, l, ws[p])[kind][j] = O(p)[i]
        /\ WordsIn(circ, deal, q, l, ws[q])[kind][j] = O(q)[i]
    BY <1>7, <1>9
  <2> DEFINE x == O(p)[i]
             y == O(q)[i]
  <2>5. v[i] = Mixed(kind, x, y)
    BY <2>1, <2>3, <2>4
  <2>6. x \in Ring /\ y \in Ring
    BY <1>7, <1>8
  <2>7. IF p = 1 THEN x = O(1)[i] /\ y = O(2)[i] ELSE x = O(2)[i] /\ y = O(1)[i]
    BY <1>7
  <2> HIDE DEF x, y, O, v, kind
  <2>8. IF p = 1 THEN Mixed(kind, x, y) = Joined(kind, p, x, y)
                 ELSE Mixed(kind, x, y) = Joined(kind, p, y, x)
    BY <1>4, <2>6, MixedJoins
  <2>. QED  BY <2>5, <2>7, <2>8
<1> DEFINE b == Both(p, g, deal[1][l][k], deal[2][l][k], ws)
<1>13. b = [i \in 1 .. n |-> Joined(kind, p, O(1)[i], O(2)[i])]
  BY DEF Both
<1>14. v = [i \in 1 .. n |-> v[i]]
  <2> HIDE DEF v
  <2>1. DOMAIN v = 1 .. Len(v) /\ v \in Seq(Elems(v))
    BY <1>11, VecLen DEF IsVec
  <2>. QED  BY <1>11, <2>1
<1> HIDE DEF v, b, O, n
<1>15. v = b
  BY <1>12, <1>13, <1>14
<1>. QED  BY <1>15 DEF v, b, n

(* How far a party has taken the combined words apart after j gates.       *)
Taken(l, j) == [kind \in WordKind |-> Start(circ.levels[l], kind, j + 1)]
LEMMA GateWalked ==
  ASSUME NEW p \in Online, NEW ws, HasAll(p, ws), NEW k \in 1 .. Len(circ.levels[level[p]]), NEW u
  PROVE  AfterGate(p, Combined(p), k, [w |-> u, idx |-> Taken(level[p], k - 1)])
           = [w   |-> AfterOne(circ, deal, p, level[p], k, ws, u),
              idx |-> Taken(level[p], k)]
<1> DEFINE l == level[p]
           gs == circ.levels[l]
           g == gs[k]
           kind == Kind(g)
           got == Combined(p)
           s == [w |-> u, idx |-> Taken(l, k - 1)]
           r == AfterGate(p, got, k, s)
           a == AfterOne(circ, deal, p, l, k, ws, u)
<1>1. circ \in Circuits /\ l \in 1 .. Len(circ.levels) /\ k \in 1 .. Len(circ.levels[l])
  BY DEF HasAll
<1>2. gs \in Seq(Gate)
  BY <1>1, BeforeFacts
<1>3. g \in Gate
  BY <1>1, GateAt
<1>4. \/ g.type \in InputGate \/ g.type \in LocalGate \/ g.type \in Interactive
  BY <1>3, GateKinds
<1>5. /\ g.type \in InputGate => g.type \notin LocalGate /\ g.type \notin Interactive
      /\ g.type \in LocalGate => g.type \notin InputGate /\ g.type \notin Interactive
  BY <1>3, GateKinds
<1>6. \A kd \in WordKind : /\ Start(gs, kd, k) \in Nat
                           /\ Start(gs, kd, k + 1) = Start(gs, kd, k) + WordsOf(g, kd)
  <2> HIDE DEF gs
  <2>. QED  BY <1>2, StartFacts DEF gs
<1>7. Taken(l, k - 1) = [kd \in WordKind |-> Start(gs, kd, k)]
  <2>1. (k - 1) + 1 = k
    BY <1>2
  <2>. QED  BY <2>1 DEF Taken
<1>8. Taken(l, k) = [kd \in WordKind |-> Start(gs, kd, k + 1)]
  BY DEF Taken
<1>9. CASE g.type \in InputGate
  <2>1. r = s
    BY <1>5, <1>9 DEF AfterGate
  <2>2. a = u
    BY <1>1, <1>9, AfterInput
  <2>3. \A kd \in WordKind : Start(gs, kd, k + 1) = Start(gs, kd, k)
    <3>1. \A kd \in WordKind : WordsOf(g, kd) = 0
      BY <1>5, <1>9 DEF WordsOf
    <3> HIDE DEF gs, g
    <3>. QED  BY <1>6, <3>1
  <2>4. Taken(l, k) = Taken(l, k - 1)
    BY <1>7, <1>8, <2>3
  <2>. QED  BY <2>1, <2>2, <2>4
<1>10. CASE g.type \in LocalGate
  <2>1. r = [s EXCEPT !.w = Written(@, g.outs, Local(p, g, s.w))]
    BY <1>5, <1>10 DEF AfterGate
  <2>2. a = Written(u, g.outs, Local(p, g, u))
    BY <1>1, <1>10, AfterLocal
  <2>3. \A kd \in WordKind : Start(gs, kd, k + 1) = Start(gs, kd, k)
    <3>1. \A kd \in WordKind : WordsOf(g, kd) = 0
      BY <1>5, <1>10 DEF WordsOf
    <3> HIDE DEF gs, g
    <3>. QED  BY <1>6, <3>1
  <2>4. Taken(l, k) = Taken(l, k - 1)
    BY <1>7, <1>8, <2>3
  <2>5. r = [w |-> Written(u, g.outs, Local(p, g, u)), idx |-> Taken(l, k - 1)]
    BY <2>1
  <2> HIDE DEF r, a
  <2>. QED  BY <2>2, <2>4, <2>5 DEF r, a
<1>11. CASE g.type \in Interactive
  <2> DEFINE at == Start(gs, kind, k)
             v == SubSeq(got[kind], at + 1, at + Takes(g))
             b == Both(p, g, deal[1][l][k], deal[2][l][k], ws)
  <2>1. kind \in WordKind
    BY <1>11 DEF Kind, WordKind, Interactive
  <2>2. s.idx[kind] = at
    BY <1>7, <2>1
  <2>3. r = [w   |-> Written(u, g.outs, Finished(p, g, deal[p][l][k], v, u)),
             idx |-> [Taken(l, k - 1) EXCEPT ![kind] = @ + Takes(g)]]
    <3> HIDE DEF kind, at, got
    <3>1. s.w = u /\ s.idx = Taken(l, k - 1)
      OBVIOUS
    <3>2. r = [w   |-> Written(s.w, g.outs, Finished(p, g, deal[p][l][k],
                         SubSeq(got[kind], s.idx[kind] + 1, s.idx[kind] + Takes(g)), s.w)),
               idx |-> [s.idx EXCEPT ![kind] = @ + Takes(g)]]
      <4> HIDE DEF s
      <4>. QED  BY <1>5, <1>11 DEF AfterGate, kind
    <3> HIDE DEF s, r
    <3>. QED  BY <2>2, <3>1, <3>2
  <2>4. v = b
    BY <1>11, GateGets
  <2>5. a = Written(u, g.outs, Finished(p, g, deal[p][l][k], b, u))
    <3>1. a = Written(u, g.outs, Left(circ, deal, p, l, k, ws, u))
      BY <1>1, <1>11, AfterInteractive
    <3>. QED  BY <3>1 DEF Left
  <2>6. [Taken(l, k - 1) EXCEPT ![kind] = @ + Takes(g)] = Taken(l, k)
    <3>1. \A kd \in WordKind : WordsOf(g, kd) = IF kd = kind THEN Takes(g) ELSE 0
      BY <1>11 DEF WordsOf
    <3> DEFINE h == [Taken(l, k - 1) EXCEPT ![kind] = @ + Takes(g)]
    <3> HIDE DEF kind, gs, g
    <3>2. h = [kd \in WordKind |-> IF kd = kind THEN Start(gs, kd, k) + Takes(g) ELSE Start(gs, kd, k)]
      BY <1>7, <2>1
    <3>3. ASSUME NEW kd \in WordKind
          PROVE  Start(gs, kd, k + 1) = IF kd = kind THEN Start(gs, kd, k) + Takes(g) ELSE Start(gs, kd, k)
      BY <1>6, <3>1
    <3> HIDE DEF h
    <3>. QED  BY <1>8, <3>2, <3>3 DEF h
  <2> HIDE DEF r, a, v, b
  <2>. QED  BY <2>3, <2>4, <2>5, <2>6 DEF r, a
<1>. QED  BY <1>4, <1>9, <1>10, <1>11

LEMMA LevelFinished ==
  ASSUME NEW p \in Online, NEW ws, HasAll(p, ws)
  PROVE  NewWires(p, Combined(p)) = Walked(circ, deal, p, level[p], ws)[Len(circ.levels[level[p]])]
<1> DEFINE l == level[p]
           n == Len(circ.levels[l])
           got == Combined(p)
           W == Walked(circ, deal, p, l, ws)
<1>1. circ \in Circuits /\ l \in 1 .. Len(circ.levels) /\ wires[p] = ws[p]
  BY DEF HasAll
<1>2. circ.levels[l] \in Seq(Gate) /\ n \in Nat
  BY <1>1, BeforeFacts
<1>3. PICK f : /\ NewWires(p, got) = f[n].w
               /\ f[0] = [w |-> wires[p], idx |-> [kind \in WordKind |-> 0]]
               /\ \A k \in 1 .. n : f[k] = AfterGate(p, got, k, f[k - 1])
  <2> HIDE DEF got
  <2>1. Len(circ.levels[level[p]]) \in Nat
    BY <1>2
  <2>2. PICK f : NewWalk(f, p, got)
    BY <2>1, NewWiresNext
  <2>. QED  BY <2>2 DEF NewWalk
<1>4. W[0] = ws[p] /\ \A k \in 1 .. n : W[k] = AfterOne(circ, deal, p, l, k, ws, W[k - 1])
  BY <1>2, WalkedNext
<1> HIDE DEF W, got
<1> DEFINE AtGate(k) == f[k] = [w |-> W[k], idx |-> Taken(l, k)]
           T == {k \in Nat : k <= n => AtGate(k)}
<1>5. 0 \in T
  <2>1. ASSUME NEW kind \in WordKind PROVE Start(circ.levels[l], kind, 1) = 0
    <3> DEFINE gs == circ.levels[l]
    <3>1. gs \in Seq(Gate)
      BY <1>2
    <3> HIDE DEF gs
    <3>2. Start(gs, kind, 1) = 0
      BY <3>1, StartFacts
    <3>. QED  BY <3>2 DEF gs
  <2>2. Taken(l, 0) = [kind \in WordKind |-> 0]
    BY <2>1 DEF Taken
  <2>3. AtGate(0)
    BY <1>1, <1>3, <1>4, <2>2
  <2>. QED  BY <2>3
<1>6. ASSUME NEW k \in T PROVE k + 1 \in T
  <2> DEFINE j == k + 1
  <2> SUFFICES ASSUME j <= n PROVE AtGate(j)
    OBVIOUS
  <2>1. k \in Nat /\ k <= n /\ j \in 1 .. n /\ j - 1 = k
    BY <1>2
  <2>2. f[k] = [w |-> W[k], idx |-> Taken(l, k)]
    BY <2>1
  <2> HIDE DEF j
  <2>3. f[j] = AfterGate(p, got, j, [w |-> W[k], idx |-> Taken(l, k)])
    BY <1>3, <2>1, <2>2
  <2>4. W[j] = AfterOne(circ, deal, p, l, j, ws, W[k])
    BY <1>4, <2>1
  <2> DEFINE u == W[k]
  <2> HIDE DEF u
  <2>5. AfterGate(p, got, j, [w |-> u, idx |-> Taken(l, j - 1)])
          = [w |-> AfterOne(circ, deal, p, l, j, ws, u), idx |-> Taken(l, j)]
    BY <2>1, GateWalked DEF got
  <2>. QED  BY <2>1, <2>3, <2>4, <2>5 DEF u
<1> HIDE DEF T
<1>7. T \in SUBSET Nat
  BY DEF T
<1>8. n \in T
  BY <1>2, <1>5, <1>6, <1>7, NatInd
<1>9. AtGate(n)
  BY <1>2, <1>8 DEF T
<1>. QED  BY <1>3, <1>9 DEF W, got
-----------------------------------------------------------------------------
(* Every step keeps what the parties hold and what is in flight.           *)
LEMMA ContentMoves ==
  ASSUME ContentInv, NEW p \in Online,
         circ' = circ, inputs' = inputs, deal' = deal, tape' = tape,
         DOMAIN wires' = Online, DOMAIN outvals' = Online,
         OnlyAt(p, pc, pc'), OnlyAt(p, level, level'), OnlyAt(p, wires, wires'),
         OnlyAt(p, mine, mine'), OnlyAt(p, recv, recv'), OnlyAt(p, outvals, outvals'),
         Holds(circ, deal, Lock, From(Other(p)), p,
               pc'[p], level'[p], wires'[p], mine'[p], recv'[p], outvals'[p]),
         Carries(circ, From(Other(p)), Read(circ, pc'[p], level'[p], Len(recv'[p])), chan'[p]),
         Carries(circ, From(p), ReadBy(Other(p)), chan'[Other(p)])
  PROVE  ContentInv'
<1> DEFINE q == Other(p)
<1>1. q \in Online /\ Other(q) = p /\ q # p /\ \A r \in Online : r = p \/ r = q
  BY Others DEF Online, Other
<1>2. /\ pc'[q] = pc[q] /\ level'[q] = level[q] /\ wires'[q] = wires[q]
      /\ mine'[q] = mine[q] /\ recv'[q] = recv[q] /\ outvals'[q] = outvals[q]
  BY <1>1 DEF OnlyAt
<1>3. Lock' = Lock /\ \A r : From(r)' = From(r)
  BY DEF Lock, From
<1>4. Holds(circ, deal, Lock, From(Other(q)), q,
            pc'[q], level'[q], wires'[q], mine'[q], recv'[q], outvals'[q])
  BY <1>1, <1>2 DEF ContentInv
<1>5. ReadBy(q) = Read(circ, pc'[q], level'[q], Len(recv'[q]))
  BY <1>2 DEF ReadBy
<1>6. Carries(circ, From(Other(q)), Read(circ, pc'[q], level'[q], Len(recv'[q])), chan'[q])
  BY <1>1, <1>5
<1> HIDE DEF q
<1>7. \A r \in Online :
        /\ Holds(circ, deal, Lock, From(Other(r)), r,
                 pc'[r], level'[r], wires'[r], mine'[r], recv'[r], outvals'[r])
        /\ Carries(circ, From(Other(r)), Read(circ, pc'[r], level'[r], Len(recv'[r])), chan'[r])
  BY <1>1, <1>4, <1>6 DEF q
<1>8. \A r \in Online : ReadBy(r)' = Read(circ, pc'[r], level'[r], Len(recv'[r]))
  BY DEF ReadBy
<1>9. /\ circ' \in Circuits /\ inputs' \in InputsOf(circ') /\ deal' \in DealsOf(circ')
      /\ tape' \in SharedTapes
  BY DEF ContentInv
<1>. QED  BY <1>3, <1>7, <1>8, <1>9 DEF ContentInv

LEMMA ContentAt ==
  ASSUME ContentInv, NEW p \in Online
  PROVE  /\ circ \in Circuits /\ inputs \in InputsOf(circ) /\ deal \in DealsOf(circ)
         /\ tape \in SharedTapes /\ DOMAIN wires = Online /\ DOMAIN outvals = Online
         /\ Other(p) \in Online /\ Other(Other(p)) = p /\ Other(p) # p
         /\ Holds(circ, deal, Lock, From(Other(p)), p,
                  pc[p], level[p], wires[p], mine[p], recv[p], outvals[p])
         /\ Carries(circ, From(Other(p)), ReadBy(p), chan[p])
         /\ Carries(circ, From(p), ReadBy(Other(p)), chan[Other(p)])
         /\ Flows(circ, From(p)) /\ Flows(circ, From(Other(p)))
<1>1. Other(p) \in Online /\ Other(Other(p)) = p /\ Other(p) # p
  BY Others
<1>2. circ \in Circuits
  BY DEF ContentInv
<1>3. Flows(circ, From(p)) /\ Flows(circ, From(Other(p)))
  BY <1>2, StreamsFlow DEF From
<1>4. /\ Carries(circ, From(Other(p)), ReadBy(p), chan[p])
      /\ Carries(circ, From(Other(Other(p))), ReadBy(Other(p)), chan[Other(p)])
  BY <1>1 DEF ContentInv
<1>. QED  BY <1>1, <1>3, <1>4 DEF ContentInv

LEMMA SetInputsKeepsContent ==
  ASSUME ExchangeInv, ContentInv, NEW p \in Online, SetInputs(p) PROVE ContentInv'
<1> DEFINE s == [w \in Wires(circ) |->
                   IF \E k \in DOMAIN circ.levels[1] : InputOf(w, k)
                   THEN InputShare(p, CHOOSE k \in DOMAIN circ.levels[1] : InputOf(w, k))
                   ELSE 0]
<1>1. /\ pc[p] = "inputs" /\ wires' = [wires EXCEPT ![p] = s] /\ pc' = [pc EXCEPT ![p] = "begin"]
      /\ circ' = circ /\ inputs' = inputs /\ deal' = deal /\ tape' = tape
      /\ level' = level /\ mine' = mine /\ recv' = recv /\ chan' = chan /\ outvals' = outvals
  BY DEF SetInputs, fixed
<1>2. s = FirstShare(circ, inputs, tape, p)
  BY DEF FirstShare, InputOf, IsInput, InputShare, DrawnBy
<1>3. Len(circ.levels) \in Nat /\ DOMAIN pc = Online /\ Before(circ, level[p]) \in Nat
  BY InvAt
<1>4. Lock[0][p] = FirstShare(circ, inputs, tape, p)
  <2>1. Lockstep(circ, inputs, deal, tape)[0] = [q \in Online |-> FirstShare(circ, inputs, tape, q)]
    BY <1>3, LockstepNext
  <2>. QED  BY <2>1 DEF Lock
<1> HIDE DEF s
<1>5. /\ Holds(circ, deal, Lock, From(Other(p)), p,
               pc[p], level[p], wires[p], mine[p], recv[p], outvals[p])
      /\ DOMAIN wires = Online /\ DOMAIN outvals = Online
  BY ContentAt
<1>6. level[p] = 1 /\ outvals[p] = <<>>
  BY <1>1, <1>5 DEF Holds
<1>7. pc'[p] = "begin" /\ wires'[p] = s /\ DOMAIN wires' = Online
      /\ OnlyAt(p, pc, pc') /\ OnlyAt(p, wires, wires')
  BY <1>1, <1>3, <1>5 DEF OnlyAt
<1>8. Holds(circ, deal, Lock, From(Other(p)), p,
            pc'[p], level'[p], wires'[p], mine'[p], recv'[p], outvals'[p])
  BY <1>1, <1>2, <1>4, <1>6, <1>7 DEF Holds
<1>9. Read(circ, pc'[p], level'[p], Len(recv'[p])) = ReadBy(p)
  BY <1>1, <1>7 DEF Read, ReadBy
<1>10. /\ Carries(circ, From(Other(p)), ReadBy(p), chan'[p])
       /\ Carries(circ, From(p), ReadBy(Other(p)), chan'[Other(p)])
  BY <1>1, ContentAt
<1>11. /\ OnlyAt(p, level, level') /\ OnlyAt(p, mine, mine') /\ OnlyAt(p, recv, recv')
       /\ OnlyAt(p, outvals, outvals') /\ DOMAIN outvals' = Online
  BY <1>1, <1>5 DEF OnlyAt
<1>. QED  BY <1>1, <1>7, <1>8, <1>9, <1>10, <1>11, ContentMoves

LEMMA BeginLevelKeepsContent ==
  ASSUME ExchangeInv, ContentInv, NEW p \in Online, BeginLevel(p) PROVE ContentInv'
<1> DEFINE m == WordsIn(circ, deal, p, level[p], wires[p])
<1>1. /\ pc[p] = "begin" /\ pc' = [pc EXCEPT ![p] = "send"]
      /\ mine' = [mine EXCEPT ![p] = WordsAt(p, level[p], wires[p])]
      /\ recv' = [recv EXCEPT ![p] = <<>>]
      /\ circ' = circ /\ inputs' = inputs /\ deal' = deal /\ tape' = tape
      /\ level' = level /\ wires' = wires /\ chan' = chan /\ outvals' = outvals
  BY DEF BeginLevel, fixed
<1>2. WordsAt(p, level[p], wires[p]) = m
  BY DEF WordsAt, WordsIn, Group, GroupOf
<1> HIDE DEF m
<1>3. /\ DOMAIN pc = Online /\ DOMAIN mine = Online /\ DOMAIN recv = Online
      /\ Before(circ, level[p]) \in Nat
  BY InvAt
<1>4. /\ Holds(circ, deal, Lock, From(Other(p)), p,
               pc[p], level[p], wires[p], mine[p], recv[p], outvals[p])
      /\ DOMAIN wires = Online /\ DOMAIN outvals = Online
  BY ContentAt
<1>5. /\ pc'[p] = "send" /\ mine'[p] = m /\ recv'[p] = <<>>
      /\ OnlyAt(p, pc, pc') /\ OnlyAt(p, mine, mine') /\ OnlyAt(p, recv, recv')
  BY <1>1, <1>2, <1>3 DEF OnlyAt
<1>6. \A j \in 1 .. Len(<<>>) : FALSE
  BY VecEmpty
<1>7. Holds(circ, deal, Lock, From(Other(p)), p,
            pc'[p], level'[p], wires'[p], mine'[p], recv'[p], outvals'[p])
  BY <1>1, <1>4, <1>5, <1>6 DEF Holds, m
<1>8. Read(circ, pc'[p], level'[p], Len(recv'[p])) = ReadBy(p)
  BY <1>1, <1>5, VecEmpty DEF Read, ReadBy
<1>9. /\ Carries(circ, From(Other(p)), ReadBy(p), chan'[p])
      /\ Carries(circ, From(p), ReadBy(Other(p)), chan'[Other(p)])
  BY <1>1, ContentAt
<1>10. /\ OnlyAt(p, level, level') /\ OnlyAt(p, wires, wires') /\ OnlyAt(p, outvals, outvals')
       /\ DOMAIN wires' = Online /\ DOMAIN outvals' = Online
  BY <1>1, <1>4 DEF OnlyAt
<1>. QED  BY <1>1, <1>5, <1>7, <1>8, <1>9, <1>10, ContentMoves

(* The words a party in state send or recv exchanges are its stream.       *)
LEMMA OpensStream ==
  ASSUME ExchangeInv, ContentInv, NEW p \in Online, pc[p] \in {"send", "recv", "finish"}
  PROVE  /\ level[p] \in 1 .. Len(circ.levels) /\ level[p] \in 1 .. EndStage(circ)
         /\ AllOpened(mine[p]) = From(p)[level[p]]
         /\ \A j \in 1 .. Len(recv[p]) : recv[p][j] = From(Other(p))[level[p]][j]
         /\ Len(From(p)[level[p]]) = LevelLen(circ.levels[level[p]])
         /\ Len(From(Other(p))[level[p]]) = LevelLen(circ.levels[level[p]])
<1>1. /\ level[p] <= Len(circ.levels) /\ level[p] \in 1 .. (Len(circ.levels) + 1)
      /\ Len(circ.levels) \in Nat /\ EndStage(circ) = Len(circ.levels) + 1
  BY InvAt DEF InLevel
<1>2. level[p] \in 1 .. Len(circ.levels) /\ level[p] \in 1 .. EndStage(circ)
  BY <1>1
<1>3. /\ wires[p] = Lock[level[p] - 1][p]
      /\ mine[p] = WordsIn(circ, deal, p, level[p], wires[p])
      /\ \A j \in 1 .. Len(recv[p]) : recv[p][j] = From(Other(p))[level[p]][j]
  BY ContentAt DEF Holds
<1>4. From(p)[level[p]] = Stream(circ, deal, p, level[p], wires[p])
  BY <1>2, <1>3 DEF From, Streams
<1>5. AllOpened(mine[p]) = From(p)[level[p]]
  BY <1>2, <1>3, <1>4 DEF Stream
<1>6. /\ Len(From(p)[level[p]]) = StreamLen(circ, level[p])
      /\ Len(From(Other(p))[level[p]]) = StreamLen(circ, level[p])
  BY <1>2, ContentAt DEF Flows
<1>. QED  BY <1>2, <1>3, <1>5, <1>6 DEF StreamLen

LEMMA SendSegmentKeepsContent ==
  ASSUME ExchangeInv, ContentInv, NEW p \in Online, SendSegment(p) PROVE ContentInv'
<1> DEFINE q == Other(p)
           l == level[p]
           r == Len(recv[p])
           s == SegmentSize(p)
           v == SubSeq(AllOpened(mine[p]), r + 1, r + s)
<1>1. /\ pc[p] = "send" /\ pc' = [pc EXCEPT ![p] = "recv"]
      /\ chan' = [chan EXCEPT ![q] = @ \o v]
      /\ circ' = circ /\ inputs' = inputs /\ deal' = deal /\ tape' = tape
      /\ level' = level /\ wires' = wires /\ mine' = mine /\ recv' = recv /\ outvals' = outvals
  BY DEF SendSegment, fixed
<1>2. /\ IsVec(AllOpened(mine[p])) /\ Total_comm(p) = Len(AllOpened(mine[p]))
      /\ s \in Nat /\ r \in Nat /\ r + s <= Len(AllOpened(mine[p]))
  BY <1>1, SegmentFacts, InvAt DEF Total_comm
<1>3. /\ AllOpened(mine[p]) = From(p)[l] /\ l \in 1 .. EndStage(circ)
  BY <1>1, OpensStream
<1> HIDE DEF s, l, r
<1>4. /\ IsVec(v) /\ Len(v) = s
      /\ \A i \in 1 .. Len(v) : v[i] = From(p)[l][r + i]
  <2>1. IsVec(v) /\ Len(v) = s
    BY <1>2, VecPart
  <2>2. \A i \in 1 .. s : v[i] = AllOpened(mine[p])[r + i]
    BY <1>2, PartAt
  <2>. QED  BY <1>3, <2>1, <2>2
<1>5. r + Len(v) <= Len(From(p)[l])
  BY <1>2, <1>3, <1>4
<1> HIDE DEF v
<1>6. /\ DOMAIN pc = Online /\ chan = [x \in Online |-> chan[x]] /\ IsVec(chan[q])
      /\ q \in Online /\ q # p /\ Other(q) = p /\ Before(circ, l) \in Nat /\ circ \in Circuits
  BY InvAt, Others DEF l
<1>7. /\ SentBy(p) = Before(circ, l) + r /\ ReadBy(q) \in Nat /\ Len(chan[q]) \in Nat
      /\ Len(chan[q]) = SentBy(p) - ReadBy(q) /\ SentBy(p) \in Nat
  <2>1. /\ ReadBy(q) \in Nat /\ Len(chan[q]) \in Nat
        /\ Len(chan[q]) = SentBy(Other(q)) - ReadBy(q)
    BY <1>6, Counts
  <2>2. SentBy(p) = Before(circ, l) + r
    BY <1>1 DEF SentBy, Sent, l, r
  <2>3. SentBy(p) \in Nat
    BY Counts
  <2>. QED  BY <1>6, <2>1, <2>2, <2>3
<1>8. ReadBy(q) + Len(chan[q]) = Before(circ, l) + r
  BY <1>2, <1>6, <1>7
<1>9. Carries(circ, From(p), ReadBy(q), chan[q] \o v)
  <2> DEFINE n == ReadBy(q)
             ch == chan[q]
             th == From(p)
  <2>1. n \in Nat /\ IsVec(ch) /\ Carries(circ, th, n, ch) /\ Flows(circ, th) /\ n + Len(ch) = Before(circ, l) + r
    BY <1>6, <1>7, <1>8, ContentAt
  <2>2. r + Len(v) <= Len(th[l]) /\ \A i \in 1 .. Len(v) : v[i] = th[l][r + i]
    BY <1>4, <1>5
  <2> HIDE DEF n, ch, th
  <2>3. Carries(circ, th, n, ch \o v)
    BY <1>2, <1>3, <1>4, <1>6, <2>1, <2>2, CarriesMore
  <2>. QED  BY <2>3 DEF n, ch, th
<1>10. chan'[p] = chan[p] /\ chan'[q] = chan[q] \o v
  <2> HIDE DEF q
  <2>. QED  BY <1>1, <1>6
<1>11. /\ Holds(circ, deal, Lock, From(Other(p)), p,
                pc[p], level[p], wires[p], mine[p], recv[p], outvals[p])
       /\ DOMAIN wires = Online /\ DOMAIN outvals = Online
       /\ Carries(circ, From(Other(p)), ReadBy(p), chan[p])
  BY ContentAt
<1>12. pc'[p] = "recv" /\ OnlyAt(p, pc, pc')
  BY <1>1, <1>6 DEF OnlyAt
<1>13. Holds(circ, deal, Lock, From(Other(p)), p,
             pc'[p], level'[p], wires'[p], mine'[p], recv'[p], outvals'[p])
  BY <1>1, <1>11, <1>12 DEF Holds
<1>14. Read(circ, pc'[p], level'[p], Len(recv'[p])) = ReadBy(p)
  BY <1>1, <1>12 DEF Read, ReadBy
<1>15. /\ OnlyAt(p, level, level') /\ OnlyAt(p, wires, wires') /\ OnlyAt(p, outvals, outvals')
       /\ OnlyAt(p, mine, mine') /\ OnlyAt(p, recv, recv')
       /\ DOMAIN wires' = Online /\ DOMAIN outvals' = Online
  BY <1>1, <1>11 DEF OnlyAt
<1>. QED  BY <1>1, <1>9, <1>10, <1>11, <1>12, <1>13, <1>14, <1>15, ContentMoves

LEMMA RecvSegmentKeepsContent ==
  ASSUME ExchangeInv, ContentInv, NEW p \in Online, RecvSegment(p) PROVE ContentInv'
<1> DEFINE q == Other(p)
           l == level[p]
           r == Len(recv[p])
           s == SegmentSize(p)
           v == SubSeq(chan[p], 1, s)
           u == SubSeq(chan[p], s + 1, Len(chan[p]))
           ph == IF LastSegment(p) THEN "finish" ELSE "send"
           th == From(q)
           n == ReadBy(p)
           ch == chan[p]
<1>1. /\ pc[p] = "recv" /\ pc' = [pc EXCEPT ![p] = ph] /\ s <= Len(ch)
      /\ chan' = [chan EXCEPT ![p] = u] /\ recv' = [recv EXCEPT ![p] = @ \o v]
      /\ circ' = circ /\ inputs' = inputs /\ deal' = deal /\ tape' = tape
      /\ level' = level /\ wires' = wires /\ mine' = mine /\ outvals' = outvals
  <2>1. Len(ch) >= s
    BY DEF RecvSegment
  <2>2. s \in Nat /\ Len(ch) \in Nat
    BY SegmentFacts, InvAt DEF RecvSegment
  <2> HIDE DEF s
  <2>3. s <= Len(ch)
    BY <2>1, <2>2
  <2>. QED  BY <2>3 DEF RecvSegment, fixed, s
<1>2. /\ s \in Nat /\ r \in Nat /\ Total_comm(p) = LevelLen(circ.levels[l])
      /\ r + s <= Total_comm(p) /\ IsVec(recv[p])
  BY <1>1, SegmentFacts, InvAt
<1>3. /\ l \in 1 .. EndStage(circ) /\ \A j \in 1 .. r : recv[p][j] = th[l][j]
      /\ Len(th[l]) = LevelLen(circ.levels[l])
  BY <1>1, OpensStream
<1>4. /\ DOMAIN pc = Online /\ chan = [x \in Online |-> chan[x]] /\ IsVec(ch) /\ Len(ch) \in Nat
      /\ q \in Online /\ q # p /\ Before(circ, l) \in Nat /\ circ \in Circuits
      /\ DOMAIN recv = Online
  BY InvAt
<1>5. /\ Holds(circ, deal, Lock, th, p, pc[p], level[p], wires[p], mine[p], recv[p], outvals[p])
      /\ DOMAIN wires = Online /\ DOMAIN outvals = Online
      /\ Carries(circ, th, n, ch) /\ Carries(circ, From(p), ReadBy(q), chan[q])
      /\ Flows(circ, th)
  BY ContentAt
<1>6. n = Before(circ, l) + r /\ n \in Nat
  <2>1. n = Before(circ, l) + r
    BY <1>1 DEF ReadBy, Read
  <2>. QED  BY <2>1, <1>2, <1>4
<1> DEFINE x == s
<1> HIDE DEF x
<1>7. x = s /\ x \in Nat /\ x <= Len(ch) /\ 0 + x <= Len(ch) /\ r + x <= Len(th[l])
      /\ 0 + x = x /\ 0 + 1 = 1
  BY <1>1, <1>2, <1>3, <1>4 DEF x
<1>8. /\ IsVec(v) /\ Len(v) = x /\ \A i \in 1 .. x : v[i] = ch[i]
  <2>1. /\ IsVec(SubSeq(ch, 0 + 1, 0 + x)) /\ Len(SubSeq(ch, 0 + 1, 0 + x)) = x
    BY <1>4, <1>7, VecPart
  <2>2. \A i \in 1 .. x : SubSeq(ch, 0 + 1, 0 + x)[i] = ch[0 + i]
    BY <1>4, <1>7, PartAt
  <2>3. \A i \in 1 .. x : 0 + i = i
    OBVIOUS
  <2>. QED  BY <1>7, <2>1, <2>2, <2>3
<1>9. u = SubSeq(ch, x + 1, Len(ch))
  BY <1>7
<1> HIDE DEF s, u, v, th, n, ch, l, r, ph, q
<1>10. Carries(circ, th, n + x, SubSeq(ch, x + 1, Len(ch)))
  BY <1>4, <1>5, <1>6, <1>7, CarriesLess
<1>11. \A i \in 1 .. x : ch[i] = th[l][r + i]
  BY SMTT(30), <1>2, <1>3, <1>4, <1>5, <1>6, <1>7, CarriesNext
<1>12. /\ pc'[p] = ph /\ recv'[p] = recv[p] \o v /\ chan'[p] = u /\ chan'[q] = chan[q]
       /\ OnlyAt(p, pc, pc') /\ OnlyAt(p, recv, recv')
  BY <1>1, <1>4 DEF OnlyAt
<1>13. Len(recv'[p]) = r + x /\ \A j \in 1 .. (r + x) : recv'[p][j] = th[l][j]
  <2> DEFINE a == recv[p]
             b == a \o v
  <2>1. IsJoin(b, a, v) /\ Len(a) = r
    BY <1>2, <1>8, VecJoinAt DEF r
  <2> HIDE DEF b
  <2>2. Len(b) = r + x
    BY <1>8, <2>1 DEF IsJoin
  <2>3. ASSUME NEW j \in 1 .. (r + x) PROVE b[j] = th[l][j]
    <3>1. CASE j \in 1 .. r
      BY <3>1, <2>1, <1>3 DEF IsJoin
    <3>2. CASE j \notin 1 .. r
      <4> DEFINE i == j - r
      <4>1. i \in 1 .. x /\ j = r + i
        BY <1>2, <1>7, <3>2
      <4> HIDE DEF i
      <4>2. b[r + i] = v[i] /\ v[i] = ch[i] /\ ch[i] = th[l][r + i]
        BY <1>8, <1>11, <2>1, <4>1 DEF IsJoin
      <4>. QED  BY <4>1, <4>2
    <3>. QED  BY <3>1, <3>2
  <2>. QED  BY <1>12, <2>2, <2>3 DEF b
<1>14. Holds(circ, deal, Lock, th, p,
             pc'[p], level'[p], wires'[p], mine'[p], recv'[p], outvals'[p])
  <2>1. ph \in {"finish", "send"}
    BY DEF ph
  <2>2. Holds(circ, deal, Lock, th, p, "recv", l, wires[p], mine[p], recv[p], outvals[p])
    BY <1>1, <1>5 DEF l
  <2>. QED  BY <1>1, <1>12, <1>13, <2>1, <2>2 DEF Holds, l
<1>15. Read(circ, pc'[p], level'[p], Len(recv'[p])) = n + x
  <2>1. ph \in {"finish", "send"}
    BY DEF ph
  <2>2. Read(circ, pc'[p], level'[p], Len(recv'[p])) = Before(circ, l) + (r + x)
    BY <1>1, <1>12, <1>13, <2>1 DEF Read, l
  <2>. QED  BY <1>2, <1>4, <1>6, <1>7, <2>2
<1>16. /\ OnlyAt(p, level, level') /\ OnlyAt(p, wires, wires') /\ OnlyAt(p, outvals, outvals')
       /\ OnlyAt(p, mine, mine') /\ DOMAIN wires' = Online /\ DOMAIN outvals' = Online
  BY <1>1, <1>5 DEF OnlyAt
<1>17. Carries(circ, th, Read(circ, pc'[p], level'[p], Len(recv'[p])), chan'[p])
  BY <1>9, <1>10, <1>12, <1>15
<1>18. Carries(circ, From(p), ReadBy(Other(p)), chan'[Other(p)])
  BY <1>5, <1>12 DEF q
<1>. QED  BY <1>1, <1>12, <1>14, <1>16, <1>17, <1>18, ContentMoves DEF th, q

LEMMA LockAt ==
  ASSUME Len(circ.levels) \in Nat, NEW j \in 1 .. Len(circ.levels), NEW r \in Online
  PROVE  Lock[j][r] = Walked(circ, deal, r, j, Lock[j - 1])[Len(circ.levels[j])]
<1> DEFINE n == Len(circ.levels)
           f == Lockstep(circ, inputs, deal, tape)
<1>1. /\ f[0] = [p \in Online |-> FirstShare(circ, inputs, tape, p)]
      /\ \A l \in 1 .. n : f[l] = [p \in Online |-> Walked(circ, deal, p, l, f[l - 1])[Len(circ.levels[l])]]
  BY LockstepNext
<1> HIDE DEF f
<1>2. f[j] = [p \in Online |-> Walked(circ, deal, p, j, f[j - 1])[Len(circ.levels[j])]]
  BY <1>1
<1>3. f[j][r] = Walked(circ, deal, r, j, f[j - 1])[Len(circ.levels[j])]
  BY <1>2
<1>. QED  BY <1>3 DEF f, Lock

LEMMA FinishLevelKeepsContent ==
  ASSUME ExchangeInv, ContentInv, NEW p \in Online, FinishLevel(p) PROVE ContentInv'
<1> DEFINE q == Other(p)
           l == level[p]
           ws == Lock[l - 1]
<1>1. /\ pc[p] = "finish" /\ pc' = [pc EXCEPT ![p] = "begin"]
      /\ wires' = [wires EXCEPT ![p] = NewWires(p, Combined(p))]
      /\ level' = [level EXCEPT ![p] = l + 1]
      /\ circ' = circ /\ inputs' = inputs /\ deal' = deal /\ tape' = tape
      /\ mine' = mine /\ recv' = recv /\ chan' = chan /\ outvals' = outvals
  BY DEF FinishLevel, fixed
<1>2. /\ circ \in Circuits /\ inputs \in InputsOf(circ) /\ deal \in DealsOf(circ)
      /\ tape \in SharedTapes /\ DOMAIN wires = Online /\ DOMAIN outvals = Online
      /\ Holds(circ, deal, Lock, From(Other(p)), p,
               pc[p], level[p], wires[p], mine[p], recv[p], outvals[p])
  BY ContentAt
<1>3. /\ l \in 1 .. Len(circ.levels) /\ AllOpened(mine[p]) = From(p)[l]
      /\ \A j \in 1 .. Len(recv[p]) : recv[p][j] = From(q)[l][j]
  BY <1>1, OpensStream
<1>4. /\ DOMAIN pc = Online /\ DOMAIN level = Online /\ Len(circ.levels) \in Nat /\ q \in Online
      /\ Len(recv[p]) = LevelLen(circ.levels[l]) /\ EndStage(circ) = Len(circ.levels) + 1
  BY <1>1, InvAt DEF InLevel
<1>5. wires[p] = ws[p] /\ mine[p] = WordsIn(circ, deal, p, l, ws[p])
  BY <1>1, <1>2 DEF Holds
<1>6. WordsOn(circ, ws[1]) /\ WordsOn(circ, ws[2])
  <2> DEFINE j == l - 1
  <2>1. j \in 0 .. Len(circ.levels) /\ 1 \in Online /\ 2 \in Online
    BY <1>3, <1>4 DEF Online
  <2> HIDE DEF j
  <2>2. \A r \in Online : WordsOn(circ, Lock[j][r])
    BY <1>2, <2>1, LockstepWords DEF Lock
  <2>. QED  BY <2>1, <2>2 DEF j
<1>7. AllOpened(WordsIn(circ, deal, q, l, ws[q])) = From(q)[l]
  <2>1. l \in 1 .. EndStage(circ) /\ l <= Len(circ.levels)
    BY <1>3, <1>4
  <2>. QED  BY <2>1 DEF From, Streams, Stream
<1>8. HasAll(p, ws)
  <2> HIDE DEF ws
  <2>. QED  BY <1>2, <1>3, <1>4, <1>5, <1>6, <1>7 DEF HasAll
<1>9. NewWires(p, Combined(p)) = Walked(circ, deal, p, l, ws)[Len(circ.levels[l])]
  <2> HIDE DEF ws
  <2>. QED  BY <1>8, LevelFinished
<1>10. Lock[l][p] = Walked(circ, deal, p, l, ws)[Len(circ.levels[l])]
  <2>1. l \in 1 .. Len(circ.levels) /\ Len(circ.levels) \in Nat
    BY <1>3, <1>4
  <2> HIDE DEF l
  <2>2. Lock[l][p] = Walked(circ, deal, p, l, Lock[l - 1])[Len(circ.levels[l])]
    BY <2>1, LockAt
  <2>. QED  BY <2>2
<1> HIDE DEF ws
<1>11. /\ pc'[p] = "begin" /\ wires'[p] = Lock[l][p] /\ level'[p] = l + 1
       /\ OnlyAt(p, pc, pc') /\ OnlyAt(p, wires, wires') /\ OnlyAt(p, level, level')
       /\ DOMAIN wires' = Online
  BY <1>1, <1>2, <1>4, <1>9, <1>10 DEF OnlyAt
<1>12. outvals[p] = <<>>
  BY <1>1, <1>2 DEF Holds
<1>13. Holds(circ, deal, Lock, From(Other(p)), p,
             pc'[p], level'[p], wires'[p], mine'[p], recv'[p], outvals'[p])
  <2>1. (l + 1) - 1 = l
    BY <1>3
  <2>2. wires'[p] = Lock[level'[p] - 1][p]
    BY <1>11, <2>1
  <2>. QED  BY <1>1, <1>11, <1>12, <2>2 DEF Holds
<1>14. Read(circ, pc'[p], level'[p], Len(recv'[p])) = ReadBy(p)
  <2>1. ReadBy(p) = Before(circ, l) + LevelLen(circ.levels[l])
    BY <1>1, <1>4 DEF ReadBy, Read
  <2>2. Read(circ, pc'[p], level'[p], Len(recv'[p])) = Before(circ, l + 1) + 0
    BY <1>11 DEF Read
  <2> DEFINE j == l + 1
  <2>3. Before(circ, j) = Before(circ, l) + LevelLen(circ.levels[l])
    BY <1>2, <1>3, BeforeFacts
  <2>4. j \in 1 .. EndStage(circ)
    BY <1>3, <1>4
  <2> HIDE DEF j
  <2>5. Before(circ, j) \in Nat
    BY <1>2, <2>4, BeforeFacts
  <2>. QED  BY <2>1, <2>2, <2>3, <2>5 DEF j
<1>15. /\ Carries(circ, From(Other(p)), ReadBy(p), chan'[p])
       /\ Carries(circ, From(p), ReadBy(Other(p)), chan'[Other(p)])
  BY <1>1, ContentAt
<1>16. /\ OnlyAt(p, mine, mine') /\ OnlyAt(p, recv, recv') /\ OnlyAt(p, outvals, outvals')
       /\ DOMAIN outvals' = Online
  BY <1>1, <1>2 DEF OnlyAt
<1>. QED  BY <1>1, <1>11, <1>13, <1>14, <1>15, <1>16, ContentMoves

LEMMA NoOutputsKeepsContent ==
  ASSUME ExchangeInv, ContentInv, NEW p \in Online, NoOutputs(p) PROVE ContentInv'
<1> DEFINE l == level[p]
<1>1. /\ pc[p] = "begin" /\ circ.outputs = <<>> /\ pc' = [pc EXCEPT ![p] = "done"]
      /\ circ' = circ /\ inputs' = inputs /\ deal' = deal /\ tape' = tape
      /\ level' = level /\ wires' = wires /\ mine' = mine /\ recv' = recv
      /\ chan' = chan /\ outvals' = outvals
  BY DEF NoOutputs, AfterLevels, fixed
<1>2. /\ DOMAIN wires = Online /\ DOMAIN outvals = Online
      /\ Holds(circ, deal, Lock, From(Other(p)), p,
               pc[p], level[p], wires[p], mine[p], recv[p], outvals[p])
  BY ContentAt
<1>3. DOMAIN pc = Online /\ Before(circ, l) \in Nat
  BY InvAt
<1>4. pc'[p] = "done" /\ OnlyAt(p, pc, pc')
  BY <1>1, <1>3 DEF OnlyAt
<1>5. Outcome(circ, Lock[l - 1], p) = <<>>
  <2>1. DOMAIN circ.outputs = {}
    BY <1>1
  <2>. QED  BY <2>1 DEF Outcome
<1>6. Holds(circ, deal, Lock, From(Other(p)), p,
            pc'[p], level'[p], wires'[p], mine'[p], recv'[p], outvals'[p])
  BY <1>1, <1>2, <1>4, <1>5 DEF Holds
<1>7. Read(circ, pc'[p], level'[p], Len(recv'[p])) = ReadBy(p)
  <2>1. Len(circ.outputs) = 0
    BY <1>1
  <2>. QED  BY <1>1, <1>4, <2>1 DEF Read, ReadBy
<1>8. /\ Carries(circ, From(Other(p)), ReadBy(p), chan'[p])
      /\ Carries(circ, From(p), ReadBy(Other(p)), chan'[Other(p)])
  BY <1>1, ContentAt
<1>9. /\ OnlyAt(p, level, level') /\ OnlyAt(p, wires, wires') /\ OnlyAt(p, outvals, outvals')
      /\ OnlyAt(p, mine, mine') /\ OnlyAt(p, recv, recv')
      /\ DOMAIN wires' = Online /\ DOMAIN outvals' = Online
  BY <1>1, <1>2 DEF OnlyAt
<1>. QED  BY <1>1, <1>4, <1>6, <1>7, <1>8, <1>9, ContentMoves

(* After the levels a party's stream is its shares of the outputs.         *)
LEMMA LastStream ==
  ASSUME ExchangeInv, ContentInv, NEW p \in Online, level[p] > Len(circ.levels)
  PROVE  /\ level[p] = EndStage(circ) /\ EndStage(circ) \in 1 .. EndStage(circ)
         /\ \A r : From(r)[level[p]] = On(Lock[level[p] - 1][r], circ.outputs)
         /\ \A r : /\ IsVec(From(r)[level[p]]) /\ Len(From(r)[level[p]]) = Len(circ.outputs)
                   /\ \A i \in 1 .. Len(circ.outputs) :
                        From(r)[level[p]][i] = Lock[level[p] - 1][r][circ.outputs[i]]
<1>1. /\ Len(circ.levels) \in Nat /\ level[p] \in 1 .. (Len(circ.levels) + 1)
      /\ EndStage(circ) = Len(circ.levels) + 1 /\ circ \in Circuits
  BY InvAt
<1>2. level[p] = EndStage(circ) /\ EndStage(circ) \in 1 .. EndStage(circ)
  BY <1>1
<1>3. ~ EndStage(circ) <= Len(circ.levels)
  BY <1>1
<1>4. \A r : From(r)[level[p]] = On(Lock[level[p] - 1][r], circ.outputs)
  BY <1>2, <1>3 DEF From, Streams, Stream
<1> DEFINE o == circ.outputs
<1>5. o \in Seq(Nat)
  BY <1>1, CircuitAssumption
<1> HIDE DEF o
<1>6. ASSUME NEW w PROVE /\ IsVec(On(w, o)) /\ Len(On(w, o)) = Len(o)
                         /\ \A i \in 1 .. Len(o) : On(w, o)[i] = w[o[i]]
  BY <1>5, OnLen
<1>. QED  BY <1>2, <1>4, <1>6 DEF o

LEMMA SendOutputsKeepsContent ==
  ASSUME ExchangeInv, ContentInv, NEW p \in Online, SendOutputs(p) PROVE ContentInv'
<1> DEFINE q == Other(p)
           l == level[p]
           v == On(wires[p], circ.outputs)
           n == ReadBy(q)
           ch == chan[q]
           th == From(p)
<1>1. /\ pc[p] = "begin" /\ l > Len(circ.levels) /\ pc' = [pc EXCEPT ![p] = "outputs"]
      /\ chan' = [chan EXCEPT ![q] = @ \o v]
      /\ circ' = circ /\ inputs' = inputs /\ deal' = deal /\ tape' = tape
      /\ level' = level /\ wires' = wires /\ mine' = mine /\ recv' = recv /\ outvals' = outvals
  BY DEF SendOutputs, AfterLevels, fixed
<1>2. /\ DOMAIN wires = Online /\ DOMAIN outvals = Online
      /\ Holds(circ, deal, Lock, From(Other(p)), p,
               pc[p], level[p], wires[p], mine[p], recv[p], outvals[p])
      /\ Carries(circ, From(Other(p)), ReadBy(p), chan[p])
      /\ Carries(circ, th, n, ch) /\ Flows(circ, th)
  BY ContentAt
<1>3. wires[p] = Lock[l - 1][p]
  BY <1>1, <1>2 DEF Holds
<1>4. l \in 1 .. EndStage(circ) /\ v = th[l] /\ IsVec(v)
  BY <1>1, <1>3, LastStream
<1>5. /\ DOMAIN pc = Online /\ chan = [x \in Online |-> chan[x]] /\ IsVec(ch)
      /\ q \in Online /\ q # p /\ Other(q) = p /\ Before(circ, l) \in Nat /\ circ \in Circuits
  BY InvAt, Others
<1>6. n \in Nat /\ n + Len(ch) = Before(circ, l) + 0
  <2>1. n \in Nat /\ Len(ch) \in Nat /\ Len(ch) = SentBy(Other(q)) - n /\ SentBy(p) \in Nat
    BY <1>5, Counts
  <2>2. SentBy(p) = Before(circ, l) + 0
    BY <1>1 DEF SentBy, Sent
  <2>. QED  BY <1>5, <2>1, <2>2
<1>7. /\ 0 + Len(v) <= Len(th[l]) /\ 0 \in Nat
      /\ \A i \in 1 .. Len(v) : v[i] = th[l][0 + i]
  <2>1. Len(v) \in Nat
    BY <1>4, VecLen
  <2> HIDE DEF v
  <2>2. 0 + Len(v) <= Len(th[l])
    BY <1>4, <2>1
  <2>3. \A i \in 1 .. Len(v) : 0 + i = i
    BY <2>1
  <2>. QED  BY <1>4, <2>2, <2>3
<1> HIDE DEF q, l, v, n, ch, th
<1>8. Carries(circ, th, n, ch \o v)
  <2> DEFINE r == 0
  <2>1. /\ r + Len(v) <= Len(th[l]) /\ r \in Nat /\ n + Len(ch) = Before(circ, l) + r
        /\ \A i \in 1 .. Len(v) : v[i] = th[l][r + i]
    BY <1>6, <1>7
  <2> HIDE DEF r
  <2>. QED  BY <1>2, <1>4, <1>5, <1>6, <2>1, CarriesMore
<1>9. chan'[p] = chan[p] /\ chan'[q] = ch \o v
  BY <1>1, <1>5 DEF ch
<1>10. pc'[p] = "outputs" /\ OnlyAt(p, pc, pc')
  BY <1>1, <1>5 DEF OnlyAt
<1>11. Holds(circ, deal, Lock, From(Other(p)), p,
             pc'[p], level'[p], wires'[p], mine'[p], recv'[p], outvals'[p])
  BY <1>1, <1>2, <1>10 DEF Holds
<1>12. Read(circ, pc'[p], level'[p], Len(recv'[p])) = ReadBy(p)
  BY <1>1, <1>10 DEF Read, ReadBy
<1>13. /\ OnlyAt(p, level, level') /\ OnlyAt(p, wires, wires') /\ OnlyAt(p, outvals, outvals')
       /\ OnlyAt(p, mine, mine') /\ OnlyAt(p, recv, recv')
       /\ DOMAIN wires' = Online /\ DOMAIN outvals' = Online
  BY <1>1, <1>2 DEF OnlyAt
<1>14. Carries(circ, From(p), ReadBy(Other(p)), chan'[Other(p)])
  BY <1>8, <1>9 DEF q, n, th
<1>. QED  BY <1>1, <1>2, <1>9, <1>10, <1>11, <1>12, <1>13, <1>14, ContentMoves

LEMMA RecvOutputsKeepsContent ==
  ASSUME ExchangeInv, ContentInv, NEW p \in Online, RecvOutputs(p) PROVE ContentInv'
<1> DEFINE q == Other(p)
           l == level[p]
           k == Len(circ.outputs)
           n == ReadBy(p)
           ch == chan[p]
           th == From(q)
           ov == [i \in DOMAIN circ.outputs |->
                    IF circ.bin[i] THEN XorW(wires[p][circ.outputs[i]], ch[i])
                                   ELSE Plus(wires[p][circ.outputs[i]], ch[i])]
           u == SubSeq(ch, k + 1, Len(ch))
<1>1. /\ pc[p] = "outputs" /\ pc' = [pc EXCEPT ![p] = "done"]
      /\ outvals' = [outvals EXCEPT ![p] = ov]
      /\ chan' = [chan EXCEPT ![p] = u]
      /\ circ' = circ /\ inputs' = inputs /\ deal' = deal /\ tape' = tape
      /\ level' = level /\ wires' = wires /\ mine' = mine /\ recv' = recv
  BY DEF RecvOutputs, fixed
<1>2. /\ DOMAIN wires = Online /\ DOMAIN outvals = Online
      /\ Holds(circ, deal, Lock, th, p, pc[p], level[p], wires[p], mine[p], recv[p], outvals[p])
      /\ Carries(circ, th, n, ch) /\ Carries(circ, From(p), ReadBy(q), chan[q])
      /\ Flows(circ, th) /\ circ \in Circuits
  BY ContentAt
<1>3. /\ DOMAIN pc = Online /\ chan = [x \in Online |-> chan[x]] /\ IsVec(ch) /\ Len(ch) \in Nat
      /\ q \in Online /\ q # p /\ Before(circ, l) \in Nat /\ k \in Nat
      /\ Len(circ.levels) \in Nat /\ EndStage(circ) = Len(circ.levels) + 1
  BY InvAt
<1>4. l = EndStage(circ) /\ l > Len(circ.levels) /\ k <= Len(ch)
  <2>1. l = EndStage(circ)
    BY <1>1, InvAt DEF InLevel
  <2>2. Len(ch) >= k
    BY DEF RecvOutputs
  <2> HIDE DEF l, k, ch
  <2>. QED  BY <1>3, <2>1, <2>2
<1>5. /\ l \in 1 .. EndStage(circ) /\ Len(th[l]) = k
      /\ \A i \in 1 .. k : th[l][i] = Lock[l - 1][q][circ.outputs[i]]
  BY SMTT(30), <1>4, LastStream
<1>6. n = Before(circ, l) + 0 /\ n \in Nat
  <2>1. n = Before(circ, l) + 0
    BY <1>1 DEF ReadBy, Read
  <2>. QED  BY <1>3, <2>1
<1>7. \A i \in 1 .. k : ch[i] = th[l][i]
  <2> DEFINE r == 0
  <2>1. /\ r + k <= Len(th[l]) /\ r \in Nat /\ n = Before(circ, l) + r
        /\ \A i \in 1 .. k : r + i = i
    BY <1>3, <1>5, <1>6
  <2> HIDE DEF r, q, l, k, n, ch, th
  <2>2. \A i \in 1 .. k : ch[i] = th[l][r + i]
    <3>1. /\ circ \in Circuits /\ Flows(circ, th) /\ n \in Nat /\ IsVec(ch) /\ Carries(circ, th, n, ch)
          /\ l \in 1 .. EndStage(circ) /\ k \in Nat /\ k <= Len(ch)
      BY <1>2, <1>3, <1>4, <1>5, <1>6
    <3>. QED  BY ONLY <2>1, <3>1, CarriesNext
  <2>. QED  BY <2>1, <2>2
<1>8. wires[p] = Lock[l - 1][p]
  BY <1>1, <1>2 DEF Holds
<1>9. ov = Outcome(circ, Lock[l - 1], p)
  <2>1. DOMAIN circ.outputs = 1 .. k
    <3>1. circ.outputs \in Seq(Nat)
      BY <1>2, CircuitAssumption
    <3>. QED  BY <3>1
  <2>2. \A i \in DOMAIN circ.outputs : ch[i] = Lock[l - 1][q][circ.outputs[i]]
    BY <1>5, <1>7, <2>1
  <2> DEFINE ws == Lock[l - 1]
  <2>3. Outcome(circ, ws, p) =
          [i \in DOMAIN circ.outputs |->
             IF circ.bin[i] THEN XorW(ws[p][circ.outputs[i]], ws[q][circ.outputs[i]])
                            ELSE Plus(ws[p][circ.outputs[i]], ws[q][circ.outputs[i]])]
    BY DEF Outcome
  <2> HIDE DEF ws, ch, q, l, k
  <2>. QED  BY <1>8, <2>2, <2>3 DEF ws
<1> HIDE DEF q, l, k, n, ch, th, ov, u
<1>10. Carries(circ, th, n + k, SubSeq(ch, k + 1, Len(ch)))
  BY <1>2, <1>3, <1>4, <1>6, CarriesLess
<1>11. /\ pc'[p] = "done" /\ outvals'[p] = ov /\ chan'[p] = u /\ chan'[q] = chan[q]
       /\ OnlyAt(p, pc, pc') /\ OnlyAt(p, outvals, outvals') /\ DOMAIN outvals' = Online
  BY <1>1, <1>2, <1>3 DEF OnlyAt
<1>12. Holds(circ, deal, Lock, th, p,
             pc'[p], level'[p], wires'[p], mine'[p], recv'[p], outvals'[p])
  BY <1>1, <1>2, <1>9, <1>11 DEF Holds, l
<1>13. Read(circ, pc'[p], level'[p], Len(recv'[p])) = n + k
  <2>1. Read(circ, pc'[p], level'[p], Len(recv'[p])) = Before(circ, l) + k
    BY <1>1, <1>11 DEF Read, l, k
  <2>. QED  BY <1>3, <1>6, <2>1
<1>14. /\ OnlyAt(p, level, level') /\ OnlyAt(p, wires, wires') /\ OnlyAt(p, recv, recv')
       /\ OnlyAt(p, mine, mine') /\ DOMAIN wires' = Online
  BY <1>1, <1>2 DEF OnlyAt
<1>15. Carries(circ, th, Read(circ, pc'[p], level'[p], Len(recv'[p])), chan'[p])
  BY <1>10, <1>11, <1>13 DEF u
<1>16. Carries(circ, From(p), ReadBy(Other(p)), chan'[Other(p)])
  BY <1>2, <1>11 DEF q
<1>. QED  BY <1>1, <1>11, <1>12, <1>14, <1>15, <1>16, ContentMoves DEF th, q

LEMMA ContentStarts == Init => ContentInv
<1> SUFFICES ASSUME Init PROVE ContentInv
  OBVIOUS
<1>1. /\ circ \in Circuits /\ inputs \in InputsOf(circ) /\ deal \in DealsOf(circ) /\ tape \in SharedTapes
      /\ pc = [p \in Online |-> "inputs"] /\ level = [p \in Online |-> 1]
      /\ wires = [p \in Online |-> [w \in Wires(circ) |-> 0]]
      /\ mine = [p \in Online |-> NoWords] /\ recv = [p \in Online |-> <<>>]
      /\ chan = [p \in Online |-> <<>>] /\ outvals = [p \in Online |-> <<>>]
  BY DEF Init
<1>2. ASSUME NEW p \in Online
      PROVE  /\ Holds(circ, deal, Lock, From(Other(p)), p,
                      pc[p], level[p], wires[p], mine[p], recv[p], outvals[p])
             /\ Carries(circ, From(Other(p)), ReadBy(p), chan[p])
  <2>1. /\ pc[p] = "inputs" /\ level[p] = 1 /\ wires[p] = [w \in Wires(circ) |-> 0]
        /\ recv[p] = <<>> /\ chan[p] = <<>> /\ outvals[p] = <<>>
    BY <1>1
  <2>2. Len(chan[p]) = 0
    BY <2>1, VecEmpty
  <2>3. 1 .. Len(chan[p]) = {}
    BY <2>2
  <2>. QED  BY <2>1, <2>3 DEF Holds, Carries
<1>. QED  BY <1>1, <1>2 DEF ContentInv

LEMMA ContentKept == ExchangeInv /\ ContentInv /\ [Next]_vars => ContentInv'
<1> SUFFICES ASSUME ExchangeInv, ContentInv, [Next]_vars PROVE ContentInv'
  OBVIOUS
<1>1. CASE UNCHANGED vars
  <2>1. /\ circ' = circ /\ inputs' = inputs /\ deal' = deal /\ tape' = tape /\ pc' = pc
        /\ level' = level /\ wires' = wires /\ mine' = mine /\ recv' = recv /\ chan' = chan
        /\ outvals' = outvals
    BY <1>1 DEF vars
  <2>2. Lock' = Lock /\ (\A p : From(p)' = From(p)) /\ (\A p : ReadBy(p)' = ReadBy(p))
    BY <2>1 DEF Lock, From, ReadBy
  <2>. QED  BY <2>1, <2>2 DEF ContentInv
<1>2. ASSUME NEW p \in Online, Step(p) PROVE ContentInv'
  <2>1. CASE SetInputs(p)
    BY <2>1, SetInputsKeepsContent
  <2>2. CASE BeginLevel(p)
    BY <2>2, BeginLevelKeepsContent
  <2>3. CASE SendSegment(p)
    BY <2>3, SendSegmentKeepsContent
  <2>4. CASE RecvSegment(p)
    BY <2>4, RecvSegmentKeepsContent
  <2>5. CASE FinishLevel(p)
    BY <2>5, FinishLevelKeepsContent
  <2>6. CASE NoOutputs(p)
    BY <2>6, NoOutputsKeepsContent
  <2>7. CASE SendOutputs(p)
    BY <2>7, SendOutputsKeepsContent
  <2>8. CASE RecvOutputs(p)
    BY <2>8, RecvOutputsKeepsContent
  <2>. QED  BY <1>2, <2>1, <2>2, <2>3, <2>4, <2>5, <2>6, <2>7, <2>8 DEF Step
<1>. QED  BY <1>1, <1>2 DEF Next

(* Whatever the schedule and the segments, a party between levels holds the *)
(* shares that evaluating the circuit in lockstep gives it, the words it    *)
(* has received are the ones its peer opens in that level, and what it      *)
(* outputs is what the last shares open to.                                 *)
THEOREM ContentHolds == Spec => [](ExchangeInv /\ ContentInv)
<1>1. Init => ExchangeInv /\ ContentInv
  BY ExchangeStarts, ContentStarts
<1>2. (ExchangeInv /\ ContentInv) /\ [Next]_vars => (ExchangeInv /\ ContentInv)'
  BY ExchangeKept, ContentKept
<1>. QED  BY <1>1, <1>2, PTL DEF Spec

-----------------------------------------------------------------------------
(***************************************************************************)
(* Every step of the exchange is a step of the evaluation in the clear, or *)
(* none.                                                                   *)
(***************************************************************************)
(* Wires and the stage in which they get their value.                      *)
LEMMA Produced ==
  ASSUME NEW c \in Circuits, NEW w \in Wires(c)
  PROVE  \E l \in 1 .. Len(c.levels) : \E k \in 1 .. Len(c.levels[l]) : Writes(c.levels[l][k], w)
<1>1. OneProducer(c.levels, c.wires) /\ c.levels \in Seq(Seq(Gate))
  BY CircuitAssumption
<1>2. PICK l \in DOMAIN c.levels : \E k \in DOMAIN c.levels[l] : Writes(c.levels[l][k], w)
  BY <1>1 DEF OneProducer, Wires
<1>3. l \in 1 .. Len(c.levels) /\ c.levels[l] \in Seq(Gate)
  BY <1>1
<1>4. DOMAIN c.levels[l] = 1 .. Len(c.levels[l])
  BY <1>3
<1>. QED  BY <1>2, <1>3, <1>4

LEMMA BornIs ==
  ASSUME NEW c \in Circuits, NEW w \in Wires(c),
         NEW a \in 1 .. Len(c.levels), NEW b \in 1 .. Len(c.levels[a]), Writes(c.levels[a][b], w)
  PROVE  /\ c.born[w] = IF c.levels[a][b].type \in InputGate THEN 1 ELSE 1 + a
         /\ c.sort[w] = Sort(Producer(c, w))
<1>1. Described(c)
  BY CircuitAssumption
<1>2. c.born[w] = Born(c, w) /\ c.sort[w] = Sort(Producer(c, w))
  BY <1>1 DEF Described
<1>3. LevelOf(c, w) = a /\ Producer(c, w) = c.levels[a][b]
  BY ProducerIs
<1>. QED  BY <1>2, <1>3 DEF Born

LEMMA BornReady ==
  ASSUME NEW c \in Circuits, NEW w \in Wires(c), NEW l \in 1 .. EndStage(c)
  PROVE  /\ Ready(c, l, 0, w) <=> c.born[w] <= l
         /\ c.born[w] \in 1 .. EndStage(c) /\ c.sort[w] = Sort(Producer(c, w))
<1>1. PICK a \in 1 .. Len(c.levels) : \E k \in 1 .. Len(c.levels[a]) : Writes(c.levels[a][k], w)
  BY Produced
<1>2. PICK b \in 1 .. Len(c.levels[a]) : Writes(c.levels[a][b], w)
  BY <1>1
<1>3. /\ c.born[w] = IF c.levels[a][b].type \in InputGate THEN 1 ELSE 1 + a
      /\ c.sort[w] = Sort(Producer(c, w))
  BY <1>2, BornIs
<1>4. Len(c.levels) \in Nat /\ EndStage(c) = Len(c.levels) + 1 /\ a \in Nat /\ l \in Nat
  BY BeforeFacts
<1>5. c.levels[a][b].type \in InputGate => a = 1
  BY GateAt
<1>6. ASSUME c.born[w] <= l PROVE Ready(c, l, 0, w)
  <2>1. CASE c.levels[a][b].type \in InputGate
    BY <1>2, <1>5, <2>1 DEF Ready
  <2>2. CASE c.levels[a][b].type \notin InputGate
    <3>1. a \in 1 .. (l - 1)
      BY <1>3, <1>4, <1>6, <2>2
    <3>. QED  BY <1>2, <3>1 DEF Ready
  <2>. QED  BY <2>1, <2>2
<1>7. ASSUME Ready(c, l, 0, w) PROVE c.born[w] <= l
  <2>1. CASE \E j \in 1 .. Len(c.levels[1]) : c.levels[1][j].type \in InputGate /\ Writes(c.levels[1][j], w)
    <3> DEFINE i == 1
    <3>1. PICK j \in 1 .. Len(c.levels[i]) : c.levels[i][j].type \in InputGate /\ Writes(c.levels[i][j], w)
      BY <2>1
    <3>2. i \in 1 .. Len(c.levels)
      BY <1>4
    <3> HIDE DEF i
    <3>3. i = a /\ j = b
      BY <1>2, <3>1, <3>2, OneWriter
    <3>. QED  BY <1>3, <1>4, <3>1, <3>3
  <2>2. CASE \E i \in 1 .. (l - 1) : \E j \in 1 .. Len(c.levels[i]) : Writes(c.levels[i][j], w)
    <3>1. PICK i \in 1 .. (l - 1) : \E j \in 1 .. Len(c.levels[i]) : Writes(c.levels[i][j], w)
      BY <2>2
    <3>2. PICK j \in 1 .. Len(c.levels[i]) : Writes(c.levels[i][j], w)
      BY <3>1
    <3>3. i \in 1 .. Len(c.levels) /\ i + 1 <= l
      BY <1>4
    <3>4. i = a
      BY <1>2, <3>2, <3>3, OneWriter
    <3>. QED  BY <1>3, <1>4, <3>3, <3>4
  <2>3. 1 .. 0 = {}
    OBVIOUS
  <2>. QED  BY <1>7, <2>1, <2>2, <2>3 DEF Ready
<1>. QED  BY <1>3, <1>4, <1>6, <1>7

(* A wire has the value 0 before its stage.                                *)
LEMMA UnbornZero ==
  ASSUME NEW c \in Circuits, NEW in \in InputsOf(c), NEW pm, NEW l \in 0 .. Len(c.levels),
         NEW w \in Wires(c), ~ Ready(c, l + 1, 0, w)
  PROVE  Meaning(c, in, pm)[l][w] = 0
<1> DEFINE v == Meaning(c, in, pm)
<1>1. Runs(c, v) /\ v[0] = Given(c, in)
  BY MeaningRuns, MeaningNext, BeforeFacts
<1>2. DOMAIN in = InputWires(c)
  BY InputAssumption
<1>3. w \notin InputWires(c)
  <2> SUFFICES ASSUME w \in InputWires(c) PROVE FALSE
    OBVIOUS
  <2>1. PICK g \in GatesOf(c) : g.type \in InputGate /\ w \in Elems(g.outs)
    BY DEF InputWires
  <2>2. PICK i \in DOMAIN c.levels : \E k \in DOMAIN c.levels[i] : g = c.levels[i][k]
    BY DEF GatesOf
  <2>3. PICK k \in DOMAIN c.levels[i] : g = c.levels[i][k]
    BY <2>2
  <2>4. c.levels \in Seq(Seq(Gate))
    BY CircuitAssumption
  <2>5. i \in 1 .. Len(c.levels) /\ c.levels[i] \in Seq(Gate)
    BY <2>4
  <2>6. k \in 1 .. Len(c.levels[i])
    BY <2>3, <2>5
  <2>7. i = 1
    BY <2>1, <2>3, <2>5, <2>6, GateAt
  <2>. QED  BY <2>1, <2>3, <2>6, <2>7 DEF Ready, Writes
<1> HIDE DEF v
<1>4. v[l][w] = v[0][w]
  BY <1>1, RunSettles DEF Steady
<1>. QED  BY <1>1, <1>2, <1>3, <1>4 DEF Given, v
-----------------------------------------------------------------------------
(* What the parties hold, and what it opens to.                            *)
InClear == Meaning(circ, inputs, JointPerms(circ, deal))
RefineInv == ExchangeInv /\ ContentInv /\ NoConstAdd(circ)

LEMMA HeldReady ==
  ASSUME ExchangeInv, ContentInv, NEW p \in Online, pc[p] # "inputs",
         NEW m \in 1 .. level[p], NEW w \in Wires(circ), Ready(circ, m, 0, w)
  PROVE  wires[p][w] = Lock[m - 1][p][w]
<1> DEFINE n == Len(circ.levels)
           r == [l \in 0 .. n |-> Lock[l][p]]
           i == m - 1
           j == level[p] - 1
<1>1. /\ circ \in Circuits /\ wires[p] = Lock[level[p] - 1][p]
  BY ContentAt DEF Holds
<1>2. n \in Nat /\ level[p] \in 1 .. (n + 1)
  BY InvAt
<1>3. j \in 0 .. n /\ i \in 0 .. j /\ i + 1 = m
  BY <1>2
<1>4. Runs(circ, r)
  BY <1>1, LockstepRuns DEF Lock
<1>5. r[j] = Lock[j][p] /\ r[i] = Lock[i][p]
  BY <1>2, <1>3
<1>6. wires[p] = Lock[j][p]
  BY <1>1
<1> HIDE DEF r, i, j, n
<1>7. Steady(circ, r, j)
  BY <1>1, <1>3, <1>4, RunSettles DEF n
<1>8. Ready(circ, i + 1, 0, w)
  BY <1>3
<1>9. r[j][w] = r[i][w]
  BY <1>3, <1>7, <1>8 DEF Steady
<1>. QED  BY <1>5, <1>6, <1>9 DEF i

LEMMA LockOpens ==
  ASSUME RefineInv, NEW m \in 1 .. EndStage(circ), NEW w \in Wires(circ), Ready(circ, m, 0, w)
  PROVE  Opens(circ, Lock[m - 1][1], Lock[m - 1][2], InClear[m - 1], w)
<1> DEFINE i == m - 1
<1>1. /\ circ \in Circuits /\ inputs \in InputsOf(circ) /\ deal \in DealsOf(circ)
      /\ tape \in SharedTapes /\ NoConstAdd(circ)
  BY DEF RefineInv, ContentInv
<1>2. i \in 0 .. Len(circ.levels) /\ i + 1 = m
  BY <1>1, BeforeFacts
<1> HIDE DEF i
<1>3. \A l \in 0 .. Len(circ.levels) :
        OpenUpTo(circ, l + 1, 0, Lock[l][1], Lock[l][2], InClear[l])
  BY <1>1, LockstepOpens DEF Lock, InClear
<1>4. OpenUpTo(circ, m, 0, Lock[i][1], Lock[i][2], InClear[i])
  BY <1>2, <1>3
<1>. QED  BY <1>4 DEF OpenUpTo, i

LEMMA StagesAre ==
  ASSUME ExchangeInv
  PROVE  /\ BothStage \in 0 .. EndStage(circ)
         /\ \A p \in Online : BothStage <= StageOf(p)
         /\ \E p \in Online : BothStage = StageOf(p)
         /\ \A p \in Online : /\ StageOf(p) = IF pc[p] = "inputs" THEN 0 ELSE level[p]
                              /\ level[p] \in 1 .. EndStage(circ)
         /\ EndStage(circ) = Len(circ.levels) + 1 /\ Len(circ.levels) \in Nat
<1>1. ASSUME NEW p \in Online
      PROVE  level[p] \in 1 .. EndStage(circ) /\ Len(circ.levels) \in Nat /\ EndStage(circ) = Len(circ.levels) + 1
  BY InvAt
<1>2. 1 \in Online /\ 2 \in Online /\ \A p \in Online : p = 1 \/ p = 2
  BY DEF Online
<1>3. /\ level[1] \in 1 .. EndStage(circ) /\ level[2] \in 1 .. EndStage(circ)
      /\ Len(circ.levels) \in Nat /\ EndStage(circ) = Len(circ.levels) + 1
  BY <1>1, <1>2
<1>4. StageOf(1) \in 0 .. EndStage(circ) /\ StageOf(2) \in 0 .. EndStage(circ)
  BY <1>3 DEF StageOf
<1>5. BothStage \in 0 .. EndStage(circ) /\ BothStage <= StageOf(1) /\ BothStage <= StageOf(2)
      /\ (BothStage = StageOf(1) \/ BothStage = StageOf(2))
  BY <1>3, <1>4 DEF BothStage
<1>6. \A p \in Online : StageOf(p) = IF pc[p] = "inputs" THEN 0 ELSE level[p]
  BY DEF StageOf
<1>. QED  BY <1>1, <1>2, <1>3, <1>5, <1>6

(* When both have finished a level, what they hold opens to its values.    *)
ClearInv ==
  Openings = IF BothStage = 0 THEN [w \in Wires(circ) |-> 0] ELSE InClear[BothStage - 1]
LEMMA OpensClear == RefineInv => ClearInv
<1> SUFFICES ASSUME RefineInv PROVE ClearInv
  OBVIOUS
<1> DEFINE b == BothStage
           v == InClear[b - 1]
<1>1. /\ circ \in Circuits /\ inputs \in InputsOf(circ) /\ deal \in DealsOf(circ)
      /\ tape \in SharedTapes /\ ExchangeInv /\ ContentInv
  BY DEF RefineInv, ContentInv
<1>2. /\ b \in 0 .. EndStage(circ) /\ \A p \in Online : b <= StageOf(p)
      /\ \A p \in Online : StageOf(p) = IF pc[p] = "inputs" THEN 0 ELSE level[p]
      /\ \A p \in Online : level[p] \in 1 .. EndStage(circ)
      /\ EndStage(circ) = Len(circ.levels) + 1 /\ Len(circ.levels) \in Nat
  BY <1>1, StagesAre
<1>3. Openings = [w \in Wires(circ) |-> IF circ.born[w] <= b
                         THEN Opening(circ.sort[w], wires[1][w], wires[2][w]) ELSE 0]
  BY DEF Openings
<1> HIDE DEF b
<1>4. CASE b = 0
  <2>1. ASSUME NEW w \in Wires(circ) PROVE ~ (circ.born[w] <= b)
    <3> DEFINE l == 1
    <3>1. l \in 1 .. EndStage(circ)
      BY <1>2
    <3> HIDE DEF l
    <3>2. circ.born[w] \in 1 .. EndStage(circ)
      BY <1>1, <3>1, BornReady
    <3>. QED  BY <1>2, <1>4, <3>2
  <2>2. Openings = [w \in Wires(circ) |-> 0]
    BY <1>3, <2>1
  <2>. QED  BY <1>4, <2>2 DEF ClearInv, b
<1>5. CASE b # 0
  <2>1. b \in 1 .. EndStage(circ)
    BY <1>2, <1>5
  <2>2. \A p \in Online : pc[p] # "inputs" /\ b \in 1 .. level[p]
    BY <1>2, <2>1
  <2>3. ASSUME NEW w \in Wires(circ), circ.born[w] <= b
        PROVE  Opening(circ.sort[w], wires[1][w], wires[2][w]) = v[w]
    <3>1. Ready(circ, b, 0, w) /\ circ.sort[w] = Sort(Producer(circ, w))
      BY <1>1, <2>1, <2>3, BornReady
    <3>2. \A p \in Online : wires[p][w] = Lock[b - 1][p][w]
      BY <1>1, <2>2, <3>1, HeldReady
    <3>3. Opens(circ, Lock[b - 1][1], Lock[b - 1][2], v, w)
      BY <2>1, <3>1, LockOpens
    <3>4. wires[1][w] = Lock[b - 1][1][w] /\ wires[2][w] = Lock[b - 1][2][w]
      BY <3>2 DEF Online
    <3>. QED  BY <3>1, <3>3, <3>4 DEF Opens
  <2>4. ASSUME NEW w \in Wires(circ), ~ (circ.born[w] <= b) PROVE v[w] = 0
    <3> DEFINE i == b - 1
    <3>1. i \in 0 .. Len(circ.levels) /\ i + 1 = b
      BY <1>2, <2>1
    <3>2. ~ Ready(circ, b, 0, w)
      BY <1>1, <2>1, <2>4, BornReady
    <3> HIDE DEF i
    <3>3. InClear[i][w] = 0
      BY <1>1, <3>1, <3>2, UnbornZero DEF InClear
    <3>. QED  BY <3>3 DEF i
  <2>5. v = [w \in Wires(circ) |-> v[w]]
    <3> DEFINE i == b - 1
               r == InClear
    <3>1. i \in 0 .. Len(circ.levels)
      BY <1>2, <2>1
    <3>2. Runs(circ, r)
      BY <1>1, MeaningRuns DEF InClear
    <3> HIDE DEF i, r
    <3>3. OnWires(Wires(circ), r[i])
      BY <1>1, <3>1, <3>2, RunSettles DEF Steady
    <3>. QED  BY <3>3 DEF OnWires, r, i
  <2> HIDE DEF v
  <2>6. Openings = [w \in Wires(circ) |-> v[w]]
    BY <1>3, <2>3, <2>4
  <2>. QED  BY <1>5, <2>5, <2>6 DEF ClearInv, v, b
<1>. QED  BY <1>4, <1>5
-----------------------------------------------------------------------------
(* The definitions of module Clear, seen through the instance.             *)
LEMMA SameNames ==
  ASSUME NEW c
  PROVE  /\ InTheClear!Wires(c) = Wires(c) /\ InTheClear!EndStage(c) = EndStage(c)
         /\ InTheClear!PermsOf(c) = PermsOf(c)
BY DEF Wires, InTheClear!Wires, EndStage, InTheClear!EndStage, PermsOf,
       InTheClear!PermsOf, Names, InTheClear!Names, SizeOf, InTheClear!SizeOf, PermOf,
       InTheClear!PermOf, GatesOf, InTheClear!GatesOf
LEMMA SameGiven == ASSUME NEW c, NEW in PROVE InTheClear!Given(c, in) = Given(c, in)
BY DEF Given, InTheClear!Given, Wires, InTheClear!Wires
LEMMA SameOn == ASSUME NEW w, NEW ins PROVE InTheClear!On(w, ins) = On(w, ins)
BY DEF On, InTheClear!On
LEMMA SameValue ==
  ASSUME NEW g, NEW x, NEW y, NEW pm PROVE InTheClear!Value(g, x, y, pm) = Value(g, x, y, pm)
BY DEF Plus, InTheClear!Plus, Minus, InTheClear!Minus, Times, InTheClear!Times, Trunc,
       InTheClear!Trunc, Ring, InTheClear!Ring, PermOf, InTheClear!PermOf, Inverted,
       InTheClear!Inverted, Moved, InTheClear!Moved, MovedBack, InTheClear!MovedBack,
       Reordered, InTheClear!Reordered, ReorderedBack, InTheClear!ReorderedBack,
       Destination, InTheClear!Destination, Compaction, InTheClear!Compaction, Total,
       InTheClear!Total, Composed, InTheClear!Composed, Flipped, InTheClear!Flipped,
       AddedVec, InTheClear!AddedVec, AddedConst, InTheClear!AddedConst,
       PreparedPropagate, InTheClear!PreparedPropagate, Propagated,
       InTheClear!Propagated, PreparedGather, InTheClear!PreparedGather, Gathered,
       InTheClear!Gathered, Value, InTheClear!Value, PermOfGate, InTheClear!PermOfGate,
       ShuffleGate, InTheClear!ShuffleGate
LEMMA SameLevel ==
  ASSUME NEW c, NEW l, NEW w, NEW pm PROVE InTheClear!AfterLevel(c, l, w, pm) = AfterLevel(c, l, w, pm)
BY DEF Plus, InTheClear!Plus, Minus, InTheClear!Minus, Times, InTheClear!Times, Trunc,
       InTheClear!Trunc, Ring, InTheClear!Ring, PermOf, InTheClear!PermOf, Inverted,
       InTheClear!Inverted, Moved, InTheClear!Moved, MovedBack, InTheClear!MovedBack,
       Reordered, InTheClear!Reordered, ReorderedBack, InTheClear!ReorderedBack,
       Destination, InTheClear!Destination, Compaction, InTheClear!Compaction, Total,
       InTheClear!Total, Composed, InTheClear!Composed, Flipped, InTheClear!Flipped,
       AddedVec, InTheClear!AddedVec, AddedConst, InTheClear!AddedConst,
       PreparedPropagate, InTheClear!PreparedPropagate, Propagated,
       InTheClear!Propagated, PreparedGather, InTheClear!PreparedGather, Gathered,
       InTheClear!Gathered, Value, InTheClear!Value, PermOfGate, InTheClear!PermOfGate,
       ShuffleGate, InTheClear!ShuffleGate, On, InTheClear!On, AfterLevel,
       InTheClear!AfterLevel, Only, InTheClear!Only, Written, InTheClear!Written,
       InputGate, InTheClear!InputGate
-----------------------------------------------------------------------------
(* Steps of the exchange as steps of the evaluation in the clear.          *)
LEMMA SameClear ==
  ASSUME ClearInv, ClearInv', circ' = circ, inputs' = inputs, deal' = deal, BothStage' = BothStage,
         \A q \in Online : /\ (pc'[q] = "done") = (pc[q] = "done")
                           /\ outvals'[q] = outvals[q]
  PROVE  UNCHANGED InTheClear!plainVars
<1>1. InClear' = InClear
  BY DEF InClear
<1>2. Openings' = Openings
  BY <1>1 DEF ClearInv
<1>3. (IF BothStage = 0 THEN <<>> ELSE JointPerms(circ, deal))'
        = IF BothStage = 0 THEN <<>> ELSE JointPerms(circ, deal)
  OBVIOUS
<1>4. [q \in Online |-> [known |-> pc[q] = "done", vals |-> outvals[q]]]'
        = [q \in Online |-> [known |-> pc[q] = "done", vals |-> outvals[q]]]
  <2> SUFFICES ASSUME NEW q \in Online
               PROVE  [known |-> pc'[q] = "done", vals |-> outvals'[q]]
                        = [known |-> pc[q] = "done", vals |-> outvals[q]]
    OBVIOUS
  <2>1. (pc'[q] = "done") = (pc[q] = "done") /\ outvals'[q] = outvals[q]
    OBVIOUS
  <2>. QED  BY <2>1
<1>. QED  BY <1>2, <1>3, <1>4 DEF InTheClear!plainVars

(* Steps that neither finish a level nor the evaluation.                   *)
LEMMA QuietStep ==
  ASSUME ClearInv, ClearInv', NEW p \in Online, circ' = circ, inputs' = inputs, deal' = deal,
         level' = level, outvals' = outvals, DOMAIN pc = Online,
         pc[p] \notin {"inputs", "done"}, NEW ph, ph \notin {"inputs", "done"},
         pc' = [pc EXCEPT ![p] = ph]
  PROVE  UNCHANGED InTheClear!plainVars
<1>1. \A q \in Online : /\ (pc'[q] = "inputs") <=> (pc[q] = "inputs")
                        /\ (pc'[q] = "done") <=> (pc[q] = "done")
  OBVIOUS
<1>2. \A q \in Online : (pc'[q] = "done") = (pc[q] = "done")
  BY <1>1
<1>3. 1 \in Online /\ 2 \in Online
  BY DEF Online
<1>4. StageOf(1)' = StageOf(1) /\ StageOf(2)' = StageOf(2)
  BY <1>1, <1>3 DEF StageOf
<1>5. BothStage' = BothStage
  BY <1>4 DEF BothStage
<1>. QED  BY <1>2, <1>5, SameClear

StageLaw ==
  \A p \in Online :
    /\ BothStage = IF StageOf(p) < StageOf(Other(p)) THEN StageOf(p) ELSE StageOf(Other(p))
    /\ StageOf(p) \in Nat /\ StageOf(p) <= EndStage(circ)
LEMMA BothIs == ExchangeInv => StageLaw
<1> SUFFICES ASSUME ExchangeInv, NEW p \in Online
             PROVE  /\ BothStage = IF StageOf(p) < StageOf(Other(p)) THEN StageOf(p) ELSE StageOf(Other(p))
                    /\ StageOf(p) \in Nat /\ StageOf(p) <= EndStage(circ)
  BY DEF StageLaw
<1>1. /\ \A q \in Online : /\ StageOf(q) = IF pc[q] = "inputs" THEN 0 ELSE level[q]
                           /\ level[q] \in 1 .. EndStage(circ)
      /\ EndStage(circ) \in Nat
  BY StagesAre
<1>2. \A q \in Online : StageOf(q) \in Nat /\ StageOf(q) <= EndStage(circ)
  BY <1>1
<1>3. 1 \in Online /\ 2 \in Online
  BY DEF Online
<1>4. CASE p = 1
  <2>1. Other(p) = 2
    BY <1>4 DEF Other
  <2>. QED  BY <1>2, <1>4, <2>1 DEF BothStage
<1>5. CASE p = 2
  <2>1. Other(p) = 1
    BY <1>5 DEF Other
  <2>2. StageOf(1) \in Nat /\ StageOf(2) \in Nat
    BY <1>2, <1>3
  <2>. QED  BY <1>2, <1>5, <2>1, <2>2 DEF BothStage
<1>. QED  BY <1>4, <1>5 DEF Online

LEMMA BothIsNext == ExchangeInv' => StageLaw'
BY BothIs, PTL

LEMMA SetInputsInClear ==
  ASSUME ExchangeInv, ContentInv, ExchangeInv', ClearInv, ClearInv', NEW p \in Online, SetInputs(p)
  PROVE  [InTheClear!PlainNext]_InTheClear!plainVars
<1> DEFINE q == Other(p)
<1>1. /\ pc[p] = "inputs" /\ pc' = [pc EXCEPT ![p] = "begin"] /\ level' = level
      /\ circ' = circ /\ inputs' = inputs /\ deal' = deal /\ outvals' = outvals
  BY DEF SetInputs, fixed
<1>2. q \in Online /\ q # p /\ DOMAIN pc = Online
  BY Others, InvAt
<1>3. level[p] = 1 /\ circ \in Circuits /\ inputs \in InputsOf(circ) /\ deal \in DealsOf(circ)
  BY <1>1, ContentAt DEF Holds
<1>4. StageOf(p) = 0 /\ StageOf(p)' = 1 /\ StageOf(q)' = StageOf(q)
  BY <1>1, <1>2, <1>3 DEF StageOf
<1>5. /\ StageOf(q) \in Nat
      /\ BothStage = IF StageOf(p) < StageOf(q) THEN StageOf(p) ELSE StageOf(q)
      /\ BothStage' = IF StageOf(p)' < StageOf(q)' THEN StageOf(p)' ELSE StageOf(q)'
  BY <1>2, BothIs, BothIsNext DEF StageLaw
<1>6. /\ BothStage = 0
      /\ BothStage' = IF StageOf(q) = 0 THEN 0 ELSE 1
  BY <1>4, <1>5
<1>7. \A r \in Online : (pc'[r] = "done") <=> (pc[r] = "done")
  BY <1>1, <1>2
<1>8. \A r \in Online : (pc'[r] = "done") = (pc[r] = "done")
  BY <1>7
<1>9. CASE StageOf(q) = 0
  <2>1. BothStage' = BothStage
    BY <1>6, <1>9
  <2>2. UNCHANGED InTheClear!plainVars
    BY <1>1, <1>8, <2>1, SameClear
  <2>. QED  BY <2>2
<1>10. CASE StageOf(q) # 0
  <2>1. BothStage = 0 /\ BothStage' = 1
    BY <1>6, <1>10
  <2>2. JointPerms(circ, deal) \in PermsOf(circ)
    BY <1>3, PermsGiven
  <2>3. InClear[0] = Given(circ, inputs)
    BY <1>3, MeaningNext, BeforeFacts DEF InClear
  <2>4. InClear' = InClear
    BY <1>1 DEF InClear
  <2>5. Openings' = Given(circ, inputs)
    BY <2>1, <2>3, <2>4 DEF ClearInv
  <2>6. [r \in Online |-> [known |-> pc[r] = "done", vals |-> outvals[r]]]'
          = [r \in Online |-> [known |-> pc[r] = "done", vals |-> outvals[r]]]
    BY <1>1, <1>8
  <2>7. InTheClear!ReadInputs
    BY <1>1, <2>1, <2>2, <2>5, <2>6, SameNames, SameGiven DEF InTheClear!ReadInputs
  <2>. QED  BY <2>7 DEF InTheClear!PlainNext
<1>. QED  BY <1>9, <1>10

LEMMA FinishLevelInClear ==
  ASSUME ExchangeInv, ContentInv, ExchangeInv', ClearInv, ClearInv', NEW p \in Online, FinishLevel(p)
  PROVE  [InTheClear!PlainNext]_InTheClear!plainVars
<1> DEFINE q == Other(p)
           l == level[p]
<1>1. /\ pc[p] = "finish" /\ pc' = [pc EXCEPT ![p] = "begin"] /\ level' = [level EXCEPT ![p] = l + 1]
      /\ circ' = circ /\ inputs' = inputs /\ deal' = deal /\ outvals' = outvals
  BY DEF FinishLevel, fixed
<1>2. q \in Online /\ q # p /\ DOMAIN pc = Online /\ DOMAIN level = Online
  BY Others, InvAt
<1>3. circ \in Circuits /\ inputs \in InputsOf(circ) /\ deal \in DealsOf(circ)
  BY ContentAt
<1>4. l \in 1 .. Len(circ.levels) /\ Len(circ.levels) \in Nat
  BY <1>1, InvAt DEF InLevel
<1>5. StageOf(p) = l /\ StageOf(p)' = l + 1 /\ StageOf(q)' = StageOf(q)
  BY <1>1, <1>2 DEF StageOf
<1>6. /\ StageOf(q) \in Nat
      /\ BothStage = IF StageOf(p) < StageOf(q) THEN StageOf(p) ELSE StageOf(q)
      /\ BothStage' = IF StageOf(p)' < StageOf(q)' THEN StageOf(p)' ELSE StageOf(q)'
  BY <1>2, BothIs, BothIsNext DEF StageLaw
<1>7. \A r \in Online : (pc'[r] = "done") <=> (pc[r] = "done")
  BY <1>1, <1>2
<1>8. \A r \in Online : (pc'[r] = "done") = (pc[r] = "done")
  BY <1>7
<1>9. CASE StageOf(q) <= l
  <2>1. BothStage' = BothStage
    BY <1>4, <1>5, <1>6, <1>9
  <2>2. UNCHANGED InTheClear!plainVars
    BY <1>1, <1>8, <2>1, SameClear
  <2>. QED  BY <2>2
<1>10. CASE ~ (StageOf(q) <= l)
  <2>1. BothStage = l /\ BothStage' = l + 1
    BY <1>4, <1>5, <1>6, <1>10
  <2>2. BothStage # 0 /\ BothStage' # 0 /\ BothStage' - 1 = l /\ BothStage' = BothStage + 1
    BY <1>4, <2>1
  <2>3. BothStage \in DOMAIN circ.levels
    <3>1. circ.levels \in Seq(Seq(Gate))
      BY <1>3, CircuitAssumption
    <3>. QED  BY <1>4, <2>1, <3>1
  <2>4. InClear[l] = AfterLevel(circ, l, InClear[l - 1], JointPerms(circ, deal))
    BY <1>3, <1>4, MeaningNext DEF InClear
  <2>5. InClear' = InClear
    BY <1>1 DEF InClear
  <2>6. Openings = InClear[l - 1] /\ Openings' = InClear[l]
    BY <2>1, <2>2, <2>5 DEF ClearInv
  <2>7. Openings' = AfterLevel(circ, BothStage, Openings, JointPerms(circ, deal))
    BY <2>1, <2>4, <2>6
  <2>8. [r \in Online |-> [known |-> pc[r] = "done", vals |-> outvals[r]]]'
          = [r \in Online |-> [known |-> pc[r] = "done", vals |-> outvals[r]]]
    BY <1>1, <1>8
  <2>9. /\ (IF BothStage = 0 THEN <<>> ELSE JointPerms(circ, deal)) = JointPerms(circ, deal)
        /\ (IF BothStage = 0 THEN <<>> ELSE JointPerms(circ, deal))' = JointPerms(circ, deal)
    BY <1>1, <2>2
  <2>10. InTheClear!EvaluateLevel
    BY <1>1, <2>2, <2>3, <2>7, <2>8, <2>9, SameLevel DEF InTheClear!EvaluateLevel
  <2>. QED  BY <2>10 DEF InTheClear!PlainNext
<1>. QED  BY <1>9, <1>10

(* The outputs are what the values in the clear say.                       *)
LEMMA OutcomeIs ==
  ASSUME RefineInv, NEW p \in Online
  PROVE  Outcome(circ, Lock[Len(circ.levels)], p) = On(InClear[Len(circ.levels)], circ.outputs)
<1> DEFINE n == Len(circ.levels)
           m == EndStage(circ)
           a == Lock[n][1]
           b == Lock[n][2]
           v == InClear[n]
<1>1. /\ circ \in Circuits /\ n \in Nat /\ m = n + 1 /\ m \in 1 .. EndStage(circ) /\ m - 1 = n
  <2>1. circ \in Circuits
    BY DEF RefineInv, ContentInv
  <2>. QED  BY <2>1, BeforeFacts
<1>2. ASSUME NEW i \in DOMAIN circ.outputs
      PROVE  (IF circ.bin[i] THEN XorW(Lock[n][p][circ.outputs[i]], Lock[n][Other(p)][circ.outputs[i]])
              ELSE Plus(Lock[n][p][circ.outputs[i]], Lock[n][Other(p)][circ.outputs[i]]))
               = v[circ.outputs[i]]
  <2> DEFINE w == circ.outputs[i]
  <2>1. WellShaped(circ) /\ WellSorted(circ)
    BY <1>1, ShapeAssumption, CircuitAssumption
  <2>2. w \in Wires(circ) /\ Sort(Producer(circ, w)) = (IF circ.bin[i] THEN "bin" ELSE "arith")
    BY <2>1 DEF WellShaped, WellSorted, Elems
  <2> HIDE DEF w, m
  <2>3. Ready(circ, m, 0, w)
    <3>1. circ.born[w] \in 1 .. EndStage(circ) /\ (Ready(circ, m, 0, w) <=> circ.born[w] <= m)
      BY <1>1, <2>2, BornReady
    <3>. QED  BY <1>1, <3>1 DEF m
  <2>4. Opens(circ, Lock[m - 1][1], Lock[m - 1][2], InClear[m - 1], w)
    BY <1>1, <2>2, <2>3, LockOpens
  <2>5. Opens(circ, a, b, v, w)
    BY <1>1, <2>4
  <2>6. /\ a[w] \in Ring /\ b[w] \in Ring
        /\ v[w] = IF circ.bin[i] THEN XorW(a[w], b[w]) ELSE Plus(a[w], b[w])
    BY <2>2, <2>5 DEF Opens, Opening
  <2>7. Plus(a[w], b[w]) = Plus(b[w], a[w]) /\ XorW(a[w], b[w]) = XorW(b[w], a[w])
    <3> DEFINE x == a[w]
               y == b[w]
    <3>1. x \in Ring /\ y \in Ring
      BY <2>6
    <3> HIDE DEF x, y
    <3>2. x \in Int /\ y \in Int
      BY <3>1, RingInt
    <3>3. x + y = y + x
      BY <3>2
    <3>4. Plus(x, y) = Plus(y, x) /\ XorW(x, y) = XorW(y, x)
      BY <3>1, <3>3, BitOps DEF Plus
    <3>. QED  BY <3>4 DEF x, y
  <2>8. CASE p = 1
    <3>1. Other(p) = 2
      BY <2>8 DEF Other
    <3>. QED  BY <2>6, <2>8, <3>1 DEF w
  <2>9. CASE p = 2
    <3>1. Other(p) = 1
      BY <2>9 DEF Other
    <3>. QED  BY <2>6, <2>7, <2>9, <3>1 DEF w
  <2>. QED  BY <2>8, <2>9 DEF Online
<1>. QED  BY <1>2 DEF Outcome, On

(* Party p is handed the outputs.                                          *)
LEMMA HandedOver ==
  ASSUME ClearInv, ClearInv', NEW p \in Online, circ' = circ, inputs' = inputs, deal' = deal,
         level' = level, DOMAIN pc = Online, DOMAIN outvals = Online, DOMAIN outvals' = Online,
         pc[p] \notin {"inputs", "done"}, pc' = [pc EXCEPT ![p] = "done"],
         OnlyAt(p, outvals, outvals'), outvals'[p] = On(Openings, circ.outputs),
         BothStage = EndStage(circ) \/ circ.outputs = <<>>
  PROVE  [InTheClear!PlainNext]_InTheClear!plainVars
<1>1. \A q \in Online : (pc'[q] = "inputs") <=> (pc[q] = "inputs")
  OBVIOUS
<1>2. 1 \in Online /\ 2 \in Online
  BY DEF Online
<1>3. StageOf(1)' = StageOf(1) /\ StageOf(2)' = StageOf(2)
  BY <1>1, <1>2 DEF StageOf
<1>4. BothStage' = BothStage
  BY <1>3 DEF BothStage
<1>5. InClear' = InClear
  BY DEF InClear
<1>6. Openings' = Openings
  BY <1>4, <1>5 DEF ClearInv
<1>7. (IF BothStage = 0 THEN <<>> ELSE JointPerms(circ, deal))'
        = IF BothStage = 0 THEN <<>> ELSE JointPerms(circ, deal)
  BY <1>4
<1> DEFINE out == [r \in Online |-> [known |-> pc[r] = "done", vals |-> outvals[r]]]
           new == [known |-> TRUE, vals |-> InTheClear!On(Openings, circ.outputs)]
<1>8. ~ out[p].known
  BY DEF out
<1>9. out' = [out EXCEPT ![p] = new]
  <2>1. ASSUME NEW r \in Online PROVE out'[r] = [out EXCEPT ![p] = new][r]
    <3>1. CASE r = p
      <4>1. (pc'[p] = "done") = TRUE
        OBVIOUS
      <4>2. outvals'[p] = InTheClear!On(Openings, circ.outputs)
        BY SameOn
      <4>3. out'[p] = [known |-> pc'[p] = "done", vals |-> outvals'[p]]
        OBVIOUS
      <4>4. out'[p] = new
        BY <4>1, <4>2, <4>3
      <4>5. [out EXCEPT ![p] = new][p] = new
        BY DEF out
      <4>. QED  BY <3>1, <4>4, <4>5
    <3>2. CASE r # p
      <4>1. ((pc'[r] = "done") <=> (pc[r] = "done")) /\ outvals'[r] = outvals[r]
        BY <3>2 DEF OnlyAt
      <4>2. (pc'[r] = "done") = (pc[r] = "done")
        BY <4>1
      <4>. QED  BY <3>2, <4>1, <4>2
    <3>. QED  BY <3>1, <3>2
  <2>2. DOMAIN out' = Online /\ DOMAIN [out EXCEPT ![p] = new] = Online
    OBVIOUS
  <2>3. out' = [r \in Online |-> out'[r]] /\ [out EXCEPT ![p] = new] = [r \in Online |-> [out EXCEPT ![p] = new][r]]
    OBVIOUS
  <2> HIDE DEF out, new
  <2>. QED  BY <2>1, <2>3
<1>10. InTheClear!Deliver(p)
  BY <1>4, <1>6, <1>7, <1>8, <1>9, SameNames DEF InTheClear!Deliver
<1>. QED  BY <1>10 DEF InTheClear!PlainNext, Online

LEMMA NoOutputsInClear ==
  ASSUME ExchangeInv, ContentInv, ClearInv, ClearInv', NEW p \in Online, NoOutputs(p)
  PROVE  [InTheClear!PlainNext]_InTheClear!plainVars
<1>1. /\ pc[p] = "begin" /\ circ.outputs = <<>> /\ pc' = [pc EXCEPT ![p] = "done"]
      /\ circ' = circ /\ inputs' = inputs /\ deal' = deal /\ level' = level /\ outvals' = outvals
  BY DEF NoOutputs, AfterLevels, fixed
<1>2. DOMAIN pc = Online /\ DOMAIN outvals = Online /\ outvals[p] = <<>>
  BY <1>1, InvAt, ContentAt DEF Holds
<1>3. On(Openings, circ.outputs) = <<>>
  BY <1>1 DEF On
<1>4. OnlyAt(p, outvals, outvals') /\ outvals'[p] = On(Openings, circ.outputs) /\ DOMAIN outvals' = Online
  BY <1>1, <1>2, <1>3 DEF OnlyAt
<1>5. pc[p] \notin {"inputs", "done"}
  BY <1>1
<1>. QED  BY <1>1, <1>2, <1>4, <1>5, HandedOver

LEMMA RecvOutputsInClear ==
  ASSUME RefineInv, ContentInv', ClearInv, ClearInv', NEW p \in Online, RecvOutputs(p)
  PROVE  [InTheClear!PlainNext]_InTheClear!plainVars
<1> DEFINE q == Other(p)
           n == Len(circ.levels)
<1>1. /\ pc[p] = "outputs" /\ Len(chan[p]) >= Len(circ.outputs) /\ pc' = [pc EXCEPT ![p] = "done"]
      /\ circ' = circ /\ inputs' = inputs /\ deal' = deal /\ tape' = tape /\ level' = level
  BY DEF RecvOutputs, fixed
<1>2. ExchangeInv /\ ContentInv /\ q \in Online /\ q # p
  BY Others DEF RefineInv
<1>3. /\ DOMAIN pc = Online /\ DOMAIN outvals = Online /\ level[p] = EndStage(circ)
      /\ EndStage(circ) = n + 1 /\ n \in Nat /\ Len(circ.outputs) \in Nat
      /\ Before(circ, EndStage(circ)) \in Nat
  BY <1>1, <1>2, InvAt, ContentAt DEF InLevel
<1>4. outvals' = [outvals EXCEPT ![p] = outvals'[p]]
  BY <1>3 DEF RecvOutputs
<1>5. OnlyAt(p, outvals, outvals') /\ DOMAIN outvals' = Online
  BY <1>3, <1>4 DEF OnlyAt
<1>6. outvals'[p] = Outcome(circ, Lock[n], p)
  <2>1. Lock' = Lock
    BY <1>1 DEF Lock
  <2>2. Holds(circ', deal', Lock', From(Other(p))', p,
              pc'[p], level'[p], wires'[p], mine'[p], recv'[p], outvals'[p])
    BY DEF ContentInv
  <2>3. pc'[p] = "done" /\ level'[p] - 1 = n
    BY <1>1, <1>3
  <2>. QED  BY <1>1, <2>1, <2>2, <2>3 DEF Holds
<1>7. pc[q] \in {"outputs", "done"} \/ circ.outputs = <<>>
  <2> SUFFICES ASSUME pc[q] \notin {"outputs", "done"} PROVE circ.outputs = <<>>
    OBVIOUS
  <2>1. SentBy(q) <= Before(circ, EndStage(circ))
    BY <1>2, Counts, SentRead DEF SentBy
  <2>2. ReadBy(p) = Before(circ, EndStage(circ)) + 0
    BY <1>1, <1>3 DEF ReadBy, Read
  <2>3. Len(chan[p]) = SentBy(q) - ReadBy(p) /\ SentBy(q) \in Nat /\ ReadBy(p) \in Nat
    BY <1>2, Counts
  <2>4. Len(circ.outputs) = 0
    BY <1>1, <1>3, <2>1, <2>2, <2>3
  <2>5. circ.outputs \in Seq(Nat)
    BY <1>2, CircuitAssumption, InvAt
  <2>. QED  BY <2>4, <2>5
<1>8. BothStage = EndStage(circ) \/ circ.outputs = <<>>
  <2> SUFFICES ASSUME pc[q] \in {"outputs", "done"} PROVE BothStage = EndStage(circ)
    BY <1>7
  <2>1. level[q] = EndStage(circ)
    BY <1>2, InvAt DEF InLevel
  <2>2. StageOf(p) = EndStage(circ) /\ StageOf(q) = EndStage(circ)
    BY <1>1, <1>3, <2>1 DEF StageOf
  <2>. QED  BY <1>2, <2>2, BothIs DEF StageLaw
<1>9. outvals'[p] = On(Openings, circ.outputs)
  <2>1. CASE circ.outputs = <<>>
    BY <1>6, <2>1 DEF Outcome, On
  <2>2. CASE BothStage = EndStage(circ)
    <3>1. Openings = InClear[n]
      <4>1. BothStage # 0 /\ BothStage - 1 = n
        BY <1>3, <2>2
      <4>. QED  BY <4>1 DEF ClearInv
    <3>. QED  BY <1>6, <3>1, OutcomeIs
  <2>. QED  BY <1>8, <2>1, <2>2
<1>10. pc[p] \notin {"inputs", "done"}
  BY <1>1
<1>. QED  BY <1>1, <1>3, <1>5, <1>8, <1>9, <1>10, HandedOver

LEMMA StepsInClear ==
  RefineInv /\ RefineInv' /\ ClearInv /\ ClearInv' /\ [Next]_vars
    => [InTheClear!PlainNext]_InTheClear!plainVars
<1> SUFFICES ASSUME RefineInv, RefineInv', ClearInv, ClearInv', [Next]_vars
             PROVE  [InTheClear!PlainNext]_InTheClear!plainVars
  OBVIOUS
<1>1. ExchangeInv /\ ContentInv /\ ExchangeInv' /\ ContentInv'
  BY DEF RefineInv
<1>2. CASE UNCHANGED vars
  <2>1. /\ circ' = circ /\ inputs' = inputs /\ deal' = deal /\ pc' = pc /\ level' = level
        /\ outvals' = outvals
    BY <1>2 DEF vars
  <2>2. BothStage' = BothStage
    BY <2>1 DEF BothStage, StageOf
  <2>. QED  BY <2>1, <2>2, SameClear
<1>3. ASSUME NEW p \in Online, Step(p) PROVE [InTheClear!PlainNext]_InTheClear!plainVars
  <2>0. DOMAIN pc = Online
    BY <1>1, InvAt
  <2>1. CASE SetInputs(p)
    BY <1>1, <2>1, SetInputsInClear
  <2>2. CASE BeginLevel(p)
    <3> DEFINE ph == "send"
    <3>1. /\ pc[p] \notin {"inputs", "done"} /\ ph \notin {"inputs", "done"} /\ pc' = [pc EXCEPT ![p] = ph]
          /\ circ' = circ /\ inputs' = inputs /\ deal' = deal /\ level' = level /\ outvals' = outvals
      BY <2>2 DEF BeginLevel, fixed
    <3> HIDE DEF ph
    <3>. QED  BY <2>0, <3>1, QuietStep
  <2>3. CASE SendSegment(p)
    <3> DEFINE ph == "recv"
    <3>1. /\ pc[p] \notin {"inputs", "done"} /\ ph \notin {"inputs", "done"} /\ pc' = [pc EXCEPT ![p] = ph]
          /\ circ' = circ /\ inputs' = inputs /\ deal' = deal /\ level' = level /\ outvals' = outvals
      BY <2>3 DEF SendSegment, fixed
    <3> HIDE DEF ph
    <3>. QED  BY <2>0, <3>1, QuietStep
  <2>4. CASE RecvSegment(p)
    <3> DEFINE ph == IF LastSegment(p) THEN "finish" ELSE "send"
    <3>1. /\ pc[p] \notin {"inputs", "done"} /\ ph \notin {"inputs", "done"} /\ pc' = [pc EXCEPT ![p] = ph]
          /\ circ' = circ /\ inputs' = inputs /\ deal' = deal /\ level' = level /\ outvals' = outvals
      BY <2>4 DEF RecvSegment, fixed
    <3> HIDE DEF ph
    <3>. QED  BY <2>0, <3>1, QuietStep
  <2>5. CASE FinishLevel(p)
    BY <1>1, <2>5, FinishLevelInClear
  <2>6. CASE NoOutputs(p)
    BY <1>1, <2>6, NoOutputsInClear
  <2>7. CASE SendOutputs(p)
    <3> DEFINE ph == "outputs"
    <3>1. /\ pc[p] \notin {"inputs", "done"} /\ ph \notin {"inputs", "done"} /\ pc' = [pc EXCEPT ![p] = ph]
          /\ circ' = circ /\ inputs' = inputs /\ deal' = deal /\ level' = level /\ outvals' = outvals
      BY <2>7 DEF SendOutputs, AfterLevels, fixed
    <3> HIDE DEF ph
    <3>. QED  BY <2>0, <3>1, QuietStep
  <2>8. CASE RecvOutputs(p)
    BY <1>1, <2>8, RecvOutputsInClear
  <2>. QED  BY <1>3, <2>1, <2>2, <2>3, <2>4, <2>5, <2>6, <2>7, <2>8 DEF Step
<1>. QED  BY <1>2, <1>3 DEF Next

LEMMA StartsInClear == Init /\ RefineInv /\ ClearInv => InTheClear!PlainInit
<1> SUFFICES ASSUME Init, RefineInv, ClearInv PROVE InTheClear!PlainInit
  OBVIOUS
<1>1. /\ circ \in Circuits /\ inputs \in InputsOf(circ) /\ pc = [p \in Online |-> "inputs"]
      /\ outvals = [p \in Online |-> <<>>]
  BY DEF Init
<1>2. BothStage = 0
  <2>1. pc[1] = "inputs" /\ pc[2] = "inputs"
    BY <1>1 DEF Online
  <2>. QED  BY <2>1 DEF BothStage, StageOf
<1>3. Openings = [w \in Wires(circ) |-> 0]
  BY <1>2 DEF ClearInv
<1>4. [p \in Online |-> [known |-> pc[p] = "done", vals |-> outvals[p]]]
        = [p \in {1, 2} |-> InTheClear!Unknown]
  <2>1. ASSUME NEW p \in Online
        PROVE  [known |-> pc[p] = "done", vals |-> outvals[p]] = InTheClear!Unknown
    <3>1. pc[p] # "done" /\ outvals[p] = <<>>
      BY <1>1
    <3>2. (pc[p] = "done") = FALSE
      BY <3>1
    <3>. QED  BY <3>1, <3>2 DEF InTheClear!Unknown
  <2>. QED  BY <2>1 DEF Online
<1>. QED  BY <1>1, <1>2, <1>3, <1>4, SameNames DEF InTheClear!PlainInit

(* The two parties together compute what a trusted party evaluating the    *)
(* circuit on the inputs would, for every set of ordered circuits, every   *)
(* input, every material with the correlations of the preprocessing, every *)
(* word width and every segment size: the online phase implements the      *)
(* evaluation in the clear.  Circuits with a gate that adds a constant to  *)
(* one wire are left out: there it does not (AddsConstantOnce).            *)
THEOREM ImplementsTheClear ==
  ASSUME \A c \in Circuits : NoConstAdd(c) PROVE Spec => ComputesInTheClear
<1>1. Init => RefineInv
  BY ExchangeStarts, ContentStarts DEF RefineInv, Init
<1>2. RefineInv /\ [Next]_vars => RefineInv'
  <2> SUFFICES ASSUME RefineInv, [Next]_vars PROVE RefineInv'
    OBVIOUS
  <2>1. ExchangeInv' /\ ContentInv'
    BY ExchangeKept, ContentKept DEF RefineInv
  <2>2. circ' \in Circuits
    BY <2>1 DEF ContentInv
  <2>. QED  BY <2>1, <2>2 DEF RefineInv
<1>3. Init /\ RefineInv /\ ClearInv => InTheClear!PlainInit
  BY StartsInClear
<1>4. RefineInv /\ RefineInv' /\ ClearInv /\ ClearInv' /\ [Next]_vars
        => [InTheClear!PlainNext]_InTheClear!plainVars
  BY StepsInClear
<1>5. RefineInv => ClearInv
  BY OpensClear
<1>. QED  BY <1>1, <1>2, <1>3, <1>4, <1>5, PTL DEF Spec, ComputesInTheClear, InTheClear!PlainSpec
-----------------------------------------------------------------------------
(* Everything the parties open, send and hold are words.                   *)
LEMMA VecWords ==
  ASSUME NEW S, NEW s, IsVec(s), \A i \in 1 .. Len(s) : s[i] \in S PROVE s \in Seq(S)
<1>1. Len(s) \in Nat /\ s = [i \in 1 .. Len(s) |-> s[i]]
  BY DEF IsVec
<1> HIDE DEF IsVec
<1>. QED  BY <1>1

LEMMA PartWords ==
  ASSUME NEW S, NEW s \in Seq(S), NEW m \in Nat, NEW n \in Nat, m + n <= Len(s)
  PROVE  SubSeq(s, m + 1, m + n) \in Seq(S)
<1>1. /\ Len(s) \in Nat /\ m + 1 \in 1 .. (Len(s) + 1) /\ m + n \in m .. Len(s)
      /\ (m + n) - (m + 1) + 1 = n
  OBVIOUS
<1>. QED  BY <1>1

LEMMA GroupWords ==
  ASSUME circ \in Circuits, deal \in DealsOf(circ), NEW p \in Online, NEW l \in 1 .. Len(circ.levels),
         NEW kind \in WordKind, NEW w, WordsOn(circ, w)
  PROVE  Group(p, l, kind, w) \in Seq(Ring)
<1> DEFINE gs == circ.levels[l]
           n == Len(gs)
           o(k) == Opened(p, gs[k], deal[p][l][k], kind, w)
           v == [k \in 1 .. n |-> o(k)]
           D(f) == f = [k \in 0 .. n |-> IF k = 0 THEN <<>> ELSE f[k - 1] \o o(k)]
           upto == CHOOSE f : D(f)
<1>1. n \in Nat /\ \A k \in 1 .. n : gs[k] \in Gate
  BY BeforeFacts
<1>2. Group(p, l, kind, w) = upto[n]
  BY DEF Group
<1>3. ASSUME NEW k \in 1 .. n PROVE o(k) \in Seq(Ring)
  <2> DEFINE g == gs[k]
             e == deal[p][l][k]
             u == Opened(p, g, e, kind, w)
  <2>1. g \in Gate /\ LengthsFit(g)
    BY <1>1, GateAt
  <2>2. (g.type = "EqualsZero" => g.param < Layers) /\ \A x \in Reads(g) : w[x] \in Ring
    BY ReadsWords
  <2>3. HasWords(g, e)
    BY MaterialWords
  <2> HIDE DEF g, e
  <2>4. IsVec(u) /\ \A i \in 1 .. Len(u) : u[i] \in Ring
    BY <2>1, <2>2, <2>3, OpenedWords
  <2>5. o(k) = u
    BY DEF g, e
  <2> HIDE DEF u, o
  <2>6. u \in Seq(Ring)
    BY <2>4, VecWords
  <2>. QED  BY <2>5, <2>6
<1> HIDE DEF gs, o
<1>4. Len(v) = n
  BY <1>1
<1>5. D(upto)
  <2>1. PICK f : f = [k \in 0 .. n |-> IF k = 0 THEN <<>> ELSE f[k - 1] \o v[k]]
    <3> HIDE DEF v
    <3>. QED  BY ZenonT(40), <1>1, <1>4, JoinExists
  <2>2. \A k \in 0 .. n : k # 0 => v[k] = o(k)
    BY <1>1
  <2> HIDE DEF v
  <2>3. f = [k \in 0 .. n |-> IF k = 0 THEN <<>> ELSE f[k - 1] \o o(k)]
    BY <2>1, <2>2
  <2>4. D(f)
    BY <2>3
  <2> HIDE DEF D
  <2>. QED  BY <2>4
<1> HIDE DEF upto, v
<1>6. upto[0] = <<>> /\ \A k \in 1 .. n : upto[k] = upto[k - 1] \o o(k)
  <2>1. \A k \in 0 .. n : upto[k] = IF k = 0 THEN <<>> ELSE upto[k - 1] \o o(k)
    BY <1>5
  <2>2. 0 \in 0 .. n /\ \A k \in 1 .. n : k \in 0 .. n /\ k # 0
    BY <1>1
  <2>. QED  BY <2>1, <2>2
<1> HIDE DEF D, n
<1> DEFINE T == {k \in Nat : k <= n => upto[k] \in Seq(Ring)}
<1>7. 0 \in T
  <2>1. <<>> \in Seq(Ring)
    OBVIOUS
  <2>2. upto[0] \in Seq(Ring)
    BY <1>6, <2>1
  <2>. QED  BY <2>2
<1>8. ASSUME NEW k \in T PROVE k + 1 \in T
  <2> DEFINE j == k + 1
  <2> SUFFICES ASSUME j <= n PROVE upto[j] \in Seq(Ring)
    OBVIOUS
  <2>1. upto[k] \in Seq(Ring) /\ j \in 1 .. n /\ j - 1 = k
    BY <1>1
  <2>2. o(j) \in Seq(Ring)
    BY <1>3, <2>1
  <2>3. upto[j] = upto[k] \o o(j)
    BY <1>6, <2>1
  <2>. QED  BY <2>1, <2>2, <2>3
<1>9. T = Nat
  <2> HIDE DEF T
  <2>1. T \in SUBSET Nat
    BY DEF T
  <2>. QED  BY <1>7, <1>8, <2>1, NatInd
<1>. QED  BY <1>1, <1>2, <1>9

(* What stays of the type invariant when the shares are known.             *)
WordsInv ==
  /\ mine \in [Online -> Groups]
  /\ recv \in [Online -> Seq(Ring)]
  /\ chan \in [Online -> Seq(Ring)]
LEMMA SharesAreWords ==
  ASSUME ExchangeInv, ContentInv, NEW p \in Online PROVE wires[p] \in Share
<1>1. /\ circ \in Circuits /\ inputs \in InputsOf(circ) /\ deal \in DealsOf(circ) /\ tape \in SharedTapes
      /\ pc[p] = "inputs" => wires[p] = [w \in Wires(circ) |-> 0]
      /\ pc[p] # "inputs" => wires[p] = Lock[level[p] - 1][p]
  BY ContentAt DEF Holds
<1>2. level[p] \in 1 .. (Len(circ.levels) + 1) /\ Len(circ.levels) \in Nat
  BY InvAt
<1> DEFINE j == level[p] - 1
<1>3. j \in 0 .. Len(circ.levels)
  BY <1>2
<1> HIDE DEF j
<1>4. WordsOn(circ, Lock[j][p])
  BY <1>1, <1>3, LockstepWords DEF Lock
<1>5. [w \in Wires(circ) |-> 0] \in Share
  BY RingConsts DEF Share
<1>. QED  BY <1>1, <1>4, <1>5 DEF j, WordsOn, Share

LEMMA PieceWords ==
  ASSUME ExchangeInv, WordsInv, NEW p \in Online, pc[p] \in {"send", "recv"}
  PROVE  SubSeq(AllOpened(mine[p]), Len(recv[p]) + 1, Len(recv[p]) + SegmentSize(p)) \in Seq(Ring)
<1> DEFINE s == AllOpened(mine[p])
           m == Len(recv[p])
           n == SegmentSize(p)
<1>1. /\ n \in Nat /\ m + n <= Total_comm(p) /\ Total_comm(p) = Len(s) /\ m \in Nat
  BY SegmentFacts, InvAt DEF Total_comm
<1>2. s \in Seq(Ring)
  <2>1. mine[p] \in [WordKind -> Seq(Ring)]
    BY DEF WordsInv, Groups
  <2>2. /\ mine[p].mult \in Seq(Ring) /\ mine[p].and \in Seq(Ring)
        /\ mine[p].shuffle \in Seq(Ring) /\ mine[p].reveal \in Seq(Ring)
    BY <2>1 DEF WordKind
  <2>. QED  BY <2>2 DEF AllOpened
<1> HIDE DEF s, m, n
<1>3. SubSeq(s, m + 1, m + n) \in Seq(Ring)
  BY <1>1, <1>2, PartWords
<1>. QED  BY <1>3 DEF s, m, n

LEMMA WordsKept == ExchangeInv /\ ContentInv /\ WordsInv /\ [Next]_vars => WordsInv'
<1> SUFFICES ASSUME ExchangeInv, ContentInv, WordsInv, [Next]_vars PROVE WordsInv'
  OBVIOUS
<1>0. /\ mine \in [Online -> Groups] /\ recv \in [Online -> Seq(Ring)] /\ chan \in [Online -> Seq(Ring)]
  BY DEF WordsInv
<1>1. CASE UNCHANGED vars
  BY <1>0, <1>1 DEF WordsInv, vars
<1>2. ASSUME NEW p \in Online, Step(p) PROVE WordsInv'
  <2> DEFINE q == Other(p)
  <2>0. q \in Online /\ circ \in Circuits /\ deal \in DealsOf(circ)
    BY ContentAt
  <2>1. CASE SetInputs(p)
    BY <1>0, <2>1 DEF SetInputs, WordsInv
  <2>2. CASE BeginLevel(p)
    <3> DEFINE m == WordsAt(p, level[p], wires[p])
    <3>1. /\ level[p] <= Len(circ.levels) /\ mine' = [mine EXCEPT ![p] = m]
          /\ recv' = [recv EXCEPT ![p] = <<>>] /\ chan' = chan
      BY <2>2 DEF BeginLevel
    <3>2. level[p] \in 1 .. Len(circ.levels)
      BY <3>1, InvAt
    <3>3. wires[p] \in Share
      BY SharesAreWords
    <3> DEFINE l == level[p]
               w == wires[p]
    <3>4. WordsOn(circ, w) /\ l \in 1 .. Len(circ.levels)
      BY <3>2, <3>3 DEF WordsOn, Share
    <3> HIDE DEF l, w
    <3>5. \A kind \in WordKind : Group(p, l, kind, w) \in Seq(Ring)
      BY <2>0, <3>4, GroupWords
    <3>6. WordsAt(p, l, w) \in Groups
      BY <3>5 DEF WordsAt, Groups
    <3>7. m \in Groups
      BY <3>6 DEF l, w
    <3> HIDE DEF m
    <3>8. mine' \in [Online -> Groups]
      BY <1>0, <3>1, <3>7
    <3>9. <<>> \in Seq(Ring)
      OBVIOUS
    <3>10. recv' \in [Online -> Seq(Ring)]
      BY <1>0, <3>1, <3>9
    <3>. QED  BY <1>0, <3>1, <3>8, <3>10 DEF WordsInv
  <2>3. CASE SendSegment(p)
    <3> DEFINE v == SubSeq(AllOpened(mine[p]), Len(recv[p]) + 1, Len(recv[p]) + SegmentSize(p))
    <3>1. /\ pc[p] = "send" /\ chan' = [chan EXCEPT ![q] = @ \o v] /\ mine' = mine /\ recv' = recv
      BY <2>3 DEF SendSegment
    <3>2. v \in Seq(Ring)
      BY <3>1, PieceWords
    <3> HIDE DEF v
    <3>3. chan[q] \o v \in Seq(Ring)
      BY <1>0, <2>0, <3>2
    <3>4. chan' \in [Online -> Seq(Ring)]
      BY <1>0, <3>1, <3>3
    <3>. QED  BY <1>0, <3>1, <3>4 DEF WordsInv
  <2>4. CASE RecvSegment(p)
    <3> DEFINE n == SegmentSize(p)
               s == chan[p]
               k == Len(s) - n
    <3>1. /\ pc[p] = "recv" /\ Len(s) >= n /\ mine' = mine
          /\ recv' = [recv EXCEPT ![p] = @ \o SubSeq(s, 1, n)]
          /\ chan' = [chan EXCEPT ![p] = SubSeq(s, n + 1, Len(s))]
      BY <2>4 DEF RecvSegment
    <3>2. n \in Nat /\ Len(s) \in Nat /\ s \in Seq(Ring)
      BY <1>0, <3>1, SegmentFacts, InvAt
    <3>3. k \in Nat /\ n + k = Len(s) /\ n + k <= Len(s) /\ 0 + n = n /\ 0 + 1 = 1 /\ 0 + n <= Len(s)
      BY <3>1, <3>2
    <3> HIDE DEF n, s, k
    <3>4. SubSeq(s, n + 1, n + k) \in Seq(Ring)
      BY <3>2, <3>3, PartWords
    <3> DEFINE z == 0
    <3>5. z \in Nat /\ z + n <= Len(s)
      BY <3>2, <3>3
    <3> HIDE DEF z
    <3>6. SubSeq(s, z + 1, z + n) \in Seq(Ring)
      BY <3>2, <3>5, PartWords
    <3>7. SubSeq(s, 1, n) \in Seq(Ring)
      BY <3>3, <3>6 DEF z
    <3>8. recv[p] \o SubSeq(s, 1, n) \in Seq(Ring)
      BY <1>0, <3>7
    <3>9. SubSeq(s, n + 1, Len(s)) \in Seq(Ring)
      BY <3>3, <3>4
    <3>10. recv' \in [Online -> Seq(Ring)] /\ chan' \in [Online -> Seq(Ring)]
      BY <1>0, <3>1, <3>8, <3>9
    <3>. QED  BY <1>0, <3>1, <3>10 DEF WordsInv
  <2>5. CASE FinishLevel(p)
    BY <1>0, <2>5 DEF FinishLevel, WordsInv
  <2>6. CASE NoOutputs(p)
    BY <1>0, <2>6 DEF NoOutputs, WordsInv
  <2>7. CASE SendOutputs(p)
    <3> DEFINE v == On(wires[p], circ.outputs)
    <3>1. /\ chan' = [chan EXCEPT ![q] = @ \o v] /\ mine' = mine /\ recv' = recv
      BY <2>7 DEF SendOutputs
    <3>2. circ.outputs \in Seq(Nat) /\ Elems(circ.outputs) \subseteq Wires(circ)
      BY <2>0, CircuitAssumption, ShapeAssumption DEF WellShaped
    <3>3. wires[p] \in [Wires(circ) -> Ring]
      BY SharesAreWords DEF Share
    <3>4. \A i \in 1 .. Len(circ.outputs) : wires[p][circ.outputs[i]] \in Ring
      BY <3>2, <3>3 DEF Elems
    <3>5. v = [i \in 1 .. Len(circ.outputs) |-> wires[p][circ.outputs[i]]] /\ Len(circ.outputs) \in Nat
      BY <3>2 DEF On
    <3>6. v \in Seq(Ring)
      BY <3>4, <3>5
    <3> HIDE DEF v
    <3>7. chan[q] \o v \in Seq(Ring)
      BY <1>0, <2>0, <3>6
    <3>8. chan' \in [Online -> Seq(Ring)]
      BY <1>0, <3>1, <3>7
    <3>. QED  BY <1>0, <3>1, <3>8 DEF WordsInv
  <2>8. CASE RecvOutputs(p)
    <3> DEFINE n == Len(circ.outputs)
               s == chan[p]
               k == Len(s) - n
    <3>1. /\ Len(s) >= n /\ mine' = mine /\ recv' = recv
          /\ chan' = [chan EXCEPT ![p] = SubSeq(s, n + 1, Len(s))]
      BY <2>8 DEF RecvOutputs
    <3>2. n \in Nat /\ Len(s) \in Nat /\ s \in Seq(Ring)
      BY <1>0, InvAt
    <3>3. k \in Nat /\ n + k = Len(s) /\ n + k <= Len(s)
      BY <3>1, <3>2
    <3> HIDE DEF n, s, k
    <3>4. SubSeq(s, n + 1, n + k) \in Seq(Ring)
      BY <3>2, <3>3, PartWords
    <3>5. SubSeq(s, n + 1, Len(s)) \in Seq(Ring)
      BY <3>3, <3>4
    <3>6. chan' \in [Online -> Seq(Ring)]
      BY <1>0, <3>1, <3>5
    <3>. QED  BY <1>0, <3>1, <3>6 DEF WordsInv
  <2>. QED  BY <1>2, <2>1, <2>2, <2>3, <2>4, <2>5, <2>6, <2>7, <2>8 DEF Step
<1>. QED  BY <1>1, <1>2 DEF Next

LEMMA OutcomeWords ==
  ASSUME ExchangeInv, ContentInv, NEW p \in Online PROVE outvals[p] \in Seq(Ring)
<1>1. /\ circ \in Circuits /\ inputs \in InputsOf(circ) /\ deal \in DealsOf(circ) /\ tape \in SharedTapes
      /\ outvals[p] = IF pc[p] = "done" THEN Outcome(circ, Lock[level[p] - 1], p) ELSE <<>>
      /\ Other(p) \in Online
  BY ContentAt DEF Holds
<1>2. level[p] \in 1 .. (Len(circ.levels) + 1) /\ Len(circ.levels) \in Nat
  BY InvAt
<1> DEFINE j == level[p] - 1
           o == circ.outputs
           r == Outcome(circ, Lock[j], p)
<1>3. j \in 0 .. Len(circ.levels)
  BY <1>2
<1> HIDE DEF j
<1>4. \A q \in Online : WordsOn(circ, Lock[j][q])
  BY <1>1, <1>3, LockstepWords DEF Lock
<1>5. o \in Seq(Nat) /\ Elems(o) \subseteq Wires(circ)
  BY <1>1, CircuitAssumption, ShapeAssumption DEF WellShaped
<1>6. Len(o) \in Nat /\ DOMAIN o = 1 .. Len(o)
  BY <1>5
<1>7. ASSUME NEW i \in 1 .. Len(o) PROVE r[i] \in Ring
  <2> DEFINE x == Lock[j][p][o[i]]
             y == Lock[j][Other(p)][o[i]]
  <2>1. o[i] \in Wires(circ)
    BY <1>5, <1>6 DEF Elems
  <2>2. x \in Ring /\ y \in Ring
    BY <1>1, <1>4, <2>1 DEF WordsOn
  <2>3. r[i] = IF circ.bin[i] THEN XorW(x, y) ELSE Plus(x, y)
    BY <1>6 DEF Outcome
  <2> HIDE DEF x, y, r
  <2>4. XorW(x, y) \in Ring /\ Plus(x, y) \in Ring
    BY <2>2, BitOps, RingOps
  <2>. QED  BY <2>3, <2>4
<1>8. r = [i \in 1 .. Len(o) |-> r[i]]
  BY <1>6 DEF Outcome
<1> HIDE DEF r
<1>9. r \in Seq(Ring)
  BY <1>6, <1>7, <1>8
<1>10. <<>> \in Seq(Ring)
  OBVIOUS
<1>. QED  BY <1>1, <1>9, <1>10 DEF r, j

(* The variables are functions of the party.                               *)
IsFn(f) == f = [p \in Online |-> f[p]]
FnInv   == IsFn(pc) /\ IsFn(level) /\ IsFn(wires) /\ IsFn(outvals)
LEMMA FnKept == FnInv /\ [Next]_vars => FnInv'
<1> SUFFICES ASSUME FnInv, [Next]_vars PROVE FnInv'
  OBVIOUS
<1>1. ASSUME NEW f, IsFn(f), NEW p, NEW x PROVE IsFn([f EXCEPT ![p] = x])
  BY <1>1 DEF IsFn
<1>2. CASE UNCHANGED vars
  BY <1>2 DEF FnInv, vars, IsFn
<1>3. ASSUME NEW p \in Online, Step(p) PROVE FnInv'
  <2>1. pc' = pc \/ \E x : pc' = [pc EXCEPT ![p] = x]
    BY <1>3 DEF Step, SetInputs, BeginLevel, SendSegment, RecvSegment, FinishLevel, NoOutputs, SendOutputs,
              RecvOutputs
  <2>2. level' = level \/ \E x : level' = [level EXCEPT ![p] = x]
    BY <1>3 DEF Step, SetInputs, BeginLevel, SendSegment, RecvSegment, FinishLevel, NoOutputs, SendOutputs,
              RecvOutputs
  <2>3. wires' = wires \/ \E x : wires' = [wires EXCEPT ![p] = x]
    BY <1>3 DEF Step, SetInputs, BeginLevel, SendSegment, RecvSegment, FinishLevel, NoOutputs, SendOutputs,
              RecvOutputs
  <2>4. outvals' = outvals \/ \E x : outvals' = [outvals EXCEPT ![p] = x]
    BY <1>3 DEF Step, SetInputs, BeginLevel, SendSegment, RecvSegment, FinishLevel, NoOutputs, SendOutputs,
              RecvOutputs
  <2>5. IsFn(pc) /\ IsFn(level) /\ IsFn(wires) /\ IsFn(outvals)
    BY DEF FnInv
  <2>6. IsFn(pc') /\ IsFn(level')
    BY <1>1, <2>1, <2>2, <2>5
  <2>7. IsFn(wires') /\ IsFn(outvals')
    BY <1>1, <2>3, <2>4, <2>5
  <2>. QED  BY <2>6, <2>7 DEF FnInv, IsFn
<1>. QED  BY <1>2, <1>3 DEF Next

LEMMA TypesAre == ExchangeInv /\ ContentInv /\ WordsInv /\ FnInv => TypeOK
<1> SUFFICES ASSUME ExchangeInv, ContentInv, WordsInv, FnInv PROVE TypeOK
  OBVIOUS
<1>1. ASSUME NEW p \in Online
      PROVE  /\ pc[p] \in Phase /\ level[p] \in 1 .. EndStage(circ)
             /\ wires[p] \in Share /\ outvals[p] \in Seq(Ring)
  BY InvAt, SharesAreWords, OutcomeWords DEF InLevel
<1>2. IsFn(pc) /\ IsFn(level) /\ IsFn(wires) /\ IsFn(outvals)
  BY DEF FnInv
<1>3. /\ pc \in [Online -> Phase] /\ level \in [Online -> 1 .. EndStage(circ)]
      /\ wires \in [Online -> Share] /\ outvals \in [Online -> Seq(Ring)]
  <2> DEFINE E == 1 .. EndStage(circ)
             S == Seq(Ring)
  <2>1. \A p \in Online : pc[p] \in Phase /\ level[p] \in E /\ wires[p] \in Share /\ outvals[p] \in S
    BY <1>1
  <2> HIDE DEF E, S
  <2>2. pc \in [Online -> Phase] /\ level \in [Online -> E] /\ wires \in [Online -> Share]
        /\ outvals \in [Online -> S]
    BY <1>2, <2>1 DEF IsFn
  <2>. QED  BY <2>2 DEF E, S
<1>. QED  BY <1>3 DEF TypeOK, WordsInv

TypeInv == ExchangeInv /\ ContentInv /\ WordsInv /\ FnInv
LEMMA TypeInvHolds == Spec => []TypeInv
<1>1. Init => TypeInv
  <2> SUFFICES ASSUME Init PROVE WordsInv /\ FnInv
    BY ExchangeStarts, ContentStarts DEF TypeInv
  <2>1. <<>> \in Seq(Ring)
    OBVIOUS
  <2>2. NoWords \in Groups
    BY <2>1 DEF NoWords, Groups
  <2>3. WordsInv
    BY <2>1, <2>2 DEF WordsInv, Init
  <2>4. FnInv
    BY DEF FnInv, IsFn, Init
  <2>. QED  BY <2>3, <2>4
<1>2. TypeInv /\ [Next]_vars => TypeInv'
  BY ExchangeKept, ContentKept, WordsKept, FnKept DEF TypeInv
<1>. QED  BY <1>1, <1>2, PTL DEF Spec

(* Whatever is combined, shares, opened words and outputs are Ring words.  *)
THEOREM OnlyWords == Spec => []TypeOK
<1>1. TypeInv => TypeOK
  BY TypesAre DEF TypeInv
<1>. QED  BY <1>1, TypeInvHolds, PTL

(* The positions a party reorders by are the revealed values.              *)
LEMMA PositionsAre ==
  ASSUME RefineInv, NEW p \in Online, NEW l \in 1 .. (level[p] - 1), NEW k \in DOMAIN circ.levels[l],
         circ.levels[l][k].type \in {"Reorder", "ReorderInverse"}
  PROVE  PermOf(On(wires[p], circ.levels[l][k].in2), Len(circ.levels[l][k].in2))
<1> DEFINE g == circ.levels[l][k]
           n == Len(circ.levels)
           v == InClear[n]
           m == level[p]
<1>1. /\ ExchangeInv /\ ContentInv /\ circ \in Circuits /\ inputs \in InputsOf(circ)
      /\ deal \in DealsOf(circ) /\ tape \in SharedTapes
  BY DEF RefineInv, ContentInv
<1>2. n \in Nat /\ m \in 1 .. (n + 1) /\ EndStage(circ) = n + 1 /\ m \in 1 .. m
  BY <1>1, InvAt
<1>3. l \in 1 .. n /\ k \in 1 .. Len(circ.levels[l]) /\ l + 1 \in 1 .. m
  <2>1. l \in 1 .. n /\ l + 1 \in 1 .. m
    BY <1>2
  <2>2. circ.levels[l] \in Seq(Gate)
    BY <1>1, <2>1, BeforeFacts
  <2>. QED  BY <2>1, <2>2
<1>4. g \in Gate /\ g \in GatesOf(circ)
  BY <1>1, <1>3, GateAt
<1>5. PermOf(On(v, g.in2), Len(g.in2))
  <2> DEFINE pm == JointPerms(circ, deal)
  <2>1. pm \in PermsOf(circ)
    BY <1>1, PermsGiven
  <2> HIDE DEF pm
  <2>2. Meaningful(circ, Meaning(circ, inputs, pm)[Len(circ.levels)])
    BY <1>1, <2>1, MeaningAssumption
  <2>3. Meaningful(circ, v)
    BY <2>2 DEF pm, InClear
  <2> HIDE DEF v, g
  <2>4. g.type \in {"Reorder", "ReorderInverse"}
    BY DEF g
  <2>. QED  BY <1>4, <2>3, <2>4 DEF Meaningful
<1>6. g.in2 \in Seq(Nat) /\ SortsOf(circ, g.in2) \subseteq {"clear"}
  <2>1. WellSorted(circ)
    BY <1>1, CircuitAssumption
  <2> HIDE DEF g
  <2>2. g.in2 \in Seq(Nat)
    BY <1>4 DEF Gate
  <2>3. g.type \in {"Reorder", "ReorderInverse"}
    BY DEF g
  <2>. QED  BY <1>4, <2>1, <2>2, <2>3, SortsOfGate
<1>7. ASSUME NEW w \in Elems(g.in2) PROVE wires[p][w] = v[w]
  <2> DEFINE j == k - 1
             L == l + 1
             i == m - 1
  <2>1. w \in Wires(circ) /\ Ready(circ, l, j, w)
    <3>1. w \in Reads(g)
      BY DEF Reads
    <3>. QED  BY <1>1, <1>3, <3>1, ReadsReady
  <2>2. j \in 0 .. Len(circ.levels[l]) /\ Len(circ.levels[l]) \in Nat
    BY <1>3
  <2> HIDE DEF j
  <2>3. Ready(circ, l, Len(circ.levels[l]), w)
    BY <2>1, <2>2, ReadyGrows
  <2>4. Ready(circ, L, 0, w)
    BY <1>1, <1>3, <2>3, ReadyNext
  <2>5. L \in 1 .. EndStage(circ) /\ m \in 1 .. EndStage(circ) /\ L <= m
    BY <1>2, <1>3
  <2> HIDE DEF L
  <2>6. Ready(circ, m, 0, w) /\ Ready(circ, EndStage(circ), 0, w)
    <3>1. circ.born[w] <= L /\ circ.born[w] \in Nat
      BY <1>1, <2>1, <2>4, <2>5, BornReady
    <3>2. circ.born[w] <= m /\ circ.born[w] <= EndStage(circ)
      <4>1. /\ EndStage(circ) \in Int /\ L \in Int /\ m \in Int /\ circ.born[w] \in Int
            /\ L <= m /\ m <= EndStage(circ) /\ circ.born[w] <= L
        BY <1>2, <2>5, <3>1
      <4> HIDE DEF m
      <4>. QED  BY <4>1
    <3> DEFINE e == EndStage(circ)
    <3>3. e \in 1 .. EndStage(circ)
      BY <1>2
    <3> HIDE DEF e, m
    <3>4. Ready(circ, m, 0, w)
      BY <1>1, <2>1, <2>5, <3>2, BornReady
    <3>5. Ready(circ, e, 0, w)
      BY <1>1, <2>1, <3>2, <3>3, BornReady DEF e
    <3>. QED  BY <3>4, <3>5 DEF e
  <2>7. pc[p] # "inputs"
    <3>1. m # 1
      BY <1>3
    <3>. QED  BY <1>1, <3>1, ContentAt DEF Holds
  <2>8. wires[p][w] = Lock[m - 1][p][w]
    BY <1>1, <1>2, <2>1, <2>6, <2>7, HeldReady
  <2>9. Opens(circ, Lock[m - 1][1], Lock[m - 1][2], InClear[m - 1], w)
    <3> HIDE DEF m
    <3>. QED  BY <2>1, <2>5, <2>6, LockOpens
  <2>10. InClear[m - 1][w] = v[w]
    <3>1. i \in 0 .. n /\ i + 1 = m /\ n \in 0 .. n
      BY <1>2
    <3>2. Runs(circ, InClear)
      BY <1>1, MeaningRuns DEF InClear
    <3> HIDE DEF i, n, m
    <3>3. Steady(circ, InClear, n)
      BY <1>1, <3>1, <3>2, RunSettles DEF n
    <3>4. Ready(circ, i + 1, 0, w)
      BY <2>6, <3>1
    <3>5. InClear[n][w] = InClear[i][w]
      BY <2>1, <3>1, <3>3, <3>4 DEF Steady
    <3>. QED  BY <3>5 DEF i
  <2>11. Sort(Producer(circ, w)) = "clear"
    <3> HIDE DEF g
    <3>. QED  BY <1>6, <1>7 DEF SortsOf
  <2> DEFINE a == Lock[m - 1][1][w]
             b == Lock[m - 1][2][w]
  <2>12. v[w] \in Ring /\ v[w] = IF a = b THEN a ELSE -1
    BY <2>9, <2>10, <2>11 DEF Opens, Opening
  <2>13. a = b /\ v[w] = a
    BY <2>12, RingInt
  <2>14. Lock[m - 1][p][w] = a \/ Lock[m - 1][p][w] = b
    BY DEF Online
  <2>. QED  BY <2>8, <2>13, <2>14
<1>8. On(wires[p], g.in2) = On(v, g.in2)
  <2> HIDE DEF g, v
  <2>. QED  BY <1>7, OnSame
<1>. QED  BY <1>5, <1>8

(* A party that uses revealed values as positions finds every position     *)
(* once, and all it holds are words.                                       *)
THEOREM PositionsStayInRange ==
  ASSUME \A c \in Circuits : NoConstAdd(c) PROVE Spec => []PositionsInRange
<1> DEFINE Inv == TypeInv /\ NoConstAdd(circ)
<1>1. TypeInv => NoConstAdd(circ)
  BY DEF TypeInv, ContentInv
<1>2. Inv => PositionsInRange
  <2> SUFFICES ASSUME TypeInv, NoConstAdd(circ) PROVE PositionsInRange
    OBVIOUS
  <2>1. RefineInv
    BY DEF TypeInv, RefineInv
  <2>2. TypeOK
    BY TypesAre DEF TypeInv
  <2>3. \A p \in Online : \A l \in 1 .. (level[p] - 1) : \A k \in DOMAIN circ.levels[l] :
          circ.levels[l][k].type \in {"Reorder", "ReorderInverse"} =>
            PermOf(On(wires[p], circ.levels[l][k].in2), Len(circ.levels[l][k].in2))
    BY <2>1, PositionsAre
  <2>. QED  BY <2>2, <2>3 DEF PositionsInRange
<1>. QED  BY <1>1, <1>2, TypeInvHolds, PTL
=============================================================================
