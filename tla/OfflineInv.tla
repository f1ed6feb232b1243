----------------------------- MODULE OfflineInv -----------------------------
(***************************************************************************)
(* The inductive invariant behind the properties of Offline.  It counts    *)
(* what every gate uses up as a function of the gates before it (Used),    *)
(* says that the helper's ledger is the sum of these, that each party's    *)
(* tables have an entry exactly for the permutations made so far, and      *)
(* which part of the helper's words is where on its way to a party.        *)
(***************************************************************************)
EXTENDS Offline

ShuffleGate == {"Shuffle", "DoubleShuffle"}
TripleGate  == ArithTriple \cup BinTriple \cup {"GenCompaction"}

(* The permutation names that occur in the circuit.                        *)
Names == UNION {PermNames(gates[i]) : i \in 1 .. Len(gates)}

(* One of the first k gates has made the permutation m.                    *)
Made(k, m) == \E i \in 1 .. k : /\ gates[i].type \in ShuffleGate
                                /\ gates[i].param = m
                                /\ gates[i].n > 0

(* Elements of a permutation that gate k is the first to make.             *)
Making(k) == IF Made(k - 1, gates[k].param) THEN 0 ELSE gates[k].n

(* Stream positions and dealt words that gate k uses up.                   *)
Used(k) ==
  LET n == gates[k].n
      f == Making(k)
      t == gates[k].type
  IN  [p01      |-> CASE t \in TripleGate     -> 3 * n
                      [] t = "Shuffle"       -> n + 2 * f
                      [] t = "DoubleShuffle" -> n + f
                      [] OTHER               -> 0,
       p02      |-> CASE t \in TripleGate     -> 2 * n
                      [] t \in ShuffleGate    -> n + f
                      [] OTHER               -> 0,
       sec      |-> CASE t \in TripleGate     -> n
                      [] t \in ShuffleGate    -> n + f
                      [] OTHER               -> 0,
       secToOne |-> CASE t = "Shuffle"       -> n
                      [] t = "DoubleShuffle" -> n + f
                      [] OTHER               -> 0]

(* The ledger adds up, and its last entry is where the helper is.          *)
LedgerInv ==
  /\ Len(ledger) = Len(preproc[0])
  /\ \A k \in 1 .. Len(ledger) :
       /\ ledger[k].p01      = HelperBefore(k).p01      + Used(k).p01
       /\ ledger[k].p02      = HelperBefore(k).p02      + Used(k).p02
       /\ ledger[k].sec      = HelperBefore(k).sec      + Used(k).sec
       /\ ledger[k].secToOne = HelperBefore(k).secToOne + Used(k).secToOne
  /\ Positions(ctx[0]) = HelperBefore(Len(ledger) + 1)

(* Words are only ever added, and party 1 is never dealt more of them.     *)
LedgerGrows ==
  \A i, j \in 1 .. (Len(ledger) + 1) : i <= j =>
    /\ HelperBefore(i).sec      <= HelperBefore(j).sec
    /\ HelperBefore(i).secToOne <= HelperBefore(j).secToOne
    /\ HelperBefore(j).secToOne <= HelperBefore(j).sec

(* A party takes a permutation for new iff no gate before has made it.     *)
TablesInv ==
  \A p \in Party : \A m \in Names :
    NewPerm(ctx[p].perms, m) <=> ~ Made(Len(preproc[p]), m)

(* The helper's entries are permutations as long as the gate that made     *)
(* them, and it has passed a double shuffle only with both parts made.     *)
HelperEntries(perms, k) ==
  \A m \in Names : ~ NewPerm(perms, m) =>
    \E i \in 1 .. k :
      /\ m \in PermNames(gates[i])
      /\ LET e == perms[m + 1]
             n == gates[i].n
         IN  /\ IsPermutation(e.pi0, n)  /\ IsPermutation(e.pi1, n)
             /\ IsPermutation(e.rho0, n) /\ IsPermutation(e.rho1, n)
PartsMade(k) == \/ Made(k - 1, gates[k].param)
                \/ /\ Made(k - 1, gates[k].param2)
                   /\ Made(k - 1, gates[k].param3)
HelperInv ==
  /\ HelperEntries(ctx[0].perms, Len(preproc[0]))
  /\ \A k \in 1 .. Len(preproc[0]) :
       gates[k].type = "DoubleShuffle" => PartsMade(k)

(* Who can be where: an online party leaves recv only after the helper has *)
(* walked the whole circuit, and starts its own walk with fresh cursors.   *)
HelperWalks == pc[0] \in {"walk", "threw"}
PhaseInv ==
  /\ pc[0] \in {"walk", "threw", "lengths", "lengthToOne", "data2", "data1", "done"}
  /\ \A p \in Party : Len(preproc[p]) <= Len(gates)
  /\ ~ HelperWalks => Len(preproc[0]) = Len(gates)
  /\ \A q \in Online :
       /\ pc[q] \in {"length", "data", "walk", "done"}
       /\ pc[q] # "length" => ~ HelperWalks
       /\ pc[q] \in {"length", "data"} =>
            /\ ctx[q].p01 = 0 /\ ctx[q].p02 = 0 /\ ctx[q].idx = 0
            /\ ctx[q].perms = <<>> /\ preproc[q] = <<>>
       /\ pc[q] = "done" => Len(preproc[q]) = Len(gates)

(* How much of q's data the helper has put on the wire, and whether the    *)
(* lengths that precede it are out.                                        *)
LengthsSent(q) ==
  pc[0] \in IF q = 2 THEN {"lengthToOne", "data2", "data1", "done"}
                     ELSE {"data2", "data1", "done"}
SentTo(q) ==
  IF pc[0] = DataPhase(q) THEN off
  ELSE IF pc[0] \in (IF q = 2 THEN {"data1", "done"} ELSE {"done"})
       THEN Len(Outgoing(q))
  ELSE 0

(* Length words in front of the data in flight to q.                       *)
HeadLen(q) == IF pc[q] = "length" /\ LengthsSent(q) THEN LengthWords(q) ELSE 0

(* The words q has received, then the words in flight, are a prefix of     *)
(* what the helper deals to q, behind the lengths until q has read them.   *)
WireFor(q) ==
  /\ pc[0] = DataPhase(q) => off <= Len(Outgoing(q))
  /\ pc[q] = "length" => Received(q) = <<>>
  /\ pc[q] # "length" => LengthsSent(q) /\ expect[q] = Len(Outgoing(q))
  /\ pc[q] \in {"walk", "done"} => Len(Received(q)) = Len(Outgoing(q))
  /\ Len(Received(q)) + Len(wire[q]) = HeadLen(q) + SentTo(q)
  /\ HeadLen(q) > 0 => wire[q][1] = Len(Outgoing(q))
  /\ \A i \in 1 .. Len(Received(q)) : Received(q)[i] = Outgoing(q)[i]
  /\ \A i \in (HeadLen(q) + 1) .. Len(wire[q]) :
       wire[q][i] = Outgoing(q)[Len(Received(q)) + i - HeadLen(q)]
WireInv ==
  /\ pc[0] \notin {"data2", "data1"} => off = 0
  /\ \A q \in Online : WireFor(q)

IInv == /\ TypeOK
        /\ LedgerInv
        /\ LedgerGrows
        /\ TablesInv
        /\ HelperInv
        /\ PhaseInv
        /\ WireInv
        /\ StreamsInStep
-----------------------------------------------------------------------------
(* What the words and tables mean.  Every gate's material is described from *)
(* the helper's position when it reached the gate, which StreamsInStep says *)
(* is everyone's.                                                          *)
Bin(k) == gates[k].type \in BinTriple

(* The position at which gate k draws its masks and deals their shares,    *)
(* behind the permutation if it is the first to make one.                  *)
MasksFrom(k) ==
  LET b == HelperBefore(k)
      d == gates[k].type = "DoubleShuffle"
  IN  [p01      |-> b.p01 + (IF d THEN Making(k) ELSE 2 * Making(k)),
       p02      |-> b.p02 + Making(k),
       sec      |-> b.sec + Making(k),
       secToOne |-> b.secToOne + (IF d THEN Making(k) ELSE 0)]

(* What the helper has dealt for gate k, c being its context.              *)
TripleWords(k, c) ==
  \A j \in Idx(gates[k].n) :
    c.sec[HelperBefore(k).sec + j + 1] = SecretFor2(HelperBefore(k), Bin(k), j)

(* The gate that makes an entry draws it here and deals it there.          *)
EntryWords(k, c) ==
  LET e == c.perms[gates[k].param + 1]
      b == HelperBefore(k)
      n == gates[k].n
  IN  /\ e.pi0 = RandomPerm("p01", b.p01, n)
      /\ gates[k].type = "Shuffle" =>
           /\ e.rho0 = RandomPerm("p01", b.p01 + n, n)
           /\ e.pi1 = RandomPerm("p02", b.p02, n)
           /\ \A j \in Idx(n) : c.sec[b.sec + j + 1] = e.rho1[j]
      /\ gates[k].type = "DoubleShuffle" =>
           /\ e.rho1 = RandomPerm("p02", b.p02, n)
           /\ \A j \in Idx(n) : /\ c.sec[b.sec + j + 1] = e.pi1[j]
                                /\ c.secToOne[b.secToOne + j + 1] = e.rho0[j]

(* The two orders in which an entry can be applied agree, and a double     *)
(* shuffle undoes param2 and applies param3.                               *)
EntryRight(k, c) ==
  LET e == c.perms[gates[k].param + 1] IN
  \A j \in Idx(gates[k].n) : e.rho1[e.rho0[j]] = e.pi0[e.pi1[j]]
HelperPi(c, m, n) == Composed(c.perms[m + 1], n)
DoubleRight(k, c) ==
  LET g == gates[k] IN
  \A j \in Idx(g.n) :
    /\ ~ NewPerm(c.perms, g.param2) /\ ~ NewPerm(c.perms, g.param3)
    /\ HelperPi(c, g.param, g.n)[HelperPi(c, g.param2, g.n)[j]]
         = HelperPi(c, g.param3, g.n)[j]

(* The dealt words of gate k share the image of its masks.                 *)
MaskWords(k, c) ==
  LET g  == gates[k]
      b  == MasksFrom(k)
      pi == HelperPi(c, g.param, g.n)
  IN  \A j \in Idx(g.n) :
        LET from == IF g.reverse THEN pi[j] ELSE j
            to   == IF g.reverse THEN j ELSE pi[j]
        IN  Plus(c.secToOne[b.secToOne + to + 1], c.sec[b.sec + to + 1])
              = Plus(RingWord("p01", b.p01 + from), RingWord("p02", b.p02 + from))

GateDealt(k, c) ==
  /\ gates[k].type \in TripleGate => TripleWords(k, c)
  /\ gates[k].type \in ShuffleGate =>
       /\ Making(k) > 0 => EntryWords(k, c)
       /\ EntryRight(k, c)
       /\ gates[k].type = "DoubleShuffle" => DoubleRight(k, c)
       /\ MaskWords(k, c)
GatesDealt == \A k \in 1 .. Len(preproc[0]) : GateDealt(k, ctx[0])

(* Party q standing where the helper stood, with the words as dealt: what  *)
(* it stores for a gate is what it computes there, and its half of every   *)
(* permutation is the helper's.                                            *)
Standing(q, b) ==
  [p01 |-> b.p01, p02 |-> b.p02, idx |-> IF q = 1 THEN b.secToOne ELSE b.sec,
   sec |-> ctx[0].sec, secToOne |-> ctx[0].secToOne]
StoredAt(q, k) ==
  LET d == preproc[q][k] IN
  /\ gates[k].type \in TripleGate =>
       d = Triples(q, Standing(q, HelperBefore(k)), Bin(k), gates[k].n)
  /\ gates[k].type \in ShuffleGate =>
       d = MaskedShuffle(q, Standing(q, MasksFrom(k)), gates[k])
  /\ gates[k].type \notin TripleGate \cup ShuffleGate => d.kind \in {"input", "empty"}
SameHalf(q, e, h) == IF q = 1 THEN e.pi0 = h.pi0 /\ e.rho0 = h.rho0
                              ELSE e.pi1 = h.pi1 /\ e.rho1 = h.rho1
StoredInv ==
  \A q \in Online :
    /\ \A k \in 1 .. Len(preproc[q]) : StoredAt(q, k)
    /\ \A m \in Names : ~ NewPerm(ctx[q].perms, m) =>
         SameHalf(q, ctx[q].perms[m + 1], ctx[0].perms[m + 1])

(* Entries nobody has filled are fillers in every component.               *)
Fillers(perms) == \A m \in 1 .. Len(perms) : Unfilled(perms, m - 1) => perms[m] = NoEntry
FillersInv == \A p \in Party : Fillers(ctx[p].perms)

MaterialInv == GatesDealt /\ StoredInv /\ FillersInv
-----------------------------------------------------------------------------
(* What the online parties have for gate k when the preprocessing is over: *)
(* shares of triples, and the halves of permutations with the masks that   *)
(* belong to them.  The parts of a double shuffle have been made.          *)
TripleLeft(k, d1, d2) ==
  LET n   == gates[k].n
      Add(x, y) == IF Bin(k) THEN XorW(x, y) ELSE Plus(x, y)
      Mult(x, y) == IF Bin(k) THEN AndW(x, y) ELSE Times(x, y)
  IN  /\ \A d \in {d1, d2} : {d.a, d.b, d.c} \subseteq [Idx(n) -> Ring]
      /\ \A j \in Idx(n) :
           Mult(Add(d1.a[j], d2.a[j]), Add(d1.b[j], d2.b[j])) = Add(d1.c[j], d2.c[j])
HalvesLeft(k, e1, e2) ==
  LET g == gates[k] IN
  /\ IsPermutation(e1.pi0, g.n) /\ IsPermutation(e1.rho0, g.n)
  /\ IsPermutation(e2.pi1, g.n) /\ IsPermutation(e2.rho1, g.n)
  /\ \A j \in Idx(g.n) : e2.rho1[e1.rho0[j]] = e1.pi0[e2.pi1[j]]
MasksLeft(k, d1, d2) ==
  LET g  == gates[k]
      pi == Joint(g.param, g.n)
  IN  /\ \A d \in {d1, d2} : {d.mask, d.b} \subseteq [Idx(g.n) -> Ring]
      /\ \A j \in Idx(g.n) :
           LET from == IF g.reverse THEN pi[j] ELSE j
               to   == IF g.reverse THEN j ELSE pi[j]
           IN  Plus(d1.b[to], d2.b[to]) = Plus(d1.mask[from], d2.mask[from])
DoubleLeft(k) ==
  LET g == gates[k] IN
  /\ Made(k, g.param2) /\ Made(k, g.param3)
  /\ \A j \in Idx(g.n) :
       Joint(g.param, g.n)[Joint(g.param2, g.n)[j]] = Joint(g.param3, g.n)[j]
GateLeft(k) ==
  LET g == gates[k] IN
  /\ g.type \in TripleGate => TripleLeft(k, preproc[1][k], preproc[2][k])
  /\ g.type \in ShuffleGate /\ g.n > 0 =>
       /\ HalvesLeft(k, ctx[1].perms[g.param + 1], ctx[2].perms[g.param + 1])
       /\ MasksLeft(k, preproc[1][k], preproc[2][k])
       /\ g.type = "DoubleShuffle" => DoubleLeft(k)
LeavesAll ==
  (\A p \in Party : pc[p] = "done") => \A k \in 1 .. Len(gates) : GateLeft(k)
=============================================================================
