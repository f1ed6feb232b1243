----------------------------- MODULE Generators -----------------------------
(***************************************************************************)
(* The static functions of class Circuit (src/src/utils/circuit.h) that    *)
(* build whole circuits, written as what they append to an empty circuit,  *)
(* gate by gate, and then ordered and evaluated by module Evaluate.        *)
(*                                                                         *)
(* Every gate of theirs has one output, so that gates and wires have the   *)
(* same numbers.  The code builds for 64 bits; here a call says for how    *)
(* many, 2^log (log is 6).                                                 *)
(* Arrays of wires are sequences: element i of the code is entry i + 1.    *)
(***************************************************************************)
EXTENDS Evaluate

CONSTANT Generated      \* the calls: [name, log, n], n the parameter

Count(a, b) == [i \in 1 .. (b - a + 1) |-> a + i - 1]
For(a, b, c, Body(_, _)) ==
  LET after[i \in (a - 1) .. b] == IF i < a THEN c ELSE Body(after[i - 1], i)
  IN  IF b < a THEN c ELSE after[b]

(* A circuit being built: the wires the generator holds are in fields of   *)
(* its own.                                                                *)
Empty == [gates |-> <<>>, consts |-> <<>>, outs |-> <<>>, x |-> <<>>, y |-> <<>>,
          p |-> <<>>, g |-> <<>>, beyond |-> FALSE]
Newest(c) == Len(c.gates)
With(c, t, in1, in2, k) ==
  [c EXCEPT !.gates  = Append(@, [type |-> t, in1 |-> in1, in2 |-> in2,
                                  outs |-> <<Len(@) + 1>>, gid |-> Len(@) + 1]),
            !.consts = Append(@, k)]
Gate2(c, t, a, b)  == With(c, t, <<a>>, <<b>>, 0)
WithInputs(c, n)   == For(1, n, c, LAMBDA d, i : With(d, "Inp", <<>>, <<>>, 0))
Outputs(c, ws)     == [c EXCEPT !.outs = ws]
-----------------------------------------------------------------------------
(* Carries: p tells whether a bit passes its carry on, g whether it has    *)
(* one.  An adder combines ranges of bits.                                 *)
Operands(k) ==
  LET c == [WithInputs(Empty, 2 * k) EXCEPT !.x = Count(1, k), !.y = Count(k + 1, 2 * k)]
      Bit(d, i) ==
        LET s == Gate2(d, "Add", d.x[i], d.y[i])
            m == Gate2(s, "Mul", d.x[i], d.y[i])
        IN  [m EXCEPT !.p = Append(@, Newest(s)), !.g = Append(@, Newest(m))]
  IN  For(1, k, c, Bit)

(* Mutant: the wrong propagate bit is updated.                             *)
CombineUpdated(c, to, from) ==
  LET m == Gate2(c, "Mul", c.p[to], c.g[from])
      s == Gate2(m, "Add", c.g[to], Newest(m))
      q == Gate2(s, "Mul", c.p[to], c.p[from])
  IN  [q EXCEPT !.g[to] = Newest(s), !.p[from] = Newest(q)]
Combine(c, to, from) ==
  LET m == Gate2(c, "Mul", c.p[to], c.g[from])
      s == Gate2(m, "Add", c.g[to], Newest(m))
      q == Gate2(s, "Mul", c.p[to], c.p[from])
  IN  [q EXCEPT !.g[to] = Newest(s), !.p[to] = Newest(q)]

(* The last bit of the lower half of a block, and its upper half.          *)
LowerEnd(level, n) == 2^(level - 1) + (n - 1) * 2^level

PPA(log) ==
  LET k == 2^log
      Block(c, level, n) ==
        For(1, 2^(level - 1), c,
            LAMBDA d, i : Combine(d, LowerEnd(level, n) + i, LowerEnd(level, n)))
      Level(c, level) ==
        For(1, k \div 2^level, c, LAMBDA d, n : Block(d, level, n))
      carried == For(1, log, Operands(k), Level)
      Sum(c, i) ==
        LET s == Gate2(c, "Add", c.x[i], c.y[i])
            t == IF i = 1 THEN s ELSE Gate2(s, "Add", Newest(s), c.g[i - 1])
        IN  Outputs(t, Append(c.outs, Newest(t)))
  IN  For(1, k, carried, Sum)

(* Only the carry into the last bit is needed: every block but the last of *)
(* a level updates its last bit, the last one the bit before the last.     *)
PPAMSB(log) ==
  LET k == 2^log
      blocks(level) == k \div 2^level
      Block(c, level, n) ==
        IF n < blocks(level) THEN Combine(c, LowerEnd(level, n) + 2^(level - 1), LowerEnd(level, n))
        ELSE IF level # 1 THEN Combine(c, k - 1, LowerEnd(level, n)) ELSE c
      Level(c, level) == For(1, blocks(level), c, LAMBDA d, n : Block(d, level, n))
      carried == For(1, log, Operands(k), Level)
      s == Gate2(carried, "Add", carried.x[k], carried.y[k])
      t == Gate2(s, "Add", Newest(s), s.g[k - 1])
  IN  Outputs(t, <<Newest(t)>>)
-----------------------------------------------------------------------------
Quarters(log) == log \div 2

(* Products of four, level by level.                                       *)
(* Product of the j-th four wires of x, kept in y.                         *)
(* Mutant: the fours overlap.                                              *)
FourOverlapping(c, j) ==
  LET m == With(c, "Mul4", SubSeq(c.x, 3 * j - 2, 3 * j + 1), <<>>, 0)
  IN  [m EXCEPT !.y = Append(@, Newest(m))]
Four(c, j) ==
  LET m == With(c, "Mul4", SubSeq(c.x, 4 * j - 3, 4 * j), <<>>, 0)
  IN  [m EXCEPT !.y = Append(@, Newest(m))]

MultK(log) ==
  LET k == 2^log
      Level(c, level) ==
        LET d == For(1, k \div 4^level, [c EXCEPT !.y = <<>>], Four) IN [d EXCEPT !.x = d.y]
      c == For(1, Quarters(log), [WithInputs(Empty, k) EXCEPT !.x = Count(1, k)], Level)
  IN  Outputs(c, <<c.x[1]>>)

(* The loops of both prefix circuits over the wires x, blocks of four      *)
(* parts each; copy says how the first part reaches the next level.        *)
PrefixLevels(c0, log, blocks(_), copy) ==
  LET Place(c, i) == [c EXCEPT !.y[i] = Newest(c)]
      Part(c, level, j, i) ==
        LET size == 4^(level - 1)
            p == 4 * (j - 1) * size + 1
            q == p + size
            r == q + size
            s == r + size
            first  == IF copy THEN Place(With(c, "ConstAdd", <<c.x[p + i]>>, <<>>, 0), p + i)
                      ELSE [c EXCEPT !.y[p + i] = c.x[p + i]]
            second == Place(Gate2(first, "Mul", c.x[q], c.x[q + i]), q + i)
            third  == Place(With(second, "Mul3", <<c.x[q], c.x[r], c.x[r + i]>>, <<>>, 0), r + i)
        IN  Place(With(third, "Mul4", <<c.x[q], c.x[r], c.x[s], c.x[s + i]>>, <<>>, 0), s + i)
      Block(c, level, j) == For(0, 4^(level - 1) - 1, c, LAMBDA d, i : Part(d, level, j, i))
      Level(c, level) ==
        LET d == For(1, blocks(level), [c EXCEPT !.y = c.x], LAMBDA e, j : Block(e, level, j))
        IN  [d EXCEPT !.x = d.y]
  IN  For(1, Quarters(log), c0, Level)

ParaPrefixAND(log, repeat) ==
  LET k == 2^log
      n == repeat * k
      c == PrefixLevels([WithInputs(Empty, n) EXCEPT !.x = Count(1, n)], log,
                    LAMBDA level : n \div 4^level, TRUE)
      d == Outputs(c, SelectSeq([i \in 1 .. n |-> IF i % k = 1 THEN 0 ELSE c.x[i]],
                                LAMBDA w : w # 0))
  IN  For(1, repeat, d, LAMBDA e, i : Gate2(e, "Mul", e.x[2], e.x[3]))

PrefixAND(log) ==
  LET k == 2^log
      c == PrefixLevels([WithInputs(Empty, 2 * k) EXCEPT !.x = Count(1, k), !.p = Count(k + 1, 2 * k)], log,
                    LAMBDA level : k \div 4^level, FALSE)
      Complement(d, i) ==
        LET a == With(d, "ConstAdd", <<d.x[i]>>, <<>>, 1) IN [a EXCEPT !.g = Append(@, Newest(a))]
      Change(d, i) ==
        LET a == CASE i = 1 -> With(d, "ConstMul", <<d.g[1]>>, <<>>, 0)
                   [] i = 2 -> With(d, "ConstAdd", <<d.g[2]>>, <<>>, 0)
                   [] OTHER -> Gate2(d, "Add", d.g[i], d.g[i - 1])
        IN  [a EXCEPT !.y = Append(@, Newest(a))]
      e == For(1, k, [For(1, k, c, Complement) EXCEPT !.y = <<>>], Change)
      f == With(With(e, "Dotprod", e.y, e.p, 0), "ConstAdd", <<Newest(e) + 1>>, <<>>, 1)
  IN  Outputs(f, <<Newest(f)>>)

(* Matches of a level of an auction of N bids: the loop compares with the  *)
(* exact quotient, so that it runs once more for a remainder.              *)
(* Mutant: the loop includes its bound.                                    *)
MatchesInclusive(N, level) == N \div 2^level + 1
Matches(N, level) == (N + 2^level - 1) \div 2^level

(* The largest of N numbers.  A level is allocated N / 2^level entries,    *)
(* rounded down: unless N is a power of two, a level's matches run past    *)
(* the end of the level below and of their own.                            *)
Auction(N) ==
  LET bound == CHOOSE b \in 0 .. N : 2^b <= N /\ N < 2^(b + 1)
      Match(c, level, i) ==
        IF c.beyond \/ 2 * i > Len(c.x) \/ i > N \div 2^level THEN [c EXCEPT !.beyond = TRUE]
        ELSE LET a == c.x[2 * i - 1]
                 b == c.x[2 * i]
                 t1 == Gate2(c, "Sub", a, b)
                 t2 == With(t1, "Ltz", <<Newest(t1)>>, <<>>, 0)
                 t3 == With(t2, "ConstMul", <<Newest(t2)>>, <<>>, Modulus - 1)
                 t4 == With(t3, "ConstAdd", <<Newest(t3)>>, <<>>, 1)
                 t5 == Gate2(t4, "Mul", Newest(t4), Newest(t1))
                 t6 == Gate2(t5, "Add", Newest(t5), b)
             IN  [t6 EXCEPT !.y = Append(@, Newest(t6))]
      Level(c, level) ==
        LET d == For(1, Matches(N, level), [c EXCEPT !.y = <<>>],
                     LAMBDA e, i : Match(e, level, i))
        IN  [d EXCEPT !.x = d.y]
      c == For(1, bound, [WithInputs(Empty, N * N + N) EXCEPT !.x = Count(N * N + 1, N * N + N)], Level)
  IN  IF c.beyond THEN c ELSE Outputs(c, <<c.x[1]>>)

CDA == Empty

CircuitOf(f) ==
  CASE f.name = "PPA" -> PPA(f.log)
    [] f.name = "PPAMSB" -> PPAMSB(f.log)
    [] f.name = "MultK" -> MultK(f.log)
    [] f.name = "PrefixAND" -> PrefixAND(f.log)
    [] f.name = "ParaPrefixAND" -> ParaPrefixAND(f.log, f.n)
    [] f.name = "Auction" -> Auction(f.n)
    [] f.name = "CDA" -> CDA
-----------------------------------------------------------------------------
VARIABLE call           \* the generators that were called: one or none

genvars == <<evalvars, call>>

GenInit == EvalInit /\ call = <<>>
Generate == \E f \in Generated : \E c \in {CircuitOf(f)} :
  /\ pc = "build" /\ call = <<>>
  /\ call' = <<f>>
  /\ IF c.beyond THEN pc' \in {"thrown", "crashed"} /\ UNCHANGED <<built, consts>>
     ELSE /\ gates' = c.gates
          /\ num_wires' = Newest(c)
          /\ outputs' = [i \in DOMAIN c.outs |-> [wire |-> c.outs[i], bin |-> FALSE]]
          /\ consts' = c.consts
          /\ UNCHANGED pc
  /\ UNCHANGED <<next, gate_level, wire_level, depth, by_level, evaluation>>

GenNext == \/ Generate
           \/ call # <<>> /\ (Order \/ Evaluating) /\ UNCHANGED call
GenSpec == GenInit /\ [][GenNext]_genvars
-----------------------------------------------------------------------------
Done(name) == stage = "done" /\ call[1].name = name
Bits       == 2^call[1].log

(* The number whose bits are the values of wires a .. b, the least         *)
(* significant first.                                                      *)
Number(a, b) == For(a, b, 0, LAMBDA x, i : x + inputs[i] * 2^(i - a))
Sum          == Number(1, Bits) + Number(Bits + 1, 2 * Bits)
BitOf(x, i)  == (x \div 2^i) % 2

(* The parallel prefix adder adds, modulo 2^64; the one that computes a    *)
(* single carry gives the sign of the sum.  Both take a round for the      *)
(* first carries and one per doubling of the blocks, not one per bit.      *)
AddersAdd ==
  /\ Done("PPA")    => result = [i \in 1 .. Bits |-> BitOf(Sum, i - 1)]
  /\ Done("PPAMSB") => result = <<BitOf(Sum, Bits - 1)>>
  /\ pc = "ordered" /\ call[1].name \in {"PPA", "PPAMSB"} => depth <= call[1].log + 1

(* The product of all inputs, over several levels of products of four.     *)
ProductOfAll == Done("MultK") => result = <<Product(inputs, Count(1, Bits))>>

(* An auction of a power of two of bids stays within the arrays of its     *)
(* levels.                                                                 *)
AuctionStaysInside ==
  pc \in {"thrown", "crashed"} /\ gates = <<>> => \A b \in 0 .. 6 : 2^b # call[1].n
=============================================================================
