------------------------- MODULE Centrality_proofs --------------------------
(***************************************************************************)
(* The sorts of the centrality circuits, for any list, any number of bits  *)
(* and any shuffles: every ordering is the stable sort it is meant to be,  *)
(* and pi_2 marks exactly the entries that repeat an earlier one.          *)
(*                                                                         *)
(* A position is a count: element k comes at the place given by the number *)
(* of elements that do not come after it.  One iteration of the radix sort *)
(* composes the positions by one bit with the positions so far; the result *)
(* is again a permutation, and a permutation is determined by the order it *)
(* puts things in.                                                         *)
(***************************************************************************)
EXTENDS Centrality, Facts
-----------------------------------------------------------------------------
(* Positions in the stable sort by a key.                                  *)
Before(key, i, k) == key[i] < key[k] \/ (key[i] = key[k] /\ i < k)
NotAfter(key, n, k) == {i \in 1 .. n : key[i] < key[k] \/ (key[i] = key[k] /\ i <= k)}
RanksOf(key, n) == [k \in 1 .. n |-> Cardinality(NotAfter(key, n, k))]
Keys(key, n) == \A k \in 1 .. n : key[k] \in Nat

LEMMA IntervalSize == ASSUME NEW n \in Nat PROVE IsFiniteSet(1 .. n) /\ Cardinality(1 .. n) = n
<1>1. n \in Int
  OBVIOUS
<1>. QED  BY <1>1, FS_Interval

(* Sets with a bijection between them have as many elements.               *)
LEMMA SameSize ==
  ASSUME NEW S, NEW T, NEW f \in [S -> T], IsFiniteSet(S),
         \A x, y \in S : f[x] = f[y] => x = y, \A y \in T : \E x \in S : f[x] = y
  PROVE  IsFiniteSet(T) /\ Cardinality(T) = Cardinality(S)
<1>1. f \in Bijection(S, T)
  BY DEF Bijection, Injection, Surjection, IsInjective
<1>. QED  BY <1>1, FS_Bijection DEF ExistsBijection

LEMMA NotAfterFinite ==
  ASSUME NEW n \in Nat, NEW key, NEW k \in 1 .. n
  PROVE  /\ IsFiniteSet(NotAfter(key, n, k))
         /\ Cardinality(NotAfter(key, n, k)) \in Nat /\ Cardinality(NotAfter(key, n, k)) <= n
<1>1. NotAfter(key, n, k) \in SUBSET (1 .. n)
  BY DEF NotAfter
<1>. QED  BY <1>1, IntervalSize, FS_Subset, FS_CardinalityType

(* What the module calls a rank is the number of elements not after.       *)
LEMMA RankIs ==
  ASSUME NEW n \in Nat, NEW key, Keys(key, n), NEW k \in 1 .. n
  PROVE  Cardinality({i \in 1 .. n : key[i] < key[k]}) + Cardinality({i \in 1 .. k : key[i] = key[k]})
           = RanksOf(key, n)[k]
<1> DEFINE A == {i \in 1 .. n : key[i] < key[k]}
           B == {i \in 1 .. k : key[i] = key[k]}
<1>1. A \in SUBSET (1 .. n) /\ B \in SUBSET (1 .. n)
  OBVIOUS
<1>2. A \cup B = NotAfter(key, n, k) /\ A \cap B = {}
  BY DEF NotAfter, Keys
<1>3. RanksOf(key, n)[k] = Cardinality(NotAfter(key, n, k))
  BY DEF RanksOf
<1> HIDE DEF A, B
<1>4. IsFiniteSet(A) /\ IsFiniteSet(B)
  BY <1>1, IntervalSize, FS_Subset
<1>5. Cardinality(A \cup B) = Cardinality(A) + Cardinality(B) - Cardinality(A \cap B)
  BY <1>4, FS_Union
<1>6. Cardinality(A \cap B) = 0 /\ Cardinality(A) \in Nat /\ Cardinality(B) \in Nat
  BY <1>2, <1>4, FS_EmptySet, FS_CardinalityType
<1>7. Cardinality(A) + Cardinality(B) = Cardinality(NotAfter(key, n, k))
  <2> DEFINE a == Cardinality(A)
             b == Cardinality(B)
             c == Cardinality(A \cup B)
             z == Cardinality(A \cap B)
  <2>1. c = a + b - z /\ z = 0 /\ a \in Nat /\ b \in Nat
    BY <1>5, <1>6
  <2> HIDE DEF a, b, c, z
  <2>2. a + b = c
    BY <2>1
  <2>. QED  BY <1>2, <2>2 DEF a, b, c
<1>. QED  BY <1>3, <1>7 DEF A, B

(* Ranks are in the order of the keys, equal keys in the order of the list *)
(* (and no two of them are the same).                                      *)
LEMMA RanksOrdered ==
  ASSUME NEW n \in Nat, NEW key, Keys(key, n)
  PROVE  /\ PermOf(RanksOf(key, n), n)
         /\ \A i, k \in 1 .. n : RanksOf(key, n)[i] < RanksOf(key, n)[k] <=> Before(key, i, k)
<1> DEFINE r == RanksOf(key, n)
           N(k) == NotAfter(key, n, k)
<1>1. ASSUME NEW k \in 1 .. n PROVE r[k] = Cardinality(N(k)) /\ r[k] \in 1 .. n
  <2>1. r[k] = Cardinality(N(k))
    BY DEF RanksOf
  <2>2. IsFiniteSet(N(k)) /\ Cardinality(N(k)) \in Nat /\ Cardinality(N(k)) <= n
    BY NotAfterFinite
  <2>3. k \in N(k)
    BY DEF NotAfter, Keys
  <2>4. Cardinality(N(k)) # 0
    BY <2>2, <2>3, FS_EmptySet
  <2>. QED  BY <2>1, <2>2, <2>4
<1>2. ASSUME NEW i \in 1 .. n, NEW k \in 1 .. n, Before(key, i, k) PROVE r[i] < r[k]
  <2>1. N(i) \in SUBSET N(k) /\ k \in N(k) /\ k \notin N(i)
    BY <1>2 DEF NotAfter, Before, Keys
  <2>2. IsFiniteSet(N(k))
    BY NotAfterFinite
  <2>3. r[i] = Cardinality(N(i)) /\ r[k] = Cardinality(N(k)) /\ r[i] \in Nat /\ r[k] \in Nat
    BY <1>1
  <2> HIDE DEF r, N
  <2>4. Cardinality(N(i)) <= Cardinality(N(k)) /\ Cardinality(N(k)) # Cardinality(N(i))
    BY <2>1, <2>2, FS_Subset
  <2>. QED  BY <2>3, <2>4
<1>3. \A i, k \in 1 .. n : i # k => Before(key, i, k) \/ Before(key, k, i)
  BY DEF Before, Keys
<1>4. r \in [1 .. n -> 1 .. n]
  <2>1. r = [k \in 1 .. n |-> r[k]]
    BY DEF RanksOf
  <2> HIDE DEF r
  <2>. QED  BY <1>1, <2>1
<1> HIDE DEF r
<1>5. \A i, k \in 1 .. n : r[i] = r[k] => i = k
  BY SMTT(30), <1>2, <1>3, <1>4
<1>6. \A i, k \in 1 .. n : r[i] < r[k] => Before(key, i, k)
  <2> TAKE i, k \in 1 .. n
  <2>1. r[i] \in Nat /\ r[k] \in Nat
    BY <1>4
  <2>2. Before(key, k, i) => r[k] < r[i]
    BY <1>2
  <2>3. r[i] < r[k] => i # k /\ ~ (r[k] < r[i])
    BY <2>1
  <2>. QED  BY <1>3, <2>2, <2>3
<1>7. PermOf(r, n) /\ \A i, k \in 1 .. n : r[i] < r[k] <=> Before(key, i, k)
  BY <1>2, <1>4, <1>5, <1>6 DEF PermOf
<1>. QED  BY <1>7 DEF r

(* A permutation has every number up to n once as a value.                 *)
Onto(f, n) == \A k \in 1 .. n : \E j \in 1 .. n : f[j] = k
LEMMA PermOnto == ASSUME NEW n \in Nat, NEW f, PermOf(f, n) PROVE Onto(f, n)
BY InjectionOnto DEF PermOf, Onto

LEMMA PermCounts ==
  ASSUME NEW n \in Nat, NEW p, PermOf(p, n), NEW k \in 1 .. n
  PROVE  Cardinality({i \in 1 .. n : p[i] <= p[k]}) = p[k]
<1> DEFINE S == {i \in 1 .. n : p[i] <= p[k]}
           T == 1 .. p[k]
           f == [i \in S |-> p[i]]
<1>1. p \in [1 .. n -> 1 .. n] /\ p[k] \in Nat /\ p[k] <= n
  BY DEF PermOf
<1>2. f \in [S -> T]
  BY <1>1
<1>3. \A x, y \in S : f[x] = f[y] => x = y
  BY DEF PermOf
<1>4. \A y \in T : \E x \in S : f[x] = y
  <2> TAKE y \in T
  <2>1. y \in 1 .. n
    BY <1>1
  <2>2. PICK x \in 1 .. n : p[x] = y
    BY <2>1, PermOnto DEF Onto
  <2>3. x \in S /\ f[x] = y
    BY <1>1, <2>2
  <2>. QED  BY <2>3
<1>5. S \in SUBSET (1 .. n)
  OBVIOUS
<1>6. IsFiniteSet(S)
  BY <1>5, IntervalSize, FS_Subset
<1>7. Cardinality(T) = p[k]
  BY <1>1, IntervalSize
<1> HIDE DEF S, T, f
<1>8. Cardinality(T) = Cardinality(S)
  BY <1>2, <1>3, <1>4, <1>6, SameSize
<1>. QED  BY <1>7, <1>8 DEF S

(* Only one permutation puts things in the order of the keys.              *)
LEMMA OrderDetermines ==
  ASSUME NEW n \in Nat, NEW key, Keys(key, n), NEW p, PermOf(p, n),
         \A i, k \in 1 .. n : p[i] < p[k] <=> Before(key, i, k)
  PROVE  p = RanksOf(key, n)
<1>1. ASSUME NEW k \in 1 .. n PROVE p[k] = RanksOf(key, n)[k]
  <2>1. {i \in 1 .. n : p[i] <= p[k]} = NotAfter(key, n, k)
    <3>1. \A i \in 1 .. n : p[i] <= p[k] <=> p[i] < p[k] \/ i = k
      BY DEF PermOf
    <3>2. \A i \in 1 .. n : (key[i] < key[k] \/ (key[i] = key[k] /\ i <= k)) <=> Before(key, i, k) \/ i = k
      BY DEF Before, Keys
    <3>. QED  BY <3>1, <3>2 DEF NotAfter
  <2>2. RanksOf(key, n)[k] = Cardinality(NotAfter(key, n, k))
    BY DEF RanksOf
  <2>. QED  BY <2>1, <2>2, PermCounts
<1>2. p = [k \in 1 .. n |-> p[k]] /\ RanksOf(key, n) = [k \in 1 .. n |-> RanksOf(key, n)[k]]
  BY DEF PermOf, RanksOf
<1> DEFINE r == RanksOf(key, n)
<1> HIDE DEF r
<1>3. p = r
  <2>1. r = [k \in 1 .. n |-> r[k]] /\ \A k \in 1 .. n : p[k] = r[k]
    BY <1>1, <1>2 DEF r
  <2>. QED  BY <1>2, <2>1
<1>. QED  BY <1>3 DEF r
-----------------------------------------------------------------------------
(* What shuffling and reordering do: they take elements along.             *)
LEMMA InvertedFacts ==
  ASSUME NEW n \in Nat, NEW f, PermOf(f, n)
  PROVE  \A k \in 1 .. n : Inverted(f, n)[k] \in 1 .. n /\ f[Inverted(f, n)[k]] = k
<1> TAKE k \in 1 .. n
<1>1. Inverted(f, n)[k] = CHOOSE j \in 1 .. n : f[j] = k
  BY DEF Inverted
<1>2. \E j \in 1 .. n : f[j] = k
  BY PermOnto DEF Onto
<1>. QED  BY <1>1, <1>2

Vec(x, n, S) == x \in [1 .. n -> S]
Puts(m, x, f, n)  == \A j \in 1 .. n : m[f[j]] = x[j]
Takes(m, x, f, n) == m = [j \in 1 .. n |-> x[f[j]]]

LEMMA MovedFacts ==
  ASSUME NEW n \in Nat, NEW f, PermOf(f, n), NEW S, NEW x, Vec(x, n, S)
  PROVE  /\ Vec(Moved(x, f), n, S) /\ Puts(Moved(x, f), x, f, n)
         /\ Takes(MovedBack(x, f), x, f, n) /\ Vec(MovedBack(x, f), n, S)
<1>1. x \in [1 .. n -> S] /\ Len(x) = n
  BY FunIsSeq DEF Vec
<1> DEFINE h == Inverted(f, n)
<1>2. \A k \in 1 .. n : h[k] \in 1 .. n /\ f[h[k]] = k
  BY InvertedFacts
<1> HIDE DEF h
<1>3. Moved(x, f) = [k \in 1 .. n |-> x[h[k]]]
  BY <1>1 DEF Moved, h
<1>4. f \in [1 .. n -> 1 .. n] /\ \A i, j \in 1 .. n : f[i] = f[j] => i = j
  BY DEF PermOf
<1>5. \A j \in 1 .. n : f[j] \in 1 .. n /\ h[f[j]] = j
  BY <1>2, <1>4
<1>6. MovedBack(x, f) = [j \in 1 .. n |-> x[f[j]]]
  BY <1>1 DEF MovedBack
<1>. QED  BY SMTT(30), <1>1, <1>2, <1>3, <1>4, <1>5, <1>6 DEF Vec, Puts, Takes

LEMMA MovedPerm ==
  ASSUME NEW n \in Nat, NEW f, PermOf(f, n), NEW p, PermOf(p, n)
  PROVE  PermOf(Moved(p, f), n)
<1> DEFINE q == Moved(p, f)
<1>1. p \in [1 .. n -> 1 .. n] /\ \A i, j \in 1 .. n : p[i] = p[j] => i = j
  BY DEF PermOf
<1>2. q \in [1 .. n -> 1 .. n] /\ \A j \in 1 .. n : q[f[j]] = p[j]
  <2>1. Vec(p, n, 1 .. n)
    BY <1>1 DEF Vec
  <2>2. Vec(q, n, 1 .. n) /\ \A j \in 1 .. n : q[f[j]] = p[j]
    <3>1. Vec(q, n, 1 .. n) /\ Puts(q, p, f, n)
      BY <2>1, MovedFacts
    <3>. QED  BY <3>1 DEF Puts
  <2>. QED  BY <2>2 DEF Vec
<1> HIDE DEF q
<1>3. \A k \in 1 .. n : \E j \in 1 .. n : f[j] = k
  BY PermOnto DEF Onto
<1>4. ASSUME NEW a \in 1 .. n, NEW b \in 1 .. n, q[a] = q[b] PROVE a = b
  <2>1. PICK i \in 1 .. n : f[i] = a
    BY <1>3
  <2>2. PICK j \in 1 .. n : f[j] = b
    BY <1>3
  <2>3. p[i] = p[j]
    BY <1>2, <1>4, <2>1, <2>2
  <2>. QED  BY <1>1, <2>1, <2>2, <2>3
<1>5. PermOf(q, n)
  BY <1>2, <1>4 DEF PermOf
<1>. QED  BY <1>5 DEF q

LEMMA ReorderedFacts ==
  ASSUME NEW n \in Nat, NEW y, PermOf(y, n), NEW S, NEW x, Vec(x, n, S)
  PROVE  /\ Vec(Reordered(x, y), n, S) /\ Puts(Reordered(x, y), x, y, n)
         /\ Takes(ReorderedBack(x, y), x, y, n) /\ Vec(ReorderedBack(x, y), n, S)
<1>1. x \in [1 .. n -> S] /\ Len(x) = n
  BY FunIsSeq DEF Vec
<1> DEFINE h == [k \in 1 .. n |-> CHOOSE j \in 1 .. n : y[j] = k]
<1>2. ASSUME NEW k \in 1 .. n PROVE h[k] \in 1 .. n /\ y[h[k]] = k
  <2>1. \E j \in 1 .. n : y[j] = k
    BY PermOnto DEF Onto
  <2>. QED  BY <2>1
<1>3. Reordered(x, y) = [k \in 1 .. n |-> x[h[k]]]
  BY <1>1 DEF Reordered
<1> HIDE DEF h
<1>4. y \in [1 .. n -> 1 .. n] /\ \A i, j \in 1 .. n : y[i] = y[j] => i = j
  BY DEF PermOf
<1>5. \A j \in 1 .. n : y[j] \in 1 .. n /\ h[y[j]] = j
  BY <1>2, <1>4
<1>6. ReorderedBack(x, y) = [j \in 1 .. n |-> x[y[j]]]
  BY <1>1 DEF ReorderedBack
<1> DEFINE r == Reordered(x, y)
           b == ReorderedBack(x, y)
<1>7. r = [k \in 1 .. n |-> x[h[k]]] /\ b = [j \in 1 .. n |-> x[y[j]]]
  BY <1>3, <1>6
<1> HIDE DEF r, b
<1>8. Vec(r, n, S) /\ Puts(r, x, y, n)
  BY <1>1, <1>2, <1>4, <1>5, <1>7 DEF Vec, Puts
<1>9. Vec(b, n, S) /\ Takes(b, x, y, n)
  BY <1>1, <1>4, <1>7 DEF Vec, Takes
<1>. QED  BY <1>8, <1>9 DEF r, b

(* An element that is looked up where sigma put it, all of it under the    *)
(* shuffle f: the shuffle cancels.                                         *)
LEMMA ShuffleCancels ==
  ASSUME NEW n \in Nat, NEW sigma, PermOf(sigma, n), NEW f, PermOf(f, n), NEW S, NEW x,
         Vec(x, n, S)
  PROVE  /\ Vec(Reordered(Moved(x, f), Moved(sigma, f)), n, S)
         /\ Puts(Reordered(Moved(x, f), Moved(sigma, f)), x, sigma, n)
         /\ Takes(MovedBack(ReorderedBack(x, Moved(sigma, f)), f), x, sigma, n)
<1> DEFINE c == Moved(sigma, f)
           m == Moved(x, f)
           r == Reordered(m, c)
           b == ReorderedBack(x, c)
<1>1. sigma \in [1 .. n -> 1 .. n] /\ f \in [1 .. n -> 1 .. n]
  BY DEF PermOf
<1>2. PermOf(c, n) /\ \A e \in 1 .. n : c[f[e]] = sigma[e]
  <2>1. Vec(sigma, n, 1 .. n)
    BY <1>1 DEF Vec
  <2>2. PermOf(c, n) /\ Puts(c, sigma, f, n)
    BY <2>1, MovedPerm, MovedFacts
  <2>. QED  BY <2>2 DEF Puts
<1>3. Vec(m, n, S) /\ Puts(m, x, f, n)
  BY MovedFacts
<1> HIDE DEF c, m
<1>4. Vec(r, n, S) /\ Puts(r, m, c, n)
  BY <1>2, <1>3, ReorderedFacts
<1>5. Takes(b, x, c, n) /\ Vec(b, n, S)
  BY <1>2, ReorderedFacts
<1> HIDE DEF r, b
<1>6. Takes(MovedBack(b, f), b, f, n)
  BY <1>5, MovedFacts
<1>7. ASSUME NEW e \in 1 .. n PROVE r[sigma[e]] = x[e] /\ b[f[e]] = x[sigma[e]]
  <2>1. f[e] \in 1 .. n
    BY <1>1
  <2>2. c[f[e]] \in 1 .. n /\ c[f[e]] = sigma[e] /\ m[f[e]] = x[e]
    BY <1>1, <1>2, <1>3 DEF Puts
  <2>3. r[c[f[e]]] = m[f[e]] /\ b[f[e]] = x[c[f[e]]]
    BY <1>4, <1>5, <2>1 DEF Puts, Takes
  <2>. QED  BY <2>2, <2>3
<1>8. MovedBack(b, f) = [e \in 1 .. n |-> x[sigma[e]]]
  BY <1>6, <1>7 DEF Takes
<1>. QED  BY <1>4, <1>7, <1>8 DEF r, Takes, Puts, b, m, c
-----------------------------------------------------------------------------
(* One bit.                                                                *)
Flags(x, n) == Vec(x, n, {0, 1})

LEMMA CompactionRanks ==
  ASSUME NEW n \in Nat, NEW x, Flags(x, n)
  PROVE  Compaction(x) = RanksOf(x, n)
<1>1. Len(x) = n /\ DOMAIN x = 1 .. n
  BY FunIsSeq DEF Flags, Vec
<1>2. Keys(x, n)
  BY DEF Flags, Vec, Keys
<1>3. ASSUME NEW k \in 1 .. n PROVE Destination(x, k) = RanksOf(x, n)[k]
  <2>1. CASE x[k] = 0
    <3>1. {i \in 1 .. k : x[i] = 0} = NotAfter(x, n, k)
      BY <2>1 DEF Flags, Vec, NotAfter
    <3>2. RanksOf(x, n)[k] = Cardinality(NotAfter(x, n, k))
      BY DEF RanksOf
    <3>. QED  BY <2>1, <3>1, <3>2 DEF Destination
  <2>2. CASE x[k] = 1
    <3>1. /\ {i \in DOMAIN x : x[i] = 0} = {i \in 1 .. n : x[i] < x[k]}
          /\ {i \in 1 .. k : x[i] # 0} = {i \in 1 .. k : x[i] = x[k]}
      BY <1>1, <2>2 DEF Flags, Vec
    <3>2. Destination(x, k) = Cardinality({i \in DOMAIN x : x[i] = 0})
                              + Cardinality({i \in 1 .. k : x[i] # 0})
      BY <2>2 DEF Destination
    <3>. QED  BY <1>2, <3>1, <3>2, RankIs
  <2>. QED  BY <2>1, <2>2 DEF Flags, Vec
<1>4. /\ Compaction(x) = [k \in 1 .. n |-> Destination(x, k)]
      /\ RanksOf(x, n) = [k \in 1 .. n |-> RanksOf(x, n)[k]]
  BY <1>1 DEF Compaction, RanksOf
<1> DEFINE r == RanksOf(x, n)
           d == [k \in 1 .. n |-> Destination(x, k)]
<1>5. \A k \in 1 .. n : d[k] = r[k]
  BY <1>3
<1>6. d = [k \in 1 .. n |-> d[k]]
  OBVIOUS
<1> HIDE DEF r, d
<1>7. d = r
  <2>1. r = [k \in 1 .. n |-> r[k]]
    BY <1>4 DEF r
  <2>. QED  BY <1>5, <1>6, <2>1
<1>. QED  BY <1>4, <1>7 DEF r, d

(* One iteration of the radix sort: by the bit, then by the order so far.  *)
LEMMA IterationOrders ==
  ASSUME NEW n \in Nat, NEW sigma, PermOf(sigma, n), NEW f, PermOf(f, n), NEW x, Flags(x, n)
  PROVE  /\ PermOf(SortingIteration(sigma, x, f), n)
         /\ \A i, k \in 1 .. n :
              SortingIteration(sigma, x, f)[i] < SortingIteration(sigma, x, f)[k]
                <=> x[i] < x[k] \/ (x[i] = x[k] /\ sigma[i] < sigma[k])
<1> DEFINE c == Moved(sigma, f)
           r == Reordered(Moved(x, f), c)
           rho == Compaction(r)
           p == MovedBack(ReorderedBack(rho, c), f)
<1>1. sigma \in [1 .. n -> 1 .. n] /\ \A i, j \in 1 .. n : sigma[i] = sigma[j] => i = j
  BY DEF PermOf
<1>2. Vec(r, n, {0, 1}) /\ Puts(r, x, sigma, n)
  BY ShuffleCancels DEF Flags
<1>3. SortingIteration(sigma, x, f) = p
  BY DEF SortingIteration
<1> HIDE DEF r
<1>4. Flags(r, n) /\ Keys(r, n)
  BY <1>2 DEF Flags, Keys, Vec
<1>5. rho = RanksOf(r, n)
  BY <1>4, CompactionRanks
<1>6. PermOf(rho, n) /\ \A i, k \in 1 .. n : rho[i] < rho[k] <=> Before(r, i, k)
  BY <1>4, <1>5, RanksOrdered
<1>7. rho \in [1 .. n -> 1 .. n] /\ \A i, j \in 1 .. n : rho[i] = rho[j] => i = j
  BY <1>6 DEF PermOf
<1> HIDE DEF rho
<1>8. Takes(p, rho, sigma, n)
  <2>1. Vec(rho, n, 1 .. n)
    BY <1>7 DEF Vec
  <2>. QED  BY <2>1, ShuffleCancels DEF c
<1> HIDE DEF p
<1>9. p = [e \in 1 .. n |-> rho[sigma[e]]]
  BY <1>8 DEF Takes
<1>10. PermOf(p, n)
  <2>1. p \in [1 .. n -> 1 .. n]
    BY <1>1, <1>7, <1>9
  <2>2. ASSUME NEW i \in 1 .. n, NEW j \in 1 .. n, p[i] = p[j] PROVE i = j
    <3>1. sigma[i] \in 1 .. n /\ sigma[j] \in 1 .. n /\ rho[sigma[i]] = rho[sigma[j]]
      BY <1>1, <1>9, <2>2
    <3>. QED  BY <1>1, <1>7, <3>1
  <2>. QED  BY <2>1, <2>2 DEF PermOf
<1>11. ASSUME NEW i \in 1 .. n, NEW k \in 1 .. n
       PROVE  p[i] < p[k] <=> x[i] < x[k] \/ (x[i] = x[k] /\ sigma[i] < sigma[k])
  <2>1. sigma[i] \in 1 .. n /\ sigma[k] \in 1 .. n
    BY <1>1
  <2>2. p[i] < p[k] <=> Before(r, sigma[i], sigma[k])
    BY <1>6, <1>9, <2>1
  <2>3. r[sigma[i]] = x[i] /\ r[sigma[k]] = x[k]
    BY <1>2 DEF Puts
  <2>. QED  BY <2>2, <2>3 DEF Before
<1>. QED  BY <1>3, <1>10, <1>11

(* If the entries are sorted by a key below m, they are sorted after the   *)
(* iteration by the key with the bit in front.                             *)
LEMMA BitInFront ==
  ASSUME NEW m \in Nat, NEW a \in 0 .. (m - 1), NEW b \in 0 .. (m - 1), NEW s \in {0, 1}, NEW t \in {0, 1}
  PROVE  /\ s * m + a < t * m + b <=> s < t \/ (s = t /\ a < b)
         /\ s * m + a = t * m + b <=> s = t /\ a = b
<1>1. CASE s = 0 /\ t = 0
  BY <1>1
<1>2. CASE s = 0 /\ t = 1
  BY <1>2
<1>3. CASE s = 1 /\ t = 0
  BY <1>3
<1>4. CASE s = 1 /\ t = 1
  BY <1>4
<1>. QED  BY <1>1, <1>2, <1>3, <1>4

Below(key, m, n) == \A k \in 1 .. n : key[k] \in 0 .. (m - 1)
InFront(next, x, key, m, n) == \A k \in 1 .. n : next[k] = x[k] * m + key[k]
LEMMA IterationSorts ==
  ASSUME NEW n \in Nat, NEW key, NEW m \in Nat, Below(key, m, n),
         NEW f, PermOf(f, n), NEW x, Flags(x, n), NEW next, InFront(next, x, key, m, n)
  PROVE  SortingIteration(RanksOf(key, n), x, f) = RanksOf(next, n)
<1> USE DEF Below, InFront
<1> DEFINE sigma == RanksOf(key, n)
           p == SortingIteration(sigma, x, f)
<1>1. \A k \in 1 .. n : x[k] \in {0, 1}
  BY DEF Flags, Vec
<1>2. Keys(key, n) /\ Keys(next, n)
  <2>1. Keys(key, n)
    BY DEF Keys
  <2>2. ASSUME NEW k \in 1 .. n PROVE next[k] \in Nat
    <3>1. next[k] = x[k] * m + key[k] /\ key[k] \in Nat
      OBVIOUS
    <3>2. x[k] = 0 \/ x[k] = 1
      BY <1>1
    <3>3. 0 * m + key[k] \in Nat /\ 1 * m + key[k] \in Nat
      BY <3>1
    <3>. QED  BY <3>1, <3>2, <3>3
  <2>. QED  BY <2>1, <2>2 DEF Keys
<1>3. PermOf(sigma, n) /\ \A i, k \in 1 .. n : sigma[i] < sigma[k] <=> Before(key, i, k)
  BY <1>2, RanksOrdered
<1> HIDE DEF sigma
<1>4. PermOf(p, n) /\ \A i, k \in 1 .. n : p[i] < p[k] <=> x[i] < x[k] \/ (x[i] = x[k] /\ sigma[i] < sigma[k])
  BY <1>3, IterationOrders
<1> HIDE DEF p
<1>5. ASSUME NEW i \in 1 .. n, NEW k \in 1 .. n
      PROVE  p[i] < p[k] <=> Before(next, i, k)
  <2>1. x[i] \in {0, 1} /\ x[k] \in {0, 1} /\ key[i] \in 0 .. (m - 1) /\ key[k] \in 0 .. (m - 1)
    BY <1>1
  <2>2. next[i] = x[i] * m + key[i] /\ next[k] = x[k] * m + key[k]
    OBVIOUS
  <2>3. /\ next[i] < next[k] <=> x[i] < x[k] \/ (x[i] = x[k] /\ key[i] < key[k])
        /\ next[i] = next[k] <=> x[i] = x[k] /\ key[i] = key[k]
    BY <2>1, <2>2, BitInFront
  <2>4. p[i] < p[k] <=> x[i] < x[k] \/ (x[i] = x[k] /\ Before(key, i, k))
    BY <1>3, <1>4
  <2>. QED  BY <2>3, <2>4 DEF Before
<1>6. p = RanksOf(next, n)
  BY <1>2, <1>4, <1>5, OrderDetermines
<1>. QED  BY <1>6 DEF p, sigma
-----------------------------------------------------------------------------
(* The low bits of a number.                                               *)
LEMMA LowBound == ASSUME NEW x \in Nat, NEW b \in Nat PROVE x % 2^b \in 0 .. (2^b - 1)
<1>1. 2^b \in Nat /\ 2^b > 0
  BY PowNat
<1> DEFINE m == 2^b
<1> HIDE DEF m
<1>2. x % m \in Nat /\ (x % m) < m /\ m \in Nat
  BY <1>1, DivMod DEF m
<1>. QED  BY <1>2 DEF m

LEMMA LowNext ==
  ASSUME NEW x \in Nat, NEW b \in Nat
  PROVE  /\ (x \div 2^b) % 2 \in {0, 1}
         /\ x % 2^(b + 1) = ((x \div 2^b) % 2) * 2^b + (x % 2^b)
<1> DEFINE m == 2^b
           q == x \div m
           r == x % m
           h == q \div 2
           s == q % 2
<1>1. m \in Nat /\ m > 0 /\ 2^(b + 1) = 2 * m
  BY PowNat, PowNext
<1> HIDE DEF m
<1>2. q \in Nat /\ r \in Nat /\ r < m /\ x = m * q + r
  BY <1>1, DivMod
<1> HIDE DEF q, r
<1>3. h \in Nat /\ s \in {0, 1} /\ q = 2 * h + s
  BY <1>2
<1> HIDE DEF h, s
<1>4. m * q = (2 * m) * h + s * m
  <2>1. CASE s = 0
    <3>1. m * (2 * h) = (2 * m) * h
      BY <1>1, <1>3
    <3>. QED  BY <1>1, <1>3, <2>1, <3>1
  <2>2. CASE s = 1
    <3>1. m * (2 * h + 1) = (2 * m) * h + m
      BY <1>1, <1>3
    <3>. QED  BY <1>1, <1>3, <2>2, <3>1
  <2>. QED  BY <1>3, <2>1, <2>2
<1>5. s * m + r \in 0 .. (2 * m - 1)
  <2>1. s * m = 0 \/ s * m = m
    BY <1>1, <1>3
  <2>. QED  BY <1>1, <1>2, <2>1
<1>6. x % (2 * m) = s * m + r
  <2>1. x = (2 * m) * h + (s * m + r)
    <3> DEFINE u == (2 * m) * h
               v == s * m
               w == m * q
    <3>1. u \in Int /\ v \in Int /\ w = u + v /\ x = w + r
      BY <1>1, <1>2, <1>3, <1>4
    <3> HIDE DEF u, v, w
    <3>2. x = u + (v + r)
      BY <1>2, <3>1
    <3>. QED  BY <3>2 DEF u, v
  <2> DEFINE z == s * m + r
             l == 2 * m
  <2>2. l \in Nat \ {0} /\ z \in 0 .. (l - 1) /\ x = l * h + z /\ h \in Int /\ x \in Int
    BY <1>1, <1>3, <1>5, <2>1
  <2> HIDE DEF z, l
  <2>3. x % l = z
    BY <2>2, ModUnique
  <2>. QED  BY <2>3 DEF z, l
<1>. QED  BY <1>1, <1>3, <1>6 DEF m, q, r, s

LEMMA LowAll == ASSUME NEW b \in Nat, NEW x \in Nat, x < 2^b PROVE x % 2^b = x
<1>1. 2^b \in Nat /\ 2^b > 0
  BY PowNat
<1> DEFINE m == 2^b
<1> HIDE DEF m
<1>2. x < m /\ m \in Nat /\ m > 0
  BY <1>1 DEF m
<1>3. x % m = x
  BY <1>2
<1>. QED  BY <1>3 DEF m

(* A bit in front of the low ones.                                         *)
LEMMA FrontBit ==
  ASSUME NEW b \in Nat, NEW x \in Nat, x < 2^b, NEW d \in {0, 1}
  PROVE  /\ x + d * 2^b \in Nat /\ x + d * 2^b < 2^(b + 1)
         /\ (x + d * 2^b) % 2^(b + 1) = x + d * 2^b
<1>1. 2^b \in Nat /\ 2^(b + 1) = 2 * 2^b /\ b + 1 \in Nat
  BY PowNat, PowNext
<1>2. x + d * 2^b \in Nat /\ x + d * 2^b < 2^(b + 1)
  <2> DEFINE m == 2^b
  <2>1. m \in Nat /\ 2^(b + 1) = 2 * m /\ x < m
    BY <1>1
  <2> HIDE DEF m
  <2>2. d * m = 0 \/ d * m = m
    BY <2>1
  <2>3. x + d * m \in Nat /\ x + d * m < 2^(b + 1)
    BY <2>1, <2>2
  <2>. QED  BY <2>3 DEF m
<1>3. (x + d * 2^b) % 2^(b + 1) = x + d * 2^b
  <2> DEFINE z == x + d * 2^b
             c == b + 1
  <2>1. z \in Nat /\ z < 2^c /\ c \in Nat
    BY <1>1, <1>2
  <2> HIDE DEF z, c
  <2>2. z % 2^c = z
    BY <2>1, LowAll
  <2>. QED  BY <2>2 DEF z, c
<1>. QED  BY <1>2, <1>3

LEMMA LowOfFront ==
  ASSUME NEW b \in Nat, NEW c \in 0 .. b, NEW x \in Nat, NEW d \in {0, 1}
  PROVE  (x + d * 2^b) % 2^c = x % 2^c
<1>1. c \in Nat /\ b - c \in Nat /\ c + (b - c) = b
  OBVIOUS
<1> DEFINE m == 2^c
           k == 2^(b - c)
           q == x \div m
           r == x % m
<1>2. m \in Nat /\ m > 0 /\ k \in Nat
  BY <1>1, PowNat
<1>3. 2^b = m * k
  <2> DEFINE e == b - c
  <2>1. e \in Nat /\ c + e = b
    BY <1>1
  <2> HIDE DEF e
  <2>2. 2^(c + e) = 2^c * 2^e
    BY <1>1, <2>1, PowAdd
  <2>. QED  BY <2>1, <2>2 DEF e
<1> HIDE DEF m, k
<1>4. q \in Nat /\ r \in Nat /\ r < m /\ x = m * q + r
  BY <1>2, DivMod
<1> HIDE DEF q, r
<1>5. (x + d * (m * k)) % m = r
  <2>1. CASE d = 0
    <3>1. x + d * (m * k) = x
      <4>1. m * k \in Nat
        BY <1>2
      <4>. QED  BY <2>1, <4>1
    <3>2. x % m = r
      BY DEF r
    <3>. QED  BY <3>1, <3>2
  <2>2. CASE d = 1
    <3>1. m * q + m * k = m * (q + k)
      BY <1>2, <1>4
    <3>2. x + d * (m * k) = m * (q + k) + r
      <4> DEFINE u == m * q
                 v == m * k
                 w == m * (q + k)
      <4>1. u \in Nat /\ v \in Nat /\ w \in Nat /\ u + v = w /\ x = u + r
        BY <1>2, <1>4, <3>1
      <4> HIDE DEF u, v, w
      <4>2. x + d * v = w + r
        BY <1>4, <2>2, <4>1
      <4>. QED  BY <4>2 DEF v, w
    <3> DEFINE z == x + d * (m * k)
               g == q + k
    <3>3. z = m * g + r /\ g \in Int /\ r \in 0 .. (m - 1) /\ m \in Nat \ {0}
      BY <1>2, <1>4, <3>2
    <3> HIDE DEF z, g
    <3>4. z \in Int
      BY <1>4, <3>3
    <3>5. z % m = r
      BY <3>3, <3>4, ModUnique
    <3>. QED  BY <3>5 DEF z
  <2>. QED  BY <2>1, <2>2
<1>. QED  BY <1>3, <1>5 DEF m, r
-----------------------------------------------------------------------------
(* Sums of words.                                                          *)
LEMMA ModulusFacts == Modulus \in Nat \ {0} /\ Modulus > 1 /\ 0 \in Ring /\ 1 \in Ring
BY ModulusAssumption DEF Ring

LEMMA TotalNext ==
  ASSUME NEW x
  PROVE  Total(x, 0) = 0 /\ \A k \in Nat : Total(x, k + 1) = Plus(Total(x, k), x[k + 1])
<1>1. \A k : Total(x, k) = Sum(x, k, Modulus)
  BY DEF Total, Sum, Plus
<1>. QED  BY <1>1, SumNext DEF Plus

LEMMA InRing == ASSUME NEW w \in Int PROVE w % Modulus \in Ring
BY ModulusFacts, ModSplit DEF Ring

LEMMA RingInt == ASSUME NEW w \in Ring PROVE w \in Nat /\ w % Modulus = w
BY ModulusFacts DEF Ring

LEMMA TotalWord ==
  ASSUME NEW x, NEW n \in Nat, \A i \in 1 .. n : x[i] \in Ring
  PROVE  \A k \in 0 .. n : Total(x, k) \in Ring
<1> DEFINE T == {k \in Nat : k <= n => Total(x, k) \in Ring}
<1>1. 0 \in T
  BY TotalNext, ModulusFacts
<1>2. ASSUME NEW k \in T PROVE k + 1 \in T
  <2> SUFFICES ASSUME k + 1 <= n PROVE Total(x, k + 1) \in Ring
    OBVIOUS
  <2>1. k \in Nat /\ k + 1 \in 1 .. n /\ k <= n
    OBVIOUS
  <2>2. Total(x, k) \in Nat /\ x[k + 1] \in Nat
    BY <2>1, RingInt
  <2>3. Total(x, k) + x[k + 1] \in Int
    BY <2>2
  <2>4. (Total(x, k) + x[k + 1]) % Modulus \in Ring
    BY <2>3, InRing
  <2>. QED  BY <2>1, <2>4, TotalNext DEF Plus
<1>3. T = Nat
  <2>1. T \in SUBSET Nat
    OBVIOUS
  <2> HIDE DEF T
  <2>. QED  BY <1>1, <1>2, <2>1, NatInd
<1>. QED  BY <1>3

LEMMA ModSum ==
  ASSUME NEW m \in Nat \ {0}, NEW a \in Nat, NEW b \in Nat
  PROVE  ((a % m) + (b % m)) % m = (b + a) % m
<1> DEFINE r == a % m
           s == b % m
           w == (r + s) % m
<1>0. a \in Int /\ b \in Int
  OBVIOUS
<1>1. PICK p \in Int : r \in 0 .. (m - 1) /\ a = m * p + r
  BY <1>0, ModSplit
<1>2. PICK q \in Int : s \in 0 .. (m - 1) /\ b = m * q + s
  BY <1>0, ModSplit
<1> HIDE DEF r, s
<1>3. r + s \in Int
  BY <1>1, <1>2
<1>4. PICK u \in Int : w \in 0 .. (m - 1) /\ r + s = m * u + w
  BY <1>3, ModSplit
<1> HIDE DEF w
<1>5. b + a = m * (q + p + u) + w
  <2> DEFINE mp == m * p
             mq == m * q
             mu == m * u
  <2>1. m * (q + p + u) = mq + mp + mu
    OBVIOUS
  <2>2. mp \in Int /\ mq \in Int /\ mu \in Int /\ a = mp + r /\ b = mq + s /\ r + s = mu + w
    BY <1>1, <1>2, <1>4
  <2> HIDE DEF mp, mq, mu
  <2>3. b + a = (mq + mp + mu) + w
    BY <1>1, <1>2, <1>4, <2>2
  <2>. QED  BY <2>1, <2>3
<1>6. (b + a) % m = w
  <2> DEFINE z == b + a
             g == q + p + u
  <2>1. z \in Int /\ g \in Int /\ z = m * g + w
    BY <1>5
  <2> HIDE DEF z, g
  <2>2. z % m = w
    BY <1>4, <2>1, ModUnique
  <2>. QED  BY <2>2 DEF z
<1>. QED  BY <1>6 DEF r, s, w

(* A number put together from its bits is the number.                      *)
LEMMA ComposedIs ==
  ASSUME NEW v \in Ring, NEW b \in Nat, v < 2^b
  PROVE  Composed([j \in 1 .. b |-> (v \div 2^(j - 1)) % 2]) = v
<1> DEFINE x == [j \in 1 .. b |-> (v \div 2^(j - 1)) % 2]
           y == [j \in 1 .. b |-> Trunc(x[j] * 2^(j - 1))]
           T == {i \in Nat : i <= b => Total(y, i) = (v % 2^i) % Modulus}
<1>0. v \in Nat /\ v % Modulus = v
  BY RingInt
<1>1. 0 \in T
  <2>1. 2^0 = 1
    OBVIOUS
  <2>2. v % 1 = 0 /\ 0 % Modulus = 0
    BY <1>0, ModulusFacts
  <2>. QED  BY <2>1, <2>2, TotalNext
<1>2. ASSUME NEW i \in T PROVE i + 1 \in T
  <2> SUFFICES ASSUME i + 1 <= b PROVE Total(y, i + 1) = (v % 2^(i + 1)) % Modulus
    OBVIOUS
  <2> DEFINE s == (v \div 2^i) % 2
             l == v % 2^i
             f == s * 2^i
  <2>1. i \in Nat /\ i + 1 \in 1 .. b /\ i <= b /\ (i + 1) - 1 = i
    OBVIOUS
  <2>2. Total(y, i) = l % Modulus
    BY <2>1
  <2>3. y[i + 1] = f % Modulus
    BY <2>1 DEF Trunc
  <2>4. s \in {0, 1} /\ v % 2^(i + 1) = f + l
    BY <1>0, <2>1, LowNext
  <2>5. l \in Nat /\ f \in Nat
    <3>1. 2^i \in Nat
      BY <2>1, PowNat
    <3>2. l \in 0 .. (2^i - 1)
      BY <1>0, <2>1, LowBound
    <3> HIDE DEF s
    <3>. QED  BY <2>4, <3>1, <3>2
  <2>6. Total(y, i + 1) = Plus(Total(y, i), y[i + 1])
    BY <2>1, TotalNext
  <2> HIDE DEF s, l, f, y
  <2>7. ((l % Modulus) + (f % Modulus)) % Modulus = (f + l) % Modulus
    BY <2>5, ModulusFacts, ModSum
  <2>. QED  BY <2>2, <2>3, <2>4, <2>6, <2>7 DEF Plus
<1>3. T = Nat
  <2>1. T \in SUBSET Nat
    OBVIOUS
  <2> HIDE DEF T
  <2>. QED  BY <1>1, <1>2, <2>1, NatInd
<1>4. Total(y, b) = v
  <2>1. Total(y, b) = (v % 2^b) % Modulus
    BY <1>3
  <2>2. v % 2^b = v
    BY <1>0, LowAll
  <2>. QED  BY <1>0, <2>1, <2>2
<1>5. Composed(x) = Total(y, b)
  <2>1. Len(x) = b
    OBVIOUS
  <2> HIDE DEF x
  <2>. QED  BY <2>1 DEF Composed
<1>. QED  BY <1>4, <1>5
-----------------------------------------------------------------------------
(* The keys of the orderings, for a list L of n entries with ends of B     *)
(* bits, b of them sorted by, and the flags d of the duplicates.           *)
FlagOf(L, k)     == IF L[k][1] = L[k][2] THEN 1 ELSE 0
TwiceOf(d, B, k) == IF d = <<>> THEN 0 ELSE d[k] * 2^B
SourceKeys(L, d, B, b) ==
  [k \in DOMAIN L |-> 2 * ((L[k][1] + TwiceOf(d, B, k)) % 2^b) + 1 - FlagOf(L, k)]
DestKeys(L, b) == [k \in DOMAIN L |-> 2 * (L[k][2] % 2^b) + FlagOf(L, k)]
FullKeys(L, d, B) == [k \in DOMAIN L |-> 2 * (L[k][2] + TwiceOf(d, B, k)) + FlagOf(L, k)]
BothKeys(L, B, b) ==
  [k \in DOMAIN L |-> (L[k][1] % 2^b) * 2^(B + 1) + (2 * L[k][2] + FlagOf(L, k))]
WordKeys(L, b) == [k \in DOMAIN L |-> L[k][1] % 2^b]

(* x is bit b of the numbers X.                                            *)
BitsAre(x, X, b, n) ==
  /\ Flags(x, n)
  /\ \A k \in 1 .. n : X[k] \in Nat /\ X[k] % 2^(b + 1) = x[k] * 2^b + (X[k] % 2^b)

LEMMA RanksSame ==
  ASSUME NEW n \in Nat, NEW key, NEW same, \A k \in 1 .. n : key[k] = same[k]
  PROVE  RanksOf(key, n) = RanksOf(same, n)
<1>1. \A k \in 1 .. n : NotAfter(key, n, k) = NotAfter(same, n, k)
  BY DEF NotAfter
<1>. QED  BY <1>1 DEF RanksOf

LEMMA FlagFirst ==
  ASSUME NEW n \in Nat, NEW x, Flags(x, n), NEW key, \A k \in 1 .. n : key[k] = x[k]
  PROVE  Compaction(x) = RanksOf(key, n)
BY CompactionRanks, RanksSame

(* One more bit, between the bits so far and a flag that comes last.       *)
BitsAndFlag(key, X, b, c, n) == \A k \in 1 .. n : key[k] = 2 * (X[k] % 2^b) + c[k]
LEMMA StepKeys ==
  ASSUME NEW n \in Nat, NEW f, PermOf(f, n), NEW b \in Nat, NEW x, NEW X, BitsAre(x, X, b, n),
         NEW c, Flags(c, n), NEW key, BitsAndFlag(key, X, b, c, n),
         NEW next, BitsAndFlag(next, X, b + 1, c, n)
  PROVE  SortingIteration(RanksOf(key, n), x, f) = RanksOf(next, n)
<1> USE DEF BitsAndFlag
<1> DEFINE p == 2^b
           m == 2 * p
<1>1. p \in Nat /\ m \in Nat
  BY PowNat
<1>2. ASSUME NEW k \in 1 .. n PROVE key[k] \in 0 .. (m - 1) /\ next[k] = x[k] * m + key[k]
  <2> DEFINE l == X[k] % p
             t == X[k] % 2^(b + 1)
  <2>1. /\ x[k] \in {0, 1} /\ c[k] \in {0, 1} /\ X[k] \in Nat /\ t = x[k] * p + l
        /\ key[k] = 2 * l + c[k] /\ next[k] = 2 * t + c[k]
    BY DEF BitsAre, Flags, Vec
  <2>2. l \in 0 .. (p - 1)
    BY <2>1, LowBound
  <2> HIDE DEF l, t, p
  <2>3. key[k] \in 0 .. (2 * p - 1)
    BY <1>1, <2>1, <2>2
  <2>4. next[k] = x[k] * (2 * p) + key[k]
    <3>1. CASE x[k] = 0
      <4>1. t = l
        BY <1>1, <2>1, <2>2, <3>1
      <4>. QED  BY <1>1, <2>1, <2>3, <3>1, <4>1
    <3>2. CASE x[k] = 1
      <4>1. t = p + l
        BY <1>1, <2>1, <2>2, <3>2
      <4>2. next[k] = 2 * p + (2 * l + c[k])
        BY <1>1, <2>1, <2>2, <4>1
      <4>3. x[k] * (2 * p) = 2 * p
        BY <1>1, <3>2
      <4>. QED  BY <2>1, <4>2, <4>3
    <3>. QED  BY <2>1, <3>1, <3>2
  <2>. QED  BY <2>3, <2>4
<1>3. Flags(x, n)
  BY DEF BitsAre
<1> HIDE DEF p, m
<1>4. m \in Nat /\ PermOf(f, n)
  BY <1>1
<1>5. Below(key, m, n) /\ InFront(next, x, key, m, n)
  BY <1>2 DEF Below, InFront
<1>. QED  BY <1>3, <1>4, <1>5, IterationSorts

(* One more bit in front of a key w below m.                               *)
BitsAndKey(key, X, b, m, w, n) == \A k \in 1 .. n : key[k] = (X[k] % 2^b) * m + w[k]
LEMMA StepFront ==
  ASSUME NEW n \in Nat, NEW f, PermOf(f, n), NEW b \in Nat, NEW x, NEW X, BitsAre(x, X, b, n),
         NEW m \in Nat, NEW w, Below(w, m, n),
         NEW key, BitsAndKey(key, X, b, m, w, n), NEW next, BitsAndKey(next, X, b + 1, m, w, n)
  PROVE  SortingIteration(RanksOf(key, n), x, f) = RanksOf(next, n)
<1> USE DEF BitsAndKey, Below
<1> DEFINE p == 2^b
           pm == p * m
<1>1. p \in Nat /\ pm \in Nat
  BY PowNat
<1>2. ASSUME NEW k \in 1 .. n PROVE key[k] \in 0 .. (pm - 1) /\ next[k] = x[k] * pm + key[k]
  <2> DEFINE l == X[k] % p
             t == X[k] % 2^(b + 1)
  <2>1. /\ x[k] \in {0, 1} /\ w[k] \in 0 .. (m - 1) /\ X[k] \in Nat /\ t = x[k] * p + l
        /\ key[k] = l * m + w[k] /\ next[k] = t * m + w[k]
    BY DEF BitsAre, Flags, Vec
  <2>2. l \in 0 .. (p - 1)
    BY <2>1, LowBound
  <2> HIDE DEF l, t, p
  <2>3. l * m + w[k] \in 0 .. (p * m - 1)
    <3>1. (p - 1 - l) \in Nat /\ l \in Nat /\ p - 1 = l + (p - 1 - l)
      BY <1>1, <2>2
    <3>2. \A e \in Nat : (l + e + 1) * m = l * m + e * m + m /\ e * m \in Nat /\ l * m \in Nat
      BY <3>1
    <3> DEFINE e == p - 1 - l
    <3>3. e \in Nat /\ p = l + e + 1
      BY <1>1, <3>1
    <3> HIDE DEF e
    <3>4. p * m = l * m + e * m + m /\ e * m \in Nat /\ l * m \in Nat
      BY <3>2, <3>3
    <3>. QED  BY <2>1, <3>4
  <2>4. next[k] = x[k] * (p * m) + key[k]
    <3>1. CASE x[k] = 0
      <4>1. t = l
        BY <1>1, <2>1, <2>2, <3>1
      <4>2. next[k] = key[k] /\ x[k] * (p * m) = 0
        BY <1>1, <2>1, <3>1, <4>1
      <4>3. key[k] \in Int
        BY <2>1, <2>3
      <4>. QED  BY <4>2, <4>3
    <3>2. CASE x[k] = 1
      <4>1. t = p + l
        BY <1>1, <2>1, <2>2, <3>2
      <4>2. t * m = p * m + l * m
        BY <1>1, <2>2, <4>1
      <4>3. x[k] * (p * m) = p * m /\ p * m \in Int /\ l * m \in Int
        BY <1>1, <2>2, <3>2
      <4> DEFINE u == p * m
                 v == l * m
                 z == t * m
      <4>4. z = u + v /\ next[k] = z + w[k] /\ key[k] = v + w[k] /\ u \in Int /\ v \in Int /\ w[k] \in Int
        BY <2>1, <4>2, <4>3
      <4> HIDE DEF u, v, z
      <4>5. next[k] = u + key[k]
        BY <4>4
      <4>. QED  BY <4>3, <4>5 DEF u
    <3>. QED  BY <2>1, <3>1, <3>2
  <2>. QED  BY <2>1, <2>3, <2>4 DEF p
<1>3. Flags(x, n)
  BY DEF BitsAre
<1> HIDE DEF p, pm
<1>4. pm \in Nat /\ PermOf(f, n)
  BY <1>1
<1>5. Below(key, pm, n) /\ InFront(next, x, key, pm, n)
  BY <1>2 DEF Below, InFront
<1> HIDE DEF Below, BitsAndKey
<1>. QED  BY <1>3, <1>4, <1>5, IterationSorts
-----------------------------------------------------------------------------
(* A list of a graph: nodes 1 to v, each once, and edges between them, the *)
(* ends fit B bits.                                                        *)
Listed(L, n) ==
  /\ n \in Nat /\ Len(L) = n /\ DOMAIN L = 1 .. n
  /\ \A k \in 1 .. n : L[k] \in Ring \X Ring /\ L[k][1] \in Ring /\ L[k][2] \in Ring
GraphOf(L, n, v, B) ==
  /\ Listed(L, n) /\ n > 0 /\ v \in Nat \ {0} /\ v <= n /\ B \in Nat
  /\ \A k \in 1 .. n : /\ L[k][1] \in 1 .. v /\ L[k][2] \in 1 .. v
                       /\ L[k][1] < 2^B /\ L[k][2] < 2^B
  /\ \A i, k \in 1 .. n : L[i][1] = L[i][2] /\ L[k][1] = L[k][2] /\ L[i][1] = L[k][1] => i = k
  /\ \A u \in 1 .. v : \E k \in 1 .. n : L[k][1] = u /\ L[k][2] = u

LEMMA JobListed ==
  ASSUME NEW j \in Jobs
  PROVE  /\ Listed(j.list, Len(j.list)) /\ j.bits \in Nat \ {0} /\ j.n \in Nat \ {0}
         /\ j.weights \in Seq(Ring) /\ Len(j.weights) \in Nat \ {0}
         /\ j.measure \in {"pi_1", "pi_2", "pi_3", "sort"}
         /\ j.measure = "sort" => \A k \in 1 .. Len(j.list) : j.list[k][1] < 2^j.bits
         /\ \A f \in ShufflesOf(Len(j.list)) : PermOf(f, Len(j.list))
<1>1. Job(j) /\ \A f \in ShufflesOf(Len(j.list)) : PermOf(f, Len(j.list))
  BY JobsAssumption, ShufflesAssumption
<1>2. j.list \in Seq(Ring \X Ring)
  BY <1>1 DEF Job
<1>3. /\ Len(j.list) \in Nat /\ DOMAIN j.list = 1 .. Len(j.list)
      /\ \A k \in 1 .. Len(j.list) : j.list[k] \in Ring \X Ring
  BY <1>2
<1>4. Listed(j.list, Len(j.list))
  <2> DEFINE L == j.list
  <2>1. \A k \in 1 .. Len(L) : L[k] \in Ring \X Ring => L[k][1] \in Ring /\ L[k][2] \in Ring
    OBVIOUS
  <2>. QED  BY <1>3, <2>1 DEF Listed
<1>5. j.bits \in Nat \ {0} /\ j.n \in Nat \ {0} /\ j.measure \in {"pi_1", "pi_2", "pi_3", "sort"}
  BY <1>1 DEF Job
<1>6. j.weights \in Seq(Ring) /\ Len(j.weights) > 0
  BY <1>1 DEF Job
<1>7. Len(j.weights) \in Nat \ {0}
  BY <1>6
<1>8. j.measure = "sort" => \A k \in 1 .. Len(j.list) : j.list[k][1] < 2^j.bits
  BY <1>1, <1>3 DEF Job
<1>. QED  BY <1>1, <1>4, <1>5, <1>6, <1>7, <1>8

LEMMA JobGraph ==
  ASSUME NEW j \in Jobs, j.measure # "sort"
  PROVE  GraphOf(j.list, Len(j.list), j.n, j.bits)
<1> DEFINE L == j.list
           n == Len(L)
           v == j.n
           B == j.bits
           S == {k \in 1 .. n : L[k][1] = L[k][2]}
           T == 1 .. v
           f == [k \in S |-> L[k][1]]
<1>1. Listed(L, n) /\ B \in Nat /\ v \in Nat \ {0} /\ n \in Nat /\ DOMAIN L = 1 .. n
  BY JobListed DEF Listed
<1>2. /\ \A k \in DOMAIN L : \A i \in {1, 2} : L[k][i] \in 1 .. v
      /\ LET nodes == {k \in DOMAIN L : L[k][1] = L[k][2]}
         IN  Cardinality(nodes) = v /\ {L[k][1] : k \in nodes} = 1 .. v
      /\ 2^B > v + 1
  BY JobsAssumption DEF Job
<1>3. Cardinality(S) = v /\ {L[k][1] : k \in S} = T
  BY <1>1, <1>2
<1>4. \A k \in 1 .. n : L[k][1] \in T /\ L[k][2] \in T
  BY <1>1, <1>2
<1>5. 2^B \in Nat
  BY <1>1, PowNat
<1>6. \A k \in 1 .. n : L[k][1] < 2^B /\ L[k][2] < 2^B
  <2> DEFINE m == 2^B
  <2>1. m \in Nat /\ m > v + 1
    BY <1>2, <1>5
  <2> HIDE DEF m
  <2>2. \A k \in 1 .. n : L[k][1] < m /\ L[k][2] < m
    BY <1>1, <1>4, <2>1
  <2>. QED  BY <2>2 DEF m
<1>7. S \in SUBSET (1 .. n) /\ IsFiniteSet(1 .. n) /\ Cardinality(1 .. n) = n /\ Cardinality(T) = v
  BY <1>1, IntervalSize
<1>8. f \in [S -> T] /\ \A y \in T : \E x \in S : f[x] = y
  BY <1>3
<1>9. \A u \in 1 .. v : \E k \in 1 .. n : L[k][1] = u /\ L[k][2] = u
  <2> TAKE u \in 1 .. v
  <2>1. PICK k \in S : L[k][1] = u
    BY <1>3
  <2>2. k \in 1 .. n /\ L[k][2] = u
    BY <2>1
  <2>. QED  BY <2>1, <2>2
<1> HIDE DEF f
<1>10. \A x, y \in S : f[x] = f[y] => x = y
  <2> HIDE DEF S, T
  <2>1. f \in Surjection(S, T)
    BY <1>8 DEF Surjection
  <2>2. IsFiniteSet(S)
    BY <1>7, FS_Subset
  <2>3. f \in Injection(S, T)
    BY <1>3, <1>7, <2>1, <2>2, FS_Surjection
  <2>. QED  BY <2>3 DEF Injection, IsInjective
<1>11. \A i, k \in 1 .. n : L[i][1] = L[i][2] /\ L[k][1] = L[k][2] /\ L[i][1] = L[k][1] => i = k
  <2> TAKE i, k \in 1 .. n
  <2> SUFFICES ASSUME L[i][1] = L[i][2], L[k][1] = L[k][2], L[i][1] = L[k][1] PROVE i = k
    OBVIOUS
  <2>1. i \in S /\ k \in S
    OBVIOUS
  <2>2. f[i] = L[i][1] /\ f[k] = L[k][1]
    BY <2>1 DEF f
  <2>. QED  BY <1>10, <2>1, <2>2
<1>12. v <= n /\ n > 0
  <2>1. Cardinality(S) <= Cardinality(1 .. n)
    <3> HIDE DEF S
    <3>. QED  BY <1>7, FS_Subset
  <2> HIDE DEF S, n, v
  <2>. QED  BY <1>1, <1>3, <1>7, <2>1
<1>. QED  BY <1>1, <1>4, <1>6, <1>9, <1>11, <1>12 DEF GraphOf
-----------------------------------------------------------------------------
(* d marks the entries that repeat an earlier one.                         *)
Marks(d, L, n) ==
  Flags(d, n) /\ \A k \in 1 .. n : d[k] = 1 <=> \E i \in 1 .. (k - 1) : L[i] = L[k]
MaybeMarks(d, L, n) == d = <<>> \/ Marks(d, L, n)

(* Nodes are never marked, so a node's key is that of its number.          *)
LEMMA NodesUnmarked ==
  ASSUME NEW L, NEW n, NEW v, NEW B, GraphOf(L, n, v, B), NEW d, MaybeMarks(d, L, n),
         NEW k \in 1 .. n
  PROVE  /\ TwiceOf(d, B, k) \in Nat
         /\ L[k][1] = L[k][2] => TwiceOf(d, B, k) = 0
<1>1. 2^B \in Nat
  BY PowNat DEF GraphOf
<1>2. CASE d = <<>>
  BY <1>2 DEF TwiceOf
<1>3. CASE d # <<>>
  <2>1. Marks(d, L, n) /\ d[k] \in {0, 1}
    BY <1>3 DEF MaybeMarks, Marks, Flags, Vec
  <2>2. TwiceOf(d, B, k) = d[k] * 2^B
    BY <1>3 DEF TwiceOf
  <2>3. d[k] * 2^B \in Nat /\ (d[k] = 0 => d[k] * 2^B = 0)
    <3> DEFINE m == 2^B
    <3> HIDE DEF m
    <3>1. m \in Nat
      BY <1>1 DEF m
    <3>2. d[k] * m \in Nat /\ (d[k] = 0 => d[k] * m = 0)
      BY <2>1, <3>1
    <3>. QED  BY <3>2 DEF m
  <2>4. ASSUME L[k][1] = L[k][2] PROVE d[k] = 0
    <3>1. ~ \E i \in 1 .. (k - 1) : L[i] = L[k]
      <4> SUFFICES ASSUME NEW i \in 1 .. (k - 1), L[i] = L[k] PROVE FALSE
        OBVIOUS
      <4>0. n \in Nat
        BY DEF GraphOf, Listed
      <4>1. i \in 1 .. n /\ i # k
        BY <4>0
      <4>2. L[i][1] = L[i][2] /\ L[i][1] = L[k][1]
        BY <2>4
      <4>. QED  BY <2>4, <4>1, <4>2 DEF GraphOf
    <3>. QED  BY <2>1, <3>1 DEF Marks
  <2>. QED  BY <2>2, <2>3, <2>4
<1>. QED  BY <1>2, <1>3

(* Nodes first: node u is in place u.                                      *)
LEMMA VertexRanks ==
  ASSUME NEW L, NEW n, NEW v, NEW B, GraphOf(L, n, v, B), NEW d, MaybeMarks(d, L, n),
         NEW m \in Nat, NEW key, \A k \in 1 .. n : key[k] = FullKeys(L, d, B)[k],
         Below(key, m, n),
         NEW x, \A k \in 1 .. n : x[k] = 1 - FlagOf(L, k),
         NEW next, InFront(next, x, key, m, n), NEW k \in 1 .. n, L[k][1] = L[k][2]
  PROVE  RanksOf(next, n)[k] = L[k][1]
<1> DEFINE u == L[k][1]
           S == NotAfter(next, n, k)
           T == 1 .. u
           f == [i \in S |-> L[i][1]]
<1>1. /\ n \in Nat /\ DOMAIN L = 1 .. n /\ v \in Nat
      /\ \A i \in 1 .. n : L[i][1] \in Nat /\ L[i][2] \in Nat /\ L[i][1] \in 1 .. v
  BY SMTT(30) DEF GraphOf, Listed
<1>2. ASSUME NEW i \in 1 .. n, L[i][1] = L[i][2] PROVE next[i] = 2 * L[i][1] + 1 /\ next[i] < m
  <2>1. FlagOf(L, i) = 1 /\ x[i] = 0
    BY <1>2 DEF FlagOf
  <2>2. TwiceOf(d, B, i) = 0
    BY <1>2, NodesUnmarked
  <2>3. key[i] = 2 * (L[i][2] + 0) + 1 /\ key[i] \in 0 .. (m - 1)
    BY <1>1, <2>1, <2>2 DEF FullKeys, Below
  <2>4. next[i] = 0 * m + key[i]
    BY <2>1 DEF InFront
  <2>. QED  BY <1>1, <1>2, <2>3, <2>4
<1>3. ASSUME NEW i \in 1 .. n, L[i][1] # L[i][2] PROVE next[i] \in Nat /\ next[i] >= m
  <2>1. x[i] = 1 /\ key[i] \in 0 .. (m - 1) /\ next[i] = x[i] * m + key[i]
    BY <1>3 DEF FlagOf, Below, InFront
  <2>. QED  BY <2>1
<1>4. \A i \in 1 .. n : i \in S <=> L[i][1] = L[i][2] /\ L[i][1] <= u
  <2> TAKE i \in 1 .. n
  <2>1. i \in S <=> next[i] < next[k] \/ (next[i] = next[k] /\ i <= k)
    BY DEF NotAfter
  <2>2. next[k] = 2 * u + 1 /\ next[k] < m /\ u \in Nat
    BY <1>1, <1>2
  <2>3. CASE L[i][1] # L[i][2]
    BY <1>3, <2>1, <2>2, <2>3
  <2>4. CASE L[i][1] = L[i][2]
    <3>1. next[i] = 2 * L[i][1] + 1 /\ L[i][1] \in Nat
      BY <1>1, <1>2, <2>4
    <3>2. L[i][1] = u => i = k
      BY <2>4 DEF GraphOf
    <3>3. next[i] < next[k] <=> L[i][1] < u
      BY <2>2, <3>1
    <3>4. next[i] = next[k] <=> L[i][1] = u
      BY <2>2, <3>1
    <3>. QED  BY <2>1, <2>2, <2>4, <3>1, <3>2, <3>3, <3>4
  <2>. QED  BY <2>3, <2>4
<1>5. S \in SUBSET (1 .. n)
  BY DEF NotAfter
<1>6. f \in [S -> T]
  <2>1. \A i \in S : L[i][1] \in T
    BY <1>1, <1>4, <1>5
  <2>. QED  BY <2>1
<1>7. ASSUME NEW a \in S, NEW b \in S, f[a] = f[b] PROVE a = b
  <2>1. a \in 1 .. n /\ b \in 1 .. n /\ L[a][1] = L[b][1] /\ L[a][1] = L[a][2] /\ L[b][1] = L[b][2]
    BY <1>4, <1>5, <1>7
  <2>. QED  BY <2>1 DEF GraphOf
<1>8. ASSUME NEW y \in T PROVE \E a \in S : f[a] = y
  <2>1. y \in 1 .. v /\ y <= u
    BY <1>1
  <2>2. PICK a \in 1 .. n : L[a][1] = y /\ L[a][2] = y
    BY <2>1 DEF GraphOf
  <2>3. a \in S
    BY <1>4, <2>1, <2>2
  <2>. QED  BY <2>2, <2>3
<1>9. IsFiniteSet(S)
  BY <1>1, <1>5, IntervalSize, FS_Subset
<1>10. Cardinality(T) = u /\ u \in Nat
  BY <1>1, IntervalSize
<1>11. RanksOf(next, n)[k] = Cardinality(S)
  BY DEF RanksOf
<1> HIDE DEF S, T, f
<1>12. Cardinality(T) = Cardinality(S)
  BY <1>6, <1>7, <1>8, <1>9, SameSize
<1>. QED  BY <1>10, <1>11, <1>12
-----------------------------------------------------------------------------
(* The key of the third sort of pi_2 tells entries apart.                  *)
SplitsInto(g, a, w, m) == a \in Nat /\ w \in 0 .. (m - 1) /\ g = a * m + w
LEMMA PairKey ==
  ASSUME NEW m \in Nat \ {0}, NEW g, NEW a, NEW b, NEW w, NEW z,
         SplitsInto(g, a, w, m), SplitsInto(g, b, z, m)
  PROVE  a = b /\ w = z
<1>0. a \in Nat /\ b \in Nat /\ w \in 0 .. (m - 1) /\ z \in 0 .. (m - 1) /\ g = a * m + w /\ g = b * m + z
  BY DEF SplitsInto
<1>1. m * a = a * m /\ m * b = b * m /\ a * m \in Nat /\ b * m \in Nat
  BY <1>0
<1>2. w = z
  <2>1. g \in Int /\ g = m * a + w /\ g = m * b + z /\ a \in Int /\ b \in Int
    BY <1>0, <1>1
  <2>2. g % m = w
    BY <1>0, <2>1, ModUnique
  <2>3. g % m = z
    BY <1>0, <2>1, ModUnique
  <2>. QED  BY <2>2, <2>3
<1>3. a * m = b * m
  <2> DEFINE s == a * m
             t == b * m
  <2>1. s \in Nat /\ t \in Nat /\ s + w = t + z
    BY <1>0, <1>1
  <2> HIDE DEF s, t
  <2>2. s = t
    BY <1>0, <1>2, <2>1
  <2>. QED  BY <2>2 DEF s, t
<1>4. \A e \in Nat, c \in Nat : (c + 1 + e) * m = c * m + m + e * m /\ e * m \in Nat /\ c * m \in Nat
  OBVIOUS
<1>5. ASSUME a < b PROVE FALSE
  <2> DEFINE e == b - a - 1
  <2>1. e \in Nat /\ b = a + 1 + e
    BY <1>0, <1>5
  <2> HIDE DEF e
  <2>2. b * m = a * m + m + e * m /\ e * m \in Nat /\ a * m \in Nat
    BY <1>0, <1>4, <2>1
  <2>. QED  BY <1>3, <2>2
<1>6. ASSUME b < a PROVE FALSE
  <2> DEFINE e == a - b - 1
  <2>1. e \in Nat /\ a = b + 1 + e
    BY <1>0, <1>6
  <2> HIDE DEF e
  <2>2. a * m = b * m + m + e * m /\ e * m \in Nat /\ b * m \in Nat
    BY <1>0, <1>4, <2>1
  <2>. QED  BY <1>3, <2>2
<1>. QED  BY <1>0, <1>2, <1>5, <1>6

LEMMA DestPart ==
  ASSUME NEW L, NEW n, NEW v, NEW B, GraphOf(L, n, v, B), NEW k \in 1 .. n
  PROVE  /\ 2 * L[k][2] + FlagOf(L, k) \in 0 .. (2^(B + 1) - 1)
         /\ L[k][1] % 2^B = L[k][1] /\ L[k][2] % 2^B = L[k][2]
         /\ L[k][1] \in Nat /\ L[k][2] \in Nat /\ FlagOf(L, k) \in {0, 1}
<1>1. B \in Nat /\ L[k][1] \in Nat /\ L[k][2] \in Nat /\ L[k][1] < 2^B /\ L[k][2] < 2^B
  BY DEF GraphOf
<1>2. 2^B \in Nat /\ 2^(B + 1) = 2 * 2^B
  BY <1>1, PowNat, PowNext
<1>3. FlagOf(L, k) \in {0, 1}
  BY DEF FlagOf
<1>4. 2 * L[k][2] + FlagOf(L, k) \in 0 .. (2^(B + 1) - 1)
  <2> DEFINE m == 2^B
             g == 2^(B + 1)
             c == FlagOf(L, k)
  <2>1. m \in Nat /\ g = 2 * m /\ L[k][2] < m /\ c \in {0, 1}
    BY <1>1, <1>2, <1>3
  <2> HIDE DEF m, g, c
  <2>2. 2 * L[k][2] + c \in 0 .. (g - 1)
    BY <1>1, <2>1
  <2>. QED  BY <2>2 DEF g, c
<1>. QED  BY <1>1, <1>3, <1>4, LowAll

LEMMA BothKeyTells ==
  ASSUME NEW L, NEW n, NEW v, NEW B, GraphOf(L, n, v, B), NEW i \in 1 .. n, NEW k \in 1 .. n
  PROVE  /\ BothKeys(L, B, B)[i] = BothKeys(L, B, B)[k] <=> L[i] = L[k]
         /\ L[i][1] = L[k][1] /\ L[i][2] = L[k][2] <=> L[i] = L[k]
         /\ BothKeys(L, B, B)[i] \in Nat
<1>1. B \in Nat /\ DOMAIN L = 1 .. n /\ L[i] \in Ring \X Ring /\ L[k] \in Ring \X Ring
  BY DEF GraphOf, Listed
<1>2. L[i][1] = L[k][1] /\ L[i][2] = L[k][2] <=> L[i] = L[k]
  BY <1>1
<1>3. 2^(B + 1) \in Nat \ {0}
  <2>1. B + 1 \in Nat
    BY <1>1
  <2>2. 2^(B + 1) \in Nat /\ 2^(B + 1) > 0
    BY <2>1, PowNat
  <2>. QED  BY <2>2
<1> DEFINE m == 2^(B + 1)
           w(j) == 2 * L[j][2] + FlagOf(L, j)
<1>4. ASSUME NEW j \in 1 .. n PROVE /\ BothKeys(L, B, B)[j] = L[j][1] * m + w(j) /\ w(j) \in 0 .. (m - 1)
                                    /\ L[j][1] \in Nat /\ L[j][2] \in Nat /\ FlagOf(L, j) \in {0, 1}
  <2>1. BothKeys(L, B, B)[j] = (L[j][1] % 2^B) * m + w(j)
    BY <1>1 DEF BothKeys
  <2>. QED  BY <2>1, DestPart
<1> HIDE DEF m
<1>5. ASSUME BothKeys(L, B, B)[i] = BothKeys(L, B, B)[k] PROVE L[i] = L[k]
  <2>1. L[i][1] = L[k][1] /\ w(i) = w(k)
    <3> HIDE DEF w
    <3>1. /\ SplitsInto(BothKeys(L, B, B)[i], L[i][1], w(i), m)
          /\ SplitsInto(BothKeys(L, B, B)[i], L[k][1], w(k), m)
      BY <1>4, <1>5 DEF SplitsInto
    <3>2. m \in Nat \ {0}
      BY <1>3 DEF m
    <3>. QED  BY <3>1, <3>2, PairKey
  <2>2. L[i][2] = L[k][2]
    BY <1>4, <2>1
  <2>. QED  BY <1>2, <2>1, <2>2
<1>6. ASSUME L[i] = L[k] PROVE BothKeys(L, B, B)[i] = BothKeys(L, B, B)[k]
  BY <1>1, <1>6 DEF BothKeys, FlagOf
<1>7. BothKeys(L, B, B)[i] \in Nat
  <2>1. L[i][1] * m \in Nat /\ m \in Nat
    BY <1>3, <1>4 DEF m
  <2> HIDE DEF w
  <2>. QED  BY <1>4, <2>1
<1>. QED  BY <1>2, <1>5, <1>6, <1>7

(* In the sorted list an entry equals the one before it exactly if it      *)
(* repeats an earlier one.                                                 *)
LEMMA MinusZero == ASSUME NEW a \in Ring, NEW b \in Ring PROVE Minus(a, b) = 0 <=> a = b
<1>1. a \in Nat /\ b \in Nat /\ a < Modulus /\ b < Modulus /\ Modulus \in Nat \ {0}
  BY ModulusFacts DEF Ring
<1>2. ASSUME a = b PROVE Minus(a, b) = 0
  <2>1. a - b = 0 /\ 0 % Modulus = 0
    BY <1>1, <1>2
  <2>. QED  BY <2>1 DEF Minus
<1>3. ASSUME a > b PROVE Minus(a, b) # 0
  <2>1. a - b \in Nat /\ a - b < Modulus /\ a - b # 0
    BY <1>1, <1>3
  <2>2. (a - b) % Modulus = a - b
    BY <1>1, <2>1
  <2>. QED  BY <2>1, <2>2 DEF Minus
<1>4. ASSUME a < b PROVE Minus(a, b) # 0
  <2> DEFINE z == Modulus + (a - b)
  <2>1. z \in 0 .. (Modulus - 1) /\ z # 0 /\ a - b = Modulus * (-1) + z /\ a - b \in Int /\ -1 \in Int
    BY <1>1, <1>4
  <2> HIDE DEF z
  <2>2. (a - b) % Modulus = z
    BY <1>1, <2>1, ModUnique
  <2>. QED  BY <2>1, <2>2 DEF Minus
<1>. QED  BY <1>1, <1>2, <1>3, <1>4

LEMMA FindsMarks ==
  ASSUME NEW L, NEW n, NEW v, NEW B, GraphOf(L, n, v, B), NEW f, PermOf(f, n),
         NEW r, r = RanksOf(BothKeys(L, B, B), n),
         NEW s, NEW t, Vec(s, n, Ring), Vec(t, n, Ring),
         NEW y, NEW z, \A k \in 1 .. n : y[k] = L[k][1] /\ z[k] = L[k][2],
         Puts(s, y, r, n), Puts(t, z, r, n),
         NEW d, Takes(d, Duplicates(s, t), r, n)
  PROVE  Marks(d, L, n)
<1> DEFINE K == BothKeys(L, B, B)
           D == Duplicates(s, t)
<1>1. n \in Nat /\ Len(s) = n /\ s \in [1 .. n -> Ring] /\ t \in [1 .. n -> Ring]
  <2>1. n \in Nat
    BY DEF GraphOf, Listed
  <2>2. s \in [1 .. n -> Ring] /\ t \in [1 .. n -> Ring]
    BY DEF Vec
  <2>. QED  BY <2>1, <2>2, FunIsSeq
<1>2. Keys(K, n)
  BY BothKeyTells DEF Keys
<1>3. PermOf(r, n) /\ \A i, k \in 1 .. n : r[i] < r[k] <=> Before(K, i, k)
  BY <1>1, <1>2, RanksOrdered
<1>4. r \in [1 .. n -> 1 .. n] /\ \A i, k \in 1 .. n : r[i] = r[k] => i = k
  BY <1>3 DEF PermOf
<1>5. \A k \in 1 .. n : s[r[k]] = L[k][1] /\ t[r[k]] = L[k][2]
  BY DEF Puts
<1>6. \A i, k \in 1 .. n : K[i] \in Nat /\ K[k] \in Nat /\ (K[i] = K[k] <=> L[i] = L[k])
  BY BothKeyTells
<1>7. \A i, k \in 1 .. n : L[i][1] = L[k][1] /\ L[i][2] = L[k][2] <=> L[i] = L[k]
  BY BothKeyTells
<1> HIDE DEF K
<1>8. D = [q \in 1 .. n |-> IF q > 1 /\ EqualsPrior(s, q) /\ EqualsPrior(t, q) THEN 1 ELSE 0]
  BY <1>1 DEF Duplicates
<1> HIDE DEF D
<1>9. d = [e \in 1 .. n |-> D[r[e]]]
  BY DEF Takes, D
<1>10. Flags(d, n)
  BY <1>4, <1>8, <1>9 DEF Flags, Vec
(* The entry before k, if there is one.                                    *)
<1>11. ASSUME NEW k \in 1 .. n, NEW p \in 1 .. n, r[p] = r[k] - 1
       PROVE  d[k] = 1 <=> L[p] = L[k]
  <2>1. r[k] \in 1 .. n /\ r[k] > 1 /\ r[k] - 1 \in 1 .. n
    BY <1>4, <1>11
  <2>2. EqualsPrior(s, r[k]) <=> L[k][1] = L[p][1]
    <3>1. s[r[k]] = L[k][1] /\ s[r[k] - 1] = L[p][1] /\ s[r[k]] \in Ring /\ s[r[k] - 1] \in Ring
      BY <1>1, <1>5, <1>11, <2>1
    <3>. QED  BY <3>1, MinusZero DEF EqualsPrior
  <2>3. EqualsPrior(t, r[k]) <=> L[k][2] = L[p][2]
    <3>1. t[r[k]] = L[k][2] /\ t[r[k] - 1] = L[p][2] /\ t[r[k]] \in Ring /\ t[r[k] - 1] \in Ring
      BY <1>1, <1>5, <1>11, <2>1
    <3>. QED  BY <3>1, MinusZero DEF EqualsPrior
  <2>4. d[k] = 1 <=> EqualsPrior(s, r[k]) /\ EqualsPrior(t, r[k])
    BY <1>8, <1>9, <2>1
  <2>. QED  BY <1>7, <2>2, <2>3, <2>4
<1>12. ASSUME NEW k \in 1 .. n, r[k] > 1 PROVE \E p \in 1 .. n : r[p] = r[k] - 1
  <2>0. r[k] \in 1 .. n
    BY <1>4
  <2>1. r[k] - 1 \in 1 .. n
    BY <1>1, <1>12, <2>0
  <2> DEFINE q == r[k] - 1
  <2>2. \A j \in 1 .. n : \E p \in 1 .. n : r[p] = j
    <3>1. Onto(r, n)
      BY <1>1, <1>3, PermOnto
    <3>. QED  BY <3>1 DEF Onto
  <2> HIDE DEF q
  <2>3. \E p \in 1 .. n : r[p] = q
    BY <2>1, <2>2 DEF q
  <2>. QED  BY <2>3 DEF q
<1>13. ASSUME NEW k \in 1 .. n, d[k] = 1 PROVE \E i \in 1 .. (k - 1) : L[i] = L[k]
  <2>1. r[k] > 1
    BY <1>4, <1>8, <1>9, <1>13
  <2>2. PICK p \in 1 .. n : r[p] = r[k] - 1
    BY <1>12, <2>1
  <2>3. L[p] = L[k]
    BY <1>11, <1>13, <2>2
  <2>4. r[p] < r[k]
    BY <1>4, <2>2
  <2>5. p < k
    BY <1>3, <1>6, <2>3, <2>4 DEF Before
  <2>6. p \in 1 .. (k - 1)
    BY <1>1, <2>5
  <2>. QED  BY <2>3, <2>6
<1>14. ASSUME NEW k \in 1 .. n, NEW i \in 1 .. (k - 1), L[i] = L[k] PROVE d[k] = 1
  <2>1. i \in 1 .. n /\ i < k
    BY <1>1
  <2>2. K[i] = K[k]
    BY <1>6, <1>14, <2>1
  <2>3. r[i] < r[k]
    BY <1>3, <2>1, <2>2 DEF Before
  <2>4. r[k] > 1
    BY <1>4, <2>1, <2>3
  <2>5. PICK p \in 1 .. n : r[p] = r[k] - 1
    BY <1>12, <2>4
  <2>6. r[p] < r[k] /\ (r[i] < r[p] \/ i = p)
    <3>1. r[i] \in Nat /\ r[p] \in Nat /\ r[k] \in Nat
      BY <1>4, <2>1
    <3>2. r[i] < r[p] \/ r[i] = r[p]
      BY <2>3, <2>5, <3>1
    <3>. QED  BY <1>4, <2>1, <2>5, <3>1, <3>2
  <2>7. K[p] = K[k]
    <3>1. K[p] \in Nat /\ K[k] \in Nat /\ K[i] \in Nat
      BY <1>6, <2>1
    <3>2. K[p] <= K[k]
      BY <1>3, <2>6, <3>1 DEF Before
    <3>3. K[i] <= K[p]
      BY <1>3, <2>1, <2>6, <3>1 DEF Before
    <3>. QED  BY <2>2, <3>1, <3>2, <3>3
  <2>8. L[p] = L[k]
    BY <1>6, <2>7
  <2>. QED  BY <1>11, <2>5, <2>8
<1>15. \A k \in 1 .. n : d[k] = 1 <=> \E i \in 1 .. (k - 1) : L[i] = L[k]
  BY <1>13, <1>14
<1>. QED  BY <1>10, <1>15 DEF Marks
-----------------------------------------------------------------------------
(* The bits the orderings are sorted by.                                   *)
LEMMA EndBits ==
  ASSUME job \in Jobs, NEW end \in {1, 2}, NEW b \in Nat, b # job.bits,
         NEW X, \A k \in 1 .. Size : X[k] = job.list[k][end]
  PROVE  BitsAre(Bit(end, b), X, b, Size)
<1> DEFINE n == Size
           x == Bit(end, b)
<1>1. Listed(job.list, n) /\ n \in Nat /\ Entries = 1 .. n
  BY JobListed DEF Listed, Size, Entries
<1>2. x = [k \in 1 .. n |-> (job.list[k][end] \div 2^b) % 2]
  BY <1>1 DEF Bit
<1>3. ASSUME NEW k \in 1 .. n
      PROVE  x[k] \in {0, 1} /\ X[k] \in Nat /\ X[k] % 2^(b + 1) = x[k] * 2^b + (X[k] % 2^b)
  <2>1. X[k] = job.list[k][end] /\ X[k] \in Ring
    BY <1>1 DEF Listed
  <2>2. X[k] \in Nat
    BY <2>1, RingInt
  <2>3. x[k] = (X[k] \div 2^b) % 2
    BY <1>2, <2>1
  <2>. QED  BY <2>2, <2>3, LowNext
<1>4. x \in [1 .. n -> {0, 1}]
  BY <1>2, <1>3
<1>. QED  BY <1>3, <1>4 DEF BitsAre, Flags, Vec

SourceNumbers(X, n) == \A k \in 1 .. n : X[k] = job.list[k][1] + TwiceOf(duplicate, job.bits, k)
LEMMA SourceBits ==
  ASSUME job \in Jobs, job.measure # "sort", MaybeMarks(duplicate, job.list, Size),
         job.measure = "pi_2" => Marks(duplicate, job.list, Size),
         NEW b \in Nat, b < BitsOf("source"), NEW X, SourceNumbers(X, Size)
  PROVE  BitsAre(Bit(1, b), X, b, Size)
<1> DEFINE n == Size
           B == job.bits
           L == job.list
           x == Bit(1, b)
<1>1. GraphOf(L, n, job.n, B) /\ n \in Nat /\ B \in Nat
  BY JobGraph DEF GraphOf, Listed, Size
<1>2. b < B \/ (b = B /\ job.measure = "pi_2")
  BY <1>1 DEF BitsOf
<1>3. ASSUME NEW k \in 1 .. n
      PROVE  /\ L[k][1] \in Nat /\ L[k][1] < 2^B /\ X[k] \in Nat /\ X[k] = L[k][1] + TwiceOf(duplicate, B, k)
             /\ \E d \in {0, 1} : X[k] = L[k][1] + d * 2^B /\ (duplicate # <<>> => d = duplicate[k])
  <2>1. L[k][1] \in Nat /\ L[k][1] < 2^B /\ TwiceOf(duplicate, B, k) \in Nat
    <3>1. TwiceOf(duplicate, B, k) \in Nat
      BY <1>1, NodesUnmarked
    <3>. QED  BY <1>1, <3>1 DEF GraphOf
  <2>2. X[k] = L[k][1] + TwiceOf(duplicate, B, k) /\ X[k] \in Nat
    BY <2>1 DEF SourceNumbers
  <2>3. CASE duplicate = <<>>
    <3>1. 0 * 2^B = 0 /\ TwiceOf(duplicate, B, k) = 0
      BY <1>1, <2>3, PowNat DEF TwiceOf
    <3>. QED  BY <2>1, <2>2, <2>3, <3>1
  <2>4. CASE duplicate # <<>>
    <3>1. duplicate[k] \in {0, 1} /\ TwiceOf(duplicate, B, k) = duplicate[k] * 2^B
      BY <2>4 DEF TwiceOf, MaybeMarks, Marks, Flags, Vec
    <3>. QED  BY <2>1, <2>2, <3>1
  <2>. QED  BY <2>1, <2>2, <2>3, <2>4
<1>4. CASE b < B
  <2> DEFINE F == [k \in 1 .. n |-> L[k][1]]
  <2>1. \A k \in 1 .. n : F[k] = L[k][1]
    OBVIOUS
  <2> HIDE DEF F
  <2>2. BitsAre(x, F, b, n)
    BY <1>1, <1>4, <2>1, EndBits
  <2>3. ASSUME NEW k \in 1 .. n
        PROVE  X[k] \in Nat /\ X[k] % 2^(b + 1) = F[k] % 2^(b + 1) /\ X[k] % 2^b = F[k] % 2^b
    <3>1. PICK d \in {0, 1} : X[k] = F[k] + d * 2^B
      BY <1>3, <2>1
    <3>2. F[k] \in Nat /\ X[k] \in Nat /\ b \in 0 .. B /\ b + 1 \in 0 .. B
      BY <1>1, <1>3, <1>4, <2>1
    <3>3. (F[k] + d * 2^B) % 2^b = F[k] % 2^b
      BY ZenonT(40), <1>1, <3>2, LowOfFront
    <3> DEFINE c == b + 1
    <3> HIDE DEF c
    <3>4. c \in 0 .. B
      BY <3>2 DEF c
    <3>5. (F[k] + d * 2^B) % 2^c = F[k] % 2^c
      BY ZenonT(40), <1>1, <3>2, <3>4, LowOfFront
    <3>. QED  BY <3>1, <3>2, <3>3, <3>5 DEF c
  <2>4. \A k \in 1 .. n : X[k] \in Nat /\ X[k] % 2^(b + 1) = x[k] * 2^b + (X[k] % 2^b)
    BY <2>2, <2>3 DEF BitsAre
  <2>. QED  BY <2>2, <2>4 DEF BitsAre
<1>5. CASE b = B /\ job.measure = "pi_2"
  <2>1. x = duplicate /\ Marks(duplicate, L, n) /\ Flags(x, n)
    BY <1>5 DEF Bit, Marks
  <2>2. ASSUME NEW k \in 1 .. n PROVE X[k] % 2^(b + 1) = x[k] * 2^b + (X[k] % 2^b)
    <3>1. duplicate # <<>>
      BY <1>1, <2>1 DEF Marks, Flags, Vec
    <3>2. L[k][1] \in Nat /\ L[k][1] < 2^B /\ x[k] \in {0, 1} /\ X[k] = L[k][1] + x[k] * 2^B
      BY <1>3, <2>1, <3>1
    <3>3. X[k] % 2^(B + 1) = L[k][1] + x[k] * 2^B
      <4> DEFINE p == L[k][1]
                 d == x[k]
      <4>1. p \in Nat /\ p < 2^B /\ d \in {0, 1} /\ X[k] = p + d * 2^B
        BY <3>2
      <4> HIDE DEF p, d, B
      <4>2. (p + d * 2^B) % 2^(B + 1) = p + d * 2^B
        BY <1>1, <4>1, FrontBit
      <4>. QED  BY <4>1, <4>2 DEF p, d
    <3>4. X[k] % 2^B = L[k][1] % 2^B
      <4>1. B \in 0 .. B
        BY <1>1
      <4>. QED  BY <1>1, <3>2, <4>1, LowOfFront
    <3>5. L[k][1] % 2^B = L[k][1]
      BY <1>1, <3>2, LowAll
    <3>6. x[k] * 2^B \in Int
      <4> DEFINE m == 2^B
      <4>1. m \in Nat
        BY <1>1, PowNat
      <4> HIDE DEF m
      <4>2. x[k] * m \in Int
        BY <3>2, <4>1
      <4>. QED  BY <4>2 DEF m
    <3> DEFINE g == x[k] * 2^B
    <3> HIDE DEF g
    <3>7. L[k][1] + g = g + L[k][1]
      BY <3>2, <3>6 DEF g
    <3>. QED  BY <1>5, <3>3, <3>4, <3>5, <3>7 DEF g
  <2>3. \A k \in 1 .. n : X[k] \in Nat
    BY <1>3
  <2>. QED  BY <2>1, <2>2, <2>3 DEF BitsAre
<1>. QED  BY <1>2, <1>4, <1>5
-----------------------------------------------------------------------------
(* What the loops and steps make of the orderings.                         *)
LEMMA FlagVectors ==
  ASSUME job \in Jobs
  PROVE  /\ Flags(VertexFlags, Size) /\ Flags(Flipped(VertexFlags), Size)
         /\ \A k \in 1 .. Size : /\ VertexFlags[k] = FlagOf(job.list, k)
                                 /\ Flipped(VertexFlags)[k] = 1 - FlagOf(job.list, k)
<1> DEFINE n == Size
           x == VertexFlags
           y == Flipped(x)
<1>1. Entries = 1 .. n /\ n \in Nat
  BY JobListed DEF Listed, Size, Entries
<1>2. x = [k \in 1 .. n |-> FlagOf(job.list, k)]
  BY <1>1 DEF VertexFlags, IsNode, From, To, FlagOf
<1>3. x \in [1 .. n -> {0, 1}] /\ \A k \in 1 .. n : x[k] = FlagOf(job.list, k)
  BY <1>2 DEF FlagOf
<1> HIDE DEF x
<1>4. Len(x) = n
  BY <1>1, <1>3, FunIsSeq
<1>5. y = [k \in 1 .. n |-> Minus(1, x[k])]
  BY <1>4 DEF Flipped
<1>6. Minus(1, 0) = 1 /\ Minus(1, 1) = 0
  BY ModulusFacts DEF Minus
<1>7. \A k \in 1 .. n : y[k] = 1 - x[k] /\ y[k] \in {0, 1}
  BY <1>3, <1>5, <1>6
<1>8. y \in [1 .. n -> {0, 1}]
  BY <1>5, <1>7
<1>. QED  BY <1>3, <1>7, <1>8 DEF Flags, Vec, x

LEMMA GraphJob ==
  ASSUME job \in Jobs, job.measure # "sort"
  PROVE  /\ GraphOf(job.list, Size, job.n, job.bits) /\ Size \in Nat /\ Size > 0 /\ job.bits \in Nat
         /\ DOMAIN job.list = 1 .. Size /\ Entries = 1 .. Size
         /\ \A k \in 1 .. Size : job.list[k][1] \in Nat /\ job.list[k][2] \in Nat
BY SMTT(30), JobGraph DEF GraphOf, Listed, Size, Entries

LEMMA SourceStart ==
  ASSUME job \in Jobs, job.measure # "sort", MaybeMarks(duplicate, job.list, Size)
  PROVE  Compaction(Flipped(VertexFlags)) = RanksOf(SourceKeys(job.list, duplicate, job.bits, 0), Size)
<1> DEFINE key == SourceKeys(job.list, duplicate, job.bits, 0)
           y == Flipped(VertexFlags)
<1>1. Flags(y, Size) /\ \A k \in 1 .. Size : y[k] = 1 - FlagOf(job.list, k)
  BY FlagVectors
<1>2. ASSUME NEW k \in 1 .. Size PROVE key[k] = y[k]
  <2> DEFINE X == job.list[k][1] + TwiceOf(duplicate, job.bits, k)
  <2>1. TwiceOf(duplicate, job.bits, k) \in Nat
    BY GraphJob, NodesUnmarked
  <2>2. X \in Nat
    BY <2>1, GraphJob
  <2>3. key[k] = 2 * (X % 2^0) + 1 - FlagOf(job.list, k)
    BY GraphJob DEF SourceKeys
  <2> HIDE DEF X
  <2>4. 2^0 = 1 /\ X % 1 = 0
    BY <2>2
  <2>5. FlagOf(job.list, k) \in {0, 1}
    BY DEF FlagOf
  <2>6. 2 * (X % 2^0) = 0
    BY <2>4
  <2>. QED  BY <1>1, <2>3, <2>5, <2>6
<1> HIDE DEF key, y
<1>3. Compaction(y) = RanksOf(key, Size)
  BY <1>1, <1>2, GraphJob, FlagFirst
<1>. QED  BY <1>3 DEF key, y

LEMMA SourceStep ==
  ASSUME job \in Jobs, job.measure # "sort", MaybeMarks(duplicate, job.list, Size),
         job.measure = "pi_2" => Marks(duplicate, job.list, Size),
         NEW b \in Nat, b < BitsOf("source"), NEW f, PermOf(f, Size)
  PROVE  SortingIteration(RanksOf(SourceKeys(job.list, duplicate, job.bits, b), Size), Bit(1, b), f)
           = RanksOf(SourceKeys(job.list, duplicate, job.bits, b + 1), Size)
<1> DEFINE L == job.list
           n == Size
           X == [k \in 1 .. n |-> L[k][1] + TwiceOf(duplicate, job.bits, k)]
           c == Flipped(VertexFlags)
           K(a) == SourceKeys(L, duplicate, job.bits, a)
<1>1. SourceNumbers(X, n)
  BY DEF SourceNumbers
<1>2. Flags(c, n) /\ \A k \in 1 .. n : c[k] = 1 - FlagOf(L, k)
  BY FlagVectors
<1>3. ASSUME NEW a \in Nat PROVE BitsAndFlag(K(a), X, a, c, n)
  <2>1. ASSUME NEW k \in 1 .. n PROVE K(a)[k] = 2 * (X[k] % 2^a) + c[k]
    <3>1. K(a)[k] = 2 * (X[k] % 2^a) + 1 - FlagOf(L, k)
      BY GraphJob DEF SourceKeys
    <3>2. X[k] \in Nat
      <4>1. TwiceOf(duplicate, job.bits, k) \in Nat /\ L[k][1] \in Nat
        BY GraphJob, NodesUnmarked
      <4>. QED  BY <4>1
    <3> HIDE DEF X, c
    <3>3. X[k] % 2^a \in 0 .. (2^a - 1) /\ 2^a \in Nat
      BY <3>2, LowBound, PowNat
    <3> DEFINE l == X[k] % 2^a
    <3>4. l \in Int
      BY <3>3
    <3> HIDE DEF l
    <3>5. FlagOf(L, k) \in {0, 1}
      BY DEF FlagOf
    <3>6. 2 * l + 1 - FlagOf(L, k) = 2 * l + c[k]
      BY <1>2, <3>4, <3>5
    <3>. QED  BY <3>1, <3>6 DEF l
  <2>. QED  BY <2>1 DEF BitsAndFlag
<1>4. b + 1 \in Nat
  OBVIOUS
<1> HIDE DEF X, c, K
<1>5. BitsAre(Bit(1, b), X, b, n)
  BY <1>1, SourceBits
<1>6. BitsAndFlag(K(b), X, b, c, n) /\ BitsAndFlag(K(b + 1), X, b + 1, c, n)
  BY <1>3, <1>4
<1>7. n \in Nat
  BY GraphJob
<1>8. SortingIteration(RanksOf(K(b), n), Bit(1, b), f) = RanksOf(K(b + 1), n)
  BY <1>2, <1>5, <1>6, <1>7, StepKeys
<1>. QED  BY <1>8 DEF K

LEMMA DestStart ==
  ASSUME job \in Jobs, job.measure # "sort"
  PROVE  Compaction(VertexFlags) = RanksOf(DestKeys(job.list, 0), Size)
<1> DEFINE key == DestKeys(job.list, 0)
           y == VertexFlags
<1>1. Flags(y, Size) /\ \A k \in 1 .. Size : y[k] = FlagOf(job.list, k)
  BY FlagVectors
<1>2. ASSUME NEW k \in 1 .. Size PROVE key[k] = y[k]
  <2> DEFINE X == job.list[k][2]
  <2>1. X \in Nat
    BY GraphJob
  <2>2. key[k] = 2 * (X % 2^0) + FlagOf(job.list, k)
    BY GraphJob DEF DestKeys
  <2> HIDE DEF X
  <2>3. 2^0 = 1 /\ X % 1 = 0
    BY <2>1
  <2>4. FlagOf(job.list, k) \in {0, 1}
    BY DEF FlagOf
  <2>5. 2 * (X % 2^0) = 0
    BY <2>3
  <2>. QED  BY <1>1, <2>2, <2>4, <2>5
<1> HIDE DEF key, y
<1>3. Compaction(y) = RanksOf(key, Size)
  BY <1>1, <1>2, GraphJob, FlagFirst
<1>. QED  BY <1>3 DEF key, y

LEMMA DestStep ==
  ASSUME job \in Jobs, job.measure # "sort", NEW b \in Nat, b < job.bits, NEW f, PermOf(f, Size)
  PROVE  SortingIteration(RanksOf(DestKeys(job.list, b), Size), Bit(2, b), f)
           = RanksOf(DestKeys(job.list, b + 1), Size)
<1> DEFINE L == job.list
           n == Size
           X == [k \in 1 .. n |-> L[k][2]]
           c == VertexFlags
           K(a) == DestKeys(L, a)
<1>1. Flags(c, n) /\ \A k \in 1 .. n : c[k] = FlagOf(L, k)
  BY FlagVectors
<1>2. ASSUME NEW a \in Nat PROVE BitsAndFlag(K(a), X, a, c, n)
  <2>1. \A k \in 1 .. n : K(a)[k] = 2 * (X[k] % 2^a) + c[k]
    BY <1>1, GraphJob DEF DestKeys
  <2>. QED  BY <2>1 DEF BitsAndFlag
<1>3. b + 1 \in Nat /\ b # job.bits /\ 2 \in {1, 2}
  BY GraphJob
<1>4. \A k \in 1 .. n : X[k] = L[k][2]
  OBVIOUS
<1> HIDE DEF X, c, K
<1>5. BitsAre(Bit(2, b), X, b, n)
  BY <1>3, <1>4, EndBits
<1>6. BitsAndFlag(K(b), X, b, c, n) /\ BitsAndFlag(K(b + 1), X, b + 1, c, n)
  BY <1>2, <1>3
<1>7. n \in Nat
  BY GraphJob
<1>8. SortingIteration(RanksOf(K(b), n), Bit(2, b), f) = RanksOf(K(b + 1), n)
  BY <1>1, <1>5, <1>6, <1>7, StepKeys
<1>. QED  BY <1>8 DEF K

(* Sorted by all bits.                                                     *)
LEMMA DestAll ==
  ASSUME job \in Jobs, job.measure # "sort"
  PROVE  RanksOf(DestKeys(job.list, job.bits), Size) = RanksOf(FullKeys(job.list, <<>>, job.bits), Size)
<1> DEFINE L == job.list
           B == job.bits
           K == DestKeys(L, B)
           F == FullKeys(L, <<>>, B)
<1>1. ASSUME NEW k \in 1 .. Size PROVE K[k] = F[k]
  <2>1. L[k][2] % 2^B = L[k][2] /\ L[k][2] \in Nat
    BY GraphJob, DestPart
  <2>2. TwiceOf(<<>>, B, k) = 0
    BY DEF TwiceOf
  <2>3. K[k] = 2 * (L[k][2] % 2^B) + FlagOf(L, k) /\ F[k] = 2 * (L[k][2] + 0) + FlagOf(L, k)
    BY <2>2, GraphJob DEF DestKeys, FullKeys
  <2>4. L[k][2] + 0 = L[k][2]
    BY <2>1
  <2>. QED  BY <2>1, <2>3, <2>4
<1> HIDE DEF K, F
<1>2. RanksOf(K, Size) = RanksOf(F, Size)
  BY <1>1, GraphJob, RanksSame
<1>. QED  BY <1>2 DEF K, F

(* The third ordering of pi_2: by source, what is sorted by destination.   *)
LEMMA BothStart ==
  ASSUME job \in Jobs, job.measure # "sort"
  PROVE  RanksOf(FullKeys(job.list, <<>>, job.bits), Size) = RanksOf(BothKeys(job.list, job.bits, 0), Size)
<1> DEFINE L == job.list
           B == job.bits
           K == BothKeys(L, B, 0)
           F == FullKeys(L, <<>>, B)
<1>1. ASSUME NEW k \in 1 .. Size PROVE F[k] = K[k]
  <2>1. L[k][1] \in Nat /\ L[k][2] \in Nat /\ FlagOf(L, k) \in {0, 1}
    BY GraphJob, DestPart
  <2>2. TwiceOf(<<>>, B, k) = 0
    BY DEF TwiceOf
  <2>3. F[k] = 2 * (L[k][2] + 0) + FlagOf(L, k)
    BY <2>2, GraphJob DEF FullKeys
  <2>4. K[k] = (L[k][1] % 2^0) * 2^(B + 1) + (2 * L[k][2] + FlagOf(L, k))
    BY GraphJob DEF BothKeys
  <2>5. L[k][1] % 2^0 = 0
    <3>1. 2^0 = 1
      OBVIOUS
    <3>2. L[k][1] % 1 = 0
      BY <2>1
    <3>. QED  BY <3>1, <3>2
  <2>6. B + 1 \in Nat /\ 2^(B + 1) \in Nat
    <3>1. B + 1 \in Nat
      BY GraphJob
    <3>. QED  BY <3>1, PowNat
  <2>7. 0 * 2^(B + 1) = 0
    BY <2>6
  <2>. QED  BY <2>1, <2>3, <2>4, <2>5, <2>7
<1> HIDE DEF K, F
<1>2. RanksOf(F, Size) = RanksOf(K, Size)
  BY <1>1, GraphJob, RanksSame
<1>. QED  BY <1>2 DEF K, F

LEMMA BothStep ==
  ASSUME job \in Jobs, job.measure # "sort", NEW b \in Nat, b < job.bits, NEW f, PermOf(f, Size)
  PROVE  SortingIteration(RanksOf(BothKeys(job.list, job.bits, b), Size), Bit(1, b), f)
           = RanksOf(BothKeys(job.list, job.bits, b + 1), Size)
<1> DEFINE L == job.list
           n == Size
           B == job.bits
           X == [k \in 1 .. n |-> L[k][1]]
           w == [k \in 1 .. n |-> 2 * L[k][2] + FlagOf(L, k)]
           m == 2^(B + 1)
           K(a) == BothKeys(L, B, a)
<1>1. m \in Nat
  <2>1. B + 1 \in Nat
    BY GraphJob
  <2>. QED  BY <2>1, PowNat
<1>2. Below(w, m, n)
  <2>1. ASSUME NEW k \in 1 .. n PROVE w[k] \in 0 .. (m - 1)
    BY GraphJob, DestPart
  <2>. QED  BY <2>1 DEF Below
<1>3. ASSUME NEW a \in Nat PROVE BitsAndKey(K(a), X, a, m, w, n)
  <2>1. \A k \in 1 .. n : K(a)[k] = (X[k] % 2^a) * m + w[k]
    BY GraphJob DEF BothKeys
  <2>. QED  BY <2>1 DEF BitsAndKey
<1>4. b + 1 \in Nat /\ b # job.bits /\ 1 \in {1, 2}
  BY GraphJob
<1>5. \A k \in 1 .. n : X[k] = L[k][1]
  OBVIOUS
<1> HIDE DEF X, w, m, K
<1>6. BitsAre(Bit(1, b), X, b, n)
  BY <1>4, <1>5, EndBits
<1>7. BitsAndKey(K(b), X, b, m, w, n) /\ BitsAndKey(K(b + 1), X, b + 1, m, w, n)
  BY <1>3, <1>4
<1>8. n \in Nat
  BY GraphJob
<1>9. SortingIteration(RanksOf(K(b), n), Bit(1, b), f) = RanksOf(K(b + 1), n)
  BY <1>1, <1>2, <1>6, <1>7, <1>8, StepFront
<1>. QED  BY <1>9 DEF K

(* The destination with the flag of a duplicate as one more bit.           *)
LEMMA FullFacts ==
  ASSUME NEW L, NEW n, NEW v, NEW B, GraphOf(L, n, v, B), NEW d, MaybeMarks(d, L, n), NEW k \in 1 .. n
  PROVE  /\ FullKeys(L, d, B)[k] = 2 * (L[k][2] + TwiceOf(d, B, k)) + FlagOf(L, k)
         /\ L[k][2] + TwiceOf(d, B, k) \in Nat
         /\ (L[k][2] + TwiceOf(d, B, k)) % 2^(B + 1) = L[k][2] + TwiceOf(d, B, k)
         /\ (L[k][2] + TwiceOf(d, B, k)) % 2^B = L[k][2]
         /\ FullKeys(L, d, B)[k] \in 0 .. (2 * 2^(B + 1) - 1)
<1> DEFINE X == L[k][2] + TwiceOf(d, B, k)
           c == FlagOf(L, k)
<1>1. B \in Nat /\ DOMAIN L = 1 .. n /\ L[k][2] \in Nat /\ L[k][2] < 2^B
  BY DEF GraphOf, Listed
<1>2. c \in {0, 1}
  BY DEF FlagOf
<1>3. PICK e \in {0, 1} : TwiceOf(d, B, k) = e * 2^B
  <2>1. CASE d = <<>>
    <3>1. 0 * 2^B = 0
      BY <1>1, PowNat
    <3>. QED  BY <2>1, <3>1 DEF TwiceOf
  <2>2. CASE d # <<>>
    BY <2>2 DEF TwiceOf, MaybeMarks, Marks, Flags, Vec
  <2>. QED  BY <2>1, <2>2
<1>4. FullKeys(L, d, B)[k] = 2 * X + c
  BY <1>1 DEF FullKeys
<1>5. X = L[k][2] + e * 2^B
  BY <1>3
<1> HIDE DEF X, c
<1>6. X \in Nat /\ X < 2^(B + 1) /\ X % 2^(B + 1) = X
  <2> DEFINE p == L[k][2]
  <2>1. p \in Nat /\ p < 2^B /\ X = p + e * 2^B
    BY <1>1, <1>5
  <2> HIDE DEF p
  <2>. QED  BY <1>1, <2>1, FrontBit
<1>7. X % 2^B = L[k][2]
  <2> DEFINE p == L[k][2]
  <2>1. p \in Nat /\ p < 2^B /\ X = p + e * 2^B /\ B \in 0 .. B
    BY <1>1, <1>5
  <2> HIDE DEF p
  <2>2. (p + e * 2^B) % 2^B = p % 2^B
    BY <1>1, <2>1, LowOfFront
  <2>3. p % 2^B = p
    BY <1>1, <2>1, LowAll
  <2>. QED  BY <2>1, <2>2, <2>3 DEF p
<1>8. 2 * X + c \in 0 .. (2 * 2^(B + 1) - 1)
  <2> DEFINE m == 2^(B + 1)
  <2>1. m \in Nat
    <3>1. B + 1 \in Nat
      BY <1>1
    <3>. QED  BY <3>1, PowNat
  <2>2. X < m
    BY <1>6
  <2> HIDE DEF m
  <2>3. 2 * X + c \in 0 .. (2 * m - 1)
    BY <1>2, <1>6, <2>1, <2>2
  <2>. QED  BY <2>3 DEF m
<1>. QED  BY <1>4, <1>6, <1>7, <1>8 DEF X, c

LEMMA LastStep ==
  ASSUME job \in Jobs, job.measure # "sort", Marks(duplicate, job.list, Size),
         NEW f, PermOf(f, Size)
  PROVE  SortingIteration(RanksOf(FullKeys(job.list, <<>>, job.bits), Size), Bit(2, job.bits), f)
           = RanksOf(FullKeys(job.list, duplicate, job.bits), Size)
<1> DEFINE L == job.list
           n == Size
           B == job.bits
           X == [k \in 1 .. n |-> L[k][2] + TwiceOf(duplicate, B, k)]
           c == VertexFlags
           K == FullKeys(L, <<>>, B)
           F == FullKeys(L, duplicate, B)
<1>1. /\ GraphOf(L, n, job.n, B) /\ n \in Nat /\ B \in Nat
      /\ MaybeMarks(duplicate, L, n) /\ MaybeMarks(<<>>, L, n)
  BY GraphJob DEF MaybeMarks
<1>2. Flags(c, n) /\ \A k \in 1 .. n : c[k] = FlagOf(L, k)
  BY FlagVectors
<1>3. Bit(2, B) = duplicate /\ Flags(duplicate, n) /\ duplicate # <<>>
  BY GraphJob DEF Bit, Marks, Flags, Vec
<1>4. ASSUME NEW k \in 1 .. n
      PROVE  /\ X[k] \in Nat /\ X[k] % 2^B = L[k][2] /\ X[k] % 2^(B + 1) = X[k]
             /\ X[k] = L[k][2] + TwiceOf(duplicate, B, k)
             /\ F[k] = 2 * X[k] + FlagOf(L, k) /\ K[k] = 2 * (L[k][2] + 0) + FlagOf(L, k)
  <2>1. X[k] = L[k][2] + TwiceOf(duplicate, B, k)
    OBVIOUS
  <2>2. TwiceOf(<<>>, B, k) = 0
    BY DEF TwiceOf
  <2> HIDE DEF X, K, F, L, n, B, c
  <2>3. K[k] = 2 * (L[k][2] + TwiceOf(<<>>, B, k)) + FlagOf(L, k)
    <3>1. FullKeys(L, <<>>, B)[k] = 2 * (L[k][2] + TwiceOf(<<>>, B, k)) + FlagOf(L, k)
      BY <1>1, FullFacts
    <3>. QED  BY <3>1 DEF K
  <2>4. /\ F[k] = 2 * X[k] + FlagOf(L, k) /\ X[k] \in Nat /\ X[k] % 2^B = L[k][2]
        /\ X[k] % 2^(B + 1) = X[k]
    <3>1. /\ FullKeys(L, duplicate, B)[k] = 2 * (L[k][2] + TwiceOf(duplicate, B, k)) + FlagOf(L, k)
          /\ L[k][2] + TwiceOf(duplicate, B, k) \in Nat
          /\ (L[k][2] + TwiceOf(duplicate, B, k)) % 2^(B + 1) = L[k][2] + TwiceOf(duplicate, B, k)
          /\ (L[k][2] + TwiceOf(duplicate, B, k)) % 2^B = L[k][2]
      BY <1>1, FullFacts
    <3>. QED  BY <2>1, <3>1 DEF F
  <2>. QED  BY <2>1, <2>2, <2>3, <2>4
<1> HIDE DEF X, c, K, F
<1>5. BitsAndFlag(K, X, B, c, n) /\ BitsAndFlag(F, X, B + 1, c, n)
  <2>1. ASSUME NEW k \in 1 .. n PROVE K[k] = 2 * (X[k] % 2^B) + c[k] /\ F[k] = 2 * (X[k] % 2^(B + 1)) + c[k]
    <3>1. L[k][2] + 0 = L[k][2]
      BY GraphJob
    <3>. QED  BY <1>2, <1>4, <3>1
  <2>. QED  BY <2>1 DEF BitsAndFlag
<1>6. BitsAre(duplicate, X, B, n)
  <2>1. ASSUME NEW k \in 1 .. n PROVE X[k] \in Nat /\ X[k] % 2^(B + 1) = duplicate[k] * 2^B + (X[k] % 2^B)
    <3>1. TwiceOf(duplicate, B, k) = duplicate[k] * 2^B /\ TwiceOf(duplicate, B, k) \in Nat
      BY <1>1, <1>3, NodesUnmarked DEF TwiceOf
    <3> DEFINE g == duplicate[k] * 2^B
    <3>2. g \in Nat /\ X[k] = L[k][2] + g /\ L[k][2] \in Nat
      BY <1>4, <3>1, GraphJob
    <3> HIDE DEF g
    <3>3. L[k][2] + g = g + L[k][2]
      BY <3>2
    <3>. QED  BY <1>4, <3>2, <3>3 DEF g
  <2>. QED  BY <1>3, <2>1 DEF BitsAre
<1>7. SortingIteration(RanksOf(K, n), duplicate, f) = RanksOf(F, n)
  BY <1>1, <1>2, <1>5, <1>6, StepKeys
<1>. QED  BY <1>3, <1>7 DEF K, F

(* The vertex ordering is a permutation with node u in place u.            *)
LEMMA VertexStep ==
  ASSUME job \in Jobs, job.measure # "sort", MaybeMarks(duplicate, job.list, Size),
         NEW f, PermOf(f, Size),
         NEW p, p = SortingIteration(RanksOf(FullKeys(job.list, duplicate, job.bits), Size),
                                     Flipped(VertexFlags), f)
  PROVE  PermOf(p, Size) /\ \A k \in 1 .. Size : job.list[k][1] = job.list[k][2] => p[k] = job.list[k][1]
<1> DEFINE L == job.list
           n == Size
           B == job.bits
           x == Flipped(VertexFlags)
           K == FullKeys(L, duplicate, B)
           m == 2 * 2^(B + 1)
           N == [k \in 1 .. n |-> x[k] * m + K[k]]
<1>1. GraphOf(L, n, job.n, B) /\ n \in Nat /\ B \in Nat /\ MaybeMarks(duplicate, L, n)
  BY GraphJob
<1>2. Flags(x, n) /\ \A k \in 1 .. n : x[k] = 1 - FlagOf(L, k)
  BY FlagVectors
<1>3. m \in Nat
  <2>1. B + 1 \in Nat
    BY <1>1
  <2>2. 2^(B + 1) \in Nat
    BY <2>1, PowNat
  <2>. QED  BY <2>2
<1>4. Below(K, m, n)
  <2>1. ASSUME NEW k \in 1 .. n PROVE K[k] \in 0 .. (m - 1)
    <3> HIDE DEF L, n, B
    <3>. QED  BY <1>1, FullFacts
  <2>. QED  BY <2>1 DEF Below
<1>5. InFront(N, x, K, m, n)
  BY DEF InFront
<1>6. \A k \in 1 .. n : K[k] = FullKeys(L, duplicate, B)[k]
  OBVIOUS
<1> HIDE DEF x, K, m, N, L, n, B
<1>7. p = RanksOf(N, n)
  <2>1. SortingIteration(RanksOf(K, n), x, f) = RanksOf(N, n)
    <3>1. PermOf(f, n)
      BY DEF n
    <3>. QED  BY <1>1, <1>2, <1>3, <1>4, <1>5, <3>1, IterationSorts
  <2>. QED  BY <2>1 DEF K, x, L, n, B
<1>8. PermOf(p, n)
  <2>1. PermOf(RanksOf(K, n), n)
    <3>1. Keys(K, n)
      BY <1>3, <1>4 DEF Below, Keys
    <3>. QED  BY <1>1, <3>1, RanksOrdered
  <2>2. PermOf(f, n)
    BY DEF n
  <2>3. PermOf(SortingIteration(RanksOf(K, n), x, f), n)
    BY <1>1, <1>2, <2>1, <2>2, IterationOrders
  <2>. QED  BY <2>3 DEF K, x, L, n, B
<1>9. \A k \in 1 .. n : L[k][1] = L[k][2] => RanksOf(N, n)[k] = L[k][1]
  BY <1>1, <1>2, <1>3, <1>4, <1>5, <1>6, VertexRanks
<1>. QED  BY <1>7, <1>8, <1>9 DEF n, L

(* sort.cpp sorts the words by their bits.                                 *)
LEMMA WordJob ==
  ASSUME job \in Jobs
  PROVE  /\ Size \in Nat /\ job.bits \in Nat \ {0} /\ DOMAIN job.list = 1 .. Size /\ Entries = 1 .. Size
         /\ \A k \in 1 .. Size : /\ job.list[k] \in Ring \X Ring
                                 /\ job.list[k][1] \in Ring /\ job.list[k][2] \in Ring
                                 /\ job.list[k][1] \in Nat /\ job.list[k][2] \in Nat
         /\ \A f \in Shuffles : PermOf(f, Size)
<1>1. /\ Listed(job.list, Size) /\ job.bits \in Nat \ {0} /\ \A f \in Shuffles : PermOf(f, Size)
  BY JobListed DEF Size, Shuffles
<1>. QED  BY <1>1, RingInt DEF Listed, Entries

LEMMA WordStart ==
  ASSUME job \in Jobs PROVE Compaction(Bit(1, 0)) = RanksOf(WordKeys(job.list, 1), Size)
<1> DEFINE n == Size
           X == [k \in 1 .. n |-> job.list[k][1]]
           x == Bit(1, 0)
           K == WordKeys(job.list, 1)
<1>1. BitsAre(x, X, 0, n)
  <2>1. \A k \in 1 .. n : X[k] = job.list[k][1]
    OBVIOUS
  <2>2. 1 \in {1, 2} /\ 0 \in Nat /\ 0 # job.bits
    BY WordJob
  <2> HIDE DEF X
  <2>. QED  BY <2>1, <2>2, EndBits
<1>2. ASSUME NEW k \in 1 .. n PROVE K[k] = x[k]
  <2>1. K[k] = X[k] % 2^1
    BY WordJob DEF WordKeys
  <2> HIDE DEF X, x, K
  <2>2. X[k] \in Nat /\ X[k] % 2^(0 + 1) = x[k] * 2^0 + (X[k] % 2^0) /\ x[k] \in {0, 1}
    BY <1>1 DEF BitsAre, Flags, Vec
  <2>3. 2^0 = 1 /\ 0 + 1 = 1
    OBVIOUS
  <2>4. X[k] % 2^1 = x[k] * 1 + (X[k] % 1)
    BY <2>2, <2>3
  <2>5. X[k] % 1 = 0
    BY <2>2
  <2>6. x[k] * 1 + 0 = x[k]
    BY <2>2
  <2>. QED  BY <2>1, <2>4, <2>5, <2>6
<1>3. Flags(x, n) /\ n \in Nat
  BY <1>1, WordJob DEF BitsAre
<1> HIDE DEF x, K
<1>4. Compaction(x) = RanksOf(K, n)
  BY <1>2, <1>3, FlagFirst
<1>. QED  BY <1>4 DEF x, K

LEMMA WordStep ==
  ASSUME job \in Jobs, NEW b \in Nat, b < job.bits, NEW f, PermOf(f, Size)
  PROVE  SortingIteration(RanksOf(WordKeys(job.list, b), Size), Bit(1, b), f)
           = RanksOf(WordKeys(job.list, b + 1), Size)
<1> DEFINE n == Size
           X == [k \in 1 .. n |-> job.list[k][1]]
           x == Bit(1, b)
           m == 2^b
           K == WordKeys(job.list, b)
           N == WordKeys(job.list, b + 1)
<1>1. BitsAre(x, X, b, n)
  <2>1. \A k \in 1 .. n : X[k] = job.list[k][1]
    OBVIOUS
  <2>2. 1 \in {1, 2} /\ b # job.bits
    BY WordJob
  <2> HIDE DEF X
  <2>. QED  BY <2>1, <2>2, EndBits
<1>2. \A k \in 1 .. n : K[k] = X[k] % m /\ N[k] = X[k] % 2^(b + 1)
  BY WordJob DEF WordKeys
<1> HIDE DEF X, x, K, N
<1>3. m \in Nat
  BY PowNat
<1>4. ASSUME NEW k \in 1 .. n PROVE K[k] \in 0 .. (m - 1) /\ N[k] = x[k] * m + K[k]
  <2>1. X[k] \in Nat /\ X[k] % 2^(b + 1) = x[k] * m + (X[k] % m)
    BY <1>1 DEF BitsAre
  <2>2. X[k] % m \in 0 .. (m - 1)
    BY <2>1, LowBound
  <2>. QED  BY <1>2, <2>1, <2>2
<1>5. Flags(x, n) /\ n \in Nat
  BY <1>1, WordJob DEF BitsAre
<1> HIDE DEF m, n
<1>6. Below(K, m, n) /\ InFront(N, x, K, m, n)
  BY <1>4 DEF Below, InFront
<1>7. SortingIteration(RanksOf(K, n), x, f) = RanksOf(N, n)
  <2>1. PermOf(f, n)
    BY DEF n
  <2>. QED  BY <1>3, <1>5, <1>6, <2>1, IterationSorts
<1>. QED  BY <1>7 DEF K, N, x, n

(* The duplicates are found in the order by source and destination.        *)
LEMMA EndsAre ==
  ASSUME job \in Jobs, job.measure # "sort", NEW end \in {1, 2}
  PROVE  /\ Vec(Ends(end), Size, Ring)
         /\ \A k \in 1 .. Size : Ends(end)[k] = job.list[k][end]
<1> DEFINE n == Size
           B == job.bits
<1>1. ASSUME NEW k \in 1 .. n PROVE Ends(end)[k] = job.list[k][end] /\ job.list[k][end] \in Ring
  <2> DEFINE v == job.list[k][end]
             y == [b \in 1 .. B |-> Bit(end, b - 1)[k]]
             z == [b \in 1 .. B |-> (v \div 2^(b - 1)) % 2]
  <2>1. v \in Ring /\ v < 2^B /\ B \in Nat /\ Entries = 1 .. n
    BY GraphJob, WordJob DEF GraphOf
  <2>2. ASSUME NEW b \in 1 .. B PROVE Bit(end, b - 1)[k] = (v \div 2^(b - 1)) % 2
    <3>1. b - 1 # B
      BY <2>1
    <3>. QED  BY <2>1, <3>1 DEF Bit
  <2>3. y = z
    BY <2>2
  <2>4. Ends(end)[k] = Composed(y)
    BY <2>1 DEF Ends
  <2> HIDE DEF y
  <2>5. Composed(z) = v
    <3> HIDE DEF v, B
    <3>. QED  BY <2>1, ComposedIs
  <2>. QED  BY <2>1, <2>3, <2>4, <2>5
<1>2. Ends(end) = [k \in 1 .. n |-> Ends(end)[k]]
  BY GraphJob DEF Ends
<1> DEFINE e == Ends(end)
<1> HIDE DEF e
<1>3. e \in [1 .. n -> Ring]
  <2>1. e = [k \in 1 .. n |-> e[k]] /\ \A k \in 1 .. n : e[k] \in Ring
    BY <1>1, <1>2 DEF e
  <2>. QED  BY <2>1
<1>. QED  BY <1>1, <1>3 DEF e, Vec

LEMMA FindStep ==
  ASSUME job \in Jobs, job.measure # "sort", NEW f, PermOf(f, Size),
         NEW r, r = RanksOf(BothKeys(job.list, job.bits, job.bits), Size)
  PROVE  Marks(MovedBack(ReorderedBack(Duplicates(Reordered(Moved(Ends(1), f), Moved(r, f)),
                                                  Reordered(Moved(Ends(2), f), Moved(r, f))),
                                       Moved(r, f)), f),
               job.list, Size)
<1> DEFINE L == job.list
           n == Size
           B == job.bits
           y == Ends(1)
           z == Ends(2)
           s == Reordered(Moved(y, f), Moved(r, f))
           t == Reordered(Moved(z, f), Moved(r, f))
           D == Duplicates(s, t)
           d == MovedBack(ReorderedBack(D, Moved(r, f)), f)
<1>1. GraphOf(L, n, job.n, B) /\ n \in Nat /\ PermOf(f, n) /\ r = RanksOf(BothKeys(L, B, B), n)
  BY GraphJob
<1>2. Vec(y, n, Ring) /\ Vec(z, n, Ring) /\ \A k \in 1 .. n : y[k] = L[k][1] /\ z[k] = L[k][2]
  BY EndsAre
<1> HIDE DEF L, n, B, y, z
<1>3. PermOf(r, n)
  <2>1. Keys(BothKeys(L, B, B), n)
    BY <1>1, BothKeyTells DEF Keys
  <2>. QED  BY <1>1, <2>1, RanksOrdered
<1>4. Vec(s, n, Ring) /\ Puts(s, y, r, n) /\ Vec(t, n, Ring) /\ Puts(t, z, r, n)
  BY <1>1, <1>2, <1>3, ShuffleCancels
<1> HIDE DEF s, t
<1>5. Vec(D, n, {0, 1})
  <2>1. Len(s) = n
    BY <1>1, <1>4, FunIsSeq DEF Vec
  <2>. QED  BY <2>1 DEF Duplicates, Vec
<1> HIDE DEF D
<1>6. Takes(d, D, r, n)
  BY <1>1, <1>3, <1>5, ShuffleCancels
<1> HIDE DEF d
<1>7. Marks(d, L, n)
  <2>1. Takes(d, Duplicates(s, t), r, n)
    BY <1>6 DEF D
  <2>. QED  BY <1>1, <1>2, <1>4, <2>1, FindsMarks
<1>. QED  BY <1>7 DEF d, D, s, t, y, z, L, n
-----------------------------------------------------------------------------
(* The message passing keeps words.                                        *)
LEMMA WordOps ==
  ASSUME NEW a \in Ring, NEW b \in Ring PROVE Plus(a, b) \in Ring /\ Minus(a, b) \in Ring
<1>1. a \in Nat /\ b \in Nat
  BY RingInt
<1>2. a + b \in Int /\ a - b \in Int
  BY <1>1
<1>. QED  BY <1>2, InRing DEF Plus, Minus

LEMMA PassingWords ==
  ASSUME NEW n \in Nat, NEW x, NEW y, Vec(x, n, Ring), Vec(y, n, Ring), NEW v \in Nat, NEW c \in Ring
  PROVE  /\ Vec(PreparedPropagate(x, v), n, Ring) /\ Vec(Propagated(x, y), n, Ring)
         /\ Vec(PreparedGather(x), n, Ring) /\ Vec(Gathered(x, v), n, Ring)
         /\ Vec(AddedVec(x, y), n, Ring) /\ Vec(AddedConst(x, c, v), n, Ring)
<1>1. x \in [1 .. n -> Ring] /\ y \in [1 .. n -> Ring] /\ Len(x) = n /\ Len(y) = n
  BY FunIsSeq DEF Vec
<1>2. \A j \in 1 .. n : x[j] \in Ring /\ y[j] \in Ring
  BY <1>1
<1>3. \A j \in 1 .. n : Total(x, j) \in Ring
  BY <1>2, TotalWord
<1>4. Vec(PreparedPropagate(x, v), n, Ring)
  <2>1. ASSUME NEW j \in 1 .. n, j \in 2 .. v PROVE Minus(x[j], x[j - 1]) \in Ring
    <3>1. j - 1 \in 1 .. n
      BY <2>1
    <3>. QED  BY <1>2, <3>1, WordOps
  <2>. QED  BY <1>1, <1>2, <2>1 DEF PreparedPropagate, Vec
<1>5. Vec(Propagated(x, y), n, Ring)
  <2>1. \A j \in 1 .. n : Minus(Total(x, j), y[j]) \in Ring
    BY <1>2, <1>3, WordOps
  <2>. QED  BY <1>1, <2>1 DEF Propagated, Vec
<1>6. Vec(PreparedGather(x), n, Ring)
  BY <1>1, <1>3 DEF PreparedGather, Vec
<1>7. Vec(Gathered(x, v), n, Ring)
  <2> DEFINE g(j) == CASE j > v -> 0
                       [] j = 1 /\ j <= v -> x[1]
                       [] OTHER -> Minus(x[j], x[j - 1])
  <2>1. ASSUME NEW j \in 1 .. n PROVE g(j) \in Ring
    <3>1. CASE j > v
      <4>1. g(j) = 0
        BY <3>1
      <4>. QED  BY <4>1, ModulusFacts
    <3>2. CASE j = 1 /\ j <= v
      BY <1>2, <3>2
    <3>3. CASE j # 1 /\ j <= v
      <4>1. j - 1 \in 1 .. n
        BY <3>3
      <4>2. g(j) = Minus(x[j], x[j - 1])
        BY <3>3
      <4>. QED  BY <1>2, <4>1, <4>2, WordOps
    <3>. QED  BY <3>1, <3>2, <3>3
  <2>2. Gathered(x, v) = [j \in 1 .. n |-> g(j)]
    BY <1>1 DEF Gathered
  <2> HIDE DEF g
  <2>. QED  BY <2>1, <2>2 DEF Vec
<1>8. Vec(AddedVec(x, y), n, Ring)
  <2>1. \A j \in 1 .. n : Plus(x[j], y[j]) \in Ring
    BY <1>2, WordOps
  <2>. QED  BY <1>1, <2>1 DEF AddedVec, Vec
<1>9. Vec(AddedConst(x, c, v), n, Ring)
  <2>1. \A j \in 1 .. n : Plus(x[j], c) \in Ring
    BY <1>2, WordOps
  <2>. QED  BY <1>1, <1>2, <2>1 DEF AddedConst, Vec
<1>. QED  BY <1>4, <1>5, <1>6, <1>7, <1>8, <1>9

(* The permutations of the message passing.                                *)
Prepared(s, o, n) == \A i \in Passed : PermOf(s[i], n) /\ PermOf(o[i], n)

LEMMA TravelWords ==
  ASSUME Prepared(shuffle, open, Size), Size \in Nat, NEW x, Vec(x, Size, Ring),
         NEW from \in Passed, NEW to \in Passed
  PROVE  Vec(Travel(x, from, to), Size, Ring)
<1> DEFINE n == Size
           a == ReorderedBack(x, open[from])
           b == MovedBack(a, shuffle[from])
           c == Moved(b, shuffle[to])
           d == Reordered(c, open[to])
<1>1. /\ PermOf(open[from], n) /\ PermOf(shuffle[from], n) /\ n \in Nat
      /\ PermOf(open[to], n) /\ PermOf(shuffle[to], n) /\ Vec(x, n, Ring)
  BY DEF Prepared
<1>2. Travel(x, from, to) = d
  BY DEF Travel, DoubleShuffled
<1> HIDE DEF n, a, b, c, d
<1>3. Vec(a, n, Ring)
  BY <1>1, ReorderedFacts DEF a
<1>4. Vec(b, n, Ring)
  BY <1>1, <1>3, MovedFacts DEF b
<1>5. Vec(c, n, Ring)
  BY <1>1, <1>4, MovedFacts DEF c
<1>6. Vec(d, n, Ring)
  BY <1>1, <1>5, ReorderedFacts DEF d
<1>. QED  BY <1>2, <1>6 DEF n

LEMMA SentWords ==
  ASSUME Prepared(shuffle, open, Size), Size \in Nat, job.n \in Nat, NEW x, Vec(x, Size, Ring)
  PROVE  Vec(Sent(x), Size, Ring)
<1> DEFINE a == PreparedPropagate(x, job.n)
           b == Travel(a, "vertex", "source")
           c == Travel(x, "vertex", "source")
           s == Propagated(b, c)
           e == Travel(s, "source", "dest")
           d == PreparedGather(e)
           g == Travel(d, "dest", "vertex")
           h == Gathered(g, job.n)
<1>1. Sent(x) = h
  BY DEF Sent
<1>2. {"vertex", "source", "dest"} \in SUBSET Passed /\ 0 \in Ring
  BY ModulusFacts DEF Passed
<1> HIDE DEF a, b, c, s, e, d, g, h
<1>3. Vec(a, Size, Ring)
  BY <1>2, PassingWords DEF a
<1>4. Vec(b, Size, Ring) /\ Vec(c, Size, Ring)
  BY <1>2, <1>3, TravelWords DEF b, c
<1>5. Vec(s, Size, Ring)
  BY <1>2, <1>4, PassingWords DEF s
<1>6. Vec(e, Size, Ring)
  BY <1>2, <1>5, TravelWords DEF e
<1>7. Vec(d, Size, Ring)
  BY <1>2, <1>6, PassingWords DEF d
<1>8. Vec(g, Size, Ring)
  BY <1>2, <1>7, TravelWords DEF g
<1>9. Vec(h, Size, Ring)
  BY <1>2, <1>8, PassingWords DEF h
<1>. QED  BY <1>1, <1>9
-----------------------------------------------------------------------------
(* What is true of the state between two steps.  An ordering is empty      *)
(* before its sort, ranks by the bits so far during it, and ranks by all   *)
(* bits after it; the steps after the sorts by the measure.                *)
Late        == {"prepare", "enter", "pass", "done"}
Steps       == IF job.measure = "pi_2"
               THEN {"dest", "both", "duplicates", "source", "last", "vertex"} \cup Late
               ELSE {"source", "dest", "vertex"} \cup Late
AfterSource == IF job.measure = "pi_2" THEN {"last", "vertex"} \cup Late
               ELSE {"dest", "vertex"} \cup Late
AfterDest   == IF job.measure = "pi_2" THEN {"both", "duplicates", "source", "last", "vertex"} \cup Late
               ELSE {"vertex"} \cup Late
AfterBoth   == {"duplicates", "source", "last", "vertex"} \cup Late

SourceRanks(b) == RanksOf(SourceKeys(job.list, duplicate, job.bits, b), Size)
DestRanks(b)   == RanksOf(DestKeys(job.list, b), Size)
FullRanks(d)   == RanksOf(FullKeys(job.list, d, job.bits), Size)
BothRanks(b)   == RanksOf(BothKeys(job.list, job.bits, b), Size)
WordRanks(b)   == RanksOf(WordKeys(job.list, b), Size)

OrderIsRecord == order = [o \in Orderings |-> order[o]]
BitsCounted ==
  /\ pc \in {"source", "dest", "both"} => bit \in 0 .. BitsOf(pc)
  /\ pc \notin {"source", "dest", "both"} => bit = 0
DuplicatesFound ==
  IF job.measure = "pi_2" /\ pc \notin {"dest", "both", "duplicates"}
  THEN Marks(duplicate, job.list, Size) ELSE duplicate = <<>>
SourceSorted ==
  /\ pc = "source" => (order["source"] = <<>> /\ bit = 0) \/ order["source"] = SourceRanks(bit)
  /\ pc \in AfterSource => order["source"] = SourceRanks(BitsOf("source"))
  /\ pc \notin AfterSource \cup {"source"} => order["source"] = <<>>
DestSorted ==
  /\ pc = "dest" => (order["dest"] = <<>> /\ bit = 0) \/ order["dest"] = DestRanks(bit)
  /\ pc \in AfterDest =>
       order["dest"] = FullRanks(IF pc \in {"both", "duplicates", "source", "last"} THEN <<>> ELSE duplicate)
  /\ pc \notin AfterDest \cup {"dest"} => order["dest"] = <<>>
BothSorted ==
  IF job.measure = "pi_2"
  THEN /\ pc = "both" => (order["both"] = <<>> /\ bit = 0) \/ order["both"] = BothRanks(bit)
       /\ pc \in AfterBoth => order["both"] = BothRanks(job.bits)
       /\ pc \notin AfterBoth \cup {"both"} => order["both"] = <<>>
  ELSE order["both"] = <<>>
VertexPlaced ==
  IF pc \in Late
  THEN /\ PermOf(order["vertex"], Size)
       /\ \A k \in 1 .. Size : job.list[k][1] = job.list[k][2] => order["vertex"][k] = job.list[k][1]
  ELSE order["vertex"] = <<>>
Shuffled ==
  IF pc \in {"enter", "pass", "done"}
  THEN Prepared(shuffle, open, Size) /\ shuffle["both"] = <<>> /\ open["both"] = <<>>
  ELSE \A o \in Orderings : shuffle[o] = <<>> /\ open[o] = <<>>
WordsHeld ==
  /\ pc = "pass" => Vec(payload, Size, Ring)
  /\ payload = <<>> \/ Vec(payload, Size, Ring)
  /\ node \in 1 .. job.n + 1 /\ (pc # "done" => node <= job.n)
  /\ round \in 0 .. Depth /\ out \in Seq(Ring)

GraphInv ==
  /\ pc \in Steps /\ OrderIsRecord /\ BitsCounted /\ DuplicatesFound
  /\ SourceSorted /\ DestSorted /\ BothSorted /\ VertexPlaced /\ Shuffled /\ WordsHeld

(* sort.cpp has one ordering.                                              *)
WordInv ==
  /\ pc \in {"keys", "done"} /\ OrderIsRecord
  /\ bit \in 0 .. job.bits /\ (pc = "done" => bit = job.bits)
  /\ order["source"] = IF bit = 0 THEN <<>> ELSE WordRanks(bit)
  /\ \A o \in Orderings : o # "source" => order[o] = <<>>
  /\ duplicate = <<>> /\ payload = <<>> /\ node = 1 /\ round = 0
  /\ \A o \in Orderings : shuffle[o] = <<>> /\ open[o] = <<>>
  /\ out \in Seq(Ring)
  /\ pc = "done" => \A k \in 1 .. Size : out[WordRanks(job.bits)[k]] = job.list[k][2]

SortsInv == job \in Jobs /\ IF job.measure = "sort" THEN WordInv ELSE GraphInv
-----------------------------------------------------------------------------
(* It holds at the start.                                                  *)
LEMMA RanksNotEmpty ==
  ASSUME NEW n \in Nat, n > 0, NEW key PROVE RanksOf(key, n) # <<>>
<1>1. DOMAIN RanksOf(key, n) = 1 .. n
  BY DEF RanksOf
<1>2. 1 \in 1 .. n /\ DOMAIN <<>> = {}
  BY SMT
<1>. QED  BY <1>1, <1>2

LEMMA PermNotEmpty ==
  ASSUME NEW n \in Nat, n > 0, NEW f, PermOf(f, n) PROVE f # <<>>
<1>1. DOMAIN f = 1 .. n
  BY DEF PermOf
<1>2. 1 \in 1 .. n /\ DOMAIN <<>> = {}
  BY SMT
<1>. QED  BY <1>1, <1>2

LEMMA SortsStart == ASSUME Init PROVE SortsInv
<1>1. job \in Jobs
  BY DEF Init
<1>2. /\ job.bits \in Nat \ {0} /\ job.n \in Nat \ {0} /\ Depth \in Nat \ {0}
      /\ job.measure \in {"pi_1", "pi_2", "pi_3", "sort"}
  BY <1>1, JobListed DEF Depth
<1>3. CASE job.measure = "sort"
  <2>1. pc = "keys"
    BY <1>3 DEF Init
  <2>. QED  BY <1>1, <1>2, <1>3, <2>1 DEF Init, SortsInv, WordInv, OrderIsRecord, Orderings
<1>4. CASE job.measure = "pi_2"
  <2>1. pc = "dest"
    BY <1>4 DEF Init
  <2>2. /\ pc \in Steps /\ pc \notin AfterSource \cup {"source"} /\ pc \notin AfterDest
        /\ pc \notin AfterBoth \cup {"both"} /\ pc \notin Late
    BY <1>4, <2>1 DEF Steps, AfterSource, AfterDest, AfterBoth, Late
  <2>3. OrderIsRecord /\ \A o \in Orderings : order[o] = <<>> /\ shuffle[o] = <<>> /\ open[o] = <<>>
    BY DEF Init, OrderIsRecord
  <2>4. BitsCounted /\ DuplicatesFound
    BY <1>2, <1>4, <2>1 DEF Init, BitsCounted, BitsOf, DuplicatesFound
  <2>5. SourceSorted /\ DestSorted /\ BothSorted /\ VertexPlaced /\ Shuffled
    BY <2>1, <2>2, <2>3 DEF Init, SourceSorted, DestSorted, BothSorted, VertexPlaced, Shuffled, Orderings
  <2>6. WordsHeld
    BY <1>2, <2>1 DEF Init, WordsHeld
  <2>. QED  BY <1>1, <1>4, <2>2, <2>3, <2>4, <2>5, <2>6 DEF SortsInv, GraphInv
<1>5. CASE job.measure \in {"pi_1", "pi_3"}
  <2>1. pc = "source"
    BY <1>5 DEF Init
  <2>2. pc \in Steps /\ pc \notin AfterSource /\ pc \notin AfterDest \cup {"dest"} /\ pc \notin Late
    BY <1>5, <2>1 DEF Steps, AfterSource, AfterDest, Late
  <2>3. OrderIsRecord /\ \A o \in Orderings : order[o] = <<>> /\ shuffle[o] = <<>> /\ open[o] = <<>>
    BY DEF Init, OrderIsRecord
  <2>4. BitsCounted /\ DuplicatesFound
    BY <1>2, <1>5, <2>1 DEF Init, BitsCounted, BitsOf, DuplicatesFound
  <2>5. SourceSorted /\ DestSorted /\ BothSorted /\ VertexPlaced /\ Shuffled
    BY <1>5, <2>1, <2>2, <2>3
    DEF Init, SourceSorted, DestSorted, BothSorted, VertexPlaced, Shuffled, Orderings
  <2>6. WordsHeld
    BY <1>2, <2>1 DEF Init, WordsHeld
  <2>. QED  BY <1>1, <1>5, <2>2, <2>3, <2>4, <2>5, <2>6 DEF SortsInv, GraphInv
<1>. QED  BY <1>2, <1>3, <1>4, <1>5

(* What the steps before the message passing leave alone.                  *)
LEMMA AtGraph ==
  ASSUME SortsInv, pc # "keys", pc # "done"
  PROVE  job \in Jobs /\ job.measure # "sort" /\ GraphInv /\ job.measure \in {"pi_1", "pi_2", "pi_3"}
<1>1. job \in Jobs /\ (job.measure = "sort" => WordInv) /\ (job.measure # "sort" => GraphInv)
  BY DEF SortsInv
<1>2. ~ WordInv
  BY DEF WordInv
<1>3. job.measure \in {"pi_1", "pi_2", "pi_3", "sort"}
  BY <1>1, JobListed
<1>. QED  BY <1>1, <1>2, <1>3

LEMMA EarlyKeeps ==
  ASSUME GraphInv, pc \notin Late, pc' \notin {"enter", "pass", "done"},
         UNCHANGED <<job, shuffle, open, node, round, payload, out>>
  PROVE  Shuffled' /\ WordsHeld'
<1>1. Shuffled /\ WordsHeld /\ pc \notin {"enter", "pass", "done"}
  BY DEF GraphInv, Late
<1>2. Shuffled'
  BY <1>1 DEF Shuffled
<1>3. WordsHeld'
  BY <1>1 DEF WordsHeld, Size, Depth
<1>. QED  BY <1>2, <1>3

LEMMA VertexKept ==
  ASSUME GraphInv, pc \notin Late, pc' \notin Late, order'["vertex"] = order["vertex"]
  PROVE  VertexPlaced'
<1>1. VertexPlaced
  BY DEF GraphInv
<1>2. pc' \notin Late'
  BY DEF Late
<1>. QED  BY <1>1, <1>2 DEF VertexPlaced

(* One more bit of the ordering the step is about.                         *)
LEMMA SourceAdvances ==
  ASSUME SortsInv, pc = "source", bit' \in 0 .. BitsOf("source"),
         order' = [order EXCEPT !["source"] = SourceRanks(bit')],
         UNCHANGED <<job, pc, duplicate, shuffle, open, node, round, payload, out>>
  PROVE  SortsInv'
<1>1. job \in Jobs /\ job.measure # "sort" /\ GraphInv
  BY AtGraph
<1>2. /\ pc' \notin Late /\ pc' = "source" /\ pc \notin Late /\ pc \notin AfterSource
      /\ AfterSource' = AfterSource /\ AfterDest' = AfterDest /\ AfterBoth' = AfterBoth
      /\ Late' = Late /\ Steps' = Steps
      /\ Size' = Size /\ BitsOf("source")' = BitsOf("source")
  BY DEF Late, AfterSource, AfterDest, AfterBoth, Steps, Size, BitsOf
<1>3. /\ OrderIsRecord /\ order'["source"] = SourceRanks(bit')
      /\ \A o \in {"dest", "both", "vertex"} : order'[o] = order[o]
  <2>1. order = [o \in Orderings |-> order[o]]
    BY <1>1 DEF GraphInv, OrderIsRecord
  <2>. QED  BY <2>1 DEF OrderIsRecord, Orderings
<1>4. Shuffled' /\ WordsHeld'
  <2>1. pc' \notin {"enter", "pass", "done"}
    BY <1>2
  <2>. QED  BY <1>1, <1>2, <2>1, EarlyKeeps
<1>5. VertexPlaced'
  BY <1>1, <1>2, <1>3, VertexKept
<1>6. SourceSorted'
  BY <1>2, <1>3 DEF SourceSorted, SourceRanks
<1>7. DestSorted' /\ BothSorted'
  <2>1. DestSorted /\ BothSorted
    BY <1>1 DEF GraphInv
  <2>2. DestSorted'
    BY <1>2, <1>3, <2>1 DEF DestSorted, FullRanks
  <2>3. BothSorted'
    BY <1>2, <1>3, <2>1 DEF BothSorted, BothRanks
  <2>. QED  BY <2>2, <2>3
<1>8. BitsCounted' /\ DuplicatesFound' /\ pc' \in Steps' /\ OrderIsRecord'
  <2>1. BitsCounted' /\ DuplicatesFound' /\ pc' \in Steps'
    BY <1>1, <1>2 DEF GraphInv, BitsCounted, DuplicatesFound
  <2>2. OrderIsRecord'
    BY <1>3 DEF OrderIsRecord, Orderings
  <2>. QED  BY <2>1, <2>2
<1>. QED  BY <1>1, <1>4, <1>5, <1>6, <1>7, <1>8 DEF SortsInv, GraphInv

LEMMA DestAdvances ==
  ASSUME SortsInv, pc = "dest", bit' \in 0 .. BitsOf("dest"),
         order' = [order EXCEPT !["dest"] = DestRanks(bit')],
         UNCHANGED <<job, pc, duplicate, shuffle, open, node, round, payload, out>>
  PROVE  SortsInv'
<1>1. job \in Jobs /\ job.measure # "sort" /\ GraphInv
  BY AtGraph
<1>2. /\ pc' \notin Late /\ pc' = "dest" /\ pc \notin Late /\ pc \notin AfterDest
      /\ AfterSource' = AfterSource /\ AfterDest' = AfterDest /\ AfterBoth' = AfterBoth
      /\ Late' = Late /\ Steps' = Steps
      /\ Size' = Size /\ BitsOf("dest")' = BitsOf("dest") /\ BitsOf("source")' = BitsOf("source")
  BY DEF Late, AfterSource, AfterDest, AfterBoth, Steps, Size, BitsOf
<1>3. /\ OrderIsRecord /\ order'["dest"] = DestRanks(bit')
      /\ \A o \in {"source", "both", "vertex"} : order'[o] = order[o]
  <2>1. order = [o \in Orderings |-> order[o]]
    BY <1>1 DEF GraphInv, OrderIsRecord
  <2>. QED  BY <2>1 DEF OrderIsRecord, Orderings
<1>4. Shuffled' /\ WordsHeld'
  <2>1. pc' \notin {"enter", "pass", "done"}
    BY <1>2
  <2>. QED  BY <1>1, <1>2, <2>1, EarlyKeeps
<1>5. VertexPlaced'
  BY <1>1, <1>2, <1>3, VertexKept
<1>6. DestSorted'
  BY <1>2, <1>3 DEF DestSorted, DestRanks
<1>7. SourceSorted' /\ BothSorted'
  <2>1. SourceSorted /\ BothSorted
    BY <1>1 DEF GraphInv
  <2>2. SourceSorted'
    BY <1>2, <1>3, <2>1 DEF SourceSorted, SourceRanks
  <2>3. BothSorted'
    BY <1>2, <1>3, <2>1 DEF BothSorted, BothRanks
  <2>. QED  BY <2>2, <2>3
<1>8. BitsCounted' /\ DuplicatesFound' /\ pc' \in Steps' /\ OrderIsRecord'
  <2>1. BitsCounted' /\ DuplicatesFound' /\ pc' \in Steps'
    BY <1>1, <1>2 DEF GraphInv, BitsCounted, DuplicatesFound
  <2>2. OrderIsRecord'
    BY <1>3 DEF OrderIsRecord, Orderings
  <2>. QED  BY <2>1, <2>2
<1>. QED  BY <1>1, <1>4, <1>5, <1>6, <1>7, <1>8 DEF SortsInv, GraphInv

LEMMA BothAdvances ==
  ASSUME SortsInv, pc = "both", bit' \in 0 .. BitsOf("both"),
         order' = [order EXCEPT !["both"] = BothRanks(bit')],
         UNCHANGED <<job, pc, duplicate, shuffle, open, node, round, payload, out>>
  PROVE  SortsInv'
<1>1. job \in Jobs /\ job.measure # "sort" /\ GraphInv
  BY AtGraph
<1>2. /\ pc' \notin Late /\ pc' = "both" /\ pc \notin Late /\ pc \notin AfterBoth
      /\ AfterSource' = AfterSource /\ AfterDest' = AfterDest /\ AfterBoth' = AfterBoth
      /\ Late' = Late /\ Steps' = Steps
      /\ Size' = Size /\ BitsOf("both")' = BitsOf("both") /\ BitsOf("source")' = BitsOf("source")
      /\ job.measure = "pi_2"
  <2>1. pc \in Steps
    BY <1>1 DEF GraphInv
  <2>. QED  BY <2>1 DEF Late, AfterSource, AfterDest, AfterBoth, Steps, Size, BitsOf
<1>3. /\ OrderIsRecord /\ order'["both"] = BothRanks(bit')
      /\ \A o \in {"source", "dest", "vertex"} : order'[o] = order[o]
  <2>1. order = [o \in Orderings |-> order[o]]
    BY <1>1 DEF GraphInv, OrderIsRecord
  <2>. QED  BY <2>1 DEF OrderIsRecord, Orderings
<1>4. Shuffled' /\ WordsHeld'
  <2>1. pc' \notin {"enter", "pass", "done"}
    BY <1>2
  <2>. QED  BY <1>1, <1>2, <2>1, EarlyKeeps
<1>5. VertexPlaced'
  BY <1>1, <1>2, <1>3, VertexKept
<1>6. BothSorted'
  BY <1>2, <1>3 DEF BothSorted, BothRanks
<1>7. SourceSorted' /\ DestSorted'
  <2>1. SourceSorted /\ DestSorted
    BY <1>1 DEF GraphInv
  <2>2. SourceSorted'
    BY <1>2, <1>3, <2>1 DEF SourceSorted, SourceRanks
  <2>3. DestSorted'
    BY <1>2, <1>3, <2>1 DEF DestSorted, FullRanks
  <2>. QED  BY <2>2, <2>3
<1>8. BitsCounted' /\ DuplicatesFound' /\ pc' \in Steps' /\ OrderIsRecord'
  <2>1. BitsCounted' /\ DuplicatesFound' /\ pc' \in Steps'
    BY <1>1, <1>2 DEF GraphInv, BitsCounted, DuplicatesFound
  <2>2. OrderIsRecord'
    BY <1>3 DEF OrderIsRecord, Orderings
  <2>. QED  BY <2>1, <2>2
<1>. QED  BY <1>1, <1>4, <1>5, <1>6, <1>7, <1>8 DEF SortsInv, GraphInv

(* Starting a sort, and the next bit.                                      *)
LEMMA OrderFacts ==
  ASSUME SortsInv, pc # "keys", pc # "done"
  PROVE  /\ MaybeMarks(duplicate, job.list, Size)
         /\ pc = "source" /\ job.measure = "pi_2" => Marks(duplicate, job.list, Size)
         /\ Size \in Nat /\ Size > 0 /\ job.bits \in Nat \ {0}
         /\ \A f \in Shuffles : PermOf(f, Size)
         /\ \A o \in {"source", "dest", "both"} : BitsOf(o) \in Nat
<1>1. job \in Jobs /\ job.measure # "sort" /\ GraphInv
  BY AtGraph
<1>2. Size \in Nat /\ Size > 0 /\ job.bits \in Nat \ {0} /\ \A f \in Shuffles : PermOf(f, Size)
  BY <1>1, GraphJob, WordJob
<1>3. \A o \in {"source", "dest", "both"} : BitsOf(o) \in Nat
  BY <1>2 DEF BitsOf
<1>4. DuplicatesFound
  BY <1>1 DEF GraphInv
<1>. QED  BY <1>2, <1>3, <1>4 DEF DuplicatesFound, MaybeMarks

LEMMA StartSortKeeps ==
  ASSUME SortsInv, NEW o \in {"source", "dest", "both"}, StartSort(o) PROVE SortsInv'
<1>1. /\ pc = o /\ order[o] = <<>> /\ order' = [order EXCEPT ![o] = StartOf(o)]
      /\ UNCHANGED <<job, pc, bit, duplicate, shuffle, open, node, round, payload, out>>
  BY DEF StartSort
<1>2. job \in Jobs /\ job.measure # "sort" /\ GraphInv
  BY <1>1, AtGraph
<1>3. /\ MaybeMarks(duplicate, job.list, Size) /\ Size \in Nat /\ Size > 0 /\ BitsOf(o) \in Nat
  BY <1>1, OrderFacts
<1>4. CASE o = "source"
  <2>1. bit = 0
    <3>1. order["source"] = SourceRanks(bit) => FALSE
      BY <1>1, <1>3, <1>4, RanksNotEmpty DEF SourceRanks
    <3>. QED  BY <1>1, <1>2, <1>4, <3>1 DEF GraphInv, SourceSorted
  <2>2. StartOf("source") = SourceRanks(0)
    BY <1>2, <1>3, SourceStart DEF StartOf, SourceRanks
  <2>3. bit' = 0 /\ bit' \in 0 .. BitsOf("source")
    BY <1>1, <1>3, <1>4, <2>1
  <2>. QED  BY <1>1, <1>4, <2>2, <2>3, SourceAdvances
<1>5. CASE o = "dest"
  <2>1. bit = 0
    <3>1. order["dest"] = DestRanks(bit) => FALSE
      BY <1>1, <1>3, <1>5, RanksNotEmpty DEF DestRanks
    <3>. QED  BY <1>1, <1>2, <1>5, <3>1 DEF GraphInv, DestSorted
  <2>2. StartOf("dest") = DestRanks(0)
    BY <1>2, DestStart DEF StartOf, DestRanks
  <2>3. bit' = 0 /\ bit' \in 0 .. BitsOf("dest")
    BY <1>1, <1>3, <1>5, <2>1
  <2>. QED  BY <1>1, <1>5, <2>2, <2>3, DestAdvances
<1>6. CASE o = "both"
  <2>0. job.measure = "pi_2"
    BY <1>1, <1>2, <1>6 DEF GraphInv, Steps, Late
  <2>1. bit = 0
    <3>1. order["both"] = BothRanks(bit) => FALSE
      BY <1>1, <1>3, <1>6, RanksNotEmpty DEF BothRanks
    <3>. QED  BY <1>1, <1>2, <1>6, <2>0, <3>1 DEF GraphInv, BothSorted
  <2>2. StartOf("both") = BothRanks(0)
    <3>1. order["dest"] = FullRanks(<<>>)
      BY <1>1, <1>2, <1>6, <2>0 DEF GraphInv, DestSorted, AfterDest
    <3>. QED  BY <1>2, <3>1, BothStart DEF StartOf, BothRanks, FullRanks
  <2>3. bit' = 0 /\ bit' \in 0 .. BitsOf("both")
    BY <1>1, <1>3, <1>6, <2>1
  <2>. QED  BY <1>1, <1>6, <2>2, <2>3, BothAdvances
<1>. QED  BY <1>4, <1>5, <1>6

LEMMA SortByBitKeeps ==
  ASSUME SortsInv, NEW o \in {"source", "dest", "both"}, SortByBit(o) PROVE SortsInv'
<1>0. /\ pc = o /\ order[o] # <<>> /\ bit < BitsOf(o) /\ bit' = bit + 1
      /\ UNCHANGED <<job, pc, duplicate, shuffle, open, node, round, payload, out>>
  BY DEF SortByBit
<1>1. PICK f \in Shuffles : order' = [order EXCEPT ![o] = SortingIteration(order[o], Bit(EndOf(o), bit), f)]
  BY DEF SortByBit
<1>2. job \in Jobs /\ job.measure # "sort" /\ GraphInv
  BY <1>0, AtGraph
<1>3. /\ MaybeMarks(duplicate, job.list, Size) /\ Size \in Nat /\ Size > 0 /\ BitsOf(o) \in Nat
      /\ PermOf(f, Size) /\ (o = "source" /\ job.measure = "pi_2" => Marks(duplicate, job.list, Size))
  BY <1>0, OrderFacts
<1>4. bit \in Nat /\ bit' \in 0 .. BitsOf(o)
  <2>1. bit \in 0 .. BitsOf(o)
    BY <1>0, <1>2 DEF GraphInv, BitsCounted
  <2>. QED  BY <1>0, <1>3, <2>1
<1>5. CASE o = "source"
  <2>1. order["source"] = SourceRanks(bit)
    BY <1>0, <1>2, <1>5 DEF GraphInv, SourceSorted
  <2>2. SortingIteration(SourceRanks(bit), Bit(1, bit), f) = SourceRanks(bit + 1)
    BY <1>0, <1>2, <1>3, <1>4, <1>5, SourceStep DEF SourceRanks
  <2>3. EndOf("source") = 1
    BY DEF EndOf
  <2>. QED  BY <1>0, <1>1, <1>4, <1>5, <2>1, <2>2, <2>3, SourceAdvances
<1>6. CASE o = "dest"
  <2>1. order["dest"] = DestRanks(bit)
    BY <1>0, <1>2, <1>6 DEF GraphInv, DestSorted
  <2>2. SortingIteration(DestRanks(bit), Bit(2, bit), f) = DestRanks(bit + 1)
    <3>1. bit < job.bits
      BY <1>0, <1>6 DEF BitsOf
    <3>. QED  BY <1>2, <1>3, <1>4, <3>1, DestStep DEF DestRanks
  <2>3. EndOf("dest") = 2
    BY DEF EndOf
  <2>. QED  BY <1>0, <1>1, <1>4, <1>6, <2>1, <2>2, <2>3, DestAdvances
<1>7. CASE o = "both"
  <2>0. job.measure = "pi_2"
    BY <1>0, <1>2, <1>7 DEF GraphInv, Steps, Late
  <2>1. order["both"] = BothRanks(bit)
    BY <1>0, <1>2, <1>7, <2>0 DEF GraphInv, BothSorted
  <2>2. SortingIteration(BothRanks(bit), Bit(1, bit), f) = BothRanks(bit + 1)
    <3>1. bit < job.bits
      BY <1>0, <1>7 DEF BitsOf
    <3>. QED  BY <1>2, <1>3, <1>4, <3>1, BothStep DEF BothRanks
  <2>3. EndOf("both") = 1
    BY DEF EndOf
  <2>. QED  BY <1>0, <1>1, <1>4, <1>7, <2>1, <2>2, <2>3, BothAdvances
<1>. QED  BY <1>5, <1>6, <1>7

LEMMA StepSets ==
  ASSUME job' = job
  PROVE  /\ AfterSource' = AfterSource /\ AfterDest' = AfterDest /\ AfterBoth' = AfterBoth
         /\ Late' = Late /\ Steps' = Steps /\ Size' = Size
         /\ \A o : BitsOf(o)' = BitsOf(o)
BY DEF AfterSource, AfterDest, AfterBoth, Late, Steps, Size, BitsOf

(* A sort is done: from it to the next step.                               *)
LEMMA FinishSortKeeps ==
  ASSUME SortsInv, NEW o \in {"source", "dest", "both"}, FinishSort(o) PROVE SortsInv'
<1>1. /\ pc = o /\ order[o] # <<>> /\ bit = BitsOf(o) /\ pc' = AfterSort(o) /\ bit' = 0
      /\ UNCHANGED <<job, order, duplicate, shuffle, open, node, round, payload, out>>
  BY DEF FinishSort
<1>2. job \in Jobs /\ job.measure \in {"pi_1", "pi_2", "pi_3"} /\ GraphInv
  BY <1>1, AtGraph
<1>3. BitsOf(o) \in Nat /\ job.bits \in Nat
  BY <1>1, OrderFacts
<1>4. pc \in Steps
  BY <1>2 DEF GraphInv
<1>5. /\ job.measure = "pi_2" => /\ o = "dest" => pc' = "both"
                                 /\ o = "both" => pc' = "duplicates"
                                 /\ o = "source" => pc' = "last"
      /\ job.measure # "pi_2" => /\ o = "source" => pc' = "dest"
                                 /\ o = "dest" => pc' = "vertex"
                                 /\ o # "both"
  <2>1. job.measure # "pi_2" => o # "both"
    BY <1>1, <1>4 DEF Steps, Late
  <2>. QED  BY <1>1, <2>1 DEF AfterSort
<1>6. pc' \in Steps /\ pc \notin Late /\ pc' \notin Late /\ pc' \notin {"enter", "pass", "done"}
  BY <1>1, <1>2, <1>5 DEF Steps, Late
<1>7. /\ AfterSource' = AfterSource /\ AfterDest' = AfterDest /\ AfterBoth' = AfterBoth
      /\ Late' = Late /\ Steps' = Steps /\ Size' = Size /\ \A i : BitsOf(i)' = BitsOf(i)
  BY <1>1, StepSets
<1>8. Shuffled' /\ WordsHeld' /\ VertexPlaced'
  BY <1>1, <1>2, <1>6, EarlyKeeps, VertexKept
<1>9. OrderIsRecord' /\ BitsCounted' /\ DuplicatesFound'
  <2>1. OrderIsRecord' /\ BitsCounted'
    <3>1. OrderIsRecord
      BY <1>2 DEF GraphInv
    <3>2. BitsOf("source") \in Nat /\ BitsOf("dest") \in Nat /\ BitsOf("both") \in Nat
      BY <1>3 DEF BitsOf
    <3>. QED  BY <1>1, <1>7, <3>1, <3>2 DEF OrderIsRecord, BitsCounted
  <2>2. DuplicatesFound'
    BY <1>1, <1>2, <1>5, <1>7 DEF GraphInv, DuplicatesFound
  <2>. QED  BY <2>1, <2>2
<1>10. SourceSorted'
  <2>1. SourceSorted
    BY <1>2 DEF GraphInv
  <2>2. pc = "source" => order["source"] = SourceRanks(BitsOf("source"))
    BY <1>1, <2>1 DEF SourceSorted
  <2>3. pc' # "source"
    BY <1>5, <1>1
  <2>4. pc' \in AfterSource <=> pc \in AfterSource \/ pc = "source"
    BY <1>1, <1>2, <1>5 DEF AfterSource, Late
  <2>. QED  BY <1>1, <1>7, <2>1, <2>2, <2>3, <2>4 DEF SourceSorted, SourceRanks
<1>11. BothSorted'
  <2>1. BothSorted
    BY <1>2 DEF GraphInv
  <2>2. CASE job.measure = "pi_2"
    <3>1. pc = "both" => order["both"] = BothRanks(job.bits)
      BY <1>1, <2>1, <2>2 DEF BothSorted, BitsOf
    <3>2. pc' \in AfterBoth <=> pc \in AfterBoth \/ pc = "both"
      BY <1>1, <1>5, <2>2 DEF AfterBoth, Late
    <3>3. pc' = "both" => pc = "dest"
      BY <1>1, <1>5, <2>2
    <3>4. pc = "dest" => order["both"] = <<>>
      BY <2>1, <2>2 DEF BothSorted, AfterBoth, Late
    <3>. QED  BY <1>1, <1>7, <2>1, <2>2, <3>1, <3>2, <3>3, <3>4 DEF BothSorted, BothRanks
  <2>3. CASE job.measure # "pi_2"
    BY <1>1, <2>1, <2>3 DEF BothSorted
  <2>. QED  BY <2>2, <2>3
<1>12. DestSorted'
  <2>1. DestSorted /\ DuplicatesFound
    BY <1>2 DEF GraphInv
  <2>2. pc = "dest" => order["dest"] = FullRanks(<<>>)
    <3>1. pc = "dest" => order["dest"] = DestRanks(job.bits)
      BY <1>1, <2>1 DEF DestSorted, BitsOf
    <3>2. DestRanks(job.bits) = FullRanks(<<>>)
      BY <1>2, DestAll DEF DestRanks, FullRanks
    <3>. QED  BY <3>1, <3>2
  <2>3. pc' \in AfterDest <=> pc \in AfterDest \/ pc = "dest"
    BY <1>1, <1>2, <1>5 DEF AfterDest, Late
  <2>4. pc' = "dest" => order["dest"] = <<>>
    BY <1>1, <1>2, <1>5, <2>1 DEF DestSorted, AfterDest, Late
  <2>5. pc' \in AfterDest =>
          order["dest"] = FullRanks(IF pc' \in {"both", "duplicates", "source", "last"}
                                    THEN <<>> ELSE duplicate)
    <3>1. CASE job.measure = "pi_2"
      <4>1. pc' \in {"both", "duplicates", "last"}
        BY <1>5, <3>1
      <4>2. pc # "dest" => pc \in {"both", "source"} /\ pc \in AfterDest
        BY <1>1, <3>1 DEF AfterDest
      <4>3. pc # "dest" => order["dest"] = FullRanks(<<>>)
        BY <2>1, <4>2 DEF DestSorted
      <4>. QED  BY <2>2, <4>1, <4>3
    <3>2. CASE job.measure # "pi_2"
      <4>1. duplicate = <<>>
        BY <2>1, <3>2 DEF DuplicatesFound
      <4>2. pc' \in AfterDest => pc = "dest"
        BY <1>1, <1>5, <3>2 DEF AfterDest, Late
      <4>. QED  BY <2>2, <4>1, <4>2
    <3>. QED  BY <3>1, <3>2
  <2>6. pc' \notin AfterDest \cup {"dest"} => order["dest"] = <<>>
    BY <2>1, <2>3 DEF DestSorted
  <2>. QED  BY <1>1, <1>7, <2>4, <2>5, <2>6 DEF DestSorted, DestRanks, FullRanks
<1>. QED  BY <1>1, <1>2, <1>6, <1>7, <1>8, <1>9, <1>10, <1>11, <1>12 DEF SortsInv, GraphInv

LEMMA FindDuplicatesKeeps == ASSUME SortsInv, FindDuplicates PROVE SortsInv'
<1> DEFINE D(f) == MovedBack(ReorderedBack(Duplicates(
                       Reordered(Moved(Ends(1), f), Moved(order["both"], f)),
                       Reordered(Moved(Ends(2), f), Moved(order["both"], f))), Moved(order["both"], f)), f)
<1>1. /\ pc = "duplicates" /\ pc' = "source" /\ \E f \in Shuffles : duplicate' = D(f)
      /\ UNCHANGED <<job, bit, order, shuffle, open, node, round, payload, out>>
  BY DEF FindDuplicates
<1> HIDE DEF D
<1>2. job \in Jobs /\ job.measure # "sort" /\ GraphInv
  BY <1>1, AtGraph
<1>3. job.measure = "pi_2"
  BY <1>1, <1>2 DEF GraphInv, Steps, Late
<1>4. /\ AfterSource' = AfterSource /\ AfterDest' = AfterDest /\ AfterBoth' = AfterBoth
      /\ Late' = Late /\ Steps' = Steps /\ Size' = Size /\ \A i : BitsOf(i)' = BitsOf(i)
  BY <1>1, StepSets
<1>5. PICK f \in Shuffles : duplicate' = D(f)
  BY <1>1
<1>6. order["both"] = BothRanks(job.bits)
  BY <1>1, <1>2, <1>3 DEF GraphInv, BothSorted, AfterBoth
<1>7. Marks(duplicate', job.list, Size)
  <2>1. PermOf(f, Size)
    BY <1>1, OrderFacts
  <2>2. Marks(D(f), job.list, Size)
    BY <1>2, <1>6, <2>1, FindStep DEF D, BothRanks
  <2>. QED  BY <1>5, <2>2
<1>8. pc' \in Steps' /\ DuplicatesFound'
  BY <1>1, <1>3, <1>4, <1>7 DEF Steps, DuplicatesFound
<1>9. Shuffled' /\ WordsHeld' /\ VertexPlaced'
  <2>1. pc \notin Late /\ pc' \notin Late /\ pc' \notin {"enter", "pass", "done"}
    BY <1>1 DEF Late
  <2>. QED  BY <1>1, <1>2, <2>1, EarlyKeeps, VertexKept
<1>10. bit = 0 /\ OrderIsRecord /\ SourceSorted /\ DestSorted /\ BothSorted
  BY <1>1, <1>2 DEF GraphInv, BitsCounted
<1>11. OrderIsRecord' /\ BitsCounted'
  <2>1. BitsOf("source") \in Nat
    BY <1>1, OrderFacts
  <2>. QED  BY <1>1, <1>4, <1>10, <2>1 DEF OrderIsRecord, BitsCounted
<1>12. SourceSorted'
  <2>1. order["source"] = <<>>
    BY <1>1, <1>3, <1>10 DEF SourceSorted, AfterSource, Late
  <2>2. pc' \notin AfterSource'
    BY <1>1, <1>3, <1>4 DEF AfterSource, Late
  <2>. QED  BY <1>1, <1>10, <2>1, <2>2 DEF SourceSorted
<1>13. DestSorted'
  <2>1. order["dest"] = FullRanks(<<>>)
    BY <1>1, <1>3, <1>10 DEF DestSorted, AfterDest
  <2>2. pc' \in AfterDest'
    BY <1>1, <1>3, <1>4 DEF AfterDest
  <2>. QED  BY <1>1, <1>4, <2>1, <2>2 DEF DestSorted, FullRanks
<1>14. BothSorted'
  <2>1. pc' \in AfterBoth'
    BY <1>1, <1>4 DEF AfterBoth
  <2>. QED  BY <1>1, <1>3, <1>4, <1>6, <2>1 DEF BothSorted, BothRanks
<1>. QED  BY <1>1, <1>2, <1>8, <1>9, <1>11, <1>12, <1>13, <1>14 DEF SortsInv, GraphInv

LEMMA SortLastBitKeeps == ASSUME SortsInv, SortLastBit PROVE SortsInv'
<1>1. /\ pc = "last" /\ pc' = "vertex"
      /\ UNCHANGED <<job, bit, duplicate, shuffle, open, node, round, payload, out>>
  BY DEF SortLastBit
<1>2. PICK f \in Shuffles :
        order' = [order EXCEPT !["dest"] = SortingIteration(order["dest"], Bit(2, job.bits), f)]
  BY DEF SortLastBit
<1>3. job \in Jobs /\ job.measure # "sort" /\ GraphInv
  BY <1>1, AtGraph
<1>4. job.measure = "pi_2"
  BY <1>1, <1>3 DEF GraphInv, Steps, Late
<1>5. /\ AfterSource' = AfterSource /\ AfterDest' = AfterDest /\ AfterBoth' = AfterBoth
      /\ Late' = Late /\ Steps' = Steps /\ Size' = Size /\ \A i : BitsOf(i)' = BitsOf(i)
  BY <1>1, StepSets
<1>6. /\ bit = 0 /\ OrderIsRecord /\ SourceSorted /\ DestSorted /\ BothSorted
      /\ DuplicatesFound /\ Marks(duplicate, job.list, Size)
  BY <1>1, <1>3, <1>4 DEF GraphInv, BitsCounted, DuplicatesFound
<1>7. order["dest"] = FullRanks(<<>>)
  BY <1>1, <1>4, <1>6 DEF DestSorted, AfterDest
<1>8. /\ order'["dest"] = FullRanks(duplicate) /\ OrderIsRecord'
      /\ \A o \in {"source", "both", "vertex"} : order'[o] = order[o]
  <2>1. PermOf(f, Size)
    BY <1>1, OrderFacts
  <2>2. SortingIteration(order["dest"], Bit(2, job.bits), f) = FullRanks(duplicate)
    BY <1>3, <1>6, <1>7, <2>1, LastStep DEF FullRanks
  <2>3. order = [o \in Orderings |-> order[o]]
    BY <1>6 DEF OrderIsRecord
  <2>. QED  BY <1>2, <2>2, <2>3 DEF OrderIsRecord, Orderings
<1>9. pc' \in Steps' /\ DuplicatesFound' /\ BitsCounted'
  BY <1>1, <1>4, <1>5, <1>6 DEF Steps, DuplicatesFound, BitsCounted
<1>10. Shuffled' /\ WordsHeld' /\ VertexPlaced'
  <2>1. pc \notin Late /\ pc' \notin Late /\ pc' \notin {"enter", "pass", "done"}
    BY <1>1 DEF Late
  <2>. QED  BY <1>1, <1>3, <1>8, <2>1, EarlyKeeps, VertexKept
<1>11. SourceSorted' /\ DestSorted' /\ BothSorted'
  <2>1. /\ pc \in AfterSource /\ pc' \in AfterSource' /\ pc' \in AfterDest'
        /\ pc \in AfterBoth /\ pc' \in AfterBoth'
    BY <1>1, <1>4, <1>5 DEF AfterSource, AfterDest, AfterBoth
  <2>2. SourceSorted'
    BY <1>1, <1>5, <1>6, <1>8, <2>1 DEF SourceSorted, SourceRanks
  <2>3. DestSorted'
    BY <1>1, <1>5, <1>8, <2>1 DEF DestSorted, FullRanks
  <2>4. BothSorted'
    BY <1>1, <1>4, <1>5, <1>6, <1>8, <2>1 DEF BothSorted, BothRanks
  <2>. QED  BY <2>2, <2>3, <2>4
<1>. QED  BY <1>1, <1>3, <1>8, <1>9, <1>10, <1>11 DEF SortsInv, GraphInv

LEMMA SortVerticesKeeps == ASSUME SortsInv, SortVertices PROVE SortsInv'
<1>1. /\ pc = "vertex" /\ pc' = "prepare"
      /\ UNCHANGED <<job, bit, duplicate, shuffle, open, node, round, payload, out>>
  BY DEF SortVertices
<1>2. PICK f \in Shuffles :
        order' = [order EXCEPT !["vertex"] = SortingIteration(order["dest"], Flipped(VertexFlags), f)]
  BY DEF SortVertices
<1>3. job \in Jobs /\ job.measure # "sort" /\ GraphInv
  BY <1>1, AtGraph
<1>4. /\ AfterSource' = AfterSource /\ AfterDest' = AfterDest /\ AfterBoth' = AfterBoth
      /\ Late' = Late /\ Steps' = Steps /\ Size' = Size /\ \A i : BitsOf(i)' = BitsOf(i)
  BY <1>1, StepSets
<1>5. bit = 0 /\ OrderIsRecord /\ SourceSorted /\ DestSorted /\ BothSorted /\ DuplicatesFound
  BY <1>1, <1>3 DEF GraphInv, BitsCounted
<1>6. /\ pc \in AfterSource /\ pc' \in AfterSource' /\ pc \in AfterDest /\ pc' \in AfterDest'
      /\ pc \in AfterBoth /\ pc' \in AfterBoth'
  BY <1>1, <1>4 DEF AfterSource, AfterDest, AfterBoth, Late
<1>7. order["dest"] = FullRanks(duplicate)
  BY <1>1, <1>5, <1>6 DEF DestSorted
<1> DEFINE p == SortingIteration(order["dest"], Flipped(VertexFlags), f)
<1>8. PermOf(p, Size) /\ \A k \in 1 .. Size : job.list[k][1] = job.list[k][2] => p[k] = job.list[k][1]
  <2>1. PermOf(f, Size) /\ MaybeMarks(duplicate, job.list, Size)
    BY <1>1, OrderFacts
  <2>2. p = SortingIteration(RanksOf(FullKeys(job.list, duplicate, job.bits), Size), Flipped(VertexFlags), f)
    BY <1>7 DEF FullRanks
  <2> HIDE DEF p
  <2>. QED  BY <1>3, <2>1, <2>2, VertexStep
<1> HIDE DEF p
<1>9. /\ order'["vertex"] = p /\ OrderIsRecord'
      /\ \A o \in {"source", "both", "dest"} : order'[o] = order[o]
  <2>1. order = [o \in Orderings |-> order[o]]
    BY <1>5 DEF OrderIsRecord
  <2>. QED  BY <1>2, <2>1 DEF OrderIsRecord, Orderings, p
<1>10. pc' \in Steps' /\ DuplicatesFound' /\ BitsCounted'
  BY <1>1, <1>4, <1>5 DEF Steps, Late, DuplicatesFound, BitsCounted
<1>11. Shuffled' /\ WordsHeld'
  <2>1. pc \notin Late /\ pc' \notin {"enter", "pass", "done"}
    BY <1>1 DEF Late
  <2>. QED  BY <1>1, <1>3, <2>1, EarlyKeeps
<1>12. VertexPlaced'
  <2>1. pc' \in Late'
    BY <1>1 DEF Late
  <2>. QED  BY <1>1, <1>4, <1>8, <1>9, <2>1 DEF VertexPlaced
<1>13. SourceSorted' /\ DestSorted' /\ BothSorted'
  <2>1. SourceSorted'
    BY <1>1, <1>4, <1>5, <1>6, <1>9 DEF SourceSorted, SourceRanks
  <2>2. DestSorted'
    BY <1>1, <1>4, <1>5, <1>6, <1>9 DEF DestSorted, FullRanks
  <2>3. BothSorted'
    BY <1>1, <1>4, <1>5, <1>6, <1>9 DEF BothSorted, BothRanks
  <2>. QED  BY <2>1, <2>2, <2>3
<1>. QED  BY <1>1, <1>3, <1>9, <1>10, <1>11, <1>12, <1>13 DEF SortsInv, GraphInv

(* The message passing leaves the orderings alone.                         *)
LEMMA LateKeeps ==
  ASSUME SortsInv, job.measure # "sort", pc \in Late, pc' \in Late,
         UNCHANGED <<job, bit, order, duplicate>>, Shuffled', WordsHeld'
  PROVE  SortsInv'
<1>1. job \in Jobs /\ GraphInv
  BY DEF SortsInv
<1>2. /\ AfterSource' = AfterSource /\ AfterDest' = AfterDest /\ AfterBoth' = AfterBoth
      /\ Late' = Late /\ Steps' = Steps /\ Size' = Size /\ \A i : BitsOf(i)' = BitsOf(i)
  BY StepSets
<1>3. /\ pc \in AfterSource /\ pc' \in AfterSource' /\ pc \in AfterDest /\ pc' \in AfterDest'
      /\ pc \in AfterBoth /\ pc' \in AfterBoth' /\ pc' \in Steps' /\ pc' \in Late'
      /\ pc' \notin {"source", "dest", "both", "duplicates", "last", "vertex"}
      /\ pc \notin {"source", "dest", "both", "duplicates", "last", "vertex"}
  BY <1>2 DEF AfterSource, AfterDest, AfterBoth, Late, Steps
<1>4. OrderIsRecord' /\ BitsCounted' /\ DuplicatesFound'
  BY <1>1, <1>2, <1>3 DEF GraphInv, OrderIsRecord, BitsCounted, DuplicatesFound
<1>5. SourceSorted'
  BY <1>1, <1>2, <1>3 DEF GraphInv, SourceSorted, SourceRanks
<1>6. DestSorted'
  BY <1>1, <1>2, <1>3 DEF GraphInv, DestSorted, FullRanks
<1>7. BothSorted'
  BY <1>1, <1>2, <1>3 DEF GraphInv, BothSorted, BothRanks
<1>8. VertexPlaced'
  BY <1>1, <1>2, <1>3 DEF GraphInv, VertexPlaced
<1>. QED  BY <1>1, <1>3, <1>4, <1>5, <1>6, <1>7, <1>8 DEF SortsInv, GraphInv

(* At the end of the sorts all orderings of the message passing are        *)
(* permutations.                                                           *)
LEMMA KeysAre ==
  ASSUME job \in Jobs, job.measure # "sort", MaybeMarks(duplicate, job.list, Size), NEW b \in Nat
  PROVE  /\ Keys(SourceKeys(job.list, duplicate, job.bits, b), Size)
         /\ Keys(FullKeys(job.list, duplicate, job.bits), Size)
         /\ Keys(FullKeys(job.list, <<>>, job.bits), Size)
         /\ Keys(DestKeys(job.list, b), Size)
         /\ Keys(BothKeys(job.list, job.bits, b), Size)
<1> DEFINE L == job.list
           n == Size
           B == job.bits
<1>1. GraphOf(L, n, job.n, B) /\ n \in Nat /\ B \in Nat /\ DOMAIN L = 1 .. n /\ MaybeMarks(<<>>, L, n)
  BY GraphJob DEF MaybeMarks
<1>2. MaybeMarks(duplicate, L, n)
  OBVIOUS
<1> HIDE DEF L, n, B
<1>3. Keys(FullKeys(L, duplicate, B), n) /\ Keys(FullKeys(L, <<>>, B), n)
  <2>1. 2 * 2^(B + 1) \in Nat
    <3>1. B + 1 \in Nat
      BY <1>1
    <3>2. 2^(B + 1) \in Nat
      BY <3>1, PowNat
    <3>. QED  BY <3>2
  <2> DEFINE m == 2 * 2^(B + 1)
  <2>2. \A k \in 1 .. n :
          FullKeys(L, duplicate, B)[k] \in 0 .. (m - 1) /\ FullKeys(L, <<>>, B)[k] \in 0 .. (m - 1)
    BY <1>1, <1>2, FullFacts
  <2> HIDE DEF m
  <2>3. m \in Nat
    BY <2>1 DEF m
  <2>. QED  BY <2>2, <2>3 DEF Keys
<1>4. ASSUME NEW k \in 1 .. n
      PROVE  /\ L[k][1] + TwiceOf(duplicate, B, k) \in Nat /\ FlagOf(L, k) \in {0, 1}
             /\ L[k][1] \in Nat /\ L[k][2] \in Nat
  <2>1. TwiceOf(duplicate, B, k) \in Nat /\ L[k][1] \in Nat /\ L[k][2] \in Nat /\ FlagOf(L, k) \in {0, 1}
    BY <1>1, <1>2, NodesUnmarked, DestPart
  <2>. QED  BY <2>1
<1>5. ASSUME NEW x \in Nat PROVE x % 2^b \in Nat
  <2>1. 2^b \in Nat /\ x % 2^b \in 0 .. (2^b - 1)
    BY LowBound, PowNat
  <2>. QED  BY <2>1
<1>6. Keys(SourceKeys(L, duplicate, B, b), n)
  <2>1. ASSUME NEW k \in 1 .. n PROVE SourceKeys(L, duplicate, B, b)[k] \in Nat
    <3> DEFINE x == L[k][1] + TwiceOf(duplicate, B, k)
               y == x % 2^b
    <3>1. SourceKeys(L, duplicate, B, b)[k] = 2 * y + 1 - FlagOf(L, k)
      BY <1>1 DEF SourceKeys
    <3>2. x \in Nat
      BY <1>4
    <3> HIDE DEF x
    <3>3. y \in Nat
      BY <1>5, <3>2
    <3> HIDE DEF y
    <3>. QED  BY <1>4, <3>1, <3>3
  <2>. QED  BY <2>1 DEF Keys
<1>7. Keys(DestKeys(L, b), n)
  <2>1. ASSUME NEW k \in 1 .. n PROVE DestKeys(L, b)[k] \in Nat
    <3> DEFINE y == L[k][2] % 2^b
    <3>1. DestKeys(L, b)[k] = 2 * y + FlagOf(L, k)
      BY <1>1 DEF DestKeys
    <3>2. y \in Nat
      BY <1>4, <1>5
    <3> HIDE DEF y
    <3>. QED  BY <1>4, <3>1, <3>2
  <2>. QED  BY <2>1 DEF Keys
<1>8. Keys(BothKeys(L, B, b), n)
  <2>1. ASSUME NEW k \in 1 .. n PROVE BothKeys(L, B, b)[k] \in Nat
    <3> DEFINE y == L[k][1] % 2^b
               m == 2^(B + 1)
    <3>1. BothKeys(L, B, b)[k] = y * m + (2 * L[k][2] + FlagOf(L, k))
      BY <1>1 DEF BothKeys
    <3>2. y \in Nat
      BY <1>4, <1>5
    <3>3. m \in Nat
      <4>1. B + 1 \in Nat
        BY <1>1
      <4>. QED  BY <4>1, PowNat
    <3> HIDE DEF y, m
    <3>4. y * m \in Nat
      BY <3>2, <3>3
    <3> DEFINE z == y * m
    <3> HIDE DEF z
    <3>5. z + (2 * L[k][2] + FlagOf(L, k)) \in Nat
      BY <1>4, <3>4 DEF z
    <3>. QED  BY <3>1, <3>5 DEF z
  <2>. QED  BY <2>1 DEF Keys
<1>. QED  BY <1>3, <1>6, <1>7, <1>8 DEF L, n, B

LEMMA OrdersArePerms ==
  ASSUME SortsInv, job.measure # "sort"
  PROVE  /\ \A o \in Orderings : order[o] = <<>> \/ PermOf(order[o], Size)
         /\ pc \in Late => \A o \in Passed : PermOf(order[o], Size)
<1>1. job \in Jobs /\ GraphInv
  BY DEF SortsInv
<1>2. Size \in Nat /\ Size > 0 /\ job.bits \in Nat
  BY <1>1, GraphJob
<1>3. MaybeMarks(duplicate, job.list, Size)
  BY <1>1 DEF GraphInv, DuplicatesFound, MaybeMarks
<1>4. bit \in Nat /\ BitsOf("source") \in Nat
  <2>1. BitsOf("source") \in Nat /\ BitsOf("dest") \in Nat /\ BitsOf("both") \in Nat
    BY <1>2 DEF BitsOf
  <2>. QED  BY <1>1, <2>1 DEF GraphInv, BitsCounted
<1>5. ASSUME NEW b \in Nat
      PROVE  /\ PermOf(SourceRanks(b), Size) /\ PermOf(DestRanks(b), Size) /\ PermOf(BothRanks(b), Size)
             /\ PermOf(FullRanks(duplicate), Size) /\ PermOf(FullRanks(<<>>), Size)
  BY <1>1, <1>2, <1>3, KeysAre, RanksOrdered DEF SourceRanks, DestRanks, BothRanks, FullRanks
<1>6. order["source"] = <<>> \/ PermOf(order["source"], Size)
  BY <1>1, <1>4, <1>5 DEF GraphInv, SourceSorted
<1>7. order["dest"] = <<>> \/ PermOf(order["dest"], Size)
  BY <1>1, <1>4, <1>5 DEF GraphInv, DestSorted
<1>8. order["both"] = <<>> \/ PermOf(order["both"], Size)
  BY <1>1, <1>2, <1>4, <1>5 DEF GraphInv, BothSorted
<1>9. order["vertex"] = <<>> \/ PermOf(order["vertex"], Size)
  BY <1>1 DEF GraphInv, VertexPlaced
<1>10. ASSUME pc \in Late PROVE \A o \in Passed : PermOf(order[o], Size)
  <2>1. pc \in AfterSource /\ pc \in AfterDest
    BY <1>10 DEF AfterSource, AfterDest
  <2>2. PermOf(order["source"], Size)
    BY <1>1, <1>4, <1>5, <2>1 DEF GraphInv, SourceSorted
  <2>3. PermOf(order["dest"], Size)
    BY <1>1, <1>4, <1>5, <2>1 DEF GraphInv, DestSorted
  <2>4. PermOf(order["vertex"], Size)
    BY <1>1, <1>10 DEF GraphInv, VertexPlaced
  <2>. QED  BY <2>2, <2>3, <2>4 DEF Passed
<1>. QED  BY <1>6, <1>7, <1>8, <1>9, <1>10 DEF Orderings

LEMMA PrepareKeeps == ASSUME SortsInv, PrepareShufflings PROVE SortsInv'
<1>1. /\ pc = "prepare" /\ pc' = "enter"
      /\ UNCHANGED <<job, bit, order, duplicate, node, round, payload, out>>
  BY DEF PrepareShufflings
<1>2. PICK f \in [Passed -> Shuffles] :
        /\ shuffle' = [o \in Orderings |-> IF o \in Passed THEN f[o] ELSE <<>>]
        /\ open' = [o \in Orderings |-> IF o \in Passed THEN Moved(order[o], f[o]) ELSE <<>>]
  BY DEF PrepareShufflings
<1>3. job \in Jobs /\ job.measure # "sort" /\ GraphInv
  BY <1>1, AtGraph
<1>4. Size \in Nat /\ \A g \in Shuffles : PermOf(g, Size)
  BY <1>1, OrderFacts
<1>5. pc \in Late /\ pc' \in Late
  BY <1>1 DEF Late
<1>6. \A o \in Passed : PermOf(order[o], Size)
  BY <1>3, <1>5, OrdersArePerms
<1>7. /\ Passed \in SUBSET Orderings /\ "both" \in Orderings /\ "both" \notin Passed
  BY DEF Passed, Orderings
<1>8. Prepared(shuffle', open', Size)
  <2>1. ASSUME NEW o \in Passed PROVE PermOf(shuffle'[o], Size) /\ PermOf(open'[o], Size)
    <3>1. PermOf(f[o], Size) /\ shuffle'[o] = f[o] /\ open'[o] = Moved(order[o], f[o])
      BY <1>2, <1>4, <1>7
    <3>2. PermOf(Moved(order[o], f[o]), Size)
      BY <1>4, <1>6, <3>1, MovedPerm
    <3>. QED  BY <3>1, <3>2
  <2>. QED  BY <2>1 DEF Prepared
<1>9. Shuffled'
  <2>1. shuffle'["both"] = <<>> /\ open'["both"] = <<>>
    BY <1>2, <1>7
  <2>2. Size' = Size
    BY <1>1 DEF Size
  <2>. QED  BY <1>1, <1>8, <2>1, <2>2 DEF Shuffled
<1>10. WordsHeld'
  BY <1>1, <1>3 DEF GraphInv, WordsHeld, Size, Depth
<1>. QED  BY <1>1, <1>3, <1>5, <1>9, <1>10, LateKeeps

LEMMA PassingFacts ==
  ASSUME SortsInv, job.measure # "sort", pc \in {"enter", "pass"}
  PROVE  /\ Prepared(shuffle, open, Size) /\ Size \in Nat /\ job.n \in Nat \ {0} /\ job.n <= Size
         /\ job.weights \in Seq(Ring) /\ Depth \in Nat \ {0} /\ WordsHeld /\ Shuffled
<1>1. job \in Jobs /\ GraphInv
  BY DEF SortsInv
<1>2. Size \in Nat /\ job.n \in Nat \ {0} /\ job.n <= Size
  BY <1>1, GraphJob DEF GraphOf
<1>3. job.weights \in Seq(Ring) /\ Depth \in Nat \ {0}
  BY <1>1, JobListed DEF Depth
<1>. QED  BY <1>1, <1>2, <1>3 DEF GraphInv, Shuffled

LEMMA PassKeeps ==
  ASSUME SortsInv, pc \in {"enter", "pass"}, pc' \in {"enter", "pass", "done"},
         UNCHANGED <<job, bit, order, duplicate, shuffle, open>>, WordsHeld'
  PROVE  SortsInv'
<1>1. job \in Jobs /\ job.measure # "sort" /\ GraphInv
  BY AtGraph
<1>2. Shuffled' /\ pc \in Late /\ pc' \in Late
  BY <1>1 DEF GraphInv, Shuffled, Size, Late
<1>. QED  BY <1>1, <1>2, LateKeeps

LEMMA EnterKeeps == ASSUME SortsInv, EnterPassing PROVE SortsInv'
<1> DEFINE x == InitialPayload
<1>1. /\ pc = "enter" /\ pc' = "pass" /\ round' = 0
      /\ payload' = Reordered(Moved(x, shuffle["vertex"]), open["vertex"])
      /\ UNCHANGED <<job, bit, order, duplicate, shuffle, open, node, out>>
  BY DEF EnterPassing
<1>2. job \in Jobs /\ job.measure # "sort" /\ GraphInv
  BY <1>1, AtGraph
<1>3. Prepared(shuffle, open, Size) /\ Size \in Nat /\ Depth \in Nat \ {0} /\ WordsHeld
  BY <1>1, <1>2, PassingFacts
<1>4. PermOf(shuffle["vertex"], Size) /\ PermOf(open["vertex"], Size)
  BY <1>3 DEF Prepared, Passed
<1>5. Vec(x, Size, Ring)
  <2>1. Entries = 1 .. Size /\ 0 \in Ring /\ 1 \in Ring
    BY <1>2, GraphJob, ModulusFacts
  <2>. QED  BY <2>1 DEF InitialPayload, Vec
<1> HIDE DEF x
<1>6. Vec(Moved(x, shuffle["vertex"]), Size, Ring)
  BY <1>3, <1>4, <1>5, MovedFacts
<1>7. Vec(payload', Size, Ring)
  BY <1>1, <1>3, <1>4, <1>6, ReorderedFacts
<1>8. WordsHeld'
  <2>1. Size' = Size /\ Depth' = Depth
    BY <1>1 DEF Size, Depth
  <2>. QED  BY <1>1, <1>3, <1>7, <2>1 DEF WordsHeld
<1>. QED  BY <1>1, <1>8, PassKeeps

LEMMA PassRoundKeeps == ASSUME SortsInv, PassRound PROVE SortsInv'
<1>1. /\ pc = "pass" /\ round < Depth /\ pc' = pc /\ round' = round + 1
      /\ payload' = IF job.measure = "pi_1" THEN AddedVec(Sent(payload), payload)
                    ELSE Sent(Weighted(payload))
      /\ UNCHANGED <<job, bit, order, duplicate, shuffle, open, node, out>>
  BY DEF PassRound
<1>2. job \in Jobs /\ job.measure # "sort" /\ GraphInv
  BY <1>1, AtGraph
<1>3. /\ Prepared(shuffle, open, Size) /\ Size \in Nat /\ job.n \in Nat \ {0} /\ Depth \in Nat \ {0}
      /\ WordsHeld /\ job.weights \in Seq(Ring)
  BY <1>1, <1>2, PassingFacts
<1>4. Vec(payload, Size, Ring) /\ round \in 0 .. Depth
  BY <1>1, <1>3 DEF WordsHeld
<1>5. Vec(AddedVec(Sent(payload), payload), Size, Ring)
  <2>1. Vec(Sent(payload), Size, Ring)
    BY <1>3, <1>4, SentWords
  <2>2. job.n \in Nat /\ 0 \in Ring
    BY <1>3, ModulusFacts
  <2>. QED  BY <1>3, <1>4, <2>1, <2>2, PassingWords
<1>6. Vec(Sent(Weighted(payload)), Size, Ring)
  <2>1. job.weights[Depth - round] \in Ring
    <3>1. Depth - round \in 1 .. Len(job.weights)
      BY <1>1, <1>3, <1>4 DEF Depth
    <3>. QED  BY <1>3, <3>1
  <2>2. job.n \in Nat
    BY <1>3
  <2>3. Vec(Weighted(payload), Size, Ring)
    BY <1>3, <1>4, <2>1, <2>2, PassingWords DEF Weighted
  <2>. QED  BY <1>3, <2>2, <2>3, SentWords
<1>7. Vec(payload', Size, Ring)
  BY <1>1, <1>5, <1>6
<1>8. WordsHeld'
  <2>1. Size' = Size /\ Depth' = Depth
    BY <1>1 DEF Size, Depth
  <2>2. round' \in 0 .. Depth
    BY <1>1, <1>3, <1>4
  <2>. QED  BY <1>1, <1>3, <1>7, <2>1, <2>2 DEF WordsHeld
<1>. QED  BY <1>1, <1>8, PassKeeps

LEMMA OutputKeeps == ASSUME SortsInv, Output PROVE SortsInv'
<1>1. /\ pc = "pass" /\ pc' = "done" /\ out' = SubSeq(payload, 1, job.n)
      /\ UNCHANGED <<job, bit, order, duplicate, shuffle, open, node, round, payload>>
  BY DEF Output
<1>2. job \in Jobs /\ job.measure # "sort" /\ GraphInv
  BY <1>1, AtGraph
<1>3. /\ Size \in Nat /\ job.n \in Nat \ {0} /\ job.n <= Size /\ WordsHeld
  BY <1>1, <1>2, PassingFacts
<1>4. Vec(payload, Size, Ring)
  BY <1>1, <1>3 DEF WordsHeld
<1>5. payload \in Seq(Ring) /\ Len(payload) = Size
  BY <1>3, <1>4, FunIsSeq DEF Vec
<1>6. out' \in Seq(Ring)
  BY <1>1, <1>3, <1>5
<1>7. WordsHeld'
  <2>1. Size' = Size /\ Depth' = Depth
    BY <1>1 DEF Size, Depth
  <2>. QED  BY <1>1, <1>3, <1>6, <2>1 DEF WordsHeld
<1>. QED  BY <1>1, <1>7, PassKeeps

LEMMA CountKeeps == ASSUME SortsInv, CountReached PROVE SortsInv'
<1> DEFINE z == [k \in 1 .. job.n |-> IF payload[k] = 0 THEN 1 ELSE 0]
           t == Total(Flipped(z), job.n)
<1>1. /\ pc = "pass" /\ out' = Append(out, t) /\ node' = node + 1
      /\ pc' = IF node = job.n THEN "done" ELSE "enter"
      /\ UNCHANGED <<job, bit, order, duplicate, shuffle, open, round, payload>>
  BY DEF CountReached
<1>2. job \in Jobs /\ job.measure # "sort" /\ GraphInv
  BY <1>1, AtGraph
<1>3. job.n \in Nat \ {0} /\ WordsHeld
  BY <1>1, <1>2, PassingFacts
<1>4. t \in Ring
  <2>1. Len(z) = job.n /\ job.n \in Nat /\ \A k \in 1 .. job.n : z[k] \in {0, 1}
    BY <1>3
  <2> HIDE DEF z
  <2>2. Flipped(z) = [k \in 1 .. job.n |-> Minus(1, z[k])]
    BY <2>1 DEF Flipped
  <2>3. \A k \in 1 .. job.n : Flipped(z)[k] \in Ring
    <3>1. ASSUME NEW k \in 1 .. job.n PROVE Minus(1, z[k]) \in Ring
      BY <2>1, ModulusFacts, WordOps
    <3>. QED  BY <2>2, <3>1
  <2>4. \A k \in 0 .. job.n : Total(Flipped(z), k) \in Ring
    BY <2>1, <2>3, TotalWord
  <2>. QED  BY <2>1, <2>4
<1> HIDE DEF t
<1>5. out' \in Seq(Ring)
  BY <1>1, <1>3, <1>4 DEF WordsHeld
<1>6. node' \in 1 .. job.n + 1 /\ (pc' # "done" => node' <= job.n)
  <2>1. node \in 1 .. job.n
    BY <1>1, <1>3 DEF WordsHeld
  <2>. QED  BY <1>1, <1>3, <2>1
<1>7. WordsHeld' /\ pc' \in {"enter", "pass", "done"}
  <2>1. Size' = Size /\ Depth' = Depth
    BY <1>1 DEF Size, Depth
  <2>. QED  BY <1>1, <1>3, <1>5, <1>6, <2>1 DEF WordsHeld
<1>. QED  BY <1>1, <1>7, PassKeeps

(* The driver sort.cpp.                                                    *)
LEMMA AtWords ==
  ASSUME SortsInv, pc = "keys"
  PROVE  /\ job \in Jobs /\ job.measure = "sort" /\ WordInv /\ Size \in Nat /\ job.bits \in Nat \ {0}
         /\ \A f \in Shuffles : PermOf(f, Size)
<1>1. job \in Jobs /\ (job.measure # "sort" => pc \in Steps) /\ (job.measure = "sort" => WordInv)
  BY DEF SortsInv, GraphInv
<1>2. job.measure = "sort"
  BY <1>1 DEF Steps, Late
<1>. QED  BY <1>1, <1>2, WordJob

LEMMA KeyBitKeeps == ASSUME SortsInv, SortByKeyBit PROVE SortsInv'
<1>1. /\ pc = "keys" /\ bit < job.bits /\ bit' = bit + 1
      /\ IF bit = 0 THEN order' = [order EXCEPT !["source"] = Compaction(Bit(1, 0))]
         ELSE \E f \in Shuffles :
                order' = [order EXCEPT !["source"] = SortingIteration(order["source"], Bit(1, bit), f)]
      /\ UNCHANGED <<job, pc, duplicate, shuffle, open, node, round, payload, out>>
  BY DEF SortByKeyBit
<1>2. /\ job \in Jobs /\ job.measure = "sort" /\ WordInv /\ Size \in Nat /\ job.bits \in Nat \ {0}
      /\ \A f \in Shuffles : PermOf(f, Size)
  BY <1>1, AtWords
<1>3. bit \in 0 .. job.bits /\ bit' \in 1 .. job.bits /\ order = [o \in Orderings |-> order[o]]
  BY <1>1, <1>2 DEF WordInv, OrderIsRecord
<1>4. order' = [order EXCEPT !["source"] = WordRanks(bit')]
  <2>1. CASE bit = 0
    <3>1. Compaction(Bit(1, 0)) = WordRanks(1)
      BY <1>2, WordStart DEF WordRanks
    <3>. QED  BY <1>1, <2>1, <3>1
  <2>2. CASE bit # 0
    <3>1. PICK f \in Shuffles :
            order' = [order EXCEPT !["source"] = SortingIteration(order["source"], Bit(1, bit), f)]
      BY <1>1, <2>2
    <3>2. order["source"] = WordRanks(bit)
      BY <1>2, <2>2 DEF WordInv
    <3>3. SortingIteration(WordRanks(bit), Bit(1, bit), f) = WordRanks(bit + 1)
      BY <1>1, <1>2, <1>3, WordStep DEF WordRanks
    <3>. QED  BY <1>1, <3>1, <3>2, <3>3
  <2>. QED  BY <2>1, <2>2
<1>5. order'["source"] = WordRanks(bit') /\ \A o \in Orderings : o # "source" => order'[o] = order[o]
  BY <1>3, <1>4 DEF Orderings
<1>6. OrderIsRecord'
  BY <1>3, <1>4 DEF OrderIsRecord, Orderings
<1>7. WordInv'
  <2>1. Size' = Size
    BY <1>1 DEF Size
  <2>2. bit' # 0 /\ bit' \in 0 .. job.bits
    BY <1>3
  <2>. QED  BY <1>1, <1>2, <1>5, <1>6, <2>1, <2>2 DEF WordInv, WordRanks
<1>. QED  BY <1>1, <1>2, <1>7 DEF SortsInv

LEMMA WordRanksPerm ==
  ASSUME job \in Jobs, NEW b \in Nat PROVE PermOf(WordRanks(b), Size)
<1>1. Keys(WordKeys(job.list, b), Size)
  <2>1. ASSUME NEW k \in 1 .. Size PROVE WordKeys(job.list, b)[k] \in Nat
    <3> DEFINE x == job.list[k][1]
    <3>1. x \in Nat /\ WordKeys(job.list, b)[k] = x % 2^b
      BY WordJob DEF WordKeys
    <3> HIDE DEF x
    <3>2. 2^b \in Nat /\ x % 2^b \in 0 .. (2^b - 1)
      BY <3>1, LowBound, PowNat
    <3>. QED  BY <3>1, <3>2
  <2>. QED  BY <2>1 DEF Keys
<1>. QED  BY <1>1, WordJob, RanksOrdered DEF WordRanks

LEMMA ApplyKeeps == ASSUME SortsInv, ApplyPerm PROVE SortsInv'
<1> DEFINE x == [k \in Entries |-> To(k)]
<1>1. /\ pc = "keys" /\ bit = job.bits /\ pc' = "done"
      /\ UNCHANGED <<job, bit, order, duplicate, shuffle, open, node, round, payload>>
  BY DEF ApplyPerm
<1>2. PICK f \in Shuffles : out' = Reordered(Moved(x, f), Moved(order["source"], f))
  BY DEF ApplyPerm
<1>3. /\ job \in Jobs /\ job.measure = "sort" /\ WordInv /\ Size \in Nat /\ job.bits \in Nat \ {0}
      /\ PermOf(f, Size)
  BY <1>1, AtWords
<1>4. order["source"] = WordRanks(job.bits) /\ PermOf(WordRanks(job.bits), Size)
  BY <1>1, <1>3, WordRanksPerm DEF WordInv
<1>5. Vec(x, Size, Ring) /\ \A k \in 1 .. Size : x[k] = job.list[k][2]
  <2>1. Entries = 1 .. Size /\ \A k \in 1 .. Size : job.list[k][2] \in Ring
    BY <1>3, WordJob
  <2>. QED  BY <2>1 DEF To, Vec
<1> HIDE DEF x
<1>6. Vec(out', Size, Ring) /\ Puts(out', x, WordRanks(job.bits), Size)
  <2> DEFINE w == WordRanks(job.bits)
  <2>1. PermOf(w, Size) /\ out' = Reordered(Moved(x, f), Moved(w, f))
    BY <1>2, <1>4
  <2> HIDE DEF w
  <2>2. Vec(out', Size, Ring) /\ Puts(out', x, w, Size)
    BY <1>3, <1>5, <2>1, ShuffleCancels
  <2>. QED  BY <2>2 DEF w
<1>7. out' \in Seq(Ring)
  BY <1>3, <1>6, FunIsSeq DEF Vec
<1>8. \A k \in 1 .. Size : out'[WordRanks(job.bits)[k]] = job.list[k][2]
  BY <1>5, <1>6 DEF Puts
<1>9. WordInv'
  <2>1. Size' = Size
    BY <1>1 DEF Size
  <2>2. OrderIsRecord'
    BY <1>1, <1>3 DEF WordInv, OrderIsRecord
  <2>. QED  BY <1>1, <1>3, <1>7, <1>8, <2>1, <2>2 DEF WordInv, WordRanks
<1>. QED  BY <1>1, <1>3, <1>9 DEF SortsInv

LEMMA StutterKeeps == ASSUME SortsInv, UNCHANGED vars PROVE SortsInv'
<1>1. UNCHANGED <<job, pc, bit, order, duplicate, shuffle, open, node, round, payload, out>>
  BY DEF vars
<1>2. Size' = Size /\ Depth' = Depth
  BY <1>1 DEF Size, Depth
<1>3. WordInv => WordInv'
  BY <1>1, <1>2 DEF WordInv, OrderIsRecord, WordRanks
<1>4. GraphInv => GraphInv'
  <2> SUFFICES ASSUME GraphInv PROVE GraphInv'
    OBVIOUS
  <2>1. /\ AfterSource' = AfterSource /\ AfterDest' = AfterDest /\ AfterBoth' = AfterBoth
        /\ Late' = Late /\ Steps' = Steps /\ \A i : BitsOf(i)' = BitsOf(i)
    BY <1>1, StepSets
  <2>2. pc' \in Steps' /\ OrderIsRecord' /\ BitsCounted' /\ DuplicatesFound'
    BY <1>1, <1>2, <2>1 DEF GraphInv, OrderIsRecord, BitsCounted, DuplicatesFound
  <2>3. SourceSorted'
    BY <1>1, <1>2, <2>1 DEF GraphInv, SourceSorted, SourceRanks
  <2>4. DestSorted'
    BY <1>1, <1>2, <2>1 DEF GraphInv, DestSorted, DestRanks, FullRanks
  <2>5. BothSorted'
    BY <1>1, <1>2, <2>1 DEF GraphInv, BothSorted, BothRanks
  <2>6. VertexPlaced' /\ Shuffled' /\ WordsHeld'
    BY <1>1, <1>2, <2>1 DEF GraphInv, VertexPlaced, Shuffled, WordsHeld
  <2>. QED  BY <2>2, <2>3, <2>4, <2>5, <2>6 DEF GraphInv
<1>. QED  BY <1>1, <1>3, <1>4 DEF SortsInv

(* Between any two steps of the circuits, every ordering is the stable     *)
(* sort by the bits it has been sorted by so far, and the rest of the      *)
(* state is what the step at pc expects.                                   *)
THEOREM SortsHold == Spec => []SortsInv
<1>1. Init => SortsInv
  BY SortsStart
<1>2. SortsInv /\ [Next]_vars => SortsInv'
  <2> SUFFICES ASSUME SortsInv, [Next]_vars PROVE SortsInv'
    OBVIOUS
  <2>1. ASSUME NEW o \in {"source", "dest", "both"}, Sort(o) PROVE SortsInv'
    BY <2>1, StartSortKeeps, SortByBitKeeps, FinishSortKeeps DEF Sort
  <2>2. CASE FindDuplicates
    BY <2>2, FindDuplicatesKeeps
  <2>3. CASE SortLastBit
    BY <2>3, SortLastBitKeeps
  <2>4. CASE SortVertices
    BY <2>4, SortVerticesKeeps
  <2>5. CASE PrepareShufflings
    BY <2>5, PrepareKeeps
  <2>6. CASE EnterPassing
    BY <2>6, EnterKeeps
  <2>7. CASE PassRound
    BY <2>7, PassRoundKeeps
  <2>8. CASE Output
    BY <2>8, OutputKeeps
  <2>9. CASE CountReached
    BY <2>9, CountKeeps
  <2>10. CASE SortByKeyBit
    BY <2>10, KeyBitKeeps
  <2>11. CASE ApplyPerm
    BY <2>11, ApplyKeeps
  <2>12. CASE UNCHANGED vars
    BY <2>12, StutterKeeps
  <2>. QED  BY <2>1, <2>2, <2>3, <2>4, <2>5, <2>6, <2>7, <2>8, <2>9, <2>10, <2>11, <2>12 DEF Next
<1>. QED  BY <1>1, <1>2, PTL DEF Spec
-----------------------------------------------------------------------------
(* What the module says of the state follows.                              *)
LEMMA InvTyped == ASSUME SortsInv PROVE TypeOK
<1>1. job \in Jobs /\ job.measure \in {"pi_1", "pi_2", "pi_3", "sort"} /\ job.bits \in Nat \ {0}
      /\ job.n \in Nat \ {0} /\ Depth \in Nat
  <2>1. job \in Jobs
    BY DEF SortsInv
  <2>. QED  BY <2>1, JobListed DEF Depth
<1>2. Size \in Nat /\ Entries = 1 .. Size
  BY <1>1, WordJob
<1>3. CASE job.measure = "sort"
  <2>1. WordInv
    BY <1>3 DEF SortsInv
  <2>2. \A o \in Orderings : order[o] = <<>> \/ PermOf(order[o], Size)
    <3>1. bit \in Nat
      BY <1>1, <2>1 DEF WordInv
    <3>. QED  BY <1>1, <2>1, <3>1, WordRanksPerm DEF WordInv
  <2>3. \A o \in Orderings : shuffle[o] = <<>> /\ open[o] = <<>>
    BY <2>1 DEF WordInv
  <2>4. \A v \in DOMAIN out : out[v] \in Ring
    <3>1. out \in Seq(Ring)
      BY <2>1 DEF WordInv
    <3>. QED  BY <3>1
  <2>5. bit \in 0 .. job.bits + 1 /\ node \in 1 .. job.n + 1 /\ round \in 0 .. Depth
    BY <1>1, <2>1 DEF WordInv
  <2>6. \A o \in Passed : o \in Orderings
    BY DEF Passed, Orderings
  <2>. QED  BY <1>1, <2>1, <2>2, <2>3, <2>4, <2>5, <2>6 DEF TypeOK, WordInv
<1>4. CASE job.measure # "sort"
  <2>1. GraphInv /\ Size > 0
    BY <1>1, <1>4, GraphJob DEF SortsInv
  <2>2. pc \in {"keys", "duplicates", "last", "prepare", "enter", "pass", "done"} \cup Orderings
    BY <2>1 DEF GraphInv, Steps, Late, Orderings
  <2>3. bit \in 0 .. job.bits + 1
    <3>1. BitsOf(pc) \in Nat /\ BitsOf(pc) <= job.bits + 1
      BY <1>1 DEF BitsOf
    <3>2. BitsCounted
      BY <2>1 DEF GraphInv
    <3>. QED  BY <1>1, <3>1, <3>2 DEF BitsCounted
  <2>4. \A o \in Orderings : order[o] = <<>> \/ PermOf(order[o], Size)
    BY <1>4, OrdersArePerms
  <2>5. duplicate = <<>> \/ duplicate \in [Entries -> {0, 1}]
    BY <1>2, <2>1 DEF GraphInv, DuplicatesFound, Marks, Flags, Vec
  <2>6. /\ \A o \in Orderings : shuffle[o] = <<>> <=> open[o] = <<>>
        /\ \A o \in Passed : open[o] # <<>> => PermOf(open[o], Size)
    <3>1. CASE pc \in {"enter", "pass", "done"}
      <4>1. Prepared(shuffle, open, Size) /\ shuffle["both"] = <<>> /\ open["both"] = <<>>
        BY <2>1, <3>1 DEF GraphInv, Shuffled
      <4>2. \A o \in Passed : PermOf(open[o], Size) /\ PermOf(shuffle[o], Size)
        BY <4>1 DEF Prepared
      <4>3. \A o \in Passed : open[o] # <<>> /\ shuffle[o] # <<>>
        BY <1>2, <2>1, <4>2, PermNotEmpty
      <4>4. \A o \in Orderings : o \in Passed \/ o = "both"
        BY DEF Passed, Orderings
      <4>. QED  BY <4>1, <4>2, <4>3, <4>4
    <3>2. CASE pc \notin {"enter", "pass", "done"}
      <4>1. \A o \in Orderings : shuffle[o] = <<>> /\ open[o] = <<>>
        BY <2>1, <3>2 DEF GraphInv, Shuffled
      <4>. QED  BY <4>1 DEF Passed, Orderings
    <3>. QED  BY <3>1, <3>2
  <2>7. /\ node \in 1 .. job.n + 1 /\ round \in 0 .. Depth
        /\ payload = <<>> \/ payload \in [Entries -> Ring]
        /\ \A v \in DOMAIN out : out[v] \in Ring
    <3>1. out \in Seq(Ring)
      BY <2>1 DEF GraphInv, WordsHeld
    <3>. QED  BY <1>2, <2>1, <3>1 DEF GraphInv, WordsHeld, Vec
  <2>. QED  BY <1>1, <2>2, <2>3, <2>4, <2>5, <2>6, <2>7 DEF TypeOK
<1>. QED  BY <1>3, <1>4

(* The orderings are permutations of the entries and payloads are words,   *)
(* whatever the list and the shuffles.                                     *)
THEOREM OrderingsTyped == Spec => []TypeOK
<1>1. SortsInv => TypeOK
  BY InvTyped
<1>. QED  BY <1>1, SortsHold, PTL

(* pi_2 marks exactly the entries that repeat an earlier one, in any list. *)
THEOREM DuplicatesAreMarked == Spec => []DuplicatesMarked
<1>1. SortsInv => DuplicatesMarked
  <2> SUFFICES ASSUME SortsInv, duplicate # <<>> PROVE DuplicatesMarked
    BY DEF DuplicatesMarked
  <2>1. job \in Jobs
    BY DEF SortsInv
  <2>2. Marks(duplicate, job.list, Size)
    BY DEF SortsInv, WordInv, GraphInv, DuplicatesFound
  <2>3. Entries = 1 .. Size
    BY <2>1, WordJob
  <2>. QED  BY <2>2, <2>3 DEF DuplicatesMarked, Marks
<1>. QED  BY <1>1, SortsHold, PTL

(* The module's ranks are those of the lemmas.                             *)
LEMMA RanksAre ==
  ASSUME job \in Jobs, NEW key, NEW same, Keys(same, Size), \A k \in 1 .. Size : key[k] = same[k]
  PROVE  Ranks(key) = RanksOf(same, Size)
<1> DEFINE n == Size
<1>1. Entries = 1 .. n /\ n \in Nat
  BY WordJob
<1> HIDE DEF n
<1>2. ASSUME NEW k \in 1 .. n
      PROVE  Cardinality({i \in Entries : key[i] < key[k]}) + Cardinality({i \in 1 .. k : key[i] = key[k]})
               = RanksOf(same, n)[k]
  <2>1. /\ {i \in Entries : key[i] < key[k]} = {i \in 1 .. n : same[i] < same[k]}
        /\ {i \in 1 .. k : key[i] = key[k]} = {i \in 1 .. k : same[i] = same[k]}
    <3>1. \A i \in 1 .. k : i \in 1 .. n
      BY <1>1
    <3>. QED  BY <1>1, <3>1 DEF n
  <2>. QED  BY <1>1, <2>1, RankIs DEF n
<1>3. Ranks(key) = [k \in 1 .. n |-> Cardinality({i \in Entries : key[i] < key[k]})
                                     + Cardinality({i \in 1 .. k : key[i] = key[k]})]
  BY <1>1 DEF Ranks
<1>4. RanksOf(same, n) = [k \in 1 .. n |-> RanksOf(same, n)[k]]
  BY DEF RanksOf
<1> DEFINE r == RanksOf(same, n)
<1> HIDE DEF r
<1>5. r = [k \in 1 .. n |-> r[k]]
  BY <1>4 DEF r
<1>6. Ranks(key) = r
  BY <1>2, <1>3, <1>5 DEF r
<1>. QED  BY <1>6 DEF r, n

LEMMA WordsSorted ==
  ASSUME SortsInv, job.measure = "sort"
  PROVE  (bit > 0 => order["source"] = Ranks([k \in Entries |-> Low(From(k), bit)])) /\ SortsStably
<1>1. job \in Jobs /\ WordInv
  BY DEF SortsInv
<1>2. Size \in Nat /\ Entries = 1 .. Size /\ job.bits \in Nat
  BY <1>1, WordJob
<1>3. ASSUME NEW b \in Nat PROVE Keys(WordKeys(job.list, b), Size)
  <2>1. ASSUME NEW k \in 1 .. Size PROVE WordKeys(job.list, b)[k] \in Nat
    <3> DEFINE x == job.list[k][1]
    <3>1. x \in Nat /\ WordKeys(job.list, b)[k] = x % 2^b
      BY <1>1, WordJob DEF WordKeys
    <3> HIDE DEF x
    <3>2. 2^b \in Nat /\ x % 2^b \in 0 .. (2^b - 1)
      BY <3>1, LowBound, PowNat
    <3>. QED  BY <3>1, <3>2
  <2>. QED  BY <2>1 DEF Keys
<1>4. bit > 0 => order["source"] = Ranks([k \in Entries |-> Low(From(k), bit)])
  <2> SUFFICES ASSUME bit > 0 PROVE order["source"] = Ranks([k \in Entries |-> Low(From(k), bit)])
    OBVIOUS
  <2>1. bit \in Nat /\ bit # 0
    BY <1>1 DEF WordInv
  <2>2. order["source"] = RanksOf(WordKeys(job.list, bit), Size)
    BY <1>1, <2>1 DEF WordInv, WordRanks
  <2> DEFINE key == [k \in Entries |-> Low(From(k), bit)]
  <2>3. \A k \in 1 .. Size : key[k] = WordKeys(job.list, bit)[k]
    BY <1>1, <1>2, WordJob DEF Low, From, WordKeys
  <2> HIDE DEF key
  <2>4. Ranks(key) = RanksOf(WordKeys(job.list, bit), Size)
    BY <1>1, <1>3, <2>1, <2>3, RanksAre
  <2>. QED  BY <2>2, <2>4 DEF key
<1>5. SortsStably
  <2> DEFINE key == [k \in Entries |-> From(k)]
  <2>1. Ranks(key) = WordRanks(job.bits)
    <3>1. ASSUME NEW k \in 1 .. Size PROVE key[k] = WordKeys(job.list, job.bits)[k]
      <4> DEFINE x == job.list[k][1]
      <4>1. x \in Nat /\ x < 2^job.bits
        <5>1. x < 2^job.bits
          BY <1>1, JobListed DEF Size
        <5>. QED  BY <1>1, <5>1, WordJob
      <4>2. key[k] = x /\ WordKeys(job.list, job.bits)[k] = x % 2^job.bits
        BY <1>1, <1>2, WordJob DEF From, WordKeys
      <4> HIDE DEF x, key
      <4>. QED  BY <1>2, <4>1, <4>2, LowAll
    <3> HIDE DEF key
    <3>. QED  BY <1>1, <1>2, <1>3, <3>1, RanksAre DEF WordRanks
  <2>2. pc = "done" => \A k \in Entries : out[WordRanks(job.bits)[k]] = To(k)
    BY <1>1, <1>2 DEF WordInv, To
  <2>. QED  BY <2>1, <2>2 DEF SortsStably
<1>. QED  BY <1>4, <1>5

LEMMA GraphSorted ==
  ASSUME SortsInv, job.measure # "sort"
  PROVE  /\ order["source"] # <<>> =>
              order["source"] = Ranks([k \in Entries |->
                 2 * Low(From(k) + Twice(k),
                         IF pc = "source" \/ pc = "keys" THEN bit ELSE BitsOf("source")) + 1 - Flag(k)])
         /\ pc = "dest" /\ order["dest"] # <<>> =>
              order["dest"] = Ranks([k \in Entries |->
                 2 * Low(To(k), IF pc = "dest" \/ pc = "keys" THEN bit ELSE BitsOf("dest")) + Flag(k)])
         /\ pc # "dest" /\ order["dest"] # <<>> =>
              order["dest"] = Ranks([k \in Entries |->
                 2 * Low(IF pc \in {"source", "last", "both"} THEN To(k) ELSE To(k) + Twice(k),
                         job.bits + 1) + Flag(k)])
         /\ order["both"] # <<>> =>
              order["both"] = Ranks([k \in Entries |->
                 Low(From(k), IF pc = "both" \/ pc = "keys" THEN bit ELSE BitsOf("both")) * 2^(job.bits + 1)
                   + 2 * To(k) + Flag(k)])
<1>1. job \in Jobs /\ GraphInv
  BY DEF SortsInv
<1>2. Size \in Nat /\ Size > 0 /\ job.bits \in Nat /\ DOMAIN job.list = 1 .. Size /\ Entries = 1 .. Size
  BY <1>1, GraphJob
<1>3. MaybeMarks(duplicate, job.list, Size) /\ DuplicatesFound
  BY <1>1 DEF GraphInv, DuplicatesFound, MaybeMarks
<1>4. /\ bit \in Nat /\ BitsOf("source") \in Nat /\ BitsOf("dest") = job.bits
      /\ BitsOf("both") = job.bits /\ pc # "keys"
  <2>1. BitsOf("source") \in Nat /\ BitsOf("dest") = job.bits /\ BitsOf("both") = job.bits
    BY <1>2 DEF BitsOf
  <2>2. pc # "keys"
    BY <1>1 DEF GraphInv, Steps, Late
  <2>3. BitsCounted
    BY <1>1 DEF GraphInv
  <2>. QED  BY <1>2, <2>1, <2>2, <2>3 DEF BitsCounted
<1>5. ASSUME NEW k \in 1 .. Size
      PROVE  /\ Flag(k) = FlagOf(job.list, k) /\ Twice(k) = TwiceOf(duplicate, job.bits, k)
             /\ From(k) = job.list[k][1] /\ To(k) = job.list[k][2]
             /\ From(k) \in Nat /\ To(k) \in Nat /\ Flag(k) \in {0, 1}
  <2>1. From(k) = job.list[k][1] /\ To(k) = job.list[k][2] /\ From(k) \in Nat /\ To(k) \in Nat
    BY <1>1, GraphJob DEF From, To
  <2>. QED  BY <2>1 DEF Flag, IsNode, FlagOf, From, To, Twice, TwiceOf
<1>6. order["source"] # <<>> =>
        order["source"] = Ranks([k \in Entries |->
           2 * Low(From(k) + Twice(k),
                   IF pc = "source" \/ pc = "keys" THEN bit ELSE BitsOf("source")) + 1 - Flag(k)])
  <2> DEFINE b == IF pc = "source" \/ pc = "keys" THEN bit ELSE BitsOf("source")
             key == [k \in Entries |-> 2 * Low(From(k) + Twice(k), b) + 1 - Flag(k)]
  <2>1. b \in Nat
    BY <1>4
  <2>2. order["source"] # <<>> => order["source"] = SourceRanks(b)
    BY <1>1, <1>4 DEF GraphInv, SourceSorted
  <2> HIDE DEF b
  <2>3. \A k \in 1 .. Size : key[k] = SourceKeys(job.list, duplicate, job.bits, b)[k]
    BY <1>2, <1>5 DEF Low, SourceKeys
  <2> HIDE DEF key
  <2>4. Ranks(key) = SourceRanks(b)
    BY <1>1, <1>3, <2>1, <2>3, KeysAre, RanksAre DEF SourceRanks
  <2>. QED  BY <2>2, <2>4 DEF key, b
<1>7. pc = "dest" /\ order["dest"] # <<>> =>
        order["dest"] = Ranks([k \in Entries |->
           2 * Low(To(k), IF pc = "dest" \/ pc = "keys" THEN bit ELSE BitsOf("dest")) + Flag(k)])
  <2> DEFINE b == IF pc = "dest" \/ pc = "keys" THEN bit ELSE BitsOf("dest")
             key == [k \in Entries |-> 2 * Low(To(k), b) + Flag(k)]
  <2>1. b \in Nat
    BY <1>2, <1>4
  <2>2. pc = "dest" /\ order["dest"] # <<>> => order["dest"] = DestRanks(b)
    BY <1>1 DEF GraphInv, DestSorted
  <2> HIDE DEF b
  <2>3. \A k \in 1 .. Size : key[k] = DestKeys(job.list, b)[k]
    BY <1>2, <1>5 DEF Low, DestKeys
  <2> HIDE DEF key
  <2>4. Ranks(key) = DestRanks(b)
    BY <1>1, <1>3, <2>1, <2>3, KeysAre, RanksAre DEF DestRanks
  <2>. QED  BY <2>2, <2>4 DEF key, b
<1>8. pc # "dest" /\ order["dest"] # <<>> =>
        order["dest"] = Ranks([k \in Entries |->
           2 * Low(IF pc \in {"source", "last", "both"} THEN To(k) ELSE To(k) + Twice(k),
                   job.bits + 1) + Flag(k)])
  <2> DEFINE d == IF pc \in {"source", "last", "both"} THEN <<>> ELSE duplicate
             key == [k \in Entries |->
                       2 * Low(IF pc \in {"source", "last", "both"} THEN To(k) ELSE To(k) + Twice(k),
                               job.bits + 1) + Flag(k)]
  <2>1. pc # "dest" /\ order["dest"] # <<>> => order["dest"] = FullRanks(d)
    <3>1. pc = "duplicates" => duplicate = <<>>
      BY <1>3 DEF DuplicatesFound
    <3>2. DestSorted
      BY <1>1 DEF GraphInv
    <3>. QED  BY <3>1, <3>2 DEF DestSorted
  <2>2. MaybeMarks(d, job.list, Size)
    BY <1>3 DEF MaybeMarks
  <2>3. Keys(FullKeys(job.list, d, job.bits), Size)
    <3>1. 0 \in Nat
      OBVIOUS
    <3>2. /\ Keys(FullKeys(job.list, duplicate, job.bits), Size)
          /\ Keys(FullKeys(job.list, <<>>, job.bits), Size)
      BY <1>1, <1>3, <3>1, KeysAre
    <3>. QED  BY <3>2
  <2>4. ASSUME NEW k \in 1 .. Size PROVE key[k] = FullKeys(job.list, d, job.bits)[k]
    <3> DEFINE x == IF pc \in {"source", "last", "both"} THEN To(k) ELSE To(k) + Twice(k)
    <3>1. key[k] = 2 * (x % 2^(job.bits + 1)) + Flag(k)
      BY <1>2 DEF Low
    <3>2. x = To(k) + TwiceOf(d, job.bits, k)
      <4>1. pc \in {"source", "last", "both"} => TwiceOf(d, job.bits, k) = 0
        BY DEF TwiceOf
      <4>2. To(k) + 0 = To(k)
        BY <1>5
      <4>. QED  BY <1>5, <4>1, <4>2
    <3> HIDE DEF x, d, key
    <3>3. /\ FullKeys(job.list, d, job.bits)[k]
               = 2 * (job.list[k][2] + TwiceOf(d, job.bits, k)) + FlagOf(job.list, k)
          /\ (job.list[k][2] + TwiceOf(d, job.bits, k)) % 2^(job.bits + 1)
               = job.list[k][2] + TwiceOf(d, job.bits, k)
      <4>1. GraphOf(job.list, Size, job.n, job.bits)
        BY <1>1, GraphJob
      <4>. QED  BY <2>2, <4>1, FullFacts
    <3>4. job.list[k][2] = To(k) /\ FlagOf(job.list, k) = Flag(k)
      BY <1>5
    <3>. QED  BY <3>1, <3>2, <3>3, <3>4
  <2> HIDE DEF key, d
  <2>5. Ranks(key) = FullRanks(d)
    BY <1>1, <2>3, <2>4, RanksAre DEF FullRanks
  <2>. QED  BY <2>1, <2>5 DEF key
<1>9. order["both"] # <<>> =>
        order["both"] = Ranks([k \in Entries |->
           Low(From(k), IF pc = "both" \/ pc = "keys" THEN bit ELSE BitsOf("both")) * 2^(job.bits + 1)
             + 2 * To(k) + Flag(k)])
  <2> DEFINE b == IF pc = "both" \/ pc = "keys" THEN bit ELSE BitsOf("both")
             key == [k \in Entries |-> Low(From(k), b) * 2^(job.bits + 1) + 2 * To(k) + Flag(k)]
  <2>1. b \in Nat
    BY <1>2, <1>4
  <2>2. order["both"] # <<>> => order["both"] = BothRanks(b)
    BY <1>1, <1>4 DEF GraphInv, BothSorted
  <2> HIDE DEF b
  <2>3. ASSUME NEW k \in 1 .. Size PROVE key[k] = BothKeys(job.list, job.bits, b)[k]
    <3> DEFINE y == Low(From(k), b)
               m == 2^(job.bits + 1)
    <3>1. key[k] = y * m + 2 * To(k) + Flag(k)
      BY <1>2
    <3>2. y \in Nat
      <4>1. 2^b \in Nat /\ From(k) % 2^b \in 0 .. (2^b - 1)
        BY <1>5, <2>1, LowBound, PowNat
      <4>. QED  BY <4>1 DEF Low
    <3>3. m \in Nat
      <4>1. job.bits + 1 \in Nat
        BY <1>2
      <4>. QED  BY <4>1, PowNat
    <3>4. BothKeys(job.list, job.bits, b)[k] = y * m + (2 * To(k) + Flag(k))
      BY <1>2, <1>5 DEF BothKeys, Low
    <3> HIDE DEF y, m, key
    <3>5. y * m \in Int
      BY <3>2, <3>3
    <3> DEFINE z == y * m
    <3> HIDE DEF z
    <3>6. z + 2 * To(k) + Flag(k) = z + (2 * To(k) + Flag(k))
      BY <1>5, <3>5 DEF z
    <3>. QED  BY <3>1, <3>4, <3>6 DEF z
  <2> HIDE DEF key
  <2>4. Ranks(key) = BothRanks(b)
    BY <1>1, <1>3, <2>1, <2>3, KeysAre, RanksAre DEF BothRanks
  <2>. QED  BY <2>2, <2>4 DEF key, b
<1>. QED  BY <1>6, <1>7, <1>8, <1>9

(* Every sort is finished up to its current bit, whatever the list, the    *)
(* number of bits and the shuffles; what sort.cpp puts out is sorted, and  *)
(* the vertex ordering has node v in place v.                              *)
THEOREM SortsAreStable == Spec => []SortedSoFar
<1>1. SortsInv => SortedSoFar
  <2> SUFFICES ASSUME SortsInv PROVE SortedSoFar
    OBVIOUS
  <2>1. TypeOK
    BY InvTyped
  <2>2. CASE job.measure = "sort"
    BY <2>1, <2>2, WordsSorted DEF SortedSoFar
  <2>3. CASE job.measure # "sort"
    <3>1. order["vertex"] # <<>> => \A k \in Entries : IsNode(k) => order["vertex"][k] = From(k)
      <4>1. VertexPlaced /\ Entries = 1 .. Size
        BY <2>3, GraphJob DEF SortsInv, GraphInv
      <4>. QED  BY <4>1 DEF VertexPlaced, IsNode, From, To
    <3>. QED  BY <2>1, <2>3, <3>1, GraphSorted DEF SortedSoFar
  <2>. QED  BY <2>2, <2>3
<1>. QED  BY <1>1, SortsHold, PTL
=============================================================================
