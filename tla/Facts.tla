------------------------------ MODULE Facts ---------------------------------
(***************************************************************************)
(* Induction over the natural numbers in the form the proofs use: about a  *)
(* set of numbers, not about an operator.  Both facts follow from the      *)
(* well-foundedness of strict inclusion on finite sets.  Then what % and   *)
(* \div mean, as a sum, powers of two, and what FlattenSeq does to         *)
(* sequences of sequences.                                                 *)
(***************************************************************************)
EXTENDS Integers, SequencesExt, FiniteSetTheorems, WellFoundedInduction, TLAPS

(* A non-empty set of naturals has a least element.                        *)
LEMMA NatLeast ==
  ASSUME NEW T \in SUBSET Nat, T # {}
  PROVE  \E x \in T : \A y \in T : ~ (y < x)
<1> DEFINE Below == {0 .. n : n \in T}
           R == StrictSubsetOrdering(Nat)
<1>1. Below \subseteq FiniteSubsetsOf(Nat) /\ Below # {}
  <2>1. ASSUME NEW n \in T PROVE 0 .. n \in FiniteSubsetsOf(Nat)
    <3>1. IsFiniteSet(0 .. n)  BY FS_Interval
    <3>2. 0 .. n \in SUBSET Nat  OBVIOUS
    <3>. QED  BY <3>1, <3>2 DEF FiniteSubsetsOf
  <2>. QED  BY <2>1
<1>2. IsWellFoundedOn(R, FiniteSubsetsOf(Nat))
  BY FS_StrictSubsetOrderingWellFounded
<1>3. PICK X \in Below : \A Y \in Below : ~ (<<Y, X>> \in R)
  <2> HIDE DEF Below, R
  <2>. QED  BY <1>1, <1>2, WFMin
<1>4. PICK x \in T : X = 0 .. x
  BY <1>3
<1>5. \A y \in T : ~ (y < x)
  <2> SUFFICES ASSUME NEW y \in T, y < x PROVE FALSE
    OBVIOUS
  <2>1. 0 .. y \in Below
    OBVIOUS
  <2>2. <<0 .. y, 0 .. x>> \in R
    <3>1. x \in 0 .. x /\ x \notin 0 .. y /\ 0 .. y \subseteq 0 .. x
      OBVIOUS
    <3>. QED  BY <3>1 DEF StrictSubsetOrdering
  <2>. QED  BY <2>1, <2>2, <1>3, <1>4
<1>. QED  BY <1>5

(* Induction: a set of naturals with 0 and closed under successor is Nat.  *)
LEMMA NatInd ==
  ASSUME NEW T \in SUBSET Nat, 0 \in T, \A n \in T : n + 1 \in T
  PROVE  T = Nat
<1> SUFFICES ASSUME Nat \ T # {} PROVE FALSE
  OBVIOUS
<1>1. PICK x \in Nat \ T : \A y \in Nat \ T : ~ (y < x)
  BY NatLeast
<1>2. x # 0
  BY <1>1
<1>3. x - 1 \in Nat /\ x - 1 < x
  BY <1>1, <1>2
<1>4. x - 1 \in T
  BY <1>1, <1>3
<1>. QED  BY <1>4, <1>1

(* Quotient and remainder.                                                 *)
LEMMA ModUnique ==
  ASSUME NEW m \in Nat \ {0}, NEW x \in Int, NEW r \in 0 .. (m - 1), NEW q \in Int,
         x = m * q + r
  PROVE  x % m = r
OBVIOUS

LEMMA ModSplit ==
  ASSUME NEW m \in Nat \ {0}, NEW x \in Int
  PROVE  (x % m) \in 0 .. (m - 1) /\ \E q \in Int : x = m * q + (x % m)
<1>1. (x % m) \in 0 .. (m - 1) /\ x = m * (x \div m) + (x % m) /\ (x \div m) \in Int
  OBVIOUS
<1>. QED  BY <1>1

LEMMA DivMod ==
  ASSUME NEW m \in Nat, m > 0, NEW x \in Nat
  PROVE  /\ x \div m \in Nat /\ x % m \in Nat /\ (x % m) < m /\ x = m * (x \div m) + (x % m)
OBVIOUS
-----------------------------------------------------------------------------
(* Powers of two count subsets.                                            *)
LEMMA PowCounts ==
  ASSUME NEW n \in Nat
  PROVE  IsFiniteSet(SUBSET (1 .. n)) /\ Cardinality(SUBSET (1 .. n)) = 2^n
<1>1. n \in Int /\ IsFiniteSet(1 .. n) /\ Cardinality(1 .. n) = n
  BY FS_Interval
<1>. QED  BY <1>1, FS_SUBSET

LEMMA PowNat == ASSUME NEW n \in Nat PROVE 2^n \in Nat /\ 2^n > 0
<1>1. Cardinality(SUBSET (1 .. n)) \in Nat
  BY PowCounts, FS_CardinalityType
<1>2. SUBSET (1 .. n) # {}
  OBVIOUS
<1>3. Cardinality(SUBSET (1 .. n)) # 0
  BY <1>2, PowCounts, FS_EmptySet
<1>. QED  BY <1>1, <1>3, PowCounts

LEMMA PowNext == ASSUME NEW n \in Nat PROVE 2^(n + 1) = 2 * 2^n
<1> DEFINE A == SUBSET (1 .. n)
           m == n + 1
           B == {T \cup {m} : T \in A}
           f == [T \in A |-> T \cup {m}]
<1>1. IsFiniteSet(A) /\ Cardinality(A) = 2^n
  BY PowCounts
<1>2. SUBSET (1 .. m) = A \cup B
  <2>1. 1 .. m = (1 .. n) \cup {m}
    OBVIOUS
  <2>2. ASSUME NEW S \in SUBSET (1 .. m) PROVE S \in A \cup B
    <3>1. CASE m \in S
      <4>1. S \ {m} \in A /\ S = (S \ {m}) \cup {m}
        BY <2>1, <3>1
      <4>. QED  BY <4>1
    <3>2. CASE m \notin S
      BY <2>1, <3>2
    <3>. QED  BY <3>1, <3>2
  <2>3. A \cup B \subseteq SUBSET (1 .. m)
    BY <2>1
  <2>. QED  BY <2>2, <2>3
<1>3. A \cap B = {}
  <2>1. m \notin 1 .. n
    OBVIOUS
  <2>. QED  BY <2>1
<1>4. f \in Bijection(A, B)
  <2>1. \A T \in A : m \notin T
    OBVIOUS
  <2>2. f \in [A -> B] /\ \A S, T \in A : f[S] = f[T] => S = T
    <3>1. ASSUME NEW S \in A, NEW T \in A, f[S] = f[T] PROVE S = T
      <4>1. S \cup {m} = T \cup {m} /\ m \notin S /\ m \notin T
        BY <2>1, <3>1
      <4>. QED  BY <4>1
    <3>2. f \in [A -> B]
      <4>1. \A T \in A : T \cup {m} \in B
        OBVIOUS
      <4> HIDE DEF A, B
      <4>. QED  BY <4>1
    <3> HIDE DEF A, B, f
    <3>. QED  BY <3>1, <3>2
  <2>3. \A t \in B : \E s \in A : f[s] = t
    OBVIOUS
  <2> HIDE DEF A, B, f
  <2>. QED  BY <2>2, <2>3 DEF Bijection, Injection, Surjection, IsInjective
<1>5. IsFiniteSet(B) /\ Cardinality(B) = 2^n
  <2>1. ExistsBijection(A, B)
    BY <1>4 DEF ExistsBijection
  <2> HIDE DEF A, B
  <2>. QED  BY <1>1, <2>1, FS_Bijection
<1>6. Cardinality(SUBSET (1 .. m)) = 2^m
  <2>1. m \in Nat
    OBVIOUS
  <2> HIDE DEF m
  <2>. QED  BY <2>1, PowCounts
<1> HIDE DEF A, B, f
<1>7. Cardinality(A \cup B) = Cardinality(A) + Cardinality(B) - Cardinality({})
  BY <1>1, <1>3, <1>5, FS_Union
<1>8. Cardinality({}) = 0 /\ 2^n \in Nat
  BY FS_EmptySet, PowNat
<1>9. 2^m = 2^n + 2^n
  <2>1. Cardinality(A \cup B) = 2^m
    BY <1>2, <1>6
  <2> DEFINE t == 2^n
             u == 2^m
             c == Cardinality(A \cup B)
             z == Cardinality({})
  <2>2. c = u /\ c = t + t - z /\ z = 0 /\ t \in Nat
    BY <1>1, <1>5, <1>7, <1>8, <2>1
  <2> HIDE DEF t, u, c, z
  <2>3. u = t + t
    BY <2>2
  <2>. QED  BY <2>3 DEF t, u
<1>. QED  BY <1>8, <1>9

LEMMA PowAdd == ASSUME NEW a \in Nat, NEW b \in Nat PROVE 2^(a + b) = 2^a * 2^b
<1> DEFINE T == {n \in Nat : 2^(a + n) = 2^a * 2^n}
<1>1. 2^a \in Nat
  BY PowNat
<1>2. 0 \in T
  <2>1. 2^0 = 1 /\ a + 0 = a
    OBVIOUS
  <2> DEFINE t == 2^a
  <2> HIDE DEF t
  <2>2. t * 1 = t
    BY <1>1 DEF t
  <2>. QED  BY <2>1, <2>2 DEF t
<1>3. ASSUME NEW n \in T PROVE n + 1 \in T
  <2>1. n \in Nat /\ a + n \in Nat /\ a + (n + 1) = (a + n) + 1 /\ 2^(a + n) = 2^a * 2^n
    OBVIOUS
  <2>2. 2^((a + n) + 1) = 2 * 2^(a + n) /\ 2^(n + 1) = 2 * 2^n /\ 2^n \in Nat
    BY <2>1, PowNext, PowNat
  <2>3. 2 * (2^a * 2^n) = 2^a * (2 * 2^n)
    <3> DEFINE s == 2^a
               t == 2^n
    <3>1. s \in Nat /\ t \in Nat
      BY <1>1, <2>2
    <3> HIDE DEF s, t
    <3>2. 2 * (s * t) = s * (2 * t)
      BY <3>1
    <3>. QED  BY <3>2 DEF s, t
  <2>4. 2^(a + (n + 1)) = 2^a * 2^(n + 1)
    BY <2>1, <2>2, <2>3
  <2>. QED  BY <2>1, <2>4
<1>4. T = Nat
  <2>1. T \in SUBSET Nat
    OBVIOUS
  <2> HIDE DEF T
  <2>. QED  BY <1>2, <1>3, <2>1, NatInd
<1>. QED  BY <1>4
-----------------------------------------------------------------------------
(* Sums modulo m.                                                          *)
Sum(x, k, m) == LET s[i \in 0 .. k] == IF i = 0 THEN 0 ELSE (s[i - 1] + x[i]) % m IN s[k]

LEMMA SumNext ==
  ASSUME NEW x, NEW m
  PROVE  Sum(x, 0, m) = 0 /\ \A k \in Nat : Sum(x, k + 1, m) = ((Sum(x, k, m) + x[k + 1]) % m)
<1> DEFINE Def(f, n) == f = [i \in 0 .. n |-> IF i = 0 THEN 0 ELSE ((f[i - 1] + x[i]) % m)]
           T == {n \in Nat : \E f : Def(f, n)}
           F(n) == CHOOSE f : Def(f, n)
<1>1. 0 \in T
  <2>1. Def([k \in 0 .. 0 |-> 0], 0)
    OBVIOUS
  <2>. QED  BY <2>1
<1>2. ASSUME NEW n \in T PROVE n + 1 \in T
  <2>1. PICK f : Def(f, n)
    OBVIOUS
  <2> DEFINE g == [k \in 0 .. (n + 1) |-> IF k = n + 1 THEN ((f[n] + x[n + 1]) % m) ELSE f[k]]
  <2>2. \A k \in 0 .. n : g[k] = f[k]
    OBVIOUS
  <2>3. \A k \in 0 .. (n + 1) : g[k] = IF k = 0 THEN 0 ELSE ((g[k - 1] + x[k]) % m)
    <3> TAKE k \in 0 .. (n + 1)
    <3>1. CASE k = n + 1
      <4>1. g[k - 1] = f[n] /\ k # 0
        BY <3>1
      <4>. QED  BY <4>1, <3>1
    <3>2. CASE k # n + 1
      <4>1. k \in 0 .. n
        BY <3>2
      <4>2. g[k] = f[k]
        BY <4>1, <2>2
      <4>3. k # 0 => g[k - 1] = f[k - 1]
        BY <4>1
      <4>4. f[k] = IF k = 0 THEN 0 ELSE ((f[k - 1] + x[k]) % m)
        BY <4>1, <2>1
      <4>. QED  BY <4>2, <4>3, <4>4
    <3>. QED  BY <3>1, <3>2
  <2>4. Def(g, n + 1)
    BY <2>3
  <2> HIDE DEF g, Def
  <2>5. n + 1 \in Nat
    OBVIOUS
  <2>. QED  BY <2>4, <2>5
<1>3. T = Nat
  <2> HIDE DEF T
  <2>1. T \in SUBSET Nat
    BY DEF T
  <2>. QED  BY <1>1, <1>2, <2>1, NatInd
<1>4. \A n \in Nat : Def(F(n), n)
  <2> TAKE n \in Nat
  <2>1. \E f : Def(f, n)
    BY <1>3
  <2> HIDE DEF Def
  <2>. QED  BY <2>1
<1>5. \A n \in Nat : Sum(x, n, m) = F(n)[n]
  BY DEF Sum
<1> HIDE DEF F, T
<1>6. ASSUME NEW n \in Nat PROVE F(n)[0] = 0 /\ \A i \in 1 .. n : F(n)[i] = ((F(n)[i - 1] + x[i]) % m)
  <2>1. Def(F(n), n)
    BY <1>4
  <2>2. \A i \in 0 .. n : F(n)[i] = IF i = 0 THEN 0 ELSE ((F(n)[i - 1] + x[i]) % m)
    BY <2>1
  <2>. QED  BY <2>2
<1> HIDE DEF Def
<1>7. ASSUME NEW n \in Nat PROVE F(n + 1)[n] = F(n)[n]
  <2> DEFINE S == {i \in Nat : i <= n => F(n + 1)[i] = F(n)[i]}
  <2>1. 0 \in S
    BY <1>6
  <2>2. ASSUME NEW i \in S PROVE i + 1 \in S
    <3> SUFFICES ASSUME i + 1 <= n PROVE F(n + 1)[i + 1] = F(n)[i + 1]
      OBVIOUS
    <3>1. i + 1 \in 1 .. n /\ i + 1 \in 1 .. (n + 1) /\ (i + 1) - 1 = i /\ n + 1 \in Nat /\ i <= n
      OBVIOUS
    <3>2. F(n + 1)[i] = F(n)[i]
      BY <3>1
    <3>. QED  BY <1>6, <3>1, <3>2
  <2>3. S = Nat
    <3>1. S \in SUBSET Nat
      OBVIOUS
    <3> HIDE DEF S
    <3>. QED  BY <2>1, <2>2, <3>1, NatInd
  <2>. QED  BY <2>3
<1>8. ASSUME NEW n \in Nat PROVE Sum(x, n + 1, m) = ((Sum(x, n, m) + x[n + 1]) % m)
  <2>1. n + 1 \in Nat /\ n + 1 \in 1 .. (n + 1) /\ (n + 1) - 1 = n
    OBVIOUS
  <2>2. F(n + 1)[n + 1] = ((F(n + 1)[n] + x[n + 1]) % m)
    BY <1>6, <2>1
  <2>. QED  BY <1>5, <1>7, <2>1, <2>2
<1>. QED  BY <1>5, <1>6, <1>8

-----------------------------------------------------------------------------
(* Recursive functions over 1 .. n that look one step back exist.          *)
LEMMA FlattenExists ==
  ASSUME NEW s, Len(s) \in Nat
  PROVE  \E f : f = [i \in 1 .. Len(s) |-> IF i = 1 THEN s[i] ELSE f[i - 1] \o s[i]]
<1> DEFINE Def(f, n) == f = [i \in 1 .. n |-> IF i = 1 THEN s[i] ELSE f[i - 1] \o s[i]]
           T == {n \in Nat : \E f : Def(f, n)}
<1>1. 0 \in T
  <2>1. Def([i \in 1 .. 0 |-> 0], 0)
    OBVIOUS
  <2>. QED  BY <2>1
<1>2. ASSUME NEW n \in T PROVE n + 1 \in T
  <2>1. PICK f : Def(f, n)
    OBVIOUS
  <2> DEFINE g == [i \in 1 .. (n + 1) |->
                     IF i = n + 1 THEN IF i = 1 THEN s[i] ELSE f[n] \o s[i] ELSE f[i]]
  <2>2. \A i \in 1 .. n : g[i] = f[i]
    OBVIOUS
  <2>3. \A i \in 1 .. (n + 1) : g[i] = IF i = 1 THEN s[i] ELSE g[i - 1] \o s[i]
    <3> TAKE i \in 1 .. (n + 1)
    <3>1. CASE i = n + 1
      <4>1. i # 1 => g[i - 1] = f[n]
        BY <3>1
      <4>. QED  BY <4>1, <3>1
    <3>2. CASE i # n + 1
      <4>1. i \in 1 .. n
        BY <3>2
      <4>2. g[i] = f[i]
        BY <4>1, <2>2
      <4>3. i # 1 => g[i - 1] = f[i - 1]
        BY <4>1
      <4>4. f[i] = IF i = 1 THEN s[i] ELSE f[i - 1] \o s[i]
        BY <4>1, <2>1
      <4>. QED  BY <4>2, <4>3, <4>4
    <3>. QED  BY <3>1, <3>2
  <2>4. Def(g, n + 1)
    BY <2>3
  <2> HIDE DEF g, Def
  <2>5. n + 1 \in Nat
    OBVIOUS
  <2>. QED  BY <2>4, <2>5
<1>3. Len(s) \in T
  <2> HIDE DEF T
  <2>1. T \in SUBSET Nat
    BY DEF T
  <2>. QED  BY <1>1, <1>2, <2>1, NatInd
<1>. QED  BY <1>3

LEMMA FlattenUnfold ==
  ASSUME NEW s, Len(s) \in Nat, Len(s) # 0
  PROVE  \E f : /\ FlattenSeq(s) = f[Len(s)]
                /\ f[1] = s[1]
                /\ \A i \in 1 .. (Len(s) - 1) : f[i + 1] = f[i] \o s[i + 1]
<1> DEFINE F == CHOOSE f : f = [i \in 1 .. Len(s) |-> IF i = 1 THEN s[i] ELSE f[i - 1] \o s[i]]
<1>1. FlattenSeq(s) = F[Len(s)]
  BY DEF FlattenSeq
<1>2. F = [i \in 1 .. Len(s) |-> IF i = 1 THEN s[i] ELSE F[i - 1] \o s[i]]
  BY FlattenExists
<1> HIDE DEF F
<1>3. F[1] = s[1]
  BY <1>2
<1>4. ASSUME NEW i \in 1 .. (Len(s) - 1) PROVE F[i + 1] = F[i] \o s[i + 1]
  <2>1. i + 1 \in 1 .. Len(s) /\ i + 1 # 1 /\ (i + 1) - 1 = i
    OBVIOUS
  <2>. QED  BY <1>2, <2>1
<1>. QED  BY <1>1, <1>3, <1>4

(* FlattenSeq looks at one sequence after the other.                       *)
LEMMA FlattenAppend ==
  ASSUME NEW S, NEW ss \in Seq(Seq(S)), NEW x \in Seq(S)
  PROVE  FlattenSeq(Append(ss, x)) = FlattenSeq(ss) \o x
<1> DEFINE n == Len(ss)
           t == Append(ss, x)
<1>1. /\ n \in Nat /\ Len(t) = n + 1 /\ Len(t) \in Nat /\ Len(t) # 0
      /\ t[n + 1] = x /\ \A i \in 1 .. n : t[i] = ss[i]
  OBVIOUS
<1> HIDE DEF t
<1>2. PICK g : /\ FlattenSeq(t) = g[Len(t)]
               /\ g[1] = t[1]
               /\ \A i \in 1 .. (Len(t) - 1) : g[i + 1] = g[i] \o t[i + 1]
  BY <1>1, FlattenUnfold
<1>3. CASE n = 0
  <2>1. FlattenSeq(t) = x
    BY <1>1, <1>2, <1>3
  <2>2. FlattenSeq(ss) = <<>>
    BY <1>3 DEF FlattenSeq
  <2>. QED  BY <2>1, <2>2 DEF t
<1>4. CASE n # 0
  <2>1. PICK f : /\ FlattenSeq(ss) = f[n]
                 /\ f[1] = ss[1]
                 /\ \A i \in 1 .. (n - 1) : f[i + 1] = f[i] \o ss[i + 1]
    BY <1>1, <1>4, FlattenUnfold
  <2> DEFINE T == {k \in Nat : k + 1 <= n => f[k + 1] = g[k + 1]}
  <2>2. 0 \in T
    BY <1>1, <1>2, <1>4, <2>1
  <2>3. ASSUME NEW k \in T PROVE k + 1 \in T
    <3> SUFFICES ASSUME (k + 1) + 1 <= n PROVE f[(k + 1) + 1] = g[(k + 1) + 1]
      OBVIOUS
    <3>1. k + 1 \in 1 .. (n - 1) /\ k + 1 \in 1 .. (Len(t) - 1) /\ (k + 1) + 1 \in 1 .. n
      BY <1>1
    <3>2. f[k + 1] = g[k + 1]
      BY <3>1
    <3>3. f[(k + 1) + 1] = f[k + 1] \o ss[(k + 1) + 1] /\ g[(k + 1) + 1] = g[k + 1] \o t[(k + 1) + 1]
      BY <1>2, <2>1, <3>1
    <3>. QED  BY <1>1, <3>1, <3>2, <3>3
  <2> HIDE DEF T
  <2>4. T = Nat
    <3>1. T \in SUBSET Nat
      BY DEF T
    <3>. QED  BY <2>2, <2>3, <3>1, NatInd
  <2>5. n - 1 \in Nat /\ (n - 1) + 1 = n
    BY <1>1, <1>4
  <2>6. f[n] = g[n]
    <3>1. n - 1 \in T
      BY <2>4, <2>5
    <3>. QED  BY <2>5, <3>1 DEF T
  <2>7. g[n + 1] = g[n] \o t[n + 1]
    <3>1. n \in 1 .. (Len(t) - 1)
      BY <1>1, <1>4
    <3>. QED  BY <1>2, <3>1
  <2>. QED  BY <1>1, <1>2, <2>1, <2>6, <2>7 DEF t
<1>. QED  BY <1>3, <1>4

LEMMA FlattenEmpty == FlattenSeq(<<>>) = <<>>
BY DEF FlattenSeq

LEMMA FlattenTyped ==
  ASSUME NEW S, NEW ss \in Seq(Seq(S))
  PROVE  FlattenSeq(ss) \in Seq(S)
<1> DEFINE T == {n \in Nat : \A tt \in Seq(Seq(S)) : Len(tt) = n => FlattenSeq(tt) \in Seq(S)}
<1>1. 0 \in T
  <2>1. ASSUME NEW tt \in Seq(Seq(S)), Len(tt) = 0 PROVE FlattenSeq(tt) \in Seq(S)
    <3>1. tt = <<>> /\ <<>> \in Seq(S)
      BY <2>1
    <3>2. FlattenSeq(tt) = <<>>
      BY <3>1, FlattenEmpty, Zenon
    <3>. QED  BY <3>1, <3>2
  <2>. QED  BY <2>1
<1>2. ASSUME NEW n \in T PROVE n + 1 \in T
  <2>1. ASSUME NEW tt \in Seq(Seq(S)), Len(tt) = n + 1 PROVE FlattenSeq(tt) \in Seq(S)
    <3> DEFINE f == SubSeq(tt, 1, n)
    <3>1. /\ f \in Seq(Seq(S)) /\ Len(f) = n /\ tt[n + 1] \in Seq(S)
          /\ tt = Append(f, tt[n + 1])
      BY <2>1
    <3> HIDE DEF f
    <3>2. FlattenSeq(tt) = FlattenSeq(f) \o tt[n + 1]
      BY <3>1, FlattenAppend
    <3>3. FlattenSeq(f) \in Seq(S)
      BY <3>1
    <3>. QED  BY <3>1, <3>2, <3>3
  <2>. QED  BY <2>1
<1> HIDE DEF T
<1>3. T = Nat
  <2>1. T \in SUBSET Nat
    BY DEF T
  <2>. QED  BY <1>1, <1>2, <2>1, NatInd
<1>4. Len(ss) \in T
  BY <1>3
<1>. QED  BY <1>4 DEF T

LEMMA FlattenConcat ==
  ASSUME NEW S, NEW ss \in Seq(Seq(S)), NEW rr \in Seq(Seq(S))
  PROVE  FlattenSeq(ss \o rr) = FlattenSeq(ss) \o FlattenSeq(rr)
<1> DEFINE T == {n \in Nat : \A tt \in Seq(Seq(S)) :
                   Len(tt) = n => FlattenSeq(ss \o tt) = FlattenSeq(ss) \o FlattenSeq(tt)}
<1>0. FlattenSeq(ss) \in Seq(S)
  BY FlattenTyped
<1>1. 0 \in T
  <2>1. ASSUME NEW tt \in Seq(Seq(S)), Len(tt) = 0
        PROVE  FlattenSeq(ss \o tt) = FlattenSeq(ss) \o FlattenSeq(tt)
    <3>1. tt = <<>> /\ ss \o tt = ss
      BY <2>1
    <3>. QED  BY <1>0, <3>1, FlattenEmpty
  <2>. QED  BY <2>1
<1>2. ASSUME NEW n \in T PROVE n + 1 \in T
  <2>1. ASSUME NEW tt \in Seq(Seq(S)), Len(tt) = n + 1
        PROVE  FlattenSeq(ss \o tt) = FlattenSeq(ss) \o FlattenSeq(tt)
    <3> DEFINE f == SubSeq(tt, 1, n)
               x == tt[n + 1]
    <3>1. f \in Seq(Seq(S)) /\ Len(f) = n /\ x \in Seq(S)
      BY <2>1
    <3>2. tt = Append(f, x)
      BY <2>1
    <3> HIDE DEF f, x
    <3>6. ss \o tt = Append(ss \o f, x) /\ ss \o f \in Seq(Seq(S))
      BY SMTT(30), <3>1, <3>2
    <3>3. FlattenSeq(ss \o tt) = FlattenSeq(ss \o f) \o x /\ FlattenSeq(tt) = FlattenSeq(f) \o x
      BY ZenonT(40), <3>1, <3>2, <3>6, FlattenAppend
    <3>4. FlattenSeq(ss \o f) = FlattenSeq(ss) \o FlattenSeq(f)
      BY <3>1
    <3>5. FlattenSeq(f) \in Seq(S)
      BY <3>1, FlattenTyped
    <3>. QED  BY SMTT(30), <1>0, <3>1, <3>3, <3>4, <3>5
  <2>. QED  BY <2>1
<1> HIDE DEF T
<1>3. T = Nat
  <2>1. T \in SUBSET Nat
    BY DEF T
  <2>. QED  BY <1>1, <1>2, <2>1, NatInd
<1>4. Len(rr) \in T
  BY <1>3
<1>. QED  BY <1>4 DEF T

LEMMA FlattenOne ==
  ASSUME NEW S, NEW x \in Seq(S)
  PROVE  FlattenSeq(<<x>>) = x
<1>1. <<x>> = Append(<<>>, x) /\ <<>> \in Seq(Seq(S)) /\ <<>> \o x = x
  OBVIOUS
<1>. QED  BY <1>1, FlattenAppend, FlattenEmpty
-----------------------------------------------------------------------------
(* Every element of s is replaced by a sequence, the empty one to drop it. *)
FlatMap(f, s)   == FlattenSeq([i \in 1 .. Len(s) |-> f[s[i]]])
Splits(f, A, B) == f \in [A -> Seq(B)]

LEMMA FlatMapTyped ==
  ASSUME NEW A, NEW B, NEW f, Splits(f, A, B), NEW s \in Seq(A)
  PROVE  FlatMap(f, s) \in Seq(B)
<1>1. [i \in 1 .. Len(s) |-> f[s[i]]] \in Seq(Seq(B))
  BY DEF Splits
<1>. QED  BY <1>1, FlattenTyped DEF FlatMap

LEMMA FlatMapEmpty == ASSUME NEW f PROVE FlatMap(f, <<>>) = <<>>
<1>1. [i \in 1 .. Len(<<>>) |-> f[<<>>[i]]] = <<>>
  OBVIOUS
<1>. QED  BY <1>1, FlattenEmpty DEF FlatMap

LEMMA FlatMapOne ==
  ASSUME NEW A, NEW B, NEW f, Splits(f, A, B), NEW a \in A
  PROVE  FlatMap(f, <<a>>) = f[a]
<1>1. [i \in 1 .. Len(<<a>>) |-> f[<<a>>[i]]] = <<f[a]>> /\ f[a] \in Seq(B)
  BY DEF Splits
<1>. QED  BY <1>1, FlattenOne DEF FlatMap

LEMMA FlatMapConcat ==
  ASSUME NEW A, NEW B, NEW f, Splits(f, A, B)
  PROVE  \A s, t \in Seq(A) : FlatMap(f, s \o t) = FlatMap(f, s) \o FlatMap(f, t)
<1> TAKE s, t \in Seq(A)
<1> DEFINE F(r) == [i \in 1 .. Len(r) |-> f[r[i]]]
<1>1. F(s) \in Seq(Seq(B)) /\ F(t) \in Seq(Seq(B))
  BY DEF Splits
<1>2. F(s \o t) = F(s) \o F(t)
  OBVIOUS
<1> HIDE DEF F
<1>3. FlattenSeq(F(s \o t)) = FlattenSeq(F(s)) \o FlattenSeq(F(t))
  BY <1>1, <1>2, FlattenConcat
<1>. QED  BY <1>3 DEF FlatMap, F

LEMMA FlatMapHead ==
  ASSUME NEW A, NEW B, NEW f, Splits(f, A, B), NEW s \in Seq(A), s # <<>>
  PROVE  FlatMap(f, s) = f[Head(s)] \o FlatMap(f, Tail(s))
<1> DEFINE h == Head(s)
           t == <<h>>
           r == Tail(s)
<1>0. r \in Seq(A) /\ h \in A /\ t \in Seq(A)
  OBVIOUS
<1>1. s = t \o r
  OBVIOUS
<1>2. FlatMap(f, t) = f[h]
  BY <1>0, FlatMapOne
<1> HIDE DEF h, t, r
<1>3. FlatMap(f, t \o r) = FlatMap(f, t) \o FlatMap(f, r)
  BY <1>0, FlatMapConcat
<1>4. FlatMap(f, s) = f[h] \o FlatMap(f, r)
  BY <1>1, <1>2, <1>3
<1>. QED  BY <1>4 DEF h, r

(* Induction along a sequence, for facts that can be told from a set of    *)
(* sequences.                                                              *)
LEMMA FrontAndLast ==
  ASSUME NEW A, NEW n \in Nat, NEW s \in Seq(A), Len(s) = n + 1
  PROVE  /\ SubSeq(s, 1, n) \in Seq(A) /\ Len(SubSeq(s, 1, n)) = n /\ s[n + 1] \in A
         /\ s = Append(SubSeq(s, 1, n), s[n + 1])
OBVIOUS

LEMMA SeqInd ==
  ASSUME NEW A, NEW T \in SUBSET Seq(A), <<>> \in T,
         \A s \in T : \A a \in A : Append(s, a) \in T
  PROVE  T = Seq(A)
<1> DEFINE N == {n \in Nat : \A s \in Seq(A) : Len(s) = n => s \in T}
<1>1. 0 \in N
  OBVIOUS
<1>2. ASSUME NEW n \in N PROVE n + 1 \in N
  <2>1. ASSUME NEW s \in Seq(A), Len(s) = n + 1 PROVE s \in T
    <3> DEFINE f == SubSeq(s, 1, n)
    <3>0. n \in Nat /\ Len(s) = n + 1
      BY <2>1
    <3>1. f \in Seq(A) /\ Len(f) = n /\ s[n + 1] \in A /\ s = Append(f, s[n + 1])
      BY <3>0, FrontAndLast
    <3> HIDE DEF f
    <3>3. f \in T
      BY <3>1
    <3>. QED  BY <3>1, <3>3
  <2>. QED  BY <2>1
<1> HIDE DEF N
<1>3. N = Nat
  <2>1. N \in SUBSET Nat
    BY DEF N
  <2>. QED  BY <1>1, <1>2, <2>1, NatInd
<1>4. ASSUME NEW s \in Seq(A) PROVE s \in T
  <2>1. Len(s) \in N
    BY <1>3
  <2>. QED  BY <2>1 DEF N
<1>. QED  BY <1>4

LEMMA FlatMapAppend ==
  ASSUME NEW A, NEW B, NEW f, Splits(f, A, B), NEW s \in Seq(A), NEW a \in A
  PROVE  FlatMap(f, Append(s, a)) = FlatMap(f, s) \o f[a]
<1> DEFINE t == <<a>>
<1>0. t \in Seq(A)
  OBVIOUS
<1>1. Append(s, a) = s \o t
  OBVIOUS
<1>2. FlatMap(f, t) = f[a]
  BY FlatMapOne
<1> HIDE DEF t
<1>3. FlatMap(f, s \o t) = FlatMap(f, s) \o FlatMap(f, t)
  BY <1>0, FlatMapConcat
<1>. QED  BY <1>1, <1>2, <1>3

(* Nothing is left of elements that are all dropped, and elements that are *)
(* all kept stay as they are.                                              *)
LEMMA FlatMapNone ==
  ASSUME NEW A, NEW B, NEW f, Splits(f, A, B), NEW s \in Seq(A),
         \A i \in 1 .. Len(s) : f[s[i]] = <<>>
  PROVE  FlatMap(f, s) = <<>>
<1> DEFINE C == {a \in A : f[a] = <<>>}
           T == {r \in Seq(C) : FlatMap(f, r) = <<>>}
<1>1. s \in Seq(C)
  OBVIOUS
<1>2. <<>> \in T
  BY FlatMapEmpty
<1>3. ASSUME NEW r \in T, NEW a \in C PROVE Append(r, a) \in T
  <2>1. r \in Seq(A) /\ a \in A /\ f[a] = <<>> /\ Append(r, a) \in Seq(C)
    OBVIOUS
  <2>0. r \in Seq(A) /\ a \in A
    BY <2>1
  <2> HIDE DEF C, T
  <2>2. FlatMap(f, Append(r, a)) = FlatMap(f, r) \o f[a]
    BY <2>0, FlatMapAppend
  <2>3. <<>> \o <<>> = <<>>
    OBVIOUS
  <2>4. FlatMap(f, r) = <<>>
    BY DEF T
  <2>. QED  BY <2>1, <2>2, <2>3, <2>4 DEF T
<1> HIDE DEF C, T
<1>4. T = Seq(C)
  <2>1. T \in SUBSET Seq(C)
    BY DEF T
  <2>. QED  BY <1>2, <1>3, <2>1, SeqInd
<1>. QED  BY <1>1, <1>4 DEF T

LEMMA FlatMapSame ==
  ASSUME NEW A, NEW f, Splits(f, A, A), NEW s \in Seq(A),
         \A i \in 1 .. Len(s) : f[s[i]] = <<s[i]>>
  PROVE  FlatMap(f, s) = s
<1> DEFINE C == {a \in A : f[a] = <<a>>}
           T == {r \in Seq(C) : FlatMap(f, r) = r}
<1>1. s \in Seq(C)
  <2>1. \A i \in 1 .. Len(s) : s[i] \in C
    BY SMTT(30)
  <2> HIDE DEF C
  <2>. QED  BY <2>1
<1>2. <<>> \in T
  BY FlatMapEmpty
<1>3. ASSUME NEW r \in T, NEW a \in C PROVE Append(r, a) \in T
  <2>1. r \in Seq(A) /\ a \in A /\ f[a] = <<a>> /\ Append(r, a) \in Seq(C)
    OBVIOUS
  <2>2. FlatMap(f, Append(r, a)) = FlatMap(f, r) \o f[a]
    <3>1. r \in Seq(A) /\ a \in A
      BY <2>1
    <3> HIDE DEF C, T
    <3>. QED  BY <3>1, FlatMapAppend
  <2>3. r \o <<a>> = Append(r, a)
    BY <2>1
  <2>. QED  BY <2>1, <2>2, <2>3
<1> HIDE DEF C, T
<1>4. T = Seq(C)
  <2>1. T \in SUBSET Seq(C)
    BY DEF T
  <2>. QED  BY <1>2, <1>3, <2>1, SeqInd
<1>. QED  BY <1>1, <1>4 DEF T

(* Sequences may be flattened before or after.                             *)
LEMMA FlatMapFlatten ==
  ASSUME NEW A, NEW B, NEW f, Splits(f, A, B), NEW ss \in Seq(Seq(A))
  PROVE  FlatMap(f, FlattenSeq(ss)) = FlattenSeq([k \in 1 .. Len(ss) |-> FlatMap(f, ss[k])])
<1> DEFINE G(tt) == [k \in 1 .. Len(tt) |-> FlatMap(f, tt[k])]
           T == {tt \in Seq(Seq(A)) : FlatMap(f, FlattenSeq(tt)) = FlattenSeq(G(tt))}
<1>1. <<>> \in T
  <2>1. G(<<>>) = <<>>
    OBVIOUS
  <2> HIDE DEF G
  <2>. QED  BY <2>1, FlatMapEmpty, FlattenEmpty
<1>2. ASSUME NEW tt \in T, NEW x \in Seq(A) PROVE Append(tt, x) \in T
  <2>1. tt \in Seq(Seq(A)) /\ FlatMap(f, FlattenSeq(tt)) = FlattenSeq(G(tt))
    OBVIOUS
  <2>2. \A k \in 1 .. Len(tt) : tt[k] \in Seq(A)
    BY <2>1
  <2>3. \A k \in 1 .. Len(tt) : FlatMap(f, tt[k]) \in Seq(B)
    BY <2>2, FlatMapTyped
  <2>4. G(tt) \in Seq(Seq(B)) /\ FlatMap(f, x) \in Seq(B)
    <3>1. FlatMap(f, x) \in Seq(B)
      BY FlatMapTyped
    <3>2. Len(tt) \in Nat
      BY <2>1
    <3>. QED  BY <2>3, <3>1, <3>2
  <2>5. G(Append(tt, x)) = Append(G(tt), FlatMap(f, x))
    BY <2>1
  <2>6. Append(tt, x) \in Seq(Seq(A)) /\ FlattenSeq(tt) \in Seq(A)
    BY <2>1, FlattenTyped
  <2> HIDE DEF G, T
  <2>7. FlattenSeq(Append(tt, x)) = FlattenSeq(tt) \o x
    BY <2>1, FlattenAppend
  <2>8. FlatMap(f, FlattenSeq(tt) \o x) = FlatMap(f, FlattenSeq(tt)) \o FlatMap(f, x)
    <3> DEFINE u == FlattenSeq(tt)
    <3>1. u \in Seq(A)
      BY <2>6
    <3> HIDE DEF u, T, G
    <3>2. FlatMap(f, u \o x) = FlatMap(f, u) \o FlatMap(f, x)
      BY <3>1, FlatMapConcat
    <3>. QED  BY <3>2 DEF u
  <2>9. FlattenSeq(G(Append(tt, x))) = FlattenSeq(G(tt)) \o FlatMap(f, x)
    BY <2>4, <2>5, FlattenAppend
  <2>. QED  BY <2>1, <2>6, <2>7, <2>8, <2>9 DEF T
<1> HIDE DEF T
<1>3. T = Seq(Seq(A))
  <2>1. T \in SUBSET Seq(Seq(A))
    BY DEF T
  <2>. QED  BY <1>1, <1>2, <2>1, SeqInd
<1>. QED  BY <1>3 DEF T

LEMMA SplitAt ==
  ASSUME NEW A, NEW s \in Seq(A), NEW k \in 1 .. Len(s)
  PROVE  s = (SubSeq(s, 1, k - 1) \o <<s[k]>>) \o SubSeq(s, k + 1, Len(s))
<1>1. s = SubSeq(s, 1, k) \o SubSeq(s, k + 1, Len(s))
  OBVIOUS
<1>2. SubSeq(s, 1, k) = SubSeq(s, 1, k - 1) \o <<s[k]>>
  <2>1. \A n \in Nat : n + 1 = k => SubSeq(s, 1, n + 1) = SubSeq(s, 1, n) \o <<s[n + 1]>>
    OBVIOUS
  <2>2. k - 1 \in Nat /\ (k - 1) + 1 = k
    OBVIOUS
  <2>. QED  BY <2>1, <2>2
<1>. QED  BY <1>1, <1>2

(* One sequence that is not empty among empty ones.                        *)
LEMMA FlattenSingle ==
  ASSUME NEW S, NEW ss \in Seq(Seq(S)), NEW k \in 1 .. Len(ss),
         \A i \in 1 .. Len(ss) : i # k => ss[i] = <<>>
  PROVE  FlattenSeq(ss) = ss[k]
<1> DEFINE f == [x \in Seq(S) |-> x]
           a == SubSeq(ss, 1, k - 1)
           b == SubSeq(ss, k + 1, Len(ss))
           m == <<ss[k]>>
<1>1. Splits(f, Seq(S), S)
  BY DEF Splits
<1>2. ASSUME NEW r \in Seq(Seq(S)) PROVE FlatMap(f, r) = FlattenSeq(r)
  <2>1. [i \in 1 .. Len(r) |-> f[r[i]]] = r
    OBVIOUS
  <2>. QED  BY <2>1 DEF FlatMap
<1>3. a \in Seq(Seq(S)) /\ b \in Seq(Seq(S)) /\ m \in Seq(Seq(S)) /\ ss[k] \in Seq(S)
  OBVIOUS
<1>4. ss = (a \o m) \o b
  BY SplitAt
<1>5. (\A i \in 1 .. Len(a) : a[i] = <<>>) /\ (\A i \in 1 .. Len(b) : b[i] = <<>>)
  OBVIOUS
<1>6. f[<<>>] = <<>>
  OBVIOUS
<1>7. FlatMap(f, m) = ss[k]
  <2>1. FlattenSeq(m) = ss[k]
    BY <1>3, FlattenOne
  <2>. QED  BY <1>2, <1>3, <2>1
<1>8. (\A i \in 1 .. Len(a) : f[a[i]] = <<>>) /\ (\A i \in 1 .. Len(b) : f[b[i]] = <<>>)
  <2> HIDE DEF a, b, f
  <2>. QED  BY <1>5, <1>6
<1> HIDE DEF f, a, b, m
<1>9. FlatMap(f, a) = <<>> /\ FlatMap(f, b) = <<>>
  BY <1>1, <1>3, <1>8, FlatMapNone
<1>10. FlattenSeq(a \o m) = FlattenSeq(a) \o FlattenSeq(m)
  BY <1>3, FlattenConcat
<1>11. FlattenSeq((a \o m) \o b) = FlattenSeq(a \o m) \o FlattenSeq(b)
  <2>1. a \o m \in Seq(Seq(S))
    BY <1>3
  <2>. QED  BY <1>3, <2>1, FlattenConcat
<1>12. FlattenSeq(a) = <<>> /\ FlattenSeq(b) = <<>> /\ FlattenSeq(m) = ss[k]
  BY <1>2, <1>3, <1>7, <1>9
<1>13. <<>> \o ss[k] = ss[k] /\ ss[k] \o <<>> = ss[k]
  BY <1>3
<1>. QED  BY <1>4, <1>10, <1>11, <1>12, <1>13

(* Each of the sequences lies in the flat one as a block, and the blocks   *)
(* cover it.                                                               *)
Block(F, o, s) == /\ o \in Nat /\ o + Len(s) <= Len(F)
                  /\ \A m \in 1 .. Len(s) : F[o + m] = s[m]

LEMMA FlattenBlocks ==
  ASSUME NEW S, NEW ss \in Seq(Seq(S))
  PROVE  /\ \A k \in 1 .. Len(ss) : \E o : Block(FlattenSeq(ss), o, ss[k])
         /\ \A i \in 1 .. Len(FlattenSeq(ss)) : \E k \in 1 .. Len(ss) :
              \E o : Block(FlattenSeq(ss), o, ss[k]) /\ (i - o) \in 1 .. Len(ss[k])
<1> DEFINE P(tt) == \A k \in 1 .. Len(tt) : \E o : Block(FlattenSeq(tt), o, tt[k])
           Q(tt) == \A i \in 1 .. Len(FlattenSeq(tt)) : \E k \in 1 .. Len(tt) :
                      \E o : Block(FlattenSeq(tt), o, tt[k]) /\ (i - o) \in 1 .. Len(tt[k])
           T == {tt \in Seq(Seq(S)) : P(tt) /\ Q(tt)}
<1>1. <<>> \in T
  <2>1. FlattenSeq(<<>>) = <<>> /\ Len(<<>>) = 0 /\ <<>> \in Seq(Seq(S))
    BY FlattenEmpty
  <2>2. P(<<>>) /\ Q(<<>>)
    BY <2>1
  <2> HIDE DEF P, Q
  <2>. QED  BY <2>1, <2>2
<1>2. ASSUME NEW tt \in Seq(Seq(S)), P(tt), Q(tt), NEW x \in Seq(S)
      PROVE  P(Append(tt, x)) /\ Q(Append(tt, x))
  <2> DEFINE F == FlattenSeq(tt)
             u == Append(tt, x)
             G == FlattenSeq(u)
             n == Len(tt)
  <2>1. /\ n \in Nat /\ Len(u) = n + 1 /\ u[n + 1] = x
        /\ \A k \in 1 .. n : u[k] = tt[k] /\ tt[k] \in Seq(S) /\ Len(tt[k]) \in Nat
    BY <1>2
  <2>2. G = F \o x
    BY <1>2, FlattenAppend
  <2>3. F \in Seq(S)
    BY <1>2, FlattenTyped
  <2> HIDE DEF F, u, G, n
  <2>4. /\ Len(F) \in Nat /\ Len(x) \in Nat /\ Len(G) = Len(F) + Len(x)
        /\ \A i \in 1 .. Len(F) : G[i] = F[i]
        /\ \A i \in 1 .. Len(x) : G[Len(F) + i] = x[i]
    BY <2>2, <2>3
  <2>5. ASSUME NEW k \in 1 .. n, NEW o, Block(F, o, tt[k]) PROVE Block(G, o, u[k])
    <3>1. /\ u[k] = tt[k] /\ Len(tt[k]) \in Nat /\ o \in Nat /\ o + Len(tt[k]) <= Len(F)
          /\ \A m \in 1 .. Len(tt[k]) : F[o + m] = tt[k][m]
      BY <2>1, <2>5 DEF Block
    <3>2. ASSUME NEW m \in 1 .. Len(tt[k]) PROVE G[o + m] = tt[k][m]
      <4>1. o + m \in 1 .. Len(F)
        BY <2>4, <3>1
      <4>. QED  BY <2>4, <3>1, <4>1
    <3>. QED  BY <2>4, <3>1, <3>2 DEF Block
  <2>6. Block(G, Len(F), u[n + 1])
    BY <2>1, <2>4 DEF Block
  <2>7. P(u)
    <3> SUFFICES ASSUME NEW k \in 1 .. (n + 1) PROVE \E o : Block(G, o, u[k])
      BY <2>1 DEF G
    <3>1. CASE k = n + 1
      BY <2>6, <3>1
    <3>2. CASE k # n + 1
      <4>1. k \in 1 .. n
        BY <2>1, <3>2
      <4>2. PICK o : Block(F, o, tt[k])
        BY <1>2, <4>1 DEF F, n
      <4>. QED  BY <2>5, <4>1, <4>2
    <3>. QED  BY <3>1, <3>2
  <2>8. Q(u)
    <3> SUFFICES ASSUME NEW i \in 1 .. Len(G)
                 PROVE  \E k \in 1 .. (n + 1) : \E o : Block(G, o, u[k]) /\ (i - o) \in 1 .. Len(u[k])
      BY <2>1 DEF G
    <3>1. CASE i <= Len(F)
      <4>1. i \in 1 .. Len(F)
        BY <2>4, <3>1
      <4>2. PICK k \in 1 .. n : \E o : Block(F, o, tt[k]) /\ (i - o) \in 1 .. Len(tt[k])
        BY <1>2, <4>1 DEF F, n
      <4>3. PICK o : Block(F, o, tt[k]) /\ (i - o) \in 1 .. Len(tt[k])
        BY <4>2
      <4>4. Block(G, o, u[k]) /\ (i - o) \in 1 .. Len(u[k])
        BY <2>1, <2>5, <4>3
      <4>5. k \in 1 .. (n + 1)
        BY <2>1
      <4>. QED  BY <4>4, <4>5
    <3>2. CASE i > Len(F)
      <4>1. (i - Len(F)) \in 1 .. Len(x) /\ n + 1 \in 1 .. (n + 1)
        BY <2>1, <2>4, <3>2
      <4>2. (i - Len(F)) \in 1 .. Len(u[n + 1])
        BY <2>1, <4>1
      <4>. QED  BY <2>6, <4>1, <4>2
    <3>3. i <= Len(F) \/ i > Len(F)
      BY <2>4
    <3>. QED  BY <3>1, <3>2, <3>3, Zenon
  <2>. QED  BY <2>7, <2>8 DEF u
<1>3. ASSUME NEW tt \in T, NEW x \in Seq(S) PROVE Append(tt, x) \in T
  <2>1. tt \in Seq(Seq(S)) /\ P(tt) /\ Q(tt)
    OBVIOUS
  <2>2. Append(tt, x) \in Seq(Seq(S))
    BY <2>1
  <2> HIDE DEF P, Q, T
  <2>3. P(Append(tt, x)) /\ Q(Append(tt, x))
    BY <1>2, <2>1
  <2>. QED  BY <2>2, <2>3 DEF T
<1> HIDE DEF T
<1>4. T = Seq(Seq(S))
  <2>1. T \in SUBSET Seq(Seq(S))
    BY DEF T
  <2>. QED  BY <1>1, <1>3, <2>1, SeqInd
<1>. QED  BY <1>4 DEF T

(* Short tuples as sequences.                                              *)
LEMMA AppendAsConcat ==
  ASSUME NEW A, NEW s \in Seq(A), NEW a \in A
  PROVE  Append(s, a) = s \o <<a>>
OBVIOUS

LEMMA Tuples ==
  ASSUME NEW A, NEW a \in A, NEW b \in A, NEW c \in A
  PROVE  /\ <<a, b>> \in Seq(A) /\ Len(<<a, b>>) = 2 /\ <<a, b>>[1] = a /\ <<a, b>>[2] = b
         /\ <<a, b, c>> \in Seq(A) /\ Len(<<a, b, c>>) = 3
         /\ <<a, b, c>>[1] = a /\ <<a, b, c>>[2] = b /\ <<a, b, c>>[3] = c
OBVIOUS

(* The elements of s \o t.                                                 *)
LEMMA ConcatFacts ==
  ASSUME NEW A, NEW s \in Seq(A), NEW t \in Seq(A)
  PROVE  /\ s \o t \in Seq(A)
         /\ Len(s) \in Nat /\ Len(t) \in Nat /\ Len(s \o t) = Len(s) + Len(t)
         /\ \A i \in 1 .. Len(s) : i \in 1 .. Len(s \o t) /\ (s \o t)[i] = s[i]
         /\ \A i \in 1 .. Len(t) : Len(s) + i \in 1 .. Len(s \o t) /\ (s \o t)[Len(s) + i] = t[i]
         /\ \A i \in 1 .. Len(s \o t) : i \in 1 .. Len(s) \/ \E k \in 1 .. Len(t) : i = Len(s) + k
<1>1. /\ s \o t \in Seq(A)
      /\ Len(s) \in Nat /\ Len(t) \in Nat /\ Len(s \o t) = Len(s) + Len(t)
  OBVIOUS
<1>2. \A i \in 1 .. Len(s) : i \in 1 .. Len(s \o t) /\ (s \o t)[i] = s[i]
  OBVIOUS
<1>3. \A i \in 1 .. Len(t) : Len(s) + i \in 1 .. Len(s \o t) /\ (s \o t)[Len(s) + i] = t[i]
  OBVIOUS
<1> DEFINE m == Len(s)
           n == Len(t)
<1>4. \A l \in Nat : l = m + n => \A i \in 1 .. l : i \in 1 .. m \/ \E k \in 1 .. n : i = m + k
  <2>1. m \in Nat /\ n \in Nat
    OBVIOUS
  <2> HIDE DEF m, n
  <2>2. ASSUME NEW i \in 1 .. (m + n), ~ (i \in 1 .. m) PROVE \E k \in 1 .. n : i = m + k
    <3>1. i - m \in 1 .. n /\ i = m + (i - m)
      BY <2>1, <2>2
    <3>. QED  BY <3>1
  <2>. QED  BY <2>2
<1>. QED  BY <1>1, <1>2, <1>3, <1>4

LEMMA FunIsSeq ==
  ASSUME NEW S, NEW n \in Nat, NEW f \in [1 .. n -> S]
  PROVE  f \in Seq(S) /\ Len(f) = n
OBVIOUS

(* A function from 1 .. n to itself that takes no value twice takes all.   *)
LEMMA InjectionOnto ==
  ASSUME NEW n \in Nat, NEW f \in [1 .. n -> 1 .. n],
         \A i, j \in 1 .. n : f[i] = f[j] => i = j
  PROVE  \A k \in 1 .. n : \E j \in 1 .. n : f[j] = k
<1> DEFINE S == 1 .. n
           R == {f[j] : j \in S}
<1>2. IsFiniteSet(S) /\ Cardinality(S) = n
  <2>1. n \in Int
    OBVIOUS
  <2>. QED  BY <2>1, FS_Interval
<1>3. R \subseteq S
  OBVIOUS
<1>4. f \in [S -> S] /\ \A i, j \in S : f[i] = f[j] => i = j
  OBVIOUS
<1> HIDE DEF S
<1>5. f \in Bijection(S, R)
  <2>1. f \in [S -> R]
    BY <1>4
  <2>. QED  BY <1>4, <2>1 DEF Bijection, Injection, Surjection, IsInjective
<1>6. ExistsBijection(S, R)
  BY <1>5 DEF ExistsBijection
<1> HIDE DEF R
<1>7. Cardinality(R) = Cardinality(S)
  BY <1>2, <1>6, FS_Bijection
<1>8. R = S
  BY <1>2, <1>3, <1>7, FS_Subset
<1>. QED  BY <1>8 DEF R, S
=============================================================================
