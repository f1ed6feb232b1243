------------------------------- MODULE Words -------------------------------
(***************************************************************************)
(* The machine words all three parties compute with: Ring is uint32_t      *)
(* (src/src/utils/types.h), so +, -, and * wrap modulo 2^32, and the same  *)
(* words carry Boolean shares, combined with ^ and &.                      *)
(*                                                                         *)
(* The width is a parameter (Modulus stands for 2^32).  The bitwise        *)
(* operators are parameters too, with the laws of a Boolean ring as the    *)
(* only assumption about them; the model-checking modules give them the    *)
(* real bitwise operators.                                                 *)
(***************************************************************************)
EXTENDS Integers

CONSTANTS Modulus,      \* number of values of a Ring word
          XorW(_, _),   \* x ^ y
          AndW(_, _)    \* x & y

ASSUME ModulusAssumption == Modulus \in Nat /\ Modulus > 1

Ring == 0 .. (Modulus - 1)

(* Casting a wider unsigned word to Ring drops the high bits.              *)
Trunc(w) == w % Modulus

Plus(x, y)  == (x + y) % Modulus
Minus(x, y) == (x - y) % Modulus
Times(x, y) == (x * y) % Modulus

ASSUME XorAssumption ==
  \A x, y \in Ring :
    /\ XorW(x, y) \in Ring
    /\ XorW(x, y) = XorW(y, x)
    /\ XorW(x, 0) = x
    /\ XorW(x, x) = 0
    /\ \A z \in Ring : XorW(x, XorW(y, z)) = XorW(XorW(x, y), z)

ASSUME AndAssumption ==
  \A x, y \in Ring :
    /\ AndW(x, y) \in Ring
    /\ AndW(x, y) = AndW(y, x)
    /\ \A z \in Ring :
         AndW(x, XorW(y, z)) = XorW(AndW(x, y), AndW(x, z))

(* The index range of a C++ vector of n elements, and the "empty vector".  *)
Idx(n) == 0 .. (n - 1)
NoVec  == [j \in {} |-> j]

(* The inverse of a permutation of Idx(n).                                 *)
InverseOf(f, n) == CHOOSE g \in [Idx(n) -> Idx(n)] : \A j \in Idx(n) : g[f[j]] = j

IsPermutation(f, n) == /\ f \in [Idx(n) -> Idx(n)]
                       /\ \A i, j \in Idx(n) : f[i] = f[j] => i = j
=============================================================================
