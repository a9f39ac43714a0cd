-------------------------------- MODULE Field --------------------------------
(***************************************************************************)
(* The field elements of libsecp256k1 as its callers see them: field.h's    *)
(* contract.  A secp256k1_fe is a value modulo P together with the two      *)
(* fields that exist in VERIFY builds only, the magnitude m (how far the    *)
(* limbs may exceed their width) and the flag n (normalized).  The limbs    *)
(* themselves are in Field10x26, which is checked against this module.      *)
(*                                                                         *)
(* The build has NDEBUG and no VERIFY: an operation outside its contract    *)
(* goes on with a wrong value.  Here its result gets the magnitude Broken,  *)
(* which every later operation keeps, and a predicate outside its contract  *)
(* gives the wrong answer.                                                  *)
(***************************************************************************)
EXTENDS Integers, Sequences

CONSTANTS P,             \* the field's characteristic
          MaxMagnitude,  \* 32: the largest magnitude a limb has room for
          MulMagnitude   \* 8: the largest magnitude fe_mul and fe_sqr take

ASSUME FieldAssumption ==
    /\ P \in Nat /\ P > 3
    /\ P % 4 = 3
    /\ MaxMagnitude \in Nat /\ MulMagnitude \in 1..MaxMagnitude

Values == 0..P-1
Broken == MaxMagnitude + 1
Larger(i, j) == IF i > j THEN i ELSE j
Cap(m) == IF m > MaxMagnitude THEN Broken ELSE m
If(ok, m) == IF ok THEN Cap(m) ELSE Broken

Fe == [v: Values, m: 0..Broken, n: BOOLEAN]
Kept(a) == a.m <= MaxMagnitude

FeSetInt(a) == [v |-> a % P, m |-> 1, n |-> TRUE]
FeClear == [v |-> 0, m |-> 0, n |-> TRUE]

\* A value of 2^256 or less that is not below P is refused, after it has been
\* stored.
FeSetB32(b) == [ok |-> b < P, r |-> [v |-> b % P, m |-> 1, n |-> b < P]]
FeGetB32(a) == IF a.n THEN a.v ELSE a.v + P

FeNormalize(a) == [v |-> a.v, m |-> If(Kept(a), 1), n |-> TRUE]
FeNormalizeWeak(a) == [a EXCEPT !.m = If(Kept(a), 1)]
FeNormalizeVar(a) == FeNormalize(a)

FeNegate(a, k) == [v |-> (P - a.v) % P, m |-> If(a.m <= k, k + 1), n |-> FALSE]
FeMulInt(a, k) == [v |-> (a.v * k) % P, m |-> Cap(a.m * k), n |-> FALSE]
FeAdd(a, b) == [v |-> (a.v + b.v) % P, m |-> Cap(a.m + b.m), n |-> FALSE]

FeMul(a, b) ==
    [v |-> (a.v * b.v) % P,
     m |-> If(a.m <= MulMagnitude /\ b.m <= MulMagnitude, 1),
     n |-> FALSE]
FeSqr(a) == FeMul(a, a)

FeCmov(r, a, flag) ==
    [v |-> IF flag THEN a.v ELSE r.v, m |-> Larger(r.m, a.m), n |-> r.n /\ a.n]

FeNormalizesToZero(a) == Kept(a) <=> a.v = 0
FeNormalizesToZeroVar(a) == FeNormalizesToZero(a)
FeIsZero(a) == a.n <=> a.v = 0
FeIsOdd(a) == a.n <=> a.v % 2 = 1
FeCmpVar(a, b) ==
    IF a.n /\ b.n /\ a.v # b.v THEN IF a.v > b.v THEN 1 ELSE -1 ELSE 0

\* Storage has room for a canonical value only: eight full words, no magnitude.
FeToStorage(a) == IF a.n THEN a.v ELSE (a.v + 1) % P
FeFromStorage(s) == [v |-> s, m |-> 1, n |-> TRUE]
FeStorageCmov(r, s, flag) == IF flag THEN s ELSE r

FeEqual(a, b) == FeNormalizesToZero(FeAdd(FeNegate(a, 1), b))
FeEqualVar(a, b) == FeNormalizesToZeroVar(FeAdd(FeNegate(a, 1), b))

\* v ^ e modulo P, e > 0.  FeInv and FeSqrt are powers by an addition chain; the
\* exponents their chains compute are the subject of module AddChain.
Pow(v, e) ==
    LET pow[i \in 1..e] == IF i = 1 THEN v ELSE (pow[i - 1] * v) % P IN pow[e]

InverseOf == [v \in Values |-> Pow(v, P - 2)]
RootOf == [v \in Values |-> Pow(v, (P + 1) \div 4)]

FeInv(a) == [v |-> InverseOf[a.v], m |-> If(a.m <= MulMagnitude, 1), n |-> FALSE]
FeInvVar(a) == FeInv(a)

\* The root is squared again and compared with the argument: it is a root of
\* the argument or of its negation.
FeSqrt(a) ==
    LET r == [v |-> RootOf[a.v], m |-> If(a.m <= MulMagnitude, 1), n |-> FALSE]
    IN  [ok |-> FeEqual(FeSqr(r), a), r |-> r]
FeIsQuadVar(a) == FeSqrt(a).ok

\* The inverses of a sequence for one inversion: running products forward, then
\* the inverse of the last one is taken apart from the end.
FeInvAllVar(s) ==
    LET len == Len(s)
        up[i \in 1..len] == IF i = 1 THEN s[1] ELSE FeMul(up[i - 1], s[i])
        \* u[i]: the inverse of the product of the first i elements
        u[i \in 1..len] == IF i = len THEN FeInvVar(up[len])
                                      ELSE FeMul(u[i + 1], s[i + 1])
    IN  [i \in 1..len |-> IF i = 1 THEN u[1] ELSE FeMul(up[i - 1], u[i])]
=============================================================================
