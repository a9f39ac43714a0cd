---------------------------- MODULE Group_proofs ----------------------------
(***************************************************************************)
(* Proofs about Field, Group and CurveLaw: what every formula of           *)
(* group_impl.h computes, for every prime that has inverses and roots, every*)
(* curve with a generator of odd order, and every point in every scale.  The*)
(* invariants of Points and of Secp256k1 rest on these lemmas.  The last    *)
(* part is about records whose z is a known factor too small: the curve on  *)
(* which a multiplication keeps its table and its sums.                     *)
(***************************************************************************)
EXTENDS CurveLaw, TLAPS

\* Congruence modulo the field's prime: what the limbs of fe may differ by.
Eq(a, b) == \E k \in Int : a = b + k * P

\* The prime is a number above 3.
LEMMA PInt == P \in Int /\ P \in Nat /\ P > 3
  BY FieldAssumption, MagnitudeAssumption

\* The remainder modulo P is a value, and the same number modulo P.
LEMMA ModValue ==
    ASSUME NEW a \in Int
    PROVE  a % P \in Values /\ a % P \in Int /\ Eq(a % P, a)
<1>1. a % P \in 0..P-1
  BY PInt
<1>2. a \div P \in Int /\ a = P * (a \div P) + (a % P)
  BY PInt
<1>3. (a % P) = a + (-(a \div P)) * P
  BY <1>1, <1>2, PInt
<1>4. -(a \div P) \in Int /\ a % P \in Int
  BY <1>1, <1>2
<1>5. Eq(a % P, a)
  BY <1>3, <1>4 DEF Eq
<1> QED
  BY <1>1, <1>4, <1>5 DEF Values

\* Eq is an equivalence (this lemma and the next two) ...
LEMMA EqRefl == ASSUME NEW a \in Int PROVE Eq(a, a)
<1>1. a = a + 0 * P
  BY PInt
<1> QED
  BY <1>1 DEF Eq

\* ... it is symmetric ...
LEMMA EqSym == ASSUME NEW a \in Int, NEW b \in Int, Eq(a, b) PROVE Eq(b, a)
<1>1. PICK k \in Int : a = b + k * P
  BY DEF Eq
<1>2. b = a + (-k) * P
  BY <1>1, PInt
<1> QED
  BY <1>2 DEF Eq

\* ... and transitive.
LEMMA EqTrans ==
    ASSUME NEW a \in Int, NEW b \in Int, NEW c \in Int, Eq(a, b), Eq(b, c)
    PROVE  Eq(a, c)
<1>1. PICK k \in Int : a = b + k * P
  BY DEF Eq
<1>2. PICK l \in Int : b = c + l * P
  BY DEF Eq
<1>3. a = c + (k + l) * P
  BY <1>1, <1>2, PInt
<1> QED
  BY <1>3 DEF Eq

\* Eq is kept by what fe_add, fe_negate and fe_mul do to values: by sums ...
LEMMA EqAdd ==
    ASSUME NEW a \in Int, NEW b \in Int, NEW c \in Int, NEW d \in Int, Eq(a, c), Eq(b, d)
    PROVE  Eq(a + b, c + d)
<1>1. PICK k \in Int : a = c + k * P
  BY DEF Eq
<1>2. PICK l \in Int : b = d + l * P
  BY DEF Eq
<1>3. a + b = (c + d) + (k + l) * P
  BY <1>1, <1>2, PInt
<1> QED
  BY <1>3 DEF Eq

\* ... by differences ...
LEMMA EqSub ==
    ASSUME NEW a \in Int, NEW b \in Int, NEW c \in Int, NEW d \in Int, Eq(a, c), Eq(b, d)
    PROVE  Eq(a - b, c - d)
<1>1. PICK k \in Int : a = c + k * P
  BY DEF Eq
<1>2. PICK l \in Int : b = d + l * P
  BY DEF Eq
<1>3. a - b = (c - d) + (k - l) * P
  BY <1>1, <1>2, PInt
<1> QED
  BY <1>3 DEF Eq

\* ... and by products.
LEMMA EqMul ==
    ASSUME NEW a \in Int, NEW b \in Int, NEW c \in Int, NEW d \in Int, Eq(a, c), Eq(b, d)
    PROVE  Eq(a * b, c * d)
<1>1. PICK k \in Int : a = c + k * P
  BY DEF Eq
<1>2. PICK l \in Int : b = d + l * P
  BY DEF Eq
<1>3. a * b = c * d + (c * l + k * d + k * l * P) * P
  BY <1>1, <1>2, PInt
<1>4. c * l + k * d + k * l * P \in Int
  BY PInt
<1> QED
  BY <1>3, <1>4 DEF Eq

\* The field element a stands for n modulo P and its magnitude is at most m: what the
\* comments of group_impl.h count from line to line.
Stands(a, n, m) == a \in Fe /\ Eq(a.v, n) /\ a.m <= m

\* fe_mul of two elements of magnitude 8 or less stands for the product, magnitude 1.
LEMMA StandsMul ==
    ASSUME NEW a, NEW b, NEW n \in Int, NEW k \in Int, NEW i \in Nat, NEW j \in Nat,
           Stands(a, n, i), Stands(b, k, j), i <= 8, j <= 8, NEW p \in Int, p = n * k
    PROVE  Stands(FeMul(a, b), p, 1)
<1>1. /\ a.v \in Int /\ b.v \in Int /\ a.m \in Int /\ b.m \in Int
      /\ a.m <= 8 /\ b.m <= 8
  BY PInt, FieldAssumption, MagnitudeAssumption DEF Stands, Fe, Values, Broken
<1>2. FeMul(a, b) = [v |-> (a.v * b.v) % P, m |-> 1, n |-> FALSE]
  <2>1. If(a.m <= MulMagnitude /\ b.m <= MulMagnitude, 1) = 1
    BY <1>1, FieldAssumption, MagnitudeAssumption DEF If, Cap
  <2> QED
    BY <2>1 DEF FeMul
<1>3. a.v * b.v \in Int
  BY <1>1
<1>4. (a.v * b.v) % P \in Values /\ Eq((a.v * b.v) % P, a.v * b.v) /\ (a.v * b.v) % P \in Int
  BY <1>3, ModValue
<1>5. Eq(a.v * b.v, n * k)
  BY <1>1, EqMul DEF Stands
<1>6. Eq((a.v * b.v) % P, p)
  BY <1>3, <1>4, <1>5, EqTrans
<1>7. 1 \in 0..Broken
  BY FieldAssumption, MagnitudeAssumption DEF Broken
<1> QED
  BY <1>2, <1>4, <1>6, <1>7 DEF Stands, Fe

\* fe_add stands for the sum; the magnitudes add up.
LEMMA StandsAdd ==
    ASSUME NEW a, NEW b, NEW n \in Int, NEW k \in Int, NEW i \in Nat, NEW j \in Nat,
           Stands(a, n, i), Stands(b, k, j), NEW m \in Nat, i + j <= m, m <= 32,
           NEW p \in Int, p = n + k
    PROVE  Stands(FeAdd(a, b), p, m)
<1>1. /\ a.v \in Int /\ b.v \in Int /\ a.m \in Nat /\ b.m \in Nat
      /\ a.m + b.m <= m
  BY PInt, FieldAssumption, MagnitudeAssumption DEF Stands, Fe, Values, Broken
<1>2. FeAdd(a, b) = [v |-> (a.v + b.v) % P, m |-> a.m + b.m, n |-> FALSE]
  <2>1. Cap(a.m + b.m) = a.m + b.m
    BY <1>1, FieldAssumption, MagnitudeAssumption DEF Cap
  <2> QED
    BY <2>1 DEF FeAdd
<1>3. a.v + b.v \in Int
  BY <1>1
<1>4. (a.v + b.v) % P \in Values /\ Eq((a.v + b.v) % P, a.v + b.v) /\ (a.v + b.v) % P \in Int
  BY <1>3, ModValue
<1>5. Eq(a.v + b.v, n + k)
  BY <1>1, EqAdd DEF Stands
<1>6. Eq((a.v + b.v) % P, p)
  BY <1>3, <1>4, <1>5, EqTrans
<1>7. a.m + b.m \in 0..Broken
  BY <1>1, FieldAssumption, MagnitudeAssumption DEF Broken
<1> QED
  BY <1>1, <1>2, <1>4, <1>6, <1>7 DEF Stands, Fe

\* fe_negate(a, m) stands for -n, one magnitude above m, if a has magnitude m or less.
LEMMA StandsNegate ==
    ASSUME NEW a, NEW n \in Int, NEW k \in Nat, Stands(a, n, k), k + 1 <= 32,
           NEW m \in Nat, k + 1 <= m, NEW p \in Int, p = -n
    PROVE  Stands(FeNegate(a, k), p, m)
<1>1. a.v \in Int /\ a.m \in Nat /\ a.m <= k
  BY PInt, FieldAssumption, MagnitudeAssumption DEF Stands, Fe, Values, Broken
<1>2. FeNegate(a, k) = [v |-> (P - a.v) % P, m |-> k + 1, n |-> FALSE]
  <2>1. If(a.m <= k, k + 1) = k + 1
    BY <1>1, FieldAssumption, MagnitudeAssumption DEF If, Cap
  <2> QED
    BY <2>1 DEF FeNegate
<1>3. P - a.v \in Int
  BY <1>1, PInt
<1>4. (P - a.v) % P \in Values /\ Eq((P - a.v) % P, P - a.v) /\ (P - a.v) % P \in Int
  BY <1>3, ModValue
<1>5. Eq(P - a.v, -n)
  <2>1. PICK l \in Int : a.v = n + l * P
    BY DEF Stands, Eq
  <2>2. P - a.v = -n + (1 - l) * P
    BY <2>1, PInt
  <2> QED
    BY <2>2 DEF Eq
<1>6. Eq((P - a.v) % P, p)
  BY <1>3, <1>4, <1>5, EqTrans
<1>7. k + 1 \in 0..Broken
  BY <1>1, FieldAssumption, MagnitudeAssumption DEF Broken
<1> QED
  BY <1>2, <1>4, <1>6, <1>7 DEF Stands, Fe

\* fe_mul_int stands for the multiple and multiplies the magnitude.
LEMMA StandsMulInt ==
    ASSUME NEW a, NEW n \in Int, NEW i \in Nat, Stands(a, n, i), NEW k \in Nat,
           NEW m \in Nat, i * k <= m, m <= 32, NEW p \in Int, p = n * k
    PROVE  Stands(FeMulInt(a, k), p, m)
<1>1. a.v \in Int /\ a.m \in Nat /\ a.m <= i
  BY PInt, FieldAssumption, MagnitudeAssumption DEF Stands, Fe, Values, Broken
<1>2. a.m * k \in Nat /\ a.m * k <= i * k
  BY <1>1
<1>3. FeMulInt(a, k) = [v |-> (a.v * k) % P, m |-> a.m * k, n |-> FALSE]
  <2>1. Cap(a.m * k) = a.m * k
    BY <1>2, FieldAssumption, MagnitudeAssumption DEF Cap
  <2> QED
    BY <2>1 DEF FeMulInt
<1>4. (a.v * k) % P \in Values /\ Eq((a.v * k) % P, a.v * k) /\ (a.v * k) % P \in Int
  BY <1>1, ModValue
<1>5. Eq(a.v * k, n * k)
  <2>1. k \in Int /\ Eq(k, k)
    BY EqRefl
  <2> QED
    BY <1>1, <2>1, EqMul DEF Stands
<1>6. Eq((a.v * k) % P, p)
  BY <1>1, <1>4, <1>5, EqTrans
<1>7. a.m * k \in 0..Broken /\ a.m * k <= m
  BY <1>2, FieldAssumption, MagnitudeAssumption DEF Broken
<1> QED
  BY <1>3, <1>4, <1>6, <1>7 DEF Stands, Fe

\* fe_normalize and fe_normalize_weak keep what an element stands for, magnitude 1.
LEMMA StandsNormalize ==
    ASSUME NEW a, NEW n \in Int, NEW i \in Nat, Stands(a, n, i), i <= 32
    PROVE  /\ Stands(FeNormalize(a), n, 1) /\ FeNormalize(a).n /\ FeNormalize(a).v = a.v
           /\ Stands(FeNormalizeWeak(a), n, 1)
<1>1. Kept(a) /\ a \in Fe
  BY FieldAssumption, MagnitudeAssumption DEF Stands, Fe, Kept, Broken
<1>2. If(Kept(a), 1) = 1 /\ 1 \in 0..Broken
  BY <1>1, FieldAssumption, MagnitudeAssumption DEF If, Cap, Broken
<1>3. FeNormalize(a) = [v |-> a.v, m |-> 1, n |-> TRUE]
  BY <1>2 DEF FeNormalize
<1>4. FeNormalizeWeak(a) = [v |-> a.v, m |-> 1, n |-> a.n]
  <2>1. a = [v |-> a.v, m |-> a.m, n |-> a.n]
    BY <1>1 DEF Fe
  <2>2. [a EXCEPT !.m = 1] = [v |-> a.v, m |-> 1, n |-> a.n]
    BY <2>1
  <2> QED
    BY <1>2, <2>2 DEF FeNormalizeWeak
<1> QED
  BY <1>1, <1>2, <1>3, <1>4 DEF Stands, Fe

\* What an element stands for is known modulo P, and its magnitude is a bound.
LEMMA StandsEq ==
    ASSUME NEW a, NEW n \in Int, NEW p \in Int, NEW i \in Int, NEW m \in Int, i <= m,
           Stands(a, n, i), Eq(n, p)
    PROVE  Stands(a, p, m)
<1>1. a.v \in Int /\ a.m \in Int
  BY PInt, FieldAssumption, MagnitudeAssumption DEF Stands, Fe, Values, Broken
<1>2. Eq(a.v, p)
  BY <1>1, EqTrans DEF Stands
<1> QED
  BY <1>1, <1>2 DEF Stands

\* fe_set_int stands for its number, normalized.
LEMMA StandsSetInt ==
    ASSUME NEW a \in Int
    PROVE  Stands(FeSetInt(a), a, 1) /\ FeSetInt(a).n
<1>1. a % P \in Values /\ Eq(a % P, a)
  BY ModValue
<1>2. 1 \in 0..Broken
  BY FieldAssumption, MagnitudeAssumption DEF Broken
<1> QED
  BY <1>1, <1>2 DEF FeSetInt, Stands, Fe

\* fe_cmov keeps one of the two elements, with the larger magnitude as its bound.
LEMMA StandsCmov ==
    ASSUME NEW r, NEW a, NEW flag \in BOOLEAN, NEW n \in Int, NEW k \in Int,
           NEW i \in Int, NEW j \in Int, NEW m \in Int, i <= m, j <= m,
           Stands(r, n, i), Stands(a, k, j)
    PROVE  Stands(FeCmov(r, a, flag), IF flag THEN k ELSE n, m)
<1>1. /\ r.m \in 0..Broken /\ a.m \in 0..Broken /\ r.v \in Values /\ a.v \in Values
      /\ r.n \in BOOLEAN /\ a.n \in BOOLEAN
  BY DEF Stands, Fe
<1>2. Larger(r.m, a.m) \in 0..Broken /\ Larger(r.m, a.m) <= m
  BY <1>1, FieldAssumption, MagnitudeAssumption DEF Larger, Stands, Broken
<1>3. FeCmov(r, a, flag).v = IF flag THEN a.v ELSE r.v
  BY DEF FeCmov
<1>4. FeCmov(r, a, flag) \in Fe
  BY <1>1, <1>2 DEF FeCmov, Fe
<1>5. FeCmov(r, a, flag).m <= m
  BY <1>2 DEF FeCmov
<1> QED
  BY <1>3, <1>4, <1>5 DEF Stands

\* There is one value for every integer modulo P.
LEMMA EqValue ==
    ASSUME NEW a \in Values, NEW b \in Values, Eq(a, b)
    PROVE  a = b
<1>1. PICK k \in Int : a = b + k * P
  BY DEF Eq
<1>2. a - b < P /\ b - a < P /\ a \in Int /\ b \in Int
  BY PInt DEF Values
<1>3. k < 1 /\ k > -1
  <2>1. CASE k >= 1
    <3>1. k * P >= P
      BY <2>1, PInt
    <3> QED
      BY <1>1, <1>2, <3>1, PInt
  <2>2. CASE k <= -1
    <3>1. (-k) * P >= P
      BY <2>2, PInt
    <3>2. k * P = -((-k) * P)
      BY PInt
    <3> QED
      BY <1>1, <1>2, <3>1, <3>2, PInt
  <2> QED
    BY <2>1, <2>2
<1>4. k = 0
  BY <1>3
<1> QED
  BY <1>1, <1>2, <1>4, PInt

\* fe_normalizes_to_zero answers whether an element stands for 0.
LEMMA StandsZero ==
    ASSUME NEW a, NEW n \in Int, NEW i \in Nat, i <= 32, Stands(a, n, i)
    PROVE  FeNormalizesToZero(a) <=> Eq(n, 0)
<1>1. Kept(a) /\ a.v \in Values /\ a.v \in Int /\ 0 \in Values
  BY PInt, FieldAssumption, MagnitudeAssumption DEF Stands, Fe, Kept, Broken, Values
<1>2. a.v = 0 => Eq(n, 0)
  BY <1>1, EqSym DEF Stands
<1>3. Eq(n, 0) => a.v = 0
  BY <1>1, EqTrans, EqValue DEF Stands
<1> QED
  BY <1>1, <1>2, <1>3 DEF FeNormalizesToZero

\* Whatever is not 0 modulo the prime has an inverse.
LEMMA HasInverse ==
    ASSUME NEW a \in Int, ~Eq(a, 0)
    PROVE  \E i \in Values : Eq(a * i, 1)
<1> DEFINE v == a % P
<1>1. v \in Values /\ v \in Int /\ Eq(v, a)
  BY ModValue
<1>2. v # 0
  BY <1>1, EqSym
<1> HIDE DEF v
<1> DEFINE i == InverseOf[v]
<1>3. i \in Values /\ (v * i) % P = 1
  BY <1>1, <1>2, PrimeAssumption
<1>4. i \in Int
  BY <1>3, PInt DEF Values
<1> HIDE DEF i
<1>5. Eq(1, v * i)
  BY <1>1, <1>3, <1>4, ModValue
<1>6. Eq(a * i, v * i)
  BY <1>1, <1>4, EqSym, EqMul, EqRefl
<1>7. Eq(a * i, 1)
  BY <1>1, <1>4, <1>5, <1>6, EqSym, EqTrans
<1> QED
  BY <1>3, <1>7

\* A factor that is not 0 may be cancelled: the division behind every lambda.
LEMMA EqCancel ==
    ASSUME NEW a \in Int, NEW b \in Int, NEW c \in Int, ~Eq(a, 0), Eq(a * b, a * c)
    PROVE  Eq(b, c)
<1>1. PICK i \in Values : Eq(a * i, 1)
  BY HasInverse
<1>2. i \in Int
  BY PInt DEF Values
<1>a. Eq(b, b) /\ Eq(c, c) /\ Eq(i, i) /\ a * i \in Int /\ 1 \in Int /\ a * b \in Int /\ a * c \in Int
  <2>1. i \in Int
    BY <1>2
  <2> QED
    BY <2>1, EqRefl
<1>3. Eq((a * i) * b, 1 * b) /\ Eq((a * i) * c, 1 * c)
  BY <1>1, <1>2, <1>a, EqMul
<1>4. Eq((a * b) * i, (a * c) * i)
  BY <1>1, <1>2, <1>a, EqMul
<1>5. (a * b) * i = (a * i) * b /\ (a * c) * i = (a * i) * c /\ 1 * b = b /\ 1 * c = c
  BY <1>2
<1> QED
  BY <1>2, <1>3, <1>4, <1>5, EqSym, EqTrans

\* The product of two numbers is 0 only if one of them is.
LEMMA EqProductZero ==
    ASSUME NEW a \in Int, NEW b \in Int, Eq(a * b, 0)
    PROVE  Eq(a, 0) \/ Eq(b, 0)
<1>1. a * 0 = 0
  OBVIOUS
<1> QED
  BY <1>1, EqCancel

\* fe_sqr of an element of magnitude 8 or less stands for the square, magnitude 1.
LEMMA StandsSqr ==
    ASSUME NEW a, NEW n \in Int, NEW i \in Nat, Stands(a, n, i), i <= 8,
           NEW p \in Int, p = n * n
    PROVE  Stands(FeSqr(a), p, 1)
  BY StandsMul DEF FeSqr

\* fe_inv stands for an inverse of a number that has one, and for something all the same
\* where it has none: the caller's infinity flag is what tells.
LEMMA StandsInv ==
    ASSUME NEW a, NEW n \in Int, NEW i \in Nat, Stands(a, n, i), i <= 8
    PROVE  /\ FeInv(a) \in Fe /\ FeInv(a).m <= 1
           /\ ~Eq(n, 0) => \E k \in Int : Eq(n * k, 1) /\ Stands(FeInv(a), k, 1)
<1>1. a.v \in Values /\ a.v \in Int /\ a.m \in Nat /\ a.m <= MulMagnitude /\ 0 \in Values
  BY PInt, FieldAssumption, MagnitudeAssumption DEF Stands, Fe, Values, Broken
<1>2. If(a.m <= MulMagnitude, 1) = 1 /\ 1 \in 0..Broken
  BY <1>1, FieldAssumption, MagnitudeAssumption DEF If, Cap, Broken
<1> DEFINE k == InverseOf[a.v]
<1>3. k \in Values /\ k \in Int
  <2>1. k \in Values
    BY <1>1, PrimeAssumption
  <2>2. Values \subseteq Int
    BY PInt DEF Values
  <2> QED
    BY <2>1, <2>2
<1>4. FeInv(a) = [v |-> k, m |-> 1, n |-> FALSE]
  BY <1>2 DEF FeInv
<1>5. FeInv(a) \in Fe /\ FeInv(a).m <= 1 /\ FeInv(a).v = k
  BY <1>2, <1>3, <1>4 DEF Fe
<1>6. ASSUME ~Eq(n, 0)
      PROVE  Eq(n * k, 1) /\ Stands(FeInv(a), k, 1)
  <2>1. a.v # 0
    BY <1>1, <1>6, EqSym DEF Stands
  <2>2. (a.v * k) % P = 1
    BY <1>1, <2>1, PrimeAssumption
  <2>3. a.v * k \in Int /\ n * k \in Int
    BY <1>1, <1>3
  <2>4. Eq(1, a.v * k)
    BY <2>2, <2>3, ModValue
  <2>5. Eq(n, a.v) /\ Eq(k, k)
    BY <1>1, <1>3, EqSym, EqRefl DEF Stands
  <2>6. Eq(n * k, a.v * k)
    BY <1>1, <1>3, <2>5, EqMul
  <2>7. Eq(n * k, 1)
    BY <2>3, <2>4, <2>6, EqSym, EqTrans
  <2> QED
    BY <1>3, <1>5, <2>5, <2>7 DEF Stands
<1> HIDE DEF k
<1> QED
  BY <1>3, <1>5, <1>6

\* fe_equal decides congruence, if the first magnitude is 1.
LEMMA StandsEqual ==
    ASSUME NEW a, NEW b, NEW n \in Int, NEW k \in Int, Stands(a, n, 1), Stands(b, k, 30)
    PROVE  FeEqual(a, b) <=> Eq(n, k)
<1>1. Stands(FeNegate(a, 1), -n, 2)
  BY StandsNegate
<1>2. Stands(FeAdd(FeNegate(a, 1), b), k - n, 32)
  BY <1>1, StandsAdd
<1>3. FeEqual(a, b) <=> Eq(k - n, 0)
  BY <1>2, StandsZero DEF FeEqual
<1>4. Eq(k - n, 0) => Eq(n, k)
  <2>1. SUFFICES ASSUME NEW l \in Int, k - n = 0 + l * P PROVE n = k + (-l) * P
    BY DEF Eq
  <2> QED
    BY <2>1, PInt
<1>5. Eq(n, k) => Eq(k - n, 0)
  <2>1. SUFFICES ASSUME NEW l \in Int, n = k + l * P PROVE k - n = 0 + (-l) * P
    BY DEF Eq
  <2> QED
    BY <2>1, PInt
<1> QED
  BY <1>3, <1>4, <1>5
-----------------------------------------------------------------------------
\* The Jacobian record a is the point <<x, y>> with the scale Z, within the magnitudes
\* that the formulas of group_impl.h start from.
GejStands(a, x, y, Z) ==
    /\ a \in Gej /\ ~a.inf /\ ~Eq(Z, 0)
    /\ Stands(a.x, x * Z * Z, 6) /\ Stands(a.y, y * Z * Z * Z, 4) /\ Stands(a.z, Z, 2)

\* gej_double_var computes the tangent's third point: for the slope l of the tangent at
\* <<x, y>>, the record is that of the textbook double, with z = 2*y*Z^4 in all.
LEMMA DoubleFormula ==
    ASSUME NEW a, NEW x \in Int, NEW y \in Int, NEW Z \in Int, GejStands(a, x, y, Z),
           NEW l \in Int, Eq(l * (2 * y), 3 * x * x), ~Eq(2 * y, 0),
           NEW x3 \in Int, x3 = l * l - 2 * x, NEW y3 \in Int, y3 = l * (x - x3) - y
    PROVE  GejStands(GejDoubleVar(a).r, x3, y3, 2 * y * Z * Z * Z * Z)
<1> DEFINE W == 2 * y * Z * Z * Z * Z
           t1 == FeMulInt(FeSqr(a.x), 3)
           t2 == FeSqr(t1)
           y2 == FeMulInt(FeSqr(a.y), 2)
           t4 == FeMulInt(FeSqr(y2), 2)
           t3 == FeMul(y2, a.x)
           xr == FeAdd(FeNegate(FeMulInt(t3, 4), 4), t2)
           s == FeAdd(FeMulInt(t3, 6), FeNegate(t2, 1))
           yr == FeAdd(FeMul(t1, s), FeNegate(t4, 2))
           zr == FeMulInt(FeMul(a.z, a.y), 2)
<1>1. Stands(FeSqr(a.x), x * x * Z * Z * Z * Z, 1)
  BY StandsSqr DEF GejStands
<1>2. Stands(t1, 3 * x * x * Z * Z * Z * Z, 3)
  BY <1>1, StandsMulInt
<1>3. Stands(t1, 2 * y * l * Z * Z * Z * Z, 3)
  <2>1. Eq(3 * x * x, l * (2 * y)) /\ Eq(Z * Z * Z * Z, Z * Z * Z * Z)
    BY EqSym, EqRefl
  <2>2. Eq((3 * x * x) * (Z * Z * Z * Z), (l * (2 * y)) * (Z * Z * Z * Z))
    BY <2>1, EqMul
  <2>3. /\ (3 * x * x) * (Z * Z * Z * Z) = 3 * x * x * Z * Z * Z * Z
        /\ (l * (2 * y)) * (Z * Z * Z * Z) = 2 * y * l * Z * Z * Z * Z
    OBVIOUS
  <2> QED
    BY <1>2, <2>2, <2>3, StandsEq
<1> HIDE DEF t1
<1>4. Stands(t2, l * l * W * W, 1)
  BY <1>3, StandsSqr
<1>5. Stands(y2, 2 * y * y * Z * Z * Z * Z * Z * Z, 2)
  <2>1. Stands(FeSqr(a.y), y * y * Z * Z * Z * Z * Z * Z, 1)
    BY StandsSqr DEF GejStands
  <2> QED
    BY <2>1, StandsMulInt
<1> HIDE DEF t2, y2
<1>6. Stands(t4, y * W * W * W, 2)
  <2>1. Stands(FeSqr(y2), 4 * y * y * y * y * Z * Z * Z * Z * Z * Z * Z * Z * Z * Z * Z * Z, 1)
    BY <1>5, StandsSqr
  <2> QED
    BY <2>1, StandsMulInt
<1>7. Stands(t3, 2 * x * y * y * Z * Z * Z * Z * Z * Z * Z * Z, 1)
  BY <1>5, StandsMul DEF GejStands
<1> HIDE DEF t3, t4
<1>8. Stands(xr, x3 * W * W, 6)
  <2>1. Stands(FeMulInt(t3, 4), 2 * x * W * W, 4)
    BY <1>7, StandsMulInt
  <2>2. Stands(FeNegate(FeMulInt(t3, 4), 4), -(2 * x * W * W), 5)
    BY <2>1, StandsNegate
  <2> QED
    BY <1>4, <2>2, StandsAdd
<1>9. Stands(s, (x - x3) * W * W, 8)
  <2>1. Stands(FeMulInt(t3, 6), 3 * x * W * W, 6)
    BY <1>7, StandsMulInt
  <2>2. Stands(FeNegate(t2, 1), -(l * l * W * W), 2)
    BY <1>4, StandsNegate
  <2> QED
    BY <2>1, <2>2, StandsAdd
<1> HIDE DEF s
<1>10. Stands(yr, y3 * W * W * W, 4)
  <2>1. Stands(FeMul(t1, s), l * (x - x3) * W * W * W, 1)
    BY <1>3, <1>9, StandsMul
  <2>2. Stands(FeNegate(t4, 2), -(y * W * W * W), 3)
    BY <1>6, StandsNegate
  <2> QED
    BY <2>1, <2>2, StandsAdd
<1>11. Stands(zr, W, 2)
  <2>1. Stands(FeMul(a.z, a.y), y * Z * Z * Z * Z, 1)
    BY StandsMul DEF GejStands
  <2> QED
    BY <2>1, StandsMulInt
<1>12. ~Eq(W, 0)
  <2>1. W = (2 * y) * (Z * (Z * (Z * Z)))
    OBVIOUS
  <2> QED
    BY <2>1, EqProductZero DEF GejStands
<1>13. GejDoubleVar(a).r = [x |-> xr, y |-> yr, z |-> zr, inf |-> FALSE]
  BY DEF GejStands, GejDoubleVar, t1, t2, t3, t4, y2, s
<1>14. xr \in Fe /\ yr \in Fe /\ zr \in Fe
  BY <1>8, <1>10, <1>11 DEF Stands
<1> HIDE DEF xr, yr, zr
<1> QED
  BY <1>8, <1>10, <1>11, <1>12, <1>13, <1>14 DEF GejStands, Gej

\* A congruence follows from another one of which it is a multiple.
LEMMA EqFrom ==
    ASSUME NEW a \in Int, NEW b \in Int, Eq(a, b), NEW k \in Int,
           NEW c \in Int, NEW d \in Int, c - d = k * (a - b)
    PROVE  Eq(c, d)
<1>1. PICK j \in Int : a = b + j * P
  BY DEF Eq
<1>2. c = d + (k * j) * P
  <2>1. a - b = j * P
    BY <1>1, PInt
  <2>2. k * (a - b) = (k * j) * P
    BY <2>1, PInt
  <2>3. (k * j) * P \in Int
    BY PInt
  <2> QED
    BY <2>2, <2>3
<1>3. k * j \in Int
  OBVIOUS
<1> QED
  BY <1>2, <1>3 DEF Eq

\* A multiple of what is 0 modulo P is 0.
LEMMA EqTimesZero ==
    ASSUME NEW w \in Int, NEW n \in Int, Eq(n, 0)
    PROVE  Eq(w * n, 0)
<1>1. PICK k \in Int : n = 0 + k * P
  BY DEF Eq
<1>2. n = k * P /\ w * k \in Int
  BY <1>1, PInt
<1>3. w * n = 0 + (w * k) * P
  BY <1>2, PInt
<1> QED
  BY <1>2, <1>3 DEF Eq

\* A congruence follows from two others of which it is a combination.
LEMMA EqFromTwo ==
    ASSUME NEW a \in Int, NEW b \in Int, Eq(a, b), NEW k \in Int,
           NEW e \in Int, NEW f \in Int, Eq(e, f), NEW l \in Int,
           NEW c \in Int, NEW d \in Int, c - d = k * (a - b) + l * (e - f)
    PROVE  Eq(c, d)
<1>1. PICK i \in Int : a = b + i * P
  BY DEF Eq
<1>2. PICK j \in Int : e = f + j * P
  BY DEF Eq
<1>3. c = d + (k * i + l * j) * P
  <2>1. a - b = i * P /\ e - f = j * P
    BY <1>1, <1>2, PInt
  <2>2. k * (a - b) + l * (e - f) = (k * i + l * j) * P
    BY <2>1, PInt
  <2>3. (k * i + l * j) * P \in Int
    BY PInt
  <2> QED
    BY <2>2, <2>3
<1>4. k * i + l * j \in Int
  OBVIOUS
<1> QED
  BY <1>3, <1>4 DEF Eq
-----------------------------------------------------------------------------
\* The lines that gej_add_var, gej_add_ge_var and gej_add_zinv_var share compute the
\* third point of the chord with slope l.
LEMMA ChordFormula ==
    ASSUME NEW u1, NEW s1, NEW h, NEW i, NEW z,
           NEW x1 \in Int, NEW y1 \in Int, NEW x2 \in Int, NEW y2 \in Int, NEW w \in Int,
           Stands(u1, x1 * w * w, 1), Stands(s1, y1 * w * w * w, 1),
           Stands(h, (x2 - x1) * w * w, 3), Stands(i, (y2 - y1) * w * w * w, 3),
           Stands(z, (x2 - x1) * w * w * w, 2),
           NEW l \in Int, Eq(l * (x2 - x1), y2 - y1), ~Eq(x2 - x1, 0), ~Eq(w, 0),
           NEW x3 \in Int, x3 = l * l - x1 - x2, NEW y3 \in Int, y3 = l * (x1 - x3) - y1
    PROVE  GejStands(Chord(u1, s1, h, i, z), x3, y3, (x2 - x1) * w * w * w)
<1> DEFINE d == x2 - x1
           W == d * w * w * w
           h2 == FeSqr(h)
           h3 == FeMul(h, h2)
           t == FeMul(u1, h2)
           xr == FeAdd(FeNegate(FeAdd(FeMulInt(t, 2), h3), 3), FeSqr(i))
           yr == FeAdd(FeMul(FeAdd(FeNegate(xr, 5), t), i), FeNegate(FeMul(h3, s1), 1))
<1>0. d \in Int /\ W \in Int /\ W = (x2 - x1) * w * w * w
  OBVIOUS
<1>1. Stands(i, l * W, 3)
  <2>1. (y2 - y1) * w * w * w - l * W = (-(w * w * w)) * (l * (x2 - x1) - (y2 - y1))
    OBVIOUS
  <2>2. /\ l * W \in Int /\ (y2 - y1) * w * w * w \in Int /\ -(w * w * w) \in Int
        /\ l * (x2 - x1) \in Int /\ y2 - y1 \in Int
    OBVIOUS
  <2>3. Eq((y2 - y1) * w * w * w, l * W)
    BY <2>1, <2>2, EqFrom
  <2> QED
    BY <2>2, <2>3, StandsEq
<1>2. Stands(h2, d * d * w * w * w * w, 1)
  BY StandsSqr
<1> HIDE DEF h2
<1>3. Stands(h3, d * W * W, 1)
  <2>1. Stands(h3, d * d * d * w * w * w * w * w * w, 1)
    BY <1>2, StandsMul
  <2>2. d * W * W = d * d * d * w * w * w * w * w * w
    OBVIOUS
  <2> QED
    BY <2>1, <2>2
<1>4. Stands(t, x1 * W * W, 1)
  <2>1. Stands(t, x1 * d * d * w * w * w * w * w * w, 1)
    BY <1>2, StandsMul
  <2>2. x1 * W * W = x1 * d * d * w * w * w * w * w * w
    OBVIOUS
  <2> QED
    BY <2>1, <2>2
<1>d. Stands(FeMul(h3, s1), y1 * W * W * W, 1)
  <2>1. Stands(h3, (x2 - x1) * W * W, 1)
    BY <1>3
  <2>2. y1 * W * W * W = ((x2 - x1) * W * W) * (y1 * w * w * w)
    OBVIOUS
  <2> QED
    BY <1>0, <2>1, <2>2, StandsMul
<1> HIDE DEF h3, t, W
<1>5. Stands(xr, x3 * W * W, 5)
  <2>1. Stands(FeMulInt(t, 2), 2 * x1 * W * W, 2)
    BY <1>0, <1>4, StandsMulInt
  <2>2. Stands(FeAdd(FeMulInt(t, 2), h3), (x1 + x2) * W * W, 3)
    BY <1>0, <1>3, <2>1, StandsAdd
  <2>3. Stands(FeNegate(FeAdd(FeMulInt(t, 2), h3), 3), -((x1 + x2) * W * W), 4)
    BY <1>0, <2>2, StandsNegate
  <2>4. Stands(FeSqr(i), l * l * W * W, 1)
    BY <1>0, <1>1, StandsSqr
  <2> QED
    BY <1>0, <2>3, <2>4, StandsAdd
<1> HIDE DEF xr
<1>6. Stands(yr, y3 * W * W * W, 3)
  <2>1. Stands(FeNegate(xr, 5), -(x3 * W * W), 6)
    BY <1>0, <1>5, StandsNegate
  <2>2. Stands(FeAdd(FeNegate(xr, 5), t), (x1 - x3) * W * W, 7)
    BY <1>0, <1>4, <2>1, StandsAdd
  <2>3. Stands(FeMul(FeAdd(FeNegate(xr, 5), t), i), l * (x1 - x3) * W * W * W, 1)
    BY <1>0, <1>1, <2>2, StandsMul
  <2>4. Stands(FeNegate(FeMul(h3, s1), 1), -(y1 * W * W * W), 2)
    BY <1>0, <1>d, StandsNegate
  <2> QED
    BY <1>0, <2>3, <2>4, StandsAdd
<1>7. ~Eq(W, 0)
  <2>1. W = (x2 - x1) * (w * (w * w)) /\ x2 - x1 \in Int
    BY <1>0
  <2> QED
    BY <2>1, EqProductZero
<1>8. Chord(u1, s1, h, i, z) = [x |-> xr, y |-> yr, z |-> z, inf |-> FALSE]
  BY DEF Chord, h2, h3, t, xr
<1>9. xr \in Fe /\ yr \in Fe /\ z \in Fe
  BY <1>5, <1>6 DEF Stands
<1>10. /\ Stands(xr, x3 * W * W, 6) /\ Stands(yr, y3 * W * W * W, 4)
       /\ Stands(z, W, 2)
  <2>1. xr.m \in Int /\ yr.m \in Int
    BY <1>9, FieldAssumption DEF Fe, Broken
  <2> QED
    BY <1>0, <1>5, <1>6, <2>1 DEF Stands
<1> HIDE DEF yr
<1>11. GejStands(Chord(u1, s1, h, i, z), x3, y3, W)
  BY <1>7, <1>8, <1>9, <1>10 DEF GejStands, Gej
<1> QED
  BY <1>0, <1>11
-----------------------------------------------------------------------------
\* The tail of gej_add_ge, from lambda = rrAlt / mAlt on, computes the third point of the
\* line with that slope, whether lambda is the first or the second expression of it, and
\* finds z = 0 exactly where mAlt is 0.
LEMMA AlongFormula ==
    ASSUME NEW a, NEW b, NEW t, NEW m, NEW degenerate \in BOOLEAN, NEW rrAlt, NEW mAlt,
           NEW x1 \in Int, NEW y1 \in Int, NEW x2 \in Int, NEW y2 \in Int, NEW w \in Int,
           a \in Gej, ~a.inf, Stands(a.z, w, 2),
           NEW bx \in Int, NEW by \in Int, Stands(b.x, bx, 4), Stands(b.y, by, 4),
           Stands(t, (x1 + x2) * w * w, 2), Stands(m, (y1 + y2) * w * w * w, 2),
           NEW l \in Int, NEW M \in Int, Stands(rrAlt, l * w * M, 2), Stands(mAlt, M, 3),
           degenerate => Eq(y1 + y2, 0),
           ~degenerate => M = (y1 + y2) * w * w * w,
           Eq(l * (x2 - x1), y2 - y1), ~Eq(w, 0), ~Eq(M, 0),
           NEW x3 \in Int, x3 = l * l - x1 - x2, NEW y3 \in Int, y3 = l * (x1 - x3) - y1
    PROVE  GejStands(AddAlong(a, b, t, m, degenerate, rrAlt, mAlt), x3, y3, 2 * w * M)
<1> DEFINE n2 == FeSqr(mAlt)
           n == FeCmov(FeSqr(n2), m, degenerate)
           z == FeMul(a.z, mAlt)
           nq == FeNegate(FeMul(n2, t), 1)
           xs == FeAdd(FeSqr(rrAlt), nq)
           x == FeNormalizeWeak(xs)
           v == FeAdd(FeMul(FeAdd(FeMulInt(x, 2), nq), rrAlt), n)
           y == FeNormalizeWeak(FeNegate(v, 3))
           xr == FeCmov(FeMulInt(x, 4), b.x, a.inf)
           yr == FeCmov(FeMulInt(y, 4), b.y, a.inf)
           zr == FeCmov(FeMulInt(z, 2), One, a.inf)
           W == 2 * w * M
<1>0. a.inf \in BOOLEAN
  BY DEF Gej
<1>1. Stands(n2, M * M, 1)
  BY StandsSqr
<1>2. Stands(n, (y1 + y2) * w * w * w * M * M * M, 2)
  <2>1. Stands(FeSqr(n2), M * M * M * M, 1)
    BY <1>1, StandsSqr
  <2>2. Stands(n, IF degenerate THEN (y1 + y2) * w * w * w ELSE M * M * M * M, 2)
    BY <2>1, StandsCmov
  <2>3. CASE degenerate
    <3>1. Eq((y1 + y2) * w * w * w, (y1 + y2) * w * w * w * M * M * M)
      <4>1. (y1 + y2) * w * w * w - (y1 + y2) * w * w * w * M * M * M
              = (w * w * w - w * w * w * M * M * M) * ((y1 + y2) - 0)
        OBVIOUS
      <4>2. /\ (y1 + y2) * w * w * w \in Int /\ (y1 + y2) * w * w * w * M * M * M \in Int
            /\ w * w * w - w * w * w * M * M * M \in Int /\ y1 + y2 \in Int
        OBVIOUS
      <4> DEFINE c == (y1 + y2) * w * w * w
                 d == (y1 + y2) * w * w * w * M * M * M
                 k == w * w * w - w * w * w * M * M * M
                 e == y1 + y2
      <4>3. c \in Int /\ d \in Int /\ k \in Int /\ e \in Int /\ c - d = k * (e - 0) /\ Eq(e, 0)
        BY <2>3, <4>1, <4>2
      <4> HIDE DEF c, d, k, e
      <4>4. Eq(c, d)
        BY <4>3, EqFrom
      <4> QED
        BY <4>4 DEF c, d
    <3>2. Stands(n, (y1 + y2) * w * w * w, 2)
      BY <2>2, <2>3
    <3> QED
      BY <3>1, <3>2, StandsEq
  <2>4. CASE ~degenerate
    <3>1. M * M * M * M = (y1 + y2) * w * w * w * M * M * M
      BY <2>4
    <3> QED
      BY <2>2, <2>4, <3>1
  <2> QED
    BY <2>3, <2>4
<1>3. Stands(nq, -((x1 + x2) * w * w * M * M), 2)
  <2>1. Stands(FeMul(n2, t), (x1 + x2) * w * w * M * M, 1)
    BY <1>1, StandsMul
  <2> QED
    BY <2>1, StandsNegate
<1> HIDE DEF n2, n, nq
<1>4. Stands(x, x3 * w * w * M * M, 1)
  <2>1. Stands(FeSqr(rrAlt), l * l * w * w * M * M, 1)
    BY StandsSqr
  <2>2. Stands(xs, x3 * w * w * M * M, 3)
    BY <1>3, <2>1, StandsAdd
  <2> QED
    BY <2>2, StandsNormalize
<1> HIDE DEF xs, x
<1>5. Stands(v, (l * (2 * x3 - x1 - x2) + y1 + y2) * w * w * w * M * M * M, 3)
  <2>1. Stands(FeMulInt(x, 2), 2 * x3 * w * w * M * M, 2)
    BY <1>4, StandsMulInt
  <2>2. Stands(FeAdd(FeMulInt(x, 2), nq), (2 * x3 - x1 - x2) * w * w * M * M, 4)
    BY <1>3, <2>1, StandsAdd
  <2>3. Stands(FeMul(FeAdd(FeMulInt(x, 2), nq), rrAlt),
               l * (2 * x3 - x1 - x2) * w * w * w * M * M * M, 1)
    BY <2>2, StandsMul
  <2> QED
    BY <1>2, <2>3, StandsAdd
<1> HIDE DEF v
<1>6. Stands(y, -((l * (2 * x3 - x1 - x2) + y1 + y2) * w * w * w * M * M * M), 1)
  <2> DEFINE c == (l * (2 * x3 - x1 - x2) + y1 + y2) * w * w * w * M * M * M
  <2>1. c \in Int /\ -c \in Int /\ Stands(v, c, 3)
    BY <1>5
  <2> HIDE DEF c
  <2>2. Stands(FeNegate(v, 3), -c, 4)
    BY <2>1, StandsNegate
  <2>3. Stands(y, -c, 1)
    BY <2>1, <2>2, StandsNormalize
  <2> QED
    BY <2>3 DEF c
<1> HIDE DEF y
<1>7. Stands(xr, x3 * W * W, 4)
  <2>1. Stands(FeMulInt(x, 4), x3 * W * W, 4)
    BY <1>4, StandsMulInt
  <2>2. Stands(xr, IF a.inf THEN bx ELSE x3 * W * W, 4)
    <3>1. x3 * W * W \in Int
      OBVIOUS
    <3> QED
      BY <1>0, <2>1, <3>1, StandsCmov
  <2> QED
    BY <2>2
<1>8. Stands(yr, y3 * W * W * W, 4)
  <2> DEFINE c == -4 * (l * (2 * x3 - x1 - x2) + y1 + y2) * w * w * w * M * M * M
  <2>1. Stands(FeMulInt(y, 4), c, 4)
    BY <1>6, StandsMulInt
  <2>2. Eq(c, y3 * W * W * W)
    <3>1. c - y3 * W * W * W
            = (4 * w * w * w * M * M * M) * (l * (x2 - x1) - (y2 - y1))
      OBVIOUS
    <3>2. /\ 4 * w * w * w * M * M * M \in Int /\ l * (x2 - x1) \in Int /\ y2 - y1 \in Int
          /\ c \in Int /\ y3 * W * W * W \in Int
      OBVIOUS
    <3> HIDE DEF c, W
    <3> QED
      BY <3>1, <3>2, EqFrom
  <2>3. c \in Int /\ y3 * W * W * W \in Int
    OBVIOUS
  <2> HIDE DEF c
  <2>4. Stands(FeMulInt(y, 4), y3 * W * W * W, 4)
    BY <2>1, <2>2, <2>3, StandsEq
  <2>5. Stands(yr, IF a.inf THEN by ELSE y3 * W * W * W, 4)
    BY <1>0, <2>3, <2>4, StandsCmov
  <2> QED
    BY <2>5
<1>9. Stands(z, w * M, 1)
  BY StandsMul
<1>10. Stands(zr, W, 2)
  <2>1. Stands(FeMulInt(z, 2), W, 2)
    BY <1>9, StandsMulInt
  <2>2. Stands(One, 1, 1)
    BY StandsSetInt DEF One
  <2>3. Stands(zr, IF a.inf THEN 1 ELSE W, 2)
    BY <1>0, <2>1, <2>2, StandsCmov
  <2> QED
    BY <2>3
<1>11. ~Eq(w * M, 0) /\ ~Eq(W, 0)
  <2>1. W = (w * M) * 2
    OBVIOUS
  <2>2. ~Eq(2, 0)
    <3>1. SUFFICES ASSUME NEW k \in Int, 2 = 0 + k * P PROVE FALSE
      BY DEF Eq
    <3>2. k > 0
      <4>1. CASE k <= 0
        <5>1. (-k) * P >= 0
          BY <4>1, PInt
        <5> QED
          BY <3>1, <5>1, PInt
      <4> QED
        BY <4>1
    <3>3. (k - 1) * P >= 0
      BY <3>2, PInt
    <3> QED
      BY <3>1, <3>3, PInt
  <2>3. w * M \in Int
    OBVIOUS
  <2>4. ~Eq(w * M, 0)
    BY EqProductZero
  <2> QED
    BY <2>1, <2>2, <2>3, <2>4, EqProductZero
<1>12. ~FeNormalizesToZero(z)
  BY <1>9, <1>11, StandsZero
<1>13. AddAlong(a, b, t, m, degenerate, rrAlt, mAlt)
         = [x |-> xr, y |-> yr, z |-> zr, inf |-> FALSE]
  BY <1>12 DEF AddAlong, n2, n, z, nq, xs, x, v, y
<1>14. xr \in Fe /\ yr \in Fe /\ zr \in Fe
  BY <1>7, <1>8, <1>10 DEF Stands
<1> HIDE DEF xr, yr, zr, W
<1>15. Stands(xr, x3 * W * W, 6)
  <2>1. xr.m \in Int
    BY <1>14, FieldAssumption DEF Fe, Broken
  <2> QED
    BY <1>7, <2>1 DEF Stands
<1>16. GejStands(AddAlong(a, b, t, m, degenerate, rrAlt, mAlt), x3, y3, W)
  BY <1>8, <1>10, <1>11, <1>13, <1>14, <1>15 DEF GejStands, Gej
<1> QED
  BY <1>16 DEF W

\* The magnitudes stay within what the formulas start from, also at infinity, where the
\* coordinates are stale.
GejKept(a) == a \in Gej /\ a.x.m <= 6 /\ a.y.m <= 4 /\ a.z.m <= 2

\* Every element stands for its own value.
LEMMA StandsSelf ==
    ASSUME NEW a \in Fe, NEW m \in Int, a.m <= m
    PROVE  a.v \in Int /\ Stands(a, a.v, m)
<1>1. a.v \in Int
  BY PInt DEF Fe, Values
<1> QED
  BY <1>1, EqRefl DEF Stands

\* The tail of gej_add_ge keeps the magnitudes also where the point it starts from is at
\* infinity, and then gives the affine point through the conditional moves.
LEMMA AlongKept ==
    ASSUME NEW a, NEW b, NEW t, NEW m, NEW degenerate \in BOOLEAN, NEW rrAlt, NEW mAlt,
           NEW tv \in Int, NEW mv \in Int, NEW rv \in Int, NEW M \in Int, NEW w \in Int,
           a \in Gej, Stands(a.z, w, 2),
           NEW bx \in Int, NEW by \in Int, Stands(b.x, bx, 6), Stands(b.y, by, 4),
           Stands(t, tv, 2), Stands(m, mv, 2), Stands(rrAlt, rv, 2), Stands(mAlt, M, 3)
    PROVE  LET r == AddAlong(a, b, t, m, degenerate, rrAlt, mAlt)
           IN  /\ GejKept(r)
               /\ a.inf => ~r.inf /\ Stands(r.x, bx, 6) /\ Stands(r.y, by, 4) /\ Stands(r.z, 1, 2)
               /\ ~a.inf => (Eq(w * M, 0) => r.inf)
<1> DEFINE n2 == FeSqr(mAlt)
           n == FeCmov(FeSqr(n2), m, degenerate)
           z == FeMul(a.z, mAlt)
           nq == FeNegate(FeMul(n2, t), 1)
           xs == FeAdd(FeSqr(rrAlt), nq)
           x == FeNormalizeWeak(xs)
           v == FeAdd(FeMul(FeAdd(FeMulInt(x, 2), nq), rrAlt), n)
           y == FeNormalizeWeak(FeNegate(v, 3))
           xr == FeCmov(FeMulInt(x, 4), b.x, a.inf)
           yr == FeCmov(FeMulInt(y, 4), b.y, a.inf)
           zr == FeCmov(FeMulInt(z, 2), One, a.inf)
<1>0. a.inf \in BOOLEAN
  BY DEF Gej
<1>1. Stands(n2, M * M, 1)
  BY StandsSqr
<1>2. PICK nv \in Int : Stands(n, nv, 2)
  <2>1. Stands(FeSqr(n2), M * M * M * M, 1)
    BY <1>1, StandsSqr
  <2>2. Stands(n, IF degenerate THEN mv ELSE M * M * M * M, 2)
    BY <2>1, StandsCmov
  <2>3. (IF degenerate THEN mv ELSE M * M * M * M) \in Int
    OBVIOUS
  <2> QED
    BY <2>2, <2>3
<1>3. Stands(nq, -(M * M * tv), 2)
  <2>1. Stands(FeMul(n2, t), M * M * tv, 1)
    BY <1>1, StandsMul
  <2> QED
    BY <2>1, StandsNegate
<1> HIDE DEF n2, n, nq
<1>4. Stands(x, rv * rv - M * M * tv, 1)
  <2>1. Stands(FeSqr(rrAlt), rv * rv, 1)
    BY StandsSqr
  <2>2. Stands(xs, rv * rv - M * M * tv, 3)
    BY <1>3, <2>1, StandsAdd
  <2> QED
    BY <2>2, StandsNormalize
<1> HIDE DEF xs, x
<1> DEFINE vv == (2 * (rv * rv - M * M * tv) - M * M * tv) * rv + nv
<1>5. Stands(v, vv, 3)
  <2>1. Stands(FeMulInt(x, 2), 2 * (rv * rv - M * M * tv), 2)
    BY <1>4, StandsMulInt
  <2>2. Stands(FeAdd(FeMulInt(x, 2), nq), 2 * (rv * rv - M * M * tv) - M * M * tv, 4)
    BY <1>3, <2>1, StandsAdd
  <2>3. Stands(FeMul(FeAdd(FeMulInt(x, 2), nq), rrAlt),
               (2 * (rv * rv - M * M * tv) - M * M * tv) * rv, 1)
    BY <2>2, StandsMul
  <2> QED
    BY <1>2, <2>3, StandsAdd
<1>i. vv \in Int
  OBVIOUS
<1> HIDE DEF v, vv
<1>6. Stands(y, -vv, 1)
  <2>1. Stands(FeNegate(v, 3), -vv, 4)
    BY <1>5, <1>i, StandsNegate
  <2> QED
    BY <1>i, <2>1, StandsNormalize
<1> HIDE DEF y
<1> DEFINE xv == 4 * (rv * rv - M * M * tv)
           yv == -4 * vv
<1>7. xv \in Int /\ yv \in Int /\ Stands(xr, IF a.inf THEN bx ELSE xv, 6)
      /\ Stands(yr, IF a.inf THEN by ELSE yv, 4)
  <2>1. Stands(FeMulInt(x, 4), xv, 4) /\ Stands(FeMulInt(y, 4), yv, 4) /\ xv \in Int /\ yv \in Int
    BY <1>i, <1>4, <1>6, StandsMulInt
  <2> HIDE DEF xv, yv
  <2> QED
    BY <1>0, <2>1, StandsCmov
<1>9. Stands(z, w * M, 1)
  BY StandsMul
<1>10. Stands(zr, IF a.inf THEN 1 ELSE 2 * w * M, 2)
  <2>1. Stands(FeMulInt(z, 2), 2 * w * M, 2)
    BY <1>9, StandsMulInt
  <2>2. Stands(One, 1, 1)
    BY StandsSetInt DEF One
  <2> QED
    BY <1>0, <2>1, <2>2, StandsCmov
<1>12. FeNormalizesToZero(z) <=> Eq(w * M, 0)
  BY <1>9, StandsZero
<1>13. AddAlong(a, b, t, m, degenerate, rrAlt, mAlt)
         = [x |-> xr, y |-> yr, z |-> zr, inf |-> FeNormalizesToZero(z) /\ ~a.inf]
  BY DEF AddAlong, n2, n, z, nq, xs, x, v, y
<1>14. /\ xr \in Fe /\ yr \in Fe /\ zr \in Fe /\ xr.m <= 6 /\ yr.m <= 4 /\ zr.m <= 2
       /\ xr.m \in Int
  BY <1>7, <1>10, FieldAssumption DEF Stands, Fe, Broken
<1> HIDE DEF xr, yr, zr, xv, yv, z
<1> DEFINE r == [x |-> xr, y |-> yr, z |-> zr, inf |-> FeNormalizesToZero(z) /\ ~a.inf]
<1>15. r.inf \in BOOLEAN
  BY <1>0, <1>12
<1>16. GejKept(r)
  BY <1>14, <1>15 DEF Gej, GejKept
<1>17. a.inf => ~r.inf /\ Stands(r.x, bx, 6) /\ Stands(r.y, by, 4) /\ Stands(r.z, 1, 2)
  BY <1>7, <1>10
<1>18. ~a.inf => (Eq(w * M, 0) => r.inf)
  BY <1>12
<1> HIDE DEF r
<1> QED
  BY <1>13, <1>16, <1>17, <1>18 DEF r
-----------------------------------------------------------------------------
\* The points of the curve of which the double is not infinity.
CurvePoints == {q \in Values \X Values :
                  /\ Eq(q[2] * q[2], q[1] * q[1] * q[1] + CurveB)
                  /\ ~Eq(2 * q[2], 0)}

\* The Jacobian record a, of whatever scale, is the point q of the group.
GejIs(a, q) ==
    /\ GejKept(a)
    /\ IF q = Infinity THEN a.inf ELSE \E Z \in Int : GejStands(a, q[1], q[2], Z)

\* A pair of values is a pair of integers, and not infinity.
LEMMA PairOfValues ==
    ASSUME NEW q \in Values \X Values
    PROVE  /\ q[1] \in Int /\ q[2] \in Int /\ q[1] \in Values /\ q[2] \in Values
           /\ q = <<q[1], q[2]>> /\ q # Infinity
<1>1. Values \subseteq Int
  BY PInt DEF Values
<1>2. q[1] \in Values /\ q[2] \in Values /\ q = <<q[1], q[2]>>
  OBVIOUS
<1>3. q # Infinity
  BY DEF Infinity
<1> QED
  BY <1>1, <1>2, <1>3

\* The point of a record is known modulo P.
LEMMA GejMove ==
    ASSUME NEW a, NEW x \in Int, NEW y \in Int, NEW Z \in Int, GejStands(a, x, y, Z),
           NEW u \in Int, NEW v \in Int, Eq(x, u), Eq(y, v)
    PROVE  GejStands(a, u, v, Z)
<1> DEFINE i == x * Z * Z
           j == u * Z * Z
           k == y * Z * Z * Z
           l == v * Z * Z * Z
           s == Z * Z
           t == Z * Z * Z
<1>1. /\ i \in Int /\ j \in Int /\ k \in Int /\ l \in Int /\ s \in Int /\ t \in Int
      /\ i - j = s * (x - u) /\ k - l = t * (y - v)
  OBVIOUS
<1>2. Stands(a.x, i, 6) /\ Stands(a.y, k, 4)
  BY DEF GejStands
<1> HIDE DEF i, j, k, l, s, t
<1>3. Eq(i, j) /\ Eq(k, l)
  BY <1>1, EqFrom
<1>4. Stands(a.x, j, 6) /\ Stands(a.y, l, 4)
  BY <1>1, <1>2, <1>3, StandsEq
<1> QED
  BY <1>4 DEF GejStands, j, l

\* The quotient of the textbook law solves l * d = n.
LEMMA SlopeDivides ==
    ASSUME NEW n \in Int, NEW d \in Int, ~Eq(d, 0), NEW l, l = (n * InverseOf[d % P]) % P
    PROVE  l \in Int /\ Eq(l * d, n)
<1> DEFINE i == InverseOf[d % P]
<1>2. d % P \in Values /\ d % P \in Int /\ Eq(d % P, d)
  BY ModValue
<1>3. d % P # 0
  BY <1>2, EqSym
<1>4. i \in Values /\ ((d % P) * i) % P = 1
  BY <1>2, <1>3, PrimeAssumption
<1>5. i \in Int
  BY <1>4, PInt DEF Values
<1> HIDE DEF i
<1>7. n * i \in Int /\ (d % P) * i \in Int /\ d * i \in Int
  BY <1>2, <1>5
<1>8. l \in Int /\ Eq(l, n * i)
  BY <1>7, ModValue DEF i
<1>9. Eq(d * i, 1)
  <2>1. Eq(1, (d % P) * i)
    BY <1>4, <1>7, ModValue
  <2>2. d * i - (d % P) * i = (-i) * ((d % P) - d) /\ -i \in Int
    BY <1>2, <1>5
  <2>3. Eq(d * i, (d % P) * i)
    BY <1>2, <1>7, <2>2, EqFrom
  <2> QED
    BY <1>7, <2>1, <2>3, EqSym, EqTrans
<1>10. Eq(l * d, n)
  <2> DEFINE e == l * d
             f == n * i
             g == d * i
             o == 1
             h == f * d
  <2>1. /\ e - h = d * (l - f) /\ h - n = n * (g - o)
        /\ e \in Int /\ f \in Int /\ g \in Int /\ o \in Int /\ h \in Int
    BY <1>5, <1>8
  <2>2. Eq(l, f) /\ Eq(g, o)
    BY <1>8, <1>9
  <2> HIDE DEF e, f, g, h, o
  <2>3. Eq(e, n)
    <3>1. Eq(e, h)
      BY <1>8, <2>1, <2>2, EqFrom
    <3>2. Eq(h, n)
      BY <1>8, <2>1, <2>2, EqFrom
    <3> QED
      BY <2>1, <3>1, <3>2, EqTrans
  <2> QED
    BY <2>3 DEF e
<1> QED
  BY <1>8, <1>10

\* The textbook sum of two points that are not opposite lies on the line through them,
\* and is a pair of values.
LEMMA PlusAlong ==
    ASSUME NEW a \in CurvePoints, NEW b \in CurvePoints,
           ~(a[1] = b[1] /\ (a[2] + b[2]) % P = 0), a[1] = b[1] => a = b
    PROVE  /\ Plus(a, b) \in Values \X Values
           /\ \E l \in Int :
                /\ Eq(l * (b[1] - a[1]), b[2] - a[2])
                /\ a = b => Eq(l * (2 * a[2]), 3 * a[1] * a[1])
                /\ Eq(l * l - a[1] - b[1], Plus(a, b)[1])
                /\ Eq(l * (a[1] - (l * l - a[1] - b[1])) - a[2], Plus(a, b)[2])
<1> DEFINE l == Slope(a, b)
           x == (l * l - a[1] - b[1]) % P
           y == (l * (a[1] - x) - a[2]) % P
<1>1. /\ a[1] \in Int /\ a[2] \in Int /\ b[1] \in Int /\ b[2] \in Int
      /\ a # Infinity /\ b # Infinity /\ a[1] \in Values /\ b[1] \in Values
      /\ a[2] \in Values /\ b[2] \in Values /\ a = <<a[1], a[2]>> /\ b = <<b[1], b[2]>>
  BY PairOfValues DEF CurvePoints
<1>2. Plus(a, b) = <<x, y>>
  BY <1>1 DEF Plus
<1>3. l \in Int /\ Eq(l * (b[1] - a[1]), b[2] - a[2])
      /\ (a = b => Eq(l * (2 * a[2]), 3 * a[1] * a[1]))
  <2>1. CASE a = b
    <3> DEFINE d == 2 * a[2]
               n == 3 * a[1] * a[1]
    <3>1. d \in Int /\ n \in Int /\ ~Eq(d, 0)
      BY <1>1 DEF CurvePoints
    <3>6. l = (n * InverseOf[d % P]) % P
      BY <2>1 DEF Slope
    <3> HIDE DEF d, n, l
    <3>8. l \in Int /\ Eq(l * d, n)
      BY <3>1, <3>6, SlopeDivides
    <3>11. l * (b[1] - a[1]) = 0 /\ b[2] - a[2] = 0
      BY <1>1, <2>1, <3>8
    <3> QED
      BY <3>8, <3>11, EqRefl DEF d, n
  <2>2. CASE a # b
    <3> DEFINE d == b[1] - a[1]
               n == b[2] - a[2]
    <3>1. d \in Int /\ n \in Int
      BY <1>1
    <3>a. ~Eq(d, 0)
      <4>1. SUFFICES ASSUME Eq(d, 0) PROVE FALSE
        OBVIOUS
      <4>2. 0 \in Int /\ b[1] - a[1] = 1 * (d - 0)
        BY <1>1
      <4>3. Eq(b[1], a[1])
        BY <1>1, <3>1, <4>1, <4>2, EqFrom
      <4> QED
        BY <1>1, <2>2, <4>3, EqValue
    <3>6. l = (n * InverseOf[d % P]) % P
      BY <2>2 DEF Slope
    <3> HIDE DEF d, n, l
    <3>8. l \in Int /\ Eq(l * d, n)
      BY <3>1, <3>a, <3>6, SlopeDivides
    <3> QED
      BY <2>2, <3>8 DEF d, n
  <2> QED
    BY <2>1, <2>2
<1> HIDE DEF l
<1> DEFINE x3 == l * l - a[1] - b[1]
           yx == l * (a[1] - x) - a[2]
           y3 == l * (a[1] - x3) - a[2]
<1>4. x3 \in Int /\ x \in Values /\ x \in Int /\ Eq(x, x3)
  BY <1>1, <1>3, ModValue
<1>5. yx \in Int /\ y3 \in Int /\ y3 - yx = l * (x - x3)
  BY <1>1, <1>3, <1>4
<1> HIDE DEF x3, x
<1>6. y \in Values /\ y \in Int /\ Eq(y, yx)
  BY <1>5, ModValue
<1> HIDE DEF yx, y3, y
<1>7. Eq(y3, yx)
  BY <1>3, <1>4, <1>5, EqFrom
<1>8. Eq(x3, x) /\ Eq(y3, y)
  BY <1>4, <1>5, <1>6, <1>7, EqSym, EqTrans
<1>9. Plus(a, b)[1] = x /\ Plus(a, b)[2] = y /\ Plus(a, b) \in Values \X Values
  BY <1>2, <1>4, <1>6 DEF y
<1> QED
  BY <1>3, <1>8, <1>9 DEF x3, y3

\* Two points with one x are equal or opposite: the case gej_add_var tells by i = 0.
LEMMA PlusOpposite ==
    ASSUME NEW a \in CurvePoints, NEW b \in CurvePoints, a[1] = b[1], a # b
    PROVE  Eq(a[2] + b[2], 0) /\ Plus(a, b) = Infinity
<1>1. /\ a[1] \in Int /\ a[2] \in Int /\ b[1] \in Int /\ b[2] \in Int
      /\ a # Infinity /\ b # Infinity
      /\ a[2] \in Values /\ b[2] \in Values /\ a = <<a[1], a[2]>> /\ b = <<b[1], b[2]>>
  BY PairOfValues DEF CurvePoints
<1> DEFINE c == a[1] * a[1] * a[1] + CurveB
           d == (a[2] - b[2]) * (a[2] + b[2])
<1>2. c \in Int /\ Eq(a[2] * a[2], c) /\ Eq(b[2] * b[2], c)
  BY <1>1, CurveAssumption DEF CurvePoints
<1>3. /\ d \in Int /\ d - 0 = 1 * (a[2] * a[2] - c) + (-1) * (b[2] * b[2] - c)
      /\ a[2] * a[2] \in Int /\ b[2] * b[2] \in Int
  BY <1>1, <1>2
<1> HIDE DEF c
<1>4. Eq(d, 0)
  <2>1. 0 \in Int /\ 1 \in Int /\ -1 \in Int
    OBVIOUS
  <2> HIDE DEF d
  <2> QED
    BY <1>2, <1>3, <2>1, EqFromTwo
<1>5. ~Eq(a[2] - b[2], 0)
  <2>1. SUFFICES ASSUME Eq(a[2] - b[2], 0) PROVE FALSE
    OBVIOUS
  <2>2. /\ 0 \in Int /\ 1 \in Int /\ a[2] - b[2] \in Int
        /\ a[2] - b[2] = 1 * ((a[2] - b[2]) - 0)
    BY <1>1
  <2>3. Eq(a[2], b[2])
    BY <1>1, <2>1, <2>2, EqFrom
  <2> QED
    BY <1>1, <2>3, EqValue
<1>6. Eq(a[2] + b[2], 0)
  BY <1>1, <1>4, <1>5, EqProductZero
<1>7. (a[2] + b[2]) % P = 0
  <2>1. a[2] + b[2] \in Int /\ 0 \in Values /\ 0 \in Int
    BY <1>1, PInt DEF Values
  <2>2. Eq((a[2] + b[2]) % P, 0) /\ (a[2] + b[2]) % P \in Values
    BY <1>6, <2>1, ModValue, EqTrans
  <2> QED
    BY <2>1, <2>2, EqValue
<1> QED
  BY <1>1, <1>6, <1>7 DEF Plus
-----------------------------------------------------------------------------
\* The points and the neutral element.
GroupPoints == CurvePoints \union {Infinity}

\* What a point of the curve is made of.
LEMMA CurvePointFacts ==
    ASSUME NEW q \in CurvePoints
    PROVE  /\ q[1] \in Int /\ q[2] \in Int /\ q[1] \in Values /\ q[2] \in Values
           /\ q = <<q[1], q[2]>> /\ q # Infinity /\ q \in GroupPoints
           /\ Eq(q[2] * q[2], q[1] * q[1] * q[1] + CurveB) /\ ~Eq(2 * q[2], 0)
           /\ q \in Values \X Values
  BY PairOfValues DEF CurvePoints, GroupPoints

\* A record that stands for a pair is the point of that pair.
LEMMA GejIsFinite ==
    ASSUME NEW a, NEW q \in Values \X Values, NEW Z \in Int, GejStands(a, q[1], q[2], Z)
    PROVE  GejIs(a, q)
<1>1. q # Infinity
  BY PairOfValues
<1> QED
  BY <1>1 DEF GejIs, GejKept, GejStands, Stands

\* A point of the curve is never its own opposite: no y is 0 in a group of odd order.
LEMMA DoubleAlong ==
    ASSUME NEW q \in CurvePoints
    PROVE  ~(q[1] = q[1] /\ (q[2] + q[2]) % P = 0)
<1>1. q[2] \in Int /\ ~Eq(2 * q[2], 0) /\ 2 * q[2] = q[2] + q[2] /\ 2 * q[2] \in Int
  BY CurvePointFacts
<1>2. Eq((2 * q[2]) % P, 2 * q[2])
  BY <1>1, ModValue
<1>3. (2 * q[2]) % P # 0
  <2>1. 0 \in Int
    OBVIOUS
  <2> QED
    BY <1>1, <1>2, <2>1, EqSym
<1> QED
  BY <1>1, <1>3

\* gej_double_var doubles, also at infinity.
LEMMA GejDoubleVarIs ==
    ASSUME NEW a, NEW q \in GroupPoints, GejIs(a, q)
    PROVE  GejIs(GejDoubleVar(a).r, Plus(q, q))
<1>1. CASE q = Infinity
  BY <1>1 DEF GejIs, GejDoubleVar, Plus
<1>2. CASE q # Infinity
  <2>1. q \in CurvePoints
    BY <1>2 DEF GroupPoints
  <2>2. q[1] \in Int /\ q[2] \in Int /\ ~Eq(2 * q[2], 0)
    BY <2>1, CurvePointFacts
  <2>3. PICK Z \in Int : GejStands(a, q[1], q[2], Z)
    BY <1>2 DEF GejIs
  <2>4. /\ Plus(q, q) \in Values \X Values
        /\ \E l \in Int :
             /\ Eq(l * (2 * q[2]), 3 * q[1] * q[1])
             /\ Eq(l * l - q[1] - q[1], Plus(q, q)[1])
             /\ Eq(l * (q[1] - (l * l - q[1] - q[1])) - q[2], Plus(q, q)[2])
    BY <2>1, DoubleAlong, PlusAlong
  <2>5. PICK l \in Int :
          /\ Eq(l * (2 * q[2]), 3 * q[1] * q[1])
          /\ Eq(l * l - q[1] - q[1], Plus(q, q)[1])
          /\ Eq(l * (q[1] - (l * l - q[1] - q[1])) - q[2], Plus(q, q)[2])
    BY <2>4
  <2> DEFINE x3 == l * l - q[1] - q[1]
             y3 == l * (q[1] - x3) - q[2]
             W == 2 * q[2] * Z * Z * Z * Z
  <2>6. x3 \in Int /\ y3 \in Int /\ W \in Int /\ x3 = l * l - 2 * q[1]
    BY <2>2
  <2>7. GejStands(GejDoubleVar(a).r, x3, y3, W)
    <3> HIDE DEF x3
    <3>1. y3 = l * (q[1] - x3) - q[2]
      OBVIOUS
    <3> HIDE DEF y3
    <3> QED
      BY <2>2, <2>3, <2>5, <2>6, <3>1, DoubleFormula
  <2>8. Plus(q, q)[1] \in Int /\ Plus(q, q)[2] \in Int
    BY <2>4, PairOfValues
  <2>9. Eq(x3, Plus(q, q)[1]) /\ Eq(y3, Plus(q, q)[2])
    BY <2>5
  <2> HIDE DEF x3, y3, W
  <2>10. GejStands(GejDoubleVar(a).r, Plus(q, q)[1], Plus(q, q)[2], W)
    BY <2>6, <2>7, <2>8, <2>9, GejMove
  <2> QED
    BY <2>4, <2>6, <2>10, GejIsFinite
<1> QED
  BY <1>1, <1>2

\* The variable-time additions, once both points are on a common z: they add, double
\* equal points, and give infinity for opposite ones.
LEMMA SumOrDoubleIs ==
    ASSUME NEW a, NEW p \in CurvePoints, NEW q \in CurvePoints, GejIs(a, p),
           NEW u1, NEW s1, NEW h, NEW i, NEW z, NEW rzr, NEW w \in Int, ~Eq(w, 0),
           Stands(u1, p[1] * w * w, 1), Stands(s1, p[2] * w * w * w, 1),
           Stands(h, (q[1] - p[1]) * w * w, 3), Stands(i, (q[2] - p[2]) * w * w * w, 3),
           Stands(z, (q[1] - p[1]) * w * w * w, 2)
    PROVE  GejIs(SumOrDouble(a, u1, s1, h, i, z, rzr).r, Plus(p, q))
<1>1. /\ p[1] \in Int /\ p[2] \in Int /\ q[1] \in Int /\ q[2] \in Int
      /\ p[1] \in Values /\ p[2] \in Values /\ q[1] \in Values /\ q[2] \in Values
      /\ p = <<p[1], p[2]>> /\ q = <<q[1], q[2]>> /\ p # Infinity
      /\ p \in GroupPoints /\ q \in GroupPoints
  BY CurvePointFacts
<1>2. FeNormalizesToZeroVar(h) <=> p[1] = q[1]
  <2> DEFINE d == q[1] - p[1]
             n == d * w * w
  <2>1. d \in Int /\ n \in Int /\ n = w * (w * d) /\ Stands(h, n, 3)
    BY <1>1
  <2>2. d = 0 => n = 0
    BY <2>1
  <2>3. FeNormalizesToZero(h) <=> Eq(n, 0)
    BY <2>1, StandsZero
  <2>4. Eq(d, 0) => p[1] = q[1]
    <3>1. 0 \in Int /\ 1 \in Int /\ q[1] - p[1] = 1 * (d - 0)
      BY <1>1
    <3>2. Eq(d, 0) => Eq(q[1], p[1])
      BY <1>1, <2>1, <3>1, EqFrom
    <3> QED
      BY <1>1, <3>2, EqValue
  <2>5. p[1] = q[1] => d = 0
    BY <1>1
  <2> HIDE DEF n, d
  <2>6. Eq(n, 0) => Eq(d, 0)
    BY <2>1, EqProductZero
  <2> QED
    BY <2>2, <2>3, <2>4, <2>5, <2>6, EqRefl DEF FeNormalizesToZeroVar
<1>3. FeNormalizesToZeroVar(i) <=> p[2] = q[2]
  <2> DEFINE d == q[2] - p[2]
             n == d * w * w * w
  <2>1. d \in Int /\ n \in Int /\ n = w * (w * (w * d)) /\ Stands(i, n, 3)
    BY <1>1
  <2>2. d = 0 => n = 0
    BY <2>1
  <2>3. FeNormalizesToZero(i) <=> Eq(n, 0)
    BY <2>1, StandsZero
  <2>4. Eq(d, 0) => p[2] = q[2]
    <3>1. 0 \in Int /\ 1 \in Int /\ q[2] - p[2] = 1 * (d - 0)
      BY <1>1
    <3>2. Eq(d, 0) => Eq(q[2], p[2])
      BY <1>1, <2>1, <3>1, EqFrom
    <3> QED
      BY <1>1, <3>2, EqValue
  <2>5. p[2] = q[2] => d = 0
    BY <1>1
  <2> HIDE DEF n, d
  <2>6. Eq(n, 0) => Eq(d, 0)
    BY <2>1, EqProductZero
  <2> QED
    BY <2>2, <2>3, <2>4, <2>5, <2>6, EqRefl DEF FeNormalizesToZeroVar
<1>4. CASE p = q
  <2>1. SumOrDouble(a, u1, s1, h, i, z, rzr) = GejDoubleVar(a)
    BY <1>2, <1>3, <1>4 DEF SumOrDouble
  <2> QED
    BY <1>1, <1>4, <2>1, GejDoubleVarIs
<1>5. CASE p # q /\ p[1] = q[1]
  <2>1. p[2] # q[2]
    BY <1>1, <1>5
  <2>2. SumOrDouble(a, u1, s1, h, i, z, rzr).r = [a EXCEPT !.inf = TRUE]
    BY <1>2, <1>3, <1>5, <2>1 DEF SumOrDouble
  <2>3. GejKept([a EXCEPT !.inf = TRUE]) /\ [a EXCEPT !.inf = TRUE].inf
    BY DEF GejIs, GejKept, Gej
  <2>4. Plus(p, q) = Infinity
    BY <1>5, PlusOpposite
  <2> QED
    BY <2>2, <2>3, <2>4 DEF GejIs
<1>6. CASE p[1] # q[1]
  <2>1. SumOrDouble(a, u1, s1, h, i, z, rzr).r = Chord(u1, s1, h, i, z)
    BY <1>2, <1>6 DEF SumOrDouble
  <2>2. /\ Plus(p, q) \in Values \X Values
        /\ \E l \in Int :
             /\ Eq(l * (q[1] - p[1]), q[2] - p[2])
             /\ Eq(l * l - p[1] - q[1], Plus(p, q)[1])
             /\ Eq(l * (p[1] - (l * l - p[1] - q[1])) - p[2], Plus(p, q)[2])
    BY <1>6, PlusAlong
  <2>3. PICK l \in Int :
             /\ Eq(l * (q[1] - p[1]), q[2] - p[2])
             /\ Eq(l * l - p[1] - q[1], Plus(p, q)[1])
             /\ Eq(l * (p[1] - (l * l - p[1] - q[1])) - p[2], Plus(p, q)[2])
    BY <2>2
  <2>4. ~Eq(q[1] - p[1], 0)
    <3>1. SUFFICES ASSUME Eq(q[1] - p[1], 0) PROVE FALSE
      OBVIOUS
    <3>2. 0 \in Int /\ 1 \in Int /\ q[1] - p[1] = 1 * ((q[1] - p[1]) - 0) /\ q[1] - p[1] \in Int
      BY <1>1
    <3>3. Eq(q[1], p[1])
      BY <1>1, <3>1, <3>2, EqFrom
    <3> QED
      BY <1>1, <1>6, <3>3, EqValue
  <2> DEFINE x3 == l * l - p[1] - q[1]
             y3 == l * (p[1] - x3) - p[2]
             W == (q[1] - p[1]) * w * w * w
  <2>5. x3 \in Int /\ y3 \in Int /\ W \in Int
    BY <1>1
  <2>6. GejStands(Chord(u1, s1, h, i, z), x3, y3, W)
    <3>1. y3 = l * (p[1] - x3) - p[2] /\ x3 = l * l - p[1] - q[1]
      OBVIOUS
    <3> HIDE DEF x3, y3
    <3> QED
      BY <1>1, <2>3, <2>4, <2>5, <3>1, ChordFormula
  <2>8. Plus(p, q)[1] \in Int /\ Plus(p, q)[2] \in Int
    BY <2>2, PairOfValues
  <2>9. Eq(x3, Plus(p, q)[1]) /\ Eq(y3, Plus(p, q)[2])
    BY <2>3
  <2> HIDE DEF x3, y3, W
  <2>10. GejStands(Chord(u1, s1, h, i, z), Plus(p, q)[1], Plus(p, q)[2], W)
    BY <2>5, <2>6, <2>8, <2>9, GejMove
  <2> QED
    BY <2>1, <2>2, <2>5, <2>10, GejIsFinite
<1> QED
  BY <1>4, <1>5, <1>6
-----------------------------------------------------------------------------
\* The affine record b is the point q.
GeIs(b, q) ==
    /\ b \in Ge /\ b.x.m <= 6 /\ b.y.m <= 4
    /\ IF q = Infinity THEN b.inf ELSE ~b.inf /\ Stands(b.x, q[1], 2) /\ Stands(b.y, q[2], 2)

\* Infinity is neutral.
LEMMA PlusInfinity == \A q : Plus(Infinity, q) = q /\ Plus(q, Infinity) = q
  BY DEF Plus

\* gej_add_var adds any two points, equal, opposite or at infinity.
LEMMA GejAddVarIs ==
    ASSUME NEW a, NEW b, NEW p \in GroupPoints, NEW q \in GroupPoints, GejIs(a, p), GejIs(b, q)
    PROVE  GejIs(GejAddVar(a, b).r, Plus(p, q))
<1>1. CASE p = Infinity
  BY <1>1, PlusInfinity DEF GejIs, GejAddVar
<1>2. CASE p # Infinity /\ q = Infinity
  <2>1. ~a.inf /\ b.inf
    BY <1>2 DEF GejIs, GejStands
  <2> QED
    BY <1>2, <2>1, PlusInfinity DEF GejAddVar
<1>3. CASE p # Infinity /\ q # Infinity
  <2>1. p \in CurvePoints /\ q \in CurvePoints
    BY <1>3 DEF GroupPoints
  <2>2. p[1] \in Int /\ p[2] \in Int /\ q[1] \in Int /\ q[2] \in Int
    BY <2>1, CurvePointFacts
  <2>3. PICK Z \in Int : GejStands(a, p[1], p[2], Z)
    BY <1>3 DEF GejIs
  <2>4. PICK Y \in Int : GejStands(b, q[1], q[2], Y)
    BY <1>3 DEF GejIs
  <2> DEFINE w == Z * Y
             z22 == FeSqr(b.z)
             z12 == FeSqr(a.z)
             u1 == FeMul(a.x, z22)
             s1 == FeMul(FeMul(a.y, z22), b.z)
             h == FeAdd(FeNegate(u1, 1), FeMul(b.x, z12))
             i == FeAdd(FeNegate(s1, 1), FeMul(FeMul(b.y, z12), a.z))
             hz == FeMul(h, b.z)
             x1 == p[1]
             y1 == p[2]
             x2 == q[1]
             y2 == q[2]
  <2>5. x1 \in Int /\ y1 \in Int /\ x2 \in Int /\ y2 \in Int /\ w \in Int
    BY <2>2
  <2>6. /\ Stands(a.x, x1 * Z * Z, 6) /\ Stands(a.y, y1 * Z * Z * Z, 4) /\ Stands(a.z, Z, 2)
        /\ Stands(b.x, x2 * Y * Y, 6) /\ Stands(b.y, y2 * Y * Y * Y, 4) /\ Stands(b.z, Y, 2)
        /\ ~a.inf /\ ~b.inf /\ ~Eq(Z, 0) /\ ~Eq(Y, 0)
    BY <2>3, <2>4 DEF GejStands
  <2> HIDE DEF x1, y1, x2, y2
  <2>7. Stands(z22, Y * Y, 1) /\ Stands(z12, Z * Z, 1)
    BY <2>6, StandsSqr
  <2> HIDE DEF z22, z12
  <2>8. Stands(u1, x1 * w * w, 1)
    BY <2>5, <2>6, <2>7, StandsMul
  <2>9. Stands(s1, y1 * w * w * w, 1)
    <3>1. Stands(FeMul(a.y, z22), y1 * Z * Z * Z * Y * Y, 1)
      BY <2>5, <2>6, <2>7, StandsMul
    <3> QED
      BY <2>5, <2>6, <3>1, StandsMul
  <2>10. Stands(h, (x2 - x1) * w * w, 3)
    <3>1. Stands(FeNegate(u1, 1), -(x1 * w * w), 2)
      BY <2>5, <2>8, StandsNegate
    <3>2. Stands(FeMul(b.x, z12), x2 * w * w, 1)
      BY <2>5, <2>6, <2>7, StandsMul
    <3> HIDE DEF u1
    <3> QED
      BY <2>5, <3>1, <3>2, StandsAdd
  <2>11. Stands(i, (y2 - y1) * w * w * w, 3)
    <3>1. Stands(FeNegate(s1, 1), -(y1 * w * w * w), 2)
      BY <2>5, <2>9, StandsNegate
    <3>2. Stands(FeMul(b.y, z12), y2 * Y * Y * Y * Z * Z, 1)
      BY <2>5, <2>6, <2>7, StandsMul
    <3>3. Stands(FeMul(FeMul(b.y, z12), a.z), y2 * w * w * w, 1)
      BY <2>5, <2>6, <3>2, StandsMul
    <3> HIDE DEF s1
    <3> QED
      BY <2>5, <3>1, <3>3, StandsAdd
  <2>12. Stands(FeMul(a.z, hz), (x2 - x1) * w * w * w, 2)
    <3>1. Stands(hz, (x2 - x1) * w * w * Y, 1)
      BY <2>5, <2>6, <2>10, StandsMul
    <3>2. Stands(FeMul(a.z, hz), (x2 - x1) * w * w * w, 1)
      <4> HIDE DEF hz
      <4> QED
        BY <2>5, <2>6, <3>1, StandsMul
    <3>3. FeMul(a.z, hz).m \in Int
      BY <3>2, FieldAssumption DEF Stands, Fe, Broken
    <3> QED
      BY <3>2, <3>3 DEF Stands
  <2>13. ~Eq(w, 0)
    BY <2>6, EqProductZero
  <2>14. GejAddVar(a, b) = SumOrDouble(a, u1, s1, h, i, FeMul(a.z, hz), hz)
    BY <2>6 DEF GejAddVar, z22, z12
  <2> HIDE DEF w, u1, s1, h, i, hz
  <2> QED
    BY <2>1, <2>5, <2>8, <2>9, <2>10, <2>11, <2>12, <2>13, <2>14, SumOrDoubleIs DEF x1, y1, x2, y2
<1> QED
  BY <1>1, <1>2, <1>3

\* gej_set_ge keeps the point.
LEMMA GejSetGeIs ==
    ASSUME NEW b, NEW q \in GroupPoints, GeIs(b, q)
    PROVE  GejIs(GejSetGe(b), q)
<1>1. Stands(One, 1, 1) /\ One \in Fe /\ One.m <= 2 /\ Stands(One, 1, 2)
  <2>1. Stands(One, 1, 1)
    BY StandsSetInt DEF One
  <2>2. One.m \in Int
    BY <2>1, FieldAssumption DEF Stands, Fe, Broken
  <2> QED
    BY <2>1, <2>2 DEF Stands
<1>2. GejKept(GejSetGe(b))
  BY <1>1 DEF GejSetGe, GeIs, Ge, Gej, GejKept
<1>3. CASE q # Infinity
  <2>1. q \in CurvePoints
    BY <1>3 DEF GroupPoints
  <2>2. /\ q[1] * 1 * 1 = q[1] /\ q[2] * 1 * 1 * 1 = q[2]
    BY <2>1, CurvePointFacts
  <2>3. ~Eq(1, 0)
    <3>1. 1 \in Values /\ 0 \in Values
      BY PInt DEF Values
    <3> QED
      BY <3>1, EqValue
  <2>4. b.x.m \in Int /\ b.y.m \in Int
    BY FieldAssumption DEF GeIs, Ge, Fe, Broken
  <2>5. GejStands(GejSetGe(b), q[1], q[2], 1)
    BY <1>1, <1>2, <1>3, <2>2, <2>3, <2>4 DEF GejSetGe, GeIs, GejStands, Stands, GejKept
  <2> QED
    BY <1>2, <1>3, <2>5 DEF GejIs
<1>4. CASE q = Infinity
  BY <1>2, <1>4 DEF GejIs, GeIs, GejSetGe
<1> QED
  BY <1>3, <1>4

\* gej_add_ge_var adds any two points.
LEMMA GejAddGeVarIs ==
    ASSUME NEW a, NEW b, NEW p \in GroupPoints, NEW q \in GroupPoints, GejIs(a, p), GeIs(b, q)
    PROVE  GejIs(GejAddGeVar(a, b).r, Plus(p, q))
<1>1. CASE p = Infinity
  BY <1>1, PlusInfinity, GejSetGeIs DEF GejIs, GejAddGeVar
<1>2. CASE p # Infinity /\ q = Infinity
  <2>1. ~a.inf /\ b.inf
    BY <1>2 DEF GejIs, GejStands, GeIs
  <2> QED
    BY <1>2, <2>1, PlusInfinity DEF GejAddGeVar
<1>3. CASE p # Infinity /\ q # Infinity
  <2>1. p \in CurvePoints /\ q \in CurvePoints
    BY <1>3 DEF GroupPoints
  <2>2. p[1] \in Int /\ p[2] \in Int /\ q[1] \in Int /\ q[2] \in Int
    BY <2>1, CurvePointFacts
  <2>3. PICK w \in Int : GejStands(a, p[1], p[2], w)
    BY <1>3 DEF GejIs
  <2> DEFINE z12 == FeSqr(a.z)
             u1 == FeNormalizeWeak(a.x)
             s1 == FeNormalizeWeak(a.y)
             h == FeAdd(FeNegate(u1, 1), FeMul(b.x, z12))
             i == FeAdd(FeNegate(s1, 1), FeMul(FeMul(b.y, z12), a.z))
             z == FeMul(a.z, h)
             x1 == p[1]
             y1 == p[2]
             x2 == q[1]
             y2 == q[2]
  <2>5. x1 \in Int /\ y1 \in Int /\ x2 \in Int /\ y2 \in Int
    BY <2>2
  <2>6. /\ Stands(a.x, x1 * w * w, 6) /\ Stands(a.y, y1 * w * w * w, 4) /\ Stands(a.z, w, 2)
        /\ Stands(b.x, x2, 2) /\ Stands(b.y, y2, 2)
        /\ ~a.inf /\ ~b.inf /\ ~Eq(w, 0)
    BY <1>3, <2>3 DEF GejStands, GeIs
  <2> HIDE DEF x1, y1, x2, y2
  <2>7. Stands(z12, w * w, 1)
    BY <2>6, StandsSqr
  <2> HIDE DEF z12
  <2>8. Stands(u1, x1 * w * w, 1) /\ Stands(s1, y1 * w * w * w, 1)
    BY <2>5, <2>6, StandsNormalize
  <2> HIDE DEF u1, s1
  <2>10. Stands(h, (x2 - x1) * w * w, 3)
    <3>1. Stands(FeNegate(u1, 1), -(x1 * w * w), 2)
      BY <2>5, <2>8, StandsNegate
    <3>2. Stands(FeMul(b.x, z12), x2 * w * w, 1)
      BY <2>5, <2>6, <2>7, StandsMul
    <3> QED
      BY <2>5, <3>1, <3>2, StandsAdd
  <2>11. Stands(i, (y2 - y1) * w * w * w, 3)
    <3>1. Stands(FeNegate(s1, 1), -(y1 * w * w * w), 2)
      BY <2>5, <2>8, StandsNegate
    <3>2. Stands(FeMul(b.y, z12), y2 * w * w, 1)
      BY <2>5, <2>6, <2>7, StandsMul
    <3>3. Stands(FeMul(FeMul(b.y, z12), a.z), y2 * w * w * w, 1)
      BY <2>5, <2>6, <3>2, StandsMul
    <3> QED
      BY <2>5, <3>1, <3>3, StandsAdd
  <2>12. Stands(z, (x2 - x1) * w * w * w, 2)
    <3>2. Stands(z, (x2 - x1) * w * w * w, 1)
      <4> HIDE DEF h
      <4> QED
        BY <2>5, <2>6, <2>10, StandsMul
    <3>3. z.m \in Int
      BY <3>2, FieldAssumption DEF Stands, Fe, Broken
    <3> HIDE DEF z
    <3> QED
      BY <3>2, <3>3 DEF Stands
  <2>14. GejAddGeVar(a, b) = SumOrDouble(a, u1, s1, h, i, z, h)
    BY <2>6 DEF GejAddGeVar, z12, u1, s1
  <2> HIDE DEF h, i, z
  <2> QED
    BY <2>1, <2>5, <2>6, <2>8, <2>10, <2>11, <2>12, <2>14, SumOrDoubleIs DEF x1, y1, x2, y2
<1> QED
  BY <1>1, <1>2, <1>3
-----------------------------------------------------------------------------
\* ZScales cancel with their inverses.
LEMMA EqInverse ==
    ASSUME NEW Z \in Int, NEW k \in Int, Eq(Z * k, 1), NEW n \in Int
    PROVE  /\ Eq(n * Z * Z * k * k, n)
           /\ Eq(n * Z * Z * Z * k * k * k, n)
<1> DEFINE e == Z * k
           o == 1
           c == n * Z * Z * k * k
           d == n * Z * Z * Z * k * k * k
           f == n * (e + 1)
           g == n * (e * e + e + 1)
<1>1. /\ e \in Int /\ o \in Int /\ c \in Int /\ d \in Int /\ f \in Int /\ g \in Int
      /\ c - n = f * (e - o) /\ d - n = g * (e - o) /\ Eq(e, o)
  OBVIOUS
<1> HIDE DEF e, o, c, d, f, g
<1>2. Eq(c, n) /\ Eq(d, n)
  BY <1>1, EqFrom
<1> QED
  BY <1>2 DEF c, d

\* ge_set_gej_zinv divides the scale out of the coordinates.
LEMMA ZinvFormula ==
    ASSUME NEW b, NEW zi, NEW x \in Int, NEW y \in Int, NEW Z \in Int, NEW k \in Int,
           Stands(b.x, x * Z * Z, 8), Stands(b.y, y * Z * Z * Z, 8), Stands(zi, k, 8),
           Eq(Z * k, 1), b.inf \in BOOLEAN
    PROVE  LET r == GeSetGejZinv(b, zi)
           IN  r \in Ge /\ r.inf = b.inf /\ Stands(r.x, x, 1) /\ Stands(r.y, y, 1)
<1> DEFINE zi2 == FeSqr(zi)
           xr == FeMul(b.x, zi2)
           yr == FeMul(b.y, FeMul(zi2, zi))
<1>1. Stands(zi2, k * k, 1)
  BY StandsSqr
<1> HIDE DEF zi2
<1>2. Stands(xr, x, 1)
  <2> DEFINE c == x * Z * Z * k * k
  <2>1. c \in Int /\ Eq(c, x) /\ Stands(xr, c, 1)
    BY <1>1, StandsMul, EqInverse
  <2> HIDE DEF c, xr
  <2> QED
    BY <2>1, StandsEq
<1>3. Stands(yr, y, 1)
  <2> DEFINE c == y * Z * Z * Z * k * k * k
  <2>1. Stands(FeMul(zi2, zi), k * k * k, 1)
    BY <1>1, StandsMul
  <2>2. c \in Int /\ Eq(c, y) /\ Stands(yr, c, 1)
    BY <2>1, StandsMul, EqInverse
  <2> HIDE DEF c, yr
  <2> QED
    BY <2>2, StandsEq
<1>4. GeSetGejZinv(b, zi) = [x |-> xr, y |-> yr, inf |-> b.inf]
  BY DEF GeSetGejZinv, zi2
<1>5. xr \in Fe /\ yr \in Fe
  BY <1>2, <1>3 DEF Stands
<1> HIDE DEF xr, yr
<1> QED
  BY <1>2, <1>3, <1>4, <1>5 DEF Ge

\* gej_add_zinv_var adds a point and an affine one on another curve, whose scale it is
\* given the inverse of.
LEMMA GejAddZinvVarIs ==
    ASSUME NEW a, NEW b, NEW bzinv, NEW p \in GroupPoints, NEW q \in CurvePoints, GejIs(a, p),
           NEW Y \in Int, NEW k \in Int, Eq(Y * k, 1), Stands(bzinv, k, 1),
           Stands(b.x, q[1] * Y * Y, 6), Stands(b.y, q[2] * Y * Y * Y, 4), b.inf = FALSE
    PROVE  GejIs(GejAddZinvVar(a, b, bzinv), Plus(p, q))
<1>q. /\ q[1] \in Int /\ q[2] \in Int /\ q # Infinity /\ q \in GroupPoints
      /\ q \in Values \X Values
  BY CurvePointFacts
<1>1. CASE p = Infinity
  <2> DEFINE c == [x |-> b.x, y |-> b.y, inf |-> FALSE]
             r == GeSetGejZinv(c, bzinv)
             x == q[1]
             y == q[2]
  <2>1. /\ x \in Int /\ y \in Int /\ c.inf \in BOOLEAN
        /\ Stands(c.x, x * Y * Y, 8) /\ Stands(c.y, y * Y * Y * Y, 8) /\ Stands(bzinv, k, 8)
    <3>1. b.x.m \in Int /\ b.y.m \in Int /\ bzinv.m \in Int
      BY FieldAssumption DEF Stands, Fe, Broken
    <3> QED
      BY <1>q, <3>1 DEF Stands
  <2> HIDE DEF x, y
  <2>2. r \in Ge /\ r.inf = c.inf /\ Stands(r.x, x, 1) /\ Stands(r.y, y, 1)
    BY <2>1, ZinvFormula
  <2>3. r.inf = FALSE
    BY <2>2
  <2>4. Stands(r.x, x, 2) /\ Stands(r.y, y, 2) /\ r.x.m <= 6 /\ r.y.m <= 4
    <3>1. r.x.m \in Int /\ r.y.m \in Int
      BY <2>2, FieldAssumption DEF Stands, Fe, Broken
    <3> QED
      BY <2>2, <3>1 DEF Stands
  <2>5. GeIs(r, q)
    BY <1>q, <2>2, <2>3, <2>4 DEF GeIs, x, y
  <2>6. GejAddZinvVar(a, b, bzinv) = GejSetGe(r)
    BY <1>1 DEF GejIs, GejAddZinvVar
  <2> HIDE DEF r
  <2> QED
    BY <1>1, <1>q, <2>5, <2>6, GejSetGeIs, PlusInfinity
<1>3. CASE p # Infinity
  <2>1. p \in CurvePoints
    BY <1>3 DEF GroupPoints
  <2>2. p[1] \in Int /\ p[2] \in Int
    BY <2>1, CurvePointFacts
  <2>3. PICK w \in Int : GejStands(a, p[1], p[2], w)
    BY <1>3 DEF GejIs
  <2> DEFINE az == FeMul(a.z, bzinv)
             z12 == FeSqr(az)
             u1 == FeNormalizeWeak(a.x)
             s1 == FeNormalizeWeak(a.y)
             h == FeAdd(FeNegate(u1, 1), FeMul(b.x, z12))
             i == FeAdd(FeNegate(s1, 1), FeMul(FeMul(b.y, z12), az))
             z == FeMul(a.z, h)
             x1 == p[1]
             y1 == p[2]
             x2 == q[1]
             y2 == q[2]
  <2>5. x1 \in Int /\ y1 \in Int /\ x2 \in Int /\ y2 \in Int
    BY <1>q, <2>2
  <2>6. /\ Stands(a.x, x1 * w * w, 6) /\ Stands(a.y, y1 * w * w * w, 4) /\ Stands(a.z, w, 2)
        /\ Stands(b.x, x2 * Y * Y, 6) /\ Stands(b.y, y2 * Y * Y * Y, 4)
        /\ ~a.inf /\ ~b.inf /\ ~Eq(w, 0)
    BY <1>3, <2>3 DEF GejStands
  <2> HIDE DEF x1, y1, x2, y2
  <2>a. Stands(az, w * k, 1)
    BY <2>6, StandsMul
  <2> HIDE DEF az
  <2>7. Stands(z12, w * w * k * k, 1)
    <3>1. w * k \in Int /\ w * w * k * k \in Int /\ w * w * k * k = (w * k) * (w * k)
      OBVIOUS
    <3> QED
      BY <2>a, <3>1, StandsSqr
  <2> HIDE DEF z12
  <2>8. Stands(u1, x1 * w * w, 1) /\ Stands(s1, y1 * w * w * w, 1)
    BY <2>5, <2>6, StandsNormalize
  <2> HIDE DEF u1, s1
  <2>10. Stands(h, (x2 - x1) * w * w, 3)
    <3>1. Stands(FeNegate(u1, 1), -(x1 * w * w), 2)
      BY <2>5, <2>8, StandsNegate
    <3>2. Stands(FeMul(b.x, z12), x2 * w * w, 1)
      <4> DEFINE n == x2 * w * w
                 c == n * Y * Y * k * k
      <4>1. n \in Int /\ c \in Int /\ c = (x2 * Y * Y) * (w * w * k * k)
        BY <2>5
      <4>2. Stands(FeMul(b.x, z12), c, 1)
        <5> HIDE DEF c
        <5> QED
          BY <2>5, <2>6, <2>7, <4>1, StandsMul
      <4> HIDE DEF n
      <4>3. Eq(c, n)
        BY <4>1, EqInverse
      <4> HIDE DEF c
      <4>4. Stands(FeMul(b.x, z12), n, 1)
        BY <4>1, <4>2, <4>3, StandsEq
      <4> QED
        BY <4>4 DEF n
    <3> QED
      BY <2>5, <3>1, <3>2, StandsAdd
  <2>11. Stands(i, (y2 - y1) * w * w * w, 3)
    <3>1. Stands(FeNegate(s1, 1), -(y1 * w * w * w), 2)
      BY <2>5, <2>8, StandsNegate
    <3>2. Stands(FeMul(b.y, z12), y2 * Y * Y * Y * w * w * k * k, 1)
      BY <2>5, <2>6, <2>7, StandsMul
    <3>3. Stands(FeMul(FeMul(b.y, z12), az), y2 * w * w * w, 1)
      <4> DEFINE n == y2 * w * w * w
                 c == n * Y * Y * Y * k * k * k
      <4>1. n \in Int /\ c \in Int /\ c = (y2 * Y * Y * Y * w * w * k * k) * (w * k)
        BY <2>5
      <4>2. Stands(FeMul(FeMul(b.y, z12), az), c, 1)
        <5> HIDE DEF c
        <5> QED
          BY <2>5, <2>a, <3>2, <4>1, StandsMul
      <4> HIDE DEF n
      <4>3. Eq(c, n)
        BY <4>1, EqInverse
      <4> HIDE DEF c
      <4>4. Stands(FeMul(FeMul(b.y, z12), az), n, 1)
        BY <4>1, <4>2, <4>3, StandsEq
      <4> QED
        BY <4>4 DEF n
    <3> QED
      BY <2>5, <3>1, <3>3, StandsAdd
  <2>12. Stands(z, (x2 - x1) * w * w * w, 2)
    <3>2. Stands(z, (x2 - x1) * w * w * w, 1)
      <4> HIDE DEF h
      <4> QED
        BY <2>5, <2>6, <2>10, StandsMul
    <3>3. z.m \in Int
      BY <3>2, FieldAssumption DEF Stands, Fe, Broken
    <3> HIDE DEF z
    <3> QED
      BY <3>2, <3>3 DEF Stands
  <2>14. GejAddZinvVar(a, b, bzinv) = SumOrDouble(a, u1, s1, h, i, z, h).r
    BY <2>6 DEF GejAddZinvVar, az, z12, u1, s1
  <2> HIDE DEF h, i, z
  <2> QED
    BY <2>1, <2>5, <2>6, <2>8, <2>10, <2>11, <2>12, <2>14, SumOrDoubleIs DEF x1, y1, x2, y2
<1> QED
  BY <1>1, <1>3
-----------------------------------------------------------------------------
\* The two expressions of lambda in gej_add_ge, for finite points: where the first one is
\* 0 / 0 the second one is not, both have the slope of the textbook law, and the
\* denominator is 0 exactly for opposite points.
LEMMA LambdaTerms ==
    ASSUME NEW p \in CurvePoints, NEW q \in CurvePoints, NEW w \in Int, ~Eq(w, 0)
    PROVE  LET m == (p[2] + q[2]) * w * w * w
               rr == (p[1] * p[1] + p[1] * q[1] + q[1] * q[1]) * w * w * w * w
               mA == IF Eq(m, 0) /\ Eq(rr, 0) THEN (p[1] - q[1]) * w * w ELSE m
               rA == IF Eq(m, 0) /\ Eq(rr, 0) THEN 2 * p[2] * w * w * w ELSE rr
           IN  /\ Eq(m, 0) => Eq(p[2] + q[2], 0)
               /\ Eq(mA, 0) => p[1] = q[1] /\ p # q
               /\ ~Eq(mA, 0) =>
                    /\ p[1] = q[1] => p = q
                    /\ \A l \in Int :
                         /\ Eq(l * (q[1] - p[1]), q[2] - p[2])
                         /\ p = q => Eq(l * (2 * p[2]), 3 * p[1] * p[1])
                         => Eq(rA, l * w * mA)
<1> DEFINE x1 == p[1]
           y1 == p[2]
           x2 == q[1]
           y2 == q[2]
           s == y1 + y2
           d == x2 - x1
           e == y2 - y1
           c == x1 * x1 + x1 * x2 + x2 * x2
           m == (y1 + y2) * w * w * w
           rr == (x1 * x1 + x1 * x2 + x2 * x2) * w * w * w * w
           mA == IF Eq(m, 0) /\ Eq(rr, 0) THEN (x1 - x2) * w * w ELSE m
           rA == IF Eq(m, 0) /\ Eq(rr, 0) THEN 2 * y1 * w * w * w ELSE rr
<1>1. /\ x1 \in Values /\ x2 \in Values /\ y1 \in Values /\ y2 \in Values
      /\ x1 \in Int /\ x2 \in Int /\ y1 \in Int /\ y2 \in Int
      /\ p = <<x1, y1>> /\ q = <<x2, y2>> /\ ~Eq(2 * y1, 0)
  BY CurvePointFacts
<1> HIDE DEF x1, x2, y1, y2
<1>2. /\ s \in Int /\ d \in Int /\ e \in Int /\ c \in Int /\ m \in Int /\ rr \in Int
      /\ 0 \in Int /\ 1 \in Int
  BY <1>1
<1>3. Eq(e * s, d * c)
  <2> DEFINE f == x1 * x1 * x1 + CurveB
             g == x2 * x2 * x2 + CurveB
             f2 == y1 * y1
             g2 == y2 * y2
             es == e * s
             dc == d * c
  <2>1. /\ f \in Int /\ g \in Int /\ f2 \in Int /\ g2 \in Int /\ es \in Int /\ dc \in Int
        /\ es = g2 - f2 /\ dc = g - f
    BY <1>1, CurveAssumption
  <2>2. Eq(f2, f) /\ Eq(g2, g)
    BY CurvePointFacts DEF x1, x2, y1, y2
  <2> HIDE DEF f, g, f2, g2, es, dc
  <2>4. Eq(es, dc)
    BY <2>1, <2>2, EqSub
  <2> QED
    BY <2>4 DEF es, dc
<1>4. Eq(d, 0) => x1 = x2
  <2>1. x2 - x1 = 1 * (d - 0)
    BY <1>1
  <2>2. Eq(d, 0) => Eq(x2, x1)
    BY <1>1, <1>2, <2>1, EqFrom
  <2> QED
    BY <1>1, <2>2, EqValue
<1>5. Eq(e, 0) => y1 = y2
  <2>1. y2 - y1 = 1 * (e - 0)
    BY <1>1
  <2>2. Eq(e, 0) => Eq(y2, y1)
    BY <1>1, <1>2, <2>1, EqFrom
  <2> QED
    BY <1>1, <2>2, EqValue
<1>6. m = w * (w * (w * s)) /\ rr = w * (w * (w * (w * c)))
  BY <1>1
<1>7. Eq(m, 0) <=> Eq(s, 0)
  <2> HIDE DEF m, s
  <2>1. Eq(m, 0) => Eq(s, 0)
    BY <1>2, <1>6, EqProductZero
  <2>2. Eq(s, 0) => Eq(m, 0)
    <3>1. w * w * w \in Int /\ m - 0 = (w * w * w) * (s - 0)
      BY <1>2, <1>6
    <3> QED
      BY <1>2, <3>1, EqFrom
  <2> QED
    BY <2>1, <2>2
<1>8. Eq(s, 0) /\ x1 # x2 => Eq(rr, 0)
  <2>1. ASSUME Eq(s, 0), x1 # x2 PROVE Eq(rr, 0)
    <3> DEFINE es == e * s
               dc == d * c
    <3>1. es \in Int /\ dc \in Int /\ es - 0 = e * (s - 0) /\ rr - 0 = (w * w * w * w) * (c - 0)
          /\ w * w * w * w \in Int
      BY <1>1
    <3>2. Eq(es, dc)
      BY <1>3
    <3> HIDE DEF es, d, c, s, e, rr
    <3>3. Eq(es, 0)
      BY <1>2, <2>1, <3>1, EqFrom
    <3>4. Eq(dc, 0)
      BY <1>2, <3>1, <3>2, <3>3, EqSym, EqTrans
    <3>5. Eq(c, 0)
      BY <1>2, <1>4, <2>1, <3>4, EqProductZero
    <3> QED
      BY <1>2, <3>1, <3>5, EqFrom
  <2> QED
    BY <2>1
<1>9. Eq(s, 0) /\ x1 = x2 => p # q /\ Eq(mA, 0)
  <2>1. ASSUME Eq(s, 0), x1 = x2 PROVE p # q /\ Eq(mA, 0)
    <3>1. y1 # y2
      <4>1. y1 = y2 => s = 2 * y1
        BY <1>1
      <4> QED
        BY <1>1, <2>1, <4>1
    <3>2. (x1 - x2) * w * w = 0
      BY <1>1, <2>1
    <3> QED
      BY <1>1, <1>2, <1>7, <2>1, <3>1, <3>2, EqRefl
  <2> QED
    BY <2>1
<1>10. Eq(s, 0) /\ x1 # x2 => ~Eq(mA, 0)
  <2>1. ASSUME Eq(s, 0), x1 # x2, Eq(mA, 0) PROVE FALSE
    <3>1. mA = (x1 - x2) * w * w
      BY <1>7, <1>8, <2>1
    <3> DEFINE n == (x1 - x2) * w * w
    <3>2. n \in Int /\ n = w * (w * (x1 - x2)) /\ x1 - x2 \in Int /\ d - 0 = (-1) * ((x1 - x2) - 0)
          /\ -1 \in Int
      BY <1>1
    <3>3. Eq(n, 0)
      BY <2>1, <3>1
    <3> HIDE DEF n
    <3>4. Eq(x1 - x2, 0)
      BY <3>2, <3>3, EqProductZero
    <3> DEFINE f == x1 - x2
    <3>5. f \in Int /\ Eq(f, 0) /\ d - 0 = (-1) * (f - 0)
      BY <3>2, <3>4
    <3> HIDE DEF f, d
    <3>6. Eq(d, 0)
      BY <1>2, <3>2, <3>5, EqFrom
    <3> QED
      BY <1>4, <2>1, <3>6
  <2> QED
    BY <2>1
<1>11. ~Eq(s, 0) => mA = m /\ rA = rr /\ ~Eq(mA, 0) /\ (x1 = x2 => p = q)
  <2>1. ASSUME ~Eq(s, 0), x1 = x2 PROVE y1 = y2
    <3> DEFINE es == e * s
               dc == d * c
    <3>1. es \in Int /\ dc = 0
      BY <1>1, <2>1
    <3>2. Eq(es, 0)
      BY <1>3, <3>1
    <3> HIDE DEF e, s
    <3> QED
      BY <1>2, <1>5, <2>1, <3>2, EqProductZero
  <2> QED
    BY <1>1, <1>7, <2>1
<1>12. ASSUME NEW l \in Int, Eq(l * d, e), p = q => Eq(l * (2 * y1), 3 * x1 * x1), ~Eq(mA, 0)
       PROVE  Eq(rA, l * w * mA)
  <2>1. CASE Eq(s, 0)
    <3>1. x1 # x2
      BY <1>9, <1>12, <2>1
    <3>2. mA = (x1 - x2) * w * w /\ rA = 2 * y1 * w * w * w
      BY <1>7, <1>8, <2>1, <3>1
    <3> DEFINE r == 2 * y1 * w * w * w
               n == l * w * ((x1 - x2) * w * w)
               ld == l * d
               ww == w * w * w
    <3>3. /\ r \in Int /\ n \in Int /\ ld \in Int /\ ww \in Int
          /\ r - n = ww * (s - 0) + ww * (ld - e)
      BY <1>1
    <3>4. Eq(ld, e) /\ Eq(s, 0)
      BY <1>12, <2>1
    <3> HIDE DEF r, n, ld, ww, s, e
    <3>5. Eq(r, n)
      BY <1>2, <3>3, <3>4, EqFromTwo
    <3> QED
      BY <3>2, <3>5 DEF r, n
  <2>2. CASE ~Eq(s, 0)
    <3> DEFINE ww == w * w * w * w
               ls == l * s
               n == l * w * m
    <3>1. Eq(c, ls)
      <4>1. CASE p = q
        <5> DEFINE f == l * (2 * y1)
                   g == 3 * x1 * x1
        <5>1. x1 = x2 /\ y1 = y2
          BY <4>1 DEF x1, x2, y1, y2
        <5>2. ls = f /\ c = g /\ f \in Int /\ g \in Int
          BY <1>1, <5>1
        <5>3. Eq(f, g)
          BY <1>12, <4>1
        <5> HIDE DEF f, g
        <5> QED
          BY <5>2, <5>3, EqSym
      <4>2. CASE p # q
        <5>1. ~Eq(d, 0)
          BY <1>4, <1>11, <2>2, <4>2
        <5> DEFINE dl == d * ls
                   dc == d * c
                   es == e * s
                   ld == l * d
        <5>2. /\ dl \in Int /\ dc \in Int /\ es \in Int /\ ls \in Int /\ ld \in Int
              /\ dl - es = s * (ld - e)
          BY <1>1
        <5>3. Eq(ld, e) /\ Eq(es, dc)
          BY <1>3, <1>12
        <5> HIDE DEF e, s, ld, ls, c, d, es
        <5>4. Eq(dl, es)
          <6> HIDE DEF dl
          <6> QED
            BY <1>2, <5>2, <5>3, EqFrom
        <5>5. Eq(dc, dl)
          BY <1>2, <5>2, <5>3, <5>4, EqSym, EqTrans
        <5> QED
          BY <1>2, <5>1, <5>2, <5>5, EqCancel
      <4> QED
        BY <4>1, <4>2
    <3>2. ww \in Int /\ ls \in Int /\ n \in Int /\ rr - n = ww * (c - ls)
      BY <1>1
    <3> HIDE DEF ww, ls, n, c, rr
    <3>3. Eq(rr, n)
      BY <1>2, <3>1, <3>2, EqFrom
    <3> QED
      BY <1>11, <2>2, <3>3 DEF n
  <2> QED
    BY <2>1, <2>2
<1>13. Eq(mA, 0) => x1 = x2 /\ p # q
  BY <1>9, <1>10, <1>11
<1>14. ~Eq(mA, 0) => (x1 = x2 => p = q)
  BY <1>9, <1>11
<1>15. Eq(m, 0) => Eq(s, 0)
  BY <1>7
<1> QED
  BY <1>12, <1>13, <1>14, <1>15 DEF x1, x2, y1, y2
-----------------------------------------------------------------------------
\* What the first lines of gej_add_ge compute: t, m, the two expressions of lambda and
\* the flag that picks one.
AddGeParts(a, b, tv, mv, rv, sv, dv) ==
    \E t, m, rrAlt, mAlt, degenerate :
      /\ degenerate \in BOOLEAN
      /\ degenerate <=> Eq(mv, 0) /\ Eq(rv, 0)
      /\ Stands(t, tv, 2) /\ Stands(m, mv, 2)
      /\ Stands(rrAlt, IF degenerate THEN sv ELSE rv, 2)
      /\ Stands(mAlt, IF degenerate THEN dv ELSE mv, 3)
      /\ GejAddGe(a, b) = AddAlong(a, b, t, m, degenerate, rrAlt, mAlt)

\* The first lines of gej_add_ge stand for those terms, with the magnitudes its comments
\* state.
LEMMA AddGeTerms ==
    ASSUME NEW a, NEW b, NEW xa \in Int, NEW ya \in Int, NEW w \in Int,
           NEW x2 \in Int, NEW y2 \in Int,
           Stands(a.x, xa, 6), Stands(a.y, ya, 4), Stands(a.z, w, 2),
           Stands(b.x, x2, 2), Stands(b.y, y2, 2)
    PROVE  \A tv, mv, rv, sv, dv \in Int :
             /\ tv = xa + x2 * w * w /\ mv = ya + y2 * w * w * w
             /\ rv = (xa + x2 * w * w) * (xa + x2 * w * w) - xa * x2 * w * w
             /\ sv = 2 * ya /\ dv = xa - x2 * w * w
             => AddGeParts(a, b, tv, mv, rv, sv, dv)
<1> DEFINE zz == FeSqr(a.z)
           u1 == FeNormalizeWeak(a.x)
           u2 == FeMul(b.x, zz)
           s1 == FeNormalizeWeak(a.y)
           s2 == FeMul(FeMul(b.y, zz), a.z)
           t == FeAdd(u1, u2)
           m == FeAdd(s1, s2)
           nu2 == FeNegate(u2, 1)
           rr == FeAdd(FeSqr(t), FeMul(u1, nu2))
           degenerate == FeNormalizesToZero(m) /\ FeNormalizesToZero(rr)
           rrAlt == FeCmov(FeMulInt(s1, 2), rr, ~degenerate)
           mAlt == FeCmov(FeAdd(nu2, u1), m, ~degenerate)
           mv == ya + y2 * w * w * w
           rv == (xa + x2 * w * w) * (xa + x2 * w * w) - xa * x2 * w * w
<1>1. Stands(zz, w * w, 1)
  BY StandsSqr
<1>2. Stands(u1, xa, 1) /\ Stands(s1, ya, 1)
  BY StandsNormalize
<1>3. GejAddGe(a, b) = AddAlong(a, b, t, m, degenerate, rrAlt, mAlt)
  BY DEF GejAddGe
<1> HIDE DEF zz, u1, s1
<1>4. Stands(u2, x2 * w * w, 1)
  BY <1>1, StandsMul
<1>5. Stands(s2, y2 * w * w * w, 1)
  <2>1. Stands(FeMul(b.y, zz), y2 * w * w, 1)
    BY <1>1, StandsMul
  <2> QED
    BY <2>1, StandsMul
<1> HIDE DEF u2, s2
<1>6. Stands(t, xa + x2 * w * w, 2)
  BY <1>2, <1>4, StandsAdd
<1>7. Stands(m, mv, 2)
  BY <1>2, <1>5, StandsAdd
<1>8. Stands(nu2, -(x2 * w * w), 2)
  BY <1>4, StandsNegate
<1> HIDE DEF t, m, nu2
<1>9. Stands(rr, rv, 2)
  <2>1. Stands(FeSqr(t), (xa + x2 * w * w) * (xa + x2 * w * w), 1)
    <3> DEFINE n == xa + x2 * w * w
    <3>1. n \in Int /\ Stands(t, n, 2)
      BY <1>6
    <3> HIDE DEF n
    <3>2. Stands(FeSqr(t), n * n, 1)
      BY <3>1, StandsSqr
    <3> QED
      BY <3>2 DEF n
  <2>2. Stands(FeMul(u1, nu2), -(xa * x2 * w * w), 1)
    BY <1>2, <1>8, StandsMul
  <2> QED
    BY <2>1, <2>2, StandsAdd
<1>0. mv \in Int /\ rv \in Int
  OBVIOUS
<1> HIDE DEF rr, mv, rv
<1>10. degenerate <=> Eq(mv, 0) /\ Eq(rv, 0)
  <2>1. FeNormalizesToZero(m) <=> Eq(mv, 0)
    BY <1>0, <1>7, StandsZero
  <2>2. FeNormalizesToZero(rr) <=> Eq(rv, 0)
    BY <1>0, <1>9, StandsZero
  <2> QED
    BY <2>1, <2>2
<1>11. degenerate \in BOOLEAN /\ (~degenerate) \in BOOLEAN
  BY <1>10
<1>12. Stands(rrAlt, IF degenerate THEN 2 * ya ELSE rv, 2)
  <2> DEFINE i == FeMulInt(s1, 2)
             j == 2 * ya
             c == ~degenerate
  <2>1. Stands(i, j, 2) /\ j \in Int /\ c \in BOOLEAN
    BY <1>2, <1>11, StandsMulInt
  <2> HIDE DEF degenerate, i, j, c
  <2>2. Stands(FeCmov(i, rr, c), IF c THEN rv ELSE j, 2)
    BY <1>0, <1>9, <2>1, StandsCmov
  <2> QED
    BY <1>11, <2>2 DEF i, j, c
<1>13. Stands(mAlt, IF degenerate THEN xa - x2 * w * w ELSE mv, 3)
  <2> DEFINE i == FeAdd(nu2, u1)
             j == xa - x2 * w * w
             c == ~degenerate
  <2>1. Stands(i, j, 3) /\ j \in Int /\ c \in BOOLEAN
    BY <1>2, <1>8, <1>11, StandsAdd
  <2> HIDE DEF degenerate, i, j, c
  <2>a. mv \in Int /\ Stands(m, mv, 2) /\ 2 \in Int /\ 3 \in Int /\ 2 <= 3 /\ 3 <= 3
    BY <1>0, <1>7
  <2>2. Stands(FeCmov(i, m, c), IF c THEN mv ELSE j, 3)
    BY <2>1, <2>a, StandsCmov
  <2> QED
    BY <1>11, <2>2 DEF i, j, c
<1> HIDE DEF degenerate, rrAlt, mAlt
<1> DEFINE tv == xa + x2 * w * w
           sv == 2 * ya
           dv == xa - x2 * w * w
<1>14. Stands(t, tv, 2) /\ Stands(rrAlt, IF degenerate THEN sv ELSE rv, 2)
       /\ Stands(mAlt, IF degenerate THEN dv ELSE mv, 3)
  BY <1>6, <1>12, <1>13
<1> HIDE DEF tv, sv, dv
<1>15. AddGeParts(a, b, tv, mv, rv, sv, dv)
  BY <1>3, <1>7, <1>10, <1>11, <1>14 DEF AddGeParts
<1> QED
  BY <1>15 DEF tv, sv, dv, mv, rv

\* gej_add_ge adds in constant time whatever the two points are: its one formula covers
\* doubles, opposite points, infinity and the case y1 = -y2 with different x.
THEOREM GejAddGeIs ==
    ASSUME NEW a, NEW b, NEW p \in GroupPoints, NEW q \in CurvePoints, GejIs(a, p), GeIs(b, q)
    PROVE  GejIs(GejAddGe(a, b), Plus(p, q))
<1> DEFINE x2 == q[1]
           y2 == q[2]
<1>1. /\ x2 \in Int /\ y2 \in Int /\ q # Infinity /\ q \in Values \X Values
      /\ Stands(b.x, x2, 2) /\ Stands(b.y, y2, 2) /\ Stands(b.x, x2, 4) /\ Stands(b.y, y2, 4)
      /\ Stands(b.x, x2, 6)
  <2>1. /\ x2 \in Int /\ y2 \in Int /\ q # Infinity /\ q \in Values \X Values
    BY CurvePointFacts
  <2>2. b.x.m \in Int /\ b.y.m \in Int
    BY FieldAssumption DEF GeIs, Ge, Fe, Broken
  <2> QED
    BY <2>1, <2>2 DEF GeIs, Stands
<1>2. CASE p = Infinity
  <2> DEFINE xa == a.x.v
             ya == a.y.v
             w == a.z.v
             mv == ya + y2 * w * w * w
             rv == (xa + x2 * w * w) * (xa + x2 * w * w) - xa * x2 * w * w
  <2>1. /\ xa \in Int /\ ya \in Int /\ w \in Int
        /\ Stands(a.x, xa, 6) /\ Stands(a.y, ya, 4) /\ Stands(a.z, w, 2) /\ a \in Gej /\ a.inf
    BY <1>2, StandsSelf DEF GejIs, GejKept, Gej
  <2> HIDE DEF xa, ya, w, x2, y2
  <2>2. mv \in Int /\ rv \in Int
    BY <1>1, <2>1
  <2> DEFINE tv == xa + x2 * w * w
             sv == 2 * ya
             dv == xa - x2 * w * w
  <2>4. tv \in Int /\ sv \in Int /\ dv \in Int
    BY <1>1, <2>1
  <2>p. AddGeParts(a, b, tv, mv, rv, sv, dv)
    <3>1. /\ tv = xa + x2 * w * w /\ mv = ya + y2 * w * w * w
          /\ rv = (xa + x2 * w * w) * (xa + x2 * w * w) - xa * x2 * w * w
          /\ sv = 2 * ya /\ dv = xa - x2 * w * w
      OBVIOUS
    <3> HIDE DEF tv, mv, rv, sv, dv
    <3> QED
      BY <1>1, <2>1, <2>2, <2>4, <3>1, AddGeTerms
  <2> HIDE DEF tv, mv, rv, sv, dv
  <2>3. PICK t, m, rrAlt, mAlt, degenerate :
      /\ degenerate \in BOOLEAN
      /\ Stands(t, tv, 2) /\ Stands(m, mv, 2)
      /\ Stands(rrAlt, IF degenerate THEN sv ELSE rv, 2)
      /\ Stands(mAlt, IF degenerate THEN dv ELSE mv, 3)
      /\ GejAddGe(a, b) = AddAlong(a, b, t, m, degenerate, rrAlt, mAlt)
    BY <2>p DEF AddGeParts
  <2> DEFINE ra == IF degenerate THEN sv ELSE rv
             ma == IF degenerate THEN dv ELSE mv
             r == AddAlong(a, b, t, m, degenerate, rrAlt, mAlt)
  <2>5. ra \in Int /\ ma \in Int
    BY <2>2, <2>4
  <2>s. Stands(rrAlt, ra, 2) /\ Stands(mAlt, ma, 3)
    BY <2>3
  <2> HIDE DEF ra, ma
  <2>6. GejKept(r) /\ ~r.inf /\ Stands(r.x, x2, 6) /\ Stands(r.y, y2, 4) /\ Stands(r.z, 1, 2)
    BY <1>1, <2>1, <2>2, <2>3, <2>4, <2>5, <2>s, AlongKept
  <2> HIDE DEF r
  <2>7. GejStands(r, x2, y2, 1)
    <3>1. x2 * 1 * 1 = x2 /\ y2 * 1 * 1 * 1 = y2
      BY <1>1
    <3>2. ~Eq(1, 0)
      <4>1. 1 \in Values /\ 0 \in Values
        BY PInt DEF Values
      <4> QED
        BY <4>1, EqValue
    <3>3. r.x.m \in Int
      BY <2>6, FieldAssumption DEF Stands, Fe, Broken
    <3> QED
      BY <2>6, <3>1, <3>2, <3>3 DEF GejStands, GejKept, Stands
  <2>8. GejIs(r, q)
    BY <1>1, <2>7, GejIsFinite DEF x2, y2
  <2> QED
    BY <1>2, <2>3, <2>8, PlusInfinity DEF r
<1>3. CASE p # Infinity
  <2>p. p \in CurvePoints
    BY <1>3 DEF GroupPoints
  <2>q. p[1] \in Int /\ p[2] \in Int
    BY <2>p, CurvePointFacts
  <2>z. PICK w \in Int : GejStands(a, p[1], p[2], w)
    BY <1>3 DEF GejIs
  <2> DEFINE x1 == p[1]
             y1 == p[2]
             xa == x1 * w * w
             ya == y1 * w * w * w
             mv == (y1 + y2) * w * w * w
             rv == (x1 * x1 + x1 * x2 + x2 * x2) * w * w * w * w
             mA == IF Eq(mv, 0) /\ Eq(rv, 0) THEN (x1 - x2) * w * w ELSE mv
             rA == IF Eq(mv, 0) /\ Eq(rv, 0) THEN 2 * y1 * w * w * w ELSE rv
  <2>1. /\ xa \in Int /\ ya \in Int /\ w \in Int /\ x1 \in Int /\ y1 \in Int /\ ~Eq(w, 0) /\ a \in Gej
        /\ Stands(a.x, xa, 6) /\ Stands(a.y, ya, 4) /\ Stands(a.z, w, 2) /\ ~a.inf
    BY <2>q, <2>z DEF GejStands
  <2>l. /\ Eq(mv, 0) => Eq(y1 + y2, 0)
        /\ Eq(mA, 0) => x1 = x2 /\ p # q
        /\ ~Eq(mA, 0) =>
             /\ x1 = x2 => p = q
             /\ \A l \in Int :
                  /\ Eq(l * (x2 - x1), y2 - y1)
                  /\ p = q => Eq(l * (2 * y1), 3 * x1 * x1)
                  => Eq(rA, l * w * mA)
    BY <2>p, <2>1, LambdaTerms
  <2> HIDE DEF x1, y1, x2, y2
  <2>2. mv \in Int /\ rv \in Int /\ mA \in Int /\ rA \in Int
        /\ mv = ya + y2 * w * w * w
        /\ rv = (xa + x2 * w * w) * (xa + x2 * w * w) - xa * x2 * w * w
        /\ xa + x2 * w * w = (x1 + x2) * w * w
        /\ 2 * ya = 2 * y1 * w * w * w /\ xa - x2 * w * w = (x1 - x2) * w * w
    BY <1>1, <2>1
  <2> DEFINE tv == (x1 + x2) * w * w
  <2> DEFINE sv == 2 * y1 * w * w * w
             dv == (x1 - x2) * w * w
  <2>3. tv \in Int /\ sv \in Int /\ dv \in Int
    BY <1>1, <2>1
  <2>g. AddGeParts(a, b, tv, mv, rv, sv, dv)
    <3>1. /\ tv = xa + x2 * w * w /\ sv = 2 * ya /\ dv = xa - x2 * w * w
      BY <2>2
    <3> HIDE DEF tv, mv, rv, sv, dv, xa, ya
    <3> QED
      BY <1>1, <2>1, <2>2, <2>3, <3>1, AddGeTerms
  <2>4. PICK t, m, rrAlt, mAlt, degenerate :
             /\ degenerate \in BOOLEAN
             /\ degenerate <=> Eq(mv, 0) /\ Eq(rv, 0)
             /\ Stands(t, tv, 2) /\ Stands(m, mv, 2)
             /\ Stands(rrAlt, rA, 2) /\ Stands(mAlt, mA, 3)
             /\ GejAddGe(a, b) = AddAlong(a, b, t, m, degenerate, rrAlt, mAlt)
    <3> HIDE DEF mv, rv, tv
    <3>1. /\ rA = IF Eq(mv, 0) /\ Eq(rv, 0) THEN sv ELSE rv
          /\ mA = IF Eq(mv, 0) /\ Eq(rv, 0) THEN dv ELSE mv
      OBVIOUS
    <3> HIDE DEF rA, mA, sv, dv
    <3> QED
      BY <2>g, <3>1 DEF AddGeParts
  <2> HIDE DEF sv, dv
  <2> DEFINE r == AddAlong(a, b, t, m, degenerate, rrAlt, mAlt)
  <2>5. tv \in Int /\ mv \in Int /\ rA \in Int /\ mA \in Int
    BY <2>2, <2>3
  <2>6. CASE Eq(mA, 0)
    <3>1. GejKept(r) /\ (Eq(w * mA, 0) => r.inf)
      <4>1. /\ Stands(t, tv, 2) /\ Stands(m, mv, 2) /\ Stands(rrAlt, rA, 2) /\ Stands(mAlt, mA, 3)
            /\ degenerate \in BOOLEAN
        BY <2>4
      <4>2. a \in Gej /\ Stands(a.z, w, 2) /\ ~a.inf /\ w \in Int
        BY <2>1
      <4> HIDE DEF mv, rv, tv, rA, mA
      <4>a. GejKept(r)
        BY <1>1, <2>5, <4>1, <4>2, AlongKept
      <4>b. Eq(w * mA, 0) => r.inf
        BY <1>1, <2>5, <4>1, <4>2, AlongKept
      <4> QED
        BY <4>a, <4>b
    <3>2. Eq(w * mA, 0)
      <4> HIDE DEF mA
      <4> QED
        BY <2>1, <2>5, <2>6, EqTimesZero
    <3>3. Plus(p, q) = Infinity
      BY <2>p, <2>6, <2>l, PlusOpposite DEF x1, x2
    <3> HIDE DEF r
    <3> QED
      BY <2>4, <3>1, <3>2, <3>3 DEF GejIs, r
  <2>7. CASE ~Eq(mA, 0)
    <3>1. ~(p[1] = q[1] /\ (p[2] + q[2]) % P = 0) /\ (p[1] = q[1] => p = q)
      <4>1. p[1] = q[1] => p = q
        BY <2>7, <2>l DEF x1, x2
      <4>2. p = q => ~(p[1] = p[1] /\ (p[2] + p[2]) % P = 0)
        BY DoubleAlong
      <4> QED
        BY <4>1, <4>2
    <3>2. /\ Plus(p, q) \in Values \X Values
          /\ \E l \in Int :
               /\ Eq(l * (x2 - x1), y2 - y1)
               /\ p = q => Eq(l * (2 * y1), 3 * x1 * x1)
               /\ Eq(l * l - x1 - x2, Plus(p, q)[1])
               /\ Eq(l * (x1 - (l * l - x1 - x2)) - y1, Plus(p, q)[2])
      BY <2>p, <3>1, PlusAlong DEF x1, y1, x2, y2
    <3>3. PICK l \in Int :
               /\ Eq(l * (x2 - x1), y2 - y1)
               /\ p = q => Eq(l * (2 * y1), 3 * x1 * x1)
               /\ Eq(l * l - x1 - x2, Plus(p, q)[1])
               /\ Eq(l * (x1 - (l * l - x1 - x2)) - y1, Plus(p, q)[2])
      BY <3>2
    <3>4. Eq(rA, l * w * mA)
      BY <2>7, <2>l, <3>3
    <3> DEFINE x3 == l * l - x1 - x2
               y3 == l * (x1 - x3) - y1
               lwm == l * w * mA
               W == 2 * w * mA
    <3>5. x3 \in Int /\ y3 \in Int /\ lwm \in Int /\ W \in Int
      BY <1>1, <2>1, <2>2
    <3>6. Stands(rrAlt, lwm, 2)
      <4>1. Eq(rA, lwm) /\ Stands(rrAlt, rA, 2)
        BY <2>4, <3>4
      <4> HIDE DEF lwm, rA
      <4> QED
        BY <2>2, <3>5, <4>1, StandsEq
    <3>7. degenerate => Eq(y1 + y2, 0)
      BY <2>4, <2>l
    <3>8. ~degenerate => mA = (y1 + y2) * w * w * w
      BY <2>4
    <3>9. GejStands(r, x3, y3, W)
      <4>1. y3 = l * (x1 - x3) - y1 /\ x3 = l * l - x1 - x2
        OBVIOUS
      <4>2. Stands(m, (y1 + y2) * w * w * w, 2) /\ Stands(t, (x1 + x2) * w * w, 2)
        BY <2>4
      <4>3. Stands(rrAlt, l * w * mA, 2) /\ Stands(mAlt, mA, 3)
        BY <2>4, <3>6
      <4> HIDE DEF x3, y3, mA, mv, rv, rA, tv
      <4> QED
        BY <1>1, <2>1, <2>4, <2>5, <2>7, <3>3, <3>5, <3>7, <3>8, <4>1, <4>2, <4>3, AlongFormula
    <3>10. Plus(p, q)[1] \in Int /\ Plus(p, q)[2] \in Int
      BY <3>2, PairOfValues
    <3>11. Eq(x3, Plus(p, q)[1]) /\ Eq(y3, Plus(p, q)[2])
      BY <3>3
    <3> HIDE DEF x3, y3, W, r
    <3>12. GejStands(r, Plus(p, q)[1], Plus(p, q)[2], W)
      BY <3>5, <3>9, <3>10, <3>11, GejMove
    <3>13. GejIs(r, Plus(p, q))
      BY <3>2, <3>5, <3>12, GejIsFinite
    <3> QED
      BY <2>4, <3>13 DEF r
  <2> QED
    BY <2>6, <2>7
<1> QED
  BY <1>2, <1>3
-----------------------------------------------------------------------------
\* Two points add up to infinity only if they are opposite ...
LEMMA PlusIsInfinity ==
    ASSUME NEW p \in CurvePoints, NEW q \in CurvePoints, Plus(p, q) = Infinity
    PROVE  p[1] = q[1] /\ Eq(p[2] + q[2], 0)
<1>1. /\ p # Infinity /\ q # Infinity /\ p[2] + q[2] \in Int
  BY CurvePointFacts
<1>2. p[1] = q[1] /\ (p[2] + q[2]) % P = 0
  <2>1. SUFFICES ASSUME ~(p[1] = q[1] /\ (p[2] + q[2]) % P = 0) PROVE Plus(p, q) # Infinity
    OBVIOUS
  <2>2. \E x, y : Plus(p, q) = <<x, y>>
    BY <1>1, <2>1 DEF Plus
  <2> QED
    BY <2>2 DEF Infinity
<1>3. Eq((p[2] + q[2]) % P, p[2] + q[2]) /\ 0 \in Int
  BY <1>1, ModValue
<1> QED
  BY <1>1, <1>2, <1>3, EqSym

\* ... or both at infinity.
LEMMA OppositePoints ==
    ASSUME NEW p \in GroupPoints, NEW q \in GroupPoints, Plus(p, q) = Infinity
    PROVE  \/ p = Infinity /\ q = Infinity
           \/ p \in CurvePoints /\ q \in CurvePoints /\ p[1] = q[1] /\ Eq(-p[2], q[2])
<1>1. CASE p = Infinity
  BY <1>1, PlusInfinity
<1>2. CASE q = Infinity
  BY <1>2, PlusInfinity
<1>3. CASE p # Infinity /\ q # Infinity
  <2>1. p \in CurvePoints /\ q \in CurvePoints
    BY <1>3 DEF GroupPoints
  <2>2. p[1] = q[1] /\ Eq(p[2] + q[2], 0)
    BY <2>1, PlusIsInfinity
  <2> DEFINE s == p[2] + q[2]
             n == -p[2]
             y == q[2]
  <2>3. s \in Int /\ n \in Int /\ y \in Int /\ 0 \in Int /\ -1 \in Int /\ n - y = (-1) * (s - 0)
    BY <2>1, CurvePointFacts
  <2>4. Eq(s, 0)
    BY <2>2
  <2> HIDE DEF s, n, y
  <2>5. Eq(n, y)
    BY <2>3, <2>4, EqFrom
  <2> QED
    BY <2>1, <2>2, <2>5 DEF n, y
<1> QED
  BY <1>1, <1>2, <1>3

\* The y of a negated point, as ge_neg and gej_neg compute it.
LEMMA StandsOpposite ==
    ASSUME NEW a, NEW n \in Int, NEW i \in Nat, Stands(a, n, i), i <= 32, NEW p \in Int, p = -n
    PROVE  Stands(FeNegate(FeNormalizeWeak(a), 1), p, 2)
<1>1. Stands(FeNormalizeWeak(a), n, 1)
  BY StandsNormalize
<1> QED
  BY <1>1, StandsNegate

\* gej_neg gives the opposite point.
LEMMA GejNegIs ==
    ASSUME NEW a, NEW p \in GroupPoints, NEW q \in GroupPoints, Plus(p, q) = Infinity, GejIs(a, p)
    PROVE  GejIs(GejNeg(a), q)
<1> DEFINE y == FeNegate(FeNormalizeWeak(a.y), 1)
<1>1. /\ a = [x |-> a.x, y |-> a.y, z |-> a.z, inf |-> a.inf]
      /\ a.x \in Fe /\ a.y \in Fe /\ a.z \in Fe /\ a.inf \in BOOLEAN
      /\ a.x.m <= 6 /\ a.y.m <= 4 /\ a.z.m <= 2
  BY DEF GejIs, GejKept, Gej
<1>2. GejNeg(a) = [x |-> a.x, y |-> y, z |-> a.z, inf |-> a.inf]
  <2>1. GejNeg(a) = [a EXCEPT !.y = y]
    BY DEF GejNeg
  <2> HIDE DEF y
  <2> QED
    BY <1>1, <2>1
<1>3. CASE p = Infinity /\ q = Infinity
  <2>1. Stands(y, -(a.y.v), 2) /\ a.y.v \in Int
    <3>1. a.y.v \in Int /\ Stands(a.y, a.y.v, 4)
      BY <1>1, StandsSelf
    <3> QED
      BY <3>1, StandsOpposite
  <2>2. y \in Fe /\ y.m <= 4
    <3>1. y.m \in Int
      BY <2>1, FieldAssumption DEF Stands, Fe, Broken
    <3> QED
      BY <2>1, <3>1 DEF Stands
  <2> HIDE DEF y
  <2> QED
    BY <1>1, <1>2, <1>3, <2>2 DEF GejIs, GejKept, Gej
<1>4. CASE p \in CurvePoints /\ q \in CurvePoints /\ p[1] = q[1] /\ Eq(-p[2], q[2])
  <2>1. p[1] \in Int /\ p[2] \in Int /\ q[1] \in Int /\ q[2] \in Int /\ p # Infinity
        /\ q \in Values \X Values
    BY <1>4, CurvePointFacts
  <2>2. PICK Z \in Int : GejStands(a, p[1], p[2], Z)
    BY <2>1 DEF GejIs
  <2>3. Stands(y, (-p[2]) * Z * Z * Z, 2)
    <3> DEFINE n == p[2] * Z * Z * Z
               o == (-p[2]) * Z * Z * Z
    <3>1. n \in Int /\ o \in Int /\ o = -n /\ Stands(a.y, n, 4)
      BY <2>1, <2>2 DEF GejStands
    <3> HIDE DEF n, o
    <3>2. Stands(y, o, 2)
      BY <3>1, StandsOpposite
    <3> QED
      BY <3>2 DEF o
  <2>4. Stands(y, (-p[2]) * Z * Z * Z, 4) /\ y \in Fe
    <3>1. y.m \in Int
      BY <2>3, FieldAssumption DEF Stands, Fe, Broken
    <3> HIDE DEF y
    <3> QED
      BY <2>3, <3>1 DEF Stands
  <2> HIDE DEF y
  <2>5. GejStands(GejNeg(a), p[1], -p[2], Z)
    BY <1>1, <1>2, <2>2, <2>4 DEF GejStands, Gej
  <2>6. -p[2] \in Int /\ Eq(p[1], q[1])
    BY <1>4, <2>1, EqRefl
  <2>7. GejStands(GejNeg(a), q[1], q[2], Z)
    BY <1>4, <2>1, <2>5, <2>6, GejMove
  <2> QED
    BY <2>1, <2>7, GejIsFinite
<1> QED
  BY <1>3, <1>4, OppositePoints

\* ge_neg gives the opposite point.
LEMMA GeNegIs ==
    ASSUME NEW b, NEW p \in GroupPoints, NEW q \in GroupPoints, Plus(p, q) = Infinity, GeIs(b, p)
    PROVE  GeIs(GeNeg(b), q)
<1> DEFINE y == FeNegate(FeNormalizeWeak(b.y), 1)
<1>1. /\ b = [x |-> b.x, y |-> b.y, inf |-> b.inf]
      /\ b.x \in Fe /\ b.y \in Fe /\ b.inf \in BOOLEAN
      /\ b.x.m <= 6 /\ b.y.m <= 4
  BY DEF GeIs, Ge
<1>2. GeNeg(b) = [x |-> b.x, y |-> y, inf |-> b.inf]
  <2>1. GeNeg(b) = [b EXCEPT !.y = y]
    BY DEF GeNeg
  <2> HIDE DEF y
  <2> QED
    BY <1>1, <2>1
<1>3. CASE p = Infinity /\ q = Infinity
  <2>1. Stands(y, -(b.y.v), 2) /\ b.y.v \in Int
    <3>1. b.y.v \in Int /\ Stands(b.y, b.y.v, 4)
      BY <1>1, StandsSelf
    <3> QED
      BY <3>1, StandsOpposite
  <2>2. y \in Fe /\ y.m <= 4
    <3>1. y.m \in Int
      BY <2>1, FieldAssumption DEF Stands, Fe, Broken
    <3> QED
      BY <2>1, <3>1 DEF Stands
  <2> HIDE DEF y
  <2> QED
    BY <1>1, <1>2, <1>3, <2>2 DEF GeIs, Ge
<1>4. CASE p \in CurvePoints /\ q \in CurvePoints /\ p[1] = q[1] /\ Eq(-p[2], q[2])
  <2>1. p[1] \in Int /\ p[2] \in Int /\ q[1] \in Int /\ q[2] \in Int /\ p # Infinity /\ q # Infinity
    BY <1>4, CurvePointFacts
  <2>2. ~b.inf /\ Stands(b.x, q[1], 2) /\ Stands(b.y, p[2], 2)
    BY <1>4, <2>1 DEF GeIs
  <2>3. Stands(y, -p[2], 2) /\ -p[2] \in Int
    BY <2>1, <2>2, StandsOpposite
  <2>4. Stands(y, q[2], 2)
    <3> HIDE DEF y
    <3> QED
      BY <1>4, <2>1, <2>3, StandsEq
  <2>5. y \in Fe /\ y.m <= 4
    <3>1. y.m \in Int
      BY <2>3, FieldAssumption DEF Stands, Fe, Broken
    <3> HIDE DEF y
    <3> QED
      BY <2>3, <3>1 DEF Stands
  <2> HIDE DEF y
  <2> QED
    BY <1>1, <1>2, <2>1, <2>2, <2>4, <2>5 DEF GeIs, Ge
<1> QED
  BY <1>3, <1>4, OppositePoints

\* gej_rescale changes the scale (with which the blinding of ecmult_gen hides it) and
\* keeps the point.
LEMMA GejRescaleIs ==
    ASSUME NEW a, NEW s, NEW q \in GroupPoints, NEW k \in Int, GejIs(a, q), Stands(s, k, 1),
           ~Eq(k, 0)
    PROVE  /\ GejIs(GejRescale(a, s), q)
           /\ q # Infinity => \E Z \in Int :
                /\ GejStands(GejRescale(a, s), q[1], q[2], Z)
                /\ GejRescale(a, s).z.m <= 1
<1> DEFINE zz == FeSqr(s)
           xr == FeMul(a.x, zz)
           yr == FeMul(FeMul(a.y, zz), s)
           zr == FeMul(a.z, s)
           r == GejRescale(a, s)
<1>1. r = [x |-> xr, y |-> yr, z |-> zr, inf |-> a.inf]
  BY DEF GejRescale
<1>2. a \in Gej /\ GejKept(a) /\ a.inf \in BOOLEAN
  BY DEF GejIs, GejKept, Gej
<1>3. Stands(zz, k * k, 1)
  BY StandsSqr
<1> HIDE DEF zz
<1>4. \A x, y, z \in Int :
        Stands(a.x, x, 6) /\ Stands(a.y, y, 4) /\ Stands(a.z, z, 2)
        => Stands(xr, x * k * k, 1) /\ Stands(yr, y * k * k * k, 1) /\ Stands(zr, z * k, 1)
  <2>1. SUFFICES ASSUME NEW x \in Int, NEW y \in Int, NEW z \in Int,
                        Stands(a.x, x, 6), Stands(a.y, y, 4), Stands(a.z, z, 2)
                 PROVE  Stands(xr, x * k * k, 1) /\ Stands(yr, y * k * k * k, 1) /\ Stands(zr, z * k, 1)
    OBVIOUS
  <2>a. Stands(zr, z * k, 1)
    BY <2>1, StandsMul
  <2>2. Stands(xr, x * k * k, 1)
    <3> DEFINE e == k * k
               p == x * k * k
    <3>1. e \in Int /\ p \in Int /\ p = x * e
      OBVIOUS
    <3>2. Stands(zz, e, 1)
      BY <1>3
    <3> HIDE DEF e, p
    <3>3. Stands(FeMul(a.x, zz), p, 1)
      BY <2>1, <3>1, <3>2, StandsMul
    <3> QED
      BY <3>3 DEF p
  <2>3. Stands(FeMul(a.y, zz), y * k * k, 1)
    <3> DEFINE e == k * k
               p == y * k * k
    <3>1. e \in Int /\ p \in Int /\ p = y * e
      OBVIOUS
    <3>2. Stands(zz, e, 1)
      BY <1>3
    <3> HIDE DEF e, p
    <3>3. Stands(FeMul(a.y, zz), p, 1)
      BY <2>1, <3>1, <3>2, StandsMul
    <3> QED
      BY <3>3 DEF p
  <2>4. Stands(yr, y * k * k * k, 1)
    BY <2>3, StandsMul
  <2> QED
    BY <2>a, <2>2, <2>4
<1> HIDE DEF xr, yr, zr
<1>5. xr \in Fe /\ yr \in Fe /\ zr \in Fe /\ xr.m <= 1 /\ yr.m <= 1 /\ zr.m <= 1
  <2>1. \E x, y, z \in Int : Stands(a.x, x, 6) /\ Stands(a.y, y, 4) /\ Stands(a.z, z, 2)
    BY <1>2, StandsSelf DEF GejKept, Gej
  <2>2. PICK x, y, z \in Int : Stands(a.x, x, 6) /\ Stands(a.y, y, 4) /\ Stands(a.z, z, 2)
    BY <2>1
  <2> QED
    BY <1>4, <2>2 DEF Stands
<1>6. xr.m \in Int /\ yr.m \in Int /\ zr.m \in Int
  BY <1>5, FieldAssumption DEF Fe, Broken
<1>7. GejKept(r) /\ r.z.m <= 1
  BY <1>1, <1>2, <1>5, <1>6 DEF GejKept, Gej
<1>8. CASE q = Infinity
  BY <1>1, <1>7, <1>8 DEF GejIs
<1>9. CASE q # Infinity
  <2>1. q \in CurvePoints /\ q[1] \in Int /\ q[2] \in Int /\ q \in Values \X Values
    BY <1>9, CurvePointFacts DEF GroupPoints
  <2>2. PICK Z \in Int : GejStands(a, q[1], q[2], Z)
    BY <1>9 DEF GejIs
  <2> DEFINE x == q[1] * Z * Z
             y == q[2] * Z * Z * Z
             W == Z * k
  <2>3. x \in Int /\ y \in Int /\ W \in Int
        /\ x * k * k = q[1] * W * W /\ y * k * k * k = q[2] * W * W * W
    BY <2>1
  <2>4. Stands(a.x, x, 6) /\ Stands(a.y, y, 4) /\ Stands(a.z, Z, 2) /\ ~a.inf /\ ~Eq(Z, 0)
    BY <2>2 DEF GejStands
  <2>5. ~Eq(W, 0)
    BY <2>4, EqProductZero
  <2>6. Stands(xr, q[1] * W * W, 1) /\ Stands(yr, q[2] * W * W * W, 1) /\ Stands(zr, W, 1)
    <3> HIDE DEF x, y
    <3> QED
      BY <1>4, <2>3, <2>4
  <2> HIDE DEF W
  <2>7. Stands(xr, q[1] * W * W, 6) /\ Stands(yr, q[2] * W * W * W, 4) /\ Stands(zr, W, 2)
    BY <1>6, <2>6 DEF Stands
  <2>8. GejStands(r, q[1], q[2], W)
    BY <1>1, <1>7, <2>4, <2>5, <2>7 DEF GejStands, GejKept
  <2> HIDE DEF r
  <2>9. GejIs(r, q)
    BY <2>1, <2>3, <2>8, GejIsFinite
  <2> QED
    BY <1>7, <2>3, <2>8, <2>9 DEF r
<1> QED
  BY <1>8, <1>9

\* ge_set_gej_zinv keeps the magnitudes whatever it is given.
LEMMA ZinvKept ==
    ASSUME NEW a \in Gej, GejKept(a), NEW zi \in Fe, zi.m <= 1
    PROVE  /\ GeSetGejZinv(a, zi) \in Ge /\ GeSetGejZinv(a, zi).inf = a.inf
           /\ GeSetGejZinv(a, zi).x.m <= 1 /\ GeSetGejZinv(a, zi).y.m <= 1
<1> DEFINE zi2 == FeSqr(zi)
           xr == FeMul(a.x, zi2)
           yr == FeMul(a.y, FeMul(zi2, zi))
           x == a.x.v
           y == a.y.v
           k == zi.v
<1>1. x \in Int /\ y \in Int /\ k \in Int /\ Stands(a.x, x, 6) /\ Stands(a.y, y, 4) /\ Stands(zi, k, 1)
  BY StandsSelf DEF GejKept, Gej
<1> HIDE DEF x, y, k
<1>2. Stands(zi2, k * k, 1)
  BY <1>1, StandsSqr
<1>3. GeSetGejZinv(a, zi) = [x |-> xr, y |-> yr, inf |-> a.inf]
  BY DEF GeSetGejZinv
<1> HIDE DEF zi2
<1>4. Stands(xr, x * (k * k), 1)
  BY <1>1, <1>2, StandsMul
<1>5. Stands(yr, y * k * k * k, 1)
  <2>1. Stands(FeMul(zi2, zi), k * k * k, 1)
    BY <1>1, <1>2, StandsMul
  <2> QED
    BY <1>1, <2>1, StandsMul
<1> HIDE DEF xr, yr
<1> QED
  BY <1>3, <1>4, <1>5 DEF Stands, Ge, Gej

\* ge_set_gej and ge_set_gej_var give the affine record of the point, one and the same
\* where it is finite.
LEMMA GeSetGejIs ==
    ASSUME NEW a, NEW q \in GroupPoints, GejIs(a, q)
    PROVE  /\ GeIs(GeSetGej(a), q) /\ GeIs(GeSetGejVar(a), q)
           /\ GeSetGej(a).x.m <= 1 /\ GeSetGej(a).y.m <= 1
           /\ q # Infinity => GeSetGejVar(a) = GeSetGej(a)
<1> DEFINE zi == FeInv(a.z)
           r == GeSetGejZinv(a, zi)
<1>1. a \in Gej /\ GejKept(a) /\ a.inf \in BOOLEAN /\ a.z \in Fe /\ a.z.m <= 2
  BY DEF GejIs, GejKept, Gej
<1>2. zi \in Fe /\ zi.m <= 1
  <2>1. a.z.v \in Int /\ Stands(a.z, a.z.v, 2)
    BY <1>1, StandsSelf
  <2> QED
    BY <2>1, StandsInv
<1>3. r \in Ge /\ r.inf = a.inf /\ r.x.m <= 1 /\ r.y.m <= 1
  <2> HIDE DEF zi
  <2> QED
    BY <1>1, <1>2, ZinvKept
<1>4. GeSetGej(a) = r
  BY DEF GeSetGej
<1>5. GeSetGejVar(a) = IF a.inf THEN [x |-> a.x, y |-> a.y, inf |-> TRUE] ELSE r
  BY DEF GeSetGejVar, FeInvVar
<1>6. r.x.m \in Int /\ r.y.m \in Int
  BY <1>3, FieldAssumption DEF Ge, Fe, Broken
<1>7. CASE q = Infinity
  <2>1. a.inf
    BY <1>7 DEF GejIs
  <2>2. [x |-> a.x, y |-> a.y, inf |-> TRUE] \in Ge
    BY <1>1 DEF Gej, Ge
  <2> DEFINE o == [x |-> a.x, y |-> a.y, inf |-> TRUE]
  <2>3. o \in Ge /\ o.x = a.x /\ o.y = a.y /\ o.inf /\ GeSetGejVar(a) = o
    BY <1>5, <2>1, <2>2
  <2> HIDE DEF r, o
  <2>4. GeIs(o, q)
    BY <1>1, <1>7, <2>3 DEF GeIs, GejKept
  <2>5. GeIs(r, q)
    BY <1>3, <1>6, <1>7, <2>1 DEF GeIs
  <2> QED
    BY <1>3, <1>4, <1>7, <2>3, <2>4, <2>5
<1>8. CASE q # Infinity
  <2>1. q \in CurvePoints /\ q[1] \in Int /\ q[2] \in Int
    BY <1>8, CurvePointFacts DEF GroupPoints
  <2>2. PICK Z \in Int : GejStands(a, q[1], q[2], Z)
    BY <1>8 DEF GejIs
  <2>3. Stands(a.z, Z, 2) /\ ~Eq(Z, 0) /\ ~a.inf
    BY <2>2 DEF GejStands
  <2>4. PICK k \in Int : Eq(Z * k, 1) /\ Stands(zi, k, 1)
    BY <2>3, StandsInv
  <2> DEFINE x == q[1]
             y == q[2]
  <2>5. /\ x \in Int /\ y \in Int
        /\ Stands(a.x, x * Z * Z, 8) /\ Stands(a.y, y * Z * Z * Z, 8) /\ Stands(zi, k, 8)
    <3>1. a.x.m \in Int /\ a.y.m \in Int /\ zi.m \in Int
      BY <1>1, <1>2, FieldAssumption DEF Gej, Fe, Broken
    <3> HIDE DEF zi
    <3> QED
      BY <2>1, <2>2, <2>4, <3>1 DEF GejStands, Stands
  <2> HIDE DEF x, y, zi
  <2>6. Stands(r.x, x, 1) /\ Stands(r.y, y, 1)
    BY <1>1, <2>4, <2>5, ZinvFormula
  <2> HIDE DEF r
  <2>7. GeIs(r, q)
    BY <1>3, <1>6, <1>8, <2>3, <2>6 DEF GeIs, Stands, x, y
  <2> QED
    BY <1>3, <1>4, <1>5, <2>3, <2>7
<1> QED
  BY <1>7, <1>8

\* The point that a record is read as is the one it stands for.
LEMMA PointOfGejIs ==
    ASSUME NEW a, NEW q \in GroupPoints, GejIs(a, q)
    PROVE  PointOfGej(a) = q /\ KeptGej(a)
<1>1. KeptGej(a)
  BY FieldAssumption, MagnitudeAssumption DEF GejIs, GejKept, Gej, Fe, Broken, KeptGej, Kept
<1>2. CASE q = Infinity
  BY <1>1, <1>2 DEF GejIs, PointOfGej
<1>3. CASE q # Infinity
  <2>1. q \in CurvePoints /\ q[1] \in Int /\ q[2] \in Int /\ q = <<q[1], q[2]>>
        /\ q[1] \in Values /\ q[2] \in Values
    BY <1>3, CurvePointFacts DEF GroupPoints
  <2>2. PICK Z \in Int : GejStands(a, q[1], q[2], Z)
    BY <1>3 DEF GejIs
  <2> DEFINE x == q[1] * Z * Z
             y == q[2] * Z * Z * Z
             z == a.z.v
             k == InverseOf[z]
             xv == a.x.v
             yv == a.y.v
  <2>3. /\ x \in Int /\ y \in Int /\ z \in Int /\ z \in Values
        /\ xv \in Int /\ yv \in Int /\ Eq(xv, x) /\ Eq(yv, y) /\ Eq(z, Z) /\ ~Eq(Z, 0) /\ ~a.inf
    <3>1. Values \subseteq Int
      BY PInt DEF Values
    <3> QED
      BY <2>1, <2>2, <3>1 DEF GejStands, Stands, Gej, Fe
  <2>4. z # 0
    BY <2>3, EqSym
  <2>5. k \in Values /\ k \in Int /\ (z * k) % P = 1
    <3>1. k \in Values /\ (z * k) % P = 1
      BY <2>3, <2>4, PrimeAssumption
    <3> QED
      BY <3>1, PInt DEF Values
  <2>6. PointOfGej(a) = <<(xv * k * k) % P, (((yv * k * k) % P) * k) % P>>
    BY <2>3 DEF PointOfGej
  <2> HIDE DEF k, z, xv, yv
  <2>7. Eq(Z * k, 1)
    <3>1. z * k \in Int /\ Z * k \in Int /\ Eq(k, k) /\ Eq(Z, z)
      BY <2>3, <2>5, EqRefl, EqSym
    <3>2. Eq(1, z * k)
      BY <2>5, <3>1, ModValue
    <3>3. Eq(Z * k, z * k)
      BY <2>3, <2>5, <3>1, EqMul
    <3> QED
      BY <3>1, <3>2, <3>3, EqSym, EqTrans
  <2>8. Eq((xv * k * k) % P, q[1])
    <3> DEFINE c == xv * k * k
               d == q[1] * Z * Z * k * k
               s == k * k
    <3>1. c \in Int /\ d \in Int /\ s \in Int /\ c - d = s * (xv - x)
      BY <2>1, <2>3, <2>5
    <3>2. Eq(d, q[1])
      BY <2>1, <2>5, <2>7, EqInverse
    <3>3. Eq(c % P, c) /\ c % P \in Int
      BY <3>1, ModValue
    <3> HIDE DEF c, d, s, x
    <3>4. Eq(c, d)
      BY <2>3, <3>1, EqFrom
    <3>5. Eq(c % P, d)
      BY <3>1, <3>3, <3>4, EqTrans
    <3>6. Eq(c % P, q[1])
      BY <2>1, <3>1, <3>2, <3>3, <3>5, EqTrans
    <3> QED
      BY <3>6 DEF c
  <2>9. Eq((((yv * k * k) % P) * k) % P, q[2])
    <3> DEFINE c == yv * k * k
               e == (c % P) * k
               f == c * k
               d == q[2] * Z * Z * Z * k * k * k
               s == k * k * k
    <3>1. c \in Int /\ d \in Int /\ s \in Int /\ f \in Int /\ f - d = s * (yv - y)
      BY <2>1, <2>3, <2>5
    <3>2. Eq(d, q[2])
      BY <2>1, <2>5, <2>7, EqInverse
    <3> HIDE DEF c, d, s, y
    <3>3. Eq(c % P, c) /\ c % P \in Int /\ Eq(k, k)
      BY <2>5, <3>1, ModValue, EqRefl
    <3> DEFINE cp == c % P
    <3>a. cp \in Int /\ Eq(cp, c) /\ e = cp * k /\ cp * k \in Int
      BY <2>5, <3>3
    <3>4. Eq(e, f) /\ e \in Int
      <4> HIDE DEF cp, e
      <4> QED
        BY <2>5, <3>1, <3>3, <3>a, EqMul
    <3> HIDE DEF e, f, cp
    <3>5. Eq(e % P, e) /\ e % P \in Int
      BY <3>4, ModValue
    <3>6. Eq(f, d)
      BY <2>3, <3>1, EqFrom
    <3>7. Eq(e % P, f)
      BY <3>1, <3>4, <3>5, EqTrans
    <3>8. Eq(e % P, d)
      BY <3>1, <3>5, <3>6, <3>7, EqTrans
    <3>9. Eq(e % P, q[2])
      BY <2>1, <3>1, <3>2, <3>5, <3>8, EqTrans
    <3> QED
      BY <3>9 DEF e, c
  <2>10. /\ xv * k * k \in Int /\ ((yv * k * k) % P) * k \in Int
    <3>1. yv * k * k \in Int /\ xv * k * k \in Int
      BY <2>3, <2>5
    <3>2. (yv * k * k) % P \in Int
      BY <3>1, ModValue
    <3> QED
      BY <2>5, <3>1, <3>2
  <2>11. (xv * k * k) % P = q[1] /\ (((yv * k * k) % P) * k) % P = q[2]
    <3> DEFINE c == xv * k * k
               d == ((yv * k * k) % P) * k
    <3>1. c \in Int /\ d \in Int /\ Eq(c % P, q[1]) /\ Eq(d % P, q[2])
      BY <2>8, <2>9, <2>10
    <3> HIDE DEF c, d
    <3>2. c % P \in Values /\ d % P \in Values
      BY <3>1, ModValue
    <3>3. c % P = q[1] /\ d % P = q[2]
      BY <2>1, <3>1, <3>2, EqValue
    <3> QED
      BY <3>3 DEF c, d
  <2> QED
    BY <1>1, <2>1, <2>6, <2>11
<1> QED
  BY <1>2, <1>3
-----------------------------------------------------------------------------
\* fe_is_quad_var decides whether a number is a square, and fe_sqrt finds a root if it is.
LEMMA QuadIs ==
    ASSUME NEW a, NEW n \in Int, Stands(a, n, 8)
    PROVE  /\ FeIsQuadVar(a) <=> \E u \in Int : Eq(u * u, n)
           /\ FeSqrt(a).ok <=> \E u \in Int : Eq(u * u, n)
           /\ FeSqrt(a).r \in Fe /\ FeSqrt(a).r.m <= 1
           /\ FeSqrt(a).ok => Eq(FeSqrt(a).r.v * FeSqrt(a).r.v, n)
<1> DEFINE k == RootOf[a.v]
           r == [v |-> k, m |-> 1, n |-> FALSE]
<1>1. a.v \in Values /\ a.v \in Int /\ a.m \in Nat /\ a.m <= 8 /\ a.m <= MulMagnitude
      /\ Eq(a.v, n)
  BY PInt, FieldAssumption, MagnitudeAssumption DEF Stands, Fe, Values, Broken
<1>2. If(a.m <= MulMagnitude, 1) = 1 /\ 1 \in 0..Broken
  BY <1>1, FieldAssumption, MagnitudeAssumption DEF If, Cap, Broken
<1>3. k \in Values /\ k \in Int
  <2>1. k \in Values
    BY <1>1, PrimeAssumption
  <2>2. Values \subseteq Int
    BY PInt DEF Values
  <2> QED
    BY <2>1, <2>2
<1>4. r \in Fe /\ r.v = k /\ r.m = 1
  BY <1>2, <1>3 DEF Fe
<1>5. FeSqrt(a) = [ok |-> FeEqual(FeSqr(r), a), r |-> r]
  BY <1>2 DEF FeSqrt
<1> HIDE DEF r
<1>6. Stands(r, k, 1)
  BY <1>3, <1>4, EqRefl DEF Stands
<1>7. FeEqual(FeSqr(r), a) <=> Eq(k * k, n)
  <2> DEFINE kk == k * k
  <2>1. kk \in Int /\ Stands(FeSqr(r), kk, 1)
    BY <1>3, <1>6, StandsSqr
  <2>2. Stands(a, n, 30)
    BY <1>1 DEF Stands
  <2> HIDE DEF kk
  <2>3. FeEqual(FeSqr(r), a) <=> Eq(kk, n)
    BY <2>1, <2>2, StandsEqual
  <2> QED
    BY <2>3 DEF kk
<1>8. ASSUME NEW u \in Int, Eq(u * u, n)
      PROVE  Eq(k * k, n)
  <2> DEFINE v == u % P
             vv == v * v
             uu == u * u
  <2>1. v \in Values /\ v \in Int /\ Eq(v, u) /\ vv \in Int /\ uu \in Int
    BY ModValue
  <2>2. Eq(vv, uu)
    <3> HIDE DEF v
    <3> QED
      BY <2>1, EqMul
  <2>3. (RootOf[vv % P] * RootOf[vv % P]) % P = vv % P
    BY <2>1, PrimeAssumption
  <2>4. Eq(vv, n)
    BY <1>8, <2>1, <2>2, EqTrans
  <2> HIDE DEF v, vv, uu
  <2>5. vv % P \in Values /\ vv % P \in Int /\ Eq(vv % P, vv)
    BY <2>1, ModValue
  <2>6. Eq(vv % P, a.v)
    <3>1. Eq(vv % P, n)
      BY <2>1, <2>4, <2>5, EqTrans
    <3> QED
      BY <1>1, <2>5, <3>1, EqSym, EqTrans
  <2>7. vv % P = a.v
    BY <1>1, <2>5, <2>6, EqValue
  <2>8. (k * k) % P = a.v
    BY <2>3, <2>7
  <2> DEFINE kk == k * k
  <2>9. kk \in Int /\ kk % P = a.v
    BY <1>3, <2>8
  <2> HIDE DEF kk
  <2>10. Eq(kk, n)
    <3>1. Eq(a.v, kk)
      BY <2>9, ModValue
    <3> QED
      BY <1>1, <2>9, <3>1, EqSym, EqTrans
  <2> QED
    BY <2>10 DEF kk
<1> HIDE DEF k
<1>9. FeEqual(FeSqr(r), a) <=> \E u \in Int : Eq(u * u, n)
  BY <1>3, <1>7, <1>8
<1> QED
  BY <1>4, <1>5, <1>7, <1>9 DEF FeIsQuadVar

\* The right side of the curve's equation, as ge_set_xquad computes it.
LEMMA StandsCurve ==
    ASSUME NEW x, NEW X \in Int, Stands(x, X, 2)
    PROVE  Stands(FeAdd(FeSetInt(CurveB), FeMul(x, FeSqr(x))), X * X * X + CurveB, 2)
<1>1. CurveB \in Int
  BY CurveAssumption
<1>2. Stands(FeSetInt(CurveB), CurveB, 1)
  BY <1>1, StandsSetInt
<1>3. Stands(FeSqr(x), X * X, 1)
  BY StandsSqr
<1>4. Stands(FeMul(x, FeSqr(x)), X * X * X, 1)
  <2>1. X * X \in Int /\ X * X * X \in Int /\ X * X * X = X * (X * X)
    OBVIOUS
  <2> QED
    BY <1>3, <2>1, StandsMul
<1> QED
  BY <1>1, <1>2, <1>4, StandsAdd

\* Two roots of one square are equal or opposite, and then of different parity: what
\* the bit of a compressed key relies on.
LEMMA RootsOfOne ==
    ASSUME NEW v \in Values, NEW b \in Values, NEW n \in Int, b # 0, Eq(v * v, n), Eq(b * b, n)
    PROVE  \/ v = b
           \/ v = P - b /\ (v % 2 = 1 <=> ~(b % 2 = 1)) /\ Eq(-v, b)
<1>1. v \in Int /\ b \in Int /\ v \in 0..P-1 /\ b \in 0..P-1 /\ P \in Int /\ n - n = 0 /\ 0 \in Int
  BY PInt DEF Values
<1> DEFINE vv == v * v
           bb == b * b
           d == v - b
           s == v + b
<1>2. vv \in Int /\ bb \in Int /\ d \in Int /\ s \in Int /\ d * s = vv - bb /\ d * s \in Int
  BY <1>1
<1>3. Eq(vv, n) /\ Eq(bb, n)
  OBVIOUS
<1>4. Eq(d, 0) \/ Eq(s, 0)
  <2> HIDE DEF vv, bb, d, s
  <2>1. Eq(vv - bb, n - n)
    BY <1>2, <1>3, EqSub
  <2>2. Eq(d * s, 0)
    BY <1>1, <1>2, <2>1
  <2> QED
    BY <1>2, <2>2, EqProductZero
<1>5. CASE Eq(d, 0)
  <2>1. Eq(v, b)
    <3>1. v - b = 1 * (d - 0) /\ 1 \in Int
      BY <1>1
    <3> HIDE DEF d
    <3> QED
      BY <1>1, <1>2, <1>5, <3>1, EqFrom
  <2> QED
    BY <2>1, EqValue
<1>6. CASE Eq(s, 0)
  <2>1. P - b \in Values /\ P - b \in Int
    BY <1>1 DEF Values
  <2>2. PICK j \in Int : s = 0 + j * P
    BY <1>6 DEF Eq
  <2> DEFINE k == j - 1
             kP == k * P
             jP == j * P
  <2>3. k \in Int /\ kP \in Int /\ jP \in Int /\ kP = jP - P
    BY <1>1
  <2>4. v = (P - b) + kP
    <3>1. v + b = jP
      BY <1>1, <2>2
    <3> HIDE DEF jP, kP, k
    <3> QED
      BY <1>1, <2>3, <3>1
  <2>5. Eq(v, P - b)
    <3> HIDE DEF k
    <3> QED
      BY <2>3, <2>4 DEF Eq
  <2>6. v = P - b
    BY <2>1, <2>5, EqValue
  <2>7. P % 2 = 1
    BY <1>1, FieldAssumption
  <2>8. v % 2 = 1 <=> ~(b % 2 = 1)
    BY <1>1, <2>6, <2>7
  <2>9. Eq(-v, b)
    <3>1. -v = b + (-1) * P /\ -1 \in Int
      BY <1>1, <2>6
    <3> QED
      BY <3>1 DEF Eq
  <2> QED
    BY <2>6, <2>8, <2>9
<1> QED
  BY <1>4, <1>5, <1>6

\* ge_set_xo_var finds the point from its x and the parity of its y.
LEMMA GeSetXoVarIs ==
    ASSUME NEW x, NEW X \in Int, Stands(x, X, 2), NEW q \in CurvePoints, Eq(X, q[1])
    PROVE  LET r == GeSetXoVar(x, q[2] % 2 = 1)
           IN  r.ok /\ GeIs(r.r, q)
<1> DEFINE c == FeAdd(FeSetInt(CurveB), FeMul(x, FeSqr(x)))
           n == X * X * X + CurveB
           y == FeSqrt(c)
           yn == FeNormalizeVar(y.r)
           odd == q[2] % 2 = 1
           yy == IF FeIsOdd(yn) # odd THEN FeNegate(yn, 1) ELSE yn
           b == q[2]
           v == y.r.v
<1>1. /\ q[1] \in Int /\ b \in Int /\ b \in Values /\ q # Infinity
      /\ Eq(b * b, q[1] * q[1] * q[1] + CurveB) /\ ~Eq(2 * b, 0)
  BY CurvePointFacts
<1>b. b # 0
  <2>1. b = 0 => 2 * b = 0
    OBVIOUS
  <2> QED
    BY <1>1, <2>1, EqRefl
<1>2. CurveB \in Int
  BY CurveAssumption
<1>3. n \in Int /\ Stands(c, n, 8)
  <2>1. Stands(c, n, 2)
    BY StandsCurve
  <2>2. c.m \in Int
    BY <2>1, FieldAssumption DEF Stands, Fe, Broken
  <2> HIDE DEF c, n
  <2>3. Stands(c, n, 8)
    BY <2>1, <2>2 DEF Stands
  <2> QED
    BY <1>2, <2>3 DEF n
<1>4. Eq(b * b, n)
  <2> DEFINE X2 == X * X
             X3 == X2 * X
             x1 == q[1]
             x2 == x1 * x1
             x3 == x2 * x1
             m == x3 + CurveB
             bb == b * b
  <2>1. X2 \in Int /\ X3 \in Int /\ x1 \in Int /\ x2 \in Int /\ x3 \in Int /\ m \in Int /\ bb \in Int
        /\ Eq(x1, X)
    BY <1>1, <1>2, EqSym
  <2>2. Eq(bb, m) /\ n = X3 + CurveB
    BY <1>1
  <2> HIDE DEF bb, x1
  <2>3. Eq(x2, X2)
    BY <2>1, EqMul
  <2> HIDE DEF x2, X2
  <2>4. Eq(x3, X3)
    BY <2>1, <2>3, EqMul
  <2> HIDE DEF x3, X3
  <2>5. Eq(m, X3 + CurveB)
    BY <1>2, <2>1, <2>4, EqRefl, EqAdd
  <2> HIDE DEF m, n
  <2>6. Eq(bb, n)
    BY <1>2, <2>1, <2>2, <2>5, EqTrans
  <2> QED
    BY <2>6 DEF bb
<1> HIDE DEF c, n
<1>5. y.ok /\ y.r \in Fe /\ y.r.m <= 1 /\ Eq(v * v, n)
  BY <1>1, <1>3, <1>4, QuadIs
<1>6. v \in Values /\ v \in Int
  BY <1>5, PInt DEF Fe, Values
<1>7. \/ v = b
      \/ v = P - b /\ (v % 2 = 1 <=> ~(b % 2 = 1)) /\ Eq(-v, b)
  <2> HIDE DEF v, b
  <2> QED
    BY <1>1, <1>b, <1>3, <1>4, <1>5, <1>6, RootsOfOne
<1>8. Stands(yn, v, 1) /\ yn.n /\ yn.v = v /\ yn \in Fe
  <2>1. Stands(y.r, v, 1)
    BY <1>5, <1>6, EqRefl DEF Stands
  <2>2. v = y.r.v
    OBVIOUS
  <2> HIDE DEF v
  <2>3. Stands(FeNormalize(y.r), v, 1) /\ FeNormalize(y.r).n /\ FeNormalize(y.r).v = v
    BY <1>6, <2>1, <2>2, StandsNormalize, SMTT(30)
  <2> QED
    BY <2>3 DEF FeNormalizeVar, Stands
<1>9. FeIsOdd(yn) <=> v % 2 = 1
  BY <1>8 DEF FeIsOdd
<1>o. odd <=> b % 2 = 1
  OBVIOUS
<1>y. /\ (FeIsOdd(yn) <=> odd) => yy = yn
      /\ ~(FeIsOdd(yn) <=> odd) => yy = FeNegate(yn, 1)
  <2>1. FeIsOdd(yn) \in BOOLEAN /\ odd \in BOOLEAN
    BY DEF FeIsOdd
  <2> HIDE DEF yn, odd
  <2> QED
    BY <2>1
<1>11. GeSetXoVar(x, odd) = [ok |-> TRUE, r |-> [x |-> x, y |-> yy, inf |-> FALSE]]
  BY <1>5 DEF GeSetXoVar, GeSetXquad, GeSetXy, c, yn
<1> HIDE DEF yn, yy, odd, v, b
<1>10. Stands(yy, b, 2)
  <2>1. CASE v = b
    BY <1>1, <1>8, <1>9, <1>o, <1>y, <2>1, EqRefl, StandsEq
  <2>2. CASE v = P - b /\ (v % 2 = 1 <=> ~(b % 2 = 1)) /\ Eq(-v, b)
    <3>1. yy = FeNegate(yn, 1)
      BY <1>9, <1>o, <1>y, <2>2
    <3>2. Stands(FeNegate(yn, 1), -v, 2) /\ -v \in Int
      BY <1>6, <1>8, StandsNegate
    <3> QED
      BY <1>1, <2>2, <3>1, <3>2, StandsEq
  <2> QED
    BY <1>7, <2>1, <2>2
<1>12. GeIs([x |-> x, y |-> yy, inf |-> FALSE], q)
  <2>1. Stands(x, q[1], 2)
    BY <1>1, StandsEq
  <2>2. x \in Fe /\ yy \in Fe /\ x.m <= 6 /\ yy.m <= 4
    <3>1. x \in Fe /\ yy \in Fe /\ x.m <= 2 /\ yy.m <= 2
      BY <1>10 DEF Stands
    <3>2. x.m \in Int /\ yy.m \in Int
      BY <3>1, FieldAssumption DEF Fe, Broken
    <3> QED
      BY <3>1, <3>2
  <2> QED
    BY <1>1, <1>10, <2>1, <2>2 DEF GeIs, Ge, b
<1>13. GeSetXoVar(x, odd).ok = TRUE /\ GeSetXoVar(x, odd).r = [x |-> x, y |-> yy, inf |-> FALSE]
  BY <1>11
<1>14. GeSetXoVar(x, odd).ok /\ GeIs(GeSetXoVar(x, odd).r, q)
  BY <1>12, <1>13, Zenon
<1> QED
  BY <1>14, Zenon DEF odd
-----------------------------------------------------------------------------
\* The order of the group, and remainders modulo it.
LEMMA OrderFacts ==
    /\ Order \in Int /\ Order > 2 /\ Order % 2 = 1
    /\ \A i \in Int : i % Order \in 0..Order-1
    /\ \A i \in 0..Order-1 : i \in Int /\ i % Order = i
<1>1. Order \in Int /\ Order > 2 /\ Order % 2 = 1
  BY CurveAssumption
<1>2. ASSUME NEW i \in Int PROVE i % Order \in 0..Order-1
  BY <1>1
<1>3. ASSUME NEW i \in 0..Order-1 PROVE i \in Int /\ i % Order = i
  BY <1>1
<1> QED
  BY <1>1, <1>2, <1>3

\* Numbers with one remainder are congruent.
LEMMA EqOfMods ==
    ASSUME NEW a \in Int, NEW b \in Int, a % P = b % P
    PROVE  Eq(a, b)
<1>1. Eq(a % P, a) /\ Eq(b % P, b) /\ a % P \in Int
  BY ModValue
<1>2. Eq(a, a % P)
  BY <1>1, EqSym
<1> QED
  BY <1>1, <1>2, EqTrans

\* The multiples of the generator are points of the group; only the 0th is infinity, and
\* none is its own opposite.
LEMMA Multiples ==
    ASSUME NEW k \in 0..Order-1
    PROVE  /\ Multiple[k] \in GroupPoints
           /\ Multiple[k] = Infinity <=> k = 0
           /\ k # 0 => Multiple[k] \in CurvePoints
<1>1. CASE k = 0
  BY <1>1, CurveAssumption DEF GroupPoints
<1>2. CASE k # 0
  <2> DEFINE q == Multiple[k]
  <2>1. k \in 1..Order-1
    BY <1>2, OrderFacts
  <2>2. q \in Values \X Values
    BY <2>1, CurveAssumption
  <2>3. q[1] \in Int /\ q[2] \in Int /\ q # Infinity
    BY <2>2, PairOfValues
  <2>4. Eq(q[2] * q[2], q[1] * q[1] * q[1] + CurveB)
    <3> DEFINE m == q[2] * q[2]
               n == q[1] * q[1] * q[1] + CurveB
    <3>1. m \in Int /\ n \in Int
      BY <2>3, CurveAssumption
    <3>2. m % P = n % P
      BY <2>1, CurveAssumption
    <3> HIDE DEF m, n
    <3>3. Eq(m, n)
      BY <3>1, <3>2, EqOfMods
    <3> QED
      BY <3>3 DEF m, n
  <2>5. ~Eq(2 * q[2], 0)
    <3>1. SUFFICES ASSUME Eq(2 * q[2], 0) PROVE FALSE
      OBVIOUS
    <3>2. (q[2] + q[2]) % P = 0
      <4> DEFINE s == q[2] + q[2]
      <4>1. s \in Int /\ s = 2 * q[2] /\ 0 \in Int
        BY <2>3
      <4>2. Eq(s, 0)
        BY <3>1, <4>1
      <4> HIDE DEF s
      <4>3. s % P \in Values /\ s % P \in Int /\ Eq(s % P, s) /\ 0 \in Values
        BY <4>1, ModValue, PInt DEF Values
      <4>4. s % P = 0
        BY <4>1, <4>2, <4>3, EqTrans, EqValue
      <4> QED
        BY <4>4 DEF s
    <3>3. Plus(q, q) = Infinity
      <4> HIDE DEF q
      <4> QED
        BY <2>3, <3>2 DEF Plus
    <3>4. Multiple[(k + k) % Order] = Infinity
      BY <3>3, CurveAssumption
    <3> DEFINE j == (k + k) % Order
    <3>5. j \in 0..Order-1 /\ j # 0
      <4>1. k \in Int /\ k > 0 /\ k < Order /\ Order \in Int /\ Order % 2 = 1 /\ Order > 2
        BY <2>1, OrderFacts
      <4>2. j \in 0..Order-1
        BY <4>1, OrderFacts
      <4>3. k + k # Order
        BY <4>1
      <4>4. k + k < Order => j = k + k
        BY <4>1
      <4>5. k + k > Order => j = k + k - Order
        <5>1. k + k > Order => (k + k - Order) \in 0..Order-1
          BY <4>1
        <5> QED
          BY <4>1, <5>1
      <4> QED
        BY <4>1, <4>2, <4>3, <4>4, <4>5
    <3>6. j \in 1..Order-1 /\ Multiple[j] \in Values \X Values
      BY <3>5, OrderFacts, CurveAssumption, SMTT(30)
    <3>7. Multiple[j] # Infinity
      BY <3>6, PairOfValues
    <3> QED
      BY <3>4, <3>7
  <2>6. q \in CurvePoints
    BY <2>2, <2>4, <2>5 DEF CurvePoints
  <2> QED
    BY <1>2, <2>3, <2>6 DEF GroupPoints
<1> QED
  BY <1>1, <1>2

\* Multiples add up modulo the order.
LEMMA PlusMultiples ==
    ASSUME NEW i \in 0..Order-1, NEW j \in 0..Order-1
    PROVE  Plus(Multiple[i], Multiple[j]) = Multiple[(i + j) % Order]
  BY CurveAssumption

\* ge_from_storage gives the k-th multiple, normalized.
LEMMA StoredIs ==
    ASSUME NEW k \in 0..Order-1
    PROVE  /\ GeIs(Stored(k), Multiple[k])
           /\ k # 0 => /\ Stands(Stored(k).x, Multiple[k][1], 1) /\ Stored(k).x.v = Multiple[k][1]
                       /\ Stands(Stored(k).y, Multiple[k][2], 1) /\ Stored(k).y.v = Multiple[k][2]
                       /\ Stored(k).x.n /\ Stored(k).y.n /\ ~Stored(k).inf
<1>1. k % Order = k
  BY OrderFacts
<1>2. CASE k = 0
  <2>1. Stored(k) = [x |-> FeClear, y |-> FeClear, inf |-> TRUE]
    BY <1>1, <1>2 DEF Stored
  <2>2. FeClear \in Fe /\ FeClear.m <= 6 /\ FeClear.m <= 4
    BY FieldAssumption, PInt DEF FeClear, Fe, Values, Broken
  <2>3. Multiple[k] = Infinity
    BY <1>2, CurveAssumption
  <2>4. GeIs([x |-> FeClear, y |-> FeClear, inf |-> TRUE], Infinity)
    BY <2>2 DEF GeIs, Ge
  <2> QED
    BY <1>2, <2>1, <2>3, <2>4, Zenon
<1>3. CASE k # 0
  <2> DEFINE q == Multiple[k]
             x == [v |-> q[1], m |-> 1, n |-> TRUE]
             y == [v |-> q[2], m |-> 1, n |-> TRUE]
  <2>1. Stored(k) = [x |-> x, y |-> y, inf |-> FALSE]
    BY <1>1, <1>3 DEF Stored, GeFromStorage, GeSetXy, FeFromStorage
  <2>2. q[1] \in Values /\ q[2] \in Values /\ q[1] \in Int /\ q[2] \in Int /\ q # Infinity
    BY <1>3, Multiples, CurvePointFacts
  <2> HIDE DEF q
  <2>3. x \in Fe /\ y \in Fe
    BY <2>2, FieldAssumption DEF Fe, Broken
  <2>4. Stands(x, q[1], 1) /\ Stands(y, q[2], 1) /\ Stands(x, q[1], 2) /\ Stands(y, q[2], 2)
    BY <2>2, <2>3, EqRefl DEF Stands
  <2>5. x.v = q[1] /\ y.v = q[2] /\ x.m <= 6 /\ y.m <= 4 /\ x.n /\ y.n
    OBVIOUS
  <2> HIDE DEF x, y
  <2> QED
    BY <1>3, <2>1, <2>2, <2>3, <2>4, <2>5 DEF GeIs, Ge, q
<1> QED
  BY <1>2, <1>3

\* A rescaled record of the k-th multiple is that multiple.
LEMMA ScaledIs ==
    ASSUME NEW k \in 1..Order-1, NEW s \in 1..P-1
    PROVE  /\ GejIs(Scaled(k, s), Multiple[k])
           /\ \E Z \in Int : /\ GejStands(Scaled(k, s), Multiple[k][1], Multiple[k][2], Z)
                             /\ Scaled(k, s).z.m <= 1
<1>1. k \in 0..Order-1 /\ k # 0
  BY OrderFacts
<1>2. Multiple[k] \in GroupPoints /\ Multiple[k] # Infinity /\ GeIs(Stored(k), Multiple[k])
  BY <1>1, Multiples, StoredIs
<1>3. GejIs(GejSetGe(Stored(k)), Multiple[k])
  BY <1>2, GejSetGeIs
<1>4. s \in Int /\ Stands(FeSetInt(s), s, 1)
  BY PInt, StandsSetInt
<1>5. ~Eq(s, 0)
  <2>1. s \in Values /\ 0 \in Values /\ s # 0
    BY PInt DEF Values
  <2> QED
    BY <2>1, EqValue
<1> QED
  BY <1>2, <1>3, <1>4, <1>5, GejRescaleIs DEF Scaled

\* The k-th and the (Order - k)-th multiple are opposite.
LEMMA OppositeMultiples ==
    ASSUME NEW k \in 0..Order-1
    PROVE  /\ (Order - k) % Order \in 0..Order-1
           /\ Plus(Multiple[k], Multiple[(Order - k) % Order]) = Infinity
           /\ Plus(Multiple[(Order - k) % Order], Multiple[k]) = Infinity
<1> DEFINE j == (Order - k) % Order
<1>1. j \in 0..Order-1 /\ (k + j) % Order = 0 /\ (j + k) % Order = 0
  <2>1. CASE k = 0
    <3>1. j = 0
      BY <2>1, OrderFacts
    <3> QED
      BY <2>1, <3>1, OrderFacts
  <2>2. CASE k # 0
    <3>1. Order - k \in 0..Order-1 /\ k \in Int
      BY <2>2, OrderFacts
    <3>2. j = Order - k
      BY <3>1, OrderFacts
    <3>3. k + j = Order /\ j + k = Order /\ Order % Order = 0
      BY <3>1, <3>2, OrderFacts
    <3> QED
      BY <3>1, <3>2, <3>3
  <2> QED
    BY <2>1, <2>2
<1> HIDE DEF j
<1>2. Multiple[0] = Infinity
  BY CurveAssumption
<1>3. Plus(Multiple[k], Multiple[j]) = Infinity /\ Plus(Multiple[j], Multiple[k]) = Infinity
  BY <1>1, <1>2, PlusMultiples
<1> QED
  BY <1>1, <1>3 DEF j
-----------------------------------------------------------------------------
\* gej_is_valid_var takes the records of points and refuses infinity.
LEMMA GejIsValidVarIs ==
    ASSUME NEW a, NEW q \in GroupPoints, GejIs(a, q)
    PROVE  GejIsValidVar(a) <=> q # Infinity
<1>1. CASE q = Infinity
  BY <1>1 DEF GejIs, GejIsValidVar
<1>2. CASE q # Infinity
  <2> DEFINE x == q[1]
             y == q[2]
  <2>1. x \in Int /\ y \in Int /\ Eq(y * y, x * x * x + CurveB)
    BY <1>2, CurvePointFacts DEF GroupPoints
  <2>2. PICK Z \in Int : GejStands(a, x, y, Z)
    BY <1>2 DEF GejIs
  <2>3. CurveB \in Int /\ CurveB \in Nat /\ CurveB <= 31
    BY CurveAssumption
  <2> HIDE DEF x, y
  <2> DEFINE Z2 == Z * Z
             Z6 == Z2 * Z2 * Z2
             X == x * Z * Z
             Y == y * Z * Z * Z
             X3 == X * X * X
             c == Z6 * CurveB
             z2 == FeSqr(a.z)
             z6 == FeMul(FeSqr(z2), z2)
             x3 == FeMul(FeSqr(a.x), a.x)
             rhs == FeAdd(x3, FeMulInt(z6, CurveB))
  <2>4. /\ Z2 \in Int /\ Z6 \in Int /\ X \in Int /\ Y \in Int /\ X3 \in Int /\ c \in Int
        /\ Z2 * Z2 \in Int /\ X * X \in Int /\ X3 = (X * X) * X /\ Z6 = (Z2 * Z2) * Z2
        /\ Y * Y \in Int /\ X3 + c \in Int
    BY <2>1, <2>3
  <2>5. Stands(a.x, X, 6) /\ Stands(a.y, Y, 4) /\ Stands(a.z, Z, 2) /\ ~a.inf
    BY <2>2 DEF GejStands
  <2>6. Stands(z2, Z2, 1)
    BY <2>4, <2>5, StandsSqr
  <2>7. Stands(z6, Z6, 1)
    <3> HIDE DEF Z2, z2, Z6
    <3>1. Stands(FeSqr(z2), Z2 * Z2, 1)
      BY <2>4, <2>6, StandsSqr
    <3>2. Z6 = (Z2 * Z2) * Z2
      BY <2>4
    <3> QED
      BY <2>4, <2>6, <3>1, <3>2, StandsMul
  <2>8. Stands(x3, X3, 1)
    <3> HIDE DEF X, X3
    <3>1. Stands(FeSqr(a.x), X * X, 1)
      BY <2>4, <2>5, StandsSqr
    <3> QED
      BY <2>4, <2>5, <3>1, StandsMul
  <2>9. Stands(rhs, X3 + c, 32)
    <3> HIDE DEF z6, x3, Z6, X3
    <3>1. Stands(FeMulInt(z6, CurveB), c, 31)
      BY <2>3, <2>4, <2>7, StandsMulInt
    <3> HIDE DEF c
    <3> QED
      BY <2>4, <2>8, <3>1, StandsAdd
  <2>10. Stands(FeNormalizeWeak(rhs), X3 + c, 30)
    <3> HIDE DEF rhs, X3, c
    <3>1. Stands(FeNormalizeWeak(rhs), X3 + c, 1)
      BY <2>4, <2>9, StandsNormalize
    <3> QED
      BY <2>4, <3>1, EqRefl, StandsEq
  <2>11. Stands(FeSqr(a.y), Y * Y, 1)
    BY <2>4, <2>5, StandsSqr
  <2>12. Eq(Y * Y, X3 + c)
    <3> DEFINE m == y * y
               n == x * x * x + CurveB
    <3>1. m \in Int /\ n \in Int /\ Y * Y - (X3 + c) = Z6 * (m - n)
      BY <2>1, <2>3
    <3> HIDE DEF Y, X3, c, Z6, X
    <3>2. Eq(m, n)
      BY <2>1
    <3> HIDE DEF m, n
    <3> QED
      BY <2>4, <3>1, <3>2, EqFrom
  <2>13. FeEqual(FeSqr(a.y), FeNormalizeWeak(rhs))
    <3> HIDE DEF Y, X3, c, rhs
    <3> QED
      BY <2>4, <2>10, <2>11, <2>12, StandsEqual
  <2>14. FeEqualVar(FeSqr(a.y), FeNormalizeWeak(rhs))
    BY <2>13 DEF FeEqual, FeEqualVar, FeNormalizesToZeroVar
  <2> QED
    BY <1>2, <2>5, <2>14 DEF GejIsValidVar
<1> QED
  BY <1>1, <1>2

\* gej_has_quad_y_var decides whether the affine y is a square, from the Jacobian one.
LEMMA GejHasQuadYVarIs ==
    ASSUME NEW a, NEW q \in CurvePoints, GejIs(a, q)
    PROVE  GejHasQuadYVar(a) <=> \E u \in Int : Eq(u * u, q[2])
<1> DEFINE y == q[2]
<1>1. y \in Int /\ q # Infinity
  BY CurvePointFacts
<1>2. PICK Z \in Int : GejStands(a, q[1], y, Z)
  BY <1>1 DEF GejIs
<1> HIDE DEF y
<1> DEFINE Y == y * Z * Z * Z
           W == Y * Z
<1>3. Y \in Int /\ W \in Int /\ W = y * Z * Z * Z * Z
  BY <1>1
<1>4. Stands(a.y, Y, 4) /\ Stands(a.z, Z, 2) /\ ~a.inf /\ ~Eq(Z, 0)
  BY <1>2 DEF GejStands
<1>5. Stands(FeMul(a.y, a.z), W, 8)
  <2> HIDE DEF Y
  <2>1. Stands(FeMul(a.y, a.z), W, 1)
    BY <1>3, <1>4, StandsMul
  <2> HIDE DEF W
  <2> QED
    BY <1>3, <2>1, EqRefl, StandsEq
<1>6. GejHasQuadYVar(a) <=> \E u \in Int : Eq(u * u, W)
  BY <1>3, <1>4, <1>5, QuadIs DEF GejHasQuadYVar
<1>7. ASSUME NEW u \in Int, Eq(u * u, y)
      PROVE  \E t \in Int : Eq(t * t, W)
  <2> DEFINE t == u * (Z * Z)
             tt == t * t
             uu == u * u
             k == Z * Z * Z * Z
  <2>1. t \in Int /\ tt \in Int /\ uu \in Int /\ k \in Int /\ tt - W = k * (uu - y)
    BY <1>1
  <2>2. Eq(uu, y)
    BY <1>7
  <2>3. Eq(tt, W)
    <3> HIDE DEF tt, uu, k, W
    <3> QED
      BY <1>1, <1>3, <2>1, <2>2, EqFrom
  <2> QED
    BY <2>1, <2>3
<1>8. ASSUME NEW u \in Int, Eq(u * u, W)
      PROVE  \E t \in Int : Eq(t * t, y)
  <2>1. PICK i \in Values : Eq(Z * i, 1)
    BY <1>4, HasInverse
  <2>2. i \in Int
    BY PInt DEF Values
  <2> DEFINE t == u * (i * i)
             tt == t * t
             uu == u * u
             k == i * i * i * i
             e == Z * i
             f == y * (e * e * e + e * e + e + 1)
             g == y * e * e * e * e
  <2>3. /\ t \in Int /\ tt \in Int /\ uu \in Int /\ k \in Int /\ e \in Int /\ f \in Int /\ g \in Int
        /\ tt - g = k * (uu - W)
    BY <1>1, <1>3, <2>2
  <2>4. g - y = f * (e - 1) /\ 1 \in Int
    <3> HIDE DEF e
    <3> QED
      BY <1>1, <2>3
  <2>5. Eq(uu, W) /\ Eq(e, 1)
    BY <1>8, <2>1
  <2> HIDE DEF tt, uu, k, e, f, g, W
  <2>6. Eq(tt, g)
    BY <1>3, <2>3, <2>5, EqFrom
  <2>7. Eq(g, y)
    BY <1>1, <2>3, <2>4, <2>5, EqFrom
  <2>8. Eq(tt, y)
    BY <1>1, <2>3, <2>6, <2>7, EqTrans
  <2> QED
    BY <2>3, <2>8 DEF tt
<1> QED
  BY <1>6, <1>7, <1>8 DEF y

\* gej_eq_x_var compares an affine x with that of a Jacobian point.
LEMMA GejEqXVarIs ==
    ASSUME NEW a, NEW q \in CurvePoints, GejIs(a, q), NEW e, NEW x \in Int, Stands(e, x, 8)
    PROVE  GejEqXVar(e, a) <=> Eq(x, q[1])
<1> DEFINE X == q[1]
<1>1. X \in Int /\ q # Infinity
  BY CurvePointFacts
<1>2. PICK Z \in Int : GejStands(a, X, q[2], Z)
  BY <1>1 DEF GejIs
<1> HIDE DEF X
<1> DEFINE ZZ == Z * Z
           m == ZZ * x
           n == X * Z * Z
<1>3. ZZ \in Int /\ m \in Int /\ n \in Int /\ n = ZZ * X
  BY <1>1
<1>4. Stands(a.x, n, 6) /\ Stands(a.z, Z, 2) /\ ~Eq(Z, 0)
  BY <1>2 DEF GejStands
<1>5. ~Eq(ZZ, 0)
  BY <1>4, EqProductZero
<1>6. Stands(FeMul(FeSqr(a.z), e), m, 1)
  <2>1. Stands(FeSqr(a.z), ZZ, 1)
    BY <1>3, <1>4, StandsSqr
  <2> HIDE DEF ZZ
  <2> QED
    BY <1>3, <2>1, StandsMul
<1>7. Stands(FeNormalizeWeak(a.x), n, 30)
  <2> HIDE DEF n
  <2>1. Stands(FeNormalizeWeak(a.x), n, 1)
    BY <1>3, <1>4, StandsNormalize
  <2> QED
    BY <1>3, <2>1, EqRefl, StandsEq
<1>8. GejEqXVar(e, a) <=> Eq(m, n)
  <2> HIDE DEF m, n
  <2> QED
    BY <1>3, <1>6, <1>7, StandsEqual DEF GejEqXVar, FeEqual, FeEqualVar, FeNormalizesToZeroVar
<1> HIDE DEF ZZ
<1>9. Eq(m, n) => Eq(x, X)
  <2>1. m = ZZ * x /\ n = ZZ * X
    BY <1>3
  <2> HIDE DEF m, n
  <2> QED
    BY <1>1, <1>3, <1>5, <2>1, EqCancel
<1>10. Eq(x, X) => Eq(m, n)
  <2>1. m - n = ZZ * (x - X)
    BY <1>1, <1>3
  <2> HIDE DEF m, n
  <2> QED
    BY <1>1, <1>3, <2>1, EqFrom
<1> QED
  BY <1>8, <1>9, <1>10 DEF X
-----------------------------------------------------------------------------
\* What ge_to_storage keeps of a finite affine point, and ge_from_storage gives back.
StorageOf(q) == [x |-> q[1], y |-> q[2]]

\* An affine record of a point is stored as the point's coordinates.
LEMMA GeToStorageIs ==
    ASSUME NEW b, NEW q \in CurvePoints, Stands(b.x, q[1], 2), Stands(b.y, q[2], 2)
    PROVE  GeToStorage(b) = StorageOf(q)
<1>1. q[1] \in Int /\ q[2] \in Int /\ q[1] \in Values /\ q[2] \in Values
  BY CurvePointFacts
<1>2. ASSUME NEW a, NEW n \in Values, Stands(a, n, 2) PROVE FeToStorage(FeNormalize(a)) = n
  <2>1. n \in Int
    BY PInt DEF Values
  <2>2. FeNormalize(a).n /\ FeNormalize(a).v = a.v
    BY <1>2, <2>1, StandsNormalize
  <2>3. a.v \in Values /\ Eq(a.v, n)
    BY <1>2 DEF Stands, Fe
  <2>4. a.v = n
    BY <2>3, EqValue
  <2> QED
    BY <2>2, <2>4 DEF FeToStorage
<1>3. FeToStorage(FeNormalize(b.x)) = q[1] /\ FeToStorage(FeNormalize(b.y)) = q[2]
  BY <1>1, <1>2
<1> QED
  BY <1>3 DEF GeToStorage, StorageOf

\* The stored coordinates of a point give the point.
LEMMA GeFromStorageIs ==
    ASSUME NEW q \in CurvePoints
    PROVE  /\ GeIs(GeFromStorage(StorageOf(q)), q)
           /\ GeFromStorage(StorageOf(q)).x.m = 1 /\ GeFromStorage(StorageOf(q)).y.m = 1
<1> DEFINE fx == [v |-> q[1], m |-> 1, n |-> TRUE]
           fy == [v |-> q[2], m |-> 1, n |-> TRUE]
<1>1. q[1] \in Int /\ q[2] \in Int /\ q[1] \in Values /\ q[2] \in Values /\ q # Infinity
  BY CurvePointFacts
<1>2. GeFromStorage(StorageOf(q)) = [x |-> fx, y |-> fy, inf |-> FALSE]
  BY DEF GeFromStorage, StorageOf, GeSetXy, FeFromStorage
<1>3. fx \in Fe /\ fy \in Fe
  BY <1>1, FieldAssumption DEF Fe, Broken
<1>4. fx.v = q[1] /\ fx.m = 1 /\ fy.v = q[2] /\ fy.m = 1
  OBVIOUS
<1> HIDE DEF fx, fy
<1>5. Stands(fx, q[1], 2) /\ Stands(fy, q[2], 2)
  BY <1>1, <1>3, <1>4, EqRefl DEF Stands
<1> DEFINE b == [x |-> fx, y |-> fy, inf |-> FALSE]
<1>6. b \in Ge /\ b.x = fx /\ b.y = fy /\ b.inf = FALSE
  BY <1>3 DEF Ge
<1> HIDE DEF b
<1>7. GeIs(b, q) /\ b.x.m = 1 /\ b.y.m = 1
  BY <1>1, <1>4, <1>5, <1>6 DEF GeIs
<1> QED
  BY <1>2, <1>7 DEF b

\* Eq is kept by a factor.
LEMMA EqScale ==
    ASSUME NEW a \in Int, NEW b \in Int, NEW c \in Int, Eq(a, b)
    PROVE  Eq(c * a, c * b) /\ Eq(a * c, b * c) /\ c * a \in Int /\ c * b \in Int
<1>1. Eq(c, c)
  BY EqRefl
<1> QED
  BY <1>1, EqMul

\* What a z can be multiplied by to change the curve.
ZScales == {g \in Fe : g.m <= 2 /\ ~Eq(g.v, 0)}

\* The loops work on a curve with another z: what a record on it stands for
\* is found by multiplying its z by g.
Unscaled(a, g) == [a EXCEPT !.z = FeMul(@, g)]
\* a, with that factor, stands for q.
OnIs(a, g, q) == GejKept(a) /\ GejIs(Unscaled(a, g), q)
\* b is the affine q on the curve of g.
IsoGe(b, g, q) ==
    /\ b \in Ge /\ b.inf = FALSE
    /\ Stands(b.x, q[1] * g.v * g.v, 6) /\ Stands(b.y, q[2] * g.v * g.v * g.v, 4)

\* A scale is a unit of the field that an fe holds.
LEMMA ScaleFacts ==
    ASSUME NEW g \in ZScales
    PROVE  g \in Fe /\ g.v \in Int /\ Stands(g, g.v, 2) /\ ~Eq(g.v, 0)
<1>1. g \in Fe /\ g.m <= 2 /\ ~Eq(g.v, 0)
  BY DEF ZScales
<1> QED
  BY <1>1, StandsSelf

\* With the scale, a record differs in its z alone.
LEMMA UnscaledFacts ==
    ASSUME NEW a, GejKept(a), NEW g \in ZScales
    PROVE  LET s == Unscaled(a, g)
           IN  /\ s \in Gej /\ GejKept(s) /\ s.z = FeMul(a.z, g)
               /\ s.x = a.x /\ s.y = a.y /\ s.inf = a.inf
               /\ a.z.v \in Int /\ g.v \in Int /\ a.z.v * g.v \in Int
               /\ Stands(a.z, a.z.v, 2) /\ Stands(s.z, a.z.v * g.v, 1)
               /\ a.x \in Fe /\ a.y \in Fe /\ a.z \in Fe /\ a.inf \in BOOLEAN /\ a \in Gej
<1>1. a \in Gej /\ a.x.m <= 6 /\ a.y.m <= 4 /\ a.z.m <= 2
  BY DEF GejKept
<1>2. a.x \in Fe /\ a.y \in Fe /\ a.z \in Fe /\ a.inf \in BOOLEAN
  BY <1>1 DEF Gej
<1>3. Stands(g, g.v, 2) /\ g.v \in Int
  BY ScaleFacts
<1>4. Stands(a.z, a.z.v, 2) /\ a.z.v \in Int
  BY <1>1, <1>2, StandsSelf
<1>5. a.z.v * g.v \in Int
  BY <1>3, <1>4
<1>6. Stands(FeMul(a.z, g), a.z.v * g.v, 1)
  BY <1>3, <1>4, <1>5, StandsMul
<1> DEFINE f == FeMul(a.z, g)
           s == [a EXCEPT !.z = f]
<1>7. f \in Fe /\ f.m <= 2
  <2>1. f \in Fe /\ f.m <= 1
    BY <1>6 DEF Stands
  <2> HIDE DEF f
  <2>2. f.m \in Int
    BY <2>1, FieldAssumption DEF Fe, Broken
  <2> QED
    BY <2>1, <2>2
<1> HIDE DEF f
<1>8. s \in Gej /\ s.z = f /\ s.x = a.x /\ s.y = a.y /\ s.inf = a.inf
  BY <1>1, <1>7 DEF Gej
<1>9. Unscaled(a, g) = s
  BY DEF Unscaled, f
<1> HIDE DEF s
<1>10. GejKept(s)
  BY <1>1, <1>7, <1>8 DEF GejKept
<1> QED
  BY <1>1, <1>2, <1>3, <1>4, <1>5, <1>6, <1>8, <1>9, <1>10 DEF f

\* A record with the same values is the same point.
LEMMA SameGej ==
    ASSUME NEW a, NEW b, NEW q \in GroupPoints, GejIs(a, q), GejKept(b), b.inf = a.inf,
           b.x.v = a.x.v, b.y.v = a.y.v, Eq(b.z.v, a.z.v)
    PROVE  GejIs(b, q)
<1>1. CASE q = Infinity
  BY <1>1 DEF GejIs
<1>2. CASE q # Infinity
  <2>1. PICK Z \in Int : GejStands(a, q[1], q[2], Z)
    BY <1>2 DEF GejIs
  <2>2. /\ a \in Gej /\ ~a.inf /\ ~Eq(Z, 0)
        /\ Eq(a.x.v, q[1] * Z * Z) /\ Eq(a.y.v, q[2] * Z * Z * Z) /\ Eq(a.z.v, Z)
    BY <2>1 DEF GejStands, Stands
  <2>3. /\ b \in Gej /\ b.x.m <= 6 /\ b.y.m <= 4 /\ b.z.m <= 2
        /\ b.x \in Fe /\ b.y \in Fe /\ b.z \in Fe
    BY DEF GejKept, Gej
  <2>4. a.z.v \in Int /\ b.z.v \in Int
    BY <2>2, <2>3, PInt DEF Gej, Fe, Values
  <2>5. Eq(b.z.v, Z)
    BY <2>2, <2>4, EqTrans
  <2>6. Stands(b.x, q[1] * Z * Z, 6) /\ Stands(b.y, q[2] * Z * Z * Z, 4) /\ Stands(b.z, Z, 2)
    BY <2>2, <2>3, <2>5 DEF Stands
  <2>7. GejStands(b, q[1], q[2], Z)
    BY <2>2, <2>3, <2>6 DEF GejStands
  <2> QED
    BY <1>2, <2>7 DEF GejIs
<1> QED
  BY <1>1, <1>2

\* To go on with a record is to go on with what it stands for, where the formula uses the
\* z for the new z alone.
LEMMA OnSame ==
    ASSUME NEW g \in ZScales, NEW r, NEW s, NEW q \in GroupPoints, GejIs(s, q), GejKept(r),
           r.inf = s.inf, r.x.v = s.x.v, r.y.v = s.y.v, Eq(r.z.v * g.v, s.z.v)
    PROVE  OnIs(r, g, q)
<1> DEFINE u == Unscaled(r, g)
<1>1. /\ GejKept(u) /\ u.x = r.x /\ u.y = r.y /\ u.inf = r.inf
      /\ Stands(u.z, r.z.v * g.v, 1) /\ r.z.v * g.v \in Int
  BY UnscaledFacts
<1>2. u.z \in Fe /\ Eq(u.z.v, r.z.v * g.v)
  BY <1>1 DEF Stands
<1>3. GejKept(s) /\ s.z.v \in Int
  BY PInt DEF GejIs, GejKept, Gej, Fe, Values
<1>4. u.z.v \in Int
  BY <1>2, PInt DEF Fe, Values
<1> HIDE DEF u
<1>5. Eq(u.z.v, s.z.v)
  BY <1>1, <1>2, <1>3, <1>4, EqTrans
<1>6. GejIs(u, q)
  BY <1>1, <1>5, SameGej
<1> QED
  BY <1>6 DEF OnIs, u

\* Doubling.
LEMMA OnDouble ==
    ASSUME NEW a, NEW g \in ZScales, NEW q \in GroupPoints, GejKept(a),
           GejIs(GejDoubleVar(Unscaled(a, g)).r, q)
    PROVE  OnIs(GejDoubleVar(a).r, g, q)
<1> DEFINE u == Unscaled(a, g)
<1>1. GejKept(a)
  OBVIOUS
<1>2. /\ u \in Gej /\ GejKept(u) /\ u.z = FeMul(a.z, g)
      /\ u.x = a.x /\ u.y = a.y /\ u.inf = a.inf
      /\ a.z.v \in Int /\ g.v \in Int /\ a.z.v * g.v \in Int
      /\ Stands(a.z, a.z.v, 2) /\ Stands(u.z, a.z.v * g.v, 1)
      /\ a.x \in Fe /\ a.y \in Fe /\ a.z \in Fe /\ a.inf \in BOOLEAN /\ a \in Gej
  BY <1>1, UnscaledFacts
<1>3. GejIs(GejDoubleVar(u).r, q)
  OBVIOUS
<1>4. CASE a.inf
  <2>1. GejDoubleVar(a).r = a /\ GejDoubleVar(u).r = u
    BY <1>2, <1>4 DEF GejDoubleVar
  <2> QED
    BY <1>1, <1>3, <2>1 DEF OnIs
<1>5. CASE ~a.inf
  <2> DEFINE r == GejDoubleVar(a).r
             s == GejDoubleVar(u).r
  <2>1. /\ r.x = s.x /\ r.y = s.y /\ r.inf = s.inf
        /\ r.z = FeMulInt(FeMul(a.z, a.y), 2) /\ s.z = FeMulInt(FeMul(u.z, a.y), 2)
        /\ r = [x |-> r.x, y |-> r.y, z |-> r.z, inf |-> FALSE]
    BY <1>2, <1>5 DEF GejDoubleVar
  <2> HIDE DEF r, s, u
  <2> DEFINE z == a.z.v
             y == a.y.v
             c == g.v
  <2>2. Stands(a.y, y, 4) /\ y \in Int /\ z \in Int /\ c \in Int
    BY <1>1, <1>2, StandsSelf DEF GejKept
  <2>3. Stands(a.z, z, 2) /\ Stands(u.z, z * c, 1)
    BY <1>2
  <2> HIDE DEF z, y, c
  <2>4. z * c \in Int /\ z * y \in Int /\ (z * c) * y \in Int /\ (z * y) * 2 \in Int /\ ((z * c) * y) * 2 \in Int
    BY <2>2
  <2>5. Stands(FeMul(a.z, a.y), z * y, 1) /\ Stands(FeMul(u.z, a.y), (z * c) * y, 1)
    BY <2>2, <2>3, <2>4, StandsMul
  <2>6. Stands(r.z, (z * y) * 2, 2) /\ Stands(s.z, ((z * c) * y) * 2, 2)
    BY <2>1, <2>4, <2>5, StandsMulInt
  <2>7. r.z \in Fe /\ r.z.m <= 2 /\ Eq(r.z.v, (z * y) * 2) /\ s.z \in Fe /\ Eq(s.z.v, ((z * c) * y) * 2)
    BY <2>6 DEF Stands
  <2>8. r.z.v \in Int /\ s.z.v \in Int /\ r.z.v * c \in Int
    BY <2>2, <2>7, PInt DEF Fe, Values
  <2>9. Eq(r.z.v * c, s.z.v)
    <3> DEFINE b == (z * y) * 2
               o == r.z.v
    <3>0. o \in Int /\ b \in Int /\ c \in Int /\ Eq(o, b)
      BY <2>2, <2>4, <2>7, <2>8
    <3>1. Eq(r.z.v * c, ((z * y) * 2) * c) /\ ((z * y) * 2) * c \in Int
      <4> HIDE DEF b, o
      <4>1. Eq(o * c, b * c) /\ b * c \in Int
        <5>1. c * b = b * c
          BY <3>0
        <5> QED
          BY <3>0, <5>1, EqScale
      <4> QED
        BY <4>1 DEF b, o
    <3>2. ((z * y) * 2) * c = ((z * c) * y) * 2
      BY <2>2
    <3>3. Eq(((z * c) * y) * 2, s.z.v)
      BY <2>4, <2>7, <2>8, EqSym
    <3> QED
      BY <2>4, <2>8, <3>1, <3>2, <3>3, EqTrans
  <2>10. GejKept(r)
    <3>1. s \in Gej /\ s.x.m <= 6 /\ s.y.m <= 4 /\ s.x \in Fe /\ s.y \in Fe
      BY <1>3 DEF GejIs, GejKept, Gej, s
    <3>2. r \in Gej
      BY <2>1, <2>7, <3>1 DEF Gej
    <3> QED
      BY <2>1, <2>7, <3>1, <3>2 DEF GejKept
  <2> QED
    BY <1>3, <2>1, <2>9, <2>10, OnSame DEF r, s, c
<1> QED
  BY <1>2, <1>4, <1>5

\* A sum whose parts are on a common z.
LEMMA OnSum ==
    ASSUME NEW a, NEW g \in ZScales, NEW q \in GroupPoints, GejKept(a),
           NEW u1, NEW s1, NEW h, NEW i, NEW z \in Fe, z.m <= 2, NEW t, NEW f, NEW e,
           Eq(z.v * g.v, t.v),
           GejIs(SumOrDouble(Unscaled(a, g), u1, s1, h, i, t, f).r, q)
    PROVE  OnIs(SumOrDouble(a, u1, s1, h, i, z, e).r, g, q)
<1> DEFINE u == Unscaled(a, g)
           r == SumOrDouble(a, u1, s1, h, i, z, e).r
           s == SumOrDouble(u, u1, s1, h, i, t, f).r
<1>1. /\ u \in Gej /\ GejKept(u) /\ u.z = FeMul(a.z, g)
      /\ u.x = a.x /\ u.y = a.y /\ u.inf = a.inf
      /\ a.x \in Fe /\ a.y \in Fe /\ a.z \in Fe /\ a.inf \in BOOLEAN /\ a \in Gej
  BY UnscaledFacts
<1>2. GejIs(s, q)
  OBVIOUS
<1>3. CASE FeNormalizesToZeroVar(h) /\ FeNormalizesToZeroVar(i)
  <2>1. r = GejDoubleVar(a).r /\ s = GejDoubleVar(u).r
    BY <1>3 DEF SumOrDouble
  <2> HIDE DEF r, s
  <2> QED
    BY <1>2, <2>1, OnDouble DEF r
<1>4. CASE FeNormalizesToZeroVar(h) /\ ~FeNormalizesToZeroVar(i)
  <2>1. r = [a EXCEPT !.inf = TRUE] /\ s = [u EXCEPT !.inf = TRUE]
    BY <1>4 DEF SumOrDouble
  <2> HIDE DEF r, s
  <2>2. r \in Gej /\ r.x = a.x /\ r.y = a.y /\ r.z = a.z /\ GejKept(r)
    BY <1>1, <2>1 DEF Gej, GejKept
  <2>3. Unscaled(r, g) = s
    BY <1>1, <2>1 DEF Unscaled, Gej
  <2> QED
    BY <1>2, <2>2, <2>3 DEF OnIs, r
<1>5. CASE ~FeNormalizesToZeroVar(h)
  <2>1. r = Chord(u1, s1, h, i, z) /\ s = Chord(u1, s1, h, i, t)
    BY <1>5 DEF SumOrDouble
  <2> HIDE DEF r, s, u
  <2>2. /\ r.x = s.x /\ r.y = s.y /\ r.inf = FALSE /\ s.inf = FALSE /\ r.z = z /\ s.z = t
        /\ r = [x |-> r.x, y |-> r.y, z |-> z, inf |-> FALSE]
    BY <2>1 DEF Chord
  <2>3. s \in Gej /\ s.x.m <= 6 /\ s.y.m <= 4 /\ s.x \in Fe /\ s.y \in Fe
    BY <1>2 DEF GejIs, GejKept, Gej
  <2>4. r \in Gej
    BY <2>2, <2>3 DEF Gej
  <2>5. GejKept(r)
    BY <2>2, <2>3, <2>4 DEF GejKept
  <2> QED
    BY <1>2, <2>2, <2>5, OnSame DEF r
<1> QED
  BY <1>3, <1>4, <1>5
-----------------------------------------------------------------------------
\* fe_mul reads the value, whatever the element it is in.
LEMMA MulSame ==
    ASSUME NEW a \in Fe, NEW b \in Fe, a.v = b.v, a.m <= 8, b.m <= 8
    PROVE  /\ \A x : FeMul(x, a) = FeMul(x, b) /\ FeMul(a, x) = FeMul(b, x)
           /\ FeSqr(a) = FeSqr(b)
<1>1. a.m <= MulMagnitude /\ b.m <= MulMagnitude
  <2>1. a.m \in Int /\ b.m \in Int /\ MulMagnitude \in Int /\ MulMagnitude >= 8
    BY FieldAssumption, MagnitudeAssumption DEF Fe, Broken
  <2> QED
    BY <2>1
<1>2. \A x : FeMul(x, a) = FeMul(x, b) /\ FeMul(a, x) = FeMul(b, x)
  BY <1>1 DEF FeMul
<1>3. FeMul(a, a) = FeMul(b, b)
  BY <1>1 DEF FeMul
<1> QED
  BY <1>2, <1>3 DEF FeSqr

\* A record at infinity stands for infinity, and no other does.
LEMMA OnInfinity ==
    ASSUME NEW a, NEW g \in ZScales, NEW p \in GroupPoints, OnIs(a, g, p)
    PROVE  (a.inf <=> p = Infinity) /\ a.inf \in BOOLEAN
<1>1. Unscaled(a, g).inf = a.inf /\ a.inf \in BOOLEAN
  BY UnscaledFacts DEF OnIs
<1>2. GejIs(Unscaled(a, g), p)
  BY DEF OnIs
<1> QED
  BY <1>1, <1>2 DEF GejIs, GejStands

\* gej_set_ge gives a point of the curve the affine one is on.
LEMMA OnSetGe ==
    ASSUME NEW b, NEW g \in ZScales, NEW q \in CurvePoints, IsoGe(b, g, q)
    PROVE  OnIs(GejSetGe(b), g, q)
<1> DEFINE r == GejSetGe(b)
           u == Unscaled(r, g)
           c == g.v
<1>1. q[1] \in Int /\ q[2] \in Int /\ q # Infinity
  BY CurvePointFacts
<1>2. Stands(One, 1, 1) /\ One \in Fe
  BY StandsSetInt DEF One, Stands
<1>3. One.m \in Int /\ One.m <= 2
  <2>1. One.m \in Int
    BY <1>2, FieldAssumption DEF Fe, Broken
  <2> QED
    BY <1>2, <2>1 DEF Stands
<1>4. r = [x |-> b.x, y |-> b.y, z |-> One, inf |-> FALSE]
  BY DEF GejSetGe, IsoGe
<1>5. b.x \in Fe /\ b.y \in Fe /\ b.x.m <= 6 /\ b.y.m <= 4
  BY DEF IsoGe, Stands
<1> HIDE DEF r
<1>6. r \in Gej /\ r.x = b.x /\ r.y = b.y /\ r.z = One /\ r.inf = FALSE
  BY <1>2, <1>4, <1>5 DEF Gej
<1>7. GejKept(r)
  BY <1>3, <1>5, <1>6 DEF GejKept
<1>8. /\ u \in Gej /\ u.x = b.x /\ u.y = b.y /\ u.inf = FALSE /\ u.z = FeMul(One, g)
  BY <1>6, <1>7, UnscaledFacts
<1>9. Stands(g, c, 2) /\ c \in Int /\ ~Eq(c, 0)
  BY ScaleFacts
<1>10. Stands(FeMul(One, g), c, 1)
  <2> HIDE DEF c
  <2>1. c = 1 * c
    BY <1>9
  <2> QED
    BY <1>2, <1>9, <2>1, StandsMul
<1>11. Stands(u.z, c, 2)
  <2> HIDE DEF c, u
  <2>1. u.z \in Fe /\ u.z.m <= 1 /\ Eq(u.z.v, c)
    BY <1>8, <1>10 DEF Stands
  <2>2. u.z.m \in Int
    BY <2>1, FieldAssumption DEF Fe, Broken
  <2> QED
    BY <2>1, <2>2 DEF Stands
<1>12. Stands(b.x, q[1] * c * c, 6) /\ Stands(b.y, q[2] * c * c * c, 4)
  BY DEF IsoGe
<1> HIDE DEF u, c
<1>13. GejStands(u, q[1], q[2], c)
  BY <1>8, <1>9, <1>11, <1>12 DEF GejStands
<1>14. GejIs(u, q)
  <2>1. q \in Values \X Values
    BY CurvePointFacts
  <2> QED
    BY <1>9, <1>13, <2>1, GejIsFinite
<1> QED
  BY <1>7, <1>14 DEF OnIs, u, r

\* The z of a chord, and that of the chord of the points the records stand for.
LEMMA ChordZ ==
    ASSUME NEW a, GejKept(a), NEW g \in ZScales, NEW h \in Fe, h.m <= 8
    PROVE  LET z == FeMul(a.z, h)
               t == FeMul(Unscaled(a, g).z, h)
           IN  /\ z \in Fe /\ z.m <= 2 /\ z.v \in Int /\ Eq(z.v, a.z.v * h.v)
               /\ t \in Fe /\ Eq(z.v * g.v, t.v)
<1> DEFINE u == Unscaled(a, g)
           z == FeMul(a.z, h)
           t == FeMul(u.z, h)
           x == a.z.v
           c == g.v
           y == h.v
<1>1. /\ x \in Int /\ c \in Int /\ x * c \in Int
      /\ Stands(a.z, x, 2) /\ Stands(u.z, x * c, 1)
  BY UnscaledFacts
<1>2. y \in Int /\ Stands(h, y, 8)
  BY StandsSelf
<1> HIDE DEF u, x, c, y
<1>3. x * y \in Int /\ (x * c) * y \in Int
  BY <1>1, <1>2
<1>4. Stands(z, x * y, 1) /\ Stands(t, (x * c) * y, 1)
  BY <1>1, <1>2, <1>3, StandsMul
<1> HIDE DEF z, t
<1>5. z \in Fe /\ z.m <= 1 /\ Eq(z.v, x * y) /\ t \in Fe /\ Eq(t.v, (x * c) * y)
  BY <1>4 DEF Stands
<1>6. z.v \in Int /\ t.v \in Int /\ z.m \in Int
  BY <1>5, PInt, FieldAssumption DEF Fe, Values, Broken
<1>7. Eq(z.v * c, t.v)
  <2> DEFINE o == z.v
             b == x * y
  <2>1. o \in Int /\ b \in Int /\ Eq(o, b)
    BY <1>3, <1>5, <1>6
  <2>2. b * c = (x * c) * y
    BY <1>1, <1>2
  <2> HIDE DEF o, b
  <2>3. Eq(o * c, b * c) /\ o * c \in Int /\ b * c \in Int
    <3>1. c * b = b * c /\ c * o = o * c
      BY <1>1, <2>1
    <3> QED
      BY <1>1, <2>1, <3>1, EqScale
  <2>4. Eq((x * c) * y, t.v)
    BY <1>3, <1>5, <1>6, EqSym
  <2>5. Eq(o * c, t.v)
    BY <1>3, <1>6, <2>2, <2>3, <2>4, EqTrans
  <2> QED
    BY <2>5 DEF o
<1>8. z.m <= 2
  BY <1>5, <1>6
<1> QED
  BY <1>5, <1>6, <1>7, <1>8 DEF z, t, u, x, c, y

\* What is added up to the differences of the x and of the y.
LEMMA DifferenceKept ==
    ASSUME NEW x \in Fe, x.m <= 6, NEW b \in Fe, b.m <= 8, NEW c \in Fe, c.m <= 8
    PROVE  LET h == FeAdd(FeNegate(FeNormalizeWeak(x), 1), FeMul(b, c))
           IN  h \in Fe /\ h.m <= 3 /\ Stands(h, -x.v + b.v * c.v, 3)
<1> DEFINE i == x.v
           j == b.v
           k == c.v
<1>1. i \in Int /\ Stands(x, i, 6) /\ j \in Int /\ Stands(b, j, 8) /\ k \in Int /\ Stands(c, k, 8)
  BY StandsSelf
<1> HIDE DEF i, j, k
<1>2. j * k \in Int /\ -i \in Int /\ -i + j * k \in Int
  BY <1>1
<1>3. Stands(FeNormalizeWeak(x), i, 1)
  BY <1>1, StandsNormalize
<1>4. Stands(FeNegate(FeNormalizeWeak(x), 1), -i, 2)
  BY <1>1, <1>2, <1>3, StandsNegate
<1>5. Stands(FeMul(b, c), j * k, 1)
  BY <1>1, <1>2, StandsMul
<1>6. Stands(FeAdd(FeNegate(FeNormalizeWeak(x), 1), FeMul(b, c)), -i + j * k, 3)
  BY <1>2, <1>4, <1>5, StandsAdd
<1> QED
  BY <1>6 DEF Stands, i, j, k

\* gej_add_ge_var on the other curve.
LEMMA OnAddGe ==
    ASSUME NEW a, NEW b, NEW g \in ZScales, NEW p \in GroupPoints, NEW q \in CurvePoints,
           OnIs(a, g, p), IsoGe(b, g, q), Plus(p, q) \in GroupPoints
    PROVE  OnIs(GejAddGeVar(a, b).r, g, Plus(p, q))
<1> DEFINE u == Unscaled(a, g)
<1>1. GejKept(a) /\ GejIs(u, p) /\ (a.inf <=> p = Infinity) /\ a.inf \in BOOLEAN
  BY OnInfinity DEF OnIs
<1>2. CASE a.inf
  <2>1. GejAddGeVar(a, b).r = GejSetGe(b) /\ Plus(p, q) = q
    BY <1>1, <1>2, PlusInfinity DEF GejAddGeVar
  <2> QED
    BY <2>1, OnSetGe
<1>3. CASE ~a.inf
  <2>1. /\ u \in Gej /\ GejKept(u) /\ u.z = FeMul(a.z, g)
        /\ u.x = a.x /\ u.y = a.y /\ u.inf = a.inf
        /\ a.z.v \in Int /\ g.v \in Int /\ a.z.v * g.v \in Int
        /\ Stands(a.z, a.z.v, 2) /\ Stands(u.z, a.z.v * g.v, 1)
        /\ a.x \in Fe /\ a.y \in Fe /\ a.z \in Fe
    BY <1>1, UnscaledFacts
  <2>2. g.v \in Int /\ Stands(g, g.v, 2) /\ ~Eq(g.v, 0)
    BY ScaleFacts
  <2> DEFINE c == g.v
             x == a.z.v
             inv == FeInv(g)
  <2>3. PICK k \in Int : Eq(c * k, 1) /\ Stands(inv, k, 1)
    <3>1. c \in Int /\ Stands(g, c, 2) /\ ~Eq(c, 0)
      BY <2>2
    <3> HIDE DEF c
    <3> QED
      BY <3>1, StandsInv
  <2>4. GejIs(GejAddZinvVar(u, b, inv), Plus(p, q))
    <3>1. Stands(b.x, q[1] * c * c, 6) /\ Stands(b.y, q[2] * c * c * c, 4) /\ b.inf = FALSE /\ c \in Int
      BY <2>2 DEF IsoGe
    <3> HIDE DEF c, u, inv
    <3> QED
      BY <1>1, <2>3, <3>1, GejAddZinvVarIs
  <2> DEFINE az == FeMul(u.z, inv)
  <2>5. az \in Fe /\ az.m <= 1 /\ az.v = x
    <3>1. x \in Int /\ c \in Int /\ x * c \in Int /\ Stands(u.z, x * c, 1)
      BY <2>1
    <3>2. x \in Values
      BY <2>1 DEF Fe
    <3> HIDE DEF x, c, u, inv
    <3>3. (x * c) * k \in Int
      BY <3>1
    <3>4. Stands(az, (x * c) * k, 1)
      BY <2>3, <3>1, <3>3, StandsMul
    <3> HIDE DEF az
    <3>5. az \in Fe /\ az.m <= 1 /\ Eq(az.v, (x * c) * k) /\ az.v \in Values
      BY <3>4 DEF Stands, Fe
    <3>6. Eq((x * c) * k, x)
      <4> DEFINE e == c * k
      <4>1. e \in Int /\ Eq(e, 1) /\ (x * c) * k = x * e /\ x * 1 = x
        BY <2>3, <3>1
      <4> HIDE DEF e
      <4> DEFINE o == 1
      <4>2. x \in Int /\ e \in Int /\ o \in Int /\ Eq(e, o)
        BY <3>1, <4>1
      <4> HIDE DEF o
      <4>3. Eq(x * e, x * o)
        BY <4>2, EqScale
      <4> QED
        BY <4>1, <4>3 DEF o
    <3>7. az.v \in Int
      BY <3>5, PInt DEF Values
    <3>8. Eq(az.v, x)
      BY <3>1, <3>3, <3>5, <3>6, <3>7, EqTrans
    <3> QED
      BY <3>2, <3>5, <3>8, EqValue
  <2>6. /\ FeSqr(az) = FeSqr(a.z) /\ \A d : FeMul(d, az) = FeMul(d, a.z)
    <3>1. az.m <= 8 /\ a.z.m <= 8
      <4>1. az.m \in Int /\ a.z.m \in Int
        BY <2>1, <2>5, FieldAssumption DEF Fe, Broken
      <4>2. a.z.m <= 2
        BY <1>1 DEF GejKept
      <4> HIDE DEF az
      <4> QED
        BY <2>5, <4>1, <4>2
    <3> HIDE DEF az
    <3> QED
      BY <2>1, <2>5, <3>1, MulSame
  <2> DEFINE u1 == FeNormalizeWeak(a.x)
             s1 == FeNormalizeWeak(a.y)
             h == FeAdd(FeNegate(u1, 1), FeMul(b.x, FeSqr(a.z)))
             i == FeAdd(FeNegate(s1, 1), FeMul(FeMul(b.y, FeSqr(a.z)), a.z))
  <2>7. GejAddZinvVar(u, b, inv) = SumOrDouble(u, u1, s1, h, i, FeMul(u.z, h), h).r
    <3>1. GejAddZinvVar(u, b, inv) =
            LET z12 == FeSqr(az)
                v1 == FeNormalizeWeak(u.x)
                t1 == FeNormalizeWeak(u.y)
                d == FeAdd(FeNegate(v1, 1), FeMul(b.x, z12))
                e == FeAdd(FeNegate(t1, 1), FeMul(FeMul(b.y, z12), az))
            IN  SumOrDouble(u, v1, t1, d, e, FeMul(u.z, d), d).r
      <4>1. ~u.inf /\ ~b.inf
        BY <1>3, <2>1 DEF IsoGe
      <4> HIDE DEF u, inv
      <4> QED
        BY <4>1 DEF GejAddZinvVar
    <3> HIDE DEF u, az
    <3> QED
      BY <2>1, <2>6, <3>1
  <2>8. GejAddGeVar(a, b).r = SumOrDouble(a, u1, s1, h, i, FeMul(a.z, h), h).r
    BY <1>3 DEF GejAddGeVar, IsoGe
  <2>9. h \in Fe /\ h.m <= 8
    <3>1. FeSqr(a.z) \in Fe /\ FeSqr(a.z).m <= 1
      <4>1. Stands(FeSqr(a.z), x * x, 1)
        <5>1. x \in Int /\ Stands(a.z, x, 2)
          BY <2>1
        <5> HIDE DEF x
        <5>2. x * x \in Int
          BY <5>1
        <5> QED
          BY <5>1, <5>2, StandsSqr
      <4> QED
        BY <4>1 DEF Stands
    <3>2. b.x \in Fe /\ b.x.m <= 6 /\ a.x \in Fe /\ a.x.m <= 6
      BY <1>1, <2>1 DEF IsoGe, Stands, GejKept
    <3> DEFINE zz == FeSqr(a.z)
    <3>3. zz \in Fe /\ zz.m <= 1
      BY <3>1
    <3> HIDE DEF zz
    <3>4. b.x.m <= 8 /\ zz.m <= 8
      <4>1. b.x.m \in Int /\ zz.m \in Int
        BY <3>2, <3>3, FieldAssumption DEF Fe, Broken
      <4> QED
        BY <3>2, <3>3, <4>1
    <3> DEFINE hh == FeAdd(FeNegate(FeNormalizeWeak(a.x), 1), FeMul(b.x, zz))
    <3>5. hh \in Fe /\ hh.m <= 3
      BY <3>2, <3>3, <3>4, DifferenceKept
    <3>6. h = hh
      BY DEF zz
    <3> HIDE DEF h, hh
    <3>7. h.m \in Int
      BY <3>5, <3>6, FieldAssumption DEF Fe, Broken
    <3> QED
      BY <3>5, <3>6, <3>7
  <2> HIDE DEF h, i, u1, s1
  <2>10. /\ FeMul(a.z, h) \in Fe /\ FeMul(a.z, h).m <= 2
         /\ Eq(FeMul(a.z, h).v * g.v, FeMul(u.z, h).v)
    BY <1>1, <2>9, ChordZ
  <2>11. GejIs(SumOrDouble(Unscaled(a, g), u1, s1, h, i, FeMul(u.z, h), h).r, Plus(p, q))
    BY <2>4, <2>7
  <2>12. OnIs(SumOrDouble(a, u1, s1, h, i, FeMul(a.z, h), h).r, g, Plus(p, q))
    <3> HIDE DEF u
    <3> QED
      BY <1>1, <2>10, <2>11, OnSum
  <2> QED
    BY <2>8, <2>12
<1> QED
  BY <1>1, <1>2, <1>3
-----------------------------------------------------------------------------
\* The point, brought to the other curve.
LEMMA IsoZinv ==
    ASSUME NEW b, NEW zi, NEW q, q[1] \in Int, q[2] \in Int, NEW Z \in Int, NEW Y \in Int, NEW g \in ZScales,
           b.inf = FALSE, Stands(b.x, q[1] * Z * Z, 6), Stands(b.y, q[2] * Z * Z * Z, 6),
           Stands(zi, Y, 8), Eq(Z * Y, g.v)
    PROVE  LET r == GeSetGejZinv(b, zi)
           IN  r \in Ge /\ r.inf = FALSE /\ IsoGe(r, g, q) /\ r.x.m <= 1 /\ r.y.m <= 1
<1> DEFINE x == q[1]
           y == q[2]
           c == g.v
           e == Z * Y
           fx == FeMul(b.x, FeSqr(zi))
           fy == FeMul(b.y, FeMul(FeSqr(zi), zi))
<1>1. c \in Int /\ x \in Int /\ y \in Int /\ e \in Int /\ Eq(e, c)
  BY ScaleFacts
<1>2. GeSetGejZinv(b, zi) = [x |-> fx, y |-> fy, inf |-> FALSE]
  BY DEF GeSetGejZinv
<1>3. Stands(b.x, x * Z * Z, 6) /\ Stands(b.y, y * Z * Z * Z, 6)
  OBVIOUS
<1> HIDE DEF x, y, c
<1>4. Y * Y \in Int /\ (Y * Y) * Y \in Int /\ x * Z * Z \in Int /\ y * Z * Z * Z \in Int
      /\ (x * Z * Z) * (Y * Y) \in Int /\ (y * Z * Z * Z) * ((Y * Y) * Y) \in Int
  BY <1>1
<1>5. Stands(FeSqr(zi), Y * Y, 1)
  BY <1>4, StandsSqr
<1>6. Stands(FeMul(FeSqr(zi), zi), (Y * Y) * Y, 1)
  BY <1>4, <1>5, StandsMul
<1>7. Stands(fx, (x * Z * Z) * (Y * Y), 1)
  BY <1>3, <1>4, <1>5, StandsMul
<1>8. Stands(fy, (y * Z * Z * Z) * ((Y * Y) * Y), 1)
  BY <1>3, <1>4, <1>6, StandsMul
<1>9. Eq((x * Z * Z) * (Y * Y), x * c * c)
  <2> DEFINE l == (x * Z * Z) * (Y * Y)
             r == x * c * c
             k == x * (e + c)
  <2>1. l - r = k * (e - c) /\ l \in Int /\ r \in Int /\ k \in Int
    BY <1>1
  <2> HIDE DEF l, r, k, e
  <2>2. Eq(l, r)
    BY <1>1, <2>1, EqFrom
  <2> QED
    BY <2>2 DEF l, r
<1>10. Eq((y * Z * Z * Z) * ((Y * Y) * Y), y * c * c * c)
  <2> DEFINE l == (y * Z * Z * Z) * ((Y * Y) * Y)
             r == y * c * c * c
             k == y * (e * e + e * c + c * c)
  <2>1. l \in Int /\ r \in Int /\ k \in Int
    BY <1>1
  <2>2. l = y * e * e * e
    BY <1>1
  <2>3. l - r = k * (e - c)
    <3> HIDE DEF e
    <3>1. y * e * e * e - y * c * c * c = (y * (e * e + e * c + c * c)) * (e - c)
      BY <1>1
    <3> HIDE DEF l
    <3> QED
      BY <2>2, <3>1
  <2> HIDE DEF l, r, k, e
  <2>4. Eq(l, r)
    BY <1>1, <2>1, <2>3, EqFrom
  <2> QED
    BY <2>4 DEF l, r
<1>11. x * c * c \in Int /\ y * c * c * c \in Int
  BY <1>1
<1> HIDE DEF fx, fy
<1>12. Stands(fx, x * c * c, 6)
  BY <1>4, <1>7, <1>9, <1>11, StandsEq
<1>13. Stands(fy, y * c * c * c, 4)
  BY <1>4, <1>8, <1>10, <1>11, StandsEq
<1> DEFINE r == [x |-> fx, y |-> fy, inf |-> FALSE]
<1>14. r \in Ge /\ r.x = fx /\ r.y = fy /\ r.inf = FALSE /\ fx.m <= 1 /\ fy.m <= 1
  BY <1>7, <1>8 DEF Ge, Stands
<1> HIDE DEF r
<1>15. IsoGe(r, g, q)
  BY <1>12, <1>13, <1>14 DEF IsoGe, x, y, c
<1> QED
  BY <1>2, <1>14, <1>15 DEF r

\* gej_add_zinv_var on the other curve: g is the inverse of the scale there that the
\* affine point is at.
LEMMA OnAddZinv ==
    ASSUME NEW a, NEW b, NEW g \in ZScales, NEW p \in GroupPoints, NEW q \in CurvePoints,
           OnIs(a, g, p), GeIs(b, q), Plus(p, q) \in GroupPoints
    PROVE  OnIs(GejAddZinvVar(a, b, g), g, Plus(p, q))
<1> DEFINE u == Unscaled(a, g)
<1>1. GejKept(a) /\ GejIs(u, p) /\ (a.inf <=> p = Infinity) /\ a.inf \in BOOLEAN
  BY OnInfinity DEF OnIs
<1>2. q[1] \in Int /\ q[2] \in Int /\ q # Infinity /\ q \in GroupPoints
  BY CurvePointFacts
<1>3. b.inf = FALSE /\ b \in Ge /\ Stands(b.x, q[1], 2) /\ Stands(b.y, q[2], 2)
  BY <1>2 DEF GeIs, Ge
<1>4. CASE a.inf
  <2> DEFINE d == [x |-> b.x, y |-> b.y, inf |-> FALSE]
             Z == 1
             c == g.v
  <2>1. GejAddZinvVar(a, b, g) = GejSetGe(GeSetGejZinv(d, g)) /\ Plus(p, q) = q
    BY <1>1, <1>3, <1>4, PlusInfinity DEF GejAddZinvVar
  <2>2. d.inf = FALSE /\ d.x = b.x /\ d.y = b.y
    OBVIOUS
  <2> HIDE DEF d
  <2>3. q[1] * Z * Z = q[1] /\ q[2] * Z * Z * Z = q[2] /\ q[1] * Z * Z \in Int /\ q[2] * Z * Z * Z \in Int
    BY <1>2
  <2>4. Eq(q[1], q[1]) /\ Eq(q[2], q[2])
    BY <1>2, EqRefl
  <2>5. Stands(d.x, q[1] * Z * Z, 6) /\ Stands(d.y, q[2] * Z * Z * Z, 6)
    <3>1. Stands(b.x, q[1], 6) /\ Stands(b.y, q[2], 6)
      BY <1>2, <1>3, <2>4, StandsEq
    <3> QED
      BY <2>2, <2>3, <3>1
  <2>6. Stands(g, c, 8) /\ c \in Int /\ Z \in Int /\ Eq(Z * c, c)
    <3>1. Stands(g, c, 2) /\ c \in Int
      BY ScaleFacts
    <3> HIDE DEF c
    <3>2. Eq(c, c) /\ Z * c = c
      BY <3>1, EqRefl
    <3>3. Stands(g, c, 8)
      BY <3>1, <3>2, StandsEq
    <3> QED
      BY <3>1, <3>2, <3>3
  <2>7. IsoGe(GeSetGejZinv(d, g), g, q)
    <3>1. Eq(Z * c, g.v)
      BY <2>6
    <3> HIDE DEF Z, c
    <3> QED
      BY <1>2, <2>2, <2>5, <2>6, <3>1, IsoZinv
  <2> QED
    BY <2>1, <2>7, OnSetGe
<1>5. CASE ~a.inf
  <2>1. /\ u \in Gej /\ GejKept(u) /\ u.z = FeMul(a.z, g)
        /\ u.x = a.x /\ u.y = a.y /\ u.inf = a.inf
        /\ a.z.v * g.v \in Int /\ Stands(u.z, a.z.v * g.v, 1)
        /\ a.x \in Fe /\ a.y \in Fe /\ a.z \in Fe
    BY <1>1, UnscaledFacts
  <2>2. GejIs(GejAddGeVar(u, b).r, Plus(p, q))
    BY <1>1, <1>2, GejAddGeVarIs DEF GeIs
  <2> DEFINE az == FeMul(a.z, g)
             u1 == FeNormalizeWeak(a.x)
             s1 == FeNormalizeWeak(a.y)
             h == FeAdd(FeNegate(u1, 1), FeMul(b.x, FeSqr(az)))
             i == FeAdd(FeNegate(s1, 1), FeMul(FeMul(b.y, FeSqr(az)), az))
  <2>3. GejAddZinvVar(a, b, g) = SumOrDouble(a, u1, s1, h, i, FeMul(a.z, h), h).r
    BY <1>3, <1>5 DEF GejAddZinvVar
  <2>4. GejAddGeVar(u, b).r = SumOrDouble(u, u1, s1, h, i, FeMul(u.z, h), h).r
    <3>1. ~u.inf /\ ~b.inf /\ u.x = a.x /\ u.y = a.y /\ u.z = az
      BY <1>3, <1>5, <2>1
    <3> HIDE DEF u
    <3> QED
      BY <3>1 DEF GejAddGeVar
  <2>5. h \in Fe /\ h.m <= 8
    <3> DEFINE zz == FeSqr(az)
               n == a.z.v * g.v
    <3>1. n \in Int /\ Stands(az, n, 1)
      BY <2>1
    <3>2. zz \in Fe /\ zz.m <= 1
      <4> HIDE DEF az, n
      <4>1. n * n \in Int
        BY <3>1
      <4>2. Stands(zz, n * n, 1)
        BY <3>1, <4>1, StandsSqr
      <4> QED
        BY <4>2 DEF Stands
    <3>3. b.x \in Fe /\ b.x.m <= 2 /\ a.x \in Fe /\ a.x.m <= 6
      BY <1>1, <1>3, <2>1 DEF Stands, GejKept
    <3> HIDE DEF zz
    <3>4. b.x.m <= 8 /\ zz.m <= 8
      <4>1. b.x.m \in Int /\ zz.m \in Int
        BY <3>2, <3>3, FieldAssumption DEF Fe, Broken
      <4> QED
        BY <3>2, <3>3, <4>1
    <3> DEFINE hh == FeAdd(FeNegate(FeNormalizeWeak(a.x), 1), FeMul(b.x, zz))
    <3>5. hh \in Fe /\ hh.m <= 3
      BY <3>2, <3>3, <3>4, DifferenceKept
    <3>6. h = hh
      BY DEF zz
    <3> HIDE DEF h, hh
    <3>7. h.m \in Int
      BY <3>5, <3>6, FieldAssumption DEF Fe, Broken
    <3> QED
      BY <3>5, <3>6, <3>7
  <2> HIDE DEF h, i, u1, s1
  <2>6. /\ FeMul(a.z, h) \in Fe /\ FeMul(a.z, h).m <= 2
        /\ Eq(FeMul(a.z, h).v * g.v, FeMul(u.z, h).v)
    BY <1>1, <2>5, ChordZ
  <2>7. GejIs(SumOrDouble(Unscaled(a, g), u1, s1, h, i, FeMul(u.z, h), h).r, Plus(p, q))
    BY <2>2, <2>4
  <2>8. OnIs(SumOrDouble(a, u1, s1, h, i, FeMul(a.z, h), h).r, g, Plus(p, q))
    <3> HIDE DEF u
    <3> QED
      BY <1>1, <2>6, <2>7, OnSum
  <2> QED
    BY <2>3, <2>8
<1> QED
  BY <1>1, <1>4, <1>5
-----------------------------------------------------------------------------
\* The first lines of gej_add_ge, from the two x and the two y.
AlongOf(u1, u2, s1, s2) ==
    LET t == FeAdd(u1, u2)
        m == FeAdd(s1, s2)
        nu2 == FeNegate(u2, 1)
        rr == FeAdd(FeSqr(t), FeMul(u1, nu2))
        degenerate == FeNormalizesToZero(m) /\ FeNormalizesToZero(rr)
    IN  [t |-> t, m |-> m, degenerate |-> degenerate,
         rrAlt |-> FeCmov(FeMulInt(s1, 2), rr, ~degenerate),
         mAlt |-> FeCmov(FeAdd(nu2, u1), m, ~degenerate)]
SumAlong(a, b, l) == AddAlong(a, b, l.t, l.m, l.degenerate, l.rrAlt, l.mAlt)
LineOf(a, b) ==
    AlongOf(FeNormalizeWeak(a.x), FeMul(b.x, FeSqr(a.z)),
            FeNormalizeWeak(a.y), FeMul(FeMul(b.y, FeSqr(a.z)), a.z))

\* gej_add_ge is its line, and the sum along it.
LEMMA AddGeSplit == \A a, b : GejAddGe(a, b) = SumAlong(a, b, LineOf(a, b))
  BY DEF GejAddGe, SumAlong, LineOf, AlongOf

\* What the line is for numbers: small enough for the sum, whatever they are.
LEMMA AlongOfIs ==
    ASSUME NEW u1, NEW u2, NEW s1, NEW s2, NEW n1 \in Int, NEW n2 \in Int, NEW k1 \in Int, NEW k2 \in Int,
           Stands(u1, n1, 1), Stands(u2, n2, 1), Stands(s1, k1, 1), Stands(s2, k2, 1)
    PROVE  LET l == AlongOf(u1, u2, s1, s2)
           IN  /\ l.degenerate \in BOOLEAN
               /\ Stands(l.t, n1 + n2, 2) /\ Stands(l.m, k1 + k2, 2)
               /\ \E i \in Int : Stands(l.rrAlt, i, 2)
               /\ \E i \in Int : Stands(l.mAlt, i, 3)
<1> DEFINE t == FeAdd(u1, u2)
           m == FeAdd(s1, s2)
           nu2 == FeNegate(u2, 1)
           rr == FeAdd(FeSqr(t), FeMul(u1, nu2))
           degenerate == FeNormalizesToZero(m) /\ FeNormalizesToZero(rr)
           c == ~degenerate
           e == FeMulInt(s1, 2)
           d == FeAdd(nu2, u1)
           tv == n1 + n2
           mv == k1 + k2
           rv == tv * tv - n1 * n2
           ev == 2 * k1
           dv == n1 - n2
           l == [t |-> t, m |-> m, degenerate |-> degenerate,
                 rrAlt |-> FeCmov(e, rr, c), mAlt |-> FeCmov(d, m, c)]
<1>1. AlongOf(u1, u2, s1, s2) = l
  BY DEF AlongOf
<1>2. tv \in Int /\ mv \in Int /\ rv \in Int /\ ev \in Int /\ dv \in Int
  OBVIOUS
<1>3. Stands(t, tv, 2) /\ Stands(m, mv, 2)
  BY StandsAdd
<1>4. Stands(nu2, -n2, 2)
  BY StandsNegate
<1> HIDE DEF t, m, nu2
<1>5. Stands(rr, rv, 2)
  <2>1. Stands(FeSqr(t), tv * tv, 1)
    <3> HIDE DEF tv
    <3> QED
      BY <1>2, <1>3, StandsSqr
  <2>2. Stands(FeMul(u1, nu2), -(n1 * n2), 1)
    BY <1>4, StandsMul
  <2> QED
    BY <2>1, <2>2, StandsAdd
<1>6. Stands(e, ev, 2)
  BY StandsMulInt
<1>7. Stands(d, dv, 3)
  BY <1>4, StandsAdd
<1>8. degenerate \in BOOLEAN /\ c \in BOOLEAN
  OBVIOUS
<1> HIDE DEF rr, e, d, c, degenerate, tv, mv, rv, ev, dv
<1>9. Stands(FeCmov(e, rr, c), IF c THEN rv ELSE ev, 2)
  BY <1>2, <1>5, <1>6, <1>8, StandsCmov
<1>10. Stands(FeCmov(d, m, c), IF c THEN mv ELSE dv, 3)
  BY <1>2, <1>3, <1>7, <1>8, StandsCmov
<1>11. (IF c THEN rv ELSE ev) \in Int /\ (IF c THEN mv ELSE dv) \in Int
  BY <1>2
<1>12. /\ l.degenerate \in BOOLEAN /\ Stands(l.t, tv, 2) /\ Stands(l.m, mv, 2)
       /\ Stands(l.rrAlt, IF c THEN rv ELSE ev, 2) /\ Stands(l.mAlt, IF c THEN mv ELSE dv, 3)
  BY <1>3, <1>8, <1>9, <1>10
<1> HIDE DEF l
<1>13. (\E i \in Int : Stands(l.rrAlt, i, 2)) /\ (\E i \in Int : Stands(l.mAlt, i, 3))
  BY <1>11, <1>12
<1> QED
  BY <1>1, <1>12, <1>13 DEF tv, mv

\* The x and the y of the sum of a finite point are those of the line.
AlongAt(l) ==
    LET n2 == FeSqr(l.mAlt)
        nq == FeNegate(FeMul(n2, l.t), 1)
        x == FeNormalizeWeak(FeAdd(FeSqr(l.rrAlt), nq))
        w == FeAdd(FeMul(FeAdd(FeMulInt(x, 2), nq), l.rrAlt), FeCmov(FeSqr(n2), l.m, l.degenerate))
        y == FeNormalizeWeak(FeNegate(w, 3))
    IN  <<FeMulInt(x, 4), FeMulInt(y, 4)>>

\* The sum along a line: of the second point it reads nothing, unless a is at infinity.
LEMMA AlongValues ==
    ASSUME NEW a, NEW b, NEW l, a.inf \in BOOLEAN
    PROVE  LET r == SumAlong(a, b, l)
               z == FeMul(a.z, l.mAlt)
           IN  /\ ~a.inf => /\ r.x.v = AlongAt(l)[1].v /\ r.y.v = AlongAt(l)[2].v
                            /\ r.z.v = (z.v * 2) % P
                            /\ r.inf <=> FeNormalizesToZero(z)
               /\ a.inf => /\ r.x.v = b.x.v /\ r.y.v = b.y.v /\ r.z.v = One.v /\ ~r.inf
<1> DEFINE z == FeMul(a.z, l.mAlt)
           x4 == AlongAt(l)[1]
           y4 == AlongAt(l)[2]
           zero == FeNormalizesToZero(z) /\ ~a.inf
<1>1. SumAlong(a, b, l) =
        [x |-> FeCmov(x4, b.x, a.inf), y |-> FeCmov(y4, b.y, a.inf),
         z |-> FeCmov(FeMulInt(z, 2), One, a.inf), inf |-> zero]
  BY DEF SumAlong, AddAlong, AlongAt
<1>2. FeMulInt(z, 2).v = (z.v * 2) % P
  BY DEF FeMulInt
<1>a. zero <=> FeNormalizesToZero(z) /\ ~a.inf
  OBVIOUS
<1> HIDE DEF z, x4, y4, zero
<1>3. \A i, j, f : FeCmov(i, j, f).v = IF f THEN j.v ELSE i.v
  BY DEF FeCmov
<1> DEFINE r == SumAlong(a, b, l)
<1>4. /\ r.x = FeCmov(x4, b.x, a.inf) /\ r.y = FeCmov(y4, b.y, a.inf)
      /\ r.z = FeCmov(FeMulInt(z, 2), One, a.inf) /\ r.inf = zero
  BY <1>1
<1> HIDE DEF r
<1> QED
  BY <1>2, <1>3, <1>4, <1>a DEF r, z, x4, y4

\* What the sum with infinity has.
SameValues(r, b) == r.x.v = b.x.v /\ r.y.v = b.y.v /\ r.z.v = One.v /\ ~r.inf

\* With a at infinity the sum has the values of b.
LEMMA AlongInfinity ==
    ASSUME NEW a, NEW b, NEW l, a.inf = TRUE
    PROVE  SameValues(SumAlong(a, b, l), b)
<1> DEFINE r == SumAlong(a, b, l)
           z == FeMul(a.z, l.mAlt)
           zero == FeNormalizesToZero(z) /\ ~a.inf
           x4 == AlongAt(l)[1]
           y4 == AlongAt(l)[2]
<1>1. r = [x |-> FeCmov(x4, b.x, a.inf), y |-> FeCmov(y4, b.y, a.inf),
           z |-> FeCmov(FeMulInt(z, 2), One, a.inf), inf |-> zero]
  BY DEF SumAlong, AddAlong, AlongAt
<1>2. ~zero
  OBVIOUS
<1> HIDE DEF z, x4, y4, zero, r
<1>3. \A i, j, f : FeCmov(i, j, f).v = IF f THEN j.v ELSE i.v
  BY DEF FeCmov
<1>4. /\ r.x = FeCmov(x4, b.x, a.inf) /\ r.y = FeCmov(y4, b.y, a.inf)
      /\ r.z = FeCmov(FeMulInt(z, 2), One, a.inf) /\ r.inf = zero
  BY <1>1
<1>e. a.inf = TRUE
  OBVIOUS
<1>f. \A i, j : FeCmov(i, j, TRUE).v = j.v
  BY <1>3
<1>5. r.x.v = b.x.v /\ r.y.v = b.y.v /\ r.z.v = One.v
  <2>1. /\ r.x = FeCmov(x4, b.x, TRUE) /\ r.y = FeCmov(y4, b.y, TRUE)
        /\ r.z = FeCmov(FeMulInt(z, 2), One, TRUE)
    BY <1>4, <1>e
  <2> QED
    BY <1>f, <2>1
<1>6. ~r.inf
  BY <1>2, <1>4
<1> QED
  BY <1>5, <1>6 DEF r, SameValues

\* Where the two x are on one z, and the two y, the lines are those of the points that
\* the records stand for.
LEMMA LineSame ==
    ASSUME NEW a, GejKept(a), NEW g \in ZScales, NEW b, NEW q, q[1] \in Int, q[2] \in Int,
           IsoGe(b, g, q), NEW d, Stands(d.x, q[1], 2), Stands(d.y, q[2], 2)
    PROVE  /\ LineOf(a, b) = LineOf(Unscaled(a, g), d)
           /\ \E tv, mv, rv, M \in Int :
                LET l == LineOf(a, b)
                IN  /\ l.degenerate \in BOOLEAN /\ Stands(l.t, tv, 2) /\ Stands(l.m, mv, 2)
                    /\ Stands(l.rrAlt, rv, 2) /\ Stands(l.mAlt, M, 3)
<1> DEFINE u == Unscaled(a, g)
           z == a.z.v
           c == g.v
           x == q[1]
           y == q[2]
<1>1. /\ u.z = FeMul(a.z, g) /\ u.x = a.x /\ u.y = a.y
      /\ z \in Int /\ c \in Int /\ z * c \in Int
      /\ Stands(a.z, z, 2) /\ Stands(u.z, z * c, 1)
      /\ a.x \in Fe /\ a.y \in Fe /\ a.z \in Fe
  BY UnscaledFacts
<1>2. Stands(b.x, x * c * c, 6) /\ Stands(b.y, y * c * c * c, 4)
  BY DEF IsoGe
<1>3. x \in Int /\ y \in Int /\ Stands(d.x, x, 2) /\ Stands(d.y, y, 2)
  OBVIOUS
<1>n. a.x.m <= 6 /\ a.y.m <= 4
  BY DEF GejKept
<1> HIDE DEF u, z, c, x, y
<1> DEFINE f2 == FeMul(b.x, FeSqr(a.z))
           e2 == FeMul(FeMul(b.y, FeSqr(a.z)), a.z)
           f3 == FeMul(d.x, FeSqr(u.z))
           e3 == FeMul(FeMul(d.y, FeSqr(u.z)), u.z)
           xv == x * (z * c) * (z * c)
           yv == y * (z * c) * (z * c) * (z * c)
<1>4. xv \in Int /\ yv \in Int
  BY <1>1, <1>3
<1>5. Stands(f2, xv, 1) /\ Stands(e2, yv, 1)
  <2>1. z * z \in Int /\ x * c * c \in Int /\ y * c * c * c \in Int /\ (y * c * c * c) * (z * z) \in Int
    BY <1>1, <1>3
  <2>2. xv = (x * c * c) * (z * z) /\ yv = ((y * c * c * c) * (z * z)) * z
    BY <1>1, <1>3
  <2>3. Stands(FeSqr(a.z), z * z, 1)
    BY <1>1, <2>1, StandsSqr
  <2> HIDE DEF xv, yv
  <2>4. Stands(f2, xv, 1)
    BY <1>2, <1>4, <2>1, <2>2, <2>3, StandsMul
  <2>5. Stands(FeMul(b.y, FeSqr(a.z)), (y * c * c * c) * (z * z), 1)
    BY <1>2, <2>1, <2>3, StandsMul
  <2>6. Stands(e2, yv, 1)
    BY <1>1, <1>4, <2>1, <2>2, <2>5, StandsMul
  <2> QED
    BY <2>4, <2>6
<1>6. Stands(f3, xv, 1) /\ Stands(e3, yv, 1)
  <2> DEFINE w == z * c
  <2>0. w \in Int /\ Stands(u.z, w, 1)
    BY <1>1
  <2>2. xv = x * w * w /\ yv = y * w * w * w
    OBVIOUS
  <2> HIDE DEF w, xv, yv
  <2>1. w * w \in Int /\ x * w * w = x * (w * w) /\ y * (w * w) \in Int /\ y * w * w * w = (y * (w * w)) * w
    BY <1>3, <2>0
  <2>3. Stands(FeSqr(u.z), w * w, 1)
    BY <2>0, <2>1, StandsSqr
  <2>4. Stands(f3, xv, 1)
    BY <1>3, <1>4, <2>1, <2>2, <2>3, StandsMul
  <2>5. Stands(FeMul(d.y, FeSqr(u.z)), y * (w * w), 1)
    BY <1>3, <2>1, <2>3, StandsMul
  <2>6. Stands(e3, yv, 1)
    BY <1>4, <2>0, <2>1, <2>2, <2>5, StandsMul
  <2> QED
    BY <2>4, <2>6
<1>7. f2 = f3 /\ e2 = e3
  <2>1. f2.v \in Values /\ f3.v \in Values /\ e2.v \in Values /\ e3.v \in Values
        /\ Eq(f2.v, xv) /\ Eq(f3.v, xv) /\ Eq(e2.v, yv) /\ Eq(e3.v, yv)
        /\ f2.m <= 1 /\ f3.m <= 1 /\ e2.m <= 1 /\ e3.m <= 1
    BY <1>5, <1>6 DEF Stands, Fe
  <2>2. f2.v \in Int /\ f3.v \in Int /\ e2.v \in Int /\ e3.v \in Int
    BY <2>1, PInt DEF Values
  <2>3. \A i, j : FeMul(i, j) = [v |-> FeMul(i, j).v, m |-> FeMul(i, j).m, n |-> FALSE]
                  /\ FeMul(i, j).m \in {1, Broken}
    <3>1. Cap(1) = 1
      BY MagnitudeAssumption, FieldAssumption DEF Cap
    <3> QED
      BY <3>1 DEF FeMul, If
  <2>4. Broken > 1
    BY MagnitudeAssumption, FieldAssumption DEF Broken
  <2> DEFINE ok(i) == i = [v |-> i.v, m |-> 1, n |-> FALSE]
  <2>5. ok(f2) /\ ok(f3) /\ ok(e2) /\ ok(e3)
    <3>1. ASSUME NEW i, NEW j, FeMul(i, j).m <= 1 PROVE ok(FeMul(i, j))
      BY <2>3, <2>4, <3>1, FieldAssumption DEF Broken
    <3> HIDE DEF ok
    <3>2. f2.m <= 1 /\ f3.m <= 1 /\ e2.m <= 1 /\ e3.m <= 1
      BY <2>1
    <3> QED
      BY <3>1, <3>2
  <2> HIDE DEF f2, f3, e2, e3, xv, yv
  <2>6. Eq(f2.v, f3.v) /\ Eq(e2.v, e3.v)
    BY <1>4, <2>1, <2>2, EqSym, EqTrans
  <2>7. f2.v = f3.v /\ e2.v = e3.v
    BY <2>1, <2>6, EqValue
  <2> QED
    BY <2>5, <2>7
<1> DEFINE n1 == a.x.v
           k1 == a.y.v
           u1 == FeNormalizeWeak(a.x)
           s1 == FeNormalizeWeak(a.y)
<1>8. n1 \in Int /\ k1 \in Int /\ Stands(u1, n1, 1) /\ Stands(s1, k1, 1)
  <2>1. n1 \in Int /\ Stands(a.x, n1, 6) /\ k1 \in Int /\ Stands(a.y, k1, 4)
    BY <1>1, <1>n, StandsSelf
  <2> HIDE DEF n1, k1
  <2> QED
    BY <2>1, StandsNormalize
<1>9. LineOf(a, b) = AlongOf(u1, f2, s1, e2) /\ LineOf(u, d) = AlongOf(u1, f3, s1, e3)
  BY <1>1 DEF LineOf
<1>10. LineOf(a, b) = LineOf(u, d)
  BY <1>7, <1>9
<1> HIDE DEF f2, e2, f3, e3, u1, s1, n1, k1, xv, yv
<1> DEFINE l == AlongOf(u1, f2, s1, e2)
<1>11. /\ l.degenerate \in BOOLEAN
       /\ Stands(l.t, n1 + xv, 2) /\ Stands(l.m, k1 + yv, 2)
       /\ \E i \in Int : Stands(l.rrAlt, i, 2)
       /\ \E i \in Int : Stands(l.mAlt, i, 3)
  BY <1>4, <1>5, <1>8, AlongOfIs
<1>12. n1 + xv \in Int /\ k1 + yv \in Int
  BY <1>4, <1>8
<1> HIDE DEF l
<1>13. \E tv, mv, rv, M \in Int :
         /\ l.degenerate \in BOOLEAN /\ Stands(l.t, tv, 2) /\ Stands(l.m, mv, 2)
         /\ Stands(l.rrAlt, rv, 2) /\ Stands(l.mAlt, M, 3)
  <2>1. PICK i \in Int : Stands(l.rrAlt, i, 2)
    BY <1>11
  <2>2. PICK j \in Int : Stands(l.mAlt, j, 3)
    BY <1>11
  <2> QED
    BY <1>11, <1>12, <2>1, <2>2
<1> QED
  BY <1>9, <1>10, <1>13 DEF u, l
-----------------------------------------------------------------------------
\* gej_add_ge on the other curve.
LEMMA OnAddConst ==
    ASSUME NEW a, NEW b, NEW g \in ZScales, NEW p \in GroupPoints, NEW q \in CurvePoints,
           OnIs(a, g, p), IsoGe(b, g, q), Plus(p, q) \in GroupPoints
    PROVE  OnIs(GejAddGe(a, b), g, Plus(p, q))
<1> DEFINE u == Unscaled(a, g)
           d == GeFromStorage(StorageOf(q))
           l == LineOf(a, b)
           r == GejAddGe(a, b)
           s == GejAddGe(u, d)
<1>1. GejKept(a) /\ GejIs(u, p) /\ (a.inf <=> p = Infinity) /\ a.inf \in BOOLEAN
  BY OnInfinity DEF OnIs
<1>2. q[1] \in Int /\ q[2] \in Int /\ q # Infinity
  BY CurvePointFacts
<1>3. GeIs(d, q) /\ Stands(d.x, q[1], 2) /\ Stands(d.y, q[2], 2)
  <2>1. GeIs(d, q)
    BY GeFromStorageIs
  <2> HIDE DEF d
  <2> QED
    BY <1>2, <2>1 DEF GeIs
<1> HIDE DEF d
<1>4. LineOf(u, d) = l
  BY <1>1, <1>2, <1>3, LineSame
<1>5. PICK tv, mv, rv, M \in Int :
         /\ l.degenerate \in BOOLEAN /\ Stands(l.t, tv, 2) /\ Stands(l.m, mv, 2)
         /\ Stands(l.rrAlt, rv, 2) /\ Stands(l.mAlt, M, 3)
  BY <1>1, <1>2, <1>3, LineSame
<1>6. /\ u \in Gej /\ u.inf = a.inf /\ u.z = FeMul(a.z, g)
      /\ a.z.v \in Int /\ g.v \in Int /\ Stands(a.z, a.z.v, 2) /\ a \in Gej
  BY <1>1, UnscaledFacts
<1> HIDE DEF l, u
<1>7. r = SumAlong(a, b, l) /\ s = SumAlong(u, d, l)
  BY <1>4, AddGeSplit DEF l
<1>8. GejIs(s, Plus(p, q))
  BY <1>1, <1>3, GejAddGeIs
<1>9. GejKept(r)
  <2> DEFINE c == g.v
             bx == q[1] * c * c
             by == q[2] * c * c * c
             w == a.z.v
  <2>1. /\ bx \in Int /\ by \in Int /\ Stands(b.x, bx, 6) /\ Stands(b.y, by, 4)
        /\ w \in Int /\ Stands(a.z, w, 2)
    BY <1>2, <1>6 DEF IsoGe
  <2> HIDE DEF bx, by, w
  <2>2. GejKept(AddAlong(a, b, l.t, l.m, l.degenerate, l.rrAlt, l.mAlt))
    BY <1>5, <1>6, <2>1, AlongKept
  <2> QED
    BY <1>7, <2>2 DEF SumAlong
<1> HIDE DEF r, s
<1>10. CASE a.inf
  <2> DEFINE o == GejSetGe(b)
             f == Unscaled(o, g)
  <2>1. OnIs(o, g, q) /\ Plus(p, q) = q
    BY <1>1, <1>10, OnSetGe, PlusInfinity
  <2>2. GejKept(o) /\ GejIs(f, q)
    BY <2>1 DEF OnIs
  <2>3. f.x = o.x /\ f.y = o.y /\ f.inf = o.inf /\ f.z = FeMul(o.z, g)
    BY <2>2, UnscaledFacts
  <2>4. o.x = b.x /\ o.y = b.y /\ o.z = One /\ o.inf = FALSE
    BY DEF GejSetGe, IsoGe
  <2> HIDE DEF o, f
  <2>5. r.x.v = b.x.v /\ r.y.v = b.y.v /\ r.z.v = One.v /\ ~r.inf
    <3>1. a.inf = TRUE /\ r = SumAlong(a, b, l)
      BY <1>1, <1>7, <1>10
    <3>2. SameValues(SumAlong(a, b, l), b)
      BY <3>1, AlongInfinity
    <3> QED
      BY <3>1, <3>2 DEF SameValues
  <2>6. Eq(r.z.v * g.v, f.z.v)
    <3>1. One.v \in Int /\ One.v * g.v \in Int /\ FeMul(One, g).v = (One.v * g.v) % P
      <4>1. One.v \in Int
        BY PInt, ModValue DEF One, FeSetInt
      <4> QED
        BY <1>6, <4>1 DEF FeMul
    <3>2. Eq((One.v * g.v) % P, One.v * g.v) /\ (One.v * g.v) % P \in Int
      BY <3>1, ModValue
    <3> QED
      BY <2>3, <2>4, <2>5, <3>1, <3>2, EqSym
  <2>7. r.inf = f.inf
    BY <1>9, <2>3, <2>4, <2>5 DEF GejKept, Gej
  <2>8. r.x.v = f.x.v /\ r.y.v = f.y.v /\ q \in GroupPoints
    BY <2>3, <2>4, <2>5, CurvePointFacts
  <2>9. OnIs(r, g, q)
    BY <1>9, <2>2, <2>6, <2>7, <2>8, OnSame
  <2> QED
    BY <2>1, <2>9 DEF r
<1>11. CASE ~a.inf
  <2> DEFINE z == FeMul(a.z, l.mAlt)
             t == FeMul(u.z, l.mAlt)
  <2>1. ~u.inf /\ u.inf \in BOOLEAN
    BY <1>1, <1>6, <1>11
  <2>2. /\ r.x.v = AlongAt(l)[1].v /\ r.y.v = AlongAt(l)[2].v
        /\ r.z.v = (z.v * 2) % P /\ (r.inf <=> FeNormalizesToZero(z))
    BY <1>1, <1>7, <1>11, AlongValues
  <2>3. /\ s.x.v = AlongAt(l)[1].v /\ s.y.v = AlongAt(l)[2].v
        /\ s.z.v = (t.v * 2) % P /\ (s.inf <=> FeNormalizesToZero(t))
    BY <1>7, <2>1, AlongValues
  <2>4. l.mAlt \in Fe /\ l.mAlt.m <= 8
    <3>1. l.mAlt \in Fe /\ l.mAlt.m <= 3
      BY <1>5 DEF Stands
    <3> DEFINE n == l.mAlt.m
    <3>2. n \in Int /\ n <= 3
      BY <3>1, FieldAssumption DEF Fe, Broken
    <3> HIDE DEF n
    <3>3. n <= 8
      BY <3>2
    <3> QED
      BY <3>1, <3>3 DEF n
  <2>5. z \in Fe /\ z.m <= 2 /\ z.v \in Int /\ t \in Fe /\ Eq(z.v * g.v, t.v)
    BY <1>1, <2>4, ChordZ DEF u
  <2> DEFINE i == z.v
             j == t.v
             c == g.v
  <2>6. /\ i \in Int /\ j \in Int /\ c \in Int /\ Eq(i * c, j) /\ i * c \in Int
        /\ i \in Values /\ j \in Values /\ ~Eq(c, 0)
    BY <1>6, <2>5, PInt, ScaleFacts DEF Fe, Values
  <2>7. FeNormalizesToZero(z) <=> FeNormalizesToZero(t)
    <3>1. Stands(z, i, 2)
      BY <2>5, StandsSelf
    <3>2. Stands(t, j, 2)
      <4>1. Stands(u.z, u.z.v, 2) /\ u.z.v \in Int
        <5>1. u.z \in Fe /\ u.z.m <= 2
          BY <1>1 DEF GejIs, GejKept, Gej
        <5> QED
          BY <5>1, StandsSelf
      <4>2. Stands(l.mAlt, M, 3)
        BY <1>5
      <4> DEFINE uz == u.z.v
      <4>3. uz \in Int /\ Stands(u.z, uz, 2) /\ uz * M \in Int
        BY <1>5, <4>1
      <4> HIDE DEF uz
      <4>4. Stands(t, uz * M, 1)
        BY <1>5, <4>2, <4>3, StandsMul
      <4> HIDE DEF t
      <4>5. t \in Fe /\ t.m <= 1
        BY <4>4 DEF Stands
      <4>6. t.m \in Int
        BY <4>5, FieldAssumption DEF Fe, Broken
      <4>7. t.m <= 2
        BY <4>5, <4>6
      <4> QED
        BY <4>5, <4>7, StandsSelf DEF t
    <3> HIDE DEF z, t, i, j, c
    <3>3. (FeNormalizesToZero(z) <=> Eq(i, 0)) /\ (FeNormalizesToZero(t) <=> Eq(j, 0))
      BY <2>6, <3>1, <3>2, StandsZero
    <3>4. Eq(i, 0) => Eq(j, 0)
      <4> SUFFICES ASSUME Eq(i, 0) PROVE Eq(j, 0)
        OBVIOUS
      <4>1. Eq(c * i, 0)
        BY <2>6, EqTimesZero
      <4>3. c * i = i * c
        BY <2>6
      <4>2. Eq(j, i * c)
        BY <2>6, EqSym
      <4> QED
        <5>1. Eq(i * c, 0) /\ Eq(j, i * c) /\ i * c \in Int /\ j \in Int /\ 0 \in Int
          BY <2>6, <4>1, <4>2, <4>3
        <5> QED
          BY <5>1, EqTrans
    <3>5. Eq(j, 0) => Eq(i, 0)
      <4> SUFFICES ASSUME Eq(j, 0) PROVE Eq(i, 0)
        OBVIOUS
      <4>1. Eq(i * c, 0)
        BY <2>6, EqTrans
      <4> QED
        BY <2>6, <4>1, EqProductZero
    <3> QED
      BY <3>3, <3>4, <3>5
  <2>8. Eq(r.z.v * c, s.z.v)
    <3> HIDE DEF z, t, i, j, c
    <3> DEFINE k == i * 2
               h == j * 2
               e == k % P
               f == h % P
    <3>1. r.z.v = e /\ s.z.v = f
      BY <2>2, <2>3 DEF i, j
    <3>2. k \in Int /\ h \in Int
      BY <2>6
    <3>3. Eq(e, k) /\ Eq(f, h) /\ e \in Int /\ f \in Int
      BY <3>2, ModValue
    <3>4. Eq((i * c) * 2, j * 2)
      <4> DEFINE m == i * c
                 two == 2
      <4>1. m \in Int /\ Eq(m, j) /\ two \in Int
        BY <2>6
      <4> HIDE DEF m, two
      <4>2. Eq(m * two, j * two)
        BY <2>6, <4>1, EqScale
      <4> QED
        BY <4>2 DEF m, two
    <3>5. k * c = (i * c) * 2 /\ k * c \in Int
      BY <2>6
    <3> HIDE DEF k, e, f
    <3>s. e \in Int /\ k \in Int /\ c \in Int /\ Eq(e, k)
      BY <2>6, <3>2, <3>3
    <3>6. Eq(e * c, k * c) /\ e * c \in Int
      <4>1. Eq(e * c, k * c)
        BY <3>s, EqScale
      <4> QED
        BY <3>s, <4>1
    <3>7. Eq(e * c, h)
      BY <3>2, <3>4, <3>5, <3>6, EqTrans
    <3> HIDE DEF h
    <3>8. Eq(h, f)
      BY <3>2, <3>3, EqSym
    <3>9. Eq(e * c, f)
      BY <3>2, <3>3, <3>6, <3>7, <3>8, EqTrans
    <3> QED
      BY <3>1, <3>9
  <2>9. r.inf = s.inf
    BY <1>8, <1>9, <2>2, <2>3, <2>7 DEF GejIs, GejKept, Gej
  <2>10. r.x.v = s.x.v /\ r.y.v = s.y.v /\ Eq(r.z.v * g.v, s.z.v)
    BY <2>2, <2>3, <2>8
  <2>11. OnIs(r, g, Plus(p, q))
    BY <1>8, <1>9, <2>9, <2>10, OnSame
  <2> QED
    BY <2>11 DEF r
<1> QED
  BY <1>1, <1>10, <1>11
-----------------------------------------------------------------------------
\* A finite point gives a curve, that on which it is affine.
LEMMA IsoOfGej ==
    ASSUME NEW a, NEW q \in CurvePoints, GejIs(a, q)
    PROVE  a.z \in ZScales /\ a.inf = FALSE /\ IsoGe(GeSetXy(a.x, a.y), a.z, q)
<1>1. q[1] \in Int /\ q[2] \in Int /\ q # Infinity
  BY CurvePointFacts
<1>2. PICK Z \in Int : GejStands(a, q[1], q[2], Z)
  BY <1>1 DEF GejIs
<1>3. /\ a \in Gej /\ ~a.inf /\ ~Eq(Z, 0)
      /\ Stands(a.x, q[1] * Z * Z, 6) /\ Stands(a.y, q[2] * Z * Z * Z, 4) /\ Stands(a.z, Z, 2)
  BY <1>2 DEF GejStands
<1> DEFINE c == a.z.v
           x == q[1]
           y == q[2]
<1>4. a.z \in Fe /\ a.z.m <= 2 /\ Eq(c, Z) /\ c \in Int /\ a.inf = FALSE
  BY <1>3, PInt DEF Stands, Fe, Values, Gej
<1>5. ~Eq(c, 0)
  <2> HIDE DEF c
  <2>1. Eq(Z, c)
    BY <1>4, EqSym
  <2> QED
    BY <1>3, <1>4, <2>1, EqTrans
<1>6. x \in Int /\ y \in Int
  BY <1>1
<1> HIDE DEF c, x, y
<1>7. Eq(Z, c)
  BY <1>4, EqSym
<1>8. Eq(x * Z * Z, x * c * c)
  <2> DEFINE l == x * Z * Z
             r == x * c * c
             k == x * (Z + c)
  <2>1. l - r = k * (Z - c) /\ l \in Int /\ r \in Int /\ k \in Int
    BY <1>4, <1>6
  <2> HIDE DEF l, r, k
  <2>2. Eq(l, r)
    BY <1>4, <1>7, <2>1, EqFrom
  <2> QED
    BY <2>2 DEF l, r
<1>9. Eq(y * Z * Z * Z, y * c * c * c)
  <2> DEFINE l == y * Z * Z * Z
             r == y * c * c * c
             k == y * (Z * Z + Z * c + c * c)
  <2>1. l - r = k * (Z - c) /\ l \in Int /\ r \in Int /\ k \in Int
    BY <1>4, <1>6
  <2> HIDE DEF l, r, k
  <2>2. Eq(l, r)
    BY <1>4, <1>7, <2>1, EqFrom
  <2> QED
    BY <2>2 DEF l, r
<1>10. x * c * c \in Int /\ y * c * c * c \in Int /\ x * Z * Z \in Int /\ y * Z * Z * Z \in Int
  BY <1>4, <1>6
<1>11. Stands(a.x, x * c * c, 6) /\ Stands(a.y, y * c * c * c, 4)
  <2>1. Stands(a.x, x * Z * Z, 6) /\ Stands(a.y, y * Z * Z * Z, 4)
    BY <1>3 DEF x, y
  <2> QED
    BY <1>8, <1>9, <1>10, <2>1, StandsEq
<1> DEFINE b == GeSetXy(a.x, a.y)
<1>12. b.x = a.x /\ b.y = a.y /\ b.inf = FALSE /\ b \in Ge
  BY <1>3 DEF GeSetXy, Ge, Stands
<1> HIDE DEF b
<1>13. IsoGe(b, a.z, q)
  BY <1>11, <1>12 DEF IsoGe, c, x, y
<1>14. a.z \in ZScales
  BY <1>4, <1>5 DEF ZScales, c
<1> QED
  BY <1>4, <1>13, <1>14 DEF b

\* And back, with what is left out of the z.
LEMMA OnOfIso ==
    ASSUME NEW z \in Fe, z.m <= 2, NEW g \in ZScales, FeMul(z, g) \in ZScales, NEW b, NEW q \in CurvePoints,
           IsoGe(b, FeMul(z, g), q)
    PROVE  OnIs([x |-> b.x, y |-> b.y, z |-> z, inf |-> FALSE], g, q)
<1> DEFINE r == [x |-> b.x, y |-> b.y, z |-> z, inf |-> FALSE]
           h == FeMul(z, g)
           u == Unscaled(r, g)
           Z == h.v
<1>1. q[1] \in Int /\ q[2] \in Int /\ q # Infinity
  BY CurvePointFacts
<1>2. b.x \in Fe /\ b.y \in Fe /\ b.x.m <= 6 /\ b.y.m <= 4
  BY DEF IsoGe, Stands
<1>3. r \in Gej /\ r.x = b.x /\ r.y = b.y /\ r.z = z /\ r.inf = FALSE
  BY <1>2 DEF Gej
<1> HIDE DEF r
<1>4. GejKept(r)
  BY <1>2, <1>3 DEF GejKept
<1>5. u \in Gej /\ GejKept(u) /\ u.z = h /\ u.x = b.x /\ u.y = b.y /\ u.inf = FALSE
  BY <1>3, <1>4, UnscaledFacts
<1>6. h \in ZScales /\ Z \in Int /\ ~Eq(Z, 0) /\ Stands(h, Z, 2)
  <2>1. h \in ZScales
    OBVIOUS
  <2> HIDE DEF h
  <2> QED
    BY <2>1, ScaleFacts
<1>7. Stands(b.x, q[1] * Z * Z, 6) /\ Stands(b.y, q[2] * Z * Z * Z, 4)
  BY DEF IsoGe
<1> HIDE DEF u, h, Z
<1>8. GejStands(u, q[1], q[2], Z)
  BY <1>5, <1>6, <1>7 DEF GejStands
<1>9. GejIs(u, q)
  <2>1. q \in Values \X Values
    BY CurvePointFacts
  <2> QED
    BY <1>6, <1>8, <2>1, GejIsFinite
<1> QED
  BY <1>4, <1>9 DEF OnIs, u, r

\* ZScales multiply to scales.
LEMMA ScalesMul ==
    ASSUME NEW z \in ZScales, NEW g \in ZScales
    PROVE  /\ FeMul(z, g) \in ZScales /\ Stands(FeMul(z, g), z.v * g.v, 1)
           /\ FeMul(z, g).v \in Int /\ z.v \in Int /\ g.v \in Int /\ z.v * g.v \in Int
           /\ Eq(FeMul(z, g).v, z.v * g.v) /\ FeMul(z, g).m <= 1
<1> DEFINE i == z.v
           j == g.v
           h == FeMul(z, g)
<1>1. i \in Int /\ j \in Int /\ Stands(z, i, 2) /\ Stands(g, j, 2) /\ ~Eq(i, 0) /\ ~Eq(j, 0)
  BY ScaleFacts
<1> HIDE DEF i, j
<1>2. i * j \in Int
  BY <1>1
<1>3. Stands(h, i * j, 1)
  BY <1>1, <1>2, StandsMul
<1> HIDE DEF h
<1>4. h \in Fe /\ h.m <= 1 /\ Eq(h.v, i * j) /\ h.v \in Int /\ h.m \in Int
  BY <1>3, PInt, FieldAssumption DEF Stands, Fe, Values, Broken
<1>5. ~Eq(h.v, 0)
  <2> SUFFICES ASSUME Eq(h.v, 0) PROVE FALSE
    OBVIOUS
  <2>1. Eq(i * j, h.v)
    BY <1>2, <1>4, EqSym
  <2>2. Eq(i * j, 0)
    BY <1>2, <1>4, <2>1, EqTrans
  <2> QED
    BY <1>1, <2>2, EqProductZero
<1>6. h.m <= 2
  BY <1>4
<1> QED
  BY <1>1, <1>2, <1>3, <1>4, <1>5, <1>6 DEF ZScales, h, i, j

\* A point is brought to the curve of g in that its x and y are, and keeps its z.
LEMMA OnFirst ==
    ASSUME NEW a, NEW q \in CurvePoints, GejIs(a, q), NEW g \in ZScales
    PROVE  LET b == GeSetGejZinv(a, g)
           IN  /\ OnIs([x |-> b.x, y |-> b.y, z |-> a.z, inf |-> FALSE], g, q)
               /\ a.z \in ZScales
<1>1. a.z \in ZScales /\ a.inf = FALSE
  BY IsoOfGej
<1>2. q[1] \in Int /\ q[2] \in Int /\ q # Infinity
  BY CurvePointFacts
<1>3. PICK Z \in Int : GejStands(a, q[1], q[2], Z)
  BY <1>2 DEF GejIs
<1> DEFINE h == FeMul(a.z, g)
           Y == g.v
           x == q[1]
           y == q[2]
<1>4. Stands(a.x, x * Z * Z, 6) /\ Stands(a.y, y * Z * Z * Z, 6) /\ Eq(a.z.v, Z) /\ a.z.v \in Int
  <2>1. Stands(a.x, x * Z * Z, 6) /\ Stands(a.y, y * Z * Z * Z, 4) /\ Eq(a.z.v, Z) /\ a.z.v \in Int
    BY <1>1, <1>3, ScaleFacts DEF GejStands, Stands
  <2> DEFINE n == y * Z * Z * Z
  <2>2. n \in Int /\ Stands(a.y, n, 4)
    BY <1>2, <2>1
  <2> HIDE DEF n
  <2>3. Stands(a.y, n, 6)
    BY <2>2, EqRefl, StandsEq
  <2> QED
    BY <2>1, <2>3 DEF n
<1>5. /\ h \in ZScales /\ Eq(h.v, a.z.v * Y) /\ h.v \in Int /\ Y \in Int
      /\ a.z.v * Y \in Int
  BY <1>1, ScalesMul
<1>6. Stands(g, Y, 8)
  <2>1. Stands(g, Y, 2) /\ Y \in Int
    BY ScaleFacts
  <2> HIDE DEF Y
  <2> QED
    BY <2>1, EqRefl, StandsEq
<1> HIDE DEF h, Y
<1>7. Eq(Z * Y, h.v)
  <2> DEFINE i == a.z.v
  <2>1. i \in Int /\ Eq(i, Z) /\ Eq(h.v, i * Y) /\ i * Y \in Int /\ Z * Y \in Int
    BY <1>4, <1>5
  <2> HIDE DEF i
  <2>2. Eq(i * Y, Z * Y)
    BY <1>5, <2>1, EqScale
  <2>3. Eq(h.v, Z * Y)
    BY <1>5, <2>1, <2>2, EqTrans
  <2> QED
    BY <1>5, <2>1, <2>3, EqSym
<1> DEFINE b == GeSetGejZinv(a, g)
<1>8. IsoGe(b, h, q)
  <2>1. q[1] \in Int /\ q[2] \in Int /\ Stands(a.x, q[1] * Z * Z, 6) /\ Stands(a.y, q[2] * Z * Z * Z, 6)
    BY <1>2, <1>4
  <2> HIDE DEF x, y
  <2> QED
    BY <1>1, <1>5, <1>6, <1>7, <2>1, IsoZinv
<1> HIDE DEF b
<1>9. OnIs([x |-> b.x, y |-> b.y, z |-> a.z, inf |-> FALSE], g, q)
  <2>1. a.z \in Fe /\ a.z.m <= 2
    BY <1>1 DEF ZScales
  <2> QED
    BY <1>5, <1>8, <2>1, OnOfIso DEF h
<1> QED
  BY <1>1, <1>9 DEF b
-----------------------------------------------------------------------------
\* What an addition gives for the ratio of the new z to the old one.
RatioOf(e, a) ==
    /\ e.rzr \in Fe /\ e.rzr.m <= 3 /\ e.rzr.v \in Int
    /\ (~a.inf /\ ~e.r.inf) => Eq(e.r.z.v, a.z.v * e.rzr.v)

\* A ratio that is set by gej_add_ge_var is a small element.
LEMMA SetIntRatio ==
    ASSUME NEW n \in Int
    PROVE  FeSetInt(n) \in Fe /\ FeSetInt(n).m <= 3 /\ FeSetInt(n).v \in Int
<1>1. Stands(FeSetInt(n), n, 1)
  BY StandsSetInt
<1> DEFINE f == FeSetInt(n)
<1>2. f \in Fe /\ f.m <= 1 /\ f.m \in Int /\ f.v \in Int
  BY <1>1, PInt, FieldAssumption DEF Stands, Fe, Broken, Values
<1> HIDE DEF f
<1>3. f.m <= 3
  BY <1>2
<1> QED
  BY <1>2, <1>3 DEF f

\* So gives a doubling,
LEMMA DoubleRatio ==
    ASSUME NEW a, GejKept(a), a.inf = FALSE
    PROVE  RatioOf(GejDoubleVar(a), a)
<1> DEFINE e == GejDoubleVar(a)
           z == a.z.v
           y == a.y.v
<1>1. a \in Gej /\ a.y \in Fe /\ a.z \in Fe /\ a.y.m <= 4 /\ a.z.m <= 2
  BY DEF GejKept, Gej
<1>2. /\ e.rzr = FeMulInt(FeNormalizeWeak(a.y), 2)
      /\ e.r.z = FeMulInt(FeMul(a.z, a.y), 2)
  BY DEF GejDoubleVar
<1> HIDE DEF e
<1>3. z \in Int /\ y \in Int /\ Stands(a.z, z, 2) /\ Stands(a.y, y, 4)
  BY <1>1, StandsSelf
<1> HIDE DEF z, y
<1>4. z * y \in Int /\ (z * y) * 2 \in Int /\ y * 2 \in Int
  BY <1>3
<1>5. Stands(FeNormalizeWeak(a.y), y, 1)
  BY <1>3, StandsNormalize
<1>6. Stands(e.rzr, y * 2, 2)
  BY <1>2, <1>3, <1>4, <1>5, StandsMulInt
<1>7. Stands(FeMul(a.z, a.y), z * y, 1)
  BY <1>3, <1>4, StandsMul
<1>8. Stands(e.r.z, (z * y) * 2, 2)
  BY <1>2, <1>4, <1>7, StandsMulInt
<1> DEFINE f == e.rzr
           t == e.r.z
<1>9. /\ f \in Fe /\ f.m <= 2 /\ f.m \in Int /\ f.v \in Int /\ Eq(f.v, y * 2)
      /\ t.v \in Int /\ Eq(t.v, (z * y) * 2)
  BY <1>6, <1>8, PInt, FieldAssumption DEF Stands, Fe, Broken, Values
<1> HIDE DEF f, t
<1>10. f.m <= 3
  BY <1>9
<1>11. Eq(t.v, z * f.v)
  <2> DEFINE i == f.v
             j == y * 2
  <2>1. i \in Int /\ j \in Int /\ Eq(i, j) /\ z * i \in Int /\ (z * y) * 2 = z * j
    BY <1>3, <1>9
  <2> HIDE DEF i, j
  <2>2. Eq(z * i, z * j) /\ z * j \in Int
    BY <1>3, <2>1, EqScale
  <2>3. Eq(z * j, z * i)
    BY <2>1, <2>2, EqSym
  <2>4. Eq(t.v, z * i)
    BY <1>9, <2>1, <2>2, <2>3, EqTrans
  <2> QED
    BY <2>4 DEF i
<1> QED
  BY <1>9, <1>10, <1>11 DEF RatioOf, f, t, z, e

\* and the sum with an affine point.
LEMMA AddRatio ==
    ASSUME NEW a, GejKept(a), NEW b \in Ge, b.inf = FALSE, b.x.m <= 6, b.y.m <= 6
    PROVE  RatioOf(GejAddGeVar(a, b), a)
<1>1. a \in Gej /\ a.x \in Fe /\ a.y \in Fe /\ a.z \in Fe /\ a.x.m <= 6 /\ a.y.m <= 4 /\ a.z.m <= 2
      /\ a.inf \in BOOLEAN
  BY DEF GejKept, Gej
<1>2. CASE a.inf
  <2>1. GejAddGeVar(a, b).rzr = FeSetInt(0)
    BY <1>2 DEF GejAddGeVar
  <2> QED
    BY <1>2, <2>1, SetIntRatio DEF RatioOf
<1>3. CASE ~a.inf
  <2> DEFINE zz == FeSqr(a.z)
             u1 == FeNormalizeWeak(a.x)
             s1 == FeNormalizeWeak(a.y)
             h == FeAdd(FeNegate(u1, 1), FeMul(b.x, zz))
             i == FeAdd(FeNegate(s1, 1), FeMul(FeMul(b.y, zz), a.z))
             z == FeMul(a.z, h)
             e == SumOrDouble(a, u1, s1, h, i, z, h)
  <2>1. GejAddGeVar(a, b) = e
    BY <1>3 DEF GejAddGeVar
  <2>2. h \in Fe /\ h.m <= 3
    <3>1. zz \in Fe /\ zz.m <= 8
      <4> DEFINE w == a.z.v
      <4>1. w \in Int /\ Stands(a.z, w, 2)
        BY <1>1, StandsSelf
      <4> HIDE DEF w
      <4>2. w * w \in Int
        BY <4>1
      <4>3. Stands(zz, w * w, 1)
        BY <4>1, <4>2, StandsSqr
      <4> HIDE DEF zz
      <4>4. zz \in Fe /\ zz.m <= 1 /\ zz.m \in Int
        BY <4>3, FieldAssumption DEF Stands, Fe, Broken
      <4> QED
        BY <4>4
    <3>2. b.x \in Fe /\ b.x.m <= 8
      <4>1. b.x \in Fe /\ b.x.m \in Int /\ b.x.m <= 6
        BY FieldAssumption DEF Ge, Fe, Broken
      <4> QED
        BY <4>1
    <3> HIDE DEF zz
    <3> QED
      BY <1>1, <3>1, <3>2, DifferenceKept
  <2> HIDE DEF h, i, u1, s1
  <2>3. h.v \in Int /\ h.m \in Int /\ h.m <= 8
    <3>1. h.v \in Int /\ h.m \in Int
      BY <2>2, PInt, FieldAssumption DEF Fe, Values, Broken
    <3> QED
      BY <2>2, <3>1
  <2>4. CASE FeNormalizesToZeroVar(h)
    <3>1. CASE FeNormalizesToZeroVar(i)
      <4>1. e = GejDoubleVar(a)
        BY <2>4, <3>1 DEF SumOrDouble
      <4>2. a.inf = FALSE
        BY <1>1, <1>3
      <4> QED
        BY <2>1, <4>1, <4>2, DoubleRatio
    <3>2. CASE ~FeNormalizesToZeroVar(i)
      <4>1. e.r = [a EXCEPT !.inf = TRUE] /\ e.rzr = FeSetInt(0)
        BY <2>4, <3>2 DEF SumOrDouble
      <4> HIDE DEF e
      <4>2. e.r.inf = TRUE
        BY <1>1, <4>1 DEF Gej
      <4> QED
        BY <2>1, <4>1, <4>2, SetIntRatio DEF RatioOf
    <3> QED
      BY <3>1, <3>2
  <2>5. CASE ~FeNormalizesToZeroVar(h)
    <3>1. e.r = Chord(u1, s1, h, i, z) /\ e.rzr = h
      BY <2>5 DEF SumOrDouble
    <3> HIDE DEF e, z
    <3>2. e.r.z = z
      BY <3>1 DEF Chord
    <3>3. Eq(z.v, a.z.v * h.v)
      <4> DEFINE w == a.z.v
                 k == h.v
      <4>1. w \in Int /\ Stands(a.z, w, 2) /\ k \in Int /\ Stands(h, k, 3)
        BY <1>1, <2>2, StandsSelf
      <4> HIDE DEF w, k
      <4>2. w * k \in Int
        BY <4>1
      <4>3. Stands(z, w * k, 1)
        BY <4>1, <4>2, StandsMul DEF z
      <4> QED
        BY <4>3 DEF Stands, w, k
    <3> QED
      BY <2>1, <2>2, <2>3, <3>1, <3>2, <3>3 DEF RatioOf
  <2> QED
    BY <2>4, <2>5
<1> QED
  BY <1>1, <1>2, <1>3
=============================================================================
