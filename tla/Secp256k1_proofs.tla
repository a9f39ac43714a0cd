-------------------------- MODULE Secp256k1_proofs --------------------------
(***************************************************************************)
(* Proofs about Points, Secp256k1 and Ecdsa, on any curve and for call     *)
(* sequences of any length.  First one point through the calls of          *)
(* group_impl.h, with any operands.  Then keys and signatures, with any    *)
(* secret keys, tweaks, messages, nonces and altered signatures: the       *)
(* arithmetic of scalars and the calls on keys; the invariant that keeps   *)
(* the two keys together; the equation of a signature, verifying,          *)
(* recovering and signing; the invariant of signatures.                    *)
(***************************************************************************)
EXTENDS Points, Secp256k1, Group_proofs

\* The inductive invariant: the Jacobian record that the calls of group_impl.h have worked
\* on is the multiple they should have come to, in whatever scale, and its coordinates
\* are within the magnitudes that the next call starts from.  GroupLaw alone says
\* nothing of the magnitudes to come.
PointsInv == sum \in 0..Order-1 /\ GejIs(acc, Multiple[sum])

\* gej_set_infinity and the stored 0th multiple are infinity.
LEMMA InfinityIs == GejIs(GejSetInfinity, Infinity) /\ GeIs(Stored(0), Infinity)
<1>1. FeClear \in Fe /\ FeClear.m = 0
  BY FieldAssumption, PInt DEF FeClear, Fe, Values, Broken
<1>2. GejIs(GejSetInfinity, Infinity)
  BY <1>1 DEF GejIs, GejKept, Gej, GejSetInfinity
<1>3. 0 \in 0..Order-1 /\ Multiple[0] = Infinity
  BY OrderFacts, CurveAssumption
<1>4. GeIs(Stored(0), Infinity)
  BY <1>3, StoredIs
<1> QED
  BY <1>2, <1>4

\* Each form of the k-th multiple is that point: as it is stored, as the opposite of the
\* opposite (ge_neg), or recovered from its x and the parity of its y (ge_set_xo_var).
LEMMA FormsAre ==
    ASSUME NEW k \in 1..Order-1, NEW b \in Forms(k)
    PROVE  GeIs(b, Multiple[k])
<1> DEFINE j == Order - k
           q == Multiple[k]
<1>1. k \in 0..Order-1 /\ k # 0 /\ j \in 0..Order-1 /\ j % Order = j /\ k \in Int
  BY OrderFacts
<1>2. q \in GroupPoints /\ q \in CurvePoints /\ GeIs(Stored(k), q)
  BY <1>1, Multiples, StoredIs
<1>3. CASE b = Stored(k)
  BY <1>2, <1>3
<1>4. CASE b = GeNeg(Stored(j))
  <2>1. Multiple[j] \in GroupPoints /\ GeIs(Stored(j), Multiple[j])
    BY <1>1, Multiples, StoredIs
  <2>2. Plus(Multiple[j], q) = Infinity
    BY <1>1, OppositeMultiples
  <2> QED
    BY <1>2, <1>4, <2>1, <2>2, GeNegIs
<1>5. CASE b = GeSetXoVar(Stored(k).x, Stored(k).y.v % 2 = 1).r
  <2>1. /\ Stands(Stored(k).x, q[1], 1) /\ Stored(k).y.v = q[2]
        /\ q[1] \in Int
    BY <1>1, <1>2, StoredIs, CurvePointFacts
  <2>2. Stands(Stored(k).x, q[1], 2) /\ Eq(q[1], q[1])
    BY <2>1, EqRefl, StandsEq
  <2> QED
    BY <1>2, <1>5, <2>1, <2>2, GeSetXoVarIs
<1> QED
  BY <1>3, <1>4, <1>5 DEF Forms

\* The walk starts at infinity.
LEMMA PointsInvInit == PointsInit => PointsInv
  BY InfinityIs, OrderFacts, CurveAssumption DEF PointsInit, PointsInv

\* Every call of group_impl.h that the walk takes leaves the point it should.
LEMMA PointsInvNext == PointsInv /\ [PointsNext]_pointVars => PointsInv'
<1> SUFFICES ASSUME PointsInv, [PointsNext]_pointVars PROVE PointsInv'
  OBVIOUS
<1> DEFINE p == Multiple[sum]
<1>1. sum \in 0..Order-1 /\ sum \in Int /\ GejIs(acc, p) /\ p \in GroupPoints
  BY OrderFacts, Multiples DEF PointsInv
<1>2. ASSUME NEW k \in Terms
      PROVE  /\ k \in 1..Order-1 /\ k \in 0..Order-1 /\ Multiple[k] \in GroupPoints /\ Multiple[k] \in CurvePoints
             /\ (sum + k) % Order \in 0..Order-1
             /\ Plus(p, Multiple[k]) = Multiple[(sum + k) % Order]
             /\ Plus(Multiple[k], p) = Multiple[(sum + k) % Order]
  <2>1. k \in 1..Order-1 /\ k \in 0..Order-1 /\ k # 0
    BY PointsAssumption, OrderFacts
  <2>2. sum + k \in Int /\ k + sum = sum + k
    BY <1>1, <2>1, OrderFacts
  <2>3. Multiple[k] \in GroupPoints /\ Multiple[k] \in CurvePoints
    BY <2>1, Multiples
  <2>4. (sum + k) % Order \in 0..Order-1
    BY <2>2, OrderFacts
  <2>5. /\ Plus(p, Multiple[k]) = Multiple[(sum + k) % Order]
        /\ Plus(Multiple[k], p) = Multiple[(sum + k) % Order]
    BY <1>1, <2>1, <2>2, PlusMultiples
  <2> QED
    BY <2>1, <2>3, <2>4, <2>5
<1>3. CASE \E k \in Terms : \E b \in Forms(k) : Load(k, b) \/ AddGe(k, b) \/ AddGeVar(k, b)
  <2>k. PICK k \in Terms : \E b \in Forms(k) : Load(k, b) \/ AddGe(k, b) \/ AddGeVar(k, b)
    BY <1>3
  <2>1. PICK b \in Forms(k) : Load(k, b) \/ AddGe(k, b) \/ AddGeVar(k, b)
    BY <2>k
  <2>2. GeIs(b, Multiple[k])
    BY <1>2, FormsAre
  <2>3. CASE Load(k, b)
    <3>1. GejIs(GejSetGe(b), Multiple[k])
      BY <1>2, <2>2, GejSetGeIs
    <3> QED
      BY <1>2, <2>3, <3>1 DEF Load, PointsInv
  <2>4. CASE AddGe(k, b)
    <3>1. GejIs(GejAddGe(acc, b), Plus(p, Multiple[k]))
      BY <1>1, <1>2, <2>2, GejAddGeIs
    <3> QED
      BY <1>2, <2>4, <3>1 DEF AddGe, PointsInv
  <2>5. CASE AddGeVar(k, b)
    <3>1. GejIs(GejAddGeVar(acc, b).r, Plus(p, Multiple[k]))
      BY <1>1, <1>2, <2>2, GejAddGeVarIs
    <3> QED
      BY <1>2, <2>5, <3>1 DEF AddGeVar, PointsInv
  <2> QED
    BY <2>1, <2>3, <2>4, <2>5
<1>4. CASE \E k \in Terms : \E s \in Scales :
             AddZinvVar(k, s) \/ AddVar(k, Scaled(k, s)) \/ AddVarTo(k, Scaled(k, s))
  <2>1. PICK k \in Terms, s \in Scales :
               AddZinvVar(k, s) \/ AddVar(k, Scaled(k, s)) \/ AddVarTo(k, Scaled(k, s))
    BY <1>4
  <2> DEFINE b == Scaled(k, s)
             q == Multiple[k]
  <2>2. s \in 1..P-1
    BY PointsAssumption
  <2>3. GejIs(b, q) /\ q[1] \in Int /\ q[2] \in Int
    BY <1>2, <2>2, ScaledIs, CurvePointFacts
  <2>4. CASE AddVar(k, b)
    <3>1. GejIs(GejAddVar(acc, b).r, Plus(p, q))
      BY <1>1, <1>2, <2>3, GejAddVarIs
    <3> QED
      BY <1>2, <2>4, <3>1 DEF AddVar, PointsInv
  <2>5. CASE AddVarTo(k, b)
    <3>1. GejIs(GejAddVar(b, acc).r, Plus(q, p))
      BY <1>1, <1>2, <2>3, GejAddVarIs
    <3> QED
      BY <1>2, <2>5, <3>1 DEF AddVarTo, PointsInv
  <2>6. CASE AddZinvVar(k, s)
    <3> DEFINE c == [x |-> b.x, y |-> b.y, inf |-> FALSE]
    <3>1. PICK Y \in Int : GejStands(b, q[1], q[2], Y) /\ b.z.m <= 1
      BY <1>2, <2>2, ScaledIs
    <3>2. Stands(b.z, Y, 2) /\ ~Eq(Y, 0) /\ Stands(b.x, q[1] * Y * Y, 6) /\ Stands(b.y, q[2] * Y * Y * Y, 4)
      BY <3>1 DEF GejStands
    <3>3. PICK j \in Int : Eq(Y * j, 1) /\ Stands(FeInv(b.z), j, 1)
      <4> HIDE DEF b
      <4> QED
        BY <3>2, StandsInv
    <3>4. c.x = b.x /\ c.y = b.y /\ c.inf = FALSE
      OBVIOUS
    <3> HIDE DEF b, q, c
    <3>5. GejIs(GejAddZinvVar(acc, c, FeInv(b.z)), Plus(p, q))
      <4>1. q \in CurvePoints
        BY <1>2 DEF q
      <4> QED
        BY <1>1, <3>2, <3>3, <3>4, <4>1, GejAddZinvVarIs
    <3> QED
      BY <1>2, <2>6, <3>5 DEF AddZinvVar, PointsInv, b, c, q
  <2> QED
    BY <2>1, <2>4, <2>5, <2>6
<1>5. CASE Double
  <2>1. (2 * sum) % Order \in 0..Order-1 /\ 2 * sum = sum + sum
    BY <1>1, OrderFacts
  <2>2. GejIs(GejDoubleVar(acc).r, Plus(p, p)) /\ Plus(p, p) = Multiple[(sum + sum) % Order]
    BY <1>1, GejDoubleVarIs, PlusMultiples
  <2> QED
    BY <1>5, <2>1, <2>2 DEF Double, PointsInv
<1>6. CASE Negate
  <2>1. (Order - sum) % Order \in 0..Order-1 /\ Plus(p, Multiple[(Order - sum) % Order]) = Infinity
    BY <1>1, OppositeMultiples
  <2>2. GejIs(GejNeg(acc), Multiple[(Order - sum) % Order])
    BY <1>1, <2>1, Multiples, GejNegIs
  <2> QED
    BY <1>6, <2>1, <2>2 DEF Negate, PointsInv
<1>7. CASE AddInfinity
  <2>1. Plus(p, Infinity) = p /\ Infinity \in GroupPoints
    BY PlusInfinity DEF GroupPoints
  <2>2. GejIs(GejAddVar(acc, GejSetInfinity).r, p)
    BY <1>1, <2>1, InfinityIs, GejAddVarIs
  <2>3. GejIs(GejAddGeVar(acc, Stored(0)).r, p)
    BY <1>1, <2>1, InfinityIs, GejAddGeVarIs
  <2>4. GejAddZinvVar(acc, Stored(0), One) = acc
    BY InfinityIs DEF GejAddZinvVar, GeIs
  <2> QED
    BY <1>1, <1>7, <2>2, <2>3, <2>4 DEF AddInfinity, PointsInv
<1>8. CASE \E s \in Scales : Rescale(s)
  <2>1. PICK s \in Scales : Rescale(s)
    BY <1>8
  <2>2. s \in Int /\ Stands(FeSetInt(s), s, 1) /\ ~Eq(s, 0)
    <3>1. s \in Values /\ 0 \in Values /\ s # 0 /\ s \in Int
      BY PointsAssumption, PInt DEF Values
    <3> QED
      BY <3>1, EqValue, StandsSetInt
  <2>3. GejIs(GejRescale(acc, FeSetInt(s)), p)
    BY <1>1, <2>2, GejRescaleIs
  <2> QED
    BY <1>1, <2>1, <2>3 DEF Rescale, PointsInv
<1>9. CASE ToAffine
  <2>1. GeIs(GeSetGej(acc), p) /\ GeIs(GeSetGejVar(acc), p)
    BY <1>1, GeSetGejIs
  <2>2. GejIs(GejSetGe(GeSetGej(acc)), p) /\ GejIs(GejSetGe(GeSetGejVar(acc)), p)
    BY <1>1, <2>1, GejSetGeIs
  <2> QED
    BY <1>1, <1>9, <2>2 DEF ToAffine, PointsInv
<1>10. CASE UNCHANGED pointVars
  BY <1>1, <1>10 DEF PointsInv, pointVars
<1> QED
  BY <1>3, <1>4, <1>5, <1>6, <1>7, <1>8, <1>9, <1>10 DEF PointsNext

\* Every record that the calls of group_impl.h reach is the multiple they should have come
\* to.
THEOREM PointsInvariant == PointsSpec => []PointsInv
<1> QED
  BY PointsInvInit, PointsInvNext, PTL DEF PointsSpec

\* GroupLaw: whatever sequence of doublings, additions in the four forms, negations and
\* rescalings runs, the point is that of the textbook law and no magnitude is exceeded.
THEOREM PointsFollowGroupLaw == PointsSpec => []GroupLaw
<1>1. PointsInv => GroupLaw
  BY Multiples, PointOfGejIs DEF PointsInv, GroupLaw
<1> QED
  BY <1>1, PointsInvariant, PTL

\* PredicatesTrue: gej_is_valid_var, gej_has_quad_y_var and gej_eq_x_var answer what they
\* say, for every record that can be reached.
THEOREM PredicatesAreTrue == PointsSpec => []PredicatesTrue
<1>1. PointsInv => PredicatesTrue
  <2> SUFFICES ASSUME PointsInv PROVE PredicatesTrue
    OBVIOUS
  <2> DEFINE q == Multiple[sum]
  <2>1. sum \in 0..Order-1 /\ GejIs(acc, q) /\ q \in GroupPoints /\ (q = Infinity <=> sum = 0)
        /\ (sum # 0 => q \in CurvePoints)
    BY Multiples DEF PointsInv
  <2>2. GejIsValidVar(acc) <=> sum # 0
    BY <2>1, GejIsValidVarIs
  <2>3. CASE sum = 0
    <3>1. ~GejHasQuadYVar(acc)
      BY <2>1, <2>3 DEF GejIs, GejHasQuadYVar
    <3> QED
      BY <2>2, <2>3, <3>1 DEF PredicatesTrue
  <2>4. CASE sum # 0
    <3>1. q \in CurvePoints /\ q[1] \in Values /\ q[1] \in Int /\ q[2] \in Int
      BY <2>1, <2>4, CurvePointFacts
    <3>2. GejHasQuadYVar(acc) <=> FeSqrt(FeSetInt(q[2])).ok
      <4>1. Stands(FeSetInt(q[2]), q[2], 8)
        BY <3>1, StandsSetInt, EqRefl, StandsEq
      <4> QED
        BY <2>1, <3>1, <4>1, QuadIs, GejHasQuadYVarIs
    <3>3. ASSUME NEW x \in Values
          PROVE  GejEqXVar(FeSetInt(x), acc) <=> x = q[1]
      <4>1. x \in Int
        BY PInt DEF Values
      <4>2. Stands(FeSetInt(x), x, 8)
        BY <4>1, StandsSetInt, EqRefl, StandsEq
      <4> QED
        BY <2>1, <3>1, <4>1, <4>2, GejEqXVarIs, EqValue, EqRefl
    <3> QED
      BY <2>2, <2>4, <3>2, <3>3 DEF PredicatesTrue
  <2> QED
    BY <2>3, <2>4
<1> QED
  BY <1>1, PointsInvariant, PTL

\* The public key that the library stores for the secret key k; 0 stands for none.
KeyOf(k) == IF k = 0 THEN NoPubkey ELSE [x |-> Multiple[k][1], y |-> Multiple[k][2]]

\* Scalars are the remainders modulo the order.
LEMMA ScalarRange ==
    /\ Scalars = 0..Order-1 /\ Order \in Int /\ Order > 2
    /\ \A k \in 0..Order-1 : k \in Int
  BY OrderFacts DEF Scalars

\* The logarithm that the properties use finds the multiple: no two are equal.
LEMMA LogIs ==
    ASSUME NEW k \in 0..Order-1
    PROVE  Log[Multiple[k]] = k
<1> DEFINE S == 0..Order-1
<1>1. ASSUME NEW i \in S, NEW j \in S, Multiple[i] = Multiple[j]
      PROVE  i = j
  <2> DEFINE o == (Order - j) % Order
  <2>1. o \in 0..Order-1 /\ Plus(Multiple[j], Multiple[o]) = Infinity
    BY OppositeMultiples
  <2>2. Multiple[(i + o) % Order] = Infinity
    BY <1>1, <2>1, PlusMultiples
  <2>3. i \in Int /\ j \in Int /\ Order \in Int /\ o \in Int /\ i < Order /\ j < Order /\ i >= 0 /\ j >= 0
    BY <2>1, OrderFacts
  <2>4. (i + o) % Order = 0
    <3>1. (i + o) % Order \in 0..Order-1
      BY <2>3, OrderFacts
    <3> QED
      BY <2>2, <3>1, Multiples
  <2>5. CASE j = 0
    <3>1. o = 0
      BY <2>5, OrderFacts
    <3> HIDE DEF o
    <3> QED
      BY <2>3, <2>4, <2>5, <3>1, OrderFacts
  <2>6. CASE j # 0
    <3>1. Order - j \in 0..Order-1
      BY <2>3, <2>6
    <3>2. o = Order - j
      BY <3>1, OrderFacts
    <3> HIDE DEF o
    <3>3. CASE i < j
      <4>1. i + o \in 0..Order-1 /\ i + o # 0
        BY <2>3, <3>2, <3>3
      <4> QED
        BY <2>4, <4>1, OrderFacts
    <3>4. CASE i > j
      <4>1. i + o = Order + (i - j) /\ i - j \in 0..Order-1 /\ i - j # 0
        BY <2>3, <3>2, <3>4
      <4>2. (i + o) % Order = i - j
        BY <2>3, <4>1
      <4> QED
        BY <2>4, <4>1, <4>2
    <3> QED
      BY <2>3, <3>3, <3>4
  <2> QED
    BY <2>5, <2>6
<1>2. DOMAIN Multiple = S
  BY DEF Multiple
<1>3. Log = [t \in {Multiple[x] : x \in S} |-> CHOOSE s \in S : t \in {Multiple[x] : x \in S} => Multiple[s] = t]
  BY <1>2 DEF Log, Fcn!AntiFunction, Fcn!Inverse, Fcn!Range
<1>4. Log[Multiple[k]] = CHOOSE s \in S : Multiple[k] \in {Multiple[x] : x \in S} => Multiple[s] = Multiple[k]
  BY <1>3
<1>5. Multiple[k] \in {Multiple[x] : x \in S}
  OBVIOUS
<1>6. \E s \in S : Multiple[k] \in {Multiple[x] : x \in S} => Multiple[s] = Multiple[k]
  OBVIOUS
<1>7. Log[Multiple[k]] \in S /\ Multiple[Log[Multiple[k]]] = Multiple[k]
  BY <1>4, <1>5, <1>6
<1> QED
  BY <1>1, <1>7

\* Congruence modulo the order.
EqN(a, b) == \E k \in Int : a = b + k * Order

\* EqN is an equivalence, and the remainder is congruent to its number.
LEMMA EqNFacts ==
    ASSUME NEW a \in Int, NEW b \in Int
    PROVE  /\ EqN(a, a) /\ (EqN(a, b) => EqN(b, a)) /\ EqN(a % Order, a)
           /\ a % Order \in 0..Order-1 /\ a % Order \in Int
           /\ a % Order = b % Order => EqN(a, b)
<1>o. Order \in Int /\ Order > 2
  BY OrderFacts
<1>1. EqN(a, a)
  <2>1. a = a + 0 * Order
    BY <1>o
  <2> QED
    BY <2>1 DEF EqN
<1>2. EqN(a, b) => EqN(b, a)
  <2>1. SUFFICES ASSUME NEW k \in Int, a = b + k * Order PROVE EqN(b, a)
    BY DEF EqN
  <2>2. b = a + (-k) * Order /\ -k \in Int
    BY <1>o, <2>1
  <2> QED
    BY <2>2 DEF EqN
<1>3. ASSUME NEW c \in Int
      PROVE  /\ EqN(c % Order, c) /\ c % Order \in 0..Order-1 /\ c % Order \in Int
             /\ c = (c % Order) + (c \div Order) * Order /\ c \div Order \in Int
  <2>1. c % Order \in 0..Order-1 /\ c % Order \in Int
    BY <1>o
  <2>2. c \div Order \in Int /\ c = Order * (c \div Order) + (c % Order)
    BY <1>o
  <2>3. c % Order = c + (-(c \div Order)) * Order /\ -(c \div Order) \in Int
    BY <1>o, <2>1, <2>2
  <2>4. c = (c % Order) + (c \div Order) * Order
    BY <1>o, <2>1, <2>2
  <2> QED
    BY <2>1, <2>2, <2>3, <2>4 DEF EqN
<1>4. a % Order = b % Order => EqN(a, b)
  <2> DEFINE i == a \div Order
             j == b \div Order
             r == a % Order
  <2>1. SUFFICES ASSUME a % Order = b % Order PROVE EqN(a, b)
    OBVIOUS
  <2>2. a = r + i * Order /\ b = r + j * Order /\ i \in Int /\ j \in Int /\ r \in Int
    BY <1>3, <2>1
  <2> HIDE DEF i, j, r
  <2>3. a = b + (i - j) * Order /\ i - j \in Int
    BY <1>o, <2>2
  <2> QED
    BY <2>3 DEF EqN
<1> QED
  BY <1>1, <1>2, <1>3, <1>4

\* EqN is transitive.
LEMMA EqNTrans ==
    ASSUME NEW a \in Int, NEW b \in Int, NEW c \in Int, EqN(a, b), EqN(b, c)
    PROVE  EqN(a, c)
<1>1. PICK k \in Int : a = b + k * Order
  BY DEF EqN
<1>2. PICK l \in Int : b = c + l * Order
  BY DEF EqN
<1>3. a = c + (k + l) * Order
  BY <1>1, <1>2, OrderFacts
<1> QED
  BY <1>3 DEF EqN

\* EqN is kept by sums and differences ...
LEMMA EqNAdd ==
    ASSUME NEW a \in Int, NEW b \in Int, NEW c \in Int, NEW d \in Int, EqN(a, c), EqN(b, d)
    PROVE  EqN(a + b, c + d) /\ EqN(a - b, c - d)
<1>1. PICK k \in Int : a = c + k * Order
  BY DEF EqN
<1>2. PICK l \in Int : b = d + l * Order
  BY DEF EqN
<1>3. a + b = (c + d) + (k + l) * Order /\ a - b = (c - d) + (k - l) * Order
  BY <1>1, <1>2, OrderFacts
<1> QED
  BY <1>3 DEF EqN

\* ... and by products.
LEMMA EqNMul ==
    ASSUME NEW a \in Int, NEW b \in Int, NEW c \in Int, NEW d \in Int, EqN(a, c), EqN(b, d)
    PROVE  EqN(a * b, c * d)
<1>1. PICK k \in Int : a = c + k * Order
  BY DEF EqN
<1>2. PICK l \in Int : b = d + l * Order
  BY DEF EqN
<1>o. Order \in Int
  BY OrderFacts
<1>3. a * b = c * d + (c * l + k * d + k * l * Order) * Order
  BY <1>1, <1>2, <1>o
<1>4. c * l + k * d + k * l * Order \in Int
  BY <1>o
<1> QED
  BY <1>3, <1>4 DEF EqN

\* There is one scalar for every integer modulo the order.
LEMMA EqNValue ==
    ASSUME NEW a \in 0..Order-1, NEW b \in 0..Order-1, EqN(a, b)
    PROVE  a = b
<1>1. PICK k \in Int : a = b + k * Order
  BY DEF EqN
<1>2. a - b < Order /\ b - a < Order /\ a \in Int /\ b \in Int /\ Order \in Int /\ Order > 2
  BY OrderFacts
<1>3. CASE k >= 1
  <2>1. k * Order >= Order
    BY <1>2, <1>3
  <2> QED
    BY <1>1, <1>2, <2>1
<1>4. CASE k <= -1
  <2>1. (-k) * Order >= Order
    BY <1>2, <1>4
  <2>2. k * Order \in Int /\ k * Order <= -Order
    BY <1>2, <2>1
  <2> QED
    BY <1>1, <1>2, <2>2
<1>5. CASE k = 0
  BY <1>1, <1>2, <1>5
<1> QED
  BY <1>3, <1>4, <1>5

\* Congruent numbers have one remainder.
LEMMA ModIsEqN ==
    ASSUME NEW a \in Int, NEW b \in Int, EqN(a, b)
    PROVE  a % Order = b % Order
<1>1. EqN(a % Order, a) /\ EqN(b, b % Order)
  BY EqNFacts
<1>2. a % Order \in Int /\ b % Order \in Int /\ a % Order \in 0..Order-1 /\ b % Order \in 0..Order-1
  BY EqNFacts
<1>3. EqN(a % Order, b % Order)
  BY <1>1, <1>2, EqNTrans
<1> QED
  BY <1>2, <1>3, EqNValue

\* Remainders may be taken early, as scalar_add and scalar_mul take them.
LEMMA ModOfParts ==
    ASSUME NEW a \in Int, NEW b \in Int
    PROVE  /\ ((a % Order) + b) % Order = (a + b) % Order /\ (a + (b % Order)) % Order = (a + b) % Order
           /\ ((a % Order) * b) % Order = (a * b) % Order /\ (a * (b % Order)) % Order = (a * b) % Order
           /\ (a % Order) % Order = a % Order
<1>1. EqN(a % Order, a) /\ EqN(b % Order, b) /\ EqN(a, a) /\ EqN(b, b) /\ a % Order \in Int /\ b % Order \in Int
  BY EqNFacts
<1>2. EqN((a % Order) + b, a + b) /\ EqN(a + (b % Order), a + b)
  BY <1>1, EqNAdd
<1>3. EqN((a % Order) * b, a * b) /\ EqN(a * (b % Order), a * b)
  BY <1>1, EqNMul
<1>4. (a % Order) + b \in Int /\ a + (b % Order) \in Int /\ (a % Order) * b \in Int /\ a * (b % Order) \in Int
      /\ a + b \in Int /\ a * b \in Int
  BY <1>1
<1> QED
  BY <1>1, <1>2, <1>3, <1>4, ModIsEqN
-----------------------------------------------------------------------------
\* scalar_set_b32 reduces and tells an overflow; the keys that ec_seckey_verify takes are
\* those from 1 to Order - 1.
LEMMA ScalarOf ==
    ASSUME NEW b \in Nat
    PROVE  /\ ScSetB32(b).r = b % Order /\ ScSetB32(b).r \in 0..Order-1 /\ ScSetB32(b).r \in Int
           /\ ScSetB32(b).overflow <=> b >= Order
           /\ ValidScalar(ScSetB32(b)) <=> b \in 1..Order-1
           /\ b \in 0..Order-1 => ScSetB32(b).r = b
<1>1. /\ ScSetB32(b).r = b % Order /\ ScSetB32(b).overflow = (b >= Order)
  BY DEF ScSetB32
<1>2. b % Order \in 0..Order-1 /\ b % Order \in Int
  BY EqNFacts
<1>3. b \in 0..Order-1 => b % Order = b
  BY OrderFacts
<1>4. ValidScalar(ScSetB32(b)) <=> ~(b >= Order) /\ b % Order # 0
  BY <1>1 DEF ValidScalar, ScIsZero
<1>5. ~(b >= Order) <=> b \in 0..Order-1
  BY OrderFacts
<1>6. b \in 1..Order-1 <=> b \in 0..Order-1 /\ b # 0
  BY OrderFacts
<1>7. ValidScalar(ScSetB32(b)) <=> b \in 1..Order-1
  BY <1>3, <1>4, <1>5, <1>6
<1> QED
  BY <1>1, <1>2, <1>3, <1>7

\* A stored multiple depends on its number modulo the order.
LEMMA StoredMod ==
    ASSUME NEW n \in Int
    PROVE  Stored(n) = Stored(n % Order) /\ n % Order \in 0..Order-1
<1>1. (n % Order) % Order = n % Order /\ n % Order \in 0..Order-1
  BY EqNFacts, ModOfParts
<1> QED
  BY <1>1 DEF Stored

\* The n-th multiple as a Jacobian record.
LEMMA StoredPoint ==
    ASSUME NEW n \in Int
    PROVE  /\ GejIs(GejSetGe(Stored(n)), Multiple[n % Order])
           /\ GejSetGe(Stored(n)).inf <=> n % Order = 0
<1>1. Stored(n) = Stored(n % Order) /\ n % Order \in 0..Order-1
  BY StoredMod
<1> DEFINE j == n % Order
<1> HIDE DEF j
<1>2. ASSUME NEW i \in 0..Order-1
      PROVE  /\ GejIs(GejSetGe(Stored(i)), Multiple[i])
             /\ GejSetGe(Stored(i)).inf <=> i = 0
  <2>1. GeIs(Stored(i), Multiple[i]) /\ Multiple[i] \in GroupPoints /\ (Multiple[i] = Infinity <=> i = 0)
    BY StoredIs, Multiples
  <2>2. GejIs(GejSetGe(Stored(i)), Multiple[i])
    BY <2>1, GejSetGeIs
  <2> QED
    BY <2>1, <2>2 DEF GejIs, GejStands
<1> QED
  BY <1>1, <1>2

\* ecmult of the k-th multiple is the multiple of na * k + ng.
LEMMA EcmultIs ==
    ASSUME NEW q, NEW k \in 0..Order-1, GejIs(q, Multiple[k]), NEW na \in Int, NEW ng \in Int
    PROVE  EcmultOf(q, na, ng) = GejSetGe(Stored(na * k + ng))
<1>1. PointOfGej(q) = Multiple[k]
  BY Multiples, PointOfGejIs
<1> QED
  BY <1>1, LogIs DEF EcmultOf

\* pubkey_save stores the k-th key from any record of the point.
LEMMA KeySaved ==
    ASSUME NEW k \in 1..Order-1, NEW b, GeIs(b, Multiple[k])
    PROVE  pubkey_save(b) = KeyOf(k)
<1> DEFINE q == Multiple[k]
<1>1. k \in 0..Order-1 /\ k # 0
  BY OrderFacts
<1>2. q \in CurvePoints
  BY <1>1, Multiples
<1>3. q[1] \in Int /\ q[2] \in Int /\ q[1] \in Values /\ q[2] \in Values /\ q # Infinity
  BY <1>2, CurvePointFacts
<1>4. Stands(b.x, q[1], 2) /\ Stands(b.y, q[2], 2)
  BY <1>3 DEF GeIs
<1> HIDE DEF q
<1>5. ASSUME NEW f, NEW v \in Values, v \in Int, Stands(f, v, 2)
      PROVE  FeToStorage(FeNormalize(f)) = v
  <2>1. FeNormalize(f).n /\ FeNormalize(f).v = f.v /\ f.v \in Values /\ Eq(f.v, v)
    BY <1>5, StandsNormalize DEF Stands, Fe
  <2>2. f.v = v
    BY <1>5, <2>1, EqValue
  <2> QED
    BY <2>1, <2>2 DEF FeToStorage
<1> QED
  BY <1>1, <1>3, <1>4, <1>5 DEF pubkey_save, GeToStorage, KeyOf, q

\* No public key has an x of 0, which pubkey_load refuses as illegal.
LEMMA NoZeroX ==
    ASSUME NEW k \in 1..Order-1
    PROVE  Multiple[k][1] # 0
<1>1. k \in 0..Order-1 /\ k # 0
  BY OrderFacts
<1>2. Multiple[k][1] \in Values /\ Multiple[k][2] \in Values /\ Multiple[k][1] \in Int
  BY <1>1, Multiples, CurvePointFacts
<1> DEFINE y == Multiple[k][2]
           x == Multiple[k][1]
<1>3. (y * y) % P = (x * x * x + CurveB) % P
  BY CurveAssumption
<1>4. (y * y) % P # CurveB % P
  BY <1>2, EcdsaAssumption
<1> HIDE DEF y, x
<1>5. x = 0 => x * x * x + CurveB = CurveB
  BY CurveAssumption
<1>6. x # 0
  BY <1>3, <1>4, <1>5
<1> QED
  BY <1>6 DEF x

\* pubkey_load reads back what pubkey_save stored.
LEMMA KeyLoaded ==
    ASSUME NEW k \in 1..Order-1
    PROVE  pubkey_load(KeyOf(k)) = Answer(TRUE, Stored(k)) /\ KeyOf(k) # NoPubkey
<1>1. k \in 0..Order-1 /\ k # 0 /\ k % Order = k
  BY OrderFacts
<1>2. Multiple[k][1] # 0
  BY NoZeroX
<1>3. KeyOf(k) = [x |-> Multiple[k][1], y |-> Multiple[k][2]]
  BY <1>1 DEF KeyOf
<1>4. GeFromStorage(KeyOf(k)) = Stored(k)
  BY <1>1, <1>3 DEF Stored
<1>5. ~FeIsZero(Stored(k).x)
  BY <1>1, <1>2, StoredIs DEF FeIsZero
<1> QED
  BY <1>2, <1>3, <1>4, <1>5 DEF pubkey_load, NoPubkey

\* The affine copy of the n-th multiple, and the key stored from it.
LEMMA AffineIs ==
    ASSUME NEW n \in Int, n % Order # 0
    PROVE  /\ n % Order \in 1..Order-1
           /\ GeIs(GeSetGej(GejSetGe(Stored(n))), Multiple[n % Order])
           /\ GeSetGejVar(GejSetGe(Stored(n))) = GeSetGej(GejSetGe(Stored(n)))
           /\ pubkey_save(GeSetGej(GejSetGe(Stored(n)))) = KeyOf(n % Order)
<1>1. n % Order \in 0..Order-1 /\ GejIs(GejSetGe(Stored(n)), Multiple[n % Order])
  BY StoredMod, StoredPoint
<1> DEFINE k == n % Order
           b == GeSetGej(GejSetGe(Stored(n)))
<1>2. k \in 1..Order-1
  BY <1>1, OrderFacts
<1>3. Multiple[k] \in GroupPoints /\ Multiple[k] # Infinity
  BY <1>1, Multiples
<1>4. GeIs(b, Multiple[k]) /\ GeSetGejVar(GejSetGe(Stored(n))) = b
  BY <1>1, <1>3, GeSetGejIs
<1> HIDE DEF k, b
<1>5. pubkey_save(b) = KeyOf(k)
  BY <1>2, <1>4, KeySaved
<1> QED
  BY <1>2, <1>4, <1>5 DEF k, b

\* What a call answers.
LEMMA AnswerIs ==
    ASSUME NEW ret, NEW out
    PROVE  Answer(ret, out).ret = ret /\ Answer(ret, out).out = out
  BY DEF Answer

\* What a call that succeeds answers.
LEMMA AnswerTrue ==
    ASSUME NEW out
    PROVE  Answer(TRUE, out).ret = TRUE /\ Answer(TRUE, out).out = out /\ Answer(TRUE, out).illegal = FALSE
  BY DEF Answer

\* ec_pubkey_create gives the public key of a valid secret key and refuses the others.
LEMMA CreateIs ==
    ASSUME NEW ctx, ctx.sign = TRUE, NEW k \in Nat
    PROVE  ec_pubkey_create(ctx, k) = IF k \in 1..Order-1 THEN Answer(TRUE, KeyOf(k))
                                                          ELSE Answer(FALSE, NoPubkey)
<1>1. CASE k \in 1..Order-1
  <2>1. k \in 0..Order-1 /\ k \in Int /\ k % Order = k /\ k # 0
    BY <1>1, OrderFacts
  <2>2. ScSetB32(k).r = k /\ ValidScalar(ScSetB32(k))
    BY <1>1, <2>1, ScalarOf
  <2>3. pubkey_save(GeSetGej(GejSetGe(Stored(k)))) = KeyOf(k)
    BY <2>1, AffineIs
  <2> QED
    BY <1>1, <2>2, <2>3 DEF ec_pubkey_create, EcmultGenOf
<1>2. CASE k \notin 1..Order-1
  BY <1>2, ScalarOf DEF ec_pubkey_create
<1> QED
  BY <1>1, <1>2
-----------------------------------------------------------------------------
\* The product of two scalars is 0 only if one of them is.
LEMMA NoZeroDivisors ==
    ASSUME NEW a \in 1..Order-1, NEW b \in 1..Order-1
    PROVE  (a * b) % Order # 0
<1>1. SUFFICES ASSUME (a * b) % Order = 0 PROVE FALSE
  OBVIOUS
<1>2. PICK i \in 1..Order-1 : (i * a) % Order = 1
  BY EcdsaAssumption
<1>3. a \in Int /\ b \in Int /\ i \in Int /\ 0 \in 0..Order-1 /\ 1 \in 0..Order-1 /\ b \in 0..Order-1 /\ b # 0
  BY OrderFacts
<1> DEFINE m == i * a
           n == a * b
<1>4. m \in Int /\ n \in Int /\ m * b = i * n
  BY <1>3
<1>5. 1 % Order = 1 /\ 0 % Order = 0
  BY <1>3, OrderFacts
<1> HIDE DEF m, n
<1>6. EqN(m, 1) /\ EqN(n, 0) /\ EqN(b, b) /\ EqN(i, i)
  BY <1>1, <1>2, <1>3, <1>4, <1>5, EqNFacts DEF m, n
<1>7. EqN(m * b, 1 * b) /\ EqN(i * n, i * 0)
  BY <1>3, <1>4, <1>6, EqNMul
<1>8. 1 * b = b /\ i * 0 = 0 /\ m * b \in Int
  BY <1>3, <1>4
<1>9. EqN(b, 0)
  <2> DEFINE e == m * b
  <2>1. EqN(e, b) /\ EqN(e, 0) /\ e \in Int
    BY <1>4, <1>7, <1>8
  <2> HIDE DEF e
  <2>2. EqN(b, e) /\ 0 \in Int
    BY <1>3, <2>1, EqNFacts
  <2> QED
    BY <1>3, <2>1, <2>2, EqNTrans
<1> QED
  BY <1>3, <1>9, EqNValue

\* What a tweak makes of the k-th key: 0 where it fails.
Step(k, how, t) ==
    IF t >= Order THEN 0 ELSE IF how = "add" THEN (k + t) % Order ELSE (t * k) % Order

\* What a call that computes a public key answers.
KeyAnswer(k) == IF k = 0 THEN Answer(FALSE, NoPubkey) ELSE Answer(TRUE, KeyOf(k))

\* A tweaked key is a scalar.
LEMMA StepRange ==
    ASSUME NEW k \in 0..Order-1, NEW how, NEW t \in Nat
    PROVE  Step(k, how, t) \in 0..Order-1
<1>1. k \in Int /\ 0 \in 0..Order-1
  BY OrderFacts
<1>2. (k + t) % Order \in 0..Order-1 /\ (t * k) % Order \in 0..Order-1
  BY <1>1, EqNFacts
<1> QED
  BY <1>1, <1>2 DEF Step

\* ec_privkey_tweak_add and ec_privkey_tweak_mul make that step of the secret key.
LEMMA SecretTweaked ==
    ASSUME NEW k \in 1..Order-1, NEW t \in Nat
    PROVE  /\ ec_privkey_tweak_add(k, t).out = Step(k, "add", t)
           /\ ec_privkey_tweak_mul(k, t).out = Step(k, "mul", t)
<1>1. k \in 0..Order-1 /\ k \in Nat /\ k \in Int /\ ScSetB32(k).r = k
  BY OrderFacts, ScalarOf
<1>2. CASE t >= Order
  <2>1. ScSetB32(t).overflow
    BY <1>2, ScalarOf
  <2> QED
    BY <1>2, <2>1 DEF ec_privkey_tweak_add, ec_privkey_tweak_mul, TweakedSecret, Answer, Step
<1>3. CASE ~(t >= Order)
  <2>1. t \in 0..Order-1 /\ ~ScSetB32(t).overflow /\ ScSetB32(t).r = t
    BY <1>3, OrderFacts, ScalarOf
  <2> DEFINE a == eckey_privkey_tweak_add(k, t)
             m == eckey_privkey_tweak_mul(k, t)
  <2>2. a.ok = ((k + t) % Order # 0) /\ a.r = (k + t) % Order
    BY DEF eckey_privkey_tweak_add, ScIsZero, ScAdd
  <2>3. k * t = t * k
    BY <1>1
  <2>4. t = 0 => (t * k) % Order = 0
    BY <1>1, OrderFacts
  <2>5. m.ok = (t # 0) /\ (t # 0 => m.r = (t * k) % Order)
    BY <2>3 DEF eckey_privkey_tweak_mul, ScIsZero, ScMul
  <2> HIDE DEF a, m
  <2>6. ec_privkey_tweak_add(k, t).out = (k + t) % Order
    BY <1>1, <2>1, <2>2 DEF ec_privkey_tweak_add, TweakedSecret, Answer, a
  <2>7. ec_privkey_tweak_mul(k, t).out = (t * k) % Order
    BY <1>1, <2>1, <2>4, <2>5 DEF ec_privkey_tweak_mul, TweakedSecret, Answer, m
  <2> QED
    BY <1>3, <2>6, <2>7 DEF Step
<1> QED
  BY <1>2, <1>3

\* ec_pubkey_tweak_add and ec_pubkey_tweak_mul make the same step of the public key, and
\* refuse without a table for verifying.
LEMMA PublicTweaked ==
    ASSUME NEW ctx, NEW k \in 1..Order-1, NEW t \in Nat
    PROVE  /\ ctx.verify = TRUE =>
                /\ ec_pubkey_tweak_add(ctx, KeyOf(k), t) = KeyAnswer(Step(k, "add", t))
                /\ ec_pubkey_tweak_mul(ctx, KeyOf(k), t) = KeyAnswer(Step(k, "mul", t))
           /\ ctx.verify = FALSE =>
                /\ ec_pubkey_tweak_add(ctx, KeyOf(k), t) = Illegal(KeyOf(k))
                /\ ec_pubkey_tweak_mul(ctx, KeyOf(k), t) = Illegal(KeyOf(k))
<1>1. k \in 0..Order-1 /\ k \in Int /\ k # 0
  BY OrderFacts
<1>2. pubkey_load(KeyOf(k)) = Answer(TRUE, Stored(k))
  BY KeyLoaded
<1>3. pubkey_load(KeyOf(k)).out = Stored(k) /\ pubkey_load(KeyOf(k)).illegal = FALSE
  BY <1>2 DEF Answer
<1>4. CASE ctx.verify = FALSE
  BY <1>4 DEF ec_pubkey_tweak_add, ec_pubkey_tweak_mul, TweakedPublic
<1>5. CASE ctx.verify = TRUE /\ t >= Order
  <2>1. ScSetB32(t).overflow
    BY <1>5, ScalarOf
  <2> QED
    BY <1>5, <2>1 DEF ec_pubkey_tweak_add, ec_pubkey_tweak_mul, TweakedPublic, Step, KeyAnswer
<1>6. CASE ctx.verify = TRUE /\ ~(t >= Order)
  <2>1. t \in 0..Order-1 /\ t \in Int /\ ~ScSetB32(t).overflow /\ ScSetB32(t).r = t
    BY <1>6, OrderFacts, ScalarOf
  <2> DEFINE q == GejSetGe(Stored(k))
             a == GejSetGe(Stored(k + t))
             m == GejSetGe(Stored(t * k))
             pa == eckey_pubkey_tweak_add(Stored(k), t)
             pm == eckey_pubkey_tweak_mul(Stored(k), t)
             sa == (k + t) % Order
             sm == (t * k) % Order
  <2>2. GejIs(q, Multiple[k])
    BY <1>1, OrderFacts, StoredPoint
  <2>3. EcmultOf(q, 1, t) = a /\ EcmultOf(q, t, 0) = m
    <3>1. EcmultOf(q, 1, t) = GejSetGe(Stored(1 * k + t)) /\ EcmultOf(q, t, 0) = GejSetGe(Stored(t * k + 0))
      <4>1. 0 \in Int /\ 1 \in Int
        OBVIOUS
      <4> HIDE DEF q
      <4>2. EcmultOf(q, 1, t) = GejSetGe(Stored(1 * k + t))
        BY <1>1, <2>1, <2>2, <4>1, EcmultIs, ZenonT(30)
      <4>3. EcmultOf(q, t, 0) = GejSetGe(Stored(t * k + 0))
        BY <1>1, <2>1, <2>2, <4>1, EcmultIs, ZenonT(30)
      <4> QED
        BY <4>2, <4>3
    <3>2. 1 * k + t = k + t /\ t * k + 0 = t * k
      BY <1>1, <2>1
    <3> QED
      BY <3>1, <3>2
  <2>4. k + t \in Int /\ t * k \in Int
    BY <1>1, <2>1
  <2>5. /\ a.inf <=> sa = 0
        /\ sa # 0 => pubkey_save(GeSetGej(a)) = KeyOf(sa)
    BY <2>4, StoredPoint, AffineIs
  <2>6. sm # 0 => pubkey_save(GeSetGej(m)) = KeyOf(sm)
    BY <2>4, AffineIs
  <2>7. t = 0 <=> sm = 0
    <3>1. t = 0 => sm = 0
      BY <1>1, OrderFacts
    <3>2. t # 0 => t \in 1..Order-1
      BY <2>1, OrderFacts
    <3> QED
      BY <3>1, <3>2, NoZeroDivisors
  <2>8. /\ pa.ok = (sa # 0)
        /\ sa # 0 => pa.r = GeSetGej(a)
    <3>1. pa = [ok |-> ~a.inf, r |-> IF a.inf THEN Stored(k) ELSE GeSetGej(a)]
      BY <2>3 DEF eckey_pubkey_tweak_add, Tweaked
    <3> HIDE DEF pa, a, sa
    <3> QED
      BY <2>5, <3>1
  <2>9. pm.ok = (t # 0) /\ (t # 0 => pm.r = GeSetGej(m))
    BY <2>3 DEF eckey_pubkey_tweak_mul, ScIsZero
  <2> HIDE DEF a, m, pa, pm, sa, sm
  <2>10. ec_pubkey_tweak_add(ctx, KeyOf(k), t) = KeyAnswer(sa)
    BY <1>3, <1>6, <2>1, <2>5, <2>8 DEF ec_pubkey_tweak_add, TweakedPublic, KeyAnswer, pa
  <2>11. ec_pubkey_tweak_mul(ctx, KeyOf(k), t) = KeyAnswer(sm)
    BY <1>3, <1>6, <2>1, <2>6, <2>7, <2>9 DEF ec_pubkey_tweak_mul, TweakedPublic, KeyAnswer, pm
  <2> QED
    BY <1>6, <2>10, <2>11 DEF Step, sa, sm
<1> QED
  BY <1>4, <1>5, <1>6

\* ec_pubkey_combine of two keys is the key of the sum, and fails where that is infinity.
LEMMA CombineIs ==
    ASSUME NEW i \in 1..Order-1, NEW j \in 1..Order-1
    PROVE  ec_pubkey_combine(<<KeyOf(i), KeyOf(j)>>) = KeyAnswer((i + j) % Order)
<1> DEFINE s == <<KeyOf(i), KeyOf(j)>>
           a == GejAddGe(GejSetInfinity, Stored(i))
           b == GejAddGe(a, Stored(j))
           F(f) == [n \in 0..Len(s) |->
                      IF n = 0 THEN GejSetInfinity ELSE GejAddGe(f[n - 1], pubkey_load(s[n]).out)]
           g == [n \in 0..2 |-> IF n = 0 THEN GejSetInfinity ELSE IF n = 1 THEN a ELSE b]
           k == (i + j) % Order
<1>0. pubkey_load(s[1]).illegal = FALSE /\ pubkey_load(s[2]).illegal = FALSE
  <2>1. s[1] = KeyOf(i) /\ s[2] = KeyOf(j)
    OBVIOUS
  <2> QED
    BY <2>1, KeyLoaded DEF Answer
<1>1. pubkey_load(s[1]).out = Stored(i) /\ pubkey_load(s[2]).out = Stored(j) /\ Len(s) = 2
  <2>1. s[1] = KeyOf(i) /\ s[2] = KeyOf(j) /\ Len(s) = 2
    OBVIOUS
  <2> QED
    BY <2>1, KeyLoaded DEF Answer
<1>2. \A f : f = F(f) => f[2] = b
  <2> SUFFICES ASSUME NEW f, f = F(f) PROVE f[2] = b
    OBVIOUS
  <2> HIDE DEF s
  <2>1. f[0] = GejSetInfinity /\ f[1] = GejAddGe(f[0], pubkey_load(s[1]).out)
        /\ f[2] = GejAddGe(f[1], pubkey_load(s[2]).out)
    BY <1>1
  <2> QED
    BY <1>1, <2>1
<1>3. g = F(g)
  <2> HIDE DEF s, a, b
  <2>1. g[0] = GejSetInfinity /\ g[1] = a /\ g[2] = b
    OBVIOUS
  <2>2. a = GejAddGe(g[0], pubkey_load(s[1]).out) /\ b = GejAddGe(g[1], pubkey_load(s[2]).out)
    BY <1>1, <2>1 DEF a, b
  <2>3. \A n \in 0..2 : g[n] = IF n = 0 THEN GejSetInfinity ELSE GejAddGe(g[n - 1], pubkey_load(s[n]).out)
    BY <2>1, <2>2
  <2> QED
    BY <1>1, <2>3
<1>4. CombineAll(s) = b
  <2> HIDE DEF g, b
  <2>1. (CHOOSE f : f = F(f)) = F(CHOOSE f : f = F(f))
    BY <1>3
  <2>2. (CHOOSE f : f = F(f))[2] = b
    BY <1>2, <2>1
  <2> QED
    BY <1>1, <2>2 DEF CombineAll
<1>5. /\ i \in 0..Order-1 /\ j \in 0..Order-1 /\ i \in Int /\ j \in Int /\ i # 0 /\ j # 0
      /\ k \in 0..Order-1
  BY OrderFacts
<1>6. GejIs(b, Multiple[k])
  <2>1. GejIs(GejSetInfinity, Infinity)
    <3>1. FeClear \in Fe /\ FeClear.m = 0
      BY FieldAssumption, PInt DEF FeClear, Fe, Values, Broken
    <3> QED
      BY <3>1 DEF GejIs, GejKept, Gej, GejSetInfinity
  <2>2. Multiple[i] \in CurvePoints /\ Multiple[j] \in CurvePoints /\ Infinity \in GroupPoints
        /\ Multiple[i] \in GroupPoints
    BY <1>5, Multiples DEF GroupPoints
  <2>3. GeIs(Stored(i), Multiple[i]) /\ GeIs(Stored(j), Multiple[j])
    BY <1>5, StoredIs
  <2>4. GejIs(a, Multiple[i])
    BY <2>1, <2>2, <2>3, GejAddGeIs, PlusInfinity
  <2>5. GejIs(b, Plus(Multiple[i], Multiple[j]))
    <3> HIDE DEF a
    <3> QED
      BY <2>2, <2>3, <2>4, GejAddGeIs
  <2> QED
    BY <1>5, <2>5, PlusMultiples
<1>7. Multiple[k] \in GroupPoints /\ (Multiple[k] = Infinity <=> k = 0)
  BY <1>5, Multiples
<1> HIDE DEF b, k, s
<1>8. b.inf <=> k = 0
  BY <1>6, <1>7 DEF GejIs, GejStands
<1>9. k # 0 => pubkey_save(GeSetGej(b)) = KeyOf(k)
  <2>1. k # 0 => k \in 1..Order-1
    BY <1>5, OrderFacts
  <2> QED
    BY <1>6, <1>7, <2>1, GeSetGejIs, KeySaved
<1>10. s # <<>> /\ \A n \in 1..Len(s) : pubkey_load(s[n]).illegal = FALSE
  BY <1>0, <1>1
<1>11. ec_pubkey_combine(s) = KeyAnswer(k)
  BY <1>4, <1>8, <1>9, <1>10 DEF ec_pubkey_combine, KeyAnswer
<1> QED
  BY <1>11 DEF k, s
-----------------------------------------------------------------------------
\* The bytes and the parity of a coordinate are those of the value it stands for.
LEMMA BytesOf ==
    ASSUME NEW f, NEW v \in Values, Stands(f, v, 2)
    PROVE  /\ FeNormalize(f).v = v /\ FeNormalize(f).n
           /\ FeGetB32(FeNormalize(f)) = v
           /\ Odd(FeNormalize(f)) = v % 2
<1>1. v \in Int
  BY PInt DEF Values
<1>2. FeNormalize(f).n /\ FeNormalize(f).v = f.v /\ f.v \in Values /\ Eq(f.v, v)
  BY <1>1, StandsNormalize DEF Stands, Fe
<1>3. f.v = v
  BY <1>2, EqValue
<1>4. v % 2 = 0 \/ v % 2 = 1
  BY <1>1
<1> QED
  BY <1>2, <1>3, <1>4 DEF FeGetB32, Odd, FeIsOdd

\* fe_set_b32 takes every value below P.
LEMMA FromBytes ==
    ASSUME NEW v \in Values
    PROVE  /\ FeSetB32(v).ok /\ FeSetB32(v).r.n /\ FeSetB32(v).r.v = v
           /\ Stands(FeSetB32(v).r, v, 1) /\ Stands(FeSetB32(v).r, v, 2)
<1>1. v \in Int /\ v % P = v /\ v < P
  BY PInt DEF Values
<1>2. FeSetB32(v).ok /\ FeSetB32(v).r = [v |-> v, m |-> 1, n |-> TRUE]
  BY <1>1 DEF FeSetB32
<1>3. [v |-> v, m |-> 1, n |-> TRUE] \in Fe
  BY FieldAssumption DEF Fe, Broken
<1> QED
  BY <1>1, <1>2, <1>3, EqRefl DEF Stands

\* The coordinates of the k-th multiple as they are read from bytes.
LEMMA GeFromBytes ==
    ASSUME NEW k \in 1..Order-1
    PROVE  GeIs(GeSetXy(FeSetB32(Multiple[k][1]).r, FeSetB32(Multiple[k][2]).r), Multiple[k])
<1> DEFINE q == Multiple[k]
           x == FeSetB32(q[1]).r
           y == FeSetB32(q[2]).r
<1>1. k \in 0..Order-1 /\ k # 0
  BY OrderFacts
<1>2. q \in CurvePoints
  BY <1>1, Multiples
<1>3. q[1] \in Values /\ q[2] \in Values /\ q # Infinity
  BY <1>2, CurvePointFacts
<1> HIDE DEF q
<1>4. Stands(x, q[1], 1) /\ Stands(y, q[2], 1) /\ Stands(x, q[1], 2) /\ Stands(y, q[2], 2)
  BY <1>3, FromBytes
<1>5. x \in Fe /\ y \in Fe /\ x.m <= 6 /\ y.m <= 4
  <2>1. x \in Fe /\ y \in Fe /\ x.m <= 1 /\ y.m <= 1
    BY <1>4 DEF Stands
  <2>2. x.m \in Int /\ y.m \in Int
    BY <2>1, FieldAssumption DEF Fe, Broken
  <2> HIDE DEF x, y
  <2> QED
    BY <2>1, <2>2
<1> HIDE DEF x, y
<1>6. GeIs([x |-> x, y |-> y, inf |-> FALSE], q)
  BY <1>3, <1>4, <1>5 DEF GeIs, Ge
<1> QED
  BY <1>6 DEF x, y, q, GeSetXy

\* ge_is_valid_var takes the points of the curve.
LEMMA GeIsValidVarIs ==
    ASSUME NEW b, NEW q \in CurvePoints, GeIs(b, q)
    PROVE  GeIsValidVar(b)
<1> DEFINE x == q[1]
           y == q[2]
<1>1. /\ x \in Int /\ y \in Int /\ q # Infinity
      /\ Eq(y * y, x * x * x + CurveB) /\ CurveB \in Int
  BY CurvePointFacts, CurveAssumption
<1>2. Stands(b.x, x, 2) /\ Stands(b.y, y, 2) /\ ~b.inf
  BY <1>1 DEF GeIs
<1> HIDE DEF x, y
<1> DEFINE x2 == x * x
           x3 == x2 * x
           n == x3 + CurveB
           yy == y * y
           fx3 == FeMul(FeSqr(b.x), b.x)
           rhs == FeAdd(fx3, FeSetInt(CurveB))
<1>3. x2 \in Int /\ x3 \in Int /\ n \in Int /\ yy \in Int
  BY <1>1
<1>4. Stands(FeSqr(b.x), x2, 1) /\ Stands(FeSqr(b.y), yy, 1)
  <2>1. Stands(FeSqr(b.x), x2, 1)
    BY <1>1, <1>2, StandsSqr
  <2>2. Stands(FeSqr(b.y), yy, 1)
    BY <1>1, <1>2, StandsSqr
  <2> QED
    BY <2>1, <2>2
<1>5. Eq(yy, n)
  BY <1>1
<1> HIDE DEF x2, yy
<1>6. Stands(fx3, x3, 1)
  BY <1>1, <1>2, <1>3, <1>4, StandsMul
<1> HIDE DEF x3, fx3
<1>7. Stands(rhs, n, 2)
  BY <1>1, <1>3, <1>6, StandsSetInt, StandsAdd
<1> HIDE DEF n, rhs
<1>8. Stands(FeNormalizeWeak(rhs), n, 30)
  <2>1. Stands(FeNormalizeWeak(rhs), n, 1)
    BY <1>3, <1>7, StandsNormalize
  <2> QED
    BY <1>3, <2>1, EqRefl, StandsEq
<1>9. FeEqual(FeSqr(b.y), FeNormalizeWeak(rhs))
  BY <1>3, <1>4, <1>5, <1>8, StandsEqual
<1> QED
  BY <1>2, <1>9 DEF GeIsValidVar, FeEqual, FeEqualVar, FeNormalizesToZeroVar, rhs, fx3

\* secp256k1_ext_scalar_mul makes the step "mul" of a public key.
LEMMA MulIs ==
    ASSUME NEW k \in 1..Order-1, NEW t \in Nat
    PROVE  LET r == ext_scalar_mul(KeyOf(k), t)
           IN  /\ r.illegal = FALSE
               /\ (IF r.ret THEN r.out ELSE NoPubkey) = KeyOf(Step(k, "mul", t))
<1> DEFINE q == Multiple[k]
           ge == GeSetXy(FeSetB32(q[1]).r, FeSetB32(q[2]).r)
           r == ext_scalar_mul(KeyOf(k), t)
<1>1. k \in 0..Order-1 /\ k \in Int /\ k # 0
  BY OrderFacts
<1>2. KeyOf(k).x = q[1] /\ KeyOf(k).y = q[2]
  BY <1>1 DEF KeyOf
<1>3. CASE t \in 1..Order-1
  <2>1. t \in Int /\ t \in 0..Order-1 /\ ScSetB32(t).r = t /\ ValidScalar(ScSetB32(t)) /\ ~(t >= Order)
    BY <1>3, OrderFacts, ScalarOf
  <2> DEFINE n == t * k
             j == n % Order
             b == GeSetGej(GejSetGe(Stored(n)))
  <2>2. n \in Int /\ n = t * k + 0 /\ 0 \in Int /\ j # 0
    BY <1>1, <1>3, <2>1, NoZeroDivisors
  <2>3. GejIs(GejSetGe(ge), q) /\ q \in GroupPoints
    BY <1>1, GeFromBytes, GejSetGeIs, Multiples
  <2>4. EcmultConstOf(ge, t) = GejSetGe(Stored(t * k + 0))
    <3> HIDE DEF ge
    <3> QED
      BY <1>1, <2>1, <2>2, <2>3, EcmultIs, Zenon DEF EcmultConstOf
  <2>5. j \in 1..Order-1 /\ GeIs(b, Multiple[j])
    BY <2>2, AffineIs
  <2>6. j \in 0..Order-1 /\ j # 0
    BY <2>5, OrderFacts
  <2>7. Multiple[j] \in CurvePoints
    BY <2>6, Multiples
  <2>8. Multiple[j][1] \in Values /\ Multiple[j][2] \in Values /\ Multiple[j] # Infinity
    BY <2>7, CurvePointFacts
  <2>9. Stands(b.x, Multiple[j][1], 2) /\ Stands(b.y, Multiple[j][2], 2)
    BY <2>5, <2>8 DEF GeIs
  <2>10. FeGetB32(FeNormalize(b.x)) = Multiple[j][1] /\ FeGetB32(FeNormalize(b.y)) = Multiple[j][2]
    <3> HIDE DEF b, j
    <3> QED
      BY <2>8, <2>9, BytesOf
  <2>11. GeSetGej(EcmultConstOf(ge, t)) = b
    BY <2>2, <2>4
  <2> HIDE DEF b, j
  <2>12. r = Answer(TRUE, [x |-> Multiple[j][1], y |-> Multiple[j][2]])
    BY <1>2, <2>1, <2>10, <2>11 DEF ext_scalar_mul
  <2>13. r = Answer(TRUE, KeyOf(j))
    BY <2>6, <2>12 DEF KeyOf
  <2>14. Step(k, "mul", t) = j
    BY <2>1 DEF Step, j
  <2> QED
    BY <2>13, <2>14 DEF Answer
<1>4. CASE t \notin 1..Order-1
  <2>1. ~ValidScalar(ScSetB32(t))
    BY <1>4, ScalarOf
  <2>2. r = Answer(FALSE, KeyOf(k))
    BY <2>1 DEF ext_scalar_mul
  <2>3. Step(k, "mul", t) = 0
    <3>1. t >= Order \/ t = 0
      BY <1>4, OrderFacts
    <3>2. t = 0 => (t * k) % Order = 0
      BY <1>1, OrderFacts
    <3> QED
      BY <3>1, <3>2 DEF Step
  <2> QED
    BY <2>2, <2>3 DEF Answer, KeyOf
<1> QED
  BY <1>3, <1>4

\* The bytes of the k-th key, compressed or not.
BytesOfKey(k, compressed) ==
    IF compressed THEN [size |-> 33, head |-> 2 + (Multiple[k][2] % 2), x |-> Multiple[k][1], y |-> 0]
    ELSE [size |-> 65, head |-> 4, x |-> Multiple[k][1], y |-> Multiple[k][2]]

\* ec_pubkey_serialize writes those bytes where there is room.
LEMMA SerializedIs ==
    ASSUME NEW k \in 1..Order-1, NEW compressed \in BOOLEAN, NEW len \in {33, 65}, ~compressed => len = 65
    PROVE  ec_pubkey_serialize(len, KeyOf(k), compressed) = Answer(TRUE, BytesOfKey(k, compressed))
<1>1. k \in 0..Order-1 /\ k # 0
  BY OrderFacts
<1>2. pubkey_load(KeyOf(k)).out = Stored(k) /\ pubkey_load(KeyOf(k)).illegal = FALSE
  BY KeyLoaded DEF Answer
<1>3. /\ Stands(Stored(k).x, Multiple[k][1], 1) /\ Stands(Stored(k).y, Multiple[k][2], 1)
      /\ Multiple[k] \in CurvePoints
  BY <1>1, StoredIs, Multiples
<1>4. /\ Multiple[k][1] \in Values /\ Multiple[k][2] \in Values
      /\ Multiple[k][1] \in Int /\ Multiple[k][2] \in Int
  BY <1>3, CurvePointFacts
<1>5. Stands(Stored(k).x, Multiple[k][1], 2) /\ Stands(Stored(k).y, Multiple[k][2], 2)
  BY <1>3, <1>4, EqRefl, StandsEq
<1>6. eckey_pubkey_serialize(Stored(k), compressed) = BytesOfKey(k, compressed)
  BY <1>4, <1>5, BytesOf DEF eckey_pubkey_serialize, FeNormalizeVar, BytesOfKey
<1>7. ~(len < (IF compressed THEN 33 ELSE 65))
  OBVIOUS
<1> QED
  BY <1>2, <1>6, <1>7 DEF ec_pubkey_serialize

\* ec_pubkey_parse reads the key back from either form.
LEMMA ParsedIs ==
    ASSUME NEW k \in 1..Order-1, NEW compressed \in BOOLEAN
    PROVE  ec_pubkey_parse(BytesOfKey(k, compressed)) = Answer(TRUE, KeyOf(k))
<1> DEFINE q == Multiple[k]
           pub == BytesOfKey(k, compressed)
           x == FeSetB32(q[1]).r
           p == eckey_pubkey_parse(pub)
<1>1. k \in 0..Order-1 /\ k # 0
  BY OrderFacts
<1>2. q \in CurvePoints /\ q[1] \in Values /\ q[2] \in Values /\ q[1] \in Int /\ q[2] \in Int
  BY <1>1, Multiples, CurvePointFacts
<1>3. FeSetB32(q[1]).ok /\ FeSetB32(q[2]).ok /\ Stands(x, q[1], 2)
  BY <1>2, FromBytes
<1>4. p.ok /\ GeIs(p.r, q)
  <2>1. CASE compressed
    <3>1. /\ pub.size = 33 /\ pub.head = 2 + (q[2] % 2) /\ pub.x = q[1]
      BY <2>1 DEF BytesOfKey
    <3>2. (pub.head = 3) = (q[2] % 2 = 1) /\ pub.head \in {2, 3}
      BY <1>2, <3>1
    <3>3. p = GeSetXoVar(x, q[2] % 2 = 1)
      <4> HIDE DEF pub, q
      <4> QED
        BY <1>3, <3>1, <3>2 DEF eckey_pubkey_parse
    <3>4. Eq(q[1], q[1])
      BY <1>2, EqRefl
    <3> HIDE DEF x, p
    <3> QED
      BY <1>2, <1>3, <3>3, <3>4, GeSetXoVarIs
  <2>2. CASE ~compressed
    <3> DEFINE ge == GeSetXy(x, FeSetB32(q[2]).r)
    <3>1. pub.size = 65 /\ pub.head = 4 /\ pub.x = q[1] /\ pub.y = q[2]
      BY <2>2 DEF BytesOfKey
    <3>2. GeIs(ge, q)
      BY GeFromBytes
    <3>3. GeIsValidVar(ge)
      <4> HIDE DEF ge
      <4> QED
        BY <1>2, <3>2, GeIsValidVarIs
    <3>4. p = [ok |-> TRUE, r |-> ge]
      <4> HIDE DEF pub, q
      <4> QED
        BY <1>3, <3>1, <3>3 DEF eckey_pubkey_parse
    <3> QED
      BY <3>2, <3>4
  <2> QED
    BY <2>1, <2>2
<1> HIDE DEF p
<1>5. pubkey_save(p.r) = KeyOf(k)
  BY <1>4, KeySaved
<1> QED
  BY <1>4, <1>5 DEF ec_pubkey_parse, p

\* secp256k1_ext_reencode_pubkey gives the bytes of the same key in the other form.
LEMMA ReencodedIs ==
    ASSUME NEW k \in 1..Order-1, NEW compressed \in BOOLEAN, NEW len \in {33, 65}
    PROVE  ext_reencode_pubkey(len, BytesOfKey(k, compressed)) = Answer(TRUE, BytesOfKey(k, len = 33))
<1>1. ec_pubkey_parse(BytesOfKey(k, compressed)) = Answer(TRUE, KeyOf(k))
  BY ParsedIs
<1>2. ec_pubkey_serialize(len, KeyOf(k), len = 33) = Answer(TRUE, BytesOfKey(k, len = 33))
  BY SerializedIs
<1> QED
  BY <1>1, <1>2 DEF ext_reencode_pubkey, Answer

\* ecdh of the k-th key and the secret s is the multiple s * k, on both sides.
LEMMA EcdhIs ==
    ASSUME NEW k \in 1..Order-1, NEW s \in 1..Order-1
    PROVE  ecdh(KeyOf(k), s) =
             Answer(TRUE, <<2 + (Multiple[(s * k) % Order][2] % 2), Multiple[(s * k) % Order][1]>>)
<1>1. /\ k \in 0..Order-1 /\ k \in Int /\ k # 0
      /\ s \in 0..Order-1 /\ s \in Int /\ s \in Nat /\ 0 \in Int
  BY OrderFacts
<1>2. ScSetB32(s).r = s /\ ValidScalar(ScSetB32(s))
  BY <1>1, ScalarOf
<1>3. pubkey_load(KeyOf(k)).out = Stored(k) /\ pubkey_load(KeyOf(k)).illegal = FALSE
  BY KeyLoaded DEF Answer
<1> DEFINE n == s * k
           j == n % Order
           b == GeSetGej(GejSetGe(Stored(n)))
<1>4. n \in Int /\ n = s * k + 0 /\ j # 0
  BY <1>1, NoZeroDivisors
<1>5. GejIs(GejSetGe(Stored(k)), Multiple[k])
  BY <1>1, OrderFacts, StoredPoint
<1>6. EcmultConstOf(Stored(k), s) = GejSetGe(Stored(s * k + 0))
  BY <1>1, <1>5, EcmultIs, Zenon DEF EcmultConstOf
<1>7. j \in 1..Order-1 /\ GeIs(b, Multiple[j])
  BY <1>4, AffineIs
<1>8. j \in 0..Order-1 /\ j # 0
  BY <1>7, OrderFacts
<1>9. Multiple[j] \in CurvePoints
  BY <1>8, Multiples
<1>10. Multiple[j][1] \in Values /\ Multiple[j][2] \in Values /\ Multiple[j] # Infinity
  BY <1>9, CurvePointFacts
<1>11. Stands(b.x, Multiple[j][1], 2) /\ Stands(b.y, Multiple[j][2], 2)
  BY <1>7, <1>10 DEF GeIs
<1>12. FeGetB32(FeNormalize(b.x)) = Multiple[j][1] /\ Odd(FeNormalize(b.y)) = Multiple[j][2] % 2
  <2> HIDE DEF b, j
  <2> QED
    BY <1>10, <1>11, BytesOf
<1>13. GeSetGej(EcmultConstOf(Stored(k), s)) = b
  BY <1>4, <1>6
<1> HIDE DEF b, j
<1>14. ecdh(KeyOf(k), s) = Answer(TRUE, <<2 + (Multiple[j][2] % 2), Multiple[j][1]>>)
  BY <1>2, <1>3, <1>12, <1>13 DEF ecdh
<1> QED
  BY <1>14 DEF j
-----------------------------------------------------------------------------
\* The tweaks a history is made of.
Ops == {"add", "mul"} \X Tweaks

\* Wallet and watcher are on one path of keys, the watcher behind: h remembers the secret
\* key after every tweak.
Agreed ==
    \E h \in [0..Len(secOps) -> 0..Order-1] :
      /\ h[Len(secOps)] = seck
      /\ \A i \in 1..Len(secOps) : h[i] = Step(h[i - 1], secOps[i][1], secOps[i][2])
      /\ Len(pubOps) <= Len(secOps) /\ \A i \in 1..Len(pubOps) : pubOps[i] = secOps[i]
      /\ spub = KeyOf(h[Len(pubOps)])

\* The types of the keys, as far as the proof needs them.
KeyTypes ==
    /\ actx \in [sign: BOOLEAN, verify: BOOLEAN]
    /\ illegal \in BOOLEAN
    /\ seck \in 0..Order-1
    /\ \E j \in 0..Order-1 : spub = KeyOf(j)
    /\ secOps \in Seq(Ops) /\ pubOps \in Seq(Ops)

\* The inductive invariant: the watcher's public key is that of the secret key as it was
\* after as many tweaks as the watcher has followed.  TweaksAgree compares the two only
\* when they are level, which says nothing of the tweaks in between.
KeysInv == KeyTypes /\ NeverIllegal /\ (~illegal => Agreed)

\* There are no keys and no tweaks in the beginning.
LEMMA KeysInvInit == ApiInit => KeysInv
<1> SUFFICES ASSUME ApiInit PROVE KeysInv
  OBVIOUS
<1>1. PICK sign \in BOOLEAN, verify \in BOOLEAN : actx = context_clone(context_create(sign, verify))
  BY DEF ApiInit
<1>2. /\ illegal = FALSE /\ seck = 0 /\ secOps = <<>> /\ spub = NoPubkey /\ pubOps = <<>>
  BY DEF ApiInit
<1>3. actx = [sign |-> sign, verify |-> verify]
  BY <1>1 DEF context_clone, context_create
<1>4. 0 \in 0..Order-1 /\ KeyOf(0) = NoPubkey
  BY OrderFacts DEF KeyOf
<1>5. KeyTypes
  <2>1. secOps \in Seq(Ops) /\ pubOps \in Seq(Ops)
    BY <1>2
  <2>2. actx \in [sign: BOOLEAN, verify: BOOLEAN]
    BY <1>3
  <2>3. illegal \in BOOLEAN /\ seck \in 0..Order-1 /\ \E j \in 0..Order-1 : spub = KeyOf(j)
    BY <1>2, <1>4
  <2> QED
    BY <2>1, <2>2, <2>3 DEF KeyTypes
<1>6. Agreed
  <2> DEFINE h == [i \in 0..0 |-> 0]
  <2>1. Len(secOps) = 0 /\ Len(pubOps) = 0
    BY <1>2
  <2>2. h \in [0..Len(secOps) -> 0..Order-1] /\ h[0] = 0
    BY <1>4, <2>1
  <2> HIDE DEF h
  <2> QED
    BY <1>2, <1>4, <2>1, <2>2 DEF Agreed
<1> QED
  BY <1>2, <1>5, <1>6 DEF KeysInv, NeverIllegal

\* A step that leaves the keys as they are.
LEMMA KeysSame ==
    ASSUME KeysInv, actx' = actx, UNCHANGED <<seck, secOps, spub, pubOps>>,
           illegal' \in BOOLEAN, illegal => illegal', illegal' => illegal \/ actx.sign = FALSE
    PROVE  KeysInv'
<1>1. KeyTypes'
  BY DEF KeysInv, KeyTypes
<1>2. NeverIllegal'
  BY DEF KeysInv, KeyTypes, NeverIllegal
<1>3. ~illegal' => Agreed'
  BY DEF KeysInv, KeyTypes, Agreed
<1> QED
  BY <1>1, <1>2, <1>3 DEF KeysInv

\* A new key starts a path.
LEMMA CreateKeyKeeps ==
    ASSUME KeysInv, NEW k \in Seckeys, CreateKey(k)
    PROVE  KeysInv'
<1> DEFINE a == ec_pubkey_create(actx, k)
<1>1. /\ illegal = FALSE /\ seck = 0 /\ secOps = <<>> /\ seck' = k /\ spub' = a.out /\ illegal' = a.illegal
      /\ UNCHANGED <<actx, secOps, pubOps>> /\ ec_seckey_verify(k)
  BY DEF CreateKey, Running, KeysInv, KeyTypes
<1>2. k \in Nat /\ k \in 1..Order-1 /\ k \in 0..Order-1 /\ k # 0
  BY <1>1, ApiAssumption, ScalarOf, OrderFacts DEF ec_seckey_verify
<1>3. pubOps = <<>>
  BY <1>1 DEF KeysInv, Agreed, KeyTypes
<1>4. CASE actx.sign = TRUE
  <2>1. a = Answer(TRUE, KeyOf(k))
    BY <1>2, <1>4, CreateIs
  <2>2. spub' = KeyOf(k) /\ illegal' = FALSE
    BY <1>1, <2>1 DEF Answer
  <2>3. KeyTypes' /\ NeverIllegal'
    BY <1>1, <1>2, <2>2 DEF KeysInv, KeyTypes, NeverIllegal
  <2>4. Agreed'
    <3> DEFINE h == [i \in 0..0 |-> k]
    <3>1. Len(secOps') = 0 /\ Len(pubOps') = 0
      BY <1>1, <1>3
    <3>2. h \in [0..Len(secOps') -> 0..Order-1] /\ h[0] = k
      BY <1>2, <3>1
    <3> HIDE DEF h
    <3> QED
      BY <1>1, <2>2, <3>1, <3>2 DEF Agreed
  <2> QED
    BY <2>3, <2>4 DEF KeysInv
<1>5. CASE actx.sign = FALSE
  <2>1. a = Illegal(NoPubkey)
    BY <1>5 DEF ec_pubkey_create
  <2>2. spub' = KeyOf(0) /\ illegal' = TRUE /\ 0 \in 0..Order-1
    BY <1>1, <2>1, OrderFacts DEF Illegal, KeyOf
  <2> QED
    BY <1>1, <1>2, <1>5, <2>2 DEF KeysInv, KeyTypes, NeverIllegal
<1> QED
  BY <1>4, <1>5 DEF KeysInv, KeyTypes

\* A tweak of the secret key makes the path longer.
LEMMA TweakSecretKeeps ==
    ASSUME KeysInv, NEW how \in {"add", "mul"}, NEW t \in Tweaks, TweakSecret(how, t)
    PROVE  KeysInv'
<1> DEFINE op == <<how, t>>
           n == Len(secOps)
           k == Step(seck, how, t)
<1>1. /\ illegal = FALSE /\ illegal' = illegal /\ seck # 0 /\ secOps' = Append(secOps, op)
      /\ UNCHANGED <<actx, spub, pubOps>>
  BY DEF TweakSecret, Running, KeysInv, KeyTypes
<1>2. t \in Nat /\ seck \in 1..Order-1 /\ seck \in 0..Order-1
  BY <1>1, ApiAssumption, OrderFacts DEF KeysInv, KeyTypes
<1>3. seck' = k
  BY <1>2, SecretTweaked DEF TweakSecret
<1>4. k \in 0..Order-1
  BY <1>2, StepRange
<1>5. op \in Ops /\ secOps \in Seq(Ops)
  BY DEF Ops, KeysInv, KeyTypes
<1>6. KeyTypes' /\ NeverIllegal'
  BY <1>1, <1>3, <1>4, <1>5 DEF KeysInv, KeyTypes, NeverIllegal
<1>7. Agreed'
  <2>1. PICK h \in [0..n -> 0..Order-1] :
          /\ h[n] = seck
          /\ \A i \in 1..n : h[i] = Step(h[i - 1], secOps[i][1], secOps[i][2])
          /\ Len(pubOps) <= n /\ \A i \in 1..Len(pubOps) : pubOps[i] = secOps[i]
          /\ spub = KeyOf(h[Len(pubOps)])
    BY <1>1 DEF KeysInv, Agreed
  <2>2. n \in Nat /\ Len(secOps') = n + 1 /\ secOps'[n + 1] = op /\ \A i \in 1..n : secOps'[i] = secOps[i]
    BY <1>1, <1>5
  <2>3. Len(pubOps) \in Nat
    BY DEF KeysInv, KeyTypes
  <2> DEFINE g == [i \in 0..n+1 |-> IF i = n + 1 THEN k ELSE h[i]]
  <2>4. g \in [0..n+1 -> 0..Order-1] /\ g[n + 1] = k /\ \A i \in 0..n : g[i] = h[i]
    <3> HIDE DEF k
    <3> QED
      BY <1>4, <2>1, <2>2
  <2>5. op[1] = how /\ op[2] = t
    OBVIOUS
  <2> HIDE DEF g, op
  <2>6. ASSUME NEW i \in 1..n+1 PROVE g[i] = Step(g[i - 1], secOps'[i][1], secOps'[i][2])
    <3>1. CASE i = n + 1
      <4>1. i - 1 = n /\ n \in 0..n
        BY <2>2, <3>1
      <4>2. g[i - 1] = seck
        BY <2>1, <2>4, <4>1
      <4> QED
        BY <2>2, <2>4, <2>5, <3>1, <4>2
    <3>2. CASE i # n + 1
      <4>1. i \in 1..n /\ i \in 0..n /\ i - 1 \in 0..n
        BY <2>2, <3>2
      <4> QED
        BY <2>1, <2>2, <2>4, <4>1
    <3> QED
      BY <3>1, <3>2
  <2>7. Len(pubOps) <= n + 1 /\ Len(pubOps) \in 0..n /\ \A i \in 1..Len(pubOps) : i \in 1..n
    BY <2>1, <2>2, <2>3
  <2>8. /\ pubOps' = pubOps /\ spub' = spub /\ spub = KeyOf(g[Len(pubOps)])
        /\ \A i \in 1..Len(pubOps) : pubOps[i] = secOps'[i]
    BY <1>1, <2>1, <2>2, <2>4, <2>7
  <2> HIDE DEF n, k
  <2> QED
    BY <1>3, <2>2, <2>4, <2>6, <2>7, <2>8 DEF Agreed
<1> QED
  BY <1>6, <1>7 DEF KeysInv

\* What the watcher's next tweak has to come to.
LEMMA FollowsNext ==
    ASSUME KeysInv, NEW how \in {"add", "mul"}, NEW t \in Tweaks, Follows(how, t)
    PROVE  \E j \in 1..Order-1 :
             /\ spub = KeyOf(j)
             /\ pubOps' = Append(pubOps, <<how, t>>) /\ spub' = KeyOf(Step(j, how, t))
                /\ illegal' = FALSE /\ UNCHANGED <<actx, seck, secOps>>
                => KeysInv'
<1> DEFINE op == <<how, t>>
           n == Len(secOps)
           m == Len(pubOps)
<1>1. /\ illegal = FALSE /\ spub # NoPubkey /\ m < n /\ secOps[m + 1] = op
  BY DEF Follows, Running, KeysInv, KeyTypes
<1>2. PICK h \in [0..n -> 0..Order-1] :
        /\ h[n] = seck
        /\ \A i \in 1..n : h[i] = Step(h[i - 1], secOps[i][1], secOps[i][2])
        /\ m <= n /\ \A i \in 1..m : pubOps[i] = secOps[i]
        /\ spub = KeyOf(h[m])
  BY <1>1 DEF KeysInv, Agreed
<1>3. m \in Nat /\ n \in Nat /\ secOps \in Seq(Ops) /\ pubOps \in Seq(Ops) /\ op \in Ops /\ t \in Nat
  BY ApiAssumption DEF KeysInv, KeyTypes, Ops
<1>4. m \in 0..n /\ m + 1 \in 1..n /\ (m + 1) - 1 = m /\ m + 1 \in 0..n
  BY <1>1, <1>3
<1> DEFINE j == h[m]
           k == Step(j, how, t)
<1>5. j \in 0..Order-1
  BY <1>2, <1>4
<1>6. j # 0
  BY <1>1, <1>2 DEF KeyOf
<1>7. j \in 1..Order-1
  <2> HIDE DEF j
  <2> QED
    BY <1>5, <1>6, OrderFacts
<1>8. h[m + 1] = k
  <2>1. op[1] = how /\ op[2] = t
    OBVIOUS
  <2> HIDE DEF op
  <2> QED
    BY <1>1, <1>2, <1>4, <2>1
<1>9. k \in 0..Order-1
  BY <1>3, <1>5, StepRange
<1>10. ASSUME pubOps' = Append(pubOps, op), spub' = KeyOf(k), illegal' = FALSE, UNCHANGED <<actx, seck, secOps>>
       PROVE  KeysInv'
  <2> HIDE DEF op, k
  <2>1. pubOps' \in Seq(Ops) /\ Len(pubOps') = m + 1 /\ pubOps'[m + 1] = op
        /\ \A i \in 1..m : pubOps'[i] = pubOps[i]
    BY <1>3, <1>10
  <2>2. KeyTypes' /\ NeverIllegal'
    BY <1>9, <1>10, <2>1 DEF KeysInv, KeyTypes, NeverIllegal
  <2>3. ASSUME NEW i \in 1..m+1 PROVE pubOps'[i] = secOps[i]
    <3>1. CASE i = m + 1
      BY <1>1, <2>1, <3>1
    <3>2. CASE i # m + 1
      <4>1. i \in 1..m
        BY <1>3, <3>2
      <4> QED
        BY <1>2, <2>1, <4>1
    <3> QED
      BY <3>1, <3>2
  <2>4. m + 1 <= n
    BY <1>1, <1>3
  <2> HIDE DEF n, m
  <2>5. Agreed'
    <3>1. Len(secOps') = n /\ secOps' = secOps /\ seck' = seck
      BY <1>10 DEF n
    <3> QED
      BY <1>2, <1>8, <1>10, <2>1, <2>3, <2>4, <3>1 DEF Agreed
  <2> QED
    BY <2>2, <2>5 DEF KeysInv
<1> HIDE DEF j, k
<1> QED
  BY <1>2, <1>7, <1>10 DEF j, k
-----------------------------------------------------------------------------
\* A public tweak keeps the invariant if it answers the next key of the path, or is
\* refused by a context without its table.
LEMMA BecomeKeeps ==
    ASSUME KeysInv, NEW how \in {"add", "mul"}, NEW t \in Tweaks, Follows(how, t),
           NEW answer, BecomePublic(answer, how, t),
           \A j \in 1..Order-1 : spub = KeyOf(j) =>
             \/ /\ answer.illegal = FALSE
                /\ (IF answer.ret THEN answer.out ELSE NoPubkey) = KeyOf(Step(j, how, t))
             \/ /\ answer.illegal = TRUE /\ answer.ret = FALSE /\ actx.verify = FALSE
    PROVE  KeysInv'
<1>1. PICK j \in 1..Order-1 :
        /\ spub = KeyOf(j)
        /\ pubOps' = Append(pubOps, <<how, t>>) /\ spub' = KeyOf(Step(j, how, t))
           /\ illegal' = FALSE /\ UNCHANGED <<actx, seck, secOps>>
           => KeysInv'
  BY FollowsNext
<1>2. /\ spub' = (IF answer.ret THEN answer.out ELSE NoPubkey) /\ illegal' = answer.illegal
      /\ pubOps' = Append(pubOps, <<how, t>>) /\ UNCHANGED <<actx, seck, secOps>>
  BY DEF BecomePublic
<1>3. CASE /\ answer.illegal = FALSE
           /\ (IF answer.ret THEN answer.out ELSE NoPubkey) = KeyOf(Step(j, how, t))
  BY <1>1, <1>2, <1>3
<1>4. CASE answer.illegal = TRUE /\ answer.ret = FALSE /\ actx.verify = FALSE
  <2>0. spub' = NoPubkey /\ illegal' = TRUE
    BY <1>2, <1>4
  <2>z. KeyOf(0) = NoPubkey
    BY DEF KeyOf
  <2>n. 0 \in 0..Order-1
    BY OrderFacts
  <2>1. spub' = KeyOf(0) /\ illegal' = TRUE /\ 0 \in 0..Order-1
    BY <2>0, <2>z, <2>n
  <2>2. <<how, t>> \in Ops /\ pubOps \in Seq(Ops)
    BY DEF Ops, KeysInv, KeyTypes
  <2>3. pubOps' \in Seq(Ops)
    BY <1>2, <2>2
  <2> QED
    BY <1>2, <1>4, <2>1, <2>3 DEF KeysInv, KeyTypes, NeverIllegal
<1> QED
  BY <1>1, <1>3, <1>4

\* What is kept of an answer is the key, or none.
LEMMA KeyAnswerIs ==
    ASSUME NEW k \in 0..Order-1
    PROVE  /\ KeyAnswer(k).illegal = FALSE
           /\ (IF KeyAnswer(k).ret THEN KeyAnswer(k).out ELSE NoPubkey) = KeyOf(k)
  BY DEF KeyAnswer, Answer, KeyOf

\* The watcher follows by a tweak ...
LEMMA TweakPublicKeeps ==
    ASSUME KeysInv, NEW how \in {"add", "mul"}, NEW t \in Tweaks, TweakPublic(how, t)
    PROVE  KeysInv'
<1> DEFINE a == IF how = "add" THEN ec_pubkey_tweak_add(actx, spub, t) ELSE ec_pubkey_tweak_mul(actx, spub, t)
<1>1. Follows(how, t) /\ BecomePublic(a, how, t)
  BY DEF TweakPublic
<1>2. t \in Nat
  BY ApiAssumption
<1>3. ASSUME NEW j \in 1..Order-1, spub = KeyOf(j)
      PROVE  \/ /\ a.illegal = FALSE
                /\ (IF a.ret THEN a.out ELSE NoPubkey) = KeyOf(Step(j, how, t))
             \/ a.illegal = TRUE /\ a.ret = FALSE /\ actx.verify = FALSE
  <2>1. CASE actx.verify = TRUE
    <3>1. a = KeyAnswer(Step(j, how, t))
      BY <1>2, <1>3, <2>1, PublicTweaked
    <3>2. j \in 0..Order-1
      BY OrderFacts
    <3> QED
      BY <1>2, <3>1, <3>2, StepRange, KeyAnswerIs
  <2>2. CASE actx.verify = FALSE
    <3>1. a = Illegal(KeyOf(j))
      BY <1>2, <1>3, <2>2, PublicTweaked
    <3> QED
      BY <2>2, <3>1 DEF Illegal
  <2> QED
    BY <2>1, <2>2 DEF KeysInv, KeyTypes
<1> HIDE DEF a
<1> QED
  BY <1>1, <1>3, BecomeKeeps

\* ... by a combination with the key of the tweak ...
LEMMA CombineKeeps ==
    ASSUME KeysInv, NEW t \in Tweaks, Combine(t)
    PROVE  KeysInv'
<1> DEFINE a == ec_pubkey_combine(<<spub, ec_pubkey_create(actx, t).out>>)
<1>1. Follows("add", t) /\ BecomePublic(a, "add", t) /\ actx.sign = TRUE /\ ec_seckey_verify(t)
  BY DEF Combine, KeysInv, KeyTypes
<1>2. t \in Nat /\ t \in 1..Order-1 /\ ~(t >= Order)
  BY <1>1, ApiAssumption, ScalarOf, OrderFacts DEF ec_seckey_verify
<1>3. ec_pubkey_create(actx, t).out = KeyOf(t)
  <2>1. ec_pubkey_create(actx, t) = Answer(TRUE, KeyOf(t))
    BY <1>1, <1>2, CreateIs
  <2> QED
    BY <2>1, AnswerTrue
<1>4. ASSUME NEW j \in 1..Order-1, spub = KeyOf(j)
      PROVE  a.illegal = FALSE /\ (IF a.ret THEN a.out ELSE NoPubkey) = KeyOf(Step(j, "add", t))
  <2>1. a = KeyAnswer((j + t) % Order)
    BY <1>2, <1>3, <1>4, CombineIs
  <2>2. Step(j, "add", t) = (j + t) % Order
    BY <1>2 DEF Step
  <2>3. j \in 0..Order-1
    BY OrderFacts
  <2> QED
    BY <1>2, <2>1, <2>2, <2>3, StepRange, KeyAnswerIs
<1> HIDE DEF a
<1> QED
  BY <1>1, <1>4, BecomeKeeps

\* ... or by a product in ext.h.
LEMMA ScalarMulKeeps ==
    ASSUME KeysInv, NEW t \in Tweaks, ScalarMul(t)
    PROVE  KeysInv'
<1>1. Follows("mul", t) /\ BecomePublic(ext_scalar_mul(spub, t), "mul", t)
  BY DEF ScalarMul
<1>2. t \in Nat
  BY ApiAssumption
<1>3. \A j \in 1..Order-1 : spub = KeyOf(j) =>
        /\ ext_scalar_mul(spub, t).illegal = FALSE
        /\ (IF ext_scalar_mul(spub, t).ret THEN ext_scalar_mul(spub, t).out ELSE NoPubkey)
             = KeyOf(Step(j, "mul", t))
  BY <1>2, MulIs
<1> QED
  BY <1>1, <1>3, BecomeKeeps

\* Handing the key on in another format changes nothing.
LEMMA ReencodeKeeps ==
    ASSUME KeysInv, NEW len \in {33, 65}, Reencode(len)
    PROVE  KeysInv'
<1>1. PICK compressed \in BOOLEAN :
        LET Send(sent) == IF sent.ret THEN ext_reencode_pubkey(len, sent.out) ELSE sent
            Take(again) == /\ spub' = IF again.ret THEN ec_pubkey_parse(again.out).out ELSE spub
                           /\ illegal' = again.illegal
        IN  Take(Send(ec_pubkey_serialize(65, spub, compressed)))
  BY DEF Reencode
<1>2. illegal = FALSE /\ spub # NoPubkey /\ UNCHANGED <<actx, seck, secOps, pubOps>>
  BY DEF Reencode, Running, KeysInv, KeyTypes
<1>3. PICK k \in 0..Order-1 : spub = KeyOf(k)
  BY DEF KeysInv, KeyTypes
<1>4. k \in 1..Order-1
  BY <1>2, <1>3, OrderFacts DEF KeyOf
<1>5. ec_pubkey_serialize(65, spub, compressed) = Answer(TRUE, BytesOfKey(k, compressed))
  BY <1>3, <1>4, SerializedIs
<1>6. ext_reencode_pubkey(len, BytesOfKey(k, compressed)) = Answer(TRUE, BytesOfKey(k, len = 33))
  BY <1>4, ReencodedIs, ZenonT(30)
<1>7. ec_pubkey_parse(BytesOfKey(k, len = 33)) = Answer(TRUE, KeyOf(k))
  BY <1>4, ParsedIs
<1>8. spub' = KeyOf(k) /\ illegal' = FALSE
  BY <1>1, <1>5, <1>6, <1>7 DEF Answer
<1> QED
  BY <1>2, <1>3, <1>8, KeysSame

\* Every call of the library keeps the two keys on their path.
LEMMA KeysInvNext == KeysInv /\ [ApiNext]_apiVars => KeysInv'
<1> SUFFICES ASSUME KeysInv, [ApiNext]_apiVars PROVE KeysInv'
  OBVIOUS
<1>t. illegal \in BOOLEAN /\ actx.sign \in BOOLEAN
  BY DEF KeysInv, KeyTypes
<1>1. CASE \E k \in Seckeys : CreateKey(k)
  BY <1>1, CreateKeyKeeps
<1>2. CASE Randomize
  <2>1. actx' = actx /\ illegal' = (actx.sign = FALSE) /\ illegal = FALSE
    BY <1>2, <1>t DEF Randomize, Running, context_randomize, Answer, Illegal
  <2> QED
    BY <1>2, <2>1, KeysSame DEF Randomize
<1>3. CASE \E t \in Tweaks :
             \/ \E how \in {"add", "mul"} : TweakSecret(how, t) \/ TweakPublic(how, t)
             \/ Combine(t) \/ ScalarMul(t)
  BY <1>3, TweakSecretKeeps, TweakPublicKeeps, CombineKeeps, ScalarMulKeeps
<1>4. CASE \E len \in {33, 65} : Reencode(len)
  BY <1>4, ReencodeKeeps
<1>5. CASE \E recoverable \in BOOLEAN, msg \in Messages : Sign(recoverable, msg)
  <2>1. /\ illegal = FALSE /\ illegal' = ~actx.sign /\ actx' = actx
        /\ UNCHANGED <<seck, secOps, spub, pubOps>>
    BY <1>5, <1>t DEF Sign, Running
  <2> QED
    BY <1>t, <2>1, KeysSame
<1>6. CASE \E nonce \in Nonces : TryNonce(nonce)
  <2>1. PICK nonce \in Nonces : TryNonce(nonce)
    BY <1>6
  <2>2. UNCHANGED <<actx, illegal, seck, secOps, spub, pubOps>>
    BY <2>1 DEF TryNonce
  <2> QED
    BY <1>t, <2>2, KeysSame
<1>7. CASE NoNonce
  BY <1>7, <1>t, KeysSame DEF NoNonce
<1>8. CASE Malleate
  BY <1>8, <1>t, KeysSame DEF Malleate, Altered
<1>9. CASE NormalizeSignature
  BY <1>9, <1>t, KeysSame DEF NormalizeSignature, Altered
<1>10. CASE \E r, s \in SignatureNumbers, recid \in 0..3 : ReceiveSignature(r, s, recid)
  <2>1. PICK r \in SignatureNumbers, s \in SignatureNumbers, recid \in 0..3 : ReceiveSignature(r, s, recid)
    BY <1>10
  <2>2. UNCHANGED <<actx, illegal, seck, secOps, spub, pubOps>>
    BY <2>1 DEF ReceiveSignature, Altered
  <2> QED
    BY <1>t, <2>2, KeysSame
<1>11. CASE UNCHANGED apiVars
  BY <1>11, <1>t, KeysSame DEF apiVars
<1> QED
  BY <1>1, <1>2, <1>3, <1>4, <1>5, <1>6, <1>7, <1>8, <1>9, <1>10, <1>11 DEF ApiNext

\* The keys stay on one path, whatever calls are made.
LEMMA KeysInvariant == ApiSpec => []KeysInv
<1> QED
  BY KeysInvInit, KeysInvNext, PTL DEF ApiSpec

\* NeverIllegal: no call of the library meets the illegal-argument callback, which panics
\* in Go, if its context was made for both uses: no stored key has an x of 0.
THEOREM ContextNeverRefuses == ApiSpec => []NeverIllegal
<1>1. KeysInv => NeverIllegal
  BY DEF KeysInv
<1> QED
  BY <1>1, KeysInvariant, PTL

\* TweaksAgree: by whatever calls and in whatever order the two keys are tweaked, they
\* are a pair again when the watcher has followed, one fails where the other does, and
\* both sides of ecdh share a secret.
THEOREM TweaksOfBothAgree == ApiSpec => []TweaksAgree
<1>1. KeysInv => TweaksAgree
  <2> SUFFICES ASSUME KeysInv PROVE TweaksAgree
    OBVIOUS
  <2>1. ASSUME ~illegal, secOps = pubOps
        PROVE  spub = KeyOf(seck)
    BY <2>1 DEF KeysInv, Agreed
  <2>2. seck \in 0..Order-1 /\ Both.sign = TRUE
    BY DEF KeysInv, KeyTypes, Both, context_create
  <2>3. ASSUME NEW k \in 0..Order-1
        PROVE  (KeyOf(k) = NoPubkey <=> k = 0) /\ (k # 0 => k \in 1..Order-1)
    <3>1. k # 0 => k \in 1..Order-1
      BY OrderFacts
    <3>2. k # 0 => KeyOf(k) # NoPubkey
      BY <3>1, KeyLoaded
    <3> QED
      BY <3>1, <3>2 DEF KeyOf
  <2>4. ASSUME ~illegal, secOps = pubOps, seck # 0
        PROVE  /\ spub = PublicOf(seck)
               /\ \A k \in Tweaks : ec_seckey_verify(k) => ecdh(spub, k) = ecdh(PublicOf(k), seck)
    <3>1. spub = KeyOf(seck) /\ seck \in 1..Order-1
      BY <2>1, <2>2, <2>3, <2>4
    <3>2. ASSUME NEW k \in 1..Order-1 PROVE PublicOf(k) = KeyOf(k)
      <4>1. k \in Nat
        BY OrderFacts
      <4>2. ec_pubkey_create(Both, k) = Answer(TRUE, KeyOf(k))
        BY <2>2, <4>1, CreateIs
      <4> QED
        BY <4>2, AnswerTrue DEF PublicOf
    <3>3. ASSUME NEW k \in Tweaks, ec_seckey_verify(k)
          PROVE  ecdh(spub, k) = ecdh(PublicOf(k), seck)
      <4>1. k \in Nat /\ k \in 1..Order-1
        BY <3>3, ApiAssumption, ScalarOf DEF ec_seckey_verify
      <4>2. k * seck = seck * k
        BY <2>2, <4>1, OrderFacts
      <4> QED
        BY <3>1, <3>2, <4>1, <4>2, EcdhIs
    <3> QED
      BY <3>1, <3>2, <3>3
  <2>5. ASSUME spub # NoPubkey PROVE Log[<<spub.x, spub.y>>] # 0
    <3>1. PICK k \in 0..Order-1 : spub = KeyOf(k)
      BY DEF KeysInv, KeyTypes
    <3>2. k # 0
      BY <2>3, <2>5, <3>1
    <3>3. Multiple[k] = <<Multiple[k][1], Multiple[k][2]>>
      BY <3>2, Multiples, CurvePointFacts
    <3>4. spub.x = Multiple[k][1] /\ spub.y = Multiple[k][2]
      BY <3>1, <3>2 DEF KeyOf
    <3> QED
      BY <3>2, <3>3, <3>4, LogIs
  <2> QED
    BY <2>1, <2>2, <2>3, <2>4, <2>5 DEF TweaksAgree
<1> QED
  BY <1>1, KeysInvariant, PTL
-----------------------------------------------------------------------------
\* scalar_inverse is a scalar, and the inverse of any but 0.
LEMMA ScalarInverse ==
    ASSUME NEW a \in 0..Order-1
    PROVE  /\ ScInverse(a) \in 0..Order-1 /\ ScInverse(a) \in Int
           /\ a # 0 => EqN(ScInverse(a) * a, 1)
<1>1. CASE a = 0
  BY <1>1, OrderFacts DEF ScInverse
<1>2. CASE a # 0
  <2>1. a \in 1..Order-1 /\ a \in Int
    BY <1>2, OrderFacts
  <2>2. PICK i \in 1..Order-1 : (i * a) % Order = 1
    BY <2>1, EcdsaAssumption
  <2>3. i \in 0..Order-1
    BY OrderFacts
  <2> DEFINE w == CHOOSE j \in 0..Order-1 : (j * a) % Order = 1
  <2>4. w \in 0..Order-1 /\ (w * a) % Order = 1
    BY <2>2, <2>3
  <2>5. ScInverse(a) = w
    BY <1>2, ScalarRange DEF ScInverse
  <2> HIDE DEF w
  <2>6. w \in Int /\ w * a \in Int /\ 1 \in Int
    BY <2>1, <2>4, OrderFacts
  <2>7. EqN(w * a, 1)
    BY <2>4, <2>6, EqNFacts, OrderFacts
  <2> QED
    BY <2>4, <2>5, <2>6, <2>7
<1> QED
  BY <1>1, <1>2

\* The equation of a signature: s * n = m + r * k.  Any two of s, n and k and the
\* others determine each other: n is what verifying computes, k what recovering does.
Signs(r, s, m, k, n) == EqN(s * n, m + r * k)
NonceOf(r, s, m, k) == ((m + r * k) * ScInverse(s)) % Order
SignerOf(r, s, m, n) == (ScInverse(r) * (s * n - m)) % Order

\* The nonce that verifying computes and the key that recovering computes are the ones
\* that satisfy the equation.
LEMMA SignatureEquation ==
    ASSUME NEW r, NEW s, NEW m, NEW k, NEW n,
           r \in 1..Order-1, s \in 1..Order-1, m \in Int, k \in 0..Order-1, n \in 0..Order-1
    PROVE  /\ Signs(r, s, m, k, n) <=> NonceOf(r, s, m, k) = n
           /\ Signs(r, s, m, k, n) <=> SignerOf(r, s, m, n) = k
<1> DEFINE w == ScInverse(s)
           v == ScInverse(r)
<1>1. /\ r \in 0..Order-1 /\ r # 0 /\ s \in 0..Order-1 /\ s # 0
      /\ r \in Int /\ s \in Int /\ k \in Int /\ n \in Int
  BY OrderFacts
<1>2. w \in Int /\ v \in Int /\ EqN(w * s, 1) /\ EqN(v * r, 1)
  BY <1>1, ScalarInverse
<1> HIDE DEF w, v
<1> DEFINE e == m + r * k
<1>3. e \in Int /\ s * n \in Int /\ s * n - m \in Int /\ w * s \in Int /\ v * r \in Int
      /\ e * w \in Int /\ v * (s * n - m) \in Int /\ 1 \in Int /\ r * k \in Int
  BY <1>1, <1>2
<1>4. EqN(e, e) /\ EqN(n, n) /\ EqN(w, w) /\ EqN(s, s) /\ EqN(m, m) /\ EqN(v, v) /\ EqN(r, r)
      /\ EqN(k, k) /\ EqN(s * n - m, s * n - m)
  BY <1>1, <1>2, <1>3, EqNFacts
<1>5. /\ EqN((w * s) * n, 1 * n) /\ EqN((v * r) * k, 1 * k) /\ EqN((w * s) * e, 1 * e)
      /\ EqN((v * r) * (s * n - m), 1 * (s * n - m))
  <2> HIDE DEF e
  <2> QED
    BY <1>1, <1>2, <1>3, <1>4, EqNMul
<1>6. /\ 1 * n = n /\ 1 * k = k /\ 1 * e = e /\ 1 * (s * n - m) = s * n - m
      /\ (w * s) * n = (s * n) * w /\ (v * r) * k = v * (r * k) /\ (w * s) * e = s * (e * w)
      /\ (v * r) * (s * n - m) = r * (v * (s * n - m))
      /\ e - m = r * k /\ m + (s * n - m) = s * n
  <2>1. e - m = r * k /\ m + (s * n - m) = s * n
    BY <1>1, <1>3
  <2> DEFINE d == s * n - m
  <2>2. d \in Int
    BY <1>3
  <2> HIDE DEF d, e
  <2>3. /\ 1 * n = n /\ 1 * k = k /\ 1 * e = e /\ 1 * d = d
        /\ (w * s) * n = (s * n) * w /\ (v * r) * k = v * (r * k) /\ (w * s) * e = s * (e * w)
        /\ (v * r) * d = r * (v * d)
    BY <1>1, <1>2, <1>3, <2>2
  <2> QED
    BY <2>1, <2>3 DEF d
<1>7. ASSUME NEW a \in Int, NEW b \in 0..Order-1
      PROVE  EqN(a, b) <=> a % Order = b
  <2>1. b \in Int /\ b % Order = b
    BY OrderFacts
  <2>2. EqN(a, b) => a % Order = b % Order
    BY <2>1, ModIsEqN
  <2>3. a % Order = b % Order => EqN(a, b)
    BY <2>1, EqNFacts
  <2> QED
    BY <2>1, <2>2, <2>3
<1>8. ASSUME EqN(s * n, e) PROVE (e * w) % Order = n /\ (v * (s * n - m)) % Order = k
  <2>1. EqN((s * n) * w, e * w)
    BY <1>2, <1>3, <1>4, <1>8, EqNMul
  <2>2. EqN(e * w, (s * n) * w) /\ EqN((s * n) * w, n)
    <3> HIDE DEF e
    <3>1. (s * n) * w \in Int
      BY <1>2, <1>3
    <3> QED
      BY <1>3, <1>5, <1>6, <2>1, <3>1, EqNFacts, Zenon
  <2>3. (s * n) * w \in Int
    BY <1>2, <1>3
  <2>4. EqN(e * w, n)
    BY <1>1, <1>3, <2>2, <2>3, EqNTrans
  <2>5. EqN(s * n - m, e - m)
    <3> HIDE DEF e
    <3> QED
      BY <1>3, <1>4, <1>8, EqNAdd
  <2>6. EqN(v * (s * n - m), v * (r * k))
    BY <1>2, <1>3, <1>4, <1>6, <2>5, EqNMul
  <2>7. v * (r * k) \in Int /\ EqN(v * (r * k), k)
    BY <1>2, <1>3, <1>5, <1>6
  <2>8. EqN(v * (s * n - m), k)
    BY <1>1, <1>3, <2>6, <2>7, EqNTrans
  <2> HIDE DEF e
  <2> QED
    BY <1>3, <1>7, <2>4, <2>8
<1>9. ASSUME (e * w) % Order = n PROVE EqN(s * n, e)
  <2>1. EqN(e * w, n)
    BY <1>3, <1>7, <1>9
  <2>2. EqN(n, e * w)
    BY <1>1, <1>3, <2>1, EqNFacts
  <2>3. EqN(s * n, s * (e * w))
    BY <1>1, <1>3, <1>4, <2>2, EqNMul
  <2>4. s * (e * w) \in Int /\ EqN(s * (e * w), e)
    BY <1>1, <1>3, <1>5, <1>6
  <2> HIDE DEF e
  <2> QED
    BY <1>3, <2>3, <2>4, EqNTrans
<1>10. ASSUME (v * (s * n - m)) % Order = k PROVE EqN(s * n, e)
  <2>1. EqN(v * (s * n - m), k)
    BY <1>3, <1>7, <1>10
  <2>2. EqN(k, v * (s * n - m))
    BY <1>1, <1>3, <2>1, EqNFacts
  <2>3. EqN(r * k, r * (v * (s * n - m)))
    BY <1>1, <1>3, <1>4, <2>2, EqNMul
  <2>4. r * (v * (s * n - m)) \in Int /\ EqN(r * (v * (s * n - m)), s * n - m)
    BY <1>1, <1>3, <1>5, <1>6
  <2>5. EqN(r * k, s * n - m)
    BY <1>3, <2>3, <2>4, EqNTrans
  <2>6. EqN(m + r * k, m + (s * n - m))
    BY <1>3, <1>4, <2>5, EqNAdd
  <2>7. EqN(e, s * n)
    BY <1>6, <2>6
  <2> HIDE DEF e
  <2> QED
    BY <1>3, <2>7, EqNFacts
<1> QED
  BY <1>8, <1>9, <1>10 DEF w, v, Signs, NonceOf, SignerOf
-----------------------------------------------------------------------------
\* The order is below P and above its half.
LEMMA SizeFacts ==
    P \in Int /\ Order \in Int /\ Order > 2 /\ Order < P /\ P < 2 * Order
  BY PInt, OrderFacts, EcdsaAssumption

\* An x below P is reduced modulo the order by one subtraction.
LEMMA XReduced ==
    ASSUME NEW x \in Values
    PROVE  x \in Int /\ x % Order = (IF x >= Order THEN x - Order ELSE x)
<1>1. x \in Int /\ 0 <= x /\ x < P /\ P < 2 * Order
  BY SizeFacts DEF Values
<1>2. CASE x < Order
  BY <1>1, <1>2, OrderFacts
<1>3. CASE x >= Order
  <2>1. x - Order \in 0..Order-1
    BY <1>1, <1>3, SizeFacts
  <2>2. x - Order \in Int /\ EqN(x, x - Order)
    <3>1. x = (x - Order) + 1 * Order
      BY <1>1, OrderFacts
    <3> QED
      BY <1>1, <3>1, OrderFacts DEF EqN
  <2>3. x % Order = (x - Order) % Order
    BY <1>1, <2>2, ModIsEqN
  <2> QED
    BY <1>1, <1>3, <2>1, <2>3, OrderFacts
<1> QED
  BY <1>1, <1>2, <1>3, OrderFacts

\* What a multiple other than the 0th is made of.
LEMMA PointOfMultiple ==
    ASSUME NEW n \in 1..Order-1
    PROVE  /\ n \in 0..Order-1 /\ n \in Int /\ n # 0 /\ n % Order = n
           /\ Multiple[n] \in CurvePoints /\ Multiple[n] \in GroupPoints /\ Multiple[n] # Infinity
           /\ Multiple[n][1] \in Values /\ Multiple[n][2] \in Values
           /\ Multiple[n][1] \in Int /\ Multiple[n][2] \in Int
<1>1. n \in 0..Order-1 /\ n \in Int /\ n # 0 /\ n % Order = n
  BY OrderFacts
<1>2. Multiple[n] \in CurvePoints /\ Multiple[n] \in GroupPoints
  BY <1>1, Multiples
<1> QED
  BY <1>1, <1>2, CurvePointFacts

\* The opposite multiple has the same x and a y of the other parity.
LEMMA OppositeOfMultiple ==
    ASSUME NEW n \in 1..Order-1
    PROVE  /\ Order - n \in 1..Order-1
           /\ Multiple[Order - n][1] = Multiple[n][1]
           /\ Multiple[Order - n][2] % 2 = 1 - (Multiple[n][2] % 2)
<1> DEFINE p == Multiple[n]
           q == Multiple[Order - n]
<1>1. n \in 0..Order-1 /\ p \in CurvePoints /\ p \in GroupPoints /\ p # Infinity
  BY PointOfMultiple
<1>2. Order - n \in 1..Order-1 /\ (Order - n) % Order = Order - n
  BY OrderFacts
<1>3. q \in GroupPoints /\ q # Infinity
  BY <1>2, PointOfMultiple
<1>4. Plus(p, q) = Infinity
  BY <1>1, <1>2, OppositeMultiples
<1> DEFINE y == p[2]
           z == q[2]
<1>5. y \in Values /\ z \in Values /\ y \in Int /\ z \in Int /\ ~Eq(2 * y, 0)
  BY <1>1, <1>2, PointOfMultiple, CurvePointFacts
<1> HIDE DEF p, q
<1>6. p[1] = q[1] /\ Eq(-p[2], q[2])
  BY <1>1, <1>3, <1>4, OppositePoints
<1> HIDE DEF y, z
<1>7. y # 0
  <2>1. y = 0 => 2 * y = 0
    OBVIOUS
  <2> QED
    BY <1>5, <2>1, EqRefl
<1>8. P - y \in Values /\ P - y \in Int /\ -y \in Int
  BY <1>5, <1>7, PInt DEF Values
<1>9. z = P - y
  <2>1. Eq(P - y, -y)
    <3>1. P - y = -y + 1 * P
      BY <1>5, PInt
    <3> QED
      BY <3>1 DEF Eq
  <2>2. Eq(P - y, z)
    BY <1>5, <1>6, <1>8, <2>1, EqTrans DEF y, z
  <2> QED
    BY <1>5, <1>8, <2>2, EqValue
<1>10. z % 2 = 1 - (y % 2)
  BY <1>5, <1>9, PInt, FieldAssumption
<1> QED
  BY <1>2, <1>6, <1>10 DEF p, q, y, z

\* The second x that an r may stand for is r + Order, where that is below P: what
\* ecdsa_sig_verify and ecdsa_sig_recover test against p - n.
LEMMA HighX ==
    ASSUME NEW r \in 0..Order-1
    PROVE  LET xr == FeSetB32(r).r
           IN  /\ r \in Values /\ r \in Int /\ Stands(xr, r, 2)
               /\ Stands(FeAdd(xr, ecdsa_const_order_as_fe), r + Order, 2)
               /\ FeCmpVar(xr, ecdsa_const_p_minus_order) < 0 <=> r + Order \in Values
               /\ FeCmpVar(xr, ecdsa_const_p_minus_order) >= 0 <=> r + Order \notin Values
<1> DEFINE xr == FeSetB32(r).r
<1>1. r \in Values /\ r \in Int
  BY OrderFacts, PInt, EcdsaAssumption DEF Values
<1>2. xr.n /\ xr.v = r /\ Stands(xr, r, 1) /\ Stands(xr, r, 2)
  BY <1>1, FromBytes
<1>3. P - Order \in Int /\ P - Order \in 0..P-1 /\ (P - Order) % P = P - Order
  <2>1. P - Order \in Int /\ P - Order \in 0..P-1
    BY SizeFacts
  <2>2. ASSUME NEW a \in 0..P-1 PROVE a % P = a
    BY SizeFacts
  <2> QED
    BY <2>1, <2>2
<1>4. ecdsa_const_p_minus_order.n /\ ecdsa_const_p_minus_order.v = P - Order
  BY <1>3 DEF ecdsa_const_p_minus_order, FeSetInt
<1>5. Stands(ecdsa_const_order_as_fe, Order, 1)
  BY OrderFacts, StandsSetInt DEF ecdsa_const_order_as_fe
<1> HIDE DEF xr
<1>6. Stands(FeAdd(xr, ecdsa_const_order_as_fe), r + Order, 2)
  <2>1. r + Order \in Int /\ 1 \in Nat /\ 2 \in Nat /\ 1 + 1 <= 2 /\ 2 <= 32
    BY <1>1, SizeFacts
  <2> QED
    BY <1>1, <1>2, <1>5, <2>1, SizeFacts, StandsAdd
<1>7. FeCmpVar(xr, ecdsa_const_p_minus_order)
        = IF r = P - Order THEN 0 ELSE IF r > P - Order THEN 1 ELSE -1
  BY <1>2, <1>4 DEF FeCmpVar
<1>8. r + Order \in Values <=> r < P - Order
  BY <1>1, OrderFacts, PInt DEF Values
<1>9. /\ FeCmpVar(xr, ecdsa_const_p_minus_order) < 0 <=> r < P - Order
      /\ FeCmpVar(xr, ecdsa_const_p_minus_order) >= 0 <=> ~(r < P - Order)
  BY <1>1, <1>3, <1>7
<1> QED
  BY <1>1, <1>2, <1>6, <1>8, <1>9 DEF xr

\* ecdsa_sig_verify compares the two candidates for x without reducing any, and accepts
\* exactly the points whose x is r modulo the order.
LEMMA HasXIs ==
    ASSUME NEW n \in 1..Order-1, NEW pr, GejIs(pr, Multiple[n]), ~pr.inf, NEW r \in 0..Order-1
    PROVE  HasX(pr, r) <=> Multiple[n][1] % Order = r
<1> DEFINE xr == FeSetB32(r).r
           xo == FeAdd(xr, ecdsa_const_order_as_fe)
           q == Multiple[n]
           x == q[1]
<1>1. /\ r \in Values /\ r \in Int /\ Stands(xr, r, 2) /\ Stands(xo, r + Order, 2)
      /\ FeCmpVar(xr, ecdsa_const_p_minus_order) < 0 <=> r + Order \in Values
  BY HighX
<1>2. q \in CurvePoints /\ x \in Values /\ x \in Int
  BY PointOfMultiple
<1>3. r + Order \in Int
  BY <1>1, OrderFacts
<1> HIDE DEF xr, xo, q, x
<1>4. Stands(xr, r, 8) /\ Stands(xo, r + Order, 8)
  BY <1>1, <1>3, EqRefl, StandsEq
<1>5. GejEqXVar(xr, pr) <=> r = x
  <2>1. GejEqXVar(xr, pr) <=> Eq(r, x)
    BY <1>1, <1>2, <1>4, GejEqXVarIs DEF q, x
  <2> QED
    BY <1>1, <1>2, <2>1, EqRefl, EqValue
<1>6. r + Order \in Values => (GejEqXVar(xo, pr) <=> r + Order = x)
  <2>1. GejEqXVar(xo, pr) <=> Eq(r + Order, x)
    BY <1>2, <1>3, <1>4, GejEqXVarIs DEF q, x
  <2> QED
    BY <1>2, <1>3, <2>1, EqRefl, EqValue
<1>7. HasX(pr, r) <=> r = x \/ (r + Order \in Values /\ r + Order = x)
  BY <1>1, <1>5, <1>6 DEF HasX, xr, xo
<1>8. x % Order = (IF x >= Order THEN x - Order ELSE x)
  BY <1>2, XReduced
<1>9. x % Order = r <=> r = x \/ (r + Order \in Values /\ r + Order = x)
  <2>1. r < Order /\ 0 <= r
    BY OrderFacts
  <2> QED
    BY <1>1, <1>2, <1>8, <2>1, OrderFacts
<1> QED
  BY <1>7, <1>9 DEF x, q
-----------------------------------------------------------------------------
\* A signature is valid if some nonce satisfies the equation and has that x.
LEMMA ValidIs ==
    ASSUME NEW sig, sig.r \in 0..Order-1, sig.s \in 0..Order-1, NEW k \in 0..Order-1, NEW m \in Int
    PROVE  Valid(sig, k, m) <=>
             /\ sig.r # 0 /\ sig.s # 0
             /\ \E n \in 1..Order-1 : /\ Signs(sig.r, sig.s, m, k, n)
                                      /\ Multiple[n][1] % Order = sig.r
<1> DEFINE r == sig.r
           s == sig.s
           j == NonceOf(r, s, m, k)
<1>1. CASE r = 0 \/ s = 0
  BY <1>1 DEF Valid
<1>2. CASE r # 0 /\ s # 0
  <2>1. r \in 1..Order-1 /\ s \in 1..Order-1 /\ r \in Int /\ s \in Int /\ k \in Int /\ ScInverse(s) \in Int
    BY <1>2, OrderFacts, ScalarInverse
  <2>2. (m + r * k) * ScInverse(s) \in Int
    BY <2>1
  <2>3. j \in 0..Order-1
    BY <2>2, EqNFacts DEF NonceOf
  <2>4. Valid(sig, k, m) <=> Multiple[j] # Infinity /\ Multiple[j][1] % Order = r
    BY <1>2 DEF Valid, NonceOf
  <2>5. ASSUME NEW n \in 0..Order-1 PROVE Signs(r, s, m, k, n) <=> j = n
    BY <2>1, SignatureEquation
  <2> HIDE DEF r, s, j
  <2>6. Multiple[j] # Infinity <=> j \in 1..Order-1
    BY <2>3, OrderFacts, Multiples
  <2>7. ASSUME NEW n \in 1..Order-1 PROVE n \in 0..Order-1
    BY OrderFacts
  <2>8. Valid(sig, k, m) <=> \E n \in 1..Order-1 : Signs(r, s, m, k, n) /\ Multiple[n][1] % Order = r
    BY <2>4, <2>5, <2>6, <2>7
  <2> QED
    BY <1>2, <2>8 DEF r, s
<1> QED
  BY <1>1, <1>2

\* ecdsa_sig_verify accepts exactly the valid signatures.
LEMMA VerifyIs ==
    ASSUME NEW sig, sig.r \in 0..Order-1, sig.s \in 0..Order-1, NEW k \in 1..Order-1, NEW m \in 0..Order-1
    PROVE  ecdsa_sig_verify(sig.r, sig.s, Stored(k), m) <=> Valid(sig, k, m)
<1> DEFINE r == sig.r
           s == sig.s
           w == ScInverse(s)
           e == ScMul(w, r) * k + ScMul(w, m)
           j == ((m + r * k) * w) % Order
<1>1. /\ r \in Int /\ s \in Int /\ m \in Int /\ w \in Int /\ k \in Int /\ k \in 0..Order-1
      /\ w * r \in Int /\ w * m \in Int /\ (w * r) * k \in Int
  BY OrderFacts, ScalarInverse
<1>2. /\ ScMul(w, r) = (w * r) % Order /\ ScMul(w, m) = (w * m) % Order
      /\ ScMul(w, r) \in Int /\ ScMul(w, m) \in Int
  <2> HIDE DEF w, r
  <2> QED
    BY <1>1, EqNFacts DEF ScMul
<1>3. e % Order = j /\ e \in Int
  <2> DEFINE a == w * r
             b == w * m
  <2>1. a \in Int /\ b \in Int /\ a % Order \in Int /\ b % Order \in Int
    BY <1>1, EqNFacts
  <2>2. e = (a % Order) * k + (b % Order)
    BY <1>2
  <2>3. (m + r * k) * w = a * k + b
    <3> HIDE DEF w, r
    <3> QED
      BY <1>1
  <2> HIDE DEF a, b
  <2>4. (a % Order) * k \in Int /\ a * k \in Int
    BY <1>1, <2>1
  <2>5. ((a % Order) * k + (b % Order)) % Order = ((a % Order) * k + b) % Order
    BY <2>1, <2>4, ModOfParts
  <2>6. ((a % Order) * k + b) % Order = ((((a % Order) * k) % Order) + b) % Order
    BY <2>1, <2>4, ModOfParts
  <2>7. ((a % Order) * k) % Order = (a * k) % Order
    BY <1>1, <2>1, ModOfParts
  <2>8. (((a * k) % Order) + b) % Order = (a * k + b) % Order
    BY <2>1, <2>4, ModOfParts
  <2>9. e \in Int
    BY <1>1, <2>1, <2>2
  <2> HIDE DEF e, j
  <2>10. e % Order = (a * k + b) % Order
    BY <2>2, <2>5, <2>6, <2>7, <2>8, Zenon
  <2>11. j = (a * k + b) % Order
    BY <2>3 DEF j
  <2> QED
    BY <2>9, <2>10, <2>11
<1>4. EcmultOf(GejSetGe(Stored(k)), ScMul(w, r), ScMul(w, m)) = GejSetGe(Stored(e))
  <2>1. k % Order = k
    BY <1>1, OrderFacts
  <2>2. GejIs(GejSetGe(Stored(k)), Multiple[k])
    BY <1>1, <2>1, StoredPoint
  <2> DEFINE u == ScMul(w, r)
             v == ScMul(w, m)
             q == GejSetGe(Stored(k))
  <2>3. u \in Int /\ v \in Int /\ GejIs(q, Multiple[k])
    BY <1>2, <2>2
  <2> HIDE DEF u, v, q
  <2>4. EcmultOf(q, u, v) = GejSetGe(Stored(u * k + v))
    BY <1>1, <2>3, EcmultIs
  <2> QED
    BY <2>4 DEF u, v, q
<1> DEFINE pr == GejSetGe(Stored(e))
<1>5. GejIs(pr, Multiple[j]) /\ (pr.inf <=> j = 0) /\ j \in 0..Order-1
  <2> HIDE DEF e, j
  <2>1. e % Order \in 0..Order-1
    BY <1>3, EqNFacts
  <2> QED
    BY <1>3, <2>1, StoredPoint
<1>6. ecdsa_sig_verify(r, s, Stored(k), m) <=> r # 0 /\ s # 0 /\ HasX(pr, r)
  BY <1>4 DEF ecdsa_sig_verify, ScIsZero, ScInverseVar
<1>7. Valid(sig, k, m) <=> r # 0 /\ s # 0 /\ Multiple[j] # Infinity /\ Multiple[j][1] % Order = r
  BY DEF Valid
<1> HIDE DEF e, pr, j, w
<1>8. CASE j = 0
  <2>1. ~HasX(pr, r)
    BY <1>5, <1>8 DEF HasX
  <2>2. Multiple[j] = Infinity
    BY <1>5, <1>8, Multiples
  <2> QED
    BY <1>6, <1>7, <2>1, <2>2
<1>9. CASE j # 0
  <2>1. j \in 1..Order-1
    BY <1>5, <1>9, OrderFacts
  <2>2. HasX(pr, r) <=> Multiple[j][1] % Order = r
    BY <1>5, <1>9, <2>1, HasXIs
  <2>3. Multiple[j] # Infinity
    BY <1>5, <1>9, Multiples
  <2> QED
    BY <1>6, <1>7, <2>2, <2>3
<1> QED
  BY <1>8, <1>9
-----------------------------------------------------------------------------
\* recid tells the point of the n-th multiple from the others with this r.
XOfRecid(r, recid) == IF recid >= 2 THEN r + Order ELSE r
Tells(r, recid, n) == /\ Multiple[n][1] = XOfRecid(r, recid)
                      /\ Multiple[n][2] % 2 = 1 <=> recid % 2 = 1

\* Whatever point ge_set_xo_var finds is a multiple of the generator.
LEMMA RootFound ==
    ASSUME NEW fx, NEW x \in Values, Stands(fx, x, 2), NEW odd \in BOOLEAN, GeSetXoVar(fx, odd).ok
    PROVE  \E n \in 1..Order-1 : Multiple[n][1] = x /\ (Multiple[n][2] % 2 = 1 <=> odd)
<1> DEFINE c == FeAdd(FeSetInt(CurveB), FeMul(fx, FeSqr(fx)))
           e == x * x * x + CurveB
           y == FeSqrt(c).r.v
<1>1. x \in Int /\ CurveB \in Int /\ e \in Int
  BY PInt, CurveAssumption DEF Values
<1>2. Stands(c, e, 8)
  <2>1. Stands(c, e, 2)
    BY <1>1, StandsCurve
  <2> HIDE DEF c, e
  <2> QED
    BY <1>1, <2>1, EqRefl, StandsEq
<1>3. FeSqrt(c).ok
  BY DEF GeSetXoVar, GeSetXquad
<1> HIDE DEF c, e
<1>4. y \in Values /\ Eq(y * y, e)
  BY <1>1, <1>2, <1>3, QuadIs DEF Fe
<1> HIDE DEF y
<1>5. y \in Int /\ y * y \in Int
  BY <1>4, PInt DEF Values
<1>6. (y * y) % P = e % P
  <2>1. (y * y) % P \in Values /\ e % P \in Values /\ Eq((y * y) % P, y * y) /\ Eq(e % P, e)
        /\ (y * y) % P \in Int /\ e % P \in Int
    BY <1>1, <1>5, ModValue
  <2>2. Eq((y * y) % P, e)
    BY <1>1, <1>4, <1>5, <2>1, EqTrans
  <2>3. Eq(e, e % P)
    BY <1>1, <2>1, EqSym
  <2>4. Eq((y * y) % P, e % P)
    BY <1>1, <2>1, <2>2, <2>3, EqTrans
  <2> QED
    BY <2>1, <2>4, EqValue
<1>7. PICK n \in 1..Order-1 : Multiple[n] = <<x, y>>
  BY <1>4, <1>6, EcdsaAssumption DEF e
<1>8. CASE Multiple[n][2] % 2 = 1 <=> odd
  BY <1>7, <1>8
<1>9. CASE ~(Multiple[n][2] % 2 = 1 <=> odd)
  <2>1. /\ Order - n \in 1..Order-1
        /\ Multiple[Order - n][1] = Multiple[n][1]
        /\ Multiple[Order - n][2] % 2 = 1 - (Multiple[n][2] % 2)
    BY OppositeOfMultiple
  <2>2. Multiple[n][2] % 2 = 0 \/ Multiple[n][2] % 2 = 1
    BY PointOfMultiple
  <2>3. Multiple[Order - n][2] % 2 = 1 <=> odd
    BY <1>9, <2>1, <2>2
  <2> QED
    BY <1>7, <2>1, <2>3
<1> QED
  BY <1>8, <1>9

\* ecdsa_sig_recover computes the key of the equation, and fails where that is infinity.
LEMMA RecoverIs ==
    ASSUME NEW r, NEW s, NEW m, NEW recid, NEW n,
           r \in 1..Order-1, s \in 1..Order-1, m \in 0..Order-1, recid \in 0..3,
           n \in 1..Order-1, Tells(r, recid, n)
    PROVE  LET k == SignerOf(r, s, m, n)
               q == ecdsa_sig_recover(r, s, m, recid)
           IN  /\ k \in 0..Order-1
               /\ q.ok <=> k # 0
               /\ k # 0 => pubkey_save(q.q) = KeyOf(k)
<1> DEFINE v == ScInverse(r)
           k == (v * (s * n - m)) % Order
           low == FeSetB32(r).r
           fx == IF recid >= 2 THEN FeAdd(low, ecdsa_const_order_as_fe) ELSE low
           odd == recid % 2 = 1
           x == GeSetXoVar(fx, odd)
           na == ScMul(v, s)
           ng == ScNegate(ScMul(v, m))
           e == na * n + ng
           Key(qj) == [ok |-> ~qj.inf, q |-> GeSetGejVar(qj)]
           q == ecdsa_sig_recover(r, s, m, recid)
<1>k. SignerOf(r, s, m, n) = k
  BY DEF SignerOf
<1>1. /\ r \in 0..Order-1 /\ r # 0 /\ s # 0 /\ r \in Int /\ s \in Int /\ m \in Int
      /\ v \in Int /\ v * s \in Int /\ v * m \in Int /\ s * n - m \in Int
  BY OrderFacts, ScalarInverse, PointOfMultiple
<1>2. /\ n \in 0..Order-1 /\ n \in Int /\ Multiple[n] \in GroupPoints /\ Multiple[n] \in CurvePoints
      /\ Multiple[n][1] \in Values /\ Multiple[n][1] \in Int /\ Multiple[n][2] \in Int
  BY PointOfMultiple
<1>3. /\ Stands(low, r, 2) /\ Stands(FeAdd(low, ecdsa_const_order_as_fe), r + Order, 2)
      /\ FeCmpVar(low, ecdsa_const_p_minus_order) >= 0 <=> r + Order \notin Values
  BY <1>1, HighX
<1>4. ~(recid >= 2 /\ FeCmpVar(low, ecdsa_const_p_minus_order) >= 0)
  BY <1>2, <1>3 DEF XOfRecid, Tells
<1>5. Stands(fx, Multiple[n][1], 2)
  BY <1>3 DEF XOfRecid, Tells
<1>6. x.ok /\ GeIs(x.r, Multiple[n])
  <2>1. odd = (Multiple[n][2] % 2 = 1)
    BY DEF Tells
  <2>2. LET y == GeSetXoVar(fx, Multiple[n][2] % 2 = 1) IN y.ok /\ GeIs(y.r, Multiple[n])
    <3> HIDE DEF fx
    <3> QED
      BY <1>2, <1>5, EqRefl, GeSetXoVarIs
  <2> QED
    BY <2>1, <2>2
<1>7. na \in Int /\ ng \in Int /\ na = (v * s) % Order /\ ng = (Order - ((v * m) % Order)) % Order
  <2> DEFINE a == v * s
             b == v * m
  <2> HIDE DEF v, a, b
  <2>1. na = a % Order /\ ng = (Order - (b % Order)) % Order
    BY DEF ScMul, ScNegate, a, b
  <2>2. a \in Int /\ b \in Int
    BY <1>1 DEF a, b
  <2>3. a % Order \in Int /\ b % Order \in Int
    BY <2>2, EqNFacts
  <2>4. Order - (b % Order) \in Int
    BY <2>3, OrderFacts
  <2>5. (Order - (b % Order)) % Order \in Int
    BY <2>4, EqNFacts
  <2> QED
    BY <2>1, <2>3, <2>5 DEF a, b
<1>8. e \in Int /\ e % Order = k
  <2> DEFINE a == v * s
             b == v * m
  <2>1. a \in Int /\ b \in Int /\ a * n \in Int
    BY <1>1, <1>2
  <2>2. v * (s * n - m) = a * n - b
    <3> HIDE DEF v
    <3> QED
      BY <1>1, <1>2
  <2> HIDE DEF a, b, na, ng, v
  <2>3. EqN(na, a) /\ EqN(ng, -b)
    <3>1. a % Order \in Int /\ EqN(a % Order, a) /\ b % Order \in Int /\ EqN(b % Order, b)
      BY <2>1, EqNFacts
    <3>2. Order - (b % Order) \in Int /\ -b \in Int /\ 0 \in Int /\ 0 - b = -b
      BY <2>1, <3>1, OrderFacts
    <3>3. EqN(ng, Order - (b % Order))
      BY <1>7, <3>2, EqNFacts DEF b
    <3>4. EqN(Order, 0)
      <4>1. Order = 0 + 1 * Order
        BY OrderFacts
      <4> QED
        BY <4>1 DEF EqN
    <3>5. EqN(Order - (b % Order), 0 - b)
      BY <2>1, <3>1, <3>2, <3>4, OrderFacts, EqNAdd
    <3>6. EqN(ng, -b)
      BY <1>7, <3>2, <3>3, <3>5, EqNTrans
    <3> QED
      BY <1>7, <3>1, <3>6 DEF a
  <2>4. EqN(n, n)
    BY <1>2, EqNFacts
  <2>5. EqN(na * n, a * n)
    BY <1>2, <1>7, <2>1, <2>3, <2>4, EqNMul
  <2>6. na * n \in Int /\ -b \in Int
    BY <1>2, <1>7, <2>1
  <2>7. EqN(na * n + ng, a * n + (-b))
    BY <1>7, <2>1, <2>3, <2>5, <2>6, EqNAdd
  <2>8. a * n + (-b) = a * n - b /\ a * n - b \in Int /\ na * n + ng \in Int
    BY <1>7, <2>1, <2>6
  <2>9. (na * n + ng) % Order = (a * n - b) % Order
    BY <2>7, <2>8, ModIsEqN
  <2> QED
    BY <2>2, <2>8, <2>9
<1>9. EcmultOf(GejSetGe(x.r), na, ng) = GejSetGe(Stored(e))
  <2> HIDE DEF na, ng, x
  <2>1. GejIs(GejSetGe(x.r), Multiple[n])
    BY <1>2, <1>6, GejSetGeIs
  <2> DEFINE g == GejSetGe(x.r)
  <2> HIDE DEF g
  <2>2. GejIs(g, Multiple[n])
    BY <2>1 DEF g
  <2>t. na \in Int /\ ng \in Int /\ n \in 0..Order-1
    BY <1>2, <1>7
  <2>3. EcmultOf(g, na, ng) = GejSetGe(Stored(na * n + ng))
    BY <2>t, <2>2, EcmultIs
  <2> QED
    BY <2>3 DEF g
<1>10. q = Key(EcmultOf(GejSetGe(x.r), na, ng))
  <2>1. ~ScIsZero(r) /\ ~ScIsZero(s)
    BY <1>1 DEF ScIsZero
  <2> QED
    BY <1>4, <1>6, <2>1 DEF ecdsa_sig_recover, ScInverseVar
<1>11. k \in 0..Order-1
  BY <1>8, EqNFacts
<1>12. GejSetGe(Stored(e)).inf <=> k = 0
  <2> HIDE DEF e, k
  <2> QED
    BY <1>8, StoredPoint
<1>13. k # 0 => pubkey_save(GeSetGejVar(GejSetGe(Stored(e)))) = KeyOf(k)
  <2> HIDE DEF e, k
  <2> QED
    BY <1>8, AffineIs
<1>14. q.ok = ~GejSetGe(Stored(e)).inf /\ q.q = GeSetGejVar(GejSetGe(Stored(e)))
  <2>1. q = Key(GejSetGe(Stored(e)))
    BY <1>9, <1>10
  <2> HIDE DEF q, e
  <2> QED
    BY <2>1
<1> HIDE DEF q, e, k
<1>15. /\ k \in 0..Order-1 /\ (q.ok <=> k # 0) /\ (k # 0 => pubkey_save(q.q) = KeyOf(k))
  BY <1>11, <1>12, <1>13, <1>14
<1> QED
  BY <1>k, <1>15 DEF q

\* ecdsa_sig_recover succeeds only where r and s are not 0 and recid names a point.
LEMMA RecoverNeedsPoint ==
    ASSUME NEW r \in 0..Order-1, NEW s, NEW m, NEW recid \in 0..3,
           ecdsa_sig_recover(r, s, m, recid).ok
    PROVE  /\ r # 0 /\ s # 0
           /\ \E n \in 1..Order-1 : Tells(r, recid, n)
<1> DEFINE low == FeSetB32(r).r
           fx == IF recid >= 2 THEN FeAdd(low, ecdsa_const_order_as_fe) ELSE low
           x == XOfRecid(r, recid)
           odd == recid % 2 = 1
<1>1. /\ r \in Values /\ r \in Int
      /\ Stands(low, r, 2) /\ Stands(FeAdd(low, ecdsa_const_order_as_fe), r + Order, 2)
      /\ FeCmpVar(low, ecdsa_const_p_minus_order) >= 0 <=> r + Order \notin Values
  BY HighX
<1>2. /\ r # 0 /\ s # 0 /\ ~(recid >= 2 /\ FeCmpVar(low, ecdsa_const_p_minus_order) >= 0)
      /\ GeSetXoVar(fx, odd).ok
  BY DEF ecdsa_sig_recover, ScIsZero
<1>3. x \in Values /\ Stands(fx, x, 2)
  BY <1>1, <1>2 DEF XOfRecid
<1>4. odd \in BOOLEAN
  OBVIOUS
<1> HIDE DEF fx, x, odd
<1>5. \E n \in 1..Order-1 : Multiple[n][1] = x /\ (Multiple[n][2] % 2 = 1 <=> odd)
  BY <1>2, <1>3, <1>4, RootFound
<1> QED
  BY <1>2, <1>5 DEF x, odd, Tells
-----------------------------------------------------------------------------
\* secp256k1_ecdsa_verify refuses a high s and accepts the other valid signatures.
LEMMA VerifiedIs ==
    ASSUME NEW sig, sig.r \in 0..Order-1, sig.s \in 0..Order-1, NEW k \in 1..Order-1, NEW msg \in Nat
    PROVE  ecdsa_verify(Both, sig, msg, KeyOf(k)).ret <=> ~ScIsHigh(sig.s) /\ Valid(sig, k, msg % Order)
<1>1. ScSetB32(msg).r = msg % Order /\ msg % Order \in 0..Order-1
  BY ScalarOf
<1>2. pubkey_load(KeyOf(k)).out = Stored(k) /\ pubkey_load(KeyOf(k)).illegal = FALSE
  BY KeyLoaded DEF Answer
<1>3. Both.verify = TRUE
  BY DEF Both, context_create
<1>4. ecdsa_sig_verify(sig.r, sig.s, Stored(k), msg % Order) <=> Valid(sig, k, msg % Order)
  BY <1>1, VerifyIs
<1> QED
  BY <1>1, <1>2, <1>3, <1>4 DEF ecdsa_verify, Answer

\* Validity does not depend on recid.
LEMMA PlainValid ==
    ASSUME NEW a, NEW b, a.r = b.r, a.s = b.s, NEW k, NEW m
    PROVE  Valid(a, k, m) <=> Valid(b, k, m)
  BY DEF Valid

\* The signer's key is recovered with the recid that tells the point of the nonce ...
LEMMA SignerFound ==
    ASSUME NEW r, NEW s, NEW m, NEW recid, NEW n, NEW k,
           r \in 1..Order-1, s \in 1..Order-1, m \in 0..Order-1, recid \in 0..3,
           n \in 1..Order-1, k \in 1..Order-1, Tells(r, recid, n), Signs(r, s, m, k, n)
    PROVE  /\ ecdsa_sig_recover(r, s, m, recid).ok
           /\ pubkey_save(ecdsa_sig_recover(r, s, m, recid).q) = KeyOf(k)
<1>1. m \in Int /\ n \in 0..Order-1 /\ k \in 0..Order-1 /\ k # 0
  BY OrderFacts
<1>2. SignerOf(r, s, m, n) = k
  BY <1>1, SignatureEquation
<1> QED
  BY <1>1, <1>2, RecoverIs

\* ... by secp256k1_ecdsa_recover too.
LEMMA RecoveredIs ==
    ASSUME NEW sig, NEW msg, NEW n, NEW k,
           sig.r \in 1..Order-1, sig.s \in 1..Order-1, sig.recid \in 0..3, msg \in Nat,
           n \in 1..Order-1, Tells(sig.r, sig.recid, n),
           k \in 1..Order-1, Signs(sig.r, sig.s, msg % Order, k, n)
    PROVE  ecdsa_recover(Both, sig, msg) = Answer(TRUE, KeyOf(k))
<1> DEFINE m == msg % Order
           q == ecdsa_sig_recover(sig.r, sig.s, m, sig.recid)
<1>1. ScSetB32(msg).r = m /\ m \in 0..Order-1
  BY ScalarOf
<1>2. q.ok /\ pubkey_save(q.q) = KeyOf(k)
  BY <1>1, SignerFound
<1>3. Both.verify = TRUE
  BY DEF Both, context_create
<1> QED
  BY <1>1, <1>2, <1>3 DEF ecdsa_recover

\* A key that is recovered is one of the equation ...
LEMMA SignerSigns ==
    ASSUME NEW r, NEW s, NEW m, NEW recid, NEW n,
           r \in 1..Order-1, s \in 1..Order-1, m \in 0..Order-1, recid \in 0..3,
           n \in 1..Order-1, Tells(r, recid, n), ecdsa_sig_recover(r, s, m, recid).ok
    PROVE  \E k \in 1..Order-1 : /\ pubkey_save(ecdsa_sig_recover(r, s, m, recid).q) = KeyOf(k)
                                 /\ Signs(r, s, m, k, n)
<1> DEFINE k == SignerOf(r, s, m, n)
<1>1. m \in Int /\ n \in 0..Order-1
  BY OrderFacts
<1>2. /\ k \in 0..Order-1 /\ k # 0
      /\ pubkey_save(ecdsa_sig_recover(r, s, m, recid).q) = KeyOf(k)
  BY RecoverIs
<1>3. k = SignerOf(r, s, m, n)
  OBVIOUS
<1> HIDE DEF k
<1>4. Signs(r, s, m, k, n) /\ k \in 1..Order-1
  BY <1>1, <1>2, <1>3, OrderFacts, SignatureEquation
<1> QED
  BY <1>2, <1>4

\* ... and the signature is valid for it.
LEMMA RecoveredValid ==
    ASSUME NEW sig, sig.r \in 0..Order-1, sig.s \in 0..Order-1, sig.recid \in 0..3, NEW msg \in Nat,
           ecdsa_recover(Both, sig, msg).ret
    PROVE  \E k \in 1..Order-1 : /\ ecdsa_recover(Both, sig, msg).out = KeyOf(k)
                                 /\ Valid(sig, k, msg % Order)
<1> DEFINE m == msg % Order
           r == sig.r
           s == sig.s
           recid == sig.recid
           q == ecdsa_sig_recover(r, s, m, recid)
<1>1. ScSetB32(msg).r = m /\ m \in 0..Order-1 /\ m \in Int
  BY ScalarOf, OrderFacts
<1>2. Both.verify = TRUE
  BY DEF Both, context_create
<1>3. q.ok /\ ecdsa_recover(Both, sig, msg) = Answer(TRUE, pubkey_save(q.q))
  <2> HIDE DEF q
  <2>1. ecdsa_recover(Both, sig, msg)
          = IF q.ok THEN Answer(TRUE, pubkey_save(q.q)) ELSE Answer(FALSE, NoPubkey)
    BY <1>1, <1>2 DEF ecdsa_recover, q
  <2>2. q.ok
    BY <2>1 DEF Answer
  <2> QED
    BY <2>1, <2>2
<1> HIDE DEF m
<1>4. r # 0 /\ s # 0 /\ \E n \in 1..Order-1 : Tells(r, recid, n)
  BY <1>3, RecoverNeedsPoint
<1>5. PICK n \in 1..Order-1 : Tells(r, recid, n)
  BY <1>4
<1>6. r \in 1..Order-1 /\ s \in 1..Order-1 /\ r \in Int /\ recid \in 0..3
  BY <1>4, OrderFacts
<1>7. PICK k \in 1..Order-1 : pubkey_save(q.q) = KeyOf(k) /\ Signs(r, s, m, k, n)
  <2> HIDE DEF r, s, recid
  <2> QED
    BY <1>1, <1>3, <1>5, <1>6, SignerSigns
<1>8. Multiple[n][1] % Order = r
  <2> DEFINE x == Multiple[n][1]
  <2>1. x \in Values /\ (x = r \/ x = r + Order)
    BY <1>5, PointOfMultiple DEF XOfRecid, Tells
  <2> HIDE DEF x, r
  <2>2. x % Order = (IF x >= Order THEN x - Order ELSE x)
    BY <2>1, XReduced
  <2>3. x % Order = r
    BY <1>6, <2>1, <2>2, SizeFacts
  <2> QED
    BY <2>3 DEF x
<1>9. k \in 0..Order-1
  BY OrderFacts
<1> HIDE DEF q
<1>10. Valid(sig, k, m)
  BY <1>1, <1>4, <1>7, <1>8, <1>9, ValidIs
<1>11. ecdsa_recover(Both, sig, msg).out = KeyOf(k)
  BY <1>3, <1>7, AnswerTrue
<1> QED
  BY <1>10, <1>11 DEF m

\* What is lost of the point of a nonce when its x is reduced and its y is dropped.
RecidOf(n) == (IF Multiple[n][1] >= Order THEN 2 ELSE 0) + (Multiple[n][2] % 2)

\* recid keeps it, and the opposite nonce has the recid with the other parity.
LEMMA RecidIs ==
    ASSUME NEW n \in 1..Order-1
    PROVE  /\ RecidOf(n) \in 0..3
           /\ Tells(Multiple[n][1] % Order, RecidOf(n), n)
           /\ RecidOf(Order - n) = RecidOf(n) + 1 - 2 * (RecidOf(n) % 2)
<1> DEFINE x == Multiple[n][1]
           y == Multiple[n][2]
           z == Multiple[Order - n][2]
           high == IF x >= Order THEN 2 ELSE 0
<1>1. x \in Values /\ x \in Int /\ y \in Int
  BY PointOfMultiple
<1>2. Multiple[Order - n][1] = x /\ z % 2 = 1 - (y % 2)
  BY OppositeOfMultiple
<1>3. RecidOf(n) = high + (y % 2) /\ RecidOf(Order - n) = high + (z % 2)
  BY <1>2 DEF RecidOf
<1> HIDE DEF x, y, z
<1>4. y % 2 = 0 \/ y % 2 = 1
  BY <1>1
<1>5. x % Order = (IF x >= Order THEN x - Order ELSE x)
  BY <1>1, XReduced
<1>6. x = XOfRecid(x % Order, RecidOf(n))
  BY <1>1, <1>3, <1>4, <1>5, SizeFacts DEF XOfRecid
<1>7. RecidOf(n) \in 0..3 /\ (y % 2 = 1 <=> RecidOf(n) % 2 = 1)
  BY <1>3, <1>4
<1>8. RecidOf(Order - n) = RecidOf(n) + 1 - 2 * (RecidOf(n) % 2)
  BY <1>2, <1>3, <1>4
<1> QED
  BY <1>6, <1>7, <1>8 DEF x, y, Tells
-----------------------------------------------------------------------------
\* The recid that goes with the negated s.
Flipped(recid) == recid + 1 - 2 * (recid % 2)

\* The negated s satisfies the equation with the opposite nonce.
LEMMA NegatedSigns ==
    ASSUME NEW r, NEW s, NEW m, NEW k, NEW n,
           r \in 1..Order-1, s \in 1..Order-1, m \in Int, k \in 1..Order-1, n \in 1..Order-1,
           Signs(r, s, m, k, n)
    PROVE  /\ ScNegate(s) \in 1..Order-1
           /\ \E j \in 1..Order-1 :
                /\ Signs(r, ScNegate(s), m, k, j)
                /\ Multiple[j][1] = Multiple[n][1]
                /\ RecidOf(j) = Flipped(RecidOf(n))
<1>1. /\ Order - s \in 1..Order-1 /\ Order - s \in 0..Order-1 /\ Order - n \in 1..Order-1
      /\ r \in Int /\ s \in Int /\ k \in Int /\ n \in Int /\ Order \in Int
  BY OrderFacts
<1>2. ScNegate(s) = Order - s
  BY <1>1, OrderFacts DEF ScNegate
<1>3. ASSUME EqN(s * n, m + r * k) PROVE EqN((Order - s) * (Order - n), m + r * k)
  <2> DEFINE e == m + r * k
  <2>1. s * n \in Int /\ e \in Int /\ (Order - s) * (Order - n) \in Int /\ Order - s - n \in Int
    BY <1>1
  <2>2. (Order - s) * (Order - n) = s * n + (Order - s - n) * Order
    BY <1>1
  <2>3. EqN((Order - s) * (Order - n), s * n)
    BY <2>1, <2>2 DEF EqN
  <2>4. EqN(s * n, e)
    BY <1>3
  <2> HIDE DEF e
  <2>5. EqN((Order - s) * (Order - n), e)
    BY <2>1, <2>3, <2>4, EqNTrans
  <2> QED
    BY <2>5 DEF e
<1>4. Signs(r, s, m, k, n) => Signs(r, ScNegate(s), m, k, Order - n)
  BY <1>2, <1>3, Zenon DEF Signs
<1>5. Multiple[Order - n][1] = Multiple[n][1] /\ RecidOf(Order - n) = Flipped(RecidOf(n))
  BY OppositeOfMultiple, RecidIs DEF Flipped
<1> QED
  BY <1>1, <1>2, <1>4, <1>5, Zenon

\* ecdsa_sig_sign takes r and recid from the point of the nonce.
LEMMA NoncePointIs ==
    ASSUME NEW n \in 1..Order-1
    PROVE  /\ NoncePoint(GeSetGej(EcmultGenOf(n))).sigr = Multiple[n][1] % Order
           /\ NoncePoint(GeSetGej(EcmultGenOf(n))).recid = RecidOf(n)
<1> DEFINE b == GeSetGej(GejSetGe(Stored(n)))
           x == Multiple[n][1]
           y == Multiple[n][2]
<1>1. /\ n \in Int /\ n % Order = n /\ n % Order # 0 /\ Multiple[n] # Infinity
      /\ x \in Values /\ y \in Values /\ x \in Int
  BY PointOfMultiple
<1>2. GeIs(b, Multiple[n])
  <2>1. GeIs(b, Multiple[n % Order])
    <3> HIDE DEF b
    <3> QED
      BY <1>1, AffineIs DEF b
  <2> QED
    BY <1>1, <2>1
<1>3. Stands(b.x, x, 2) /\ Stands(b.y, y, 2)
  BY <1>1, <1>2 DEF GeIs
<1> HIDE DEF b, x, y
<1>4. FeGetB32(FeNormalize(b.x)) = x /\ Odd(FeNormalize(b.y)) = y % 2
  BY <1>1, <1>3, BytesOf
<1>5. x \in Nat
  BY <1>1, PInt DEF Values
<1>6. ScSetB32(x).r = x % Order /\ (ScSetB32(x).overflow <=> x >= Order)
  BY <1>5, ScalarOf
<1>7. NoncePoint(b).sigr = x % Order /\ NoncePoint(b).recid = (IF x >= Order THEN 2 ELSE 0) + (y % 2)
  BY <1>4, <1>6 DEF NoncePoint
<1> QED
  BY <1>7 DEF EcmultGenOf, RecidOf, b, x, y

\* sig is a signature of m for the key k, with its recid or none.
Genuine(sig, k, m) ==
    \E n \in 1..Order-1 : /\ Signs(sig.r, sig.s, m, k, n)
                          /\ sig.r = Multiple[n][1] % Order
                          /\ sig.recid \in {-1, RecidOf(n)}

\* ecdsa_sig_sign makes a signature of the key, with a low s and the recid that goes
\* with it.
LEMMA SignIs ==
    ASSUME NEW k \in 1..Order-1, NEW m \in 0..Order-1, NEW n \in 1..Order-1, Multiple[n][1] # Order,
           ecdsa_sig_sign(k, m, n).ok
    PROVE  LET sig == ecdsa_sig_sign(k, m, n)
           IN  sig.r \in 1..Order-1 /\ sig.s \in 1..Order-1 /\ Genuine(sig, k, m)
<1> DEFINE p == NoncePoint(GeSetGej(EcmultGenOf(n)))
           r == p.sigr
           w == ScInverse(n)
           s == ScMul(w, ScAdd(ScMul(r, k), m))
           sig == ecdsa_sig_sign(k, m, n)
           x == Multiple[n][1]
<1>1. r = x % Order /\ p.recid = RecidOf(n)
  BY NoncePointIs
<1>2. /\ n \in Int /\ n \in 0..Order-1 /\ n # 0 /\ k \in Int /\ m \in Int
      /\ x \in Values /\ x \in Int /\ x # 0 /\ x # Order
  BY OrderFacts, PointOfMultiple, NoZeroX
<1>3. r \in 1..Order-1 /\ r \in Int
  <2>1. x % Order = (IF x >= Order THEN x - Order ELSE x) /\ x % Order \in 0..Order-1
    <3> HIDE DEF x
    <3> QED
      BY <1>2, XReduced, EqNFacts
  <2>2. x % Order # 0
    <3> HIDE DEF x
    <3> QED
      BY <1>2, <2>1, SizeFacts
  <2> HIDE DEF x
  <2> QED
    BY <1>1, <2>1, <2>2, OrderFacts
<1>4. w \in Int /\ EqN(w * n, 1)
  BY <1>2, ScalarInverse
<1>5. s \in 0..Order-1 /\ EqN(s, w * (r * k + m))
  <2> HIDE DEF w, r
  <2> DEFINE a == r * k
  <2>1. a \in Int /\ a % Order \in Int /\ (a % Order) + m \in Int /\ a + m \in Int
    BY <1>2, <1>3, EqNFacts
  <2> DEFINE b == (a % Order) + m
  <2>2. ScAdd(ScMul(r, k), m) = b % Order
    BY DEF ScAdd, ScMul
  <2> HIDE DEF a
  <2>3. b % Order = (a + m) % Order
    BY <1>2, <2>1, ModOfParts
  <2> HIDE DEF b
  <2> DEFINE c == a + m
             d == c % Order
  <2>4. c \in Int /\ d \in Int
    BY <2>1, EqNFacts
  <2>5. s = (w * d) % Order
    BY <2>2, <2>3, Zenon DEF ScMul
  <2> HIDE DEF c, s
  <2>6. (w * d) % Order = (w * c) % Order /\ w * c \in Int /\ (w * c) % Order \in 0..Order-1
    <3>1. w * c \in Int
      BY <1>4, <2>4
    <3>2. (w * (c % Order)) % Order = (w * c) % Order
      BY <1>4, <2>4, ModOfParts
    <3> DEFINE f == w * c
    <3> HIDE DEF f
    <3>3. f % Order \in 0..Order-1
      BY <3>1, EqNFacts DEF f
    <3> QED
      BY <3>1, <3>2, <3>3 DEF f
  <2>7. s = (w * c) % Order
    BY <2>5, <2>6
  <2>8. EqN(s, w * c)
    BY <2>6, <2>7, EqNFacts
  <2> QED
    BY <2>6, <2>7, <2>8 DEF c, a
<1>6. s # 0
  BY DEF ecdsa_sig_sign, LowS, ScIsZero
<1>7. sig.r = r /\ sig.s = ScCondNegate(s, ScIsHigh(s))
      /\ sig.recid = IF ScIsHigh(s) THEN Flipped(RecidOf(n)) ELSE RecidOf(n)
  BY <1>1 DEF ecdsa_sig_sign, LowS, Flipped
<1> HIDE DEF s, sig, w, r, p, x
<1>8. s \in 1..Order-1 /\ s \in Int
  BY <1>5, <1>6, OrderFacts
<1>9. Signs(r, s, m, k, n)
  <2> DEFINE e == r * k + m
  <2>1. e \in Int /\ w * e \in Int /\ (w * e) * n \in Int /\ w * n \in Int /\ (w * n) * e \in Int
    BY <1>2, <1>3, <1>4
  <2>2. e = m + r * k
    BY <1>2, <1>3
  <2> HIDE DEF e
  <2>3. EqN(n, n) /\ EqN(e, e)
    BY <1>2, <2>1, EqNFacts
  <2>4. EqN(s * n, (w * e) * n)
    BY <1>2, <1>5, <1>8, <2>1, <2>3, EqNMul DEF e
  <2>5. EqN((w * n) * e, 1 * e)
    BY <1>4, <2>1, <2>3, EqNMul
  <2>6. (w * n) * e = (w * e) * n /\ 1 * e = e /\ s * n \in Int
    BY <1>2, <1>4, <1>8, <2>1
  <2>7. EqN(s * n, e)
    BY <2>1, <2>4, <2>5, <2>6, EqNTrans
  <2> QED
    BY <2>2, <2>7, Zenon DEF Signs
<1>10. CASE ~ScIsHigh(s)
  <2>1. sig.s = s /\ sig.recid = RecidOf(n) /\ sig.r = r
    BY <1>7, <1>10 DEF ScCondNegate
  <2>2. Genuine(sig, k, m)
    BY <1>1, <1>9, <2>1 DEF Genuine, x
  <2> QED
    BY <1>3, <1>8, <2>1, <2>2 DEF sig
<1>11. CASE ScIsHigh(s)
  <2>1. sig.s = ScNegate(s) /\ sig.recid = Flipped(RecidOf(n)) /\ sig.r = r
    BY <1>7, <1>11 DEF ScCondNegate
  <2>2. r \in 1..Order-1 /\ s \in 1..Order-1 /\ m \in Int /\ Signs(r, s, m, k, n)
    BY <1>2, <1>3, <1>8, <1>9
  <2>3. ScNegate(s) \in 1..Order-1
    BY <2>2, NegatedSigns
  <2>4. PICK j \in 1..Order-1 : /\ Signs(r, ScNegate(s), m, k, j)
                               /\ Multiple[j][1] = Multiple[n][1]
                               /\ RecidOf(j) = Flipped(RecidOf(n))
    BY <2>2, NegatedSigns
  <2>5. Genuine(sig, k, m)
    BY <1>1, <2>1, <2>4 DEF Genuine, x
  <2> QED
    BY <1>3, <2>1, <2>3, <2>5 DEF sig
<1> QED
  BY <1>10, <1>11
-----------------------------------------------------------------------------
\* The signatures that calls pass on.
SignatureTypes == [r: 0..Order-1, s: 0..Order-1, recid: -1..3]

\* The types of the signing state, as far as the proof needs them.
SignTypes ==
    /\ asig \in SignatureTypes
    /\ signing \in [on: BOOLEAN, recoverable: BOOLEAN, msg: Nat, count: Nat]
    /\ signing.on => seck \in 1..Order-1

\* The inductive invariant: as long as a signature was made by the wallet, some nonce
\* satisfies its equation, and its recid, if it still has one, is that nonce's.  That the
\* key is recovered follows from it; it is not itself kept by the alterations.
SignInv ==
    /\ KeysInv /\ SignTypes
    /\ made # NotMade => /\ made.key \in 1..Order-1 /\ made.msg \in Nat
                         /\ asig.r # 0 /\ asig.s # 0
                         /\ Genuine(asig, made.key, made.msg % Order)

\* Nothing is signed in the beginning.
LEMMA SignInvInit == ApiInit => SignInv
<1> SUFFICES ASSUME ApiInit PROVE SignInv
  OBVIOUS
<1>1. KeysInv
  BY KeysInvInit
<1>2. asig = Nothing /\ signing = NotSigning /\ made = NotMade
  BY DEF ApiInit
<1>3. Nothing \in SignatureTypes
  BY OrderFacts DEF Nothing, SignatureTypes
<1> QED
  BY <1>1, <1>2, <1>3 DEF SignInv, SignTypes, NotSigning

\* A step that leaves the signature as it is.
LEMMA SignSame ==
    ASSUME SignInv, KeysInv', UNCHANGED <<signing, asig, made>>, signing.on => seck' = seck
    PROVE  SignInv'
  BY DEF SignInv, SignTypes

\* A signature with s negated and recid flipped is still one of the key.
LEMMA NegationGenuine ==
    ASSUME NEW sig \in SignatureTypes, sig.r # 0, sig.s # 0,
           NEW k \in 1..Order-1, NEW m \in Int, Genuine(sig, k, m),
           NEW t, t.r = sig.r, t.s = ScNegate(sig.s),
           t.recid \in {-1, IF sig.recid < 0 THEN -1 ELSE Flipped(sig.recid)}
    PROVE  t.s \in 1..Order-1 /\ t.recid \in -1..3 /\ Genuine(t, k, m)
<1>1. sig.r \in 1..Order-1 /\ sig.s \in 1..Order-1 /\ sig.recid \in -1..3
  BY OrderFacts DEF SignatureTypes
<1>2. PICK n \in 1..Order-1 : /\ Signs(sig.r, sig.s, m, k, n)
                              /\ sig.r = Multiple[n][1] % Order
                              /\ sig.recid \in {-1, RecidOf(n)}
  BY DEF Genuine
<1>3. ScNegate(sig.s) \in 1..Order-1
  BY <1>1, <1>2, NegatedSigns
<1>4. PICK j \in 1..Order-1 : /\ Signs(sig.r, ScNegate(sig.s), m, k, j)
                              /\ Multiple[j][1] = Multiple[n][1]
                              /\ RecidOf(j) = Flipped(RecidOf(n))
  BY <1>1, <1>2, NegatedSigns
<1>5. t.recid \in {-1, RecidOf(j)} /\ RecidOf(j) \in 0..3
  <2>1. RecidOf(n) \in 0..3 /\ RecidOf(j) \in 0..3
    BY RecidIs
  <2>2. sig.recid < 0 \/ sig.recid = RecidOf(n)
    BY <1>2
  <2> QED
    BY <1>4, <2>1, <2>2
<1>6. Genuine(t, k, m)
  BY <1>2, <1>4, <1>5 DEF Genuine
<1> QED
  BY <1>3, <1>5, <1>6

\* So is one that has lost its recid.
LEMMA ForgottenRecid ==
    ASSUME NEW sig, NEW k, NEW m, Genuine(sig, k, m), NEW t, t.r = sig.r, t.s = sig.s, t.recid = -1
    PROVE  Genuine(t, k, m)
  BY DEF Genuine

\* An alteration keeps the invariant if what it leaves is a signature of the key.
LEMMA AlteredKeeps ==
    ASSUME SignInv, KeysInv', made # NotMade, UNCHANGED <<seck, signing, made>>,
           asig' \in [r: {asig.r}, s: 1..Order-1, recid: -1..3],
           Genuine(asig', made.key, made.msg % Order)
    PROVE  SignInv'
<1>1. /\ made.key \in 1..Order-1 /\ made.msg \in Nat /\ asig.r # 0 /\ asig.r \in 0..Order-1
      /\ (signing.on => seck \in 1..Order-1)
      /\ signing \in [on: BOOLEAN, recoverable: BOOLEAN, msg: Nat, count: Nat]
  BY DEF SignInv, SignTypes, SignatureTypes
<1>2. asig'.r = asig.r /\ asig'.s \in 0..Order-1 /\ asig'.s # 0 /\ asig'.recid \in -1..3
  BY OrderFacts
<1>3. asig' \in SignatureTypes
  BY <1>1, <1>2 DEF SignatureTypes
<1> QED
  BY <1>1, <1>2, <1>3 DEF SignInv, SignTypes

\* Replacing s on the way keeps it ...
LEMMA MalleateKeeps ==
    ASSUME SignInv, KeysInv', Malleate
    PROVE  SignInv'
<1>1. /\ made # NotMade /\ UNCHANGED <<seck, signing, made>>
      /\ asig' = [asig EXCEPT !.s = ScNegate(@),
                              !.recid = IF @ < 0 THEN @ ELSE @ + 1 - 2 * (@ % 2)]
  BY DEF Malleate, Altered
<1>2. /\ asig \in SignatureTypes /\ asig.r # 0 /\ asig.s # 0 /\ made.key \in 1..Order-1
      /\ made.msg \in Nat /\ Genuine(asig, made.key, made.msg % Order) /\ asig.recid \in -1..3
  BY <1>1 DEF SignInv, SignTypes, SignatureTypes
<1>3. asig' = [r |-> asig.r, s |-> ScNegate(asig.s),
               recid |-> IF asig.recid < 0 THEN asig.recid ELSE Flipped(asig.recid)]
  BY <1>1, <1>2 DEF SignatureTypes, Flipped
<1>4. /\ asig'.r = asig.r /\ asig'.s = ScNegate(asig.s)
      /\ asig'.recid = IF asig.recid < 0 THEN asig.recid ELSE Flipped(asig.recid)
  BY <1>3
<1>5. asig.recid < 0 => asig.recid = -1
  BY <1>2
<1>6. made.msg % Order \in Int
  BY <1>2, ScalarOf
<1>7. asig'.s \in 1..Order-1 /\ asig'.recid \in -1..3 /\ Genuine(asig', made.key, made.msg % Order)
  BY <1>2, <1>4, <1>5, <1>6, NegationGenuine
<1>8. asig' \in [r: {asig.r}, s: 1..Order-1, recid: -1..3]
  BY <1>3, <1>7
<1> QED
  BY <1>1, <1>7, <1>8, AlteredKeeps

\* ... and so does ecdsa_signature_normalize.
LEMMA NormalizeKeeps ==
    ASSUME SignInv, KeysInv', NormalizeSignature
    PROVE  SignInv'
<1>1. /\ made # NotMade /\ UNCHANGED <<seck, signing, made>>
      /\ LET sig == ecdsa_signature_normalize(IF asig.recid < 0 THEN PlainOf(asig)
                                              ELSE ecdsa_recoverable_signature_convert(asig)).out
         IN  asig' = [r |-> sig.r, s |-> sig.s, recid |-> -1]
  BY DEF NormalizeSignature, Altered
<1>2. /\ asig \in SignatureTypes /\ asig.r # 0 /\ asig.s # 0 /\ made.key \in 1..Order-1
      /\ made.msg \in Nat /\ Genuine(asig, made.key, made.msg % Order) /\ asig.s \in 1..Order-1
  BY <1>1, OrderFacts DEF SignInv, SignTypes, SignatureTypes
<1>3. asig' = [r |-> asig.r, s |-> ScCondNegate(asig.s, ScIsHigh(asig.s)), recid |-> -1]
  BY <1>1 DEF ecdsa_signature_normalize, Answer, PlainOf, ecdsa_recoverable_signature_convert
<1>4. asig'.r = asig.r /\ asig'.recid = -1 /\ asig'.s = ScCondNegate(asig.s, ScIsHigh(asig.s))
  BY <1>3
<1>5. made.msg % Order \in Int
  BY <1>2, ScalarOf
<1>6. asig'.s \in 1..Order-1 /\ Genuine(asig', made.key, made.msg % Order)
  <2>1. CASE ScIsHigh(asig.s)
    <3>1. asig'.s = ScNegate(asig.s)
      BY <1>4, <2>1 DEF ScCondNegate
    <3> QED
      BY <1>2, <1>4, <1>5, <3>1, NegationGenuine
  <2>2. CASE ~ScIsHigh(asig.s)
    <3>1. asig'.s = asig.s
      BY <1>4, <2>2 DEF ScCondNegate
    <3> QED
      BY <1>2, <1>4, <3>1, ForgottenRecid
  <2> QED
    BY <2>1, <2>2
<1>7. asig' \in [r: {asig.r}, s: 1..Order-1, recid: -1..3]
  BY <1>3, <1>4, <1>6
<1> QED
  BY <1>1, <1>6, <1>7, AlteredKeeps

\* One round of the signing loop stores a signature of the key or tries again.
LEMMA TryNonceKeeps ==
    ASSUME SignInv, KeysInv', NEW nonce \in Nonces, TryNonce(nonce)
    PROVE  SignInv'
<1> DEFINE k == seck
           m == signing.msg % Order
           sig == ecdsa_sig_sign(k, m, nonce)
<1>1. signing.on /\ seck' = seck /\ k \in 1..Order-1 /\ signing.msg \in Nat /\ nonce \in Nat
      /\ signing \in [on: BOOLEAN, recoverable: BOOLEAN, msg: Nat, count: Nat]
  BY ApiAssumption DEF TryNonce, SignInv, SignTypes
<1>2. /\ ScSetB32(seck).r = k /\ ScSetB32(signing.msg).r = m /\ m \in 0..Order-1
      /\ (ValidScalar(ScSetB32(nonce)) => nonce \in 1..Order-1 /\ ScSetB32(nonce).r = nonce)
  <2>1. k \in Nat /\ k \in 0..Order-1 /\ (nonce \in 1..Order-1 => nonce \in 0..Order-1)
    BY <1>1, OrderFacts
  <2> QED
    BY <1>1, <2>1, ScalarOf
<1>3. CASE ValidScalar(ScSetB32(nonce)) /\ ecdsa_sig_sign(k, m, ScSetB32(nonce).r).ok
  <2>1. nonce \in 1..Order-1 /\ sig.ok /\ Multiple[nonce][1] # Order
    BY <1>2, <1>3, ApiAssumption
  <2>2. /\ asig' = [r |-> sig.r, s |-> sig.s, recid |-> IF signing.recoverable THEN sig.recid ELSE -1]
        /\ made' = [key |-> seck, msg |-> signing.msg] /\ signing' = NotSigning
    BY <1>2, <1>3 DEF TryNonce
  <2> HIDE DEF m
  <2>3. sig.r \in 1..Order-1 /\ sig.s \in 1..Order-1 /\ Genuine(sig, k, m)
    BY <1>1, <1>2, <2>1, SignIs
  <2> HIDE DEF sig, k
  <2>4. PICK n \in 1..Order-1 : /\ Signs(sig.r, sig.s, m, k, n)
                                /\ sig.r = Multiple[n][1] % Order
                                /\ sig.recid \in {-1, RecidOf(n)}
    BY <2>3 DEF Genuine
  <2>5. asig'.r = sig.r /\ asig'.s = sig.s /\ asig'.recid \in {-1, RecidOf(n)} /\ RecidOf(n) \in 0..3
    BY <2>2, <2>4, RecidIs
  <2>6. Genuine(asig', k, m)
    BY <2>4, <2>5 DEF Genuine
  <2>7. sig.r \in 0..Order-1 /\ sig.s \in 0..Order-1 /\ sig.r # 0 /\ sig.s # 0
    BY <2>3, OrderFacts
  <2>8. asig' \in SignatureTypes
    <3>1. asig'.recid \in -1..3
      BY <2>5
    <3> QED
      BY <2>2, <2>7, <3>1 DEF SignatureTypes
  <2>9. made'.key = k /\ made'.msg = signing.msg
    BY <2>2 DEF k
  <2> QED
    BY <1>1, <2>2, <2>5, <2>6, <2>7, <2>8, <2>9 DEF SignInv, SignTypes, NotSigning, m
<1>4. CASE ~(ValidScalar(ScSetB32(nonce)) /\ ecdsa_sig_sign(k, m, ScSetB32(nonce).r).ok)
  <2> HIDE DEF sig
  <2>1. UNCHANGED <<asig, made>> /\ signing' = [signing EXCEPT !.count = @ + 1]
    BY <1>2, <1>4 DEF TryNonce
  <2>2. signing' \in [on: BOOLEAN, recoverable: BOOLEAN, msg: Nat, count: Nat]
    BY <1>1, <2>1
  <2> QED
    BY <1>1, <2>1, <2>2 DEF SignInv, SignTypes
<1> QED
  BY <1>3, <1>4

\* A signature from outside is not taken for one that was made.
LEMMA ReceiveKeeps ==
    ASSUME SignInv, KeysInv', NEW r \in SignatureNumbers, NEW s \in SignatureNumbers, NEW recid \in 0..3,
           ReceiveSignature(r, s, recid)
    PROVE  SignInv'
<1> DEFINE sig == ecdsa_recoverable_signature_parse_compact([r |-> r, s |-> s], recid)
<1>1. sig.ret /\ asig' = sig.out /\ asig = Nothing /\ UNCHANGED <<seck, signing, made>>
  BY DEF ReceiveSignature, Altered
<1>2. r \in Nat /\ s \in Nat
  BY ApiAssumption
<1>3. sig.out = [r |-> r % Order, s |-> s % Order, recid |-> recid]
  <2>1. ScSetB32(r).r = r % Order /\ ScSetB32(s).r = s % Order
    BY <1>2, ScalarOf
  <2> QED
    BY <1>1, <2>1 DEF ecdsa_recoverable_signature_parse_compact, ecdsa_signature_parse_compact, Answer
<1>4. r % Order \in 0..Order-1 /\ s % Order \in 0..Order-1
  BY <1>2, EqNFacts
<1>5. asig' \in SignatureTypes
  <2> HIDE DEF sig
  <2> QED
    BY <1>1, <1>3, <1>4 DEF SignatureTypes
<1>6. made = NotMade
  BY <1>1 DEF SignInv, Nothing
<1> QED
  BY <1>1, <1>5, <1>6 DEF SignInv, SignTypes

\* Every call keeps signatures what they were made as.
LEMMA SignInvNext == SignInv /\ [ApiNext]_apiVars => SignInv'
<1> SUFFICES ASSUME SignInv, [ApiNext]_apiVars PROVE SignInv'
  OBVIOUS
<1>k. KeysInv'
  BY KeysInvNext DEF SignInv
<1>t. signing.on \in BOOLEAN
  BY DEF SignInv, SignTypes
<1>1. CASE \E k \in Seckeys : CreateKey(k)
  BY <1>1, <1>k, SignSame DEF CreateKey, Running
<1>2. CASE Randomize
  BY <1>2, <1>k, SignSame DEF Randomize, Running
<1>3. CASE \E t \in Tweaks :
             \/ \E how \in {"add", "mul"} : TweakSecret(how, t) \/ TweakPublic(how, t)
             \/ Combine(t) \/ ScalarMul(t)
  <2>1. PICK t \in Tweaks :
             \/ \E how \in {"add", "mul"} : TweakSecret(how, t) \/ TweakPublic(how, t)
             \/ Combine(t) \/ ScalarMul(t)
    BY <1>3
  <2>2. UNCHANGED <<signing, asig, made>> /\ ~signing.on
    BY <2>1 DEF TweakSecret, TweakPublic, Combine, ScalarMul, Follows, BecomePublic, Running
  <2> QED
    BY <1>k, <2>2, SignSame
<1>4. CASE \E len \in {33, 65} : Reencode(len)
  BY <1>4, <1>k, SignSame DEF Reencode, Running
<1>5. CASE \E recoverable \in BOOLEAN, msg \in Messages : Sign(recoverable, msg)
  <2>1. PICK recoverable \in BOOLEAN, msg \in Messages : Sign(recoverable, msg)
    BY <1>5
  <2>2. /\ seck' = seck /\ seck # 0 /\ UNCHANGED <<asig, made>>
        /\ signing' = IF actx.sign
                      THEN [on |-> TRUE, recoverable |-> recoverable, msg |-> msg, count |-> 0]
                      ELSE signing
    BY <2>1 DEF Sign
  <2>3. seck \in 1..Order-1 /\ msg \in Nat
    BY <2>2, OrderFacts, ApiAssumption DEF SignInv, KeysInv, KeyTypes
  <2>4. signing' \in [on: BOOLEAN, recoverable: BOOLEAN, msg: Nat, count: Nat]
    BY <2>2, <2>3 DEF SignInv, SignTypes
  <2> QED
    BY <1>k, <2>2, <2>3, <2>4 DEF SignInv, SignTypes
<1>6. CASE \E nonce \in Nonces : TryNonce(nonce)
  BY <1>6, <1>k, TryNonceKeeps
<1>7. CASE NoNonce
  <2>1. signing' = NotSigning /\ asig' = Nothing /\ made' = NotMade
    BY <1>7 DEF NoNonce
  <2>2. Nothing \in SignatureTypes
    BY OrderFacts DEF Nothing, SignatureTypes
  <2> QED
    BY <1>k, <2>1, <2>2 DEF SignInv, SignTypes, NotSigning
<1>8. CASE Malleate
  BY <1>8, <1>k, MalleateKeeps
<1>9. CASE NormalizeSignature
  BY <1>9, <1>k, NormalizeKeeps
<1>10. CASE \E r, s \in SignatureNumbers, recid \in 0..3 : ReceiveSignature(r, s, recid)
  BY <1>10, <1>k, ReceiveKeeps
<1>11. CASE UNCHANGED apiVars
  BY <1>11, <1>k, SignSame DEF apiVars
<1> QED
  BY <1>1, <1>2, <1>3, <1>4, <1>5, <1>6, <1>7, <1>8, <1>9, <1>10, <1>11 DEF ApiNext

\* Whatever happens to a signature, it stays one of its key.
LEMMA SignInvariant == ApiSpec => []SignInv
<1> QED
  BY SignInvInit, SignInvNext, PTL DEF ApiSpec
-----------------------------------------------------------------------------
\* SignatureHolds: what ecdsa_sign or ecdsa_sign_recoverable stored verifies under the
\* key unless its s was replaced, again after it was normalized, and the key is
\* recovered from it whatever the nonce was.
THEOREM SignaturesHold == ApiSpec => []SignatureHolds
<1>1. SignInv => SignatureHolds
  <2> SUFFICES ASSUME SignInv, made # NotMade
               PROVE  /\ ext_ecdsa_verify(Both, PlainOf(asig), made.msg,
                            ec_pubkey_serialize(33, PublicOf(made.key), TRUE).out).ret
                           <=> ~ScIsHigh(asig.s)
                      /\ asig.recid >= 0 =>
                           ext_ecdsa_recover(Both, PlainOf(asig), asig.recid, made.msg)
                             = ec_pubkey_serialize(65, PublicOf(made.key), FALSE)
    BY DEF SignatureHolds
  <2> DEFINE k == made.key
             msg == made.msg
             sig == PlainOf(asig)
  <2>1. /\ k \in 1..Order-1 /\ msg \in Nat /\ asig \in SignatureTypes
        /\ asig.r # 0 /\ asig.s # 0 /\ Genuine(asig, k, msg % Order)
    BY DEF SignInv, SignTypes
  <2>2. /\ asig.r \in 1..Order-1 /\ asig.s \in 1..Order-1 /\ asig.recid \in -1..3
        /\ asig.r \in 0..Order-1 /\ asig.s \in 0..Order-1
        /\ sig = [r |-> asig.r, s |-> asig.s] /\ sig.r = asig.r /\ sig.s = asig.s
    BY <2>1, OrderFacts DEF SignatureTypes, PlainOf
  <2>3. PICK n \in 1..Order-1 : /\ Signs(asig.r, asig.s, msg % Order, k, n)
                                /\ asig.r = Multiple[n][1] % Order
                                /\ asig.recid \in {-1, RecidOf(n)}
    BY <2>1 DEF Genuine
  <2> HIDE DEF k, msg, sig
  <2>4. k \in Nat /\ k \in 0..Order-1 /\ msg % Order \in Int
    BY <2>1, OrderFacts, ScalarOf
  <2>5. PublicOf(k) = KeyOf(k)
    <3>1. Both.sign = TRUE
      BY DEF Both, context_create
    <3>2. ec_pubkey_create(Both, k) = Answer(TRUE, KeyOf(k))
      BY <2>1, <2>4, <3>1, CreateIs
    <3> QED
      BY <3>2, AnswerTrue DEF PublicOf
  <2>6. ec_pubkey_serialize(33, KeyOf(k), TRUE) = Answer(TRUE, BytesOfKey(k, TRUE))
    BY <2>1, SerializedIs
  <2>7. ec_pubkey_parse(BytesOfKey(k, TRUE)) = Answer(TRUE, KeyOf(k))
    BY <2>1, ParsedIs
  <2>8. ecdsa_signature_parse_compact(sig) = Answer(TRUE, sig)
    <3>1. /\ ScSetB32(asig.r).r = asig.r /\ ScSetB32(asig.s).r = asig.s
          /\ ScSetB32(asig.r).overflow = FALSE /\ ScSetB32(asig.s).overflow = FALSE
      <4>1. ASSUME NEW b \in 1..Order-1 PROVE ScSetB32(b) = [r |-> b, overflow |-> FALSE]
        <5>1. b \in Nat /\ ~(b >= Order) /\ b % Order = b
          BY OrderFacts
        <5>2. (b >= Order) = FALSE
          BY <5>1
        <5> QED
          BY <5>1, <5>2, Zenon DEF ScSetB32
      <4> QED
        BY <2>2, <4>1
    <3> QED
      BY <2>2, <3>1 DEF ecdsa_signature_parse_compact
  <2>9. ext_ecdsa_verify(Both, sig, msg, BytesOfKey(k, TRUE)).ret <=> ~ScIsHigh(asig.s)
    <3>1. ext_ecdsa_verify(Both, sig, msg, BytesOfKey(k, TRUE)) = ecdsa_verify(Both, sig, msg, KeyOf(k))
      <4>1. /\ ecdsa_signature_parse_compact(sig).ret = TRUE /\ ecdsa_signature_parse_compact(sig).out = sig
            /\ ec_pubkey_parse(BytesOfKey(k, TRUE)).ret = TRUE
            /\ ec_pubkey_parse(BytesOfKey(k, TRUE)).out = KeyOf(k)
        BY <2>7, <2>8, AnswerTrue
      <4> QED
        BY <4>1 DEF ext_ecdsa_verify
    <3>2. ecdsa_verify(Both, sig, msg, KeyOf(k)).ret <=> ~ScIsHigh(sig.s) /\ Valid(sig, k, msg % Order)
      BY <2>1, <2>2, VerifiedIs
    <3>3. Valid(sig, k, msg % Order)
      BY <2>1, <2>2, <2>3, <2>4, ValidIs
    <3> QED
      BY <2>2, <3>1, <3>2, <3>3
  <2>10. ASSUME asig.recid >= 0
         PROVE  ext_ecdsa_recover(Both, sig, asig.recid, msg) = ec_pubkey_serialize(65, KeyOf(k), FALSE)
    <3> DEFINE whole == [r |-> asig.r, s |-> asig.s, recid |-> asig.recid]
    <3>1. asig.recid \in 0..3 /\ asig.recid = RecidOf(n)
      BY <2>2, <2>3, <2>10
    <3>2. ecdsa_recoverable_signature_parse_compact(sig, asig.recid) = Answer(TRUE, whole)
      <4>1. ecdsa_signature_parse_compact(sig).ret = TRUE /\ ecdsa_signature_parse_compact(sig).out = sig
        BY <2>8, AnswerTrue
      <4> QED
        BY <2>2, <3>1, <4>1 DEF ecdsa_recoverable_signature_parse_compact
    <3>3. whole.r = asig.r /\ whole.s = asig.s /\ whole.recid = asig.recid
      OBVIOUS
    <3> HIDE DEF whole
    <3>4. Tells(asig.r, asig.recid, n)
      BY <2>3, <3>1, RecidIs
    <3>5. ecdsa_recover(Both, whole, msg) = Answer(TRUE, KeyOf(k))
      BY <2>1, <2>2, <2>3, <3>1, <3>3, <3>4, RecoveredIs
    <3>6. /\ ecdsa_recoverable_signature_parse_compact(sig, asig.recid).ret = TRUE
          /\ ecdsa_recoverable_signature_parse_compact(sig, asig.recid).out = whole
          /\ ecdsa_recover(Both, whole, msg).ret = TRUE /\ ecdsa_recover(Both, whole, msg).out = KeyOf(k)
      BY <3>2, <3>5, AnswerTrue
    <3> QED
      BY <3>6 DEF ext_ecdsa_recover
  <2>11. ec_pubkey_serialize(33, KeyOf(k), TRUE).out = BytesOfKey(k, TRUE)
    BY <2>6, AnswerTrue
  <2> QED
    BY <2>5, <2>9, <2>10, <2>11, Zenon DEF k, msg, sig
<1> QED
  BY <1>1, SignInvariant, PTL

\* VerifiesExactly: any signature from outside is verified as the definition of ECDSA
\* says, although the code never reduces an x; every key recovered from it is one it is
\* valid for, and every such key is recovered with some recid.
THEOREM SignaturesVerifyExactly == ApiSpec => []VerifiesExactly
<1>1. SignInv => VerifiesExactly
  <2> SUFFICES ASSUME SignInv, asig.recid >= 0, made = NotMade, NEW msg \in Messages
               PROVE  LET m == ScSetB32(msg).r
                          found == [recid \in 0..3 |-> ecdsa_recover(Both, [asig EXCEPT !.recid = recid], msg)]
                      IN  /\ \A k \in 1..Order-1 :
                               IF Valid(asig, k, m)
                               THEN /\ ecdsa_verify(Both, PlainOf(asig), msg, PublicOf(k)).ret <=> ~ScIsHigh(asig.s)
                                    /\ \E recid \in 0..3 : found[recid].out = PublicOf(k)
                               ELSE ~ecdsa_verify(Both, PlainOf(asig), msg, PublicOf(k)).ret
                          /\ \A recid \in 0..3 :
                               LET q == found[recid].out
                               IN  found[recid].ret => Valid(asig, Log[<<q.x, q.y>>], m)
    BY DEF VerifiesExactly
  <2> DEFINE With(recid) == [asig EXCEPT !.recid = recid]
             found == [recid \in 0..3 |-> ecdsa_recover(Both, With(recid), msg)]
  <2>1. msg \in Nat /\ asig \in SignatureTypes /\ asig.r \in 0..Order-1 /\ asig.s \in 0..Order-1
    BY ApiAssumption DEF SignInv, SignTypes, SignatureTypes
  <2>2. ScSetB32(msg).r = msg % Order /\ msg % Order \in Int /\ msg % Order \in 0..Order-1
    BY <2>1, ScalarOf, OrderFacts
  <2> DEFINE m == msg % Order
  <2>3. ASSUME NEW recid \in 0..3
        PROVE  /\ With(recid).r = asig.r /\ With(recid).s = asig.s /\ With(recid).recid = recid
               /\ found[recid] = ecdsa_recover(Both, With(recid), msg)
    BY <2>1 DEF SignatureTypes
  <2> HIDE DEF With, found
  <2>4. PlainOf(asig).r = asig.r /\ PlainOf(asig).s = asig.s
    BY DEF PlainOf
  <2>5. ASSUME NEW k \in 1..Order-1
        PROVE  PublicOf(k) = KeyOf(k)
    <3>1. Both.sign = TRUE /\ k \in Nat
      BY OrderFacts DEF Both, context_create
    <3>2. ec_pubkey_create(Both, k) = Answer(TRUE, KeyOf(k))
      BY <3>1, CreateIs
    <3> QED
      BY <3>2, AnswerTrue DEF PublicOf
  <2>6. ASSUME NEW k \in 1..Order-1
        PROVE  ecdsa_verify(Both, PlainOf(asig), msg, PublicOf(k)).ret
                 <=> ~ScIsHigh(asig.s) /\ Valid(asig, k, m)
    <3>1. ecdsa_verify(Both, PlainOf(asig), msg, KeyOf(k)).ret
            <=> ~ScIsHigh(PlainOf(asig).s) /\ Valid(PlainOf(asig), k, m)
      BY <2>1, <2>4, VerifiedIs
    <3>2. Valid(PlainOf(asig), k, m) <=> Valid(asig, k, m)
      BY <2>4, PlainValid
    <3> QED
      BY <2>4, <2>5, <3>1, <3>2
  <2>7. ASSUME NEW k \in 1..Order-1, Valid(asig, k, m)
        PROVE  \E recid \in 0..3 : found[recid].out = PublicOf(k)
    <3>1. k \in 0..Order-1
      BY OrderFacts
    <3>2. /\ asig.r # 0 /\ asig.s # 0
          /\ \E n \in 1..Order-1 : Signs(asig.r, asig.s, m, k, n) /\ Multiple[n][1] % Order = asig.r
      BY <2>1, <2>2, <2>7, <3>1, ValidIs
    <3>3. PICK n \in 1..Order-1 : Signs(asig.r, asig.s, m, k, n) /\ Multiple[n][1] % Order = asig.r
      BY <3>2
    <3>4. asig.r \in 1..Order-1 /\ asig.s \in 1..Order-1
      BY <2>1, <3>2, OrderFacts
    <3> DEFINE recid == RecidOf(n)
               sig == With(recid)
    <3>5. recid \in 0..3 /\ Tells(asig.r, recid, n)
      BY <3>3, RecidIs
    <3> HIDE DEF recid
    <3>6. sig.r = asig.r /\ sig.s = asig.s /\ sig.recid = recid /\ found[recid] = ecdsa_recover(Both, sig, msg)
      BY <2>3, <3>5
    <3> HIDE DEF sig
    <3>7. ecdsa_recover(Both, sig, msg) = Answer(TRUE, KeyOf(k))
      BY <2>1, <3>3, <3>4, <3>5, <3>6, RecoveredIs
    <3>8. found[recid].out = PublicOf(k)
      <4>1. ecdsa_recover(Both, sig, msg).out = KeyOf(k)
        BY <3>7, AnswerTrue
      <4> QED
        BY <2>5, <3>6, <4>1
    <3> QED
      BY <3>5, <3>8
  <2>8. ASSUME NEW recid \in 0..3, found[recid].ret
        PROVE  Valid(asig, Log[<<found[recid].out.x, found[recid].out.y>>], m)
    <3> DEFINE sig == With(recid)
    <3>1. sig.r = asig.r /\ sig.s = asig.s /\ sig.recid = recid /\ found[recid] = ecdsa_recover(Both, sig, msg)
      BY <2>3
    <3> HIDE DEF sig
    <3>2. PICK k \in 1..Order-1 : found[recid].out = KeyOf(k) /\ Valid(sig, k, m)
      BY <2>1, <2>8, <3>1, RecoveredValid
    <3>3. k \in 0..Order-1 /\ k # 0 /\ Multiple[k] \in CurvePoints
      BY PointOfMultiple
    <3>4. Multiple[k] = <<Multiple[k][1], Multiple[k][2]>>
      BY <3>3, CurvePointFacts
    <3>5. found[recid].out.x = Multiple[k][1] /\ found[recid].out.y = Multiple[k][2]
      BY <3>2, <3>3 DEF KeyOf
    <3>6. Log[<<found[recid].out.x, found[recid].out.y>>] = k
      BY <3>3, <3>4, <3>5, LogIs
    <3>7. Valid(asig, k, m)
      BY <3>1, <3>2, PlainValid
    <3> QED
      BY <3>6, <3>7
  <2> QED
    BY <2>2, <2>6, <2>7, <2>8 DEF found, With
<1> QED
  BY <1>1, SignInvariant, PTL
=============================================================================
