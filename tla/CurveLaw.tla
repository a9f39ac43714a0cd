------------------------------ MODULE CurveLaw -------------------------------
(***************************************************************************)
(* The textbook group law of y^2 = x^3 + CurveB, which the formulas of      *)
(* module Group are checked against: a point is a pair <<x, y>> of values   *)
(* modulo P, or Infinity.                                                   *)
(***************************************************************************)
EXTENDS Group

CONSTANT Order   \* the prime order of the generator's group

INSTANCE Scalar WITH ScalarOrder <- Order

Infinity == <<>>
Base == <<GeneratorX, GeneratorY>>

Slope(a, b) ==
    IF a = b THEN (3 * a[1] * a[1] * InverseOf[(2 * a[2]) % P]) % P
             ELSE ((b[2] - a[2]) * InverseOf[(b[1] - a[1]) % P]) % P

Plus(a, b) ==
    IF a = Infinity THEN b
    ELSE IF b = Infinity THEN a
    ELSE IF a[1] = b[1] /\ (a[2] + b[2]) % P = 0 THEN Infinity
    ELSE LET l == Slope(a, b)
             x == (l * l - a[1] - b[1]) % P
         IN  <<x, (l * (a[1] - x) - a[2]) % P>>

\* Multiple[k]: k times the generator.
Multiple == LET mult[k \in 0..Order-1] == IF k = 0 THEN Infinity ELSE Plus(mult[k - 1], Base)
            IN  [k \in 0..Order-1 |-> mult[k]]

\* The generator's multiples are points of the curve, and a group of that order
\* under Plus.
ASSUME CurveAssumption ==
    /\ CurveB \in 0..31
    /\ Order \in Nat \ {0, 1, 2} /\ Order % 2 = 1
    /\ Base \in Values \X Values
    /\ Multiple[0] = Infinity
    /\ \A k \in 1..Order-1 :
         /\ Multiple[k] \in Values \X Values
         /\ LET x == Multiple[k][1]
                y == Multiple[k][2]
            IN  (y * y) % P = (x * x * x + CurveB) % P
    /\ \A i, j \in 0..Order-1 :
         Plus(Multiple[i], Multiple[j]) = Multiple[(i + j) % Order]

\* The point a Jacobian or an affine record stands for.
PointOfGej(a) ==
    IF a.inf THEN Infinity
    ELSE LET zi == InverseOf[a.z.v]
         IN  <<(a.x.v * zi * zi) % P, (((a.y.v * zi * zi) % P) * zi) % P>>
PointOfGe(a) == IF a.inf THEN Infinity ELSE <<a.x.v, a.y.v>>

\* The affine record of Multiple[k], as it is read from storage.
Stored(k) ==
    LET At(q) == GeFromStorage([x |-> q[1], y |-> q[2]])
    IN  IF k % Order = 0 THEN [x |-> FeClear, y |-> FeClear, inf |-> TRUE]
        ELSE At(Multiple[k % Order])

\* A Jacobian record of it with a z of its own.
Scaled(k, s) == GejRescale(GejSetGe(Stored(k)), FeSetInt(s))

\* A record within its contract, and one that is a point of the curve.
KeptGe(a) == Kept(a.x) /\ Kept(a.y)
KeptGej(a) == Kept(a.x) /\ Kept(a.y) /\ Kept(a.z)
=============================================================================
