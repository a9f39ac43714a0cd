-------------------------------- MODULE Group --------------------------------
(***************************************************************************)
(* The points of y^2 = x^3 + CURVE_B in libsecp256k1: affine (ge: x, y,     *)
(* inf) and Jacobian (gej: x, y, z, inf) coordinates, and the formulas of   *)
(* group_impl.h with the magnitudes they run through.  An operation that    *)
(* also gives the ratio of the z coordinates returns both, as [r, rzr].     *)
(***************************************************************************)
EXTENDS Field

CONSTANTS CurveB,       \* CURVE_B: 7
          GeneratorX, GeneratorY

\* As far as the comments of group_impl.h count, and what makes the integers modulo
\* P a field with roots of its squares: P is prime (Fermat) and 3 modulo 4.
ASSUME MagnitudeAssumption == MaxMagnitude >= 32 /\ MulMagnitude >= 8
ASSUME PrimeAssumption ==
    /\ InverseOf \in [Values -> Values] /\ RootOf \in [Values -> Values]
    /\ \A v \in Values \ {0} : (v * InverseOf[v]) % P = 1
    /\ \A v \in Values :
         (RootOf[(v * v) % P] * RootOf[(v * v) % P]) % P = (v * v) % P

One == FeSetInt(1)

Ge == [x: Fe, y: Fe, inf: BOOLEAN]
Gej == [x: Fe, y: Fe, z: Fe, inf: BOOLEAN]

GeSetXy(x, y) == [x |-> x, y |-> y, inf |-> FALSE]
GeConstG == GeSetXy(FeSetInt(GeneratorX), FeSetInt(GeneratorY))

GejSetInfinity == [x |-> FeClear, y |-> FeClear, z |-> FeClear, inf |-> TRUE]
GejClear == [GejSetInfinity EXCEPT !.inf = FALSE]
GejSetGe(a) == [x |-> a.x, y |-> a.y, z |-> One, inf |-> a.inf]

GeSetGejZinv(a, zi) ==
    LET zi2 == FeSqr(zi)
    IN  [x |-> FeMul(a.x, zi2), y |-> FeMul(a.y, FeMul(zi2, zi)), inf |-> a.inf]

\* Both also rewrite the Jacobian point they read, to z = 1.  The variable-time
\* one leaves a point at infinity alone, the other inverts its z all the same.
GeSetGej(a) == GeSetGejZinv(a, FeInv(a.z))
GeSetGejVar(a) ==
    IF a.inf THEN [x |-> a.x, y |-> a.y, inf |-> TRUE] ELSE GeSetGejZinv(a, FeInvVar(a.z))

\* One inversion for all points: those at infinity are left out of it.
GeSetAllGejVar(s) ==
    LET count[i \in 0..Len(s)] ==
            IF i = 0 THEN 0 ELSE count[i - 1] + (IF s[i].inf THEN 0 ELSE 1)
        az == [j \in 1..count[Len(s)] |->
                 s[CHOOSE i \in 1..Len(s) : ~s[i].inf /\ count[i] = j].z]
        azi == FeInvAllVar(az)
    IN  [i \in 1..Len(s) |->
           IF s[i].inf THEN [x |-> FeClear, y |-> FeClear, inf |-> TRUE]
                       ELSE GeSetGejZinv(s[i], azi[count[i]])]

\* zr[i] is the ratio of z of point i to z of point i - 1: one inversion, then
\* backwards with the ratios.
GeSetTableGejVar(s, zr) ==
    LET len == Len(s)
        zi[i \in 1..len] == IF i = len THEN FeInv(s[len].z) ELSE FeMul(zi[i + 1], zr[i + 1])
    IN  [i \in 1..len |-> GeSetGejZinv(s[i], zi[i])]

\* No inversion: every point is brought to the z of the last one.
GeGlobalzSetTableGej(s, zr) ==
    LET len == Len(s)
        zs[i \in 1..len-1] == IF i = len - 1 THEN zr[len] ELSE FeMul(zs[i + 1], zr[i + 1])
    IN  [globalz |-> s[len].z,
         pre |-> [i \in 1..len |->
                    IF i = len THEN [x |-> s[i].x, y |-> s[i].y, inf |-> FALSE]
                               ELSE GeSetGejZinv(s[i], zs[i])]]

GeNeg(a) == [a EXCEPT !.y = FeNegate(FeNormalizeWeak(a.y), 1)]
GejNeg(a) == [a EXCEPT !.y = FeNegate(FeNormalizeWeak(a.y), 1)]

GeSetXquad(x) ==
    LET y == FeSqrt(FeAdd(FeSetInt(CurveB), FeMul(x, FeSqr(x))))
    IN  [ok |-> y.ok, r |-> GeSetXy(x, y.r)]

GeSetXoVar(x, odd) ==
    LET WithY(q, y) ==
            IF q.ok THEN [ok |-> TRUE, r |-> GeSetXy(x, IF FeIsOdd(y) # odd THEN FeNegate(y, 1) ELSE y)]
            ELSE q
        Of(q) == WithY(q, FeNormalizeVar(q.r.y))
    IN  Of(GeSetXquad(x))

GejEqXVar(x, a) == FeEqualVar(FeMul(FeSqr(a.z), x), FeNormalizeWeak(a.x))

GejIsValidVar(a) ==
    LET z2 == FeSqr(a.z)
        z6 == FeMul(FeSqr(z2), z2)
        x3 == FeMul(FeSqr(a.x), a.x)
    IN  /\ ~a.inf
        /\ FeEqualVar(FeSqr(a.y), FeNormalizeWeak(FeAdd(x3, FeMulInt(z6, CurveB))))

GeIsValidVar(a) ==
    LET x3 == FeMul(FeSqr(a.x), a.x)
    IN  /\ ~a.inf
        /\ FeEqualVar(FeSqr(a.y), FeNormalizeWeak(FeAdd(x3, FeSetInt(CurveB))))

\* Mutant: z is left out.
GejHasQuadYVarAffine(a) == ~a.inf /\ FeIsQuadVar(a.y)

\* y / z^3 is a square if and only if y * z is.
GejHasQuadYVar(a) == ~a.inf /\ FeIsQuadVar(FeMul(a.y, a.z))
-----------------------------------------------------------------------------
GejDoubleVar(a) ==
    IF a.inf THEN [r |-> a, rzr |-> One]
    ELSE LET t1 == FeMulInt(FeSqr(a.x), 3)
             t2 == FeSqr(t1)
             y2 == FeMulInt(FeSqr(a.y), 2)
             t4 == FeMulInt(FeSqr(y2), 2)
             t3 == FeMul(y2, a.x)
             x == FeAdd(FeNegate(FeMulInt(t3, 4), 4), t2)
             s == FeAdd(FeMulInt(t3, 6), FeNegate(t2, 1))
         IN  [r |-> [x |-> x,
                     y |-> FeAdd(FeMul(t1, s), FeNegate(t4, 2)),
                     z |-> FeMulInt(FeMul(a.z, a.y), 2),
                     inf |-> FALSE],
              rzr |-> FeMulInt(FeNormalizeWeak(a.y), 2)]

\* For points that are not at infinity, whatever their coordinates.
GejDoubleNonzero(a) == GejDoubleVar(a).r

\* The sum from the two x (u1 and u1 + h) and the two y (s1 and s1 + i) on a common
\* z, and its z: the lines the three variable-time additions share.
Chord(u1, s1, h, i, z) ==
    LET Sum(h3, t) ==
            LET x == FeAdd(FeNegate(FeAdd(FeMulInt(t, 2), h3), 3), FeSqr(i))
            IN  [x |-> x,
                 y |-> FeAdd(FeMul(FeAdd(FeNegate(x, 5), t), i), FeNegate(FeMul(h3, s1), 1)),
                 z |-> z, inf |-> FALSE]
        h2 == FeSqr(h)
    IN  Sum(FeMul(h, h2), FeMul(u1, h2))

\* Mutant: equal points are not told from opposite ones.
SumNeverDouble(a, u1, s1, h, i, z, rzr) ==
    IF FeNormalizesToZeroVar(h)
    THEN [r |-> [a EXCEPT !.inf = TRUE], rzr |-> FeSetInt(0)]
    ELSE [r |-> Chord(u1, s1, h, i, z), rzr |-> rzr]

\* Sum of two finite points given those four and the z of the result: equal
\* points are doubled, opposite points give infinity (with the stale
\* coordinates of a).
SumOrDouble(a, u1, s1, h, i, z, rzr) ==
    IF FeNormalizesToZeroVar(h)
    THEN IF FeNormalizesToZeroVar(i) THEN GejDoubleVar(a)
         ELSE [r |-> [a EXCEPT !.inf = TRUE], rzr |-> FeSetInt(0)]
    ELSE [r |-> Chord(u1, s1, h, i, z), rzr |-> rzr]

\* With a at infinity no ratio exists; the callers that want one never get there.
GejAddVar(a, b) ==
    IF a.inf THEN [r |-> b, rzr |-> FeSetInt(0)]
    ELSE IF b.inf THEN [r |-> a, rzr |-> One]
    ELSE LET z22 == FeSqr(b.z)
             z12 == FeSqr(a.z)
             u1 == FeMul(a.x, z22)
             s1 == FeMul(FeMul(a.y, z22), b.z)
             h == FeAdd(FeNegate(u1, 1), FeMul(b.x, z12))
             i == FeAdd(FeNegate(s1, 1), FeMul(FeMul(b.y, z12), a.z))
             hz == FeMul(h, b.z)
         IN  SumOrDouble(a, u1, s1, h, i, FeMul(a.z, hz), hz)

GejAddGeVar(a, b) ==
    IF a.inf THEN [r |-> GejSetGe(b), rzr |-> FeSetInt(0)]
    ELSE IF b.inf THEN [r |-> a, rzr |-> One]
    ELSE LET z12 == FeSqr(a.z)
             u1 == FeNormalizeWeak(a.x)
             s1 == FeNormalizeWeak(a.y)
             h == FeAdd(FeNegate(u1, 1), FeMul(b.x, z12))
             i == FeAdd(FeNegate(s1, 1), FeMul(FeMul(b.y, z12), a.z))
         IN  SumOrDouble(a, u1, s1, h, i, FeMul(a.z, h), h)

\* a + (b.x, b.y, 1 / bzinv): x and y are computed with a.z scaled by bzinv,
\* the z of the result with a.z itself.
GejAddZinvVar(a, b, bzinv) ==
    IF b.inf THEN a
    ELSE IF a.inf THEN GejSetGe(GeSetGejZinv([x |-> b.x, y |-> b.y, inf |-> FALSE], bzinv))
    ELSE LET az == FeMul(a.z, bzinv)
             z12 == FeSqr(az)
             u1 == FeNormalizeWeak(a.x)
             s1 == FeNormalizeWeak(a.y)
             h == FeAdd(FeNegate(u1, 1), FeMul(b.x, z12))
             i == FeAdd(FeNegate(s1, 1), FeMul(FeMul(b.y, z12), az))
         IN  SumOrDouble(a, u1, s1, h, i, FeMul(a.z, h), h).r

\* The constant-time addition: one formula for sums and doubles, with a second
\* expression of lambda = rr / m moved in where the first one is 0/0.  t is the sum
\* of the two x.
AddAlong(a, b, t, m, degenerate, rrAlt, mAlt) ==
    LET With(n2, n, z) ==
            LET nq == FeNegate(FeMul(n2, t), 1)
                x == FeNormalizeWeak(FeAdd(FeSqr(rrAlt), nq))
                w == FeAdd(FeMul(FeAdd(FeMulInt(x, 2), nq), rrAlt), n)
                y == FeNormalizeWeak(FeNegate(w, 3))
            IN  [x |-> FeCmov(FeMulInt(x, 4), b.x, a.inf),
                 y |-> FeCmov(FeMulInt(y, 4), b.y, a.inf),
                 z |-> FeCmov(FeMulInt(z, 2), One, a.inf),
                 inf |-> FeNormalizesToZero(z) /\ ~a.inf]
        n2 == FeSqr(mAlt)
    IN  With(n2, FeCmov(FeSqr(n2), m, degenerate), FeMul(a.z, mAlt))

\* b is not at infinity.
GejAddGe(a, b) ==
    LET From(u1, u2, s1, s2) ==
            LET t == FeAdd(u1, u2)
                m == FeAdd(s1, s2)
                nu2 == FeNegate(u2, 1)
                rr == FeAdd(FeSqr(t), FeMul(u1, nu2))
                degenerate == FeNormalizesToZero(m) /\ FeNormalizesToZero(rr)
            IN  AddAlong(a, b, t, m, degenerate, FeCmov(FeMulInt(s1, 2), rr, ~degenerate),
                         FeCmov(FeAdd(nu2, u1), m, ~degenerate))
        zz == FeSqr(a.z)
    IN  From(FeNormalizeWeak(a.x), FeMul(b.x, zz), FeNormalizeWeak(a.y), FeMul(FeMul(b.y, zz), a.z))

GejRescale(a, s) ==
    LET zz == FeSqr(s)
    IN  [x |-> FeMul(a.x, zz), y |-> FeMul(FeMul(a.y, zz), s), z |-> FeMul(a.z, s), inf |-> a.inf]

GeToStorage(a) == [x |-> FeToStorage(FeNormalize(a.x)), y |-> FeToStorage(FeNormalize(a.y))]
GeFromStorage(s) == GeSetXy(FeFromStorage(s.x), FeFromStorage(s.y))
GeStorageCmov(r, s, flag) ==
    [x |-> FeStorageCmov(r.x, s.x, flag), y |-> FeStorageCmov(r.y, s.y, flag)]
=============================================================================
