------------------------------- MODULE Points --------------------------------
(***************************************************************************)
(* One Jacobian point through every operation of group_impl.h in any order. *)
(* acc is the point with its magnitudes; sum is the multiple of the         *)
(* generator the calls made so far amount to.                               *)
(***************************************************************************)
EXTENDS CurveLaw

CONSTANTS Terms,    \* the multiples of the generator that are added
          Scales    \* z coordinates the operands are given

ASSUME PointsAssumption == Terms \subseteq 1..Order-1 /\ Scales \subseteq 1..P-1

VARIABLES acc, sum

pointVars == <<acc, sum>>

\* The affine records callers hold for the same point: read from storage,
\* negated, decompressed.
Forms(k) ==
    {Stored(k), GeNeg(Stored(Order - k)),
     GeSetXoVar(Stored(k).x, Stored(k).y.v % 2 = 1).r}

PointsInit == acc = GejSetInfinity /\ sum = 0

Load(k, b) == acc' = GejSetGe(b) /\ sum' = k
Double == acc' = GejDoubleVar(acc).r /\ sum' = (2 * sum) % Order
Negate == acc' = GejNeg(acc) /\ sum' = (Order - sum) % Order
AddGe(k, b) == acc' = GejAddGe(acc, b) /\ sum' = (sum + k) % Order
AddGeVar(k, b) == acc' = GejAddGeVar(acc, b).r /\ sum' = (sum + k) % Order
AddVar(k, b) == acc' = GejAddVar(acc, b).r /\ sum' = (sum + k) % Order
AddVarTo(k, b) == acc' = GejAddVar(b, acc).r /\ sum' = (sum + k) % Order
AddZinvVar(k, s) ==
    LET b == Scaled(k, s)
    IN  /\ acc' = GejAddZinvVar(acc, [x |-> b.x, y |-> b.y, inf |-> FALSE], FeInv(b.z))
        /\ sum' = (sum + k) % Order
AddInfinity ==
    /\ acc' \in {GejAddVar(acc, GejSetInfinity).r, GejAddGeVar(acc, Stored(0)).r,
                 GejAddZinvVar(acc, Stored(0), One)}
    /\ sum' = sum
\* No coordinate ever exceeds what fe_mul takes, so any point may be rescaled.
Rescale(s) == acc' = GejRescale(acc, FeSetInt(s)) /\ sum' = sum
ToAffine == acc' \in {GejSetGe(GeSetGej(acc)), GejSetGe(GeSetGejVar(acc))} /\ sum' = sum

PointsNext ==
    \/ \E k \in Terms :
         \/ \E b \in Forms(k) : Load(k, b) \/ AddGe(k, b) \/ AddGeVar(k, b)
         \/ \E s \in Scales : AddZinvVar(k, s) \/ AddVar(k, Scaled(k, s)) \/ AddVarTo(k, Scaled(k, s))
    \/ Double
    \/ Negate
    \/ AddInfinity
    \/ \E s \in Scales : Rescale(s)
    \/ ToAffine

PointsSpec == PointsInit /\ [][PointsNext]_pointVars
-----------------------------------------------------------------------------
\* Whatever was called before, the record stands for the point the group law
\* gives, at infinity exactly when that is, and no operation was used outside the
\* magnitudes it is written for.
GroupLaw ==
    /\ PointOfGej(acc) = Multiple[sum]
    /\ KeptGej(acc)

\* The predicates, which multiply by powers of z to compare with x or y, answer for
\* the point itself.
PredicatesTrue ==
    /\ GejIsValidVar(acc) <=> sum # 0
    /\ GejHasQuadYVar(acc) <=> sum # 0 /\ FeSqrt(FeSetInt(Multiple[sum][2])).ok
    /\ sum # 0 => \A x \in Values : GejEqXVar(FeSetInt(x), acc) <=> x = Multiple[sum][1]
=============================================================================
