------------------------------ MODULE EcmultGen ------------------------------
(***************************************************************************)
(* Multiples of the generator in constant time: ecmult_gen_impl.h.  The     *)
(* context holds a table with one row per digit of the scalar, in which an  *)
(* unknown point is hidden whose multiples cancel over all rows, and a      *)
(* blinding pair: b and the point -b * G that every multiplication starts   *)
(* from.  The context is cloned, cleared and blinded again between the      *)
(* multiplications.                                                         *)
(***************************************************************************)
EXTENDS CurveLaw, Sequences

CONSTANTS GenRows,     \* 64: digits of a scalar
          GenBits,     \* 4: bits of a digit
          NumsX,       \* the x of the point whose multiple nobody knows
          RngBytes,    \* the numbers the generator of nonces gives
          GenScalars   \* the scalars that are multiplied with

GenWidth == Pow2[GenBits]
Rows == 0..GenRows-1
Digits == 0..GenWidth-1

DoubleVarTimes(a, n) ==
    LET times[i \in 0..n] == IF i = 0 THEN a ELSE GejDoubleVar(times[i - 1]).r IN times[n]

\* The point of the x, and G so that all bits of the sum are as good as random.
nums_gej ==
    GejAddGeVar(GejSetGe(GeSetXoVar(FeSetB32(NumsX).r, FALSE).r), GeConstG).r

\* 2^(GenBits * j) * G
gbase[j \in Rows] ==
    IF j = 0 THEN GejSetGe(GeConstG) ELSE DoubleVarTimes(gbase[j - 1], GenBits)

\* numsbase doubles from row to row; the last one is the negative of the sum of
\* all before.
numsbase[j \in Rows] ==
    LET twice == GejDoubleVar(numsbase[j - 1]).r
    IN  IF j = 0 THEN nums_gej
        ELSE IF j = GenRows - 1 THEN GejAddVar(GejNeg(twice), nums_gej).r ELSE twice

\* Row j: numsbase + i * gbase for every digit i.
RowOf(j) ==
    LET row[i \in Digits] == IF i = 0 THEN numsbase[j] ELSE GejAddVar(row[i - 1], gbase[j]).r
    IN  row

precj == [n \in 1..GenRows*GenWidth |-> RowOf((n - 1) \div GenWidth)[(n - 1) % GenWidth]]

\* The table ecmult_gen_context_build stores.
prec ==
    LET ge == GeSetAllGejVar(precj)
    IN  [j \in Rows |-> [i \in Digits |-> GeToStorage(ge[GenWidth * j + i + 1])]]

\* The rows cover a scalar.  The unknown point is one of the group, as all points
\* of the curve are.  Storage has no place for the point at infinity.
ASSUME TableAssumption ==
    /\ GenRows \in Nat /\ GenRows > 2 /\ GenBits \in Nat \ {0}
    /\ Order <= Pow2[GenRows * GenBits]
    /\ NumsX \in Nat /\ FeSetB32(NumsX).ok /\ GeSetXoVar(FeSetB32(NumsX).r, FALSE).ok
    /\ \E k \in 1..Order-1 : Multiple[k] = PointOfGe(GeSetXoVar(FeSetB32(NumsX).r, FALSE).r)
    /\ \A n \in 1..GenRows*GenWidth : ~precj[n].inf
    /\ RngBytes \subseteq Nat /\ GenScalars \subseteq Scalars

VARIABLES gctx,   \* the context: is the table there, initial, blind
          gpc,    \* where ecmult_gen_blind or ecmult_gen is: "idle", "s", "b", "row"
          gn,     \* the scalar that is multiplied
          gfor,   \* who asked: "caller" or "blind"
          grow,   \* the next row
          gsum    \* r

genVars == <<gctx, gpc, gn, gfor, grow, gsum>>

Unbuilt == [built |-> FALSE, initial |-> GejClear, blind |-> 0]
Reset == [built |-> TRUE, initial |-> GejNeg(GejSetGe(GeConstG)), blind |-> 1]

GenInit ==
    /\ gctx = Unbuilt /\ gpc = "idle" /\ gn = 0 /\ gfor = "caller" /\ grow = 0
    /\ gsum = GejSetInfinity

\* ecmult_gen_context_build makes the table and blinds without a seed; built once.
GenBuild ==
    /\ gpc = "idle" /\ ~gctx.built
    /\ gctx' = Reset /\ gpc' = "s" /\ gfor' = "blind"
    /\ UNCHANGED <<gn, grow, gsum>>

\* ecmult_gen_blind with a seed goes on from the blinding it has, without one it
\* resets it first.
GenBlind(seeded) ==
    /\ gpc = "idle" /\ gctx.built
    /\ gctx' = IF seeded THEN gctx ELSE Reset
    /\ gpc' = "s" /\ gfor' = "blind"
    /\ UNCHANGED <<gn, grow, gsum>>

\* A number for the projection: out of range or zero, and another one is taken.
GenRescale(bytes) ==
    /\ gpc = "s"
    /\ LET s == FeSetB32(bytes)
       IN  IF ~s.ok \/ FeIsZero(s.r) THEN UNCHANGED <<gpc, gctx>>
           ELSE /\ gctx' = [gctx EXCEPT !.initial = GejRescale(@, s.r)]
                /\ gpc' = "b"
    /\ UNCHANGED <<gn, gfor, grow, gsum>>

\* A number for the blinding: likewise, and its multiple of the generator is
\* computed with the blinding there is.
GenChoose(bytes) ==
    /\ gpc = "b"
    /\ LET b == ScSetB32(bytes)
       IN  IF b.overflow \/ ScIsZero(b.r) THEN UNCHANGED <<gpc, gn, grow, gsum>>
           ELSE /\ gn' = b.r /\ gpc' = "row" /\ grow' = 0 /\ gsum' = gctx.initial
    /\ UNCHANGED <<gctx, gfor>>

\* ecmult_gen for the library's own callers.
GenCall(n) ==
    /\ gpc = "idle" /\ gctx.built
    /\ gfor' = "caller" /\ gn' = n /\ gpc' = "row" /\ grow' = 0 /\ gsum' = gctx.initial
    /\ UNCHANGED gctx

StorageMoveIn(row, bits) ==
    LET adds[i \in 0..GenWidth] ==
            IF i = 0 THEN [x |-> 0, y |-> 0]
            ELSE GeStorageCmov(adds[i - 1], row[i - 1], i - 1 = bits)
    IN  adds[GenWidth]

\* One row: the entry of the digit of n + blind is moved in and added.
GenRow ==
    /\ gpc = "row" /\ grow < GenRows
    /\ LET gnb == ScAdd(gn, gctx.blind)
           bits == ScGetBits(gnb, grow * GenBits, GenBits)
       IN  gsum' = GejAddGe(gsum, GeFromStorage(StorageMoveIn(prec[grow], bits)))
    /\ grow' = grow + 1
    /\ UNCHANGED <<gctx, gpc, gn, gfor>>

\* Mutant: the blinding keeps its sign.
GenBlindedSame ==
    /\ gpc = "row" /\ grow = GenRows /\ gfor = "blind"
    /\ gctx' = [gctx EXCEPT !.blind = gn, !.initial = gsum]
    /\ gpc' = "idle" /\ gn' = 0 /\ gfor' = "caller" /\ grow' = 0 /\ gsum' = GejSetInfinity

\* The new blinding replaces the old one: -b, and b * G.
GenBlinded ==
    /\ gpc = "row" /\ grow = GenRows /\ gfor = "blind"
    /\ gctx' = [gctx EXCEPT !.blind = ScNegate(gn), !.initial = gsum]
    /\ gpc' = "idle" /\ gn' = 0 /\ gfor' = "caller" /\ grow' = 0 /\ gsum' = GejSetInfinity

GenReturn ==
    /\ gpc = "row" /\ grow = GenRows /\ gfor = "caller"
    /\ gpc' = "idle" /\ gn' = 0 /\ grow' = 0 /\ gsum' = GejSetInfinity
    /\ UNCHANGED <<gctx, gfor>>

\* ecmult_gen_context_clear.
GenClear ==
    /\ gpc = "idle" /\ gctx.built
    /\ gctx' = Unbuilt
    /\ UNCHANGED <<gpc, gn, gfor, grow, gsum>>

GenNext ==
    \/ GenBuild
    \/ \E seeded \in BOOLEAN : GenBlind(seeded)
    \/ \E bytes \in RngBytes : GenRescale(bytes) \/ GenChoose(bytes)
    \/ \E n \in GenScalars : GenCall(n)
    \/ GenRow \/ GenBlinded \/ GenReturn
    \/ GenClear

GenSpec == GenInit /\ [][GenNext]_genVars
-----------------------------------------------------------------------------
\* However often the context was blinded, and with whatever numbers: the pair
\* stays a pair (initial is -blind * G, never the point at infinity), and a
\* multiplication that has gone through all rows gives n * G and nothing else.
GenLaw ==
    /\ gctx.built => /\ KeptGej(gctx.initial) /\ gctx.blind # 0
                     /\ PointOfGej(gctx.initial) = Multiple[ScNegate(gctx.blind)]
    /\ KeptGej(gsum)
    /\ gpc = "row" /\ grow = GenRows => PointOfGej(gsum) = Multiple[gn]
=============================================================================
