------------------------------- MODULE MCCrypto -------------------------------
(***************************************************************************)
(* The modules of the cryptography side by side.  They share constants (one *)
(* small curve) and no state: a behaviour picks one part and runs it, while *)
(* the others stay as they are created.                                     *)
(***************************************************************************)
EXTENDS Points, AddChain, Field10x26, Scalar8x32, Ecmult, EcmultGen, Secp256k1,
        Der, Hashing, HashVectors, Multisig

\* Ten keys, two more than a byte of the bit array has bits; some are equal.
CosignerKeys == <<"a", "b", "b", "a", "c", "a", "c", "b", "d", "c">>
GenuineSigs == {<<k, IF k \in {"a", "d"} THEN "odd" ELSE "even">> : k \in Signers}

VARIABLE part   \* the module that runs

Parts == {"points", "chain", "limbs", "scalar", "ecmult", "gen", "api", "der", "hash", "multisig"}

AllNonces == 0..Order \union {Order + 9}

\* Integers as others write them: none at all, one byte, a zero in front that is
\* needed, a negative one, a zero in front of all, one too long for a short length.
TestedBodies ==
    {<<>>, <<1>>, <<0, 17>>, <<31, 5>>, <<0, 31, 5>>, [i \in 1..17 |-> IF i < 16 THEN 0 ELSE 9]}

Init ==
    /\ part \in Parts
    /\ PointsInit /\ LimbInit /\ ScalarInit /\ EcmultInit /\ GenInit
    /\ ChainInit /\ (part # "chain" => chain = "inv")
    /\ ApiInit /\ (part # "api" => actx = Both)
    /\ IF part = "der" THEN DerInit ELSE text = <<>> /\ edits = 0
    /\ HashInit
    /\ MultiInit /\ (part # "multisig" => Size(mSig.BitArray) = 1)

Next ==
    /\ part' = part
    /\ IF part = "points" THEN PointsNext ELSE UNCHANGED pointVars
    /\ IF part = "chain" THEN ChainNext ELSE UNCHANGED chainVars
    /\ IF part = "limbs" THEN LimbNext ELSE UNCHANGED limbVars
    /\ IF part = "scalar" THEN ScalarNext ELSE UNCHANGED scalarVars
    /\ IF part = "ecmult" THEN EcmultNext ELSE UNCHANGED mulVars
    /\ IF part = "gen" THEN GenNext ELSE UNCHANGED genVars
    /\ IF part = "api" THEN ApiNext ELSE UNCHANGED apiVars
    /\ IF part = "der" THEN DerNext ELSE UNCHANGED derVars
    /\ IF part = "hash" THEN HashNext ELSE UNCHANGED hashVars
    /\ IF part = "multisig" THEN MultiNext ELSE UNCHANGED mSig

allVars == <<part, pointVars, chainVars, limbVars, scalarVars, mulVars, genVars, apiVars,
             derVars, hashVars, mSig>>

Spec == Init /\ [][Next]_allVars
-----------------------------------------------------------------------------
\* The slow ones are evaluated only where their part runs.

\* The limbs of a field element keep the contract of field.h (LimbsKept,
\* LimbAnswers).
LimbContract == part = "limbs" => LimbsKept /\ LimbAnswers

\* The limbs of a scalar are the arithmetic modulo the order (ScalarExact,
\* ScalarAnswers).
ScalarContract == part = "scalar" => ScalarExact /\ ScalarAnswers
=============================================================================
