------------------------------- MODULE Scalar --------------------------------
(***************************************************************************)
(* The scalars of libsecp256k1 by their values: numbers below the order of  *)
(* the group, as scalar.h promises them and as scalar_low_impl.h computes   *)
(* them for the exhaustive tests.  The limbs of the build are in Scalar8x32, *)
(* which is checked against this module.                                    *)
(***************************************************************************)
EXTENDS Integers

CONSTANT ScalarOrder   \* odd; the instances state what they need of it

Scalars == 0..ScalarOrder-1

\* What a shift by n bits multiplies or divides by.
Pow2[n \in Nat] == IF n = 0 THEN 1 ELSE 2 * Pow2[n - 1]

\* Numbers out of 32 bytes are reduced, and the caller learns that they were.
ScSetB32(b) == [r |-> b % ScalarOrder, overflow |-> b >= ScalarOrder]
ScAdd(a, b) == (a + b) % ScalarOrder
ScMul(a, b) == (a * b) % ScalarOrder
ScSqr(a) == ScMul(a, a)
ScNegate(a) == (ScalarOrder - a) % ScalarOrder
ScIsHigh(a) == a > ScalarOrder \div 2
ScCondNegate(a, flag) == IF flag THEN ScNegate(a) ELSE a
ScIsZero(a) == a = 0
ScIsOne(a) == a = 1
ScIsEven(a) == a % 2 = 0
ScEq(a, b) == a = b
ScGetBits(a, offset, count) == (a \div Pow2[offset]) % Pow2[count]
ScGetBitsVar(a, offset, count) == ScGetBits(a, offset, count)
\* Only used where the sum stays below the order.
ScCaddBit(a, bit, flag) == IF flag THEN a + Pow2[bit] ELSE a
ScShrInt(a, n) == [r |-> a \div Pow2[n], low |-> a % Pow2[n]]

\* The inverse modulo the order, 0 of 0; the chain of scalar_inverse is in AddChain.
ScInverse(a) == IF a = 0 THEN 0 ELSE CHOOSE i \in Scalars : (i * a) % ScalarOrder = 1
ScInverseVar(a) == ScInverse(a)
=============================================================================
