------------------------------ MODULE AddChain -------------------------------
(***************************************************************************)
(* The addition chains of libsecp256k1: fe_sqrt and fe_inv of field_impl.h  *)
(* and scalar_inverse of scalar_impl.h, at their real size.  Each raises x  *)
(* to a fixed power by squarings and multiplications only, so a register is *)
(* represented by its exponent, and that by the set of its one bits: a      *)
(* squaring moves them up by one, a multiplication adds.                    *)
(***************************************************************************)
EXTENDS Integers, Sequences

VARIABLES chain,  \* the function that runs
          pc,     \* its next row
          reg     \* the exponent each of its locals holds, {} before it is set

chainVars == <<chain, pc, reg>>

Shift(a, k) == {i + k : i \in a}
Ones(k) == 0..k-1

RECURSIVE Sum2(_, _)
Sum2(a, b) ==
    IF a \intersect b = {} THEN a \union b
    ELSE Sum2((a \ b) \union (b \ a), Shift(a \intersect b, 1))

\* A row <<to, from, k, by>>: square from k times, multiply with by, store in to.
Blocks ==   \* the blocks of ones that the two chains of the field share
    << <<"x2", "x", 1, "x">>,        <<"x3", "x2", 1, "x">>,
       <<"x6", "x3", 3, "x3">>,      <<"x9", "x6", 3, "x3">>,
       <<"x11", "x9", 2, "x2">>,     <<"x22", "x11", 11, "x11">>,
       <<"x44", "x22", 22, "x22">>,  <<"x88", "x44", 44, "x44">>,
       <<"x176", "x88", 88, "x88">>, <<"x220", "x176", 44, "x44">>,
       <<"x223", "x220", 3, "x3">> >>

\* Mutant: one squaring too few.
fe_sqrt_short ==
    Blocks \o << <<"t", "x223", 23, "x22">>, <<"t", "t", 5, "x2">>,
                 <<"r", "t", 2, "none">> >>

fe_sqrt ==
    Blocks \o << <<"t", "x223", 23, "x22">>, <<"t", "t", 6, "x2">>,
                 <<"r", "t", 2, "none">> >>

fe_inv ==
    Blocks \o << <<"t", "x223", 23, "x22">>, <<"t", "t", 5, "x">>,
                 <<"t", "t", 3, "x2">>,      <<"r", "t", 2, "x">> >>

scalar_blocks ==
    << <<"x2", "x", 1, "x">>,        <<"x3", "x2", 1, "x">>,
       <<"x4", "x3", 1, "x">>,       <<"x6", "x4", 2, "x2">>,
       <<"x7", "x6", 1, "x">>,       <<"x8", "x7", 1, "x">>,
       <<"x15", "x8", 7, "x7">>,     <<"x30", "x15", 15, "x15">>,
       <<"x60", "x30", 30, "x30">>,  <<"x120", "x60", 60, "x60">>,
       <<"x127", "x120", 7, "x7">> >>

\* t is a pointer to x127 there; x127 itself is not used again.
scalar_rest ==
    << <<2, "x">>, <<4, "x3">>, <<2, "x">>, <<2, "x">>, <<2, "x">>, <<4, "x3">>,
       <<3, "x2">>, <<4, "x3">>, <<5, "x3">>, <<4, "x2">>, <<2, "x">>, <<2, "x">>,
       <<5, "x4">>, <<2, "x">>, <<3, "x">>, <<4, "x">>, <<2, "x">>, <<10, "x3">>,
       <<4, "x3">>, <<9, "x8">>, <<2, "x">>, <<3, "x">>, <<3, "x">>, <<5, "x4">>,
       <<2, "x">>, <<5, "x2">>, <<4, "x2">>, <<2, "x">>, <<8, "x2">>, <<3, "x2">>,
       <<3, "x">>, <<6, "x">>, <<8, "x6">> >>

scalar_inverse ==
    scalar_blocks \o
    [i \in DOMAIN scalar_rest |->
        <<IF i = Len(scalar_rest) THEN "r" ELSE "t", IF i = 1 THEN "x127" ELSE "t",
          scalar_rest[i][1], scalar_rest[i][2]>>]

Chains == [sqrt |-> fe_sqrt, inv |-> fe_inv, scalar |-> scalar_inverse]

\* The length of the block of ones each local is named for.
BlockLength == [x |-> 1, x2 |-> 2, x3 |-> 3, x4 |-> 4, x6 |-> 6, x7 |-> 7, x8 |-> 8, x9 |-> 9,
          x11 |-> 11, x15 |-> 15, x22 |-> 22, x30 |-> 30, x44 |-> 44, x60 |-> 60,
          x88 |-> 88, x120 |-> 120, x127 |-> 127, x176 |-> 176, x220 |-> 220, x223 |-> 223]
Locals == DOMAIN BlockLength \union {"t", "r"}

ChainInit ==
    /\ chain \in DOMAIN Chains
    /\ pc = 1
    /\ reg = [l \in Locals |-> IF l = "x" THEN {0} ELSE {}]

Compute ==
    /\ pc <= Len(Chains[chain])
    /\ LET row == Chains[chain][pc]
           square == Shift(reg[row[2]], row[3])
       IN  reg' = [reg EXCEPT ![row[1]] =
                     IF row[4] = "none" THEN square ELSE Sum2(square, reg[row[4]])]
    /\ pc' = pc + 1
    /\ UNCHANGED chain

ChainNext == Compute
ChainSpec == ChainInit /\ [][ChainNext]_chainVars
-----------------------------------------------------------------------------
ToBits(bytes) ==   \* the highest byte first
    {i \in 0..8 * Len(bytes) - 1 : (bytes[Len(bytes) - (i \div 8)] \div 2 ^ (i % 8)) % 2 = 1}

PrimeBits == ToBits([i \in 1..27 |-> 255] \o <<254, 255, 255, 252, 47>>)
OrderBits ==
    ToBits([i \in 1..15 |-> 255] \o
           <<254, \hba, \hae, \hdc, \he6, \haf, \h48, \ha0, \h3b,
             \hbf, \hd2, \h5e, \h8c, \hd0, \h36, \h41, \h41>>)

\* The chain of the square root ends in (p + 1) / 4, that of the inverse in
\* p - 2 and that of the scalar inverse in n - 2, for the p and the n that
\* field_impl.h and scalar_impl.h spell out; and on the way a local called x<k>
\* never holds anything but the power of k ones the comments promise.
ChainExponent ==
    /\ \A l \in DOMAIN BlockLength : reg[l] \in {{}, Ones(BlockLength[l])}
    /\ pc > Len(Chains[chain]) =>
         CASE chain = "sqrt"   -> Shift(reg["r"], 2) = Sum2(PrimeBits, {0})
           [] chain = "inv"    -> Sum2(reg["r"], {1}) = PrimeBits
           [] chain = "scalar" -> Sum2(reg["r"], {1}) = OrderBits
=============================================================================
