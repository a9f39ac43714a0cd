----------------------------- MODULE Scalar8x32 ------------------------------
(***************************************************************************)
(* scalar_8x32_impl.h: a scalar in limbs that fill their words, eight of 32 *)
(* bits in the build; here their number and width are constants.  Carries   *)
(* are found by comparing a sum with a summand, products are reduced by     *)
(* folding the part above the limbs in three times, with 2^bits - order for *)
(* 2^bits, and one conditional subtraction at the end.                      *)
(***************************************************************************)
EXTENDS Integers, Sequences

CONSTANTS LimbOrder,       \* the order of the group
          ScalarLimbs,     \* 8
          ScalarLimbBits,  \* 32
          ScalarOperands   \* the second operands that are tried

N == ScalarLimbs
W == 2 ^ ScalarLimbBits
LimbBitCount == N * ScalarLimbBits
HighLimbs == N \div 2 + 1       \* limbs of 2^bits - order; the highest is 1

\* The lowest limb, d[0] of the code, is the first of the sequence.
LimbsOf(v) == [i \in 1..N |-> (v \div W ^ (i - 1)) % W]
SECP256K1_N == LimbsOf(LimbOrder)
SECP256K1_N_C == LimbsOf(W ^ N - LimbOrder)
SECP256K1_N_H == LimbsOf(LimbOrder \div 2)

ASSUME ScalarLimbAssumption ==
    /\ LimbOrder \in Nat /\ LimbOrder > 2 /\ LimbOrder % 2 = 1
    /\ N \in {4, 6, 8} /\ ScalarLimbBits \in Nat \ {0, 1}
    /\ LimbOrder < W ^ N
    /\ (W ^ N - LimbOrder) \div W ^ (HighLimbs - 1) = 1

Number == INSTANCE Scalar WITH ScalarOrder <- LimbOrder

FlagOf(b) == IF b THEN 1 ELSE 0
FirstOf(S) == CHOOSE i \in S : \A j \in S : i <= j
LastOf(S) == CHOOSE i \in S : \A j \in S : i >= j

\* Sums limb by limb, with the carry in a double word.
RECURSIVE CarryOn(_, _, _)
CarryOn(terms, t, done) ==
    IF terms = <<>> THEN [d |-> done, over |-> t]
    ELSE CarryOn(Tail(terms), (t + Head(terms)) \div W, Append(done, (t + Head(terms)) % W))
Carry(terms) == CarryOn(terms, 0, <<>>)

\* The highest limb in which they differ decides.
LimbsAbove(a, b) ==
    LET differ == {i \in 1..N : a[i] # b[i]}
    IN  differ # {} /\ a[LastOf(differ)] > b[LastOf(differ)]
-----------------------------------------------------------------------------
scalar_clear == [i \in 1..N |-> 0]
scalar_set_int(v) == [i \in 1..N |-> IF i = 1 THEN v ELSE 0]

scalar_get_bits(a, offset, count) ==
    (a[offset \div ScalarLimbBits + 1] \div 2 ^ (offset % ScalarLimbBits)) % 2 ^ count

\* The bits may straddle two limbs.
scalar_get_bits_var(a, offset, count) ==
    LET limb == offset \div ScalarLimbBits + 1
        low == offset % ScalarLimbBits
    IN  IF (offset + count - 1) \div ScalarLimbBits + 1 = limb
        THEN scalar_get_bits(a, offset, count)
        ELSE (a[limb] \div 2 ^ low + ((a[limb + 1] * 2 ^ (ScalarLimbBits - low)) % W)) % 2 ^ count

\* Above HighLimbs the limbs of the order are all ones, which no limb exceeds: any
\* difference there is a no, and below the highest difference decides.
scalar_check_overflow(a) ==
    LET no(i) == \E j \in i+1..N : /\ a[j] < SECP256K1_N[j]
                                   /\ \A k \in j+1..HighLimbs : a[k] <= SECP256K1_N[k]
    IN  \/ \E i \in 2..HighLimbs : a[i] > SECP256K1_N[i] /\ ~no(i)
        \/ a[1] >= SECP256K1_N[1] /\ ~no(1)

scalar_reduce(r, overflow) ==
    Carry([i \in 1..N |-> r[i] + ((overflow * SECP256K1_N_C[i]) % W)]).d

scalar_add(a, b) ==
    LET sum == Carry([i \in 1..N |-> a[i] + b[i]])
        overflow == sum.over + FlagOf(scalar_check_overflow(sum.d))
    IN  [r |-> scalar_reduce(sum.d, overflow), overflow |-> overflow]

\* A clear flag moves the bit past the last limb.
scalar_cadd_bit(r, bit, flag) ==
    LET at == IF flag = 1 THEN bit ELSE bit + LimbBitCount
        limb == at \div ScalarLimbBits + 1
    IN  Carry([i \in 1..N |-> r[i] + (IF i = limb THEN 2 ^ (at % ScalarLimbBits) ELSE 0)]).d

scalar_set_b32(b) ==
    LET over == scalar_check_overflow(LimbsOf(b))
    IN  [r |-> scalar_reduce(LimbsOf(b), FlagOf(over)), overflow |-> over]
scalar_get_b32(a) ==
    LET sum[i \in 1..N] == a[i] * W ^ (i - 1) + (IF i = 1 THEN 0 ELSE sum[i - 1]) IN sum[N]

scalar_is_zero(a) == \A i \in 1..N : a[i] = 0
scalar_is_one(a) == a[1] = 1 /\ \A i \in 2..N : a[i] = 0
scalar_is_even(a) == a[1] % 2 = 0
scalar_is_high(a) == LimbsAbove(a, SECP256K1_N_H)
scalar_eq(a, b) == \A i \in 1..N : a[i] = b[i]

\* The complement plus the order plus one; zero is masked out.
scalar_negate(a) ==
    IF scalar_is_zero(a) THEN scalar_clear
    ELSE Carry([i \in 1..N |-> W - 1 - a[i] + SECP256K1_N[i] + FlagOf(i = 1)]).d

scalar_cond_negate(r, flag) ==
    IF scalar_is_zero(r) THEN scalar_clear
    ELSE Carry([i \in 1..N |-> IF flag = 0 THEN r[i]
                               ELSE W - 1 - r[i] + ((SECP256K1_N[i] + FlagOf(i = 1)) % W)]).d

scalar_shr_int(r, n) ==
    [r |-> [i \in 1..N |-> IF i = N THEN r[i] \div 2 ^ n
                           ELSE r[i] \div 2 ^ n + ((r[i + 1] * 2 ^ (ScalarLimbBits - n)) % W)],
     low |-> r[1] % 2 ^ n]

scalar_split_128(a) ==
    <<[i \in 1..N |-> IF 2 * i <= N THEN a[i] ELSE 0],
      [i \in 1..N |-> IF 2 * i <= N THEN a[i + N \div 2] ELSE 0]>>
-----------------------------------------------------------------------------
(* The accumulator <<c0, c1, c2>>: three words that wrap.                   *)

Muladd(c, a, b) ==
    LET tl == (a * b) % W
        c0 == (c[1] + tl) % W
        th == (a * b) \div W + FlagOf(c0 < tl)
        c1 == (c[2] + th) % W
    IN  <<c0, c1, (c[3] + FlagOf(c1 < th)) % W>>

MuladdFast(c, a, b) ==
    LET tl == (a * b) % W
        c0 == (c[1] + tl) % W
    IN  <<c0, (c[2] + (a * b) \div W + FlagOf(c0 < tl)) % W, c[3]>>

Muladd2(c, a, b) ==
    LET th == (a * b) \div W
        tl == (a * b) % W
        dh == (th + th) % W
        dl == (tl + tl) % W
        high == (dh + FlagOf(dl < tl)) % W
        c0 == (c[1] + dl) % W
        carry == (high + FlagOf(c0 < dl)) % W
        c1 == (c[2] + carry) % W
    IN  <<c0, c1, (c[3] + FlagOf(dh < th) + FlagOf(c0 < dl /\ carry = 0) + FlagOf(c1 < carry)) % W>>

Sumadd(c, a) ==
    LET c0 == (c[1] + a) % W
        c1 == (c[2] + FlagOf(c0 < a)) % W
    IN  <<c0, c1, (c[3] + FlagOf(c1 < FlagOf(c0 < a))) % W>>

SumaddFast(c, a) ==
    LET c0 == (c[1] + a) % W IN <<c0, (c[2] + FlagOf(c0 < a)) % W, c[3]>>

Extract(c) == <<c[2], c[3], 0>>
ExtractFast(c) == <<c[2], 0, c[3]>>

\* A term is <<a>>, <<a, b>> or, doubled, <<a, b, 2>>.  The fast forms are used in
\* the first and in the last column and for the sum that the second begins with.
RECURSIVE Accumulate(_, _, _)
Accumulate(c, terms, fast) ==
    IF terms = <<>> THEN c
    ELSE LET t == Head(terms)
             next == CASE Len(t) = 1 -> IF fast # "none" THEN SumaddFast(c, t[1]) ELSE Sumadd(c, t[1])
                       [] Len(t) = 2 -> IF fast = "all" THEN MuladdFast(c, t[1], t[2])
                                                        ELSE Muladd(c, t[1], t[2])
                       [] Len(t) = 3 -> Muladd2(c, t[1], t[2])
         IN  Accumulate(next, Tail(terms), IF fast = "sum" THEN "none" ELSE fast)

\* One column after the other: their digits, and what is left in c0 at the end.
RECURSIVE ColumnsFrom(_, _, _, _)
ColumnsFrom(columns, k, c, done) ==
    LET fast == IF k = 1 \/ k = Len(columns) THEN "all" ELSE IF k = 2 THEN "sum" ELSE "none"
        After(acc) ==
            LET next == IF fast = "all" THEN ExtractFast(acc) ELSE Extract(acc)
            IN  IF k = Len(columns) THEN done \o <<acc[1], next[1]>>
                ELSE ColumnsFrom(columns, k + 1, next, Append(done, acc[1]))
    IN  After(Accumulate(c, columns[k], fast))
DigitsOf(columns) == ColumnsFrom(columns, 1, <<0, 0, 0>>, <<>>)

\* The limbs i of a number of h limbs that meet a limb of another one in column k.
Meeting(k, h) == {i \in 1..N : k + 1 - i \in 1..h}

scalar_mul_512(a, b) ==
    DigitsOf([k \in 1..2*N-1 |->
        LET first == FirstOf(Meeting(k, N))
        IN  [t \in 1..LastOf(Meeting(k, N)) - first + 1 |->
               <<a[first + t - 1], b[k + 1 - (first + t - 1)]>>]])

scalar_sqr_512(a) ==
    DigitsOf([k \in 1..2*N-1 |->
        LET first == FirstOf(Meeting(k, N))
        IN  [t \in 1..(k + 1) \div 2 - first + 1 |->
               LET i == first + t - 1
               IN  IF 2 * i = k + 1 THEN <<a[i], a[i]>> ELSE <<a[i], a[k + 1 - i], 2>>]])

\* low + high * (2^LimbBitCount - order), whose highest limb is 1, where high has h limbs:
\* the terms of column k.
FoldTerms(low, high, h, k) ==
    LET meet == Meeting(k, h) \intersect 1..HighLimbs-1
        products == IF meet = {} THEN <<>>
                    ELSE [t \in 1..LastOf(meet) - FirstOf(meet) + 1 |->
                            <<high[k + 1 - (FirstOf(meet) + t - 1)],
                              SECP256K1_N_C[FirstOf(meet) + t - 1]>>]
        ones == k + 1 - HighLimbs
    IN  (IF k <= N THEN <<<<low[k]>>>> ELSE <<>>)
        \o products
        \o (IF ones \in 1..h THEN <<<<high[ones]>>>> ELSE <<>>)

Fold512(l) ==   \* 512 bits into 385
    LET high == SubSeq(l, N + 1, 2 * N)
    IN  DigitsOf([k \in 1..N+HighLimbs-1 |-> FoldTerms(l, high, N, k)])

Fold385(m) ==   \* 385 bits into 258
    LET high == SubSeq(m, N + 1, N + HighLimbs)
        p == DigitsOf([k \in 1..N |-> FoldTerms(m, high, HighLimbs, k)])
    IN  [p EXCEPT ![N + 1] = (@ + high[HighLimbs]) % W]

\* 258 bits into 256.
Fold258(p) == Carry([i \in 1..N |-> p[i] + SECP256K1_N_C[i] * p[N + 1]])

\* Mutant: the last carry is dropped.
FinalDropped(c) == scalar_reduce(c.d, FlagOf(scalar_check_overflow(c.d)))

\* The order is subtracted if a carry is left or the limbs are not below it.
Final(c) == scalar_reduce(c.d, c.over + FlagOf(scalar_check_overflow(c.d)))

scalar_reduce_512(l) == Final(Fold258(Fold385(Fold512(l))))

scalar_mul(a, b) == scalar_reduce_512(scalar_mul_512(a, b))
scalar_sqr(a) == scalar_reduce_512(scalar_sqr_512(a))

\* The product shifted right by at least LimbBitCount, rounded to nearest.
scalar_mul_shift_var(a, b, shift) ==
    LET l == scalar_mul_512(a, b)
        at(i) == i + shift \div ScalarLimbBits
        low == shift % ScalarLimbBits
        r == [i \in 1..N |->
                IF at(i) > 2 * N THEN 0
                ELSE l[at(i)] \div 2 ^ low
                     + (IF at(i) < 2 * N /\ low # 0
                        THEN (l[at(i) + 1] * 2 ^ (ScalarLimbBits - low)) % W
                        ELSE 0)]
        half == (l[(shift - 1) \div ScalarLimbBits + 1] \div 2 ^ ((shift - 1) % ScalarLimbBits)) % 2
    IN  scalar_cadd_bit(r, 0, half)
-----------------------------------------------------------------------------
VARIABLES sd,   \* the limbs
          sv    \* the number they stand for

scalarVars == <<sd, sv>>

ScalarInit == sd = scalar_clear /\ sv = 0

Become(limbs, value) == sd' = limbs /\ sv' = value
SetScalar(b) == Become(scalar_set_b32(b).r, Number!ScSetB32(b).r)
SetSmall(v) == Become(scalar_set_int(v), v)
AddScalar(b) == Become(scalar_add(sd, LimbsOf(b)).r, Number!ScAdd(sv, b))
MultiplyScalar(b) == Become(scalar_mul(sd, LimbsOf(b)), Number!ScMul(sv, b))
SquareScalar == Become(scalar_sqr(sd), Number!ScSqr(sv))
NegateScalar == Become(scalar_negate(sd), Number!ScNegate(sv))
CondNegateScalar(flag) == Become(scalar_cond_negate(sd, flag), Number!ScCondNegate(sv, flag = 1))
AddBit(bit, flag) ==
    /\ sv + 2 ^ bit < LimbOrder
    /\ Become(scalar_cadd_bit(sd, bit, flag), Number!ScCaddBit(sv, bit, flag = 1))
ShiftRight(n) == Become(scalar_shr_int(sd, n).r, Number!ScShrInt(sv, n).r)
SplitScalar(i) ==
    LET half == W ^ (N \div 2)
    IN  Become(scalar_split_128(sd)[i], IF i = 1 THEN sv % half ELSE sv \div half)

ScalarNext ==
    \/ \E b \in ScalarOperands : SetScalar(b) \/ AddScalar(b % LimbOrder) \/ MultiplyScalar(b % LimbOrder)
    \/ \E v \in 0..W-1 : SetSmall(v)
    \/ SquareScalar
    \/ NegateScalar
    \/ \E flag \in {0, 1} : CondNegateScalar(flag) \/ \E bit \in 0..LimbBitCount-1 : AddBit(bit, flag)
    \/ \E n \in 1..ScalarLimbBits-1 : ShiftRight(n)
    \/ \E i \in {1, 2} : SplitScalar(i)

ScalarSpec == ScalarInit /\ [][ScalarNext]_scalarVars
-----------------------------------------------------------------------------
\* Whatever was computed, the limbs are the reduced number the arithmetic modulo
\* the order gives: no carry is lost between words and one conditional
\* subtraction always is enough.
ScalarExact == sd = LimbsOf(sv) /\ sv \in Number!Scalars

\* The questions asked of a scalar, and the values taken out of it, are right
\* for every scalar that is reached.
ScalarAnswers ==
    /\ scalar_is_zero(sd) <=> Number!ScIsZero(sv)
    /\ scalar_is_one(sd) <=> Number!ScIsOne(sv)
    /\ scalar_is_even(sd) <=> Number!ScIsEven(sv)
    /\ scalar_is_high(sd) <=> Number!ScIsHigh(sv)
    /\ scalar_get_b32(sd) = sv
    /\ \A b \in ScalarOperands :
         /\ scalar_set_b32(b).overflow <=> Number!ScSetB32(b).overflow
         /\ LET s == b % LimbOrder
            IN  /\ scalar_eq(sd, LimbsOf(s)) <=> Number!ScEq(sv, s)
                /\ scalar_add(sd, LimbsOf(s)).overflow = FlagOf(sv + s >= LimbOrder)
                /\ \A shift \in {LimbBitCount, LimbBitCount + 1, LimbBitCount + ScalarLimbBits + 1, 2 * LimbBitCount - 1} :
                     scalar_mul_shift_var(sd, LimbsOf(s), shift)
                       = LimbsOf((sv * s + 2 ^ (shift - 1)) \div 2 ^ shift)
    /\ \A count \in 1..ScalarLimbBits-1, offset \in 0..LimbBitCount-1 :
         offset + count <= LimbBitCount => scalar_get_bits_var(sd, offset, count) = Number!ScGetBitsVar(sv, offset, count)
    /\ \A n \in 1..ScalarLimbBits-1 : scalar_shr_int(sd, n).low = Number!ScShrInt(sv, n).low
=============================================================================
