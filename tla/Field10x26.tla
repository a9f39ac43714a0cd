----------------------------- MODULE Field10x26 ------------------------------
(***************************************************************************)
(* field_10x26_impl.h: a field element in limbs wider than the bits they    *)
(* stand for, so that additions need no carries.  The build has ten limbs   *)
(* of 26 bits, the last of 22, in 32-bit words; here their number and their *)
(* widths are constants and the prime is 2^FieldBits - C1 * 2^LimbBits - C0.    *)
(*                                                                         *)
(* One element goes through every operation, next to the element the        *)
(* contract of field.h (module Field) says it is.                           *)
(***************************************************************************)
EXTENDS Integers, Sequences

CONSTANTS Limbs,       \* 10
          LimbBits,    \* 26
          TopBits,     \* 22: the width of the highest limb
          WordBits,    \* 32: the width of the word a limb is kept in
          CrumbBits,   \* 2: what fe_set_b32 and fe_get_b32 move at a time
          C0, C1,      \* 0x3D1, 0x40
          LimbMagnitude, LimbMulMagnitude,   \* 32, 8
          Samples,     \* the values that are loaded
          Operands,    \* the values of second operands
          MaxOps       \* bound: operations after a load

TopLimb == Limbs - 1
LimbRadix == 2 ^ LimbBits
TopRadix == 2 ^ TopBits
LimbWord(x) == x % 2 ^ WordBits
DoubleWord(x) == x % 2 ^ (2 * WordBits)
FieldBits == LimbBits * TopLimb + TopBits
LimbPrime == 2 ^ FieldBits - C1 * LimbRadix - C0
R0 == C0 * 2 ^ (LimbBits - TopBits)
R1 == C1 * 2 ^ (LimbBits - TopBits)

ASSUME LimbAssumption ==
    /\ Limbs \in Nat /\ Limbs > 3
    /\ LimbBits \in Nat /\ TopBits \in 1..LimbBits-1
    /\ C0 \in 2..LimbRadix-1 /\ C1 \in 1..LimbRadix-1 /\ R0 < LimbRadix /\ R1 < LimbRadix
    /\ WordBits > LimbBits /\ 2 * LimbMagnitude <= 2 ^ (WordBits - LimbBits)
    /\ 2 * LimbMagnitude <= TopRadix /\ (2 * LimbMulMagnitude * C1) ^ 2 < LimbRadix
    /\ LimbBits % CrumbBits = 0 /\ TopBits % CrumbBits = 0

Contract == INSTANCE Field WITH P <- LimbPrime, MaxMagnitude <- LimbMagnitude,
                                MulMagnitude <- LimbMulMagnitude

LimbIndex == 0..TopLimb
ValueOf(t) == LET sum[i \in LimbIndex] == t[i] * LimbRadix ^ i + (IF i = 0 THEN 0 ELSE sum[i - 1])
              IN  sum[TopLimb]
-----------------------------------------------------------------------------
fe_set_int(a) == [i \in LimbIndex |-> IF i = 0 THEN a ELSE 0]
fe_clear == [i \in LimbIndex |-> 0]

\* x times 2^FieldBits is added back at the bottom, and the carries go up; the top
\* limb keeps its own.
Fold(t, x) ==
    LET s == [t EXCEPT ![0] = LimbWord(@ + x * C0), ![1] = LimbWord(@ + x * C1)]
        u[i \in LimbIndex] == IF i = 0 THEN s[0] ELSE LimbWord(s[i] + u[i - 1] \div LimbRadix)
    IN  [i \in LimbIndex |-> IF i = TopLimb THEN u[i] ELSE u[i] % LimbRadix]

Masked(t) == [t EXCEPT ![TopLimb] = @ % TopRadix]
FirstPass(t) == Fold(Masked(t), t[TopLimb] \div TopRadix)

\* The comparison with the prime, on limbs that are within their widths.
AtLeastPrime(t) ==
    /\ t[TopLimb] = TopRadix - 1
    /\ \A i \in 2..TopLimb-1 : t[i] = LimbRadix - 1
    /\ LimbWord(t[1] + C1 + LimbWord(t[0] + C0) \div LimbRadix) > LimbRadix - 1

\* Mutant: only a carry out of the top limb is reduced.
fe_normalize_once(r) ==
    LET t == FirstPass(r)
        x == t[TopLimb] \div TopRadix
    IN  Masked(Fold(t, x))

fe_normalize(r) ==
    LET t == FirstPass(r)
        x == IF AtLeastPrime(t) THEN 1 ELSE t[TopLimb] \div TopRadix
    IN  Masked(Fold(t, x))

fe_normalize_weak(r) == FirstPass(r)

\* The reduction is skipped when there is nothing to reduce.
fe_normalize_var(r) ==
    LET t == FirstPass(r)
        x == IF AtLeastPrime(t) THEN 1 ELSE t[TopLimb] \div TopRadix
    IN  IF x = 0 THEN t
        ELSE Masked(Fold([t EXCEPT ![0] = LimbWord(@ + C0), ![1] = LimbWord(@ + x * C1)], 0))

\* Zero as it stands, or as the prime itself.
RawZero(t) == \A i \in LimbIndex : t[i] = 0
RawPrime(t) ==
    /\ t[0] = LimbRadix - C0
    /\ t[1] = LimbRadix - 1 - C1
    /\ \A i \in 2..TopLimb-1 : t[i] = LimbRadix - 1
    /\ t[TopLimb] = TopRadix - 1

fe_normalizes_to_zero(r) ==
    LET t == FirstPass(r) IN RawZero(t) \/ RawPrime(t)

\* Most elements are told from zero by their lowest limb alone.
fe_normalizes_to_zero_var(r) ==
    LET low == LimbWord(r[0] + (r[TopLimb] \div TopRadix) * C0) % LimbRadix
        t == FirstPass(r)
    IN  /\ low = 0 \/ low = LimbRadix - C0
        /\ RawZero(t) \/ RawPrime(t)

fe_is_zero(a) == RawZero(a)
fe_is_odd(a) == a[0] % 2 = 1

fe_cmp_var(a, b) ==
    LET differ == {i \in LimbIndex : a[i] # b[i]}
        i == CHOOSE i \in differ : \A j \in differ : j <= i
    IN  IF differ = {} THEN 0 ELSE IF a[i] > b[i] THEN 1 ELSE -1

\* Bytes come and go in crumbs; crumb c of the number has a limb of its own.
Crumbs == 0..(FieldBits \div CrumbBits - 1)
CrumbOf(v, c) == (v \div 2 ^ (CrumbBits * c)) % 2 ^ CrumbBits
CrumbsIn(i) == {c \in Crumbs : (CrumbBits * c) \div LimbBits = i}
PlaceIn(c) == 2 ^ ((CrumbBits * c) % LimbBits)

RECURSIVE SumOver(_, _)
SumOver(S, f) == IF S = {} THEN 0
                 ELSE LET c == CHOOSE c \in S : TRUE IN f[c] + SumOver(S \ {c}, f)

fe_set_b32(b) ==
    LET r == [i \in LimbIndex |->
                SumOver(CrumbsIn(i), [c \in Crumbs |-> CrumbOf(b, c) * PlaceIn(c)])]
    IN  [r |-> r, ok |-> ~AtLeastPrime(r)]

fe_get_b32(a) ==
    SumOver(Crumbs, [c \in Crumbs |->
        ((a[(CrumbBits * c) \div LimbBits] \div PlaceIn(c)) % 2 ^ CrumbBits) * 2 ^ (CrumbBits * c)])

fe_negate(a, m) ==
    LET limb == [i \in LimbIndex |-> CASE i = 0 -> LimbRadix - C0
                                       [] i = 1 -> LimbRadix - 1 - C1
                                       [] i = TopLimb -> TopRadix - 1
                                       [] OTHER -> LimbRadix - 1]
    IN  [i \in LimbIndex |-> LimbWord(limb[i] * 2 * (m + 1) - a[i])]

fe_mul_int(r, a) == [i \in LimbIndex |-> LimbWord(r[i] * a)]
fe_add(r, a) == [i \in LimbIndex |-> LimbWord(r[i] + a[i])]
fe_cmov(r, a, flag) == [i \in LimbIndex |-> IF flag = 1 THEN a[i] ELSE r[i]]

\* Storage packs the limbs without their headroom, bit by bit.
fe_to_storage(a) == {k \in 0..FieldBits-1 : (a[k \div LimbBits] \div 2 ^ (k % LimbBits)) % 2 = 1}
fe_from_storage(s) ==
    [i \in LimbIndex |->
        SumOver({b \in 0..LimbBits-1 : LimbBits * i + b \in s}, [b \in 0..LimbBits-1 |-> 2 ^ b])]
fe_storage_cmov(r, a, flag) == IF flag = 1 THEN a ELSE r
-----------------------------------------------------------------------------
\* The sum of the products of weight k, in a double word.
Column(a, b, k) ==
    DoubleWord(SumOver({i \in LimbIndex : k - i \in LimbIndex},
                   [i \in LimbIndex |-> IF k - i \in LimbIndex THEN a[i] * b[k - i] ELSE 0]))
MulColumns(a, b) == [k \in 0..2*TopLimb |-> Column(a, b, k)]

\* Squaring takes each mixed product once, one factor doubled in its word.
SqrColumns(a) ==
    [k \in 0..2*TopLimb |->
        DoubleWord(SumOver({i \in LimbIndex : 2 * i <= k /\ k - i \in LimbIndex},
                       [i \in LimbIndex |-> IF 2 * i = k THEN a[i] * a[i]
                                            ELSE IF 2 * i < k /\ k - i \in LimbIndex
                                            THEN LimbWord(2 * a[i]) * a[k - i] ELSE 0]))]

\* Columns k and Limbs + k are taken together: what the high one leaves below
\* LimbBits goes into the low one times R0 and into the next one times R1.
FoldColumns(p) ==
    LET step[k \in 0..TopLimb] ==
          IF k = 0 THEN [t |-> <<>>, c |-> 0, d |-> p[TopLimb] \div LimbRadix]
          ELSE LET d == DoubleWord(step[k - 1].d + p[TopLimb + k])
                   u == d % LimbRadix
                   c == DoubleWord(step[k - 1].c + p[k - 1] + u * R0)
               IN  [t |-> Append(step[k - 1].t, c % LimbRadix),
                    c |-> DoubleWord(c \div LimbRadix + u * R1),
                    d |-> d \div LimbRadix]
    IN  step[TopLimb]

\* What is left above the top limb is folded in once more; only r[2] may keep a
\* carry.
Finish(p) ==
    LET f == FoldColumns(p)
        c == DoubleWord(f.c + f.d * R0 + (p[TopLimb] % LimbRadix))
        e == DoubleWord(c \div TopRadix + f.d * R1 * 2 ^ (LimbBits - TopBits))
        d0 == DoubleWord(e * C0 + f.t[1])
        d1 == DoubleWord(d0 \div LimbRadix + e * C1 + f.t[2])
    IN  [i \in LimbIndex |-> CASE i = 0 -> d0 % LimbRadix
                               [] i = 1 -> d1 % LimbRadix
                               [] i = 2 -> LimbWord(d1 \div LimbRadix + f.t[3])
                               [] i = TopLimb -> c % TopRadix
                               [] OTHER -> f.t[i + 1]]

fe_mul(a, b) == Finish(MulColumns(a, b))
fe_sqr(a) == Finish(SqrColumns(a))
-----------------------------------------------------------------------------
VARIABLES fr,    \* the limbs
          fe,    \* the element of the contract they stand for
          fops   \* the operations since it was loaded

limbVars == <<fr, fe, fops>>

LimbLoad(v) == [t |-> fe_set_b32(v).r, e |-> Contract!FeSetB32(v).r]

\* Second operands: as loaded, negated, and out of a product.
OperandSet ==
    LET loaded == {LimbLoad(v) : v \in Operands}
    IN  loaded
        \union {[t |-> fe_negate(a.t, 1), e |-> Contract!FeNegate(a.e, 1)] : a \in loaded}
        \union {[t |-> fe_sqr(a.t), e |-> Contract!FeSqr(a.e)] : a \in loaded}

LimbInit == fr = fe_clear /\ fe = Contract!FeClear /\ fops = 0

LimbSet(t, e) == fr' = t /\ fe' = e /\ fops' = 0
LimbDo(t, e) == fops < MaxOps /\ fops' = fops + 1 /\ fr' = t /\ fe' = e

SetIntLimbs(a) == LimbSet(fe_set_int(a), Contract!FeSetInt(a))
\* Callers drop a number that fe_set_b32 refuses, or normalize it
\* (ecmult_gen_blind does neither; see module EcmultGen).
SetB32Limbs(v) == fe_set_b32(v).ok /\ LimbSet(fe_set_b32(v).r, Contract!FeSetB32(v).r)
FromStorageLimbs == fe.n /\ LimbDo(fe_from_storage(fe_to_storage(fr)),
                          Contract!FeFromStorage(Contract!FeToStorage(fe)))
NormalizeLimbs == LimbDo(fe_normalize(fr), Contract!FeNormalize(fe))
NormalizeWeakLimbs == LimbDo(fe_normalize_weak(fr), Contract!FeNormalizeWeak(fe))
NormalizeVarLimbs == LimbDo(fe_normalize_var(fr), Contract!FeNormalizeVar(fe))
NegateLimbs == fe.m < LimbMagnitude /\ LimbDo(fe_negate(fr, fe.m), Contract!FeNegate(fe, fe.m))
MulIntLimbs(a) == fe.m * a <= LimbMagnitude /\ LimbDo(fe_mul_int(fr, a), Contract!FeMulInt(fe, a))
AddLimbs(b) == fe.m + b.e.m <= LimbMagnitude /\ LimbDo(fe_add(fr, b.t), Contract!FeAdd(fe, b.e))
MulLimbs(b) == fe.m <= LimbMulMagnitude /\ b.e.m <= LimbMulMagnitude
          /\ LimbDo(fe_mul(fr, b.t), Contract!FeMul(fe, b.e))
SqrLimbs == fe.m <= LimbMulMagnitude /\ LimbDo(fe_sqr(fr), Contract!FeSqr(fe))
CmovLimbs(b, flag) == LimbDo(fe_cmov(fr, b.t, flag), Contract!FeCmov(fe, b.e, flag = 1))

LimbNext ==
    \/ \E a \in {0, 1, 7} : SetIntLimbs(a)
    \/ \E v \in Samples : SetB32Limbs(v)
    \/ FromStorageLimbs
    \/ NormalizeLimbs
    \/ NormalizeWeakLimbs
    \/ NormalizeVarLimbs
    \/ NegateLimbs
    \/ \E a \in {2, 3, 8} : MulIntLimbs(a)
    \/ \E b \in OperandSet : AddLimbs(b) \/ MulLimbs(b) \/ \E flag \in {0, 1} : CmovLimbs(b, flag)
    \/ SqrLimbs

LimbSpec == LimbInit /\ [][LimbNext]_limbVars
-----------------------------------------------------------------------------
\* fe_verify, which only VERIFY builds call: the limbs are within the magnitude
\* the callers count on, and canonical when they count on that.
fe_verify(t, e) ==
    LET most == IF e.n THEN 1 ELSE 2 * e.m
    IN  /\ \A i \in 0..TopLimb-1 : t[i] <= (LimbRadix - 1) * most
        /\ t[TopLimb] <= (TopRadix - 1) * most
        /\ e.m \in 0..LimbMagnitude
        /\ e.n => e.m <= 1 /\ ~AtLeastPrime(t)

\* No operation within its contract loses a bit of the value or leaves the
\* bounds that the next one relies on.
LimbsKept == fe_verify(fr, fe) /\ ValueOf(fr) % LimbPrime = fe.v

\* Every question the callers ask about an element is answered by its value,
\* however the limbs came about, and fe_set_b32 takes the numbers below the
\* prime and no others.
LimbAnswers ==
    /\ fe_normalizes_to_zero(fr) <=> fe.v = 0
    /\ fe_normalizes_to_zero_var(fr) <=> fe.v = 0
    /\ fe.n =>
         /\ fe_is_zero(fr) <=> fe.v = 0
         /\ fe_is_odd(fr) <=> fe.v % 2 = 1
         /\ fe_get_b32(fr) = fe.v
         /\ \A b \in {LimbLoad(v) : v \in Operands} : fe_cmp_var(fr, b.t) = Contract!FeCmpVar(fe, b.e)
    /\ \A v \in Samples : fe_set_b32(v).ok <=> Contract!FeSetB32(v).ok
=============================================================================
