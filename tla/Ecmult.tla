------------------------------- MODULE Ecmult --------------------------------
(***************************************************************************)
(* Multiples of points: ecmult_impl.h (na * A + ng * G in variable time,    *)
(* for verification) and ecmult_const_impl.h (one scalar times a point in   *)
(* constant time).  Both recode the scalars into few nonzero digits, keep   *)
(* odd multiples of A on a common z that is left out of the loop, and run   *)
(* down the digits with a doubling per position.                            *)
(***************************************************************************)
EXTENDS CurveLaw, Sequences, FiniteSets

CONSTANTS ScalarBits,   \* 256: bits of a scalar, the top one is not always clear
          WindowA, WindowG,   \* 5, 16
          MultiplicandK, MultiplicandZ,  \* the points A that are tried: k * G, with z
          Factors       \* the scalars that are tried

\* A table has no multiple twice, and none is infinity; no multiplicand is either.
ASSUME WindowAssumption ==
    /\ WindowA \in Nat /\ WindowA > 2 /\ WindowG \in Nat /\ WindowG > 2
    /\ Pow2[WindowA - 1] < Order /\ Pow2[WindowG - 1] < Order
    /\ ScalarBits \in Nat \ {0} /\ Pow2[ScalarBits - 1] < Order /\ Order < Pow2[ScalarBits]
    /\ MultiplicandK \subseteq 1..Order-1 /\ MultiplicandZ \subseteq 1..P-1
    /\ Factors \subseteq Scalars

\* Order is prime: no multiple of a multiplicand by less than Order is infinity.
ASSUME PrimeOrderAssumption == \A i, j \in 1..Order-1 : (i * j) % Order # 0

TableSize(w) == Pow2[w - 2]   \* ECMULT_TABLE_SIZE

\* The odd multiples of a, one by one on the curve where its double d is affine;
\* the z of all but the last are d.z too small, and zr holds their ratios.
OnIsomorphic(n, a, d) ==
    LET first == GeSetGejZinv(a, d.z)
        entry[i \in 1..n] ==
            IF i = 1 THEN [r |-> [x |-> first.x, y |-> first.y, z |-> a.z, inf |-> FALSE],
                           rzr |-> d.z]
            ELSE GejAddGeVar(entry[i - 1].r, GeSetXy(d.x, d.y))
    IN  [prej |-> [i \in 1..n |-> entry[i].r], zr |-> [i \in 1..n |-> entry[i].rzr]]

\* Mutant: the last z is not brought back from the isomorphic curve.
TableByUnscaled(n, a, d) == OnIsomorphic(n, a, d)

TableBy(n, a, d) == [OnIsomorphic(n, a, d) EXCEPT !.prej[n].z = FeMul(@, d.z)]

odd_multiples_table(n, a) == TableBy(n, a, GejDoubleVar(a).r)

odd_multiples_table_globalz(a) ==
    LET Of(t) == GeGlobalzSetTableGej(t.prej, t.zr) IN Of(odd_multiples_table(TableSize(WindowA), a))

odd_multiples_table_storage(n, a) ==
    LET Of(t) == GeSetTableGejVar(t.prej, t.zr)
        pre == Of(odd_multiples_table(n, a))
    IN  [i \in 1..n |-> GeToStorage(pre[i])]

\* What ecmult_context_build leaves in the context; a clone copies it.
pre_g == odd_multiples_table_storage(TableSize(WindowG), GejSetGe(GeConstG))

TableGetGe(pre, n) ==
    IF n > 0 THEN pre[(n - 1) \div 2 + 1] ELSE GeNeg(pre[(-n - 1) \div 2 + 1])
TableGetGeStorage(pre, n) ==
    IF n > 0 THEN GeFromStorage(pre[(n - 1) \div 2 + 1])
             ELSE GeNeg(GeFromStorage(pre[(-n - 1) \div 2 + 1]))

\* Without an index that depends on n: every entry is moved in or not, and so is
\* the negated y.
MoveIn(pre, index) ==
    LET moved[m \in 0..Len(pre)] ==
            IF m = 0 THEN GeSetXy(FeClear, FeClear)
            ELSE [x |-> FeCmov(moved[m - 1].x, pre[m].x, m - 1 = index),
                  y |-> FeCmov(moved[m - 1].y, pre[m].y, m - 1 = index), inf |-> FALSE]
    IN  moved[Len(pre)]
ConstTableGetGe(pre, n) ==
    LET abs == IF n > 0 THEN n ELSE -n
        r == MoveIn(pre, abs \div 2)
    IN  [r EXCEPT !.y = FeCmov(@, FeNegate(@, 1), n # abs)]
-----------------------------------------------------------------------------
Smaller(a, b) == IF a < b THEN a ELSE b

\* Odd digits of w bits at most, signed, where the bits differ from the carry.
\* l is where the loop is: the bit, the carry and the digits so far.
WnafStep(s, sign, w, l) ==
    LET now == Smaller(w, ScalarBits - l.bit)
        word == ScGetBitsVar(s, l.bit, now) + l.carry
        next == (word \div Pow2[w - 1]) % 2
    IN  IF l.bit >= ScalarBits THEN l
        ELSE IF ScGetBits(s, l.bit, 1) = l.carry THEN [l EXCEPT !.bit = @ + 1]
        ELSE [bit |-> l.bit + now, carry |-> next,
              wnaf |-> [l.wnaf EXCEPT ![l.bit] = sign * (word - next * Pow2[w])]]
WnafLoop(s, sign, w) ==
    LET l[i \in 0..ScalarBits] ==
            IF i = 0 THEN [bit |-> 0, carry |-> 0, wnaf |-> [b \in 0..ScalarBits-1 |-> 0]]
            ELSE WnafStep(s, sign, w, l[i - 1])
    IN  l
NonzeroIn(digits) == {i \in DOMAIN digits : digits[i] # 0}
WithBits(digits) ==
    LET set == NonzeroIn(digits)
    IN  [digits |-> digits,
         bits |-> IF set = {} THEN 0 ELSE 1 + (CHOOSE i \in set : \A j \in set : j <= i)]

\* Mutant: a scalar with the top bit is not negated.
ecmult_wnaf_unflipped(a, w) ==
    LET high == ScGetBits(a, ScalarBits - 1, 1) = 1
    IN  WithBits(WnafLoop(a, IF high THEN -1 ELSE 1, w)[ScalarBits].wnaf)

\* A scalar with the top bit set is recoded by its negation, which has it clear.
ecmult_wnaf(a, w) ==
    LET high == ScGetBits(a, ScalarBits - 1, 1) = 1
    IN  WithBits(WnafLoop(ScCondNegate(a, high), IF high THEN -1 ELSE 1, w)[ScalarBits].wnaf)

\* Odd digits of w bits with a sign at every w-th position, as many for every
\* scalar.  The scalar is made odd by adding 1 or 2 first (the skew), and -1, to
\* which 2 cannot be added, is taken as it is.
WnafSize(w) == (ScalarBits + w - 1) \div w

\* Each round takes w bits off s and moves what makes the digit before odd.
ConstRounds(scalar, w) ==
    LET round[i \in 0..WnafSize(w)] ==
            LET was == round[i - 1]
                sh == ScShrInt(IF i = 0 THEN scalar ELSE was.s, w)
                even == IF sh.low % 2 = 0 THEN 1 ELSE 0
                up == IF was.last > 0 THEN 1 ELSE -1
            IN  IF i = 0 THEN [s |-> sh.r, last |-> sh.low, digit |-> 0]
                ELSE [s |-> sh.r, last |-> sh.low + up * even,
                      digit |-> was.last - up * even * Pow2[w]]
    IN  round

wnaf_const(scalar, w) ==
    LET flip == ScIsHigh(scalar)
        bit == IF flip # ~ScIsEven(scalar) THEN 1 ELSE 0
        minusOne == ScIsOne(ScNegate(scalar))
        s == ScCondNegate(ScCaddBit(scalar, bit, ~minusOne), flip)
        sign == (IF flip THEN -1 ELSE 1) * (IF minusOne THEN -1 ELSE 1)
        round == ConstRounds(s, w)
        size == WnafSize(w)
    IN  [digits |-> [i \in 0..size |-> sign * (IF i = size THEN round[i].last ELSE round[i + 1].digit)],
         skew |-> Pow2[bit]]
-----------------------------------------------------------------------------
VARIABLES mul,    \* the call: its function and arguments, or "idle"
          wna, wng, pre, zed,   \* its locals: the digits, the table of A and its z
          pos,    \* the position its loop comes to next
          prod    \* r

mulVars == <<mul, wna, wng, pre, zed, pos, prod>>

Idle == [fn |-> "idle", k |-> 0, na |-> 0, ng |-> 0]

EcmultInit ==
    /\ mul = Idle /\ wna = <<>> /\ wng = <<>> /\ pre = <<>> /\ zed = FeClear
    /\ pos = 0 /\ prod = GejSetInfinity

\* secp256k1_ecmult up to its loop, for a finite A with any z.
Begin(a, g, table) ==
    /\ wna' = a.digits /\ wng' = g.digits
    /\ pre' = table.pre /\ zed' = table.globalz
    /\ pos' = Larger(a.bits, g.bits)
    /\ prod' = GejSetInfinity

Ecmult(k, z, na, ng) ==
    /\ mul = Idle
    /\ mul' = [fn |-> "ecmult", k |-> k, na |-> na, ng |-> ng]
    /\ Begin(ecmult_wnaf(na, WindowA), ecmult_wnaf(ng, WindowG),
             odd_multiples_table_globalz(Scaled(k, z)))

\* One position: double, add the entry of A, add the entry of G, whose z is 1 / Z
\* on the curve of the table.  A digit 0 adds nothing.
EcmultLoop ==
    /\ mul.fn = "ecmult" /\ pos > 0
    /\ LET i == pos - 1
           AddA(r) == IF wna[i] = 0 THEN r ELSE GejAddGeVar(r, TableGetGe(pre, wna[i])).r
           AddG(r) == IF wng[i] = 0 THEN r
                      ELSE GejAddZinvVar(r, TableGetGeStorage(pre_g, wng[i]), zed)
       IN  prod' = AddG(AddA(GejDoubleVar(prod).r))
    /\ pos' = pos - 1
    /\ UNCHANGED <<mul, wna, wng, pre, zed>>

EcmultEnd ==
    /\ mul.fn = "ecmult" /\ pos = 0
    /\ prod' = IF prod.inf THEN prod ELSE [prod EXCEPT !.z = FeMul(@, zed)]
    /\ mul' = [mul EXCEPT !.fn = "done"]
    /\ UNCHANGED <<wna, wng, pre, zed, pos>>

\* secp256k1_ecmult_const up to its loop: the top digit is never 0, so r starts
\* with its entry.
BeginConst(k, scalar, w, table) ==
    LET weak == [i \in 1..TableSize(WindowA) |-> [table.pre[i] EXCEPT !.y = FeNormalizeWeak(@)]]
        size == WnafSize(WindowA - 1)
    IN  /\ mul' = [fn |-> "const", k |-> k, na |-> scalar, ng |-> w.skew]
        /\ wna' = w.digits /\ wng' = <<>>
        /\ pre' = weak /\ zed' = table.globalz
        /\ pos' = size
        /\ prod' = GejSetGe(ConstTableGetGe(weak, w.digits[size]))

EcmultConst(k, scalar) ==
    /\ mul = Idle
    /\ BeginConst(k, scalar, wnaf_const(scalar, WindowA - 1),
                  odd_multiples_table_globalz(GejSetGe(Stored(k))))

DoubledTimes(a, n) ==
    LET times[i \in 0..n] == IF i = 0 THEN a ELSE GejDoubleNonzero(times[i - 1]) IN times[n]

ConstLoop ==
    /\ mul.fn = "const" /\ pos > 0
    /\ prod' = GejAddGe(DoubledTimes(prod, WindowA - 1), ConstTableGetGe(pre, wna[pos - 1]))
    /\ pos' = pos - 1
    /\ UNCHANGED <<mul, wna, wng, pre, zed>>

\* The skew is taken back: A or 2A, both through storage, is subtracted.
ConstEnd ==
    /\ mul.fn = "const" /\ pos = 0
    /\ LET a == Stored(mul.k)
           a2 == GeSetGej(GejDoubleVar(GejSetGe(a)).r)
           correction == GeStorageCmov(GeToStorage(a), GeToStorage(a2), mul.ng = 2)
       IN  prod' = GejAddGe([prod EXCEPT !.z = FeMul(@, zed)], GeNeg(GeFromStorage(correction)))
    /\ mul' = [mul EXCEPT !.fn = "done", !.ng = 0]
    /\ UNCHANGED <<wna, wng, pre, zed, pos>>

\* The caller takes the product; the locals are gone.
Return ==
    /\ mul.fn = "done"
    /\ mul' = Idle /\ wna' = <<>> /\ wng' = <<>> /\ pre' = <<>> /\ zed' = FeClear
    /\ pos' = 0 /\ prod' = GejSetInfinity

EcmultNext ==
    \/ \E k \in MultiplicandK :
         \/ \E z \in MultiplicandZ, na \in Factors, ng \in Factors : Ecmult(k, z, na, ng)
         \/ \E scalar \in 0..Order-1 : EcmultConst(k, scalar)
    \/ EcmultLoop \/ EcmultEnd
    \/ ConstLoop \/ ConstEnd
    \/ Return

EcmultSpec == EcmultInit /\ [][EcmultNext]_mulVars
-----------------------------------------------------------------------------
ConstSize == WnafSize(WindowA - 1) + 1   \* digits of wnaf_const

OnTable(a, z) == PointOfGej([a EXCEPT !.z = FeMul(@, z)])

\* What the n digits of w from each position on amount to, at step bits a digit.
ValueAbove(w, n, step) ==
    LET value[i \in 0..n] == IF i = n THEN 0 ELSE w[i] + Pow2[step] * value[i + 1] IN value

\* In the middle of both loops r is, on the curve of the table, the multiple that
\* the digits read so far stand for; at the end it is the product, whatever sums
\* and cancellations came up on the way, and no operation was used outside the
\* magnitudes it is written for.
EcmultLaw ==
    /\ KeptGej(prod)
    /\ mul.fn = "ecmult" =>
         OnTable(prod, zed) = Multiple[(ValueAbove(wna, ScalarBits, 1)[pos] * mul.k
                                      + ValueAbove(wng, ScalarBits, 1)[pos]) % Order]
    /\ mul.fn = "const" =>
         OnTable(prod, zed) = Multiple[(ValueAbove(wna, ConstSize, WindowA - 1)[pos] * mul.k) % Order]
    /\ mul.fn = "done" => PointOfGej(prod) = Multiple[(mul.na * mul.k + mul.ng) % Order]

WnafOf(w, window, value) ==
    LET set == NonzeroIn(w)
    IN  /\ ValueAbove(w, ScalarBits, 1)[0] \in {value, value - Order}
        /\ \A i \in set : w[i] % 2 = 1 /\ w[i] < Pow2[window - 1] /\ -w[i] < Pow2[window - 1]
        /\ \A i, j \in set : i < j => j - i >= window
        /\ LET abs == Smaller(value, Order - value)
           IN  Cardinality(set) <= 1 + Cardinality({b \in 0..ScalarBits-1 : Pow2[b] <= abs})

\* The digits have the form their comments guarantee: odd, within their windows,
\* far enough apart, no more of them than the bits of the scalar and one; and
\* they sum to the scalar, the skew included.
WnafForm ==
    /\ mul.fn = "ecmult" => WnafOf(wna, WindowA, mul.na) /\ WnafOf(wng, WindowG, mul.ng)
    /\ mul.fn = "const" =>
         /\ \A i \in DOMAIN wna : wna[i] % 2 = 1 /\ wna[i] < Pow2[WindowA - 1] /\ -wna[i] < Pow2[WindowA - 1]
         /\ mul.ng \in {1, 2}
         /\ (ValueAbove(wna, ConstSize, WindowA - 1)[0] - mul.na - mul.ng) % Order = 0
=============================================================================
