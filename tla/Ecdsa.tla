-------------------------------- MODULE Ecdsa --------------------------------
(***************************************************************************)
(* Signatures and keys of libsecp256k1 as functions: ecdsa_impl.h (signing, *)
(* verification), recovery/main_impl.h (recovery of the key) and            *)
(* eckey_impl.h (public keys as bytes, tweaks of keys).  Products of points *)
(* and scalars are taken from the group law, which modules Ecmult and       *)
(* EcmultGen show the code computes.                                        *)
(***************************************************************************)
EXTENDS CurveLaw

\* The order is prime, below P and not below its half; no point has an x of 0; and
\* every point is a multiple of the generator.
ASSUME EcdsaAssumption ==
    /\ Order < P /\ P < 2 * Order
    /\ \A a \in 1..Order-1 : \E i \in 1..Order-1 : (i * a) % Order = 1
    /\ \A v \in Values : (v * v) % P # CurveB % P
    /\ \A x, y \in Values :
         (y * y) % P = (x * x * x + CurveB) % P => \E k \in 1..Order-1 : Multiple[k] = <<x, y>>

\* The multiple of the generator a point is.
Fcn == INSTANCE Functions
Log == Fcn!AntiFunction(Multiple)

\* na * q + ng * G, with a z of one.
EcmultOf(q, na, ng) == GejSetGe(Stored(na * Log[PointOfGej(q)] + ng))
EcmultGenOf(n) == GejSetGe(Stored(n))
EcmultConstOf(q, n) == EcmultOf(GejSetGe(q), n, 0)

\* A number as it stands in 32 bytes, of a scalar or of a field element.
ecdsa_const_order_as_fe == FeSetInt(Order)
ecdsa_const_p_minus_order == FeSetInt(P - Order)

Odd(a) == IF FeIsOdd(a) THEN 1 ELSE 0

\* What is left of nonce * G: its x modulo the order, and in recid what the reduction
\* and the missing y lose.
NoncePoint(r) ==
    LET x == FeGetB32(FeNormalize(r.x))
    IN  [sigr |-> ScSetB32(x).r,
         recid |-> (IF ScSetB32(x).overflow THEN 2 ELSE 0) + Odd(FeNormalize(r.y))]

\* Mutant: recid is not flipped with s.
LowSUnflipped(p, s) ==
    [ok |-> ~ScIsZero(s), r |-> p.sigr, s |-> ScCondNegate(s, ScIsHigh(s)), recid |-> p.recid]

\* A high s is replaced by its negation, which is the signature of the opposite
\* point.
LowS(p, s) ==
    [ok |-> ~ScIsZero(s), r |-> p.sigr, s |-> ScCondNegate(s, ScIsHigh(s)),
     recid |-> IF ScIsHigh(s) THEN p.recid + 1 - 2 * (p.recid % 2) ELSE p.recid]

ecdsa_sig_sign(seckey, message, nonce) ==
    LET With(p) == LowS(p, ScMul(ScInverse(nonce), ScAdd(ScMul(p.sigr, seckey), message)))
    IN  With(NoncePoint(GeSetGej(EcmultGenOf(nonce))))

\* Mutant: the second x that reduces to sigr is forgotten.
HasXOne(pr, sigr) == ~pr.inf /\ GejEqXVar(FeSetB32(sigr).r, pr)

\* sigr stands for itself or, below p - order, for sigr + order.
HasX(pr, sigr) ==
    LET xr == FeSetB32(sigr).r
    IN  /\ ~pr.inf
        /\ \/ GejEqXVar(xr, pr)
           \/ /\ FeCmpVar(xr, ecdsa_const_p_minus_order) < 0
              /\ GejEqXVar(FeAdd(xr, ecdsa_const_order_as_fe), pr)

ecdsa_sig_verify(sigr, sigs, pubkey, message) ==
    LET sn == ScInverseVar(sigs)
    IN  /\ ~ScIsZero(sigr) /\ ~ScIsZero(sigs)
        /\ HasX(EcmultOf(GejSetGe(pubkey), ScMul(sn, sigr), ScMul(sn, message)), sigr)

ecdsa_sig_recover(sigr, sigs, message, recid) ==
    LET low == FeSetB32(sigr).r
        fx == IF recid >= 2 THEN FeAdd(low, ecdsa_const_order_as_fe) ELSE low
        rn == ScInverseVar(sigr)
        Key(qj) == [ok |-> ~qj.inf, q |-> GeSetGejVar(qj)]
        From(x) == IF x.ok THEN Key(EcmultOf(GejSetGe(x.r), ScMul(rn, sigs), ScNegate(ScMul(rn, message))))
                   ELSE [ok |-> FALSE]
    IN  IF \/ ScIsZero(sigr) \/ ScIsZero(sigs)
           \/ recid >= 2 /\ FeCmpVar(low, ecdsa_const_p_minus_order) >= 0
        THEN [ok |-> FALSE]
        ELSE From(GeSetXoVar(fx, recid % 2 = 1))
-----------------------------------------------------------------------------
(* Public keys as bytes: a size of 33 or 65, a head, and one or two numbers. *)

eckey_pubkey_parse(pub) ==
    LET x == FeSetB32(pub.x)
        y == FeSetB32(pub.y)
        ge == GeSetXy(x.r, y.r)
        compressed == pub.size = 33 /\ pub.head \in {2, 3}
        full == pub.size = 65 /\ pub.head \in {4, 6, 7}
    IN  IF compressed /\ x.ok THEN GeSetXoVar(x.r, pub.head = 3)
        ELSE IF /\ full /\ x.ok /\ y.ok
                /\ pub.head \in {6, 7} => FeIsOdd(y.r) = (pub.head = 7)
                /\ GeIsValidVar(ge)
             THEN [ok |-> TRUE, r |-> ge]
        ELSE [ok |-> FALSE, r |-> ge]

eckey_pubkey_serialize(elem, compressed) ==
    LET x == FeNormalizeVar(elem.x)
        y == FeNormalizeVar(elem.y)
    IN  IF compressed THEN [size |-> 33, head |-> 2 + Odd(y), x |-> FeGetB32(x), y |-> 0]
        ELSE [size |-> 65, head |-> 4, x |-> FeGetB32(x), y |-> FeGetB32(y)]

eckey_privkey_tweak_add(key, tweak) ==
    [ok |-> ~ScIsZero(ScAdd(key, tweak)), r |-> ScAdd(key, tweak)]
eckey_privkey_tweak_mul(key, tweak) ==
    [ok |-> ~ScIsZero(tweak), r |-> IF ScIsZero(tweak) THEN key ELSE ScMul(key, tweak)]

Tweaked(key, pt) == [ok |-> ~pt.inf, r |-> IF pt.inf THEN key ELSE GeSetGej(pt)]

\* Mutant: the two scalars are swapped.
eckey_pubkey_tweak_add_swapped(key, tweak) == Tweaked(key, EcmultOf(GejSetGe(key), tweak, 1))

eckey_pubkey_tweak_add(key, tweak) == Tweaked(key, EcmultOf(GejSetGe(key), 1, tweak))
eckey_pubkey_tweak_mul(key, tweak) ==
    IF ScIsZero(tweak) THEN [ok |-> FALSE, r |-> key]
    ELSE [ok |-> TRUE, r |-> GeSetGej(EcmultOf(GejSetGe(key), tweak, 0))]
=============================================================================
