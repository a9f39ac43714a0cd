------------------------------ MODULE Secp256k1 ------------------------------
(***************************************************************************)
(* The calls of libsecp256k1 that the Go packages are built on: secp256k1.c, *)
(* the modules recovery and ecdh, and ext.h.  A wallet keeps a secret key    *)
(* and tweaks it, a watcher keeps its public key and tweaks that; the wallet *)
(* signs, anybody may alter a signature on its way, and everybody may verify *)
(* it and recover the key.                                                   *)
(*                                                                          *)
(* Every function returns what it writes (out), its return value (ret) and  *)
(* whether it called the illegal-argument callback, which panics in Go.      *)
(* Pointers are never NULL: the Go wrappers pass none.                       *)
(***************************************************************************)
EXTENDS Ecdsa, Sequences

CONSTANTS Seckeys, Tweaks, Messages, Nonces,   \* numbers in 32 bytes, valid or not
          SignatureNumbers,                    \* those that altered signatures have
          MaxTweaks, MaxTries                  \* bounds: tweaks of a key, nonces tried

\* The one x that is the order gives a signature of r = 0, which signing does not look
\* for (secp256k1_ecdsa_sig_sign leaves it to a VERIFY_CHECK): no nonce has it.
ASSUME ApiAssumption ==
    /\ Seckeys \subseteq Nat /\ Tweaks \subseteq Nat /\ Messages \subseteq Nat
    /\ Nonces \subseteq Nat /\ SignatureNumbers \subseteq Nat
    /\ MaxTweaks \in Nat /\ MaxTries \in Nat
    /\ \A n \in Nonces : n \in 1..Order-1 => Multiple[n][1] # Order

Answer(ret, out) == [ret |-> ret, out |-> out, illegal |-> FALSE]
Illegal(out) == [ret |-> FALSE, out |-> out, illegal |-> TRUE]

NoContext == [sign |-> FALSE, verify |-> FALSE]   \* neither table is built
NoPubkey == [x |-> 0, y |-> 0]                      \* memset to 0
NoSignature == [r |-> 0, s |-> 0]

context_create(sign, verify) == [sign |-> sign, verify |-> verify]
context_clone(ctx) == [sign |-> ctx.sign, verify |-> ctx.verify]
context_randomize(ctx) == IF ctx.sign THEN Answer(TRUE, ctx) ELSE Illegal(ctx)

\* No point has an x of 0, and memset leaves no other x.
pubkey_load(pubkey) ==
    LET ge == GeFromStorage(pubkey)
    IN  IF FeIsZero(ge.x) THEN Illegal(ge) ELSE Answer(TRUE, ge)
pubkey_save(ge) == GeToStorage(ge)

ec_pubkey_parse(input) ==
    LET Keep(q) == IF q.ok THEN Answer(TRUE, pubkey_save(q.r)) ELSE Answer(FALSE, NoPubkey)
    IN  Keep(eckey_pubkey_parse(input))

\* Mutant: a buffer of exactly the size is refused.
ec_pubkey_serialize_strict(outputlen, pubkey, compressed) ==
    LET q == pubkey_load(pubkey)
    IN  IF outputlen <= (IF compressed THEN 33 ELSE 65) THEN Illegal(<<>>)
        ELSE IF q.illegal THEN Illegal(<<>>)
        ELSE Answer(TRUE, eckey_pubkey_serialize(q.out, compressed))

ec_pubkey_serialize(outputlen, pubkey, compressed) ==
    LET q == pubkey_load(pubkey)
    IN  IF outputlen < (IF compressed THEN 33 ELSE 65) THEN Illegal(<<>>)
        ELSE IF q.illegal THEN Illegal(<<>>)
        ELSE Answer(TRUE, eckey_pubkey_serialize(q.out, compressed))

ecdsa_signature_parse_compact(input) ==
    LET r == ScSetB32(input.r)
        s == ScSetB32(input.s)
    IN  IF r.overflow \/ s.overflow THEN Answer(FALSE, NoSignature)
        ELSE Answer(TRUE, [r |-> r.r, s |-> s.r])
ecdsa_signature_serialize_compact(sig) == sig

ecdsa_signature_normalize(sig) ==
    Answer(ScIsHigh(sig.s), [sig EXCEPT !.s = ScCondNegate(@, ScIsHigh(@))])

ecdsa_verify(ctx, sig, msg, pubkey) ==
    LET q == pubkey_load(pubkey)
    IN  IF ~ctx.verify THEN Illegal(<<>>)
        ELSE IF ScIsHigh(sig.s) THEN Answer(FALSE, <<>>)
        ELSE IF q.illegal THEN Illegal(<<>>)
        ELSE Answer(ecdsa_sig_verify(sig.r, sig.s, q.out, ScSetB32(msg).r), <<>>)

ValidScalar(s) == ~s.overflow /\ ~ScIsZero(s.r)
ec_seckey_verify(seckey) == ValidScalar(ScSetB32(seckey))

ec_pubkey_create(ctx, seckey) ==
    LET sec == ScSetB32(seckey)
    IN  IF ~ctx.sign THEN Illegal(NoPubkey)
        ELSE IF ~ValidScalar(sec) THEN Answer(FALSE, NoPubkey)
        ELSE Answer(TRUE, pubkey_save(GeSetGej(EcmultGenOf(sec.r))))

\* A tweak that overflows or leads to 0 or to infinity leaves a key of zeros.
TweakedSecret(t, k) == IF t.overflow \/ ~k.ok THEN Answer(FALSE, 0) ELSE Answer(TRUE, k.r)
ec_privkey_tweak_add(seckey, tweak) ==
    LET t == ScSetB32(tweak) IN TweakedSecret(t, eckey_privkey_tweak_add(ScSetB32(seckey).r, t.r))
ec_privkey_tweak_mul(seckey, tweak) ==
    LET t == ScSetB32(tweak) IN TweakedSecret(t, eckey_privkey_tweak_mul(ScSetB32(seckey).r, t.r))

TweakedPublic(ctx, pubkey, t, p) ==
    IF ~ctx.verify THEN Illegal(pubkey)
    ELSE IF t.overflow THEN Answer(FALSE, NoPubkey)
    ELSE IF pubkey_load(pubkey).illegal THEN Illegal(NoPubkey)
    ELSE IF ~p.ok THEN Answer(FALSE, NoPubkey)
    ELSE Answer(TRUE, pubkey_save(p.r))
ec_pubkey_tweak_add(ctx, pubkey, tweak) ==
    LET t == ScSetB32(tweak)
    IN  TweakedPublic(ctx, pubkey, t, eckey_pubkey_tweak_add(pubkey_load(pubkey).out, t.r))
ec_pubkey_tweak_mul(ctx, pubkey, tweak) ==
    LET t == ScSetB32(tweak)
    IN  TweakedPublic(ctx, pubkey, t, eckey_pubkey_tweak_mul(pubkey_load(pubkey).out, t.r))

CombineAll(pubnonces) ==
    LET Qj[i \in 0..Len(pubnonces)] ==
            IF i = 0 THEN GejSetInfinity
            ELSE GejAddGe(Qj[i - 1], pubkey_load(pubnonces[i]).out)
    IN  Qj[Len(pubnonces)]
\* What pubkey_load returns is not looked at, but its callback ends the call.
ec_pubkey_combine(pubnonces) ==
    LET Sum(Qj) == IF Qj.inf THEN Answer(FALSE, NoPubkey)
                   ELSE Answer(TRUE, pubkey_save(GeSetGej(Qj)))
    IN  IF \/ pubnonces = <<>>
           \/ \E i \in 1..Len(pubnonces) : pubkey_load(pubnonces[i]).illegal
        THEN Illegal(NoPubkey)
        ELSE Sum(CombineAll(pubnonces))
-----------------------------------------------------------------------------
ecdsa_recoverable_signature_parse_compact(input, recid) ==
    LET sig == ecdsa_signature_parse_compact(input)
    IN  IF recid \notin 0..3 THEN Illegal(<<>>)
        ELSE Answer(sig.ret, [r |-> sig.out.r, s |-> sig.out.s, recid |-> IF sig.ret THEN recid ELSE 0])
ecdsa_recoverable_signature_convert(sig) == [r |-> sig.r, s |-> sig.s]

ecdsa_recover(ctx, sig, msg) ==
    LET Keep(q) == IF q.ok THEN Answer(TRUE, pubkey_save(q.q)) ELSE Answer(FALSE, NoPubkey)
    IN  IF ~ctx.verify THEN Illegal(<<>>)
        ELSE Keep(ecdsa_sig_recover(sig.r, sig.s, ScSetB32(msg).r, sig.recid))

\* The hash of the product in compressed form; the hash is left out.
ecdh(point, scalar) ==
    LET s == ScSetB32(scalar)
        pt == GeSetGej(EcmultConstOf(pubkey_load(point).out, s.r))
    IN  IF pubkey_load(point).illegal THEN Illegal(<<>>)
        ELSE IF ValidScalar(s)
        THEN Answer(TRUE, <<2 + Odd(FeNormalize(pt.y)), FeGetB32(FeNormalize(pt.x))>>)
        ELSE Answer(FALSE, <<>>)

ext_ecdsa_recover(ctx, sigdata, recid, msg) ==
    LET Give(pubkey) == IF pubkey.ret THEN ec_pubkey_serialize(65, pubkey.out, FALSE) ELSE pubkey
        From(sig) == IF sig.ret THEN Give(ecdsa_recover(ctx, sig.out, msg)) ELSE sig
    IN  From(ecdsa_recoverable_signature_parse_compact(sigdata, recid))

ext_ecdsa_verify(ctx, sigdata, msg, pubkeydata) ==
    LET By(sig, pubkey) == IF ~sig.ret \/ ~pubkey.ret THEN Answer(FALSE, <<>>)
                           ELSE ecdsa_verify(ctx, sig.out, msg, pubkey.out)
    IN  By(ecdsa_signature_parse_compact(sigdata), ec_pubkey_parse(pubkeydata))

ext_reencode_pubkey(outlen, pubkeydata) ==
    LET From(pubkey) == IF pubkey.ret THEN ec_pubkey_serialize(outlen, pubkey.out, outlen = 33)
                        ELSE pubkey
    IN  From(ec_pubkey_parse(pubkeydata))

\* The point is taken as it is given.
ext_scalar_mul(point, scalar) ==
    LET s == ScSetB32(scalar)
        ge == GeSetXy(FeSetB32(point.x).r, FeSetB32(point.y).r)
        res == GeSetGej(EcmultConstOf(ge, s.r))
    IN  IF ValidScalar(s)
        THEN Answer(TRUE, [x |-> FeGetB32(FeNormalize(res.x)), y |-> FeGetB32(FeNormalize(res.y))])
        ELSE Answer(FALSE, point)
-----------------------------------------------------------------------------
VARIABLES actx,      \* the context
          illegal,   \* the callback was called: nothing runs any more
          seck, secOps,   \* the wallet's secret key, and how it was tweaked
          spub, pubOps,   \* the watcher's public key, and how it was tweaked
          signing,   \* the call of a sign function: its message, its count of nonces
          asig,      \* the signature, with its recid or -1
          made       \* the key and the message it was made from, if it was

apiVars == <<actx, illegal, seck, secOps, spub, pubOps, signing, asig, made>>

NotSigning == [on |-> FALSE, recoverable |-> FALSE, msg |-> 0, count |-> 0]
NotMade == [key |-> 0, msg |-> 0]
Nothing == [r |-> 0, s |-> 0, recid |-> -1]
PlainOf(sig) == [r |-> sig.r, s |-> sig.s]

\* The Go package makes a context for both; here it may lack a table.
ApiInit ==
    /\ \E sign, verify \in BOOLEAN : actx = context_clone(context_create(sign, verify))
    /\ illegal = FALSE
    /\ seck = 0 /\ secOps = <<>> /\ spub = NoPubkey /\ pubOps = <<>>
    /\ signing = NotSigning /\ asig = Nothing /\ made = NotMade

Running == ~illegal /\ ~signing.on

\* A key is used if seckey_verify takes it.
CreateKey(k) ==
    /\ Running /\ seck = 0 /\ secOps = <<>> /\ asig = Nothing
    /\ ec_seckey_verify(k)
    /\ LET pubkey == ec_pubkey_create(actx, k)
       IN  seck' = k /\ spub' = pubkey.out /\ illegal' = pubkey.illegal
    /\ UNCHANGED <<actx, secOps, pubOps, signing, asig, made>>

Randomize ==
    /\ Running
    /\ actx' = context_randomize(actx).out /\ illegal' = context_randomize(actx).illegal
    /\ UNCHANGED <<seck, secOps, spub, pubOps, signing, asig, made>>

TweakSecret(how, t) ==
    /\ Running /\ seck # 0 /\ Len(secOps) < MaxTweaks /\ asig = Nothing
    /\ seck' = (IF how = "add" THEN ec_privkey_tweak_add(seck, t) ELSE ec_privkey_tweak_mul(seck, t)).out
    /\ secOps' = Append(secOps, <<how, t>>)
    /\ UNCHANGED <<actx, illegal, spub, pubOps, signing, asig, made>>

BecomePublic(answer, how, t) ==
    /\ spub' = IF answer.ret THEN answer.out ELSE NoPubkey
    /\ illegal' = answer.illegal
    /\ pubOps' = Append(pubOps, <<how, t>>)
    /\ UNCHANGED <<actx, seck, secOps, signing, asig, made>>

\* The watcher follows the tweaks of the wallet, sooner or later.
Follows(how, t) ==
    /\ Running /\ spub # NoPubkey
    /\ Len(pubOps) < Len(secOps) /\ secOps[Len(pubOps) + 1] = <<how, t>>

TweakPublic(how, t) ==
    /\ Follows(how, t)
    /\ BecomePublic(IF how = "add" THEN ec_pubkey_tweak_add(actx, spub, t)
                                   ELSE ec_pubkey_tweak_mul(actx, spub, t), how, t)

\* To add t * G is to combine with the public key of t.
Combine(t) ==
    /\ Follows("add", t) /\ ec_seckey_verify(t) /\ actx.sign
    /\ BecomePublic(ec_pubkey_combine(<<spub, ec_pubkey_create(actx, t).out>>), "add", t)

ScalarMul(t) == Follows("mul", t) /\ BecomePublic(ext_scalar_mul(spub, t), "mul", t)

\* The watcher hands its key on in one format and gets it back in another.
Reencode(outlen) ==
    /\ Running /\ spub # NoPubkey
    /\ \E compressed \in BOOLEAN :
         LET Send(sent) == IF sent.ret THEN ext_reencode_pubkey(outlen, sent.out) ELSE sent
             Take(again) == /\ spub' = IF again.ret THEN ec_pubkey_parse(again.out).out ELSE spub
                            /\ illegal' = again.illegal
         IN  Take(Send(ec_pubkey_serialize(65, spub, compressed)))
    /\ UNCHANGED <<actx, seck, secOps, pubOps, signing, asig, made>>

\* ecdsa_sign and ecdsa_sign_recoverable up to their loop, for keys that were not
\* tweaked (a bound: tweaked keys are keys like others).
Sign(recoverable, msg) ==
    /\ Running /\ seck # 0 /\ secOps = <<>> /\ pubOps = <<>> /\ asig = Nothing
    /\ illegal' = ~actx.sign
    /\ signing' = IF actx.sign
                  THEN [on |-> TRUE, recoverable |-> recoverable, msg |-> msg, count |-> 0]
                  ELSE signing
    /\ UNCHANGED <<actx, seck, secOps, spub, pubOps, asig, made>>

\* One round of the loop: the nonce is out of range or the signature would be
\* zero, and the next one is asked for; or the signature is stored.
TryNonce(nonce) ==
    /\ signing.on
    /\ LET non == ScSetB32(nonce)
           Tried(sig) ==
               IF ValidScalar(non) /\ sig.ok
               THEN /\ asig' = [r |-> sig.r, s |-> sig.s,
                                recid |-> IF signing.recoverable THEN sig.recid ELSE -1]
                    /\ made' = [key |-> seck, msg |-> signing.msg]
                    /\ signing' = NotSigning
               ELSE /\ signing.count < MaxTries
                    /\ signing' = [signing EXCEPT !.count = @ + 1]
                    /\ UNCHANGED <<asig, made>>
       IN  Tried(ecdsa_sig_sign(ScSetB32(seck).r, ScSetB32(signing.msg).r, non.r))
    /\ UNCHANGED <<actx, illegal, seck, secOps, spub, pubOps>>

\* The nonce function gives up: a signature of zeros.
NoNonce ==
    /\ signing.on
    /\ signing' = NotSigning /\ asig' = Nothing /\ made' = NotMade
    /\ UNCHANGED <<actx, illegal, seck, secOps, spub, pubOps>>

Altered(sig) == asig' = sig /\ UNCHANGED <<actx, illegal, seck, secOps, spub, pubOps, signing, made>>

\* On the way s may be replaced by its negation, with the recid that goes with it.
Malleate ==
    /\ Running /\ made # NotMade
    /\ Altered([asig EXCEPT !.s = ScNegate(@),
                            !.recid = IF @ < 0 THEN @ ELSE @ + 1 - 2 * (@ % 2)])

\* ecdsa_signature_normalize of a plain signature, or of one converted to it.
NormalizeSignature ==
    /\ Running /\ made # NotMade
    /\ LET sig == ecdsa_signature_normalize(IF asig.recid < 0 THEN PlainOf(asig)
                                            ELSE ecdsa_recoverable_signature_convert(asig)).out
       IN  Altered([r |-> sig.r, s |-> sig.s, recid |-> -1])

\* A signature of any numbers comes from outside; who takes it can verify.
ReceiveSignature(r, s, recid) ==
    /\ Running /\ actx.verify /\ seck = 0 /\ secOps = <<>> /\ asig = Nothing
    /\ LET sig == ecdsa_recoverable_signature_parse_compact([r |-> r, s |-> s], recid)
       IN  sig.ret /\ Altered(sig.out)

ApiNext ==
    \/ \E k \in Seckeys : CreateKey(k)
    \/ Randomize
    \/ \E t \in Tweaks :
         \/ \E how \in {"add", "mul"} : TweakSecret(how, t) \/ TweakPublic(how, t)
         \/ Combine(t) \/ ScalarMul(t)
    \/ \E outlen \in {33, 65} : Reencode(outlen)
    \/ \E recoverable \in BOOLEAN, msg \in Messages : Sign(recoverable, msg)
    \/ \E nonce \in Nonces : TryNonce(nonce)
    \/ NoNonce \/ Malleate \/ NormalizeSignature
    \/ \E r, s \in SignatureNumbers, recid \in 0..3 : ReceiveSignature(r, s, recid)

ApiSpec == ApiInit /\ [][ApiNext]_apiVars
-----------------------------------------------------------------------------
Both == context_create(TRUE, TRUE)
PublicOf(k) == ec_pubkey_create(Both, k).out

\* Whoever tweaks a public key as its owner tweaked the secret one gets the public
\* key of the result, by tweaks, combinations or products, and where one of them
\* fails so does the other; and both sides agree on the secret of ecdh.
TweaksAgree ==
    /\ ~illegal /\ secOps = pubOps =>
         /\ seck = 0 <=> spub = NoPubkey
         /\ seck # 0 => /\ spub = PublicOf(seck)
                        /\ \A k \in Tweaks :
                             ec_seckey_verify(k) => ecdh(spub, k) = ecdh(PublicOf(k), seck)
    /\ spub # NoPubkey => Log[<<spub.x, spub.y>>] # 0

\* A context that was made for signing and for verifying never refuses a call: no
\* key that a call has stored is one that a later call calls illegal.
NeverIllegal == illegal => ~actx.sign \/ ~actx.verify

\* A signature that was made verifies under the public key as long as its s is
\* not replaced, again after it was normalized, and the key is recovered from it
\* whatever the nonce; after s was replaced it does not verify, and the key is
\* recovered all the same.
SignatureHolds ==
    made # NotMade =>
        /\ ext_ecdsa_verify(Both, PlainOf(asig), made.msg,
                            ec_pubkey_serialize(33, PublicOf(made.key), TRUE).out).ret <=> ~ScIsHigh(asig.s)
        /\ asig.recid >= 0 =>
             ext_ecdsa_recover(Both, PlainOf(asig), asig.recid, made.msg)
               = ec_pubkey_serialize(65, PublicOf(made.key), FALSE)

\* The definition of a valid signature: the x of (m / s) * G + (r / s) * Q is r
\* modulo the order.
Valid(sig, k, m) ==
    LET w == ScInverse(sig.s)
        R == Multiple[((m + sig.r * k) * w) % Order]
    IN  sig.r # 0 /\ sig.s # 0 /\ R # Infinity /\ R[1] % Order = sig.r

\* Any signature is verified by that definition, although the code never reduces
\* an x; every key that is recovered is one the signature is valid for, and every
\* such key is recovered with one recid.
VerifiesExactly ==
    asig.recid >= 0 /\ made = NotMade =>
        \A msg \in Messages :
            LET m == ScSetB32(msg).r
                found == [recid \in 0..3 |-> ecdsa_recover(Both, [asig EXCEPT !.recid = recid], msg)]
            IN  /\ \A k \in 1..Order-1 :
                     IF Valid(asig, k, m)
                     THEN /\ ecdsa_verify(Both, PlainOf(asig), msg, PublicOf(k)).ret <=> ~ScIsHigh(asig.s)
                          /\ \E recid \in 0..3 : found[recid].out = PublicOf(k)
                     ELSE ~ecdsa_verify(Both, PlainOf(asig), msg, PublicOf(k)).ret
                /\ \A recid \in 0..3 :
                     LET q == found[recid].out
                     IN  found[recid].ret => Valid(asig, Log[<<q.x, q.y>>], m)
=============================================================================
