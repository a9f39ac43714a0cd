------------------------------- MODULE Sha256 --------------------------------
(***************************************************************************)
(* hash_impl.h at its real size: SHA-256, HMAC and the deterministic        *)
(* generator of RFC 6979, and the nonce function of secp256k1.c.  Bytes are *)
(* numbers; a word of 32 bits is the set of its one bits.                   *)
(***************************************************************************)
EXTENDS Integers, Sequences

Block == 64
Digest == 32

BitsOf(v) == {i \in 0..15 : (v \div 2 ^ i) % 2 = 1}
ByteOf(bits) == LET sum[i \in -1..7] == IF i < 0 THEN 0
                                        ELSE sum[i - 1] + (IF i \in bits THEN 2 ^ i ELSE 0)
                IN  sum[7]
WordOf(high, low) == {i + 16 : i \in BitsOf(high)} \union BitsOf(low)
WordAt(bytes, i) == WordOf(256 * bytes[i] + bytes[i + 1], 256 * bytes[i + 2] + bytes[i + 3])
BytesOfWord(x) == [i \in 1..4 |-> ByteOf({b - 8 * (4 - i) : b \in x})]

Xor(x, y) == (x \ y) \union (y \ x)
XorByte(a, b) == ByteOf(Xor(BitsOf(a), BitsOf(b)))
RECURSIVE Add32(_, _)
Add32(x, y) ==
    IF x \intersect y = {} THEN x \union y
    ELSE Add32(Xor(x, y), {i + 1 : i \in (x \intersect y) \ {31}})
RotateRight(x, n) == {(i - n) % 32 : i \in x}
ShiftOut(x, n) == {i - n : i \in {j \in x : j >= n}}

Ch(x, y, z) == Xor(z, x \intersect Xor(y, z))
Maj(x, y, z) == (x \intersect y) \union (z \intersect (x \union y))
Sigma0(x) == Xor(Xor(RotateRight(x, 2), RotateRight(x, 13)), RotateRight(x, 22))
Sigma1(x) == Xor(Xor(RotateRight(x, 6), RotateRight(x, 11)), RotateRight(x, 25))
sigma0(x) == Xor(Xor(RotateRight(x, 7), RotateRight(x, 18)), ShiftOut(x, 3))
sigma1(x) == Xor(Xor(RotateRight(x, 17), RotateRight(x, 19)), ShiftOut(x, 10))

RoundWords ==
    << <<17034, 12184>>, <<28983, 17553>>, <<46528, 64463>>, <<59829, 56229>>, <<14678, 49755>>,
       <<23025, 4593>>, <<37439, 33444>>, <<43804, 24277>>, <<55303, 43672>>, <<4739, 23297>>,
       <<9265, 34238>>, <<21772, 32195>>, <<29374, 23924>>, <<32990, 45566>>, <<39900, 1703>>,
       <<49563, 61812>>, <<58523, 27073>>, <<61374, 18310>>, <<4033, 40390>>, <<9228, 41420>>,
       <<11753, 11375>>, <<19060, 33962>>, <<23728, 43484>>, <<30457, 35034>>, <<38974, 20818>>,
       <<43057, 50797>>, <<45059, 10184>>, <<48985, 32711>>, <<50912, 3059>>, <<54695, 37191>>,
       <<1738, 25425>>, <<5161, 10599>>, <<10167, 2693>>, <<11803, 8504>>, <<19756, 28156>>,
       <<21304, 3347>>, <<25866, 29524>>, <<30314, 2747>>, <<33218, 51502>>, <<37490, 11397>>,
       <<41663, 59553>>, <<43034, 26187>>, <<49739, 35696>>, <<51052, 20899>>, <<53650, 59417>>,
       <<54937, 1572>>, <<62478, 13701>>, <<4202, 41072>>, <<6564, 49430>>, <<7735, 27656>>,
       <<10056, 30540>>, <<13488, 48309>>, <<14620, 3251>>, <<20184, 43594>>, <<23452, 51791>>,
       <<26670, 28659>>, <<29839, 33518>>, <<30885, 25455>>, <<33992, 30740>>, <<36039, 520>>,
       <<37054, 65530>>, <<42064, 27883>>, <<48889, 41975>>, <<50801, 30962>> >>

\* Registers and words stay where they are, the roles go round: role r of round i
\* (a is 0) is played by register (r - i) % 8, and the words are replaced in place
\* from round 16 on.
Word(w, i) ==
    LET word(k) == w[(i + k) % 16]
    IN  IF i < 16 THEN word(0)
        ELSE Add32(word(0), Add32(sigma1(word(14)), Add32(word(9), sigma0(word(1)))))
RoundBy(i, v, t1) ==
    LET at(r) == (r - i) % 8
    IN  [v EXCEPT ![at(3)] = Add32(@, t1),
                  ![at(7)] = Add32(t1, Add32(Sigma0(v[at(0)]), Maj(v[at(0)], v[at(1)], v[at(2)])))]
Round(i, v, k, word) ==
    LET at(r) == (r - i) % 8
    IN  RoundBy(i, v, Add32(v[at(7)], Add32(Sigma1(v[at(4)]),
                        Add32(Ch(v[at(4)], v[at(5)], v[at(6)]), Add32(WordOf(k[1], k[2]), word)))))
RECURSIVE RoundsFrom(_, _, _)
RoundsFrom(i, v, w) ==
    LET With(now) == RoundsFrom(i + 1, Round(i, v, RoundWords[i + 1], now), [w EXCEPT ![i % 16] = now])
    IN  IF i = 64 THEN v ELSE With(Word(w, i))

sha256_transform(s, chunk) ==
    LET v == RoundsFrom(0, s, [i \in 0..15 |-> WordAt(chunk, 4 * i + 1)])
    IN  [i \in 0..7 |-> Add32(s[i], v[i])]
-----------------------------------------------------------------------------
(* A hash in progress: the words, the bytes of the buffer that count, and   *)
(* the number of bytes so far.                                              *)

sha256_initialize ==
    LET start ==
      << <<27145, 58983>>, <<47975, 44677>>, <<15470, 62322>>, <<42319, 62778>>,
       <<20750, 21119>>, <<39685, 26764>>, <<8067, 55723>>, <<23520, 52505>> >>
    IN  [s |-> [i \in 0..7 |-> WordOf(start[i + 1][1], start[i + 1][2])], buf |-> <<>>, bytes |-> 0]

RECURSIVE FillFrom(_, _)
FillFrom(hash, data) ==
    IF Len(hash.buf) + Len(data) < Block THEN [hash EXCEPT !.buf = @ \o data]
    ELSE LET taken == Block - Len(hash.buf)
         IN  FillFrom([hash EXCEPT !.s = sha256_transform(@, hash.buf \o SubSeq(data, 1, taken)),
                                   !.buf = <<>>],
                      SubSeq(data, taken + 1, Len(data)))
sha256_write(hash, data) ==
    FillFrom([hash EXCEPT !.buf = SubSeq(@, 1, hash.bytes % Block), !.bytes = @ + Len(data)], data)

\* Mutant: a byte of padding too few.
PaddingOfShort(bytes) == [i \in 1..1 + ((118 - (bytes % Block)) % Block) |-> IF i = 1 THEN 128 ELSE 0]

\* A one bit, zeros up to 8 bytes before the end of a block, and the number of bits
\* in two words.
PaddingOf(bytes) == [i \in 1..1 + ((119 - (bytes % Block)) % Block) |-> IF i = 1 THEN 128 ELSE 0]
LengthBytes(v) == [i \in 1..4 |-> (v \div 256 ^ (4 - i)) % 256]
sha256_finalize(hash) ==
    LET size == LengthBytes(hash.bytes \div 2 ^ 29) \o LengthBytes((hash.bytes % 2 ^ 29) * 8)
        padded == sha256_write(sha256_write(hash, PaddingOf(hash.bytes)), size)
    IN  [i \in 1..Digest |-> BytesOfWord(padded.s[(i - 1) \div 4])[((i - 1) % 4) + 1]]

sha256(data) == sha256_finalize(sha256_write(sha256_initialize, data))

Filled(bytes, n) == [i \in 1..n |-> IF i <= Len(bytes) THEN bytes[i] ELSE 0]
PaddedHash(rkey, c) == sha256_write(sha256_initialize, [i \in 1..Block |-> XorByte(rkey[i], c)])
KeyedHash(rkey) == [outer |-> PaddedHash(rkey, 92), inner |-> PaddedHash(rkey, 54)]
hmac_sha256_initialize(key) ==
    KeyedHash(Filled(IF Len(key) <= Block THEN key ELSE sha256(key), Block))
hmac_sha256_write(hash, data) == [hash EXCEPT !.inner = sha256_write(@, data)]
hmac_sha256_finalize(hash) == sha256_finalize(sha256_write(hash.outer, sha256_finalize(hash.inner)))

Hmac(key, data) == hmac_sha256_finalize(hmac_sha256_write(hmac_sha256_initialize(key), data))

\* The key is replaced, and v with the new key.
WithKey(rng, k) == [rng EXCEPT !.k = k, !.v = Hmac(k, @)]
Renewed(rng, seed) == WithKey(rng, Hmac(rng.k, rng.v \o seed))
rfc6979_hmac_sha256_initialize(key) ==
    LET blank == [k |-> [i \in 1..Digest |-> 0], v |-> [i \in 1..Digest |-> 1], retry |-> FALSE]
    IN  Renewed(Renewed(blank, <<0>> \o key), <<1>> \o key)

RECURSIVE OutputFrom(_, _, _)
OutputFrom(rng, out, outlen) ==
    LET On(next) == OutputFrom(next, out \o next.v, outlen)
    IN  IF Len(out) >= outlen THEN [rng |-> [rng EXCEPT !.retry = TRUE], out |-> SubSeq(out, 1, outlen)]
        ELSE On([rng EXCEPT !.v = Hmac(rng.k, @)])
\* A second call first does what RFC 6979 asks for after a nonce was refused.
rfc6979_hmac_sha256_generate(rng, outlen) ==
    OutputFrom(IF rng.retry THEN Renewed(rng, <<0>>) ELSE rng, <<>>, outlen)

\* The key, the message, and if they are given the data and the name of the
\* algorithm: lengths that tell the mixtures apart.
keydata(key32, msg32, data, algo16) == key32 \o msg32 \o data \o algo16

RECURSIVE GenerateTimes(_, _)
GenerateTimes(rng, count) ==
    LET On(g) == IF count = 0 THEN g.out ELSE GenerateTimes(g.rng, count - 1)
    IN  On(rfc6979_hmac_sha256_generate(rng, Digest))
nonce_function_rfc6979(msg32, key32, algo16, data, counter) ==
    GenerateTimes(rfc6979_hmac_sha256_initialize(keydata(key32, msg32, data, algo16)), counter)
=============================================================================
