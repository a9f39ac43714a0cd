------------------------------- MODULE Hashing -------------------------------
(***************************************************************************)
(* Users of the hashes of module Sha256: a message is hashed, or keyed and  *)
(* hashed, in writes of any sizes, or a generator is made and asked for     *)
(* numbers, on inputs whose results are known.                              *)
(***************************************************************************)
EXTENDS Sha256

CONSTANTS ShaVectors,    \* [input, output]
          HmacVectors,   \* [key, input, output]
          RngVectors,    \* [key, outputs]
          WriteSizes     \* how many bytes are written at a time

VARIABLES hjob,     \* what is computed, on which vector
          hstate,   \* the hash, the pair of hashes or the generator
          fed,      \* the bytes written, or the numbers that were generated
          hout      \* the last result

hashVars == <<hjob, hstate, fed, hout>>

NoJob == [kind |-> "none"]

HashInit == hjob = NoJob /\ hstate = <<>> /\ fed = 0 /\ hout = <<>>

HashStart(job, state) ==
    /\ hjob = NoJob
    /\ hjob' = job /\ hstate' = state /\ fed' = 0 /\ hout' = <<>>

HashWrite(n) ==
    /\ hjob.kind \in {"sha", "hmac"} /\ hout = <<>> /\ fed + n <= Len(hjob.vector.input)
    /\ LET data == SubSeq(hjob.vector.input, fed + 1, fed + n)
       IN  hstate' = IF hjob.kind = "sha" THEN sha256_write(hstate, data)
                                          ELSE hmac_sha256_write(hstate, data)
    /\ fed' = fed + n
    /\ UNCHANGED <<hjob, hout>>

HashFinish ==
    /\ hjob.kind \in {"sha", "hmac"} /\ hout = <<>> /\ fed = Len(hjob.vector.input)
    /\ hout' = IF hjob.kind = "sha" THEN sha256_finalize(hstate) ELSE hmac_sha256_finalize(hstate)
    /\ UNCHANGED <<hjob, hstate, fed>>

HashGenerate ==
    /\ hjob.kind = "rng" /\ fed < Len(hjob.vector.outputs)
    /\ LET g == rfc6979_hmac_sha256_generate(hstate, Digest)
       IN  hstate' = g.rng /\ hout' = g.out
    /\ fed' = fed + 1
    /\ UNCHANGED hjob

\* The memory is cleared.
HashDone == hout # <<>> /\ hjob' = NoJob /\ hstate' = <<>> /\ fed' = 0 /\ hout' = <<>>

HashNext ==
    \/ \E v \in ShaVectors : HashStart([kind |-> "sha", vector |-> v], sha256_initialize)
    \/ \E v \in HmacVectors : HashStart([kind |-> "hmac", vector |-> v], hmac_sha256_initialize(v.key))
    \/ \E v \in RngVectors : HashStart([kind |-> "rng", vector |-> v], rfc6979_hmac_sha256_initialize(v.key))
    \/ \E n \in WriteSizes : HashWrite(n)
    \/ HashFinish
    \/ HashGenerate
    \/ HashDone

HashSpec == HashInit /\ [][HashNext]_hashVars
-----------------------------------------------------------------------------
\* In whatever pieces the bytes came, the result is the known one; the numbers of
\* the generator come in the known order; and the nonce function gives, for each
\* count, the number that so many refused ones lead to, without the generator's
\* state being kept from one call to the next.
HashExact ==
    hout # <<>> =>
        /\ hjob.kind \in {"sha", "hmac"} => hout = hjob.vector.output
        /\ hjob.kind = "rng" =>
             LET key == hjob.vector.key
             IN  /\ hout = hjob.vector.outputs[fed]
                 /\ hout = nonce_function_rfc6979(SubSeq(key, Digest + 1, 2 * Digest),
                                                  SubSeq(key, 1, Digest), <<>>, <<>>, fed - 1)
=============================================================================
