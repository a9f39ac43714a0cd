------------------------------ MODULE HashVectors -----------------------------
(***************************************************************************)
(* The inputs and outputs of run_sha256_tests, run_hmac_sha256_tests and    *)
(* run_rfc6979_hmac_sha256_tests of libsecp256k1's tests.c.                 *)
(***************************************************************************)
EXTENDS Integers, Sequences

\* A short input, one whose padding needs a block of its own, one that fills all
\* but a byte of a block, one of more than a block.
TestedSha ==
    {[input |-> <<97, 98, 99>>,
      output |-> <<186, 120, 22, 191, 143, 1, 207, 234, 65, 65, 64, 222, 93,
                 174, 34, 35, 176, 3, 97, 163, 150, 23, 122, 156, 180, 16,
                 255, 97, 242, 0, 21, 173>>],
     [input |-> <<97, 98, 99, 100, 98, 99, 100, 101, 99, 100, 101, 102, 100,
                101, 102, 103, 101, 102, 103, 104, 102, 103, 104, 105, 103,
                104, 105, 106, 104, 105, 106, 107, 105, 106, 107, 108, 106,
                107, 108, 109, 107, 108, 109, 110, 108, 109, 110, 111, 109,
                110, 111, 112, 110, 111, 112, 113>>,
      output |-> <<36, 141, 106, 97, 210, 6, 56, 184, 229, 192, 38, 147, 12,
                 62, 96, 57, 163, 60, 228, 89, 100, 255, 33, 103, 246, 236,
                 237, 212, 25, 219, 6, 193>>],
     [input |-> <<70, 111, 114, 32, 116, 104, 105, 115, 32, 115, 97, 109, 112,
                108, 101, 44, 32, 116, 104, 105, 115, 32, 54, 51, 45, 98, 121,
                116, 101, 32, 115, 116, 114, 105, 110, 103, 32, 119, 105, 108,
                108, 32, 98, 101, 32, 117, 115, 101, 100, 32, 97, 115, 32,
                105, 110, 112, 117, 116, 32, 100, 97, 116, 97>>,
      output |-> <<240, 138, 120, 203, 186, 238, 8, 43, 5, 42, 224, 112, 143,
                 50, 250, 30, 80, 197, 196, 33, 170, 119, 43, 165, 219, 180,
                 6, 162, 234, 107, 227, 66>>],
     [input |-> <<84, 104, 105, 115, 32, 105, 115, 32, 101, 120, 97, 99, 116,
                108, 121, 32, 54, 52, 32, 98, 121, 116, 101, 115, 32, 108,
                111, 110, 103, 44, 32, 110, 111, 116, 32, 99, 111, 117, 110,
                116, 105, 110, 103, 32, 116, 104, 101, 32, 116, 101, 114, 109,
                105, 110, 97, 116, 105, 110, 103, 32, 98, 121, 116, 101>>,
      output |-> <<171, 100, 239, 247, 232, 142, 46, 70, 22, 94, 41, 242, 188,
                 228, 24, 38, 189, 76, 123, 53, 82, 246, 179, 130, 169, 231,
                 211, 175, 71, 194, 69, 248>>]}

\* A short key, and one longer than a block, which is hashed first.
TestedHmac ==
    {[key |-> [i \in 1..20 |-> 11],
      input |-> <<72, 105, 32, 84, 104, 101, 114, 101>>,
      output |-> <<176, 52, 76, 97, 216, 219, 56, 83, 92, 168, 175, 206, 175,
                 11, 241, 43, 136, 29, 194, 0, 201, 131, 61, 167, 38, 233, 55,
                 108, 46, 50, 207, 247>>],
     [key |-> [i \in 1..131 |-> 170],
      input |-> <<84, 101, 115, 116, 32, 85, 115, 105, 110, 103, 32, 76, 97,
                114, 103, 101, 114, 32, 84, 104, 97, 110, 32, 66, 108, 111,
                99, 107, 45, 83, 105, 122, 101, 32, 75, 101, 121, 32, 45, 32,
                72, 97, 115, 104, 32, 75, 101, 121, 32, 70, 105, 114, 115,
                116>>,
      output |-> <<96, 228, 49, 89, 30, 224, 182, 127, 13, 138, 38, 170, 203,
                 245, 183, 127, 142, 11, 198, 33, 55, 40, 197, 20, 5, 70, 4,
                 15, 14, 227, 127, 84>>]}

TestedRng ==
    {[key |-> <<1, 2, 3, 4, 5, 6, 7, 8, 9, 10, 11, 12, 13, 14, 15, 16, 17, 18,
              19, 20, 21, 22, 23, 24, 25, 26, 27, 28, 29, 30, 31, 0, 75, 245,
              18, 47, 52, 69, 84, 197, 59, 222, 46, 187, 140, 210, 183, 227,
              209, 96, 10, 214, 49, 195, 133, 165, 215, 204, 226, 60, 119,
              133, 69, 154>>,
      outputs |-> <<<<79, 226, 149, 37, 178, 8, 104, 9, 21, 154, 205, 240, 80, 110, 251,
          134, 176, 236, 147, 44, 123, 164, 66, 86, 171, 50, 30, 66, 30, 103,
          233, 251>>,
        <<43, 240, 255, 241, 211, 195, 120, 162, 45, 197, 222, 29, 133, 101,
          34, 50, 92, 101, 181, 4, 73, 26, 12, 189, 1, 203, 143, 58, 166, 127,
          253, 74>>,
        <<245, 40, 180, 16, 203, 84, 31, 119, 0, 13, 122, 251, 108, 91, 83,
          197, 196, 113, 234, 180, 62, 70, 109, 154, 197, 25, 12, 57, 200, 47,
          216, 46>>>>]}
=============================================================================
