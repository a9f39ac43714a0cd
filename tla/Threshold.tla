------------------------------ MODULE Threshold ------------------------------
(***************************************************************************)
(* What libs/crypto/multisig promises: a multisignature holds, for each     *)
(* cosigner that has signed, the last signature that was given for it, in   *)
(* whatever order they came; and it satisfies the key when enough cosigners *)
(* have signed and each signature is genuine.                               *)
(***************************************************************************)
EXTENDS Integers, Sequences, FiniteSets

CONSTANTS Keys, K,      \* the cosigners' keys in order, and how many must sign
          Signatures,
          Genuine       \* pairs of a key and a signature that it verifies

VARIABLE given          \* cosigner's index -> signature, for those that signed

Cosigners == DOMAIN given

Init == given = [i \in {} |-> i]

Give(i, sig) == given' = [j \in Cosigners \cup {i} |-> IF j = i THEN sig ELSE given[j]]

\* Of those who have signed then, one has just done so.  Indices count from 0.
Next == \E i \in Cosigners', sig \in Signatures : i < Len(Keys) /\ Give(i, sig)

Spec == Init /\ [][Next]_given

Satisfied ==
    /\ Cardinality(Cosigners) >= K
    /\ \A i \in Cosigners : <<Keys[i + 1], given[i]>> \in Genuine
=============================================================================
