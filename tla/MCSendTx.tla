------------------------------ MODULE MCSendTx ------------------------------
(* Instances of SendTx for TLC. *)
EXTENDS SendTx, TLC

CONSTANTS p1, p2, p3

\* Two payments, one by every kind of call and one by the kinds that differ in
\* how they get their nonce.
AnyKind == (p1 :> Kinds) @@ (p2 :> {"SendSync", "SendContractSyncWithNonce"})

\* Three calls of SendContractSyncWithNonce, as TestJk_SendContractSyncWithNonce
\* makes them.
BatchKind == [p \in Payments |-> {"SendContractSyncWithNonce"}]

\* Its nonces are consecutive and start with the account's next one.
BatchNonces ==
    (p1 :> {FirstNonce}) @@ (p2 :> {FirstNonce + 1}) @@ (p3 :> {FirstNonce + 2})

AnyNonces == [p \in Payments |-> 0..1]
=============================================================================
