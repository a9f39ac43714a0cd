----------------------------- MODULE MCBlockScan -----------------------------
(* Small instances of BlockScan for TLC. *)
EXTENDS BlockScan, TLC

CONSTANTS p1, p2, m1

OneProc == {p1}
TwoProcs == {p1, p2}
OneMutex == {m1}
Shared == [p \in Procs |-> m1]

Symmetry == Permutations(Procs)

\* Two blocks can be mined at a height: one with a single transaction and one with
\* two, or an empty one and one with a single transaction.
TwoVersions == {1, 2}
OneOrTwo == <<1, 2>>
NoneOrOne == <<0, 1>>

\* Numbers are written in base 2 or 3, so that the digits of the heights that a
\* run records have two different lengths.
DigitsOf(n) == CHOOSE k \in 1..(n + 1) : n < Radix ^ k /\ (k = 1 \/ Radix ^ (k - 1) <= n)
=============================================================================
