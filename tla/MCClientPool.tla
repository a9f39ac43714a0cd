---------------------------- MODULE MCClientPool ----------------------------
(* Small instances of ClientPool for TLC. *)
EXTENDS ClientPool, TLC

CONSTANTS g1, g2, g3, c1, c2, c3, c4, c5

TwoGoroutines == {g1, g2}
ThreeGoroutines == {g1, g2, g3}
OneScanner == {g1}

ThreeClients == {c1, c2, c3}
FourClients == {c1, c2, c3, c4}
FiveClients == {c1, c2, c3, c4, c5}

\* The scanners are told apart, so only the plain goroutines are permuted.
Symmetry ==
    Permutations(Clients) \cup Permutations(Goroutines \ Scanners)
=============================================================================
