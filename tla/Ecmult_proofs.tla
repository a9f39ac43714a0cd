----------------------------- MODULE Ecmult_proofs -----------------------------
(***************************************************************************)
(* Proofs about EcmultGen and Ecmult, for every curve, table size, window   *)
(* and scalar.  First loops: the recursive functions of the model exist and *)
(* are what their definitions say, by induction on the numbers.  Then       *)
(* powers of two and the digits of a number; records that stand for n * G;  *)
(* the table of ecmult_gen, entry by entry; its rows, and the invariant of  *)
(* the blinding.  Then the recodings: the loop of ecmult_wnaf and the       *)
(* rounds of wnaf_const lose nothing of the scalar and make odd digits.     *)
(* Last the tables of odd multiples, the lookups, and the invariant of the  *)
(* two multiplications.                                                     *)
(***************************************************************************)
EXTENDS Ecmult, EcmultGen, FiniteSetTheorems, Group_proofs, WellFoundedInduction, NaturalsInduction

\* Induction, of the set S of numbers for which something holds.
LEMMA NatInductionSet ==
    ASSUME NEW S, 0 \in S, \A n \in Nat : n \in S => n + 1 \in S
    PROVE  \A n \in Nat : n \in S
<1> DEFINE T == {n \in Nat : n \notin S}
<1> SUFFICES ASSUME T # {} PROVE FALSE
  OBVIOUS
<1>1. T \subseteq Nat
  OBVIOUS
<1>2. PICK x \in T : \A y \in T : ~(<<y, x>> \in OpToRel(<, Nat))
  BY <1>1, NatLessThanWellFounded, WFMin
<1>3. x \in Nat /\ x # 0 /\ x - 1 \in Nat /\ x - 1 < x /\ (x - 1) + 1 = x
  OBVIOUS
<1>4. x - 1 \in S
  BY <1>2, <1>3 DEF OpToRel
<1>5. x \in S
  BY <1>3, <1>4
<1> QED
  BY <1>5

\* f follows the step function G from f0, for m steps.
Follows(f, f0, G, m, S) ==
    f \in [0..m -> S] /\ f[0] = f0 /\ \A i \in 1..m : f[i] = G[<<i, f[i - 1]>>]

\* A step function and a start have a sequence of every length that follows them.
LEMMA Recursion ==
    ASSUME NEW S, NEW N \in Nat, NEW f0 \in S, NEW G \in [(1..N) \X S -> S]
    PROVE  \E f : Follows(f, f0, G, N, S)
<1> DEFINE T == {k \in Nat : k <= N => \E f : Follows(f, f0, G, k, S)}
<1>1. 0 \in T
  <2> DEFINE f == [i \in 0..0 |-> f0]
  <2>1. f \in [0..0 -> S] /\ f[0] = f0 /\ 1..0 = {}
    OBVIOUS
  <2>2. Follows(f, f0, G, 0, S)
    BY <2>1 DEF Follows
  <2> QED
    BY <2>2
<1>2. ASSUME NEW m \in Nat, m \in T PROVE m + 1 \in T
  <2>0. SUFFICES ASSUME m + 1 <= N PROVE \E f : Follows(f, f0, G, m + 1, S)
    OBVIOUS
  <2>1. PICK f : Follows(f, f0, G, m, S)
    BY <1>2, <2>0
  <2> DEFINE g == [i \in 0..m+1 |-> IF i = m + 1 THEN G[<<m + 1, f[m]>>] ELSE f[i]]
  <2>2. <<m + 1, f[m]>> \in (1..N) \X S /\ f \in [0..m -> S] /\ f[0] = f0
    BY <2>0, <2>1 DEF Follows
  <2>3. g \in [0..m+1 -> S] /\ g[0] = f0
    BY <2>2
  <2>4. ASSUME NEW i \in 1..m+1 PROVE g[i] = G[<<i, g[i - 1]>>]
    <3>1. CASE i = m + 1
      <4>1. g[i] = G[<<m + 1, f[m]>>] /\ g[i - 1] = f[m]
        BY <3>1
      <4> QED
        BY <3>1, <4>1
    <3>2. CASE i # m + 1
      <4>1. i \in 1..m /\ i - 1 \in 0..m
        BY <3>2
      <4>2. g[i] = f[i] /\ g[i - 1] = f[i - 1]
        BY <4>1
      <4> QED
        BY <2>1, <4>1, <4>2 DEF Follows
    <3> QED
      BY <3>1, <3>2
  <2>5. Follows(g, f0, G, m + 1, S)
    <3> HIDE DEF g
    <3> QED
      BY <2>3, <2>4 DEF Follows
  <2> QED
    BY <2>5
<1>3. N \in T
  <2> HIDE DEF T
  <2> QED
    BY <1>1, <1>2, NatInductionSet
<1> QED
  BY <1>3

\* Induction from lo up to hi.
LEMMA Upward ==
    ASSUME NEW lo \in Int, NEW hi \in Int, NEW S, lo <= hi => lo \in S,
           \A i \in lo+1..hi : i - 1 \in S => i \in S
    PROVE  \A i \in lo..hi : i \in S
<1> DEFINE T == {k \in Nat : lo + k <= hi => lo + k \in S}
<1>1. 0 \in T
  OBVIOUS
<1>2. ASSUME NEW m \in Nat, m \in T PROVE m + 1 \in T
  <2> SUFFICES ASSUME lo + (m + 1) <= hi PROVE lo + (m + 1) \in S
    OBVIOUS
  <2>1. lo + m \in S
    BY <1>2
  <2>2. lo + (m + 1) \in lo+1..hi /\ (lo + (m + 1)) - 1 = lo + m
    OBVIOUS
  <2> QED
    BY <2>1, <2>2
<1>3. \A n \in Nat : n \in T
  <2> HIDE DEF T
  <2> QED
    BY <1>1, <1>2, NatInductionSet
<1> TAKE i \in lo..hi
<1>4. i - lo \in Nat /\ lo + (i - lo) = i
  OBVIOUS
<1>5. i - lo \in T
  BY <1>3, <1>4
<1> QED
  BY <1>4, <1>5

\* Induction from hi down to lo.
LEMMA Downward ==
    ASSUME NEW lo \in Int, NEW hi \in Int, NEW S, lo <= hi => hi \in S,
           \A i \in lo..hi-1 : i + 1 \in S => i \in S
    PROVE  \A i \in lo..hi : i \in S
<1> DEFINE T == {k \in lo..hi : lo + hi - k \in S}
<1>1. lo <= hi => lo \in T
  BY lo + hi - lo = hi
<1>2. ASSUME NEW i \in lo+1..hi, i - 1 \in T PROVE i \in T
  <2>1. lo + hi - (i - 1) \in S /\ lo + hi - i \in lo..hi-1 /\ (lo + hi - i) + 1 = lo + hi - (i - 1)
    BY <1>2
  <2> QED
    BY <2>1
<1>3. \A i \in lo..hi : i \in T
  <2> HIDE DEF T
  <2> QED
    BY <1>1, <1>2, Upward
<1> TAKE i \in lo..hi
<1>4. lo + hi - i \in lo..hi /\ lo + hi - (lo + hi - i) = i
  OBVIOUS
<1>5. lo + hi - i \in T
  BY <1>3, <1>4
<1> QED
  BY <1>4, <1>5

\* The recursive functions of the model: a loop from lo up, whose step may read its index.
UpLoop(f, lo, hi, f0, G) ==
    f = [i \in lo..hi |-> IF i = lo THEN f0 ELSE G[<<i, f[i - 1]>>]]

\* And one from hi down.
DownLoop(f, lo, hi, f0, G) ==
    f = [i \in lo..hi |-> IF i = hi THEN f0 ELSE G[<<i, f[i + 1]>>]]

\* Such a loop exists: what the model's recursive definitions choose is such a function.
LEMMA LoopUp ==
    ASSUME NEW S, NEW lo \in Int, NEW hi \in Int, NEW f0 \in S,
           NEW G \in [(lo+1..hi) \X S -> S]
    PROVE  \E f \in [lo..hi -> S] : UpLoop(f, lo, hi, f0, G)
<1>1. CASE lo > hi
  <2> DEFINE f == [i \in lo..hi |-> f0]
  <2>1. lo..hi = {}
    BY <1>1
  <2>2. f \in [lo..hi -> S] /\ f = [i \in lo..hi |-> IF i = lo THEN f0 ELSE G[<<i, f[i - 1]>>]]
    BY <2>1
  <2> QED
    BY <2>2 DEF UpLoop
<1>2. CASE lo <= hi
  <2> DEFINE N == hi - lo
             H == [p \in (1..N) \X S |-> G[<<lo + p[1], p[2]>>]]
  <2>0. N \in Nat
    BY <1>2
  <2>1. ASSUME NEW j \in 1..N, NEW s \in S
        PROVE  H[<<j, s>>] = G[<<lo + j, s>>] /\ G[<<lo + j, s>>] \in S
    <3>1. <<lo + j, s>> \in (lo+1..hi) \X S
      BY <1>2
    <3> QED
      BY <3>1
  <2>2. H \in [(1..N) \X S -> S]
    <3>1. ASSUME NEW p \in (1..N) \X S PROVE G[<<lo + p[1], p[2]>>] \in S
      <4>1. p[1] \in 1..N /\ p[2] \in S
        OBVIOUS
      <4> QED
        BY <4>1, <2>1
    <3> QED
      BY <3>1
  <2>3. PICK h : Follows(h, f0, H, N, S)
    <3> HIDE DEF H, N
    <3> QED
      BY <2>0, <2>2, Recursion
  <2> DEFINE f == [i \in lo..hi |-> h[i - lo]]
  <2>4. h \in [0..N -> S] /\ h[0] = f0 /\ \A i \in 1..N : h[i] = H[<<i, h[i - 1]>>]
    BY <2>3 DEF Follows
  <2>5. f \in [lo..hi -> S]
    BY <2>4
  <2>6. ASSUME NEW i \in lo..hi
        PROVE  f[i] = IF i = lo THEN f0 ELSE G[<<i, f[i - 1]>>]
    <3>1. CASE i = lo
      <4>1. f[i] = h[0]
        BY <3>1
      <4> QED
        BY <3>1, <4>1, <2>4
    <3>2. CASE i # lo
      <4>1. i - lo \in 1..N /\ i - 1 \in lo..hi /\ (i - lo) - 1 = (i - 1) - lo /\ lo + (i - lo) = i
        BY <3>2
      <4>2. f[i - 1] = h[(i - lo) - 1] /\ h[(i - lo) - 1] \in S
        BY <4>1, <2>4
      <4>3. f[i] = H[<<i - lo, h[(i - lo) - 1]>>]
        BY <4>1, <2>4
      <4>4. H[<<i - lo, h[(i - lo) - 1]>>] = G[<<lo + (i - lo), h[(i - lo) - 1]>>]
        <5> HIDE DEF H, N
        <5> QED
          BY <4>1, <4>2, <2>1
      <4> QED
        BY <3>2, <4>1, <4>2, <4>3, <4>4
    <3> QED
      BY <3>1, <3>2
  <2>7. f = [i \in lo..hi |-> IF i = lo THEN f0 ELSE G[<<i, f[i - 1]>>]]
    <3>1. f = [i \in lo..hi |-> f[i]]
      OBVIOUS
    <3> HIDE DEF f
    <3> QED
      BY <3>1, <2>6
  <2> QED
    BY <2>5, <2>7 DEF UpLoop
<1> QED
  BY <1>1, <1>2

\* Downward likewise.
LEMMA LoopDown ==
    ASSUME NEW S, NEW lo \in Int, NEW hi \in Int, NEW f0 \in S,
           NEW G \in [(lo..hi-1) \X S -> S]
    PROVE  \E f \in [lo..hi -> S] : DownLoop(f, lo, hi, f0, G)
<1> DEFINE H == [p \in (lo+1..hi) \X S |-> G[<<lo + hi - p[1], p[2]>>]]
<1>1. ASSUME NEW j \in lo+1..hi, NEW s \in S
      PROVE  H[<<j, s>>] = G[<<lo + hi - j, s>>] /\ G[<<lo + hi - j, s>>] \in S
  <2>1. <<lo + hi - j, s>> \in (lo..hi-1) \X S
    OBVIOUS
  <2> QED
    BY <2>1
<1>2. H \in [(lo+1..hi) \X S -> S]
  <2>1. ASSUME NEW p \in (lo+1..hi) \X S PROVE G[<<lo + hi - p[1], p[2]>>] \in S
    <3>1. p[1] \in lo+1..hi /\ p[2] \in S
      OBVIOUS
    <3> QED
      BY <3>1, <1>1
  <2> QED
    BY <2>1
<1>3. PICK h \in [lo..hi -> S] : UpLoop(h, lo, hi, f0, H)
  <2> HIDE DEF H
  <2> QED
    BY <1>2, LoopUp
<1> DEFINE f == [i \in lo..hi |-> h[lo + hi - i]]
<1>4. f \in [lo..hi -> S]
  OBVIOUS
<1>5. ASSUME NEW i \in lo..hi
      PROVE  f[i] = IF i = hi THEN f0 ELSE G[<<i, f[i + 1]>>]
  <2> DEFINE j == lo + hi - i
  <2>1. j \in lo..hi /\ lo + hi - j = i
    OBVIOUS
  <2>2. h[j] = IF j = lo THEN f0 ELSE H[<<j, h[j - 1]>>]
    <3> HIDE DEF H, j
    <3> QED
      BY <1>3, <2>1 DEF UpLoop
  <2>3. CASE i = hi
    <3>1. f[i] = h[j] /\ j = lo
      BY <2>3
    <3> QED
      BY <3>1, <2>2, <2>3
  <2>4. CASE i # hi
    <3>1. j \in lo+1..hi /\ i + 1 \in lo..hi /\ j - 1 = lo + hi - (i + 1) /\ j # lo /\ j - 1 \in lo..hi
      BY <2>4
    <3>2. f[i + 1] = h[j - 1] /\ h[j - 1] \in S /\ f[i] = h[j]
      BY <3>1
    <3>3. H[<<j, h[j - 1]>>] = G[<<lo + hi - j, h[j - 1]>>]
      <4> HIDE DEF H, j
      <4> QED
        BY <3>1, <3>2, <1>1
    <3> QED
      BY <2>1, <2>2, <2>4, <3>1, <3>2, <3>3
  <2> QED
    BY <2>3, <2>4
<1>6. f = [i \in lo..hi |-> IF i = hi THEN f0 ELSE G[<<i, f[i + 1]>>]]
  <2>1. f = [i \in lo..hi |-> f[i]]
    OBVIOUS
  <2> HIDE DEF f
  <2> QED
    BY <2>1, <1>5
<1> QED
  BY <1>4, <1>6 DEF DownLoop

\* A loop that starts at 0.
LEMMA Loop0 ==
    ASSUME NEW S, NEW hi \in Int, NEW f0 \in S, NEW G \in [(1..hi) \X S -> S]
    PROVE  \E f \in [0..hi -> S] : UpLoop(f, 0, hi, f0, G)
<1> SUFFICES ASSUME NEW lo \in Int, lo = 0
             PROVE  \E f \in [lo..hi -> S] : UpLoop(f, lo, hi, f0, G)
  OBVIOUS
<1>1. lo + 1 = 1
  OBVIOUS
<1>2. G \in [(lo+1..hi) \X S -> S]
  BY <1>1, Zenon
<1> QED
  BY <1>2, LoopUp

\* A loop that starts at 1.
LEMMA Loop1 ==
    ASSUME NEW S, NEW hi \in Int, NEW f0 \in S, NEW G \in [(2..hi) \X S -> S]
    PROVE  \E f \in [1..hi -> S] : UpLoop(f, 1, hi, f0, G)
<1> SUFFICES ASSUME NEW lo \in Int, lo = 1
             PROVE  \E f \in [lo..hi -> S] : UpLoop(f, lo, hi, f0, G)
  OBVIOUS
<1>1. lo + 1 = 2
  OBVIOUS
<1>2. G \in [(lo+1..hi) \X S -> S]
  BY <1>1, Zenon
<1> QED
  BY <1>2, LoopUp
-----------------------------------------------------------------------------
\* f[n] is f0 with G applied n times.
Powers(f, f0, G) == f = [n \in Nat |-> IF n = 0 THEN f0 ELSE G[f[n - 1]]]

\* h is what the recursion gives up to n.
UpTo(h, n, f0, G, S) ==
    h \in [0..n -> S] /\ h[0] = f0 /\ \A i \in 1..n : h[i] = G[h[i - 1]]

\* It exists for every n,
LEMMA UpToExists ==
    ASSUME NEW S, NEW f0 \in S, NEW G \in [S -> S], NEW n \in Nat
    PROVE  \E h : UpTo(h, n, f0, G, S)
<1> DEFINE H == [p \in (1..n) \X S |-> G[p[2]]]
<1>1. H \in [(1..n) \X S -> S]
  OBVIOUS
<1>2. PICK h : Follows(h, f0, H, n, S)
  <2> HIDE DEF H
  <2> QED
    BY <1>1, Recursion
<1>3. h \in [0..n -> S] /\ h[0] = f0 /\ \A i \in 1..n : h[i] = H[<<i, h[i - 1]>>]
  BY <1>2 DEF Follows
<1>4. ASSUME NEW i \in 1..n PROVE h[i] = G[h[i - 1]]
  <2>1. h[i - 1] \in S
    BY <1>3
  <2>2. H[<<i, h[i - 1]>>] = G[h[i - 1]]
    BY <2>1
  <2> HIDE DEF H
  <2> QED
    BY <1>3, <2>2
<1> QED
  BY <1>3, <1>4 DEF UpTo

\* and the longer ones go on from the shorter ones.
LEMMA UpToSame ==
    ASSUME NEW S, NEW f0 \in S, NEW G \in [S -> S], NEW n \in Nat, NEW m \in Nat,
           NEW g, UpTo(g, n, f0, G, S), NEW h, UpTo(h, m, f0, G, S)
    PROVE  \A i \in 0..n : i <= m => g[i] = h[i]
<1> DEFINE T == {i \in 0..n : i <= m => g[i] = h[i]}
<1>1. 0 \in T
  BY DEF UpTo
<1>2. ASSUME NEW i \in 1..n, i - 1 \in T PROVE i \in T
  BY <1>2 DEF UpTo
<1>3. \A i \in 0..n : i \in T
  <2>1. \A i \in 0+1..n : i - 1 \in T => i \in T
    BY <1>2
  <2> HIDE DEF T
  <2> QED
    BY <1>1, <2>1, Upward
<1> QED
  BY <1>3

\* Hence a recursive function on all numbers exists, as Pow2 is one.
LEMMA PowersExist ==
    ASSUME NEW S, NEW f0 \in S, NEW G \in [S -> S]
    PROVE  \E f \in [Nat -> S] : Powers(f, f0, G)
<1> DEFINE h(n) == CHOOSE h : UpTo(h, n, f0, G, S)
           f == [n \in Nat |-> h(n)[n]]
<1>1. ASSUME NEW n \in Nat PROVE UpTo(h(n), n, f0, G, S)
  BY UpToExists
<1>2. ASSUME NEW n \in Nat PROVE h(n)[n] \in S /\ h(n)[0] = f0 /\ (n # 0 => h(n)[n] = G[h(n)[n - 1]])
  <2>1. UpTo(h(n), n, f0, G, S)
    BY <1>1
  <2> HIDE DEF h
  <2> QED
    BY <2>1 DEF UpTo
<1>3. ASSUME NEW n \in Nat, n # 0 PROVE h(n)[n - 1] = h(n - 1)[n - 1]
  <2>1. UpTo(h(n), n, f0, G, S) /\ UpTo(h(n - 1), n - 1, f0, G, S) /\ n - 1 \in Nat /\ n - 1 \in 0..n
        /\ n - 1 <= n - 1
    BY <1>1, <1>3
  <2> HIDE DEF h
  <2> QED
    BY <2>1, UpToSame
<1>4. f \in [Nat -> S]
  BY <1>2
<1>5. ASSUME NEW n \in Nat PROVE f[n] = IF n = 0 THEN f0 ELSE G[f[n - 1]]
  <2>1. CASE n = 0
    BY <2>1, <1>2
  <2>2. CASE n # 0
    <3>1. n - 1 \in Nat /\ f[n] = h(n)[n] /\ f[n - 1] = h(n - 1)[n - 1]
      BY <2>2
    <3> HIDE DEF h, f
    <3> QED
      BY <3>1, <1>2, <1>3, <2>2
  <2> QED
    BY <2>1, <2>2
<1>6. f = [n \in Nat |-> IF n = 0 THEN f0 ELSE G[f[n - 1]]]
  <2>1. f = [n \in Nat |-> f[n]]
    OBVIOUS
  <2> HIDE DEF f
  <2> QED
    BY <2>1, <1>5
<1> QED
  BY <1>4, <1>6 DEF Powers

\* Pow2 is the power of two: the step of its recursion.
LEMMA Pow2Step ==
    /\ Pow2 \in [Nat -> Nat] /\ Pow2[0] = 1
    /\ \A n \in Nat : Pow2[n + 1] = 2 * Pow2[n]
<1> DEFINE G == [i \in Nat |-> 2 * i]
           F(g) == [n \in Nat |-> IF n = 0 THEN 1 ELSE 2 * g[n - 1]]
<1>1. G \in [Nat -> Nat]
  OBVIOUS
<1>2. PICK f \in [Nat -> Nat] : Powers(f, 1, G)
  <2> HIDE DEF G
  <2> QED
    BY <1>1, PowersExist
<1>3. f = F(f)
  <2>1. \A n \in Nat : n # 0 => f[n - 1] \in Nat /\ G[f[n - 1]] = 2 * f[n - 1]
    OBVIOUS
  <2> HIDE DEF G
  <2> QED
    BY <1>2, <2>1 DEF Powers
<1>4. Pow2 = F(Pow2)
  BY <1>3 DEF Pow2
<1>5. Pow2[0] = 1 /\ \A n \in Nat : n # 0 => Pow2[n] = 2 * Pow2[n - 1]
  <2>1. \A n \in Nat : F(Pow2)[n] = IF n = 0 THEN 1 ELSE 2 * Pow2[n - 1]
    OBVIOUS
  <2> HIDE DEF F
  <2> QED
    BY <1>4, <2>1
<1>6. \A n \in Nat : Pow2[n + 1] = 2 * Pow2[n]
  BY <1>5
<1>7. \A n \in Nat : Pow2[n] \in Nat
  <2> DEFINE T == {n \in Nat : Pow2[n] \in Nat}
  <2>1. 0 \in T
    BY <1>5
  <2>2. ASSUME NEW n \in Nat, n \in T PROVE n + 1 \in T
    BY <2>2, <1>6
  <2>3. \A n \in Nat : n \in T
    <3> HIDE DEF T
    <3> QED
      BY <2>1, <2>2, NatInductionSet
  <2> QED
    BY <2>3
<1>8. Pow2 = [n \in Nat |-> Pow2[n]]
  <2>1. \A g : F(g) = [n \in Nat |-> F(g)[n]]
    OBVIOUS
  <2> HIDE DEF F
  <2> QED
    BY <1>4, <2>1
<1> QED
  BY <1>5, <1>6, <1>7, <1>8

\* Powers of two are positive and grow, ...
LEMMA Pow2Facts ==
    /\ \A n \in Nat : Pow2[n] \in Nat /\ Pow2[n] >= 1
    /\ \A n \in Nat : n # 0 => Pow2[n] = 2 * Pow2[n - 1] /\ Pow2[n] >= 2
    /\ Pow2[0] = 1 /\ Pow2[1] = 2
<1> DEFINE T == {n \in Nat : Pow2[n] \in Nat /\ Pow2[n] >= 1}
<1>1. 0 \in T
  BY Pow2Step
<1>2. ASSUME NEW n \in Nat, n \in T PROVE n + 1 \in T
  BY <1>2, Pow2Step
<1>3. \A n \in Nat : n \in T
  <2> HIDE DEF T
  <2> QED
    BY <1>1, <1>2, NatInductionSet
<1>4. ASSUME NEW n \in Nat, n # 0 PROVE Pow2[n] = 2 * Pow2[n - 1] /\ Pow2[n] >= 2
  <2>1. n - 1 \in Nat /\ (n - 1) + 1 = n
    BY <1>4
  <2>2. Pow2[n - 1] \in Nat /\ Pow2[n - 1] >= 1
    BY <1>3, <2>1
  <2>3. Pow2[n] = 2 * Pow2[n - 1]
    BY Pow2Step, <2>1
  <2> QED
    BY <2>2, <2>3
<1>5. Pow2[1] = 2
  <2>1. 1 \in Nat /\ 1 # 0 /\ 1 - 1 = 0
    OBVIOUS
  <2>2. Pow2[1] = 2 * Pow2[1 - 1]
    BY <1>4, <2>1
  <2> QED
    BY <2>1, <2>2, Pow2Step
<1> QED
  BY <1>3, <1>4, <1>5, Pow2Step

\* ... and the power of a sum is the product of the powers.
LEMMA Pow2Sum ==
    ASSUME NEW a \in Nat, NEW b \in Nat
    PROVE  Pow2[a + b] = Pow2[a] * Pow2[b]
<1> DEFINE T == {n \in Nat : Pow2[a + n] = Pow2[a] * Pow2[n]}
<1>1. 0 \in T
  BY Pow2Facts
<1>2. ASSUME NEW n \in Nat, n \in T PROVE n + 1 \in T
  <2>1. Pow2[(a + n) + 1] = 2 * Pow2[a + n] /\ Pow2[n + 1] = 2 * Pow2[n]
    BY Pow2Step
  <2>2. Pow2[a + n] = Pow2[a] * Pow2[n]
    BY <1>2
  <2>3. Pow2[a] \in Nat /\ Pow2[n] \in Nat /\ (a + n) + 1 = a + (n + 1)
    BY Pow2Facts
  <2> DEFINE x == Pow2[a]
             y == Pow2[n]
  <2>4. 2 * (x * y) = x * (2 * y)
    BY <2>3
  <2> QED
    BY <2>1, <2>2, <2>3, <2>4
<1>3. \A n \in Nat : n \in T
  <2> HIDE DEF T
  <2> QED
    BY <1>1, <1>2, NatInductionSet
<1> QED
  BY <1>3

\* More bits are more.
LEMMA Pow2Grows ==
    ASSUME NEW a \in Nat, NEW b \in Nat, a <= b
    PROVE  Pow2[a] <= Pow2[b] /\ (a < b => 2 * Pow2[a] <= Pow2[b])
<1>1. b - a \in Nat /\ a + (b - a) = b
  OBVIOUS
<1>2. Pow2[b] = Pow2[a] * Pow2[b - a]
  BY <1>1, Pow2Sum
<1>3. Pow2[a] \in Nat /\ Pow2[b - a] \in Nat /\ Pow2[b - a] >= 1 /\ (a < b => Pow2[b - a] >= 2)
  BY <1>1, Pow2Facts
<1> DEFINE x == Pow2[a]
           y == Pow2[b - a]
<1>4. x * y >= x /\ (y >= 2 => x * y >= 2 * x)
  <2>1. x \in Nat /\ y \in Nat /\ y >= 1
    BY <1>3
  <2> HIDE DEF x, y
  <2> QED
    BY <2>1
<1> QED
  BY <1>2, <1>3, <1>4

\* Quotient and remainder are determined by the remainder's range.
LEMMA DivisionUnique ==
    ASSUME NEW x \in Int, NEW m \in Nat \ {0}, NEW q \in Int, NEW r \in 0..m-1, x = m * q + r
    PROVE  x \div m = q /\ x % m = r
<1> DEFINE p == x \div m
           s == x % m
<1>1. p \in Int /\ s \in 0..m-1 /\ x = m * p + s
  OBVIOUS
<1> HIDE DEF p, s
<1>2. m * (p - q) = r - s
  BY <1>1
<1>3. p - q = 0
  <2>1. p - q >= 1 => m * (p - q) >= m
    BY <1>1
  <2>2. p - q <= -1 => m * (p - q) <= -m
    BY <1>1
  <2>3. r - s < m /\ r - s > -m
    BY <1>1
  <2> DEFINE d == m * (p - q)
  <2>4. d \in Int
    BY <1>1
  <2> HIDE DEF d
  <2> QED
    BY <1>1, <1>2, <2>1, <2>2, <2>3, <2>4 DEF d
<1>4. p = q /\ s = r
  BY <1>1, <1>2, <1>3
<1> QED
  BY <1>4 DEF p, s

\* Quotient and remainder, as a fact.
LEMMA Division ==
    ASSUME NEW x \in Int, NEW m \in Nat \ {0}
    PROVE  x \div m \in Int /\ x % m \in 0..m-1 /\ x % m \in Int /\ x = m * (x \div m) + (x % m)
           /\ (x >= 0 => x \div m >= 0)
<1>1. x \div m \in Int /\ x % m \in 0..m-1 /\ x = m * (x \div m) + (x % m)
  OBVIOUS
<1> DEFINE q == x \div m
<1>2. ASSUME x >= 0, q <= -1 PROVE FALSE
  <2>1. m * q <= -m
    <3> HIDE DEF q
    <3>1. q \in Int
      BY <1>1 DEF q
    <3> QED
      BY <1>2, <3>1
  <2> QED
    BY <1>1, <1>2, <2>1
<1> QED
  BY <1>1, <1>2

\* The digits of a number: one more digit of the remainder.
LEMMA DigitsAbove ==
    \A c \in Nat, A \in Nat \ {0}, B \in Nat \ {0} :
      /\ A * B \in Nat \ {0}
      /\ c % (A * B) = (c % A) + A * ((c \div A) % B)
      /\ c \div (A * B) = (c \div A) \div B
<1> SUFFICES ASSUME NEW c \in Nat, NEW A \in Nat \ {0}, NEW B \in Nat \ {0}
             PROVE  /\ A * B \in Nat \ {0}
                    /\ c % (A * B) = (c % A) + A * ((c \div A) % B)
                    /\ c \div (A * B) = (c \div A) \div B
  OBVIOUS
<1> DEFINE q == c \div A
           r == c % A
           t == q \div B
           s == q % B
<1>1. q \in Int /\ r \in 0..A-1 /\ c = A * q + r
  BY Division
<1>2. t \in Int /\ s \in 0..B-1 /\ q = B * t + s
  BY <1>1, Division
<1> HIDE DEF q, r, t, s
<1>3. A * B \in Nat \ {0}
  OBVIOUS
<1>4. c = (A * B) * t + (r + A * s)
  <2>1. c = A * (B * t + s) + r
    BY <1>1, <1>2
  <2> QED
    BY <1>1, <1>2, <2>1
<1>5. r + A * s \in 0..(A*B)-1
  <2>1. A * s >= 0 /\ A * s <= A * (B - 1)
    BY <1>2
  <2>2. A * (B - 1) = A * B - A
    OBVIOUS
  <2>3. A * s \in Int /\ A * B \in Int
    BY <1>2
  <2> QED
    BY <1>1, <2>1, <2>2, <2>3
<1>6. c \div (A * B) = t /\ c % (A * B) = r + A * s
  <2> DEFINE m == A * B
             v == r + A * s
  <2>1. m \in Nat \ {0} /\ v \in 0..m-1 /\ c = m * t + v
    BY <1>3, <1>4, <1>5
  <2> HIDE DEF m, v
  <2>2. c \div m = t /\ c % m = v
    BY <1>2, <2>1, DivisionUnique
  <2> QED
    BY <2>2 DEF m, v
<1> QED
  BY <1>3, <1>6 DEF q, r, t, s
-----------------------------------------------------------------------------
\* n times the generator, for any integer n.
Times(n) == Multiple[n % Order]

\* The sum of two remainders is the remainder of the sum.
LEMMA OrderSum ==
    ASSUME NEW a \in Int, NEW b \in Int
    PROVE  ((a % Order) + (b % Order)) % Order = (a + b) % Order
<1> DEFINE q == a \div Order
           r == a % Order
           s == b \div Order
           t == b % Order
           u == (r + t) \div Order
           v == (r + t) % Order
<1>1. Order \in Nat \ {0}
  BY OrderFacts
<1>2. /\ q \in Int /\ r \in 0..Order-1 /\ a = Order * q + r
      /\ s \in Int /\ t \in 0..Order-1 /\ b = Order * s + t
  BY <1>1, Division
<1>3. r + t \in Int
  BY <1>1, <1>2
<1>4. u \in Int /\ v \in 0..Order-1 /\ r + t = Order * u + v
  <2> HIDE DEF r, t
  <2> QED
    BY <1>1, <1>3, Division
<1> HIDE DEF q, r, s, t, u, v
<1>5. a + b = Order * (q + s + u) + v /\ q + s + u \in Int /\ a + b \in Int
  BY <1>1, <1>2, <1>4
<1>6. (a + b) % Order = v
  BY <1>1, <1>4, <1>5, DivisionUnique
<1> QED
  BY <1>6 DEF v, r, t

\* The multiples for any integers: they add up, and are points of the group.
LEMMA TimesFacts ==
    /\ \A n \in Int : /\ Times(n) \in GroupPoints /\ n % Order \in 0..Order-1
                      /\ Times(n) = Infinity <=> n % Order = 0
                      /\ Times(n) # Infinity => Times(n) \in CurvePoints
    /\ \A n \in 0..Order-1 : Times(n) = Multiple[n]
    /\ \A i, j \in Int : Plus(Times(i), Times(j)) = Times(i + j)
    /\ Times(0) = Infinity
<1>1. ASSUME NEW n \in Int
      PROVE  /\ Times(n) \in GroupPoints /\ n % Order \in 0..Order-1
             /\ Times(n) = Infinity <=> n % Order = 0
             /\ Times(n) # Infinity => Times(n) \in CurvePoints
  <2>1. n % Order \in 0..Order-1
    BY OrderFacts
  <2> QED
    BY <2>1, Multiples DEF Times
<1>2. ASSUME NEW n \in 0..Order-1 PROVE Times(n) = Multiple[n]
  BY OrderFacts DEF Times
<1>3. ASSUME NEW i \in Int, NEW j \in Int PROVE Plus(Times(i), Times(j)) = Times(i + j)
  <2>1. i % Order \in 0..Order-1 /\ j % Order \in 0..Order-1
    BY OrderFacts
  <2> QED
    BY <2>1, PlusMultiples, OrderSum DEF Times
<1>4. Times(0) = Infinity
  BY <1>2, OrderFacts, CurveAssumption
<1> QED
  BY <1>1, <1>2, <1>3, <1>4

\* Opposite multiples.
LEMMA TimesOpposite ==
    ASSUME NEW n \in Int
    PROVE  /\ Plus(Times(n), Times(-n)) = Infinity /\ Plus(Times(-n), Times(n)) = Infinity
           /\ Times(-n) = Multiple[(Order - (n % Order)) % Order]
<1>1. -n \in Int /\ n + (-n) = 0 /\ (-n) + n = 0
  OBVIOUS
<1>2. Plus(Times(n), Times(-n)) = Times(0) /\ Plus(Times(-n), Times(n)) = Times(0)
  BY <1>1, TimesFacts
<1>3. (-n) % Order = (Order - (n % Order)) % Order
  <2> DEFINE r == n % Order
             q == n \div Order
  <2>1. Order \in Nat \ {0} /\ Order > 2
    BY OrderFacts
  <2>2. r \in 0..Order-1 /\ q \in Int /\ n = Order * q + r
    BY <2>1, Division
  <2> HIDE DEF r, q
  <2>3. CASE r = 0
    <3>1. -n = Order * (-q) + 0 /\ 0 \in 0..Order-1 /\ -q \in Int
      BY <2>1, <2>2, <2>3
    <3>2. (-n) % Order = 0
      BY <2>1, <3>1, <1>1, DivisionUnique
    <3>3. Order = Order * 1 + 0 /\ Order \in Int
      BY <2>1
    <3>4. Order % Order = 0
      BY <2>1, <3>1, <3>3, DivisionUnique
    <3>5. Order - r = Order
      BY <2>1, <2>3
    <3> QED
      BY <3>2, <3>4, <3>5 DEF r
  <2>4. CASE r # 0
    <3>1. Order - r \in 0..Order-1
      BY <2>1, <2>2, <2>4
    <3>2. -n = Order * (-q - 1) + (Order - r) /\ -q - 1 \in Int
      BY <2>1, <2>2
    <3>3. (-n) % Order = Order - r
      BY <2>1, <3>1, <3>2, <1>1, DivisionUnique
    <3>4. (Order - r) % Order = Order - r
      BY <3>1, OrderFacts
    <3> QED
      BY <3>3, <3>4 DEF r
  <2> QED
    BY <2>3, <2>4
<1> QED
  BY <1>2, <1>3, TimesFacts DEF Times

\* Numbers that differ by a multiple of the order have the same multiple.
LEMMA TimesSame ==
    ASSUME NEW a \in Int, NEW b \in Int, NEW k \in Int, a = b + k * Order
    PROVE  Times(a) = Times(b)
<1> DEFINE q == b \div Order
           r == b % Order
<1>1. Order \in Nat \ {0}
  BY OrderFacts
<1>2. q \in Int /\ r \in 0..Order-1 /\ b = Order * q + r
  BY <1>1, Division
<1> HIDE DEF q, r
<1>3. a = Order * (q + k) + r /\ q + k \in Int
  BY <1>1, <1>2
<1>4. a % Order = r
  BY <1>1, <1>2, <1>3, DivisionUnique
<1> QED
  BY <1>4 DEF Times, r

\* The Jacobian, or the affine, record of n times the generator.
GejTimes(a, n) == GejIs(a, Times(n))
\* An affine record of the point n * G.
GeTimes(b, n) == GeIs(b, Times(n))

\* The records that stand for some multiple: what the loops over points stay in.
AnyTimes == {a \in Gej : \E n \in Int : GejTimes(a, n)}

\* Doubling doubles, adding adds, for whatever multiples.
LEMMA TimesMoves ==
    ASSUME NEW a, NEW n \in Int, GejTimes(a, n)
    PROVE  /\ a \in AnyTimes /\ a \in Gej
           /\ GejTimes(GejDoubleVar(a).r, 2 * n)
           /\ GejTimes(GejNeg(a), -n)
           /\ \A b, k : k \in Int /\ GejTimes(b, k) => GejTimes(GejAddVar(a, b).r, n + k)
           /\ \A b, k : k \in Int /\ GeTimes(b, k) =>
                /\ GejTimes(GejAddGeVar(a, b).r, n + k)
                /\ k % Order # 0 => GejTimes(GejAddGe(a, b), n + k)
<1>1. Times(n) \in GroupPoints /\ -n \in Int /\ Times(-n) \in GroupPoints
  BY TimesFacts
<1>2. a \in Gej /\ a \in AnyTimes
  BY DEF GejTimes, GejIs, GejKept, AnyTimes
<1>3. GejTimes(GejDoubleVar(a).r, 2 * n)
  <2>1. GejIs(GejDoubleVar(a).r, Plus(Times(n), Times(n)))
    BY <1>1, GejDoubleVarIs DEF GejTimes
  <2>2. Plus(Times(n), Times(n)) = Times(n + n) /\ n + n = 2 * n
    BY TimesFacts
  <2> QED
    BY <2>1, <2>2 DEF GejTimes
<1>4. GejTimes(GejNeg(a), -n)
  BY <1>1, GejNegIs, TimesOpposite DEF GejTimes
<1>5. ASSUME NEW b, NEW k \in Int, GejTimes(b, k) PROVE GejTimes(GejAddVar(a, b).r, n + k)
  BY <1>1, <1>5, TimesFacts, GejAddVarIs DEF GejTimes
<1>6. ASSUME NEW b, NEW k \in Int, GeTimes(b, k)
      PROVE  /\ GejTimes(GejAddGeVar(a, b).r, n + k)
             /\ k % Order # 0 => GejTimes(GejAddGe(a, b), n + k)
  <2>1. GejTimes(GejAddGeVar(a, b).r, n + k)
    BY <1>1, <1>6, TimesFacts, GejAddGeVarIs DEF GejTimes, GeTimes
  <2>2. ASSUME k % Order # 0 PROVE GejTimes(GejAddGe(a, b), n + k)
    <3>1. Times(k) \in CurvePoints
      BY <2>2, TimesFacts
    <3> QED
      BY <1>1, <1>6, <3>1, TimesFacts, GejAddGeIs DEF GejTimes, GeTimes
  <2> QED
    BY <2>1, <2>2
<1> QED
  BY <1>2, <1>3, <1>4, <1>5, <1>6

\* ge_const_g and its Jacobian record.
LEMMA PlusBaseTyped ==
    ASSUME NEW q \in (Values \X Values) \union {Infinity}
    PROVE  Plus(q, Base) \in (Values \X Values) \union {Infinity}
<1> DEFINE b == Base
<1>1. b \in Values \X Values
  BY CurveAssumption
<1> HIDE DEF b
<1>2. b[1] \in Int /\ b[2] \in Int /\ b # Infinity
  BY <1>1, PairOfValues
<1>3. CASE q = Infinity
  BY <1>1, <1>3, PlusInfinity DEF b
<1>4. CASE q # Infinity
  <2>1. q \in Values \X Values /\ q[1] \in Int /\ q[2] \in Int
    BY <1>4, PairOfValues
  <2> DEFINE l == Slope(q, b)
             x == (l * l - q[1] - b[1]) % P
             y == (l * (q[1] - x) - q[2]) % P
  <2>2. l \in Int
    <3>1. \A n \in Int : n % P \in Values /\ n % P \in Int
      BY ModValue
    <3>2. \A v \in Values : InverseOf[v] \in Int
      BY PrimeAssumption, PInt DEF Values
    <3>3. InverseOf[(2 * q[2]) % P] \in Int /\ InverseOf[(b[1] - q[1]) % P] \in Int
      BY <1>2, <2>1, <3>1, <3>2
    <3> DEFINE i == InverseOf[(2 * q[2]) % P]
               j == InverseOf[(b[1] - q[1]) % P]
    <3> HIDE DEF i, j
    <3>4. 3 * q[1] * q[1] * i \in Int /\ (b[2] - q[2]) * j \in Int
      BY <1>2, <2>1, <3>3 DEF i, j
    <3>5. (3 * q[1] * q[1] * i) % P \in Int /\ ((b[2] - q[2]) * j) % P \in Int
      BY <3>1, <3>4
    <3> QED
      BY <3>5 DEF Slope, i, j
  <2> HIDE DEF l
  <2>3. x \in Values /\ x \in Int
    BY <1>2, <2>1, <2>2, ModValue
  <2>4. y \in Values
    <3> HIDE DEF x
    <3> QED
      BY <1>2, <2>1, <2>2, <2>3, ModValue
  <2>5. Plus(q, b) = IF q[1] = b[1] /\ (q[2] + b[2]) % P = 0 THEN Infinity ELSE <<x, y>>
    BY <1>2, <1>4 DEF Plus, l
  <2> HIDE DEF x, y
  <2> QED
    BY <2>3, <2>4, <2>5 DEF b
<1> QED
  BY <1>3, <1>4

\* The first multiple of the generator is the generator.
LEMMA MultipleOne == Multiple[1] = Base
<1> DEFINE S == (Values \X Values) \union {Infinity}
           hi == Order - 1
           G == [p \in (1..hi) \X S |-> Plus(p[2], Base)]
           F(g) == [k \in 0..Order-1 |-> IF k = 0 THEN Infinity ELSE Plus(g[k - 1], Base)]
           h == CHOOSE g : g = F(g)
<1>1. G \in [(1..hi) \X S -> S]
  BY PlusBaseTyped
<1>2. hi \in Int /\ hi >= 1 /\ Infinity \in S
  BY OrderFacts
<1>3. PICK f \in [0..hi -> S] : UpLoop(f, 0, hi, Infinity, G)
  <2> HIDE DEF G, S, hi
  <2> QED
    BY <1>1, <1>2, Loop0, Zenon
<1>4. f = F(f)
  <2>1. \A i \in 0..hi : i # 0 => i \in 1..hi /\ f[i - 1] \in S
    BY <1>2
  <2>2. \A i \in 0..hi : i # 0 => G[<<i, f[i - 1]>>] = Plus(f[i - 1], Base)
    BY <2>1
  <2> HIDE DEF G, S
  <2> QED
    BY <1>3, <2>2 DEF UpLoop
<1>5. h = F(h)
  BY <1>4
<1>6. Multiple = [k \in 0..Order-1 |-> h[k]]
  BY DEF Multiple
<1>7. 0 \in 0..Order-1 /\ 1 \in 0..Order-1 /\ 1 # 0 /\ 1 - 1 = 0
  BY OrderFacts
<1>8. h[0] = Infinity /\ h[1] = Plus(h[0], Base)
  <2> HIDE DEF h
  <2> QED
    BY <1>5, <1>7
<1>9. Multiple[1] = h[1]
  <2> HIDE DEF h
  <2> QED
    BY <1>6, <1>7
<1> QED
  BY <1>8, <1>9, PlusInfinity

\* ge_const_g and its Jacobian record.
LEMMA GeneratorIs ==
    /\ GeTimes(GeConstG, 1) /\ GejTimes(GejSetGe(GeConstG), 1)
    /\ Times(1) = Base /\ Times(1) \in CurvePoints
<1>1. 1 \in 0..Order-1 /\ 1 \in Int /\ 1 % Order = 1
  BY OrderFacts
<1>2. Times(1) = Base
  BY <1>1, MultipleOne, TimesFacts
<1>3. Times(1) \in CurvePoints
  BY <1>1, Multiples, TimesFacts
<1>4. /\ GeneratorX \in Values /\ GeneratorY \in Values /\ Base[1] = GeneratorX /\ Base[2] = GeneratorY
      /\ GeneratorX \in Int /\ GeneratorY \in Int
  BY CurveAssumption, PInt DEF Base, Values
<1>5. GeIs(GeConstG, Base)
  <2>1. Stands(FeSetInt(GeneratorX), GeneratorX, 1) /\ Stands(FeSetInt(GeneratorY), GeneratorY, 1)
    BY <1>4, StandsSetInt
  <2>2. GeConstG = [x |-> FeSetInt(GeneratorX), y |-> FeSetInt(GeneratorY), inf |-> FALSE]
    BY DEF GeConstG, GeSetXy
  <2>3. Base # Infinity
    BY DEF Base, Infinity
  <2>4. /\ FeSetInt(GeneratorX).m \in Int /\ FeSetInt(GeneratorY).m \in Int
        /\ FeSetInt(GeneratorX) \in Fe /\ FeSetInt(GeneratorY) \in Fe
    BY <2>1, FieldAssumption DEF Stands, Fe, Broken
  <2> DEFINE gx == FeSetInt(GeneratorX)
             gy == FeSetInt(GeneratorY)
             b == GeConstG
  <2> HIDE DEF gx, gy
  <2>5. b \in Ge /\ b.inf = FALSE /\ b.x = gx /\ b.y = gy
    BY <2>2, <2>4 DEF Ge, gx, gy
  <2> HIDE DEF b
  <2>6. GeIs(b, Base)
    BY <2>1, <2>3, <2>4, <2>5, <1>4 DEF GeIs, Stands, gx, gy
  <2> QED
    BY <2>6 DEF b
<1> QED
  BY <1>2, <1>3, <1>5, GejSetGeIs, TimesFacts DEF GeTimes, GejTimes, GroupPoints

\* The points a loop runs through are multiples of the generator.
LEMMA AnyTimesStep ==
    ASSUME NEW a \in AnyTimes
    PROVE  /\ GejDoubleVar(a).r \in AnyTimes /\ GejNeg(a) \in AnyTimes
           /\ \A b \in AnyTimes : GejAddVar(a, b).r \in AnyTimes
<1>1. PICK n \in Int : GejTimes(a, n)
  BY DEF AnyTimes
<1>2. GejDoubleVar(a).r \in AnyTimes
  <2>1. GejTimes(GejDoubleVar(a).r, 2 * n) /\ 2 * n \in Int
    BY <1>1, TimesMoves
  <2> QED
    BY <2>1, TimesMoves
<1>3. GejNeg(a) \in AnyTimes
  <2>1. GejTimes(GejNeg(a), -n) /\ -n \in Int
    BY <1>1, TimesMoves
  <2> QED
    BY <2>1, TimesMoves
<1>4. ASSUME NEW b \in AnyTimes PROVE GejAddVar(a, b).r \in AnyTimes
  <2>1. PICK k \in Int : GejTimes(b, k)
    BY DEF AnyTimes
  <2>2. GejTimes(GejAddVar(a, b).r, n + k)
    BY <1>1, <2>1, TimesMoves, Zenon
  <2>3. n + k \in Int
    OBVIOUS
  <2> QED
    BY <2>2, <2>3, TimesMoves
<1> QED
  BY <1>2, <1>3, <1>4

\* gej_double_var n times over.
LEMMA DoubleVarTimesIs ==
    ASSUME NEW a, NEW k \in Int, GejTimes(a, k), NEW n \in Nat
    PROVE  GejTimes(DoubleVarTimes(a, n), Pow2[n] * k)
<1> DEFINE G == [p \in (1..n) \X AnyTimes |-> GejDoubleVar(p[2]).r]
           F(g) == [i \in 0..n |-> IF i = 0 THEN a ELSE GejDoubleVar(g[i - 1]).r]
           h == CHOOSE g : g = F(g)
<1>1. G \in [(1..n) \X AnyTimes -> AnyTimes]
  BY AnyTimesStep
<1>2. PICK f \in [0..n -> AnyTimes] : UpLoop(f, 0, n, a, G)
  <2>1. a \in AnyTimes /\ n \in Int
    BY TimesMoves
  <2> HIDE DEF G
  <2> QED
    BY <1>1, <2>1, Loop0, Zenon
<1>3. f = F(f)
  <2>1. \A i \in 0..n : i # 0 => G[<<i, f[i - 1]>>] = GejDoubleVar(f[i - 1]).r
    OBVIOUS
  <2> HIDE DEF G
  <2> QED
    BY <1>2, <2>1 DEF UpLoop
<1>4. h = F(h)
  BY <1>3
<1>5. DoubleVarTimes(a, n) = h[n]
  BY DEF DoubleVarTimes
<1>6. h[0] = a /\ \A i \in 1..n : h[i] = GejDoubleVar(h[i - 1]).r
  <2> HIDE DEF h
  <2> QED
    BY <1>4
<1> DEFINE T == {i \in 0..n : GejTimes(h[i], Pow2[i] * k)}
<1> HIDE DEF h
<1>7. 0 \in T
  BY <1>6, Pow2Facts
<1>8. ASSUME NEW i \in 0+1..n, i - 1 \in T PROVE i \in T
  <2>1. i \in 1..n /\ i \in Nat /\ i # 0 /\ Pow2[i] = 2 * Pow2[i - 1] /\ Pow2[i - 1] \in Nat
    BY Pow2Facts
  <2>2. GejTimes(h[i - 1], Pow2[i - 1] * k) /\ Pow2[i - 1] * k \in Int
    BY <1>8, <2>1
  <2>3. GejTimes(GejDoubleVar(h[i - 1]).r, 2 * (Pow2[i - 1] * k))
    BY <2>2, TimesMoves
  <2>4. 2 * (Pow2[i - 1] * k) = Pow2[i] * k
    BY <2>1
  <2> QED
    BY <1>6, <2>1, <2>3, <2>4
<1>9. \A i \in 0..n : i \in T
  <2> HIDE DEF T
  <2> QED
    BY <1>7, <1>8, Upward
<1> QED
  BY <1>5, <1>9
-----------------------------------------------------------------------------
\* What the assumption about the table says of the numbers.
LEMMA TableFacts ==
    /\ GenRows \in Nat /\ GenRows > 2 /\ GenBits \in Nat /\ GenBits > 0
    /\ GenWidth \in Nat /\ GenWidth >= 2 /\ GenWidth = Pow2[GenBits]
    /\ \A j \in Rows : j \in Nat /\ GenBits * j \in Nat /\ Pow2[GenBits * j] \in Nat
                       /\ Pow2[GenBits * j] >= 1 /\ Pow2[j] \in Nat
    /\ 0 \in Rows
<1>1. GenRows \in Nat /\ GenRows > 2 /\ GenBits \in Nat /\ GenBits > 0
  BY TableAssumption
<1>2. GenWidth \in Nat /\ GenWidth >= 2 /\ GenWidth = Pow2[GenBits]
  BY <1>1, Pow2Facts DEF GenWidth
<1>3. ASSUME NEW j \in Rows
      PROVE  j \in Nat /\ GenBits * j \in Nat /\ Pow2[GenBits * j] \in Nat
             /\ Pow2[GenBits * j] >= 1 /\ Pow2[j] \in Nat
  <2>1. j \in Nat /\ GenBits * j \in Nat
    BY <1>1 DEF Rows
  <2> QED
    BY <2>1, Pow2Facts
<1> QED
  BY <1>1, <1>2, <1>3 DEF Rows

\* gbase: the generator, doubled GenBits times from row to row.
LEMMA GbaseIs ==
    \A j \in Rows : GejTimes(gbase[j], Pow2[GenBits * j]) /\ gbase[j] \in AnyTimes
<1> DEFINE hi == GenRows - 1
           g0 == GejSetGe(GeConstG)
           G == [p \in (1..hi) \X AnyTimes |-> DoubleVarTimes(p[2], GenBits)]
           F(g) == [j \in Rows |-> IF j = 0 THEN GejSetGe(GeConstG)
                                   ELSE DoubleVarTimes(g[j - 1], GenBits)]
<1>0. GenBits \in Nat /\ hi \in Int /\ Rows = 0..hi
  BY TableFacts DEF Rows
<1>1. ASSUME NEW a \in AnyTimes PROVE DoubleVarTimes(a, GenBits) \in AnyTimes
  <2>1. PICK k \in Int : GejTimes(a, k)
    BY DEF AnyTimes
  <2>2. GejTimes(DoubleVarTimes(a, GenBits), Pow2[GenBits] * k)
    BY <1>0, <2>1, DoubleVarTimesIs
  <2>3. Pow2[GenBits] * k \in Int
    BY <1>0, Pow2Facts
  <2> QED
    BY <2>2, <2>3, TimesMoves
<1>2. G \in [(1..hi) \X AnyTimes -> AnyTimes]
  BY <1>1
<1>3. g0 \in AnyTimes
  BY GeneratorIs, TimesMoves
<1>4. PICK f \in [0..hi -> AnyTimes] : UpLoop(f, 0, hi, g0, G)
  <2> HIDE DEF G, g0, hi
  <2> QED
    BY <1>0, <1>2, <1>3, Loop0, Zenon
<1>5. f = F(f)
  <2>1. \A i \in 0..hi : i # 0 => G[<<i, f[i - 1]>>] = DoubleVarTimes(f[i - 1], GenBits)
    BY <1>0
  <2> HIDE DEF G
  <2> QED
    BY <1>0, <1>4, <2>1 DEF UpLoop
<1>6. gbase = F(gbase)
  BY <1>5 DEF gbase
<1>7. gbase[0] = g0 /\ \A j \in 0+1..hi : gbase[j] = DoubleVarTimes(gbase[j - 1], GenBits)
  <2>1. 0 \in Rows /\ \A j \in 0+1..hi : j \in Rows /\ j # 0
    BY <1>0, TableFacts
  <2> HIDE DEF g0
  <2>2. F(gbase)[0] = g0 /\ \A j \in 0+1..hi : F(gbase)[j] = DoubleVarTimes(gbase[j - 1], GenBits)
    BY <2>1 DEF g0
  <2> QED
    BY <1>6, <2>2, Zenon
<1> DEFINE T == {j \in 0..hi : GejTimes(gbase[j], Pow2[GenBits * j])}
<1>8. 0 \in T
  <2>1. GenBits * 0 = 0 /\ Pow2[0] = 1 /\ 0 \in 0..hi
    BY <1>0, Pow2Facts, TableFacts
  <2> QED
    BY <1>7, <2>1, GeneratorIs
<1>9. ASSUME NEW j \in 0+1..hi, j - 1 \in T PROVE j \in T
  <2>1. j \in 0..hi /\ j \in Nat /\ j - 1 \in Nat /\ GenBits * j \in Nat /\ GenBits * (j - 1) \in Nat
        /\ GenBits + GenBits * (j - 1) = GenBits * j
    BY <1>0
  <2>2. GejTimes(gbase[j - 1], Pow2[GenBits * (j - 1)]) /\ Pow2[GenBits * (j - 1)] \in Int
    BY <1>9, <2>1, Pow2Facts
  <2>3. GejTimes(DoubleVarTimes(gbase[j - 1], GenBits), Pow2[GenBits] * Pow2[GenBits * (j - 1)])
    BY <1>0, <2>2, DoubleVarTimesIs
  <2>4. Pow2[GenBits] * Pow2[GenBits * (j - 1)] = Pow2[GenBits * j]
    BY <1>0, <2>1, Pow2Sum
  <2> QED
    BY <1>7, <2>1, <2>3, <2>4
<1>10. \A j \in 0..hi : j \in T
  <2>1. 0 \in Int /\ hi \in Int
    BY <1>0
  <2> HIDE DEF T, hi
  <2> QED
    BY <2>1, <1>8, <1>9, Upward, Zenon
<1>11. ASSUME NEW j \in Rows PROVE GejTimes(gbase[j], Pow2[GenBits * j]) /\ gbase[j] \in AnyTimes
  <2>1. j \in 0..hi /\ Pow2[GenBits * j] \in Int
    <3>1. j \in 0..hi
      BY <1>0
    <3>2. Pow2[GenBits * j] \in Nat
      BY TableFacts
    <3> QED
      BY <3>1, <3>2
  <2>2. GejTimes(gbase[j], Pow2[GenBits * j])
    BY <2>1, <1>10
  <2> QED
    BY <2>1, <2>2, TimesMoves
<1> QED
  BY <1>11

\* The multiple of the generator that the point of NumsX is: the one nobody knows.
NumsOf(u) == u \in Int /\ GejTimes(nums_gej, u)

\* The unknown point is a multiple of the generator, as all points of the group are.
LEMMA NumsExists == \E u : NumsOf(u)
<1> DEFINE x == FeSetB32(NumsX).r
           g == GeSetXoVar(x, FALSE)
           b == g.r
<1>1. PICK k \in 1..Order-1 : Multiple[k] = PointOfGe(b)
  BY TableAssumption
<1> DEFINE q == Multiple[k]
<1>2. q \in CurvePoints /\ k \in Int /\ Times(k) = q
  <2>1. k \in 0..Order-1 /\ k # 0 /\ k \in Int
    BY OrderFacts
  <2> QED
    BY <2>1, Multiples, TimesFacts
<1>3. FeSetB32(NumsX).ok
  BY TableAssumption
<1>4. NumsX \in Values /\ NumsX \in Nat /\ Stands(x, NumsX, 2)
  <2>1. NumsX \in Nat /\ NumsX < P
    BY <1>3, TableAssumption DEF FeSetB32
  <2>2. NumsX % P = NumsX /\ NumsX \in Values
    BY <2>1, PInt DEF Values
  <2>3. x = [v |-> NumsX, m |-> 1, n |-> TRUE]
    BY <2>1, <2>2 DEF FeSetB32
  <2>4. x \in Fe /\ x.v = NumsX /\ x.m = 1
    BY <2>2, <2>3, FieldAssumption DEF Fe, Broken
  <2> HIDE DEF x
  <2> QED
    BY <2>1, <2>2, <2>4, EqRefl DEF Stands
<1> DEFINE c == FeAdd(FeSetInt(CurveB), FeMul(x, FeSqr(x)))
           y == FeSqrt(c)
           yn == FeNormalizeVar(y.r)
           yy == IF FeIsOdd(yn) # FALSE THEN FeNegate(yn, 1) ELSE yn
<1>5. y.r \in Fe /\ y.r.m <= 1
  <2> DEFINE n == NumsX * NumsX * NumsX + CurveB
  <2>1. n \in Int /\ NumsX \in Int
    BY <1>4, CurveAssumption
  <2>2. Stands(c, n, 2)
    <3> HIDE DEF x
    <3> QED
      BY <1>4, <2>1, StandsCurve
  <2>3. c.m \in Int
    BY <2>2, FieldAssumption DEF Stands, Fe, Broken
  <2> HIDE DEF c, n
  <2>4. Stands(c, n, 8)
    BY <2>2, <2>3 DEF Stands
  <2> QED
    BY <2>1, <2>4, QuadIs
<1>6. yn \in Fe /\ yn.m <= 1
  <2> HIDE DEF y
  <2>1. y.r.v \in Int /\ Stands(y.r, y.r.v, 1)
    BY <1>5, StandsSelf
  <2>2. Stands(FeNormalize(y.r), y.r.v, 1)
    BY <2>1, StandsNormalize
  <2> QED
    BY <2>2 DEF Stands, FeNormalizeVar
<1>7. yy \in Fe /\ yy.m <= 2
  <2> HIDE DEF yn
  <2>1. yn.v \in Int /\ Stands(yn, yn.v, 1) /\ -(yn.v) \in Int
    BY <1>6, StandsSelf
  <2>2. Stands(FeNegate(yn, 1), -(yn.v), 2)
    BY <2>1, StandsNegate
  <2>3. yn.m \in Int
    BY <1>6, FieldAssumption DEF Fe, Broken
  <2>4. yy = yn \/ yy = FeNegate(yn, 1)
    OBVIOUS
  <2> HIDE DEF yy
  <2> QED
    BY <1>6, <2>2, <2>3, <2>4 DEF Stands
<1>8. b = [x |-> x, y |-> yy, inf |-> FALSE]
  <2>1. GeSetXoVar(x, FALSE).ok
    BY TableAssumption
  <2>2. y.ok
    <3>1. SUFFICES ASSUME ~y.ok PROVE FALSE
      OBVIOUS
    <3> HIDE DEF x
    <3>2. GeSetXoVar(x, FALSE) = GeSetXquad(x) /\ GeSetXquad(x).ok = y.ok
      BY <3>1 DEF GeSetXoVar, GeSetXquad
    <3> HIDE DEF y
    <3> QED
      BY <2>1, <3>1, <3>2 DEF x
  <2> HIDE DEF x
  <2>3. g = [ok |-> TRUE, r |-> [x |-> x, y |-> yy, inf |-> FALSE]]
    BY <2>2 DEF GeSetXoVar, GeSetXquad, GeSetXy
  <2> HIDE DEF yy, g
  <2> QED
    BY <2>3
<1>9. GeIs(b, q)
  <2> HIDE DEF x, yy, q
  <2>1. x \in Fe /\ x.m <= 2
    BY <1>4 DEF Stands
  <2>2. q = <<x.v, yy.v>>
    <3>1. q = PointOfGe(b)
      BY <1>1 DEF q
    <3>2. b.inf = FALSE /\ b.x = x /\ b.y = yy
      <4> HIDE DEF g
      <4> QED
        BY <1>8
    <3> HIDE DEF b
    <3> QED
      BY <3>1, <3>2 DEF PointOfGe
  <2>3. x.v \in Int /\ Stands(x, x.v, 2) /\ yy.v \in Int /\ Stands(yy, yy.v, 2)
    BY <2>1, <1>7, StandsSelf
  <2>4. x.m \in Int /\ yy.m \in Int
    BY <2>1, <1>7, FieldAssumption DEF Fe, Broken
  <2>5. q[1] = x.v /\ q[2] = yy.v /\ q # Infinity
    BY <2>2 DEF Infinity
  <2> DEFINE bb == b
  <2>6. bb \in Ge /\ bb.x = x /\ bb.y = yy /\ bb.inf = FALSE
    <3>1. bb = [x |-> x, y |-> yy, inf |-> FALSE]
      BY <1>8
    <3> HIDE DEF bb
    <3> QED
      BY <3>1, <2>1, <1>7 DEF Ge
  <2> HIDE DEF bb
  <2>7. GeIs(bb, q)
    BY <1>7, <2>1, <2>3, <2>4, <2>5, <2>6 DEF GeIs
  <2> QED
    BY <2>7 DEF bb
<1>10. GejTimes(GejSetGe(b), k)
  BY <1>2, <1>9, GejSetGeIs, CurvePointFacts DEF GejTimes
<1>11. GejTimes(nums_gej, k + 1)
  <2>1. GeTimes(GeConstG, 1) /\ 1 \in Int
    BY GeneratorIs
  <2>2. GejTimes(GejAddGeVar(GejSetGe(b), GeConstG).r, k + 1)
    <3> DEFINE a == GejSetGe(b)
    <3> HIDE DEF a
    <3>1. GejTimes(GejAddGeVar(a, GeConstG).r, k + 1)
      BY <1>2, <1>10, <2>1, TimesMoves DEF a
    <3> QED
      BY <3>1 DEF a
  <2> QED
    BY <2>2 DEF nums_gej
<1> QED
  BY <1>2, <1>11 DEF NumsOf

\* The unknown point in row j, u times the generator; over all rows it cancels.
NumsIn(u, j) == IF j = GenRows - 1 THEN (1 - Pow2[j]) * u ELSE Pow2[j] * u

\* numsbase: the unknown point, doubled from row to row, and at last what makes the sum zero.
LEMMA NumsbaseIs ==
    ASSUME NEW u, NumsOf(u)
    PROVE  \A j \in Rows : /\ GejTimes(numsbase[j], NumsIn(u, j)) /\ NumsIn(u, j) \in Int
                           /\ numsbase[j] \in AnyTimes
<1> DEFINE hi == GenRows - 1
           Step(j, a) == LET twice == GejDoubleVar(a).r
                         IN  IF j = GenRows - 1 THEN GejAddVar(GejNeg(twice), nums_gej).r ELSE twice
           G == [p \in (1..hi) \X AnyTimes |-> Step(p[1], p[2])]
           F(g) == [j \in Rows |->
                      LET twice == GejDoubleVar(g[j - 1]).r
                      IN  IF j = 0 THEN nums_gej
                          ELSE IF j = GenRows - 1 THEN GejAddVar(GejNeg(twice), nums_gej).r ELSE twice]
<1>0. hi \in Int /\ Rows = 0..hi /\ u \in Int /\ GejTimes(nums_gej, u) /\ nums_gej \in AnyTimes
      /\ hi >= 2 /\ hi = GenRows - 1
  <2>1. hi \in Int /\ hi >= 2 /\ Rows = 0..hi
    BY TableFacts DEF Rows
  <2>2. u \in Int /\ GejTimes(nums_gej, u)
    BY DEF NumsOf
  <2>3. nums_gej \in AnyTimes
    BY <2>2, TimesMoves
  <2> QED
    BY <2>1, <2>2, <2>3
<1>1. ASSUME NEW j \in 1..hi, NEW a \in AnyTimes PROVE Step(j, a) \in AnyTimes
  <2>1. GejDoubleVar(a).r \in AnyTimes
    BY AnyTimesStep
  <2> DEFINE t == GejDoubleVar(a).r
  <2> HIDE DEF t
  <2>2. t \in AnyTimes /\ GejNeg(t) \in AnyTimes
    BY <2>1, AnyTimesStep DEF t
  <2>3. GejAddVar(GejNeg(t), nums_gej).r \in AnyTimes
    BY <1>0, <2>2, AnyTimesStep
  <2> QED
    BY <2>2, <2>3 DEF t
<1>2. G \in [(1..hi) \X AnyTimes -> AnyTimes]
  <2>1. ASSUME NEW p \in (1..hi) \X AnyTimes PROVE Step(p[1], p[2]) \in AnyTimes
    <3>1. p[1] \in 1..hi /\ p[2] \in AnyTimes
      OBVIOUS
    <3> HIDE DEF Step, hi
    <3> QED
      BY <3>1, <1>1
  <2> HIDE DEF Step, hi
  <2> QED
    BY <2>1
<1>4. PICK f \in [0..hi -> AnyTimes] : UpLoop(f, 0, hi, nums_gej, G)
  <2> HIDE DEF G, hi
  <2> QED
    BY <1>0, <1>2, Loop0, Zenon
<1>5. f = F(f)
  <2>1. \A i \in 0..hi : i # 0 => i \in 1..hi /\ f[i - 1] \in AnyTimes
    BY <1>0
  <2>2. \A i \in 0..hi : i # 0 => G[<<i, f[i - 1]>>] = Step(i, f[i - 1])
    <3> HIDE DEF Step, hi
    <3> QED
      BY <2>1
  <2> HIDE DEF G
  <2> QED
    BY <1>0, <1>4, <2>2 DEF UpLoop
<1>6. numsbase = F(numsbase)
  BY <1>5 DEF numsbase
<1>7. numsbase[0] = nums_gej /\ \A j \in 0+1..hi : numsbase[j] = Step(j, numsbase[j - 1])
  <2>1. 0 \in Rows /\ \A j \in 0+1..hi : j \in Rows /\ j # 0
    BY <1>0, TableFacts
  <2>2. F(numsbase)[0] = nums_gej /\ \A j \in 0+1..hi : F(numsbase)[j] = Step(j, numsbase[j - 1])
    BY <2>1
  <2> HIDE DEF Step, F
  <2> QED
    BY <1>6, <2>2, Zenon
<1> DEFINE T == {j \in 0..hi : GejTimes(numsbase[j], NumsIn(u, j))}
<1>8. 0 \in T
  <2>1. NumsIn(u, 0) = u /\ 0 \in 0..hi
    BY <1>0, Pow2Facts, TableFacts DEF NumsIn
  <2> QED
    BY <1>0, <1>7, <2>1
<1>9. ASSUME NEW j \in 0+1..hi, j - 1 \in T PROVE j \in T
  <2>1. j \in 0..hi /\ j \in Nat /\ j # 0 /\ j - 1 \in Nat /\ j - 1 # GenRows - 1
    BY <1>0
  <2>2. Pow2[j] = 2 * Pow2[j - 1] /\ Pow2[j - 1] \in Int /\ Pow2[j] \in Int
    BY <2>1, Pow2Facts
  <2>3. GejTimes(numsbase[j - 1], Pow2[j - 1] * u) /\ Pow2[j - 1] * u \in Int
    BY <1>0, <1>9, <2>1, <2>2 DEF NumsIn
  <2> DEFINE t == GejDoubleVar(numsbase[j - 1]).r
  <2>4. GejTimes(t, Pow2[j] * u) /\ Pow2[j] * u \in Int
    <3>1. GejTimes(t, 2 * (Pow2[j - 1] * u))
      BY <2>3, TimesMoves
    <3>2. 2 * (Pow2[j - 1] * u) = Pow2[j] * u /\ Pow2[j] * u \in Int
      BY <1>0, <2>2
    <3> QED
      BY <3>1, <3>2
  <2>5. numsbase[j] = Step(j, numsbase[j - 1])
    BY <1>7, Zenon
  <2> HIDE DEF t
  <2>6. CASE j # GenRows - 1
    <3>1. numsbase[j] = t
      BY <2>5, <2>6 DEF t
    <3> QED
      BY <2>1, <2>4, <2>6, <3>1 DEF NumsIn
  <2>7. CASE j = GenRows - 1
    <3>1. numsbase[j] = GejAddVar(GejNeg(t), nums_gej).r
      BY <2>5, <2>7 DEF t
    <3>2. GejTimes(GejNeg(t), -(Pow2[j] * u)) /\ -(Pow2[j] * u) \in Int
      <4> DEFINE n == Pow2[j] * u
      <4> HIDE DEF n
      <4>1. GejTimes(t, n) /\ n \in Int
        BY <2>4 DEF n
      <4>2. GejTimes(GejNeg(t), -n) /\ -n \in Int
        BY <4>1, TimesMoves
      <4> QED
        BY <4>2 DEF n
    <3> DEFINE s == GejNeg(t)
    <3> HIDE DEF s
    <3>3. GejTimes(GejAddVar(s, nums_gej).r, -(Pow2[j] * u) + u)
      BY <1>0, <3>2, TimesMoves, Zenon DEF s
    <3>4. -(Pow2[j] * u) + u = (1 - Pow2[j]) * u
      BY <1>0, <2>2
    <3> QED
      BY <2>1, <2>7, <3>1, <3>3, <3>4 DEF NumsIn, s
  <2> QED
    BY <2>6, <2>7
<1>10. \A j \in 0..hi : j \in T
  <2>1. 0 \in Int /\ hi \in Int
    BY <1>0
  <2> HIDE DEF T, hi
  <2> QED
    BY <2>1, <1>8, <1>9, Upward, Zenon
<1>11. ASSUME NEW j \in Rows
       PROVE  GejTimes(numsbase[j], NumsIn(u, j)) /\ NumsIn(u, j) \in Int /\ numsbase[j] \in AnyTimes
  <2>1. GejTimes(numsbase[j], NumsIn(u, j))
    BY <1>0, <1>10
  <2>2. NumsIn(u, j) \in Int
    BY <1>0, TableFacts DEF NumsIn
  <2> QED
    BY <2>1, <2>2, TimesMoves
<1> QED
  BY <1>11
-----------------------------------------------------------------------------
\* Field elements that fe_mul takes and that have an inverse.
Units == {a \in Fe : a.m <= 8 /\ ~Eq(a.v, 0)}

\* A unit stands for its value.
LEMMA UnitFacts ==
    ASSUME NEW a \in Units
    PROVE  a \in Fe /\ a.v \in Int /\ Stands(a, a.v, 8) /\ ~Eq(a.v, 0)
<1>1. a \in Fe /\ a.m <= 8 /\ ~Eq(a.v, 0)
  BY DEF Units
<1> QED
  BY <1>1, StandsSelf

\* The product of units is a unit, of magnitude 1.
LEMMA UnitMul ==
    ASSUME NEW a \in Units, NEW b \in Units
    PROVE  /\ FeMul(a, b) \in Units /\ Stands(FeMul(a, b), a.v * b.v, 1)
           /\ FeMul(a, b).v \in Int /\ Eq(FeMul(a, b).v, a.v * b.v)
<1>1. Stands(a, a.v, 8) /\ Stands(b, b.v, 8) /\ a.v \in Int /\ b.v \in Int
      /\ ~Eq(a.v, 0) /\ ~Eq(b.v, 0)
  BY UnitFacts
<1>2. a.v * b.v \in Int
  BY <1>1
<1>3. Stands(FeMul(a, b), a.v * b.v, 1)
  BY <1>1, <1>2, StandsMul
<1> DEFINE c == FeMul(a, b)
           p == a.v * b.v
<1> HIDE DEF c
<1>4. c \in Fe /\ Eq(c.v, p) /\ c.m <= 1 /\ c.m \in Int /\ c.v \in Int
  BY <1>3, PInt, FieldAssumption DEF Stands, Fe, Values, Broken, c
<1>5. ~Eq(c.v, 0)
  <2>1. SUFFICES ASSUME Eq(c.v, 0) PROVE FALSE
    OBVIOUS
  <2>2. Eq(p, c.v)
    BY <1>2, <1>4, EqSym
  <2>3. Eq(p, 0)
    BY <1>2, <1>4, <2>1, <2>2, EqTrans
  <2> QED
    BY <1>1, <2>3, EqProductZero
<1> QED
  BY <1>3, <1>4, <1>5 DEF Units, c

\* How an inverse is taken apart: f is c * b and a its inverse, so e = c * a is that of b.
LEMMA InverseOfFactor ==
    ASSUME NEW a \in Int, NEW b \in Int, NEW c \in Int, NEW e \in Int, NEW f \in Int,
           Eq(e, c * a), Eq(f, c * b), Eq(f * a, 1)
    PROVE  Eq(b * e, 1)
<1>1. c * a \in Int /\ c * b \in Int /\ 1 \in Int
  OBVIOUS
<1>2. Eq(b * e, b * (c * a)) /\ b * e \in Int /\ b * (c * a) \in Int
  BY <1>1, EqScale
<1>3. Eq(f * a, (c * b) * a)
  BY <1>1, EqScale
<1>4. (c * b) * a = b * (c * a) /\ f * a \in Int
  OBVIOUS
<1> DEFINE m == b * (c * a)
           n == f * a
           o == b * e
<1>5. m \in Int /\ n \in Int /\ o \in Int /\ Eq(n, m) /\ Eq(o, m) /\ Eq(n, 1)
  BY <1>2, <1>3, <1>4
<1> HIDE DEF m, n, o
<1>6. Eq(m, n)
  BY <1>5, EqSym
<1>7. Eq(o, n)
  BY <1>5, <1>6, EqTrans
<1>8. Eq(o, 1)
  BY <1>1, <1>5, <1>7, EqTrans
<1> QED
  BY <1>8 DEF o

\* fe_inv_all_var: for a sequence of units, every entry is the inverse of its element.
LEMMA FeInvAllVarIs ==
    ASSUME NEW s, Len(s) \in Nat, Len(s) >= 1, \A i \in 1..Len(s) : s[i] \in Units
    PROVE  \A i \in 1..Len(s) : /\ FeInvAllVar(s)[i] \in Fe /\ FeInvAllVar(s)[i].m <= 1
                             /\ FeInvAllVar(s)[i].v \in Int
                             /\ Eq(s[i].v * FeInvAllVar(s)[i].v, 1)
<1> DEFINE len == Len(s)
           U(g) == [i \in 1..len |-> IF i = 1 THEN s[1] ELSE FeMul(g[i - 1], s[i])]
           up == CHOOSE g : g = U(g)
           V(g) == [i \in 1..len |-> IF i = len THEN FeInvVar(up[len]) ELSE FeMul(g[i + 1], s[i + 1])]
           down == CHOOSE g : g = V(g)
<1>1. FeInvAllVar(s) = [i \in 1..len |-> IF i = 1 THEN down[1] ELSE FeMul(up[i - 1], down[i])]
  BY Zenon DEF FeInvAllVar
<1>0. len \in Nat /\ len >= 1 /\ \A i \in 1..len : s[i] \in Units
  OBVIOUS
<1> HIDE DEF len
<1>2. up = U(up)
  <2> DEFINE G == [p \in (2..len) \X Units |-> FeMul(p[2], s[p[1]])]
  <2>1. G \in [(2..len) \X Units -> Units]
    <3>1. ASSUME NEW p \in (2..len) \X Units PROVE FeMul(p[2], s[p[1]]) \in Units
      <4>1. p[2] \in Units /\ p[1] \in 1..len
        BY <1>0
      <4> QED
        BY <1>0, <4>1, UnitMul
    <3> QED
      BY <3>1
  <2>2. s[1] \in Units /\ len \in Int
    BY <1>0
  <2>3. PICK f \in [1..len -> Units] : UpLoop(f, 1, len, s[1], G)
    <3> HIDE DEF G
    <3> QED
      BY <2>1, <2>2, Loop1, Zenon
  <2>4. f = U(f)
    <3>1. \A i \in 1..len : i # 1 => i \in 2..len /\ f[i - 1] \in Units
      BY <1>0
    <3>2. \A i \in 1..len : i # 1 => G[<<i, f[i - 1]>>] = FeMul(f[i - 1], s[i])
      BY <3>1
    <3> HIDE DEF G
    <3> QED
      BY <2>3, <3>2 DEF UpLoop
  <2> QED
    BY <2>4
<1>3. up[1] = s[1] /\ \A i \in 2..len : up[i] = FeMul(up[i - 1], s[i])
  <2> HIDE DEF up
  <2> QED
    BY <1>0, <1>2
<1> HIDE DEF up
<1>4. \A i \in 1..len : up[i] \in Units
  <2> DEFINE T == {i \in 1..len : up[i] \in Units}
  <2>1. 1 \in T
    BY <1>0, <1>3
  <2>2. ASSUME NEW i \in 1+1..len, i - 1 \in T PROVE i \in T
    BY <2>2, <1>0, <1>3, UnitMul
  <2>3. \A i \in 1..len : i \in T
    <3>1. 1 \in Int /\ len \in Int
      BY <1>0
    <3> HIDE DEF T
    <3> QED
      BY <3>1, <2>1, <2>2, Upward, Zenon
  <2> QED
    BY <2>3
<1> DEFINE z == FeInvVar(up[len])
           Inverses == {a \in Fe : a.m <= 1 /\ ~Eq(a.v, 0)}
<1>5. z \in Fe /\ z.m <= 1 /\ z.v \in Int /\ Eq(up[len].v * z.v, 1)
  <2> DEFINE a == up[len]
  <2>1. Stands(a, a.v, 8) /\ a.v \in Int /\ ~Eq(a.v, 0)
    BY <1>0, <1>4, UnitFacts
  <2> HIDE DEF a
  <2>2. FeInv(a) \in Fe /\ FeInv(a).m <= 1 /\ \E k \in Int : Eq(a.v * k, 1) /\ Stands(FeInv(a), k, 1)
    BY <2>1, StandsInv
  <2>3. PICK k \in Int : Eq(a.v * k, 1) /\ Stands(FeInv(a), k, 1)
    BY <2>2
  <2> DEFINE w == FeInv(a)
  <2> HIDE DEF w
  <2>4. w.v \in Int /\ Eq(w.v, k)
    BY <2>2, <2>3, PInt DEF Stands, Fe, Values, w
  <2>5. Eq(a.v * w.v, a.v * k)
    BY <2>1, <2>4, EqRefl, EqMul
  <2>6. Eq(a.v * w.v, 1)
    <3>1. a.v * w.v \in Int /\ a.v * k \in Int /\ 1 \in Int
      BY <2>1, <2>4
    <3> QED
      BY <3>1, <2>3, <2>5, EqTrans
  <2> QED
    BY <2>2, <2>4, <2>6 DEF FeInvVar, a, w
<1> HIDE DEF z
<1>6. ASSUME NEW w \in Units, NEW x \in Int, Eq(x * w.v, 1) \/ Eq(w.v * x, 1)
      PROVE  ~Eq(x, 0)
  <2>1. w.v \in Int
    BY UnitFacts
  <2>2. SUFFICES ASSUME Eq(x, 0) PROVE FALSE
    BY <1>0
  <2>3. x * w.v \in Int /\ x * w.v = w.v * x
    BY <2>1
  <2>4. Eq(x * w.v, 1)
    BY <1>6, <2>3
  <2>5. Eq(w.v * x, 0)
    BY <2>1, <2>2, EqTimesZero
  <2>6. Eq(1, 0)
    <3>1. Eq(1, x * w.v)
      BY <2>3, <2>4, EqSym
    <3> QED
      BY <2>3, <2>5, <3>1, EqTrans
  <2>7. 1 \in Values /\ 0 \in Values
    BY PInt DEF Values
  <2> QED
    BY <2>6, <2>7, EqValue
<1>7. z \in Units
  <2>1. up[len] \in Units
    BY <1>0, <1>4
  <2>2. ~Eq(z.v, 0)
    BY <1>5, <1>6, <2>1
  <2>3. z.m \in Int
    BY <1>5, FieldAssumption DEF Fe, Broken
  <2> QED
    BY <1>5, <2>2, <2>3 DEF Units
<1>8. down = V(down)
  <2> DEFINE G == [p \in (1..len-1) \X Units |-> FeMul(p[2], s[p[1] + 1])]
  <2>1. G \in [(1..len-1) \X Units -> Units]
    <3>1. ASSUME NEW p \in (1..len-1) \X Units PROVE FeMul(p[2], s[p[1] + 1]) \in Units
      <4>1. p[2] \in Units /\ p[1] + 1 \in 1..len
        BY <1>0
      <4> QED
        BY <1>0, <4>1, UnitMul
    <3> QED
      BY <3>1
  <2>2. 1 \in Int /\ len \in Int
    BY <1>0
  <2>3. PICK f \in [1..len -> Units] : DownLoop(f, 1, len, z, G)
    <3> HIDE DEF G
    <3> QED
      BY <1>7, <2>1, <2>2, LoopDown, Zenon
  <2>4. f = V(f)
    <3>1. \A i \in 1..len : i # len => i \in 1..len-1 /\ f[i + 1] \in Units
      BY <1>0
    <3>2. \A i \in 1..len : i # len => G[<<i, f[i + 1]>>] = FeMul(f[i + 1], s[i + 1])
      BY <3>1
    <3> HIDE DEF G
    <3> QED
      BY <2>3, <3>2 DEF DownLoop, z
  <2> QED
    BY <2>4
<1>9. down[len] = z /\ \A i \in 1..len-1 : down[i] = FeMul(down[i + 1], s[i + 1])
  <2> HIDE DEF down
  <2> QED
    BY <1>0, <1>8 DEF z
<1> HIDE DEF down
<1>10. \A i \in 1..len : down[i] \in Units /\ down[i].m <= 1 /\ Eq(up[i].v * down[i].v, 1)
  <2> DEFINE T == {i \in 1..len : down[i] \in Units /\ down[i].m <= 1 /\ Eq(up[i].v * down[i].v, 1)}
  <2>1. len \in T
    BY <1>0, <1>5, <1>7, <1>9
  <2>2. ASSUME NEW i \in 1..len-1, i + 1 \in T PROVE i \in T
    <3> DEFINE a == down[i + 1]
               b == s[i + 1]
               c == up[i]
    <3>1. a \in Units /\ b \in Units /\ c \in Units /\ Eq(up[i + 1].v * a.v, 1)
      BY <2>2, <1>0, <1>4
    <3>2. up[i + 1] = FeMul(c, b) /\ down[i] = FeMul(a, b)
      BY <1>0, <1>3, <1>9
    <3> HIDE DEF a, b, c
    <3>3. /\ Stands(FeMul(a, b), a.v * b.v, 1) /\ FeMul(a, b) \in Units /\ Eq(FeMul(a, b).v, a.v * b.v)
          /\ Eq(FeMul(c, b).v, c.v * b.v) /\ FeMul(a, b).v \in Int /\ FeMul(c, b).v \in Int
      BY <3>1, UnitMul
    <3>4. a.v \in Int /\ b.v \in Int /\ c.v \in Int
      BY <3>1, UnitFacts
    <3> DEFINE e == FeMul(a, b)
               f == FeMul(c, b)
    <3> HIDE DEF e, f
    <3>5. Eq(f.v * a.v, 1) /\ e.v \in Int /\ f.v \in Int /\ Eq(e.v, a.v * b.v) /\ Eq(f.v, c.v * b.v)
      BY <3>1, <3>2, <3>3 DEF e, f
    <3>6. Eq(c.v * e.v, 1)
      <4>1. a.v * b.v = b.v * a.v /\ c.v * b.v = b.v * c.v
        BY <3>4
      <4> QED
        BY <3>4, <3>5, <4>1, InverseOfFactor
    <3>7. e \in Units /\ e.m <= 1 /\ down[i] = e
      BY <3>2, <3>3 DEF e, Stands
    <3>8. i \in 1..len
      BY <1>0
    <3> QED
      BY <3>6, <3>7, <3>8 DEF c
  <2>3. \A i \in 1..len : i \in T
    <3>1. 1 \in Int /\ len \in Int
      BY <1>0
    <3> HIDE DEF T
    <3> QED
      BY <3>1, <2>1, <2>2, Downward, Zenon
  <2> QED
    BY <2>3
<1>11. ASSUME NEW i \in 1..len
       PROVE  /\ FeInvAllVar(s)[i] \in Fe /\ FeInvAllVar(s)[i].m <= 1 /\ FeInvAllVar(s)[i].v \in Int
              /\ Eq(s[i].v * FeInvAllVar(s)[i].v, 1)
  <2>1. CASE i = 1
    <3>1. FeInvAllVar(s)[i] = down[1] /\ up[1] = s[1] /\ i = 1
      BY <1>0, <1>1, <1>3, <2>1
    <3>2. down[1] \in Fe /\ down[1].m <= 1 /\ down[1].v \in Int /\ Eq(up[1].v * down[1].v, 1)
      BY <1>0, <1>10, UnitFacts
    <3> QED
      BY <3>1, <3>2
  <2>2. CASE i # 1
    <3> DEFINE a == down[i]
               b == s[i]
               c == up[i - 1]
    <3>1. i - 1 \in 1..len /\ i \in 2..len
      BY <2>2, <1>0
    <3>2. a \in Units /\ b \in Units /\ c \in Units /\ Eq(up[i].v * a.v, 1)
      BY <3>1, <1>0, <1>4, <1>10
    <3>3. up[i] = FeMul(c, b) /\ FeInvAllVar(s)[i] = FeMul(c, a)
      BY <3>1, <1>0, <1>1, <1>3, <2>2
    <3> HIDE DEF a, b, c
    <3>4. /\ Stands(FeMul(c, a), c.v * a.v, 1) /\ FeMul(c, a) \in Fe /\ Eq(FeMul(c, a).v, c.v * a.v)
          /\ Eq(FeMul(c, b).v, c.v * b.v) /\ FeMul(c, a).v \in Int /\ FeMul(c, b).v \in Int
      BY <3>2, UnitMul, UnitFacts
    <3>5. a.v \in Int /\ b.v \in Int /\ c.v \in Int
      BY <3>2, UnitFacts
    <3> DEFINE e == FeMul(c, a)
               f == FeMul(c, b)
    <3> HIDE DEF e, f
    <3>6. Eq(f.v * a.v, 1) /\ e.v \in Int /\ f.v \in Int /\ Eq(e.v, c.v * a.v) /\ Eq(f.v, c.v * b.v)
      BY <3>2, <3>3, <3>4 DEF e, f
    <3>7. Eq(b.v * e.v, 1)
      BY <3>5, <3>6, InverseOfFactor
    <3>8. e \in Fe /\ e.m <= 1 /\ FeInvAllVar(s)[i] = e
      BY <3>3, <3>4 DEF e, Stands
    <3> QED
      BY <3>6, <3>7, <3>8 DEF b
  <2> QED
    BY <2>1, <2>2
<1> QED
  BY <1>11 DEF len
-----------------------------------------------------------------------------
\* Len of a sequence written as a function.
LEMMA LenOf == ASSUME NEW n \in Nat, NEW f, f = [j \in 1..n |-> f[j]] PROVE Len(f) = n
  OBVIOUS

\* ge_set_all_gej_var, for points none of which is infinity: each becomes affine.
LEMMA GeSetAllGejVarIs ==
    ASSUME NEW s, Len(s) \in Nat, Len(s) >= 1, NEW Q,
           \A i \in 1..Len(s) : ~s[i].inf /\ Q[i] \in CurvePoints /\ GejIs(s[i], Q[i])
    PROVE  \A i \in 1..Len(s) :
             LET r == GeSetAllGejVar(s)[i]
             IN  r \in Ge /\ ~r.inf /\ Stands(r.x, Q[i][1], 1) /\ Stands(r.y, Q[i][2], 1)
<1> DEFINE len == Len(s)
           F(g) == [i \in 0..len |-> IF i = 0 THEN 0 ELSE g[i - 1] + (IF s[i].inf THEN 0 ELSE 1)]
           count == CHOOSE g : g = F(g)
           az == [j \in 1..count[len] |-> s[CHOOSE i \in 1..len : ~s[i].inf /\ count[i] = j].z]
           azi == FeInvAllVar(az)
<1>1. GeSetAllGejVar(s) = [i \in 1..len |->
           IF s[i].inf THEN [x |-> FeClear, y |-> FeClear, inf |-> TRUE]
                       ELSE GeSetGejZinv(s[i], azi[count[i]])]
  BY Zenon DEF GeSetAllGejVar
<1>0. len \in Nat /\ len >= 1
      /\ \A i \in 1..len : ~s[i].inf /\ Q[i] \in CurvePoints /\ GejIs(s[i], Q[i])
  OBVIOUS
<1> HIDE DEF len
<1>2. count = F(count)
  <2> DEFINE f == [i \in 0..len |-> i]
  <2>1. ASSUME NEW i \in 0..len
        PROVE  f[i] = IF i = 0 THEN 0 ELSE f[i - 1] + (IF s[i].inf THEN 0 ELSE 1)
    <3>1. CASE i = 0
      BY <3>1
    <3>2. CASE i # 0
      <4>1. i \in 1..len /\ i - 1 \in 0..len
        BY <1>0, <3>2
      <4>2. f[i - 1] = i - 1 /\ ~s[i].inf
        BY <1>0, <4>1
      <4> QED
        BY <3>2, <4>1, <4>2
    <3> QED
      BY <3>1, <3>2
  <2>2. f = F(f)
    <3>1. f = [i \in 0..len |-> f[i]]
      OBVIOUS
    <3> HIDE DEF f
    <3> QED
      BY <2>1, <3>1
  <2> QED
    BY <2>2
<1>3. count[0] = 0 /\ \A i \in 1..len : count[i] = count[i - 1] + 1
  <2> HIDE DEF count
  <2>1. count[0] = 0 /\ \A i \in 1..len : count[i] = count[i - 1] + (IF s[i].inf THEN 0 ELSE 1)
    BY <1>0, <1>2
  <2> QED
    BY <1>0, <2>1
<1> HIDE DEF count
<1>4. \A i \in 0..len : count[i] = i
  <2> DEFINE T == {i \in 0..len : count[i] = i}
  <2>1. 0 \in T
    BY <1>0, <1>3
  <2>2. ASSUME NEW i \in 0+1..len, i - 1 \in T PROVE i \in T
    BY <2>2, <1>0, <1>3
  <2>3. \A i \in 0..len : i \in T
    <3>1. 0 \in Int /\ len \in Int
      BY <1>0
    <3> HIDE DEF T
    <3> QED
      BY <3>1, <2>1, <2>2, Upward, Zenon
  <2> QED
    BY <2>3
<1>5. ASSUME NEW j \in 1..len PROVE (CHOOSE i \in 1..len : ~s[i].inf /\ count[i] = j) = j
  <2>1. j \in 1..len /\ ~s[j].inf /\ count[j] = j
    BY <1>0, <1>4
  <2>2. \A i \in 1..len : count[i] = j => i = j
    BY <1>0, <1>4
  <2> QED
    BY <2>1, <2>2
<1>6. az = [j \in 1..len |-> s[j].z]
  <2> DEFINE At(j) == s[CHOOSE i \in 1..len : ~s[i].inf /\ count[i] = j].z
  <2>1. count[len] = len
    BY <1>0, <1>4
  <2>2. \A j \in 1..len : At(j) = s[j].z
    BY <1>5
  <2>3. az = [j \in 1..count[len] |-> At(j)]
    OBVIOUS
  <2> HIDE DEF At, az
  <2> QED
    BY <2>1, <2>2, <2>3
<1> HIDE DEF az
<1>7. Len(az) = len /\ \A j \in 1..len : az[j] = s[j].z
  BY <1>0, <1>6
<1>8. ASSUME NEW j \in 1..len
      PROVE  s[j].z \in Units /\ s[j].z.v \in Int
             /\ \E Z \in Int : GejStands(s[j], Q[j][1], Q[j][2], Z) /\ Eq(s[j].z.v, Z)
  <2> DEFINE a == s[j]
             q == Q[j]
  <2>1. GejIs(a, q) /\ q # Infinity
    BY <1>0, CurvePointFacts
  <2> HIDE DEF a, q
  <2>2. PICK Z \in Int : GejStands(a, q[1], q[2], Z)
    BY <2>1 DEF GejIs
  <2>3. a.z \in Fe /\ Eq(a.z.v, Z) /\ a.z.m <= 2 /\ ~Eq(Z, 0)
    BY <2>2 DEF GejStands, Stands
  <2>4. a.z.v \in Int /\ a.z.m \in Int
    BY <2>3, PInt, FieldAssumption DEF Fe, Values, Broken
  <2>5. ~Eq(a.z.v, 0)
    <3>1. Eq(Z, a.z.v) /\ 0 \in Int
      BY <2>3, <2>4, EqSym
    <3> QED
      BY <2>3, <2>4, <3>1, EqTrans
  <2> QED
    BY <2>2, <2>3, <2>4, <2>5 DEF Units, a, q
<1>9. \A j \in 1..len : /\ azi[j] \in Fe /\ azi[j].m <= 1 /\ azi[j].v \in Int
                        /\ Eq(s[j].z.v * azi[j].v, 1)
  BY <1>0, <1>7, <1>8, FeInvAllVarIs
<1> HIDE DEF azi
<1>10. ASSUME NEW i \in 1..len
       PROVE  LET r == GeSetAllGejVar(s)[i]
              IN  r \in Ge /\ ~r.inf /\ Stands(r.x, Q[i][1], 1) /\ Stands(r.y, Q[i][2], 1)
  <2> DEFINE a == s[i]
             zi == azi[i]
             q == Q[i]
  <2>1. GeSetAllGejVar(s)[i] = GeSetGejZinv(a, zi)
    <3>1. count[i] = i /\ ~s[i].inf
      BY <1>0, <1>4
    <3> QED
      BY <1>1, <3>1
  <2>2. PICK Z \in Int : GejStands(a, q[1], q[2], Z) /\ Eq(a.z.v, Z)
    BY <1>8
  <2>3. q \in CurvePoints /\ a.z.v \in Int
    BY <1>0, <1>8
  <2>4. zi \in Fe /\ zi.m <= 1 /\ zi.v \in Int /\ Eq(a.z.v * zi.v, 1)
    BY <1>9
  <2> HIDE DEF a, zi, q
  <2>5. q[1] \in Int /\ q[2] \in Int
    BY <2>3, CurvePointFacts
  <2>6. Eq(Z * zi.v, 1)
    <3>1. Eq(a.z.v * zi.v, Z * zi.v) /\ a.z.v * zi.v \in Int /\ Z * zi.v \in Int /\ 1 \in Int
      <4> DEFINE e == a.z.v
                 k == zi.v
      <4>1. e \in Int /\ k \in Int /\ Eq(e, Z)
        BY <2>2, <2>3, <2>4
      <4> HIDE DEF e, k
      <4>2. Eq(e * k, Z * k)
        BY <4>1, EqScale
      <4>3. e * k \in Int /\ Z * k \in Int
        BY <4>1
      <4> QED
        BY <4>2, <4>3 DEF e, k
    <3> DEFINE m == a.z.v * zi.v
               n == Z * zi.v
    <3> HIDE DEF m, n
    <3>2. Eq(m, n) /\ m \in Int /\ n \in Int /\ Eq(m, 1) /\ 1 \in Int
      BY <2>4, <3>1 DEF m, n
    <3>3. Eq(n, m)
      BY <3>2, EqSym
    <3>4. Eq(n, 1)
      BY <3>2, <3>3, EqTrans
    <3> QED
      BY <3>4 DEF n
  <2>7. Stands(zi, zi.v, 8)
    <3>1. zi.m \in Int
      BY <2>4, FieldAssumption DEF Fe, Broken
    <3>2. zi.m <= 8
      BY <2>4, <3>1
    <3> QED
      BY <2>4, <3>2, StandsSelf
  <2>8. /\ Stands(a.x, q[1] * Z * Z, 8) /\ Stands(a.y, q[2] * Z * Z * Z, 8)
        /\ a.inf = FALSE
    <3>1. /\ Stands(a.x, q[1] * Z * Z, 6) /\ Stands(a.y, q[2] * Z * Z * Z, 4)
          /\ a \in Gej /\ ~a.inf
      BY <2>2 DEF GejStands
    <3>2. a.x \in Fe /\ a.y \in Fe /\ a.inf \in BOOLEAN
      BY <3>1 DEF Gej
    <3>3. a.x.m \in Int /\ a.y.m \in Int
      BY <3>2, FieldAssumption DEF Fe, Broken
    <3> QED
      BY <3>1, <3>2, <3>3 DEF Stands
  <2>9. LET r == GeSetGejZinv(a, zi)
        IN  r \in Ge /\ r.inf = a.inf /\ Stands(r.x, q[1], 1) /\ Stands(r.y, q[2], 1)
    <3>1. a.inf \in BOOLEAN
      BY <2>8
    <3> QED
      BY <2>4, <2>5, <2>6, <2>7, <2>8, <3>1, ZinvFormula
  <2> QED
    BY <2>1, <2>8, <2>9 DEF q
<1> QED
  BY <1>10 DEF len

\* The digit i of row j stands for this multiple: the unknown point hides i times gbase.
Entry(u, j, i) == NumsIn(u, j) + i * Pow2[GenBits * j]

\* Row j of the table before it is made affine.
LEMMA RowOfIs ==
    ASSUME NEW u, NumsOf(u), NEW j \in Rows
    PROVE  \A i \in Digits : Entry(u, j, i) \in Int /\ GejTimes(RowOf(j)[i], Entry(u, j, i))
<1> DEFINE hi == GenWidth - 1
           n0 == numsbase[j]
           gb == gbase[j]
           e0 == NumsIn(u, j)
           p == Pow2[GenBits * j]
           G == [q \in (1..hi) \X AnyTimes |-> GejAddVar(q[2], gb).r]
           F(g) == [i \in Digits |-> IF i = 0 THEN numsbase[j] ELSE GejAddVar(g[i - 1], gbase[j]).r]
           h == CHOOSE g : g = F(g)
<1>0. /\ hi \in Int /\ hi >= 1 /\ Digits = 0..hi
      /\ e0 \in Int /\ p \in Int /\ GejTimes(n0, e0) /\ GejTimes(gb, p)
      /\ n0 \in AnyTimes /\ gb \in AnyTimes
  <2>1. hi \in Int /\ hi >= 1 /\ Digits = 0..hi
    BY TableFacts DEF Digits
  <2>2. e0 \in Int /\ GejTimes(n0, e0) /\ n0 \in AnyTimes
    BY NumsbaseIs
  <2>3. p \in Int /\ GejTimes(gb, p) /\ gb \in AnyTimes
    BY GbaseIs, TableFacts
  <2> QED
    BY <2>1, <2>2, <2>3
<1>1. G \in [(1..hi) \X AnyTimes -> AnyTimes]
  <2> HIDE DEF gb
  <2> QED
    BY <1>0, AnyTimesStep
<1>2. PICK f \in [0..hi -> AnyTimes] : UpLoop(f, 0, hi, n0, G)
  <2> HIDE DEF G, n0, hi
  <2> QED
    BY <1>0, <1>1, Loop0, Zenon
<1>3. f = F(f)
  <2>1. \A i \in 0..hi : i # 0 => i \in 1..hi /\ f[i - 1] \in AnyTimes
    BY <1>0
  <2>2. \A i \in 0..hi : i # 0 => G[<<i, f[i - 1]>>] = GejAddVar(f[i - 1], gbase[j]).r
    BY <2>1
  <2> HIDE DEF G
  <2> QED
    BY <1>0, <1>2, <2>2 DEF UpLoop
<1>4. h = F(h)
  BY <1>3
<1>5. RowOf(j) = h
  BY Zenon DEF RowOf
<1>6. h[0] = n0 /\ \A i \in 0+1..hi : h[i] = GejAddVar(h[i - 1], gb).r
  <2> HIDE DEF h
  <2>1. 0 \in Digits /\ \A i \in 0+1..hi : i \in Digits /\ i # 0
    BY <1>0
  <2> QED
    BY <1>4, <2>1
<1> HIDE DEF h
<1> DEFINE T == {i \in 0..hi : GejTimes(h[i], e0 + i * p)}
<1>7. 0 \in T
  <2>1. e0 + 0 * p = e0 /\ 0 \in 0..hi
    BY <1>0
  <2> HIDE DEF e0, p, n0
  <2> QED
    BY <1>0, <1>6, <2>1
<1>8. ASSUME NEW i \in 0+1..hi, i - 1 \in T PROVE i \in T
  <2> DEFINE n == e0 + (i - 1) * p
             a == h[i - 1]
  <2>1. i \in 0..hi /\ GejTimes(a, n) /\ h[i] = GejAddVar(a, gb).r
    BY <1>0, <1>6, <1>8
  <2> HIDE DEF e0, p, a, gb
  <2>2. n \in Int /\ n + p = e0 + i * p
    BY <1>0
  <2> HIDE DEF n
  <2>3. GejTimes(GejAddVar(a, gb).r, n + p)
    BY <1>0, <2>1, <2>2, TimesMoves, Zenon
  <2> QED
    BY <2>1, <2>2, <2>3
<1>9. \A i \in 0..hi : i \in T
  <2>1. 0 \in Int /\ hi \in Int
    BY <1>0
  <2> HIDE DEF T, hi
  <2> QED
    BY <2>1, <1>7, <1>8, Upward, Zenon
<1>10. ASSUME NEW i \in Digits PROVE Entry(u, j, i) \in Int /\ GejTimes(RowOf(j)[i], Entry(u, j, i))
  <2>1. i \in 0..hi /\ i \in Int
    BY <1>0
  <2>2. GejTimes(h[i], e0 + i * p)
    BY <2>1, <1>9
  <2>3. e0 + i * p \in Int
    <3> HIDE DEF e0, p
    <3> QED
      BY <1>0, <2>1
  <2>4. Entry(u, j, i) = e0 + i * p
    BY DEF Entry
  <2> HIDE DEF e0, p
  <2> QED
    BY <1>5, <2>2, <2>3, <2>4
<1> QED
  BY <1>10

\* The place of digit i of row j in the sequence of all rows.
LEMMA Places ==
    /\ GenRows * GenWidth \in Nat /\ GenRows * GenWidth >= 1
    /\ \A j \in Rows, i \in Digits :
         LET n == GenWidth * j + i + 1
         IN  n \in 1..GenRows*GenWidth /\ (n - 1) \div GenWidth = j /\ (n - 1) % GenWidth = i
    /\ \A n \in 1..GenRows*GenWidth : (n - 1) \div GenWidth \in Rows /\ (n - 1) % GenWidth \in Digits
<1> DEFINE R == GenRows
           W == GenWidth
<1>1. R \in Nat /\ R > 2 /\ W \in Nat /\ W >= 2 /\ Rows = 0..R-1 /\ Digits = 0..W-1
  BY TableFacts DEF Rows, Digits
<1> HIDE DEF R, W
<1>2. R * W \in Nat /\ R * W >= 1
  BY <1>1
<1>3. ASSUME NEW j \in 0..R-1, NEW i \in 0..W-1
      PROVE  LET n == W * j + i + 1
             IN  n \in 1..R*W /\ (n - 1) \div W = j /\ (n - 1) % W = i
  <2>1. W * j \in Int /\ W * j >= 0 /\ W * j <= W * (R - 1) /\ W * (R - 1) = R * W - W
    BY <1>1
  <2> DEFINE x == W * j + i
  <2>2. x \in Int /\ x >= 0 /\ x + 1 <= R * W /\ (W * j + i + 1) - 1 = x /\ W * j + i + 1 = x + 1
    BY <1>1, <1>2, <2>1
  <2>3. x \div W = j /\ x % W = i
    <3>1. j \in Int /\ W \in Nat \ {0} /\ x = W * j + i
      BY <1>1
    <3> HIDE DEF x
    <3> QED
      BY <2>2, <3>1, DivisionUnique
  <2> HIDE DEF x
  <2> QED
    BY <1>2, <2>2, <2>3
<1>4. ASSUME NEW n \in 1..R*W PROVE (n - 1) \div W \in 0..R-1 /\ (n - 1) % W \in 0..W-1
  <2> DEFINE x == n - 1
             q == x \div W
             r == x % W
  <2>1. x \in Int /\ x >= 0 /\ x < R * W /\ W \in Nat \ {0}
    BY <1>1, <1>2
  <2> HIDE DEF x
  <2>2. q \in Int /\ r \in 0..W-1 /\ x = W * q + r /\ q >= 0
    BY <2>1, Division
  <2> HIDE DEF q, r
  <2>3. q <= R - 1
    <3>1. q >= R => W * q >= R * W
      BY <1>1, <2>2
    <3>2. W * q <= x /\ W * q \in Int
      BY <1>1, <2>1, <2>2
    <3> QED
      BY <1>1, <1>2, <2>1, <2>2, <3>1, <3>2
  <2> QED
    BY <1>1, <2>2, <2>3 DEF q, r, x
<1>5. Rows = 0..R-1 /\ Digits = 0..W-1
  BY <1>1
<1> QED
  BY <1>2, <1>3, <1>4, <1>5 DEF R, W
-----------------------------------------------------------------------------
\* The table: every entry is stored, and its point is not infinity.
LEMMA PrecIs ==
    ASSUME NEW u, NumsOf(u)
    PROVE  \A j \in Rows : \A i \in Digits :
             LET e == Entry(u, j, i)
             IN  /\ e \in Int /\ e % Order # 0 /\ Times(e) \in CurvePoints
                 /\ prec[j][i] = StorageOf(Times(e))
                 /\ GeTimes(GeFromStorage(prec[j][i]), e)
<1> DEFINE N == GenRows * GenWidth
           J(n) == (n - 1) \div GenWidth
           I(n) == (n - 1) % GenWidth
           E(n) == Entry(u, J(n), I(n))
           Q == [n \in 1..N |-> Times(E(n))]
           ge == GeSetAllGejVar(precj)
<1>0. N \in Nat /\ N >= 1
  BY Places
<1>1. ASSUME NEW n \in 1..N PROVE J(n) \in Rows /\ I(n) \in Digits
  BY Places
<1>2. precj = [n \in 1..N |-> RowOf(J(n))[I(n)]]
  BY DEF precj
<1> HIDE DEF N, J, I
<1>3. ASSUME NEW n \in 1..N
      PROVE  /\ E(n) \in Int /\ GejTimes(precj[n], E(n)) /\ ~precj[n].inf
             /\ Times(E(n)) \in CurvePoints /\ E(n) % Order # 0
  <2>1. E(n) \in Int /\ GejTimes(precj[n], E(n))
    BY <1>1, <1>2, RowOfIs
  <2>2. ~precj[n].inf
    BY TableAssumption DEF N
  <2> DEFINE e == E(n)
             a == precj[n]
  <2> HIDE DEF e, a
  <2>3. e \in Int /\ GejTimes(a, e) /\ ~a.inf
    BY <2>1, <2>2 DEF e, a
  <2>4. Times(e) # Infinity
    BY <2>3 DEF GejTimes, GejIs
  <2>5. Times(e) \in CurvePoints /\ e % Order # 0
    BY <2>3, <2>4, TimesFacts
  <2> QED
    BY <2>1, <2>2, <2>5 DEF e
<1>4. Len(precj) = N
  BY <1>0, <1>2
<1>5. ASSUME NEW n \in 1..N
      PROVE  /\ ge[n] \in Ge /\ ~ge[n].inf
             /\ Stands(ge[n].x, Times(E(n))[1], 1) /\ Stands(ge[n].y, Times(E(n))[2], 1)
  <2>1. \A i \in 1..N : Q[i] = Times(E(i))
    BY Zenon
  <2> HIDE DEF Q, E
  <2>2. \A i \in 1..N : ~precj[i].inf /\ Q[i] \in CurvePoints /\ GejIs(precj[i], Q[i])
    BY <1>3, <2>1 DEF GejTimes
  <2>3. \A i \in 1..N : LET r == ge[i]
                        IN r \in Ge /\ ~r.inf /\ Stands(r.x, Q[i][1], 1) /\ Stands(r.y, Q[i][2], 1)
    BY <1>0, <1>4, <2>2, GeSetAllGejVarIs
  <2> QED
    BY <2>1, <2>3
<1> HIDE DEF ge
<1>6. ASSUME NEW j \in Rows, NEW i \in Digits
      PROVE  LET e == Entry(u, j, i)
             IN  /\ e \in Int /\ e % Order # 0 /\ Times(e) \in CurvePoints
                 /\ prec[j][i] = StorageOf(Times(e))
                 /\ GeTimes(GeFromStorage(prec[j][i]), e)
  <2> DEFINE n == GenWidth * j + i + 1
             e == Entry(u, j, i)
  <2>1. n \in 1..N /\ J(n) = j /\ I(n) = i
    BY Places DEF N, J, I
  <2>2. prec[j][i] = GeToStorage(ge[n])
    BY DEF prec, ge
  <2> HIDE DEF n
  <2>3. E(n) = e
    BY <2>1
  <2> HIDE DEF E, e
  <2>4. /\ e \in Int /\ Times(e) \in CurvePoints /\ e % Order # 0
        /\ Stands(ge[n].x, Times(e)[1], 1) /\ Stands(ge[n].y, Times(e)[2], 1)
    BY <2>1, <2>3, <1>3, <1>5
  <2> DEFINE q == Times(e)
             b == ge[n]
  <2> HIDE DEF q, b
  <2>5. q \in CurvePoints /\ Stands(b.x, q[1], 1) /\ Stands(b.y, q[2], 1)
    BY <2>4 DEF q, b
  <2>6. q[1] \in Int /\ q[2] \in Int
    BY <2>5, CurvePointFacts
  <2>7. Stands(b.x, q[1], 2) /\ Stands(b.y, q[2], 2)
    <3>1. b.x.m \in Int /\ b.y.m \in Int
      BY <2>5, FieldAssumption DEF Stands, Fe, Broken
    <3> QED
      BY <2>5, <3>1 DEF Stands
  <2>8. GeToStorage(b) = StorageOf(q) /\ GeIs(GeFromStorage(StorageOf(q)), q)
    BY <2>5, <2>7, GeToStorageIs, GeFromStorageIs
  <2> QED
    BY <2>2, <2>4, <2>8 DEF q, b, e, GeTimes
<1> QED
  BY <1>6

\* Moving every entry in under a condition selects the one entry.
LEMMA StorageMoveInIs ==
    ASSUME NEW row, NEW bits \in Digits,
           \A i \in Digits : \E q \in CurvePoints : row[i] = StorageOf(q)
    PROVE  StorageMoveIn(row, bits) = row[bits]
<1> DEFINE W == GenWidth
           zero == [x |-> 0, y |-> 0]
           S == {zero} \union {row[i] : i \in Digits}
           G == [p \in (1..W) \X S |-> GeStorageCmov(p[2], row[p[1] - 1], p[1] - 1 = bits)]
           F(g) == [i \in 0..W |-> IF i = 0 THEN [x |-> 0, y |-> 0]
                                   ELSE GeStorageCmov(g[i - 1], row[i - 1], i - 1 = bits)]
           h == CHOOSE g : g = F(g)
<1>0. W \in Nat /\ W >= 2 /\ Digits = 0..W-1
  BY TableFacts DEF Digits
<1> HIDE DEF W
<1>1. ASSUME NEW s \in S
      PROVE  s = [x |-> s.x, y |-> s.y]
  <2>1. CASE s = zero
    BY <2>1
  <2>2. CASE \E i \in Digits : s = row[i]
    <3>1. PICK i \in Digits : s = row[i]
      BY <2>2
    <3>2. PICK q \in CurvePoints : row[i] = StorageOf(q)
      OBVIOUS
    <3> QED
      BY <3>1, <3>2 DEF StorageOf
  <2> QED
    BY <2>1, <2>2
<1>2. ASSUME NEW a \in S, NEW i \in Digits
      PROVE  /\ GeStorageCmov(a, row[i], TRUE) = row[i]
             /\ GeStorageCmov(a, row[i], FALSE) = a
  <2>1. a = [x |-> a.x, y |-> a.y] /\ row[i] = [x |-> row[i].x, y |-> row[i].y]
    BY <1>1
  <2> HIDE DEF S
  <2> QED
    BY <2>1 DEF GeStorageCmov, FeStorageCmov
<1>3. G \in [(1..W) \X S -> S]
  <2>1. ASSUME NEW p \in (1..W) \X S
        PROVE  GeStorageCmov(p[2], row[p[1] - 1], p[1] - 1 = bits) \in S
    <3>1. p[2] \in S /\ p[1] - 1 \in Digits /\ row[p[1] - 1] \in S
      BY <1>0
    <3> HIDE DEF S
    <3>2. CASE p[1] - 1 = bits
      <4>1. GeStorageCmov(p[2], row[p[1] - 1], p[1] - 1 = bits) = row[p[1] - 1]
        BY <1>2, <3>1, <3>2
      <4> QED
        BY <3>1, <4>1
    <3>3. CASE p[1] - 1 # bits
      <4>1. GeStorageCmov(p[2], row[p[1] - 1], p[1] - 1 = bits) = p[2]
        BY <1>2, <3>1, <3>3
      <4> QED
        BY <3>1, <4>1
    <3> QED
      BY <3>2, <3>3
  <2> HIDE DEF S
  <2> QED
    BY <2>1
<1>4. PICK f \in [0..W -> S] : UpLoop(f, 0, W, zero, G)
  <2>1. zero \in S /\ W \in Int
    BY <1>0
  <2> HIDE DEF S, G, zero
  <2> QED
    BY <1>3, <2>1, Loop0, Zenon
<1>5. f = F(f)
  <2>1. \A i \in 0..W : i # 0 => i \in 1..W /\ f[i - 1] \in S
    BY <1>0
  <2>2. \A i \in 0..W : i # 0 => G[<<i, f[i - 1]>>] = GeStorageCmov(f[i - 1], row[i - 1], i - 1 = bits)
    <3> HIDE DEF S
    <3> QED
      BY <2>1
  <2> HIDE DEF G, S
  <2> QED
    BY <1>4, <2>2 DEF UpLoop
<1>6. h = F(h)
  BY <1>5
<1>7. StorageMoveIn(row, bits) = h[W]
  BY Zenon DEF StorageMoveIn, W
<1>8. h[0] = zero /\ \A i \in 0+1..W : h[i] = GeStorageCmov(h[i - 1], row[i - 1], i - 1 = bits)
  <2> HIDE DEF h
  <2> QED
    BY <1>0, <1>6
<1> HIDE DEF h
<1> DEFINE T == {i \in 0..W : h[i] = IF i <= bits THEN zero ELSE row[bits]}
<1>9. 0 \in T
  BY <1>0, <1>8
<1>10. ASSUME NEW i \in 0+1..W, i - 1 \in T PROVE i \in T
  <2>1. i - 1 \in Digits /\ bits \in Int /\ i \in 0..W
    BY <1>0
  <2>2. h[i - 1] = IF i - 1 <= bits THEN zero ELSE row[bits]
    BY <1>10
  <2>3. h[i - 1] \in S
    BY <2>2
  <2>4. h[i] = GeStorageCmov(h[i - 1], row[i - 1], i - 1 = bits)
    BY <1>8
  <2>5. CASE i - 1 = bits
    <3>1. h[i] = row[i - 1]
      <4> HIDE DEF S
      <4>1. GeStorageCmov(h[i - 1], row[i - 1], TRUE) = row[i - 1]
        BY <1>2, <2>1, <2>3
      <4> QED
        BY <2>4, <2>5, <4>1
    <3> QED
      BY <2>1, <2>5, <3>1
  <2>6. CASE i - 1 # bits
    <3>1. h[i] = h[i - 1]
      <4> HIDE DEF S
      <4>1. GeStorageCmov(h[i - 1], row[i - 1], FALSE) = h[i - 1]
        BY <1>2, <2>1, <2>3
      <4>2. (i - 1 = bits) = FALSE
        BY <2>6
      <4> QED
        BY <2>4, <4>1, <4>2
    <3> QED
      BY <2>1, <2>2, <2>6, <3>1
  <2> QED
    BY <2>5, <2>6
<1>11. \A i \in 0..W : i \in T
  <2>1. 0 \in Int /\ W \in Int
    BY <1>0
  <2> HIDE DEF T
  <2> QED
    BY <2>1, <1>9, <1>10, Upward, Zenon
<1>12. h[W] = row[bits]
  BY <1>0, <1>11
<1> QED
  BY <1>7, <1>12
-----------------------------------------------------------------------------
\* How often the generator goes into the unknown point.
Nums == CHOOSE u : NumsOf(u)

\* What the rows before g hold of the unknown point.
HiddenIn(g) == IF g = GenRows THEN 0 ELSE (Pow2[g] - 1) * Nums

\* What r is a multiple of after g rows of n with the blinding b.
SumOf(n, b, g) == -b + (((n + b) % Order) % Pow2[GenBits * g]) + HiddenIn(g)

\* The context and where a call is.
GenTyped ==
    /\ gctx.built \in BOOLEAN
    /\ gctx = [built |-> gctx.built, initial |-> gctx.initial, blind |-> gctx.blind]
    /\ gpc \in {"idle", "s", "b", "row"} /\ gfor \in {"caller", "blind"}
    /\ gpc # "idle" => gctx.built

\* The blinding pair is a pair.
GenPair ==
    gctx.built => gctx.blind \in 1..Order-1 /\ GejTimes(gctx.initial, -gctx.blind)

\* r is the multiple that the rows so far add up to.
GenSum ==
    /\ gpc # "row" => gsum = GejSetInfinity
    /\ gpc = "row" => /\ gn \in Scalars /\ grow \in 0..GenRows
                      /\ gfor = "blind" => gn # 0
                      /\ GejTimes(gsum, SumOf(gn, gctx.blind, grow))

\* The inductive invariant of EcmultGen.
GenInv == GenTyped /\ GenPair /\ GenSum

\* The chosen factor is one of the unknown point.
LEMMA NumsIs == NumsOf(Nums) /\ Nums \in Int
  BY NumsExists DEF Nums, NumsOf

\* Each row adds its share of the unknown point, and the last one takes all of them back.
LEMMA HiddenStep ==
    ASSUME NEW g \in Rows
    PROVE  /\ HiddenIn(g) \in Int /\ HiddenIn(g + 1) \in Int
           /\ HiddenIn(g + 1) = HiddenIn(g) + NumsIn(Nums, g)
<1>1. Nums \in Int /\ GenRows \in Nat /\ g \in Nat /\ g < GenRows
  BY NumsIs, TableFacts DEF Rows
<1>2. Pow2[g] \in Int /\ Pow2[g + 1] = 2 * Pow2[g]
  BY <1>1, Pow2Step
<1> DEFINE p == Pow2[g]
           q == Pow2[g + 1]
           u == Nums
<1>3. p \in Int /\ q = 2 * p /\ u \in Int
  BY <1>1, <1>2
<1>4. HiddenIn(g) = (p - 1) * u
  BY <1>1 DEF HiddenIn
<1>5. HiddenIn(g + 1) = IF g = GenRows - 1 THEN 0 ELSE (q - 1) * u
  BY <1>1 DEF HiddenIn
<1>6. NumsIn(Nums, g) = IF g = GenRows - 1 THEN (1 - p) * u ELSE p * u
  BY DEF NumsIn
<1> HIDE DEF p, q, u
<1>7. /\ (p - 1) * u \in Int /\ (q - 1) * u \in Int
      /\ (q - 1) * u = (p - 1) * u + p * u
      /\ 0 = (p - 1) * u + (1 - p) * u
  BY <1>3
<1> QED
  BY <1>4, <1>5, <1>6, <1>7

\* Scalars are the residues of the group's order; -b of a blinding b is one of them.
LEMMA ScalarFacts ==
    /\ Scalars = 0..Order-1 /\ 0 \in Scalars /\ 1 \in 1..Order-1
    /\ \A a \in Scalars, b \in Scalars : ScAdd(a, b) = (a + b) % Order /\ ScAdd(a, b) \in Scalars
    /\ \A a \in Int : a % Order \in Scalars
    /\ \A a \in 1..Order-1 : ScNegate(a) = Order - a /\ ScNegate(a) \in 1..Order-1
<1>1. ASSUME NEW a \in 1..Order-1
      PROVE  ScNegate(a) = Order - a /\ ScNegate(a) \in 1..Order-1
  <2>1. Order - a \in 0..Order-1 /\ Order - a \in 1..Order-1
    BY OrderFacts
  <2> QED
    BY <2>1, OrderFacts DEF ScNegate
<1>2. ASSUME NEW a \in Scalars, NEW b \in Scalars
      PROVE  ScAdd(a, b) = (a + b) % Order /\ ScAdd(a, b) \in Scalars
  BY OrderFacts DEF ScAdd, Scalars
<1> QED
  BY <1>1, <1>2, OrderFacts DEF Scalars

\* The point at infinity, as gej_set_infinity makes it, is 0 * G.
LEMMA InfinityTimes == GejTimes(GejSetInfinity, 0) /\ KeptGej(GejSetInfinity)
<1>1. FeClear \in Fe /\ FeClear.m = 0
  BY PInt, FieldAssumption DEF FeClear, Fe, Values, Broken
<1>2. GejIs(GejSetInfinity, Infinity)
  BY <1>1 DEF GejIs, GejKept, Gej, GejSetInfinity
<1>3. Infinity \in GroupPoints /\ Times(0) = Infinity
  BY TimesFacts DEF GroupPoints
<1> QED
  BY <1>2, <1>3, PointOfGejIs DEF GejTimes

\* The multiple after g rows is a number.
LEMMA SumTyped ==
    ASSUME NEW n \in Scalars, NEW b \in 1..Order-1, NEW g \in 0..GenRows
    PROVE  SumOf(n, b, g) \in Int
<1>1. n \in Int /\ b \in Int /\ g \in Nat /\ GenBits * g \in Nat /\ Pow2[GenBits * g] \in Nat \ {0}
  BY TableFacts, Pow2Facts, OrderFacts DEF Scalars
<1>2. HiddenIn(g) \in Int
  <2>1. Pow2[g] \in Int /\ Nums \in Int
    BY <1>1, Pow2Facts, NumsIs
  <2> QED
    BY <2>1 DEF HiddenIn
<1> DEFINE c == (n + b) % Order
           A == Pow2[GenBits * g]
<1>3. c \in Int /\ A \in Nat \ {0}
  BY <1>1, OrderFacts
<1>4. SumOf(n, b, g) = -b + (c % A) + HiddenIn(g)
  BY DEF SumOf
<1> HIDE DEF c, A
<1>5. c % A \in Int
  BY <1>3, Division
<1> QED
  BY <1>1, <1>2, <1>4, <1>5

\* What ecmult_gen_blind resets to is a pair.
LEMMA ResetPair == Reset.blind = 1 /\ GejTimes(Reset.initial, -1)
<1>1. GejTimes(GejNeg(GejSetGe(GeConstG)), -1)
  BY GeneratorIs, TimesMoves
<1> QED
  BY <1>1 DEF Reset

\* r starts from the blinding point.
LEMMA SumAtStart ==
    ASSUME NEW n \in Scalars, NEW b \in 1..Order-1
    PROVE  SumOf(n, b, 0) = -b
<1>1. GenBits * 0 = 0 /\ 0 # GenRows
  BY TableFacts
<1>2. Pow2[0] = 1
  BY Pow2Facts
<1> DEFINE c == (n + b) % Order
<1>3. c \in Int
  BY OrderFacts DEF Scalars
<1> HIDE DEF c
<1>4. c % 1 = 0
  BY <1>3
<1>5. (Pow2[0] - 1) * Nums = 0
  BY <1>2, NumsIs
<1> QED
  BY <1>1, <1>2, <1>4, <1>5, OrderFacts DEF SumOf, HiddenIn, c

\* All rows together give n * G.
LEMMA SumAtEnd ==
    ASSUME NEW n \in Scalars, NEW b \in 1..Order-1
    PROVE  SumOf(n, b, GenRows) \in Int /\ Times(SumOf(n, b, GenRows)) = Multiple[n]
<1> DEFINE c == (n + b) % Order
           M == Pow2[GenBits * GenRows]
<1>1. c \in 0..Order-1 /\ n \in Int /\ b \in Int /\ n \in 0..Order-1
  BY OrderFacts DEF Scalars
<1>2. Order <= M /\ M \in Nat
  <2>1. GenBits * GenRows \in Nat /\ GenRows * GenBits = GenBits * GenRows
    BY TableFacts
  <2> QED
    BY <2>1, Pow2Facts, TableAssumption
<1>3. PICK k \in Int : c = (n + b) - k * Order
  <2>1. (n + b) \in Int /\ Order \in Nat \ {0}
    BY <1>1, OrderFacts
  <2>2. (n + b) \div Order \in Int /\ n + b = Order * ((n + b) \div Order) + c
    BY <2>1, Division
  <2> DEFINE k == (n + b) \div Order
  <2>3. k \in Int /\ n + b = Order * k + c
    BY <2>2
  <2> HIDE DEF k, c
  <2>4. c = (n + b) - k * Order
    BY <2>3, <1>1, OrderFacts
  <2> QED
    BY <2>3, <2>4
<1>4. SumOf(n, b, GenRows) = -b + (c % M)
  <2>1. c % M \in Int
    BY <1>1, <1>2, OrderFacts
  <2> QED
    BY <2>1, <1>1 DEF SumOf, HiddenIn
<1> HIDE DEF c, M
<1>5. c % M = c
  BY <1>1, <1>2, OrderFacts
<1>6. SumOf(n, b, GenRows) \in Int /\ SumOf(n, b, GenRows) = n + (-k) * Order /\ -k \in Int
  BY <1>1, <1>3, <1>4, <1>5, OrderFacts
<1>7. Times(SumOf(n, b, GenRows)) = Times(n)
  BY <1>1, <1>6, TimesSame
<1> QED
  BY <1>1, <1>6, <1>7, TimesFacts

\* One row adds its digit and its share of the unknown point.
LEMMA RowStep ==
    ASSUME NEW n \in Scalars, NEW b \in 1..Order-1, NEW g \in Rows, NEW a,
           GejTimes(a, SumOf(n, b, g))
    PROVE  LET bits == ScGetBits(ScAdd(n, b), g * GenBits, GenBits)
           IN  GejTimes(GejAddGe(a, GeFromStorage(StorageMoveIn(prec[g], bits))), SumOf(n, b, g + 1))
<1> DEFINE c == (n + b) % Order
           A == Pow2[GenBits * g]
           W == Pow2[GenBits]
           bits == (c \div A) % W
           e == Entry(Nums, g, bits)
<1>1. c \in Nat /\ c \in Scalars /\ ScAdd(n, b) = c
  BY ScalarFacts, OrderFacts DEF Scalars
<1>2. /\ GenBits \in Nat /\ g \in Nat /\ GenBits * g \in Nat /\ A \in Nat \ {0}
      /\ W \in Nat \ {0} /\ GenWidth = W
  BY TableFacts, Pow2Facts DEF Rows
<1>3. ScGetBits(ScAdd(n, b), g * GenBits, GenBits) = bits
  <2>1. g * GenBits = GenBits * g
    BY <1>2
  <2> QED
    BY <1>1, <2>1 DEF ScGetBits
<1>4. Pow2[GenBits * (g + 1)] = A * W
  <2>1. GenBits * (g + 1) = GenBits * g + GenBits
    BY <1>2
  <2> QED
    BY <1>2, <2>1, Pow2Sum
<1>5. c % (A * W) = (c % A) + A * bits /\ c % A \in Int /\ bits \in Digits /\ bits \in Int
      /\ A * bits \in Int
  <2> HIDE DEF c, A, W
  <2> HIDE DEF bits
  <2>1. c % (A * W) = (c % A) + A * bits
    <3>1. c \in Nat /\ A \in Nat \ {0} /\ W \in Nat \ {0}
      BY <1>1, <1>2
    <3> DEFINE D(x, y, z) ==
                  /\ y * z \in Nat \ {0}
                  /\ x % (y * z) = (x % y) + y * ((x \div y) % z)
                  /\ x \div (y * z) = (x \div y) \div z
    <3>2. \A x \in Nat, y \in Nat \ {0}, z \in Nat \ {0} : D(x, y, z)
      BY DigitsAbove
    <3>3. D(c, A, W)
      <4> HIDE DEF D
      <4> QED
        BY <3>1, <3>2
    <3> QED
      BY <3>3 DEF bits
  <2>2. c % A \in Int /\ c \div A \in Int
    BY <1>1, <1>2, Division
  <2>3. bits \in 0..W-1
    BY <1>2, <2>2, Division DEF bits
  <2>4. bits \in Int /\ A * bits \in Int
    BY <1>2, <2>3
  <2> QED
    BY <1>2, <2>1, <2>2, <2>3, <2>4 DEF Digits
<1>6. /\ e \in Int /\ e % Order # 0 /\ GeTimes(GeFromStorage(prec[g][bits]), e)
      /\ StorageMoveIn(prec[g], bits) = prec[g][bits]
  <2> HIDE DEF bits
  <2>1. /\ e \in Int /\ e % Order # 0 /\ GeTimes(GeFromStorage(prec[g][bits]), e)
    BY <1>5, NumsIs, PrecIs
  <2>2. \A i \in Digits : \E q \in CurvePoints : prec[g][i] = StorageOf(q)
    BY NumsIs, PrecIs
  <2>3. StorageMoveIn(prec[g], bits) = prec[g][bits]
    BY <1>5, <2>2, StorageMoveInIs
  <2> QED
    BY <2>1, <2>3
<1>7. SumOf(n, b, g) \in Int /\ SumOf(n, b, g + 1) = SumOf(n, b, g) + e
  <2>1. /\ HiddenIn(g) \in Int /\ HiddenIn(g + 1) \in Int
        /\ HiddenIn(g + 1) = HiddenIn(g) + NumsIn(Nums, g)
    BY HiddenStep
  <2>2. NumsIn(Nums, g) \in Int
    BY NumsIs, NumsbaseIs
  <2>3. e = NumsIn(Nums, g) + bits * A
    BY DEF Entry
  <2>4. SumOf(n, b, g) = -b + (c % A) + HiddenIn(g)
    BY DEF SumOf
  <2>5. SumOf(n, b, g + 1) = -b + (c % (A * W)) + HiddenIn(g + 1)
    BY <1>4 DEF SumOf
  <2>6. b \in Int
    BY OrderFacts
  <2> HIDE DEF c, A, W, bits, e
  <2>7. bits * A = A * bits
    BY <1>2, <1>5
  <2> QED
    BY <2>1, <2>2, <2>3, <2>4, <2>5, <2>6, <2>7, <1>5
<1> HIDE DEF bits, e
<1>8. GejTimes(GejAddGe(a, GeFromStorage(prec[g][bits])), SumOf(n, b, g) + e)
  BY <1>6, <1>7, TimesMoves, Zenon
<1> QED
  BY <1>3, <1>6, <1>7, <1>8

\* The unbuilt context has the invariant.
LEMMA GenInvFirst == GenInit => GenInv
  BY DEF GenInit, GenInv, GenTyped, GenPair, GenSum, Unbuilt

\* Every step keeps it: building, blinding with and without a seed, numbers that are refused,
\* rows, the new pair, returns and clearing.
LEMMA GenInvNext == GenInv /\ [GenNext]_genVars => GenInv'
<1> SUFFICES ASSUME GenInv, [GenNext]_genVars
             PROVE  GenInv'
  OBVIOUS
<1> USE DEF GenInv, GenTyped, GenPair, GenSum
<1>r. /\ Reset = [built |-> Reset.built, initial |-> Reset.initial, blind |-> Reset.blind]
      /\ Reset.built = TRUE /\ Reset.blind \in 1..Order-1
      /\ GejTimes(Reset.initial, -Reset.blind)
  BY ResetPair, ScalarFacts DEF Reset
<1>1. CASE GenBuild
  BY <1>1, <1>r DEF GenBuild
<1>2. ASSUME NEW seeded \in BOOLEAN, GenBlind(seeded)
      PROVE  GenInv'
  BY <1>2, <1>r DEF GenBlind
<1>3. ASSUME NEW bytes \in RngBytes, GenRescale(bytes)
      PROVE  GenInv'
  <2> DEFINE s == FeSetB32(bytes)
  <2>1. CASE ~s.ok \/ FeIsZero(s.r)
    BY <1>3, <2>1 DEF GenRescale
  <2>2. CASE ~(~s.ok \/ FeIsZero(s.r))
    <3>1. gctx.built /\ gctx.blind \in 1..Order-1 /\ GejTimes(gctx.initial, -gctx.blind)
          /\ gpc = "s"
      BY <1>3 DEF GenRescale
    <3>2. /\ gctx' = [gctx EXCEPT !.initial = GejRescale(@, s.r)] /\ gpc' = "b"
          /\ UNCHANGED <<gn, gfor, grow, gsum>>
      BY <1>3, <2>2 DEF GenRescale
    <3>3. gctx' = [built |-> TRUE, initial |-> GejRescale(gctx.initial, s.r), blind |-> gctx.blind]
      BY <3>1, <3>2
    <3>4. bytes \in Nat
      BY TableAssumption
    <3>5. Stands(s.r, s.r.v, 1) /\ s.r.v \in Int /\ ~Eq(s.r.v, 0)
      <4>1. s.ok = (bytes < P) /\ s.r = [v |-> bytes % P, m |-> 1, n |-> bytes < P]
        BY DEF FeSetB32
      <4>2. bytes < P /\ bytes % P \in Values /\ bytes % P # 0
        <5>1. s.r.v = bytes % P /\ s.ok = (bytes < P) /\ s.r.n = (bytes < P)
          BY <4>1
        <5> HIDE DEF s
        <5>2. bytes < P /\ s.r.v # 0
          BY <2>2, <5>1 DEF FeIsZero
        <5> QED
          BY <5>1, <5>2, <3>4, PInt DEF Values
      <4>3. s.r \in Fe /\ s.r.m <= 1 /\ s.r.v \in Values \ {0}
        BY <4>1, <4>2, FieldAssumption DEF Fe, Broken
      <4> HIDE DEF s
      <4>4. s.r.v \in Int /\ Stands(s.r, s.r.v, 1)
        BY <4>3, StandsSelf
      <4>5. 0 \in Values
        BY PInt DEF Values
      <4> QED
        BY <4>3, <4>4, <4>5, EqValue
    <3>6. GejTimes(GejRescale(gctx.initial, s.r), -gctx.blind)
      <4> HIDE DEF s
      <4>1. -gctx.blind \in Int
        BY <3>1, OrderFacts
      <4>2. Times(-gctx.blind) \in GroupPoints
        BY <4>1, TimesFacts
      <4> QED
        BY <3>1, <3>5, <4>2, GejRescaleIs DEF GejTimes
    <3> HIDE DEF s
    <3> QED
      BY <3>1, <3>2, <3>3, <3>6
  <2> QED
    BY <2>1, <2>2
<1>4. ASSUME NEW bytes \in RngBytes, GenChoose(bytes)
      PROVE  GenInv'
  <2> DEFINE b == ScSetB32(bytes)
  <2>1. CASE b.overflow \/ ScIsZero(b.r)
    BY <1>4, <2>1 DEF GenChoose
  <2>2. CASE ~(b.overflow \/ ScIsZero(b.r))
    <3>1. gctx.built /\ gctx.blind \in 1..Order-1 /\ GejTimes(gctx.initial, -gctx.blind)
          /\ gpc = "b"
      BY <1>4 DEF GenChoose
    <3>2. /\ gn' = b.r /\ gpc' = "row" /\ grow' = 0 /\ gsum' = gctx.initial
          /\ UNCHANGED <<gctx, gfor>>
      BY <1>4, <2>2 DEF GenChoose
    <3>3. b.r \in Scalars /\ b.r # 0
      BY <2>2, TableAssumption, ScalarFacts DEF ScSetB32, ScIsZero
    <3> HIDE DEF b
    <3>4. SumOf(b.r, gctx.blind, 0) = -gctx.blind
      BY <3>1, <3>3, SumAtStart
    <3>5. 0 \in 0..GenRows
      BY TableFacts
    <3> QED
      BY <3>1, <3>2, <3>3, <3>4, <3>5
  <2> QED
    BY <2>1, <2>2
<1>5. ASSUME NEW n \in GenScalars, GenCall(n)
      PROVE  GenInv'
  <2>1. n \in Scalars /\ gctx.built /\ gctx.blind \in 1..Order-1
        /\ GejTimes(gctx.initial, -gctx.blind)
    BY <1>5, TableAssumption DEF GenCall
  <2>2. SumOf(n, gctx.blind, 0) = -gctx.blind
    BY <2>1, SumAtStart
  <2>3. 0 \in 0..GenRows
    BY TableFacts
  <2> QED
    BY <1>5, <2>1, <2>2, <2>3 DEF GenCall
<1>6. CASE GenRow
  <2>1. /\ gctx.built /\ gctx.blind \in 1..Order-1 /\ gn \in Scalars /\ gpc = "row"
        /\ grow \in Rows /\ grow + 1 \in 0..GenRows
        /\ GejTimes(gsum, SumOf(gn, gctx.blind, grow))
    BY <1>6, TableFacts DEF GenRow, Rows
  <2>2. GejTimes(gsum', SumOf(gn, gctx.blind, grow + 1))
    BY <1>6, <2>1, RowStep DEF GenRow
  <2>3. grow' = grow + 1 /\ UNCHANGED <<gctx, gpc, gn, gfor>>
    BY <1>6 DEF GenRow
  <2> QED
    BY <2>1, <2>2, <2>3
<1>7. CASE GenBlinded
  <2>1. /\ gctx.built /\ gctx.blind \in 1..Order-1 /\ gn \in Scalars /\ gn # 0
        /\ GejTimes(gsum, SumOf(gn, gctx.blind, GenRows))
    BY <1>7 DEF GenBlinded
  <2>2. /\ gctx' = [built |-> TRUE, initial |-> gsum, blind |-> ScNegate(gn)]
        /\ gpc' = "idle" /\ gfor' = "caller" /\ gsum' = GejSetInfinity
    BY <1>7, <2>1 DEF GenBlinded
  <2>3. gn \in 1..Order-1 /\ ScNegate(gn) = Order - gn /\ ScNegate(gn) \in 1..Order-1
    BY <2>1, ScalarFacts, OrderFacts
  <2>4. Times(SumOf(gn, gctx.blind, GenRows)) = Multiple[gn]
    BY <2>1, SumAtEnd
  <2>5. Times(-(Order - gn)) = Multiple[gn]
    <3>1. gn \in Int /\ -(Order - gn) \in Int /\ -(Order - gn) = gn + (-1) * Order
      BY <2>3, OrderFacts
    <3>2. Times(-(Order - gn)) = Times(gn)
      BY <3>1, TimesSame
    <3>3. gn \in 0..Order-1
      BY <2>3, OrderFacts
    <3>4. Times(gn) = Multiple[gn]
      BY <3>3, TimesFacts
    <3> QED
      BY <3>2, <3>4
  <2>6. GejTimes(gsum, -ScNegate(gn))
    BY <2>1, <2>3, <2>4, <2>5 DEF GejTimes
  <2> QED
    BY <2>2, <2>3, <2>6
<1>8. CASE GenReturn
  BY <1>8 DEF GenReturn
<1>9. CASE GenClear
  BY <1>9 DEF GenClear, Unbuilt
<1>10. CASE UNCHANGED genVars
  BY <1>10 DEF genVars
<1> QED
  BY <1>1, <1>2, <1>3, <1>4, <1>5, <1>6, <1>7, <1>8, <1>9, <1>10 DEF GenNext

\* It says what GenLaw says.
LEMMA GenInvGives == GenInv => GenLaw
<1> SUFFICES ASSUME GenInv
             PROVE  GenLaw
  OBVIOUS
<1> USE DEF GenInv, GenTyped, GenPair, GenSum
<1>1. ASSUME gctx.built
      PROVE  /\ KeptGej(gctx.initial) /\ gctx.blind # 0
             /\ PointOfGej(gctx.initial) = Multiple[ScNegate(gctx.blind)]
  <2>1. gctx.blind \in 1..Order-1 /\ GejTimes(gctx.initial, -gctx.blind)
    BY <1>1
  <2>2. -gctx.blind \in Int /\ gctx.blind \in Int /\ gctx.blind # 0
        /\ gctx.blind % Order = gctx.blind
    BY <2>1, OrderFacts
  <2>3. Times(-gctx.blind) = Multiple[ScNegate(gctx.blind)]
    BY <2>2, TimesOpposite DEF ScNegate
  <2> QED
    BY <2>1, <2>2, <2>3, TimesFacts, PointOfGejIs DEF GejTimes
<1>2. KeptGej(gsum) /\ (gpc = "row" /\ grow = GenRows => PointOfGej(gsum) = Multiple[gn])
  <2>1. CASE gpc # "row"
    BY <2>1, InfinityTimes
  <2>2. CASE gpc = "row"
    <3>1. /\ gctx.blind \in 1..Order-1 /\ gn \in Scalars /\ grow \in 0..GenRows
          /\ GejTimes(gsum, SumOf(gn, gctx.blind, grow))
      BY <2>2
    <3> DEFINE t == SumOf(gn, gctx.blind, grow)
    <3>2. Times(t) \in GroupPoints
      BY <3>1, SumTyped, TimesFacts
    <3>3. KeptGej(gsum) /\ PointOfGej(gsum) = Times(t)
      BY <3>1, <3>2, PointOfGejIs DEF GejTimes
    <3> QED
      BY <3>1, <3>3, SumAtEnd
  <2> QED
    BY <2>1, <2>2
<1> QED
  BY <1>1, <1>2 DEF GenLaw

\* GenLaw for every curve, table and sequence of calls: the blinding stays a pair of -b and
\* -b * G with b # 0 however often ecmult_gen_blind ran, and ecmult_gen gives n * G.
THEOREM GenPairKept == GenSpec => []GenLaw
<1> QED
  BY GenInvFirst, GenInvNext, GenInvGives, PTL DEF GenSpec
-----------------------------------------------------------------------------
\* A scalar shifted right by j bits, and its bit j.
Rest(s, j) == s \div Pow2[j]
BitOf(s, j) == Rest(s, j) % 2

\* Shifting again, and what n more bits hold.
LEMMA RestFacts ==
    ASSUME NEW s \in Nat, NEW j \in Nat, NEW n \in Nat
    PROVE  /\ Rest(s, j) \in Nat
           /\ Rest(s, 0) = s
           /\ Rest(s, j + n) = Rest(s, j) \div Pow2[n]
           /\ Rest(s, j) % Pow2[n] \in 0..Pow2[n]-1
           /\ Rest(s, j) = Pow2[n] * Rest(s, j + n) + (Rest(s, j) % Pow2[n])
<1> DEFINE A == Pow2[j]
           B == Pow2[n]
<1>1. A \in Nat \ {0} /\ B \in Nat \ {0} /\ Pow2[j + n] = A * B
  <2>1. A \in Nat \ {0} /\ B \in Nat \ {0}
    BY Pow2Facts
  <2> QED
    BY <2>1, Pow2Sum
<1>2. Rest(s, j) \in Nat
  <2> HIDE DEF A
  <2>1. s \div A \in Int /\ s \div A >= 0
    <3>1. A \in Nat \ {0} /\ s \in Int /\ s >= 0
      BY <1>1
    <3> QED
      BY <3>1, Division
  <2> QED
    BY <2>1 DEF Rest, A
<1>3. Rest(s, 0) = s
  <2>1. s \div 1 = s
    OBVIOUS
  <2> QED
    BY <2>1, Pow2Facts DEF Rest
<1> DEFINE X == Rest(s, j)
<1>4. Rest(s, j + n) = X \div B
  <2> DEFINE D(x, y, z) ==
                /\ y * z \in Nat \ {0}
                /\ x % (y * z) = (x % y) + y * ((x \div y) % z)
                /\ x \div (y * z) = (x \div y) \div z
  <2>1. \A x \in Nat, y \in Nat \ {0}, z \in Nat \ {0} : D(x, y, z)
    BY DigitsAbove
  <2>2. D(s, A, B)
    <3> HIDE DEF D, A, B
    <3> QED
      BY <1>1, <2>1
  <2> QED
    BY <1>1, <2>2 DEF Rest
<1>5. X % B \in 0..B-1 /\ X = B * (X \div B) + (X % B)
  <2>1. X \in Int /\ B \in Nat \ {0}
    BY <1>1, <1>2
  <2> HIDE DEF X, B
  <2> QED
    BY <2>1, Division
<1> QED
  BY <1>2, <1>3, <1>4, <1>5

\* Above its length a number has no bits.
LEMMA RestZero ==
    ASSUME NEW s \in Nat, NEW j \in Nat, s < Pow2[j]
    PROVE  Rest(s, j) = 0
<1> DEFINE A == Pow2[j]
<1>1. A \in Nat \ {0} /\ s < A
  BY Pow2Facts
<1> HIDE DEF A
<1>2. s \div A = 0
  <2>1. s = A * 0 + s /\ s \in 0..A-1
    BY <1>1
  <2> QED
    BY <1>1, <2>1, DivisionUnique
<1> QED
  BY <1>2 DEF Rest, A

\* Bit j of s, the rest above it, and what is below it.
LEMMA BitFacts ==
    ASSUME NEW s \in Nat, NEW j \in Nat
    PROVE  /\ BitOf(s, j) \in 0..1
           /\ ScGetBits(s, j, 1) = BitOf(s, j)
           /\ Rest(s, j) = 2 * Rest(s, j + 1) + BitOf(s, j)
<1>1. Pow2[1] = 2 /\ Rest(s, j) \in Nat
  BY Pow2Facts, RestFacts
<1>2. Rest(s, j) = Pow2[1] * Rest(s, j + 1) + (Rest(s, j) % Pow2[1])
  BY RestFacts
<1> QED
  BY <1>1, <1>2 DEF BitOf, ScGetBits, Rest

\* The window at a bit that differs from the carry: an odd word below 2^now, whose
\* digit is odd and within the window, and what the next carry is.
WordAt(s, b, c, now) == (Rest(s, b) % Pow2[now]) + c

\* Where the bit differs from the carry, the word with the carry is odd.
LEMMA WordIsOdd ==
    ASSUME NEW X \in Nat, NEW c \in 0..1, X % 2 # c, NEW H \in Nat \ {0}
    PROVE  /\ (X % (2 * H)) + c \in 1..2*H-1 /\ ((X % (2 * H)) + c) % 2 = 1
           /\ X % (2 * H) \in 0..2*H-1
<1> DEFINE M == 2 * H
           q == X \div M
           x == X % M
           t == H * q
<1>1. M \in Nat \ {0} /\ H \in Int
  OBVIOUS
<1>2. q \in Int /\ x \in 0..M-1 /\ X = M * q + x
  <2> HIDE DEF M
  <2> QED
    BY <1>1, Division
<1>3. t \in Int /\ M * q = 2 * t
  <2> HIDE DEF q
  <2> QED
    BY <1>1, <1>2
<1> HIDE DEF q, x, t
<1>4. X % 2 = x % 2
  BY <1>2, <1>3
<1>5. x + c \in 1..M-1 /\ (x + c) % 2 = 1
  BY <1>2, <1>4
<1> QED
  BY <1>2, <1>5 DEF x

\* The carry out of a whole window is its top bit, as the carry into it moves nothing
\* beyond the lowest bit.
LEMMA CarryIsTop ==
    ASSUME NEW x \in Nat, NEW c \in 0..1, x % 2 # c, NEW H \in Nat \ {0}, H % 2 = 0,
           x \in 0..2*H-1
    PROVE  /\ ((x + c) \div H) % 2 = x \div H
           /\ x \div H \in 0..1
           /\ LET d == (x + c) - (x \div H) * (2 * H)
              IN  d % 2 = 1 /\ d < H /\ -d < H
<1> DEFINE q == x \div H
           r == x % H
<1>1. q \in Int /\ r \in 0..H-1 /\ x = H * q + r
  BY Division
<1>2. q \in 0..1
  <2>1. CASE q >= 2
    <3>1. H * q >= H * 2
      BY <1>1, <2>1
    <3> QED
      BY <1>1, <3>1
  <2>2. CASE q <= -1
    <3>1. H * q <= H * (-1)
      BY <1>1, <2>2
    <3> QED
      BY <1>1, <3>1
  <2> QED
    BY <1>1, <2>1, <2>2
<1> HIDE DEF q, r
<1>3. PICK h \in Int : H = 2 * h
  <2>1. H = 2 * (H \div 2)
    OBVIOUS
  <2> QED
    BY <2>1
<1>4. r % 2 # c /\ r + c \in 0..H-1
  <2>1. CASE q = 0
    <3>1. x = r
      BY <1>1, <2>1
    <3> QED
      BY <1>1, <1>3, <3>1
  <2>2. CASE q = 1
    <3>1. x = H + r
      BY <1>1, <2>2
    <3> QED
      BY <1>1, <1>3, <3>1
  <2> QED
    BY <1>2, <2>1, <2>2
<1>5. (x + c) \div H = q
  <2>1. x + c = H * q + (r + c)
    BY <1>1, <1>2
  <2> QED
    BY <1>1, <1>4, <2>1, DivisionUnique
<1>6. q % 2 = q
  BY <1>2
<1>7. LET d == (x + c) - q * (2 * H) IN d % 2 = 1 /\ d < H /\ -d < H
  <2>1. CASE q = 0
    <3>1. (x + c) - q * (2 * H) = r + c
      BY <1>1, <2>1
    <3> QED
      BY <3>1, <1>4, <1>1
  <2>2. CASE q = 1
    <3>1. (x + c) - q * (2 * H) = r + c - H
      BY <1>1, <2>2
    <3>2. (r + c) % 2 = 1
      BY <1>1, <1>4
    <3>3. r + c # 0
      BY <3>2
    <3> QED
      BY <3>1, <3>2, <3>3, <1>4, <1>1, <1>3
  <2> QED
    BY <1>2, <2>1, <2>2
<1> QED
  BY <1>2, <1>5, <1>6, <1>7 DEF q
-----------------------------------------------------------------------------
\* One window of the recoding, at a bit that differs from the carry: what it moves on,
\* the digit, the carry, and that nothing of the number is lost.
LEMMA WindowIs ==
    ASSUME NEW s \in Nat, s < Pow2[ScalarBits - 1], NEW w \in Nat, w > 2,
           NEW b \in 0..ScalarBits-1, NEW c \in 0..1, BitOf(s, b) # c,
           NEW now, now = Smaller(w, ScalarBits - b),
           NEW word, word = WordAt(s, b, c, now),
           NEW next, next = (word \div Pow2[w - 1]) % 2
    PROVE  /\ now \in 1..w /\ b + now <= ScalarBits
           /\ now < w => b + now = ScalarBits
           /\ next \in 0..1 /\ next = BitOf(s, b + now - 1)
           /\ LET d == word - next * Pow2[w]
              IN  /\ d \in Int /\ d % 2 = 1 /\ d < Pow2[w - 1] /\ -d < Pow2[w - 1]
                  /\ Rest(s, b) + c = d + Pow2[now] * (Rest(s, b + now) + next)
<1> DEFINE SB == ScalarBits
           X == Rest(s, b)
           H == Pow2[now - 1]
           J == Pow2[w - 1]
           x == X % Pow2[now]
           Y == Rest(s, b + now)
<1>1. SB \in Nat /\ SB > 0 /\ b \in Nat /\ b < SB
  BY WindowAssumption
<1>2. now \in 1..w /\ now \in Nat /\ b + now <= SB /\ (now < w => b + now = SB)
  BY <1>1 DEF Smaller
<1>3. /\ H \in Nat \ {0} /\ Pow2[now] = 2 * H /\ J \in Nat \ {0} /\ Pow2[w] = 2 * J
      /\ H <= J /\ J % 2 = 0 /\ 2 * H \in Nat
  <2>1. now - 1 \in Nat /\ w - 1 \in Nat /\ w - 1 # 0 /\ now # 0 /\ w # 0 /\ w - 2 \in Nat
    BY <1>2
  <2>2. /\ H \in Nat \ {0} /\ Pow2[now] = 2 * H /\ J \in Nat \ {0} /\ Pow2[w] = 2 * J
    BY <1>2, <2>1, Pow2Facts
  <2>3. H <= J
    BY <1>2, <2>1, Pow2Grows
  <2>4. J = 2 * Pow2[w - 2] /\ Pow2[w - 2] \in Int
    <3>1. (w - 1) - 1 = w - 2
      BY <2>1
    <3> QED
      BY <2>1, <3>1, Pow2Facts
  <2> DEFINE g == Pow2[w - 2]
  <2>5. g \in Int /\ J = 2 * g
    BY <2>4
  <2> HIDE DEF g, J, H
  <2> QED
    BY <2>2, <2>3, <2>5
<1>4. /\ X \in Nat /\ X % 2 # c /\ x \in 0..2*H-1 /\ Y \in Nat /\ x \in Nat
      /\ X = 2 * H * Y + x
  <2>1. /\ X \in Nat /\ Y \in Nat /\ x \in 0..Pow2[now]-1 /\ X = Pow2[now] * Y + x
    <3>1. b \in Nat /\ now \in Nat
      BY <1>1, <1>2
    <3>2. Y \in Nat
      <4>1. b + now \in Nat
        BY <3>1
      <4> QED
        BY <4>1, RestFacts
    <3>3. X \in Nat /\ x \in 0..Pow2[now]-1 /\ X = Pow2[now] * Y + x
      BY <3>1, RestFacts
    <3> QED
      BY <3>2, <3>3
  <2>2. X % 2 # c
    BY DEF BitOf
  <2> HIDE DEF X, Y, x, H
  <2> QED
    BY <2>1, <2>2, <1>3
<1>5. word = x + c
  BY DEF WordAt
<1> HIDE DEF X, x, Y
<1>6. word \in 1..2*H-1 /\ word % 2 = 1 /\ word \in Int
  <2> HIDE DEF H, J, SB
  <2>1. X % (2 * H) = x
    BY <1>3 DEF x
  <2>2. x + c \in 1..2*H-1 /\ (x + c) % 2 = 1
    <3>1. X \in Nat /\ X % 2 # c /\ H \in Nat \ {0}
      BY <1>3, <1>4
    <3>2. (X % (2 * H)) + c \in 1..2*H-1 /\ ((X % (2 * H)) + c) % 2 = 1
      BY <3>1, WordIsOdd
    <3> QED
      BY <2>1, <3>2
  <2> QED
    BY <1>3, <1>5, <2>2
<1>7. CASE now = w
  <2>1. H = J
    BY <1>7
  <2>2. b + now - 1 = b + (w - 1) /\ w - 1 \in Nat
    BY <1>2, <1>7, <1>1
  <2>3. BitOf(s, b + now - 1) = (X \div J) % 2
    <3>1. Rest(s, b + (w - 1)) = X \div J
      BY <1>1, <2>2, RestFacts DEF X
    <3> QED
      BY <2>2, <3>1 DEF BitOf
  <2> DEFINE q == x \div J
  <2>4. /\ ((x + c) \div J) % 2 = q /\ q \in 0..1
        /\ LET d == (x + c) - q * (2 * J)
           IN  d % 2 = 1 /\ d < J /\ -d < J
    <3>1. x % 2 # c
      <4> DEFINE t == H * Y
      <4>1. t \in Int /\ X = 2 * t + x
        <5> HIDE DEF H
        <5> QED
          BY <1>3, <1>4
      <4> HIDE DEF t, H
      <4> QED
        BY <4>1, <1>4
    <3> HIDE DEF J, H
    <3> QED
      <4>1. x \in Nat /\ x % 2 # c /\ J \in Nat \ {0} /\ J % 2 = 0 /\ x \in 0..2*J-1
        BY <1>3, <1>4, <2>1, <3>1
      <4> QED
        BY <4>1, CarryIsTop
  <2>5. next = q
    BY <1>5, <2>4
  <2>6. (X \div J) % 2 = q
    <3> HIDE DEF J, H
    <3>1. X = J * (2 * Y) + x
      BY <1>3, <1>4, <2>1
    <3>2. x = J * q + (x % J) /\ x % J \in 0..J-1
      <4>1. x \in Int /\ J \in Nat \ {0}
        BY <1>3, <1>4
      <4> QED
        BY <4>1, Division
    <3> HIDE DEF q
    <3> DEFINE r == x % J
    <3>3. X = J * (2 * Y + q) + r /\ 2 * Y + q \in Int /\ r \in 0..J-1
      BY <3>1, <3>2, <1>3, <1>4, <2>4
    <3> HIDE DEF r
    <3>4. X \div J = 2 * Y + q
      <4>1. X \in Int /\ J \in Nat \ {0}
        BY <1>3, <1>4
      <4> QED
        BY <3>3, <4>1, DivisionUnique
    <3> QED
      BY <3>4, <1>4, <2>4
  <2>7. LET d == word - next * Pow2[w]
        IN  /\ d \in Int /\ d % 2 = 1 /\ d < J /\ -d < J
            /\ X + c = d + Pow2[now] * (Y + next)
    <3> HIDE DEF J, H, q
    <3>1. word - next * Pow2[w] = (x + c) - q * (2 * J)
      BY <1>3, <1>5, <2>5
    <3> DEFINE d == (x + c) - q * (2 * J)
    <3>2. d \in Int /\ d % 2 = 1 /\ d < J /\ -d < J
      BY <1>3, <1>4, <2>4
    <3>3. X + c = d + (2 * J) * (Y + q)
      BY <1>3, <1>4, <2>1, <2>4
    <3> HIDE DEF d
    <3>4. Pow2[now] = 2 * J
      BY <1>3, <2>1
    <3> QED
      BY <3>1, <3>2, <3>3, <3>4, <2>5 DEF d
  <2> QED
    BY <1>2, <2>3, <2>4, <2>5, <2>6, <2>7 DEF X, Y
<1>8. CASE now # w
  <2>1. now < w /\ b + now = SB /\ b + now - 1 = SB - 1
    BY <1>1, <1>2, <1>8
  <2>2. 2 * H <= J
    <3>1. now - 1 \in Nat /\ w - 1 \in Nat /\ now - 1 < w - 1
      BY <1>2, <2>1
    <3> QED
      BY <3>1, Pow2Grows
  <2>3. next = 0
    <3> HIDE DEF J, H
    <3>1. word \in 0..J-1 /\ word = J * 0 + word
      BY <1>3, <1>6, <2>2
    <3>2. word \div J = 0
      BY <1>3, <1>6, <3>1, DivisionUnique
    <3> QED
      BY <3>2 DEF J
  <2>4. Rest(s, SB - 1) = 0 /\ Y = 0
    <3>1. SB - 1 \in Nat /\ Pow2[SB] = 2 * Pow2[SB - 1] /\ Pow2[SB - 1] \in Nat
      BY <1>1, Pow2Facts
    <3>2. s < Pow2[SB]
      BY <3>1
    <3> QED
      BY <1>1, <2>1, <3>1, <3>2, RestZero DEF Y
  <2>5. BitOf(s, b + now - 1) = 0
    BY <2>1, <2>4 DEF BitOf
  <2>6. word - next * Pow2[w] = word
    BY <1>3, <1>6, <2>3
  <2>7. Pow2[now] * (Y + next) = 0
    BY <1>3, <2>3, <2>4
  <2>8. X + c = word
    <3> HIDE DEF H
    <3> QED
      BY <1>3, <1>4, <1>5, <2>4
  <2>9. word < J /\ -word < J
    <3> HIDE DEF J, H
    <3> QED
      BY <1>3, <1>6, <2>2
  <2> QED
    BY <1>2, <1>6, <2>3, <2>5, <2>6, <2>7, <2>8, <2>9 DEF X, Y
<1> QED
  BY <1>7, <1>8
-----------------------------------------------------------------------------
\* The positions of a scalar's digits.
Positions == 0..ScalarBits-1

\* The loop of ecmult_wnaf, as a record of where it is.
WnafStates == [bit: 0..ScalarBits, carry: 0..1, wnaf: [Positions -> Int]]

\* The bit below, which is what the carry always is.
BitBelow(s, j) == IF j = 0 THEN 0 ELSE BitOf(s, j - 1)

\* What the comments of ecmult_wnaf guarantee of the digits, and where they can be.
DigitsOk(s, w, digits) ==
    /\ \A j \in Positions : digits[j] # 0 =>
         /\ digits[j] % 2 = 1 /\ digits[j] < Pow2[w - 1] /\ -digits[j] < Pow2[w - 1]
         /\ BitOf(s, j) # BitBelow(s, j)
    /\ \A j, k \in Positions : digits[j] # 0 /\ digits[k] # 0 /\ j < k => k - j >= w

\* The invariant of the loop.
LoopOk(s, w, l) ==
    /\ l \in WnafStates
    /\ l.carry = BitBelow(s, l.bit)
    /\ DigitsOk(s, w, l.wnaf)
    /\ \A j \in Positions : l.wnaf[j] # 0 => j < l.bit /\ (j + w <= l.bit \/ l.bit = ScalarBits)

\* One step loses nothing of the number: what is above l is what is above m and the
\* digit between.
LosesNothing(s, sign, l, m) ==
    LET n == m.bit - l.bit
    IN  /\ n \in 1..ScalarBits
        /\ \A j \in l.bit+1..m.bit-1 : m.wnaf[j] = 0
        /\ sign * (Rest(s, l.bit) + l.carry)
             = m.wnaf[l.bit] + Pow2[n] * (sign * (Rest(s, m.bit) + m.carry))

\* A step that skips a bit, or takes a window.
LEMMA WnafStepOk ==
    ASSUME NEW s \in Nat, s < Pow2[ScalarBits - 1], NEW w \in Nat, w > 2, NEW sign \in {1, -1},
           NEW l, LoopOk(s, w, l)
    PROVE  LET m == WnafStep(s, sign, w, l)
           IN  /\ LoopOk(s, w, m)
               /\ l.bit = ScalarBits => m = l
               /\ l.bit < ScalarBits => LosesNothing(s, sign, l, m)
               /\ \A j \in Positions : j < l.bit => m.wnaf[j] = l.wnaf[j]
<1> DEFINE m == WnafStep(s, sign, w, l)
           SB == ScalarBits
           b == l.bit
           c == l.carry
           now == Smaller(w, SB - b)
           word == ScGetBitsVar(s, b, now) + c
           next == (word \div Pow2[w - 1]) % 2
           d == word - next * Pow2[w]
<1>1. /\ l = [bit |-> b, carry |-> c, wnaf |-> l.wnaf] /\ b \in 0..SB /\ c \in 0..1
      /\ l.wnaf \in [Positions -> Int] /\ SB \in Nat /\ SB > 0 /\ b \in Nat
  BY WindowAssumption DEF LoopOk, WnafStates
<1>2. CASE b = SB
  <2>1. m = l
    BY <1>1, <1>2 DEF WnafStep
  <2> QED
    BY <2>1, <1>1, <1>2
<1>3. CASE b < SB /\ ScGetBits(s, b, 1) = c
  <2>1. m = [l EXCEPT !.bit = b + 1]
    BY <1>1, <1>3 DEF WnafStep
  <2>2. m = [bit |-> b + 1, carry |-> c, wnaf |-> l.wnaf]
    BY <1>1, <2>1
  <2>3. BitOf(s, b) = c
    BY <1>1, <1>3, BitFacts
  <2>4. c = BitBelow(s, b + 1)
    BY <1>1, <2>3 DEF BitBelow
  <2>5. LoopOk(s, w, m)
    <3>1. m.bit = b + 1 /\ m.carry = c /\ m.wnaf = l.wnaf
      BY <2>2
    <3>2. m \in WnafStates
      BY <1>1, <1>3, <2>2 DEF WnafStates
    <3>3. \A j \in Positions : l.wnaf[j] # 0 => j < b + 1 /\ (j + w <= b + 1 \/ b + 1 = SB)
      BY <1>1, <1>3 DEF LoopOk, Positions
    <3> HIDE DEF m
    <3> QED
      BY <3>1, <3>2, <3>3, <2>4 DEF LoopOk
  <2>6. l.wnaf[b] = 0
    <3>1. b \in Positions /\ ~(b < b)
      BY <1>1, <1>3 DEF Positions
    <3>2. l.wnaf[b] # 0 => b < b
      BY <3>1 DEF LoopOk
    <3> QED
      BY <3>1, <3>2
  <2>7. LosesNothing(s, sign, l, m)
    <3>1. m.bit = b + 1 /\ m.carry = c /\ m.wnaf = l.wnaf /\ m.bit - l.bit = 1
      BY <1>1, <2>2
    <3>2. Rest(s, b) = 2 * Rest(s, b + 1) + c /\ Rest(s, b + 1) \in Int /\ Rest(s, b) \in Int
      <4>1. b \in Nat /\ b + 1 \in Nat
        BY <1>1
      <4>2. Rest(s, b) = 2 * Rest(s, b + 1) + BitOf(s, b)
        BY <4>1, BitFacts
      <4>3. Rest(s, b + 1) \in Nat /\ Rest(s, b) \in Nat
        BY <4>1, RestFacts
      <4> QED
        BY <2>3, <4>2, <4>3
    <3>3. sign * (Rest(s, b) + c) = 2 * (sign * (Rest(s, b + 1) + c))
      <4> DEFINE X == Rest(s, b)
                 Y == Rest(s, b + 1)
      <4> HIDE DEF X, Y
      <4>1. X = 2 * Y + c /\ Y \in Int /\ X \in Int
        BY <3>2 DEF X, Y
      <4>2. sign * (X + c) = 2 * (sign * (Y + c))
        BY <4>1, <1>1
      <4> QED
        BY <4>2 DEF X, Y
    <3>4. l.bit+1..m.bit-1 = {} /\ 1 \in 1..SB
      BY <1>1, <3>1
    <3>5. 2 * (sign * (Rest(s, b + 1) + c)) \in Int
      BY <3>2, <1>1
    <3> QED
      BY <3>1, <3>3, <3>4, <3>5, <2>6, Pow2Facts DEF LosesNothing
  <2> QED
    BY <1>1, <1>3, <2>2, <2>5, <2>7
<1>4. CASE b < SB /\ ScGetBits(s, b, 1) # c
  <2>1. m = [bit |-> b + now, carry |-> next, wnaf |-> [l.wnaf EXCEPT ![b] = sign * d]]
    BY <1>1, <1>4 DEF WnafStep
  <2>2. BitOf(s, b) # c /\ b \in 0..SB-1 /\ b \in Positions
    BY <1>1, <1>4, BitFacts DEF Positions
  <2>3. word = WordAt(s, b, c, now)
    BY DEF WordAt, ScGetBitsVar, ScGetBits, Rest
  <2>4. /\ now \in 1..w /\ b + now <= SB /\ (now < w => b + now = SB)
        /\ next \in 0..1 /\ next = BitOf(s, b + now - 1)
        /\ d \in Int /\ d % 2 = 1 /\ d < Pow2[w - 1] /\ -d < Pow2[w - 1]
        /\ Rest(s, b) + c = d + Pow2[now] * (Rest(s, b + now) + next)
    <3> HIDE DEF word, next, now
    <3>1. now = Smaller(w, SB - b) /\ next = (word \div Pow2[w - 1]) % 2
      BY DEF now, next
    <3> QED
      BY <1>1, <2>2, <2>3, <3>1, WindowIs
  <2> HIDE DEF now, word, next
  <2>5. /\ b + now \in 0..SB /\ b + now # 0 /\ now \in Nat /\ b + now \in Nat
    BY <1>1, <2>4
  <2> DEFINE e == sign * d
  <2>6. /\ e \in Int /\ e % 2 = 1 /\ e < Pow2[w - 1] /\ -e < Pow2[w - 1] /\ e # 0
    <3>1. CASE sign = 1
      BY <2>4, <3>1
    <3>2. CASE sign = -1
      <4>1. e = -d
        BY <2>4, <3>2
      <4>2. (-d) % 2 = 1
        BY <2>4
      <4> HIDE DEF e, d
      <4> QED
        BY <2>4, <4>1, <4>2
    <3> QED
      BY <3>1, <3>2
  <2> HIDE DEF d
  <2> HIDE DEF e
  <2>7. /\ m.bit = b + now /\ m.carry = next
        /\ m.wnaf \in [Positions -> Int] /\ m.wnaf[b] = e
        /\ \A j \in Positions : j # b => m.wnaf[j] = l.wnaf[j]
    <3>1. m.wnaf = [l.wnaf EXCEPT ![b] = e]
      BY <2>1 DEF e
    <3> QED
      BY <1>1, <2>1, <2>2, <2>6, <3>1
  <2>8. m \in WnafStates
    BY <2>1, <2>4, <2>5, <2>7 DEF WnafStates
  <2> HIDE DEF m
  <2>9. m.carry = BitBelow(s, m.bit)
    <3>1. BitBelow(s, b + now) = BitOf(s, b + now - 1)
      <4> DEFINE j == b + now
      <4>1. j # 0
        BY <2>5
      <4> HIDE DEF j
      <4>2. BitBelow(s, j) = BitOf(s, j - 1)
        BY <4>1 DEF BitBelow
      <4>3. j - 1 = b + (now - 1)
        BY <1>1, <2>5 DEF j
      <4> QED
        BY <4>2, <4>3 DEF j
    <3> QED
      BY <3>1, <2>4, <2>7
  <2>10. BitOf(s, b) # BitBelow(s, b)
    BY <2>2 DEF LoopOk
  <2>11. \A j \in Positions : l.wnaf[j] # 0 => j < b /\ j + w <= b
    BY <1>4, <1>1 DEF LoopOk
  <2>12. ASSUME NEW j \in Positions, m.wnaf[j] # 0
         PROVE  /\ m.wnaf[j] % 2 = 1 /\ m.wnaf[j] < Pow2[w - 1] /\ -m.wnaf[j] < Pow2[w - 1]
                /\ BitOf(s, j) # BitBelow(s, j)
                /\ j < m.bit /\ (j + w <= m.bit \/ m.bit = SB)
    <3>1. CASE j = b
      <4>1. b < b + now /\ (b + w <= b + now \/ b + now = SB)
        BY <1>1, <2>4
      <4> QED
        BY <3>1, <2>6, <2>7, <2>10, <4>1
    <3>2. CASE j # b
      <4>1. m.wnaf[j] = l.wnaf[j] /\ l.wnaf[j] # 0
        BY <3>2, <2>7, <2>12
      <4>2. j < b + now /\ j + w <= b + now
        BY <4>1, <2>11, <2>5, <1>1 DEF Positions
      <4> QED
        BY <4>1, <4>2, <2>7 DEF LoopOk, DigitsOk
    <3> QED
      BY <3>1, <3>2
  <2>13. ASSUME NEW j \in Positions, NEW k \in Positions, m.wnaf[j] # 0, m.wnaf[k] # 0, j < k
         PROVE  k - j >= w
    <3>1. CASE k = b
      <4>1. l.wnaf[j] # 0
        BY <2>13, <3>1, <2>7 DEF Positions
      <4> QED
        BY <4>1, <2>11, <3>1, <1>1 DEF Positions
    <3>2. CASE k # b
      <4>1. l.wnaf[k] # 0
        BY <2>13, <3>2, <2>7
      <4>2. k < b
        BY <4>1, <2>11
      <4>3. l.wnaf[j] # 0
        BY <2>13, <4>2, <2>7, <1>1 DEF Positions
      <4> QED
        BY <2>13, <4>1, <4>3 DEF LoopOk, DigitsOk
    <3> QED
      BY <3>1, <3>2
  <2>14. LoopOk(s, w, m)
    BY <2>8, <2>9, <2>12, <2>13 DEF LoopOk, DigitsOk
  <2>15. LosesNothing(s, sign, l, m)
    <3>1. m.bit - l.bit = now /\ now \in 1..SB
      BY <1>1, <2>4, <2>5, <2>7
    <3>2. ASSUME NEW j \in l.bit+1..m.bit-1 PROVE m.wnaf[j] = 0
      <4>1. j \in Positions /\ j > b
        BY <1>1, <2>5, <2>7 DEF Positions
      <4>2. m.wnaf[j] = l.wnaf[j] /\ ~(j < b)
        BY <4>1, <2>7, <1>1
      <4> QED
        BY <4>1, <4>2, <2>11
    <3> DEFINE X == Rest(s, b)
               Y == Rest(s, b + now)
               M == Pow2[now]
    <3>3. X \in Int /\ Y \in Int /\ M \in Int /\ X + c = d + M * (Y + next)
      BY <1>1, <2>4, <2>5, RestFacts, Pow2Facts
    <3>4. sign * (X + c) = sign * d + M * (sign * (Y + next))
      <4> DEFINE t == M * (Y + next)
      <4> HIDE DEF X, Y, M
      <4>1. t \in Int /\ X + c = d + t /\ M * (-(Y + next)) = -t /\ Y + next \in Int
        BY <3>3, <2>4
      <4>2. CASE sign = 1
        <5>1. sign * (Y + next) = Y + next
          BY <4>1, <4>2
        <5> HIDE DEF t
        <5>2. sign * (X + c) = sign * d + t
          BY <3>3, <4>1, <4>2, <2>4, <1>1
        <5> QED
          BY <5>1, <5>2 DEF t
      <4>3. CASE sign = -1
        <5>1. sign * (Y + next) = -(Y + next)
          BY <4>1, <4>3
        <5>2. M * (sign * (Y + next)) = -t
          BY <4>1, <5>1
        <5> HIDE DEF t
        <5>3. sign * (X + c) = sign * d + (-t)
          BY <3>3, <4>1, <4>3, <2>4, <1>1
        <5> QED
          BY <5>2, <5>3
      <4> QED
        BY <4>2, <4>3
    <3> QED
      BY <3>1, <3>2, <3>4, <2>7 DEF LosesNothing, e
  <2>16. \A j \in Positions : j < b => m.wnaf[j] = l.wnaf[j]
    BY <2>7, <1>1
  <2> QED
    BY <1>4, <1>1, <2>14, <2>15, <2>16 DEF m
<1> QED
  BY <1>1, <1>2, <1>3, <1>4
-----------------------------------------------------------------------------
\* What the digits from a position on amount to, from the position above.
Numbers(w, n) == \A i \in 0..n-1 : w[i] \in Int
ValuesOf(V, w, n, M) ==
    /\ V \in [0..n -> Int] /\ V[n] = 0
    /\ \A i \in 0..n-1 : V[i] = w[i] + M * V[i + 1]

\* ValueAbove is the function that its definition describes.
LEMMA ValueAboveIs ==
    ASSUME NEW n \in Nat, NEW w, Numbers(w, n), NEW step \in Nat
    PROVE  ValuesOf(ValueAbove(w, n, step), w, n, Pow2[step])
<1> USE DEF Numbers, ValuesOf
<1> DEFINE G == [p \in (0..n-1) \X Int |-> w[p[1]] + Pow2[step] * p[2]]
           F(g) == [i \in 0..n |-> IF i = n THEN 0 ELSE w[i] + Pow2[step] * g[i + 1]]
           V == ValueAbove(w, n, step)
<1>1. G \in [(0..n-1) \X Int -> Int]
  <2>1. Pow2[step] \in Int
    BY Pow2Facts
  <2> DEFINE M == Pow2[step]
  <2>2. ASSUME NEW p \in (0..n-1) \X Int PROVE w[p[1]] + M * p[2] \in Int
    <3>1. p[1] \in 0..n-1 /\ p[2] \in Int /\ w[p[1]] \in Int /\ M \in Int
      BY <2>1
    <3> HIDE DEF M
    <3> QED
      BY <3>1
  <2> HIDE DEF M
  <2> QED
    BY <2>2 DEF M
<1>2. PICK f \in [0..n -> Int] : DownLoop(f, 0, n, 0, G)
  <2>1. 0 \in Int /\ n \in Int
    OBVIOUS
  <2> HIDE DEF G
  <2> QED
    BY <1>1, <2>1, LoopDown, Zenon
<1>3. \A i \in 0..n : f[i] = IF i = n THEN 0 ELSE w[i] + Pow2[step] * f[i + 1]
  <2> TAKE i \in 0..n
  <2>1. f[i] = IF i = n THEN 0 ELSE G[<<i, f[i + 1]>>]
    <3> HIDE DEF G
    <3> QED
      BY <1>2 DEF DownLoop
  <2>2. ASSUME i # n PROVE G[<<i, f[i + 1]>>] = w[i] + Pow2[step] * f[i + 1]
    <3>1. i \in 0..n-1 /\ f[i + 1] \in Int
      BY <2>2
    <3> QED
      BY <3>1
  <2> HIDE DEF G
  <2> QED
    BY <2>1, <2>2
<1>4. f = F(f)
  <2>1. f = [i \in 0..n |-> f[i]]
    OBVIOUS
  <2> QED
    BY <1>3, <2>1, Zenon
<1>5. V = CHOOSE g : g = F(g)
  BY Zenon DEF ValueAbove
<1>6. V = F(V)
  <2> HIDE DEF F, V
  <2> QED
    BY <1>4, <1>5, Zenon
<1>7. V \in [0..n -> Int]
  <2>1. \A i \in 0..n : V[i] = IF i = n THEN 0 ELSE w[i] + Pow2[step] * V[i + 1]
    <3> HIDE DEF V
    <3> QED
      BY <1>6, Zenon
  <2> DEFINE T == {i \in 0..n : V[i] \in Int}
  <2>2. n \in T
    BY <2>1
  <2>3. ASSUME NEW i \in 0..n-1, i + 1 \in T PROVE i \in T
    <3>1. i \in 0..n /\ i # n /\ V[i + 1] \in Int /\ w[i] \in Int /\ Pow2[step] \in Int
      BY <2>3, Pow2Facts
    <3>2. V[i] = w[i] + Pow2[step] * V[i + 1]
      BY <2>1, <3>1
    <3> DEFINE v == V[i + 1]
               M == Pow2[step]
    <3>3. w[i] + M * v \in Int
      <4>1. v \in Int /\ M \in Int
        BY <3>1
      <4> HIDE DEF v, M
      <4> QED
        BY <3>1, <4>1
    <3> HIDE DEF V
    <3> QED
      BY <3>1, <3>2, <3>3
  <2>4. \A i \in 0..n : i \in T
    <3> HIDE DEF T
    <3>1. 0 \in Int /\ n \in Int
      OBVIOUS
    <3> QED
      BY <2>2, <2>3, <3>1, Downward, Zenon
  <2>5. V = [i \in 0..n |-> V[i]]
    <3> HIDE DEF V
    <3> QED
      BY <1>6
  <2>6. \A i \in 0..n : V[i] \in Int
    BY <2>4
  <2> HIDE DEF V
  <2> QED
    BY <2>5, <2>6
<1>8. \A i \in 0..n : V[i] = IF i = n THEN 0 ELSE w[i] + Pow2[step] * V[i + 1]
  <2> HIDE DEF V
  <2> QED
    BY <1>6, Zenon
<1> HIDE DEF V
<1>9. V[n] = 0 /\ \A i \in 0..n-1 : V[i] = w[i] + Pow2[step] * V[i + 1]
  BY <1>8
<1> QED
  BY <1>7, <1>9 DEF V

\* Digits that are 0 only shift what is above them.
LEMMA ZeroRun ==
    ASSUME NEW n \in Nat, NEW w, Numbers(w, n),
           NEW j \in 0..n-1, NEW k \in 1..n-j, \A i \in j+1..j+k-1 : w[i] = 0
    PROVE  LET V == ValueAbove(w, n, 1) IN V[j] = w[j] + Pow2[k] * V[j + k]
<1> DEFINE V == ValueAbove(w, n, 1)
           T == {i \in 1..k : V[j] = w[j] + Pow2[i] * V[j + i]}
<1>1. /\ V \in [0..n -> Int]
      /\ \A i \in 0..n-1 : V[i] = w[i] + 2 * V[i + 1]
  <2>1. 1 \in Nat /\ Pow2[1] = 2
    BY Pow2Facts
  <2>2. ValuesOf(V, w, n, Pow2[1])
    BY <2>1, ValueAboveIs
  <2> HIDE DEF V
  <2> QED
    BY <2>1, <2>2 DEF ValuesOf
<1> HIDE DEF V
<1>2. 1 \in T
  BY <1>1, Pow2Facts
<1>3. ASSUME NEW i \in 1+1..k, i - 1 \in T PROVE i \in T
  <2>1. j + (i - 1) \in 0..n-1 /\ (j + (i - 1)) + 1 = j + i /\ j + (i - 1) \in j+1..j+k-1
    OBVIOUS
  <2>2. V[j + (i - 1)] = 2 * V[j + i]
    <3> DEFINE m == j + (i - 1)
    <3>1. m \in 0..n-1 /\ m + 1 = j + i /\ m \in j+1..j+k-1
      BY <2>1
    <3> HIDE DEF m
    <3>2. w[m] = 0 /\ V[m] = w[m] + 2 * V[m + 1]
      BY <3>1, <1>1
    <3>3. V[j + i] \in Int
      <4>1. j + i \in 0..n
        OBVIOUS
      <4> QED
        BY <4>1, <1>1
    <3>4. V[m] = 2 * V[j + i]
      BY <3>1, <3>2, <3>3
    <3> QED
      BY <3>4 DEF m
  <2>3. Pow2[i] = 2 * Pow2[i - 1] /\ Pow2[i - 1] \in Int
    BY Pow2Facts
  <2>4. V[j] = w[j] + Pow2[i - 1] * V[j + (i - 1)]
    BY <1>3
  <2> DEFINE p == Pow2[i - 1]
             v == V[j + i]
  <2>5. p \in Int /\ v \in Int
    <3>1. j + i \in 0..n
      OBVIOUS
    <3> QED
      BY <2>3, <3>1, <1>1
  <2>6. p * (2 * v) = (2 * p) * v
    <3> HIDE DEF p, v
    <3> QED
      BY <2>5
  <2>7. V[j] = w[j] + Pow2[i] * V[j + i]
    BY <2>2, <2>3, <2>4, <2>6
  <2> QED
    BY <2>7
<1>4. \A i \in 1..k : i \in T
  <2>1. 1 \in Int /\ k \in Int
    OBVIOUS
  <2> HIDE DEF T
  <2> QED
    BY <1>2, <1>3, <2>1, Upward, Zenon
<1>5. k \in T
  BY <1>4
<1> QED
  BY <1>5 DEF V

\* The loop of ecmult_wnaf, step by step.
LEMMA WnafLoopIs ==
    ASSUME NEW s \in Nat, s < Pow2[ScalarBits - 1], NEW w \in Nat, w > 2, NEW sign \in {1, -1}
    PROVE  LET l == WnafLoop(s, sign, w)
           IN  /\ l[0] = [bit |-> 0, carry |-> 0, wnaf |-> [b \in Positions |-> 0]]
               /\ \A i \in 1..ScalarBits : l[i] = WnafStep(s, sign, w, l[i - 1])
               /\ \A i \in 0..ScalarBits : LoopOk(s, w, l[i])
<1> DEFINE SB == ScalarBits
           start == [bit |-> 0, carry |-> 0, wnaf |-> [b \in Positions |-> 0]]
           S == {x \in WnafStates : LoopOk(s, w, x)}
           G == [p \in (1..SB) \X S |-> WnafStep(s, sign, w, p[2])]
           F(g) == [i \in 0..SB |-> IF i = 0 THEN [bit |-> 0, carry |-> 0, wnaf |-> [b \in 0..ScalarBits-1 |-> 0]]
                                    ELSE WnafStep(s, sign, w, g[i - 1])]
           l == WnafLoop(s, sign, w)
<1>1. SB \in Nat /\ SB \in Int
  BY WindowAssumption
<1>2. start \in S
  <2>1. start \in WnafStates
    BY <1>1 DEF WnafStates
  <2>2. LoopOk(s, w, start)
    BY <2>1 DEF LoopOk, DigitsOk, BitBelow
  <2> QED
    BY <2>1, <2>2
<1>3. ASSUME NEW x \in S PROVE WnafStep(s, sign, w, x) \in S
  <2>1. LoopOk(s, w, WnafStep(s, sign, w, x))
    BY <1>3, WnafStepOk
  <2> QED
    BY <2>1 DEF LoopOk
<1>4. G \in [(1..SB) \X S -> S]
  <2>1. ASSUME NEW p \in (1..SB) \X S PROVE WnafStep(s, sign, w, p[2]) \in S
    <3>1. p[2] \in S
      OBVIOUS
    <3> HIDE DEF S
    <3> QED
      BY <3>1, <1>3
  <2> HIDE DEF S
  <2> QED
    BY <2>1
<1>5. PICK f \in [0..SB -> S] : UpLoop(f, 0, SB, start, G)
  <2> HIDE DEF S, G, start
  <2> QED
    BY <1>1, <1>2, <1>4, Loop0, Zenon
<1>6. f = F(f)
  <2>1. \A i \in 0..SB : i # 0 => i \in 1..SB /\ f[i - 1] \in S
    BY <1>1
  <2>2. \A i \in 0..SB : i # 0 => G[<<i, f[i - 1]>>] = WnafStep(s, sign, w, f[i - 1])
    <3> HIDE DEF S
    <3> QED
      BY <2>1
  <2>3. f = [i \in 0..SB |-> IF i = 0 THEN start ELSE G[<<i, f[i - 1]>>]]
    BY <1>5 DEF UpLoop
  <2>4. start = [bit |-> 0, carry |-> 0, wnaf |-> [b \in 0..ScalarBits-1 |-> 0]]
    BY DEF Positions
  <2> HIDE DEF G, start, S
  <2> QED
    BY <2>2, <2>3, <2>4, Zenon
<1>7. l = CHOOSE g : g = F(g)
  BY Zenon DEF WnafLoop
<1>8. l = F(l)
  <2> HIDE DEF F, l
  <2> QED
    BY <1>6, <1>7, Zenon
<1>9. l[0] = start /\ \A i \in 0+1..SB : l[i] = WnafStep(s, sign, w, l[i - 1])
  <2>1. 0 \in 0..SB /\ \A i \in 0+1..SB : i \in 0..SB /\ i # 0
    BY <1>1
  <2>2. F(l)[0] = start /\ \A i \in 0+1..SB : F(l)[i] = WnafStep(s, sign, w, l[i - 1])
    BY <2>1 DEF Positions
  <2> HIDE DEF F, l, start
  <2> QED
    BY <1>8, <2>2, Zenon
<1> DEFINE T == {i \in 0..SB : l[i] \in S}
<1> HIDE DEF l
<1>10. 0 \in T
  BY <1>1, <1>2, <1>9
<1>11. ASSUME NEW i \in 0+1..SB, i - 1 \in T PROVE i \in T
  <2>1. l[i - 1] \in S /\ i \in 0..SB
    BY <1>11
  <2>2. l[i] \in S
    <3> HIDE DEF S
    <3> QED
      BY <1>3, <1>9, <2>1
  <2> QED
    BY <2>1, <2>2
<1>12. \A i \in 0..SB : i \in T
  <2>1. 0 \in Int
    OBVIOUS
  <2> HIDE DEF T
  <2> QED
    BY <1>1, <1>10, <1>11, <2>1, Upward, Zenon
<1>13. \A i \in 0..SB : LoopOk(s, w, l[i])
  BY <1>12
<1>14. \A i \in 1..SB : l[i] = WnafStep(s, sign, w, l[i - 1])
  BY <1>9
<1> QED
  BY <1>9, <1>13, <1>14 DEF l
-----------------------------------------------------------------------------
\* The digits the loop of ecmult_wnaf has made when it is through sum to the number.
LEMMA LoopValue ==
    ASSUME NEW s \in Nat, s < Pow2[ScalarBits - 1], NEW w \in Nat, w > 2, NEW sign \in {1, -1}
    PROVE  LET D == WnafLoop(s, sign, w)[ScalarBits].wnaf
           IN  /\ D \in [Positions -> Int] /\ DigitsOk(s, w, D)
               /\ ValueAbove(D, ScalarBits, 1)[0] = sign * s
<1> DEFINE SB == ScalarBits
           l == WnafLoop(s, sign, w)
           D == l[SB].wnaf
           V == ValueAbove(D, SB, 1)
           E(i) == sign * (Rest(s, l[i].bit) + l[i].carry)
<1> HIDE DEF l
<1>1. /\ l[0] = [bit |-> 0, carry |-> 0, wnaf |-> [b \in Positions |-> 0]]
      /\ \A i \in 1..SB : l[i] = WnafStep(s, sign, w, l[i - 1])
      /\ \A i \in 0..SB : LoopOk(s, w, l[i])
  BY WnafLoopIs DEF l
<1>2. SB \in Nat /\ SB > 0
  BY WindowAssumption
<1>3. \A i \in 0..SB : /\ l[i].bit \in 0..SB /\ l[i].carry \in 0..1
                       /\ l[i].wnaf \in [Positions -> Int]
  <2> TAKE i \in 0..SB
  <2>1. l[i] \in WnafStates
    BY <1>1 DEF LoopOk
  <2> QED
    BY <2>1 DEF WnafStates
<1>4. ASSUME NEW i \in 1..SB
      PROVE  /\ l[i - 1].bit = SB => l[i] = l[i - 1]
             /\ l[i - 1].bit < SB => LosesNothing(s, sign, l[i - 1], l[i])
             /\ \A j \in Positions : j < l[i - 1].bit => l[i].wnaf[j] = l[i - 1].wnaf[j]
  <2>1. i - 1 \in 0..SB
    BY <1>2
  <2>2. LoopOk(s, w, l[i - 1]) /\ l[i] = WnafStep(s, sign, w, l[i - 1])
    BY <1>1, <2>1
  <2> DEFINE a == l[i - 1]
             b == l[i]
  <2> HIDE DEF a, b
  <2>3. LoopOk(s, w, a) /\ b = WnafStep(s, sign, w, a)
    BY <2>2 DEF a, b
  <2>4. /\ a.bit = SB => b = a
        /\ a.bit < SB => LosesNothing(s, sign, a, b)
        /\ \A j \in Positions : j < a.bit => b.wnaf[j] = a.wnaf[j]
    BY <2>3, WnafStepOk
  <2> QED
    BY <2>4 DEF a, b
<1>5. ASSUME NEW i \in 1..SB
      PROVE  l[i - 1].bit <= l[i].bit /\ (l[i - 1].bit < SB => l[i - 1].bit < l[i].bit)
  <2>1. i - 1 \in 0..SB /\ i \in 0..SB
    BY <1>2
  <2>2. l[i - 1].bit \in 0..SB /\ l[i].bit \in 0..SB
    BY <1>3, <2>1
  <2>3. CASE l[i - 1].bit = SB
    BY <1>4, <2>2, <2>3
  <2>4. CASE l[i - 1].bit < SB
    <3>1. l[i].bit - l[i - 1].bit \in 1..SB
      BY <1>4, <2>4 DEF LosesNothing
    <3> QED
      BY <2>2, <3>1
  <2>5. l[i - 1].bit = SB \/ l[i - 1].bit < SB
    <3> DEFINE a == l[i - 1].bit
    <3>1. a \in 0..SB
      BY <2>2
    <3> HIDE DEF a
    <3>2. a = SB \/ a < SB
      BY <3>1, <1>2
    <3> QED
      BY <3>2 DEF a
  <2> QED
    BY <2>3, <2>4, <2>5
\* Every step goes on, so the loop is through.
<1>6. l[SB].bit = SB
  <2> DEFINE T == {i \in 0..SB : l[i].bit >= i \/ l[i].bit = SB}
  <2>1. 0 \in T
    BY <1>2, <1>3
  <2>2. ASSUME NEW i \in 0+1..SB, i - 1 \in T PROVE i \in T
    <3>1. i \in 1..SB /\ i \in 0..SB /\ i - 1 \in 0..SB
      BY <1>2
    <3>2. /\ l[i - 1].bit \in 0..SB /\ l[i].bit \in 0..SB
          /\ l[i - 1].bit <= l[i].bit /\ (l[i - 1].bit < SB => l[i - 1].bit < l[i].bit)
      BY <1>3, <1>5, <3>1
    <3>3. l[i - 1].bit >= i - 1 \/ l[i - 1].bit = SB
      BY <2>2
    <3>4. l[i].bit >= i \/ l[i].bit = SB
      <4> DEFINE a == l[i - 1].bit
                 b == l[i].bit
      <4> HIDE DEF a, b
      <4>1. /\ a \in 0..SB /\ b \in 0..SB /\ a <= b /\ (a < SB => a < b)
            /\ (a >= i - 1 \/ a = SB) /\ i \in Int
        BY <3>1, <3>2, <3>3, <1>2 DEF a, b
      <4>2. b >= i \/ b = SB
        BY <4>1, <1>2
      <4> QED
        BY <4>2 DEF b
    <3> QED
      BY <3>1, <3>4
  <2>3. \A i \in 0..SB : i \in T
    <3>1. 0 \in Int /\ SB \in Int
      BY <1>2
    <3> HIDE DEF T
    <3> QED
      BY <2>1, <2>2, <3>1, Upward, Zenon
  <2>4. SB \in T /\ l[SB].bit \in 0..SB
    BY <1>2, <1>3, <2>3
  <2> QED
    BY <2>4, <1>2
\* What a step has written below its bit stays.
<1>7. \A i \in 0..SB : \A j \in Positions : j < l[i].bit => D[j] = l[i].wnaf[j]
  <2> DEFINE T == {i \in 0..SB : \A j \in Positions : j < l[i].bit => D[j] = l[i].wnaf[j]}
  <2>1. SB \in T
    BY <1>2
  <2>2. ASSUME NEW i \in 0..SB-1, i + 1 \in T PROVE i \in T
    <3>1. i + 1 \in 1..SB /\ (i + 1) - 1 = i /\ i \in 0..SB /\ i + 1 \in 0..SB
      BY <1>2
    <3>2. l[i].bit <= l[i + 1].bit /\ l[i].bit \in 0..SB /\ l[i + 1].bit \in 0..SB
      BY <1>3, <1>5, <3>1
    <3>3. \A j \in Positions : j < l[i].bit => l[i + 1].wnaf[j] = l[i].wnaf[j]
      BY <1>4, <3>1
    <3>4. \A j \in Positions : j < l[i + 1].bit => D[j] = l[i + 1].wnaf[j]
      BY <2>2
    <3> HIDE DEF D
    <3>5. \A j \in Positions : j < l[i].bit => D[j] = l[i].wnaf[j]
      <4> TAKE j \in Positions
      <4>1. j \in Int
        BY DEF Positions
      <4> QED
        BY <4>1, <3>2, <3>3, <3>4
    <3> QED
      BY <3>1, <3>5
  <2>3. \A i \in 0..SB : i \in T
    <3>1. 0 \in Int /\ SB \in Int
      BY <1>2
    <3> HIDE DEF T
    <3> QED
      BY <2>1, <2>2, <3>1, Downward, Zenon
  <2> QED
    BY <2>3
<1>8. D \in [Positions -> Int] /\ DigitsOk(s, w, D) /\ Numbers(D, SB)
  <2>1. LoopOk(s, w, l[SB]) /\ l[SB].wnaf \in [Positions -> Int]
    BY <1>1, <1>2, <1>3
  <2> QED
    BY <2>1 DEF LoopOk, Numbers, Positions
<1> HIDE DEF D
<1>9. V \in [0..SB -> Int] /\ V[SB] = 0
  <2>1. ValuesOf(V, D, SB, Pow2[1])
    BY <1>2, <1>8, ValueAboveIs
  <2> HIDE DEF V
  <2> QED
    BY <2>1 DEF ValuesOf
<1>10. \A i \in 0..SB : V[l[i].bit] = E(i)
  <2> DEFINE T == {i \in 0..SB : V[l[i].bit] = E(i)}
  <2>1. SB \in T
    <3>1. l[SB].carry = BitBelow(s, SB)
      BY <1>1, <1>2, <1>6 DEF LoopOk
    <3>2. SB - 1 \in Nat /\ Pow2[SB] = 2 * Pow2[SB - 1] /\ Pow2[SB - 1] \in Nat
      BY <1>2, Pow2Facts
    <3>3. s < Pow2[SB]
      BY <3>2
    <3>4. Rest(s, SB) = 0 /\ Rest(s, SB - 1) = 0
      BY <1>2, <3>2, <3>3, RestZero
    <3>5. BitBelow(s, SB) = 0
      BY <1>2, <3>4 DEF BitBelow, BitOf
    <3>6. E(SB) = 0
      BY <1>6, <3>1, <3>4, <3>5
    <3> HIDE DEF E, V
    <3> QED
      BY <1>2, <1>6, <1>9, <3>6
  <2>2. ASSUME NEW i \in 0..SB-1, i + 1 \in T PROVE i \in T
    <3>1. i + 1 \in 1..SB /\ (i + 1) - 1 = i /\ i \in 0..SB /\ i + 1 \in 0..SB
      BY <1>2
    <3> DEFINE b == l[i].bit
               n == l[i + 1].bit - b
    <3>2. b \in 0..SB /\ l[i + 1].bit \in 0..SB
      BY <1>3, <3>1
    <3>3. CASE b = SB
      <4>1. l[i + 1] = l[i]
        BY <1>4, <3>1, <3>3
      <4> HIDE DEF V
      <4>2. V[l[i].bit] = E(i)
        BY <2>2, <4>1
      <4> QED
        BY <3>1, <4>2
    <3>4. CASE b < SB
      <4>1. LosesNothing(s, sign, l[i], l[i + 1])
        BY <1>4, <3>1, <3>4
      <4>2. /\ n \in 1..SB
            /\ \A j \in b+1..l[i + 1].bit-1 : l[i + 1].wnaf[j] = 0
            /\ E(i) = l[i + 1].wnaf[b] + Pow2[n] * E(i + 1)
        BY <4>1 DEF LosesNothing
      <4>3. \A j \in Positions : j < l[i + 1].bit => D[j] = l[i + 1].wnaf[j]
        BY <1>7, <3>1
      <4>4. b \in Positions /\ b < l[i + 1].bit /\ l[i + 1].bit = b + n /\ n \in 1..SB-b
            /\ b \in 0..SB-1
        BY <3>2, <3>4, <4>2, <1>2 DEF Positions
      <4>5. \A j \in b+1..b+n-1 : D[j] = 0
        <5> TAKE j \in b+1..b+n-1
        <5>1. j \in Positions /\ j < l[i + 1].bit /\ j \in b+1..l[i + 1].bit-1
          BY <3>2, <4>4, <1>2 DEF Positions
        <5> QED
          BY <5>1, <4>2, <4>3
      <4>6. D[b] = l[i + 1].wnaf[b]
        BY <4>3, <4>4
      <4> HIDE DEF b, n
      <4>7. V[b] = D[b] + Pow2[n] * V[b + n]
        BY <1>2, <1>8, <4>4, <4>5, ZeroRun
      <4> HIDE DEF V, E
      <4>8. V[b + n] = E(i + 1)
        BY <2>2, <4>4
      <4>9. V[b] = E(i)
        BY <4>2, <4>6, <4>7, <4>8
      <4> QED
        BY <3>1, <4>9 DEF b
    <3>5. b = SB \/ b < SB
      <4> HIDE DEF b
      <4> QED
        BY <3>2, <1>2
    <3> QED
      BY <3>3, <3>4, <3>5
  <2>3. \A i \in 0..SB : i \in T
    <3>1. 0 \in Int /\ SB \in Int
      BY <1>2
    <3> HIDE DEF T
    <3> QED
      BY <2>1, <2>2, <3>1, Downward, Zenon
  <2> QED
    BY <2>3
<1>11. V[0] = sign * s
  <2>1. l[0].bit = 0 /\ l[0].carry = 0 /\ 0 \in 0..SB
    BY <1>1, <1>2
  <2>2. E(0) = sign * s
    <3>1. Rest(s, 0) = s
      BY <1>2, RestFacts
    <3> QED
      BY <2>1, <3>1
  <2> HIDE DEF V, E
  <2> QED
    BY <1>10, <2>1, <2>2
<1> QED
  BY <1>8, <1>11 DEF D, l
-----------------------------------------------------------------------------
\* A set of numbers up to n has a largest one.
LEMMA LargestExists ==
    ASSUME NEW n \in Nat, NEW S, S \subseteq 0..n, S # {}
    PROVE  \E i \in S : \A j \in S : j <= i
<1> DEFINE T == {m \in 0..n : (\A j \in S : j > m) \/ (\E i \in S : \A j \in S : j <= m => j <= i)}
<1>1. 0 \in T
  <2>1. CASE 0 \in S
    <3>1. \A j \in S : j <= 0 => j <= 0
      OBVIOUS
    <3> QED
      BY <2>1, <3>1
  <2>2. CASE 0 \notin S
    <3>1. \A j \in S : j > 0
      BY <2>2
    <3> QED
      BY <3>1
  <2> QED
    BY <2>1, <2>2
<1>2. ASSUME NEW m \in 0+1..n, m - 1 \in T PROVE m \in T
  <2>1. CASE m \in S
    <3>1. \A j \in S : j <= m => j <= m
      OBVIOUS
    <3> QED
      BY <2>1, <3>1
  <2>2. CASE m \notin S
    <3>1. \A j \in S : j <= m => j <= m - 1
      BY <2>2
    <3>2. CASE \A j \in S : j > m - 1
      <4>1. \A j \in S : j > m
        BY <2>2, <3>2
      <4> QED
        BY <4>1
    <3>3. CASE \E i \in S : \A j \in S : j <= m - 1 => j <= i
      <4>1. PICK i \in S : \A j \in S : j <= m - 1 => j <= i
        BY <3>3
      <4>2. \A j \in S : j <= m => j <= i
        BY <3>1, <4>1
      <4>3. \E k \in S : \A j \in S : j <= m => j <= k
        BY <4>2
      <4> QED
        BY <4>3
    <3> QED
      BY <1>2, <3>2, <3>3
  <2> QED
    BY <2>1, <2>2
<1>3. n \in T
  <2>1. 0 \in Int /\ n \in Int /\ n \in 0..n /\ 0 <= n
    OBVIOUS
  <2> HIDE DEF T
  <2> QED
    BY <1>1, <1>2, <2>1, Upward, Zenon
<1>4. ~(\A j \in S : j > n) /\ \A j \in S : j <= n
  <2>1. PICK e \in S : TRUE
    OBVIOUS
  <2>2. \A j \in S : j <= n /\ ~(j > n)
    OBVIOUS
  <2> QED
    BY <2>1, <2>2
<1>5. PICK i \in S : \A j \in S : j <= n => j <= i
  BY <1>3, <1>4
<1> QED
  BY <1>4, <1>5

\* ecmult_wnaf gives the digits of the scalar or of its negation, with their sign, and
\* none of them is above the bits it returns.
LEMMA WnafIs ==
    ASSUME NEW a \in Scalars, NEW w \in Nat, w > 2
    PROVE  LET r == ecmult_wnaf(a, w)
               D == r.digits
           IN  /\ D \in [Positions -> Int]
               /\ r.bits \in 0..ScalarBits /\ \A i \in Positions : i >= r.bits => D[i] = 0
               /\ \E s \in Nat : \E sign \in {1, -1} :
                    /\ s < Pow2[ScalarBits - 1] /\ DigitsOk(s, w, D)
                    /\ ValueAbove(D, ScalarBits, 1)[0] = sign * s
                    /\ \/ sign = 1 /\ s = a
                       \/ sign = -1 /\ a >= Pow2[ScalarBits - 1] /\ s = Order - a
<1> DEFINE SB == ScalarBits
           high == ScGetBits(a, SB - 1, 1) = 1
           s == ScCondNegate(a, high)
           sign == IF high THEN -1 ELSE 1
           D == WnafLoop(s, sign, w)[SB].wnaf
           r == ecmult_wnaf(a, w)
           M == Pow2[SB - 1]
<1>1. /\ SB \in Nat /\ SB > 0 /\ SB - 1 \in Nat /\ M \in Nat \ {0} /\ Pow2[SB] = 2 * M
      /\ M < Order /\ Order < 2 * M /\ Order \in Int /\ a \in 0..Order-1 /\ a \in Nat
  <2>1. SB \in Nat /\ SB > 0 /\ SB - 1 \in Nat /\ SB # 0
    BY WindowAssumption
  <2>2. M \in Nat \ {0} /\ Pow2[SB] = 2 * M
    BY <2>1, Pow2Facts
  <2> QED
    BY <2>1, <2>2, WindowAssumption, OrderFacts DEF Scalars
<1>2. high <=> a >= M
  <2>1. ScGetBits(a, SB - 1, 1) = BitOf(a, SB - 1)
    BY <1>1, BitFacts
  <2>2. Rest(a, SB - 1) \in 0..1 /\ (Rest(a, SB - 1) = 1 <=> a >= M)
    <3>1. CASE a >= M
      <4>1. a = M * 1 + (a - M) /\ a - M \in 0..M-1
        BY <1>1, <3>1
      <4>2. a \div M = 1
        <5> HIDE DEF M
        <5> QED
          BY <4>1, <1>1, DivisionUnique
      <4> QED
        BY <3>1, <4>2 DEF Rest
    <3>2. CASE a < M
      <4>1. Rest(a, SB - 1) = 0
        BY <1>1, <3>2, RestZero
      <4> HIDE DEF M
      <4> QED
        BY <3>2, <4>1, <1>1
    <3> HIDE DEF M
    <3> QED
      BY <3>1, <3>2, <1>1
  <2> QED
    BY <2>1, <2>2 DEF BitOf
<1>3. /\ s \in Nat /\ s < M /\ sign \in {1, -1}
      /\ (sign = 1 /\ s = a) \/ (sign = -1 /\ a >= M /\ s = Order - a)
  <2> HIDE DEF M
  <2>1. CASE high
    <3>1. s = (Order - a) % Order /\ sign = -1 /\ a >= M
      BY <2>1, <1>2 DEF ScCondNegate, ScNegate
    <3>2. Order - a \in 0..Order-1
      BY <3>1, <1>1
    <3>3. s = Order - a
      BY <3>1, <3>2, OrderFacts
    <3> HIDE DEF s
    <3> QED
      BY <3>1, <3>3, <1>1
  <2>2. CASE ~high
    <3>1. s = a /\ sign = 1 /\ a < M
      BY <2>2, <1>1, <1>2 DEF ScCondNegate
    <3> HIDE DEF s, sign
    <3> QED
      BY <3>1, <1>1
  <2> QED
    BY <2>1, <2>2
<1>4. r = WithBits(D)
  BY DEF ecmult_wnaf
<1>5. D \in [Positions -> Int] /\ DigitsOk(s, w, D) /\ ValueAbove(D, SB, 1)[0] = sign * s
  <2> HIDE DEF s, sign
  <2>1. s \in Nat /\ s < Pow2[ScalarBits - 1] /\ sign \in {1, -1}
    BY <1>3
  <2> QED
    BY <2>1, LoopValue
<1> HIDE DEF D, s, sign
<1>6. r.digits = D
  BY <1>4 DEF WithBits
<1>7. r.bits \in 0..SB /\ \A i \in Positions : i >= r.bits => D[i] = 0
  <2> DEFINE set == NonzeroIn(D)
  <2>1. set = {i \in Positions : D[i] # 0}
    BY <1>5 DEF NonzeroIn
  <2>2. r.bits = IF set = {} THEN 0 ELSE 1 + (CHOOSE i \in set : \A j \in set : j <= i)
    BY <1>4 DEF WithBits
  <2> HIDE DEF set, r
  <2>3. CASE set = {}
    BY <2>1, <2>2, <2>3, <1>1
  <2>4. CASE set # {}
    <3>1. \E i \in set : \A j \in set : j <= i
      <4>1. SB - 1 \in Nat /\ set \subseteq 0..SB-1
        BY <1>1, <2>1 DEF Positions
      <4> QED
        BY <2>4, <4>1, LargestExists
    <3> DEFINE top == CHOOSE i \in set : \A j \in set : j <= i
    <3>2. top \in set /\ \A j \in set : j <= top
      BY <3>1
    <3>3. r.bits = 1 + top
      BY <2>2, <2>4
    <3> HIDE DEF top
    <3>4. top \in 0..SB-1
      BY <2>1, <3>2 DEF Positions
    <3>5. \A i \in Positions : i >= r.bits => D[i] = 0
      <4> TAKE i \in Positions
      <4>1. i \in set => i <= top
        BY <3>2
      <4> QED
        BY <2>1, <3>3, <3>4, <4>1 DEF Positions
    <3> QED
      BY <1>1, <3>3, <3>4, <3>5
  <2> QED
    BY <2>3, <2>4
<1> QED
  BY <1>3, <1>5, <1>6, <1>7
-----------------------------------------------------------------------------
\* The powers of two up to a number are those of the positions below its length.
LEMMA LengthExists ==
    ASSUME NEW m \in Nat, m < Pow2[ScalarBits]
    PROVE  \E n \in 0..ScalarBits :
             /\ {b \in 0..ScalarBits-1 : Pow2[b] <= m} = 0..n-1
             /\ m < Pow2[n] /\ (n # 0 => Pow2[n - 1] <= m)
<1> DEFINE SB == ScalarBits
           B == {b \in 0..SB-1 : Pow2[b] <= m}
<1>1. SB \in Nat /\ SB > 0
  BY WindowAssumption
<1>2. \A n \in 0..SB : n \in Nat /\ Pow2[n] \in Nat
  BY <1>1, Pow2Facts
<1>3. CASE B = {}
  <2>1. 0 \in 0..SB-1 /\ 0 \notin B /\ Pow2[0] = 1 /\ 0 \in 0..SB
    BY <1>1, <1>3, Pow2Facts
  <2>2. m < Pow2[0]
    BY <2>1
  <2>3. 0..0-1 = {}
    OBVIOUS
  <2> QED
    BY <1>3, <2>1, <2>2, <2>3
<1>4. CASE B # {}
  <2>1. PICK t \in B : \A j \in B : j <= t
    <3>1. SB - 1 \in Nat /\ B \subseteq 0..SB-1
      BY <1>1
    <3> HIDE DEF B
    <3> QED
      BY <1>4, <3>1, LargestExists
  <2> DEFINE n == t + 1
  <2>2. /\ t \in 0..SB-1 /\ n \in 0..SB /\ n # 0 /\ n - 1 = t /\ Pow2[t] <= m /\ t \in Nat
    BY <1>1, <2>1
  <2>3. m < Pow2[n]
    <3>1. CASE n = SB
      BY <3>1
    <3>2. CASE n # SB
      <4>1. n \in 0..SB-1 /\ n \notin B
        BY <1>1, <2>1, <2>2, <3>2
      <4>2. ~(Pow2[n] <= m) /\ Pow2[n] \in Nat
        BY <1>2, <2>2, <4>1
      <4> HIDE DEF n
      <4> QED
        BY <4>2
    <3> QED
      BY <3>1, <3>2
  <2>4. B = 0..n-1
    <3>1. ASSUME NEW b \in B PROVE b \in 0..n-1
      <4>1. b \in 0..SB-1 /\ b <= t
        BY <2>1
      <4> QED
        BY <4>1, <2>2
    <3>2. ASSUME NEW b \in 0..n-1 PROVE b \in B
      <4>1. b \in 0..SB-1 /\ b \in Nat /\ b <= t
        BY <2>2, <1>1
      <4>2. Pow2[b] <= Pow2[t] /\ Pow2[b] \in Nat /\ Pow2[t] \in Nat
        BY <2>2, <4>1, Pow2Grows, Pow2Facts
      <4> QED
        BY <2>2, <4>1, <4>2
    <3> HIDE DEF B, n
    <3> QED
      BY <3>1, <3>2
  <2> HIDE DEF n
  <2> QED
    BY <2>2, <2>3, <2>4
<1> QED
  BY <1>3, <1>4

\* Digits stand only where the bits change, and not at 0 and at 1: of a number that is
\* short, or is short of 2^(ScalarBits-1), there are few.
LEMMA DigitsFew ==
    ASSUME NEW s \in Nat, s < Pow2[ScalarBits - 1], NEW w \in Nat, w > 2,
           NEW D \in [Positions -> Int], DigitsOk(s, w, D),
           NEW a \in Scalars, s = a \/ (a >= Pow2[ScalarBits - 1] /\ s = Order - a)
    PROVE  Cardinality(NonzeroIn(D))
             <= 1 + Cardinality({b \in 0..ScalarBits-1 : Pow2[b] <= Smaller(a, Order - a)})
<1> DEFINE SB == ScalarBits
           M == Pow2[SB - 1]
           abs == Smaller(a, Order - a)
           N == NonzeroIn(D)
<1>1. /\ SB \in Nat /\ SB > 0 /\ SB - 1 \in Nat /\ M \in Nat \ {0} /\ Pow2[SB] = 2 * M
      /\ M < Order /\ Order < 2 * M /\ Order \in Int /\ a \in 0..Order-1 /\ a \in Nat
  <2>1. SB \in Nat /\ SB > 0 /\ SB - 1 \in Nat /\ SB # 0
    BY WindowAssumption
  <2>2. M \in Nat \ {0} /\ Pow2[SB] = 2 * M
    BY <2>1, Pow2Facts
  <2> QED
    BY <2>1, <2>2, WindowAssumption, OrderFacts DEF Scalars
<1> HIDE DEF M
<1>2. abs \in Nat /\ abs <= a /\ abs <= Order - a /\ abs < Pow2[SB]
      /\ (abs = a \/ abs = Order - a)
  BY <1>1 DEF Smaller
<1> HIDE DEF abs
<1>3. PICK n \in 0..SB :
        /\ {b \in 0..SB-1 : Pow2[b] <= abs} = 0..n-1
        /\ abs < Pow2[n] /\ (n # 0 => Pow2[n - 1] <= abs)
  BY <1>2, LengthExists
<1>4. n \in Nat /\ Pow2[n] \in Nat
  BY <1>1, Pow2Facts
<1>5. IsFiniteSet(0..n-1) /\ Cardinality(0..n-1) = n
  <2>1. 0 \in Int /\ n - 1 \in Int
    BY <1>4
  <2>2. IsFiniteSet(0..n-1) /\ Cardinality(0..n-1) = IF 0 > n - 1 THEN 0 ELSE n - 1 - 0 + 1
    BY <2>1, FS_Interval
  <2> QED
    BY <1>4, <2>2
<1>6. N = {j \in Positions : D[j] # 0}
  BY DEF NonzeroIn
<1> HIDE DEF N
\* Between a position and the one below the bits differ.
<1>7. \A j \in N : j \in Positions /\ j \in Nat /\ BitOf(s, j) # BitBelow(s, j)
  BY <1>6 DEF DigitsOk, Positions
<1>8. SUFFICES Cardinality(N) <= 1 + n
  BY <1>3, <1>5 DEF abs, N
\* A number of n bits.
<1>9. CASE s = abs
  <2>1. ASSUME NEW j \in N PROVE j \in 0..n
    <3>1. j \in Nat /\ BitOf(s, j) # BitBelow(s, j)
      BY <1>7
    <3>2. SUFFICES ASSUME j > n PROVE FALSE
      BY <1>4, <3>1
    <3>3. j - 1 \in Nat /\ n <= j - 1 /\ n <= j /\ j # 0
      BY <1>4, <3>1, <3>2
    <3>4. Pow2[n] <= Pow2[j - 1] /\ Pow2[n] <= Pow2[j] /\ Pow2[j] \in Nat /\ Pow2[j - 1] \in Nat
      BY <1>4, <3>1, <3>3, Pow2Grows, Pow2Facts
    <3>5. s < Pow2[j - 1] /\ s < Pow2[j]
      BY <1>3, <1>4, <1>9, <3>4
    <3>6. Rest(s, j) = 0 /\ Rest(s, j - 1) = 0
      BY <3>1, <3>3, <3>5, RestZero
    <3> QED
      BY <3>1, <3>3, <3>6 DEF BitOf, BitBelow
  <2>2. N \in SUBSET (0..n)
    BY <2>1
  <2>3. IsFiniteSet(0..n) /\ Cardinality(0..n) = IF 0 > n THEN 0 ELSE n - 0 + 1
    BY <1>4, FS_Interval
  <2>4. Cardinality(N) <= Cardinality(0..n)
    BY <2>2, <2>3, FS_Subset
  <2> QED
    BY <1>4, <2>3, <2>4
\* A number a little below 2^(SB-1): ones from n up.
<1>10. CASE s # abs
  <2>1. s = a /\ abs = Order - a /\ a < M
    <3>1. a < M => s = a
      BY <1>1 DEF M
    <3>2. CASE a < M
      BY <3>1, <3>2, <1>2, <1>10
    <3>3. CASE a >= M
      <4>1. Order - a < a
        BY <1>1, <3>3
      <4>2. abs = Order - a
        BY <1>1, <1>2, <4>1
      <4> QED
        BY <1>10, <4>2, <3>3, <1>1, <1>2 DEF M
    <3> QED
      BY <1>1, <3>2, <3>3
  <2> DEFINE u == M - s
  <2>2. u \in Nat /\ u >= 1 /\ u < abs /\ abs >= 2 /\ u < Pow2[n] /\ s = M - u
    BY <2>1, <1>1, <1>2, <1>3, <1>4
  <2>3. n >= 2
    <3>1. Pow2[0] = 1 /\ Pow2[1] = 2
      BY Pow2Facts
    <3>2. CASE n = 0
      BY <3>1, <3>2, <1>3, <2>2
    <3>3. CASE n = 1
      BY <3>1, <3>3, <1>3, <2>2, <1>2
    <3> QED
      BY <1>4, <3>2, <3>3
  <2> HIDE DEF u
  \* Its bits from n to SB - 2 are ones.
  <2>4. ASSUME NEW j \in n..SB-2 PROVE BitOf(s, j) = 1
    <3>1. j \in Nat /\ n <= j /\ SB - 1 - j \in Nat /\ SB - 1 - j >= 1
      BY <1>4, <1>1
    <3> DEFINE A == Pow2[j]
               K == Pow2[SB - 1 - j]
    <3>2. A \in Nat \ {0} /\ K \in Nat /\ Pow2[n] <= A
      BY <1>4, <3>1, Pow2Facts, Pow2Grows
    <3>3. M = A * K
      <4>1. j + (SB - 1 - j) = SB - 1
        BY <1>1, <3>1
      <4>2. Pow2[j + (SB - 1 - j)] = A * K
        BY <3>1, Pow2Sum
      <4> QED
        BY <4>1, <4>2 DEF M
    <3>4. PICK g \in Int : K = 2 * g
      <4>1. K = 2 * Pow2[(SB - 1 - j) - 1]
        BY <3>1, Pow2Facts
      <4>2. Pow2[(SB - 1 - j) - 1] \in Int
        <5>1. (SB - 1 - j) - 1 \in Nat
          BY <3>1
        <5> QED
          BY <5>1, Pow2Facts
      <4> QED
        BY <4>1, <4>2
    <3> HIDE DEF A, K
    <3>5. s = A * (K - 1) + (A - u) /\ A - u \in 0..A-1 /\ K - 1 \in Int
      <4>1. A * (K - 1) = A * K - A
        BY <3>2
      <4>2. A * K \in Int
        BY <3>2
      <4>3. u \in Nat /\ u >= 1 /\ u < A
        BY <1>4, <2>2, <3>2
      <4> QED
        BY <2>2, <3>2, <3>3, <4>1, <4>2, <4>3
    <3>6. Rest(s, j) = K - 1
      <4>1. s \in Int
        OBVIOUS
      <4> QED
        BY <3>2, <3>5, <4>1, DivisionUnique DEF Rest, A
    <3>7. (K - 1) % 2 = 1
      BY <3>4
    <3> QED
      BY <3>6, <3>7 DEF BitOf
  <2>5. ASSUME NEW j \in N PROVE j \in 0..n-1 \/ j = n \/ j = SB - 1
    <3>1. j \in Positions /\ j \in Nat /\ BitOf(s, j) # BitBelow(s, j)
      BY <1>7
    <3>2. SUFFICES ASSUME j > n, j < SB - 1 PROVE FALSE
      BY <1>1, <1>4, <3>1 DEF Positions
    <3>3. j \in n..SB-2 /\ j - 1 \in n..SB-2 /\ j # 0
      BY <1>1, <1>4, <3>1, <3>2
    <3>4. BitOf(s, j) = 1 /\ BitOf(s, j - 1) = 1
      BY <2>4, <3>3
    <3> QED
      BY <3>1, <3>3, <3>4 DEF BitBelow
  \* Not both 0 and 1 are in the set.
  <2>6. PICK e \in {0, 1} : e \notin N
    <3>1. CASE 0 \in N /\ 1 \in N
      <4>1. 0 \in Positions /\ 1 \in Positions /\ D[0] # 0 /\ D[1] # 0
        BY <3>1, <1>6
      <4>2. 1 - 0 >= w
        BY <4>1 DEF DigitsOk
      <4> QED
        BY <4>2
    <3> QED
      BY <3>1
  <2> DEFINE low == (0..n-1) \ {e}
             U == (low \union {n}) \union {SB - 1}
  <2>7. N \in SUBSET U
    BY <2>5, <2>6
  <2>8. IsFiniteSet(low) /\ Cardinality(low) = n - 1
    <3>1. e \in 0..n-1
      BY <1>4, <2>3, <2>6
    <3> QED
      <4> DEFINE I == 0..n-1
      <4>1. IsFiniteSet(I) /\ Cardinality(I) = n /\ e \in I /\ low = I \ {e}
        BY <1>5, <3>1
      <4> HIDE DEF I, low
      <4>2. IsFiniteSet(I \ {e}) /\ Cardinality(I \ {e}) = Cardinality(I) - 1
        BY <4>1, FS_RemoveElement
      <4> QED
        BY <4>1, <4>2
  <2> HIDE DEF low
  <2>9. IsFiniteSet(low \union {n}) /\ Cardinality(low \union {n}) <= n
    <3>1. IsFiniteSet(low \union {n})
          /\ Cardinality(low \union {n}) = IF n \in low THEN Cardinality(low) ELSE Cardinality(low) + 1
      BY <2>8, FS_AddElement
    <3> QED
      BY <1>4, <2>8, <3>1
  <2> DEFINE lown == low \union {n}
  <2> HIDE DEF lown
  <2>10. IsFiniteSet(U) /\ Cardinality(U) <= n + 1
    <3>1. IsFiniteSet(lown) /\ Cardinality(lown) <= n /\ U = lown \union {SB - 1}
      BY <2>9 DEF lown
    <3>2. IsFiniteSet(lown \union {SB - 1})
          /\ Cardinality(lown \union {SB - 1})
               = IF SB - 1 \in lown THEN Cardinality(lown) ELSE Cardinality(lown) + 1
      BY <3>1, FS_AddElement
    <3>3. Cardinality(lown) \in Nat
      BY <3>1, FS_CardinalityType
    <3> HIDE DEF U
    <3> QED
      BY <1>4, <3>1, <3>2, <3>3
  <2> HIDE DEF U
  <2>11. IsFiniteSet(N) /\ Cardinality(N) <= Cardinality(U)
    BY <2>7, <2>10, FS_Subset
  <2>12. Cardinality(N) \in Nat /\ Cardinality(U) \in Nat
    BY <2>10, <2>11, FS_CardinalityType
  <2> QED
    BY <1>4, <2>10, <2>11, <2>12
<1> QED
  BY <1>9, <1>10
-----------------------------------------------------------------------------
\* The variable-time recoding has the form its comments promise.
LEMMA WnafOfIs ==
    ASSUME NEW a \in Scalars, NEW w \in Nat, w > 2
    PROVE  WnafOf(ecmult_wnaf(a, w).digits, w, a)
<1> DEFINE D == ecmult_wnaf(a, w).digits
           N == NonzeroIn(D)
<1>1. /\ D \in [Positions -> Int]
      /\ \E s \in Nat : \E sign \in {1, -1} :
                    /\ s < Pow2[ScalarBits - 1] /\ DigitsOk(s, w, D)
                    /\ ValueAbove(D, ScalarBits, 1)[0] = sign * s
                    /\ \/ sign = 1 /\ s = a
                       \/ sign = -1 /\ a >= Pow2[ScalarBits - 1] /\ s = Order - a
  BY WnafIs
<1> HIDE DEF D
<1>2. PICK s \in Nat, sign \in {1, -1} :
        /\ s < Pow2[ScalarBits - 1] /\ DigitsOk(s, w, D)
        /\ ValueAbove(D, ScalarBits, 1)[0] = sign * s
        /\ \/ sign = 1 /\ s = a
           \/ sign = -1 /\ a >= Pow2[ScalarBits - 1] /\ s = Order - a
  BY <1>1
<1>3. N = {j \in Positions : D[j] # 0}
  BY <1>1 DEF NonzeroIn
<1>4. ValueAbove(D, ScalarBits, 1)[0] \in {a, a - Order}
  <2>1. a \in Int /\ Order \in Int
    BY OrderFacts DEF Scalars
  <2>2. sign * s \in {a, a - Order}
    BY <1>2, <2>1
  <2> QED
    BY <1>2, <2>2
<1>5. \A i \in N : D[i] % 2 = 1 /\ D[i] < Pow2[w - 1] /\ -D[i] < Pow2[w - 1]
  BY <1>2, <1>3 DEF DigitsOk
<1>6. \A i, j \in N : i < j => j - i >= w
  BY <1>2, <1>3 DEF DigitsOk
<1>7. Cardinality(N) <= 1 + Cardinality({b \in 0..ScalarBits-1 : Pow2[b] <= Smaller(a, Order - a)})
  <2>1. s = a \/ (a >= Pow2[ScalarBits - 1] /\ s = Order - a)
    BY <1>2
  <2> QED
    BY <1>1, <1>2, <2>1, DigitsFew
<1> HIDE DEF N
<1>8. N = NonzeroIn(D)
  BY DEF N
<1> QED
  BY <1>4, <1>5, <1>6, <1>7, <1>8 DEF WnafOf, D
-----------------------------------------------------------------------------
\* A round of wnaf_const: w bits off s, and what makes the digit before odd.
RoundStates == [s: Nat, last: Int, digit: Int]
RoundStep(x, w) ==
    LET sh == ScShrInt(x.s, w)
        even == IF sh.low % 2 = 0 THEN 1 ELSE 0
        up == IF x.last > 0 THEN 1 ELSE -1
    IN  [s |-> sh.r, last |-> sh.low + up * even, digit |-> x.last - up * even * Pow2[w]]

\* What is left is odd, and below 2^w.
LastOk(last, w) == last \in Int /\ last % 2 = 1 /\ last >= -1 /\ last < Pow2[w]

\* A round makes an odd digit below 2^w and loses nothing of the number.
LEMMA RoundStepIs ==
    ASSUME NEW x \in RoundStates, NEW w \in Nat \ {0}
    PROVE  LET y == RoundStep(x, w)
           IN  /\ y \in RoundStates /\ y.s = x.s \div Pow2[w]
               /\ LastOk(x.last, w) =>
                    /\ LastOk(y.last, w)
                    /\ y.digit % 2 = 1 /\ y.digit < Pow2[w] /\ -y.digit < Pow2[w]
                    /\ x.last + Pow2[w] * x.s = y.digit + Pow2[w] * (y.last + Pow2[w] * y.s)
<1> DEFINE M == Pow2[w]
           h == Pow2[w - 1]
           q == x.s \div M
           low == x.s % M
           even == IF low % 2 = 0 THEN 1 ELSE 0
           up == IF x.last > 0 THEN 1 ELSE -1
           e == up * even
           y == RoundStep(x, w)
<1>1. x.s \in Nat /\ x.last \in Int
  BY DEF RoundStates
<1>2. h \in Int /\ h >= 1 /\ M = 2 * h /\ M \in Nat \ {0}
  <2>1. w - 1 \in Nat
    OBVIOUS
  <2> QED
    BY <2>1, Pow2Facts
<1>3. q \in Int /\ q >= 0 /\ low \in 0..M-1 /\ x.s = M * q + low
  <2>1. x.s \in Int /\ x.s >= 0 /\ M \in Nat \ {0}
    BY <1>1, <1>2
  <2> HIDE DEF M
  <2> QED
    BY <2>1, Division
<1>4. y = [s |-> q, last |-> low + e, digit |-> x.last - e * M]
  BY DEF RoundStep, ScShrInt
<1> HIDE DEF M, h, q, low
<1>5. e \in {-1, 0, 1} /\ (e = 0 <=> low % 2 # 0) /\ (e = 1 => x.last > 0) /\ (e = -1 => ~(x.last > 0))
      /\ (low % 2 = 0 => e = up)
  BY <1>3
<1> HIDE DEF e
<1>6. low + e \in Int /\ e * M \in Int /\ x.last - e * M \in Int
  BY <1>1, <1>2, <1>3, <1>5
<1>7. y \in RoundStates /\ y.s = q /\ y.last = low + e /\ y.digit = x.last - e * M
  BY <1>3, <1>4, <1>6 DEF RoundStates
<1> HIDE DEF y
<1>8. ASSUME LastOk(x.last, w)
      PROVE  /\ LastOk(y.last, w)
             /\ y.digit % 2 = 1 /\ y.digit < M /\ -y.digit < M
             /\ x.last + M * x.s = y.digit + M * (y.last + M * y.s)
  <2>1. x.last % 2 = 1 /\ x.last >= -1 /\ x.last < M
    BY <1>8 DEF LastOk, M
  <2>2. LastOk(y.last, w)
    <3>1. (low + e) % 2 = 1
      BY <1>3, <1>5
    <3>2. low + e >= -1 /\ low + e < M
      BY <1>2, <1>3, <1>5, <3>1
    <3> QED
      BY <1>6, <1>7, <3>1, <3>2 DEF LastOk, M
  <2>3. y.digit % 2 = 1 /\ y.digit < M /\ -y.digit < M
    <3>1. CASE e = 0
      <4>1. y.digit = x.last
        BY <1>1, <1>2, <1>7, <3>1
      <4> QED
        BY <1>1, <1>2, <2>1, <4>1
    <3>2. CASE e = 1
      <4>1. y.digit = x.last - 2 * h /\ x.last > 0
        BY <1>1, <1>2, <1>5, <1>7, <3>2
      <4> QED
        BY <1>1, <1>2, <2>1, <4>1
    <3>3. CASE e = -1
      <4>1. y.digit = x.last + 2 * h /\ ~(x.last > 0)
        BY <1>1, <1>2, <1>5, <1>7, <3>3
      <4> QED
        BY <1>1, <1>2, <2>1, <4>1
    <3> QED
      BY <1>5, <3>1, <3>2, <3>3
  <2>4. x.last + M * x.s = (x.last - e * M) + M * ((low + e) + M * q)
    <3> DEFINE t == M * q
    <3>1. t \in Int /\ x.s = t + low
      BY <1>2, <1>3
    <3> HIDE DEF t
    <3>2. x.last + M * (t + low) = (x.last - e * M) + M * ((low + e) + t)
      <4>1. M * ((low + e) + t) = M * (t + low) + e * M
        BY <1>2, <1>3, <1>5, <3>1
      <4>2. M * (t + low) \in Int
        BY <1>2, <1>3, <3>1
      <4> QED
        BY <1>1, <1>6, <4>1, <4>2
    <3> QED
      BY <3>1, <3>2 DEF t
  <2> QED
    BY <1>7, <2>2, <2>3, <2>4
<1> QED
  BY <1>7, <1>8 DEF M, y, q
-----------------------------------------------------------------------------
\* As many digits as cover a scalar, and one more for what is left.
LEMMA SizeIs ==
    ASSUME NEW w \in Nat \ {0}
    PROVE  WnafSize(w) \in Nat /\ ScalarBits <= w * WnafSize(w)
<1> DEFINE n == ScalarBits + w - 1
           q == n \div w
<1>1. n \in Int /\ n >= 0 /\ n = ScalarBits + (w - 1) /\ ScalarBits \in Nat
  BY WindowAssumption
<1> HIDE DEF n
<1>2. q \in Int /\ q >= 0 /\ n % w \in 0..w-1 /\ n = w * q + (n % w)
  BY <1>1, Division
<1> HIDE DEF q
<1>3. w * q \in Int
  BY <1>2
<1>4. ScalarBits <= w * q
  BY <1>1, <1>2, <1>3
<1> QED
  BY <1>2, <1>4 DEF WnafSize, q, n

\* The rounds of wnaf_const, one by one.
LEMMA ConstRoundsIs ==
    ASSUME NEW s \in Nat, s % 2 = 1, s < Pow2[ScalarBits], NEW w \in Nat \ {0}
    PROVE  LET R == ConstRounds(s, w)
               size == WnafSize(w)
           IN  /\ R[0] = [s |-> s \div Pow2[w], last |-> s % Pow2[w], digit |-> 0]
               /\ \A i \in 1..size : R[i] = RoundStep(R[i - 1], w)
               /\ \A i \in 0..size : R[i] \in RoundStates /\ LastOk(R[i].last, w)
               /\ R[size].s = 0
<1> DEFINE size == WnafSize(w)
           M == Pow2[w]
           start == [s |-> s \div M, last |-> s % M, digit |-> 0]
           S == RoundStates
           G == [p \in (1..size) \X S |-> RoundStep(p[2], w)]
           F(g) == [i \in 0..size |->
                      LET was == g[i - 1]
                          sh == ScShrInt(IF i = 0 THEN s ELSE was.s, w)
                          even == IF sh.low % 2 = 0 THEN 1 ELSE 0
                          up == IF was.last > 0 THEN 1 ELSE -1
                      IN  IF i = 0 THEN [s |-> sh.r, last |-> sh.low, digit |-> 0]
                          ELSE [s |-> sh.r, last |-> sh.low + up * even,
                                digit |-> was.last - up * even * Pow2[w]]]
           R == ConstRounds(s, w)
<1>1. size \in Nat /\ size \in Int /\ ScalarBits <= w * size
  BY SizeIs
<1> HIDE DEF size
<1>2. M \in Nat \ {0} /\ M % 2 = 0
  <2>1. M = 2 * Pow2[w - 1] /\ Pow2[w - 1] \in Nat /\ M \in Nat /\ M >= 1
    <3>1. w - 1 \in Nat /\ w \in Nat /\ w # 0
      OBVIOUS
    <3> QED
      BY <3>1, Pow2Facts
  <2> DEFINE h == Pow2[w - 1]
  <2>2. M = 2 * h /\ h \in Nat /\ M \in Nat \ {0}
    BY <2>1
  <2> HIDE DEF M, h
  <2> QED
    BY <2>2
<1>3. start \in S /\ LastOk(start.last, w)
  <2>1. s \div M \in Int /\ s \div M >= 0 /\ s % M \in 0..M-1 /\ s = M * (s \div M) + (s % M)
    <3> HIDE DEF M
    <3>1. s \in Int /\ s >= 0 /\ M \in Nat \ {0}
      BY <1>2
    <3> QED
      BY <3>1, Division
  <2> DEFINE q == s \div M
             r == s % M
  <2>2. q \in Nat /\ r \in 0..M-1 /\ s = M * q + r
    BY <2>1
  <2>3. r % 2 = 1
    <3> HIDE DEF q, r, M
    <3>1. PICK h \in Int : M = 2 * h
      <4>1. M = 2 * (M \div 2) /\ M \div 2 \in Int
        BY <1>2
      <4> QED
        BY <4>1
    <3>2. s = 2 * (h * q) + r /\ h * q \in Int
      BY <2>2, <3>1
    <3> DEFINE t == h * q
    <3> HIDE DEF t
    <3>3. s = 2 * t + r /\ t \in Int /\ r \in Int
      BY <1>2, <2>2, <3>2 DEF t
    <3> QED
      BY <3>3
  <2>4. start = [s |-> q, last |-> r, digit |-> 0]
    OBVIOUS
  <2> HIDE DEF q, r, start
  <2>5. start.s = q /\ start.last = r /\ start.digit = 0
    BY <2>4
  <2>6. LastOk(r, w)
    <3>1. r \in Int /\ r < M /\ r >= -1
      <4> HIDE DEF M
      <4> QED
        BY <1>2, <2>2
    <3> QED
      BY <2>3, <3>1 DEF LastOk
  <2>7. start \in S
    <3> HIDE DEF M
    <3>1. q \in Nat /\ r \in Int /\ 0 \in Int
      BY <1>2, <2>2
    <3> QED
      BY <2>4, <3>1 DEF RoundStates
  <2> QED
    BY <2>5, <2>6, <2>7
<1>4. G \in [(1..size) \X S -> S]
  <2>1. ASSUME NEW p \in (1..size) \X S PROVE RoundStep(p[2], w) \in S
    <3>1. p[2] \in S
      OBVIOUS
    <3> QED
      BY <3>1, RoundStepIs
  <2> QED
    BY <2>1
<1>5. PICK f \in [0..size -> S] : UpLoop(f, 0, size, start, G)
  <2> HIDE DEF S, G, start
  <2> QED
    BY <1>1, <1>3, <1>4, Loop0, Zenon
<1>6. f = F(f)
  <2>1. \A i \in 0..size : i # 0 => i \in 1..size /\ f[i - 1] \in S
    BY <1>1
  <2>2. \A i \in 0..size : i # 0 => G[<<i, f[i - 1]>>] = RoundStep(f[i - 1], w)
    <3> HIDE DEF S
    <3> QED
      BY <2>1
  <2>3. f = [i \in 0..size |-> IF i = 0 THEN start ELSE G[<<i, f[i - 1]>>]]
    BY <1>5 DEF UpLoop
  <2> DEFINE E(i) ==
               LET was == f[i - 1]
                   sh == ScShrInt(IF i = 0 THEN s ELSE was.s, w)
                   even == IF sh.low % 2 = 0 THEN 1 ELSE 0
                   up == IF was.last > 0 THEN 1 ELSE -1
               IN  IF i = 0 THEN [s |-> sh.r, last |-> sh.low, digit |-> 0]
                   ELSE [s |-> sh.r, last |-> sh.low + up * even,
                         digit |-> was.last - up * even * Pow2[w]]
  <2>4. \A i \in 0..size : E(i) = IF i = 0 THEN start ELSE G[<<i, f[i - 1]>>]
    <3> TAKE i \in 0..size
    <3>1. CASE i = 0
      BY <3>1 DEF ScShrInt
    <3>2. CASE i # 0
      <4>1. E(i) = RoundStep(f[i - 1], w)
        BY <3>2 DEF RoundStep
      <4> HIDE DEF E, G
      <4> QED
        BY <2>2, <3>2, <4>1
    <3> QED
      BY <3>1, <3>2
  <2>5. F(f) = [i \in 0..size |-> E(i)]
    OBVIOUS
  <2> HIDE DEF E, F, G, start
  <2> QED
    BY <2>3, <2>4, <2>5, Zenon
<1>7. R = CHOOSE g : g = F(g)
  BY Zenon DEF ConstRounds, size
<1>8. R = F(R)
  <2> HIDE DEF F, R
  <2> QED
    BY <1>6, <1>7, Zenon
<1>9. R[0] = start /\ \A i \in 0+1..size : R[i] = RoundStep(R[i - 1], w)
  <2>1. 0 \in 0..size /\ \A i \in 0+1..size : i \in 0..size /\ i # 0
    BY <1>1
  <2>2. F(R)[0] = start
    BY <2>1 DEF ScShrInt
  <2>3. ASSUME NEW i \in 0+1..size PROVE F(R)[i] = RoundStep(R[i - 1], w)
    BY <2>1 DEF RoundStep
  <2> HIDE DEF F, R, start
  <2> QED
    BY <1>8, <2>2, <2>3, Zenon
<1> HIDE DEF R
<1> DEFINE T == {i \in 0..size : /\ R[i] \in S /\ LastOk(R[i].last, w)
                                 /\ R[i].s = Rest(s, w * (i + 1))}
<1>10. 0 \in T
  <2>1. start.s = s \div Pow2[w] /\ w * (0 + 1) = w
    OBVIOUS
  <2>2. R[0].s = Rest(s, w * (0 + 1))
    BY <1>9, <2>1 DEF Rest
  <2> HIDE DEF start
  <2> QED
    BY <1>1, <1>3, <1>9, <2>2
<1>11. ASSUME NEW i \in 0+1..size, i - 1 \in T PROVE i \in T
  <2>1. R[i - 1] \in S /\ LastOk(R[i - 1].last, w) /\ R[i - 1].s = Rest(s, w * ((i - 1) + 1))
        /\ i \in 0..size /\ (i - 1) + 1 = i /\ i \in Nat
    BY <1>11, <1>1
  <2> DEFINE x == R[i - 1]
  <2> HIDE DEF x
  <2>2. x \in RoundStates /\ LastOk(x.last, w)
    BY <2>1 DEF x
  <2>3. /\ RoundStep(x, w) \in RoundStates /\ RoundStep(x, w).s = x.s \div Pow2[w]
        /\ LastOk(RoundStep(x, w).last, w)
    BY <2>2, RoundStepIs
  <2>4. R[i] = RoundStep(x, w)
    BY <1>9 DEF x
  <2>5. R[i].s = Rest(s, w * (i + 1))
    <3> DEFINE j == w * i
    <3>1. j \in Nat /\ j + w = w * (i + 1) /\ w \in Nat /\ s \in Nat
      BY <2>1
    <3> HIDE DEF j
    <3>2. Rest(s, j + w) = Rest(s, j) \div Pow2[w]
      BY <3>1, RestFacts
    <3>3. x.s = Rest(s, j)
      BY <2>1 DEF x, j
    <3> QED
      BY <2>3, <2>4, <3>1, <3>2, <3>3
  <2> QED
    BY <2>1, <2>3, <2>4, <2>5
<1>12. \A i \in 0..size : i \in T
  <2>1. 0 \in Int
    OBVIOUS
  <2> HIDE DEF T
  <2> QED
    BY <1>1, <1>10, <1>11, <2>1, Upward, Zenon
<1>13. R[size].s = 0
  <2>1. size \in T
    BY <1>1, <1>12
  <2>2. R[size].s = Rest(s, w * (size + 1))
    BY <2>1
  <2> DEFINE k == w * (size + 1)
  <2>3. k \in Nat /\ ScalarBits <= k
    <3>1. w * (size + 1) = w * size + w /\ w * size \in Int
      BY <1>1
    <3> QED
      BY <1>1, <3>1, WindowAssumption
  <2> HIDE DEF k
  <2>4. s < Pow2[k]
    <3>1. Pow2[ScalarBits] <= Pow2[k] /\ Pow2[ScalarBits] \in Nat /\ Pow2[k] \in Nat
      BY <2>3, WindowAssumption, Pow2Grows, Pow2Facts
    <3> QED
      BY <3>1
  <2>5. Rest(s, k) = 0
    BY <2>3, <2>4, RestZero
  <2> QED
    BY <2>2, <2>5 DEF k
<1>14. \A i \in 1..size : R[i] = RoundStep(R[i - 1], w)
  BY <1>9
<1>15. \A i \in 0..size : R[i] \in RoundStates /\ LastOk(R[i].last, w)
  BY <1>12
<1> QED
  BY <1>9, <1>13, <1>14, <1>15 DEF R, size
-----------------------------------------------------------------------------
\* What wnaf_const recodes in place of scalar k: the sum with 1 or 2, or its
\* negation, and -1 as it is; and what all digits are multiplied by.
ConstBit(k) == IF ScIsHigh(k) # ~ScIsEven(k) THEN 1 ELSE 0
ConstOdd(k) ==
    ScCondNegate(ScCaddBit(k, ConstBit(k), ~ScIsOne(ScNegate(k))), ScIsHigh(k))
ConstSign(k) ==
    (IF ScIsHigh(k) THEN -1 ELSE 1) * (IF ScIsOne(ScNegate(k)) THEN -1 ELSE 1)

\* It is odd whatever the scalar, it has no more bits, and it is the scalar with
\* the skew, up to the order; also for -1, whose sum with 2 nobody computes.
LEMMA ConstOddIs ==
    ASSUME NEW k \in Scalars
    PROVE  LET s == ConstOdd(k)
               sign == ConstSign(k)
               skew == Pow2[ConstBit(k)]
           IN  /\ s \in Nat /\ s % 2 = 1 /\ s < Pow2[ScalarBits]
               /\ sign \in {1, -1} /\ skew \in {1, 2}
               /\ sign * s - (k + skew) \in {0, -Order, Order}
<1> DEFINE s == ConstOdd(k)
           sign == ConstSign(k)
           skew == Pow2[ConstBit(k)]
           n == Order
           half == n \div 2
<1>1. n \in Nat /\ n > 2 /\ n % 2 = 1 /\ k \in 0..n-1
  BY OrderFacts DEF Scalars
<1>2. Pow2[0] = 1 /\ Pow2[1] = 2
  BY Pow2Facts
<1>3. n < Pow2[ScalarBits] /\ Pow2[ScalarBits] \in Nat
  BY WindowAssumption, Pow2Facts
<1> DEFINE top == Pow2[ScalarBits]
<1> HIDE DEF top
<1>4. half \in Nat /\ n = 2 * half + 1
  <2> HIDE DEF n
  <2> QED
    BY <1>1
<1>5. ScIsHigh(k) <=> k > half
  BY DEF ScIsHigh
<1>6. \A a \in 1..n-1 : ScNegate(a) = n - a
  <2> TAKE a \in 1..n-1
  <2>1. ScNegate(a) = (n - a) % n
    BY DEF ScNegate
  <2> HIDE DEF n
  <2>2. n - a \in 0..n-1
    BY <1>1
  <2>3. (n - a) % n = n - a
    BY <1>1, <2>2
  <2> QED
    BY <2>1, <2>3
<1>7. ScIsOne(ScNegate(k)) <=> k = n - 1
  <2>1. CASE k = 0
    <3>1. ScNegate(k) = (n - 0) % n
      BY <2>1 DEF ScNegate
    <3> HIDE DEF n
    <3>2. n - 0 = n /\ n % n = 0
      BY <1>1
    <3> QED
      BY <1>1, <2>1, <3>1, <3>2 DEF ScIsOne
  <2>2. CASE k # 0
    <3>1. k \in 1..n-1
      BY <1>1, <2>2
    <3>2. ScNegate(k) = n - k
      BY <1>6, <3>1
    <3> HIDE DEF n
    <3> QED
      BY <1>1, <3>1, <3>2 DEF ScIsOne
  <2> QED
    BY <2>1, <2>2
<1>8. ScIsEven(k) <=> k % 2 = 0
  BY DEF ScIsEven
<1> HIDE DEF n, half
<1>9. CASE k <= half
  <2>1. ~ScIsHigh(k) /\ ~ScIsOne(ScNegate(k)) /\ k < n - 1
    BY <1>1, <1>4, <1>5, <1>7, <1>9
  <2>2. sign = 1
    BY <2>1 DEF ConstSign
  <2>3. CASE k % 2 = 0
    <3>1. ConstBit(k) = 0
      BY <1>8, <2>1, <2>3 DEF ConstBit, ScIsHigh, ScIsEven
    <3>2. skew = 1 /\ s = k + 1
      BY <1>2, <2>1, <3>1 DEF ConstOdd, ScCondNegate, ScCaddBit
    <3> HIDE DEF s, sign, skew
    <3>3. s \in Nat /\ s % 2 = 1 /\ s < top /\ sign * s - (k + skew) = 0
      BY <1>1, <1>3, <2>1, <2>2, <2>3, <3>2 DEF top
    <3> QED
      BY <2>2, <3>2, <3>3 DEF s, sign, skew, n, top
  <2>4. CASE k % 2 # 0
    <3>1. ConstBit(k) = 1
      BY <1>8, <2>1, <2>4 DEF ConstBit
    <3>2. skew = 2 /\ s = k + 2
      BY <1>2, <2>1, <3>1 DEF ConstOdd, ScCondNegate, ScCaddBit
    <3> HIDE DEF s, sign, skew
    <3>3. s \in Nat /\ s % 2 = 1 /\ s < top /\ sign * s - (k + skew) = 0
      BY <1>1, <1>3, <1>4, <1>9, <2>1, <2>2, <2>4, <3>2 DEF top
    <3> QED
      BY <2>2, <3>2, <3>3 DEF s, sign, skew, n, top
  <2> QED
    BY <2>3, <2>4
<1>10. CASE k > half /\ k < n - 1
  <2>1. ScIsHigh(k) /\ ~ScIsOne(ScNegate(k))
    BY <1>1, <1>4, <1>5, <1>7, <1>10
  <2>2. sign = -1
    BY <2>1 DEF ConstSign
  <2>3. CASE k % 2 # 0
    <3>1. ConstBit(k) = 0
      BY <1>8, <2>1, <2>3 DEF ConstBit, ScIsHigh, ScIsEven
    <3>2. skew = 1 /\ s = ScNegate(k + 1)
      BY <1>2, <2>1, <3>1 DEF ConstOdd, ScCondNegate, ScCaddBit
    <3> HIDE DEF s, sign, skew
    <3>3. k + 1 \in 1..n-1
      BY <1>1, <1>10
    <3>4. s = n - (k + 1)
      BY <1>6, <3>2, <3>3
    <3>5. s \in Nat /\ s % 2 = 1 /\ s < top /\ sign * s - (k + skew) = -n
      BY <1>1, <1>3, <1>10, <2>2, <2>3, <3>2, <3>4 DEF top
    <3> QED
      BY <2>2, <3>2, <3>5 DEF s, sign, skew, n, top
  <2>4. CASE k % 2 = 0
    <3>1. ConstBit(k) = 1
      BY <1>8, <2>1, <2>4 DEF ConstBit
    <3>2. skew = 2 /\ s = ScNegate(k + 2)
      BY <1>2, <2>1, <3>1 DEF ConstOdd, ScCondNegate, ScCaddBit
    <3> HIDE DEF s, sign, skew
    <3>3. k + 2 \in 1..n-1
      BY <1>1, <1>10, <2>4
    <3>4. s = n - (k + 2)
      BY <1>6, <3>2, <3>3
    <3>5. s \in Nat /\ s % 2 = 1 /\ s < top /\ sign * s - (k + skew) = -n
      BY <1>1, <1>3, <1>10, <2>2, <2>4, <3>2, <3>4 DEF top
    <3> QED
      BY <2>2, <3>2, <3>5 DEF s, sign, skew, n, top
  <2> QED
    BY <2>3, <2>4
<1>11. CASE k = n - 1
  <2>1. ScIsHigh(k) /\ ScIsOne(ScNegate(k)) /\ k % 2 = 0
    BY <1>1, <1>4, <1>5, <1>7, <1>11
  <2>2. sign = 1
    BY <2>1 DEF ConstSign
  <2>3. ConstBit(k) = 1
    BY <1>8, <2>1 DEF ConstBit
  <2>4. skew = 2 /\ s = ScNegate(k)
    BY <1>2, <2>1, <2>3 DEF ConstOdd, ScCondNegate, ScCaddBit
  <2> HIDE DEF s, sign, skew
  <2>5. s = 1
    BY <2>1, <2>4 DEF ScIsOne
  <2>6. s \in Nat /\ s % 2 = 1 /\ s < top /\ sign * s - (k + skew) = -n
    BY <1>1, <1>3, <1>11, <2>2, <2>4, <2>5 DEF top
  <2> QED
    BY <2>2, <2>4, <2>6 DEF s, sign, skew, n, top
<1>12. k <= half \/ (k > half /\ k < n - 1) \/ k = n - 1
  BY <1>1, <1>4
<1> QED
  BY <1>9, <1>10, <1>11, <1>12
-----------------------------------------------------------------------------
\* What n rounds of size make of a number, with the sign of all digits.
ConstDigitsOf(digits, R, size, sign) ==
    digits = [i \in 0..size |-> sign * (IF i = size THEN R[i].last ELSE R[i + 1].digit)]

\* wnaf_const is its rounds on that number.
LEMMA WnafConstIs ==
    ASSUME NEW k \in Scalars, NEW w \in Nat \ {0}
    PROVE  LET r == wnaf_const(k, w)
           IN  /\ ConstDigitsOf(r.digits, ConstRounds(ConstOdd(k), w), WnafSize(w), ConstSign(k))
               /\ r.skew = Pow2[ConstBit(k)]
<1> DEFINE r == wnaf_const(k, w)
           R == ConstRounds(ConstOdd(k), w)
           size == WnafSize(w)
           D == [i \in 0..size |-> ConstSign(k) * (IF i = size THEN R[i].last ELSE R[i + 1].digit)]
<1>1. r = [digits |-> D, skew |-> Pow2[ConstBit(k)]]
  BY Zenon DEF wnaf_const, ConstOdd, ConstBit, ConstSign
<1> HIDE DEF r, D
<1>2. r.digits = D /\ r.skew = Pow2[ConstBit(k)]
  BY <1>1
<1> QED
  BY <1>2 DEF ConstDigitsOf, D, r

\* The digits of a number in rounds, when each round loses nothing of it.
LEMMA ConstValue ==
    ASSUME NEW s \in Nat, s % 2 = 1, s < Pow2[ScalarBits], NEW w \in Nat \ {0},
           NEW sign \in {1, -1}, NEW D,
           ConstDigitsOf(D, ConstRounds(s, w), WnafSize(w), sign)
    PROVE  /\ D \in [0..WnafSize(w) -> Int]
           /\ \A i \in 0..WnafSize(w) : D[i] % 2 = 1 /\ D[i] < Pow2[w] /\ -D[i] < Pow2[w]
           /\ ValueAbove(D, WnafSize(w) + 1, w)[0] = sign * s
<1> DEFINE R == ConstRounds(s, w)
           size == WnafSize(w)
           M == Pow2[w]
           V == ValueAbove(D, size + 1, w)
<1>1. /\ R[0] = [s |-> s \div M, last |-> s % M, digit |-> 0]
      /\ \A i \in 1..size : R[i] = RoundStep(R[i - 1], w)
      /\ \A i \in 0..size : R[i] \in RoundStates /\ LastOk(R[i].last, w)
      /\ R[size].s = 0
  BY ConstRoundsIs
<1>2. D = [i \in 0..size |-> sign * (IF i = size THEN R[i].last ELSE R[i + 1].digit)]
  BY DEF ConstDigitsOf
<1>3. size \in Nat /\ M \in Nat /\ M >= 1
  BY SizeIs, Pow2Facts
<1> HIDE DEF R, size, M
<1>4. \A i \in 0..size : /\ R[i].s \in Int /\ R[i].last \in Int /\ R[i].digit \in Int
                         /\ R[i].last % 2 = 1 /\ R[i].last >= -1 /\ R[i].last < M
  BY <1>1 DEF RoundStates, LastOk, M
<1>5. \A i \in 0..size-1 :
        /\ R[i + 1].digit % 2 = 1 /\ R[i + 1].digit < M /\ -R[i + 1].digit < M
        /\ R[i].last + M * R[i].s = R[i + 1].digit + M * (R[i + 1].last + M * R[i + 1].s)
        /\ R[i + 1].digit \in Int
  <2> TAKE i \in 0..size-1
  <2>1. i \in 0..size /\ i + 1 \in 1..size /\ (i + 1) - 1 = i /\ i + 1 \in 0..size
    BY <1>3
  <2> DEFINE x == R[i]
             y == RoundStep(x, w)
  <2>2. x \in RoundStates /\ LastOk(x.last, w) /\ R[i + 1] = y
    BY <1>1, <2>1
  <2> HIDE DEF x
  <2>3. /\ y.digit % 2 = 1 /\ y.digit < Pow2[w] /\ -y.digit < Pow2[w]
        /\ x.last + Pow2[w] * x.s = y.digit + Pow2[w] * (y.last + Pow2[w] * y.s)
    BY <2>2, RoundStepIs
  <2> HIDE DEF y
  <2>4. R[i + 1].digit \in Int
    BY <1>4, <2>1
  <2> QED
    BY <2>2, <2>3, <2>4 DEF x, M
<1>6. \A i \in 0..size : D[i] \in Int /\ D[i] % 2 = 1 /\ D[i] < M /\ -D[i] < M
  <2>1. ASSUME NEW a \in Int, a % 2 = 1, a < M, -a < M
        PROVE  sign * a \in Int /\ (sign * a) % 2 = 1 /\ sign * a < M /\ -(sign * a) < M
    <3>1. (-a) % 2 = 1
      BY <2>1
    <3>2. CASE sign = 1
      BY <2>1, <3>2
    <3>3. CASE sign = -1
      BY <2>1, <3>1, <3>3, <1>3
    <3> QED
      BY <3>2, <3>3
  <2> TAKE i \in 0..size
  <2> DEFINE a == IF i = size THEN R[i].last ELSE R[i + 1].digit
  <2>2. a \in Int /\ a % 2 = 1 /\ a < M /\ -a < M
    <3>1. CASE i = size
      <4> DEFINE b == R[i].last
      <4>1. b \in Int /\ b % 2 = 1 /\ b >= -1 /\ b < M
        BY <1>4
      <4>2. -b < M
        <5>1. M >= 2
          <6>1. w \in Nat /\ w # 0 /\ w - 1 \in Nat
            OBVIOUS
          <6> DEFINE h == Pow2[w - 1]
          <6>2. M = 2 * h /\ h \in Nat /\ h >= 1
            BY <6>1, Pow2Facts DEF M
          <6> HIDE DEF h
          <6> QED
            BY <6>2
        <5> HIDE DEF b
        <5> QED
          BY <1>3, <4>1, <5>1
      <4>3. a = b
        BY <3>1
      <4> HIDE DEF a, b
      <4> QED
        BY <4>1, <4>2, <4>3
    <3>2. CASE i # size
      <4>1. i \in 0..size-1
        BY <1>3, <3>2
      <4>2. a = R[i + 1].digit
        BY <3>2
      <4> HIDE DEF a
      <4> QED
        BY <1>5, <4>1, <4>2
    <3> QED
      BY <3>1, <3>2
  <2>3. D[i] = sign * a
    BY <1>2
  <2> HIDE DEF a
  <2> QED
    BY <2>1, <2>2, <2>3
<1>7. D \in [0..size -> Int]
  <2>1. D = [i \in 0..size |-> D[i]]
    BY <1>2
  <2> QED
    BY <1>6, <2>1
<1>8. /\ V[size + 1] = 0
      /\ \A i \in 0..size : V[i] = D[i] + M * V[i + 1] /\ V[i] \in Int
  <2>1. size + 1 \in Nat /\ Numbers(D, size + 1) /\ w \in Nat
    BY <1>3, <1>6 DEF Numbers
  <2>2. ValuesOf(ValueAbove(D, size + 1, w), D, size + 1, Pow2[w])
    BY <2>1, ValueAboveIs
  <2>3. ValuesOf(V, D, size + 1, M)
    BY <2>2 DEF M
  <2> HIDE DEF V
  <2>4. (size + 1) - 1 = size /\ \A i \in 0..size : i \in 0..size+1
    BY <1>3
  <2> QED
    BY <2>3, <2>4 DEF ValuesOf
<1> HIDE DEF V
<1> DEFINE T == {i \in 0..size : V[i] = sign * (R[i].last + M * R[i].s)}
<1>9. size \in T
  <2>1. size \in 0..size /\ D[size] = sign * R[size].last
    BY <1>2, <1>3
  <2>2. V[size] = D[size] + M * 0
    BY <1>8, <2>1
  <2> DEFINE b == R[size].last
             c == R[size].s
  <2>3. b \in Int /\ c = 0
    BY <1>1, <1>4, <2>1
  <2>4. D[size] = sign * b
    BY <2>1
  <2> HIDE DEF b, c
  <2>5. sign * b + M * 0 = sign * (b + M * c)
    BY <1>3, <2>3
  <2> QED
    BY <2>1, <2>2, <2>4, <2>5 DEF b, c
<1>10. ASSUME NEW i \in 0..size-1, i + 1 \in T PROVE i \in T
  <2>1. i \in 0..size /\ i # size /\ i + 1 \in 0..size
    BY <1>3
  <2> DEFINE a == R[i].last
             b == R[i].s
             c == R[i + 1].digit
             d == R[i + 1].last
             e == R[i + 1].s
  <2>2. a \in Int /\ b \in Int /\ c \in Int /\ d \in Int /\ e \in Int
    BY <1>4, <1>5, <2>1
  <2>3. a + M * b = c + M * (d + M * e)
    BY <1>5
  <2>4. D[i] = sign * c
    BY <1>2, <2>1
  <2>5. V[i + 1] = sign * (d + M * e)
    BY <1>10
  <2>6. V[i] = D[i] + M * V[i + 1]
    BY <1>8, <2>1
  <2> HIDE DEF a, b, c, d, e
  <2>7. sign * c + M * (sign * (d + M * e)) = sign * (c + M * (d + M * e))
    BY <1>3, <2>2
  <2>8. V[i] = sign * (a + M * b)
    BY <2>3, <2>4, <2>5, <2>6, <2>7
  <2> QED
    BY <2>1, <2>8 DEF a, b
<1>11. 0 \in T
  <2>1. 0 \in Int /\ size \in Int /\ (0 <= size => size \in T) /\ 0 \in 0..size
    BY <1>3, <1>9
  <2> HIDE DEF T
  <2>2. \A i \in 0..size : i \in T
    BY <1>10, <2>1, Downward, Zenon
  <2> QED
    BY <2>1, <2>2
<1>12. V[0] = sign * s
  <2> DEFINE q == s \div M
             r == s % M
  <2>1. R[0].last = r /\ R[0].s = q
    BY <1>1
  <2>2. s \in Int /\ s >= 0 /\ M \in Nat \ {0}
    BY <1>3
  <2>3. q \in Int /\ r \in Int /\ s = M * q + r
    <3>1. q \in Int /\ r \in 0..M-1 /\ s = M * q + r
      BY <2>2, Division
    <3> QED
      BY <3>1, <2>2
  <2>4. V[0] = sign * (R[0].last + M * R[0].s)
    BY <1>11
  <2> HIDE DEF q, r
  <2>5. r + M * q = s
    BY <2>2, <2>3
  <2> QED
    BY <2>1, <2>4, <2>5
<1> QED
  BY <1>6, <1>7, <1>12 DEF V, size, M
-----------------------------------------------------------------------------
\* The constant-time recoding of a scalar, with its skew.
LEMMA ConstFormIs ==
    ASSUME NEW k \in Scalars
    PROVE  LET r == wnaf_const(k, WindowA - 1)
               D == r.digits
           IN  /\ D \in [0..WnafSize(WindowA - 1) -> Int]
               /\ \A i \in DOMAIN D : /\ D[i] % 2 = 1
                                      /\ D[i] < Pow2[WindowA - 1] /\ -D[i] < Pow2[WindowA - 1]
               /\ r.skew \in {1, 2}
               /\ (ValueAbove(D, ConstSize, WindowA - 1)[0] - k - r.skew) % Order = 0
<1> DEFINE w == WindowA - 1
           r == wnaf_const(k, w)
           D == r.digits
           s == ConstOdd(k)
           sign == ConstSign(k)
           size == WnafSize(w)
           v == ValueAbove(D, ConstSize, w)[0]
<1>1. w \in Nat \ {0}
  BY WindowAssumption
<1>2. ConstDigitsOf(D, ConstRounds(s, w), size, sign) /\ r.skew = Pow2[ConstBit(k)]
  <2> HIDE DEF w
  <2> QED
    BY <1>1, WnafConstIs
<1>3. /\ s \in Nat /\ s % 2 = 1 /\ s < Pow2[ScalarBits]
      /\ sign \in {1, -1} /\ Pow2[ConstBit(k)] \in {1, 2}
      /\ sign * s - (k + Pow2[ConstBit(k)]) \in {0, -Order, Order}
  BY ConstOddIs
<1> HIDE DEF w, r, s, sign
<1>4. /\ D \in [0..size -> Int]
      /\ \A i \in 0..size : D[i] % 2 = 1 /\ D[i] < Pow2[w] /\ -D[i] < Pow2[w]
      /\ ValueAbove(D, size + 1, w)[0] = sign * s
  <2> HIDE DEF D
  <2> QED
    BY <1>1, <1>2, <1>3, ConstValue
<1>5. v = sign * s
  BY <1>4 DEF ConstSize, w
<1>6. DOMAIN D = 0..size
  BY <1>4
<1> DEFINE skew == r.skew
<1> HIDE DEF D, v, skew
<1>7. (v - k - skew) % Order = 0
  <2>1. Order \in Int /\ Order > 2 /\ k \in Int /\ skew \in Int /\ s \in Int /\ sign \in Int
    BY <1>2, <1>3, OrderFacts DEF Scalars, skew
  <2>2. sign * s - (k + skew) \in {0, -Order, Order}
    BY <1>2, <1>3 DEF skew
  <2>3. v \in Int
    BY <1>5, <2>1
  <2>4. v - k - skew \in {0, -Order, Order}
    BY <1>5, <2>1, <2>2, <2>3
  <2>5. 0 % Order = 0 /\ Order % Order = 0 /\ (-Order) % Order = 0
    <3>1. 0 = Order * 0 + 0 /\ Order = Order * 1 + 0 /\ -Order = Order * (-1) + 0 /\ 0 \in 0..Order-1
      BY <2>1
    <3>2. Order \in Nat \ {0} /\ 0 \in Int /\ -Order \in Int
      BY <2>1
    <3> QED
      BY <2>1, <3>1, <3>2, DivisionUnique
  <2> QED
    BY <2>4, <2>5
<1> QED
  BY <1>2, <1>3, <1>4, <1>6, <1>7 DEF v, D, r, w, skew
-----------------------------------------------------------------------------
\* A call, in what it was called with.
Calls == [fn: {"idle", "ecmult", "const", "done"}, k: Nat, na: Nat, ng: Nat]

\* The digits in the locals are those of the scalars of the call, whatever the loop
\* has done since.
DigitsKept ==
    /\ mul \in Calls
    /\ mul.fn = "ecmult" =>
         /\ mul.na \in Scalars /\ mul.ng \in Scalars
         /\ wna = ecmult_wnaf(mul.na, WindowA).digits
         /\ wng = ecmult_wnaf(mul.ng, WindowG).digits
    /\ mul.fn = "const" =>
         /\ mul.na \in Scalars
         /\ wna = wnaf_const(mul.na, WindowA - 1).digits
         /\ mul.ng = wnaf_const(mul.na, WindowA - 1).skew

\* No call has been made at first.
LEMMA DigitsKeptFirst == EcmultInit => DigitsKept
  BY DEF EcmultInit, DigitsKept, Calls, Idle

\* Every step keeps the digits: the loops only read them.
LEMMA DigitsKeptNext == DigitsKept /\ [EcmultNext]_mulVars => DigitsKept'
<1> SUFFICES ASSUME DigitsKept, [EcmultNext]_mulVars PROVE DigitsKept'
  OBVIOUS
<1>1. Scalars \subseteq Nat /\ Scalars = 0..Order-1 /\ Factors \subseteq Scalars /\ MultiplicandK \subseteq Nat
  BY OrderFacts, WindowAssumption DEF Scalars
<1>2. ASSUME NEW k \in MultiplicandK, NEW z \in MultiplicandZ, NEW na \in Factors, NEW ng \in Factors,
             Ecmult(k, z, na, ng)
      PROVE  DigitsKept'
  <2> DEFINE a == ecmult_wnaf(na, WindowA)
             g == ecmult_wnaf(ng, WindowG)
  <2>1. mul' = [fn |-> "ecmult", k |-> k, na |-> na, ng |-> ng] /\ wna' = a.digits /\ wng' = g.digits
    BY <1>2 DEF Ecmult, Begin
  <2>2. /\ mul'.fn = "ecmult" /\ mul'.na = na /\ mul'.ng = ng
        /\ na \in Scalars /\ ng \in Scalars /\ mul' \in Calls
    BY <1>1, <2>1 DEF Calls
  <2> QED
    BY <2>1, <2>2 DEF DigitsKept
<1>3. ASSUME NEW k \in MultiplicandK, NEW scalar \in 0..Order-1, EcmultConst(k, scalar)
      PROVE  DigitsKept'
  <2> DEFINE c == wnaf_const(scalar, WindowA - 1)
  <2>1. mul' = [fn |-> "const", k |-> k, na |-> scalar, ng |-> c.skew] /\ wna' = c.digits
    BY <1>3 DEF EcmultConst, BeginConst
  <2>2. scalar \in Scalars /\ c.skew \in Nat
    <3>1. scalar \in Scalars
      BY <1>1
    <3> QED
      BY <3>1, ConstFormIs
  <2> HIDE DEF c
  <2>3. mul'.fn = "const" /\ mul'.na = scalar /\ mul'.ng = c.skew /\ mul' \in Calls
    BY <1>1, <2>1, <2>2 DEF Calls
  <2> QED
    BY <2>1, <2>2, <2>3 DEF DigitsKept, c
<1>4. ASSUME UNCHANGED <<mul, wna, wng>> PROVE DigitsKept'
  BY <1>4 DEF DigitsKept
<1>5. CASE EcmultEnd
  <2>1. mul' = [mul EXCEPT !.fn = "done"]
    BY <1>5 DEF EcmultEnd
  <2> QED
    BY <2>1 DEF DigitsKept, Calls
<1>6. CASE ConstEnd
  <2>1. mul' = [mul EXCEPT !.fn = "done", !.ng = 0]
    BY <1>6 DEF ConstEnd
  <2> QED
    BY <2>1 DEF DigitsKept, Calls
<1>7. CASE Return
  BY <1>7 DEF Return, DigitsKept, Calls, Idle
<1>8. CASE EcmultLoop \/ ConstLoop \/ UNCHANGED mulVars
  BY <1>4, <1>8 DEF EcmultLoop, ConstLoop, mulVars
<1> QED
  BY <1>2, <1>3, <1>5, <1>6, <1>7, <1>8 DEF EcmultNext

\* It says what WnafForm says.
LEMMA DigitsKeptGives == DigitsKept => WnafForm
<1> SUFFICES ASSUME DigitsKept PROVE WnafForm
  OBVIOUS
<1>1. CASE mul.fn = "ecmult"
  <2>1. WindowA \in Nat /\ WindowA > 2 /\ WindowG \in Nat /\ WindowG > 2
    BY WindowAssumption
  <2>2. mul.na \in Scalars /\ mul.ng \in Scalars
    BY <1>1 DEF DigitsKept
  <2>3. WnafOf(ecmult_wnaf(mul.na, WindowA).digits, WindowA, mul.na)
    BY <2>1, <2>2, WnafOfIs
  <2>4. WnafOf(ecmult_wnaf(mul.ng, WindowG).digits, WindowG, mul.ng)
    BY <2>1, <2>2, WnafOfIs
  <2> QED
    BY <1>1, <2>3, <2>4 DEF DigitsKept, WnafForm
<1>2. CASE mul.fn = "const"
  <2> DEFINE k == mul.na
             r == wnaf_const(k, WindowA - 1)
  <2>1. k \in Scalars /\ wna = r.digits /\ mul.ng = r.skew
    BY <1>2 DEF DigitsKept
  <2> HIDE DEF k
  <2>2. /\ \A i \in DOMAIN wna : wna[i] % 2 = 1 /\ wna[i] < Pow2[WindowA - 1] /\ -wna[i] < Pow2[WindowA - 1]
        /\ mul.ng \in {1, 2}
        /\ (ValueAbove(wna, ConstSize, WindowA - 1)[0] - k - mul.ng) % Order = 0
    BY <2>1, ConstFormIs
  <2> QED
    BY <1>2, <2>2 DEF WnafForm, k
<1> QED
  BY <1>1, <1>2 DEF WnafForm

\* WnafForm for every scalar, window and point: the digits that both
\* multiplications read are odd, in their windows and apart, and they sum to the
\* scalar, with the skew.
THEOREM DigitsAreOfScalars == EcmultSpec => []WnafForm
<1>1. EcmultSpec => []DigitsKept
  BY DigitsKeptFirst, DigitsKeptNext, PTL DEF EcmultSpec
<1>2. DigitsKept => WnafForm
  BY DigitsKeptGives
<1> QED
  BY <1>1, <1>2, PTL
-----------------------------------------------------------------------------
\* a is the multiple n of the generator, on the curve of g.
OnTimes(a, g, n) == OnIs(a, g, Times(n))

\* Order is prime: no multiple below it of a finite point is infinity.
LEMMA FiniteTimes ==
    ASSUME NEW k \in 1..Order-1, NEW n \in 1..Order-1
    PROVE  /\ n * k \in Int /\ Times(n * k) \in CurvePoints
           /\ -n * k \in Int /\ Times(-n * k) \in CurvePoints
<1>1. n \in Int /\ k \in Int /\ n * k \in Int /\ -n * k \in Int /\ -n * k = -(n * k)
  BY OrderFacts
<1>2. (n * k) % Order # 0
  BY PrimeOrderAssumption
<1> DEFINE m == n * k
<1>3. m \in Int /\ m % Order # 0 /\ -m \in Int
  BY <1>1, <1>2
<1> HIDE DEF m
<1>4. Times(m) \in CurvePoints /\ Times(m) \in GroupPoints /\ Times(-m) \in GroupPoints
  BY <1>3, TimesFacts
<1>5. Plus(Times(m), Times(-m)) = Infinity
  BY <1>3, TimesOpposite
<1>6. Times(-m) \in CurvePoints
  <2>1. Times(m) # Infinity
    BY <1>4, CurvePointFacts
  <2> QED
    BY <1>4, <1>5, <2>1, OppositePoints
<1> QED
  BY <1>1, <1>4, <1>6 DEF m

\* Neither a multiplicand nor its double is infinity: the order is odd.
LEMMA TwiceTimes ==
    ASSUME NEW k \in 1..Order-1
    PROVE  2 * k \in Int /\ Times(2 * k) \in CurvePoints /\ Times(k) \in CurvePoints
<1>1. 2 \in 1..Order-1 /\ 1 \in 1..Order-1 /\ 1 * k = k
  BY OrderFacts
<1> QED
  BY <1>1, FiniteTimes

\* Sums on the curve of g, by each of the three additions the loops use.
LEMMA OnAddTimes ==
    ASSUME NEW a, NEW b, NEW g \in ZScales, NEW m \in Int, NEW n \in Int, OnTimes(a, g, m),
           Times(n) \in CurvePoints
    PROVE  /\ IsoGe(b, g, Times(n)) => OnTimes(GejAddGeVar(a, b).r, g, m + n)
           /\ IsoGe(b, g, Times(n)) => OnTimes(GejAddGe(a, b), g, m + n)
           /\ GeIs(b, Times(n)) => OnTimes(GejAddZinvVar(a, b, g), g, m + n)
<1>1. m + n \in Int /\ Times(m) \in GroupPoints
  BY TimesFacts
<1>2. Plus(Times(m), Times(n)) = Times(m + n) /\ Times(m + n) \in GroupPoints
  BY <1>1, TimesFacts
<1>3. OnIs(a, g, Times(m))
  BY DEF OnTimes
<1> DEFINE p == Times(m)
           q == Times(n)
<1>4. /\ p \in GroupPoints /\ q \in CurvePoints /\ OnIs(a, g, p) /\ Plus(p, q) \in GroupPoints
      /\ Plus(p, q) = Times(m + n)
  BY <1>1, <1>2, <1>3
<1> HIDE DEF p, q
<1>5. IsoGe(b, g, q) => OnIs(GejAddGeVar(a, b).r, g, Plus(p, q))
  BY <1>4, OnAddGe
<1>6. IsoGe(b, g, q) => OnIs(GejAddGe(a, b), g, Plus(p, q))
  BY <1>4, OnAddConst
<1>7. GeIs(b, q) => OnIs(GejAddZinvVar(a, b, g), g, Plus(p, q))
  BY <1>4, OnAddZinv
<1> QED
  BY <1>4, <1>5, <1>6, <1>7 DEF OnTimes, q

\* A doubling there.
LEMMA OnDoubleTimes ==
    ASSUME NEW a, NEW g \in ZScales, NEW m \in Int, OnTimes(a, g, m)
    PROVE  OnTimes(GejDoubleVar(a).r, g, 2 * m) /\ 2 * m \in Int
<1> DEFINE p == Times(m)
<1>1. 2 * m \in Int /\ p \in GroupPoints /\ m + m = 2 * m
  BY TimesFacts
<1>2. Plus(p, p) = Times(2 * m) /\ Times(2 * m) \in GroupPoints
  BY <1>1, TimesFacts
<1>3. OnIs(a, g, p)
  BY DEF OnTimes
<1> HIDE DEF p
<1>4. GejKept(a) /\ GejIs(Unscaled(a, g), p)
  BY <1>3 DEF OnIs
<1>5. GejIs(GejDoubleVar(Unscaled(a, g)).r, Plus(p, p))
  BY <1>1, <1>4, GejDoubleVarIs
<1>6. OnIs(GejDoubleVar(a).r, g, Plus(p, p))
  BY <1>2, <1>4, <1>5, OnDouble
<1> QED
  BY <1>1, <1>2, <1>6 DEF OnTimes

\* What gives a ratio gives a point and the ratio.
IsPair(e) == e = [r |-> e.r, rzr |-> e.rzr]

\* gej_add_ge_var returns a point and a ratio.
LEMMA AddGePair == \A a, b : IsPair(GejAddGeVar(a, b))
<1> TAKE a, b
<1>1. \A r, f : IsPair([r |-> r, rzr |-> f])
  BY DEF IsPair
<1>2. IsPair(GejDoubleVar(a))
  <2>1. GejDoubleVar(a) = [r |-> GejDoubleVar(a).r, rzr |-> GejDoubleVar(a).rzr]
    BY DEF GejDoubleVar
  <2> QED
    BY <2>1 DEF IsPair
<1> HIDE DEF IsPair
<1>3. ASSUME NEW u1, NEW s1, NEW h, NEW i, NEW z, NEW f
      PROVE  IsPair(SumOrDouble(a, u1, s1, h, i, z, f))
  <2>1. CASE FeNormalizesToZeroVar(h)
    BY <1>1, <1>2, <2>1 DEF SumOrDouble
  <2>2. CASE ~FeNormalizesToZeroVar(h)
    BY <1>1, <2>2 DEF SumOrDouble
  <2> QED
    BY <2>1, <2>2
<1>4. CASE a.inf
  BY <1>1, <1>4 DEF GejAddGeVar
<1>5. CASE ~a.inf /\ b.inf
  BY <1>1, <1>5 DEF GejAddGeVar
<1>6. CASE ~a.inf /\ ~b.inf
  BY <1>3, <1>6 DEF GejAddGeVar
<1> QED
  BY <1>4, <1>5, <1>6
-----------------------------------------------------------------------------
\* The entries of a table while it is made: a multiple on the curve of g, and a ratio.
Entries(g) ==
    {e \in [r: Gej, rzr: Fe] : e.rzr.m <= 3 /\ \E n \in Int : OnTimes(e.r, g, n)}

\* What is known of a finite multiple on the curve of g.
LEMMA OnTimesFinite ==
    ASSUME NEW a, NEW g \in ZScales, NEW n \in Int, OnTimes(a, g, n), Times(n) \in CurvePoints
    PROVE  /\ a \in Gej /\ GejKept(a) /\ a.inf = FALSE /\ a.z \in ZScales
           /\ GejIs(Unscaled(a, g), Times(n))
           /\ IsoGe(GeSetXy(a.x, a.y), FeMul(a.z, g), Times(n))
<1> DEFINE q == Times(n)
           u == Unscaled(a, g)
<1>1. q \in CurvePoints /\ GejKept(a) /\ GejIs(u, q)
  BY DEF OnTimes, OnIs
<1>2. /\ a \in Gej /\ u.z = FeMul(a.z, g) /\ u.x = a.x /\ u.y = a.y /\ u.inf = a.inf
      /\ a.z \in Fe /\ a.z.v \in Int /\ g.v \in Int /\ a.z.v * g.v \in Int
      /\ Stands(u.z, a.z.v * g.v, 1)
  BY <1>1, UnscaledFacts
<1> HIDE DEF q, u
<1>3. u.z \in ZScales /\ u.inf = FALSE /\ IsoGe(GeSetXy(u.x, u.y), u.z, q)
  BY <1>1, IsoOfGej
<1>4. ~Eq(a.z.v, 0)
  <2> DEFINE i == a.z.v
             j == g.v
             k == u.z.v
  <2>1. i \in Int /\ j \in Int /\ i * j \in Int /\ k \in Int /\ Eq(k, i * j) /\ ~Eq(k, 0)
    BY <1>2, <1>3, ScaleFacts DEF Stands
  <2> HIDE DEF i, j, k
  <2> SUFFICES ASSUME Eq(i, 0) PROVE FALSE
    BY DEF i
  <2>2. Eq(j * i, 0)
    BY <2>1, EqTimesZero
  <2>3. j * i = i * j
    BY <2>1
  <2>4. Eq(k, i * j) /\ Eq(i * j, 0)
    BY <2>1, <2>2, <2>3
  <2>5. Eq(k, 0)
    BY <2>1, <2>4, EqTrans
  <2> QED
    BY <2>1, <2>5
<1>5. a.z \in ZScales
  BY <1>1, <1>2, <1>4 DEF ZScales, GejKept
<1> QED
  BY <1>1, <1>2, <1>3, <1>5 DEF q, u

\* From one odd multiple to the next, the double is added.
LEMMA EntryStep ==
    ASSUME NEW g \in ZScales, NEW e \in Entries(g), NEW b, NEW m \in Int, Times(m) \in CurvePoints,
           IsoGe(b, g, Times(m))
    PROVE  LET s == GejAddGeVar(e.r, b)
           IN  /\ s \in Entries(g) /\ RatioOf(s, e.r)
               /\ \A n \in Int : OnTimes(e.r, g, n) => OnTimes(s.r, g, n + m)
<1> DEFINE s == GejAddGeVar(e.r, b)
<1>1. \A n \in Int : OnTimes(e.r, g, n) => OnTimes(s.r, g, n + m)
  BY OnAddTimes
<1>2. PICK n \in Int : OnTimes(e.r, g, n)
  BY DEF Entries
<1>3. GejKept(e.r)
  BY <1>2 DEF OnTimes, OnIs
<1>4. b \in Ge /\ b.inf = FALSE /\ b.x.m <= 6 /\ b.y.m <= 6
  <2>1. b \in Ge /\ b.inf = FALSE /\ b.x.m <= 6 /\ b.y.m <= 4 /\ b.y \in Fe
    BY DEF IsoGe, Stands
  <2>2. b.y.m \in Int
    BY <2>1, FieldAssumption DEF Fe, Broken
  <2> QED
    BY <2>1, <2>2
<1>5. RatioOf(s, e.r)
  BY <1>3, <1>4, AddRatio
<1>6. IsPair(s)
  BY AddGePair
<1> HIDE DEF s
<1>7. OnTimes(s.r, g, n + m) /\ n + m \in Int
  BY <1>1, <1>2
<1>8. s.r \in Gej /\ s.rzr \in Fe /\ s.rzr.m <= 3
  BY <1>5, <1>7 DEF RatioOf, OnTimes, OnIs, GejKept
<1>9. s \in [r: Gej, rzr: Fe]
  BY <1>6, <1>8 DEF IsPair
<1>10. s \in Entries(g)
  BY <1>7, <1>8, <1>9 DEF Entries
<1> QED
  BY <1>1, <1>5, <1>10 DEF s
-----------------------------------------------------------------------------
\* The n odd multiples of k on the curve of g, with their ratios.
IsoTable(t, g, n, k) ==
    /\ t = [prej |-> t.prej, zr |-> t.zr]
    /\ t.prej = [i \in 1..n |-> t.prej[i]] /\ t.zr = [i \in 1..n |-> t.zr[i]]
    /\ \A i \in 1..n : OnTimes(t.prej[i], g, (2 * i - 1) * k)
    /\ \A i \in 2..n : /\ t.zr[i] \in Fe /\ t.zr[i].m <= 3 /\ t.zr[i].v \in Int
                       /\ Eq(t.prej[i].z.v, t.prej[i - 1].z.v * t.zr[i].v)

\* The odd numbers that a table of n entries has are below the order.
LEMMA OddBelow ==
    ASSUME NEW n \in Nat, 2 * n <= Order, NEW i \in 1..n
    PROVE  2 * i - 1 \in 1..Order-1 /\ 2 * i - 1 \in Int
<1>1. Order \in Int /\ i \in Int /\ i >= 1 /\ i <= n
  BY OrderFacts
<1> QED
  BY <1>1

\* The table as it is built: entry i is (2 * i - 1) * k * G on the curve where the
\* double is affine, and the ratios are those of the z.
LEMMA OnIsomorphicIs ==
    ASSUME NEW k \in 1..Order-1, NEW n \in Nat, n >= 1, 2 * n <= Order,
           NEW a, GejIs(a, Times(k))
    PROVE  LET d == GejDoubleVar(a).r
           IN  d.z \in ZScales /\ IsoTable(OnIsomorphic(n, a, d), d.z, n, k)
<1> DEFINE d == GejDoubleVar(a).r
           g == d.z
           first == GeSetGejZinv(a, g)
           p1 == [x |-> first.x, y |-> first.y, z |-> a.z, inf |-> FALSE]
           start == [r |-> p1, rzr |-> g]
           b == GeSetXy(d.x, d.y)
           F(f) == [i \in 1..n |->
                      IF i = 1 THEN [r |-> [x |-> first.x, y |-> first.y, z |-> a.z, inf |-> FALSE],
                                     rzr |-> d.z]
                      ELSE GejAddGeVar(f[i - 1].r, GeSetXy(d.x, d.y))]
           entry == CHOOSE f : f = F(f)
           t == OnIsomorphic(n, a, d)
<1>1. k \in Int /\ 2 * k \in Int /\ Times(2 * k) \in CurvePoints /\ Times(k) \in CurvePoints
      /\ Times(k) \in GroupPoints
  BY TwiceTimes, OrderFacts, CurvePointFacts
<1>2. g \in ZScales /\ d.inf = FALSE /\ IsoGe(b, g, Times(2 * k))
  <2>1. GejTimes(a, k)
    BY DEF GejTimes
  <2>2. GejTimes(GejDoubleVar(a).r, 2 * k)
    BY <1>1, <2>1, TimesMoves
  <2>3. GejIs(d, Times(2 * k))
    BY <2>2 DEF GejTimes
  <2> HIDE DEF d
  <2> QED
    BY <1>1, <2>3, IsoOfGej
<1>3. t = [prej |-> [i \in 1..n |-> entry[i].r], zr |-> [i \in 1..n |-> entry[i].rzr]]
  BY Zenon DEF OnIsomorphic
<1>4. OnTimes(p1, g, k)
  <2> HIDE DEF d
  <2> QED
    BY <1>1, <1>2, OnFirst DEF OnTimes
<1>5. start \in Entries(g)
  <2>1. p1 \in Gej
    BY <1>4 DEF OnTimes, OnIs, GejKept
  <2> HIDE DEF p1, d
  <2>2. g \in Fe /\ g.m <= 2 /\ g.m \in Int
    BY <1>2, FieldAssumption DEF ZScales, Fe, Broken
  <2>3. g.m <= 3
    BY <2>2
  <2> HIDE DEF g
  <2>4. start.r = p1 /\ start.rzr = g /\ start \in [r: Gej, rzr: Fe]
    BY <2>1, <2>2
  <2> HIDE DEF start
  <2> QED
    BY <1>1, <1>4, <2>3, <2>4 DEF Entries
<1> DEFINE S == Entries(g)
           step(e) == GejAddGeVar(e.r, b)
           G == [q \in (2..n) \X S |-> step(q[2])]
<1>6. ASSUME NEW e \in S
      PROVE  /\ step(e) \in S /\ RatioOf(step(e), e.r)
             /\ \A m \in Int : OnTimes(e.r, g, m) => OnTimes(step(e).r, g, m + 2 * k)
  <2>1. e \in Entries(g)
    BY <1>6
  <2> HIDE DEF g, b
  <2> QED
    BY <1>1, <1>2, <2>1, EntryStep
<1> HIDE DEF S, step
<1>7. G \in [(2..n) \X S -> S]
  BY <1>6
<1>8. PICK f \in [1..n -> S] : UpLoop(f, 1, n, start, G)
  <2>1. start \in S /\ n \in Int
    BY <1>5 DEF S
  <2> HIDE DEF G, start
  <2> QED
    BY <1>7, <2>1, Loop1, Zenon
<1>9. f = F(f)
  <2>1. \A i \in 1..n : i # 1 => i \in 2..n /\ f[i - 1] \in S
    OBVIOUS
  <2>2. \A i \in 1..n : i # 1 => G[<<i, f[i - 1]>>] = step(f[i - 1])
    BY <2>1
  <2>3. f = [i \in 1..n |-> IF i = 1 THEN start ELSE G[<<i, f[i - 1]>>]]
    BY <1>8 DEF UpLoop
  <2>4. \A e : step(e) = GejAddGeVar(e.r, GeSetXy(d.x, d.y))
    BY DEF step
  <2>5. start = [r |-> [x |-> first.x, y |-> first.y, z |-> a.z, inf |-> FALSE], rzr |-> d.z]
    OBVIOUS
  <2> HIDE DEF G, start, d, first
  <2> QED
    BY <2>2, <2>3, <2>4, <2>5, Zenon
<1>10. entry = F(entry)
  <2> HIDE DEF F
  <2> QED
    BY <1>9
<1>11. entry[1] = start /\ \A i \in 2..n : entry[i] = step(entry[i - 1])
  <2>1. 1 \in 1..n /\ \A i \in 2..n : i \in 1..n /\ i # 1
    OBVIOUS
  <2>2. F(entry)[1] = start /\ \A i \in 2..n : F(entry)[i] = step(entry[i - 1])
    <3> HIDE DEF entry, d, first
    <3> QED
      BY <2>1 DEF step
  <2> HIDE DEF F, entry, start
  <2> QED
    BY <1>10, <2>2, Zenon
<1> DEFINE T == {i \in 1..n : entry[i] \in S /\ OnTimes(entry[i].r, g, (2 * i - 1) * k)}
<1> HIDE DEF entry
<1>12. 1 \in T
  <2>1. (2 * 1 - 1) * k = k
    BY <1>1
  <2>2. start \in S /\ start.r = p1
    BY <1>5 DEF S
  <2> HIDE DEF start, p1, g
  <2> QED
    BY <1>4, <1>11, <2>1, <2>2
<1>13. ASSUME NEW i \in 1+1..n, i - 1 \in T PROVE i \in T
  <2> DEFINE e == entry[i - 1]
             m == (2 * (i - 1) - 1) * k
  <2>1. e \in S /\ OnTimes(e.r, g, m)
    BY <1>13
  <2>2. m \in Int /\ m + 2 * k = (2 * i - 1) * k /\ i \in 1..n /\ i \in 2..n
    BY <1>1
  <2>3. entry[i] = step(e)
    BY <1>11, <2>2
  <2> HIDE DEF e, m, g
  <2>4. step(e) \in S /\ OnTimes(step(e).r, g, m + 2 * k)
    BY <1>6, <2>1, <2>2
  <2> QED
    BY <2>2, <2>3, <2>4
<1>14. \A i \in 1..n : i \in T
  <2>1. 1 \in Int /\ n \in Int
    OBVIOUS
  <2> HIDE DEF T
  <2> QED
    BY <2>1, <1>12, <1>13, Upward, Zenon
<1>15. \A i \in 1..n : entry[i] \in S /\ OnTimes(entry[i].r, g, (2 * i - 1) * k)
  BY <1>14
<1>16. /\ t = [prej |-> t.prej, zr |-> t.zr]
       /\ t.prej = [i \in 1..n |-> t.prej[i]] /\ t.zr = [i \in 1..n |-> t.zr[i]]
       /\ \A i \in 1..n : t.prej[i] = entry[i].r /\ t.zr[i] = entry[i].rzr
  <2> HIDE DEF t
  <2> QED
    BY <1>3
<1> HIDE DEF t, g
<1>17. ASSUME NEW i \in 2..n
       PROVE  /\ t.zr[i] \in Fe /\ t.zr[i].m <= 3 /\ t.zr[i].v \in Int
              /\ Eq(t.prej[i].z.v, t.prej[i - 1].z.v * t.zr[i].v)
  <2> DEFINE e == entry[i - 1]
             s == entry[i]
  <2>1. i \in 1..n /\ i - 1 \in 1..n
    OBVIOUS
  <2>2. s = step(e) /\ e \in S /\ OnTimes(e.r, g, (2 * (i - 1) - 1) * k) /\ OnTimes(s.r, g, (2 * i - 1) * k)
    BY <1>11, <1>15, <2>1
  <2>3. t.zr[i] = s.rzr /\ t.prej[i] = s.r /\ t.prej[i - 1] = e.r
    BY <1>16, <2>1
  <2> HIDE DEF e, s
  <2>4. RatioOf(s, e.r)
    BY <1>6, <2>2
  <2>5. \A j \in 1..n : (2 * j - 1) * k \in Int /\ Times((2 * j - 1) * k) \in CurvePoints
    BY OddBelow, FiniteTimes
  <2>6. e.r.inf = FALSE /\ s.r.inf = FALSE
    <3> DEFINE m == (2 * (i - 1) - 1) * k
               l == (2 * i - 1) * k
    <3>1. m \in Int /\ Times(m) \in CurvePoints /\ l \in Int /\ Times(l) \in CurvePoints
      BY <2>1, <2>5
    <3>2. OnTimes(e.r, g, m) /\ OnTimes(s.r, g, l)
      BY <2>2
    <3> HIDE DEF m, l
    <3> QED
      BY <1>2, <3>1, <3>2, OnTimesFinite
  <2> QED
    BY <2>3, <2>4, <2>6 DEF RatioOf
<1> QED
  BY <1>2, <1>15, <1>16, <1>17 DEF IsoTable, t, g
-----------------------------------------------------------------------------
\* Ratios of z, and the products of them that are taken from the last entry back.
Ratios == {f \in Fe : f.m <= 3}
\* The loop of both table functions, which multiplies the ratios up from the last entry.
Back(f0, zr, hi) == LET y[i \in 1..hi] == IF i = hi THEN f0 ELSE FeMul(y[i + 1], zr[i + 1]) IN y

\* A ratio is an element that fe_mul takes.
LEMMA RatioFacts ==
    ASSUME NEW f \in Ratios
    PROVE  f \in Fe /\ f.v \in Int /\ f.v \in Values /\ Stands(f, f.v, 3) /\ Stands(f, f.v, 8)
<1>1. f \in Fe /\ f.m <= 3 /\ f.v \in Values
  BY DEF Ratios, Fe
<1>2. f.m \in Int
  BY <1>1, FieldAssumption DEF Fe, Broken
<1>3. f.m <= 8
  BY <1>1, <1>2
<1> QED
  BY <1>1, <1>3, StandsSelf

\* Ratios multiply to ratios.
LEMMA RatioMul ==
    ASSUME NEW f \in Ratios, NEW h \in Ratios
    PROVE  FeMul(f, h) \in Ratios /\ Eq(FeMul(f, h).v, f.v * h.v)
<1> DEFINE i == f.v
           j == h.v
           e == FeMul(f, h)
<1>1. i \in Int /\ j \in Int /\ Stands(f, i, 3) /\ Stands(h, j, 3)
  BY RatioFacts
<1> HIDE DEF i, j
<1>2. i * j \in Int
  BY <1>1
<1>3. Stands(e, i * j, 1)
  BY <1>1, <1>2, StandsMul
<1> HIDE DEF e
<1>4. e \in Fe /\ e.m <= 1 /\ Eq(e.v, i * j) /\ e.m \in Int
  BY <1>3, FieldAssumption DEF Stands, Fe, Broken
<1>5. e.m <= 3
  BY <1>4
<1> QED
  BY <1>4, <1>5 DEF Ratios, e, i, j

\* One step back, in numbers.
LEMMA BackStep ==
    ASSUME NEW z0 \in Int, NEW z1 \in Int, NEW h \in Int, NEW y \in Int, NEW f \in Int, NEW e \in Int,
           Eq(z1, z0 * h), Eq(z1 * y, e), Eq(f, y * h)
    PROVE  Eq(z0 * f, e)
<1> DEFINE m == z0 * h
           n == y * h
<1>1. m \in Int /\ n \in Int /\ z0 * f \in Int /\ z0 * n \in Int /\ m * y \in Int /\ z1 * y \in Int
      /\ z0 * n = m * y
  OBVIOUS
<1>2. Eq(z1, m) /\ Eq(f, n)
  OBVIOUS
<1> HIDE DEF m, n
<1>3. Eq(z0 * f, z0 * n)
  BY <1>1, <1>2, EqScale
<1>4. Eq(m, z1)
  BY <1>1, <1>2, EqSym
<1>5. Eq(m * y, z1 * y)
  BY <1>1, <1>4, EqScale
<1>6. Eq(m * y, e)
  BY <1>1, <1>5, EqTrans
<1>7. Eq(z0 * f, m * y)
  BY <1>1, <1>3
<1> QED
  BY <1>1, <1>6, <1>7, EqTrans

\* What the loop has at entry i takes z of entry i to that of the last, times where it
\* started.
LEMMA BackIs ==
    ASSUME NEW hi \in Nat, hi >= 1, NEW f0 \in Ratios, NEW zr, \A i \in 2..hi : zr[i] \in Ratios,
           NEW Z, \A i \in 1..hi : Z[i] \in Int, \A i \in 2..hi : Eq(Z[i], Z[i - 1] * zr[i].v),
           NEW e \in Int, Eq(Z[hi] * f0.v, e)
    PROVE  \A i \in 1..hi : Back(f0, zr, hi)[i] \in Ratios /\ Eq(Z[i] * Back(f0, zr, hi)[i].v, e)
<1> DEFINE F(g) == [i \in 1..hi |-> IF i = hi THEN f0 ELSE FeMul(g[i + 1], zr[i + 1])]
           y == CHOOSE g : g = F(g)
           G == [p \in (1..hi-1) \X Ratios |-> FeMul(p[2], zr[p[1] + 1])]
<1>1. Back(f0, zr, hi) = y
  BY Zenon DEF Back
<1>2. G \in [(1..hi-1) \X Ratios -> Ratios]
  <2>1. ASSUME NEW p \in (1..hi-1) \X Ratios PROVE FeMul(p[2], zr[p[1] + 1]) \in Ratios
    <3>1. p[2] \in Ratios /\ p[1] + 1 \in 2..hi
      OBVIOUS
    <3>2. zr[p[1] + 1] \in Ratios
      BY <3>1
    <3> QED
      BY <3>1, <3>2, RatioMul
  <2> QED
    BY <2>1
<1>3. PICK f \in [1..hi -> Ratios] : DownLoop(f, 1, hi, f0, G)
  <2>1. 1 \in Int /\ hi \in Int
    OBVIOUS
  <2> HIDE DEF G
  <2> QED
    BY <2>1, <1>2, LoopDown, Zenon
<1>4. f = F(f)
  <2>1. \A i \in 1..hi : i # hi => i \in 1..hi-1 /\ f[i + 1] \in Ratios
    OBVIOUS
  <2>2. \A i \in 1..hi : i # hi => G[<<i, f[i + 1]>>] = FeMul(f[i + 1], zr[i + 1])
    BY <2>1
  <2> HIDE DEF G
  <2> QED
    BY <1>3, <2>2 DEF DownLoop
<1>5. y = F(y)
  <2> HIDE DEF F
  <2> QED
    BY <1>4
<1>6. y[hi] = f0 /\ \A i \in 1..hi-1 : y[i] = FeMul(y[i + 1], zr[i + 1])
  <2> HIDE DEF y
  <2> QED
    BY <1>5
<1> DEFINE T == {i \in 1..hi : y[i] \in Ratios /\ Eq(Z[i] * y[i].v, e)}
<1> HIDE DEF y
<1>7. hi \in T
  BY <1>6
<1>8. ASSUME NEW i \in 1..hi-1, i + 1 \in T PROVE i \in T
  <2> DEFINE a == y[i + 1]
             h == zr[i + 1]
             j == i + 1
  <2>1. j \in 2..hi /\ i \in 1..hi /\ j \in 1..hi /\ j - 1 = i
    OBVIOUS
  <2>2. a \in Ratios /\ h \in Ratios /\ Eq(Z[j] * a.v, e) /\ Z[i] \in Int /\ Z[j] \in Int
        /\ Eq(Z[j], Z[j - 1] * h.v) /\ y[i] = FeMul(a, h)
    BY <1>6, <1>8, <2>1
  <2> HIDE DEF a, h, j
  <2>3. y[i] \in Ratios /\ Eq(y[i].v, a.v * h.v)
    BY <2>2, RatioMul
  <2> DEFINE z0 == Z[i]
             z1 == Z[j]
             hv == h.v
             av == a.v
             yv == y[i].v
  <2>4. z0 \in Int /\ z1 \in Int /\ hv \in Int /\ av \in Int /\ yv \in Int
        /\ Eq(z1, z0 * hv) /\ Eq(z1 * av, e) /\ Eq(yv, av * hv)
    BY <2>1, <2>2, <2>3, RatioFacts
  <2> HIDE DEF z0, z1, hv, av, yv
  <2>5. Eq(z0 * yv, e)
    BY <2>4, BackStep
  <2> QED
    BY <2>1, <2>3, <2>5 DEF z0, yv
<1>9. \A i \in 1..hi : i \in T
  <2>1. 1 \in Int /\ hi \in Int
    OBVIOUS
  <2> HIDE DEF T
  <2> QED
    BY <2>1, <1>7, <1>8, Downward, Zenon
<1> QED
  BY <1>1, <1>9
-----------------------------------------------------------------------------
\* What is known of one entry: q, the point it is on the curve of g, and h, its whole z.
EntryAt(a, g, q) ==
    LET h == FeMul(a.z, g)
    IN  /\ a \in Gej /\ a.inf = FALSE /\ a.z \in ZScales /\ a.z.v \in Int /\ g.v \in Int
        /\ h \in ZScales /\ h.v \in Int /\ Eq(h.v, a.z.v * g.v) /\ h.m <= 1
        /\ q \in CurvePoints /\ q[1] \in Int /\ q[2] \in Int
        /\ IsoGe(GeSetXy(a.x, a.y), h, q)
        /\ Stands(a.x, q[1] * h.v * h.v, 6) /\ Stands(a.y, q[2] * h.v * h.v * h.v, 4)

\* Every entry of a table is one.
LEMMA EntryIs ==
    ASSUME NEW a, NEW g \in ZScales, NEW m \in Int, OnTimes(a, g, m), Times(m) \in CurvePoints
    PROVE  EntryAt(a, g, Times(m))
<1> DEFINE q == Times(m)
           h == FeMul(a.z, g)
           b == GeSetXy(a.x, a.y)
<1>1. a \in Gej /\ a.inf = FALSE /\ a.z \in ZScales /\ IsoGe(b, h, q) /\ q \in CurvePoints
  BY OnTimesFinite
<1>2. h \in ZScales /\ h.v \in Int /\ Eq(h.v, a.z.v * g.v) /\ h.m <= 1 /\ a.z.v \in Int /\ g.v \in Int
  BY <1>1, ScalesMul
<1>3. q[1] \in Int /\ q[2] \in Int
  BY <1>1, CurvePointFacts
<1>4. b.x = a.x /\ b.y = a.y
  BY DEF GeSetXy
<1> HIDE DEF q, h, b
<1>5. Stands(a.x, q[1] * h.v * h.v, 6) /\ Stands(a.y, q[2] * h.v * h.v * h.v, 4)
  BY <1>1, <1>4 DEF IsoGe
<1> QED
  BY <1>1, <1>2, <1>3, <1>5 DEF EntryAt, q, h, b

\* The table that is handed on: the last z is the whole one.
FinalTable(T, t, g, n) ==
    /\ Len(T.prej) = n /\ T.zr = t.zr
    /\ \A i \in 1..n : T.prej[i] = IF i = n THEN Unscaled(t.prej[n], g) ELSE t.prej[i]

\* odd_multiples_table multiplies the last z by what the others leave out.
LEMMA TableByIs ==
    ASSUME NEW n \in Nat, n >= 1, NEW a, NEW d, NEW k,
           IsoTable(OnIsomorphic(n, a, d), d.z, n, k)
    PROVE  FinalTable(TableBy(n, a, d), OnIsomorphic(n, a, d), d.z, n)
<1> DEFINE t == OnIsomorphic(n, a, d)
           T == TableBy(n, a, d)
           last == [t.prej[n] EXCEPT !.z = FeMul(@, d.z)]
<1>1. t = [prej |-> t.prej, zr |-> t.zr] /\ t.prej = [i \in 1..n |-> t.prej[i]]
  BY DEF IsoTable
<1>2. T = [t EXCEPT !.prej = [t.prej EXCEPT ![n] = last]]
  BY Zenon DEF TableBy
<1>3. last = Unscaled(t.prej[n], d.z)
  BY DEF Unscaled
<1> HIDE DEF t, T, last
<1>4. T.prej = [t.prej EXCEPT ![n] = last] /\ T.zr = t.zr
  BY <1>1, <1>2
<1>5. T.prej = [i \in 1..n |-> IF i = n THEN last ELSE t.prej[i]]
  BY <1>1, <1>4
<1>6. T.prej = [i \in 1..n |-> T.prej[i]]
  BY <1>5
<1>7. Len(T.prej) = n
  BY <1>6, LenOf
<1>8. \A i \in 1..n : T.prej[i] = IF i = n THEN last ELSE t.prej[i]
  BY <1>5
<1> QED
  BY <1>3, <1>4, <1>7, <1>8 DEF FinalTable, t, T

\* The same with the scale of the curve in each z.
LEMMA ScaleStep ==
    ASSUME NEW h \in Int, NEW z \in Int, NEW g \in Int, NEW y \in Int, NEW e \in Int, NEW f \in Int,
           Eq(h, z * g), Eq(z * y, e), Eq(f, e * g)
    PROVE  Eq(h * y, f)
<1> DEFINE m == z * g
           n == z * y
           l == e * g
<1>1. m \in Int /\ n \in Int /\ l \in Int /\ h * y \in Int /\ m * y \in Int /\ n * g \in Int
      /\ m * y = n * g /\ Eq(h, m) /\ Eq(n, e) /\ Eq(f, l)
  OBVIOUS
<1>2. Eq(l, f)
  BY <1>1, EqSym
<1>3. Eq(n * g, l)
  <2> HIDE DEF n
  <2> QED
    BY <1>1, EqScale
<1> HIDE DEF m, n, l
<1>4. Eq(h * y, m * y)
  BY <1>1, EqScale
<1>5. Eq(h * y, n * g)
  BY <1>1, <1>4
<1>6. Eq(h * y, l)
  BY <1>1, <1>3, <1>5, EqTrans
<1> QED
  BY <1>1, <1>2, <1>6, EqTrans

\* The z of the entries, and the ratios between them.
LEMMA TableRatios ==
    ASSUME NEW k \in 1..Order-1, NEW n \in Nat, n >= 2, 2 * n <= Order, NEW g \in ZScales,
           NEW t, IsoTable(t, g, n, k)
    PROVE  /\ \A i \in 1..n : /\ EntryAt(t.prej[i], g, Times((2 * i - 1) * k))
                              /\ t.prej[i].z.v \in Int
           /\ \A i \in 2..n : /\ t.zr[i] \in Ratios /\ t.zr[i].v \in Int
                              /\ Eq(t.prej[i].z.v, t.prej[i - 1].z.v * t.zr[i].v)
<1>1. ASSUME NEW i \in 1..n
      PROVE  EntryAt(t.prej[i], g, Times((2 * i - 1) * k)) /\ t.prej[i].z.v \in Int
  <2> DEFINE m == (2 * i - 1) * k
  <2>1. m \in Int /\ Times(m) \in CurvePoints
    BY OddBelow, FiniteTimes
  <2>2. OnTimes(t.prej[i], g, m)
    BY DEF IsoTable
  <2> HIDE DEF m
  <2>3. EntryAt(t.prej[i], g, Times(m))
    BY <2>1, <2>2, EntryIs
  <2> QED
    BY <2>3 DEF EntryAt, m
<1>2. ASSUME NEW i \in 2..n
      PROVE  /\ t.zr[i] \in Ratios /\ t.zr[i].v \in Int
             /\ Eq(t.prej[i].z.v, t.prej[i - 1].z.v * t.zr[i].v)
  BY DEF IsoTable, Ratios
<1> QED
  BY <1>1, <1>2
-----------------------------------------------------------------------------
\* A table of n odd multiples of k * G, all on the curve of one z.
GlobalTable(tab, z, n, k) ==
    /\ z \in ZScales /\ tab = [i \in 1..n |-> tab[i]]
    /\ \A i \in 1..n : IsoGe(tab[i], z, Times((2 * i - 1) * k))

\* One entry is brought to the z of the last.
LEMMA EntryMoves ==
    ASSUME NEW a, NEW c, NEW g \in ZScales, NEW q, NEW p, EntryAt(a, g, q), EntryAt(c, g, p),
           NEW f \in Ratios, Eq(a.z.v * f.v, c.z.v)
    PROVE  IsoGe(GeSetGejZinv(a, f), FeMul(c.z, g), q)
<1> DEFINE h == FeMul(a.z, g)
           l == FeMul(c.z, g)
<1>1. /\ h.v \in Int /\ a.z.v \in Int /\ g.v \in Int /\ Eq(h.v, a.z.v * g.v) /\ a.inf = FALSE
      /\ q[1] \in Int /\ q[2] \in Int
      /\ Stands(a.x, q[1] * h.v * h.v, 6) /\ Stands(a.y, q[2] * h.v * h.v * h.v, 4)
  BY DEF EntryAt
<1>2. l \in ZScales /\ l.v \in Int /\ c.z.v \in Int /\ Eq(l.v, c.z.v * g.v)
  BY DEF EntryAt
<1>3. f.v \in Int /\ Stands(f, f.v, 8)
  BY RatioFacts
<1> DEFINE hv == h.v
           av == a.z.v
           gv == g.v
           fv == f.v
           cv == c.z.v
           lv == l.v
<1>4. hv \in Int /\ av \in Int /\ gv \in Int /\ fv \in Int /\ cv \in Int /\ lv \in Int
      /\ Eq(hv, av * gv) /\ Eq(av * fv, cv) /\ Eq(lv, cv * gv)
  BY <1>1, <1>2, <1>3
<1> HIDE DEF h, l
<1>5. Eq(hv * fv, lv)
  <2> HIDE DEF hv, av, gv, fv, cv, lv
  <2> QED
    BY <1>4, ScaleStep
<1>6. Stands(a.y, q[2] * hv * hv * hv, 6)
  BY <1>1 DEF Stands, Fe
<1>7. q[1] \in Int /\ q[2] \in Int /\ hv \in Int /\ fv \in Int /\ l \in ZScales /\ a.inf = FALSE
      /\ Stands(a.x, q[1] * hv * hv, 6) /\ Stands(a.y, q[2] * hv * hv * hv, 6)
      /\ Stands(f, fv, 8) /\ Eq(hv * fv, l.v)
  BY <1>1, <1>2, <1>3, <1>5, <1>6
<1> HIDE DEF hv, fv
<1>8. IsoGe(GeSetGejZinv(a, f), l, q)
  BY <1>7, IsoZinv
<1> QED
  BY <1>8 DEF l

\* ge_globalz_set_table_gej: all entries are on the curve of the z it returns.
LEMMA GlobalzIs ==
    ASSUME NEW k \in 1..Order-1, NEW n \in Nat, n >= 2, 2 * n <= Order, NEW g \in ZScales,
           NEW t, IsoTable(t, g, n, k), NEW T, FinalTable(T, t, g, n)
    PROVE  LET r == GeGlobalzSetTableGej(T.prej, T.zr)
           IN  GlobalTable(r.pre, r.globalz, n, k)
<1> DEFINE r == GeGlobalzSetTableGej(T.prej, T.zr)
           z == FeMul(t.prej[n].z, g)
           hi == n - 1
           zs == Back(t.zr[n], t.zr, hi)
           Z == [i \in 1..hi |-> t.prej[i].z.v]
           q(i) == Times((2 * i - 1) * k)
<1>1. /\ \A i \in 1..n : EntryAt(t.prej[i], g, q(i)) /\ t.prej[i].z.v \in Int
      /\ \A i \in 2..n : /\ t.zr[i] \in Ratios /\ t.zr[i].v \in Int
                         /\ Eq(t.prej[i].z.v, t.prej[i - 1].z.v * t.zr[i].v)
  BY TableRatios
<1>2. Len(T.prej) = n /\ T.zr = t.zr
      /\ T.prej[n] = Unscaled(t.prej[n], g) /\ \A i \in 1..n : i # n => T.prej[i] = t.prej[i]
  BY DEF FinalTable
<1>3. n \in 1..n /\ n \in 2..n /\ hi \in Nat /\ hi >= 1 /\ hi \in 1..hi /\ hi \in 1..n /\ hi = n - 1
  OBVIOUS
<1>4. EntryAt(t.prej[n], g, q(n))
  BY <1>1, <1>3
<1>5. t.prej[n] \in Gej /\ z \in ZScales
  BY <1>4 DEF EntryAt
<1>6. T.prej[n].z = z /\ T.prej[n].x = t.prej[n].x /\ T.prej[n].y = t.prej[n].y
  BY <1>2, <1>5 DEF Unscaled, Gej
<1> DEFINE tab == [i \in 1..n |-> IF i = n THEN [x |-> T.prej[i].x, y |-> T.prej[i].y, inf |-> FALSE]
                                  ELSE GeSetGejZinv(T.prej[i], zs[i])]
<1>7. r = [globalz |-> T.prej[n].z, pre |-> tab]
  <2> DEFINE len == Len(T.prej)
  <2>1. r = [globalz |-> T.prej[len].z,
             pre |-> [i \in 1..len |-> IF i = len THEN [x |-> T.prej[i].x, y |-> T.prej[i].y, inf |-> FALSE]
                                  ELSE GeSetGejZinv(T.prej[i], Back(T.zr[len], T.zr, len - 1)[i])]]
    BY Zenon DEF GeGlobalzSetTableGej, Back
  <2>2. len = n
    BY <1>2
  <2> HIDE DEF len, r
  <2>3. r = [globalz |-> T.prej[n].z,
             pre |-> [i \in 1..n |-> IF i = n THEN [x |-> T.prej[i].x, y |-> T.prej[i].y, inf |-> FALSE]
                                  ELSE GeSetGejZinv(T.prej[i], Back(T.zr[n], T.zr, n - 1)[i])]]
    BY <2>1, <2>2
  <2> QED
    BY <1>2, <2>3
<1> HIDE DEF r, q
<1>8. IsoGe(tab[n], z, q(n))
  <2>1. tab[n] = GeSetXy(t.prej[n].x, t.prej[n].y)
    <3> HIDE DEF zs
    <3> QED
      BY <1>3, <1>6 DEF GeSetXy
  <2> QED
    BY <1>4, <2>1 DEF EntryAt
<1>9. \A i \in 1..hi : zs[i] \in Ratios /\ Eq(Z[i] * zs[i].v, t.prej[n].z.v)
  <2> DEFINE e == t.prej[n].z.v
             f0 == t.zr[n]
             zr == t.zr
  <2>1. f0 \in Ratios /\ e \in Int /\ \A i \in 2..hi : zr[i] \in Ratios
    BY <1>1, <1>3
  <2>2. \A i \in 1..hi : Z[i] \in Int
    BY <1>1
  <2>3. \A i \in 2..hi : Eq(Z[i], Z[i - 1] * zr[i].v)
    <3>1. ASSUME NEW i \in 2..hi PROVE Eq(Z[i], Z[i - 1] * zr[i].v)
      <4>1. i \in 2..n /\ i \in 1..hi /\ i - 1 \in 1..hi
        OBVIOUS
      <4>2. Z[i] = t.prej[i].z.v /\ Z[i - 1] = t.prej[i - 1].z.v
        BY <4>1
      <4> QED
        BY <1>1, <4>1, <4>2
    <3> QED
      BY <3>1
  <2>4. Eq(Z[hi] * f0.v, e)
    <3>1. Eq(e, t.prej[n - 1].z.v * f0.v) /\ f0.v \in Int /\ Z[hi] = t.prej[n - 1].z.v
      BY <1>1, <1>3
    <3> DEFINE m == Z[hi] * f0.v
    <3>2. m \in Int /\ Eq(e, m)
      BY <3>1, <2>2, <1>3
    <3> HIDE DEF m, e
    <3>3. Eq(m, e)
      BY <2>1, <3>2, EqSym
    <3> QED
      BY <3>3 DEF m
  <2> HIDE DEF Z, f0, zr, e, hi
  <2>5. \A i \in 1..hi : Back(f0, zr, hi)[i] \in Ratios /\ Eq(Z[i] * Back(f0, zr, hi)[i].v, e)
    BY <1>3, <2>1, <2>2, <2>3, <2>4, BackIs
  <2> QED
    BY <2>5 DEF f0, zr, e
<1>10. ASSUME NEW i \in 1..n, i # n PROVE IsoGe(tab[i], z, q(i))
  <2>1. i \in 1..hi
    BY <1>10
  <2>2. zs[i] \in Ratios /\ Eq(t.prej[i].z.v * zs[i].v, t.prej[n].z.v)
    <3>1. Z[i] = t.prej[i].z.v
      BY <2>1
    <3> HIDE DEF zs, Z, hi
    <3> QED
      BY <1>9, <2>1, <3>1
  <2> HIDE DEF zs
  <2>3. tab[i] = GeSetGejZinv(t.prej[i], zs[i])
    BY <1>2, <1>10
  <2>4. EntryAt(t.prej[i], g, q(i))
    BY <1>1
  <2>5. IsoGe(GeSetGejZinv(t.prej[i], zs[i]), z, q(i))
    BY <1>4, <2>2, <2>4, EntryMoves
  <2> QED
    BY <2>3, <2>5
<1>11. \A i \in 1..n : IsoGe(tab[i], z, q(i))
  <2> HIDE DEF tab
  <2> QED
    BY <1>8, <1>10
<1>12. tab = [i \in 1..n |-> tab[i]]
  BY DEF tab
<1> HIDE DEF tab, z
<1>13. r.pre = tab /\ r.globalz = z
  BY <1>6, <1>7
<1> QED
  BY <1>5, <1>11, <1>12, <1>13 DEF GlobalTable, q, r, z
-----------------------------------------------------------------------------
\* fe_inv gives the inverse of a scale.
LEMMA InverseIs ==
    ASSUME NEW z \in ZScales
    PROVE  FeInv(z) \in Ratios /\ Eq(z.v * FeInv(z).v, 1)
<1>1. z.v \in Int /\ Stands(z, z.v, 2) /\ ~Eq(z.v, 0)
  BY ScaleFacts
<1> DEFINE n == z.v
           w == FeInv(z).v
           o == 1
<1>2. FeInv(z) \in Fe /\ FeInv(z).m <= 1 /\ \E k \in Int : Eq(n * k, 1) /\ Stands(FeInv(z), k, 1)
  BY <1>1, StandsInv
<1>3. FeInv(z) \in Ratios
  BY <1>2 DEF Ratios, Fe
<1>4. w \in Int
  BY <1>3, RatioFacts
<1>5. PICK k \in Int : Eq(n * k, o) /\ Eq(w, k)
  BY <1>2 DEF Stands
<1>6. n \in Int /\ n * k \in Int /\ n * w \in Int /\ o \in Int
  BY <1>1, <1>4
<1> HIDE DEF n, w, o
<1>7. Eq(n * w, n * k)
  BY <1>4, <1>5, <1>6, EqScale
<1>8. Eq(n * w, o)
  BY <1>5, <1>6, <1>7, EqTrans
<1> QED
  BY <1>3, <1>8 DEF n, w, o

\* One entry is brought to affine coordinates.
LEMMA EntryToAffine ==
    ASSUME NEW a, NEW b, NEW g \in ZScales, NEW q, EntryAt(a, g, q), b.x = a.x, b.y = a.y, b.inf = FALSE,
           NEW f \in Ratios, Eq(FeMul(a.z, g).v * f.v, 1)
    PROVE  GeToStorage(GeSetGejZinv(b, f)) = StorageOf(q)
<1> DEFINE hv == FeMul(a.z, g).v
           fv == f.v
           r == GeSetGejZinv(b, f)
<1>1. /\ hv \in Int /\ q \in CurvePoints /\ q[1] \in Int /\ q[2] \in Int
      /\ Stands(b.x, q[1] * hv * hv, 6) /\ Stands(b.y, q[2] * hv * hv * hv, 4)
  BY DEF EntryAt
<1>2. fv \in Int /\ Stands(f, fv, 8)
  BY RatioFacts
<1>3. Stands(b.x, q[1] * hv * hv, 8) /\ Stands(b.y, q[2] * hv * hv * hv, 8)
  BY <1>1 DEF Stands, Fe
<1>4. /\ hv \in Int /\ fv \in Int /\ q[1] \in Int /\ q[2] \in Int /\ Eq(hv * fv, 1)
      /\ Stands(b.x, q[1] * hv * hv, 8) /\ Stands(b.y, q[2] * hv * hv * hv, 8)
      /\ Stands(f, fv, 8) /\ b.inf \in BOOLEAN
  BY <1>1, <1>2, <1>3
<1> HIDE DEF hv, fv
<1>5. Stands(r.x, q[1], 1) /\ Stands(r.y, q[2], 1)
  BY <1>4, ZinvFormula
<1> HIDE DEF r
<1>6. Stands(r.x, q[1], 2) /\ Stands(r.y, q[2], 2)
  BY <1>5 DEF Stands, Fe
<1>7. GeToStorage(r) = StorageOf(q)
  BY <1>1, <1>6, GeToStorageIs
<1> QED
  BY <1>7 DEF r

\* z of one entry and of the one before it, with the scale the whole table shares.
LEMMA WholeRatio ==
    ASSUME NEW a, NEW c, NEW g \in ZScales, NEW q, NEW p, EntryAt(a, g, q), EntryAt(c, g, p),
           NEW f \in Ratios, Eq(a.z.v, c.z.v * f.v)
    PROVE  Eq(FeMul(a.z, g).v, FeMul(c.z, g).v * f.v)
<1> DEFINE h == FeMul(a.z, g).v
           l == FeMul(c.z, g).v
           av == a.z.v
           cv == c.z.v
           gv == g.v
           fv == f.v
           m == cv * fv
           n == l * fv
<1>1. h \in Int /\ l \in Int /\ av \in Int /\ cv \in Int /\ gv \in Int
      /\ Eq(h, av * gv) /\ Eq(l, cv * gv)
  BY DEF EntryAt
<1>2. fv \in Int
  BY RatioFacts
<1>3. m \in Int /\ n \in Int /\ Eq(av, m)
  BY <1>1, <1>2
<1>4. Eq(m, av)
  <2> HIDE DEF m, av
  <2> QED
    BY <1>1, <1>3, EqSym
<1> HIDE DEF h, l, av, cv, gv, fv
<1>5. Eq(n, h)
  BY <1>1, <1>2, <1>4, ScaleStep
<1>6. Eq(h, n)
  <2> HIDE DEF n
  <2> QED
    BY <1>1, <1>3, <1>5, EqSym
<1> QED
  BY <1>6 DEF h, l, fv

\* ge_set_table_gej_var: one inversion, and every entry is affine.
LEMMA SetTableIs ==
    ASSUME NEW k \in 1..Order-1, NEW n \in Nat, n >= 2, 2 * n <= Order, NEW g \in ZScales,
           NEW t, IsoTable(t, g, n, k), NEW T, FinalTable(T, t, g, n)
    PROVE  \A i \in 1..n : GeToStorage(GeSetTableGejVar(T.prej, T.zr)[i])
                             = StorageOf(Times((2 * i - 1) * k))
<1> DEFINE r == GeSetTableGejVar(T.prej, T.zr)
           z == FeMul(t.prej[n].z, g)
           f0 == FeInv(z)
           zr == t.zr
           zi == Back(f0, zr, n)
           Z == [i \in 1..n |-> FeMul(t.prej[i].z, g).v]
           q(i) == Times((2 * i - 1) * k)
<1>1. /\ \A i \in 1..n : EntryAt(t.prej[i], g, q(i)) /\ t.prej[i].z.v \in Int
      /\ \A i \in 2..n : /\ zr[i] \in Ratios /\ zr[i].v \in Int
                         /\ Eq(t.prej[i].z.v, t.prej[i - 1].z.v * zr[i].v)
  BY TableRatios
<1>2. Len(T.prej) = n /\ T.zr = zr
      /\ T.prej[n] = Unscaled(t.prej[n], g) /\ \A i \in 1..n : i # n => T.prej[i] = t.prej[i]
  BY DEF FinalTable
<1>3. n \in 1..n /\ n >= 1
  OBVIOUS
<1>4. t.prej[n] \in Gej /\ z \in ZScales
  BY <1>1, <1>3 DEF EntryAt
<1>5. T.prej[n].z = z /\ T.prej[n].x = t.prej[n].x /\ T.prej[n].y = t.prej[n].y
      /\ T.prej[n].inf = t.prej[n].inf
  BY <1>2, <1>4 DEF Unscaled, Gej
<1>6. \A i \in 1..n : T.prej[i].x = t.prej[i].x /\ T.prej[i].y = t.prej[i].y /\ T.prej[i].inf = FALSE
  <2>1. \A i \in 1..n : t.prej[i].inf = FALSE
    BY <1>1 DEF EntryAt
  <2> QED
    BY <1>2, <1>5, <2>1, <1>3
<1>7. \A i \in 1..n : r[i] = GeSetGejZinv(T.prej[i], zi[i])
  <2> DEFINE len == Len(T.prej)
  <2>1. r = [i \in 1..len |-> GeSetGejZinv(T.prej[i], Back(FeInv(T.prej[len].z), T.zr, len)[i])]
    BY Zenon DEF GeSetTableGejVar, Back
  <2>2. len = n
    BY <1>2
  <2> HIDE DEF len, r
  <2>3. r = [i \in 1..n |-> GeSetGejZinv(T.prej[i], Back(FeInv(T.prej[n].z), T.zr, n)[i])]
    BY <2>1, <2>2
  <2>4. r = [i \in 1..n |-> GeSetGejZinv(T.prej[i], zi[i])]
    BY <2>3, <1>2, <1>5
  <2> HIDE DEF zi
  <2> QED
    BY <2>4
<1> HIDE DEF r, q
<1>8. f0 \in Ratios /\ Eq(z.v * f0.v, 1)
  BY <1>4, InverseIs
<1>9. \A i \in 1..n : zi[i] \in Ratios /\ Eq(Z[i] * zi[i].v, 1)
  <2> DEFINE e == 1
  <2>1. e \in Int /\ \A i \in 2..n : zr[i] \in Ratios
    BY <1>1
  <2>2. \A i \in 1..n : Z[i] \in Int
    BY <1>1 DEF EntryAt
  <2>3. \A i \in 2..n : Eq(Z[i], Z[i - 1] * zr[i].v)
    <3>1. ASSUME NEW i \in 2..n PROVE Eq(Z[i], Z[i - 1] * zr[i].v)
      <4>1. i \in 1..n /\ i - 1 \in 1..n
        OBVIOUS
      <4>2. Z[i] = FeMul(t.prej[i].z, g).v /\ Z[i - 1] = FeMul(t.prej[i - 1].z, g).v
        BY <4>1
      <4>3. EntryAt(t.prej[i], g, q(i)) /\ EntryAt(t.prej[i - 1], g, q(i - 1)) /\ zr[i] \in Ratios
            /\ Eq(t.prej[i].z.v, t.prej[i - 1].z.v * zr[i].v)
        BY <1>1, <4>1
      <4>4. Eq(FeMul(t.prej[i].z, g).v, FeMul(t.prej[i - 1].z, g).v * zr[i].v)
        <5> HIDE DEF zr
        <5> QED
          BY <4>3, WholeRatio
      <4> QED
        BY <4>2, <4>4
    <3> QED
      BY <3>1
  <2>4. Eq(Z[n] * f0.v, e)
    <3>1. Z[n] = z.v
      BY <1>3
    <3> HIDE DEF Z, f0, z
    <3> QED
      BY <1>8, <3>1
  <2> HIDE DEF Z, f0, zr, e
  <2>5. \A i \in 1..n : Back(f0, zr, n)[i] \in Ratios /\ Eq(Z[i] * Back(f0, zr, n)[i].v, e)
    BY <1>3, <1>8, <2>1, <2>2, <2>3, <2>4, BackIs
  <2> QED
    BY <2>5 DEF e
<1>10. ASSUME NEW i \in 1..n PROVE GeToStorage(r[i]) = StorageOf(q(i))
  <2>1. zi[i] \in Ratios /\ Eq(FeMul(t.prej[i].z, g).v * zi[i].v, 1)
    <3>1. Z[i] = FeMul(t.prej[i].z, g).v
      OBVIOUS
    <3> HIDE DEF Z, zi
    <3> QED
      BY <1>9, <3>1
  <2> HIDE DEF zi
  <2> DEFINE a == t.prej[i]
             b == T.prej[i]
             f == zi[i]
             point == q(i)
  <2>2. EntryAt(a, g, point) /\ b.x = a.x /\ b.y = a.y /\ b.inf = FALSE
        /\ f \in Ratios /\ Eq(FeMul(a.z, g).v * f.v, 1)
    BY <1>1, <1>6, <2>1
  <2> HIDE DEF a, b, f, point
  <2>3. GeToStorage(GeSetGejZinv(b, f)) = StorageOf(point)
    BY <2>2, EntryToAffine, ZenonT(60)
  <2> QED
    BY <1>7, <2>3 DEF b, f, point
<1> QED
  BY <1>10 DEF q, r
-----------------------------------------------------------------------------
\* A table of a window has half as many entries as its digits have values, less than the order.
LEMMA TableSizes ==
    ASSUME NEW w \in Nat, w > 2, Pow2[w - 1] < Order
    PROVE  /\ TableSize(w) \in Nat /\ TableSize(w) >= 2 /\ 2 * TableSize(w) <= Order
           /\ 2 * TableSize(w) = Pow2[w - 1]
<1>1. w - 2 \in Nat /\ w - 1 \in Nat /\ w - 1 # 0 /\ w - 2 # 0 /\ (w - 1) - 1 = w - 2
  OBVIOUS
<1>2. Pow2[w - 2] \in Nat /\ Pow2[w - 2] >= 2
  BY <1>1, Pow2Facts
<1>3. Pow2[w - 1] = 2 * Pow2[w - 2]
  BY <1>1, Pow2Facts
<1> QED
  BY <1>2, <1>3, OrderFacts DEF TableSize

\* The table of secp256k1_ecmult for A = k * G.
LEMMA GlobalTableOf ==
    ASSUME NEW k \in 1..Order-1, NEW a, GejIs(a, Times(k))
    PROVE  LET t == odd_multiples_table_globalz(a)
           IN  GlobalTable(t.pre, t.globalz, TableSize(WindowA), k)
<1> DEFINE n == TableSize(WindowA)
           d == GejDoubleVar(a).r
           T == TableBy(n, a, d)
<1>1. n \in Nat /\ n >= 2 /\ 2 * n <= Order /\ n >= 1
  BY WindowAssumption, TableSizes
<1>2. odd_multiples_table_globalz(a) = GeGlobalzSetTableGej(T.prej, T.zr)
  BY DEF odd_multiples_table_globalz, odd_multiples_table
<1> HIDE DEF n
<1>3. d.z \in ZScales /\ IsoTable(OnIsomorphic(n, a, d), d.z, n, k)
  BY <1>1, OnIsomorphicIs
<1> HIDE DEF d
<1>4. FinalTable(T, OnIsomorphic(n, a, d), d.z, n)
  BY <1>1, <1>3, TableByIs
<1> HIDE DEF T
<1> QED
  BY <1>1, <1>2, <1>3, <1>4, GlobalzIs DEF n

\* A table that is kept: of k * G, entry by entry, in storage.
LEMMA StorageTableOf ==
    ASSUME NEW k \in 1..Order-1, NEW a, GejIs(a, Times(k)), NEW n \in Nat, n >= 2, 2 * n <= Order
    PROVE  \A i \in 1..n : odd_multiples_table_storage(n, a)[i] = StorageOf(Times((2 * i - 1) * k))
<1> DEFINE d == GejDoubleVar(a).r
           T == TableBy(n, a, d)
           R == GeSetTableGejVar(T.prej, T.zr)
<1>1. n >= 1
  OBVIOUS
<1>2. odd_multiples_table_storage(n, a) = [i \in 1..n |-> GeToStorage(R[i])]
  BY Zenon DEF odd_multiples_table_storage, odd_multiples_table
<1>3. d.z \in ZScales /\ IsoTable(OnIsomorphic(n, a, d), d.z, n, k)
  BY <1>1, OnIsomorphicIs
<1> HIDE DEF d
<1>4. FinalTable(T, OnIsomorphic(n, a, d), d.z, n)
  BY <1>1, <1>3, TableByIs
<1> HIDE DEF T
<1>5. \A i \in 1..n : GeToStorage(R[i]) = StorageOf(Times((2 * i - 1) * k))
  BY <1>3, <1>4, SetTableIs
<1> HIDE DEF R
<1> QED
  BY <1>2, <1>5

\* The table of the context is that of the odd multiples of G.
LEMMA PreGIs ==
    \A i \in 1..TableSize(WindowG) : pre_g[i] = StorageOf(Times(2 * i - 1))
<1> DEFINE n == TableSize(WindowG)
           a == GejSetGe(GeConstG)
           o == 1
<1>1. n \in Nat /\ n >= 2 /\ 2 * n <= Order
  BY WindowAssumption, TableSizes
<1>2. o \in 1..Order-1 /\ GejIs(a, Times(o))
  BY GeneratorIs, OrderFacts DEF GejTimes
<1>3. pre_g = odd_multiples_table_storage(n, a)
  BY DEF pre_g
<1>4. \A i \in 1..n : (2 * i - 1) * o = 2 * i - 1
  BY <1>1
<1> HIDE DEF n, a, o
<1>5. \A i \in 1..n : pre_g[i] = StorageOf(Times((2 * i - 1) * o))
  BY <1>1, <1>2, <1>3, StorageTableOf
<1> QED
  BY <1>4, <1>5 DEF n
-----------------------------------------------------------------------------
\* A digit, its absolute value and where a table has it.
Absolute(d) == IF d > 0 THEN d ELSE -d
PlaceOf(d) == (Absolute(d) - 1) \div 2 + 1
\* A digit that a table of n entries has an entry for.
DigitOf(d, n) == d \in Int /\ d % 2 = 1 /\ d < 2 * n /\ -d < 2 * n

\* A digit of the window has an entry, by either way of counting it.
LEMMA DigitPlace ==
    ASSUME NEW n \in Nat, n >= 2, 2 * n <= Order, NEW d, DigitOf(d, n)
    PROVE  LET m == Absolute(d)
               i == PlaceOf(d)
           IN  /\ m \in 1..Order-1 /\ i \in 1..n /\ 2 * i - 1 = m /\ m \div 2 + 1 = i /\ i \in Int
               /\ d = m \/ d = -m
               /\ d > 0 => d = m /\ i = (d - 1) \div 2 + 1
               /\ ~(d > 0) => m = -d /\ d # m /\ i = (-d - 1) \div 2 + 1
<1> DEFINE m == Absolute(d)
<1>1. d \in Int /\ d % 2 = 1 /\ d < 2 * n /\ -d < 2 * n
  BY DEF DigitOf
<1>2. m \in Int /\ m % 2 = 1 /\ m < 2 * n /\ m > 0
      /\ (d > 0 => d = m) /\ (~(d > 0) => m = -d /\ d # m)
  BY <1>1 DEF Absolute
<1>3. m \in 1..Order-1
  BY <1>2, OrderFacts
<1> HIDE DEF m
<1>4. /\ (m - 1) \div 2 + 1 \in 1..n /\ 2 * ((m - 1) \div 2 + 1) - 1 = m
      /\ m \div 2 + 1 = (m - 1) \div 2 + 1
  BY <1>2
<1>5. PlaceOf(d) = (m - 1) \div 2 + 1
  BY DEF PlaceOf, m
<1>7. /\ PlaceOf(d) \in 1..n /\ 2 * PlaceOf(d) - 1 = m /\ m \div 2 + 1 = PlaceOf(d)
      /\ PlaceOf(d) \in Int
  BY <1>4, <1>5
<1>8. d > 0 => d = m /\ PlaceOf(d) = (d - 1) \div 2 + 1
  BY <1>2, <1>5
<1>9. ~(d > 0) => m = -d /\ d # m /\ PlaceOf(d) = (-d - 1) \div 2 + 1
  BY <1>2, <1>5
<1>10. d = m \/ d = -m
  BY <1>1, <1>2
<1> QED
  BY <1>3, <1>7, <1>8, <1>9, <1>10 DEF m

\* What a digit of the table's window stands for.
LEMMA DigitTimes ==
    ASSUME NEW k \in 1..Order-1, NEW n \in Nat, n >= 2, 2 * n <= Order, NEW d, DigitOf(d, n)
    PROVE  LET q == Times((2 * PlaceOf(d) - 1) * k)
           IN  /\ d * k \in Int /\ Times(d * k) \in CurvePoints /\ q \in CurvePoints
               /\ d > 0 => Times(d * k) = q
               /\ ~(d > 0) => Plus(q, Times(d * k)) = Infinity
<1> DEFINE m == Absolute(d)
           i == PlaceOf(d)
           c == m * k
           e == d * k
<1>1. m \in 1..Order-1 /\ 2 * i - 1 = m /\ (d > 0 => d = m) /\ (~(d > 0) => m = -d) /\ d \in Int
  BY DigitPlace DEF DigitOf
<1>2. c \in Int /\ Times(c) \in CurvePoints /\ -m * k \in Int /\ Times(-m * k) \in CurvePoints
  BY <1>1, FiniteTimes
<1>3. (2 * i - 1) * k = c
  BY <1>1
<1>4. (d > 0 => e = c) /\ (~(d > 0) => e = -m * k /\ e = -c)
  <2>1. k \in Int /\ m \in Int
    BY <1>1
  <2> HIDE DEF m, i
  <2> QED
    BY <1>1, <2>1
<1>5. Plus(Times(c), Times(-c)) = Infinity
  <2> HIDE DEF c
  <2> QED
    BY <1>2, TimesOpposite
<1>6. e \in Int /\ Times(e) \in CurvePoints
  <2> HIDE DEF m, e, c
  <2> QED
    BY <1>2, <1>4
<1> HIDE DEF c, e, m
<1> QED
  BY <1>2, <1>3, <1>4, <1>5, <1>6 DEF e

\* The opposite of a point on the curve of g: y is negated,
LEMMA IsoNeg ==
    ASSUME NEW b, NEW g \in ZScales, NEW p \in CurvePoints, NEW q \in CurvePoints,
           Plus(p, q) = Infinity, IsoGe(b, g, p), NEW y, Stands(y, -(p[2] * g.v * g.v * g.v), 4)
    PROVE  IsoGe([b EXCEPT !.y = y], g, q)
<1> DEFINE r == [b EXCEPT !.y = y]
           v == g.v
           n == p[2] * v * v * v
           o == q[2] * v * v * v
           t == v * v * v
           u == -p[2]
<1>1. p[1] \in Int /\ p[2] \in Int /\ q[1] \in Int /\ q[2] \in Int /\ v \in Int
      /\ p \in GroupPoints /\ q \in GroupPoints /\ p # Infinity
  BY CurvePointFacts, ScaleFacts
<1>2. p[1] = q[1] /\ Eq(u, q[2])
  BY <1>1, OppositePoints
<1>3. b \in Ge /\ b.inf = FALSE /\ Stands(b.x, p[1] * v * v, 6)
  BY DEF IsoGe
<1>4. Stands(y, -n, 4)
  OBVIOUS
<1>5. -n \in Int /\ o \in Int /\ t \in Int /\ u \in Int /\ u * t = -n /\ q[2] * t = o
  <2> HIDE DEF v
  <2> QED
    BY <1>1
<1>6. Eq(-n, o)
  <2> HIDE DEF t, u, o, n
  <2>1. Eq(u * t, q[2] * t)
    BY <1>1, <1>2, <1>5, EqScale
  <2> QED
    BY <1>5, <2>1
<1> DEFINE l == -n
           f == 4
<1>7. Stands(y, o, 4)
  <2>1. l \in Int /\ o \in Int /\ Stands(y, l, f) /\ Eq(l, o) /\ f \in Int /\ f <= f
    BY <1>4, <1>5, <1>6
  <2> HIDE DEF l, o, f
  <2>2. Stands(y, o, f)
    BY <2>1, StandsEq
  <2> QED
    BY <2>2 DEF f
<1>8. y \in Fe
  BY <1>7 DEF Stands
<1>9. r \in Ge /\ r.inf = FALSE /\ r.x = b.x /\ r.y = y
  BY <1>3, <1>8 DEF Ge
<1> HIDE DEF r
<1> QED
  BY <1>2, <1>3, <1>7, <1>9 DEF IsoGe, r

\* as ge_neg does.
LEMMA GeNegIso ==
    ASSUME NEW b, NEW g \in ZScales, NEW p \in CurvePoints, NEW q \in CurvePoints,
           Plus(p, q) = Infinity, IsoGe(b, g, p)
    PROVE  IsoGe(GeNeg(b), g, q)
<1> DEFINE n == p[2] * g.v * g.v * g.v
           y == FeNegate(FeNormalizeWeak(b.y), 1)
           l == -n
<1>1. p[2] \in Int /\ g.v \in Int
  BY CurvePointFacts, ScaleFacts
<1>2. n \in Int /\ l \in Int /\ l = -n
  BY <1>1
<1>3. Stands(b.y, n, 4)
  BY DEF IsoGe
<1> HIDE DEF n
<1>4. Stands(y, l, 2)
  <2> HIDE DEF l
  <2> QED
    BY <1>2, <1>3, StandsOpposite
<1>5. Stands(y, l, 4)
  BY <1>4 DEF Stands, Fe
<1>6. GeNeg(b) = [b EXCEPT !.y = y]
  BY DEF GeNeg
<1> HIDE DEF y
<1>7. Stands(y, -(p[2] * g.v * g.v * g.v), 4)
  BY <1>5 DEF n
<1>8. IsoGe([b EXCEPT !.y = y], g, q)
  BY <1>7, IsoNeg
<1> QED
  BY <1>6, <1>8

\* ECMULT_TABLE_GET_GE: the entry of a digit d is d * A on the curve of the table.
LEMMA TableGetGeIs ==
    ASSUME NEW k \in 1..Order-1, NEW n \in Nat, n >= 2, 2 * n <= Order, NEW tab, NEW z,
           GlobalTable(tab, z, n, k), NEW d, DigitOf(d, n)
    PROVE  IsoGe(TableGetGe(tab, d), z, Times(d * k)) /\ Times(d * k) \in CurvePoints /\ d * k \in Int
<1> DEFINE i == PlaceOf(d)
           q == Times((2 * i - 1) * k)
           e == d * k
<1>1. /\ i \in 1..n
      /\ d > 0 => i = (d - 1) \div 2 + 1
      /\ ~(d > 0) => i = (-d - 1) \div 2 + 1
  BY DigitPlace
<1>2. /\ e \in Int /\ Times(e) \in CurvePoints /\ q \in CurvePoints
      /\ d > 0 => Times(e) = q
      /\ ~(d > 0) => Plus(q, Times(e)) = Infinity
  BY DigitTimes
<1>3. IsoGe(tab[i], z, q) /\ z \in ZScales
  BY <1>1 DEF GlobalTable
<1>4. TableGetGe(tab, d) = IF d > 0 THEN tab[i] ELSE GeNeg(tab[i])
  BY <1>1 DEF TableGetGe
<1> HIDE DEF i, q, e
<1>5. IsoGe(TableGetGe(tab, d), z, Times(e))
  BY <1>2, <1>3, <1>4, GeNegIso
<1> QED
  BY <1>2, <1>5 DEF e

\* ECMULT_TABLE_GET_GE_STORAGE: the entry of a digit d is d * G.
LEMMA TableGetGeStorageIs ==
    ASSUME NEW d, DigitOf(d, TableSize(WindowG))
    PROVE  GeIs(TableGetGeStorage(pre_g, d), Times(d)) /\ Times(d) \in CurvePoints /\ d \in Int
<1> DEFINE n == TableSize(WindowG)
           i == PlaceOf(d)
           o == 1
           q == Times((2 * i - 1) * o)
           e == d * o
           b == GeFromStorage(pre_g[i])
<1>1. n \in Nat /\ n >= 2 /\ 2 * n <= Order /\ o \in 1..Order-1 /\ DigitOf(d, n)
  BY WindowAssumption, TableSizes, OrderFacts
<1>2. /\ i \in 1..n /\ i \in Int
      /\ d > 0 => i = (d - 1) \div 2 + 1
      /\ ~(d > 0) => i = (-d - 1) \div 2 + 1
  <2> HIDE DEF n
  <2> QED
    BY <1>1, DigitPlace
<1>3. /\ Times(e) \in CurvePoints /\ q \in CurvePoints
      /\ d > 0 => Times(e) = q
      /\ ~(d > 0) => Plus(q, Times(e)) = Infinity
  <2> HIDE DEF n, o
  <2> QED
    BY <1>1, DigitTimes
<1>4. e = d /\ (2 * i - 1) * o = 2 * i - 1 /\ d \in Int
  BY <1>2 DEF DigitOf
<1>5. pre_g[i] = StorageOf(q)
  BY <1>2, <1>4, PreGIs
<1> HIDE DEF n
<1>6. TableGetGeStorage(pre_g, d) = IF d > 0 THEN b ELSE GeNeg(b)
  BY <1>2 DEF TableGetGeStorage
<1> HIDE DEF i, q, e, o
<1>7. GeIs(b, q)
  BY <1>3, <1>5, GeFromStorageIs
<1> HIDE DEF b
<1>8. GeIs(TableGetGeStorage(pre_g, d), Times(e))
  <2>1. q \in GroupPoints /\ Times(e) \in GroupPoints
    BY <1>3 DEF GroupPoints
  <2> QED
    BY <1>3, <1>6, <1>7, <2>1, GeNegIs
<1> QED
  BY <1>3, <1>4, <1>8
-----------------------------------------------------------------------------
\* What the loop of the lookup moves about.
Movable == {b \in Ge : b.inf = FALSE /\ b.x.m <= 6 /\ b.y.m <= 1}
\* One turn of the loop.
Moved(a, b, flag) ==
    [x |-> FeCmov(a.x, b.x, flag), y |-> FeCmov(a.y, b.y, flag), inf |-> FALSE]

\* fe_cmov has one of the two values, and the larger magnitude.
LEMMA CmovKept ==
    ASSUME NEW a \in Fe, NEW b \in Fe, NEW m \in Int, a.m <= m, b.m <= m, NEW flag \in BOOLEAN
    PROVE  /\ FeCmov(a, b, flag) \in Fe /\ FeCmov(a, b, flag).m <= m
           /\ flag => FeCmov(a, b, flag).v = b.v
           /\ ~flag => FeCmov(a, b, flag).v = a.v
  BY MagnitudeAssumption, FieldAssumption DEF FeCmov, Fe, Larger, Broken

\* One turn of that loop.
LEMMA MovedIs ==
    ASSUME NEW a \in Movable, NEW b \in Movable, NEW flag \in BOOLEAN
    PROVE  LET r == Moved(a, b, flag)
           IN  /\ r \in Movable
               /\ flag => r.x.v = b.x.v /\ r.y.v = b.y.v
               /\ ~flag => r.x.v = a.x.v /\ r.y.v = a.y.v
<1> DEFINE r == Moved(a, b, flag)
           s == 6
           o == 1
<1>1. a.x \in Fe /\ b.x \in Fe /\ a.x.m <= s /\ b.x.m <= s /\ s \in Int
      /\ a.y \in Fe /\ b.y \in Fe /\ a.y.m <= o /\ b.y.m <= o /\ o \in Int
  BY DEF Movable, Ge
<1>2. r.x = FeCmov(a.x, b.x, flag) /\ r.y = FeCmov(a.y, b.y, flag) /\ r.inf = FALSE
      /\ r = [x |-> r.x, y |-> r.y, inf |-> FALSE]
  BY DEF Moved
<1> HIDE DEF r, s, o
<1>3. /\ r.x \in Fe /\ r.x.m <= s
      /\ flag => r.x.v = b.x.v
      /\ ~flag => r.x.v = a.x.v
  <2> DEFINE u == a.x
             w == b.x
             t == FeCmov(u, w, flag)
  <2>1. u \in Fe /\ w \in Fe /\ u.m <= s /\ w.m <= s /\ s \in Int
    BY <1>1
  <2> HIDE DEF u, w
  <2>2. /\ t \in Fe /\ t.m <= s
        /\ flag => t.v = w.v
        /\ ~flag => t.v = u.v
    BY <2>1, CmovKept
  <2>3. r.x = t
    BY <1>2 DEF u, w
  <2> HIDE DEF t
  <2> QED
    BY <2>2, <2>3 DEF u, w
<1>4. /\ r.y \in Fe /\ r.y.m <= o
      /\ flag => r.y.v = b.y.v
      /\ ~flag => r.y.v = a.y.v
  <2> DEFINE u == a.y
             w == b.y
             t == FeCmov(u, w, flag)
  <2>1. u \in Fe /\ w \in Fe /\ u.m <= o /\ w.m <= o /\ o \in Int
    BY <1>1
  <2> HIDE DEF u, w
  <2>2. /\ t \in Fe /\ t.m <= o
        /\ flag => t.v = w.v
        /\ ~flag => t.v = u.v
    BY <2>1, CmovKept
  <2>3. r.y = t
    BY <1>2 DEF u, w
  <2> HIDE DEF t
  <2> QED
    BY <2>2, <2>3 DEF u, w
<1>5. r \in Ge
  BY <1>2, <1>3, <1>4 DEF Ge
<1>6. r \in Movable
  BY <1>2, <1>3, <1>4, <1>5 DEF Movable, s, o
<1> QED
  BY <1>3, <1>4, <1>6 DEF r

\* The loop over all entries leaves the one with the index.
LEMMA MoveInIs ==
    ASSUME NEW n \in Nat, NEW tab, tab = [i \in 1..n |-> tab[i]], \A i \in 1..n : tab[i] \in Movable,
           NEW j \in 1..n, NEW index \in Int, index + 1 = j
    PROVE  LET r == MoveIn(tab, index)
           IN  r \in Movable /\ r.x.v = tab[j].x.v /\ r.y.v = tab[j].y.v
<1> DEFINE zero == GeSetXy(FeClear, FeClear)
           Step(a, m) == [x |-> FeCmov(a.x, tab[m].x, m - 1 = index),
                          y |-> FeCmov(a.y, tab[m].y, m - 1 = index), inf |-> FALSE]
           G == [p \in (1..n) \X Movable |-> Step(p[2], p[1])]
           F(g) == [m \in 0..n |-> IF m = 0 THEN zero ELSE Step(g[m - 1], m)]
           h == CHOOSE g : g = F(g)
           r == MoveIn(tab, index)
<1>0. Len(tab) = n
  BY LenOf
<1>1. zero \in Movable
  BY FieldAssumption, MagnitudeAssumption DEF GeSetXy, FeClear, Movable, Ge, Fe, Values, Broken
<1>2. r = h[n]
  <2> DEFINE len == Len(tab)
             Fl(g) == [m \in 0..len |-> IF m = 0 THEN zero ELSE Step(g[m - 1], m)]
  <2>1. r = (CHOOSE g : g = Fl(g))[len]
    BY Zenon DEF MoveIn
  <2>2. len = n
    BY <1>0
  <2> HIDE DEF len, r, Step, zero
  <2> QED
    BY <2>1, <2>2
<1>3. ASSUME NEW a \in Movable, NEW m \in 1..n
      PROVE  /\ Step(a, m) \in Movable
             /\ m = j => Step(a, m).x.v = tab[j].x.v /\ Step(a, m).y.v = tab[j].y.v
             /\ m # j => Step(a, m).x.v = a.x.v /\ Step(a, m).y.v = a.y.v
  <2> DEFINE flag == m - 1 = index
             b == tab[m]
  <2>1. b \in Movable /\ flag \in BOOLEAN /\ (flag <=> m = j)
    OBVIOUS
  <2>2. Step(a, m) = Moved(a, b, flag)
    BY DEF Moved
  <2> HIDE DEF flag, b, Step
  <2>3. /\ Moved(a, b, flag) \in Movable
        /\ flag => Moved(a, b, flag).x.v = b.x.v /\ Moved(a, b, flag).y.v = b.y.v
        /\ ~flag => Moved(a, b, flag).x.v = a.x.v /\ Moved(a, b, flag).y.v = a.y.v
    BY <2>1, MovedIs
  <2> QED
    BY <2>1, <2>2, <2>3 DEF b
<1> HIDE DEF Step
<1>4. G \in [(1..n) \X Movable -> Movable]
  BY <1>3
<1>5. PICK f \in [0..n -> Movable] : UpLoop(f, 0, n, zero, G)
  <2>1. n \in Int
    OBVIOUS
  <2> HIDE DEF G, zero
  <2> QED
    BY <1>1, <1>4, <2>1, Loop0, Zenon
<1>6. f = F(f)
  <2>1. \A m \in 0..n : m # 0 => m \in 1..n /\ f[m - 1] \in Movable
    OBVIOUS
  <2>2. \A m \in 0..n : m # 0 => G[<<m, f[m - 1]>>] = Step(f[m - 1], m)
    BY <2>1
  <2> HIDE DEF G, zero
  <2> QED
    BY <1>5, <2>2 DEF UpLoop
<1>7. h = F(h)
  <2> HIDE DEF F
  <2> QED
    BY <1>6
<1>8. h[0] = zero /\ \A m \in 1..n : h[m] = Step(h[m - 1], m)
  <2> HIDE DEF h, zero
  <2> QED
    BY <1>7
<1> DEFINE T == {m \in 0..n : /\ h[m] \in Movable
                              /\ m >= j => h[m].x.v = tab[j].x.v /\ h[m].y.v = tab[j].y.v}
<1> HIDE DEF h, r, zero
<1>9. 0 \in T
  BY <1>1, <1>8
<1>10. ASSUME NEW m \in 0+1..n, m - 1 \in T PROVE m \in T
  <2>1. m \in 1..n /\ m - 1 \in 0..n /\ m \in 0..n /\ h[m - 1] \in Movable
        /\ (m - 1 >= j => h[m - 1].x.v = tab[j].x.v /\ h[m - 1].y.v = tab[j].y.v)
    BY <1>10
  <2>2. /\ h[m] \in Movable
        /\ m = j => h[m].x.v = tab[j].x.v /\ h[m].y.v = tab[j].y.v
        /\ m # j => h[m].x.v = h[m - 1].x.v /\ h[m].y.v = h[m - 1].y.v
    BY <1>3, <1>8, <2>1
  <2>3. m >= j => m = j \/ m - 1 >= j
    BY <2>1
  <2> QED
    BY <2>1, <2>2, <2>3
<1>11. \A m \in 0..n : m \in T
  <2>1. 0 \in Int /\ n \in Int
    OBVIOUS
  <2> HIDE DEF T
  <2> QED
    BY <1>9, <1>10, <2>1, Upward, Zenon
<1>12. n \in T
  BY <1>11
<1> QED
  BY <1>2, <1>12 DEF r
-----------------------------------------------------------------------------
\* The table of secp256k1_ecmult_const, whose y are normalized.
WeakTable(tab, z, n, k) == GlobalTable(tab, z, n, k) /\ \A i \in 1..n : tab[i].y.m <= 1

\* What is moved in has the entry's values.
LEMMA IsoMoved ==
    ASSUME NEW b, NEW g \in ZScales, NEW q, IsoGe(b, g, q), NEW r \in Movable,
           r.x.v = b.x.v, r.y.v = b.y.v
    PROVE  IsoGe(r, g, q) /\ Stands(r.y, q[2] * g.v * g.v * g.v, 1)
<1>1. /\ b.x \in Fe /\ Eq(b.x.v, q[1] * g.v * g.v)
      /\ b.y \in Fe /\ Eq(b.y.v, q[2] * g.v * g.v * g.v)
  BY DEF IsoGe, Stands
<1>2. r \in Ge /\ r.inf = FALSE /\ r.x \in Fe /\ r.y \in Fe /\ r.x.m <= 6 /\ r.y.m <= 1 /\ r.y.m <= 4
  BY DEF Movable, Ge, Fe
<1>3. Stands(r.x, q[1] * g.v * g.v, 6) /\ Stands(r.y, q[2] * g.v * g.v * g.v, 4)
      /\ Stands(r.y, q[2] * g.v * g.v * g.v, 1)
  BY <1>1, <1>2 DEF Stands
<1> QED
  BY <1>2, <1>3 DEF IsoGe

\* Another element for the same y.
LEMMA IsoSetY ==
    ASSUME NEW b, NEW g \in ZScales, NEW q, IsoGe(b, g, q),
           NEW y, Stands(y, q[2] * g.v * g.v * g.v, 4)
    PROVE  IsoGe([b EXCEPT !.y = y], g, q)
<1> DEFINE r == [b EXCEPT !.y = y]
<1>1. b \in Ge /\ b.inf = FALSE /\ y \in Fe /\ Stands(b.x, q[1] * g.v * g.v, 6)
  BY DEF IsoGe, Stands
<1>2. r \in Ge /\ r.inf = FALSE /\ r.x = b.x /\ r.y = y
  BY <1>1 DEF Ge
<1> HIDE DEF r
<1> QED
  BY <1>1, <1>2 DEF IsoGe, r

\* The y that is moved in after them: the negated one for a negative digit.
LEMMA NegatedY ==
    ASSUME NEW y, NEW n \in Int, Stands(y, n, 1), NEW flag \in BOOLEAN
    PROVE  LET w == FeCmov(y, FeNegate(y, 1), flag)
           IN  (flag => Stands(w, -n, 4)) /\ (~flag => Stands(w, n, 4))
<1> DEFINE l == -n
           h == FeNegate(y, 1)
           w == FeCmov(y, h, flag)
           i == 1
           j == 2
           m == 4
<1>1. l \in Int /\ l = -n
  OBVIOUS
<1>2. Stands(h, l, 2)
  <2> HIDE DEF l
  <2> QED
    BY <1>1, StandsNegate
<1>3. i \in Int /\ j \in Int /\ m \in Int /\ i <= m /\ j <= m /\ Stands(y, n, i) /\ Stands(h, l, j)
  BY <1>2
<1> HIDE DEF l, h, i, j, m
<1>4. Stands(w, IF flag THEN l ELSE n, m)
  BY <1>1, <1>3, StandsCmov
<1> HIDE DEF w
<1>5. (flag => Stands(w, l, m)) /\ (~flag => Stands(w, n, m))
  BY <1>4
<1> QED
  BY <1>5 DEF w, l, h, m

\* ECMULT_CONST_TABLE_GET_GE: the entry of a digit d is d * A on the curve of the table.
LEMMA ConstTableGetGeIs ==
    ASSUME NEW k \in 1..Order-1, NEW n \in Nat, n >= 2, 2 * n <= Order, NEW tab, NEW z,
           WeakTable(tab, z, n, k), NEW d, DigitOf(d, n)
    PROVE  IsoGe(ConstTableGetGe(tab, d), z, Times(d * k)) /\ Times(d * k) \in CurvePoints /\ d * k \in Int
<1> DEFINE i == PlaceOf(d)
           q == Times((2 * i - 1) * k)
           e == d * k
           m == Absolute(d)
           index == m \div 2
           r == MoveIn(tab, index)
           flag == d # m
           y == FeCmov(r.y, FeNegate(r.y, 1), flag)
           s == [r EXCEPT !.y = y]
           v == q[2] * z.v * z.v * z.v
<1>1. /\ i \in 1..n /\ m \in 1..Order-1 /\ m \div 2 + 1 = i
      /\ (d > 0 => ~flag) /\ (~(d > 0) => flag)
  BY DigitPlace
<1>2. /\ e \in Int /\ Times(e) \in CurvePoints /\ q \in CurvePoints
      /\ d > 0 => Times(e) = q
      /\ ~(d > 0) => Plus(q, Times(e)) = Infinity
  BY DigitTimes
<1>3. z \in ZScales /\ tab = [j \in 1..n |-> tab[j]]
      /\ \A j \in 1..n : IsoGe(tab[j], z, Times((2 * j - 1) * k)) /\ tab[j].y.m <= 1
  BY DEF WeakTable, GlobalTable
<1>4. \A j \in 1..n : tab[j] \in Movable
  BY <1>3 DEF IsoGe, Stands, Movable, Ge, Fe
<1>5. IsoGe(tab[i], z, q)
  BY <1>1, <1>3
<1>6. ConstTableGetGe(tab, d) = s
  BY DEF ConstTableGetGe, Absolute
<1>7. index \in Int /\ index + 1 = i
  BY <1>1
<1> HIDE DEF i, e, m, index
<1>8. r \in Movable /\ r.x.v = tab[i].x.v /\ r.y.v = tab[i].y.v
  BY <1>1, <1>3, <1>4, <1>7, MoveInIs
<1> HIDE DEF r, q
<1>9. IsoGe(r, z, q) /\ Stands(r.y, v, 1)
  BY <1>3, <1>5, <1>8, IsoMoved
<1>10. v \in Int /\ flag \in BOOLEAN
  <2>1. q[2] \in Int /\ z.v \in Int
    BY <1>2, <1>3, CurvePointFacts, ScaleFacts
  <2> QED
    BY <2>1
<1>11. (flag => Stands(y, -v, 4)) /\ (~flag => Stands(y, v, 4))
  <2> HIDE DEF v, flag
  <2> QED
    BY <1>9, <1>10, NegatedY
<1>12. CASE d > 0
  <2>1. Stands(y, v, 4)
    BY <1>1, <1>11, <1>12
  <2> HIDE DEF y
  <2>2. IsoGe(s, z, q)
    BY <1>3, <1>9, <2>1, IsoSetY
  <2> QED
    BY <1>2, <1>6, <1>12, <2>2 DEF e
<1>13. CASE ~(d > 0)
  <2>1. Stands(y, -v, 4) /\ Plus(q, Times(e)) = Infinity
    BY <1>1, <1>2, <1>11, <1>13
  <2> HIDE DEF y
  <2>2. IsoGe(s, z, Times(e))
    BY <1>2, <1>3, <1>9, <2>1, IsoNeg
  <2> QED
    BY <1>2, <1>6, <2>2 DEF e
<1> QED
  BY <1>12, <1>13
-----------------------------------------------------------------------------
\* The multiples of the generator on the curve of g.
OnCurveOf(g) == {a \in Gej : \E m \in Int : OnTimes(a, g, m)}

\* A doubling stays among them.
LEMMA OnTypes ==
    ASSUME NEW a, NEW g \in ZScales, NEW m \in Int, OnTimes(a, g, m)
    PROVE  a \in OnCurveOf(g) /\ GejDoubleVar(a).r \in OnCurveOf(g)
<1>1. a \in Gej
  BY DEF OnTimes, OnIs, GejKept
<1> DEFINE n == 2 * m
           r == GejDoubleVar(a).r
<1>2. OnTimes(r, g, n) /\ n \in Int
  BY OnDoubleTimes
<1> HIDE DEF n, r
<1>3. r \in Gej
  BY <1>2 DEF OnTimes, OnIs, GejKept
<1> QED
  BY <1>1, <1>2, <1>3 DEF OnCurveOf, r

\* The n doublings of one position of secp256k1_ecmult_const.
LEMMA DoubledTimesIs ==
    ASSUME NEW a, NEW g \in ZScales, NEW k \in Int, OnTimes(a, g, k), NEW n \in Nat
    PROVE  OnTimes(DoubledTimes(a, n), g, Pow2[n] * k) /\ Pow2[n] * k \in Int
<1> DEFINE S == OnCurveOf(g)
           G == [p \in (1..n) \X S |-> GejDoubleVar(p[2]).r]
           F(f) == [i \in 0..n |-> IF i = 0 THEN a ELSE GejDoubleVar(f[i - 1]).r]
           h == CHOOSE f : f = F(f)
<1>1. ASSUME NEW b \in S PROVE GejDoubleVar(b).r \in S
  <2>1. PICK m \in Int : OnTimes(b, g, m)
    BY DEF OnCurveOf
  <2> QED
    BY <2>1, OnTypes
<1>2. a \in S
  BY OnTypes
<1> HIDE DEF S
<1>3. G \in [(1..n) \X S -> S]
  BY <1>1
<1>4. PICK f \in [0..n -> S] : UpLoop(f, 0, n, a, G)
  <2>1. n \in Int
    OBVIOUS
  <2> HIDE DEF G
  <2> QED
    BY <1>2, <1>3, <2>1, Loop0, Zenon
<1>5. f = F(f)
  <2>1. \A i \in 0..n : i # 0 => G[<<i, f[i - 1]>>] = GejDoubleVar(f[i - 1]).r
    OBVIOUS
  <2> HIDE DEF G
  <2> QED
    BY <1>4, <2>1 DEF UpLoop
<1>6. h = F(h)
  BY <1>5
<1>7. DoubledTimes(a, n) = h[n]
  BY DEF DoubledTimes, GejDoubleNonzero
<1>8. h[0] = a /\ \A i \in 1..n : h[i] = GejDoubleVar(h[i - 1]).r
  <2> HIDE DEF h
  <2> QED
    BY <1>6
<1> DEFINE T == {i \in 0..n : OnTimes(h[i], g, Pow2[i] * k)}
<1> HIDE DEF h
<1>9. 0 \in T
  <2>1. Pow2[0] * k = k
    BY Pow2Facts
  <2> QED
    BY <1>8, <2>1
<1>10. ASSUME NEW i \in 0+1..n, i - 1 \in T PROVE i \in T
  <2> DEFINE m == Pow2[i - 1] * k
  <2>1. i \in 1..n /\ i \in 0..n /\ i - 1 \in Nat /\ i \in Nat /\ i # 0
    OBVIOUS
  <2>2. m \in Int /\ OnTimes(h[i - 1], g, m)
    BY <1>10, <2>1, Pow2Facts
  <2>3. Pow2[i] * k = 2 * m
    <3>1. Pow2[i] = 2 * Pow2[i - 1] /\ Pow2[i - 1] \in Int
      BY <2>1, Pow2Facts
    <3> QED
      BY <3>1
  <2> HIDE DEF m
  <2>4. OnTimes(GejDoubleVar(h[i - 1]).r, g, 2 * m)
    BY <2>2, OnDoubleTimes
  <2> QED
    BY <1>8, <2>1, <2>3, <2>4
<1>11. \A i \in 0..n : i \in T
  <2>1. 0 \in Int /\ n \in Int
    OBVIOUS
  <2> HIDE DEF T
  <2> QED
    BY <1>9, <1>10, <2>1, Upward, Zenon
<1>12. n \in T
  BY <1>11
<1>13. Pow2[n] * k \in Int
  <2>1. Pow2[n] \in Int
    BY Pow2Facts
  <2> QED
    BY <2>1
<1> QED
  BY <1>7, <1>12, <1>13
-----------------------------------------------------------------------------
\* Infinity is 0 * G on every curve.
LEMMA InfinityOn ==
    ASSUME NEW g \in ZScales
    PROVE  OnTimes(GejSetInfinity, g, 0)
<1> DEFINE a == GejSetInfinity
<1>1. GejIs(a, Infinity)
  BY InfinityTimes, TimesFacts DEF GejTimes
<1>2. GejKept(a) /\ a.inf = TRUE
  BY <1>1 DEF GejIs, GejSetInfinity
<1>3. GejKept(Unscaled(a, g)) /\ Unscaled(a, g).inf = a.inf
  <2> HIDE DEF a
  <2> QED
    BY <1>2, UnscaledFacts
<1> HIDE DEF a
<1>4. GejIs(Unscaled(a, g), Infinity)
  BY <1>2, <1>3 DEF GejIs
<1> QED
  BY <1>2, <1>4, TimesFacts DEF OnTimes, OnIs, a

\* What is on the curve of a table is the point it stands for once z is whole.
LEMMA OnTableIs ==
    ASSUME NEW a, NEW g \in ZScales, NEW n \in Int, OnTimes(a, g, n)
    PROVE  /\ OnTable(a, g) = Multiple[n % Order] /\ KeptGej(a)
           /\ GejTimes(Unscaled(a, g), n)
           /\ GejTimes(IF a.inf THEN a ELSE Unscaled(a, g), n)
<1> DEFINE q == Times(n)
           s == Unscaled(a, g)
<1>1. q \in GroupPoints /\ q = Multiple[n % Order]
  BY TimesFacts DEF Times
<1>2. GejKept(a) /\ GejIs(s, q) /\ OnIs(a, g, q)
  BY DEF OnTimes, OnIs
<1>3. OnTable(a, g) = PointOfGej(s)
  BY DEF OnTable, Unscaled
<1>4. KeptGej(a)
  BY <1>2, MagnitudeAssumption, FieldAssumption DEF GejKept, KeptGej, Kept, Gej, Fe, Broken
<1> HIDE DEF q, s
<1>5. PointOfGej(s) = q
  BY <1>1, <1>2, PointOfGejIs
<1>6. (a.inf <=> q = Infinity) /\ a.inf \in BOOLEAN
  BY <1>1, <1>2, OnInfinity
<1>7. GejIs(IF a.inf THEN a ELSE s, q)
  <2>1. a.inf => GejIs(a, q)
    BY <1>2, <1>6 DEF GejIs
  <2> QED
    BY <1>2, <1>6, <2>1
<1> QED
  BY <1>1, <1>2, <1>3, <1>4, <1>5, <1>7 DEF GejTimes, q, s

\* Above the last digit that is not zero the digits amount to nothing.
LEMMA ZeroAbove ==
    ASSUME NEW n \in Nat, NEW w, Numbers(w, n), NEW step \in Nat, NEW b \in 0..n,
           \A i \in 0..n-1 : i >= b => w[i] = 0
    PROVE  \A j \in b..n : ValueAbove(w, n, step)[j] = 0
<1> DEFINE V == ValueAbove(w, n, step)
           M == Pow2[step]
           T == {j \in b..n : V[j] = 0}
<1>1. M \in Int /\ V[n] = 0 /\ \A i \in 0..n-1 : V[i] = w[i] + M * V[i + 1]
  <2>1. ValuesOf(V, w, n, M)
    BY ValueAboveIs
  <2>2. M \in Int
    BY Pow2Facts
  <2> HIDE DEF V, M
  <2> QED
    BY <2>1, <2>2 DEF ValuesOf
<1> HIDE DEF V, M
<1>2. b <= n => n \in T
  BY <1>1
<1>3. ASSUME NEW j \in b..n-1, j + 1 \in T PROVE j \in T
  <2>1. j \in 0..n-1 /\ j >= b /\ j \in b..n
    OBVIOUS
  <2>2. w[j] = 0 /\ V[j + 1] = 0
    BY <1>3, <2>1
  <2>3. V[j] = 0 + M * 0
    BY <1>1, <2>1, <2>2
  <2> QED
    BY <1>1, <2>1, <2>3
<1>4. \A j \in b..n : j \in T
  <2>1. b \in Int /\ n \in Int
    OBVIOUS
  <2> HIDE DEF T
  <2> QED
    BY <1>2, <1>3, <2>1, Downward, Zenon
<1> QED
  BY <1>4 DEF V

\* fe_normalize_weak keeps the point.
LEMMA WeakIs ==
    ASSUME NEW b, NEW g \in ZScales, NEW q \in CurvePoints, IsoGe(b, g, q)
    PROVE  LET r == [b EXCEPT !.y = FeNormalizeWeak(@)] IN IsoGe(r, g, q) /\ r.y.m <= 1
<1> DEFINE y == FeNormalizeWeak(b.y)
           r == [b EXCEPT !.y = y]
           n == q[2] * g.v * g.v * g.v
           i == 4
<1>1. q[2] \in Int /\ g.v \in Int
  BY CurvePointFacts, ScaleFacts
<1>2. n \in Int /\ i \in Nat /\ i <= 32
  BY <1>1
<1>3. Stands(b.y, n, i) /\ b \in Ge
  BY DEF IsoGe
<1> HIDE DEF n, i
<1>4. Stands(y, n, 1)
  BY <1>2, <1>3, StandsNormalize
<1>5. y.m <= 1
  BY <1>4 DEF Stands
<1>6. Stands(y, n, 4)
  BY <1>4 DEF Stands, Fe
<1>7. r.y = y
  BY <1>3 DEF Ge
<1> HIDE DEF y
<1>8. IsoGe(r, g, q)
  BY <1>6, IsoSetY DEF n
<1> QED
  BY <1>5, <1>7, <1>8 DEF y

\* The entries after it are those of A still.
LEMMA WeakTableIs ==
    ASSUME NEW k \in 1..Order-1, NEW n \in Nat, 2 * n <= Order, NEW tab, NEW z, GlobalTable(tab, z, n, k)
    PROVE  WeakTable([i \in 1..n |-> [tab[i] EXCEPT !.y = FeNormalizeWeak(@)]], z, n, k)
<1> DEFINE weak == [i \in 1..n |-> [tab[i] EXCEPT !.y = FeNormalizeWeak(@)]]
<1>1. z \in ZScales /\ \A i \in 1..n : IsoGe(tab[i], z, Times((2 * i - 1) * k))
  BY DEF GlobalTable
<1>2. ASSUME NEW i \in 1..n
      PROVE  IsoGe(weak[i], z, Times((2 * i - 1) * k)) /\ weak[i].y.m <= 1
  <2> DEFINE q == Times((2 * i - 1) * k)
             b == tab[i]
             r == [b EXCEPT !.y = FeNormalizeWeak(@)]
  <2>1. q \in CurvePoints
    BY OddBelow, FiniteTimes
  <2>2. weak[i] = r
    OBVIOUS
  <2>3. IsoGe(b, z, q)
    BY <1>1
  <2> HIDE DEF q, b, weak
  <2>4. IsoGe(r, z, q) /\ r.y.m <= 1
    BY <1>1, <2>1, <2>3, WeakIs
  <2> QED
    BY <2>2, <2>4 DEF q
<1>3. weak = [i \in 1..n |-> weak[i]]
  BY DEF weak
<1> HIDE DEF weak
<1> QED
  BY <1>1, <1>2, <1>3 DEF WeakTable, GlobalTable, weak
-----------------------------------------------------------------------------
\* What the loop of secp256k1_ecmult needs of the digits it reads,
LEMMA WnafDigits ==
    ASSUME NEW a \in Scalars, NEW w \in Nat, w > 2, Pow2[w - 1] < Order
    PROVE  LET r == ecmult_wnaf(a, w)
               D == r.digits
           IN  /\ Numbers(D, ScalarBits) /\ r.bits \in 0..ScalarBits
               /\ \A i \in 0..ScalarBits-1 : D[i] # 0 => DigitOf(D[i], TableSize(w))
               /\ \A j \in r.bits..ScalarBits : ValueAbove(D, ScalarBits, 1)[j] = 0
               /\ ValueAbove(D, ScalarBits, 1)[0] \in {a, a - Order}
<1> DEFINE r == ecmult_wnaf(a, w)
           D == r.digits
<1>1. /\ D \in [Positions -> Int]
      /\ r.bits \in 0..ScalarBits /\ \A i \in Positions : i >= r.bits => D[i] = 0
      /\ \E s \in Nat : DigitsOk(s, w, D)
  BY WnafIs
<1>2. ValueAbove(D, ScalarBits, 1)[0] \in {a, a - Order}
  BY WnafOfIs DEF WnafOf
<1> DEFINE b == r.bits
<1> HIDE DEF D, b
<1>3. Numbers(D, ScalarBits) /\ \A i \in 0..ScalarBits-1 : i >= b => D[i] = 0
  BY <1>1 DEF Numbers, Positions, b
<1>4. 2 * TableSize(w) = Pow2[w - 1]
  BY TableSizes
<1>5. \A i \in 0..ScalarBits-1 : D[i] # 0 => DigitOf(D[i], TableSize(w))
  BY <1>1, <1>4 DEF DigitsOk, DigitOf, Positions
<1>6. \A j \in b..ScalarBits : ValueAbove(D, ScalarBits, 1)[j] = 0
  <2> DEFINE o == 1
  <2>1. ScalarBits \in Nat /\ b \in 0..ScalarBits /\ o \in Nat
    BY <1>1, WindowAssumption DEF b
  <2> HIDE DEF o
  <2>2. \A j \in b..ScalarBits : ValueAbove(D, ScalarBits, o)[j] = 0
    BY <1>3, <2>1, ZeroAbove
  <2> QED
    BY <2>2 DEF o
<1> QED
  BY <1>1, <1>2, <1>3, <1>5, <1>6 DEF D, b

\* and that of secp256k1_ecmult_const.
LEMMA ConstDigits ==
    ASSUME NEW k \in Scalars
    PROVE  LET r == wnaf_const(k, WindowA - 1)
               D == r.digits
               V == ValueAbove(D, ConstSize, WindowA - 1)
           IN  /\ Numbers(D, ConstSize) /\ WnafSize(WindowA - 1) \in Nat
               /\ \A i \in 0..WnafSize(WindowA - 1) : DigitOf(D[i], TableSize(WindowA))
               /\ r.skew \in {1, 2} /\ V[0] \in Int /\ (V[0] - k - r.skew) % Order = 0
<1> DEFINE w == WindowA - 1
           r == wnaf_const(k, w)
           D == r.digits
           size == WnafSize(w)
           V == ValueAbove(D, ConstSize, w)
           n == TableSize(WindowA)
<1>1. /\ D \in [0..size -> Int]
      /\ \A i \in DOMAIN D : D[i] % 2 = 1 /\ D[i] < Pow2[w] /\ -D[i] < Pow2[w]
      /\ r.skew \in {1, 2} /\ (V[0] - k - r.skew) % Order = 0
  BY ConstFormIs
<1>2. w \in Nat \ {0} /\ 2 * n = Pow2[w]
  BY WindowAssumption, TableSizes
<1>3. size \in Nat
  <2> HIDE DEF w
  <2> QED
    BY <1>2, SizeIs
<1>4. ConstSize = size + 1
  BY DEF ConstSize
<1> HIDE DEF D, r, size, w, n
<1>5. \A i \in 0..size : D[i] \in Int /\ DigitOf(D[i], n)
  BY <1>1, <1>2 DEF DigitOf
<1>6. Numbers(D, ConstSize)
  BY <1>3, <1>4, <1>5 DEF Numbers
<1>7. V[0] \in Int
  <2>1. ConstSize \in Nat /\ w \in Nat
    BY <1>2, <1>3, <1>4
  <2>2. ValuesOf(V, D, ConstSize, Pow2[w])
    BY <1>6, <2>1, ValueAboveIs
  <2> HIDE DEF V
  <2> QED
    BY <2>1, <2>2 DEF ValuesOf
<1> QED
  BY <1>1, <1>3, <1>5, <1>6, <1>7 DEF D, r, w, n, size

\* The entry of A for a digit is added, or nothing for a 0.
LEMMA AddDigitA ==
    ASSUME NEW k \in 1..Order-1, NEW n \in Nat, n >= 2, 2 * n <= Order, NEW tab, NEW z,
           GlobalTable(tab, z, n, k), NEW d \in Int, d # 0 => DigitOf(d, n),
           NEW r, NEW m \in Int, OnTimes(r, z, m)
    PROVE  LET s == IF d = 0 THEN r ELSE GejAddGeVar(r, TableGetGe(tab, d)).r
           IN  OnTimes(s, z, m + d * k) /\ m + d * k \in Int
<1>1. CASE d = 0
  <2>1. m + d * k = m
    BY <1>1
  <2> QED
    BY <1>1, <2>1
<1>2. CASE d # 0
  <2> DEFINE e == d * k
             b == TableGetGe(tab, d)
  <2>1. z \in ZScales
    BY DEF GlobalTable
  <2>2. IsoGe(b, z, Times(e)) /\ Times(e) \in CurvePoints /\ e \in Int
    BY <1>2, TableGetGeIs
  <2> HIDE DEF e, b
  <2>3. OnTimes(GejAddGeVar(r, b).r, z, m + e)
    BY <2>1, <2>2, OnAddTimes
  <2>4. m + e \in Int
    BY <2>2
  <2> QED
    BY <1>2, <2>3, <2>4 DEF e, b
<1> QED
  BY <1>1, <1>2

\* The entry of G likewise.
LEMMA AddDigitG ==
    ASSUME NEW z \in ZScales, NEW d \in Int, d # 0 => DigitOf(d, TableSize(WindowG)),
           NEW r, NEW m \in Int, OnTimes(r, z, m)
    PROVE  LET s == IF d = 0 THEN r ELSE GejAddZinvVar(r, TableGetGeStorage(pre_g, d), z)
           IN  OnTimes(s, z, m + d)
<1>1. CASE d = 0
  <2>1. m + d = m
    BY <1>1
  <2> QED
    BY <1>1, <2>1
<1>2. CASE d # 0
  <2> DEFINE b == TableGetGeStorage(pre_g, d)
  <2>1. GeIs(b, Times(d)) /\ Times(d) \in CurvePoints
    BY <1>2, TableGetGeStorageIs
  <2> HIDE DEF b
  <2>2. OnTimes(GejAddZinvVar(r, b, z), z, m + d)
    BY <2>1, OnAddTimes
  <2> QED
    BY <1>2, <2>2 DEF b
<1> QED
  BY <1>1, <1>2
-----------------------------------------------------------------------------
\* What the loops have added up to, and the table they read.
MultipleKept ==
    /\ mul.fn \in {"ecmult", "const", "done"} => mul.k \in 1..Order-1
    /\ mul.fn = "ecmult" =>
         /\ GlobalTable(pre, zed, TableSize(WindowA), mul.k) /\ pos \in 0..ScalarBits
         /\ OnTimes(prod, zed, ValueAbove(wna, ScalarBits, 1)[pos] * mul.k
                                 + ValueAbove(wng, ScalarBits, 1)[pos])
    /\ mul.fn = "const" =>
         /\ WeakTable(pre, zed, TableSize(WindowA), mul.k) /\ pos \in 0..WnafSize(WindowA - 1)
         /\ OnTimes(prod, zed, ValueAbove(wna, ConstSize, WindowA - 1)[pos] * mul.k)
    /\ mul.fn = "idle" => KeptGej(prod)
    /\ mul.fn = "done" => GejTimes(prod, mul.na * mul.k + mul.ng)

\* The inductive invariant of Ecmult.
EcmultInv == DigitsKept /\ MultipleKept

\* The windows and what their tables have room for.
LEMMA WindowFacts ==
    /\ WindowA \in Nat /\ WindowA > 2 /\ Pow2[WindowA - 1] < Order /\ WindowA - 1 \in Nat
    /\ WindowG \in Nat /\ WindowG > 2 /\ Pow2[WindowG - 1] < Order
    /\ TableSize(WindowA) \in Nat /\ TableSize(WindowA) >= 2 /\ 2 * TableSize(WindowA) <= Order
    /\ ScalarBits \in Nat /\ Scalars \subseteq Int /\ Scalars = 0..Order-1
    /\ MultiplicandK \subseteq 1..Order-1 /\ MultiplicandZ \subseteq 1..P-1 /\ Factors \subseteq Scalars
<1>1. /\ WindowA \in Nat /\ WindowA > 2 /\ Pow2[WindowA - 1] < Order /\ WindowA - 1 \in Nat
      /\ WindowG \in Nat /\ WindowG > 2 /\ Pow2[WindowG - 1] < Order
      /\ ScalarBits \in Nat
      /\ MultiplicandK \subseteq 1..Order-1 /\ MultiplicandZ \subseteq 1..P-1 /\ Factors \subseteq Scalars
  BY WindowAssumption
<1>2. Scalars \subseteq Int /\ Scalars = 0..Order-1
  BY OrderFacts DEF Scalars
<1>3. /\ TableSize(WindowA) \in Nat /\ TableSize(WindowA) >= 2 /\ 2 * TableSize(WindowA) <= Order
  BY <1>1, TableSizes
<1> QED
  BY <1>1, <1>2, <1>3

\* The value at a position from the one above it.
LEMMA ValueStep ==
    ASSUME NEW n \in Nat, NEW w, Numbers(w, n), NEW step \in Nat, NEW p \in 1..n
    PROVE  LET V == ValueAbove(w, n, step)
           IN  /\ V[p] \in Int /\ V[p - 1] \in Int /\ w[p - 1] \in Int
               /\ V[p - 1] = w[p - 1] + Pow2[step] * V[p]
<1> DEFINE V == ValueAbove(w, n, step)
           M == Pow2[step]
           i == p - 1
<1>1. ValuesOf(V, w, n, M)
  BY ValueAboveIs
<1>2. i \in 0..n-1 /\ i \in 0..n /\ p \in 0..n /\ i + 1 = p
  OBVIOUS
<1> HIDE DEF V, M, i
<1>3. V[p] \in Int /\ V[i] \in Int /\ w[i] \in Int /\ V[i] = w[i] + M * V[p]
  BY <1>1, <1>2 DEF ValuesOf, Numbers
<1> QED
  BY <1>3 DEF V, M, i

\* No call has been made at first.
LEMMA EcmultFirst == EcmultInit => EcmultInv
<1> SUFFICES ASSUME EcmultInit PROVE EcmultInv
  OBVIOUS
<1>1. DigitsKept
  BY DigitsKeptFirst
<1>2. mul.fn = "idle" /\ KeptGej(prod)
  BY InfinityTimes DEF EcmultInit, Idle
<1> QED
  BY <1>1, <1>2 DEF EcmultInv, MultipleKept

\* secp256k1_ecmult starts with nothing added.
LEMMA EcmultStarts ==
    ASSUME NEW k \in MultiplicandK, NEW z \in MultiplicandZ, NEW na \in Factors, NEW ng \in Factors,
           Ecmult(k, z, na, ng)
    PROVE  MultipleKept'
<1> DEFINE a == ecmult_wnaf(na, WindowA)
           g == ecmult_wnaf(ng, WindowG)
           t == odd_multiples_table_globalz(Scaled(k, z))
           n == TableSize(WindowA)
           top == Larger(a.bits, g.bits)
           va == ValueAbove(a.digits, ScalarBits, 1)[top]
           vg == ValueAbove(g.digits, ScalarBits, 1)[top]
<1>1. k \in 1..Order-1 /\ z \in 1..P-1 /\ na \in Scalars /\ ng \in Scalars
  BY WindowFacts
<1>2. /\ mul' = [fn |-> "ecmult", k |-> k, na |-> na, ng |-> ng]
      /\ wna' = a.digits /\ wng' = g.digits /\ pre' = t.pre /\ zed' = t.globalz
      /\ pos' = top /\ prod' = GejSetInfinity
  BY DEF Ecmult, Begin
<1>3. mul'.fn = "ecmult" /\ mul'.k = k
  BY <1>2
<1>4. GlobalTable(t.pre, t.globalz, n, k)
  <2>1. Multiple[k] = Times(k)
    <3>1. k \in 0..Order-1
      BY <1>1
    <3> QED
      BY <3>1, TimesFacts
  <2>2. GejIs(Scaled(k, z), Times(k))
    BY <1>1, <2>1, ScaledIs
  <2> HIDE DEF t, n
  <2>3. GlobalTable(odd_multiples_table_globalz(Scaled(k, z)).pre,
                    odd_multiples_table_globalz(Scaled(k, z)).globalz, TableSize(WindowA), k)
    BY <1>1, <2>2, GlobalTableOf
  <2> QED
    BY <2>3 DEF t, n
<1>5. /\ a.bits \in 0..ScalarBits
      /\ \A j \in a.bits..ScalarBits : ValueAbove(a.digits, ScalarBits, 1)[j] = 0
  BY <1>1, WindowFacts, WnafDigits
<1>6. /\ g.bits \in 0..ScalarBits
      /\ \A j \in g.bits..ScalarBits : ValueAbove(g.digits, ScalarBits, 1)[j] = 0
  BY <1>1, WindowFacts, WnafDigits
<1> HIDE DEF a, g, t, n
<1>7. ScalarBits \in Nat
  BY WindowFacts
<1>8. top \in 0..ScalarBits /\ top \in a.bits..ScalarBits /\ top \in g.bits..ScalarBits
  BY <1>5, <1>6, <1>7 DEF Larger
<1>9. va = 0 /\ vg = 0
  <2> HIDE DEF top
  <2> QED
    BY <1>5, <1>6, <1>8
<1> HIDE DEF top, va, vg
<1>10. va * k + vg = 0
  BY <1>1, <1>9
<1>11. OnTimes(prod', zed', va * k + vg)
  <2>1. t.globalz \in ZScales
    BY <1>4 DEF GlobalTable
  <2> QED
    BY <1>2, <1>10, <2>1, InfinityOn
<1>12. OnTimes(prod', zed', ValueAbove(wna', ScalarBits, 1)[pos'] * mul'.k
                              + ValueAbove(wng', ScalarBits, 1)[pos'])
  BY <1>2, <1>3, <1>11 DEF va, vg
<1> QED
  BY <1>1, <1>2, <1>3, <1>4, <1>8, <1>12 DEF MultipleKept, n
-----------------------------------------------------------------------------
\* One position of the loop of secp256k1_ecmult.
LEMMA EcmultLoops ==
    ASSUME EcmultInv, EcmultLoop
    PROVE  MultipleKept'
<1> DEFINE k == mul.k
           n == TableSize(WindowA)
           i == pos - 1
           Va == ValueAbove(wna, ScalarBits, 1)
           Vg == ValueAbove(wng, ScalarBits, 1)
           da == wna[i]
           dg == wng[i]
           a == Va[pos]
           g == Vg[pos]
<1>1. mul.fn = "ecmult" /\ pos > 0
  BY DEF EcmultLoop
<1>2. /\ k \in 1..Order-1 /\ GlobalTable(pre, zed, n, k) /\ pos \in 1..ScalarBits
      /\ OnTimes(prod, zed, a * k + g)
      /\ mul.na \in Scalars /\ mul.ng \in Scalars
      /\ wna = ecmult_wnaf(mul.na, WindowA).digits
      /\ wng = ecmult_wnaf(mul.ng, WindowG).digits
  BY <1>1, WindowFacts DEF EcmultInv, MultipleKept, DigitsKept
<1>3. /\ Numbers(wna, ScalarBits)
      /\ \A j \in 0..ScalarBits-1 : wna[j] # 0 => DigitOf(wna[j], TableSize(WindowA))
  BY <1>2, WindowFacts, WnafDigits
<1>4. /\ Numbers(wng, ScalarBits)
      /\ \A j \in 0..ScalarBits-1 : wng[j] # 0 => DigitOf(wng[j], TableSize(WindowG))
  BY <1>2, WindowFacts, WnafDigits
<1>5. i \in 0..ScalarBits-1 /\ i \in 0..ScalarBits /\ ScalarBits \in Nat
  BY <1>2, WindowFacts
<1> DEFINE o == 1
<1>6. o \in Nat /\ Pow2[o] = 2
  BY Pow2Facts
<1>7. a \in Int /\ Va[i] \in Int /\ da \in Int /\ Va[i] = da + 2 * a
  <2> HIDE DEF o
  <2>1. /\ ValueAbove(wna, ScalarBits, o)[pos] \in Int /\ ValueAbove(wna, ScalarBits, o)[pos - 1] \in Int
        /\ wna[pos - 1] \in Int
        /\ ValueAbove(wna, ScalarBits, o)[pos - 1] = wna[pos - 1] + Pow2[o] * ValueAbove(wna, ScalarBits, o)[pos]
    BY <1>2, <1>3, <1>5, <1>6, ValueStep
  <2> QED
    BY <1>6, <2>1 DEF o
<1>8. g \in Int /\ Vg[i] \in Int /\ dg \in Int /\ Vg[i] = dg + 2 * g
  <2> HIDE DEF o
  <2>1. /\ ValueAbove(wng, ScalarBits, o)[pos] \in Int /\ ValueAbove(wng, ScalarBits, o)[pos - 1] \in Int
        /\ wng[pos - 1] \in Int
        /\ ValueAbove(wng, ScalarBits, o)[pos - 1] = wng[pos - 1] + Pow2[o] * ValueAbove(wng, ScalarBits, o)[pos]
    BY <1>2, <1>4, <1>5, <1>6, ValueStep
  <2> QED
    BY <1>6, <2>1 DEF o
<1>9. (da # 0 => DigitOf(da, n)) /\ (dg # 0 => DigitOf(dg, TableSize(WindowG)))
  BY <1>3, <1>4, <1>5
<1> DEFINE m == a * k + g
           c == 2 * m
           e == c + da * k
           r1 == GejDoubleVar(prod).r
           r2 == IF da = 0 THEN r1 ELSE GejAddGeVar(r1, TableGetGe(pre, da)).r
           r3 == IF dg = 0 THEN r2 ELSE GejAddZinvVar(r2, TableGetGeStorage(pre_g, dg), zed)
<1>10. prod' = r3 /\ pos' = i /\ UNCHANGED <<mul, wna, wng, pre, zed>>
  BY DEF EcmultLoop
<1>11. zed \in ZScales /\ n \in Nat /\ n >= 2 /\ 2 * n <= Order
  BY <1>2, WindowFacts DEF GlobalTable
<1>12. e + dg = Va[i] * k + Vg[i] /\ m \in Int
  <2> DEFINE x == Va[i]
             y == Vg[i]
  <2>1. x \in Int /\ y \in Int /\ x = da + 2 * a /\ y = dg + 2 * g /\ a \in Int /\ g \in Int
        /\ da \in Int /\ dg \in Int /\ k \in Int
    BY <1>2, <1>7, <1>8
  <2> HIDE DEF x, y, a, g, da, dg, k
  <2>2. x * k = da * k + 2 * (a * k)
    BY <2>1
  <2> QED
    BY <2>1, <2>2 DEF x, y
<1> HIDE DEF k, n, i, Va, Vg, da, dg, a, g
<1>13. OnTimes(r1, zed, c) /\ c \in Int
  <2> HIDE DEF m
  <2> QED
    BY <1>2, <1>11, <1>12, OnDoubleTimes DEF m
<1> HIDE DEF c, r1
<1>14. OnTimes(r2, zed, e) /\ e \in Int
  BY <1>2, <1>7, <1>9, <1>11, <1>13, AddDigitA
<1> HIDE DEF e, r2
<1>15. OnTimes(r3, zed, e + dg)
  BY <1>8, <1>9, <1>11, <1>14, AddDigitG
<1> HIDE DEF r3
<1>16. OnTimes(prod', zed', ValueAbove(wna', ScalarBits, 1)[pos'] * mul'.k
                              + ValueAbove(wng', ScalarBits, 1)[pos'])
  BY <1>10, <1>12, <1>15 DEF Va, Vg, k
<1> QED
  BY <1>1, <1>2, <1>5, <1>10, <1>16 DEF MultipleKept, k, n

\* A scalar that was recoded by its negation gives the same multiple.
LEMMA TimesProduct ==
    ASSUME NEW k \in Int, NEW a \in Int, NEW g \in Int, NEW va \in {a, a - Order}, NEW vg \in {g, g - Order}
    PROVE  Times(va * k + vg) = Times(a * k + g)
<1>1. Order \in Int
  BY OrderFacts
<1> DEFINE x == IF va = a THEN 0 ELSE 1
           y == IF vg = g THEN 0 ELSE 1
           t == -(x * k + y)
           m == va * k + vg
           n == a * k + g
<1>2. x \in Int /\ y \in Int /\ va = a - x * Order /\ vg = g - y * Order /\ va \in Int /\ vg \in Int
  BY <1>1
<1> HIDE DEF x, y
<1>3. t \in Int /\ m \in Int /\ n \in Int
  BY <1>1, <1>2
<1>4. m = n + t * Order
  <2>1. va * k = a * k - (x * Order) * k
    BY <1>1, <1>2
  <2>2. (x * Order) * k = (x * k) * Order
    BY <1>1, <1>2
  <2>3. (x * k + y) * Order = (x * k) * Order + y * Order
    BY <1>1, <1>2
  <2> DEFINE u == x * k
  <2>4. u \in Int
    BY <1>2
  <2>5. t * Order = -((u + y) * Order)
    <3> HIDE DEF u
    <3> QED
      BY <1>1, <1>2, <2>4 DEF u
  <2> QED
    BY <1>1, <1>2, <2>1, <2>2, <2>3, <2>5
<1> HIDE DEF t, m, n
<1>5. Times(m) = Times(n)
  BY <1>3, <1>4, TimesSame
<1> QED
  BY <1>5 DEF m, n

\* secp256k1_ecmult multiplies z by the scale: the product.
LEMMA EcmultEnds ==
    ASSUME EcmultInv, EcmultEnd
    PROVE  MultipleKept'
<1> DEFINE k == mul.k
           a == mul.na
           g == mul.ng
           va == ValueAbove(wna, ScalarBits, 1)[0]
           vg == ValueAbove(wng, ScalarBits, 1)[0]
           m == va * k + vg
           n == a * k + g
           r == IF prod.inf THEN prod ELSE Unscaled(prod, zed)
<1>1. mul.fn = "ecmult" /\ pos = 0
  BY DEF EcmultEnd
<1>2. /\ k \in 1..Order-1 /\ zed \in ZScales /\ OnTimes(prod, zed, m)
      /\ a \in Scalars /\ g \in Scalars /\ mul \in Calls
      /\ wna = ecmult_wnaf(a, WindowA).digits
      /\ wng = ecmult_wnaf(g, WindowG).digits
  BY <1>1 DEF EcmultInv, MultipleKept, DigitsKept, GlobalTable
<1>3. va \in {a, a - Order}
  BY <1>2, WindowFacts, WnafDigits
<1>4. vg \in {g, g - Order}
  BY <1>2, WindowFacts, WnafDigits
<1>5. k \in Int /\ a \in Int /\ g \in Int /\ Order \in Int
  <2>1. Order \in Int /\ \A x \in Scalars : x \in Int
    BY OrderFacts DEF Scalars
  <2> QED
    BY <1>2, <2>1
<1>6. prod' = r
  BY DEF EcmultEnd, Unscaled
<1>7. mul' = [mul EXCEPT !.fn = "done"]
  BY DEF EcmultEnd
<1>8. mul'.fn = "done" /\ mul'.k = k /\ mul'.na = a /\ mul'.ng = g
  BY <1>2, <1>7 DEF Calls
<1> HIDE DEF k, a, g, va, vg
<1>9. Times(m) = Times(n)
  BY <1>3, <1>4, <1>5, TimesProduct
<1>10. m \in Int
  BY <1>3, <1>4, <1>5
<1> HIDE DEF m, n
<1>11. GejTimes(r, m)
  BY <1>2, <1>10, OnTableIs
<1> HIDE DEF r
<1>12. GejTimes(prod', n)
  BY <1>6, <1>9, <1>11 DEF GejTimes
<1> QED
  BY <1>2, <1>8, <1>12 DEF MultipleKept, n
-----------------------------------------------------------------------------
\* secp256k1_ecmult_const starts with the entry of its top digit.
LEMMA ConstStarts ==
    ASSUME NEW k \in MultiplicandK, NEW scalar \in 0..Order-1, EcmultConst(k, scalar)
    PROVE  MultipleKept'
<1> DEFINE w == wnaf_const(scalar, WindowA - 1)
           a == GejSetGe(Stored(k))
           t == odd_multiples_table_globalz(a)
           n == TableSize(WindowA)
           weak == [i \in 1..n |-> [t.pre[i] EXCEPT !.y = FeNormalizeWeak(@)]]
           size == WnafSize(WindowA - 1)
           D == w.digits
           V == ValueAbove(D, ConstSize, WindowA - 1)
           d == D[size]
           e == d * k
<1>1. k \in 1..Order-1 /\ scalar \in Scalars /\ n \in Nat /\ n >= 2 /\ 2 * n <= Order
  BY WindowFacts
<1>2. /\ mul' = [fn |-> "const", k |-> k, na |-> scalar, ng |-> w.skew]
      /\ wna' = D /\ pre' = weak /\ zed' = t.globalz /\ pos' = size
      /\ prod' = GejSetGe(ConstTableGetGe(weak, d))
  BY Zenon DEF EcmultConst, BeginConst
<1>3. mul'.fn = "const" /\ mul'.k = k
  BY <1>2
<1>4. GejIs(a, Times(k))
  <2>1. k \in 0..Order-1 /\ Multiple[k] = Times(k)
    <3>1. k \in 0..Order-1
      BY <1>1
    <3> QED
      BY <3>1, TimesFacts
  <2>2. GeIs(Stored(k), Times(k)) /\ Times(k) \in GroupPoints
    BY <2>1, StoredIs, Multiples
  <2> QED
    BY <2>2, GejSetGeIs
<1> HIDE DEF a
<1>5. GlobalTable(t.pre, t.globalz, n, k)
  BY <1>1, <1>4, GlobalTableOf
<1>6. t.globalz \in ZScales
  BY <1>5 DEF GlobalTable
<1> HIDE DEF t, n
<1>7. WeakTable(weak, t.globalz, n, k)
  BY <1>1, <1>5, WeakTableIs
<1> HIDE DEF weak
<1>8. /\ Numbers(D, ConstSize) /\ size \in Nat
      /\ \A i \in 0..size : DigitOf(D[i], TableSize(WindowA))
  BY <1>1, ConstDigits
<1> HIDE DEF w, D
<1>9. DigitOf(d, n) /\ d \in Int
  BY <1>8 DEF n, DigitOf
<1> HIDE DEF d
<1>10. IsoGe(ConstTableGetGe(weak, d), t.globalz, Times(e)) /\ Times(e) \in CurvePoints /\ e \in Int
  BY <1>1, <1>7, <1>9, ConstTableGetGeIs
<1> HIDE DEF e
<1>11. OnTimes(prod', zed', e)
  BY <1>2, <1>6, <1>10, OnSetGe DEF OnTimes
<1>12. V[size] = d
  <2> DEFINE p == size + 1
             s == WindowA - 1
             M == Pow2[s]
  <2>1. ConstSize \in Nat /\ s \in Nat /\ p = ConstSize /\ p - 1 = size
    BY <1>8, WindowFacts DEF ConstSize
  <2>2. ValuesOf(V, D, ConstSize, M)
    <3> HIDE DEF s
    <3>1. ValuesOf(ValueAbove(D, ConstSize, s), D, ConstSize, Pow2[s])
      BY <1>8, <2>1, ValueAboveIs
    <3> QED
      BY <3>1 DEF s
  <2>3. M \in Int
    BY <2>1, Pow2Facts
  <2> HIDE DEF M, V, s, size, p
  <2>4. V[p] = 0 /\ V[size] = D[size] + M * V[p]
    BY <1>8, <2>1, <2>2 DEF ValuesOf, p
  <2>5. V[size] = D[size] + M * 0
    BY <2>4
  <2> QED
    BY <1>9, <2>3, <2>5 DEF d
<1>13. OnTimes(prod', zed', ValueAbove(wna', ConstSize, WindowA - 1)[pos'] * mul'.k)
  BY <1>2, <1>3, <1>11, <1>12 DEF e
<1>14. size \in 0..size
  BY <1>8
<1> HIDE DEF size
<1> QED
  BY <1>1, <1>2, <1>3, <1>7, <1>13, <1>14 DEF MultipleKept, n, size

\* One position of the loop of secp256k1_ecmult_const.
LEMMA ConstLoops ==
    ASSUME EcmultInv, ConstLoop
    PROVE  MultipleKept'
<1> DEFINE k == mul.k
           n == TableSize(WindowA)
           s == WindowA - 1
           size == WnafSize(s)
           i == pos - 1
           V == ValueAbove(wna, ConstSize, s)
           M == Pow2[s]
           d == wna[i]
           m == V[pos] * k
           e == d * k
           r == DoubledTimes(prod, s)
           b == ConstTableGetGe(pre, d)
<1>1. mul.fn = "const" /\ pos > 0
  BY DEF ConstLoop
<1>2. /\ k \in 1..Order-1 /\ WeakTable(pre, zed, n, k) /\ pos \in 0..size
      /\ OnTimes(prod, zed, m) /\ mul.na \in Scalars
      /\ wna = wnaf_const(mul.na, s).digits
  BY <1>1 DEF EcmultInv, MultipleKept, DigitsKept
<1>3. /\ Numbers(wna, ConstSize) /\ size \in Nat
      /\ \A j \in 0..size : DigitOf(wna[j], n)
  BY <1>2, ConstDigits
<1>4. /\ zed \in ZScales /\ n \in Nat /\ n >= 2 /\ 2 * n <= Order /\ s \in Nat
  BY <1>2, WindowFacts DEF WeakTable, GlobalTable
<1> HIDE DEF n, s
<1>5. ConstSize \in Nat /\ pos \in 1..ConstSize /\ i \in 0..size /\ pos - 1 = i
  <2>1. ConstSize = size + 1
    BY DEF ConstSize, s
  <2> HIDE DEF size
  <2> QED
    BY <1>1, <1>2, <1>3, <2>1
<1>6. V[pos] \in Int /\ V[i] \in Int /\ d \in Int /\ V[i] = d + M * V[pos]
  BY <1>3, <1>4, <1>5, ValueStep
<1>7. DigitOf(d, n)
  BY <1>3, <1>5
<1>8. /\ prod' = GejAddGe(r, b) /\ pos' = i /\ UNCHANGED <<mul, wna, wng, pre, zed>>
  BY DEF ConstLoop, s
<1>9. M \in Int
  BY <1>4, Pow2Facts
<1> DEFINE c == M * m
<1>10. m \in Int /\ c \in Int /\ c + e = V[i] * k
  <2> DEFINE v == V[pos]
             x == V[i]
  <2>1. v \in Int /\ x \in Int /\ d \in Int /\ x = d + M * v /\ k \in Int /\ M \in Int
    BY <1>2, <1>6, <1>9
  <2>2. m = v * k
    OBVIOUS
  <2> HIDE DEF v, x, d, k, M, m
  <2>3. (M * v) * k = M * (v * k) /\ x * k = d * k + (M * v) * k /\ v * k \in Int
    BY <2>1
  <2>4. m \in Int /\ M * m \in Int
    BY <2>1, <2>2
  <2> QED
    BY <2>1, <2>2, <2>3, <2>4 DEF x
<1> HIDE DEF k, d, V, size, i
<1>11. OnTimes(r, zed, c)
  <2> HIDE DEF m
  <2> QED
    BY <1>2, <1>4, <1>10, DoubledTimesIs
<1>12. IsoGe(b, zed, Times(e)) /\ Times(e) \in CurvePoints /\ e \in Int
  BY <1>2, <1>4, <1>7, ConstTableGetGeIs
<1> HIDE DEF c, e, b, r
<1>13. OnTimes(GejAddGe(r, b), zed, c + e)
  BY <1>4, <1>10, <1>11, <1>12, OnAddTimes
<1>14. OnTimes(prod', zed', ValueAbove(wna', ConstSize, WindowA - 1)[pos'] * mul'.k)
  BY <1>8, <1>10, <1>13 DEF V, s, k
<1> QED
  BY <1>1, <1>2, <1>5, <1>8, <1>14 DEF MultipleKept, k, n, s, size
-----------------------------------------------------------------------------
\* What goes through storage at the end is A or 2A.
LEMMA CorrectionIs ==
    ASSUME NEW k \in 1..Order-1, NEW c \in {1, 2}
    PROVE  LET a == Stored(k)
               a2 == GeSetGej(GejDoubleVar(GejSetGe(a)).r)
               e == c * k
           IN  /\ GeStorageCmov(GeToStorage(a), GeToStorage(a2), c = 2) = StorageOf(Times(e))
               /\ e \in Int /\ Times(e) \in CurvePoints
<1> DEFINE a == Stored(k)
           d == GejDoubleVar(GejSetGe(a)).r
           a2 == GeSetGej(d)
           q == Times(k)
           e == 2 * k
           p == Times(e)
<1>1. k \in Int /\ k \in 0..Order-1 /\ k # 0 /\ e \in Int
  OBVIOUS
<1>2. q = Multiple[k] /\ q \in CurvePoints /\ p \in CurvePoints
  BY <1>1, TimesFacts, TwiceTimes
<1>3. GeIs(a, q) /\ q \in GroupPoints /\ p \in GroupPoints /\ q # Infinity /\ p # Infinity
  BY <1>1, <1>2, StoredIs, CurvePointFacts
<1> HIDE DEF a, q, p, e
<1>4. GejTimes(GejSetGe(a), k)
  BY <1>3, GejSetGeIs DEF GejTimes, q
<1>5. GejTimes(d, e)
  BY <1>1, <1>4, TimesMoves DEF e
<1> HIDE DEF d
<1>6. GeIs(a2, p)
  BY <1>3, <1>5, GeSetGejIs DEF GejTimes, p
<1> HIDE DEF a2
<1>7. Stands(a.x, q[1], 2) /\ Stands(a.y, q[2], 2) /\ Stands(a2.x, p[1], 2) /\ Stands(a2.y, p[2], 2)
  BY <1>3, <1>6 DEF GeIs
<1>8. GeToStorage(a) = StorageOf(q) /\ GeToStorage(a2) = StorageOf(p)
  BY <1>2, <1>7, GeToStorageIs
<1>9. GeStorageCmov(StorageOf(q), StorageOf(p), c = 2) = IF c = 2 THEN StorageOf(p) ELSE StorageOf(q)
  BY DEF GeStorageCmov, FeStorageCmov, StorageOf
<1>10. CASE c = 2
  <2>1. c * k = e
    BY <1>10 DEF e
  <2> QED
    BY <1>1, <1>2, <1>8, <1>9, <1>10, <2>1 DEF a, a2, d, p
<1>11. CASE c = 1
  <2>1. c * k = k /\ ~(c = 2)
    BY <1>11
  <2> QED
    BY <1>1, <1>2, <1>8, <1>9, <2>1 DEF a, a2, d, q
<1> QED
  BY <1>10, <1>11

\* The skew is taken back, in numbers.
LEMMA ConstProduct ==
    ASSUME NEW k \in Int, NEW a \in Int, NEW v \in Int, NEW c \in Int, (v - a - c) % Order = 0
    PROVE  Times(v * k + -(c * k)) = Times(a * k)
<1> DEFINE y == v - a - c
           t == y \div Order
           m == v * k + -(c * k)
           n == a * k
           u == t * k
<1>1. Order \in Nat \ {0} /\ y \in Int /\ v = a + c + y
  BY OrderFacts
<1>2. t \in Int /\ y = Order * t + (y % Order) /\ y % Order = 0
  <2> HIDE DEF y
  <2>1. y % Order = 0
    BY DEF y
  <2> QED
    BY <1>1, <2>1, Division
<1>3. y = Order * t
  BY <1>2, <1>1
<1>4. m \in Int /\ n \in Int /\ u \in Int
  <2> HIDE DEF t
  <2> QED
    BY <1>2
<1>5. m = n + u * Order
  <2> HIDE DEF t, y
  <2>1. v * k = a * k + c * k + y * k /\ y * k = (Order * t) * k
    BY <1>1, <1>2, <1>3
  <2>2. (Order * t) * k = (t * k) * Order
    BY <1>1, <1>2
  <2>3. a * k \in Int /\ c * k \in Int /\ y * k \in Int
    BY <1>1
  <2> QED
    BY <2>1, <2>2, <2>3
<1> HIDE DEF m, n, u
<1>6. Times(m) = Times(n)
  BY <1>4, <1>5, TimesSame
<1> QED
  BY <1>6 DEF m, n

\* secp256k1_ecmult_const ends: the scale, and A or 2A subtracted.
LEMMA ConstEnds ==
    ASSUME EcmultInv, ConstEnd
    PROVE  MultipleKept'
<1> DEFINE k == mul.k
           c == mul.ng
           a == mul.na
           v == ValueAbove(wna, ConstSize, WindowA - 1)[0]
           m == v * k
           e == c * k
           s == Unscaled(prod, zed)
           correction == GeStorageCmov(GeToStorage(Stored(k)),
                                       GeToStorage(GeSetGej(GejDoubleVar(GejSetGe(Stored(k))).r)), c = 2)
           b == GeFromStorage(correction)
           r == GejAddGe(s, GeNeg(b))
<1>1. mul.fn = "const" /\ pos = 0
  BY DEF ConstEnd
<1>2. /\ k \in 1..Order-1 /\ zed \in ZScales /\ OnTimes(prod, zed, m)
      /\ a \in Scalars /\ mul \in Calls
      /\ wna = wnaf_const(a, WindowA - 1).digits
      /\ c = wnaf_const(a, WindowA - 1).skew
  BY <1>1 DEF EcmultInv, MultipleKept, DigitsKept, WeakTable, GlobalTable
<1>3. c \in {1, 2} /\ v \in Int /\ (v - a - c) % Order = 0
  BY <1>2, ConstDigits
<1>4. k \in Int /\ a \in Int /\ c \in Int /\ m \in Int
  <2>1. \A x \in Scalars : x \in Int
    BY OrderFacts DEF Scalars
  <2> HIDE DEF v
  <2> QED
    BY <1>2, <1>3, <2>1
<1>5. prod' = r /\ mul' = [mul EXCEPT !.fn = "done", !.ng = 0]
  BY DEF ConstEnd, Unscaled
<1>6. mul'.fn = "done" /\ mul'.k = k /\ mul'.na = a /\ mul'.ng = 0
  BY <1>2, <1>5 DEF Calls
<1> HIDE DEF k, a, c, v
<1>7. correction = StorageOf(Times(e)) /\ e \in Int /\ Times(e) \in CurvePoints
  BY <1>2, <1>3, CorrectionIs
<1> HIDE DEF correction
<1>8. GeTimes(b, e)
  BY <1>7, GeFromStorageIs DEF GeTimes
<1> HIDE DEF b
<1> DEFINE l == -e
<1>9. l \in Int
  BY <1>7
<1>10. Plus(Times(e), Times(l)) = Infinity /\ Times(e) \in GroupPoints /\ Times(l) \in GroupPoints
       /\ Times(e) # Infinity
  <2> HIDE DEF e
  <2> QED
    BY <1>7, <1>9, TimesOpposite, TimesFacts, CurvePointFacts
<1>11. l % Order # 0
  <2>1. Times(l) # Infinity
    BY <1>10, PlusInfinity
  <2> HIDE DEF l
  <2> QED
    BY <1>9, <2>1, TimesFacts
<1> HIDE DEF e, l
<1>12. GeTimes(GeNeg(b), l)
  BY <1>8, <1>10, GeNegIs DEF GeTimes
<1> HIDE DEF m
<1>13. GejTimes(s, m)
  BY <1>2, <1>4, OnTableIs
<1> HIDE DEF s
<1>14. GejTimes(r, m + l)
  BY <1>4, <1>9, <1>11, <1>12, <1>13, TimesMoves
<1>15. Times(m + l) = Times(a * k)
  BY <1>3, <1>4, ConstProduct DEF m, l, e
<1>16. a * k + 0 = a * k
  BY <1>4
<1> HIDE DEF r
<1>17. GejTimes(prod', a * k + 0)
  BY <1>5, <1>14, <1>15, <1>16 DEF GejTimes
<1> QED
  BY <1>2, <1>6, <1>17 DEF MultipleKept, k

\* Every step keeps the invariant.
LEMMA EcmultNextKeeps == EcmultInv /\ [EcmultNext]_mulVars => EcmultInv'
<1> SUFFICES ASSUME EcmultInv, [EcmultNext]_mulVars PROVE EcmultInv'
  OBVIOUS
<1>1. DigitsKept'
  BY DigitsKeptNext DEF EcmultInv
<1>2. ASSUME NEW k \in MultiplicandK, NEW z \in MultiplicandZ, NEW na \in Factors, NEW ng \in Factors,
             Ecmult(k, z, na, ng)
      PROVE  MultipleKept'
  BY <1>2, EcmultStarts
<1>3. ASSUME NEW k \in MultiplicandK, NEW scalar \in 0..Order-1, EcmultConst(k, scalar)
      PROVE  MultipleKept'
  BY <1>3, ConstStarts
<1>4. ASSUME EcmultLoop PROVE MultipleKept'
  BY <1>4, EcmultLoops
<1>5. ASSUME EcmultEnd PROVE MultipleKept'
  BY <1>5, EcmultEnds
<1>6. ASSUME ConstLoop PROVE MultipleKept'
  BY <1>6, ConstLoops
<1>7. ASSUME ConstEnd PROVE MultipleKept'
  BY <1>7, ConstEnds
<1>8. ASSUME Return PROVE MultipleKept'
  <2>1. mul'.fn = "idle" /\ KeptGej(prod')
    BY <1>8, InfinityTimes DEF Return, Idle
  <2> QED
    BY <2>1 DEF MultipleKept
<1>9. ASSUME UNCHANGED mulVars PROVE MultipleKept'
  BY <1>9 DEF EcmultInv, MultipleKept, mulVars
<1> QED
  BY <1>1, <1>2, <1>3, <1>4, <1>5, <1>6, <1>7, <1>8, <1>9 DEF EcmultNext, EcmultInv

\* It says what EcmultLaw says.
LEMMA EcmultInvGives == EcmultInv => EcmultLaw
<1> SUFFICES ASSUME EcmultInv PROVE EcmultLaw
  OBVIOUS
<1>1. mul \in Calls
  BY DEF EcmultInv, DigitsKept
<1>2. CASE mul.fn = "idle"
  BY <1>2 DEF EcmultInv, MultipleKept, EcmultLaw
<1>3. CASE mul.fn = "ecmult"
  <2> DEFINE va == ValueAbove(wna, ScalarBits, 1)[pos]
             vg == ValueAbove(wng, ScalarBits, 1)[pos]
             m == va * mul.k + vg
  <2>1. /\ mul.k \in Int /\ zed \in ZScales /\ OnTimes(prod, zed, m) /\ pos \in 0..ScalarBits
        /\ mul.na \in Scalars /\ mul.ng \in Scalars
        /\ wna = ecmult_wnaf(mul.na, WindowA).digits
        /\ wng = ecmult_wnaf(mul.ng, WindowG).digits
    BY <1>3 DEF EcmultInv, MultipleKept, DigitsKept, GlobalTable
  <2>2. Numbers(wna, ScalarBits)
    BY <2>1, WindowFacts, WnafDigits
  <2>3. Numbers(wng, ScalarBits)
    BY <2>1, WindowFacts, WnafDigits
  <2> DEFINE o == 1
  <2>4. o \in Nat /\ ScalarBits \in Nat
    BY WindowFacts
  <2>5. va \in Int /\ vg \in Int
    <3> HIDE DEF o
    <3>1. ValuesOf(ValueAbove(wna, ScalarBits, o), wna, ScalarBits, Pow2[o])
      BY <2>2, <2>4, ValueAboveIs
    <3>2. ValuesOf(ValueAbove(wng, ScalarBits, o), wng, ScalarBits, Pow2[o])
      BY <2>3, <2>4, ValueAboveIs
    <3>3. ValueAbove(wna, ScalarBits, o)[pos] \in Int /\ ValueAbove(wng, ScalarBits, o)[pos] \in Int
      BY <2>1, <3>1, <3>2 DEF ValuesOf
    <3> QED
      BY <3>3 DEF o
  <2>6. m \in Int
    <3> HIDE DEF va, vg
    <3> QED
      BY <2>1, <2>5
  <2> HIDE DEF m
  <2>7. OnTable(prod, zed) = Multiple[m % Order] /\ KeptGej(prod)
    BY <2>1, <2>6, OnTableIs
  <2> QED
    BY <1>3, <2>7 DEF EcmultLaw, m
<1>4. CASE mul.fn = "const"
  <2> DEFINE s == WindowA - 1
             v == ValueAbove(wna, ConstSize, s)[pos]
             m == v * mul.k
  <2>1. /\ mul.k \in Int /\ zed \in ZScales /\ OnTimes(prod, zed, m) /\ pos \in 0..WnafSize(s)
        /\ mul.na \in Scalars /\ wna = wnaf_const(mul.na, s).digits
    BY <1>4 DEF EcmultInv, MultipleKept, DigitsKept, WeakTable, GlobalTable
  <2>2. Numbers(wna, ConstSize) /\ WnafSize(s) \in Nat
    BY <2>1, ConstDigits
  <2>3. ConstSize \in Nat /\ pos \in 0..ConstSize /\ s \in Nat
    BY <2>1, <2>2, WindowFacts DEF ConstSize
  <2> HIDE DEF s
  <2>4. v \in Int
    <3>1. ValuesOf(ValueAbove(wna, ConstSize, s), wna, ConstSize, Pow2[s])
      BY <2>2, <2>3, ValueAboveIs
    <3> QED
      BY <2>3, <3>1 DEF ValuesOf
  <2>5. m \in Int
    <3> HIDE DEF v
    <3> QED
      BY <2>1, <2>4
  <2> HIDE DEF m
  <2>6. OnTable(prod, zed) = Multiple[m % Order] /\ KeptGej(prod)
    BY <2>1, <2>5, OnTableIs
  <2> QED
    BY <1>4, <2>6 DEF EcmultLaw, m, s
<1>5. CASE mul.fn = "done"
  <2> DEFINE m == mul.na * mul.k + mul.ng
  <2>1. m \in Int
    BY <1>1 DEF Calls
  <2>2. GejTimes(prod, m)
    BY <1>5 DEF EcmultInv, MultipleKept
  <2> HIDE DEF m
  <2>3. Times(m) \in GroupPoints
    BY <2>1, TimesFacts
  <2>4. PointOfGej(prod) = Times(m) /\ KeptGej(prod)
    BY <2>2, <2>3, PointOfGejIs DEF GejTimes
  <2> QED
    BY <1>5, <2>4 DEF EcmultLaw, Times, m
<1> QED
  BY <1>1, <1>2, <1>3, <1>4, <1>5 DEF Calls

\* EcmultLaw for every curve of prime order, window, scalar and multiplicand: after every
\* position r is the multiple that the digits read so far stand for, at the end it is
\* na * A + ng * G or scalar * A, and every magnitude is within its bound.
THEOREM ProductsAreRight == EcmultSpec => []EcmultLaw
<1>1. EcmultSpec => []EcmultInv
  BY EcmultFirst, EcmultNextKeeps, PTL DEF EcmultSpec
<1>2. EcmultInv => EcmultLaw
  BY EcmultInvGives
<1> QED
  BY <1>1, <1>2, PTL
=============================================================================
