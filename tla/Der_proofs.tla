----------------------------- MODULE Der_proofs ------------------------------
(***************************************************************************)
(* Proofs about Der, for bytes and scalars of any size: signatures as text, *)
(* and the two parsers.  First numbers in bytes: the text of a number and   *)
(* the number of a text are inverses.  Then what each parser reads of an    *)
(* integer and of a whole signature, and the invariant of the edited texts. *)
(* Induction, loops and powers of two are those of Ecmult_proofs; nothing   *)
(* here is about the curve.                                                 *)
(***************************************************************************)
EXTENDS Der, Ecmult_proofs, SequenceTheorems

\* The powers of two are the same wherever they are taken from.
LEMMA PowersSame == DerScalar!Pow2 = Pow2
  BY DEF DerScalar!Pow2, Pow2

\* What the assumption says of the bytes.
LEMMA ByteFacts ==
    /\ ByteBits \in Nat /\ ByteBits >= 1
    /\ High \in Nat /\ High >= 1 /\ Weight(1) = 2 * High /\ AllOnes = 2 * High - 1 /\ Weight(0) = 1
    /\ Bytes \subseteq Nat /\ Bytes = 0..2 * High - 1
<1>1. ByteBits \in Nat /\ ByteBits >= 1 /\ ByteBits - 1 \in Nat /\ (ByteBits - 1) + 1 = ByteBits
      /\ ByteBits * 1 = ByteBits /\ ByteBits * 0 = 0
  BY DerAssumption
<1>2. High = Pow2[ByteBits - 1] /\ Weight(1) = Pow2[ByteBits] /\ Weight(0) = Pow2[0]
  BY <1>1, PowersSame DEF High, Weight
<1>3. Pow2[ByteBits] = 2 * Pow2[ByteBits - 1] /\ Pow2[ByteBits - 1] \in Nat /\ Pow2[ByteBits - 1] >= 1
  <2>1. ByteBits # 0
    BY <1>1
  <2> QED
    BY <1>1, <2>1, Pow2Facts
<1>4. Pow2[0] = 1
  BY Pow2Facts
<1>5. AllOnes = 2 * High - 1
  BY <1>2, <1>3 DEF AllOnes
<1> QED
  BY <1>1, <1>2, <1>3, <1>4, <1>5 DEF Bytes

\* One byte more.
LEMMA WeightStep ==
    ASSUME NEW n \in Nat
    PROVE  /\ Weight(n) \in Nat /\ Weight(n) >= 1
           /\ Weight(n + 1) = Weight(n) * Weight(1)
<1>1. ByteBits * n \in Nat /\ ByteBits \in Nat /\ ByteBits * (n + 1) = ByteBits * n + ByteBits
      /\ ByteBits * 1 = ByteBits
  BY ByteFacts
<1>2. Pow2[ByteBits * n + ByteBits] = Pow2[ByteBits * n] * Pow2[ByteBits]
  BY <1>1, Pow2Sum
<1>3. Pow2[ByteBits * n] \in Nat /\ Pow2[ByteBits * n] >= 1
  BY <1>1, Pow2Facts
<1> QED
  BY <1>1, <1>2, <1>3, PowersSame DEF Weight

\* More bytes have room for more.
LEMMA WeightGrows ==
    ASSUME NEW m \in Nat, NEW n \in Nat, m <= n
    PROVE  Weight(m) <= Weight(n)
<1>1. ByteBits * m \in Nat /\ ByteBits * n \in Nat /\ ByteBits * m <= ByteBits * n
  <2>1. n - m \in Nat /\ ByteBits \in Nat /\ ByteBits * (n - m) \in Nat /\ ByteBits * n = ByteBits * m + ByteBits * (n - m)
    BY ByteFacts
  <2> QED
    BY <2>1
<1>2. Pow2[ByteBits * m] <= Pow2[ByteBits * n]
  BY <1>1, Pow2Grows
<1> QED
  BY <1>2, PowersSame DEF Weight
-----------------------------------------------------------------------------
\* f is the number of the first i bytes, for every i.
NumbersOf(f, b) ==
    f = [i \in 0..Len(b) |-> IF i = 0 THEN 0 ELSE f[i - 1] * Weight(1) + b[i]]

\* Two such functions are the same.
LEMMA NumbersSame ==
    ASSUME NEW b \in Seq(Int), NEW f, NumbersOf(f, b), NEW g, g[0] = 0,
           \A i \in 1..Len(b) : g[i] = g[i - 1] * Weight(1) + b[i]
    PROVE  \A i \in 0..Len(b) : f[i] = g[i]
<1> DEFINE T == {i \in 0..Len(b) : f[i] = g[i]}
<1>0. Len(b) \in Nat
  OBVIOUS
<1>1. 0 \in T
  BY <1>0 DEF NumbersOf
<1>2. ASSUME NEW i \in 0+1..Len(b), i - 1 \in T PROVE i \in T
  <2>1. i # 0 /\ i \in 0..Len(b) /\ i \in 1..Len(b) /\ f[i - 1] = g[i - 1]
    BY <1>0, <1>2
  <2>2. f[i] = f[i - 1] * Weight(1) + b[i]
    BY <2>1 DEF NumbersOf
  <2> QED
    BY <2>1, <2>2
<1>3. \A i \in 0..Len(b) : i \in T
  <2> DEFINE n == Len(b)
  <2>1. n \in Int /\ 0 \in Int /\ 0 \in T /\ \A i \in 0+1..n : i - 1 \in T => i \in T
    BY <1>0, <1>1, <1>2
  <2> HIDE DEF T, n
  <2>2. \A i \in 0..n : i \in T
    BY <2>1, Upward
  <2> QED
    BY <2>2 DEF n
<1> QED
  BY <1>3

\* The recursive function of NumberOf is one.
LEMMA NumberIs ==
    ASSUME NEW b \in Seq(Int)
    PROVE  \E f \in [0..Len(b) -> Int] : NumbersOf(f, b) /\ NumberOf(b) = f[Len(b)]
<1> DEFINE G == [p \in (1..Len(b)) \X Int |-> p[2] * Weight(1) + b[p[1]]]
<1>0. Len(b) \in Int /\ Weight(1) \in Int /\ 0 \in Int
  BY ByteFacts
<1>1. G \in [(1..Len(b)) \X Int -> Int]
  <2>1. ASSUME NEW p \in (1..Len(b)) \X Int PROVE p[2] * Weight(1) + b[p[1]] \in Int
    <3>1. p[1] \in 1..Len(b) /\ p[2] \in Int /\ b[p[1]] \in Int
      OBVIOUS
    <3> HIDE DEF Weight
    <3> QED
      BY <3>1, <1>0
  <2> QED
    BY <2>1
<1>2. PICK f \in [0..Len(b) -> Int] : UpLoop(f, 0, Len(b), 0, G)
  <2> HIDE DEF G
  <2> QED
    BY <1>0, <1>1, Loop0
<1>3. NumbersOf(f, b)
  <2>1. ASSUME NEW i \in 0..Len(b)
        PROVE  (IF i = 0 THEN 0 ELSE G[<<i, f[i - 1]>>]) = IF i = 0 THEN 0 ELSE f[i - 1] * Weight(1) + b[i]
    <3>1. CASE i = 0
      BY <3>1
    <3>2. CASE i # 0
      <4>1. i \in 1..Len(b) /\ i - 1 \in 0..Len(b)
        BY <3>2
      <4>2. <<i, f[i - 1]>> \in (1..Len(b)) \X Int
        BY <4>1
      <4> QED
        BY <3>2, <4>2
    <3> QED
      BY <3>1, <3>2
  <2> HIDE DEF G
  <2> QED
    BY <1>2, <2>1 DEF UpLoop, NumbersOf
<1> DEFINE num == CHOOSE num : num = [i \in 0..Len(b) |-> IF i = 0 THEN 0 ELSE num[i - 1] * Weight(1) + b[i]]
<1>4. NumbersOf(num, b)
  BY <1>3 DEF NumbersOf
<1>5. NumberOf(b) = num[Len(b)]
  BY DEF NumberOf
<1>6. f[0] = 0 /\ \A i \in 1..Len(b) : f[i] = f[i - 1] * Weight(1) + b[i]
  <2>1. Len(b) \in Nat
    OBVIOUS
  <2>2. 0 \in 0..Len(b)
    BY <2>1
  <2>3. \A i \in 1..Len(b) : i \in 0..Len(b) /\ i # 0
    BY <2>1
  <2> QED
    BY <2>2, <2>3, <1>3 DEF NumbersOf
<1>7. num[Len(b)] = f[Len(b)]
  <2>1. \A i \in 0..Len(b) : num[i] = f[i]
    <3> HIDE DEF num
    <3> QED
      BY <1>4, <1>6, NumbersSame
  <2>2. Len(b) \in 0..Len(b)
    BY <1>0
  <2> HIDE DEF num
  <2> QED
    BY <2>1, <2>2
<1> QED
  BY <1>3, <1>5, <1>7

\* What is computed byte by byte is the number.
LEMMA NumberBy ==
    ASSUME NEW b \in Seq(Int), NEW g, g[0] = 0,
           \A i \in 1..Len(b) : g[i] = g[i - 1] * Weight(1) + b[i]
    PROVE  NumberOf(b) = g[Len(b)]
<1>1. PICK f \in [0..Len(b) -> Int] : NumbersOf(f, b) /\ NumberOf(b) = f[Len(b)]
  BY NumberIs
<1>2. Len(b) \in 0..Len(b)
  OBVIOUS
<1> QED
  BY <1>1, <1>2, NumbersSame
-----------------------------------------------------------------------------
\* The numbers of the first bytes, with what is known of them.
Horner(f, b) ==
    /\ f \in [0..Len(b) -> Int] /\ f[0] = 0 /\ NumberOf(b) = f[Len(b)]
    /\ \A i \in 1..Len(b) : /\ f[i] = f[i - 1] * Weight(1) + b[i]
                            /\ f[i - 1] = f[i] \div Weight(1) /\ b[i] = f[i] % Weight(1)
    /\ \A i \in 0..Len(b) : 0 <= f[i] /\ f[i] < Weight(i)
    /\ \A i \in 1..Len(b) : b[1] # 0 => f[i] >= Weight(i - 1)
    /\ \A i \in 0..Len(b) : (\A j \in 1..i : b[j] = 0) => f[i] = 0

\* One more byte.
LEMMA HornerStep ==
    ASSUME NEW x \in Int, NEW w \in Int, 0 <= x, x < w, NEW d \in Nat, d >= 1, NEW c \in 0..d-1
    PROVE  /\ 0 <= x * d + c /\ x * d + c < w * d
           /\ x = (x * d + c) \div d /\ c = (x * d + c) % d
           /\ \A v \in Nat : x >= v => x * d + c >= v * d
<1>1. x * d >= 0 /\ (w - 1 - x) * d >= 0 /\ (w - 1 - x) * d = w * d - d - x * d
  BY x >= 0, w - 1 - x >= 0
<1>2. \A v \in Nat : x >= v => (x - v) * d >= 0 /\ (x - v) * d = x * d - v * d
  OBVIOUS
<1>3. x * d \in Int /\ w * d \in Int /\ \A v \in Nat : v * d \in Int
  OBVIOUS
<1> DEFINE y == x * d + c
<1>4. y \in Int /\ d \in Nat \ {0} /\ y = d * x + c
  OBVIOUS
<1>5. y \div d = x /\ y % d = c
  <2> HIDE DEF y
  <2> QED
    BY <1>4, DivisionUnique
<1> QED
  BY <1>1, <1>2, <1>3, <1>5

\* Each sequence of bytes has them.
LEMMA HornerExists == ASSUME NEW b \in Seq(Bytes) PROVE \E f : Horner(f, b)
<1>1. b \in Seq(Int) /\ Len(b) \in Nat /\ \A i \in 1..Len(b) : b[i] \in 0..Weight(1)-1
  <2>1. Bytes \subseteq Int
    BY ByteFacts
  <2>2. Bytes = 0..Weight(1)-1
    BY DEF Bytes, AllOnes
  <2>3. Len(b) \in Nat /\ b \in [1..Len(b) -> Bytes]
    OBVIOUS
  <2>4. b \in Seq(Int)
    BY <2>1, SeqMonotonic
  <2>5. \A i \in 1..Len(b) : b[i] \in Bytes
    BY <2>3
  <2> QED
    BY <2>2, <2>3, <2>4, <2>5
<1>2. PICK f \in [0..Len(b) -> Int] : NumbersOf(f, b) /\ NumberOf(b) = f[Len(b)]
  BY <1>1, NumberIs
<1>3. f[0] = 0 /\ \A i \in 1..Len(b) : f[i] = f[i - 1] * Weight(1) + b[i]
  <2>1. 0 \in 0..Len(b) /\ \A i \in 1..Len(b) : i \in 0..Len(b) /\ i # 0
    BY <1>1
  <2> QED
    BY <2>1, <1>2 DEF NumbersOf
<1> DEFINE Good(i) == /\ 0 <= f[i] /\ f[i] < Weight(i)
                      /\ i # 0 => f[i] = f[i - 1] * Weight(1) + b[i]
                                  /\ f[i - 1] = f[i] \div Weight(1) /\ b[i] = f[i] % Weight(1)
                      /\ i # 0 /\ b[1] # 0 => f[i] >= Weight(i - 1)
                      /\ (\A j \in 1..i : b[j] = 0) => f[i] = 0
           T == {i \in Nat : i <= Len(b) => Good(i)}
           n == Len(b)
<1>4. n \in Int /\ 0 \in Int /\ 0 \in T
  BY <1>1, <1>3, ByteFacts
<1>5. ASSUME NEW i \in 0+1..n, i - 1 \in T PROVE i \in T
  <2>1. i \in Nat /\ i # 0 /\ i - 1 \in Nat /\ i \in 1..Len(b) /\ i - 1 <= Len(b) /\ (i - 1) + 1 = i
        /\ i - 1 \in 0..Len(b)
    BY <1>1, <1>5
  <2>2. Good(i - 1)
    BY <1>5, <2>1
  <2> DEFINE x == f[i - 1]
             w == Weight(i - 1)
             d == Weight(1)
             c == b[i]
  <2>3. x \in Int /\ w \in Int /\ 0 <= x /\ x < w /\ d \in Nat /\ d >= 1 /\ c \in 0..d-1
    <3>1. f[i - 1] \in Int /\ 0 <= f[i - 1] /\ f[i - 1] < Weight(i - 1)
      BY <1>2, <2>1, <2>2
    <3>2. Weight(i - 1) \in Nat /\ Weight(1) \in Nat /\ Weight(1) >= 1
      BY <2>1, WeightStep
    <3>3. b[i] \in 0..Weight(1)-1
      BY <1>1, <2>1
    <3> QED
      BY <3>1, <3>2, <3>3
  <2>4. f[i] = x * d + c /\ Weight(i) = w * d
    BY <1>3, <2>1, WeightStep
  <2>5. w \in Nat
    BY <2>1, WeightStep
  <2>6. i - 1 # 0 /\ b[1] # 0 => x >= Weight((i - 1) - 1) /\ Weight((i - 1) - 1) * d = w
    <3>1. i - 1 # 0 => (i - 1) - 1 \in Nat /\ ((i - 1) - 1) + 1 = i - 1
      BY <2>1
    <3> QED
      BY <2>2, <3>1, WeightStep
  <2>7. (i - 1) - 1 \in Nat => Weight((i - 1) - 1) \in Nat
    BY WeightStep
  <2>8. i - 1 = 0 => x = 0 /\ w = 1 /\ c = b[1]
    BY <1>3, ByteFacts
  <2>9. (\A j \in 1..i : b[j] = 0) => x = 0 /\ c = 0
    BY <2>1, <2>2
  <2> HIDE DEF x, w, d, c
  <2>10. /\ 0 <= x * d + c /\ x * d + c < w * d
         /\ x = (x * d + c) \div d /\ c = (x * d + c) % d
         /\ \A v \in Nat : x >= v => x * d + c >= v * d
    BY <2>3, HornerStep
  <2>11. b[1] # 0 => x * d + c >= w
    <3>1. CASE i - 1 = 0
      <4>1. x * d = 0
        BY <2>3, <2>8, <3>1
      <4> QED
        BY <2>3, <2>8, <3>1, <4>1
    <3>2. CASE i - 1 # 0
      <4>1. (i - 1) - 1 \in Nat
        BY <2>1, <3>2
      <4> QED
        BY <2>6, <2>7, <2>10, <3>2, <4>1
    <3> QED
      BY <3>1, <3>2
  <2>12. (\A j \in 1..i : b[j] = 0) => x * d + c = 0
    BY <2>3, <2>9
  <2>13. Good(i)
    BY <2>4, <2>10, <2>11, <2>12 DEF x, w, d, c
  <2> HIDE DEF Good
  <2> QED
    BY <2>1, <2>13
<1>6. \A i \in 0..n : i \in T
  <2> HIDE DEF T, n
  <2> QED
    BY <1>4, <1>5, Upward
<1>7. \A i \in 0..Len(b) : Good(i)
  <2>1. ASSUME NEW i \in 0..Len(b) PROVE i \in Nat /\ i <= Len(b) /\ i \in 0..n
    BY <1>1
  <2> HIDE DEF Good
  <2> QED
    BY <1>6, <2>1
<1>8. \A i \in 1..Len(b) : i \in 0..Len(b) /\ i # 0
  BY <1>1
<1>9. Horner(f, b)
  BY <1>2, <1>3, <1>7, <1>8 DEF Horner
<1> QED
  BY <1>9
-----------------------------------------------------------------------------
\* b starts with k zeros and no more.
Zeros(k, b) ==
    /\ k \in 0..Len(b) /\ \A j \in 1..k : b[j] = 0
    /\ k # Len(b) => b[k + 1] # 0

\* Stripped leaves out as many zeros as there are.
LEMMA StrippedIs ==
    ASSUME NEW b \in Seq(Int)
    PROVE  /\ \E k : Zeros(k, b)
           /\ \A k : Zeros(k, b) => Stripped(b) = SubSeq(b, k + 1, Len(b))
<1> DEFINE zeros == {i \in 0..Len(b) : \A j \in 1..i : b[j] = 0}
           n == Len(b)
<1>1. n \in Nat /\ zeros \subseteq 0..n /\ 0 \in zeros
  OBVIOUS
<1>2. \E i \in zeros : \A j \in zeros : j <= i
  <2> HIDE DEF zeros, n
  <2> QED
    BY <1>1, LargestExists
<1>3. \A k : Zeros(k, b) <=> k \in zeros /\ \A j \in zeros : j <= k
  <2>1. ASSUME NEW k, Zeros(k, b) PROVE k \in zeros /\ \A j \in zeros : j <= k
    <3>1. k \in 0..Len(b) /\ (\A j \in 1..k : b[j] = 0) /\ (k # Len(b) => b[k + 1] # 0)
      BY <2>1 DEF Zeros
    <3>2. ASSUME NEW j \in zeros, j > k PROVE FALSE
      <4>1. j \in 0..Len(b) /\ k # Len(b) /\ k + 1 \in 1..j
        BY <1>1, <3>1, <3>2
      <4>2. b[k + 1] = 0
        BY <4>1
      <4> QED
        BY <3>1, <4>1, <4>2
    <3>3. \A j \in zeros : j \in Nat /\ k \in Nat
      BY <1>1, <3>1
    <3>4. k \in zeros
      BY <3>1
    <3> HIDE DEF zeros
    <3> QED
      BY <3>2, <3>3, <3>4
  <2>2. ASSUME NEW k \in zeros, \A j \in zeros : j <= k PROVE Zeros(k, b)
    <3>1. k \in 0..Len(b) /\ \A j \in 1..k : b[j] = 0
      OBVIOUS
    <3>2. ASSUME k # Len(b), b[k + 1] = 0 PROVE FALSE
      <4>1. k + 1 \in 0..Len(b) /\ \A j \in 1..k+1 : b[j] = 0
        BY <1>1, <3>1, <3>2
      <4>2. k + 1 \in zeros
        BY <4>1
      <4>3. k + 1 <= k /\ k \in Nat
        BY <2>2, <3>1, <4>2
      <4> QED
        BY <4>3
    <3> QED
      BY <3>1, <3>2 DEF Zeros
  <2> HIDE DEF zeros
  <2> QED
    BY <2>1, <2>2
<1> DEFINE c == CHOOSE i \in zeros : \A j \in zeros : j <= i
<1>4. c \in zeros /\ \A j \in zeros : j <= c
  <2> HIDE DEF zeros
  <2> QED
    BY <1>2
<1>5. Stripped(b) = SubSeq(b, 1 + c, Len(b))
  BY DEF Stripped
<1> HIDE DEF c
<1>6. ASSUME NEW k, Zeros(k, b) PROVE Stripped(b) = SubSeq(b, k + 1, Len(b))
  <2>1. k \in zeros /\ \A j \in zeros : j <= k
    <3> HIDE DEF zeros
    <3> QED
      BY <1>3, <1>6
  <2>2. c <= k /\ k <= c /\ c \in Nat /\ k \in Nat
    BY <1>1, <1>4, <2>1
  <2>3. 1 + c = k + 1
    BY <2>2
  <2> QED
    BY <1>5, <2>3
<1>7. Zeros(c, b)
  <2> HIDE DEF zeros
  <2> QED
    BY <1>3, <1>4
<1> QED
  BY <1>6, <1>7

\* What is left, and that it is the same number.
LEMMA StrippedNumber ==
    ASSUME NEW b \in Seq(Bytes)
    PROVE  /\ Stripped(b) \in Seq(Bytes) /\ Len(Stripped(b)) <= Len(b)
           /\ Len(Stripped(b)) # 0 => Stripped(b)[1] # 0
           /\ NumberOf(Stripped(b)) = NumberOf(b)
<1>1. Bytes \subseteq Int /\ b \in Seq(Int) /\ Len(b) \in Nat
  <2>1. Bytes \subseteq Int
    BY ByteFacts
  <2> QED
    BY <2>1, SeqMonotonic, LenProperties
<1>2. PICK k : Zeros(k, b)
  BY <1>1, StrippedIs
<1>3. k \in 0..Len(b) /\ (\A j \in 1..k : b[j] = 0) /\ (k # Len(b) => b[k + 1] # 0)
  BY <1>2 DEF Zeros
<1> DEFINE d == SubSeq(b, k + 1, Len(b))
<1>4. Stripped(b) = d
  BY <1>1, <1>2, StrippedIs
<1>5. \A i \in (k + 1)..Len(b) : b[i] \in Bytes
  <2>1. \A i \in (k + 1)..Len(b) : i \in 1..Len(b)
    BY <1>3
  <2> QED
    BY <2>1, ElementOfSeq
<1>6. /\ d \in Seq(Bytes) /\ Len(d) = (IF k + 1 <= Len(b) THEN Len(b) - (k + 1) + 1 ELSE 0)
      /\ \A i \in 1..Len(b) - (k + 1) + 1 : d[i] = b[k + 1 + i - 1]
  <2>1. k + 1 \in Int /\ Len(b) \in Int
    BY <1>1, <1>3
  <2> QED
    BY <1>5, <2>1, SubSeqProperties
<1> HIDE DEF d
<1>7. Len(d) = Len(b) - k /\ \A i \in 1..Len(d) : d[i] = b[k + i]
  <2>1. Len(d) = Len(b) - k
    BY <1>1, <1>3, <1>6
  <2>2. \A i \in 1..Len(d) : i \in 1..Len(b) - (k + 1) + 1 /\ k + 1 + i - 1 = k + i
    BY <1>1, <1>3, <2>1
  <2> QED
    BY <1>6, <2>1, <2>2
<1>8. PICK f : Horner(f, b)
  BY HornerExists
<1> DEFINE g == [i \in 0..Len(d) |-> f[k + i]]
<1>9. g[0] = 0
  <2>1. 0 \in 0..Len(d) /\ k + 0 = k
    BY <1>1, <1>3, <1>7
  <2>2. f[k] = 0
    BY <1>3, <1>8 DEF Horner
  <2> QED
    BY <2>1, <2>2
<1>10. ASSUME NEW i \in 1..Len(d) PROVE g[i] = g[i - 1] * Weight(1) + d[i]
  <2>1. k + i \in 1..Len(b) /\ (k + i) - 1 = k + (i - 1) /\ i \in 0..Len(d) /\ i - 1 \in 0..Len(d)
    BY <1>1, <1>3, <1>7
  <2>2. f[k + i] = f[(k + i) - 1] * Weight(1) + b[k + i]
    BY <1>8, <2>1 DEF Horner
  <2> QED
    BY <1>7, <2>1, <2>2
<1>11. d \in Seq(Int)
  BY <1>1, <1>6, SeqMonotonic
<1>12. NumberOf(d) = g[Len(d)]
  <2> HIDE DEF g
  <2> QED
    BY <1>9, <1>10, <1>11, NumberBy
<1>13. g[Len(d)] = f[Len(b)]
  <2>1. Len(d) \in 0..Len(d) /\ k + Len(d) = Len(b)
    BY <1>1, <1>3, <1>7
  <2> QED
    BY <2>1
<1>14. NumberOf(b) = f[Len(b)]
  BY <1>8 DEF Horner
<1>15. Len(d) # 0 => d[1] # 0
  <2>1. Len(d) # 0 => 1 \in 1..Len(d) /\ k # Len(b)
    BY <1>1, <1>3, <1>7
  <2> QED
    BY <1>3, <1>7, <2>1
<1> QED
  BY <1>1, <1>3, <1>4, <1>6, <1>7, <1>12, <1>13, <1>14, <1>15
-----------------------------------------------------------------------------
\* Division by one byte more.
LEMMA DivByMore ==
    ASSUME NEW v \in Nat, NEW n \in Nat
    PROVE  /\ v \div Weight(n + 1) = (v \div Weight(n)) \div Weight(1)
           /\ v \div Weight(n) \in Nat /\ v \div Weight(0) = v
<1> DEFINE a == Weight(n)
           c == Weight(1)
<1>1. a \in Nat \ {0} /\ c \in Nat \ {0} /\ Weight(n + 1) = a * c
  BY WeightStep
<1>2. Weight(0) = 1
  BY ByteFacts
<1> HIDE DEF a, c
<1>3. v \div (a * c) = (v \div a) \div c
  <2> DEFINE D(x, y, z) == /\ y * z \in Nat \ {0}
                           /\ x % (y * z) = (x % y) + y * ((x \div y) % z)
                           /\ x \div (y * z) = (x \div y) \div z
  <2>1. \A x \in Nat, y \in Nat \ {0}, z \in Nat \ {0} : D(x, y, z)
    BY DigitsAbove
  <2>2. D(v, a, c)
    <3> HIDE DEF D
    <3> QED
      BY <1>1, <2>1
  <2> QED
    BY <2>2
<1>4. v \div a \in Nat
  <2>1. v \in Int /\ v >= 0
    OBVIOUS
  <2>2. v \div a \in Int /\ v \div a >= 0
    BY <1>1, <2>1, Division
  <2> QED
    BY <2>2
<1>5. v \div 1 = v
  OBVIOUS
<1> QED
  BY <1>1, <1>2, <1>3, <1>4, <1>5 DEF a, c

\* The bytes of a number that n bytes have room for.
LEMMA BytesOfIs ==
    ASSUME NEW n \in Nat, NEW v \in Nat, v < Weight(n)
    PROVE  /\ BytesOf(v, n) \in Seq(Bytes) /\ Len(BytesOf(v, n)) = n
           /\ \A i \in 1..n : BytesOf(v, n)[i] = (v \div Weight(n - i)) % Weight(1)
           /\ NumberOf(BytesOf(v, n)) = v
<1> DEFINE b == BytesOf(v, n)
<1>1. b = [i \in 1..n |-> (v \div Weight(n - i)) % Weight(1)]
  BY DEF BytesOf
<1>2. ASSUME NEW i \in 1..n
      PROVE  (v \div Weight(n - i)) % Weight(1) \in Bytes
  <2> DEFINE q == v \div Weight(n - i)
             d == Weight(1)
  <2>1. q \in Nat /\ d \in Nat \ {0}
    <3>1. n - i \in Nat /\ 1 \in Nat
      OBVIOUS
    <3>2. q \in Nat
      BY <3>1, DivByMore
    <3>3. d \in Nat /\ d >= 1
      BY <3>1, WeightStep
    <3> QED
      BY <3>2, <3>3
  <2> HIDE DEF q, d
  <2>2. q % d \in 0..d-1
    BY <2>1, Division
  <2> QED
    BY <2>2 DEF q, d, Bytes, AllOnes
<1>3. b \in Seq(Bytes) /\ Len(b) = n
  <2>1. b \in [1..n -> Bytes]
    BY <1>1, <1>2
  <2> HIDE DEF b
  <2> QED
    BY <2>1
<1>4. \A i \in 1..n : b[i] = (v \div Weight(n - i)) % Weight(1)
  BY <1>1
<1> HIDE DEF b
<1>5. b \in Seq(Int)
  BY <1>3, ByteFacts, SeqMonotonic
<1> DEFINE g == [i \in 0..n |-> v \div Weight(n - i)]
<1>6. g[0] = 0
  <2>1. g[0] = v \div Weight(n) /\ Weight(n) \in Nat
    BY WeightStep
  <2> QED
    BY <2>1
<1>7. ASSUME NEW i \in 1..n PROVE g[i] = g[i - 1] * Weight(1) + b[i]
  <2> DEFINE q == v \div Weight(n - i)
             d == Weight(1)
  <2>1. n - i \in Nat /\ (n - i) + 1 = n - (i - 1) /\ i \in 0..n /\ i - 1 \in 0..n
    OBVIOUS
  <2>2. g[i] = q /\ g[i - 1] = q \div d /\ q \in Nat /\ d \in Nat \ {0}
    <3>1. q \in Nat /\ v \div Weight((n - i) + 1) = q \div d
      BY <2>1, DivByMore
    <3>2. d \in Nat /\ d >= 1
      BY WeightStep, 1 \in Nat
    <3>3. g[i] = q /\ g[i - 1] = v \div Weight((n - i) + 1)
      BY <2>1
    <3> HIDE DEF q, d, g
    <3> QED
      BY <3>1, <3>2, <3>3
  <2>3. b[i] = q % d
    BY <1>4
  <2> HIDE DEF q, d, g
  <2>4. q = d * (q \div d) + (q % d) /\ q \div d \in Int /\ q % d \in Int
    <3>1. q \in Int
      BY <2>2
    <3> QED
      BY <2>2, <3>1, Division
  <2>5. g[i] = g[i - 1] * d + b[i]
    BY <2>2, <2>3, <2>4
  <2> QED
    BY <2>5 DEF d
<1>8. NumberOf(b) = g[n]
  <2>1. g[0] = 0 /\ \A i \in 1..Len(b) : g[i] = g[i - 1] * Weight(1) + b[i]
    BY <1>3, <1>6, <1>7
  <2> HIDE DEF g
  <2> QED
    BY <1>3, <1>5, <2>1, NumberBy
<1>9. g[n] = v
  <2>1. n \in 0..n /\ n - n = 0
    OBVIOUS
  <2> QED
    BY <2>1, DivByMore
<1> QED
  BY <1>3, <1>4, <1>8, <1>9 DEF b

\* Bytes without zeros in front are found again from their number.
LEMMA NumberBytes ==
    ASSUME NEW d \in Seq(Bytes), NEW m \in Nat, Len(d) <= m, Len(d) # 0 => d[1] # 0
    PROVE  /\ NumberOf(d) \in Nat /\ NumberOf(d) < Weight(Len(d)) /\ NumberOf(d) < Weight(m)
           /\ Len(d) # 0 => NumberOf(d) >= Weight(Len(d) - 1)
           /\ Stripped(BytesOf(NumberOf(d), m)) = d
<1> DEFINE n == Len(d)
           v == NumberOf(d)
<1>1. PICK f : Horner(f, d)
  BY HornerExists
<1>2. n \in Nat /\ n \in 0..n /\ (n # 0 => n \in 1..n)
  OBVIOUS
<1>3. v = f[n] /\ v \in Nat /\ v < Weight(n) /\ (n # 0 => v >= Weight(n - 1))
  BY <1>1, <1>2 DEF Horner
<1>4. Weight(n) <= Weight(m) /\ Weight(n) \in Nat /\ Weight(m) \in Nat
  BY <1>2, WeightGrows, WeightStep
<1>5. v < Weight(m)
  BY <1>3, <1>4
<1> HIDE DEF v
<1>6. \A j \in 0..n : v \div Weight(n - j) = f[j]
  <2> DEFINE T == {j \in 0..n : v \div Weight(n - j) = f[j]}
  <2>1. n \in T
    <3>1. n - n = 0
      BY <1>2
    <3> QED
      BY <1>2, <1>3, <3>1, DivByMore
  <2>2. ASSUME NEW j \in 0..n-1, j + 1 \in T PROVE j \in T
    <3>1. j \in 0..n /\ j + 1 \in 1..n /\ (j + 1) - 1 = j /\ n - (j + 1) \in Nat /\ (n - (j + 1)) + 1 = n - j
      BY <1>2
    <3>2. v \div Weight(n - (j + 1)) = f[j + 1]
      BY <2>2
    <3>3. f[j] = f[j + 1] \div Weight(1)
      BY <1>1, <3>1 DEF Horner
    <3>4. v \div Weight((n - (j + 1)) + 1) = (v \div Weight(n - (j + 1))) \div Weight(1)
      BY <1>3, <3>1, DivByMore
    <3> QED
      BY <3>1, <3>2, <3>3, <3>4
  <2>3. n \in Int /\ 0 \in Int /\ 0 <= n
    BY <1>2
  <2>4. \A j \in 0..n : j \in T
    <3> HIDE DEF T, n
    <3> QED
      BY <2>1, <2>2, <2>3, Downward
  <2> QED
    BY <2>4
<1> DEFINE b == BytesOf(v, m)
           k == m - n
<1>7. b \in Seq(Bytes) /\ Len(b) = m /\ \A i \in 1..m : b[i] = (v \div Weight(m - i)) % Weight(1)
  BY <1>3, <1>5, BytesOfIs
<1> HIDE DEF b
<1>8. k \in 0..m /\ m = k + n
  BY <1>2
<1>9. ASSUME NEW j \in 1..k PROVE b[j] = 0
  <2> DEFINE w == Weight(m - j)
             c == Weight(1)
  <2>1. j \in 1..m /\ m - j \in Nat /\ n <= m - j
    BY <1>2
  <2>2. Weight(n) <= w /\ w \in Nat /\ w >= 1 /\ c \in Nat /\ c >= 1
    BY <1>2, <2>1, WeightGrows, WeightStep
  <2>3. b[j] = (v \div w) % c
    BY <1>7, <2>1
  <2> HIDE DEF w, c
  <2>4. v < w
    BY <1>3, <1>4, <2>2
  <2>5. v \div w = 0 /\ 0 % c = 0
    BY <1>3, <2>2, <2>4
  <2> QED
    BY <2>3, <2>5
<1>10. ASSUME NEW j \in 1..n PROVE b[k + j] = d[j]
  <2>1. k + j \in 1..m /\ m - (k + j) = n - j /\ j \in 0..n
    BY <1>2, <1>8
  <2>2. d[j] = f[j] % Weight(1)
    BY <1>1 DEF Horner
  <2> QED
    BY <1>6, <1>7, <2>1, <2>2
<1>11. Zeros(k, b)
  <2>1. k # m => 1 \in 1..n
    BY <1>2, <1>8
  <2>2. k # m => b[k + 1] # 0
    BY <1>10, <2>1
  <2> HIDE DEF k
  <2> QED
    BY <1>7, <1>8, <1>9, <2>2 DEF Zeros
<1>12. Stripped(b) = SubSeq(b, k + 1, m)
  <2>1. b \in Seq(Int)
    BY <1>7, ByteFacts, SeqMonotonic
  <2> HIDE DEF k
  <2> QED
    BY <1>7, <1>11, <2>1, StrippedIs
<1> DEFINE s == SubSeq(b, k + 1, m)
<1> HIDE DEF k
<1>13. /\ s \in Seq(Bytes) /\ Len(s) = (IF k + 1 <= m THEN m - (k + 1) + 1 ELSE 0)
       /\ \A i \in 1..m - (k + 1) + 1 : s[i] = b[k + 1 + i - 1]
  <2>1. \A i \in (k + 1)..m : b[i] \in Bytes
    <3>1. \A i \in (k + 1)..m : i \in 1..Len(b)
      BY <1>7, <1>8
    <3> QED
      BY <1>7, <3>1, ElementOfSeq
  <2>2. k + 1 \in Int /\ m \in Int
    BY <1>8
  <2> QED
    BY <2>1, <2>2, SubSeqProperties
<1> HIDE DEF s
<1>14. Len(s) = n /\ \A i \in 1..n : s[i] = d[i]
  <2>1. Len(s) = n
    BY <1>2, <1>8, <1>13
  <2>2. \A i \in 1..n : i \in 1..m - (k + 1) + 1 /\ k + 1 + i - 1 = k + i
    BY <1>2, <1>8
  <2> QED
    BY <1>10, <1>13, <2>1, <2>2
<1>15. s = d
  BY <1>13, <1>14, SeqEqual
<1> QED
  BY <1>3, <1>5, <1>12, <1>15 DEF b, s, v
-----------------------------------------------------------------------------
\* What is written for digits: a zero in front of them where it is needed.
SignedForm(d) == IF d = <<>> \/ d[1] >= High THEN <<0>> \o d ELSE d

\* It is a positive number without padding, of the same digits.
LEMMA SignedFormIs ==
    ASSUME NEW d \in Seq(Bytes), Len(d) # 0 => d[1] # 0
    PROVE  LET p == SignedForm(d)
           IN  /\ p \in Seq(Bytes) /\ Len(p) \in 1..Len(d) + 1
               /\ p[1] < High /\ ~Padded(p) /\ Stripped(p) = d
<1> DEFINE p == SignedForm(d)
<1>1. High \in Nat /\ High >= 1 /\ AllOnes >= High /\ 0 \in Bytes /\ Bytes \subseteq Int
  BY ByteFacts
<1>2. Len(d) \in Nat /\ (\A i \in 1..Len(d) : d[i] \in Bytes /\ d[i] \in Int) /\ (d = <<>> <=> Len(d) = 0)
  <2>1. Len(d) \in Nat /\ \A i \in 1..Len(d) : d[i] \in Bytes
    BY ElementOfSeq, LenProperties
  <2>2. d = <<>> <=> Len(d) = 0
    OBVIOUS
  <2> QED
    BY <1>1, <2>1, <2>2
<1>3. CASE d = <<>> \/ d[1] >= High
  <2>1. p = <<0>> \o d
    BY <1>3 DEF SignedForm
  <2>2. <<0>> \in Seq(Bytes) /\ Len(<<0>>) = 1 /\ <<0>>[1] = 0
    BY <1>1
  <2>3. /\ p \in Seq(Bytes) /\ Len(p) = 1 + Len(d)
        /\ \A i \in 1..1 + Len(d) : p[i] = IF i <= 1 THEN <<0>>[i] ELSE d[i - 1]
    BY <2>1, <2>2, ConcatProperties
  <2> HIDE DEF p
  <2>4. p[1] = 0 /\ \A i \in 1..Len(d) : p[i + 1] = d[i]
    <3>1. 1 \in 1..1 + Len(d) /\ \A i \in 1..Len(d) : i + 1 \in 1..1 + Len(d) /\ ~(i + 1 <= 1) /\ (i + 1) - 1 = i
      BY <1>2
    <3> QED
      BY <2>2, <2>3, <3>1
  <2>5. Len(d) # 0 => p[2] = d[1] /\ d[1] >= High
    <3>1. Len(d) # 0 => 1 \in 1..Len(d) /\ 1 + 1 = 2
      BY <1>2
    <3> QED
      BY <1>2, <1>3, <2>4, <3>1
  <2>6. ~Padded(p)
    <3>1. Len(p) > 1 => Len(d) # 0
      BY <1>2, <2>3
    <3>2. Len(p) > 1 => p[1] = 0 /\ p[2] >= High /\ p[2] \in Int /\ p[1] # AllOnes
      <4>1. Len(d) # 0 => 1 \in 1..Len(d)
        BY <1>2
      <4> QED
        BY <1>1, <1>2, <2>4, <2>5, <3>1, <4>1
    <3> QED
      BY <1>1, <3>2 DEF Padded
  <2>7. Zeros(1, p)
    <3>1. 1 \in 0..Len(p) /\ (\A j \in 1..1 : p[j] = 0) /\ (1 # Len(p) => Len(d) # 0) /\ 1 + 1 = 2
      BY <1>2, <2>3, <2>4
    <3> QED
      BY <2>5, <3>1 DEF Zeros
  <2>8. Stripped(p) = SubSeq(p, 1 + 1, Len(p))
    <3>1. p \in Seq(Int)
      BY <1>1, <2>3, SeqMonotonic
    <3> QED
      BY <2>7, <3>1, StrippedIs
  <2> DEFINE s == SubSeq(p, 2, Len(p))
  <2>9. /\ s \in Seq(Bytes) /\ Len(s) = (IF 2 <= Len(p) THEN Len(p) - 2 + 1 ELSE 0)
        /\ \A i \in 1..Len(p) - 2 + 1 : s[i] = p[2 + i - 1]
    <3>1. 2 \in Int /\ Len(p) \in Int
      BY <1>2, <2>3
    <3>2. \A i \in 2..Len(p) : i \in 1..Len(p)
      BY <1>2, <2>3
    <3>3. \A i \in 2..Len(p) : p[i] \in Bytes
      BY <2>3, <3>2, ElementOfSeq
    <3> QED
      BY <3>1, <3>3, SubSeqProperties
  <2> HIDE DEF s
  <2>10. Len(s) = Len(d) /\ \A i \in 1..Len(s) : s[i] = d[i]
    <3>1. Len(s) = Len(d)
      BY <1>2, <2>3, <2>9
    <3>2. \A i \in 1..Len(d) : i \in 1..Len(p) - 2 + 1 /\ 2 + i - 1 = i + 1
      BY <1>2, <2>3
    <3> QED
      BY <2>4, <2>9, <3>1, <3>2
  <2>11. s = d
    BY <2>9, <2>10, SeqEqual
  <2> QED
    BY <1>1, <1>2, <2>3, <2>4, <2>6, <2>8, <2>11 DEF s, p
<1>4. CASE ~(d = <<>> \/ d[1] >= High)
  <2>1. p = d
    BY <1>4 DEF SignedForm
  <2>2. Len(d) # 0 /\ 1 \in 1..Len(d) /\ d[1] \in Int /\ d[1] < High /\ d[1] # 0 /\ d[1] # AllOnes
    <3>1. Len(d) # 0 /\ 1 \in 1..Len(d)
      BY <1>2, <1>4
    <3>2. d[1] \in Int
      BY <1>2, <3>1
    <3> QED
      BY <1>1, <1>4, <3>1, <3>2
  <2>3. ~Padded(d)
    BY <2>2 DEF Padded
  <2>4. Zeros(0, d)
    <3>1. 0 \in 0..Len(d) /\ (\A j \in 1..0 : d[j] = 0) /\ 0 + 1 = 1
      BY <1>2
    <3> QED
      BY <2>2, <3>1 DEF Zeros
  <2>5. Stripped(d) = SubSeq(d, 0 + 1, Len(d))
    <3>1. d \in Seq(Int)
      BY <1>1, SeqMonotonic
    <3> QED
      BY <2>4, <3>1, StrippedIs
  <2>6. SubSeq(d, 1, Len(d)) = d
    BY SubSeqFull
  <2> HIDE DEF p
  <2> QED
    BY <1>2, <2>1, <2>2, <2>3, <2>5, <2>6 DEF p
<1> QED
  BY <1>3, <1>4

\* A number below the order is written as such an integer and read from it.
LEMMA IntegerWritten ==
    ASSUME NEW v \in 0..DerOrder-1
    PROVE  LET p == DerInteger(v)
           IN  /\ p \in Seq(Bytes) /\ Len(p) \in 1..ScalarBytes+1
               /\ p[1] < High /\ ~Padded(p) /\ ScalarOf(p, Stripped(p)) = v
<1> DEFINE b == BytesOf(v, ScalarBytes)
           d == Stripped(b)
           p == SignedForm(d)
<1>1. v \in Nat /\ v < Weight(ScalarBytes) /\ ScalarBytes \in Nat /\ DerOrder \in Nat \ {0} /\ v < DerOrder
  <2>1. Weight(ScalarBytes) \in Nat
    BY DerAssumption, WeightStep
  <2> QED
    BY <2>1, DerAssumption
<1>2. b \in Seq(Bytes) /\ Len(b) = ScalarBytes /\ NumberOf(b) = v
  BY <1>1, BytesOfIs
<1> HIDE DEF b
<1>3. d \in Seq(Bytes) /\ Len(d) <= ScalarBytes /\ (Len(d) # 0 => d[1] # 0) /\ NumberOf(d) = v
  BY <1>2, StrippedNumber
<1>4. DerInteger(v) = p
  BY DEF DerInteger, SignedForm, b
<1> HIDE DEF d
<1>5. /\ p \in Seq(Bytes) /\ Len(p) \in 1..Len(d) + 1
      /\ p[1] < High /\ ~Padded(p) /\ Stripped(p) = d
  BY <1>3, SignedFormIs
<1> HIDE DEF p
<1>6. Len(p) \in 1..ScalarBytes+1 /\ Len(d) \in Nat
  BY <1>1, <1>3, <1>5
<1>7. 1 \in 1..Len(p) /\ p[1] \in Int /\ High \in Int
  <2>1. 1 \in 1..Len(p)
    BY <1>6
  <2>2. p[1] \in Bytes
    BY <1>5, <2>1, ElementOfSeq
  <2> QED
    BY <2>1, <2>2, ByteFacts
<1>8. ~(p[1] >= High) /\ ~(Len(d) > ScalarBytes)
  BY <1>1, <1>3, <1>5, <1>6, <1>7
<1>9. v % DerOrder = v /\ ~(v >= DerOrder)
  BY <1>1
<1>10. ScalarOf(p, d) = v
  BY <1>3, <1>8, <1>9 DEF ScalarOf, DerScalar!ScSetB32
<1> QED
  BY <1>4, <1>5, <1>6, <1>10

\* An integer that is read as a number other than 0 is the one that is written for it.
LEMMA IntegerCanonical ==
    ASSUME NEW p \in Seq(Bytes), Len(p) # 0, ~Padded(p), ScalarOf(p, Stripped(p)) # 0
    PROVE  LET d == Stripped(p)
               v == NumberOf(d)
           IN  /\ p[1] < High /\ Len(d) <= ScalarBytes /\ v \in 0..DerOrder-1
               /\ ScalarOf(p, d) = v /\ DerInteger(v) = p /\ Len(p) <= ScalarBytes + 1
<1> DEFINE d == Stripped(p)
           v == NumberOf(d)
<1>1. High \in Nat /\ High >= 1 /\ 0 \in Bytes /\ Bytes \subseteq Int /\ ScalarBytes \in Nat
      /\ DerOrder \in Nat \ {0}
  BY ByteFacts, DerAssumption
<1>2. Len(p) \in Nat /\ 1 \in 1..Len(p) /\ (\A i \in 1..Len(p) : p[i] \in Bytes /\ p[i] \in Int)
  <2>1. Len(p) \in Nat /\ \A i \in 1..Len(p) : p[i] \in Bytes
    BY ElementOfSeq, LenProperties
  <2>2. 1 \in 1..Len(p)
    BY <2>1
  <2>3. \A i \in 1..Len(p) : p[i] \in Int
    BY <1>1, <2>1
  <2> QED
    BY <2>1, <2>2, <2>3
<1>3. /\ d \in Seq(Bytes) /\ Len(d) <= Len(p) /\ (Len(d) # 0 => d[1] # 0)
      /\ Len(d) \in Nat
  BY StrippedNumber, LenProperties
<1>4. p \in Seq(Int)
  BY <1>1, SeqMonotonic
<1>5. p[1] < High /\ Len(d) <= ScalarBytes /\ ~(v % DerOrder = 0) /\ ~(v >= DerOrder)
      /\ ScalarOf(p, d) = v % DerOrder
  <2>1. ~(p[1] >= High) /\ ~(Len(d) > ScalarBytes)
    BY DEF ScalarOf
  <2>2. ScalarOf(p, d) = IF v >= DerOrder THEN 0 ELSE v % DerOrder
    BY <2>1 DEF ScalarOf, DerScalar!ScSetB32
  <2> HIDE DEF d, v
  <2>3. ScalarOf(p, d) # 0
    BY DEF d
  <2> QED
    BY <1>1, <1>2, <1>3, <2>1, <2>2, <2>3
<1>6. Stripped(BytesOf(v, ScalarBytes)) = d /\ v \in Nat /\ (Len(d) = 0 => v < Weight(0))
  <2> HIDE DEF d
  <2> QED
    BY <1>1, <1>3, <1>5, NumberBytes
<1>7. v < DerOrder /\ v \in 0..DerOrder-1 /\ v % DerOrder = v /\ v # 0 /\ Len(d) # 0
  <2>1. v < DerOrder
    BY <1>1, <1>5, <1>6
  <2>2. v % DerOrder = v
    BY <1>1, <1>6, <2>1
  <2>3. Weight(0) = 1
    BY ByteFacts
  <2> HIDE DEF v, d
  <2> QED
    BY <1>1, <1>5, <1>6, <2>1, <2>2, <2>3
<1>8. DerInteger(v) = SignedForm(d)
  <2> HIDE DEF v, d
  <2>1. DerInteger(v) = SignedForm(Stripped(BytesOf(v, ScalarBytes)))
    BY DEF DerInteger, SignedForm
  <2> QED
    BY <1>6, <2>1
<1>9. CASE p[1] # 0
  <2>1. Zeros(0, p)
    <3>1. 0 \in 0..Len(p) /\ (\A j \in 1..0 : p[j] = 0) /\ 0 + 1 = 1
      BY <1>2
    <3> QED
      BY <1>9, <3>1 DEF Zeros
  <2>2. Stripped(p) = SubSeq(p, 0 + 1, Len(p))
    BY <1>4, <2>1, StrippedIs
  <2>3. SubSeq(p, 1, Len(p)) = p
    BY SubSeqFull
  <2>4. d = p
    BY <2>2, <2>3
  <2> HIDE DEF d, v
  <2>5. SignedForm(p) = p
    <3>1. p # <<>> /\ ~(p[1] >= High)
      BY <1>1, <1>2, <1>5
    <3> QED
      BY <3>1 DEF SignedForm
  <2>6. Len(p) <= ScalarBytes + 1
    BY <1>1, <1>2, <1>5, <2>4
  <2> QED
    BY <1>5, <1>7, <1>8, <2>4, <2>5, <2>6 DEF d, v
<1>10. CASE p[1] = 0
  <2>1. ASSUME Len(p) = 1 PROVE FALSE
    <3>1. Zeros(1, p)
      BY <1>2, <1>10, <2>1 DEF Zeros
    <3>2. Stripped(p) = SubSeq(p, 1 + 1, Len(p))
      BY <1>4, <3>1, StrippedIs
    <3>3. SubSeq(p, 1 + 1, Len(p)) = <<>>
      BY <2>1, SubSeqEmpty
    <3>4. d = <<>> /\ Len(<<>>) = 0
      BY <3>2, <3>3
    <3> HIDE DEF d, v
    <3> QED
      BY <1>7, <3>4
  <2>2. Len(p) > 1 /\ 2 \in 1..Len(p) /\ p[2] >= High /\ p[2] # 0
    <3>1. Len(p) > 1 /\ 2 \in 1..Len(p)
      <4> DEFINE n == Len(p)
      <4>1. n \in Nat /\ n # 0 /\ n # 1
        BY <1>2, <2>1
      <4> HIDE DEF n
      <4>2. n > 1 /\ 2 \in 1..n
        BY <4>1
      <4> QED
        BY <4>2 DEF n
    <3>2. ~(p[2] < High)
      BY <1>10, <3>1 DEF Padded
    <3> QED
      BY <1>1, <1>2, <3>1, <3>2
  <2>3. Zeros(1, p)
    <3>1. 1 \in 0..Len(p) /\ (\A j \in 1..1 : p[j] = 0) /\ 1 + 1 = 2
      BY <1>2, <1>10, <2>2
    <3> QED
      BY <2>2, <3>1 DEF Zeros
  <2>4. Stripped(p) = SubSeq(p, 1 + 1, Len(p))
    BY <1>4, <2>3, StrippedIs
  <2>5. d = SubSeq(p, 2, Len(p))
    BY <2>4
  <2>6. /\ Len(d) = (IF 2 <= Len(p) THEN Len(p) - 2 + 1 ELSE 0)
        /\ \A i \in 1..Len(p) - 2 + 1 : d[i] = p[2 + i - 1]
    <3>1. 2 \in Int /\ Len(p) \in Int /\ \A i \in 2..Len(p) : p[i] \in Bytes
      BY <1>2
    <3> QED
      BY <2>5, <3>1, SubSeqProperties
  <2>7. Len(d) = Len(p) - 1 /\ d[1] = p[2]
    <3>1. 1 \in 1..Len(p) - 2 + 1 /\ 2 + 1 - 1 = 2
      BY <1>2, <2>2
    <3> HIDE DEF d
    <3> QED
      BY <1>2, <2>2, <2>6, <3>1
  <2>8. SignedForm(d) = <<0>> \o d
    BY <2>2, <2>7 DEF SignedForm
  <2>9. <<0>> \o d = p
    <3>1. <<0>> \in Seq(Bytes) /\ Len(<<0>>) = 1 /\ <<0>>[1] = 0
      BY <1>1
    <3> DEFINE c == <<0>> \o d
    <3>2. /\ c \in Seq(Bytes) /\ Len(c) = 1 + Len(d)
          /\ \A i \in 1..1 + Len(d) : c[i] = IF i <= 1 THEN <<0>>[i] ELSE d[i - 1]
      BY <1>3, <3>1, ConcatProperties
    <3> HIDE DEF c
    <3>3. Len(c) = Len(p)
      BY <1>2, <2>7, <3>2
    <3>4. ASSUME NEW i \in 1..Len(p) PROVE c[i] = p[i]
      <4>1. i \in 1..1 + Len(d)
        BY <1>2, <2>7
      <4>2. CASE i = 1
        BY <1>10, <3>1, <3>2, <4>1, <4>2
      <4>3. CASE i # 1
        <5>1. ~(i <= 1) /\ i - 1 \in 1..Len(p) - 2 + 1 /\ 2 + (i - 1) - 1 = i
          BY <1>2, <4>3
        <5>2. c[i] = d[i - 1]
          BY <3>2, <4>1, <5>1
        <5> HIDE DEF d
        <5> QED
          BY <2>6, <5>1, <5>2
      <4> QED
        BY <4>2, <4>3
    <3>5. c = p
      BY <3>2, <3>3, <3>4, SeqEqual
    <3> QED
      BY <3>5 DEF c
  <2>10. Len(p) <= ScalarBytes + 1
    <3> HIDE DEF d
    <3> QED
      BY <1>1, <1>2, <1>5, <2>7
  <2> HIDE DEF d, v
  <2> QED
    BY <1>5, <1>7, <1>8, <2>8, <2>9, <2>10 DEF d, v
<1> QED
  BY <1>9, <1>10
-----------------------------------------------------------------------------
\* The bytes of a part of a text.
LEMMA PartOf ==
    ASSUME NEW t \in Seq(Bytes), NEW from \in Nat, from >= 1, NEW to \in Int, to <= Len(t), from <= to + 1
    PROVE  LET p == SubSeq(t, from, to)
           IN  /\ p \in Seq(Bytes) /\ Len(p) = to - from + 1
               /\ \A i \in 1..Len(p) : p[i] = t[from + i - 1]
<1> DEFINE p == SubSeq(t, from, to)
<1>1. Len(t) \in Nat
  BY LenProperties
<1>2. \A i \in from..to : t[i] \in Bytes
  <2>1. \A i \in from..to : i \in 1..Len(t)
    BY <1>1
  <2> QED
    BY <2>1, ElementOfSeq
<1>3. from \in Int
  OBVIOUS
<1>4. /\ p \in Seq(Bytes) /\ Len(p) = (IF from <= to THEN to - from + 1 ELSE 0)
      /\ \A i \in 1..to - from + 1 : p[i] = t[from + i - 1]
  BY <1>2, <1>3, SubSeqProperties
<1> HIDE DEF p
<1>5. Len(p) = to - from + 1
  BY <1>4
<1> QED
  BY <1>4, <1>5 DEF p

\* What is known when a length has been read.
LengthRead(t, at, l) ==
    /\ at <= Len(t) /\ l.len \in Nat /\ l.next \in Nat
    /\ t[at] \in Nat
    /\ t[at] < High => l.next = at + 1 /\ l.len = t[at]
    /\ t[at] >= High =>
         LET n == t[at] - High
         IN  /\ n \in 1..SizeBytes /\ l.next = at + 1 + n /\ t[at + 1] # 0
             /\ l.len = NumberOf(SubSeq(t, at + 1, at + n))
             /\ l.len + n <= Len(t) - at /\ l.len >= High

LEMMA LengthIs ==
    ASSUME NEW t \in Seq(Bytes), NEW at \in Nat, at >= 1, der_read_len(t, at).ok
    PROVE  LengthRead(t, at, der_read_len(t, at))
<1> DEFINE l == der_read_len(t, at)
<1>1. Len(t) \in Nat /\ High \in Nat /\ High >= 1 /\ SizeBytes \in Nat
  BY LenProperties, ByteFacts, DerAssumption
<1>2. at <= Len(t) /\ t[at] # AllOnes
  BY <1>1 DEF der_read_len, No
<1>3. t[at] \in Nat
  <2>1. at \in 1..Len(t)
    BY <1>1, <1>2
  <2>2. t[at] \in Bytes
    BY <2>1, ElementOfSeq
  <2> QED
    BY <2>2, ByteFacts
<1>4. ~(at > Len(t) \/ t[at] = AllOnes)
  BY <1>1, <1>2
<1>5. CASE t[at] < High
  <2>1. l = [ok |-> TRUE, len |-> t[at], next |-> at + 1]
    BY <1>4, <1>5 DEF der_read_len
  <2>2. ~(t[at] >= High)
    BY <1>1, <1>3, <1>5
  <2> HIDE DEF l
  <2>3. l.len = t[at] /\ l.next = at + 1 /\ at + 1 \in Nat
    BY <2>1
  <2>4. LengthRead(t, at, l)
    BY <1>2, <1>3, <2>2, <2>3 DEF LengthRead
  <2> QED
    BY <2>4 DEF l
<1>6. CASE ~(t[at] < High)
  <2> DEFINE n == t[at] - High
             len == NumberOf(SubSeq(t, at + 1, at + n))
  <2>1. l = LengthIn(t, at, n)
    BY <1>4, <1>6 DEF der_read_len
  <2>2. ~(n = 0 \/ n > Len(t) - at \/ t[at + 1] = 0 \/ n > SizeBytes)
    BY <2>1 DEF LengthIn, No
  <2>3. ~(len + n > Len(t) - at \/ len < High)
    BY <2>1, <2>2 DEF LengthIn, No
  <2>4. l = [ok |-> TRUE, len |-> len, next |-> at + 1 + n]
    BY <2>1, <2>2, <2>3 DEF LengthIn
  <2>5. n \in 1..SizeBytes /\ n <= Len(t) - at
    <3>1. n \in Nat
      BY <1>1, <1>3, <1>6
    <3> HIDE DEF n, len
    <3> QED
      BY <1>1, <2>2, <3>1
  <2>6. len \in Nat
    <3> DEFINE q == SubSeq(t, at + 1, at + n)
    <3>1. q \in Seq(Bytes)
      <4>1. at + 1 \in Nat /\ at + 1 >= 1 /\ at + n \in Int /\ at + n <= Len(t) /\ at + 1 <= (at + n) + 1
        BY <1>1, <2>5
      <4> HIDE DEF n
      <4> QED
        BY <4>1, PartOf
    <3>2. PICK f : Horner(f, q)
      BY <3>1, HornerExists
    <3>3. Len(q) \in 0..Len(q)
      BY <3>1, LenProperties
    <3> HIDE DEF q
    <3>4. NumberOf(q) = f[Len(q)] /\ f[Len(q)] \in Int /\ 0 <= f[Len(q)]
      BY <3>2, <3>3 DEF Horner
    <3>5. NumberOf(q) \in Nat
      BY <3>4
    <3> QED
      BY <3>5 DEF q
  <2> HIDE DEF len, l
  <2>7. len + n <= Len(t) - at /\ len >= High
    <3> HIDE DEF n
    <3>1. n \in Nat
      BY <2>5
    <3> QED
      BY <1>1, <2>3, <2>6, <3>1
  <2>8. l.len = len /\ l.next = at + 1 + n /\ at + 1 + n \in Nat
    <3> HIDE DEF n
    <3> QED
      BY <2>4, <2>5
  <2>9. LengthRead(t, at, l)
    BY <1>2, <1>3, <1>6, <2>2, <2>5, <2>6, <2>7, <2>8 DEF LengthRead, len
  <2> QED
    BY <2>9 DEF l
<1> QED
  BY <1>5, <1>6

\* An integer that the strict parser takes: its length, and its bytes.
LengthAt(t, at) == der_read_len(t, at + 1)
BodyAt(t, at) == SubSeq(t, LengthAt(t, at).next, LengthAt(t, at).next + LengthAt(t, at).len - 1)

LEMMA IntegerRead ==
    ASSUME NEW t \in Seq(Bytes), NEW at \in Nat, at >= 1, der_parse_integer(t, at).ok
    PROVE  LET l == LengthAt(t, at)
               p == BodyAt(t, at)
           IN  /\ at + 1 <= Len(t) /\ t[at] = IntegerTag
               /\ LengthRead(t, at + 1, l) /\ l.len # 0 /\ l.next + l.len <= Len(t) + 1
               /\ p \in Seq(Bytes) /\ Len(p) = l.len /\ ~Padded(p)
               /\ \A i \in 1..l.len : p[i] = t[l.next + i - 1]
               /\ der_parse_integer(t, at)
                    = [ok |-> TRUE, r |-> ScalarOf(p, Stripped(p)), next |-> l.next + l.len]
<1> DEFINE l == LengthAt(t, at)
           p == BodyAt(t, at)
           R == der_parse_integer(t, at)
<1>1. Len(t) \in Nat
  BY LenProperties
<1>2. ~(at > Len(t) \/ t[at] # IntegerTag)
  BY DEF der_parse_integer, No
<1>3. ~(~l.ok \/ l.len = 0 \/ l.next + l.len - 1 > Len(t))
  BY <1>2 DEF der_parse_integer, No, LengthAt
<1>4. R = IF Padded(p) THEN No ELSE [ok |-> TRUE, r |-> ScalarOf(p, Stripped(p)), next |-> l.next + l.len]
  BY <1>2, <1>3 DEF der_parse_integer, LengthAt, BodyAt
<1>5. ~Padded(p)
  BY <1>4 DEF No
<1>6. LengthRead(t, at + 1, l)
  BY <1>3, LengthIs DEF LengthAt
<1>7. at + 1 <= Len(t) /\ l.len \in Nat /\ l.next \in Nat /\ l.next >= 1
  <2>1. /\ at + 1 <= Len(t) /\ l.len \in Nat /\ l.next \in Nat /\ t[at + 1] \in Nat
        /\ t[at + 1] < High => l.next = (at + 1) + 1
        /\ t[at + 1] >= High => l.next = (at + 1) + 1 + (t[at + 1] - High)
    BY <1>6 DEF LengthRead
  <2>2. High \in Nat
    BY ByteFacts
  <2> HIDE DEF l
  <2> QED
    BY <2>1, <2>2
<1>8. l.next + l.len <= Len(t) + 1 /\ l.len >= 1
  <2> HIDE DEF l
  <2> QED
    BY <1>1, <1>3, <1>7
<1>9. p \in Seq(Bytes) /\ Len(p) = l.len /\ \A i \in 1..l.len : p[i] = t[l.next + i - 1]
  <2> DEFINE from == l.next
             to == l.next + l.len - 1
  <2>1. from \in Nat /\ from >= 1 /\ to \in Int /\ to <= Len(t) /\ from <= to + 1 /\ to - from + 1 = l.len
    <3> HIDE DEF l
    <3> QED
      BY <1>1, <1>7, <1>8
  <2>2. p = SubSeq(t, from, to)
    BY DEF BodyAt
  <2> HIDE DEF from, to, p
  <2>3. p \in Seq(Bytes) /\ Len(p) = to - from + 1 /\ \A i \in 1..Len(p) : p[i] = t[from + i - 1]
    BY <2>1, <2>2, PartOf
  <2> QED
    BY <2>1, <2>3 DEF from
<1> QED
  BY <1>2, <1>3, <1>4, <1>5, <1>6, <1>7, <1>8, <1>9
-----------------------------------------------------------------------------
\* The lax parser reads the same integer, whatever form its length has.
LEMMA LaxReads ==
    ASSUME NEW t \in Seq(Bytes), Len(t) < Weight(SizeBytes - 1),
           NEW at \in Nat, at >= 1, der_parse_integer(t, at).ok
    PROVE  lax_integer(t, at) = [ok |-> TRUE, body |-> Stripped(BodyAt(t, at)),
                                 next |-> LengthAt(t, at).next + LengthAt(t, at).len]
<1> DEFINE l == LengthAt(t, at)
           b == t[at + 1]
<1>1. Len(t) \in Nat /\ High \in Nat /\ SizeBytes \in Nat /\ SizeBytes >= 1
  BY LenProperties, ByteFacts, DerAssumption
<1>2. at + 1 <= Len(t) /\ t[at] = IntegerTag /\ LengthRead(t, at + 1, l) /\ l.next + l.len <= Len(t) + 1
  BY IntegerRead
<1>3. BodyAt(t, at) = SubSeq(t, l.next, l.next + l.len - 1)
  BY DEF BodyAt
<1> HIDE DEF l
<1>4. ~(at > Len(t) \/ t[at] # IntegerTag \/ at + 1 > Len(t))
  BY <1>1, <1>2
<1>5. /\ l.len \in Nat /\ l.next \in Nat /\ b \in Nat
      /\ b < High => l.next = (at + 1) + 1 /\ l.len = b
      /\ b >= High =>
           LET n == b - High
           IN  /\ n \in 1..SizeBytes /\ l.next = (at + 1) + 1 + n /\ t[(at + 1) + 1] # 0
               /\ l.len = NumberOf(SubSeq(t, (at + 1) + 1, (at + 1) + n))
               /\ l.len + n <= Len(t) - (at + 1) /\ l.len >= High
  BY <1>2 DEF LengthRead
<1>6. CASE b < High
  <2>1. ~(b >= High)
    BY <1>1, <1>5, <1>6
  <2>2. l.next = at + 2 /\ l.len = b
    BY <1>5, <1>6
  <2>3. ~(b > Len(t) - (at + 2) + 1)
    BY <1>1, <1>2, <1>5, <2>2
  <2>4. lax_integer(t, at) = [ok |-> TRUE, body |-> Stripped(SubSeq(t, at + 2, at + 2 + b - 1)),
                              next |-> at + 2 + b]
    BY <1>4, <2>1, <2>3 DEF lax_integer
  <2> QED
    BY <1>3, <2>2, <2>4 DEF l
<1>7. CASE ~(b < High)
  <2> DEFINE n == b - High
             q == SubSeq(t, at + 2, at + 1 + n)
  <2>1. b >= High
    BY <1>1, <1>5, <1>7
  <2>2. /\ n \in 1..SizeBytes /\ l.next = at + 2 + n /\ t[at + 2] # 0
        /\ l.len = NumberOf(q)
        /\ l.len + n <= Len(t) - (at + 1)
    <3>1. (at + 1) + 1 = at + 2 /\ (at + 1) + 1 + n = at + 2 + n /\ (at + 1) + n = at + 1 + n
      BY <1>1, <1>5
    <3> QED
      BY <1>5, <2>1, <3>1
  <2> HIDE DEF n
  <2>3. q \in Seq(Bytes) /\ Len(q) = n /\ q[1] = t[at + 2]
    <3>1. at + 2 \in Nat /\ at + 2 >= 1 /\ at + 1 + n \in Int /\ at + 1 + n <= Len(t)
          /\ at + 2 <= (at + 1 + n) + 1 /\ (at + 1 + n) - (at + 2) + 1 = n
      BY <1>1, <1>5, <2>2
    <3>2. Len(q) = (at + 1 + n) - (at + 2) + 1 /\ q \in Seq(Bytes)
          /\ \A i \in 1..Len(q) : q[i] = t[at + 2 + i - 1]
      BY <3>1, PartOf
    <3>3. 1 \in 1..n /\ at + 2 + 1 - 1 = at + 2
      BY <2>2
    <3> HIDE DEF q
    <3> QED
      BY <3>1, <3>2, <3>3
  <2> HIDE DEF q
  <2>4. Stripped(q) = q
    <3>1. Zeros(0, q)
      <4>1. 0 \in 0..Len(q) /\ (\A j \in 1..0 : q[j] = 0) /\ 0 + 1 = 1
        BY <2>2, <2>3
      <4> QED
        BY <2>2, <2>3, <4>1 DEF Zeros
    <3>2. q \in Seq(Int)
      BY <2>3, ByteFacts, SeqMonotonic
    <3>3. Stripped(q) = SubSeq(q, 0 + 1, Len(q))
      BY <3>1, <3>2, StrippedIs
    <3>4. SubSeq(q, 1, Len(q)) = q
      BY <2>3, SubSeqFull
    <3> QED
      BY <3>3, <3>4
  <2>5. n < SizeBytes
    <3>1. Len(q) # 0 /\ Len(q) <= n /\ n \in Nat /\ (Len(q) # 0 => q[1] # 0)
      BY <2>2, <2>3
    <3>2. NumberOf(q) >= Weight(Len(q) - 1)
      BY <2>3, <3>1, NumberBytes
    <3>3. Weight(SizeBytes - 1) \in Nat
      <4>1. SizeBytes - 1 \in Nat
        BY <1>1
      <4> QED
        BY <4>1, WeightStep
    <3>4. ASSUME n = SizeBytes PROVE FALSE
      <4>1. l.len >= Weight(SizeBytes - 1)
        BY <2>2, <2>3, <3>2, <3>4
      <4> QED
        BY <1>1, <1>5, <2>2, <3>1, <3>3, <4>1
    <3> QED
      BY <1>1, <2>2, <3>4
  <2>6. ~(at + 1 + n > Len(t)) /\ ~(Len(Stripped(q)) >= SizeBytes)
        /\ ~(l.len > Len(t) - (at + 2 + n) + 1)
    <3>1. n \in Nat /\ l.len \in Nat /\ l.len + n <= Len(t) - (at + 1)
      BY <1>5, <2>2
    <3>2. Len(Stripped(q)) = n
      BY <2>3, <2>4
    <3>3. ~(at + 1 + n > Len(t)) /\ ~(l.len > Len(t) - (at + 2 + n) + 1)
      BY <1>1, <3>1
    <3>4. ~(n >= SizeBytes)
      BY <1>1, <2>5, <3>1
    <3> QED
      BY <3>2, <3>3, <3>4
  <2>7. lax_integer(t, at) = [ok |-> TRUE, body |-> Stripped(SubSeq(t, at + 2 + n, at + 2 + n + NumberOf(q) - 1)),
                              next |-> at + 2 + n + NumberOf(q)]
    BY <1>4, <2>1, <2>2, <2>4, <2>6 DEF lax_integer, n, q
  <2> QED
    BY <1>3, <2>2, <2>7 DEF l
<1> QED
  BY <1>6, <1>7

\* What the strict parser has seen of a text it takes.
StrictRead(t, T, A, B) ==
    /\ T = der_read_len(t, 2) /\ LengthRead(t, 2, T) /\ T.next + T.len - 1 = Len(t) /\ T.next >= 1
    /\ A = der_parse_integer(t, T.next) /\ A.ok
    /\ B = der_parse_integer(t, A.next) /\ B.ok /\ B.next = Len(t) + 1
    /\ t # <<>> /\ t[1] = SequenceTag
    /\ ecdsa_sig_parse(t) = [ok |-> TRUE, r |-> A.r, s |-> B.r]

LEMMA StrictIs ==
    ASSUME NEW t \in Seq(Bytes), ecdsa_sig_parse(t).ok
    PROVE  \E T, A, B : StrictRead(t, T, A, B)
<1> DEFINE T == der_read_len(t, 2)
           A == der_parse_integer(t, T.next)
           B == der_parse_integer(t, A.next)
<1>1. ~(t = <<>> \/ t[1] # SequenceTag)
  BY DEF ecdsa_sig_parse, No
<1>2. ~(~T.ok \/ T.next + T.len - 1 # Len(t))
  BY <1>1 DEF ecdsa_sig_parse, No
<1>3. ~(~A.ok)
  BY <1>1, <1>2 DEF ecdsa_sig_parse, No
<1>4. ~(~B.ok \/ B.next # Len(t) + 1)
  BY <1>1, <1>2, <1>3 DEF ecdsa_sig_parse, No
<1>5. ecdsa_sig_parse(t) = [ok |-> TRUE, r |-> A.r, s |-> B.r]
  BY <1>1, <1>2, <1>3, <1>4 DEF ecdsa_sig_parse
<1>6. LengthRead(t, 2, T)
  BY <1>2, LengthIs
<1>7. T.next >= 1
  <2>1. /\ T.next \in Nat /\ t[2] \in Nat
        /\ t[2] < High => T.next = 2 + 1
        /\ t[2] >= High => T.next = 2 + 1 + (t[2] - High)
    BY <1>6 DEF LengthRead
  <2> HIDE DEF T
  <2> QED
    BY <2>1, ByteFacts
<1> HIDE DEF T, A, B
<1>8. StrictRead(t, T, A, B)
  BY <1>1, <1>2, <1>3, <1>4, <1>5, <1>6, <1>7 DEF StrictRead, T, A, B
<1> QED
  BY <1>8

\* Where the strict parser gives a number other than 0, the lax one gives the same.
LEMMA ParsersAgree ==
    ASSUME NEW t \in Seq(Bytes), Len(t) < Weight(SizeBytes - 1), ecdsa_sig_parse(t).ok
    PROVE  LET strict == ecdsa_sig_parse(t)
               lax == ecdsa_signature_parse_der_lax(t)
           IN  lax.ok /\ (strict.r # 0 /\ strict.s # 0 => lax = strict)
<1>1. PICK T, A, B : StrictRead(t, T, A, B)
  BY StrictIs
<1>2. /\ T = der_read_len(t, 2) /\ LengthRead(t, 2, T) /\ T.next + T.len - 1 = Len(t) /\ T.next >= 1
      /\ A = der_parse_integer(t, T.next) /\ A.ok
      /\ B = der_parse_integer(t, A.next) /\ B.ok /\ B.next = Len(t) + 1
      /\ t # <<>> /\ t[1] = SequenceTag
      /\ ecdsa_sig_parse(t) = [ok |-> TRUE, r |-> A.r, s |-> B.r]
  BY <1>1 DEF StrictRead
<1>3. Len(t) \in Nat /\ High \in Nat
  BY LenProperties, ByteFacts
<1>4. /\ 2 <= Len(t) /\ T.next \in Nat /\ T.len \in Nat /\ t[2] \in Nat
      /\ T.next = IF t[2] < High THEN 3 ELSE 3 + t[2] - High
  <2>1. /\ 2 <= Len(t) /\ T.next \in Nat /\ T.len \in Nat /\ t[2] \in Nat
        /\ t[2] < High => T.next = 2 + 1
        /\ t[2] >= High => T.next = 2 + 1 + (t[2] - High)
    BY <1>2 DEF LengthRead
  <2>2. CASE t[2] < High
    BY <2>1, <2>2
  <2>3. CASE ~(t[2] < High)
    <3>1. t[2] >= High /\ 2 + 1 + (t[2] - High) = 3 + t[2] - High
      BY <1>3, <2>1, <2>3
    <3> QED
      BY <2>1, <2>3, <3>1
  <2> QED
    BY <2>2, <2>3
<1> DEFINE p == BodyAt(t, T.next)
           u == BodyAt(t, A.next)
<1>5. /\ A.r = ScalarOf(p, Stripped(p)) /\ p \in Seq(Bytes) /\ Len(p) # 0 /\ ~Padded(p)
      /\ lax_integer(t, T.next) = [ok |-> TRUE, body |-> Stripped(p), next |-> A.next]
      /\ A.next \in Nat /\ A.next >= 1
  <2> DEFINE l == LengthAt(t, T.next)
  <2>1. /\ T.next + 1 <= Len(t)
        /\ LengthRead(t, T.next + 1, l) /\ l.len # 0 /\ l.next + l.len <= Len(t) + 1
        /\ p \in Seq(Bytes) /\ Len(p) = l.len /\ ~Padded(p)
        /\ A = [ok |-> TRUE, r |-> ScalarOf(p, Stripped(p)), next |-> l.next + l.len]
    BY <1>2, <1>4, IntegerRead
  <2>2. lax_integer(t, T.next) = [ok |-> TRUE, body |-> Stripped(p), next |-> l.next + l.len]
    BY <1>2, <1>4, LaxReads
  <2>3. l.len \in Nat /\ l.next \in Nat
    BY <2>1 DEF LengthRead
  <2> HIDE DEF l, p
  <2>4. A.next = l.next + l.len /\ A.r = ScalarOf(p, Stripped(p))
    BY <2>1
  <2> QED
    BY <2>1, <2>2, <2>3, <2>4
<1>6. /\ B.r = ScalarOf(u, Stripped(u)) /\ u \in Seq(Bytes) /\ Len(u) # 0 /\ ~Padded(u)
      /\ lax_integer(t, A.next) = [ok |-> TRUE, body |-> Stripped(u), next |-> B.next]
  <2> DEFINE l == LengthAt(t, A.next)
  <2>1. /\ LengthRead(t, A.next + 1, l) /\ l.len # 0
        /\ u \in Seq(Bytes) /\ Len(u) = l.len /\ ~Padded(u)
        /\ B = [ok |-> TRUE, r |-> ScalarOf(u, Stripped(u)), next |-> l.next + l.len]
    BY <1>2, <1>5, IntegerRead
  <2>2. lax_integer(t, A.next) = [ok |-> TRUE, body |-> Stripped(u), next |-> l.next + l.len]
    BY <1>2, <1>5, LaxReads
  <2> HIDE DEF l, u
  <2>3. B.next = l.next + l.len /\ B.r = ScalarOf(u, Stripped(u))
    BY <2>1
  <2> QED
    BY <2>1, <2>2, <2>3
<1> HIDE DEF p, u
<1>7. ~(t = <<>> \/ t[1] # SequenceTag \/ Len(t) < 2) /\ ~(T.next > Len(t) + 1)
  BY <1>2, <1>3, <1>4
<1>8. ecdsa_signature_parse_der_lax(t) = LaxSignature(Stripped(p), Stripped(u))
  BY <1>4, <1>5, <1>6, <1>7 DEF ecdsa_signature_parse_der_lax
<1>9. LaxSignature(Stripped(p), Stripped(u)).ok
  BY DEF LaxSignature
<1>10. ASSUME A.r # 0, B.r # 0
       PROVE  LaxSignature(Stripped(p), Stripped(u)) = [ok |-> TRUE, r |-> A.r, s |-> B.r]
  <2> DEFINE d == Stripped(p)
             e == Stripped(u)
             v == NumberOf(d)
             w == NumberOf(e)
  <2>1. Len(d) <= ScalarBytes /\ v \in 0..DerOrder-1 /\ A.r = v
    BY <1>5, <1>10, IntegerCanonical
  <2>2. Len(e) <= ScalarBytes /\ w \in 0..DerOrder-1 /\ B.r = w
    BY <1>6, <1>10, IntegerCanonical
  <2>3. Len(d) \in Nat /\ Len(e) \in Nat /\ ScalarBytes \in Nat /\ DerOrder \in Nat \ {0}
    BY <1>5, <1>6, StrippedNumber, LenProperties, DerAssumption
  <2> HIDE DEF v, w
  <2>4. ~(Len(d) > ScalarBytes \/ Len(e) > ScalarBytes)
    BY <2>1, <2>2, <2>3
  <2>5. v % DerOrder = v /\ w % DerOrder = w /\ ~(v >= DerOrder) /\ ~(w >= DerOrder)
    BY <2>1, <2>2, <2>3
  <2>6. LaxSignature(d, e) = [ok |-> TRUE, r |-> v, s |-> w]
    BY <2>4, <2>5 DEF LaxSignature, DerScalar!ScSetB32, v, w
  <2> QED
    BY <2>1, <2>2, <2>6
<1> QED
  BY <1>2, <1>8, <1>9, <1>10
-----------------------------------------------------------------------------
\* The text of two integers.
SigText(rp, sp) ==
    <<SequenceTag, 4 + Len(sp) + Len(rp), IntegerTag, Len(rp)>> \o rp \o <<IntegerTag, Len(sp)>> \o sp

\* t is that text, byte by byte.
SigBytes(t, rp, sp) ==
    /\ t \in Seq(Bytes) /\ Len(t) = 6 + Len(sp) + Len(rp)
    /\ t[1] = SequenceTag /\ t[2] = 4 + Len(sp) + Len(rp) /\ t[3] = IntegerTag /\ t[4] = Len(rp)
    /\ \A i \in 1..Len(rp) : t[4 + i] = rp[i]
    /\ t[5 + Len(rp)] = IntegerTag /\ t[6 + Len(rp)] = Len(sp)
    /\ \A i \in 1..Len(sp) : t[6 + Len(rp) + i] = sp[i]

LEMMA SigTextIs ==
    ASSUME NEW rp \in Seq(Bytes), NEW sp \in Seq(Bytes),
           Len(rp) \in 1..ScalarBytes+1, Len(sp) \in 1..ScalarBytes+1
    PROVE  /\ SigBytes(SigText(rp, sp), rp, sp)
           /\ \A t : SigBytes(t, rp, sp) => t = SigText(rp, sp)
<1> DEFINE n == Len(rp)
           m == Len(sp)
           a == <<SequenceTag, 4 + m + n, IntegerTag, n>>
           c == <<IntegerTag, m>>
           ar == a \o rp
           arc == ar \o c
           x == arc \o sp
<1>1. n \in Nat /\ m \in Nat /\ n >= 1 /\ m >= 1 /\ {n, m, 4 + m + n} \subseteq Bytes
  <2>1. ScalarBytes \in Nat /\ High \in Nat /\ High >= 1 /\ 2 * ScalarBytes + 6 < High /\ Bytes = 0..2 * High - 1
    BY DerAssumption, ByteFacts
  <2>2. n \in 1..ScalarBytes+1 /\ m \in 1..ScalarBytes+1
    OBVIOUS
  <2> HIDE DEF n, m
  <2>3. n \in Nat /\ m \in Nat /\ n >= 1 /\ m >= 1 /\ 4 + m + n < High
    BY <2>1, <2>2
  <2> QED
    BY <2>1, <2>3
<1>2. {SequenceTag, IntegerTag} \subseteq Bytes
  BY DerAssumption
<1>3. SigText(rp, sp) = x
  BY DEF SigText
<1> HIDE DEF n, m
<1>4. a \in Seq(Bytes) /\ Len(a) = 4 /\ a[1] = SequenceTag /\ a[2] = 4 + m + n /\ a[3] = IntegerTag /\ a[4] = n
  BY <1>1, <1>2
<1>5. c \in Seq(Bytes) /\ Len(c) = 2 /\ c[1] = IntegerTag /\ c[2] = m
  BY <1>1, <1>2
<1> HIDE DEF a, c
<1>6. /\ ar \in Seq(Bytes) /\ Len(ar) = 4 + n
      /\ \A i \in 1..4 + n : ar[i] = IF i <= 4 THEN a[i] ELSE rp[i - 4]
  <2>1. /\ ar \in Seq(Bytes) /\ Len(ar) = Len(a) + Len(rp)
        /\ \A i \in 1..Len(a) + Len(rp) : ar[i] = IF i <= Len(a) THEN a[i] ELSE rp[i - Len(a)]
    BY <1>4, ConcatProperties
  <2> HIDE DEF ar
  <2>2. Len(a) = 4 /\ Len(rp) = n
    BY <1>4 DEF n
  <2> QED
    BY <2>1, <2>2
<1> HIDE DEF ar
<1>7. /\ arc \in Seq(Bytes) /\ Len(arc) = (4 + n) + 2
      /\ \A i \in 1..(4 + n) + 2 : arc[i] = IF i <= 4 + n THEN ar[i] ELSE c[i - (4 + n)]
  <2>1. /\ arc \in Seq(Bytes) /\ Len(arc) = Len(ar) + Len(c)
        /\ \A i \in 1..Len(ar) + Len(c) : arc[i] = IF i <= Len(ar) THEN ar[i] ELSE c[i - Len(ar)]
    BY <1>5, <1>6, ConcatProperties
  <2> HIDE DEF arc
  <2> QED
    BY <1>5, <1>6, <2>1
<1> HIDE DEF arc
<1>8. /\ x \in Seq(Bytes) /\ Len(x) = ((4 + n) + 2) + m
      /\ \A i \in 1..((4 + n) + 2) + m : x[i] = IF i <= (4 + n) + 2 THEN arc[i] ELSE sp[i - ((4 + n) + 2)]
  <2>1. /\ x \in Seq(Bytes) /\ Len(x) = Len(arc) + Len(sp)
        /\ \A i \in 1..Len(arc) + Len(sp) : x[i] = IF i <= Len(arc) THEN arc[i] ELSE sp[i - Len(arc)]
    BY <1>7, ConcatProperties
  <2> HIDE DEF x
  <2>2. Len(sp) = m
    BY DEF m
  <2> QED
    BY <1>7, <2>1, <2>2
<1> HIDE DEF x
<1>9. ASSUME NEW i \in 1..4 PROVE x[i] = a[i]
  <2>1. i \in 1..4 + n /\ i \in 1..(4 + n) + 2 /\ i \in 1..((4 + n) + 2) + m
        /\ i <= 4 /\ i <= 4 + n /\ i <= (4 + n) + 2
    BY <1>1
  <2> QED
    BY <1>6, <1>7, <1>8, <2>1
<1>10. ASSUME NEW i \in 1..n PROVE x[4 + i] = rp[i]
  <2>1. 4 + i \in 1..4 + n /\ 4 + i \in 1..(4 + n) + 2 /\ 4 + i \in 1..((4 + n) + 2) + m
        /\ ~(4 + i <= 4) /\ 4 + i <= 4 + n /\ 4 + i <= (4 + n) + 2 /\ (4 + i) - 4 = i
    BY <1>1
  <2> QED
    BY <1>6, <1>7, <1>8, <2>1
<1>11. ASSUME NEW i \in 1..2 PROVE x[4 + n + i] = c[i]
  <2>1. 4 + n + i \in 1..(4 + n) + 2 /\ 4 + n + i \in 1..((4 + n) + 2) + m
        /\ ~(4 + n + i <= 4 + n) /\ 4 + n + i <= (4 + n) + 2 /\ (4 + n + i) - (4 + n) = i
    BY <1>1
  <2> QED
    BY <1>7, <1>8, <2>1
<1>12. ASSUME NEW i \in 1..m PROVE x[6 + n + i] = sp[i]
  <2>1. 6 + n + i \in 1..((4 + n) + 2) + m /\ ~(6 + n + i <= (4 + n) + 2) /\ (6 + n + i) - ((4 + n) + 2) = i
    BY <1>1
  <2> QED
    BY <1>8, <2>1
<1>13. SigBytes(x, rp, sp)
  <2>1. 1 \in 1..4 /\ 2 \in 1..4 /\ 3 \in 1..4 /\ 4 \in 1..4 /\ 1 \in 1..2 /\ 2 \in 1..2
    OBVIOUS
  <2>2. 4 + n + 1 = 5 + n /\ 4 + n + 2 = 6 + n /\ ((4 + n) + 2) + m = 6 + m + n
    BY <1>1
  <2>3. x[1] = SequenceTag /\ x[2] = 4 + m + n /\ x[3] = IntegerTag /\ x[4] = n
    BY <1>4, <1>9, <2>1
  <2>4. x[5 + n] = IntegerTag /\ x[6 + n] = m
    BY <1>5, <1>11, <2>1, <2>2
  <2>5. x \in Seq(Bytes) /\ Len(x) = 6 + m + n
    BY <1>8, <2>2
  <2> QED
    BY <1>10, <1>12, <2>3, <2>4, <2>5 DEF SigBytes, n, m
<1>14. ASSUME NEW t, SigBytes(t, rp, sp) PROVE t = x
  <2>1. /\ t \in Seq(Bytes) /\ Len(t) = 6 + m + n
        /\ t[1] = SequenceTag /\ t[2] = 4 + m + n /\ t[3] = IntegerTag /\ t[4] = n
        /\ \A i \in 1..n : t[4 + i] = rp[i]
        /\ t[5 + n] = IntegerTag /\ t[6 + n] = m
        /\ \A i \in 1..m : t[6 + n + i] = sp[i]
    BY <1>14 DEF SigBytes, n, m
  <2>2. /\ x \in Seq(Bytes) /\ Len(x) = 6 + m + n
        /\ x[1] = SequenceTag /\ x[2] = 4 + m + n /\ x[3] = IntegerTag /\ x[4] = n
        /\ x[5 + n] = IntegerTag /\ x[6 + n] = m
    BY <1>13 DEF SigBytes, n, m
  <2>3. ASSUME NEW i \in 1..Len(t) PROVE t[i] = x[i]
    <3>1. i \in {1, 2, 3, 4} \/ i \in 5..4 + n \/ i \in {5 + n, 6 + n} \/ i \in 7 + n..6 + m + n
      BY <1>1, <2>1
    <3>2. CASE i \in {1, 2, 3, 4}
      BY <2>1, <2>2, <3>2
    <3>3. CASE i \in 5..4 + n
      <4>1. i - 4 \in 1..n /\ 4 + (i - 4) = i
        BY <1>1, <3>3
      <4>2. t[4 + (i - 4)] = rp[i - 4] /\ x[4 + (i - 4)] = rp[i - 4]
        BY <1>10, <2>1, <4>1
      <4> QED
        BY <4>1, <4>2
    <3>4. CASE i \in {5 + n, 6 + n}
      BY <2>1, <2>2, <3>4
    <3>5. CASE i \in 7 + n..6 + m + n
      <4>1. i - (6 + n) \in 1..m /\ 6 + n + (i - (6 + n)) = i
        BY <1>1, <3>5
      <4>2. t[6 + n + (i - (6 + n))] = sp[i - (6 + n)] /\ x[6 + n + (i - (6 + n))] = sp[i - (6 + n)]
        BY <1>12, <2>1, <4>1
      <4> QED
        BY <4>1, <4>2
    <3> QED
      BY <3>1, <3>2, <3>3, <3>4, <3>5
  <2> QED
    BY <2>1, <2>2, <2>3, SeqEqual
<1> QED
  BY <1>3, <1>13, <1>14

\* What ecdsa_sig_serialize returns.
LEMMA SerializeIs ==
    ASSUME NEW size, NEW r, NEW s
    PROVE  ecdsa_sig_serialize(size, r, s)
             = [ok |-> size >= 6 + Len(DerInteger(s)) + Len(DerInteger(r)),
                size |-> 6 + Len(DerInteger(s)) + Len(DerInteger(r)),
                sig |-> SigText(DerInteger(r), DerInteger(s))]
  BY DEF ecdsa_sig_serialize, SigText

\* A length that fits in a byte is the byte.
LEMMA ShortLength ==
    ASSUME NEW t, NEW at, NEW l, LengthRead(t, at, l), l.len < High
    PROVE  t[at] = l.len /\ l.next = at + 1
<1>1. l.len \in Nat /\ t[at] \in Nat /\ High \in Nat
  BY ByteFacts DEF LengthRead
<1>2. t[at] >= High => l.len >= High
  BY DEF LengthRead
<1>3. t[at] < High
  <2> DEFINE b == t[at]
             n == l.len
  <2> HIDE DEF b, n
  <2> SUFFICES b < High
    BY DEF b
  <2>1. b \in Nat /\ n \in Nat /\ High \in Nat /\ n < High /\ (b >= High => n >= High)
    BY <1>1, <1>2 DEF b, n
  <2> QED
    BY <2>1
<1> QED
  BY <1>3 DEF LengthRead
-----------------------------------------------------------------------------
\* A text that is taken, with numbers other than 0, is what is written for them.
LEMMA StrictCanonical ==
    ASSUME NEW t \in Seq(Bytes), ecdsa_sig_parse(t).ok,
           ecdsa_sig_parse(t).r # 0, ecdsa_sig_parse(t).s # 0
    PROVE  ecdsa_sig_serialize(Len(t), ecdsa_sig_parse(t).r, ecdsa_sig_parse(t).s)
             = [ok |-> TRUE, size |-> Len(t), sig |-> t]
<1>1. PICK T, A, B : StrictRead(t, T, A, B)
  BY StrictIs
<1>2. /\ LengthRead(t, 2, T) /\ T.next + T.len - 1 = Len(t) /\ T.next >= 1
      /\ A = der_parse_integer(t, T.next) /\ A.ok
      /\ B = der_parse_integer(t, A.next) /\ B.ok /\ B.next = Len(t) + 1
      /\ t[1] = SequenceTag
      /\ ecdsa_sig_parse(t) = [ok |-> TRUE, r |-> A.r, s |-> B.r]
  BY <1>1 DEF StrictRead
<1>3. Len(t) \in Nat /\ High \in Nat /\ ScalarBytes \in Nat /\ 2 * ScalarBytes + 6 < High
  BY LenProperties, ByteFacts, DerAssumption
<1>4. T.next \in Nat /\ T.len \in Nat
  BY <1>2 DEF LengthRead
<1> DEFINE at == T.next
           p == BodyAt(t, at)
           l == LengthAt(t, at)
           bt == A.next
           u == BodyAt(t, bt)
           k == LengthAt(t, bt)
<1>5. /\ at + 1 <= Len(t) /\ t[at] = IntegerTag
      /\ LengthRead(t, at + 1, l) /\ l.len # 0
      /\ p \in Seq(Bytes) /\ Len(p) = l.len /\ ~Padded(p)
      /\ \A i \in 1..l.len : p[i] = t[l.next + i - 1]
      /\ A = [ok |-> TRUE, r |-> ScalarOf(p, Stripped(p)), next |-> l.next + l.len]
  BY <1>2, <1>4, IntegerRead
<1>6. l.len \in Nat /\ l.next \in Nat /\ bt = l.next + l.len /\ A.r = ScalarOf(p, Stripped(p)) /\ Len(p) # 0
  <2> HIDE DEF l, p, at
  <2>1. l.len \in Nat /\ l.next \in Nat
    BY <1>5 DEF LengthRead
  <2> QED
    BY <1>5, <2>1
<1>7. DerInteger(A.r) = p /\ l.len <= ScalarBytes + 1
  <2>1. ScalarOf(p, Stripped(p)) # 0
    BY <1>2, <1>6
  <2> HIDE DEF p, l
  <2> QED
    BY <1>5, <1>6, <2>1, IntegerCanonical
<1>8. t[at + 1] = l.len /\ l.next = at + 2
  <2> HIDE DEF l, at
  <2>1. l.len < High
    BY <1>3, <1>6, <1>7
  <2>2. at \in Nat
    BY <1>4 DEF at
  <2> QED
    BY <1>5, <2>1, <2>2, ShortLength
<1>9. bt \in Nat /\ bt >= 1
  <2> HIDE DEF l
  <2> QED
    BY <1>4, <1>6, <1>8
<1>10. /\ bt + 1 <= Len(t) /\ t[bt] = IntegerTag
       /\ LengthRead(t, bt + 1, k) /\ k.len # 0
       /\ u \in Seq(Bytes) /\ Len(u) = k.len /\ ~Padded(u)
       /\ \A i \in 1..k.len : u[i] = t[k.next + i - 1]
       /\ B = [ok |-> TRUE, r |-> ScalarOf(u, Stripped(u)), next |-> k.next + k.len]
  BY <1>2, <1>9, IntegerRead
<1>11. k.len \in Nat /\ k.next \in Nat /\ B.next = k.next + k.len /\ B.r = ScalarOf(u, Stripped(u)) /\ Len(u) # 0
  <2> HIDE DEF k, u, bt
  <2>1. k.len \in Nat /\ k.next \in Nat
    BY <1>10 DEF LengthRead
  <2> QED
    BY <1>10, <2>1
<1>12. DerInteger(B.r) = u /\ k.len <= ScalarBytes + 1
  <2>1. ScalarOf(u, Stripped(u)) # 0
    BY <1>2, <1>11
  <2> HIDE DEF u, k
  <2> QED
    BY <1>10, <1>11, <2>1, IntegerCanonical
<1>13. t[bt + 1] = k.len /\ k.next = bt + 2
  <2> HIDE DEF k, bt
  <2>1. k.len < High
    BY <1>3, <1>11, <1>12
  <2>2. bt \in Nat
    BY <1>9
  <2> QED
    BY <1>10, <2>1, <2>2, ShortLength
<1> DEFINE n == l.len
           m == k.len
<1>14. n \in Nat /\ n >= 1 /\ n <= ScalarBytes + 1 /\ m \in Nat /\ m >= 1 /\ m <= ScalarBytes + 1
  <2>1. n \in Nat /\ n # 0 /\ n <= ScalarBytes + 1
    BY <1>5, <1>6, <1>7
  <2>2. m \in Nat /\ m # 0 /\ m <= ScalarBytes + 1
    BY <1>10, <1>11, <1>12
  <2> HIDE DEF n, m
  <2> QED
    BY <2>1, <2>2
<1>15. bt = at + 2 + n /\ Len(t) + 1 = bt + 2 + m
  <2>1. bt = l.next + n /\ l.next = at + 2
    BY <1>6, <1>8
  <2>2. Len(t) + 1 = k.next + m /\ k.next = bt + 2
    BY <1>2, <1>11, <1>13
  <2> HIDE DEF at, bt, l, k, n, m
  <2> QED
    BY <2>1, <2>2
<1>16. Len(p) = n /\ Len(u) = m
  BY <1>5, <1>10
<1>17. at = 3 /\ t[2] = 4 + m + n /\ Len(t) = 6 + m + n /\ bt = 5 + n
  <2>1. T.len = 4 + m + n
    <3>1. at \in Nat /\ at + T.len - 1 = Len(t)
      BY <1>2, <1>4
    <3>2. T.len \in Nat /\ Len(t) \in Nat
      BY <1>3, <1>4
    <3> DEFINE tlen == T.len
               size == Len(t)
    <3> HIDE DEF n, m, at, bt, tlen, size
    <3>3. tlen \in Nat /\ size \in Nat /\ at \in Nat /\ at + tlen - 1 = size
      BY <3>1, <3>2 DEF tlen, size
    <3>4. bt = at + 2 + n /\ size + 1 = bt + 2 + m /\ n \in Nat /\ m \in Nat
      BY <1>14, <1>15 DEF size
    <3>5. tlen = 4 + m + n
      BY <3>3, <3>4
    <3> QED
      BY <3>5 DEF tlen
  <2>2. T.len < High
    <3> HIDE DEF n, m
    <3> QED
      BY <1>3, <1>14, <2>1
  <2>3. t[2] = T.len /\ T.next = 2 + 1
    BY <1>2, <2>2, ShortLength
  <2>4. at = 3
    BY <2>3
  <2> HIDE DEF n, m, at, bt
  <2> QED
    BY <1>3, <1>14, <1>15, <2>1, <2>3, <2>4
<1>18. /\ t[3] = IntegerTag /\ t[4] = n /\ l.next = 5
       /\ t[5 + n] = IntegerTag /\ t[6 + n] = m /\ k.next = 7 + n
  <2>1. t[at] = IntegerTag /\ t[at + 1] = n /\ l.next = at + 2 /\ t[bt] = IntegerTag /\ t[bt + 1] = m /\ k.next = bt + 2
    BY <1>5, <1>8, <1>10, <1>13
  <2>2. l.next = 5 /\ k.next = 7 + n /\ at + 1 = 4 /\ bt + 1 = 6 + n
    <3> DEFINE ln == l.next
               kn == k.next
    <3>1. ln = at + 2 /\ kn = bt + 2
      BY <2>1
    <3> HIDE DEF n, m, at, bt, ln, kn
    <3>2. ln = 5 /\ kn = 7 + n /\ at + 1 = 4 /\ bt + 1 = 6 + n
      BY <1>14, <1>17, <3>1
    <3> QED
      BY <3>2 DEF ln, kn
  <2> HIDE DEF n, m, at, bt
  <2> QED
    BY <1>17, <2>1, <2>2
<1>19. (\A i \in 1..n : p[i] = t[4 + i]) /\ \A i \in 1..m : u[i] = t[6 + n + i]
  <2>1. (\A i \in 1..n : p[i] = t[l.next + i - 1]) /\ \A i \in 1..m : u[i] = t[k.next + i - 1]
    BY <1>5, <1>10
  <2>2. (\A i \in 1..n : 5 + i - 1 = 4 + i) /\ \A i \in 1..m : (7 + n) + i - 1 = 6 + n + i
    <3> HIDE DEF n, m
    <3> QED
      BY <1>14
  <2>3. (\A i \in 1..n : p[i] = t[5 + i - 1]) /\ \A i \in 1..m : u[i] = t[(7 + n) + i - 1]
    <3> HIDE DEF n, m, p, u
    <3> QED
      BY <1>18, <2>1
  <2> HIDE DEF n, m, p, u
  <2> QED
    BY <2>2, <2>3
<1>20. p \in Seq(Bytes) /\ u \in Seq(Bytes) /\ Len(p) \in 1..ScalarBytes+1 /\ Len(u) \in 1..ScalarBytes+1
  <2>1. p \in Seq(Bytes) /\ u \in Seq(Bytes)
    BY <1>5, <1>10
  <2>2. n \in 1..ScalarBytes+1 /\ m \in 1..ScalarBytes+1
    <3> HIDE DEF n, m
    <3> QED
      BY <1>3, <1>14
  <2> HIDE DEF p, u, n, m
  <2> QED
    BY <1>16, <2>1, <2>2
<1> HIDE DEF at, bt, p, u, n, m, l, k
<1>21. SigBytes(t, p, u)
  BY <1>2, <1>16, <1>17, <1>18, <1>19 DEF SigBytes
<1>22. t = SigText(p, u)
  BY <1>20, <1>21, SigTextIs
<1>23. ecdsa_sig_serialize(Len(t), A.r, B.r)
         = [ok |-> Len(t) >= 6 + Len(u) + Len(p), size |-> 6 + Len(u) + Len(p), sig |-> SigText(p, u)]
  BY <1>7, <1>12, SerializeIs
<1>24. Len(t) = 6 + Len(u) + Len(p) /\ Len(t) >= 6 + Len(u) + Len(p)
  BY <1>3, <1>16, <1>17
<1>25. ecdsa_sig_parse(t).r = A.r /\ ecdsa_sig_parse(t).s = B.r
  BY <1>2
<1>26. ecdsa_sig_serialize(Len(t), A.r, B.r) = [ok |-> TRUE, size |-> Len(t), sig |-> t]
  <2>1. (Len(t) >= 6 + Len(u) + Len(p)) = TRUE
    BY <1>24
  <2> QED
    BY <1>22, <1>23, <1>24, <2>1
<1> QED
  BY <1>25, <1>26
-----------------------------------------------------------------------------
\* A short length is read.
LEMMA ShortRead ==
    ASSUME NEW t \in Seq(Bytes), NEW at \in Nat, at <= Len(t), NEW n \in Nat, t[at] = n, n < High
    PROVE  der_read_len(t, at) = [ok |-> TRUE, len |-> n, next |-> at + 1]
<1>1. Len(t) \in Nat /\ High \in Nat /\ High >= 1 /\ AllOnes = 2 * High - 1
  BY LenProperties, ByteFacts
<1>2. ~(at > Len(t) \/ t[at] = AllOnes)
  BY <1>1
<1> QED
  BY <1>2 DEF der_read_len

\* And so is an integer of that length, if it is not padded.
LEMMA ShortInteger ==
    ASSUME NEW t \in Seq(Bytes), NEW at \in Nat, at >= 1, NEW p \in Seq(Bytes),
           Len(p) \in 1..ScalarBytes+1, ~Padded(p), at + 1 + Len(p) <= Len(t),
           t[at] = IntegerTag, t[at + 1] = Len(p), \A i \in 1..Len(p) : t[at + 1 + i] = p[i]
    PROVE  der_parse_integer(t, at)
             = [ok |-> TRUE, r |-> ScalarOf(p, Stripped(p)), next |-> at + 2 + Len(p)]
<1> DEFINE n == Len(p)
<1>1. Len(t) \in Nat /\ High \in Nat /\ ScalarBytes \in Nat /\ 2 * ScalarBytes + 6 < High
      /\ n \in 1..ScalarBytes+1
  BY LenProperties, ByteFacts, DerAssumption
<1>2. at + 1 + n <= Len(t) /\ t[at + 1] = n /\ \A i \in 1..n : t[at + 1 + i] = p[i]
  OBVIOUS
<1>3. p \in Seq(Bytes) /\ Len(p) = n
  OBVIOUS
<1> HIDE DEF n
<1>4. n \in Nat /\ n >= 1 /\ n < High /\ at + 1 \in Nat /\ at + 1 <= Len(t)
  BY <1>1, <1>2
<1>5. der_read_len(t, at + 1) = [ok |-> TRUE, len |-> n, next |-> (at + 1) + 1]
  BY <1>2, <1>4, ShortRead
<1> DEFINE l == der_read_len(t, at + 1)
           q == SubSeq(t, l.next, l.next + l.len - 1)
<1>6. l.ok /\ l.len = n /\ l.next = at + 2
  BY <1>5
<1> HIDE DEF l
<1>7. q = SubSeq(t, at + 2, at + 1 + n)
  <2>1. l.next + l.len - 1 = at + 1 + n
    BY <1>4, <1>6
  <2> QED
    BY <1>6, <2>1
<1> HIDE DEF q
<1>8. q = p
  <2>1. at + 2 \in Nat /\ at + 2 >= 1 /\ at + 1 + n \in Int /\ at + 1 + n <= Len(t)
        /\ at + 2 <= (at + 1 + n) + 1 /\ (at + 1 + n) - (at + 2) + 1 = n
    BY <1>2, <1>4
  <2>2. q \in Seq(Bytes) /\ Len(q) = (at + 1 + n) - (at + 2) + 1
        /\ \A i \in 1..Len(q) : q[i] = t[at + 2 + i - 1]
    BY <1>7, <2>1, PartOf
  <2>3. Len(q) = n
    BY <2>1, <2>2
  <2>4. \A i \in 1..Len(q) : q[i] = p[i]
    <3>1. \A i \in 1..n : at + 2 + i - 1 = at + 1 + i
      BY <1>4
    <3> QED
      BY <1>2, <2>2, <2>3, <3>1
  <2> QED
    BY <1>3, <2>2, <2>3, <2>4, SeqEqual
<1>9. ~(at > Len(t) \/ t[at] # IntegerTag)
  BY <1>1, <1>4
<1>10. ~(~l.ok \/ l.len = 0 \/ l.next + l.len - 1 > Len(t))
  <2>1. ~(at + 2 + n - 1 > Len(t)) /\ n # 0
    BY <1>1, <1>2, <1>4
  <2> QED
    BY <1>6, <2>1
<1>11. der_parse_integer(t, at)
         = [ok |-> TRUE, r |-> ScalarOf(q, Stripped(q)), next |-> l.next + l.len]
  <2>1. ~Padded(q)
    BY <1>8
  <2> QED
    BY <1>9, <1>10, <2>1 DEF der_parse_integer, l, q
<1> QED
  BY <1>6, <1>8, <1>11 DEF n

\* What is written is read back.
LEMMA ReadBack ==
    ASSUME NEW r \in 0..DerOrder-1, NEW s \in 0..DerOrder-1
    PROVE  LET t == SigText(DerInteger(r), DerInteger(s))
           IN  /\ t \in Seq(Bytes) /\ Len(t) = 6 + Len(DerInteger(s)) + Len(DerInteger(r))
               /\ Len(t) <= 2 * ScalarBytes + 8
               /\ ecdsa_sig_parse(t) = [ok |-> TRUE, r |-> r, s |-> s]
<1> DEFINE p == DerInteger(r)
           u == DerInteger(s)
           t == SigText(p, u)
           n == Len(p)
           m == Len(u)
<1>1. /\ p \in Seq(Bytes) /\ n \in 1..ScalarBytes+1 /\ ~Padded(p) /\ ScalarOf(p, Stripped(p)) = r
      /\ u \in Seq(Bytes) /\ m \in 1..ScalarBytes+1 /\ ~Padded(u) /\ ScalarOf(u, Stripped(u)) = s
  BY IntegerWritten
<1> HIDE DEF p, u
<1>2. SigBytes(t, p, u)
  BY <1>1, SigTextIs
<1> HIDE DEF t
<1>3. /\ t \in Seq(Bytes) /\ Len(t) = 6 + m + n
      /\ t[1] = SequenceTag /\ t[2] = 4 + m + n /\ t[3] = IntegerTag /\ t[4] = n
      /\ \A i \in 1..n : t[4 + i] = p[i]
      /\ t[5 + n] = IntegerTag /\ t[6 + n] = m
      /\ \A i \in 1..m : t[6 + n + i] = u[i]
  BY <1>2 DEF SigBytes
<1>3a. Len(t) = 6 + m + n
  BY <1>3
<1>4. High \in Nat /\ ScalarBytes \in Nat /\ 2 * ScalarBytes + 6 < High
  BY ByteFacts, DerAssumption
<1>5. n \in Nat /\ n >= 1 /\ m \in Nat /\ m >= 1 /\ 4 + m + n < High /\ 6 + m + n <= 2 * ScalarBytes + 8
  <2>1. n \in 1..ScalarBytes+1 /\ m \in 1..ScalarBytes+1
    BY <1>1
  <2> HIDE DEF n, m
  <2> QED
    BY <1>4, <2>1
<1>6. der_read_len(t, 2) = [ok |-> TRUE, len |-> 4 + m + n, next |-> 3]
  <2> DEFINE at == 2
             k == 4 + m + n
  <2>1. at \in Nat /\ at <= Len(t) /\ k \in Nat /\ at + 1 = 3
    BY <1>3, <1>5
  <2>2. t[at] = k /\ k < High /\ t \in Seq(Bytes)
    BY <1>3, <1>5
  <2> HIDE DEF at, k
  <2>3. der_read_len(t, at) = [ok |-> TRUE, len |-> k, next |-> at + 1]
    BY <2>1, <2>2, ShortRead
  <2> QED
    BY <2>1, <2>3 DEF at, k
<1>7. der_parse_integer(t, 3) = [ok |-> TRUE, r |-> r, next |-> 5 + n]
  <2> DEFINE at == 3
  <2>1. at \in Nat /\ at >= 1 /\ at + 1 + n <= Len(t) /\ at + 1 = 4 /\ at + 2 + n = 5 + n
        /\ \A i \in 1..n : at + 1 + i = 4 + i
    BY <1>3a, <1>5
  <2>2. t[at] = IntegerTag /\ t[at + 1] = n /\ \A i \in 1..n : t[at + 1 + i] = p[i]
    BY <1>3, <2>1
  <2> HIDE DEF at
  <2>3. der_parse_integer(t, at) = [ok |-> TRUE, r |-> ScalarOf(p, Stripped(p)), next |-> at + 2 + n]
    <3>1. /\ t \in Seq(Bytes) /\ p \in Seq(Bytes) /\ Len(p) \in 1..ScalarBytes+1 /\ ~Padded(p)
          /\ at \in Nat /\ at >= 1 /\ at + 1 + Len(p) <= Len(t)
          /\ t[at] = IntegerTag /\ t[at + 1] = Len(p) /\ \A i \in 1..Len(p) : t[at + 1 + i] = p[i]
      BY <1>1, <1>3, <2>1, <2>2
    <3>2. der_parse_integer(t, at)
            = [ok |-> TRUE, r |-> ScalarOf(p, Stripped(p)), next |-> at + 2 + Len(p)]
      BY <3>1, ShortInteger
    <3> QED
      BY <3>2
  <2>4. der_parse_integer(t, at) = [ok |-> TRUE, r |-> r, next |-> 5 + n]
    <3>1. ScalarOf(p, Stripped(p)) = r /\ at + 2 + n = 5 + n
      BY <1>1, <2>1
    <3> QED
      BY <2>3, <3>1
  <2> QED
    BY <2>4 DEF at
<1>8. der_parse_integer(t, 5 + n) = [ok |-> TRUE, r |-> s, next |-> 7 + n + m]
  <2> DEFINE at == 5 + n
  <2>1. at \in Nat /\ at >= 1 /\ at + 1 + m <= Len(t) /\ at + 1 = 6 + n /\ at + 2 + m = 7 + n + m
        /\ \A i \in 1..m : at + 1 + i = 6 + n + i
    BY <1>3a, <1>5
  <2>2. t[at] = IntegerTag /\ t[at + 1] = m /\ \A i \in 1..m : t[at + 1 + i] = u[i]
    BY <1>3, <2>1
  <2> HIDE DEF at
  <2>3. der_parse_integer(t, at) = [ok |-> TRUE, r |-> ScalarOf(u, Stripped(u)), next |-> at + 2 + m]
    <3>1. /\ t \in Seq(Bytes) /\ u \in Seq(Bytes) /\ Len(u) \in 1..ScalarBytes+1 /\ ~Padded(u)
          /\ at \in Nat /\ at >= 1 /\ at + 1 + Len(u) <= Len(t)
          /\ t[at] = IntegerTag /\ t[at + 1] = Len(u) /\ \A i \in 1..Len(u) : t[at + 1 + i] = u[i]
      BY <1>1, <1>3, <2>1, <2>2
    <3>2. der_parse_integer(t, at)
            = [ok |-> TRUE, r |-> ScalarOf(u, Stripped(u)), next |-> at + 2 + Len(u)]
      BY <3>1, ShortInteger
    <3> QED
      BY <3>2
  <2>4. der_parse_integer(t, at) = [ok |-> TRUE, r |-> s, next |-> 7 + n + m]
    <3>1. ScalarOf(u, Stripped(u)) = s /\ at + 2 + m = 7 + n + m
      BY <1>1, <2>1
    <3> QED
      BY <2>3, <3>1
  <2> QED
    BY <2>4 DEF at
<1>9. ~(t = <<>> \/ t[1] # SequenceTag)
  BY <1>3, <1>5
<1>10. 3 + (4 + m + n) - 1 = Len(t) /\ 7 + n + m = Len(t) + 1
  BY <1>3, <1>5
<1>11. ecdsa_sig_parse(t) = [ok |-> TRUE, r |-> r, s |-> s]
  <2> DEFINE T == der_read_len(t, 2)
             A == der_parse_integer(t, T.next)
             B == der_parse_integer(t, A.next)
  <2>1. T.ok /\ T.next + T.len - 1 = Len(t) /\ T.next = 3
    BY <1>6, <1>10
  <2>2. A.ok /\ A.r = r /\ A.next = 5 + n
    <3> HIDE DEF n
    <3> QED
      BY <1>7, <2>1
  <2>3. B.ok /\ B.r = s /\ B.next = Len(t) + 1
    <3> HIDE DEF n, m, A
    <3> QED
      BY <1>8, <1>10, <2>2
  <2>4. ~(~T.ok \/ T.next + T.len - 1 # Len(t)) /\ ~(~A.ok) /\ ~(~B.ok \/ B.next # Len(t) + 1)
    BY <2>1, <2>2, <2>3
  <2>5. ecdsa_sig_parse(t) = [ok |-> TRUE, r |-> A.r, s |-> B.r]
    <3> HIDE DEF n, m
    <3> QED
      BY <1>9, <2>4 DEF ecdsa_sig_parse
  <2> HIDE DEF T, A, B, n, m
  <2> QED
    BY <2>2, <2>3, <2>5
<1> QED
  BY <1>3, <1>5, <1>11 DEF t, p, u
-----------------------------------------------------------------------------
\* A text is bytes, few enough for the edits to come.
TextInv ==
    /\ text \in Seq(Bytes) /\ edits \in 0..MaxEdits
    /\ Len(text) + (MaxEdits - edits) < Weight(SizeBytes - 1)

\* What the forms of a length are.
LEMMA FormIs ==
    ASSUME NEW len \in Nat, NEW form \in LengthForms(len)
    PROVE  form \in Seq(Bytes) /\ Len(form) <= SizeBytes + 1 /\ Len(form) \in Nat
<1>1. High \in Nat /\ High >= 1 /\ Bytes = 0..2 * High - 1 /\ SizeBytes \in Nat /\ SizeBytes >= 1 /\ SizeBytes < High
  BY ByteFacts, DerAssumption
<1>2. CASE len < High /\ form = <<len>>
  <2>1. len \in Bytes
    BY <1>1, <1>2
  <2>2. <<len>> \in Seq(Bytes) /\ Len(<<len>>) = 1
    BY <2>1
  <2> QED
    BY <1>1, <1>2, <2>2
<1>3. ASSUME NEW n \in 1..SizeBytes, form = <<High + n>> \o BytesOf(len, n)
      PROVE  form \in Seq(Bytes) /\ Len(form) <= SizeBytes + 1 /\ Len(form) \in Nat
  <2> DEFINE b == BytesOf(len, n)
             c == <<High + n>>
  <2>1. High + n \in Bytes /\ n \in Nat
    BY <1>1
  <2>2. c \in Seq(Bytes) /\ Len(c) = 1
    BY <2>1
  <2>3. b \in Seq(Bytes) /\ Len(b) = n
    <3>1. ASSUME NEW i \in 1..n PROVE (len \div Weight(n - i)) % Weight(1) \in Bytes
      <4> DEFINE q == len \div Weight(n - i)
                 d == Weight(1)
      <4>1. n - i \in Nat /\ 1 \in Nat
        BY <2>1
      <4>2. q \in Nat /\ d \in Nat /\ d >= 1
        BY <4>1, DivByMore, WeightStep
      <4> HIDE DEF q, d
      <4>3. q \in Int /\ d \in Nat \ {0}
        BY <4>2
      <4>4. q % d \in 0..d-1
        BY <4>3, Division
      <4> QED
        BY <4>4 DEF q, d, Bytes, AllOnes
    <3>2. b \in [1..n -> Bytes]
      BY <3>1 DEF BytesOf
    <3> HIDE DEF b
    <3> QED
      BY <2>1, <3>2
  <2> HIDE DEF b, c
  <2>4. c \o b \in Seq(Bytes) /\ Len(c \o b) = Len(c) + Len(b)
    BY <2>2, <2>3, ConcatProperties
  <2>5. form = c \o b
    BY <1>3 DEF b, c
  <2>6. Len(form) = 1 + n
    BY <2>2, <2>3, <2>4, <2>5
  <2>7. 1 + n <= SizeBytes + 1 /\ 1 + n \in Nat
    BY <1>1, <2>1
  <2> QED
    BY <2>4, <2>5, <2>6, <2>7
<1> QED
  BY <1>2, <1>3 DEF LengthForms

\* A tag, a length and what follows.
LEMMA TaggedIs ==
    ASSUME NEW tag \in Bytes, NEW body \in Seq(Bytes), NEW form \in LengthForms(Len(body))
    PROVE  LET x == <<tag>> \o form \o body
           IN  x \in Seq(Bytes) /\ Len(x) \in Nat /\ Len(x) <= 2 + SizeBytes + Len(body)
<1> DEFINE a == <<tag>>
           af == a \o form
           x == af \o body
<1>1. a \in Seq(Bytes) /\ Len(a) = 1 /\ Len(body) \in Nat
  BY LenProperties
<1>2. form \in Seq(Bytes) /\ Len(form) <= SizeBytes + 1 /\ Len(form) \in Nat /\ SizeBytes \in Nat
  BY <1>1, FormIs, DerAssumption
<1> HIDE DEF a
<1>3. af \in Seq(Bytes) /\ Len(af) = Len(a) + Len(form)
  BY <1>1, <1>2, ConcatProperties
<1> HIDE DEF af
<1>4. x \in Seq(Bytes) /\ Len(x) = Len(af) + Len(body)
  BY <1>3, ConcatProperties
<1> HIDE DEF x
<1>5. Len(x) \in Nat /\ Len(x) <= 2 + SizeBytes + Len(body)
  BY <1>1, <1>2, <1>3, <1>4
<1> QED
  BY <1>4, <1>5 DEF x, af, a
\* What writers make fits.
LEMMA TextFirst == DerInit => TextInv
<1> SUFFICES ASSUME DerInit PROVE TextInv
  OBVIOUS
<1>1. MaxEdits \in Nat /\ edits = 0 /\ edits \in 0..MaxEdits /\ MaxEdits - edits = MaxEdits
      /\ ScalarBytes \in Nat /\ SizeBytes \in Nat /\ SizeBytes - 1 \in Nat
      /\ 2 * ScalarBytes + 8 + MaxEdits < Weight(SizeBytes - 1)
      /\ SequenceTag \in Bytes /\ IntegerTag \in Bytes /\ DerBodies \subseteq Seq(Bytes)
  BY DerAssumption, TextsFitAssumption DEF DerInit
<1>2. Weight(SizeBytes - 1) \in Nat
  BY <1>1, WeightStep
<1>3. CASE \E r, s \in DerNumbers : text = ecdsa_sig_serialize(6 + 2 * (ScalarBytes + 1), r, s).sig
  <2>1. PICK r \in DerNumbers, s \in DerNumbers :
               text = ecdsa_sig_serialize(6 + 2 * (ScalarBytes + 1), r, s).sig
    BY <1>3
  <2>2. r \in 0..DerOrder-1 /\ s \in 0..DerOrder-1
    BY DerAssumption
  <2>3. text = SigText(DerInteger(r), DerInteger(s))
    BY <2>1, SerializeIs
  <2>4. text \in Seq(Bytes) /\ Len(text) <= 2 * ScalarBytes + 8
    BY <2>2, <2>3, ReadBack
  <2>5. Len(text) \in Nat
    BY <2>4, LenProperties
  <2>6. Len(text) + (MaxEdits - edits) < Weight(SizeBytes - 1)
    BY <1>1, <1>2, <2>4, <2>5
  <2> QED
    BY <1>1, <2>4, <2>6 DEF TextInv
<1>4. CASE \E a, b \in DerBodies : \E r \in Written(a), s \in Written(b) :
             \E form \in LengthForms(Len(r \o s)) : text = <<SequenceTag>> \o form \o r \o s
  <2>1. PICK a \in DerBodies, b \in DerBodies : \E r \in Written(a), s \in Written(b) :
             \E form \in LengthForms(Len(r \o s)) : text = <<SequenceTag>> \o form \o r \o s
    BY <1>4
  <2>2. PICK r \in Written(a), s \in Written(b) :
             \E form \in LengthForms(Len(r \o s)) : text = <<SequenceTag>> \o form \o r \o s
    BY <2>1
  <2>3. PICK form \in LengthForms(Len(r \o s)) : text = <<SequenceTag>> \o form \o r \o s
    BY <2>2
  <2>4. a \in Seq(Bytes) /\ b \in Seq(Bytes) /\ Len(a) \in Nat /\ Len(b) \in Nat
    BY <1>1, LenProperties
  <2>5. r \in Seq(Bytes) /\ Len(r) \in Nat /\ Len(r) <= 2 + SizeBytes + Len(a)
    <3>1. PICK f \in LengthForms(Len(a)) : r = <<IntegerTag>> \o f \o a
      BY DEF Written
    <3> QED
      BY <1>1, <2>4, <3>1, TaggedIs
  <2>6. s \in Seq(Bytes) /\ Len(s) \in Nat /\ Len(s) <= 2 + SizeBytes + Len(b)
    <3>1. PICK f \in LengthForms(Len(b)) : s = <<IntegerTag>> \o f \o b
      BY DEF Written
    <3> QED
      BY <1>1, <2>4, <3>1, TaggedIs
  <2> DEFINE both == r \o s
  <2>7. both \in Seq(Bytes) /\ Len(both) = Len(r) + Len(s)
    BY <2>5, <2>6, ConcatProperties
  <2>8. text = <<SequenceTag>> \o form \o both
    <3> DEFINE c == <<SequenceTag>> \o form
    <3>1. form \in Seq(Bytes) /\ <<SequenceTag>> \in Seq(Bytes)
      <4>1. Len(both) \in Nat
        BY <2>7, LenProperties
      <4>2. <<SequenceTag>> \in Seq(Bytes)
        BY <1>1
      <4> QED
        BY <2>3, <4>1, <4>2, FormIs
    <3>2. c \in Seq(Bytes)
      BY <3>1, ConcatProperties
    <3>3. text = (c \o r) \o s
      BY <2>3
    <3> HIDE DEF c
    <3>4. (c \o r) \o s = c \o (r \o s)
      <4>1. c \in Seq(Bytes) /\ r \in Seq(Bytes) /\ s \in Seq(Bytes)
        BY <2>5, <2>6, <3>2
      <4> QED
        BY <4>1, ConcatAssociative
    <3> QED
      BY <3>3, <3>4 DEF c
  <2>9. text \in Seq(Bytes) /\ Len(text) \in Nat /\ Len(text) <= 2 + SizeBytes + Len(both)
    <3>1. form \in LengthForms(Len(both))
      BY <2>3
    <3> HIDE DEF both
    <3> QED
      BY <1>1, <2>7, <2>8, <3>1, TaggedIs
  <2>10. Len(a) + Len(b) + 3 * (SizeBytes + 2) + MaxEdits < Weight(SizeBytes - 1)
    BY TextsFitAssumption
  <2>11. Len(text) + (MaxEdits - edits) < Weight(SizeBytes - 1)
    <3>1. Len(both) <= 2 * (2 + SizeBytes) + Len(a) + Len(b) /\ Len(both) \in Nat
      <4> HIDE DEF both
      <4> QED
        BY <1>1, <2>4, <2>5, <2>6, <2>7
    <3>2. Len(text) <= 3 * (SizeBytes + 2) + Len(a) + Len(b)
      <4> HIDE DEF both
      <4> QED
        BY <1>1, <2>4, <2>9, <3>1
    <3>3. edits = 0 /\ MaxEdits \in Nat /\ Weight(SizeBytes - 1) \in Nat
      BY <1>1, <1>2
    <3> QED
      BY <1>1, <2>4, <2>9, <2>10, <3>2, <3>3
  <2> QED
    BY <1>1, <2>9, <2>11 DEF TextInv
<1> QED
  BY <1>3, <1>4 DEF DerInit

\* Any edit leaves a text that is not too long.
LEMMA TextNext == TextInv /\ [DerNext]_derVars => TextInv'
<1> SUFFICES ASSUME TextInv, [DerNext]_derVars PROVE TextInv'
  OBVIOUS
<1>1. /\ text \in Seq(Bytes) /\ edits \in 0..MaxEdits
      /\ Len(text) + (MaxEdits - edits) < Weight(SizeBytes - 1)
  BY DEF TextInv
<1>2. Len(text) \in Nat /\ MaxEdits \in Nat /\ EditBytes \subseteq Bytes /\ Weight(SizeBytes - 1) \in Nat
  <2>1. SizeBytes - 1 \in Nat
    BY DerAssumption
  <2> QED
    BY <1>1, <2>1, DerAssumption, LenProperties, WeightStep
<1>3. CASE UNCHANGED derVars
  BY <1>1, <1>3 DEF derVars, TextInv
<1>4. ASSUME NEW t, Edit(t), t \in Seq(Bytes), Len(t) <= Len(text) + 1 PROVE TextInv'
  <2>1. edits < MaxEdits /\ edits' = edits + 1 /\ text' = t
    BY <1>4 DEF Edit
  <2>2. Len(t) \in Nat
    BY <1>4, LenProperties
  <2>3. edits' \in 0..MaxEdits /\ Len(t) + (MaxEdits - edits') < Weight(SizeBytes - 1)
    BY <1>1, <1>2, <1>4, <2>1, <2>2
  <2> QED
    BY <1>4, <2>1, <2>3 DEF TextInv
<1>5. ASSUME NEW i \in 1..Len(text), NEW b \in Bytes
      PROVE  LET before == SubSeq(text, 1, i - 1)
                 from == SubSeq(text, i, Len(text))
                 after == SubSeq(text, i + 1, Len(text))
             IN  /\ before \o after \in Seq(Bytes) /\ Len(before \o after) <= Len(text) + 1
                 /\ before \o <<b>> \o from \in Seq(Bytes) /\ Len(before \o <<b>> \o from) <= Len(text) + 1
                 /\ [text EXCEPT ![i] = b] \in Seq(Bytes) /\ Len([text EXCEPT ![i] = b]) <= Len(text) + 1
  <2> DEFINE before == SubSeq(text, 1, i - 1)
             from == SubSeq(text, i, Len(text))
             after == SubSeq(text, i + 1, Len(text))
             c == <<b>>
             bc == before \o c
  <2>1. before \in Seq(Bytes) /\ Len(before) = (i - 1) - 1 + 1
    <3>1. 1 \in Nat /\ 1 >= 1 /\ i - 1 \in Int /\ i - 1 <= Len(text) /\ 1 <= (i - 1) + 1
      BY <1>2
    <3> QED
      BY <1>1, <3>1, PartOf
  <2>2. from \in Seq(Bytes) /\ Len(from) = Len(text) - i + 1
    <3>1. i \in Nat /\ i >= 1 /\ Len(text) \in Int /\ Len(text) <= Len(text) /\ i <= Len(text) + 1
      BY <1>2
    <3> QED
      BY <1>1, <3>1, PartOf
  <2>3. after \in Seq(Bytes) /\ Len(after) = Len(text) - (i + 1) + 1
    <3>1. i + 1 \in Nat /\ i + 1 >= 1 /\ Len(text) \in Int /\ Len(text) <= Len(text) /\ i + 1 <= Len(text) + 1
      BY <1>2
    <3> QED
      BY <1>1, <3>1, PartOf
  <2>4. c \in Seq(Bytes) /\ Len(c) = 1
    OBVIOUS
  <2>5. [text EXCEPT ![i] = b] \in Seq(Bytes) /\ Len([text EXCEPT ![i] = b]) = Len(text)
    BY <1>1, ExceptSeq
  <2> HIDE DEF before, from, after, c
  <2>6. before \o after \in Seq(Bytes) /\ Len(before \o after) = Len(before) + Len(after)
    BY <2>1, <2>3, ConcatProperties
  <2>7. bc \in Seq(Bytes) /\ Len(bc) = Len(before) + Len(c)
    BY <2>1, <2>4, ConcatProperties
  <2> HIDE DEF bc
  <2>8. bc \o from \in Seq(Bytes) /\ Len(bc \o from) = Len(bc) + Len(from)
    BY <2>2, <2>7, ConcatProperties
  <2>9. Len(before \o after) <= Len(text) + 1 /\ Len(bc \o from) <= Len(text) + 1
        /\ Len([text EXCEPT ![i] = b]) <= Len(text) + 1
    BY <1>2, <2>1, <2>2, <2>3, <2>4, <2>5, <2>6, <2>7, <2>8
  <2> QED
    BY <2>5, <2>6, <2>8, <2>9 DEF bc, before, from, after, c
<1>6. CASE DerNext
  <2>1. PICK i \in 1..Len(text) : Delete(i) \/ \E b \in EditBytes : Replace(i, b) \/ Insert(i, b)
    BY <1>6 DEF DerNext
  <2>2. CASE Delete(i)
    <3> DEFINE t == SubSeq(text, 1, i - 1) \o SubSeq(text, i + 1, Len(text))
    <3>1. Edit(t)
      BY <2>2 DEF Delete
    <3>2. 0 \in Bytes
      BY ByteFacts
    <3>3. t \in Seq(Bytes) /\ Len(t) <= Len(text) + 1
      BY <1>5, <3>2
    <3> HIDE DEF t
    <3> QED
      BY <1>4, <3>1, <3>3
  <2>3. ASSUME NEW b \in EditBytes, Replace(i, b) PROVE TextInv'
    <3> DEFINE t == [text EXCEPT ![i] = b]
    <3>1. Edit(t)
      BY <2>3 DEF Replace
    <3>2. b \in Bytes
      BY <1>2
    <3>3. t \in Seq(Bytes) /\ Len(t) <= Len(text) + 1
      BY <1>5, <3>2
    <3> HIDE DEF t
    <3> QED
      BY <1>4, <3>1, <3>3
  <2>4. ASSUME NEW b \in EditBytes, Insert(i, b) PROVE TextInv'
    <3> DEFINE t == SubSeq(text, 1, i - 1) \o <<b>> \o SubSeq(text, i, Len(text))
    <3>1. Edit(t)
      BY <2>4 DEF Insert
    <3>2. b \in Bytes
      BY <1>2
    <3>3. t \in Seq(Bytes) /\ Len(t) <= Len(text) + 1
      BY <1>5, <3>2
    <3> HIDE DEF t
    <3> QED
      BY <1>4, <3>1, <3>3
  <2> QED
    BY <2>1, <2>2, <2>3, <2>4
<1> QED
  BY <1>3, <1>6

\* What is promised of a text is true of any that fits.
LEMMA TextGives == TextInv => DerCanonical
<1> SUFFICES ASSUME TextInv PROVE DerCanonical
  OBVIOUS
<1>1. text \in Seq(Bytes) /\ Len(text) \in Nat /\ Len(text) < Weight(SizeBytes - 1)
  <2>1. /\ text \in Seq(Bytes) /\ edits \in 0..MaxEdits
        /\ Len(text) + (MaxEdits - edits) < Weight(SizeBytes - 1)
    BY DEF TextInv
  <2>2. SizeBytes - 1 \in Nat /\ MaxEdits \in Nat
    BY DerAssumption
  <2>3. Len(text) \in Nat /\ Weight(SizeBytes - 1) \in Nat
    BY <2>1, <2>2, LenProperties, WeightStep
  <2> QED
    BY <2>1, <2>2, <2>3
<1> DEFINE strict == ecdsa_sig_parse(text)
           lax == ecdsa_signature_parse_der_lax(text)
<1>2. ASSUME strict.ok PROVE lax.ok /\ (strict.r # 0 /\ strict.s # 0 => lax = strict)
  BY <1>1, <1>2, ParsersAgree
<1>3. ASSUME strict.ok, strict.r # 0, strict.s # 0
      PROVE  ecdsa_sig_serialize(Len(text), strict.r, strict.s) = [ok |-> TRUE, size |-> Len(text), sig |-> text]
  BY <1>1, <1>3, StrictCanonical
<1>4. ASSUME NEW r \in DerNumbers, NEW s \in DerNumbers, text = ecdsa_sig_serialize(Len(text), r, s).sig
      PROVE  /\ strict = [ok |-> TRUE, r |-> r, s |-> s]
             /\ ~ecdsa_sig_serialize(Len(text) - 1, r, s).ok
  <2>1. r \in 0..DerOrder-1 /\ s \in 0..DerOrder-1
    BY DerAssumption
  <2>2. text = SigText(DerInteger(r), DerInteger(s))
    BY <1>4, SerializeIs
  <2>3. Len(text) = 6 + Len(DerInteger(s)) + Len(DerInteger(r)) /\ strict = [ok |-> TRUE, r |-> r, s |-> s]
    BY <2>1, <2>2, ReadBack
  <2>4. ecdsa_sig_serialize(Len(text) - 1, r, s).ok
          = (Len(text) - 1 >= 6 + Len(DerInteger(s)) + Len(DerInteger(r)))
    BY SerializeIs
  <2>5. ~(Len(text) - 1 >= 6 + Len(DerInteger(s)) + Len(DerInteger(r)))
    BY <1>1, <2>3
  <2> QED
    BY <2>3, <2>4, <2>5
<1> HIDE DEF strict, lax
<1> QED
  BY <1>2, <1>3, <1>4 DEF DerCanonical, strict, lax

\* DerCanonical for bytes and scalars of any size: the strict parser takes one text for
\* every signature, the one that is written, and the lax parser reads it alike.
THEOREM TextsAreCanonical == DerSpec => []DerCanonical
<1>1. DerSpec => []TextInv
  BY TextFirst, TextNext, PTL DEF DerSpec
<1>2. TextInv => DerCanonical
  BY TextGives
<1> QED
  BY <1>1, <1>2, PTL
=============================================================================
