---------------------------- MODULE Multisig_proofs ----------------------------
(***************************************************************************)
(* Proofs about Multisig, for every list of keys, every set of signatures   *)
(* and every size: the signatures stay in step with the bits whatever is    *)
(* added in whatever order, so VerifyBytes decides what it should and a     *)
(* multisignature implements Threshold.                                     *)
(***************************************************************************)
EXTENDS Multisig, FiniteSetTheorems, SequenceTheorems, TLAPS

-----------------------------------------------------------------------------
(* The elements of a finite set of naturals in order: Rank counts those     *)
(* before one.                                                              *)

Before(T, i) == {j \in T : j < i}
Rank(T, i) == Cardinality(Before(T, i))

LEMMA SetFinite ==
    ASSUME NEW n \in Nat, NEW T \in SUBSET (0..(n - 1))
    PROVE  IsFiniteSet(T) /\ Cardinality(T) \in Nat /\ Cardinality(T) <= n
<1>1. IsFiniteSet(0..(n - 1)) /\ Cardinality(0..(n - 1)) = n
  BY FS_Interval
<1>2. IsFiniteSet(T) /\ Cardinality(T) <= n
  BY <1>1, FS_Subset
<1> QED
  BY <1>2, FS_CardinalityType

LEMMA BeforeFinite ==
    ASSUME NEW n \in Nat, NEW T \in SUBSET (0..(n - 1)), NEW i \in Int
    PROVE  /\ IsFiniteSet(Before(T, i)) /\ Rank(T, i) \in Nat
           /\ Rank(T, i) <= Cardinality(T)
<1>1. IsFiniteSet(T)
  BY SetFinite
<1>2. Before(T, i) \in SUBSET T
  BY DEF Before
<1>3. IsFiniteSet(Before(T, i)) /\ Rank(T, i) <= Cardinality(T)
  BY <1>1, <1>2, FS_Subset DEF Rank
<1> QED
  BY <1>3, FS_CardinalityType DEF Rank

\* More come before a later place.
LEMMA RankMono ==
    ASSUME NEW n \in Nat, NEW T \in SUBSET (0..(n - 1)), NEW i \in Int, NEW j \in Int, i <= j
    PROVE  Rank(T, i) <= Rank(T, j)
<1>1. \A x \in T : x \in Int
  OBVIOUS
<1>2. \A x \in Before(T, i) : x \in Before(T, j)
  BY <1>1 DEF Before
<1> QED
  BY <1>2, BeforeFinite, FS_Subset DEF Rank

\* An element of the set counts for every place after it.
LEMMA RankStep ==
    ASSUME NEW n \in Nat, NEW T \in SUBSET (0..(n - 1)), NEW i \in T, NEW j \in Int, i < j
    PROVE  Rank(T, i) + 1 <= Rank(T, j)
<1>1. i \in Int /\ i \notin Before(T, i) /\ \A x \in T : x \in Int
  BY DEF Before
<1>2. IsFiniteSet(Before(T, i)) /\ IsFiniteSet(Before(T, j)) /\ Rank(T, i) \in Nat
  BY <1>1, BeforeFinite
<1>3. Cardinality(Before(T, i) \cup {i}) = Rank(T, i) + 1
  BY <1>1, <1>2, FS_AddElement DEF Rank
<1>4. \A x \in Before(T, i) \cup {i} : x \in Before(T, j)
  BY <1>1 DEF Before
<1> QED
  BY <1>2, <1>3, <1>4, FS_Subset DEF Rank

\* Before the end come all.
LEMMA RankEnd ==
    ASSUME NEW n \in Nat, NEW T \in SUBSET (0..(n - 1)), NEW j \in Int, n <= j
    PROVE  Rank(T, j) = Cardinality(T)
<1>1. \A x \in T : x \in Int /\ x < j
  OBVIOUS
<1>2. Before(T, j) = T
  BY <1>1 DEF Before
<1> QED
  BY <1>2 DEF Rank

\* The elements are counted up to the last one.
LEMMA RankInside ==
    ASSUME NEW n \in Nat, NEW T \in SUBSET (0..(n - 1)), NEW i \in T
    PROVE  i \in Int /\ i < n /\ Rank(T, i) \in Nat /\ Rank(T, i) + 1 <= Cardinality(T)
<1>1. i \in Int /\ i < n
  OBVIOUS
<1>2. Rank(T, i) + 1 <= Rank(T, n)
  BY <1>1, RankStep
<1>3. Rank(T, n) = Cardinality(T)
  BY RankEnd
<1>4. Rank(T, i) \in Nat
  BY <1>1, BeforeFinite
<1> QED
  BY <1>1, <1>2, <1>3, <1>4

\* A new element moves those after it by one place.
LEMMA RankInsert ==
    ASSUME NEW n \in Nat, NEW T \in SUBSET (0..(n - 1)), NEW x \in 0..(n - 1), x \notin T,
           NEW i \in Int
    PROVE  Rank(T \cup {x}, i) = IF x < i THEN Rank(T, i) + 1 ELSE Rank(T, i)
<1>1. IsFiniteSet(Before(T, i)) /\ x \notin Before(T, i)
  BY BeforeFinite DEF Before
<1>2. CASE x < i
  <2>1. Before(T \cup {x}, i) = Before(T, i) \cup {x}
    BY <1>2 DEF Before
  <2> QED
    BY <1>1, <1>2, <2>1, FS_AddElement DEF Rank
<1>3. CASE ~(x < i)
  <2>1. Before(T \cup {x}, i) = Before(T, i)
    BY <1>3 DEF Before
  <2> QED
    BY <1>3, <2>1 DEF Rank
<1> QED
  BY <1>2, <1>3
-----------------------------------------------------------------------------
(* The bit array.                                                           *)

Bits == 0..7
Bytes(n) == 1..((n + 7) \div 8)
ArrayOf(n) == [ExtraBitsStored : {n % 8}, Elems : [Bytes(n) -> SUBSET Bits]]
Signed(bA) == TrueBitsBefore(bA, Size(bA))

LEMMA ByteBounds ==
    ASSUME NEW n \in Nat
    PROVE  /\ (n + 7) \div 8 \in Nat /\ n % 8 \in Bits
           /\ IF n % 8 = 0 THEN 8 * ((n + 7) \div 8) = n
                           ELSE 8 * ((n + 7) \div 8 - 1) + (n % 8) = n
           /\ \A i \in 0..(n - 1) : ByteAt(i) \in Bytes(n) /\ BitAt(i) \in Bits
<1>1. (n + 7) \div 8 \in Nat /\ n % 8 \in Bits
  BY DEF Bits
<1>2. n % 8 = 0 => 8 * ((n + 7) \div 8) = n
  OBVIOUS
<1>3. n % 8 # 0 => 8 * ((n + 7) \div 8 - 1) + (n % 8) = n
  OBVIOUS
<1>4. ASSUME NEW i \in 0..(n - 1) PROVE ByteAt(i) \in Bytes(n) /\ BitAt(i) \in Bits
  BY DEF Bits, Bytes, ByteAt, BitAt
<1> QED
  BY <1>1, <1>2, <1>3, <1>4

\* No two bits share a place.
LEMMA BitPlace ==
    ASSUME NEW i \in Nat, NEW j \in Nat, ByteAt(i) = ByteAt(j), BitAt(i) = BitAt(j)
    PROVE  i = j
  BY DEF ByteAt, BitAt

LEMMA SizeOf ==
    ASSUME NEW n \in Nat, NEW bA \in ArrayOf(n)
    PROVE  Size(bA) = n
<1>1. bA.ExtraBitsStored = n % 8 /\ bA.Elems \in [Bytes(n) -> SUBSET Bits]
  BY DEF ArrayOf
<1>2. Len(bA.Elems) = (n + 7) \div 8
  BY <1>1, ByteBounds DEF Bytes
<1> QED
  BY <1>1, <1>2, ByteBounds DEF Size

LEMMA SignedIsBits ==
    ASSUME NEW n \in Nat, NEW bA \in ArrayOf(n)
    PROVE  /\ Signed(bA) \in SUBSET (0..(n - 1))
           /\ \A i \in Nat : GetIndex(bA, i) <=> i \in Signed(bA)
  BY SizeOf DEF Signed, TrueBitsBefore, GetIndex

\* Those before an index are a part of those that have signed.
LEMMA CountIsRank ==
    ASSUME NEW n \in Nat, NEW bA \in ArrayOf(n), NEW i \in Nat
    PROVE  NumTrueBitsBefore(bA, i) = Rank(Signed(bA), i)
<1>1. \A j \in Signed(bA) : j \in Nat /\ GetIndex(bA, j)
  BY SignedIsBits DEF Signed, TrueBitsBefore
<1>2. TrueBitsBefore(bA, i) = Before(Signed(bA), i)
  <2>1. \A j \in TrueBitsBefore(bA, i) : j \in Nat /\ j < i /\ GetIndex(bA, j)
    BY DEF TrueBitsBefore
  <2>2. \A j \in TrueBitsBefore(bA, i) : j \in Before(Signed(bA), i)
    BY <2>1, SignedIsBits DEF Before
  <2>3. \A j \in Before(Signed(bA), i) : j \in TrueBitsBefore(bA, i)
    BY <1>1 DEF Before, TrueBitsBefore
  <2> QED
    BY <2>2, <2>3
<1> QED
  BY <1>2 DEF NumTrueBitsBefore, Rank

LEMMA NewArray ==
    ASSUME NEW n \in Nat
    PROVE  NewCompactBitArray(n) \in ArrayOf(n) /\ Signed(NewCompactBitArray(n)) = {}
<1>1. NewCompactBitArray(n) \in ArrayOf(n)
  BY DEF NewCompactBitArray, ArrayOf, Bytes
<1>2. \A i \in 0..(n - 1) : ~GetIndex(NewCompactBitArray(n), i)
  BY ByteBounds DEF GetIndex, NewCompactBitArray, Bytes
<1>3. Size(NewCompactBitArray(n)) = n
  BY <1>1, SizeOf
<1> QED
  BY <1>1, <1>2, <1>3 DEF Signed, TrueBitsBefore

\* Setting a bit sets that bit only; beyond the size it sets none.
LEMMA SetSigned ==
    ASSUME NEW n \in Nat, NEW bA \in ArrayOf(n), NEW x \in Nat
    PROVE  /\ SetIndex(bA, x) \in ArrayOf(n)
           /\ Signed(SetIndex(bA, x)) = IF x < n THEN Signed(bA) \cup {x} ELSE Signed(bA)
<1>1. CASE x >= n
  BY <1>1, SizeOf DEF SetIndex
<1>2. CASE x < n
  <2> DEFINE new == SetIndex(bA, x)
  <2>1. bA.Elems \in [Bytes(n) -> SUBSET Bits] /\ bA.ExtraBitsStored = n % 8
    BY DEF ArrayOf
  <2>2. new = [bA EXCEPT !.Elems[ByteAt(x)] = @ \cup {BitAt(x)}]
    <3>1. Size(bA) = n
      BY SizeOf
    <3> QED
      BY <1>2, <3>1 DEF SetIndex
  <2>3. ByteAt(x) \in Bytes(n) /\ BitAt(x) \in Bits
    BY <1>2, ByteBounds
  <2>4. new.Elems = [bA.Elems EXCEPT ![ByteAt(x)] = @ \cup {BitAt(x)}]
    BY <2>2 DEF ArrayOf
  <2>5. new.Elems \in [Bytes(n) -> SUBSET Bits]
    BY <2>1, <2>3, <2>4
  <2>6. new \in ArrayOf(n)
    BY <2>2, <2>4, <2>5 DEF ArrayOf
  <2>7. \A i \in 0..(n - 1) : GetIndex(new, i) <=> i = x \/ GetIndex(bA, i)
    <3> SUFFICES ASSUME NEW i \in 0..(n - 1)
                 PROVE  GetIndex(new, i) <=> i = x \/ GetIndex(bA, i)
      OBVIOUS
    <3>1. Size(new) = n /\ Size(bA) = n /\ ByteAt(i) \in Bytes(n)
      BY <2>6, SizeOf, ByteBounds
    <3>2. GetIndex(new, i) <=> BitAt(i) \in new.Elems[ByteAt(i)]
      BY <3>1 DEF GetIndex
    <3>3. GetIndex(bA, i) <=> BitAt(i) \in bA.Elems[ByteAt(i)]
      BY <3>1 DEF GetIndex
    <3>4. CASE ByteAt(i) = ByteAt(x)
      <4>1. BitAt(i) \in new.Elems[ByteAt(i)] <=> BitAt(i) = BitAt(x) \/ BitAt(i) \in bA.Elems[ByteAt(i)]
        BY <2>1, <2>3, <2>4, <3>4
      <4>2. BitAt(i) = BitAt(x) <=> i = x
        BY <3>4, BitPlace
      <4> QED
        BY <3>2, <3>3, <4>1, <4>2
    <3>5. CASE ByteAt(i) # ByteAt(x)
      <4>1. new.Elems[ByteAt(i)] = bA.Elems[ByteAt(i)] /\ i # x
        BY <2>1, <2>3, <2>4, <3>1, <3>5
      <4> QED
        BY <3>2, <3>3, <4>1
    <3> QED
      BY <3>4, <3>5
  <2>8. Signed(new) = {i \in 0..(n - 1) : GetIndex(new, i)}
    BY <2>6, SizeOf DEF Signed, TrueBitsBefore
  <2>9. Signed(bA) = {i \in 0..(n - 1) : GetIndex(bA, i)}
    BY SizeOf DEF Signed, TrueBitsBefore
  <2> HIDE DEF new
  <2>10. Signed(new) = Signed(bA) \cup {x}
    BY <1>2, <2>7, <2>8, <2>9
  <2> QED
    BY <1>2, <2>6, <2>10 DEF new
<1> QED
  BY <1>1, <1>2

\* The text has all the bits of the array that was written.
LEMMA JSONKeeps ==
    ASSUME NEW n \in Nat, NEW bA \in ArrayOf(n)
    PROVE  /\ UnmarshalJSON(MarshalJSON(bA)) \in ArrayOf(n)
           /\ Signed(UnmarshalJSON(MarshalJSON(bA))) = Signed(bA)
<1> DEFINE text == MarshalJSON(bA)
           new == UnmarshalJSON(text)
<1>1. Size(bA) = n
  BY SizeOf
<1>2. text = [c \in 1..n |-> GetIndex(bA, c - 1)] /\ Len(text) = n
  BY <1>1 DEF MarshalJSON
<1> HIDE DEF text
<1> DEFINE bits(b) == {BitAt(i) : i \in {j \in 0..(n - 1) : ByteAt(j) = b /\ text[j + 1]}}
<1>3. new = [ExtraBitsStored |-> n % 8, Elems |-> [b \in Bytes(n) |-> bits(b)]]
  <2> DEFINE empty == NewCompactBitArray(n)
  <2>1. empty = [ExtraBitsStored |-> n % 8, Elems |-> [b \in Bytes(n) |-> {}]]
    BY DEF NewCompactBitArray, Bytes
  <2>2. new = [empty EXCEPT !.Elems = [b \in DOMAIN empty.Elems |-> bits(b)]]
    BY <1>2 DEF UnmarshalJSON
  <2> HIDE DEF new, bits, empty
  <2>3. DOMAIN empty.Elems = Bytes(n)
    BY <2>1
  <2>4. new = [empty EXCEPT !.Elems = [b \in Bytes(n) |-> bits(b)]]
    BY <2>2, <2>3
  <2> QED
    BY <2>1, <2>4
<1>4. \A b \in Bytes(n) : bits(b) \in SUBSET Bits
  BY ByteBounds
<1>5. new \in ArrayOf(n)
  BY <1>3, <1>4 DEF ArrayOf
<1>6. \A i \in 0..(n - 1) : GetIndex(new, i) <=> GetIndex(bA, i)
  <2> SUFFICES ASSUME NEW i \in 0..(n - 1)
               PROVE  GetIndex(new, i) <=> GetIndex(bA, i)
    OBVIOUS
  <2>1. Size(new) = n /\ ByteAt(i) \in Bytes(n)
    BY <1>5, SizeOf, ByteBounds
  <2>2. new.Elems[ByteAt(i)] = bits(ByteAt(i))
    BY <1>3, <2>1
  <2>3. GetIndex(new, i) <=> BitAt(i) \in bits(ByteAt(i))
    BY <2>1, <2>2 DEF GetIndex
  <2>4. BitAt(i) \in bits(ByteAt(i)) <=> text[i + 1]
    BY BitPlace
  <2>5. text[i + 1] <=> GetIndex(bA, i)
    BY <1>2
  <2> QED
    BY <2>3, <2>4, <2>5
<1>7. Signed(new) = {i \in 0..(n - 1) : GetIndex(new, i)}
  BY <1>5, SizeOf DEF Signed, TrueBitsBefore
<1>8. Signed(bA) = {i \in 0..(n - 1) : GetIndex(bA, i)}
  BY SizeOf DEF Signed, TrueBitsBefore
<1> HIDE DEF new
<1>9. Signed(new) = Signed(bA)
  BY <1>6, <1>7, <1>8
<1> QED
  BY <1>5, <1>9 DEF new, text

\* The compact form gives the array itself back.
LEMMA CompactKeeps ==
    ASSUME NEW n \in Nat, NEW bA \in ArrayOf(n)
    PROVE  CompactUnmarshal(CompactMarshal(bA)) = bA
<1>1. bA.Elems \in [Bytes(n) -> SUBSET Bits] /\ bA.ExtraBitsStored = n % 8
  BY DEF ArrayOf
<1>2. Len(bA.Elems) = (n + 7) \div 8 /\ Size(bA) = n
  BY <1>1, ByteBounds, SizeOf DEF Bytes
<1>3. bA = [ExtraBitsStored |-> bA.ExtraBitsStored, Elems |-> bA.Elems]
  BY DEF ArrayOf
<1> QED
  BY <1>1, <1>2, <1>3 DEF CompactUnmarshal, CompactMarshal
-----------------------------------------------------------------------------
(* Adding a signature.                                                      *)

\* t is s with e at p: those before the place stay, those from it on move by one.
Inserted(S, s, p, e, t) ==
    /\ t \in Seq(S) /\ Len(t) = Len(s) + 1
    /\ \A i \in 1..(Len(s) + 1) : t[i] = IF i < p THEN s[i] ELSE IF i = p THEN e ELSE s[i - 1]

LEMMA InsertProperties ==
    ASSUME NEW S, NEW s \in Seq(S), NEW e \in S, NEW p \in 1..(Len(s) + 1)
    PROVE  Inserted(S, s, p, e, Seqs!InsertAt(s, p, e))
<1> DEFINE front == SubSeq(s, 1, p - 1)
           back == SubSeq(s, p, Len(s))
<1>1. Len(s) \in Nat /\ \A i \in 1..Len(s) : s[i] \in S
  BY LenProperties, ElementOfSeq
<1>2. /\ front \in Seq(S) /\ Len(front) = p - 1
      /\ \A i \in 1..(p - 1) : front[i] = s[i]
  <2>1. \A i \in 1..(p - 1) : s[i] \in S
    BY <1>1
  <2>2. /\ front \in Seq(S) /\ Len(front) = (IF 1 <= p - 1 THEN p - 1 - 1 + 1 ELSE 0)
        /\ \A i \in 1..(p - 1 - 1 + 1) : front[i] = s[1 + i - 1]
    BY <1>1, <2>1, SubSeqProperties
  <2> HIDE DEF front
  <2> QED
    BY <1>1, <2>2
<1>3. /\ back \in Seq(S) /\ Len(back) = Len(s) - p + 1
      /\ \A i \in 1..(Len(s) - p + 1) : back[i] = s[p + i - 1]
  <2>1. \A i \in p..Len(s) : s[i] \in S
    BY <1>1
  <2>2. /\ back \in Seq(S) /\ Len(back) = (IF p <= Len(s) THEN Len(s) - p + 1 ELSE 0)
        /\ \A i \in 1..(Len(s) - p + 1) : back[i] = s[p + i - 1]
    BY <1>1, <2>1, SubSeqProperties
  <2> HIDE DEF back
  <2> QED
    BY <1>1, <2>2
<1> HIDE DEF front, back
<1>4. <<e>> \in Seq(S) /\ Len(<<e>>) = 1 /\ <<e>>[1] = e
  OBVIOUS
<1> DEFINE left == front \o <<e>>
<1>5. /\ left \in Seq(S) /\ Len(left) = p
      /\ \A i \in 1..p : left[i] = IF i <= p - 1 THEN front[i] ELSE <<e>>[i - (p - 1)]
  BY <1>2, <1>4, ConcatProperties
<1>6. \A i \in 1..p : left[i] = IF i < p THEN s[i] ELSE e
  BY <1>2, <1>4, <1>5
<1> HIDE DEF left
<1>7. /\ left \o back \in Seq(S) /\ Len(left \o back) = Len(s) + 1
      /\ \A i \in 1..(Len(s) + 1) : (left \o back)[i] = IF i <= p THEN left[i] ELSE back[i - p]
  <2>1. /\ left \o back \in Seq(S) /\ Len(left \o back) = Len(left) + Len(back)
        /\ \A i \in 1..(Len(left) + Len(back)) :
             (left \o back)[i] = IF i <= Len(left) THEN left[i] ELSE back[i - Len(left)]
    BY <1>3, <1>5, ConcatProperties
  <2>2. Len(left) = p /\ Len(left) + Len(back) = Len(s) + 1
    BY <1>1, <1>3, <1>5
  <2> QED
    BY <2>1, <2>2
<1>8. \A i \in 1..(Len(s) + 1) : i > p => back[i - p] = s[i - 1]
  BY <1>1, <1>3
<1>9. Seqs!InsertAt(s, p, e) = left \o back
  BY DEF Seqs!InsertAt, left, front, back
<1> QED
  BY <1>1, <1>6, <1>7, <1>8, <1>9 DEF Inserted

\* The signature in s that belongs to the element i of T.
Nth(T, s, i) == s[Rank(T, i) + 1]

\* A signature that is inserted is found at its own bit, the others at theirs.
NewBit(S, T, s, x, e, t) ==
    /\ t \in Seq(S) /\ Len(t) = Len(s) + 1
    /\ \A j \in T \cup {x} : Nth(T \cup {x}, t, j) = IF j = x THEN e ELSE Nth(T, s, j)

\* One that is inserted behind those of all bits moves none of them.
NoBit(S, T, s, t) ==
    t \in Seq(S) /\ Len(t) = Len(s) + 1 /\ \A j \in T : Nth(T, t, j) = Nth(T, s, j)

\* One for a bit that is set replaces the one that is there.
SameBits(S, T, s, x, e, t) ==
    /\ t \in Seq(S) /\ Len(t) = Len(s)
    /\ \A j \in T : Nth(T, t, j) = IF j = x THEN e ELSE Nth(T, s, j)

LEMMA InsertShifts ==
    ASSUME NEW n \in Nat, NEW T \in SUBSET (0..(n - 1)), NEW x \in 0..(n - 1), x \notin T,
           NEW S, NEW s \in Seq(S), Cardinality(T) <= Len(s), NEW e \in S,
           NEW p, p = Rank(T, x) + 1
    PROVE  NewBit(S, T, s, x, e, Seqs!InsertAt(s, p, e))
<1>1. /\ Len(s) \in Nat /\ x \in Int /\ Cardinality(T) \in Nat
      /\ Rank(T, x) \in Nat /\ Rank(T, x) <= Cardinality(T)
  <2>1. x \in Int
    OBVIOUS
  <2>2. Rank(T, x) \in Nat /\ Rank(T, x) <= Cardinality(T)
    BY <2>1, BeforeFinite
  <2>3. Cardinality(T) \in Nat
    BY SetFinite
  <2> QED
    BY <2>1, <2>2, <2>3, LenProperties
<1>2. p \in 1..(Len(s) + 1)
  BY <1>1
<1> DEFINE t == Seqs!InsertAt(s, p, e)
<1>0. Inserted(S, s, p, e, t)
  BY <1>2, InsertProperties
<1> HIDE DEF t
<1>3. /\ t \in Seq(S) /\ Len(t) = Len(s) + 1
      /\ \A i \in 1..(Len(s) + 1) :
           t[i] = IF i < p THEN s[i] ELSE IF i = p THEN e ELSE s[i - 1]
  BY <1>0 DEF Inserted
<1>4. Rank(T \cup {x}, x) = Rank(T, x)
  BY <1>1, RankInsert
<1>5. t[Rank(T \cup {x}, x) + 1] = e
  BY <1>1, <1>2, <1>3, <1>4
<1>6. ASSUME NEW j \in T
      PROVE  t[Rank(T \cup {x}, j) + 1] = s[Rank(T, j) + 1]
  <2>1. j \in Int /\ Rank(T, j) \in Nat /\ Rank(T, j) + 1 <= Cardinality(T) /\ j # x
    BY RankInside
  <2>2. Rank(T \cup {x}, j) = IF x < j THEN Rank(T, j) + 1 ELSE Rank(T, j)
    BY <2>1, RankInsert
  <2>3. CASE x < j
    <3>1. x \in Int /\ j \in Int /\ x <= j
      BY <2>1, <2>3
    <3>2. Rank(T, x) <= Rank(T, j)
      BY <3>1, RankMono, Zenon
    <3> QED
      BY <1>1, <1>2, <1>3, <2>1, <2>2, <2>3, <3>2
  <2>4. CASE j < x
    <3>1. Rank(T, j) + 1 <= Rank(T, x)
      BY <1>1, <2>1, <2>4, RankStep
    <3> QED
      BY <1>1, <1>2, <1>3, <2>1, <2>2, <2>4, <3>1
  <2> QED
    BY <1>1, <2>1, <2>3, <2>4
<1> QED
  BY <1>3, <1>5, <1>6 DEF t, Nth, NewBit

LEMMA InsertBehind ==
    ASSUME NEW n \in Nat, NEW T \in SUBSET (0..(n - 1)), NEW S, NEW s \in Seq(S),
           Cardinality(T) <= Len(s), NEW e \in S, NEW p, p = Cardinality(T) + 1
    PROVE  NoBit(S, T, s, Seqs!InsertAt(s, p, e))
<1>1. Len(s) \in Nat /\ Cardinality(T) \in Nat
  BY LenProperties, BeforeFinite, SetFinite
<1>2. p \in 1..(Len(s) + 1)
  BY <1>1
<1> DEFINE t == Seqs!InsertAt(s, p, e)
<1>0. Inserted(S, s, p, e, t)
  BY <1>2, InsertProperties
<1> HIDE DEF t
<1>3. /\ t \in Seq(S) /\ Len(t) = Len(s) + 1
      /\ \A i \in 1..(Len(s) + 1) :
           t[i] = IF i < p THEN s[i] ELSE IF i = p THEN e ELSE s[i - 1]
  BY <1>0 DEF Inserted
<1>4. ASSUME NEW j \in T
      PROVE  t[Rank(T, j) + 1] = s[Rank(T, j) + 1]
  <2>1. Rank(T, j) \in Nat /\ Rank(T, j) + 1 <= Cardinality(T)
    BY RankInside
  <2> QED
    BY <1>1, <1>2, <1>3, <2>1
<1> QED
  BY <1>3, <1>4 DEF t, Nth, NoBit

LEMMA ReplaceKeeps ==
    ASSUME NEW n \in Nat, NEW T \in SUBSET (0..(n - 1)), NEW x \in T,
           NEW S, NEW s \in Seq(S), Cardinality(T) <= Len(s), NEW e \in S,
           NEW p, p = Rank(T, x) + 1
    PROVE  SameBits(S, T, s, x, e, [s EXCEPT ![p] = e])
<1>1. Len(s) \in Nat /\ Cardinality(T) \in Nat
  BY LenProperties, BeforeFinite, SetFinite
<1>2. \A j \in T : j \in Int /\ Rank(T, j) \in Nat /\ Rank(T, j) + 1 <= Cardinality(T)
  BY RankInside
<1>3. p \in 1..Len(s)
  BY <1>1, <1>2
<1> DEFINE t == [s EXCEPT ![p] = e]
<1>4. /\ t \in Seq(S) /\ Len(t) = Len(s)
      /\ \A i \in 1..Len(s) : t[i] = IF i = p THEN e ELSE s[i]
  BY <1>3, ExceptSeq
<1> HIDE DEF t
<1>5. ASSUME NEW j \in T, j # x PROVE Rank(T, j) # Rank(T, x)
  <2>1. j \in Int /\ x \in Int /\ Rank(T, j) \in Nat /\ Rank(T, x) \in Nat
    BY <1>2
  <2>2. CASE j < x
    <3>1. Rank(T, j) + 1 <= Rank(T, x)
      BY <2>1, <2>2, RankStep
    <3> QED
      BY <2>1, <3>1
  <2>3. CASE x < j
    <3>1. Rank(T, x) + 1 <= Rank(T, j)
      BY <2>1, <2>3, RankStep
    <3> QED
      BY <2>1, <3>1
  <2> QED
    BY <1>5, <2>1, <2>2, <2>3
<1>6. ASSUME NEW j \in T PROVE Nth(T, t, j) = IF j = x THEN e ELSE Nth(T, s, j)
  <2>1. Rank(T, j) + 1 \in 1..Len(s) /\ Rank(T, j) \in Nat /\ Rank(T, x) \in Nat
    BY <1>1, <1>2
  <2>2. Rank(T, j) + 1 = p <=> j = x
    BY <1>5, <2>1
  <2> QED
    BY <1>4, <2>1, <2>2 DEF Nth
<1> QED
  BY <1>4, <1>6 DEF SameBits, t

\* What a multisignature made for n keys holds: a signature for each bit, and
\* more only when it was made for fewer keys than the threshold key has.
Held(m, n) ==
    /\ m \in [BitArray : ArrayOf(n), Sigs : Seq(Signatures)]
    /\ Cardinality(Signed(m.BitArray)) <= Len(m.Sigs)
    /\ n >= Len(Keys) => Cardinality(Signed(m.BitArray)) = Len(m.Sigs)

GivenIn(m) == [i \in Signed(m.BitArray) |-> Nth(Signed(m.BitArray), m.Sigs, i)]

\* With the signature of x.
GivenWith(m, T, x, sig) == [j \in T |-> IF j = x THEN sig ELSE GivenIn(m)[j]]

LEMMA GivenIsGivenIn ==
    ASSUME NEW n \in Nat, Held(mSig, n)
    PROVE  Given = GivenIn(mSig)
<1>1. \A i \in Signed(mSig.BitArray) : i \in Nat
  BY SignedIsBits DEF Held
<1>2. \A i \in Signed(mSig.BitArray) :
        NumTrueBitsBefore(mSig.BitArray, i) = Rank(Signed(mSig.BitArray), i)
  BY <1>1, CountIsRank DEF Held
<1> QED
  BY <1>2 DEF Given, GivenIn, Signed, Nth

\* The signature of a cosigner that has signed is replaced, no other is.
LEMMA AddedAgain ==
    ASSUME NEW n \in Nat, NEW m, Held(m, n), NEW sig \in Signatures,
           NEW x \in 0..(Len(Keys) - 1), x \in Signed(m.BitArray)
    PROVE  /\ Held(Added(m, sig, x), n)
           /\ GivenIn(Added(m, sig, x)) = GivenWith(m, Signed(m.BitArray), x, sig)
<1> DEFINE new == Added(m, sig, x)
<1>1. PICK T : T = Signed(m.BitArray)
  OBVIOUS
<1>2. PICK p : p = Rank(T, x) + 1
  OBVIOUS
<1>3. T \in SUBSET (0..(n - 1)) /\ x \in T /\ x \in Nat /\ GetIndex(m.BitArray, x)
  BY <1>1, SignedIsBits DEF Held
<1>4. NumTrueBitsBefore(m.BitArray, x) + 1 = p
  BY <1>1, <1>2, <1>3, CountIsRank DEF Held
<1>5. new = [m EXCEPT !.Sigs[p] = sig]
  BY <1>3, <1>4 DEF Added
<1>6. /\ new.BitArray = m.BitArray /\ new.Sigs = [m.Sigs EXCEPT ![p] = sig]
      /\ new \in [BitArray : {new.BitArray}, Sigs : {new.Sigs}]
  BY <1>5 DEF Held
<1>7. /\ m.Sigs \in Seq(Signatures) /\ m.BitArray \in ArrayOf(n)
      /\ Cardinality(T) <= Len(m.Sigs)
      /\ n >= Len(Keys) => Cardinality(T) = Len(m.Sigs)
  BY <1>1 DEF Held
<1> HIDE DEF new
<1>8. SameBits(Signatures, T, m.Sigs, x, sig, [m.Sigs EXCEPT ![p] = sig])
  BY <1>2, <1>3, <1>7, ReplaceKeeps
<1>9. /\ new.Sigs \in Seq(Signatures) /\ Len(new.Sigs) = Len(m.Sigs)
      /\ \A j \in T : Nth(T, new.Sigs, j) = IF j = x THEN sig ELSE Nth(T, m.Sigs, j)
  BY <1>6, <1>8 DEF SameBits
<1>10. Held(new, n)
  BY <1>1, <1>6, <1>7, <1>9 DEF Held
<1>11. GivenIn(m) = [j \in T |-> Nth(T, m.Sigs, j)]
  BY <1>1 DEF GivenIn
<1>12. GivenIn(new) = [j \in T |-> Nth(T, new.Sigs, j)]
  BY <1>1, <1>6 DEF GivenIn
<1>13. GivenIn(new) = [j \in T |-> IF j = x THEN sig ELSE GivenIn(m)[j]]
  BY <1>9, <1>11, <1>12
<1> QED
  BY <1>1, <1>10, <1>13 DEF new, GivenWith

\* One more cosigner has signed, and the others keep theirs although those
\* behind it have moved.
LEMMA AddedNew ==
    ASSUME NEW n \in Nat, NEW m, Held(m, n), NEW sig \in Signatures,
           NEW x \in 0..(Len(Keys) - 1), x \notin Signed(m.BitArray), x < n
    PROVE  /\ Held(Added(m, sig, x), n)
           /\ GivenIn(Added(m, sig, x)) = GivenWith(m, Signed(m.BitArray) \cup {x}, x, sig)
<1> DEFINE new == Added(m, sig, x)
<1>1. PICK T : T = Signed(m.BitArray)
  OBVIOUS
<1>2. PICK p : p = Rank(T, x) + 1
  OBVIOUS
<1>3. /\ T \in SUBSET (0..(n - 1)) /\ x \in 0..(n - 1) /\ x \notin T /\ x \in Nat
      /\ ~GetIndex(m.BitArray, x)
  BY <1>1, SignedIsBits DEF Held
<1>4. NumTrueBitsBefore(m.BitArray, x) + 1 = p
  BY <1>1, <1>2, <1>3, CountIsRank DEF Held
<1>5. new = [BitArray |-> SetIndex(m.BitArray, x), Sigs |-> Seqs!InsertAt(m.Sigs, p, sig)]
  BY <1>3, <1>4 DEF Added
<1>6. new.BitArray \in ArrayOf(n) /\ Signed(new.BitArray) = T \cup {x}
  BY <1>1, <1>3, <1>5, SetSigned DEF Held
<1>7. /\ m.Sigs \in Seq(Signatures) /\ Cardinality(T) <= Len(m.Sigs)
      /\ n >= Len(Keys) => Cardinality(T) = Len(m.Sigs)
  BY <1>1 DEF Held
<1>8. new.Sigs = Seqs!InsertAt(m.Sigs, p, sig)
  BY <1>5
<1>9. new \in [BitArray : {new.BitArray}, Sigs : {new.Sigs}]
  BY <1>5
<1> HIDE DEF new
<1>10. /\ new.Sigs \in Seq(Signatures) /\ Len(new.Sigs) = Len(m.Sigs) + 1
       /\ \A j \in T \cup {x} : Nth(T \cup {x}, new.Sigs, j) = IF j = x THEN sig ELSE Nth(T, m.Sigs, j)
  <2>1. NewBit(Signatures, T, m.Sigs, x, sig, Seqs!InsertAt(m.Sigs, p, sig))
    BY <1>2, <1>3, <1>7, InsertShifts
  <2> QED
    BY <1>8, <2>1 DEF NewBit
<1>11. Cardinality(T \cup {x}) = Cardinality(T) + 1 /\ Cardinality(T) \in Nat
  <2>1. IsFiniteSet(T) /\ Cardinality(T) \in Nat /\ x \notin T
    BY <1>3, SetFinite
  <2> QED
    BY <2>1, FS_AddElement
<1>12. Len(m.Sigs) \in Nat
  BY <1>7, LenProperties
<1>13. Held(new, n)
  BY <1>6, <1>7, <1>9, <1>10, <1>11, <1>12 DEF Held
<1>14. \A j \in T : GivenIn(m)[j] = Nth(T, m.Sigs, j)
  BY <1>1 DEF GivenIn
<1>15. GivenIn(new) = [j \in T \cup {x} |-> Nth(T \cup {x}, new.Sigs, j)]
  BY <1>6 DEF GivenIn
<1>16. GivenIn(new) = [j \in T \cup {x} |-> IF j = x THEN sig ELSE GivenIn(m)[j]]
  BY <1>10, <1>14, <1>15
<1> QED
  BY <1>1, <1>13, <1>16 DEF new, GivenWith

\* A signature for an index beyond the size is held and is nobody's.
LEMMA AddedBeyond ==
    ASSUME NEW n \in Nat, NEW m, Held(m, n), NEW sig \in Signatures,
           NEW x \in 0..(Len(Keys) - 1), x >= n
    PROVE  /\ Held(Added(m, sig, x), n)
           /\ GivenIn(Added(m, sig, x)) = GivenIn(m)
<1> DEFINE new == Added(m, sig, x)
<1>1. PICK T : T = Signed(m.BitArray)
  OBVIOUS
<1>2. PICK p : p = Cardinality(T) + 1
  OBVIOUS
<1>3. T \in SUBSET (0..(n - 1)) /\ x \in Nat /\ ~GetIndex(m.BitArray, x)
  BY <1>1, SizeOf, SignedIsBits DEF Held, GetIndex
<1>4. NumTrueBitsBefore(m.BitArray, x) + 1 = p
  BY <1>1, <1>2, <1>3, CountIsRank, RankEnd DEF Held
<1>5. new = [BitArray |-> SetIndex(m.BitArray, x), Sigs |-> Seqs!InsertAt(m.Sigs, p, sig)]
  BY <1>3, <1>4 DEF Added
<1>6. new.BitArray \in ArrayOf(n) /\ Signed(new.BitArray) = T
  BY <1>1, <1>3, <1>5, SetSigned DEF Held
<1>7. m.Sigs \in Seq(Signatures) /\ Cardinality(T) <= Len(m.Sigs)
  BY <1>1 DEF Held
<1>8. new.Sigs = Seqs!InsertAt(m.Sigs, p, sig)
  BY <1>5
<1>9. new \in [BitArray : {new.BitArray}, Sigs : {new.Sigs}]
  BY <1>5
<1> HIDE DEF new
<1>10. /\ new.Sigs \in Seq(Signatures) /\ Len(new.Sigs) = Len(m.Sigs) + 1
       /\ \A j \in T : Nth(T, new.Sigs, j) = Nth(T, m.Sigs, j)
  <2>1. NoBit(Signatures, T, m.Sigs, Seqs!InsertAt(m.Sigs, p, sig))
    BY <1>2, <1>3, <1>7, InsertBehind
  <2> QED
    BY <1>8, <2>1 DEF NoBit
<1>11. Cardinality(T) \in Nat
  BY <1>3, SetFinite
<1>12. Len(m.Sigs) \in Nat /\ Len(Keys) \in Nat
  BY <1>7, MultisigAssumption, LenProperties
<1>13. n < Len(Keys)
  BY <1>12
<1>14. Held(new, n)
  BY <1>6, <1>7, <1>9, <1>10, <1>11, <1>12, <1>13 DEF Held
<1>15. GivenIn(new) = [j \in T |-> Nth(T, new.Sigs, j)]
  BY <1>6 DEF GivenIn
<1>16. GivenIn(m) = [j \in T |-> Nth(T, m.Sigs, j)]
  BY <1>1 DEF GivenIn
<1>17. GivenIn(new) = GivenIn(m)
  BY <1>10, <1>15, <1>16
<1> QED
  BY <1>14, <1>17 DEF new
-----------------------------------------------------------------------------
(* The whole multisignature.                                                *)

\* A nonempty set of naturals has a least element.
LEMMA Least ==
    ASSUME NEW S \in SUBSET Nat, S # {}
    PROVE  \E i \in S : \A j \in S : i <= j
<1>1. PICK i \in S : \A j \in S : <<j, i>> \notin OpToRel(<, Nat)
  BY NatLessThanWellFounded, WFMin
<1>2. \A j \in S : j \in Nat /\ i \in Nat /\ ~(j < i)
  BY <1>1 DEF OpToRel
<1> QED
  BY <1>2

\* A cosigner's key is found at one of its places.
LEMMA getIndexRange ==
    ASSUME NEW pk
    PROVE  getIndex(pk) # -1 => getIndex(pk) \in 0..(Len(Keys) - 1) /\ Keys[getIndex(pk) + 1] = pk
<1> DEFINE found == {i \in 0..(Len(Keys) - 1) : Keys[i + 1] = pk}
<1>1. Len(Keys) \in Nat
  BY MultisigAssumption, LenProperties
<1>2. CASE found = {}
  BY <1>2 DEF getIndex
<1>3. CASE found # {}
  <2>1. found \in SUBSET Nat
    BY <1>1
  <2>2. \E i \in found : \A j \in found : i <= j
    <3> HIDE DEF found
    <3> QED
      BY <1>3, <2>1, Least
  <2>3. getIndex(pk) = CHOOSE i \in found : \A j \in found : i <= j
    BY <1>3 DEF getIndex
  <2>4. getIndex(pk) \in found
    <3> HIDE DEF found
    <3> QED
      BY <2>2, <2>3
  <2> QED
    BY <2>4
<1> QED
  BY <1>2, <1>3

\* A multisignature is made for some number of keys and stays made for as many.
InStep == \E n \in Nat \ {0} : Held(mSig, n)

LEMMA InitInStep == MultiInit => InStep /\ Promise!Init
<1> SUFFICES ASSUME MultiInit PROVE InStep /\ Promise!Init
  OBVIOUS
<1>1. PICK n \in Sizes : mSig = NewMultisig(n)
  BY DEF MultiInit
<1>2. n \in Nat \ {0}
  BY MultisigAssumption
<1>3. /\ NewCompactBitArray(n) \in ArrayOf(n) /\ Signed(NewCompactBitArray(n)) = {}
      /\ mSig = [BitArray |-> NewCompactBitArray(n), Sigs |-> <<>>]
  BY <1>1, <1>2, NewArray DEF NewMultisig
<1>4. Signed(mSig.BitArray) = {} /\ mSig.Sigs = <<>>
  BY <1>3
<1>5. Cardinality(Signed(mSig.BitArray)) = 0 /\ Len(mSig.Sigs) = 0 /\ mSig.Sigs \in Seq(Signatures)
  BY <1>4, FS_EmptySet
<1>6. Held(mSig, n)
  BY <1>3, <1>5 DEF Held
<1>7. Given = GivenIn(mSig)
  BY <1>2, <1>6, GivenIsGivenIn
<1>8. Given = [i \in {} |-> i]
  BY <1>4, <1>7 DEF GivenIn
<1> QED
  BY <1>2, <1>6, <1>8 DEF InStep, Promise!Init

\* One signature that is added keeps the multisignature in step, and is given
\* to the cosigner at its index or to nobody.
LEMMA AddedInStep ==
    ASSUME NEW n \in Nat, Held(mSig, n), NEW sig \in Signatures,
           NEW x \in 0..(Len(Keys) - 1), mSig' = Added(mSig, sig, x)
    PROVE  Held(mSig, n)' /\ [Promise!Next]_Given
<1>1. Given = GivenIn(mSig)
  BY GivenIsGivenIn
<1>2. DOMAIN Given = Signed(mSig.BitArray)
  BY <1>1 DEF GivenIn
<1>3. ASSUME Held(mSig, n)' PROVE Given' = GivenIn(mSig')
  <2>1. \A i \in Signed(mSig'.BitArray) : i \in Nat
    BY <1>3, SignedIsBits DEF Held
  <2>2. \A i \in Signed(mSig'.BitArray) :
          NumTrueBitsBefore(mSig'.BitArray, i) = Rank(Signed(mSig'.BitArray), i)
    BY <1>3, <2>1, CountIsRank DEF Held
  <2> QED
    BY <2>2 DEF Given, GivenIn, Signed, Nth
<1>4. ASSUME NEW T, x \in T, T = Signed(mSig.BitArray) \cup {x}, Given' =
               [j \in T |-> IF j = x THEN sig ELSE Given[j]]
      PROVE  Promise!Next
  <2>1. x \in DOMAIN Given' /\ DOMAIN Given' = T
    BY <1>4
  <2>2. Given' = [j \in DOMAIN Given \cup {x} |-> IF j = x THEN sig ELSE Given[j]]
    BY <1>2, <1>4
  <2>3. x < Len(Keys)
    BY MultisigAssumption, LenProperties
  <2> QED
    BY <2>1, <2>2, <2>3 DEF Promise!Next, Promise!Give, Promise!Cosigners
<1>5. CASE x \in Signed(mSig.BitArray)
  <2>1. /\ Held(Added(mSig, sig, x), n)
        /\ GivenIn(Added(mSig, sig, x)) = GivenWith(mSig, Signed(mSig.BitArray), x, sig)
    BY <1>5, AddedAgain
  <2>2. Held(mSig, n)' /\ Held(mSig', n)
    BY <2>1 DEF Held
  <2>3. Given' = [j \in Signed(mSig.BitArray) |-> IF j = x THEN sig ELSE Given[j]]
    BY <1>1, <1>3, <2>1, <2>2 DEF GivenWith
  <2>4. Signed(mSig.BitArray) = Signed(mSig.BitArray) \cup {x}
    BY <1>5
  <2> QED
    BY <1>4, <1>5, <2>2, <2>3, <2>4
<1>6. CASE x \notin Signed(mSig.BitArray) /\ x < n
  <2>1. /\ Held(Added(mSig, sig, x), n)
        /\ GivenIn(Added(mSig, sig, x)) = GivenWith(mSig, Signed(mSig.BitArray) \cup {x}, x, sig)
    BY <1>6, AddedNew
  <2>2. Held(mSig, n)'
    BY <2>1 DEF Held
  <2>3. Given' = [j \in Signed(mSig.BitArray) \cup {x} |-> IF j = x THEN sig ELSE Given[j]]
    BY <1>1, <1>3, <2>1, <2>2 DEF GivenWith
  <2> QED
    BY <1>4, <2>2, <2>3
<1>7. CASE x >= n
  <2>1. Held(Added(mSig, sig, x), n) /\ GivenIn(Added(mSig, sig, x)) = GivenIn(mSig)
    BY <1>7, AddedBeyond
  <2>2. Held(mSig, n)'
    BY <2>1 DEF Held
  <2> QED
    BY <1>1, <1>3, <2>1, <2>2
<1> QED
  BY <1>5, <1>6, <1>7

\* The array that is read back shows the same bits.
LEMMA SentInStep ==
    ASSUME NEW n \in Nat, Held(mSig, n), NEW bA \in ArrayOf(n),
           Signed(bA) = Signed(mSig.BitArray), mSig' = [mSig EXCEPT !.BitArray = bA]
    PROVE  Held(mSig, n)' /\ UNCHANGED Given
<1>1. /\ mSig'.BitArray = bA /\ mSig'.Sigs = mSig.Sigs
      /\ mSig' \in [BitArray : ArrayOf(n), Sigs : Seq(Signatures)]
  BY DEF Held
<1>2. Held(mSig, n)'
  BY <1>1 DEF Held
<1>3. Given = GivenIn(mSig)
  BY GivenIsGivenIn
<1>4. Given' = GivenIn(mSig')
  <2>1. \A i \in Signed(bA) : i \in Nat
    BY SignedIsBits
  <2>2. \A i \in Signed(bA) : NumTrueBitsBefore(bA, i) = Rank(Signed(bA), i)
    BY <2>1, CountIsRank
  <2> QED
    BY <1>1, <2>2 DEF Given, GivenIn, Signed, Nth
<1>5. GivenIn(mSig') = GivenIn(mSig)
  BY <1>1 DEF GivenIn
<1> QED
  BY <1>2, <1>3, <1>4, <1>5

LEMMA NextInStep == InStep /\ [MultiNext]_mSig => InStep' /\ [Promise!Next]_Given
<1> SUFFICES ASSUME InStep, [MultiNext]_mSig PROVE InStep' /\ [Promise!Next]_Given
  OBVIOUS
<1>1. PICK n \in Nat \ {0} : Held(mSig, n)
  BY DEF InStep
<1>2. SUFFICES Held(mSig, n)' /\ [Promise!Next]_Given
  BY DEF InStep
<1>3. mSig.BitArray \in ArrayOf(n) /\ mSig = [mSig EXCEPT !.BitArray = mSig.BitArray]
  BY <1>1 DEF Held
<1>4. CASE UNCHANGED mSig
  BY <1>1, <1>3, <1>4, SentInStep
<1>5. ASSUME NEW sig \in Signatures, NEW index \in Indices, AddSignature(sig, index)
      PROVE  Held(mSig, n)' /\ [Promise!Next]_Given
  BY <1>1, <1>5, MultisigAssumption, AddedInStep DEF AddSignature
<1>6. ASSUME NEW sig \in Signatures, NEW pubkey \in Signers, AddSignatureFromPubKey(sig, pubkey)
      PROVE  Held(mSig, n)' /\ [Promise!Next]_Given
  <2>1. CASE getIndex(pubkey) = -1
    BY <1>4, <1>6, <2>1 DEF AddSignatureFromPubKey
  <2>2. CASE getIndex(pubkey) # -1
    <3>1. getIndex(pubkey) \in 0..(Len(Keys) - 1)
      BY <2>2, getIndexRange
    <3> QED
      BY <1>1, <1>6, <2>2, <3>1, AddedInStep DEF AddSignatureFromPubKey
  <2> QED
    BY <2>1, <2>2
<1>7. CASE SendJSON
  <2> DEFINE bA == UnmarshalJSON(MarshalJSON(mSig.BitArray))
  <2>1. bA \in ArrayOf(n) /\ Signed(bA) = Signed(mSig.BitArray)
    BY <1>3, JSONKeeps
  <2>2. mSig' = [mSig EXCEPT !.BitArray = bA]
    BY <1>7 DEF SendJSON
  <2> HIDE DEF bA
  <2> QED
    BY <1>1, <2>1, <2>2, SentInStep
<1>8. CASE SendCompact
  <2>1. CompactUnmarshal(CompactMarshal(mSig.BitArray)) = mSig.BitArray
    BY <1>3, CompactKeeps
  <2> QED
    BY <1>1, <1>3, <1>8, <2>1, SentInStep DEF SendCompact
<1> QED
  BY <1>4, <1>5, <1>6, <1>7, <1>8 DEF MultiNext

\* VerifyBytes sees what was given: as many signatures as bits, each at its bit.
LEMMA VerifySees == InStep => VerifyExact
<1> SUFFICES ASSUME InStep PROVE VerifyExact
  OBVIOUS
<1>1. PICK n \in Nat \ {0} : Held(mSig, n)
  BY DEF InStep
<1>2. PICK T : T = Signed(mSig.BitArray)
  OBVIOUS
<1>3. /\ Size(mSig.BitArray) = n /\ T \in SUBSET (0..(n - 1))
      /\ T = TrueBitsBefore(mSig.BitArray, n)
  BY <1>1, <1>2, SizeOf, SignedIsBits DEF Held, Signed
<1>4. /\ Cardinality(T) \in Nat /\ Cardinality(T) <= n
      /\ Len(Keys) \in Nat /\ K \in Nat
      /\ n = Len(Keys) => Len(mSig.Sigs) = Cardinality(T)
  BY <1>1, <1>2, <1>3, SetFinite, MultisigAssumption, LenProperties DEF Held
<1>5. NumTrueBitsBefore(mSig.BitArray, n) = Cardinality(T)
  BY <1>3 DEF NumTrueBitsBefore
<1>6. DOMAIN Given = T /\ \A i \in T : Given[i] = mSig.Sigs[NumTrueBitsBefore(mSig.BitArray, i) + 1]
  BY <1>3 DEF Given
<1>7. Promise!Satisfied <=> /\ Cardinality(T) >= K
                            /\ \A i \in T : <<Keys[i + 1], Given[i]>> \in Genuine
  <2>1. Promise!Cardinality(T) = Cardinality(T)
    BY DEF Promise!Cardinality, Cardinality
  <2> QED
    BY <1>6, <2>1 DEF Promise!Satisfied, Promise!Cosigners
<1>8. VerifyBytes(mSig) <=>
        /\ n = Len(Keys) /\ Len(mSig.Sigs) >= K /\ Len(mSig.Sigs) <= n
        /\ Cardinality(T) >= K
        /\ \A i \in T : <<Keys[i + 1], mSig.Sigs[NumTrueBitsBefore(mSig.BitArray, i) + 1]>> \in Genuine
  BY <1>3, <1>5 DEF VerifyBytes
<1>9. VerifyBytes(mSig) <=> n = Len(Keys) /\ Promise!Satisfied
  BY <1>4, <1>6, <1>7, <1>8
<1> QED
  BY <1>3, <1>9 DEF VerifyExact

\* The invariant in full: however the signatures came, there are as many as
\* bits or, when it was made for too few keys, more.
THEOREM AlwaysInStep == MultiSpec => []InStep
<1>1. MultiInit => InStep
  BY InitInStep
<1>2. InStep /\ [MultiNext]_mSig => InStep'
  BY NextInStep
<1> QED
  BY <1>1, <1>2, PTL DEF MultiSpec

\* VerifyBytes accepts exactly the multisignatures that were made for as many
\* keys as it has and that enough cosigners have signed with genuine signatures.
THEOREM VerifyCorrect == MultiSpec => []VerifyExact
<1>1. InStep => VerifyExact
  BY VerifySees
<1> QED
  BY <1>1, AlwaysInStep, PTL

\* Adding and replacing signatures in any order, by index or by key, and
\* sending the bit array, implement the promise: a cosigner's last signature is
\* kept and nobody else's is touched.
THEOREM ThresholdImplemented == MultiSpec => ImplementsThreshold
<1>1. MultiInit => Promise!Init
  BY InitInStep
<1>2. InStep /\ [MultiNext]_mSig => [Promise!Next]_Given
  BY NextInStep
<1>3. MultiSpec => Promise!Init /\ [][Promise!Next]_Given
  BY <1>1, <1>2, AlwaysInStep, PTL DEF MultiSpec
<1> QED
  BY <1>3 DEF ImplementsThreshold, Promise!Spec
=============================================================================
