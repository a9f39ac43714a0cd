------------------------------- MODULE Multisig -------------------------------
(***************************************************************************)
(* One multisignature of libs/crypto/multisig: cosigners add and replace    *)
(* their signatures in any order, its bit array travels in both of its      *)
(* encodings, and the threshold key verifies it.  The signatures have no    *)
(* index of their own: the n-th one belongs to the n-th bit that is set.    *)
(***************************************************************************)
EXTENDS Integers, Sequences, FiniteSets

CONSTANTS Keys, K,       \* the threshold key: its PubKeys and its K
          Signers,       \* the keys of those who sign, strangers included
          Signatures,
          Genuine,       \* pairs of a key and a signature that it verifies
          Sizes,         \* sizes multisignatures are made with
          Indices,       \* indices at which signatures are added
          MaxSigs        \* bound on the signatures held

ASSUME MultisigAssumption ==
    /\ Keys \in Seq(Signers)
    /\ K \in 1..Len(Keys)
    /\ Sizes \subseteq Nat \ {0}
    /\ Indices \subseteq 0..(Len(Keys) - 1)

Seqs == INSTANCE SequencesExt
-----------------------------------------------------------------------------
(* The bit array.  A byte is the set of its bits' numbers, and bit 0 of the *)
(* array is the highest bit of the first byte.                              *)

NewCompactBitArray(bits) ==
    [ExtraBitsStored |-> bits % 8, Elems |-> [b \in 1..((bits + 7) \div 8) |-> {}]]

Size(bA) ==
    IF bA.ExtraBitsStored = 0 THEN 8 * Len(bA.Elems)
                              ELSE 8 * (Len(bA.Elems) - 1) + bA.ExtraBitsStored

ByteAt(i) == (i \div 8) + 1
BitAt(i) == 7 - (i % 8)

GetIndex(bA, i) == i < Size(bA) /\ BitAt(i) \in bA.Elems[ByteAt(i)]

\* Sets the bit: an index beyond the size changes nothing.
SetIndex(bA, i) ==
    IF i >= Size(bA) THEN bA ELSE [bA EXCEPT !.Elems[ByteAt(i)] = @ \cup {BitAt(i)}]

TrueBitsBefore(bA, index) == {i \in 0..(index - 1) : GetIndex(bA, i)}
NumTrueBitsBefore(bA, index) == Cardinality(TrueBitsBefore(bA, index))

\* A text of one character for each bit, and the array made from such a text.
MarshalJSON(bA) == [c \in 1..Size(bA) |-> GetIndex(bA, c - 1)]

UnmarshalJSON(bits) ==
    [NewCompactBitArray(Len(bits)) EXCEPT
        !.Elems = [b \in DOMAIN @ |->
                     {BitAt(i) : i \in {j \in 0..(Len(bits) - 1) : ByteAt(j) = b /\ bits[j + 1]}}]]

\* The number of bits, then the bytes.
CompactMarshal(bA) == [size |-> Size(bA), bytes |-> bA.Elems]

Unreadable == [ExtraBitsStored |-> 0, Elems |-> <<>>]

CompactUnmarshal(bz) ==
    IF Len(bz.bytes) = (bz.size + 7) \div 8
    THEN [ExtraBitsStored |-> bz.size % 8, Elems |-> bz.bytes]
    ELSE Unreadable
-----------------------------------------------------------------------------
VARIABLE mSig   \* the Multisignature: BitArray and Sigs

NewMultisig(n) == [BitArray |-> NewCompactBitArray(n), Sigs |-> <<>>]

\* The first key of several that are equal; -1 if there is none.
getIndex(pk) ==
    LET found == {i \in 0..(Len(Keys) - 1) : Keys[i + 1] = pk}
    IN  IF found = {} THEN -1 ELSE CHOOSE i \in found : \A j \in found : i <= j

\* Mutant: a new signature goes to the end.
AddedLast(m, sig, index) ==
    LET place == NumTrueBitsBefore(m.BitArray, index) + 1
    IN  IF GetIndex(m.BitArray, index)
        THEN [m EXCEPT !.Sigs[place] = sig]
        ELSE [BitArray |-> SetIndex(m.BitArray, index), Sigs |-> Append(m.Sigs, sig)]

\* The signature is replaced at its place or inserted there.  A signature for an
\* index beyond the size is inserted too, although no bit is set for it.
Added(m, sig, index) ==
    LET place == NumTrueBitsBefore(m.BitArray, index) + 1
    IN  IF GetIndex(m.BitArray, index)
        THEN [m EXCEPT !.Sigs[place] = sig]
        ELSE [BitArray |-> SetIndex(m.BitArray, index), Sigs |-> Seqs!InsertAt(m.Sigs, place, sig)]

MultiInit == \E n \in Sizes : mSig = NewMultisig(n)

AddSignature(sig, index) ==
    /\ Len(mSig.Sigs) < MaxSigs
    /\ mSig' = Added(mSig, sig, index)

\* A key that is not among the cosigners' is an error and nothing changes.
AddSignatureFromPubKey(sig, pubkey) ==
    /\ Len(mSig.Sigs) < MaxSigs
    /\ mSig' = IF getIndex(pubkey) = -1 THEN mSig ELSE Added(mSig, sig, getIndex(pubkey))

\* The bit array is written and read back.
SendJSON == mSig' = [mSig EXCEPT !.BitArray = UnmarshalJSON(MarshalJSON(@))]
SendCompact == mSig' = [mSig EXCEPT !.BitArray = CompactUnmarshal(CompactMarshal(@))]

MultiNext ==
    \/ \E sig \in Signatures, index \in Indices : AddSignature(sig, index)
    \/ \E sig \in Signatures, pubkey \in Signers : AddSignatureFromPubKey(sig, pubkey)
    \/ SendJSON
    \/ SendCompact

MultiSpec == MultiInit /\ [][MultiNext]_mSig

\* Mutant: the last bit is not counted.
VerifyBytesShort(m) ==
    LET size == Size(m.BitArray)
    IN  /\ size = Len(Keys)
        /\ Len(m.Sigs) >= K /\ Len(m.Sigs) <= size
        /\ NumTrueBitsBefore(m.BitArray, size - 1) >= K
        /\ \A i \in TrueBitsBefore(m.BitArray, size) :
              <<Keys[i + 1], m.Sigs[NumTrueBitsBefore(m.BitArray, i) + 1]>> \in Genuine

\* The loop's sigIndex at i is the number of bits set before i.
VerifyBytes(m) ==
    LET size == Size(m.BitArray)
    IN  /\ size = Len(Keys)
        /\ Len(m.Sigs) >= K /\ Len(m.Sigs) <= size
        /\ NumTrueBitsBefore(m.BitArray, size) >= K
        /\ \A i \in TrueBitsBefore(m.BitArray, size) :
              <<Keys[i + 1], m.Sigs[NumTrueBitsBefore(m.BitArray, i) + 1]>> \in Genuine
-----------------------------------------------------------------------------
\* Who has signed, and what.
Given ==
    [i \in TrueBitsBefore(mSig.BitArray, Size(mSig.BitArray)) |->
        mSig.Sigs[NumTrueBitsBefore(mSig.BitArray, i) + 1]]

Promise == INSTANCE Threshold WITH given <- Given

\* Every step gives one cosigner its signature and leaves those of the others
\* alone, also when the signatures behind it move and when the array crosses a
\* byte; sending the array changes nobody's; a signature without a bit is nobody's.
ImplementsThreshold == Promise!Spec

\* VerifyBytes accepts exactly what was made for as many keys as it has and
\* satisfies it: the bits, the signatures and the keys stay in step.
VerifyExact == VerifyBytes(mSig) <=> Size(mSig.BitArray) = Len(Keys) /\ Promise!Satisfied
=============================================================================
