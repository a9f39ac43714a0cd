--------------------------------- MODULE Der ---------------------------------
(***************************************************************************)
(* Signatures as DER text: the strict parser and the serializer of          *)
(* ecdsa_impl.h, and the lax parser of contrib/lax_der_parsing.c.  The      *)
(* build has bytes of 8 bits, scalars of 32 bytes and lengths of up to 8    *)
(* bytes; here these are constants, so that lengths of every form fit in a  *)
(* short text.                                                             *)
(***************************************************************************)
EXTENDS Integers, Sequences

CONSTANTS ByteBits, ScalarBytes, SizeBytes,   \* 8, 32, 8
          DerOrder,      \* the order of the group
          SequenceTag, IntegerTag,   \* 0x30, 0x02
          DerNumbers,    \* scalars that are written
          DerBodies,     \* the bytes of integers others write
          EditBytes, MaxEdits        \* a text is edited MaxEdits times, with these bytes

DerScalar == INSTANCE Scalar WITH ScalarOrder <- DerOrder

\* What n bytes have room for.
Weight(n) == DerScalar!Pow2[ByteBits * n]
High == DerScalar!Pow2[ByteBits - 1]
AllOnes == Weight(1) - 1
Bytes == 0..AllOnes

\* The length of a signature is a byte, and so is the count of bytes of a length.
ASSUME DerAssumption ==
    /\ ByteBits \in Nat \ {0} /\ ScalarBytes \in Nat \ {0} /\ SizeBytes \in Nat \ {0}
    /\ 2 * ScalarBytes + 6 < High /\ SizeBytes < High
    /\ DerOrder \in Nat \ {0} /\ DerOrder <= Weight(ScalarBytes)
    /\ {SequenceTag, IntegerTag} \subseteq Bytes
    /\ DerNumbers \subseteq 0..DerOrder-1 /\ DerBodies \subseteq Seq(Bytes)
    /\ EditBytes \subseteq Bytes /\ MaxEdits \in Nat

\* No text is so long that a size_t is full: the lax parser takes a length in
\* one byte less than the strict one.
ASSUME TextsFitAssumption ==
    /\ 2 * ScalarBytes + 8 + MaxEdits < Weight(SizeBytes - 1)
    /\ \A a, b \in DerBodies :
         Len(a) + Len(b) + 3 * (SizeBytes + 2) + MaxEdits < Weight(SizeBytes - 1)

NumberOf(bytes) ==
    LET num[i \in 0..Len(bytes)] == IF i = 0 THEN 0 ELSE num[i - 1] * Weight(1) + bytes[i]
    IN  num[Len(bytes)]
BytesOf(v, n) == [i \in 1..n |-> (v \div Weight(n - i)) % Weight(1)]

\* Without the zeros in front.
Stripped(bytes) ==
    LET zeros == {i \in 0..Len(bytes) : \A j \in 1..i : bytes[j] = 0}
    IN  SubSeq(bytes, 1 + (CHOOSE i \in zeros : \A j \in zeros : j <= i), Len(bytes))
-----------------------------------------------------------------------------
(* The strict parser.  A part is read at position at; next is the position  *)
(* after it.                                                                *)

No == [ok |-> FALSE]

\* A length in the n bytes after the position at: not fewer than it needs, and no
\* longer than what is left of the text.
LengthIn(t, at, n) ==
    LET Checked(len) == IF len + n > Len(t) - at \/ len < High THEN No
                        ELSE [ok |-> TRUE, len |-> len, next |-> at + 1 + n]
    IN  IF n = 0 \/ n > Len(t) - at \/ t[at + 1] = 0 \/ n > SizeBytes THEN No
        ELSE Checked(NumberOf(SubSeq(t, at + 1, at + n)))

\* Lengths up to High - 1 take a byte, others one more byte than they need.
der_read_len(t, at) ==
    IF at > Len(t) \/ t[at] = AllOnes THEN No
    ELSE IF t[at] < High THEN [ok |-> TRUE, len |-> t[at], next |-> at + 1]
    ELSE LengthIn(t, at, t[at] - High)

\* Mutant: needless zeros in front are taken.
PaddedNegative(body) == Len(body) > 1 /\ body[1] = AllOnes /\ body[2] >= High

Padded(body) == Len(body) > 1 /\ \/ body[1] = 0 /\ body[2] < High
                                 \/ body[1] = AllOnes /\ body[2] >= High

\* An integer that is negative, too long or not below the order is read as zero.
ScalarOf(body, digits) ==
    LET Kept(v) == IF v.overflow THEN 0 ELSE v.r
    IN  IF body[1] >= High \/ Len(digits) > ScalarBytes THEN 0
        ELSE Kept(DerScalar!ScSetB32(NumberOf(digits)))

der_parse_integer(t, at) ==
    LET Number(body, next) ==
            IF Padded(body) THEN No
            ELSE [ok |-> TRUE, r |-> ScalarOf(body, Stripped(body)), next |-> next]
        Sized(l) == IF ~l.ok \/ l.len = 0 \/ l.next + l.len - 1 > Len(t) THEN No
                    ELSE Number(SubSeq(t, l.next, l.next + l.len - 1), l.next + l.len)
    IN  IF at > Len(t) \/ t[at] # IntegerTag THEN No
        ELSE Sized(der_read_len(t, at + 1))

ecdsa_sig_parse(t) ==
    LET Whole(r, s) == IF ~s.ok \/ s.next # Len(t) + 1 THEN No
                       ELSE [ok |-> TRUE, r |-> r.r, s |-> s.r]
        ThenS(r) == IF ~r.ok THEN No ELSE Whole(r, der_parse_integer(t, r.next))
        ThenR(tuple) == IF ~tuple.ok \/ tuple.next + tuple.len - 1 # Len(t) THEN No
                        ELSE ThenS(der_parse_integer(t, tuple.next))
    IN  IF t = <<>> \/ t[1] # SequenceTag THEN No ELSE ThenR(der_read_len(t, 2))

\* One zero byte is kept in front of a byte that would make the integer negative.
DerInteger(v) ==
    LET Positive(digits) ==
            IF digits = <<>> \/ digits[1] >= High THEN <<0>> \o digits ELSE digits
    IN  Positive(Stripped(BytesOf(v, ScalarBytes)))

ecdsa_sig_serialize(size, r, s) ==
    LET Parts(rp, sp) ==
            [ok |-> size >= 6 + Len(sp) + Len(rp), size |-> 6 + Len(sp) + Len(rp),
             sig |-> <<SequenceTag, 4 + Len(sp) + Len(rp), IntegerTag, Len(rp)>> \o rp
                       \o <<IntegerTag, Len(sp)>> \o sp]
    IN  Parts(DerInteger(r), DerInteger(s))
-----------------------------------------------------------------------------
(* The lax parser: lengths in more bytes than they need, the length of the  *)
(* sequence not looked at, text after its end.                              *)

lax_integer(t, at) ==
    LET Body(len, pos) ==
            IF len > Len(t) - pos + 1 THEN No
            ELSE [ok |-> TRUE, body |-> Stripped(SubSeq(t, pos, pos + len - 1)),
                  next |-> pos + len]
        LongBody(lenbytes, pos) ==
            IF Len(lenbytes) >= SizeBytes THEN No ELSE Body(NumberOf(lenbytes), pos)
        Long(n) == IF at + 1 + n > Len(t) THEN No
                   ELSE LongBody(Stripped(SubSeq(t, at + 2, at + 1 + n)), at + 2 + n)
    IN  IF at > Len(t) \/ t[at] # IntegerTag \/ at + 1 > Len(t) THEN No
        ELSE IF t[at + 1] >= High THEN Long(t[at + 1] - High)
        ELSE Body(t[at + 1], at + 2)

\* A signature with a number out of range is read as zeros.
LaxSignature(r, s) ==
    LET Kept(v, w) == IF v.overflow \/ w.overflow THEN [ok |-> TRUE, r |-> 0, s |-> 0]
                      ELSE [ok |-> TRUE, r |-> v.r, s |-> w.r]
    IN  IF Len(r) > ScalarBytes \/ Len(s) > ScalarBytes THEN [ok |-> TRUE, r |-> 0, s |-> 0]
        ELSE Kept(DerScalar!ScSetB32(NumberOf(r)), DerScalar!ScSetB32(NumberOf(s)))

ecdsa_signature_parse_der_lax(t) ==
    LET Both(r, s) == IF ~s.ok THEN No ELSE LaxSignature(r.body, s.body)
        ThenS(r) == IF ~r.ok THEN No ELSE Both(r, lax_integer(t, r.next))
        ThenR(at) == IF at > Len(t) + 1 THEN No ELSE ThenS(lax_integer(t, at))
    IN  IF t = <<>> \/ t[1] # SequenceTag \/ Len(t) < 2 THEN No
        ELSE ThenR(IF t[2] < High THEN 3 ELSE 3 + t[2] - High)
-----------------------------------------------------------------------------
VARIABLES text,    \* a text that arrives
          edits    \* how often it was edited

derVars == <<text, edits>>

\* What writers of DER and of BER make of a length: a byte, or a count of bytes
\* and as many, with zeros in front or without.
LengthForms(len) ==
    (IF len < High THEN {<<len>>} ELSE {})
    \union {<<High + n>> \o BytesOf(len, n) : n \in 1..SizeBytes}

Written(body) == {<<IntegerTag>> \o form \o body : form \in LengthForms(Len(body))}

DerInit ==
    /\ edits = 0
    /\ \/ \E r, s \in DerNumbers : text = ecdsa_sig_serialize(6 + 2 * (ScalarBytes + 1), r, s).sig
       \/ \E a, b \in DerBodies : \E r \in Written(a), s \in Written(b) :
            \E form \in LengthForms(Len(r \o s)) : text = <<SequenceTag>> \o form \o r \o s

Edit(t) == edits < MaxEdits /\ edits' = edits + 1 /\ text' = t
Replace(i, b) == Edit([text EXCEPT ![i] = b])
Insert(i, b) == Edit(SubSeq(text, 1, i - 1) \o <<b>> \o SubSeq(text, i, Len(text)))
Delete(i) == Edit(SubSeq(text, 1, i - 1) \o SubSeq(text, i + 1, Len(text)))

DerNext ==
    \E i \in 1..Len(text) : Delete(i) \/ \E b \in EditBytes : Replace(i, b) \/ Insert(i, b)

DerSpec == DerInit /\ [][DerNext]_derVars
-----------------------------------------------------------------------------
\* A text the strict parser takes is the one text of its signature: serialized
\* again it is the same, byte by byte, unless a number was read as zero for
\* being out of range; and the lax parser takes it for the same signature.
\* Every signature is read back from what is written, if there is room to write it.
DerCanonical ==
    /\ LET OneText(written) == written = [ok |-> TRUE, size |-> Len(text), sig |-> text]
           Agree(strict, lax) ==
               strict.ok =>
                 /\ lax.ok
                 /\ strict.r # 0 /\ strict.s # 0 =>
                      /\ OneText(ecdsa_sig_serialize(Len(text), strict.r, strict.s))
                      /\ lax = strict
       IN  Agree(ecdsa_sig_parse(text), ecdsa_signature_parse_der_lax(text))
    /\ edits = 0 /\ text # <<>> =>
         \A r \in DerNumbers, s \in DerNumbers :
             text = ecdsa_sig_serialize(Len(text), r, s).sig =>
                 /\ ecdsa_sig_parse(text) = [ok |-> TRUE, r |-> r, s |-> s]
                 /\ ~ecdsa_sig_serialize(Len(text) - 1, r, s).ok
=============================================================================
