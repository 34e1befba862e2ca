------------------------------- MODULE Codec --------------------------------
(****************************************************************************)
(* The bytes of the program: the reader and writer of snapshots with their  *)
(* varints and masks (ReplicationRegistry.cpp), the frames of the protocol  *)
(* (ReplicationProtocol.cpp, EditTransaction.cpp) and the world file        *)
(* (WorldPersistence.cpp).                                                  *)
(*                                                                          *)
(* Everything is scaled: a byte has ByteBits bits instead of 8, a u16, u32  *)
(* and u64 have Half, Word and Long bytes instead of 2, 4 and 8. A varint   *)
(* byte still carries one bit less than a byte, a mask byte one bit for     *)
(* each field. What a parser refuses is Refused.                            *)
(****************************************************************************)
EXTENDS Integers, Sequences, FiniteSets, SequencesExt, FiniteSetsExt

CONSTANTS ByteBits, Half, Word, Long

ASSUME WidthAssumption ==
    /\ ByteBits \in 4 .. 8 /\ {Half, Word, Long} \subseteq 1 .. 8
    /\ Half <= Word /\ Word <= Long

\* b to the n-th, digits of a number, and the number of digits, the least first.
Power(b, n) ==
    LET power[k \in 0 .. n] == IF k = 0 THEN 1 ELSE b * power[k - 1]
    IN  power[n]
Digits(v, b, n) ==
    LET rest[k \in 0 .. n] == IF k = 0 THEN v ELSE rest[k - 1] \div b
    IN  [i \in 1 .. n |-> rest[i - 1] % b]
Number(d, b) ==
    LET upper[k \in 0 .. Len(d)] ==
            IF k = 0 THEN 0 ELSE d[Len(d) - k + 1] + b * upper[k - 1]
    IN  upper[Len(d)]

Base      == Power(2, ByteBits)
Byte      == 0 .. Base - 1
Refused   == [refused |-> TRUE]
Most(n)   == Power(Base, n) - 1   \* of an unsigned number of n bytes

\* Little-endian
LE(v, n)     == Digits(v, Base, n)
At(b, at, n) == Number([i \in 1 .. n |-> b[at + i - 1]], Base)

-----------------------------------------------------------------------------
(* Varints: a byte that is followed by another one has its top bit set. *)

Group == Power(2, ByteBits - 1)

\* writeVarintU32, writeVarintU64
Varint(v) ==
    LET n == Min({k \in 1 .. 2 * Long : v < Power(Group, k)})
        d == Digits(v, Group, n)
    IN  [i \in 1 .. n |-> d[i] + (IF i < n THEN Group ELSE 0)]

\* readVarintU32, readVarintU64 of a number of n bytes: at most as many varint
\* bytes as its bits need, all within the buffer; bits that do not fit are lost.
MostGroups(n) == (n * ByteBits + ByteBits - 2) \div (ByteBits - 1)
ReadVarint(b, at, n) ==
    LET ends == {k \in 1 .. MostGroups(n) : at + k - 1 <= Len(b) /\ b[at + k - 1] < Group}
        used == Min(ends)
    IN  IF ends = {} THEN Refused
        ELSE [value |-> Number([i \in 1 .. used |-> b[at + i - 1] % Group], Group) % Power(Base, n),
              next  |-> at + used]

Zigzag(v)   == IF v >= 0 THEN 2 * v ELSE -2 * v - 1
Unzigzag(u) == IF u % 2 = 0 THEN u \div 2 ELSE -((u + 1) \div 2)

\* lrintf: to the nearest, and to the even one of two.
Rounded(v, step) ==
    LET q == v \div step  r == 2 * (v % step)
    IN  IF r < step \/ (r = step /\ q % 2 = 0) THEN q ELSE q + 1

-----------------------------------------------------------------------------
(* Fields. A raw float is a Word of bits; a step is of what is quantized.   *)

FieldTypes ==
    {t \in [kind : {"bool", "signed", "unsigned", "raw", "quantized"},
             size : 1 .. Long, step : Nat \ {0}] : t.kind = "bool" => t.size = 1}

\* The values a field may have. The long that lrintf gives has a Word: the rounding of
\* a larger quantized value is not defined, and no field has one.
HasType(t, v) ==
    CASE t.kind = "bool"      -> v \in {0, 1}
      [] t.kind = "signed"    -> v \in -(Power(Base, t.size) \div 2) .. Power(Base, t.size) \div 2 - 1
      [] t.kind = "quantized" -> v \in Int /\ Zigzag(Rounded(v, t.step)) <= Most(Word)
      [] OTHER                -> v \in 0 .. Most(t.size)

EncodeField(t, v) ==
    CASE t.kind = "bool"      -> <<v>>
      [] t.kind = "signed"    -> Varint(Zigzag(v))
      [] t.kind = "unsigned"  -> Varint(v)
      [] t.kind = "raw"       -> LE(v, t.size)
      [] t.kind = "quantized" -> Varint(Zigzag(Rounded(v, t.step)))

Narrowed(v, n) == LET u == v % Power(Base, n) IN IF u > Most(n) \div 2 THEN u - Power(Base, n) ELSE u

\* What is smaller than a word travels as one.
Wide(n) == IF n < Word THEN Word ELSE n

ReadFixed(b, at, n) ==
    IF at + n - 1 > Len(b) THEN Refused ELSE [value |-> At(b, at, n), next |-> at + n]

DecodeField(t, b, at) ==
    LET read == CASE t.kind \in {"bool", "raw"} -> ReadFixed(b, at, t.size)
                  [] t.kind = "quantized"       -> ReadVarint(b, at, Long)
                  [] OTHER                      -> ReadVarint(b, at, Wide(t.size))
        value(u) == CASE t.kind = "bool"      -> IF u = 0 THEN 0 ELSE 1
                      [] t.kind = "signed"    -> Narrowed(Unzigzag(u), t.size)
                      [] t.kind = "unsigned"  -> u % Power(Base, t.size)
                      [] t.kind = "raw"       -> u
                      [] t.kind = "quantized" -> Unzigzag(u) * t.step
    IN  IF read = Refused THEN Refused ELSE [read EXCEPT !.value = value(@)]

-----------------------------------------------------------------------------
(* Snapshots. A mask is the set of the fields it has.                       *)

Metas == [version : 0 .. Most(Half), fields : Seq(FieldTypes)]
Instance(m, s) ==
    /\ s \in Seq(Int) /\ Len(s) = Len(m.fields)
    /\ \A i \in DOMAIN m.fields : HasType(m.fields[i], s[i])

MaskBytes(m) == (Len(m.fields) + ByteBits - 1) \div ByteBits

EncodeMask(m, mask) ==
    [k \in 1 .. MaskBytes(m) |->
        Number([i \in 1 .. ByteBits |-> IF (k - 1) * ByteBits + i \in mask THEN 1 ELSE 0], 2)]

DecodeMask(m, b, at) ==
    {i \in DOMAIN m.fields :
        Digits(b[at + (i - 1) \div ByteBits], 2, ByteBits)[((i - 1) % ByteBits) + 1] = 1}

EncodeSnapshot(m, instance, mask) ==
    LE(m.version, Half) \o EncodeMask(m, mask)
    \o FlattenSeq([i \in DOMAIN m.fields |->
                      IF i \in mask THEN EncodeField(m.fields[i], instance[i]) ELSE <<>>])

\* Fields are read one after the other; a refusal leaves those before it.
DecodeNext(m, b, got, i) ==
    LET read == DecodeField(m.fields[i], b, got.next) IN
    IF ~got.ok \/ i \notin DecodeMask(m, b, Half + 1) THEN got
    ELSE IF read = Refused THEN [got EXCEPT !.ok = FALSE]
    ELSE [got EXCEPT !.instance[i] = read.value, !.next = read.next]

DecodeFields(m, instance, b, first) ==
    LET got[i \in 0 .. Len(m.fields)] ==
            IF i = 0 THEN [ok |-> TRUE, instance |-> instance, next |-> first]
            ELSE DecodeNext(m, b, got[i - 1], i)
    IN  got[Len(m.fields)]

DecodeSnapshot(m, instance, b) ==
    LET first == Half + MaskBytes(m) + 1 IN
    IF Len(b) < Half \/ At(b, 1, Half) # m.version \/ Len(b) < first - 1
    THEN [ok |-> FALSE, instance |-> instance, next |-> 1]
    ELSE DecodeFields(m, instance, b, first)
=============================================================================
