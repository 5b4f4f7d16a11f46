-------------------------------- MODULE Wire --------------------------------
(***************************************************************************)
(* The protobuf wire format as the runtime libraries read and write it,    *)
(* over byte sequences: varints, records, and a codec that is driven by a  *)
(* table of fields, which is how the runtimes of native Go and of Dart     *)
(* work.  Integers are 32-bit values, a varint carries their 64-bit two's  *)
(* complement.  There are no groups.                                       *)
(***************************************************************************)
EXTENDS Integers, Sequences, SequencesExt, FiniteSetsExt

Failed == [failed |-> TRUE]
Nil == [nil |-> TRUE]

\* A oneof is none, or one of its fields with a message, which may be Nil.
None == [field |-> "none"]
Is(field, value) == [field |-> field, value |-> value]

-----------------------------------------------------------------------------
(* Varints.                                                                *)

\* The i-th group of seven bits of the 64-bit two's complement of v.
Group(v, i) == CASE i <= 4 -> (v \div (128 ^ i)) % 128
                 [] i \in 5 .. 8 -> IF v < 0 THEN 127 ELSE 0
                 [] OTHER -> IF v < 0 THEN 1 ELSE 0

SizeOfVarint(v) == IF v < 0 THEN 10 ELSE 1 + Cardinality({i \in 1 .. 4 : v >= 128 ^ i})

EncodeVarint(v) ==
  LET n == IF v < 0 THEN 10 ELSE 1 + Cardinality({i \in 1 .. 4 : v >= 128 ^ i})
  IN [i \in 1 .. n |-> Group(v, i - 1) + (IF i < n THEN 128 ELSE 0)]

\* The low 32 bits of the varint in the bytes i + 1 to last of b.
VarintValue(b, i, last) ==
  LET group(k) == IF i + k < last THEN b[i + 1 + k] % 128 ELSE 0 IN
  group(0) + 128 * group(1) + (128 ^ 2) * group(2) + (128 ^ 3) * group(3)
  + (128 ^ 4) * (((group(4) + 8) % 16) - 8)

\* The varint at offset i of b and the offset behind it.
DecodeVarint(b, i) ==
  LET ends == {j \in (i + 1) .. Min({Len(b), i + 10}) : b[j] < 128} IN
  IF ends = {} THEN Failed
  ELSE [next |-> Min(ends), value |-> VarintValue(b, i, Min(ends))]

-----------------------------------------------------------------------------
(* Records.                                                                *)

VarintType == 0
BytesType == 2

\* Variant: a length is believed.
DelimitedUnchecked(b, i, n) ==
  [next |-> Min({i + n, Len(b)}), value |-> SubSeq(b, i + 1, Min({i + n, Len(b)}))]

\* The n bytes behind offset i.
Delimited(b, i, n) ==
  IF n < 0 \/ i + n > Len(b) THEN Failed
  ELSE [next |-> i + n, value |-> SubSeq(b, i + 1, i + n)]

LengthPrefixed(b, length) ==
  IF length = Failed THEN Failed ELSE Delimited(b, length.next, length.value)

\* What follows a tag, by wire type.
Payload(b, i, type) ==
  CASE type = VarintType -> DecodeVarint(b, i)
    [] type = 1 -> Delimited(b, i, 8)
    [] type = 5 -> Delimited(b, i, 4)
    [] type = BytesType -> LengthPrefixed(b, DecodeVarint(b, i))
    [] OTHER -> Failed

Record(b, i, num, type, payload) ==
  IF num <= 0 \/ payload = Failed THEN Failed
  ELSE [num |-> num, type |-> type, value |-> payload.value, next |-> payload.next,
        raw |-> SubSeq(b, i + 1, payload.next)]

TaggedRecord(b, i, tag) ==
  IF tag = Failed THEN Failed
  ELSE Record(b, i, tag.value \div 8, tag.value % 8, Payload(b, tag.next, tag.value % 8))

\* The record at offset i.
ReadRecord(b, i) == TaggedRecord(b, i, DecodeVarint(b, i))

RECURSIVE Records(_, _)
Records(b, i) ==
  IF i = Len(b) THEN << >>
  ELSE LET r == ReadRecord(b, i) IN
       IF r = Failed THEN << Failed >> ELSE << r >> \o Records(b, r.next)

-----------------------------------------------------------------------------
(* Tables.  A field has a number, a name and a wire type; the member of a  *)
(* oneof also has the name of the oneof and the table of its message.      *)

Varint(num, name) == [num |-> num, name |-> name, type |-> VarintType, message |-> << >>]
Bytes(num, name) == [num |-> num, name |-> name, type |-> BytesType, message |-> << >>]
Member(num, oneof, name, table) ==
  [num |-> num, name |-> name, type |-> BytesType, oneof |-> oneof, message |-> table]

Tag(f) == EncodeVarint(8 * f.num + f.type)

RECURSIVE Encode(_, _)
Encode(table, m) ==
  LET text(f) ==
        IF f.message # << >>
        THEN LET x == m[f.oneof]
                 b == IF x = None \/ x.field # f.name \/ x.value = Nil THEN << >>
                      ELSE Encode(f.message, x.value)
             IN IF x.field # f.name THEN << >> ELSE Tag(f) \o EncodeVarint(Len(b)) \o b
        ELSE IF f.type = VarintType
        THEN IF m[f.name] = 0 THEN << >> ELSE Tag(f) \o EncodeVarint(m[f.name])
        ELSE IF m[f.name] = << >> THEN << >>
             ELSE Tag(f) \o EncodeVarint(Len(m[f.name])) \o m[f.name]
  IN FlattenSeq([k \in DOMAIN table |-> text(table[k])]) \o m.unknownFields

LastOf(records, P(_)) == LET is == {i \in DOMAIN records : P(records[i])} IN
                       IF is = {} THEN Nil ELSE records[Max(is)]

\* A field has the value of its last record, a oneof its last member.
RECURSIVE Decode(_, _)
FromRecords(table, records) ==
  LET fields == {table[k] : k \in DOMAIN table}
      plain == {f \in fields : f.message = << >>}
      members(oneof) == {f \in fields \ plain : f.oneof = oneof}
      numbers == {f.num : f \in fields}
      oneofs == {f.oneof : f \in fields \ plain}
      scalar(name) ==
        LET f == CHOOSE g \in plain : g.name = name
            r == LastOf(records, LAMBDA x : x.num = f.num)
        IN IF r # Nil THEN r.value ELSE IF f.type = VarintType THEN 0 ELSE << >>
      choice(oneof) ==
        LET r == LastOf(records, LAMBDA x : x.num \in {f.num : f \in members(oneof)})
            f == CHOOSE g \in members(oneof) : g.num = r.num
        IN IF r = Nil THEN None ELSE Is(f.name, Decode(f.message, r.value))
  IN IF \E i \in DOMAIN records : records[i] = Failed THEN Failed
     ELSE [name \in {f.name : f \in plain} \cup oneofs \cup {"unknownFields"} |->
             IF name = "unknownFields"
             THEN FlattenSeq([i \in DOMAIN records |->
                    IF records[i].num \in numbers THEN << >> ELSE records[i].raw])
             ELSE IF name \in oneofs THEN choice(name) ELSE scalar(name)]

Decode(table, b) == FromRecords(table, Records(b, 0))
=============================================================================
