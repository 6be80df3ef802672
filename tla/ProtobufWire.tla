---------------------------- MODULE ProtobufWire ----------------------------
(***************************************************************************)
(* The protocol buffers runtime riack packs its requests and unpacks the   *)
(* node's replies with: src/protobuf-c/protobuf-c.c.                       *)
(*                                                                         *)
(* A message is a record                                                   *)
(*    [desc |-> the name of its descriptor, a member of DOMAIN Schema,     *)
(*     val  |-> for each field the sequence of its values: any number for  *)
(*              a repeated field, at most one for the others,              *)
(*     unknown |-> the fields its descriptor does not have]                *)
(* so <<>> is an optional field that is not set, a NULL pointer or n = 0.  *)
(* Numbers are words (ProtobufVarint), booleans BOOLEAN, strings and bytes *)
(* sequences of bytes.                                                     *)
(*                                                                         *)
(* The allocator is a record h: how many blocks are live, how many more    *)
(* requests it can satisfy, whether something was freed through a pointer  *)
(* that was never set, and whether bytes after the end were read.          *)
(***************************************************************************)
EXTENDS ProtobufDescriptor, ProtobufVarint, SequencesExt, FiniteSetsExt

CONSTANT Schema   \* the descriptors, by name

-----------------------------------------------------------------------------
(* Types *)

Fixed32 == {"SFIXED32", "FIXED32", "FLOAT"}
Fixed64 == {"SFIXED64", "FIXED64", "DOUBLE"}
LengthPrefixed == {"STRING", "BYTES", "MESSAGE"}
Types32 == {"SINT32", "INT32", "UINT32", "ENUM"} \cup Fixed32
Types64 == {"SINT64", "INT64", "UINT64"} \cup Fixed64
is_packable_type(type) == type \notin LengthPrefixed

(* The wire types, as words of three bits. *)
WIRE_TYPE_VARINT == {}
WIRE_TYPE_64BIT == {0}
WIRE_TYPE_LENGTH_PREFIXED == {1}
WIRE_TYPE_32BIT == {0, 2}

WireType(type) ==
    CASE type \in Fixed32 -> WIRE_TYPE_32BIT
      [] type \in Fixed64 -> WIRE_TYPE_64BIT
      [] type \in LengthPrefixed -> WIRE_TYPE_LENGTH_PREFIXED
      [] OTHER -> WIRE_TYPE_VARINT

(* Numbers up to 2^30 as words, and back. *)
Bits(n) == {i \in 0 .. 29 : (n \div 2 ^ i) % 2 = 1}
Num(v) == SumFunction([i \in v |-> 2 ^ i])

(* Mutant: the number after a range counts as in it. *)
Search_past_end(ranges, value) ==
    LET first(i) == ranges[i + 1][1]
        index(i) == ranges[i + 1][2]
        size(i) == index(i + 1) - index(i)
        found(i) == value - first(i) + index(i) + 1
        search[n \in Nat] == [start \in Nat |->
            LET mid == start + n \div 2
            IN  IF n > 1
                THEN IF value < first(mid) THEN search[mid - start][start]
                     ELSE IF value > first(mid) + size(mid)
                          THEN search[start + n - (mid + 1)][mid + 1]
                     ELSE found(mid)
                ELSE IF n = 1 /\ first(start) <= value /\ value < first(start) + size(start)
                     THEN found(start)
                ELSE 0]
    IN  search[Len(ranges) - 1][0]

(* The binary search for the field of a number: its place in fields, 0 when
   there is none.  A step looks at the range in the middle of the n ranges
   from start on. *)
Search(ranges, value) ==
    LET first(i) == ranges[i + 1][1]
        index(i) == ranges[i + 1][2]
        size(i) == index(i + 1) - index(i)
        found(i) == value - first(i) + index(i) + 1
        search[n \in Nat] == [start \in Nat |->
            LET mid == start + n \div 2
            IN  IF n > 1
                THEN IF value < first(mid) THEN search[mid - start][start]
                     ELSE IF value >= first(mid) + size(mid)
                          THEN search[start + n - (mid + 1)][mid + 1]
                     ELSE found(mid)
                ELSE IF n = 1 /\ first(start) <= value /\ value < first(start) + size(start)
                     THEN found(start)
                ELSE 0]
    IN  search[Len(ranges) - 1][0]

int_range_lookup(ranges, value) ==
    IF ranges = <<>> THEN 0 ELSE Search(ranges, value)

-----------------------------------------------------------------------------
(* The messages in a message, itself included, level by level until there
   are none. *)

Children(m) ==
    UNION {Range(m.val[f.name]) : f \in {f \in Range(Schema[m.desc].fields) : f.type = "MESSAGE"}}

Level(m, n) ==
    LET level[k \in Nat] ==
            IF k = 0 THEN {m} ELSE UNION {Children(x) : x \in level[k - 1]}
    IN  level[n]

Depth(m) ==
    LET depth[n \in Nat] == IF Level(m, n) = {} THEN n ELSE depth[n + 1]
    IN  depth[0]

Within(m) == UNION {Level(m, n) : n \in 0 .. Depth(m)}

-----------------------------------------------------------------------------
(* What the generated code makes of a descriptor, and a sender of a message *)

(* The values a field of a type other than MESSAGE can have. *)
Values(type) ==
    CASE type \in Types32 -> Word(32)
      [] type \in Types64 -> Word(64)
      [] type = "BOOL" -> BOOLEAN
      [] type \in {"STRING", "BYTES"} -> Seq(Byte)

Unknown == [tag : Nat, wiretype : Word(3), data : Seq(Byte)]

FieldWellFormed(f) ==
    /\ f.label \in {"required", "optional", "repeated"}
    /\ f.type \in Types32 \cup Types64 \cup {"BOOL"} \cup LengthPrefixed
    /\ f.packed => is_packable_type(f.type)
    /\ f.type = "MESSAGE" => f.sub \in DOMAIN Schema

(* The ranges cover the fields one run of consecutive numbers after the
   other. *)
RangesWellFormed(d) ==
    LET n == Len(d.ranges) - 1
        first(k) == d.ranges[k][1]
        index(k) == d.ranges[k][2]
    IN  IF d.ranges = <<>> THEN d.fields = <<>>
        ELSE /\ n \in Nat
             /\ index(1) = 0 /\ index(n + 1) = Len(d.fields)
             /\ \A k \in 1 .. n :
                   /\ first(k) \in Nat /\ index(k) \in Nat /\ index(k) < index(k + 1)
                   /\ k < n => first(k) + (index(k + 1) - index(k)) <= first(k + 1)
                   /\ \A i \in index(k) + 1 .. index(k + 1) :
                         d.fields[i].id = first(k) + (i - 1) - index(k)

ASSUME SchemaAssumption ==
    \A name \in DOMAIN Schema :
        LET fields == Schema[name].fields
        IN  /\ fields \in Seq(Range(fields))
            /\ \A i \in 1 .. Len(fields) : FieldWellFormed(fields[i])
            /\ \A i, j \in 1 .. Len(fields) : fields[i].name = fields[j].name => i = j
            /\ RangesWellFormed(Schema[name])

(* A message has the values its descriptor wants. *)
Fits(m) ==
    /\ m.desc \in DOMAIN Schema
    /\ m.unknown \in Seq(Unknown)
    /\ \A f \in Range(Schema[m.desc].fields) :
          LET s == m.val[f.name]
          IN  /\ s \in Seq(IF f.type = "MESSAGE" THEN {c \in Children(m) : c.desc = f.sub}
                            ELSE Values(f.type))
              /\ f.label = "required" => Len(s) = 1
              /\ f.label = "optional" => Len(s) <= 1

IsMessage(m) ==
    /\ Depth(m) \in Nat /\ Level(m, Depth(m)) = {}
    /\ \A x \in Within(m) : Fits(x)

-----------------------------------------------------------------------------
(* The size of a message, computed before it is packed *)

ScalarSize(type, v) ==
    CASE type = "SINT32" -> uint32_size(zigzag(v, 32))
      [] type = "INT32" -> int32_size(v)
      [] type \in {"UINT32", "ENUM"} -> uint32_size(v)
      [] type = "SINT64" -> uint64_size(zigzag(v, 64))
      [] type \in {"INT64", "UINT64"} -> uint64_size(v)
      [] type \in Fixed32 -> 4
      [] type \in Fixed64 -> 8
      [] type = "BOOL" -> 1

PrefixedSize(len) == uint32_size(Bits(len)) + len

(* A string ends at its first NUL. *)
strlen(v) == Cardinality({i \in 1 .. Len(v) : \A j \in 1 .. i : v[j] # {}})
CString(v) == SubSeq(v, 1, strlen(v))

(* size is what protobuf_c_message_get_packed_size returns for the messages
   within this one. *)
ValueSize(size, f, v) ==
    CASE f.type = "STRING" -> PrefixedSize(strlen(v))
      [] f.type = "BYTES" -> PrefixedSize(Len(v))
      [] f.type = "MESSAGE" -> PrefixedSize(size[v])
      [] OTHER -> ScalarSize(f.type, v)

required_field_get_packed_size(size, f, v) == get_tag_size(Bits(f.id)) + ValueSize(size, f, v)

optional_field_get_packed_size(size, f, s) ==
    IF s = <<>> THEN 0 ELSE required_field_get_packed_size(size, f, s[1])

repeated_field_get_packed_size(size, f, s) ==
    LET rv == SumFunction([i \in 1 .. Len(s) |-> ValueSize(size, f, s[i])])
    IN  IF s = <<>> THEN 0
        ELSE IF f.packed THEN get_tag_size(Bits(f.id)) + PrefixedSize(rv)
        ELSE get_tag_size(Bits(f.id)) * Len(s) + rv

unknown_field_get_packed_size(u) == get_tag_size(Bits(u.tag)) + Len(u.data)

field_get_packed_size(size, f, s) ==
    CASE f.label = "required" -> required_field_get_packed_size(size, f, s[1])
      [] f.label = "optional" -> optional_field_get_packed_size(size, f, s)
      [] f.label = "repeated" -> repeated_field_get_packed_size(size, f, s)

message_size(size, m) ==
    LET fields == Schema[m.desc].fields
    IN  SumFunction([i \in 1 .. Len(fields) |->
                        field_get_packed_size(size, fields[i], m.val[fields[i].name])])
        + SumFunction([i \in 1 .. Len(m.unknown) |-> unknown_field_get_packed_size(m.unknown[i])])

protobuf_c_message_get_packed_size(m) ==
    LET size[x \in Within(m)] == message_size(size, x) IN size[m]

-----------------------------------------------------------------------------
(* Packing *)

ScalarPack(type, v) ==
    CASE type = "SINT32" -> uint32_pack(zigzag(v, 32))
      [] type = "INT32" -> int32_pack(v)
      [] type \in {"UINT32", "ENUM"} -> uint32_pack(v)
      [] type = "SINT64" -> uint64_pack(zigzag(v, 64))
      [] type \in {"INT64", "UINT64"} -> uint64_pack(v)
      [] type \in Fixed32 -> fixed_pack(v, 4)
      [] type \in Fixed64 -> fixed_pack(v, 8)
      [] type = "BOOL" -> boolean_pack(v)

binary_data_pack(bd) == uint32_pack(Bits(Len(bd))) \o bd

(* pack is what protobuf_c_message_pack writes for the messages within this
   one.  An embedded message is packed one byte after out and moved when its
   length takes more than that byte. *)
ValuePack(pack, f, v) ==
    CASE f.type = "STRING" -> binary_data_pack(CString(v))   \* string_pack
      [] f.type = "BYTES" -> binary_data_pack(v)
      [] f.type = "MESSAGE" -> binary_data_pack(pack[v])
      [] OTHER -> ScalarPack(f.type, v)

required_field_pack(pack, f, v) ==
    tag_pack(Bits(f.id), WireType(f.type)) \o ValuePack(pack, f, v)

optional_field_pack(pack, f, s) == IF s = <<>> THEN <<>> ELSE required_field_pack(pack, f, s[1])

(* A packed field is one length-prefixed run of values. *)
repeated_field_pack(pack, f, s) ==
    IF s = <<>> THEN <<>>
    ELSE IF f.packed
         THEN tag_pack(Bits(f.id), WIRE_TYPE_LENGTH_PREFIXED)
              \o binary_data_pack(FlattenSeq([i \in 1 .. Len(s) |-> ValuePack(pack, f, s[i])]))
    ELSE FlattenSeq([i \in 1 .. Len(s) |-> required_field_pack(pack, f, s[i])])

unknown_field_pack(u) == tag_pack(Bits(u.tag), u.wiretype) \o u.data

field_pack(pack, f, s) ==
    CASE f.label = "required" -> required_field_pack(pack, f, s[1])
      [] f.label = "optional" -> optional_field_pack(pack, f, s)
      [] f.label = "repeated" -> repeated_field_pack(pack, f, s)

message_pack(pack, m) ==
    LET fields == Schema[m.desc].fields
    IN  FlattenSeq([i \in 1 .. Len(fields) |->
                       field_pack(pack, fields[i], m.val[fields[i].name])])
        \o FlattenSeq([i \in 1 .. Len(m.unknown) |-> unknown_field_pack(m.unknown[i])])

protobuf_c_message_pack(m) ==
    LET pack[x \in Within(m)] == message_pack(pack, x) IN pack[m]
=============================================================================
