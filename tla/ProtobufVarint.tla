--------------------------- MODULE ProtobufVarint ---------------------------
(***************************************************************************)
(* The integers of the protocol buffers wire format, as protobuf-c.c packs *)
(* and parses them.                                                        *)
(*                                                                         *)
(* A machine word of w bits is the set of its bits that are 1, a subset of *)
(* 0 .. w - 1, so a shift is a translation, | is a union, & with a mask is *)
(* an intersection, and nothing wraps by accident.  A signed word is in    *)
(* two's complement: it is negative when bit w - 1 is in it.  A byte is a  *)
(* word of 8 bits, and a packed value is a sequence of bytes.              *)
(***************************************************************************)
EXTENDS Integers, Sequences

Word(w) == SUBSET (0 .. w - 1)
Byte == Word(8)

(* v < 1 << k *)
Below(v, k) == \A i \in v : i < k

Shl(v, k, w) == {i \in 0 .. w - 1 : i - k \in v}
Shr(v, k, w) == {i \in 0 .. w - 1 : i + k \in v}

(* (uint8_t) (v >> k) | 0x80, and (v >> k) & 0x7f *)
More(v, k) == {i \in 0 .. 6 : i + k \in v} \cup {7}
Final(v, k) == {i \in 0 .. 6 : i + k \in v}

-----------------------------------------------------------------------------
(* Signed integers are packed as unsigned ones of small magnitude.  -v is
   ~v + 1, hence (-v) * 2 - 1 is ~v << 1 with bit 0 set, and -(v >> 1) - 1
   is ~(v >> 1). *)
zigzag(v, w) ==
    IF w - 1 \in v THEN Shl((0 .. w - 1) \ v, 1, w) \cup {0} ELSE Shl(v, 1, w)

(* Mutant: only the sign of a negative value is restored. *)
unzigzag_without_complement(v, w) ==
    IF 0 \in v THEN Shr(v, 1, w) \cup {w - 1} ELSE Shr(v, 1, w)

unzigzag(v, w) ==
    IF 0 \in v THEN (0 .. w - 1) \ Shr(v, 1, w) ELSE Shr(v, 1, w)

-----------------------------------------------------------------------------
(* Sizes: what the caller of pack allocates. *)

get_tag_size(number) ==
    IF Below(number, 4) THEN 1
    ELSE IF Below(number, 11) THEN 2
    ELSE IF Below(number, 18) THEN 3
    ELSE IF Below(number, 25) THEN 4
    ELSE 5

(* Mutant: the first threshold is 1 << 8. *)
uint32_size_off_by_one(v) ==
    IF Below(v, 8) THEN 1
    ELSE IF Below(v, 14) THEN 2
    ELSE IF Below(v, 21) THEN 3
    ELSE IF Below(v, 28) THEN 4
    ELSE 5

uint32_size(v) ==
    IF Below(v, 7) THEN 1
    ELSE IF Below(v, 14) THEN 2
    ELSE IF Below(v, 21) THEN 3
    ELSE IF Below(v, 28) THEN 4
    ELSE 5

int32_size(v) == IF 31 \in v THEN 10 ELSE uint32_size(v)

uint64_size(v) ==
    LET upper_v == Shr(v, 32, 32)
    IN  IF upper_v = {} THEN uint32_size(v)
        ELSE IF Below(upper_v, 3) THEN 5
        ELSE IF Below(upper_v, 10) THEN 6
        ELSE IF Below(upper_v, 17) THEN 7
        ELSE IF Below(upper_v, 24) THEN 8
        ELSE IF Below(upper_v, 31) THEN 9
        ELSE 10

-----------------------------------------------------------------------------
(* Packing *)

(* The nested tests of the code: each looks at what the shifts so far left
   of the value. *)
uint32_pack(v) ==
    IF Below(v, 7) THEN <<Final(v, 0)>>
    ELSE IF Below(Shr(v, 7, 32), 7) THEN <<More(v, 0), Final(v, 7)>>
    ELSE IF Below(Shr(v, 14, 32), 7) THEN <<More(v, 0), More(v, 7), Final(v, 14)>>
    ELSE IF Below(Shr(v, 21, 32), 7)
         THEN <<More(v, 0), More(v, 7), More(v, 14), Final(v, 21)>>
    ELSE <<More(v, 0), More(v, 7), More(v, 14), More(v, 21), Final(v, 28)>>

(* A negative value is sign-extended to 64 bits. *)
int32_pack(v) ==
    IF 31 \in v
    THEN <<More(v, 0), More(v, 7), More(v, 14), More(v, 21),
           {i \in 0 .. 3 : i + 28 \in v} \cup (4 .. 7),
           0 .. 7, 0 .. 7, 0 .. 7, 0 .. 7, {0}>>
    ELSE uint32_pack(v)

(* The loop over what is left of hi ends at its first group below 128. *)
uint64_pack(v) ==
    LET hi == Shr(v, 32, 32)
        low4 == <<More(v, 0), More(v, 7), More(v, 14), More(v, 21)>>
        groups(n) == [k \in 1 .. n |-> IF k < n THEN More(v, 21 + 7 * k)
                                       ELSE Final(v, 21 + 7 * k)]
    IN  IF hi = {} THEN uint32_pack(v)
        ELSE IF Below(hi, 3) THEN low4 \o groups(1)
        ELSE low4 \o groups(CHOOSE n \in 2 .. 6 :
                              /\ Below(hi, 7 * n - 4)
                              /\ \A m \in 2 .. n - 1 : ~Below(hi, 7 * m - 4))

(* fixed32_pack and fixed64_pack: the n bytes of a word, the lowest first. *)
fixed_pack(v, n) == [k \in 1 .. n |-> {i \in 0 .. 7 : i + 8 * (k - 1) \in v}]

boolean_pack(value) == <<IF value THEN {0} ELSE {}>>

(* id << 3; the wire type is put into the low three bits of the first byte. *)
tag_pack(id, wiretype) ==
    LET out == IF Below(id, 29) THEN uint32_pack(Shl(id, 3, 32))
               ELSE uint64_pack(Shl(id, 3, 64))
    IN  <<out[1] \cup wiretype>> \o Tail(out)

-----------------------------------------------------------------------------
(* Parsing *)

(* The group of 7 bits at byte k of a varint, in its place. *)
GroupAt(data, k, w) == Shl(data[k] \cap (0 .. 6), 7 * (k - 1), w)

(* The fifth byte is not masked: what passes bit 31 is shifted out. *)
parse_uint32(data) ==
    LET len == Len(data)
    IN  GroupAt(data, 1, 32)
        \cup (IF len > 1 THEN GroupAt(data, 2, 32) ELSE {})
        \cup (IF len > 2 THEN GroupAt(data, 3, 32) ELSE {})
        \cup (IF len > 3 THEN GroupAt(data, 4, 32) ELSE {})
        \cup (IF len > 4 THEN Shl(data[5], 28, 32) ELSE {})

parse_uint64(data) ==
    IF Len(data) < 5 THEN parse_uint32(data)
    ELSE UNION {GroupAt(data, k, 64) : k \in 1 .. Len(data)}

parse_boolean(data) == \E k \in 1 .. Len(data) : data[k] \cap (0 .. 6) # {}

(* parse_fixed_uint32 and parse_fixed_uint64, of n bytes *)
parse_fixed(data, n) == UNION {Shl(data[k], 8 * (k - 1), 8 * n) : k \in 1 .. n}

(* Mutant: the end of the data ends a varint. *)
VarintLen_unterminated(data, max) ==
    LET ends == {i \in 1 .. Len(data) : i <= max /\ (7 \notin data[i] \/ i = Len(data))}
    IN  IF ends = {} THEN 0 ELSE CHOOSE i \in ends : \A j \in ends : i <= j

(* How many of the first max bytes the varint at the start of data takes;
   0 when none of them ends it. *)
VarintLen(data, max) ==
    LET ends == {i \in 1 .. Len(data) : i <= max /\ 7 \notin data[i]}
    IN  IF ends = {} THEN 0 ELSE CHOOSE i \in ends : \A j \in ends : i <= j

scan_varint(data) == VarintLen(data, 10)

(* The field number and the wire type of the tag at the start of data; used
   is 0 when the tag does not end within five bytes. *)
parse_tag_and_wiretype(data) ==
    LET used == VarintLen(data, 5)
        tag == {i \in 0 .. 31 :
                  \/ i < 4 /\ i + 3 \in data[1]
                  \/ \E k \in 2 .. used : i - (7 * k - 10) \in data[k] \cap (0 .. 6)}
    IN  IF used = 0 THEN [used |-> 0, tag |-> {}, wiretype |-> {}]
        ELSE [used |-> used, tag |-> tag, wiretype |-> data[1] \cap (0 .. 2)]
=============================================================================
