----------------------------- MODULE MCTransfer -----------------------------
(* MessageTransfer over every message of riak's protocol, and over Probe,
   which has the types and labels riak's messages do not use and numbers in
   several ranges. *)
EXTENDS MessageTransfer, RiakMessages

Probe == Message(<<
    Field("i32", 1, "optional", "INT32"), Field("s32", 2, "optional", "SINT32"),
    Field("i64", 3, "optional", "INT64"), Field("u64", 5, "optional", "UINT64"),
    Field("s64", 6, "optional", "SINT64"), Field("f32", 9, "optional", "FIXED32"),
    Field("f64", 15, "optional", "DOUBLE"), Field("str", 16, "optional", "STRING"),
    Field("strs", 17, "repeated", "STRING"), Packed("p32", 30, "INT32"),
    Packed("p64", 40, "SINT64"), Packed("pfixed", 41, "SFIXED32"),
    Packed("pdouble", 60, "FIXED64"), Packed("pbool", 61, "BOOL"),
    Sub("subs", 62, "repeated", "RpbPair"), Sub("sub", 63, "optional", "RpbModFun")>>,
    <<<<1, 0>>, <<5, 3>>, <<9, 5>>, <<15, 6>>, <<30, 9>>, <<40, 10>>, <<60, 12>>, <<0, 16>>>>)

MCSchema == Descriptors @@ [Probe |-> Probe]

(* Each side of every boundary of the varints, the sign bits included. *)
Numbers32 == <<{}, {0}, 0 .. 6, {7}, 0 .. 13, {14}, 0 .. 20, {21}, 0 .. 27, {28}, {31}, 0 .. 31>>
Numbers64 == Numbers32 \o <<{32}, 0 .. 34, {35}, {42}, {49}, {56}, {62}, {63}, 0 .. 62, 0 .. 63>>
Text(n) == [i \in 1 .. n |-> {0, i % 7}]

Samples(type) ==
    CASE type \in {"UINT32", "INT32", "SINT32"} \cup Fixed32 -> Numbers32
      [] type \in {"UINT64", "INT64", "SINT64"} \cup Fixed64 -> Numbers64
      [] type = "ENUM" -> <<{}, {0}, {1}>>
      [] type = "BOOL" -> <<TRUE, FALSE>>
      [] type = "STRING" -> <<Text(1), Text(2), <<>>>>
      [] type = "BYTES" -> <<Text(1), <<>>, <<{}, 0 .. 7>>>>

Sample(type, k) == Samples(type)[1 + (k % Len(Samples(type)))]

(* A message with one value for each required field and, down to a depth,
   one for each optional and two for each repeated field; k turns through
   the samples. *)
RECURSIVE Filled(_, _, _)
Filled(name, k, depth) ==
    LET field(n) == CHOOSE f \in Range(MCSchema[name].fields) : f.name = n
        count(f) == CASE f.label = "required" -> 1
                      [] f.label = "optional" -> IF depth > 0 THEN 1 ELSE 0
                      [] f.label = "repeated" -> IF depth > 0 THEN 2 ELSE 0
        value(f, i) == IF f.type = "MESSAGE" THEN Filled(f.sub, k + i, depth - 1)
                       ELSE Sample(f.type, k + i + f.id)
        empty == [desc |-> name, unknown |-> <<>>,
                  val |-> [n \in {f.name : f \in Range(MCSchema[name].fields)} |-> <<>>]]
    IN  [empty EXCEPT !.val =
            [n \in DOMAIN empty.val |->
                [i \in 1 .. count(field(n)) |-> value(field(n), i)]]]

With(m, n, values) == [m EXCEPT !.val[n] = values]

(* Lengths of two bytes, and more members than one slab, or two, can hold. *)
Long == {With(Filled("RpbErrorResp", 0, 0), "errmsg", <<Text(130)>>),
         With(Filled("RpbGetResp", 0, 0), "content",
              <<With(Filled("RpbContent", 0, 0), "value", <<Text(126)>>)>>),
         With(Filled("RpbListKeysResp", 0, 0), "keys", [i \in 1 .. 50 |-> <<>>])}

Turned == {Filled("Probe", k, 1) : k \in 1 .. 20}

MCSent == {Filled(name, 0, depth) : name \in DOMAIN MCSchema, depth \in {0, 2}}
          \cup Turned \cup Long

(* Properties with other values and without a number. *)
Sparse == With(Filled("RpbGetBucketResp", 1, 2), "props",
               <<With(Filled("RpbBucketProps", 1, 1), "n_val", <<>>)>>)

(* A second part with other values, with all or only the required ones. *)
MCLater(m) == IF m \in Turned THEN {}
              ELSE {Filled(m.desc, 1, depth) : depth \in {0, 2}}
                   \cup (IF m.desc = Sparse.desc THEN {Sparse} ELSE {})

MCNewFields == {[tag |-> 31, wiretype |-> WIRE_TYPE_VARINT, data |-> <<{7}, {0}>>],
                [tag |-> 31, wiretype |-> WIRE_TYPE_64BIT, data |-> Text(8)],
                [tag |-> 500, wiretype |-> WIRE_TYPE_LENGTH_PREFIXED, data |-> <<{1}, {}, {7}>>],
                [tag |-> 500, wiretype |-> WIRE_TYPE_32BIT, data |-> Text(4)]}

MCMemory == 0 .. 14 \cup {1000}
=============================================================================
