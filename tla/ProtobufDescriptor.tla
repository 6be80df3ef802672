------------------------- MODULE ProtobufDescriptor -------------------------
(* What the generated code says of a message: ProtobufCMessageDescriptor,
   ProtobufCFieldDescriptor and ProtobufCEnumDescriptor of protobuf-c.h. *)

Field(name, id, label, type) ==
    [name |-> name, id |-> id, label |-> label, type |-> type,
     sub |-> "", packed |-> FALSE, default |-> <<>>]

(* A field that holds a message of descriptor sub. *)
Sub(name, id, label, sub) == [Field(name, id, label, "MESSAGE") EXCEPT !.sub = sub]

(* A field that holds a number of enum sub. *)
Enumerated(name, id, label, sub) == [Field(name, id, label, "ENUM") EXCEPT !.sub = sub]

(* An optional field with a default value. *)
Default(name, id, type, v) ==
    [Field(name, id, "optional", type) EXCEPT !.default = <<v>>]

(* A repeated field whose values are sent as one run. *)
Packed(name, id, type) == [Field(name, id, "repeated", type) EXCEPT !.packed = TRUE]

(* fields are in the order of their numbers; ranges[i] is a run of
   consecutive numbers: its first number and the index, from 0, of the field
   that has it.  The last range only bounds the one before. *)
Message(fields, ranges) == [fields |-> fields, ranges |-> ranges]

(* The names of an enum in the order of their numbers, with the ranges of
   the numbers. *)
Enum(names, ranges) == [names |-> names, ranges |-> ranges]
=============================================================================
