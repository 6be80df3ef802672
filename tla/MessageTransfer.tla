--------------------------- MODULE MessageTransfer ---------------------------
(***************************************************************************)
(* One message from the structure its sender filled to the structure its   *)
(* receiver frees: the functions the generated code has for each message   *)
(* (__get_packed_size, __pack, __unpack and __free_unpacked; the lines of  *)
(* RpbErrorResp stand for all) over the runtime.                           *)
(*                                                                         *)
(* Between pack and unpack the bytes may be what another sender makes of   *)
(* the same message: a node that is newer than the descriptors adds fields *)
(* they do not have, and a sender may give the fields in several parts.    *)
(* The receiver may also get a message that ends early, and may run out of *)
(* memory.                                                                 *)
(***************************************************************************)
EXTENDS ProtobufUnpack

CONSTANTS
    Sent,       \* the messages a sender fills
    Later(_),   \* what may follow a message in the same bytes
    NewFields,  \* the fields of a newer node
    Memory,     \* how many allocations an allocator can satisfy
    Plenty      \* the one of Memory that is always enough

ASSUME SentAssumption ==
    /\ \A m \in Sent : IsMessage(m) /\ \A l \in Later(m) : IsMessage(l) /\ l.desc = m.desc
    /\ NewFields \subseteq Unknown

ASSUME MemoryAssumption == Memory \subseteq Nat /\ Plenty \in Memory

VARIABLES
    phase,   \* "filled", "packed", "unpacked", "freed"
    sent,    \* the parts the bytes were packed from, the first by this sender
    extra,   \* the fields a newer node has added
    cut,     \* whether the bytes end early
    size,    \* what __get_packed_size returned: the size of the buffer
    wire,    \* the bytes
    memory,  \* what the receiver's allocator can satisfy
    got,     \* what __unpack returned
    heap     \* the receiver's heap

vars == <<phase, sent, extra, cut, size, wire, memory, got, heap>>

desc == sent[1].desc
Untouched == Len(sent) = 1 /\ extra = <<>> /\ ~cut

Init ==
    /\ phase = "filled"
    /\ sent \in {<<m>> : m \in Sent}
    /\ extra = <<>> /\ cut = FALSE
    /\ size = 0 /\ wire = <<>>
    /\ memory \in Memory
    /\ got = <<>>
    /\ heap = Heap(memory)

Pack ==
    /\ phase = "filled"
    /\ phase' = "packed"
    /\ size' = protobuf_c_message_get_packed_size(sent[1])
    /\ wire' = protobuf_c_message_pack(sent[1])
    /\ UNCHANGED <<sent, extra, cut, memory, got, heap>>

(* The sender gives more of the message: a second part. *)
Again ==
    /\ phase = "packed" /\ Untouched
    /\ \E m \in Later(sent[1]) :
          /\ sent' = Append(sent, m)
          /\ wire' = wire \o protobuf_c_message_pack(m)
    /\ UNCHANGED <<phase, extra, cut, size, memory, got, heap>>

(* The sender is newer than the receiver's descriptors. *)
Newer ==
    /\ phase = "packed" /\ Untouched
    /\ \E u \in NewFields :
          /\ extra' = <<u>>
          /\ wire' = wire \o unknown_field_pack(u)
    /\ UNCHANGED <<phase, sent, cut, size, memory, got, heap>>

(* The bytes end after the first n.  Only with memory for all of it: what a
   full heap does shows on whole messages. *)
Cut ==
    /\ phase = "packed" /\ ~cut /\ memory = Plenty
    /\ \E n \in 0 .. Len(wire) - 1 : wire' = SubSeq(wire, 1, n)
    /\ cut' = TRUE
    /\ UNCHANGED <<phase, sent, extra, size, memory, got, heap>>

(* What __unpack returns, and the heap after it. *)
Unpacked == protobuf_c_message_unpack[<<desc, wire, heap>>]

Unpack ==
    /\ phase = "packed"
    /\ phase' = "unpacked"
    /\ \E r \in {Unpacked} : got' = r.msg /\ heap' = r.h
    /\ UNCHANGED <<sent, extra, cut, size, wire, memory>>

Free ==
    /\ phase = "unpacked" /\ got # <<>>
    /\ phase' = "freed"
    /\ heap' = protobuf_c_message_free_unpacked(got[1], heap)
    /\ UNCHANGED <<sent, extra, cut, size, wire, memory, got>>

Next == Pack \/ Again \/ Newer \/ Cut \/ Unpack \/ Free

Spec == Init /\ [][Next]_vars

-----------------------------------------------------------------------------
(* Reference definitions *)

(* The place of the field with a number, by looking at every field. *)
FieldOf(d, id) ==
    LET places == {i \in 1 .. Len(d.fields) : d.fields[i].id = id}
    IN  IF places = {} THEN 0 ELSE CHOOSE i \in places : TRUE

(* What two parts of a message amount to, as the comment on merge_messages
   says: the last value counts, embedded messages are merged and repeated
   fields concatenated. *)
Combined(m1, m2) ==
    LET combined[x \in Within(m1), y \in Within(m2)] ==
            LET both(f) ==
                    LET a == x.val[f.name]
                        b == y.val[f.name]
                    IN  IF f.label = "repeated" THEN a \o b
                        ELSE IF f.type = "MESSAGE" /\ a # <<>> /\ b # <<>>
                             THEN <<combined[a[1], b[1]]>>
                        ELSE IF b # <<>> THEN b
                        ELSE a
                fields == Range(Schema[x.desc].fields)
            IN  [x EXCEPT !.val = [n \in DOMAIN x.val |->
                                      both(CHOOSE f \in fields : f.name = n)]]
    IN  combined[m1, m2]

(* Every optional field of bytes in an embedded message of m1 is in those of
   the same kind in m2 too. *)
BytesGivenAgain(m1, m2) ==
    \A x \in Within(m1) \ {m1}, y \in Within(m2) \ {m2} : x.desc = y.desc =>
        \A f \in Range(Schema[x.desc].fields) :
            f.type = "BYTES" /\ f.label = "optional" =>
                x.val[f.name] = <<>> \/ y.val[f.name] # <<>>

(* Every required field of a message and of those in it has a value, its
   default if there is one. *)
IsComplete(m) ==
    \A x \in Within(m) : \A f \in Range(Schema[x.desc].fields) :
        f.label = "required" /\ f.default = <<>> => x.val[f.name] # <<>>

-----------------------------------------------------------------------------
(* Properties *)

(* The buffer allocated for a message (riack_commands.c:242) is exactly as
   large as what pack writes into it: two independent computations, one
   by the thresholds of the sizes and one by the bytes. *)
SizeIsExact == phase = "packed" /\ Untouched => Len(wire) = size

(* A message arrives as it was sent, every field and every value, whenever
   there is memory for it. *)
RoundTrip ==
    phase = "unpacked" /\ Untouched =>
        /\ got # <<>> => got = sent
        /\ memory = Plenty => got # <<>>

(* A message that is accepted accounts for every byte: packed again it gives
   the bytes it came from, the fields of a newer node included.  So no value
   is taken from a member that was cut short. *)
AcceptedIsWhole ==
    phase = "unpacked" /\ got # <<>> /\ Len(sent) = 1 => protobuf_c_message_pack(got[1]) = wire

(* No message is handed to a callback without its required fields, which the
   callbacks of riack read unconditionally (riack.c:349, riack_kv.c:302). *)
RequiredThere == phase = "unpacked" /\ got # <<>> => IsComplete(got[1])

(* The fields of a message may come in parts, and amount to what the comment
   on merge_messages (protobuf-c.c:1893-1900) promises.  The code does not
   keep that promise for the optional bytes of embedded messages: it forgets
   those the later part does not have (protobuf-c.c:2002-2008). *)
GivenTwice ==
    phase = "unpacked" /\ Len(sent) = 2 /\ ~cut /\ got # <<>> =>
        got[1] = Combined(sent[1], sent[2])

(* Where those bytes are given again the promise is kept, for every kind of
   field at every depth, whenever there is memory for it. *)
PartsMerged ==
    /\ phase = "unpacked" /\ Len(sent) = 2 /\ ~cut
    /\ BytesGivenAgain(sent[1], sent[2])
    => /\ got # <<>> => got[1] = Combined(sent[1], sent[2])
       /\ memory = Plenty => got # <<>>

(* Wherever the bytes end and whichever allocation fails, a failed unpack
   leaves nothing behind, and nothing is freed through an unset pointer; what
   a successful one allocated is what free_unpacked releases.  No value is
   taken from after the end of the bytes. *)
NothingLost ==
    /\ ~heap.crashed /\ ~heap.beyond
    /\ phase = "unpacked" /\ got = <<>> => heap.live = 0
    /\ phase = "freed" => heap.live = 0

(* The binary search over the ranges finds the field of every number, and
   none for the numbers between the ranges. *)
FieldFound ==
    phase = "filled" =>
        LET d == Schema[desc]
        IN  \A id \in 0 .. 70 : int_range_lookup(d.ranges, id) = FieldOf(d, id)
=============================================================================
