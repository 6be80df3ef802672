--------------------------- MODULE ProtobufUnpack ---------------------------
(***************************************************************************)
(* protobuf_c_message_unpack, protobuf_c_message_free_unpacked and what    *)
(* they call.  Unpacking scans all members first, to know how many values  *)
(* each repeated field gets; then it allocates the arrays, checks that     *)
(* every required field was there, and parses the members one by one.  It  *)
(* can fail at each allocation and on each member, and must then free      *)
(* exactly what it has built.                                              *)
(***************************************************************************)
EXTENDS ProtobufWire

-----------------------------------------------------------------------------
(* The allocator.  An allocation that fails leaves the heap as it is.
   beyond: a value is taken from after the end of the bytes.  What that gives
   is not modelled: the member counts as one that cannot be parsed, and
   nothing is claimed of what the call does from there on. *)

Heaps == [live : Int, left : Nat, crashed : BOOLEAN, beyond : BOOLEAN]
Heap(left) == [live |-> 0, left |-> left, crashed |-> FALSE, beyond |-> FALSE]
CanAlloc(h) == h.left > 0
do_alloc(h) == [h EXCEPT !.live = @ + 1, !.left = @ - 1]
do_free(h, blocks) == [h EXCEPT !.live = @ - blocks]
Beyond(h) == [h EXCEPT !.beyond = TRUE]

-----------------------------------------------------------------------------
(* What a message holds *)

(* Empty bytes are a NULL pointer. *)
DataBlocks(f, v) == IF f.type = "STRING" \/ (f.type = "BYTES" /\ v # <<>>) THEN 1 ELSE 0

(* What protobuf_c_message_free_unpacked releases: the structure, what its
   fields point to, the arrays of its repeated fields, the unknown fields and
   their array.  blocks is how much that is for the messages in this one. *)
FieldBlocks(blocks, f, s) ==
    SumFunction([i \in 1 .. Len(s) |->
                    IF f.type = "MESSAGE" THEN blocks[s[i]] ELSE DataBlocks(f, s[i])])
    + (IF f.label = "repeated" /\ s # <<>> THEN 1 ELSE 0)

Blocks(m) ==
    LET blocks[x \in Within(m)] ==
            1 + SumFunction([f \in Range(Schema[x.desc].fields) |->
                                FieldBlocks(blocks, f, x.val[f.name])])
              + (IF x.unknown = <<>> THEN 0 ELSE 1 + Len(x.unknown))
    IN  blocks[m]

protobuf_c_message_free_unpacked(m, h) == do_free(h, Blocks(m))

protobuf_c_message_init(name) ==
    [desc |-> name, unknown |-> <<>>,
     val |-> [n \in {f.name : f \in Range(Schema[name].fields)} |-> <<>>]]

-----------------------------------------------------------------------------
(* Merging an earlier value of an embedded message into a later one.  A
   state of it: the two messages, the heap and whether it may go on. *)

(* Mutant: a value of the later message is not looked for. *)
NeedToMerge_always(f, e, l) == e # <<>>

(* The other optional fields are kept when the earlier message has them and
   the later not.  Bytes are only kept when the field has a default value,
   but then also when the later ones are empty: empty bytes are a NULL
   pointer. *)
NeedToMerge(f, e, l) ==
    /\ e # <<>>
    /\ IF f.type = "BYTES"
       THEN f.default # <<>> /\ e[1] # <<>> /\ l \in {<<>>, <<<<>>>>}
       ELSE l = <<>>

(* One field of merge_messages: what is moved is cleared in the earlier
   message, which is freed afterwards. *)
Moved(s, f, both, h) ==
    [s EXCEPT !.earlier.val[f.name] = <<>>, !.latter.val[f.name] = both, !.h = h]

MergedInside(s, f, sub) ==
    [s EXCEPT !.earlier.val[f.name] = <<sub.earlier>>, !.latter.val[f.name] = <<sub.latter>>,
              !.h = sub.h, !.ok = sub.ok]

(* merge merges the messages within these two. *)
MergeField(merge, s, f) ==
    LET e == s.earlier.val[f.name]
        l == s.latter.val[f.name]
    IN  IF ~s.ok THEN s
        ELSE IF f.label = "repeated" \/ f.type = "MESSAGE"
             THEN IF e = <<>> THEN s
                  ELSE IF l = <<>> THEN Moved(s, f, e, s.h)
                  ELSE IF f.label # "repeated"
                       THEN MergedInside(s, f, merge[<<e[1], l[1], s.h>>])
                  ELSE IF CanAlloc(s.h) THEN Moved(s, f, e \o l, do_free(do_alloc(s.h), 2))
                  ELSE [s EXCEPT !.ok = FALSE]
        ELSE IF f.label = "optional" /\ NeedToMerge(f, e, l) THEN Moved(s, f, e, s.h)
        ELSE s

(* One field after the other. *)
MergeFields(merge, e, l, h) ==
    LET fields == Schema[l.desc].fields
        merged[i \in 0 .. Len(fields)] ==
            IF i = 0 THEN [earlier |-> e, latter |-> l, h |-> h, ok |-> TRUE]
            ELSE MergeField(merge, merged[i - 1], fields[i])
    IN  merged[Len(fields)]

merge_messages(earlier, latter, h) ==
    LET pairs == {c \in Within(earlier) \X Within(latter) \X Heaps : c[1].desc = c[2].desc}
        merge[c \in pairs] == MergeFields(merge, c[1], c[2], c[3])
    IN  merge[<<earlier, latter, h>>]

-----------------------------------------------------------------------------
(* Values from the bytes of a member; pref is the length of the prefix that
   gives its length. *)

parse_scalar(type, data) ==
    CASE type \in {"INT32", "UINT32", "ENUM"} -> parse_uint32(data)
      [] type = "SINT32" -> unzigzag(parse_uint32(data), 32)
      [] type \in {"INT64", "UINT64"} -> parse_uint64(data)
      [] type = "SINT64" -> unzigzag(parse_uint64(data), 64)
      [] type \in Fixed32 -> parse_fixed(data, 4)
      [] type \in Fixed64 -> parse_fixed(data, 8)
      [] type = "BOOL" -> parse_boolean(data)

(* n + v in 32 bits, for n < 8: what wraps are the last eight words. *)
Sum32(n, v) ==
    LET low == n + Num(v \cap 0 .. 2)
    IN  IF 3 .. 31 \subseteq v /\ low >= 8 THEN low - 8 ELSE n + Num(v)

(* The length of the prefix and of prefix and data together; 0 when the
   prefix does not end, or announces more than there is.  The sum is one of
   32 bits: when it wraps it is less than the prefix alone. *)
scan_length_prefixed_data(data) ==
    LET hdr_len == VarintLen(data, 5)
        sum == Sum32(hdr_len, parse_uint32(SubSeq(data, 1, hdr_len)))
    IN  IF hdr_len = 0 \/ sum > Len(data) THEN [len |-> 0, pref |-> 0]
        ELSE [len |-> sum, pref |-> hdr_len]

(* What is left of the member after its prefix is less than nothing, which as
   an unsigned size is far more than there is. *)
Wrapped(mem) == mem.pref > Len(mem.data)

(* How many bytes a varint or a fixed-size value at the start of data takes. *)
PackedLen(type, data) ==
    CASE type \in Fixed32 -> 4
      [] type \in Fixed64 -> 8
      [] type = "BOOL" -> 1
      [] OTHER -> scan_varint(data)

(* The number of values in a packed run, before they are looked at; -1 when
   it cannot be one. *)
count_packed_elements(type, data) ==
    CASE type \in Fixed32 -> IF Len(data) % 4 = 0 THEN Len(data) \div 4 ELSE -1
      [] type \in Fixed64 -> IF Len(data) % 8 = 0 THEN Len(data) \div 8 ELSE -1
      [] type = "BOOL" -> Len(data)
      [] type \in LengthPrefixed -> -1
      [] OTHER -> Cardinality({i \in 1 .. Len(data) : 7 \notin data[i]})

(* The values of a packed run after those before it, or ok = FALSE at the
   first that is none; run is what there is from a byte on. *)
parse_packed_repeated_member(type, data, values) ==
    LET run[at \in 0 .. Len(data)] ==
            LET rest == SubSeq(data, at + 1, Len(data))
                s == PackedLen(type, rest)
                v == SubSeq(rest, 1, s)
                before(r) == [r EXCEPT !.values = <<parse_scalar(type, v)>> \o @]
            IN  IF rest = <<>> THEN [ok |-> TRUE, values |-> <<>>]
                ELSE IF s \notin 1 .. Len(rest) \/ (type = "BOOL" /\ ~Below(v[1], 1))
                     THEN [ok |-> FALSE, values |-> <<>>]
                ELSE before(run[at + s])
    IN  [run[0] EXCEPT !.values = values \o @]

-----------------------------------------------------------------------------
(* First pass: the members of a message.  A state of the scan: the members so
   far, the field of the member before (the next is often the same), which
   fields were seen, how many values each repeated field gets, how many
   members no field has, how many slabs of members were allocated (the first
   sixteen are on the stack, each slab is twice the one before), the heap, and
   whether it may go on. *)

(* How many bytes the value of a member takes; 0 when there are not enough,
   or the wire type is none. *)
MemberLen(wiretype, data) ==
    CASE wiretype = WIRE_TYPE_VARINT ->
             [len |-> VarintLen(data, 10), pref |-> 0]
      [] wiretype = WIRE_TYPE_64BIT ->
             [len |-> IF Len(data) < 8 THEN 0 ELSE 8, pref |-> 0]
      [] wiretype = WIRE_TYPE_LENGTH_PREFIXED -> scan_length_prefixed_data(data)
      [] wiretype = WIRE_TYPE_32BIT ->
             [len |-> IF Len(data) < 4 THEN 0 ELSE 4, pref |-> 0]
      [] OTHER -> [len |-> 0, pref |-> 0]

(* The member at the start of rest and how many bytes it takes: 0 when it
   does not end. *)
MemberAt(rest) ==
    LET t == parse_tag_and_wiretype(rest)
        at == SubSeq(rest, t.used + 1, Len(rest))
        value == MemberLen(t.wiretype, at)
        member(v) == [field |-> 0, tag |-> Num(t.tag), wiretype |-> t.wiretype,
                      data |-> SubSeq(at, 1, v.len), pref |-> v.pref,
                      size |-> IF v.len = 0 THEN 0 ELSE t.used + v.len]
    IN  member(IF t.used = 0 THEN [len |-> 0, pref |-> 0] ELSE value)

(* The members of data, up to the first that does not end. *)
Members(data) ==
    LET from[at \in 0 .. Len(data)] ==
            LET then(mem) == <<mem>> \o (IF mem.size = 0 THEN <<>> ELSE from[at + mem.size])
            IN  IF at = Len(data) THEN <<>>
                ELSE then(MemberAt(SubSeq(data, at + 1, Len(data))))
    IN  from[0]

SlabsFull(s) == Len(s.members) = 16 * (2 ^ (s.slabs + 1) - 1)

IsPackedRun(f, wiretype) ==
    wiretype = WIRE_TYPE_LENGTH_PREFIXED /\ (f.packed \/ is_packable_type(f.type))

FieldOfTag(d, s, tag) ==
    IF s.last # 0 /\ d.fields[s.last].id = tag THEN s.last
    ELSE int_range_lookup(d.ranges, tag)

(* How many values a member adds to its field; -2 for a packed run whose
   count takes, now or when it is parsed, bytes after the end. *)
CountOf(d, mem) ==
    LET f == d.fields[mem.field]
    IN  IF mem.field = 0 \/ f.label # "repeated" THEN 0
        ELSE IF IsPackedRun(f, mem.wiretype)
             THEN IF Wrapped(mem) THEN -2
                  ELSE count_packed_elements(f.type, SubSeq(mem.data, mem.pref + 1, Len(mem.data)))
        ELSE 1

(* A slab for the member when the last is full, and the member in it. *)
AddMember(s, mem, count) ==
    LET grown == IF SlabsFull(s) THEN [s EXCEPT !.h = do_alloc(@), !.slabs = @ + 1] ELSE s
    IN  IF SlabsFull(s) /\ ~CanAlloc(s.h) THEN [s EXCEPT !.ok = FALSE]
        ELSE IF count = -1 THEN [grown EXCEPT !.ok = FALSE]
        ELSE IF count = -2 THEN [grown EXCEPT !.ok = FALSE, !.h = Beyond(@)]
        ELSE [grown EXCEPT
                !.members = Append(@, mem),
                !.last = IF mem.field = 0 THEN @ ELSE mem.field,
                !.seen = @ \cup {mem.field},
                !.unknown = @ + (IF mem.field = 0 THEN 1 ELSE 0),
                !.n = IF mem.field = 0 THEN @ ELSE [s.n EXCEPT ![mem.field] = @ + count]]

ScanMember(d, s, mem) ==
    LET added(found) == AddMember(s, found, CountOf(d, found))
    IN  IF ~s.ok THEN s
        ELSE IF mem.size = 0 THEN [s EXCEPT !.ok = FALSE]
        ELSE added([mem EXCEPT !.field = FieldOfTag(d, s, mem.tag)])

Scan(d, s, members) ==
    LET scan[i \in 0 .. Len(members)] ==
            IF i = 0 THEN s ELSE ScanMember(d, scan[i - 1], members[i])
    IN  scan[Len(members)]

(* Mutants: required fields are not looked for; the counts of the fields that
   were not reached stay (CLEAR_REMAINING_N_PTRS). *)
AllocArrays_not_required(d, s) ==
    LET first == [ok |-> TRUE, n |-> s.n, arrays |-> {}, h |-> s.h]
        next(a, i) ==
            IF ~a.ok THEN [a EXCEPT !.n[i] = 0]
            ELSE IF d.fields[i].label = "repeated" /\ a.n[i] # 0
                 THEN [a EXCEPT !.n[i] = 0, !.arrays = @ \cup {i},
                                !.h = IF CanAlloc(a.h) THEN do_alloc(@) ELSE @,
                                !.ok = CanAlloc(a.h)]
            ELSE a
        alloc[i \in 0 .. Len(d.fields)] == IF i = 0 THEN first ELSE next(alloc[i - 1], i)
    IN  alloc[Len(d.fields)]

AllocArrays_counts_left(d, s) ==
    LET first == [ok |-> TRUE, n |-> s.n, arrays |-> {}, h |-> s.h]
        next(a, i) ==
            IF ~a.ok THEN a
            ELSE IF d.fields[i].label = "repeated" /\ a.n[i] # 0
                 THEN IF CanAlloc(a.h)
                      THEN [a EXCEPT !.n[i] = 0, !.h = do_alloc(@), !.arrays = @ \cup {i}]
                      ELSE [a EXCEPT !.ok = FALSE]
            ELSE IF d.fields[i].label = "required" /\ i \notin s.seen
                 THEN [a EXCEPT !.ok = FALSE]
            ELSE a
        alloc[i \in 0 .. Len(d.fields)] == IF i = 0 THEN first ELSE next(alloc[i - 1], i)
    IN  alloc[Len(d.fields)]

(* Second pass: an array for each repeated field that has values.  The
   counts become 0, and grow again as values are parsed; those of the fields
   that were not reached are cleared. *)
AllocArrays(d, s) ==
    LET first == [ok |-> TRUE, n |-> s.n, arrays |-> {}, h |-> s.h]
        next(a, i) ==
            IF ~a.ok THEN [a EXCEPT !.n[i] = 0]
            ELSE IF d.fields[i].label = "repeated" /\ a.n[i] # 0
                 THEN IF CanAlloc(a.h)
                      THEN [a EXCEPT !.n[i] = 0, !.h = do_alloc(@), !.arrays = @ \cup {i}]
                      ELSE [a EXCEPT !.n[i] = 0, !.ok = FALSE]
            ELSE IF /\ d.fields[i].label = "required"
                    /\ d.fields[i].default = <<>>
                    /\ i \notin s.seen
                 THEN [a EXCEPT !.ok = FALSE]
            ELSE a
        alloc[i \in 0 .. Len(d.fields)] == IF i = 0 THEN first ELSE next(alloc[i - 1], i)
    IN  alloc[Len(d.fields)]

-----------------------------------------------------------------------------
(* Third pass: the values.  cur is what the field holds so far: a field that
   is not repeated may come again, and the last value counts. *)

(* What the field holds once unpacking has returned u: the message it held
   before is merged into the new one, if there is one, and freed; m is what
   merging has left. *)
Replaced(m) ==
    [ok |-> m.ok, cur |-> m.latter, h |-> protobuf_c_message_free_unpacked(m.earlier, m.h)]

Joined(cur, u) ==
    IF cur = <<>> THEN [ok |-> u.msg # <<>>, cur |-> u.msg, h |-> u.h]
    ELSE Replaced(IF u.msg = <<>>
                  THEN [earlier |-> cur[1], latter |-> <<>>, h |-> u.h, ok |-> FALSE]
                  ELSE [merge_messages(cur[1], u.msg[1], u.h) EXCEPT !.latter = <<@>>])

(* unpack is protobuf_c_message_unpack for the messages within this one. *)
ParseMessage(unpack, f, body, cur, h) == Joined(cur, unpack[<<f.sub, body, h>>])

ParseBytes(f, body, cur, h) ==
    LET freed == do_free(h, IF cur = <<>> THEN 0 ELSE DataBlocks(f, cur[1]))
    IN  IF f.type = "BYTES" /\ body = <<>>
        THEN [ok |-> TRUE, cur |-> <<body>>, h |-> freed]
        ELSE IF ~CanAlloc(freed) THEN [ok |-> FALSE, cur |-> <<>>, h |-> freed]
        ELSE [ok |-> TRUE, cur |-> <<body>>, h |-> do_alloc(freed)]

parse_required_member(unpack, f, mem, cur, h) ==
    LET body == SubSeq(mem.data, mem.pref + 1, Len(mem.data))
    IN  IF f.type # "BOOL" /\ mem.wiretype # WireType(f.type)
        THEN [ok |-> FALSE, cur |-> cur, h |-> h]
        ELSE IF f.type \in LengthPrefixed /\ Wrapped(mem)
             THEN [ok |-> FALSE, cur |-> cur, h |-> Beyond(h)]
        ELSE CASE f.type = "MESSAGE" -> ParseMessage(unpack, f, body, cur, h)
               [] f.type \in {"STRING", "BYTES"} -> ParseBytes(f, body, cur, h)
               [] OTHER -> [ok |-> TRUE, cur |-> <<parse_scalar(f.type, mem.data)>>, h |-> h]

(* parse_optional_member and parse_repeated_member, which both call
   parse_required_member: a repeated field keeps the values before this one,
   any other field is cleared (maybe_clear). *)
parse_unpacked(unpack, f, mem, values, h) ==
    LET repeated == f.label = "repeated"
        added(v) == [v EXCEPT !.cur = (IF repeated THEN values ELSE <<>>) \o @]
    IN  added(parse_required_member(unpack, f, mem, IF repeated THEN <<>> ELSE values, h))

parse_packed(f, mem, values, h) ==
    LET added(run) == [ok |-> run.ok, cur |-> IF run.ok THEN run.values ELSE values, h |-> h]
    IN  added(parse_packed_repeated_member(
                  f.type, SubSeq(mem.data, mem.pref + 1, Len(mem.data)), values))

(* p: the message so far, the heap, whether it may go on, and whether there
   is an array for unknown fields. *)
parse_member(unpack, d, p, mem) ==
    LET f == d.fields[mem.field]
        values == p.msg.val[f.name]
        unknown == [tag |-> mem.tag, wiretype |-> mem.wiretype, data |-> mem.data]
        parsed(r) == [p EXCEPT !.msg.val[f.name] = r.cur, !.h = r.h, !.ok = r.ok]
    IN  IF ~p.ok THEN p
        ELSE IF mem.field = 0
             THEN IF ~CanAlloc(p.h) THEN [p EXCEPT !.ok = FALSE]
                  ELSE [p EXCEPT !.msg.unknown = Append(@, unknown), !.h = do_alloc(@)]
        ELSE parsed(IF f.label = "repeated" /\ IsPackedRun(f, mem.wiretype)
                    THEN parse_packed(f, mem, values, p.h)
                    ELSE parse_unpacked(unpack, f, mem, values, p.h))

ParseMembers(unpack, d, p, members) ==
    LET parse[i \in 0 .. Len(members)] ==
            IF i = 0 THEN p ELSE parse_member(unpack, d, parse[i - 1], members[i])
    IN  parse[Len(members)]

-----------------------------------------------------------------------------
(* The message, or <<>> for NULL, and the heap after the call. *)

Failed(h) == [msg |-> <<>>, h |-> h]

(* error_cleanup: what there is of the message is freed, the arrays that hold
   nothing yet included.  Freeing walks over as many elements of each array as
   its count says, through a NULL pointer if it has no array. *)
ErrorCleanup(d, a, p, slabs) ==
    LET empty == {i \in a.arrays : p.msg.val[d.fields[i].name] = <<>>}
        wild == \E i \in 1 .. Len(d.fields) :
                   /\ d.fields[i].label = "repeated"
                   /\ d.fields[i].type \in LengthPrefixed
                   /\ a.n[i] # 0
        unused == IF p.msg.unknown = <<>> THEN p.ufields ELSE 0
    IN  Failed([protobuf_c_message_free_unpacked(p.msg, p.h) EXCEPT
                   !.live = @ - (slabs + Cardinality(empty) + unused),
                   !.crashed = @ \/ wild])

StartScan(d, h) ==
    [members |-> <<>>, seen |-> {}, unknown |-> 0, slabs |-> 0,
     last |-> IF d.fields = <<>> THEN 0 ELSE 1,
     n |-> [i \in 1 .. Len(d.fields) |-> 0], h |-> do_alloc(h), ok |-> TRUE]

(* The empty message, with an array for the fields that have no place in it. *)
StartMessage(name, s, a) ==
    LET empty == [msg |-> protobuf_c_message_init(name), h |-> a.h, ok |-> a.ok, ufields |-> 0]
    IN  IF ~a.ok \/ s.unknown = 0 THEN empty
        ELSE IF ~CanAlloc(a.h) THEN [empty EXCEPT !.ok = FALSE]
        ELSE [empty EXCEPT !.h = do_alloc(@), !.ufields = 1]

(* s, a and p are what the passes have left. *)
Parsed(name, s, a, p) ==
    IF ~p.ok THEN ErrorCleanup(Schema[name], a, p, s.slabs)
    ELSE [msg |-> <<p.msg>>, h |-> do_free(p.h, s.slabs)]

Allocated(unpack, name, s, a) ==
    Parsed(name, s, a, ParseMembers(unpack, Schema[name], StartMessage(name, s, a), s.members))

Scanned(unpack, name, s) ==
    IF ~s.ok THEN Failed(do_free(s.h, 1 + s.slabs))
    ELSE Allocated(unpack, name, s, AllocArrays(Schema[name], s))

UnpackMessage(unpack, name, data, h) ==
    IF ~CanAlloc(h) THEN Failed(h)
    ELSE Scanned(unpack, name, Scan(Schema[name], StartScan(Schema[name], h), Members(data)))

Calls == (DOMAIN Schema) \X Seq(Byte) \X Heaps

protobuf_c_message_unpack[c \in Calls] ==
    UnpackMessage(protobuf_c_message_unpack, c[1], c[2], c[3])
=============================================================================
