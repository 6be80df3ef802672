----------------------------- MODULE RiackMemory -----------------------------
(***************************************************************************)
(* Who owns which block: what a call allocates for its request, what its   *)
(* callback copies out of the reply for the application, what the call     *)
(* frees before it returns and what the riack_free functions free later    *)
(* (riack_kv.c, riack_search.c, riack_mapreduce.c, riack.c and the copies  *)
(* and frees of riack_helpers.c).                                          *)
(*                                                                         *)
(* A block is named by its path: the call that allocated it, the structure *)
(* and the members down to it.  Of a string only the length matters, 0 or  *)
(* more: an allocation of no bytes is a NULL pointer, and freeing NULL     *)
(* does nothing (riack_mem.c).  An optional member is <<>> or <<length>>.  *)
(* Copies give the set of blocks they allocate, frees the sequence of      *)
(* pointers they release: they are written apart, as in the code, and have *)
(* to agree.                                                               *)
(*                                                                         *)
(* A command is what RequestReply says of riack_perform_commmand: it fails *)
(* without a callback, or its callback sees the reply, or the chunks of a  *)
(* stream, which may break off.                                            *)
(***************************************************************************)
EXTENDS Integers, SequencesExt

CONSTANTS
    Requests,  \* [kind, args, wanted]: the calls the application makes
    Replies,   \* [kinds -> the replies, or chunks, the node may send]
    MaxCalls,  \* bound: calls
    MaxChunks  \* bound: chunks of a stream

(* What the application passes and the node sends: every member that is repeated
   is a list.  Only the calls that need no result are made without a place for
   it; riack_put_simple has none.  The reply to a get names no key, and each chunk
   of a map/reduce has one result. *)
IsList(s) == Len(s) \in Nat /\ s = [i \in 1 .. Len(s) |-> s[i]]

Content(c) == IsList(c.links) /\ IsList(c.usermeta) /\ IsList(c.indexes)

Object(o) == IsList(o.content) /\ \A i \in 1 .. Len(o.content) : Content(o.content[i])

NeedsNoResult == {"put", "put_simple", "delete", "set_props"}

RequestOK(kind, args, wanted) ==
    CASE kind = "put" -> Content(args.content)
      [] kind = "put_simple" -> ~wanted /\ Content(args.content)
      [] kind = "search" -> IsList(args.fl)
      [] kind = "set_props" -> IsList(args.precommit) /\ IsList(args.postcommit)
      [] OTHER -> TRUE

ReplyOK(kind, reply) ==
    CASE kind = "get" -> Object(reply) /\ reply.key = <<>>
      [] kind = "put" -> Object(reply)
      [] kind = "search" -> IsList(reply) /\ \A i \in 1 .. Len(reply) : IsList(reply[i])
      [] kind \in {"list_buckets", "list_keys"} -> IsList(reply)
      [] kind = "map_reduce" -> reply = <<reply[1]>>
      [] OTHER -> TRUE

ASSUME MemoryAssumption ==
    /\ MaxCalls \in Nat /\ MaxChunks \in Nat
    /\ DOMAIN Replies \subseteq
           NeedsNoResult \cup {"get", "search", "list_buckets", "list_keys", "map_reduce",
                              "get_clientid", "server_info"}
    /\ \A r \in Requests :
          /\ r.kind \in DOMAIN Replies /\ r.wanted \in BOOLEAN
          /\ r.wanted \/ r.kind \in NeedsNoResult
          /\ RequestOK(r.kind, r.args, r.wanted)
    /\ \A kind \in DOMAIN Replies : \A reply \in Replies[kind] : ReplyOK(kind, reply)

-----------------------------------------------------------------------------
(* Blocks and pointers *)

Block(p, len) == IF len > 0 THEN {p} ELSE {}
OptBlock(p, opt) == IF opt = <<>> THEN {} ELSE Block(p, opt[1])
Ptr(p, len) == IF len > 0 THEN <<p>> ELSE <<>>
OptPtr(p, opt) == IF opt = <<>> THEN <<>> ELSE Ptr(p, opt[1])

(* A block of n structures, and one of n pointers to blocks. *)
Array(p, s, copy(_, _)) ==
    IF s = <<>> THEN {} ELSE {p} \cup UNION {copy(s[i], Append(p, i)) : i \in 1 .. Len(s)}
PtrArray(p, s, copy(_, _)) == Array(p, s, LAMBDA v, q : {q} \cup copy(v, q))

(* Their frees, the elements first. *)
FreeArray(p, s, free(_, _)) ==
    IF s = <<>> THEN <<>>
    ELSE Append(FlattenSeq([i \in 1 .. Len(s) |-> free(s[i], Append(p, i))]), p)
FreePtrArray(p, s, free(_, _)) == FreeArray(p, s, LAMBDA v, q : Append(free(v, q), q))

-----------------------------------------------------------------------------
(* From the application to a request.  A pair has a key and an optional
   value, a link three optional strings, a content its texts, its data and
   the three lists. *)

Texts == <<"charset", "content_encoding", "content_type", "vtag">>
LinkTexts == <<"bucket", "key", "tag">>

TextBlocks(names, s, p) == UNION {OptBlock(Append(p, names[i]), s[names[i]]) : i \in 1 .. Len(names)}
TextPtrs(names, s, p) ==
    FlattenSeq([i \in 1 .. Len(names) |-> OptPtr(Append(p, names[i]), s[names[i]])])

riack_copy_pair_to_rpbpair(pair, p) ==
    Block(Append(p, "key"), pair.key) \cup OptBlock(Append(p, "value"), pair.value)

riack_copy_link_to_rpblink(link, p) == TextBlocks(LinkTexts, link, p)

riack_copy_content_to_rpbcontent(c, p) ==
    TextBlocks(Texts, c, p)
    \cup Block(Append(p, "data"), c.data)
    \cup PtrArray(Append(p, "links"), c.links, riack_copy_link_to_rpblink)
    \cup PtrArray(Append(p, "usermeta"), c.usermeta, riack_copy_pair_to_rpbpair)
    \cup PtrArray(Append(p, "indexes"), c.indexes, riack_copy_pair_to_rpbpair)

(* Only the first content of an object is sent. *)
riack_copy_object_to_rpbputreq(o, p) ==
    {Append(p, "content")}
    \cup riack_copy_content_to_rpbcontent(o.content, Append(p, "content"))
    \cup Block(Append(p, "bucket"), o.bucket)
    \cup OptBlock(Append(p, "key"), o.key)
    \cup OptBlock(Append(p, "vclock"), o.vclock)

riack_free_copied_rpb_pair(pair, p) ==
    Ptr(Append(p, "key"), pair.key) \o OptPtr(Append(p, "value"), pair.value)

riack_free_copied_rpb_link(link, p) == TextPtrs(LinkTexts, link, p)

(* Mutant: one member is forgotten. *)
riack_free_copied_rpb_content_but_vtag(c, p) ==
    TextPtrs(<<"charset", "content_encoding", "content_type">>, c, p)
    \o Ptr(Append(p, "data"), c.data)
    \o FreePtrArray(Append(p, "indexes"), c.indexes, riack_free_copied_rpb_pair)
    \o FreePtrArray(Append(p, "usermeta"), c.usermeta, riack_free_copied_rpb_pair)
    \o FreePtrArray(Append(p, "links"), c.links, riack_free_copied_rpb_link)

riack_free_copied_rpb_content(c, p) ==
    TextPtrs(Texts, c, p)
    \o Ptr(Append(p, "data"), c.data)
    \o FreePtrArray(Append(p, "indexes"), c.indexes, riack_free_copied_rpb_pair)
    \o FreePtrArray(Append(p, "usermeta"), c.usermeta, riack_free_copied_rpb_pair)
    \o FreePtrArray(Append(p, "links"), c.links, riack_free_copied_rpb_link)

riack_free_copied_rpb_put_req(o, p) ==
    Ptr(Append(p, "bucket"), o.bucket)
    \o OptPtr(Append(p, "vclock"), o.vclock)
    \o OptPtr(Append(p, "key"), o.key)
    \o riack_free_copied_rpb_content(o.content, Append(p, "content"))
    \o <<Append(p, "content")>>

SearchTexts == <<"df", "op", "filter", "presort", "sort">>

riack_set_optional_search_properties_on_req(props, p) ==
    TextBlocks(SearchTexts, props, p)
    \cup Array(Append(p, "fl"), props.fl, LAMBDA len, q : Block(q, len))

ModFunBlocks(f, p) ==
    IF f = <<>> THEN {}
    ELSE {p} \cup Block(Append(p, "function"), f[1].function)
             \cup Block(Append(p, "module"), f[1].module)

(* A hook has a name, or else a function of a module. *)
riack_hooks_to_rpb_hooks(hooks, p) ==
    PtrArray(p, hooks, LAMBDA hook, q :
        IF hook.name > 0 THEN {Append(q, "name")}
        ELSE ModFunBlocks(<<hook.modfun>>, Append(q, "modfun")))

riack_set_rpb_bucket_props(props, p) ==
    TextBlocks(<<"backend", "search_index", "datatype">>, props, p)
    \cup ModFunBlocks(props.chash_keyfun, Append(p, "chash_keyfun"))
    \cup ModFunBlocks(props.linkfun, Append(p, "linkfun"))
    \cup riack_hooks_to_rpb_hooks(props.precommit, Append(p, "precommit"))
    \cup riack_hooks_to_rpb_hooks(props.postcommit, Append(p, "postcommit"))

-----------------------------------------------------------------------------
(* From a reply to the application *)

riack_copy_rpbpair_to_pair(pair, p) ==
    Block(Append(p, "key"), pair.key) \cup OptBlock(Append(p, "value"), pair.value)

riack_copy_rpblink_to_link(link, p) == TextBlocks(LinkTexts, link, p)

riack_copy_rpbcontent_to_content(c, p) ==
    TextBlocks(Texts, c, p)
    \cup Block(Append(p, "data"), c.data)
    \cup Array(Append(p, "indexes"), c.indexes, riack_copy_rpbpair_to_pair)
    \cup Array(Append(p, "usermetas"), c.usermeta, riack_copy_rpbpair_to_pair)
    \cup Array(Append(p, "links"), c.links, riack_copy_rpblink_to_link)

riak_set_object_response_values(o, p) ==
    OptBlock(Append(p, "key"), o.key)
    \cup OptBlock(Append(p, "vclock"), o.vclock)
    \cup Array(Append(p, "content"), o.content, riack_copy_rpbcontent_to_content)

(* The reply to a get has no key. *)
riak_set_object_response_values_get(o, p) ==
    OptBlock(Append(p, "vclock"), o.vclock)
    \cup Array(Append(p, "content"), o.content, riack_copy_rpbcontent_to_content)

riack_copy_rpbsearchdoc_to_searchdoc(doc, p) ==
    Array(Append(p, "fields"), doc, riack_copy_rpbpair_to_pair)

riack_set_search_result_from_response(docs, p) ==
    {p} \cup Array(Append(p, "documents"), docs, riack_copy_rpbsearchdoc_to_searchdoc)

riack_list_buckets_ext_cb(strings, p) ==
    Array(Append(p, "strings"), strings, LAMBDA len, q : Block(q, len))

riack_string_alloc(len, p) == {p} \cup Block(Append(p, "value"), len)

(* The pair of them is a block of its own, for the length of the call. *)
riack_server_info_cb(info, p, n) ==
    {<<n, "server_info">>} \cup
    UNION {IF info[m] = <<>> THEN {} ELSE riack_string_alloc(info[m][1], Append(p, m)) :
           m \in {"node", "server_version"}}

(* The node of a linked list and its string, at the end of the list. *)
riack_string_linked_list_add(len, p) == {p} \cup Block(Append(p, "value"), len)

(* Mutant: the data is the reply's own, which is freed after the callback. *)
riack_copy_strmapred_to_mapred_linked(data, p) == {p}

riack_copy_strmapred_to_mapred(data, p) == {p} \cup OptBlock(Append(p, "data"), data)

-----------------------------------------------------------------------------
(* The frees of the application *)

riack_free_copied_pair(pair, p) ==
    Ptr(Append(p, "key"), pair.key) \o OptPtr(Append(p, "value"), pair.value)

riack_free_copied_link(link, p) == TextPtrs(LinkTexts, link, p)

riack_free_content(c, p) ==
    TextPtrs(Texts, c, p)
    \o Ptr(Append(p, "data"), c.data)
    \o FreeArray(Append(p, "indexes"), c.indexes, riack_free_copied_pair)
    \o FreeArray(Append(p, "usermetas"), c.usermeta, riack_free_copied_pair)
    \o FreeArray(Append(p, "links"), c.links, riack_free_copied_link)

riack_free_object(o, p) ==
    OptPtr(Append(p, "key"), o.key)
    \o OptPtr(Append(p, "vclock"), o.vclock)
    \o FreeArray(Append(p, "content"), o.content, riack_free_content)

riack_free_search_document(doc, p) ==
    FreeArray(Append(p, "fields"), doc, riack_free_copied_pair)

riack_free_search_result_p(docs, p) ==
    Append(FreeArray(Append(p, "documents"), docs, riack_free_search_document), p)

riack_free_string_list_p(strings, p) ==
    Append(FreeArray(Append(p, "strings"), strings, LAMBDA len, q : Ptr(q, len)), p)

riack_free_string_p(len, p) == Append(Ptr(Append(p, "value"), len), p)

riack_free_string_linked_list_p(strings, p) ==
    FlattenSeq([i \in 1 .. Len(strings) |-> riack_free_string_p(strings[i], Append(p, i))])

riack_free_mapred_result(results, p) ==
    FlattenSeq([i \in 1 .. Len(results) |->
                  Append(OptPtr(Append(p, i) \o <<"data">>, results[i]), Append(p, i))])

(* The two strings of riack_server_info are freed one by one. *)
ServerInfoPtrs(info, p) ==
    FlattenSeq([i \in 1 .. 2 |->
        LET n == <<"node", "server_version">>[i]
        IN  IF info[n] = <<>> THEN <<>> ELSE riack_free_string_p(info[n][1], Append(p, n))])

-----------------------------------------------------------------------------
(* The calls *)

Streams == {"list_keys", "map_reduce"}
WithoutReply == {"delete", "set_props"}

(* The buffer the request is packed into, if there is something to pack. *)
WithoutData == {"get_clientid", "server_info", "list_buckets"}
Buffer(kind, n) == IF kind \in WithoutData THEN <<>> ELSE <<<<n, "buffer">>>>

(* What else a call allocates before it sends its request. *)
RequestBlocks(kind, args, n) ==
    CASE kind = "get" -> OptBlock(<<n, "if_modified">>, args)
      [] kind = "put" -> riack_copy_object_to_rpbputreq(args, <<n, "put_req">>)
      [] kind = "put_simple" ->
             {<<n, "content">>} \cup riack_copy_object_to_rpbputreq(args, <<n, "put_req">>)
      [] kind = "delete" -> OptBlock(<<n, "vclock">>, args)
      [] kind = "search" ->
             riack_set_optional_search_properties_on_req(args, <<n, "search_req">>)
      [] kind = "set_props" -> riack_set_rpb_bucket_props(args, <<n, "props">>)
      [] OTHER -> {}

(* What it frees when the command has returned; answered: its callback ran. *)
RequestPtrs(kind, args, n, answered) ==
    CASE kind = "put" -> riack_free_copied_rpb_put_req(args, <<n, "put_req">>)
      [] kind = "put_simple" ->
             Append(riack_free_copied_rpb_put_req(args, <<n, "put_req">>), <<n, "content">>)
      [] kind = "delete" -> OptPtr(<<n, "vclock">>, args)
      [] kind = "server_info" /\ answered -> <<<<n, "server_info">>>>
      [] OTHER -> <<>>

(* What the callback copies for the application; for a stream, the part from
   place i on. *)
ReplyBlocks(kind, reply, i, n) ==
    LET p == <<n, "out">>
    IN  CASE kind = "get" -> {p} \cup riak_set_object_response_values_get(reply, p)
          [] kind = "put" -> {p} \cup riak_set_object_response_values(reply, p)
          [] kind = "search" -> riack_set_search_result_from_response(reply, p)
          [] kind = "list_buckets" -> riack_list_buckets_ext_cb(reply, p)
          [] kind = "get_clientid" -> riack_string_alloc(reply, p)
          [] kind = "server_info" -> riack_server_info_cb(reply, p, n)
          [] kind = "list_keys" ->
                 UNION {riack_string_linked_list_add(reply[j], Append(p, i + j)) :
                        j \in 1 .. Len(reply)}
          [] kind = "map_reduce" ->
                 riack_copy_strmapred_to_mapred(reply[1], Append(p, i + 1))
          [] OTHER -> {}

(* What the free function of a result releases. *)
OutPtrs(kind, val, n) ==
    LET p == <<n, "out">>
    IN  CASE kind \in {"get", "put"} -> Append(riack_free_object(val, p), p)
          [] kind = "search" -> riack_free_search_result_p(val, p)
          [] kind = "list_buckets" -> riack_free_string_list_p(val, p)
          [] kind = "get_clientid" -> riack_free_string_p(val, p)
          [] kind = "server_info" -> ServerInfoPtrs(val, p)
          [] kind = "list_keys" -> riack_free_string_linked_list_p(val, p)
          [] kind = "map_reduce" -> riack_free_mapred_result(val, p)

(* The results here whose free function leaves the caller's pointer as it is;
   riack_free_bucket_properties_p does so too, see RiackBucketProps. *)
KeepsPointer == {"list_buckets", "map_reduce"}

-----------------------------------------------------------------------------
VARIABLES
    pc,      \* "idle", "sent", "returning", "undefined"
    calls,   \* how many calls there were
    cur,     \* the call that runs: a member of Requests
    chunks,  \* the chunks it has had
    out,     \* what the application's variable for each kind points to
    passed,  \* the kinds whose variable the application has passed
    owned,   \* those it has still to free
    heap,    \* the blocks that are allocated
    wild     \* the kinds that have freed or read what is not

vars == <<pc, calls, cur, chunks, out, passed, owned, heap, wild>>

Kinds == DOMAIN Replies

Init ==
    /\ pc = "idle" /\ calls = 0 /\ chunks = 0
    /\ cur \in Requests
    /\ out = [k \in Kinds |-> <<>>]
    /\ passed = {} /\ owned = {}
    /\ heap = {} /\ wild = {}

(* Releasing a sequence of pointers: each block once, and only what is there. *)
Release(ptrs, kind) ==
    /\ heap' = heap \ Range(ptrs)
    /\ wild' = IF IsInjective(ptrs) /\ Range(ptrs) \subseteq heap THEN wild
               ELSE wild \cup {kind}

Result(val) == <<[call |-> calls, val |-> val]>>

(* Up to the send: the request is copied, and what a call collects in several
   steps starts out empty, the list of buckets as a structure of its own. *)
Call ==
    /\ pc = "idle" /\ calls < MaxCalls
    /\ \E r \in Requests :
          LET n == calls + 1
              list == r.kind = "list_buckets"
          IN  /\ r.kind \notin owned
              /\ cur' = r
              /\ heap' = heap \cup RequestBlocks(r.kind, r.args, n) \cup Range(Buffer(r.kind, n))
                         \cup (IF list THEN {<<n, "out">>} ELSE {})
              /\ out' = [out EXCEPT ![r.kind] =
                            IF list THEN <<[call |-> n, val |-> <<>>]>>
                            ELSE IF r.kind \in Streams \cup {"server_info"} THEN <<>> ELSE @]
              /\ passed' = IF r.wanted THEN passed \cup {r.kind} ELSE passed
              /\ owned' = IF r.wanted THEN owned \cup {r.kind} ELSE owned
    /\ pc' = "sent" /\ calls' = calls + 1 /\ chunks' = 0
    /\ UNCHANGED wild

(* Whether the callback copies the reply: riack_put_cb only for an application
   that asked for it. *)
WritesOut(kind, wanted) == kind \notin WithoutReply /\ (kind \in {"put", "put_simple"} => wanted)

(* The one reply of a command. *)
Reply ==
    /\ pc = "sent" /\ cur.kind \notin Streams
    /\ \E reply \in Replies[cur.kind] :
          IF WritesOut(cur.kind, cur.wanted)
          THEN /\ heap' = heap \cup ReplyBlocks(cur.kind, reply, 0, calls)
               /\ out' = [out EXCEPT ![cur.kind] = Result(reply)]
          ELSE UNCHANGED <<heap, out>>
    /\ pc' = "returning"
    /\ UNCHANGED <<calls, cur, chunks, passed, owned, wild>>

(* A chunk of a stream: the callback adds what it brings to the list. *)
Chunk ==
    /\ pc = "sent" /\ cur.kind \in Streams /\ chunks < MaxChunks
    /\ \E chunk \in Replies[cur.kind], done \in BOOLEAN :
          LET had == IF out[cur.kind] = <<>> THEN <<>> ELSE out[cur.kind][1].val
          IN  /\ heap' = heap \cup ReplyBlocks(cur.kind, chunk, Len(had), calls)
              /\ out' = [out EXCEPT ![cur.kind] =
                            IF had \o chunk = <<>> THEN <<>> ELSE Result(had \o chunk)]
              /\ pc' = IF done THEN "returning" ELSE "sent"
    /\ chunks' = chunks + 1
    /\ UNCHANGED <<calls, cur, passed, owned, wild>>

(* The command fails, or a stream breaks off, before a callback that ends it.
   riack_server_info then reads a local variable nobody has set: NULL, or a
   pointer to anything. *)
Fail ==
    /\ pc = "sent"
    /\ IF cur.kind = "server_info"
       THEN \/ pc' = "returning" /\ UNCHANGED wild
            \/ pc' = "undefined" /\ wild' = wild \cup {cur.kind}
       ELSE pc' = "returning" /\ UNCHANGED wild
    /\ UNCHANGED <<calls, cur, chunks, out, passed, owned, heap>>

Return ==
    /\ pc = "returning"
    /\ Release(RequestPtrs(cur.kind, cur.args, calls, out[cur.kind] # <<>>)
                   \o Buffer(cur.kind, calls), cur.kind)
    /\ pc' = "idle"
    /\ UNCHANGED <<calls, cur, chunks, out, passed, owned>>

(* Mutant: the pointer is left to the freed block. *)
Cleared_not(kind) == out[kind]

(* The caller's pointer after a free. *)
Cleared(kind) == IF kind \in KeepsPointer THEN out[kind] ELSE <<>>

(* The application frees what it has been given, whether the call failed or
   not, and again if the pointer is cleared. *)
Free ==
    /\ pc = "idle"
    /\ \E kind \in passed :
          /\ kind \in owned \/ kind \notin KeepsPointer
          /\ IF out[kind] = <<>> THEN UNCHANGED <<heap, wild>>
             ELSE Release(OutPtrs(kind, out[kind][1].val, out[kind][1].call), kind)
          /\ out' = [out EXCEPT ![kind] = Cleared(kind)]
          /\ owned' = owned \ {kind}
    /\ UNCHANGED <<pc, calls, cur, chunks, passed>>

Next == Call \/ Reply \/ Chunk \/ Fail \/ Return \/ Free

Spec == Init /\ [][Next]_vars

-----------------------------------------------------------------------------
(* Properties *)

(* The blocks the application can free. *)
Reachable ==
    UNION {Range(OutPtrs(k, out[k][1].val, out[k][1].call)) :
           k \in {k \in owned : out[k] # <<>>}}

(* Every pointer in a result is to a block of its own that outlives the reply
   it was copied from, whether the call succeeded or not. *)
OutIsLive == Reachable \subseteq heap

(* Between calls every block is one the application can free, but for the
   requests nobody frees: the clock of a conditional get (riack_kv.c:416), the
   parameters of a search (riack_search.c:201) and the properties of a set
   (riack.c:160). *)
OnlyKnownLeaks ==
    pc = "idle" =>
        \A b \in heap \ Reachable :
            b[2] \in {"if_modified", "search_req", "props"}

(* Nothing is freed twice or through a pointer to nothing, in the library or
   by an application that frees what it was given; only riack_server_info
   follows a pointer that was never set (riack.c:272). *)
OnlyKnownWild == wild \subseteq {"server_info"}
=============================================================================
