# riack in TLA+

riack is a C client library for the Riak key/value store. One `riack_client` is
one TCP connection to one node; every API function sends one request over it and
reads the answer, which is one message or, for the streaming functions, many. A
client has no threads of its own and no locks: it belongs to the application
thread that uses it.

What makes the library hard to test is the wire. The protocol has no request
numbers, so a reply is recognised by its one-byte code alone; an answer may be cut
off by a timeout, refused in the middle, or arrive after its command has given up;
and the bytes come in any portions TCP likes. This project models that part in
detail, checks it with TLC, and proves the main results with TLAPS. Around it it
models what the messages carry (the protocol buffers runtime the repository
contains, with the descriptors of every message), and the API functions: the lists
they put together, the records they convert, the counters, and the memory they
allocate and free.

Paths below are relative to `src/src/`.

## The system

| Component | State it keeps | Operations | What is hard about it |
|---|---|---|---|
| Client and connection (`riack.c`, `riack.h`) | `sockfd`, `host`, `port`, `options`, `last_error`, `last_error_code` | `riack_new_client`, `riack_connect`, `riack_disconnect`, `riack_reconnect`, `riack_free`, `riack_got_error_response` | descriptors that leak or are closed twice; an error text that is stale or freed; `sockfd` overwritten by a failed connect |
| Command engine (`riack_commands.c`) | nothing between commands; `retval`, the received message and the callback's verdict within one | `riack_perform_commmand` with a `pb_command` record per request type | replies matched by code alone; timeouts; streams that end early; callbacks that decide whether to read on; results assembled over several messages |
| Sockets (`riack_sock.c`) | none; `offset` within a call | `sock_open`, `sock_close`, `sock_set_timeouts`, `sock_recv`, `sock_send` | partial reads and writes, EINTR, a timeout in the middle of a message |
| Messages (`riack_msg.c`) | none; the message being read | `riack_receive_message`, `riack_send_message`, `riack_message_free` | the 32-bit length (its wrap, its sign), short reads |
| Key/value API (`riack_kv.c`) | none | get, put, delete, list keys and buckets (plain and streamed), client id | lists built chunk by chunk; results allocated before the outcome is known |
| Secondary indexes (`riack_2i.c`) | the continuation token given to the caller | exact and range queries, `riack_2i_query`, `riack_2i_query_stream` | the token is reset by every message that has none; other clients change the index between two pages |
| Map/reduce (`riack_mapreduce.c`) | the chained list of results | `riack_map_reduce`, `riack_map_reduce_stream` | as for streamed keys |
| Counters (`riack_crdt.c`) | none | `riack_counter_get`, `riack_counter_increment` | an increment is not idempotent and a failed command may have been carried out |
| Search (`riack_search.c`) | none | index and schema management, `riack_search` | copies only |
| Bucket properties (`riack.c` 141-258, 290-329, 383-584) | the property record | get, set, reset | the conversion to and from protobuf: one field forgotten in one direction |
| Copies and frees (`riack_helpers.c`) | none | deep copies between protobuf and riack records, frees | ownership: leaks, double frees |
| Allocator (`riack_mem.c`) | the function table | allocate, free | an allocation of 0 bytes is NULL; the caller's own allocator may fail |
| Protocol buffers runtime (`protobuf-c/`) | none; the message being unpacked | size, pack, unpack, merge, free | sizes computed apart from the packing; bytes that end anywhere; fields unknown or given twice; allocations that fail in the middle |
| Generated messages (`protocol/*.pb-c.c`) | the descriptors | get size, pack, unpack, free of each message | numbers, labels and types must be those of the `.proto` files; sorted tables |
| Message code names (`protocol/riak_msg_codes.c`) | none | code to text | nothing |

Interaction. An API function fills a protobuf request and calls
`riack_perform_commmand(client, command, request, callback, argument)`. That packs
the request, calls `riack_send_message` (one `sock_send`), and then loops:
`riack_receive_message` (three `sock_recv`: length, code, body), compare the code
with the command's `resp_msg_code`, unpack, call the callback. The callback copies
or passes on what it was given and returns `RIACK_CMD_DONE` or
`RIACK_CMD_CONTINUE`. Any other code goes to `riack_got_error_response` and ends
the command. The state shared between two commands is the connection itself: what
has been written to it and not been read, on both sides.

Correctness, per component:

- command engine: a command is handed only messages sent in answer to itself, in
  order and complete; its result says what happened; nothing of it is left on the
  connection for the next command; it returns;
- connection: exactly one descriptor is open while connected and none otherwise;
  `last_error` is the text of the command that reports an error and is never freed
  memory;
- receiving: the messages handed up are those the node sent, whole and in order;
- sending: what the node reads is one request per call, and not the request of a
  call that failed;
- API functions: lists hold every element of the answer once; a property record
  read and written back is unchanged; what was allocated is freed once, by the
  library or by the free function of the result;
- counters: no increment that succeeded is missing and none is counted that was not
  called, whatever the application repeats;
- protocol buffers: a message arrives as it was sent or not at all; the buffer is as
  large as what is written into it; a failed unpack leaves nothing behind.

## Modules

| Module | Models | Kind |
|---|---|---|
| `RequestReply` | what `riack_perform_commmand` promises its caller | abstract specification |
| `RiackCommand` | `riack_commands.c`, the life cycle in `riack.c`, the connection, the node | detailed specification |
| `RiackOperations` | the `pb_command` records and the callback of each API function | table |
| `MCCommand` | values of `RiackCommand`'s constants | model |
| `RiackCommandProofs` | invariants of `RiackCommand`; it implements `RequestReply` | proofs |
| `RiackCounter` | `riack_crdt.c` over `RiackCommand`, the node's counter, an application that counts | composition |
| `MCCounter` | values of `RiackCounter`'s constants | model |
| `RiackCounterProofs` | the counter between what succeeded and what was called; values told never go back | proofs |
| `MessageChannel` | a FIFO of messages up to the first one torn | abstract specification |
| `RiackReceive` | `riack_receive_message`, `sock_recv` byte by byte; implements `MessageChannel` | detailed specification |
| `RiackReceiveProofs` | in step, for bodies of any size; it implements `MessageChannel` | proofs |
| `RiackSend` | `riack_send_message`, `sock_send` byte by byte | detailed specification |
| `RiackSendProofs` | what the node reads is the requests of the calls | proofs |
| `RiackListing` | listing and index queries of `riack_kv.c` and `riack_2i.c`, their lists (`riack_helpers.c`), an application that pages | component |
| `MCListing` | values of `RiackListing`'s constants | model |
| `RiackListingProofs` | order, completeness, type and memory of what is listed | proofs |
| `RiackBucketProps` | bucket properties in `riack.c`: get, set, free, both conversions | component |
| `MCBucketProps` | values of `RiackBucketProps`'s constants | model |
| `RiackBucketPropsProofs` | setting back, reading back what was set, and what is freed | proofs |
| `RiackMemory` | who owns which block: copies and frees of every call and result (`riack_helpers.c`, `riack_kv.c`, `riack_search.c`, `riack_mapreduce.c`, `riack.c`) | component |
| `MCMemory` | requests and replies for `RiackMemory` | model |
| `RiackMemoryProofs` | what is copied is freed, once, for requests and results of any size | proofs |
| `ProtobufDescriptor` | the structures of a descriptor (`protobuf-c.h`) | data |
| `ProtobufVarint` | the integers of the wire format, bit by bit | functions |
| `ProtobufWire` | sizes and packing of members and messages | functions |
| `ProtobufUnpack` | scanning, parsing, merging and freeing, on a heap that can be exhausted | functions |
| `MessageTransfer` | one message from its sender to its receiver, over the two | component |
| `RiakPb`, `RiakKvPb`, `RiakSearchPb`, `RiakDtPb`, `RiakYokozunaPb`, `RiakMessages` | the descriptors of `protocol/*.pb-c.c`, and their table | data |
| `MCTransfer` | messages of every descriptor, and bytes of other senders | model |
| `MessageTransferProofs` | integers of any value; sizes, bytes and fields of messages of any descriptor, and what unpacking any bytes leaves behind | proofs |

`RiackCommand` takes the wire to be one FIFO of whole messages per direction, plus
a flag `aligned` that says whether the next receive starts at a message boundary.
`RiackReceive` and `RiackSend` justify that: below them are bytes in arbitrary
portions, and what they hand up is such a FIFO (`IsChannel`) until a call fails in
the middle of a message; after that anything can be read, which in `RiackCommand`
is the set `Garbage`. `RiackListing` and `RiackBucketProps` stand above
`RequestReply`, and so does `RiackMemory`: to them a command is a sequence of
messages handed to a callback in order, then a result. `RiackCounter` extends
`RiackCommand` itself, since what it is about (an increment carried out whose answer
is lost) is below that contract. `MessageTransfer` stands beside: it justifies that
the other modules take a message for a record that is either there, complete and
equal to what was sent, or refused by `unpack`.

### RiackCommand and the code

| Action | Code |
|---|---|
| `Connect`, `Reconnect`, `Disconnect`, `Free` | the functions of those names in `riack.c`, `sock_open` reduced to its result |
| `Send(op)` | `riack_perform_commmand` 223-257 when `riack_send_message` has written all |
| `SendFails(op)` | the same when it has not: the command is over |
| `Receive` | one turn of the loop 257-279 with a message: `TakeReply` (the code matches, the callback is called), `UnpackFails` (`unpack_fn` returned NULL), `TakeOther` (another code, `riack_got_error_response`) |
| `ReceiveFails` | the loop's end when `riack_receive_message` returns -1 |
| `Serve`, `Chunk`, `Finish`, `Refuse`, `PeerCloses` | the node, external |

| Variable | Code |
|---|---|
| `sockfd`, `hostSet` | `client->sockfd`, `client->host != NULL` |
| `openFds` | the process's open sockets |
| `lastErrorMem`, `lastErrorFrom` | `client->last_error`: NULL, live or freed memory; whose text |
| `pc`, `call`, `retval` | control, arguments and `retval` of `riack_perform_commmand` |
| `delivered` | what the callback (or a command without one) has accepted |
| `owed` | what the application does between commands, see below |
| `toServer`, `toClient`, `serving`, `peerOpen`, `aligned` | the connection and the node |

A message is `[id, code, n, last]`: the call it answers, its code, its place in the
answer, and whether `done` is set. The client reads `code` and `last` only; `id` and
`n` are there for the properties. The requests' contents are the call and its
function.

The application is part of the model, because what it does after an error decides
what is on the connection. `ReconnectOn` is the set of results after which it calls
`riack_reconnect` before its next command. `Disciplined` is what the positive
results ask of it: it reconnects after `RIACK_ERROR_COMMUNICATION`, and it calls
streaming functions only on a client without a receive timeout (and reconnects after
`RIACK_FAILED_PB_UNPACK`). The header (`riack.h:42-43`) recommends reconnecting
after an error or a timeout. For streams that is not enough, whatever the
application does with results: a stream cut off by a timeout returns
`RIACK_SUCCESS`, which is also what a whole stream returns (run `TruncatedStream`).

### RiackReceive and RiackSend

A byte is `<<message, position>>`. Four bytes are the length of message `i` exactly
when they are its positions 1 to 4; any other four can be any of `GarbageLengths`.
`Recv` and `Write` move any number of bytes up to what the code asks for.
`LengthRead`, `CodeRead` and `BodyRead` are the three stages of
`riack_receive_message`, with the unsigned `ntohl(msgLenN) - 1` (modulo `Modulus`)
and the conversion of the lengths to `int`. `TimesOut` and `Ends` are `recv`
returning -1 and 0; a call that fails drops what it has read. EINTR is a repetition
that changes nothing.

### RiackListing

One application, one function (`use`), and the node's keys of each type (`listed`).

| Action | Code |
|---|---|
| `Ask` | the function up to the command: the list of an array is allocated, a linked list set to NULL; the request (`PackedType`, `PackedToken`) is what the node reads in `Serve` |
| `Message` | one call of `riack_2i_query_cb`, `riack_stream_keys_ext_cb` or `riack_list_buckets_ext_cb`: the keys are linked, copied to an array or passed on; the continuation is copied or cleared; the verdict |
| `Fail` | the command ends with an error, or, once a stream has begun, with a success that is none (see `TruncatedStream`) |
| `UsePage`, `Retry` | the application, as in `testsrc/test_2i.c:133-173`: take the keys, free the list and the old token, ask for the next page; or drop what a failed command gave and ask again |
| `Serve`, `Change` | the node and other clients, external |

`riack_2i_query_exact` stands for the range query too, which differs in the search
key only. Keys are numbers in the node's order. `heap` counts the blocks behind the
lists and tokens with the default allocator, which returns NULL for size 0.
`always` and `ever` are history: the keys that have been listed throughout, and at
some time.

`Sorted` is the node's order of keys, which a page and its token are taken from.

### RiackBucketProps

A property record is a function from the names of the properties; a value that may
be missing is a sequence of length 0 or 1. `FromRpb` and `ToRpb` are
`riack_riack_bucket_props_from_rpb` and `riack_set_rpb_bucket_props` with their
helpers: the two lists of plain members, the hooks, the functions and the
replication mode. On the wire a list of hooks has a flag of its own
(`has_precommit`), which may be missing: the list is copied if the flag is there,
whatever it says (`Taken`), and goes back with a flag that is true (`ValueToRpb`).

| Action | Code |
|---|---|
| `Get`, `GetFails` | `riack_get_bucket_base` with a reply, or without one: the out parameter is NULL |
| `Set`, `SetOwn` | `riack_set_bucket_props_ext`, `riack_set_bucket_type_props`, of a record the application has filled in |
| `SetBack` | the same, of the record that was read, where it was read |
| `Free` | `riack_free_bucket_properties_p`, which leaves the caller's pointer set |
| `Merge`, `Other` | the node and other clients, external |

A bucket and a type differ in the request only. The application does not use a record
it has freed (`freed`), though its pointer still points there. `heap` counts the
blocks of the records read, by what they hold. A `Set` that fails is a `Set` or
nothing, which the model need not tell apart, since nothing in the library depends on
it. `ValuesAssumption` says what a node sends (a hook with a name or a function, not
both; a list of hooks with a flag that is true, or neither, as the default of the flag
in `riak.proto:113-116` suggests; a replication mode it knows) and what an application
fills in; the code relies on both without checking. A flag that is false would come
back true.

### RiackCounter

| Action | Code |
|---|---|
| `Issue` | `riack_counter_increment`, `riack_counter_get` up to the loop of the command engine (`Send`, `SendFails`), with or without a place for the value |
| `Answered` | `Receive`, with `riack_counter_get_cb` or `riack_counter_increment_cb` on a reply |
| `Execute` | the node carries a request out: at any time before its answer, and also after the connection is gone; external |
| `Others` | every other step of `RiackCommand`; an answer (`FinishExecuted`) comes after the execution |

`value` is the node's counter, `arrived` and `executed` the requests that went out
whole and those carried out, `answers` the values sent; `result` is the
application's variable, `tried`, `counted` and `told` are history. The amount of an
increment is 1: the library passes it on and does not look at it.

### RiackMemory

A block is named by its path: the call that allocated it, the structure, the members
down to it. The copies (`riack_copy_object_to_rpbputreq`, ...) give the set of paths
they allocate, the frees (`riack_free_object`, ...) the sequence of pointers they
release; both are translated function by function, so that a member forgotten in one
of them, or freed under another condition, shows. Of a string only whether it has
length 0 matters, because `riack_mem.c` makes that NULL.

| Action | Code |
|---|---|
| `Call` | a function up to its send: the out parameter is set as the function sets it, the request copied, the buffer allocated |
| `Reply`, `Chunk` | the callback copies a reply, or one chunk of a stream, for the application |
| `Fail` | the command ends with no callback, or a stream breaks off after some |
| `Return` | the request and the buffer are freed |
| `Free` | the application's free function, again too if it has set the pointer to NULL |

The application initialises its variables to NULL, and frees a result once where the
free function keeps the pointer (`KeepsPointer`: `riack_free_string_list_p` and
`riack_free_mapred_result`; `riack_free_bucket_properties_p` keeps it too, and is in
`RiackBucketProps`). A second free of such a result is the application's error.

### The protocol buffers modules

A word of `w` bits is the set of its bits that are 1, a byte a subset of `0 .. 7`: a
shift is a translation of the set, `|` is a union, `& 0x7f` an intersection. So 64-bit
values need no big integers and the packing of a varint can be proved. A message is
`[desc, val, unknown]`, every field a sequence of values (of length 0 or 1 if it is
not repeated); functions carry the names they have in `protobuf-c.c`.

Where the code calls itself for a message in a message, the model has a recursive
function over the messages within one (`Within`, level by level) or, when unpacking,
over bytes; the operator for one message takes that function as a parameter
(`message_size(size, m)`, `message_pack(pack, m)`, `UnpackMessage(unpack, ...)`). The
search for a field is a function of how many ranges are left. `SchemaAssumption` says
what the generated descriptors are (types, labels, names that differ, ranges that
cover the fields one run after the other) and `SentAssumption` that a sender's
messages have the values their descriptors want; TLC evaluates both on all of riak's
descriptors in `Wire`.

The receiver's heap counts the live blocks and how many allocations it can still
satisfy; an access through a pointer that is not set makes it `crashed`. The length of
a prefix and the length it announces are added in 32 bits (`Sum32`), so a prefix just
below 2^32 passes for a member of a few bytes; the value is then read from after the
end of the bytes, which makes the heap `beyond`, and the model follows the code no
further. A string is packed up to its first NUL (`CString`).
`protobuf_c_message_unpack` is a function of bytes and heap, as it is in the code.
`MessageTransfer`'s actions are the generated functions of a message (`Pack`, `Unpack`,
`Free`) and what can happen in between: `Again` (the message in two parts), `Newer` (a
field the descriptors do not have), `Cut` (the bytes end anywhere).

## Runs

| Run | Module | Bounds | Checks |
|---|---|---|---|
| `SingleTimeouts` | `MCCommand` | 3 calls of `riack_get_bucket_props`, its bucket-type variant (same reply code) and `riack_ping`; 2 descriptors; receive and send timeouts; `riack_connect` also on a connected client; reconnect after `RIACK_ERROR_COMMUNICATION` | `IInv`, `OwnReplies`, `SuccessIsComplete`, `NoRequestAfterTorn`, `LastErrorIsLive`, `ErrorTextIsOwn`, `KeepsContract`, `CallReturns` |
| `Streams` | `MCCommand` | 3 calls of `riack_list_keys` and `riack_ping`; answers of up to 3 messages; send timeouts, no receive timeout; unpacking may fail | `TypeOK`, `InOrder`, `OwnSocketOnly`, `KeepsFairContract` |
| `Counter` | `MCCounter` | 3 calls; both timeouts; reconnect after `RIACK_ERROR_COMMUNICATION` | `NoneLost`, `NoneInvented`, `ReadsForward` |
| `Receive` | `RiackReceive` | 3 messages with bodies of 0 and 2 bytes, 5-bit lengths | `TypeOK`, `StartsAtFrame`, `IsChannel`, `CallReturns` |
| `Send` | `RiackSend` | 3 requests with bodies of 0 and 2 bytes | `OneRequestPerCall`, `FailedIsUnread` |
| `Wire` | `MCTransfer` | each of riack's messages, with the required fields only and full to a depth of 2; `Probe` with 20 sets of values; lengths of two bytes, 50 members; 4 foreign fields; every place to cut; 0 to 14 allocations, or enough | `SizeIsExact`, `RoundTrip`, `AcceptedIsWhole`, `RequiredThere`, `PartsMerged`, `NothingLost`, `FieldFound` |
| `Memory` | `MCMemory` | 2 calls of any of 12 functions, streams of 2 chunks; objects that are bare, full, or have empty strings | `OutIsLive`, `OnlyKnownLeaks`, `OnlyKnownWild` |
| `Listing` | `MCListing` | 3 keys, 2 types, pages of 2, 1 change, 1 failure; every function for both types, the exact query for the default type | `InOrder`, `Complete`, `OnlyOfType`, `HeapReachable`, `Ends` |
| `BucketProps` | `MCBucketProps` | 3 initial property sets, 2 own records, 4 foreign changes; 3 changes, 2 reads | `FreesMarked`, `RestoresMarked`, `LeavesRest`, `ReadsBack` |
| `TruncatedStream` | `MCCommand` | 2 calls, answers of 2 messages, receive timeout, reconnect on every failure | `SuccessIsComplete` is violated |
| `DanglingError` | `MCCommand` | 2 plain calls, unpacking may fail | `LastErrorIsLive` is violated |
| `MergedParts` | `MCTransfer` | as `Wire` | `GivenTwice` is violated |

What they show:

- with `Disciplined` a command sees its own answer and nothing else, even though the
  code compares only message codes: it returns with the connection empty, or with a
  result after which the application reconnects (`IInv`);
- a streamed answer that is cut off by a timeout is reported as a success (a
  finding). So reconnecting after every error is not enough: the chunks that come
  late are handed to the next command that streams, which is why `Disciplined` rules
  out streams under a receive timeout;
- `last_error` dangles when an error reply cannot be unpacked (a finding).
  `ErrorTextIsOwn` is checked and proved where a command meets its own reply or
  refusal only; a message that is neither, such as a late chunk, also returns
  `RIACK_ERROR_RESPONSE` and stores no text;
- an application that counts can rely on this: the counter is at least what
  succeeded and at most what was called, and what it is told never goes back. How
  many of the failed increments were carried out, it cannot know;
- every way TCP may cut up the bytes is harmless up to the first failure in the
  middle of a message; the length arithmetic is safe for every length a node can
  send and also for garbage;
- `unpack` gives a message whole or nothing. What it accepts, packed again, gives the
  bytes it came from, so the unknown fields of a newer node are kept and no value is
  taken from a member cut short; no callback meets a message without its required
  fields; wherever an allocation fails, everything is freed and nothing twice. A
  message in two parts is merged as the comment at `protobuf-c.c:1893-1900` says, at
  every depth and for every kind of field (`PartsMerged`), with one exception
  (`GivenTwice`, a finding): optional bytes of an embedded message that only the first
  part has are lost, since `merge_messages` asks for a default that is absent;
- whatever fails, a result has blocks of its own, and every block is freed by the
  call or by the free function of the result. The exceptions are named in the
  properties: the requests of `riack_set_bucket_props`, `riack_search` and a
  conditional get are never freed (`OnlyKnownLeaks`), and `riack_server_info`
  follows a pointer nobody set when its command fails (`OnlyKnownWild`);
- paging gives no key twice and misses none that was there all along, whatever
  changes between two pages and however often a page is asked for again, as long as
  no stream breaks off unnoticed; the application can reach every block the library
  has allocated, a list allocated by a command that failed included;
- `OnlyOfType` holds because the exact and the ranged query are asked of the default
  type only. Asked of another they would break it: `riack_2i.c:99` and `136` fill in
  `type.data` and `type.len` but not `has_type`, which `riack_2i.c:176` sets for the
  other queries, so the type is not packed, and `riak_kv.proto:181` says "Bucket type,
  if not set we assume the 'default' type". The model has that (`PackedType`), and
  adding `<<"riack_2i_query_exact", "custom">>` to `Uses` shows it;
- a property record read and set back restores every property that was read, and
  touches no other. `search_index` and `datatype` are outside of that: they are
  copied without their marks (`riack.c:473`), so they are neither set back nor freed
  (`Unmarked`).

Why the bounds suffice. A reply reaches the wrong command if it is left behind by
one and read by another: two calls show that, the third covers a command that
starts on a connection left over by a recovered one. Two descriptors tell the old
socket from the new. Three messages per answer give one first, one middle and one
last. For the counter the same three calls are an increment that fails, its
repetition, and a read; one descriptor is enough, since what is written on an old
connection is in `arrived` and can be executed at any later time. For the bytes, a
body of 0 takes the branch without a third `sock_recv` and a body of 2 the one with
it; `Modulus = 32` makes the wrap of length 0 (31, negative as an `int`) and a
positive length beyond any message reachable. 32 bits would add states and no
branch; messages of 2^31 - 5 bytes and more are excluded by `SizeAssumption`.

For `Wire` the interesting values are the sides of each threshold of a varint (7, 14,
21, 28, 35, ... bits, and the sign bits), which `Numbers32` and `Numbers64` list;
`Filled` turns through them field by field, and every descriptor is filled with none
and with all of its optional fields. `Probe` has the types and labels riack's
messages do not use, and numbers in several ranges. 14 allocations are more than
the small messages need and fewer than the large ones, so that each fails somewhere;
50 members go over two slabs of the scan. For `Memory`, two calls are what one leaves
to another of its kind; each copy and free has an empty and a non-empty case of each
member. Three links, or three contents, would repeat the second.

For paging, 3 keys in pages of 2 give a full page with more behind it, a page that
is not full, and (with 2 keys) a full page that is the last; a single change or
failure falls before, between or after pages and chunks, and a second would repeat
the same choices. For the properties, a read, a change of one's own, one of another
client and the setting back are the longest sequence in which each matters; the
initial sets have both kinds of hook, an empty list of hooks, and no property at all.

Fairness. `RecvReturns` (`WF` of `Receive \/ ReceiveFails`): `recv` returns when
there are bytes, when the connection has ended, or when `SO_RCVTIMEO` runs out, and
the loop has no other blocking call. With a receive timeout that is all `CallReturns`
needs (`FairSpec`). Without one the client depends on the node, and `FairNodeSpec`
adds that the node reads requests and finishes answers. No fairness is given to the
application, to `PeerCloses` or to connecting. In `RiackReceive` fairness is given
to reading and to the end of the connection, not to the timeout. In `RiackListing`
the library, the node and the application go on (`FairSpec`); that the library's
commands return is `CallReturns` below it. `Counter`, `Send`, `Wire`, `Memory` and
`BucketProps` have no liveness; the last three may stop (a message is freed, the
bounds are used up), so deadlock is not checked there.

## Proofs

`RiackCommandProofs` (about every value of the constants that satisfies the
assumptions of `RiackCommand`):

| Theorem | Assumes | States |
|---|---|---|
| `TypeCorrect` | | `Spec => []TypeOK` |
| `InductiveInvariant` | `Disciplined` | `Spec => []IInv` |
| `RepliesAreOwn` | `Disciplined` | `Spec => [](OwnReplies /\ InOrder /\ QuietWhenReady)` |
| `NoMixedRequests` | `Disciplined` | `Spec => []NoRequestAfterTorn` |
| `ErrorTextBelongs` | `Disciplined`, unpacking does not fail | `ErrorTextIsOwn` |
| `ErrorTextLives` | `Disciplined`, unpacking does not fail | `Spec => []LastErrorIsLive` |
| `NoDescriptorLeak` | `riack_connect` only on a closed client, descriptor 0 taken | `Spec => []OwnSocketOnly` |
| `RepliesInOrder` | `Disciplined` | `Spec => []InOrder` |
| `ImplementsContract` | `Disciplined` | `Spec => KeepsContract` |
| `SingleAnswersAreComplete` | `Disciplined`, no streaming function | `Spec => []SuccessIsComplete` |

The argument. `OwnReplies` is not inductive: it says nothing of the messages still
under way. `IInv` adds what the connection holds: `OneOwner` (every request and
reply on it, and what the node is serving, belongs to the last call, and
`delivered` is the first part of its answer), and while a command waits, `Waiting`
(exactly one of: the request is under way, the node is serving it, the end of the
answer is under way; `retval` is a success exactly when something was delivered) and
`RestOfAnswer` (what is under way continues `delivered`, and only its end can be
anything but a chunk). The step that carries the proof is the end of a command:
either the message taken was the last of the answer, and then nothing is left
(`QuietWhenReady`), or the result is one after which the application owes a
reconnect. `Disciplined` is used there and nowhere else. The refinement uses `IInv`
for the head of the queue: the message taken is the next of the command's own answer
(`HeadOfAnswer`) and one of another code is the command's refusal (`OtherIsRefusal`).

`RiackReceiveProofs`:

| Theorem | States |
|---|---|
| `TypeCorrect` | `Spec => []TypeOK` |
| `InductiveInvariant` | `Spec => []SafeInv` |
| `StaysInStep` | `Spec => []StartsAtFrame` |
| `FramesInOrder` | until a call fails half way, what was returned are the frames sent, in order |
| `ImplementsChannel` | `Spec => IsChannel` |

Here the run has bodies of 0 and 2 bytes and 3 messages; the theorems have bodies of
any size `SizeAssumption` allows. The idea is `Line`, what the call has read followed
by what is under way: `Recv` and the stages of the code leave it as it is. `Chain`
says of it that from each byte on the rest of its frame follows and then the next
frame, `StartsWith` that it begins with the frame the next return is due to give,
and `EndsWhole` that its last frame is whole while the node has not closed.
Of the three, only sending (`OneMoreFrame`) and handing up a frame (`FrameTaken`)
change anything. `AtItsPlace` ties `msg_len` to the body that follows, so the body's
stage ends with its frame.

`ImplementsChannel` is the refinement, for every step of the byte level. The queue of
`MessageChannel` is read off `Line`: the frames from the one its first byte is of to
the last one that is on it whole. The frame under way is torn exactly when the line
ends inside it. `SafeInv` then says which action a step is: a return is a `Deliver`
of the head, since `Line` begins with the frame it is due to give; `Post` appends one
number; `Close` cuts the queue at the last whole frame; a stage or a portion leaves
`Line` and so the queue alone.

`RiackSendProofs`:

| Theorem | States |
|---|---|
| `InductiveInvariant` | `Spec => []IInv` |
| `CallsBecomeRequests` | `Spec => []OneRequestPerCall` |
| `FailedCallsAreUnread` | `Spec => []FailedIsUnread` |

For any number of calls, bodies of any size and writes cut into any portions. `IInv`
(`LaidOut`) says where each call's bytes stand: there are places `starts[i]`, each no
later than the next, between which the stream holds the first bytes of call `i` in
order, all of them exactly if the call has succeeded. The node's reading is a recursive function from a place on the
stream to the requests read from there on. `ChainExists` shows that there is
such a function, by induction over the places from the last one backwards; after that
it can be unfolded one request at a time (`ReadsWhole`), and `ReadsInOrder` puts
together what is read from the first place on. A call that failed has left fewer bytes
than its length says. What the application sends behind them is then read as their
rest, so nothing is claimed of it (`OneRequestPerCall` goes up to `FirstFailure`);
but whatever the node makes of it, the failed request is not among it, since its
last bytes are nowhere on the stream.

`RiackListingProofs`:

| Theorem | Assumes | States |
|---|---|---|
| `TypeCorrect` | | `Spec => []TypeOK` |
| `NoBlockIsLost` | | `Spec => []HeapReachable` |
| `NoKeyTwice` | | `Spec => []InOrder` |
| `KeysAreOfType` | `ExactAsksDefault` | `Spec => []OnlyOfType` |
| `NoKeyMissed` | `ExactAsksDefault` | `Spec => []Complete` |

For any set of keys, page size and number of changes and failures. `OutInv` says
where the out parameters stand at each `pc`. `OrderInv` bounds what has been given by
the token the next page is asked with, and the page by the token behind it. A message
moves keys from the answer to the application and leaves `Whole`, the two together, as
it was: that makes the step of a message trivial for order and completeness
(`CompleteInv`: a key that was there all along is given, in the answer, or beyond the
next token). `ExactAsksDefault` excludes the exact and the ranged query of a type
other than the default one (`riack_2i.c:99,136`), which are answered for that one.

`RiackCounterProofs`:

| Theorem | Assumes | States |
|---|---|---|
| `NoIncrementTwice` | | `CounterSpec => []NoneInvented` |
| `CounterInvariant` | `Disciplined` | `CounterSpec => [](CountInv /\ SettledInv /\ IInv /\ TypeOK)` |
| `NoIncrementLost` | `Disciplined` | `CounterSpec => []NoneLost` |
| `ToldForward` | `Disciplined` | `CounterSpec => ReadsForward` |

`NoIncrementTwice` asks nothing of the application: `CountInv` says that the counter
is the number of executed increments, and those the application has called are at
least as many. `NoIncrementLost` needs the reply to be the command's own, which is
`IInv` of `RiackCommandProofs`: `SettledInv` bounds the successes by the increments
that are executed and answered. `ToldForward` is about an answer that may have been
under way for a while, so its invariant (`AnswerIsNew`) is about the request: once the
node has executed it, its answer is no less than the last value told, and greater for
an increment. It holds while the answer travels because nothing is told in between,
and it starts to hold because what was told is at most the counter (`told <= value`).
That each call puts at most one request on the connection (`OneRequestEach`) makes
the answer unique.

`RiackBucketPropsProofs`:

| Theorem | States |
|---|---|
| `SetBackRestores` | `Spec => RestoresMarked` |
| `SetBackLeavesRest` | `Spec => LeavesRest` |
| `OwnRecordsReadBack` | `Spec => ReadsBack` |
| `ReadAndFreed` | `Spec => []FreesMarked` |

For all property values `ValuesAssumption` allows. `ReadInv` says that the record held
is `FromRpb` of the properties read; the lemma `Restored` that `ToRpb(FromRpb(p))`
agrees with `p` on the marked properties, hook by hook and for each replication mode.
`HeapInv` counts, property by property, what the record held points to; a property
comes back to zero when it is freed because `riack_free_bucket_properties_p` looks at
the same marks the conversion has set (`AllFreed`). A list of hooks is a sum over its
positions,
which the lemma `SumExists` defines by induction over the number of positions.

`RiackMemoryProofs`:

| Theorem | States |
|---|---|
| `ResultFreed` | the free function of a kind of result releases the blocks its callbacks copy, each once |
| `TempFreed` | what a call frees before it returns are blocks of its request, each once |
| `BlocksInvariant` | `Spec => []IInv` |
| `ResultsAreLive` | `Spec => []OutIsLive` |
| `OnlyRequestsLeak` | `Spec => []OnlyKnownLeaks` |
| `NothingFreedTwice` | `Spec => []OnlyKnownWild` |

For requests and replies of any size, any number of calls, and streams that break off
anywhere, as far as `MemoryAssumption` says what they are: members that are repeated
are lists, only calls that need no result are made without a place for it, and the
reply to a get names no key. A copy gives a set of blocks and a free a sequence of
pointers. `Within(s, B, p, N)` says that `s` lists exactly `B`, without repetition,
and that all of `B` is behind the members `N` of the structure at `p`. Frees behind
different members have no block in common and can be put together (`Join`), those of
the elements of an array are put together by induction over its length
(`ArrayFreed`). So each pair of functions of `riack_helpers.c` has its lemma
(`ContentFreed`, `PutReqFreed`, ...), and each is built from the ones below it as the
functions are. A stream's result is the concatenation of its chunks, and its blocks
are those of each chunk at the place where it was added (`ChunkAddsOut`).

`IInv` then says where each block in the heap belongs (`HeapInv`): to a result the
application has still to free, to the running call, which will free it
(`CallTemp`), or to one of the three requests nobody frees. It also says that two
results are of two calls (`CallsApart`), so that freeing one leaves the other alone,
and that the call that runs has no result from an earlier call (`Running`), which a
reply would overwrite. Without these two the invariant is not inductive.

`MessageTransferProofs` (about any descriptors and any messages that satisfy
`SchemaAssumption` and `SentAssumption`):

| Theorem | States |
|---|---|
| `PackedSizeIsExact` | a message is packed into as many bytes as were counted for it |
| `SizeOfTheBuffer` | `Spec => []SizeIsExact` |
| `SearchIsLookup` | the binary search finds what looking at every field finds, for every number |
| `EveryFieldFound` | `Spec => []FieldFound` |
| `MergeAccounts` | merging two messages of any depth loses no block and frees none twice |
| `UnpackAccounts` | unpacking any bytes gives no message and leaves the heap as it was, or one with its required fields that holds all that was allocated, unless it reads `beyond` |
| `NothingIsLost` | `Spec => [](~heap.beyond => NothingLost)` |
| `RequiredIsThere` | `Spec => [](~heap.beyond => RequiredThere)` |
| `Uint32SizeIsExact`, `Uint64SizeIsExact` | the thresholds of `uint32_size` and `uint64_size` give the number of bytes the packing writes |
| `Uint32IsDelimited` | the scan of the receiver finds the end of a packed integer, whatever follows |
| `Uint32RoundTrip`, `Uint64RoundTrip` | parsing restores every value that was packed |
| `ZigzagRoundTrip` | `unzigzag(zigzag(v)) = v` for words of any width |
| `FixedRoundTrip` | the same for values of fixed size |

The integers are proved over all 2^32 and 2^64 values, which no run can enumerate. With
words as sets of bits each statement is about translations and intersections of
intervals.

A recursive function has values only if there is a function that satisfies its
equation, so each of them comes with a lemma that there is one (`LevelExists`,
`SumExists`, `FlatExists`, `SizeExists`, `PackExists`, `SearchExists`, `ScanExists`,
`FromExists`, `RunExists`, `AllocExists`, `ParseExists`, `MergeExists`,
`UnpackingExists`): it is given up to a number, a level or a size, and one more step
extends it, because a step depends on fewer only (`SizeLocal`, `SearchStepLocal`).
For unpacking that is a lemma of its own, `SameResult`: the bytes of a message in a
message are fewer than those around it (`ShortOK`), so the outer call depends on
shorter inputs only. What holds of a message when it holds
of those directly in it then holds of all (`TreeInduction`). For the size, a value
exactly fills what is counted for it, and so do a field, sent value by value or as one
run, and a message (`ScalarExact`, `ValueExact`, `FieldExact`, `MessageExact`);
`PackedInv` says that the bytes are still those of the message, until another sender
has touched them. For the search, the runs follow one another (`RunsInOrder`) and
cover all fields (`RunsCover`), and a step gives up the half that cannot have the
number (`SearchFinds`).

Unpacking is proved for any bytes, those no sender packs included, and for an
allocator that fails at any point. Each pass keeps an account of the heap, and hands the
next one what it needs. While the members are listed (`ScanInv`), the slabs and the
structure of the message are all that is allocated; a field counted, or marked as seen,
has a member. While the arrays are allocated (`AllocInv`), one is added for each
repeated field that is counted, its count is reset, and every required field so far
was seen. While the members are stored (`ParseInv`), all that is allocated is in the
message, in an array nothing has been stored in yet, or in the slabs, and a value that is
replaced is freed first. What the passes say of each other is needed: a field that was
counted and had no array would be stored through an unset pointer, and an array
whose members are never stored would be in no message. Merging gives up parts of the
earlier message while it takes over the rest, so its account (`MergeInv`) is of both
messages at once. `Well` says what a message is, with the messages in it, to any depth,
and `Blocks` what freeing it releases. A failure at any step releases exactly the account
(`ErrorCleanup`). `MessageOK` puts the passes together, `UnpackLeaves` follows by
induction over the number of bytes, and `HeapInv` carries the result into the states of
`MessageTransfer`. All of this is under the condition `~beyond`: where the sum of a
length prefix and its length wraps (`protobuf-c.c:1873-1877`) the code reads on after
the end of the bytes, and nothing is claimed. That the messages of a sender that packs
what it has never get there is checked (`NothingLost` in `Wire`) and not proved.

Only model-checked:

- liveness (`CallReturns`, `KeepsFairContract`, `Ends`) and `ENABLED`, which the prover
  does not reach;
- that no length prefix of an honest sender wraps (`~heap.beyond` in `NothingLost`);
- the values that unpacking gives (`RoundTrip`, `AcceptedIsWhole`, `PartsMerged`): that
  the three passes restore what was packed, field by field, past fields that are not known
  and across parts that are merged.

Recursion over natural numbers or over the messages in a message is no obstacle to the
proofs: the lemma `SetInduction` states induction with a set in place of a predicate,
and the proofs about sending, receiving, hooks, memory and messages use it.

## Not modelled

- `riack_init`, `riack_cleanup` (Windows socket start-up), `riack_timeout_test`, the
  names of message codes.
- The loop of `sock_open` over the addresses of `getaddrinfo`: its result is a
  descriptor or -1, and no state of the client depends on which address it was.
- `port` and `options` other than the timeouts; the text and code of an error, of
  which only the owner and the lifetime matter.
- `last_error` allocated by a failing `sock_set_timeouts` without freeing the old
  text (`riack.c:99,108`): the leak is invisible here, where a text is one cell.
- Allocation failure outside unpacking: the code does not check its `malloc`s, and
  the default allocator ends the process, so there is no behaviour to model after one.
- SIGPIPE: `sock_send` (`riack_sock.c:186`) does not suppress it, so writing to a
  closed connection kills a process that has not ignored it. The model takes the
  process to ignore it, as the application must.
- A callback that issues a command on its own client (`riack_commands.c:264`). None in
  the library or its tests does.
- `riack_reset_bucket_props`, whose request is packed without having been
  initialised (`riack.c:143`): what follows is any outcome, a crash included.
- Of the protocol buffers runtime, what riack never calls: packing to a
  `ProtobufCBuffer`, `protobuf_c_message_check`, services, lookups by name. Two limits
  are abstracted: the required fields of a message are a set where the code has a bitmap
  on the stack up to 128 fields and on the heap above (no message of riack has so
  many), and the slabs of the scan are allocations of their own without their number
  being limited. What the code does once it has read after the end of the bytes is
  not modelled, and no sender of the runs makes it do so.
- Of the generated messages, the tables of names. Data types and Yokozuna have
  descriptors but no function in riack yet.
- What applications do with results beyond freeing them. `RiackMemory`'s application
  frees the list of buckets whether the call succeeded or not, as it must, since it
  is allocated before the command (`riack_kv.c`); the test suite frees it only after a
  success (`testsrc/test_bucket.c:25-34`).

## Plan

What is left, in this order:

1. A composition of `RiackReceive` and `RiackCommand` in which `aligned` and
   `Garbage` are the byte level's, in place of the argument under Modules. The frames
   of `RiackReceiveProofs` are its lemma.
2. `RiackCommand` with a callback that issues a command of its own on the same
   client. Property: `OwnReplies` for the inner and the outer command; expected to
   fail for streams, and a run should say where.
3. The loop of `sock_open`, refining `SockOpenFails` and `ConnectFrom`.
4. A separate liveness run of streams under a receive timeout, where `CallReturns`
   needs no fairness of the node.
5. Proofs about the values unpacking gives: `RoundTrip` first, over the accounts and the
   round trips of integers in `MessageTransferProofs`, then `AcceptedIsWhole` and
   `PartsMerged`, and that the bytes of a message that was packed, cut short or not,
   never lead `beyond` their end.
