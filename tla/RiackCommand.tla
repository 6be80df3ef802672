---------------------------- MODULE RiackCommand ----------------------------
(***************************************************************************)
(* One riack_client, the application thread that owns it and the Riak node *)
(* at the other end of its TCP connection.                                 *)
(*                                                                         *)
(* The client side is riack_perform_commmand (riack_commands.c) with the   *)
(* calls it makes: riack_send_message, riack_receive_message and           *)
(* riack_got_error_response, and the connection's life cycle in riack.c.   *)
(* The wire is one FIFO of whole messages per direction; RiackReceive and  *)
(* RiackSend model the bytes below it.  The node is external: it answers   *)
(* the requests of a connection one after the other and may close the      *)
(* connection at any time.                                                 *)
(*                                                                         *)
(* Messages carry the number of the call they answer.  The protocol has no *)
(* such field: it is what the properties use to tell whose reply a call    *)
(* was handed.                                                             *)
(***************************************************************************)
EXTENDS Integers, Sequences

CONSTANTS
    Ops,            \* the API functions the application calls
    RespCode,       \* [Ops -> Nat]: resp_msg_code of the function's pb_command
    Callback,       \* [Ops -> {"none", "once", "stream"}]: what its response callback is
    ErrorCode,      \* mc_RpbErrorResp
    Fds,            \* descriptor numbers the OS may hand out
    MaxCalls,       \* bound: commands the application issues
    MaxChunks,      \* bound: messages the node sends in answer to one request
    RecvTimeout,    \* options.recv_timeout_ms is not 0
    SendTimeout,    \* options.send_timeout_ms is not 0
    UnpackMayFail,  \* the client's allocator can return NULL while unpacking
    ReconnectOn,    \* the results after which the application calls riack_reconnect first
    BareConnect     \* the application may call riack_connect on a connected client

(* Results of a command, riack_defines.h *)
RIACK_SUCCESS == 1
RIACK_ERROR_COMMUNICATION == -1
RIACK_ERROR_RESPONSE == -2
RIACK_FAILED_PB_UNPACK == -4
Results == {RIACK_SUCCESS, RIACK_ERROR_COMMUNICATION, RIACK_ERROR_RESPONSE,
            RIACK_FAILED_PB_UNPACK}

ASSUME OpsAssumption ==
    /\ "none" \notin Ops
    /\ RespCode \in [Ops -> Nat]
    /\ Callback \in [Ops -> {"none", "once", "stream"}]
    /\ ErrorCode \in Nat
    /\ \A op \in Ops : RespCode[op] # ErrorCode

ASSUME BoundsAssumption ==
    /\ Fds \subseteq Nat
    /\ MaxCalls \in Nat
    /\ MaxChunks \in Nat \ {0}

ASSUME DisciplineAssumption ==
    /\ RecvTimeout \in BOOLEAN
    /\ SendTimeout \in BOOLEAN
    /\ UnpackMayFail \in BOOLEAN
    /\ BareConnect \in BOOLEAN
    /\ ReconnectOn \subseteq Results \ {RIACK_SUCCESS}

VARIABLES
    sockfd,       \* client->sockfd, -1 when there is no connection
    openFds,      \* descriptors of sockets the process has open
    hostSet,      \* client->host is set: some connect has succeeded
    lastErrorMem, \* client->last_error: "null", "live", or "freed" (dangling)
    lastErrorFrom,\* whose text it points to: a call, or 0 for riack_connect's own
    pc,           \* "idle", "receiving" (in the loop of riack_perform_commmand), "freed"
    call,         \* the current or the last call: [id, op]
    retval,       \* retval of riack_perform_commmand
    delivered,    \* the messages accepted as replies to the call, oldest first
    owed,         \* the application reconnects before its next command
    toServer,     \* requests under way to the node: [id, op, whole]
    toClient,     \* replies under way to the client
    serving,      \* the request the node is answering, Idle if none
    peerOpen,     \* the node still has the connection open
    aligned       \* the client's next recv starts at a message boundary

clientVars == <<sockfd, openFds, hostSet, lastErrorMem, lastErrorFrom, pc, call, retval,
                delivered, owed>>
wireVars == <<toServer, toClient, serving, peerOpen, aligned>>
vars == <<clientVars, wireVars>>

NoOne == 0        \* the call of a message nobody sent
NoOp == "none"    \* no API function
NoCall == [id |-> NoOne, op |-> NoOp]
Idle == [id |-> NoOne, op |-> NoOp, sent |-> 0]    \* the node answers no request

Requests == [id : Nat, op : Ops, whole : BOOLEAN]
Replies == [id : Nat, code : Nat, n : Nat, last : BOOLEAN]
Servings == [id : Nat, op : Ops, sent : Nat] \cup {Idle}
Calls == [id : Nat, op : Ops] \cup {NoCall}

(* What a misaligned recv takes for a message: any code, any has_done/done *)
Garbage == [id : {NoOne}, code : {ErrorCode} \cup {RespCode[op] : op \in Ops},
            n : {0}, last : BOOLEAN]

ConnectionOK ==
    /\ sockfd \in Fds \cup {-1}
    /\ openFds \subseteq Fds
    /\ hostSet \in BOOLEAN
    /\ lastErrorMem \in {"null", "live", "freed"}
    /\ lastErrorFrom \in Nat

CommandOK ==
    /\ pc \in {"idle", "receiving", "freed"}
    /\ call \in Calls
    /\ retval \in Results
    /\ delivered \in Seq(Replies)
    /\ owed \in BOOLEAN

WireOK ==
    /\ toServer \in Seq(Requests)
    /\ toClient \in Seq(Replies)
    /\ serving \in Servings
    /\ peerOpen \in BOOLEAN
    /\ aligned \in BOOLEAN

(* The type invariant. *)
TypeOK == ConnectionOK /\ CommandOK /\ WireOK

-----------------------------------------------------------------------------
(* riack_new_client; the application then connects. *)
Init ==
    /\ sockfd = -1
    /\ openFds = {}
    /\ hostSet = FALSE
    /\ lastErrorMem = "null"
    /\ lastErrorFrom = NoOne
    /\ pc = "idle"
    /\ call = NoCall
    /\ retval = RIACK_ERROR_COMMUNICATION
    /\ delivered = <<>>
    /\ owed = FALSE
    /\ toServer = <<>>
    /\ toClient = <<>>
    /\ serving = Idle
    /\ peerOpen = FALSE
    /\ aligned = TRUE

(* A new connection, or none: what was on the old one is never read. *)
FreshWire(connected) ==
    /\ toServer' = <<>>
    /\ toClient' = <<>>
    /\ serving' = Idle
    /\ peerOpen' = connected
    /\ aligned' = TRUE

(* sock_close does nothing unless the descriptor is positive. *)
SockClose(fd, fds) == IF fd > 0 THEN fds \ {fd} ELSE fds

(* Mutant: the failed descriptor is stored as 0. *)
SockOpenFails_Zero(fds) ==
    /\ sockfd' = 0
    /\ openFds' = fds
    /\ FreshWire(FALSE)
    /\ UNCHANGED <<hostSet, lastErrorMem, lastErrorFrom>>

(* sock_open finds no address that accepts the connection. *)
SockOpenFails(fds) ==
    /\ sockfd' = -1
    /\ openFds' = fds
    /\ FreshWire(FALSE)
    /\ UNCHANGED <<hostSet, lastErrorMem, lastErrorFrom>>

(* riack_connect, with fds the descriptors open when it is called.  sockfd is
   overwritten by what sock_open returns, and a descriptor that is not positive
   is reported as a failure.  A socket whose options cannot be set is closed
   again and the client gets an error text of riack's own. *)
ConnectFrom(fds) ==
    \/ SockOpenFails(fds)
    \/ \E fd \in Fds \ fds :
          /\ sockfd' = fd
          /\ openFds' = fds \cup {fd}
          /\ hostSet' = (hostSet \/ fd > 0)
          /\ FreshWire(TRUE)
          /\ UNCHANGED <<lastErrorMem, lastErrorFrom>>
    \/ \E fd \in Fds \ fds :                             \* sock_set_timeouts failed
          /\ fd > 0
          /\ sockfd' = -1
          /\ openFds' = SockClose(fd, fds \cup {fd})
          /\ hostSet' = TRUE
          /\ FreshWire(FALSE)
          /\ lastErrorMem' = "live"
          /\ lastErrorFrom' = NoOne

(* riack_connect called by the application. *)
Connect ==
    /\ pc = "idle"
    /\ sockfd = -1 \/ BareConnect
    /\ ConnectFrom(openFds)
    /\ owed' = FALSE
    /\ UNCHANGED <<pc, call, retval, delivered>>

(* Mutant: the descriptor is dropped, not closed. *)
Disconnected_Leaks == openFds

Disconnected == SockClose(sockfd, openFds)

(* Mutant: a client that has a descriptor counts as connected. *)
Reconnect_OnlyIfClosed ==
    /\ pc = "idle"
    /\ IF sockfd > 0
       THEN UNCHANGED <<sockfd, openFds, hostSet, lastErrorMem, lastErrorFrom, wireVars>>
       ELSE IF hostSet THEN ConnectFrom(openFds) ELSE SockOpenFails(openFds)
    /\ owed' = FALSE
    /\ UNCHANGED <<pc, call, retval, delivered>>

(* riack_reconnect: riack_disconnect, then riack_connect to client->host, which
   is no address before the first connect has succeeded. *)
Reconnect ==
    /\ pc = "idle"
    /\ IF hostSet THEN ConnectFrom(Disconnected) ELSE SockOpenFails(Disconnected)
    /\ owed' = FALSE
    /\ UNCHANGED <<pc, call, retval, delivered>>

Disconnect ==
    /\ pc = "idle"
    /\ sockfd > 0
    /\ sockfd' = -1
    /\ openFds' = Disconnected
    /\ FreshWire(FALSE)
    /\ UNCHANGED <<hostSet, lastErrorMem, lastErrorFrom, pc, call, retval,
                   delivered, owed>>

(* riack_free: the error text, then the connection, then the client. *)
Free ==
    /\ pc = "idle"
    /\ pc' = "freed"
    /\ lastErrorMem' = "null"
    /\ sockfd' = -1
    /\ openFds' = Disconnected
    /\ FreshWire(FALSE)
    /\ UNCHANGED <<hostSet, lastErrorFrom, call, retval, delivered, owed>>

-----------------------------------------------------------------------------
(* riack_perform_commmand up to the loop: the request is packed and sent. *)
NewCall(op) ==
    /\ pc = "idle"
    /\ ~owed
    /\ call.id < MaxCalls
    /\ call' = [id |-> call.id + 1, op |-> op]
    /\ delivered' = <<>>

Request(whole) == [id |-> call'.id, op |-> call'.op, whole |-> whole]

(* The command returns r; the application decides what it does next. *)
Return(r) ==
    /\ pc' = "idle"
    /\ retval' = r
    /\ owed' = (r \in ReconnectOn)

(* Mutant: retval starts out as a success. *)
Send_AssumesSuccess(op) ==
    /\ NewCall(op)
    /\ sockfd # -1
    /\ pc' = "receiving"
    /\ retval' = RIACK_SUCCESS
    /\ toServer' = IF peerOpen THEN Append(toServer, Request(TRUE)) ELSE toServer
    /\ UNCHANGED <<sockfd, openFds, hostSet, lastErrorMem, lastErrorFrom, owed,
                   toClient, serving, peerOpen, aligned>>

(* riack_send_message wrote the whole message.  On a connection the node has
   closed the kernel may still take it: it goes nowhere. *)
Send(op) ==
    /\ NewCall(op)
    /\ sockfd # -1
    /\ pc' = "receiving"
    /\ retval' = RIACK_ERROR_COMMUNICATION
    /\ toServer' = IF peerOpen THEN Append(toServer, Request(TRUE)) ELSE toServer
    /\ UNCHANGED <<sockfd, openFds, hostSet, lastErrorMem, lastErrorFrom, owed,
                   toClient, serving, peerOpen, aligned>>

(* riack_send_message failed: no connection, a closed one, or the send timeout,
   which can leave the first part of the message on the wire. *)
SendFails(op) ==
    /\ NewCall(op)
    /\ \/ /\ ~peerOpen
          /\ UNCHANGED toServer
       \/ /\ peerOpen /\ SendTimeout
          /\ toServer' \in {toServer, Append(toServer, Request(FALSE))}
    /\ Return(RIACK_ERROR_COMMUNICATION)
    /\ UNCHANGED <<sockfd, openFds, hostSet, lastErrorMem, lastErrorFrom,
                   toClient, serving, peerOpen, aligned>>

-----------------------------------------------------------------------------
(* The loop of riack_perform_commmand. *)

MatchesCall(m) == m.code = RespCode[call.op]

(* Mutant: done is not looked at. *)
CallbackContinues_Always(m) == Callback[call.op] = "stream"

(* The callback's verdict: riack_stream_keys_ext_cb, riack_map_reduce_stream_cb
   and the streaming riack_2i_query_cb ask for more until done is set. *)
CallbackContinues(m) == Callback[call.op] = "stream" /\ ~m.last

UnpackCanFail == UnpackMayFail \/ ~aligned

(* A reply with the code the command waits for. *)
TakeReply(m) ==
    /\ MatchesCall(m)
    /\ delivered' = Append(delivered, m)
    /\ IF CallbackContinues(m)
       THEN retval' = RIACK_SUCCESS /\ UNCHANGED <<pc, owed>>
       ELSE Return(RIACK_SUCCESS)
    /\ UNCHANGED <<lastErrorMem, lastErrorFrom>>

(* Mutant: a chunk that cannot be unpacked is passed over. *)
UnpackFails_Skips(m) ==
    /\ MatchesCall(m)
    /\ Callback[call.op] # "none"
    /\ UnpackCanFail
    /\ UNCHANGED <<pc, retval, owed, lastErrorMem, lastErrorFrom, delivered>>

(* unpack_fn returned NULL; a command without a callback unpacks nothing. *)
UnpackFails(m) ==
    /\ MatchesCall(m)
    /\ Callback[call.op] # "none"
    /\ UnpackCanFail
    /\ Return(RIACK_FAILED_PB_UNPACK)
    /\ UNCHANGED <<lastErrorMem, lastErrorFrom, delivered>>

(* Mutants: the text is freed after the new one is stored; the first is kept. *)
GotErrorResponse_FreesLast(m) ==
    \/ /\ m.code = ErrorCode
       /\ lastErrorMem' = "freed"
       /\ lastErrorFrom' = m.id
    \/ /\ m.code # ErrorCode
       /\ UNCHANGED <<lastErrorMem, lastErrorFrom>>

GotErrorResponse_KeepsFirst(m) ==
    \/ /\ m.code = ErrorCode
       /\ lastErrorMem = "null"
       /\ lastErrorMem' = "live"
       /\ lastErrorFrom' = m.id
    \/ /\ m.code # ErrorCode \/ lastErrorMem # "null"
       /\ UNCHANGED <<lastErrorMem, lastErrorFrom>>

(* riack_got_error_response: only an RpbErrorResp is looked at, and the old
   text is freed before the new one is unpacked. *)
GotErrorResponse(m) ==
    \/ /\ m.code = ErrorCode
       /\ lastErrorMem' = "live"
       /\ lastErrorFrom' = m.id
    \/ /\ m.code = ErrorCode
       /\ UnpackCanFail
       /\ lastErrorMem' = IF lastErrorMem = "null" THEN "null" ELSE "freed"
       /\ UNCHANGED lastErrorFrom
    \/ /\ m.code # ErrorCode
       /\ UNCHANGED <<lastErrorMem, lastErrorFrom>>

(* Mutant: a message of another kind is passed over. *)
TakeOther_Skips(m) ==
    /\ ~MatchesCall(m)
    /\ GotErrorResponse(m)
    /\ UNCHANGED <<pc, retval, owed, delivered>>

(* Any other code ends the command, RpbErrorResp or not. *)
TakeOther(m) ==
    /\ ~MatchesCall(m)
    /\ GotErrorResponse(m)
    /\ Return(RIACK_ERROR_RESPONSE)
    /\ UNCHANGED delivered

TakeMessage(m) == TakeReply(m) \/ UnpackFails(m) \/ TakeOther(m)

(* riack_receive_message returned a message.  After a torn message the bytes
   read are no message of the node's: they span any number of them (bound: at
   least one), and the next read may or may not start at a boundary. *)
Receive ==
    /\ pc = "receiving"
    /\ toClient # <<>>
    /\ \/ /\ aligned
          /\ TakeMessage(Head(toClient))
          /\ toClient' = Tail(toClient)
          /\ UNCHANGED aligned
       \/ /\ ~aligned
          /\ \E m \in Garbage : TakeMessage(m)
          /\ \E k \in 1 .. Len(toClient) : toClient' = SubSeq(toClient, k + 1, Len(toClient))
          /\ aligned' \in BOOLEAN
    /\ UNCHANGED <<sockfd, openFds, hostSet, call, toServer, serving, peerOpen>>

(* Mutants: after a timeout the request is sent once more; the recv that ran into
   it is repeated. *)
ReceiveFails_Resends ==
    /\ pc = "receiving"
    /\ \/ /\ RecvTimeout /\ peerOpen
          /\ toServer' = Append(toServer, [id |-> call.id, op |-> call.op, whole |-> TRUE])
          /\ UNCHANGED <<pc, retval, owed>>
       \/ /\ ~peerOpen /\ toClient = <<>>
          /\ Return(retval)
          /\ UNCHANGED toServer
    /\ UNCHANGED <<sockfd, openFds, hostSet, lastErrorMem, lastErrorFrom, call,
                   delivered, toClient, serving, peerOpen, aligned>>

ReceiveFails_Retries ==
    /\ pc = "receiving"
    /\ ~peerOpen /\ toClient = <<>>
    /\ Return(retval)
    /\ UNCHANGED <<sockfd, openFds, hostSet, lastErrorMem, lastErrorFrom, call,
                   delivered, wireVars>>

(* riack_receive_message returned -1: the receive timeout, which can strike in
   the middle of a message, or the end of a connection the node has closed.
   The loop ends and retval is what it was. *)
ReceiveFails ==
    /\ pc = "receiving"
    /\ \/ RecvTimeout /\ UNCHANGED aligned
       \/ RecvTimeout /\ toClient # <<>> /\ aligned' = FALSE
       \/ ~peerOpen /\ toClient = <<>> /\ UNCHANGED aligned
    /\ Return(retval)
    /\ UNCHANGED <<sockfd, openFds, hostSet, lastErrorMem, lastErrorFrom, call,
                   delivered, toServer, toClient, serving, peerOpen>>

-----------------------------------------------------------------------------
(* The node (external). *)

Serving(request) == [id |-> request.id, op |-> request.op, sent |-> 0]

(* The node reads a request.  One that was cut short is completed with the
   first bytes of the next, whose rest is then no request either. *)
Serve ==
    /\ peerOpen
    /\ serving = Idle
    /\ \/ /\ toServer # <<>> /\ Head(toServer).whole
          /\ toServer' = Tail(toServer)
       \/ /\ Len(toServer) > 1 /\ ~Head(toServer).whole
          /\ toServer' = [Tail(toServer) EXCEPT ![1].whole = FALSE]
    /\ serving' = Serving(Head(toServer))
    /\ UNCHANGED <<clientVars, toClient, peerOpen, aligned>>

Answer(code, last) ==
    [id |-> serving.id, code |-> code, n |-> serving.sent + 1, last |-> last]

Answering(m) ==
    /\ peerOpen
    /\ serving # Idle
    /\ toClient' = Append(toClient, m)
    /\ serving' = IF m.last THEN Idle ELSE [serving EXCEPT !.sent = @ + 1]
    /\ UNCHANGED <<clientVars, toServer, peerOpen, aligned>>

(* The last or only message of the answer. *)
Finish == serving # Idle /\ Answering(Answer(RespCode[serving.op], TRUE))

(* One more message of a streamed answer. *)
Chunk ==
    /\ serving # Idle
    /\ Callback[serving.op] = "stream"
    /\ serving.sent + 1 < MaxChunks
    /\ Answering(Answer(RespCode[serving.op], FALSE))

(* RpbErrorResp "may be generated for any Req", also between two chunks. *)
Refuse == serving # Idle /\ Answering(Answer(ErrorCode, TRUE))

(* The node closes the connection; what the client has not read yet can be lost. *)
PeerCloses ==
    /\ peerOpen
    /\ peerOpen' = FALSE
    /\ toServer' = <<>>
    /\ serving' = Idle
    /\ \E k \in 0 .. Len(toClient) : toClient' = SubSeq(toClient, 1, k)
    /\ UNCHANGED <<clientVars, aligned>>

-----------------------------------------------------------------------------
Application == Connect \/ Reconnect \/ Disconnect \/ Free
Command == (\E op \in Ops : Send(op) \/ SendFails(op)) \/ Receive \/ ReceiveFails
Node == Serve \/ Finish \/ Chunk \/ Refuse \/ PeerCloses
Terminated == pc = "freed" /\ UNCHANGED vars

Next == Application \/ Command \/ Node \/ Terminated

Spec == Init /\ [][Next]_vars

(* recv returns: with a message, with the end of the connection, or because the
   receive timeout has run out. *)
RecvReturns == WF_vars(Receive \/ ReceiveFails)

(* The node answers what it has read, and does not stream for ever. *)
NodeAnswers == WF_vars(Serve) /\ WF_vars(Finish)

(* With a receive timeout nothing is asked of the node. *)
FairSpec == Spec /\ RecvReturns

(* Without one the node must answer. *)
FairNodeSpec == Spec /\ RecvReturns /\ NodeAnswers

-----------------------------------------------------------------------------
(* Properties. *)

(* A command is only ever handed messages the node sent in answer to that very
   command: the code compares nothing but msg_code, so the reply to an earlier
   riack_get would pass for the reply to this one. *)
OwnReplies == \A i \in DOMAIN delivered : delivered[i].id = call.id

(* The callback sees the messages of the answer in the order they were sent,
   from the first one on, none skipped and none twice. *)
InOrder == \A i \in DOMAIN delivered : delivered[i].n = i

(* When the application may issue its next command, nothing of an earlier one is
   left anywhere on the connection: no request the node has yet to read or
   answer, no reply the next command would read as its own. *)
QuietWhenReady ==
    pc = "idle" /\ ~owed =>
        toServer = <<>> /\ serving = Idle /\ toClient = <<>> /\ aligned

(* RIACK_SUCCESS means the whole answer was received, last message included. *)
SuccessIsComplete ==
    pc = "idle" /\ retval = RIACK_SUCCESS =>
        delivered # <<>> /\ delivered[Len(delivered)].last

(* The node is never sent a request behind one that was cut short: it would read
   the second as the missing rest of the first. *)
NoRequestAfterTorn == \A i \in 1 .. Len(toServer) - 1 : toServer[i].whole

(* client->last_error never points to freed memory. *)
LastErrorIsLive == lastErrorMem # "freed"

(* A command that returns RIACK_ERROR_RESPONSE leaves the text of the error the
   node sent to this command in client->last_error. *)
ErrorTextIsOwn ==
    [][pc = "receiving" /\ pc' = "idle" /\ retval' = RIACK_ERROR_RESPONSE =>
         lastErrorMem' = "live" /\ lastErrorFrom' = call.id]_vars

(* The process holds the client's socket and no other, and the client never uses
   a descriptor it has closed. *)
OwnSocketOnly == openFds = IF sockfd = -1 THEN {} ELSE {sockfd}

(* No command waits for ever. *)
CallReturns == pc = "receiving" ~> pc = "idle"

-----------------------------------------------------------------------------
(* The abstract specification this one implements, as long as no reply can
   arrive after its command has returned. *)
StreamingCalls == {op \in Ops : Callback[op] = "stream"}

Handed(m) == [call |-> m.id, n |-> m.n]

Contract == INSTANCE RequestReply WITH
    Streaming <- StreamingCalls,
    Success <- RIACK_SUCCESS,
    ConnectionFailed <- RIACK_ERROR_COMMUNICATION,
    Refused <- RIACK_ERROR_RESPONSE,
    Unreadable <- RIACK_FAILED_PB_UNPACK,
    busy <- [on |-> pc = "receiving", streaming |-> call.op \in StreamingCalls],
    number <- call.id,
    result <- retval,
    handed <- [i \in DOMAIN delivered |-> Handed(delivered[i])],
    errorOf <- IF lastErrorMem = "live" THEN lastErrorFrom ELSE NoOne

(* Every step of the client, the wire and the node is a step of RequestReply or
   none: the application is handed its own replies, in order, and one result. *)
KeepsContract == Contract!RRSpec
KeepsFairContract == Contract!RRFairSpec

-----------------------------------------------------------------------------
(* Why the properties hold. *)

(* The application's part: it reconnects after a failed connection, and it only
   streams when nothing but the end of the connection or a chunk that cannot be
   unpacked, after which it reconnects too, can break a stream off. *)
Disciplined ==
    /\ RIACK_ERROR_COMMUNICATION \in ReconnectOn
    /\ \A op \in Ops : Callback[op] = "stream" =>
          /\ ~RecvTimeout
          /\ UnpackMayFail => RIACK_FAILED_PB_UNPACK \in ReconnectOn

(* Whatever is on the connection belongs to the last command. *)
OneOwner ==
    /\ Len(toServer) <= 1
    /\ \A i \in 1 .. Len(toServer) : toServer[i].id = call.id
    /\ \A i \in 1 .. Len(toClient) : toClient[i].id = call.id
    /\ serving # Idle => serving.id = call.id
    /\ \A i \in 1 .. Len(delivered) : delivered[i].id = call.id /\ delivered[i].n = i

ClosedPeer == ~peerOpen => toServer = <<>> /\ serving = Idle

(* While a command waits: its request is under way, or the node is answering
   it, or the end of the answer is under way. *)
Waiting ==
    /\ call.op \in Ops
    /\ aligned
    /\ ~owed
    /\ retval = IF delivered = <<>> THEN RIACK_ERROR_COMMUNICATION ELSE RIACK_SUCCESS
    /\ delivered # <<>> => Callback[call.op] = "stream"
    /\ toServer # <<>> =>
          /\ Len(toServer) = 1
          /\ toServer[1].op = call.op /\ toServer[1].whole
          /\ serving = Idle /\ toClient = <<>> /\ delivered = <<>>
    /\ serving # Idle =>
          /\ serving.op = call.op
          /\ serving.sent = Len(delivered) + Len(toClient)
          /\ \A i \in 1 .. Len(toClient) : ~toClient[i].last

(* The rest of the answer, in order; only its end can be anything but a chunk. *)
RestOfAnswer ==
    \A i \in 1 .. Len(toClient) :
        /\ toClient[i].n = Len(delivered) + i
        /\ toClient[i].code \in {RespCode[call.op], ErrorCode}
        /\ toClient[i].last => i = Len(toClient)
        /\ ~toClient[i].last => toClient[i].code = RespCode[call.op]
                                /\ Callback[call.op] = "stream"

(* The inductive invariant behind OwnReplies, InOrder and QuietWhenReady. *)
IInv ==
    /\ TypeOK
    /\ OneOwner
    /\ ClosedPeer
    /\ pc = "receiving" => Waiting /\ RestOfAnswer
    /\ QuietWhenReady

=============================================================================
