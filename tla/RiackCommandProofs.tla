------------------------- MODULE RiackCommandProofs -------------------------
(***************************************************************************)
(* TLAPS proofs about RiackCommand: its type invariant, and for a          *)
(* disciplined application the inductive invariant IInv with what follows  *)
(* from it: that it implements RequestReply, and that RIACK_SUCCESS means  *)
(* a complete answer as long as nothing is streamed.                       *)
(***************************************************************************)
EXTENDS RiackCommand, TLAPS, SequenceTheorems

LEMMA AllResults ==
    /\ RIACK_SUCCESS \in Results
    /\ RIACK_ERROR_COMMUNICATION \in Results
    /\ RIACK_ERROR_RESPONSE \in Results
    /\ RIACK_FAILED_PB_UNPACK \in Results
BY DEF Results

LEMMA DistinctResults ==
    /\ RIACK_SUCCESS # RIACK_ERROR_COMMUNICATION
    /\ RIACK_SUCCESS # RIACK_ERROR_RESPONSE
    /\ RIACK_SUCCESS # RIACK_FAILED_PB_UNPACK
BY DEF RIACK_SUCCESS, RIACK_ERROR_COMMUNICATION, RIACK_ERROR_RESPONSE,
       RIACK_FAILED_PB_UNPACK

LEMMA EmptyQueues == <<>> \in Seq(Requests) /\ <<>> \in Seq(Replies)
OBVIOUS

(* The first request on a quiet connection. *)
LEMMA FirstRequest ==
    ASSUME NEW r \in Requests
    PROVE  Len(Append(<<>>, r)) = 1 /\ Append(<<>>, r)[1] = r /\ Append(<<>>, r) # <<>>
<1>1. <<>> \in Seq(Requests) /\ Len(<<>>) = 0
  OBVIOUS
<1> QED
  BY <1>1, AppendProperties

(* A request cut short stays a request: the tail of the queue with the next
   request marked as cut. *)
LEMMA CutTail ==
    ASSUME NEW s \in Seq(Requests), Len(s) > 1
    PROVE  [Tail(s) EXCEPT ![1].whole = FALSE] \in Seq(Requests)
<1>1. Tail(s) \in Seq(Requests) /\ Len(Tail(s)) = Len(s) - 1 /\ 1 \in 1 .. Len(Tail(s))
  OBVIOUS
<1>2. [Tail(s)[1] EXCEPT !.whole = FALSE] \in Requests
  <2>1. Tail(s)[1] \in Requests
    BY <1>1, ElementOfSeq
  <2> QED
    BY <2>1 DEF Requests
<1> QED
  BY <1>1, <1>2, ExceptSeq

(* Any stretch of a sequence of replies is a sequence of replies. *)
LEMMA SubReplies ==
    ASSUME NEW s \in Seq(Replies), NEW i \in 1 .. Len(s) + 1, NEW j \in 0 .. Len(s)
    PROVE  SubSeq(s, i, j) \in Seq(Replies)
BY SubSeqProperties

LEMMA WireOKFresh ==
    ASSUME NEW b \in BOOLEAN, FreshWire(b)
    PROVE  WireOK'
BY EmptyQueues DEF FreshWire, WireOK, Servings

LEMMA DisconnectedFds ==
    ASSUME ConnectionOK
    PROVE  Disconnected \in SUBSET Fds
BY DEF Disconnected, SockClose, ConnectionOK

LEMMA ConnectOK ==
    ASSUME ConnectionOK, NEW fds \in SUBSET Fds, ConnectFrom(fds)
    PROVE  ConnectionOK' /\ WireOK'
<1>1. CASE SockOpenFails(fds)
  BY <1>1, WireOKFresh DEF SockOpenFails, ConnectionOK
<1>2. CASE \E fd \in Fds \ fds :
              /\ sockfd' = fd
              /\ openFds' = fds \cup {fd}
              /\ hostSet' = (hostSet \/ fd > 0)
              /\ FreshWire(TRUE)
              /\ UNCHANGED <<lastErrorMem, lastErrorFrom>>
  BY <1>2, WireOKFresh DEF ConnectionOK
<1>3. CASE \E fd \in Fds \ fds :
              /\ fd > 0
              /\ sockfd' = -1
              /\ openFds' = SockClose(fd, fds \cup {fd})
              /\ hostSet' = TRUE
              /\ FreshWire(FALSE)
              /\ lastErrorMem' = "live"
              /\ lastErrorFrom' = NoOne
  <2>1. openFds' \subseteq Fds
    BY <1>3 DEF SockClose
  <2>2. sockfd' \in Fds \cup {-1} /\ hostSet' \in BOOLEAN
    BY <1>3
  <2>3. lastErrorMem' \in {"null", "live", "freed"} /\ lastErrorFrom' \in Nat
    BY <1>3 DEF NoOne
  <2> QED
    BY <1>3, <2>1, <2>2, <2>3, WireOKFresh DEF ConnectionOK
<1> QED
  BY <1>1, <1>2, <1>3 DEF ConnectFrom

LEMMA CommandOKReturn ==
    ASSUME NEW r \in Results, Return(r)
    PROVE  pc' \in {"idle", "receiving", "freed"} /\ retval' \in Results /\ owed' \in BOOLEAN
BY DEF Return

LEMMA NewCallRequest ==
    ASSUME TypeOK, NEW op \in Ops, NewCall(op), NEW whole \in BOOLEAN
    PROVE  call' \in Calls /\ Request(whole) \in Requests
<1>1. call.id \in Nat
  BY DEF TypeOK, CommandOK, Calls, NoCall, NoOne
<1> QED
  BY <1>1 DEF NewCall, Calls, Request, Requests

LEMMA NewCallOK ==
    ASSUME TypeOK, NEW op \in Ops, NewCall(op), NEW whole \in BOOLEAN
    PROVE  /\ call' \in Calls /\ delivered' \in Seq(Replies)
           /\ Append(toServer, Request(whole)) \in Seq(Requests)
BY NewCallRequest, EmptyQueues DEF NewCall, TypeOK, WireOK

LEMMA MessageOK ==
    ASSUME TypeOK, NEW m \in Replies, TakeMessage(m)
    PROVE  /\ pc' \in {"idle", "receiving", "freed"} /\ retval' \in Results
           /\ delivered' \in Seq(Replies) /\ owed' \in BOOLEAN
           /\ lastErrorMem' \in {"null", "live", "freed"} /\ lastErrorFrom' \in Nat
<1> USE AllResults DEF TypeOK, CommandOK, ConnectionOK
<1>1. CASE TakeReply(m)
  BY <1>1, CommandOKReturn DEF TakeReply
<1>2. CASE UnpackFails(m)
  BY <1>2, CommandOKReturn DEF UnpackFails
<1>3. CASE TakeOther(m)
  <2>1. lastErrorMem' \in {"null", "live", "freed"} /\ lastErrorFrom' \in Nat
    BY <1>3 DEF TakeOther, GotErrorResponse, Replies
  <2> QED
    BY <1>3, <2>1, CommandOKReturn DEF TakeOther
<1> QED
  BY <1>1, <1>2, <1>3 DEF TakeMessage

LEMMA AnsweringOK ==
    ASSUME TypeOK, NEW code \in Nat, NEW last \in BOOLEAN,
           serving # Idle, Answering(Answer(code, last))
    PROVE  TypeOK'
<1>1. serving \in [id : Nat, op : Ops, sent : Nat]
  BY DEF TypeOK, WireOK, Servings
<1>2. Answer(code, last) \in Replies
  BY <1>1 DEF Answer, Replies
<1>3. serving' \in Servings
  BY <1>1 DEF Answering, Answer, Servings
<1>4. toClient' \in Seq(Replies)
  BY <1>2 DEF Answering, TypeOK, WireOK
<1> QED
  BY <1>3, <1>4 DEF Answering, clientVars, TypeOK, ConnectionOK, CommandOK, WireOK

LEMMA InitTypeOK == Init => TypeOK
<1>1. Init => ConnectionOK
  <2>1. Init => openFds \subseteq Fds
    BY DEF Init
  <2>2. Init => sockfd \in Fds \cup {-1} /\ lastErrorFrom \in Nat
    BY DEF Init, NoOne
  <2> QED
    BY <2>1, <2>2 DEF Init, ConnectionOK
<1>2. Init => CommandOK
  BY EmptyQueues, AllResults DEF Init, CommandOK, Calls
<1>3. Init => WireOK
  BY EmptyQueues DEF Init, WireOK, Servings
<1> QED
  BY <1>1, <1>2, <1>3 DEF TypeOK

(* Every variable keeps its type, whatever the application and the node do. *)
THEOREM TypeCorrect == Spec => []TypeOK
<1>1. Init => TypeOK
  BY InitTypeOK
<1>2. TypeOK /\ [Next]_vars => TypeOK'
  <2> SUFFICES ASSUME TypeOK, [Next]_vars PROVE TypeOK'
    OBVIOUS
  <2>1. CASE Connect
    <3>1. ConnectionOK' /\ WireOK'
      BY <2>1, ConnectOK DEF Connect, TypeOK, ConnectionOK
    <3> QED
      BY <2>1, <3>1 DEF Connect, TypeOK, CommandOK
  <2>2. CASE Reconnect
    <3>1. ConnectFrom(Disconnected) => ConnectionOK' /\ WireOK'
      BY ConnectOK, DisconnectedFds DEF TypeOK
    <3>2. SockOpenFails(Disconnected) => ConnectFrom(Disconnected)
      BY DEF ConnectFrom
    <3> QED
      BY <2>2, <3>1, <3>2 DEF Reconnect, TypeOK, CommandOK
  <2>3. CASE Disconnect
    <3>1. ConnectionOK'
      BY <2>3, DisconnectedFds DEF Disconnect, TypeOK, ConnectionOK
    <3> QED
      BY <2>3, <3>1, WireOKFresh DEF Disconnect, TypeOK, CommandOK
  <2>4. CASE Free
    <3>1. ConnectionOK'
      BY <2>4, DisconnectedFds DEF Free, TypeOK, ConnectionOK
    <3> QED
      BY <2>4, <3>1, WireOKFresh DEF Free, TypeOK, CommandOK
  <2>5. ASSUME NEW op \in Ops, Send(op) PROVE TypeOK'
    <3>1. toServer' \in Seq(Requests) /\ call' \in Calls /\ delivered' \in Seq(Replies)
      BY <2>5, NewCallOK DEF Send, TypeOK, WireOK
    <3> QED
      BY <2>5, <3>1, AllResults DEF Send, TypeOK, ConnectionOK, CommandOK, WireOK
  <2>6. ASSUME NEW op \in Ops, SendFails(op) PROVE TypeOK'
    <3>1. toServer' \in Seq(Requests) /\ call' \in Calls /\ delivered' \in Seq(Replies)
      BY <2>6, NewCallOK DEF SendFails, TypeOK, WireOK
    <3> QED
      BY <2>6, <3>1, AllResults, CommandOKReturn
         DEF SendFails, TypeOK, ConnectionOK, CommandOK, WireOK
  <2>7. CASE Receive
    <3>1. Garbage \subseteq Replies
      BY OpsAssumption DEF Garbage, Replies, NoOne
    <3>2. toClient # <<>> => Head(toClient) \in Replies
      BY DEF TypeOK, WireOK
    <3>3. PICK m \in Replies : TakeMessage(m)
      BY <2>7, <3>1, <3>2 DEF Receive
    <3>4. toClient' \in Seq(Replies) /\ aligned' \in BOOLEAN
      <4>1. CASE aligned
        BY <2>7, <4>1 DEF Receive, TypeOK, WireOK
      <4>2. CASE ~aligned
        <5>1. PICK k \in 1 .. Len(toClient) :
                 toClient' = SubSeq(toClient, k + 1, Len(toClient))
          BY <2>7, <4>2 DEF Receive
        <5>2. /\ toClient \in Seq(Replies) /\ Len(toClient) \in 0 .. Len(toClient)
              /\ k + 1 \in 1 .. Len(toClient) + 1
          BY DEF TypeOK, WireOK
        <5> QED
          BY <2>7, <4>2, <5>1, <5>2, SubReplies DEF Receive
      <4> QED
        BY <4>1, <4>2
    <3> QED
      BY <2>7, <3>3, <3>4, MessageOK DEF Receive, TypeOK, ConnectionOK, CommandOK, WireOK
  <2>8. CASE ReceiveFails
    BY <2>8, CommandOKReturn DEF ReceiveFails, TypeOK, ConnectionOK, CommandOK, WireOK
  <2>9. CASE Serve
    <3>1. toServer # <<>>
      BY <2>9 DEF Serve, TypeOK, WireOK
    <3>2. serving' \in Servings
      <4>1. Head(toServer) \in Requests
        BY <3>1 DEF TypeOK, WireOK
      <4>2. Serving(Head(toServer)) \in Servings
        BY <4>1 DEF Serving, Servings, Requests
      <4> QED
        BY <2>9, <4>2 DEF Serve
    <3>3. toServer' \in Seq(Requests)
      <4>1. Tail(toServer) \in Seq(Requests)
        BY <3>1 DEF TypeOK, WireOK
      <4>2. Len(toServer) > 1 => [Tail(toServer) EXCEPT ![1].whole = FALSE] \in Seq(Requests)
        BY CutTail DEF TypeOK, WireOK
      <4> QED
        BY <2>9, <4>1, <4>2 DEF Serve
    <3> QED
      BY <2>9, <3>2, <3>3 DEF Serve, clientVars, TypeOK, ConnectionOK, CommandOK, WireOK
  <2>10. serving # Idle => RespCode[serving.op] \in Nat
    BY OpsAssumption DEF TypeOK, WireOK, Servings
  <2>11. CASE Finish
    BY <2>10, <2>11, AnsweringOK DEF Finish
  <2>12. CASE Chunk
    BY <2>10, <2>12, AnsweringOK DEF Chunk
  <2>13. CASE Refuse
    BY <2>13, AnsweringOK, OpsAssumption DEF Refuse
  <2>14. CASE PeerCloses
    <3>1. toClient' \in Seq(Replies)
      <4>1. PICK k \in 0 .. Len(toClient) : toClient' = SubSeq(toClient, 1, k)
        BY <2>14 DEF PeerCloses
      <4>2. toClient \in Seq(Replies) /\ 1 \in 1 .. Len(toClient) + 1
        BY DEF TypeOK, WireOK
      <4> QED
        BY <4>1, <4>2, SubReplies
    <3> QED
      BY <2>14, <3>1, EmptyQueues
         DEF PeerCloses, clientVars, TypeOK, ConnectionOK, CommandOK, WireOK, Servings
  <2>15. CASE UNCHANGED vars
    BY <2>15 DEF vars, clientVars, wireVars, TypeOK, ConnectionOK, CommandOK, WireOK
  <2> QED
    BY <2>1, <2>2, <2>3, <2>4, <2>5, <2>6, <2>7, <2>8, <2>9, <2>11, <2>12, <2>13,
       <2>14, <2>15 DEF Next, Application, Command, Node, Terminated
<1> QED
  BY <1>1, <1>2, PTL DEF Spec

-----------------------------------------------------------------------------
(* The inductive invariant.  Each lemma takes one action; TypeOK' is known from
   TypeCorrect. *)

LEMMA InitIInv == Init => IInv
<1> SUFFICES ASSUME Init PROVE IInv
  OBVIOUS
<1>1. TypeOK
  BY InitTypeOK
<1>2. OneOwner /\ ClosedPeer /\ QuietWhenReady
  BY DEF Init, OneOwner, ClosedPeer, QuietWhenReady
<1> QED
  BY <1>1, <1>2 DEF Init, IInv

(* A new connection, or none, carries nothing. *)
LEMMA FreshWireIInv ==
    ASSUME IInv, TypeOK', NEW b \in BOOLEAN, FreshWire(b), pc' # "receiving",
           UNCHANGED <<call, delivered>>
    PROVE  IInv'
<1>1. OneOwner'
  BY DEF IInv, OneOwner, FreshWire
<1>2. ClosedPeer' /\ QuietWhenReady'
  BY DEF ClosedPeer, QuietWhenReady, FreshWire
<1> QED
  BY <1>1, <1>2 DEF IInv

LEMMA SendIInv ==
    ASSUME IInv, TypeOK', NEW op \in Ops, Send(op)
    PROVE  IInv'
<1> DEFINE r == Request(TRUE)
<1>1. toServer = <<>> /\ serving = Idle /\ toClient = <<>> /\ aligned
  BY DEF IInv, QuietWhenReady, Send, NewCall
<1>2. call' = [id |-> call.id + 1, op |-> op] /\ delivered' = <<>>
  BY DEF Send, NewCall
<1>3. r.id = call'.id /\ r.op = call'.op /\ r.whole = TRUE
  BY DEF Request
<1>4. toServer' = <<>> \/ (Len(toServer') = 1 /\ toServer'[1] = r)
  <2>1. r \in Requests
    BY NewCallRequest DEF Send, IInv
  <2> QED
    BY <1>1, <2>1, FirstRequest DEF Send
<1>5. toClient' = <<>> /\ serving' = Idle
  BY <1>1 DEF Send
<1>6. OneOwner'
  <2>1. \A i \in 1 .. Len(toServer') : toServer'[i].id = call'.id
    <3>1. CASE toServer' = <<>>
      BY <3>1
    <3>2. CASE Len(toServer') = 1 /\ toServer'[1] = r
      <4>1. \A i \in 1 .. 1 : i = 1
        OBVIOUS
      <4>2. toServer'[1].id = call'.id
        BY <3>2, <1>3
      <4> QED
        BY <3>2, <4>1, <4>2
    <3> QED
      BY <1>4, <3>1, <3>2
  <2>2. Len(toClient') = 0 /\ Len(delivered') = 0
    BY <1>2, <1>5
  <2>3. Len(toServer') <= 1
    <3>1. toServer' = <<>> => Len(toServer') <= 1
      OBVIOUS
    <3>2. Len(toServer') = 1 => Len(toServer') <= 1
      OBVIOUS
    <3> QED
      BY <1>4, <3>1, <3>2
  <2> QED
    BY <1>5, <2>1, <2>2, <2>3 DEF OneOwner
<1>7. ClosedPeer'
  BY <1>1 DEF Send, ClosedPeer
<1>8. Waiting'
  <2>1. toServer' # <<>> => Len(toServer') = 1 /\ toServer'[1].op = call'.op /\ toServer'[1].whole
    BY <1>3, <1>4
  <2>2. aligned' /\ ~owed' /\ retval' = RIACK_ERROR_COMMUNICATION
    BY <1>1 DEF Send, NewCall
  <2>3. call'.op = op
    BY <1>2
  <2> QED
    BY <1>1, <1>2, <1>5, <2>1, <2>2, <2>3 DEF Waiting
<1>9. RestOfAnswer'
  BY <1>5 DEF RestOfAnswer
<1> QED
  BY <1>6, <1>7, <1>8, <1>9 DEF IInv, Send, QuietWhenReady

LEMMA SendFailsIInv ==
    ASSUME Disciplined, IInv, TypeOK', NEW op \in Ops, SendFails(op)
    PROVE  IInv'
<1> DEFINE r == Request(FALSE)
<1>1. toServer = <<>> /\ serving = Idle /\ toClient = <<>>
  BY DEF IInv, QuietWhenReady, SendFails, NewCall
<1>2. toServer' = <<>> \/ (Len(toServer') = 1 /\ toServer'[1] = r)
  <2>1. r \in Requests
    BY NewCallRequest DEF SendFails, IInv
  <2> QED
    BY <1>1, <2>1, FirstRequest DEF SendFails
<1>3. toClient' = <<>> /\ serving' = Idle /\ delivered' = <<>>
  BY <1>1 DEF SendFails, NewCall
<1>4. r.id = call'.id
  BY DEF Request
<1>5. OneOwner'
  <2>1. \A i \in 1 .. Len(toServer') : toServer'[i].id = call'.id
    <3>1. CASE toServer' = <<>>
      BY <3>1
    <3>2. CASE Len(toServer') = 1 /\ toServer'[1] = r
      <4>1. \A i \in 1 .. 1 : i = 1
        OBVIOUS
      <4>2. toServer'[1].id = call'.id
        BY <3>2, <1>4
      <4> QED
        BY <3>2, <4>1, <4>2
    <3> QED
      BY <1>2, <3>1, <3>2
  <2>2. Len(toClient') = 0 /\ Len(delivered') = 0
    BY <1>3
  <2>3. Len(toServer') <= 1
    <3>1. toServer' = <<>> => Len(toServer') <= 1
      OBVIOUS
    <3>2. Len(toServer') = 1 => Len(toServer') <= 1
      OBVIOUS
    <3> QED
      BY <1>2, <3>1, <3>2
  <2> QED
    BY <1>3, <2>1, <2>2, <2>3 DEF OneOwner
<1>6. ClosedPeer'
  BY <1>1 DEF SendFails, ClosedPeer
<1>7. pc' = "idle" /\ owed'
  BY DEF SendFails, Return, Disciplined
<1> QED
  BY <1>5, <1>6, <1>7 DEF IInv, QuietWhenReady

(* The message a waiting command reads next is the next of its answer, and
   nothing follows it unless it is a chunk. *)
LEMMA HeadOfAnswer ==
    ASSUME IInv, pc = "receiving", toClient # <<>>, NEW m, m = Head(toClient)
    PROVE  /\ m \in Replies /\ m.id = call.id /\ m.n = Len(delivered) + 1
           /\ m.last => Len(toClient) = 1 /\ serving = Idle
           /\ ~m.last => MatchesCall(m) /\ Callback[call.op] = "stream"
           /\ toServer = <<>> /\ aligned /\ call.op \in Ops
<1>1. toClient \in Seq(Replies) /\ Waiting /\ RestOfAnswer /\ OneOwner
  BY DEF IInv, TypeOK, WireOK
<1>2. Len(toClient) \in Nat /\ 1 \in 1 .. Len(toClient) /\ m = toClient[1]
  BY <1>1
<1>3. m \in Replies
  BY <1>1, <1>2
<1>4. m.id = call.id
  BY <1>1, <1>2 DEF OneOwner
<1>5. /\ m.n = Len(delivered) + 1
      /\ m.last => Len(toClient) = 1
      /\ ~m.last => m.code = RespCode[call.op] /\ Callback[call.op] = "stream"
  BY <1>1, <1>2 DEF RestOfAnswer
<1>6. /\ toServer = <<>> /\ aligned /\ call.op \in Ops
      /\ m.last => serving = Idle
  BY <1>1, <1>2 DEF Waiting
<1> QED
  BY <1>3, <1>4, <1>5, <1>6 DEF MatchesCall

(* What reading one message does to the two sequences. *)
LEMMA ReadOne ==
    ASSUME NEW s \in Seq(Replies), s # <<>>, NEW d \in Seq(Replies), NEW m \in Replies
    PROVE  /\ Len(Tail(s)) = Len(s) - 1 /\ Len(Append(d, m)) = Len(d) + 1
           /\ \A i \in 1 .. Len(Tail(s)) : i + 1 \in 1 .. Len(s) /\ Tail(s)[i] = s[i + 1]
           /\ \A i \in 1 .. Len(d) + 1 : Append(d, m)[i] = IF i = Len(d) + 1 THEN m ELSE d[i]
           /\ Append(d, m) # <<>>
           /\ Len(s) = 1 => Tail(s) = <<>>
           /\ Len(s) \in Nat /\ Len(d) \in Nat
<1>1. Len(Tail(s)) = Len(s) - 1 /\ \A i \in 1 .. Len(Tail(s)) : Tail(s)[i] = s[i + 1]
  BY HeadTailProperties
<1>2. /\ Len(Append(d, m)) = Len(d) + 1 /\ Append(d, m) # <<>>
      /\ \A i \in 1 .. Len(d) : Append(d, m)[i] = d[i]
      /\ Append(d, m)[Len(d) + 1] = m
  BY AppendProperties
<1>3. Len(s) \in Nat /\ Len(d) \in Nat
  OBVIOUS
<1>4. Len(s) = 1 => Tail(s) = <<>>
  BY <1>1, HeadTailProperties, EmptySeq
<1>5. \A i \in 1 .. Len(d) + 1 : Append(d, m)[i] = IF i = Len(d) + 1 THEN m ELSE d[i]
  BY <1>2, <1>3
<1>6. \A i \in 1 .. Len(Tail(s)) : i + 1 \in 1 .. Len(s)
  BY <1>1, <1>3
<1> QED
  BY <1>1, <1>2, <1>3, <1>4, <1>5, <1>6

(* After a read the connection and the callback still belong to one command. *)
LEMMA ReceiveOneOwner ==
    ASSUME IInv, pc = "receiving", toClient # <<>>, toClient' = Tail(toClient),
           delivered' \in {delivered, Append(delivered, Head(toClient))},
           UNCHANGED <<call, toServer, serving>>
    PROVE  OneOwner'
<1> DEFINE m == Head(toClient)
<1>1. m \in Replies /\ m.id = call.id /\ m.n = Len(delivered) + 1
  BY HeadOfAnswer
<1>2. toClient \in Seq(Replies) /\ delivered \in Seq(Replies) /\ OneOwner
  BY DEF IInv, TypeOK, WireOK, CommandOK
<1> HIDE DEF m
<1>3. \A i \in 1 .. Len(toClient') : toClient'[i].id = call'.id
  <2> SUFFICES ASSUME NEW i \in 1 .. Len(Tail(toClient)) PROVE Tail(toClient)[i].id = call.id
    OBVIOUS
  <2>1. i + 1 \in 1 .. Len(toClient) /\ Tail(toClient)[i] = toClient[i + 1]
    BY <1>1, <1>2, ReadOne
  <2> QED
    BY <1>2, <2>1 DEF OneOwner
<1>4. \A i \in 1 .. Len(delivered') : delivered'[i].id = call'.id /\ delivered'[i].n = i
  <2>1. CASE delivered' = delivered
    BY <1>2, <2>1 DEF OneOwner
  <2>2. CASE delivered' = Append(delivered, m)
    <3> SUFFICES ASSUME NEW i \in 1 .. Len(delivered) + 1
                 PROVE  Append(delivered, m)[i].id = call.id /\ Append(delivered, m)[i].n = i
      BY <1>1, <1>2, <2>2, ReadOne
    <3>1. Append(delivered, m)[i] = IF i = Len(delivered) + 1 THEN m ELSE delivered[i]
      BY <1>1, <1>2, ReadOne
    <3>2. Len(delivered) \in Nat
      BY <1>2
    <3>3. CASE i = Len(delivered) + 1
      BY <1>1, <3>1, <3>3
    <3>4. CASE i # Len(delivered) + 1
      <4>1. i \in 1 .. Len(delivered)
        BY <3>2, <3>4
      <4> QED
        BY <1>2, <3>1, <3>4, <4>1 DEF OneOwner
    <3> QED
      BY <3>3, <3>4
  <2> QED
    BY <2>1, <2>2 DEF m
<1> QED
  BY <1>2, <1>3, <1>4 DEF OneOwner

LEMMA ReceiveIInv ==
    ASSUME Disciplined, IInv, TypeOK', Receive
    PROVE  IInv'
<1> DEFINE m == Head(toClient)
<1>1. /\ pc = "receiving" /\ toClient # <<>>
      /\ UNCHANGED <<call, toServer, serving, peerOpen>>
  BY DEF Receive
<1>2. /\ m \in Replies /\ m.id = call.id /\ m.n = Len(delivered) + 1
      /\ m.last => Len(toClient) = 1 /\ serving = Idle
      /\ ~m.last => MatchesCall(m) /\ Callback[call.op] = "stream"
      /\ toServer = <<>> /\ aligned /\ call.op \in Ops
  BY <1>1, HeadOfAnswer
<1>3. TakeMessage(m) /\ toClient' = Tail(toClient) /\ aligned'
  BY <1>2 DEF Receive
<1>4. toClient \in Seq(Replies) /\ delivered \in Seq(Replies)
  BY DEF IInv, TypeOK, WireOK, CommandOK
<1>5. ClosedPeer'
  BY <1>1 DEF IInv, ClosedPeer
<1>6. delivered' \in {delivered, Append(delivered, m)}
  BY <1>3 DEF TakeMessage, TakeReply, UnpackFails, TakeOther
<1>7. OneOwner'
  BY <1>1, <1>3, <1>6, ReceiveOneOwner
<1> HIDE DEF m
<1>8. ASSUME pc' = "idle", m.last \/ owed' PROVE IInv'
  <2>1. m.last => toClient' = <<>> /\ serving' = Idle /\ toServer' = <<>>
    BY <1>1, <1>2, <1>3, <1>4, ReadOne
  <2> QED
    BY <1>3, <1>5, <1>7, <1>8, <2>1 DEF IInv, QuietWhenReady
<1>9. CASE TakeReply(m) /\ CallbackContinues(m)
  <2>1. /\ delivered' = Append(delivered, m) /\ retval' = RIACK_SUCCESS
        /\ pc' = "receiving" /\ ~owed' /\ Callback[call.op] = "stream" /\ ~m.last
    BY <1>1, <1>9 DEF TakeReply, CallbackContinues, IInv, Waiting
  <2>2. /\ Len(toClient') = Len(toClient) - 1 /\ Len(delivered') = Len(delivered) + 1
        /\ delivered' # <<>> /\ Len(toClient) \in Nat /\ Len(delivered) \in Nat
        /\ \A i \in 1 .. Len(toClient') : i + 1 \in 1 .. Len(toClient)
                                          /\ toClient'[i] = toClient[i + 1]
    BY <1>1, <1>2, <1>3, <1>4, <2>1, ReadOne
  <2>3. serving # Idle => serving.sent = Len(delivered') + Len(toClient')
    BY <1>1, <2>2 DEF IInv, Waiting
  <2>4. serving # Idle => \A i \in 1 .. Len(toClient') : ~toClient'[i].last
    BY <1>1, <2>2 DEF IInv, Waiting
  <2>5. Waiting'
    BY <1>1, <1>2, <1>3, <2>1, <2>2, <2>3, <2>4 DEF IInv, Waiting
  <2>6. RestOfAnswer'
    <3> SUFFICES ASSUME NEW i \in 1 .. Len(toClient')
                 PROVE  /\ toClient'[i].n = Len(delivered') + i
                        /\ toClient'[i].code \in {RespCode[call'.op], ErrorCode}
                        /\ toClient'[i].last => i = Len(toClient')
                        /\ ~toClient'[i].last => toClient'[i].code = RespCode[call'.op]
                                                 /\ Callback[call'.op] = "stream"
      BY DEF RestOfAnswer
    <3>1. i + 1 \in 1 .. Len(toClient) /\ toClient'[i] = toClient[i + 1]
      BY <2>2
    <3>2. /\ toClient[i + 1].n = Len(delivered) + (i + 1)
          /\ toClient[i + 1].code \in {RespCode[call.op], ErrorCode}
          /\ toClient[i + 1].last => i + 1 = Len(toClient)
          /\ ~toClient[i + 1].last => toClient[i + 1].code = RespCode[call.op]
                                      /\ Callback[call.op] = "stream"
      BY <1>1, <3>1 DEF IInv, RestOfAnswer
    <3>3. toClient'[i].n = Len(delivered') + i
      BY <2>2, <3>1, <3>2
    <3>4. toClient'[i].last => i = Len(toClient')
      BY <2>2, <3>1, <3>2
    <3>5. call' = call
      BY <1>1, <1>2
    <3> QED
      BY <3>1, <3>2, <3>3, <3>4, <3>5
  <2> QED
    BY <1>5, <1>7, <2>1, <2>5, <2>6 DEF IInv, QuietWhenReady
<1>10. CASE TakeReply(m) /\ ~CallbackContinues(m)
  <2>1. pc' = "idle" /\ m.last
    BY <1>2, <1>10 DEF TakeReply, CallbackContinues, Return
  <2> QED
    BY <1>8, <2>1
<1>11. CASE UnpackFails(m)
  <2>1. pc' = "idle" /\ owed' = (RIACK_FAILED_PB_UNPACK \in ReconnectOn) /\ UnpackMayFail
    BY <1>2, <1>11 DEF UnpackFails, Return, UnpackCanFail
  <2>2. m.last \/ owed'
    BY <1>2, <2>1 DEF Disciplined
  <2> QED
    BY <1>8, <2>1, <2>2
<1>12. CASE TakeOther(m)
  <2>1. pc' = "idle" /\ m.last
    BY <1>2, <1>12 DEF TakeOther, Return
  <2> QED
    BY <1>8, <2>1
<1> QED
  BY <1>3, <1>9, <1>10, <1>11, <1>12 DEF TakeMessage

LEMMA ReceiveFailsIInv ==
    ASSUME Disciplined, IInv, TypeOK', ReceiveFails
    PROVE  IInv'
<1>1. /\ pc = "receiving" /\ pc' = "idle" /\ owed' = (retval \in ReconnectOn)
      /\ UNCHANGED <<call, delivered, toServer, toClient, serving, peerOpen>>
  BY DEF ReceiveFails, Return
<1>2. Waiting /\ OneOwner /\ ClosedPeer
  BY <1>1 DEF IInv
<1>3. OneOwner' /\ ClosedPeer'
  BY <1>1, <1>2 DEF OneOwner, ClosedPeer
<1>4. CASE RecvTimeout
  <2>1. delivered = <<>> /\ retval = RIACK_ERROR_COMMUNICATION
    BY <1>2, <1>4 DEF Waiting, Disciplined
  <2> QED
    BY <1>1, <1>3, <2>1 DEF IInv, QuietWhenReady, Disciplined
<1>5. CASE ~RecvTimeout
  <2>1. ~peerOpen /\ toClient = <<>> /\ UNCHANGED aligned
    BY <1>5 DEF ReceiveFails
  <2>2. toServer = <<>> /\ serving = Idle /\ aligned
    BY <1>2, <2>1 DEF ClosedPeer, Waiting
  <2> QED
    BY <1>1, <1>3, <2>1, <2>2 DEF IInv, QuietWhenReady
<1> QED
  BY <1>4, <1>5

LEMMA ServeIInv ==
    ASSUME IInv, TypeOK', Serve
    PROVE  IInv'
<1>1. /\ peerOpen /\ serving = Idle /\ toServer # <<>>
      /\ serving' = Serving(Head(toServer))
      /\ UNCHANGED <<clientVars, toClient, peerOpen, aligned>>
  BY DEF Serve, IInv, TypeOK, WireOK
<1>2. /\ toServer \in Seq(Requests) /\ Head(toServer) = toServer[1] /\ 1 \in 1 .. Len(toServer)
      /\ Len(toServer) = 1
  <2>1. toServer \in Seq(Requests) /\ Len(toServer) <= 1
    BY DEF IInv, TypeOK, WireOK, OneOwner
  <2>2. Len(toServer) \in Nat \ {0}
    BY <1>1, <2>1, EmptySeq
  <2>3. \A n \in Nat \ {0} : n <= 1 => n = 1
    OBVIOUS
  <2>4. Len(toServer) = 1
    BY <2>1, <2>2, <2>3
  <2> QED
    BY <2>1, <2>4
<1>3. toServer' = <<>> /\ Len(toServer') = 0
  <2>1. toServer' = Tail(toServer)
    BY <1>2 DEF Serve
  <2>2. Tail(toServer) \in Seq(Requests) /\ Len(Tail(toServer)) = 0
    BY <1>1, <1>2, HeadTailProperties
  <2> QED
    BY <2>1, <2>2, EmptySeq
<1>4. serving'.id = call.id /\ serving'.sent = 0 /\ serving'.op = toServer[1].op
  BY <1>1, <1>2 DEF Serving, IInv, OneOwner
<1>5. OneOwner'
  <2>1. UNCHANGED <<call, toClient, delivered>>
    BY <1>1 DEF clientVars
  <2> QED
    BY <1>3, <1>4, <2>1 DEF IInv, OneOwner
<1>6. ClosedPeer'
  BY <1>1 DEF ClosedPeer
<1>7. ASSUME pc = "receiving" PROVE Waiting' /\ RestOfAnswer'
  <2>1. /\ Len(toServer) = 1 /\ toServer[1].op = call.op /\ toServer[1].whole
        /\ toClient = <<>> /\ delivered = <<>>
    BY <1>1, <1>7 DEF IInv, Waiting
  <2>3. UNCHANGED <<call, toClient, delivered, retval, owed, aligned>>
    BY <1>1 DEF clientVars
  <2>4. Len(toClient) = 0 /\ Len(delivered) = 0
    BY <2>1
  <2> QED
    BY <1>3, <1>4, <1>7, <2>1, <2>3, <2>4 DEF IInv, Waiting, RestOfAnswer
<1>8. QuietWhenReady'
  BY <1>1 DEF IInv, QuietWhenReady, clientVars
<1> QED
  BY <1>1, <1>5, <1>6, <1>7, <1>8 DEF IInv, clientVars

(* The node adds the next message to its answer: a chunk of the stream the
   command asked for, or the end of the answer. *)
LEMMA AnsweringIInv ==
    ASSUME IInv, TypeOK', NEW code \in Nat, NEW last \in BOOLEAN, serving # Idle,
           ~last => code = RespCode[serving.op] /\ Callback[serving.op] = "stream",
           code \in {RespCode[serving.op], ErrorCode},
           Answering(Answer(code, last))
    PROVE  IInv'
<1> DEFINE m == Answer(code, last)
<1>1. /\ peerOpen /\ toClient' = Append(toClient, m)
      /\ serving' = IF m.last THEN Idle ELSE [serving EXCEPT !.sent = @ + 1]
      /\ UNCHANGED <<clientVars, toServer, peerOpen, aligned>>
  BY DEF Answering
<1>2. UNCHANGED <<call, delivered, pc, retval, owed>>
  BY <1>1 DEF clientVars
<1>3. serving \in [id : Nat, op : Ops, sent : Nat] /\ serving.id = call.id
  BY DEF IInv, TypeOK, WireOK, Servings, OneOwner
<1>4. /\ m \in Replies /\ m.id = call.id /\ m.code = code /\ m.n = serving.sent + 1
      /\ m.last = last
  BY <1>3 DEF Answer, Replies
<1> HIDE DEF m
<1>5. toClient \in Seq(Replies) /\ Len(toClient) \in Nat
  BY DEF IInv, TypeOK, WireOK
<1>6. /\ Len(toClient') = Len(toClient) + 1
      /\ \A i \in 1 .. Len(toClient) : toClient'[i] = toClient[i]
      /\ toClient'[Len(toClient) + 1] = m
  BY <1>1, <1>4, <1>5, AppendProperties
<1>7. \A i \in 1 .. Len(toClient') : i \in 1 .. Len(toClient) \/ i = Len(toClient) + 1
  BY <1>5, <1>6
<1>8. ~last => /\ serving'.id = serving.id /\ serving'.op = serving.op
               /\ serving'.sent = serving.sent + 1 /\ serving.sent \in Nat
  BY <1>1, <1>3, <1>4
<1>9. last => serving' = Idle
  BY <1>1, <1>4
<1>10. OneOwner'
  <2>1. \A i \in 1 .. Len(toClient') : toClient'[i].id = call.id
    BY <1>4, <1>6, <1>7 DEF IInv, OneOwner
  <2>2. serving' # Idle => serving'.id = call.id
    BY <1>3, <1>8, <1>9
  <2> QED
    BY <1>1, <1>2, <2>1, <2>2 DEF IInv, OneOwner
<1>11. ClosedPeer' /\ QuietWhenReady'
  BY <1>1, <1>2 DEF IInv, ClosedPeer, QuietWhenReady
<1>12. ASSUME pc = "receiving" PROVE Waiting' /\ RestOfAnswer'
  <2>1. /\ Waiting /\ RestOfAnswer
        /\ serving.op = call.op /\ serving.sent = Len(delivered) + Len(toClient)
        /\ \A i \in 1 .. Len(toClient) : ~toClient[i].last
        /\ toServer = <<>>
    BY <1>12 DEF IInv, Waiting
  <2>2. serving' # Idle => /\ serving'.op = call.op
                           /\ serving'.sent = Len(delivered) + Len(toClient')
                           /\ \A i \in 1 .. Len(toClient') : ~toClient'[i].last
    <3>1. CASE last
      BY <1>9, <3>1
    <3>2. CASE ~last
      <4>1. Len(delivered) \in Nat
        BY DEF IInv, TypeOK, CommandOK
      <4>2. serving'.sent = Len(delivered) + Len(toClient')
        BY <1>5, <1>6, <1>8, <2>1, <3>2, <4>1
      <4>3. \A i \in 1 .. Len(toClient') : ~toClient'[i].last
        BY <1>4, <1>6, <1>7, <2>1, <3>2
      <4> QED
        BY <1>8, <2>1, <3>2, <4>2, <4>3
    <3> QED
      BY <3>1, <3>2
  <2>3. Waiting'
    BY <1>1, <1>2, <2>1, <2>2 DEF Waiting
  <2>4. RestOfAnswer'
    <3> SUFFICES ASSUME NEW i \in 1 .. Len(toClient')
                 PROVE  /\ toClient'[i].n = Len(delivered) + i
                        /\ toClient'[i].code \in {RespCode[call.op], ErrorCode}
                        /\ toClient'[i].last => i = Len(toClient')
                        /\ ~toClient'[i].last => toClient'[i].code = RespCode[call.op]
                                                 /\ Callback[call.op] = "stream"
      BY <1>2 DEF RestOfAnswer
    <3>1. CASE i \in 1 .. Len(toClient)
      BY <1>6, <2>1, <3>1 DEF RestOfAnswer
    <3>2. CASE i = Len(toClient) + 1
      <4>1. toClient'[i] = m /\ Len(delivered) \in Nat
        BY <1>6, <3>2 DEF IInv, TypeOK, CommandOK
      <4>2. m.n = Len(delivered) + i
        BY <1>4, <1>5, <2>1, <3>2, <4>1
      <4> QED
        BY <1>4, <1>6, <2>1, <3>2, <4>1, <4>2
    <3> QED
      BY <1>7, <3>1, <3>2
  <2> QED
    BY <2>3, <2>4
<1> QED
  BY <1>2, <1>10, <1>11, <1>12 DEF IInv

LEMMA PeerClosesIInv ==
    ASSUME IInv, TypeOK', PeerCloses
    PROVE  IInv'
<1>1. PICK k \in 0 .. Len(toClient) : toClient' = SubSeq(toClient, 1, k)
  BY DEF PeerCloses
<1>2. /\ ~peerOpen' /\ toServer' = <<>> /\ serving' = Idle
      /\ UNCHANGED <<call, delivered, pc, retval, owed, aligned>>
  BY DEF PeerCloses, clientVars
<1>3. toClient \in Seq(Replies) /\ Len(toClient) \in Nat
  BY DEF IInv, TypeOK, WireOK
<1>4. /\ Len(toClient') = k
      /\ \A i \in 1 .. k : i \in 1 .. Len(toClient) /\ toClient'[i] = toClient[i]
  <2>1. \A i \in 1 .. k : i \in 1 .. Len(toClient) /\ toClient[i] \in Replies
    BY <1>3
  <2>2. /\ Len(SubSeq(toClient, 1, k)) = k
        /\ \A i \in 1 .. k : SubSeq(toClient, 1, k)[i] = toClient[i]
    BY <1>3, <2>1, SubSeqProperties
  <2> QED
    BY <1>1, <2>1, <2>2
<1>5. OneOwner' /\ ClosedPeer'
  BY <1>2, <1>4 DEF IInv, OneOwner, ClosedPeer
<1>6. pc = "receiving" => Waiting'
  BY <1>2 DEF IInv, Waiting
<1>7. pc = "receiving" => RestOfAnswer'
  <2> SUFFICES ASSUME pc = "receiving", NEW i \in 1 .. k
               PROVE  /\ toClient'[i].n = Len(delivered) + i
                      /\ toClient'[i].code \in {RespCode[call.op], ErrorCode}
                      /\ toClient'[i].last => i = k
                      /\ ~toClient'[i].last => toClient'[i].code = RespCode[call.op]
                                               /\ Callback[call.op] = "stream"
    BY <1>2, <1>4 DEF RestOfAnswer
  <2>1. i \in 1 .. Len(toClient) /\ toClient'[i] = toClient[i]
    BY <1>4
  <2>2. toClient[i].last => i = Len(toClient)
    BY <2>1 DEF IInv, RestOfAnswer
  <2> QED
    BY <1>3, <2>1, <2>2 DEF IInv, RestOfAnswer
<1>8. QuietWhenReady'
  <2>1. toClient = <<>> => k = 0
    BY <1>1
  <2>2. k = 0 => toClient' = <<>>
    BY <1>1, SubSeqEmpty
  <2> QED
    BY <1>2, <2>1, <2>2 DEF IInv, QuietWhenReady
<1> QED
  BY <1>2, <1>5, <1>6, <1>7, <1>8 DEF IInv

(* The inductive invariant holds for a disciplined application. *)
THEOREM InductiveInvariant ==
    ASSUME Disciplined
    PROVE  Spec => []IInv
<1>1. IInv /\ TypeOK' /\ [Next]_vars => IInv'
  <2> SUFFICES ASSUME IInv, TypeOK', [Next]_vars PROVE IInv'
    OBVIOUS
  <2>1. CASE Connect
    <3>1. pc' # "receiving" /\ UNCHANGED <<call, delivered>>
      BY <2>1 DEF Connect
    <3>2. PICK b \in BOOLEAN : FreshWire(b)
      BY <2>1 DEF Connect, ConnectFrom, SockOpenFails
    <3> QED
      BY <3>1, <3>2, FreshWireIInv
  <2>2. CASE Reconnect
    <3>1. pc' # "receiving" /\ UNCHANGED <<call, delivered>>
      BY <2>2 DEF Reconnect
    <3>2. PICK b \in BOOLEAN : FreshWire(b)
      BY <2>2 DEF Reconnect, ConnectFrom, SockOpenFails
    <3> QED
      BY <3>1, <3>2, FreshWireIInv
  <2>3. CASE Disconnect
    BY <2>3, FreshWireIInv DEF Disconnect
  <2>4. CASE Free
    BY <2>4, FreshWireIInv DEF Free
  <2>5. ASSUME NEW op \in Ops, Send(op) PROVE IInv'
    BY <2>5, SendIInv
  <2>6. ASSUME NEW op \in Ops, SendFails(op) PROVE IInv'
    BY <2>6, SendFailsIInv
  <2>7. CASE Receive
    BY <2>7, ReceiveIInv
  <2>8. CASE ReceiveFails
    BY <2>8, ReceiveFailsIInv
  <2>9. CASE Serve
    BY <2>9, ServeIInv
  <2>10. serving # Idle => RespCode[serving.op] \in Nat
    BY OpsAssumption DEF IInv, TypeOK, WireOK, Servings
  <2>11. CASE Finish
    BY <2>10, <2>11, AnsweringIInv DEF Finish
  <2>12. CASE Chunk
    BY <2>10, <2>12, AnsweringIInv DEF Chunk
  <2>13. CASE Refuse
    BY <2>13, AnsweringIInv, OpsAssumption DEF Refuse
  <2>14. CASE PeerCloses
    BY <2>14, PeerClosesIInv
  <2>15. CASE UNCHANGED vars
    BY <2>15 DEF vars, clientVars, wireVars, IInv, OneOwner, ClosedPeer, Waiting,
                 RestOfAnswer, QuietWhenReady
  <2> QED
    BY <2>1, <2>2, <2>3, <2>4, <2>5, <2>6, <2>7, <2>8, <2>9, <2>11, <2>12, <2>13,
       <2>14, <2>15 DEF Next, Application, Command, Node, Terminated
<1> QED
  BY <1>1, InitIInv, TypeCorrect, PTL DEF Spec

(* The safety properties of the last command's replies follow from it: a command
   is handed its own replies only, in the order the node sent them, and leaves
   nothing behind on the connection for the next one. *)
THEOREM RepliesAreOwn ==
    ASSUME Disciplined
    PROVE  Spec => [](OwnReplies /\ InOrder /\ QuietWhenReady)
<1>1. IInv => OwnReplies /\ InOrder /\ QuietWhenReady
  <2> SUFFICES ASSUME IInv PROVE OwnReplies /\ InOrder /\ QuietWhenReady
    OBVIOUS
  <2>1. DOMAIN delivered = 1 .. Len(delivered)
    BY DEF IInv, TypeOK, CommandOK
  <2> QED
    BY <2>1 DEF IInv, OneOwner, OwnReplies, InOrder
<1> QED
  BY <1>1, InductiveInvariant, PTL

(* The callback sees the messages of an answer in the order the node sent them,
   none skipped and none twice, whatever the code makes of them. *)
THEOREM RepliesInOrder ==
    ASSUME Disciplined
    PROVE  Spec => []InOrder
BY RepliesAreOwn, PTL

(* No request is ever sent behind one that was cut short: there is never more
   than one on its way. *)
THEOREM NoMixedRequests ==
    ASSUME Disciplined
    PROVE  Spec => []NoRequestAfterTorn
<1>1. IInv => NoRequestAfterTorn
  <2> SUFFICES ASSUME IInv, NEW i \in 1 .. Len(toServer) - 1 PROVE FALSE
    BY DEF NoRequestAfterTorn
  <2>1. Len(toServer) \in Nat /\ Len(toServer) <= 1
    BY DEF IInv, OneOwner, TypeOK, WireOK
  <2> QED
    BY <2>1
<1> QED
  BY <1>1, InductiveInvariant, PTL

-----------------------------------------------------------------------------
(* The error text. *)

(* A message with another code than the awaited one is the node's refusal of
   this very command. *)
LEMMA OtherIsRefusal ==
    ASSUME IInv, Receive, NEW m, m = Head(toClient), ~MatchesCall(m)
    PROVE  TakeOther(m) /\ m.code = ErrorCode /\ m.id = call.id /\ aligned
<1>1. pc = "receiving" /\ toClient # <<>>
  BY DEF Receive
<1>2. m.id = call.id /\ aligned
  BY <1>1, HeadOfAnswer
<1>3. m.code = ErrorCode
  <2>1. toClient \in Seq(Replies) /\ Len(toClient) \in Nat \ {0}
    BY <1>1, EmptySeq DEF IInv, TypeOK, WireOK
  <2>2. 1 \in 1 .. Len(toClient) /\ m = toClient[1]
    BY <1>1, <2>1
  <2> QED
    BY <1>1, <2>2 DEF IInv, RestOfAnswer, MatchesCall
<1>4. TakeOther(m)
  BY <1>2 DEF Receive, TakeMessage, TakeReply, UnpackFails
<1> QED
  BY <1>2, <1>3, <1>4

(* Its text is copied if there is memory to unpack it. *)
LEMMA RefusalIsOwn ==
    ASSUME IInv, ~UnpackMayFail, Receive, NEW m, m = Head(toClient), ~MatchesCall(m)
    PROVE  lastErrorMem' = "live" /\ lastErrorFrom' = call.id
BY OtherIsRefusal DEF TakeOther, GotErrorResponse, UnpackCanFail

(* Reading anything else leaves the error text alone. *)
LEMMA AnswerKeepsError ==
    ASSUME IInv, Receive, MatchesCall(Head(toClient))
    PROVE  /\ UNCHANGED <<lastErrorMem, lastErrorFrom>>
           /\ TakeReply(Head(toClient)) \/ UnpackFails(Head(toClient))
<1>1. aligned
  BY HeadOfAnswer DEF Receive
<1> QED
  BY <1>1 DEF Receive, TakeMessage, TakeReply, UnpackFails, TakeOther

(* With memory to unpack the refusal, RIACK_ERROR_RESPONSE always comes with the
   error text of the command that returns it. *)
THEOREM ErrorTextBelongs ==
    ASSUME Disciplined, ~UnpackMayFail
    PROVE  Spec => ErrorTextIsOwn
<1> DEFINE A == pc = "receiving" /\ pc' = "idle" /\ retval' = RIACK_ERROR_RESPONSE =>
                   lastErrorMem' = "live" /\ lastErrorFrom' = call.id
<1>1. IInv /\ [Next]_vars => [A]_vars
  <2> SUFFICES ASSUME IInv, Next, pc = "receiving", pc' = "idle",
                      retval' = RIACK_ERROR_RESPONSE
               PROVE  lastErrorMem' = "live" /\ lastErrorFrom' = call.id
    OBVIOUS
  <2>1. Receive \/ ReceiveFails
    BY DEF Next, Application, Command, Node, Terminated, Connect, Reconnect, Disconnect,
           Free, Send, SendFails, NewCall, Serve, Finish, Chunk, Refuse, Answering,
           PeerCloses, clientVars
  <2>2. ~ReceiveFails
    <3>1. retval # RIACK_ERROR_RESPONSE
      BY DEF IInv, Waiting, RIACK_SUCCESS, RIACK_ERROR_COMMUNICATION, RIACK_ERROR_RESPONSE
    <3> QED
      BY <3>1 DEF ReceiveFails, Return
  <2>3. ~MatchesCall(Head(toClient))
    <3> SUFFICES ASSUME Receive, MatchesCall(Head(toClient)) PROVE FALSE
      BY <2>1, <2>2
    <3>1. retval' = RIACK_SUCCESS \/ retval' = RIACK_FAILED_PB_UNPACK
      BY AnswerKeepsError DEF TakeReply, UnpackFails, Return
    <3> QED
      BY <3>1 DEF RIACK_SUCCESS, RIACK_ERROR_RESPONSE, RIACK_FAILED_PB_UNPACK
  <2> QED
    BY <2>1, <2>2, <2>3, RefusalIsOwn
<1> QED
  BY <1>1, InductiveInvariant, PTL DEF Spec, ErrorTextIsOwn

(* With memory to unpack the refusal, last_error is never a dangling pointer. *)
THEOREM ErrorTextLives ==
    ASSUME Disciplined, ~UnpackMayFail
    PROVE  Spec => []LastErrorIsLive
<1>1. Init => LastErrorIsLive
  BY DEF Init, LastErrorIsLive
<1>2. IInv /\ LastErrorIsLive /\ [Next]_vars => LastErrorIsLive'
  <2> SUFFICES ASSUME IInv, lastErrorMem # "freed", [Next]_vars
               PROVE  lastErrorMem' # "freed"
    BY DEF LastErrorIsLive
  <2>1. CASE Receive
    <3>1. CASE MatchesCall(Head(toClient))
      BY <2>1, <3>1, AnswerKeepsError
    <3>2. CASE ~MatchesCall(Head(toClient))
      BY <2>1, <3>2, RefusalIsOwn
    <3> QED
      BY <3>1, <3>2
  <2>2. CASE Application
    BY <2>2 DEF Application, Connect, Reconnect, Disconnect, Free, ConnectFrom, SockOpenFails
  <2>3. CASE Node \/ UNCHANGED vars
    BY <2>3 DEF Node, Serve, Finish, Chunk, Refuse, Answering, PeerCloses, clientVars, vars
  <2>4. CASE ReceiveFails \/ \E op \in Ops : Send(op) \/ SendFails(op)
    BY <2>4 DEF ReceiveFails, Send, SendFails
  <2> QED
    BY <2>1, <2>2, <2>3, <2>4 DEF Next, Command, Terminated
<1> QED
  BY <1>1, <1>2, InductiveInvariant, PTL DEF Spec

-----------------------------------------------------------------------------
(* The descriptor. *)

(* An application that only ever calls riack_connect on a client that is not
   connected leaks no socket, in a process whose descriptor 0 is taken. *)
THEOREM NoDescriptorLeak ==
    ASSUME 0 \notin Fds, ~BareConnect
    PROVE  Spec => []OwnSocketOnly
<1>1. Init => OwnSocketOnly
  BY DEF Init, OwnSocketOnly
<1>2. \A fd \in Fds : fd > 0 /\ fd # -1
  BY BoundsAssumption
<1>3. TypeOK /\ OwnSocketOnly /\ [Next]_vars => OwnSocketOnly'
  <2> SUFFICES ASSUME TypeOK, OwnSocketOnly, [Next]_vars PROVE OwnSocketOnly'
    OBVIOUS
  <2>1. Disconnected = {}
    BY <1>2 DEF Disconnected, SockClose, OwnSocketOnly, TypeOK, ConnectionOK
  <2>2. ConnectFrom({}) => OwnSocketOnly'
    BY <1>2 DEF ConnectFrom, SockOpenFails, SockClose, OwnSocketOnly
  <2>3. CASE Connect
    <3>1. openFds = {}
      BY <2>3 DEF Connect, OwnSocketOnly
    <3> QED
      BY <2>2, <2>3, <3>1 DEF Connect
  <2>4. CASE Reconnect
    <3>1. ConnectFrom({})
      BY <2>1, <2>4 DEF Reconnect, ConnectFrom
    <3> QED
      BY <2>2, <3>1
  <2>5. CASE Disconnect \/ Free
    BY <2>1, <2>5 DEF Disconnect, Free, OwnSocketOnly
  <2>6. CASE Command \/ Node \/ UNCHANGED vars
    <3>1. UNCHANGED <<sockfd, openFds>>
      BY <2>6 DEF Command, Send, SendFails, Receive, ReceiveFails, Node, Serve, Finish,
                  Chunk, Refuse, Answering, PeerCloses, clientVars, vars
    <3> QED
      BY <3>1 DEF OwnSocketOnly
  <2> QED
    BY <2>3, <2>4, <2>5, <2>6 DEF Next, Application, Terminated
<1> QED
  BY <1>1, <1>3, TypeCorrect, PTL DEF Spec

-----------------------------------------------------------------------------
(* RiackCommand implements RequestReply for a disciplined application. *)

(* The abstract state in the names of the concrete one. *)
AbstractBusy == [on |-> pc = "receiving", streaming |-> call.op \in StreamingCalls]
ErrorOf == IF lastErrorMem = "live" THEN lastErrorFrom ELSE NoOne
HandedAll == [i \in DOMAIN delivered |-> Handed(delivered[i])]

(* Nothing delivered, nothing handed. *)
LEMMA HandedNothing ==
    ASSUME CommandOK
    PROVE  (HandedAll = <<>>) <=> (delivered = <<>>)
<1>1. delivered \in Seq(Replies)
  BY DEF CommandOK
<1>2. HandedAll \in Seq({Handed(r) : r \in Replies}) /\ Len(HandedAll) = Len(delivered)
  <2>1. DOMAIN delivered = 1 .. Len(delivered) /\ Len(delivered) \in Nat
    BY <1>1
  <2>2. \A i \in 1 .. Len(delivered) : delivered[i] \in Replies
    BY <1>1
  <2> QED
    BY <2>1, <2>2 DEF HandedAll
<1> QED
  BY <1>1, <1>2, EmptySeq

(* One more message delivered is one more handed. *)
LEMMA HandedOneMore ==
    ASSUME CommandOK, NEW m \in Replies, delivered' = Append(delivered, m)
    PROVE  HandedAll' = Append(HandedAll, Handed(m)) /\ Len(HandedAll) = Len(delivered)
<1> DEFINE S == {Handed(r) : r \in Replies}
<1>1. delivered \in Seq(Replies) /\ Len(delivered) \in Nat
      /\ DOMAIN delivered = 1 .. Len(delivered)
  BY DEF CommandOK
<1>2. /\ delivered' \in Seq(Replies) /\ Len(delivered') = Len(delivered) + 1
      /\ DOMAIN delivered' = 1 .. Len(delivered) + 1
      /\ \A i \in 1 .. Len(delivered) : delivered'[i] = delivered[i]
      /\ delivered'[Len(delivered) + 1] = m
  BY <1>1, AppendProperties
<1>3. HandedAll \in Seq(S) /\ Len(HandedAll) = Len(delivered)
  <2>1. \A i \in 1 .. Len(delivered) : Handed(delivered[i]) \in S
    BY <1>1
  <2> QED
    BY <1>1, <2>1 DEF HandedAll
<1>4. Handed(m) \in S
  OBVIOUS
<1>5. /\ Append(HandedAll, Handed(m)) \in Seq(S)
      /\ Len(Append(HandedAll, Handed(m))) = Len(delivered) + 1
      /\ \A i \in 1 .. Len(delivered) : Append(HandedAll, Handed(m))[i] = HandedAll[i]
      /\ Append(HandedAll, Handed(m))[Len(delivered) + 1] = Handed(m)
  <2> HIDE DEF S
  <2> QED
    BY <1>3, <1>4, <1>1, AppendProperties
<1>6. HandedAll' \in Seq(S) /\ Len(HandedAll') = Len(delivered) + 1
  <2>1. \A i \in 1 .. Len(delivered) + 1 : Handed(delivered'[i]) \in S
    BY <1>1, <1>2
  <2>2. Len(delivered) + 1 \in Nat
    BY <1>1
  <2> QED
    BY <1>2, <2>1, <2>2 DEF HandedAll
<1>7. \A i \in 1 .. Len(delivered) + 1 : HandedAll'[i] = Append(HandedAll, Handed(m))[i]
  <2> TAKE i \in 1 .. Len(delivered) + 1
  <2>1. HandedAll'[i] = Handed(delivered'[i])
    BY <1>2 DEF HandedAll
  <2>2. CASE i = Len(delivered) + 1
    BY <2>1, <2>2, <1>2, <1>5
  <2>3. CASE i \in 1 .. Len(delivered)
    BY <2>1, <2>3, <1>1, <1>2, <1>5 DEF HandedAll
  <2>4. i = Len(delivered) + 1 \/ i \in 1 .. Len(delivered)
    BY <1>1
  <2> QED
    BY <2>2, <2>3, <2>4
<1>8. HandedAll' = Append(HandedAll, Handed(m))
  <2> HIDE DEF S
  <2> QED
    BY <1>5, <1>6, <1>7, SeqEqual
<1> QED
  BY <1>3, <1>8

-----------------------------------------------------------------------------
(* The initial state is the abstract one. *)
LEMMA InitIsAbstract == Init => Contract!RRInit
<1> SUFFICES ASSUME Init PROVE Contract!RRInit
  OBVIOUS
<1>1. AbstractBusy = [on |-> FALSE, streaming |-> FALSE]
  <2>1. pc # "receiving" /\ call.op = "none"
    BY DEF Init, NoCall, NoOp
  <2>2. "none" \notin StreamingCalls
    BY OpsAssumption DEF StreamingCalls
  <2>3. (pc = "receiving") = FALSE /\ (call.op \in StreamingCalls) = FALSE
    BY <2>1, <2>2
  <2> QED
    BY <2>3 DEF AbstractBusy
<1>2. HandedAll = <<>>
  BY InitTypeOK, HandedNothing DEF Init, TypeOK
<1>3. call.id = 0 /\ retval = RIACK_ERROR_COMMUNICATION /\ ErrorOf = 0
  BY DEF Init, NoCall, NoOne, ErrorOf
<1> QED
  BY <1>1, <1>2, <1>3 DEF Contract!RRInit, AbstractBusy, HandedAll, ErrorOf

(* riack_perform_commmand up to the loop starts the abstract call. *)
LEMMA SendBegins ==
    ASSUME TypeOK, TypeOK', NEW op \in Ops, Send(op)
    PROVE  Contract!Begin(op)
<1>1. /\ pc = "idle" /\ pc' = "receiving" /\ call.id < MaxCalls
      /\ call'.id = call.id + 1 /\ call'.op = op
      /\ delivered' = <<>> /\ retval' = RIACK_ERROR_COMMUNICATION
      /\ UNCHANGED <<lastErrorMem, lastErrorFrom>>
  BY DEF Send, NewCall
<1>2. HandedAll' = <<>>
  <2>1. CommandOK'
    BY DEF TypeOK
  <2>2. (HandedAll = <<>> <=> delivered = <<>>)'
    BY <2>1, HandedNothing, PTL
  <2> QED
    BY <1>1, <2>2
<1> QED
  BY <1>1, <1>2 DEF Contract!Begin, Contract!Issue, HandedAll

(* A failed send starts and ends it. *)
LEMMA SendFailsEnds ==
    ASSUME TypeOK, TypeOK', NEW op \in Ops, SendFails(op)
    PROVE  Contract!NotSent(op)
<1>1. /\ pc = "idle" /\ pc' = "idle" /\ call.id < MaxCalls
      /\ call'.id = call.id + 1 /\ call'.op = op
      /\ delivered' = <<>> /\ retval' = RIACK_ERROR_COMMUNICATION
      /\ UNCHANGED <<lastErrorMem, lastErrorFrom>>
  BY DEF SendFails, NewCall, Return
<1>2. HandedAll' = <<>>
  <2>1. CommandOK'
    BY DEF TypeOK
  <2>2. (HandedAll = <<>> <=> delivered = <<>>)'
    BY <2>1, HandedNothing, PTL
  <2> QED
    BY <1>1, <2>2
<1>3. (pc' = "receiving") = FALSE
  BY <1>1
<1> QED
  BY <1>1, <1>2, <1>3 DEF Contract!NotSent, Contract!Issue, HandedAll

(* The end of a call, whatever its result: the busy flag goes down. *)
LEMMA ReturnEnds ==
    ASSUME pc = "receiving", NEW r, Return(r), UNCHANGED call
    PROVE  Contract!End(r)
<1>1. (pc' = "receiving") = FALSE
  BY DEF Return
<1>2. AbstractBusy' = [on |-> FALSE, streaming |-> AbstractBusy.streaming]
  BY <1>1 DEF AbstractBusy, StreamingCalls
<1> QED
  BY <1>2 DEF Contract!End, Return, AbstractBusy

(* The text of a refusal is kept, or there is none. *)
LEMMA RefusalText ==
    ASSUME IInv, Receive, NEW m, m = Head(toClient), ~MatchesCall(m)
    PROVE  TakeOther(m) /\ ErrorOf' \in {call.id, 0}
BY OtherIsRefusal DEF TakeOther, GotErrorResponse, ErrorOf, NoOne

(* A message taken from the connection is handed over, refuses the call, or
   cannot be read. *)
LEMMA ReceiveIsAbstract ==
    ASSUME IInv, Receive
    PROVE  Contract!Hand \/ Contract!Refuse \/ Contract!Misread
<1> DEFINE m == Head(toClient)
<1>1. pc = "receiving" /\ toClient # <<>> /\ UNCHANGED call
  BY DEF Receive
<1>2. m \in Replies /\ m.id = call.id /\ m.n = Len(delivered) + 1 /\ aligned
  BY <1>1, HeadOfAnswer
<1>3. CASE ~MatchesCall(m)
  <2>1. TakeOther(m) /\ ErrorOf' \in {call.id, 0}
    BY <1>3, RefusalText
  <2>2. Return(RIACK_ERROR_RESPONSE) /\ UNCHANGED delivered
    BY <2>1 DEF TakeOther
  <2>3. Contract!End(RIACK_ERROR_RESPONSE)
    BY <1>1, <2>2, ReturnEnds
  <2> QED
    BY <2>1, <2>2, <2>3 DEF Contract!Refuse, ErrorOf
<1>4. CASE MatchesCall(m) /\ UnpackFails(m)
  <2>1. Contract!End(RIACK_FAILED_PB_UNPACK)
    BY <1>1, <1>4, ReturnEnds DEF UnpackFails
  <2> QED
    BY <1>4, <2>1 DEF Contract!Misread, UnpackFails
<1>5. CASE MatchesCall(m) /\ TakeReply(m)
  <2>1. delivered' = Append(delivered, m) /\ UNCHANGED <<lastErrorMem, lastErrorFrom>>
    BY <1>5 DEF TakeReply
  <2>2. HandedAll' = Append(HandedAll, Handed(m)) /\ Len(HandedAll) = Len(delivered)
    BY <1>2, <2>1, HandedOneMore DEF IInv, TypeOK
  <2>3. Handed(m) = [call |-> call.id, n |-> Len(HandedAll) + 1]
    BY <1>2, <2>2 DEF Handed
  <2>4. CASE CallbackContinues(m)
    <3>1. retval' = RIACK_SUCCESS /\ UNCHANGED pc
      BY <1>5, <2>4 DEF TakeReply
    <3>2. call.op \in StreamingCalls
      BY <1>1, <2>4 DEF CallbackContinues, StreamingCalls, IInv, Waiting
    <3> QED
      BY <1>1, <2>1, <2>2, <2>3, <3>1, <3>2 DEF Contract!Hand, HandedAll
  <2>5. CASE ~CallbackContinues(m)
    <3>1. Contract!End(RIACK_SUCCESS)
      BY <1>1, <1>5, <2>5, ReturnEnds DEF TakeReply
    <3> QED
      BY <2>1, <2>2, <2>3, <3>1 DEF Contract!Hand, HandedAll
  <2> QED
    BY <2>4, <2>5
<1> QED
  BY <1>3, <1>4, <1>5, AnswerKeepsError

(* A connection that fails ends the call with what it had. *)
LEMMA ReceiveFailsIsAbstract ==
    ASSUME IInv, ReceiveFails
    PROVE  Contract!Lose
<1>1. /\ pc = "receiving" /\ Return(retval)
      /\ UNCHANGED <<call, delivered, lastErrorMem, lastErrorFrom>>
  BY DEF ReceiveFails
<1>2. Contract!End(retval)
  BY <1>1, ReturnEnds
<1>3. retval = IF delivered = <<>> THEN RIACK_ERROR_COMMUNICATION ELSE RIACK_SUCCESS
  BY <1>1 DEF IInv, Waiting
<1>4. HandedAll = <<>> <=> delivered = <<>>
  BY HandedNothing DEF IInv, TypeOK
<1> QED
  BY <1>1, <1>2, <1>3, <1>4 DEF Contract!Lose, HandedAll

(* The connection's life cycle changes nothing of a call; a socket whose options
   cannot be set replaces the error text. *)
LEMMA ApplicationIsAbstract ==
    ASSUME Application
    PROVE  Contract!Overwrite \/ UNCHANGED Contract!abstractVars
<1>1. UNCHANGED <<call, retval, delivered>> /\ pc # "receiving" /\ pc' # "receiving"
  BY DEF Application, Connect, Reconnect, Disconnect, Free
<1>2. ErrorOf' \in {ErrorOf, 0}
  BY DEF Application, Connect, Reconnect, Disconnect, Free, ConnectFrom, SockOpenFails,
         NoOne, ErrorOf
<1>3. (pc = "receiving") = FALSE /\ (pc' = "receiving") = FALSE
  BY <1>1
<1> QED
  BY <1>1, <1>2, <1>3 DEF Contract!Overwrite, Contract!abstractVars, ErrorOf

(* RiackCommand implements RequestReply for a disciplined application. *)
THEOREM ImplementsContract ==
    ASSUME Disciplined
    PROVE  Spec => KeepsContract
<1>1. Init => Contract!RRInit
  BY InitIsAbstract
<1>2. IInv /\ TypeOK' /\ [Next]_vars => [Contract!RRNext]_(Contract!abstractVars)
  <2> SUFFICES ASSUME IInv, TypeOK', [Next]_vars
               PROVE  Contract!RRNext \/ UNCHANGED Contract!abstractVars
    OBVIOUS
  <2>1. TypeOK
    BY DEF IInv
  <2>2. CASE Application
    BY <2>2, ApplicationIsAbstract DEF Contract!RRNext
  <2>3. ASSUME NEW op \in Ops, Send(op) PROVE Contract!RRNext
    BY <2>1, <2>3, SendBegins DEF Contract!RRNext
  <2>4. ASSUME NEW op \in Ops, SendFails(op) PROVE Contract!RRNext
    BY <2>1, <2>4, SendFailsEnds DEF Contract!RRNext
  <2>5. CASE Receive
    BY <2>5, ReceiveIsAbstract DEF Contract!RRNext
  <2>6. CASE ReceiveFails
    BY <2>6, ReceiveFailsIsAbstract DEF Contract!RRNext
  <2>7. CASE Node \/ UNCHANGED vars
    <3>1. UNCHANGED <<pc, call, retval, delivered, lastErrorMem, lastErrorFrom>>
      BY <2>7 DEF Node, Serve, Finish, Chunk, Refuse, Answering, PeerCloses, clientVars, vars
    <3> QED
      BY <3>1 DEF Contract!abstractVars
  <2> QED
    BY <2>2, <2>3, <2>4, <2>5, <2>6, <2>7 DEF Next, Command, Terminated
<1> QED
  BY <1>1, <1>2, InductiveInvariant, TypeCorrect, PTL DEF Spec, KeepsContract, Contract!RRSpec

-----------------------------------------------------------------------------
(* Whole answers. *)

(* As long as nothing is streamed, RIACK_SUCCESS means that the answer, which is
   one message, has been received. *)
THEOREM SingleAnswersAreComplete ==
    ASSUME Disciplined, \A op \in Ops : Callback[op] # "stream"
    PROVE  Spec => []SuccessIsComplete
<1>1. Init => SuccessIsComplete
  BY DistinctResults DEF Init, SuccessIsComplete
<1>2. IInv /\ SuccessIsComplete /\ [Next]_vars => SuccessIsComplete'
  <2> SUFFICES ASSUME IInv, SuccessIsComplete, [Next]_vars, pc' = "idle",
                      retval' = RIACK_SUCCESS
               PROVE  delivered' # <<>> /\ delivered'[Len(delivered')].last
    BY DEF SuccessIsComplete
  <2>1. CASE Receive
    <3> DEFINE m == Head(toClient)
    <3>1. pc = "receiving" /\ toClient # <<>>
      BY <2>1 DEF Receive
    <3>2. m \in Replies /\ m.last /\ aligned
      BY <3>1, HeadOfAnswer DEF IInv, Waiting
    <3>3. delivered' = Append(delivered, m)
      BY <2>1, <3>2, DistinctResults DEF Receive, TakeMessage, TakeReply, UnpackFails,
         TakeOther, Return
    <3>4. delivered \in Seq(Replies) /\ Len(delivered) \in Nat
      BY DEF IInv, TypeOK, CommandOK
    <3>5. Len(delivered') = Len(delivered) + 1 /\ delivered'[Len(delivered) + 1] = m
      BY <3>2, <3>3, <3>4, AppendProperties
    <3>6. delivered' # <<>>
      BY <3>2, <3>3, <3>4, AppendProperties
    <3> QED
      BY <3>2, <3>5, <3>6
  <2>2. CASE ReceiveFails
    <3>1. pc = "receiving" /\ retval = RIACK_SUCCESS
      BY <2>2 DEF ReceiveFails, Return
    <3>2. delivered # <<>> /\ call.op \in Ops /\ Callback[call.op] = "stream"
      BY <3>1, DistinctResults DEF IInv, Waiting
    <3> QED
      BY <3>2
  <2>3. CASE \E op \in Ops : Send(op) \/ SendFails(op)
    BY <2>3, DistinctResults DEF Send, SendFails, Return
  <2>4. CASE Application \/ Node \/ UNCHANGED vars
    <3>1. pc = "idle" /\ UNCHANGED <<retval, delivered>>
      BY <2>4 DEF Application, Connect, Reconnect, Disconnect, Free, Node, Serve, Finish,
                  Chunk, Refuse, Answering, PeerCloses, clientVars, vars
    <3> QED
      BY <3>1 DEF SuccessIsComplete
  <2> QED
    BY <2>1, <2>2, <2>3, <2>4 DEF Next, Command, Terminated
<1> QED
  BY <1>1, <1>2, InductiveInvariant, PTL DEF Spec

=============================================================================
