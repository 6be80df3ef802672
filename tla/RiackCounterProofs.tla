------------------------- MODULE RiackCounterProofs -------------------------
(***************************************************************************)
(* Proofs about RiackCounter: the counter lies between the increments that *)
(* have succeeded and those that were called, and the values told never    *)
(* go back, for any number of calls, failures and closed connections.      *)
(***************************************************************************)
EXTENDS RiackCounter, RiackCommandProofs, FiniteSetTheorems

(* A step of the counter is one of the command engine or none. *)
LEMMA StepOfEngine == [CounterNext]_counterVars => [Next]_vars
<1>1. Issue => Next
  BY DEF Issue, Next, Command
<1>2. Answered => Next
  BY DEF Answered, Next, Command
<1>3. Execute => UNCHANGED vars
  BY DEF Execute
<1>4. Others => Next
  BY DEF Others, FinishExecuted, Next, Command, Node
<1> QED
  BY <1>1, <1>2, <1>3, <1>4 DEF CounterNext, counterVars

LEMMA EngineBelow == CounterSpec => Spec
<1>1. CounterInit => Init
  BY DEF CounterInit
<1> QED
  BY <1>1, StepOfEngine, PTL DEF CounterSpec, Spec

-----------------------------------------------------------------------------
(* What goes out *)

ArrivedRequests == [id : Nat, op : Ops, asked : BOOLEAN]

(* The node's reading makes the queue shorter. *)
LEMMA ServeShortens ==
    ASSUME TypeOK, Serve
    PROVE  Len(toServer') <= Len(toServer)
<1>1. toServer \in Seq(Requests) /\ Len(toServer) \in Nat
  BY DEF TypeOK, WireOK
<1>2. CASE toServer # <<>> /\ toServer' = Tail(toServer)
  <2>1. Len(Tail(toServer)) = Len(toServer) - 1
    BY <1>1, <1>2, HeadTailProperties
  <2> QED
    BY <1>1, <1>2, <2>1
<1>3. CASE Len(toServer) > 1 /\ toServer' = [Tail(toServer) EXCEPT ![1].whole = FALSE]
  <2>1. /\ Tail(toServer) \in Seq(Requests) /\ Len(Tail(toServer)) = Len(toServer) - 1
        /\ 1 \in 1 .. Len(Tail(toServer))
    BY <1>1, <1>3
  <2>2. [Tail(toServer)[1] EXCEPT !.whole = FALSE] \in Requests
    <3>1. Tail(toServer)[1] \in Requests
      BY <2>1, ElementOfSeq
    <3> QED
      BY <3>1 DEF Requests
  <2>3. Len(toServer') = Len(Tail(toServer))
    BY <1>3, <2>1, <2>2, ExceptSeq
  <2> QED
    BY <1>1, <2>1, <2>3
<1> QED
  BY <1>2, <1>3 DEF Serve

(* Only a call that sends its whole request adds one to those that arrive. *)
LEMMA OnlyIssueAdds ==
    ASSUME TypeOK, TypeOK', ~Issue, CounterNext
    PROVE  arrived' = arrived /\ tried' = tried /\ call' = call
<1>1. Len(toServer) \in Nat /\ Len(<<>>) <= Len(toServer)
  BY DEF TypeOK, WireOK
<1> DEFINE Kept == Len(toServer') <= Len(toServer) /\ tried' = tried /\ call' = call
<1>2. Answered => Kept
  BY <1>1 DEF Answered, Receive
<1>3. Execute => Kept
  BY <1>1 DEF Execute, vars, wireVars, clientVars, appVars
<1>4. ASSUME Others, UNCHANGED appVars PROVE Kept
  <2>1. tried' = tried
    BY <1>4 DEF appVars
  <2>2. CASE ReceiveFails
    BY <1>1, <2>1, <2>2 DEF ReceiveFails
  <2>3. CASE Application
    <3>1. call' = call
      BY <2>3 DEF Application, Connect, Reconnect, Disconnect, Free
    <3>2. toServer' = <<>>
      BY <2>3 DEF Application, Connect, Reconnect, Disconnect, Free, ConnectFrom, SockOpenFails, FreshWire
    <3> QED
      BY <1>1, <2>1, <3>1, <3>2
  <2>4. CASE Serve
    BY <2>1, <2>4, ServeShortens DEF Serve, clientVars
  <2>5. CASE FinishExecuted \/ Refuse
    <3>1. toServer' = toServer /\ UNCHANGED clientVars
      BY <2>5 DEF FinishExecuted, Finish, Refuse, Answering
    <3> QED
      BY <1>1, <2>1, <3>1 DEF clientVars
  <2>6. CASE PeerCloses
    BY <1>1, <2>1, <2>6 DEF PeerCloses, clientVars
  <2>7. CASE Terminated
    BY <1>1, <2>1, <2>7 DEF Terminated, vars, wireVars, clientVars
  <2> QED
    BY <1>4, <2>2, <2>3, <2>4, <2>5, <2>6, <2>7 DEF Others
<1>5. Kept
  BY <1>2, <1>3, <1>4 DEF CounterNext
<1>6. Len(toServer') \in Nat
  BY DEF TypeOK, WireOK
<1> QED
  BY <1>1, <1>5, <1>6 DEF CounterNext, GoesOut

(* It is the call's own request, and the call is then waiting. *)
LEMMA IssueAdds ==
    ASSUME TypeOK, CounterNext, Issue
    PROVE  \E op \in Ops, request \in ArrivedRequests :
              /\ tried' = tried + (IF op = Increment THEN 1 ELSE 0)
              /\ request.op = op /\ request.id = call'.id
              /\ (op = Read \/ wanted') => request.asked
              /\ arrived' = arrived \/ (arrived' = Append(arrived, request) /\ pc' = "receiving")
              /\ call'.id = call.id + 1 /\ call'.op = op /\ call.id \in Nat /\ call.id < MaxCalls
              /\ pc = "idle" /\ pc' \in {"idle", "receiving"}
<1>1. PICK op \in Ops : /\ Send(op) \/ SendFails(op)
                        /\ tried' = tried + IF op = Increment THEN 1 ELSE 0
  BY DEF Issue
<1>2. call.id \in Nat /\ toServer \in Seq(Requests)
  BY DEF TypeOK, CommandOK, WireOK, Calls, NoCall, NoOne
<1>3. /\ call' = [id |-> call.id + 1, op |-> op] /\ call.id < MaxCalls
      /\ pc = "idle" /\ pc' \in {"idle", "receiving"}
  BY <1>1 DEF Send, SendFails, NewCall, Return
<1> DEFINE request == [id |-> call.id + 1, op |-> op, asked |-> op = Read \/ wanted']
<1>4. request \in ArrivedRequests
  BY <1>2 DEF ArrivedRequests, Issue
<1>5. ASSUME NEW whole \in BOOLEAN, toServer' = Append(toServer, Request(whole))
      PROVE  arrived' = IF whole THEN Append(arrived, request) ELSE arrived
  <2>1. /\ Len(toServer') = Len(toServer) + 1 /\ toServer'[Len(toServer')] = Request(whole)
        /\ Len(toServer) \in Nat
    BY <1>2, <1>5
  <2>2. Request(whole) = [id |-> call.id + 1, op |-> op, whole |-> whole]
    BY <1>3 DEF Request
  <2>3. Packed(toServer'[Len(toServer')]) = request
    BY <2>1, <2>2 DEF Packed
  <2> QED
    BY <2>1, <2>2, <2>3 DEF CounterNext, GoesOut
<1>6. ASSUME toServer' = toServer PROVE arrived' = arrived
  BY <1>2, <1>6 DEF CounterNext, GoesOut
<1>7. CASE Send(op)
  <2>1. pc' = "receiving" /\ (toServer' = toServer \/ toServer' = Append(toServer, Request(TRUE)))
    BY <1>7 DEF Send
  <2> QED
    BY <1>1, <1>2, <1>3, <1>4, <1>5, <1>6, <2>1
<1>8. CASE SendFails(op)
  <2>1. toServer' = toServer \/ toServer' = Append(toServer, Request(FALSE))
    BY <1>8 DEF SendFails
  <2> QED
    BY <1>1, <1>2, <1>3, <1>4, <1>5, <1>6, <2>1
<1> QED
  BY <1>1, <1>7, <1>8

-----------------------------------------------------------------------------
(* The upper bound *)

Increments == {i \in DOMAIN arrived : arrived[i].op = Increment}
Carried == {i \in executed : arrived[i].op = Increment}

ArrivedOK ==
    /\ arrived \in Seq(ArrivedRequests)
    /\ executed \subseteq DOMAIN arrived

(* The counter is the number of increments carried out, and no more have arrived
   than were called. *)
CountInv ==
    /\ ArrivedOK
    /\ value = Cardinality(Carried)
    /\ tried \in Nat /\ Cardinality(Increments) <= tried

LEMMA PartIsFinite ==
    ASSUME NEW s \in Seq(ArrivedRequests), NEW T, T \subseteq DOMAIN s
    PROVE  IsFiniteSet(T) /\ Cardinality(T) \in Nat
<1>1. DOMAIN s = 1 .. Len(s) /\ Len(s) \in Nat
  OBVIOUS
<1>2. IsFiniteSet(DOMAIN s)
  BY <1>1, FS_Interval
<1> QED
  BY <1>2, FS_Subset, FS_CardinalityType

LEMMA ArrivedHaveIds == ArrivedOK => \A i \in DOMAIN arrived : arrived[i].id \in Nat
<1> SUFFICES ASSUME ArrivedOK, NEW i \in DOMAIN arrived PROVE arrived[i].id \in Nat
  OBVIOUS
<1>1. arrived[i] \in ArrivedRequests
  BY DEF ArrivedOK
<1> QED
  BY <1>1 DEF ArrivedRequests

LEMMA FiniteMany ==
    ASSUME ArrivedOK
    PROVE  /\ DOMAIN arrived = 1 .. Len(arrived) /\ Len(arrived) \in Nat
           /\ IsFiniteSet(Increments) /\ IsFiniteSet(Carried)
           /\ Cardinality(Increments) \in Nat /\ Cardinality(Carried) \in Nat
           /\ Cardinality(Carried) <= Cardinality(Increments)
<1>1. DOMAIN arrived = 1 .. Len(arrived) /\ Len(arrived) \in Nat
  BY DEF ArrivedOK
<1>2. IsFiniteSet(1 .. Len(arrived))
  BY <1>1, FS_Interval
<1>3. Increments \in SUBSET (1 .. Len(arrived)) /\ Carried \in SUBSET Increments
  BY <1>1 DEF Increments, Carried, ArrivedOK
<1>4. IsFiniteSet(Increments)
  BY <1>2, <1>3, FS_Subset
<1>5. IsFiniteSet(Carried) /\ Cardinality(Carried) <= Cardinality(Increments)
  BY <1>3, <1>4, FS_Subset
<1> QED
  BY <1>1, <1>4, <1>5, FS_CardinalityType

(* One more request has arrived: those before it are where they were. *)
LEMMA ArrivalAppends ==
    ASSUME ArrivedOK, NEW request \in ArrivedRequests,
           arrived' = Append(arrived, request), executed' = executed
    PROVE  /\ ArrivedOK' /\ Carried' = Carried
           /\ Increments' = Increments \cup (IF request.op = Increment THEN {Len(arrived) + 1} ELSE {})
           /\ DOMAIN arrived' = DOMAIN arrived \cup {Len(arrived) + 1}
           /\ arrived'[Len(arrived) + 1] = request
           /\ \A i \in DOMAIN arrived : arrived'[i] = arrived[i]
<1>1. DOMAIN arrived = 1 .. Len(arrived) /\ Len(arrived) \in Nat
  BY FiniteMany
<1>2. /\ arrived' \in Seq(ArrivedRequests) /\ Len(arrived') = Len(arrived) + 1
      /\ \A i \in 1 .. Len(arrived) : arrived'[i] = arrived[i]
      /\ arrived'[Len(arrived) + 1] = request
  BY AppendProperties DEF ArrivedOK
<1>3. DOMAIN arrived' = DOMAIN arrived \cup {Len(arrived) + 1}
  BY <1>1, <1>2
<1>4. Carried' = Carried
  BY <1>1, <1>2 DEF Carried, ArrivedOK
<1>5. Increments' = Increments \cup (IF request.op = Increment THEN {Len(arrived) + 1} ELSE {})
  BY <1>1, <1>2, <1>3 DEF Increments
<1>6. ArrivedOK'
  BY <1>2, <1>3 DEF ArrivedOK
<1> QED
  BY <1>1, <1>2, <1>3, <1>4, <1>5, <1>6

(* The node carries out a request: the increments among them grow by it. *)
LEMMA ExecuteCarries ==
    ASSUME ArrivedOK, arrived' = arrived, NEW i \in DOMAIN arrived \ executed,
           executed' = executed \cup {i}
    PROVE  /\ ArrivedOK'
           /\ Carried' = Carried \cup (IF arrived[i].op = Increment THEN {i} ELSE {})
           /\ i \notin Carried
BY DEF ArrivedOK, Carried

LEMMA StepCountInv ==
    ASSUME CountInv, TypeOK, TypeOK', [CounterNext]_counterVars
    PROVE  CountInv'
<1>1. /\ IsFiniteSet(Increments) /\ IsFiniteSet(Carried)
      /\ Cardinality(Increments) \in Nat /\ Cardinality(Carried) \in Nat /\ Len(arrived) \in Nat
      /\ DOMAIN arrived = 1 .. Len(arrived)
  BY FiniteMany DEF CountInv
<1>2. ASSUME UNCHANGED <<arrived, executed, value, tried>> PROVE CountInv'
  BY <1>2 DEF CountInv, ArrivedOK, Carried, Increments
<1>3. CASE CounterNext /\ Issue
  <2>1. PICK op \in Ops, request \in ArrivedRequests :
              /\ tried' = tried + (IF op = Increment THEN 1 ELSE 0)
              /\ request.op = op
              /\ arrived' = arrived \/ arrived' = Append(arrived, request)
    BY <1>3, IssueAdds
  <2>2. executed' = executed /\ value' = value
    BY <1>3 DEF Issue, nodeVars
  <2>3. tried' \in Nat /\ tried <= tried' /\ (op = Increment => tried' = tried + 1)
    BY <2>1 DEF CountInv
  <2>4. CASE arrived' = arrived
    <3>1. ArrivedOK' /\ Carried' = Carried /\ Increments' = Increments
      BY <2>2, <2>4 DEF CountInv, ArrivedOK, Carried, Increments
    <3> QED
      BY <1>1, <2>2, <2>3, <3>1 DEF CountInv
  <2>5. CASE arrived' = Append(arrived, request)
    <3>1. /\ ArrivedOK' /\ Carried' = Carried
          /\ Increments' = Increments \cup (IF request.op = Increment THEN {Len(arrived) + 1} ELSE {})
      BY <2>2, <2>5, ArrivalAppends DEF CountInv
    <3>2. CASE op = Increment
      <4>1. Increments' = Increments \cup {Len(arrived) + 1} /\ Len(arrived) + 1 \notin Increments
        BY <1>1, <2>1, <3>1, <3>2 DEF Increments
      <4>2. Cardinality(Increments') = Cardinality(Increments) + 1
        BY <1>1, <4>1, FS_AddElement
      <4>3. Cardinality(Increments') <= tried'
        BY <1>1, <2>3, <3>2, <4>2 DEF CountInv
      <4> QED
        BY <2>2, <2>3, <3>1, <4>3 DEF CountInv
    <3>3. CASE op # Increment
      <4>1. Increments' = Increments
        BY <2>1, <3>1, <3>3
      <4>2. Cardinality(Increments') <= tried'
        BY <1>1, <2>3, <4>1 DEF CountInv
      <4> QED
        BY <2>2, <2>3, <3>1, <4>2 DEF CountInv
    <3> QED
      BY <3>2, <3>3
  <2> QED
    BY <2>1, <2>4, <2>5
<1>4. CASE CounterNext /\ Execute /\ ~Issue
  <2>1. arrived' = arrived /\ tried' = tried
    BY <1>4, OnlyIssueAdds
  <2>2. PICK i \in DOMAIN arrived \ executed :
              /\ executed' = executed \cup {i}
              /\ value' = value + IF arrived[i].op = Increment THEN 1 ELSE 0
    BY <1>4 DEF Execute
  <2>3. /\ ArrivedOK' /\ i \notin Carried
        /\ Carried' = Carried \cup (IF arrived[i].op = Increment THEN {i} ELSE {})
    BY <2>1, <2>2, ExecuteCarries DEF CountInv
  <2>4. Cardinality(Carried') = Cardinality(Carried) + IF arrived[i].op = Increment THEN 1 ELSE 0
    <3>1. CASE arrived[i].op = Increment
      <4>1. Carried' = Carried \cup {i}
        BY <2>3, <3>1
      <4>2. Cardinality(Carried') = Cardinality(Carried) + 1
        BY <1>1, <2>3, <4>1, FS_AddElement
      <4> QED
        BY <3>1, <4>2
    <3>2. CASE arrived[i].op # Increment
      BY <1>1, <2>3, <3>2
    <3> QED
      BY <3>1, <3>2
  <2>5. Increments' = Increments
    BY <2>1 DEF Increments
  <2> QED
    BY <2>1, <2>2, <2>3, <2>4, <2>5 DEF CountInv
<1>5. CASE CounterNext /\ ~Issue /\ ~Execute
  <2>1. UNCHANGED <<executed, value>>
    BY <1>5 DEF CounterNext, Answered, nodeVars
  <2> QED
    BY <1>2, <1>5, <2>1, OnlyIssueAdds
<1>6. CASE UNCHANGED counterVars
  BY <1>2, <1>6 DEF counterVars, nodeVars, appVars
<1> QED
  BY <1>3, <1>4, <1>5, <1>6

LEMMA InitCountInv == CounterInit => CountInv
<1> SUFFICES ASSUME CounterInit PROVE CountInv
  OBVIOUS
<1>1. ArrivedOK /\ Increments = {} /\ Carried = {}
  BY DEF CounterInit, ArrivedOK, Increments, Carried
<1> QED
  BY <1>1, FS_EmptySet DEF CounterInit, CountInv

(* The counter holds at most the increments the application has called, for any
   number of calls, closed connections and refusals: the library sends no request
   twice, and nothing is asked of the application. *)
THEOREM NoIncrementTwice == CounterSpec => []NoneInvented
<1>1. CountInv => NoneInvented
  BY FiniteMany DEF CountInv, NoneInvented
<1> QED
  BY <1>1, InitCountInv, StepCountInv, EngineBelow, TypeCorrect, PTL DEF CounterSpec

-----------------------------------------------------------------------------
(* The lower bound *)

(* The increments carried out of which the application has the result, or could
   have it. *)
Settled == {i \in Carried : pc # "receiving" \/ arrived[i].id < call.id}

(* The requests that have arrived are the calls', the last call's among them. *)
ArrivedAreCalls ==
    \A i \in DOMAIN arrived :
        arrived[i].id <= call.id /\ (arrived[i].id = call.id => arrived[i].op = call.op)

(* An answer under way is to a request that has been carried out. *)
AnswersAreExecuted ==
    \A i \in DOMAIN toClient :
        toClient[i].code # ErrorCode => \E j \in executed : arrived[j].id = toClient[i].id

SettledInv ==
    /\ ArrivedAreCalls
    /\ AnswersAreExecuted
    /\ counted \in Nat /\ counted <= Cardinality(Settled)

LEMMA SettledFinite ==
    ASSUME ArrivedOK
    PROVE  /\ IsFiniteSet(Settled) /\ Cardinality(Settled) \in Nat
           /\ Cardinality(Settled) <= Cardinality(Carried)
<1>1. IsFiniteSet(Carried) /\ Settled \in SUBSET Carried
  BY FiniteMany DEF Settled
<1>2. IsFiniteSet(Settled) /\ Cardinality(Settled) <= Cardinality(Carried)
  BY <1>1, FS_Subset
<1> QED
  BY <1>2, FS_CardinalityType

(* A command of a counter that succeeds has taken the answer to itself: it is the
   head of what is under way, and it is no error. *)
LEMMA SuccessIsAnswered ==
    ASSUME IInv, CounterNext, pc = "receiving", pc' = "idle", retval' = RIACK_SUCCESS,
           ~Issue
    PROVE  /\ toClient # <<>> /\ toClient[1].id = call.id /\ toClient[1].code # ErrorCode
<1>1. Waiting /\ RestOfAnswer /\ OneOwner /\ TypeOK
  BY DEF IInv
<1>2. call.op \in Ops /\ Callback[call.op] = "once" /\ RespCode[call.op] # ErrorCode
  BY <1>1, CounterAssumption, OpsAssumption DEF Waiting
<1>3. retval # RIACK_SUCCESS
  BY <1>1, <1>2, DistinctResults DEF Waiting
<1>4. Answered
  <2>1. ~ Execute
    BY <1>3 DEF Execute, vars, clientVars
  <2>2. ~ ReceiveFails
    BY <1>3 DEF ReceiveFails, Return
  <2>3. ~ Application /\ ~ Terminated
    BY DEF Application, Connect, Reconnect, Disconnect, Free, Terminated
  <2>4. ~ Serve /\ ~ FinishExecuted /\ ~ Refuse /\ ~ PeerCloses
    BY <1>3 DEF Serve, FinishExecuted, Finish, Refuse, Answering, PeerCloses, clientVars
  <2> QED
    BY <2>1, <2>2, <2>3, <2>4 DEF CounterNext, Others
<1>5. toClient # <<>> /\ TakeMessage(Head(toClient))
  BY <1>1, <1>4 DEF Answered, Receive, Waiting
<1>6. MatchesCall(Head(toClient))
  <2>1. ~ TakeOther(Head(toClient)) /\ ~ UnpackFails(Head(toClient))
    BY DistinctResults DEF TakeOther, UnpackFails, Return
  <2> QED
    BY <1>5, <2>1 DEF TakeMessage, TakeReply
<1>7. Head(toClient) = toClient[1] /\ 1 \in 1 .. Len(toClient)
  BY <1>1, <1>5 DEF TypeOK, WireOK
<1>8. toClient[1].id = call.id
  BY <1>1, <1>7 DEF OneOwner
<1> QED
  BY <1>2, <1>5, <1>6, <1>7, <1>8 DEF MatchesCall

(* What is under way keeps its answers: a read takes one away, a closed connection
   some, and the node's next one follows the execution. *)
LEMMA StepAnswers ==
    ASSUME IInv, ArrivedOK, AnswersAreExecuted, CounterNext, TypeOK',
           executed \subseteq executed', \A j \in DOMAIN arrived : arrived'[j] = arrived[j]
    PROVE  AnswersAreExecuted'
<1>1. toClient \in Seq(Replies) /\ toClient' \in Seq(Replies) /\ Len(toClient) \in Nat
  BY DEF IInv, TypeOK, WireOK
<1>2. ASSUME NEW m \in Replies, m.code # ErrorCode,
             \E j \in executed : arrived[j].id = m.id
      PROVE  \E j \in executed' : arrived'[j].id = m.id
  BY <1>2 DEF ArrivedOK
<1>3. ASSUME \A i \in DOMAIN toClient' : \E k \in DOMAIN toClient : toClient'[i] = toClient[k]
      PROVE  AnswersAreExecuted'
  <2> SUFFICES ASSUME NEW i \in DOMAIN toClient', toClient'[i].code # ErrorCode
               PROVE  \E j \in executed' : arrived'[j].id = toClient'[i].id
    BY DEF AnswersAreExecuted
  <2>1. PICK k \in DOMAIN toClient : toClient'[i] = toClient[k]
    BY <1>3
  <2>2. \E j \in executed : arrived[j].id = toClient[k].id
    BY <2>1 DEF AnswersAreExecuted
  <2>3. toClient[k] \in Replies
    BY <1>1
  <2> QED
    BY <1>2, <2>1, <2>2, <2>3
<1>4. CASE toClient' = toClient
  BY <1>3, <1>4
<1>5. CASE toClient' = <<>>
  BY <1>3, <1>5
<1>6. CASE Answered
  <2>1. aligned
    BY <1>6 DEF Answered, Receive, IInv, Waiting
  <2>2. toClient' = Tail(toClient) /\ toClient # <<>>
    BY <1>6, <2>1 DEF Answered, Receive
  <2>3. \A i \in 1 .. Len(toClient') : toClient'[i] = toClient[i + 1] /\ i + 1 \in 1 .. Len(toClient)
    BY <1>1, <2>2, HeadTailProperties
  <2>4. DOMAIN toClient' = 1 .. Len(toClient') /\ DOMAIN toClient = 1 .. Len(toClient)
    BY <1>1
  <2> QED
    BY <1>3, <2>3, <2>4
<1>7. CASE PeerCloses
  <2>1. PICK k \in 0 .. Len(toClient) : toClient' = SubSeq(toClient, 1, k)
    BY <1>7 DEF PeerCloses
  <2>2. \A i \in 1 .. k : toClient[i] \in Replies
    BY <1>1
  <2>3. Len(toClient') = k /\ \A i \in 1 .. k : toClient'[i] = toClient[i]
    BY <1>1, <2>1, <2>2, SubSeqProperties
  <2>4. DOMAIN toClient' = 1 .. Len(toClient') /\ DOMAIN toClient = 1 .. Len(toClient)
    BY <1>1
  <2>5. ASSUME NEW i \in DOMAIN toClient'
        PROVE  \E n \in DOMAIN toClient : toClient'[i] = toClient[n]
    <3>1. i \in 1 .. k /\ i \in DOMAIN toClient
      BY <1>1, <2>3, <2>4, <2>5
    <3> QED
      BY <2>3, <3>1
  <2> QED
    BY <1>3, <2>5
<1>8. CASE FinishExecuted \/ Refuse
  <2>1. PICK m : /\ toClient' = Append(toClient, m)
                 /\ m.code # ErrorCode => \E j \in executed : arrived[j].id = m.id
    <3>1. CASE FinishExecuted
      <4>1. toClient' = Append(toClient, Answer(RespCode[serving.op], TRUE))
        BY <3>1 DEF FinishExecuted, Finish, Answering
      <4>2. \E j \in executed : arrived[j].id = Answer(RespCode[serving.op], TRUE).id
        BY <3>1 DEF FinishExecuted, Answer
      <4> QED
        BY <4>1, <4>2
    <3>2. CASE Refuse
      <4>1. toClient' = Append(toClient, Answer(ErrorCode, TRUE)) /\ Answer(ErrorCode, TRUE).code = ErrorCode
        BY <3>2 DEF Refuse, Answering, Answer
      <4> QED
        BY <4>1
    <3> QED
      BY <1>8, <3>1, <3>2
  <2>2. /\ Len(toClient') = Len(toClient) + 1 /\ toClient'[Len(toClient) + 1] = m
        /\ \A i \in 1 .. Len(toClient) : toClient'[i] = toClient[i]
        /\ DOMAIN toClient' = 1 .. Len(toClient) + 1 /\ DOMAIN toClient = 1 .. Len(toClient)
    BY <1>1, <2>1
  <2>3. \A i \in DOMAIN toClient' : toClient'[i] \in Replies
    BY <1>1
  <2>4. ASSUME NEW i \in DOMAIN toClient', toClient'[i].code # ErrorCode
        PROVE  \E j \in executed' : arrived'[j].id = toClient'[i].id
    <3>1. CASE i = Len(toClient) + 1
      BY <1>2, <2>1, <2>2, <2>3, <2>4, <3>1
    <3>2. CASE i # Len(toClient) + 1
      <4>1. i \in DOMAIN toClient /\ toClient'[i] = toClient[i]
        BY <1>1, <2>2, <3>2
      <4>2. \E j \in executed : arrived[j].id = toClient'[i].id
        BY <2>4, <4>1 DEF AnswersAreExecuted
      <4> QED
        BY <1>2, <2>3, <2>4, <4>2
    <3> QED
      BY <3>1, <3>2
  <2> QED
    BY <2>4 DEF AnswersAreExecuted
<1>9. \/ toClient' = toClient \/ toClient' = <<>>
      \/ Answered \/ PeerCloses \/ FinishExecuted \/ Refuse
  <2>1. Issue => toClient' = toClient
    BY DEF Issue, Send, SendFails
  <2>2. Execute => toClient' = toClient
    BY DEF Execute, vars, wireVars
  <2>3. ReceiveFails \/ Serve \/ Terminated => toClient' = toClient
    BY DEF ReceiveFails, Serve, Terminated, vars, wireVars
  <2>4. Application => toClient' = <<>>
    BY DEF Application, Connect, Reconnect, Disconnect, Free, ConnectFrom, SockOpenFails, FreshWire
  <2> QED
    BY <2>1, <2>2, <2>3, <2>4 DEF CounterNext, Others
<1> QED
  BY <1>4, <1>5, <1>6, <1>7, <1>8, <1>9

(* What no step undoes: requests that have arrived, and been carried out. *)
LEMMA HistoryGrows ==
    ASSUME ArrivedOK, TypeOK, TypeOK', CounterNext
    PROVE  /\ executed \subseteq executed' /\ Carried \subseteq Carried'
           /\ \A i \in DOMAIN arrived : arrived'[i] = arrived[i]
<1>1. \A i \in DOMAIN arrived : arrived'[i] = arrived[i]
  <2>1. CASE ~Issue
    BY <2>1, OnlyIssueAdds
  <2>2. CASE Issue
    <3>1. PICK request \in ArrivedRequests : arrived' = arrived \/ arrived' = Append(arrived, request)
      BY <2>2, IssueAdds
    <3>2. CASE arrived' = Append(arrived, request)
      <4>1. DOMAIN arrived = 1 .. Len(arrived)
        BY FiniteMany
      <4> QED
        BY <3>2, <4>1, AppendProperties DEF ArrivedOK
    <3> QED
      BY <3>1, <3>2
  <2> QED
    BY <2>1, <2>2
<1>2. executed \subseteq executed'
  BY DEF CounterNext, Issue, Answered, Execute, nodeVars
<1> QED
  BY <1>1, <1>2 DEF Carried, ArrivedOK

LEMMA StepCalls ==
    ASSUME ArrivedOK, ArrivedAreCalls, TypeOK, TypeOK', CounterNext
    PROVE  ArrivedAreCalls'
<1>1. CASE ~Issue
  BY <1>1, OnlyIssueAdds DEF ArrivedAreCalls
<1>2. CASE Issue
  <2>1. PICK request \in ArrivedRequests :
              /\ arrived' = arrived \/ arrived' = Append(arrived, request)
              /\ request.id = call'.id /\ request.op = call'.op
              /\ call'.id = call.id + 1 /\ call.id \in Nat
    BY <1>2, IssueAdds
  <2>2. \A i \in DOMAIN arrived : arrived[i].id \in Nat /\ arrived[i].id < call'.id
    <3>1. \A i \in DOMAIN arrived : arrived[i].id \in Nat /\ arrived[i].id <= call.id
      BY ArrivedHaveIds DEF ArrivedAreCalls
    <3> QED
      BY <2>1, <3>1
  <2>3. CASE arrived' = arrived
    BY <2>1, <2>2, <2>3 DEF ArrivedAreCalls
  <2>4. CASE arrived' = Append(arrived, request)
    <3>1. /\ DOMAIN arrived' = DOMAIN arrived \cup {Len(arrived) + 1}
          /\ arrived'[Len(arrived) + 1] = request
          /\ \A i \in DOMAIN arrived : arrived'[i] = arrived[i]
      <4>1. DOMAIN arrived = 1 .. Len(arrived) /\ Len(arrived) \in Nat
        BY FiniteMany
      <4>2. /\ arrived' \in Seq(ArrivedRequests) /\ Len(arrived') = Len(arrived) + 1
            /\ \A i \in 1 .. Len(arrived) : arrived'[i] = arrived[i]
            /\ arrived'[Len(arrived) + 1] = request
        BY <2>4, AppendProperties DEF ArrivedOK
      <4> QED
        BY <4>1, <4>2
    <3>2. request.id <= call'.id
      BY <2>1
    <3>3. \A i \in DOMAIN arrived : arrived'[i].id <= call'.id /\ arrived'[i].id # call'.id
      BY <2>1, <2>2, <3>1
    <3> QED
      BY <2>1, <3>1, <3>2, <3>3 DEF ArrivedAreCalls
  <2> QED
    BY <2>1, <2>3, <2>4
<1> QED
  BY <1>1, <1>2

(* Only a call starts to wait. *)
LEMMA OnlyIssueWaits ==
    ASSUME CounterNext, ~Issue, pc' = "receiving"
    PROVE  pc = "receiving"
<1>1. Answered \/ ReceiveFails => pc = "receiving"
  BY DEF Answered, Receive, ReceiveFails
<1>2. Execute \/ Serve \/ FinishExecuted \/ Refuse \/ PeerCloses \/ Terminated => pc = pc'
  BY DEF Execute, Serve, FinishExecuted, Finish, Refuse, Answering, PeerCloses, Terminated, vars, clientVars
<1>3. ~ Application
  BY DEF Application, Connect, Reconnect, Disconnect, Free
<1> QED
  BY <1>1, <1>2, <1>3 DEF CounterNext, Others

(* A settled increment stays settled: a new call has a greater number. *)
LEMMA SettledGrows ==
    ASSUME ArrivedOK, ArrivedAreCalls, TypeOK, TypeOK', CounterNext
    PROVE  Settled \subseteq Settled'
<1> SUFFICES ASSUME NEW i \in Settled, pc' = "receiving" PROVE i \in Settled'
  BY HistoryGrows DEF Settled
<1>1. i \in Carried' /\ arrived'[i] = arrived[i] /\ i \in DOMAIN arrived
  BY HistoryGrows DEF Settled, Carried, ArrivedOK
<1>2. arrived[i].id \in Nat
  BY <1>1, ArrivedHaveIds
<1>3. CASE Issue
  <2>1. call'.id = call.id + 1 /\ call.id \in Nat
    BY <1>3, IssueAdds
  <2>2. arrived[i].id <= call.id
    BY <1>1 DEF ArrivedAreCalls
  <2> QED
    BY <1>1, <1>2, <2>1, <2>2 DEF Settled
<1>4. CASE ~Issue
  <2>1. call' = call
    BY <1>4, OnlyIssueAdds
  <2>2. pc = "receiving"
    BY <1>4, OnlyIssueWaits
  <2> QED
    BY <1>1, <2>1, <2>2 DEF Settled
<1> QED
  BY <1>3, <1>4

(* An increment that returns RIACK_SUCCESS settles one. *)
LEMMA SuccessSettles ==
    ASSUME IInv, ArrivedOK, ArrivedAreCalls, AnswersAreExecuted, TypeOK', CounterNext,
           pc = "receiving", pc' = "idle", retval' = RIACK_SUCCESS, call.op = Increment
    PROVE  \E i \in Settled' : i \notin Settled
<1>1. ~Issue
  BY DEF Issue, Send, SendFails, NewCall
<1>2. toClient # <<>> /\ toClient[1].id = call.id /\ toClient[1].code # ErrorCode
  BY <1>1, SuccessIsAnswered
<1>3. 1 \in DOMAIN toClient
  <2>1. toClient \in Seq(Replies)
    BY DEF IInv, TypeOK, WireOK
  <2> QED
    BY <1>2, <2>1
<1>4. PICK j \in executed : arrived[j].id = call.id
  BY <1>2, <1>3 DEF AnswersAreExecuted
<1>5. j \in Carried
  BY <1>4 DEF ArrivedAreCalls, ArrivedOK, Carried
<1>6. call.id \in Nat
  BY DEF IInv, TypeOK, CommandOK, Calls, NoCall, NoOne
<1>7. j \notin Settled
  BY <1>4, <1>6 DEF Settled
<1>8. j \in Settled'
  BY <1>5, HistoryGrows DEF Settled, IInv
<1> QED
  BY <1>7, <1>8

LEMMA StepSettledInv ==
    ASSUME Disciplined, CountInv, CountInv', SettledInv, IInv, TypeOK', [CounterNext]_counterVars
    PROVE  SettledInv'
<1>1. ArrivedOK /\ ArrivedOK' /\ TypeOK
  BY DEF CountInv, IInv
<1>2. CASE CounterNext
  <2>1. ArrivedAreCalls'
    BY <1>1, <1>2, StepCalls DEF SettledInv
  <2>2. AnswersAreExecuted'
    BY <1>1, <1>2, HistoryGrows, StepAnswers DEF SettledInv
  <2>3. /\ IsFiniteSet(Settled) /\ Cardinality(Settled) \in Nat
    BY <1>1, SettledFinite
  <2>4. IsFiniteSet(Settled') /\ Cardinality(Settled') \in Nat
    <3>1. Settled' \subseteq DOMAIN arrived' /\ arrived' \in Seq(ArrivedRequests)
      BY <1>1 DEF ArrivedOK, Settled, Carried
    <3> HIDE DEF Settled
    <3> QED
      BY <3>1, PartIsFinite
  <2>5. Settled \subseteq Settled'
    BY <1>1, <1>2, SettledGrows DEF SettledInv
  <2>6. Cardinality(Settled) <= Cardinality(Settled')
    BY <2>4, <2>5, FS_Subset
  <2>7. CASE counted' = counted
    <3>1. counted' \in Nat /\ counted' <= Cardinality(Settled')
      BY <2>3, <2>4, <2>6, <2>7 DEF SettledInv
    <3> QED
      BY <2>1, <2>2, <3>1 DEF SettledInv
  <2>8. CASE /\ pc = "receiving" /\ pc' = "idle" /\ retval' = RIACK_SUCCESS
             /\ call.op = Increment /\ counted' = counted + 1
    <3>1. PICK i \in Settled' : i \notin Settled
      BY <1>1, <1>2, <2>8, SuccessSettles DEF SettledInv
    <3>2. Settled \cup {i} \subseteq Settled'
      BY <2>5, <3>1
    <3>3. Cardinality(Settled \cup {i}) = Cardinality(Settled) + 1
      BY <2>3, <3>1, FS_AddElement
    <3>4. Cardinality(Settled \cup {i}) <= Cardinality(Settled')
      BY <2>4, <3>2, FS_Subset
    <3>5. counted' \in Nat /\ counted' <= Cardinality(Settled')
      BY <2>3, <2>4, <2>8, <3>3, <3>4 DEF SettledInv
    <3> QED
      BY <2>1, <2>2, <3>5 DEF SettledInv
  <2> QED
    BY <1>2, <2>7, <2>8 DEF CounterNext, Succeeded, SettledInv
<1>3. CASE UNCHANGED counterVars
  BY <1>3 DEF counterVars, nodeVars, appVars, vars, clientVars, wireVars, SettledInv,
     ArrivedAreCalls, AnswersAreExecuted, Settled, Carried
<1> QED
  BY <1>2, <1>3

LEMMA InitSettledInv == CounterInit => SettledInv
<1> SUFFICES ASSUME CounterInit PROVE SettledInv
  OBVIOUS
<1>1. ArrivedAreCalls /\ AnswersAreExecuted /\ Settled = {}
  BY DEF CounterInit, Init, ArrivedAreCalls, AnswersAreExecuted, Settled, Carried
<1> QED
  BY <1>1, FS_EmptySet DEF CounterInit, SettledInv

(* The invariant: the counter is what was carried out, every success has settled an
   increment, and the connection holds the last command's messages only. *)
THEOREM CounterInvariant ==
    ASSUME Disciplined
    PROVE  CounterSpec => [](CountInv /\ SettledInv /\ IInv /\ TypeOK)
<1>1. CounterSpec => []CountInv
  BY InitCountInv, StepCountInv, EngineBelow, TypeCorrect, PTL DEF CounterSpec
<1>2. CounterSpec => []IInv
  BY EngineBelow, InductiveInvariant, PTL
<1>3. CounterSpec => []TypeOK
  BY EngineBelow, TypeCorrect, PTL
<1>4. CountInv /\ CountInv' /\ SettledInv /\ IInv /\ TypeOK' /\ [CounterNext]_counterVars => SettledInv'
  BY StepSettledInv
<1> QED
  BY <1>1, <1>2, <1>3, <1>4, InitSettledInv, PTL DEF CounterSpec

(* Every increment that has returned RIACK_SUCCESS is in the counter, for an
   application that reconnects after RIACK_ERROR_COMMUNICATION: a success is never
   another call's, left over on the connection. *)
THEOREM NoIncrementLost ==
    ASSUME Disciplined
    PROVE  CounterSpec => []NoneLost
<1>1. CountInv /\ SettledInv => NoneLost
  <2> SUFFICES ASSUME CountInv, SettledInv PROVE NoneLost
    OBVIOUS
  <2>1. Cardinality(Settled) <= Cardinality(Carried) /\ Cardinality(Settled) \in Nat
        /\ Cardinality(Carried) \in Nat
    BY SettledFinite, FiniteMany DEF CountInv
  <2> QED
    BY <2>1 DEF CountInv, SettledInv, NoneLost
<1> QED
  BY <1>1, CounterInvariant, PTL

-----------------------------------------------------------------------------
(* The values the application is told *)

CallsBounded == call.id \in 0 .. MaxCalls

(* Each call has a place for its answer. *)
AnswersOK == DOMAIN answers = 0 .. MaxCalls

(* No call's request arrives twice. *)
OneRequestEach == \A i, j \in DOMAIN arrived : arrived[i].id = arrived[j].id => i = j

(* The request of the call under way asks for the value if there is a place for it. *)
AsksWhenWanted ==
    pc = "receiving" /\ wanted =>
        \A i \in DOMAIN arrived : arrived[i].id = call.id => arrived[i].asked

(* v is what the call under way may be told. *)
IsNew(v) == v \in Nat /\ told <= v /\ v <= value /\ (call.op = Increment => told < v)

(* Once the request of the call under way is carried out, its answer is no less
   than what was told before, and no more than the counter. *)
AnswerIsNew ==
    pc = "receiving" =>
        \A i \in executed :
            arrived[i].id = call.id /\ arrived[i].asked => IsNew(Returned(answers[call.id]))

ToldInv ==
    /\ CallsBounded /\ AnswersOK /\ OneRequestEach /\ AsksWhenWanted /\ AnswerIsNew
    /\ told \in Nat /\ told <= value

(* The command ends with the message it takes; a reply is the answer to itself. *)
LEMMA AnswerEnds ==
    ASSUME IInv, Answered
    PROVE  /\ pc = "receiving" /\ pc' = "idle"
           /\ delivered' # <<>> =>
                 /\ delivered'[1].id = call.id
                 /\ 1 \in DOMAIN toClient /\ toClient[1].id = call.id /\ toClient[1].code # ErrorCode
<1>1. pc = "receiving" /\ toClient # <<>> /\ Waiting /\ OneOwner /\ TypeOK
  BY DEF Answered, Receive, IInv
<1>2. call.op \in Ops /\ Callback[call.op] = "once" /\ RespCode[call.op] # ErrorCode
  BY <1>1, CounterAssumption, OpsAssumption DEF Waiting
<1>3. delivered = <<>> /\ aligned
  BY <1>1, <1>2 DEF Waiting
<1> DEFINE m == Head(toClient)
<1>4. TakeMessage(m)
  BY <1>3 DEF Answered, Receive
<1>5. m = toClient[1] /\ 1 \in 1 .. Len(toClient) /\ DOMAIN toClient = 1 .. Len(toClient)
  BY <1>1 DEF TypeOK, WireOK
<1>6. CASE TakeReply(m)
  <2>1. ~ CallbackContinues(m)
    BY <1>2 DEF CallbackContinues
  <2>2. pc' = "idle" /\ delivered' = Append(<<>>, m) /\ m.code = RespCode[call.op]
    BY <1>3, <1>6, <2>1 DEF TakeReply, Return, MatchesCall
  <2>3. delivered'[1] = m
    BY <2>2
  <2>4. m.id = call.id
    BY <1>1, <1>5 DEF OneOwner
  <2> QED
    BY <1>1, <1>2, <1>5, <2>2, <2>3, <2>4
<1>7. CASE UnpackFails(m) \/ TakeOther(m)
  BY <1>1, <1>3, <1>7 DEF UnpackFails, TakeOther, Return
<1> QED
  BY <1>4, <1>6, <1>7 DEF TakeMessage

(* What the application is then told is new. *)
LEMMA AnswerTold ==
    ASSUME IInv, ArrivedOK, AnswersAreExecuted, ToldInv, Answered, wanted, delivered' # <<>>
    PROVE  result' = Returned(answers[call.id]) /\ IsNew(result')
<1>1. /\ pc = "receiving" /\ delivered'[1].id = call.id
      /\ 1 \in DOMAIN toClient /\ toClient[1].id = call.id /\ toClient[1].code # ErrorCode
  BY AnswerEnds
<1>2. PICK j \in executed : arrived[j].id = call.id
  BY <1>1 DEF AnswersAreExecuted
<1>3. arrived[j].asked
  BY <1>1, <1>2 DEF ToldInv, AsksWhenWanted, ArrivedOK
<1>4. IsNew(Returned(answers[call.id]))
  BY <1>1, <1>2, <1>3 DEF ToldInv, AnswerIsNew
<1>5. result' = Returned(answers[call.id])
  BY <1>1 DEF Answered
<1> QED
  BY <1>4, <1>5

(* A new call: nothing of it has arrived before. *)
LEMMA IssueTold ==
    ASSUME ArrivedOK, ArrivedAreCalls, ToldInv, TypeOK, CounterNext, Issue
    PROVE  ToldInv'
<1>1. PICK op \in Ops, request \in ArrivedRequests :
              /\ request.id = call'.id /\ request.op = op /\ call'.op = op
              /\ (op = Read \/ wanted') => request.asked
              /\ arrived' = arrived \/ arrived' = Append(arrived, request)
              /\ call'.id = call.id + 1 /\ call.id \in Nat /\ call.id < MaxCalls
  BY IssueAdds
<1>2. executed' = executed /\ value' = value /\ answers' = answers /\ told' = told
  BY DEF Issue, nodeVars
<1>3. /\ DOMAIN arrived = 1 .. Len(arrived) /\ Len(arrived) \in Nat
      /\ \A i \in DOMAIN arrived : arrived[i].id \in Nat /\ arrived[i].id # call'.id
  <2>1. \A i \in DOMAIN arrived : arrived[i].id \in Nat /\ arrived[i].id <= call.id
    BY ArrivedHaveIds DEF ArrivedAreCalls
  <2> QED
    BY <1>1, <2>1, FiniteMany
<1>4. CallsBounded'
  BY <1>1, BoundsAssumption DEF CallsBounded
<1>5. /\ \A i \in DOMAIN arrived : arrived'[i] = arrived[i]
      /\ \A i \in DOMAIN arrived' : i \in DOMAIN arrived \/ (i = Len(arrived) + 1 /\ arrived'[i] = request)
  <2>1. CASE arrived' = Append(arrived, request)
    BY <1>2, <2>1, ArrivalAppends
  <2> QED
    BY <1>1, <2>1
<1>6. OneRequestEach'
  <2> SUFFICES ASSUME NEW i \in DOMAIN arrived', NEW j \in DOMAIN arrived',
                      arrived'[i].id = arrived'[j].id
               PROVE  i = j
    BY DEF OneRequestEach
  <2> QED
    BY <1>1, <1>3, <1>5 DEF ToldInv, OneRequestEach
<1>7. AsksWhenWanted'
  <2> SUFFICES ASSUME wanted', NEW i \in DOMAIN arrived', arrived'[i].id = call'.id
               PROVE  arrived'[i].asked
    BY DEF AsksWhenWanted
  <2> QED
    BY <1>1, <1>3, <1>5
<1>8. AnswerIsNew'
  BY <1>2, <1>3, <1>5 DEF AnswerIsNew, ArrivedOK
<1> QED
  BY <1>2, <1>4, <1>6, <1>7, <1>8 DEF ToldInv, AnswersOK

(* The request of the call under way is carried out: the counter it is answered
   with is the greatest so far, and an increment makes it greater. *)
LEMMA ExecuteTold ==
    ASSUME ArrivedOK, ArrivedAreCalls, ToldInv, TypeOK, value \in Nat, Execute, arrived' = arrived
    PROVE  ToldInv'
<1>1. PICK i \in DOMAIN arrived \ executed :
              /\ executed' = executed \cup {i}
              /\ value' = value + IF arrived[i].op = Increment THEN 1 ELSE 0
              /\ answers' = [answers EXCEPT ![arrived[i].id] =
                                IF arrived[i].asked /\ value' > 0 THEN <<value'>> ELSE <<>>]
  BY DEF Execute
<1>2. pc' = pc /\ call' = call /\ wanted' = wanted /\ told' = told
  BY DEF Execute, vars, clientVars, appVars
<1>3. value' \in Nat /\ value <= value' /\ (arrived[i].op = Increment => value' = value + 1)
  BY <1>1
<1>4. told \in Nat /\ told <= value /\ told <= value'
  BY <1>3 DEF ToldInv
<1>5. CallsBounded' /\ AnswersOK' /\ OneRequestEach' /\ AsksWhenWanted'
  <2>1. DOMAIN answers' = DOMAIN answers
    BY <1>1
  <2> QED
    BY <1>2, <2>1 DEF ToldInv, CallsBounded, AnswersOK, OneRequestEach, AsksWhenWanted
<1>6. AnswerIsNew'
  <2> SUFFICES ASSUME pc = "receiving", NEW j \in executed', arrived[j].id = call.id, arrived[j].asked
               PROVE  IsNew(Returned(answers[call.id]))'
    BY <1>2 DEF AnswerIsNew
  <2>1. call.id \in DOMAIN answers
    BY DEF ToldInv, CallsBounded, AnswersOK
  <2>2. CASE j = i
    <3>1. answers'[call.id] = IF value' > 0 THEN <<value'>> ELSE <<>>
      BY <1>1, <2>1, <2>2
    <3>2. Returned(answers'[call.id]) = value'
      BY <1>3, <3>1 DEF Returned
    <3>3. call.op = Increment => told < value'
      <4>1. arrived[i].op = call.op
        BY <2>2 DEF ArrivedAreCalls
      <4> QED
        BY <1>3, <1>4, <4>1
    <3> QED
      BY <1>2, <1>3, <1>4, <3>2, <3>3 DEF IsNew
  <2>3. CASE j # i
    <3>1. j \in executed
      BY <1>1, <2>3
    <3>2. arrived[i].id # call.id
      BY <2>3, <3>1 DEF ToldInv, OneRequestEach, ArrivedOK
    <3>3. answers'[call.id] = answers[call.id]
      BY <1>1, <2>1, <3>2
    <3>4. IsNew(Returned(answers[call.id]))
      BY <3>1 DEF ToldInv, AnswerIsNew
    <3>5. Returned(answers'[call.id]) = Returned(answers[call.id])
      BY <3>3 DEF Returned
    <3> QED
      BY <1>2, <1>3, <3>4, <3>5 DEF IsNew
  <2> QED
    BY <2>2, <2>3
<1> QED
  BY <1>2, <1>3, <1>4, <1>5, <1>6 DEF ToldInv

(* The application is told, and its call is over. *)
LEMMA AnsweredTold ==
    ASSUME IInv, ArrivedOK, AnswersAreExecuted, ToldInv, value \in Nat, Answered,
           arrived' = arrived, call' = call
    PROVE  ToldInv'
<1>1. executed' = executed /\ value' = value /\ answers' = answers
  BY DEF Answered, nodeVars
<1>2. CallsBounded' /\ AnswersOK' /\ OneRequestEach' /\ AsksWhenWanted' /\ AnswerIsNew'
  BY <1>1, AnswerEnds DEF ToldInv, CallsBounded, AnswersOK, OneRequestEach, AsksWhenWanted, AnswerIsNew
<1>3. told' \in Nat /\ told' <= value'
  <2>1. CASE wanted /\ delivered' # <<>>
    <3>1. IsNew(result')
      BY <2>1, AnswerTold
    <3>2. told' = IF result' > told THEN result' ELSE told
      BY <2>1 DEF Answered
    <3> QED
      BY <1>1, <3>1, <3>2 DEF IsNew, ToldInv
  <2>2. CASE ~(wanted /\ delivered' # <<>>)
    BY <1>1, <2>2 DEF Answered, ToldInv
  <2> QED
    BY <2>1, <2>2
<1> QED
  BY <1>2, <1>3 DEF ToldInv

LEMMA StepToldInv ==
    ASSUME CountInv, SettledInv, IInv, TypeOK', ToldInv, [CounterNext]_counterVars
    PROVE  ToldInv'
<1>1. ArrivedOK /\ ArrivedAreCalls /\ AnswersAreExecuted /\ TypeOK /\ value \in Nat
  BY FiniteMany DEF CountInv, SettledInv, IInv
<1>2. CASE CounterNext /\ Issue
  BY <1>1, <1>2, IssueTold
<1>3. CASE CounterNext /\ ~Issue
  <2>1. arrived' = arrived /\ call' = call
    BY <1>1, <1>3, OnlyIssueAdds
  <2>2. CASE Execute
    BY <1>1, <2>1, <2>2, ExecuteTold
  <2>3. CASE Answered
    BY <1>1, <2>1, <2>3, AnsweredTold
  <2>4. CASE UNCHANGED <<nodeVars, appVars>>
    <3>1. pc' = "receiving" => pc = "receiving"
      BY <1>3, OnlyIssueWaits
    <3>2. UNCHANGED <<executed, value, answers, wanted, told>>
      BY <2>4 DEF nodeVars, appVars
    <3> QED
      BY <2>1, <3>1, <3>2 DEF ToldInv, CallsBounded, AnswersOK, OneRequestEach, AsksWhenWanted,
         AnswerIsNew, IsNew
  <2> QED
    BY <1>3, <2>2, <2>3, <2>4 DEF CounterNext
<1>4. CASE UNCHANGED counterVars
  BY <1>4 DEF counterVars, nodeVars, appVars, vars, clientVars, ToldInv, CallsBounded, AnswersOK,
     OneRequestEach, AsksWhenWanted, AnswerIsNew, IsNew
<1> QED
  BY <1>2, <1>3, <1>4

LEMMA InitToldInv == CounterInit => ToldInv
<1> SUFFICES ASSUME CounterInit PROVE ToldInv
  OBVIOUS
<1>1. call.id = 0 /\ 0 \in 0 .. MaxCalls
  BY BoundsAssumption DEF CounterInit, Init, NoCall, NoOne
<1>2. DOMAIN arrived = {}
  BY DEF CounterInit
<1> QED
  BY <1>1, <1>2 DEF CounterInit, ToldInv, CallsBounded, AnswersOK, OneRequestEach, AsksWhenWanted,
     AnswerIsNew

(* The values an application is told never go back, and an increment is told more
   than was ever told before, for any number of calls and failures, if the
   application reconnects after RIACK_ERROR_COMMUNICATION: a late answer to an
   increment that timed out never reaches the call that repeats it. *)
THEOREM ToldForward ==
    ASSUME Disciplined
    PROVE  CounterSpec => ReadsForward
<1> DEFINE Forward == Answered /\ wanted /\ delivered' # <<>> =>
                          IF call.op = Increment THEN result' > told ELSE result' >= told
<1>1. CountInv /\ SettledInv /\ IInv /\ ToldInv => Forward
  <2> SUFFICES ASSUME CountInv, SettledInv, IInv, ToldInv, Answered, wanted, delivered' # <<>>
               PROVE  IF call.op = Increment THEN result' > told ELSE result' >= told
    OBVIOUS
  <2>1. IsNew(result')
    BY AnswerTold DEF CountInv, SettledInv
  <2>2. told \in Nat
    BY DEF ToldInv
  <2> QED
    BY <2>1, <2>2 DEF IsNew
<1>2. CounterSpec => [](CountInv /\ SettledInv /\ IInv /\ TypeOK)
  BY CounterInvariant
<1>3. CountInv /\ SettledInv /\ IInv /\ TypeOK' /\ ToldInv /\ [CounterNext]_counterVars => ToldInv'
  BY StepToldInv
<1>4. CounterSpec => []ToldInv
  BY <1>2, <1>3, InitToldInv, PTL DEF CounterSpec
<1> HIDE DEF Forward
<1>5. CounterSpec => [][Forward]_counterVars
  BY <1>1, <1>2, <1>4, PTL
<1> QED
  BY <1>5 DEF Forward, ReadsForward
=============================================================================
