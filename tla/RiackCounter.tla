---------------------------- MODULE RiackCounter ----------------------------
(***************************************************************************)
(* The counters of riack_crdt.c over the command engine, an application    *)
(* that counts events with them and a node that keeps one counter.         *)
(*                                                                         *)
(* An increment is not idempotent.  One that fails may have been carried   *)
(* out, and an application that repeats it counts twice: what it can rely  *)
(* on is that the counter lies between what has succeeded and what was     *)
(* asked for, and that the values it is told never go back.                *)
(*                                                                         *)
(* The amount is 1.  The answers' values are beside the messages, by the   *)
(* call they answer; ProtobufWire has their bytes.                         *)
(***************************************************************************)
EXTENDS RiackCommand

(* The two functions. *)
Increment == "riack_counter_increment"
Read == "riack_counter_get"

ASSUME CounterAssumption ==
    /\ Ops = {Increment, Read}
    /\ \A op \in Ops : Callback[op] = "once"

VARIABLES
    value,     \* the counter, on the node
    arrived,   \* the requests that went out whole: [id, op, asked]
    executed,  \* those of them the node has carried out
    answers,   \* the value in the answer to each call: <<>> or <<v>>
    wanted,    \* the current call has a place for the value
    result,    \* the application's variable for it
    told,      \* history: the greatest value the application has been told
    tried,     \* history: increments called
    counted    \* history: increments that returned RIACK_SUCCESS

nodeVars == <<value, executed, answers>>
appVars == <<wanted, result, told, tried>>
counterVars == <<vars, nodeVars, appVars, arrived, counted>>

CounterInit ==
    /\ Init
    /\ value = 0 /\ arrived = <<>> /\ executed = {}
    /\ answers = [c \in 0 .. MaxCalls |-> <<>>]
    /\ wanted = FALSE /\ result = 0
    /\ told = 0 /\ tried = 0 /\ counted = 0

-----------------------------------------------------------------------------
(* riack_counter_increment, riack_counter_get: the call up to the loop of the
   command engine.  Both take a place for the value or none. *)
Issue ==
    /\ wanted' \in BOOLEAN
    /\ \E op \in Ops :
          /\ Send(op) \/ SendFails(op)
          /\ tried' = tried + IF op = Increment THEN 1 ELSE 0
    /\ UNCHANGED <<nodeVars, result, told>>

(* riack_counter_get_cb, riack_counter_increment_cb *)
Returned(answer) == IF answer = <<>> THEN 0 ELSE answer[1]

(* The command engine takes a message; a reply goes through the callback. *)
Answered ==
    /\ Receive
    /\ IF delivered' # <<>> /\ wanted
       THEN /\ result' = Returned(answers[delivered'[1].id])
            /\ told' = IF result' > told THEN result' ELSE told
       ELSE UNCHANGED <<result, told>>
    /\ UNCHANGED <<nodeVars, wanted, tried>>

(* An increment asks for the value only if there is a place for it. *)
Packed(request) ==
    [id |-> request.id, op |-> request.op, asked |-> request.op = Read \/ wanted']

(* In every step: the request that has gone out, the command that has ended. *)
GoesOut ==
    LET n == Len(toServer') IN
    arrived' = IF n > Len(toServer) /\ toServer'[n].whole THEN Append(arrived, Packed(toServer'[n]))
               ELSE arrived

Succeeded ==
    counted' = counted + IF /\ pc = "receiving" /\ pc' = "idle"
                            /\ retval' = RIACK_SUCCESS /\ call.op = Increment
                         THEN 1 ELSE 0

-----------------------------------------------------------------------------
(* The node (external) carries out a request at any time before it answers, and
   may refuse it or close the connection after it has.  If the connection is
   gone the request is carried out later, or never. *)
Execute ==
    /\ \E i \in DOMAIN arrived \ executed :
          LET request == arrived[i]
          IN  /\ \A j \in DOMAIN toServer : toServer[j].id # request.id
              /\ executed' = executed \cup {i}
              /\ value' = value + IF request.op = Increment THEN 1 ELSE 0
              /\ answers' = [answers EXCEPT ![request.id] =
                                IF request.asked /\ value' > 0 THEN <<value'>> ELSE <<>>]
    /\ UNCHANGED <<vars, appVars>>

(* An answer comes after the execution. *)
FinishExecuted == Finish /\ \E i \in executed : arrived[i].id = serving.id

Others == ReceiveFails \/ Application \/ Serve \/ FinishExecuted \/ Refuse \/ PeerCloses \/ Terminated

CounterNext ==
    /\ Issue \/ Answered \/ Execute \/ (Others /\ UNCHANGED <<nodeVars, appVars>>)
    /\ GoesOut
    /\ Succeeded

CounterSpec == CounterInit /\ [][CounterNext]_counterVars

-----------------------------------------------------------------------------
(* Properties *)

(* An increment that returned RIACK_SUCCESS is in the counter: no success is
   another command's. *)
NoneLost == counted <= value

(* The counter holds at most what the application has asked for: the library
   itself never sends a request a second time, whatever fails. *)
NoneInvented == value <= tried

(* The values the application is told never go back, and that of an increment is
   greater than every value it was told before: it is not an answer left over
   from an earlier call, nor the variable's old content. *)
ReadsForward ==
    [][Answered /\ wanted /\ delivered' # <<>> =>
         IF call.op = Increment THEN result' > told ELSE result' >= told]_counterVars
=============================================================================
