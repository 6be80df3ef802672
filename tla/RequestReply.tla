---------------------------- MODULE RequestReply ----------------------------
(***************************************************************************)
(* What riack promises the application that calls it, with no socket, no   *)
(* wire and no node: a command is handed the messages of its own answer in *)
(* order, ends with one result, and leaves no other command's error text   *)
(* behind when that result is RIACK_ERROR_RESPONSE.                        *)
(*                                                                         *)
(* A streamed answer that breaks off ends with RIACK_SUCCESS like a        *)
(* complete one: that is as much as the code promises.                     *)
(***************************************************************************)
EXTENDS Integers, Sequences

CONSTANTS Ops, Streaming,
          Success, ConnectionFailed, Refused, Unreadable,  \* the four results
          MaxCalls

VARIABLES busy,    \* a command is under way
          number,  \* of the current or last command
          result,
          handed,  \* the messages handed to it: [call, n]
          errorOf  \* the command whose refusal the error text explains, 0 if
                   \* there is no text or it is riack_connect's own

abstractVars == <<busy, number, result, handed, errorOf>>

RRInit ==
    /\ busy = [on |-> FALSE, streaming |-> FALSE]
    /\ number = 0
    /\ result = ConnectionFailed
    /\ handed = <<>>
    /\ errorOf = 0

Issue ==
    /\ ~busy.on
    /\ number < MaxCalls
    /\ number' = number + 1
    /\ handed' = <<>>
    /\ result' = ConnectionFailed
    /\ UNCHANGED errorOf

Begin(op) == Issue /\ busy' = [on |-> TRUE, streaming |-> op \in Streaming]

(* The request could not be sent. *)
NotSent(op) == Issue /\ busy' = [on |-> FALSE, streaming |-> op \in Streaming]

End(r) ==
    /\ busy.on
    /\ busy' = [on |-> FALSE, streaming |-> busy.streaming]
    /\ result' = r
    /\ UNCHANGED number

(* The next message of the answer: the only one, or one of a stream. *)
Hand ==
    /\ handed' = Append(handed, [call |-> number, n |-> Len(handed) + 1])
    /\ UNCHANGED errorOf
    /\ \/ End(Success)
       \/ busy.on /\ busy.streaming /\ result' = Success /\ UNCHANGED <<busy, number>>

(* The connection failed: what had been handed over until then decides. *)
Lose ==
    /\ End(IF handed = <<>> THEN ConnectionFailed ELSE Success)
    /\ UNCHANGED <<handed, errorOf>>

(* The node refused: its text, or none if there was no memory for it, but never
   the text of another command. *)
Refuse ==
    /\ End(Refused)
    /\ errorOf' \in {number, 0}
    /\ UNCHANGED handed

Misread ==
    /\ End(Unreadable)
    /\ UNCHANGED <<handed, errorOf>>

(* riack_connect can put a text of its own where the node's was; riack_free frees
   it. *)
Overwrite ==
    /\ ~busy.on
    /\ errorOf' = 0
    /\ UNCHANGED <<busy, number, result, handed>>

RRNext == (\E op \in Ops : Begin(op) \/ NotSent(op))
          \/ Hand \/ Lose \/ Refuse \/ Misread \/ Overwrite

Answered == Hand \/ Lose \/ Refuse \/ Misread

RRSpec == RRInit /\ [][RRNext]_abstractVars
RRFairSpec == RRSpec /\ WF_abstractVars(Answered)

=============================================================================
