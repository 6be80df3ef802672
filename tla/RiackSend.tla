------------------------------ MODULE RiackSend ------------------------------
(***************************************************************************)
(* riack_send_message (riack_msg.c) over sock_send (riack_sock.c): how a   *)
(* request becomes bytes the kernel has taken, and what requests the node  *)
(* can read from them.                                                     *)
(*                                                                         *)
(* Bytes are named as in RiackReceive: <<call, position in the frame>>.    *)
(***************************************************************************)
EXTENDS Integers, Sequences

CONSTANTS
    BodySizes,   \* sizes of the packed requests
    MaxCalls     \* bound: messages sent

ASSUME SendAssumption ==
    BodySizes \subseteq Nat /\ MaxCalls \in Nat

VARIABLES
    sizes,    \* body size per call of riack_send_message, the current one last
    sending,  \* a call is under way
    offset,   \* bytes of its frame the kernel has taken
    stream,   \* the bytes the kernel has taken from all calls
    results   \* per finished call: it returned sendlen and not -1

vars == <<sizes, sending, offset, stream, results>>

FrameSize(i) == 5 + sizes[i]
Frame(i) == [position \in 1 .. FrameSize(i) |-> <<i, position>>]

Current == Len(sizes)
Failed == \E i \in DOMAIN results : ~results[i]

TypeOK ==
    /\ sizes \in Seq(BodySizes)
    /\ sending \in BOOLEAN
    /\ offset \in 0 .. IF Current = 0 THEN 0 ELSE FrameSize(Current)
    /\ stream \in Seq((1 .. MaxCalls) \X Nat)
    /\ results \in Seq(BOOLEAN)

Init ==
    /\ sizes = <<>>
    /\ sending = FALSE
    /\ offset = 0
    /\ stream = <<>>
    /\ results = <<>>

(* riack_send_message builds the frame. *)
Begin ==
    /\ ~sending
    /\ Current < MaxCalls
    /\ \E size \in BodySizes : sizes' = Append(sizes, size)
    /\ sending' = TRUE
    /\ offset' = 0
    /\ UNCHANGED <<stream, results>>

(* Mutant: the bytes are taken from the start of the buffer every time. *)
Write_FromStart ==
    /\ sending
    /\ offset < FrameSize(Current)
    /\ \E k \in 1 .. FrameSize(Current) - offset :
          /\ stream' = stream \o SubSeq(Frame(Current), 1, k)
          /\ offset' = offset + k
    /\ UNCHANGED <<sizes, sending, results>>

(* One send of the loop in sock_send: the kernel takes some of the len - offset
   bytes offered.  A send interrupted by a signal is repeated. *)
Write ==
    /\ sending
    /\ offset < FrameSize(Current)
    /\ \E k \in 1 .. FrameSize(Current) - offset :
          /\ stream' = stream \o SubSeq(Frame(Current), offset + 1, offset + k)
          /\ offset' = offset + k
    /\ UNCHANGED <<sizes, sending, results>>

End(sent) ==
    /\ sending' = FALSE
    /\ results' = Append(results, sent)
    /\ UNCHANGED <<sizes, offset, stream>>

(* Mutant: the count is compared with msg_len. *)
Sent_ComparesBody ==
    /\ sending
    /\ offset = FrameSize(Current)
    /\ End(offset = sizes[Current])

(* sock_send has returned sendlen. *)
Sent == sending /\ offset = FrameSize(Current) /\ End(TRUE)

(* send failed (the send timeout, a closed connection) or took nothing. *)
SendFails == sending /\ offset < FrameSize(Current) /\ End(FALSE)

(* The caller has sent what it will send. *)
Finished ==
    /\ ~sending
    /\ Current = MaxCalls
    /\ UNCHANGED vars

Next == Begin \/ Write \/ Sent \/ SendFails \/ Finished

Spec == Init /\ [][Next]_vars

-----------------------------------------------------------------------------
(* The node (external) reads a length, then as many bytes; bytes that are no
   length of the client's are the end of what it can make sense of. *)
HeaderAt(p) ==
    /\ p + 3 <= Len(stream)
    /\ SubSeq(stream, p, p + 3) = SubSeq(Frame(stream[p][1]), 1, 4)

FrameAt(p) == SubSeq(stream, p, p + FrameSize(stream[p][1]) - 1)

WholeAt(p) == HeaderAt(p) /\ p + FrameSize(stream[p][1]) - 1 <= Len(stream)

RequestsFrom[p \in 1 .. Len(stream) + 1] ==
    IF p <= Len(stream) /\ WholeAt(p)
    THEN <<FrameAt(p)>> \o RequestsFrom[p + Len(FrameAt(p))]
    ELSE <<>>

NodeReads == RequestsFrom[1]

FirstFailure == CHOOSE i \in DOMAIN results : ~results[i]
                                              /\ \A j \in 1 .. i - 1 : results[j]

(* Up to the first call that fails, the node reads one request per call, each
   the very bytes the call was given, and all of them when the call returns. *)
OneRequestPerCall ==
    /\ \A i \in DOMAIN NodeReads :
          (Failed => i < FirstFailure) => NodeReads[i] = Frame(i)
    /\ \A i \in DOMAIN results :
          (\A j \in 1 .. i : results[j]) => i \in DOMAIN NodeReads

(* The node never gets to read the whole request of a call that returned -1,
   whatever is sent behind it: the application may issue it again without its
   being carried out twice. *)
FailedIsUnread ==
    \A i \in DOMAIN results : ~results[i] =>
        \A j \in DOMAIN NodeReads : NodeReads[j] # Frame(i)

=============================================================================
