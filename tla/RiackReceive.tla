---------------------------- MODULE RiackReceive ----------------------------
(***************************************************************************)
(* riack_receive_message (riack_msg.c) over sock_recv (riack_sock.c): how  *)
(* the bytes of a connection become messages.                              *)
(*                                                                         *)
(* A frame is a length of four bytes, a code of one byte and a body; the   *)
(* length counts code and body.  A byte is named by the message it belongs *)
(* to and its position in the frame: four bytes are the length of message  *)
(* i exactly when they are its positions 1 to 4, and any other four bytes  *)
(* can be any length.  recv hands over as many bytes as it likes.          *)
(***************************************************************************)
EXTENDS Integers, Sequences

CONSTANTS
    BodySizes,      \* sizes of the bodies the node sends
    MaxMessages,    \* bound: messages the node sends
    Modulus,        \* 2^32 for uint32_t; small here so that its wrap is reached
    GarbageLengths, \* lengths that bytes out of step can spell
    RecvTimeout     \* recv can fail with EAGAIN

LengthBytes == 4
CodeBytes == 1

(* The int a uint32_t of value u is passed as. *)
AsInt(u) == IF u >= Modulus \div 2 THEN u - Modulus ELSE u

(* Mutant: the length is taken for the body's. *)
BodyLength_WithCode(length) == length % Modulus

(* ntohl(msgLenN)-1 *)
BodyLength(length) == (length - 1) % Modulus

(* What the caller of riack_receive_message sees: msg_len + 5 as an int. *)
ReturnValue(bodyLength) == AsInt((bodyLength + LengthBytes + CodeBytes) % Modulus)

(* Messages of 2^31 - 5 bytes and more are not read as such. *)
ASSUME SizeAssumption ==
    /\ MaxMessages \in Nat
    /\ Modulus \in Nat \ {0} /\ Modulus % 2 = 0
    /\ BodySizes \subseteq Nat
    /\ \A size \in BodySizes : ReturnValue(size) > 0 /\ size + 5 < Modulus
    /\ GarbageLengths \subseteq 0 .. Modulus - 1
    /\ RecvTimeout \in BOOLEAN

VARIABLES
    sizes,    \* body sizes of the messages sent so far
    stream,   \* bytes under way, as <<message, position>>
    closed,   \* the node has closed the connection
    stage,    \* "idle", or what is being read: "length", "code", "body"
    before,   \* bytes this call has read in earlier stages
    got,      \* bytes sock_recv has read in this stage (its offset is their number)
    msgLen,   \* recvMsg->msg_len
    returned, \* the frames handed to the caller, oldest first
    failed,   \* a call has returned -1
    torn      \* one of those had read bytes

nodeVars == <<sizes, closed>>
callVars == <<stage, before, got, msgLen>>
vars == <<nodeVars, stream, callVars, returned, failed, torn>>

FrameSize(i) == LengthBytes + CodeBytes + sizes[i]
Frame(i) == [position \in 1 .. FrameSize(i) |-> <<i, position>>]

Bytes == (1 .. MaxMessages) \X Nat

TypeOK ==
    /\ sizes \in Seq(BodySizes)
    /\ stream \in Seq(Bytes)
    /\ closed \in BOOLEAN
    /\ stage \in {"idle", "length", "code", "body"}
    /\ before \in Seq(Bytes)
    /\ got \in Seq(Bytes)
    /\ msgLen \in 0 .. Modulus - 1
    /\ returned \in Seq(Seq(Bytes))
    /\ failed \in BOOLEAN
    /\ torn \in BOOLEAN

Init ==
    /\ sizes = <<>>
    /\ stream = <<>>
    /\ closed = FALSE
    /\ stage = "idle"
    /\ before = <<>>
    /\ got = <<>>
    /\ msgLen = 0
    /\ returned = <<>>
    /\ failed = FALSE
    /\ torn = FALSE

-----------------------------------------------------------------------------
(* The node (external). *)

Post ==
    /\ ~closed
    /\ Len(sizes) < MaxMessages
    /\ \E size \in BodySizes : sizes' = Append(sizes, size)
    /\ stream' = stream \o Frame(Len(sizes))'
    /\ UNCHANGED <<closed, callVars, returned, failed, torn>>

(* Closing can lose what has not been read, and cut a frame short. *)
Close ==
    /\ ~closed
    /\ closed' = TRUE
    /\ \E k \in 0 .. Len(stream) : stream' = SubSeq(stream, 1, k)
    /\ UNCHANGED <<sizes, callVars, returned, failed, torn>>

-----------------------------------------------------------------------------
(* riack_receive_message *)

Begin ==
    /\ stage = "idle"
    /\ stage' = "length"
    /\ before' = <<>>
    /\ got' = <<>>
    /\ msgLen' = 0
    /\ UNCHANGED <<nodeVars, stream, returned, failed, torn>>

(* The int passed to sock_recv as len. *)
Wanted == CASE stage = "length" -> LengthBytes
            [] stage = "code" -> CodeBytes
            [] stage = "body" -> AsInt(msgLen)
            [] OTHER -> 0

(* Mutant: recv into buff instead of buff + offset.  <<1, 0>> is a byte of the
   buffer nothing was read into. *)
Recv_NoOffset ==
    /\ stage # "idle"
    /\ Len(got) < Wanted
    /\ \E k \in 1 .. Wanted - Len(got) :
          /\ k <= Len(stream)
          /\ got' = [j \in 1 .. Len(got) + k |->
                        CASE j <= k -> stream[j]
                          [] k < j /\ j <= Len(got) -> got[j]
                          [] OTHER -> <<1, 0>>]
          /\ stream' = SubSeq(stream, k + 1, Len(stream))
    /\ UNCHANGED <<nodeVars, stage, before, msgLen, returned, failed, torn>>

(* One recv of the loop in sock_recv, which asks for len - offset bytes.  A recv
   interrupted by a signal is repeated and changes nothing. *)
Recv ==
    /\ stage # "idle"
    /\ Len(got) < Wanted
    /\ \E k \in 1 .. Wanted - Len(got) :
          /\ k <= Len(stream)
          /\ got' = got \o SubSeq(stream, 1, k)
          /\ stream' = SubSeq(stream, k + 1, Len(stream))
    /\ UNCHANGED <<nodeVars, stage, before, msgLen, returned, failed, torn>>

ReadSoFar == before \o got

NextStage(s) ==
    /\ stage' = s
    /\ before' = ReadSoFar
    /\ got' = <<>>

GoneIdle ==
    /\ stage' = "idle"
    /\ before' = <<>>
    /\ got' = <<>>
    /\ msgLen' = 0

(* The caller is given what was read, unless the return value is not positive. *)
Deliver(bodyLength) ==
    /\ GoneIdle
    /\ UNCHANGED torn
    /\ IF ReturnValue(bodyLength) > 0
       THEN returned' = Append(returned, ReadSoFar) /\ UNCHANGED failed
       ELSE failed' = TRUE /\ UNCHANGED returned

Fail ==
    /\ GoneIdle
    /\ failed' = TRUE
    /\ torn' = (torn \/ ReadSoFar # <<>>)
    /\ UNCHANGED returned

LengthRead ==
    /\ stage = "length"
    /\ Len(got) = LengthBytes
    /\ NextStage("code")
    /\ UNCHANGED <<nodeVars, stream, msgLen, returned, failed, torn>>

(* The values the four bytes can spell in network order. *)
Lengths(header) ==
    LET i == header[1][1]
    IN  IF header = SubSeq(Frame(i), 1, LengthBytes)
        THEN {FrameSize(i) - LengthBytes}
        ELSE GarbageLengths

(* Mutant: a signed length, compared with 0 where -1 can come out. *)
CodeRead_Signed ==
    /\ stage = "code"
    /\ Len(got) = CodeBytes
    /\ \E length \in Lengths(before) :
          IF length - 1 # 0
          THEN /\ msgLen' = length - 1
               /\ NextStage("body")
               /\ UNCHANGED <<returned, failed, torn>>
          ELSE Deliver(0)
    /\ UNCHANGED <<nodeVars, stream>>

CodeRead ==
    /\ stage = "code"
    /\ Len(got) = CodeBytes
    /\ \E length \in Lengths(before) :
          IF BodyLength(length) > 0
          THEN /\ msgLen' = BodyLength(length)
               /\ NextStage("body")
               /\ UNCHANGED <<returned, failed, torn>>
          ELSE Deliver(0)
    /\ UNCHANGED <<nodeVars, stream>>

(* sock_recv has returned the number of bytes it read, none at all when the
   length is negative as an int. *)
BodyRead ==
    /\ stage = "body"
    /\ Len(got) >= Wanted
    /\ IF Len(got) = msgLen THEN Deliver(msgLen) ELSE Fail
    /\ UNCHANGED <<nodeVars, stream>>

(* recv fails with the timeout: sock_recv drops the count of what it has read. *)
TimesOut ==
    /\ stage # "idle"
    /\ Len(got) < Wanted
    /\ RecvTimeout
    /\ Fail
    /\ UNCHANGED <<nodeVars, stream>>

(* Mutant: the end of the connection is taken for a recv to repeat. *)
Ends_Repeats ==
    /\ stage # "idle"
    /\ Len(got) < Wanted
    /\ closed /\ stream = <<>>
    /\ UNCHANGED vars

(* recv returns 0 at the end of the connection: sock_recv returns a short count. *)
Ends ==
    /\ stage # "idle"
    /\ Len(got) < Wanted
    /\ closed /\ stream = <<>>
    /\ Fail
    /\ UNCHANGED <<nodeVars, stream>>

Next == Post \/ Close \/ Begin \/ Recv \/ LengthRead \/ CodeRead \/ BodyRead \/ TimesOut \/ Ends

Spec == Init /\ [][Next]_vars

(* recv returns as soon as there are bytes or the connection has ended, and the
   call goes on.  Nothing is asked of the timeout. *)
FairSpec == Spec /\ WF_vars(Recv \/ LengthRead \/ CodeRead \/ BodyRead \/ Ends)

-----------------------------------------------------------------------------
(* Properties. *)

(* Between calls the connection stands at the start of a frame: what the next
   call reads first is the first byte of a length. *)
StartsAtFrame == stage = "idle" /\ ~torn /\ stream # <<>> => Head(stream)[2] = 1

(* A call on a connection the node has closed returns, with or without a receive
   timeout, in step or out of step. *)
CallReturns == stage # "idle" /\ closed ~> stage = "idle"

-----------------------------------------------------------------------------
(* The abstract channel: a message is under way until its last byte has been
   read by a call that returns it.  The bytes a call has read and those behind
   them follow one another, so the messages that end among them are those from
   the message of the first byte to the last that is whole. *)
Line == ReadSoFar \o stream

LastWhole(s) ==
    LET last == s[Len(s)]
    IN  IF last[2] = FrameSize(last[1]) THEN last[1] ELSE last[1] - 1

Queue ==
    IF Line = <<>> THEN <<>>
    ELSE [i \in 1 .. LastWhole(Line) + 1 - Line[1][1] |-> Line[1][1] + i - 1]

Message(frame) ==
    LET i == frame[1][1] IN IF frame = Frame(i) THEN i ELSE 0

Channel == INSTANCE MessageChannel WITH
    NoMessage <- 0,
    queue <- Queue,
    posted <- Len(sizes),
    shut <- closed,
    taken <- [i \in DOMAIN returned |-> Message(returned[i])]

(* Every step is a step of MessageChannel or none. *)
IsChannel == Channel!ChannelSpec

=============================================================================
