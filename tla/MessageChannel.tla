--------------------------- MODULE MessageChannel ---------------------------
(***************************************************************************)
(* What riack_receive_message makes of a TCP connection: a FIFO of the     *)
(* node's messages, up to the first call that fails in the middle of one.  *)
(* RiackCommand takes its replies from such a channel.                     *)
(***************************************************************************)
EXTENDS Naturals, Sequences

CONSTANTS NoMessage,  \* what bytes that are no message of the node's are taken for
          MaxMessages

VARIABLES queue,      \* messages under way, numbered as the node sent them
          posted,     \* how many the node has sent
          shut,       \* the node has closed the connection
          torn,       \* a call has failed in the middle of a message
          taken       \* what the client was given

channelVars == <<queue, posted, shut, torn, taken>>

ChannelInit ==
    /\ queue = <<>>
    /\ posted = 0
    /\ shut = FALSE
    /\ torn = FALSE
    /\ taken = <<>>

Post ==
    /\ ~shut
    /\ posted < MaxMessages
    /\ posted' = posted + 1
    /\ queue' = Append(queue, posted')
    /\ UNCHANGED <<shut, torn, taken>>

(* Closing can lose what has not been read. *)
Shut ==
    /\ ~shut
    /\ shut' = TRUE
    /\ \E k \in 0 .. Len(queue) : queue' = SubSeq(queue, 1, k)
    /\ UNCHANGED <<posted, torn, taken>>

Take ==
    /\ ~torn
    /\ queue # <<>>
    /\ taken' = Append(taken, Head(queue))
    /\ queue' = Tail(queue)
    /\ UNCHANGED <<posted, shut, torn>>

(* A call fails in the middle of a message. *)
Tear ==
    /\ torn' = TRUE
    /\ UNCHANGED <<queue, posted, shut, taken>>

(* From then on bytes are read, and taken for messages, that need not be any. *)
Stray ==
    /\ torn
    /\ \E k \in 0 .. Len(queue) : queue' = SubSeq(queue, k + 1, Len(queue))
    /\ \/ UNCHANGED taken
       \/ \E m \in 1 .. posted \cup {NoMessage} : taken' = Append(taken, m)
    /\ UNCHANGED <<posted, shut, torn>>

ChannelNext == Post \/ Shut \/ Take \/ Tear \/ Stray

ChannelSpec == ChannelInit /\ [][ChannelNext]_channelVars

=============================================================================
