--------------------------- MODULE OrderedChannel ---------------------------
(***************************************************************************)
(* What the reliable layer promises to the TLS connection above it: the    *)
(* chunks it accepted come out at the other end in the order they went in, *)
(* each once, and nothing goes in or out at an end whose session is over.  *)
(***************************************************************************)
EXTENDS Naturals, Sequences

CONSTANT Chunks

VARIABLES
    accepted,   \* the chunks accepted from the sender's TLS
    delivered,  \* the chunks handed to the receiver's TLS
    sending,    \* the sender's session runs
    receiving   \* the receiver's session runs

channelVars == <<accepted, delivered, sending, receiving>>

ChannelInit ==
    /\ accepted = <<>> /\ delivered = <<>>
    /\ sending = TRUE /\ receiving = TRUE

Accept(chunk) ==
    /\ sending
    /\ accepted' = Append(accepted, chunk)
    /\ UNCHANGED <<delivered, sending, receiving>>

\* One or more chunks, the next ones.
Deliver(upTo) ==
    /\ receiving
    /\ delivered' = SubSeq(accepted, 1, upTo)
    /\ UNCHANGED <<accepted, sending, receiving>>

\* An error ends the session of one end, for good.
SenderEnds ==
    /\ sending /\ sending' = FALSE
    /\ UNCHANGED <<accepted, delivered, receiving>>

ReceiverEnds ==
    /\ receiving /\ receiving' = FALSE
    /\ UNCHANGED <<accepted, delivered, sending>>

ChannelNext ==
    \/ \E chunk \in Chunks : Accept(chunk)
    \/ \E upTo \in (Len(delivered) + 1)..Len(accepted) : Deliver(upTo)
    \/ SenderEnds \/ ReceiverEnds

ChannelSpec == ChannelInit /\ [][ChannelNext]_channelVars
=============================================================================
