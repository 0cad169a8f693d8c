--------------------------- MODULE ReliableChannel ---------------------------
(***************************************************************************)
(* The reliable layer under the TLS control channel, one direction of it:  *)
(* the ReliableSendQueue of one ProtocolEngine, a datagram network that    *)
(* loses, duplicates and reorders, and the ReliableRecvQueue of its peer   *)
(* (crates/ovpn-protocol/src/reliable.rs, driven by engine.rs and by the   *)
(* select loop of ovpn-core's session.rs).                                 *)
(*                                                                         *)
(* The engine handles one datagram or one tick at a time, and every error  *)
(* of the queues ends the session, so each handler is one step.  The k-th  *)
(* chunk that TLS writes is the payload k.  Retransmission deadlines are   *)
(* not measured: any set of unacknowledged packets may be due at a tick.   *)
(***************************************************************************)
EXTENDS Integers, Sequences, FiniteSets

CONSTANTS
    MaxPackets,      \* bound on the chunks TLS writes
    WindowSize,      \* window_size: packets that may be unacknowledged
    MaxRetransmits,  \* max_retransmits
    BufferLimit      \* the out_of_order length above which packets are refused

ASSUME MaxPacketsAssumption == MaxPackets \in Nat \ {0}
ASSUME WindowAssumption == WindowSize \in Nat
ASSUME RetransmitsAssumption == MaxRetransmits \in Nat
ASSUME BufferAssumption == BufferLimit \in Nat

Ids == 0..(MaxPackets - 1)
Payloads == 1..MaxPackets
Packet == [packet_id : Ids, payload : Payloads]

\* What the model keeps of a ReliablePacket.
ReliablePacket ==
    [packet_id : Ids, payload : Payloads, retransmit_count : 0..MaxRetransmits]

VARIABLES
    written,           \* chunks TLS has written
    next_packet_id,    \* sender: id of the next packet
    unacked,           \* sender: packets sent and not yet acknowledged
    sender,            \* sender: its session runs, or the error that ended it
    wire,              \* datagrams with a payload under way
    acks,              \* acknowledgements under way
    next_expected_id,  \* receiver: id of the next packet in order
    out_of_order,      \* receiver: packets ahead of the next in order
    receiver,          \* receiver: its session runs, or the error that ended it
    delivered          \* chunks handed to the receiver's TLS, in order of delivery

senderVars == <<written, next_packet_id, unacked, sender>>
receiverVars == <<next_expected_id, out_of_order, receiver, delivered>>
vars == <<senderVars, wire, acks, receiverVars>>

TypeOK ==
    /\ written \in 0..MaxPackets
    /\ next_packet_id \in 0..MaxPackets
    /\ unacked \subseteq ReliablePacket
    /\ sender \in {"up", "window_overflow", "handshake_timeout"}
    /\ wire \subseteq Packet
    /\ acks \subseteq Ids
    /\ next_expected_id \in 0..MaxPackets
    /\ out_of_order \subseteq Packet
    /\ receiver \in {"up", "window_overflow"}
    /\ delivered \in Seq(Payloads)

Init ==
    /\ written = 0
    /\ next_packet_id = 0
    /\ unacked = {}
    /\ sender = "up"
    /\ wire = {}
    /\ acks = {}
    /\ next_expected_id = 0
    /\ out_of_order = {}
    /\ receiver = "up"
    /\ delivered = <<>>

-----------------------------------------------------------------------------
(* Sender *)

\* TLS has bytes to send: they get the next id and go out once, or the window
\* is full, the bytes are gone and the error ends the session.
enqueue ==
    /\ sender = "up"
    /\ written < MaxPackets
    /\ written' = written + 1
    /\ \/ /\ Cardinality(unacked) < WindowSize
          /\ next_packet_id' = next_packet_id + 1
          /\ unacked' = unacked \cup {[packet_id |-> next_packet_id, payload |-> written + 1,
                                       retransmit_count |-> 0]}
          /\ wire' = wire \cup {[packet_id |-> next_packet_id, payload |-> written + 1]}
          /\ UNCHANGED sender
       \/ /\ Cardinality(unacked) >= WindowSize
          /\ sender' = "window_overflow"
          /\ UNCHANGED <<next_packet_id, unacked, wire>>
    /\ UNCHANGED <<acks, receiverVars>>

\* Mutant: an acknowledgement is taken to cover all earlier packets.
process_acks_Cumulative(id) ==
    /\ sender = "up"
    /\ id \in acks
    /\ unacked' = {p \in unacked : p.packet_id > id}
    /\ acks' \in {acks, acks \ {id}}
    /\ UNCHANGED <<written, next_packet_id, sender, wire, receiverVars>>

\* An acknowledgement arrives; the network may deliver it again later.
process_acks(id) ==
    /\ sender = "up"
    /\ id \in acks
    /\ unacked' = {p \in unacked : p.packet_id # id}
    /\ acks' \in {acks, acks \ {id}}
    /\ UNCHANGED <<written, next_packet_id, sender, wire, receiverVars>>

OnWire(p) == [packet_id |-> p.packet_id, payload |-> p.payload]

\* A tick at which the packets of due have waited out their timers: all are
\* sent again, or one has used up its retransmissions and ends the session.
poll_retransmissions(due) ==
    /\ sender = "up"
    /\ due \subseteq unacked
    /\ \/ /\ \A p \in due : p.retransmit_count < MaxRetransmits
          /\ unacked' = (unacked \ due)
                        \cup {[p EXCEPT !.retransmit_count = @ + 1] : p \in due}
          /\ wire' = wire \cup {OnWire(p) : p \in due}
          /\ UNCHANGED sender
       \/ /\ \E p \in due : p.retransmit_count >= MaxRetransmits
          /\ sender' = "handshake_timeout"
          /\ UNCHANGED <<unacked, wire>>
    /\ UNCHANGED <<written, next_packet_id, acks, receiverVars>>

-----------------------------------------------------------------------------
(* Receiver *)

Buffered == {p.packet_id : p \in out_of_order}
BufferedPayload(id) == (CHOOSE p \in out_of_order : p.packet_id = id).payload

\* A packet below the next expected one: acknowledged again and ignored.
Duplicate(p) ==
    /\ p.packet_id < next_expected_id
    /\ acks' = acks \cup {p.packet_id}
    /\ UNCHANGED receiverVars

\* Mutant: only the packet itself is delivered, the buffered run behind it is
\* left in the buffer.
InOrder_NoDrain(p) ==
    /\ p.packet_id = next_expected_id
    /\ next_expected_id' = p.packet_id + 1
    /\ delivered' = Append(delivered, p.payload)
    /\ acks' = acks \cup {p.packet_id}
    /\ UNCHANGED <<out_of_order, receiver>>

\* The expected packet: it and the contiguous run buffered behind it, up to
\* but excluding id n, become ready and are drained to TLS.
InOrder(p) ==
    /\ p.packet_id = next_expected_id
    /\ \E n \in (p.packet_id + 1)..MaxPackets :
          /\ \A i \in (p.packet_id + 1)..(n - 1) : i \in Buffered
          /\ n \notin Buffered
          /\ next_expected_id' = n
          /\ delivered' = delivered \o [i \in 1..(n - p.packet_id) |->
                                          IF i = 1 THEN p.payload
                                          ELSE BufferedPayload(p.packet_id + i - 1)]
          /\ out_of_order' = {q \in out_of_order : q.packet_id \notin (p.packet_id + 1)..(n - 1)}
    /\ acks' = acks \cup {p.packet_id}
    /\ UNCHANGED receiver

\* Mutant: a packet ahead of the next in order is delivered at once.
Ahead_Delivers(p) ==
    /\ p.packet_id > next_expected_id
    /\ Cardinality(out_of_order) <= BufferLimit
    /\ delivered' = Append(delivered, p.payload)
    /\ next_expected_id' = p.packet_id + 1
    /\ acks' = acks \cup {p.packet_id}
    /\ UNCHANGED <<out_of_order, receiver>>

\* A packet ahead of the next in order is buffered.  A buffer above its limit
\* ends the session, before the acknowledgement is sent.
Ahead(p) ==
    /\ p.packet_id > next_expected_id
    /\ \/ /\ Cardinality(out_of_order) <= BufferLimit
          /\ out_of_order' = {q \in out_of_order : q.packet_id # p.packet_id} \cup {p}
          /\ acks' = acks \cup {p.packet_id}
          /\ UNCHANGED receiver
       \/ /\ Cardinality(out_of_order) > BufferLimit
          /\ receiver' = "window_overflow"
          /\ UNCHANGED <<out_of_order, acks>>
    /\ UNCHANGED <<next_expected_id, delivered>>

\* Mutant: datagrams are handled after the session's error, too.
process_packet_AfterError(p) ==
    /\ p \in wire
    /\ wire' \in {wire, wire \ {p}}
    /\ Duplicate(p) \/ InOrder(p) \/ Ahead(p)
    /\ UNCHANGED senderVars

\* A datagram arrives; the network may deliver it again later.
process_packet(p) ==
    /\ receiver = "up"
    /\ p \in wire
    /\ wire' \in {wire, wire \ {p}}
    /\ Duplicate(p) \/ InOrder(p) \/ Ahead(p)
    /\ UNCHANGED senderVars

-----------------------------------------------------------------------------
(* Network *)

Lose ==
    /\ \/ \E p \in wire : wire' = wire \ {p} /\ UNCHANGED acks
       \/ \E id \in acks : acks' = acks \ {id} /\ UNCHANGED wire
    /\ UNCHANGED <<senderVars, receiverVars>>

Next ==
    \/ enqueue
    \/ \E id \in acks : process_acks(id)
    \/ \E due \in SUBSET unacked : due # {} /\ poll_retransmissions(due)
    \/ \E p \in wire : process_packet(p)
    \/ Lose

Spec == Init /\ [][Next]_vars

\* The session's 50 ms ticker fires for as long as the session runs, and each
\* packet's timer runs out: every unacknowledged packet is polled again.
Ticks(id) ==
    \E due \in SUBSET unacked :
        (\E p \in due : p.packet_id = id) /\ poll_retransmissions(due)

FairSpec == Spec /\ \A id \in Ids : WF_vars(Ticks(id))

-----------------------------------------------------------------------------
(***************************************************************************)
(* DeliveredPrefix: what the receiver's TLS has been given is the first    *)
(* chunks the sender's TLS wrote, each once and in order, whatever the     *)
(* network lost, repeated or reordered (process_packet's reordering).      *)
(***************************************************************************)
DeliveredPrefix ==
    /\ Len(delivered) <= written
    /\ \A i \in 1..Len(delivered) : delivered[i] = i

\* The receiver has the packet: delivered, or kept for later.
Held(id) == id < next_expected_id \/ id \in Buffered

(***************************************************************************)
(* NothingLost: process_acks forgets a packet only if the peer holds it.   *)
(* A packet given an id is, at every moment, either still with the sender, *)
(* which will send it again, or with the receiver.                         *)
(***************************************************************************)
NothingLost ==
    \A id \in 0..(next_packet_id - 1) :
        Held(id) \/ \E p \in unacked : p.packet_id = id

(***************************************************************************)
(* AwaitedIsKept: the packet the receiver waits for is still with the      *)
(* sender, which repeats it until it is acknowledged.  The two queues      *)
(* never part with the sender's empty and the receiver's full of packets   *)
(* behind a gap that nobody will fill (process_acks against the draining   *)
(* of out_of_order in process_packet).                                     *)
(***************************************************************************)
AwaitedIsKept ==
    next_expected_id < next_packet_id =>
        \E p \in unacked : p.packet_id = next_expected_id

(***************************************************************************)
(* ImplementsChannel: for the TLS connections at its ends the layer is an  *)
(* ordered channel of the chunks that were given an id.  An end whose      *)
(* session is over neither accepts nor delivers (session.rs leaves its     *)
(* loop on any error of the queues), whatever datagrams still arrive.      *)
(***************************************************************************)
Channel == INSTANCE OrderedChannel WITH
    Chunks <- Payloads,
    accepted <- [i \in 1..next_packet_id |-> i],
    sending <- sender = "up",
    receiving <- receiver = "up"

ImplementsChannel == Channel!ChannelSpec

(***************************************************************************)
(* EventuallyDelivered: a chunk that was given an id reaches the peer's    *)
(* TLS, or one of the two sessions ends with an error; the channel never   *)
(* stalls in silence with the chunk stuck in a buffer.                     *)
(***************************************************************************)
EventuallyDelivered ==
    \A id \in Ids :
        id < next_packet_id ~> \/ Len(delivered) > id
                               \/ sender # "up"
                               \/ receiver # "up"
=============================================================================
