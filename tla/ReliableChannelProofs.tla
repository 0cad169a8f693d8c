------------------------ MODULE ReliableChannelProofs ------------------------
(***************************************************************************)
(* Proofs about the reliable control channel, for any number of packets,   *)
(* window, buffer and retransmission limit: chunks reach the peer's TLS    *)
(* once and in order, no packet is forgotten by both sides, the packet the *)
(* receiver waits for stays with the sender, and the whole implements an   *)
(* ordered channel.                                                        *)
(***************************************************************************)
EXTENDS ReliableChannel, SequenceTheorems, TLAPS

-----------------------------------------------------------------------------
(* Inductive invariant *)

\* A packet carries the chunk that was written when it got its id.
Carries(p) == p.packet_id < next_packet_id /\ p.payload = p.packet_id + 1

\* Ids and chunks are handed out together, as long as the session runs, and
\* no copy of a packet, on the wire or in a queue, carries another chunk.
Genuine ==
    /\ next_packet_id <= written
    /\ sender = "up" => next_packet_id = written
    /\ \A p \in unacked : Carries(p)
    /\ \A p \in wire : Carries(p)
    /\ \A p \in out_of_order : Carries(p)

\* The receiver's counter, the sender's and the delivered chunks agree.
InStep ==
    /\ Len(delivered) = next_expected_id
    /\ next_expected_id <= next_packet_id
    /\ \A i \in 1..Len(delivered) : delivered[i] = i

\* An acknowledgement under way is for a packet the receiver holds.
AcksHonest == \A id \in acks : Held(id)

IInv ==
    /\ TypeOK
    /\ Genuine
    /\ InStep
    /\ AcksHonest
    /\ NothingLost

\* The initial state satisfies the inductive invariant.
LEMMA InitIInv == Init => IInv
<1> SUFFICES ASSUME Init
             PROVE  IInv
  OBVIOUS
<1> USE MaxPacketsAssumption DEF Init
<1>1. TypeOK
  BY DEF TypeOK
<1>2. Genuine /\ InStep /\ AcksHonest /\ NothingLost
  BY DEF Genuine, InStep, AcksHonest, NothingLost
<1> QED BY <1>1, <1>2 DEF IInv

\* What the receiver holds it keeps: steps that leave its counter and its
\* buffer alone change nothing about it.
LEMMA HeldUnchanged ==
    ASSUME UNCHANGED <<next_expected_id, out_of_order>>
    PROVE  \A id : Held(id)' <=> Held(id)
BY DEF Held, Buffered

\* A new packet, or a full window.
LEMMA EnqueueStep ==
    ASSUME IInv, enqueue
    PROVE  IInv'
<1> USE MaxPacketsAssumption, WindowAssumption, RetransmitsAssumption
<1> DEFINE id == next_packet_id
           rp == [packet_id |-> id, payload |-> written + 1, retransmit_count |-> 0]
           np == [packet_id |-> id, payload |-> written + 1]
<1>1. /\ sender = "up" /\ written \in 0..MaxPackets /\ written < MaxPackets
      /\ written' = written + 1 /\ id = written /\ UNCHANGED <<acks, receiverVars>>
  BY DEF enqueue, IInv, TypeOK, Genuine
<1>2. rp \in ReliablePacket /\ np \in Packet
  BY <1>1 DEF ReliablePacket, Packet, Ids, Payloads
<1>3. CASE sender' = "window_overflow"
  <2>1. UNCHANGED <<next_packet_id, unacked, wire>>
    BY <1>1, <1>3 DEF enqueue
  <2>2. TypeOK'
    BY <1>1, <1>3, <2>1 DEF IInv, TypeOK, receiverVars
  <2>3. Genuine'
    BY <1>1, <1>3, <2>1 DEF IInv, TypeOK, Genuine, Carries, receiverVars
  <2>4. InStep'
    BY <1>1, <2>1 DEF IInv, InStep, receiverVars
  <2>5. AcksHonest' /\ NothingLost'
    BY <1>1, <2>1, HeldUnchanged DEF IInv, AcksHonest, NothingLost, receiverVars
  <2> QED BY <2>2, <2>3, <2>4, <2>5 DEF IInv
<1>4. CASE sender' = "up"
  <2>1. /\ next_packet_id' = id + 1
        /\ unacked' = unacked \cup {rp}
        /\ wire' = wire \cup {np}
    BY <1>1, <1>4 DEF enqueue
  <2>2. TypeOK'
    BY <1>1, <1>2, <1>4, <2>1 DEF IInv, TypeOK, receiverVars
  <2>3. Genuine'
    <3>1. next_packet_id' = written'
      BY <1>1, <2>1
    <3>2. \A p \in unacked' : Carries(p)'
      <4>1. \A p \in unacked : Carries(p)'
        BY <1>1, <2>1 DEF IInv, TypeOK, Genuine, Carries, ReliablePacket, Ids
      <4>2. \A p \in {rp} : Carries(p)'
        BY <1>1, <2>1 DEF Carries
      <4> QED BY <2>1, <4>1, <4>2
    <3>3. \A p \in wire' : Carries(p)'
      <4>1. \A p \in wire : Carries(p)'
        BY <1>1, <2>1 DEF IInv, TypeOK, Genuine, Carries, Packet, Ids
      <4>2. \A p \in {np} : Carries(p)'
        BY <1>1, <2>1 DEF Carries
      <4> QED BY <2>1, <4>1, <4>2
    <3>4. \A p \in out_of_order' : Carries(p)'
      BY <1>1, <2>1 DEF IInv, TypeOK, Genuine, Carries, Packet, Ids, receiverVars
    <3>5. next_packet_id' <= written'
      BY <3>1, <1>1
    <3> QED BY <3>1, <3>2, <3>3, <3>4, <3>5 DEF Genuine
  <2>4. InStep'
    BY <1>1, <2>1 DEF IInv, TypeOK, InStep, receiverVars
  <2>5. AcksHonest'
    BY <1>1, HeldUnchanged DEF IInv, AcksHonest, receiverVars
  <2>6. NothingLost'
    <3> SUFFICES ASSUME NEW k \in 0..(next_packet_id' - 1)
                 PROVE  Held(k)' \/ \E p \in unacked' : p.packet_id = k
      BY DEF NothingLost
    <3>1. CASE k = id
      <4>1. rp \in unacked' /\ rp.packet_id = k
        BY <2>1, <3>1
      <4> QED BY <4>1
    <3>2. CASE k # id
      <4>1. k \in 0..(next_packet_id - 1)
        BY <1>1, <2>1, <3>2
      <4> QED BY <1>1, <2>1, <4>1, HeldUnchanged DEF IInv, NothingLost, receiverVars
    <3> QED BY <3>1, <3>2
  <2> QED BY <2>2, <2>3, <2>4, <2>5, <2>6 DEF IInv
<1> QED BY <1>1, <1>3, <1>4 DEF enqueue

\* An acknowledgement is read: the packet it names is held by the receiver.
LEMMA AckStep ==
    ASSUME IInv, NEW id \in acks, process_acks(id)
    PROVE  IInv'
<1>1. /\ unacked' = {p \in unacked : p.packet_id # id}
      /\ acks' \subseteq acks
      /\ UNCHANGED <<written, next_packet_id, sender, wire, receiverVars>>
  BY DEF process_acks
<1>2. TypeOK'
  BY <1>1 DEF IInv, TypeOK, receiverVars
<1>3. Genuine'
  BY <1>1 DEF IInv, Genuine, Carries, receiverVars
<1>4. InStep'
  BY <1>1 DEF IInv, InStep, receiverVars
<1>5. AcksHonest'
  BY <1>1, HeldUnchanged DEF IInv, AcksHonest, receiverVars
<1>6. NothingLost'
  <2> SUFFICES ASSUME NEW k \in 0..(next_packet_id - 1)
               PROVE  Held(k)' \/ \E p \in unacked' : p.packet_id = k
    BY <1>1 DEF NothingLost
  <2>1. CASE k = id
    BY <2>1, <1>1, HeldUnchanged DEF IInv, AcksHonest, receiverVars
  <2>2. CASE k # id
    BY <2>2, <1>1, HeldUnchanged DEF IInv, NothingLost, receiverVars
  <2> QED BY <2>1, <2>2
<1> QED BY <1>2, <1>3, <1>4, <1>5, <1>6 DEF IInv

\* A tick: packets are sent again, or the session gives up.
LEMMA PollStep ==
    ASSUME IInv, NEW due \in SUBSET unacked, poll_retransmissions(due)
    PROVE  IInv'
<1> USE RetransmitsAssumption
<1>1. UNCHANGED <<written, next_packet_id, acks, receiverVars>>
  BY DEF poll_retransmissions
<1>2. \A k : Held(k)' <=> Held(k)
  BY <1>1, HeldUnchanged DEF receiverVars
<1>3. InStep' /\ AcksHonest'
  BY <1>1, <1>2 DEF IInv, InStep, AcksHonest, receiverVars
<1>4. CASE sender' = "handshake_timeout" /\ UNCHANGED <<unacked, wire>>
  <2>1. TypeOK'
    BY <1>1, <1>4 DEF IInv, TypeOK, receiverVars
  <2>2. Genuine'
    BY <1>1, <1>4 DEF IInv, Genuine, Carries, receiverVars
  <2>3. NothingLost'
    BY <1>1, <1>2, <1>4 DEF IInv, NothingLost
  <2> QED BY <1>3, <2>1, <2>2, <2>3 DEF IInv
<1>5. CASE /\ \A p \in due : p.retransmit_count < MaxRetransmits
           /\ unacked' = (unacked \ due)
                         \cup {[p EXCEPT !.retransmit_count = @ + 1] : p \in due}
           /\ wire' = wire \cup {OnWire(p) : p \in due}
           /\ UNCHANGED sender
  <2> DEFINE again(p) == [p EXCEPT !.retransmit_count = @ + 1]
  <2>1. \A p \in due : /\ p \in unacked /\ p \in ReliablePacket /\ Carries(p)
                       /\ p.retransmit_count < MaxRetransmits
    BY <1>5 DEF IInv, TypeOK, Genuine
  <2>2. \A p \in due : /\ again(p) \in ReliablePacket
                       /\ again(p).packet_id = p.packet_id
                       /\ again(p).payload = p.payload
    BY <2>1 DEF ReliablePacket
  <2>3. \A p \in due : /\ OnWire(p) \in Packet
                       /\ OnWire(p).packet_id = p.packet_id
                       /\ OnWire(p).payload = p.payload
    BY <2>1 DEF ReliablePacket, Packet, OnWire
  <2>4. TypeOK'
    <3>1. unacked' \subseteq ReliablePacket /\ wire' \subseteq Packet
      BY <1>5, <2>2, <2>3 DEF IInv, TypeOK
    <3> QED BY <1>1, <1>5, <3>1 DEF IInv, TypeOK, receiverVars
  <2>5. Genuine'
    <3>1. \A p \in unacked' : Carries(p)'
      <4>1. \A p \in unacked : Carries(p)'
        BY <1>1 DEF IInv, Genuine, Carries
      <4>2. \A p \in due : \A q \in {again(p)} : Carries(q)'
        BY <1>1, <2>1, <2>2 DEF Carries
      <4> HIDE DEF again
      <4>3. unacked' = (unacked \ due) \cup {again(p) : p \in due}
        BY <1>5 DEF again
      <4> QED BY <4>1, <4>2, <4>3
    <3>2. \A p \in wire' : Carries(p)'
      <4>1. \A p \in wire : Carries(p)'
        BY <1>1 DEF IInv, Genuine, Carries
      <4>2. \A p \in due : \A q \in {OnWire(p)} : Carries(q)'
        BY <1>1, <2>1, <2>3 DEF Carries
      <4> QED BY <1>5, <4>1, <4>2
    <3> QED BY <1>1, <1>5, <3>1, <3>2 DEF IInv, Genuine, Carries, receiverVars
  <2>6. NothingLost'
    <3> SUFFICES ASSUME NEW k \in 0..(next_packet_id - 1), ~Held(k)
                 PROVE  \E p \in unacked' : p.packet_id = k
      BY <1>1, <1>2 DEF NothingLost
    <3>1. PICK p \in unacked : p.packet_id = k
      BY DEF IInv, NothingLost
    <3>2. CASE p \in due
      <4>1. again(p) \in unacked'
        BY <1>5, <3>2
      <4> QED BY <2>2, <3>1, <3>2, <4>1
    <3>3. CASE p \notin due
      BY <1>5, <3>1, <3>3
    <3> QED BY <3>2, <3>3
  <2> QED BY <1>3, <2>4, <2>5, <2>6 DEF IInv
<1> QED BY <1>4, <1>5 DEF poll_retransmissions

\* The receiver reads a packet it has delivered already.
LEMMA DuplicateStep ==
    ASSUME IInv, NEW p \in wire, process_packet(p), Duplicate(p)
    PROVE  IInv'
<1>1. /\ wire' \subseteq wire /\ UNCHANGED <<senderVars, receiverVars>>
      /\ acks' = acks \cup {p.packet_id} /\ p.packet_id < next_expected_id
  BY DEF process_packet, Duplicate
<1>2. \A k : Held(k)' <=> Held(k)
  BY <1>1, HeldUnchanged DEF receiverVars
<1>3. p.packet_id \in Ids
  BY DEF IInv, TypeOK, Packet
<1>4. TypeOK'
  BY <1>1, <1>3 DEF IInv, TypeOK, senderVars, receiverVars
<1>5. Genuine'
  BY <1>1 DEF IInv, Genuine, Carries, senderVars, receiverVars
<1>6. InStep'
  BY <1>1 DEF IInv, InStep, senderVars, receiverVars
<1>7. AcksHonest'
  <2>1. Held(p.packet_id)
    BY <1>1 DEF Held
  <2> QED BY <1>1, <1>2, <2>1 DEF IInv, AcksHonest
<1>8. NothingLost'
  BY <1>1, <1>2 DEF IInv, NothingLost, senderVars
<1> QED BY <1>4, <1>5, <1>6, <1>7, <1>8 DEF IInv

\* The receiver buffers a packet, or refuses it and ends.
LEMMA AheadStep ==
    ASSUME IInv, NEW p \in wire, process_packet(p), Ahead(p)
    PROVE  IInv'
<1>1. /\ wire' \subseteq wire /\ UNCHANGED <<senderVars, next_expected_id, delivered>>
      /\ receiver' \in {"up", "window_overflow"}
  BY DEF process_packet, Ahead
<1>2. p \in Packet /\ p.packet_id \in Ids /\ Carries(p)
  BY DEF IInv, TypeOK, Packet, Genuine
<1>3. InStep'
  BY <1>1 DEF IInv, InStep, senderVars
<1>4. CASE UNCHANGED <<out_of_order, acks>>
  <2>1. TypeOK'
    BY <1>1, <1>4 DEF IInv, TypeOK, senderVars
  <2>2. Genuine'
    BY <1>1, <1>4 DEF IInv, Genuine, Carries, senderVars
  <2>3. AcksHonest' /\ NothingLost'
    BY <1>1, <1>4, HeldUnchanged DEF IInv, AcksHonest, NothingLost, senderVars
  <2> QED BY <1>3, <2>1, <2>2, <2>3 DEF IInv
<1>5. CASE /\ out_of_order' = {q \in out_of_order : q.packet_id # p.packet_id} \cup {p}
           /\ acks' = acks \cup {p.packet_id}
  <2>1. TypeOK'
    BY <1>1, <1>2, <1>5 DEF IInv, TypeOK, senderVars
  <2>2. Genuine'
    BY <1>1, <1>2, <1>5 DEF IInv, Genuine, Carries, senderVars
  <2>3. \A k : Held(k)' <=> Held(k) \/ k = p.packet_id
    BY <1>1, <1>5 DEF Held, Buffered
  <2>4. AcksHonest'
    BY <1>5, <2>3 DEF IInv, AcksHonest
  <2>5. NothingLost'
    BY <1>1, <2>3 DEF IInv, NothingLost, senderVars
  <2> QED BY <1>3, <2>1, <2>2, <2>4, <2>5 DEF IInv
<1> QED BY <1>4, <1>5 DEF Ahead

\* The receiver delivers the packet it waits for and the run behind it.
LEMMA InOrderStep ==
    ASSUME IInv, NEW p \in wire, process_packet(p), InOrder(p)
    PROVE  IInv'
<1> USE MaxPacketsAssumption
<1> DEFINE e == p.packet_id
<1>1. p \in Packet /\ e \in Ids /\ p.payload = e + 1 /\ e < next_packet_id /\ e = next_expected_id
  BY DEF IInv, TypeOK, Packet, Genuine, Carries, InOrder
<1>2. PICK n \in (e + 1)..MaxPackets :
          /\ \A i \in (e + 1)..(n - 1) : i \in Buffered
          /\ next_expected_id' = n
          /\ delivered' = delivered \o [i \in 1..(n - e) |->
                                          IF i = 1 THEN p.payload
                                          ELSE BufferedPayload(e + i - 1)]
          /\ out_of_order' = {q \in out_of_order : q.packet_id \notin (e + 1)..(n - 1)}
  BY DEF InOrder
<1>3. /\ wire' \subseteq wire /\ UNCHANGED <<senderVars, receiver>>
      /\ acks' = acks \cup {e}
  BY DEF process_packet, InOrder
<1> DEFINE run == [i \in 1..(n - e) |-> IF i = 1 THEN p.payload ELSE BufferedPayload(e + i - 1)]
<1>4. ASSUME NEW i \in (e + 1)..(n - 1)
      PROVE  BufferedPayload(i) = i + 1 /\ i < next_packet_id
  <2>1. \E q \in out_of_order : q.packet_id = i
    BY <1>2 DEF Buffered
  <2>2. \A q \in out_of_order : q.payload = q.packet_id + 1 /\ q.packet_id < next_packet_id
    BY DEF IInv, Genuine, Carries
  <2> QED BY <2>1, <2>2 DEF BufferedPayload
<1>5. n <= next_packet_id
  <2>1. next_packet_id \in Nat /\ e \in Nat
    BY <1>1 DEF IInv, TypeOK, Ids
  <2>2. CASE n = e + 1
    BY <1>1, <2>1, <2>2
  <2>3. CASE n # e + 1
    <3>1. n - 1 \in (e + 1)..(n - 1)
      BY <2>1, <2>3
    <3> QED BY <1>4, <2>1, <3>1
  <2> QED BY <2>2, <2>3
<1>6. /\ run \in Seq(Payloads) /\ Len(run) = n - e
      /\ \A i \in 1..(n - e) : run[i] = e + i
  <2>1. \A i \in 1..(n - e) : run[i] = e + i
    BY <1>1, <1>4 DEF Ids
  <2>2. \A i \in 1..(n - e) : e + i \in Payloads
    BY <1>1 DEF Payloads, Ids
  <2>3. n - e \in Nat
    BY <1>1 DEF Ids
  <2> HIDE DEF run
  <2>4. run \in [1..(n - e) -> Payloads]
    BY <2>1, <2>2 DEF run
  <2> QED BY <2>1, <2>3, <2>4
<1> HIDE DEF run
<1>7. delivered \in Seq(Payloads) /\ delivered' = delivered \o run /\ Len(delivered) = e
  BY <1>1, <1>2 DEF IInv, TypeOK, InStep, run
<1>8. /\ delivered' \in Seq(Payloads) /\ Len(delivered') = n
      /\ \A i \in 1..n : delivered'[i] = i
  <2>1. delivered' \in Seq(Payloads) /\ Len(delivered') = n
    <3>1. delivered' \in Seq(Payloads) /\ Len(delivered') = Len(delivered) + Len(run)
      BY <1>6, <1>7, ConcatProperties
    <3> QED BY <1>1, <1>6, <1>7, <3>1 DEF Ids
  <2>2. \A i \in 1..n : delivered'[i] = IF i <= e THEN delivered[i] ELSE run[i - e]
    BY <1>1, <1>6, <1>7, ConcatProperties DEF Ids
  <2>3. \A i \in 1..e : delivered[i] = i
    BY <1>7 DEF IInv, InStep
  <2>4. \A i \in (e + 1)..n : run[i - e] = i
    BY <1>1, <1>6 DEF Ids
  <2> QED BY <1>1, <2>1, <2>2, <2>3, <2>4 DEF Ids
<1>9. TypeOK'
  <2>1. out_of_order' \subseteq Packet
    BY <1>2 DEF IInv, TypeOK
  <2>2. next_expected_id' \in 0..MaxPackets /\ acks' \subseteq Ids
    BY <1>1, <1>2, <1>3 DEF IInv, TypeOK, Ids
  <2> QED BY <1>3, <1>8, <2>1, <2>2 DEF IInv, TypeOK, senderVars
<1>10. Genuine'
  BY <1>2, <1>3 DEF IInv, Genuine, Carries, senderVars
<1>11. InStep'
  BY <1>2, <1>3, <1>5, <1>8 DEF InStep, senderVars
<1>12. \A k \in Ids : Held(k) => Held(k)'
  <2> SUFFICES ASSUME NEW k \in Ids, Held(k), ~(k < n)
               PROVE  k \in Buffered'
    BY <1>2 DEF Held
  <2>1. PICK q \in out_of_order : q.packet_id = k
    BY <1>1, <1>2 DEF Held, Buffered, Ids
  <2>2. q \in out_of_order'
    BY <1>2, <2>1 DEF Ids
  <2> QED BY <2>1, <2>2 DEF Buffered
<1>13. AcksHonest'
  <2>1. Held(e)'
    BY <1>1, <1>2 DEF Held, Ids
  <2> QED BY <1>3, <1>12, <2>1 DEF IInv, AcksHonest, TypeOK
<1>14. NothingLost'
  <2>1. 0..(next_packet_id - 1) \subseteq Ids
    BY DEF IInv, TypeOK, Ids
  <2> QED BY <1>3, <1>12, <2>1 DEF IInv, NothingLost, senderVars
<1> QED BY <1>9, <1>10, <1>11, <1>13, <1>14 DEF IInv

\* The network drops a datagram or an acknowledgement.
LEMMA LoseStep ==
    ASSUME IInv, Lose
    PROVE  IInv'
<1>1. wire' \subseteq wire /\ acks' \subseteq acks /\ UNCHANGED <<senderVars, receiverVars>>
  BY DEF Lose
<1>2. TypeOK'
  BY <1>1 DEF IInv, TypeOK, senderVars, receiverVars
<1>3. Genuine' /\ InStep'
  BY <1>1 DEF IInv, Genuine, InStep, Carries, senderVars, receiverVars
<1>4. AcksHonest' /\ NothingLost'
  BY <1>1, HeldUnchanged DEF IInv, AcksHonest, NothingLost, senderVars, receiverVars
<1> QED BY <1>2, <1>3, <1>4 DEF IInv

\* Every step of the channel preserves the inductive invariant.
LEMMA NextIInv == IInv /\ [Next]_vars => IInv'
<1> SUFFICES ASSUME IInv, [Next]_vars
             PROVE  IInv'
  OBVIOUS
<1>1. CASE UNCHANGED vars
  <2>1. UNCHANGED <<senderVars, wire, acks, receiverVars>>
    BY <1>1 DEF vars
  <2>2. TypeOK' /\ Genuine' /\ InStep'
    BY <2>1 DEF IInv, TypeOK, Genuine, InStep, Carries, senderVars, receiverVars
  <2>3. AcksHonest' /\ NothingLost'
    BY <2>1, HeldUnchanged DEF IInv, AcksHonest, NothingLost, senderVars, receiverVars
  <2> QED BY <2>2, <2>3 DEF IInv
<1>2. CASE enqueue
  BY <1>2, EnqueueStep
<1>3. CASE \E id \in acks : process_acks(id)
  BY <1>3, AckStep
<1>4. CASE \E due \in SUBSET unacked : due # {} /\ poll_retransmissions(due)
  BY <1>4, PollStep
<1>5. CASE \E p \in wire : process_packet(p)
  <2>1. PICK p \in wire : process_packet(p)
    BY <1>5
  <2>2. Duplicate(p) \/ InOrder(p) \/ Ahead(p)
    BY <2>1 DEF process_packet
  <2> QED BY <2>1, <2>2, DuplicateStep, InOrderStep, AheadStep
<1>6. CASE Lose
  BY <1>6, LoseStep
<1> QED BY <1>1, <1>2, <1>3, <1>4, <1>5, <1>6 DEF Next

-----------------------------------------------------------------------------
(* Theorems *)

\* The inductive invariant holds in every reachable state.
LEMMA Invariant == Spec => []IInv
BY InitIInv, NextIInv, PTL DEF Spec

\* Ids, counters and queues of both sides stay within their types.
THEOREM ChannelTypeCorrect == Spec => []TypeOK
<1>1. IInv => TypeOK
  BY DEF IInv
<1> QED BY <1>1, Invariant, PTL

\* The peer's TLS reads what this side's TLS wrote, once and in order,
\* although datagrams are lost, repeated and reordered.
THEOREM DeliveryInOrder == Spec => []DeliveredPrefix
<1>1. IInv => DeliveredPrefix
  BY DEF IInv, TypeOK, Genuine, InStep, DeliveredPrefix
<1> QED BY <1>1, Invariant, PTL

\* No packet is ever forgotten by the sender before the receiver holds it.
THEOREM NoPacketLost == Spec => []NothingLost
<1>1. IInv => NothingLost
  BY DEF IInv
<1> QED BY <1>1, Invariant, PTL

-----------------------------------------------------------------------------
(* The packet the receiver waits for *)

\* The buffer holds packets behind a gap only: never the one waited for.
GapAhead == \A q \in out_of_order : q.packet_id > next_expected_id

\* Draining stops at the first packet that is missing.
LEMMA GapInOrder ==
    ASSUME IInv, GapAhead, NEW p \in wire, InOrder(p)
    PROVE  GapAhead'
<1> DEFINE e == p.packet_id
<1>1. e \in Ids /\ e = next_expected_id
  BY DEF IInv, TypeOK, Packet, InOrder
<1>2. PICK n \in (e + 1)..MaxPackets :
          /\ n \notin Buffered
          /\ next_expected_id' = n
          /\ out_of_order' = {q \in out_of_order : q.packet_id \notin (e + 1)..(n - 1)}
  BY DEF InOrder
<1>3. ASSUME NEW q \in out_of_order'
      PROVE  q.packet_id > n
  <2>1. q \in out_of_order /\ q.packet_id \notin (e + 1)..(n - 1)
    BY <1>2
  <2>2. q.packet_id \in Ids /\ q.packet_id > e
    BY <1>1, <2>1 DEF IInv, TypeOK, Packet, GapAhead
  <2>3. q.packet_id # n
    BY <1>2, <2>1 DEF Buffered
  <2> QED BY <1>1, <2>1, <2>2, <2>3, MaxPacketsAssumption DEF Ids
<1> QED BY <1>2, <1>3 DEF GapAhead

LEMMA GapStep == IInv /\ GapAhead /\ [Next]_vars => GapAhead'
<1> SUFFICES ASSUME IInv, GapAhead, [Next]_vars
             PROVE  GapAhead'
  OBVIOUS
<1>1. CASE UNCHANGED <<out_of_order, next_expected_id>>
  BY <1>1 DEF GapAhead
<1>2. CASE \E p \in wire : process_packet(p)
  <2>1. PICK p \in wire : process_packet(p)
    BY <1>2
  <2>2. CASE Duplicate(p)
    BY <1>1, <2>2 DEF Duplicate, receiverVars
  <2>3. CASE InOrder(p)
    BY <2>3, GapInOrder
  <2>4. CASE Ahead(p)
    BY <2>4 DEF Ahead, GapAhead
  <2> QED BY <2>1, <2>2, <2>3, <2>4 DEF process_packet
<1>3. (\/ enqueue
       \/ \E id \in acks : process_acks(id)
       \/ \E due \in SUBSET unacked : due # {} /\ poll_retransmissions(due)
       \/ Lose
       \/ UNCHANGED vars) => UNCHANGED <<out_of_order, next_expected_id>>
  BY DEF enqueue, process_acks, poll_retransmissions, Lose, vars, receiverVars
<1> QED BY <1>1, <1>2, <1>3 DEF Next

\* The packet the receiver waits for is never acknowledged, so the sender
\* keeps it and the ticker sends it again, whatever the network did.
THEOREM AwaitedStaysKept == Spec => []AwaitedIsKept
<1>1. Init => GapAhead
  BY DEF Init, GapAhead
<1>2. IInv /\ GapAhead => AwaitedIsKept
  <2> SUFFICES ASSUME IInv, GapAhead, next_expected_id < next_packet_id
               PROVE  \E p \in unacked : p.packet_id = next_expected_id
    BY DEF AwaitedIsKept
  <2>1. next_expected_id \in Nat /\ next_packet_id \in Nat
    BY MaxPacketsAssumption DEF IInv, TypeOK
  <2>2. next_expected_id \in 0..(next_packet_id - 1)
    BY <2>1
  <2>3. next_expected_id \notin Buffered
    BY <2>1 DEF GapAhead, Buffered
  <2>4. ~Held(next_expected_id)
    BY <2>1, <2>3 DEF Held
  <2> QED BY <2>2, <2>4 DEF IInv, NothingLost
<1> QED BY <1>1, <1>2, GapStep, Invariant, PTL DEF Spec

-----------------------------------------------------------------------------
(* Refinement *)

\* The first n chunks, as a sequence.
Upto(n) == [i \in 1..n |-> i]

LEMMA UptoSeq ==
    ASSUME NEW n \in Nat
    PROVE  /\ Upto(n) \in Seq(Nat) /\ Len(Upto(n)) = n
           /\ \A i \in 1..n : Upto(n)[i] = i
           /\ Upto(n + 1) = Append(Upto(n), n + 1)
           /\ \A k \in 0..n : SubSeq(Upto(n), 1, k) = Upto(k)
<1>1. Upto(n) \in Seq(Nat) /\ Len(Upto(n)) = n /\ \A i \in 1..n : Upto(n)[i] = i
  BY DEF Upto
<1>2. Upto(n + 1) = Append(Upto(n), n + 1)
  BY DEF Upto
<1>3. \A k \in 0..n : SubSeq(Upto(n), 1, k) = Upto(k)
  BY DEF Upto
<1> QED BY <1>1, <1>2, <1>3

\* What was delivered is the chunks below the receiver's counter.
LEMMA DeliveredUpto == IInv => delivered = Upto(next_expected_id)
<1> SUFFICES ASSUME IInv
             PROVE  delivered = Upto(next_expected_id)
  OBVIOUS
<1>1. delivered \in Seq(Payloads) /\ Len(delivered) = next_expected_id /\ next_expected_id \in Nat
  BY MaxPacketsAssumption DEF IInv, TypeOK, InStep
<1>2. \A i \in 1..next_expected_id : delivered[i] = i
  BY <1>1 DEF IInv, InStep
<1> QED BY <1>1, <1>2 DEF Upto

\* Every step of the layer is one of the ordered channel, or invisible to TLS.
LEMMA ChannelStep == IInv /\ IInv' /\ [Next]_vars => [Channel!ChannelNext]_(Channel!channelVars)
<1> SUFFICES ASSUME IInv, IInv', [Next]_vars
             PROVE  [Channel!ChannelNext]_(Channel!channelVars)
  OBVIOUS
<1> USE DEF Channel!channelVars
<1>0. /\ next_packet_id \in Nat /\ next_expected_id \in Nat
      /\ next_packet_id' \in Nat /\ next_expected_id' \in Nat
      /\ next_expected_id' <= next_packet_id'
  BY MaxPacketsAssumption DEF IInv, TypeOK, InStep
<1>1. CASE UNCHANGED <<next_packet_id, delivered, sender, receiver>>
  BY <1>1
<1>2. CASE enqueue
  <2>1. CASE sender' = "up"
    <3>1. /\ sender = "up" /\ next_packet_id' = next_packet_id + 1
          /\ UNCHANGED <<delivered, sender, receiver>>
          /\ written < MaxPackets /\ next_packet_id = written
      BY <1>2, <2>1 DEF enqueue, receiverVars, IInv, Genuine
    <3>2. next_packet_id + 1 \in Payloads
      BY <1>0, <3>1, MaxPacketsAssumption DEF Payloads
    <3>3. Upto(next_packet_id') = Append(Upto(next_packet_id), next_packet_id + 1)
      BY <1>0, <3>1, UptoSeq
    <3>4. PICK chunk \in Payloads : chunk = next_packet_id + 1
      BY <3>2
    <3>5. Channel!Accept(chunk)
      BY <3>1, <3>3, <3>4 DEF Channel!Accept, Upto
    <3> QED BY <3>5 DEF Channel!ChannelNext
  <2>2. CASE sender' # "up"
    <3>1. Channel!SenderEnds
      BY <1>2, <2>2 DEF enqueue, Channel!SenderEnds, receiverVars
    <3> QED BY <3>1 DEF Channel!ChannelNext
  <2> QED BY <2>1, <2>2
<1>3. CASE \E due \in SUBSET unacked : due # {} /\ poll_retransmissions(due)
  <2>1. sender = "up" /\ UNCHANGED <<next_packet_id, delivered, receiver>>
    BY <1>3 DEF poll_retransmissions, receiverVars
  <2>2. sender' = sender \/ sender' = "handshake_timeout"
    BY <1>3 DEF poll_retransmissions
  <2>3. sender' # "up" => Channel!SenderEnds
    BY <2>1 DEF Channel!SenderEnds
  <2> QED BY <1>1, <2>1, <2>2, <2>3 DEF Channel!ChannelNext
<1>4. CASE \E p \in wire : process_packet(p)
  <2>1. PICK p \in wire : process_packet(p)
    BY <1>4
  <2>2. receiver = "up" /\ UNCHANGED <<next_packet_id, sender>>
    BY <2>1 DEF process_packet, senderVars
  <2>3. CASE Duplicate(p)
    BY <1>1, <2>2, <2>3 DEF Duplicate, receiverVars
  <2>4. CASE InOrder(p)
    <3>1. receiver' = receiver /\ next_expected_id' > next_expected_id
      BY <2>4, <1>0, MaxPacketsAssumption DEF InOrder
    <3>2. delivered = Upto(next_expected_id)
      BY DeliveredUpto
    <3>3. (delivered = Upto(next_expected_id))'
      BY DeliveredUpto, PTL
    <3>4. delivered' = SubSeq(Upto(next_packet_id), 1, next_expected_id')
      <4>1. next_expected_id' \in 0..next_packet_id
        BY <1>0, <2>2
      <4>2. SubSeq(Upto(next_packet_id), 1, next_expected_id') = Upto(next_expected_id')
        BY <1>0, <4>1, UptoSeq, Zenon
      <4> QED BY <3>3, <4>2
    <3>5. Len(Upto(next_packet_id)) = next_packet_id /\ Len(delivered) = next_expected_id
      BY <1>0, <3>2, UptoSeq
    <3>6. next_expected_id' \in (Len(delivered) + 1)..Len(Upto(next_packet_id))
      BY <1>0, <2>2, <3>1, <3>5
    <3>7. Channel!Deliver(next_expected_id')
      BY <2>2, <3>1, <3>4 DEF Channel!Deliver, Upto
    <3> QED BY <3>6, <3>7 DEF Channel!ChannelNext, Upto
  <2>5. CASE Ahead(p)
    <3>1. UNCHANGED delivered /\ (receiver' = receiver \/ receiver' = "window_overflow")
      BY <2>5 DEF Ahead
    <3>2. receiver' # "up" => Channel!ReceiverEnds
      BY <2>2, <3>1 DEF Channel!ReceiverEnds
    <3> QED BY <1>1, <2>2, <3>1, <3>2 DEF Channel!ChannelNext
  <2> QED BY <2>1, <2>3, <2>4, <2>5 DEF process_packet
<1>5. ((\E id \in acks : process_acks(id)) \/ Lose \/ UNCHANGED vars)
      => UNCHANGED <<next_packet_id, delivered, sender, receiver>>
  BY DEF process_acks, Lose, vars, senderVars, receiverVars
<1> QED BY <1>1, <1>2, <1>3, <1>4, <1>5 DEF Next

\* For the TLS connections at its two ends the reliable layer is an ordered
\* channel: no interleaving of losses, repetitions, retransmissions and errors
\* shows them anything else.
THEOREM ImplementsOrderedChannel == Spec => ImplementsChannel
<1>1. Init => Channel!ChannelInit
  BY DEF Init, Channel!ChannelInit
<1> QED BY <1>1, Invariant, ChannelStep, PTL DEF Spec, ImplementsChannel, Channel!ChannelSpec
==============================================================================
