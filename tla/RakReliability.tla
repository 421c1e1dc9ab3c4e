--------------------------- MODULE RakReliability ---------------------------
(***************************************************************************)
(* Reliable ordered delivery between two connected RakNet sessions         *)
(* (src/raklib/Session.cpp), in one direction: the sending half of one     *)
(* session, a network that loses, duplicates and reorders UDP packets, and *)
(* the receiving half of the session at the other end.  The server runs    *)
(* both halves; the client at the other end is external and is taken to    *)
(* run the same protocol.                                                  *)
(*                                                                         *)
(* The module is about packets that carry a message index (reliability 2,  *)
(* 3, 4, 6 or 7), which is every game packet the server sends.  Each       *)
(* handler runs under Server::game_mutex_, so it is one step; only the     *)
(* loop over the packets of a datagram is taken one packet at a time,      *)
(* through inbox, and while inbox is not empty nothing else runs on the    *)
(* receiver.                                                               *)
(***************************************************************************)
EXTENDS Integers, Sequences, FiniteSets, Functions, AckRanges

CONSTANTS Data,          \* payloads
          MaxMessages,   \* bound: messages submitted
          MaxDatagrams,  \* bound: datagrams sent
          MaxFaults,     \* bound: packets the network loses or duplicates
          MtuPackets,    \* packets that fit in one datagram (mtu_size_)
          DrainLimit,    \* 64: datagrams one pass of update() sends
          kWindowSize,   \* 2048
          TriadMod       \* 2^24: numbers are three bytes on the wire

ASSUME ConstantsAssumption ==
  /\ MaxMessages \in Nat
  /\ MaxDatagrams \in Nat
  /\ MaxFaults \in Nat
  /\ MtuPackets \in Nat \ {0}
  /\ DrainLimit \in Nat \ {0}
  /\ kWindowSize \in Nat \ {0}
  /\ TriadMod \in Nat
  /\ kWindowSize < TriadMod

VARIABLES
  \* The sending half.
  sent,                  \* history: payload of every message submitted
  send_seq,              \* number of the next datagram
  send_queue,            \* packets waiting for the next datagram
  packet_to_send,        \* datagrams waiting to be sent again
  recovery_queue,        \* datagrams sent and not acknowledged
  overran,               \* history: a message was submitted beyond the
                         \* receiver's reliable window
  \* The network.
  datagrams, acks, faults,
  \* The receiving half.
  last_seq, window_start, window_end, received_window,
  ack_queue, nack_queue,
  reliable_window_start, reliable_window_end, last_reliable_index,
  reliable_window,       \* message index -> packet that waits for its turn
  inbox,                 \* packets of the current datagram still to handle
  delivered              \* history: payloads routed, in order

senderVars == <<sent, send_seq, send_queue, packet_to_send, recovery_queue, overran>>
windowVars == <<last_seq, window_start, window_end, received_window>>
reliableVars == <<reliable_window_start, reliable_window_end,
                  last_reliable_index, reliable_window, delivered>>
receiverVars == <<windowVars, ack_queue, nack_queue, reliableVars, inbox>>
networkVars == <<datagrams, acks, faults>>
vars == <<senderVars, networkVars, receiverVars>>
-----------------------------------------------------------------------------
Packets == [index : Nat, data : Data]
Datagrams == [seq : Nat, packets : Seq(Packets)]
Acks == [id : {"ACK", "NACK"}, seqs : SUBSET Nat]

\* message_index_ counts the reliable packets submitted so far.
message_index == Len(sent)

LTriad(n) == n % TriadMod

\* What the other end decodes of a datagram.
Encoded(d) ==
  [seq |-> LTriad(d.seq),
   packets |-> [i \in 1 .. Len(d.packets) |->
                  [index |-> LTriad(d.packets[i].index),
                   data |-> d.packets[i].data]]]

\* Variant: one fewer.
LowestButOne(S, n) == {d \in S : Cardinality({e \in S : e.seq < d.seq}) < n - 1}

\* The n datagrams of S with the lowest numbers.  Both the deque and the map
\* of the code hold datagrams in the order of their numbers.
Lowest(S, n) == {d \in S : Cardinality({e \in S : e.seq < d.seq}) < n}

\* Variant: a datagram is sent again under its own number.
RenumberedInPlace(S) == S

\* The datagrams of S under the next numbers, in the order of the old ones.
Renumbered(S) ==
  {[seq |-> send_seq + Cardinality({e \in S : e.seq < d.seq}),
    packets |-> d.packets] : d \in S}

Init ==
  /\ sent = << >> /\ send_seq = 0 /\ send_queue = << >>
  /\ packet_to_send = {} /\ recovery_queue = {} /\ overran = FALSE
  /\ datagrams = {} /\ acks = {} /\ faults = 0
  /\ last_seq = -1 /\ window_start = -1 /\ window_end = kWindowSize
  /\ received_window = {} /\ ack_queue = {} /\ nack_queue = {}
  /\ reliable_window_start = 0 /\ reliable_window_end = kWindowSize
  /\ last_reliable_index = -1 /\ reliable_window = << >>
  /\ inbox = << >> /\ delivered = << >>
-----------------------------------------------------------------------------
(***************************************************************************)
(* The sending half.                                                       *)
(***************************************************************************)
\* sendDatagram() of every datagram in D.
SendDatagrams(D) == datagrams' = datagrams \cup {Encoded(d) : d \in D}

\* addEncapsulated() with a reliable packet: it takes its message index now,
\* even if it waits in send_queue while a later packet is sent at once.
AddEncapsulated(d, immediate) ==
  LET pk == [index |-> message_index, data |-> d]
      flushed == IF immediate
                 THEN {[seq |-> send_seq, packets |-> <<pk>>]}
                 ELSE IF Len(send_queue) = MtuPackets
                      THEN {[seq |-> send_seq, packets |-> send_queue]}
                      ELSE {}
  IN /\ message_index < MaxMessages
     /\ send_seq + Cardinality(flushed) <= MaxDatagrams
     /\ sent' = Append(sent, d)
     /\ send_seq' = send_seq + Cardinality(flushed)
     /\ send_queue' = IF immediate THEN send_queue
                      ELSE IF flushed # {} THEN <<pk>>
                      ELSE Append(send_queue, pk)
     /\ recovery_queue' = recovery_queue \cup flushed
     /\ SendDatagrams(flushed)
     /\ overran' = (overran \/ message_index > reliable_window_end)
     /\ UNCHANGED <<packet_to_send, acks, faults, receiverVars>>

\* update() of the sending session: two rounds of at most DrainLimit resends
\* around the renumbering of the datagrams older than kRecoveryResendDelay,
\* then flushSendQueue().
SenderUpdate(overdue) ==
  LET early    == Lowest(packet_to_send, DrainLimit)
      queued   == (packet_to_send \ early) \cup Renumbered(overdue)
      late     == Lowest(queued, DrainLimit)
      next_seq == send_seq + Cardinality(overdue)
      flushed  == IF send_queue = << >> THEN {}
                  ELSE {[seq |-> next_seq, packets |-> send_queue]}
  IN /\ next_seq + Cardinality(flushed) <= MaxDatagrams
     /\ send_seq' = next_seq + Cardinality(flushed)
     /\ send_queue' = << >>
     /\ packet_to_send' = queued \ late
     /\ recovery_queue' = (recovery_queue \ overdue) \cup early \cup late \cup flushed
     /\ SendDatagrams(early \cup late \cup flushed)
     /\ UNCHANGED <<sent, overran, acks, faults, receiverVars>>

\* Variant: an ACK taken as cumulative.
HandleAckCumulative(a) ==
  /\ a.id = "ACK"
  /\ recovery_queue' = {d \in recovery_queue : \A s \in a.seqs : d.seq > s}
  /\ UNCHANGED <<sent, send_seq, send_queue, packet_to_send, overran,
                 datagrams, receiverVars>>

HandleAck(a) ==
  /\ a.id = "ACK"
  /\ recovery_queue' = {d \in recovery_queue : d.seq \notin a.seqs}
  /\ UNCHANGED <<sent, send_seq, send_queue, packet_to_send, overran,
                 datagrams, receiverVars>>

HandleNack(a) ==
  LET missing == {d \in recovery_queue : d.seq \in a.seqs}
  IN /\ a.id = "NACK"
     /\ send_seq + Cardinality(missing) <= MaxDatagrams
     /\ send_seq' = send_seq + Cardinality(missing)
     /\ recovery_queue' = (recovery_queue \ missing) \cup Renumbered(missing)
     /\ SendDatagrams(Renumbered(missing))
     /\ UNCHANGED <<sent, send_queue, packet_to_send, overran, receiverVars>>
-----------------------------------------------------------------------------
(***************************************************************************)
(* The receiving half.                                                     *)
(***************************************************************************)
\* Variant: nothing is too far ahead.
RefusedOld(seq) == seq < window_start \/ seq \in received_window

Refused(seq) == seq < window_start \/ seq > window_end \/ seq \in received_window

\* The numbers skipped by the arrival of seq.
MissingBefore(seq) == ((last_seq + 1) .. (seq - 1)) \ (received_window \cup {seq})

Advance(diff) == IF diff >= 1 THEN diff ELSE 0

HandleDatagram(d) ==
  /\ inbox = << >>
  /\ \/ /\ Refused(d.seq)
        /\ UNCHANGED receiverVars
     \/ /\ ~Refused(d.seq)
        /\ ack_queue' = ack_queue \cup {d.seq}
        /\ nack_queue' = (nack_queue \ {d.seq}) \cup MissingBefore(d.seq)
        /\ received_window' = received_window \cup {d.seq}
        /\ last_seq' = IF d.seq > last_seq THEN d.seq ELSE last_seq
        /\ window_start' = window_start + Advance(d.seq - last_seq)
        /\ window_end' = window_end + Advance(d.seq - last_seq)
        /\ inbox' = d.packets
        /\ UNCHANGED reliableVars
  /\ UNCHANGED <<senderVars, acks>>

\* Variant: without the lower bound.
InReliableWindowBelow(idx) == idx <= reliable_window_end

InReliableWindow(idx) == reliable_window_start <= idx /\ idx <= reliable_window_end

\* Variant: a packet that skipped others is routed at once.
IsNextSkipping(idx) == idx - last_reliable_index >= 1

IsNext(idx) == idx - last_reliable_index = 1

\* First message index after idx that does not wait in reliable_window: where
\* the loop that drains the window stops.
DrainEnd(idx) ==
  CHOOSE n \in (idx + 1) .. (idx + kWindowSize + 1) :
    /\ n \notin DOMAIN reliable_window
    /\ (idx + 1) .. (n - 1) \subseteq DOMAIN reliable_window

\* The packet of index idx is routed, and after it every packet that waited
\* for it.
RouteFrom(pk) ==
  LET idx == pk.index
      end == DrainEnd(idx)
      run == [k \in 1 .. (end - idx) |->
                IF k = 1 THEN pk.data ELSE reliable_window[idx + k - 1].data]
  IN /\ delivered' = delivered \o run
     /\ last_reliable_index' = end - 1
     /\ reliable_window_start' = reliable_window_start + (end - idx)
     /\ reliable_window_end' = reliable_window_end + (end - idx)
     /\ reliable_window' =
          Restrict(reliable_window, DOMAIN reliable_window \ (idx .. (end - 1)))

\* The packet waits for the ones before it.
Store(pk) ==
  /\ reliable_window' = [k \in DOMAIN reliable_window \cup {pk.index} |->
                           IF k = pk.index THEN pk ELSE reliable_window[k]]
  /\ UNCHANGED <<reliable_window_start, reliable_window_end,
                 last_reliable_index, delivered>>

\* handleEncapsulated() with the next packet of the datagram.
HandleEncapsulated ==
  LET pk == Head(inbox)
  IN /\ inbox # << >>
     /\ inbox' = Tail(inbox)
     /\ \/ ~InReliableWindow(pk.index) /\ UNCHANGED reliableVars
        \/ InReliableWindow(pk.index) /\ IsNext(pk.index) /\ RouteFrom(pk)
        \/ InReliableWindow(pk.index) /\ ~IsNext(pk.index) /\ Store(pk)
     /\ UNCHANGED <<senderVars, networkVars, windowVars, ack_queue, nack_queue>>

\* The part of flushAcks() that update() shares: one packet for each queue that
\* is not empty, and the queue is cleared.
FlushQueues ==
  /\ inbox = << >>
  /\ acks' = acks
       \cup (IF ack_queue = {} THEN {} ELSE {[id |-> "ACK", seqs |-> Received(ack_queue)]})
       \cup (IF nack_queue = {} THEN {} ELSE {[id |-> "NACK", seqs |-> Received(nack_queue)]})
  /\ ack_queue' = {}
  /\ nack_queue' = {}
  /\ UNCHANGED <<senderVars, datagrams, faults, reliableVars, inbox>>

\* flushAcks(), called by SessionManager::tick() after a burst of datagrams.
FlushAcks == FlushQueues /\ UNCHANGED windowVars

\* update() of the receiving session: flushAcks(), then the numbers below the
\* window are forgotten.
ReceiverUpdate ==
  /\ FlushQueues
  /\ received_window' = {s \in received_window : s >= window_start}
  /\ UNCHANGED <<last_seq, window_start, window_end>>
-----------------------------------------------------------------------------
(***************************************************************************)
(* The network: UDP.  A packet that arrives may arrive again, a packet in  *)
(* flight may be lost; packets arrive in any order.                        *)
(***************************************************************************)
Fault == faults < MaxFaults /\ faults' = faults + 1

ArriveDatagram(d) ==
  /\ d \in datagrams
  /\ HandleDatagram(d)
  /\ \/ datagrams' = datagrams \ {d} /\ UNCHANGED faults
     \/ Fault /\ UNCHANGED datagrams

ArriveAck(a) ==
  /\ a \in acks
  /\ HandleAck(a) \/ HandleNack(a)
  /\ \/ acks' = acks \ {a} /\ UNCHANGED faults
     \/ Fault /\ UNCHANGED acks

LoseDatagram(d) ==
  /\ Fault
  /\ datagrams' = datagrams \ {d}
  /\ UNCHANGED <<acks, senderVars, receiverVars>>

LoseAck(a) ==
  /\ Fault
  /\ acks' = acks \ {a}
  /\ UNCHANGED <<datagrams, senderVars, receiverVars>>
-----------------------------------------------------------------------------
\* Everything but the sender's update().
Other ==
  \/ \E d \in Data, immediate \in BOOLEAN : AddEncapsulated(d, immediate)
  \/ \E d \in datagrams : ArriveDatagram(d)
  \/ HandleEncapsulated
  \/ FlushAcks
  \/ ReceiverUpdate
  \/ \E a \in acks : ArriveAck(a)
  \/ \E d \in datagrams : LoseDatagram(d)
  \/ \E a \in acks : LoseAck(a)

Next == Other \/ \E overdue \in SUBSET recovery_queue : SenderUpdate(overdue)

Spec == Init /\ [][Next]_vars

(***************************************************************************)
(* The same with a network whose round trip is shorter than                *)
(* kRecoveryResendDelay: a datagram is overdue only once neither it nor an *)
(* acknowledgement of it is under way.  Both sessions are updated by their *)
(* network threads for ever, and a packet that is not lost arrives.        *)
(***************************************************************************)
UnderWay(d) ==
  \/ Encoded(d) \in datagrams
  \/ d.seq \in ack_queue
  \/ \E a \in acks : a.id = "ACK" /\ d.seq \in a.seqs

Unanswered == {d \in recovery_queue : ~UnderWay(d)}

TimelyNext == Other \/ \E overdue \in SUBSET Unanswered : SenderUpdate(overdue)

FairSpec ==
  /\ Init
  /\ [][TimelyNext]_vars
  /\ WF_vars(SenderUpdate(Unanswered))
  /\ WF_vars(\E d \in datagrams : ArriveDatagram(d))
  /\ WF_vars(HandleEncapsulated)
  /\ WF_vars(ReceiverUpdate)
  /\ WF_vars(\E a \in acks : ArriveAck(a))
-----------------------------------------------------------------------------
(***************************************************************************)
(* Properties.                                                             *)
(***************************************************************************)
SenderTypeOK ==
  /\ sent \in Seq(Data)
  /\ send_seq \in Nat
  /\ send_queue \in Seq(Packets)
  /\ packet_to_send \subseteq Datagrams
  /\ recovery_queue \subseteq Datagrams
  /\ overran \in BOOLEAN

NetworkTypeOK ==
  /\ datagrams \subseteq Datagrams
  /\ acks \subseteq Acks
  /\ faults \in Nat

ReceiverTypeOK ==
  /\ last_seq \in Nat \cup {-1} /\ window_start \in Int /\ window_end \in Int
  /\ received_window \subseteq Nat
  /\ ack_queue \subseteq Nat /\ nack_queue \subseteq Nat
  /\ reliable_window_start \in Nat /\ reliable_window_end \in Nat
  /\ last_reliable_index \in Int
  /\ DOMAIN reliable_window \subseteq Nat
  /\ \A k \in DOMAIN reliable_window : reliable_window[k] \in Packets
  /\ inbox \in Seq(Packets)
  /\ delivered \in Seq(Data)

\* The variables have the types of the fields of class Session; the queues of
\* missing and of received numbers never hold -1, the initial last_seq_.
TypeOK == SenderTypeOK /\ NetworkTypeOK /\ ReceiverTypeOK

\* No two messages that can be under way together look the same on the wire:
\* the sender stays within the receiver's reliable window, or the connection
\* is too short for an index to come back.
Unambiguous == ~overran \/ MaxMessages <= TriadMod

\* What was handed to the packet handler is what was submitted, in that order
\* and once each, whatever the network did and however the packets waited in
\* reliable_window_; also when the three-byte indices wrap around.
InOrderOnce ==
  Unambiguous =>
    /\ Len(delivered) <= Len(sent)
    /\ \A i \in 1 .. Len(delivered) : delivered[i] = sent[i]

\* The windows move in step with the numbers they are about: the start of the
\* datagram window is the last number accepted, the start of the reliable
\* window is the next index to route, and both keep their width.
WindowsInStep ==
  /\ window_start = last_seq
  /\ window_end = last_seq + 1 + kWindowSize
  /\ reliable_window_start = last_reliable_index + 1
  /\ reliable_window_end = reliable_window_start + kWindowSize
  /\ Len(delivered) = reliable_window_start

\* No packet that waits in reliable_window_ is behind or at the next index to
\* route: such a packet would stay first in the map and the loop that drains
\* it would stop there for ever.
NothingStaleWaits ==
  \A k \in DOMAIN reliable_window :
    /\ reliable_window[k].index = k
    /\ last_reliable_index + 1 < k /\ k <= reliable_window_end

Indices(pks) == {pks[i].index : i \in 1 .. Len(pks)}

\* Message indices that are still somewhere they can be delivered from.
Held ==
  Indices(send_queue) \cup Indices(inbox) \cup DOMAIN reliable_window
    \cup UNION {Indices(d.packets) : d \in packet_to_send \cup recovery_queue}

\* The sender gives up its copy of a message only when the receiver has taken
\* the message in: acknowledgements that are lost, late, repeated or cut
\* short by decode() never lose a message.  This needs a sender that stays
\* within the receiver's reliable window (see overran): a datagram is
\* acknowledged before its packets are looked at, so a packet beyond the
\* window is acknowledged and dropped.
NoMessageStranded ==
  ~overran => (Len(delivered) .. (message_index - 1)) \subseteq Held

\* A NACK never asks for a datagram that was accepted.
NacksAreMissing ==
  nack_queue \cap (ack_queue \cup received_window) = {}

\* A datagram is accepted only if its number is above every number accepted
\* before: whatever the window's width, a datagram that was overtaken is
\* dropped without an acknowledgement and has to be sent again.
OvertakenIsRefused ==
  [][\A s \in ack_queue' \ ack_queue : s > last_seq /\ last_seq' = s]_vars

\* A session can be outrun for good: once every number within the receiver's
\* datagram window is lost or refused, no later datagram is ever accepted, and
\* sending again does not help because it takes a later number.
Outrun ==
  /\ send_seq > window_end
  /\ \A d \in datagrams \cup packet_to_send : d.seq > window_end

OutrunIsForGood == [][Outrun => Outrun']_vars

\* Three bytes of sequence number are all a session gets: after the last one
\* was accepted no datagram is accepted any more, and after the last message
\* index no message is routed.
NumbersRunOut ==
  [][/\ last_seq = TriadMod - 1 =>
          last_seq' = last_seq /\ ack_queue' \subseteq ack_queue
     /\ last_reliable_index = TriadMod - 1 => delivered' = delivered]_vars

\* The session implements the reliable ordered channel: what was submitted and
\* what was routed are the channel's two sequences, and all the rest, numbers,
\* windows, queues and the network, is hidden.
Channel == INSTANCE ReliableChannel WITH sent <- sent, delivered <- delivered
ImplementsChannel == Channel!Spec
ImplementsFairChannel == Channel!FairSpec

\* Every datagram sent is acknowledged in the end, so the memory the sender
\* keeps for recovery is given back.
RecoveryDrains == []<>(recovery_queue = {} /\ packet_to_send = {})
=============================================================================
