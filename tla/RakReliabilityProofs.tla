------------------------ MODULE RakReliabilityProofs ------------------------
(***************************************************************************)
(* Theorems about RakReliability, for every value of its constants.        *)
(***************************************************************************)
EXTENDS RakReliability, FiniteSetTheorems, SequenceTheorems, WellFoundedInduction, TLAPS

USE ConstantsAssumption

(***************************************************************************)
(* Facts about natural numbers.                                            *)
(***************************************************************************)
\* Every set of natural numbers that is not empty has a least element.  This
\* is the form of induction the proofs use.
LEMMA LeastNat ==
  ASSUME NEW T, T \subseteq Nat, T # {}
  PROVE  \E x \in T : \A y \in T : x <= y
<1> DEFINE R == {ss \in Nat \X Nat : ss[1] < ss[2]}
<1>1. IsWellFoundedOn(OpToRel(<, Nat), Nat)
  BY NatLessThanWellFounded
<1>2. OpToRel(<, Nat) = R
  BY DEF OpToRel
<1>3. IsWellFoundedOn(R, Nat)
  BY <1>1, <1>2
<1>4. \A x, y \in Nat : y < x => <<y, x>> \in R
  OBVIOUS
<1> HIDE DEF R
<1>5. PICK x \in T : \A y \in T : ~ (<<y, x>> \in R)
  BY <1>3, WFMin
<1>6. ASSUME NEW y \in T PROVE x <= y
  <2>1. x \in Nat /\ y \in Nat
    OBVIOUS
  <2>2. ~(y < x)
    BY <1>4, <1>5, <2>1
  <2> QED
    BY <2>1, <2>2
<1>7. QED
  BY <1>6

\* A three-byte number is the number itself, or it was cut down by at least
\* one whole turn.
LEMMA ModuloTurns ==
  ASSUME NEW m \in Nat, NEW T \in Nat, T > 0
  PROVE  /\ m % T \in Nat
         /\ m % T = m \/ m % T <= m - T
         /\ m < T => m % T = m
OBVIOUS

(***************************************************************************)
(* What the operators of the model return.                                 *)
(***************************************************************************)
\* The lowest datagrams of a set are in the set.
LEMMA LowestSubset == \A S, n : Lowest(S, n) \subseteq S
  BY DEF Lowest

\* decode() yields no number that was not encoded.
LEMMA ReceivedSubset == \A S : Received(S) \subseteq S
  BY DEF Received, Capped

\* Encoding keeps a datagram a datagram, with as many packets.
LEMMA EncodedType ==
  ASSUME NEW d \in Datagrams
  PROVE  /\ Encoded(d) \in Datagrams
         /\ Encoded(d).seq = LTriad(d.seq)
         /\ Len(Encoded(d).packets) = Len(d.packets)
         /\ \A i \in 1 .. Len(d.packets) :
              /\ Encoded(d).packets[i].index = LTriad(d.packets[i].index)
              /\ Encoded(d).packets[i].data = d.packets[i].data
<1>1. /\ d.seq \in Nat /\ d.packets \in Seq(Packets)
      /\ \A i \in 1 .. Len(d.packets) : d.packets[i] \in Packets
  BY DEF Datagrams
<1>2. \A n \in Nat : LTriad(n) \in Nat
  BY ModuloTurns DEF LTriad
<1>3. Encoded(d).packets \in Seq(Packets)
  <2> DEFINE w == [i \in 1 .. Len(d.packets) |->
                     [index |-> LTriad(d.packets[i].index),
                      data |-> d.packets[i].data]]
  <2>1. \A i \in 1 .. Len(d.packets) :
          [index |-> LTriad(d.packets[i].index), data |-> d.packets[i].data] \in Packets
    BY <1>1, <1>2 DEF Packets
  <2>2. w \in [1 .. Len(d.packets) -> Packets]
    BY <2>1
  <2>3. Len(d.packets) \in Nat
    BY <1>1
  <2>4. w \in Seq(Packets)
    BY <2>2, <2>3, SeqDef
  <2> QED
    BY <2>4 DEF Encoded
<1>4. QED
  BY <1>1, <1>2, <1>3 DEF Encoded, Datagrams

\* Renumbering a finite set of datagrams gives a finite set of datagrams with
\* the same packets.
LEMMA RenumberedType ==
  ASSUME send_seq \in Nat, NEW S, S \subseteq Datagrams, IsFiniteSet(S)
  PROVE  /\ Renumbered(S) \subseteq Datagrams
         /\ IsFiniteSet(Renumbered(S))
         /\ \A r \in Renumbered(S) : \E d \in S : r.packets = d.packets
         /\ Cardinality(S) \in Nat
<1> DEFINE rank(d) == Cardinality({e \in S : e.seq < d.seq})
           new(d) == [seq |-> send_seq + rank(d), packets |-> d.packets]
           f == [d \in S |-> new(d)]
<1>1. \A d \in S : rank(d) \in Nat
  <2> TAKE d \in S
  <2>1. IsFiniteSet({e \in S : e.seq < d.seq})
    BY FS_Subset
  <2> QED
    BY <2>1, FS_CardinalityType
<1>2. \A d \in S : new(d) \in Datagrams
  BY <1>1 DEF Datagrams
<1>3. f \in Surjection(S, Renumbered(S))
  BY DEF Surjection, Renumbered
<1>4. IsFiniteSet(Renumbered(S))
  BY <1>3, FS_Surjection
<1>5. Renumbered(S) = {new(d) : d \in S}
  BY DEF Renumbered
<1>6. \A d \in S : new(d).packets = d.packets
  OBVIOUS
<1> HIDE DEF new, f
<1>7. Renumbered(S) \subseteq Datagrams
  BY <1>2, <1>5
<1>8. \A r \in Renumbered(S) : \E d \in S : r.packets = d.packets
  BY <1>5, <1>6
<1>9. Cardinality(S) \in Nat
  BY FS_CardinalityType
<1>10. QED
  BY <1>4, <1>7, <1>8, <1>9

(***************************************************************************)
(* The windows.  WindowInv is inductive: the two windows keep their width  *)
(* and their place, so a packet that waits is always ahead of the next     *)
(* index, so the drain loop ends inside the window.  The queues are finite *)
(* so that the numbers they are given on a resend are numbers.             *)
(***************************************************************************)
Finite == IsFiniteSet(recovery_queue) /\ IsFiniteSet(packet_to_send)

WindowInv == TypeOK /\ Finite /\ WindowsInStep /\ NothingStaleWaits

\* The drain loop stops at the first index that does not wait.
LEMMA DrainEndFacts ==
  ASSUME WindowInv, NEW idx, idx = reliable_window_start
  PROVE  /\ DrainEnd(idx) \in (idx + 1) .. (idx + kWindowSize + 1)
         /\ DrainEnd(idx) \notin DOMAIN reliable_window
         /\ (idx + 1) .. (DrainEnd(idx) - 1) \subseteq DOMAIN reliable_window
<1> DEFINE Free == {n \in Nat : n > idx /\ n \notin DOMAIN reliable_window}
           Stop(n) == /\ n \notin DOMAIN reliable_window
                      /\ (idx + 1) .. (n - 1) \subseteq DOMAIN reliable_window
<1>1. idx \in Nat /\ idx + kWindowSize + 1 \in Free
  BY DEF WindowInv, TypeOK, ReceiverTypeOK, WindowsInStep, NothingStaleWaits
<1>2. PICK first \in Free : \A n \in Free : first <= n
  <2> HIDE DEF Free
  <2>1. Free \subseteq Nat /\ Free # {}
    BY <1>1 DEF Free
  <2> QED
    BY <2>1, LeastNat
<1>3. first \in (idx + 1) .. (idx + kWindowSize + 1)
  BY <1>1, <1>2
<1>4. \A n \in (idx + 1) .. (first - 1) : n \in DOMAIN reliable_window
  <2> SUFFICES ASSUME NEW n \in (idx + 1) .. (first - 1),
                      n \notin DOMAIN reliable_window
               PROVE  FALSE
    OBVIOUS
  <2>1. n \in Free
    BY <1>1
  <2> QED
    BY <1>2, <1>3, <2>1
<1>5. \E n \in (idx + 1) .. (idx + kWindowSize + 1) : Stop(n)
  BY <1>2, <1>3, <1>4
<1>6. DrainEnd(idx) = CHOOSE n \in (idx + 1) .. (idx + kWindowSize + 1) : Stop(n)
  BY DEF DrainEnd
<1> HIDE DEF Stop
<1>7. DrainEnd(idx) \in (idx + 1) .. (idx + kWindowSize + 1) /\ Stop(DrainEnd(idx))
  BY <1>5, <1>6
<1>8. QED
  BY <1>7 DEF Stop

\* A step of the sender or of the network leaves the windows alone.
LEMMA ReceiverUnchanged ==
  ASSUME WindowInv, UNCHANGED receiverVars
  PROVE  ReceiverTypeOK' /\ WindowsInStep' /\ NothingStaleWaits'
BY DEF WindowInv, TypeOK, ReceiverTypeOK, WindowsInStep, NothingStaleWaits,
       receiverVars, windowVars, reliableVars

\* Sending datagrams keeps the network a set of datagrams.
LEMMA SendDatagramsType ==
  ASSUME datagrams \subseteq Datagrams, NEW D, D \subseteq Datagrams,
         SendDatagrams(D)
  PROVE  datagrams' \subseteq Datagrams
BY EncodedType DEF SendDatagrams

LEMMA AddEncapsulatedWindow ==
  ASSUME WindowInv, NEW d \in Data, NEW immediate \in BOOLEAN,
         AddEncapsulated(d, immediate)
  PROVE  WindowInv'
<1> DEFINE pk == [index |-> message_index, data |-> d]
           flushed == IF immediate
                      THEN {[seq |-> send_seq, packets |-> <<pk>>]}
                      ELSE IF Len(send_queue) = MtuPackets
                           THEN {[seq |-> send_seq, packets |-> send_queue]}
                           ELSE {}
<1>1. SenderTypeOK /\ NetworkTypeOK /\ Finite
  BY DEF WindowInv, TypeOK
<1>2. /\ sent' = Append(sent, d)
      /\ send_seq' = send_seq + Cardinality(flushed)
      /\ send_queue' = IF immediate THEN send_queue
                       ELSE IF flushed # {} THEN <<pk>>
                       ELSE Append(send_queue, pk)
      /\ recovery_queue' = recovery_queue \cup flushed
      /\ SendDatagrams(flushed)
      /\ overran' \in BOOLEAN
      /\ UNCHANGED <<packet_to_send, acks, faults>>
  BY <1>1 DEF AddEncapsulated, SenderTypeOK
<1>3. UNCHANGED receiverVars
  BY DEF AddEncapsulated
<1>4. pk \in Packets /\ <<pk>> \in Seq(Packets)
  BY <1>1 DEF Packets, SenderTypeOK, message_index
<1>5. flushed \subseteq Datagrams
  <2>1. [seq |-> send_seq, packets |-> <<pk>>] \in Datagrams
    BY <1>1, <1>4 DEF Datagrams, SenderTypeOK
  <2>2. [seq |-> send_seq, packets |-> send_queue] \in Datagrams
    BY <1>1 DEF Datagrams, SenderTypeOK
  <2> QED
    BY <2>1, <2>2
<1>6. IsFiniteSet(flushed) /\ Cardinality(flushed) \in Nat
  BY FS_EmptySet, FS_Singleton, FS_CardinalityType
<1> HIDE DEF flushed, pk
<1>7. SenderTypeOK'
  BY <1>1, <1>2, <1>4, <1>5, <1>6 DEF SenderTypeOK
<1>8. NetworkTypeOK'
  BY <1>1, <1>2, <1>5, SendDatagramsType DEF NetworkTypeOK
<1>9. Finite'
  BY <1>1, <1>2, <1>6, FS_Union DEF Finite
<1>10. QED
  BY <1>3, <1>7, <1>8, <1>9, ReceiverUnchanged DEF WindowInv, TypeOK

LEMMA SenderUpdateWindow ==
  ASSUME WindowInv, NEW overdue \in SUBSET recovery_queue,
         SenderUpdate(overdue)
  PROVE  WindowInv'
<1> DEFINE early    == Lowest(packet_to_send, DrainLimit)
           queued   == (packet_to_send \ early) \cup Renumbered(overdue)
           late     == Lowest(queued, DrainLimit)
           next_seq == send_seq + Cardinality(overdue)
           flushed  == IF send_queue = << >> THEN {}
                       ELSE {[seq |-> next_seq, packets |-> send_queue]}
<1>1. SenderTypeOK /\ NetworkTypeOK /\ Finite
  BY DEF WindowInv, TypeOK
<1>2. /\ send_seq' = next_seq + Cardinality(flushed)
      /\ send_queue' = << >>
      /\ packet_to_send' = queued \ late
      /\ recovery_queue' = (recovery_queue \ overdue) \cup early \cup late \cup flushed
      /\ SendDatagrams(early \cup late \cup flushed)
      /\ UNCHANGED <<sent, overran, acks, faults, receiverVars>>
  BY DEF SenderUpdate
<1>3. IsFiniteSet(overdue) /\ overdue \subseteq Datagrams
  BY <1>1, FS_Subset DEF Finite, SenderTypeOK
<1>4. /\ Renumbered(overdue) \subseteq Datagrams
      /\ IsFiniteSet(Renumbered(overdue))
      /\ Cardinality(overdue) \in Nat
  BY <1>1, <1>3, RenumberedType DEF SenderTypeOK
<1>5. early \subseteq packet_to_send /\ late \subseteq queued
  BY LowestSubset
<1>6. next_seq \in Nat /\ flushed \subseteq Datagrams
  BY <1>1, <1>4 DEF SenderTypeOK, Datagrams
<1>7. IsFiniteSet(flushed) /\ Cardinality(flushed) \in Nat
  BY FS_EmptySet, FS_Singleton, FS_CardinalityType
<1> HIDE DEF early, late, flushed, next_seq
<1>8. queued \subseteq Datagrams /\ early \subseteq Datagrams /\ late \subseteq Datagrams
  BY <1>1, <1>4, <1>5 DEF SenderTypeOK
<1>9. IsFiniteSet(early) /\ IsFiniteSet(queued) /\ IsFiniteSet(late)
  <2>1. IsFiniteSet(early) /\ IsFiniteSet(packet_to_send \ early)
    BY <1>1, <1>5, FS_Subset DEF Finite
  <2>2. IsFiniteSet(queued)
    BY <2>1, <1>4, FS_Union
  <2> QED
    BY <2>1, <2>2, <1>5, FS_Subset
<1> HIDE DEF queued
<1>10. SenderTypeOK'
  BY <1>1, <1>2, <1>6, <1>7, <1>8 DEF SenderTypeOK
<1>11. NetworkTypeOK'
  BY <1>1, <1>2, <1>6, <1>8, SendDatagramsType DEF NetworkTypeOK
<1>12. Finite'
  <2>1. IsFiniteSet(recovery_queue \ overdue) /\ IsFiniteSet(queued \ late)
    BY <1>1, <1>9, FS_Subset DEF Finite
  <2>2. IsFiniteSet((recovery_queue \ overdue) \cup early \cup late \cup flushed)
    BY <2>1, <1>7, <1>9, FS_Union
  <2> QED
    BY <2>1, <2>2, <1>2 DEF Finite
<1>13. QED
  BY <1>2, <1>10, <1>11, <1>12, ReceiverUnchanged DEF WindowInv, TypeOK
\* An ACK takes datagrams out of recovery_queue_; a NACK gives those it names
\* the next numbers and sends them.
LEMMA HandleAckWindow ==
  ASSUME WindowInv, NEW a, HandleAck(a)
  PROVE  SenderTypeOK' /\ Finite' /\ ReceiverTypeOK' /\ WindowsInStep'
           /\ NothingStaleWaits' /\ datagrams' \subseteq Datagrams
<1>1. SenderTypeOK /\ NetworkTypeOK /\ Finite
  BY DEF WindowInv, TypeOK
<1>2. recovery_queue' \subseteq recovery_queue
  BY DEF HandleAck
<1>3. Finite'
  BY <1>1, <1>2, FS_Subset DEF HandleAck, Finite
<1>4. SenderTypeOK' /\ datagrams' \subseteq Datagrams
  BY <1>1, <1>2 DEF HandleAck, SenderTypeOK, NetworkTypeOK
<1>5. QED
  BY <1>3, <1>4, ReceiverUnchanged DEF HandleAck

LEMMA HandleNackWindow ==
  ASSUME WindowInv, NEW a, HandleNack(a)
  PROVE  SenderTypeOK' /\ Finite' /\ ReceiverTypeOK' /\ WindowsInStep'
           /\ NothingStaleWaits' /\ datagrams' \subseteq Datagrams
<1> DEFINE missing == {d \in recovery_queue : d.seq \in a.seqs}
<1>1. SenderTypeOK /\ NetworkTypeOK /\ Finite
  BY DEF WindowInv, TypeOK
<1>2. /\ send_seq' = send_seq + Cardinality(missing)
      /\ recovery_queue' = (recovery_queue \ missing) \cup Renumbered(missing)
      /\ SendDatagrams(Renumbered(missing))
      /\ UNCHANGED <<sent, send_queue, packet_to_send, overran, receiverVars>>
  BY DEF HandleNack
<1>3. missing \subseteq Datagrams /\ IsFiniteSet(missing)
  BY <1>1, FS_Subset DEF Finite, SenderTypeOK
<1> HIDE DEF missing
<1>4. /\ Renumbered(missing) \subseteq Datagrams
      /\ IsFiniteSet(Renumbered(missing))
      /\ Cardinality(missing) \in Nat
  BY <1>1, <1>3, RenumberedType DEF SenderTypeOK
<1>5. Finite'
  <2>1. IsFiniteSet(recovery_queue \ missing)
    BY <1>1, FS_Subset DEF Finite
  <2> QED
    BY <1>1, <1>2, <1>4, <2>1, FS_Union DEF Finite
<1>6. SenderTypeOK'
  BY <1>1, <1>2, <1>4 DEF SenderTypeOK
<1>7. datagrams' \subseteq Datagrams
  BY <1>1, <1>2, <1>4, SendDatagramsType DEF NetworkTypeOK
<1>8. QED
  BY <1>2, <1>5, <1>6, <1>7, ReceiverUnchanged

\* A datagram accepted or refused leaves the receiver's windows in step.
LEMMA HandleDatagramWindow ==
  ASSUME WindowInv, NEW d \in Datagrams, HandleDatagram(d)
  PROVE  ReceiverTypeOK' /\ WindowsInStep' /\ NothingStaleWaits'
<1>1. CASE UNCHANGED receiverVars
  BY <1>1, ReceiverUnchanged
<1>2. CASE ~Refused(d.seq) /\ ~UNCHANGED receiverVars
  <2>1. ReceiverTypeOK /\ WindowsInStep /\ NothingStaleWaits
    BY DEF WindowInv, TypeOK
  <2>2. d.seq \in Nat /\ d.packets \in Seq(Packets)
    BY DEF Datagrams
  <2>3. /\ ack_queue' = ack_queue \cup {d.seq}
        /\ nack_queue' = (nack_queue \ {d.seq}) \cup MissingBefore(d.seq)
        /\ received_window' = received_window \cup {d.seq}
        /\ last_seq' = IF d.seq > last_seq THEN d.seq ELSE last_seq
        /\ window_start' = window_start + Advance(d.seq - last_seq)
        /\ window_end' = window_end + Advance(d.seq - last_seq)
        /\ inbox' = d.packets
        /\ UNCHANGED reliableVars
    BY <1>2 DEF HandleDatagram
  <2>4. last_seq \in Int /\ last_seq >= -1
    BY <2>1 DEF ReceiverTypeOK
  <2>5. MissingBefore(d.seq) \subseteq Nat
    BY <2>2, <2>4 DEF MissingBefore
  <2>6. ReceiverTypeOK'
    <3>1. /\ last_seq' \in Nat \cup {-1} /\ window_start' \in Int /\ window_end' \in Int
      BY <2>1, <2>2, <2>3, <2>4 DEF ReceiverTypeOK, Advance
    <3>2. /\ received_window' \subseteq Nat
          /\ ack_queue' \subseteq Nat /\ nack_queue' \subseteq Nat
      BY <2>1, <2>2, <2>3, <2>5 DEF ReceiverTypeOK
    <3> QED
      BY <2>1, <2>2, <2>3, <3>1, <3>2 DEF ReceiverTypeOK, reliableVars
  <2>7. WindowsInStep'
    BY <2>1, <2>2, <2>3, <2>4 DEF ReceiverTypeOK, WindowsInStep, reliableVars, Advance
  <2>8. NothingStaleWaits'
    BY <2>1, <2>3 DEF NothingStaleWaits, reliableVars
  <2> QED
    BY <2>6, <2>7, <2>8
<1>3. QED
  BY <1>1, <1>2 DEF HandleDatagram

\* The run that RouteFrom routes: the packet and the payloads that waited.
Run(pk) ==
  [k \in 1 .. (DrainEnd(pk.index) - pk.index) |->
     IF k = 1 THEN pk.data ELSE reliable_window[pk.index + k - 1].data]

LEMMA RunFacts ==
  ASSUME WindowInv, NEW pk \in Packets, pk.index = reliable_window_start
  PROVE  /\ Run(pk) \in Seq(Data)
         /\ Len(Run(pk)) = DrainEnd(pk.index) - pk.index
<1> DEFINE idx == pk.index
           end == DrainEnd(idx)
<1>1. /\ end \in (idx + 1) .. (idx + kWindowSize + 1)
      /\ (idx + 1) .. (end - 1) \subseteq DOMAIN reliable_window
  BY DrainEndFacts
<1>2. idx \in Nat /\ pk.data \in Data
  BY DEF Packets
<1>3. \A k \in DOMAIN reliable_window : reliable_window[k].data \in Data
  BY DEF WindowInv, TypeOK, ReceiverTypeOK, Packets
<1> HIDE DEF end
<1>4. end - idx \in Nat
  BY <1>1, <1>2
<1>5. \A k \in 1 .. (end - idx) : k # 1 => idx + k - 1 \in DOMAIN reliable_window
  BY <1>1, <1>2
<1>6. Run(pk) \in [1 .. (end - idx) -> Data]
  BY <1>2, <1>3, <1>5 DEF Run, end
<1>7. QED
  BY <1>4, <1>6, SeqDef DEF end

LEMMA HandleEncapsulatedWindow ==
  ASSUME WindowInv, HandleEncapsulated
  PROVE  WindowInv'
<1> DEFINE pk == Head(inbox)
<1>1. /\ SenderTypeOK /\ NetworkTypeOK /\ ReceiverTypeOK /\ Finite
      /\ WindowsInStep /\ NothingStaleWaits
  BY DEF WindowInv, TypeOK
<1>2. /\ pk \in Packets /\ inbox' \in Seq(Packets)
      /\ pk.index \in Nat
  <2>1. inbox \in Seq(Packets) /\ inbox # << >> /\ inbox' = Tail(inbox)
    BY <1>1 DEF HandleEncapsulated, ReceiverTypeOK
  <2>2. pk \in Packets /\ inbox' \in Seq(Packets)
    BY <2>1, HeadTailProperties
  <2> QED
    BY <2>2 DEF Packets
<1>3. SenderTypeOK' /\ NetworkTypeOK' /\ Finite'
  BY <1>1 DEF HandleEncapsulated, SenderTypeOK, NetworkTypeOK, Finite, senderVars, networkVars
<1>4. /\ UNCHANGED <<last_seq, window_start, window_end, received_window>>
      /\ UNCHANGED <<ack_queue, nack_queue>>
  BY DEF HandleEncapsulated, windowVars
<1>5. \/ UNCHANGED reliableVars
      \/ InReliableWindow(pk.index) /\ IsNext(pk.index) /\ RouteFrom(pk)
      \/ InReliableWindow(pk.index) /\ ~IsNext(pk.index) /\ Store(pk)
  BY DEF HandleEncapsulated
<1> SUFFICES ReceiverTypeOK' /\ WindowsInStep' /\ NothingStaleWaits'
  BY <1>3 DEF WindowInv, TypeOK
<1> HIDE DEF pk
<1>6. CASE UNCHANGED reliableVars
  BY <1>1, <1>2, <1>4, <1>6
     DEF ReceiverTypeOK, WindowsInStep, NothingStaleWaits, reliableVars
<1>7. CASE InReliableWindow(pk.index) /\ IsNext(pk.index) /\ RouteFrom(pk)
  <2> DEFINE idx == pk.index
             end == DrainEnd(idx)
  <2>1. idx = reliable_window_start /\ idx = last_reliable_index + 1
    BY <1>1, <1>2, <1>7 DEF IsNext, WindowsInStep, ReceiverTypeOK
  <2>2. /\ end \in (idx + 1) .. (idx + kWindowSize + 1)
        /\ end \notin DOMAIN reliable_window
        /\ (idx + 1) .. (end - 1) \subseteq DOMAIN reliable_window
    BY <2>1, DrainEndFacts
  <2>3. Run(pk) \in Seq(Data) /\ Len(Run(pk)) = end - idx
    BY <1>2, <2>1, RunFacts
  <2>4. /\ delivered' = delivered \o Run(pk)
        /\ last_reliable_index' = end - 1
        /\ reliable_window_start' = reliable_window_start + (end - idx)
        /\ reliable_window_end' = reliable_window_end + (end - idx)
        /\ reliable_window' =
             Restrict(reliable_window, DOMAIN reliable_window \ (idx .. (end - 1)))
    BY <1>7 DEF RouteFrom, Run
  <2>5. /\ DOMAIN reliable_window' = DOMAIN reliable_window \ (idx .. (end - 1))
        /\ \A k \in DOMAIN reliable_window' : reliable_window'[k] = reliable_window[k]
    BY <2>4 DEF Restrict
  <2> HIDE DEF end, idx
  <2>6. delivered' \in Seq(Data) /\ Len(delivered') = Len(delivered) + (end - idx)
    BY <1>1, <2>3, <2>4, ConcatProperties DEF ReceiverTypeOK
  <2>7. idx \in Nat /\ end \in Nat /\ end > idx
    BY <1>2, <2>2 DEF idx
  <2>8. WindowsInStep'
    BY <1>1, <1>4, <2>1, <2>4, <2>6, <2>7 DEF WindowsInStep, ReceiverTypeOK
  <2>9. NothingStaleWaits'
    <3> SUFFICES ASSUME NEW k \in DOMAIN reliable_window'
                 PROVE  /\ reliable_window'[k].index = k
                        /\ last_reliable_index' + 1 < k /\ k <= reliable_window_end'
      BY DEF NothingStaleWaits
    <3>1. /\ k \in DOMAIN reliable_window /\ k \notin idx .. (end - 1)
          /\ reliable_window'[k].index = k
          /\ idx < k /\ k <= reliable_window_end /\ k \in Nat
      BY <1>1, <2>1, <2>5 DEF NothingStaleWaits, ReceiverTypeOK
    <3>2. k # end
      BY <2>2, <3>1
    <3> QED
      BY <1>1, <2>4, <2>7, <3>1, <3>2 DEF ReceiverTypeOK
  <2>10. ReceiverTypeOK'
    <3>1. /\ reliable_window_start' \in Nat /\ reliable_window_end' \in Nat
          /\ last_reliable_index' \in Int
      BY <1>1, <2>4, <2>7 DEF ReceiverTypeOK
    <3> QED
      BY <1>1, <1>2, <1>4, <2>5, <2>6, <3>1 DEF ReceiverTypeOK
  <2> QED
    BY <2>8, <2>9, <2>10
<1>8. CASE InReliableWindow(pk.index) /\ ~IsNext(pk.index) /\ Store(pk)
  <2>1. /\ reliable_window_start < pk.index /\ pk.index <= reliable_window_end
    BY <1>1, <1>2, <1>8 DEF InReliableWindow, IsNext, WindowsInStep, ReceiverTypeOK
  <2>2. /\ DOMAIN reliable_window' = DOMAIN reliable_window \cup {pk.index}
        /\ \A k \in DOMAIN reliable_window' :
             reliable_window'[k] = IF k = pk.index THEN pk ELSE reliable_window[k]
        /\ UNCHANGED <<reliable_window_start, reliable_window_end,
                       last_reliable_index, delivered>>
    BY <1>8 DEF Store
  <2>3. ReceiverTypeOK' /\ WindowsInStep'
    BY <1>1, <1>2, <1>4, <2>2 DEF ReceiverTypeOK, WindowsInStep
  <2>4. NothingStaleWaits'
    BY <1>1, <2>1, <2>2 DEF NothingStaleWaits, WindowsInStep, ReceiverTypeOK
  <2> QED
    BY <2>3, <2>4
<1>9. QED
  BY <1>5, <1>6, <1>7, <1>8

\* The acknowledgements the receiver sends hold numbers it queued.
LEMMA FlushQueuesWindow ==
  ASSUME WindowInv, FlushQueues, UNCHANGED <<last_seq, window_start, window_end>>,
         received_window' \subseteq received_window
  PROVE  WindowInv'
<1>1. /\ SenderTypeOK /\ NetworkTypeOK /\ ReceiverTypeOK /\ Finite
      /\ WindowsInStep /\ NothingStaleWaits
  BY DEF WindowInv, TypeOK
<1>2. acks' \subseteq Acks
  <2>1. Received(ack_queue) \subseteq Nat /\ Received(nack_queue) \subseteq Nat
    BY <1>1, ReceivedSubset DEF ReceiverTypeOK
  <2>2. /\ [id |-> "ACK", seqs |-> Received(ack_queue)] \in Acks
        /\ [id |-> "NACK", seqs |-> Received(nack_queue)] \in Acks
    BY <2>1 DEF Acks
  <2> QED
    BY <1>1, <2>2 DEF FlushQueues, NetworkTypeOK
<1>3. SenderTypeOK' /\ NetworkTypeOK' /\ Finite'
  BY <1>1, <1>2 DEF FlushQueues, SenderTypeOK, NetworkTypeOK, Finite, senderVars
<1>4. ReceiverTypeOK'
  BY <1>1 DEF FlushQueues, ReceiverTypeOK, reliableVars
<1>5. WindowsInStep' /\ NothingStaleWaits'
  BY <1>1 DEF FlushQueues, WindowsInStep, NothingStaleWaits, reliableVars
<1>6. QED
  BY <1>3, <1>4, <1>5 DEF WindowInv, TypeOK

LEMMA WindowInit == Init => WindowInv
<1> SUFFICES ASSUME Init PROVE WindowInv
  OBVIOUS
<1>1. Finite
  BY FS_EmptySet DEF Init, Finite
<1>2. SenderTypeOK /\ NetworkTypeOK
  BY EmptySeq DEF Init, SenderTypeOK, NetworkTypeOK
<1>3. ReceiverTypeOK /\ WindowsInStep /\ NothingStaleWaits
  BY DEF Init, ReceiverTypeOK, WindowsInStep, NothingStaleWaits
<1>4. QED
  BY <1>1, <1>2, <1>3 DEF WindowInv, TypeOK

LEMMA WindowStep == WindowInv /\ [Next]_vars => WindowInv'
<1> SUFFICES ASSUME WindowInv, [Next]_vars PROVE WindowInv'
  OBVIOUS
<1>1. /\ SenderTypeOK /\ NetworkTypeOK /\ ReceiverTypeOK /\ Finite
      /\ WindowsInStep /\ NothingStaleWaits
  BY DEF WindowInv, TypeOK
<1>2. ASSUME NEW d \in Data, NEW immediate \in BOOLEAN, AddEncapsulated(d, immediate)
      PROVE  WindowInv'
  BY <1>2, AddEncapsulatedWindow
<1>3. ASSUME NEW overdue \in SUBSET recovery_queue, SenderUpdate(overdue)
      PROVE  WindowInv'
  BY <1>3, SenderUpdateWindow
<1>4. ASSUME NEW d \in datagrams, ArriveDatagram(d) PROVE WindowInv'
  <2>1. d \in Datagrams /\ HandleDatagram(d)
    BY <1>1, <1>4 DEF NetworkTypeOK, ArriveDatagram
  <2>2. ReceiverTypeOK' /\ WindowsInStep' /\ NothingStaleWaits'
    BY <2>1, HandleDatagramWindow
  <2>3. SenderTypeOK' /\ Finite'
    BY <1>1, <2>1 DEF HandleDatagram, SenderTypeOK, Finite, senderVars
  <2>4. NetworkTypeOK'
    BY <1>1, <1>4 DEF ArriveDatagram, HandleDatagram, Fault, NetworkTypeOK
  <2> QED
    BY <2>2, <2>3, <2>4 DEF WindowInv, TypeOK
<1>5. CASE HandleEncapsulated
  BY <1>5, HandleEncapsulatedWindow
<1>6. CASE FlushAcks
  BY <1>6, FlushQueuesWindow DEF FlushAcks, windowVars
<1>7. CASE ReceiverUpdate
  <2>1. received_window' \subseteq received_window
    BY <1>7 DEF ReceiverUpdate
  <2> QED
    BY <1>7, <2>1, FlushQueuesWindow DEF ReceiverUpdate
<1>8. ASSUME NEW a \in acks, ArriveAck(a) PROVE WindowInv'
  <2>1. /\ SenderTypeOK' /\ Finite' /\ ReceiverTypeOK' /\ WindowsInStep'
        /\ NothingStaleWaits' /\ datagrams' \subseteq Datagrams
    BY <1>8, HandleAckWindow, HandleNackWindow DEF ArriveAck
  <2>2. acks' \subseteq Acks /\ faults' \in Nat
    BY <1>1, <1>8 DEF ArriveAck, Fault, NetworkTypeOK
  <2> QED
    BY <2>1, <2>2 DEF WindowInv, TypeOK, NetworkTypeOK
<1>9. ASSUME NEW d \in datagrams, LoseDatagram(d) PROVE WindowInv'
  <2>1. SenderTypeOK' /\ NetworkTypeOK' /\ Finite'
    BY <1>1, <1>9 DEF LoseDatagram, Fault, SenderTypeOK, NetworkTypeOK, Finite, senderVars
  <2> QED
    BY <1>9, <2>1, ReceiverUnchanged DEF LoseDatagram, WindowInv, TypeOK
<1>10. ASSUME NEW a \in acks, LoseAck(a) PROVE WindowInv'
  <2>1. SenderTypeOK' /\ NetworkTypeOK' /\ Finite'
    BY <1>1, <1>10 DEF LoseAck, Fault, SenderTypeOK, NetworkTypeOK, Finite, senderVars
  <2> QED
    BY <1>10, <2>1, ReceiverUnchanged DEF LoseAck, WindowInv, TypeOK
<1>11. CASE UNCHANGED vars
  <2>1. SenderTypeOK' /\ NetworkTypeOK' /\ Finite'
    BY <1>1, <1>11 DEF vars, SenderTypeOK, NetworkTypeOK, Finite, senderVars, networkVars
  <2> QED
    BY <1>11, <2>1, ReceiverUnchanged DEF vars, WindowInv, TypeOK
<1>12. QED
  BY <1>2, <1>3, <1>4, <1>5, <1>6, <1>7, <1>8, <1>9, <1>10, <1>11 DEF Next, Other

\* The variables keep their types.
THEOREM TypeCorrect == Spec => []TypeOK
<1>1. WindowInv => TypeOK
  BY DEF WindowInv
<1>2. QED
  BY <1>1, WindowInit, WindowStep, PTL DEF Spec

\* The windows stay in step with the numbers they are about.
THEOREM WindowsStayInStep == Spec => []WindowsInStep
<1>1. WindowInv => WindowsInStep
  BY DEF WindowInv
<1>2. QED
  BY <1>1, WindowInit, WindowStep, PTL DEF Spec

\* The loop that drains reliable_window_ never finds a packet it cannot pass.
THEOREM NothingStaleEverWaits == Spec => []NothingStaleWaits
<1>1. WindowInv => NothingStaleWaits
  BY DEF WindowInv
<1>2. QED
  BY <1>1, WindowInit, WindowStep, PTL DEF Spec

(***************************************************************************)
(* Order.  Every packet the sender keeps is a submitted message under its  *)
(* own index, and every packet on the wire or in inbox is one under the    *)
(* low three bytes of its index.  As long as no two of them can look the   *)
(* same, a packet the window lets in is the message its index says it is:  *)
(* if not, its true index would be a whole turn higher, beyond everything  *)
(* submitted.                                                              *)
(***************************************************************************)
Submitted(s, pk) == pk.index < Len(s) /\ pk.data = s[pk.index + 1]

Echo(s, pk) ==
  \E m \in 0 .. (Len(s) - 1) : pk.index = LTriad(m) /\ pk.data = s[m + 1]

AllSubmitted(s, pks) == \A i \in 1 .. Len(pks) : Submitted(s, pks[i])
AllEchoes(s, pks) == \A i \in 1 .. Len(pks) : Echo(s, pks[i])

SenderHolds ==
  /\ AllSubmitted(sent, send_queue)
  /\ \A d \in packet_to_send \cup recovery_queue : AllSubmitted(sent, d.packets)

WireHolds ==
  AllEchoes(sent, inbox) /\ \A d \in datagrams : AllEchoes(sent, d.packets)

WindowHolds ==
  Unambiguous =>
    \A k \in DOMAIN reliable_window : Submitted(sent, reliable_window[k])

NotAhead ==
  /\ Len(sent) <= MaxMessages
  /\ ~overran => Len(sent) <= reliable_window_end + 1

OrderInv ==
  WindowInv /\ SenderHolds /\ WireHolds /\ WindowHolds /\ NotAhead /\ InOrderOnce

\* What is a submitted message stays one when another is submitted.
LEMMA SubmittedGrows ==
  ASSUME NEW s \in Seq(Data), NEW d \in Data
  PROVE  /\ \A pk \in Packets : Submitted(s, pk) => Submitted(Append(s, d), pk)
         /\ \A pk \in Packets : Echo(s, pk) => Echo(Append(s, d), pk)
         /\ \A pks \in Seq(Packets) : AllSubmitted(s, pks) => AllSubmitted(Append(s, d), pks)
         /\ \A pks \in Seq(Packets) : AllEchoes(s, pks) => AllEchoes(Append(s, d), pks)
<1>1. /\ Len(Append(s, d)) = Len(s) + 1 /\ Len(s) \in Nat
      /\ \A i \in 1 .. Len(s) : Append(s, d)[i] = s[i]
  BY AppendProperties
<1>2. \A pk \in Packets : Submitted(s, pk) => Submitted(Append(s, d), pk)
  BY <1>1 DEF Submitted, Packets
<1>3. \A pk \in Packets : Echo(s, pk) => Echo(Append(s, d), pk)
  BY <1>1 DEF Echo, Packets
<1>4. \A pks \in Seq(Packets) : \A i \in 1 .. Len(pks) : pks[i] \in Packets
  BY ElementOfSeq
<1>5. QED
  BY <1>2, <1>3, <1>4 DEF AllSubmitted, AllEchoes

\* A datagram of submitted messages is one of echoes on the wire.
LEMMA EncodedEchoes ==
  ASSUME NEW s \in Seq(Data), NEW d \in Datagrams, AllSubmitted(s, d.packets)
  PROVE  AllEchoes(s, Encoded(d).packets)
<1>1. d.packets \in Seq(Packets) /\ Len(s) \in Nat
  BY LenProperties DEF Datagrams
<1>2. SUFFICES ASSUME NEW i \in 1 .. Len(d.packets)
               PROVE  Echo(s, Encoded(d).packets[i])
  BY EncodedType DEF AllEchoes
<1>3. d.packets[i].index \in 0 .. (Len(s) - 1) /\ d.packets[i].data = s[d.packets[i].index + 1]
  <2>1. d.packets[i] \in Packets
    BY <1>1, ElementOfSeq
  <2> QED
    BY <1>1, <2>1 DEF AllSubmitted, Submitted, Packets
<1>4. /\ Encoded(d).packets[i].index = LTriad(d.packets[i].index)
      /\ Encoded(d).packets[i].data = d.packets[i].data
  BY EncodedType
<1>5. QED
  BY <1>3, <1>4 DEF Echo

\* A step that sends datagrams of submitted messages keeps the wire to echoes.
LEMMA SendingEchoes ==
  ASSUME WindowInv, WireHolds, sent' \in Seq(Data), UNCHANGED inbox,
         \A pks \in Seq(Packets) : AllEchoes(sent, pks) => AllEchoes(sent', pks),
         NEW D, D \subseteq Datagrams, SendDatagrams(D),
         \A d \in D : AllSubmitted(sent', d.packets)
  PROVE  WireHolds'
<1>1. inbox \in Seq(Packets) /\ datagrams \subseteq Datagrams
  BY DEF WindowInv, TypeOK, ReceiverTypeOK, NetworkTypeOK
<1>2. AllEchoes(sent', inbox')
  BY <1>1 DEF WireHolds
<1>3. ASSUME NEW d \in datagrams PROVE AllEchoes(sent', d.packets)
  <2>1. d.packets \in Seq(Packets) /\ AllEchoes(sent, d.packets)
    BY <1>1 DEF Datagrams, WireHolds
  <2> QED
    BY <2>1
<1>4. ASSUME NEW d \in D PROVE AllEchoes(sent', Encoded(d).packets)
  BY EncodedEchoes
<1>5. QED
  BY <1>2, <1>3, <1>4 DEF WireHolds, SendDatagrams

\* The receiver's part of the invariant is about the receiver, sent and
\* overran only.
LEMMA OrderUnchanged ==
  ASSUME OrderInv, UNCHANGED <<sent, overran>>, UNCHANGED receiverVars
  PROVE  WindowHolds' /\ NotAhead' /\ InOrderOnce'
BY DEF OrderInv, WindowHolds, NotAhead, InOrderOnce, Unambiguous,
       receiverVars, reliableVars

LEMMA AddEncapsulatedOrder ==
  ASSUME OrderInv, NEW d \in Data, NEW immediate \in BOOLEAN,
         AddEncapsulated(d, immediate)
  PROVE  SenderHolds' /\ WireHolds' /\ WindowHolds' /\ NotAhead' /\ InOrderOnce'
<1> DEFINE pk == [index |-> message_index, data |-> d]
           flushed == IF immediate
                      THEN {[seq |-> send_seq, packets |-> <<pk>>]}
                      ELSE IF Len(send_queue) = MtuPackets
                           THEN {[seq |-> send_seq, packets |-> send_queue]}
                           ELSE {}
<1>1. /\ SenderTypeOK /\ NetworkTypeOK /\ ReceiverTypeOK /\ WindowsInStep
      /\ WindowInv /\ WireHolds /\ SenderHolds
  BY DEF OrderInv, WindowInv, TypeOK
<1>2. /\ sent' = Append(sent, d)
      /\ send_queue' = IF immediate THEN send_queue
                       ELSE IF flushed # {} THEN <<pk>>
                       ELSE Append(send_queue, pk)
      /\ recovery_queue' = recovery_queue \cup flushed
      /\ SendDatagrams(flushed)
      /\ overran' = (overran \/ message_index > reliable_window_end)
      /\ message_index < MaxMessages
      /\ UNCHANGED packet_to_send
      /\ UNCHANGED receiverVars
  BY DEF AddEncapsulated
<1>3. UNCHANGED <<inbox, delivered, reliable_window, reliable_window_end>>
  BY <1>2 DEF receiverVars, reliableVars
<1>4. /\ sent \in Seq(Data) /\ sent' \in Seq(Data) /\ Len(sent) \in Nat
      /\ Len(sent') = Len(sent) + 1
      /\ \A i \in 1 .. Len(sent) : sent'[i] = sent[i]
      /\ sent'[Len(sent) + 1] = d
  BY <1>1, <1>2, AppendProperties DEF SenderTypeOK
<1>5. /\ \A k \in Packets : Submitted(sent, k) => Submitted(sent', k)
      /\ \A pks \in Seq(Packets) : AllSubmitted(sent, pks) => AllSubmitted(sent', pks)
      /\ \A pks \in Seq(Packets) : AllEchoes(sent, pks) => AllEchoes(sent', pks)
  BY <1>2, <1>4, SubmittedGrows
<1>6. pk \in Packets /\ Submitted(sent', pk)
  BY <1>4 DEF Packets, Submitted, message_index
<1> HIDE DEF pk
<1>7. <<pk>> \in Seq(Packets) /\ AllSubmitted(sent', <<pk>>)
  BY <1>6 DEF AllSubmitted
<1>8. send_queue \in Seq(Packets) /\ AllSubmitted(sent', send_queue)
  BY <1>1, <1>5 DEF SenderTypeOK, SenderHolds
<1>9. AllSubmitted(sent', Append(send_queue, pk))
  BY <1>6, <1>8, AppendProperties DEF AllSubmitted
<1>10. /\ flushed \subseteq Datagrams
       /\ \A e \in flushed : AllSubmitted(sent', e.packets)
  <2>1. [seq |-> send_seq, packets |-> <<pk>>] \in Datagrams
    BY <1>1, <1>7 DEF Datagrams, SenderTypeOK
  <2>2. [seq |-> send_seq, packets |-> send_queue] \in Datagrams
    BY <1>1 DEF Datagrams, SenderTypeOK
  <2> QED
    BY <2>1, <2>2, <1>7, <1>8
<1> HIDE DEF flushed
<1>11. AllSubmitted(sent', send_queue')
  BY <1>2, <1>7, <1>8, <1>9
<1>12. \A e \in packet_to_send \cup recovery_queue : AllSubmitted(sent', e.packets)
  <2> TAKE e \in packet_to_send \cup recovery_queue
  <2>1. e.packets \in Seq(Packets) /\ AllSubmitted(sent, e.packets)
    BY <1>1 DEF SenderTypeOK, Datagrams, SenderHolds
  <2> QED
    BY <1>5, <2>1
<1>13. SenderHolds'
  BY <1>2, <1>10, <1>11, <1>12 DEF SenderHolds
<1>14. WireHolds'
  BY <1>1, <1>2, <1>3, <1>4, <1>5, <1>10, SendingEchoes
<1>15. Unambiguous' => Unambiguous
  BY <1>2 DEF Unambiguous
<1>16. WindowHolds'
  <2> SUFFICES ASSUME Unambiguous', NEW k \in DOMAIN reliable_window
               PROVE  Submitted(sent', reliable_window[k])
    BY <1>3 DEF WindowHolds
  <2>1. reliable_window[k] \in Packets /\ Submitted(sent, reliable_window[k])
    BY <1>1, <1>15 DEF OrderInv, WindowHolds, ReceiverTypeOK
  <2> QED
    BY <1>5, <2>1
<1>17. NotAhead'
  <2>1. Len(sent') <= MaxMessages
    BY <1>2, <1>4 DEF message_index
  <2>2. ASSUME ~overran' PROVE Len(sent) <= reliable_window_end
    <3>1. ~(message_index > reliable_window_end)
      BY <1>2, <2>2
    <3> QED
      BY <1>1, <1>4, <3>1 DEF message_index, ReceiverTypeOK
  <2>3. reliable_window_end \in Nat
    BY <1>1 DEF ReceiverTypeOK
  <2>4. ~overran' => Len(sent') <= reliable_window_end + 1
    BY <1>4, <2>2, <2>3
  <2> QED
    BY <1>3, <2>1, <2>4 DEF NotAhead
<1>18. InOrderOnce'
  <2> SUFFICES ASSUME Unambiguous'
               PROVE  /\ Len(delivered) <= Len(sent')
                      /\ \A i \in 1 .. Len(delivered) : delivered[i] = sent'[i]
    BY <1>3 DEF InOrderOnce
  <2>1. /\ Len(delivered) <= Len(sent) /\ Len(delivered) \in Nat
        /\ \A i \in 1 .. Len(delivered) : delivered[i] = sent[i]
    BY <1>1, <1>15, LenProperties DEF OrderInv, InOrderOnce, ReceiverTypeOK
  <2> QED
    BY <1>4, <2>1
<1>19. QED
  BY <1>13, <1>14, <1>16, <1>17, <1>18

LEMMA SenderUpdateOrder ==
  ASSUME OrderInv, NEW overdue \in SUBSET recovery_queue, SenderUpdate(overdue)
  PROVE  SenderHolds' /\ WireHolds' /\ WindowHolds' /\ NotAhead' /\ InOrderOnce'
<1> DEFINE early    == Lowest(packet_to_send, DrainLimit)
           queued   == (packet_to_send \ early) \cup Renumbered(overdue)
           late     == Lowest(queued, DrainLimit)
           next_seq == send_seq + Cardinality(overdue)
           flushed  == IF send_queue = << >> THEN {}
                       ELSE {[seq |-> next_seq, packets |-> send_queue]}
           Good(D)  == D \subseteq Datagrams /\ \A d \in D : AllSubmitted(sent, d.packets)
<1>1. SenderTypeOK /\ NetworkTypeOK /\ Finite /\ WindowInv /\ WireHolds /\ SenderHolds
  BY DEF OrderInv, WindowInv, TypeOK
<1>2. /\ send_queue' = << >>
      /\ packet_to_send' = queued \ late
      /\ recovery_queue' = (recovery_queue \ overdue) \cup early \cup late \cup flushed
      /\ SendDatagrams(early \cup late \cup flushed)
      /\ UNCHANGED <<sent, overran>> /\ UNCHANGED receiverVars
  BY DEF SenderUpdate
<1>3. Good(packet_to_send) /\ Good(recovery_queue)
  BY <1>1 DEF SenderTypeOK, SenderHolds
<1>4. Cardinality(overdue) \in Nat /\ Good(Renumbered(overdue))
  <2>1. overdue \subseteq Datagrams /\ IsFiniteSet(overdue)
    BY <1>1, FS_Subset DEF Finite, SenderTypeOK
  <2>2. /\ Renumbered(overdue) \subseteq Datagrams
        /\ \A r \in Renumbered(overdue) : \E d \in overdue : r.packets = d.packets
        /\ Cardinality(overdue) \in Nat
    BY <1>1, <2>1, RenumberedType DEF SenderTypeOK
  <2> QED
    BY <1>3, <2>2
<1>5. Good(flushed)
  <2>1. [seq |-> next_seq, packets |-> send_queue] \in Datagrams
    BY <1>1, <1>4 DEF SenderTypeOK, Datagrams
  <2> QED
    BY <1>1, <2>1 DEF SenderHolds
<1>6. early \subseteq packet_to_send /\ late \subseteq queued
  BY LowestSubset
<1> HIDE DEF early, late, flushed, next_seq
<1>7. Good(early) /\ Good(queued) /\ Good(late)
  BY <1>3, <1>4, <1>6
<1> HIDE DEF queued
<1>8. SenderHolds'
  <2>1. AllSubmitted(sent, << >>)
    BY DEF AllSubmitted
  <2>2. Good((queued \ late) \cup ((recovery_queue \ overdue) \cup early \cup late \cup flushed))
    BY <1>3, <1>5, <1>7
  <2> QED
    BY <1>2, <2>1, <2>2 DEF SenderHolds
<1>9. WireHolds'
  <2>1. Good(early \cup late \cup flushed)
    BY <1>5, <1>7
  <2> QED
    BY <1>1, <1>2, <2>1, SendingEchoes DEF receiverVars, SenderTypeOK
<1>10. QED
  BY <1>2, <1>8, <1>9, OrderUnchanged

LEMMA AckOrder ==
  ASSUME OrderInv, NEW a, HandleAck(a) \/ HandleNack(a)
  PROVE  /\ SenderHolds' /\ WindowHolds' /\ NotAhead' /\ InOrderOnce'
         /\ WireHolds'
<1>1. SenderTypeOK /\ NetworkTypeOK /\ Finite /\ WindowInv /\ WireHolds /\ SenderHolds
  BY DEF OrderInv, WindowInv, TypeOK
<1>2. UNCHANGED <<sent, overran>> /\ UNCHANGED receiverVars
  BY DEF HandleAck, HandleNack
<1>3. WindowHolds' /\ NotAhead' /\ InOrderOnce'
  BY <1>2, OrderUnchanged
<1>4. CASE HandleAck(a)
  <2>1. SenderHolds'
    BY <1>1, <1>4 DEF HandleAck, SenderHolds
  <2>2. WireHolds'
    BY <1>1, <1>4 DEF HandleAck, WireHolds, receiverVars
  <2> QED
    BY <1>3, <2>1, <2>2
<1>5. CASE HandleNack(a)
  <2> DEFINE missing == {d \in recovery_queue : d.seq \in a.seqs}
  <2>1. /\ recovery_queue' = (recovery_queue \ missing) \cup Renumbered(missing)
        /\ SendDatagrams(Renumbered(missing))
        /\ UNCHANGED <<send_queue, packet_to_send>>
    BY <1>5 DEF HandleNack
  <2>2. missing \subseteq recovery_queue
    OBVIOUS
  <2> HIDE DEF missing
  <2>3. missing \subseteq Datagrams /\ IsFiniteSet(missing)
    BY <1>1, <2>2, FS_Subset DEF Finite, SenderTypeOK
  <2>4. /\ Renumbered(missing) \subseteq Datagrams
        /\ \A r \in Renumbered(missing) : \E d \in missing : r.packets = d.packets
    BY <1>1, <2>3, RenumberedType DEF SenderTypeOK
  <2>5. \A r \in Renumbered(missing) : AllSubmitted(sent, r.packets)
    BY <1>1, <2>2, <2>4 DEF SenderHolds
  <2>6. SenderHolds'
    BY <1>1, <1>2, <2>1, <2>5 DEF SenderHolds
  <2>7. WireHolds'
    BY <1>1, <1>2, <2>1, <2>4, <2>5, SendingEchoes DEF receiverVars, SenderTypeOK
  <2> QED
    BY <1>3, <2>6, <2>7
<1>6. QED
  BY <1>4, <1>5

\* While messages cannot be mistaken for one another, a packet the window lets
\* in is the submitted message of its index.
LEMMA LetInIsSubmitted ==
  ASSUME OrderInv, Unambiguous, NEW pk \in Packets, Echo(sent, pk),
         InReliableWindow(pk.index)
  PROVE  Submitted(sent, pk)
<1>1. PICK m \in 0 .. (Len(sent) - 1) : pk.index = LTriad(m) /\ pk.data = sent[m + 1]
  BY DEF Echo
<1>2. /\ reliable_window_start \in Nat /\ reliable_window_end \in Nat
      /\ reliable_window_end = reliable_window_start + kWindowSize
      /\ Len(sent) \in Nat
  BY LenProperties
     DEF OrderInv, WindowInv, TypeOK, ReceiverTypeOK, SenderTypeOK, WindowsInStep
<1>3. m \in Nat /\ TriadMod > 0
  BY <1>2
<1>4. /\ pk.index \in Nat
      /\ pk.index = m \/ pk.index <= m - TriadMod
      /\ m < TriadMod => pk.index = m
  BY <1>1, <1>3, ModuloTurns DEF LTriad
<1>5. pk.index >= reliable_window_start
  BY DEF InReliableWindow
<1>6. pk.index = m
  <2>1. CASE ~overran
    <3>1. Len(sent) <= reliable_window_end + 1
      BY <2>1 DEF OrderInv, NotAhead
    <3> QED
      BY <1>2, <1>3, <1>4, <1>5, <3>1
  <2>2. CASE MaxMessages <= TriadMod
    <3>1. Len(sent) <= MaxMessages
      BY DEF OrderInv, NotAhead
    <3> QED
      BY <1>2, <1>3, <1>4, <2>2, <3>1
  <2> QED
    BY <2>1, <2>2 DEF Unambiguous
<1>7. QED
  BY <1>1, <1>2, <1>6 DEF Submitted

LEMMA HandleEncapsulatedOrder ==
  ASSUME OrderInv, HandleEncapsulated
  PROVE  SenderHolds' /\ WireHolds' /\ WindowHolds' /\ NotAhead' /\ InOrderOnce'
<1> DEFINE pk == Head(inbox)
<1>1. /\ SenderTypeOK /\ NetworkTypeOK /\ ReceiverTypeOK
      /\ WindowInv /\ WindowsInStep
      /\ WireHolds /\ SenderHolds /\ WindowHolds /\ NotAhead /\ InOrderOnce
  BY DEF OrderInv, WindowInv, TypeOK
<1>2. /\ inbox # << >> /\ inbox' = Tail(inbox)
      /\ UNCHANGED <<sent, overran, datagrams, send_queue, packet_to_send, recovery_queue>>
      /\ \/ UNCHANGED reliableVars
         \/ InReliableWindow(pk.index) /\ IsNext(pk.index) /\ RouteFrom(pk)
         \/ InReliableWindow(pk.index) /\ ~IsNext(pk.index) /\ Store(pk)
  BY DEF HandleEncapsulated, senderVars, networkVars
<1>3. /\ pk = inbox[1] /\ Len(inbox) >= 1 /\ Len(inbox) \in Nat /\ pk \in Packets
      /\ Len(Tail(inbox)) = Len(inbox) - 1
      /\ \A i \in 1 .. Len(Tail(inbox)) : Tail(inbox)[i] = inbox[i + 1]
  <2>1. inbox \in Seq(Packets) /\ inbox # << >>
    BY <1>1, <1>2 DEF ReceiverTypeOK
  <2> QED
    BY <2>1, HeadTailProperties, LenProperties, EmptySeq
<1>4. Echo(sent, pk)
  BY <1>1, <1>3 DEF WireHolds, AllEchoes
<1> HIDE DEF pk
<1>5. WireHolds'
  BY <1>1, <1>2, <1>3 DEF WireHolds, AllEchoes
<1>6. SenderHolds'
  BY <1>1, <1>2 DEF SenderHolds
<1> SUFFICES WindowHolds' /\ NotAhead' /\ InOrderOnce'
  BY <1>5, <1>6
<1>7. Unambiguous' = Unambiguous
  BY <1>2 DEF Unambiguous
<1>8. CASE UNCHANGED reliableVars
  BY <1>1, <1>2, <1>7, <1>8 DEF WindowHolds, NotAhead, InOrderOnce, reliableVars
<1>9. CASE InReliableWindow(pk.index) /\ IsNext(pk.index) /\ RouteFrom(pk)
  <2> DEFINE idx == pk.index
             end == DrainEnd(idx)
  <2>1. idx \in Nat /\ idx = reliable_window_start /\ Len(delivered) = idx
    BY <1>1, <1>3, <1>9 DEF IsNext, WindowsInStep, ReceiverTypeOK, Packets
  <2>2. /\ end \in (idx + 1) .. (idx + kWindowSize + 1)
        /\ (idx + 1) .. (end - 1) \subseteq DOMAIN reliable_window
    BY <1>1, <2>1, DrainEndFacts
  <2>3. Run(pk) \in Seq(Data) /\ Len(Run(pk)) = end - idx
    BY <1>1, <1>3, <2>1, RunFacts
  <2>4. /\ delivered' = delivered \o Run(pk)
        /\ reliable_window_end' = reliable_window_end + (end - idx)
        /\ reliable_window' =
             Restrict(reliable_window, DOMAIN reliable_window \ (idx .. (end - 1)))
    BY <1>9 DEF RouteFrom, Run
  <2>5. /\ DOMAIN reliable_window' \subseteq DOMAIN reliable_window
        /\ \A k \in DOMAIN reliable_window' : reliable_window'[k] = reliable_window[k]
    BY <2>4 DEF Restrict
  <2>6. \A k \in 1 .. (end - idx) :
          Run(pk)[k] = IF k = 1 THEN pk.data ELSE reliable_window[idx + k - 1].data
    BY DEF Run
  <2> HIDE DEF end, idx
  <2>7. /\ Len(delivered') = idx + (end - idx)
        /\ \A i \in 1 .. (idx + (end - idx)) :
             delivered'[i] = IF i <= idx THEN delivered[i] ELSE Run(pk)[i - idx]
    BY <1>1, <2>1, <2>3, <2>4, ConcatProperties DEF ReceiverTypeOK
  <2>8. end \in Nat /\ end > idx
    BY <2>1, <2>2
  <2>9. WindowHolds'
    BY <1>1, <1>2, <1>7, <2>5 DEF WindowHolds
  <2>10. NotAhead'
    <3>1. reliable_window_end' \in Nat /\ reliable_window_end' >= reliable_window_end
      BY <1>1, <2>1, <2>4, <2>8 DEF ReceiverTypeOK
    <3>2. Len(sent) \in Nat /\ reliable_window_end \in Nat
      BY <1>1, LenProperties DEF SenderTypeOK, ReceiverTypeOK
    <3> QED
      BY <1>1, <1>2, <3>1, <3>2 DEF NotAhead
  <2>11. InOrderOnce'
    <3> SUFFICES ASSUME Unambiguous
                 PROVE  /\ Len(delivered') <= Len(sent)
                        /\ \A i \in 1 .. Len(delivered') : delivered'[i] = sent[i]
      BY <1>2, <1>7 DEF InOrderOnce
    <3>1. idx < Len(sent) /\ pk.data = sent[idx + 1]
      BY <1>3, <1>4, <1>9, LetInIsSubmitted DEF Submitted, idx
    <3>2. \A k \in (idx + 1) .. (end - 1) :
            k < Len(sent) /\ reliable_window[k].data = sent[k + 1]
      BY <1>1, <2>2 DEF WindowHolds, Submitted, OrderInv, WindowInv, NothingStaleWaits
    <3>3. Len(sent) \in Nat
      BY <1>1, LenProperties DEF SenderTypeOK
    <3>4. end <= Len(sent)
      <4>1. CASE end = idx + 1
        BY <2>1, <3>1, <3>3, <4>1
      <4>2. CASE end # idx + 1
        <5>1. end - 1 \in (idx + 1) .. (end - 1)
          BY <2>1, <2>8, <4>2
        <5> QED
          BY <2>8, <3>2, <3>3, <5>1
      <4> QED
        BY <4>1, <4>2
    <3>5. ASSUME NEW i \in 1 .. Len(delivered') PROVE delivered'[i] = sent[i]
      <4>1. i \in Nat /\ i >= 1 /\ i <= end
        BY <2>1, <2>7, <2>8
      <4>2. CASE i <= idx
        <5>1. i \in 1 .. Len(delivered)
          BY <2>1, <4>1, <4>2
        <5> QED
          BY <1>1, <2>1, <2>7, <2>8, <4>1, <4>2, <5>1 DEF InOrderOnce
      <4>3. CASE i = idx + 1
        <5>1. delivered'[i] = Run(pk)[1]
          BY <2>1, <2>7, <2>8, <4>1, <4>3
        <5> QED
          BY <2>1, <2>6, <2>8, <3>1, <4>3, <5>1
      <4>4. CASE i > idx + 1
        <5>1. i - idx \in 1 .. (end - idx) /\ i - idx # 1
              /\ idx + (i - idx) - 1 = i - 1 /\ i - 1 \in (idx + 1) .. (end - 1)
          BY <2>1, <2>8, <4>1, <4>4
        <5>2. delivered'[i] = Run(pk)[i - idx]
          BY <2>1, <2>7, <2>8, <4>1, <4>4
        <5>3. Run(pk)[i - idx] = reliable_window[i - 1].data
          BY <2>6, <5>1
        <5> QED
          BY <3>2, <4>1, <5>1, <5>2, <5>3
      <4> QED
        BY <2>1, <4>1, <4>2, <4>3, <4>4
    <3> QED
      BY <2>1, <2>7, <2>8, <3>3, <3>4, <3>5
  <2> QED
    BY <2>9, <2>10, <2>11
<1>10. CASE InReliableWindow(pk.index) /\ ~IsNext(pk.index) /\ Store(pk)
  <2>1. /\ DOMAIN reliable_window' = DOMAIN reliable_window \cup {pk.index}
        /\ \A k \in DOMAIN reliable_window' :
             reliable_window'[k] = IF k = pk.index THEN pk ELSE reliable_window[k]
        /\ UNCHANGED <<reliable_window_end, delivered>>
    BY <1>10 DEF Store
  <2>2. Unambiguous => Submitted(sent, pk)
    BY <1>3, <1>4, <1>10, LetInIsSubmitted
  <2>3. WindowHolds'
    BY <1>1, <1>2, <1>7, <2>1, <2>2 DEF WindowHolds
  <2>4. NotAhead' /\ InOrderOnce'
    BY <1>1, <1>2, <1>7, <2>1 DEF NotAhead, InOrderOnce
  <2> QED
    BY <2>3, <2>4
<1>11. QED
  BY <1>2, <1>8, <1>9, <1>10

\* A step that leaves the order and the sender alone and puts nothing new on
\* the wire or into inbox.
LEMMA QuietOrder ==
  ASSUME OrderInv, UNCHANGED senderVars, UNCHANGED reliableVars, UNCHANGED inbox,
         datagrams' \subseteq datagrams
  PROVE  SenderHolds' /\ WireHolds' /\ WindowHolds' /\ NotAhead' /\ InOrderOnce'
<1>1. SenderHolds'
  BY DEF OrderInv, SenderHolds, senderVars
<1>2. WireHolds'
  BY DEF OrderInv, WireHolds, senderVars
<1>3. WindowHolds' /\ NotAhead' /\ InOrderOnce'
  BY DEF OrderInv, WindowHolds, NotAhead, InOrderOnce, Unambiguous, senderVars, reliableVars
<1>4. QED
  BY <1>1, <1>2, <1>3

LEMMA OrderInit == Init => OrderInv
<1> SUFFICES ASSUME Init PROVE OrderInv
  OBVIOUS
<1>1. WindowInv
  BY WindowInit
<1>2. SenderHolds /\ WireHolds
  BY DEF Init, SenderHolds, WireHolds, AllSubmitted, AllEchoes
<1>3. WindowHolds /\ NotAhead /\ InOrderOnce
  BY DEF Init, WindowHolds, NotAhead, InOrderOnce
<1>4. QED
  BY <1>1, <1>2, <1>3 DEF OrderInv

LEMMA OrderStep == OrderInv /\ [Next]_vars => OrderInv'
<1> SUFFICES ASSUME OrderInv, [Next]_vars
             PROVE  SenderHolds' /\ WireHolds' /\ WindowHolds' /\ NotAhead' /\ InOrderOnce'
  BY WindowStep DEF OrderInv
<1>1. ASSUME NEW d \in Data, NEW immediate \in BOOLEAN, AddEncapsulated(d, immediate)
      PROVE  SenderHolds' /\ WireHolds' /\ WindowHolds' /\ NotAhead' /\ InOrderOnce'
  BY <1>1, AddEncapsulatedOrder
<1>2. ASSUME NEW overdue \in SUBSET recovery_queue, SenderUpdate(overdue)
      PROVE  SenderHolds' /\ WireHolds' /\ WindowHolds' /\ NotAhead' /\ InOrderOnce'
  BY <1>2, SenderUpdateOrder
<1>3. ASSUME NEW d \in datagrams, ArriveDatagram(d)
      PROVE  SenderHolds' /\ WireHolds' /\ WindowHolds' /\ NotAhead' /\ InOrderOnce'
  <2>1. /\ HandleDatagram(d) /\ datagrams' \subseteq datagrams
        /\ UNCHANGED senderVars
    BY <1>3 DEF ArriveDatagram, HandleDatagram
  <2>2. CASE UNCHANGED receiverVars
    BY <2>1, <2>2, QuietOrder DEF receiverVars
  <2>3. CASE inbox' = d.packets /\ UNCHANGED reliableVars
    <3>1. SenderHolds'
      BY <2>1 DEF OrderInv, SenderHolds, senderVars
    <3>2. WireHolds'
      BY <2>1, <2>3 DEF OrderInv, WireHolds, senderVars
    <3>3. WindowHolds' /\ NotAhead' /\ InOrderOnce'
      BY <2>1, <2>3 DEF OrderInv, WindowHolds, NotAhead, InOrderOnce, Unambiguous,
                        senderVars, reliableVars
    <3> QED
      BY <3>1, <3>2, <3>3
  <2> QED
    BY <2>1, <2>2, <2>3 DEF HandleDatagram
<1>4. CASE HandleEncapsulated
  BY <1>4, HandleEncapsulatedOrder
<1>5. CASE FlushAcks \/ ReceiverUpdate
  BY <1>5, QuietOrder DEF FlushAcks, ReceiverUpdate, FlushQueues
<1>6. ASSUME NEW a \in acks, ArriveAck(a)
      PROVE  SenderHolds' /\ WireHolds' /\ WindowHolds' /\ NotAhead' /\ InOrderOnce'
  BY <1>6, AckOrder DEF ArriveAck
<1>7. ASSUME NEW d \in datagrams, LoseDatagram(d)
      PROVE  SenderHolds' /\ WireHolds' /\ WindowHolds' /\ NotAhead' /\ InOrderOnce'
  BY <1>7, QuietOrder DEF LoseDatagram, receiverVars
<1>8. ASSUME NEW a \in acks, LoseAck(a)
      PROVE  SenderHolds' /\ WireHolds' /\ WindowHolds' /\ NotAhead' /\ InOrderOnce'
  BY <1>8, QuietOrder DEF LoseAck, receiverVars
<1>9. CASE UNCHANGED vars
  BY <1>9, QuietOrder DEF vars, networkVars, receiverVars
<1>10. QED
  BY <1>1, <1>2, <1>3, <1>4, <1>5, <1>6, <1>7, <1>8, <1>9 DEF Next, Other

\* Messages are routed in the order they were submitted and once each, for
\* every window width, number width, and behaviour of the network.
THEOREM OrderKept == Spec => []InOrderOnce
<1>1. OrderInv => InOrderOnce
  BY DEF OrderInv
<1>2. QED
  BY <1>1, OrderInit, OrderStep, PTL DEF Spec

\* A step that routes messages routes the next ones.
LEMMA RoutingExtends ==
  ASSUME WindowInv, HandleEncapsulated, delivered' # delivered
  PROVE  /\ Len(delivered') > Len(delivered) /\ Len(delivered) \in Nat
         /\ delivered' \in Seq(Data)
         /\ UNCHANGED sent
<1> DEFINE pk == Head(inbox)
<1>1. /\ ReceiverTypeOK /\ WindowsInStep
  BY DEF WindowInv, TypeOK
<1>2. pk \in Packets
  <2>1. inbox \in Seq(Packets) /\ inbox # << >>
    BY <1>1 DEF HandleEncapsulated, ReceiverTypeOK
  <2> QED
    BY <2>1, HeadTailProperties
<1>3. IsNext(pk.index) /\ RouteFrom(pk) /\ UNCHANGED sent
  BY DEF HandleEncapsulated, Store, reliableVars, senderVars
<1> HIDE DEF pk
<1>4. pk.index = reliable_window_start /\ pk.index \in Nat
  BY <1>1, <1>2, <1>3 DEF IsNext, WindowsInStep, ReceiverTypeOK, Packets
<1>5. /\ DrainEnd(pk.index) \in (pk.index + 1) .. (pk.index + kWindowSize + 1)
      /\ Run(pk) \in Seq(Data) /\ Len(Run(pk)) = DrainEnd(pk.index) - pk.index
  BY <1>2, <1>4, DrainEndFacts, RunFacts
<1>6. delivered' = delivered \o Run(pk) /\ delivered \in Seq(Data)
  BY <1>1, <1>3 DEF RouteFrom, Run, ReceiverTypeOK
<1>7. delivered' \in Seq(Data) /\ Len(delivered') = Len(delivered) + Len(Run(pk))
  BY <1>5, <1>6, ConcatProperties
<1>8. Len(delivered) \in Nat
  BY <1>6, LenProperties
<1>9. QED
  BY <1>3, <1>4, <1>5, <1>7, <1>8

\* With no more messages than there are indices, the session implements the
\* reliable ordered channel: what one step routes is the next run of what was
\* submitted.
THEOREM ChannelImplemented ==
  ASSUME MaxMessages <= TriadMod
  PROVE  Spec => ImplementsChannel
<1>1. Init => Channel!Init
  BY DEF Init, Channel!Init
<1>2. OrderInv /\ OrderInv' /\ [Next]_vars => [Channel!Next]_(Channel!vars)
  <2> SUFFICES ASSUME OrderInv, OrderInv', [Next]_vars
               PROVE  [Channel!Next]_(Channel!vars)
    OBVIOUS
  <2>1. WindowInv /\ sent \in Seq(Data) /\ delivered \in Seq(Data)
    BY DEF OrderInv, WindowInv, TypeOK, SenderTypeOK, ReceiverTypeOK
  <2>2. ASSUME NEW d \in Data, NEW immediate \in BOOLEAN, AddEncapsulated(d, immediate)
        PROVE  Channel!Next
    BY <2>2 DEF AddEncapsulated, message_index, receiverVars, reliableVars,
                Channel!Next, Channel!Submit
  <2>3. CASE HandleEncapsulated /\ delivered' # delivered
    <3>1. /\ Len(delivered') > Len(delivered) /\ Len(delivered) \in Nat
          /\ delivered' \in Seq(Data) /\ UNCHANGED sent
      BY <2>1, <2>3, RoutingExtends
    <3>2. /\ Len(delivered') <= Len(sent)
          /\ \A i \in 1 .. Len(delivered') : delivered'[i] = sent[i]
      BY <3>1 DEF OrderInv, InOrderOnce, Unambiguous
    <3>3. Len(delivered') \in Nat /\ Len(sent) \in Nat
      BY <2>1, <3>1, LenProperties
    <3>4. /\ SubSeq(sent, 1, Len(delivered')) \in Seq(Data)
          /\ Len(SubSeq(sent, 1, Len(delivered'))) = Len(delivered')
          /\ \A i \in 1 .. Len(delivered') :
               SubSeq(sent, 1, Len(delivered'))[i] = sent[i]
      BY <2>1, <3>2, <3>3
    <3>5. delivered' = SubSeq(sent, 1, Len(delivered'))
      BY <3>1, <3>2, <3>3, <3>4, SeqEqual
    <3>6. Len(delivered') \in (Len(delivered) + 1) .. Len(sent)
      BY <3>1, <3>2, <3>3
    <3> QED
      BY <3>1, <3>5, <3>6 DEF Channel!Next, Channel!Deliver
  <2>4. CASE HandleEncapsulated /\ delivered' = delivered
    BY <2>4 DEF HandleEncapsulated, senderVars, Channel!vars
  <2>5. CASE \E d \in datagrams : ArriveDatagram(d)
    BY <2>5 DEF ArriveDatagram, HandleDatagram, senderVars, receiverVars, reliableVars,
                Channel!vars
  <2>6. CASE FlushAcks \/ ReceiverUpdate
    BY <2>6 DEF FlushAcks, ReceiverUpdate, FlushQueues, senderVars, reliableVars, Channel!vars
  <2>7. CASE \E a \in acks : ArriveAck(a)
    BY <2>7 DEF ArriveAck, HandleAck, HandleNack, receiverVars, reliableVars, Channel!vars
  <2>8. CASE \/ \E d \in datagrams : LoseDatagram(d)
             \/ \E a \in acks : LoseAck(a)
    BY <2>8 DEF LoseDatagram, LoseAck, senderVars, receiverVars, reliableVars, Channel!vars
  <2>9. CASE \E overdue \in SUBSET recovery_queue : SenderUpdate(overdue)
    BY <2>9 DEF SenderUpdate, receiverVars, reliableVars, Channel!vars
  <2>10. CASE UNCHANGED vars
    BY <2>10 DEF vars, senderVars, receiverVars, reliableVars, Channel!vars
  <2> QED
    BY <2>2, <2>3, <2>4, <2>5, <2>6, <2>7, <2>8, <2>9, <2>10 DEF Next, Other
<1>3. Spec => []OrderInv
  BY OrderInit, OrderStep, PTL DEF Spec
<1>4. QED
  BY <1>1, <1>2, <1>3, PTL DEF Spec, ImplementsChannel, Channel!Spec

(***************************************************************************)
(* What is accepted.  The last number accepted is noted as received, and   *)
(* stays noted because update() forgets only what is below the window; so  *)
(* the next number accepted is above it, and so is every number asked for. *)
(***************************************************************************)
LastNoted == last_seq = -1 \/ last_seq \in received_window

NoneAbove == \A s \in ack_queue \cup received_window : s <= last_seq

\* Numbers on the wire are three bytes.
WireNumbers ==
  /\ \A d \in datagrams : d.seq < TriadMod
  /\ \A d \in datagrams : \A i \in 1 .. Len(d.packets) : d.packets[i].index < TriadMod
  /\ \A i \in 1 .. Len(inbox) : inbox[i].index < TriadMod

AcceptInv == WindowInv /\ LastNoted /\ NoneAbove /\ NacksAreMissing /\ WireNumbers

\* A number that is not refused is above the last one accepted.
LEMMA AcceptedIsAbove ==
  ASSUME AcceptInv, NEW d \in Datagrams, ~Refused(d.seq)
  PROVE  d.seq > last_seq
<1>1. /\ d.seq \in Nat /\ last_seq \in Int /\ window_start = last_seq
  BY DEF AcceptInv, WindowInv, TypeOK, ReceiverTypeOK, WindowsInStep, Datagrams
<1>2. CASE last_seq = -1
  BY <1>1, <1>2
<1>3. CASE last_seq \in received_window
  BY <1>1, <1>3 DEF Refused
<1>4. QED
  BY <1>2, <1>3 DEF AcceptInv, LastNoted

\* What a datagram accepted does to the queues.
LEMMA HandleDatagramAccept ==
  ASSUME AcceptInv, NEW d \in datagrams, HandleDatagram(d), ~UNCHANGED receiverVars
  PROVE  /\ d.seq > last_seq /\ last_seq' = d.seq /\ d.seq \in Nat
         /\ ack_queue' = ack_queue \cup {d.seq}
         /\ LastNoted' /\ NoneAbove' /\ NacksAreMissing'
<1>1. /\ d \in Datagrams /\ d.seq \in Nat /\ last_seq \in Int /\ last_seq >= -1
      /\ ack_queue \subseteq Nat /\ nack_queue \subseteq Nat /\ received_window \subseteq Nat
  BY DEF AcceptInv, WindowInv, TypeOK, NetworkTypeOK, ReceiverTypeOK, Datagrams
<1>2. /\ ~Refused(d.seq)
      /\ ack_queue' = ack_queue \cup {d.seq}
      /\ nack_queue' = (nack_queue \ {d.seq}) \cup MissingBefore(d.seq)
      /\ received_window' = received_window \cup {d.seq}
      /\ last_seq' = IF d.seq > last_seq THEN d.seq ELSE last_seq
  BY DEF HandleDatagram
<1>3. d.seq > last_seq /\ last_seq' = d.seq
  BY <1>1, <1>2, AcceptedIsAbove
<1>4. \A n \in MissingBefore(d.seq) : n > last_seq /\ n # d.seq
  BY <1>1 DEF MissingBefore
<1>5. LastNoted'
  BY <1>2, <1>3 DEF LastNoted
<1>6. NoneAbove'
  BY <1>1, <1>2, <1>3 DEF AcceptInv, NoneAbove
<1>7. NacksAreMissing'
  <2> SUFFICES ASSUME NEW n \in nack_queue', n \in ack_queue' \cup received_window'
               PROVE  FALSE
    BY DEF NacksAreMissing
  <2>1. n # d.seq
    BY <1>2, <1>4
  <2>2. n \in ack_queue \cup received_window
    BY <1>2, <2>1
  <2>3. n <= last_seq /\ n \in Nat
    BY <1>1, <2>2 DEF AcceptInv, NoneAbove
  <2>4. n \notin MissingBefore(d.seq)
    BY <1>1, <1>4, <2>3
  <2>5. n \in nack_queue
    BY <1>2, <2>4
  <2> QED
    BY <2>2, <2>5 DEF AcceptInv, NacksAreMissing
<1>8. QED
  BY <1>1, <1>2, <1>3, <1>5, <1>6, <1>7

\* An encoded datagram has three-byte numbers.
LEMMA EncodedNumbers ==
  ASSUME NEW d \in Datagrams
  PROVE  /\ Encoded(d).seq < TriadMod
         /\ \A i \in 1 .. Len(Encoded(d).packets) : Encoded(d).packets[i].index < TriadMod
<1>1. d.seq \in Nat /\ \A i \in 1 .. Len(d.packets) : d.packets[i] \in Packets
  BY ElementOfSeq DEF Datagrams
<1>2. \A n \in Nat : LTriad(n) < TriadMod
  BY DEF LTriad
<1>3. QED
  BY <1>1, <1>2, EncodedType DEF Packets

\* What is sent has three-byte numbers.
LEMMA SendingNumbers ==
  ASSUME WireNumbers, UNCHANGED inbox, NEW D, D \subseteq Datagrams, SendDatagrams(D)
  PROVE  WireNumbers'
<1>1. \A d \in D : /\ Encoded(d).seq < TriadMod
                   /\ \A i \in 1 .. Len(Encoded(d).packets) :
                        Encoded(d).packets[i].index < TriadMod
  BY EncodedNumbers
<1>2. QED
  BY <1>1 DEF WireNumbers, SendDatagrams

\* The steps of the sender keep to three-byte numbers.
LEMMA SenderNumbers ==
  ASSUME AcceptInv,
         \/ \E d \in Data, immediate \in BOOLEAN : AddEncapsulated(d, immediate)
         \/ \E overdue \in SUBSET recovery_queue : SenderUpdate(overdue)
         \/ \E a \in acks : HandleNack(a)
  PROVE  WireNumbers'
<1>1. WireNumbers /\ SenderTypeOK /\ Finite /\ UNCHANGED inbox
  BY DEF AcceptInv, WindowInv, TypeOK, AddEncapsulated, SenderUpdate, HandleNack, receiverVars
<1>2. ASSUME NEW d \in Data, NEW immediate \in BOOLEAN, AddEncapsulated(d, immediate)
      PROVE  WireNumbers'
  <2> DEFINE pk == [index |-> message_index, data |-> d]
             flushed == IF immediate
                        THEN {[seq |-> send_seq, packets |-> <<pk>>]}
                        ELSE IF Len(send_queue) = MtuPackets
                             THEN {[seq |-> send_seq, packets |-> send_queue]}
                             ELSE {}
  <2>1. SendDatagrams(flushed)
    BY <1>2 DEF AddEncapsulated
  <2>2. <<pk>> \in Seq(Packets) /\ send_queue \in Seq(Packets) /\ send_seq \in Nat
    BY <1>1, LenProperties DEF Packets, SenderTypeOK, message_index
  <2>3. /\ [seq |-> send_seq, packets |-> <<pk>>] \in Datagrams
        /\ [seq |-> send_seq, packets |-> send_queue] \in Datagrams
    BY <2>2 DEF Datagrams
  <2> QED
    BY <1>1, <2>1, <2>3, SendingNumbers
<1>3. ASSUME NEW overdue \in SUBSET recovery_queue, SenderUpdate(overdue)
      PROVE  WireNumbers'
  <2> DEFINE early    == Lowest(packet_to_send, DrainLimit)
             queued   == (packet_to_send \ early) \cup Renumbered(overdue)
             late     == Lowest(queued, DrainLimit)
             flushed  == IF send_queue = << >> THEN {}
                         ELSE {[seq |-> send_seq + Cardinality(overdue),
                                packets |-> send_queue]}
  <2>1. SendDatagrams(early \cup late \cup flushed)
    BY <1>3 DEF SenderUpdate
  <2>2. overdue \subseteq Datagrams /\ IsFiniteSet(overdue)
    BY <1>1, FS_Subset DEF Finite, SenderTypeOK
  <2>3. Renumbered(overdue) \subseteq Datagrams /\ Cardinality(overdue) \in Nat
    BY <1>1, <2>2, RenumberedType DEF SenderTypeOK
  <2>4. early \subseteq packet_to_send /\ late \subseteq queued
    BY LowestSubset
  <2>5. flushed \subseteq Datagrams
    BY <1>1, <2>3 DEF SenderTypeOK, Datagrams
  <2> HIDE DEF early, late, flushed
  <2>6. (early \cup late \cup flushed) \subseteq Datagrams
    BY <1>1, <2>3, <2>4, <2>5 DEF SenderTypeOK
  <2> QED
    BY <1>1, <2>1, <2>6, SendingNumbers
<1>4. ASSUME NEW a \in acks, HandleNack(a) PROVE WireNumbers'
  <2> DEFINE missing == {d \in recovery_queue : d.seq \in a.seqs}
  <2>1. SendDatagrams(Renumbered(missing))
    BY <1>4 DEF HandleNack
  <2>2. missing \subseteq Datagrams /\ IsFiniteSet(missing)
    BY <1>1, FS_Subset DEF Finite, SenderTypeOK
  <2> HIDE DEF missing
  <2>3. Renumbered(missing) \subseteq Datagrams
    BY <1>1, <2>2, RenumberedType DEF SenderTypeOK
  <2> QED
    BY <1>1, <2>1, <2>3, SendingNumbers
<1>5. QED
  BY <1>2, <1>3, <1>4

LEMMA AcceptInit == Init => AcceptInv
<1>1. Init => LastNoted /\ NoneAbove /\ NacksAreMissing
  BY DEF Init, LastNoted, NoneAbove, NacksAreMissing
<1>2. Init => WireNumbers
  BY DEF Init, WireNumbers
<1>3. QED
  BY <1>1, <1>2, WindowInit DEF AcceptInv

\* The part of AcceptInv that only the receiver's windows and queues matter to.
LEMMA AcceptUnchanged ==
  ASSUME AcceptInv, UNCHANGED receiverVars
  PROVE  LastNoted' /\ NoneAbove' /\ NacksAreMissing'
BY DEF AcceptInv, LastNoted, NoneAbove, NacksAreMissing, receiverVars, windowVars

LEMMA AcceptStep == AcceptInv /\ [Next]_vars => AcceptInv'
<1> SUFFICES ASSUME AcceptInv, [Next]_vars
             PROVE  LastNoted' /\ NoneAbove' /\ NacksAreMissing' /\ WireNumbers'
  BY WindowStep DEF AcceptInv
<1>1. ASSUME NEW d \in Data, NEW immediate \in BOOLEAN, AddEncapsulated(d, immediate)
      PROVE  LastNoted' /\ NoneAbove' /\ NacksAreMissing' /\ WireNumbers'
  BY <1>1, SenderNumbers, AcceptUnchanged DEF AddEncapsulated
<1>2. ASSUME NEW overdue \in SUBSET recovery_queue, SenderUpdate(overdue)
      PROVE  LastNoted' /\ NoneAbove' /\ NacksAreMissing' /\ WireNumbers'
  BY <1>2, SenderNumbers, AcceptUnchanged DEF SenderUpdate
<1>3. ASSUME NEW d \in datagrams, ArriveDatagram(d)
      PROVE  LastNoted' /\ NoneAbove' /\ NacksAreMissing' /\ WireNumbers'
  <2>1. HandleDatagram(d) /\ datagrams' \subseteq datagrams
    BY <1>3 DEF ArriveDatagram
  <2>2. LastNoted' /\ NoneAbove' /\ NacksAreMissing'
    BY <2>1, HandleDatagramAccept, AcceptUnchanged
  <2>3. inbox' = inbox \/ inbox' = d.packets
    BY <2>1 DEF HandleDatagram, receiverVars
  <2>4. WireNumbers'
    BY <2>1, <2>3 DEF AcceptInv, WireNumbers
  <2> QED
    BY <2>2, <2>4
<1>4. CASE HandleEncapsulated
  <2>1. UNCHANGED <<last_seq, received_window, ack_queue, nack_queue, datagrams>>
    BY <1>4 DEF HandleEncapsulated, windowVars, networkVars
  <2>2. /\ inbox \in Seq(Packets) /\ inbox # << >> /\ inbox' = Tail(inbox)
    BY <1>4 DEF HandleEncapsulated, AcceptInv, WindowInv, TypeOK, ReceiverTypeOK
  <2>3. /\ Len(inbox') = Len(inbox) - 1 /\ Len(inbox) \in Nat
        /\ \A i \in 1 .. Len(inbox') : inbox'[i] = inbox[i + 1]
    BY <2>2, HeadTailProperties, LenProperties
  <2>4. WireNumbers'
    BY <2>1, <2>3 DEF AcceptInv, WireNumbers
  <2>5. LastNoted' /\ NoneAbove' /\ NacksAreMissing'
    BY <2>1 DEF AcceptInv, LastNoted, NoneAbove, NacksAreMissing
  <2> QED
    BY <2>4, <2>5
<1>5. CASE FlushAcks \/ ReceiverUpdate
  <2>1. /\ ack_queue' = {} /\ nack_queue' = {} /\ UNCHANGED <<last_seq, datagrams, inbox>>
        /\ \/ UNCHANGED received_window
           \/ received_window' = {s \in received_window : s >= window_start}
    BY <1>5 DEF FlushAcks, ReceiverUpdate, FlushQueues, windowVars
  <2>2. window_start = last_seq /\ last_seq \in Int
    BY DEF AcceptInv, WindowInv, TypeOK, ReceiverTypeOK, WindowsInStep
  <2>3. LastNoted'
    BY <2>1, <2>2 DEF AcceptInv, LastNoted
  <2>4. NoneAbove' /\ NacksAreMissing' /\ WireNumbers'
    BY <2>1 DEF AcceptInv, NoneAbove, NacksAreMissing, WireNumbers
  <2> QED
    BY <2>3, <2>4
<1>6. ASSUME NEW a \in acks, ArriveAck(a)
      PROVE  LastNoted' /\ NoneAbove' /\ NacksAreMissing' /\ WireNumbers'
  <2>1. UNCHANGED receiverVars /\ (HandleAck(a) \/ HandleNack(a))
    BY <1>6 DEF ArriveAck, HandleAck, HandleNack
  <2>2. WireNumbers'
    <3>1. CASE HandleAck(a)
      BY <3>1 DEF HandleAck, AcceptInv, WireNumbers, receiverVars
    <3>2. CASE HandleNack(a)
      BY <3>2, SenderNumbers
    <3> QED
      BY <2>1, <3>1, <3>2
  <2> QED
    BY <2>1, <2>2, AcceptUnchanged
<1>7. CASE \/ \E d \in datagrams : LoseDatagram(d)
           \/ \E a \in acks : LoseAck(a)
           \/ UNCHANGED vars
  <2>1. datagrams' \subseteq datagrams /\ UNCHANGED receiverVars
    BY <1>7 DEF LoseDatagram, LoseAck, vars, networkVars
  <2>2. WireNumbers'
    BY <2>1 DEF AcceptInv, WireNumbers, receiverVars
  <2> QED
    BY <2>1, <2>2, AcceptUnchanged
<1>8. QED
  BY <1>1, <1>2, <1>3, <1>4, <1>5, <1>6, <1>7 DEF Next, Other

\* A NACK never asks for a datagram that was accepted.
THEOREM NacksMissing == Spec => []NacksAreMissing
<1>1. AcceptInv => NacksAreMissing
  BY DEF AcceptInv
<1>2. QED
  BY <1>1, AcceptInit, AcceptStep, PTL DEF Spec

\* Only the arrival of a datagram changes last_seq_ or adds to the queue of
\* acknowledgements.
LEMMA OnlyArrivalAccepts ==
  ASSUME [Next]_vars, ~(UNCHANGED last_seq /\ ack_queue' \subseteq ack_queue)
  PROVE  \E d \in datagrams : HandleDatagram(d) /\ ~UNCHANGED receiverVars
BY DEF Next, Other, AddEncapsulated, HandleEncapsulated, FlushAcks, ReceiverUpdate,
       FlushQueues, ArriveDatagram, ArriveAck, HandleAck, HandleNack, LoseDatagram,
       LoseAck, SenderUpdate, receiverVars, windowVars, vars

\* A datagram is accepted only if its number is above every number accepted
\* before.
THEOREM OvertakenRefused == Spec => OvertakenIsRefused
<1>1. AcceptInv /\ [Next]_vars =>
        [\A s \in ack_queue' \ ack_queue : s > last_seq /\ last_seq' = s]_vars
  <2> SUFFICES ASSUME AcceptInv, [Next]_vars, NEW s \in ack_queue', s \notin ack_queue
               PROVE  s > last_seq /\ last_seq' = s
    OBVIOUS
  <2>1. PICK d \in datagrams : HandleDatagram(d) /\ ~UNCHANGED receiverVars
    BY OnlyArrivalAccepts
  <2>2. /\ d.seq > last_seq /\ last_seq' = d.seq
        /\ ack_queue' = ack_queue \cup {d.seq}
    BY <2>1, HandleDatagramAccept
  <2> QED
    BY <2>2
<1>2. QED
  BY <1>1, AcceptInit, AcceptStep, PTL DEF Spec, OvertakenIsRefused

\* After the last three-byte sequence number no datagram is accepted, after
\* the last three-byte message index no message is routed.
THEOREM NumbersDoRunOut == Spec => NumbersRunOut
<1>1. AcceptInv /\ [Next]_vars =>
        [/\ last_seq = TriadMod - 1 =>
              last_seq' = last_seq /\ ack_queue' \subseteq ack_queue
         /\ last_reliable_index = TriadMod - 1 => delivered' = delivered]_vars
  <2> SUFFICES ASSUME AcceptInv, [Next]_vars
               PROVE  /\ last_seq = TriadMod - 1 =>
                           last_seq' = last_seq /\ ack_queue' \subseteq ack_queue
                      /\ last_reliable_index = TriadMod - 1 => delivered' = delivered
    OBVIOUS
  <2>1. ASSUME last_seq = TriadMod - 1,
               ~(UNCHANGED last_seq /\ ack_queue' \subseteq ack_queue)
        PROVE  FALSE
    <3>1. PICK d \in datagrams : HandleDatagram(d) /\ ~UNCHANGED receiverVars
      BY <2>1, OnlyArrivalAccepts
    <3>2. d.seq > last_seq /\ d.seq \in Nat
      BY <3>1, HandleDatagramAccept
    <3>3. d.seq < TriadMod
      BY <3>1 DEF AcceptInv, WireNumbers
    <3> QED
      BY <2>1, <3>2, <3>3
  <2>2. ASSUME last_reliable_index = TriadMod - 1, delivered' # delivered PROVE FALSE
    <3>1. HandleEncapsulated
      BY <2>2 DEF Next, Other, AddEncapsulated, FlushAcks, ReceiverUpdate,
                  FlushQueues, ArriveDatagram, HandleDatagram, ArriveAck, HandleAck,
                  HandleNack, LoseDatagram, LoseAck, SenderUpdate, receiverVars,
                  reliableVars, vars
    <3>2. inbox \in Seq(Packets) /\ inbox # << >>
      BY <3>1 DEF HandleEncapsulated, AcceptInv, WindowInv, TypeOK, ReceiverTypeOK
    <3>3. Head(inbox) = inbox[1] /\ Len(inbox) >= 1 /\ Len(inbox) \in Nat
          /\ Head(inbox) \in Packets
      BY <3>2, HeadTailProperties, LenProperties, EmptySeq
    <3>4. Head(inbox).index < TriadMod /\ Head(inbox).index \in Nat
      BY <3>3 DEF AcceptInv, WireNumbers, Packets
    <3>5. IsNext(Head(inbox).index)
      BY <2>2, <3>1 DEF HandleEncapsulated, Store, reliableVars
    <3> QED
      BY <2>2, <3>4, <3>5 DEF IsNext
  <2> QED
    BY <2>1, <2>2
<1>2. QED
  BY <1>1, AcceptInit, AcceptStep, PTL DEF Spec, NumbersRunOut

(***************************************************************************)
(* Delivery.  As long as neither datagram numbers nor message indices wrap *)
(* around, a datagram on the wire is a copy of the one the sender keeps    *)
(* under its number, and no two datagrams it keeps have one number; so     *)
(* what an acknowledgement strikes out is what the receiver took in.       *)
(***************************************************************************)
NumbersSuffice == MaxDatagrams <= TriadMod /\ MaxMessages <= TriadMod

Kept == packet_to_send \cup recovery_queue

\* The message indices the receiver has taken in.
Arrived ==
  (0 .. (Len(delivered) - 1)) \cup DOMAIN reliable_window \cup Indices(inbox)

\* The datagram numbers that an acknowledgement will name or names.
Acknowledged == ack_queue \cup UNION {a.seqs : a \in {b \in acks : b.id = "ACK"}}

NumbersGiven ==
  /\ send_seq <= MaxDatagrams
  /\ \A d \in Kept \cup datagrams : d.seq < send_seq
  /\ \A s \in Acknowledged : s < send_seq

KeptApart == \A d, e \in Kept : d.seq = e.seq => d = e

WireIsCopy == \A w \in datagrams, d \in Kept : w.seq = d.seq => w.packets = d.packets

AckedArrived ==
  ~overran =>
    \A s \in Acknowledged, d \in Kept : d.seq = s => Indices(d.packets) \subseteq Arrived

AllSomewhere ==
  ~overran =>
    0 .. (Len(sent) - 1)
      \subseteq Arrived \cup Indices(send_queue) \cup UNION {Indices(d.packets) : d \in Kept}

Numbering == NumbersGiven /\ KeptApart /\ WireIsCopy

DeliveryInv == OrderInv /\ Numbering /\ AckedArrived /\ AllSomewhere

\* A datagram whose numbers fit into three bytes is decoded as it was.
LEMMA EncodedSame ==
  ASSUME NEW d \in Datagrams, d.seq < TriadMod,
         \A i \in 1 .. Len(d.packets) : d.packets[i].index < TriadMod
  PROVE  Encoded(d).seq = d.seq /\ Encoded(d).packets = d.packets
<1>1. /\ d.seq \in Nat /\ d.packets \in Seq(Packets) /\ TriadMod \in Nat /\ TriadMod > 0
      /\ \A i \in 1 .. Len(d.packets) : d.packets[i] \in Packets
  BY ElementOfSeq DEF Datagrams
<1>2. \A n \in Nat : n < TriadMod => LTriad(n) = n
  BY <1>1, ModuloTurns DEF LTriad
<1>3. /\ Encoded(d).seq = d.seq
      /\ Encoded(d).packets \in Seq(Packets) /\ Len(Encoded(d).packets) = Len(d.packets)
  BY <1>1, <1>2, EncodedType DEF Datagrams
<1>4. ASSUME NEW i \in 1 .. Len(d.packets) PROVE Encoded(d).packets[i] = d.packets[i]
  <2>1. /\ Encoded(d).packets[i].index = d.packets[i].index
        /\ Encoded(d).packets[i].data = d.packets[i].data
    BY <1>1, <1>2, EncodedType DEF Packets
  <2>2. Encoded(d).packets[i] \in Packets /\ d.packets[i] \in Packets
    BY <1>1, <1>3, ElementOfSeq
  <2> QED
    BY <2>1, <2>2 DEF Packets
<1>5. Encoded(d).packets = d.packets
  BY <1>1, <1>3, <1>4, SeqEqual
<1>6. QED
  BY <1>3, <1>5

\* Datagrams get the next numbers, and those with numbers of their own get new
\* numbers of their own.
LEMMA RenumberedApart ==
  ASSUME send_seq \in Nat, NEW S, S \subseteq Datagrams, IsFiniteSet(S)
  PROVE  /\ \A r \in Renumbered(S) : send_seq <= r.seq /\ r.seq < send_seq + Cardinality(S)
         /\ (\A d, e \in S : d.seq = e.seq => d = e) =>
              \A r, q \in Renumbered(S) : r.seq = q.seq => r = q
         /\ \A d \in S : \E r \in Renumbered(S) : r.packets = d.packets
<1> DEFINE below(d) == {e \in S : e.seq < d.seq}
           rank(d) == Cardinality(below(d))
           new(d) == [seq |-> send_seq + rank(d), packets |-> d.packets]
<1>1. \A d \in S : d.seq \in Nat
  BY DEF Datagrams
<1>2. Cardinality(S) \in Nat
  BY FS_CardinalityType
<1>3. ASSUME NEW d \in S PROVE IsFiniteSet(below(d)) /\ rank(d) \in Nat
  BY FS_Subset, FS_CardinalityType
<1>4. ASSUME NEW d \in S PROVE rank(d) < Cardinality(S)
  <2>1. below(d) \in SUBSET S /\ d \notin below(d)
    BY <1>1
  <2>2. rank(d) <= Cardinality(S) /\ rank(d) # Cardinality(S)
    BY <2>1, FS_Subset
  <2> QED
    BY <1>2, <1>3, <2>2
<1>5. ASSUME NEW d \in S, NEW e \in S, d.seq < e.seq PROVE rank(d) < rank(e)
  <2>1. below(d) \in SUBSET below(e) /\ d \in below(e) /\ d \notin below(d)
    BY <1>1, <1>5
  <2>2. rank(d) <= rank(e) /\ rank(d) # rank(e)
    BY <1>3, <2>1, FS_Subset
  <2>3. rank(d) \in Nat /\ rank(e) \in Nat
    BY <1>3
  <2> HIDE DEF rank
  <2> QED
    BY <2>2, <2>3
<1>6. Renumbered(S) = {new(d) : d \in S}
  BY DEF Renumbered
<1>7. \A d \in S : new(d).seq = send_seq + rank(d) /\ new(d).packets = d.packets
  OBVIOUS
<1>8. \A d \in S : rank(d) \in Nat /\ rank(d) < Cardinality(S)
  BY <1>3, <1>4
<1> HIDE DEF rank
<1>9. ASSUME \A d, e \in S : d.seq = e.seq => d = e,
             NEW d \in S, NEW e \in S, new(d).seq = new(e).seq
      PROVE  new(d) = new(e)
  <2>1. rank(d) = rank(e)
    BY <1>7, <1>8, <1>9
  <2>2. ~(d.seq < e.seq) /\ ~(e.seq < d.seq)
    BY <1>5, <1>8, <2>1
  <2>3. d = e
    BY <1>1, <1>9, <2>2
  <2> QED
    BY <2>3
<1> HIDE DEF new
<1>10. \A r \in Renumbered(S) : send_seq <= r.seq /\ r.seq < send_seq + Cardinality(S)
  BY <1>2, <1>6, <1>7, <1>8
<1>11. (\A d, e \in S : d.seq = e.seq => d = e) =>
         \A r, q \in Renumbered(S) : r.seq = q.seq => r = q
  BY <1>6, <1>9
<1>12. \A d \in S : \E r \in Renumbered(S) : r.packets = d.packets
  BY <1>6, <1>7
<1>13. QED
  BY <1>10, <1>11, <1>12

\* Every message index the sender keeps fits into three bytes.
LEMMA KeptIndices ==
  ASSUME NumbersSuffice, NEW s, s \in Seq(Data), Len(s) <= MaxMessages,
         NEW d \in Datagrams, AllSubmitted(s, d.packets)
  PROVE  \A i \in 1 .. Len(d.packets) :
           d.packets[i].index < TriadMod /\ d.packets[i].index \in 0 .. (Len(s) - 1)
<1>1. /\ Len(s) \in Nat
      /\ \A i \in 1 .. Len(d.packets) : d.packets[i].index \in Nat
  <2>1. d.packets \in Seq(Packets)
    BY DEF Datagrams
  <2>2. \A i \in 1 .. Len(d.packets) : d.packets[i] \in Packets
    BY <2>1, ElementOfSeq
  <2> QED
    BY <2>2, LenProperties DEF Packets
<1>2. \A i \in 1 .. Len(d.packets) : d.packets[i].index < Len(s)
  BY DEF AllSubmitted, Submitted
<1>3. QED
  BY <1>1, <1>2 DEF NumbersSuffice

\* What is acknowledged are datagram numbers.
LEMMA AcknowledgedNumbers ==
  ASSUME TypeOK PROVE Acknowledged \subseteq Nat
<1>1. ack_queue \subseteq Nat /\ acks \subseteq Acks
  BY DEF TypeOK, ReceiverTypeOK, NetworkTypeOK
<1>2. \A a \in acks : a.seqs \subseteq Nat
  BY <1>1 DEF Acks
<1>3. QED
  BY <1>1, <1>2 DEF Acknowledged

\* A step of the sender: it gives up some of the datagrams it keeps, takes in
\* new ones under the next numbers, sends some of both, and queues no
\* acknowledgement.
LEMMA SenderNumbering ==
  ASSUME NumbersSuffice, OrderInv, OrderInv', Numbering,
         NEW New, New \subseteq Datagrams, NEW D,
         Kept' \subseteq Kept \cup New, D \subseteq Kept', SendDatagrams(D),
         send_seq <= send_seq', send_seq' <= MaxDatagrams,
         \A d \in New : send_seq <= d.seq /\ d.seq < send_seq',
         \A d, e \in New : d.seq = e.seq => d = e,
         Acknowledged' \subseteq Acknowledged
  PROVE  Numbering'
<1>1. /\ send_seq \in Nat /\ send_seq' \in Nat
      /\ Kept \subseteq Datagrams /\ Kept' \subseteq Datagrams /\ datagrams \subseteq Datagrams
      /\ sent' \in Seq(Data) /\ Len(sent') <= MaxMessages
      /\ \A d \in Kept' : AllSubmitted(sent', d.packets)
  BY DEF OrderInv, WindowInv, TypeOK, SenderTypeOK, NetworkTypeOK, Kept, SenderHolds, NotAhead
<1>2. \A d \in Datagrams : d.seq \in Nat
  BY DEF Datagrams
<1>3. /\ \A d \in Kept : d.seq < send_seq
      /\ \A d \in datagrams : d.seq < send_seq
      /\ \A s \in Acknowledged : s < send_seq
      /\ KeptApart /\ WireIsCopy
  BY DEF Numbering, NumbersGiven
<1>4. Acknowledged \subseteq Nat
  BY AcknowledgedNumbers DEF OrderInv, WindowInv
<1>5. \A d \in Kept' : d.seq < send_seq'
  BY <1>1, <1>2, <1>3
<1>6. \A d \in D : Encoded(d).seq = d.seq /\ Encoded(d).packets = d.packets
  <2> TAKE d \in D
  <2>1. d \in Datagrams /\ d.seq < TriadMod
    BY <1>1, <1>2, <1>5 DEF NumbersSuffice
  <2>2. \A i \in 1 .. Len(d.packets) : d.packets[i].index < TriadMod
    BY <1>1, <2>1, KeptIndices
  <2> QED
    BY <2>1, <2>2, EncodedSame
<1>7. \A w \in datagrams' : w \in datagrams \/ \E d \in D : w = Encoded(d)
  BY DEF SendDatagrams
<1>8. NumbersGiven'
  <2>1. \A w \in datagrams' : w.seq < send_seq'
    BY <1>1, <1>2, <1>3, <1>5, <1>6, <1>7
  <2>2. \A s \in Acknowledged' : s < send_seq'
    BY <1>1, <1>3, <1>4
  <2> QED
    BY <1>5, <2>1, <2>2 DEF NumbersGiven
<1>9. KeptApart'
  <2> SUFFICES ASSUME NEW d \in Kept', NEW e \in Kept', d.seq = e.seq PROVE d = e
    BY DEF KeptApart
  <2>1. CASE d \in Kept /\ e \in Kept
    BY <1>3, <2>1 DEF KeptApart
  <2>2. CASE d \in New /\ e \in New
    BY <2>2
  <2>3. CASE (d \in Kept /\ e \in New) \/ (d \in New /\ e \in Kept)
    BY <1>1, <1>2, <1>3, <2>3
  <2> QED
    BY <2>1, <2>2, <2>3
<1>10. WireIsCopy'
  <2> SUFFICES ASSUME NEW w \in datagrams', NEW d \in Kept', w.seq = d.seq
               PROVE  w.packets = d.packets
    BY DEF WireIsCopy
  <2>1. CASE w \in datagrams /\ d \in Kept
    BY <1>3, <2>1 DEF WireIsCopy
  <2>2. CASE w \in datagrams /\ d \in New
    BY <1>1, <1>2, <1>3, <2>2
  <2>3. ASSUME NEW e \in D, w = Encoded(e) PROVE w.packets = d.packets
    <3>1. e.seq = d.seq /\ w.packets = e.packets /\ e \in Kept'
      BY <1>6, <2>3
    <3> QED
      BY <1>9, <3>1 DEF KeptApart
  <2> QED
    BY <1>7, <2>1, <2>2, <2>3
<1>11. QED
  BY <1>8, <1>9, <1>10 DEF Numbering

\* A step that queues no acknowledgement, takes nothing out of what arrived,
\* and lets the sender keep nothing under an old number that it did not keep.
LEMMA AckedStaysArrived ==
  ASSUME AckedArrived, NumbersGiven, Acknowledged \subseteq Nat, send_seq \in Nat,
         Acknowledged' \subseteq Acknowledged, overran => overran',
         ~overran' => Arrived \subseteq Arrived',
         NEW New, Kept' \subseteq Kept \cup New,
         \A d \in New : d.seq \in Nat /\ send_seq <= d.seq
  PROVE  AckedArrived'
<1> SUFFICES ASSUME ~overran', NEW s \in Acknowledged', NEW d \in Kept', d.seq = s
             PROVE  Indices(d.packets) \subseteq Arrived'
  BY DEF AckedArrived
<1>1. s \in Acknowledged /\ s \in Nat /\ s < send_seq
  BY DEF NumbersGiven
<1>2. d \in Kept
  BY <1>1
<1>3. Indices(d.packets) \subseteq Arrived
  BY <1>1, <1>2 DEF AckedArrived
<1>4. QED
  BY <1>3

\* The indices of the packets of a sequence with one more.
LEMMA IndicesOf ==
  ASSUME NEW pks \in Seq(Packets), NEW pk \in Packets
  PROVE  /\ Indices(<<pk>>) = {pk.index}
         /\ Indices(Append(pks, pk)) = Indices(pks) \cup {pk.index}
<1>1. Indices(<<pk>>) = {pk.index}
  BY DEF Indices
<1>2. /\ Len(pks) \in Nat /\ Len(Append(pks, pk)) = Len(pks) + 1
      /\ \A i \in 1 .. Len(pks) : Append(pks, pk)[i] = pks[i]
      /\ Append(pks, pk)[Len(pks) + 1] = pk
  BY AppendProperties, LenProperties
<1>3. Indices(Append(pks, pk)) \subseteq Indices(pks) \cup {pk.index}
  BY <1>2 DEF Indices
<1>4. Indices(pks) \subseteq Indices(Append(pks, pk))
  BY <1>2 DEF Indices
<1>5. Len(pks) + 1 \in 1 .. Len(Append(pks, pk))
  BY <1>2
<1>6. pk.index \in Indices(Append(pks, pk))
  BY <1>2, <1>5 DEF Indices
<1>7. QED
  BY <1>1, <1>3, <1>4, <1>6

\* The two parts of the invariant that every step of the sender keeps alike.
LEMMA SenderDelivery ==
  ASSUME NumbersSuffice, DeliveryInv, OrderInv', UNCHANGED receiverVars,
         acks' \subseteq acks, overran => overran',
         NEW New, New \subseteq Datagrams, NEW D,
         Kept' \subseteq Kept \cup New, D \subseteq Kept', SendDatagrams(D),
         send_seq <= send_seq', send_seq' <= MaxDatagrams,
         \A d \in New : send_seq <= d.seq /\ d.seq < send_seq',
         \A d, e \in New : d.seq = e.seq => d = e
  PROVE  Numbering' /\ AckedArrived' /\ Arrived' = Arrived
<1>1. Acknowledged' \subseteq Acknowledged /\ Arrived' = Arrived
  BY DEF Acknowledged, Arrived, receiverVars, reliableVars
<1>2. OrderInv /\ Numbering /\ NumbersGiven /\ AckedArrived
  BY DEF DeliveryInv, Numbering
<1>3. Numbering'
  BY <1>1, <1>2, SenderNumbering
<1>4. send_seq \in Nat /\ Acknowledged \subseteq Nat
  BY <1>2, AcknowledgedNumbers DEF OrderInv, WindowInv, TypeOK, SenderTypeOK
<1>5. \A d \in New : d.seq \in Nat /\ send_seq <= d.seq
  BY DEF Datagrams
<1>6. AckedArrived'
  BY <1>1, <1>2, <1>4, <1>5, AckedStaysArrived
<1>7. QED
  BY <1>1, <1>3, <1>6

LEMMA AddEncapsulatedDelivery ==
  ASSUME NumbersSuffice, DeliveryInv, OrderInv',
         NEW d \in Data, NEW immediate \in BOOLEAN, AddEncapsulated(d, immediate)
  PROVE  Numbering' /\ AckedArrived' /\ AllSomewhere'
<1> DEFINE pk == [index |-> message_index, data |-> d]
           flushed == IF immediate
                      THEN {[seq |-> send_seq, packets |-> <<pk>>]}
                      ELSE IF Len(send_queue) = MtuPackets
                           THEN {[seq |-> send_seq, packets |-> send_queue]}
                           ELSE {}
<1>1. /\ send_seq + Cardinality(flushed) <= MaxDatagrams
      /\ sent' = Append(sent, d)
      /\ send_seq' = send_seq + Cardinality(flushed)
      /\ send_queue' = IF immediate THEN send_queue
                       ELSE IF flushed # {} THEN <<pk>>
                       ELSE Append(send_queue, pk)
      /\ recovery_queue' = recovery_queue \cup flushed
      /\ SendDatagrams(flushed)
      /\ overran' = (overran \/ message_index > reliable_window_end)
      /\ UNCHANGED packet_to_send /\ UNCHANGED acks /\ UNCHANGED receiverVars
  BY DEF AddEncapsulated
<1>2. /\ sent \in Seq(Data) /\ send_seq \in Nat /\ send_queue \in Seq(Packets)
  BY DEF DeliveryInv, OrderInv, WindowInv, TypeOK, SenderTypeOK
<1>3. /\ Len(sent) \in Nat /\ Len(sent') = Len(sent) + 1
      /\ pk \in Packets /\ pk.index = Len(sent) /\ <<pk>> \in Seq(Packets)
  BY <1>1, <1>2, AppendProperties, LenProperties DEF Packets, message_index
<1>4. /\ flushed \subseteq Datagrams
      /\ \A e \in flushed : e.seq = send_seq
      /\ \A e, f \in flushed : e = f
  <2>1. /\ [seq |-> send_seq, packets |-> <<pk>>] \in Datagrams
        /\ [seq |-> send_seq, packets |-> send_queue] \in Datagrams
    BY <1>2, <1>3 DEF Datagrams
  <2> HIDE DEF pk
  <2> QED
    BY <2>1
<1>5. /\ flushed = {} => Cardinality(flushed) = 0
      /\ flushed # {} => Cardinality(flushed) = 1
  BY FS_EmptySet, FS_Singleton
<1>6. /\ immediate =>
           send_queue' = send_queue /\ \E e \in flushed : e.packets = <<pk>>
      /\ ~immediate /\ flushed # {} =>
           send_queue' = <<pk>> /\ \E e \in flushed : e.packets = send_queue
      /\ ~immediate /\ flushed = {} => send_queue' = Append(send_queue, pk)
  BY <1>1
<1>7. \A e \in flushed : e.packets = <<pk>> \/ e.packets = send_queue
  OBVIOUS
<1> HIDE DEF flushed, pk
<1>8. Kept' = Kept \cup flushed
  BY <1>1 DEF Kept
<1>9. send_seq <= send_seq' /\ \A e \in flushed : send_seq <= e.seq /\ e.seq < send_seq'
  BY <1>1, <1>2, <1>4, <1>5
<1>10. Numbering' /\ AckedArrived' /\ Arrived' = Arrived
  <2>1. overran => overran'
    BY <1>1
  <2>2. acks' \subseteq acks /\ send_seq' <= MaxDatagrams /\ flushed \subseteq Kept'
    BY <1>1, <1>8
  <2>3. /\ \A e, f \in flushed : e.seq = f.seq => e = f
        /\ SendDatagrams(flushed) /\ UNCHANGED receiverVars
    BY <1>1, <1>4
  <2> QED
    BY <1>4, <1>8, <1>9, <2>1, <2>2, <2>3, SenderDelivery
<1>11. AllSomewhere'
  <2> SUFFICES ASSUME ~overran', NEW m \in 0 .. (Len(sent') - 1),
                      m \notin Arrived, m \notin Indices(send_queue')
               PROVE  \E e \in Kept' : m \in Indices(e.packets)
    BY <1>10 DEF AllSomewhere
  <2>1. ~overran
    BY <1>1
  <2>2. m = pk.index \/ m \in 0 .. (Len(sent) - 1)
    BY <1>3
  <2>3. \/ m = pk.index \/ m \in Indices(send_queue)
        \/ \E e \in Kept : m \in Indices(e.packets)
    BY <2>1, <2>2 DEF DeliveryInv, AllSomewhere
  <2>4. /\ Indices(<<pk>>) = {pk.index}
        /\ Indices(Append(send_queue, pk)) = Indices(send_queue) \cup {pk.index}
    BY <1>2, <1>3, IndicesOf
  <2>5. \A e \in flushed \cup Kept : e \in Kept'
    BY <1>8
  <2>6. CASE \E e \in Kept : m \in Indices(e.packets)
    BY <2>5, <2>6
  <2>7. CASE m = pk.index \/ m \in Indices(send_queue)
    <3>1. CASE immediate
      BY <1>6, <2>4, <2>5, <2>7, <3>1
    <3>2. CASE ~immediate /\ flushed # {}
      BY <1>6, <2>4, <2>5, <2>7, <3>2
    <3>3. CASE ~immediate /\ flushed = {}
      BY <1>6, <2>4, <2>7, <3>3
    <3> QED
      BY <3>1, <3>2, <3>3
  <2> QED
    BY <2>3, <2>6, <2>7
<1>12. QED
  BY <1>10, <1>11

LEMMA SenderUpdateDelivery ==
  ASSUME NumbersSuffice, DeliveryInv, OrderInv',
         NEW overdue \in SUBSET recovery_queue, SenderUpdate(overdue)
  PROVE  Numbering' /\ AckedArrived' /\ AllSomewhere'
<1> DEFINE early    == Lowest(packet_to_send, DrainLimit)
           again    == Renumbered(overdue)
           queued   == (packet_to_send \ early) \cup again
           late     == Lowest(queued, DrainLimit)
           next_seq == send_seq + Cardinality(overdue)
           flushed  == IF send_queue = << >> THEN {}
                       ELSE {[seq |-> next_seq, packets |-> send_queue]}
           New      == again \cup flushed
<1>1. /\ next_seq + Cardinality(flushed) <= MaxDatagrams
      /\ send_seq' = next_seq + Cardinality(flushed)
      /\ send_queue' = << >>
      /\ packet_to_send' = queued \ late
      /\ recovery_queue' = (recovery_queue \ overdue) \cup early \cup late \cup flushed
      /\ SendDatagrams(early \cup late \cup flushed)
      /\ UNCHANGED <<sent, overran, acks>> /\ UNCHANGED receiverVars
  BY DEF SenderUpdate
<1>2. /\ send_seq \in Nat /\ send_queue \in Seq(Packets)
      /\ recovery_queue \subseteq Datagrams /\ IsFiniteSet(recovery_queue)
      /\ sent \in Seq(Data)
  BY DEF DeliveryInv, OrderInv, WindowInv, TypeOK, SenderTypeOK, Finite
<1>3. /\ overdue \subseteq Datagrams /\ IsFiniteSet(overdue)
      /\ \A d, e \in overdue : d.seq = e.seq => d = e
  BY <1>2, FS_Subset DEF DeliveryInv, Numbering, KeptApart, Kept
<1>4. /\ again \subseteq Datagrams /\ Cardinality(overdue) \in Nat
      /\ \A r \in again : send_seq <= r.seq /\ r.seq < next_seq
      /\ \A r, q \in again : r.seq = q.seq => r = q
      /\ \A d \in overdue : \E r \in again : r.packets = d.packets
  BY <1>2, <1>3, RenumberedType, RenumberedApart
<1>5. /\ flushed \subseteq Datagrams
      /\ \A e \in flushed : e.seq = next_seq
      /\ \A e, f \in flushed : e = f
      /\ send_queue # << >> => \E e \in flushed : e.packets = send_queue
  <2>1. [seq |-> next_seq, packets |-> send_queue] \in Datagrams
    BY <1>2, <1>4 DEF Datagrams
  <2> QED
    BY <2>1
<1>6. /\ flushed = {} => Cardinality(flushed) = 0
      /\ flushed # {} => Cardinality(flushed) = 1
  BY FS_EmptySet, FS_Singleton
<1>7. early \subseteq packet_to_send /\ late \subseteq queued
  BY LowestSubset
<1>8. next_seq \in Nat /\ send_seq <= next_seq
  BY <1>2, <1>4
<1> HIDE DEF early, late, flushed, again, next_seq
<1>9. Kept' = (packet_to_send \cup (recovery_queue \ overdue)) \cup New
  BY <1>1, <1>7 DEF Kept
<1>10. /\ New \subseteq Datagrams /\ Kept' \subseteq Kept \cup New
       /\ (early \cup late \cup flushed) \subseteq Kept'
  BY <1>4, <1>5, <1>7, <1>9 DEF Kept
<1>11. send_seq <= send_seq' /\ send_seq' <= MaxDatagrams
  BY <1>1, <1>2, <1>6, <1>8
<1>12. \A d \in New : send_seq <= d.seq /\ d.seq < send_seq'
  <2>1. ASSUME NEW d \in again PROVE send_seq <= d.seq /\ d.seq < send_seq'
    <3>1. d.seq \in Nat /\ next_seq <= send_seq' /\ send_seq' \in Nat
      BY <1>1, <1>4, <1>6, <1>8 DEF Datagrams
    <3> QED
      BY <1>2, <1>4, <1>8, <3>1
  <2>2. ASSUME NEW d \in flushed PROVE send_seq <= d.seq /\ d.seq < send_seq'
    BY <1>1, <1>2, <1>5, <1>6, <1>8
  <2> QED
    BY <2>1, <2>2
<1>13. \A d, e \in New : d.seq = e.seq => d = e
  <2>1. \A d \in again, e \in flushed : d.seq # e.seq
    BY <1>4, <1>5, <1>8 DEF Datagrams
  <2> QED
    BY <1>4, <1>5, <2>1
<1> HIDE DEF New
<1>14. Numbering' /\ AckedArrived' /\ Arrived' = Arrived
  BY <1>1, <1>10, <1>11, <1>12, <1>13, SenderDelivery
<1>15. AllSomewhere'
  <2> SUFFICES ASSUME ~overran, NEW m \in 0 .. (Len(sent) - 1), m \notin Arrived
               PROVE  \E e \in Kept' : m \in Indices(e.packets)
    BY <1>1, <1>14 DEF AllSomewhere
  <2>1. \/ m \in Indices(send_queue)
        \/ \E e \in Kept : m \in Indices(e.packets)
    BY DEF DeliveryInv, AllSomewhere
  <2>2. CASE m \in Indices(send_queue)
    <3>1. send_queue # << >>
      BY <2>2 DEF Indices
    <3> QED
      BY <1>5, <1>9, <2>2, <3>1 DEF New
  <2>3. ASSUME NEW e \in Kept, m \in Indices(e.packets)
        PROVE  \E r \in Kept' : m \in Indices(r.packets)
    <3>1. CASE e \in overdue
      BY <1>4, <1>9, <2>3, <3>1 DEF New
    <3>2. CASE e \notin overdue
      BY <1>9, <2>3, <3>2 DEF Kept
    <3> QED
      BY <3>1, <3>2
  <2> QED
    BY <2>1, <2>2, <2>3
<1>16. QED
  BY <1>14, <1>15

\* What an acknowledgement strikes out has arrived.
LEMMA HandleAckDelivery ==
  ASSUME NumbersSuffice, DeliveryInv, OrderInv', NEW a \in acks, HandleAck(a),
         acks' \subseteq acks
  PROVE  Numbering' /\ AckedArrived' /\ AllSomewhere'
<1>1. /\ a.id = "ACK"
      /\ recovery_queue' = {d \in recovery_queue : d.seq \notin a.seqs}
      /\ UNCHANGED <<sent, send_seq, send_queue, packet_to_send, overran, datagrams>>
      /\ UNCHANGED receiverVars
  BY DEF HandleAck
<1>2. Kept' \subseteq Kept
  BY <1>1 DEF Kept
<1>3. SendDatagrams({})
  BY <1>1 DEF SendDatagrams
<1>4. send_seq \in Nat /\ send_seq <= MaxDatagrams
  BY DEF DeliveryInv, OrderInv, WindowInv, TypeOK, SenderTypeOK, Numbering, NumbersGiven
<1>5. Numbering' /\ AckedArrived' /\ Arrived' = Arrived
  BY <1>1, <1>2, <1>3, <1>4, SenderDelivery
<1>6. AllSomewhere'
  <2> SUFFICES ASSUME ~overran, NEW m \in 0 .. (Len(sent) - 1), m \notin Arrived,
                      m \notin Indices(send_queue)
               PROVE  \E e \in Kept' : m \in Indices(e.packets)
    BY <1>1, <1>5 DEF AllSomewhere
  <2>1. PICK e \in Kept : m \in Indices(e.packets)
    BY DEF DeliveryInv, AllSomewhere
  <2>2. e.seq \notin a.seqs
    <3> SUFFICES ASSUME e.seq \in a.seqs PROVE FALSE
      OBVIOUS
    <3>1. e.seq \in Acknowledged
      BY <1>1 DEF Acknowledged
    <3> QED
      BY <2>1, <3>1 DEF DeliveryInv, AckedArrived
  <2>3. e \in Kept'
    BY <1>1, <2>2 DEF Kept
  <2> QED
    BY <2>1, <2>3
<1>7. QED
  BY <1>5, <1>6

LEMMA HandleNackDelivery ==
  ASSUME NumbersSuffice, DeliveryInv, OrderInv', NEW a \in acks, HandleNack(a),
         acks' \subseteq acks
  PROVE  Numbering' /\ AckedArrived' /\ AllSomewhere'
<1> DEFINE missing == {d \in recovery_queue : d.seq \in a.seqs}
           again   == Renumbered(missing)
<1>1. /\ send_seq + Cardinality(missing) <= MaxDatagrams
      /\ send_seq' = send_seq + Cardinality(missing)
      /\ recovery_queue' = (recovery_queue \ missing) \cup again
      /\ SendDatagrams(again)
      /\ UNCHANGED <<sent, send_queue, packet_to_send, overran>>
      /\ UNCHANGED receiverVars
  BY DEF HandleNack
<1>2. missing \subseteq recovery_queue
  OBVIOUS
<1> HIDE DEF missing
<1>3. /\ send_seq \in Nat
      /\ recovery_queue \subseteq Datagrams /\ IsFiniteSet(recovery_queue)
  BY DEF DeliveryInv, OrderInv, WindowInv, TypeOK, SenderTypeOK, Finite
<1>4. /\ missing \subseteq Datagrams /\ IsFiniteSet(missing)
      /\ \A d, e \in missing : d.seq = e.seq => d = e
  BY <1>2, <1>3, FS_Subset DEF DeliveryInv, Numbering, KeptApart, Kept
<1>5. /\ again \subseteq Datagrams /\ Cardinality(missing) \in Nat
      /\ \A r \in again : send_seq <= r.seq /\ r.seq < send_seq + Cardinality(missing)
      /\ \A r, q \in again : r.seq = q.seq => r = q
      /\ \A d \in missing : \E r \in again : r.packets = d.packets
  BY <1>3, <1>4, RenumberedType, RenumberedApart
<1> HIDE DEF again
<1>6. Kept' = packet_to_send \cup (recovery_queue \ missing) \cup again
  BY <1>1 DEF Kept
<1>7. /\ Kept' \subseteq Kept \cup again /\ again \subseteq Kept'
      /\ send_seq <= send_seq' /\ send_seq' <= MaxDatagrams
      /\ \A r \in again : send_seq <= r.seq /\ r.seq < send_seq'
  BY <1>1, <1>3, <1>5, <1>6 DEF Kept
<1>8. Numbering' /\ AckedArrived' /\ Arrived' = Arrived
  BY <1>1, <1>5, <1>7, SenderDelivery
<1>9. AllSomewhere'
  <2> SUFFICES ASSUME ~overran, NEW m \in 0 .. (Len(sent) - 1), m \notin Arrived,
                      m \notin Indices(send_queue)
               PROVE  \E e \in Kept' : m \in Indices(e.packets)
    BY <1>1, <1>8 DEF AllSomewhere
  <2>1. PICK e \in Kept : m \in Indices(e.packets)
    BY DEF DeliveryInv, AllSomewhere
  <2>2. CASE e \in missing
    BY <1>5, <1>6, <2>1, <2>2
  <2>3. CASE e \notin missing
    BY <1>6, <2>1, <2>3 DEF Kept
  <2> QED
    BY <2>2, <2>3
<1>10. QED
  BY <1>8, <1>9

\* A step that leaves the sender alone, queues no acknowledgement, puts
\* nothing on the wire and takes nothing out of what arrived.
LEMMA ReceivingDelivery ==
  ASSUME DeliveryInv, UNCHANGED senderVars, datagrams' \subseteq datagrams,
         Acknowledged' \subseteq Acknowledged,
         ~overran => Arrived \subseteq Arrived'
  PROVE  Numbering' /\ AckedArrived' /\ AllSomewhere'
<1>1. /\ UNCHANGED <<sent, send_seq, send_queue, overran>> /\ Kept' = Kept
  BY DEF senderVars, Kept
<1>2. Numbering'
  BY <1>1 DEF DeliveryInv, Numbering, NumbersGiven, KeptApart, WireIsCopy
<1>3. AckedArrived'
  <2> SUFFICES ASSUME ~overran, NEW s \in Acknowledged', NEW d \in Kept, d.seq = s
               PROVE  Indices(d.packets) \subseteq Arrived'
    BY <1>1 DEF AckedArrived
  <2> QED
    BY DEF DeliveryInv, AckedArrived
<1>4. AllSomewhere'
  <2> SUFFICES ASSUME ~overran, NEW m \in 0 .. (Len(sent) - 1), m \notin Arrived',
                      m \notin Indices(send_queue)
               PROVE  \E e \in Kept : m \in Indices(e.packets)
    BY <1>1 DEF AllSomewhere
  <2>1. m \notin Arrived
    OBVIOUS
  <2> QED
    BY <2>1 DEF DeliveryInv, AllSomewhere
<1>5. QED
  BY <1>2, <1>3, <1>4

\* A datagram accepted is queued to be acknowledged, and its packets, which
\* are those of the datagram the sender keeps, are in inbox.
LEMMA ArriveDatagramDelivery ==
  ASSUME DeliveryInv, NEW w \in datagrams, HandleDatagram(w), datagrams' \subseteq datagrams
  PROVE  Numbering' /\ AckedArrived' /\ AllSomewhere'
<1>1. inbox = << >> /\ UNCHANGED senderVars /\ UNCHANGED acks
  BY DEF HandleDatagram
<1>2. CASE UNCHANGED receiverVars
  <2>1. Acknowledged' = Acknowledged /\ Arrived' = Arrived
    BY <1>1, <1>2 DEF Acknowledged, Arrived, receiverVars, reliableVars
  <2> QED
    BY <1>1, <2>1, ReceivingDelivery
<1>3. CASE ~UNCHANGED receiverVars
  <2>1. /\ ack_queue' = ack_queue \cup {w.seq} /\ inbox' = w.packets
        /\ UNCHANGED reliableVars
    BY <1>3 DEF HandleDatagram
  <2>2. Arrived' = (0 .. (Len(delivered) - 1)) \cup DOMAIN reliable_window
                     \cup Indices(w.packets)
    BY <2>1 DEF Arrived, reliableVars
  <2>3. Indices(inbox) = {}
    BY <1>1 DEF Indices
  <2>4. Arrived \subseteq Arrived'
    BY <2>2, <2>3 DEF Arrived
  <2>5. Acknowledged' = Acknowledged \cup {w.seq}
    BY <1>1, <2>1 DEF Acknowledged
  <2>6. /\ UNCHANGED <<sent, send_seq, send_queue, overran>> /\ Kept' = Kept
    BY <1>1 DEF senderVars, Kept
  <2>7. Numbering'
    BY <2>5, <2>6 DEF DeliveryInv, Numbering, NumbersGiven, KeptApart, WireIsCopy
  <2>8. AckedArrived'
    <3> SUFFICES ASSUME ~overran, NEW s \in Acknowledged', NEW d \in Kept, d.seq = s
                 PROVE  Indices(d.packets) \subseteq Arrived'
      BY <2>6 DEF AckedArrived
    <3>1. CASE s = w.seq
      <4>1. w.packets = d.packets
        BY <3>1 DEF DeliveryInv, Numbering, WireIsCopy
      <4> QED
        BY <2>2, <4>1
    <3>2. CASE s \in Acknowledged
      <4>1. Indices(d.packets) \subseteq Arrived
        BY <3>2 DEF DeliveryInv, AckedArrived
      <4> QED
        BY <2>4, <4>1
    <3> QED
      BY <2>5, <3>1, <3>2
  <2>9. AllSomewhere'
    <3> SUFFICES ASSUME ~overran, NEW m \in 0 .. (Len(sent) - 1), m \notin Arrived',
                        m \notin Indices(send_queue)
                 PROVE  \E e \in Kept : m \in Indices(e.packets)
      BY <2>6 DEF AllSomewhere
    <3>1. m \notin Arrived
      BY <2>4
    <3> QED
      BY <3>1 DEF DeliveryInv, AllSomewhere
  <2> QED
    BY <2>7, <2>8, <2>9
<1>4. QED
  BY <1>2, <1>3

\* A packet taken out of inbox was routed before, is routed, or waits: a sender
\* that stays within the window sends nothing beyond it.
LEMMA HandleEncapsulatedDelivery ==
  ASSUME NumbersSuffice, DeliveryInv, HandleEncapsulated
  PROVE  Numbering' /\ AckedArrived' /\ AllSomewhere'
<1> DEFINE pk == Head(inbox)
<1>1. /\ UNCHANGED senderVars /\ UNCHANGED datagrams /\ Acknowledged' = Acknowledged
  BY DEF HandleEncapsulated, networkVars, Acknowledged
<1>2. OrderInv /\ WindowInv /\ WindowsInStep /\ ReceiverTypeOK
  BY DEF DeliveryInv, OrderInv, WindowInv, TypeOK
<1>3. /\ inbox \in Seq(Packets) /\ inbox # << >> /\ inbox' = Tail(inbox)
      /\ \/ ~InReliableWindow(pk.index) /\ UNCHANGED reliableVars
         \/ InReliableWindow(pk.index) /\ IsNext(pk.index) /\ RouteFrom(pk)
         \/ InReliableWindow(pk.index) /\ ~IsNext(pk.index) /\ Store(pk)
  BY <1>2 DEF HandleEncapsulated, ReceiverTypeOK
<1>4. /\ pk = inbox[1] /\ Len(inbox) >= 1 /\ Len(inbox) \in Nat /\ pk \in Packets
      /\ Len(Tail(inbox)) = Len(inbox) - 1
      /\ \A i \in 1 .. Len(Tail(inbox)) : Tail(inbox)[i] = inbox[i + 1]
  BY <1>3, HeadTailProperties, LenProperties, EmptySeq
<1>5. Echo(sent, pk) /\ pk.index \in Nat
  BY <1>2, <1>4 DEF OrderInv, WireHolds, AllEchoes, Packets
<1> HIDE DEF pk
<1>6. Indices(inbox) \subseteq Indices(inbox') \cup {pk.index}
  <2> SUFFICES ASSUME NEW i \in 1 .. Len(inbox), i # 1
               PROVE  inbox[i].index \in Indices(inbox')
    BY <1>4 DEF Indices
  <2>1. i - 1 \in 1 .. Len(Tail(inbox)) /\ Tail(inbox)[i - 1] = inbox[i]
    BY <1>4
  <2> QED
    BY <1>3, <2>1 DEF Indices
<1>7. /\ reliable_window_start \in Nat /\ reliable_window_end \in Nat
      /\ Len(delivered) = reliable_window_start
      /\ last_reliable_index + 1 = reliable_window_start /\ last_reliable_index \in Int
  BY <1>2 DEF WindowsInStep, ReceiverTypeOK
<1>8. ASSUME ~overran PROVE pk.index <= reliable_window_end
  <2>1. PICK m \in 0 .. (Len(sent) - 1) : pk.index = LTriad(m)
    BY <1>5 DEF Echo
  <2>2. Len(sent) \in Nat /\ Len(sent) <= reliable_window_end + 1
    BY <1>2, <1>8, LenProperties
       DEF OrderInv, NotAhead, WindowInv, TypeOK, SenderTypeOK
  <2>3. TriadMod > 0 /\ TriadMod \in Nat
    OBVIOUS
  <2>4. pk.index = m \/ pk.index <= m - TriadMod
    BY <2>1, <2>2, <2>3, ModuloTurns DEF LTriad
  <2> QED
    BY <1>5, <1>7, <2>2, <2>3, <2>4
<1>9. ASSUME ~overran PROVE Arrived \subseteq Arrived'
  <2> SUFFICES /\ 0 .. (Len(delivered) - 1) \subseteq Arrived'
               /\ DOMAIN reliable_window \subseteq Arrived'
               /\ pk.index \in Arrived'
    BY <1>6 DEF Arrived
  <2>1. CASE ~InReliableWindow(pk.index) /\ UNCHANGED reliableVars
    <3>1. pk.index \in 0 .. (Len(delivered) - 1)
      BY <1>5, <1>7, <1>8, <1>9, <2>1 DEF InReliableWindow
    <3> QED
      BY <2>1, <3>1 DEF Arrived, reliableVars
  <2>2. CASE InReliableWindow(pk.index) /\ IsNext(pk.index) /\ RouteFrom(pk)
    <3> DEFINE idx == pk.index
               end == DrainEnd(idx)
    <3>1. idx \in Nat /\ idx = reliable_window_start
      BY <1>5, <1>7, <2>2 DEF IsNext
    <3>2. end \in (idx + 1) .. (idx + kWindowSize + 1)
      BY <1>2, <3>1, DrainEndFacts
    <3>3. Run(pk) \in Seq(Data) /\ Len(Run(pk)) = end - idx
      BY <1>2, <1>4, <3>1, RunFacts
    <3>4. /\ delivered' = delivered \o Run(pk)
          /\ DOMAIN reliable_window' = DOMAIN reliable_window \ (idx .. (end - 1))
      BY <2>2 DEF RouteFrom, Run, Restrict
    <3> HIDE DEF end, idx
    <3>5. Len(delivered') = end /\ end \in Nat /\ end > idx
      <4>1. Len(delivered') = Len(delivered) + (end - idx)
        BY <1>2, <3>3, <3>4, ConcatProperties DEF ReceiverTypeOK
      <4> QED
        BY <1>7, <3>1, <3>2, <4>1
    <3>6. 0 .. (end - 1) \subseteq Arrived'
      BY <3>5 DEF Arrived
    <3>7. idx .. (end - 1) \subseteq 0 .. (end - 1) /\ idx \in 0 .. (end - 1)
          /\ 0 .. (idx - 1) \subseteq 0 .. (end - 1)
      BY <3>1, <3>5
    <3>8. DOMAIN reliable_window \subseteq (0 .. (end - 1)) \cup DOMAIN reliable_window'
      BY <3>4, <3>7
    <3> QED
      BY <1>7, <3>1, <3>6, <3>7, <3>8 DEF Arrived, idx
  <2>3. CASE InReliableWindow(pk.index) /\ ~IsNext(pk.index) /\ Store(pk)
    <3>1. /\ DOMAIN reliable_window' = DOMAIN reliable_window \cup {pk.index}
          /\ UNCHANGED delivered
      BY <2>3 DEF Store
    <3> QED
      BY <3>1 DEF Arrived
  <2> QED
    BY <1>3, <2>1, <2>2, <2>3
<1>10. QED
  BY <1>1, <1>9, ReceivingDelivery

\* An acknowledgement names no number that was not queued.
LEMMA FlushQueuesDelivery ==
  ASSUME DeliveryInv, FlushQueues
  PROVE  Numbering' /\ AckedArrived' /\ AllSomewhere'
<1>1. /\ UNCHANGED senderVars /\ UNCHANGED datagrams /\ ack_queue' = {}
      /\ UNCHANGED reliableVars /\ UNCHANGED inbox
      /\ \A a \in acks' : a \in acks \/ a = [id |-> "ACK", seqs |-> Received(ack_queue)]
                            \/ a = [id |-> "NACK", seqs |-> Received(nack_queue)]
  BY DEF FlushQueues
<1>2. Received(ack_queue) \subseteq ack_queue
  BY ReceivedSubset
<1>3. Acknowledged' \subseteq Acknowledged
  <2> SUFFICES ASSUME NEW a \in acks', a.id = "ACK", NEW s \in a.seqs
               PROVE  s \in Acknowledged
    BY <1>1 DEF Acknowledged
  <2>1. CASE a \in acks
    BY <2>1 DEF Acknowledged
  <2>2. CASE a = [id |-> "ACK", seqs |-> Received(ack_queue)]
    BY <1>2, <2>2 DEF Acknowledged
  <2>3. CASE a = [id |-> "NACK", seqs |-> Received(nack_queue)]
    BY <2>3
  <2> QED
    BY <1>1, <2>1, <2>2, <2>3
<1>4. Arrived' = Arrived
  BY <1>1 DEF Arrived, reliableVars
<1>5. QED
  BY <1>1, <1>3, <1>4, ReceivingDelivery

LEMMA DeliveryInit == Init => DeliveryInv
<1> SUFFICES ASSUME Init PROVE DeliveryInv
  OBVIOUS
<1>1. OrderInv
  BY OrderInit
<1>2. Kept = {} /\ Acknowledged = {} /\ datagrams = {}
  BY DEF Init, Kept, Acknowledged
<1>3. send_seq <= MaxDatagrams /\ sent = << >>
  BY DEF Init
<1>4. Numbering
  BY <1>2, <1>3 DEF Numbering, NumbersGiven, KeptApart, WireIsCopy
<1>5. AckedArrived
  BY <1>2 DEF AckedArrived
<1>6. 0 .. (Len(sent) - 1) = {}
  BY <1>3
<1>7. QED
  BY <1>1, <1>4, <1>5, <1>6 DEF DeliveryInv, AllSomewhere

LEMMA DeliveryStep ==
  ASSUME NumbersSuffice, DeliveryInv, [Next]_vars
  PROVE  DeliveryInv'
<1>1. OrderInv'
  BY OrderStep DEF DeliveryInv
<1> SUFFICES Numbering' /\ AckedArrived' /\ AllSomewhere'
  BY <1>1 DEF DeliveryInv
<1>2. ASSUME NEW d \in Data, NEW immediate \in BOOLEAN, AddEncapsulated(d, immediate)
      PROVE  Numbering' /\ AckedArrived' /\ AllSomewhere'
  BY <1>1, <1>2, AddEncapsulatedDelivery
<1>3. ASSUME NEW overdue \in SUBSET recovery_queue, SenderUpdate(overdue)
      PROVE  Numbering' /\ AckedArrived' /\ AllSomewhere'
  BY <1>1, <1>3, SenderUpdateDelivery
<1>4. ASSUME NEW d \in datagrams, ArriveDatagram(d)
      PROVE  Numbering' /\ AckedArrived' /\ AllSomewhere'
  BY <1>4, ArriveDatagramDelivery DEF ArriveDatagram
<1>5. CASE HandleEncapsulated
  BY <1>5, HandleEncapsulatedDelivery
<1>6. CASE FlushAcks \/ ReceiverUpdate
  BY <1>6, FlushQueuesDelivery DEF FlushAcks, ReceiverUpdate
<1>7. ASSUME NEW a \in acks, ArriveAck(a)
      PROVE  Numbering' /\ AckedArrived' /\ AllSomewhere'
  <2>1. acks' \subseteq acks /\ (HandleAck(a) \/ HandleNack(a))
    BY <1>7 DEF ArriveAck
  <2> QED
    BY <1>1, <2>1, HandleAckDelivery, HandleNackDelivery
<1>8. CASE \/ \E d \in datagrams : LoseDatagram(d)
           \/ \E a \in acks : LoseAck(a)
           \/ UNCHANGED vars
  <2>1. /\ UNCHANGED senderVars /\ UNCHANGED receiverVars
        /\ datagrams' \subseteq datagrams /\ acks' \subseteq acks
    BY <1>8 DEF LoseDatagram, LoseAck, vars, networkVars
  <2>2. Acknowledged' \subseteq Acknowledged /\ Arrived' = Arrived
    BY <2>1 DEF Acknowledged, Arrived, receiverVars, reliableVars
  <2> QED
    BY <2>1, <2>2, ReceivingDelivery
<1>9. QED
  BY <1>2, <1>3, <1>4, <1>5, <1>6, <1>7, <1>8 DEF Next, Other

\* What the sender no longer keeps the receiver has taken in, for every window
\* width, every limit of ACK packets and every behaviour of the network, as
\* long as neither datagram numbers nor message indices wrap around.
THEOREM NothingStranded ==
  ASSUME MaxDatagrams <= TriadMod, MaxMessages <= TriadMod
  PROVE  Spec => []NoMessageStranded
<1>1. NumbersSuffice
  BY DEF NumbersSuffice
<1>2. DeliveryInv => NoMessageStranded
  <2> SUFFICES ASSUME DeliveryInv, ~overran,
                      NEW m \in Len(delivered) .. (message_index - 1)
               PROVE  m \in Held
    BY DEF NoMessageStranded
  <2>1. Len(delivered) \in Nat /\ Len(sent) \in Nat
    BY LenProperties
       DEF DeliveryInv, OrderInv, WindowInv, TypeOK, ReceiverTypeOK, SenderTypeOK
  <2>2. m \in 0 .. (Len(sent) - 1) /\ m \notin 0 .. (Len(delivered) - 1)
    BY <2>1 DEF message_index
  <2>3. \/ m \in Arrived \/ m \in Indices(send_queue)
        \/ \E e \in Kept : m \in Indices(e.packets)
    BY <2>2 DEF DeliveryInv, AllSomewhere
  <2> QED
    BY <2>2, <2>3 DEF Arrived, Kept, Held
<1>3. DeliveryInv /\ [Next]_vars => DeliveryInv'
  BY <1>1, DeliveryStep
<1>4. QED
  BY <1>2, <1>3, DeliveryInit, PTL DEF Spec

(***************************************************************************)
(* Outrun for good.  Datagrams that wait to be sent again have numbers that*)
(* were given, and what is given a number is given the next one.           *)
(***************************************************************************)
SentNumbers ==
  /\ send_seq <= MaxDatagrams
  /\ \A d \in packet_to_send : d.seq < send_seq

\* update() of the sender puts on the wire, or keeps waiting, what waited and
\* what it numbers.
LEMMA SenderUpdateNumbers ==
  ASSUME WindowInv, SentNumbers, NEW overdue \in SUBSET recovery_queue, SenderUpdate(overdue)
  PROVE  \E D \in SUBSET Datagrams :
           /\ SendDatagrams(D) /\ UNCHANGED receiverVars
           /\ send_seq <= send_seq' /\ send_seq' <= MaxDatagrams
           /\ \A d \in D \cup packet_to_send' :
                (d \in packet_to_send \/ send_seq <= d.seq) /\ d.seq < send_seq'
<1> DEFINE early    == Lowest(packet_to_send, DrainLimit)
           again    == Renumbered(overdue)
           queued   == (packet_to_send \ early) \cup again
           late     == Lowest(queued, DrainLimit)
           next_seq == send_seq + Cardinality(overdue)
           flushed  == IF send_queue = << >> THEN {}
                       ELSE {[seq |-> next_seq, packets |-> send_queue]}
           D        == early \cup late \cup flushed
<1>1. /\ next_seq + Cardinality(flushed) <= MaxDatagrams
      /\ send_seq' = next_seq + Cardinality(flushed)
      /\ packet_to_send' = queued \ late
      /\ SendDatagrams(D)
      /\ UNCHANGED receiverVars
  BY DEF SenderUpdate
<1>2. /\ send_seq \in Nat /\ send_queue \in Seq(Packets)
      /\ packet_to_send \subseteq Datagrams
      /\ overdue \subseteq Datagrams /\ IsFiniteSet(overdue)
  BY FS_Subset DEF WindowInv, TypeOK, SenderTypeOK, Finite
<1>3. /\ again \subseteq Datagrams /\ Cardinality(overdue) \in Nat
      /\ \A r \in again : send_seq <= r.seq /\ r.seq < next_seq
  BY <1>2, RenumberedType, RenumberedApart
<1>4. next_seq \in Nat /\ send_seq <= next_seq
  BY <1>2, <1>3
<1>5. /\ flushed \subseteq Datagrams
      /\ \A e \in flushed : e.seq = next_seq
  BY <1>2, <1>4 DEF Datagrams
<1>6. /\ flushed = {} => Cardinality(flushed) = 0
      /\ flushed # {} => Cardinality(flushed) = 1
  BY FS_EmptySet, FS_Singleton
<1>7. early \subseteq packet_to_send /\ late \subseteq queued
  BY LowestSubset
<1> HIDE DEF early, late, flushed, again, next_seq
<1>8. /\ D \in SUBSET Datagrams /\ packet_to_send' \subseteq Datagrams
      /\ \A d \in D \cup packet_to_send' : d \in packet_to_send \cup again \cup flushed
  BY <1>1, <1>2, <1>3, <1>5, <1>7
<1> HIDE DEF D
<1>9. send_seq' \in Nat /\ next_seq <= send_seq' /\ (flushed # {} => next_seq < send_seq')
  BY <1>1, <1>4, <1>6
<1>10. ASSUME NEW d \in D \cup packet_to_send'
       PROVE  (d \in packet_to_send \/ send_seq <= d.seq) /\ d.seq < send_seq'
  <2>1. d.seq \in Nat
    BY <1>8 DEF Datagrams
  <2>2. CASE d \in packet_to_send
    BY <1>2, <1>4, <1>9, <2>1, <2>2 DEF SentNumbers
  <2>3. CASE d \in again
    BY <1>2, <1>3, <1>4, <1>9, <2>1, <2>3
  <2>4. CASE d \in flushed
    BY <1>2, <1>4, <1>5, <1>9, <2>4
  <2> QED
    BY <1>8, <2>2, <2>3, <2>4
<1>11. send_seq <= send_seq' /\ send_seq' <= MaxDatagrams
  BY <1>1, <1>2, <1>4, <1>9
<1>12. QED
  BY <1>1, <1>8, <1>10, <1>11

\* The other steps of the sender number only what they put on the wire.
LEMMA OtherSenderNumbers ==
  ASSUME WindowInv, SentNumbers,
         \/ \E d \in Data, immediate \in BOOLEAN : AddEncapsulated(d, immediate)
         \/ \E a \in acks : HandleNack(a)
  PROVE  \E D \in SUBSET Datagrams :
           /\ SendDatagrams(D) /\ UNCHANGED receiverVars
           /\ send_seq <= send_seq' /\ send_seq' <= MaxDatagrams /\ send_seq' \in Nat
           /\ UNCHANGED packet_to_send
           /\ \A d \in D : send_seq <= d.seq /\ d.seq < send_seq'
<1>1. /\ send_seq \in Nat /\ send_queue \in Seq(Packets) /\ sent \in Seq(Data)
      /\ recovery_queue \subseteq Datagrams /\ IsFiniteSet(recovery_queue)
  BY DEF WindowInv, TypeOK, SenderTypeOK, Finite
<1>2. ASSUME NEW d \in Data, NEW immediate \in BOOLEAN, AddEncapsulated(d, immediate)
      PROVE  \E D \in SUBSET Datagrams :
               /\ SendDatagrams(D) /\ UNCHANGED receiverVars
               /\ send_seq <= send_seq' /\ send_seq' <= MaxDatagrams /\ send_seq' \in Nat
               /\ UNCHANGED packet_to_send
               /\ \A e \in D : send_seq <= e.seq /\ e.seq < send_seq'
  <2> DEFINE pk == [index |-> message_index, data |-> d]
             flushed == IF immediate
                        THEN {[seq |-> send_seq, packets |-> <<pk>>]}
                        ELSE IF Len(send_queue) = MtuPackets
                             THEN {[seq |-> send_seq, packets |-> send_queue]}
                             ELSE {}
  <2>1. /\ send_seq + Cardinality(flushed) <= MaxDatagrams
        /\ send_seq' = send_seq + Cardinality(flushed)
        /\ SendDatagrams(flushed)
        /\ UNCHANGED packet_to_send /\ UNCHANGED receiverVars
    BY <1>2 DEF AddEncapsulated
  <2>2. <<pk>> \in Seq(Packets)
    BY <1>1, LenProperties DEF Packets, message_index
  <2>3. /\ flushed \subseteq Datagrams
        /\ \A e \in flushed : e.seq = send_seq
    <3>1. /\ [seq |-> send_seq, packets |-> <<pk>>] \in Datagrams
          /\ [seq |-> send_seq, packets |-> send_queue] \in Datagrams
      BY <1>1, <2>2 DEF Datagrams
    <3> HIDE DEF pk
    <3> QED
      BY <3>1
  <2>4. /\ flushed = {} => Cardinality(flushed) = 0
        /\ flushed # {} => Cardinality(flushed) = 1
    BY FS_EmptySet, FS_Singleton
  <2> HIDE DEF flushed
  <2>5. /\ send_seq <= send_seq' /\ send_seq' <= MaxDatagrams /\ send_seq' \in Nat
        /\ \A e \in flushed : send_seq <= e.seq /\ e.seq < send_seq'
    BY <1>1, <2>1, <2>3, <2>4
  <2> QED
    BY <2>1, <2>3, <2>5
<1>3. ASSUME NEW a \in acks, HandleNack(a)
      PROVE  \E D \in SUBSET Datagrams :
               /\ SendDatagrams(D) /\ UNCHANGED receiverVars
               /\ send_seq <= send_seq' /\ send_seq' <= MaxDatagrams /\ send_seq' \in Nat
               /\ UNCHANGED packet_to_send
               /\ \A e \in D : send_seq <= e.seq /\ e.seq < send_seq'
  <2> DEFINE missing == {d \in recovery_queue : d.seq \in a.seqs}
  <2>1. /\ send_seq + Cardinality(missing) <= MaxDatagrams
        /\ send_seq' = send_seq + Cardinality(missing)
        /\ SendDatagrams(Renumbered(missing))
        /\ UNCHANGED packet_to_send /\ UNCHANGED receiverVars
    BY <1>3 DEF HandleNack
  <2>2. missing \subseteq Datagrams /\ IsFiniteSet(missing)
    BY <1>1, FS_Subset
  <2> HIDE DEF missing
  <2>3. /\ Renumbered(missing) \subseteq Datagrams /\ Cardinality(missing) \in Nat
        /\ \A r \in Renumbered(missing) :
             send_seq <= r.seq /\ r.seq < send_seq + Cardinality(missing)
    BY <1>1, <2>2, RenumberedType, RenumberedApart
  <2>4. /\ send_seq <= send_seq' /\ send_seq' <= MaxDatagrams /\ send_seq' \in Nat
        /\ \A e \in Renumbered(missing) : send_seq <= e.seq /\ e.seq < send_seq'
    BY <1>1, <2>1, <2>3
  <2> QED
    BY <2>1, <2>3, <2>4
<1>4. QED
  BY <1>2, <1>3

\* The steps that send nothing leave the numbers and what waits alone.
LEMMA NothingSent ==
  ASSUME [Next]_vars,
         ~ \E overdue \in SUBSET recovery_queue : SenderUpdate(overdue),
         ~ \E d \in Data, immediate \in BOOLEAN : AddEncapsulated(d, immediate),
         ~ \E a \in acks : HandleNack(a)
  PROVE  /\ UNCHANGED <<send_seq, packet_to_send>> /\ datagrams' \subseteq datagrams
         /\ \/ window_end' = window_end
            \/ \E d \in datagrams : HandleDatagram(d) /\ ~UNCHANGED receiverVars
BY DEF Next, Other, HandleEncapsulated, FlushAcks, ReceiverUpdate, FlushQueues,
       ArriveDatagram, HandleDatagram, ArriveAck, HandleAck, LoseDatagram, LoseAck,
       senderVars, networkVars, receiverVars, windowVars, vars

LEMMA SentNumbersStep ==
  WindowInv /\ SentNumbers /\ [Next]_vars => SentNumbers'
<1> SUFFICES ASSUME WindowInv, SentNumbers, [Next]_vars PROVE SentNumbers'
  OBVIOUS
<1>1. send_seq \in Nat /\ \A d \in packet_to_send : d.seq \in Nat
  BY DEF WindowInv, TypeOK, SenderTypeOK, Datagrams
<1>2. ASSUME NEW overdue \in SUBSET recovery_queue, SenderUpdate(overdue) PROVE SentNumbers'
  BY <1>2, SenderUpdateNumbers DEF SentNumbers
<1>3. CASE \/ \E d \in Data, immediate \in BOOLEAN : AddEncapsulated(d, immediate)
           \/ \E a \in acks : HandleNack(a)
  BY <1>1, <1>3, OtherSenderNumbers DEF SentNumbers
<1>4. CASE UNCHANGED <<send_seq, packet_to_send>>
  BY <1>4 DEF SentNumbers
<1>5. QED
  BY <1>2, <1>3, <1>4, NothingSent

\* Once every number within the receiver's datagram window is lost or refused,
\* no later datagram is ever accepted: what waits or is sent has a number above
\* the window, and the window moves only when a datagram is accepted.
THEOREM OutrunForGood ==
  ASSUME MaxDatagrams <= TriadMod
  PROVE  Spec => OutrunIsForGood
<1>1. Init => SentNumbers
  BY DEF Init, SentNumbers
<1>2. WindowInv /\ SentNumbers /\ [Next]_vars => [Outrun => Outrun']_vars
  <2> SUFFICES ASSUME WindowInv, SentNumbers, [Next]_vars, Outrun PROVE Outrun'
    OBVIOUS
  <2>1. /\ send_seq \in Nat /\ window_end \in Int /\ datagrams \subseteq Datagrams
        /\ packet_to_send \subseteq Datagrams
    BY DEF WindowInv, TypeOK, SenderTypeOK, NetworkTypeOK, ReceiverTypeOK
  <2>2. /\ send_seq > window_end
        /\ \A d \in datagrams \cup packet_to_send : d.seq > window_end
    BY DEF Outrun
  <2>3. packet_to_send' \subseteq Datagrams /\ send_seq' \in Nat
    BY WindowStep DEF WindowInv, TypeOK, SenderTypeOK
  <2>4. ASSUME NEW D \in SUBSET Datagrams, SendDatagrams(D), UNCHANGED receiverVars,
               send_seq <= send_seq', send_seq' <= MaxDatagrams,
               \A d \in D \cup packet_to_send' :
                 (d \in packet_to_send \/ send_seq <= d.seq) /\ d.seq < send_seq'
        PROVE  Outrun'
    <3>1. window_end' = window_end
      BY <2>4 DEF receiverVars, windowVars
    <3>2. \A d \in D \cup packet_to_send' : d.seq \in Nat /\ d.seq > window_end
      BY <2>1, <2>2, <2>3, <2>4 DEF Datagrams
    <3>3. \A d \in D : Encoded(d).seq = d.seq
      <4> TAKE d \in D
      <4>1. d.seq \in Nat /\ d.seq < TriadMod
        BY <2>3, <2>4, <3>2
      <4>2. LTriad(d.seq) = d.seq
        BY <4>1, ModuloTurns DEF LTriad
      <4> QED
        BY <4>2, EncodedType
    <3>4. \A w \in datagrams' : w.seq > window_end
      BY <2>2, <2>4, <3>2, <3>3 DEF SendDatagrams
    <3>5. send_seq' > window_end
      BY <2>1, <2>2, <2>3, <2>4
    <3> QED
      BY <3>1, <3>2, <3>4, <3>5 DEF Outrun
  <2>5. ASSUME NEW overdue \in SUBSET recovery_queue, SenderUpdate(overdue) PROVE Outrun'
    BY <2>4, <2>5, SenderUpdateNumbers
  <2>6. CASE \/ \E d \in Data, immediate \in BOOLEAN : AddEncapsulated(d, immediate)
             \/ \E a \in acks : HandleNack(a)
    <3>1. PICK D \in SUBSET Datagrams :
            /\ SendDatagrams(D) /\ UNCHANGED receiverVars
            /\ send_seq <= send_seq' /\ send_seq' <= MaxDatagrams /\ send_seq' \in Nat
            /\ UNCHANGED packet_to_send
            /\ \A d \in D : send_seq <= d.seq /\ d.seq < send_seq'
      BY <2>6, OtherSenderNumbers
    <3>2. \A d \in packet_to_send' : d.seq < send_seq'
      BY SentNumbersStep DEF SentNumbers
    <3> QED
      BY <2>4, <3>1, <3>2
  <2>7. ASSUME UNCHANGED <<send_seq, packet_to_send>>, datagrams' \subseteq datagrams,
               \/ window_end' = window_end
               \/ \E d \in datagrams : HandleDatagram(d) /\ ~UNCHANGED receiverVars
        PROVE  Outrun'
    <3>1. \A d \in datagrams : Refused(d.seq)
      BY <2>2 DEF Refused
    <3>2. window_end' = window_end
      BY <2>7, <3>1 DEF HandleDatagram
    <3> QED
      BY <2>2, <2>7, <3>2 DEF Outrun
  <2> QED
    BY <2>5, <2>6, <2>7, NothingSent
<1>3. QED
  BY <1>1, <1>2, WindowInit, WindowStep, SentNumbersStep, PTL DEF Spec, OutrunIsForGood
=============================================================================
