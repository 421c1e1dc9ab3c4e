-------------------------- MODULE ReliableChannel --------------------------
(***************************************************************************)
(* What a connected session promises the layer above it: the messages one  *)
(* side submits with a reliable ordered delivery are handed to the other   *)
(* side's packet handler in the order they were submitted, each of them    *)
(* once.  One arriving message may release several that were waiting for   *)
(* it, so a delivery hands over a whole run of messages.                   *)
(***************************************************************************)
EXTENDS Naturals, Sequences

CONSTANTS Data,         \* the payloads
          MaxMessages   \* bound: messages submitted

VARIABLES sent,         \* every message submitted, in order
          delivered     \* every message handed to the handler, in order

vars == <<sent, delivered>>

Init == /\ sent = << >>
        /\ delivered = << >>

Submit(d) == /\ Len(sent) < MaxMessages
             /\ sent' = Append(sent, d)
             /\ UNCHANGED delivered

\* The handler receives the next n messages.
Deliver(n) == /\ delivered' = SubSeq(sent, 1, n)
              /\ UNCHANGED sent

Next == \/ \E d \in Data : Submit(d)
        \/ \E n \in (Len(delivered) + 1) .. Len(sent) : Deliver(n)

Spec == Init /\ [][Next]_vars

(***************************************************************************)
(* A channel that also delivers: as long as a message waits, one more is   *)
(* eventually handed over.                                                 *)
(***************************************************************************)
FairSpec == Spec /\ WF_vars(\E n \in (Len(delivered) + 1) .. Len(sent) : Deliver(n))
============================================================================
