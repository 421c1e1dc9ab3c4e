----------------------------- MODULE AckRanges -----------------------------
(***************************************************************************)
(* ACK and NACK packets name datagrams by ranges of sequence numbers       *)
(* (src/raklib/AcknowledgePacket.cpp).  encode() writes a set of numbers   *)
(* as its maximal runs, ascending; decode() expands each run again, but    *)
(* reads no more than AckRange + 1 numbers of one run and starts no record *)
(* once AckTotal numbers were read: an ACK may say less than its sender    *)
(* wrote into it.                                                          *)
(***************************************************************************)
EXTENDS Integers, FiniteSets

CONSTANTS AckRange,   \* 512: "(end - start) > 512"
          AckTotal    \* 4096: "cnt < 4096"

ASSUME AckAssumption == AckRange \in Nat /\ AckTotal \in Nat \ {0}

\* n continues the run that starts at r.
InRunFrom(S, r, n) == r <= n /\ r .. n \subseteq S

\* First number of the maximal run of S that contains n.
RunStart(S, n) == CHOOSE r \in S : InRunFrom(S, r, n) /\ (r - 1) \notin S

\* What the range limit of decode() leaves of S.
Capped(S) == {n \in S : n - RunStart(S, n) <= AckRange}

\* The sequence numbers decode() yields of the encoding of S.
Received(S) ==
  {n \in Capped(S) :
     Cardinality({m \in Capped(S) : m < RunStart(S, n)}) < AckTotal}
============================================================================
