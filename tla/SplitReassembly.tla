--------------------------- MODULE SplitReassembly ---------------------------
(***************************************************************************)
(* Messages that are longer than a datagram (src/raklib/Session.cpp): they *)
(* are sent in parts, addEncapsulated(), and put together again at the     *)
(* other end, handleSplit().  Parts that carry a message index come out of *)
(* the reliable channel (ReliableChannel) in order and once each; parts    *)
(* that do not are routed as they arrive: some are lost, repeated or late. *)
(* A part that is routed before the session is connected is dropped, which *)
(* here is a part that is lost.                                            *)
(***************************************************************************)
EXTENDS Naturals, Sequences, SequencesExt, Functions

CONSTANTS MaxMessages,     \* bound: messages sent
          MaxParts,        \* bound: parts of one message
          MaxRepeats,      \* bound: parts that arrive a second time
          SplitIds,        \* 65536
          kMaxSplitSize,   \* 128
          kMaxSplitCount   \* 4

ASSUME SplitAssumption ==
  /\ MaxMessages \in Nat /\ MaxParts \in Nat /\ MaxRepeats \in Nat
  /\ SplitIds \in Nat \ {0}
  /\ kMaxSplitSize \in Nat /\ kMaxSplitCount \in Nat \ {0}

VARIABLES reliable,  \* do the messages of this session carry an index?
          counts,    \* history: in how many parts each message was sent
          wire,      \* parts under way
          repeats,   \* parts that arrived and are still under way
          splits,    \* splits_: split id -> part index -> part
          combined   \* history: the messages put together, as their parts

vars == <<reliable, counts, wire, repeats, splits, combined>>
-----------------------------------------------------------------------------
\* A part says which message it is of only for the properties.
Parts == [message : Nat, sid : 0 .. (SplitIds - 1), count : Nat, index : Nat]

Init ==
  /\ reliable \in BOOLEAN
  /\ counts = << >> /\ wire = << >> /\ repeats = 0
  /\ splits = << >> /\ combined = << >>

\* Variant: a counter that does not count.
SplitIdSame(message) == 0

SplitId(message) == message % SplitIds

\* The parts of a message, indexed from 0.
PartsOf(message, count) ==
  [i \in 1 .. count |->
     [message |-> message, sid |-> SplitId(message), count |-> count, index |-> i - 1]]

\* addEncapsulated() of a message that needs count parts.
Send(count) ==
  /\ Len(counts) < MaxMessages
  /\ counts' = Append(counts, count)
  /\ wire' = wire \o PartsOf(Len(counts) + 1, count)
  /\ UNCHANGED <<reliable, splits, combined, repeats>>
-----------------------------------------------------------------------------
\* Variant: off by one.
TooLongByOne(part) == part.count > kMaxSplitSize \/ part.index > kMaxSplitSize

TooLong(part) == part.count >= kMaxSplitSize \/ part.index >= kMaxSplitSize

\* splits_[sid], which makes the entry if it is not there.
Entry(sid) == IF sid \in DOMAIN splits THEN splits[sid] ELSE << >>
WithEntry(sid, parts) ==
  [s \in DOMAIN splits \cup {sid} |-> IF s = sid THEN parts ELSE splits[s]]

\* Variant: only the first part of a message is refused.
NoRoomIfNew(sid) ==
  sid \notin DOMAIN splits /\ Cardinality(DOMAIN splits) >= kMaxSplitCount

NoRoom(sid) ==
  Entry(sid) = << >> /\ Cardinality(DOMAIN splits \cup {sid}) > kMaxSplitCount

Complete(parts, part) == Cardinality(DOMAIN parts) = part.count

Erased(sid) == Restrict(splits, DOMAIN splits \ {sid})

\* handleSplit().
Handle(part) ==
  LET parts == [i \in DOMAIN Entry(part.sid) \cup {part.index} |->
                  IF i = part.index THEN part ELSE Entry(part.sid)[i]]
  IN \/ /\ TooLong(part)
        /\ UNCHANGED <<splits, combined>>
     \/ /\ ~TooLong(part) /\ NoRoom(part.sid)
        /\ splits' = WithEntry(part.sid, Entry(part.sid))
        /\ UNCHANGED combined
     \/ /\ ~TooLong(part) /\ ~NoRoom(part.sid) /\ ~Complete(parts, part)
        /\ splits' = WithEntry(part.sid, parts)
        /\ UNCHANGED combined
     \/ /\ ~TooLong(part) /\ ~NoRoom(part.sid) /\ Complete(parts, part)
        /\ splits' = Erased(part.sid)
        /\ combined' = IF DOMAIN parts = 0 .. (part.count - 1)
                       THEN Append(combined, [i \in 1 .. part.count |-> parts[i - 1]])
                       ELSE combined

\* The channel hands over the next part.
ArriveInOrder ==
  /\ reliable /\ wire # << >>
  /\ Handle(Head(wire)) /\ wire' = Tail(wire)
  /\ UNCHANGED <<reliable, counts, repeats>>

\* Any part under way arrives, and may be under way a second time.  A part
\* that is lost is one that never arrives.
ArriveAnyhow ==
  /\ ~reliable
  /\ \E i \in DOMAIN wire :
       /\ Handle(wire[i])
       /\ \/ wire' = RemoveAt(wire, i) /\ UNCHANGED repeats
          \/ repeats < MaxRepeats /\ repeats' = repeats + 1 /\ UNCHANGED wire
  /\ UNCHANGED <<reliable, counts>>

Next == (\E count \in 2 .. MaxParts : Send(count)) \/ ArriveInOrder \/ ArriveAnyhow

Spec == Init /\ [][Next]_vars
-----------------------------------------------------------------------------
(***************************************************************************)
(* Properties.                                                             *)
(***************************************************************************)
TypeOK ==
  /\ reliable \in BOOLEAN /\ counts \in Seq(2 .. MaxParts) /\ wire \in Seq(Parts) /\ repeats \in Nat
  /\ \A sid \in DOMAIN splits : \A i \in DOMAIN splits[sid] :
       splits[sid][i] \in Parts /\ splits[sid][i].sid = sid /\ splits[sid][i].index = i
  /\ combined \in Seq(Seq(Parts))

\* What is put together is one message, all of it and in order, while split
\* ids are not used again: parts of two messages are never mixed.
WholeMessages ==
  reliable \/ Len(counts) <= SplitIds =>
    \A k \in DOMAIN combined :
      \E m \in DOMAIN counts : combined[k] = PartsOf(m, counts[m])

\* Reliable messages come out in order and once each, but for those of
\* kMaxSplitSize parts or more, which are lost without a word although all
\* their parts were acknowledged; and nothing is left of a message whose parts
\* are through.
Short(count) == count < kMaxSplitSize
MessageOf(parts) == parts[1].message
LongAreLost ==
  reliable /\ wire = << >> =>
    /\ {MessageOf(combined[k]) : k \in DOMAIN combined}
         = {m \in DOMAIN counts : Short(counts[m])}
    /\ \A k, l \in DOMAIN combined :
         k < l => MessageOf(combined[k]) < MessageOf(combined[l])
    /\ splits = << >>

Partial == {sid \in DOMAIN splits : splits[sid] # << >>}

\* A message that is refused leaves an empty entry that counts from then on:
\* when there are more than kMaxSplitCount of them no further message in parts
\* is ever put together from its beginning.
Clogged == Cardinality(DOMAIN splits \ Partial) > kMaxSplitCount
CloggedForGood == [][Clogged => Clogged' /\ Partial' \subseteq Partial]_vars
=============================================================================
