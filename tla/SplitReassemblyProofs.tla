------------------------ MODULE SplitReassemblyProofs ------------------------
(***************************************************************************)
(* Theorems about SplitReassembly, for every value of its constants.       *)
(***************************************************************************)
EXTENDS SplitReassembly, Integers, FiniteSetTheorems, SequenceTheorems, TLAPS

USE SplitAssumption

(***************************************************************************)
(* Clogged for good.  An empty entry stays, because a message can only fill*)
(* its entry while there is room; so the entries that are empty never get  *)
(* fewer once there are too many of them.                                  *)
(***************************************************************************)
FewEntries == IsFiniteSet(DOMAIN splits)

\* What handleSplit() does to the entries.
LEMMA HandleEntries ==
  ASSUME NEW part, Handle(part)
  PROVE  \/ UNCHANGED splits
         \/ /\ NoRoom(part.sid)
            /\ splits' = WithEntry(part.sid, Entry(part.sid))
         \/ /\ ~NoRoom(part.sid)
            /\ \/ splits' = Erased(part.sid)
               \/ \E parts : splits' = WithEntry(part.sid, parts)
BY DEF Handle

\* Every arrival handles one part, and nothing else touches the entries.
LEMMA OnlyHandleTouchesEntries ==
  ASSUME [Next]_vars
  PROVE  UNCHANGED splits \/ \E part : Handle(part)
BY DEF Next, Send, ArriveInOrder, ArriveAnyhow, vars

LEMMA FewEntriesStep == FewEntries /\ [Next]_vars => FewEntries'
<1> SUFFICES ASSUME FewEntries, [Next]_vars PROVE FewEntries'
  OBVIOUS
<1>1. CASE UNCHANGED splits
  BY <1>1 DEF FewEntries
<1>2. ASSUME NEW part, Handle(part) PROVE FewEntries'
  <2>1. \/ DOMAIN splits' = DOMAIN splits
        \/ DOMAIN splits' = DOMAIN splits \cup {part.sid}
        \/ DOMAIN splits' = DOMAIN splits \ {part.sid}
    BY <1>2, HandleEntries DEF WithEntry, Erased, Restrict
  <2>2. /\ IsFiniteSet(DOMAIN splits \cup {part.sid})
        /\ IsFiniteSet(DOMAIN splits \ {part.sid})
    BY FS_AddElement, FS_Subset DEF FewEntries
  <2> QED
    BY <2>1, <2>2 DEF FewEntries
<1>3. QED
  BY <1>1, <1>2, OnlyHandleTouchesEntries

\* A message that is refused leaves an empty entry for good: with more than
\* kMaxSplitCount of them no message that is not already begun is ever begun.
THEOREM StaysClogged == Spec => CloggedForGood
<1>1. Init => FewEntries
  <2>1. DOMAIN << >> = {}
    OBVIOUS
  <2> QED
    BY <2>1, FS_EmptySet DEF Init, FewEntries
<1>2. FewEntries /\ [Next]_vars => [Clogged => Clogged' /\ Partial' \subseteq Partial]_vars
  <2> SUFFICES ASSUME FewEntries, FewEntries', [Next]_vars, Clogged
               PROVE  Clogged' /\ Partial' \subseteq Partial
    BY FewEntriesStep
  <2> DEFINE Empty == DOMAIN splits \ Partial
  <2>1. /\ \A sid : sid \in Empty <=> sid \in DOMAIN splits /\ splits[sid] = << >>
        /\ \A sid : sid \in Partial <=> sid \in DOMAIN splits /\ splits[sid] # << >>
    BY DEF Partial
  <2>2. /\ \A sid : sid \in Empty' <=> sid \in DOMAIN splits' /\ splits'[sid] = << >>
        /\ \A sid : sid \in Partial' <=> sid \in DOMAIN splits' /\ splits'[sid] # << >>
    BY DEF Partial
  <2>3. Cardinality(Empty) > kMaxSplitCount
    BY DEF Clogged
  <2> SUFFICES Empty \subseteq Empty' /\ Partial' \subseteq Partial
    <3>1. Empty' \subseteq DOMAIN splits'
      OBVIOUS
    <3>2. IsFiniteSet(Empty') /\ IsFiniteSet(Empty)
      BY <3>1, FS_Subset DEF FewEntries
    <3>3. Cardinality(Empty) <= Cardinality(Empty')
      BY <3>2, FS_Subset
    <3>4. Cardinality(Empty) \in Nat /\ Cardinality(Empty') \in Nat
      BY <3>2, FS_CardinalityType
    <3> QED
      BY <2>3, <3>3, <3>4 DEF Clogged
  <2>4. CASE UNCHANGED splits
    BY <2>1, <2>2, <2>4
  <2>5. ASSUME NEW part, Handle(part)
        PROVE  Empty \subseteq Empty' /\ Partial' \subseteq Partial
    <3> DEFINE sid == part.sid
    <3>1. CASE NoRoom(sid) /\ splits' = WithEntry(sid, Entry(sid))
      <4>1. Entry(sid) = << >>
        BY <3>1 DEF NoRoom
      <4>2. /\ DOMAIN splits' = DOMAIN splits \cup {sid} /\ splits'[sid] = << >>
            /\ \A s \in DOMAIN splits : s # sid => splits'[s] = splits[s]
        BY <3>1, <4>1 DEF WithEntry
      <4> QED
        BY <2>1, <2>2, <4>2
    <3>2. ASSUME ~NoRoom(sid) PROVE sid \in Partial
      <4>1. IsFiniteSet(DOMAIN splits \cup {sid})
        BY FS_AddElement DEF FewEntries
      <4>2. /\ Cardinality(Empty) <= Cardinality(DOMAIN splits \cup {sid})
            /\ Cardinality(Empty) \in Nat /\ Cardinality(DOMAIN splits \cup {sid}) \in Nat
        BY <4>1, FS_Subset, FS_CardinalityType
      <4>3. Cardinality(DOMAIN splits \cup {sid}) > kMaxSplitCount
        BY <2>3, <4>2
      <4>4. Entry(sid) # << >>
        BY <3>2, <4>3 DEF NoRoom
      <4> QED
        BY <2>1, <4>4 DEF Entry
    <3>3. CASE ~NoRoom(sid) /\ splits' = Erased(sid)
      <4>1. /\ DOMAIN splits' = DOMAIN splits \ {sid}
            /\ \A s \in DOMAIN splits' : splits'[s] = splits[s]
        BY <3>3 DEF Erased, Restrict
      <4> QED
        BY <2>1, <2>2, <3>2, <3>3, <4>1
    <3>4. ASSUME ~NoRoom(sid), NEW parts, splits' = WithEntry(sid, parts)
          PROVE  Empty \subseteq Empty' /\ Partial' \subseteq Partial
      <4>1. /\ DOMAIN splits' = DOMAIN splits \cup {sid}
            /\ \A s \in DOMAIN splits : s # sid => splits'[s] = splits[s]
        BY <3>4 DEF WithEntry
      <4> QED
        BY <2>1, <2>2, <3>2, <3>4, <4>1
    <3> QED
      BY <2>4, <2>5, <3>1, <3>3, <3>4, HandleEntries
  <2> QED
    BY <2>4, <2>5, OnlyHandleTouchesEntries
<1>3. QED
  BY <1>1, <1>2, FewEntriesStep, PTL DEF Spec, CloggedForGood

(***************************************************************************)
(* What is put together.  Every part under way or kept is one that was     *)
(* sent, under its own index; so an entry whose parts are of one message   *)
(* gives that message.  They are of one message while split ids are fresh, *)
(* and when parts come in order, because then at most one message is under *)
(* way: OneEntry says how much of it is kept.                              *)
(***************************************************************************)
Genuine(sent, p) ==
  /\ p.message \in DOMAIN sent /\ p.index \in 0 .. (sent[p.message] - 1)
  /\ p.sid = SplitId(p.message) /\ p.count = sent[p.message]

\* The part that comes after another when all come in order.
Follows(p, q) ==
  IF p.index + 1 < p.count
  THEN q.message = p.message /\ q.index = p.index + 1
  ELSE q.message = p.message + 1 /\ q.index = 0

EndsLine(sent, p) == p.message = Len(sent) /\ p.index + 1 = p.count

InLine ==
  /\ \A i \in 1 .. (Len(wire) - 1) : Follows(wire[i], wire[i + 1])
  /\ wire # << >> => EndsLine(counts, wire[Len(wire)])

\* The last message whose parts were all handed over.
Through == IF wire = << >> THEN Len(counts) ELSE wire[1].message - 1

Routed ==
  /\ {MessageOf(combined[k]) : k \in DOMAIN combined} = {m \in 1 .. Through : Short(counts[m])}
  /\ \A k, l \in DOMAIN combined :
       k < l => MessageOf(combined[k]) < MessageOf(combined[l])

Underway == wire # << >> /\ wire[1].index > 0 /\ Short(wire[1].count)

OneEntry ==
  /\ ~Underway => DOMAIN splits = {}
  /\ Underway =>
       /\ DOMAIN splits = {wire[1].sid}
       /\ DOMAIN splits[wire[1].sid] = 0 .. (wire[1].index - 1)
       /\ \A i \in 0 .. (wire[1].index - 1) :
            splits[wire[1].sid][i].message = wire[1].message

KeptGenuine ==
  /\ splits = [sid \in DOMAIN splits |-> splits[sid]]
  /\ \A sid \in DOMAIN splits : \A i \in DOMAIN splits[sid] : Genuine(counts, splits[sid][i])

WireGenuine == \A i \in 1 .. Len(wire) : Genuine(counts, wire[i])

PartsInv == TypeOK /\ KeptGenuine /\ WireGenuine

InOrderInv == reliable => InLine /\ Routed /\ OneEntry

WholeInv == PartsInv /\ InOrderInv /\ WholeMessages

\* The parts of an entry with one more, and what they make together.
Gathered(part) ==
  [i \in DOMAIN Entry(part.sid) \cup {part.index} |->
     IF i = part.index THEN part ELSE Entry(part.sid)[i]]

Joined(part) == [i \in 1 .. part.count |-> Gathered(part)[i - 1]]

\* The four ways through handleSplit().
LEMMA HandleCases ==
  ASSUME NEW part, Handle(part)
  PROVE  \/ /\ TooLong(part) /\ UNCHANGED <<splits, combined>>
         \/ /\ ~TooLong(part) /\ NoRoom(part.sid)
            /\ splits' = WithEntry(part.sid, Entry(part.sid)) /\ UNCHANGED combined
         \/ /\ ~TooLong(part) /\ ~NoRoom(part.sid) /\ ~Complete(Gathered(part), part)
            /\ splits' = WithEntry(part.sid, Gathered(part)) /\ UNCHANGED combined
         \/ /\ ~TooLong(part) /\ ~NoRoom(part.sid) /\ Complete(Gathered(part), part)
            /\ splits' = Erased(part.sid)
            /\ combined' = IF DOMAIN Gathered(part) = 0 .. (part.count - 1)
                           THEN Append(combined, Joined(part)) ELSE combined
BY DEF Handle, Gathered, Joined

\* A split id names one message while no id is used twice.
LEMMA FreshIds ==
  ASSUME NEW m \in 1 .. SplitIds, NEW n \in 1 .. SplitIds, SplitId(m) = SplitId(n)
  PROVE  m = n
<1>1. \A k \in Nat : k < SplitIds => k % SplitIds = k
  OBVIOUS
<1>2. SplitIds % SplitIds = 0
  OBVIOUS
<1>3. QED
  BY <1>1, <1>2 DEF SplitId

\* What an entry has when a part is added to it are parts under their own
\* index.
LEMMA GatheredFacts ==
  ASSUME PartsInv, NEW part \in Parts, Genuine(counts, part)
  PROVE  /\ DOMAIN Gathered(part) = DOMAIN Entry(part.sid) \cup {part.index}
         /\ \A i \in DOMAIN Gathered(part) :
              /\ Gathered(part)[i] \in Parts /\ Genuine(counts, Gathered(part)[i])
              /\ Gathered(part)[i].sid = part.sid /\ Gathered(part)[i].index = i
<1>1. DOMAIN << >> = {}
  OBVIOUS
<1>2. \A i \in DOMAIN Entry(part.sid) :
        /\ Entry(part.sid)[i] \in Parts /\ Genuine(counts, Entry(part.sid)[i])
        /\ Entry(part.sid)[i].sid = part.sid /\ Entry(part.sid)[i].index = i
  BY <1>1 DEF Entry, PartsInv, TypeOK, KeptGenuine
<1>3. QED
  BY <1>2 DEF Gathered

\* Parts of one message, all of them, are the message.
LEMMA JoinedIsMessage ==
  ASSUME PartsInv, NEW part \in Parts, Genuine(counts, part),
         DOMAIN Gathered(part) = 0 .. (part.count - 1)
  PROVE  /\ Joined(part) \in Seq(Parts)
         /\ part.count > 0 => MessageOf(Joined(part)) = Gathered(part)[0].message
         /\ (\A i \in DOMAIN Gathered(part) : Gathered(part)[i].message = part.message) =>
              Joined(part) = PartsOf(part.message, counts[part.message])
<1>1. part.count \in Nat /\ part.count = counts[part.message]
  BY DEF Parts, Genuine
<1>2. \A i \in 1 .. part.count :
        /\ i - 1 \in DOMAIN Gathered(part) /\ Gathered(part)[i - 1] \in Parts
        /\ Gathered(part)[i - 1].index = i - 1
        /\ Genuine(counts, Gathered(part)[i - 1])
  <2> TAKE i \in 1 .. part.count
  <2>1. i - 1 \in DOMAIN Gathered(part)
    BY <1>1
  <2> QED
    BY <2>1, GatheredFacts
<1>3. Joined(part) \in Seq(Parts)
  <2>1. Joined(part) \in [1 .. part.count -> Parts]
    BY <1>2 DEF Joined
  <2> QED
    BY <1>1, <2>1, SeqDef
<1>4. part.count > 0 => MessageOf(Joined(part)) = Gathered(part)[0].message
  BY <1>1 DEF MessageOf, Joined
<1>5. ASSUME \A i \in DOMAIN Gathered(part) : Gathered(part)[i].message = part.message
      PROVE  Joined(part) = PartsOf(part.message, counts[part.message])
  <2>1. ASSUME NEW i \in 1 .. part.count
        PROVE  Gathered(part)[i - 1] =
                 [message |-> part.message, sid |-> SplitId(part.message),
                  count |-> part.count, index |-> i - 1]
    BY <1>2, <1>5 DEF Parts, Genuine
  <2> QED
    BY <1>1, <2>1 DEF Joined, PartsOf
<1>6. QED
  BY <1>3, <1>4, <1>5

\* handleSplit() keeps what was sent, and puts together parts.
LEMMA HandleKeepsGenuine ==
  ASSUME PartsInv, NEW part \in Parts, Genuine(counts, part), Handle(part), UNCHANGED counts
  PROVE  /\ KeptGenuine' /\ combined' \in Seq(Seq(Parts))
         /\ \A sid \in DOMAIN splits' : \A i \in DOMAIN splits'[sid] :
              splits'[sid][i] \in Parts /\ splits'[sid][i].sid = sid /\ splits'[sid][i].index = i
<1> DEFINE Good(f) ==
             \A sid \in DOMAIN f : \A i \in DOMAIN f[sid] :
               /\ f[sid][i] \in Parts /\ f[sid][i].sid = sid /\ f[sid][i].index = i
               /\ Genuine(counts, f[sid][i])
<1>1. Good(splits) /\ combined \in Seq(Seq(Parts))
  BY DEF PartsInv, TypeOK, KeptGenuine
<1>2. counts' = counts
  OBVIOUS
<1> SUFFICES /\ splits' = [sid \in DOMAIN splits' |-> splits'[sid]]
             /\ Good(splits') /\ combined' \in Seq(Seq(Parts))
  BY <1>2 DEF KeptGenuine
<1>3. CASE UNCHANGED <<splits, combined>>
  BY <1>1, <1>3 DEF PartsInv, KeptGenuine
<1>4. ASSUME NEW parts, splits' = WithEntry(part.sid, parts), UNCHANGED combined,
             \A i \in DOMAIN parts :
               /\ parts[i] \in Parts /\ parts[i].sid = part.sid /\ parts[i].index = i
               /\ Genuine(counts, parts[i])
      PROVE  /\ splits' = [sid \in DOMAIN splits' |-> splits'[sid]]
             /\ Good(splits') /\ combined' \in Seq(Seq(Parts))
  <2>1. /\ DOMAIN splits' = DOMAIN splits \cup {part.sid} /\ splits'[part.sid] = parts
        /\ \A s \in DOMAIN splits : s # part.sid => splits'[s] = splits[s]
        /\ splits' = [sid \in DOMAIN splits' |-> splits'[sid]]
    BY <1>4 DEF WithEntry
  <2>2. Good(splits')
    BY <1>1, <1>4, <2>1
  <2> QED
    BY <1>1, <1>4, <2>1, <2>2
<1>5. CASE splits' = WithEntry(part.sid, Entry(part.sid)) /\ UNCHANGED combined
  <2>1. DOMAIN << >> = {}
    OBVIOUS
  <2>2. \A i \in DOMAIN Entry(part.sid) :
          /\ Entry(part.sid)[i] \in Parts /\ Entry(part.sid)[i].sid = part.sid
          /\ Entry(part.sid)[i].index = i /\ Genuine(counts, Entry(part.sid)[i])
    BY <1>1, <2>1 DEF Entry
  <2> QED
    BY <1>4, <1>5, <2>2
<1>6. CASE splits' = WithEntry(part.sid, Gathered(part)) /\ UNCHANGED combined
  BY <1>4, <1>6, GatheredFacts
<1>7. CASE /\ splits' = Erased(part.sid)
           /\ combined' = IF DOMAIN Gathered(part) = 0 .. (part.count - 1)
                          THEN Append(combined, Joined(part)) ELSE combined
  <2>1. /\ DOMAIN splits' \subseteq DOMAIN splits
        /\ \A s \in DOMAIN splits' : splits'[s] = splits[s]
        /\ splits' = [sid \in DOMAIN splits' |-> splits'[sid]]
    BY <1>7 DEF Erased, Restrict
  <2>2. combined' \in Seq(Seq(Parts))
    BY <1>1, <1>7, JoinedIsMessage, AppendProperties
  <2> QED
    BY <1>1, <2>1, <2>2
<1>8. QED
  BY <1>3, <1>5, <1>6, <1>7, HandleCases

\* The parts of the message that is sent are parts as they were sent.
LEMMA PartsOfNext ==
  ASSUME TypeOK, NEW count \in 2 .. MaxParts, counts' = Append(counts, count)
  PROVE  /\ PartsOf(Len(counts) + 1, count) \in Seq(Parts)
         /\ Len(PartsOf(Len(counts) + 1, count)) = count
         /\ \A i \in 1 .. count :
              /\ PartsOf(Len(counts) + 1, count)[i] =
                   [message |-> Len(counts) + 1, sid |-> SplitId(Len(counts) + 1),
                    count |-> count, index |-> i - 1]
              /\ Genuine(counts', PartsOf(Len(counts) + 1, count)[i])
         /\ Len(counts) \in Nat /\ Len(counts') = Len(counts) + 1
         /\ counts' \in Seq(2 .. MaxParts)
         /\ \A m \in DOMAIN counts : m \in DOMAIN counts' /\ counts'[m] = counts[m]
         /\ DOMAIN counts' = DOMAIN counts \cup {Len(counts) + 1}
<1>1. counts \in Seq(2 .. MaxParts)
  BY DEF TypeOK
<1>2. /\ Len(counts) \in Nat /\ Len(counts') = Len(counts) + 1
      /\ counts' \in Seq(2 .. MaxParts)
      /\ \A m \in 1 .. Len(counts) : counts'[m] = counts[m]
      /\ counts'[Len(counts) + 1] = count
      /\ DOMAIN counts = 1 .. Len(counts) /\ DOMAIN counts' = 1 .. Len(counts')
  BY <1>1, AppendProperties, LenProperties
<1> DEFINE message == Len(counts) + 1
           its(i) == [message |-> message, sid |-> SplitId(message),
                      count |-> count, index |-> i - 1]
<1>3. SplitId(message) \in 0 .. (SplitIds - 1)
  BY <1>2 DEF SplitId
<1>4. \A i \in 1 .. count : its(i) \in Parts
  BY <1>2, <1>3 DEF Parts
<1>5. PartsOf(message, count) = [i \in 1 .. count |-> its(i)]
  BY DEF PartsOf
<1>6. PartsOf(message, count) \in [1 .. count -> Parts]
  BY <1>4, <1>5
<1>7. PartsOf(message, count) \in Seq(Parts) /\ Len(PartsOf(message, count)) = count
  BY <1>6, SeqDef
<1>8. \A i \in 1 .. count : PartsOf(message, count)[i] = its(i)
  BY <1>5
<1>9. \A i \in 1 .. count : Genuine(counts', its(i))
  BY <1>2 DEF Genuine
<1>10. /\ \A m \in DOMAIN counts : m \in DOMAIN counts' /\ counts'[m] = counts[m]
       /\ DOMAIN counts' = DOMAIN counts \cup {message}
  BY <1>2
<1>11. QED
  BY <1>2, <1>7, <1>8, <1>9, <1>10

\* What was sent stays sent.
LEMMA GenuineStays ==
  ASSUME TypeOK, NEW count \in 2 .. MaxParts, counts' = Append(counts, count),
         NEW p, Genuine(counts, p)
  PROVE  Genuine(counts', p)
BY PartsOfNext DEF Genuine

LEMMA SendParts ==
  ASSUME PartsInv, NEW count \in 2 .. MaxParts, Send(count)
  PROVE  PartsInv'
<1>1. /\ counts' = Append(counts, count)
      /\ wire' = wire \o PartsOf(Len(counts) + 1, count)
      /\ UNCHANGED <<reliable, splits, combined, repeats>>
  BY DEF Send
<1>2. wire \in Seq(Parts) /\ TypeOK
  BY DEF PartsInv, TypeOK
<1> DEFINE more == PartsOf(Len(counts) + 1, count)
<1>3. /\ more \in Seq(Parts) /\ Len(more) = count /\ counts' \in Seq(2 .. MaxParts)
      /\ \A i \in 1 .. count : Genuine(counts', more[i])
  BY <1>1, <1>2, PartsOfNext
<1> HIDE DEF more
<1>4. /\ wire' \in Seq(Parts) /\ Len(wire') = Len(wire) + Len(more) /\ Len(wire) \in Nat
      /\ \A i \in 1 .. Len(wire') :
           wire'[i] = IF i <= Len(wire) THEN wire[i] ELSE more[i - Len(wire)]
  BY <1>1, <1>2, <1>3, ConcatProperties DEF more
<1>5. WireGenuine'
  <2> SUFFICES ASSUME NEW i \in 1 .. Len(wire') PROVE Genuine(counts', wire'[i])
    BY DEF WireGenuine
  <2>1. CASE i <= Len(wire)
    <3>1. Genuine(counts, wire[i])
      BY <1>4, <2>1 DEF PartsInv, WireGenuine
    <3>2. wire'[i] = wire[i]
      BY <1>4, <2>1
    <3> QED
      BY <1>1, <1>2, <3>1, <3>2, GenuineStays
  <2>2. CASE i > Len(wire)
    <3>1. i - Len(wire) \in 1 .. count /\ wire'[i] = more[i - Len(wire)]
      BY <1>3, <1>4, <2>2
    <3> QED
      BY <1>3, <3>1
  <2> QED
    BY <1>4, <2>1, <2>2
<1>6. KeptGenuine'
  <2>1. \A p : Genuine(counts, p) => Genuine(counts', p)
    BY <1>1, <1>2, GenuineStays
  <2> QED
    BY <1>1, <2>1 DEF PartsInv, KeptGenuine
<1>7. TypeOK'
  BY <1>1, <1>2, <1>3, <1>4 DEF TypeOK
<1>8. QED
  BY <1>5, <1>6, <1>7 DEF PartsInv

\* What a sequence with one element removed is made of.
LEMMA WithoutOne ==
  ASSUME NEW S, NEW s \in Seq(S), NEW i \in 1 .. Len(s)
  PROVE  /\ RemoveAt(s, i) \in Seq(S)
         /\ \A j \in 1 .. Len(RemoveAt(s, i)) : \E k \in 1 .. Len(s) : RemoveAt(s, i)[j] = s[k]
<1> DEFINE front == SubSeq(s, 1, i - 1)
           back  == SubSeq(s, i + 1, Len(s))
           rest  == RemoveAt(s, i)
<1>1. Len(s) \in Nat /\ \A j \in 1 .. Len(s) : s[j] \in S
  BY LenProperties, ElementOfSeq
<1>2. /\ front \in Seq(S) /\ Len(front) \in Nat
      /\ \A j \in 1 .. Len(front) : \E k \in 1 .. Len(s) : front[j] = s[k]
  <2>1. \A j \in 1 .. (i - 1) : s[j] \in S
    BY <1>1
  <2>2. /\ front \in Seq(S)
        /\ Len(front) = IF 1 <= i - 1 THEN (i - 1) - 1 + 1 ELSE 0
        /\ \A j \in 1 .. ((i - 1) - 1 + 1) : front[j] = s[1 + j - 1]
    BY <1>1, <2>1, SubSeqProperties
  <2> HIDE DEF front
  <2>3. ASSUME NEW j \in 1 .. Len(front) PROVE \E k \in 1 .. Len(s) : front[j] = s[k]
    <3>1. 1 + j - 1 \in 1 .. Len(s) /\ j \in 1 .. ((i - 1) - 1 + 1)
      BY <1>1, <2>2
    <3> QED
      BY <2>2, <3>1
  <2> QED
    BY <2>2, <2>3, LenProperties
<1>3. /\ back \in Seq(S) /\ Len(back) \in Nat
      /\ \A j \in 1 .. Len(back) : \E k \in 1 .. Len(s) : back[j] = s[k]
  <2>1. \A j \in (i + 1) .. Len(s) : s[j] \in S
    BY <1>1
  <2>2. /\ back \in Seq(S)
        /\ Len(back) = IF i + 1 <= Len(s) THEN Len(s) - (i + 1) + 1 ELSE 0
        /\ \A j \in 1 .. (Len(s) - (i + 1) + 1) : back[j] = s[(i + 1) + j - 1]
    BY <1>1, <2>1, SubSeqProperties
  <2> HIDE DEF back
  <2>3. ASSUME NEW j \in 1 .. Len(back) PROVE \E k \in 1 .. Len(s) : back[j] = s[k]
    <3>1. (i + 1) + j - 1 \in 1 .. Len(s) /\ j \in 1 .. (Len(s) - (i + 1) + 1)
      BY <1>1, <2>2
    <3> QED
      BY <2>2, <3>1
  <2> QED
    BY <2>2, <2>3, LenProperties
<1>4. rest = front \o back
  BY DEF RemoveAt
<1> HIDE DEF front, back, rest
<1>5. /\ rest \in Seq(S) /\ Len(rest) = Len(front) + Len(back)
      /\ \A j \in 1 .. Len(rest) :
           rest[j] = IF j <= Len(front) THEN front[j] ELSE back[j - Len(front)]
  BY <1>2, <1>3, <1>4, ConcatProperties
<1>6. ASSUME NEW j \in 1 .. Len(rest) PROVE \E k \in 1 .. Len(s) : rest[j] = s[k]
  <2>1. CASE j <= Len(front)
    BY <1>2, <1>5, <2>1
  <2>2. CASE j > Len(front)
    <3>1. j - Len(front) \in 1 .. Len(back) /\ rest[j] = back[j - Len(front)]
      BY <1>2, <1>3, <1>5, <2>2
    <3> QED
      BY <1>3, <3>1
  <2> QED
    BY <1>2, <2>1, <2>2
<1>7. QED
  BY <1>5, <1>6 DEF rest

\* A part that arrives was sent, and those that stay under way are some of
\* those that were.
LEMMA ArriveParts ==
  ASSUME PartsInv, ArriveInOrder \/ ArriveAnyhow
  PROVE  PartsInv' /\ \E i \in 1 .. Len(wire) : Handle(wire[i]) /\ (reliable => i = 1)
<1>1. /\ wire \in Seq(Parts) /\ Len(wire) \in Nat /\ DOMAIN wire = 1 .. Len(wire)
      /\ TypeOK /\ \A i \in 1 .. Len(wire) : wire[i] \in Parts
  BY LenProperties, ElementOfSeq DEF PartsInv, TypeOK
<1>2. UNCHANGED <<reliable, counts>> /\ repeats' \in Nat
  BY <1>1 DEF ArriveInOrder, ArriveAnyhow, TypeOK
<1>3. \E i \in 1 .. Len(wire) : Handle(wire[i]) /\ (reliable => i = 1)
  <2>1. CASE ArriveInOrder
    <3>1. wire # << >> /\ Handle(Head(wire))
      BY <2>1 DEF ArriveInOrder
    <3>2. Head(wire) = wire[1] /\ 1 \in 1 .. Len(wire)
      BY <1>1, <3>1, HeadTailProperties, EmptySeq
    <3> QED
      BY <3>1, <3>2
  <2>2. CASE ArriveAnyhow
    BY <1>1, <2>2 DEF ArriveAnyhow
  <2> QED
    BY <2>1, <2>2
<1>4. /\ wire' \in Seq(Parts)
      /\ \A j \in 1 .. Len(wire') : \E i \in 1 .. Len(wire) : wire'[j] = wire[i]
  <2>1. CASE ArriveInOrder
    <3>1. wire # << >> /\ wire' = Tail(wire)
      BY <2>1 DEF ArriveInOrder
    <3>2. /\ wire' \in Seq(Parts) /\ Len(wire') = Len(wire) - 1
          /\ \A j \in 1 .. Len(wire') : wire'[j] = wire[j + 1]
      BY <1>1, <3>1, HeadTailProperties
    <3>3. \A j \in 1 .. Len(wire') : j + 1 \in 1 .. Len(wire)
      BY <1>1, <3>2
    <3> QED
      BY <3>2, <3>3
  <2>2. CASE ArriveAnyhow
    <3>1. PICK i \in 1 .. Len(wire) : wire' = RemoveAt(wire, i) \/ wire' = wire
      BY <1>1, <2>2 DEF ArriveAnyhow
    <3>2. CASE wire' = wire
      BY <1>1, <3>2
    <3>3. CASE wire' = RemoveAt(wire, i)
      <4> DEFINE rest == RemoveAt(wire, i)
      <4>1. /\ rest \in Seq(Parts)
            /\ \A j \in 1 .. Len(rest) : \E k \in 1 .. Len(wire) : rest[j] = wire[k]
        BY <1>1, WithoutOne
      <4> HIDE DEF rest
      <4> QED
        BY <3>3, <4>1 DEF rest
    <3> QED
      BY <3>1, <3>2, <3>3
  <2> QED
    BY <2>1, <2>2
<1>5. PICK i \in 1 .. Len(wire) : Handle(wire[i])
  BY <1>3
<1>6. /\ KeptGenuine' /\ combined' \in Seq(Seq(Parts))
      /\ \A sid \in DOMAIN splits' : \A k \in DOMAIN splits'[sid] :
           splits'[sid][k] \in Parts /\ splits'[sid][k].sid = sid /\ splits'[sid][k].index = k
  BY <1>1, <1>2, <1>5, HandleKeepsGenuine DEF PartsInv, WireGenuine
<1>7. TypeOK'
  BY <1>1, <1>2, <1>4, <1>6 DEF TypeOK
<1>8. WireGenuine'
  BY <1>2, <1>4 DEF PartsInv, WireGenuine
<1>9. QED
  BY <1>3, <1>6, <1>7, <1>8 DEF PartsInv

\* A part under way, in numbers.
LEMMA PartFacts ==
  ASSUME PartsInv, NEW j \in 1 .. Len(wire)
  PROVE  /\ wire[j] \in Parts /\ Genuine(counts, wire[j])
         /\ wire[j].message \in 1 .. Len(counts) /\ wire[j].message \in Nat
         /\ wire[j].index \in Nat /\ wire[j].count \in Nat /\ wire[j].index < wire[j].count
         /\ wire[j].count = counts[wire[j].message]
         /\ wire[j].sid = SplitId(wire[j].message)
         /\ TooLong(wire[j]) <=> ~Short(wire[j].count)
<1>1. /\ wire[j] \in Parts /\ Genuine(counts, wire[j])
      /\ DOMAIN counts = 1 .. Len(counts) /\ Len(counts) \in Nat
  BY LenProperties, ElementOfSeq DEF PartsInv, TypeOK, WireGenuine
<1>2. wire[j].index \in Nat /\ wire[j].count \in Nat /\ wire[j].message \in Nat
  BY <1>1 DEF Parts
<1>3. /\ wire[j].message \in 1 .. Len(counts) /\ wire[j].index < wire[j].count
      /\ wire[j].count = counts[wire[j].message] /\ wire[j].sid = SplitId(wire[j].message)
  BY <1>1, <1>2 DEF Genuine
<1>4. TooLong(wire[j]) <=> ~Short(wire[j].count)
  BY <1>2, <1>3 DEF TooLong, Short
<1>5. QED
  BY <1>1, <1>2, <1>3, <1>4

\* What is under way once the first part has arrived.
LEMMA NextInLine ==
  ASSUME PartsInv, InLine, wire # << >>, wire' = Tail(wire), counts' = counts, PartsInv'
  PROVE  /\ InLine'
         /\ wire[1].index + 1 < wire[1].count =>
              /\ wire' # << >> /\ Through' = Through
              /\ wire'[1].message = wire[1].message /\ wire'[1].index = wire[1].index + 1
              /\ wire'[1].sid = wire[1].sid /\ wire'[1].count = wire[1].count
         /\ wire[1].index + 1 = wire[1].count =>
              /\ Through' = wire[1].message
              /\ wire' # << >> => wire'[1].index = 0
<1>1. /\ wire \in Seq(Parts) /\ Len(wire) \in Nat /\ 1 \in 1 .. Len(wire)
      /\ Len(wire) \in 1 .. Len(wire)
  BY LenProperties, EmptySeq DEF PartsInv, TypeOK
<1>2. /\ wire' \in Seq(Parts) /\ Len(wire') = Len(wire) - 1
      /\ \A j \in 1 .. Len(wire') : wire'[j] = wire[j + 1]
  BY <1>1, HeadTailProperties
<1>3. /\ wire' = << >> <=> Len(wire) = 1
      /\ wire' # << >> => Len(wire) > 1 /\ wire'[1] = wire[2] /\ wire'[Len(wire')] = wire[Len(wire)]
  <2>1. wire' = << >> <=> Len(wire') = 0
    BY <1>2, EmptySeq
  <2>2. Len(wire') > 0 => 1 \in 1 .. Len(wire') /\ Len(wire') \in 1 .. Len(wire')
    BY <1>1, <1>2
  <2> QED
    BY <1>1, <1>2, <2>1, <2>2
<1>4. InLine'
  <2>1. ASSUME NEW j \in 1 .. (Len(wire') - 1) PROVE Follows(wire'[j], wire'[j + 1])
    <3>1. j \in 1 .. Len(wire') /\ j + 1 \in 1 .. Len(wire') /\ j + 1 \in 1 .. (Len(wire) - 1)
      BY <1>1, <1>2
    <3> QED
      BY <1>2, <3>1 DEF InLine
  <2>2. wire' # << >> => EndsLine(counts, wire[Len(wire)])
    BY DEF InLine
  <2>3. wire' # << >> => EndsLine(counts', wire'[Len(wire')])
    BY <1>3, <2>2
  <2> QED
    BY <2>1, <2>3 DEF InLine
<1>5. /\ wire[1].index + 1 < wire[1].count => wire' # << >>
      /\ wire' = << >> => wire[1].message = Len(counts)
  BY <1>3, PartFacts, <1>1 DEF InLine, EndsLine
<1>6. wire' # << >> => Follows(wire[1], wire'[1])
  <2>1. wire' # << >> => 1 \in 1 .. (Len(wire) - 1)
    BY <1>1, <1>3
  <2> QED
    BY <1>3, <2>1 DEF InLine
<1>7. CASE wire[1].index + 1 < wire[1].count
  <2>1. /\ wire' # << >> /\ wire'[1].message = wire[1].message
        /\ wire'[1].index = wire[1].index + 1
    BY <1>5, <1>6, <1>7 DEF Follows
  <2>2. Through' = Through
    BY <2>1 DEF Through
  <2>3. wire'[1].sid = wire[1].sid /\ wire'[1].count = wire[1].count
    <3>1. 2 \in 1 .. Len(wire) /\ wire'[1] = wire[2]
      BY <1>1, <1>3, <2>1
    <3> QED
      BY <1>1, <2>1, <3>1, PartFacts
  <2> QED
    BY <1>4, <1>7, <2>1, <2>2, <2>3, <1>1, PartFacts
<1>8. CASE wire[1].index + 1 = wire[1].count
  <2>1. wire[1].count \in Nat /\ wire[1].message \in Nat
    BY <1>1, PartFacts
  <2>2. wire' # << >> => wire'[1].message = wire[1].message + 1 /\ wire'[1].index = 0
    BY <1>6, <1>8, <2>1 DEF Follows
  <2>3. Through' = wire[1].message
    BY <1>5, <2>1, <2>2 DEF Through
  <2> QED
    BY <1>4, <1>8, <2>1, <2>2, <2>3
<1>9. QED
  <2>1. wire[1].index + 1 < wire[1].count \/ wire[1].index + 1 = wire[1].count
    BY <1>1, PartFacts
  <2> QED
    BY <1>7, <1>8, <2>1

\* In order, what is kept of the message of the first part is what came
\* before it, and there is room for it.
LEMMA BeforeFirst ==
  ASSUME PartsInv, OneEntry, wire # << >>, Short(wire[1].count)
  PROVE  /\ DOMAIN Entry(wire[1].sid) = 0 .. (wire[1].index - 1)
         /\ \A i \in DOMAIN Entry(wire[1].sid) :
              Entry(wire[1].sid)[i].message = wire[1].message
         /\ DOMAIN splits \subseteq {wire[1].sid}
         /\ ~NoRoom(wire[1].sid)
         /\ DOMAIN Gathered(wire[1]) = 0 .. wire[1].index
         /\ \A i \in DOMAIN Gathered(wire[1]) : Gathered(wire[1])[i].message = wire[1].message
         /\ Complete(Gathered(wire[1]), wire[1]) <=> wire[1].index + 1 = wire[1].count
<1> DEFINE p == wire[1]
<1>1. 1 \in 1 .. Len(wire)
  BY LenProperties, EmptySeq DEF PartsInv, TypeOK
<1>2. p \in Parts /\ Genuine(counts, p) /\ p.index \in Nat /\ p.count \in Nat
  BY <1>1, PartFacts
<1>3. /\ DOMAIN Entry(p.sid) = 0 .. (p.index - 1)
      /\ \A i \in DOMAIN Entry(p.sid) : Entry(p.sid)[i].message = p.message
      /\ DOMAIN splits \subseteq {p.sid}
  <2>1. CASE p.index > 0
    <3>1. Underway
      BY <2>1 DEF Underway
    <3> QED
      BY <3>1 DEF OneEntry, Entry
  <2>2. CASE p.index = 0
    <3>1. ~Underway
      BY <2>2 DEF Underway
    <3>2. DOMAIN splits = {} /\ Entry(p.sid) = << >>
      BY <3>1 DEF OneEntry, Entry
    <3>3. DOMAIN << >> = {} /\ 0 .. (0 - 1) = {}
      OBVIOUS
    <3> QED
      BY <2>2, <3>2, <3>3
  <2> QED
    BY <1>2, <2>1, <2>2
<1>4. ~NoRoom(p.sid)
  <2>1. DOMAIN splits \cup {p.sid} = {p.sid}
    BY <1>3
  <2>2. Cardinality({p.sid}) = 1
    BY FS_Singleton
  <2>3. Cardinality(DOMAIN splits \cup {p.sid}) = 1
    BY <2>1, <2>2
  <2> QED
    BY <2>3 DEF NoRoom
<1>5. /\ DOMAIN Gathered(p) = 0 .. p.index
      /\ \A i \in DOMAIN Gathered(p) : Gathered(p)[i].message = p.message
  <2>1. (0 .. (p.index - 1)) \cup {p.index} = 0 .. p.index
    BY <1>2
  <2> QED
    BY <1>3, <2>1 DEF Gathered
<1>6. Complete(Gathered(p), p) <=> p.index + 1 = p.count
  <2>1. \A n \in Nat : Cardinality(0 .. n) = n + 1
    BY FS_Interval
  <2>2. Cardinality(DOMAIN Gathered(p)) = p.index + 1
    BY <1>2, <1>5, <2>1
  <2> QED
    BY <2>2 DEF Complete
<1>7. QED
  BY <1>3, <1>4, <1>5, <1>6

\* Sending puts the parts of the next message behind those under way.
LEMMA SendInOrder ==
  ASSUME PartsInv, InLine, Routed, OneEntry, NEW count \in 2 .. MaxParts, Send(count)
  PROVE  InLine' /\ Routed' /\ OneEntry'
<1> DEFINE more == PartsOf(Len(counts) + 1, count)
<1>1. /\ counts' = Append(counts, count) /\ wire' = wire \o more
      /\ UNCHANGED <<reliable, splits, combined, repeats>>
  BY DEF Send
<1>2. wire \in Seq(Parts) /\ TypeOK /\ Len(wire) \in Nat
  BY LenProperties DEF PartsInv, TypeOK
<1>3. /\ more \in Seq(Parts) /\ Len(more) = count /\ Len(counts) \in Nat
      /\ Len(counts') = Len(counts) + 1
      /\ \A m \in DOMAIN counts : counts'[m] = counts[m]
      /\ DOMAIN counts = 1 .. Len(counts)
  BY <1>1, <1>2, PartsOfNext, LenProperties DEF TypeOK
<1>4. \A i \in 1 .. count :
        /\ more[i].message = Len(counts) + 1 /\ more[i].index = i - 1
        /\ more[i].count = count
  <2>1. \A i \in 1 .. count :
          more[i] = [message |-> Len(counts) + 1, sid |-> SplitId(Len(counts) + 1),
                     count |-> count, index |-> i - 1]
    BY <1>1, <1>2, PartsOfNext
  <2> HIDE DEF more
  <2> TAKE i \in 1 .. count
  <2>2. more[i] = [message |-> Len(counts) + 1, sid |-> SplitId(Len(counts) + 1),
                   count |-> count, index |-> i - 1]
    BY <2>1
  <2> QED
    BY <2>2
<1> HIDE DEF more
<1>5. /\ Len(wire') = Len(wire) + count /\ wire' \in Seq(Parts)
      /\ \A i \in 1 .. Len(wire') :
           wire'[i] = IF i <= Len(wire) THEN wire[i] ELSE more[i - Len(wire)]
  <2>1. /\ wire' \in Seq(Parts) /\ Len(wire') = Len(wire) + Len(more)
        /\ \A i \in 1 .. Len(wire') :
             wire'[i] = IF i <= Len(wire) THEN wire[i] ELSE more[i - Len(wire)]
    BY <1>1, <1>2, <1>3, ConcatProperties DEF more
  <2> QED
    BY <1>3, <2>1
<1>6. wire' # << >> /\ 1 \in 1 .. Len(wire') /\ Len(wire') \in 1 .. Len(wire')
  BY <1>2, <1>5, EmptySeq
<1>7. /\ wire # << >> => Len(wire) > 0 /\ wire'[1] = wire[1]
      /\ wire = << >> => wire'[1] = more[1]
  <2>1. wire = << >> <=> Len(wire) = 0
    BY <1>2, EmptySeq
  <2> QED
    BY <1>2, <1>5, <1>6, <2>1
<1>8. InLine'
  <2>1. ASSUME NEW i \in 1 .. (Len(wire') - 1) PROVE Follows(wire'[i], wire'[i + 1])
    <3>1. i \in 1 .. Len(wire') /\ i + 1 \in 1 .. Len(wire') /\ i \in Nat
      BY <1>2, <1>5
    <3>2. CASE i < Len(wire)
      <4>1. i \in 1 .. (Len(wire) - 1) /\ wire'[i] = wire[i] /\ wire'[i + 1] = wire[i + 1]
        BY <1>2, <1>5, <3>1, <3>2
      <4> QED
        BY <4>1 DEF InLine
    <3>3. CASE i = Len(wire)
      <4>1. 1 \in 1 .. count /\ wire'[i] = wire[Len(wire)] /\ wire'[i + 1] = more[1]
        BY <1>2, <1>5, <3>1, <3>3
      <4>2. EndsLine(counts, wire[Len(wire)])
        BY <3>1, <3>3, EmptySeq DEF InLine
      <4>3. /\ wire[Len(wire)].message = Len(counts)
            /\ wire[Len(wire)].index + 1 = wire[Len(wire)].count
        BY <4>2 DEF EndsLine
      <4>4. wire[Len(wire)].index \in Nat /\ wire[Len(wire)].count \in Nat
        BY <3>1, <3>3, PartFacts
      <4>5. more[1].message = Len(counts) + 1 /\ more[1].index = 0
        BY <1>4, <4>1
      <4> QED
        BY <4>1, <4>3, <4>4, <4>5 DEF Follows
    <3>4. CASE i > Len(wire)
      <4> DEFINE j == i - Len(wire)
      <4>1. /\ j \in 1 .. count /\ j + 1 \in 1 .. count /\ j \in Nat /\ j < count
            /\ wire'[i] = more[j] /\ wire'[i + 1] = more[j + 1]
        BY <1>2, <1>5, <3>1, <3>4
      <4> HIDE DEF j
      <4>2. /\ more[j].message = Len(counts) + 1 /\ more[j].index = j - 1
            /\ more[j].count = count
            /\ more[j + 1].message = Len(counts) + 1 /\ more[j + 1].index = (j + 1) - 1
        BY <1>4, <4>1
      <4> QED
        BY <4>1, <4>2 DEF Follows
    <3> QED
      BY <1>2, <3>1, <3>2, <3>3, <3>4
  <2>2. EndsLine(counts', wire'[Len(wire')])
    <3>1. count \in 1 .. count /\ wire'[Len(wire')] = more[count]
      BY <1>2, <1>5, <1>6
    <3> QED
      BY <1>3, <1>4, <3>1 DEF EndsLine
  <2> QED
    BY <2>1, <2>2 DEF InLine
<1>9. Through' = Through /\ Through \in Nat /\ Through <= Len(counts)
  <2>1. CASE wire = << >>
    <3>1. more[1].message = Len(counts) + 1
      BY <1>4
    <3> QED
      BY <1>3, <1>6, <1>7, <2>1, <3>1 DEF Through
  <2>2. CASE wire # << >>
    <3>1. wire[1].message \in 1 .. Len(counts)
      BY <1>2, <1>7, <2>2, PartFacts
    <3> QED
      BY <1>3, <1>6, <1>7, <2>2, <3>1 DEF Through
  <2> QED
    BY <2>1, <2>2
<1>10. Routed'
  <2>1. {m \in 1 .. Through : Short(counts'[m])} = {m \in 1 .. Through : Short(counts[m])}
    <3>1. \A m \in 1 .. Through : counts'[m] = counts[m]
      BY <1>3, <1>9
    <3> QED
      BY <3>1
  <2> QED
    BY <1>1, <1>9, <2>1 DEF Routed
<1>11. OneEntry'
  <2>1. CASE wire = << >>
    <3>1. more[1].index = 1 - 1
      BY <1>4
    <3>2. ~Underway /\ ~Underway'
      BY <1>7, <2>1, <3>1 DEF Underway
    <3> QED
      BY <1>1, <3>2 DEF OneEntry
  <2>2. CASE wire # << >>
    <3>1. wire'[1] = wire[1] /\ (Underway' <=> Underway)
      BY <1>6, <1>7, <2>2 DEF Underway
    <3> QED
      BY <1>1, <3>1 DEF OneEntry
  <2> QED
    BY <2>1, <2>2
<1>12. QED
  BY <1>8, <1>10, <1>11

\* The next part comes out of the channel.
LEMMA ArriveKeepsOrder ==
  ASSUME PartsInv, InLine, Routed, OneEntry, ArriveInOrder
  PROVE  InLine' /\ Routed' /\ OneEntry'
<1> DEFINE p == wire[1]
<1>1. /\ 1 \in 1 .. Len(wire) /\ wire # << >> /\ wire' = Tail(wire)
      /\ Handle(p) /\ counts' = counts /\ reliable
  <2>1. wire # << >> /\ wire \in Seq(Parts)
    BY DEF ArriveInOrder, PartsInv, TypeOK
  <2>2. 1 \in 1 .. Len(wire) /\ Head(wire) = wire[1]
    BY <2>1, LenProperties, EmptySeq, HeadTailProperties
  <2> QED
    BY <2>1, <2>2 DEF ArriveInOrder
<1>2. PartsInv'
  BY ArriveParts
<1>3. /\ InLine'
      /\ p.index + 1 < p.count =>
           /\ wire' # << >> /\ Through' = Through
           /\ wire'[1].message = p.message /\ wire'[1].index = p.index + 1
           /\ wire'[1].sid = p.sid /\ wire'[1].count = p.count
      /\ p.index + 1 = p.count =>
           Through' = p.message /\ (wire' # << >> => wire'[1].index = 0)
  BY <1>1, <1>2, NextInLine
<1>4. /\ p \in Parts /\ Genuine(counts, p) /\ p.message \in Nat \ {0}
      /\ p.index \in Nat /\ p.count \in Nat /\ p.index < p.count
      /\ p.count = counts[p.message] /\ (TooLong(p) <=> ~Short(p.count))
  BY <1>1, PartFacts
<1>5. Through = p.message - 1
  BY <1>1 DEF Through
<1>6. combined \in Seq(Seq(Parts))
  BY DEF PartsInv, TypeOK
<1> HIDE DEF p
<1>7. CASE ~Short(p.count)
  <2>1. splits' = splits /\ combined' = combined
    BY <1>1, <1>4, <1>7, HandleCases
  <2>2. ~Underway /\ ~Underway'
    BY <1>1, <1>3, <1>4, <1>7 DEF Underway, p
  <2>3. {m \in 1 .. Through' : Short(counts'[m])} = {m \in 1 .. Through : Short(counts[m])}
    <3>1. CASE p.index + 1 < p.count
      BY <1>1, <1>3, <3>1
    <3>2. CASE p.index + 1 = p.count
      <4>1. 1 .. p.message = (1 .. (p.message - 1)) \cup {p.message}
        BY <1>4
      <4> QED
        BY <1>1, <1>3, <1>4, <1>5, <1>7, <3>2, <4>1
    <3> QED
      BY <1>4, <3>1, <3>2
  <2>4. Routed'
    BY <2>1, <2>3 DEF Routed
  <2>5. OneEntry'
    BY <2>1, <2>2 DEF OneEntry
  <2> QED
    BY <1>3, <2>4, <2>5
<1>8. CASE Short(p.count)
  <2>1. /\ DOMAIN splits \subseteq {p.sid} /\ ~NoRoom(p.sid) /\ ~TooLong(p)
        /\ DOMAIN Gathered(p) = 0 .. p.index
        /\ \A i \in DOMAIN Gathered(p) : Gathered(p)[i].message = p.message
        /\ Complete(Gathered(p), p) <=> p.index + 1 = p.count
    BY <1>1, <1>4, <1>8, BeforeFirst DEF p
  <2>2. CASE p.index + 1 < p.count
    <3>1. splits' = WithEntry(p.sid, Gathered(p)) /\ combined' = combined
      BY <1>1, <1>4, <2>1, <2>2, HandleCases
    <3>2. DOMAIN splits' = {p.sid} /\ splits'[p.sid] = Gathered(p)
      BY <2>1, <3>1 DEF WithEntry
    <3>3. Underway'
      BY <1>3, <1>4, <1>8, <2>2 DEF Underway
    <3>4. 0 .. (wire'[1].index - 1) = 0 .. p.index
      BY <1>3, <1>4, <2>2
    <3>5. OneEntry'
      BY <1>3, <2>1, <2>2, <3>2, <3>3, <3>4 DEF OneEntry
    <3>6. Routed'
      BY <1>1, <1>3, <2>2, <3>1 DEF Routed
    <3> QED
      BY <1>3, <3>5, <3>6
  <2>3. CASE p.index + 1 = p.count
    <3>1. 0 .. (p.count - 1) = 0 .. p.index
      BY <1>4, <2>3
    <3>2. splits' = Erased(p.sid) /\ combined' = Append(combined, Joined(p))
      BY <1>1, <1>4, <2>1, <2>3, <3>1, HandleCases
    <3>3. DOMAIN splits' = {}
      BY <2>1, <3>2 DEF Erased, Restrict
    <3>4. ~Underway'
      BY <1>3, <2>3 DEF Underway
    <3>5. Joined(p) \in Seq(Parts) /\ MessageOf(Joined(p)) = p.message
      <4>1. 0 \in DOMAIN Gathered(p) /\ p.count > 0
        BY <1>4, <2>1
      <4> QED
        BY <1>4, <2>1, <3>1, <4>1, JoinedIsMessage
    <3>6. Routed'
      <4> DEFINE n == Len(combined)
      <4>1. /\ n \in Nat /\ DOMAIN combined = 1 .. n /\ DOMAIN combined' = 1 .. (n + 1)
            /\ \A k \in 1 .. n : combined'[k] = combined[k]
            /\ combined'[n + 1] = Joined(p)
        BY <1>6, <3>2, <3>5, AppendProperties, LenProperties
      <4> HIDE DEF n
      <4>2. /\ {MessageOf(combined[k]) : k \in 1 .. n} = {m \in 1 .. Through : Short(counts[m])}
            /\ \A k, l \in 1 .. n : k < l => MessageOf(combined[k]) < MessageOf(combined[l])
        BY <4>1 DEF Routed
      <4>3. \A k \in 1 .. (n + 1) : k = n + 1 \/ k \in 1 .. n
        BY <4>1
      <4>4. {MessageOf(combined'[k]) : k \in 1 .. (n + 1)}
              = {MessageOf(combined[k]) : k \in 1 .. n} \cup {p.message}
        BY <3>5, <4>1, <4>3
      <4>5. {m \in 1 .. Through' : Short(counts'[m])}
              = {m \in 1 .. Through : Short(counts[m])} \cup {p.message}
        <5>1. 1 .. p.message = (1 .. (p.message - 1)) \cup {p.message}
          BY <1>4
        <5>2. Through' = p.message /\ Short(counts[p.message])
          BY <1>3, <1>4, <1>8, <2>3
        <5> QED
          BY <1>1, <1>5, <5>1, <5>2
      <4>6. \A k \in 1 .. n : MessageOf(combined[k]) \in 1 .. (p.message - 1)
        BY <1>5, <4>2
      <4>7. ASSUME NEW k \in 1 .. (n + 1), NEW l \in 1 .. (n + 1), k < l
            PROVE  MessageOf(combined'[k]) < MessageOf(combined'[l])
        <5>1. k \in 1 .. n
          BY <4>1, <4>7
        <5>2. CASE l = n + 1
          BY <1>4, <3>5, <4>1, <4>6, <5>1, <5>2
        <5>3. CASE l \in 1 .. n
          BY <4>1, <4>2, <4>7, <5>1, <5>3
        <5> QED
          BY <4>3, <5>2, <5>3
      <4> QED
        BY <4>1, <4>2, <4>4, <4>5, <4>7 DEF Routed
    <3>7. OneEntry'
      BY <3>3, <3>4 DEF OneEntry
    <3> QED
      BY <1>3, <3>6, <3>7
  <2> QED
    BY <1>4, <2>2, <2>3
<1>9. QED
  BY <1>7, <1>8

\* Handing a part over puts together a whole message, if anything.
LEMMA HandleJoinsWhole ==
  ASSUME PartsInv, reliable => OneEntry, reliable \/ Len(counts) <= SplitIds,
         NEW i \in 1 .. Len(wire), reliable => i = 1, Handle(wire[i])
  PROVE  \/ combined' = combined
         \/ /\ combined' = Append(combined, Joined(wire[i]))
            /\ wire[i].message \in DOMAIN counts /\ Joined(wire[i]) \in Seq(Parts)
            /\ Joined(wire[i]) = PartsOf(wire[i].message, counts[wire[i].message])
<1> DEFINE p == wire[i]
<1>1. /\ p \in Parts /\ Genuine(counts, p) /\ (TooLong(p) <=> ~Short(p.count))
      /\ p.message \in 1 .. Len(counts) /\ DOMAIN counts = 1 .. Len(counts)
      /\ Len(counts) \in Nat
  BY PartFacts, LenProperties DEF PartsInv, TypeOK
<1> SUFFICES ASSUME ~TooLong(p), ~NoRoom(p.sid), combined' = Append(combined, Joined(p)),
                    DOMAIN Gathered(p) = 0 .. (p.count - 1)
             PROVE  \A k \in DOMAIN Gathered(p) : Gathered(p)[k].message = p.message
  BY <1>1, HandleCases, JoinedIsMessage
<1>2. CASE reliable
  <2>1. wire # << >> /\ p = wire[1]
    <3>1. i = 1 /\ Len(wire) \in Nat
      BY <1>2, LenProperties DEF PartsInv, TypeOK
    <3> QED
      BY <3>1
  <2> QED
    BY <1>1, <1>2, <2>1, BeforeFirst
<1>3. CASE Len(counts) <= SplitIds
  <2> SUFFICES ASSUME NEW k \in DOMAIN Gathered(p)
               PROVE  Gathered(p)[k].message = p.message
    OBVIOUS
  <2> DEFINE q == Gathered(p)[k]
  <2>1. q \in Parts /\ Genuine(counts, q) /\ q.sid = p.sid
    BY <1>1, GatheredFacts
  <2>2. /\ SplitId(q.message) = SplitId(p.message)
        /\ q.message \in 1 .. Len(counts)
    BY <1>1, <2>1 DEF Genuine
  <2>3. q.message \in 1 .. SplitIds /\ p.message \in 1 .. SplitIds
    BY <1>1, <1>3, <2>2
  <2> QED
    BY <2>2, <2>3, FreshIds
<1>4. QED
  BY <1>2, <1>3

LEMMA WholeStep == WholeInv /\ [Next]_vars => WholeInv'
<1> SUFFICES ASSUME WholeInv, [Next]_vars PROVE WholeInv'
  OBVIOUS
<1>1. PartsInv /\ InOrderInv /\ WholeMessages /\ counts \in Seq(2 .. MaxParts)
  BY DEF WholeInv, PartsInv, TypeOK
<1>2. CASE UNCHANGED vars
  <2>1. PartsInv'
    BY <1>1, <1>2 DEF vars, PartsInv, TypeOK, KeptGenuine, WireGenuine
  <2>2. Through' = Through /\ (Underway' <=> Underway)
    BY <1>2 DEF vars, Through, Underway
  <2>3. InOrderInv'
    BY <1>1, <1>2, <2>2 DEF vars, InOrderInv, InLine, Routed, OneEntry
  <2>4. WholeMessages'
    BY <1>1, <1>2 DEF vars, WholeMessages
  <2> QED
    BY <2>1, <2>3, <2>4 DEF WholeInv
<1>3. ASSUME NEW count \in 2 .. MaxParts, Send(count) PROVE WholeInv'
  <2>1. PartsInv'
    BY <1>1, <1>3, SendParts
  <2>2. counts' = Append(counts, count) /\ combined' = combined /\ reliable' = reliable
    BY <1>3 DEF Send
  <2>3. InOrderInv'
    BY <1>1, <1>3, <2>2, SendInOrder DEF InOrderInv
  <2>4. WholeMessages'
    <3>1. /\ Len(counts) \in Nat /\ Len(counts') = Len(counts) + 1
          /\ \A m \in DOMAIN counts : m \in DOMAIN counts' /\ counts'[m] = counts[m]
      BY <1>1, <2>2, PartsOfNext DEF PartsInv
    <3>2. ASSUME reliable \/ Len(counts') <= SplitIds, NEW k \in DOMAIN combined
          PROVE  \E m \in DOMAIN counts' : combined[k] = PartsOf(m, counts'[m])
      <4>1. reliable \/ Len(counts) <= SplitIds
        BY <3>1, <3>2
      <4>2. PICK m \in DOMAIN counts : combined[k] = PartsOf(m, counts[m])
        BY <1>1, <3>2, <4>1 DEF WholeMessages
      <4> QED
        BY <3>1, <4>2
    <3> QED
      BY <2>2, <3>2 DEF WholeMessages
  <2> QED
    BY <2>1, <2>3, <2>4 DEF WholeInv
<1>4. CASE ArriveInOrder \/ ArriveAnyhow
  <2>1. PartsInv' /\ counts' = counts /\ reliable' = reliable
    BY <1>1, <1>4, ArriveParts DEF ArriveInOrder, ArriveAnyhow
  <2>2. PICK i \in 1 .. Len(wire) : Handle(wire[i]) /\ (reliable => i = 1)
    BY <1>1, <1>4, ArriveParts
  <2>3. InOrderInv'
    BY <1>1, <1>4, <2>1, ArriveKeepsOrder DEF InOrderInv, ArriveAnyhow
  <2>4. WholeMessages'
    <3> SUFFICES ASSUME reliable \/ Len(counts) <= SplitIds, NEW k \in DOMAIN combined'
                 PROVE  \E m \in DOMAIN counts : combined'[k] = PartsOf(m, counts[m])
      BY <2>1 DEF WholeMessages
    <3>1. \A l \in DOMAIN combined :
            \E m \in DOMAIN counts : combined[l] = PartsOf(m, counts[m])
      BY <1>1 DEF WholeMessages
    <3>2. CASE combined' = combined
      BY <3>1, <3>2
    <3>3. CASE /\ combined' = Append(combined, Joined(wire[i]))
               /\ wire[i].message \in DOMAIN counts /\ Joined(wire[i]) \in Seq(Parts)
               /\ Joined(wire[i]) = PartsOf(wire[i].message, counts[wire[i].message])
      <4>1. combined \in Seq(Seq(Parts))
        BY <1>1 DEF PartsInv, TypeOK
      <4>2. /\ k \in DOMAIN combined \/ k = Len(combined) + 1
            /\ \A l \in DOMAIN combined : combined'[l] = combined[l]
            /\ combined'[Len(combined) + 1] = Joined(wire[i])
        BY <3>3, <4>1, AppendProperties, LenProperties
      <4> QED
        BY <3>1, <3>3, <4>2
    <3> QED
      BY <1>1, <2>2, <3>2, <3>3, HandleJoinsWhole DEF InOrderInv
  <2> QED
    BY <2>1, <2>3, <2>4 DEF WholeInv
<1>5. QED
  BY <1>2, <1>3, <1>4 DEF Next

LEMMA WholeInit == Init => WholeInv
<1> SUFFICES ASSUME Init PROVE WholeInv
  OBVIOUS
<1>1. /\ DOMAIN << >> = {} /\ Len(<< >>) = 0
      /\ << >> \in Seq(2 .. MaxParts) /\ << >> \in Seq(Parts) /\ << >> \in Seq(Seq(Parts))
  BY EmptySeq
<1>2. /\ counts = << >> /\ wire = << >> /\ splits = << >> /\ combined = << >>
      /\ reliable \in BOOLEAN /\ repeats = 0
  BY DEF Init
<1>3. TypeOK
  BY <1>1, <1>2 DEF TypeOK
<1>4. KeptGenuine
  <2>1. << >> = [sid \in DOMAIN << >> |-> << >>[sid]]
    OBVIOUS
  <2> QED
    BY <1>1, <1>2, <2>1 DEF KeptGenuine
<1>5. WireGenuine /\ InLine
  BY <1>1, <1>2 DEF WireGenuine, InLine
<1>6. Routed
  BY <1>1, <1>2 DEF Routed, Through
<1>7. OneEntry
  BY <1>1, <1>2 DEF OneEntry, Underway
<1>8. WholeMessages
  BY <1>1, <1>2 DEF WholeMessages
<1>9. QED
  BY <1>3, <1>4, <1>5, <1>6, <1>7, <1>8 DEF WholeInv, PartsInv, InOrderInv

LEMMA AlwaysWhole == Spec => []WholeInv
BY WholeInit, WholeStep, PTL DEF Spec

\* The variables have their types.
THEOREM PartsType == Spec => []TypeOK
<1>1. WholeInv => TypeOK
  BY DEF WholeInv, PartsInv
<1>2. QED
  BY <1>1, AlwaysWhole, PTL

\* Parts of two messages are never mixed while split ids are fresh, and never
\* on a reliable channel, however many ids were used again.
THEOREM NeverMixed == Spec => []WholeMessages
<1>1. WholeInv => WholeMessages
  BY DEF WholeInv
<1>2. QED
  BY <1>1, AlwaysWhole, PTL

\* On a reliable channel exactly the messages of fewer than kMaxSplitSize parts
\* come out, in order and once each, and nothing of the others is kept.
THEOREM OnlyLongAreLost == Spec => []LongAreLost
<1>1. WholeInv => LongAreLost
  <2> SUFFICES ASSUME WholeInv, reliable, wire = << >>
               PROVE  /\ {MessageOf(combined[k]) : k \in DOMAIN combined}
                           = {m \in DOMAIN counts : Short(counts[m])}
                      /\ \A k, l \in DOMAIN combined :
                           k < l => MessageOf(combined[k]) < MessageOf(combined[l])
                      /\ splits = << >>
    BY DEF LongAreLost
  <2>1. Routed /\ OneEntry /\ KeptGenuine /\ counts \in Seq(2 .. MaxParts)
    BY DEF WholeInv, InOrderInv, PartsInv, TypeOK
  <2>2. Through = Len(counts) /\ DOMAIN counts = 1 .. Len(counts) /\ ~Underway
    BY <2>1, LenProperties DEF Through, Underway
  <2>3. DOMAIN splits = {} /\ splits = [sid \in DOMAIN splits |-> splits[sid]]
    BY <2>1, <2>2 DEF OneEntry, KeptGenuine
  <2>4. splits = << >>
    BY <2>3
  <2> QED
    BY <2>1, <2>2, <2>4 DEF Routed
<1>2. QED
  BY <1>1, AlwaysWhole, PTL
=============================================================================
