-------------------------- MODULE ContainersProofs --------------------------
(***************************************************************************)
(* Containers, for a row of any length and any players, items and          *)
(* directions; then Rails, on any ground, and Redstone, on a line of any   *)
(* length.                                                                 *)
(***************************************************************************)
EXTENDS Containers, MCRails, MCRedstone, FiniteSetTheorems, SequenceTheorems,
        WellFoundedInduction, TLAPS

\* A table of inventories, as Level::chests_ is one.
IsTable(cs) ==
  DOMAIN cs \subseteq Positions /\ \A pos \in DOMAIN cs : cs[pos] \in Chests

\* Two tables hold the same items.
SameContent(cs, ds) == \A pos \in Positions : Content(cs, pos) = Content(ds, pos)

LEMMA UnpairedIsNoPosition == Unpaired \notin Positions
  BY ContainersAssumption DEF Unpaired, Positions

LEMMA ChestFields ==
  ASSUME NEW c \in Chests
  PROVE  /\ \A s \in Items \cup {Air} : LET d == [c EXCEPT !.slot = s] IN
              d \in Chests /\ d.slot = s /\ d.pair = c.pair
         /\ \A b \in Positions \cup {Unpaired} : LET d == [c EXCEPT !.pair = b] IN
              d \in Chests /\ d.slot = c.slot /\ d.pair = b
  BY DEF Chests

LEMMA NewChestIsChest ==
  NewChest \in Chests /\ NewChest.slot = Air /\ NewChest.pair = Unpaired
  BY DEF NewChest, Chests

LEMMA Create ==
  ASSUME NEW cs, IsTable(cs), NEW pos \in Positions
  PROVE  /\ IsTable(GetOrCreate(cs, pos))
         /\ DOMAIN GetOrCreate(cs, pos) = DOMAIN cs \cup {pos}
         /\ \A q \in DOMAIN cs : GetOrCreate(cs, pos)[q] = cs[q]
         /\ pos \notin DOMAIN cs => GetOrCreate(cs, pos)[pos] = NewChest
         /\ SameContent(GetOrCreate(cs, pos), cs)
  BY NewChestIsChest DEF GetOrCreate, IsTable, SameContent, Content

Holds(cs, pos, s) == Content(cs, pos) = s

\* Writing a slot of a table that may lack it.
Wrote(cs, pos, s) == [GetOrCreate(cs, pos) EXCEPT ![pos].slot = s]

LEMMA WriteSlot ==
  ASSUME NEW cs, IsTable(cs), NEW pos \in Positions, NEW s \in Items \cup {Air}
  PROVE  /\ IsTable(Wrote(cs, pos, s))
         /\ DOMAIN Wrote(cs, pos, s) = DOMAIN cs \cup {pos}
         /\ \A q \in DOMAIN cs : Wrote(cs, pos, s)[q].pair = cs[q].pair
         /\ Holds(Wrote(cs, pos, s), pos, s)
         /\ \A q \in Positions \ {pos} : Content(Wrote(cs, pos, s), q) = Content(cs, q)
<1> DEFINE one == GetOrCreate(cs, pos)
           c == [one[pos] EXCEPT !.slot = s]
           ds == [one EXCEPT ![pos] = c]
<1>1. /\ IsTable(one) /\ DOMAIN one = DOMAIN cs \cup {pos} /\ SameContent(one, cs)
      /\ \A q \in DOMAIN cs : one[q] = cs[q]
  BY Create
<1>2. Wrote(cs, pos, s) = ds
  BY DEF Wrote
<1> HIDE DEF one
<1>3. c \in Chests /\ c.slot = s /\ c.pair = one[pos].pair
  <2>1. one[pos] \in Chests
    BY <1>1 DEF IsTable
  <2>2. QED
    BY <2>1, ChestFields
<1> HIDE DEF c
<1>4. /\ DOMAIN ds = DOMAIN one /\ ds[pos] = c
      /\ \A q \in DOMAIN one : q # pos => ds[q] = one[q]
  BY <1>1
<1> HIDE DEF ds
<1>5. IsTable(ds) /\ \A q \in DOMAIN cs : ds[q].pair = cs[q].pair
  BY <1>1, <1>3, <1>4 DEF IsTable
<1>6. /\ Holds(ds, pos, s)
      /\ \A q \in Positions \ {pos} : Content(ds, q) = Content(cs, q)
  BY <1>1, <1>3, <1>4 DEF SameContent, Content, Holds
<1>7. QED
  BY <1>1, <1>2, <1>4, <1>5, <1>6

\* Writing a partner.
LEMMA WritePair ==
  ASSUME NEW cs, IsTable(cs), NEW pos \in DOMAIN cs, NEW b \in Positions \cup {Unpaired}
  PROVE  LET ds == [cs EXCEPT ![pos].pair = b] IN
         /\ IsTable(ds) /\ DOMAIN ds = DOMAIN cs /\ SameContent(ds, cs)
         /\ \A q \in DOMAIN cs : ds[q].pair = IF q = pos THEN b ELSE cs[q].pair
<1> DEFINE c == [cs[pos] EXCEPT !.pair = b]
           ds == [cs EXCEPT ![pos] = c]
<1>1. c \in Chests /\ c.slot = cs[pos].slot /\ c.pair = b
  BY ChestFields DEF IsTable
<1>2. [cs EXCEPT ![pos].pair = b] = ds
  OBVIOUS
<1> HIDE DEF c
<1>3. /\ IsTable(ds) /\ DOMAIN ds = DOMAIN cs /\ SameContent(ds, cs)
      /\ \A q \in DOMAIN cs : ds[q].pair = IF q = pos THEN b ELSE cs[q].pair
  BY <1>1 DEF IsTable, Content, SameContent
<1>4. QED
  BY <1>2, <1>3

\* Two chests become partners; whoever pointed to them is not asked.
LEMMA Pairing ==
  ASSUME NEW cs, IsTable(cs), NEW a \in Positions, NEW b \in Positions, a # b
  PROVE  LET ds == Paired(cs, a, b) IN
         /\ IsTable(ds) /\ DOMAIN ds = DOMAIN cs \cup {a, b} /\ SameContent(ds, cs)
         /\ ds[a].pair = b /\ ds[b].pair = a
         /\ \A q \in DOMAIN cs : q # a /\ q # b => ds[q].pair = cs[q].pair
<1> DEFINE one == GetOrCreate(cs, a)
           both == GetOrCreate(one, b)
           half == [both EXCEPT ![a].pair = b]
           ds == [half EXCEPT ![b].pair = a]
<1>1. /\ IsTable(one) /\ DOMAIN one = DOMAIN cs \cup {a} /\ SameContent(one, cs)
      /\ \A q \in DOMAIN cs : one[q] = cs[q]
  BY Create
<1> HIDE DEF one
<1>2. /\ IsTable(both) /\ DOMAIN both = DOMAIN one \cup {b} /\ SameContent(both, one)
      /\ \A q \in DOMAIN one : both[q] = one[q]
  BY <1>1, Create
<1> HIDE DEF both
<1>3. /\ IsTable(half) /\ DOMAIN half = DOMAIN both /\ SameContent(half, both)
      /\ \A q \in DOMAIN both : half[q].pair = IF q = a THEN b ELSE both[q].pair
  BY <1>1, <1>2, WritePair
<1> HIDE DEF half
<1>4. /\ IsTable(ds) /\ DOMAIN ds = DOMAIN half /\ SameContent(ds, half)
      /\ \A q \in DOMAIN half : ds[q].pair = IF q = b THEN a ELSE half[q].pair
  <2>1. IsTable(half) /\ b \in DOMAIN half /\ a \in Positions \cup {Unpaired}
    BY <1>2, <1>3
  <2>2. QED
    BY <2>1, WritePair
<1>5. ds = Paired(cs, a, b)
  BY DEF Paired, half, both, one
<1> HIDE DEF ds
<1>6. SameContent(ds, cs)
  BY <1>1, <1>2, <1>3, <1>4 DEF SameContent
<1>7. QED
  BY <1>1, <1>2, <1>3, <1>4, <1>5, <1>6

LEMMA Unpairing ==
  ASSUME NEW cs, IsTable(cs), NEW pos
  PROVE  LET ds == Unpair(cs, pos) IN
         /\ IsTable(ds) /\ DOMAIN ds = DOMAIN cs /\ SameContent(ds, cs)
         /\ pos \in DOMAIN cs => ds[pos].pair = Unpaired
         /\ \A q \in DOMAIN cs \ {pos} :
              ds[q].pair = IF pos \in DOMAIN cs /\ cs[pos].pair = q /\ cs[q].pair = pos
                           THEN Unpaired ELSE cs[q].pair
<1> DEFINE ds == Unpair(cs, pos)
           free(q) == q = pos \/ (pos \in DOMAIN cs /\ cs[pos].pair = q /\ cs[q].pair = pos)
<1>1. DOMAIN ds = DOMAIN cs
  BY DEF Unpair
<1>2. ASSUME NEW q \in DOMAIN cs
      PROVE  /\ ds[q] \in Chests /\ ds[q].slot = cs[q].slot
             /\ ds[q].pair = IF free(q) THEN Unpaired ELSE cs[q].pair
  <2>1. cs[q] \in Chests
    BY DEF IsTable
  <2>2. LET d == [cs[q] EXCEPT !.pair = Unpaired] IN
          d \in Chests /\ d.slot = cs[q].slot /\ d.pair = Unpaired
    BY <2>1, ChestFields
  <2>3. ds[q] = IF free(q) THEN [cs[q] EXCEPT !.pair = Unpaired] ELSE cs[q]
    BY DEF Unpair
  <2>4. QED
    BY <2>1, <2>2, <2>3
<1> HIDE DEF ds
<1>3. IsTable(ds) /\ SameContent(ds, cs)
  BY <1>1, <1>2 DEF IsTable, SameContent, Content
<1>4. QED
  BY <1>1, <1>2, <1>3 DEF ds

\* removeChest(): the slots go, and so does the partner's pointer.
LEMMA Removing ==
  ASSUME NEW cs, IsTable(cs), NEW pos \in Positions
  PROVE  LET ds == Removed(cs, pos) IN
         /\ IsTable(ds) /\ DOMAIN ds = DOMAIN cs \ {pos}
         /\ \A q \in Positions : Content(ds, q) = IF q = pos THEN Air ELSE Content(cs, q)
         /\ \A q \in DOMAIN cs \ {pos} :
              ds[q].pair = IF pos \in DOMAIN cs /\ cs[pos].pair = q /\ cs[q].pair = pos
                           THEN Unpaired ELSE cs[q].pair
<1> DEFINE rest == Unpair(cs, pos)
           ds == Restrict(rest, DOMAIN rest \ {pos})
<1>1. /\ IsTable(rest) /\ DOMAIN rest = DOMAIN cs /\ SameContent(rest, cs)
      /\ \A q \in DOMAIN cs \ {pos} :
           rest[q].pair = IF pos \in DOMAIN cs /\ cs[pos].pair = q /\ cs[q].pair = pos
                          THEN Unpaired ELSE cs[q].pair
  BY Unpairing
<1>2. ds = Removed(cs, pos)
  BY DEF Removed
<1> HIDE DEF rest
<1>3. DOMAIN ds = DOMAIN cs \ {pos} /\ \A q \in DOMAIN ds : ds[q] = rest[q]
  BY <1>1 DEF Restrict
<1> HIDE DEF ds
<1>4. IsTable(ds)
  BY <1>1, <1>3 DEF IsTable
<1>5. \A q \in Positions : Content(ds, q) = IF q = pos THEN Air ELSE Content(cs, q)
  BY <1>1, <1>3 DEF SameContent, Content
<1>6. QED
  BY <1>1, <1>2, <1>3, <1>4, <1>5

\* What openChest() finds: the inventory is there, and so is its partner.
LEMMA Tidying ==
  ASSUME IsTable(chests), NEW pos \in Positions
  PROVE  LET cs == Tidied(pos) IN
         /\ IsTable(cs) /\ DOMAIN cs = DOMAIN chests \cup {pos} /\ SameContent(cs, chests)
         /\ cs[pos].pair \in DOMAIN cs \cup {Unpaired}
         /\ \/ cs = GetOrCreate(chests, pos)
            \/ pos \in DOMAIN chests /\ chests[pos].pair # Unpaired
               /\ ~(chests[pos].pair \in DOMAIN chests /\ IsChest(chests[pos].pair))
<1> DEFINE gs == GetOrCreate(chests, pos)
           partner == gs[pos].pair
           there == partner = Unpaired \/ (partner \in DOMAIN gs /\ IsChest(partner))
<1>1. /\ IsTable(gs) /\ DOMAIN gs = DOMAIN chests \cup {pos} /\ SameContent(gs, chests)
      /\ \A q \in DOMAIN chests : gs[q] = chests[q]
      /\ pos \notin DOMAIN chests => gs[pos] = NewChest
  BY Create
<1>2. Tidied(pos) = IF there THEN gs ELSE Unpair(gs, pos)
  BY DEF Tidied
<1>3. CASE there
  BY <1>1, <1>2, <1>3
<1>4. CASE ~there
  <2> DEFINE ds == Unpair(gs, pos)
  <2>1. /\ IsTable(ds) /\ DOMAIN ds = DOMAIN gs /\ SameContent(ds, gs)
        /\ ds[pos].pair = Unpaired
    BY <1>1, Unpairing
  <2>2. Tidied(pos) = ds
    BY <1>2, <1>4
  <2> HIDE DEF ds
  <2>3. pos \in DOMAIN chests
    BY <1>1, <1>4, NewChestIsChest
  <2>4. partner = chests[pos].pair /\ gs[pos] = chests[pos]
    BY <1>1, <2>3
  <2>5. /\ chests[pos].pair # Unpaired
        /\ ~(chests[pos].pair \in DOMAIN chests /\ IsChest(chests[pos].pair))
    BY <1>1, <1>4, <2>4
  <2>6. SameContent(ds, chests)
    BY <1>1, <2>1 DEF SameContent
  <2>7. QED
    BY <1>1, <2>1, <2>2, <2>3, <2>5, <2>6
<1>5. QED
  BY <1>3, <1>4
-----------------------------------------------------------------------------
\* The table after each step that changes it: a chest that is placed stays
\* alone, or is joined to the one at b.
Lone(pos) ==
  /\ DOMAIN chests' = DOMAIN chests \cup {pos}
  /\ \A q \in DOMAIN chests : chests'[q].pair = chests[q].pair
  /\ pos \notin DOMAIN chests => chests'[pos].pair = Unpaired

Joined(pos, b, facing) ==
  /\ b \in {pos - 1, pos + 1} /\ IsChest(b) /\ block[b] = facing
  /\ b \in DOMAIN chests => chests[b].pair = Unpaired
  /\ DOMAIN chests' = DOMAIN chests \cup {pos, b}
  /\ chests'[pos].pair = b /\ chests'[b].pair = pos
  /\ \A q \in DOMAIN chests : q # pos /\ q # b => chests'[q].pair = chests[q].pair

LEMMA PlaceTable ==
  ASSUME TypeOK, NEW pos \in Positions, NEW facing \in Facings, Place(pos, facing)
  PROVE  /\ IsTable(chests') /\ SameContent(chests', chests)
         /\ Lone(pos) \/ \E b \in Positions : Joined(pos, b, facing)
<1> DEFINE cs == GetOrCreate(chests, pos)
<1>1. IsTable(chests)
  BY DEF TypeOK, IsTable
<1>2. /\ IsTable(cs) /\ DOMAIN cs = DOMAIN chests \cup {pos} /\ SameContent(cs, chests)
      /\ \A q \in DOMAIN chests : cs[q] = chests[q]
      /\ pos \notin DOMAIN chests => cs[pos] = NewChest
  BY <1>1, Create
<1>3. chests' = IF Pairable(cs, pos - 1, facing) THEN Paired(cs, pos, pos - 1)
                ELSE IF Pairable(cs, pos + 1, facing) THEN Paired(cs, pos, pos + 1)
                ELSE cs
  BY DEF Place
<1> HIDE DEF cs
<1>4. ASSUME NEW b \in {pos - 1, pos + 1}, Pairable(cs, b, facing),
             chests' = Paired(cs, pos, b)
      PROVE  /\ IsTable(chests') /\ SameContent(chests', chests)
             /\ b \in Positions /\ Joined(pos, b, facing)
  <2>1. /\ b \in Positions /\ IsChest(b) /\ block[b] = facing
        /\ b \in DOMAIN cs => cs[b].pair = Unpaired
    BY <1>4 DEF Pairable, IsChest
  <2>2. pos # b
    BY ContainersAssumption DEF Positions
  <2>3. /\ IsTable(chests') /\ DOMAIN chests' = DOMAIN cs \cup {pos, b}
        /\ SameContent(chests', cs) /\ chests'[pos].pair = b /\ chests'[b].pair = pos
        /\ \A q \in DOMAIN cs : q # pos /\ q # b => chests'[q].pair = cs[q].pair
    <3>1. \A a \in Positions : a # pos =>
            LET ds == Paired(cs, pos, a) IN
            /\ IsTable(ds) /\ DOMAIN ds = DOMAIN cs \cup {pos, a} /\ SameContent(ds, cs)
            /\ ds[pos].pair = a /\ ds[a].pair = pos
            /\ \A q \in DOMAIN cs : q # pos /\ q # a => ds[q].pair = cs[q].pair
      BY <1>2, Pairing
    <3>2. QED
      BY <3>1, <1>4, <2>1, <2>2
  <2>4. SameContent(chests', chests)
    BY <1>2, <2>3 DEF SameContent
  <2>5. Joined(pos, b, facing)
    BY <1>2, <1>4, <2>1, <2>3 DEF Joined
  <2>6. QED
    BY <2>1, <2>3, <2>4, <2>5
<1>5. CASE chests' = cs
  BY <1>2, <1>5, NewChestIsChest DEF Lone
<1>6. QED
  BY <1>3, <1>4, <1>5

LEMMA BreakTable ==
  ASSUME TypeOK, NEW pos \in Positions, Break(pos)
  PROVE  /\ IsTable(chests') /\ DOMAIN chests' = DOMAIN chests \ {pos}
         /\ \A q \in Positions : Content(chests', q) = IF q = pos THEN Air ELSE Content(chests, q)
         /\ \A q \in DOMAIN chests \ {pos} :
              chests'[q].pair = IF pos \in DOMAIN chests /\ chests[pos].pair = q
                                   /\ chests[q].pair = pos
                                THEN Unpaired ELSE chests[q].pair
<1>1. IsTable(chests) /\ chests' = Removed(chests, pos)
  BY DEF TypeOK, IsTable, Break
<1> DEFINE ds == Removed(chests, pos)
<1>2. /\ IsTable(ds) /\ DOMAIN ds = DOMAIN chests \ {pos}
      /\ \A q \in Positions : Content(ds, q) = IF q = pos THEN Air ELSE Content(chests, q)
      /\ \A q \in DOMAIN chests \ {pos} :
           ds[q].pair = IF pos \in DOMAIN chests /\ chests[pos].pair = q
                           /\ chests[q].pair = pos
                        THEN Unpaired ELSE chests[q].pair
  BY <1>1, Removing
<1> HIDE DEF ds
<1>3. QED
  BY <1>1, <1>2 DEF ds

LEMMA SendTable ==
  ASSUME TypeOK, SendChunk
  PROVE  /\ IsTable(chests') /\ SameContent(chests', chests)
         /\ DOMAIN chests \subseteq DOMAIN chests'
         /\ \E pos \in Positions : IsChest(pos) /\ pos \notin DOMAIN chests
  BY NewChestIsChest DEF TypeOK, IsTable, SendChunk, SameContent, Content

\* A slot that is written, by a client or by a hopper.
LEMMA SlotTable ==
  ASSUME TypeOK, NEW pos \in Positions, NEW s \in Items \cup {Air},
         chests' = Wrote(chests, pos, s)
  PROVE  /\ IsTable(chests') /\ DOMAIN chests' = DOMAIN chests \cup {pos}
         /\ \A q \in DOMAIN chests : chests'[q].pair = chests[q].pair
         /\ Content(chests', pos) = s
         /\ \A q \in Positions \ {pos} : Content(chests', q) = Content(chests, q)
<1>1. IsTable(chests)
  BY DEF TypeOK, IsTable
<1> DEFINE ds == Wrote(chests, pos, s)
<1>2. /\ IsTable(ds) /\ DOMAIN ds = DOMAIN chests \cup {pos}
      /\ \A q \in DOMAIN chests : ds[q].pair = chests[q].pair
  BY <1>1, WriteSlot
<1>3. Content(ds, pos) = s
  <2>1. Holds(ds, pos, s)
    BY <1>1, WriteSlot
  <2>2. QED
    BY <2>1 DEF Holds
<1>4. \A q \in Positions \ {pos} : Content(ds, q) = Content(chests, q)
  BY <1>1, WriteSlot
<1>5. ds = chests'
  OBVIOUS
<1> HIDE DEF ds
<1>6. QED
  BY <1>2, <1>3, <1>4, <1>5

\* Hoppers and clients write slots that way.
LEMMA WriteTable ==
  ASSUME TypeOK, NEW pos \in Positions, NEW item \in Items \cup {Air}, WriteChest(pos, item)
  PROVE  /\ IsTable(chests') /\ DOMAIN chests' = DOMAIN chests \cup {pos}
         /\ \A q \in DOMAIN chests : chests'[q].pair = chests[q].pair
         /\ Content(chests', pos) = item
         /\ \A q \in Positions \ {pos} : Content(chests', q) = Content(chests, q)
<1>1. chests' = Wrote(chests, pos, item)
  BY DEF WriteChest, Wrote
<1>2. QED
  BY <1>1, SlotTable

LEMMA HopperTable ==
  ASSUME TypeOK, NEW pos \in Positions, HopperMove(pos)
  PROVE  /\ IsTable(chests') /\ DOMAIN chests' = DOMAIN chests \cup {pos}
         /\ \A q \in DOMAIN chests : chests'[q].pair = chests[q].pair
         /\ Content(chests', pos) = hopper
         /\ \A q \in Positions \ {pos} : Content(chests', q) = Content(chests, q)
         /\ hopper' = Content(chests, pos)
<1>1. hopper \in Items \cup {Air} /\ IsTable(chests)
  BY DEF TypeOK, IsTable
<1>2. chests' = Wrote(chests, pos, hopper)
  BY DEF HopperMove, Wrote
<1>3. hopper' = GetOrCreate(chests, pos)[pos].slot
  BY DEF HopperMove
<1>4. hopper' = Content(GetOrCreate(chests, pos), pos)
  BY <1>3 DEF GetOrCreate, Content
<1>5. hopper' = Content(chests, pos)
  BY <1>1, <1>4, Create DEF SameContent
<1>6. QED
  BY <1>1, <1>2, <1>5, SlotTable

\* What openChest() does to the tables.
LEMMA OpenTable ==
  ASSUME TypeOK, NEW p \in Players, NEW pos \in Positions, Open(p, pos)
  PROVE  /\ IsTable(chests') /\ DOMAIN chests' = DOMAIN chests \cup {pos}
         /\ SameContent(chests', chests)
         /\ chests'[pos].pair \in DOMAIN chests' \cup {Unpaired}
         /\ \/ chests' = GetOrCreate(chests, pos)
            \/ pos \in DOMAIN chests /\ chests[pos].pair # Unpaired
               /\ ~(chests[pos].pair \in DOMAIN chests /\ IsChest(chests[pos].pair))
<1>1. IsTable(chests) /\ chests' = Tidied(pos)
  BY DEF TypeOK, IsTable, Open
<1> DEFINE cs == Tidied(pos)
<1>2. /\ IsTable(cs) /\ DOMAIN cs = DOMAIN chests \cup {pos} /\ SameContent(cs, chests)
      /\ cs[pos].pair \in DOMAIN cs \cup {Unpaired}
      /\ \/ cs = GetOrCreate(chests, pos)
         \/ pos \in DOMAIN chests /\ chests[pos].pair # Unpaired
            /\ ~(chests[pos].pair \in DOMAIN chests /\ IsChest(chests[pos].pair))
  BY <1>1, Tidying
<1>3. cs = chests'
  BY <1>1
<1> HIDE DEF cs
<1>4. QED
  BY <1>2, <1>3

\* The window that is opened: its halves are chests' inventories.
LEMMA OpenWindow ==
  ASSUME TypeOK, NEW p \in Players, NEW pos \in Positions, Open(p, pos)
  PROVE  /\ DOMAIN windows' = DOMAIN windows \cup {p} /\ DOMAIN shows' = DOMAIN windows'
         /\ windows'[p] \in Windows
         /\ windows'[p].left \in DOMAIN chests'
         /\ shows'[p] = Shown(chests', windows'[p])
         /\ \A q \in DOMAIN windows \ {p} :
              /\ windows'[q] \in Windows
              /\ windows'[q].left = windows[q].left /\ windows'[q].right = windows[q].right
              /\ windows'[q].cut = windows[q].cut /\ windows'[q].crossed = windows[q].crossed
              /\ windows[q].shared => windows'[q].shared
              /\ Halves(windows[q]) \cap Halves(windows'[p]) # {} =>
                   windows'[q].shared /\ windows'[p].shared
              /\ shows'[q] = shows[q]
<1> DEFINE partner == chests'[pos].pair
           w == WindowOn(pos, partner)
           others == {q \in DOMAIN windows \ {p} : Halves(windows[q]) \cap Halves(w) # {}}
           mine == [left |-> w.left, right |-> w.right, shared |-> others # {}, cut |-> FALSE,
                    crossed |-> FALSE]
           theirs(q) == [windows[q] EXCEPT !.shared = @ \/ q \in others]
<1>1. /\ pos \in DOMAIN chests' /\ partner \in DOMAIN chests' \cup {Unpaired}
      /\ DOMAIN chests' \subseteq Positions
  BY OpenTable DEF IsTable
<1>2. /\ w.left \in DOMAIN chests' /\ w.left \in Positions
      /\ w.right \in Positions \cup {Unpaired}
  BY <1>1 DEF WindowOn
<1>3. /\ windows' = [q \in DOMAIN windows \cup {p} |-> IF q = p THEN mine ELSE theirs(q)]
      /\ shows' = [q \in DOMAIN windows \cup {p} |->
                     IF q = p THEN Shown(chests', w) ELSE shows[q]]
  BY DEF Open
<1>4. mine \in Windows /\ Halves(mine) = Halves(w)
  BY <1>2 DEF Windows, Halves
<1> HIDE DEF w
<1>5. \A q \in DOMAIN windows \ {p} :
        /\ theirs(q) \in Windows
        /\ theirs(q).left = windows[q].left /\ theirs(q).right = windows[q].right
        /\ theirs(q).cut = windows[q].cut /\ theirs(q).crossed = windows[q].crossed
        /\ windows[q].shared \/ q \in others => theirs(q).shared
  BY DEF TypeOK, Windows
<1>6. windows'[p] = mine /\ shows'[p] = Shown(chests', mine)
  BY <1>3, <1>4 DEF Shown
<1>7. \A q \in DOMAIN windows \ {p} : windows'[q] = theirs(q) /\ shows'[q] = shows[q]
  BY <1>3
<1>8. /\ DOMAIN windows' = DOMAIN windows \cup {p} /\ DOMAIN shows' = DOMAIN windows'
  BY <1>3
<1>9. mine.left = w.left /\ mine.shared = (others # {})
  OBVIOUS
<1> HIDE DEF mine, theirs
<1>10. \A q \in DOMAIN windows \ {p} :
         Halves(windows[q]) \cap Halves(windows'[p]) # {} =>
           windows'[q].shared /\ windows'[p].shared
  BY <1>4, <1>5, <1>6, <1>7, <1>9
<1>11. QED
  BY <1>2, <1>4, <1>5, <1>6, <1>7, <1>8, <1>9, <1>10
-----------------------------------------------------------------------------
\* A write is of one of three kinds.
LEMMA MessageKinds ==
  ASSUME NEW m \in Messages
  PROVE  /\ m.kind = "chest" => m.pos \in Positions /\ m.item \in Items \cup {Air}
         /\ m.kind = "own" => m.item \in Items \cup {Air}
         /\ m.kind \in {"chest", "own", "gone"}
  BY DEF Messages

\* What closes a window voids its player's writes to it and no others.
LEMMA Voiding ==
  ASSUME TypeOK, NEW S \in SUBSET Players, up' = Voided(S)
  PROVE  /\ up' \in [Players -> Seq(Messages)]
         /\ \A p \in Players \ S : up'[p] = up[p]
         /\ \A p \in S : \A k \in DOMAIN up'[p] : up'[p][k].kind # "chest"
<1> DEFINE void(p) == [k \in DOMAIN up[p] |->
                         IF up[p][k].kind = "chest" THEN [kind |-> "gone"] ELSE up[p][k]]
           gone == [kind |-> "gone"]
<1>1. gone \in Messages /\ gone.kind = "gone"
  BY DEF Messages
<1>2. ASSUME NEW p \in Players
      PROVE  /\ void(p) \in Seq(Messages)
             /\ \A k \in DOMAIN void(p) : void(p)[k].kind # "chest"
  <2>1. PICK n \in Nat : up[p] \in [1 .. n -> Messages] /\ DOMAIN up[p] = 1 .. n
    <3>1. up[p] \in Seq(Messages)
      BY DEF TypeOK
    <3>2. Len(up[p]) \in Nat /\ DOMAIN up[p] = 1 .. Len(up[p])
          /\ up[p] \in [1 .. Len(up[p]) -> Messages]
      BY <3>1
    <3>3. QED
      BY <3>2
  <2>2. void(p) \in [1 .. n -> Messages]
    BY <1>1, <2>1
  <2>3. void(p) \in Seq(Messages)
    BY <2>2, SeqDef
  <2>4. \A k \in DOMAIN void(p) : void(p)[k].kind # "chest"
    BY <1>1
  <2>5. QED
    BY <2>3, <2>4
<1>3. up' = [p \in Players |-> IF p \in S THEN void(p) ELSE up[p]]
  BY DEF Voided
<1> HIDE DEF void
<1>4. /\ DOMAIN up' = Players /\ \A p \in Players \ S : up'[p] = up[p]
      /\ \A p \in S : up'[p] = void(p)
  BY <1>3
<1>5. \A p \in Players : up[p] \in Seq(Messages)
  BY DEF TypeOK
<1>6. up' \in [Players -> Seq(Messages)]
  BY <1>2, <1>3, <1>5
<1>7. QED
  BY <1>2, <1>4, <1>6

\* handleContainerSetSlot() takes the first write that has come.
LEMMA SetSlotQueue ==
  ASSUME TypeOK, NEW p \in Players, HandleSetSlot(p)
  PROVE  /\ Head(up[p]) \in Messages /\ Head(up[p]) = up[p][1]
         /\ 1 \in DOMAIN up[p]
         /\ up' \in [Players -> Seq(Messages)]
         /\ \A q \in Players \ {p} : up'[q] = up[q]
         /\ up'[p] = Tail(up[p])
         /\ \A k \in Nat : k \in DOMAIN up'[p] <=> k > 0 /\ k + 1 \in DOMAIN up[p]
         /\ \A k \in DOMAIN up'[p] : k \in Nat /\ up'[p][k] = up[p][k + 1]
<1>1. up[p] \in Seq(Messages) /\ up[p] # << >> /\ up' = [up EXCEPT ![p] = Tail(@)]
  BY DEF TypeOK, HandleSetSlot
<1>2. up'[p] = Tail(up[p]) /\ \A q \in Players \ {p} : up'[q] = up[q]
  BY <1>1 DEF TypeOK
<1>3. Tail(up[p]) \in Seq(Messages) /\ Len(Tail(up[p])) = Len(up[p]) - 1
  BY <1>1
<1>4. \A k \in 1 .. Len(Tail(up[p])) : Tail(up[p])[k] = up[p][k + 1]
  BY <1>1
<1>5. Len(up[p]) \in Nat /\ Len(up[p]) > 0 /\ DOMAIN up[p] = 1 .. Len(up[p])
  BY <1>1
<1>6. DOMAIN up'[p] = 1 .. (Len(up[p]) - 1)
  BY <1>2, <1>3
<1>7. Head(up[p]) = up[p][1] /\ Head(up[p]) \in Messages
  BY <1>1, <1>5
<1>8. up' \in [Players -> Seq(Messages)]
  BY <1>1, <1>3 DEF TypeOK
<1>9. QED
  BY <1>2, <1>3, <1>4, <1>5, <1>6, <1>7, <1>8

\* What it does with it.
LEMMA SetSlotCases ==
  ASSUME TypeOK, NEW p \in Players, HandleSetSlot(p)
  PROVE  \/ \E pos \in Positions, item \in Items \cup {Air} :
              /\ WriteChest(pos, item) /\ Head(up[p]).kind = "chest"
              /\ Head(up[p]).pos = pos /\ Head(up[p]).item = item
         \/ Head(up[p]).kind # "chest" /\ UNCHANGED chests /\ UNCHANGED hand
<1>1. Head(up[p]) \in Messages
  BY SetSlotQueue
<1>2. QED
  BY <1>1, MessageKinds DEF HandleSetSlot, WriteOwn, handVars

\* A client tells of the chest's slot and of its own.
LEMMA MoveQueue ==
  ASSUME TypeOK, NEW p \in Players, NEW pos \in Positions, Move(p, pos)
  PROVE  /\ up' \in [Players -> Seq(Messages)]
         /\ \A q \in Players \ {p} : up'[q] = up[q]
         /\ \E n \in Nat :
              /\ DOMAIN up[p] = 1 .. n /\ DOMAIN up'[p] = 1 .. (n + 2)
              /\ \A k \in 1 .. n : up'[p][k] = up[p][k]
              /\ up'[p][n + 1].kind = "chest" /\ up'[p][n + 1].pos = pos
              /\ up'[p][n + 1].item = holds[p]
              /\ up'[p][n + 2].kind = "own"
<1> DEFINE c == [kind |-> "chest", pos |-> pos, item |-> holds[p]]
           o == [kind |-> "own", item |-> shows[p][pos]]
<1>1. holds[p] \in Items \cup {Air} /\ shows[p][pos] \in Items \cup {Air}
  BY DEF Move, TypeOK
<1>2. c \in Messages /\ o \in Messages
  BY <1>1 DEF Messages
<1>3. c.kind = "chest" /\ c.pos = pos /\ c.item = holds[p] /\ o.kind = "own"
  OBVIOUS
<1>4. up[p] \in Seq(Messages) /\ up' = [up EXCEPT ![p] = up[p] \o <<c, o>>]
  BY DEF Move, TypeOK
<1> HIDE DEF c, o
<1>5. up'[p] = up[p] \o <<c, o>> /\ \A q \in Players \ {p} : up'[q] = up[q]
  BY <1>4 DEF TypeOK
<1>6. <<c, o>> \in Seq(Messages)
  BY <1>2
<1>7. up[p] \o <<c, o>> \in Seq(Messages)
  BY <1>4, <1>6
<1>8. up' \in [Players -> Seq(Messages)]
  BY <1>4, <1>7 DEF TypeOK
<1> DEFINE n == Len(up[p])
<1>9. /\ n \in Nat /\ DOMAIN up[p] = 1 .. n /\ DOMAIN up'[p] = 1 .. (n + 2)
      /\ \A k \in 1 .. n : up'[p][k] = up[p][k]
      /\ up'[p][n + 1] = c /\ up'[p][n + 2] = o
  BY <1>4, <1>5, <1>6
<1>10. QED
  BY <1>3, <1>5, <1>8, <1>9
-----------------------------------------------------------------------------
LEMMA InitTypes == Init => TypeOK
<1> SUFFICES ASSUME Init PROVE TypeOK
  OBVIOUS
<1>1. DOMAIN chests = {} /\ DOMAIN windows = {} /\ DOMAIN shows = {}
  BY DEF Init
<1>2. block \in [Positions -> Facings \cup {Air}]
  BY DEF Init
<1>3. /\ hand \in [Players -> Items \cup {Air}] /\ holds \in [Players -> Items \cup {Air}]
      /\ waiting \in [Players -> BOOLEAN]
      /\ hopper \in Items \cup {Air} /\ untidy \in BOOLEAN
  BY DEF Init
<1>4. up \in [Players -> Seq(Messages)]
  BY DEF Init
<1>5. dropped \in [Items -> Nat]
  BY DEF Init
<1>6. moves \in 0 .. MaxMoves
  BY ContainersAssumption DEF Init
<1>7. QED
  BY <1>1, <1>2, <1>3, <1>4, <1>5, <1>6 DEF TypeOK

LEMMA LyingTypes ==
  ASSUME TypeOK, NEW i \in Items
  PROVE  /\ Lying(i, 1) \in [Items -> Nat] /\ Lying(i, 1)[i] = dropped[i] + 1
         /\ dropped[i] > 0 => Lying(i, -1) \in [Items -> Nat] /\ Lying(i, -1)[i] = dropped[i] - 1
         /\ \A n : \A j \in Items : j # i => Lying(i, n)[j] = dropped[j]
<1>1. dropped \in [Items -> Nat]
  BY DEF TypeOK
<1>2. dropped[i] \in Nat /\ dropped[i] + (-1) = dropped[i] - 1
  BY <1>1
<1>3. QED
  BY <1>1, <1>2 DEF Lying

\* A view follows its window, whatever becomes of the flags.
LEMMA StepTypes ==
  ASSUME TypeOK, [Next]_vars
  PROVE  TypeOK'
<1> DEFINE Tables == IsTable(chests')
           Views == /\ DOMAIN windows' \subseteq Players /\ DOMAIN shows' = DOMAIN windows'
                    /\ \A p \in DOMAIN windows' :
                         /\ windows'[p] \in Windows
                         /\ shows'[p] \in [Halves(windows'[p]) -> Items \cup {Air}]
           Hands == /\ hand' \in [Players -> Items \cup {Air}]
                    /\ holds' \in [Players -> Items \cup {Air}]
                    /\ waiting' \in [Players -> BOOLEAN]
           Queue == up' \in [Players -> Seq(Messages)]
           Rest == /\ block' \in [Positions -> Facings \cup {Air}]
                   /\ hopper' \in Items \cup {Air} /\ dropped' \in [Items -> Nat]
                   /\ untidy' \in BOOLEAN /\ moves' \in 0 .. MaxMoves
<1>1. IsTable(chests)
  BY DEF TypeOK, IsTable
<1>2. \A cs : IsTable(cs) => \A q : Content(cs, q) \in Items \cup {Air}
  BY DEF IsTable, Content, Chests
<1>3. \A cs : IsTable(cs) => \A w : Shown(cs, w) \in [Halves(w) -> Items \cup {Air}]
  BY <1>2 DEF Shown
<1>4. Tables /\ Views /\ Hands /\ Queue /\ Rest => TypeOK'
  BY DEF TypeOK, IsTable
<1>5. UNCHANGED chests => Tables
  BY <1>1
<1>6. UNCHANGED viewVars => Views
  BY DEF TypeOK, viewVars
<1>20. UNCHANGED handVars => Hands
  BY DEF TypeOK, handVars
<1>21. UNCHANGED up => Queue
  BY DEF TypeOK
<1>7. ASSUME NEW pos \in Positions, NEW facing \in Facings, Place(pos, facing)
      PROVE  TypeOK'
  <2>1. Tables BY <1>7, PlaceTable
  <2>2. Views BY <1>6, <1>7 DEF Place
  <2>3. Hands /\ Queue BY <1>7, <1>20, <1>21 DEF Place
  <2>4. Rest BY <1>7 DEF Place, TypeOK, itemVars
  <2>5. QED BY <1>4, <2>1, <2>2, <2>3, <2>4
<1>8. ASSUME NEW pos \in Positions, Break(pos)
      PROVE  TypeOK'
  <2> DEFINE viewers == {p \in DOMAIN windows : windows[p].left = pos}
             rest == DOMAIN windows \ viewers
             w(p) == [windows[p] EXCEPT !.cut = @ \/ windows[p].right = pos]
  <2>1. Tables BY <1>8, BreakTable
  <2>2. /\ windows' = [p \in rest |-> w(p)] /\ shows' = Restrict(shows, rest)
        /\ up' = Voided(viewers) /\ viewers \in SUBSET Players
    BY <1>8 DEF Break, TypeOK
  <2>3. \A p \in rest : w(p) \in Windows /\ Halves(w(p)) = Halves(windows[p])
    BY DEF TypeOK, Windows, Halves
  <2> HIDE DEF w
  <2>4. DOMAIN windows' = rest /\ DOMAIN shows' = rest
    BY <2>2 DEF Restrict, TypeOK
  <2>5. \A p \in rest : windows'[p] = w(p) /\ shows'[p] = shows[p]
    BY <2>2 DEF Restrict, TypeOK
  <2>6. Views BY <2>3, <2>4, <2>5 DEF TypeOK
  <2>7. Queue BY <2>2, Voiding
  <2>8. Hands BY <1>8, <1>20 DEF Break
  <2>9. Rest
    <3>1. Content(chests, pos) \in Items \cup {Air}
      BY <1>1, <1>2
    <3>2. dropped' \in [Items -> Nat]
      BY <1>8, <3>1, LyingTypes DEF Break, TypeOK
    <3>3. QED
      BY <1>8, <3>2 DEF Break, TypeOK
  <2>10. QED BY <1>4, <2>1, <2>6, <2>7, <2>8, <2>9
<1>9. ASSUME NEW pos \in Positions, NEW b \in Facings \cup {Air}, Explode(pos, b)
      PROVE  TypeOK'
  <2>1. Tables /\ Views /\ Hands /\ Queue BY <1>5, <1>6, <1>9, <1>20, <1>21 DEF Explode
  <2>2. Rest BY <1>9 DEF Explode, TypeOK, itemVars
  <2>3. QED BY <1>4, <2>1, <2>2
<1>10. ASSUME SendChunk
       PROVE  TypeOK'
  <2>1. Tables BY <1>10, SendTable
  <2>2. Views /\ Hands /\ Queue BY <1>6, <1>10, <1>20, <1>21 DEF SendChunk
  <2>3. Rest BY <1>10 DEF SendChunk, TypeOK, itemVars
  <2>4. QED BY <1>4, <2>1, <2>2, <2>3
<1>11. ASSUME NEW pos \in Positions, NEW p \in Players, Open(p, pos)
       PROVE  TypeOK'
  <2>1. Tables BY <1>11, OpenTable
  <2>2. shows'[p] \in [Halves(windows'[p]) -> Items \cup {Air}]
    <3>1. shows'[p] = Shown(chests', windows'[p])
      BY <1>11, OpenWindow
    <3>2. QED
      BY <1>3, <2>1, <3>1
  <2>3. \A q \in DOMAIN windows \ {p} :
          /\ windows'[q] \in Windows
          /\ Halves(windows'[q]) = Halves(windows[q]) /\ shows'[q] = shows[q]
    BY <1>11, OpenWindow DEF Halves
  <2>4. /\ DOMAIN windows' = DOMAIN windows \cup {p} /\ DOMAIN shows' = DOMAIN windows'
        /\ windows'[p] \in Windows
    BY <1>11, OpenWindow
  <2>5. Views BY <2>2, <2>3, <2>4 DEF TypeOK
  <2>6. Hands BY <1>11, <1>20 DEF Open
  <2>7. up' = Voided({p}) /\ {p} \in SUBSET Players BY <1>11 DEF Open
  <2>8. Queue BY <2>7, Voiding
  <2>9. Rest BY <1>11 DEF Open, TypeOK, itemVars
  <2>10. QED BY <1>4, <2>1, <2>5, <2>6, <2>8, <2>9
<1>12. ASSUME NEW p \in Players, NoWindow(p)
       PROVE  Views
  BY <1>12 DEF NoWindow, Restrict, TypeOK
<1>13. ASSUME NEW p \in Players, CloseContainer(p)
       PROVE  TypeOK'
  <2>1. Tables /\ Hands BY <1>5, <1>13, <1>20 DEF CloseContainer, worldVars
  <2>2. Views BY <1>12, <1>13 DEF CloseContainer
  <2>3. up' = Voided({p}) /\ {p} \in SUBSET Players BY <1>13 DEF CloseContainer
  <2>4. Queue BY <2>3, Voiding
  <2>5. Rest BY <1>13 DEF CloseContainer, TypeOK, itemVars, worldVars
  <2>6. QED BY <1>4, <2>1, <2>2, <2>4, <2>5
<1>14. ASSUME NEW p \in Players, HandleClose(p)
       PROVE  TypeOK'
  <2>1. Tables /\ Queue BY <1>5, <1>14, <1>21 DEF HandleClose, worldVars
  <2>2. Views BY <1>12, <1>14 DEF HandleClose
  <2>3. Hands BY <1>14 DEF HandleClose, TypeOK
  <2>4. Rest BY <1>14 DEF HandleClose, TypeOK, itemVars, worldVars
  <2>5. QED BY <1>4, <2>1, <2>2, <2>3, <2>4
<1>15. ASSUME NEW pos \in Positions, NEW p \in Players, Move(p, pos)
       PROVE  TypeOK'
  <2>1. Tables BY <1>5, <1>15 DEF Move, worldVars
  <2>2. Queue BY <1>15, MoveQueue
  <2>3. /\ UNCHANGED windows /\ pos \in Halves(windows[p]) /\ p \in DOMAIN windows
        /\ shows' = [shows EXCEPT ![p][pos] = holds[p]]
        /\ holds[p] \in Items \cup {Air}
    BY <1>15 DEF Move, TypeOK
  <2>4. /\ DOMAIN shows' = DOMAIN shows
        /\ shows'[p] = [shows[p] EXCEPT ![pos] = holds[p]]
        /\ \A q \in DOMAIN shows \ {p} : shows'[q] = shows[q]
    BY <2>3 DEF TypeOK
  <2>5. shows'[p] \in [Halves(windows[p]) -> Items \cup {Air}]
    BY <2>3, <2>4 DEF TypeOK
  <2>6. Views BY <2>3, <2>4, <2>5 DEF TypeOK
  <2>7. shows[p][pos] \in Items \cup {Air}
    BY <2>3 DEF TypeOK
  <2>8. Hands BY <1>15, <2>7 DEF Move, TypeOK
  <2>9. moves' \in 0 .. MaxMoves
    BY <1>15, ContainersAssumption DEF Move, TypeOK
  <2>10. Rest BY <1>15, <2>9 DEF Move, TypeOK, itemVars, worldVars
  <2>11. QED BY <1>4, <2>1, <2>2, <2>6, <2>8, <2>10
<1>16. ASSUME NEW p \in Players, HandleSetSlot(p)
       PROVE  TypeOK'
  <2>1. Queue BY <1>16, SetSlotQueue
  <2>2. Views BY <1>6, <1>16 DEF HandleSetSlot
  <2>3. Tables
    <3>1. ASSUME NEW pos \in Positions, NEW item \in Items \cup {Air}, WriteChest(pos, item)
          PROVE  Tables
      BY <3>1, WriteTable
    <3>2. QED
      BY <1>5, <1>16, <3>1, SetSlotCases
  <2>4. Hands
    <3>1. CASE Head(up[p]).kind # "own"
      BY <1>16, <1>20, <3>1 DEF HandleSetSlot, WriteChest
    <3>2. CASE Head(up[p]).kind = "own"
      <4> DEFINE item == Head(up[p]).item
      <4>1. WriteOwn(p, item)
        BY <1>16, <3>2 DEF HandleSetSlot
      <4> HIDE DEF item
      <4>2. QED
        BY <4>1 DEF WriteOwn, TypeOK
    <3>3. QED
      BY <3>1, <3>2
  <2>5. untidy' \in BOOLEAN
    BY <1>16 DEF HandleSetSlot, WriteChest, WriteOwn, IsChest, TypeOK
  <2>6. Rest BY <1>16, <2>5 DEF HandleSetSlot, TypeOK, itemVars
  <2>7. QED BY <1>4, <2>1, <2>2, <2>3, <2>4, <2>6
<1>17. ASSUME NEW pos \in Positions, HopperMove(pos)
       PROVE  TypeOK'
  <2>1. Tables BY <1>17, HopperTable
  <2>2. /\ shows' = Resynced(chests', pos) /\ windows' = Refreshed(chests', pos)
    BY <1>17 DEF HopperMove
  <2>3. Views
    <3>1. DOMAIN windows' = DOMAIN windows /\ DOMAIN shows' = DOMAIN windows
      BY <2>2 DEF Resynced, Refreshed, TypeOK
    <3>2. ASSUME NEW p \in DOMAIN windows
          PROVE  windows'[p] \in Windows /\ Halves(windows'[p]) = Halves(windows[p])
      <4> DEFINE b == \E k \in DOMAIN up[p] : up[p][k].kind = "chest"
                 w == [windows[p] EXCEPT !.crossed = b]
      <4>1. b \in BOOLEAN /\ windows[p] \in Windows
        BY DEF TypeOK
      <4> HIDE DEF b
      <4>2. w \in Windows /\ Halves(w) = Halves(windows[p])
        BY <4>1 DEF Windows, Halves
      <4>3. windows'[p] = w \/ windows'[p] = windows[p]
        BY <2>2 DEF Refreshed, b
      <4> HIDE DEF w
      <4>4. QED
        BY <4>1, <4>2, <4>3
    <3>3. ASSUME NEW p \in DOMAIN windows
          PROVE  shows'[p] \in [Halves(windows[p]) -> Items \cup {Air}]
      BY <1>3, <2>1, <2>2 DEF Resynced, TypeOK
    <3>4. QED
      BY <3>1, <3>2, <3>3 DEF TypeOK
  <2>4. hopper' \in Items \cup {Air}
    BY <1>1, <1>2, <1>17, HopperTable
  <2>5. Hands /\ Queue BY <1>17, <1>20, <1>21 DEF HopperMove
  <2>6. Rest BY <1>17, <2>4 DEF HopperMove, TypeOK
  <2>7. QED BY <1>4, <2>1, <2>3, <2>5, <2>6
<1>18. ASSUME NEW p \in Players, NEW i \in Items, PickUp(p, i)
       PROVE  TypeOK'
  <2>1. Tables /\ Views /\ Queue BY <1>5, <1>6, <1>18, <1>21 DEF PickUp, worldVars
  <2>2. Hands BY <1>18 DEF PickUp, TypeOK
  <2>3. dropped' \in [Items -> Nat] BY <1>18, LyingTypes DEF PickUp
  <2>4. Rest BY <1>18, <2>3 DEF PickUp, TypeOK, worldVars
  <2>5. QED BY <1>4, <2>1, <2>2, <2>4
<1>19. ASSUME NEW i \in Items, Absorb(i) \/ Despawn(i)
       PROVE  TypeOK'
  <2>1. Tables /\ Views /\ Hands /\ Queue
    BY <1>5, <1>6, <1>19, <1>20, <1>21 DEF Absorb, Despawn, worldVars
  <2>2. dropped' \in [Items -> Nat] BY <1>19, LyingTypes DEF Absorb, Despawn
  <2>3. Rest BY <1>19, <2>2 DEF Absorb, Despawn, TypeOK, worldVars
  <2>4. QED BY <1>4, <2>1, <2>3
<1>23. CASE UNCHANGED vars
  BY <1>23 DEF vars, worldVars, viewVars, handVars, itemVars, TypeOK
<1> HIDE DEF Tables, Views, Hands, Queue, Rest
<1>24. CASE Next
  BY <1>7, <1>8, <1>9, <1>10, <1>11, <1>13, <1>14, <1>15, <1>16, <1>17, <1>18, <1>19,
     <1>24 DEF Next
<1>25. QED
  BY <1>23, <1>24
-----------------------------------------------------------------------------
(***************************************************************************)
(* Pairing.                                                                *)
(***************************************************************************)
\* What is asked of a chest's partner.
GoodPair(a) ==
  LET b == chests[a].pair
  IN b # Unpaired => /\ b \in {a - 1, a + 1} /\ b \in DOMAIN chests /\ chests[b].pair = a
                     /\ block[a] = block[b]

LEMMA PairsMatchPointwise ==
  PairsMatch <=> (~untidy => /\ DOMAIN chests = {pos \in Positions : IsChest(pos)}
                             /\ \A a \in DOMAIN chests : GoodPair(a))
  BY DEF PairsMatch, GoodPair

\* A step that leaves the blocks, the inventories there are and their partners
\* alone.
LEMMA SamePairs ==
  ASSUME PairsMatch, ~untidy, UNCHANGED block, DOMAIN chests' = DOMAIN chests,
         \A q \in DOMAIN chests : chests'[q].pair = chests[q].pair
  PROVE  PairsMatch'
  BY DEF PairsMatch, IsChest, Positions

LEMMA StepPairs ==
  ASSUME TypeOK, PairsMatch, [Next]_vars
  PROVE  PairsMatch'
<1> DEFINE here == {pos \in Positions : IsChest(pos)}
           same == /\ UNCHANGED block /\ DOMAIN chests' = DOMAIN chests
                   /\ \A q \in DOMAIN chests : chests'[q].pair = chests[q].pair
<1> SUFFICES ASSUME ~untidy' PROVE PairsMatch'
  BY DEF PairsMatch
<1>1. ~untidy
  <2>1. untidy => untidy'
    BY DEF Next, vars, Place, Break, Explode, SendChunk, Open, Move, CloseContainer,
           HandleClose, HandleSetSlot, WriteChest, WriteOwn, HopperMove, PickUp, Absorb,
           Despawn
  <2>2. QED
    BY <2>1
<1>2. DOMAIN chests = here /\ \A a \in DOMAIN chests : GoodPair(a)
  BY <1>1, PairsMatchPointwise
<1>3. same => PairsMatch'
  BY <1>1, SamePairs
<1>4. UNCHANGED worldVars => same
  BY DEF worldVars
<1>5. ASSUME NEW pos \in Positions, NEW facing \in Facings, Place(pos, facing)
      PROVE  PairsMatch'
  <2>1. /\ ~IsChest(pos) /\ pos \notin DOMAIN chests
        /\ block' = [block EXCEPT ![pos] = facing]
    BY <1>2, <1>5 DEF Place
  <2>2. /\ block'[pos] = facing /\ facing # Air
        /\ \A q \in Positions : q # pos => block'[q] = block[q]
    BY <2>1, ContainersAssumption DEF TypeOK
  <2>3. {q \in Positions : IsChest(q)}' = here \cup {pos}
    BY <2>2 DEF IsChest, Positions
  <2>4. \A a \in DOMAIN chests : a # pos /\ chests[a].pair # pos
    BY <1>2, <2>1, UnpairedIsNoPosition DEF GoodPair
  <2>5. CASE Lone(pos)
    <3>1. \A a \in DOMAIN chests : GoodPair(a)'
      BY <1>2, <2>2, <2>4, <2>5 DEF GoodPair, Lone
    <3>2. GoodPair(pos)'
      BY <2>1, <2>5 DEF GoodPair, Lone
    <3>3. QED
      BY <1>2, <2>3, <2>5, <3>1, <3>2 DEF PairsMatch, GoodPair, Lone
  <2>6. ASSUME NEW b \in Positions, Joined(pos, b, facing)
        PROVE  PairsMatch'
    <3>1. b \in DOMAIN chests /\ b # pos /\ b # Unpaired /\ chests[b].pair = Unpaired
      BY <1>2, <2>1, <2>6, UnpairedIsNoPosition DEF Joined
    <3>2. b \in {pos - 1, pos + 1} /\ pos \in {b - 1, b + 1}
      BY <2>6 DEF Positions, Joined
    <3>3. GoodPair(pos)' /\ GoodPair(b)'
      BY <2>2, <2>6, <3>1, <3>2 DEF GoodPair, Joined
    <3>4. ASSUME NEW a \in DOMAIN chests, a # b
          PROVE  GoodPair(a)'
      <4>1. chests'[a].pair = chests[a].pair
        BY <2>4, <2>6, <3>4 DEF Joined
      <4>2. CASE chests[a].pair = Unpaired
        BY <4>1, <4>2 DEF GoodPair
      <4>3. CASE chests[a].pair # Unpaired
        <5> DEFINE c == chests[a].pair
        <5>1. c \in {a - 1, a + 1} /\ c \in DOMAIN chests /\ chests[c].pair = a /\ block[a] = block[c]
          BY <1>2, <4>3 DEF GoodPair
        <5>2. c # pos /\ c # b
          BY <2>4, <3>1, <5>1, UnpairedIsNoPosition, <1>2
        <5>3. chests'[c].pair = a /\ c \in DOMAIN chests'
          BY <2>6, <5>1, <5>2 DEF Joined
        <5>4. block'[a] = block[a] /\ block'[c] = block[c]
          BY <1>2, <2>2, <2>4, <5>1, <5>2
        <5>5. QED
          BY <4>1, <5>1, <5>3, <5>4 DEF GoodPair
      <4>4. QED
        BY <4>2, <4>3
    <3>5. QED
      BY <1>2, <2>3, <2>6, <3>1, <3>3, <3>4 DEF PairsMatch, GoodPair, Joined
  <2>7. QED
    BY <1>5, <2>5, <2>6, PlaceTable
<1>6. ASSUME NEW pos \in Positions, Break(pos)
      PROVE  PairsMatch'
  <2>1. /\ block' = [block EXCEPT ![pos] = Air] /\ pos \in DOMAIN chests
    BY <1>2, <1>6 DEF Break, IsChest
  <2>2. block'[pos] = Air /\ \A q \in Positions : q # pos => block'[q] = block[q]
    BY <2>1 DEF TypeOK
  <2>3. {q \in Positions : IsChest(q)}' = here \ {pos}
    BY <2>2 DEF IsChest, Positions
  <2>4. /\ DOMAIN chests' = DOMAIN chests \ {pos}
        /\ \A q \in DOMAIN chests \ {pos} :
             chests'[q].pair = IF chests[pos].pair = q /\ chests[q].pair = pos
                               THEN Unpaired ELSE chests[q].pair
    BY <1>6, <2>1, BreakTable
  <2>5. ASSUME NEW a \in DOMAIN chests \ {pos}
        PROVE  GoodPair(a)'
    <3>1. CASE chests'[a].pair = Unpaired
      BY <3>1 DEF GoodPair
    <3>2. CASE chests'[a].pair # Unpaired
      <4> DEFINE c == chests[a].pair
      <4>1. chests'[a].pair = c /\ c # Unpaired
        BY <2>4, <3>2
      <4>2. c \in {a - 1, a + 1} /\ c \in DOMAIN chests /\ chests[c].pair = a /\ block[a] = block[c]
        BY <1>2, <4>1 DEF GoodPair
      <4>3. c # pos
        BY <2>4, <3>2, <4>2
      <4>4. chests'[c].pair = a
        BY <2>4, <4>2, <4>3
      <4>5. block'[a] = block[a] /\ block'[c] = block[c]
        BY <1>2, <2>2, <4>2, <4>3
      <4>6. QED
        BY <2>4, <4>1, <4>2, <4>3, <4>4, <4>5 DEF GoodPair
    <3>3. QED
      BY <3>1, <3>2
  <2>6. QED
    BY <1>2, <2>3, <2>4, <2>5 DEF PairsMatch, GoodPair
<1>7. ASSUME NEW pos \in Positions, NEW b \in Facings \cup {Air}, Explode(pos, b)
      PROVE  PairsMatch'
  BY <1>7 DEF Explode
<1>8. ASSUME SendChunk
      PROVE  PairsMatch'
  BY <1>2, <1>8, SendTable
<1>9. ASSUME NEW pos \in Positions, NEW p \in Players, Open(p, pos)
      PROVE  PairsMatch'
  <2>1. pos \in DOMAIN chests /\ UNCHANGED block
    BY <1>2, <1>9 DEF Open
  <2>2. chests[pos].pair # Unpaired =>
          chests[pos].pair \in DOMAIN chests /\ IsChest(chests[pos].pair)
    BY <1>2, <2>1 DEF GoodPair
  <2>3. chests' = GetOrCreate(chests, pos)
    BY <1>9, <2>2, OpenTable
  <2>4. \A q \in DOMAIN chests : chests'[q] = chests[q]
    BY <2>3 DEF GetOrCreate
  <2>5. DOMAIN chests' = DOMAIN chests
    BY <1>9, <2>1, OpenTable
  <2>6. QED
    BY <1>3, <2>1, <2>4, <2>5
<1>10. ASSUME NEW p \in Players, HandleSetSlot(p)
       PROVE  PairsMatch'
  <2>1. UNCHANGED block
    BY <1>10 DEF HandleSetSlot
  <2>2. ASSUME NEW pos \in Positions, NEW item \in Items \cup {Air}, WriteChest(pos, item)
        PROVE  PairsMatch'
    <3>1. IsChest(pos)
      BY <2>2 DEF WriteChest
    <3>2. pos \in DOMAIN chests
      BY <1>2, <3>1
    <3>3. QED
      BY <1>3, <2>1, <2>2, <3>2, WriteTable
  <2>3. UNCHANGED chests => PairsMatch'
    BY <1>3, <2>1
  <2>4. QED
    BY <1>10, <2>2, <2>3, SetSlotCases
<1>11. ASSUME NEW pos \in Positions, HopperMove(pos)
       PROVE  PairsMatch'
  <2>1. pos \in DOMAIN chests /\ UNCHANGED block
    BY <1>2, <1>11 DEF HopperMove
  <2>2. QED
    BY <1>3, <1>11, <2>1, HopperTable
<1>12. ASSUME NEW p \in Players,
              \/ CloseContainer(p) \/ HandleClose(p)
              \/ \E i \in Items : PickUp(p, i)
              \/ \E pos \in Positions : Move(p, pos)
       PROVE  PairsMatch'
  BY <1>3, <1>4, <1>12 DEF CloseContainer, HandleClose, PickUp, Move
<1>16. ASSUME NEW i \in Items, Absorb(i) \/ Despawn(i)
       PROVE  PairsMatch'
  BY <1>3, <1>4, <1>16 DEF Absorb, Despawn
<1>13. CASE UNCHANGED vars
  BY <1>3, <1>4, <1>13 DEF vars
<1> HIDE DEF here, same
<1>14. CASE Next
  BY <1>5, <1>6, <1>7, <1>8, <1>9, <1>10, <1>11, <1>12, <1>16, <1>14 DEF Next
<1>15. QED
  BY <1>13, <1>14
-----------------------------------------------------------------------------
(***************************************************************************)
(* What windows show.                                                      *)
(***************************************************************************)
\* The left half of a window has an inventory.
LeftIsThere == \A p \in DOMAIN windows : windows[p].left \in DOMAIN chests

\* Two windows on one chest know of each other.
SharersKnow ==
  \A p, q \in DOMAIN windows :
    p # q /\ Halves(windows[p]) \cap Halves(windows[q]) # {} =>
      windows[p].shared /\ windows[q].shared

\* What a client shows of a chest is in it, or will be when its writes have come.
Agrees(p, pos) ==
  \/ WritesTo(p, pos) = {} /\ shows[p][pos] = Content(chests, pos)
  \/ \E k \in WritesTo(p, pos) :
       (\A l \in WritesTo(p, pos) : l <= k) /\ shows[p][pos] = up[p][k].item

ShowsTruth(p) == \A pos \in Halves(windows[p]) : Agrees(p, pos)

\* Writes under way are to the window their player has open.
WritesAreOpen ==
  \A p \in Players : \A k \in DOMAIN up[p] :
    up[p][k].kind = "chest" => p \in DOMAIN windows /\ up[p][k].pos \in Halves(windows[p])

ViewInv ==
  /\ LeftIsThere /\ SharersKnow /\ WritesAreOpen
  /\ \A p \in DOMAIN windows :
       windows[p].shared \/ windows[p].cut \/ windows[p].crossed \/ ShowsTruth(p)

\* A window, its view, its player's writes and what is in its chests stay.
LEMMA SameView ==
  ASSUME TypeOK, NEW p \in DOMAIN windows, ShowsTruth(p),
         up'[p] = up[p], shows'[p] = shows[p], Halves(windows'[p]) = Halves(windows[p]),
         \A pos \in Halves(windows[p]) : Content(chests', pos) = Content(chests, pos)
  PROVE  ShowsTruth(p)'
  BY DEF ShowsTruth, Agrees, WritesTo

\* The same of every window.
LEMMA SameViews ==
  ASSUME TypeOK, ViewInv, UNCHANGED viewVars, UNCHANGED up, SameContent(chests', chests),
         DOMAIN chests \subseteq DOMAIN chests'
  PROVE  ViewInv'
<1>1. UNCHANGED windows /\ UNCHANGED shows
  BY DEF viewVars
<1>2. \A p \in DOMAIN windows : Halves(windows[p]) \subseteq Positions
  BY DEF TypeOK, Windows, Halves
<1>3. \A p \in DOMAIN windows : ShowsTruth(p) => ShowsTruth(p)'
  BY <1>1, <1>2, SameView DEF SameContent
<1>4. LeftIsThere' /\ SharersKnow' /\ WritesAreOpen'
  BY <1>1 DEF ViewInv, LeftIsThere, SharersKnow, WritesAreOpen
<1>5. QED
  BY <1>1, <1>3, <1>4 DEF ViewInv

\* A write comes, and what is under way moves up.
LEMMA WriteComes ==
  ASSUME TypeOK, NEW p \in DOMAIN windows, ShowsTruth(p), HandleSetSlot(p),
         NEW pos \in Halves(windows[p])
  PROVE  Agrees(p, pos)'
<1>0. p \in Players /\ pos \in Positions
  BY UnpairedIsNoPosition DEF TypeOK, Windows, Halves
<1>1. /\ 1 \in DOMAIN up[p] /\ Head(up[p]) = up[p][1]
      /\ \A k \in Nat : k \in DOMAIN up'[p] <=> k > 0 /\ k + 1 \in DOMAIN up[p]
      /\ \A k \in DOMAIN up'[p] : k \in Nat /\ up'[p][k] = up[p][k + 1]
  BY <1>0, SetSlotQueue
<1>2. \A k \in DOMAIN up[p] : k \in Nat /\ k > 0
  <2>1. up[p] \in Seq(Messages)
    BY <1>0 DEF TypeOK
  <2>2. QED
    BY <2>1
<1>3. shows' = shows /\ windows' = windows
  BY DEF HandleSetSlot, viewVars
<1>4. /\ \A k \in WritesTo(p, pos)' : k \in Nat /\ k + 1 \in WritesTo(p, pos)
      /\ \A k \in WritesTo(p, pos) : k # 1 =>
           k - 1 \in WritesTo(p, pos)' /\ up'[p][k - 1] = up[p][k]
  BY <1>1, <1>2 DEF WritesTo
<1>5. Agrees(p, pos)
  BY DEF ShowsTruth
<1>6. CASE 1 \in WritesTo(p, pos)
  <2>1. Content(chests', pos) = up[p][1].item
    <3>1. Head(up[p]).kind = "chest" /\ Head(up[p]).pos = pos
      BY <1>1, <1>6 DEF WritesTo
    <3>2. WriteChest(pos, Head(up[p]).item) /\ Head(up[p]).item \in Items \cup {Air}
      BY <1>0, <3>1, SetSlotCases
    <3>3. QED
      BY <1>0, <1>1, <3>2, WriteTable
  <2>2. PICK k \in WritesTo(p, pos) :
          (\A l \in WritesTo(p, pos) : l <= k) /\ shows[p][pos] = up[p][k].item
    BY <1>5, <1>6 DEF Agrees
  <2>3. CASE k = 1
    <3>1. WritesTo(p, pos)' = {}
      <4>1. ASSUME NEW l \in WritesTo(p, pos)' PROVE FALSE
        <5>1. l \in Nat /\ l + 1 \in WritesTo(p, pos) /\ l \in DOMAIN up'[p]
          BY <1>4 DEF WritesTo
        <5>2. l > 0 /\ l + 1 <= 1
          BY <1>1, <2>2, <2>3, <5>1
        <5>3. QED
          BY <5>1, <5>2
      <4>2. QED
        BY <4>1
    <3>2. QED
      BY <1>3, <2>1, <2>2, <2>3, <3>1 DEF Agrees
  <2>4. CASE k # 1
    <3>1. k - 1 \in WritesTo(p, pos)' /\ up'[p][k - 1] = up[p][k]
      BY <1>4, <2>4
    <3>2. k \in Nat
      BY <1>2 DEF WritesTo
    <3>3. \A l \in WritesTo(p, pos)' : l <= k - 1
      BY <1>4, <2>2, <3>2
    <3>4. QED
      BY <1>3, <2>2, <3>1, <3>3 DEF Agrees
  <2>5. QED
    BY <2>3, <2>4
<1>7. CASE 1 \notin WritesTo(p, pos)
  <2>1. Content(chests', pos) = Content(chests, pos)
    <3>1. ~(Head(up[p]).kind = "chest" /\ Head(up[p]).pos = pos)
      BY <1>1, <1>7 DEF WritesTo
    <3>2. CASE UNCHANGED chests
      BY <3>2
    <3>3. ASSUME NEW q \in Positions, NEW item \in Items \cup {Air}, WriteChest(q, item),
                 q # pos
          PROVE  Content(chests', pos) = Content(chests, pos)
      BY <1>0, <3>3, WriteTable
    <3>4. QED
      BY <1>0, <3>1, <3>2, <3>3, SetSlotCases
  <2>2. CASE WritesTo(p, pos) = {} /\ shows[p][pos] = Content(chests, pos)
    <3>1. WritesTo(p, pos)' = {}
      BY <1>4, <2>2
    <3>2. QED
      BY <1>3, <2>1, <2>2, <3>1 DEF Agrees
  <2>3. CASE \E k \in WritesTo(p, pos) :
               (\A l \in WritesTo(p, pos) : l <= k) /\ shows[p][pos] = up[p][k].item
    <3>1. PICK k \in WritesTo(p, pos) :
            (\A l \in WritesTo(p, pos) : l <= k) /\ shows[p][pos] = up[p][k].item
      BY <2>3
    <3>2. k - 1 \in WritesTo(p, pos)' /\ up'[p][k - 1] = up[p][k]
      BY <1>4, <1>7
    <3>3. k \in Nat
      BY <1>2 DEF WritesTo
    <3>4. \A l \in WritesTo(p, pos)' : l <= k - 1
      BY <1>4, <3>1, <3>3
    <3>5. QED
      BY <1>3, <3>1, <3>2, <3>4 DEF Agrees
  <2>4. QED
    BY <1>5, <2>2, <2>3 DEF Agrees
<1>8. QED
  BY <1>6, <1>7

LEMMA StepViews ==
  ASSUME TypeOK, ViewInv, [Next]_vars
  PROVE  ViewInv'
<1>0. \A p \in DOMAIN windows : /\ Halves(windows[p]) \subseteq Positions
                                /\ windows[p].left \in Halves(windows[p])
                                /\ p \in Players
                                /\ windows[p].cut \in BOOLEAN /\ windows[p].shared \in BOOLEAN
                                /\ windows[p].crossed \in BOOLEAN
  BY UnpairedIsNoPosition DEF TypeOK, Windows, Halves
<1>1. UNCHANGED chests =>
        SameContent(chests', chests) /\ DOMAIN chests \subseteq DOMAIN chests'
  BY DEF SameContent
<1>2. ASSUME NEW pos \in Positions, NEW facing \in Facings, Place(pos, facing)
      PROVE  ViewInv'
  <2>1. SameContent(chests', chests) /\ DOMAIN chests \subseteq DOMAIN chests'
    BY <1>2, PlaceTable DEF Lone, Joined
  <2>2. UNCHANGED viewVars /\ UNCHANGED up
    BY <1>2 DEF Place
  <2>3. QED
    BY <2>1, <2>2, SameViews
<1>3. ASSUME NEW pos \in Positions, Break(pos)
      PROVE  ViewInv'
  <2> DEFINE viewers == {p \in DOMAIN windows : windows[p].left = pos}
             rest == DOMAIN windows \ viewers
             w(p) == [windows[p] EXCEPT !.cut = @ \/ windows[p].right = pos]
  <2>1. /\ windows' = [p \in rest |-> w(p)] /\ shows' = Restrict(shows, rest)
        /\ up' = Voided(viewers) /\ viewers \in SUBSET Players
    BY <1>3 DEF Break, TypeOK
  <2>2. \A p \in rest : /\ w(p).left = windows[p].left /\ w(p).right = windows[p].right
                        /\ w(p).shared = windows[p].shared
                        /\ w(p).crossed = windows[p].crossed
                        /\ w(p).cut = (windows[p].cut \/ windows[p].right = pos)
    BY DEF TypeOK, Windows
  <2> HIDE DEF w
  <2>3. DOMAIN windows' = rest /\ \A p \in rest : windows'[p] = w(p) /\ shows'[p] = shows[p]
    BY <2>1 DEF Restrict, TypeOK
  <2>4. \A p \in rest : Halves(windows'[p]) = Halves(windows[p]) /\ windows[p].left # pos
    BY <2>2, <2>3 DEF Halves
  <2>5. /\ \A p \in Players \ viewers : up'[p] = up[p]
        /\ \A p \in viewers : \A k \in DOMAIN up'[p] : up'[p][k].kind # "chest"
    BY <2>1, Voiding
  <2>6. LeftIsThere'
    <3>1. DOMAIN chests' = DOMAIN chests \ {pos}
      BY <1>3, BreakTable
    <3>2. QED
      BY <2>2, <2>3, <2>4, <3>1 DEF ViewInv, LeftIsThere
  <2>7. SharersKnow'
    BY <2>2, <2>3, <2>4 DEF ViewInv, SharersKnow
  <2>8. WritesAreOpen'
    <3>1. ASSUME NEW p \in Players, NEW k \in DOMAIN up'[p], up'[p][k].kind = "chest"
          PROVE  p \in DOMAIN windows' /\ up'[p][k].pos \in Halves(windows'[p])
      <4>1. p \notin viewers /\ up'[p] = up[p]
        BY <2>5, <3>1
      <4>2. p \in DOMAIN windows /\ up[p][k].pos \in Halves(windows[p])
        BY <3>1, <4>1 DEF ViewInv, WritesAreOpen
      <4>3. QED
        BY <2>3, <2>4, <4>1, <4>2
    <3>2. QED
      BY <3>1 DEF WritesAreOpen
  <2>9. ASSUME NEW p \in rest, ~windows'[p].shared, ~windows'[p].cut, ~windows'[p].crossed
        PROVE  ShowsTruth(p)'
    <3>1. ~windows[p].shared /\ ~windows[p].cut /\ ~windows[p].crossed /\ windows[p].right # pos
      BY <1>0, <2>2, <2>3, <2>9
    <3>2. ShowsTruth(p) /\ pos \notin Halves(windows[p])
      BY <2>4, <3>1 DEF ViewInv, Halves
    <3>3. \A q \in Positions \ {pos} : Content(chests', q) = Content(chests, q)
      BY <1>3, BreakTable
    <3>4. up'[p] = up[p] /\ shows'[p] = shows[p] /\ p \in DOMAIN windows
      BY <1>0, <2>3, <2>5
    <3>5. \A q \in Halves(windows[p]) : Content(chests', q) = Content(chests, q)
      BY <1>0, <3>2, <3>3
    <3>6. QED
      BY <2>4, <3>2, <3>4, <3>5, SameView
  <2>10. QED
    BY <2>3, <2>6, <2>7, <2>8, <2>9 DEF ViewInv
<1>4. ASSUME NEW pos \in Positions, NEW b \in Facings \cup {Air}, Explode(pos, b)
      PROVE  ViewInv'
  BY <1>1, <1>4, SameViews DEF Explode
<1>5. ASSUME SendChunk
      PROVE  ViewInv'
  <2>1. UNCHANGED viewVars /\ UNCHANGED up
    BY <1>5 DEF SendChunk
  <2>2. QED
    BY <1>5, <2>1, SendTable, SameViews
<1>6. ASSUME NEW pos \in Positions, NEW p \in Players, Open(p, pos)
      PROVE  ViewInv'
  <2>1. /\ DOMAIN windows' = DOMAIN windows \cup {p}
        /\ windows'[p].left \in DOMAIN chests'
        /\ shows'[p] = Shown(chests', windows'[p])
    BY <1>6, OpenWindow
  <2>2. \A q \in DOMAIN windows \ {p} :
          /\ windows'[q].left = windows[q].left
          /\ Halves(windows'[q]) = Halves(windows[q]) /\ shows'[q] = shows[q]
          /\ windows'[q].cut = windows[q].cut /\ windows'[q].crossed = windows[q].crossed
          /\ windows[q].shared => windows'[q].shared
    BY <1>6, OpenWindow DEF Halves
  <2>3. \A q \in DOMAIN windows \ {p} :
          Halves(windows[q]) \cap Halves(windows'[p]) # {} =>
            windows'[q].shared /\ windows'[p].shared
    BY <1>6, OpenWindow
  <2>4. SameContent(chests', chests) /\ DOMAIN chests' = DOMAIN chests \cup {pos}
    BY <1>6, OpenTable
  <2>5. LeftIsThere'
    BY <2>1, <2>2, <2>4 DEF ViewInv, LeftIsThere
  <2>6. SharersKnow'
    <3>1. ASSUME NEW q \in DOMAIN windows \ {p}, NEW r \in DOMAIN windows \ {p}, q # r,
                 Halves(windows'[q]) \cap Halves(windows'[r]) # {}
          PROVE  windows'[q].shared /\ windows'[r].shared
      BY <2>2, <3>1 DEF ViewInv, SharersKnow
    <3>2. ASSUME NEW q \in DOMAIN windows \ {p},
                 Halves(windows'[q]) \cap Halves(windows'[p]) # {}
          PROVE  windows'[q].shared /\ windows'[p].shared
      BY <2>2, <2>3, <3>2
    <3>3. QED
      BY <2>1, <3>1, <3>2 DEF SharersKnow
  <2>7. up' = Voided({p}) /\ {p} \in SUBSET Players
    BY <1>6 DEF Open
  <2>8. /\ \A q \in Players \ {p} : up'[q] = up[q]
        /\ \A k \in DOMAIN up'[p] : up'[p][k].kind # "chest"
    BY <2>7, Voiding
  <2>9. WritesAreOpen'
    <3>1. ASSUME NEW q \in Players, NEW k \in DOMAIN up'[q], up'[q][k].kind = "chest"
          PROVE  q \in DOMAIN windows' /\ up'[q][k].pos \in Halves(windows'[q])
      <4>1. q # p /\ up'[q] = up[q]
        BY <2>8, <3>1
      <4>2. q \in DOMAIN windows /\ up[q][k].pos \in Halves(windows[q])
        BY <3>1, <4>1 DEF ViewInv, WritesAreOpen
      <4>3. QED
        BY <2>1, <2>2, <4>1, <4>2
    <3>2. QED
      BY <3>1 DEF WritesAreOpen
  <2>10. ShowsTruth(p)'
    <3>1. \A q \in Halves(windows'[p]) :
            WritesTo(p, q)' = {} /\ shows'[p][q] = Content(chests', q)
      BY <2>1, <2>8 DEF Shown, WritesTo
    <3>2. QED
      BY <3>1 DEF ShowsTruth, Agrees
  <2>11. ASSUME NEW q \in DOMAIN windows \ {p}, ShowsTruth(q)
         PROVE  ShowsTruth(q)'
    <3>1. up'[q] = up[q]
      BY <1>0, <2>8
    <3>2. \A r \in Halves(windows[q]) : Content(chests', r) = Content(chests, r)
      BY <1>0, <2>4 DEF SameContent
    <3>3. QED
      BY <2>2, <2>11, <3>1, <3>2, SameView
  <2>12. QED
    BY <2>1, <2>2, <2>5, <2>6, <2>9, <2>10, <2>11 DEF ViewInv
<1>7. ASSUME NEW p \in Players, NoWindow(p), UNCHANGED chests,
             \A q \in Players \ {p} : up'[q] = up[q],
             \A k \in DOMAIN up'[p] : up'[p][k].kind # "chest"
      PROVE  ViewInv'
  <2> DEFINE rest == DOMAIN windows \ {p}
  <2>1. DOMAIN windows' = rest
    BY <1>7 DEF NoWindow, Restrict
  <2>2. \A q \in rest : windows'[q] = windows[q] /\ shows'[q] = shows[q]
    BY <1>7 DEF NoWindow, Restrict, TypeOK
  <2>3. LeftIsThere' /\ SharersKnow'
    BY <1>7, <2>1, <2>2 DEF ViewInv, LeftIsThere, SharersKnow
  <2>4. WritesAreOpen'
    BY <1>7, <2>1, <2>2 DEF ViewInv, WritesAreOpen
  <2>5. \A q \in rest : ShowsTruth(q) => ShowsTruth(q)'
    BY <1>0, <1>7, <2>2, SameView
  <2>6. QED
    BY <2>1, <2>2, <2>3, <2>4, <2>5 DEF ViewInv
<1>8. ASSUME NEW p \in Players, CloseContainer(p)
      PROVE  ViewInv'
  <2>1. NoWindow(p) /\ UNCHANGED chests /\ up' = Voided({p}) /\ {p} \in SUBSET Players
    BY <1>8 DEF CloseContainer, worldVars
  <2>2. /\ \A q \in Players \ {p} : up'[q] = up[q]
        /\ \A k \in DOMAIN up'[p] : up'[p][k].kind # "chest"
    BY <2>1, Voiding
  <2>3. QED
    BY <1>7, <2>1, <2>2
<1>9. ASSUME NEW p \in Players, HandleClose(p)
      PROVE  ViewInv'
  <2>1. NoWindow(p) /\ UNCHANGED chests /\ up' = up /\ up'[p] = << >>
    BY <1>9 DEF HandleClose, worldVars
  <2>2. QED
    BY <1>7, <2>1
<1>10. ASSUME NEW pos \in Positions, NEW p \in Players, Move(p, pos)
       PROVE  ViewInv'
  <2>1. /\ UNCHANGED windows /\ pos \in Halves(windows[p]) /\ p \in DOMAIN windows
        /\ shows' = [shows EXCEPT ![p][pos] = holds[p]] /\ UNCHANGED chests
    BY <1>10 DEF Move, worldVars
  <2>2. /\ shows'[p] = [shows[p] EXCEPT ![pos] = holds[p]]
        /\ \A q \in DOMAIN windows \ {p} : shows'[q] = shows[q]
    BY <2>1 DEF TypeOK
  <2>3. /\ shows'[p][pos] = holds[p]
        /\ \A q \in Halves(windows[p]) \ {pos} : shows'[p][q] = shows[p][q]
    BY <2>1, <2>2 DEF TypeOK
  <2>4. \A q \in Players \ {p} : up'[q] = up[q]
    BY <1>10, MoveQueue
  <2>5. PICK n \in Nat : /\ DOMAIN up[p] = 1 .. n /\ DOMAIN up'[p] = 1 .. (n + 2)
                         /\ \A k \in 1 .. n : up'[p][k] = up[p][k]
                         /\ up'[p][n + 1].kind = "chest" /\ up'[p][n + 1].pos = pos
                         /\ up'[p][n + 1].item = holds[p]
                         /\ up'[p][n + 2].kind = "own"
    BY <1>10, MoveQueue
  <2>6. \A k \in 1 .. (n + 2) : k \in 1 .. n \/ k = n + 1 \/ k = n + 2
    BY <2>5
  <2>7. LeftIsThere' /\ SharersKnow'
    BY <2>1 DEF ViewInv, LeftIsThere, SharersKnow
  <2>8. WritesAreOpen'
    <3>1. ASSUME NEW k \in DOMAIN up'[p], up'[p][k].kind = "chest"
          PROVE  up'[p][k].pos \in Halves(windows[p])
      BY <2>1, <2>5, <2>6, <3>1 DEF ViewInv, WritesAreOpen
    <3>2. QED
      BY <2>1, <2>4, <3>1 DEF ViewInv, WritesAreOpen
  <2>9. Agrees(p, pos)'
    <3>1. n + 1 \in WritesTo(p, pos)'
      BY <2>5 DEF WritesTo
    <3>2. \A l \in WritesTo(p, pos)' : l <= n + 1
      BY <2>5, <2>6 DEF WritesTo
    <3>3. QED
      BY <2>3, <2>5, <3>1, <3>2 DEF Agrees
  <2>10. ASSUME NEW q \in Halves(windows[p]), q # pos, Agrees(p, q)
         PROVE  Agrees(p, q)'
    <3>1. WritesTo(p, q)' = WritesTo(p, q)
      BY <2>5, <2>6, <2>10 DEF WritesTo
    <3>2. \A k \in WritesTo(p, q) : up'[p][k] = up[p][k]
      BY <2>5 DEF WritesTo
    <3>3. QED
      BY <2>1, <2>3, <2>10, <3>1, <3>2 DEF Agrees
  <2>11. ShowsTruth(p) => ShowsTruth(p)'
    BY <2>1, <2>9, <2>10 DEF ShowsTruth
  <2>12. ASSUME NEW q \in DOMAIN windows \ {p}, ShowsTruth(q)
         PROVE  ShowsTruth(q)'
    BY <1>0, <2>1, <2>2, <2>4, <2>12, SameView
  <2>13. QED
    BY <2>1, <2>7, <2>8, <2>11, <2>12 DEF ViewInv
<1>11. ASSUME NEW p \in Players, HandleSetSlot(p)
       PROVE  ViewInv'
  <2>1. UNCHANGED windows /\ UNCHANGED shows
    BY <1>11 DEF HandleSetSlot, viewVars
  <2>2. /\ 1 \in DOMAIN up[p] /\ Head(up[p]) = up[p][1]
        /\ \A q \in Players \ {p} : up'[q] = up[q]
        /\ \A k \in Nat : k \in DOMAIN up'[p] <=> k > 0 /\ k + 1 \in DOMAIN up[p]
        /\ \A k \in DOMAIN up'[p] : k \in Nat /\ up'[p][k] = up[p][k + 1]
    BY <1>11, SetSlotQueue
  <2>3. WritesAreOpen'
    <3>1. ASSUME NEW k \in DOMAIN up'[p], up'[p][k].kind = "chest"
          PROVE  p \in DOMAIN windows /\ up'[p][k].pos \in Halves(windows[p])
      <4>1. k \in Nat /\ k + 1 \in DOMAIN up[p] /\ up'[p][k] = up[p][k + 1]
        BY <2>2, <3>1
      <4>2. QED
        BY <3>1, <4>1 DEF ViewInv, WritesAreOpen
    <3>2. QED
      BY <2>1, <2>2, <3>1 DEF ViewInv, WritesAreOpen
  <2>4. CASE UNCHANGED chests
    <3>1. LeftIsThere' /\ SharersKnow'
      BY <2>1, <2>4 DEF ViewInv, LeftIsThere, SharersKnow
    <3>2. ASSUME NEW q \in DOMAIN windows \ {p}, ShowsTruth(q)
          PROVE  ShowsTruth(q)'
      BY <1>0, <2>1, <2>2, <2>4, <3>2, SameView
    <3>3. p \in DOMAIN windows /\ ShowsTruth(p) => ShowsTruth(p)'
      BY <1>11, <2>1, WriteComes DEF ShowsTruth
    <3>4. QED
      BY <2>1, <2>3, <3>1, <3>2, <3>3 DEF ViewInv
  <2>5. ASSUME NEW pos \in Positions, NEW item \in Items \cup {Air}, WriteChest(pos, item),
               Head(up[p]).kind = "chest", Head(up[p]).pos = pos
        PROVE  ViewInv'
    <3>1. /\ DOMAIN chests' = DOMAIN chests \cup {pos}
          /\ \A q \in Positions \ {pos} : Content(chests', q) = Content(chests, q)
      BY <2>5, WriteTable
    <3>2. LeftIsThere' /\ SharersKnow'
      BY <2>1, <3>1 DEF ViewInv, LeftIsThere, SharersKnow
    <3>3. p \in DOMAIN windows /\ pos \in Halves(windows[p])
      BY <2>2, <2>5 DEF ViewInv, WritesAreOpen
    <3>4. ASSUME NEW q \in DOMAIN windows \ {p}, ~windows[q].shared, ShowsTruth(q)
          PROVE  ShowsTruth(q)'
      <4>1. pos \notin Halves(windows[q])
        BY <3>3, <3>4 DEF ViewInv, SharersKnow
      <4>2. \A r \in Halves(windows[q]) : Content(chests', r) = Content(chests, r)
        BY <1>0, <3>1, <4>1
      <4>3. QED
        BY <1>0, <2>1, <2>2, <3>4, <4>2, SameView
    <3>5. ShowsTruth(p) => ShowsTruth(p)'
      BY <1>11, <2>1, <3>3, WriteComes DEF ShowsTruth
    <3>6. QED
      BY <2>1, <2>3, <3>2, <3>4, <3>5 DEF ViewInv
  <2>6. QED
    BY <1>11, <2>4, <2>5, SetSlotCases
<1>12. ASSUME NEW pos \in Positions, HopperMove(pos)
       PROVE  ViewInv'
  <2>1. /\ windows' = Refreshed(chests', pos) /\ shows' = Resynced(chests', pos)
        /\ UNCHANGED up
    BY <1>12 DEF HopperMove
  <2>2. /\ DOMAIN chests' = DOMAIN chests \cup {pos}
        /\ \A q \in Positions \ {pos} : Content(chests', q) = Content(chests, q)
    BY <1>12, HopperTable
  <2>3. /\ DOMAIN windows' = DOMAIN windows
        /\ \A p \in DOMAIN windows :
             /\ windows'[p].left = windows[p].left /\ windows'[p].shared = windows[p].shared
             /\ windows'[p].right = windows[p].right
             /\ windows'[p].cut = windows[p].cut
    BY <2>1 DEF Refreshed, TypeOK, Windows
  <2>4. \A p \in DOMAIN windows : Halves(windows'[p]) = Halves(windows[p])
    BY <2>3 DEF Halves
  <2>5. LeftIsThere' /\ SharersKnow' /\ WritesAreOpen'
    BY <2>1, <2>2, <2>3, <2>4 DEF ViewInv, LeftIsThere, SharersKnow, WritesAreOpen
  <2>6. ASSUME NEW p \in DOMAIN windows, pos \in Halves(windows[p]), ~windows'[p].crossed
        PROVE  ShowsTruth(p)'
    <3>1. windows[p].left \in DOMAIN chests'
      BY <2>2 DEF ViewInv, LeftIsThere
    <3>2. shows'[p] = Shown(chests', windows[p])
      BY <2>1, <2>6, <3>1 DEF Resynced, TypeOK
    <3>3. \A k \in DOMAIN up'[p] : up'[p][k].kind # "chest"
      <4> DEFINE b == \E k \in DOMAIN up[p] : up[p][k].kind = "chest"
                 w == [windows[p] EXCEPT !.crossed = b]
      <4>1. windows'[p] = w
        BY <2>1, <2>6, <3>1 DEF Refreshed
      <4>2. w.crossed = b
        BY DEF TypeOK, Windows
      <4>3. QED
        BY <2>1, <2>6, <4>1, <4>2
    <3>4. \A q \in Halves(windows'[p]) :
            WritesTo(p, q)' = {} /\ shows'[p][q] = Content(chests', q)
      BY <2>4, <3>2, <3>3 DEF Shown, WritesTo
    <3>5. QED
      BY <3>4 DEF ShowsTruth, Agrees
  <2>7. ASSUME NEW p \in DOMAIN windows, pos \notin Halves(windows[p]), ShowsTruth(p)
        PROVE  ShowsTruth(p)'
    <3>1. shows'[p] = shows[p] /\ up'[p] = up[p]
      BY <2>1, <2>7 DEF Resynced, TypeOK
    <3>2. \A q \in Halves(windows[p]) : Content(chests', q) = Content(chests, q)
      BY <1>0, <2>2, <2>7
    <3>3. QED
      BY <2>4, <2>7, <3>1, <3>2, SameView
  <2>8. \A p \in DOMAIN windows : pos \notin Halves(windows[p]) => windows'[p] = windows[p]
    BY <2>1 DEF Refreshed
  <2>9. QED
    BY <2>3, <2>5, <2>6, <2>7, <2>8 DEF ViewInv
<1>13. ASSUME NEW p \in Players, NEW i \in Items, PickUp(p, i)
       PROVE  ViewInv'
  BY <1>1, <1>13, SameViews DEF PickUp, worldVars
<1>14. ASSUME NEW i \in Items, Absorb(i) \/ Despawn(i)
       PROVE  ViewInv'
  BY <1>1, <1>14, SameViews DEF Absorb, Despawn, worldVars
<1>15. CASE UNCHANGED vars
  BY <1>1, <1>15, SameViews DEF vars, worldVars
<1>16. CASE Next
  BY <1>2, <1>3, <1>4, <1>5, <1>6, <1>8, <1>9, <1>10, <1>11, <1>12, <1>13, <1>14, <1>16
     DEF Next
<1>17. QED
  BY <1>15, <1>16
-----------------------------------------------------------------------------
(***************************************************************************)
(* How many items there are.                                               *)
(***************************************************************************)
HandsWith(i) == {p \in Players : hand[p] = i}
SlotsWith(i) == {q \in Positions : Content(chests, q) = i}
InHopper(i) == IF hopper = i THEN 1 ELSE 0

LEMMA CountParts ==
  ASSUME TypeOK, NEW i \in Items
  PROVE  /\ Count(i) = Cardinality(HandsWith(i)) + Cardinality(SlotsWith(i))
                         + InHopper(i) + dropped[i]
         /\ IsFiniteSet(HandsWith(i)) /\ IsFiniteSet(SlotsWith(i))
         /\ Cardinality(HandsWith(i)) \in Nat /\ Cardinality(SlotsWith(i)) \in Nat
         /\ InHopper(i) \in Nat /\ dropped[i] \in Nat
<1>1. i # Air
  BY ContainersAssumption
<1>2. {pos \in DOMAIN chests : chests[pos].slot = i} = SlotsWith(i)
  BY <1>1 DEF Content, TypeOK, SlotsWith
<1>3. IsFiniteSet(Positions)
  <2>1. 1 \in Int /\ Length \in Int
    BY ContainersAssumption
  <2>2. QED
    BY <2>1, FS_Interval DEF Positions
<1>4. IsFiniteSet(SlotsWith(i))
  BY <1>3, FS_Subset DEF SlotsWith
<1>5. IsFiniteSet(HandsWith(i))
  BY ContainersAssumption, FS_Subset DEF HandsWith
<1>6. Cardinality(HandsWith(i)) \in Nat /\ Cardinality(SlotsWith(i)) \in Nat
  BY <1>4, <1>5, FS_CardinalityType
<1>7. InHopper(i) \in Nat /\ dropped[i] \in Nat
  BY DEF InHopper, TypeOK
<1>8. QED
  BY <1>2, <1>4, <1>5, <1>6, <1>7 DEF Count, HandsWith, InHopper

\* The same after a step.
LEMMA CountPartsNext ==
  ASSUME TypeOK', NEW i \in Items
  PROVE  Count(i)' = Cardinality(HandsWith(i)') + Cardinality(SlotsWith(i)')
                       + InHopper(i)' + dropped'[i]
<1>1. i # Air
  BY ContainersAssumption
<1>2. {pos \in DOMAIN chests' : chests'[pos].slot = i} = SlotsWith(i)'
  BY <1>1 DEF Content, TypeOK, SlotsWith
<1>3. QED
  BY <1>2 DEF Count, HandsWith, InHopper

\* Two sets that differ in one element at most.
LEMMA OneChanges ==
  ASSUME NEW S, NEW T, NEW x, IsFiniteSet(S), T \ {x} = S \ {x}
  PROVE  /\ x \in S /\ x \in T => Cardinality(T) = Cardinality(S)
         /\ x \notin S /\ x \notin T => Cardinality(T) = Cardinality(S)
         /\ x \in S /\ x \notin T => Cardinality(T) = Cardinality(S) - 1
         /\ x \notin S /\ x \in T => Cardinality(T) = Cardinality(S) + 1
<1>0. \A y : y # x => (y \in S <=> y \in T)
  <2>1. \A y : y \in T \ {x} <=> y \in S \ {x}
    OBVIOUS
  <2>2. QED
    BY <2>1
<1>1. (x \in S <=> x \in T) => T = S
  <2>1. ASSUME x \in S <=> x \in T, NEW y PROVE y \in S <=> y \in T
    BY <1>0, <2>1
  <2>2. QED
    BY <2>1
<1>2. x \in S /\ x \notin T => T = S \ {x}
  BY Zenon
<1>3. x \notin S /\ x \in T => T = S \cup {x}
  BY Zenon
<1>4. QED
  BY <1>1, <1>2, <1>3, FS_AddElement, FS_RemoveElement

\* Nothing moves.
LEMMA NothingMoves ==
  ASSUME TypeOK, TypeOK', UNCHANGED hand, UNCHANGED itemVars, SameContent(chests', chests),
         NEW i \in Items
  PROVE  Count(i)' = Count(i)
<1>1. HandsWith(i)' = HandsWith(i) /\ InHopper(i)' = InHopper(i) /\ dropped'[i] = dropped[i]
  BY DEF HandsWith, InHopper, itemVars
<1>2. SlotsWith(i)' = SlotsWith(i)
  BY DEF SlotsWith, SameContent, Positions
<1>3. QED
  BY <1>1, <1>2, CountParts, CountPartsNext

LEMMA StepCount ==
  ASSUME TypeOK, TypeOK', [Next]_vars
  PROVE  \/ ChestWritten \/ \E i \in Items : Despawn(i)
         \/ \A i \in Items : Count(i)' = Count(i)
<1> DEFINE Kept == \A i \in Items : Count(i)' = Count(i)
<1>0. SameContent(chests, chests)
  BY DEF SameContent
<1>1. ASSUME UNCHANGED hand, UNCHANGED itemVars, SameContent(chests', chests)
      PROVE  Kept
  BY <1>1, NothingMoves
<1>2. ASSUME NEW pos \in Positions, NEW facing \in Facings, Place(pos, facing)
      PROVE  Kept
  BY <1>1, <1>2, PlaceTable DEF Place, handVars
<1>3. ASSUME NEW pos \in Positions, Break(pos), NEW i \in Items
      PROVE  Count(i)' = Count(i)
  <2>1. i # Air
    BY ContainersAssumption
  <2>2. \A q \in Positions : Content(chests', q) = IF q = pos THEN Air ELSE Content(chests, q)
    BY <1>3, BreakTable
  <2>3. pos \notin SlotsWith(i)' /\ SlotsWith(i)' \ {pos} = SlotsWith(i) \ {pos}
    BY <2>1, <2>2 DEF SlotsWith
  <2>4. HandsWith(i)' = HandsWith(i) /\ InHopper(i)' = InHopper(i)
    BY <1>3 DEF Break, handVars, HandsWith, InHopper
  <2>5. Content(chests, pos) = Air \/ Content(chests, pos) \in Items
    BY DEF TypeOK, Content, Chests
  <2>6. dropped' = IF Content(chests, pos) = Air THEN dropped
                   ELSE Lying(Content(chests, pos), 1)
    BY <1>3 DEF Break
  <2>7. dropped'[i] = IF Content(chests, pos) = i THEN dropped[i] + 1 ELSE dropped[i]
    BY <2>1, <2>5, <2>6, LyingTypes
  <2>8. pos \in SlotsWith(i) <=> Content(chests, pos) = i
    BY DEF SlotsWith
  <2>9. Cardinality(SlotsWith(i)') =
          IF Content(chests, pos) = i THEN Cardinality(SlotsWith(i)) - 1
          ELSE Cardinality(SlotsWith(i))
    BY <2>3, <2>8, CountParts, OneChanges
  <2>10. QED
    BY <2>4, <2>7, <2>9, CountParts, CountPartsNext
<1>4. ASSUME NEW pos \in Positions, NEW b \in Facings \cup {Air}, Explode(pos, b)
      PROVE  Kept
  BY <1>0, <1>1, <1>4 DEF Explode, handVars
<1>5. ASSUME SendChunk
      PROVE  Kept
  <2>1. UNCHANGED hand /\ UNCHANGED itemVars
    BY <1>5 DEF SendChunk, handVars
  <2>2. QED
    BY <1>1, <1>5, <2>1, SendTable
<1>6. ASSUME NEW pos \in Positions, NEW p \in Players, Open(p, pos)
      PROVE  Kept
  <2>1. UNCHANGED hand /\ UNCHANGED itemVars
    BY <1>6 DEF Open, handVars
  <2>2. QED
    BY <1>1, <1>6, <2>1, OpenTable
<1>7. ASSUME NEW p \in Players,
             CloseContainer(p) \/ HandleClose(p) \/ \E pos \in Positions : Move(p, pos)
      PROVE  Kept
  BY <1>0, <1>1, <1>7 DEF CloseContainer, HandleClose, Move, worldVars, handVars
<1>8. ASSUME NEW p \in Players, HandleSetSlot(p)
      PROVE  ChestWritten \/ Kept
  <2>1. UNCHANGED itemVars /\ up[p] # << >> /\ up'[p] = Tail(up[p])
    BY <1>8, SetSlotQueue DEF HandleSetSlot
  <2>2. QED
    BY <1>0, <1>1, <1>8, <2>1, SetSlotCases DEF ChestWritten
<1>9. ASSUME NEW pos \in Positions, HopperMove(pos), NEW i \in Items
      PROVE  Count(i)' = Count(i)
  <2>1. /\ Content(chests', pos) = hopper /\ hopper' = Content(chests, pos)
        /\ \A q \in Positions \ {pos} : Content(chests', q) = Content(chests, q)
    BY <1>9, HopperTable
  <2>2. HandsWith(i)' = HandsWith(i) /\ dropped'[i] = dropped[i]
    BY <1>9 DEF HopperMove, handVars, HandsWith
  <2>3. SlotsWith(i)' \ {pos} = SlotsWith(i) \ {pos}
    BY <2>1 DEF SlotsWith
  <2>4. /\ pos \in SlotsWith(i) <=> hopper' = i
        /\ pos \in SlotsWith(i)' <=> hopper = i
    BY <2>1 DEF SlotsWith
  <2>5. /\ hopper = i /\ hopper' = i => Cardinality(SlotsWith(i)') = Cardinality(SlotsWith(i))
        /\ hopper # i /\ hopper' # i => Cardinality(SlotsWith(i)') = Cardinality(SlotsWith(i))
        /\ hopper = i /\ hopper' # i => Cardinality(SlotsWith(i)') = Cardinality(SlotsWith(i)) + 1
        /\ hopper # i /\ hopper' = i => Cardinality(SlotsWith(i)') = Cardinality(SlotsWith(i)) - 1
    BY <2>3, <2>4, CountParts, OneChanges
  <2>6. QED
    BY <2>2, <2>5, CountParts, CountPartsNext DEF InHopper
<1>10. ASSUME NEW j \in Items, Absorb(j), NEW i \in Items
       PROVE  Count(i)' = Count(i)
  <2>1. HandsWith(i)' = HandsWith(i) /\ SlotsWith(i)' = SlotsWith(i)
    BY <1>10 DEF Absorb, worldVars, handVars, HandsWith, SlotsWith
  <2>2. hopper = Air /\ hopper' = j /\ dropped' = Lying(j, -1) /\ dropped[j] > 0
    BY <1>10 DEF Absorb
  <2>3. dropped'[i] = IF i = j THEN dropped[i] - 1 ELSE dropped[i]
    BY <2>2, LyingTypes
  <2>4. i # Air
    BY ContainersAssumption
  <2>5. QED
    BY <2>1, <2>2, <2>3, <2>4, CountParts, CountPartsNext DEF InHopper
<1>11. ASSUME NEW p \in Players, NEW j \in Items, PickUp(p, j), NEW i \in Items
       PROVE  Count(i)' = Count(i)
  <2>1. InHopper(i)' = InHopper(i) /\ SlotsWith(i)' = SlotsWith(i)
    BY <1>11 DEF PickUp, worldVars, InHopper, SlotsWith
  <2>2. /\ hand[p] = Air /\ hand' = [hand EXCEPT ![p] = j]
        /\ dropped' = Lying(j, -1) /\ dropped[j] > 0
    BY <1>11 DEF PickUp
  <2>3. dropped'[i] = IF i = j THEN dropped[i] - 1 ELSE dropped[i]
    BY <2>2, LyingTypes
  <2>4. i # Air
    BY ContainersAssumption
  <2>5. hand'[p] = j /\ \A o \in Players \ {p} : hand'[o] = hand[o]
    BY <2>2 DEF TypeOK
  <2>6. HandsWith(i)' \ {p} = HandsWith(i) \ {p} /\ p \notin HandsWith(i)
    BY <2>2, <2>4, <2>5 DEF HandsWith
  <2>7. p \in HandsWith(i)' <=> i = j
    BY <2>5 DEF HandsWith
  <2>8. Cardinality(HandsWith(i)') =
          IF i = j THEN Cardinality(HandsWith(i)) + 1 ELSE Cardinality(HandsWith(i))
    BY <2>6, <2>7, CountParts, OneChanges
  <2>9. QED
    BY <2>1, <2>3, <2>8, CountParts, CountPartsNext
<1>12. CASE UNCHANGED vars
  BY <1>0, <1>1, <1>12 DEF vars, worldVars, handVars
<1>13. CASE Next
  BY <1>2, <1>3, <1>4, <1>5, <1>6, <1>7, <1>8, <1>9, <1>10, <1>11, <1>13 DEF Next
<1>14. QED
  BY <1>12, <1>13
-----------------------------------------------------------------------------
(***************************************************************************)
(* The invariant and the theorems.                                         *)
(***************************************************************************)
Inv == TypeOK /\ PairsMatch /\ ViewInv

LEMMA InvStart == Init => Inv
<1> SUFFICES ASSUME Init PROVE Inv
  OBVIOUS
<1>1. DOMAIN chests = {} /\ DOMAIN windows = {}
  BY DEF Init
<1>2. \A pos \in Positions : ~IsChest(pos)
  BY DEF Init, IsChest
<1>3. PairsMatch
  BY <1>1, <1>2 DEF PairsMatch
<1>4. \A p \in Players : DOMAIN up[p] = {}
  BY DEF Init
<1>5. ViewInv
  BY <1>1, <1>4 DEF ViewInv, LeftIsThere, SharersKnow, WritesAreOpen
<1>6. QED
  BY <1>3, <1>5, InitTypes DEF Inv

LEMMA InvStep == Inv /\ [Next]_vars => Inv'
  BY StepTypes, StepPairs, StepViews DEF Inv

\* The inductive invariant: shapes, pairs and views hold together.
THEOREM InvHolds == Spec => []Inv
  BY InvStart, InvStep, PTL DEF Spec

\* The tables of chests, windows and views, and what is under way, have the
\* shape the code relies on.
THEOREM TypeCorrect == Spec => []TypeOK
<1>1. Inv => TypeOK
  BY DEF Inv
<1>2. QED
  BY <1>1, InvHolds, PTL

\* placeBlock() and breakBlock() keep partners each other's neighbours and
\* partners, in rows of any length: no chest is in two double chests, and every
\* inventory is one of a chest that stands.
THEOREM PairsStayMatched == Spec => []PairsMatch
<1>1. Inv => PairsMatch
  BY DEF Inv
<1>2. QED
  BY <1>1, InvHolds, PTL

\* However many players, hoppers and writes on the way there are, the only
\* viewer of a chest sees what is in it when its own writes have come, unless a
\* hopper's change crossed one of them.
THEOREM SoleViewersAreRight == Spec => []SoleViewersSeeTruth
<1>1. Inv => SoleViewersSeeTruth
  BY DEF Inv, ViewInv, ShowsTruth, Agrees, SoleViewersSeeTruth
<1>2. QED
  BY <1>1, InvHolds, PTL

\* Nothing but a client's write to a chest copies an item or loses one that
\* does not lie about too long, whatever the number of items, players and
\* chests.
THEOREM ItemsAreKept == Spec => ItemsKept
<1>1. TypeOK /\ TypeOK' /\ [Next]_vars =>
        [ChestWritten \/ (\E i \in Items : Despawn(i))
          \/ \A i \in Items : Count(i)' = Count(i)]_vars
  BY StepCount
<1>2. QED
  BY <1>1, TypeCorrect, PTL DEF Spec, ItemsKept

(***************************************************************************)
(* Rails: directions.                                                      *)
(***************************************************************************)
LEMMA DirectionFacts ==
  /\ R!Directions = {R!East, R!South, R!West, R!North}
  /\ \A i \in 1 .. 4 : R!InOrder[i] \in R!Directions
  /\ \A d \in R!Directions : \E i \in 1 .. 4 : R!InOrder[i] = d
<1>1. /\ R!InOrder[1] = R!East /\ R!InOrder[2] = R!South
      /\ R!InOrder[3] = R!West /\ R!InOrder[4] = R!North
  BY DEF R!InOrder
<1>2. 1 .. 4 = {1, 2, 3, 4}
  OBVIOUS
<1> QED
  BY <1>1, <1>2 DEF R!Directions

\* The first of some directions is one of them.
LEMMA FirstFacts ==
  ASSUME NEW ds, ds \subseteq R!Directions, ds # {}
  PROVE  R!First(ds) \in ds
<1> DEFINE Is(i) == R!InOrder[i] \in ds /\ \A j \in 1 .. (i - 1) : R!InOrder[j] \notin ds
<1>1. PICK d \in ds : TRUE
  OBVIOUS
<1>2. PICK k \in 1 .. 4 : R!InOrder[k] = d
  BY <1>1, DirectionFacts
<1>3. \E i \in 1 .. 4 : Is(i)
  <2>1. R!InOrder[1] \in ds \/ R!InOrder[2] \in ds \/ R!InOrder[3] \in ds \/ R!InOrder[4] \in ds
    <3>1. k = 1 \/ k = 2 \/ k = 3 \/ k = 4
      OBVIOUS
    <3> QED
      BY <1>1, <1>2, <3>1
  <2>2. /\ \A j \in 1 .. (1 - 1) : FALSE
        /\ \A j \in 1 .. (2 - 1) : j = 1
        /\ \A j \in 1 .. (3 - 1) : j = 1 \/ j = 2
        /\ \A j \in 1 .. (4 - 1) : j = 1 \/ j = 2 \/ j = 3
    OBVIOUS
  <2>3. 1 \in 1 .. 4 /\ 2 \in 1 .. 4 /\ 3 \in 1 .. 4 /\ 4 \in 1 .. 4
    OBVIOUS
  <2>4. CASE Is(1)
    BY <2>3, <2>4
  <2>5. CASE Is(2)
    BY <2>3, <2>5
  <2>6. CASE Is(3)
    BY <2>3, <2>6
  <2>7. CASE Is(4)
    BY <2>3, <2>7
  <2> QED
    BY <2>1, <2>2, <2>4, <2>5, <2>6, <2>7
<1> HIDE DEF Is
<1>4. Is(CHOOSE i \in 1 .. 4 : Is(i))
  BY <1>3
<1> QED
  BY <1>4 DEF Is, R!First

LEMMA FirstTwoFacts ==
  ASSUME NEW ds, ds \subseteq R!Directions
  PROVE  /\ R!FirstTwo(ds) \subseteq ds
         /\ \E a, b \in R!Directions : R!FirstTwo(ds) \subseteq {a, b}
<1>1. R!FirstTwo(ds) \subseteq ds
  BY DEF R!FirstTwo
<1>2. CASE ds = {}
  BY <1>1, <1>2, DirectionFacts
<1>3. CASE ds # {}
  <2>1. R!First(ds) \in R!Directions
    BY <1>3, FirstFacts
  <2>2. CASE ds \ {R!First(ds)} = {}
    BY <1>1, <2>1, <2>2
  <2>3. CASE ds \ {R!First(ds)} # {}
    <3>1. R!First(ds \ {R!First(ds)}) \in ds \ {R!First(ds)}
      BY <2>3, FirstFacts
    <3> QED
      BY <1>1, <2>1, <3>1 DEF R!FirstTwo
  <2> QED
    BY <2>2, <2>3
<1> QED
  BY <1>1, <1>2, <1>3

LEMMA PartnersFacts ==
  ASSUME NEW rs, NEW c
  PROVE  /\ R!Partners(rs, c) \subseteq {d \in R!Directions : R!RailAt(rs, c, d)}
         /\ \E a, b \in R!Directions : R!Partners(rs, c) \subseteq {a, b}
<1> DEFINE all == {d \in R!Directions :
                     /\ R!RailAt(rs, c, d)
                     /\ \/ R!Connected(rs, R!Step(c, d)) < 2
                        \/ R!PointsTo(rs, R!Step(c, d), R!Back(d))}
<1>1. all \subseteq {d \in R!Directions : R!RailAt(rs, c, d)}
  OBVIOUS
<1>2. R!Partners(rs, c) = R!FirstTwo(all)
  BY DEF R!Partners
<1> HIDE DEF all
<1> QED
  BY <1>1, <1>2, FirstTwoFacts

(***************************************************************************)
(* The shape of a rail.                                                    *)
(***************************************************************************)
LEMMA StraightFacts ==
  /\ R!Straight(R!East) = 1 /\ R!Straight(R!West) = 1
  /\ R!Straight(R!South) = 0 /\ R!Straight(R!North) = 0
  /\ \A d \in R!Directions : R!Straight(d) \in {0, 1}
  BY DirectionFacts DEF R!Straight, R!East, R!West, R!South, R!North

LEMMA SlopeFacts ==
  \A d \in R!Directions : R!Slope(d) \in 0 .. 5
<1>1. /\ R!East # R!West /\ R!East # R!North /\ R!East # R!South
      /\ R!West # R!North /\ R!West # R!South /\ R!North # R!South
  BY DEF R!East, R!West, R!South, R!North
<1> QED
  BY <1>1, DirectionFacts DEF R!Slope

LEMMA CurveFacts ==
  ASSUME NEW ds, ds \subseteq R!Directions,
         NEW a \in R!Directions, NEW b \in R!Directions, ds \subseteq {a, b},
         {0, 1} \subseteq {R!Straight(d) : d \in ds}
  PROVE  R!Curve(ds) \in 0 .. 9
<1>1. /\ R!East # R!West /\ R!East # R!North /\ R!East # R!South
      /\ R!West # R!North /\ R!West # R!South /\ R!North # R!South
  BY DEF R!East, R!West, R!South, R!North
<1>2. PICK v \in ds, w \in ds : R!Straight(v) = 0 /\ R!Straight(w) = 1
  OBVIOUS
<1>3. v \in {R!South, R!North} /\ w \in {R!East, R!West}
  BY <1>2, DirectionFacts, StraightFacts
<1>4. ds = {v, w}
  BY <1>2
<1>5. \/ ds = {R!East, R!South} \/ ds = {R!South, R!West}
      \/ ds = {R!West, R!North} \/ ds = {R!North, R!East}
  BY <1>3, <1>4
<1>6. /\ {R!East, R!South} # {R!South, R!West} /\ {R!East, R!South} # {R!West, R!North}
      /\ {R!East, R!South} # {R!North, R!East} /\ {R!South, R!West} # {R!West, R!North}
      /\ {R!South, R!West} # {R!North, R!East} /\ {R!West, R!North} # {R!North, R!East}
  BY <1>1
<1> QED
  BY <1>5, <1>6 DEF R!Curve

LEMMA ShapeFacts ==
  ASSUME NEW c, NEW ds, ds \subseteq R!Directions,
         NEW a \in R!Directions, NEW b \in R!Directions, ds \subseteq {a, b},
         NEW curves
  PROVE  /\ R!Shape(c, ds, curves) \in 0 .. 9
         /\ ~curves => R!Shape(c, ds, curves) \in 0 .. 5
<1> DEFINE rising == {d \in ds : R!Rise(c, d) = 1}
           curved == /\ curves /\ {0, 1} \subseteq {R!Straight(d) : d \in ds}
                     /\ \A d \in ds : R!Rise(c, d) = 0
           plain == IF rising # {} THEN R!Slope(R!First(rising)) ELSE R!Straight(R!First(ds))
<1>1. CASE ds = {}
  <2>1. ~curved
    BY <1>1
  <2> QED
    BY <1>1, <2>1 DEF R!Shape
<1>2. CASE ds # {} /\ curved
  <2>1. R!Curve(ds) \in 0 .. 9
    BY <1>2, CurveFacts
  <2>2. R!Shape(c, ds, curves) = R!Curve(ds)
    BY <1>2 DEF R!Shape
  <2> QED
    BY <1>2, <2>1, <2>2
<1>3. CASE ds # {} /\ ~curved
  <2>1. plain \in 0 .. 5
    <3>1. R!First(ds) \in R!Directions
      BY <1>3, FirstFacts
    <3>2. rising # {} => R!First(rising) \in R!Directions
      <4>1. rising \subseteq R!Directions
        OBVIOUS
      <4> HIDE DEF rising
      <4> QED
        BY <4>1, FirstFacts
    <3> QED
      BY <3>1, <3>2, SlopeFacts, StraightFacts
  <2>2. R!Shape(c, ds, curves) = plain
    BY <1>3 DEF R!Shape
  <2> HIDE DEF plain
  <2> QED
    BY <2>1, <2>2
<1> QED
  BY <1>1, <1>2, <1>3

(***************************************************************************)
(* Turning rails and telling of them.                                      *)
(***************************************************************************)
RailOrNone == R!RailBlocks \cup {R!NoRail}

\* u is what has become of the rails rs so far: those that are told of are as
\* they were told, the others as they were.
Follows(u, rs) ==
  /\ u.rail \in [RailCells -> RailOrNone]
  /\ DOMAIN u.told \subseteq RailCells
  /\ \A n \in RailCells : u.rail[n] = IF n \in DOMAIN u.told THEN u.told[n] ELSE rs[n]

LEMMA TurnedIsRail ==
  ASSUME NEW r \in R!RailBlocks, NEW m \in 0 .. 9, r.kind # "normal" => m \in 0 .. 5
  PROVE  [r EXCEPT !.meta = m] \in R!RailBlocks
  BY DEF R!RailBlocks

LEMMA MetaFacts ==
  ASSUME NEW rs, NEW c
  PROVE  /\ R!Meta(rs, c) \in 0 .. 9
         /\ rs[c].kind # "normal" => R!Meta(rs, c) \in 0 .. 5
<1>1. PICK a \in R!Directions, b \in R!Directions : R!Partners(rs, c) \subseteq {a, b}
  BY PartnersFacts
<1>2. R!Partners(rs, c) \subseteq R!Directions
  BY PartnersFacts
<1> QED
  BY <1>1, <1>2, ShapeFacts DEF R!Meta

LEMMA RecomputeFollows ==
  ASSUME NEW rs, NEW u, Follows(u, rs), NEW c \in RailCells
  PROVE  /\ Follows(R!Recompute(u, c), rs)
         /\ DOMAIN u.told \subseteq DOMAIN R!Recompute(u, c).told
         /\ u.rail[c] # R!NoRail => c \in DOMAIN R!Recompute(u, c).told
         /\ \A n \in RailCells : u.rail[n] = R!NoRail <=> R!Recompute(u, c).rail[n] = R!NoRail
<1> DEFINE r == [u.rail[c] EXCEPT !.meta = R!Meta(u.rail, c)]
           rail1 == [u.rail EXCEPT ![c] = r]
           told1 == [n \in DOMAIN u.told \cup {c} |-> IF n = c THEN r ELSE u.told[n]]
<1>1. CASE u.rail[c] = R!NoRail
  <2>1. R!Recompute(u, c) = u
    BY <1>1 DEF R!Recompute
  <2> QED
    BY <1>1, <2>1
<1>2. CASE u.rail[c] # R!NoRail
  <2>1. u.rail[c] \in R!RailBlocks
    BY <1>2 DEF Follows, RailOrNone
  <2>2. r \in R!RailBlocks
    <3>1. /\ R!Meta(u.rail, c) \in 0 .. 9
          /\ u.rail[c].kind # "normal" => R!Meta(u.rail, c) \in 0 .. 5
      BY MetaFacts
    <3> HIDE DEF R!Meta
    <3> QED
      BY <2>1, <3>1, TurnedIsRail
  <2>3. r # R!NoRail
    BY <2>2 DEF R!RailBlocks, R!NoRail
  <2>4. R!Recompute(u, c) = [rail |-> rail1, told |-> told1]
    BY <1>2 DEF R!Recompute
  <2> HIDE DEF r
  <2>5. rail1 \in [RailCells -> RailOrNone]
    BY <2>2 DEF Follows, RailOrNone
  <2>6. \A n \in RailCells : rail1[n] = IF n = c THEN r ELSE u.rail[n]
    BY DEF Follows
  <2>7. /\ DOMAIN told1 = DOMAIN u.told \cup {c}
        /\ \A n \in DOMAIN told1 : told1[n] = IF n = c THEN r ELSE u.told[n]
    OBVIOUS
  <2> DEFINE v == R!Recompute(u, c)
  <2>8. v.rail = rail1 /\ v.told = told1
    BY <2>4
  <2> HIDE DEF rail1, told1, v
  <2>9. Follows(v, rs)
    BY <2>5, <2>6, <2>7, <2>8 DEF Follows
  <2>10. \A n \in RailCells : u.rail[n] = R!NoRail <=> v.rail[n] = R!NoRail
    BY <1>2, <2>3, <2>6, <2>8
  <2>11. DOMAIN u.told \subseteq DOMAIN v.told /\ c \in DOMAIN v.told
    BY <2>7, <2>8
  <2> QED
    BY <2>9, <2>10, <2>11 DEF v
<1> QED
  BY <1>1, <1>2

\* The same of a turn of the neighbours of a cell.
LEMMA AroundFollows ==
  ASSUME NEW rs, NEW u, Follows(u, rs), NEW c, NEW ds,
         \A d \in ds : R!Step(c, d) \in RailCells
  PROVE  /\ Follows(R!Around(u, c, ds), rs)
         /\ DOMAIN u.told \subseteq DOMAIN R!Around(u, c, ds).told
         /\ \A n \in RailCells : u.rail[n] = R!NoRail <=> R!Around(u, c, ds).rail[n] = R!NoRail
<1> DEFINE turn(v, d) == IF d \in ds THEN R!Recompute(v, R!Step(c, d)) ELSE v
           Onward(v, w) == /\ Follows(w, rs)
                           /\ DOMAIN v.told \subseteq DOMAIN w.told
                           /\ \A n \in RailCells : v.rail[n] = R!NoRail <=> w.rail[n] = R!NoRail
<1>1. ASSUME NEW v, Follows(v, rs), NEW d PROVE Onward(v, turn(v, d))
  BY <1>1, RecomputeFollows
<1> DEFINE v1 == turn(u, R!East)
           v2 == turn(v1, R!South)
           v3 == turn(v2, R!West)
           v4 == turn(v3, R!North)
<1>2. R!Around(u, c, ds) = v4
  BY DEF R!Around
<1> HIDE DEF turn
<1>3. Onward(u, v1)
  BY <1>1
<1> HIDE DEF v1
<1>4. Onward(v1, v2)
  BY <1>1, <1>3
<1> HIDE DEF v2
<1>5. Onward(v2, v3)
  BY <1>1, <1>4
<1> HIDE DEF v3
<1>6. Onward(v3, v4)
  BY <1>1, <1>5
<1> HIDE DEF v4
<1> QED
  BY <1>2, <1>3, <1>4, <1>5, <1>6

LEMMA UntoldFollows ==
  ASSUME NEW rs \in [RailCells -> RailOrNone]
  PROVE  Follows(R!Untold(rs), rs) /\ R!Untold(rs).rail = rs
  BY DEF Follows, R!Untold

\* Laying a rail turns rails, and tells of each it turned and of the new one.
LEMMA LaidFollows ==
  ASSUME R!TypeOK, NEW c \in RailCells, NEW k \in R!Kinds
  PROVE  /\ Follows(R!Laid(c, k), [rail EXCEPT ![c] = [kind |-> k, meta |-> 0]])
         /\ c \in DOMAIN R!Laid(c, k).told
<1> DEFINE put == [rail EXCEPT ![c] = [kind |-> k, meta |-> 0]]
           open == {d \in R!Directions : R!RailAt(put, c, d) /\ R!Connected(put, R!Step(c, d)) < 2}
           u0 == R!Untold(put)
           u1 == R!Recompute(u0, c)
           u2 == R!Around(u1, c, open)
           u3 == R!Around(u2, c, open)
           u4 == R!Recompute(u3, c)
<1>1. R!Laid(c, k) = u4
  BY DEF R!Laid
<1>2. put \in [RailCells -> RailOrNone] /\ put[c] # R!NoRail
  <2>1. [kind |-> k, meta |-> 0] \in R!RailBlocks
    BY DEF R!RailBlocks, R!Kinds
  <2>2. [kind |-> k, meta |-> 0] # R!NoRail
    BY DEF R!Kinds, R!NoRail
  <2> QED
    BY <2>1, <2>2 DEF R!TypeOK, RailOrNone
<1>3. \A d \in open : R!Step(c, d) \in RailCells
  BY DEF R!RailAt
<1> HIDE DEF put, open
<1>4. Follows(u0, put) /\ u0.rail[c] # R!NoRail
  BY <1>2, UntoldFollows
<1> HIDE DEF u0
<1>5. Follows(u1, put) /\ c \in DOMAIN u1.told
  BY <1>4, RecomputeFollows
<1> HIDE DEF u1
<1>6. Follows(u2, put) /\ c \in DOMAIN u2.told
  BY <1>3, <1>5, AroundFollows
<1> HIDE DEF u2
<1>7. Follows(u3, put) /\ c \in DOMAIN u3.told
  BY <1>3, <1>6, AroundFollows
<1> HIDE DEF u3
<1>8. Follows(u4, put) /\ c \in DOMAIN u4.told
  BY <1>7, RecomputeFollows
<1> HIDE DEF u4
<1> QED
  BY <1>1, <1>8 DEF put

\* Breaking one does, and tells of each it turned.
LEMMA LeftFollows ==
  ASSUME R!TypeOK, NEW c \in RailCells
  PROVE  Follows(R!Left(c), [rail EXCEPT ![c] = R!NoRail])
<1> DEFINE gone == [rail EXCEPT ![c] = R!NoRail]
           near == {d \in R!Directions : R!RailAt(gone, c, d)}
<1>1. gone \in [RailCells -> RailOrNone]
  BY DEF R!TypeOK, RailOrNone
<1>2. \A d \in near : R!Step(c, d) \in RailCells
  BY DEF R!RailAt
<1>3. R!Left(c) = R!Around(R!Untold(gone), c, near)
  BY DEF R!Left
<1> HIDE DEF gone, near
<1>4. Follows(R!Untold(gone), gone)
  BY <1>1, UntoldFollows
<1>5. Follows(R!Left(c), gone)
  BY <1>2, <1>3, <1>4, AroundFollows
<1> QED
  BY <1>5 DEF gone

\* Players who saw the rails as they were see those that were told of as they
\* are.
LEMMA SeenIsRail ==
  ASSUME NEW u, NEW rs, NEW before, Follows(u, rs),
         \A n \in RailCells : n \in DOMAIN u.told \/ before[n] = rs[n]
  PROVE  R!Seen(before, u.told) = u.rail
<1> DEFINE s == R!Seen(before, u.told)
<1>1. DOMAIN s = RailCells /\ \A n \in RailCells : s[n] = IF n \in DOMAIN u.told THEN u.told[n] ELSE before[n]
  BY DEF R!Seen
<1>2. \A n \in RailCells : s[n] = u.rail[n]
  BY <1>1 DEF Follows
<1>3. s = [n \in RailCells |-> s[n]]
  BY DEF R!Seen
<1> HIDE DEF s
<1>4. u.rail = [n \in RailCells |-> u.rail[n]]
  BY DEF Follows
<1> QED
  BY <1>2, <1>3, <1>4 DEF s

(***************************************************************************)
(* The theorems.                                                           *)
(***************************************************************************)
RailsInv == R!TypeOK /\ R!ShownAsLaid

LEMMA RailsInit == R!Init => RailsInv
<1> SUFFICES ASSUME R!Init PROVE RailsInv
  OBVIOUS
<1> QED
  BY DEF R!Init, RailsInv, R!TypeOK, R!ShownAsLaid

LEMMA RailsStep == RailsInv /\ [R!Next]_(R!vars) => RailsInv'
<1> SUFFICES ASSUME RailsInv, [R!Next]_(R!vars) PROVE RailsInv'
  OBVIOUS
<1> USE DEF RailsInv
<1>1. ASSUME NEW c \in RailCells, NEW k \in R!Kinds, R!Place(c, k) PROVE RailsInv'
  <2> DEFINE u == R!Laid(c, k)
             new == [kind |-> k, meta |-> 0]
             put == [rail EXCEPT ![c] = new]
  <2>1. Follows(u, put) /\ c \in DOMAIN u.told
    BY LaidFollows
  <2>2. /\ rail' = u.rail /\ shown' = R!Seen(shown, u.told)
        /\ ground' = ground /\ broken' = broken
    BY <1>1 DEF R!Place
  <2>3. \A n \in RailCells : n # c => put[n] = rail[n]
    BY DEF R!TypeOK
  <2> HIDE DEF u, put
  <2>4. R!TypeOK'
    BY <2>1, <2>2 DEF R!TypeOK, Follows, RailOrNone
  <2>5. R!Seen(shown, u.told) = u.rail
    <3>1. \A n \in RailCells : n \in DOMAIN u.told \/ shown[n] = put[n]
      BY <2>1, <2>3 DEF R!ShownAsLaid
    <3> QED
      BY <2>1, <3>1, SeenIsRail
  <2> QED
    BY <2>2, <2>4, <2>5 DEF R!ShownAsLaid
<1>2. ASSUME NEW c \in RailCells, R!Break(c) PROVE RailsInv'
  <2> DEFINE u == R!Left(c)
             gone == [rail EXCEPT ![c] = R!NoRail]
  <2>1. Follows(u, gone)
    BY LeftFollows
  <2>2. /\ rail' = u.rail /\ shown' = R!Seen(gone, u.told)
        /\ ground' = ground /\ broken' = TRUE
    BY <1>2 DEF R!Break, R!ShownAsLaid
  <2> HIDE DEF u, gone
  <2>3. R!TypeOK'
    BY <2>1, <2>2 DEF R!TypeOK, Follows, RailOrNone
  <2>4. R!Seen(gone, u.told) = u.rail
    BY <2>1, SeenIsRail
  <2> QED
    BY <2>2, <2>3, <2>4 DEF R!ShownAsLaid
<1>3. CASE UNCHANGED R!vars
  BY <1>3 DEF R!vars, R!TypeOK, R!ShownAsLaid
<1> QED
  BY <1>1, <1>2, <1>3 DEF R!Next

\* Rails have the shapes they can have: a special one never lies in a curve.
THEOREM RailsTypeCorrect == RailsSpec => []RailsTypeOK
<1>1. RailsInv => RailsTypeOK
  BY DEF RailsInv, RailsTypeOK
<1> QED
  BY RailsInit, RailsStep, <1>1, PTL DEF RailsSpec, R!Spec

\* The players have been told of every rail that was laid, turned or broken,
\* placeRailAuto() and updateRailsAround().
THEOREM RailsAreShown == RailsSpec => []ShownAsLaid
<1>1. RailsInv => ShownAsLaid
  BY DEF RailsInv, ShownAsLaid
<1> QED
  BY RailsInit, RailsStep, <1>1, PTL DEF RailsSpec, R!Spec

(***************************************************************************)
(* Rails: cells beside each other.                                         *)
(***************************************************************************)
LEMMA FourDirections ==
  /\ R!East # R!West /\ R!East # R!North /\ R!East # R!South
  /\ R!West # R!North /\ R!West # R!South /\ R!North # R!South
  BY DEF R!East, R!West, R!South, R!North

LEMMA BackOfEach ==
  R!Back(R!East) = R!West /\ R!Back(R!West) = R!East /\ R!Back(R!South) = R!North /\ R!Back(R!North) = R!South
<1>1. /\ R!East[1] = 1 /\ R!East[2] = 0 /\ R!West[1] = -1 /\ R!West[2] = 0
      /\ R!South[1] = 0 /\ R!South[2] = 1 /\ R!North[1] = 0 /\ R!North[2] = -1
  BY DEF R!East, R!West, R!South, R!North
<1>2. \A x \in Int : -x = 0 - x
  OBVIOUS
<1>3. \A d \in R!Directions : d[1] \in Int /\ d[2] \in Int
  BY <1>1, DirectionFacts
<1>4. \A d \in R!Directions : R!Back(d) = <<0 - d[1], 0 - d[2]>>
  BY <1>2, <1>3 DEF R!Back
<1>5. R!Back(R!East) = <<-1, 0>> /\ R!Back(R!West) = <<1, 0>>
  BY <1>1, <1>4, DirectionFacts
<1>6. R!Back(R!South) = <<0, -1>> /\ R!Back(R!North) = <<0, 1>>
  BY <1>1, <1>4, DirectionFacts
<1> QED
  BY <1>5, <1>6 DEF R!East, R!West, R!South, R!North

LEMMA BackFacts ==
  \A d \in R!Directions : R!Back(d) \in R!Directions /\ R!Back(d) # d /\ R!Back(R!Back(d)) = d
<1>1. R!Back(R!East) = R!West /\ R!Back(R!West) = R!East /\ R!Back(R!South) = R!North /\ R!Back(R!North) = R!South
  BY BackOfEach
<1> QED
  BY <1>1, FourDirections, DirectionFacts

LEMMA CellsArePairs == \A c \in RailCells : c \in Int \X Int
  BY RailAssumption DEF R!ConstantsOK

LEMMA StepFacts ==
  ASSUME NEW c \in Int \X Int, NEW d \in R!Directions
  PROVE  /\ R!Step(c, d) \in Int \X Int
         /\ R!Step(c, d) # c
         /\ R!Step(R!Step(c, d), R!Back(d)) = c
         /\ \A e \in R!Directions : R!Step(c, e) = R!Step(c, d) => e = d
         /\ \A e \in R!Directions : R!Step(R!Step(c, d), e) = c => e = R!Back(d)
<1>1. PICK x \in Int, y \in Int : c = <<x, y>>
  OBVIOUS
<1>2. /\ \A a, b \in Int : R!Step(<<a, b>>, R!East) = <<a + 1, b>>
      /\ \A a, b \in Int : R!Step(<<a, b>>, R!West) = <<a - 1, b>>
      /\ \A a, b \in Int : R!Step(<<a, b>>, R!South) = <<a, b + 1>>
      /\ \A a, b \in Int : R!Step(<<a, b>>, R!North) = <<a, b - 1>>
  BY DEF R!Step, R!East, R!West, R!South, R!North
<1>3. R!Back(R!East) = R!West /\ R!Back(R!West) = R!East /\ R!Back(R!South) = R!North /\ R!Back(R!North) = R!South
  BY BackOfEach
<1>4. CASE d = R!East
  <2>1. R!Step(c, d) = <<x + 1, y>>
    BY <1>1, <1>2, <1>4
  <2>2. /\ R!Step(R!Step(c, d), R!West) = <<x, y>> /\ R!Step(R!Step(c, d), R!East) = <<x + 2, y>>
        /\ R!Step(R!Step(c, d), R!South) = <<x + 1, y + 1>> /\ R!Step(R!Step(c, d), R!North) = <<x + 1, y - 1>>
    BY <1>2, <2>1
  <2> QED
    BY <1>1, <1>2, <1>3, <1>4, <2>1, <2>2, DirectionFacts
<1>5. CASE d = R!West
  <2>1. R!Step(c, d) = <<x - 1, y>>
    BY <1>1, <1>2, <1>5
  <2>2. /\ R!Step(R!Step(c, d), R!East) = <<x, y>> /\ R!Step(R!Step(c, d), R!West) = <<x - 2, y>>
        /\ R!Step(R!Step(c, d), R!South) = <<x - 1, y + 1>> /\ R!Step(R!Step(c, d), R!North) = <<x - 1, y - 1>>
    BY <1>2, <2>1
  <2> QED
    BY <1>1, <1>2, <1>3, <1>5, <2>1, <2>2, DirectionFacts
<1>6. CASE d = R!South
  <2>1. R!Step(c, d) = <<x, y + 1>>
    BY <1>1, <1>2, <1>6
  <2>2. /\ R!Step(R!Step(c, d), R!North) = <<x, y>> /\ R!Step(R!Step(c, d), R!South) = <<x, y + 2>>
        /\ R!Step(R!Step(c, d), R!East) = <<x + 1, y + 1>> /\ R!Step(R!Step(c, d), R!West) = <<x - 1, y + 1>>
    BY <1>2, <2>1
  <2> QED
    BY <1>1, <1>2, <1>3, <1>6, <2>1, <2>2, DirectionFacts
<1>7. CASE d = R!North
  <2>1. R!Step(c, d) = <<x, y - 1>>
    BY <1>1, <1>2, <1>7
  <2>2. /\ R!Step(R!Step(c, d), R!South) = <<x, y>> /\ R!Step(R!Step(c, d), R!North) = <<x, y - 2>>
        /\ R!Step(R!Step(c, d), R!East) = <<x + 1, y - 1>> /\ R!Step(R!Step(c, d), R!West) = <<x - 1, y - 1>>
    BY <1>2, <2>1
  <2> QED
    BY <1>1, <1>2, <1>3, <1>7, <2>1, <2>2, DirectionFacts
<1> QED
  BY <1>4, <1>5, <1>6, <1>7, DirectionFacts

\* As on a chessboard: every step changes the colour.
LEMMA Chequered ==
  ASSUME NEW c \in Int \X Int, NEW d \in R!Directions, NEW e \in R!Directions, NEW f \in R!Directions
  PROVE  R!Step(R!Step(c, d), e) # R!Step(c, f)
<1>1. PICK x \in Int, y \in Int : c = <<x, y>>
  OBVIOUS
<1> DEFINE sum(p) == p[1] + p[2]
<1>2. ASSUME NEW a \in Int, NEW b \in Int, NEW g \in R!Directions
      PROVE  /\ R!Step(<<a, b>>, g) \in Int \X Int
             /\ sum(R!Step(<<a, b>>, g)) = a + b + 1 \/ sum(R!Step(<<a, b>>, g)) = a + b - 1
  BY DirectionFacts DEF R!Step, R!East, R!West, R!South, R!North
<1>3. sum(R!Step(c, d)) \in {x + y + 1, x + y - 1} /\ sum(R!Step(c, f)) \in {x + y + 1, x + y - 1}
  BY <1>1, <1>2
<1>4. PICK a \in Int, b \in Int : R!Step(c, d) = <<a, b>>
  BY <1>1, <1>2
<1>5. sum(R!Step(c, d)) = a + b
  BY <1>4
<1>6. sum(R!Step(R!Step(c, d), e)) \in {a + b + 1, a + b - 1}
  BY <1>2, <1>4
<1> HIDE DEF sum
<1>7. a + b \in {x + y + 1, x + y - 1}
  BY <1>3, <1>5
<1>8. sum(R!Step(R!Step(c, d), e)) \in {x + y + 2, x + y, x + y - 2}
  BY <1>6, <1>7
<1> QED
  BY <1>3, <1>8

(***************************************************************************)
(* Rails: the ends of a rail.                                              *)
(***************************************************************************)
LEMMA FirstTwoOfMany ==
  ASSUME NEW ds, ds \subseteq R!Directions
  PROVE  \/ R!FirstTwo(ds) = ds
         \/ \E a, b \in R!FirstTwo(ds) : a # b
<1>1. CASE ds = {}
  BY <1>1 DEF R!FirstTwo
<1>2. CASE ds # {} /\ ds \ {R!First(ds)} = {}
  BY <1>2, FirstFacts DEF R!FirstTwo
<1>3. CASE ds # {} /\ ds \ {R!First(ds)} # {}
  <2>1. R!First(ds) \in ds
    BY <1>3, FirstFacts
  <2>2. R!First(ds \ {R!First(ds)}) \in ds \ {R!First(ds)}
    BY <1>3, FirstFacts
  <2> QED
    BY <2>1, <2>2 DEF R!FirstTwo
<1> QED
  BY <1>1, <1>2, <1>3

LEMMA FirstTwoOfFew ==
  ASSUME NEW a, NEW b, NEW ds, ds \subseteq R!Directions, ds \subseteq {a, b}
  PROVE  R!FirstTwo(ds) = ds
<1>1. R!FirstTwo(ds) \subseteq ds
  BY FirstTwoFacts
<1> QED
  BY <1>1, FirstTwoOfMany

LEMMA FirstOfOne ==
  ASSUME NEW d \in R!Directions
  PROVE  R!First({d}) = d
  BY FirstFacts

\* The rail r has an end in each of the directions ds.
Reaches(r, ds) == \A d \in ds : d \in R!Ends(r)

LEMMA EndsOfMeta ==
  ASSUME NEW r
  PROVE  /\ r.meta = 0 => R!Ends(r) = {R!South, R!North}
         /\ r.meta = 1 => R!Ends(r) = {R!East, R!West}
         /\ r.meta = 2 => R!Ends(r) = {R!East, R!West}
         /\ r.meta = 3 => R!Ends(r) = {R!East, R!West}
         /\ r.meta = 4 => R!Ends(r) = {R!South, R!North}
         /\ r.meta = 5 => R!Ends(r) = {R!South, R!North}
         /\ r.meta = 6 => R!Ends(r) = {R!East, R!South}
         /\ r.meta = 7 => R!Ends(r) = {R!South, R!West}
         /\ r.meta = 8 => R!Ends(r) = {R!West, R!North}
         /\ r.meta = 9 => R!Ends(r) = {R!North, R!East}
  BY DEF R!Ends

LEMMA EndsAreTwo ==
  ASSUME NEW r \in R!RailBlocks
  PROVE  \E a, b \in R!Directions : R!Ends(r) = {a, b}
<1>1. r.meta \in 0 .. 9
  BY DEF R!RailBlocks
<1> QED
  BY <1>1, EndsOfMeta, DirectionFacts

LEMMA SlopeReaches ==
  ASSUME NEW d \in R!Directions, NEW r, r.meta = R!Slope(d)
  PROVE  d \in R!Ends(r)
<1>1. R!Slope(R!East) = 2 /\ R!Slope(R!West) = 3 /\ R!Slope(R!North) = 4 /\ R!Slope(R!South) = 5
  BY FourDirections DEF R!Slope
<1> QED
  BY <1>1, EndsOfMeta, DirectionFacts

LEMMA StraightReaches ==
  ASSUME NEW d \in R!Directions, NEW e \in R!Directions, NEW r,
         r.meta = R!Straight(d), R!Straight(e) = R!Straight(d)
  PROVE  e \in R!Ends(r)
  BY StraightFacts, EndsOfMeta, DirectionFacts

LEMMA CurveReaches ==
  ASSUME NEW ds, ds \subseteq R!Directions,
         NEW a \in ds, NEW b \in ds, ds = {a, b}, R!Straight(a) = 0, R!Straight(b) = 1,
         NEW r, r.meta = R!Curve(ds)
  PROVE  Reaches(r, ds)
<1>1. a \in {R!South, R!North} /\ b \in {R!East, R!West}
  BY DirectionFacts, StraightFacts
<1>2. /\ {R!East, R!South} # {R!South, R!West} /\ {R!East, R!South} # {R!West, R!North}
      /\ {R!East, R!South} # {R!North, R!East} /\ {R!South, R!West} # {R!West, R!North}
      /\ {R!South, R!West} # {R!North, R!East} /\ {R!West, R!North} # {R!North, R!East}
  BY FourDirections
<1>3. /\ R!Curve({R!East, R!South}) = 6 /\ R!Curve({R!South, R!West}) = 7
      /\ R!Curve({R!West, R!North}) = 8 /\ R!Curve({R!North, R!East}) = 9
  BY <1>2 DEF R!Curve
<1>4. \/ ds = {R!East, R!South} \/ ds = {R!South, R!West}
      \/ ds = {R!West, R!North} \/ ds = {R!North, R!East}
  BY <1>1
<1>5. CASE ds = {R!East, R!South}
  BY <1>3, <1>5, EndsOfMeta DEF Reaches
<1>6. CASE ds = {R!South, R!West}
  BY <1>3, <1>6, EndsOfMeta DEF Reaches
<1>7. CASE ds = {R!West, R!North}
  BY <1>3, <1>7, EndsOfMeta DEF Reaches
<1>8. CASE ds = {R!North, R!East}
  BY <1>3, <1>8, EndsOfMeta DEF Reaches
<1> QED
  BY <1>4, <1>5, <1>6, <1>7, <1>8

\* A rail that has one partner meets it, whatever the ground.
LEMMA ShapeOfOne ==
  ASSUME NEW c, NEW d \in R!Directions, NEW curves, NEW r, r.meta = R!Shape(c, {d}, curves)
  PROVE  d \in R!Ends(r)
<1> DEFINE rising == {e \in {d} : R!Rise(c, e) = 1}
           curved == /\ curves /\ {0, 1} \subseteq {R!Straight(e) : e \in {d}}
                     /\ \A e \in {d} : R!Rise(c, e) = 0
<1>1. ~curved /\ {d} # {}
  OBVIOUS
<1>2. R!Shape(c, {d}, curves) = IF rising # {} THEN R!Slope(R!First(rising)) ELSE R!Straight(R!First({d}))
  BY <1>1 DEF R!Shape
<1>3. CASE rising # {}
  <2>1. rising = {d}
    BY <1>3
  <2> QED
    BY <1>2, <1>3, <2>1, FirstOfOne, SlopeReaches
<1>4. CASE rising = {}
  BY <1>2, <1>4, FirstOfOne, StraightReaches
<1> QED
  BY <1>3, <1>4

\* On level ground one that can curve meets both of its partners.
LEMMA ShapeOfTwo ==
  ASSUME NEW c, NEW ds, ds \subseteq R!Directions,
         NEW a \in R!Directions, NEW b \in R!Directions, ds \subseteq {a, b},
         \A d \in ds : R!Rise(c, d) = 0,
         NEW k, k = "normal", NEW r, r.meta = R!Shape(c, ds, k = "normal")
  PROVE  Reaches(r, ds)
<1>1. CASE ds = {}
  BY <1>1 DEF Reaches
<1>2. CASE ds # {} /\ {0, 1} \subseteq {R!Straight(d) : d \in ds}
  <2>1. PICK v \in ds, w \in ds : R!Straight(v) = 0 /\ R!Straight(w) = 1
    BY <1>2
  <2>2. ds = {v, w}
    BY <2>1
  <2>3. R!Shape(c, ds, k = "normal") = R!Curve(ds)
    BY <1>2 DEF R!Shape
  <2> QED
    BY <2>1, <2>2, <2>3, CurveReaches
<1>3. CASE ds # {} /\ ~({0, 1} \subseteq {R!Straight(d) : d \in ds})
  <2>1. {d \in ds : R!Rise(c, d) = 1} = {}
    OBVIOUS
  <2>2. R!Shape(c, ds, k = "normal") = R!Straight(R!First(ds))
    BY <1>3, <2>1 DEF R!Shape
  <2>3. R!First(ds) \in ds
    BY <1>3, FirstFacts
  <2>4. \A e \in ds : R!Straight(e) = R!Straight(R!First(ds))
    BY <1>3, <2>3, StraightFacts
  <2> QED
    BY <2>2, <2>3, <2>4, StraightReaches DEF Reaches
<1> QED
  BY <1>1, <1>2, <1>3

(***************************************************************************)
(* Rails: links, and ends that are free.                                   *)
(***************************************************************************)
AreRails(rs) == rs \in [RailCells -> RailOrNone]

LEMMA BothWays ==
  ASSUME R!TypeOK, NEW rs, NEW c \in RailCells, NEW d \in R!Directions, R!Step(c, d) \in RailCells
  PROVE  /\ rs[c] # R!NoRail /\ R!RailAt(rs, c, d) => R!RailAt(rs, R!Step(c, d), R!Back(d))
         /\ R!Linked(rs, c, d) <=> R!Linked(rs, R!Step(c, d), R!Back(d))
<1> DEFINE n == R!Step(c, d)
<1>1. R!Step(n, R!Back(d)) = c /\ R!Back(R!Back(d)) = d
  BY CellsArePairs, StepFacts, BackFacts
<1>2. ground[c] \in Int /\ ground[n] \in Int
  BY RailAssumption DEF R!TypeOK, R!ConstantsOK
<1>3. ground[c] - ground[n] \in {0, 1, -1} <=> ground[n] - ground[c] \in {0, 1, -1}
  BY <1>2
<1>4. R!Linked(rs, c, d) <=> /\ rs[c] # R!NoRail /\ R!PointsTo(rs, c, d)
                             /\ rs[n] # R!NoRail /\ ground[n] - ground[c] \in {0, 1, -1}
                             /\ R!PointsTo(rs, n, R!Back(d))
  BY DEF R!Linked, R!RailAt
<1>5. R!Linked(rs, n, R!Back(d)) <=> /\ rs[n] # R!NoRail /\ R!PointsTo(rs, n, R!Back(d))
                                     /\ rs[c] # R!NoRail /\ ground[c] - ground[n] \in {0, 1, -1}
                                     /\ R!PointsTo(rs, c, d)
  BY <1>1 DEF R!Linked, R!RailAt
<1>6. rs[c] # R!NoRail /\ R!RailAt(rs, c, d) => R!RailAt(rs, n, R!Back(d))
  BY <1>1, <1>3 DEF R!RailAt
<1> QED
  BY <1>3, <1>4, <1>5, <1>6

\* railConnectedCount() is less than two.
HasFreeEnd(rs, c) ==
  \A d, e \in R!Directions : R!Linked(rs, c, d) /\ R!Linked(rs, c, e) => d = e

\* Rails counts as every module does.
LEMMA RailCount == \A S : R!Cardinality(S) = Cardinality(S)
  BY DEF R!Cardinality, Cardinality

LEMMA AtMostTwo ==
  ASSUME NEW S, NEW a, NEW b, S \subseteq {a, b}
  PROVE  /\ Cardinality(S) \in Nat /\ Cardinality(S) <= 2
         /\ Cardinality(S) < 2 <=> \A x, y \in S : x = y
<1>1. IsFiniteSet({a}) /\ Cardinality({a}) = 1
  BY FS_Singleton
<1>2. IsFiniteSet({a, b}) /\ Cardinality({a, b}) = IF b \in {a} THEN 1 ELSE 2
  <2>1. {a, b} = {a} \cup {b}
    OBVIOUS
  <2> QED
    BY <1>1, <2>1, FS_AddElement
<1>3. /\ IsFiniteSet(S) /\ Cardinality(S) <= Cardinality({a, b})
      /\ Cardinality(S) = Cardinality({a, b}) => S = {a, b}
  BY <1>2, FS_Subset
<1>4. Cardinality(S) \in Nat
  BY <1>3, FS_CardinalityType
<1>5. (\A x, y \in S : x = y) => Cardinality(S) < 2
  <2> SUFFICES ASSUME \A x, y \in S : x = y PROVE Cardinality(S) < 2
    OBVIOUS
  <2>1. CASE S = {}
    BY <2>1, FS_EmptySet
  <2>2. CASE S # {}
    <3>1. PICK x \in S : S = {x}
      BY <2>2
    <3>2. \A y : Cardinality({y}) = 1
      BY FS_Singleton
    <3>3. Cardinality(S) = 1
      BY <3>1, <3>2
    <3> QED
      BY <3>3
  <2> QED
    BY <2>1, <2>2
<1>6. Cardinality(S) < 2 => \A x, y \in S : x = y
  <2> SUFFICES ASSUME Cardinality(S) < 2, NEW x \in S, NEW y \in S, x # y PROVE FALSE
    OBVIOUS
  <2>1. S = {a, b} /\ b \notin {a}
    OBVIOUS
  <2>2. Cardinality(S) = 2
    BY <1>2, <2>1
  <2> QED
    BY <2>2
<1> QED
  BY <1>2, <1>3, <1>4, <1>5, <1>6

LEMMA OpenFacts ==
  ASSUME NEW rs, AreRails(rs), NEW c \in RailCells
  PROVE  /\ R!Connected(rs, c) < 2 <=> HasFreeEnd(rs, c)
         /\ ~HasFreeEnd(rs, c) => R!Connected(rs, c) = 2
         /\ ~HasFreeEnd(rs, c) => \A d \in R!Directions : R!PointsTo(rs, c, d) => R!Linked(rs, c, d)
<1> DEFINE L == {d \in R!Directions : R!Linked(rs, c, d)}
<1>1. CASE rs[c] = R!NoRail
  <2>1. L = {}
    BY <1>1 DEF R!Linked
  <2>2. R!Connected(rs, c) = 0
    BY <2>1, FS_EmptySet, RailCount DEF R!Connected
  <2>3. HasFreeEnd(rs, c)
    BY <2>1 DEF HasFreeEnd
  <2> QED
    BY <2>2, <2>3
<1>2. CASE rs[c] # R!NoRail
  <2>1. rs[c] \in R!RailBlocks
    BY <1>2 DEF AreRails, RailOrNone
  <2>2. PICK a, b \in R!Directions : R!Ends(rs[c]) = {a, b}
    BY <2>1, EndsAreTwo
  <2>3. L \subseteq {a, b}
    BY <2>2 DEF R!Linked, R!PointsTo
  <2>4. HasFreeEnd(rs, c) <=> \A x, y \in L : x = y
    BY DEF HasFreeEnd
  <2>5. R!Connected(rs, c) = Cardinality(L)
    BY RailCount DEF R!Connected
  <2>6. \A d \in R!Directions : d \in L <=> R!Linked(rs, c, d)
    OBVIOUS
  <2>7. L \subseteq R!Directions
    OBVIOUS
  <2> HIDE DEF L
  <2>8. /\ Cardinality(L) \in Nat /\ Cardinality(L) <= 2
        /\ Cardinality(L) < 2 <=> \A x, y \in L : x = y
    BY <2>3, AtMostTwo
  <2>9. Cardinality(L) < 2 \/ Cardinality(L) = 2
    BY <2>8
  <2>10. ~HasFreeEnd(rs, c) => \A d \in R!Directions : R!PointsTo(rs, c, d) => d \in L
    BY <2>2, <2>3, <2>4 DEF R!PointsTo
  <2> QED
    BY <2>4, <2>5, <2>6, <2>8, <2>9, <2>10
<1> QED
  BY <1>1, <1>2

(***************************************************************************)
(* Rails: the turn of one rail.                                            *)
(***************************************************************************)
RailTurned(rs, c) == [rs EXCEPT ![c] = [rs[c] EXCEPT !.meta = R!Meta(rs, c)]]

\* rs with the rail at c as recomputeRailMeta() makes it is w.
IsTurned(rs, c, w) ==
  /\ AreRails(w)
  /\ \A n \in RailCells : n # c => w[n] = rs[n]
  /\ w[c] # R!NoRail /\ w[c].kind = rs[c].kind /\ w[c].meta = R!Meta(rs, c)

LEMMA TurnedFacts ==
  ASSUME NEW rs, AreRails(rs), NEW c \in RailCells, rs[c] # R!NoRail
  PROVE  IsTurned(rs, c, RailTurned(rs, c))
<1> DEFINE r == [rs[c] EXCEPT !.meta = R!Meta(rs, c)]
<1>1. rs[c] \in R!RailBlocks
  BY DEF AreRails, RailOrNone
<1>2. /\ R!Meta(rs, c) \in 0 .. 9
      /\ rs[c].kind # "normal" => R!Meta(rs, c) \in 0 .. 5
  BY MetaFacts
<1>3. r \in R!RailBlocks
  <2> HIDE DEF R!Meta
  <2> QED
    BY <1>1, <1>2, TurnedIsRail
<1>4. r # R!NoRail
  BY <1>3 DEF R!RailBlocks, R!NoRail
<1>5. r.kind = rs[c].kind /\ r.meta = R!Meta(rs, c)
  BY <1>1 DEF R!RailBlocks
<1>6. RailTurned(rs, c) = [rs EXCEPT ![c] = r]
  BY DEF RailTurned
<1> HIDE DEF r
<1>7. /\ RailTurned(rs, c) \in [RailCells -> RailOrNone]
      /\ RailTurned(rs, c)[c] = r
      /\ \A n \in RailCells : n # c => RailTurned(rs, c)[n] = rs[n]
  BY <1>3, <1>6 DEF AreRails, RailOrNone
<1> QED
  BY <1>4, <1>5, <1>7 DEF IsTurned, AreRails

LEMMA RecomputeTurns ==
  ASSUME NEW u, NEW c, u.rail[c] # R!NoRail
  PROVE  R!Recompute(u, c).rail = RailTurned(u.rail, c)
<1> DEFINE r == [u.rail[c] EXCEPT !.meta = R!Meta(u.rail, c)]
           told1 == [n \in DOMAIN u.told \cup {c} |-> IF n = c THEN r ELSE u.told[n]]
<1>1. R!Recompute(u, c) = [rail |-> RailTurned(u.rail, c), told |-> told1]
  BY DEF R!Recompute, RailTurned
<1> HIDE DEF told1
<1> QED
  BY <1>1

Candidates(rs, c) ==
  {d \in R!Directions : /\ R!RailAt(rs, c, d)
                        /\ \/ R!Connected(rs, R!Step(c, d)) < 2
                           \/ R!PointsTo(rs, R!Step(c, d), R!Back(d))}

LEMMA PartnersAreCandidates ==
  \A rs, c : R!Partners(rs, c) = R!FirstTwo(Candidates(rs, c))
  BY DEF R!Partners, Candidates

(***************************************************************************)
(* Rails: what is left where one is broken.                                *)
(***************************************************************************)
LEMMA NoThreeOfTwo ==
  ASSUME NEW S, S \subseteq R!Directions, Cardinality(S) <= 2, NEW a \in S, NEW b \in S, NEW d \in S
  PROVE  a = b \/ a = d \/ b = d
<1> SUFFICES ASSUME a # b, a # d, b # d PROVE FALSE
  OBVIOUS
<1>1. IsFiniteSet({a}) /\ Cardinality({a}) = 1
  BY FS_Singleton
<1>2. IsFiniteSet({a} \cup {b}) /\ Cardinality({a} \cup {b}) = 2
  <2>1. b \notin {a}
    OBVIOUS
  <2>2. /\ IsFiniteSet({a} \cup {b})
        /\ Cardinality({a} \cup {b}) = IF b \in {a} THEN Cardinality({a}) ELSE Cardinality({a}) + 1
    BY <1>1, FS_AddElement
  <2> QED
    BY <1>1, <2>1, <2>2
<1>3. IsFiniteSet(({a} \cup {b}) \cup {d}) /\ Cardinality(({a} \cup {b}) \cup {d}) = 3
  BY <1>2, FS_AddElement
<1>4. IsFiniteSet(S)
  <2>1. IsFiniteSet({R!East}) /\ IsFiniteSet({R!East} \cup {R!South})
    BY FS_Singleton, FS_AddElement
  <2>2. IsFiniteSet(({R!East} \cup {R!South}) \cup {R!West})
    BY <2>1, FS_AddElement
  <2>3. IsFiniteSet((({R!East} \cup {R!South}) \cup {R!West}) \cup {R!North})
    BY <2>2, FS_AddElement
  <2>4. R!Directions = (({R!East} \cup {R!South}) \cup {R!West}) \cup {R!North}
    BY DirectionFacts
  <2> QED
    BY <2>3, <2>4, FS_Subset
<1>5. ({a} \cup {b}) \cup {d} \in SUBSET S
  OBVIOUS
<1>6. Cardinality(({a} \cup {b}) \cup {d}) <= Cardinality(S)
  BY <1>4, <1>5, FS_Subset
<1>7. Cardinality(S) \in Nat
  BY <1>4, FS_CardinalityType
<1> QED
  BY <1>3, <1>6, <1>7

\* Of the rails rs, the one at c has been taken away, and some of its neighbours
\* have turned: v.
Parted(rs, c, v) ==
  /\ AreRails(v) /\ v[c] = R!NoRail
  /\ \A n \in RailCells \ {c} : v[n] = R!NoRail <=> rs[n] = R!NoRail
  /\ \A n \in RailCells \ {c} : (\A d \in R!Directions : n # R!Step(c, d)) => v[n] = rs[n]
  /\ \A n \in RailCells \ {c} : \A e \in R!Directions :
       R!Step(n, e) # c /\ R!Linked(rs, n, e) => R!Linked(v, n, e)

\* A neighbour that has one other rail beside it goes on meeting that one.
LEMMA PartedTurn ==
  ASSUME R!TypeOK, NEW rs, AreRails(rs), NEW c \in RailCells, rs[c] # R!NoRail,
         \A n \in RailCells : Cardinality(R!Near(rs, n)) <= 2,
         NEW v, Parted(rs, c, v), NEW d \in R!Directions, R!RailAt(rs, c, d),
         NEW w, IsTurned(v, R!Step(c, d), w)
  PROVE  Parted(rs, c, w)
<1> DEFINE n == R!Step(c, d)
<1>1. n \in RailCells \ {c} /\ rs[n] # R!NoRail /\ v[n] # R!NoRail
  BY CellsArePairs, StepFacts DEF R!RailAt, Parted
<1>2. R!Step(n, R!Back(d)) = c /\ R!Back(d) \in R!Directions
  BY CellsArePairs, StepFacts, BackFacts
<1>3. R!Back(d) \in R!Near(rs, n)
  BY <1>1, <1>2, BothWays DEF R!Near
<1>4. /\ AreRails(w) /\ w[n] # R!NoRail /\ w[n].meta = R!Meta(v, n)
      /\ \A m \in RailCells : m # n => w[m] = v[m]
  BY DEF IsTurned
<1>5. ASSUME NEW e \in R!Directions, R!Step(n, e) # c, R!Linked(rs, n, e)
      PROVE  R!Linked(w, n, e)
  <2> DEFINE m == R!Step(n, e)
  <2>1. m \in RailCells \ {c} /\ m # n /\ rs[m] # R!NoRail
    BY <1>1, <1>5, CellsArePairs, StepFacts DEF R!Linked, R!RailAt
  <2>2. R!Linked(v, n, e)
    BY <1>1, <1>5 DEF Parted
  <2>3. e \in Candidates(v, n)
    BY <2>2 DEF R!Linked, Candidates
  <2>4. Candidates(v, n) \subseteq {e}
    <3> SUFFICES ASSUME NEW f \in Candidates(v, n) PROVE f = e
      OBVIOUS
    <3>1. f \in R!Directions /\ R!RailAt(v, n, f)
      BY DEF Candidates
    <3>2. R!Step(n, f) \in RailCells \ {c} /\ rs[R!Step(n, f)] # R!NoRail
      BY <3>1 DEF R!RailAt, Parted
    <3>3. f \in R!Near(rs, n)
      BY <3>1, <3>2 DEF R!RailAt, R!Near
    <3>4. e \in R!Near(rs, n)
      BY <1>5 DEF R!Near, R!Linked
    <3>5. f # R!Back(d) /\ e # R!Back(d)
      BY <1>2, <1>5, <3>2
    <3>6. R!Near(rs, n) \subseteq R!Directions /\ Cardinality(R!Near(rs, n)) <= 2
      BY <1>1 DEF R!Near
    <3> QED
      BY <1>3, <3>3, <3>4, <3>5, <3>6, NoThreeOfTwo
  <2>5. Candidates(v, n) = {e}
    BY <2>3, <2>4
  <2>6. R!Partners(v, n) = {e}
    BY <2>5, PartnersAreCandidates, FirstTwoOfFew
  <2>7. w[n].meta = R!Shape(n, {e}, v[n].kind = "normal")
    BY <1>4, <2>6 DEF R!Meta
  <2>8. e \in R!Ends(w[n])
    BY <2>7, ShapeOfOne
  <2>9. w[m] = v[m]
    BY <1>4, <2>1
  <2> QED
    BY <1>4, <2>2, <2>8, <2>9 DEF R!Linked, R!RailAt, R!PointsTo
<1>6. ASSUME NEW m \in RailCells \ {c}, NEW e \in R!Directions, R!Step(m, e) # c, R!Linked(rs, m, e)
      PROVE  R!Linked(w, m, e)
  <2>1. CASE m = n
    BY <1>5, <1>6, <2>1
  <2>2. CASE R!Step(m, e) = n
    <3>1. R!Back(e) \in R!Directions /\ R!Step(n, R!Back(e)) = m
      BY <2>2, CellsArePairs, StepFacts, BackFacts
    <3>2. R!Linked(rs, n, R!Back(e))
      BY <1>1, <1>6, <2>2, BothWays
    <3>3. R!Linked(w, n, R!Back(e))
      BY <1>5, <3>1, <3>2
    <3> QED
      BY <1>1, <2>2, <3>3, BothWays
  <2>3. CASE m # n /\ R!Step(m, e) # n
    <3>1. R!Linked(v, m, e)
      BY <1>6 DEF Parted
    <3>2. R!Step(m, e) \in RailCells
      BY <3>1 DEF R!Linked, R!RailAt
    <3>3. w[m] = v[m] /\ w[R!Step(m, e)] = v[R!Step(m, e)]
      BY <1>4, <2>3, <3>2
    <3> QED
      BY <3>1, <3>3 DEF R!Linked, R!RailAt, R!PointsTo
  <2> QED
    BY <2>1, <2>2, <2>3
<1>7. w[c] = R!NoRail
  BY <1>1, <1>4 DEF Parted
<1>8. \A m \in RailCells \ {c} : w[m] = R!NoRail <=> rs[m] = R!NoRail
  BY <1>1, <1>4 DEF Parted
<1>9. \A m \in RailCells \ {c} : (\A e \in R!Directions : m # R!Step(c, e)) => w[m] = rs[m]
  BY <1>4 DEF Parted
<1> QED
  BY <1>4, <1>6, <1>7, <1>8, <1>9 DEF Parted

LEMMA GoneParted ==
  ASSUME NEW rs, AreRails(rs), NEW c \in RailCells, NEW v, v = [rs EXCEPT ![c] = R!NoRail]
  PROVE  Parted(rs, c, v)
<1>1. AreRails(v) /\ v[c] = R!NoRail /\ \A n \in RailCells : n # c => v[n] = rs[n]
  BY DEF AreRails, RailOrNone
<1>2. ASSUME NEW n \in RailCells \ {c}, NEW e \in R!Directions, R!Step(n, e) # c, R!Linked(rs, n, e)
      PROVE  R!Linked(v, n, e)
  <2>1. R!Step(n, e) \in RailCells
    BY <1>2 DEF R!Linked, R!RailAt
  <2>2. v[n] = rs[n] /\ v[R!Step(n, e)] = rs[R!Step(n, e)]
    BY <1>1, <1>2, <2>1
  <2> QED
    BY <1>2, <2>2 DEF R!Linked, R!RailAt, R!PointsTo
<1> QED
  BY <1>1, <1>2 DEF Parted

LEMMA LeftParted ==
  ASSUME R!TypeOK, NEW c \in RailCells, rail[c] # R!NoRail,
         \A n \in RailCells : Cardinality(R!Near(rail, n)) <= 2
  PROVE  Parted(rail, c, R!Left(c).rail)
<1> DEFINE gone == [rail EXCEPT ![c] = R!NoRail]
           near == {d \in R!Directions : R!RailAt(gone, c, d)}
           turn(v, d) == IF d \in near THEN R!Recompute(v, R!Step(c, d)) ELSE v
           v0 == R!Untold(gone)
           v1 == turn(v0, R!East)
           v2 == turn(v1, R!South)
           v3 == turn(v2, R!West)
           v4 == turn(v3, R!North)
<1>1. AreRails(rail)
  BY DEF R!TypeOK, AreRails, RailOrNone
<1>2. R!Left(c) = v4
  BY DEF R!Left, R!Around
<1>3. Parted(rail, c, v0.rail)
  BY <1>1, GoneParted DEF R!Untold
<1>4. ASSUME NEW d \in near PROVE d \in R!Directions /\ R!RailAt(rail, c, d)
  <2>1. R!Step(c, d) # c
    BY CellsArePairs, StepFacts
  <2> QED
    BY <2>1 DEF R!RailAt, R!TypeOK
<1> HIDE DEF gone, near
<1>5. ASSUME NEW v, Parted(rail, c, v.rail), NEW d PROVE Parted(rail, c, turn(v, d).rail)
  <2>1. CASE d \notin near
    BY <1>5, <2>1
  <2>2. CASE d \in near
    <3>1. d \in R!Directions /\ R!RailAt(rail, c, d) /\ R!Step(c, d) \in RailCells \ {c}
      BY <1>4, <2>2, CellsArePairs, StepFacts DEF R!RailAt
    <3>2. AreRails(v.rail) /\ v.rail[R!Step(c, d)] # R!NoRail
      BY <1>5, <3>1 DEF Parted, R!RailAt
    <3>3. turn(v, d).rail = RailTurned(v.rail, R!Step(c, d))
      BY <2>2, <3>2, RecomputeTurns
    <3>4. IsTurned(v.rail, R!Step(c, d), turn(v, d).rail)
      BY <3>1, <3>2, <3>3, TurnedFacts
    <3> HIDE DEF turn
    <3> QED
      BY <1>1, <1>5, <3>1, <3>4, PartedTurn
  <2> QED
    BY <2>1, <2>2
<1> HIDE DEF turn, v0
<1>6. Parted(rail, c, v1.rail)
  BY <1>3, <1>5
<1> HIDE DEF v1
<1>7. Parted(rail, c, v2.rail)
  BY <1>5, <1>6
<1> HIDE DEF v2
<1>8. Parted(rail, c, v3.rail)
  BY <1>5, <1>7
<1> HIDE DEF v3
<1>9. Parted(rail, c, v4.rail)
  BY <1>5, <1>8
<1> QED
  BY <1>2, <1>9

LEMMA BreakKeeps ==
  ASSUME R!TypeOK, NEW c \in RailCells, R!Break(c)
  PROVE  R!Breaking(c)
<1> SUFFICES ASSUME \A n \in RailCells : Cardinality(R!Near(rail, n)) <= 2,
                    NEW l \in R!Links(rail), l[1] # c, R!Step(l[1], l[2]) # c
             PROVE  l \in R!Links(rail')
  BY RailCount DEF R!Breaking
<1>1. Parted(rail, c, rail')
  BY LeftParted DEF R!Break
<1>2. l \in RailCells \X R!Directions /\ R!Linked(rail, l[1], l[2])
  BY DEF R!Links
<1>3. R!Linked(rail', l[1], l[2])
  BY <1>1, <1>2 DEF Parted
<1> QED
  BY <1>2, <1>3 DEF R!Links

(***************************************************************************)
(* Rails: what comes of one that is laid.                                  *)
(***************************************************************************)
\* Rails that lie beside each other and have both an end free meet.
Snug(rs) ==
  \A n \in RailCells : \A d \in R!Directions :
    rs[n] # R!NoRail /\ R!RailAt(rs, n, d) /\ HasFreeEnd(rs, n) /\ HasFreeEnd(rs, R!Step(n, d))
      => R!Linked(rs, n, d)

\* A normal rail can be laid at c.
CanLay(rs, c) ==
  /\ AreRails(rs) /\ c \in RailCells /\ rs[c] = R!NoRail
  /\ \A n, m \in RailCells : ground[n] = ground[m]
  /\ \A n \in RailCells : rs[n].kind # "special"
  /\ Snug(rs)

\* It has been laid and some of its neighbours have turned: v.  Those without an
\* end free did not, and the links the others have are what they were.
Tended(rs, c, v) ==
  /\ AreRails(v) /\ v[c] # R!NoRail /\ v[c].kind = "normal"
  /\ \A n \in RailCells \ {c} : v[n] = R!NoRail <=> rs[n] = R!NoRail
  /\ \A n \in RailCells \ {c} : v[n] # R!NoRail => v[n].kind = "normal"
  /\ \A n \in RailCells \ {c} :
       (\A d \in R!Directions : n # R!Step(c, d)) \/ ~HasFreeEnd(rs, n) => v[n] = rs[n]
  /\ \A n \in RailCells \ {c} : \A e \in R!Directions :
       R!Step(n, e) # c => (R!Linked(v, n, e) <=> R!Linked(rs, n, e))

\* The neighbours of c that have an end free.
FreeAround(rs, c) == {d \in R!Directions : R!RailAt(rs, c, d) /\ HasFreeEnd(rs, R!Step(c, d))}

\* The neighbour in direction d points to c.
Facing(v, c, d) == R!PointsTo(v, R!Step(c, d), R!Back(d))

LEMMA TendedOpen ==
  ASSUME R!TypeOK, NEW rs, NEW c, CanLay(rs, c), NEW v, Tended(rs, c, v), NEW n \in RailCells \ {c}
  PROVE  /\ HasFreeEnd(v, n) => HasFreeEnd(rs, n)
         /\ (\A d \in R!Directions : n # R!Step(c, d)) => (HasFreeEnd(rs, n) => HasFreeEnd(v, n))
<1>1. ASSUME NEW e \in R!Directions, R!Linked(rs, n, e) PROVE R!Linked(v, n, e)
  <2>1. R!Step(n, e) # c
    BY <1>1 DEF R!Linked, R!RailAt, CanLay
  <2> QED
    BY <1>1, <2>1 DEF Tended
<1>2. ASSUME \A d \in R!Directions : n # R!Step(c, d), NEW e \in R!Directions, R!Linked(v, n, e)
      PROVE  R!Linked(rs, n, e)
  <2>1. R!Step(n, e) # c
    BY <1>2, CellsArePairs, StepFacts, BackFacts
  <2> QED
    BY <1>2, <2>1 DEF Tended
<1> QED
  BY <1>1, <1>2 DEF HasFreeEnd

LEMMA LevelGround ==
  ASSUME R!TypeOK, NEW rs, NEW c, CanLay(rs, c), NEW n \in RailCells, NEW d, R!Step(n, d) \in RailCells
  PROVE  R!Rise(n, d) = 0 /\ ground[R!Step(n, d)] - ground[n] = 0
<1>1. ground[n] \in Int /\ ground[R!Step(n, d)] = ground[n]
  BY RailAssumption DEF R!TypeOK, R!ConstantsOK, CanLay
<1> QED
  BY <1>1 DEF R!Rise

\* A neighbour of c with an end free goes by the rail it has a link to, if any,
\* and by the one at c.
LEMMA NeighbourCandidates ==
  ASSUME R!TypeOK, NEW rs, NEW c, CanLay(rs, c), NEW v, Tended(rs, c, v), NEW d \in FreeAround(rs, c)
  PROVE  /\ \A e \in R!Directions \ {R!Back(d)} :
              e \in Candidates(v, R!Step(c, d)) <=> R!Linked(rs, R!Step(c, d), e)
         /\ R!PointsTo(v, c, d) => R!Back(d) \in Candidates(v, R!Step(c, d))
         /\ \E a \in R!Directions : Candidates(v, R!Step(c, d)) \subseteq {a, R!Back(d)}
<1> DEFINE n == R!Step(c, d)
<1>1. c \in RailCells /\ d \in R!Directions /\ n \in RailCells \ {c} /\ rs[n] # R!NoRail /\ HasFreeEnd(rs, n)
  BY CellsArePairs, StepFacts DEF CanLay, FreeAround, R!RailAt
<1>2. R!Step(n, R!Back(d)) = c /\ R!Back(d) \in R!Directions /\ R!Back(R!Back(d)) = d
  BY <1>1, CellsArePairs, StepFacts, BackFacts
<1>3. ASSUME NEW e \in R!Directions \ {R!Back(d)}
      PROVE  e \in Candidates(v, n) <=> R!Linked(rs, n, e)
  <2> DEFINE m == R!Step(n, e)
  <2>1. CASE m \notin RailCells
    BY <2>1 DEF Candidates, R!Linked, R!RailAt
  <2>2. CASE m \in RailCells
    <3>1. m # c
      BY <1>1, <1>3, CellsArePairs, StepFacts
    <3>2. \A f \in R!Directions : m # R!Step(c, f)
      BY <1>1, CellsArePairs, Chequered
    <3>3. v[m] = rs[m]
      BY <2>2, <3>1, <3>2 DEF Tended
    <3>4. HasFreeEnd(v, m) <=> HasFreeEnd(rs, m)
      BY <2>2, <3>1, <3>2, TendedOpen
    <3>5. R!RailAt(v, n, e) <=> R!RailAt(rs, n, e)
      BY <3>3 DEF R!RailAt
    <3>6. R!Connected(v, m) < 2 <=> HasFreeEnd(rs, m)
      BY <2>2, <3>4, OpenFacts DEF Tended
    <3>7. e \in Candidates(v, n) <=> /\ R!RailAt(rs, n, e)
                                     /\ HasFreeEnd(rs, m) \/ R!PointsTo(rs, m, R!Back(e))
      BY <3>3, <3>5, <3>6 DEF Candidates, R!PointsTo
    <3>8. R!Linked(rs, n, e) => e \in Candidates(v, n)
      BY <3>7 DEF R!Linked
    <3>9. R!RailAt(rs, n, e) /\ HasFreeEnd(rs, m) => R!Linked(rs, n, e)
      BY <1>1 DEF CanLay, Snug
    <3>10. ~HasFreeEnd(rs, m) /\ R!PointsTo(rs, m, R!Back(e)) => R!Linked(rs, n, e)
      <4>1. AreRails(rs) /\ R!Back(e) \in R!Directions
        BY BackFacts DEF CanLay
      <4>2. ~HasFreeEnd(rs, m) /\ R!PointsTo(rs, m, R!Back(e)) => R!Linked(rs, m, R!Back(e))
        BY <2>2, <4>1, OpenFacts
      <4> QED
        BY <1>1, <2>2, <4>2, BothWays
    <3> QED
      BY <3>7, <3>8, <3>9, <3>10
  <2> QED
    BY <2>1, <2>2
<1>4. R!PointsTo(v, c, d) => R!Back(d) \in Candidates(v, n)
  <2>1. R!RailAt(v, n, R!Back(d))
    <3>1. v[c] # R!NoRail
      BY DEF Tended
    <3>2. ground[c] - ground[n] = 0
      BY <1>1, <1>2, LevelGround
    <3> QED
      BY <1>1, <1>2, <3>1, <3>2 DEF R!RailAt
  <2> QED
    BY <1>2, <2>1 DEF Candidates
<1>5. \E a \in R!Directions : Candidates(v, n) \subseteq {a, R!Back(d)}
  <2>1. CASE \E a \in R!Directions : R!Linked(rs, n, a)
    <3>1. PICK a \in R!Directions : R!Linked(rs, n, a)
      BY <2>1
    <3>2. \A e \in R!Directions : R!Linked(rs, n, e) => e = a
      BY <1>1, <3>1 DEF HasFreeEnd
    <3>3. Candidates(v, n) \subseteq R!Directions
      BY DEF Candidates
    <3> QED
      BY <1>3, <3>2, <3>3
  <2>2. CASE ~\E a \in R!Directions : R!Linked(rs, n, a)
    <3>1. Candidates(v, n) \subseteq R!Directions
      BY DEF Candidates
    <3> QED
      BY <1>2, <1>3, <2>2, <3>1
  <2> QED
    BY <2>1, <2>2
<1> QED
  BY <1>3, <1>4, <1>5

LEMMA TurnReaches ==
  ASSUME R!TypeOK, NEW rs, NEW c, CanLay(rs, c), NEW v, NEW n \in RailCells, v[n].kind = "normal",
         NEW a \in R!Directions, NEW b \in R!Directions, R!Partners(v, n) \subseteq {a, b},
         NEW w, IsTurned(v, n, w)
  PROVE  Reaches(w[n], R!Partners(v, n))
<1>1. w[n].meta = R!Shape(n, R!Partners(v, n), v[n].kind = "normal")
  BY DEF IsTurned, R!Meta
<1>2. R!Partners(v, n) \subseteq {d \in R!Directions : R!RailAt(v, n, d)}
  BY PartnersFacts
<1>3. \A d \in R!Partners(v, n) : R!Rise(n, d) = 0
  BY <1>2, LevelGround DEF R!RailAt
<1>4. R!Partners(v, n) \subseteq R!Directions
  BY <1>2
<1> QED
  BY <1>1, <1>3, <1>4, ShapeOfTwo

\* It keeps the link it has, and meets c if c has an end that way.
LEMMA TendedTurn ==
  ASSUME R!TypeOK, NEW rs, NEW c, CanLay(rs, c), NEW v, Tended(rs, c, v), NEW d \in FreeAround(rs, c),
         NEW w, IsTurned(v, R!Step(c, d), w)
  PROVE  /\ Tended(rs, c, w) /\ w[c] = v[c]
         /\ R!PointsTo(v, c, d) => Facing(w, c, d)
<1> DEFINE n == R!Step(c, d)
<1>1. c \in RailCells /\ d \in R!Directions /\ n \in RailCells \ {c} /\ rs[n] # R!NoRail /\ HasFreeEnd(rs, n)
  BY CellsArePairs, StepFacts DEF CanLay, FreeAround, R!RailAt
<1>2. R!Step(n, R!Back(d)) = c /\ R!Back(d) \in R!Directions
  BY <1>1, CellsArePairs, StepFacts, BackFacts
<1>3. v[n] # R!NoRail /\ v[n].kind = "normal"
  BY <1>1 DEF Tended
<1>4. /\ AreRails(w) /\ w[n] # R!NoRail /\ w[n].kind = v[n].kind
      /\ \A m \in RailCells : m # n => w[m] = v[m]
  BY DEF IsTurned
<1>5. Reaches(w[n], Candidates(v, n))
  <2>1. PICK a \in R!Directions : Candidates(v, n) \subseteq {a, R!Back(d)}
    BY NeighbourCandidates
  <2>2. R!Partners(v, n) = Candidates(v, n)
    <3>1. Candidates(v, n) \subseteq R!Directions
      BY DEF Candidates
    <3> QED
      BY <2>1, <3>1, PartnersAreCandidates, FirstTwoOfFew
  <2> QED
    BY <1>1, <1>2, <1>3, <2>1, <2>2, TurnReaches
<1>6. ASSUME NEW e \in R!Directions, R!Step(n, e) # c
      PROVE  R!Linked(w, n, e) <=> R!Linked(rs, n, e)
  <2> DEFINE m == R!Step(n, e)
  <2>1. e # R!Back(d)
    BY <1>2, <1>6
  <2>2. CASE m \notin RailCells
    BY <2>2 DEF R!Linked, R!RailAt
  <2>3. CASE m \in RailCells
    <3>1. m # n /\ \A f \in R!Directions : m # R!Step(c, f)
      BY <1>1, CellsArePairs, StepFacts, Chequered
    <3>2. w[m] = v[m] /\ v[m] = rs[m]
      BY <1>4, <1>6, <2>3, <3>1 DEF Tended
    <3>3. R!Linked(rs, n, e) => R!Linked(w, n, e)
      <4>1. R!Linked(rs, n, e) => e \in R!Ends(w[n])
        BY <1>5, <2>1, NeighbourCandidates DEF Reaches
      <4> QED
        BY <1>4, <3>2, <4>1 DEF R!Linked, R!RailAt, R!PointsTo
    <3>4. R!Linked(w, n, e) => R!Linked(rs, n, e)
      <4>1. R!Linked(w, n, e) => e \in Candidates(v, n)
        BY <3>2 DEF R!Linked, R!RailAt, R!PointsTo, Candidates
      <4> QED
        BY <2>1, <4>1, NeighbourCandidates
    <3> QED
      BY <3>3, <3>4
  <2> QED
    BY <2>2, <2>3
<1>7. ASSUME NEW m \in RailCells \ {c}, NEW e \in R!Directions, R!Step(m, e) # c
      PROVE  R!Linked(w, m, e) <=> R!Linked(rs, m, e)
  <2>1. CASE m = n
    BY <1>6, <1>7, <2>1
  <2>2. CASE R!Step(m, e) = n
    <3>1. R!Back(e) \in R!Directions /\ R!Step(n, R!Back(e)) = m
      BY <2>2, CellsArePairs, StepFacts, BackFacts
    <3>2. R!Linked(w, n, R!Back(e)) <=> R!Linked(rs, n, R!Back(e))
      BY <1>6, <3>1
    <3> QED
      BY <1>1, <2>2, <3>2, BothWays
  <2>3. CASE m # n /\ R!Step(m, e) # n
    <3>1. R!Linked(v, m, e) <=> R!Linked(rs, m, e)
      BY <1>7 DEF Tended
    <3>2. R!Step(m, e) \in RailCells => w[m] = v[m] /\ w[R!Step(m, e)] = v[R!Step(m, e)]
      BY <1>4, <2>3
    <3>3. R!Linked(v, m, e) <=> R!Linked(w, m, e)
      BY <3>2 DEF R!Linked, R!RailAt, R!PointsTo
    <3> QED
      BY <3>1, <3>3
  <2> QED
    BY <2>1, <2>2, <2>3
<1>8. w[c] = v[c]
  BY <1>1, <1>4
<1>9. \A m \in RailCells \ {c} : /\ w[m] = R!NoRail <=> rs[m] = R!NoRail
                                 /\ w[m] # R!NoRail => w[m].kind = "normal"
  BY <1>1, <1>3, <1>4 DEF Tended
<1>10. \A m \in RailCells \ {c} :
         (\A f \in R!Directions : m # R!Step(c, f)) \/ ~HasFreeEnd(rs, m) => w[m] = rs[m]
  BY <1>1, <1>4 DEF Tended
<1>11. Tended(rs, c, w)
  BY <1>4, <1>7, <1>8, <1>9, <1>10 DEF Tended
<1>12. R!PointsTo(v, c, d) => Facing(w, c, d)
  BY <1>5, NeighbourCandidates DEF Reaches, Facing, R!PointsTo
<1> QED
  BY <1>8, <1>11, <1>12

\* What the rail at c goes by is the same whenever it is looked at.
LEMMA CentreCandidates ==
  ASSUME R!TypeOK, NEW rs, NEW c, CanLay(rs, c), NEW v, Tended(rs, c, v)
  PROVE  Candidates(v, c) = FreeAround(rs, c)
<1>1. ASSUME NEW d \in R!Directions PROVE d \in Candidates(v, c) <=> d \in FreeAround(rs, c)
  <2> DEFINE n == R!Step(c, d)
  <2>1. CASE n \notin RailCells
    BY <2>1 DEF Candidates, FreeAround, R!RailAt
  <2>2. CASE n \in RailCells
    <3>1. c \in RailCells /\ n \in RailCells \ {c}
      BY <2>2, CellsArePairs, StepFacts DEF CanLay
    <3>2. R!Step(n, R!Back(d)) = c /\ R!Back(d) \in R!Directions
      BY <3>1, CellsArePairs, StepFacts, BackFacts
    <3>3. R!RailAt(v, c, d) <=> R!RailAt(rs, c, d)
      BY <3>1 DEF R!RailAt, Tended
    <3>4. R!Connected(v, n) < 2 <=> HasFreeEnd(v, n)
      BY <2>2, OpenFacts DEF Tended
    <3>5. d \in Candidates(v, c) <=> R!RailAt(rs, c, d) /\ (HasFreeEnd(v, n) \/ R!PointsTo(v, n, R!Back(d)))
      BY <3>3, <3>4 DEF Candidates
    <3>6. HasFreeEnd(v, n) => HasFreeEnd(rs, n)
      BY <3>1, TendedOpen
    <3>7. ~HasFreeEnd(rs, n) => ~R!PointsTo(v, n, R!Back(d))
      <4>1. ~HasFreeEnd(rs, n) => v[n] = rs[n]
        BY <3>1 DEF Tended
      <4>2. ~R!Linked(rs, n, R!Back(d))
        BY <3>2 DEF R!Linked, R!RailAt, CanLay
      <4>3. ~HasFreeEnd(rs, n) => ~R!PointsTo(rs, n, R!Back(d))
        BY <3>1, <3>2, <4>2, OpenFacts DEF CanLay
      <4> QED
        BY <4>1, <4>3 DEF R!PointsTo
    <3>8. HasFreeEnd(rs, n) /\ ~R!PointsTo(v, n, R!Back(d)) => HasFreeEnd(v, n)
      <4> SUFFICES ASSUME HasFreeEnd(rs, n), ~R!PointsTo(v, n, R!Back(d)) PROVE HasFreeEnd(v, n)
        OBVIOUS
      <4>1. ASSUME NEW e \in R!Directions, R!Linked(v, n, e) PROVE R!Linked(rs, n, e)
        <5>1. e # R!Back(d)
          BY <4>1 DEF R!Linked
        <5>2. R!Step(n, e) # c
          BY <3>1, <5>1, CellsArePairs, StepFacts
        <5> QED
          BY <3>1, <4>1, <5>2 DEF Tended
      <4> QED
        BY <4>1 DEF HasFreeEnd
    <3> QED
      BY <3>5, <3>6, <3>7, <3>8 DEF FreeAround
  <2> QED
    BY <2>1, <2>2
<1> QED
  BY <1>1 DEF Candidates, FreeAround

LEMMA TendedCentre ==
  ASSUME R!TypeOK, NEW rs, NEW c, CanLay(rs, c), NEW v, Tended(rs, c, v),
         NEW w, IsTurned(v, c, w)
  PROVE  /\ Tended(rs, c, w)
         /\ Reaches(w[c], R!FirstTwo(FreeAround(rs, c)))
         /\ \A n \in RailCells \ {c} : w[n] = v[n]
<1>1. /\ AreRails(w) /\ w[c] # R!NoRail /\ w[c].kind = v[c].kind
      /\ \A n \in RailCells \ {c} : w[n] = v[n]
  BY DEF IsTurned
<1>2. Reaches(w[c], R!FirstTwo(FreeAround(rs, c)))
  <2>1. FreeAround(rs, c) \subseteq R!Directions
    BY DEF FreeAround
  <2>2. R!Partners(v, c) = R!FirstTwo(FreeAround(rs, c))
    BY PartnersAreCandidates, CentreCandidates
  <2>3. PICK a, b \in R!Directions : R!Partners(v, c) \subseteq {a, b}
    BY <2>1, <2>2, FirstTwoFacts
  <2>4. c \in RailCells /\ v[c].kind = "normal"
    BY DEF CanLay, Tended
  <2> QED
    BY <2>2, <2>3, <2>4, TurnReaches
<1>3. ASSUME NEW n \in RailCells \ {c}, NEW e \in R!Directions, R!Step(n, e) # c
      PROVE  R!Linked(w, n, e) <=> R!Linked(rs, n, e)
  <2>1. R!Linked(v, n, e) <=> R!Linked(rs, n, e)
    BY <1>3 DEF Tended
  <2>2. R!Step(n, e) \in RailCells => w[n] = v[n] /\ w[R!Step(n, e)] = v[R!Step(n, e)]
    BY <1>1, <1>3
  <2>3. R!Linked(v, n, e) <=> R!Linked(w, n, e)
    BY <2>2 DEF R!Linked, R!RailAt, R!PointsTo
  <2> QED
    BY <2>1, <2>3
<1>4. Tended(rs, c, w)
  BY <1>1, <1>3 DEF Tended
<1> QED
  BY <1>1, <1>2, <1>4

LEMMA PutTended ==
  ASSUME NEW rs, NEW c, CanLay(rs, c),
         NEW v, v = [rs EXCEPT ![c] = [kind |-> "normal", meta |-> 0]]
  PROVE  Tended(rs, c, v)
<1> DEFINE r == [kind |-> "normal", meta |-> 0]
<1>1. r \in R!RailBlocks /\ r # R!NoRail /\ r.kind = "normal"
  BY DEF R!RailBlocks, R!NoRail
<1> HIDE DEF r
<1>2. AreRails(v) /\ v[c] = r /\ \A n \in RailCells \ {c} : v[n] = rs[n]
  BY <1>1 DEF AreRails, RailOrNone, CanLay, r
<1>3. \A n \in RailCells \ {c} : v[n] # R!NoRail => v[n].kind = "normal"
  <2> SUFFICES ASSUME NEW n \in RailCells \ {c}, rs[n] # R!NoRail PROVE rs[n].kind = "normal"
    BY <1>2
  <2>1. rs[n] \in R!RailBlocks
    BY DEF CanLay, AreRails, RailOrNone
  <2> QED
    BY <2>1 DEF R!RailBlocks, CanLay
<1>4. ASSUME NEW n \in RailCells \ {c}, NEW e \in R!Directions, R!Step(n, e) # c
      PROVE  R!Linked(v, n, e) <=> R!Linked(rs, n, e)
  <2>1. R!Step(n, e) \in RailCells => v[n] = rs[n] /\ v[R!Step(n, e)] = rs[R!Step(n, e)]
    BY <1>2, <1>4
  <2> QED
    BY <2>1 DEF R!Linked, R!RailAt, R!PointsTo
<1> QED
  BY <1>1, <1>2, <1>3, <1>4 DEF Tended

\* The neighbours in the directions ds turn, one after the other: from v to w.
Met(rs, c, ds, v, w) ==
  /\ Tended(rs, c, w) /\ w[c] = v[c]
  /\ \A d \in ds : R!PointsTo(v, c, d) => Facing(w, c, d)
  /\ \A d \in R!Directions \ ds : R!Step(c, d) \in RailCells => w[R!Step(c, d)] = v[R!Step(c, d)]

LEMMA MetOneMore ==
  ASSUME R!TypeOK, NEW rs, NEW c, CanLay(rs, c), NEW ds, ds \subseteq FreeAround(rs, c),
         NEW v, NEW w, Met(rs, c, ds, v, w),
         NEW d \in FreeAround(rs, c), NEW x, IsTurned(w, R!Step(c, d), x)
  PROVE  Met(rs, c, ds \cup {d}, v, x)
<1>1. Tended(rs, c, x) /\ x[c] = w[c] /\ (R!PointsTo(w, c, d) => Facing(x, c, d))
  BY TendedTurn DEF Met
<1>2. c \in RailCells /\ d \in R!Directions
  BY DEF CanLay, FreeAround
<1>3. \A e \in R!Directions \ {d} : R!Step(c, e) # R!Step(c, d)
  BY <1>2, CellsArePairs, StepFacts
<1>4. \A e \in R!Directions \ {d} : R!Step(c, e) \in RailCells => x[R!Step(c, e)] = w[R!Step(c, e)]
  BY <1>3 DEF IsTurned
<1>5. ASSUME NEW e \in ds \cup {d}, R!PointsTo(v, c, e) PROVE Facing(x, c, e)
  <2>1. CASE e = d
    BY <1>1, <1>5, <2>1 DEF Met, R!PointsTo
  <2>2. CASE e # d
    <3>1. e \in ds /\ e \in R!Directions /\ R!Step(c, e) \in RailCells
      BY <1>5, <2>2 DEF FreeAround, R!RailAt
    <3>2. Facing(w, c, e)
      BY <1>5, <3>1 DEF Met
    <3>3. x[R!Step(c, e)] = w[R!Step(c, e)]
      BY <1>4, <2>2, <3>1
    <3> QED
      BY <3>2, <3>3 DEF Facing, R!PointsTo
  <2> QED
    BY <2>1, <2>2
<1>6. ASSUME NEW e \in R!Directions \ (ds \cup {d}), R!Step(c, e) \in RailCells
      PROVE  x[R!Step(c, e)] = v[R!Step(c, e)]
  BY <1>4, <1>6 DEF Met
<1>7. x[c] = v[c]
  BY <1>1 DEF Met
<1> QED
  BY <1>1, <1>5, <1>6, <1>7 DEF Met

LEMMA AroundMeets ==
  ASSUME R!TypeOK, NEW rs, NEW c, CanLay(rs, c), NEW ds, ds \subseteq FreeAround(rs, c),
         NEW u, Tended(rs, c, u.rail)
  PROVE  Met(rs, c, ds, u.rail, R!Around(u, c, ds).rail)
<1> DEFINE turn(v, d) == IF d \in ds THEN R!Recompute(v, R!Step(c, d)) ELSE v
           v1 == turn(u, R!East)
           v2 == turn(v1, R!South)
           v3 == turn(v2, R!West)
           v4 == turn(v3, R!North)
           d1 == ds \cap {R!East}
           d2 == d1 \cup (ds \cap {R!South})
           d3 == d2 \cup (ds \cap {R!West})
           d4 == d3 \cup (ds \cap {R!North})
<1>1. R!Around(u, c, ds) = v4
  BY DEF R!Around
<1>2. ASSUME NEW D, D \subseteq ds, NEW v, Met(rs, c, D, u.rail, v.rail), NEW d
      PROVE  Met(rs, c, D \cup (ds \cap {d}), u.rail, turn(v, d).rail)
  <2>1. CASE d \notin ds
    <3>1. D \cup (ds \cap {d}) = D /\ turn(v, d) = v
      BY <2>1
    <3> QED
      BY <1>2, <3>1
  <2>2. CASE d \in ds
    <3>1. /\ c \in RailCells /\ d \in FreeAround(rs, c) /\ d \in R!Directions
          /\ R!Step(c, d) \in RailCells \ {c} /\ rs[R!Step(c, d)] # R!NoRail
      BY <2>2, CellsArePairs, StepFacts DEF CanLay, FreeAround, R!RailAt
    <3>2. AreRails(v.rail) /\ v.rail[R!Step(c, d)] # R!NoRail
      BY <1>2, <3>1 DEF Met, Tended
    <3>3. turn(v, d).rail = RailTurned(v.rail, R!Step(c, d))
      BY <2>2, <3>2, RecomputeTurns
    <3>4. IsTurned(v.rail, R!Step(c, d), turn(v, d).rail)
      BY <3>1, <3>2, <3>3, TurnedFacts
    <3>5. D \cup (ds \cap {d}) = D \cup {d} /\ D \subseteq FreeAround(rs, c)
      BY <1>2, <2>2
    <3> HIDE DEF turn
    <3>6. Met(rs, c, D \cup {d}, u.rail, turn(v, d).rail)
      BY <1>2, <3>1, <3>4, <3>5, MetOneMore
    <3> QED
      BY <3>5, <3>6
  <2> QED
    BY <2>1, <2>2
<1>3. Met(rs, c, {}, u.rail, u.rail)
  BY DEF Met
<1>4. {} \cup d1 = d1 /\ d1 \subseteq ds /\ d2 \subseteq ds /\ d3 \subseteq ds
  OBVIOUS
<1>5. d4 = ds
  <2>1. ds \subseteq {R!East, R!South, R!West, R!North}
    BY DirectionFacts DEF FreeAround
  <2> QED
    BY <2>1
<1> HIDE DEF turn
<1>6. Met(rs, c, d1, u.rail, v1.rail)
  <2>1. Met(rs, c, {} \cup (ds \cap {R!East}), u.rail, turn(u, R!East).rail)
    BY <1>2, <1>3
  <2> QED
    BY <1>4, <2>1
<1> HIDE DEF v1, d1
<1>7. Met(rs, c, d2, u.rail, v2.rail)
  BY <1>2, <1>4, <1>6
<1> HIDE DEF v2, d2
<1>8. Met(rs, c, d3, u.rail, v3.rail)
  BY <1>2, <1>4, <1>7
<1> HIDE DEF v3, d3
<1>9. Met(rs, c, d4, u.rail, v4.rail)
  BY <1>2, <1>4, <1>8
<1> HIDE DEF v4, d4
<1> QED
  BY <1>1, <1>5, <1>9

\* The new rail meets the neighbours it goes by, all of them or two, and all
\* links there were are there.
LEMMA LaidMeets ==
  ASSUME R!TypeOK, NEW c \in RailCells, CanLay(rail, c)
  PROVE  /\ Tended(rail, c, R!Laid(c, "normal").rail)
         /\ \A d \in R!FirstTwo(FreeAround(rail, c)) : R!Linked(R!Laid(c, "normal").rail, c, d)
<1> DEFINE put == [rail EXCEPT ![c] = [kind |-> "normal", meta |-> 0]]
           open == {d \in R!Directions : R!RailAt(put, c, d) /\ R!Connected(put, R!Step(c, d)) < 2}
           u0 == R!Untold(put)
           u1 == R!Recompute(u0, c)
           u2 == R!Around(u1, c, open)
           u3 == R!Around(u2, c, open)
           u4 == R!Recompute(u3, c)
           two == R!FirstTwo(FreeAround(rail, c))
<1>1. R!Laid(c, "normal") = u4
  BY DEF R!Laid
<1>2. Tended(rail, c, put)
  BY PutTended
<1>3. u0.rail = put
  BY DEF R!Untold
<1>4. \A d \in R!Directions : R!RailAt(put, c, d) <=> R!RailAt(rail, c, d)
  <2>1. \A d \in R!Directions : R!Step(c, d) # c
    BY CellsArePairs, StepFacts
  <2> QED
    BY <1>2, <2>1 DEF R!RailAt, Tended
<1>5. \A d \in R!Directions : R!RailAt(put, c, d) => R!Step(c, d) \in RailCells \ {c}
  BY CellsArePairs, StepFacts DEF R!RailAt
<1>6. open = {d \in R!Directions : R!RailAt(put, c, d) /\ HasFreeEnd(put, R!Step(c, d))}
  <2>1. \A d \in R!Directions : R!RailAt(put, c, d)
          => (R!Connected(put, R!Step(c, d)) < 2 <=> HasFreeEnd(put, R!Step(c, d)))
    BY <1>2, <1>5, OpenFacts DEF Tended
  <2> QED
    BY <2>1
<1> HIDE DEF put
<1>7. open \subseteq FreeAround(rail, c)
  <2>1. \A d \in open : HasFreeEnd(rail, R!Step(c, d))
    BY <1>2, <1>5, <1>6, TendedOpen
  <2> QED
    BY <1>4, <1>6, <2>1 DEF FreeAround
<1>8. ASSUME NEW d \in FreeAround(rail, c), d \notin open PROVE Facing(put, c, d)
  <2>1. d \in R!Directions /\ R!RailAt(put, c, d) /\ ~HasFreeEnd(put, R!Step(c, d))
    BY <1>4, <1>6, <1>8 DEF FreeAround
  <2>2. d \in Candidates(put, c)
    BY <1>2, <1>8, CentreCandidates
  <2>3. ~(R!Connected(put, R!Step(c, d)) < 2)
    BY <2>1, <1>8
  <2> QED
    BY <2>2, <2>3 DEF Candidates, Facing
<1>9. two \subseteq FreeAround(rail, c) /\ two \subseteq R!Directions
  <2>1. FreeAround(rail, c) \subseteq R!Directions
    BY DEF FreeAround
  <2> QED
    BY <2>1, FirstTwoFacts
<1> HIDE DEF open, u0, two
<1>10. Tended(rail, c, u1.rail) /\ Reaches(u1.rail[c], two) /\ \A n \in RailCells \ {c} : u1.rail[n] = put[n]
  <2>1. AreRails(u0.rail) /\ u0.rail[c] # R!NoRail
    BY <1>2, <1>3 DEF Tended
  <2>2. IsTurned(u0.rail, c, u1.rail)
    BY <2>1, RecomputeTurns, TurnedFacts
  <2> QED
    BY <1>2, <1>3, <2>2, TendedCentre DEF two
<1> HIDE DEF u1
<1>11. Met(rail, c, open, u1.rail, u2.rail)
  BY <1>7, <1>10, AroundMeets
<1> HIDE DEF u2
<1>12. Met(rail, c, open, u2.rail, u3.rail)
  <2>1. Tended(rail, c, u2.rail)
    BY <1>11 DEF Met
  <2> QED
    BY <1>7, <2>1, AroundMeets
<1> HIDE DEF u3
<1>13. Tended(rail, c, u3.rail) /\ u3.rail[c] = u1.rail[c]
  BY <1>11, <1>12 DEF Met
<1>14. /\ Tended(rail, c, u4.rail) /\ Reaches(u4.rail[c], two)
       /\ \A n \in RailCells \ {c} : u4.rail[n] = u3.rail[n]
  <2>1. AreRails(u3.rail) /\ u3.rail[c] # R!NoRail
    BY <1>13 DEF Tended
  <2>2. IsTurned(u3.rail, c, u4.rail)
    BY <2>1, RecomputeTurns, TurnedFacts
  <2> QED
    BY <1>13, <2>2, TendedCentre DEF two
<1> HIDE DEF u4
<1>15. ASSUME NEW d \in two PROVE R!Linked(u4.rail, c, d)
  <2>1. d \in FreeAround(rail, c) /\ d \in R!Directions /\ R!RailAt(rail, c, d) /\ R!Step(c, d) \in RailCells \ {c}
    BY <1>4, <1>5, <1>9 DEF FreeAround
  <2>2. R!PointsTo(u2.rail, c, d)
    BY <1>10, <1>11 DEF Met, Reaches, R!PointsTo
  <2>3. Facing(u3.rail, c, d)
    <3>1. CASE d \in open
      BY <1>12, <2>2, <3>1 DEF Met
    <3>2. CASE d \notin open
      <4>1. Facing(put, c, d)
        BY <1>8, <2>1, <3>2
      <4>2. u3.rail[R!Step(c, d)] = u2.rail[R!Step(c, d)] /\ u2.rail[R!Step(c, d)] = u1.rail[R!Step(c, d)]
        BY <1>11, <1>12, <2>1, <3>2 DEF Met
      <4>3. u3.rail[R!Step(c, d)] = put[R!Step(c, d)]
        BY <1>10, <2>1, <4>2
      <4> QED
        BY <4>1, <4>3 DEF Facing, R!PointsTo
    <3> QED
      BY <3>1, <3>2
  <2>4. R!PointsTo(u4.rail, R!Step(c, d), R!Back(d))
    BY <1>14, <2>1, <2>3 DEF Facing, R!PointsTo
  <2>5. R!PointsTo(u4.rail, c, d) /\ u4.rail[c] # R!NoRail /\ u4.rail[R!Step(c, d)] # R!NoRail
    BY <1>14, <2>1 DEF Reaches, R!PointsTo, Tended, R!RailAt
  <2> QED
    BY <2>1, <2>4, <2>5 DEF R!Linked, R!RailAt
<1> QED
  BY <1>1, <1>14, <1>15 DEF two

(***************************************************************************)
(* Rails: the kind of one stays.                                           *)
(***************************************************************************)
SameKinds(v, w) == AreRails(w) /\ \A n \in RailCells : w[n].kind = v[n].kind

LEMMA RecomputeKinds ==
  ASSUME NEW v, NEW u, SameKinds(v, u.rail), NEW c \in RailCells
  PROVE  SameKinds(v, R!Recompute(u, c).rail)
<1>1. CASE u.rail[c] = R!NoRail
  BY <1>1 DEF R!Recompute
<1>2. CASE u.rail[c] # R!NoRail
  <2>1. IsTurned(u.rail, c, R!Recompute(u, c).rail)
    BY <1>2, RecomputeTurns, TurnedFacts DEF SameKinds
  <2> QED
    BY <2>1 DEF IsTurned, SameKinds
<1> QED
  BY <1>1, <1>2

LEMMA AroundKinds ==
  ASSUME NEW v, NEW u, SameKinds(v, u.rail), NEW c, NEW ds, \A d \in ds : R!Step(c, d) \in RailCells
  PROVE  SameKinds(v, R!Around(u, c, ds).rail)
<1> DEFINE turn(w, d) == IF d \in ds THEN R!Recompute(w, R!Step(c, d)) ELSE w
           v1 == turn(u, R!East)
           v2 == turn(v1, R!South)
           v3 == turn(v2, R!West)
           v4 == turn(v3, R!North)
<1>1. R!Around(u, c, ds) = v4
  BY DEF R!Around
<1>2. ASSUME NEW w, SameKinds(v, w.rail), NEW d PROVE SameKinds(v, turn(w, d).rail)
  BY <1>2, RecomputeKinds
<1> HIDE DEF turn
<1>3. SameKinds(v, v1.rail)
  BY <1>2
<1> HIDE DEF v1
<1>4. SameKinds(v, v2.rail)
  BY <1>2, <1>3
<1> HIDE DEF v2
<1>5. SameKinds(v, v3.rail)
  BY <1>2, <1>4
<1> HIDE DEF v3
<1>6. SameKinds(v, v4.rail)
  BY <1>2, <1>5
<1> QED
  BY <1>1, <1>6

LEMMA LaidKinds ==
  ASSUME R!TypeOK, NEW c \in RailCells, NEW k \in R!Kinds
  PROVE  /\ R!Laid(c, k).rail[c].kind = k
         /\ \A n \in RailCells \ {c} : R!Laid(c, k).rail[n].kind = rail[n].kind
<1> DEFINE r == [kind |-> k, meta |-> 0]
           put == [rail EXCEPT ![c] = r]
           open == {d \in R!Directions : R!RailAt(put, c, d) /\ R!Connected(put, R!Step(c, d)) < 2}
           u0 == R!Untold(put)
           u1 == R!Recompute(u0, c)
           u2 == R!Around(u1, c, open)
           u3 == R!Around(u2, c, open)
           u4 == R!Recompute(u3, c)
<1>1. R!Laid(c, k) = u4
  BY DEF R!Laid
<1>2. r \in RailOrNone /\ r.kind = k
  BY DEF RailOrNone, R!RailBlocks, R!Kinds
<1> HIDE DEF r
<1>3. put \in [RailCells -> RailOrNone] /\ put[c] = r /\ \A n \in RailCells \ {c} : put[n] = rail[n]
  BY <1>2 DEF R!TypeOK, RailOrNone
<1>4. \A d \in open : R!Step(c, d) \in RailCells
  BY DEF R!RailAt
<1>5. SameKinds(put, u0.rail)
  BY <1>3 DEF SameKinds, AreRails, R!Untold
<1> HIDE DEF put, open, u0
<1>6. SameKinds(put, u1.rail)
  BY <1>5, RecomputeKinds
<1> HIDE DEF u1
<1>7. SameKinds(put, u2.rail)
  BY <1>4, <1>6, AroundKinds
<1> HIDE DEF u2
<1>8. SameKinds(put, u3.rail)
  BY <1>4, <1>7, AroundKinds
<1> HIDE DEF u3
<1>9. SameKinds(put, u4.rail)
  BY <1>8, RecomputeKinds
<1> HIDE DEF u4
<1> QED
  BY <1>1, <1>2, <1>3, <1>9 DEF SameKinds

LEMMA LeftKinds ==
  ASSUME R!TypeOK, NEW c \in RailCells
  PROVE  \A n \in RailCells \ {c} : R!Left(c).rail[n].kind = rail[n].kind
<1> DEFINE gone == [rail EXCEPT ![c] = R!NoRail]
           near == {d \in R!Directions : R!RailAt(gone, c, d)}
<1>1. gone \in [RailCells -> RailOrNone] /\ \A n \in RailCells \ {c} : gone[n] = rail[n]
  BY DEF R!TypeOK, RailOrNone
<1>2. \A d \in near : R!Step(c, d) \in RailCells
  BY DEF R!RailAt
<1>3. R!Left(c) = R!Around(R!Untold(gone), c, near)
  BY DEF R!Left
<1> HIDE DEF gone, near
<1>4. SameKinds(gone, R!Untold(gone).rail)
  BY <1>1 DEF SameKinds, AreRails, R!Untold
<1>5. SameKinds(gone, R!Left(c).rail)
  BY <1>2, <1>3, <1>4, AroundKinds
<1> QED
  BY <1>1, <1>5 DEF SameKinds

(***************************************************************************)
(* Rails: links are kept.                                                  *)
(***************************************************************************)
\* Where only normal rails were laid, on level ground, no two ends lie open
\* beside each other.
TrackInv == RailsInv /\ (~broken /\ R!Plain(rail) => Snug(rail))

LEMMA PlaceReady ==
  ASSUME TrackInv, ~broken, NEW c \in RailCells, NEW k \in R!Kinds, R!Place(c, k), R!Plain(rail')
  PROVE  k = "normal" /\ CanLay(rail, c)
<1>1. /\ rail'[c].kind = k
      /\ \A n \in RailCells \ {c} : rail'[n].kind = rail[n].kind
  BY LaidKinds DEF TrackInv, RailsInv, R!Place
<1>2. k = "normal"
  BY <1>1 DEF R!Plain, R!Kinds
<1>3. rail[c] = R!NoRail /\ rail[c].kind # "special"
  BY DEF R!Place, R!NoRail
<1>4. \A n \in RailCells : rail[n].kind # "special"
  BY <1>1, <1>3 DEF R!Plain
<1>5. Snug(rail)
  BY <1>4 DEF TrackInv, R!Plain
<1>6. AreRails(rail)
  BY DEF TrackInv, RailsInv, R!TypeOK, AreRails, RailOrNone
<1> QED
  BY <1>2, <1>3, <1>4, <1>5, <1>6 DEF CanLay, R!Plain

LEMMA PlaceKeeps ==
  ASSUME R!TypeOK, NEW c \in RailCells, R!Place(c, "normal"), CanLay(rail, c)
  PROVE  R!Laying(c) /\ Snug(rail')
<1>1. /\ Tended(rail, c, rail')
      /\ \A d \in R!FirstTwo(FreeAround(rail, c)) : R!Linked(rail', c, d)
  BY LaidMeets DEF R!Place
<1>2. AreRails(rail) /\ AreRails(rail') /\ rail[c] = R!NoRail
  BY <1>1 DEF CanLay, Tended
<1>3. ASSUME NEW n \in RailCells, NEW e \in R!Directions, R!Linked(rail, n, e) PROVE R!Linked(rail', n, e)
  <2>1. n # c /\ R!Step(n, e) # c
    BY <1>2, <1>3 DEF R!Linked, R!RailAt
  <2> QED
    BY <1>1, <1>3, <2>1 DEF Tended
<1>4. R!Links(rail) \subseteq R!Links(rail')
  <2> SUFFICES ASSUME NEW l \in R!Links(rail) PROVE l \in R!Links(rail')
    OBVIOUS
  <2>1. l \in RailCells \X R!Directions /\ R!Linked(rail, l[1], l[2])
    BY DEF R!Links
  <2> QED
    BY <1>3, <2>1 DEF R!Links
<1>5. HasFreeEnd(rail', c) => \A d \in FreeAround(rail, c) : R!Linked(rail', c, d)
  <2>1. FreeAround(rail, c) \subseteq R!Directions
    BY DEF FreeAround
  <2>2. CASE R!FirstTwo(FreeAround(rail, c)) = FreeAround(rail, c)
    BY <1>1, <2>2
  <2>3. CASE \E a, b \in R!FirstTwo(FreeAround(rail, c)) : a # b
    <3>1. PICK a \in R!FirstTwo(FreeAround(rail, c)), b \in R!FirstTwo(FreeAround(rail, c)) : a # b
      BY <2>3
    <3>2. a \in R!Directions /\ b \in R!Directions
      BY <2>1, FirstTwoFacts
    <3> QED
      BY <1>1, <3>1, <3>2 DEF HasFreeEnd
  <2> QED
    BY <2>1, <2>2, <2>3, FirstTwoOfMany
<1>6. \/ R!Connected(rail', c) = 2
      \/ \A d \in R!Directions :
           R!RailAt(rail', c, d) /\ R!Connected(rail, R!Step(c, d)) < 2 => R!Linked(rail', c, d)
  <2>1. CASE ~HasFreeEnd(rail', c)
    BY <1>2, <2>1, OpenFacts
  <2>2. CASE HasFreeEnd(rail', c)
    <3> SUFFICES ASSUME NEW d \in R!Directions, R!RailAt(rail', c, d), R!Connected(rail, R!Step(c, d)) < 2
                 PROVE  R!Linked(rail', c, d)
      OBVIOUS
    <3>1. R!Step(c, d) \in RailCells \ {c}
      BY CellsArePairs, StepFacts DEF R!RailAt
    <3>2. HasFreeEnd(rail, R!Step(c, d))
      BY <1>2, <3>1, OpenFacts
    <3>3. R!RailAt(rail, c, d)
      BY <1>1, <3>1 DEF Tended, R!RailAt
    <3> QED
      BY <1>5, <2>2, <3>2, <3>3 DEF FreeAround
  <2> QED
    BY <2>1, <2>2
<1>7. R!Laying(c)
  BY <1>4, <1>6 DEF R!Laying
<1>8. \A d \in R!Directions : R!Step(c, d) # c
  BY CellsArePairs, StepFacts
<1>9. ASSUME NEW d \in R!Directions, R!RailAt(rail', c, d), HasFreeEnd(rail', c), HasFreeEnd(rail', R!Step(c, d))
      PROVE  R!Linked(rail', c, d)
  <2>1. R!Step(c, d) \in RailCells \ {c} /\ rail'[R!Step(c, d)] # R!NoRail
    BY <1>8, <1>9 DEF R!RailAt
  <2>2. R!RailAt(rail, c, d)
    BY <1>1, <1>9, <2>1 DEF Tended, R!RailAt
  <2>3. HasFreeEnd(rail, R!Step(c, d))
    BY <1>1, <1>9, <2>1, TendedOpen
  <2> QED
    BY <1>5, <1>9, <2>2, <2>3 DEF FreeAround
<1>10. ASSUME NEW n \in RailCells, NEW d \in R!Directions, rail'[n] # R!NoRail, R!RailAt(rail', n, d),
              HasFreeEnd(rail', n), HasFreeEnd(rail', R!Step(n, d))
       PROVE  R!Linked(rail', n, d)
  <2>1. CASE n = c
    BY <1>9, <1>10, <2>1
  <2>2. CASE R!Step(n, d) = c
    <3>1. R!Back(d) \in R!Directions /\ R!Step(c, R!Back(d)) = n
      BY <2>2, CellsArePairs, StepFacts, BackFacts
    <3>2. R!RailAt(rail', c, R!Back(d))
      BY <1>10, <2>2, BothWays
    <3>3. R!Linked(rail', c, R!Back(d))
      BY <1>9, <1>10, <2>2, <3>1, <3>2
    <3> QED
      BY <2>2, <3>3, BothWays
  <2>3. CASE n # c /\ R!Step(n, d) # c
    <3>1. R!Step(n, d) \in RailCells \ {c} /\ n \in RailCells \ {c}
      BY <1>10, <2>3 DEF R!RailAt
    <3>2. HasFreeEnd(rail, n) /\ HasFreeEnd(rail, R!Step(n, d))
      BY <1>1, <1>10, <3>1, TendedOpen
    <3>3. rail[n] # R!NoRail /\ R!RailAt(rail, n, d)
      BY <1>1, <1>10, <3>1 DEF Tended, R!RailAt
    <3>4. R!Linked(rail, n, d)
      BY <3>2, <3>3 DEF CanLay, Snug
    <3> QED
      BY <1>3, <3>4
  <2> QED
    BY <2>1, <2>2, <2>3
<1> QED
  BY <1>7, <1>10 DEF Snug

LEMMA TrackInit == R!Init => TrackInv
<1> SUFFICES ASSUME R!Init PROVE Snug(rail)
  BY RailsInit DEF TrackInv
<1> QED
  BY DEF R!Init, Snug

LEMMA TrackStep == TrackInv /\ [R!Next]_(R!vars) => TrackInv'
<1> SUFFICES ASSUME TrackInv, [R!Next]_(R!vars) PROVE TrackInv'
  OBVIOUS
<1>1. RailsInv'
  BY RailsStep DEF TrackInv
<1>2. ASSUME NEW c \in RailCells, NEW k \in R!Kinds, R!Place(c, k), (~broken /\ R!Plain(rail))'
      PROVE  Snug(rail)'
  <2>1. ground' = ground /\ broken' = broken
    BY <1>2 DEF R!Place
  <2>2. R!Plain(rail')
    BY <1>2, <2>1 DEF R!Plain
  <2>3. k = "normal" /\ CanLay(rail, c)
    BY <1>2, <2>1, <2>2, PlaceReady
  <2>4. Snug(rail')
    BY <1>2, <2>3, PlaceKeeps DEF TrackInv, RailsInv
  <2> QED
    BY <2>1, <2>4 DEF Snug, HasFreeEnd, R!Linked, R!RailAt, R!PointsTo
<1>3. ASSUME NEW c \in RailCells, R!Break(c) PROVE broken'
  BY <1>3 DEF R!Break
<1>4. CASE UNCHANGED R!vars
  BY <1>1, <1>4 DEF R!vars, TrackInv, R!Plain, Snug, HasFreeEnd, R!Linked, R!RailAt, R!PointsTo
<1> QED
  BY <1>1, <1>2, <1>3, <1>4 DEF R!Next, TrackInv

LEMMA LinksStep ==
  ASSUME TrackInv, [R!Next]_(R!vars)
  PROVE  [\A c \in RailCells :
       /\ (rail[c] = R!NoRail /\ rail'[c] # R!NoRail /\ R!Plain(rail') /\ ~broken => R!Laying(c))
       /\ (rail[c] # R!NoRail /\ rail'[c] = R!NoRail => R!Breaking(c))]_(R!vars)
<1> SUFFICES ASSUME R!Next, NEW c \in RailCells
             PROVE  /\ (rail[c] = R!NoRail /\ rail'[c] # R!NoRail /\ R!Plain(rail') /\ ~broken => R!Laying(c))
                    /\ (rail[c] # R!NoRail /\ rail'[c] = R!NoRail => R!Breaking(c))
  OBVIOUS
<1>0. \A n \in RailCells : /\ rail[n] = R!NoRail <=> rail[n].kind = "none"
                           /\ rail'[n] = R!NoRail <=> rail'[n].kind = "none"
  <2>1. rail \in [RailCells -> R!RailBlocks \cup {R!NoRail}] /\ rail' \in [RailCells -> R!RailBlocks \cup {R!NoRail}]
    BY TrackStep DEF TrackInv, RailsInv, R!TypeOK
  <2> QED
    BY <2>1 DEF R!RailBlocks, R!NoRail
<1>1. ASSUME NEW b \in RailCells, NEW k \in R!Kinds, R!Place(b, k)
      PROVE  \A n \in RailCells \ {b} : rail'[n] = R!NoRail <=> rail[n] = R!NoRail
  <2>1. \A n \in RailCells \ {b} : rail'[n].kind = rail[n].kind
    BY <1>1, LaidKinds DEF TrackInv, RailsInv, R!Place
  <2> QED
    BY <1>0, <2>1
<1>2. ASSUME NEW b \in RailCells, R!Break(b)
      PROVE  \A n \in RailCells \ {b} : rail'[n] = R!NoRail <=> rail[n] = R!NoRail
  <2>1. \A n \in RailCells \ {b} : rail'[n].kind = rail[n].kind
    BY <1>2, LeftKinds DEF TrackInv, RailsInv, R!Break
  <2> QED
    BY <1>0, <2>1
<1>3. ASSUME NEW b \in RailCells, NEW k \in R!Kinds, R!Place(b, k), rail[c] = R!NoRail, rail'[c] # R!NoRail,
             R!Plain(rail'), ~broken
      PROVE  R!Laying(c)
  <2>1. c = b
    BY <1>1, <1>3
  <2> QED
    BY <1>3, <2>1, PlaceReady, PlaceKeeps DEF TrackInv, RailsInv
<1>4. ASSUME NEW b \in RailCells, R!Break(b), rail[c] # R!NoRail, rail'[c] = R!NoRail
      PROVE  R!Breaking(c)
  <2>1. c = b
    BY <1>2, <1>4
  <2> QED
    BY <1>4, <2>1, BreakKeeps DEF TrackInv, RailsInv
<1>5. CASE \E b \in RailCells, k \in R!Kinds : R!Place(b, k)
  <2>1. PICK b \in RailCells, k \in R!Kinds : R!Place(b, k)
    BY <1>5
  <2>2. ~(rail[c] # R!NoRail /\ rail'[c] = R!NoRail)
    BY <1>1, <2>1 DEF R!Place
  <2> QED
    BY <1>3, <2>1, <2>2
<1>6. CASE \E b \in RailCells : R!Break(b)
  <2>1. PICK b \in RailCells : R!Break(b)
    BY <1>6
  <2>2. ~(rail[c] = R!NoRail /\ rail'[c] # R!NoRail)
    BY <1>2, <2>1 DEF R!Break
  <2> QED
    BY <1>4, <2>1, <2>2
<1> QED
  BY <1>5, <1>6 DEF R!Next

\* No track comes apart because of what is done beside it: placeRailAuto() and
\* updateRailsAround().
THEOREM TracksStayLinked == RailsSpec => LinksAreKept
<1>1. TrackInv /\ [R!Next]_(R!vars) =>
        [\A c \in RailCells :
           /\ (rail[c] = R!NoRail /\ rail'[c] # R!NoRail /\ R!Plain(rail') /\ ~broken => R!Laying(c))
           /\ (rail[c] # R!NoRail /\ rail'[c] = R!NoRail => R!Breaking(c))]_(R!vars)
  BY LinksStep
<1> QED
  BY TrackInit, TrackStep, <1>1, PTL DEF RailsSpec, R!Spec, LinksAreKept, R!LinksAreKept

(***************************************************************************)
(* Induction and recursive functions.                                      *)
(***************************************************************************)
\* Every set of natural numbers that is not empty has a least element.
LEMMA LeastNat ==
  ASSUME NEW T, T \subseteq Nat, T # {}
  PROVE  \E x \in T : \A y \in T : x <= y
<1> DEFINE Below == {ss \in Nat \X Nat : ss[1] < ss[2]}
<1>1. IsWellFoundedOn(OpToRel(<, Nat), Nat)
  BY NatLessThanWellFounded
<1>2. OpToRel(<, Nat) = Below
  BY DEF OpToRel
<1>3. IsWellFoundedOn(Below, Nat)
  BY <1>1, <1>2
<1>4. \A x, y \in Nat : y < x => <<y, x>> \in Below
  OBVIOUS
<1> HIDE DEF Below
<1>5. PICK x \in T : \A y \in T : ~ (<<y, x>> \in Below)
  BY <1>3, WFMin
<1>6. ASSUME NEW y \in T PROVE x <= y
  <2>1. x \in Nat /\ y \in Nat
    OBVIOUS
  <2>2. ~(y < x)
    BY <1>4, <1>5, <2>1
  <2> QED
    BY <2>1, <2>2
<1>7. QED
  BY <1>6

\* Induction: what holds of 0, and of i + 1 when it does of i, holds up to n.
LEMMA Induction ==
  ASSUME NEW n \in Nat, NEW S, 0 \in S,
         \A i \in 0 .. (n - 1) : i \in S => i + 1 \in S
  PROVE  \A i \in 0 .. n : i \in S
<1> SUFFICES ASSUME NEW j \in 0 .. n, j \notin S PROVE FALSE
  OBVIOUS
<1> DEFINE T == {i \in 0 .. n : i \notin S}
<1>1. PICK x \in T : \A y \in T : x <= y
  <2>1. T \subseteq Nat /\ T # {}
    OBVIOUS
  <2> HIDE DEF T
  <2> QED
    BY <2>1, LeastNat
<1>2. x # 0 /\ x \in 0 .. n
  BY <1>1
<1>3. x - 1 \in 0 .. (n - 1) /\ x - 1 \notin T
  BY <1>1, <1>2
<1>4. x - 1 \in S
  BY <1>3
<1>5. (x - 1) + 1 \in S
  BY <1>3, <1>4
<1> QED
  BY <1>1, <1>2, <1>5

\* A function may be defined by what it is at 0 and how each of its values is
\* made of the one before.
Unfolds(g, V, c, F, n) ==
  /\ g \in [0 .. n -> V]
  /\ g[0] = c /\ \A i \in 1 .. n : g[i] = F[<<g[i - 1], i>>]

LEMMA Recursion ==
  ASSUME NEW V, NEW c \in V, NEW n \in Nat, NEW F \in [V \X (1 .. n) -> V]
  PROVE  \E g : Unfolds(g, V, c, F, n)
<1> DEFINE Step(g, i) == g[i] = F[<<g[i - 1], i>>]
           Meets(g, k) == g[0] = c /\ \A i \in 1 .. k : Step(g, i)
           S == {k \in 0 .. n : \E g \in [0 .. k -> V] : Meets(g, k)}
<1>1. 0 \in S
  <2> DEFINE g0 == [i \in 0 .. 0 |-> c]
  <2>1. g0 \in [0 .. 0 -> V] /\ Meets(g0, 0)
    OBVIOUS
  <2> HIDE DEF g0, Meets
  <2> QED
    BY <2>1
<1>2. ASSUME NEW k \in 0 .. (n - 1), k \in S PROVE k + 1 \in S
  <2>1. PICK g \in [0 .. k -> V] : Meets(g, k)
    BY <1>2
  <2> DEFINE v == F[<<g[k], k + 1>>]
             h == [i \in 0 .. (k + 1) |-> IF i <= k THEN g[i] ELSE v]
  <2>2. v \in V
    <3>1. g[k] \in V /\ k + 1 \in 1 .. n
      OBVIOUS
    <3> QED
      BY <3>1
  <2>3. \A i \in 0 .. k : h[i] = g[i]
    OBVIOUS
  <2>4. h[k + 1] = v
    OBVIOUS
  <2> HIDE DEF v
  <2>5. h \in [0 .. (k + 1) -> V]
    BY <2>2
  <2>6. h[0] = c
    BY <2>1, <2>3
  <2>7. ASSUME NEW i \in 1 .. (k + 1) PROVE Step(h, i)
    <3>1. CASE i \in 1 .. k
      <4>1. Step(g, i)
        BY <2>1, <3>1
      <4>2. h[i] = g[i] /\ h[i - 1] = g[i - 1]
        BY <2>3, <3>1
      <4> HIDE DEF h
      <4> QED
        BY <4>1, <4>2
    <3>2. CASE i = k + 1
      <4>1. i - 1 = k /\ h[k] = g[k] /\ h[i] = v
        BY <2>3, <2>4, <3>2
      <4> HIDE DEF h
      <4> QED
        BY <3>2, <4>1 DEF v
    <3> QED
      BY <3>1, <3>2
  <2> HIDE DEF h, Step
  <2> QED
    BY <2>5, <2>6, <2>7
<1>3. n \in S
  <2> HIDE DEF S
  <2> QED
    BY <1>1, <1>2, Induction
<1>4. PICK g \in [0 .. n -> V] : Meets(g, n)
  BY <1>3
<1> QED
  BY <1>4 DEF Unfolds

(***************************************************************************)
(* Redstone: numbers and blocks.                                           *)
(***************************************************************************)
LEMMA Constants ==
  /\ LineLength \in Nat /\ LineLength >= 1 /\ BoxRadius \in Nat /\ NarrowBoxRadius \in Nat
  /\ MaxPower \in Nat /\ MaxPower >= 1 /\ MaxDelay \in Nat /\ MaxDelay >= 1
  /\ MaxActs \in Nat
  BY RedstoneAssumption DEF W!ConstantsOK

\* The largest of some numbers, or 0 if none is larger.
LEMMA LargestIs ==
  ASSUME NEW S, S \subseteq Int, NEW m \in S \cup {0}, \A n \in S \cup {0} : n <= m
  PROVE  W!Largest(S) = m
<1> DEFINE Most(x) == \A n \in S \cup {0} : n <= x
           x0 == CHOOSE x \in S \cup {0} : Most(x)
<1>1. x0 \in S \cup {0} /\ Most(x0)
  <2>1. \E x \in S \cup {0} : Most(x)
    OBVIOUS
  <2> HIDE DEF Most
  <2> QED
    BY <2>1
<1>2. W!Largest(S) = x0
  BY DEF W!Largest
<1> HIDE DEF x0
<1>3. x0 <= m /\ m <= x0 /\ x0 \in Int /\ m \in Int
  BY <1>1
<1> QED
  BY <1>2, <1>3

LEMMA LargestFacts ==
  ASSUME NEW S, S \subseteq Int, NEW b \in Nat, \A n \in S : n <= b
  PROVE  /\ W!Largest(S) \in S \cup {0} /\ W!Largest(S) \in 0 .. b
         /\ \A n \in S : n <= W!Largest(S)
<1> DEFINE T == {k \in Nat : \A n \in S : n <= k}
<1>1. PICK m \in T : \A k \in T : m <= k
  <2>1. T \subseteq Nat /\ b \in T
    OBVIOUS
  <2> HIDE DEF T
  <2> QED
    BY <2>1, LeastNat
<1>2. m \in Nat /\ \A n \in S : n <= m
  BY <1>1
<1>3. m \in S \cup {0}
  <2>1. SUFFICES ASSUME m \notin S, m # 0 PROVE FALSE
    OBVIOUS
  <2>2. m - 1 \in Nat /\ ~(m <= m - 1)
    BY <1>2, <2>1
  <2>3. ASSUME NEW n \in S PROVE n <= m - 1
    <3>1. n <= m /\ n # m /\ n \in Int
      BY <1>2, <2>1
    <3> QED
      BY <1>2, <3>1
  <2>4. m - 1 \in T
    BY <2>2, <2>3
  <2> HIDE DEF T
  <2> QED
    BY <1>1, <2>2, <2>4
<1>4. m <= b
  <2>1. b \in T
    OBVIOUS
  <2> HIDE DEF T
  <2> QED
    BY <1>1, <2>1
<1> HIDE DEF T
<1>5. \A n \in S \cup {0} : n <= m
  BY <1>2
<1>6. W!Largest(S) = m
  BY <1>3, <1>5, LargestIs
<1> QED
  BY <1>2, <1>3, <1>4, <1>6

Worlds == [W!Cells -> W!Blocks]

LEMMA AirIsBlock == W!Air \in W!Blocks /\ W!Air.kind = "air" /\ W!Air.on = FALSE
  BY Constants DEF W!Air, W!Blocks, W!Kinds, W!Sides

LEMMA AtType ==
  ASSUME NEW b \in Worlds, NEW c PROVE W!At(b, c) \in W!Blocks
  BY AirIsBlock DEF W!At, Worlds

LEMMA BlockFields ==
  ASSUME NEW x \in W!Blocks
  PROVE  /\ x.kind \in W!Kinds /\ x.on \in BOOLEAN /\ x.power \in 0 .. MaxPower
         /\ x.side \in W!Sides /\ x.delay \in 1 .. MaxDelay
  BY DEF W!Blocks

LEMMA InputType ==
  ASSUME NEW b \in Worlds, NEW c PROVE W!ComparatorInput(b, c) \in 0 .. MaxPower
<1> DEFINE i == W!At(b, c + b[c].side)
<1>1. i \in W!Blocks
  BY AtType
<1> HIDE DEF i
<1>2. i.power \in 0 .. MaxPower /\ MaxPower \in 0 .. MaxPower /\ 0 \in 0 .. MaxPower
  BY <1>1, Constants DEF W!Blocks
<1> QED
  BY <1>2 DEF W!ComparatorInput, i

LEMMA SourceType ==
  ASSUME NEW b \in Worlds, NEW c PROVE W!SourcePower(b, c) \in 0 .. MaxPower
<1> DEFINE i == W!At(b, c)
           S == {1, W!ComparatorInput(b, c)}
<1>1. W!Largest(S) \in 0 .. MaxPower
  <2>1. S \subseteq Int /\ \A n \in S : n <= MaxPower
    BY InputType, Constants
  <2> HIDE DEF S
  <2> QED
    BY <2>1, LargestFacts, Constants
<1>2. MaxPower \in 0 .. MaxPower /\ 0 \in 0 .. MaxPower
  BY Constants
<1> HIDE DEF i
<1> QED
  BY <1>1, <1>2 DEF W!SourcePower, i

Feeders(b, w) ==
  {n \in {w - 1, w + 1} : W!At(b, n).kind \in {"repeater", "comparator"}
                            => n - b[n].side = w}

LEMMA AdjacentType ==
  ASSUME NEW b \in Worlds, NEW w PROVE W!AdjacentPower(b, w) \in 0 .. MaxPower
<1> DEFINE S == {W!SourcePower(b, n) : n \in Feeders(b, w)}
<1>1. W!AdjacentPower(b, w) = W!Largest(S)
  BY DEF W!AdjacentPower, Feeders
<1>2. S \subseteq Int /\ \A n \in S : n <= MaxPower
  BY SourceType
<1> HIDE DEF S
<1> QED
  BY <1>1, <1>2, LargestFacts, Constants

(***************************************************************************)
(* The search for the strength of the wires.                               *)
(***************************************************************************)
Strengths == [W!Cells -> 0 .. MaxPower]

Beside(w) == {w - 1, w + 1} \cap W!Cells

\* What the wires have after one more round of the search.
Spread(b, s) ==
  [w \in W!Cells |-> IF b[w].kind = "wire"
                   THEN W!Largest({s[w]} \cup {s[n] - 1 : n \in Beside(w)})
                   ELSE 0]

Fed(b, box) ==
  [w \in W!Cells |-> IF b[w].kind = "wire" /\ w \in box THEN W!AdjacentPower(b, w) ELSE 0]

Rounds(g, b, box) ==
  /\ g \in [0 .. MaxPower -> Strengths]
  /\ g[0] = Fed(b, box) /\ \A k \in 1 .. MaxPower : g[k] = Spread(b, g[k - 1])

LEMMA FedType ==
  ASSUME NEW b \in Worlds, NEW box PROVE Fed(b, box) \in Strengths
  BY AdjacentType, Constants DEF Fed, Strengths

\* A round leaves a wire what it has, or gives it one less than a neighbour.
LEMMA SpreadFacts ==
  ASSUME NEW b, NEW s \in Strengths
  PROVE  /\ Spread(b, s) \in Strengths
         /\ \A w \in W!Cells : b[w].kind # "wire" => Spread(b, s)[w] = 0
         /\ \A w \in W!Cells : b[w].kind = "wire" =>
              /\ s[w] <= Spread(b, s)[w]
              /\ \A n \in Beside(w) : s[n] - 1 <= Spread(b, s)[w]
              /\ Spread(b, s)[w] = s[w] \/ \E n \in Beside(w) : Spread(b, s)[w] = s[n] - 1
<1> DEFINE S(w) == {s[w]} \cup {s[n] - 1 : n \in Beside(w)}
<1>1. \A w \in W!Cells : Spread(b, s)[w] = IF b[w].kind = "wire" THEN W!Largest(S(w)) ELSE 0
  BY DEF Spread
<1>2. ASSUME NEW w \in W!Cells
      PROVE  /\ W!Largest(S(w)) \in S(w) /\ W!Largest(S(w)) \in 0 .. MaxPower
             /\ \A n \in S(w) : n <= W!Largest(S(w))
  <2>1. S(w) \subseteq Int /\ \A n \in S(w) : n <= MaxPower
    BY Constants DEF Strengths, Beside
  <2>2. s[w] \in S(w) /\ s[w] >= 0 /\ s[w] \in Int
    BY Constants DEF Strengths
  <2> HIDE DEF S
  <2>3. /\ W!Largest(S(w)) \in S(w) \cup {0} /\ W!Largest(S(w)) \in 0 .. MaxPower
        /\ \A n \in S(w) : n <= W!Largest(S(w))
    BY <2>1, LargestFacts, Constants
  <2>4. W!Largest(S(w)) \in S(w)
    <3>1. CASE W!Largest(S(w)) = 0
      <4>1. s[w] <= 0
        BY <2>2, <2>3, <3>1
      <4>2. s[w] = 0
        BY <2>2, <4>1
      <4> QED
        BY <2>2, <3>1, <4>2
    <3> QED
      BY <2>3, <3>1
  <2> QED
    BY <2>3, <2>4
<1>3. Spread(b, s) \in Strengths
  <2>1. ASSUME NEW w \in W!Cells PROVE Spread(b, s)[w] \in 0 .. MaxPower
    <3>1. W!Largest(S(w)) \in 0 .. MaxPower
      BY <1>2
    <3>2. 0 \in 0 .. MaxPower
      BY Constants
    <3> HIDE DEF S
    <3> QED
      BY <1>1, <3>1, <3>2
  <2>2. Spread(b, s) = [w \in W!Cells |-> Spread(b, s)[w]]
    BY DEF Spread
  <2> QED
    BY <2>1, <2>2 DEF Strengths
<1>4. \A w \in W!Cells : b[w].kind # "wire" => Spread(b, s)[w] = 0
  BY <1>1
<1>5. ASSUME NEW w \in W!Cells, b[w].kind = "wire"
      PROVE  /\ s[w] <= Spread(b, s)[w]
             /\ \A n \in Beside(w) : s[n] - 1 <= Spread(b, s)[w]
             /\ Spread(b, s)[w] = s[w] \/ \E n \in Beside(w) : Spread(b, s)[w] = s[n] - 1
  <2>1. Spread(b, s)[w] = W!Largest(S(w))
    BY <1>1, <1>5
  <2>2. /\ W!Largest(S(w)) \in S(w) /\ \A n \in S(w) : n <= W!Largest(S(w))
    BY <1>2
  <2>3. s[w] \in S(w) /\ \A n \in Beside(w) : s[n] - 1 \in S(w)
    OBVIOUS
  <2>4. \A x \in S(w) : x = s[w] \/ \E n \in Beside(w) : x = s[n] - 1
    OBVIOUS
  <2> HIDE DEF S
  <2> QED
    BY <2>1, <2>2, <2>3, <2>4
<1> HIDE DEF S
<1> QED
  BY <1>3, <1>4, <1>5

LEMMA StrengthExists ==
  ASSUME NEW b \in Worlds, NEW o, NEW r
  PROVE  \E g : W!Strength(b, o, r) = g[MaxPower] /\ Rounds(g, b, W!Box(o, r))
<1> DEFINE Def(s) ==
             s = [k \in 0 .. MaxPower |->
                   IF k = 0
                   THEN [w \in W!Cells |-> IF b[w].kind = "wire" /\ w \in W!Box(o, r)
                                         THEN W!AdjacentPower(b, w) ELSE 0]
                   ELSE [w \in W!Cells |->
                           IF b[w].kind = "wire"
                           THEN W!Largest({s[k - 1][w]} \cup
                                  {s[k - 1][n] - 1 : n \in {w - 1, w + 1} \cap W!Cells})
                           ELSE 0]]
           after == CHOOSE s : Def(s)
           F == [p \in Strengths \X (1 .. MaxPower) |-> Spread(b, p[1])]
<1>1. W!Strength(b, o, r) = after[MaxPower]
  BY DEF W!Strength
<1>2. F \in [Strengths \X (1 .. MaxPower) -> Strengths]
  BY SpreadFacts
<1>3. \A s \in Strengths, k \in 1 .. MaxPower : F[<<s, k>>] = Spread(b, s)
  OBVIOUS
<1> HIDE DEF F
<1>4. PICK g : Unfolds(g, Strengths, Fed(b, W!Box(o, r)), F, MaxPower)
  BY <1>2, FedType, Recursion, Constants
<1>5. ASSUME NEW k \in 1 .. MaxPower PROVE g[k] = Spread(b, g[k - 1])
  <2>1. g[k - 1] \in Strengths
    BY <1>4, Constants DEF Unfolds
  <2> QED
    BY <1>3, <1>4, <2>1 DEF Unfolds
<1>6. Def(g)
  <2>1. g = [k \in 0 .. MaxPower |-> IF k = 0 THEN Fed(b, W!Box(o, r)) ELSE Spread(b, g[k - 1])]
    <3>1. g = [k \in 0 .. MaxPower |-> g[k]]
      BY <1>4 DEF Unfolds
    <3>2. \A k \in 0 .. MaxPower : g[k] = IF k = 0 THEN Fed(b, W!Box(o, r)) ELSE Spread(b, g[k - 1])
      BY <1>4, <1>5, Constants DEF Unfolds
    <3> QED
      BY <3>1, <3>2
  <2> QED
    BY <2>1 DEF Fed, Spread, Beside
<1>7. Def(after)
  <2> HIDE DEF Def
  <2> QED
    BY <1>6
<1> DEFINE h == [k \in 0 .. MaxPower |-> after[k]]
<1>8. after = [k \in 0 .. MaxPower |-> IF k = 0 THEN Fed(b, W!Box(o, r)) ELSE Spread(b, after[k - 1])]
  BY <1>7 DEF Fed, Spread, Beside
<1> HIDE DEF Def, after
<1>9. /\ after[0] = Fed(b, W!Box(o, r))
      /\ \A k \in 1 .. MaxPower : after[k] = Spread(b, after[k - 1])
  BY <1>8, Constants
<1> DEFINE S == {k \in 0 .. MaxPower : after[k] \in Strengths}
<1>10. \A k \in 0 .. MaxPower : k \in S
  <2>1. 0 \in S
    BY <1>9, FedType, Constants
  <2>2. ASSUME NEW k \in 0 .. (MaxPower - 1), k \in S PROVE k + 1 \in S
    <3>1. k + 1 \in 1 .. MaxPower /\ (k + 1) - 1 = k
      BY Constants
    <3>2. after[k + 1] = Spread(b, after[k])
      BY <1>9, <3>1
    <3> QED
      BY <2>2, <3>1, <3>2, SpreadFacts, Constants
  <2> HIDE DEF S
  <2> QED
    BY <2>1, <2>2, Induction, Constants
<1>11. after \in [0 .. MaxPower -> Strengths]
  BY <1>8, <1>10
<1> QED
  BY <1>1, <1>9, <1>11 DEF Rounds

(***************************************************************************)
(* What the search finds when it begins at every wire that is fed.         *)
(***************************************************************************)
\* No wire has more than it is fed, or than one less than a neighbour.
NoMore(b, s) ==
  \A w \in W!Cells : b[w].kind = "wire" =>
    \/ s[w] <= W!AdjacentPower(b, w)
    \/ \E n \in Beside(w) : b[n].kind = "wire" /\ s[w] <= s[n] - 1

\* No wire has less, but for what is still to be passed on after k rounds.
NoLess(b, s, k) ==
  \A w \in W!Cells : b[w].kind = "wire" =>
    /\ W!AdjacentPower(b, w) <= s[w]
    /\ \A n \in Beside(w) : s[n] - 1 <= s[w] \/ s[n] <= MaxPower - k

OnlyWires(b, s) == \A w \in W!Cells : b[w].kind # "wire" => s[w] = 0

LEMMA FedSettled ==
  ASSUME NEW b \in Worlds, NEW box, W!Cells \subseteq box
  PROVE  /\ NoMore(b, Fed(b, box)) /\ NoLess(b, Fed(b, box), 0)
         /\ OnlyWires(b, Fed(b, box))
<1>1. \A w \in W!Cells : Fed(b, box)[w] = IF b[w].kind = "wire" THEN W!AdjacentPower(b, w) ELSE 0
  BY DEF Fed
<1>2. \A w \in W!Cells : Fed(b, box)[w] \in 0 .. MaxPower /\ W!AdjacentPower(b, w) \in 0 .. MaxPower
  BY AdjacentType, FedType DEF Strengths
<1>3. \A w : Beside(w) \subseteq W!Cells
  BY DEF Beside
<1> QED
  BY <1>1, <1>2, <1>3, Constants DEF NoMore, NoLess, OnlyWires

LEMMA SpreadSettles ==
  ASSUME NEW b \in Worlds, NEW s \in Strengths, NEW k \in 0 .. (MaxPower - 1),
         NoMore(b, s), NoLess(b, s, k), OnlyWires(b, s)
  PROVE  /\ NoMore(b, Spread(b, s)) /\ NoLess(b, Spread(b, s), k + 1)
         /\ OnlyWires(b, Spread(b, s))
<1> DEFINE t == Spread(b, s)
<1>1. \A w \in W!Cells : /\ s[w] \in 0 .. MaxPower /\ t[w] \in 0 .. MaxPower
                         /\ W!AdjacentPower(b, w) \in 0 .. MaxPower
  BY SpreadFacts, AdjacentType DEF Strengths
<1>2. OnlyWires(b, t)
  BY SpreadFacts DEF OnlyWires
<1>3. \A w \in W!Cells : b[w].kind = "wire" =>
        /\ s[w] <= t[w]
        /\ \A n \in Beside(w) : s[n] - 1 <= t[w]
        /\ t[w] = s[w] \/ \E n \in Beside(w) : t[w] = s[n] - 1
  BY SpreadFacts
<1>4. \A w : Beside(w) \subseteq W!Cells
  BY DEF Beside
<1> HIDE DEF t
<1>5. NoMore(b, t)
  <2> SUFFICES ASSUME NEW w \in W!Cells, b[w].kind = "wire", ~(t[w] <= W!AdjacentPower(b, w))
               PROVE  \E n \in Beside(w) : b[n].kind = "wire" /\ t[w] <= t[n] - 1
    BY DEF NoMore
  <2>1. t[w] \in Int /\ t[w] > 0
    BY <1>1, Constants
  <2>2. \A n \in Beside(w) : b[n].kind = "wire" => s[n] <= t[n] /\ s[n] \in Int /\ t[n] \in Int
    BY <1>1, <1>3, <1>4, Constants
  <2>3. CASE t[w] = s[w]
    <3>1. PICK n \in Beside(w) : b[n].kind = "wire" /\ s[w] <= s[n] - 1
      BY <2>3 DEF NoMore
    <3>2. s[n] <= t[n] /\ s[n] \in Int /\ t[n] \in Int
      BY <2>2, <3>1
    <3>3. t[w] <= t[n] - 1
      BY <2>1, <2>3, <3>1, <3>2
    <3> QED
      BY <3>1, <3>3
  <2>4. ASSUME NEW n \in Beside(w), t[w] = s[n] - 1
        PROVE  \E m \in Beside(w) : b[m].kind = "wire" /\ t[w] <= t[m] - 1
    <3>1. n \in W!Cells /\ s[n] \in Int
      BY <1>1, <1>4, Constants
    <3>2. s[n] # 0
      BY <2>1, <2>4, <3>1
    <3>3. b[n].kind = "wire"
      BY <3>1, <3>2 DEF OnlyWires
    <3>4. s[n] <= t[n] /\ s[n] \in Int /\ t[n] \in Int
      BY <2>2, <3>3
    <3>5. t[w] <= t[n] - 1
      BY <2>1, <2>4, <3>4
    <3> QED
      BY <3>3, <3>5
  <2> QED
    BY <1>3, <2>3, <2>4
<1>6. NoLess(b, t, k + 1)
  <2> SUFFICES ASSUME NEW w \in W!Cells, b[w].kind = "wire"
               PROVE  /\ W!AdjacentPower(b, w) <= t[w]
                      /\ \A n \in Beside(w) : t[n] - 1 <= t[w] \/ t[n] <= MaxPower - (k + 1)
    BY DEF NoLess
  <2>1. W!AdjacentPower(b, w) <= t[w]
    <3>1. W!AdjacentPower(b, w) <= s[w] /\ s[w] <= t[w]
      BY <1>3 DEF NoLess
    <3>2. W!AdjacentPower(b, w) \in Int /\ s[w] \in Int /\ t[w] \in Int
      BY <1>1, Constants
    <3> QED
      BY <3>1, <3>2
  <2>2. ASSUME NEW n \in Beside(w) PROVE t[n] - 1 <= t[w] \/ t[n] <= MaxPower - (k + 1)
    <3>1. n \in W!Cells /\ t[n] \in 0 .. MaxPower /\ s[n] \in 0 .. MaxPower /\ t[w] \in 0 .. MaxPower
      BY <1>1, <1>4
    <3>2. CASE b[n].kind # "wire"
      <4>1. t[n] = 0
        BY <1>2, <3>1, <3>2 DEF OnlyWires
      <4> QED
        BY <3>1, <4>1, Constants
    <3>3. CASE b[n].kind = "wire" /\ t[n] = s[n]
      <4>1. s[n] - 1 <= t[w]
        BY <1>3
      <4> QED
        BY <3>3, <4>1
    <3>4. ASSUME b[n].kind = "wire", NEW x \in Beside(n), t[n] = s[x] - 1, t[n] # s[n]
          PROVE  t[n] <= MaxPower - (k + 1)
      <4>1. s[n] <= t[n] /\ s[x] \in 0 .. MaxPower
        BY <1>1, <1>3, <1>4, <3>1, <3>4
      <4>2. ~(s[x] - 1 <= s[n])
        BY <3>1, <3>4, <4>1, Constants
      <4>3. s[x] <= MaxPower - k
        BY <3>1, <3>4, <4>2 DEF NoLess
      <4> QED
        BY <3>1, <3>4, <4>1, <4>3, Constants
    <3> QED
      BY <1>3, <3>1, <3>2, <3>3, <3>4
  <2> QED
    BY <2>1, <2>2
<1> QED
  BY <1>2, <1>5, <1>6 DEF t

\* After all rounds every wire has what its sources and neighbours leave it.
LEMMA StrengthSettled ==
  ASSUME NEW b \in Worlds, NEW o, NEW r, W!Cells \subseteq W!Box(o, r)
  PROVE  /\ NoMore(b, W!Strength(b, o, r)) /\ NoLess(b, W!Strength(b, o, r), MaxPower)
         /\ OnlyWires(b, W!Strength(b, o, r))
<1>1. PICK g : W!Strength(b, o, r) = g[MaxPower] /\ Rounds(g, b, W!Box(o, r))
  BY StrengthExists
<1> DEFINE S == {k \in 0 .. MaxPower :
                   NoMore(b, g[k]) /\ NoLess(b, g[k], k) /\ OnlyWires(b, g[k])}
<1>2. 0 \in S
  BY <1>1, FedSettled, Constants DEF Rounds
<1>3. ASSUME NEW k \in 0 .. (MaxPower - 1), k \in S PROVE k + 1 \in S
  <2>1. k + 1 \in 1 .. MaxPower /\ (k + 1) - 1 = k /\ k \in 0 .. MaxPower /\ k + 1 \in 0 .. MaxPower
    BY Constants
  <2>2. g[k + 1] = Spread(b, g[k]) /\ g[k] \in Strengths
    BY <1>1, <2>1 DEF Rounds
  <2> QED
    BY <1>3, <2>1, <2>2, SpreadSettles
<1> HIDE DEF S
<1>4. MaxPower \in S
  BY <1>2, <1>3, Induction, Constants
<1> QED
  BY <1>1, <1>4 DEF S

LEMMA StrengthType ==
  ASSUME NEW b \in Worlds, NEW o, NEW r
  PROVE  W!Strength(b, o, r) \in Strengths
  BY StrengthExists, Constants DEF Rounds

(***************************************************************************)
(* The scan of the box.                                                    *)
(***************************************************************************)
Wired(b, o, r) ==
  [c \in W!Cells |-> IF b[c].kind = "wire" /\ c \in W!Box(o, r)
                   THEN [b[c] EXCEPT !.power = W!Strength(b, o, r)[c]]
                   ELSE b[c]]

Visited(b, c, box) == IF c \in box THEN [b EXCEPT ![c] = W!Scanned(b, c)] ELSE b

Visits(scan, b, o, r) ==
  /\ scan \in [0 .. LineLength -> Worlds]
  /\ scan[0] = Wired(b, o, r)
  /\ \A c \in 1 .. LineLength : scan[c] = Visited(scan[c - 1], c, W!Box(o, r))

\* Blocks that are alike but for what is switched: whether lamps and comparators
\* are on.
Alike(x, y) ==
  /\ x.kind = y.kind /\ x.side = y.side /\ x.delay = y.delay /\ x.power = y.power
  /\ x.kind \notin {"lamp", "comparator"} => x = y

LEMMA WiredFacts ==
  ASSUME NEW b \in Worlds, NEW o, NEW r
  PROVE  /\ Wired(b, o, r) \in Worlds
         /\ \A c \in W!Cells :
              /\ b[c].kind # "wire" => Wired(b, o, r)[c] = b[c]
              /\ Wired(b, o, r)[c].kind = b[c].kind
              /\ b[c].kind = "wire" /\ c \in W!Box(o, r) =>
                   Wired(b, o, r)[c].power = W!Strength(b, o, r)[c]
<1> DEFINE s == W!Strength(b, o, r)
           w == Wired(b, o, r)
<1>1. s \in Strengths
  BY StrengthType
<1>2. \A c \in W!Cells : w[c] = IF b[c].kind = "wire" /\ c \in W!Box(o, r)
                              THEN [b[c] EXCEPT !.power = s[c]] ELSE b[c]
  BY DEF Wired
<1> HIDE DEF s
<1>3. ASSUME NEW c \in W!Cells
      PROVE  w[c] \in W!Blocks /\ w[c].kind = b[c].kind
             /\ (b[c].kind = "wire" /\ c \in W!Box(o, r) => w[c].power = s[c])
  <2>1. b[c] \in W!Blocks /\ s[c] \in 0 .. MaxPower
    BY <1>1 DEF Worlds, Strengths
  <2> HIDE DEF w
  <2> QED
    BY <1>2, <2>1 DEF W!Blocks
<1>4. w = [c \in W!Cells |-> w[c]]
  BY DEF Wired
<1> HIDE DEF w
<1>5. w \in Worlds
  BY <1>3, <1>4 DEF Worlds
<1> QED
  BY <1>2, <1>3, <1>5 DEF w, s

LEMMA ScannedFacts ==
  ASSUME NEW b \in Worlds, NEW c \in W!Cells
  PROVE  /\ W!Scanned(b, c) \in W!Blocks /\ Alike(W!Scanned(b, c), b[c])
         /\ b[c].kind = "lamp" => W!Scanned(b, c).on = W!LampPowered(b, c)
<1> DEFINE x == b[c]
           lit == W!LampPowered(b, c)
           fed == W!ComparatorInput(b, c) > 0
<1>1. x \in W!Blocks
  BY DEF Worlds
<1>2. lit \in BOOLEAN /\ fed \in BOOLEAN
  BY DEF W!LampPowered
<1>3. W!Scanned(b, c) = CASE x.kind = "lamp" -> [x EXCEPT !.on = lit]
                        [] x.kind = "comparator" -> [x EXCEPT !.on = fed]
                        [] OTHER -> x
  BY DEF W!Scanned
<1> HIDE DEF x, lit, fed
<1>4. CASE x.kind = "lamp"
  BY <1>1, <1>2, <1>3, <1>4 DEF W!Blocks, Alike, x, lit
<1>5. CASE x.kind = "comparator"
  BY <1>1, <1>2, <1>3, <1>5 DEF W!Blocks, Alike, x
<1>6. CASE x.kind \notin {"lamp", "comparator"}
  BY <1>1, <1>2, <1>3, <1>6 DEF Alike, x
<1> QED
  BY <1>4, <1>5, <1>6

LEMMA VisitedFacts ==
  ASSUME NEW b \in Worlds, NEW c \in W!Cells, NEW box
  PROVE  /\ Visited(b, c, box) \in Worlds
         /\ Visited(b, c, box)[c] = IF c \in box THEN W!Scanned(b, c) ELSE b[c]
         /\ \A n \in W!Cells : n # c => Visited(b, c, box)[n] = b[n]
<1>1. W!Scanned(b, c) \in W!Blocks
  BY ScannedFacts
<1> QED
  BY <1>1 DEF Visited, Worlds

LEMMA ScanVisits ==
  ASSUME NEW b \in Worlds, NEW o, NEW r
  PROVE  Visits(W!Scan(b, o, r), b, o, r)
<1> DEFINE box == W!Box(o, r)
           Def(s) ==
             s = [c \in 0 .. LineLength |->
                   IF c = 0
                   THEN [n \in W!Cells |-> IF b[n].kind = "wire" /\ n \in W!Box(o, r)
                                         THEN [b[n] EXCEPT !.power = W!Strength(b, o, r)[n]]
                                         ELSE b[n]]
                   ELSE IF c \in W!Box(o, r)
                        THEN [s[c - 1] EXCEPT ![c] = W!Scanned(s[c - 1], c)]
                        ELSE s[c - 1]]
           scan == CHOOSE s : Def(s)
           F == [p \in Worlds \X (1 .. LineLength) |-> Visited(p[1], p[2], box)]
<1>1. W!Scan(b, o, r) = scan
  BY DEF W!Scan
<1>2. F \in [Worlds \X (1 .. LineLength) -> Worlds]
  BY VisitedFacts DEF W!Cells
<1>3. \A w \in Worlds, c \in 1 .. LineLength : F[<<w, c>>] = Visited(w, c, box)
  OBVIOUS
<1> HIDE DEF F, Def, scan, box
<1>0. \A c \in 1 .. LineLength : c - 1 \in 0 .. LineLength /\ c \in 0 .. LineLength /\ c # 0
  BY Constants
<1>4. PICK g : Unfolds(g, Worlds, Wired(b, o, r), F, LineLength)
  BY <1>2, WiredFacts, Recursion, Constants
<1>5. ASSUME NEW c \in 1 .. LineLength PROVE g[c] = Visited(g[c - 1], c, box)
  <2>1. g[c - 1] \in Worlds
    BY <1>0, <1>4 DEF Unfolds
  <2> QED
    BY <1>3, <1>4, <2>1 DEF Unfolds
<1>6. Def(g)
  <2>1. g = [c \in 0 .. LineLength |-> IF c = 0 THEN Wired(b, o, r) ELSE Visited(g[c - 1], c, box)]
    <3>1. g = [c \in 0 .. LineLength |-> g[c]]
      BY <1>4 DEF Unfolds
    <3>2. \A c \in 0 .. LineLength : g[c] = IF c = 0 THEN Wired(b, o, r) ELSE Visited(g[c - 1], c, box)
      <4>1. \A c \in 0 .. LineLength : c = 0 \/ c \in 1 .. LineLength
        BY Constants
      <4>2. g[0] = Wired(b, o, r)
        BY <1>4 DEF Unfolds
      <4> QED
        BY <1>0, <1>5, <4>1, <4>2
    <3> QED
      BY <3>1, <3>2
  <2> QED
    BY <2>1 DEF Wired, Visited, Def, box
<1>7. Def(scan)
  BY <1>6 DEF scan
<1>8. scan = [c \in 0 .. LineLength |-> IF c = 0 THEN Wired(b, o, r) ELSE Visited(scan[c - 1], c, box)]
  BY <1>7 DEF Wired, Visited, Def, box
<1>9. /\ scan[0] = Wired(b, o, r)
      /\ \A c \in 1 .. LineLength : scan[c] = Visited(scan[c - 1], c, box)
  <2>1. 0 \in 0 .. LineLength
    BY Constants
  <2> QED
    BY <1>0, <1>8, <2>1
<1> DEFINE S == {c \in 0 .. LineLength : scan[c] \in Worlds}
<1>10. \A c \in 0 .. LineLength : c \in S
  <2>1. 0 \in S
    BY <1>9, WiredFacts, Constants
  <2>2. ASSUME NEW c \in 0 .. (LineLength - 1), c \in S PROVE c + 1 \in S
    <3>1. c + 1 \in 1 .. LineLength /\ (c + 1) - 1 = c /\ c + 1 \in W!Cells /\ c + 1 \in 0 .. LineLength
      BY Constants DEF W!Cells
    <3>2. scan[c + 1] = Visited(scan[c], c + 1, box)
      BY <1>9, <3>1
    <3> QED
      BY <2>2, <3>1, <3>2, VisitedFacts, Constants
  <2> HIDE DEF S
  <2> QED
    BY <2>1, <2>2, Induction, Constants
<1>11. scan \in [0 .. LineLength -> Worlds]
  BY <1>8, <1>10
<1> QED
  BY <1>1, <1>9, <1>11 DEF Visits, box

\* The scan changes a cell when it comes to it, and never else.
LEMMA ScanFacts ==
  ASSUME NEW b \in Worlds, NEW o, NEW r, NEW scan, Visits(scan, b, o, r)
  PROVE  /\ \A c \in W!Cells : scan[c][c] = IF c \in W!Box(o, r) THEN W!Scanned(scan[c - 1], c)
                                          ELSE Wired(b, o, r)[c]
         /\ \A k \in 0 .. LineLength, c \in W!Cells :
              scan[k][c] = IF c > k THEN Wired(b, o, r)[c] ELSE scan[c][c]
<1> DEFINE w == Wired(b, o, r)
           S == {k \in 0 .. LineLength :
                   \A c \in W!Cells : scan[k][c] = IF c > k THEN w[c] ELSE scan[c][c]}
<1> HIDE DEF w
<1>1. \A k \in 0 .. LineLength : scan[k] \in Worlds
  BY DEF Visits
<1>2. ASSUME NEW k \in 0 .. (LineLength - 1)
      PROVE  /\ k + 1 \in W!Cells /\ (k + 1) - 1 = k /\ k \in 0 .. LineLength
             /\ scan[k + 1][k + 1] = IF k + 1 \in W!Box(o, r) THEN W!Scanned(scan[k], k + 1)
                                     ELSE scan[k][k + 1]
             /\ \A n \in W!Cells : n # k + 1 => scan[k + 1][n] = scan[k][n]
  <2>1. k + 1 \in 1 .. LineLength /\ (k + 1) - 1 = k /\ k \in 0 .. LineLength /\ k + 1 \in W!Cells
    BY Constants DEF W!Cells
  <2>2. scan[k + 1] = Visited(scan[k], k + 1, W!Box(o, r))
    BY <2>1 DEF Visits
  <2> QED
    BY <1>1, <2>1, <2>2, VisitedFacts
<1>3. \A k \in 0 .. LineLength : k \in S
  <2>1. 0 \in S
    <3>1. scan[0] = w
      BY DEF Visits, w
    <3> QED
      BY <3>1, Constants DEF W!Cells
  <2>2. ASSUME NEW k \in 0 .. (LineLength - 1), k \in S PROVE k + 1 \in S
    <3>1. ASSUME NEW c \in W!Cells
          PROVE  scan[k + 1][c] = IF c > k + 1 THEN w[c] ELSE scan[c][c]
      <4>1. CASE c = k + 1
        BY <4>1, Constants
      <4>2. CASE c # k + 1
        <5>1. scan[k + 1][c] = scan[k][c]
          BY <1>2, <4>2
        <5>2. c > k + 1 <=> c > k
          BY <4>2, Constants DEF W!Cells
        <5> QED
          BY <2>2, <5>1, <5>2
      <4> QED
        BY <4>1, <4>2
    <3> QED
      BY <3>1, Constants
  <2> HIDE DEF S
  <2> QED
    BY <2>1, <2>2, Induction, Constants
<1>4. ASSUME NEW c \in W!Cells
      PROVE scan[c][c] = IF c \in W!Box(o, r) THEN W!Scanned(scan[c - 1], c) ELSE w[c]
  <2>1. c - 1 \in 0 .. (LineLength - 1) /\ (c - 1) + 1 = c /\ c - 1 \in 0 .. LineLength /\ c > c - 1
    BY Constants DEF W!Cells
  <2>2. scan[c - 1][c] = w[c]
    BY <1>3, <2>1
  <2>3. scan[(c - 1) + 1][(c - 1) + 1] =
          IF (c - 1) + 1 \in W!Box(o, r) THEN W!Scanned(scan[c - 1], (c - 1) + 1)
          ELSE scan[c - 1][(c - 1) + 1]
    BY <1>2, <2>1
  <2> QED
    BY <2>1, <2>2, <2>3
<1> QED
  BY <1>3, <1>4 DEF w

(***************************************************************************)
(* What is read off a world.                                               *)
(***************************************************************************)
\* The same sources, feeding the same cells.
SameSources(b, d) ==
  \A n \in W!Cells :
    /\ b[n].kind = d[n].kind
    /\ b[n].kind \in {"lever", "repeater", "comparator"} => b[n] = d[n]
    /\ b[n].kind = "comparator" => W!ComparatorInput(b, n) = W!ComparatorInput(d, n)

\* The same but for which lamps are on.
SameButLamps(b, d) ==
  \A n \in W!Cells : b[n] = d[n] \/ (b[n].kind = "lamp" /\ d[n].kind = "lamp")

LEMMA SourcesFeedTheSame ==
  ASSUME NEW b \in Worlds, NEW d \in Worlds, SameSources(b, d)
  PROVE  /\ \A n : W!SourcePower(b, n) = W!SourcePower(d, n)
         /\ \A w : W!AdjacentPower(b, w) = W!AdjacentPower(d, w)
<1>1. \A n : W!At(b, n).kind = W!At(d, n).kind
  BY DEF W!At, SameSources
<1>2. \A n : W!At(b, n).kind \in {"lever", "repeater", "comparator"} => W!At(b, n) = W!At(d, n)
  BY AirIsBlock DEF W!At, SameSources
<1>3. \A n : W!At(b, n).kind = "comparator" => W!ComparatorInput(b, n) = W!ComparatorInput(d, n)
  BY AirIsBlock DEF W!At, SameSources
<1>4. ASSUME NEW n PROVE W!SourcePower(b, n) = W!SourcePower(d, n)
  <2> DEFINE i == W!At(b, n)
             j == W!At(d, n)
  <2>1. /\ i.kind = j.kind
        /\ i.kind \in {"lever", "repeater", "comparator"} => i = j
        /\ i.kind = "comparator" => W!ComparatorInput(b, n) = W!ComparatorInput(d, n)
    BY <1>1, <1>2, <1>3
  <2>2. W!SourcePower(b, n) = CASE i.kind \in {"lever", "repeater"} /\ i.on -> MaxPower
                              [] i.kind = "comparator" /\ i.on ->
                                   W!Largest({1, W!ComparatorInput(b, n)})
                              [] OTHER -> 0
    BY DEF W!SourcePower
  <2>3. W!SourcePower(d, n) = CASE j.kind \in {"lever", "repeater"} /\ j.on -> MaxPower
                              [] j.kind = "comparator" /\ j.on ->
                                   W!Largest({1, W!ComparatorInput(d, n)})
                              [] OTHER -> 0
    BY DEF W!SourcePower
  <2> HIDE DEF i, j
  <2>4. CASE i.kind \in {"lever", "repeater"}
    BY <2>1, <2>2, <2>3, <2>4
  <2>5. CASE i.kind = "comparator"
    BY <2>1, <2>2, <2>3, <2>5
  <2>6. CASE i.kind \notin {"lever", "repeater", "comparator"}
    BY <2>1, <2>2, <2>3, <2>6
  <2> QED
    BY <2>4, <2>5, <2>6
<1>5. ASSUME NEW w PROVE W!AdjacentPower(b, w) = W!AdjacentPower(d, w)
  <2>1. \A n : (W!At(b, n).kind \in {"repeater", "comparator"} => n - b[n].side = w)
                 <=> (W!At(d, n).kind \in {"repeater", "comparator"} => n - d[n].side = w)
    <3>1. \A n : W!At(b, n).kind \in {"repeater", "comparator"} => b[n] = d[n]
      BY AirIsBlock DEF W!At, SameSources
    <3> QED
      BY <1>1, <3>1
  <2>2. Feeders(b, w) = Feeders(d, w)
    BY <2>1 DEF Feeders
  <2>3. {W!SourcePower(b, n) : n \in Feeders(b, w)} = {W!SourcePower(d, n) : n \in Feeders(d, w)}
    BY <1>4, <2>2
  <2> QED
    BY <2>3 DEF W!AdjacentPower, Feeders
<1> QED
  BY <1>4, <1>5

LEMMA SameReadings ==
  ASSUME NEW b \in Worlds, NEW d \in Worlds, SameButLamps(b, d)
  PROVE  /\ \A c \in W!Cells : b[c] = d[c] => W!ComparatorInput(b, c) = W!ComparatorInput(d, c)
         /\ \A c : W!PoweredAt(b, c) <=> W!PoweredAt(d, c)
         /\ \A c : W!LampPowered(b, c) <=> W!LampPowered(d, c)
         /\ \A c \in W!Cells : b[c] = d[c] => (W!RepeaterPowered(b, c) <=> W!RepeaterPowered(d, c))
<1>1. \A n : W!At(b, n) = W!At(d, n) \/ (W!At(b, n).kind = "lamp" /\ W!At(d, n).kind = "lamp")
  BY DEF W!At, SameButLamps
<1>2. ASSUME NEW c \in W!Cells, b[c] = d[c]
      PROVE W!ComparatorInput(b, c) = W!ComparatorInput(d, c)
  <2> DEFINE i == W!At(b, c + b[c].side)
             j == W!At(d, c + d[c].side)
  <2>1. i = j \/ (i.kind = "lamp" /\ j.kind = "lamp")
    BY <1>1, <1>2
  <2>2. W!ComparatorInput(b, c) = CASE i.kind = "wire" -> i.power
                                  [] i.kind \in {"lever", "repeater"} /\ i.on -> MaxPower
                                  [] OTHER -> 0
    BY DEF W!ComparatorInput
  <2>3. W!ComparatorInput(d, c) = CASE j.kind = "wire" -> j.power
                                  [] j.kind \in {"lever", "repeater"} /\ j.on -> MaxPower
                                  [] OTHER -> 0
    BY DEF W!ComparatorInput
  <2> HIDE DEF i, j
  <2> QED
    BY <2>1, <2>2, <2>3
<1>3. SameSources(b, d)
  <2>1. ASSUME NEW n \in W!Cells
        PROVE  /\ b[n].kind = d[n].kind
               /\ b[n].kind \in {"lever", "repeater", "comparator"} => b[n] = d[n]
               /\ b[n].kind = "comparator" => W!ComparatorInput(b, n) = W!ComparatorInput(d, n)
    <3>1. b[n] = d[n] \/ (b[n].kind = "lamp" /\ d[n].kind = "lamp")
      BY DEF SameButLamps
    <3> QED
      BY <1>2, <3>1
  <2> QED
    BY <2>1 DEF SameSources
<1>4. \A n : W!SourcePower(b, n) = W!SourcePower(d, n)
  BY <1>3, SourcesFeedTheSame
<1>5. \A n : (W!At(b, n).kind = "wire" /\ W!At(b, n).power > 0)
               <=> (W!At(d, n).kind = "wire" /\ W!At(d, n).power > 0)
  BY <1>1
<1>6. \A c : W!PoweredAt(b, c) <=> W!PoweredAt(d, c)
  BY <1>4, <1>5 DEF W!PoweredAt
<1>7. \A c : W!LampPowered(b, c) <=> W!LampPowered(d, c)
  BY <1>6 DEF W!LampPowered
<1>8. \A c \in W!Cells : b[c] = d[c] => (W!RepeaterPowered(b, c) <=> W!RepeaterPowered(d, c))
  BY <1>6 DEF W!RepeaterPowered
<1> QED
  BY <1>2, <1>6, <1>7, <1>8

(***************************************************************************)
(* What recomputing a box that holds all cells makes of a world.           *)
(***************************************************************************)
\* The wires beside a cell.
Wires(b, c) == {n \in {c - 1, c + 1} : W!At(b, n).kind = "wire"}

\* CurrentIsTrue and RepeatersCatchUp of any world and schedule.
TrueCurrent(b) ==
  \A c \in W!Cells :
    /\ b[c].kind = "wire" =>
         b[c].power = W!Largest({W!AdjacentPower(b, c)} \cup
                              {W!At(b, n).power - 1 : n \in Wires(b, c)})
    /\ b[c].kind = "lamp" => (b[c].on <=> W!LampPowered(b, c))

Behind(b, c) == b[c].kind = "repeater" /\ W!RepeaterPowered(b, c) # b[c].on

Scheduled(pd, c, on) == \E i \in DOMAIN pd : pd[i].cell = c /\ pd[i].on = on

AllScheduled(b, pd) == \A c \in W!Cells : Behind(b, c) => Scheduled(pd, c, ~b[c].on)

\* The comparators of b are what their inputs make them.
Steady(b, after) ==
  \A c \in W!Cells :
    b[c].kind = "comparator" =>
      after[c] = b[c] /\ W!ComparatorInput(after, c) = W!ComparatorInput(b, c)

LEMMA ScanKinds ==
  ASSUME NEW b \in Worlds, NEW o, NEW r, NEW scan, Visits(scan, b, o, r),
         W!Cells \subseteq W!Box(o, r)
  PROVE  \A c \in W!Cells :
           /\ scan[LineLength][c] = W!Scanned(scan[c - 1], c)
           /\ scan[c - 1] \in Worlds
           /\ scan[c - 1][c] = Wired(b, o, r)[c]
           /\ Alike(scan[LineLength][c], Wired(b, o, r)[c])
           /\ Wired(b, o, r)[c].kind = "lamp" =>
                scan[LineLength][c].on = W!LampPowered(scan[c - 1], c)
<1> TAKE c \in W!Cells
<1>1. c - 1 \in 0 .. LineLength /\ LineLength \in 0 .. LineLength /\ c > c - 1 /\ ~(c > LineLength)
  BY Constants DEF W!Cells
<1>2. scan[LineLength][c] = W!Scanned(scan[c - 1], c)
  BY <1>1, ScanFacts
<1>3. scan[c - 1][c] = Wired(b, o, r)[c]
  BY <1>1, ScanFacts
<1>4. scan[c - 1] \in Worlds
  BY <1>1 DEF Visits
<1> QED
  BY <1>2, <1>3, <1>4, ScannedFacts

LEMMA ScanSettles ==
  ASSUME NEW b \in Worlds, NEW o, NEW r, NEW scan, Visits(scan, b, o, r),
         W!Cells \subseteq W!Box(o, r), Steady(b, scan[LineLength])
  PROVE  /\ \A k \in 0 .. LineLength : SameButLamps(scan[k], scan[LineLength])
         /\ SameSources(b, scan[LineLength])
<1> DEFINE after == scan[LineLength]
           w == Wired(b, o, r)
<1> HIDE DEF w
<1>1. ASSUME NEW c \in W!Cells
      PROVE  /\ Alike(after[c], w[c]) /\ w[c].kind = b[c].kind
             /\ b[c].kind # "wire" => w[c] = b[c]
             /\ b[c].kind = "comparator" => after[c] = b[c]
    BY ScanKinds, WiredFacts DEF Steady, w
<1>2. ASSUME NEW k \in 0 .. LineLength, NEW c \in W!Cells
      PROVE  scan[k][c] = after[c] \/ (scan[k][c].kind = "lamp" /\ after[c].kind = "lamp")
  <2>1. LineLength \in 0 .. LineLength /\ ~(c > LineLength)
    BY Constants DEF W!Cells
  <2>2. after[c] = scan[c][c]
    BY <2>1, ScanFacts
  <2>3. scan[k][c] = IF c > k THEN w[c] ELSE scan[c][c]
    BY ScanFacts DEF w
  <2> HIDE DEF after
  <2>4. CASE c > k
    BY <1>1, <2>3, <2>4 DEF Alike
  <2>5. CASE ~(c > k)
    BY <2>2, <2>3, <2>5
  <2> QED
    BY <2>4, <2>5
<1>3. \A k \in 0 .. LineLength : SameButLamps(scan[k], after)
  BY <1>2 DEF SameButLamps
<1>4. SameSources(b, after)
  <2>1. ASSUME NEW n \in W!Cells
        PROVE  /\ b[n].kind = after[n].kind
               /\ b[n].kind \in {"lever", "repeater", "comparator"} => b[n] = after[n]
               /\ b[n].kind = "comparator" => W!ComparatorInput(b, n) = W!ComparatorInput(after, n)
    <3>1. b[n].kind = "comparator" => W!ComparatorInput(b, n) = W!ComparatorInput(after, n)
      BY DEF Steady
    <3> HIDE DEF after
    <3> QED
      BY <1>1, <3>1 DEF Alike
  <2> QED
    BY <2>1 DEF SameSources
<1> QED
  BY <1>3, <1>4

\* The wires carry what is left to them, the lamps show it, and a repeater is
\* asked for a flip where it does not show its input.
LEMMA ScanIsTrue ==
  ASSUME NEW b \in Worlds, NEW o, NEW r, NEW scan, Visits(scan, b, o, r),
         W!Cells \subseteq W!Box(o, r), Steady(b, scan[LineLength])
  PROVE  /\ TrueCurrent(scan[LineLength])
         /\ \A c \in W!Cells : Behind(scan[LineLength], c) =>
              W!Asks(b, scan[c - 1], c) /\ scan[LineLength][c] = b[c]
<1> DEFINE after == scan[LineLength]
           w == Wired(b, o, r)
           s == W!Strength(b, o, r)
<1>1. \A k \in 0 .. LineLength : SameButLamps(scan[k], after) /\ scan[k] \in Worlds
  BY ScanSettles DEF Visits
<1>2. after \in Worlds
  BY <1>1, Constants
<1>3. \A x : W!AdjacentPower(after, x) = W!AdjacentPower(b, x)
  BY <1>2, ScanSettles, SourcesFeedTheSame
<1>4. s \in Strengths /\ NoMore(b, s) /\ NoLess(b, s, MaxPower)
  BY StrengthType, StrengthSettled
<1>5. ASSUME NEW c \in W!Cells
      PROVE  /\ after[c].kind = b[c].kind
             /\ b[c].kind = "wire" => after[c].power = s[c]
             /\ b[c].kind = "repeater" => after[c] = b[c]
             /\ b[c].kind = "lamp" => after[c].on = W!LampPowered(scan[c - 1], c)
  <2>1. /\ Alike(after[c], w[c])
        /\ w[c].kind = "lamp" => after[c].on = W!LampPowered(scan[c - 1], c)
    BY ScanKinds
  <2>2. /\ b[c].kind # "wire" => w[c] = b[c]
        /\ w[c].kind = b[c].kind
        /\ b[c].kind = "wire" => w[c].power = s[c]
    BY WiredFacts
  <2> HIDE DEF after, w, s
  <2> QED
    BY <2>1, <2>2 DEF Alike
<1> HIDE DEF after, w, s
<1>6. \A c \in W!Cells : c - 1 \in 0 .. LineLength
  BY Constants DEF W!Cells
<1>7. ASSUME NEW c \in W!Cells, after[c].kind = "wire"
      PROVE  after[c].power = W!Largest({W!AdjacentPower(after, c)} \cup
                                      {W!At(after, n).power - 1 : n \in Wires(after, c)})
  <2> DEFINE a == W!AdjacentPower(b, c)
             S == {a} \cup {W!At(after, n).power - 1 : n \in Wires(after, c)}
  <2>1. b[c].kind = "wire" /\ after[c].power = s[c]
    BY <1>5, <1>7
  <2>2. s[c] \in 0 .. MaxPower /\ a \in 0 .. MaxPower
    BY <1>4, AdjacentType DEF Strengths
  <2>3. ASSUME NEW n \in Wires(after, c)
        PROVE  /\ n \in Beside(c) /\ b[n].kind = "wire"
               /\ W!At(after, n).power = s[n] /\ s[n] \in 0 .. MaxPower
    <3>1. n \in W!Cells
      BY AirIsBlock DEF Wires, W!At
    <3>2. after[n].kind = "wire"
      BY <3>1 DEF Wires, W!At
    <3> QED
      BY <1>4, <1>5, <3>1, <3>2 DEF Wires, W!At, Beside, Strengths
  <2>4. ASSUME NEW n \in Beside(c), b[n].kind = "wire" PROVE n \in Wires(after, c)
    BY <1>5, <2>4 DEF Wires, W!At, Beside
  <2>5. S \subseteq Int
    BY <2>2, <2>3, Constants
  <2>6. \A n \in S \cup {0} : n <= s[c]
    <3>1. a <= s[c]
      BY <1>4, <2>1 DEF NoLess
    <3>2. ASSUME NEW n \in Wires(after, c) PROVE W!At(after, n).power - 1 <= s[c]
      <4>1. s[n] - 1 <= s[c] \/ s[n] <= MaxPower - MaxPower
        BY <1>4, <2>1, <2>3 DEF NoLess
      <4>2. s[n] \in 0 .. MaxPower /\ W!At(after, n).power = s[n]
        BY <2>3
      <4> QED
        BY <2>2, <4>1, <4>2, Constants
    <3>3. 0 <= s[c]
      BY <2>2, Constants
    <3> QED
      BY <3>1, <3>2, <3>3
  <2>7. s[c] \in S
    <3>1. CASE s[c] <= a
      <4>1. a <= s[c]
        BY <1>4, <2>1 DEF NoLess
      <4>2. s[c] = a
        BY <2>2, <3>1, <4>1, Constants
      <4> QED
        BY <4>2
    <3>2. ASSUME NEW n \in Beside(c), b[n].kind = "wire", s[c] <= s[n] - 1 PROVE s[c] \in S
      <4>1. n \in Wires(after, c)
        BY <2>4, <3>2
      <4>2. W!At(after, n).power = s[n] /\ s[n] \in 0 .. MaxPower
        BY <2>3, <4>1
      <4>3. s[n] - 1 \in S
        BY <4>1, <4>2
      <4>4. s[n] - 1 <= s[c]
        BY <2>6, <4>3
      <4>5. s[c] = s[n] - 1
        BY <2>2, <3>2, <4>2, <4>4, Constants
      <4> QED
        BY <4>3, <4>5
    <3> QED
      BY <1>4, <2>1, <3>1, <3>2 DEF NoMore
  <2> HIDE DEF S
  <2>8. W!Largest(S) = s[c]
    BY <2>5, <2>6, <2>7, LargestIs
  <2> QED
    BY <1>3, <2>1, <2>8 DEF S
<1>8. ASSUME NEW c \in W!Cells, after[c].kind = "lamp"
      PROVE  after[c].on <=> W!LampPowered(after, c)
  <2>1. after[c].on = W!LampPowered(scan[c - 1], c)
    BY <1>5, <1>8
  <2>2. W!LampPowered(scan[c - 1], c) <=> W!LampPowered(after, c)
    BY <1>1, <1>2, <1>6, SameReadings
  <2> QED
    BY <2>1, <2>2
<1>9. ASSUME NEW c \in W!Cells, Behind(after, c)
      PROVE  W!Asks(b, scan[c - 1], c) /\ after[c] = b[c]
  <2>1. b[c].kind = "repeater" /\ after[c] = b[c]
    BY <1>5, <1>9 DEF Behind
  <2>2. scan[c - 1][c] = after[c]
    <3>1. SameButLamps(scan[c - 1], after)
      BY <1>1, <1>6
    <3> QED
      BY <2>1, <3>1 DEF SameButLamps
  <2>3. W!RepeaterPowered(scan[c - 1], c) <=> W!RepeaterPowered(after, c)
    BY <1>1, <1>2, <1>6, <2>2, SameReadings
  <2>4. W!RepeaterPowered(scan[c - 1], c) = W!RepeaterPowered(after, c)
    BY <2>3 DEF W!RepeaterPowered, W!PoweredAt
  <2> QED
    BY <1>9, <2>1, <2>4 DEF W!Asks, Behind
<1> QED
  BY <1>7, <1>8, <1>9 DEF TrueCurrent, after

(***************************************************************************)
(* The schedule.                                                           *)
(***************************************************************************)
LEMMA EnqueueFacts ==
  ASSUME NEW pd \in Seq(W!Flips), NEW f \in W!Flips
  PROVE  /\ W!Enqueue(pd, f) \in Seq(W!Flips)
         /\ \A c, on : Scheduled(pd, c, on) => Scheduled(W!Enqueue(pd, f), c, on)
         /\ Scheduled(W!Enqueue(pd, f), f.cell, f.on)
<1> DEFINE same == {i \in DOMAIN pd : pd[i].cell = f.cell /\ pd[i].on = f.on}
           q == [i \in DOMAIN pd |-> IF i \in same THEN f ELSE pd[i]]
<1>1. CASE same = {}
  <2>1. W!Enqueue(pd, f) = Append(pd, f)
    BY <1>1 DEF W!Enqueue
  <2> DEFINE a == Append(pd, f)
  <2>2. /\ a \in Seq(W!Flips) /\ DOMAIN a = 1 .. (Len(pd) + 1) /\ DOMAIN pd = 1 .. Len(pd)
        /\ Len(pd) \in Nat
        /\ \A i \in 1 .. Len(pd) : a[i] = pd[i]
        /\ a[Len(pd) + 1] = f
    OBVIOUS
  <2> HIDE DEF a
  <2>3. \A c, on : Scheduled(pd, c, on) => Scheduled(a, c, on)
    <3>1. \A i \in DOMAIN pd : i \in DOMAIN a /\ a[i] = pd[i]
      BY <2>2
    <3> QED
      BY <3>1 DEF Scheduled
  <2>4. Scheduled(a, f.cell, f.on)
    <3>1. Len(pd) + 1 \in DOMAIN a
      BY <2>2
    <3> QED
      BY <2>2, <3>1 DEF Scheduled
  <2> QED
    BY <2>1, <2>2, <2>3, <2>4 DEF a
<1>2. CASE same # {}
  <2>1. W!Enqueue(pd, f) = q
    BY <1>2 DEF W!Enqueue
  <2>2. DOMAIN q = DOMAIN pd /\ \A i \in DOMAIN pd : q[i] = IF i \in same THEN f ELSE pd[i]
    OBVIOUS
  <2>3. \A i \in same : i \in DOMAIN pd /\ pd[i].cell = f.cell /\ pd[i].on = f.on
    OBVIOUS
  <2>4. q \in Seq(W!Flips)
    <3>1. q \in [1 .. Len(pd) -> W!Flips]
      OBVIOUS
    <3>2. Len(pd) \in Nat
      OBVIOUS
    <3> HIDE DEF q
    <3> QED
      BY <3>1, <3>2
  <2>5. PICK k : k \in same
    BY <1>2
  <2> HIDE DEF q, same
  <2>6. \A i \in DOMAIN pd : q[i].cell = pd[i].cell /\ q[i].on = pd[i].on
    BY <2>2, <2>3
  <2>7. \A c, on : Scheduled(pd, c, on) => Scheduled(q, c, on)
    BY <2>2, <2>6 DEF Scheduled
  <2>8. Scheduled(q, f.cell, f.on)
    BY <2>2, <2>3, <2>5 DEF Scheduled
  <2> QED
    BY <2>1, <2>4, <2>7, <2>8
<1> QED
  BY <1>1, <1>2

LEMMA FlipOfType ==
  ASSUME NEW b \in Worlds, NEW c \in W!Cells
  PROVE  W!FlipOf(b, c) \in W!Flips /\ W!FlipOf(b, c).cell = c /\ W!FlipOf(b, c).on = ~b[c].on
<1>1. b[c] \in W!Blocks
  BY DEF Worlds
<1> QED
  BY <1>1 DEF W!FlipOf, W!Flips, W!Blocks

\* The schedule when one more cell has been looked at.
Queued(b, scan, box, pd, c) ==
  IF c \in box /\ W!Asks(b, scan[c - 1], c) THEN W!Enqueue(pd, W!FlipOf(b, c)) ELSE pd

LEMMA QueuedFacts ==
  ASSUME NEW b \in Worlds, NEW scan, NEW box, NEW pd \in Seq(W!Flips), NEW c \in W!Cells
  PROVE  /\ Queued(b, scan, box, pd, c) \in Seq(W!Flips)
         /\ \A n, on : Scheduled(pd, n, on) => Scheduled(Queued(b, scan, box, pd, c), n, on)
         /\ c \in box /\ W!Asks(b, scan[c - 1], c) =>
              Scheduled(Queued(b, scan, box, pd, c), c, ~b[c].on)
  BY FlipOfType, EnqueueFacts DEF Queued

LEMMA EnqueuedFacts ==
  ASSUME NEW b \in Worlds, NEW scan, NEW box, NEW pd \in Seq(W!Flips)
  PROVE  /\ W!Enqueued(b, scan, box, pd) \in Seq(W!Flips)
         /\ \A c \in W!Cells \cap box : W!Asks(b, scan[c - 1], c) =>
              Scheduled(W!Enqueued(b, scan, box, pd), c, ~b[c].on)
<1> DEFINE Def(s) ==
             s = [c \in 0 .. LineLength |->
                   IF c = 0 THEN pd
                   ELSE IF c \in box /\ W!Asks(b, scan[c - 1], c)
                        THEN W!Enqueue(s[c - 1], W!FlipOf(b, c))
                        ELSE s[c - 1]]
           after == CHOOSE s : Def(s)
           F == [p \in Seq(W!Flips) \X (1 .. LineLength) |-> Queued(b, scan, box, p[1], p[2])]
<1>1. W!Enqueued(b, scan, box, pd) = after[LineLength]
  BY DEF W!Enqueued
<1>2. F \in [Seq(W!Flips) \X (1 .. LineLength) -> Seq(W!Flips)]
  BY QueuedFacts DEF W!Cells
<1>3. \A q \in Seq(W!Flips), c \in 1 .. LineLength : F[<<q, c>>] = Queued(b, scan, box, q, c)
  OBVIOUS
<1> HIDE DEF F, Def, after
<1>4. PICK g : Unfolds(g, Seq(W!Flips), pd, F, LineLength)
  BY <1>2, Recursion, Constants
<1>5. \A c \in 1 .. LineLength : c - 1 \in 0 .. LineLength /\ c \in 0 .. LineLength /\ c # 0
  BY Constants
<1>6. ASSUME NEW c \in 1 .. LineLength PROVE g[c] = Queued(b, scan, box, g[c - 1], c)
  <2>1. g[c - 1] \in Seq(W!Flips)
    BY <1>4, <1>5 DEF Unfolds
  <2> QED
    BY <1>3, <1>4, <2>1 DEF Unfolds
<1>7. Def(g)
  <2>1. g = [c \in 0 .. LineLength |-> IF c = 0 THEN pd ELSE Queued(b, scan, box, g[c - 1], c)]
    <3>1. g = [c \in 0 .. LineLength |-> g[c]]
      BY <1>4 DEF Unfolds
    <3>2. \A c \in 0 .. LineLength : g[c] = IF c = 0 THEN pd ELSE Queued(b, scan, box, g[c - 1], c)
      <4>1. \A c \in 0 .. LineLength : c = 0 \/ c \in 1 .. LineLength
        BY Constants
      <4>2. g[0] = pd
        BY <1>4 DEF Unfolds
      <4> QED
        BY <1>5, <1>6, <4>1, <4>2
    <3> QED
      BY <3>1, <3>2
  <2> QED
    BY <2>1 DEF Queued, Def
<1>8. Def(after)
  BY <1>7 DEF after
<1>9. after = [c \in 0 .. LineLength |-> IF c = 0 THEN pd ELSE Queued(b, scan, box, after[c - 1], c)]
  BY <1>8 DEF Queued, Def
<1>10. after[0] = pd /\ \A c \in 1 .. LineLength : after[c] = Queued(b, scan, box, after[c - 1], c)
  <2>1. 0 \in 0 .. LineLength
    BY Constants
  <2> QED
    BY <1>5, <1>9, <2>1
<1> DEFINE T(c, q) == c \in box /\ W!Asks(b, scan[c - 1], c) => Scheduled(q, c, ~b[c].on)
           S == {k \in 0 .. LineLength : after[k] \in Seq(W!Flips) /\ \A c \in 1 .. k : T(c, after[k])}
<1>11. 0 \in S
  BY <1>10, Constants
<1>12. ASSUME NEW k \in 0 .. (LineLength - 1), k \in S PROVE k + 1 \in S
  <2>1. k + 1 \in 1 .. LineLength /\ (k + 1) - 1 = k /\ k + 1 \in W!Cells /\ k + 1 \in 0 .. LineLength
    BY Constants DEF W!Cells
  <2>2. after[k + 1] = Queued(b, scan, box, after[k], k + 1)
    BY <1>10, <2>1
  <2>3. after[k] \in Seq(W!Flips) /\ \A c \in 1 .. k : T(c, after[k])
    BY <1>12
  <2>4. /\ after[k + 1] \in Seq(W!Flips)
        /\ \A n, on : Scheduled(after[k], n, on) => Scheduled(after[k + 1], n, on)
        /\ T(k + 1, after[k + 1])
    BY <2>1, <2>2, <2>3, QueuedFacts
  <2>5. \A c \in 1 .. k : T(c, after[k + 1])
    BY <2>3, <2>4
  <2>6. \A c \in 1 .. (k + 1) : c \in 1 .. k \/ c = k + 1
    BY Constants
  <2> HIDE DEF T
  <2> QED
    BY <2>1, <2>4, <2>5, <2>6
<1> HIDE DEF S, T
<1>13. \A k \in 0 .. LineLength : k \in S
  <2>1. LineLength \in Nat
    BY Constants
  <2> QED
    BY <1>11, <1>12, <2>1, Induction
<1>14. LineLength \in S
  BY <1>13, Constants
<1> QED
  BY <1>1, <1>14 DEF S, T, W!Cells

(***************************************************************************)
(* States of the world and the schedule.                                   *)
(***************************************************************************)
States == [block : Worlds, pending : Seq(W!Flips), stale : BOOLEAN]

Good(s) == ~s.stale => TrueCurrent(s.block) /\ AllScheduled(s.block, s.pending)

LEMMA RecomputedFacts ==
  ASSUME NEW b \in Worlds, NEW pd \in Seq(W!Flips), NEW o, NEW r
  PROVE  W!Recomputed(b, pd, o, r) \in States /\ Good(W!Recomputed(b, pd, o, r))
<1> DEFINE box == W!Box(o, r)
           scan == W!Scan(b, o, r)
           after == scan[LineLength]
           queue == W!Enqueued(b, scan, box, pd)
           unsure == \/ W!Cells \ box # {}
                     \/ \E c \in W!Cells :
                          /\ b[c].kind = "comparator"
                          /\ \/ after[c] # b[c]
                             \/ W!ComparatorInput(after, c) # W!ComparatorInput(b, c)
           s == W!Recomputed(b, pd, o, r)
<1>1. s.block = after /\ s.pending = queue /\ s.stale = unsure
  BY DEF W!Recomputed
<1>2. s = [block |-> after, pending |-> queue, stale |-> unsure]
  BY DEF W!Recomputed
<1>3. Visits(scan, b, o, r)
  BY ScanVisits
<1>4. queue \in Seq(W!Flips) /\ \A c \in W!Cells \cap box : W!Asks(b, scan[c - 1], c) =>
                                Scheduled(queue, c, ~b[c].on)
  BY EnqueuedFacts
<1>5. unsure \in BOOLEAN
  OBVIOUS
<1>6. ~unsure => W!Cells \subseteq box /\ Steady(b, after)
  BY DEF Steady
<1> HIDE DEF scan, queue, unsure, s, box
<1>7. after \in Worlds
  BY <1>3, Constants DEF Visits
<1>8. s \in States
  BY <1>2, <1>4, <1>5, <1>7 DEF States
<1>9. ASSUME ~unsure PROVE TrueCurrent(after) /\ AllScheduled(after, queue)
  <2>1. /\ TrueCurrent(after)
        /\ \A c \in W!Cells : Behind(after, c) => W!Asks(b, scan[c - 1], c) /\ after[c] = b[c]
    BY <1>3, <1>6, <1>9, ScanIsTrue DEF box
  <2> HIDE DEF after
  <2>2. ASSUME NEW c \in W!Cells, Behind(after, c) PROVE Scheduled(queue, c, ~after[c].on)
    BY <1>4, <1>6, <1>9, <2>1, <2>2
  <2> QED
    BY <2>1, <2>2 DEF AllScheduled
<1> QED
  BY <1>1, <1>8, <1>9 DEF Good, s

(***************************************************************************)
(* The flips that are due.                                                 *)
(***************************************************************************)
\* Entries of the schedule when a tick has passed.
Elapsed == [cell : W!Cells, on : BOOLEAN, side : W!Sides, delay : 1 .. MaxDelay,
            left : 0 .. (MaxDelay - 1)]

Effective(b, f) == b[f.cell].kind = "repeater" /\ b[f.cell].on # f.on

LEMMA FlipFacts ==
  ASSUME NEW s \in States, NEW f \in Elapsed
  PROVE  /\ W!Flip(s, f) \in States
         /\ IF Effective(s.block, f) THEN Good(W!Flip(s, f)) ELSE W!Flip(s, f) = s
<1> DEFINE b == [s.block EXCEPT ![f.cell].on = f.on, ![f.cell].side = f.side,
                                ![f.cell].delay = f.delay]
<1>1. CASE ~Effective(s.block, f)
  <2>1. W!Flip(s, f) = s
    BY <1>1 DEF W!Flip, Effective
  <2> QED
    BY <1>1, <2>1
<1>2. CASE Effective(s.block, f)
  <2>1. W!Flip(s, f) = W!Recomputed(b, s.pending, f.cell, BoxRadius)
    BY <1>2 DEF W!Flip, Effective
  <2>2. b \in Worlds
    <3> DEFINE b1 == [s.block EXCEPT ![f.cell].on = f.on]
               b2 == [b1 EXCEPT ![f.cell].side = f.side]
               b3 == [b2 EXCEPT ![f.cell].delay = f.delay]
    <3>1. /\ s.block \in Worlds /\ f.cell \in W!Cells /\ f.on \in BOOLEAN
          /\ f.side \in W!Sides /\ f.delay \in 1 .. MaxDelay
      BY DEF States, Elapsed
    <3>2. b1 \in Worlds
      BY <3>1 DEF Worlds, W!Blocks
    <3>3. b2 \in Worlds
      <4> HIDE DEF b1
      <4> QED
        BY <3>1, <3>2 DEF Worlds, W!Blocks
    <3>4. b3 \in Worlds
      <4> HIDE DEF b2
      <4> QED
        BY <3>1, <3>3 DEF Worlds, W!Blocks
    <3>5. b = b3
      OBVIOUS
    <3> QED
      BY <3>4, <3>5
  <2>3. s.pending \in Seq(W!Flips)
    BY DEF States
  <2> HIDE DEF b
  <2> QED
    BY <1>2, <2>1, <2>2, <2>3, RecomputedFacts
<1> QED
  BY <1>1, <1>2

LEMMA FlippedFacts ==
  ASSUME NEW s \in States, NEW fs \in Seq(Elapsed)
  PROVE  /\ W!Flipped(s, fs) \in States
         /\ \/ Good(W!Flipped(s, fs))
            \/ /\ W!Flipped(s, fs) = s
               /\ \A i \in 1 .. Len(fs) : fs[i].left <= 0 => ~Effective(s.block, fs[i])
<1> DEFINE N == Len(fs)
           Turned(t, i) == IF fs[i].left <= 0 THEN W!Flip(t, fs[i]) ELSE t
           Def(a) == a = [i \in 0 .. N |->
                            IF i = 0 THEN s
                            ELSE IF fs[i].left <= 0 THEN W!Flip(a[i - 1], fs[i]) ELSE a[i - 1]]
           after == CHOOSE a : Def(a)
           F == [p \in States \X (1 .. N) |-> Turned(p[1], p[2])]
<1>1. W!Flipped(s, fs) = after[N]
  BY DEF W!Flipped
<1>2. N \in Nat /\ \A i \in 1 .. N : fs[i] \in Elapsed
  OBVIOUS
<1>3. \A t \in States, i \in 1 .. N :
        /\ Turned(t, i) \in States
        /\ \/ Good(Turned(t, i))
           \/ Turned(t, i) = t /\ (fs[i].left <= 0 => ~Effective(t.block, fs[i]))
  BY <1>2, FlipFacts
<1>4. F \in [States \X (1 .. N) -> States]
  BY <1>3
<1>5. \A t \in States, i \in 1 .. N : F[<<t, i>>] = Turned(t, i)
  OBVIOUS
<1> HIDE DEF N, F, Def, after
<1>6. PICK g : Unfolds(g, States, s, F, N)
  BY <1>2, <1>4, Recursion
<1>7. \A i \in 1 .. N : i - 1 \in 0 .. N /\ i \in 0 .. N /\ i # 0
  BY <1>2
<1>8. ASSUME NEW i \in 1 .. N PROVE g[i] = Turned(g[i - 1], i)
  <2>1. g[i - 1] \in States
    BY <1>6, <1>7 DEF Unfolds
  <2> HIDE DEF Turned
  <2> QED
    BY <1>5, <1>6, <2>1 DEF Unfolds
<1>9. Def(g)
  <2>1. g = [i \in 0 .. N |-> IF i = 0 THEN s ELSE Turned(g[i - 1], i)]
    <3>1. g = [i \in 0 .. N |-> g[i]]
      BY <1>6 DEF Unfolds
    <3>2. \A i \in 0 .. N : i = 0 \/ i \in 1 .. N
      BY <1>2
    <3>3. g[0] = s
      BY <1>6 DEF Unfolds
    <3> HIDE DEF Turned
    <3>4. \A i \in 0 .. N : g[i] = IF i = 0 THEN s ELSE Turned(g[i - 1], i)
      BY <1>7, <1>8, <3>2, <3>3
    <3> QED
      BY <3>1, <3>4
  <2> QED
    BY <2>1 DEF Def, N
<1>10. Def(after)
  BY <1>9 DEF after
<1>11. after = [i \in 0 .. N |-> IF i = 0 THEN s ELSE Turned(after[i - 1], i)]
  BY <1>10 DEF Def, N
<1> HIDE DEF Turned
<1>12. after[0] = s /\ \A i \in 1 .. N : after[i] = Turned(after[i - 1], i)
  <2>1. 0 \in 0 .. N
    BY <1>2
  <2> QED
    BY <1>7, <1>11, <2>1
<1> DEFINE Idle(i) == fs[i].left <= 0 => ~Effective(s.block, fs[i])
           Fine(t, k) == \/ Good(t)
                         \/ t = s /\ \A i \in 1 .. k : Idle(i)
           S == {k \in 0 .. N : after[k] \in States /\ Fine(after[k], k)}
<1>13. 0 \in S
  BY <1>2, <1>12
<1>14. ASSUME NEW k \in 0 .. (N - 1), k \in S PROVE k + 1 \in S
  <2>1. k + 1 \in 1 .. N /\ (k + 1) - 1 = k /\ k + 1 \in 0 .. N
    BY <1>2
  <2> DEFINE t == after[k]
             u == after[k + 1]
  <2>2. u = Turned(t, k + 1)
    BY <1>12, <2>1
  <2>3. t \in States /\ Fine(t, k)
    BY <1>14
  <2>4. /\ u \in States
        /\ Good(u) \/ (u = t /\ (fs[k + 1].left <= 0 => ~Effective(t.block, fs[k + 1])))
    BY <1>3, <2>1, <2>2, <2>3
  <2>5. \A i \in 1 .. (k + 1) : i \in 1 .. k \/ i = k + 1
    BY <1>2
  <2> HIDE DEF t, u
  <2>6. Fine(u, k + 1)
    BY <2>3, <2>4, <2>5
  <2> HIDE DEF Fine
  <2> QED
    BY <2>1, <2>4, <2>6 DEF u
<1> HIDE DEF S, Fine
<1>15. \A k \in 0 .. N : k \in S
  BY <1>2, <1>13, <1>14, Induction
<1>16. N \in S
  BY <1>2, <1>15
<1> QED
  BY <1>1, <1>16 DEF S, Fine, N

LEMMA WaitingFacts ==
  ASSUME NEW fs \in Seq(Elapsed)
  PROVE  /\ W!Waiting(fs) \in Seq(W!Flips)
         /\ \A i \in 1 .. Len(fs) : fs[i].left > 0 =>
              Scheduled(W!Waiting(fs), fs[i].cell, fs[i].on)
<1> DEFINE N == Len(fs)
           More(q, i) == IF fs[i].left > 0 THEN Append(q, fs[i]) ELSE q
           Def(a) == a = [i \in 0 .. N |->
                            IF i = 0 THEN <<>>
                            ELSE IF fs[i].left > 0 THEN Append(a[i - 1], fs[i]) ELSE a[i - 1]]
           kept == CHOOSE a : Def(a)
           F == [p \in Seq(W!Flips) \X (1 .. N) |-> More(p[1], p[2])]
<1>1. W!Waiting(fs) = kept[N]
  BY DEF W!Waiting
<1>2. N \in Nat /\ \A i \in 1 .. N : fs[i] \in Elapsed
  OBVIOUS
<1>3. ASSUME NEW q \in Seq(W!Flips), NEW i \in 1 .. N
      PROVE  /\ More(q, i) \in Seq(W!Flips)
             /\ \A c, on : Scheduled(q, c, on) => Scheduled(More(q, i), c, on)
             /\ fs[i].left > 0 => Scheduled(More(q, i), fs[i].cell, fs[i].on)
  <2>1. CASE fs[i].left > 0
    <3> DEFINE f == fs[i]
               a == Append(q, f)
    <3>1. f \in W!Flips
      <4>1. f \in Elapsed
        BY <1>2
      <4>2. f.left \in 1 .. MaxDelay
        BY <2>1, <4>1, Constants DEF Elapsed
      <4> HIDE DEF f
      <4> QED
        BY <4>1, <4>2 DEF Elapsed, W!Flips
    <3>2. More(q, i) = a
      BY <2>1
    <3> HIDE DEF f
    <3>3. /\ a \in Seq(W!Flips) /\ DOMAIN a = 1 .. (Len(q) + 1) /\ DOMAIN q = 1 .. Len(q)
          /\ Len(q) \in Nat
          /\ \A j \in 1 .. Len(q) : a[j] = q[j]
          /\ a[Len(q) + 1] = f
      BY <3>1
    <3> HIDE DEF a
    <3>4. \A j \in DOMAIN q : j \in DOMAIN a /\ a[j] = q[j]
      BY <3>3
    <3>5. Len(q) + 1 \in DOMAIN a
      BY <3>3
    <3>6. \A c, on : Scheduled(q, c, on) => Scheduled(a, c, on)
      BY <3>4 DEF Scheduled
    <3>7. Scheduled(a, f.cell, f.on)
      BY <3>3, <3>5 DEF Scheduled
    <3> QED
      BY <3>2, <3>3, <3>6, <3>7 DEF f
  <2>2. CASE ~(fs[i].left > 0)
    BY <2>2
  <2> QED
    BY <2>1, <2>2
<1>4. F \in [Seq(W!Flips) \X (1 .. N) -> Seq(W!Flips)]
  BY <1>3
<1>5. \A q \in Seq(W!Flips), i \in 1 .. N : F[<<q, i>>] = More(q, i)
  OBVIOUS
<1> HIDE DEF N, F, Def, kept
<1>6. PICK g : Unfolds(g, Seq(W!Flips), <<>>, F, N)
  <2>1. <<>> \in Seq(W!Flips)
    OBVIOUS
  <2> QED
    BY <1>2, <1>4, <2>1, Recursion
<1>7. \A i \in 1 .. N : i - 1 \in 0 .. N /\ i \in 0 .. N /\ i # 0
  BY <1>2
<1>8. ASSUME NEW i \in 1 .. N PROVE g[i] = More(g[i - 1], i)
  <2>1. g[i - 1] \in Seq(W!Flips)
    BY <1>6, <1>7 DEF Unfolds
  <2> HIDE DEF More
  <2> QED
    BY <1>5, <1>6, <2>1 DEF Unfolds
<1>9. Def(g)
  <2>1. g = [i \in 0 .. N |-> IF i = 0 THEN <<>> ELSE More(g[i - 1], i)]
    <3>1. g = [i \in 0 .. N |-> g[i]]
      BY <1>6 DEF Unfolds
    <3>2. \A i \in 0 .. N : i = 0 \/ i \in 1 .. N
      BY <1>2
    <3>3. g[0] = <<>>
      BY <1>6 DEF Unfolds
    <3> HIDE DEF More
    <3>4. \A i \in 0 .. N : g[i] = IF i = 0 THEN <<>> ELSE More(g[i - 1], i)
      BY <1>7, <1>8, <3>2, <3>3
    <3> QED
      BY <3>1, <3>4
  <2> QED
    BY <2>1 DEF Def, N
<1>10. Def(kept)
  BY <1>9 DEF kept
<1>11. kept = [i \in 0 .. N |-> IF i = 0 THEN <<>> ELSE More(kept[i - 1], i)]
  BY <1>10 DEF Def, N
<1> HIDE DEF More
<1>12. kept[0] = <<>> /\ \A i \in 1 .. N : kept[i] = More(kept[i - 1], i)
  <2>1. 0 \in 0 .. N
    BY <1>2
  <2> QED
    BY <1>7, <1>11, <2>1
<1> DEFINE T(i, q) == fs[i].left > 0 => Scheduled(q, fs[i].cell, fs[i].on)
           S == {k \in 0 .. N : kept[k] \in Seq(W!Flips) /\ \A i \in 1 .. k : T(i, kept[k])}
<1>13. 0 \in S
  <2>1. 0 \in 0 .. N /\ \A i \in 1 .. 0 : FALSE
    BY <1>2
  <2>2. kept[0] \in Seq(W!Flips)
    <3>1. <<>> \in Seq(W!Flips)
      OBVIOUS
    <3> QED
      BY <1>12, <3>1
  <2> HIDE DEF T
  <2> QED
    BY <2>1, <2>2
<1>14. ASSUME NEW k \in 0 .. (N - 1), k \in S PROVE k + 1 \in S
  <2>1. k + 1 \in 1 .. N /\ (k + 1) - 1 = k /\ k + 1 \in 0 .. N
    BY <1>2
  <2>2. kept[k + 1] = More(kept[k], k + 1)
    BY <1>12, <2>1
  <2>3. kept[k] \in Seq(W!Flips) /\ \A i \in 1 .. k : T(i, kept[k])
    BY <1>14
  <2>4. /\ kept[k + 1] \in Seq(W!Flips)
        /\ \A c, on : Scheduled(kept[k], c, on) => Scheduled(kept[k + 1], c, on)
        /\ T(k + 1, kept[k + 1])
    BY <1>3, <2>1, <2>2, <2>3
  <2>5. \A i \in 1 .. k : T(i, kept[k + 1])
    BY <2>3, <2>4
  <2>6. \A i \in 1 .. (k + 1) : i \in 1 .. k \/ i = k + 1
    BY <1>2
  <2> HIDE DEF T
  <2> QED
    BY <2>1, <2>4, <2>5, <2>6
<1> HIDE DEF S, T
<1>15. \A k \in 0 .. N : k \in S
  BY <1>2, <1>13, <1>14, Induction
<1>16. N \in S
  BY <1>2, <1>15
<1> QED
  BY <1>1, <1>16 DEF S, T, N

(***************************************************************************)
(* The theorems.                                                           *)
(***************************************************************************)
WiresInv == W!TypeOK /\ W!CurrentIsTrue /\ W!RepeatersCatchUp

World == [block |-> line, pending |-> flips, stale |-> stale]

LEMMA WiresAreGood ==
  WiresInv <=> World \in States /\ Good(World) /\ acts \in 0 .. MaxActs
<1>1. W!TypeOK <=> World \in States /\ acts \in 0 .. MaxActs
  BY DEF W!TypeOK, World, States, Worlds
<1>2. W!CurrentIsTrue <=> (~stale => TrueCurrent(line))
  BY DEF W!CurrentIsTrue, TrueCurrent, Wires
<1>3. W!RepeatersCatchUp <=> (~stale => AllScheduled(line, flips))
  BY DEF W!RepeatersCatchUp, AllScheduled, Behind, Scheduled
<1>4. Good(World) <=> (~stale => TrueCurrent(line) /\ AllScheduled(line, flips))
  BY DEF Good, World
<1> QED
  BY <1>1, <1>2, <1>3, <1>4 DEF WiresInv

LEMMA WiresAreGoodNext ==
  WiresInv' <=> World' \in States /\ Good(World') /\ acts' \in 0 .. MaxActs
<1>1. W!TypeOK' <=> World' \in States /\ acts' \in 0 .. MaxActs
  BY DEF W!TypeOK, World, States, Worlds
<1>2. W!CurrentIsTrue' <=> (~stale' => TrueCurrent(line'))
  BY DEF W!CurrentIsTrue, TrueCurrent, Wires
<1>3. W!RepeatersCatchUp' <=> (~stale' => AllScheduled(line', flips'))
  BY DEF W!RepeatersCatchUp, AllScheduled, Behind, Scheduled
<1>4. Good(World') <=> (~stale' => TrueCurrent(line') /\ AllScheduled(line', flips'))
  BY DEF Good, World
<1> QED
  BY <1>1, <1>2, <1>3, <1>4 DEF WiresInv

LEMMA BecomeIs ==
  ASSUME NEW s \in States, W!Become(s)
  PROVE  World' = s
  BY DEF W!Become, States, World

LEMMA RecomputeStep ==
  ASSUME W!TypeOK, NEW b \in Worlds, NEW c \in W!Cells, NEW r,
         W!Become(W!Recomputed(b, flips, c, r))
  PROVE  World' \in States /\ Good(World')
<1> DEFINE s == W!Recomputed(b, flips, c, r)
<1>1. s \in States /\ Good(s)
  BY RecomputedFacts DEF W!TypeOK
<1> HIDE DEF s
<1>2. W!Become(s)
  BY DEF s
<1>3. World' = s
  BY <1>1, <1>2, BecomeIs
<1> QED
  BY <1>1, <1>3

LEMMA TickStep ==
  ASSUME WiresInv, W!Tick
  PROVE  World' \in States /\ Good(World')
<1> DEFINE fs == [i \in DOMAIN flips |-> [flips[i] EXCEPT !.left = @ - 1]]
           s == [block |-> line, pending |-> W!Waiting(fs), stale |-> stale]
           t == W!Flipped(s, fs)
<1>1. W!TypeOK /\ World \in States /\ Good(World)
  BY WiresAreGood DEF WiresInv
<1>2. DOMAIN flips = 1 .. Len(flips) /\ Len(flips) \in Nat
      /\ \A i \in 1 .. Len(flips) : flips[i] \in W!Flips
  BY <1>1 DEF W!TypeOK
<1>3. fs \in Seq(Elapsed) /\ Len(fs) = Len(flips)
      /\ \A i \in 1 .. Len(flips) : fs[i].cell = flips[i].cell /\ fs[i].on = flips[i].on
  <2>1. ASSUME NEW i \in 1 .. Len(flips)
        PROVE  fs[i] \in Elapsed /\ fs[i].cell = flips[i].cell /\ fs[i].on = flips[i].on
    <3>1. fs[i] = [flips[i] EXCEPT !.left = @ - 1] /\ flips[i] \in W!Flips
      BY <1>2
    <3> HIDE DEF fs
    <3>2. flips[i].left - 1 \in 0 .. (MaxDelay - 1)
      BY <3>1, Constants DEF W!Flips
    <3> QED
      BY <3>1, <3>2 DEF W!Flips, Elapsed
  <2>2. fs = [i \in 1 .. Len(flips) |-> fs[i]]
    BY <1>2
  <2> HIDE DEF fs
  <2>3. fs \in [1 .. Len(flips) -> Elapsed]
    BY <2>1, <2>2
  <2>4. fs \in Seq(Elapsed) /\ Len(fs) = Len(flips)
    BY <1>2, <2>3
  <2> QED
    BY <2>1, <2>4
<1>4. W!Become(t)
  BY DEF W!Tick
<1> HIDE DEF fs
<1>5. s \in States
  BY <1>1, <1>3, WaitingFacts DEF States, W!TypeOK, Worlds
<1>6. /\ t \in States
      /\ \/ Good(t)
         \/ t = s /\ \A i \in 1 .. Len(fs) : fs[i].left <= 0 => ~Effective(s.block, fs[i])
  <2> HIDE DEF s
  <2> QED
    BY <1>3, <1>5, FlippedFacts
<1> HIDE DEF t
<1>7. World' = t
  BY <1>4, <1>6, BecomeIs
<1>8. ASSUME \A i \in 1 .. Len(fs) : fs[i].left <= 0 => ~Effective(line, fs[i])
      PROVE  Good(s)
  <2> SUFFICES ASSUME ~stale PROVE TrueCurrent(line) /\ AllScheduled(line, W!Waiting(fs))
    BY DEF Good
  <2>1. TrueCurrent(line) /\ AllScheduled(line, flips)
    BY <1>1 DEF Good, World
  <2>2. ASSUME NEW c \in W!Cells, Behind(line, c)
        PROVE  Scheduled(W!Waiting(fs), c, ~line[c].on)
    <3>1. PICK i \in DOMAIN flips : flips[i].cell = c /\ flips[i].on = ~line[c].on
      BY <2>1, <2>2 DEF AllScheduled, Scheduled
    <3>2. i \in 1 .. Len(fs) /\ fs[i].cell = c /\ fs[i].on = ~line[c].on
      BY <1>2, <1>3, <3>1
    <3>3. fs[i] \in Elapsed
      BY <1>3, <3>2
    <3>4. Effective(line, fs[i])
      <4>1. line[c].on \in BOOLEAN
        BY <1>1 DEF W!TypeOK, W!Blocks
      <4> QED
        BY <2>2, <3>2, <4>1 DEF Effective, Behind
    <3>5. fs[i].left > 0
      <4>1. fs[i].left \in Int
        BY <3>3, Constants DEF Elapsed
      <4>2. ~(fs[i].left <= 0)
        BY <1>8, <3>2, <3>4
      <4> QED
        BY <4>1, <4>2
    <3> QED
      BY <1>3, <3>2, <3>5, WaitingFacts
  <2> QED
    BY <2>1, <2>2 DEF AllScheduled
<1>9. Good(t)
  <2>1. s.block = line
    OBVIOUS
  <2> HIDE DEF s
  <2> QED
    BY <1>6, <1>8, <2>1
<1> QED
  BY <1>6, <1>7, <1>9

LEMMA WiresInit == W!Init => WiresInv
<1> SUFFICES ASSUME W!Init PROVE WiresInv
  OBVIOUS
<1>1. line = [c \in W!Cells |-> W!Air] /\ flips = <<>> /\ stale = FALSE /\ acts = 0
  BY DEF W!Init
<1>2. W!TypeOK
  <2>1. line \in [W!Cells -> W!Blocks]
    BY <1>1, AirIsBlock
  <2>2. flips \in Seq(W!Flips)
    BY <1>1
  <2>3. acts \in 0 .. MaxActs
    BY <1>1, Constants
  <2> QED
    BY <1>1, <2>1, <2>2, <2>3 DEF W!TypeOK
<1>3. \A c \in W!Cells : line[c].kind = "air"
  BY <1>1, AirIsBlock
<1>4. W!CurrentIsTrue /\ W!RepeatersCatchUp
  BY <1>3 DEF W!CurrentIsTrue, W!RepeatersCatchUp
<1> QED
  BY <1>2, <1>4 DEF WiresInv

LEMMA ActStep ==
  ASSUME WiresInv, W!Act
  PROVE  World' \in States /\ Good(World')
<1>1. W!TypeOK /\ World \in States /\ line \in Worlds
  BY WiresAreGood DEF WiresInv, W!TypeOK, Worlds
<1>2. ASSUME NEW c \in W!Cells, NEW k \in W!Kinds, W!Place(c, k)
      PROVE  World' \in States /\ Good(World')
  <2>1. PICK n \in W!NewBlocks(k) :
          W!Become(W!Recomputed([line EXCEPT ![c] = n], flips, c, BoxRadius))
    BY <1>2 DEF W!Place
  <2>2. n \in W!Blocks
    BY AirIsBlock DEF W!NewBlocks, W!Blocks, W!Sides
  <2>3. [line EXCEPT ![c] = n] \in Worlds
    BY <1>1, <2>2 DEF Worlds
  <2> QED
    BY <1>1, <2>1, <2>3, RecomputeStep
<1>3. ASSUME NEW c \in W!Cells, W!Break(c) PROVE World' \in States /\ Good(World')
  <2>1. [line EXCEPT ![c] = W!Air] \in Worlds
    BY <1>1, AirIsBlock DEF Worlds
  <2> QED
    BY <1>1, <1>3, <2>1, RecomputeStep DEF W!Break
<1>4. ASSUME NEW c \in W!Cells, W!Switch(c) PROVE World' \in States /\ Good(World')
  <2>1. [line EXCEPT ![c].on = ~@] \in Worlds
    BY <1>1 DEF Worlds, W!Blocks
  <2> QED
    BY <1>1, <1>4, <2>1, RecomputeStep DEF W!Switch
<1>5. ASSUME NEW c \in W!Cells, W!Turn(c) PROVE World' \in States /\ Good(World')
  <2>1. (line[c].delay % MaxDelay) + 1 \in 1 .. MaxDelay
    <3>1. line[c].delay \in Int
      BY <1>1, Constants DEF Worlds, W!Blocks
    <3> QED
      BY <3>1, Constants
  <2>2. [line EXCEPT ![c].delay = (@ % MaxDelay) + 1] \in Worlds
    BY <1>1, <2>1 DEF Worlds, W!Blocks
  <2> QED
    BY <1>1, <1>5, <2>2, RecomputeStep DEF W!Turn
<1>6. ASSUME NEW c \in W!Cells, W!Toggle(c) PROVE World' \in States /\ Good(World')
  BY <1>1, <1>6, RecomputeStep DEF W!Toggle
<1>7. ASSUME NEW c \in W!Cells, W!Explode(c) PROVE World' \in States /\ Good(World')
  <2>1. [line EXCEPT ![c] = W!Air] \in Worlds
    BY <1>1, AirIsBlock DEF Worlds
  <2>2. line' \in Worlds /\ flips' \in Seq(W!Flips) /\ stale' = TRUE
    BY <1>1, <1>7, <2>1 DEF W!Explode, W!TypeOK
  <2> QED
    BY <2>2 DEF World, States, Good
<1>8. ASSUME W!Restart PROVE World' \in States /\ Good(World')
  <2>1. line' \in Worlds /\ flips' \in Seq(W!Flips) /\ stale' = TRUE
    BY <1>1, <1>8 DEF W!Restart
  <2> QED
    BY <2>1 DEF World, States, Good
<1> QED
  BY <1>2, <1>3, <1>4, <1>5, <1>6, <1>7, <1>8 DEF W!Act

LEMMA WiresStep == WiresInv /\ [W!Next]_(W!vars) => WiresInv'
<1> SUFFICES ASSUME WiresInv, [W!Next]_(W!vars) PROVE WiresInv'
  OBVIOUS
<1>1. WiresInv' <=> World' \in States /\ Good(World') /\ acts' \in 0 .. MaxActs
  BY WiresAreGoodNext
<1>2. acts \in 0 .. MaxActs
  BY DEF WiresInv, W!TypeOK
<1>3. CASE acts < MaxActs /\ W!Act /\ acts' = acts + 1
  BY <1>1, <1>2, <1>3, ActStep, Constants
<1>4. CASE W!Tick /\ UNCHANGED acts
  BY <1>1, <1>2, <1>4, TickStep
<1>5. CASE UNCHANGED W!vars
  <2>1. World' = World /\ acts' = acts
    BY <1>5 DEF W!vars, World
  <2> QED
    BY <1>1, <2>1, WiresAreGood
<1> QED
  BY <1>3, <1>4, <1>5 DEF W!Next

\* Blocks and schedules have the shape recomputeRedstone() and
\* tickRedstoneSchedules() rely on, on a line of any length.
THEOREM RedstoneTypeCorrect == RedstoneSpec => []RedstoneTypeOK
<1>1. WiresInv => RedstoneTypeOK
  BY DEF WiresInv, RedstoneTypeOK
<1> QED
  BY WiresInit, WiresStep, <1>1, PTL DEF RedstoneSpec, W!Spec

\* With any reach of a current and any radius of the box, what recomputeRedstone()
\* leaves on a line that lies within the box is what the sources give: no wire
\* feeds itself, and none is cut off.  It says nothing of what is left stale.
THEOREM CurrentStaysTrue == RedstoneSpec => []CurrentIsTrue
<1>1. WiresInv => CurrentIsTrue
  BY DEF WiresInv, CurrentIsTrue
<1> QED
  BY WiresInit, WiresStep, <1>1, PTL DEF RedstoneSpec, W!Spec

\* enqueueRedstoneSchedule() and tickRedstoneSchedules() leave no repeater
\* behind its input.
THEOREM NoneLeftBehind == RedstoneSpec => []RepeatersCatchUp
<1>1. WiresInv => RepeatersCatchUp
  BY DEF WiresInv, RepeatersCatchUp
<1> QED
  BY WiresInit, WiresStep, <1>1, PTL DEF RedstoneSpec, W!Spec
=============================================================================
