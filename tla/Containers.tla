------------------------------ MODULE Containers ------------------------------
(***************************************************************************)
(* Chests (src/server/Server.cpp, src/level/Level.cpp): the blocks of the  *)
(* world, the inventories Level::chests_ keeps under block positions, the  *)
(* pairing of two chests into a double one, the windows players have open  *)
(* and what their clients show in them, and hoppers that fill and empty    *)
(* chests.  Everything runs under Server::game_mutex_, so a handler is one *)
(* step; the hazards are tables that have to agree, and clients that act   *)
(* on what they were last shown, and whose writes are under way while the  *)
(* server goes on.                                                         *)
(*                                                                         *)
(* The positions are a row of blocks, and the chests in it face across the *)
(* row, so they pair along it.  The 27 slots of a chest are one slot here, *)
(* and so are those of a survival player (Inventory has more of them); an  *)
(* item is one that does not stack.  A client is honest: it swaps what it  *)
(* shows in a chest and in its player's slot, and tells the server of the  *)
(* one and of the other.  What the server sends is taken in at once: only  *)
(* its order with what the client sends can be told, and that may wait in  *)
(* up as long as it likes.                                                 *)
(***************************************************************************)
EXTENDS Integers, Sequences, FiniteSets, Functions

CONSTANTS Players, Items, Air,
          Length,    \* the row of positions is 1 .. Length
          Facings,   \* directions a chest can face
          MaxMoves   \* bound: moves of all clients together

ASSUME ContainersAssumption ==
  /\ Air \notin Items \cup Facings
  /\ Length \in Nat /\ MaxMoves \in Nat
  /\ IsFiniteSet(Players)

VARIABLES
  block,     \* what is at a position: Air, or a chest and its facing
  chests,    \* Level::chests_: position -> slot and partner
  windows,   \* the window each player has open
  shows,     \* what its client shows in it: position -> item
  hand,      \* what the player has
  holds,     \* what its client shows there
  waiting,   \* a write to that slot waits in pending_txs
  up,        \* a player's writes under way to the server
  hopper,    \* what is in the hopper next to the chests
  dropped,   \* items lying about: how many of each
  untidy,    \* history: a block was changed and its inventory was not, or a
             \* window was written to after one of its chests was broken
  moves      \* what the clients have done, counted for MaxMoves

worldVars == <<block, chests>>
viewVars == <<windows, shows>>
handVars == <<hand, holds, waiting>>
itemVars == <<hopper, dropped>>
vars == <<worldVars, viewVars, handVars, up, itemVars, untidy, moves>>
-----------------------------------------------------------------------------
Positions == 1 .. Length
Unpaired == 0        \* 0x80000000 in the code

Chests == [slot : Items \cup {Air}, pair : Positions \cup {Unpaired}]

\* shared: another window was open on one of its chests; cut: one of its
\* chests was broken since; crossed: it was last shown anew while a write to it
\* was under way (history).
Windows == [left : Positions, right : Positions \cup {Unpaired},
            shared : BOOLEAN, cut : BOOLEAN, crossed : BOOLEAN]

\* A write to a slot of the open window, one to the player's own slot, and one
\* to a window that was closed since.
Messages == [kind : {"chest"}, pos : Positions, item : Items \cup {Air}]
              \cup [kind : {"own"}, item : Items \cup {Air}]
              \cup [kind : {"gone"}]

IsChest(pos) == pos \in Positions /\ block[pos] # Air
NewChest == [slot |-> Air, pair |-> Unpaired]

\* getOrCreateChest().
GetOrCreate(cs, pos) ==
  [q \in DOMAIN cs \cup {pos} |-> IF q \in DOMAIN cs THEN cs[q] ELSE NewChest]

Content(cs, pos) == IF pos \in DOMAIN cs THEN cs[pos].slot ELSE Air

Halves(w) == {w.left, w.right} \ {Unpaired}

Shown(cs, w) == [q \in Halves(w) |-> Content(cs, q)]

Init ==
  /\ block = [pos \in Positions |-> Air]
  /\ chests = << >> /\ windows = << >> /\ shows = << >>
  /\ hand \in {h \in [Players -> Items \cup {Air}] :
                 \A p, q \in Players : h[p] = h[q] => p = q \/ h[p] = Air}
  /\ holds = hand /\ waiting = [p \in Players |-> FALSE]
  /\ up = [p \in Players |-> << >>]
  /\ hopper = Air
  /\ dropped = [i \in Items |-> IF \E p \in Players : hand[p] = i THEN 0 ELSE 1]
  /\ untidy = FALSE /\ moves = 0
-----------------------------------------------------------------------------
(***************************************************************************)
(* Blocks.                                                                 *)
(***************************************************************************)
\* Variant: pairing does not look at the block.
PairableBlind(cs, pos, facing) ==
  pos \notin DOMAIN cs \/ cs[pos].pair = Unpaired

\* A chest that faces the same way and has no partner.
Pairable(cs, pos, facing) ==
  /\ IsChest(pos) /\ block[pos] = facing
  /\ pos \notin DOMAIN cs \/ cs[pos].pair = Unpaired

\* The two inventories are each other's partner.
Paired(cs, a, b) ==
  [GetOrCreate(GetOrCreate(cs, a), b) EXCEPT ![a].pair = b, ![b].pair = a]

\* placeBlock() of a chest: it pairs with the neighbour on the one side, else
\* with the one on the other.
Place(pos, facing) ==
  LET cs == GetOrCreate(chests, pos)
  IN /\ ~IsChest(pos)
     /\ block' = [block EXCEPT ![pos] = facing]
     /\ chests' = IF Pairable(cs, pos - 1, facing) THEN Paired(cs, pos, pos - 1)
                  ELSE IF Pairable(cs, pos + 1, facing) THEN Paired(cs, pos, pos + 1)
                  ELSE cs
     /\ UNCHANGED <<viewVars, handVars, up, itemVars, untidy, moves>>

\* The partner of pos no longer points to it.
Unpair(cs, pos) ==
  [q \in DOMAIN cs |->
     IF q = pos \/ (pos \in DOMAIN cs /\ cs[pos].pair = q /\ cs[q].pair = pos)
     THEN [cs[q] EXCEPT !.pair = Unpaired] ELSE cs[q]]

\* Variant: the inventory stays.
RemovedNot(cs, pos) == cs

\* Variant: the partner is not told.
RemovedAlone(cs, pos) == Restrict(cs, DOMAIN cs \ {pos})

\* removeChest().
Removed(cs, pos) ==
  LET rest == Unpair(cs, pos) IN Restrict(rest, DOMAIN rest \ {pos})

\* Window numbers are not soon used again: a late write to a window that is
\* closed, or that another one took the place of, is ignored.
Voided(S) ==
  [p \in Players |->
     IF p \in S
     THEN [k \in DOMAIN up[p] |->
             IF up[p][k].kind = "chest" THEN [kind |-> "gone"] ELSE up[p][k]]
     ELSE up[p]]

\* More of an item lying about, or less.
Lying(i, n) == [dropped EXCEPT ![i] = @ + n]

\* breakBlock() of a chest: who views it as the left half of a window is thrown
\* out, and what it holds is dropped.
Break(pos) ==
  LET viewers == {p \in DOMAIN windows : windows[p].left = pos}
      rest == DOMAIN windows \ viewers
  IN /\ IsChest(pos)
     /\ block' = [block EXCEPT ![pos] = Air]
     /\ windows' = [p \in rest |->
                      [windows[p] EXCEPT !.cut = @ \/ windows[p].right = pos]]
     /\ shows' = Restrict(shows, rest)
     /\ up' = Voided(viewers)
     /\ dropped' = IF Content(chests, pos) = Air THEN dropped
                   ELSE Lying(Content(chests, pos), 1)
     /\ chests' = Removed(chests, pos)
     /\ UNCHANGED <<handVars, hopper, untidy, moves>>

\* An exploding minecart, or setBlock() by a plugin: the block changes and
\* nothing else.
Explode(pos, b) ==
  /\ block' = [block EXCEPT ![pos] = b]
  /\ untidy' = TRUE
  /\ UNCHANGED <<chests, viewVars, handVars, up, itemVars, moves>>

\* chunkNetworkPayload(): every chest of a chunk that is sent to a client gets
\* an inventory.
SendChunk ==
  LET bare == {pos \in Positions : IsChest(pos)} \ DOMAIN chests
  IN /\ bare # {}
     /\ chests' = [pos \in DOMAIN chests \cup bare |->
                     IF pos \in bare THEN NewChest ELSE chests[pos]]
     /\ UNCHANGED <<block, viewVars, handVars, up, itemVars, untidy, moves>>
-----------------------------------------------------------------------------
(***************************************************************************)
(* Windows.                                                                *)
(***************************************************************************)
\* The window is on this chest already, or on its partner.
AlreadyOpen(p, pos) ==
  /\ p \in DOMAIN windows
  /\ \/ pos \in Halves(windows[p])
     \/ /\ pos \in DOMAIN chests
        /\ chests[pos].pair # Unpaired /\ windows[p].left = chests[pos].pair

\* openChest() in the state in which its chest has an inventory, and in which
\* a partner that is not there any more was forgotten.
Tidied(pos) ==
  LET cs == GetOrCreate(chests, pos)
      partner == cs[pos].pair
  IN IF partner = Unpaired \/ (partner \in DOMAIN cs /\ IsChest(partner))
     THEN cs ELSE Unpair(cs, pos)

\* The half at the higher position is the left one.
WindowOn(pos, partner) ==
  IF partner = Unpaired THEN [left |-> pos, right |-> Unpaired]
  ELSE [left |-> IF partner > pos THEN partner ELSE pos,
        right |-> IF partner > pos THEN pos ELSE partner]

Open(p, pos) ==
  LET cs == Tidied(pos)
      w  == WindowOn(pos, cs[pos].pair)
      others == {q \in DOMAIN windows \ {p} : Halves(windows[q]) \cap Halves(w) # {}}
  IN /\ IsChest(pos) /\ ~AlreadyOpen(p, pos)
     /\ chests' = cs
     /\ windows' = [q \in DOMAIN windows \cup {p} |->
          IF q = p THEN [left |-> w.left, right |-> w.right,
                         shared |-> others # {}, cut |-> FALSE, crossed |-> FALSE]
          ELSE [windows[q] EXCEPT !.shared = @ \/ q \in others]]
     /\ shows' = [q \in DOMAIN windows \cup {p} |->
                    IF q = p THEN Shown(cs, w) ELSE shows[q]]
     /\ up' = Voided({p})
     /\ UNCHANGED <<block, handVars, itemVars, untidy, moves>>

NoWindow(p) ==
  /\ p \in DOMAIN windows
  /\ windows' = Restrict(windows, DOMAIN windows \ {p})
  /\ shows' = Restrict(shows, DOMAIN shows \ {p})

\* closeContainer(), when its player opens one on something else, changes the
\* world or leaves.
CloseContainer(p) ==
  /\ NoWindow(p)
  /\ up' = Voided({p})
  /\ UNCHANGED <<worldVars, handVars, itemVars, untidy, moves>>

\* handleContainerClose(): the client has closed its window, and is sent what
\* the player has.  What it wrote before has come before.
HandleClose(p) ==
  /\ NoWindow(p) /\ up[p] = << >>
  /\ holds' = [holds EXCEPT ![p] = hand[p]]
  /\ UNCHANGED <<worldVars, hand, waiting, up, itemVars, untidy, moves>>

\* The client swaps what it shows at pos and in its player's slot.
Move(p, pos) ==
  /\ moves < MaxMoves /\ moves' = moves + 1
  /\ p \in DOMAIN windows /\ pos \in Halves(windows[p])
  /\ holds[p] # shows[p][pos]
  /\ up' = [up EXCEPT ![p] = @ \o
              <<[kind |-> "chest", pos |-> pos, item |-> holds[p]],
                [kind |-> "own", item |-> shows[p][pos]]>>]
  /\ shows' = [shows EXCEPT ![p][pos] = holds[p]]
  /\ holds' = [holds EXCEPT ![p] = shows[p][pos]]
  /\ UNCHANGED <<worldVars, windows, hand, waiting, itemVars, untidy>>

\* handleContainerSetSlot() of a chest's slot: the server takes the client's
\* word for it.  The other windows are not told.
WriteChest(pos, item) ==
  /\ chests' = [GetOrCreate(chests, pos) EXCEPT ![pos].slot = item]
  /\ untidy' = (untidy \/ ~IsChest(pos))
  /\ UNCHANGED handVars

\* Of the player's own slot: the write waits in pending_txs for others that make
\* up for it.  Writes to a chest are not among them, so what the player has
\* stays.  When a write waits there already and is too old, the client is sent
\* what the player has.
WriteOwn(p, item) ==
  /\ waiting' = [waiting EXCEPT ![p] = @ \/ item # hand[p]]
  /\ \/ UNCHANGED holds
     \/ waiting[p] /\ item # hand[p] /\ holds' = [holds EXCEPT ![p] = hand[p]]
  /\ UNCHANGED <<chests, hand, untidy>>

HandleSetSlot(p) ==
  /\ up[p] # << >> /\ up' = [up EXCEPT ![p] = Tail(@)]
  /\ LET m == Head(up[p])
     IN \/ m.kind = "chest" /\ WriteChest(m.pos, m.item)
        \/ m.kind = "own" /\ WriteOwn(p, m.item)
        \/ m.kind = "gone" /\ UNCHANGED <<chests, handVars, untidy>>
  /\ UNCHANGED <<block, viewVars, itemVars, moves>>
-----------------------------------------------------------------------------
(***************************************************************************)
(* Hoppers and pickups.                                                    *)
(***************************************************************************)
\* Variant: only the left half of a window is looked at.
ResyncedLeft(cs, pos) ==
  [p \in DOMAIN shows |->
     IF windows[p].left = pos THEN Shown(cs, windows[p]) ELSE shows[p]]

\* resyncOpenContainerAt(): who views pos is shown everything anew.
Resynced(cs, pos) ==
  [p \in DOMAIN shows |->
     IF pos \in Halves(windows[p]) /\ windows[p].left \in DOMAIN cs
     THEN Shown(cs, windows[p]) ELSE shows[p]]

\* A window that is shown anew.
Refreshed(cs, pos) ==
  [p \in DOMAIN windows |->
     IF pos \in Halves(windows[p]) /\ windows[p].left \in DOMAIN cs
     THEN [windows[p] EXCEPT
             !.crossed = \E k \in DOMAIN up[p] : up[p][k].kind = "chest"]
     ELSE windows[p]]

\* tickHoppers() moves an item between the hopper and a chest.
HopperMove(pos) ==
  LET cs == GetOrCreate(chests, pos)
  IN /\ IsChest(pos)
     /\ (hopper = Air) # (cs[pos].slot = Air)
     /\ hopper' = cs[pos].slot
     /\ chests' = [cs EXCEPT ![pos].slot = hopper]
     /\ shows' = Resynced(chests', pos) /\ windows' = Refreshed(chests', pos)
     /\ UNCHANGED <<block, handVars, up, dropped, untidy, moves>>

\* tickHoppers() before that: the hopper takes in what lies on it.
Absorb(i) ==
  /\ hopper = Air /\ dropped[i] > 0
  /\ hopper' = i /\ dropped' = Lying(i, -1)
  /\ UNCHANGED <<worldVars, viewVars, handVars, up, untidy, moves>>

\* tickItemPickups(), which ends with sendInventory().
PickUp(p, i) ==
  /\ hand[p] = Air /\ dropped[i] > 0
  /\ hand' = [hand EXCEPT ![p] = i] /\ holds' = [holds EXCEPT ![p] = i]
  /\ dropped' = Lying(i, -1)
  /\ UNCHANGED <<worldVars, viewVars, waiting, up, hopper, untidy, moves>>

\* Entity::tick(): an item has lain about for five minutes.
Despawn(i) ==
  /\ dropped[i] > 0 /\ dropped' = Lying(i, -1)
  /\ UNCHANGED <<worldVars, viewVars, handVars, up, hopper, untidy, moves>>
-----------------------------------------------------------------------------
Next ==
  \/ \E pos \in Positions :
       \/ \E facing \in Facings : Place(pos, facing)
       \/ Break(pos)
       \/ \E b \in Facings \cup {Air} : Explode(pos, b)
       \/ \E p \in Players : Open(p, pos) \/ Move(p, pos)
       \/ HopperMove(pos)
  \/ SendChunk
  \/ \E i \in Items : Absorb(i) \/ Despawn(i)
  \/ \E p \in Players :
       \/ CloseContainer(p) \/ HandleClose(p) \/ HandleSetSlot(p)
       \/ \E i \in Items : PickUp(p, i)

Spec == Init /\ [][Next]_vars
-----------------------------------------------------------------------------
(***************************************************************************)
(* Properties.                                                             *)
(***************************************************************************)
TypeOK ==
  /\ block \in [Positions -> Facings \cup {Air}]
  /\ DOMAIN chests \subseteq Positions
  /\ \A pos \in DOMAIN chests : chests[pos] \in Chests
  /\ DOMAIN windows \subseteq Players
  /\ \A p \in DOMAIN windows : windows[p] \in Windows
  /\ DOMAIN shows = DOMAIN windows
  /\ \A p \in DOMAIN shows : shows[p] \in [Halves(windows[p]) -> Items \cup {Air}]
  /\ hand \in [Players -> Items \cup {Air}] /\ holds \in [Players -> Items \cup {Air}]
  /\ waiting \in [Players -> BOOLEAN]
  /\ up \in [Players -> Seq(Messages)]
  /\ hopper \in Items \cup {Air}
  /\ dropped \in [Items -> Nat]
  /\ untidy \in BOOLEAN /\ moves \in 0 .. MaxMoves

\* There is an inventory wherever there is a chest, and nowhere else, and
\* pairing goes both ways, between neighbours that face the same way (no chest
\* is in two double chests), as long as nobody changes blocks behind the
\* server's back or writes to a chest that is gone.
PairsMatch ==
  ~untidy =>
    /\ DOMAIN chests = {pos \in Positions : IsChest(pos)}
    /\ \A a \in DOMAIN chests :
         LET b == chests[a].pair
         IN b # Unpaired =>
              /\ b \in {a - 1, a + 1} /\ b \in DOMAIN chests /\ chests[b].pair = a
              /\ block[a] = block[b]

\* The writes to pos under way.
WritesTo(p, pos) ==
  {k \in DOMAIN up[p] : up[p][k].kind = "chest" /\ up[p][k].pos = pos}

\* A client that alone looks at its chests shows what will be in them when its
\* writes have arrived, and so what is in them when none is under way, whatever
\* hoppers do, chests next to them and players elsewhere, and also when the
\* block was blown up; but not when another window was open on one of the
\* chests, the right half was broken, or a hopper's change crossed a write.
SoleViewersSeeTruth ==
  \A p \in DOMAIN windows :
    \/ windows[p].shared \/ windows[p].cut \/ windows[p].crossed
    \/ \A pos \in Halves(windows[p]) :
         \/ WritesTo(p, pos) = {} /\ shows[p][pos] = Content(chests, pos)
         \/ \E k \in WritesTo(p, pos) :
              /\ \A l \in WritesTo(p, pos) : l <= k
              /\ shows[p][pos] = up[p][k].item

\* How many of an item the server has.
Count(i) ==
  Cardinality({p \in Players : hand[p] = i})
    + Cardinality({pos \in DOMAIN chests : chests[pos].slot = i})
    + (IF hopper = i THEN 1 ELSE 0) + dropped[i]

\* Placing, pairing, breaking, blowing up, opening, hoppers, pickups and late
\* writes, in any order, never double an item or lose one that does not lie
\* about too long; a client's write to a chest, for which the server takes its
\* word, is the only thing that does.
ChestWritten ==
  \E p \in Players :
    up[p] # << >> /\ up'[p] = Tail(up[p]) /\ Head(up[p]).kind = "chest"
ItemsKept ==
  [][ChestWritten \/ (\E i \in Items : Despawn(i))
       \/ \A i \in Items : Count(i)' = Count(i)]_vars

\* "wait for more SetSlots (move needs clear-source + set-dest)"
\* (src/server/Server.cpp:3657): when both of a move have come, it was done, and
\* the player has what its client shows.
\* No run checks it, for it does not hold (README, section 4).
MovesAreDone == \A p \in Players : up[p] = << >> => hand[p] = holds[p]

\* "close anyone viewing this container, drop tile contents"
\* (src/server/Server.cpp:225): nobody looks at a chest that was broken.
\* No run checks it, for it does not hold (README, section 4).
BrokenIsClosed == \A p \in DOMAIN windows : ~windows[p].cut
=============================================================================
