------------------------------ MODULE Inventory ------------------------------
(***************************************************************************)
(* The inventory of a survival player (src/server/Server.cpp): the slots   *)
(* the server keeps, the slots his client shows, and what changes them.    *)
(* The client moves items at once and tells the server slot by slot; the   *)
(* server collects these writes in pending_txs until together they neither *)
(* make nor lose an item.  Items are also thrown, picked up, placed,       *)
(* dug and crafted, and the server then sends the whole inventory          *)
(* (sendInventory()), which may cross what the client sends.               *)
(*                                                                         *)
(* Creative players, for whom items are free, are left out, as are tools   *)
(* that wear and windows on containers (Containers).  The client is        *)
(* external: it acts on what it shows, and keeps the server informed of    *)
(* the slot it holds (handleMobEquipment()), which a message names here.   *)
(***************************************************************************)
EXTENDS Integers, Sequences, FiniteSets, Functions

CONSTANTS Types,        \* kinds of items
          Air,
          Slots,        \* inventory and armor slots are 1 .. Slots
          Storage,      \* inventory slots are 1 .. Storage
          MaxStack,     \* 64
          MaxPending,   \* 8
          InType, InCount, OutType, OutCount,   \* the recipe
          Units,        \* bound: items the player has at first
          MaxActs       \* bound: what he does

ASSUME InventoryAssumption ==
  /\ Air \notin Types
  /\ Slots \in Nat /\ Storage \in 1 .. Slots
  /\ MaxStack \in Nat \ {0} /\ MaxPending \in Nat \ {0, 1}
  /\ InType \in Types /\ OutType \in Types \ {InType}
  /\ InCount \in Nat \ {0} /\ OutCount \in 1 .. MaxStack
  /\ Units \in Nat /\ MaxActs \in Nat

VARIABLES
  inventory,   \* the server's slots
  pending,     \* pending_txs: slot -> its content when the write arrived, and
               \* what was written
  old,         \* the pending group is more than 8 s old
  drops,       \* items lying about: stack -> how many such stacks
  world,       \* blocks placed, by type
  shows,       \* the slots the client shows
  up, down,    \* messages to the server, inventories to the client
  crossed,     \* history: the client may show something else than the server
               \* keeps when everything under way has arrived
  acts         \* what the client has done, counted for MaxActs

vars == <<inventory, pending, old, drops, world, shows, up, down, crossed,
          acts>>
-----------------------------------------------------------------------------
Empty == [type |-> Air, count |-> 0]
Stacks == [type : Types, count : 1 .. MaxStack]
SlotContents == Stacks \cup {Empty}
Contents == [1 .. Slots -> SlotContents]

Stack(t, n) == IF n = 0 THEN Empty ELSE [type |-> t, count |-> n]
Less(st, n) == Stack(st.type, st.count - n)

Smaller(m, n) == IF m < n THEN m ELSE n
Positive(n) == IF n > 0 THEN n ELSE 0

\* f[1] + ... + f[n]
SumTo(f, n) ==
  LET sum[i \in 0 .. n] == IF i = 0 THEN 0 ELSE sum[i - 1] + f[i]
  IN sum[n]

\* The items of type t in the slots S of inv.
UnitsIn(inv, S, t) ==
  SumTo([s \in 1 .. Slots |->
           IF s \in S /\ inv[s].type = t THEN inv[s].count ELSE 0], Slots)

Lying(t) == SumTo([n \in 1 .. MaxStack |-> n * drops[Stack(t, n)]], MaxStack)

Total(t) == UnitsIn(inventory, 1 .. Slots, t) + Lying(t) + world[t]

SlotMessage(s, st) == [kind |-> "slot", slot |-> s, item |-> st]

Messages ==
  [kind : {"slot"}, slot : 1 .. Slots, item : SlotContents]
    \cup [kind : {"drop"}, slot : 1 .. Storage, type : Types, full : BOOLEAN]
    \cup [kind : {"place"}, slot : 1 .. Storage, type : Types]
    \cup [kind : {"craft"}]

Init ==
  /\ inventory \in Contents /\ shows = inventory
  /\ pending = << >> /\ old = FALSE
  /\ drops = [st \in Stacks |-> 0] /\ world = [t \in Types |-> 0]
  /\ up = << >> /\ down = << >> /\ crossed = FALSE /\ acts = 0
  /\ SumFunction([t \in Types |-> Total(t)]) = Units
-----------------------------------------------------------------------------
(***************************************************************************)
(* The client.                                                             *)
(***************************************************************************)
\* It has changed what it shows, and tells the server.  When an inventory is
\* on its way to it, that change is about to be overwritten.
Tell(messages) ==
  /\ acts < MaxActs /\ acts' = acts + 1
  /\ up' = up \o messages
  /\ crossed' = (crossed \/ down # << >>)
  /\ UNCHANGED <<inventory, pending, old, drops, world, down>>

\* A move of n items from one slot to another.
MoveItems(a, b, n) ==
  /\ a # b /\ shows[b].type \in {Air, shows[a].type}
  /\ n <= shows[a].count /\ n + shows[b].count <= MaxStack
  /\ LET left == Less(shows[a], n)
         there == Stack(shows[a].type, n + shows[b].count)
     IN /\ shows' = [shows EXCEPT ![a] = left, ![b] = there]
        /\ Tell(<<SlotMessage(a, left), SlotMessage(b, there)>>)

SwapSlots(a, b) ==
  /\ shows[a].type # shows[b].type /\ Air \notin {shows[a].type, shows[b].type}
  /\ shows' = [shows EXCEPT ![a] = shows[b], ![b] = shows[a]]
  /\ Tell(<<SlotMessage(a, shows[b]), SlotMessage(b, shows[a])>>)

\* It throws a whole stack from the slot in its hand, or one item.
ThrowFrom(s, full) ==
  /\ shows[s] # Empty /\ (full => shows[s].count > 1)
  /\ shows' = [shows EXCEPT ![s] = IF full THEN Empty ELSE Less(@, 1)]
  /\ Tell(<<[kind |-> "drop", slot |-> s, type |-> shows[s].type, full |-> full]>>)

PlaceFrom(s) ==
  /\ shows[s] # Empty
  /\ shows' = [shows EXCEPT ![s] = Less(@, 1)]
  /\ Tell(<<[kind |-> "place", slot |-> s, type |-> shows[s].type]>>)

\* It crafts, and waits for the inventory the server will send.
CraftFrom ==
  /\ UnitsIn(shows, 1 .. Storage, InType) >= InCount
  /\ Tell(<<[kind |-> "craft"]>>)
  /\ UNCHANGED shows

ReceiveInventory ==
  /\ down # << >>
  /\ shows' = Head(down) /\ down' = Tail(down)
  /\ UNCHANGED <<inventory, pending, old, drops, world, up, crossed, acts>>
-----------------------------------------------------------------------------
(***************************************************************************)
(* The server.                                                             *)
(***************************************************************************)
\* sendInventory() of the slots as they are now.  When nothing of the client
\* is under way or pending, both sides will agree.
SendInventory ==
  /\ down' = Append(down, inventory')
  /\ crossed' = (up' # << >> \/ pending' # << >>)

SendNothing == UNCHANGED <<down, crossed>>

\* Variant: what the slots hold now is not looked at.
MatchesNow(group) == TRUE

\* Every slot still holds what it held when its write arrived.
Matches(group) == \A s \in DOMAIN group : inventory[s] = group[s].source

\* Together the writes neither make nor lose an item.
Balanced(group) ==
  \A t \in Types :
    UnitsIn([s \in DOMAIN group |-> group[s].source], DOMAIN group, t) =
    UnitsIn([s \in DOMAIN group |-> group[s].target], DOMAIN group, t)

\* Variant: a group that was executed is not cleared.
ExecutedKept(group) ==
  /\ inventory' = [s \in 1 .. Slots |->
                     IF s \in DOMAIN group THEN group[s].target ELSE inventory[s]]
  /\ pending' = group

\* The end of tryExecutePendingTxs().
Executed(group) ==
  /\ inventory' = [s \in 1 .. Slots |->
                     IF s \in DOMAIN group THEN group[s].target ELSE inventory[s]]
  /\ pending' = << >>

\* handleContainerSetSlot(): the writes so far, but for those that are too old,
\* and this one.
HandleSlot(m) ==
  LET expired == old /\ pending # << >>
      before == IF expired THEN << >> ELSE pending
      group == [s \in DOMAIN before \cup {m.slot} |->
                  IF s = m.slot THEN [source |-> inventory[s], target |-> m.item]
                  ELSE before[s]]
  IN \/ /\ m.item = inventory[m.slot]
        /\ UNCHANGED <<inventory, pending, old>> /\ SendNothing
     \/ /\ m.item # inventory[m.slot]
        /\ old' = FALSE
        /\ \/ /\ Matches(group) /\ Balanced(group)
              /\ Executed(group)
              /\ IF expired THEN SendInventory ELSE SendNothing
           \/ /\ ~(Matches(group) /\ Balanced(group))
              /\ pending' = IF Cardinality(DOMAIN group) >= MaxPending
                            THEN << >> ELSE group
              /\ UNCHANGED inventory
              /\ IF expired \/ pending' = << >> THEN SendInventory ELSE SendNothing

FirstOf(t) == {s \in 1 .. Storage : inventory[s].type = t /\
                 \A r \in 1 .. (s - 1) : inventory[r].type # t}

\* playerThrowHeld(): from the slot in the player's hand if that holds such an
\* item, else from the first one that does.
HandleDrop(m) ==
  LET from == IF inventory[m.slot].type = m.type THEN {m.slot} ELSE FirstOf(m.type)
  IN /\ UNCHANGED <<pending, old>>
     /\ \/ from = {} /\ UNCHANGED <<inventory, drops>> /\ SendNothing
        \/ \E s \in from :
             LET thrown == IF m.full THEN inventory[s] ELSE Stack(m.type, 1)
             IN /\ inventory' = [inventory EXCEPT ![s] = Less(@, thrown.count)]
                /\ drops' = [drops EXCEPT ![thrown] = @ + 1]
                /\ SendInventory

\* Variant: a placed block is free.
Unspent(st) == st

\* A block was placed from the slot in the player's hand.
Spent(st) == IF st.count > 1 THEN Less(st, 1) ELSE Empty

\* placeBlock(): the block is what the client says, paid with what the server
\* finds in the player's hand.  When there is a block already, the client is not
\* told that its item is still there.
HandlePlace(m) ==
  /\ UNCHANGED <<pending, old, drops>>
  /\ \/ /\ world' = [world EXCEPT ![m.type] = @ + 1]
        /\ inventory' = [inventory EXCEPT ![m.slot] = Spent(@)]
        /\ SendInventory
     \/ /\ crossed' = TRUE
        /\ UNCHANGED <<inventory, world, down>>

\* Items taken from the slots in order until there are n.
Consumed(inv, t, n) ==
  [s \in 1 .. Slots |->
     IF s <= Storage /\ inv[s].type = t
     THEN Less(inv[s], Smaller(inv[s].count,
                               Positive(n - UnitsIn(inv, 1 .. (s - 1), t))))
     ELSE inv[s]]

\* The room in the slots S for more of type t on top of what they hold.
RoomIn(inv, S, t) ==
  SumTo([s \in 1 .. Slots |->
           IF s \in S /\ inv[s].type = t THEN MaxStack - inv[s].count ELSE 0], Slots)

\* A stack on top of others of its type, in order.
Filled(inv, st) ==
  [s \in 1 .. Slots |->
     IF s <= Storage /\ inv[s].type = st.type
     THEN Stack(st.type, inv[s].count +
                  Smaller(MaxStack - inv[s].count,
                          Positive(st.count - RoomIn(inv, 1 .. (s - 1), st.type))))
     ELSE inv[s]]

FirstEmpty(inv) == {s \in 1 .. Storage : inv[s] = Empty /\
                      \A r \in 1 .. (s - 1) : inv[r] # Empty}

\* What Filled() leaves over goes to the first empty slot, if there is one.
Rest(inv, st) == Stack(st.type, Positive(st.count - RoomIn(inv, 1 .. Storage, st.type)))
Stowed(inv, st) ==
  [s \in 1 .. Slots |->
     IF s \in FirstEmpty(inv) THEN Rest(inv, st) ELSE Filled(inv, st)[s]]
LeftOver(inv, st) == IF FirstEmpty(inv) = {} THEN Rest(inv, st) ELSE Empty

\* handleCraftingEvent(): takes what it finds, and gives what the client says.
HandleCraft ==
  /\ UNCHANGED <<pending, old, drops, world>>
  /\ inventory' = Stowed(Consumed(inventory, InType, InCount), Stack(OutType, OutCount))
  /\ SendInventory

Handle ==
  /\ up # << >> /\ up' = Tail(up)
  /\ LET m == Head(up)
     IN \/ m.kind = "slot" /\ HandleSlot(m) /\ UNCHANGED <<drops, world>>
        \/ m.kind = "drop" /\ HandleDrop(m) /\ UNCHANGED world
        \/ m.kind = "place" /\ HandlePlace(m)
        \/ m.kind = "craft" /\ HandleCraft
  /\ UNCHANGED <<shows, acts>>

\* tickItemPickups(): a stack near the player, as much of it as there is room
\* for.
PickUp(st) ==
  /\ drops[st] > 0 /\ LeftOver(inventory, st) # st
  /\ inventory' = Stowed(inventory, st)
  /\ drops' = [d \in Stacks |->
                 drops[d] + (IF d = LeftOver(inventory, st) THEN 1 ELSE 0)
                          - (IF d = st THEN 1 ELSE 0)]
  /\ UNCHANGED <<up, pending>> /\ SendInventory
  /\ UNCHANGED <<old, world, shows, acts>>

\* breakBlock(): a block is dug and drops its item.
Dig(t) ==
  /\ world[t] > 0
  /\ world' = [world EXCEPT ![t] = @ - 1]
  /\ drops' = [drops EXCEPT ![Stack(t, 1)] = @ + 1]
  /\ UNCHANGED <<inventory, pending, old, shows, up, down, crossed, acts>>

\* EntityManager::tick(): a stack has lain about for five minutes, or fell out
\* of the world.
Despawn(st) ==
  /\ drops[st] > 0
  /\ drops' = [drops EXCEPT ![st] = @ - 1]
  /\ UNCHANGED <<inventory, pending, old, world, shows, up, down, crossed, acts>>

Despawns == \E st \in Stacks : Despawn(st)

\* 8 s pass.
Pass ==
  /\ pending # << >> /\ ~old /\ old' = TRUE
  /\ UNCHANGED <<inventory, pending, drops, world, shows, up, down, crossed, acts>>
-----------------------------------------------------------------------------
ClientNext ==
  \/ \E a, b \in 1 .. Slots :
       SwapSlots(a, b) \/ \E n \in 1 .. MaxStack : MoveItems(a, b, n)
  \/ \E s \in 1 .. Storage :
       PlaceFrom(s) \/ \E full \in BOOLEAN : ThrowFrom(s, full)
  \/ CraftFrom
  \/ ReceiveInventory

Next ==
  \/ ClientNext
  \/ Handle
  \/ \E st \in Stacks : PickUp(st)
  \/ \E t \in Types : Dig(t)
  \/ Despawns
  \/ Pass

Spec == Init /\ [][Next]_vars
-----------------------------------------------------------------------------
(***************************************************************************)
(* Properties.                                                             *)
(***************************************************************************)
TypeOK ==
  /\ inventory \in Contents /\ shows \in Contents
  /\ DOMAIN pending \subseteq 1 .. Slots
  /\ \A s \in DOMAIN pending :
       pending[s] \in [source : SlotContents, target : SlotContents]
  /\ drops \in [Stacks -> Nat] /\ world \in [Types -> Nat]
  /\ up \in Seq(Messages) /\ down \in Seq(Contents)
  /\ old \in BOOLEAN /\ crossed \in BOOLEAN /\ acts \in 0 .. MaxActs

\* Whatever order writes, pickups, throws and inventories come in, and however
\* stale what the client acts on, no step makes or loses an item, but for
\* placing and crafting, which take the client's word, and the despawning of
\* what nobody picks up.
Handles(kinds) == up # up' /\ up # << >> /\ Len(up') < Len(up) /\ Head(up).kind \in kinds
Conserved ==
  [][\/ Handles({"place", "craft"})
     \/ Despawns
     \/ \A t \in Types : Total(t)' = Total(t)]_vars

\* The items in what they are worth by the recipe.
Worth == OutCount * Total(InType) + InCount * Total(OutType)

\* A player whose client shows what the server keeps gets nothing for nothing:
\* a block is placed for an item of its type, a result crafted for all of its
\* ingredients; and he loses nothing but a result there is no room for, and what
\* he leaves lying about.
Paid ==
  [][~crossed => \/ Worth' = Worth
                 \/ Despawns
                 \/ /\ Handles({"craft"}) /\ Worth' < Worth
                    /\ FirstEmpty(inventory') = {}]_vars

\* When nothing is under way, client and server show the same and nothing is
\* pending, unless an inventory has crossed what the client sent and was not
\* followed by another one.
ViewsAgree ==
  ~crossed /\ up = << >> /\ down = << >> => shows = inventory /\ pending = << >>
=============================================================================
