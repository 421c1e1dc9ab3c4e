------------------------------ MODULE Presence ------------------------------
(***************************************************************************)
(* Who is where, who sees whom, and who rides what: the worlds, the death  *)
(* and respawn of players, the minecarts, and the two sets known_players   *)
(* and known_entities by which the server remembers what it has shown to   *)
(* each client (src/src/server/Server.cpp, include/mpmpes/entity/          *)
(* Entity.hpp).                                                            *)
(*                                                                         *)
(* A place is a world and a spot in it; players and carts in one spot are  *)
(* in each other's range, and reach.  The packets for a client arrive in   *)
(* order and once (RakReliability), so what a client shows is a function   *)
(* of what was sent to it: shown[v][p] stands for the body of p in v's     *)
(* world and, where it is not "none", for p's id in v's known_players.     *)
(* StartGame clears both.  Carts stand for every entity; a player keeps    *)
(* its id while it is connected and gets a new one when it joins again,    *)
(* which is why a cart can be linked to a Stranger.                        *)
(***************************************************************************)
EXTENDS Naturals, FiniteSets

CONSTANTS
  Players,
  Carts,     \* the entities that may come to exist, by their ids
  Worlds,
  Spots,
  Home,      \* the spot around a world's spawn
  Default,   \* LevelManager::defaultLevel()
  None,
  Stranger   \* an id that nobody has any more

ASSUME ConstantsAssumption ==
  /\ Home \in Spots /\ Default \in Worlds
  /\ None \notin Players \cup Carts
  /\ Stranger \notin Players \cup {None}

VARIABLES
  player,   \* the record of each player, or what its file keeps of it
  cart,     \* the entities of EntityManager
  shown,    \* shown[v][p]: the body of p that v's client draws
  known     \* known_entities of each player

vars == <<player, cart, shown, known>>

\* "dead" has death_ticks_ >= 0.  "limbo" has no health and no death_ticks_:
\* a player that left while dead and was loaded again.
Lives == {"alive", "dead", "limbo"}
Bodies == {"none", "alive", "corpse"}

PlayerRecords ==
  [spawned : BOOLEAN, level : Worlds, spot : Spots, life : Lives,
   riding : Carts \cup {None}]

\* "removed" was announced with RemoveEntity; "lost" was closed inside
\* EntityManager::tick(), which erases it from the table before the loop that
\* would announce it.
CartRecords ==
  [stage : {"unused", "live", "removed", "lost"}, level : Worlds, spot : Spots,
   linked : Players \cup {None, Stranger}]

TypeOK ==
  /\ player \in [Players -> PlayerRecords]
  /\ cart \in [Carts -> CartRecords]
  /\ shown \in [Players -> [Players -> Bodies]]
  /\ known \in [Players -> SUBSET Carts]

Init ==
  /\ player = [p \in Players |->
                 [spawned |-> FALSE, level |-> Default, spot |-> Home,
                  life |-> "alive", riding |-> None]]
  /\ cart = [c \in Carts |->
               [stage |-> "unused", level |-> Default, spot |-> Home,
                linked |-> None]]
  /\ shown = [v \in Players |-> [p \in Players |-> "none"]]
  /\ known = [v \in Players |-> {}]

Live(c) == cart[c].stage = "live"
-----------------------------------------------------------------------------
\* What is sent when.  pl, ct, sh are the players, the carts and the bodies
\* shown at the moment of the call.

Near(pl, v, p) ==
  /\ v # p /\ pl[v].spawned /\ pl[p].spawned
  /\ pl[v].level = pl[p].level /\ pl[v].spot = pl[p].spot

\* spawnPlayerToPlayer(): no corpse is shown as a living player, and nothing
\* is shown twice.
BodyFor(pl, sh, v, p) ==
  IF sh[v][p] = "none" /\ Near(pl, v, p) /\ pl[p].life = "alive"
  THEN "alive"
  ELSE sh[v][p]

BroadcastSpawn(pl, sh, p) ==
  [v \in Players |-> [sh[v] EXCEPT ![p] = BodyFor(pl, sh, v, p)]]

BroadcastDespawn(sh, p) == [v \in Players |-> [sh[v] EXCEPT ![p] = "none"]]

\* syncPlayersToPlayer(): v loses sight of whom it is away from and meets
\* whom it is near.  The others' views of v stay as they are.
SyncPlayers(pl, sh, v) ==
  [sh EXCEPT ![v] =
     [p \in Players |->
        IF Near(pl, v, p) THEN BodyFor(pl, sh, v, p) ELSE "none"]]

SyncEntities(pl, kn, v) ==
  [kn EXCEPT ![v] = @ \cup {c \in Carts : /\ Live(c)
                                          /\ cart[c].level = pl[v].level
                                          /\ cart[c].spot = pl[v].spot}]

\* Variant: the entities of the world that is left are kept.
KnownKept(kn, v) == kn

Forgotten(kn, v) == [kn EXCEPT ![v] = {}]

\* RemoveEntity for those that know c.
EntityGone(kn, c) == [v \in Players |-> kn[v] \ {c}]

\* dismountPlayer(): the player takes the coordinates of the cart, which may
\* be in another world.
DismountedPlayer(pl, p) ==
  LET c == pl[p].riding
  IN [pl EXCEPT ![p].riding = None,
                ![p].spot = IF c \in Carts /\ Live(c) THEN cart[c].spot ELSE @]

DismountedCarts(pl, ct, p) ==
  LET c == pl[p].riding
  IN IF c \in Carts /\ Live(c) THEN [ct EXCEPT ![c].linked = None] ELSE ct
-----------------------------------------------------------------------------
\* Coming and going.

\* handleLogin(): the world and the coordinates come from the player's file;
\* unsafe coordinates are replaced.
Join(p) ==
  /\ ~player[p].spawned
  /\ \E s \in {player[p].spot, Home} :
       player' = [player EXCEPT ![p].spawned = TRUE, ![p].spot = s]
  /\ known' = SyncEntities(player', known, p)
  /\ shown' = BroadcastSpawn(player', SyncPlayers(player', shown, p), p)
  /\ UNCHANGED cart

\* The close callback.  The cart of a rider is not told.
Leave(p) ==
  /\ player[p].spawned
  /\ shown' = [BroadcastDespawn(shown, p) EXCEPT ![p] = [q \in Players |-> "none"]]
  /\ player' = [player EXCEPT
                  ![p].spawned = FALSE, ![p].riding = None,
                  ![p].life = IF @ = "alive" THEN "alive" ELSE "limbo"]
  /\ cart' = [c \in Carts |->
                [cart[c] EXCEPT !.linked = IF @ = p THEN Stranger ELSE @]]
  /\ known' = [known EXCEPT ![p] = {}]

\* changePlayerWorld() to another world, or through a portal.
ChangeWorld(p, w, s) ==
  LET left == BroadcastDespawn(shown, p)
      cleared == [left EXCEPT ![p] = [q \in Players |-> "none"]]
  IN /\ player' = [player EXCEPT ![p].level = w, ![p].spot = s]
     /\ known' = SyncEntities(player', Forgotten(known, p), p)
     /\ shown' = BroadcastSpawn(player', SyncPlayers(player', cleared, p), p)
     /\ UNCHANGED cart

\* /goto; within one world only the coordinates change.
Goto(p, w) ==
  /\ player[p].spawned
  /\ IF w = player[p].level
     THEN /\ player' = [player EXCEPT ![p].spot = Home]
          /\ UNCHANGED <<cart, shown, known>>
     ELSE ChangeWorld(p, w, Home)

\* tickPlayerPortals(): who stands in a portal for 70 ticks, the dead too,
\* comes out at a safe place of the other world.
Portal(p) ==
  /\ player[p].spawned
  /\ \E w \in Worlds \ {player[p].level}, s \in Spots : ChangeWorld(p, w, s)

\* handleMove(): on every tenth tick the mover's own view is brought up to
\* date.  A rider's move changes where it looks and nothing else.
Move(p) ==
  /\ player[p].spawned /\ player[p].life # "dead" /\ player[p].riding = None
  /\ \E s \in Spots : player' = [player EXCEPT ![p].spot = s]
  /\ \/ UNCHANGED <<shown, known>>
     \/ /\ known' = SyncEntities(player', known, p)
        /\ shown' = SyncPlayers(player', shown, p)
  /\ UNCHANGED cart
-----------------------------------------------------------------------------
\* Death and respawn.

\* damagePlayer() takes the last of the health, whatever the cause.
Die(p) ==
  /\ player[p].spawned /\ player[p].life # "dead"
  /\ player' = [player EXCEPT ![p].life = "dead"]
  /\ shown' = [v \in Players |->
                 [shown[v] EXCEPT ![p] =
                    IF @ # "none" /\ player[v].level = player[p].level
                    THEN "corpse" ELSE @]]
  /\ UNCHANGED <<cart, known>>

RespawnedPlayer(p) ==
  [player EXCEPT ![p].life = "alive", ![p].spot = Home]

\* Variant: the corpse is left where it is.
RespawnWithoutDespawn(p) ==
  /\ player[p].spawned /\ player[p].life # "alive"
  /\ player' = RespawnedPlayer(p)
  /\ shown' = SyncPlayers(player', BroadcastSpawn(player', shown, p), p)
  /\ UNCHANGED <<cart, known>>

\* respawnPlayer(), asked for by the client or forced in the void: the corpse
\* is taken away from every viewer before the living body is shown.
Respawn(p) ==
  /\ player[p].spawned /\ player[p].life # "alive"
  /\ player' = RespawnedPlayer(p)
  /\ shown' = SyncPlayers(player',
                BroadcastSpawn(player', BroadcastDespawn(shown, p), p), p)
  /\ UNCHANGED <<cart, known>>
-----------------------------------------------------------------------------
\* Minecarts.

\* placeBlock() with a minecart in hand: every player of the world is told,
\* however far away.
PlaceCart(p, c) ==
  /\ player[p].spawned /\ cart[c].stage = "unused"
  /\ cart' = [cart EXCEPT ![c] = [stage |-> "live", level |-> player[p].level,
                                  spot |-> player[p].spot, linked |-> None]]
  /\ known' = [v \in Players |->
                 IF player[v].spawned /\ player[v].level = player[p].level
                 THEN known[v] \cup {c} ELSE known[v]]
  /\ UNCHANGED <<player, shown>>

Reaches(p, c) ==
  /\ player[p].spawned /\ player[p].life # "dead" /\ Live(c)
  /\ player[p].level = cart[c].level /\ player[p].spot = cart[c].spot

Dismount(p) ==
  /\ player[p].spawned /\ player[p].riding # None
  /\ player' = DismountedPlayer(player, p)
  /\ cart' = DismountedCarts(player, cart, p)
  /\ UNCHANGED <<shown, known>>

\* Variant: the cart the player was on is forgotten.
MountKeepingOld(p, c) ==
  /\ Reaches(p, c) /\ player[p].riding # c
  /\ IF cart[c].linked \in {None, p}
     THEN /\ player' = [player EXCEPT ![p].riding = c]
          /\ cart' = [cart EXCEPT ![c].linked = p]
     ELSE UNCHANGED <<player, cart>>
  /\ UNCHANGED <<shown, known>>

\* handleInteract() on a plain cart: first off the cart one is on, then a
\* look whether the other is occupied.
Mount(p, c) ==
  /\ Reaches(p, c) /\ player[p].riding # c
  /\ LET off == DismountedPlayer(player, p)
         freed == DismountedCarts(player, cart, p)
     IN IF freed[c].linked \in {None, p}
        THEN /\ player' = [off EXCEPT ![p].riding = c]
             /\ cart' = [freed EXCEPT ![c].linked = p]
        ELSE player' = off /\ cart' = freed
  /\ UNCHANGED <<shown, known>>

\* A cart that is hit, or whose TNT goes off: the rider gets off, wherever it
\* is, and those that know the cart are told.  A link to a Stranger goes with
\* the cart.
BreakCart(c) ==
  /\ Live(c)
  /\ LET riders == {p \in Players : player[p].spawned /\ cart[c].linked = p}
     IN player' = [p \in Players |->
                     IF p \in riders THEN DismountedPlayer(player, p)[p]
                     ELSE player[p]]
  /\ cart' = [cart EXCEPT ![c].stage = "removed", ![c].linked = None]
  /\ known' = EntityGone(known, c)
  /\ UNCHANGED shown

\* tickEntities(): a cart moves, or stands, and takes its rider along if that
\* is in its world.
CartTick(c) ==
  /\ Live(c)
  /\ \E s \in Spots :
       /\ cart' = [cart EXCEPT ![c].spot = s]
       /\ player' = [p \in Players |->
                       IF /\ player[p].spawned /\ cart[c].linked = p
                          /\ player[p].level = cart[c].level
                       THEN [player[p] EXCEPT !.spot = s]
                       ELSE player[p]]
  /\ UNCHANGED <<shown, known>>

\* EntityManager::tick(): a cart below the world, like an item that is too
\* old, is closed and erased at once, and nobody is told.
FallOut(c) ==
  /\ Live(c)
  /\ cart' = [cart EXCEPT ![c].stage = "lost"]
  /\ UNCHANGED <<player, shown, known>>

\* Every twentieth tick.
SyncTick ==
  /\ known' = [v \in Players |->
                 IF player[v].spawned THEN SyncEntities(player, known, v)[v]
                 ELSE known[v]]
  /\ UNCHANGED <<player, cart, shown>>

Next ==
  \/ \E p \in Players :
       \/ Join(p) \/ Leave(p) \/ Move(p) \/ Portal(p) \/ Die(p) \/ Respawn(p)
       \/ Dismount(p)
       \/ \E w \in Worlds : Goto(p, w)
       \/ \E c \in Carts : PlaceCart(p, c) \/ Mount(p, c)
  \/ \E c \in Carts : BreakCart(c) \/ CartTick(c) \/ FallOut(c)
  \/ SyncTick

Spec == Init /\ [][Next]_vars
-----------------------------------------------------------------------------
\* Nobody sees somebody who is in another world or gone, nobody sees a body
\* walk that is dead, and nobody sees a corpse of somebody who lives: however
\* deaths, respawns, portals and departures follow one another, and although
\* the others' views are only ever brought up to date by such events.
ShownAsTheyAre ==
  \A v, p \in Players :
    shown[v][p] # "none" =>
      /\ v # p /\ player[v].spawned /\ player[p].spawned
      /\ player[v].level = player[p].level
      /\ shown[v][p] = (IF player[p].life = "dead" THEN "corpse" ELSE "alive")
      /\ player[p].life # "limbo"

\* Both ends of a ride agree: a player on a live cart is the one the cart is
\* linked to, a cart linked to somebody present is the one he is on, and so
\* no cart has two riders.
LinksMatch ==
  \A p \in Players :
    player[p].spawned =>
      \A c \in Carts : Live(c) => (player[p].riding = c <=> cart[c].linked = p)

\* What a client is left with of the entities: those of its own world, and
\* those that were closed inside the tick, whose removal nobody is told.
KnownAreHere ==
  \A v \in Players : \A c \in known[v] :
    /\ player[v].spawned /\ cart[c].level = player[v].level
    /\ cart[c].stage \in {"live", "lost"}

\* "While riding: accept look only.  Position is owned by the minecart tick."
\* (Server.cpp:2800): who rides has a live cart in his own world that carries
\* him.
\* No run checks it, for it does not hold (README, section 4).
PositionIsOwned ==
  \A p \in Players :
    player[p].riding # None =>
      /\ Live(player[p].riding)
      /\ cart[player[p].riding].level = player[p].level
=============================================================================
