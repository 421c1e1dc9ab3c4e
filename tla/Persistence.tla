---------------------------- MODULE Persistence ----------------------------
(***************************************************************************)
(* What the server keeps in files and what it finds there when it starts:  *)
(* the players (src/src/player/Player.cpp), the chunks of a world and its  *)
(* tables of chests and hoppers (src/src/level/Chunk.cpp, Level.cpp), and  *)
(* the saves of src/src/server/Server.cpp.                                 *)
(*                                                                         *)
(* A file is truncated and written in place, one after the other, so a     *)
(* crash leaves the files before it new, the ones after it old, and cuts   *)
(* off the one it hits.  Everything else runs under Server::game_mutex_    *)
(* and is one step.  A position stands for a chunk and one block in it     *)
(* that matters; generated terrain is "air" there.  Furnaces and signs are *)
(* kept like chests and hoppers, and further worlds like this one.  Items  *)
(* are things of which there is one each, so that two of one are a         *)
(* duplicate; nothing a new player starts with is among them.  Survival.   *)
(***************************************************************************)
EXTENDS Naturals, FiniteSets, Functions

CONSTANTS
  Players,    \* names, each with a file of its own
  Positions,
  Items,
  None,
  MaxActs     \* bound on the steps that are not saves, joins and restarts

ASSUME ConstantsAssumption == MaxActs \in Nat /\ None \notin Positions

VARIABLES
  online,     \* the spawned players
  inventory,  \* what they carry
  chunk,      \* chunks_: the block at a position, "none" if not loaded
  dirty,      \* the chunks with dirty_
  tile,       \* chests_ and hoppers_: position -> contents
  ground,     \* what lies about, or is in a minecart
  disk,       \* the files
  unsettled,  \* history: items moved since everything was last saved
  spoilt,     \* history: items that a client wrote into a container or out of
              \* it, that were unsettled at a crash, or in the file it cut off
  lost,       \* history: items that lay about too long, or when the server
              \* went down
  acts        \* history: how many steps of play there were

memory == <<online, inventory, chunk, dirty, tile, ground>>
vars == <<memory, disk, unsettled, spoilt, lost, acts>>

Containers == {"chest", "hopper"}
Blocks == Containers \cup {"air"}

Tables == UNION {[D -> SUBSET Items] : D \in SUBSET Positions}

Disks ==
  [players : UNION {[D -> SUBSET Items] : D \in SUBSET Players},
   chunks : UNION {[D -> Blocks] : D \in SUBSET Positions},
   tiles : [Containers -> Tables]]

TypeOK ==
  /\ online \subseteq Players
  /\ inventory \in [Players -> SUBSET Items]
  /\ chunk \in [Positions -> Blocks \cup {"none"}]
  /\ dirty \subseteq Positions
  /\ tile \in [Containers -> Tables]
  /\ disk \in Disks
  /\ ground \cup unsettled \cup spoilt \cup lost \subseteq Items
  /\ acts \in 0 .. MaxActs

\* A start on the files of a world that was built before, and in which nothing
\* was stored yet.
Init ==
  /\ online = {} /\ inventory = [p \in Players |-> {}]
  /\ chunk = [q \in Positions |-> "none"] /\ dirty = {}
  /\ \E built \in [Positions -> Blocks] :
       disk = [players |-> [p \in {} |-> {}], chunks |-> built,
               tiles |-> [k \in Containers |->
                            [q \in {q \in Positions : built[q] = k} |-> {}]]]
  /\ tile = disk.tiles
  /\ ground = Items
  /\ unsettled = {} /\ spoilt = {} /\ lost = {} /\ acts = 0

Put(f, x, v) == [y \in DOMAIN f \cup {x} |-> IF y = x THEN v ELSE f[y]]
Without(f, x) == Restrict(f, DOMAIN f \ {x})
-----------------------------------------------------------------------------
\* Files.

PlayerFiles == {"player"} \X Players
ChunkFiles == {"chunk"} \X Positions
TableFiles == {"table"} \X Containers

\* LevelManager::saveAll(): the chunks, all that are loaded or those that
\* changed, and the tables.
SaveAll(force) ==
  ({"chunk"} \X (IF force THEN {q \in Positions : chunk[q] # "none"} ELSE dirty))
    \cup TableFiles

\* saveEverything(): the spawned players, and then the worlds.
ToWrite(force) == ({"player"} \X online) \cup SaveAll(force)

\* The order of the files in it.
Rank(f) ==
  CASE f \in PlayerFiles -> 0
    [] f \in ChunkFiles -> 1
    [] f = <<"table", "chest">> -> 2
    [] OTHER -> 3

\* How far one can get with the files of W; those of one rank come in any order.
Progress(W) ==
  {S \in SUBSET W : \A f \in S, g \in W : Rank(g) < Rank(f) => g \in S}

\* What savePlayer(), saveToFile(), saveChests() and saveHoppers() leave in the
\* files of F.
WrittenPlayers(F) ==
  [p \in DOMAIN disk.players \cup {p \in Players : <<"player", p>> \in F} |->
     IF <<"player", p>> \in F THEN inventory[p] ELSE disk.players[p]]

WrittenChunks(F) ==
  [q \in DOMAIN disk.chunks \cup {q \in Positions : <<"chunk", q>> \in F} |->
     IF <<"chunk", q>> \in F THEN chunk[q] ELSE disk.chunks[q]]

WrittenTables(F) ==
  [k \in Containers |-> IF <<"table", k>> \in F THEN tile[k] ELSE disk.tiles[k]]

Written(F) == [players |-> WrittenPlayers(F), chunks |-> WrittenChunks(F),
               tiles |-> WrittenTables(F)]

\* What loadChests() and loadHoppers() find in a table that was cut off: some
\* of its records, and a last one with some of its slots or, if it ended before
\* them, with none and at some other place, where it may replace one.
CutTables(t) ==
  UNION {{f \in [D -> SUBSET Items] :
            \E last \in Positions \cup {None} : \A q \in D :
              IF q = last THEN f[q] \subseteq (IF q \in DOMAIN t THEN t[q] ELSE {})
              ELSE q \in DOMAIN t /\ f[q] = t[q]} :
         D \in SUBSET Positions}

\* A player whose file ends too early has what loadPlayer() gets of it, or is
\* not known any more.
CutPlayers(d, p) ==
  {Without(d.players, p)} \cup {Put(d.players, p, part) : part \in SUBSET inventory[p]}

\* loadFromFile() reads a chunk as a whole or not at all.
CutChunks(d, q) == Without(d.chunks, q)

\* The disks on which the writing of f was cut off.
Cut(d, f) ==
  CASE f \in PlayerFiles -> {[d EXCEPT !.players = ps] : ps \in CutPlayers(d, f[2])}
    [] f \in ChunkFiles -> {[d EXCEPT !.chunks = CutChunks(d, f[2])]}
    [] OTHER -> {[d EXCEPT !.tiles[f[2]] = t] : t \in CutTables(tile[f[2]])}

\* What was to be in f.
ItemsOf(f) ==
  CASE f \in PlayerFiles -> inventory[f[2]]
    [] f \in ChunkFiles -> {}
    [] OTHER -> UNION {tile[f[2]][q] : q \in DOMAIN tile[f[2]]}

\* A start on the files d: LevelManager::create() reads the tables, chunks and
\* players are read when they are needed, and nothing else is kept.
StartOn(d) ==
  /\ disk' = d
  /\ tile' = d.tiles
  /\ online' = {} /\ inventory' = [p \in Players |-> {}]
  /\ chunk' = [q \in Positions |-> "none"] /\ dirty' = {}
  /\ ground' = {}
  /\ lost' = lost \cup ground
-----------------------------------------------------------------------------
\* Saves and restarts.

\* A save after which the chunks whose files could not be written are clean.
AutosaveOptimistic ==
  /\ \E bad \in SUBSET dirty, gone \in SUBSET dirty :
       LET d == Written(ToWrite(FALSE) \ ({"chunk"} \X bad))
       IN disk' = [d EXCEPT !.chunks = Restrict(@, DOMAIN @ \ (gone \cap bad))]
  /\ dirty' = {}
  /\ unsettled' = {}
  /\ UNCHANGED <<online, inventory, chunk, tile, ground, spoilt, lost, acts>>

\* tickAutosave().  A chunk that could not be written stays dirty, and its file
\* is as it was or, where the write failed half way, of no use.
Autosave ==
  \E bad \in SUBSET dirty, gone \in SUBSET dirty :
    LET d == Written(ToWrite(FALSE) \ ({"chunk"} \X bad))
    IN /\ disk' = [d EXCEPT !.chunks = Restrict(@, DOMAIN @ \ (gone \cap bad))]
       /\ dirty' = bad
       /\ unsettled' = {}
       /\ UNCHANGED <<online, inventory, chunk, tile, ground, spoilt, lost, acts>>

\* stop() or the stop command, and a start.
Restart ==
  /\ StartOn(Written(ToWrite(TRUE)))
  /\ unsettled' = {}
  /\ UNCHANGED <<spoilt, acts>>

\* What may be being written: nothing, an autosave, the last save, or the file
\* of a player that leaves.
Underway == {{}, ToWrite(FALSE), ToWrite(TRUE)} \cup {{<<"player", p>>} : p \in online}

Crash ==
  /\ \E W \in Underway : \E S \in Progress(W) :
       \/ /\ StartOn(Written(S))
          /\ spoilt' = spoilt \cup unsettled
       \/ \E f \in W \ S :
            /\ S \cup {f} \in Progress(W)
            /\ \E d \in Cut(Written(S), f) : StartOn(d)
            /\ spoilt' = spoilt \cup unsettled \cup ItemsOf(f)
  /\ unsettled' = {}
  /\ UNCHANGED acts

\* handleLogin(): a player without a readable file is a new one, and has the
\* starter inventory.
Join(p) ==
  /\ p \notin online
  /\ online' = online \cup {p}
  /\ inventory' = [inventory EXCEPT
                     ![p] = IF p \in DOMAIN disk.players THEN disk.players[p] ELSE {}]
  /\ UNCHANGED <<chunk, dirty, tile, ground, disk, unsettled, spoilt, lost, acts>>

\* PlayerManager::remove().
Leave(p) ==
  /\ p \in online
  /\ disk' = Written({<<"player", p>>})
  /\ online' = online \ {p}
  /\ inventory' = [inventory EXCEPT ![p] = {}]
  /\ UNCHANGED <<chunk, dirty, tile, ground, unsettled, spoilt, lost, acts>>

\* The tiles are not looked at.
LoadChunkOnly(q) ==
  /\ chunk[q] = "none"
  /\ chunk' = [chunk EXCEPT ![q] = IF q \in DOMAIN disk.chunks THEN disk.chunks[q] ELSE "air"]
  /\ dirty' = IF q \in DOMAIN disk.chunks THEN dirty ELSE dirty \cup {q}
  /\ UNCHANGED <<online, inventory, tile, ground, disk, unsettled, spoilt, lost, acts>>

\* getOrCreateChunk(): from its file, and then hoppers get the tile they lack;
\* or generated anew, and dirty.
LoadChunk(q) ==
  /\ chunk[q] = "none"
  /\ IF q \in DOMAIN disk.chunks
     THEN /\ chunk' = [chunk EXCEPT ![q] = disk.chunks[q]]
          /\ tile' = IF disk.chunks[q] = "hopper" /\ q \notin DOMAIN tile["hopper"]
                     THEN [tile EXCEPT !["hopper"] = Put(@, q, {})] ELSE tile
          /\ UNCHANGED dirty
     ELSE /\ chunk' = [chunk EXCEPT ![q] = "air"]
          /\ dirty' = dirty \cup {q}
          /\ UNCHANGED tile
  /\ UNCHANGED <<online, inventory, ground, disk, unsettled, spoilt, lost, acts>>
-----------------------------------------------------------------------------
\* Play.

\* Chunk::setBlock().
SetBlock(q, b) ==
  /\ chunk' = [chunk EXCEPT ![q] = b]
  /\ dirty' = dirty \cup {q}

\* getOrCreateChest(), getOrCreateHopper(): what the table has under the
\* position is taken for the new block's, whoever left it there.
Created(tl, k, q) ==
  IF q \in DOMAIN tl[k] THEN tl ELSE [tl EXCEPT ![k] = Put(@, q, {})]

\* placeBlock().
Place(q, k) ==
  /\ chunk[q] = "air"
  /\ SetBlock(q, k)
  /\ tile' = Created(tile, k, q)
  /\ UNCHANGED <<online, inventory, ground, unsettled, spoilt, lost>>

\* breakBlock(): the contents drop.
Break(q) ==
  /\ chunk[q] \in Containers
  /\ SetBlock(q, "air")
  /\ LET k == chunk[q]
         dropped == IF q \in DOMAIN tile[k] THEN tile[k][q] ELSE {}
     IN /\ tile' = [tile EXCEPT ![k] = Without(@, q)]
        /\ ground' = ground \cup dropped
        /\ unsettled' = unsettled \cup dropped
  /\ UNCHANGED <<online, inventory, spoilt, lost>>

\* A TNT minecart goes off: blocks only.
Explode(q) ==
  /\ chunk[q] \in Containers
  /\ SetBlock(q, "air")
  /\ UNCHANGED <<online, inventory, tile, ground, unsettled, spoilt, lost>>

\* handleContainerSetSlot(): the server takes a client's word that an item is
\* in an open container.  If the client had it in the inventory it stays there:
\* the write to its slot waits in pending_txs.  What the client shows may be
\* out of date, so it can be any item.
Store(p, q, i) ==
  /\ p \in online /\ chunk[q] \in Containers
  /\ tile' = [Created(tile, chunk[q], q) EXCEPT ![chunk[q]][q] = @ \cup {i}]
  /\ spoilt' = spoilt \cup {i}
  /\ UNCHANGED <<online, inventory, chunk, dirty, ground, lost>>

\* And that it is there no more; the inventory does not get it.
Take(p, q, i) ==
  /\ p \in online /\ chunk[q] \in Containers
  /\ q \in DOMAIN tile[chunk[q]] /\ i \in tile[chunk[q]][q]
  /\ tile' = [tile EXCEPT ![chunk[q]][q] = @ \ {i}]
  /\ spoilt' = spoilt \cup {i}
  /\ UNCHANGED <<online, inventory, chunk, dirty, ground, lost>>

\* dropItemInWorld() and tickItemPickups().
Drop(p, i) ==
  /\ p \in online /\ i \in inventory[p]
  /\ inventory' = [inventory EXCEPT ![p] = @ \ {i}]
  /\ ground' = ground \cup {i}
  /\ UNCHANGED <<online, chunk, dirty, tile, spoilt, lost>>

PickUp(p, i) ==
  /\ p \in online /\ i \in ground
  /\ inventory' = [inventory EXCEPT ![p] = @ \cup {i}]
  /\ ground' = ground \ {i}
  /\ UNCHANGED <<online, chunk, dirty, tile, spoilt, lost>>

\* EntityManager::tick(): it has lain about for five minutes, or fell out of
\* the world.
Despawn(i) ==
  /\ i \in ground /\ ground' = ground \ {i} /\ lost' = lost \cup {i}
  /\ UNCHANGED <<online, inventory, chunk, dirty, tile, spoilt>>

\* tickHoppers(): a hopper takes in what lies on it.
Absorb(q, i) ==
  /\ chunk[q] = "hopper" /\ i \in ground
  /\ tile' = [Created(tile, "hopper", q) EXCEPT !["hopper"][q] = @ \cup {i}]
  /\ ground' = ground \ {i}
  /\ UNCHANGED <<online, inventory, chunk, dirty, spoilt, lost>>

\* Then, or if there is nothing: a hopper at q, or one that empties into q.
HopperMove(q, r, i) ==
  /\ q # r /\ chunk[q] \in Containers /\ chunk[r] \in Containers
  /\ "hopper" \in {chunk[q], chunk[r]}
  /\ q \in DOMAIN tile[chunk[q]] /\ i \in tile[chunk[q]][q]
  /\ tile' = [Created([tile EXCEPT ![chunk[q]][q] = @ \ {i}], chunk[r], r)
                EXCEPT ![chunk[r]][r] = @ \cup {i}]
  /\ UNCHANGED <<online, inventory, chunk, dirty, ground, spoilt, lost>>

Play ==
  \/ \E q \in Positions : Break(q) \/ Explode(q) \/ \E k \in Containers : Place(q, k)
  \/ \E i \in Items :
       /\ \/ \E p \in Players :
               \/ Drop(p, i) \/ PickUp(p, i)
               \/ \E q \in Positions : Store(p, q, i) \/ Take(p, q, i)
          \/ Despawn(i) \/ \E q \in Positions : Absorb(q, i)
          \/ \E q, r \in Positions : HopperMove(q, r, i)
       /\ unsettled' = unsettled \cup {i}

Next ==
  \/ acts < MaxActs /\ Play /\ acts' = acts + 1 /\ UNCHANGED disk
  \/ \E p \in Players : Join(p) \/ Leave(p)
  \/ \E q \in Positions : LoadChunk(q)
  \/ Autosave \/ Restart \/ Crash

Spec == Init /\ [][Next]_vars
-----------------------------------------------------------------------------
\* The places an item is in, or would be in once its player has joined.
Places(i) ==
  {<<"player", p>> : p \in
     {p \in Players : IF p \in online THEN i \in inventory[p]
                      ELSE p \in DOMAIN disk.players /\ i \in disk.players[p]}}
  \cup (UNION {{<<k, q>> : q \in {q \in DOMAIN tile[k] : i \in tile[k][q]}} :
                 k \in Containers})
  \cup (IF i \in ground THEN {<<"ground", None>>} ELSE {})
  \cup (IF i \in lost THEN {<<"lost", None>>} ELSE {})

\* Breaking, hoppers, drops, pickups, despawning, saves, restarts and players
\* coming and going leave an item in one place; and so does a crash, whatever
\* was saved of the rest, if the item did not move since the last save and was
\* not in the file the crash hit.  Not so when a client wrote it into a
\* container or out of one.
ItemsSurvive == \A i \in Items \ spoilt : Cardinality(Places(i)) = 1

\* A loaded chunk that is not dirty is on disk as it is in memory: no edit is
\* ever left out of all later saves, though writes may fail.
CleanIsOnDisk ==
  \A q \in Positions :
    chunk[q] # "none" /\ q \notin dirty =>
      q \in DOMAIN disk.chunks /\ disk.chunks[q] = chunk[q]

\* "Register orphan hopper tiles ... (hoppers.dat may miss blocks that still
\* exist in chunk terrain)" (Level.cpp:105): after every crash, a hopper in a
\* loaded chunk has its tile, without which it would never be ticked.
HoppersHaveTiles ==
  \A q \in Positions : chunk[q] = "hopper" => q \in DOMAIN tile["hopper"]
=============================================================================
